------------------------------ MODULE SshStream ------------------------------
(***************************************************************************)
(* One file transfer over a child ssh process: StreamingChild, the reader  *)
(* threads that drain the child's output, the staged write of the remote   *)
(* shell and the staged download (ssh.rs), and the in-place write of a     *)
(* generic ssh host (SshFs::write in sync.rs).                             *)
(*                                                                         *)
(* The actors: the calling thread, one reader thread per output pipe it    *)
(* does not read itself, the ssh process with the remote shell behind it,  *)
(* and a helper (a ProxyCommand, the multiplexing master) that inherited   *)
(* the output pipes and may keep them open, and write to them, for ever.   *)
(* Pipes are bounded: a writer of a full pipe waits.                       *)
(*                                                                         *)
(* A chunk of data is an element: how many there are is all that matters.  *)
(* Bounds: Total chunks of payload, PipeSize chunks in a pipe, MaxNoise    *)
(* chunks of other output per pipe.                                        *)
(***************************************************************************)
EXTENDS Integers, Sequences, FiniteSets

CONSTANTS
  Kinds,     \* the kinds of transfer: a subset of AllKinds
  Total,     \* chunks of the file, as its size says
  PipeSize,  \* capacity of a pipe
  MaxNoise   \* bound on what the remote side prints on one pipe

AllKinds == {"upload", "write", "download"}

ASSUME StreamAssumption ==
  /\ Kinds \subseteq AllKinds
  /\ Total \in Nat \ {0}
  /\ PipeSize \in Nat \ {0}
  /\ MaxNoise \in Nat

VARIABLES
  kind,       \* upload: staged remote write; write: in place; download: staged local write
  source,     \* chunks the source really yields
  main,       \* where the calling thread is
  fed,        \* chunks of the source the calling thread passed on
  failed,     \* did the copy loop return an error?
  result,     \* what the call returned
  reader,     \* the reader thread of each output pipe
  got,        \* chunks of the child's output each reader thread collected
  drain,      \* DrainCancellation.drain_queued
  cancelled,  \* has DrainCancellation.writer been closed?
  stdin,      \* chunks queued in the child's stdin
  stdinOpen,  \* does the calling thread still hold the child's stdin?
  pipe,       \* the output pipes: chunks of the child and of the helper
  said,       \* chunks of the child each output pipe has taken
  ssh,        \* the child process
  code,       \* exit code of the remote shell
  status,     \* exit status of the child, once it has exited
  link,       \* the connection: up, lost, or closed by the calling thread
  shell,      \* where the remote shell is
  saying,     \* the pipe the remote side is blocked on, or "none"
  helper,     \* does the helper still hold the pipes?
  temp,       \* chunks in the staging file (the file itself for "write"), or NoTemp
  dest        \* what a reader of the destination finds

callVars == <<main, fed, failed, result>>
drainVars == <<reader, got, drain, cancelled>>
pipeVars == <<stdin, stdinOpen, pipe, said>>
remoteVars == <<ssh, status, code, link, shell, saying>>
fileVars == <<temp, dest>>
vars == <<kind, source, callVars, drainVars, pipeVars, remoteVars, helper, fileVars>>

Output == {"out", "err"}
NoTemp == -1
Up == kind \in {"upload", "write"}

\* With a stdin to feed, both outputs get a reader thread; otherwise the
\* calling thread reads stdout itself.
Threaded == IF Up THEN Output ELSE {"err"}

\* The pipes a lingering helper holds.  A download ends at the end of stdout,
\* so it relies on the helper not holding that one.
Held == Threaded

TypeOK ==
  /\ kind \in Kinds /\ source \in 0..(Total + 1)
  /\ main \in {"copy", "close", "wait", "flag", "wake", "join", "report", "rename",
               "cancel", "kill", "drop", "done"}
  /\ fed \in 0..(Total + 1) /\ failed \in BOOLEAN
  /\ result \in {"pending", "ok", "failed", "died"}
  /\ reader \in [Output -> {"none", "reading", "done"}]
  /\ got \in [Output -> Nat] /\ drain \in BOOLEAN /\ cancelled \in BOOLEAN
  /\ stdin \in 0..PipeSize /\ stdinOpen \in BOOLEAN
  /\ \A p \in Output : pipe[p] \in Seq({"child", "helper"}) /\ Len(pipe[p]) <= PipeSize
  /\ said \in [Output -> Nat]
  /\ ssh \in {"running", "exited"}
  /\ status \in {"none", "ok", "error"} /\ code \in {"none", "ok", "error"}
  /\ link \in {"up", "lost", "closed"}
  /\ shell \in {"start", "cat", "check", "move", "trap", "gone", "killed"}
  /\ saying \in Output \cup {"none"} /\ helper \in BOOLEAN
  /\ temp \in {NoTemp} \cup 0..(Total + 1) /\ dest \in {"old", "torn", "new"}

Init ==
  /\ kind \in Kinds
  /\ source \in (IF kind = "upload" THEN 0..(Total + 1) ELSE {Total})
  /\ main = "copy" /\ fed = 0 /\ failed = FALSE /\ result = "pending"
  /\ reader = [p \in Output |-> IF p \in Threaded THEN "reading" ELSE "none"]
  /\ got = [p \in Output |-> 0] /\ drain = FALSE /\ cancelled = FALSE
  /\ stdin = 0 /\ stdinOpen = Up
  /\ pipe = [p \in Output |-> <<>>] /\ said = [p \in Output |-> 0]
  /\ ssh = "running" /\ status = "none" /\ code = "none"
  /\ link = "up" /\ shell = "start" /\ saying = "none"
  /\ helper = TRUE
  /\ temp = (IF kind = "download" THEN 0 ELSE NoTemp) /\ dest = "old"
-----------------------------------------------------------------------------
(* The calling thread: the copy loop.                                      *)

\* copy_with_progress into the child's stdin: one chunk into a pipe with room.
Feed ==
  /\ main = "copy" /\ Up /\ ssh = "running" /\ fed < source /\ stdin < PipeSize
  /\ fed' = fed + 1 /\ stdin' = stdin + 1
  /\ UNCHANGED <<kind, source, main, failed, result, drainVars, stdinOpen, pipe, said,
                 remoteVars, helper, fileVars>>

\* Nobody reads the pipe any more: write_all fails.
FeedBroken ==
  /\ main = "copy" /\ Up /\ ssh = "exited" /\ fed < source
  /\ failed' = TRUE /\ main' = "close"
  /\ UNCHANGED <<kind, source, fed, result, drainVars, pipeVars, remoteVars, helper, fileVars>>

\* The local file cannot be read to its end.
SourceFails ==
  /\ main = "copy" /\ kind = "upload" /\ fed < source
  /\ failed' = TRUE /\ main' = "close"
  /\ UNCHANGED <<kind, source, fed, result, drainVars, pipeVars, remoteVars, helper, fileVars>>

SourceEnds ==
  /\ main = "copy" /\ Up /\ fed = source
  /\ main' = "close"
  /\ UNCHANGED <<kind, source, fed, failed, result, drainVars, pipeVars, remoteVars, helper,
                 fileVars>>

\* copy_with_progress from the child's stdout into the staging file.
Pull ==
  /\ main = "copy" /\ ~Up /\ pipe["out"] # <<>>
  /\ pipe' = [pipe EXCEPT !["out"] = Tail(@)]
  /\ temp' = temp + 1
  /\ UNCHANGED <<kind, source, callVars, drainVars, stdin, stdinOpen, said, remoteVars,
                 helper, dest>>

PullEnds ==
  /\ main = "copy" /\ ~Up /\ pipe["out"] = <<>> /\ ssh = "exited"
  /\ main' = "wait"
  /\ UNCHANGED <<kind, source, fed, failed, result, drainVars, pipeVars, remoteVars, helper,
                 fileVars>>

\* The staging file cannot be written.
PullFails ==
  /\ main = "copy" /\ ~Up /\ pipe["out"] # <<>>
  /\ failed' = TRUE /\ main' = "cancel"
  /\ UNCHANGED <<kind, source, fed, result, drainVars, pipeVars, remoteVars, helper, fileVars>>

-----------------------------------------------------------------------------
(* The calling thread: finish, finish_upload, wait_for_output and drop.    *)

\* Mutant of AfterClose: a failed upload kills ssh like every other transfer.
AfterCloseKills == IF failed THEN "cancel" ELSE "wait"

\* finish gives up on a transfer error; finish_upload lets the remote shell
\* see the end of its input and clean up, whatever happened.
AfterClose == IF failed /\ kind # "upload" THEN "cancel" ELSE "wait"

CloseStdin ==
  /\ main = "close"
  /\ stdinOpen' = FALSE /\ main' = AfterClose
  /\ UNCHANGED <<kind, source, fed, failed, result, drainVars, stdin, pipe, said, remoteVars,
                 helper, fileVars>>

\* wait_for_output: reap the child ...
Wait ==
  /\ main = "wait" /\ ssh = "exited"
  /\ main' = "flag"
  /\ UNCHANGED <<kind, source, fed, failed, result, drainVars, pipeVars, remoteVars, helper,
                 fileVars>>

\* Mutant of ChildExited: the readers are woken before they are told to drain.
ChildExitedWakesFirst ==
  /\ \/ main = "flag" /\ main' = "wake" /\ cancelled' = TRUE /\ UNCHANGED drain
     \/ main = "wake" /\ main' = "join" /\ drain' = TRUE /\ UNCHANGED cancelled
  /\ UNCHANGED <<kind, source, fed, failed, result, reader, got, pipeVars, remoteVars, helper,
                 fileVars>>

\* ... tell the readers that all its output is there, then wake them ...
ChildExited ==
  /\ \/ main = "flag" /\ main' = "wake" /\ drain' = TRUE /\ UNCHANGED cancelled
     \/ main = "wake" /\ main' = "join" /\ cancelled' = TRUE /\ UNCHANGED drain
  /\ UNCHANGED <<kind, source, fed, failed, result, reader, got, pipeVars, remoteVars, helper,
                 fileVars>>

ReadersDone == \A p \in Output : reader[p] # "reading"

\* ... and join them.
Join ==
  /\ main = "join" /\ ReadersDone
  /\ main' = "report"
  /\ UNCHANGED <<kind, source, fed, failed, result, drainVars, pipeVars, remoteVars, helper,
                 fileVars>>

\* The transfer error first, then checked: the exit status.
Succeeded == ~failed /\ status = "ok"

\* What finish returns, and for a download what download_to_local makes of it.
Report ==
  /\ main = "report"
  /\ \/ /\ Succeeded /\ ~Up
        /\ main' = "rename" /\ UNCHANGED <<result, temp>>
     \/ /\ Succeeded /\ Up
        /\ main' = "done" /\ result' = "ok" /\ UNCHANGED temp
     \/ /\ ~Succeeded
        /\ main' = "done" /\ result' = "failed"
        /\ temp' = (IF Up THEN temp ELSE NoTemp)
  /\ UNCHANGED <<kind, source, fed, failed, drainVars, pipeVars, remoteVars, helper, dest>>

\* set_permissions, sync_all and rename; a failure drops the staging file.
Rename ==
  /\ main = "rename"
  /\ \/ /\ dest' = (IF temp = Total THEN "new" ELSE "torn")
        /\ result' = "ok"
     \/ /\ UNCHANGED dest
        /\ result' = "failed"
  /\ temp' = NoTemp /\ main' = "done"
  /\ UNCHANGED <<kind, source, fed, failed, drainVars, pipeVars, remoteVars, helper>>

\* Drop of a StreamingChild that was not reaped: wake the readers ...
Cancel ==
  /\ main = "cancel"
  /\ cancelled' = TRUE /\ main' = "kill"
  /\ UNCHANGED <<kind, source, fed, failed, result, reader, got, drain, pipeVars, remoteVars,
                 helper, fileVars>>

\* ... kill and reap the child, which closes the connection ...
Kill ==
  /\ main = "kill"
  /\ ssh' = "exited" /\ main' = "drop"
  /\ link' = (IF link = "up" THEN "closed" ELSE link)
  /\ status' = (IF ssh = "exited" THEN status ELSE "error")
  /\ UNCHANGED <<kind, source, fed, failed, result, drainVars, pipeVars, code, shell, saying,
                 helper, fileVars>>

\* ... and join the readers.
Drop ==
  /\ main = "drop" /\ ReadersDone
  /\ main' = "done" /\ result' = "failed"
  /\ temp' = (IF Up THEN temp ELSE NoTemp)
  /\ UNCHANGED <<kind, source, fed, failed, drainVars, pipeVars, remoteVars, helper, dest>>

Call == \/ Feed \/ FeedBroken \/ SourceEnds \/ Pull \/ PullEnds
        \/ CloseStdin \/ Wait \/ ChildExited \/ Join \/ Report \/ Rename
        \/ Cancel \/ Kill \/ Drop

-----------------------------------------------------------------------------
(* The reader threads: drain_pipe.                                         *)

ChildChunks(s) == Cardinality({i \in DOMAIN s : s[i] = "child"})

\* Mutant of Read: output that is ready is read before the wake-up is looked at.
ReadFirst(p) ==
  /\ reader[p] = "reading" /\ pipe[p] # <<>>
  /\ got' = [got EXCEPT ![p] = @ + ChildChunks(<<Head(pipe[p])>>)]
  /\ pipe' = [pipe EXCEPT ![p] = Tail(@)]
  /\ UNCHANGED <<reader, drain, cancelled>>

Read(p) ==
  /\ reader[p] = "reading" /\ ~cancelled /\ pipe[p] # <<>>
  /\ got' = [got EXCEPT ![p] = @ + ChildChunks(<<Head(pipe[p])>>)]
  /\ pipe' = [pipe EXCEPT ![p] = Tail(@)]
  /\ UNCHANGED <<reader, drain, cancelled>>

ReadEnds(p) ==
  /\ reader[p] = "reading" /\ ~cancelled /\ pipe[p] = <<>>
  /\ ssh = "exited" /\ ~(helper /\ p \in Held)
  /\ reader' = [reader EXCEPT ![p] = "done"]
  /\ UNCHANGED <<got, drain, cancelled, pipe>>

\* The wake-up takes precedence; what is queued is taken only after an exit.
Cancelled(p) ==
  /\ reader[p] = "reading" /\ cancelled
  /\ reader' = [reader EXCEPT ![p] = "done"]
  /\ IF drain
       THEN /\ got' = [got EXCEPT ![p] = @ + ChildChunks(pipe[p])]
            /\ pipe' = [pipe EXCEPT ![p] = <<>>]
       ELSE UNCHANGED <<got, pipe>>
  /\ UNCHANGED <<drain, cancelled>>

ReadStep(p) ==
  /\ Read(p) \/ ReadEnds(p) \/ Cancelled(p)
  /\ UNCHANGED <<kind, source, callVars, stdin, stdinOpen, said, remoteVars, helper, fileVars>>

-----------------------------------------------------------------------------
(* The remote shell, behind the ssh process.                               *)

local == <<kind, source, callVars, drainVars, stdinOpen, helper>>

Ends(c) == shell' = "trap" /\ code' = c

\* mktemp, or the redirection that truncates the destination in place.
ShellStart ==
  /\ shell = "start"
  /\ \/ /\ kind = "upload" /\ temp' = 0 /\ shell' = "cat" /\ UNCHANGED <<code, dest>>
     \/ /\ kind = "write" /\ temp' = 0 /\ dest' = "torn" /\ shell' = "cat" /\ UNCHANGED code
     \/ /\ kind = "download" /\ shell' = "cat" /\ UNCHANGED <<code, fileVars>>
     \/ /\ Ends("error") /\ UNCHANGED fileVars
  /\ UNCHANGED <<local, stdin, pipe, said, ssh, status, link, saying>>

\* cat writes what the connection still delivers.
Receive ==
  /\ shell = "cat" /\ Up /\ saying = "none"
  /\ link = "up" /\ ssh = "running" /\ stdin > 0
  /\ stdin' = stdin - 1 /\ temp' = temp + 1
  /\ dest' = (IF kind = "write" THEN IF temp + 1 = Total THEN "new" ELSE "torn" ELSE dest)
  /\ UNCHANGED <<local, pipe, said, remoteVars>>

\* cat cannot write what it received: the disk is full.
ReceiveFails ==
  /\ shell = "cat" /\ Up /\ saying = "none"
  /\ link = "up" /\ ssh = "running" /\ stdin > 0
  /\ stdin' = stdin - 1
  /\ Ends("error") /\ saying' = "err"
  /\ UNCHANGED <<local, pipe, said, ssh, status, link, fileVars>>

\* A closed stdin and a lost connection look the same to cat.
ReceiveEnds ==
  /\ shell = "cat" /\ Up /\ saying = "none"
  /\ link # "up" \/ (~stdinOpen /\ stdin = 0)
  /\ IF kind = "upload" THEN shell' = "check" /\ UNCHANGED code ELSE Ends("ok")
  /\ UNCHANGED <<local, stdin, pipe, said, ssh, status, link, saying, fileVars>>

\* Mutant of LengthMatches: the end of the input is taken for all of it.
LengthAssumed == TRUE

LengthMatches == temp = Total

\* The byte count must be the one announced; otherwise a message and exit 1.
Check ==
  /\ shell = "check" /\ saying = "none"
  /\ IF LengthMatches
       THEN shell' = "move" /\ UNCHANGED <<code, saying>>
       ELSE Ends("error") /\ saying' = "err"
  /\ UNCHANGED <<local, stdin, pipe, said, ssh, status, link, fileVars>>

\* chown, chmod and mv: any of them may fail.
Move ==
  /\ shell = "move" /\ saying = "none"
  /\ \/ /\ dest' = (IF temp = Total THEN "new" ELSE "torn") /\ temp' = NoTemp /\ Ends("ok")
     \/ /\ UNCHANGED fileVars /\ Ends("error")
  /\ UNCHANGED <<local, stdin, pipe, said, ssh, status, link, saying>>

\* A download's cat: each chunk goes to stdout; it may fail half way.
Send ==
  /\ shell = "cat" /\ ~Up /\ saying = "none"
  /\ \/ said["out"] < Total /\ saying' = "out" /\ UNCHANGED <<shell, code>>
     \/ said["out"] = Total /\ Ends("ok") /\ UNCHANGED saying
     \/ said["out"] < Total /\ Ends("error") /\ UNCHANGED saying
  /\ UNCHANGED <<local, stdin, pipe, said, ssh, status, link, fileVars>>

\* The trap removes the staging file.
ShellExit ==
  /\ shell = "trap" /\ saying = "none"
  /\ shell' = "gone"
  /\ temp' = (IF kind = "upload" THEN NoTemp ELSE temp)
  /\ UNCHANGED <<local, stdin, pipe, said, ssh, status, code, link, saying, dest>>

\* A lost connection may also reach the shell as SIGHUP.
HangUp ==
  /\ link # "up" /\ shell \in {"start", "cat", "check", "move"}
  /\ Ends("error") /\ saying' = "none"
  /\ UNCHANGED <<local, stdin, pipe, said, ssh, status, link, fileVars>>

\* Anything else the remote side prints: a banner, a warning.
Say ==
  /\ shell \in {"start", "cat", "check", "move", "trap"} /\ saying = "none" /\ link = "up"
  /\ \E p \in Threaded : said[p] < MaxNoise /\ saying' = p
  /\ UNCHANGED <<local, stdin, pipe, said, ssh, status, code, link, shell, fileVars>>

\* The pipe takes the chunk once it has room; without a connection or a
\* reader it is lost.
Flush ==
  /\ saying # "none"
  /\ IF link # "up" \/ ssh = "exited" \/ result = "died"
       THEN UNCHANGED <<pipe, said>>
       ELSE /\ Len(pipe[saying]) < PipeSize
            /\ pipe' = [pipe EXCEPT ![saying] = Append(@, "child")]
            /\ said' = [said EXCEPT ![saying] = @ + 1]
  /\ saying' = "none"
  /\ UNCHANGED <<local, stdin, ssh, status, code, link, shell, fileVars>>

Shell == \/ ShellStart \/ Receive \/ ReceiveEnds \/ Check \/ Move \/ Send \/ ShellExit
         \/ HangUp \/ Flush

\* The child exits with the shell's status, or with 255 without a connection.
SshExit ==
  /\ ssh = "running"
  /\ \/ link = "up" /\ shell = "gone" /\ status' = code
     \/ link # "up" /\ status' = "error"
  /\ ssh' = "exited"
  /\ UNCHANGED <<local, stdin, pipe, said, code, link, shell, saying, fileVars>>

-----------------------------------------------------------------------------
(* The environment.                                                        *)

HelperWrites ==
  /\ helper
  /\ \E p \in Held : /\ Len(pipe[p]) < PipeSize
                     /\ pipe' = [pipe EXCEPT ![p] = Append(@, "helper")]
  /\ UNCHANGED <<kind, source, callVars, drainVars, stdin, stdinOpen, said, remoteVars, helper,
                 fileVars>>

HelperExits ==
  /\ helper /\ helper' = FALSE
  /\ UNCHANGED <<kind, source, callVars, drainVars, pipeVars, remoteVars, fileVars>>

Disconnect ==
  /\ link = "up" /\ link' = "lost"
  /\ UNCHANGED <<local, stdin, pipe, said, ssh, status, code, shell, saying, fileVars>>

\* The tablet loses power or the shell is killed outright.  ssh notices.
TabletDies ==
  /\ shell \notin {"gone", "killed"}
  /\ shell' = "killed" /\ link' = "lost" /\ saying' = "none"
  /\ UNCHANGED <<local, stdin, pipe, said, ssh, status, code, fileVars>>

\* The calling process is killed: its pipe ends close with it.
CallerDies ==
  /\ result = "pending"
  /\ result' = "died" /\ main' = "done" /\ stdinOpen' = FALSE
  /\ reader' = [p \in Output |-> IF reader[p] = "reading" THEN "done" ELSE reader[p]]
  /\ UNCHANGED <<kind, source, fed, failed, got, drain, cancelled, stdin, pipe, said,
                 remoteVars, helper, fileVars>>

\* Everybody is done: the only way a transfer stops.
Over == result # "pending" /\ shell \in {"gone", "killed"} /\ UNCHANGED vars

Next == \/ Call \/ SourceFails \/ PullFails \/ ReceiveFails
        \/ \E p \in Output : ReadStep(p)
        \/ Shell \/ Say \/ SshExit
        \/ HelperWrites \/ HelperExits \/ Disconnect \/ TabletDies \/ CallerDies
        \/ Over

Spec == Init /\ [][Next]_vars

\* Threads are scheduled, and the remote shell runs as long as its input and
\* its pipes let it; the kernel serves the writers waiting for a pipe in turn,
\* so a helper that never stops printing does not keep the child out for ever.
\* Nothing else has to happen: the helper may never exit, the connection may
\* never fail.
Fairness == /\ WF_vars(Call)
            /\ \A p \in Output : WF_vars(ReadStep(p))
            /\ WF_vars(Shell)
            /\ SF_vars(Flush)
            /\ WF_vars(SshExit)

FairSpec == Spec /\ Fairness
-----------------------------------------------------------------------------
(* Properties.                                                             *)

\* The transfer keeps what FileTransfer promises: whatever is lost, killed or
\* cut short, a staged destination is the old file or the whole new one, and
\* "ok" is returned only over the whole new file (staged_write_command's byte
\* count and rename, download_to_local's exit status and rename).
Transfer == INSTANCE FileTransfer WITH staged <- kind # "write"
KeepsItsPromise == Transfer!Spec

\* A call that waited for the child has all the output the child produced,
\* also when a helper keeps the pipes open: the error message of a failed
\* command is never cut (wait_for_output and the queue snapshot of drain_pipe).
DiagnosticsKept ==
  main = "report" => \A p \in Threaded : got[p] = said[p]

\* A call that returned over a connection that was not lost has left no staging file,
\* here or on the tablet: a retry starts clean (finish_upload waits for the
\* remote trap, DownloadTemp is dropped on every error path).
NoTempLeft ==
  /\ (kind = "upload" /\ result \in {"ok", "failed"} /\ link # "lost") => temp = NoTemp
  /\ (kind = "download" /\ result \in {"ok", "failed"}) => temp = NoTemp

\* Every call returns, however much either side prints, however full the
\* pipes are and however long a helper holds them: stdin is fed while both
\* outputs are drained, and the readers are woken by the child's exit.
CallReturns == <>(result # "pending")
=============================================================================

--------------------------- MODULE SshStreamProofs ---------------------------
(***************************************************************************)
(* A transfer over ssh keeps what FileTransfer promises, for every size of *)
(* file and pipe, whatever is lost or killed: the detailed specification   *)
(* implements the abstract one.  The inductive invariant follows the bytes *)
(* from the calling thread to the file: what the remote shell checked, or  *)
(* what an exit status of zero says of the bytes that went through.        *)
(***************************************************************************)
EXTENDS SshStream, FiniteSetTheorems, TLAPS

Chunk == {"child", "helper"}

-----------------------------------------------------------------------------
\* The inductive invariant.

\* Types, and the order in which the calling thread and the shell go on.
Control ==
  /\ kind \in AllKinds
  /\ source \in Nat /\ fed \in Nat /\ fed <= source /\ stdin \in Nat
  /\ failed \in BOOLEAN /\ stdinOpen \in BOOLEAN
  /\ main \in {"copy", "close", "wait", "flag", "wake", "join", "report", "rename",
               "cancel", "kill", "drop", "done"}
  /\ result \in {"pending", "ok", "failed", "died"}
  /\ main # "done" => result = "pending"
  /\ code \in {"none", "ok", "error"}
  /\ code # "none" => shell \in {"trap", "gone", "killed"}
  /\ status = "ok" => code = "ok" /\ shell \in {"gone", "killed"}
  /\ ssh \in {"running", "exited"} /\ (ssh = "running" => status = "none")
  /\ saying \in Output \cup {"none"}
  /\ said \in [Output -> Nat]

Pipes == pipe \in [Output -> Seq(Chunk)]

\* The calling thread lets go of stdin when all was fed or the transfer failed,
\* and reports success only with an exit status of zero.
Feeding ==
  Up => /\ main \in {"copy", "close"} => stdinOpen
        /\ ~failed /\ main # "copy" /\ result # "died" => fed = source
        /\ main # "rename"
        /\ result = "ok" => status = "ok"

\* A staged upload: the rename follows the length check.
Uploading ==
  kind = "upload" =>
    /\ dest \in {"old", "new"}
    /\ shell = "move" => temp = Total
    /\ code = "ok" => dest = "new"

\* A write in place: what was fed is in the pipe or in the file, and cat ends
\* well over a live connection only after the last of it.
Writing ==
  kind = "write" =>
    /\ source = Total
    /\ shell \notin {"check", "move"}
    /\ shell = "start" => temp = NoTemp
    /\ shell = "cat" => temp # NoTemp
    /\ temp = NoTemp => stdin = fed /\ dest = "old"
    /\ temp # NoTemp => /\ temp \in Nat
                        /\ code # "error" => temp + stdin = fed
                        /\ dest = IF temp = Total THEN "new" ELSE "torn"
    /\ code = "ok" => temp # NoTemp /\ (link = "up" => ~stdinOpen /\ stdin = 0)
    /\ status = "ok" => ~stdinOpen /\ stdin = 0
    /\ result = "ok" => dest = "new"

\* A download: what the remote side sent is in the pipe or in the staging file,
\* and the copy loop ends only on an empty pipe.
Downloading ==
  kind = "download" =>
    /\ dest \in {"old", "new"}
    /\ shell \notin {"check", "move"}
    /\ main # "close"
    /\ reader["out"] = "none" /\ reader \in [Output -> {"none", "reading", "done"}]
    /\ saying = "out" => shell = "cat"
    /\ code = "ok" => said["out"] = Total
    /\ main # "done" => temp \in Nat /\ temp + Len(pipe["out"]) = said["out"]
    /\ main \in {"wait", "flag", "wake", "join", "report", "rename"} =>
         pipe["out"] = <<>> /\ ssh = "exited"
    /\ main = "rename" => temp = Total
    /\ result = "ok" => dest = "new"

IInv == Control /\ Pipes /\ Feeding /\ Uploading /\ Writing /\ Downloading

-----------------------------------------------------------------------------
\* Queues of chunks.

LEMMA Queues ==
  /\ "child" \in Chunk /\ "helper" \in Chunk
  /\ <<>> \in Seq(Chunk) /\ Len(<<>>) = 0
  /\ \A s \in Seq(Chunk) : Len(s) \in Nat
  /\ \A s \in Seq(Chunk), c \in Chunk :
       Append(s, c) \in Seq(Chunk) /\ Len(Append(s, c)) = Len(s) + 1
  /\ \A s \in Seq(Chunk) : s # <<>> => Tail(s) \in Seq(Chunk) /\ Len(Tail(s)) = Len(s) - 1
<1>1. "child" \in Chunk /\ "helper" \in Chunk
  BY DEF Chunk
<1> QED
  BY <1>1

\* What the queue of stdout becomes when the calling thread takes a chunk ...
LEMMA PullTakesOne ==
  ASSUME Pipes, Pull
  PROVE  Pipes' /\ Len(pipe'["out"]) = Len(pipe["out"]) - 1
<1>1. pipe' = [pipe EXCEPT !["out"] = Tail(@)] /\ pipe["out"] # <<>>
  BY DEF Pull
<1>2. Tail(pipe["out"]) \in Seq(Chunk) /\ Len(Tail(pipe["out"])) = Len(pipe["out"]) - 1
  BY <1>1, Queues DEF Pipes, Output
<1> QED
  BY <1>1, <1>2 DEF Pipes, Output

\* ... when the remote side's chunk is in ...
LEMMA FlushAddsOne ==
  ASSUME Control, Pipes, Flush
  PROVE  /\ Pipes' /\ said' \in [Output -> Nat]
         /\ said["out"] \in Nat /\ said'["out"] \in Nat
         /\ Len(pipe["out"]) \in Nat /\ Len(pipe'["out"]) \in Nat
         /\ \/ said'["out"] = said["out"] /\ pipe'["out"] = pipe["out"]
            \/ /\ saying = "out" /\ ssh = "running"
               /\ said'["out"] = said["out"] + 1 /\ Len(pipe'["out"]) = Len(pipe["out"]) + 1
<1>1. CASE UNCHANGED <<pipe, said>>
  BY <1>1, Queues DEF Control, Pipes, Output
<1>2. CASE /\ saying # "none" /\ ssh # "exited"
           /\ pipe' = [pipe EXCEPT ![saying] = Append(@, "child")]
           /\ said' = [said EXCEPT ![saying] = @ + 1]
  <2>1. /\ saying \in Output /\ Append(pipe[saying], "child") \in Seq(Chunk)
        /\ Len(Append(pipe[saying], "child")) = Len(pipe[saying]) + 1
    BY <1>2, Queues DEF Control, Pipes
  <2>2. Pipes' /\ said' \in [Output -> Nat]
    BY <1>2, <2>1 DEF Control, Pipes
  <2> QED
    BY <1>2, <2>1, <2>2, Queues DEF Control, Pipes, Output
<1> QED
  BY <1>1, <1>2 DEF Flush

\* ... and when a reader thread takes what is queued.
LEMMA ReadKeepsQueues ==
  ASSUME Pipes, NEW p \in Output, ReadStep(p)
  PROVE  Pipes' /\ (p # "out" => pipe'["out"] = pipe["out"])
<1>1. CASE Read(p)
  <2>1. pipe' = [pipe EXCEPT ![p] = Tail(@)]
    BY <1>1 DEF Read
  <2>2. Tail(pipe[p]) \in Seq(Chunk)
    BY <1>1, Queues DEF Pipes, Read
  <2> QED
    BY <2>1, <2>2 DEF Pipes, Output
<1>2. CASE ReadEnds(p)
  BY <1>2 DEF Pipes, ReadEnds
<1>3. CASE Cancelled(p)
  <2>1. CASE pipe' = [pipe EXCEPT ![p] = <<>>]
    BY <2>1, Queues DEF Pipes, Output
  <2> QED
    BY <1>3, <2>1 DEF Pipes, Cancelled
<1> QED
  BY <1>1, <1>2, <1>3 DEF ReadStep

-----------------------------------------------------------------------------
\* The invariant is inductive.

LEMMA InitEstablishes == Init => IInv
<1> SUFFICES ASSUME Init PROVE IInv
  OBVIOUS
<1>1. Pipes
  BY Queues DEF Init, Pipes
<1>2. said \in [Output -> Nat] /\ reader \in [Output -> {"none", "reading", "done"}]
  BY DEF Init
<1>3. Control
  <2>1. kind \in AllKinds /\ source \in Nat
    BY StreamAssumption DEF Init
  <2>2. stdinOpen \in BOOLEAN
    BY DEF Init, Up
  <2>3. /\ main = "copy" /\ fed = 0 /\ failed = FALSE /\ result = "pending" /\ stdin = 0
        /\ ssh = "running" /\ status = "none" /\ code = "none" /\ saying = "none"
    BY DEF Init
  <2>4. fed \in Nat /\ fed <= source /\ stdin \in Nat
    BY <2>1, <2>3
  <2>5. failed \in BOOLEAN /\ saying \in Output \cup {"none"}
    BY <2>3
  <2> QED
    BY <1>2, <2>1, <2>2, <2>3, <2>4, <2>5, Zenon DEF Control
<1>4. Feeding
  BY DEF Init, Feeding, Up
<1>5. Uploading /\ Writing
  BY StreamAssumption DEF Init, Uploading, Writing, Up, NoTemp
<1>6. Downloading
  BY <1>2, Queues DEF Init, Downloading, Up, Threaded, Output
<1> QED
  BY <1>1, <1>3, <1>4, <1>5, <1>6 DEF IInv

\* A chunk the shell gets rid of is in the pipe, or lost with the pipe.
LEMMA FlushKeepsDownload ==
  ASSUME Control, Pipes, Downloading, Flush
  PROVE  Downloading'
<1>1. /\ UNCHANGED <<kind, main, reader, shell, code, ssh, temp, dest, result>>
      /\ saying' = "none"
  BY DEF Flush, local, callVars, drainVars, fileVars
<1>2. CASE said'["out"] = said["out"] /\ pipe'["out"] = pipe["out"]
  BY <1>1, <1>2 DEF Downloading
<1>3. CASE /\ saying = "out" /\ ssh = "running"
           /\ said'["out"] = said["out"] + 1 /\ Len(pipe'["out"]) = Len(pipe["out"]) + 1
  <2>1. kind = "download" => shell = "cat" /\ code # "ok"
    BY <1>3 DEF Control, Downloading
  <2>2. said["out"] \in Nat /\ Len(pipe["out"]) \in Nat
    BY FlushAddsOne
  <2> QED
    BY <1>1, <1>3, <2>1, <2>2 DEF Downloading
<1> QED
  BY <1>2, <1>3, FlushAddsOne

LEMMA NextKeeps == IInv /\ [Next]_vars => IInv'
<1> SUFFICES ASSUME IInv, [Next]_vars PROVE IInv'
  OBVIOUS
<1> USE StreamAssumption DEF IInv, Feeding, Uploading, Writing, Up, NoTemp, AllKinds, Output,
        Threaded, Held, callVars, drainVars, pipeVars, remoteVars, fileVars, local, Ends
\* The copy loop.
<1>1. CASE Feed
  BY <1>1 DEF Feed, Control, Pipes, Downloading
<1>2. CASE FeedBroken
  BY <1>2 DEF FeedBroken, Control, Pipes, Downloading
<1>3. CASE SourceFails
  BY <1>3 DEF SourceFails, Control, Pipes, Downloading
<1>4. CASE SourceEnds
  BY <1>4 DEF SourceEnds, Control, Pipes, Downloading
<1>5. CASE Pull
  <2>1. Control' /\ Feeding' /\ Uploading' /\ Writing'
    BY <1>5 DEF Pull, Control
  <2>2. /\ main = "copy" /\ ~Up /\ temp' = temp + 1
        /\ UNCHANGED <<kind, main, reader, shell, saying, code, said, dest, result>>
    BY <1>5 DEF Pull
  <2>3. Downloading'
    BY <2>2, <1>5, PullTakesOne DEF Control, Downloading
  <2> QED
    BY <1>5, <2>1, <2>3, PullTakesOne
<1>6. CASE PullEnds
  BY <1>6 DEF PullEnds, Control, Pipes, Downloading
<1>7. CASE PullFails
  BY <1>7 DEF PullFails, Control, Pipes, Downloading
\* The end of the call.
<1>8. CASE CloseStdin
  <2>1. Control'
    BY <1>8 DEF CloseStdin, AfterClose, Control, Pipes, Downloading
  <2>2. Pipes'
    BY <1>8 DEF CloseStdin, AfterClose, Control, Pipes, Downloading
  <2>3. Feeding'
    BY <1>8 DEF CloseStdin, AfterClose, Control, Pipes, Downloading
  <2>4. Uploading'
    BY <1>8 DEF CloseStdin, AfterClose, Control, Pipes, Downloading
  <2>5. Writing'
    BY <1>8 DEF CloseStdin, AfterClose, Control, Pipes, Downloading
  <2>6. Downloading'
    BY <1>8 DEF CloseStdin, AfterClose, Control, Pipes, Downloading
  <2> QED
    BY <2>1, <2>2, <2>3, <2>4, <2>5, <2>6
<1>9. CASE Wait
  BY <1>9 DEF Wait, Control, Pipes, Downloading
<1>10. CASE ChildExited
  BY <1>10 DEF ChildExited, Control, Pipes, Downloading
<1>11. CASE Join
  BY <1>11 DEF Join, Control, Pipes, Downloading
<1>12. CASE Report
  BY <1>12 DEF Report, Succeeded, Control, Pipes, Downloading
<1>13. CASE Rename
  BY <1>13 DEF Rename, Control, Pipes, Downloading
<1>14. CASE Cancel
  BY <1>14 DEF Cancel, Control, Pipes, Downloading
<1>15. CASE Kill
  BY <1>15 DEF Kill, Control, Pipes, Downloading
<1>16. CASE Drop
  BY <1>16 DEF Drop, Control, Pipes, Downloading
\* The remote shell.
<1>17. CASE ShellStart
  BY <1>17 DEF ShellStart, Control, Pipes, Downloading
<1>18. CASE Receive \/ ReceiveFails
  BY <1>18 DEF Receive, ReceiveFails, Control, Pipes, Downloading
<1>19. CASE ReceiveEnds
  BY <1>19 DEF ReceiveEnds, Control, Pipes, Downloading
<1>20. CASE Check
  BY <1>20 DEF Check, LengthMatches, Control, Pipes, Downloading
<1>21. CASE Move
  BY <1>21 DEF Move, Control, Pipes, Downloading
<1>22. CASE Send
  BY <1>22 DEF Send, Control, Pipes, Downloading
<1>23. CASE ShellExit
  BY <1>23 DEF ShellExit, Control, Pipes, Downloading
<1>24. CASE HangUp
  BY <1>24 DEF HangUp, Control, Pipes, Downloading
<1>25. CASE Say
  BY <1>25 DEF Say, Control, Pipes, Downloading
<1>26. CASE Flush
  <2>1. Control' /\ Feeding' /\ Uploading' /\ Writing'
    BY <1>26, FlushAddsOne DEF Flush, Control
  <2>2. Downloading'
    BY <1>26, FlushKeepsDownload
  <2> QED
    BY <1>26, <2>1, <2>2, FlushAddsOne
<1>27. CASE SshExit
  BY <1>27 DEF SshExit, Control, Pipes, Downloading
\* The environment.
<1>28. CASE HelperWrites
  <2>1. Control'
    BY <1>28 DEF HelperWrites, Control, Pipes, Downloading
  <2>2. Pipes'
    <3>1. PICK p \in Output : pipe' = [pipe EXCEPT ![p] = Append(@, "helper")]
      BY <1>28 DEF HelperWrites
    <3>2. Append(pipe[p], "helper") \in Seq(Chunk)
      BY Queues DEF Pipes
    <3> QED
      BY <3>1, <3>2 DEF Pipes
  <2>3. Feeding'
    BY <1>28 DEF HelperWrites, Control, Pipes, Downloading
  <2>4. Uploading'
    BY <1>28 DEF HelperWrites, Control, Pipes, Downloading
  <2>5. Writing'
    BY <1>28 DEF HelperWrites, Control, Pipes, Downloading
  <2>6. Downloading'
    BY <1>28 DEF HelperWrites, Control, Pipes, Downloading
  <2> QED
    BY <2>1, <2>2, <2>3, <2>4, <2>5, <2>6
<1>29. CASE HelperExits
  BY <1>29 DEF HelperExits, Control, Pipes, Downloading
<1>30. CASE Disconnect
  BY <1>30 DEF Disconnect, Control, Pipes, Downloading
<1>31. CASE TabletDies
  BY <1>31 DEF TabletDies, Control, Pipes, Downloading
<1>32. CASE CallerDies
  <2>1. Control'
    BY <1>32 DEF CallerDies, Control, Pipes, Downloading
  <2>2. Pipes'
    BY <1>32 DEF CallerDies, Control, Pipes, Downloading
  <2>3. Feeding'
    BY <1>32 DEF CallerDies, Control, Pipes, Downloading
  <2>4. Uploading'
    BY <1>32 DEF CallerDies, Control, Pipes, Downloading
  <2>5. Writing'
    BY <1>32 DEF CallerDies, Control, Pipes, Downloading
  <2>6. Downloading'
    BY <1>32 DEF CallerDies, Control, Pipes, Downloading
  <2> QED
    BY <2>1, <2>2, <2>3, <2>4, <2>5, <2>6
<1>33. CASE Over
  BY <1>33 DEF Over, vars, Control, Pipes, Downloading
\* The reader threads.
<1>34. ASSUME NEW p \in Output, ReadStep(p) PROVE IInv'
  <2>1. Control' /\ Feeding' /\ Uploading' /\ Writing'
    BY <1>34 DEF ReadStep, Read, ReadEnds, Cancelled, Control
  <2>2. Downloading'
    BY <1>34, ReadKeepsQueues DEF ReadStep, Read, ReadEnds, Cancelled, Control, Downloading
  <2> QED
    BY <1>34, <2>1, <2>2, ReadKeepsQueues
<1>35. CASE UNCHANGED vars
  BY <1>35 DEF vars, Control, Pipes, Downloading
<1> QED
  BY <1>1, <1>2, <1>3, <1>4, <1>5, <1>6, <1>7, <1>8, <1>9, <1>10, <1>11,
     <1>12, <1>13, <1>14, <1>15, <1>16, <1>17, <1>18, <1>19, <1>20, <1>21,
     <1>22, <1>23, <1>24, <1>25, <1>26, <1>27, <1>28, <1>29, <1>30, <1>31,
     <1>32, <1>33, <1>34, <1>35 DEF Next, Call, Shell

-----------------------------------------------------------------------------
\* The refinement.

LEMMA InitRefines == Init => Transfer!Init
BY StreamAssumption DEF Init, Transfer!Init

\* Every step is a step of FileTransfer or leaves what it shows alone.
LEMMA NextRefines == IInv /\ [Next]_vars => [Transfer!Next]_(Transfer!vars)
<1> SUFFICES ASSUME IInv, [Next]_vars PROVE [Transfer!Next]_(Transfer!vars)
  OBVIOUS
<1> DEFINE Idle == kind' = kind /\ dest' = dest /\ result' = result
<1> USE DEF IInv, callVars, drainVars, pipeVars, remoteVars, fileVars, local, Ends
\* The remote shell changes the destination.
<1>1. CASE ShellStart
  <2>1. CASE Idle
    BY <2>1 DEF Transfer!vars
  <2>2. CASE ~Idle
    <3>1. /\ kind = "write" /\ kind' = kind /\ shell = "start"
          /\ dest' = "torn" /\ result' = result
      BY <1>1, <2>2 DEF ShellStart
    <3>2. dest = "old" /\ result # "ok"
      BY <3>1 DEF Control, Writing, Feeding, Up
    <3> QED
      BY <3>1, <3>2 DEF Transfer!Next, Transfer!Overwrite
  <2> QED
    BY <2>1, <2>2
<1>2. CASE Receive
  <2>1. CASE Idle
    BY <2>1 DEF Transfer!vars
  <2>2. CASE ~Idle
    <3>1. /\ kind = "write" /\ kind' = kind /\ shell = "cat" /\ stdin > 0
          /\ dest' = (IF temp + 1 = Total THEN "new" ELSE "torn") /\ result' = result
      BY <1>2, <2>2 DEF Receive, Up
    <3>2. dest # "new" /\ result # "ok"
      BY <3>1, StreamAssumption DEF Control, Writing, Feeding, Up
    <3> QED
      BY <3>1, <3>2 DEF Transfer!Next, Transfer!Overwrite
  <2> QED
    BY <2>1, <2>2
<1>3. CASE Move
  <2>1. CASE Idle
    BY <2>1 DEF Transfer!vars
  <2>2. CASE ~Idle
    <3>1. /\ shell = "move" /\ kind' = kind /\ result' = result
          /\ dest' = (IF temp = Total THEN "new" ELSE "torn")
      BY <1>3, <2>2 DEF Move
    <3>2. kind = "upload" /\ dest' = "new" /\ dest = "old" /\ result # "ok"
      BY <1>3, <3>1, <2>2 DEF Control, Uploading, Writing, Downloading, Feeding, Up, AllKinds, Move
    <3> QED
      BY <3>1, <3>2 DEF Transfer!Next, Transfer!Replace
  <2> QED
    BY <2>1, <2>2
\* The call returns.
<1>4. CASE Report
  <2>1. CASE Idle
    BY <2>1 DEF Transfer!vars
  <2>2. CASE ~Idle /\ result' = "ok"
    <3>1. /\ kind' = kind /\ dest' = dest /\ Up /\ main = "report"
          /\ ~failed /\ status = "ok"
      BY <1>4, <2>2 DEF Report, Succeeded
    <3>2. result = "pending" /\ dest = "new"
      BY <3>1 DEF Control, Feeding, Uploading, Writing, Up
    <3> QED
      BY <2>2, <3>1, <3>2 DEF Transfer!Next, Transfer!Succeed
  <2>3. CASE ~Idle /\ result' # "ok"
    <3>1. kind' = kind /\ dest' = dest /\ main = "report" /\ result' = "failed"
      BY <1>4, <2>3 DEF Report
    <3>2. result = "pending"
      BY <3>1 DEF Control
    <3> QED
      BY <3>1, <3>2 DEF Transfer!Next, Transfer!Fail
  <2> QED
    BY <2>1, <2>2, <2>3
<1>5. CASE Rename
  <2>1. kind' = kind /\ kind = "download" /\ temp = Total /\ result = "pending"
    BY <1>5 DEF Rename, Control, Downloading, Feeding, Up, AllKinds
  <2>2. CASE dest' = "new" /\ result' = "ok"
    BY <2>1, <2>2 DEF Transfer!Next, Transfer!Succeed
  <2>3. CASE dest' = dest /\ result' = "failed"
    BY <2>1, <2>3 DEF Transfer!Next, Transfer!Fail
  <2> QED
    BY <1>5, <2>1, <2>2, <2>3 DEF Rename
<1>6. CASE Drop
  <2>1. kind' = kind /\ dest' = dest /\ result = "pending" /\ result' = "failed"
    BY <1>6 DEF Drop, Control
  <2> QED
    BY <2>1 DEF Transfer!Next, Transfer!Fail
<1>7. CASE CallerDies
  <2>1. kind' = kind /\ dest' = dest /\ result = "pending" /\ result' = "died"
    BY <1>7 DEF CallerDies
  <2> QED
    BY <2>1 DEF Transfer!Next, Transfer!Fail
\* Nothing else shows.
<1>8. CASE \/ Feed \/ FeedBroken \/ SourceFails \/ SourceEnds \/ Pull \/ PullEnds \/ PullFails
           \/ ReceiveFails
           \/ CloseStdin \/ Wait \/ ChildExited \/ Join \/ Cancel \/ Kill
  <2>1. Idle
    BY <1>8 DEF Feed, FeedBroken, SourceFails, SourceEnds, Pull, PullEnds, PullFails,
                ReceiveFails, Ends, CloseStdin, Wait, ChildExited, Join, Cancel, Kill
  <2> QED
    BY <2>1 DEF Transfer!vars
<1>9. CASE \/ ReceiveEnds \/ Check \/ Send \/ ShellExit \/ HangUp \/ Say \/ Flush \/ SshExit
           \/ HelperWrites \/ HelperExits \/ Disconnect \/ TabletDies \/ Over
           \/ UNCHANGED vars
  <2>1. Idle
    BY <1>9 DEF ReceiveEnds, Check, Send, ShellExit, HangUp, Say, Flush, SshExit,
                HelperWrites, HelperExits, Disconnect, TabletDies, Over, vars
  <2> QED
    BY <2>1 DEF Transfer!vars
<1>10. ASSUME NEW p \in Output, ReadStep(p) PROVE [Transfer!Next]_(Transfer!vars)
  <2>1. Idle
    BY <1>10 DEF ReadStep
  <2> QED
    BY <2>1 DEF Transfer!vars
<1> QED
  BY <1>1, <1>2, <1>3, <1>4, <1>5, <1>6, <1>7, <1>8, <1>9, <1>10 DEF Next, Call, Shell

\* A staged file is replaced in one step or not at all, a file written in place
\* may be seen torn, and "ok" is returned only over the whole new file
\* (finish, finish_upload, download_to_local and staged_write_command).
THEOREM TransferRefines == Spec => KeepsItsPromise
<1>1. Spec => []IInv
  BY InitEstablishes, NextKeeps, PTL DEF Spec
<1> QED
  BY <1>1, InitRefines, NextRefines, PTL DEF Spec, KeepsItsPromise, Transfer!Spec

-----------------------------------------------------------------------------
\* The child's chunks in a queue.

LEMMA NoChunks == ChildChunks(<<>>) = 0
<1>1. {i \in DOMAIN <<>> : <<>>[i] = "child"} = {}
  OBVIOUS
<1> QED
  BY <1>1, FS_EmptySet DEF ChildChunks

LEMMA ChunksAreFinite ==
  ASSUME NEW s \in Seq(Chunk)
  PROVE  /\ IsFiniteSet({i \in DOMAIN s : s[i] = "child"})
         /\ ChildChunks(s) \in Nat
<1>1. DOMAIN s = 1..Len(s) /\ Len(s) \in Nat
  OBVIOUS
<1>2. IsFiniteSet(1..Len(s))
  BY <1>1, FS_Interval
<1>3. IsFiniteSet({i \in DOMAIN s : s[i] = "child"})
  BY <1>1, <1>2, FS_Subset
<1> QED
  BY <1>3, FS_CardinalityType DEF ChildChunks

LEMMA AppendChunk ==
  ASSUME NEW s \in Seq(Chunk), NEW c \in Chunk
  PROVE  ChildChunks(Append(s, c)) = IF c = "child" THEN ChildChunks(s) + 1 ELSE ChildChunks(s)
<1> DEFINE C(q) == {i \in DOMAIN q : q[i] = "child"}
<1>1. /\ Len(s) \in Nat /\ DOMAIN s = 1..Len(s) /\ DOMAIN Append(s, c) = 1..(Len(s) + 1)
      /\ \A i \in 1..Len(s) : Append(s, c)[i] = s[i]
      /\ Append(s, c)[Len(s) + 1] = c
  OBVIOUS
<1>2. CASE c = "child"
  <2>1. C(Append(s, c)) = C(s) \cup {Len(s) + 1} /\ Len(s) + 1 \notin C(s)
    BY <1>1, <1>2
  <2>2. Cardinality(C(s) \cup {Len(s) + 1}) = Cardinality(C(s)) + 1
    BY <2>1, ChunksAreFinite, FS_AddElement
  <2> QED
    BY <1>2, <2>1, <2>2 DEF ChildChunks
<1>3. CASE c # "child"
  <2>1. C(Append(s, c)) = C(s)
    BY <1>1, <1>3
  <2> QED
    BY <1>3, <2>1 DEF ChildChunks
<1> QED
  BY <1>2, <1>3

LEMMA TakeChunk ==
  ASSUME NEW s \in Seq(Chunk), s # <<>>
  PROVE  ChildChunks(s) = ChildChunks(<<Head(s)>>) + ChildChunks(Tail(s))
<1> DEFINE C(q) == {i \in DOMAIN q : q[i] = "child"}
           rest == C(s) \ {1}
           shift == [i \in C(Tail(s)) |-> i + 1]
<1>1. /\ Len(s) \in Nat /\ Len(s) > 0 /\ DOMAIN s = 1..Len(s)
      /\ Tail(s) \in Seq(Chunk) /\ DOMAIN Tail(s) = 1..(Len(s) - 1)
      /\ \A i \in 1..(Len(s) - 1) : Tail(s)[i] = s[i + 1]
      /\ Head(s) = s[1]
  OBVIOUS
<1>2. \A i \in C(Tail(s)) : i \in Nat /\ i + 1 \in rest
  BY <1>1
<1>3. \A j \in rest : j - 1 \in C(Tail(s)) /\ j = (j - 1) + 1
  <2> SUFFICES ASSUME NEW j \in rest PROVE j - 1 \in C(Tail(s)) /\ j = (j - 1) + 1
    OBVIOUS
  <2>1. j \in 2..Len(s) /\ s[j] = "child"
    BY <1>1
  <2>2. j - 1 \in 1..(Len(s) - 1) /\ j = (j - 1) + 1
    BY <1>1, <2>1
  <2>3. Tail(s)[j - 1] = s[j]
    BY <1>1, <2>2
  <2> QED
    BY <1>1, <2>1, <2>2, <2>3
<1>4. shift \in Bijection(C(Tail(s)), rest)
  <2>1. shift \in [C(Tail(s)) -> rest]
    BY <1>2
  <2>2. \A a, b \in C(Tail(s)) : shift[a] = shift[b] => a = b
    BY <1>2
  <2>3. \A j \in rest : \E i \in C(Tail(s)) : shift[i] = j
    BY <1>3
  <2> QED
    BY <2>1, <2>2, <2>3 DEF Bijection, Injection, Surjection, IsInjective
<1>5. Cardinality(rest) = Cardinality(C(Tail(s)))
  <2>1. ExistsBijection(C(Tail(s)), rest)
    BY <1>4 DEF ExistsBijection
  <2>2. IsFiniteSet(C(Tail(s)))
    BY <1>1, ChunksAreFinite
  <2> QED
    BY <2>1, <2>2, FS_Bijection
<1>6. ChildChunks(<<Head(s)>>) = IF Head(s) = "child" THEN 1 ELSE 0
  <2>1. C(<<Head(s)>>) = IF Head(s) = "child" THEN {1} ELSE {}
    OBVIOUS
  <2>2. Cardinality({1}) = 1 /\ Cardinality({}) = 0
    BY FS_Singleton, FS_EmptySet
  <2> QED
    BY <2>1, <2>2 DEF ChildChunks
<1>c. ChildChunks(s) = Cardinality(C(s)) /\ ChildChunks(Tail(s)) = Cardinality(C(Tail(s)))
  BY DEF ChildChunks
<1>7. CASE Head(s) = "child"
  <2>1. 1 \in C(s)
    BY <1>1, <1>7
  <2>2. Cardinality(rest) = Cardinality(C(s)) - 1 /\ Cardinality(C(s)) \in Nat
    BY <2>1, ChunksAreFinite, FS_RemoveElement, FS_CardinalityType
  <2> HIDE DEF C, rest
  <2> QED
    BY <1>5, <1>6, <1>7, <1>c, <2>2
<1>8. CASE Head(s) # "child"
  <2>1. rest = C(s)
    BY <1>1, <1>8
  <2>2. ChildChunks(Tail(s)) \in Nat
    BY <1>1, ChunksAreFinite
  <2> HIDE DEF C, rest
  <2> QED
    BY <1>5, <1>6, <1>8, <1>c, <2>1, <2>2
<1> QED
  BY <1>7, <1>8

-----------------------------------------------------------------------------
\* All of the child's output is collected.

\* What the child said on a pipe with a reader thread is collected or queued.
Collecting ==
  /\ got \in [Output -> Nat]
  /\ \A p \in Threaded : got[p] + ChildChunks(pipe[p]) = said[p]

\* Until the call gives the child up, a reader that is done has left nothing of
\* the child's output behind, and nothing more can come.
Attending == {"copy", "close", "wait", "flag", "wake", "join", "report", "rename"}

Draining ==
  /\ reader \in [Output -> {"none", "reading", "done"}]
  /\ main \in Attending =>
    /\ \A p \in Threaded : /\ reader[p] \in {"reading", "done"}
                           /\ reader[p] = "done" => ssh = "exited" /\ ChildChunks(pipe[p]) = 0
    /\ cancelled \/ main \in {"wake", "join", "report", "rename"} => drain
    /\ drain \/ main \in {"flag", "wake", "join", "report", "rename"} => ssh = "exited"
    /\ main \in {"report", "rename"} => \A p \in Threaded : reader[p] # "reading"

LEMMA InitDrains == Init => Collecting /\ Draining
  BY NoChunks DEF Init, Collecting, Draining, Attending, Threaded, Output

LEMMA CollectStep ==
  ASSUME IInv, Collecting, [Next]_vars
  PROVE  Collecting'
<1> USE DEF Threaded, Output, Up, callVars, drainVars, pipeVars, remoteVars, fileVars, local
<1>p. Pipes /\ said \in [Output -> Nat]
  BY DEF IInv, Control
<1>1. CASE UNCHANGED <<kind, got, pipe, said>>
  BY <1>1 DEF Collecting
<1>2. ASSUME NEW p \in Output, ReadStep(p) PROVE Collecting'
  <2>1. CASE UNCHANGED <<got, pipe>>
    BY <1>1, <1>2, <2>1 DEF ReadStep
  <2>2. ASSUME NEW n, NEW rest, got' = [got EXCEPT ![p] = @ + n],
               pipe' = [pipe EXCEPT ![p] = rest],
               n \in Nat, ChildChunks(rest) \in Nat,
               ChildChunks(pipe[p]) = n + ChildChunks(rest)
        PROVE  Collecting'
    <3>1. kind' = kind /\ said' = said
      BY <1>2 DEF ReadStep
    <3>2. got' \in [Output -> Nat]
      BY <2>2 DEF Collecting
    <3>3. ASSUME NEW q \in Threaded PROVE got'[q] + ChildChunks(pipe'[q]) = said'[q]
      <4>1. q \in Output /\ got[q] \in Nat /\ got[q] + ChildChunks(pipe[q]) = said[q]
        BY <3>3 DEF Collecting
      <4>2. CASE q = p
        <5>1. got'[q] = got[q] + n /\ pipe'[q] = rest
          BY <2>2, <4>1, <4>2 DEF Collecting, Pipes, IInv
        <5> QED
          BY <2>2, <3>1, <4>1, <4>2, <5>1
      <4>3. CASE q # p
        BY <2>2, <3>1, <4>1, <4>3 DEF Collecting, Pipes, IInv
      <4> QED
        BY <4>2, <4>3
    <3> QED
      BY <3>1, <3>2, <3>3 DEF Collecting
  <2>3. CASE Read(p)
    <3>1. /\ pipe[p] \in Seq(Chunk) /\ pipe[p] # <<>>
          /\ got' = [got EXCEPT ![p] = @ + ChildChunks(<<Head(pipe[p])>>)]
          /\ pipe' = [pipe EXCEPT ![p] = Tail(pipe[p])]
      BY <1>p, <2>3 DEF Pipes, Read
    <3>2. <<Head(pipe[p])>> \in Seq(Chunk) /\ Tail(pipe[p]) \in Seq(Chunk)
      BY <3>1
    <3> QED
      BY <2>2, <3>1, <3>2, TakeChunk, ChunksAreFinite
  <2>4. CASE Cancelled(p) /\ ~(UNCHANGED <<got, pipe>>)
    <3>1. /\ pipe[p] \in Seq(Chunk)
          /\ got' = [got EXCEPT ![p] = @ + ChildChunks(pipe[p])]
          /\ pipe' = [pipe EXCEPT ![p] = <<>>]
      BY <1>p, <2>4 DEF Pipes, Cancelled
    <3>2. ChildChunks(pipe[p]) \in Nat
      BY <3>1, ChunksAreFinite
    <3>3. /\ ChildChunks(<<>>) \in Nat
          /\ ChildChunks(pipe[p]) = ChildChunks(pipe[p]) + ChildChunks(<<>>)
      BY <3>2, NoChunks
    <3> QED
      BY <2>2, <3>1, <3>2, <3>3
  <2> QED
    BY <1>2, <2>1, <2>3, <2>4 DEF ReadStep, ReadEnds
<1>3. ASSUME NEW p \in Output, NEW c \in Chunk, pipe' = [pipe EXCEPT ![p] = Append(@, c)],
             c = "child" => said' = [said EXCEPT ![p] = @ + 1],
             c # "child" => said' = said,
             UNCHANGED <<kind, got>>
      PROVE  Collecting'
  <2>1. ASSUME NEW q \in Threaded PROVE got'[q] + ChildChunks(pipe'[q]) = said'[q]
    <3>1. /\ q \in Output /\ got[q] \in Nat /\ got[q] + ChildChunks(pipe[q]) = said[q]
          /\ pipe[q] \in Seq(Chunk) /\ ChildChunks(pipe[q]) \in Nat
      BY <1>p, <1>3, <2>1, ChunksAreFinite DEF Collecting, Pipes
    <3>2. CASE q = p
      <4>1. pipe'[q] = Append(pipe[q], c)
        BY <1>p, <1>3, <3>1, <3>2 DEF Pipes
      <4>2. said'[q] = IF c = "child" THEN said[q] + 1 ELSE said[q]
        BY <1>p, <1>3, <3>1, <3>2
      <4>3. ChildChunks(pipe'[q]) =
              IF c = "child" THEN ChildChunks(pipe[q]) + 1 ELSE ChildChunks(pipe[q])
        BY <1>3, <3>1, <4>1, AppendChunk
      <4>4. got'[q] = got[q] /\ got[q] \in Nat /\ said[q] \in Nat
        BY <1>3, <1>p, <3>1
      <4> QED
        BY <3>1, <4>2, <4>3, <4>4
    <3>3. CASE q # p
      BY <1>p, <1>3, <3>1, <3>3 DEF Pipes
    <3> QED
      BY <3>2, <3>3
  <2> QED
    BY <1>3, <2>1 DEF Collecting
<1>4. CASE Flush
  <2>1. CASE UNCHANGED <<pipe, said>>
    BY <1>1, <1>4, <2>1 DEF Flush
  <2>2. CASE ~(UNCHANGED <<pipe, said>>)
    <3>1. /\ saying \in Output /\ pipe' = [pipe EXCEPT ![saying] = Append(@, "child")]
          /\ said' = [said EXCEPT ![saying] = @ + 1] /\ UNCHANGED <<kind, got>>
      BY <1>4, <2>2 DEF Flush, IInv, Control
    <3>2. "child" \in Chunk
      BY Queues
    <3> QED
      BY <1>3, <3>1, <3>2
  <2> QED
    BY <2>1, <2>2
<1>5. CASE HelperWrites
  <2>1. /\ \E p \in Output : pipe' = [pipe EXCEPT ![p] = Append(@, "helper")]
        /\ UNCHANGED <<said, kind, got>>
    BY <1>5 DEF HelperWrites, Held
  <2> QED
    BY <1>3, <2>1, Queues
<1>6. CASE Pull
  <2>1. /\ UNCHANGED <<kind, got, said>> /\ Threaded = {"err"}
        /\ pipe' = [pipe EXCEPT !["out"] = Tail(@)]
    BY <1>6 DEF Pull
  <2>2. pipe'["err"] = pipe["err"]
    BY <1>p, <2>1 DEF Pipes
  <2> QED
    BY <2>1, <2>2 DEF Collecting
<1>7. CASE ~(\E p \in Output : ReadStep(p)) /\ ~Flush /\ ~HelperWrites /\ ~Pull
  <2>1. UNCHANGED <<kind, got, pipe, said>>
    BY <1>7 DEF Next, Call, Shell, Feed, FeedBroken, SourceFails, SourceEnds, PullEnds,
       PullFails, ReceiveFails, CloseStdin, Wait, ChildExited, Join, Report, Rename, Cancel, Kill, Drop,
       ShellStart, Receive, ReceiveEnds, Check, Move, Send, ShellExit, HangUp, Say, SshExit,
       HelperExits, Disconnect, TabletDies, CallerDies, Over, vars
  <2> QED
    BY <1>1, <2>1
<1> QED
  BY <1>2, <1>4, <1>5, <1>6, <1>7

LEMMA DrainStep ==
  ASSUME IInv, Draining, [Next]_vars
  PROVE  Draining'
<1> USE DEF Threaded, Output, Up, callVars, drainVars, pipeVars, remoteVars, fileVars, local
<1>p. pipe \in [Output -> Seq(Chunk)] /\ ssh \in {"running", "exited"}
  BY DEF IInv, Control, Pipes
<1>r. reader \in [Output -> {"none", "reading", "done"}]
  BY DEF Draining
\* Only the reader threads and the writers change what the conjuncts are about.
<1>1. CASE UNCHANGED <<kind, main, reader, pipe, cancelled, drain>> /\ (ssh = "exited" => ssh' = "exited")
  BY <1>1 DEF Draining
<1>2. ASSUME NEW p \in Output, ReadStep(p) PROVE Draining'
  <2>1. UNCHANGED <<kind, main, cancelled, drain, ssh>>
    BY <1>2 DEF ReadStep, Read, ReadEnds, Cancelled
  <2>2. CASE Read(p)
    <3>1. reader' = reader /\ reader[p] = "reading" /\ \A q \in Output : q # p => pipe'[q] = pipe[q]
      BY <1>p, <2>2 DEF Read
    <3> QED
      BY <2>1, <3>1 DEF Draining
  <2>3. CASE ReadEnds(p)
    <3>1. reader' = [reader EXCEPT ![p] = "done"] /\ pipe' = pipe /\ pipe[p] = <<>> /\ ssh = "exited"
      BY <2>3 DEF ReadEnds
    <3>2. ChildChunks(pipe'[p]) = 0
      BY <3>1, NoChunks
    <3> QED
      BY <1>r, <2>1, <2>3, <3>1, <3>2 DEF Draining, ReadEnds
  <2>4. CASE Cancelled(p)
    <3>1. reader' = [reader EXCEPT ![p] = "done"] /\ reader[p] = "reading" /\ cancelled
      BY <2>4 DEF Cancelled
    <3>2. CASE main \notin Attending
      BY <1>r, <2>1, <3>1, <3>2 DEF Draining
    <3>3. CASE main \in Attending
      <4>1. drain /\ ssh = "exited" /\ pipe' = [pipe EXCEPT ![p] = <<>>]
        BY <2>4, <3>1, <3>3 DEF Draining, Cancelled
      <4>2. pipe'[p] = <<>> /\ ChildChunks(pipe'[p]) = 0 /\ \A q \in Output : q # p => pipe'[q] = pipe[q]
        BY <1>p, <4>1, NoChunks
      <4> QED
        BY <1>r, <2>1, <3>1, <3>3, <4>1, <4>2 DEF Draining
    <3> QED
      BY <3>2, <3>3
  <2> QED
    BY <1>2, <2>2, <2>3, <2>4 DEF ReadStep
<1>3. CASE Flush
  <2>1. UNCHANGED <<kind, main, reader, cancelled, drain, ssh>>
    BY <1>3 DEF Flush
  <2>2. ssh = "exited" => pipe' = pipe
    BY <1>3 DEF Flush
  <2> QED
    BY <2>1, <2>2 DEF Draining
<1>4. CASE HelperWrites
  <2>1. UNCHANGED <<kind, main, reader, cancelled, drain, ssh>>
    BY <1>4 DEF HelperWrites
  <2>2. PICK p \in Output : pipe' = [pipe EXCEPT ![p] = Append(@, "helper")]
    BY <1>4 DEF HelperWrites, Held
  <2>3. "helper" \in Chunk /\ "helper" # "child"
    BY Queues
  <2>4. \A q \in Output : ChildChunks(pipe'[q]) = ChildChunks(pipe[q])
    <3>1. ChildChunks(Append(pipe[p], "helper")) = ChildChunks(pipe[p])
      BY <1>p, <2>3, AppendChunk
    <3>2. pipe'[p] = Append(pipe[p], "helper") /\ \A q \in Output : q # p => pipe'[q] = pipe[q]
      BY <1>p, <2>2
    <3> QED
      BY <3>1, <3>2
  <2> QED
    BY <2>1, <2>4 DEF Draining
<1>5. CASE Pull
  <2>1. /\ UNCHANGED <<kind, main, reader, cancelled, drain, ssh>> /\ Threaded = {"err"}
        /\ pipe' = [pipe EXCEPT !["out"] = Tail(@)]
    BY <1>5 DEF Pull
  <2>2. pipe'["err"] = pipe["err"]
    BY <1>p, <2>1
  <2> QED
    BY <2>1, <2>2 DEF Draining
<1>6. CASE Feed \/ FeedBroken \/ SourceFails \/ SourceEnds \/ PullEnds \/ CloseStdin \/ Wait
  <2>1. /\ UNCHANGED <<kind, reader, pipe, cancelled, drain, ssh>>
        /\ main \in Attending /\ main \notin {"flag", "wake", "join", "report", "rename"}
        /\ main' \in {"copy", "close", "wait", "cancel"} \/ (main' = "flag" /\ ssh = "exited")
    BY <1>6 DEF Feed, FeedBroken, SourceFails, SourceEnds, PullEnds, CloseStdin, AfterClose,
       Wait, Attending
  <2> QED
    BY <2>1 DEF Draining, Attending
<1>7. CASE ChildExited
  BY <1>7 DEF ChildExited, Draining, Attending
<1>8. CASE Join
  <2>1. /\ UNCHANGED <<kind, reader, pipe, cancelled, drain, ssh>>
        /\ main = "join" /\ main' = "report" /\ \A p \in Output : reader[p] # "reading"
    BY <1>8 DEF Join, ReadersDone
  <2> QED
    BY <2>1 DEF Draining, Attending
<1>9. CASE Report
  <2>1. /\ UNCHANGED <<kind, reader, pipe, cancelled, drain, ssh>>
        /\ main = "report" /\ main' \in {"rename", "done"}
    BY <1>9 DEF Report
  <2> QED
    BY <2>1 DEF Draining, Attending
<1>10. CASE Rename \/ PullFails \/ Cancel \/ Kill \/ Drop
  BY <1>10 DEF Rename, PullFails, Cancel, Kill, Drop, Draining, Attending
<1>11. CASE CallerDies
  <2>1. main' = "done" /\ reader' \in [Output -> {"none", "reading", "done"}]
    BY <1>r, <1>11 DEF CallerDies
  <2> QED
    BY <2>1 DEF Draining, Attending
<1>12. CASE \/ ShellStart \/ Receive \/ ReceiveFails \/ ReceiveEnds \/ Check \/ Move \/ Send
            \/ ShellExit \/ HangUp \/ Say \/ SshExit \/ HelperExits \/ Disconnect \/ TabletDies \/ Over
            \/ UNCHANGED vars
  BY <1>1, <1>12 DEF ShellStart, Receive, ReceiveFails, ReceiveEnds, Check, Move, Send, ShellExit, HangUp,
     Say, SshExit, HelperExits, Disconnect, TabletDies, Over, vars
<1> QED
  BY <1>2, <1>3, <1>4, <1>5, <1>6, <1>7, <1>8, <1>9, <1>10, <1>11, <1>12 DEF Next, Call, Shell

\* A call that waited for the child has collected all the child said, also
\* when a helper keeps the pipes open (wait_for_output and drain_pipe).
THEOREM DiagnosticsAreKept == Spec => []DiagnosticsKept
<1>1. Init => IInv /\ Collecting /\ Draining
  BY InitEstablishes, InitDrains
<1>2. IInv /\ Collecting /\ Draining /\ [Next]_vars => (IInv /\ Collecting /\ Draining)'
  BY NextKeeps, CollectStep, DrainStep
<1>3. IInv /\ Collecting /\ Draining => DiagnosticsKept
  <2> SUFFICES ASSUME Collecting, Draining, main = "report", NEW p \in Threaded
               PROVE  got[p] = said[p]
    BY DEF DiagnosticsKept
  <2>1. p \in Output /\ got[p] \in Nat
    BY DEF Threaded, Output, Collecting
  <2>2. reader[p] = "done" /\ ChildChunks(pipe[p]) = 0
    BY DEF Draining, Attending
  <2> QED
    BY <2>1, <2>2 DEF Collecting
<1> QED
  BY <1>1, <1>2, <1>3, PTL DEF Spec

-----------------------------------------------------------------------------
\* The staging file is gone.

\* An upload's call waits for the child, which ends with the shell or loses its
\* connection; the shell's trap has run when it is gone.  A download drops its
\* own staging file on every way out.
Cleaning ==
  /\ kind = "upload" =>
       /\ main \notin {"cancel", "kill", "drop", "rename"}
       /\ link \in {"up", "lost"}
       /\ shell = "gone" => temp = NoTemp
       /\ ssh = "exited" => shell = "gone" \/ link = "lost"
       /\ main \in {"flag", "wake", "join", "report"} \/ result \in {"ok", "failed"} =>
            ssh = "exited"
  /\ kind = "download" => (main = "done" => result # "pending")
                          /\ (result \in {"ok", "failed"} => temp = NoTemp /\ main = "done")

LEMMA CleanStep ==
  ASSUME IInv, Cleaning, [Next]_vars
  PROVE  Cleaning'
<1> USE DEF Up, callVars, drainVars, pipeVars, remoteVars, fileVars, local, Ends, Cleaning
<1>1. /\ kind \in AllKinds /\ (main # "done" => result = "pending")
      /\ kind = "download" => shell \notin {"check", "move"}
      /\ code # "none" => shell \in {"trap", "gone", "killed"}
      /\ ssh \in {"running", "exited"}
  BY DEF IInv, Control, Downloading
<1>2. CASE Feed \/ FeedBroken \/ SourceFails \/ SourceEnds \/ Pull \/ PullEnds \/ PullFails
  BY <1>1, <1>2 DEF Feed, FeedBroken, SourceFails, SourceEnds, Pull, PullEnds, PullFails
<1>3. CASE CloseStdin \/ Wait \/ ChildExited \/ Join
  BY <1>1, <1>3 DEF CloseStdin, AfterClose, Wait, ChildExited, Join, IInv, Downloading
<1>4. CASE Report \/ Rename \/ Cancel \/ Kill \/ Drop
  BY <1>1, <1>4 DEF Report, Rename, Cancel, Kill, Drop
<1>5. CASE ShellStart \/ Receive \/ ReceiveFails \/ ReceiveEnds \/ Check \/ Move
  BY <1>1, <1>5 DEF ShellStart, Receive, ReceiveFails, ReceiveEnds, Check, Move
<1>6. CASE Send \/ ShellExit \/ HangUp \/ Flush \/ Say \/ SshExit
  BY <1>1, <1>6 DEF Send, ShellExit, HangUp, Flush, Say, SshExit
<1>7. CASE HelperWrites \/ HelperExits \/ Disconnect \/ TabletDies \/ CallerDies \/ Over
  BY <1>1, <1>7 DEF HelperWrites, HelperExits, Disconnect, TabletDies, CallerDies, Over, vars
<1>8. CASE (\E p \in Output : ReadStep(p)) \/ UNCHANGED vars
  BY <1>1, <1>8 DEF ReadStep, vars
<1> QED
  BY <1>2, <1>3, <1>4, <1>5, <1>6, <1>7, <1>8 DEF Next, Call, Shell

\* A call that returned over a connection that was not lost has left no staging
\* file, on the tablet or here (finish_upload, DownloadTemp).
THEOREM StagingIsCleared == Spec => []NoTempLeft
<1>1. Init => IInv /\ Cleaning
  BY InitEstablishes DEF Init, Cleaning
<1>2. IInv /\ Cleaning /\ [Next]_vars => (IInv /\ Cleaning)'
  BY NextKeeps, CleanStep
<1>3. IInv /\ Cleaning => NoTempLeft
  BY DEF Cleaning, NoTempLeft
<1> QED
  BY <1>1, <1>2, <1>3, PTL DEF Spec
=============================================================================

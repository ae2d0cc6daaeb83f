------------------------------ MODULE FilesSync -----------------------------
(***************************************************************************)
(* Filesystem <-> filesystem sync: run_files_sync (rmu/src/main.rs),       *)
(* plan_files and execute_files (sync.rs), with the users of both trees    *)
(* editing while it runs, crashes, and the archive that survives them.     *)
(*                                                                         *)
(* A file is [ver, whole, mtime]: the version its bytes came from, whether *)
(* all of them are there, and its time.  A stamp is what stat() returns.   *)
(* The archive keeps, per path, the stamp of each side at the last sync.   *)
(* One process runs the sync: every change to the in-memory archive is     *)
(* saved by an atomic rename before the next action, so `archive` is the   *)
(* state file.                                                             *)
(*                                                                         *)
(* Bounds: NumPaths paths, MaxEdits user edits, MaxCrashes interruptions.  *)
(***************************************************************************)
EXTENDS PairTable, Naturals

CONSTANTS
  NumPaths,         \* Paths are 1..NumPaths, in the order of the plan's BTreeSet.
  Options,          \* The option sets the user runs the sync with.
  MaxEdits,         \* Bound on user edits.
  MaxCrashes,       \* Bound on interruptions.
  TornWrites,       \* May an interruption hit inside a destination write?
  QuietDestination  \* Do users leave alone what a running plan will overwrite?

ASSUME FilesAssumption ==
  /\ NumPaths \in Nat \ {0}
  /\ Options \subseteq SyncOptions
  /\ MaxEdits \in Nat
  /\ MaxCrashes \in Nat
  /\ TornWrites \in BOOLEAN
  /\ QuietDestination \in BOOLEAN

VARIABLES
  file,      \* file[s][p]: the file at path p of side s
  clock,     \* clock[s]: the last time stamped on side s (the sides' clocks differ)
  archive,   \* archive[p]: the state file's entry, or NoEntry
  phase,     \* where the sync process is
  opts,      \* options of the current (or last) run
  snapA,     \* stamps of the first snapshot, taken before the second
  plan,      \* plan[p]: what is left to do
  cur,       \* the copy in progress
  edits,     \* user edits so far
  crashes,   \* interruptions so far
  live,      \* ghost: versions users wrote and did not themselves replace or delete
  quiet      \* ghost: no edit or interruption since the current run began

syncVars == <<phase, opts, snapA, plan, cur>>
ghosts == <<live, quiet>>
vars == <<file, clock, archive, syncVars, edits, crashes, ghosts>>

Path == 1..NumPaths
Side == {"a", "b"}
Other(s) == IF s = "a" THEN "b" ELSE "a"

Version == 0..(2 * NumPaths + MaxEdits)
File == [present : BOOLEAN, ver : Version, whole : BOOLEAN, mtime : Nat]
NoFile == [present |-> FALSE, ver |-> 0, whole |-> FALSE, mtime |-> 0]

\* Mutant of StampOf: only the time is kept, not the length.
StampOfTime(f) == [present |-> f.present, mtime |-> f.mtime]

\* stat(): present files of different length or mtime differ.
Stamp == [present : BOOLEAN, whole : BOOLEAN, mtime : Nat]
StampOf(f) == [present |-> f.present, whole |-> f.whole, mtime |-> f.mtime]

Entry == [mapped : BOOLEAN, a : Stamp, b : Stamp]
NoEntry == [mapped |-> FALSE, a |-> StampOf(NoFile), b |-> StampOf(NoFile)]

NothingPlanned == [p \in Path |-> "None"]
NoSnapshot == [p \in Path |-> StampOf(NoFile)]

Copy == [path : Path, to : Side, source : Stamp, data : File, dest : Stamp]
NoCopy == [path |-> 1, to |-> "b", source |-> StampOf(NoFile),
           data |-> NoFile, dest |-> StampOf(NoFile)]

Transferring == {"stat", "read", "verify", "write", "fill", "written"}
Phase == {"idle", "scanned", "run", "done"} \cup Transferring

-----------------------------------------------------------------------------
\* decide_file: the views of one path, from its two stamps and its entry.

View(stamp, entry, archived) ==
  [present |-> stamp.present,
   changed |-> ~entry.mapped \/ stamp # archived,
   ms      |-> stamp.mtime]

DecideFile(o, stampA, stampB, entry) ==
  DecidePair(o, View(stampA, entry, entry.a), View(stampB, entry, entry.b), entry.mapped)

PlanFiles(o, stampsA, stampsB, entries) ==
  [p \in Path |-> DecideFile(o, stampsA[p], stampsB[p], entries[p])]

Snapshot(s) == [p \in Path |-> StampOf(file[s][p])]

-----------------------------------------------------------------------------
\* run_files_sync up to the plan: both roots are listed one after the other,
\* then the archive is loaded.

Scan(o) ==
  /\ phase \in {"idle", "done"}
  /\ phase' = "scanned"
  /\ opts' = o
  /\ snapA' = Snapshot("a")
  /\ quiet' = TRUE
  /\ UNCHANGED <<file, clock, archive, plan, cur, edits, crashes, live>>

MakePlan ==
  /\ phase = "scanned"
  /\ phase' = "run"
  /\ plan' = PlanFiles(opts, snapA, Snapshot("b"), archive)
  /\ snapA' = NoSnapshot
  /\ UNCHANGED <<file, clock, archive, opts, cur, edits, crashes, ghosts>>

\* Conflicts are only reported, so the first path with work left is next.
Pending(p) == plan[p] \notin {"None", "Conflict"}
IsNext(p) == /\ phase = "run"
             /\ Pending(p)
             /\ \A q \in Path : q < p => ~Pending(q)

\* The run ends: `phase'` says how, nothing of it is left in memory.
EndRun(how) ==
  /\ phase' = how
  /\ plan' = NothingPlanned
  /\ cur' = NoCopy
  /\ snapA' = NoSnapshot
  /\ UNCHANGED opts

\* Mutant of Finish: a conflict counts as work left.
FinishWithoutConflicts ==
  /\ phase = "run"
  /\ \A p \in Path : plan[p] = "None"
  /\ EndRun("done")
  /\ UNCHANGED <<file, clock, archive, edits, crashes, ghosts>>

Finish ==
  /\ phase = "run"
  /\ \A p \in Path : ~Pending(p)
  /\ EndRun("done")
  /\ UNCHANGED <<file, clock, archive, edits, crashes, ghosts>>

-----------------------------------------------------------------------------
\* execute_files, one action per effect of the copy closure.

Source == file[Other(cur.to)][cur.path]
Destination == file[cur.to][cur.path]

\* The syncer or a user stamps side s with a time of its own clock.
Put(s, p, f) ==
  /\ file' = [file EXCEPT ![s][p] = [f EXCEPT !.mtime = clock[s] + 1]]
  /\ clock' = [clock EXCEPT ![s] = @ + 1]

\* An error return of the copy ends the whole run (try_for_each with `?`).
Fail ==
  /\ EndRun("idle")
  /\ UNCHANGED <<file, clock, archive, edits, crashes, ghosts>>

Advance(next) ==
  /\ phase' = next
  /\ UNCHANGED <<opts, snapA, plan, edits, crashes, ghosts>>

StartCopy(p) ==
  /\ IsNext(p)
  /\ plan[p] \in {"CopyToA", "CopyToB"}
  /\ cur' = [NoCopy EXCEPT !.path = p, !.to = IF plan[p] = "CopyToB" THEN "b" ELSE "a"]
  /\ Advance("stat")
  /\ UNCHANGED <<file, clock, archive>>

StatSource ==
  /\ phase = "stat"
  /\ \/ /\ Source.present
        /\ cur' = [cur EXCEPT !.source = StampOf(Source)]
        /\ Advance("read")
        /\ UNCHANGED <<file, clock, archive>>
     \/ ~Source.present /\ Fail

ReadSource ==
  /\ phase = "read"
  /\ \/ /\ Source.present
        /\ cur' = [cur EXCEPT !.data = Source]
        /\ Advance("verify")
        /\ UNCHANGED <<file, clock, archive>>
     \/ ~Source.present /\ Fail

\* verify_source: same stamp as captured, and as many bytes as it says.
SourceVerified ==
  /\ StampOf(Source) = cur.source
  /\ cur.data.whole = cur.source.whole

VerifyBeforeWrite ==
  /\ phase = "verify"
  /\ \/ SourceVerified /\ Advance("write") /\ UNCHANGED <<file, clock, archive, cur>>
     \/ ~SourceVerified /\ Fail

\* destination.write truncates the file in place and then fills it.
Truncate ==
  /\ phase = "write"
  /\ Put(cur.to, cur.path, [cur.data EXCEPT !.whole = FALSE])
  /\ Advance("fill")
  /\ UNCHANGED <<archive, cur>>

Fill ==
  /\ phase = "fill"
  /\ Put(cur.to, cur.path, cur.data)
  /\ Advance("written")
  /\ UNCHANGED <<archive, cur>>

StatDestination ==
  /\ phase = "written"
  /\ ~cur.dest.present
  /\ \/ /\ Destination.present
        /\ cur' = [cur EXCEPT !.dest = StampOf(Destination)]
        /\ Advance("written")
        /\ UNCHANGED <<file, clock, archive>>
     \/ ~Destination.present /\ Fail

\* Mutant of Copied: the stamps are stored as if side a were always the source.
CopiedAsPush(source, dest) == [mapped |-> TRUE, a |-> source, b |-> dest]

\* The entry holds the captured source stamp, never a later one.
Copied(source, dest) ==
  [mapped |-> TRUE,
   a |-> IF cur.to = "b" THEN source ELSE dest,
   b |-> IF cur.to = "b" THEN dest ELSE source]

\* Mutant of VerifyAndRecord: the source is stat'ed anew instead of verified.
RecordLateStamp ==
  /\ phase = "written"
  /\ cur.dest.present
  /\ archive' = [archive EXCEPT ![cur.path] = Copied(StampOf(Source), cur.dest)]
  /\ plan' = [plan EXCEPT ![cur.path] = "None"]
  /\ cur' = NoCopy
  /\ phase' = "run"
  /\ UNCHANGED <<file, clock, opts, snapA, edits, crashes, ghosts>>

VerifyAndRecord ==
  /\ phase = "written"
  /\ cur.dest.present
  /\ \/ /\ SourceVerified
        /\ archive' = [archive EXCEPT ![cur.path] = Copied(cur.source, cur.dest)]
        /\ plan' = [plan EXCEPT ![cur.path] = "None"]
        /\ cur' = NoCopy
        /\ phase' = "run"
        /\ UNCHANGED <<file, clock, opts, snapA, edits, crashes, ghosts>>
     \/ ~SourceVerified /\ Fail

\* Deletions: the file goes first, the entry is saved after it (a crash in
\* between leaves an entry without files, which the next plan forgets).
RemoveFile(p) ==
  /\ IsNext(p)
  /\ plan[p] \in {"DeleteA", "DeleteB"}
  /\ file' = [file EXCEPT ![IF plan[p] = "DeleteA" THEN "a" ELSE "b"][p] = NoFile]
  /\ plan' = [plan EXCEPT ![p] = "Forget"]
  /\ UNCHANGED <<clock, archive, phase, opts, snapA, cur, edits, crashes, ghosts>>

Forget(p) ==
  /\ IsNext(p)
  /\ plan[p] = "Forget"
  /\ archive' = [archive EXCEPT ![p] = NoEntry]
  /\ plan' = [plan EXCEPT ![p] = "None"]
  /\ UNCHANGED <<file, clock, phase, opts, snapA, cur, edits, crashes, ghosts>>

SyncStep ==
  \/ MakePlan
  \/ \E p \in Path : StartCopy(p) \/ RemoveFile(p) \/ Forget(p)
  \/ StatSource
  \/ ReadSource
  \/ VerifyBeforeWrite
  \/ Truncate
  \/ Fill
  \/ StatDestination
  \/ VerifyAndRecord
  \/ Finish

-----------------------------------------------------------------------------
\* The environment.

WritesSide(s) == IF s = "a" THEN WritesA ELSE WritesB

\* Side s of p has been listed and the running sync may still overwrite or
\* delete it: a writable side a before the plan, the plan's targets after it.
Targeted(s, p) ==
  \/ phase = "scanned" /\ s = "a" /\ CanWriteLocal(opts.mode)
  \/ /\ phase \in {"run"} \cup Transferring
     /\ plan[p] \in WritesSide(s)

\* Nobody else writes a file inside the syncer's write call to it.
MayEdit(s, p) ==
  /\ edits < MaxEdits
  /\ ~(phase = "fill" /\ cur.to = s /\ cur.path = p)
  /\ QuietDestination => ~Targeted(s, p)

\* A user who replaces a whole version no longer wants it.
Superseded(s, p) == IF file[s][p].whole THEN {file[s][p].ver} ELSE {}

\* One who removes a file gives up its version if it was the last copy, or if
\* the runs propagate deletions.
Discarded(s, p) ==
  IF \/ ~file[Other(s)][p].whole
     \/ file[Other(s)][p].ver # file[s][p].ver
     \/ \E o \in Options : o.delete
  THEN Superseded(s, p) ELSE {}

UserWrite(s, p) ==
  /\ MayEdit(s, p)
  /\ LET new == 2 * NumPaths + edits + 1 IN
     /\ Put(s, p, [present |-> TRUE, ver |-> new, whole |-> TRUE, mtime |-> 0])
     /\ live' = (live \ Superseded(s, p)) \cup {new}
  /\ edits' = edits + 1
  /\ quiet' = FALSE
  /\ UNCHANGED <<archive, syncVars, crashes>>

UserRemove(s, p) ==
  /\ MayEdit(s, p)
  /\ file[s][p].present
  /\ file' = [file EXCEPT ![s][p] = NoFile]
  /\ live' = live \ Discarded(s, p)
  /\ edits' = edits + 1
  /\ quiet' = FALSE
  /\ UNCHANGED <<clock, archive, syncVars, crashes>>

\* The process dies, or an I/O call fails and ends the run.
Crash ==
  /\ phase \in {"scanned", "run"} \cup Transferring
  /\ crashes < MaxCrashes
  /\ phase = "fill" => TornWrites
  /\ EndRun("idle")
  /\ crashes' = crashes + 1
  /\ quiet' = FALSE
  /\ UNCHANGED <<file, clock, archive, edits, live>>

-----------------------------------------------------------------------------
\* First sync ever: any trees, no archive.  Side b may hold a copy of a's file.
InitialFile(v) == [present |-> TRUE, ver |-> v, whole |-> TRUE, mtime |-> 0]

Init ==
  /\ \E fa \in [Path -> BOOLEAN], fb \in [Path -> {"none", "own", "copy"}] :
       file = [s \in Side |-> [p \in Path |->
         CASE s = "a" /\ fa[p]          -> InitialFile(p)
           [] s = "b" /\ fb[p] = "own"  -> InitialFile(NumPaths + p)
           [] s = "b" /\ fb[p] = "copy" -> InitialFile(p)
           [] OTHER                     -> NoFile]]
  /\ clock = [s \in Side |-> 0]
  /\ archive = [p \in Path |-> NoEntry]
  /\ phase = "idle"
  /\ opts \in Options
  /\ snapA = NoSnapshot
  /\ plan = NothingPlanned
  /\ cur = NoCopy
  /\ edits = 0
  /\ crashes = 0
  /\ live = {file[s][p].ver : s \in Side, p \in Path} \ {0}
  /\ quiet = TRUE

UserStep == \E s \in Side, p \in Path : UserWrite(s, p) \/ UserRemove(s, p)

Next ==
  \/ \E o \in Options : Scan(o)
  \/ SyncStep
  \/ UserStep
  \/ Crash

Spec == Init /\ [][Next]_vars

\* The process, once started, keeps running: it is one sequential thread.
FairSpec == Spec /\ WF_vars(SyncStep)

-----------------------------------------------------------------------------
\* Types.
TypeOK ==
  /\ file \in [Side -> [Path -> File]]
  /\ clock \in [Side -> Nat]
  /\ archive \in [Path -> Entry]
  /\ phase \in Phase
  /\ opts \in Options
  /\ snapA \in [Path -> Stamp]
  /\ plan \in [Path -> Disposition]
  /\ cur \in Copy
  /\ edits \in 0..MaxEdits
  /\ crashes \in 0..MaxCrashes
  /\ live \subseteq Version
  /\ quiet \in BOOLEAN

Same(f, g) == /\ f.present = g.present
              /\ f.present => f.ver = g.ver /\ f.whole = g.whole

Whole(v) == \E s \in Side, p \in Path : file[s][p].ver = v /\ file[s][p].whole

\* A version a user wrote and did not replace or delete is whole on some
\* side: the default conflict policy "loses nothing" (sync.rs:1047).  It
\* takes a wrong decision, a missed change or a damaged copy to break it.
NoVersionLost == \A v \in live : Whole(v)

\* The same of every run under that policy, whatever runs went before it.
SkipLosesNothing ==
  [][edits' = edits /\ opts.conflict = "Skip" => \A v \in live : Whole(v) => Whole(v)']_vars

\* An entry whose two stamps both match the trees vouches for equal content:
\* it is the reason both sides are skipped on the next run (fastcheck).  A
\* source edited during its own copy must not end up vouched for.
ArchiveVouches ==
  \A p \in Path :
    /\ archive[p].mapped
    /\ file["a"][p].present /\ file["b"][p].present
    /\ archive[p].a = StampOf(file["a"][p])
    /\ archive[p].b = StampOf(file["b"][p])
    => Same(file["a"][p], file["b"][p])

\* The paths an undisturbed run must leave equal: all of them two-way when
\* conflicts are resolved, the source's files one-way when the source wins.
Mirrored(p) ==
  \/ opts.mode = "TwoWay" /\ opts.conflict # "Skip"
  \/ opts.mode = "Push" /\ opts.conflict = "PreferLocal" /\ file["a"][p].present
  \/ opts.mode = "Pull" /\ opts.conflict = "PreferRemote" /\ file["b"][p].present

\* An undisturbed run does what its mode promises, whatever edits, crashes
\* and runs with other options came before it.
FinishedRunAgrees ==
  phase = "done" /\ quiet =>
    \A p \in Path : Mirrored(p) /\ (opts.delete => opts.mode = "TwoWay")
                      => Same(file["a"][p], file["b"][p])

\* The same promise with --delete, which "propagates deletions, rsync-style"
\* (docs/sync-design.md:37): a one-way run mirrors its source (README.md:91).
DeleteRunMirrors ==
  phase = "done" /\ quiet =>
    \A p \in Path : Mirrored(p) => Same(file["a"][p], file["b"][p])

\* Running it again straight after an undisturbed run has nothing to do but
\* report the same conflicts.
SecondRunIdle ==
  phase = "done" /\ quiet =>
    \A p \in Path :
      PlanFiles(opts, Snapshot("a"), Snapshot("b"), archive)[p] \in {"None", "Conflict"}

\* What the sync process changes on side s of p in one step.
SyncTouches(s, p) == file'[s][p] # file[s][p] /\ edits' = edits

\* A one-way run never changes its source, whatever the policy or the deletions.
SourceUntouched ==
  [][\A p \in Path :
       /\ SyncTouches("a", p) => opts.mode # "Push"
       /\ SyncTouches("b", p) => opts.mode # "Pull"]_vars

\* Under the skip policy the sync overwrites or deletes a file only if it is
\* the one the archive recorded: "Anything that changed on the destination
\* since the last sync is skipped with a warning, never silently overwritten".
NeverSilentlyOverwritten ==
  [][\A p \in Path : \A s \in Side :
       /\ SyncTouches(s, p)
       /\ phase # "fill"
       /\ file[s][p].present
       /\ opts.conflict = "Skip"
       => archive[p].mapped /\ StampOf(file[s][p]) = archive[p][s]]_vars

\* The conflicts a run reports are between different contents; "an interrupted
\* sync resumes cleanly" (sync.rs:8) instead of finding one with itself.
ConflictsAreReal ==
  phase = "run" /\ quiet =>
    \A p \in Path : plan[p] = "Conflict" /\ archive[p].mapped
                      => ~Same(file["a"][p], file["b"][p])

\* The inductive invariant behind the two action properties: the plan and the
\* copy in progress only write sides the mode allows, and under the skip
\* policy what the plan will overwrite is still what the archive recorded.
Running == phase \in {"run"} \cup Transferring

PlanRespectsMode ==
  /\ Running =>
       \A p \in Path : /\ plan[p] \in WritesA => opts.mode # "Push"
                       /\ plan[p] \in WritesB => opts.mode # "Pull"
  /\ phase \in Transferring =>
       plan[cur.path] = IF cur.to = "b" THEN "CopyToB" ELSE "CopyToA"

Written(p) == phase \in {"fill", "written"} /\ cur.path = p

UnchangedSinceSync(s, p) ==
  file[s][p].present => archive[p].mapped /\ StampOf(file[s][p]) = archive[p][s]

SkipPlanIsFresh ==
  QuietDestination /\ opts.conflict = "Skip" =>
    /\ phase = "scanned" /\ opts.mode # "Push" => snapA = Snapshot("a")
    /\ Running =>
         \A p \in Path : \A s \in Side :
           plan[p] \in WritesSide(s) /\ ~Written(p) => UnchangedSinceSync(s, p)

\* The invariant behind what the archive vouches for.  Times never come back:
\* whatever was stamped or recorded on a side is not after the side's clock, so
\* a later write of the file can not match it; neither do versions.
StampsArePast ==
  /\ \A s \in Side, p \in Path :
       /\ file[s][p].mtime <= clock[s]
       /\ archive[p][s].mtime <= clock[s]
       /\ file[s][p].ver <= 2 * NumPaths + edits
  /\ cur.source.mtime <= clock[Other(cur.to)]
  /\ cur.dest.mtime <= clock[cur.to]
  /\ cur.data.ver <= 2 * NumPaths + edits

\* While the source still has the captured stamp, what was read is its content.
CopyReadsSource ==
  /\ phase \in {"read", "verify", "write", "fill", "written"} => cur.source.present
  /\ phase \in {"verify", "write", "fill", "written"} =>
       /\ cur.data.present
       /\ StampOf(Source) = cur.source => Source.ver = cur.data.ver

\* What was written stays at the destination, and so does its stamp, unless a
\* user writes there during the run.
CopyStays ==
  /\ phase = "fill" => ~Destination.whole
  /\ phase # "written" => ~cur.dest.present
  /\ phase = "written" /\ (quiet \/ QuietDestination) =>
       /\ Destination.present
       /\ Destination.ver = cur.data.ver
       /\ Destination.whole = cur.data.whole
       /\ cur.dest.present => cur.dest = StampOf(Destination)

\* A path without a file holds no version.
WholeIsPresent == \A s \in Side, p \in Path : file[s][p].whole => file[s][p].present

\* Side s of p is the file the archive recorded, and a version users still want.
Recorded(s, p) ==
  /\ archive[p].mapped
  /\ file[s][p].present
  /\ StampOf(file[s][p]) = archive[p][s]
Wanted(s, p) == Recorded(s, p) /\ file[s][p].whole /\ file[s][p].ver \in live

\* Such a version is recorded on both sides, and no run has plans for it.
WantedIsOnBothSides ==
  QuietDestination /\ (\E o \in Options : o.delete) =>
    \A p \in Path : \A s \in Side : Wanted(s, p) =>
      /\ Recorded(Other(s), p)
      /\ Same(file[s][p], file[Other(s)][p])
      /\ Running => plan[p] \in {"None", "Conflict"}

\* A listed file that is now the one the archive recorded was so when listed.
ListedAsRecorded ==
  phase = "scanned" => \A p \in Path : Recorded("a", p) => snapA[p] = archive[p].a

\* In an undisturbed run, what is left to do for a path is what is missing
\* for the next plan to leave it alone.
Idle(p, entry) ==
  DecideFile(opts, StampOf(file["a"][p]), StampOf(file["b"][p]), entry) \in {"None", "Conflict"}

QuietRunSettles ==
  quiet =>
    /\ phase = "scanned" => snapA = Snapshot("a")
    /\ Running => \A p \in Path :
         /\ plan[p] \in {"None", "Conflict"} => Idle(p, archive[p])
         /\ plan[p] = "Forget" => Idle(p, NoEntry)
         /\ plan[p] = "DeleteA" => ~file["b"][p].present
         /\ plan[p] = "DeleteB" => ~file["a"][p].present
    /\ phase = "done" => \A p \in Path : Idle(p, archive[p])

\* A started run ends, with users editing the files it copies all along.
RunEnds == phase = "scanned" ~> phase \in {"idle", "done"}
=============================================================================

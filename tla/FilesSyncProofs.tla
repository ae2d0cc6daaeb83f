--------------------------- MODULE FilesSyncProofs --------------------------
(***************************************************************************)
(* Theorems about FilesSync for every number of paths, every set of        *)
(* options and every bound on edits and interruptions.  First its types    *)
(* and the two action properties that protect data, from the inductive     *)
(* invariant TypeOK /\ PlanRespectsMode /\ SkipPlanIsFresh.  Then, from    *)
(* ArchiveInv, what the archive vouches for, what an undisturbed run       *)
(* leaves to do, and why the default policy loses no version.              *)
(***************************************************************************)
EXTENDS FilesSync, PairTableProofs

\* ---------------------------------------------------------------------
\* Types of the helpers.

LEMMA NoFileType == NoFile \in File /\ StampOf(NoFile) \in Stamp
  BY FilesAssumption DEF NoFile, File, Version, StampOf, Stamp

LEMMA StampType ==
  ASSUME NEW f \in File
  PROVE  StampOf(f) \in Stamp /\ StampOf(f).present = f.present
  BY DEF File, StampOf, Stamp

LEMMA NoCopyType == NoCopy \in Copy
  BY NoFileType, FilesAssumption DEF NoCopy, Copy, Path, Side

\* The planner never plans a write of a protected side.
LEMMA PlanFilesRespects ==
  ASSUME NEW o \in SyncOptions,
         NEW stampsA \in [Path -> Stamp], NEW stampsB \in [Path -> Stamp],
         NEW entries \in [Path -> Entry]
  PROVE  /\ PlanFiles(o, stampsA, stampsB, entries) \in [Path -> Disposition]
         /\ \A p \in Path : Respects(o, PlanFiles(o, stampsA, stampsB, entries)[p])
<1>1. ASSUME NEW p \in Path
      PROVE  Respects(o, DecideFile(o, stampsA[p], stampsB[p], entries[p]))
  <2>1. ASSUME NEW s \in Stamp, NEW e \in Entry, NEW archived \in Stamp
        PROVE  View(s, e, archived) \in SideView /\ e.mapped \in BOOLEAN
    BY DEF View, SideView, Stamp, Entry
  <2>2. /\ entries[p] \in Entry /\ stampsA[p] \in Stamp /\ stampsB[p] \in Stamp
        /\ entries[p].a \in Stamp /\ entries[p].b \in Stamp
    BY DEF Entry
  <2>3. QED
    BY <2>1, <2>2, DecidePairRespects DEF DecideFile
<1>2. QED
  BY <1>1 DEF PlanFiles, Respects

\* ---------------------------------------------------------------------
\* Type correctness.

LEMMA InitType == Init => TypeOK
<1> SUFFICES ASSUME Init PROVE TypeOK
  OBVIOUS
<1> USE FilesAssumption, NoFileType, NoCopyType
<1>1. file \in [Side -> [Path -> File]]
  <2>1. PICK fa \in [Path -> BOOLEAN], fb \in [Path -> {"none", "own", "copy"}] :
          file = [s \in Side |-> [p \in Path |->
            CASE s = "a" /\ fa[p]          -> InitialFile(p)
              [] s = "b" /\ fb[p] = "own"  -> InitialFile(NumPaths + p)
              [] s = "b" /\ fb[p] = "copy" -> InitialFile(p)
              [] OTHER                     -> NoFile]]
    BY DEF Init
  <2>2. \A p \in Path : InitialFile(p) \in File /\ InitialFile(NumPaths + p) \in File
    BY DEF InitialFile, File, Version, Path
  <2>3. QED
    BY <2>1, <2>2
<1>2. live \subseteq Version
  <2>1. \A s \in Side, p \in Path : file[s][p].ver \in Version
    BY <1>1 DEF File
  <2>2. QED
    BY <2>1 DEF Init
<1>3. QED
  BY <1>1, <1>2 DEF Init, TypeOK, NoEntry, Entry, NoSnapshot, NothingPlanned,
     Disposition, Phase, Side

LEMMA PutType ==
  ASSUME TypeOK, NEW s \in Side, NEW p \in Path, NEW f \in File, Put(s, p, f)
  PROVE  file' \in [Side -> [Path -> File]] /\ clock' \in [Side -> Nat]
<1>1. clock[s] + 1 \in Nat
  BY DEF TypeOK
<1>2. [f EXCEPT !.mtime = clock[s] + 1] \in File
  BY <1>1 DEF File
<1>3. QED
  BY <1>1, <1>2 DEF Put, TypeOK

LEMMA EndRunType ==
  ASSUME TypeOK, NEW how \in Phase, EndRun(how),
         UNCHANGED <<file, clock, archive, edits, live>>,
         crashes' \in 0..MaxCrashes, quiet' \in BOOLEAN
  PROVE  TypeOK'
  BY NoCopyType, NoFileType DEF TypeOK, EndRun, NothingPlanned, NoSnapshot, Disposition

LEMMA FailType == TypeOK /\ Fail => TypeOK'
  BY EndRunType DEF Fail, Phase, ghosts, TypeOK

LEMMA CopyStepsType ==
  ASSUME TypeOK,
         \/ \E p \in Path : StartCopy(p)
         \/ StatSource \/ ReadSource \/ VerifyBeforeWrite \/ StatDestination
  PROVE  TypeOK'
<1> USE DEF Advance, ghosts
<1>a. /\ cur.path \in Path /\ cur.to \in Side /\ Other(cur.to) \in Side
      /\ cur.data \in File /\ cur.source \in Stamp /\ cur.dest \in Stamp
  BY DEF TypeOK, Copy, Other, Side
<1>b. Source \in File /\ Destination \in File
  BY <1>a DEF TypeOK, Source, Destination
<1>c. Fail => TypeOK'
  BY FailType
<1>1. ASSUME NEW p \in Path, StartCopy(p) PROVE TypeOK'
  <2>1. cur' \in Copy
    BY <1>1, NoCopyType DEF StartCopy, Copy, Side
  <2>2. QED
    BY <1>1, <2>1 DEF StartCopy, TypeOK, Phase, Transferring
<1>2. CASE StatSource
  <2>1. [cur EXCEPT !.source = StampOf(Source)] \in Copy
    BY <1>b, StampType DEF TypeOK, Copy
  <2>2. QED
    BY <1>2, <1>c, <2>1 DEF StatSource, TypeOK, Phase, Transferring
<1>3. CASE ReadSource
  <2>1. [cur EXCEPT !.data = Source] \in Copy
    BY <1>b DEF TypeOK, Copy
  <2>2. QED
    BY <1>3, <1>c, <2>1 DEF ReadSource, TypeOK, Phase, Transferring
<1>4. CASE VerifyBeforeWrite
  BY <1>4, <1>c DEF VerifyBeforeWrite, TypeOK, Phase, Transferring
<1>5. CASE StatDestination
  <2>1. [cur EXCEPT !.dest = StampOf(Destination)] \in Copy
    BY <1>b, StampType DEF TypeOK, Copy
  <2>2. QED
    BY <1>5, <1>c, <2>1 DEF StatDestination, TypeOK, Phase, Transferring
<1>6. QED
  BY <1>1, <1>2, <1>3, <1>4, <1>5

LEMMA WriteStepsType ==
  ASSUME TypeOK, Truncate \/ Fill \/ VerifyAndRecord
  PROVE  TypeOK'
<1> USE DEF Advance, ghosts
<1>a. /\ cur.path \in Path /\ cur.to \in Side
      /\ cur.data \in File /\ cur.source \in Stamp /\ cur.dest \in Stamp
  BY DEF TypeOK, Copy
<1>1. CASE Truncate
  <2>1. [cur.data EXCEPT !.whole = FALSE] \in File
    BY <1>a DEF File
  <2>2. file' \in [Side -> [Path -> File]] /\ clock' \in [Side -> Nat]
    BY <1>1, <1>a, <2>1, PutType DEF Truncate
  <2>3. QED
    BY <1>1, <2>2 DEF Truncate, TypeOK, Phase, Transferring
<1>2. CASE Fill
  <2>1. file' \in [Side -> [Path -> File]] /\ clock' \in [Side -> Nat]
    BY <1>2, <1>a, PutType DEF Fill
  <2>2. QED
    BY <1>2, <2>1 DEF Fill, TypeOK, Phase, Transferring
<1>3. CASE VerifyAndRecord
  <2>1. Copied(cur.source, cur.dest) \in Entry
    BY <1>a DEF Copied, Entry
  <2>2. QED
    BY <1>3, <2>1, FailType, NoCopyType
       DEF VerifyAndRecord, TypeOK, Phase, Disposition
<1>4. QED
  BY <1>1, <1>2, <1>3

LEMMA TypeStep == TypeOK /\ [Next]_vars => TypeOK'
<1> SUFFICES ASSUME TypeOK, [Next]_vars PROVE TypeOK'
  OBVIOUS
<1> USE FilesAssumption DEF ghosts, syncVars
<1>1. ASSUME NEW o \in Options, Scan(o) PROVE TypeOK'
  <2>1. Snapshot("a") \in [Path -> Stamp]
    BY StampType DEF Snapshot, TypeOK, Side
  <2>2. QED
    BY <1>1, <2>1 DEF Scan, TypeOK, Phase
<1>2. CASE MakePlan
  <2>1. Snapshot("b") \in [Path -> Stamp]
    BY StampType DEF Snapshot, TypeOK, Side
  <2>2. plan' \in [Path -> Disposition]
    BY <1>2, <2>1, PlanFilesRespects DEF MakePlan, TypeOK
  <2>3. QED
    BY <1>2, <2>2, NoFileType DEF MakePlan, TypeOK, Phase, NoSnapshot
<1>3. ASSUME NEW p \in Path, RemoveFile(p) PROVE TypeOK'
  BY <1>3, NoFileType DEF RemoveFile, TypeOK, Disposition, Side
<1>4. ASSUME NEW p \in Path, Forget(p) PROVE TypeOK'
  <2>1. NoEntry \in Entry
    BY NoFileType DEF NoEntry, Entry
  <2>2. QED
    BY <1>4, <2>1 DEF Forget, TypeOK, Disposition
<1>5. CASE Finish
  BY <1>5, EndRunType DEF Finish, TypeOK, Phase
<1>6. CASE \/ \E p \in Path : StartCopy(p)
           \/ StatSource \/ ReadSource \/ VerifyBeforeWrite \/ StatDestination
  BY <1>6, CopyStepsType
<1>7. CASE Truncate \/ Fill \/ VerifyAndRecord
  BY <1>7, WriteStepsType
<1>8. ASSUME NEW s \in Side, NEW p \in Path, UserWrite(s, p) PROVE TypeOK'
  <2> DEFINE new == 2 * NumPaths + edits + 1
  <2>1. edits \in Nat /\ edits < MaxEdits
    BY <1>8 DEF UserWrite, MayEdit, TypeOK
  <2>2. new \in Version
    BY <2>1 DEF Version
  <2>3. [present |-> TRUE, ver |-> new, whole |-> TRUE, mtime |-> 0] \in File
    BY <2>2 DEF File
  <2>4. file' \in [Side -> [Path -> File]] /\ clock' \in [Side -> Nat]
    BY <1>8, <2>3, PutType DEF UserWrite
  <2>5. live' \subseteq Version
    BY <1>8, <2>2 DEF UserWrite, TypeOK
  <2>6. edits' \in 0..MaxEdits
    BY <1>8, <2>1 DEF UserWrite
  <2>7. QED
    BY <1>8, <2>4, <2>5, <2>6 DEF UserWrite, TypeOK
<1>9. ASSUME NEW s \in Side, NEW p \in Path, UserRemove(s, p) PROVE TypeOK'
  <2>1. edits' \in 0..MaxEdits
    BY <1>9 DEF UserRemove, MayEdit, TypeOK
  <2>2. live' \subseteq Version
    BY <1>9 DEF UserRemove, TypeOK
  <2>3. QED
    BY <1>9, <2>1, <2>2, NoFileType DEF UserRemove, TypeOK
<1>10. CASE Crash
  <2>1. crashes' \in 0..MaxCrashes
    BY <1>10 DEF Crash, TypeOK
  <2>2. QED
    BY <1>10, <2>1, EndRunType DEF Crash, Phase
<1>11. CASE UNCHANGED vars
  BY <1>11 DEF vars, TypeOK
<1>12. QED
  BY <1>1, <1>2, <1>3, <1>4, <1>5, <1>6, <1>7, <1>8, <1>9, <1>10, <1>11
     DEF Next, SyncStep, UserStep

\* The archive, the trees and the sync process keep their types.
THEOREM TypeCorrect == Spec => []TypeOK
<1>1. Init => TypeOK
  BY InitType
<1>2. TypeOK /\ [Next]_vars => TypeOK'
  BY TypeStep
<1>3. QED
  BY <1>1, <1>2, PTL DEF Spec

\* ---------------------------------------------------------------------
\* What a step of a run may write.

IInv == TypeOK /\ PlanRespectsMode /\ SkipPlanIsFresh

\* The copy steps before the record: the run ends, or only `cur` and the
\* phase move, the copied path and side staying the same.
CopyMoves ==
  /\ phase \in Transferring
  /\ phase' \in Transferring
  /\ cur'.path = cur.path /\ cur'.to = cur.to
  /\ UNCHANGED <<opts, plan, archive, snapA>>

LEMMA CopyStepMoves ==
  ASSUME TypeOK,
         \/ StatSource \/ ReadSource \/ VerifyBeforeWrite \/ Truncate \/ Fill
         \/ StatDestination
  PROVE  CopyMoves \/ (EndRun("idle") /\ UNCHANGED <<file, archive, edits>>)
<1> USE DEF CopyMoves, Transferring, Advance, Fail, TypeOK, Copy
<1>1. CASE StatSource
  BY <1>1 DEF StatSource
<1>2. CASE ReadSource
  BY <1>2 DEF ReadSource
<1>3. CASE VerifyBeforeWrite
  BY <1>3 DEF VerifyBeforeWrite
<1>4. CASE Truncate
  BY <1>4 DEF Truncate
<1>5. CASE Fill
  BY <1>5 DEF Fill
<1>6. CASE StatDestination
  BY <1>6 DEF StatDestination
<1>7. QED
  BY <1>1, <1>2, <1>3, <1>4, <1>5, <1>6

\* A run that ends leaves nothing to respect.
LEMMA EndRunSafe ==
  ASSUME NEW how \in {"idle", "done"}, EndRun(how)
  PROVE  PlanRespectsMode' /\ SkipPlanIsFresh'
  BY DEF EndRun, PlanRespectsMode, SkipPlanIsFresh, Running, Transferring

LEMMA ModeIsProtected ==
  ASSUME NEW o \in SyncOptions, NEW d, Respects(o, d)
  PROVE  (d \in WritesA => o.mode # "Push") /\ (d \in WritesB => o.mode # "Pull")
  BY DEF Respects, CanWriteLocal, CanWriteRemote

LEMMA ModeStep ==
  ASSUME TypeOK, PlanRespectsMode, [Next]_vars
  PROVE  PlanRespectsMode'
<1> USE FilesAssumption DEF ghosts, syncVars
<1>1. ASSUME NEW o \in Options, Scan(o) PROVE PlanRespectsMode'
  BY <1>1 DEF Scan, PlanRespectsMode, Running, Transferring
<1>2. CASE MakePlan
  <2>1. opts \in SyncOptions /\ Snapshot("b") \in [Path -> Stamp]
    BY StampType DEF Snapshot, TypeOK, Side
  <2>2. \A p \in Path : Respects(opts, plan'[p])
    BY <1>2, <2>1, PlanFilesRespects DEF MakePlan, TypeOK
  <2>3. phase' = "run" /\ opts' = opts
    BY <1>2 DEF MakePlan
  <2>4. QED
    BY <2>1, <2>2, <2>3, ModeIsProtected DEF PlanRespectsMode, Transferring
<1>3. ASSUME NEW p \in Path, StartCopy(p) PROVE PlanRespectsMode'
  <2>1. /\ phase = "run" /\ phase' = "stat" /\ opts' = opts /\ plan' = plan
        /\ cur'.path = p
        /\ cur'.to = IF plan[p] = "CopyToB" THEN "b" ELSE "a"
        /\ plan[p] \in {"CopyToA", "CopyToB"}
    BY <1>3, NoCopyType DEF StartCopy, IsNext, Advance, NoCopy
  <2>2. QED
    BY <2>1 DEF PlanRespectsMode, Running
<1>4. CASE \/ StatSource \/ ReadSource \/ VerifyBeforeWrite \/ Truncate \/ Fill
           \/ StatDestination
  <2>1. CASE CopyMoves
    BY <2>1 DEF CopyMoves, PlanRespectsMode, Running
  <2>2. CASE EndRun("idle")
    BY <2>2, EndRunSafe
  <2>3. QED
    BY <1>4, <2>1, <2>2, CopyStepMoves
<1>5. CASE VerifyAndRecord
  <2>1. CASE EndRun("idle")
    BY <2>1, EndRunSafe
  <2>2. CASE /\ phase = "written" /\ phase' = "run" /\ opts' = opts
             /\ plan' = [plan EXCEPT ![cur.path] = "None"]
    BY <2>2 DEF PlanRespectsMode, Running, Transferring, WritesA, WritesB, TypeOK
  <2>3. QED
    BY <1>5, <2>1, <2>2 DEF VerifyAndRecord, Fail
<1>6. ASSUME NEW p \in Path, RemoveFile(p) \/ Forget(p) PROVE PlanRespectsMode'
  <2>1. /\ phase = "run" /\ phase' = "run" /\ opts' = opts
        /\ \E d \in {"None", "Forget"} : plan' = [plan EXCEPT ![p] = d]
    BY <1>6 DEF RemoveFile, Forget, IsNext
  <2>2. QED
    BY <2>1 DEF PlanRespectsMode, Running, Transferring, WritesA, WritesB, TypeOK
<1>7. CASE Finish \/ Crash
  BY <1>7, EndRunSafe DEF Finish, Crash
<1>8. CASE UserStep \/ UNCHANGED vars
  <2>1. UNCHANGED syncVars
    BY <1>8 DEF UserStep, UserWrite, UserRemove, vars
  <2>2. QED
    BY <2>1 DEF PlanRespectsMode, Running
<1>9. QED
  BY <1>1, <1>2, <1>3, <1>4, <1>5, <1>6, <1>7, <1>8 DEF Next, SyncStep

\* ---------------------------------------------------------------------
\* Under the skip policy what a plan overwrites stays what the archive holds.

\* Only the file at s, q may differ after the step.
ChangesOnly(s, q) ==
  \A r \in Side, p \in Path : r # s \/ p # q => file'[r][p] = file[r][p]

LEMMA PutChangesOnly ==
  ASSUME TypeOK, NEW s \in Side, NEW q \in Path, NEW f,
         file' = [file EXCEPT ![s][q] = f]
  PROVE  ChangesOnly(s, q)
  BY DEF ChangesOnly, TypeOK

\* What holds of a path whose file, entry and plan a step leaves alone.
LEMMA PathUnchanged ==
  ASSUME SkipPlanIsFresh, QuietDestination, opts.conflict = "Skip", Running,
         NEW s \in Side, NEW p \in Path,
         file'[s][p] = file[s][p], archive'[p] = archive[p], plan'[p] = plan[p],
         ~Written(p)
  PROVE  plan'[p] \in WritesSide(s) => UnchangedSinceSync(s, p)'
  BY DEF SkipPlanIsFresh, UnchangedSinceSync

\* A plan made from fresh listings spares what changed since the last sync.
LEMMA FreshPlan ==
  ASSUME IInv, MakePlan, QuietDestination, opts.conflict = "Skip",
         NEW s \in Side, NEW p \in Path, plan'[p] \in WritesSide(s), file[s][p].present
  PROVE  archive[p].mapped /\ StampOf(file[s][p]) = archive[p][s]
<1> DEFINE stampB == Snapshot("b")[p]
           e == archive[p]
           va == View(snapA[p], e, e.a)
           vb == View(stampB, e, e.b)
<1>1. /\ opts \in SyncOptions /\ e \in Entry /\ snapA[p] \in Stamp
      /\ file["a"][p] \in File /\ file["b"][p] \in File
  BY FilesAssumption DEF IInv, TypeOK, Side
<1>2. stampB = StampOf(file["b"][p]) /\ stampB \in Stamp
  BY <1>1, StampType DEF Snapshot
<1>3. va \in SideView /\ vb \in SideView /\ e.mapped \in BOOLEAN
  BY <1>1, <1>2 DEF View, SideView, Stamp, Entry
<1>4. plan'[p] = DecidePair(opts, va, vb, e.mapped)
  BY DEF MakePlan, PlanFiles, DecideFile
<1>5. Spares(plan'[p], va, vb, e.mapped) /\ Respects(opts, plan'[p])
  BY <1>1, <1>3, <1>4, SkipSparesChanges, DecidePairRespects
<1>6. CASE s = "a"
  <2>1. opts.mode # "Push"
    BY <1>1, <1>5, <1>6, ModeIsProtected DEF WritesSide
  <2>2. snapA[p] = StampOf(file["a"][p])
    BY <2>1 DEF IInv, SkipPlanIsFresh, MakePlan, Snapshot
  <2>3. va.present
    BY <1>1, <1>6, <2>2, StampType DEF View
  <2>4. e.mapped /\ ~va.changed
    BY <1>5, <1>6, <2>3 DEF Spares, WritesSide
  <2>5. snapA[p] = e.a
    BY <2>4 DEF View
  <2>6. QED
    BY <1>1, <1>6, <2>2, <2>4, <2>5 DEF Entry
<1>7. CASE s = "b"
  <2>1. vb.present
    BY <1>1, <1>2, <1>7, StampType DEF View
  <2>2. e.mapped /\ ~vb.changed
    BY <1>5, <1>7, <2>1 DEF Spares, WritesSide
  <2>3. stampB = e.b
    BY <2>2 DEF View
  <2>4. QED
    BY <1>1, <1>2, <1>7, <2>2, <2>3 DEF Entry
<1>8. QED
  BY <1>6, <1>7 DEF Side

\* The same in the next state, for a step inside the run.
LEMMA RunStepFresh ==
  ASSUME IInv, QuietDestination, opts.conflict = "Skip", Running, Running',
         UNCHANGED opts,
         \A s \in Side, p \in Path :
           plan'[p] \in WritesSide(s) /\ ~Written(p)' =>
             /\ file'[s][p] = file[s][p] /\ archive'[p] = archive[p]
             /\ plan'[p] = plan[p] /\ ~Written(p)
  PROVE  SkipPlanIsFresh'
<1>1. ASSUME NEW p \in Path, NEW s \in Side,
             plan'[p] \in WritesSide(s), ~Written(p)'
      PROVE  UnchangedSinceSync(s, p)'
  BY <1>1, PathUnchanged DEF IInv
<1>2. phase' # "scanned"
  BY DEF Running, Transferring
<1>3. QED
  BY <1>1, <1>2 DEF SkipPlanIsFresh, WritesSide

LEMMA SkipStep ==
  ASSUME IInv, [Next]_vars
  PROVE  SkipPlanIsFresh'
<1> SUFFICES ASSUME QuietDestination, opts'.conflict = "Skip" PROVE SkipPlanIsFresh'
  BY DEF SkipPlanIsFresh
<1> USE FilesAssumption DEF ghosts, syncVars
<1>t. TypeOK
  BY DEF IInv
<1>1. ASSUME NEW o \in Options, Scan(o) PROVE SkipPlanIsFresh'
  <2>1. snapA' = Snapshot("a") /\ Snapshot("a")' = Snapshot("a") /\ phase' = "scanned"
    BY <1>1 DEF Scan, Snapshot
  <2>2. QED
    BY <2>1 DEF SkipPlanIsFresh, Running, Transferring
<1>2. CASE MakePlan
  <2>1. /\ opts' = opts /\ phase' = "run" /\ file' = file /\ archive' = archive
    BY <1>2 DEF MakePlan
  <2>2. ASSUME NEW p \in Path, NEW s \in Side, plan'[p] \in WritesSide(s)
        PROVE  UnchangedSinceSync(s, p)'
    BY <1>2, <2>1, <2>2, FreshPlan DEF UnchangedSinceSync
  <2>3. QED
    BY <2>1, <2>2 DEF SkipPlanIsFresh, WritesSide
<1>3. ASSUME NEW q \in Path, StartCopy(q) PROVE SkipPlanIsFresh'
  <2>1. /\ phase = "run" /\ phase' = "stat"
        /\ UNCHANGED <<opts, plan, file, archive>>
    BY <1>3 DEF StartCopy, IsNext, Advance
  <2>2. Running /\ Running' /\ \A p \in Path : ~Written(p)
    BY <2>1 DEF Running, Transferring, Written
  <2>3. QED
    BY <2>1, <2>2, RunStepFresh
<1>4. CASE CopyMoves /\ file' = file /\ (phase \in {"fill", "written"} => phase' = "written")
  <2>1. Running /\ Running'
    BY <1>4 DEF CopyMoves, Running
  <2>2. \A p \in Path : ~Written(p)' => ~Written(p)
    BY <1>4 DEF CopyMoves, Written
  <2>3. QED
    BY <1>4, <2>1, <2>2, RunStepFresh DEF CopyMoves
<1>5. CASE Truncate \/ Fill
  <2>1. CopyMoves /\ phase' \in {"fill", "written"} /\ cur'.path = cur.path
    BY <1>5, <1>t, CopyStepMoves DEF Truncate, Fill, Advance, EndRun, CopyMoves
  <2>2. Running /\ Running' /\ cur.path \in Path /\ cur.to \in Side
    BY <1>t, <2>1 DEF CopyMoves, Running, TypeOK, Copy
  <2>3. ChangesOnly(cur.to, cur.path)
    <3>1. \E f : file' = [file EXCEPT ![cur.to][cur.path] = f]
      BY <1>5 DEF Truncate, Fill, Put
    <3>2. QED
      BY <1>t, <2>2, <3>1, PutChangesOnly
  <2>4. \A p \in Path : ~Written(p)' => p # cur.path
    BY <2>1 DEF Written
  <2>5. QED
    BY <2>1, <2>2, <2>3, <2>4, RunStepFresh DEF CopyMoves, ChangesOnly, Written
<1>6. CASE StatSource \/ ReadSource \/ VerifyBeforeWrite \/ StatDestination
  <2>1. CASE EndRun("idle")
    BY <2>1, EndRunSafe
  <2>2. CASE CopyMoves
    <3>1. file' = file /\ (phase \in {"fill", "written"} => phase' = "written")
      BY <1>6, <2>2 DEF StatSource, ReadSource, VerifyBeforeWrite, StatDestination,
         Advance, Fail, EndRun, CopyMoves, Transferring
    <3>2. QED
      BY <1>4, <2>2, <3>1
  <2>3. QED
    BY <1>6, <1>t, <2>1, <2>2, CopyStepMoves
<1>7. CASE VerifyAndRecord
  <2>1. CASE EndRun("idle")
    BY <2>1, EndRunSafe
  <2>2. CASE /\ phase = "written" /\ phase' = "run" /\ UNCHANGED <<opts, file>>
             /\ plan' = [plan EXCEPT ![cur.path] = "None"]
             /\ archive' = [archive EXCEPT ![cur.path] = Copied(cur.source, cur.dest)]
    <3>1. Running /\ Running'
      BY <2>2 DEF Running, Transferring
    <3>2. \A p \in Path : p # cur.path =>
             plan'[p] = plan[p] /\ archive'[p] = archive[p] /\ ~Written(p)
      BY <1>t, <2>2 DEF TypeOK, Written
    <3>3. \A s \in Side, p \in Path : plan'[p] \in WritesSide(s) => p # cur.path
      BY <1>t, <2>2 DEF TypeOK, WritesSide, WritesA, WritesB
    <3>4. QED
      BY <2>2, <3>1, <3>2, <3>3, RunStepFresh
  <2>3. QED
    BY <1>7, <2>1, <2>2 DEF VerifyAndRecord, Fail
<1>8. ASSUME NEW q \in Path, RemoveFile(q) \/ Forget(q) PROVE SkipPlanIsFresh'
  <2>1. /\ phase = "run" /\ phase' = "run" /\ opts' = opts
        /\ \E d \in {"None", "Forget"} : plan' = [plan EXCEPT ![q] = d]
    BY <1>8 DEF RemoveFile, Forget, IsNext
  <2>2. Running /\ Running' /\ \A p \in Path : ~Written(p)
    BY <2>1 DEF Running, Written
  <2>3. \A p \in Path : p # q => /\ plan'[p] = plan[p] /\ archive'[p] = archive[p]
                                  /\ \A s \in Side : file'[s][p] = file[s][p]
    BY <1>8, <1>t, <2>1 DEF RemoveFile, Forget, TypeOK
  <2>4. \A s \in Side, p \in Path : plan'[p] \in WritesSide(s) => p # q
    BY <1>t, <2>1 DEF TypeOK, WritesSide, WritesA, WritesB
  <2>5. QED
    BY <2>1, <2>2, <2>3, <2>4, RunStepFresh
<1>9. CASE Finish \/ Crash
  BY <1>9, EndRunSafe DEF Finish, Crash
<1>10. ASSUME NEW s \in Side, NEW q \in Path, UserWrite(s, q) \/ UserRemove(s, q)
       PROVE  SkipPlanIsFresh'
  <2>1. UNCHANGED <<syncVars, archive>> /\ ~Targeted(s, q) /\ ChangesOnly(s, q)
    BY <1>10, <1>t, PutChangesOnly DEF UserWrite, UserRemove, MayEdit, Put
  <2>2. ASSUME phase = "scanned", opts.mode # "Push"
        PROVE  snapA' = Snapshot("a")'
    <3>1. opts \in SyncOptions
      BY <1>t DEF TypeOK
    <3>2. s # "a"
      BY <2>1, <2>2, <3>1 DEF Targeted, CanWriteLocal, SyncOptions, Mode
    <3>3. Snapshot("a")' = Snapshot("a")
      BY <2>1, <3>2 DEF ChangesOnly, Snapshot, Side
    <3>4. QED
      BY <2>1, <2>2, <3>3 DEF IInv, SkipPlanIsFresh
  <2>3. ASSUME Running PROVE SkipPlanIsFresh'
    <3>1. plan[q] \notin WritesSide(s)
      BY <2>1, <2>3 DEF Targeted, Running
    <3>2. Running' /\ \A p \in Path : Written(p)' = Written(p)
      BY <2>1, <2>3 DEF Running, Written
    <3>3. \A r \in Side, p \in Path : plan'[p] \in WritesSide(r) => file'[r][p] = file[r][p]
      BY <2>1, <3>1 DEF ChangesOnly
    <3>4. QED
      BY <2>1, <2>3, <3>2, <3>3, RunStepFresh
  <2>4. QED
    BY <2>1, <2>2, <2>3 DEF SkipPlanIsFresh, Running
<1>11. CASE UNCHANGED vars
  BY <1>11 DEF vars, IInv, SkipPlanIsFresh, Running, Snapshot, Written, UnchangedSinceSync
<1>12. QED
  BY <1>1, <1>2, <1>3, <1>5, <1>6, <1>7, <1>8, <1>9, <1>10, <1>11
     DEF Next, SyncStep, UserStep

\* A running plan respects its mode, and under the skip policy what it is still
\* to overwrite is as the archive recorded it (plan_files and execute_files).
THEOREM InductiveInvariant == Spec => []IInv
<1>1. Init => IInv
  BY InitType DEF Init, IInv, PlanRespectsMode, SkipPlanIsFresh, Running, Transferring
<1>2. IInv /\ [Next]_vars => IInv'
  <2>1. TypeOK /\ [Next]_vars => TypeOK'
    BY TypeStep
  <2>2. QED
    BY <2>1, ModeStep, SkipStep DEF IInv
<1>3. QED
  BY <1>1, <1>2, PTL DEF Spec

\* ---------------------------------------------------------------------

\* The only steps of the sync process that change a file, and which file.
LEMMA SyncWrites ==
  ASSUME IInv, [Next]_vars, edits' = edits, NEW s \in Side, NEW p \in Path,
         file'[s][p] # file[s][p]
  PROVE  /\ Running /\ UNCHANGED opts
         /\ plan[p] \in WritesSide(s)
         /\ Written(p) => phase = "fill"
<1> USE DEF ghosts, syncVars
<1>t. TypeOK /\ PlanRespectsMode
  BY DEF IInv
<1>1. CASE Truncate \/ Fill
  <2>1. /\ phase \in {"write", "fill"} /\ UNCHANGED opts
        /\ cur.path \in Path /\ cur.to \in Side
        /\ \E f : file' = [file EXCEPT ![cur.to][cur.path] = f]
    BY <1>1, <1>t DEF Truncate, Fill, Advance, Put, TypeOK, Copy
  <2>2. s = cur.to /\ p = cur.path
    BY <1>t, <2>1, PutChangesOnly DEF ChangesOnly
  <2>3. plan[p] \in WritesSide(s) /\ Running
    BY <1>t, <2>1, <2>2
       DEF PlanRespectsMode, Running, Transferring, WritesSide, WritesA, WritesB, Side
  <2>4. QED
    BY <2>1, <2>3 DEF Written
<1>2. CASE \E q \in Path : RemoveFile(q)
  <2>1. PICK q \in Path : RemoveFile(q)
    BY <1>2
  <2>2. /\ phase = "run" /\ UNCHANGED opts /\ plan[q] \in {"DeleteA", "DeleteB"}
        /\ file' = [file EXCEPT ![IF plan[q] = "DeleteA" THEN "a" ELSE "b"][q] = NoFile]
    BY <2>1 DEF RemoveFile, IsNext
  <2>3. p = q /\ s = IF plan[q] = "DeleteA" THEN "a" ELSE "b"
    BY <1>t, <2>2, PutChangesOnly DEF ChangesOnly, Side
  <2>4. QED
    BY <2>2, <2>3 DEF Running, Written, WritesSide, WritesA, WritesB
<1>3. CASE \/ \E o \in Options : Scan(o)
           \/ MakePlan \/ \E q \in Path : StartCopy(q) \/ Forget(q)
           \/ StatSource \/ ReadSource \/ VerifyBeforeWrite \/ StatDestination
           \/ VerifyAndRecord \/ Finish \/ Crash \/ UNCHANGED vars
  BY <1>3 DEF Scan, MakePlan, StartCopy, Forget, StatSource, ReadSource,
     VerifyBeforeWrite, StatDestination, VerifyAndRecord, Finish, Crash, Fail, vars
<1>4. CASE UserStep
  BY <1>4, <1>t DEF UserStep, UserWrite, UserRemove, TypeOK
<1>5. QED
  BY <1>1, <1>2, <1>3, <1>4 DEF Next, SyncStep

\* A one-way run never changes its source.
THEOREM SourceIsUntouched == Spec => SourceUntouched
<1>1. ASSUME IInv, [Next]_vars
      PROVE  [\A p \in Path :
                /\ SyncTouches("a", p) => opts.mode # "Push"
                /\ SyncTouches("b", p) => opts.mode # "Pull"]_vars
  <2>1. ASSUME NEW p \in Path, NEW s \in Side, SyncTouches(s, p)
        PROVE  Running /\ plan[p] \in WritesSide(s)
    BY <1>1, <2>1, SyncWrites DEF SyncTouches
  <2>2. QED
    BY <1>1, <2>1 DEF IInv, PlanRespectsMode, Side, WritesSide
<1>2. QED
  BY <1>1, InductiveInvariant, PTL DEF Spec, SourceUntouched

\* With no user editing what a plan will overwrite, the skip policy never
\* overwrites or deletes a file that changed since the last sync.
THEOREM SkipNeverOverwrites ==
  ASSUME QuietDestination
  PROVE  Spec => NeverSilentlyOverwritten
<1>1. ASSUME IInv, [Next]_vars
      PROVE  [\A p \in Path : \A s \in Side :
                /\ SyncTouches(s, p)
                /\ phase # "fill"
                /\ file[s][p].present
                /\ opts.conflict = "Skip"
                => archive[p].mapped /\ StampOf(file[s][p]) = archive[p][s]]_vars
  <2>1. ASSUME NEW p \in Path, NEW s \in Side, SyncTouches(s, p), phase # "fill"
        PROVE  Running /\ plan[p] \in WritesSide(s) /\ ~Written(p)
    BY <1>1, <2>1, SyncWrites DEF SyncTouches
  <2>2. QED
    BY <1>1, <2>1 DEF IInv, SkipPlanIsFresh, UnchangedSinceSync
<1>2. QED
  BY <1>1, InductiveInvariant, PTL DEF Spec, NeverSilentlyOverwritten

\* ---------------------------------------------------------------------
\* What the steps do to the files.

\* The fields of the file a write leaves, and all it leaves alone.
LEMMA PutEffect ==
  ASSUME TypeOK, NEW s \in Side, NEW p \in Path, NEW f \in File, Put(s, p, f)
  PROVE  /\ file'[s][p].mtime = clock[s] + 1 /\ file'[s][p].ver = f.ver
         /\ file'[s][p].present = f.present /\ file'[s][p].whole = f.whole
         /\ clock'[s] = clock[s] + 1
         /\ \A r \in Side : r # s => clock'[r] = clock[r]
         /\ ChangesOnly(s, p)
<1>1. file' = [file EXCEPT ![s][p] = [f EXCEPT !.mtime = clock[s] + 1]]
  BY DEF Put
<1>2. ChangesOnly(s, p)
  BY <1>1, PutChangesOnly
<1>3. file'[s][p] = [f EXCEPT !.mtime = clock[s] + 1]
  BY <1>1 DEF TypeOK
<1>4. QED
  BY <1>2, <1>3 DEF Put, TypeOK, File

LEMMA RemoveEffect ==
  ASSUME TypeOK, NEW s \in Side, NEW p \in Path, file' = [file EXCEPT ![s][p] = NoFile]
  PROVE  file'[s][p] = NoFile /\ ChangesOnly(s, p)
  BY PutChangesOnly DEF TypeOK

\* The copy's two files, and the types of what it captured.
LEMMA CopyType ==
  ASSUME TypeOK
  PROVE  /\ cur.path \in Path /\ cur.to \in Side /\ Other(cur.to) \in Side
         /\ cur.data \in File /\ cur.source \in Stamp /\ cur.dest \in Stamp
         /\ Source \in File /\ Destination \in File
         /\ Source = file[Other(cur.to)][cur.path]
         /\ Destination = file[cur.to][cur.path]
<1>1. /\ cur.path \in Path /\ cur.to \in Side
      /\ cur.data \in File /\ cur.source \in Stamp /\ cur.dest \in Stamp
  BY DEF TypeOK, Copy
<1>2. Other(cur.to) \in Side
  BY DEF Other, Side
<1>3. QED
  BY <1>1, <1>2 DEF Source, Destination, TypeOK

LEMMA NoCopyFields ==
  /\ NoCopy.source = StampOf(NoFile) /\ NoCopy.dest = StampOf(NoFile)
  /\ NoCopy.to = "b" /\ NoCopy.path = 1 /\ NoCopy.data = NoFile
  /\ StampOf(NoFile).mtime = 0 /\ ~StampOf(NoFile).present
  /\ NoFile.mtime = 0 /\ NoFile.ver = 0 /\ ~NoFile.present /\ ~NoFile.whole
  BY DEF NoCopy, StampOf, NoFile

LEMMA StampFields ==
  ASSUME NEW f
  PROVE  /\ StampOf(f).present = f.present /\ StampOf(f).whole = f.whole
         /\ StampOf(f).mtime = f.mtime
  BY DEF StampOf

\* The two syncer writes put the data of the copy, whole or not.
LEMMA SyncPut ==
  ASSUME TypeOK, Truncate \/ Fill
  PROVE  /\ \E f \in File : /\ Put(cur.to, cur.path, f)
                            /\ f.present = cur.data.present /\ f.ver = cur.data.ver
                            /\ Truncate => ~f.whole
                            /\ Fill => f.whole = cur.data.whole
         /\ UNCHANGED <<archive, cur, opts, snapA, plan, edits, crashes, live, quiet>>
         /\ Truncate => phase = "write" /\ phase' = "fill"
         /\ Fill => phase = "fill" /\ phase' = "written"
<1>1. CASE Truncate
  <2>1. [cur.data EXCEPT !.whole = FALSE] \in File
    BY CopyType DEF File
  <2>2. ~Fill
    BY <1>1 DEF Truncate, Fill
  <2>3. /\ [cur.data EXCEPT !.whole = FALSE].present = cur.data.present
        /\ [cur.data EXCEPT !.whole = FALSE].ver = cur.data.ver
        /\ ~[cur.data EXCEPT !.whole = FALSE].whole
    BY CopyType DEF File
  <2>4. QED
    BY <1>1, <2>1, <2>2, <2>3 DEF Truncate, Advance, ghosts
<1>2. CASE Fill
  <2>1. ~Truncate
    BY <1>2 DEF Truncate, Fill
  <2>2. QED
    BY <1>2, <2>1, CopyType DEF Fill, Advance, ghosts
<1>3. QED
  BY <1>1, <1>2

\* The version a user writes is new.
LEMMA UserPut ==
  ASSUME TypeOK, NEW s \in Side, NEW p \in Path, UserWrite(s, p)
  PROVE  /\ \E f \in File : /\ Put(s, p, f) /\ f.present /\ f.whole
                            /\ f.ver = 2 * NumPaths + edits + 1
         /\ live' = (live \ Superseded(s, p)) \cup {2 * NumPaths + edits + 1}
         /\ edits' = edits + 1 /\ edits \in Nat /\ ~quiet' /\ MayEdit(s, p)
         /\ UNCHANGED <<archive, syncVars, crashes>>
<1> DEFINE new == 2 * NumPaths + edits + 1
           f == [present |-> TRUE, ver |-> new, whole |-> TRUE, mtime |-> 0]
<1>1. edits \in Nat /\ edits < MaxEdits
  BY FilesAssumption DEF UserWrite, MayEdit, TypeOK
<1>2. f \in File
  BY <1>1, FilesAssumption DEF Version, File
<1>3. Put(s, p, f) /\ f.present /\ f.whole /\ f.ver = new
  BY DEF UserWrite
<1>4. QED
  BY <1>1, <1>2, <1>3 DEF UserWrite

\* ---------------------------------------------------------------------
\* Nothing recorded is later than the clocks.

LEMMA PastStep ==
  ASSUME TypeOK, TypeOK', StampsArePast, [Next]_vars
  PROVE  StampsArePast'
<1> USE DEF ghosts, syncVars
<1>c. /\ \A s \in Side : clock[s] \in Nat
      /\ edits \in Nat /\ edits' \in Nat /\ NumPaths \in Nat
      /\ \A s \in Side, p \in Path : /\ file[s][p].mtime \in Nat /\ file[s][p].ver \in Nat
                                      /\ archive[p][s].mtime \in Nat
  <2>1. \A s \in Side, p \in Path : archive[p][s].mtime \in Nat
    BY DEF TypeOK, Entry, Stamp, Side
  <2>2. QED
    BY <2>1, FilesAssumption DEF TypeOK, File, Version
<1>n. NoCopy.source.mtime <= clock["a"] /\ NoCopy.dest.mtime <= clock["b"] /\ Other("b") = "a"
  BY <1>c, NoCopyFields DEF Side, Other
\* Nothing new is stamped: the entries and the copy only take over old stamps.
<1>1. ASSUME UNCHANGED <<file, clock, edits>>,
             \A p \in Path, s \in Side : archive'[p][s].mtime <= clock[s],
             \/ cur' = NoCopy
             \/ /\ cur'.to = cur.to
                /\ cur'.source.mtime <= clock[Other(cur.to)]
                /\ cur'.dest.mtime <= clock[cur.to]
                /\ cur'.data.ver <= 2 * NumPaths + edits
      PROVE  StampsArePast'
  BY <1>c, <1>1, <1>n, NoCopyFields DEF StampsArePast
<1>2. CASE \/ \E o \in Options : Scan(o)
           \/ MakePlan \/ \E p \in Path : StartCopy(p)
           \/ VerifyBeforeWrite \/ Finish \/ Crash \/ Fail \/ UNCHANGED vars
  <2>1. CASE \E p \in Path : StartCopy(p)
    <3>1. PICK p \in Path : StartCopy(p)
      BY <2>1
    <3>2. cur'.source = NoCopy.source /\ cur'.dest = NoCopy.dest /\ cur'.data = NoCopy.data
      BY <3>1 DEF StartCopy, NoCopy
    <3>3. cur'.to \in Side /\ Other(cur'.to) \in Side
      BY DEF TypeOK, Copy, Other, Side
    <3>4. UNCHANGED <<file, clock, archive, edits>>
      BY <3>1 DEF StartCopy, Advance
    <3>5. cur'.source.mtime <= clock[Other(cur'.to)] /\ cur'.dest.mtime <= clock[cur'.to]
      BY <1>c, <3>2, <3>3, NoCopyFields
    <3>6. cur'.data.ver <= 2 * NumPaths + edits
      BY <1>c, <3>2, NoCopyFields
    <3>7. QED
      BY <3>4, <3>5, <3>6 DEF StampsArePast
  <2>2. CASE ~(\E p \in Path : StartCopy(p))
    <3>1. UNCHANGED <<file, clock, archive, edits>> /\ (cur' = cur \/ cur' = NoCopy)
      BY <1>2, <2>2 DEF Scan, MakePlan, VerifyBeforeWrite, Finish, Crash, Fail, EndRun, Advance, vars
    <3>2. QED
      BY <1>1, <3>1 DEF StampsArePast
  <2>3. QED
    BY <2>1, <2>2
<1>3. CASE StatSource \/ ReadSource \/ StatDestination
  <2>0. CASE Fail
    BY <1>2, <2>0
  <2>1. /\ Source.mtime <= clock[Other(cur.to)] /\ Destination.mtime <= clock[cur.to]
        /\ Source.ver <= 2 * NumPaths + edits
    BY CopyType DEF StampsArePast
  <2>2. CASE ~Fail
    <3>1. /\ UNCHANGED <<file, clock, archive, edits>>
          /\ cur'.to = cur.to
          /\ cur'.source \in {cur.source, StampOf(Source)}
          /\ cur'.dest \in {cur.dest, StampOf(Destination)}
          /\ cur'.data \in {cur.data, Source}
      BY <1>3, <2>2 DEF StatSource, ReadSource, StatDestination, Advance, TypeOK, Copy
    <3>2. QED
      BY <1>1, <2>1, <3>1, StampFields DEF StampsArePast
  <2>3. QED
    BY <2>0, <2>2
<1>4. CASE VerifyAndRecord
  <2>1. CASE Fail
    BY <1>2, <2>1
  <2>2. CASE ~Fail
    <3>1. /\ UNCHANGED <<file, clock, edits>> /\ cur' = NoCopy
          /\ archive' = [archive EXCEPT ![cur.path] = Copied(cur.source, cur.dest)]
      BY <1>4, <2>2 DEF VerifyAndRecord
    <3>2. \A s \in Side : Copied(cur.source, cur.dest)[s].mtime <= clock[s]
      BY CopyType DEF Copied, Side, Other, StampsArePast
    <3>3. \A p \in Path, s \in Side : archive'[p][s].mtime <= clock[s]
      BY <3>1, <3>2, CopyType DEF TypeOK, StampsArePast
    <3>4. QED
      BY <1>1, <3>1, <3>3
  <2>3. QED
    BY <2>1, <2>2
<1>5. ASSUME NEW p \in Path, Forget(p) PROVE StampsArePast'
  <2>1. \A s \in Side : NoEntry[s].mtime <= clock[s]
    BY <1>c, NoCopyFields DEF NoEntry, Side
  <2>2. QED
    BY <1>1, <1>5, <2>1 DEF Forget, TypeOK, StampsArePast
<1>6. ASSUME NEW s \in Side, NEW p \in Path, NEW f \in File, Put(s, p, f),
             f.ver <= 2 * NumPaths + edits', edits <= edits', UNCHANGED <<archive, cur>>
      PROVE  StampsArePast'
  <2>1. \A r \in Side : clock[r] <= clock'[r]
    BY <1>6, <1>c, PutEffect
  <2>2. \A r \in Side : clock'[r] \in Nat
    BY DEF TypeOK
  <2>3. \A r \in Side, q \in Path : archive'[q][r].mtime <= clock'[r]
    BY <1>6, <1>c, <2>1, <2>2 DEF StampsArePast
  <2>4. ASSUME NEW r \in Side, NEW q \in Path
        PROVE  file'[r][q].mtime <= clock'[r] /\ file'[r][q].ver <= 2 * NumPaths + edits'
    <3>1. CASE r = s /\ q = p
      BY <1>6, <1>c, <3>1, PutEffect
    <3>2. CASE ~(r = s /\ q = p)
      <4>1. file'[r][q] = file[r][q]
        BY <1>6, <3>2, PutEffect DEF ChangesOnly
      <4>2. file[r][q].mtime <= clock[r] /\ file[r][q].ver <= 2 * NumPaths + edits
        BY DEF StampsArePast
      <4>3. QED
        BY <1>6, <1>c, <2>1, <2>2, <4>1, <4>2
    <3>3. QED
      BY <3>1, <3>2
  <2>5. /\ cur'.source.mtime <= clock'[Other(cur'.to)] /\ cur'.dest.mtime <= clock'[cur'.to]
        /\ cur'.data.ver <= 2 * NumPaths + edits'
    BY <1>6, <1>c, <2>1, <2>2, CopyType DEF StampsArePast, Stamp, File, Version
  <2>6. QED
    BY <2>3, <2>4, <2>5 DEF StampsArePast
<1>7. CASE Truncate \/ Fill
  <2>1. PICK f \in File : Put(cur.to, cur.path, f) /\ f.ver = cur.data.ver
    BY <1>7, SyncPut
  <2>2. UNCHANGED <<archive, cur, edits>>
    BY <1>7, SyncPut
  <2>3. QED
    BY <1>6, <2>1, <2>2, <1>c, CopyType DEF StampsArePast
<1>8. ASSUME NEW s \in Side, NEW p \in Path, UserWrite(s, p) PROVE StampsArePast'
  <2>1. PICK f \in File : Put(s, p, f) /\ f.ver = 2 * NumPaths + edits + 1
    BY <1>8, UserPut
  <2>2. edits' = edits + 1 /\ UNCHANGED <<archive, cur>>
    BY <1>8, UserPut
  <2>3. QED
    BY <1>6, <2>1, <2>2, <1>c
<1>9. ASSUME NEW s \in Side, NEW p \in Path, file' = [file EXCEPT ![s][p] = NoFile],
             UNCHANGED <<clock, archive, cur>>, edits <= edits'
      PROVE  StampsArePast'
  <2>1. \A r \in Side, q \in Path : file'[r][q] \in {NoFile, file[r][q]}
    BY <1>9, RemoveEffect DEF ChangesOnly
  <2>2. \A r \in Side, q \in Path :
          file'[r][q].mtime <= clock[r] /\ file'[r][q].ver <= 2 * NumPaths + edits'
    BY <1>c, <1>9, <2>1, NoCopyFields DEF StampsArePast
  <2>3. QED
    BY <1>9, <1>c, <2>2, CopyType DEF StampsArePast, File, Version
<1>10. ASSUME NEW p \in Path, RemoveFile(p) PROVE StampsArePast'
  <2>1. (IF plan[p] = "DeleteA" THEN "a" ELSE "b") \in Side
    BY DEF Side
  <2>2. edits <= edits' /\ UNCHANGED <<clock, archive, cur>>
    BY <1>10, <1>c DEF RemoveFile
  <2>3. QED
    BY <1>9, <1>10, <2>1, <2>2 DEF RemoveFile
<1>11. ASSUME NEW s \in Side, NEW p \in Path, UserRemove(s, p) PROVE StampsArePast'
  <2>1. edits <= edits' /\ UNCHANGED <<clock, archive, cur>>
    BY <1>11, <1>c DEF UserRemove
  <2>2. QED
    BY <1>9, <1>11, <2>1 DEF UserRemove
<1>12. QED
  BY <1>2, <1>3, <1>4, <1>5, <1>7, <1>8, <1>10, <1>11 DEF Next, SyncStep, UserStep

\* ---------------------------------------------------------------------
\* The copy in progress: what it captured, read and wrote.

CopyOK == CopyReadsSource /\ CopyStays

LEMMA EndRunCopy ==
  ASSUME NEW how \in {"idle", "done"}, EndRun(how)
  PROVE  CopyOK'
  BY NoCopyFields DEF EndRun, CopyOK, CopyReadsSource, CopyStays

\* A user's edit of one file: what it can not touch, and what it changes.
LEMMA UserEdit ==
  ASSUME TypeOK, TypeOK', StampsArePast, NEW s \in Side, NEW p \in Path,
         UserWrite(s, p) \/ UserRemove(s, p)
  PROVE  /\ UNCHANGED <<archive, syncVars>> /\ ~quiet' /\ edits' = edits + 1
         /\ MayEdit(s, p) /\ ChangesOnly(s, p)
         /\ file'[s][p].present => file'[s][p].mtime = clock[s] + 1
         /\ \A st \in Stamp : st.present /\ st.mtime <= clock[s] => StampOf(file'[s][p]) # st
<1>c. clock[s] \in Nat
  BY DEF TypeOK
<1>1. CASE UserWrite(s, p)
  <2>1. PICK f \in File : Put(s, p, f) /\ f.present
    BY <1>1, UserPut
  <2>2. file'[s][p].mtime = clock[s] + 1 /\ ChangesOnly(s, p)
    BY <2>1, PutEffect
  <2>3. \A st \in Stamp : st.mtime <= clock[s] => StampOf(file'[s][p]) # st
    BY <1>c, <2>2, StampFields DEF Stamp
  <2>4. QED
    BY <1>1, <2>2, <2>3, UserPut
<1>2. CASE UserRemove(s, p)
  <2>1. file'[s][p] = NoFile /\ ChangesOnly(s, p)
    BY <1>2, RemoveEffect DEF UserRemove
  <2>2. \A st \in Stamp : st.present => StampOf(file'[s][p]) # st
    BY <2>1, NoCopyFields
  <2>3. QED
    BY <1>2, <2>1, <2>2, NoCopyFields DEF UserRemove, MayEdit
<1>3. QED
  BY <1>1, <1>2

LEMMA CopyStep ==
  ASSUME TypeOK, TypeOK', StampsArePast, PlanRespectsMode, CopyOK, [Next]_vars
  PROVE  CopyOK'
<1> USE DEF ghosts, syncVars
<1>o. Other(cur.to) # cur.to
  BY CopyType DEF Other, Side
<1>1. CASE \/ \E o \in Options : Scan(o)
           \/ MakePlan \/ \E p \in Path : Forget(p) \/ RemoveFile(p)
  <2>1. cur' = cur /\ phase \notin Transferring /\ phase' \notin Transferring
    BY <1>1 DEF Scan, MakePlan, Forget, RemoveFile, IsNext, Transferring
  <2>2. QED
    BY <2>1 DEF CopyOK, CopyReadsSource, CopyStays, Transferring
<1>2. ASSUME NEW p \in Path, StartCopy(p) PROVE CopyOK'
  <2>1. phase' = "stat" /\ cur'.dest = NoCopy.dest
    BY <1>2 DEF StartCopy, Advance, NoCopy
  <2>2. QED
    BY <2>1, NoCopyFields DEF CopyOK, CopyReadsSource, CopyStays
<1>f. CASE Fail \/ Finish \/ Crash
  BY <1>f, EndRunCopy DEF Fail, Finish, Crash
<1>3. CASE StatSource
  <2>1. CASE ~Fail
    <3>1. /\ phase = "stat" /\ phase' = "read" /\ Source.present
          /\ cur'.source = StampOf(Source) /\ cur'.dest = cur.dest
      BY <1>3, <2>1 DEF StatSource, Advance, TypeOK, Copy
    <3>2. QED
      BY <3>1, StampFields DEF CopyOK, CopyReadsSource, CopyStays
  <2>2. QED
    BY <1>f, <2>1
<1>4. CASE ReadSource
  <2>1. CASE ~Fail
    <3>1. /\ phase = "read" /\ phase' = "verify" /\ Source.present /\ file' = file
          /\ cur'.data = Source /\ cur'.source = cur.source /\ cur'.dest = cur.dest
          /\ cur'.to = cur.to /\ cur'.path = cur.path
      BY <1>4, <2>1 DEF ReadSource, Advance, TypeOK, Copy
    <3>2. Source' = Source
      BY <3>1 DEF Source
    <3>3. QED
      BY <3>1, <3>2 DEF CopyOK, CopyReadsSource, CopyStays
  <2>2. QED
    BY <1>f, <2>1
<1>5. CASE VerifyBeforeWrite
  <2>1. CASE ~Fail
    <3>1. phase = "verify" /\ phase' = "write" /\ file' = file /\ cur' = cur
      BY <1>5, <2>1 DEF VerifyBeforeWrite, Advance
    <3>2. Source' = Source
      BY <3>1 DEF Source
    <3>3. QED
      BY <3>1, <3>2 DEF CopyOK, CopyReadsSource, CopyStays
  <2>2. QED
    BY <1>f, <2>1
<1>6. CASE Truncate \/ Fill
  <2>1. PICK f \in File : /\ Put(cur.to, cur.path, f)
                          /\ f.present = cur.data.present /\ f.ver = cur.data.ver
                          /\ Truncate => ~f.whole
                          /\ Fill => f.whole = cur.data.whole
    BY <1>6, SyncPut
  <2>2. /\ Source' = Source /\ cur' = cur
        /\ Destination'.present = f.present /\ Destination'.ver = f.ver
        /\ Destination'.whole = f.whole
    <3>1. cur' = cur
      BY <1>6, SyncPut
    <3>2. QED
      BY <1>o, <2>1, <3>1, PutEffect, CopyType DEF ChangesOnly, Source, Destination
  <2>3. CASE Truncate
    <3>1. phase = "write" /\ phase' = "fill"
      BY <2>3, SyncPut
    <3>2. QED
      BY <2>1, <2>2, <2>3, <3>1 DEF CopyOK, CopyReadsSource, CopyStays
  <2>4. CASE Fill
    <3>1. phase = "fill" /\ phase' = "written"
      BY <2>4, SyncPut
    <3>2. QED
      BY <2>1, <2>2, <2>4, <3>1 DEF CopyOK, CopyReadsSource, CopyStays
  <2>5. QED
    BY <1>6, <2>3, <2>4
<1>7. CASE StatDestination
  <2>1. CASE ~Fail
    <3>1. /\ phase = "written" /\ phase' = "written" /\ Destination.present /\ file' = file
          /\ cur'.data = cur.data /\ cur'.source = cur.source
          /\ cur'.dest = StampOf(Destination) /\ quiet' = quiet
          /\ cur'.to = cur.to /\ cur'.path = cur.path
      BY <1>7, <2>1 DEF StatDestination, Advance, TypeOK, Copy
    <3>2. Source' = Source /\ Destination' = Destination
      BY <3>1 DEF Source, Destination
    <3>3. QED
      BY <3>1, <3>2 DEF CopyOK, CopyReadsSource, CopyStays
  <2>2. QED
    BY <1>f, <2>1
<1>8. CASE VerifyAndRecord
  <2>1. CASE ~Fail
    BY <1>8, <2>1, NoCopyFields DEF VerifyAndRecord, CopyOK, CopyReadsSource, CopyStays
  <2>2. QED
    BY <1>f, <2>1
<1>9. ASSUME NEW s \in Side, NEW p \in Path, UserWrite(s, p) \/ UserRemove(s, p)
      PROVE  CopyOK'
  <2>1. /\ UNCHANGED syncVars /\ ~quiet' /\ MayEdit(s, p) /\ ChangesOnly(s, p)
        /\ \A st \in Stamp : st.present /\ st.mtime <= clock[s] => StampOf(file'[s][p]) # st
    BY <1>9, UserEdit
  <2>2. /\ Source' = file'[Other(cur.to)][cur.path]
        /\ Destination' = file'[cur.to][cur.path]
    BY <2>1 DEF Source, Destination
  <2>3. CopyReadsSource'
    <3>1. CASE s = Other(cur.to) /\ p = cur.path
      <4>1. cur.source.present => StampOf(Source') # cur.source
        BY <2>1, <2>2, <3>1, CopyType DEF StampsArePast
      <4>2. QED
        BY <2>1, <4>1 DEF CopyOK, CopyReadsSource
    <3>2. CASE ~(s = Other(cur.to) /\ p = cur.path)
      <4>1. Source' = Source
        BY <2>1, <2>2, <3>2, CopyType DEF ChangesOnly
      <4>2. QED
        BY <2>1, <4>1 DEF CopyOK, CopyReadsSource
    <3>3. QED
      BY <3>1, <3>2
  <2>4. CopyStays'
    <3>1. CASE s = cur.to /\ p = cur.path
      <4>1. phase # "fill"
        BY <2>1, <3>1 DEF MayEdit
      <4>2. ~(phase = "written" /\ QuietDestination)
        BY <2>1, <3>1, CopyType
           DEF MayEdit, Targeted, PlanRespectsMode, Transferring, WritesSide, WritesA, WritesB, Side
      <4>3. QED
        BY <2>1, <4>1, <4>2 DEF CopyOK, CopyStays
    <3>2. CASE ~(s = cur.to /\ p = cur.path)
      <4>1. Destination' = Destination
        BY <2>1, <2>2, <3>2, CopyType DEF ChangesOnly
      <4>2. QED
        BY <2>1, <4>1 DEF CopyOK, CopyStays
    <3>3. QED
      BY <3>1, <3>2
  <2>5. QED
    BY <2>3, <2>4 DEF CopyOK
<1>10. CASE UNCHANGED vars
  <2>1. Source' = Source /\ Destination' = Destination
    BY <1>10 DEF vars, Source, Destination
  <2>2. QED
    BY <1>10, <2>1 DEF vars, CopyOK, CopyReadsSource, CopyStays
<1>11. QED
  BY <1>1, <1>2, <1>f, <1>3, <1>4, <1>5, <1>6, <1>7, <1>8, <1>9, <1>10
     DEF Next, SyncStep, UserStep

\* ---------------------------------------------------------------------
\* What the archive vouches for.

\* A file that a step changes is no longer the one the archive recorded.
LEMMA ChangedIsUnrecorded ==
  ASSUME TypeOK, TypeOK', StampsArePast, [Next]_vars, NEW s \in Side, NEW p \in Path,
         file'[s][p] # file[s][p]
  PROVE  archive' = archive /\ ~Recorded(s, p)'
<1> USE DEF ghosts, syncVars
<1>c. clock[s] \in Nat /\ archive[p][s].mtime \in Nat /\ archive[p][s].mtime <= clock[s]
  BY DEF TypeOK, Entry, Stamp, Side, StampsArePast
<1>1. CASE Truncate \/ Fill
  <2>1. PICK f \in File : Put(cur.to, cur.path, f)
    BY <1>1, SyncPut
  <2>2. s = cur.to /\ p = cur.path
    BY <2>1, PutEffect, CopyType DEF ChangesOnly
  <2>3. file'[s][p].mtime = clock[s] + 1 /\ archive' = archive
    BY <1>1, <2>1, <2>2, PutEffect, CopyType, SyncPut
  <2>4. QED
    BY <1>c, <2>3, StampFields DEF Recorded
<1>2. ASSUME NEW r \in Side, NEW q \in Path, UserWrite(r, q) \/ UserRemove(r, q)
      PROVE  archive' = archive /\ ~Recorded(s, p)'
  <2>1. /\ archive' = archive /\ ChangesOnly(r, q)
        /\ file'[r][q].present => file'[r][q].mtime = clock[r] + 1
    BY <1>2, UserEdit
  <2>2. r = s /\ q = p
    BY <2>1 DEF ChangesOnly
  <2>3. QED
    BY <1>c, <2>1, <2>2, StampFields DEF Recorded
<1>3. ASSUME NEW q \in Path, RemoveFile(q) PROVE archive' = archive /\ ~Recorded(s, p)'
  <2>1. PICK r \in Side : file' = [file EXCEPT ![r][q] = NoFile]
    BY <1>3 DEF RemoveFile, Side
  <2>2. file'[s][p] = NoFile
    BY <2>1, RemoveEffect DEF ChangesOnly
  <2>3. QED
    BY <1>3, <2>2, NoCopyFields DEF RemoveFile, Recorded
<1>4. CASE \/ \E o \in Options : Scan(o)
           \/ MakePlan \/ \E q \in Path : StartCopy(q) \/ Forget(q)
           \/ StatSource \/ ReadSource \/ VerifyBeforeWrite \/ StatDestination
           \/ VerifyAndRecord \/ Finish \/ Crash \/ UNCHANGED vars
  <2>1. file' = file
    BY <1>4 DEF Scan, MakePlan, StartCopy, Forget, StatSource, ReadSource,
       VerifyBeforeWrite, StatDestination, VerifyAndRecord, Finish, Crash, Fail, vars
  <2>2. QED
    BY <2>1
<1>5. QED
  BY <1>1, <1>2, <1>3, <1>4 DEF Next, SyncStep, UserStep

\* A copy that is recorded took what the source still is to where it still is.
LEMMA RecordAgrees ==
  ASSUME TypeOK, CopyOK, quiet \/ QuietDestination,
         phase = "written", cur.dest.present, SourceVerified
  PROVE  /\ Same(file["a"][cur.path], file["b"][cur.path])
         /\ \A s \in Side : /\ file[s][cur.path].present
                            /\ StampOf(file[s][cur.path]) = Copied(cur.source, cur.dest)[s]
         /\ Copied(cur.source, cur.dest).mapped
<1>1. /\ cur.source.present /\ cur.data.present
      /\ Source.ver = cur.data.ver /\ Source.present /\ Source.whole = cur.data.whole
  BY CopyType, StampFields DEF CopyOK, CopyReadsSource, SourceVerified
<1>2. /\ Destination.present /\ Destination.ver = cur.data.ver
      /\ Destination.whole = cur.data.whole /\ cur.dest = StampOf(Destination)
  BY DEF CopyOK, CopyStays
<1>3. StampOf(Source) = cur.source
  BY DEF SourceVerified
<1>4. CASE cur.to = "b"
  <2>1. Source = file["a"][cur.path] /\ Destination = file["b"][cur.path]
    BY <1>4 DEF Source, Destination, Other
  <2>2. /\ Copied(cur.source, cur.dest)["a"] = cur.source
        /\ Copied(cur.source, cur.dest)["b"] = cur.dest
        /\ Copied(cur.source, cur.dest).mapped
    BY <1>4 DEF Copied
  <2>3. Same(file["a"][cur.path], file["b"][cur.path])
    BY <1>1, <1>2, <2>1, CopyType DEF Same, File
  <2>4. QED
    BY <1>1, <1>2, <1>3, <2>1, <2>2, <2>3 DEF Side
<1>5. CASE cur.to = "a"
  <2>1. Source = file["b"][cur.path] /\ Destination = file["a"][cur.path]
    BY <1>5 DEF Source, Destination, Other
  <2>2. /\ Copied(cur.source, cur.dest)["b"] = cur.source
        /\ Copied(cur.source, cur.dest)["a"] = cur.dest
        /\ Copied(cur.source, cur.dest).mapped
    BY <1>5 DEF Copied
  <2>3. Same(file["a"][cur.path], file["b"][cur.path])
    BY <1>1, <1>2, <2>1, CopyType DEF Same, File
  <2>4. QED
    BY <1>1, <1>2, <1>3, <2>1, <2>2, <2>3 DEF Side
<1>6. QED
  BY <1>4, <1>5, CopyType DEF Side

\* An entry changes when a copy is recorded or a deletion forgotten.
LEMMA EntryChange ==
  ASSUME TypeOK, [Next]_vars, NEW p \in Path, archive'[p] # archive[p]
  PROVE  \/ Forget(p) /\ archive'[p] = NoEntry
         \/ /\ phase = "written" /\ cur.dest.present /\ SourceVerified
            /\ p = cur.path /\ file' = file
            /\ archive'[p] = Copied(cur.source, cur.dest)
            /\ plan'[p] = "None"
            /\ UNCHANGED <<quiet, live>>
<1> USE DEF ghosts, syncVars
<1>1. CASE VerifyAndRecord
  <2>1. ~Fail
    BY <1>1 DEF Fail
  <2>2. QED
    BY <1>1, <2>1 DEF VerifyAndRecord, TypeOK
<1>2. CASE \E q \in Path : Forget(q)
  BY <1>2 DEF Forget, TypeOK
<1>3. CASE ~VerifyAndRecord /\ ~(\E q \in Path : Forget(q))
  <2>1. archive' = archive
    BY <1>3 DEF Next, SyncStep, UserStep, Scan, MakePlan, StartCopy, RemoveFile, StatSource,
       ReadSource, VerifyBeforeWrite, Truncate, Fill, StatDestination, Finish, Crash, Fail,
       UserWrite, UserRemove, vars
  <2>2. QED
    BY <2>1
<1>4. QED
  BY <1>1, <1>2, <1>3

LEMMA VouchStep ==
  ASSUME TypeOK, TypeOK', StampsArePast, CopyOK, [Next]_vars,
         QuietDestination, ArchiveVouches
  PROVE  ArchiveVouches'
<1> SUFFICES ASSUME NEW p \in Path, Recorded("a", p)', Recorded("b", p)'
             PROVE  Same(file["a"][p], file["b"][p])'
  BY DEF ArchiveVouches, Recorded
<1>1. \A s \in Side : file'[s][p] = file[s][p]
  BY ChangedIsUnrecorded DEF Side
<1>2. CASE archive'[p] = archive[p]
  BY <1>1, <1>2 DEF ArchiveVouches, Recorded, Same, Side
<1>3. CASE archive'[p] # archive[p]
  <2>1. archive'[p] # NoEntry
    BY DEF Recorded, NoEntry
  <2>2. Same(file["a"][p], file["b"][p])
    BY <1>3, <2>1, EntryChange, RecordAgrees
  <2>3. QED
    BY <1>1, <2>2 DEF Same, Side
<1>4. QED
  BY <1>2, <1>3

\* ---------------------------------------------------------------------
\* Why no run touches a version that both sides hold.

LEMMA ListedStep ==
  ASSUME TypeOK, TypeOK', StampsArePast, ListedAsRecorded, [Next]_vars
  PROVE  ListedAsRecorded'
<1> USE DEF ghosts, syncVars
<1> SUFFICES ASSUME phase' = "scanned", NEW p \in Path, Recorded("a", p)'
             PROVE  snapA'[p] = archive'[p].a
  BY DEF ListedAsRecorded
<1>1. file'["a"][p] = file["a"][p]
  BY ChangedIsUnrecorded DEF Side
<1>2. CASE \E o \in Options : Scan(o)
  BY <1>1, <1>2 DEF Scan, Snapshot, Recorded
<1>3. CASE UserStep \/ UNCHANGED vars
  <2>1. UNCHANGED <<archive, phase, snapA>>
    BY <1>3 DEF UserStep, UserWrite, UserRemove, vars
  <2>2. QED
    BY <1>1, <2>1 DEF ListedAsRecorded, Recorded
<1>4. CASE SyncStep \/ Crash
  BY <1>4 DEF SyncStep, MakePlan, StartCopy, RemoveFile, Forget, StatSource, ReadSource,
     VerifyBeforeWrite, Truncate, Fill, StatDestination, VerifyAndRecord, Finish, Crash, Fail,
     Advance, EndRun, IsNext
<1>5. QED
  BY <1>2, <1>3, <1>4 DEF Next

\* Inside a run, a path's plan is made, carried out or kept.
LEMMA PlanChange ==
  ASSUME TypeOK, [Next]_vars, Running', NEW p \in Path
  PROVE  \/ MakePlan
         \/ RemoveFile(p)
         \/ Running /\ UNCHANGED opts /\ plan'[p] = plan[p]
         \/ /\ phase = "written" /\ phase' = "run" /\ p = cur.path /\ UNCHANGED opts
            /\ plan'[p] = "None" /\ archive'[p] = Copied(cur.source, cur.dest)
            /\ cur.dest.present /\ SourceVerified /\ UNCHANGED <<file, quiet>>
         \/ Forget(p)
<1> USE DEF ghosts, syncVars
<1>1. CASE \/ StatSource \/ ReadSource \/ VerifyBeforeWrite \/ Truncate \/ Fill
           \/ StatDestination
  <2>1. ~EndRun("idle")
    BY DEF EndRun, Running, Transferring
  <2>2. QED
    BY <1>1, <2>1, CopyStepMoves DEF CopyMoves, Running
<1>2. CASE VerifyAndRecord
  <2>1. ~Fail
    BY DEF Fail, EndRun, Running, Transferring
  <2>2. QED
    BY <1>2, <2>1 DEF VerifyAndRecord, TypeOK, Running, Transferring
<1>3. ASSUME NEW q \in Path, RemoveFile(q) \/ Forget(q), q # p
      PROVE  Running /\ UNCHANGED opts /\ plan'[p] = plan[p]
  BY <1>3 DEF RemoveFile, Forget, IsNext, TypeOK, Running
<1>4. ASSUME NEW q \in Path, StartCopy(q)
      PROVE  Running /\ UNCHANGED opts /\ plan'[p] = plan[p]
  BY <1>4 DEF StartCopy, IsNext, Advance, Running
<1>5. CASE UserStep \/ UNCHANGED vars
  BY <1>5 DEF UserStep, UserWrite, UserRemove, vars, Running
<1>6. CASE (\E o \in Options : Scan(o)) \/ Finish \/ Crash
  BY <1>6 DEF Scan, Finish, Crash, EndRun, Running, Transferring
<1>7. QED
  BY <1>1, <1>2, <1>3, <1>4, <1>5, <1>6 DEF Next, SyncStep

\* A plan leaves alone a file that is on both sides as the archive recorded.
LEMMA RecordedIsLeftAlone ==
  ASSUME TypeOK, ListedAsRecorded, MakePlan, NEW p \in Path, Recorded("a", p), Recorded("b", p)
  PROVE  plan'[p] = "None"
<1> DEFINE e == archive[p]
           va == View(snapA[p], e, e.a)
           vb == View(StampOf(file["b"][p]), e, e.b)
<1>1. snapA[p] = e.a /\ snapA[p].present
  BY StampFields DEF ListedAsRecorded, MakePlan, Recorded
<1>2. va.present /\ ~va.changed /\ vb.present /\ ~vb.changed /\ e.mapped
  BY <1>1, StampFields DEF View, Recorded
<1>3. DecidePair(opts, va, vb, e.mapped) = "None"
  BY <1>2 DEF DecidePair, PairBoth
<1>4. QED
  BY <1>3 DEF MakePlan, PlanFiles, DecideFile, Snapshot

\* Users give up what they replace or remove.
LEMMA LiveOnly ==
  ASSUME TypeOK, StampsArePast, [Next]_vars, NEW s \in Side, NEW p \in Path,
         file[s][p].ver \in live'
  PROVE  file[s][p].ver \in live
<1> USE DEF ghosts, syncVars
<1>1. /\ file[s][p].ver <= 2 * NumPaths + edits /\ file[s][p].ver \in Nat
      /\ edits \in Nat /\ NumPaths \in Nat
  BY FilesAssumption DEF StampsArePast, TypeOK, File, Version
<1>2. ASSUME NEW r \in Side, NEW q \in Path, UserWrite(r, q) PROVE file[s][p].ver \in live
  BY <1>1, <1>2, UserPut
<1>3. ASSUME NEW r \in Side, NEW q \in Path, UserRemove(r, q) PROVE file[s][p].ver \in live
  BY <1>3 DEF UserRemove
<1>4. CASE ~UserStep
  BY <1>4 DEF Next, SyncStep, Scan, MakePlan, StartCopy, RemoveFile, Forget, StatSource,
     ReadSource, VerifyBeforeWrite, Truncate, Fill, StatDestination, VerifyAndRecord, Finish,
     Crash, Fail, Advance, vars
<1>5. QED
  BY <1>2, <1>3, <1>4 DEF UserStep

\* A user who edits one of two equal copies gives up their version.
LEMMA EditGivesUp ==
  ASSUME TypeOK, StampsArePast, \E o \in Options : o.delete,
         NEW s \in Side, NEW p \in Path, UserWrite(s, p) \/ UserRemove(s, p), file[s][p].whole
  PROVE  file[s][p].ver \notin live'
<1>1. /\ file[s][p].ver <= 2 * NumPaths + edits /\ file[s][p].ver \in Nat
      /\ edits \in Nat /\ NumPaths \in Nat
  BY FilesAssumption DEF StampsArePast, TypeOK, File, Version
<1>2. CASE UserWrite(s, p)
  BY <1>1, <1>2, UserPut DEF Superseded
<1>3. CASE UserRemove(s, p)
  BY <1>3 DEF UserRemove, Discarded, Superseded
<1>4. QED
  BY <1>2, <1>3

LEMMA WantedStep ==
  ASSUME IInv, TypeOK', StampsArePast, CopyOK, ListedAsRecorded, WantedIsOnBothSides,
         [Next]_vars
  PROVE  WantedIsOnBothSides'
<1> USE DEF ghosts, syncVars
<1> SUFFICES ASSUME QuietDestination, \E o \in Options : o.delete,
                    NEW p \in Path, NEW s \in Side, Wanted(s, p)'
             PROVE  /\ Recorded(Other(s), p)'
                    /\ Same(file[s][p], file[Other(s)][p])'
                    /\ Running' => plan'[p] \in {"None", "Conflict"}
  BY DEF WantedIsOnBothSides
<1>t. TypeOK /\ PlanRespectsMode
  BY DEF IInv
<1>s. Other(s) \in Side /\ Other(s) # s /\ Side = {s, Other(s)}
  BY DEF Other, Side
<1>1. file'[s][p] = file[s][p]
  BY <1>t, ChangedIsUnrecorded DEF Wanted
<1>2. file[s][p].ver \in live
  BY <1>t, <1>1, LiveOnly DEF Wanted
<1>3. CASE archive'[p] # archive[p]
  <2>1. archive'[p] # NoEntry
    BY DEF Wanted, Recorded, NoEntry
  <2>2. /\ p = cur.path /\ file' = file /\ plan'[p] = "None"
        /\ archive'[p] = Copied(cur.source, cur.dest)
        /\ phase = "written" /\ cur.dest.present /\ SourceVerified
    BY <1>3, <1>t, <2>1, EntryChange
  <2>3. /\ Same(file["a"][p], file["b"][p])
        /\ \A r \in Side : /\ file[r][p].present
                           /\ StampOf(file[r][p]) = Copied(cur.source, cur.dest)[r]
    BY <1>t, <2>2, RecordAgrees
  <2>4. Same(file[s][p], file[Other(s)][p])
    BY <2>3 DEF Same, Side, Other
  <2>5. QED
    BY <1>s, <2>2, <2>3, <2>4 DEF Recorded, Wanted
<1>4. CASE archive'[p] = archive[p]
  <2>1. Wanted(s, p)
    BY <1>1, <1>2, <1>4 DEF Wanted, Recorded
  <2>2. /\ Recorded(Other(s), p) /\ Same(file[s][p], file[Other(s)][p])
        /\ Running => plan[p] \in {"None", "Conflict"}
    BY <2>1 DEF WantedIsOnBothSides
  <2>3. /\ file[Other(s)][p].present /\ file[s][p].present
        /\ file[Other(s)][p].whole /\ file[Other(s)][p].ver = file[s][p].ver
    BY <1>s, <1>t, <2>1, <2>2 DEF Same, Recorded, Wanted, TypeOK, File
  <2>4. file'[Other(s)][p] = file[Other(s)][p]
    <3>1. SUFFICES ASSUME file'[Other(s)][p] # file[Other(s)][p] PROVE FALSE
      OBVIOUS
    <3>2. CASE edits' = edits
      <4>1. Running /\ plan[p] \in WritesSide(Other(s))
        BY <1>s, <3>1, <3>2, SyncWrites
      <4>2. QED
        BY <2>2, <4>1 DEF WritesSide, WritesA, WritesB
    <3>3. CASE edits' # edits
      <4>1. PICK r \in Side, q \in Path : UserWrite(r, q) \/ UserRemove(r, q)
        BY <3>3 DEF Next, SyncStep, UserStep, Scan, MakePlan, StartCopy, RemoveFile, Forget,
           StatSource, ReadSource, VerifyBeforeWrite, Truncate, Fill, StatDestination,
           VerifyAndRecord, Finish, Crash, Fail, Advance, vars
      <4>2. r = Other(s) /\ q = p
        BY <1>s, <1>t, <3>1, <4>1, UserEdit DEF ChangesOnly
      <4>3. file[s][p].ver \notin live'
        BY <1>t, <2>3, <4>1, <4>2, EditGivesUp
      <4>4. QED
        BY <1>1, <4>3 DEF Wanted
    <3>4. QED
      BY <3>2, <3>3
  <2>5. Running' => plan'[p] \in {"None", "Conflict"}
    <3>1. CASE MakePlan
      <4>1. Recorded("a", p) /\ Recorded("b", p)
        BY <2>1, <2>2 DEF Wanted, Side, Other
      <4>2. QED
        BY <1>t, <3>1, <4>1, RecordedIsLeftAlone
    <3>2. CASE RemoveFile(p) \/ Forget(p)
      BY <2>2, <3>2 DEF RemoveFile, Forget, IsNext, Running
    <3>3. QED
      BY <1>t, <2>2, <3>1, <3>2, PlanChange
  <2>6. QED
    BY <1>1, <1>4, <2>2, <2>4, <2>5 DEF Recorded, Same
<1>5. QED
  BY <1>3, <1>4

\* ---------------------------------------------------------------------
\* An undisturbed run settles every path.

\* What the table asks for leaves nothing to do once it is done: deletions
\* answer a missing file, and a forgotten path is left alone.
LEMMA TableSettles ==
  ASSUME NEW o \in SyncOptions, NEW a \in SideView, NEW b \in SideView, NEW mapped \in BOOLEAN
  PROVE  LET d == DecidePair(o, a, b, mapped) IN
         /\ d = "DeleteA" => ~b.present
         /\ d = "DeleteB" => ~a.present
         /\ d = "Forget" => mapped /\ PairUnmapped(o, a, b) \in {"None", "Conflict"}
<1> DEFINE d == DecidePair(o, a, b, mapped)
<1>a. /\ a.present \in BOOLEAN /\ b.present \in BOOLEAN
      /\ a.changed \in BOOLEAN /\ b.changed \in BOOLEAN
  BY DEF SideView
<1>1. CASE mapped /\ a.present /\ b.present
  <2>1. d = PairBoth(o, a, b)
    BY <1>1 DEF DecidePair
  <2>2. d \in {"None", "CopyToA", "CopyToB", "Conflict"}
    BY <1>a, <2>1, WinnerType DEF PairBoth, Resolve, Allow, SideView, SyncOptions
  <2>3. QED
    BY <2>2
<1>2. CASE mapped /\ a.present /\ ~b.present
  <2>1. d = PairBGone(o, a)
    BY <1>2 DEF DecidePair
  <2>2. d \in {"None", "CopyToB", "DeleteA", "Forget", "Conflict"}
    BY <1>a, <2>1, WinnerType DEF PairBGone, Resolve, Allow, SideView, SyncOptions, DeletedMs
  <2>3. d = "Forget" => ~CanWriteRemote(o.mode)
    BY <1>a, <2>1, WinnerType DEF PairBGone, Resolve, Allow, SideView, SyncOptions, DeletedMs
  <2>4. PairUnmapped(o, a, b) = Allow(CanWriteRemote(o.mode), "CopyToB")
    BY <1>2 DEF PairUnmapped
  <2>5. QED
    BY <1>2, <2>2, <2>3, <2>4 DEF Allow
<1>3. CASE mapped /\ ~a.present /\ b.present
  <2>1. d = PairAGone(o, b)
    BY <1>3 DEF DecidePair
  <2>2. d \in {"None", "CopyToA", "DeleteB", "Forget", "Conflict"}
    BY <1>a, <2>1, WinnerType DEF PairAGone, Resolve, Allow, SideView, SyncOptions, DeletedMs
  <2>3. d = "Forget" => ~CanWriteLocal(o.mode)
    BY <1>a, <2>1, WinnerType DEF PairAGone, Resolve, Allow, SideView, SyncOptions, DeletedMs
  <2>4. PairUnmapped(o, a, b) = Allow(CanWriteLocal(o.mode), "CopyToA")
    BY <1>3 DEF PairUnmapped
  <2>5. QED
    BY <1>3, <2>2, <2>3, <2>4 DEF Allow
<1>4. CASE mapped /\ ~a.present /\ ~b.present
  <2>1. d = "Forget"
    BY <1>4 DEF DecidePair
  <2>2. PairUnmapped(o, a, b) = "None"
    BY <1>4 DEF PairUnmapped
  <2>3. QED
    BY <1>4, <2>1, <2>2
<1>5. CASE ~mapped
  <2>1. d = PairUnmapped(o, a, b)
    BY <1>5 DEF DecidePair
  <2>2. d \in {"None", "CopyToA", "CopyToB", "Conflict"}
    BY <1>a, <2>1, WinnerType DEF PairUnmapped, Resolve, Allow, SideView, SyncOptions
  <2>3. QED
    BY <2>2
<1>6. QED
  BY <1>1, <1>2, <1>3, <1>4, <1>5, <1>a

LEMMA SettleStep ==
  ASSUME IInv, CopyOK, QuietRunSettles, [Next]_vars
  PROVE  QuietRunSettles'
<1> USE DEF ghosts, syncVars
<1> SUFFICES ASSUME quiet' PROVE QuietRunSettles'
  BY DEF QuietRunSettles
<1>t. TypeOK /\ PlanRespectsMode
  BY DEF IInv
<1>1. CASE \E o \in Options : Scan(o)
  <2>1. phase' = "scanned" /\ snapA' = Snapshot("a") /\ Snapshot("a")' = Snapshot("a")
    BY <1>1 DEF Scan, Snapshot
  <2>2. QED
    BY <2>1 DEF QuietRunSettles, Running, Transferring
<1>2. CASE ~(\E o \in Options : Scan(o))
  <2>1. quiet /\ edits' = edits
    BY <1>2 DEF Next, SyncStep, UserStep, UserWrite, UserRemove, Scan, MakePlan, StartCopy,
       RemoveFile, Forget, StatSource, ReadSource, VerifyBeforeWrite, Truncate, Fill,
       StatDestination, VerifyAndRecord, Finish, Crash, Fail, Advance, vars
  <2>2. ASSUME phase' = "scanned" PROVE (snapA = Snapshot("a"))'
    <3>1. UNCHANGED vars
      BY <1>2, <2>1, <2>2 DEF Next, SyncStep, UserStep, UserWrite, UserRemove, MakePlan,
         StartCopy, RemoveFile, Forget, StatSource, ReadSource, VerifyBeforeWrite, Truncate,
         Fill, StatDestination, VerifyAndRecord, Finish, Crash, Fail, Advance, EndRun, IsNext
    <3>2. QED
      BY <2>1, <2>2, <3>1 DEF vars, QuietRunSettles, Snapshot
  <2>3. ASSUME phase' = "done", NEW p \in Path PROVE Idle(p, archive[p])'
    <3>1. CASE Finish
      <4>1. /\ phase = "run" /\ plan[p] \in {"None", "Conflict"}
            /\ UNCHANGED <<file, opts, archive>>
        BY <3>1 DEF Finish, EndRun, Pending
      <4>2. Idle(p, archive[p])
        BY <2>1, <4>1 DEF QuietRunSettles, Running
      <4>3. QED
        BY <4>1, <4>2 DEF Idle
    <3>2. CASE UNCHANGED vars
      BY <2>1, <2>3, <3>2 DEF vars, QuietRunSettles, Idle
    <3>3. QED
      BY <1>2, <2>1, <2>3, <3>1, <3>2 DEF Next, SyncStep, UserStep, UserWrite, UserRemove,
         MakePlan, StartCopy, RemoveFile, Forget, StatSource, ReadSource, VerifyBeforeWrite,
         Truncate, Fill, StatDestination, VerifyAndRecord, Crash, Fail, Advance, EndRun, IsNext
  <2>4. ASSUME Running', NEW p \in Path
        PROVE  /\ plan'[p] \in {"None", "Conflict"} => Idle(p, archive[p])'
               /\ plan'[p] = "Forget" => Idle(p, NoEntry)'
               /\ plan'[p] = "DeleteA" => ~file'["b"][p].present
               /\ plan'[p] = "DeleteB" => ~file'["a"][p].present
    <3>1. CASE MakePlan
      <4> DEFINE e == archive[p]
                 sa == StampOf(file["a"][p])
                 sb == StampOf(file["b"][p])
                 va == View(sa, e, e.a)
                 vb == View(sb, e, e.b)
                 na == View(sa, NoEntry, NoEntry.a)
                 nb == View(sb, NoEntry, NoEntry.b)
      <4>1. /\ snapA = Snapshot("a") /\ UNCHANGED <<file, archive, opts>>
        BY <2>1, <3>1 DEF MakePlan, QuietRunSettles
      <4>2. plan'[p] = DecideFile(opts, sa, sb, e)
        BY <3>1, <4>1 DEF MakePlan, PlanFiles, Snapshot
      <4>3. /\ opts \in SyncOptions /\ e.mapped \in BOOLEAN
            /\ sa \in Stamp /\ sb \in Stamp
            /\ va \in SideView /\ vb \in SideView
            /\ va.present = file["a"][p].present /\ vb.present = file["b"][p].present
        <5>1. file["a"][p] \in File /\ file["b"][p] \in File /\ e \in Entry /\ opts \in SyncOptions
          BY <1>t, FilesAssumption DEF TypeOK, Side
        <5>2. sa \in Stamp /\ sb \in Stamp
          BY <5>1, StampType
        <5>3. QED
          BY <5>1, <5>2, StampFields DEF View, SideView, Stamp, Entry
      <4>4. /\ plan'[p] = "DeleteA" => ~vb.present
            /\ plan'[p] = "DeleteB" => ~va.present
            /\ plan'[p] = "Forget" => PairUnmapped(opts, va, vb) \in {"None", "Conflict"}
        BY <4>2, <4>3, TableSettles DEF DecideFile
      <4>5. PairUnmapped(opts, na, nb) = PairUnmapped(opts, va, vb)
        BY DEF PairUnmapped, View
      <4>6. DecideFile(opts, sa, sb, NoEntry) = PairUnmapped(opts, na, nb)
        BY DEF DecideFile, DecidePair, NoEntry
      <4>7. QED
        BY <4>1, <4>2, <4>3, <4>4, <4>5, <4>6 DEF Idle
    <3>2. CASE RemoveFile(p)
      <4>1. /\ plan[p] \in {"DeleteA", "DeleteB"} /\ plan'[p] = "Forget" /\ phase = "run"
            /\ file' = [file EXCEPT ![IF plan[p] = "DeleteA" THEN "a" ELSE "b"][p] = NoFile]
        BY <1>t, <3>2 DEF RemoveFile, IsNext, TypeOK
      <4>2. ~file'["a"][p].present /\ ~file'["b"][p].present
        <5>1. /\ plan[p] = "DeleteA" => ~file["b"][p].present
              /\ plan[p] = "DeleteB" => ~file["a"][p].present
          BY <2>1, <4>1 DEF QuietRunSettles, Running
        <5>2. QED
          BY <1>t, <4>1, <5>1, NoCopyFields DEF TypeOK, Side
      <4>3. Idle(p, NoEntry)'
        BY <4>2, StampFields DEF Idle, DecideFile, DecidePair, PairUnmapped, View, NoEntry
      <4>4. QED
        BY <4>1, <4>3
    <3>3. CASE Forget(p)
      <4>1. /\ plan[p] = "Forget" /\ plan'[p] = "None" /\ archive'[p] = NoEntry
            /\ phase = "run" /\ UNCHANGED <<file, opts>>
        BY <1>t, <3>3 DEF Forget, IsNext, TypeOK
      <4>2. Idle(p, NoEntry)
        BY <2>1, <4>1 DEF QuietRunSettles, Running
      <4>3. QED
        BY <4>1, <4>2 DEF Idle
    <3>4. CASE /\ phase = "written" /\ p = cur.path /\ UNCHANGED opts
               /\ plan'[p] = "None" /\ archive'[p] = Copied(cur.source, cur.dest)
               /\ cur.dest.present /\ SourceVerified /\ UNCHANGED <<file, quiet>>
      <4>1. /\ \A s \in Side : /\ file[s][p].present
                               /\ StampOf(file[s][p]) = Copied(cur.source, cur.dest)[s]
            /\ Copied(cur.source, cur.dest).mapped
        BY <1>t, <2>1, <3>4, RecordAgrees
      <4> DEFINE e == Copied(cur.source, cur.dest)
                 va == View(StampOf(file["a"][p]), e, e.a)
                 vb == View(StampOf(file["b"][p]), e, e.b)
      <4>2. va.present /\ ~va.changed /\ vb.present /\ ~vb.changed
        BY <4>1, StampFields DEF View, Side
      <4>3. DecidePair(opts, va, vb, e.mapped) = "None"
        BY <4>1, <4>2 DEF DecidePair, PairBoth
      <4>4. QED
        BY <3>4, <4>3 DEF Idle, DecideFile
    <3>5. CASE /\ Running /\ UNCHANGED opts /\ plan'[p] = plan[p]
               /\ ~MakePlan /\ ~RemoveFile(p) /\ ~Forget(p)
      <4>1. ASSUME NEW s \in Side, plan[p] \notin WritesSide(s)
            PROVE  file'[s][p] = file[s][p]
        BY <2>1, <4>1, SyncWrites
      <4>2. plan[p] \notin {"CopyToA", "CopyToB"} => archive'[p] = archive[p]
        <5>1. SUFFICES ASSUME plan[p] \notin {"CopyToA", "CopyToB"}, archive'[p] # archive[p]
                       PROVE  FALSE
          OBVIOUS
        <5>2. phase = "written" /\ p = cur.path
          BY <1>t, <3>5, <5>1, EntryChange
        <5>3. QED
          BY <1>t, <5>1, <5>2 DEF PlanRespectsMode, Transferring
      <4>3. /\ plan[p] \in {"None", "Conflict"} => Idle(p, archive[p])
            /\ plan[p] = "Forget" => Idle(p, NoEntry)
            /\ plan[p] = "DeleteA" => ~file["b"][p].present
            /\ plan[p] = "DeleteB" => ~file["a"][p].present
        BY <2>1, <3>5 DEF QuietRunSettles
      <4>4. /\ plan[p] \in {"None", "Conflict", "Forget", "DeleteB"} => file'["a"][p] = file["a"][p]
            /\ plan[p] \in {"None", "Conflict", "Forget", "DeleteA"} => file'["b"][p] = file["b"][p]
        BY <4>1 DEF WritesSide, WritesA, WritesB, Side
      <4>5. QED
        BY <3>5, <4>2, <4>3, <4>4 DEF Idle
    <3>6. QED
      BY <1>t, <2>4, <3>1, <3>2, <3>3, <3>4, <3>5, PlanChange
  <2>5. QED
    BY <2>2, <2>3, <2>4 DEF QuietRunSettles
<1>3. QED
  BY <1>1, <1>2

\* ---------------------------------------------------------------------
\* The invariant of all of it.

LEMMA PresentStep ==
  ASSUME TypeOK, TypeOK', CopyOK, StampsArePast, WholeIsPresent, [Next]_vars
  PROVE  WholeIsPresent'
<1> USE DEF ghosts, syncVars
<1> SUFFICES ASSUME NEW s \in Side, NEW p \in Path, file'[s][p] # file[s][p], file'[s][p].whole
             PROVE  file'[s][p].present
  BY DEF WholeIsPresent
<1>1. CASE Truncate \/ Fill
  <2>1. PICK f \in File : Put(cur.to, cur.path, f) /\ f.present = cur.data.present
    BY <1>1, SyncPut
  <2>2. cur.data.present
    BY <1>1, SyncPut DEF CopyOK, CopyReadsSource
  <2>3. ChangesOnly(cur.to, cur.path) /\ file'[cur.to][cur.path].present = cur.data.present
    BY <2>1, PutEffect, CopyType
  <2>4. s = cur.to /\ p = cur.path
    BY <2>3 DEF ChangesOnly
  <2>5. QED
    BY <2>2, <2>3, <2>4
<1>2. ASSUME NEW r \in Side, NEW q \in Path, UserWrite(r, q) PROVE file'[s][p].present
  <2>1. PICK f \in File : Put(r, q, f) /\ f.present
    BY <1>2, UserPut
  <2>2. QED
    BY <2>1, PutEffect DEF ChangesOnly
<1>3. ASSUME NEW r \in Side, NEW q \in Path, file' = [file EXCEPT ![r][q] = NoFile] PROVE FALSE
  BY <1>3, RemoveEffect, NoCopyFields DEF ChangesOnly
<1>4. ASSUME NEW r \in Side, NEW q \in Path, UserRemove(r, q) PROVE FALSE
  BY <1>3, <1>4 DEF UserRemove
<1>5. ASSUME NEW q \in Path, RemoveFile(q) PROVE FALSE
  <2>1. (IF plan[q] = "DeleteA" THEN "a" ELSE "b") \in Side
    BY DEF Side
  <2>2. QED
    BY <1>3, <1>5, <2>1 DEF RemoveFile
<1>6. QED
  BY <1>1, <1>2, <1>4, <1>5 DEF Next, SyncStep, UserStep, Scan, MakePlan, StartCopy, Forget,
     StatSource, ReadSource, VerifyBeforeWrite, StatDestination, VerifyAndRecord, Finish,
     Crash, Fail, vars

ArchiveInv ==
  /\ IInv
  /\ StampsArePast
  /\ CopyOK
  /\ WholeIsPresent
  /\ ListedAsRecorded
  /\ WantedIsOnBothSides
  /\ QuietRunSettles
  /\ QuietDestination => ArchiveVouches

LEMMA InitArchive == Init => ArchiveInv
<1> SUFFICES ASSUME Init PROVE ArchiveInv
  OBVIOUS
<1>t. TypeOK
  BY InitType
<1>1. IInv
  BY <1>t DEF Init, IInv, PlanRespectsMode, SkipPlanIsFresh, Running, Transferring
<1>2. \A s \in Side, p \in Path :
        /\ file[s][p].mtime = 0
        /\ file[s][p].whole => file[s][p].present
        /\ file[s][p].ver <= 2 * NumPaths
  <2>1. PICK fa \in [Path -> BOOLEAN], fb \in [Path -> {"none", "own", "copy"}] :
          file = [s \in Side |-> [p \in Path |->
            CASE s = "a" /\ fa[p]          -> InitialFile(p)
              [] s = "b" /\ fb[p] = "own"  -> InitialFile(NumPaths + p)
              [] s = "b" /\ fb[p] = "copy" -> InitialFile(p)
              [] OTHER                     -> NoFile]]
    BY DEF Init
  <2>2. \A p \in Path : p \in 1..NumPaths /\ NumPaths \in Nat
    BY FilesAssumption DEF Path
  <2>3. ASSUME NEW s \in Side, NEW p \in Path
        PROVE  file[s][p] \in {InitialFile(p), InitialFile(NumPaths + p), NoFile}
    BY <2>1
  <2>4. ASSUME NEW v \in 0..(2 * NumPaths)
        PROVE  /\ InitialFile(v).mtime = 0 /\ InitialFile(v).present
               /\ InitialFile(v).ver <= 2 * NumPaths
    BY <2>4, FilesAssumption DEF InitialFile
  <2>5. QED
    BY <2>2, <2>3, <2>4, NoCopyFields
<1>3. /\ \A s \in Side : clock[s] = 0
      /\ \A p \in Path : archive[p] = NoEntry /\ ~NoEntry.mapped
      /\ NoEntry["a"].mtime = 0 /\ NoEntry["b"].mtime = 0
      /\ phase = "idle" /\ cur = NoCopy /\ edits = 0
  BY NoCopyFields DEF Init, NoEntry
<1>4. StampsArePast
  <2>1. /\ \A s \in Side, p \in Path : /\ file[s][p].mtime <= clock[s]
                                       /\ archive[p][s].mtime <= clock[s]
                                       /\ file[s][p].ver <= 2 * NumPaths + edits
    BY <1>2, <1>3, <1>t, FilesAssumption DEF Side, TypeOK, File, Version
  <2>2. Other(cur.to) \in Side /\ cur.to \in Side
    BY <1>t, CopyType
  <2>3. QED
    BY <1>3, <2>1, <2>2, NoCopyFields, FilesAssumption DEF StampsArePast
<1>5. CopyOK
  BY <1>3, NoCopyFields DEF CopyOK, CopyReadsSource, CopyStays
<1>6. \A s \in Side, p \in Path : ~Recorded(s, p)
  BY <1>3 DEF Recorded
<1>7. QED
  BY <1>1, <1>2, <1>3, <1>4, <1>5, <1>6 DEF ArchiveInv, WholeIsPresent, ListedAsRecorded,
     WantedIsOnBothSides, Wanted, QuietRunSettles, Running, Transferring, ArchiveVouches, Recorded

LEMMA StepArchive == ArchiveInv /\ [Next]_vars => ArchiveInv'
<1> SUFFICES ASSUME ArchiveInv, [Next]_vars PROVE ArchiveInv'
  OBVIOUS
<1>1. IInv' /\ TypeOK /\ TypeOK' /\ PlanRespectsMode
  BY TypeStep, ModeStep, SkipStep DEF ArchiveInv, IInv
<1>2. StampsArePast' /\ CopyOK' /\ WholeIsPresent' /\ ListedAsRecorded'
  BY <1>1, PastStep, CopyStep, PresentStep, ListedStep DEF ArchiveInv
<1>3. WantedIsOnBothSides' /\ QuietRunSettles'
  BY <1>1, WantedStep, SettleStep DEF ArchiveInv
<1>4. QuietDestination => ArchiveVouches'
  BY <1>1, VouchStep DEF ArchiveInv
<1>5. QED
  BY <1>1, <1>2, <1>3, <1>4 DEF ArchiveInv

\* The invariant of the archive: saved stamps are past, a copy in progress is of
\* what was checked, and what a quiet run recorded is settled (execute_files).
THEOREM ArchiveInvariant == Spec => []ArchiveInv
<1>1. QED
  BY InitArchive, StepArchive, PTL DEF Spec

\* ---------------------------------------------------------------------

\* While users leave alone what a running plan writes, an entry whose stamps
\* match both trees is about equal contents: a source edited during its own
\* copy is never vouched for.
THEOREM VouchedFilesAreEqual ==
  ASSUME QuietDestination
  PROVE  Spec => []ArchiveVouches
<1>1. ArchiveInv => ArchiveVouches
  BY DEF ArchiveInv
<1>2. QED
  BY <1>1, ArchiveInvariant, PTL

\* Whatever came before, a run that nobody disturbed leaves a second run
\* nothing to do but to report the same conflicts.
THEOREM UndisturbedRunSettles == Spec => []SecondRunIdle
<1>1. ArchiveInv => SecondRunIdle
  <2>1. \A p \in Path : PlanFiles(opts, Snapshot("a"), Snapshot("b"), archive)[p]
          = DecideFile(opts, StampOf(file["a"][p]), StampOf(file["b"][p]), archive[p])
    BY DEF PlanFiles, Snapshot
  <2>2. QED
    BY <2>1 DEF ArchiveInv, QuietRunSettles, Idle, SecondRunIdle
<1>2. QED
  BY <1>1, ArchiveInvariant, PTL

\* A step of the sync process under the skip policy, for one version.
LEMMA SkipKeepsVersion ==
  ASSUME ArchiveInv, [Next]_vars, QuietDestination, \E o \in Options : o.delete,
         edits' = edits, opts.conflict = "Skip", NEW v \in live, Whole(v)
  PROVE  Whole(v)'
<1>t. TypeOK /\ PlanRespectsMode /\ SkipPlanIsFresh /\ IInv
  BY DEF ArchiveInv, IInv
<1>1. PICK s \in Side, p \in Path : file[s][p].ver = v /\ file[s][p].whole
  BY DEF Whole
<1>2. CASE file'[s][p] = file[s][p]
  BY <1>1, <1>2 DEF Whole
<1>3. CASE file'[s][p] # file[s][p]
  <2>1. Running /\ plan[p] \in WritesSide(s) /\ (Written(p) => phase = "fill")
    BY <1>3, <1>t, SyncWrites
  <2>2. ~Written(p)
    <3>1. ASSUME Written(p) PROVE FALSE
      <4>1. phase = "fill" /\ p = cur.path /\ phase \in Transferring
        BY <2>1, <3>1 DEF Written, Transferring
      <4>2. s = cur.to
        BY <1>t, <2>1, <4>1, CopyType DEF PlanRespectsMode, WritesSide, WritesA, WritesB, Side
      <4>3. ~Destination.whole
        BY <4>1 DEF ArchiveInv, CopyOK, CopyStays
      <4>4. QED
        BY <1>1, <4>1, <4>2, <4>3 DEF Destination
    <3>2. QED
      BY <3>1
  <2>3. Recorded(s, p)
    BY <1>1, <1>t, <2>1, <2>2
       DEF SkipPlanIsFresh, UnchangedSinceSync, ArchiveInv, WholeIsPresent, Recorded
  <2>4. plan[p] \in {"None", "Conflict"}
    BY <1>1, <2>1, <2>3 DEF ArchiveInv, WantedIsOnBothSides, Wanted
  <2>5. QED
    BY <2>1, <2>4 DEF WritesSide, WritesA, WritesB
<1>4. QED
  BY <1>2, <1>3

\* The default policy "loses nothing" (sync.rs:1047): no step of a run under
\* it destroys the last whole copy of a version the users have not given up.
\* Removing a file gives its version up when runs may propagate deletions.
THEOREM SkipKeepsVersions ==
  ASSUME QuietDestination, \E o \in Options : o.delete
  PROVE  Spec => SkipLosesNothing
<1>1. ASSUME ArchiveInv, [Next]_vars
      PROVE  [edits' = edits /\ opts.conflict = "Skip" =>
                \A v \in live : Whole(v) => Whole(v)']_vars
  BY <1>1, SkipKeepsVersion
<1>2. QED
  BY <1>1, ArchiveInvariant, PTL DEF Spec, SkipLosesNothing

\* When every run is under it, all of them are there at any time.
THEOREM NothingIsLost ==
  ASSUME QuietDestination, \E o \in Options : o.delete, \A o \in Options : o.conflict = "Skip"
  PROVE  Spec => []NoVersionLost
<1>1. Init => NoVersionLost
  <2> SUFFICES ASSUME Init PROVE NoVersionLost
    OBVIOUS
  <2>1. live = {file[s][p].ver : s \in Side, p \in Path} \ {0}
    BY DEF Init
  <2>2. ASSUME NEW s \in Side, NEW p \in Path, file[s][p].ver # 0
        PROVE  file[s][p].whole
    <3>1. PICK fa \in [Path -> BOOLEAN], fb \in [Path -> {"none", "own", "copy"}] :
            file = [r \in Side |-> [q \in Path |->
              CASE r = "a" /\ fa[q]          -> InitialFile(q)
                [] r = "b" /\ fb[q] = "own"  -> InitialFile(NumPaths + q)
                [] r = "b" /\ fb[q] = "copy" -> InitialFile(q)
                [] OTHER                     -> NoFile]]
      BY DEF Init
    <3>2. file[s][p] \in {InitialFile(p), InitialFile(NumPaths + p), NoFile}
      BY <3>1
    <3>3. QED
      BY <2>2, <3>2, NoCopyFields DEF InitialFile
  <2>3. QED
    BY <2>1, <2>2 DEF NoVersionLost, Whole
<1>2. ASSUME ArchiveInv, NoVersionLost, [Next]_vars PROVE NoVersionLost'
  <2>t. TypeOK /\ StampsArePast
    BY <1>2 DEF ArchiveInv, IInv
  <2>t1. TypeOK'
    BY <1>2, <2>t, TypeStep
  <2> SUFFICES ASSUME NEW v \in live' PROVE Whole(v)'
    BY DEF NoVersionLost
  <2>1. CASE edits' = edits
    <3>0. ~UserStep
      BY <2>1, <2>t, <2>t1, UserEdit DEF UserStep, TypeOK
    <3>1. live' = live
      BY <1>2, <3>0 DEF Next, SyncStep, Scan, MakePlan, StartCopy, RemoveFile, Forget,
         StatSource, ReadSource, VerifyBeforeWrite, Truncate, Fill, StatDestination,
         VerifyAndRecord, Finish, Crash, Fail, Advance, ghosts, vars
    <3>2. opts.conflict = "Skip"
      BY <2>t DEF TypeOK
    <3>3. QED
      BY <1>2, <2>1, <3>1, <3>2, SkipKeepsVersion DEF NoVersionLost
  <2>2. ASSUME NEW s \in Side, NEW p \in Path, UserWrite(s, p) \/ UserRemove(s, p)
        PROVE  Whole(v)'
    <3>1. CASE v \in live
      <4>1. PICK r \in Side, q \in Path : file[r][q].ver = v /\ file[r][q].whole
        BY <1>2, <3>1 DEF NoVersionLost, Whole
      <4>2. ~(r = s /\ q = p)
        BY <2>2, <2>t, <4>1, EditGivesUp
      <4>3. file'[r][q] = file[r][q]
        BY <2>2, <2>t, <2>t1, <4>2, UserEdit DEF ChangesOnly
      <4>4. QED
        BY <4>1, <4>3 DEF Whole
    <3>2. CASE v \notin live
      <4>1. UserWrite(s, p) /\ v = 2 * NumPaths + edits + 1
        BY <2>2, <2>t, <3>2, UserPut DEF UserRemove
      <4>2. PICK f \in File : Put(s, p, f) /\ f.whole /\ f.ver = v
        BY <2>t, <4>1, UserPut
      <4>3. file'[s][p].ver = v /\ file'[s][p].whole
        BY <2>t, <4>2, PutEffect
      <4>4. QED
        BY <4>3 DEF Whole
    <3>3. QED
      BY <3>1, <3>2
  <2>3. CASE edits' # edits
    <3>1. UserStep
      BY <1>2, <2>3 DEF Next, SyncStep, Scan, MakePlan, StartCopy, RemoveFile, Forget,
         StatSource, ReadSource, VerifyBeforeWrite, Truncate, Fill, StatDestination,
         VerifyAndRecord, Finish, Crash, Fail, Advance, vars
    <3>2. QED
      BY <2>2, <3>1 DEF UserStep
  <2>4. QED
    BY <2>1, <2>3
<1>3. QED
  BY <1>1, <1>2, ArchiveInvariant, PTL DEF Spec

\* ---------------------------------------------------------------------
\* What a finished run promises.

\* Where the winner of a conflict may write, the table rests only on paths
\* that are on neither side, or recorded on both.
LEMMA TableMirrors ==
  ASSUME NEW o \in SyncOptions, NEW a \in SideView, NEW b \in SideView, NEW mapped \in BOOLEAN,
         DecidePair(o, a, b, mapped) \in {"None", "Conflict"},
         \/ o.mode = "TwoWay" /\ o.conflict # "Skip"
         \/ o.mode = "Push" /\ o.conflict = "PreferLocal" /\ a.present /\ ~o.delete
         \/ o.mode = "Pull" /\ o.conflict = "PreferRemote" /\ b.present /\ ~o.delete
  PROVE  \/ ~a.present /\ ~b.present
         \/ mapped /\ a.present /\ b.present /\ ~a.changed /\ ~b.changed
<1> DEFINE d == DecidePair(o, a, b, mapped)
<1>a. /\ a.present \in BOOLEAN /\ b.present \in BOOLEAN
      /\ a.changed \in BOOLEAN /\ b.changed \in BOOLEAN /\ o.delete \in BOOLEAN
      /\ o.mode \in Mode /\ o.conflict \in ConflictPolicy
      /\ a.ms \in Int /\ b.ms \in Int
  BY DEF SideView, SyncOptions
<1>w. /\ CanWriteRemote(o.mode) <=> o.mode # "Pull"
      /\ CanWriteLocal(o.mode) <=> o.mode # "Push"
  BY <1>a DEF CanWriteRemote, CanWriteLocal, Mode
<1>r. /\ o.conflict # "Skip"
      /\ o.conflict = "PreferLocal" => \A x, y : Winner(o.conflict, x, y) = "Local"
      /\ o.conflict = "PreferRemote" => \A x, y : Winner(o.conflict, x, y) = "Remote"
      /\ \A x, y \in Int : Winner(o.conflict, x, y) \in {"Local", "Remote"}
  BY <1>a DEF Winner, ConflictPolicy
<1>d. DeletedMs \in Int
  BY DEF DeletedMs
<1>1. CASE mapped /\ a.present /\ b.present
  <2>1. d = PairBoth(o, a, b)
    BY <1>1 DEF DecidePair
  <2>2. ~a.changed /\ ~b.changed
    BY <1>a, <1>w, <1>r, <2>1 DEF PairBoth, Resolve, Allow
  <2>3. QED
    BY <1>1, <2>2
<1>2. CASE mapped /\ a.present /\ ~b.present
  <2>1. d = PairBGone(o, a)
    BY <1>2 DEF DecidePair
  <2>2. FALSE
    BY <1>2, <1>a, <1>d, <1>w, <1>r, <2>1 DEF PairBGone, Resolve, Allow
  <2>3. QED
    BY <2>2
<1>3. CASE mapped /\ ~a.present /\ b.present
  <2>1. d = PairAGone(o, b)
    BY <1>3 DEF DecidePair
  <2>2. FALSE
    BY <1>3, <1>a, <1>d, <1>w, <1>r, <2>1 DEF PairAGone, Resolve, Allow
  <2>3. QED
    BY <2>2
<1>4. CASE ~mapped /\ (a.present \/ b.present)
  <2>1. d = PairUnmapped(o, a, b)
    BY <1>4 DEF DecidePair
  <2>2. FALSE
    BY <1>4, <1>a, <1>w, <1>r, <2>1 DEF PairUnmapped, Resolve, Allow
  <2>3. QED
    BY <2>2
<1>5. QED
  BY <1>1, <1>2, <1>3, <1>4, <1>a

\* An undisturbed run leaves the two trees equal wherever its mode and policy
\* say which side wins.
THEOREM FinishedRunsAgree ==
  ASSUME QuietDestination
  PROVE  Spec => []FinishedRunAgrees
<1>1. ArchiveInv => FinishedRunAgrees
  <2> SUFFICES ASSUME ArchiveInv, phase = "done", quiet, NEW p \in Path, Mirrored(p),
                      opts.delete => opts.mode = "TwoWay"
               PROVE  Same(file["a"][p], file["b"][p])
    BY DEF FinishedRunAgrees
  <2> DEFINE e == archive[p]
             va == View(StampOf(file["a"][p]), e, e.a)
             vb == View(StampOf(file["b"][p]), e, e.b)
  <2>1. /\ opts \in SyncOptions /\ e \in Entry
        /\ file["a"][p] \in File /\ file["b"][p] \in File
    BY FilesAssumption DEF ArchiveInv, IInv, TypeOK, Side
  <2>2. va \in SideView /\ vb \in SideView /\ e.mapped \in BOOLEAN
    BY <2>1, StampType DEF View, SideView, Stamp, Entry
  <2>3. va.present = file["a"][p].present /\ vb.present = file["b"][p].present
    BY StampFields DEF View
  <2>4. DecidePair(opts, va, vb, e.mapped) \in {"None", "Conflict"}
    BY DEF ArchiveInv, QuietRunSettles, Idle, DecideFile
  <2>5. \/ ~va.present /\ ~vb.present
        \/ e.mapped /\ va.present /\ vb.present /\ ~va.changed /\ ~vb.changed
    <3>1. \/ opts.mode = "TwoWay" /\ opts.conflict # "Skip"
          \/ opts.mode = "Push" /\ opts.conflict = "PreferLocal" /\ va.present /\ ~opts.delete
          \/ opts.mode = "Pull" /\ opts.conflict = "PreferRemote" /\ vb.present /\ ~opts.delete
      BY <2>3 DEF Mirrored
    <3>2. QED
      BY <2>1, <2>2, <2>4, <3>1, TableMirrors
  <2>6. CASE ~va.present /\ ~vb.present
    BY <2>1, <2>3, <2>6 DEF Same, File
  <2>7. CASE e.mapped /\ va.present /\ vb.present /\ ~va.changed /\ ~vb.changed
    <3>1. StampOf(file["a"][p]) = e.a /\ StampOf(file["b"][p]) = e.b
      BY <2>7 DEF View
    <3>2. QED
      BY <2>3, <2>7, <3>1 DEF ArchiveInv, ArchiveVouches
  <2>8. QED
    BY <2>5, <2>6, <2>7
<1>2. QED
  BY <1>1, ArchiveInvariant, PTL
=============================================================================

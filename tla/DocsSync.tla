------------------------------ MODULE DocsSync ------------------------------
(***************************************************************************)
(* Tablet <-> tablet sync: run_docs_sync (rmu/src/main.rs), plan_docs and  *)
(* execute_docs (sync.rs), while the users of both tablets keep working    *)
(* and runs are interrupted.                                               *)
(*                                                                         *)
(* Updating a document replaces it: the source is downloaded as a bundle,  *)
(* the old document deleted, the bundle restored under a fresh uuid, the   *)
(* pair state saved: four effects an interruption can fall between.  The   *)
(* bundle's metadata is extracted last, so a restore happens or leaves     *)
(* invisible files only.  Pair state is saved by an atomic rename: `state` *)
(* is the file.                                                            *)
(*                                                                         *)
(* Bounds: NumDocs and NumFolders uuids per tablet, MaxEdits user steps,   *)
(* MaxCrashes interruptions.                                               *)
(***************************************************************************)
EXTENDS DocsPlan, Naturals

CONSTANTS
  Options,        \* The option sets the user runs the sync with.
  TabletActs,     \* What the users do: annotate, create, remove, move, mkdir, rmdir.
  InitialDocs,    \* What a key of tablet b holds at first: none, own, copy (of a's).
  MaxEdits,       \* Bound on user steps.
  MaxCrashes,     \* Bound on interruptions.
  QuietRuns       \* Do users leave alone what a running plan will write?

ASSUME DocsAssumption ==
  /\ Options \subseteq SyncOptions
  /\ TabletActs \subseteq {"annotate", "create", "remove", "move", "mkdir", "rmdir"}
  /\ InitialDocs \subseteq {"none", "own", "copy"}
  /\ MaxEdits \in Nat /\ MaxCrashes \in Nat
  /\ QuietRuns \in BOOLEAN

VARIABLES
  doc,       \* doc[s][u]: document u of tablet s
  folders,   \* folders[s]: the uuids of the subfolders of tablet s
  clock,     \* clock[s]: the last lastModified given on tablet s
  state,     \* state[k]: the pair-state entry of key k
  phase,     \* where the sync process is
  opts,      \* options of the current (or last) run
  listA,     \* tablet a's listing, taken before tablet b's
  plan,      \* plan[k]: what is left to do for key k
  mkdir,     \* the sides on which the subfolder is still to be created
  parent,    \* parent[s]: the run's folders_a, folders_b: the subfolder's uuid or 0
  cur,       \* the action in progress
  modified,  \* the outcome's modified_a, modified_b
  unseen,    \* tablets this run changed whose UI has not re-read it yet
  edits,     \* user steps so far
  crashes,   \* interruptions so far
  live,      \* ghost: versions users wrote and did not replace or delete
  wanted,    \* ghost: keys present at first that no user removed or moved away
  quiet      \* ghost: no user step or interruption since the run began

tablets == <<doc, folders, clock>>
process == <<phase, opts, listA, plan, mkdir, parent, cur, modified, unseen>>
ghosts == <<live, wanted, quiet>>
vars == <<tablets, state, process, edits, crashes, ghosts>>

Version == 0..(2 * NumKeys + MaxEdits)
Doc == [present : BOOLEAN, key : Key, home : FolderId \cup {0}, ver : Version, lm : Nat]
NoDoc == [present |-> FALSE, key |-> 1, home |-> 0, ver |-> 0, lm |-> 0]

Entry == [mapped : BOOLEAN, uuid : [Side -> DocId \cup {0}], lm : [Side -> Nat]]
NoEntry == [mapped |-> FALSE, uuid |-> [s \in Side |-> 0], lm |-> [s \in Side |-> 0]]

Action == [key : Key, ver : Version, uuid : DocId \cup {0}, lm : Nat]
NoAction == [key |-> 1, ver |-> 0, uuid |-> 0, lm |-> 0]
NothingPlanned == [k \in Key |-> NoItem]

Listing(s) == ListingOf(doc[s], folders[s])

\* A new uuid is one that nothing refers to any more.
Mentioned(s) ==
  {u \in DocId : doc[s][u].present}
  \cup {state[k].uuid[s] : k \in Key}
  \cup {plan[k].uuid : k \in Key} \cup {plan[k].replace : k \in Key}
  \cup {listA.uuid[k] : k \in Key} \cup listA.excludedUuids \cup {cur.uuid}
NewDocIds(s) == {u \in DocId \ Mentioned(s) : \A v \in 1..(u - 1) : v \in Mentioned(s)}
NewFolderIds(s) ==
  LET used == folders[s] \cup {doc[s][u].home : u \in DocId} \cup {parent[s]} IN
  {f \in FolderId \ used : \A g \in 1..(f - 1) : g \in used}

-----------------------------------------------------------------------------
\* run_docs_sync up to the plan; both listings bypass the listing cache.

Scan(o) ==
  /\ phase \in {"idle", "done"}
  /\ phase' = "scanned"
  /\ opts' = o
  /\ listA' = Listing("a")
  /\ quiet' = TRUE
  /\ UNCHANGED <<tablets, state, plan, mkdir, parent, cur, modified, unseen, edits, crashes,
                 live, wanted>>

MakePlan ==
  /\ phase = "scanned"
  /\ phase' = "run"
  /\ LET list == [s \in Side |-> IF s = "a" THEN listA ELSE Listing("b")]
         items == PlanDocs(opts, list, state)
     IN /\ plan' = items
        /\ mkdir' = FoldersNeeded(list, items)
        /\ parent' = [s \in Side |-> list[s].folder]
  /\ listA' = NoListing
  /\ UNCHANGED <<tablets, state, opts, cur, modified, unseen, edits, crashes, ghosts>>

\* Folders first (b's, then a's), then copies, deletes and forgets, by key.
Pending(ops) == {k \in Key : plan[k].op \in ops}
Work == Pending(Copies \cup Deletes \cup {"Forget"})
IsFirst(k, ops) == k \in Pending(ops) /\ \A j \in Pending(ops) : k <= j
IsNext(k, ops) ==
  /\ phase = "run" /\ mkdir = {}
  /\ IsFirst(k, ops)
  /\ ops \cap Copies = {} => Pending(Copies) = {}
  /\ ops = {"Forget"} => Pending(Deletes) = {}

EndRun(how) ==
  /\ phase' = how
  /\ listA' = NoListing
  /\ plan' = NothingPlanned
  /\ mkdir' = {}
  /\ parent' = [s \in Side |-> 0]
  /\ cur' = NoAction
  /\ modified' = {}
  /\ unseen' = {}
  /\ UNCHANGED opts

\* An error return ends the run, without a restart.
Fail ==
  /\ EndRun("idle")
  /\ UNCHANGED <<tablets, state, edits, crashes, ghosts>>

-----------------------------------------------------------------------------
\* execute_docs, one action per effect.

CreateFolder(s) ==
  /\ phase = "run"
  /\ s \in mkdir
  /\ s = "a" => "b" \notin mkdir
  /\ \E f \in NewFolderIds(s) :
       /\ folders' = [folders EXCEPT ![s] = @ \cup {f}]
       /\ parent' = [parent EXCEPT ![s] = f]
  /\ mkdir' = mkdir \ {s}
  /\ modified' = modified \cup {s}
  /\ unseen' = unseen \cup {s}
  /\ UNCHANGED <<doc, clock, state, phase, opts, listA, plan, cur, edits, crashes, ghosts>>

CurItem == plan[cur.key]
To == Target(CurItem.op)

Advance(next, action) ==
  /\ phase' = next
  /\ cur' = action
  /\ UNCHANGED <<folders, state, opts, listA, plan, mkdir, parent, modified, edits, crashes, ghosts>>

\* The source is fetched by uuid, wherever its user has put it meanwhile.
DownloadBundle(k) ==
  /\ IsNext(k, Copies)
  /\ LET source == doc[Other(Target(plan[k].op))][plan[k].uuid] IN
     \/ /\ source.present
        /\ Advance("fetched", [NoAction EXCEPT !.key = k, !.ver = source.ver])
        /\ UNCHANGED <<doc, clock, unseen>>
     \/ ~source.present /\ Fail

\* Mutant of DeleteReplaced: what is there stays.
KeepReplaced ==
  /\ phase = "fetched"
  /\ Advance("replaced", cur)
  /\ UNCHANGED <<doc, clock, unseen>>

\* Deleting what is gone already succeeds.
DeleteReplaced ==
  /\ phase = "fetched"
  /\ IF CurItem.replace = 0
     THEN UNCHANGED <<doc, unseen>>
     ELSE /\ doc' = [doc EXCEPT ![To][CurItem.replace] = NoDoc]
          /\ unseen' = unseen \cup {To}
  /\ Advance("replaced", cur)
  /\ UNCHANGED clock

ParentOf(s, k) == IF k \in FolderKeys THEN parent[s] ELSE 0

RestoreBundle ==
  /\ phase = "replaced"
  /\ LET lm == clock[To] + 1 IN
     \E u \in NewDocIds(To) :
       /\ doc' = [doc EXCEPT ![To][u] =
            [present |-> TRUE, key |-> cur.key, home |-> ParentOf(To, cur.key),
             ver |-> cur.ver, lm |-> lm]]
       /\ clock' = [clock EXCEPT ![To] = lm]
       /\ unseen' = unseen \cup {To}
       /\ Advance("restored", [cur EXCEPT !.uuid = u, !.lm = lm])

Save(k, entry) ==
  /\ state' = [state EXCEPT ![k] = entry]
  /\ plan' = [plan EXCEPT ![k] = NoItem]
  /\ cur' = NoAction
  /\ phase' = "run"
  /\ UNCHANGED <<tablets, opts, listA, mkdir, parent, unseen, edits, crashes, ghosts>>

\* Mutant of RecordCopy: the source is recorded as it is now.
RecordLateTime ==
  /\ phase = "restored"
  /\ Save(cur.key,
       [mapped |-> TRUE,
        uuid |-> [s \in Side |-> IF s = To THEN cur.uuid ELSE CurItem.uuid],
        lm |-> [s \in Side |-> IF s = To THEN cur.lm ELSE doc[s][CurItem.uuid].lm]])
  /\ modified' = modified \cup {To}

\* Mutant of RecordCopy: only a is remembered as modified.
RecordCopyForgetsB ==
  /\ phase = "restored"
  /\ Save(cur.key,
       [mapped |-> TRUE,
        uuid |-> [s \in Side |-> IF s = To THEN cur.uuid ELSE CurItem.uuid],
        lm |-> [s \in Side |-> IF s = To THEN cur.lm ELSE CurItem.lm]])
  /\ modified' = IF To = "a" THEN modified \cup {To} ELSE modified

\* The source is recorded as listed, the destination as restored.
RecordCopy ==
  /\ phase = "restored"
  /\ Save(cur.key,
       [mapped |-> TRUE,
        uuid |-> [s \in Side |-> IF s = To THEN cur.uuid ELSE CurItem.uuid],
        lm |-> [s \in Side |-> IF s = To THEN cur.lm ELSE CurItem.lm]])
  /\ modified' = modified \cup {To}

DeleteDocument(k) ==
  /\ IsNext(k, Deletes)
  /\ LET s == Target(plan[k].op) IN
     /\ doc' = [doc EXCEPT ![s][plan[k].uuid] = NoDoc]
     /\ unseen' = unseen \cup {s}
  /\ Advance("deleted", [NoAction EXCEPT !.key = k])
  /\ UNCHANGED clock

RecordDelete ==
  /\ phase = "deleted"
  /\ Save(cur.key, NoEntry)
  /\ modified' = modified \cup {To}

ForgetEntry(k) ==
  /\ IsNext(k, {"Forget"})
  /\ Save(k, NoEntry)
  /\ UNCHANGED modified

\* Conflicts are only reported; then the modified tablets are restarted, a first.
PlanDone == phase = "run" /\ mkdir = {} /\ Work = {}

Restart(s) ==
  /\ PlanDone
  /\ s \in modified
  /\ s = "b" => "a" \notin modified
  /\ modified' = modified \ {s}
  /\ unseen' = unseen \ {s}
  /\ UNCHANGED <<tablets, state, phase, opts, listA, plan, mkdir, parent, cur, edits, crashes,
                 ghosts>>

\* A restart that fails ends the run; if it is a's, b is not restarted either.
RestartFails(s) ==
  /\ PlanDone
  /\ s \in modified
  /\ s = "b" => "a" \notin modified
  /\ Fail

Finish ==
  /\ PlanDone
  /\ modified = {}
  /\ EndRun("done")
  /\ UNCHANGED <<tablets, state, edits, crashes, ghosts>>

ExecuteStep ==
  \/ \E s \in Side : CreateFolder(s) \/ Restart(s) \/ RestartFails(s)
  \/ \E k \in Key : DownloadBundle(k) \/ DeleteDocument(k) \/ ForgetEntry(k)
  \/ DeleteReplaced
  \/ RestoreBundle
  \/ RecordCopy
  \/ RecordDelete
  \/ Finish

SyncStep == MakePlan \/ ExecuteStep

-----------------------------------------------------------------------------
\* The users of the tablets.

Running == phase \notin {"idle", "scanned", "done"}

\* The run has listed key k of side s and may still write it.
Targeted(s, k) ==
  \/ phase = "scanned" /\ s = "a" /\ CanWriteLocal(opts.mode)
  \/ Running /\ plan[k].op \in (IF s = "a" THEN WritesA ELSE WritesB)

Leaves(s, keys) == QuietRuns => \A k \in keys : ~Targeted(s, k)

UserMay(act) == act \in TabletActs /\ edits < MaxEdits

UserDid ==
  /\ edits' = edits + 1
  /\ quiet' = FALSE
  /\ UNCHANGED <<state, process, crashes>>

NewVersion == 2 * NumKeys + edits + 1

Holders(v) == {h \in Side \X DocId : doc[h[1]][h[2]].present /\ doc[h[1]][h[2]].ver = v}

\* A removed version is given up if nothing else has it, or if the runs
\* propagate deletions.
Discarded(v) ==
  IF Cardinality(Holders(v)) = 1 \/ \E o \in Options : o.delete THEN {v} ELSE {}

\* Where a user of tablet s can put a document named k.
HomesFor(s, k) == IF k \in FolderKeys THEN folders[s] ELSE {0}

Stamp(s) == clock' = [clock EXCEPT ![s] = @ + 1]

Annotate(s, u) ==
  /\ UserMay("annotate")
  /\ LET d == doc[s][u] IN
     /\ d.present /\ Leaves(s, {d.key})
     /\ doc' = [doc EXCEPT ![s][u] = [d EXCEPT !.ver = NewVersion, !.lm = clock[s] + 1]]
     /\ live' = (live \ {d.ver}) \cup {NewVersion}
  /\ Stamp(s)
  /\ UNCHANGED <<folders, wanted>>
  /\ UserDid

Create(s, k) ==
  /\ UserMay("create") /\ Leaves(s, {k})
  /\ \E u \in NewDocIds(s), home \in HomesFor(s, k) :
       doc' = [doc EXCEPT ![s][u] = [present |-> TRUE, key |-> k, home |-> home,
                                     ver |-> NewVersion, lm |-> clock[s] + 1]]
  /\ live' = live \cup {NewVersion}
  /\ Stamp(s)
  /\ UNCHANGED <<folders, wanted>>
  /\ UserDid

Remove(s, u) ==
  /\ UserMay("remove")
  /\ LET d == doc[s][u] IN
     /\ d.present /\ Leaves(s, {d.key})
     /\ live' = live \ Discarded(d.ver)
     /\ wanted' = wanted \ {d.key}
  /\ doc' = [doc EXCEPT ![s][u] = NoDoc]
  /\ UNCHANGED <<folders, clock>>
  /\ UserDid

\* A rename or a move: same uuid, a new lastModified.
MoveTo(s, u, k) ==
  /\ UserMay("move")
  /\ LET d == doc[s][u] IN
     /\ d.present /\ d.key # k /\ Leaves(s, {d.key, k})
     /\ \E home \in HomesFor(s, k) :
          doc' = [doc EXCEPT ![s][u] = [d EXCEPT !.key = k, !.home = home, !.lm = clock[s] + 1]]
     /\ wanted' = wanted \ {d.key}
  /\ Stamp(s)
  /\ UNCHANGED <<folders, live>>
  /\ UserDid

MakeFolder(s) ==
  /\ UserMay("mkdir") /\ Leaves(s, FolderKeys)
  /\ \E f \in NewFolderIds(s) : folders' = [folders EXCEPT ![s] = @ \cup {f}]
  /\ UNCHANGED <<doc, clock, live, wanted>>
  /\ UserDid

\* A folder goes with the documents in it.
RemoveFolder(s) ==
  /\ UserMay("rmdir") /\ Leaves(s, FolderKeys)
  /\ \E f \in folders[s] :
       LET inside == {u \in DocId : doc[s][u].present /\ doc[s][u].home = f} IN
       /\ folders' = [folders EXCEPT ![s] = @ \ {f}]
       /\ doc' = [doc EXCEPT ![s] = [u \in DocId |-> IF u \in inside THEN NoDoc ELSE @[u]]]
       /\ live' = live \ UNION {Discarded(doc[s][u].ver) : u \in inside}
       /\ wanted' = wanted \ {doc[s][u].key : u \in inside}
  /\ UNCHANGED clock
  /\ UserDid

UserStep ==
  \E s \in Side :
    \/ \E u \in DocId : Annotate(s, u) \/ Remove(s, u) \/ \E k \in Key : MoveTo(s, u, k)
    \/ \E k \in Key : Create(s, k)
    \/ MakeFolder(s) \/ RemoveFolder(s)

\* The process dies, a connection is lost, or a call fails.
Crash ==
  /\ phase \notin {"idle", "done"}
  /\ crashes < MaxCrashes
  /\ crashes' = crashes + 1
  /\ EndRun("idle")
  /\ quiet' = FALSE
  /\ UNCHANGED <<tablets, state, edits, live, wanted>>

-----------------------------------------------------------------------------
\* A first sync: any documents, no pair state; a folder where a document needs
\* one.
InitialDoc(k, v, home) == [present |-> TRUE, key |-> k, home |-> home, ver |-> v, lm |-> 0]

Init ==
  /\ \E onA \in SUBSET Key, onB \in [Key -> InitialDocs] :
       LET held == [s \in Side |-> IF s = "a" THEN onA ELSE {k \in Key : onB[k] # "none"}]
           home(k) == IF k \in FolderKeys THEN 1 ELSE 0
           ver(s, k) == IF s = "b" /\ onB[k] = "own" THEN NumKeys + k ELSE k
       IN /\ \A k \in Key : onB[k] = "copy" => k \in onA
          /\ doc = [s \in Side |-> [u \in DocId |->
               IF u \in held[s] THEN InitialDoc(u, ver(s, u), home(u)) ELSE NoDoc]]
          /\ folders = [s \in Side |-> IF held[s] \cap FolderKeys = {} THEN {} ELSE {1}]
          /\ wanted = held["a"] \cup held["b"]
          /\ live = {ver(p[1], p[2]) : p \in {h \in Side \X Key : h[2] \in held[h[1]]}}
  /\ clock = [s \in Side |-> 0]
  /\ state = [k \in Key |-> NoEntry]
  /\ phase = "idle"
  /\ opts \in Options
  /\ listA = NoListing
  /\ plan = NothingPlanned
  /\ mkdir = {}
  /\ parent = [s \in Side |-> 0]
  /\ cur = NoAction
  /\ modified = {}
  /\ unseen = {}
  /\ edits = 0
  /\ crashes = 0
  /\ quiet = TRUE

Next ==
  \/ \E o \in Options : Scan(o)
  \/ SyncStep
  \/ UserStep
  \/ Crash

Spec == Init /\ [][Next]_vars

\* The sync process is one sequential thread and keeps running.  Planning is
\* MakePlan by its effect on the phase: it is enabled whenever MakePlan is, and
\* TLC need not compute a plan to see that.
Planning == phase = "scanned" /\ phase' = "run"
FairSpec == Spec /\ WF_phase(Planning) /\ WF_vars(ExecuteStep)

-----------------------------------------------------------------------------
\* Types; a planned copy has a source and a planned deletion a document (plan_docs
\* panics otherwise: "CopyToB requires a document on A", sync.rs:3636).
TypeOK ==
  /\ doc \in [Side -> [DocId -> Doc]]
  /\ folders \in [Side -> SUBSET FolderId]
  /\ clock \in [Side -> Nat]
  /\ state \in [Key -> Entry]
  /\ phase \in {"idle", "scanned", "run", "fetched", "replaced", "restored", "deleted", "done"}
  /\ opts \in Options
  /\ plan \in [Key -> [op : Disposition, uuid : DocId \cup {0}, lm : Nat,
                       replace : DocId \cup {0}]]
  /\ \A k \in Key : plan[k].op \in Copies \cup Deletes => plan[k].uuid \in DocId
  /\ mkdir \subseteq Side /\ modified \subseteq Side /\ unseen \subseteq Side
  /\ parent \in [Side -> FolderId \cup {0}]
  /\ cur \in Action
  /\ edits \in 0..MaxEdits /\ crashes \in 0..MaxCrashes
  /\ live \subseteq Version /\ wanted \subseteq Key
  /\ quiet \in BOOLEAN

\* A version a user wrote and did not replace or delete is on some tablet: the
\* default policy "loses nothing" (sync.rs:1047), although an update deletes a
\* document before its successor is restored.
NoVersionLost == \A v \in live : Holders(v) # {}

\* A document that no user ever removed or renamed is on some tablet under its
\* name: an interrupted replacement must not be taken for a deletion
\* ("an interrupted sync resumes cleanly", sync.rs:7-8).
DocumentsSurvive ==
  \A k \in wanted : \E s \in Side, u \in DocId : doc[s][u].present /\ doc[s][u].key = k

\* What the next run skips is equal: an entry that matches both documents vouches
\* for their content, also when a source was edited while it was copied.
StateVouches ==
  \A k \in Key :
    LET e == state[k]
        d == [s \in Side |-> IF e.uuid[s] = 0 THEN NoDoc ELSE doc[s][e.uuid[s]]]
    IN e.mapped /\ (\A s \in Side : d[s].present /\ d[s].lm = e.lm[s])
         => d["a"].ver = d["b"].ver

\* When a document is about to be replaced, the folder its successor goes to is
\* known: execute_docs looks it up only after the deletion.
SuccessorHasParent ==
  phase = "fetched" /\ cur.key \in FolderKeys => parent[To] \in FolderId

\* The conflicts a run reports between documents no name of which is ambiguous are
\* between different contents ("identical files re-pair automatically; only
\* genuinely divergent files surface", README.md:121-123).
ConflictsAreReal ==
  phase = "run" /\ quiet =>
    LET list == [s \in Side |-> Listing(s)] IN
    \A k \in Key :
      /\ plan[k].op = "Conflict" /\ ~Excluded(list, state[k], k)
      /\ \A s \in Side : list[s].uuid[k] # 0
      => doc["a"][list["a"].uuid[k]].ver # doc["b"][list["b"].uuid[k]].ver

\* The keys an undisturbed run must leave equal: all of them two-way when
\* conflicts are resolved, the source's documents one-way when the source wins.
Mirrored(list, k) ==
  \/ opts.mode = "TwoWay" /\ opts.conflict # "Skip"
  \/ opts.mode = "Push" /\ opts.conflict = "PreferLocal" /\ ~opts.delete /\ list["a"].uuid[k] # 0
  \/ opts.mode = "Pull" /\ opts.conflict = "PreferRemote" /\ ~opts.delete /\ list["b"].uuid[k] # 0

\* An undisturbed run leaves the same documents with the same content on both
\* tablets, whatever edits, crashes and runs with other options came before it.
FinishedRunAgrees ==
  phase = "done" /\ quiet =>
    LET list == [s \in Side |-> Listing(s)] IN
    \A k \in Key : Mirrored(list, k) /\ ~Excluded(list, state[k], k) =>
      /\ list["a"].uuid[k] = 0 <=> list["b"].uuid[k] = 0
      /\ list["a"].uuid[k] # 0 =>
           doc["a"][list["a"].uuid[k]].ver = doc["b"][list["b"].uuid[k]].ver

\* Running it again straight after an undisturbed run finds nothing to do.
SecondRunIdle ==
  phase = "done" /\ quiet =>
    \A k \in Key :
      PlanDocs(opts, [s \in Side |-> Listing(s)], state)[k].op \in {"None", "Conflict"}

SyncTouches(s) == edits' = edits /\ <<doc'[s], folders'[s]>> # <<doc[s], folders[s]>>

\* A run that finishes has restarted every tablet it changed, or the user would
\* not see the change ("The caller restarts xochitl on each modified device
\* afterwards", sync.rs:3746).
ShowsWhatItChanged == [][phase = "run" /\ phase' = "done" => unseen = {}]_vars

\* A one-way run never changes its source tablet.
SourceUntouched ==
  [][/\ SyncTouches("a") => opts.mode # "Push"
     /\ SyncTouches("b") => opts.mode # "Pull"]_vars

\* Under the skip policy the sync removes a document only as the pair state knows
\* it: neither replaced nor modified since ("never silently overwritten",
\* README.md:124).
NeverSilentlyOverwritten ==
  [][edits' = edits /\ opts.conflict = "Skip" =>
       \A s \in Side : \A u \in DocId : doc[s][u].present /\ ~doc'[s][u].present =>
         \E k \in Key : state[k].mapped /\ state[k].uuid[s] = u /\ state[k].lm[s] = doc[s][u].lm]_vars

\* The sync never gives two documents of a tablet one path, nor two folders one
\* name: it would exclude them from every later run.
MakesNoDuplicates ==
  [][edits' = edits => \A s \in Side :
       ExcludedKeys(doc'[s], folders'[s]) \subseteq ExcludedKeys(doc[s], folders[s])]_vars

\* A started run ends, with users editing the documents it copies.
RunEnds == phase = "scanned" ~> phase \in {"idle", "done"}
=============================================================================

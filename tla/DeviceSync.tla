----------------------------- MODULE DeviceSync -----------------------------
(***************************************************************************)
(* Filesystem <-> tablet sync: run_device_sync (rmu/src/main.rs), plan()   *)
(* and execute() (sync.rs), while the user of the folder and the user of   *)
(* the tablet keep working, runs are interrupted, and the archive survives.*)
(*                                                                         *)
(* One process runs the plan's actions in order.  An action is split where *)
(* an interruption can fall: its effect on the device or the folder, the   *)
(* lastModified bump, the re-hash, and the save of the archive.  The       *)
(* archive is replaced by an atomic rename, so `archive` is the file.      *)
(*                                                                         *)
(* Bounds: NumDocs documents, MaxEdits user steps, MaxCrashes.             *)
(***************************************************************************)
EXTENDS DevicePlan, Naturals

CONSTANTS
  Options,      \* The option sets the user runs the sync with.
  FolderActs,   \* What the folder's user does: write, remove, rename, copy, touch.
  TabletActs,   \* What the tablet's user does: annotate, remove, move, create.
  BundleKinds,  \* The kinds of document inside the folder's .rmdoc bundles.
  MaxEdits,     \* Bound on user steps.
  MaxCrashes,   \* Bound on interruptions.
  TornWrites,   \* May an interruption hit inside a write that is not atomic?
  QuietRuns     \* Do users leave alone what a running plan works on?

ASSUME DeviceAssumption ==
  /\ Options \subseteq SyncOptions
  /\ FolderActs \subseteq {"write", "remove", "rename", "copy", "touch"}
  /\ TabletActs \subseteq {"annotate", "remove", "move", "create"}
  /\ BundleKinds \subseteq Kind
  /\ MaxEdits \in Nat /\ MaxCrashes \in Nat
  /\ TornWrites \in BOOLEAN /\ QuietRuns \in BOOLEAN

\* Paths of one target differ in kind, and every document has a path.
ASSUME PathsAssumption ==
  /\ Cardinality(Key) \in Nat \ {0} /\ Key = 1..Cardinality(Key)
  /\ NumDocs \in Nat
  /\ \A k \in Key : KindOf(k) \in Kind
  /\ \A j, k \in Key : Target(j) = Target(k) /\ KindOf(j) = KindOf(k) => j = k
  /\ \A k \in Key : KindOf(k) = "rmdoc" =>
       \A kind \in BundleKinds : \E j \in Key : Target(j) = Target(k) /\ KindOf(j) = kind
  /\ NumDocs >= Cardinality(Key)

VARIABLES
  local,     \* local[k]: the file at path k of the folder
  doc,       \* doc[u]: the document u of the tablet, as its files are on disk
  clock,     \* clock[side]: the last time stamped there
  nextUuid,  \* the next fresh uuid
  archive,   \* archive[k]: the state file's entry
  phase,     \* where the sync process is
  opts,      \* options of the current (or last) run
  snap,      \* the folder's listing, taken before the tablet's
  plan,      \* the actions left
  stage,     \* how far the first action of the plan is
  got,       \* what its effect returned: uuid, lastModified, hash
  modified,  \* outcome.modified_remote
  uiStale,   \* the tablet's UI has not re-read what the sync changed
  edits,     \* user steps so far
  crashes,   \* interruptions so far
  live,      \* ghost: versions users wrote and did not replace or delete
  dragged,   \* ghost: documents their user moved or renamed
  quiet      \* ghost: no user step or interruption since the run began

syncVars == <<phase, opts, snap, plan, stage, got, modified>>
ghosts == <<live, dragged, quiet>>
vars == <<local, doc, clock, nextUuid, archive, syncVars, uiStale, edits, crashes, ghosts>>

\* Versions: the initial ones of each side, the users' new ones, a torn one.
Torn == 2 * Cardinality(Key) + MaxEdits + 1
Version == 0..Torn

LocalFile == [present : BOOLEAN, mtime : Nat, hash : Version]
NoFile == [present |-> FALSE, mtime |-> 0, hash |-> 0]

AllTargets == {Target(k) : k \in Key}
Doc == [present : BOOLEAN, target : AllTargets, kind : Kind, lm : Nat, payload : Version]
NoDoc == [present |-> FALSE, target |-> Target(1), kind |-> "pdf", lm |-> 0, payload |-> 0]

Entry == [mapped : BOOLEAN, kind : Kind, uuid : 0..NumDocs, mtime : Nat, lm : Nat,
          pending : BOOLEAN, hash : Version, payload : Version]

NothingListed == [k \in Key |-> NoFile]
NothingGot == [uuid |-> 0, lm |-> 0, hash |-> 0]

-----------------------------------------------------------------------------
\* The run up to its plan.  The tablet is listed with list_items_authoritative,
\* after the folder; hashes are attached to both listings.

Scan(o) ==
  /\ phase \in {"idle", "failed", "done"}
  /\ phase' = "scanned"
  /\ opts' = o
  /\ snap' = local
  /\ quiet' = TRUE
  /\ UNCHANGED <<local, doc, clock, nextUuid, archive, plan, stage, got, modified,
                 uiStale, edits, crashes, live, dragged>>

MakePlan ==
  /\ phase = "scanned"
  /\ phase' = "run"
  /\ \E input \in {PlanInput(snap, doc, archive)} : plan' = MakeActions(opts, input)
  /\ snap' = NothingListed
  /\ UNCHANGED <<local, doc, clock, nextUuid, archive, opts, stage, got, modified,
                 uiStale, edits, crashes, ghosts>>

\* Conflicts are only reported.
Work == {a \in plan : a.op # "Conflict"}

Current == CHOOSE a \in Work : \A b \in Work \ {a} : Before(a, b)

At(s, ops) == phase = "run" /\ Work # {} /\ stage = s /\ Current.op \in ops

EndRun(how) ==
  /\ phase' = how
  /\ plan' = {}
  /\ stage' = "effect"
  /\ got' = NothingGot
  /\ snap' = NothingListed
  /\ modified' = FALSE
  /\ UNCHANGED opts

\* xochitl is restarted once, after the plan, if the run changed the device.
Finish ==
  /\ phase = "run"
  /\ Work = {}
  /\ EndRun("done")
  /\ uiStale' = (uiStale /\ ~modified)
  /\ UNCHANGED <<local, doc, clock, nextUuid, archive, edits, crashes, ghosts>>

\* An error return of an action ends the run, without the restart.
Fail ==
  /\ EndRun("failed")
  /\ UNCHANGED <<local, doc, clock, nextUuid, archive, uiStale, edits, crashes, ghosts>>

-----------------------------------------------------------------------------
\* Effects of the first action, before its save.

Advance(next, result) ==
  /\ stage' = next
  /\ got' = result
  /\ UNCHANGED <<archive, phase, opts, snap, plan, modified, edits, crashes, ghosts>>

Tick(side) == clock' = [clock EXCEPT ![side] = @ + 1]

Result(uuid, lm, hash) == [uuid |-> uuid, lm |-> lm, hash |-> hash]

WriteDoc(u, d) ==
  /\ doc' = [doc EXCEPT ![u] = d]
  /\ uiStale' = TRUE
  /\ UNCHANGED local

WriteLocal(k, hash) ==
  /\ local' = [local EXCEPT ![k] =
       [present |-> TRUE, mtime |-> clock["folder"] + 1, hash |-> hash]]
  /\ Tick("folder")
  /\ UNCHANGED <<doc, nextUuid, uiStale>>

\* store_payload, restore_bundle, copy_payload_on_device: register_document
\* writes the metadata last, so the document appears whole or not at all.
RegisterDocument(k, kind, payload) ==
  LET lm == clock["tablet"] + 1 IN
  /\ nextUuid <= NumDocs
  /\ WriteDoc(nextUuid, [present |-> TRUE, target |-> Target(k), kind |-> kind,
                         lm |-> lm, payload |-> payload])
  /\ Tick("tablet")
  /\ nextUuid' = nextUuid + 1
  /\ Advance("record", Result(nextUuid, lm, Current.hash))

\* The file is read now, its hash is the one of the listing.
UploadDocument ==
  /\ At("effect", {"Upload"})
  /\ LET k == Current.key
         readable == local[k].present /\ ~(KindOf(k) = "rmdoc" /\ local[k].hash = Torn)
         kinds == IF KindOf(k) = "rmdoc" THEN BundleKinds ELSE {KindOf(k)}
     IN \/ readable /\ \E kind \in kinds : RegisterDocument(k, kind, local[k].hash)
        \/ ~readable /\ Fail

CopyOnDevice ==
  /\ At("effect", {"CopyRemote"})
  /\ LET from == doc[Current.uuid] IN
     \/ from.present /\ RegisterDocument(Current.key, KindOf(Current.key), from.payload)
     \/ ~from.present /\ Fail

\* update_payload_from_file: the payload first (for a document just deleted, an
\* orphan file), then lastModified.
UpdatePayload ==
  /\ At("effect", {"UpdateRemote"})
  /\ LET u == Current.uuid
         file == local[Current.key]
     IN \/ /\ file.present
           /\ IF doc[u].present
              THEN WriteDoc(u, [doc[u] EXCEPT !.payload = file.hash])
              ELSE UNCHANGED <<local, doc, uiStale>>
           /\ Advance("touch", NothingGot)
           /\ UNCHANGED <<clock, nextUuid>>
        \/ ~file.present /\ Fail

TouchLastModified ==
  /\ At("touch", {"UpdateRemote"})
  /\ LET u == Current.uuid
         lm == clock["tablet"] + 1
     IN \/ /\ doc[u].present
           /\ WriteDoc(u, [doc[u] EXCEPT !.lm = lm])
           /\ Tick("tablet")
           /\ Advance("record", Result(u, lm, Current.hash))
           /\ UNCHANGED nextUuid
        \/ ~doc[u].present /\ Fail

DownloadDocument ==
  /\ At("effect", {"Download"})
  /\ LET u == Current.uuid IN
     \/ /\ doc[u].present
        /\ WriteLocal(Current.key, doc[u].payload)
        /\ Advance("hash", NothingGot)
     \/ ~doc[u].present /\ Fail

HashWritten ==
  /\ At("hash", {"Download"})
  /\ LET file == local[Current.key] IN
     \/ /\ file.present
        /\ Advance("record", Result(Current.uuid, Current.lm, file.hash))
        /\ UNCHANGED <<local, doc, clock, nextUuid, uiStale>>
     \/ ~file.present /\ Fail

CopyLocally ==
  /\ At("effect", {"CopyLocal"})
  /\ LET from == local[Current.other] IN
     \/ /\ from.present
        /\ WriteLocal(Current.key, from.hash)
        /\ Advance("record", Result(Current.uuid, Current.lm, Current.hash))
     \/ ~from.present /\ Fail

\* Mutant: the new name is the path, not the folder and the stem.
MoveDocumentToPath ==
  /\ At("effect", {"MoveRemote"})
  /\ LET u == Current.uuid
         lm == clock["tablet"] + 1
     IN \/ /\ doc[u].present
           /\ WriteDoc(u, [doc[u] EXCEPT !.target = Paths[Current.other], !.lm = lm])
           /\ Tick("tablet")
           /\ Advance("record", Result(u, lm, Current.hash))
           /\ UNCHANGED nextUuid
        \/ ~doc[u].present /\ Fail

\* move_document: one metadata write.
MoveDocument ==
  /\ At("effect", {"MoveRemote"})
  /\ LET u == Current.uuid
         lm == clock["tablet"] + 1
     IN \/ /\ doc[u].present
           /\ WriteDoc(u, [doc[u] EXCEPT !.target = Target(Current.other), !.lm = lm])
           /\ Tick("tablet")
           /\ Advance("record", Result(u, lm, Current.hash))
           /\ UNCHANGED nextUuid
        \/ ~doc[u].present /\ Fail

RenameFile ==
  /\ At("effect", {"MoveLocal"})
  /\ LET from == Current.key
         possible == archive[from].mapped /\ local[from].present
     IN \/ /\ possible
           /\ local' = [local EXCEPT ![Current.other] = local[from], ![from] = NoFile]
           /\ Advance("record", NothingGot)
           /\ UNCHANGED <<doc, clock, nextUuid, uiStale>>
        \/ ~possible /\ Fail

\* Deleting what is gone already succeeds.
DeleteEffect ==
  /\ At("effect", {"DeleteRemote", "DeleteLocal"})
  /\ IF Current.op = "DeleteRemote"
     THEN WriteDoc(Current.uuid, NoDoc)
     ELSE local' = [local EXCEPT ![Current.key] = NoFile] /\ UNCHANGED <<doc, uiStale>>
  /\ Advance("record", NothingGot)
  /\ UNCHANGED <<clock, nextUuid>>

-----------------------------------------------------------------------------
\* Saves of the archive; the action is done.

Save(entries, remote) ==
  /\ archive' = entries
  /\ plan' = plan \ {Current}
  /\ stage' = "effect"
  /\ got' = NothingGot
  /\ modified' = (modified \/ remote)
  /\ UNCHANGED <<local, doc, clock, nextUuid, phase, opts, snap, uiStale, edits, crashes, ghosts>>

\* Mutant: the pending mark survives an agreement.
AgreedPending(k, kind, uuid, lm, hash, payload) ==
  [mapped |-> TRUE, kind |-> kind, uuid |-> uuid, mtime |-> local[k].mtime, lm |-> lm,
   pending |-> TRUE, hash |-> hash, payload |-> payload]

\* record_state_with: the stamp is the file's stamp now.
Agreed(k, kind, uuid, lm, hash, payload) ==
  [mapped |-> TRUE, kind |-> kind, uuid |-> uuid, mtime |-> local[k].mtime, lm |-> lm,
   pending |-> FALSE, hash |-> hash, payload |-> payload]

\* pdf and epub payloads are the local bytes; a bundle has no payload.
PayloadOf(a, hash) ==
  CASE a.op = "MoveRemote" -> a.payload
    [] a.op # "MoveRemote" /\ PayloadMirrored(a.kind) -> hash
    [] OTHER -> 0

RecordTransfer ==
  /\ At("record", {"Upload", "CopyRemote", "UpdateRemote", "Download", "CopyLocal", "MoveRemote"})
  /\ LET a == Current
         path == IF a.op = "CopyLocal" THEN a.key ELSE a.other
         entry == Agreed(path, a.kind, got.uuid, got.lm, got.hash, PayloadOf(a, got.hash))
     IN \/ /\ local[path].present
           /\ Save([archive EXCEPT ![a.key] = NoEntry, ![path] = entry],
                   a.op \notin {"Download", "CopyLocal"})
        \/ ~local[path].present /\ Fail

RecordLocalMove ==
  /\ At("record", {"MoveLocal"})
  /\ LET a == Current IN
     Save([archive EXCEPT ![a.other] = [archive[a.key] EXCEPT !.lm = a.lm],
                          ![a.key] = NoEntry], FALSE)

RecordDelete ==
  /\ At("record", {"DeleteRemote", "DeleteLocal"})
  /\ Save([archive EXCEPT ![Current.key] = NoEntry], Current.op = "DeleteRemote")

ForgetEntry ==
  /\ At("effect", {"Forget"})
  /\ Save([archive EXCEPT ![Current.key] = NoEntry], FALSE)

\* Refresh and Adopt change the archive only.
RecordAgreement ==
  /\ At("effect", {"Refresh", "Adopt"})
  /\ LET a == Current IN
     \/ /\ local[a.key].present
        /\ Save([archive EXCEPT ![a.key] =
                   Agreed(a.key, a.kind, a.uuid, a.lm, a.hash, a.payload)], FALSE)
     \/ ~local[a.key].present /\ Fail

\* The identity is known, the content is not agreed: both baselines are kept.
RebindEntry ==
  /\ At("effect", {"Rebind"})
  /\ LET a == Current IN
     Save([archive EXCEPT ![a.key] =
             IF @.mapped THEN [@ EXCEPT !.uuid = a.uuid, !.pending = TRUE] ELSE @], TRUE)

ExecuteStep ==
  \/ UploadDocument \/ CopyOnDevice
  \/ UpdatePayload \/ TouchLastModified
  \/ DownloadDocument \/ HashWritten
  \/ CopyLocally
  \/ MoveDocument \/ RenameFile
  \/ DeleteEffect
  \/ RecordTransfer \/ RecordLocalMove \/ RecordDelete
  \/ ForgetEntry \/ RecordAgreement \/ RebindEntry
  \/ Finish

SyncStep == MakePlan \/ ExecuteStep

-----------------------------------------------------------------------------
\* The users.

NewVersion == 2 * Cardinality(Key) + edits + 1

UserMay == edits < MaxEdits /\ edits' = edits + 1 /\ quiet' = FALSE

\* With QuietRuns, the folder rests between its listing and the plan, and then
\* every path and document of the plan's actions does.
LeavesPath(k) ==
  QuietRuns => phase # "scanned" /\ \A a \in Work : k \notin {a.key, a.other}
LeavesDoc(u) == QuietRuns => \A a \in Work : a.uuid # u
LeavesTarget(t) == QuietRuns => \A a \in Work : t \notin {Target(a.key), Target(a.other)}

Holders(v) == {<<"folder", k>> : k \in {j \in Key : local[j].present /\ local[j].hash = v}}
              \cup {<<"tablet", u>> : u \in {w \in Uuid : doc[w].present /\ doc[w].payload = v}}

\* A removed version is given up if nothing else has it, or if the runs
\* propagate deletions.
Discarded(v) ==
  IF Cardinality(Holders(v)) = 1 \/ \E o \in Options : o.delete THEN {v} ELSE {}

FolderStep ==
  /\ UserMay
  /\ UNCHANGED <<doc, nextUuid, archive, syncVars, uiStale, crashes, dragged>>

UserWrite(k) ==
  /\ "write" \in FolderActs /\ LeavesPath(k)
  /\ local' = [local EXCEPT ![k] =
       [present |-> TRUE, mtime |-> clock["folder"] + 1, hash |-> NewVersion]]
  /\ Tick("folder")
  /\ live' = (live \ {local[k].hash}) \cup {NewVersion}
  /\ FolderStep

UserTouch(k) ==
  /\ "touch" \in FolderActs /\ LeavesPath(k)
  /\ local[k].present
  /\ local' = [local EXCEPT ![k].mtime = clock["folder"] + 1]
  /\ Tick("folder")
  /\ UNCHANGED live
  /\ FolderStep

UserRemove(k) ==
  /\ "remove" \in FolderActs /\ LeavesPath(k)
  /\ local[k].present
  /\ local' = [local EXCEPT ![k] = NoFile]
  /\ live' = live \ Discarded(local[k].hash)
  /\ UNCHANGED clock
  /\ FolderStep

UserRename(k, j) ==
  /\ "rename" \in FolderActs /\ LeavesPath(k) /\ LeavesPath(j)
  /\ local[k].present /\ ~local[j].present
  /\ KindOf(j) = KindOf(k)
  /\ local' = [local EXCEPT ![j] = local[k], ![k] = NoFile]
  /\ UNCHANGED <<clock, live>>
  /\ FolderStep

UserCopy(k, j) ==
  /\ "copy" \in FolderActs /\ LeavesPath(j)
  /\ local[k].present /\ ~local[j].present
  /\ KindOf(j) = KindOf(k)
  /\ local' = [local EXCEPT ![j] = [local[k] EXCEPT !.mtime = clock["folder"] + 1]]
  /\ Tick("folder")
  /\ UNCHANGED live
  /\ FolderStep

TabletStep ==
  /\ UserMay
  /\ UNCHANGED <<local, archive, syncVars, uiStale, crashes>>

\* Ink is the content of a notebook; on a pdf or epub it only bumps the time.
TabletAnnotate(u) ==
  /\ "annotate" \in TabletActs /\ LeavesDoc(u)
  /\ doc[u].present
  /\ LET ink == doc[u].kind = "rmdoc" IN
     /\ doc' = [doc EXCEPT ![u].lm = clock["tablet"] + 1,
                           ![u].payload = IF ink THEN NewVersion ELSE @]
     /\ live' = IF ink THEN (live \ {doc[u].payload}) \cup {NewVersion} ELSE live
  /\ Tick("tablet")
  /\ UNCHANGED <<nextUuid, dragged>>
  /\ TabletStep

TabletRemove(u) ==
  /\ "remove" \in TabletActs /\ LeavesDoc(u)
  /\ doc[u].present
  /\ doc' = [doc EXCEPT ![u] = NoDoc]
  /\ live' = live \ Discarded(doc[u].payload)
  /\ UNCHANGED <<clock, nextUuid, dragged>>
  /\ TabletStep

\* xochitl allows two documents of one name in one folder.
TabletMove(u, k) ==
  /\ "move" \in TabletActs /\ LeavesDoc(u) /\ LeavesTarget(Target(k))
  /\ doc[u].present
  /\ KindOf(k) = doc[u].kind
  /\ Target(k) # doc[u].target
  /\ doc' = [doc EXCEPT ![u].target = Target(k), ![u].lm = clock["tablet"] + 1]
  /\ Tick("tablet")
  /\ dragged' = dragged \cup {u}
  /\ UNCHANGED <<nextUuid, live>>
  /\ TabletStep

\* Another client's upload, perhaps with an old time.
TabletCreate(k) ==
  /\ "create" \in TabletActs /\ LeavesTarget(Target(k))
  /\ nextUuid <= NumDocs
  /\ \E lm \in {clock["tablet"], clock["tablet"] + 1} :
       /\ doc' = [doc EXCEPT ![nextUuid] =
            [present |-> TRUE, target |-> Target(k), kind |-> KindOf(k),
             lm |-> lm, payload |-> NewVersion]]
       /\ clock' = [clock EXCEPT !["tablet"] = lm]
  /\ nextUuid' = nextUuid + 1
  /\ live' = live \cup {NewVersion}
  /\ UNCHANGED dragged
  /\ TabletStep

UserStep ==
  \/ \E k \in Key : UserWrite(k) \/ UserTouch(k) \/ UserRemove(k) \/ TabletCreate(k)
  \/ \E j, k \in Key : UserRename(k, j) \/ UserCopy(k, j)
  \/ \E u \in Uuid : TabletAnnotate(u) \/ TabletRemove(u) \/ \E k \in Key : TabletMove(u, k)

\* The process dies, the connection is lost, or an I/O call fails.
Interrupted ==
  /\ phase \in {"scanned", "run"}
  /\ crashes < MaxCrashes
  /\ crashes' = crashes + 1
  /\ EndRun("idle")
  /\ quiet' = FALSE
  /\ UNCHANGED <<archive, edits, live, dragged>>

Crash ==
  /\ Interrupted
  /\ UNCHANGED <<local, doc, clock, nextUuid, uiStale>>

\* fs::copy and the write of a bundle fill the file in place.
TornCrash ==
  /\ TornWrites
  /\ \/ At("effect", {"CopyLocal"})
     \/ At("effect", {"Download"}) /\ Current.kind = "rmdoc"
  /\ WriteLocal(Current.key, Torn)
  /\ Interrupted

-----------------------------------------------------------------------------
\* A first sync: any folder, any documents (each in its own path), no archive.
Init ==
  /\ \E files \in [Key -> BOOLEAN], docs \in [Key -> {"none", "own", "copy"}] :
       /\ \A k \in Key : docs[k] = "copy" => files[k]
       /\ local = [k \in Key |-> IF files[k]
            THEN [present |-> TRUE, mtime |-> 0, hash |-> k] ELSE NoFile]
       /\ doc = [u \in Uuid |-> IF u \in Key /\ docs[u] # "none"
            THEN [present |-> TRUE, target |-> Target(u), kind |-> KindOf(u), lm |-> 0,
                  payload |-> IF docs[u] = "copy" THEN u ELSE Cardinality(Key) + u]
            ELSE NoDoc]
  /\ clock = [side \in {"folder", "tablet"} |-> 0]
  /\ nextUuid = Cardinality(Key) + 1
  /\ archive = [k \in Key |-> NoEntry]
  /\ phase = "idle"
  /\ opts \in Options
  /\ snap = NothingListed
  /\ plan = {}
  /\ stage = "effect"
  /\ got = NothingGot
  /\ modified = FALSE
  /\ uiStale = FALSE
  /\ edits = 0
  /\ crashes = 0
  /\ live = {local[k].hash : k \in {j \in Key : local[j].present}}
            \cup {doc[u].payload : u \in {w \in Uuid : doc[w].present}}
  /\ dragged = {}
  /\ quiet = TRUE

Next ==
  \/ \E o \in Options : Scan(o)
  \/ SyncStep
  \/ UserStep
  \/ Crash
  \/ TornCrash

Spec == Init /\ [][Next]_vars

\* The sync process is one sequential thread and keeps running.  Planning is
\* MakePlan by its effect on the phase: it is enabled whenever MakePlan is, and
\* TLC need not compute a plan to see that.
Planning == phase = "scanned" /\ phase' = "run"
FairSpec == Spec /\ WF_phase(Planning) /\ WF_vars(ExecuteStep)
-----------------------------------------------------------------------------
\* Types.
TypeOK ==
  /\ local \in [Key -> LocalFile]
  /\ doc \in [Uuid -> Doc]
  /\ clock \in [{"folder", "tablet"} -> Nat]
  /\ nextUuid \in 1..(NumDocs + 1)
  /\ archive \in [Key -> Entry]
  /\ phase \in {"idle", "scanned", "run", "failed", "done"}
  /\ opts \in Options
  /\ snap \in [Key -> LocalFile]
  /\ stage \in {"effect", "touch", "hash", "record"}
  /\ got \in [uuid : 0..NumDocs, lm : Nat, hash : Version]
  /\ modified \in BOOLEAN /\ uiStale \in BOOLEAN /\ quiet \in BOOLEAN
  /\ edits \in 0..MaxEdits /\ crashes \in 0..MaxCrashes
  /\ live \subseteq Version /\ dragged \subseteq Uuid

\* A version a user wrote and did not replace or delete is on some side: "Skip
\* (default; loses nothing)" (sync.rs:1047), across moves, copies, rebinds,
\* deletions and interruptions.
NoVersionLost == \A v \in live : Holders(v) # {}

\* What the next run skips on its stamps is equal: an entry whose stamps match
\* the file and the document vouches for their content.
ArchiveVouches ==
  \A k \in Key :
    LET e == archive[k] IN
    /\ e.mapped /\ ~e.pending /\ PayloadMirrored(e.kind)
    /\ local[k].present /\ local[k].mtime = e.mtime
    /\ e.uuid \in Uuid /\ doc[e.uuid].present /\ doc[e.uuid].lm = e.lm
    => local[k].hash = doc[e.uuid].payload

\* A document is mapped by one path only: else two paths would overwrite it.
MappedOnce ==
  \A j, k \in Key : archive[j].mapped /\ archive[k].mapped /\ archive[j].uuid = archive[k].uuid
                      => j = k

\* A local file is renamed only to follow a document its user moved or renamed
\* on the tablet ("a mapped doc whose device path moved simply drags the local
\* file along", sync.rs:1427).
OnlyDeviceMovesDragFiles == \A a \in plan : a.op = "MoveLocal" => a.uuid \in dragged

\* A run that nobody disturbs succeeds: no action of a plan finds the path or the
\* document it is about gone because of an earlier action of the same plan.  Edits,
\* moves on the tablet and runs with other options may have come before; a file
\* that was touched only (device_touch_move.cfg) must not.
UndisturbedRunSucceeds == phase = "failed" => ~quiet

\* After a finished run the tablet's UI shows what the sync did: "an invisible
\* document is not [cheap]" (sync.rs, the Rebind arm of execute).
FinishedRunIsVisible == phase = "done" => ~uiStale

NoDuplicates == \A u \in Uuid : ~Duplicate(doc, u)

\* The conflicts a run reports are between different contents.
ConflictsAreReal ==
  phase = "run" /\ quiet =>
    \A a \in plan :
      LET e == archive[a.key] IN
      /\ a.op = "Conflict" /\ e.mapped /\ PayloadMirrored(e.kind)
      /\ local[a.key].present /\ e.uuid \in Uuid /\ doc[e.uuid].present
      => local[a.key].hash # doc[e.uuid].payload

\* A document that moved to a path the folder already uses: reported and left.
Displaced(k) ==
  \E j \in Key : /\ archive[j].mapped /\ archive[j].uuid \in Uuid /\ doc[archive[j].uuid].present
                 /\ LocalRelPath(doc[archive[j].uuid]) # j
                 /\ k \in {j, LocalRelPath(doc[archive[j].uuid])}

\* An undisturbed two-way run that resolves conflicts leaves the same paths with
\* the same bytes on both sides.
FinishedRunAgrees ==
  phase = "done" /\ quiet /\ opts.mode = "TwoWay" /\ opts.conflict # "Skip" /\ NoDuplicates =>
    \A k \in Key :
      LET docs == {u \in Uuid : doc[u].present /\ LocalRelPath(doc[u]) = k} IN
      /\ docs # {} => local[k].present
      /\ local[k].present /\ ~Displaced(k) =>
           \E u \in docs : doc[u].payload = local[k].hash

\* An undisturbed two-way run leaves no more copies of a document's bytes in the
\* folder than there are documents with them.
NoLeftoverCopies ==
  phase = "done" /\ quiet /\ opts.mode = "TwoWay" /\ NoDuplicates =>
    \A u \in Uuid : doc[u].present =>
      Cardinality({k \in Key : local[k].present /\ local[k].hash = doc[u].payload})
        <= Cardinality({v \in Uuid : doc[v].present /\ doc[v].payload = doc[u].payload})

\* Running it again straight after an undisturbed run finds nothing to do.
SecondRunIdle ==
  phase = "done" /\ quiet =>
    \A a \in MakeActions(opts, PlanInput(local, doc, archive)) : a.op = "Conflict"

SyncTouches(x) == x' # x /\ edits' = edits

\* A one-way run never changes its source.
SourceUntouched ==
  [][/\ SyncTouches(local) => opts.mode # "Push"
     /\ SyncTouches(doc) => opts.mode # "Pull"]_vars

LocalGone(k) == local[k].present /\ ~\E j \in Key : local'[j].present /\ local'[j].hash = local[k].hash

\* Under the skip policy the sync overwrites or deletes only what has not changed,
\* in stamp or in content, since the archive recorded it ("never silently
\* overwritten", README.md:124).
NeverSilentlyOverwritten ==
  [][edits' = edits /\ opts.conflict = "Skip" =>
       /\ \A k \in Key : LocalGone(k) =>
            /\ archive[k].mapped
            /\ archive[k].hash = local[k].hash \/ archive[k].mtime = local[k].mtime
       /\ \A u \in Uuid :
            doc[u].present /\ doc'[u].payload # doc[u].payload =>
              \E k \in Key :
                /\ archive[k].mapped /\ archive[k].uuid = u
                /\ archive[k].payload = doc[u].payload \/ archive[k].lm = doc[u].lm]_vars

\* Only a --delete run deletes, and only what the archive tracks (README.md:126).
DeletesOnlyTracked ==
  [][edits' = edits =>
       /\ \A k \in Key : local[k].present /\ ~local'[k].present
            => archive[k].mapped /\ (opts.delete \/ Current.op = "MoveLocal")
       /\ \A u \in Uuid : doc[u].present /\ ~doc'[u].present
            => opts.delete /\ \E k \in Key : archive[k].mapped /\ archive[k].uuid = u]_vars

\* The sync itself never gives two documents one name.
MakesNoDuplicates ==
  [][edits' = edits => \A u \in Uuid : Duplicate(doc', u) => Duplicate(doc, u)]_vars

\* A started run ends.
RunEnds == phase = "scanned" ~> phase \in {"idle", "failed", "done"}
=============================================================================

---------------------------- MODULE DeviceFolders ----------------------------
(***************************************************************************)
(* The folders of filesystem <-> tablet sync (sync.rs): the walk that finds *)
(* the synced subtree, the folder-move pre-pass, the folders a plan needs   *)
(* or empties, and the executor's folder actions.  The table and the file   *)
(* moves are DevicePlan's.                                                  *)
(*                                                                          *)
(* An item of the tablet is its metadata file: parent, name, lastModified.  *)
(* Uuids 1..NumDocs are documents, the next NumFolders are folders, Root is *)
(* the sync root.  Names are numbers, for their order; Paths[k].dir is a    *)
(* sequence of names.                                                       *)
(*                                                                          *)
(* Bounds: every file is a pdf, and nobody edits one (DeviceSync has kinds  *)
(* and edits); files and folders keep their depth; users rest while a run   *)
(* works, unless UsersRest is FALSE; the listings and the plan are one      *)
(* step; MaxEdits user steps and interruptions.                             *)
(***************************************************************************)
EXTENDS DevicePlan, Naturals, Sequences

LOCAL INSTANCE SequencesExt

CONSTANTS
  NumFolders,   \* Bound on the folders ever made.
  Synced,       \* The sets of paths that may be in sync at the start.
  Options,      \* The option sets the user runs the sync with.
  FolderActs,   \* What the folder's user does: rename, renameDir, remove, create.
  TabletActs,   \* What the tablet's user does: move, remove, create.
  MaxEdits,     \* Bound on user steps and interruptions.
  Interrupts,   \* May a run be interrupted?
  UsersRest     \* Do users leave everything alone while a run works?

VARIABLES
  local,    \* local[k]: the file at path k
  item,     \* item[i]: the tablet's metadata file of i
  archive,  \* archive[k]: the state file's entry
  phase,    \* "idle", "run" or "failed"
  opts,     \* options of the current run
  plan,     \* the actions left, in order
  folders,  \* the executor's folder map: path -> uuid
  stage,    \* "effect", or "record" when only the action's save is left
  got,      \* the uuid and lastModified its effect returned
  edits,    \* user steps and interruptions so far
  live,     \* ghost: versions nobody removed
  gentle,   \* ghost: users only renamed in the folder, and no run died or
            \* pulled
  tracked   \* ghost: folders that held an archived document when planned

progress == <<phase, opts, plan, folders, stage, got>>
ghosts == <<live, gentle, tracked>>
vars == <<local, item, archive, progress, edits, ghosts>>

Folder == (NumDocs + 1)..(NumDocs + NumFolders)
Item == Uuid \cup Folder
Root == 0

PathPrefixes(dir) == {SubSeq(dir, 1, n) : n \in 1..Len(dir)}
Dir == UNION {PathPrefixes(Paths[k].dir) : k \in Key}
FullPath(k) == Append(Paths[k].dir, Paths[k].stem)
Precedes(a, b) ==
  \/ IsStrictPrefix(a, b)
  \/ \E n \in 1..Len(a) : /\ n <= Len(b) /\ a[n] < b[n]
                          /\ \A m \in 1..(n - 1) : a[m] = b[m]

InOrder(S, Earlier(_, _)) ==
  [n \in 1..Cardinality(S) |-> CHOOSE x \in S : Cardinality({y \in S : Earlier(y, x)}) = n - 1]

NoItem == [present |-> FALSE, parent |-> Root, name |-> 0, lm |-> 0, payload |-> 0]
\* Versions: those of the initial tree, then the users' new ones.
Versions == 2 * Cardinality(Key) + MaxEdits

NoFile == [present |-> FALSE, mtime |-> 0, hash |-> 0]

-----------------------------------------------------------------------------
\* remote_snapshot: the walk from the root.

Twin(items, i) ==
  \E j \in Item \ {i} : /\ items[j].present /\ items[j].parent = items[i].parent
                        /\ items[j].name = items[i].name

\* The folders above an item, from the root, and the item.
Chain(items, i) ==
  LET up[j \in Item \cup {Root}] ==
        IF j = Root \/ ~items[j].present THEN <<j>> ELSE Append(up[items[j].parent], j)
  IN up[i]

Attached(items, i) == items[i].present /\ Head(Chain(items, i)) = Root
Above(items, i) == {Chain(items, i)[n] : n \in 2..Len(Chain(items, i))}
PathOf(items, i) == [n \in 1..(Len(Chain(items, i)) - 1) |-> items[Chain(items, i)[n + 1]].name]

\* A twin is left out, with all that is below it.
Excluded(items, i) == Attached(items, i) /\ \E j \in Above(items, i) : Twin(items, j)
Seen(items, i) == Attached(items, i) /\ ~Excluded(items, i)

\* Mutant: documents are in the folder map too.
FolderMapOfAll(items) ==
  LET seen == {i \in Item : Seen(items, i)}
      PathsOf == {PathOf(items, i) : i \in seen} IN
  [dir \in PathsOf \cup {<<>>} |->
     IF dir = <<>> THEN Root ELSE CHOOSE i \in seen : PathOf(items, i) = dir]

FolderMap(items) ==
  LET seen == {f \in Folder : Seen(items, f)}
      PathsOf == {PathOf(items, f) : f \in seen} IN
  [dir \in PathsOf \cup {<<>>} |->
     IF dir = <<>> THEN Root ELSE CHOOSE f \in seen : PathOf(items, f) = dir]

DocView(items, u) ==
  LET path == PathOf(items, u) IN
  IF Seen(items, u)
  THEN [present |-> TRUE, target |-> [dir |-> Front(path), stem |-> Last(path)],
        kind |-> "pdf", lm |-> items[u].lm, payload |-> items[u].payload]
  ELSE [present |-> FALSE, target |-> Target(1), kind |-> "pdf", lm |-> 0, payload |-> 0]

\* What run_device_sync hands to plan().
FolderInput(files, items, state) ==
  LET excludedPaths == {PathOf(items, i) : i \in {j \in Item :
                          /\ Excluded(items, j) /\ Twin(items, j)
                          /\ items[j].parent # Root => Seen(items, items[j].parent)}}
      s == [local |-> AttachHashes(files, state),
            doc   |-> [u \in Uuid |-> DocView(items, u)],
            state |-> state,
            excludedUuids   |-> {i \in Item : Excluded(items, i)},
            excludedPaths   |-> excludedPaths,
            excludedTargets |-> {Target(k) : k \in {j \in Key :
                                   \E p \in excludedPaths : IsPrefix(p, FullPath(j))}},
            folders |-> FolderMap(items)]
  IN AttachPayloadHashes(s, DeviceHashCandidates(s))

-----------------------------------------------------------------------------
\* detect_moves, the folder part.

FilesUnder(dir) == {k \in Key : IsPrefix(dir, Paths[k].dir)}
MappedUnder(s, dir) == {k \in FilesUnder(dir) : s.state[k].mapped}

Rebased(m, path) == m.to \o SubSeq(path, Len(m.from) + 1, Len(path))

\* No two moved prefixes are nested.
RebasedBy(moves, path) ==
  IF \E m \in moves : IsPrefix(m.from, path)
  THEN Rebased(CHOOSE m \in moves : IsPrefix(m.from, path), path) ELSE path

\* Where the move takes the file at k.
MovedTo(m, k) == {j \in Key : FullPath(j) = Rebased(m, FullPath(k)) /\ KindOf(j) = KindOf(k)}

\* Every mapped file under the folder vanished.
FolderVanished(s, dir) ==
  /\ MappedUnder(s, dir) # {}
  /\ \A k \in MappedUnder(s, dir) : s.state[k].hash # 0 /\ ~ExcludesMapped(s, k)
  /\ \A k \in FilesUnder(dir) : ~s.local[k].present
  /\ ~\E p \in s.excludedPaths : IsStrictPrefix(dir, p)

\* ... and all of them are under `to` now.
ReappearedUnder(s, from, to) ==
  /\ MappedUnder(s, to) = {}
  /\ ~\E p \in s.excludedPaths : IsPrefix(p, to)
  /\ \A k \in MappedUnder(s, from) :
       \E j \in MovedTo([from |-> from, to |-> to], k) :
         s.local[j].present /\ ~s.state[j].mapped /\ s.local[j].hash = s.state[k].hash

TakenPaths(s) ==
  DOMAIN s.folders \cup {Append(t.dir, t.stem) : t \in DeviceTaken(s)}

\* One folder of the pass, `done` the moves found so far.
FindFolderMove(s, done, from) ==
  LET targets == {g \in Dir : /\ ReappearedUnder(s, from, g)
                              /\ g \notin {RebasedBy(done, dir) : dir \in DOMAIN s.folders}}
      claimed == TakenPaths(s) \cup {m.to : m \in done}
      moves == {[from |-> from, to |-> g] : g \in targets \ claimed}
  IN IF \/ \E m \in done : IsStrictPrefix(m.from, from)
        \/ ~FolderVanished(s, from)
        \/ Cardinality(targets) # 1
     THEN done ELSE done \cup moves

\* In path order: a moved folder takes its subfolders along.
FolderMoves(o, s) ==
  IF CanWriteRemote(o.mode)
  THEN FoldLeft(LAMBDA done, from : FindFolderMove(s, done, from), {},
                InOrder(DOMAIN s.folders \ {<<>>}, Precedes))
  ELSE {}

\* Mutant: the plan goes on with the documents where the device has them.
RewritePrefixForgotten(s, moves) == s

\* rewrite_prefix: entries, folders and documents are under the new prefix.
RewritePrefix(s, moves) ==
  LET Left(k) == RebasedBy(moves, Paths[k].dir) # Paths[k].dir
      Origin(k) == {j \in Key : /\ s.state[j].mapped /\ Left(j) /\ KindOf(j) = KindOf(k)
                                /\ RebasedBy(moves, FullPath(j)) = FullPath(k)}
  IN [s EXCEPT
       !.state = [k \in Key |->
         IF Origin(k) # {}
         THEN [s.state[CHOOSE j \in Origin(k) : TRUE] EXCEPT !.mtime = s.local[k].mtime]
         ELSE IF Left(k) THEN NoEntry ELSE s.state[k]],
       !.folders = [dir \in {RebasedBy(moves, d) : d \in DOMAIN s.folders} |->
         s.folders[CHOOSE d \in DOMAIN s.folders : RebasedBy(moves, d) = dir]],
       !.doc = [u \in Uuid |-> IF s.doc[u].present THEN [s.doc[u] EXCEPT !.target.dir = RebasedBy(moves, @)]
                        ELSE s.doc[u]]]

-----------------------------------------------------------------------------
\* The folders of a plan.  A folder's action has the path, the new path of a
\* move, and the uuid.
FolderAction(op, dir, to, uuid) == [op |-> op, dir |-> dir, to |-> to, uuid |-> uuid]

TargetDirs(actions) ==
  {Paths[a.key].dir : a \in {b \in actions : b.op \in {"Upload", "CopyRemote"}}}
  \cup {Paths[a.other].dir : a \in {b \in actions : b.op = "MoveRemote"}}

\* The folders that uploads and moves need and the snapshot does not have.
NeededFolders(s, moves, actions) ==
  UNION {PathPrefixes(dir) : dir \in TargetDirs(actions) \cup {Front(m.to) : m \in moves}}
  \ DOMAIN s.folders

Occupied(s, gone, kept, condemned, dir) ==
  \/ \E u \in Uuid \ gone : s.doc[u].present /\ IsPrefix(dir, s.doc[u].target.dir)
  \/ \E p \in s.excludedPaths : IsPrefix(dir, p)
  \/ \E sub \in DOMAIN s.folders \ condemned : IsStrictPrefix(dir, sub)
  \/ \E k \in kept : IsPrefix(dir, Paths[k].dir)

\* Mutant: documents the table leaves alone do not keep their folder.
CondemnOccupied(s, gone, kept, condemned, dir) ==
  IF /\ \E u \in gone : IsPrefix(dir, s.doc[u].target.dir)
     /\ ~\E sub \in DOMAIN s.folders \ condemned : IsStrictPrefix(dir, sub)
  THEN condemned \cup {dir} ELSE condemned

\* Mutant: a folder that was empty before is emptied too.
CondemnEmpty(s, gone, kept, condemned, dir) ==
  IF ~Occupied(s, gone, kept, condemned, dir) THEN condemned \cup {dir} ELSE condemned

\* It lost a document to this plan and nothing is left in it.
Condemn(s, gone, kept, condemned, dir) ==
  IF /\ \E u \in gone : IsPrefix(dir, s.doc[u].target.dir)
     /\ ~Occupied(s, gone, kept, condemned, dir)
  THEN condemned \cup {dir} ELSE condemned

\* append_dir_deletes on the tablet, subfolders before their parents.
EmptiedFolders(o, s, actions) ==
  LET gone == {a.uuid : a \in {b \in actions : b.op = "DeleteRemote"}}
      kept == {k \in Key : s.local[k].present}
              \ {a.key : a \in {b \in actions : b.op = "DeleteLocal"}}
  IN IF o.delete /\ CanWriteRemote(o.mode)
     THEN FoldLeft(LAMBDA condemned, dir : Condemn(s, gone, kept, condemned, dir), {},
                   Reverse(InOrder(DOMAIN s.folders \ {<<>>}, Precedes)))
     ELSE {}

\* Execution order: folders are made, moved, and at the end deleted.
FolderRank(op) ==
  CASE op = "CreateRemoteFolder" -> 25
    [] op = "MoveRemoteFolder"   -> 28
    [] op = "DeleteRemoteFolder" -> 65
    [] OTHER                     -> 10 * Rank(op)

FolderBefore(a, b) ==
  LET rank == FolderRank(a.op) IN
  \/ rank < FolderRank(b.op)
  \/ /\ rank = FolderRank(b.op)
     /\ CASE rank \in {25, 28} -> Precedes(a.dir, b.dir)
          [] rank = 65         -> Precedes(b.dir, a.dir)
          [] OTHER             -> Before(a, b)

FolderPlan(o, input) ==
  LET moves == FolderMoves(o, input)
      pre   == Prepass(o, RewritePrefix(input, moves))
      s     == pre.snapshot
      files == pre.actions \cup TableActions(o, s)
      work  == {a \in files : a.op # "Conflict"}
               \cup {FolderAction("CreateRemoteFolder", dir, dir, Root)
                      : dir \in NeededFolders(s, moves, files)}
               \cup {FolderAction("MoveRemoteFolder", m.from, m.to, input.folders[m.from])
                      : m \in moves}
               \cup {FolderAction("DeleteRemoteFolder", dir, dir, s.folders[dir])
                      : dir \in EmptiedFolders(o, s, files)}
  IN InOrder(work, FolderBefore)

-----------------------------------------------------------------------------
\* The run.

\* The folders above an archived document.
HoldArchived(items, state) ==
  UNION {Above(items, state[k].uuid) : k \in {j \in Key :
           state[j].mapped /\ Attached(items, state[j].uuid)}} \cap Folder

\* Bound: a plan that moves a document out of the paths of Paths is left out.
KeepsPaths(o, input) ==
  \A u \in Uuid : \E k \in Key :
    Target(k) = RewritePrefix(input, FolderMoves(o, input)).doc[u].target

NoOptions == CHOOSE o \in Options : TRUE

Plan ==
  /\ phase # "run"
  /\ phase' = "run"
  /\ \E input \in {FolderInput(local, item, archive)} :
       /\ folders' = input.folders
       /\ \E o \in Options :
            /\ KeepsPaths(o, input)
            /\ opts' = o
            /\ plan' = FolderPlan(o, input)
            /\ gentle' = (gentle /\ CanWriteRemote(o.mode))
  /\ tracked' = HoldArchived(item, archive)
  /\ UNCHANGED <<local, item, archive, stage, got, edits, live>>

At(s, ops) == phase = "run" /\ plan # <<>> /\ stage = s /\ Head(plan).op \in ops
Current == Head(plan)

EndRun(how) ==
  /\ phase' = how
  /\ plan' = <<>>
  /\ folders' = <<>>
  /\ stage' = "effect"
  /\ got' = [uuid |-> 0, lm |-> 0]
  /\ opts' = NoOptions
  /\ tracked' = {}
  /\ UNCHANGED <<local, item, archive, live>>

Finish ==
  /\ phase = "run" /\ plan = <<>>
  /\ EndRun("idle")
  /\ UNCHANGED <<edits, gentle>>

Fail ==
  /\ EndRun("failed")
  /\ UNCHANGED <<edits, gentle>>

Outside == <<opts, edits, ghosts>>

\* The effect of an action that has a save.
Done(uuid, lm) ==
  /\ stage' = "record"
  /\ got' = [uuid |-> uuid, lm |-> lm]
  /\ UNCHANGED <<archive, phase, plan, folders, Outside>>

\* The save; the action is done.
Save(entries) ==
  /\ archive' = entries
  /\ plan' = Tail(plan)
  /\ stage' = "effect"
  /\ got' = [uuid |-> 0, lm |-> 0]
  /\ UNCHANGED <<local, item, phase, folders, Outside>>

\* An action without a save.
Unsaved ==
  /\ plan' = Tail(plan)
  /\ UNCHANGED <<local, archive, phase, stage, got, Outside>>

\* An item made by this run; uuids are never used twice.
Fresh(ids) == CHOOSE i \in ids : item[i].name = 0 /\ \A j \in ids : item[j].name = 0 => i <= j
SomeFresh(ids) == \E i \in ids : item[i].name = 0

NewItem(parent, name, payload) ==
  [present |-> TRUE, parent |-> parent, name |-> name, lm |-> 1, payload |-> payload]

CreateRemoteFolder ==
  /\ At("effect", {"CreateRemoteFolder"})
  /\ LET dir == Current.dir
         f == Fresh(Folder)
     IN \/ /\ Front(dir) \in DOMAIN folders
           /\ SomeFresh(Folder)
           /\ item' = [item EXCEPT ![f] = NewItem(folders[Front(dir)], Last(dir), 0)]
           /\ folders' = [d \in DOMAIN folders \cup {dir} |-> IF d = dir THEN f ELSE folders[d]]
           /\ Unsaved
        \/ Front(dir) \notin DOMAIN folders /\ Fail

\* move_document on the folder: one metadata write.
MoveRemoteFolder ==
  /\ At("effect", {"MoveRemoteFolder"})
  /\ LET parent == Front(Current.to)
         f == Current.uuid
     IN \/ /\ parent \in DOMAIN folders /\ item[f].present
           /\ item' = [item EXCEPT ![f].parent = folders[parent], ![f].name = Last(Current.to),
                                   ![f].lm = @ + 1]
           /\ Done(f, 0)
           /\ UNCHANGED local
        \/ (parent \notin DOMAIN folders \/ ~item[f].present) /\ Fail

\* The folder map and every entry below the folder are re-keyed, in one save.
RecordFolderMove ==
  /\ At("record", {"MoveRemoteFolder"})
  /\ LET m == [from |-> Current.dir, to |-> Current.to]
         Below(k) == IsPrefix(m.from, Paths[k].dir)
         Origin(k) == {j \in Key : archive[j].mapped /\ Below(j) /\ k \in MovedTo(m, j)}
     IN /\ archive' = [k \in Key |->
             IF Origin(k) # {}
             THEN LET e == archive[CHOOSE j \in Origin(k) : TRUE] IN
                  [e EXCEPT !.mtime = IF local[k].present THEN local[k].mtime ELSE @]
             ELSE IF Below(k) THEN NoEntry ELSE archive[k]]
        /\ folders' = [dir \in {RebasedBy({m}, d) : d \in DOMAIN folders} |->
             folders[CHOOSE d \in DOMAIN folders : RebasedBy({m}, d) = dir]]
        /\ plan' = Tail(plan)
        /\ stage' = "effect"
        /\ got' = [uuid |-> 0, lm |-> 0]
        /\ UNCHANGED <<local, item, phase, Outside>>

\* delete_document removes the folder's own files; its children stay behind.
DeleteRemoteFolder ==
  /\ At("effect", {"DeleteRemoteFolder"})
  /\ item' = [item EXCEPT ![Current.uuid].present = FALSE]
  /\ folders' = [d \in DOMAIN folders \ {Current.dir} |-> folders[d]]
  /\ Unsaved

-----------------------------------------------------------------------------
\* The documents of the plan, in DeviceSync's detail but for its touch and hash
\* steps.

StoreDocument ==
  /\ At("effect", {"Upload", "CopyRemote"})
  /\ LET k == Current.key
         u == Fresh(Uuid)
         payload == IF Current.op = "Upload" THEN local[k].hash ELSE item[Current.uuid].payload
         possible == /\ Paths[k].dir \in DOMAIN folders
                     /\ IF Current.op = "Upload" THEN local[k].present
                                                 ELSE item[Current.uuid].present
     IN \/ /\ possible /\ SomeFresh(Uuid)
           /\ item' = [item EXCEPT ![u] = NewItem(folders[Paths[k].dir], Paths[k].stem, payload)]
           /\ Done(u, 1)
           /\ UNCHANGED local
        \/ ~possible /\ Fail

UpdateDocument ==
  /\ At("effect", {"UpdateRemote"})
  /\ LET u == Current.uuid
         possible == local[Current.key].present /\ item[u].present
     IN \/ /\ possible
           /\ item' = [item EXCEPT ![u].payload = local[Current.key].hash, ![u].lm = @ + 1]
           /\ Done(u, item[u].lm + 1)
           /\ UNCHANGED local
        \/ ~possible /\ Fail

\* move_document on a document.
MoveDocument ==
  /\ At("effect", {"MoveRemote"})
  /\ LET to == Paths[Current.other]
         u == Current.uuid
         possible == to.dir \in DOMAIN folders /\ item[u].present
     IN \/ /\ possible
           /\ item' = [item EXCEPT ![u].parent = folders[to.dir], ![u].name = to.stem, ![u].lm = @ + 1]
           /\ Done(u, item[u].lm + 1)
           /\ UNCHANGED local
        \/ ~possible /\ Fail

\* The stamp of a file sync wrote; content and writer stand for the time.
Written(hash) == [present |-> TRUE, mtime |-> Versions + hash, hash |-> hash]

PullDocument ==
  /\ At("effect", {"Download", "CopyLocal"})
  /\ LET u == Current.uuid
         possible == IF Current.op = "Download" THEN item[u].present ELSE local[Current.other].present
         hash == IF Current.op = "Download" THEN item[u].payload ELSE local[Current.other].hash
     IN \/ /\ possible
           /\ local' = [local EXCEPT ![Current.key] = Written(hash)]
           /\ Done(u, Current.lm)
           /\ UNCHANGED item
        \/ ~possible /\ Fail

RenameFile ==
  /\ At("effect", {"MoveLocal"})
  /\ LET possible == archive[Current.key].mapped /\ local[Current.key].present IN
     \/ /\ possible
        /\ local' = [local EXCEPT ![Current.other] = local[Current.key], ![Current.key] = NoFile]
        /\ Done(Current.uuid, Current.lm)
        /\ UNCHANGED item
     \/ ~possible /\ Fail

Delete ==
  /\ At("effect", {"DeleteRemote", "DeleteLocal"})
  /\ IF Current.op = "DeleteRemote"
     THEN item' = [item EXCEPT ![Current.uuid].present = FALSE] /\ UNCHANGED local
     ELSE local' = [local EXCEPT ![Current.key] = NoFile] /\ UNCHANGED item
  /\ Done(0, 0)

Agreed(k, uuid, lm, hash) ==
  [mapped |-> TRUE, kind |-> "pdf", uuid |-> uuid, mtime |-> local[k].mtime, lm |-> lm,
   pending |-> FALSE, hash |-> hash, payload |-> hash]

Record ==
  \/ /\ At("record", {"Upload", "CopyRemote", "UpdateRemote", "Download", "CopyLocal", "MoveRemote"})
     /\ LET path == IF Current.op = "MoveRemote" THEN Current.other ELSE Current.key
            hash == IF Current.op = "Download" THEN local[path].hash ELSE Current.hash
        IN \/ /\ local[path].present
              /\ Save([archive EXCEPT ![Current.key] = NoEntry,
                                      ![path] = Agreed(path, got.uuid, got.lm, hash)])
           \/ ~local[path].present /\ Fail
  \/ /\ At("record", {"MoveLocal"})
     /\ Save([archive EXCEPT ![Current.other] = [archive[Current.key] EXCEPT !.lm = Current.lm],
                             ![Current.key] = NoEntry])
  \/ /\ At("record", {"DeleteRemote", "DeleteLocal"})
     /\ Save([archive EXCEPT ![Current.key] = NoEntry])

\* Actions that only change the archive.
RecordOnly ==
  \/ At("effect", {"Forget"}) /\ Save([archive EXCEPT ![Current.key] = NoEntry])
  \/ /\ At("effect", {"Refresh", "Adopt"})
     /\ \/ /\ local[Current.key].present
           /\ Save([archive EXCEPT ![Current.key] =
                      Agreed(Current.key, Current.uuid, Current.lm, Current.hash)])
        \/ ~local[Current.key].present /\ Fail
  \/ /\ At("effect", {"Rebind"})
     /\ Save([archive EXCEPT ![Current.key] =
                IF @.mapped THEN [@ EXCEPT !.uuid = Current.uuid, !.pending = TRUE] ELSE @])

ExecuteStep ==
  \/ CreateRemoteFolder \/ MoveRemoteFolder \/ RecordFolderMove \/ DeleteRemoteFolder
  \/ StoreDocument \/ UpdateDocument \/ MoveDocument \/ PullDocument \/ RenameFile \/ Delete
  \/ Record \/ RecordOnly
  \/ Finish

Crash ==
  /\ phase = "run"
  /\ Interrupts /\ edits < MaxEdits
  /\ edits' = edits + 1
  /\ EndRun("idle")
  /\ gentle' = FALSE

-----------------------------------------------------------------------------
\* The users.

UserMay == edits < MaxEdits /\ (UsersRest => phase # "run")

UserActs ==
  /\ edits' = edits + 1
  /\ UNCHANGED <<archive, progress, tracked>>

UserRename(k, j) ==
  /\ "rename" \in FolderActs /\ UserActs
  /\ local[k].present /\ ~local[j].present
  /\ KindOf(j) = KindOf(k) /\ Len(Paths[j].dir) = Len(Paths[k].dir)
  /\ local' = [local EXCEPT ![j] = local[k], ![k] = NoFile]
  /\ UNCHANGED <<item, live, gentle>>

UserRenameDir(from, to) ==
  LET m == [from |-> from, to |-> to]
      files == {k \in FilesUnder(from) : local[k].present}
      CameFrom(k) == {j \in files : k \in MovedTo(m, j)}
  IN /\ "renameDir" \in FolderActs /\ UserActs
     /\ from # to /\ Len(from) = Len(to)
     /\ files # {} /\ \A k \in FilesUnder(to) : ~local[k].present
     /\ \A k \in files : MovedTo(m, k) # {}
     /\ local' = [k \in Key |->
          IF CameFrom(k) # {} THEN local[CHOOSE j \in CameFrom(k) : TRUE]
          ELSE IF k \in files THEN NoFile ELSE local[k]]
     /\ UNCHANGED <<item, live, gentle>>

UserRemove(k) ==
  /\ "remove" \in FolderActs /\ UserActs
  /\ local[k].present
  /\ local' = [local EXCEPT ![k] = NoFile]
  /\ live' = live \ {local[k].hash}
  /\ gentle' = FALSE
  /\ UNCHANGED item

NewVersion == 2 * Cardinality(Key) + edits + 1

UserCreate(k) ==
  /\ "create" \in FolderActs /\ UserActs
  /\ ~local[k].present
  /\ local' = [local EXCEPT ![k] = [present |-> TRUE, mtime |-> NewVersion, hash |-> NewVersion]]
  /\ live' = live \cup {NewVersion}
  /\ gentle' = FALSE
  /\ UNCHANGED item

\* Whatever the tablet's user does, the synced tree keeps the paths of Paths.
InScope(items) ==
  /\ \A i \in Item : items[i].present => Attached(items, i)
  /\ \A u \in Uuid : items[u].present => \E k \in Key : FullPath(k) = PathOf(items, u)
  /\ \A f \in Folder : items[f].present => PathOf(items, f) \in Dir

TabletMay(items, versions) ==
  /\ UserActs
  /\ item' = items
  /\ live' = versions
  /\ gentle' = FALSE
  /\ UNCHANGED local

TabletMove(i, parent, name) ==
  LET items == [item EXCEPT ![i].parent = parent, ![i].name = name, ![i].lm = @ + 1] IN
  /\ "move" \in TabletActs
  /\ item[i].present /\ <<parent, name>> # <<item[i].parent, item[i].name>>
  /\ parent # Root => item[parent].present /\ i \notin Above(item, parent)
  /\ InScope(items)
  /\ TabletMay(items, live)

\* The item goes to the trash, and what is below it.
TabletRemove(i) ==
  LET below == {j \in Item : i \in Above(item, j)} IN
  /\ "remove" \in TabletActs
  /\ item[i].present
  /\ TabletMay([j \in Item |-> IF j \in below THEN [item[j] EXCEPT !.present = FALSE] ELSE item[j]],
               live \ {item[j].payload : j \in below})

TabletCreate(parent, name) ==
  LET items == [item EXCEPT ![Fresh(Uuid)] = NewItem(parent, name, NewVersion)] IN
  /\ "create" \in TabletActs
  /\ SomeFresh(Uuid) /\ parent # Root => item[parent].present
  /\ InScope(items)
  /\ TabletMay(items, live \cup {NewVersion})

Name == {Paths[k].stem : k \in Key} \cup UNION {{d[n] : n \in 1..Len(d)} : d \in Dir}

UserStep ==
  /\ UserMay
  /\ \/ \E j, k \in Key : UserRename(j, k)
     \/ \E from, to \in Dir : UserRenameDir(from, to)
     \/ \E k \in Key : UserRemove(k) \/ UserCreate(k)
     \/ \E i \in Item : TabletRemove(i)
     \/ \E parent \in Folder \cup {Root}, name \in Name :
          TabletCreate(parent, name) \/ \E i \in Item : TabletMove(i, parent, name)

-----------------------------------------------------------------------------
\* After a finished sync: some paths are on both sides and archived.  The tablet
\* has their folders, or every folder of Dir, and perhaps a document more.
FolderUuid(dir) ==
  IF dir = <<>> THEN Root
  ELSE NumDocs + Cardinality({d \in Dir : Precedes(d, dir) \/ d = dir})

InitialItems(synced, made, extra) ==
  [i \in Item |->
    IF i \in synced \cup extra
    THEN NewItem(FolderUuid(Paths[i].dir), Paths[i].stem, i)
    ELSE IF \E dir \in made : FolderUuid(dir) = i
    THEN LET dir == CHOOSE d \in made : FolderUuid(d) = i IN
         NewItem(FolderUuid(Front(dir)), Last(dir), 0)
    ELSE IF i \in Key THEN [NoItem EXCEPT !.name = 1] ELSE NoItem]

Init ==
  /\ \E synced \in Synced : \E extra \in {{k} : k \in Key \ synced} \cup {{}} :
     \E made \in {UNION {PathPrefixes(Paths[k].dir) : k \in synced \cup extra}, Dir} :
       /\ local = [k \in Key |-> IF k \in synced
                     THEN [present |-> TRUE, mtime |-> k, hash |-> k] ELSE NoFile]
       /\ item = InitialItems(synced, made, extra)
       /\ archive = [k \in Key |-> IF k \in synced
            THEN [mapped |-> TRUE, kind |-> "pdf", uuid |-> k, mtime |-> k, lm |-> 1,
                  pending |-> FALSE, hash |-> k, payload |-> k]
            ELSE NoEntry]
       /\ live = synced \cup extra
       /\ gentle = (extra = {})
  /\ phase = "idle"
  /\ opts = NoOptions
  /\ plan = <<>> /\ folders = <<>>
  /\ stage = "effect" /\ got = [uuid |-> 0, lm |-> 0]
  /\ edits = 0
  /\ tracked = {}

Next ==
  \/ Plan
  \/ ExecuteStep
  \/ UserStep
  \/ Crash

Spec == Init /\ [][Next]_vars

-----------------------------------------------------------------------------
\* Types.
TypeOK ==
  /\ local \in [Key -> [present : BOOLEAN, mtime : Nat, hash : 0..Versions]]
  /\ item \in [Item -> [present : BOOLEAN, parent : Folder \cup {Root}, name : Name \cup {0},
                        lm : Nat, payload : 0..Versions]]
  /\ archive \in [Key -> [mapped : BOOLEAN, kind : Kind, uuid : 0..NumDocs, mtime : Nat, lm : Nat,
                          pending : BOOLEAN, hash : 0..Versions, payload : 0..Versions]]
  /\ phase \in {"idle", "run", "failed"}
  /\ opts \in Options
  /\ stage \in {"effect", "record"}
  /\ got \in [uuid : 0..(NumDocs + NumFolders), lm : Nat]
  /\ \A dir \in DOMAIN folders : folders[dir] \in Folder \cup {Root}
  /\ edits \in 0..MaxEdits
  /\ live \subseteq 1..Versions /\ gentle \in BOOLEAN /\ tracked \subseteq Folder

\* What nobody removed is still there, in the folder or in the tablet's tree: a
\* folder is deleted only when nothing is left in it (sync.rs:2781), else its
\* documents are orphans that no listing shows.
NothingLost ==
  \A v \in live :
    \/ \E k \in Key : local[k].present /\ local[k].hash = v
    \/ \E u \in Uuid : Attached(item, u) /\ item[u].payload = v

SyncStep == edits' = edits

\* Files and folders renamed in the folder keep their documents, and with them
\* their annotations: no run without an interruption deletes a document or makes
\* a second one ("Metadata-only: zero bytes transferred, annotations preserved",
\* client.rs:463).
RenamesKeepDocuments ==
  [][SyncStep /\ gentle => \A u \in Uuid : item'[u].present = item[u].present]_vars

\* The sync deletes only folders of documents it had archived: "a pre-existing
\* empty folder was never synced, so it is never touched" (sync.rs:2042).
OnlyTrackedFoldersGo ==
  [][SyncStep => \A f \in Folder : item[f].present /\ ~item'[f].present => f \in tracked]_vars

\* A deleted folder is empty: "The planner guarantees this folder has no
\* children left once the preceding deletions ran" (sync.rs:2781).
DeletesOnlyEmptyFolders ==
  [][SyncStep => \A f \in Folder : item[f].present /\ ~item'[f].present =>
       ~\E i \in Item : item[i].present /\ item[i].parent = f]_vars

\* A run that nobody disturbs succeeds: folders are made "parents before
\* children" (sync.rs:1991), after the parents they need.
UndisturbedRunSucceeds == UsersRest => phase # "failed"

\* A deleted document was one more than the files with its content.
DeletesOnlySurplus ==
  [][SyncStep => \A u \in Uuid : item[u].present /\ ~item'[u].present =>
       Cardinality({k \in Key : local[k].present /\ local[k].hash = item[u].payload})
         < Cardinality({w \in Uuid : item[w].present /\ item[w].payload = item[u].payload})]_vars
=============================================================================

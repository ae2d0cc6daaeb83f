----------------------------- MODULE RemoteStore -----------------------------
(***************************************************************************)
(* The operations of the document store (client.rs): each reads one        *)
(* listing, decides everything on it, and then changes the tablet by a     *)
(* sequence of remote commands (`todo`), between which the tablet's own    *)
(* program may act and any of which may fail or be the last.               *)
(*                                                                         *)
(* A document is its .metadata (in `meta`: name, parent and type, the      *)
(* fields that others depend on) and its `parts`: the payload, .content,   *)
(* the page directory and .pagedata.  An item exists for the tablet when   *)
(* its metadata does.  Every command here is atomic, except the removal of *)
(* an item's files; SshStream and ListingCache look inside the others.     *)
(*                                                                         *)
(* Bounds: NumItems uuids, MaxOps operations, MaxEdits acts of the tablet. *)
(***************************************************************************)
EXTENDS ItemTree

CONSTANTS
  Names,       \* visible names
  FirstTrees,  \* the listings the tablet may start with
  Segments,    \* the segments of the paths the user types
  Pairs,       \* sets of references `rmu rm` is given besides single ones
  NumItems, MaxOps, MaxEdits,
  NoItem,      \* no metadata under this uuid
  Same         \* no name: the name stays

Uuids == 1..NumItems
Kinds == {"folder", "payload", "notebook"}     \* a document has a payload file or is a notebook
Parts == {"payload", "content", "dir", "pagedata"}
Entry == [name : Names, parent : Uuids \cup {Root, Trash}, kind : Kinds]

\* The references and the folders the user types; a folder is the root, or it is
\* given by name or by uuid.
Paths == UNION {[1..n -> Segments] : n \in 1..2}
NamePaths == UNION {[1..n -> Names] : n \in 1..2}
Refs == {ByUuid(u) : u \in Uuids} \cup {ByPath(p) : p \in Paths}
FolderRefs == {ByPath(<<>>)} \cup {ByPath(<<n>>) : n \in Names} \cup {ByUuid(u) : u \in Uuids}

ASSUME StoreAssumption ==
  /\ NumItems \in Nat /\ MaxOps \in Nat /\ MaxEdits \in Nat
  /\ \A items \in FirstTrees : \E n \in 0..NumItems : items \in [1..n -> Entry]
  /\ Pairs \subseteq SUBSET Refs
  /\ Same \notin Names /\ NoItem \notin Entry

VARIABLES
  meta,     \* uuid -> its .metadata
  parts,    \* uuid -> its other files
  local,    \* the local files of a download: <<name, extension>> -> uuid
  request,  \* the operation in progress, or the last one
  result,   \* "idle", "running", "done", "failed" or "refused"
  todo,     \* the remote commands it has left
  held,     \* the metadata it read to change
  fresh,    \* the next uuid nobody has
  ops,      \* operations so far
  edits,    \* acts of the tablet so far
  before,   \* ghost: the listing the operation was decided on
  calm,     \* ghost: the tablet did not act since
  raced,    \* ghost: items the tablet changed between their read and their write
  halved    \* ghost: items whose removal began and did not end

opVars == <<request, result, todo, held>>
vars == <<meta, parts, local, opVars, fresh, ops, edits, before, calm, raced, halved>>

Listing == [u \in {v \in Uuids : meta[v] # NoItem} |-> meta[u]]

\* The files a complete item of each kind has.
Complete(kind) ==
  CASE kind = "folder" -> {"content", "pagedata"}
    [] kind = "payload" -> {"payload", "content", "dir", "pagedata"}
    [] kind = "notebook" -> {"content", "dir"}
\* Without these the tablet shows a document it cannot open.
Essential(kind) ==
  CASE kind = "folder" -> {} [] kind = "payload" -> {"payload", "content"}
    [] kind = "notebook" -> {"content", "dir"}

\* A request: what to do, to which items, where and with which name.
Request(do, refs, at, name) == [do |-> do, refs |-> refs, at |-> at, name |-> name]
Nothing == Request("none", {}, ByPath(<<>>), Same)

Init ==
  /\ \E items \in FirstTrees :
       /\ meta = [u \in Uuids |-> IF u \in DOMAIN items THEN items[u] ELSE NoItem]
       /\ parts = [u \in Uuids |-> IF u \in DOMAIN items THEN Complete(items[u].kind) ELSE {}]
       /\ fresh = 1 + Cardinality(DOMAIN items)
       /\ before = items
  /\ local = <<>>
  /\ request = Nothing /\ result = "idle" /\ todo = <<>> /\ held = NoItem
  /\ ops = 0 /\ edits = 0 /\ calm = TRUE /\ raced = {} /\ halved = {}
-----------------------------------------------------------------------------
(* Remote commands.                                                        *)

Command(act, u, part) == [act |-> act, uuid |-> u, part |-> part, from |-> Stop, entry |-> NoItem]
Put(u, part) == Command("put", u, part)
CopyPayload(u, from) == [Command("copy", u, "payload") EXCEPT !.from = from]
Register(u, entry) == [Command("register", u, "metadata") EXCEPT !.entry = entry]
\* update_metadata: `name` and `parent` are set, unless they are Same and Stop.
Update(u, name, parent) ==
  <<Command("read", u, "metadata"),
    [Command("write", u, "metadata") EXCEPT !.entry = [name |-> name, parent |-> parent]]>>

\* Mutant of StoreDocument: the document is registered before its payload is there.
StoreDocumentFirst(u, payload, entry) ==
  <<Put(u, "content"), Put(u, "dir"), Put(u, "pagedata"), Register(u, entry), payload>>

\* store_payload and register_document: the payload first, the metadata last.
StoreDocument(u, payload, entry) ==
  <<payload, Put(u, "content"), Put(u, "dir"), Put(u, "pagedata"), Register(u, entry)>>

\* restore_bundle: one tar, its entries in the bundle's order, the metadata last.
RestoreBundle(u, files, entry) == [i \in DOMAIN files |-> Put(u, files[i])] \o <<Register(u, entry)>>

\* create_folder_in: the metadata first.
CreateFolder(u, name, parent) ==
  <<Register(u, [name |-> name, parent |-> parent, kind |-> "folder"]),
    Put(u, "content"), Put(u, "pagedata")>>

\* delete_artifacts: `rm -rf uuid uuid.*`, in the order the shell sorts them.
RemoveFiles(u) ==
  [i \in 1..5 |-> Command("drop", u, <<"dir", "content", "metadata", "pagedata", "payload">>[i])]
-----------------------------------------------------------------------------
(* How an operation starts.                                                *)

\* The commands an operation will run, or its refusal.
Begin(r) ==
  /\ request' = r /\ ops' = ops + 1 /\ before' = Listing /\ calm' = TRUE
  /\ local' = <<>> /\ held' = NoItem
  /\ UNCHANGED <<meta, parts, edits, raced, halved>>

\* Mutant of Run: the next item gets the uuid of this one.
RunReusesUuid(r, commands, new) ==
  /\ Begin(r) /\ fresh + new <= NumItems + 1
  /\ todo' = commands /\ result' = IF commands = <<>> THEN "done" ELSE "running"
  /\ UNCHANGED fresh

Run(r, commands, new) ==
  /\ Begin(r) /\ fresh + new <= NumItems + 1
  /\ todo' = commands /\ result' = IF commands = <<>> THEN "done" ELSE "running"
  /\ fresh' = fresh + new

Refuse(r) == Begin(r) /\ todo' = <<>> /\ result' = "refused" /\ UNCHANGED fresh

\* mkdir_path, as far as the folders exist: at[i] is where path[1..i] leads.
MissingFrom(items, parent, path) ==
  LET at[i \in 0..Len(path)] ==
        IF i = 0 THEN Found(parent)
        ELSE IF at[i - 1].err # "none" THEN at[i - 1]
        ELSE FindChildFolder(items, at[i - 1].uuid, path[i])
  IN at

\* mkdir_path: existing folders are reused and the missing ones created, each
\* below the one before; nothing is created when a check fails.
Mkdir(path, at) ==
  LET items == Listing
      parent == ResolveFolderRef(items, at)
      way == MissingFrom(items, parent.uuid, path)
      known == Cardinality({i \in 1..Len(path) : way[i].err = "none"})
      r == [Request("mkdir", {}, at, Same) EXCEPT !.refs = {ByPath(path)}]
      new == Len(path) - known
  IN IF \/ parent.err # "none" \/ way[Len(path)].err = "ambiguous"
        \/ new > 0 /\ ~NoConflict(items, way[known].uuid, path[known + 1], Stop)
       THEN Refuse(r)
       ELSE Run(r, FlattenSeq([k \in 1..new |->
                      CreateFolder(fresh + k - 1, path[known + k],
                                   IF k = 1 THEN way[known].uuid ELSE fresh + k - 2)]), new)

\* The checks of upload_payload and upload_rmdoc.
MayAdd(at, name) ==
  LET parent == ResolveFolderRef(Listing, at) IN
  parent.err = "none" /\ NoConflict(Listing, parent.uuid, name, Stop)

\* upload: a payload, or a bundle with its files in any order.
Upload(at, name) ==
  LET entry(kind) == [name |-> name, parent |-> ResolveFolderRef(Listing, at).uuid, kind |-> kind]
      r == Request("upload", {}, at, name)
  IN IF ~MayAdd(at, name) THEN Refuse(r)
     ELSE \/ Run(r, StoreDocument(fresh, Put(fresh, "payload"), entry("payload")), 1)
          \/ \E files \in {<<"content", "dir">>, <<"dir", "content">>} :
               Run(r, RestoreBundle(fresh, files, entry("notebook")), 1)

\* copy_payload_on_device: an upload whose payload is copied from a document.
CopyOnDevice(u, at, name) ==
  /\ u \in DOMAIN Listing /\ Listing[u].kind = "payload" /\ MayAdd(at, name)
  /\ Run(Request("upload", {}, at, name),
         StoreDocument(fresh, CopyPayload(fresh, u),
                       [name |-> name, parent |-> ResolveFolderRef(Listing, at).uuid,
                        kind |-> "payload"]), 1)

\* update_payload_from_file and _bytes: the payload, then lastModified.
UpdatePayload(u) ==
  /\ u \in DOMAIN Listing /\ Listing[u].kind = "payload"
  /\ Run(Request("update", {ByUuid(u)}, ByPath(<<>>), Same),
         <<Put(u, "payload")>> \o Update(u, Same, Stop), 0)

\* move_items.
Move(ref, at) ==
  LET items == Listing
      dest == ResolveFolderRef(items, at)
      uuids == ExpandRef(items, ref)
      need == NeedMoving(items, uuids, dest.uuid)
      r == Request("move", {ref}, at, Same)
  IN IF \/ dest.err # "none" \/ uuids = {} \/ dest.uuid \in uuids
        \/ ~MoveAllowed(items, uuids, dest.uuid)
       THEN Refuse(r)
       ELSE \E order \in SetToSeqs(need) :
              Run(r, FlattenSeq([i \in DOMAIN order |-> Update(order[i], Same, dest.uuid)]), 0)

\* rename: one exact reference.
Rename(ref, name) ==
  LET items == Listing
      item == ResolveItemRef(items, ref)
      r == Request("rename", {ref}, ByPath(<<>>), name)
  IN IF item.err # "none" THEN Refuse(r)
     ELSE IF items[item.uuid].name = name THEN Run(r, <<>>, 0)
     ELSE IF ~NoConflict(items, items[item.uuid].parent, name, item.uuid) THEN Refuse(r)
     ELSE Run(r, Update(item.uuid, name, Stop), 0)

\* move_document: the sync executor has checked the folder and the name.
MoveDocument(u, at, name) ==
  LET items == Listing
      parent == ResolveFolderRef(items, at)
  IN /\ u \in DOMAIN items /\ ~IsFolder(items, u)
     /\ parent.err = "none" /\ NoConflict(items, parent.uuid, name, u)
     /\ Run(Request("relocate", {ByUuid(u)}, at, name), Update(u, name, parent.uuid), 0)

RemoveAll(r, uuids) ==
  \E order \in SetToSeqs(uuids) :
    /\ DeepestFirst(Listing, order)
    /\ Run(r, FlattenSeq([i \in DOMAIN order |-> RemoveFiles(order[i])]), 0)

\* delete_many: every reference is resolved before anything is removed.  On a
\* cycle of parents the program dies before it removed anything.
Delete(refs, recursive) ==
  LET items == Listing
      targets == UNION {ExpandRef(items, ref) : ref \in refs}
      r == Request("delete", refs, ByPath(<<>>), Same)
  IN IF \/ \E ref \in refs : ExpandRef(items, ref) = {}
        \/ \E u \in targets : Endless(items, u)
        \/ ~DeletionAllowed(items, targets, recursive)
       THEN Refuse(r)
       ELSE RemoveAll(r, Doomed(items, targets))

\* empty_trash.
EmptyTrash ==
  RemoveAll(Request("empty", {}, ByPath(<<>>), Same), Doomed(Listing, Children(Listing, Trash)))

\* delete_document: one document, no tree logic.
DeleteDocument(u) ==
  /\ u \in DOMAIN Listing /\ ~IsFolder(Listing, u)
  /\ Run(Request("delete", {ByUuid(u)}, ByPath(<<>>), Same), RemoveFiles(u), 0)

\* The local file a document is downloaded to (resolve_destination).
FileOf(items, u) == <<items[u].name, IF items[u].kind = "notebook" THEN "rmdoc" ELSE "pdf">>

\* The checks of download_matching on the matched documents.
DownloadAllowed(items, docs) ==
  /\ docs # {}
  /\ \A u, v \in docs : FileOf(items, u) = FileOf(items, v) => u = v

\* download_matching into a directory: matched folders are skipped.
Download(ref) ==
  LET items == Listing
      docs == {u \in ExpandRef(items, ref) : ~IsFolder(items, u)}
      r == Request("download", {ref}, ByPath(<<>>), Same)
  IN IF ~DownloadAllowed(items, docs) THEN Refuse(r)
     ELSE \E order \in SetToSeqs(docs) :
            Run(r, [i \in DOMAIN order |-> Command("fetch", order[i], FileOf(items, order[i]))], 0)

Start ==
  /\ result # "running" /\ ops < MaxOps
  /\ \/ \E path \in NamePaths, at \in FolderRefs : Mkdir(path, at)
     \/ \E at \in FolderRefs, name \in Names : Upload(at, name)
     \/ \E u \in Uuids, at \in FolderRefs, name \in Names :
          CopyOnDevice(u, at, name) \/ MoveDocument(u, at, name)
     \/ \E u \in Uuids : UpdatePayload(u) \/ DeleteDocument(u)
     \/ \E ref \in Refs, at \in FolderRefs : Move(ref, at)
     \/ \E ref \in Refs, name \in Names : Rename(ref, name)
     \/ \E refs \in {{ref} : ref \in Refs} \cup Pairs, recursive \in BOOLEAN : Delete(refs, recursive)
     \/ EmptyTrash
     \/ \E ref \in Refs : Download(ref)
-----------------------------------------------------------------------------
(* How it goes on: one remote command per step.                            *)

\* The next command is an `act`; it is done and the rest is left.
Next1(act) ==
  /\ result = "running" /\ Head(todo).act = act
  /\ todo' = Tail(todo)
  /\ result' = IF Len(todo) = 1 THEN "done" ELSE "running"
  /\ UNCHANGED <<request, fresh, ops, edits, before, calm, raced>>

\* The connection is lost, a command fails, or the program is stopped.
Fail ==
  /\ result = "running"
  /\ result' = "failed" /\ todo' = <<>> /\ held' = NoItem
  /\ UNCHANGED <<meta, parts, local, request, fresh, ops, edits, before, calm, raced, halved>>

PutPart ==
  /\ Next1("put")
  /\ parts' = [parts EXCEPT ![Head(todo).uuid] = @ \cup {Head(todo).part}]
  /\ UNCHANGED <<meta, local, held, halved>>

\* cp fails when the payload is gone; the operation can then only fail.
CopyPart ==
  /\ Next1("copy") /\ "payload" \in parts[Head(todo).from]
  /\ parts' = [parts EXCEPT ![Head(todo).uuid] = @ \cup {"payload"}]
  /\ UNCHANGED <<meta, local, held, halved>>

RegisterItem ==
  /\ Next1("register")
  /\ meta' = [meta EXCEPT ![Head(todo).uuid] = Head(todo).entry]
  /\ UNCHANGED <<parts, local, held, halved>>

\* update_metadata: cat, which fails when the item is gone, ...
ReadMetadata ==
  /\ Next1("read") /\ meta[Head(todo).uuid] # NoItem
  /\ held' = meta[Head(todo).uuid]
  /\ UNCHANGED <<meta, parts, local, halved>>

Merged(entry, change) ==
  [entry EXCEPT !.name = IF change.name = Same THEN @ ELSE change.name,
                !.parent = IF change.parent = Stop THEN @ ELSE change.parent]

\* Mutant of WriteMetadata: the listing's fields are written back.
WriteMetadataListed ==
  /\ Next1("write")
  /\ meta' = [meta EXCEPT ![Head(todo).uuid] = Merged(before[Head(todo).uuid], Head(todo).entry)]
  /\ held' = NoItem
  /\ UNCHANGED <<parts, local, halved>>

\* ... the change, and the whole file written back.
WriteMetadata ==
  /\ Next1("write")
  /\ meta' = [meta EXCEPT ![Head(todo).uuid] = Merged(held, Head(todo).entry)]
  /\ held' = NoItem
  /\ UNCHANGED <<parts, local, halved>>

\* rm removes one file after the other.
DropPart ==
  LET u == Head(todo).uuid
      part == Head(todo).part
  IN /\ Next1("drop")
     /\ IF part = "metadata" THEN meta' = [meta EXCEPT ![u] = NoItem] /\ UNCHANGED parts
                             ELSE parts' = [parts EXCEPT ![u] = @ \ {part}] /\ UNCHANGED meta
     /\ halved' = IF part = "payload" THEN halved \ {u} ELSE halved \cup {u}
     /\ UNCHANGED <<local, held>>

\* download_item: the payload, or every file of a notebook in one tar.
FetchItem ==
  LET u == Head(todo).uuid IN
  /\ Next1("fetch")
  /\ IF Head(todo).part[2] = "pdf" THEN "payload" \in parts[u]
                                   ELSE parts[u] # {} \/ meta[u] # NoItem
  /\ local' = [f \in DOMAIN local \cup {Head(todo).part} |->
                 IF f = Head(todo).part THEN u ELSE local[f]]
  /\ UNCHANGED <<meta, parts, held, halved>>
-----------------------------------------------------------------------------
(* The tablet's own program.                                               *)

\* Something between the read and the write of a metadata file.
Races(uuids) ==
  raced' = IF todo # <<>> /\ Head(todo).act = "write" /\ Head(todo).uuid \in uuids
             THEN raced \cup {Head(todo).uuid} ELSE raced

\* Acts before the first operation only lead to another first tree, and nothing
\* looks at those after the last.
TabletActs(uuids) ==
  /\ result = "running" \/ ops \in 1..MaxOps - 1
  /\ edits < MaxEdits /\ edits' = edits + 1
  /\ calm' = FALSE /\ Races(uuids)
  /\ UNCHANGED <<local, opVars, ops, before>>

TabletRenames(u, name) ==
  /\ meta[u] # NoItem /\ TabletActs({u})
  /\ meta' = [meta EXCEPT ![u].name = name]
  /\ UNCHANGED <<parts, fresh, halved>>

\* To the trash as well.
TabletMoves(u, p) ==
  /\ meta[u] # NoItem /\ TabletActs({u})
  /\ p \in DOMAIN Listing => IsFolder(Listing, p) /\ ~IsDescendant(Listing, p, u)
  /\ meta' = [meta EXCEPT ![u].parent = p]
  /\ UNCHANGED <<parts, fresh, halved>>

TabletCreates(name, p, kind) ==
  /\ fresh <= NumItems /\ TabletActs({fresh})
  /\ p \in DOMAIN Listing => IsFolder(Listing, p)
  /\ meta' = [meta EXCEPT ![fresh] = [name |-> name, parent |-> p, kind |-> kind]]
  /\ parts' = [parts EXCEPT ![fresh] = Complete(kind)]
  /\ fresh' = fresh + 1
  /\ UNCHANGED halved

\* It empties its trash.
TabletPurges ==
  LET gone == Doomed(Listing, Children(Listing, Trash)) IN
  /\ gone # {} /\ TabletActs(gone)
  /\ meta' = [u \in Uuids |-> IF u \in gone THEN NoItem ELSE meta[u]]
  /\ parts' = [u \in Uuids |-> IF u \in gone THEN {} ELSE parts[u]]
  /\ halved' = halved \ gone
  /\ UNCHANGED fresh

Tablet ==
  \/ \E u \in Uuids, name \in Names : TabletRenames(u, name)
  \/ \E u \in Uuids, p \in DOMAIN Listing \cup {Root, Trash} : TabletMoves(u, p)
  \/ \E name \in Names, p \in DOMAIN Listing \cup {Root}, kind \in {"folder", "notebook"} :
       TabletCreates(name, p, kind)
  \/ TabletPurges

Next ==
  \/ Start \/ Fail \/ Tablet
  \/ PutPart \/ CopyPart \/ RegisterItem \/ ReadMetadata \/ WriteMetadata \/ DropPart \/ FetchItem

Spec == Init /\ [][Next]_vars
-----------------------------------------------------------------------------
(* What the operations promise, said without the code's walks.             *)

TypeOK ==
  /\ meta \in [Uuids -> Entry \cup {NoItem}]
  /\ parts \in [Uuids -> SUBSET Parts]
  /\ \A f \in DOMAIN local : local[f] \in Uuids
  /\ result \in {"idle", "running", "done", "failed", "refused"}
  /\ (result = "running") = (todo # <<>>)
  /\ held \in Entry \cup {NoItem}
  /\ fresh \in 1..NumItems + 1
  /\ \A u \in Uuids : u >= fresh => meta[u] = NoItem
  /\ ops \in 0..MaxOps /\ edits \in 0..MaxEdits
  /\ raced \subseteq Uuids /\ halved \subseteq Uuids

\* A document the tablet shows has the files it cannot be opened without: an
\* operation stopped anywhere leaves invisible files, never a broken document.
\* Two holes are known: rm stopped between an item's files (.content goes before
\* .metadata), and an item purged between the read and the write of its metadata.
NoBrokenDocument ==
  \A u \in Uuids \ (halved \cup raced) :
    meta[u] # NoItem => Essential(meta[u].kind) \subseteq parts[u]

\* The listing is a tree: parents are folders that exist, the root or the trash,
\* no item is below itself, and siblings (the trash apart) have different names.
Sound(items) ==
  \A u \in DOMAIN items :
    /\ items[u].parent \in DOMAIN items \cup {Root, Trash}
    /\ items[u].parent \in DOMAIN items => IsFolder(items, items[u].parent)
    /\ ~IsDescendant(items, items[u].parent, u)
    /\ items[u].parent # Trash => Named(items, items[u].parent, items[u].name) = {u}

\* While the tablet is left alone, a tree stays a tree after every command of
\* an operation, also of one that stops halfway: no orphan, cycle or duplicate.
StaysATree == calm /\ Sound(before) => Sound(Listing)

\* Path segments match a pattern if they can be cut up among its segments.
Fits(pattern, path) ==
  \E cut \in [0..Len(pattern) -> 0..Len(path)] :
    /\ cut[0] = 0 /\ cut[Len(pattern)] = Len(path)
    /\ \A i \in DOMAIN pattern :
         IF pattern[i] = Many
           THEN cut[i - 1] + (IF i = Len(pattern) THEN 1 ELSE 0) <= cut[i]
           ELSE cut[i] = cut[i - 1] + 1 /\ SegmentMatch(pattern[i], path[cut[i]])

\* The items a reference stands for: the one it names, or those that fit.
Denoted(items, ref) ==
  LET rooted == {u \in DOMAIN items : Rooted(items, u)}
      exact == {u \in rooted : BuildPath(items, u) = ref.path}
  IN IF ref.uuid \in DOMAIN items THEN {ref.uuid}
     ELSE IF exact # {} THEN exact
     ELSE {u \in rooted : Fits(ref.path, BuildPath(items, u))}

Place(items, ref) ==
  IF ref.path = <<>> THEN Root ELSE CHOOSE u \in Denoted(items, ref) : TRUE

\* What an item of the listing is to be when the operation on the targets, with
\* the folder `at`, has ended.
After(u, targets, at) ==
  LET item == before[u] IN
  CASE request.do = "delete" -> IF \E t \in targets : IsDescendant(before, u, t) THEN NoItem ELSE item
    [] request.do = "empty" -> IF IsDescendant(before, u, Trash) THEN NoItem ELSE item
    [] request.do = "move" /\ u \in targets -> [item EXCEPT !.parent = at]
    [] request.do = "rename" /\ u \in targets -> [item EXCEPT !.name = request.name]
    [] request.do = "relocate" /\ u \in targets -> [item EXCEPT !.parent = at, !.name = request.name]
    [] OTHER -> item

New == DOMAIN Listing \ DOMAIN before

\* What the operation is to add: nothing, one document, or missing folders.
AddsWhatItShould(at) ==
  CASE request.do = "upload" ->
         \E u \in New : New = {u} /\ meta[u].name = request.name /\ meta[u].parent = at
                        /\ Essential(meta[u].kind) \subseteq parts[u]
    [] request.do = "mkdir" ->
         \E ref \in request.refs : \E way \in [1..Len(ref.path) -> DOMAIN Listing] :
           /\ New \subseteq Range(way)
           /\ \A i \in DOMAIN way :
                /\ meta[way[i]] = [name |-> ref.path[i], kind |-> "folder",
                                   parent |-> IF i = 1 THEN at ELSE way[i - 1]]
                /\ parts[way[i]] = Complete("folder")
    [] OTHER -> New = {}

\* An operation does what its arguments say and nothing else: every item is as
\* the listing had it or as the operation is to leave it, all of them the latter
\* when it reports success and the former when it refuses; references and globs
\* stand for the items their printed paths say; a download keeps documents apart.
DoesWhatItSays ==
  LET denoted == [ref \in request.refs |-> Denoted(before, ref)]
      targets == UNION Range(denoted)
      at == Place(before, request.at)
      after == [u \in DOMAIN before |-> After(u, targets, at)]
  IN CASE ~calm \/ result = "idle" -> TRUE
       [] calm /\ result = "refused" -> Listing = before /\ local = <<>>
       [] calm /\ result \in {"running", "failed"} ->
            \A u \in DOMAIN before : meta[u] \in {before[u], after[u]}
       [] calm /\ result = "done" ->
            /\ \A u \in DOMAIN before : meta[u] = after[u] /\ (meta[u] = NoItem => parts[u] = {})
            /\ AddsWhatItShould(at)
            /\ request.do # "mkdir" => {} \notin Range(denoted)
            /\ request.do = "download" =>
                 Range(local) = {u \in targets : before[u].kind # "folder"}

\* An operation that changes a field of an item leaves the item's other fields
\* as the tablet last set them, and does not bring back an item the tablet
\* removed, unless the tablet acted in the moment between read and write.
TabletActsSurvive ==
  [][\A u \in Uuids \ raced :
       result = "running" /\ Head(todo).act = "write" /\ meta'[u] # meta[u]
         /\ calm' = calm /\ edits' = edits =>
         /\ meta[u] # NoItem
         /\ request.do \in {"rename", "update"} => meta'[u].parent = meta[u].parent
         /\ request.do \in {"move", "update"} => meta'[u].name = meta[u].name]_vars
=============================================================================

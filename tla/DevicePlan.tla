----------------------------- MODULE DevicePlan -----------------------------
(***************************************************************************)
(* The pure planner of filesystem <-> tablet sync (sync.rs): the device    *)
(* snapshot, the fingerprint candidates, detect_moves and plan().          *)
(*                                                                         *)
(* A path has a target on the device, [dir, stem], and a kind, its         *)
(* extension.  Documents are identified by uuid; content and its hash are  *)
(* one number, 0 = unknown; equal stamps are equal times.                  *)
(*                                                                         *)
(* A snapshot is a record: local[k] = [present, mtime, hash],              *)
(* doc[u] = [present, target, kind, lm, payload], state[k] = archive entry,*)
(* and the excluded uuids and targets.  Every folder exists on the device  *)
(* and holds an item sync leaves out, so no plan creates, moves or deletes *)
(* folders.  Skips are reports only and are left out of plans.             *)
(***************************************************************************)
EXTENDS SyncPolicy, FiniteSets

CONSTANTS
  Paths,     \* The sequence of [dir, stem, kind] of the tree, in BTreeMap order.
  NumDocs    \* Bound on the documents ever made; uuids are 1..NumDocs.

Key == DOMAIN Paths
Uuid == 1..NumDocs
Kind == {"pdf", "epub", "rmdoc"}

Target(k) == [dir |-> Paths[k].dir, stem |-> Paths[k].stem]
KindOf(k) == Paths[k].kind

\* Notebooks have no payload file; their .rmdoc bundle is made on the fly.
PayloadMirrored(kind) == kind \in {"pdf", "epub"}

\* The path a pull of the document produces.
LocalRelPath(d) == CHOOSE k \in Key : Target(k) = d.target /\ KindOf(k) = d.kind

NoEntry == [mapped |-> FALSE, kind |-> "pdf", uuid |-> 0, mtime |-> 0, lm |-> 0,
            pending |-> FALSE, hash |-> 0, payload |-> 0]

-----------------------------------------------------------------------------
\* Snapshots.

\* Present documents with the same folder and name are excluded.
Duplicate(doc, u) ==
  /\ doc[u].present
  /\ \E v \in Uuid \ {u} : doc[v].present /\ doc[v].target = doc[u].target

RemoteSnapshot(doc) ==
  LET dup == {u \in Uuid : Duplicate(doc, u)} IN
  [doc             |-> [u \in Uuid |-> [doc[u] EXCEPT !.present = @ /\ u \notin dup]],
   excludedUuids   |-> dup,
   excludedTargets |-> {doc[u].target : u \in dup}]

\* Mutant: the archived hash is used whatever the stamp.
AttachHashesByPath(local, state) ==
  [k \in Key |->
    IF state[k].mapped /\ state[k].hash # 0
    THEN [local[k] EXCEPT !.hash = state[k].hash]
    ELSE local[k]]

\* attach_hashes: a file whose stamp is the archived one is not read again.
AttachHashes(local, state) ==
  [k \in Key |->
    IF state[k].mapped /\ state[k].mtime = local[k].mtime /\ state[k].hash # 0
    THEN [local[k] EXCEPT !.hash = state[k].hash]
    ELSE local[k]]

RemoteStampChanged(st, u, d) == st.pending \/ st.uuid # u \/ d.lm # st.lm

Mapped(s, u) == \E k \in Key : s.state[k].mapped /\ s.state[k].uuid = u

\* Mutant: another path's document is a successor too.
SuccessorOfAny(s, k) ==
  {u \in Uuid : /\ s.doc[u].present
                /\ s.doc[u].target = Target(k)
                /\ s.doc[u].kind = s.state[k].kind}

\* Mutant: the successor's name is not compared.
SuccessorAnywhere(s, k) ==
  {u \in Uuid : /\ s.doc[u].present
                /\ ~Mapped(s, u)
                /\ s.doc[u].kind = s.state[k].kind}

\* The unmapped document that took the place of a vanished one.
Successor(s, k) ==
  {u \in Uuid : /\ s.doc[u].present
                /\ ~Mapped(s, u)
                /\ s.doc[u].target = Target(k)
                /\ s.doc[u].kind = s.state[k].kind}

DeviceHashCandidates(s) ==
  LET DocOf(k) == IF s.state[k].uuid \in Uuid /\ s.doc[s.state[k].uuid].present
                  THEN {s.state[k].uuid} ELSE Successor(s, k)
      mapped == {u \in Uuid : \E k \in Key :
                   /\ s.state[k].mapped
                   /\ u \in DocOf(k)
                   /\ s.state[k].payload # 0
                   /\ RemoteStampChanged(s.state[k], u, s.doc[u])}
      \* all files have one size, the case in which the size filter passes
      adoption == {u \in Uuid : /\ s.doc[u].present
                                /\ ~Mapped(s, u)
                                /\ \E k \in Key : s.local[k].present}
  IN {u \in mapped \cup adoption : PayloadMirrored(s.doc[u].kind)}

AttachPayloadHashes(s, wanted) ==
  [s EXCEPT !.doc =
    [u \in Uuid |-> IF u \in wanted THEN s.doc[u] ELSE [s.doc[u] EXCEPT !.payload = 0]]]

\* Everything run_device_sync hands to plan().
PlanInput(local, doc, state) ==
  LET r == RemoteSnapshot(doc)
      s == [local |-> AttachHashes(local, state), doc |-> r.doc, state |-> state,
            excludedUuids |-> r.excludedUuids, excludedTargets |-> r.excludedTargets]
  IN AttachPayloadHashes(s, DeviceHashCandidates(s))

ExcludesPath(s, k) == Target(k) \in s.excludedTargets

\* Also when the mapped document is there but excluded.
ExcludesMapped(s, k) ==
  \/ ExcludesPath(s, k)
  \/ s.state[k].mapped /\ s.state[k].uuid \in s.excludedUuids

DeviceTaken(s) == {s.doc[u].target : u \in {v \in Uuid : s.doc[v].present}}

HasDoc(s, st) == st.mapped /\ st.uuid \in Uuid /\ s.doc[st.uuid].present

-----------------------------------------------------------------------------
\* Actions.  `key` is the path acted on (of a move: its old path), `other` the
\* second path of a move or a copy.
Action(op, key) ==
  [op |-> op, key |-> key, other |-> key, kind |-> KindOf(key), uuid |-> 0,
   lm |-> 0, hash |-> 0, payload |-> 0]

Conflict(k) == {Action("Conflict", k)}
Forget(k) == {Action("Forget", k)}
DeleteLocal(k) == {Action("DeleteLocal", k)}
DeleteRemote(k, u) == {[Action("DeleteRemote", k) EXCEPT !.uuid = u]}
Rebind(k, u) == [Action("Rebind", k) EXCEPT !.uuid = u]
UpdateRemote(k, u, hash) == {[Action("UpdateRemote", k) EXCEPT !.uuid = u, !.hash = hash]}
Download(k, u, d) ==
  {[Action("Download", k) EXCEPT !.uuid = u, !.lm = d.lm, !.kind = d.kind]}

\* Mutant: without a winner, the local side wins.
ByWinnerLocal(w, nobody, local, remote) ==
  IF w = "Remote" THEN remote ELSE local

ByWinner(w, nobody, local, remote) ==
  CASE w = "Nobody" -> nobody [] w = "Local" -> local [] w = "Remote" -> remote

When(condition, actions) == IF condition THEN actions ELSE {}

-----------------------------------------------------------------------------
\* detect_moves.  Local moves: a vanished mapped path and a new unmapped file
\* with the same hash and kind; the device copy must be unchanged.

MoveSource(s, k) ==
  /\ s.state[k].mapped
  /\ ~s.local[k].present
  /\ ~ExcludesMapped(s, k)
  /\ s.state[k].hash # 0
  /\ HasDoc(s, s.state[k])
  /\ ~RemoteStampChanged(s.state[k], s.state[k].uuid, s.doc[s.state[k].uuid])

MoveTarget(s, k) == s.local[k].present /\ ~s.state[k].mapped /\ ~ExcludesPath(s, k)

Stem(k) == Paths[k].stem

\* Filename tie-break first, then an unambiguous pair of what is left.
PairMoves(sources, targets) ==
  LET named == {p \in [from : sources, to : targets] :
                  /\ {k \in sources : Stem(k) = Stem(p.to)} = {p.from}
                  /\ \A k \in targets : Stem(k) = Stem(p.to) => p.to <= k}
      leftFrom == sources \ {p.from : p \in named}
      leftTo   == targets \ {p.to : p \in named}
  IN named \cup IF Cardinality(leftFrom) = 1 /\ Cardinality(leftTo) = 1
                THEN [from : leftFrom, to : leftTo] ELSE {}

MoveCandidates(s) ==
  UNION {PairMoves({k \in Key : MoveSource(s, k) /\ s.state[k].hash = h /\ s.state[k].kind = kind},
                   {k \in Key : MoveTarget(s, k) /\ s.local[k].hash = h /\ KindOf(k) = kind})
         : h \in {s.state[k].hash : k \in Key}, kind \in Kind}

\* The groups are visited by hash, then kind (hashes stand for their order).
KindRank(kind) == CASE kind = "pdf" -> 1 [] kind = "epub" -> 2 [] kind = "rmdoc" -> 3

EarlierGroup(s, k, j) ==
  \/ s.local[k].hash < s.local[j].hash
  \/ s.local[k].hash = s.local[j].hash /\ KindRank(KindOf(k)) < KindRank(KindOf(j))

\* A device name already taken, or claimed by an earlier pair, blocks the move.
RemoteMoves(s) ==
  LET pairs == MoveCandidates(s) IN
  {p \in pairs : /\ Target(p.to) \notin DeviceTaken(s)
                 /\ ~\E q \in pairs : /\ Target(q.to) = Target(p.to)
                                      /\ EarlierGroup(s, q.to, p.to)}

MoveRemote(s, p) ==
  LET st == s.state[p.from] IN
  [Action("MoveRemote", p.from) EXCEPT
     !.other = p.to, !.kind = st.kind, !.uuid = st.uuid, !.hash = st.hash, !.payload = st.payload]

\* Re-keyed with the new stat stamp: the table sees a clean entry.
AfterRemoteMoves(s, pairs) ==
  [s EXCEPT !.state = [k \in Key |->
     IF \E p \in pairs : p.to = k
     THEN [s.state[(CHOOSE p \in pairs : p.to = k).from] EXCEPT !.mtime = s.local[k].mtime]
     ELSE IF \E p \in pairs : p.from = k THEN NoEntry ELSE s.state[k]]]

\* Device moves: the uuid is the identity.  `s` has the entries re-keyed by the
\* local moves; the documents are still where the device has them.
FollowsDevice(s, k) ==
  /\ HasDoc(s, s.state[k])
  /\ ~s.state[k].pending
  /\ s.local[k].present
  /\ ~ExcludesMapped(s, k)
  /\ LET new == LocalRelPath(s.doc[s.state[k].uuid]) IN
     /\ new # k
     /\ ~ExcludesPath(s, new)
     /\ ~s.local[new].present
     /\ ~s.state[new].mapped

\* The lastModified a move recorded: the bump of the move is absorbed only when
\* the payload hash proves the content unchanged.
MovedLm(st, d) == IF d.payload # 0 /\ d.payload = st.payload THEN d.lm ELSE st.lm

LocalMoves(s) ==
  {[from |-> k, to |-> LocalRelPath(s.doc[s.state[k].uuid]),
    lm |-> MovedLm(s.state[k], s.doc[s.state[k].uuid])] : k \in {j \in Key : FollowsDevice(s, j)}}

MoveLocal(s, m) ==
  [Action("MoveLocal", m.from) EXCEPT
     !.other = m.to, !.uuid = s.state[m.from].uuid, !.lm = m.lm]

AfterLocalMoves(s, moves) ==
  LET MoveTo(k) == CHOOSE m \in moves : m.to = k
      Moved(f, none) == [k \in Key |->
        IF \E m \in moves : m.to = k THEN f[MoveTo(k).from]
        ELSE IF \E m \in moves : m.from = k THEN none ELSE f[k]]
      state == Moved(s.state, NoEntry)
  IN [s EXCEPT
       !.local = Moved(s.local, [present |-> FALSE, mtime |-> 0, hash |-> 0]),
       !.state = [k \in Key |-> IF \E m \in moves : m.to = k
                                THEN [state[k] EXCEPT !.lm = MoveTo(k).lm] ELSE state[k]]]

Prepass(o, s) ==
  LET pairs  == When(CanWriteRemote(o.mode), RemoteMoves(s))
      rekeyed == AfterRemoteMoves(s, pairs)
      moves  == When(CanWriteLocal(o.mode), LocalMoves(rekeyed))
  IN [actions  |-> {MoveRemote(s, p) : p \in pairs} \cup {MoveLocal(rekeyed, m) : m \in moves},
      snapshot |-> AfterLocalMoves(rekeyed, moves)]

-----------------------------------------------------------------------------
\* The three-way table.

\* Mapped paths whose document vanished look for a successor in path order; a
\* document is claimed once.
Wants(s, k, u) ==
  s.state[k].mapped /\ ~HasDoc(s, s.state[k]) /\ ~ExcludesMapped(s, k) /\ u \in Successor(s, k)

Claims(s, k, u) == Wants(s, k, u) /\ ~\E j \in Key : j < k /\ Wants(s, j, u)

\* The documents of key k: its mapped one, the successor it claims, or the
\* unmapped document a pull would put there (at most one of them).
ViewDoc(s, k) ==
  LET st == s.state[k] IN
  CASE st.mapped /\ HasDoc(s, st)  -> {st.uuid}
    [] st.mapped /\ ~HasDoc(s, st) -> {u \in Uuid : Claims(s, k, u)}
    [] ~st.mapped -> {u \in Uuid : /\ s.doc[u].present
                                   /\ ~Mapped(s, u)
                                   /\ LocalRelPath(s.doc[u]) = k
                                   /\ ~\E j \in Key : Wants(s, j, u)}

Rebinds(s) ==
  UNION {{Rebind(k, u) : u \in When(s.state[k].mapped /\ ~HasDoc(s, s.state[k]), ViewDoc(s, k))}
         : k \in Key}

\* Mutant: only files of one kind compete.
CrowdedByKind(s, k) ==
  \E j \in Key \ {k} : /\ Target(j) = Target(k) /\ KindOf(j) = KindOf(k)
                       /\ s.local[j].present /\ ViewDoc(s, j) = {}

\* Several new local files compete for one device name.
Crowded(s, k) ==
  \E j \in Key \ {k} : Target(j) = Target(k) /\ s.local[j].present /\ ViewDoc(s, j) = {}

\* Content indexes: sources that this plan does not overwrite; the last wins.
LastOf(keys) == CHOOSE k \in keys : \A j \in keys : j <= k

CopySources(s, written, hash) ==
  {k \in Key : /\ HasDoc(s, s.state[k])
               /\ s.state[k].uuid \notin written.docs
               /\ s.state[k].payload = hash
               /\ PayloadMirrored(s.doc[s.state[k].uuid].kind)
               /\ ~RemoteStampChanged(s.state[k], s.state[k].uuid, s.doc[s.state[k].uuid])}

LocalByHash(s, written, hash) ==
  {k \in Key : s.local[k].present /\ k \notin written.files /\ s.local[k].hash = hash}

UploadWithGuards(s, written, k) ==
  LET hash == s.local[k].hash
      sources == When(written.copies, CopySources(s, written, hash))
  IN CASE Target(k) \in DeviceTaken(s) \/ Crowded(s, k) -> {}
       [] OTHER ->
          IF sources # {} /\ s.state[LastOf(sources)].kind = KindOf(k)
          THEN {[Action("CopyRemote", k) EXCEPT
                   !.uuid = s.state[LastOf(sources)].uuid, !.hash = hash]}
          ELSE {[Action("Upload", k) EXCEPT !.hash = hash]}

MappedBoth(o, s, k, u) ==
  LET st == s.state[k]
      e  == s.local[k]
      d  == s.doc[u]
      stampLocal    == e.mtime # st.mtime
      stampRemote   == RemoteStampChanged(st, u, d)
      localChanged  == stampLocal /\ e.hash # st.hash
      remoteChanged == stampRemote /\ ~(d.payload # 0 /\ d.payload = st.payload)
      pushed == When(CanWriteRemote(o.mode) /\ st.kind # "rmdoc", UpdateRemote(k, u, e.hash))
      pulled == When(CanWriteLocal(o.mode), Download(k, u, d))
      w == Winner(o.conflict, e.mtime, d.lm)
  IN CASE ~localChanged /\ ~remoteChanged ->
            When(stampLocal \/ stampRemote,
                 {[Action("Refresh", k) EXCEPT
                     !.kind = st.kind, !.uuid = u, !.lm = d.lm, !.hash = e.hash,
                     !.payload = IF d.payload # 0 THEN d.payload ELSE st.payload]})
       [] localChanged /\ ~remoteChanged ->
            IF CanWriteRemote(o.mode) THEN pushed
            ELSE ByWinner(w, Conflict(k), {}, Download(k, u, d))
       [] ~localChanged /\ remoteChanged -> pulled
       [] localChanged /\ remoteChanged -> ByWinner(w, Conflict(k), pushed, pulled)

MappedRemoteGone(o, s, written, k) ==
  LET e == s.local[k]
      changed == e.mtime # s.state[k].mtime
      upload == UploadWithGuards(s, written, k)
      w == Winner(o.conflict, e.mtime, DeletedMs)
  IN CASE o.mode = "Push" -> upload
       [] o.mode # "Push" /\ ~o.delete -> When(o.mode = "TwoWay", upload)
       [] o.mode # "Push" /\ o.delete /\ ~changed -> DeleteLocal(k)
       [] o.mode # "Push" /\ o.delete /\ changed ->
            ByWinner(w, Conflict(k), IF o.mode = "Pull" THEN Forget(k) ELSE upload, DeleteLocal(k))

\* Mutant: without --delete, a removed file is not downloaded again.
MappedLocalGoneIgnored(o, s, k, u) ==
  LET d == s.doc[u]
      w == Winner(o.conflict, DeletedMs, d.lm)
  IN CASE o.mode = "Pull" -> Download(k, u, d)
       [] o.mode # "Pull" /\ ~o.delete -> {}
       [] o.mode # "Pull" /\ o.delete /\ ~RemoteStampChanged(s.state[k], u, d) -> DeleteRemote(k, u)
       [] o.mode # "Pull" /\ o.delete /\ RemoteStampChanged(s.state[k], u, d) ->
            ByWinner(w, Conflict(k), DeleteRemote(k, u),
                     IF o.mode = "Push" THEN Forget(k) ELSE Download(k, u, d))

MappedLocalGone(o, s, k, u) ==
  LET d == s.doc[u]
      download == Download(k, u, d)
      w == Winner(o.conflict, DeletedMs, d.lm)
  IN CASE o.mode = "Pull" -> download
       [] o.mode # "Pull" /\ ~o.delete -> When(o.mode = "TwoWay", download)
       [] o.mode # "Pull" /\ o.delete /\ ~RemoteStampChanged(s.state[k], u, d) -> DeleteRemote(k, u)
       [] o.mode # "Pull" /\ o.delete /\ RemoteStampChanged(s.state[k], u, d) ->
            ByWinner(w, Conflict(k), DeleteRemote(k, u),
                     IF o.mode = "Push" THEN Forget(k) ELSE download)

\* An unmapped document: copied from a local file with its bytes, or downloaded.
NewDocument(s, written, k, u) ==
  LET d == s.doc[u]
      twins == When(written.copies /\ d.payload # 0, LocalByHash(s, written, d.payload))
  IN IF twins # {} /\ LastOf(twins) # k
     THEN {[Action("CopyLocal", k) EXCEPT !.other = LastOf(twins), !.kind = d.kind,
              !.uuid = u, !.lm = d.lm, !.hash = d.payload, !.payload = d.payload]}
     ELSE Download(k, u, d)

\* Mutant: a document whose hash is known is adopted without comparing it.
CollisionAdopts(o, s, k, u) ==
  LET e == s.local[k]
      d == s.doc[u]
  IN IF d.payload # 0
     THEN {[Action("Adopt", k) EXCEPT !.uuid = u, !.lm = d.lm, !.hash = e.hash, !.payload = e.hash]}
     ELSE ByWinner(Winner(o.conflict, e.mtime, d.lm), Conflict(k),
                   When(CanWriteRemote(o.mode), UpdateRemote(k, u, e.hash)),
                   When(CanWriteLocal(o.mode), Download(k, u, d)))

Collision(o, s, k, u) ==
  LET e == s.local[k]
      d == s.doc[u]
  IN IF d.payload # 0 /\ e.hash = d.payload
     THEN {[Action("Adopt", k) EXCEPT !.uuid = u, !.lm = d.lm, !.hash = e.hash, !.payload = e.hash]}
     ELSE ByWinner(Winner(o.conflict, e.mtime, d.lm),
                   Conflict(k),
                   When(CanWriteRemote(o.mode),
                        IF KindOf(k) = "rmdoc" THEN Conflict(k) ELSE UpdateRemote(k, u, e.hash)),
                   When(CanWriteLocal(o.mode), Download(k, u, d)))

\* `written` has the sources the copy indexes leave out, and whether there are
\* indexes at all: the first pass decides without them.
DecideOne(o, s, written, k, u) ==
  CASE s.state[k].mapped /\ s.local[k].present  -> MappedBoth(o, s, k, u)
    [] s.state[k].mapped /\ ~s.local[k].present -> MappedLocalGone(o, s, k, u)
    [] ~s.state[k].mapped /\ s.local[k].present -> Collision(o, s, k, u)
    [] OTHER -> When(CanWriteLocal(o.mode), NewDocument(s, written, k, u))

DecideNone(o, s, written, k) ==
  CASE s.state[k].mapped /\ s.local[k].present  -> MappedRemoteGone(o, s, written, k)
    [] s.state[k].mapped /\ ~s.local[k].present -> Forget(k)
    [] ~s.state[k].mapped /\ s.local[k].present ->
         When(CanWriteRemote(o.mode), UploadWithGuards(s, written, k))
    [] OTHER -> {}

Decide(o, s, written, k) ==
  LET docs == ViewDoc(s, k) IN
  CASE ExcludesMapped(s, k) -> {}
    [] ~ExcludesMapped(s, k) /\ docs = {} -> DecideNone(o, s, written, k)
    [] OTHER -> UNION {DecideOne(o, s, written, k, u) : u \in docs}

DecideAll(o, s, written) == UNION {Decide(o, s, written, k) : k \in Key}

\* The plan: rebinds, moves and the table's decisions.
TableActions(o, s) ==
  LET first == DecideAll(o, s, [copies |-> FALSE, docs |-> {}, files |-> {}])
      written == [copies |-> TRUE,
                  docs   |-> {a.uuid : a \in {b \in first : b.op = "UpdateRemote"}},
                  files  |-> {a.key : a \in {b \in first : b.op = "Download"}}]
  IN Rebinds(s) \cup DecideAll(o, s, written)

MakeActions(o, input) ==
  UNION {pre.actions \cup TableActions(o, pre.snapshot) : pre \in {Prepass(o, input)}}

\* Mutant: files are renamed after the transfers.
RankMovesLast(op) ==
  CASE op = "Rebind" -> 1
    [] op \in {"Refresh", "Adopt"} -> 2
    [] op = "MoveRemote" -> 3
    [] op \in {"Upload", "UpdateRemote", "Download", "CopyRemote", "CopyLocal"} -> 4
    [] op = "MoveLocal" -> 5
    [] op \in {"DeleteLocal", "DeleteRemote"} -> 6
    [] op = "Forget" -> 7
    [] op = "Conflict" -> 8

\* The buckets in execution order.
Rank(op) ==
  CASE op = "Rebind" -> 1
    [] op \in {"Refresh", "Adopt"} -> 2
    [] op = "MoveRemote" -> 3
    [] op = "MoveLocal" -> 4
    [] op \in {"Upload", "UpdateRemote", "Download", "CopyRemote", "CopyLocal"} -> 5
    [] op \in {"DeleteLocal", "DeleteRemote"} -> 6
    [] op = "Forget" -> 7
    [] op = "Conflict" -> 8

\* A move of the left-over pair of its group, not paired by name.
LeftOver(a) == IF Stem(a.key) = Stem(a.other) THEN 0 ELSE 1

\* The documents are moved group by group, by hash, then kind; in a group the
\* pairs of one name come first, by their new path.
MovedBefore(a, b) ==
  \/ a.hash < b.hash
  \/ /\ a.hash = b.hash
     /\ \/ KindRank(a.kind) < KindRank(b.kind)
        \/ /\ a.kind = b.kind
           /\ \/ LeftOver(a) < LeftOver(b)
              \/ LeftOver(a) = LeftOver(b) /\ a.other < b.other

\* Within another bucket, the order of the table's keys.
Before(a, b) ==
  \/ Rank(a.op) < Rank(b.op)
  \/ a.op = "MoveRemote" /\ b.op = "MoveRemote" /\ MovedBefore(a, b)
  \/ Rank(a.op) = Rank(b.op) /\ a.op # "MoveRemote" /\ a.key < b.key
=============================================================================

------------------------- MODULE DeviceSyncArchive --------------------------
(***************************************************************************)
(* What the archive of DeviceSync vouches for: a file and a document that  *)
(* both have the stamps of their entry are equal, so a run may skip them.  *)
(* The inductive invariant VouchInv follows the hashes that the planner    *)
(* puts into its actions until they are saved with the stamps that the     *)
(* executor reads.                                                         *)
(***************************************************************************)
EXTENDS DeviceSyncProofs

-----------------------------------------------------------------------------
(* What the archive vouches for. *)

\* An entry's stamp of a file, its stamp of a document, and its two hashes.
FileVouched(e, f) == e.mapped /\ f.present /\ f.mtime = e.mtime => f.hash = e.hash
DocVouched(e, d) == e.mapped /\ ~e.pending /\ d.present /\ d.lm = e.lm => d.payload = e.hash
OneHash(e) == e.mapped /\ PayloadMirrored(e.kind) => e.payload = e.hash

\* Every entry of an archive vouches for its file and its document.
Vouches(entries, files) ==
  \A k \in Key : /\ FileVouched(entries[k], files[k])
                 /\ DocVouched(entries[k], doc[entries[k].uuid])
                 /\ OneHash(entries[k])

\* What a snapshot says of the documents is so.
ShowsDocs(s) ==
  \A u \in Uuid : s.doc[u].present =>
    /\ doc[u].present /\ s.doc[u].lm = doc[u].lm
    /\ s.doc[u].payload # 0 => s.doc[u].payload = doc[u].payload /\ PayloadMirrored(doc[u].kind)

Truthful(s) == Vouches(s.state, s.local) /\ ShowsDocs(s)

\* The hashes the listings come with are those of the contents.
LEMMA StartTruthful ==
  ASSUME TypeOK, DocsFit, EntriesFit, snap = local, Vouches(archive, local)
  PROVE  /\ Truthful(Start)
         /\ \A k \in Key : Start.local[k].present => Start.local[k] = local[k]
<1> DEFINE dup == {u \in Uuid : Duplicate(doc, u)}
           shown == [u \in Uuid |-> [doc[u] EXCEPT !.present = @ /\ u \notin dup]]
           hashed == AttachHashes(snap, archive)
           t == [local |-> hashed, doc |-> shown, state |-> archive,
                 excludedUuids |-> dup, excludedTargets |-> {doc[u].target : u \in dup}]
           wanted == DeviceHashCandidates(t)
           docs == [u \in Uuid |-> IF u \in wanted THEN shown[u] ELSE [shown[u] EXCEPT !.payload = 0]]
<1>1. ASSUME NEW k \in Key
      PROVE  /\ hashed[k].present => hashed[k] = local[k]
             /\ FileVouched(archive[k], hashed[k])
  <2>1. local[k] \in LocalFile /\ FileVouched(archive[k], local[k])
    BY DEF TypeOK, Vouches
  <2>2. hashed[k] = IF archive[k].mapped /\ archive[k].mtime = local[k].mtime /\ archive[k].hash # 0
                    THEN [local[k] EXCEPT !.hash = archive[k].hash] ELSE local[k]
    BY DEF AttachHashes
  <2> HIDE DEF hashed
  <2>3. CASE archive[k].mapped /\ archive[k].mtime = local[k].mtime /\ archive[k].hash # 0
    <3>1. hashed[k] = [local[k] EXCEPT !.hash = archive[k].hash]
      BY <2>2, <2>3
    <3>2. hashed[k].present = local[k].present /\ hashed[k].hash = archive[k].hash
      BY <2>1, <3>1 DEF LocalFile
    <3>3. local[k].present => local[k].hash = archive[k].hash
      BY <2>1, <2>3 DEF FileVouched
    <3>4. hashed[k].present => hashed[k] = local[k]
      BY <2>1, <3>1, <3>2, <3>3 DEF LocalFile
    <3>5. QED
      BY <3>2, <3>4 DEF FileVouched
  <2>4. CASE ~(archive[k].mapped /\ archive[k].mtime = local[k].mtime /\ archive[k].hash # 0)
    BY <2>1, <2>2, <2>4
  <2>5. QED
    BY <2>3, <2>4
<1>2. ASSUME NEW u \in Uuid
      PROVE  /\ shown[u] \in Doc /\ shown[u].kind = doc[u].kind
             /\ shown[u].lm = doc[u].lm /\ shown[u].payload = doc[u].payload
             /\ shown[u].present => doc[u].present
  <2>1. doc[u] \in Doc
    BY DEF TypeOK
  <2>2. QED
    BY <2>1 DEF Doc
<1>3. t.doc = shown
  OBVIOUS
<1>4. \A u \in wanted : PayloadMirrored(shown[u].kind)
  BY <1>3 DEF DeviceHashCandidates
<1>5. /\ Start.local = hashed /\ Start.state = archive /\ Start.doc = docs
  BY DEF Start, PlanInput, RemoteSnapshot, AttachPayloadHashes
<1> HIDE DEF t, shown, hashed, wanted, dup
<1>6. ASSUME NEW u \in Uuid, docs[u].present
      PROVE  /\ doc[u].present /\ docs[u].lm = doc[u].lm
             /\ docs[u].payload # 0 => docs[u].payload = doc[u].payload /\ PayloadMirrored(doc[u].kind)
  <2>1. CASE u \in wanted
    BY <1>2, <1>4, <1>6, <2>1
  <2>2. CASE u \notin wanted
    BY <1>2, <1>6, <2>2 DEF Doc
  <2>3. QED
    BY <2>1, <2>2
<1> HIDE DEF docs
<1>7. Truthful(Start)
  BY <1>1, <1>5, <1>6 DEF Truthful, Vouches, ShowsDocs
<1>8. QED
  BY <1>1, <1>5, <1>7

\* Entries re-keyed by the local moves vouch for the renamed files: a renamed
\* file has the bytes of its entry.
LEMMA RekeyedTruthful ==
  ASSUME TypeOK, DocsFit, EntriesFit, Truthful(Start)
  PROVE  Truthful(Rekeyed)
<1>1. Rekeyed.local = Start.local /\ Rekeyed.doc = Start.doc
  BY RekeyedParts
<1>2. ASSUME NEW p \in PlanPairs
      PROVE  /\ FileVouched(Rekeyed.state[p.to], Start.local[p.to])
             /\ DocVouched(Rekeyed.state[p.to], doc[Rekeyed.state[p.to].uuid])
             /\ OneHash(Rekeyed.state[p.to])
             /\ Rekeyed.state[p.from] = NoEntry
  <2> DEFINE e == Start.state[p.from]
  <2>1. /\ Rekeyed.state[p.to] = [e EXCEPT !.mtime = Start.local[p.to].mtime]
        /\ e \in Entry /\ p.from \in Key /\ Rekeyed.state[p.from] = NoEntry
    BY RekeyedParts
  <2>2. e.hash = Start.local[p.to].hash
    BY PlanParts, RemoteMovesMatch
  <2>3. DocVouched(e, doc[e.uuid]) /\ OneHash(e)
    BY <2>1 DEF Truthful, Vouches
  <2> HIDE DEF e
  <2>4. /\ Rekeyed.state[p.to].mapped = e.mapped /\ Rekeyed.state[p.to].uuid = e.uuid
        /\ Rekeyed.state[p.to].pending = e.pending /\ Rekeyed.state[p.to].lm = e.lm
        /\ Rekeyed.state[p.to].hash = e.hash /\ Rekeyed.state[p.to].payload = e.payload
        /\ Rekeyed.state[p.to].kind = e.kind
    BY <2>1 DEF Entry
  <2>5. QED
    BY <2>1, <2>2, <2>3, <2>4 DEF FileVouched, DocVouched, OneHash
<1>3. ASSUME NEW k \in Key
      PROVE  /\ FileVouched(Rekeyed.state[k], Rekeyed.local[k])
             /\ DocVouched(Rekeyed.state[k], doc[Rekeyed.state[k].uuid])
             /\ OneHash(Rekeyed.state[k])
  <2>1. CASE Rekeyed.state[k] = Start.state[k]
    BY <1>1, <2>1 DEF Truthful, Vouches
  <2>2. CASE Rekeyed.state[k] = NoEntry
    BY <2>2, NoEntryFits DEF FileVouched, DocVouched, OneHash
  <2>3. QED
    BY <1>1, <1>2, <2>1, <2>2, RekeyedParts
<1>4. QED
  BY <1>1, <1>3 DEF Truthful, Vouches, ShowsDocs

\* A file that follows its document comes with its stamp, its hash and its entry,
\* and no two files follow to one path.
LEMMA FollowedFiles ==
  ASSUME TypeOK, DocsFit, EntriesFit, MappedOnce
  PROVE  /\ \A m, n \in PlanMoves : m.to = n.to => m = n
         /\ \A m \in PlanMoves :
              /\ Seen.local[m.to] = Rekeyed.local[m.from]
              /\ Seen.state[m.to] = Stamped(Rekeyed.state[m.from], m.lm)
              /\ m.lm = MovedLm(Rekeyed.state[m.from], Rekeyed.doc[Rekeyed.state[m.from].uuid])
<1>1. ASSUME NEW m \in PlanMoves, NEW n \in PlanMoves, m.to = n.to PROVE m = n
  <2>1. /\ Rekeyed.state[m.from].uuid = Rekeyed.state[n.from].uuid
        /\ Rekeyed.state[m.from].mapped /\ Rekeyed.state[n.from].mapped
        /\ m.from \in Key /\ n.from \in Key
    BY <1>1, SeenOnce, SeenParts
  <2>2. m.from = n.from
    BY <2>1, RekeyedOnce DEF MappedOnceIn
  <2>3. QED
    BY <2>2, SeenParts
<1>2. ASSUME NEW m \in PlanMoves
      PROVE  Seen.local[m.to] = Rekeyed.local[m.from]
  <2> DEFINE n == CHOOSE x \in PlanMoves : x.to = m.to
  <2>1. m.to \in Key
    BY SeenParts
  <2>2. n \in PlanMoves /\ n.to = m.to
    OBVIOUS
  <2>3. n = m
    BY <1>1, <2>2
  <2>4. SnapFits(Rekeyed)
    BY RekeyedParts
  <2>5. Seen.local[m.to] = Rekeyed.local[n.from]
    BY <2>1, <2>4 DEF Seen, AfterLocalMoves, SnapFits, SnapType
  <2>6. QED
    BY <2>3, <2>5
<1>3. ASSUME NEW m \in PlanMoves
      PROVE  Seen.state[m.to] = Stamped(Rekeyed.state[m.from], m.lm)
  <2>1. m.to \in Key
    BY SeenParts
  <2>2. PICK n \in PlanMoves : n.to = m.to /\ Seen.state[m.to] = Stamped(Rekeyed.state[n.from], n.lm)
    BY <2>1, SeenParts
  <2>3. QED
    BY <1>1, <2>2
<1>4. ASSUME NEW m \in PlanMoves
      PROVE  m.lm = MovedLm(Rekeyed.state[m.from], Rekeyed.doc[Rekeyed.state[m.from].uuid])
  BY PlanParts DEF LocalMoves
<1>5. QED
  BY <1>1, <1>2, <1>3, <1>4

\* With bundles of notebooks an entry is of its document's kind.
LEMMA EntryOfKind ==
  ASSUME BundleKinds \subseteq {"rmdoc"}, NEW s, SnapFits(s), NEW k \in Key, HasDoc(s, s.state[k])
  PROVE  s.state[k].kind = doc[s.state[k].uuid].kind
BY DEF HasDoc, SnapFits, EntryFits, Bound, Fits

\* The entries the decision table sees vouch for the files it sees: the bump of
\* a move on the tablet is absorbed for unchanged bytes only.
LEMMA SeenTruthful ==
  ASSUME TypeOK, DocsFit, EntriesFit, MappedOnce, BundleKinds \subseteq {"rmdoc"}, Truthful(Rekeyed)
  PROVE  Truthful(Seen)
<1>1. ASSUME NEW m \in PlanMoves
      PROVE  /\ FileVouched(Seen.state[m.to], Seen.local[m.to])
             /\ DocVouched(Seen.state[m.to], doc[Seen.state[m.to].uuid])
             /\ OneHash(Seen.state[m.to])
             /\ Seen.state[m.from] = NoEntry
  <2> DEFINE e == Rekeyed.state[m.from]
             d == Rekeyed.doc[e.uuid]
  <2>1. /\ Seen.local[m.to] = Rekeyed.local[m.from]
        /\ Seen.state[m.to] = Stamped(e, m.lm) /\ m.lm = MovedLm(e, d)
    BY FollowedFiles
  <2>2. /\ e \in Entry /\ m.from \in Key /\ e.mapped /\ e.uuid \in Uuid /\ d.present
        /\ Seen.state[m.from] = NoEntry
    BY SeenParts
  <2>3. FileVouched(e, Rekeyed.local[m.from]) /\ DocVouched(e, doc[e.uuid]) /\ OneHash(e)
    BY <2>2 DEF Truthful, Vouches
  <2>4. d.payload # 0 => d.payload = doc[e.uuid].payload /\ PayloadMirrored(doc[e.uuid].kind)
    BY <2>2 DEF Truthful, ShowsDocs
  <2>5. e.kind = doc[e.uuid].kind
    BY <2>2, RekeyedParts, EntryOfKind DEF HasDoc
  <2> HIDE DEF d, e
  <2>6. m.lm = e.lm \/ (doc[e.uuid].payload = e.hash)
    BY <2>1, <2>2, <2>3, <2>4, <2>5 DEF MovedLm, OneHash
  <2>7. /\ Stamped(e, m.lm).mapped = e.mapped /\ Stamped(e, m.lm).uuid = e.uuid
        /\ Stamped(e, m.lm).pending = e.pending /\ Stamped(e, m.lm).lm = m.lm
        /\ Stamped(e, m.lm).hash = e.hash /\ Stamped(e, m.lm).payload = e.payload
        /\ Stamped(e, m.lm).kind = e.kind /\ Stamped(e, m.lm).mtime = e.mtime
    BY <2>2 DEF Stamped, Entry
  <2>8. QED
    BY <2>1, <2>2, <2>3, <2>6, <2>7 DEF FileVouched, DocVouched, OneHash
<1>2. ASSUME NEW k \in Key
      PROVE  /\ FileVouched(Seen.state[k], Seen.local[k])
             /\ DocVouched(Seen.state[k], doc[Seen.state[k].uuid])
             /\ OneHash(Seen.state[k])
  <2>1. CASE Seen.state[k] = Rekeyed.state[k] /\ Seen.local[k] = Rekeyed.local[k]
    BY <2>1 DEF Truthful, Vouches
  <2>2. CASE Seen.state[k] = NoEntry
    BY <2>2, NoEntryFits DEF FileVouched, DocVouched, OneHash
  <2>3. QED
    BY <1>1, <2>1, <2>2, SeenParts
<1>3. QED
  BY <1>2, SeenParts DEF Truthful, Vouches, ShowsDocs

\* A file the table sees is there now, or where it will follow its document from.
LEMMA SeenFiles ==
  ASSUME TypeOK, DocsFit, EntriesFit, MappedOnce,
         \A k \in Key : Start.local[k].present => Start.local[k] = local[k],
         NEW k \in Key, Seen.local[k].present
  PROVE  \/ /\ local[k] = Seen.local[k] /\ ~\E m \in PlanMoves : k \in {m.from, m.to}
         \/ \E m \in PlanMoves : m.to = k /\ local[m.from] = Seen.local[k]
<1>1. Rekeyed.local = Start.local
  BY RekeyedParts
<1>2. ASSUME NEW m \in PlanMoves, m.to = k
      PROVE  local[m.from] = Seen.local[k]
  <2>1. Seen.local[k] = Rekeyed.local[m.from] /\ m.from \in Key
    BY <1>2, FollowedFiles, SeenParts
  <2>2. QED
    BY <1>1, <2>1
<1>3. ASSUME NEW m \in PlanMoves PROVE m.from # k
  BY SeenParts
<1>4. CASE ~\E m \in PlanMoves : m.to = k
  <2>1. Seen.local[k] = Rekeyed.local[k]
    BY <1>3, <1>4, SeenParts
  <2>2. QED
    BY <1>1, <1>3, <1>4, <2>1
<1>5. QED
  BY <1>2, <1>4

-----------------------------------------------------------------------------
(* What the decision table makes, and when. *)

\* mapped_both: changed by stamp, and by hash where there is one.
LocalChanged(v, k) ==
  v.local[k].mtime # v.state[k].mtime /\ v.local[k].hash # v.state[k].hash
RemoteChanged(v, k, u) ==
  /\ RemoteStampChanged(v.state[k], u, v.doc[u])
  /\ ~(v.doc[u].payload # 0 /\ v.doc[u].payload = v.state[k].payload)

\* What the winner of a conflict chooses.
LEMMA ChosenOf ==
  ASSUME NEW w \in {"Nobody", "Local", "Remote"}, NEW A, NEW B, NEW C, NEW a \in ByWinner(w, A, B, C)
  PROVE  (w = "Nobody" /\ a \in A) \/ (w = "Local" /\ a \in B) \/ (w = "Remote" /\ a \in C)
BY DEF ByWinner

\* What a condition lets through.
LEMMA WhenOf ==
  ASSUME NEW c, NEW A, NEW a \in When(c, A)
  PROVE  c /\ a \in A
BY DEF When

\* One lemma for each row of the table: which action it makes, and what has
\* changed, or who has won, when it does.  Both sides are there and mapped.
LEMMA MappedBothMakes ==
  ASSUME NEW o \in SyncOptions, NEW v, NEW k, NEW u, NEW a \in MappedBoth(o, v, k, u)
  PROVE  LET w == Winner(o.conflict, v.local[k].mtime, v.doc[u].lm) IN
         \/ a \in Conflict(k)
         \/ /\ a \in UpdateRemote(k, u, v.local[k].hash) /\ LocalChanged(v, k)
            /\ RemoteChanged(v, k, u) => w = "Local"
         \/ /\ a \in Download(k, u, v.doc[u]) /\ (LocalChanged(v, k) => w = "Remote")
            /\ RemoteChanged(v, k, u) \/ w = "Remote"
         \/ /\ ~LocalChanged(v, k) /\ ~RemoteChanged(v, k, u)
            /\ a = RefreshAct(k, v.state[k].kind, u, v.doc[u].lm, v.local[k].hash,
                              IF v.doc[u].payload # 0 THEN v.doc[u].payload ELSE v.state[k].payload)
<1> DEFINE st == v.state[k]
           e  == v.local[k]
           d  == v.doc[u]
           lc == LocalChanged(v, k)
           rc == RemoteChanged(v, k, u)
           restamped == e.mtime # st.mtime \/ RemoteStampChanged(st, u, d)
           update == UpdateRemote(k, u, e.hash)
           download == Download(k, u, d)
           pushed == When(CanWriteRemote(o.mode) /\ st.kind # "rmdoc", update)
           pulled == When(CanWriteLocal(o.mode), download)
           w == Winner(o.conflict, e.mtime, d.lm)
           refresh == RefreshAct(k, st.kind, u, d.lm, e.hash,
                                 IF d.payload # 0 THEN d.payload ELSE st.payload)
<1>1. MappedBoth(o, v, k, u) =
        CASE ~lc /\ ~rc -> When(restamped, {refresh})
          [] lc /\ ~rc ->
               IF CanWriteRemote(o.mode) THEN pushed
               ELSE ByWinner(w, Conflict(k), {}, download)
          [] ~lc /\ rc -> pulled
          [] lc /\ rc -> ByWinner(w, Conflict(k), pushed, pulled)
  BY DEF MappedBoth, RefreshAct, LocalChanged, RemoteChanged
<1>2. w \in {"Nobody", "Local", "Remote"}
  BY WinnerType
<1>3. lc \in BOOLEAN /\ rc \in BOOLEAN
  BY DEF LocalChanged, RemoteChanged
<1> HIDE DEF st, e, d, lc, rc, update, download, pushed, pulled, w, refresh, restamped
<1>4. \A x \in pushed : x \in update
  BY WhenOf DEF pushed
<1>5. \A x \in pulled : x \in download
  BY WhenOf DEF pulled
<1>6. \A x \in ByWinner(w, Conflict(k), {}, download) : x \in Conflict(k) \/ (w = "Remote" /\ x \in download)
  BY <1>2, ChosenOf
<1>7. \A x \in ByWinner(w, Conflict(k), pushed, pulled) :
        x \in Conflict(k) \/ (w = "Local" /\ x \in update) \/ (w = "Remote" /\ x \in download)
  BY <1>2, <1>4, <1>5, ChosenOf
<1>8. \A x \in When(restamped, {refresh}) : x = refresh
  BY WhenOf
<1>9. \/ a \in Conflict(k)
      \/ a \in update /\ lc /\ (rc => w = "Local")
      \/ a \in download /\ (lc => w = "Remote") /\ (rc \/ w = "Remote")
      \/ ~lc /\ ~rc /\ a = refresh
  BY <1>1, <1>2, <1>3, <1>4, <1>5, <1>6, <1>7, <1>8
<1>10. QED
  BY <1>9 DEF update, download, refresh, lc, rc, e, d, st, w

\* The file is gone.
LEMMA LocalGoneMakes ==
  ASSUME NEW o \in SyncOptions, NEW v, NEW k, NEW u, NEW a \in MappedLocalGone(o, v, k, u)
  PROVE  \/ a \in Conflict(k) \/ a \in Forget(k) \/ a \in Download(k, u, v.doc[u])
         \/ /\ a \in DeleteRemote(k, u) /\ o.delete
            /\ RemoteStampChanged(v.state[k], u, v.doc[u]) =>
                 Winner(o.conflict, DeletedMs, v.doc[u].lm) # "Nobody"
<1> DEFINE d == v.doc[u]
           download == Download(k, u, d)
           w == Winner(o.conflict, DeletedMs, d.lm)
           kept == IF o.mode = "Push" THEN Forget(k) ELSE download
           stamped == RemoteStampChanged(v.state[k], u, d)
           c == o.mode # "Pull" /\ o.delete
<1>1. w \in {"Nobody", "Local", "Remote"}
  BY WinnerType
<1>2. a \in download \/ a \in When(o.mode = "TwoWay", download)
      \/ (o.delete /\ ~stamped /\ a \in DeleteRemote(k, u))
      \/ (o.delete /\ stamped /\ a \in ByWinner(w, Conflict(k), DeleteRemote(k, u), kept))
  <2>1. o.mode \in Mode /\ o.delete \in BOOLEAN
    BY DEF SyncOptions
  <2>2. MappedLocalGone(o, v, k, u) =
        CASE o.mode = "Pull" -> download
          [] o.mode # "Pull" /\ ~o.delete -> When(o.mode = "TwoWay", download)
          [] o.mode # "Pull" /\ o.delete /\ ~stamped -> DeleteRemote(k, u)
          [] o.mode # "Pull" /\ o.delete /\ stamped -> ByWinner(w, Conflict(k), DeleteRemote(k, u), kept)
    BY DEF MappedLocalGone
  <2> HIDE DEF d, download, w, kept
  <2>3. stamped \in BOOLEAN \/ TRUE
    OBVIOUS
  <2>4. QED
    BY <2>1, <2>2
<1> HIDE DEF d, download, w, kept, stamped
<1>3. \A x \in ByWinner(w, Conflict(k), DeleteRemote(k, u), kept) :
        x \in Conflict(k) \/ (w # "Nobody" /\ x \in DeleteRemote(k, u)) \/ x \in kept
  BY <1>1, ChosenOf
<1>4. \A x \in kept : x \in Forget(k) \/ x \in download
  BY DEF kept
<1>5. \A x \in When(o.mode = "TwoWay", download) : x \in download
  BY WhenOf
<1>6. QED
  BY <1>2, <1>3, <1>4, <1>5 DEF download, d, w, stamped

\* The two ways a new file gets to the tablet.
CopyRemoteAct(k, u, h) == [Action("CopyRemote", k) EXCEPT !.uuid = u, !.hash = h]
UploadAct(k, h) == [Action("Upload", k) EXCEPT !.hash = h]

\* A new file goes to the tablet, as an upload or as a copy of a document.
LEMMA UploadMakes ==
  ASSUME NEW v, NEW written, NEW k, NEW a \in UploadWithGuards(v, written, k)
  PROVE  \/ a = UploadAct(k, v.local[k].hash)
         \/ \E j \in CopySources(v, written, v.local[k].hash) :
              a = CopyRemoteAct(k, v.state[j].uuid, v.local[k].hash)
<1> DEFINE hash == v.local[k].hash
           sources == When(written.copies, CopySources(v, written, hash))
           s == LastOf(sources)
<1>1. \/ a = UploadAct(k, hash)
      \/ sources # {} /\ a = CopyRemoteAct(k, v.state[s].uuid, hash)
  BY DEF UploadWithGuards, UploadAct, CopyRemoteAct
<1>2. sources \subseteq CopySources(v, written, hash) /\ CopySources(v, written, hash) \subseteq Key
  BY DEF When, CopySources
<1>3. sources # {} => s \in sources
  <2> HIDE DEF sources
  <2>1. QED
    BY <1>2, Greatest
<1> HIDE DEF sources, s
<1>4. QED
  BY <1>1, <1>2, <1>3

\* The document is gone.
LEMMA RemoteGoneMakes ==
  ASSUME NEW o \in SyncOptions, NEW v, NEW written, NEW k, NEW a \in MappedRemoteGone(o, v, written, k)
  PROVE  \/ a \in Conflict(k) \/ a \in UploadWithGuards(v, written, k)
         \/ /\ a \in DeleteLocal(k) \/ a \in Forget(k)
            /\ v.local[k].mtime # v.state[k].mtime =>
                 Winner(o.conflict, v.local[k].mtime, DeletedMs) # "Nobody"
<1> DEFINE e == v.local[k]
           changed == e.mtime # v.state[k].mtime
           upload == UploadWithGuards(v, written, k)
           w == Winner(o.conflict, e.mtime, DeletedMs)
           kept == IF o.mode = "Pull" THEN Forget(k) ELSE upload
<1>1. w \in {"Nobody", "Local", "Remote"}
  BY WinnerType
<1>2. a \in upload \/ a \in When(o.mode = "TwoWay", upload)
      \/ (~changed /\ a \in DeleteLocal(k))
      \/ (changed /\ a \in ByWinner(w, Conflict(k), kept, DeleteLocal(k)))
  <2>1. o.mode \in Mode /\ o.delete \in BOOLEAN
    BY DEF SyncOptions
  <2>2. MappedRemoteGone(o, v, written, k) =
        CASE o.mode = "Push" -> upload
          [] o.mode # "Push" /\ ~o.delete -> When(o.mode = "TwoWay", upload)
          [] o.mode # "Push" /\ o.delete /\ ~changed -> DeleteLocal(k)
          [] o.mode # "Push" /\ o.delete /\ changed -> ByWinner(w, Conflict(k), kept, DeleteLocal(k))
    BY DEF MappedRemoteGone
  <2> HIDE DEF upload, w, kept
  <2>3. QED
    BY <2>1, <2>2
<1> HIDE DEF upload, w, kept, changed
<1>3. \A x \in ByWinner(w, Conflict(k), kept, DeleteLocal(k)) :
        x \in Conflict(k) \/ (w # "Nobody" /\ (x \in DeleteLocal(k) \/ x \in kept))
  BY <1>1, ChosenOf
<1>4. \A x \in kept : x \in Forget(k) \/ x \in upload
  BY DEF kept
<1>5. \A x \in When(o.mode = "TwoWay", upload) : x \in upload
  BY WhenOf
<1>6. QED
  BY <1>2, <1>3, <1>4, <1>5 DEF upload, changed, w

\* A new document goes to the folder, as a download or as a copy of a file.
LEMMA NewDocumentMakes ==
  ASSUME NEW v, NEW written, NEW k, NEW u, NEW a \in NewDocument(v, written, k, u)
  PROVE  \/ a \in Download(k, u, v.doc[u])
         \/ /\ v.doc[u].payload # 0
            /\ \E j \in LocalByHash(v, written, v.doc[u].payload) :
                 a = CopyLocalAct(k, j, v.doc[u].kind, u, v.doc[u].lm, v.doc[u].payload, v.doc[u].payload)
<1> DEFINE d == v.doc[u]
           twins == When(written.copies /\ d.payload # 0, LocalByHash(v, written, d.payload))
           j == LastOf(twins)
<1>1. \/ a \in Download(k, u, d)
      \/ twins # {} /\ a = CopyLocalAct(k, j, d.kind, u, d.lm, d.payload, d.payload)
  BY DEF NewDocument, CopyLocalAct
<1>2. /\ twins \subseteq LocalByHash(v, written, d.payload) /\ (twins # {} => d.payload # 0)
      /\ LocalByHash(v, written, d.payload) \subseteq Key
  BY DEF When, LocalByHash
<1>3. twins # {} => j \in twins
  <2> HIDE DEF twins
  <2>1. QED
    BY <1>2, Greatest
<1> HIDE DEF twins, j
<1>4. QED
  BY <1>1, <1>2, <1>3

\* Both sides are there and not mapped.
LEMMA CollisionMakes ==
  ASSUME NEW o \in SyncOptions, NEW v, NEW k, NEW u, NEW a \in Collision(o, v, k, u)
  PROVE  LET w == Winner(o.conflict, v.local[k].mtime, v.doc[u].lm) IN
         \/ a \in Conflict(k)
         \/ w = "Local" /\ a \in UpdateRemote(k, u, v.local[k].hash)
         \/ w = "Remote" /\ a \in Download(k, u, v.doc[u])
         \/ /\ v.doc[u].payload # 0 /\ v.local[k].hash = v.doc[u].payload
            /\ a = AdoptAct(k, u, v.doc[u].lm, v.local[k].hash, v.local[k].hash)
<1> DEFINE e == v.local[k]
           d == v.doc[u]
           w == Winner(o.conflict, e.mtime, d.lm)
           update == UpdateRemote(k, u, e.hash)
           pushed == IF KindOf(k) = "rmdoc" THEN Conflict(k) ELSE update
           download == Download(k, u, d)
           adopt == AdoptAct(k, u, d.lm, e.hash, e.hash)
           ours == When(CanWriteRemote(o.mode), pushed)
           theirs == When(CanWriteLocal(o.mode), download)
<1>1. w \in {"Nobody", "Local", "Remote"}
  BY WinnerType
<1>2. \/ d.payload # 0 /\ e.hash = d.payload /\ a = adopt
      \/ a \in ByWinner(w, Conflict(k), ours, theirs)
  BY DEF Collision, AdoptAct
<1> HIDE DEF e, d, w, update, download, adopt, ours, theirs, pushed
<1>3. \A x \in ours : x \in Conflict(k) \/ x \in update
  BY WhenOf DEF ours, pushed
<1>4. \A x \in theirs : x \in download
  BY WhenOf DEF theirs
<1>5. \A x \in ByWinner(w, Conflict(k), ours, theirs) :
        x \in Conflict(k) \/ (w = "Local" /\ x \in update) \/ (w = "Remote" /\ x \in download)
  BY <1>1, <1>3, <1>4, ChosenOf
<1>6. QED
  BY <1>2, <1>5 DEF e, d, w, update, download, adopt

-----------------------------------------------------------------------------
(* The hashes and times an action carries. *)

\* The paths whose files an action reads.
Reads(a) ==
  IF a.op \in {"Upload", "CopyRemote", "UpdateRemote"} THEN {a.key}
  ELSE IF a.op = "CopyLocal" THEN {a.other} ELSE {}

\* An action's hash is that of the file and of the document it is about, and
\* what it copies from is not written by the same plan.
Right(v, written, a) ==
  /\ \A k \in Reads(a) : v.local[k].present /\ v.local[k].hash = a.hash
  /\ a.op \in Agreements => v.local[a.key].present /\ v.local[a.key].hash = a.hash
  /\ a.op \in Agreements \cup {"CopyLocal", "CopyRemote"} => doc[a.uuid].payload = a.hash
  /\ a.op \in Agreements /\ PayloadMirrored(a.kind) => a.payload = a.hash
  /\ a.lm = 0 \/ (a.uuid \in Uuid /\ a.lm = doc[a.uuid].lm)
  /\ a.op = "CopyLocal" => ~v.local[a.key].present /\ a.other \notin written.files
  /\ a.op = "CopyRemote" => a.uuid \notin written.docs

\* Actions that read nothing and agree on nothing.
LEMMA RightPlain ==
  ASSUME NEW v, NEW written, NEW a,
         a.op \in {"Conflict", "Forget", "DeleteLocal", "DeleteRemote", "Rebind", "Download"},
         a.lm = 0 \/ (a.uuid \in Uuid /\ a.lm = doc[a.uuid].lm)
  PROVE  Right(v, written, a)
BY DEF Right, Reads, Agreements

\* The same for the actions as the table writes them.
LEMMA RightMade ==
  ASSUME NEW v, NEW written, NEW k, NEW u, NEW a,
         \/ a \in Conflict(k) \/ a \in Forget(k) \/ a \in DeleteLocal(k) \/ a \in DeleteRemote(k, u)
         \/ a \in Download(k, u, v.doc[u]) /\ u \in Uuid /\ v.doc[u].lm = doc[u].lm
  PROVE  Right(v, written, a)
<1>1. \/ a \in {Act("Conflict", k, k, KindOf(k), 0, 0, 0, 0), Act("Forget", k, k, KindOf(k), 0, 0, 0, 0),
                Act("DeleteLocal", k, k, KindOf(k), 0, 0, 0, 0), Act("DeleteRemote", k, k, KindOf(k), u, 0, 0, 0)}
      \/ a = Act("Download", k, k, v.doc[u].kind, u, v.doc[u].lm, 0, 0) /\ u \in Uuid /\ v.doc[u].lm = doc[u].lm
  <2>1. /\ Conflict(k) = {Act("Conflict", k, k, KindOf(k), 0, 0, 0, 0)}
        /\ Forget(k) = {Act("Forget", k, k, KindOf(k), 0, 0, 0, 0)}
        /\ DeleteLocal(k) = {Act("DeleteLocal", k, k, KindOf(k), 0, 0, 0, 0)}
    BY MadeUnmapped
  <2>2. DeleteRemote(k, u) = {Act("DeleteRemote", k, k, KindOf(k), u, 0, 0, 0)}
    BY MadeDelete
  <2>3. Download(k, u, v.doc[u]) = {Act("Download", k, k, v.doc[u].kind, u, v.doc[u].lm, 0, 0)}
    BY MadeDownload
  <2>4. QED
    BY <2>1, <2>2, <2>3
<1>2. CASE a \in {Act("Conflict", k, k, KindOf(k), 0, 0, 0, 0), Act("Forget", k, k, KindOf(k), 0, 0, 0, 0),
                  Act("DeleteLocal", k, k, KindOf(k), 0, 0, 0, 0), Act("DeleteRemote", k, k, KindOf(k), u, 0, 0, 0)}
  <2>1. a.op \in {"Conflict", "Forget", "DeleteLocal", "DeleteRemote"} /\ a.lm = 0
    BY <1>2 DEF Act
  <2>2. QED
    BY <2>1, RightPlain
<1>3. CASE a = Act("Download", k, k, v.doc[u].kind, u, v.doc[u].lm, 0, 0) /\ u \in Uuid /\ v.doc[u].lm = doc[u].lm
  <2>1. a.op = "Download" /\ a.uuid = u /\ a.lm = v.doc[u].lm
    BY <1>3 DEF Act
  <2>2. QED
    BY <1>3, <2>1, RightPlain
<1>4. QED
  BY <1>1, <1>2, <1>3

\* An update carries the hash of the file.
LEMMA RightUpdate ==
  ASSUME NEW v, NEW written, NEW k, NEW u, v.local[k].present,
         NEW a \in UpdateRemote(k, u, v.local[k].hash)
  PROVE  Right(v, written, a)
<1>1. a = Act("UpdateRemote", k, k, KindOf(k), u, 0, v.local[k].hash, 0)
  <2>1. UpdateRemote(k, u, v.local[k].hash) = {Act("UpdateRemote", k, k, KindOf(k), u, 0, v.local[k].hash, 0)}
    BY MadeUpdate
  <2>2. QED
    BY <2>1
<1>2. a.op = "UpdateRemote" /\ a.key = k /\ a.lm = 0 /\ a.hash = v.local[k].hash
  BY <1>1 DEF Act
<1>3. QED
  BY <1>2 DEF Right, Reads, Agreements

\* A refresh is of equal contents: unchanged stamps are vouched for by the
\* archive, changed ones by the hashes.
LEMMA RefreshRight ==
  ASSUME BundleKinds \subseteq {"rmdoc"}, NEW v, SnapFits(v), Truthful(v), NEW written,
         NEW k \in Key, NEW u \in ViewDoc(v, k), v.state[k].mapped, v.local[k].present,
         ~LocalChanged(v, k), ~RemoteChanged(v, k, u),
         NEW a, a = RefreshAct(k, v.state[k].kind, u, v.doc[u].lm, v.local[k].hash,
                               IF v.doc[u].payload # 0 THEN v.doc[u].payload ELSE v.state[k].payload)
  PROVE  Right(v, written, a)
<1> DEFINE st == v.state[k]
           e  == v.local[k]
           d  == v.doc[u]
           x  == IF d.payload # 0 THEN d.payload ELSE st.payload
<1>1. a = Act("Refresh", k, k, st.kind, u, d.lm, e.hash, x)
  BY MadeRefresh
<1> HIDE DEF x
<1>2. /\ a.op = "Refresh" /\ a.key = k /\ a.kind = st.kind /\ a.uuid = u /\ a.lm = d.lm /\ a.hash = e.hash
      /\ a.payload = x
  BY <1>1 DEF Act
<1>3. u \in Uuid /\ d.present /\ st \in Entry
  BY ViewFits, SnapParts
<1>4. doc[u].present /\ d.lm = doc[u].lm /\ (d.payload # 0 => d.payload = doc[u].payload /\ PayloadMirrored(doc[u].kind))
  BY <1>3 DEF Truthful, ShowsDocs
<1>5. FileVouched(st, e) /\ DocVouched(st, doc[st.uuid]) /\ OneHash(st)
  BY DEF Truthful, Vouches
<1>6. st.kind = doc[u].kind
  <2>1. Fits(st.kind, v.doc[u].kind)
    BY <1>3, ViewFits DEF Bound
  <2>2. v.doc[u].kind = doc[u].kind
    BY <1>3 DEF SnapFits
  <2>3. QED
    BY <2>1, <2>2 DEF Fits
<1>7. e.hash = st.hash
  BY <1>5 DEF LocalChanged, FileVouched
<1>8. doc[u].payload = st.hash
  <2>1. CASE RemoteStampChanged(st, u, d)
    <3>1. d.payload # 0 /\ d.payload = st.payload
      BY <2>1 DEF RemoteChanged
    <3>2. QED
      BY <1>4, <1>5, <1>6, <3>1 DEF OneHash
  <2>2. CASE ~RemoteStampChanged(st, u, d)
    <3>1. ~st.pending /\ st.uuid = u /\ d.lm = st.lm
      BY <1>3, <2>2 DEF RemoteStampChanged, Entry
    <3>2. QED
      BY <1>4, <1>5, <3>1 DEF DocVouched
  <2>3. QED
    BY <2>1, <2>2
<1>9. PayloadMirrored(st.kind) => x = e.hash
  BY <1>4, <1>5, <1>7, <1>8 DEF OneHash, x
<1>10. /\ a.hash = v.local[k].hash /\ doc[a.uuid].payload = a.hash /\ a.lm = doc[a.uuid].lm /\ a.uuid \in Uuid
       /\ PayloadMirrored(a.kind) => a.payload = a.hash
  BY <1>2, <1>3, <1>4, <1>7, <1>8, <1>9
<1> HIDE DEF e, d, st
<1>11. QED
  BY <1>2, <1>10 DEF Right, Reads, Agreements

\* Adoption compares the two hashes it records.
LEMMA AdoptRight ==
  ASSUME NEW v, SnapFits(v), Truthful(v), NEW written,
         NEW k \in Key, NEW u \in ViewDoc(v, k), v.local[k].present,
         v.doc[u].payload # 0, v.local[k].hash = v.doc[u].payload,
         NEW a, a = AdoptAct(k, u, v.doc[u].lm, v.local[k].hash, v.local[k].hash)
  PROVE  Right(v, written, a)
<1>1. a = Act("Adopt", k, k, KindOf(k), u, v.doc[u].lm, v.local[k].hash, v.local[k].hash)
  BY MadeAdopt
<1>2. /\ a.op = "Adopt" /\ a.key = k /\ a.uuid = u /\ a.lm = v.doc[u].lm /\ a.hash = v.local[k].hash
      /\ a.payload = v.local[k].hash
  BY <1>1 DEF Act
<1>3. u \in Uuid /\ v.doc[u].present
  BY ViewFits
<1>4. v.doc[u].lm = doc[u].lm /\ v.doc[u].payload = doc[u].payload
  BY <1>3 DEF Truthful, ShowsDocs
<1>5. QED
  BY <1>2, <1>3, <1>4 DEF Right, Reads, Agreements

\* A copy on the tablet is of a document whose stamp vouches for its bytes.
LEMMA UploadRight ==
  ASSUME NEW v, SnapFits(v), Truthful(v), NEW written, BundleKinds \subseteq {"rmdoc"},
         NEW k \in Key, v.local[k].present, NEW a \in UploadWithGuards(v, written, k)
  PROVE  Right(v, written, a)
<1> DEFINE h == v.local[k].hash
<1>1. CASE a = UploadAct(k, h)
  <2>1. a = Act("Upload", k, k, KindOf(k), 0, 0, h, 0)
    BY <1>1, MadeUnmapped DEF UploadAct
  <2>2. a.op = "Upload" /\ a.key = k /\ a.lm = 0 /\ a.hash = h
    BY <2>1 DEF Act
  <2>3. QED
    BY <2>2 DEF Right, Reads, Agreements
<1>2. ASSUME NEW j \in CopySources(v, written, h), a = CopyRemoteAct(k, v.state[j].uuid, h)
      PROVE  Right(v, written, a)
  <2> DEFINE st == v.state[j]
  <2>1. /\ j \in Key /\ HasDoc(v, st) /\ st.uuid \notin written.docs /\ st.payload = h
        /\ PayloadMirrored(v.doc[st.uuid].kind) /\ ~RemoteStampChanged(st, st.uuid, v.doc[st.uuid])
    BY <1>2 DEF CopySources
  <2>2. /\ st.mapped /\ st.uuid \in Uuid /\ v.doc[st.uuid].present /\ st \in Entry
        /\ v.doc[st.uuid].kind = doc[st.uuid].kind
    BY <2>1, SnapParts DEF HasDoc, SnapFits
  <2>3. doc[st.uuid].present /\ v.doc[st.uuid].lm = doc[st.uuid].lm
    BY <2>2 DEF Truthful, ShowsDocs
  <2>4. DocVouched(st, doc[st.uuid]) /\ OneHash(st)
    BY <2>1 DEF Truthful, Vouches
  <2>5. st.kind = doc[st.uuid].kind
    BY <2>1, EntryOfKind
  <2>6. doc[st.uuid].payload = h
    BY <2>1, <2>2, <2>3, <2>4, <2>5 DEF DocVouched, OneHash, RemoteStampChanged, Entry
  <2>7. a = Act("CopyRemote", k, k, KindOf(k), st.uuid, 0, h, 0)
    BY <1>2, MadeUpdate DEF CopyRemoteAct
  <2> HIDE DEF st
  <2>8. a.op = "CopyRemote" /\ a.key = k /\ a.uuid = st.uuid /\ a.lm = 0 /\ a.hash = h
    BY <2>7 DEF Act
  <2>9. QED
    BY <2>1, <2>6, <2>8 DEF Right, Reads, Agreements
<1>3. QED
  BY <1>1, <1>2, UploadMakes

\* A copy in the folder is of a file with the bytes of the document.
LEMMA NewDocumentRight ==
  ASSUME NEW v, SnapFits(v), Truthful(v), NEW written,
         NEW k \in Key, NEW u \in ViewDoc(v, k), ~v.local[k].present,
         NEW a \in NewDocument(v, written, k, u)
  PROVE  Right(v, written, a)
<1> DEFINE d == v.doc[u]
<1>1. u \in Uuid /\ d.present
  BY ViewFits
<1>2. d.lm = doc[u].lm /\ (d.payload # 0 => d.payload = doc[u].payload)
  BY <1>1 DEF Truthful, ShowsDocs
<1>3. CASE a \in Download(k, u, d)
  BY <1>1, <1>2, <1>3, RightMade
<1>4. ASSUME d.payload # 0, NEW j \in LocalByHash(v, written, d.payload),
             a = CopyLocalAct(k, j, d.kind, u, d.lm, d.payload, d.payload)
      PROVE  Right(v, written, a)
  <2>1. v.local[j].present /\ j \notin written.files /\ v.local[j].hash = d.payload
    BY <1>4 DEF LocalByHash
  <2>2. a = Act("CopyLocal", k, j, d.kind, u, d.lm, d.payload, d.payload)
    BY <1>4, MadeCopyLocal
  <2> HIDE DEF d
  <2>3. a.op = "CopyLocal" /\ a.key = k /\ a.other = j /\ a.uuid = u /\ a.lm = d.lm /\ a.hash = d.payload
    BY <2>2 DEF Act
  <2>4. QED
    BY <1>1, <1>2, <1>4, <2>1, <2>3 DEF Right, Reads, Agreements
<1>5. QED
  BY <1>3, <1>4, NewDocumentMakes

\* The rows together: what a decision about a path comes from.
LEMMA DecideMakes ==
  ASSUME NEW o, NEW v, SnapFits(v), NEW written, NEW k \in Key, NEW a \in Decide(o, v, written, k)
  PROVE  /\ ~ExcludesMapped(v, k)
         /\ \/ /\ ViewDoc(v, k) = {}
               /\ \/ v.state[k].mapped /\ v.local[k].present /\ a \in MappedRemoteGone(o, v, written, k)
                  \/ a \in Forget(k) /\ v.state[k].mapped /\ ~v.local[k].present
                  \/ ~v.state[k].mapped /\ v.local[k].present /\ a \in UploadWithGuards(v, written, k)
            \/ \E u \in ViewDoc(v, k) :
               \/ v.state[k].mapped /\ v.local[k].present /\ a \in MappedBoth(o, v, k, u)
               \/ v.state[k].mapped /\ ~v.local[k].present /\ a \in MappedLocalGone(o, v, k, u)
               \/ ~v.state[k].mapped /\ v.local[k].present /\ a \in Collision(o, v, k, u)
               \/ ~v.state[k].mapped /\ ~v.local[k].present /\ a \in NewDocument(v, written, k, u)
<1>0. v.state[k].mapped \in BOOLEAN /\ v.local[k].present \in BOOLEAN
  BY SnapParts DEF Entry, LocalFile
<1>1. ~ExcludesMapped(v, k)
  BY DEF Decide
<1>2. CASE ViewDoc(v, k) = {}
  <2>1. a \in DecideNone(o, v, written, k)
    BY <1>1, <1>2 DEF Decide
  <2>2. CASE ~v.state[k].mapped /\ v.local[k].present
    <3>1. a \in When(CanWriteRemote(o.mode), UploadWithGuards(v, written, k))
      BY <2>1, <2>2 DEF DecideNone
    <3>2. QED
      BY <1>1, <1>2, <2>2, <3>1, WhenOf
  <2>3. QED
    BY <1>0, <1>1, <1>2, <2>1, <2>2 DEF DecideNone
<1>3. CASE ViewDoc(v, k) # {}
  <2>1. PICK u \in ViewDoc(v, k) : a \in DecideOne(o, v, written, k, u)
    BY <1>1, <1>3 DEF Decide
  <2>2. CASE ~v.state[k].mapped /\ ~v.local[k].present
    <3>1. a \in When(CanWriteLocal(o.mode), NewDocument(v, written, k, u))
      BY <2>1, <2>2 DEF DecideOne
    <3>2. QED
      BY <1>1, <2>2, <3>1, WhenOf
  <2>3. QED
    BY <1>0, <1>1, <2>1, <2>2 DEF DecideOne
<1>4. QED
  BY <1>2, <1>3

\* Every decision carries the hashes and times of what it is about.
LEMMA DecideRight ==
  ASSUME NEW o \in SyncOptions, NEW v, SnapFits(v), Truthful(v), BundleKinds \subseteq {"rmdoc"},
         NEW written, NEW k \in Key, NEW a \in Decide(o, v, written, k)
  PROVE  Right(v, written, a)
<1>1. ASSUME NEW u \in ViewDoc(v, k) PROVE u \in Uuid /\ v.doc[u].lm = doc[u].lm
  BY ViewFits DEF Truthful, ShowsDocs
<1>2. CASE v.state[k].mapped /\ v.local[k].present /\ a \in MappedRemoteGone(o, v, written, k)
  BY <1>2, RemoteGoneMakes, UploadRight, RightMade
<1>3. CASE a \in Forget(k)
  BY <1>3, RightMade
<1>4. CASE v.local[k].present /\ a \in UploadWithGuards(v, written, k)
  BY <1>4, UploadRight
<1>5. ASSUME NEW u \in ViewDoc(v, k), v.state[k].mapped, v.local[k].present, a \in MappedBoth(o, v, k, u)
      PROVE  Right(v, written, a)
  <2>1. \/ a \in Conflict(k) \/ a \in UpdateRemote(k, u, v.local[k].hash) \/ a \in Download(k, u, v.doc[u])
        \/ /\ ~LocalChanged(v, k) /\ ~RemoteChanged(v, k, u)
           /\ a = RefreshAct(k, v.state[k].kind, u, v.doc[u].lm, v.local[k].hash,
                             IF v.doc[u].payload # 0 THEN v.doc[u].payload ELSE v.state[k].payload)
    BY <1>5, MappedBothMakes
  <2>2. CASE a \in UpdateRemote(k, u, v.local[k].hash)
    BY <1>5, <2>2, RightUpdate
  <2>3. CASE a \in Conflict(k) \/ a \in Download(k, u, v.doc[u])
    BY <1>1, <2>3, RightMade
  <2>4. QED
    BY <1>5, <2>1, <2>2, <2>3, RefreshRight
<1>6. ASSUME NEW u \in ViewDoc(v, k), a \in MappedLocalGone(o, v, k, u)
      PROVE  Right(v, written, a)
  <2>1. a \in Conflict(k) \/ a \in Forget(k) \/ a \in Download(k, u, v.doc[u]) \/ a \in DeleteRemote(k, u)
    BY <1>6, LocalGoneMakes
  <2>2. QED
    BY <1>1, <2>1, RightMade
<1>7. ASSUME NEW u \in ViewDoc(v, k), v.local[k].present, a \in Collision(o, v, k, u)
      PROVE  Right(v, written, a)
  <2>1. \/ a \in Conflict(k) \/ a \in UpdateRemote(k, u, v.local[k].hash) \/ a \in Download(k, u, v.doc[u])
        \/ /\ v.doc[u].payload # 0 /\ v.local[k].hash = v.doc[u].payload
           /\ a = AdoptAct(k, u, v.doc[u].lm, v.local[k].hash, v.local[k].hash)
    BY <1>7, CollisionMakes
  <2>2. CASE a \in UpdateRemote(k, u, v.local[k].hash)
    BY <1>7, <2>2, RightUpdate
  <2>3. CASE a \in Conflict(k) \/ a \in Download(k, u, v.doc[u])
    BY <1>1, <2>3, RightMade
  <2>4. QED
    BY <1>7, <2>1, <2>2, <2>3, AdoptRight
<1>8. QED
  BY <1>2, <1>3, <1>4, <1>5, <1>6, <1>7, DecideMakes, NewDocumentRight

\* What the first pass, which has no copies, writes: the same updates and
\* overwrites as the second.
LEMMA SamePasses ==
  ASSUME NEW o, NEW v, SnapFits(v), NEW written, NEW first, NEW k \in Key, NEW a \in Decide(o, v, written, k),
         a.op = "UpdateRemote" \/ (a.op = "Download" /\ v.local[k].present), o \in SyncOptions
  PROVE  a \in Decide(o, v, first, k)
<1>0. v.state[k].mapped \in BOOLEAN /\ v.local[k].present \in BOOLEAN
  BY SnapParts DEF Entry, LocalFile
<1>1. ~ExcludesMapped(v, k)
  BY DecideMakes
<1>2. ASSUME NEW x, x \in Conflict(k) \/ x \in Forget(k) \/ x \in DeleteLocal(k)
                    \/ x \in UploadWithGuards(v, written, k)
      PROVE  x.op \notin {"UpdateRemote", "Download"}
  <2>1. /\ Conflict(k) = {Act("Conflict", k, k, KindOf(k), 0, 0, 0, 0)}
        /\ Forget(k) = {Act("Forget", k, k, KindOf(k), 0, 0, 0, 0)}
        /\ DeleteLocal(k) = {Act("DeleteLocal", k, k, KindOf(k), 0, 0, 0, 0)}
    BY MadeUnmapped
  <2>2. CASE x \in Conflict(k) \/ x \in Forget(k) \/ x \in DeleteLocal(k)
    BY <2>1, <2>2 DEF Act
  <2>3. CASE x \in UploadWithGuards(v, written, k)
    <3>1. x = UploadAct(k, v.local[k].hash) \/ \E j : x = CopyRemoteAct(k, v.state[j].uuid, v.local[k].hash)
      BY <2>3, UploadMakes
    <3>2. UploadAct(k, v.local[k].hash).op = "Upload"
      <4>1. UploadAct(k, v.local[k].hash) = Act("Upload", k, k, KindOf(k), 0, 0, v.local[k].hash, 0)
        BY MadeUnmapped DEF UploadAct
      <4>2. QED
        BY <4>1 DEF Act
    <3>3. ASSUME NEW u, NEW h PROVE CopyRemoteAct(k, u, h).op = "CopyRemote"
      <4>1. CopyRemoteAct(k, u, h) = Act("CopyRemote", k, k, KindOf(k), u, 0, h, 0)
        BY MadeUpdate DEF CopyRemoteAct
      <4>2. QED
        BY <4>1 DEF Act
    <3>4. QED
      BY <3>1, <3>2, <3>3
  <2>4. QED
    BY <1>2, <2>2, <2>3
<1>3. CASE ViewDoc(v, k) = {}
  BY <1>2, <1>3, DecideMakes, RemoteGoneMakes
<1>4. CASE ViewDoc(v, k) # {}
  <2>1. PICK u \in ViewDoc(v, k) : a \in DecideOne(o, v, written, k, u)
    BY <1>1, <1>4 DEF Decide
  <2>2. CASE v.state[k].mapped \/ v.local[k].present
    <3>1. DecideOne(o, v, written, k, u) = DecideOne(o, v, first, k, u)
      BY <1>0, <2>2 DEF DecideOne
    <3>2. QED
      BY <1>1, <1>4, <2>1, <3>1 DEF Decide
  <2>3. CASE ~v.state[k].mapped /\ ~v.local[k].present
    <3>1. a \in NewDocument(v, written, k, u)
      BY <2>1, <2>3, WhenOf DEF DecideOne
    <3>2. a.op # "UpdateRemote"
      <4>1. Download(k, u, v.doc[u]) = {Act("Download", k, k, v.doc[u].kind, u, v.doc[u].lm, 0, 0)}
        BY MadeDownload
      <4>2. \A x \in Download(k, u, v.doc[u]) : x.op = "Download"
        BY <4>1 DEF Act
      <4>3. \A j : CopyLocalAct(k, j, v.doc[u].kind, u, v.doc[u].lm, v.doc[u].payload, v.doc[u].payload).op = "CopyLocal"
        BY DEF CopyLocalAct, Action
      <4>4. QED
        BY <3>1, <4>2, <4>3, NewDocumentMakes
    <3>3. QED
      BY <2>3, <3>2
  <2>4. QED
    BY <1>0, <2>2, <2>3
<1>5. QED
  BY <1>3, <1>4

\* The first pass of the table, and what it says the plan writes.
FirstPass(o, v) == DecideAll(o, v, [copies |-> FALSE, docs |-> {}, files |-> {}])
Written(o, v) ==
  [copies |-> TRUE,
   docs   |-> {a.uuid : a \in {b \in FirstPass(o, v) : b.op = "UpdateRemote"}},
   files  |-> {a.key : a \in {b \in FirstPass(o, v) : b.op = "Download"}}]

\* The table's actions carry the contents they are about, and no copy is made
\* from what the plan overwrites.
LEMMA TableRight ==
  ASSUME NEW o \in SyncOptions, NEW v, SnapFits(v), Truthful(v), BundleKinds \subseteq {"rmdoc"},
         NEW a \in TableActions(o, v)
  PROVE  /\ Right(v, Written(o, v), a)
         /\ a.op = "UpdateRemote" => a.uuid \in Written(o, v).docs
         /\ a.op = "Download" /\ v.local[a.key].present => a.key \in Written(o, v).files
<1> DEFINE W == Written(o, v)
           first == [copies |-> FALSE, docs |-> {}, files |-> {}]
<1>1. TableActions(o, v) = Rebinds(v) \cup DecideAll(o, v, W)
  BY DEF TableActions, Written, FirstPass
<1>2. /\ W.docs = {b.uuid : b \in {c \in FirstPass(o, v) : c.op = "UpdateRemote"}}
      /\ W.files = {b.key : b \in {c \in FirstPass(o, v) : c.op = "Download"}}
  BY DEF Written
<1> HIDE DEF W, first
<1>3. CASE a \in Rebinds(v)
  <2>1. \E k \in Key : \E u : a = Rebind(k, u)
    BY <1>3 DEF Rebinds
  <2>2. PICK k, u : a = Rebind(k, u)
    BY <2>1
  <2>3. Rebind(k, u) = Act("Rebind", k, k, KindOf(k), u, 0, 0, 0)
    BY MadeDelete
  <2>4. a.op = "Rebind" /\ a.lm = 0
    BY <2>2, <2>3 DEF Act
  <2>5. QED
    BY <2>4, RightPlain
<1>4. CASE a \in DecideAll(o, v, W)
  <2>1. PICK k \in Key : a \in Decide(o, v, W, k)
    BY <1>4 DEF DecideAll
  <2>2. Right(v, W, a)
    BY <2>1, DecideRight
  <2>3. a.key = k
    BY <2>1, DecideYields DEF Yields
  <2>4. ASSUME a.op = "UpdateRemote" \/ (a.op = "Download" /\ v.local[a.key].present)
        PROVE  a \in FirstPass(o, v)
    <3>1. a \in Decide(o, v, first, k)
      BY <2>1, <2>3, <2>4, SamePasses
    <3>2. QED
      BY <3>1 DEF FirstPass, DecideAll, first
  <2>5. QED
    BY <1>2, <2>2, <2>4 DEF W
<1>5. QED
  BY <1>1, <1>3, <1>4

-----------------------------------------------------------------------------
(* What holds of a plan while it is carried out. *)

\* A file that is there, and a document if it is there, with the bytes of a hash.
Holds(k, h) == local[k].present /\ local[k].hash = h
Bears(u, h) == doc[u].present => doc[u].payload = h

\* Once the renames still to come are done.
WillHold(moves, k, h) == Holds(k, h) \/ \E m \in moves : m.other = k /\ Holds(m.key, h)

\* The hash an action carries is backed by the file it reads and by the
\* document it agrees with.
Backed(moves, a) ==
  /\ \A k \in Reads(a) : WillHold(moves, k, a.hash)
  /\ a.op \in Agreements /\ local[a.key].present => local[a.key].hash = a.hash
  /\ a.op = "MoveRemote" => Holds(a.other, a.hash)
  /\ a.op \in Agreements \cup {"CopyLocal", "CopyRemote", "MoveRemote"} => Bears(a.uuid, a.hash)
  /\ a.op \in Agreements \cup {"MoveRemote"} /\ PayloadMirrored(a.kind) => a.payload = a.hash

\* A rename finds its new path free, and the entry there is moved away first.
Free(work, m) ==
  /\ ~local[m.other].present
  /\ archive[m.other].mapped => \E b \in work : b.op = "MoveRemote" /\ b.key = m.other

\* The time a rename records vouches for the document.
LmFits(m) ==
  m.op = "MoveLocal" /\ archive[m.key].mapped /\ ~archive[m.key].pending
    /\ doc[m.uuid].present /\ doc[m.uuid].lm = m.lm
  => doc[m.uuid].payload = archive[m.key].hash

\* No action of a plan writes what another one reads.
ReadApart(a, b) ==
  /\ b.op \in {"Download", "CopyLocal"} /\ a # b => b.key \notin Reads(a)
  /\ b.op = "MoveLocal" => b.key \notin Reads(a)
  /\ a.op = "MoveLocal" /\ b.op = "MoveLocal" /\ a.other = b.other => a = b
  /\ a.op = "CopyRemote" /\ b.op = "UpdateRemote" => a.uuid # b.uuid

\* What every action is planned from.
CanPlan ==
  /\ TypeOK /\ DocsFit /\ EntriesFit /\ MappedOnce /\ snap = local
  /\ Vouches(archive, local) /\ BundleKinds \subseteq {"rmdoc"}

\* The planner starts from true listings, and re-keys them into true ones.
LEMMA PlannedFrom ==
  ASSUME CanPlan
  PROVE  /\ Truthful(Start) /\ Truthful(Rekeyed) /\ Truthful(Seen) /\ SnapFits(Seen)
         /\ \A k \in Key : Start.local[k].present => Start.local[k] = local[k]
         /\ opts \in SyncOptions
         /\ \A k \in Key : Start.local[k].present = local[k].present
<1>1. TypeOK /\ DocsFit /\ EntriesFit /\ MappedOnce /\ BundleKinds \subseteq {"rmdoc"} /\ snap = local
      /\ Vouches(archive, local)
  BY DEF CanPlan
<1>2. Truthful(Start) /\ \A k \in Key : Start.local[k].present => Start.local[k] = local[k]
  BY <1>1, StartTruthful
<1>3. Truthful(Rekeyed)
  BY <1>1, <1>2, RekeyedTruthful
<1>4. Truthful(Seen)
  BY <1>1, <1>3, SeenTruthful
<1>5. QED
  BY <1>1, <1>2, <1>3, <1>4, SeenParts, PlanParts

\* A file the table sees with a hash will be at its path with that hash.
LEMMA SeenHolds ==
  ASSUME CanPlan, NEW k \in Key, Seen.local[k].present
  PROVE  LET A == MakeActions(opts, Start)
             moves == {b \in A : b.op = "MoveLocal"}
         IN /\ WillHold(moves, k, Seen.local[k].hash)
            /\ local[k].present => Holds(k, Seen.local[k].hash)
<1> DEFINE A == MakeActions(opts, Start)
           moves == {b \in A : b.op = "MoveLocal"}
<1>0. TypeOK /\ DocsFit /\ EntriesFit /\ MappedOnce
  BY DEF CanPlan
<1>1. CASE local[k] = Seen.local[k]
  BY <1>1 DEF WillHold, Holds
<1>2. ASSUME NEW m \in PlanMoves, m.to = k, local[m.from] = Seen.local[k]
      PROVE  WillHold(moves, k, Seen.local[k].hash) /\ ~local[k].present
  <2>1. PICK b \in A : b.op = "MoveLocal" /\ b.key = m.from /\ b.other = m.to
    BY <1>0, PlanMovesMake
  <2>2. b \in moves
    BY <2>1
  <2>3. ~Rekeyed.local[m.to].present
    BY <1>0, RekeyedParts, PlanParts, MovesFit
  <2>4. ~local[k].present
    BY <1>0, <1>2, <2>3, RekeyedParts, PlannedFrom
  <2> HIDE DEF moves, A
  <2>5. QED
    BY <1>2, <2>1, <2>2, <2>4 DEF WillHold, Holds
<1>3. QED
  BY <1>0, <1>1, <1>2, SeenFiles, PlannedFrom

\* A planned rename of a document: the file at its new name has the bytes that
\* the archive and the device agree on.
LEMMA PlannedRemoteMove ==
  ASSUME CanPlan, NEW a \in MakeActions(opts, Start), a.op = "MoveRemote"
  PROVE  /\ Holds(a.other, a.hash) /\ Bears(a.uuid, a.hash) /\ a.lm = 0
         /\ PayloadMirrored(a.kind) => a.payload = a.hash
<1>0. TypeOK /\ DocsFit /\ EntriesFit /\ MappedOnce /\ Vouches(archive, local)
  BY DEF CanPlan
<1>1. PICK p \in PlanPairs : a = MoveRemote(Start, p) /\ a.key = p.from /\ a.other = p.to
                             /\ a.uuid = Start.state[p.from].uuid
  BY <1>0, PlannedFor
<1>2. /\ p.from \in Key /\ p.to \in Key /\ MoveSource(Start, p.from) /\ MoveTarget(Start, p.to)
      /\ Start.doc[Start.state[p.from].uuid].present /\ Start.state = archive
      /\ Start.state[p.from].hash = Start.local[p.to].hash
  <2>1. p \in RemoteMoves(Start) /\ Start.state = archive
    BY <1>0, PlanParts
  <2>2. Start.state[p.from].hash = Start.local[p.to].hash
    BY <2>1, RemoteMovesMatch
  <2>3. QED
    BY <1>0, <1>1, <2>1, <2>2, RekeyedParts
<1>3. a = Act("MoveRemote", p.from, p.to, archive[p.from].kind, archive[p.from].uuid,
              0, archive[p.from].hash, archive[p.from].payload)
  BY <1>1, <1>2, MadeMoves
<1>4. /\ a.kind = archive[p.from].kind /\ a.uuid = archive[p.from].uuid /\ a.lm = 0
      /\ a.hash = archive[p.from].hash /\ a.payload = archive[p.from].payload
  BY <1>3 DEF Act
<1>5. Holds(a.other, a.hash)
  BY <1>1, <1>2, <1>4, PlannedFrom DEF Holds, MoveTarget
<1>6. archive[p.from].mapped /\ a.uuid \in Uuid /\ Start.doc[a.uuid].present
      /\ ~archive[p.from].pending /\ Start.doc[a.uuid].lm = archive[p.from].lm
  BY <1>2, <1>4 DEF MoveSource, HasDoc, RemoteStampChanged
<1>7. doc[a.uuid].present /\ doc[a.uuid].lm = archive[p.from].lm
  BY <1>6, PlannedFrom DEF Truthful, ShowsDocs
<1>8. QED
  BY <1>0, <1>2, <1>4, <1>5, <1>6, <1>7 DEF Vouches, DocVouched, OneHash, Bears

\* A planned rename of a file: its new path is free, or gives up its entry
\* first, and the time it will record does not hide another content.
LEMMA PlannedLocalMove ==
  ASSUME CanPlan, NEW a \in MakeActions(opts, Start), a.op = "MoveLocal"
  PROVE  /\ Free(MakeActions(opts, Start), a) /\ LmFits(a)
         /\ \/ a.lm = archive[a.key].lm
            \/ \E k \in Key : a.lm = archive[k].lm
            \/ a.uuid \in Uuid /\ a.lm = doc[a.uuid].lm
<1> DEFINE A == MakeActions(opts, Start)
<1>0. TypeOK /\ DocsFit /\ EntriesFit /\ MappedOnce /\ Vouches(archive, local) /\ BundleKinds \subseteq {"rmdoc"}
  BY DEF CanPlan
<1>1. PICK m \in PlanMoves : a = MoveLocal(Rekeyed, m) /\ a.key = m.from /\ a.other = m.to
                             /\ a.uuid = Rekeyed.state[m.from].uuid
  BY <1>0, PlannedFor
<1> DEFINE e == Rekeyed.state[m.from]
           d == Start.doc[e.uuid]
<1>2. /\ m.from \in Key /\ m.to \in Key /\ e.mapped /\ ~Rekeyed.state[m.to].mapped
      /\ e.uuid \in Uuid /\ d.present /\ Rekeyed.doc = Start.doc /\ SnapFits(Rekeyed)
      /\ m.lm = MovedLm(e, d) /\ Start.state = archive
  BY <1>0, <1>1, SeenParts, RekeyedParts, PlanParts, FollowedFiles
<1>3. a.lm = m.lm
  BY <1>1, MadeMoves DEF Act
<1>4. ~local[m.to].present
  <2>1. ~Rekeyed.local[m.to].present
    BY <1>0, <1>1, RekeyedParts, PlanParts, MovesFit
  <2>2. QED
    BY <1>0, <1>2, <2>1, RekeyedParts, PlannedFrom
<1>5. ASSUME archive[m.to].mapped PROVE \E b \in A : b.op = "MoveRemote" /\ b.key = m.to
  <2>1. ~\E p \in PlanPairs : p.to = m.to
    BY <1>0, <1>2, RekeyedOnce
  <2>2. PICK p \in PlanPairs : p.from = m.to
    BY <1>0, <1>2, <1>5, <2>1, RekeyedParts
  <2> HIDE DEF A
  <2>3. QED
    BY <1>0, <2>2, PlanMovesMake DEF A
<1>6. ASSUME archive[m.from].mapped PROVE e = archive[m.from]
  <2>1. ~\E p \in PlanPairs : p.from = m.from
    BY <1>0, <1>2, RekeyedParts, NoEntryFits
  <2>2. ~\E p \in PlanPairs : p.to = m.from
    BY <1>0, <1>2, <1>6, RekeyedOnce
  <2>3. QED
    BY <1>0, <1>2, <2>1, <2>2, RekeyedParts
<1>7. ShowsDocs(Start)
  BY PlannedFrom DEF Truthful
<1>8. LmFits(a)
  <2>1. SUFFICES ASSUME archive[m.from].mapped, ~archive[m.from].pending, doc[e.uuid].present,
                        doc[e.uuid].lm = m.lm
                 PROVE  doc[e.uuid].payload = archive[m.from].hash
    BY <1>1, <1>3 DEF LmFits
  <2>2. DocVouched(e, doc[e.uuid]) /\ OneHash(e)
    BY <1>0, <1>2, <1>6, <2>1 DEF Vouches
  <2>3. CASE d.payload # 0 /\ d.payload = e.payload
    <3>1. d.payload = doc[e.uuid].payload /\ PayloadMirrored(doc[e.uuid].kind)
      BY <1>2, <1>7, <2>3 DEF ShowsDocs
    <3>2. e.kind = doc[e.uuid].kind
      BY <1>0, <1>2, EntryOfKind DEF HasDoc
    <3>3. QED
      BY <1>6, <2>1, <2>2, <2>3, <3>1, <3>2 DEF OneHash
  <2>4. CASE ~(d.payload # 0 /\ d.payload = e.payload)
    BY <1>2, <1>6, <2>1, <2>2, <2>4 DEF MovedLm, DocVouched
  <2>5. QED
    BY <2>3, <2>4
<1>9. (\E k \in Key : a.lm = archive[k].lm) \/ (a.uuid \in Uuid /\ a.lm = doc[a.uuid].lm)
  <2>1. a.lm = d.lm \/ a.lm = e.lm
    BY <1>2, <1>3 DEF MovedLm
  <2>2. d.lm = doc[e.uuid].lm
    BY <1>2, <1>7 DEF ShowsDocs
  <2>3. \E k \in Key : e.lm = archive[k].lm
    <3>1. CASE e = archive[m.from]
      BY <1>2, <3>1
    <3>2. CASE \E p \in PlanPairs : p.to = m.from
      <4>1. PICK p \in PlanPairs : p.to = m.from
        BY <3>2
      <4>2. e = [archive[p.from] EXCEPT !.mtime = Start.local[p.to].mtime] /\ p.from \in Key
            /\ archive[p.from] \in Entry
        BY <1>0, <1>2, <4>1, RekeyedParts
      <4>3. e.lm = archive[p.from].lm
        BY <4>2 DEF Entry
      <4>4. QED
        BY <4>2, <4>3
    <3>3. ~\E p \in PlanPairs : p.from = m.from
      BY <1>0, <1>2, RekeyedParts, NoEntryFits
    <3>4. QED
      BY <1>0, <1>2, <3>1, <3>2, <3>3, RekeyedParts
  <2>4. QED
    BY <1>1, <1>2, <2>1, <2>2, <2>3
<1> HIDE DEF A
<1>10. QED
  BY <1>1, <1>4, <1>5, <1>8, <1>9 DEF Free, A

\* What the table saw is what is there: each action's hash is the hash of what
\* it reads, or of what a rename before it brings there.
LEMMA PlannedBacked ==
  ASSUME CanPlan, NEW a \in MakeActions(opts, Start)
  PROVE  /\ Backed({b \in MakeActions(opts, Start) : b.op = "MoveLocal"}, a)
         /\ a.lm = 0 \/ (\E k \in Key : a.lm = archive[k].lm) \/ (\E u \in Uuid : a.lm = doc[u].lm)
<1> DEFINE moves == {b \in MakeActions(opts, Start) : b.op = "MoveLocal"}
<1>0. TypeOK /\ DocsFit /\ EntriesFit /\ MappedOnce /\ BundleKinds \subseteq {"rmdoc"}
  BY DEF CanPlan
<1>1. CASE a.op = "MoveRemote"
  BY <1>1, PlannedRemoteMove DEF Backed, Reads, Agreements
<1>2. CASE a.op = "MoveLocal"
  <2>1. Backed(moves, a)
    BY <1>2 DEF Backed, Reads, Agreements
  <2>2. \/ \E k \in Key : a.lm = archive[k].lm
        \/ \E u \in Uuid : a.lm = doc[u].lm
    BY <1>0, <1>2, PlannedLocalMove, PlannedFits DEF PlanAction
  <2>3. QED
    BY <2>1, <2>2
<1>3. CASE a.op \notin {"MoveRemote", "MoveLocal"}
  <2>1. a \in TableActions(opts, Seen) /\ TableFits(opts, Seen, a)
    BY <1>0, <1>3, PlanMembers
  <2>2. Right(Seen, Written(opts, Seen), a)
    BY <1>0, <2>1, PlannedFrom, TableRight
  <2>3. a.key \in Key /\ a.other \in Key /\ Reads(a) \subseteq Key
    BY <2>1 DEF TableFits, PlanAction, Reads
  <2>4. \A k \in Reads(a) : WillHold(moves, k, a.hash)
    BY <2>2, <2>3, SeenHolds DEF Right
  <2>5. a.op \in Agreements /\ local[a.key].present => local[a.key].hash = a.hash
    BY <2>2, <2>3, SeenHolds DEF Right, Holds
  <2> HIDE DEF moves
  <2>6. Backed(moves, a)
    BY <1>3, <2>2, <2>4, <2>5 DEF Backed, Right, Bears
  <2>7. QED
    BY <2>2, <2>6 DEF Right, moves
<1>4. QED
  BY <1>1, <1>2, <1>3

\* No action of the plan overwrites what another one reads.
LEMMA PlannedApart ==
  ASSUME CanPlan, NEW a \in MakeActions(opts, Start), NEW b \in MakeActions(opts, Start)
  PROVE  ReadApart(a, b)
<1>0. TypeOK /\ DocsFit /\ EntriesFit /\ MappedOnce /\ BundleKinds \subseteq {"rmdoc"}
  BY DEF CanPlan
<1>1. ASSUME NEW c \in MakeActions(opts, Start), c.op \notin {"MoveRemote", "MoveLocal"}
      PROVE  /\ c \in TableActions(opts, Seen) /\ TableFits(opts, Seen, c)
             /\ Right(Seen, Written(opts, Seen), c)
             /\ c.op = "UpdateRemote" => c.uuid \in Written(opts, Seen).docs
             /\ c.op = "Download" /\ Seen.local[c.key].present => c.key \in Written(opts, Seen).files
  <2>1. c \in TableActions(opts, Seen) /\ TableFits(opts, Seen, c)
    BY <1>0, <1>1, PlanMembers
  <2>2. QED
    BY <1>0, <2>1, PlannedFrom, TableRight
<1>2. ASSUME b.op \in {"Download", "CopyLocal"}, a # b, b.key \in Reads(a) PROVE FALSE
  <2>1. a.op \in {"Upload", "CopyRemote", "UpdateRemote", "CopyLocal"}
    BY <1>2 DEF Reads
  <2>2. CASE a.op # "CopyLocal"
    <3>1. a.key = b.key /\ a \in TableActions(opts, Seen) /\ b \in TableActions(opts, Seen)
      BY <1>1, <1>2, <2>1, <2>2 DEF Reads
    <3>2. QED
      BY <1>2, <2>1, <3>1, PlannedFrom, TableIsFit
  <2>3. CASE a.op = "CopyLocal"
    <3>1. /\ b.key = a.other /\ Seen.local[b.key].present /\ b.key \notin Written(opts, Seen).files
      BY <1>1, <1>2, <2>3 DEF Right, Reads
    <3>2. QED
      BY <1>1, <1>2, <3>1 DEF Right
  <2>4. QED
    BY <2>2, <2>3
<1>3. ASSUME b.op = "MoveLocal", b.key \in Reads(a) PROVE FALSE
  <2>1. PICK m \in PlanMoves : b.key = m.from
    BY <1>0, <1>3, PlannedFor
  <2>2. ~Seen.local[b.key].present
    BY <1>0, <2>1, SeenParts
  <2>3. a.op \notin {"MoveRemote", "MoveLocal"}
    BY <1>3 DEF Reads
  <2>4. QED
    BY <1>1, <1>3, <2>2, <2>3 DEF Right
<1>4. ASSUME a.op = "MoveLocal", b.op = "MoveLocal", a.other = b.other PROVE a = b
  <2>1. PICK m \in PlanMoves : a = MoveLocal(Rekeyed, m) /\ a.other = m.to
    BY <1>0, <1>4, PlannedFor
  <2>2. PICK n \in PlanMoves : b = MoveLocal(Rekeyed, n) /\ b.other = n.to
    BY <1>0, <1>4, PlannedFor
  <2>3. m = n
    BY <1>0, <1>4, <2>1, <2>2, FollowedFiles
  <2>4. QED
    BY <2>1, <2>2, <2>3
<1>5. a.op = "CopyRemote" /\ b.op = "UpdateRemote" => a.uuid # b.uuid
  BY <1>1 DEF Right
<1>6. QED
  BY <1>2, <1>3, <1>4, <1>5 DEF ReadApart

-----------------------------------------------------------------------------
(* The inductive invariant. *)

\* The renames that have still to happen.
Waiting == {m \in Work : m.op = "MoveLocal" /\ ~(m = Current /\ stage = "record")}

\* The document whose payload is new and whose time is not yet.
Touching(u) == stage = "touch" /\ Current.uuid = u

\* Every time written anywhere was the time of its side's clock.
StampsPast ==
  /\ \A k \in Key : /\ local[k].mtime <= clock["folder"] /\ archive[k].mtime <= clock["folder"]
                    /\ archive[k].lm <= clock["tablet"]
  /\ \A u \in Uuid : doc[u].lm <= clock["tablet"]
  /\ \A a \in Work : a.lm <= clock["tablet"]
  /\ got.lm <= clock["tablet"]

\* Every entry vouches, but for a document between its payload and its time.
Vouched ==
  \A k \in Key : /\ FileVouched(archive[k], local[k]) /\ OneHash(archive[k])
                 /\ ~Touching(archive[k].uuid) => DocVouched(archive[k], doc[archive[k].uuid])

\* What the plan is still to do rests on the two sides as they are now.
PlanBacked ==
  /\ \A a \in Work : Backed(Waiting, a)
  /\ \A m \in Waiting : Free(Work, m)
  /\ \A a \in Work : LmFits(a)
  /\ \A a, b \in Work : ReadApart(a, b)

\* What the effect of the current action left behind for its save.
StageFits ==
  Work # {} =>
    /\ stage = "touch" => Current.op = "UpdateRemote" /\ Bears(Current.uuid, Current.hash)
    /\ stage = "hash" => /\ Current.op = "Download" /\ local[Current.key].present
                         /\ Bears(Current.uuid, local[Current.key].hash)
    /\ stage = "record" /\ Current.op \in Transfers =>
         /\ Holds(EntryPath(Current), got.hash)
         /\ doc[got.uuid].present /\ doc[got.uuid].lm = got.lm => doc[got.uuid].payload = got.hash
         /\ Current.op = "MoveRemote" => got.hash = Current.hash
    /\ stage = "record" /\ Current.op = "MoveLocal" =>
         /\ archive[Current.key].mapped /\ ~archive[Current.other].mapped
         /\ ~local[Current.key].present
         /\ FileVouched(archive[Current.key], local[Current.other])

\* Between listing and planning a quiet folder stays as listed.
Rested == phase = "scanned" => snap = local

\* The inductive invariant.
VouchInv == StampsPast /\ Vouched /\ PlanBacked /\ StageFits /\ Rested

\* Behind the transfers nothing waits, and behind the deletions nothing reads.
LEMMA BehindMoves ==
  ASSUME PlanFits, Work # {}, Current.op \notin Agreements \cup {"Rebind"} \cup Movers
  PROVE  /\ \A a \in Work : a.op \notin Agreements \cup {"Rebind"} \cup Movers
         /\ Waiting = {}
         /\ Current.op \in Deletions => \A a \in Work : Reads(a) = {}
<1>1. \A a \in Work : a.op \notin Agreements \cup {"Rebind"} \cup Movers
  <2>1. SUFFICES ASSUME NEW a \in Work \ {Current} PROVE a.op \notin Agreements \cup {"Rebind"} \cup Movers
    OBVIOUS
  <2>2. QED
    BY <2>1, LaterBuckets
<1>2. Waiting = {}
  BY <1>1 DEF Waiting, Movers
<1>3. ASSUME Current.op \in Deletions, NEW a \in Work PROVE Reads(a) = {}
  <2>1. CASE a = Current
    BY <1>3, <2>1 DEF Deletions, Reads
  <2>2. CASE a # Current
    <3>1. Before(Current, a)
      BY <2>2, CurrentIs
    <3>2. Rank(Current.op) = 6
      BY <1>3 DEF Deletions, Rank
    <3>3. a.op \in Ops
      BY <1>3 DEF PlanFits, ActionFits, PlanAction
    <3>4. a.op \notin {"Upload", "CopyRemote", "UpdateRemote", "CopyLocal"}
      <4>1. a.op \in {"Upload", "CopyRemote", "UpdateRemote", "CopyLocal"} => Rank(a.op) = 5
        BY DEF Rank
      <4>2. QED
        BY <3>1, <3>2, <4>1 DEF Before
    <3>5. QED
      BY <3>4 DEF Reads
  <2>3. QED
    BY <2>1, <2>2
<1>4. QED
  BY <1>1, <1>2, <1>3

\* A run has ended, or one begins: nothing is left to do.
LEMMA VouchEnded ==
  ASSUME RunInv, TypeOK', VouchInv, UNCHANGED <<doc, archive>>, plan' = {}, stage' = "effect",
         got'.lm <= clock'["tablet"], clock'["tablet"] = clock["tablet"],
         clock["folder"] <= clock'["folder"],
         \A k \in Key : \/ local'[k] = local[k]
                        \/ clock["folder"] < local'[k].mtime /\ local'[k].mtime <= clock'["folder"],
         stage = "touch" => ~doc[Current.uuid].present,
         phase' = "scanned" => snap' = local'
  PROVE  VouchInv'
<1>1. Work' = {} /\ Waiting' = {}
  BY DEF Work, Waiting
<1>2. TypeOK /\ clock["folder"] \in Nat /\ clock'["folder"] \in Nat
  BY DEF RunInv, TypeOK
<1>3. \A k \in Key : local[k].mtime \in Nat /\ archive[k].mtime \in Nat /\ local'[k].mtime \in Nat
  BY <1>2 DEF TypeOK, LocalFile, Entry
<1>4. StampsPast'
  BY <1>1, <1>2, <1>3 DEF VouchInv, StampsPast
<1>5. Vouched'
  <2>1. SUFFICES ASSUME NEW k \in Key
                 PROVE  /\ FileVouched(archive[k], local'[k]) /\ OneHash(archive[k])
                        /\ DocVouched(archive[k], doc[archive[k].uuid])
    BY DEF Vouched, FileVouched, OneHash, DocVouched
  <2>2. FileVouched(archive[k], local'[k])
    BY <1>2, <1>3 DEF VouchInv, Vouched, StampsPast, FileVouched
  <2>3. DocVouched(archive[k], doc[archive[k].uuid])
    BY DEF VouchInv, Vouched, Touching, DocVouched
  <2>4. QED
    BY <2>2, <2>3 DEF VouchInv, Vouched
<1>6. PlanBacked' /\ StageFits' /\ Rested'
  BY <1>1 DEF PlanBacked, StageFits, Rested
<1>7. QED
  BY <1>4, <1>5, <1>6 DEF VouchInv

\* The plan is made: the table's snapshot is what is there.
LEMMA VouchPlanned ==
  ASSUME RunInv, OnceInv, VouchInv, BundleKinds \subseteq {"rmdoc"}, MakePlan
  PROVE  VouchInv'
<1> DEFINE A == MakeActions(opts, Start)
<1>1. /\ phase = "scanned" /\ plan' = A /\ stage' = stage /\ got' = got /\ phase' = "run"
      /\ UNCHANGED <<local, doc, clock, archive>>
  BY DEF MakePlan, Start
<1>2. stage = "effect" /\ TypeOK /\ DocsFit /\ EntriesFit /\ MappedOnce /\ snap = local
  BY <1>1 DEF RunInv, RunShape, OnceInv, VouchInv, Rested
<1>3. Vouches(archive, local)
  BY <1>2 DEF VouchInv, Vouched, Vouches, Touching
<1>4. CanPlan
  BY <1>2, <1>3 DEF CanPlan
<1>5. Work' = {a \in A : a.op # "Conflict"} /\ Waiting' = {b \in A : b.op = "MoveLocal"}
  BY <1>1, <1>2 DEF Work, Waiting
<1> HIDE DEF A
<1>6. ASSUME NEW a \in A
      PROVE  Backed(Waiting', a) /\ (a.lm = 0 \/ (\E k \in Key : a.lm = archive[k].lm) \/ (\E u \in Uuid : a.lm = doc[u].lm))
  BY <1>4, <1>5, PlannedBacked DEF A
<1>7. ASSUME NEW a \in Work' PROVE Backed(Waiting, a)'
  BY <1>1, <1>5, <1>6 DEF Backed, WillHold, Holds, Bears
<1>8. ASSUME NEW m \in Waiting' PROVE Free(Work, m)'
  <2>1. Free(A, m)
    BY <1>4, <1>5, PlannedLocalMove DEF A
  <2>2. QED
    BY <1>1, <1>5, <2>1 DEF Free
<1>9. ASSUME NEW a \in Work' PROVE LmFits(a)'
  <2>1. LmFits(a)
    BY <1>4, <1>5, PlannedLocalMove DEF A, LmFits
  <2>2. QED
    BY <1>1, <2>1 DEF LmFits
<1>10. ASSUME NEW a \in Work', NEW b \in Work' PROVE ReadApart(a, b)
  BY <1>4, <1>5, PlannedApart DEF A
<1>11. PlanBacked'
  BY <1>7, <1>8, <1>9, <1>10 DEF PlanBacked
<1>12. StampsPast'
  <2>1. clock["tablet"] \in Nat
    BY <1>2 DEF TypeOK
  <2>2. \A a \in Work' : a.lm <= clock["tablet"]
    BY <1>5, <1>6, <2>1 DEF VouchInv, StampsPast
  <2>3. QED
    BY <1>1, <2>2 DEF VouchInv, StampsPast
<1>13. Vouched'
  BY <1>1, <1>2, <1>3 DEF Vouched, Vouches, FileVouched, DocVouched, OneHash
<1>14. StageFits' /\ Rested'
  BY <1>1, <1>2 DEF StageFits, Rested
<1>15. QED
  BY <1>11, <1>12, <1>13, <1>14 DEF VouchInv

\* One document changes: what vouches for it is out of date, or it bears what
\* the actions left expect.
LEMMA VouchDocument ==
  ASSUME RunInv, TypeOK', VouchInv, UNCHANGED <<local, archive, plan, phase, snap>>,
         NEW u \in Uuid, NEW d \in Doc, doc' = [doc EXCEPT ![u] = d],
         clock'["folder"] = clock["folder"], clock["tablet"] <= clock'["tablet"],
         d.lm <= clock'["tablet"], got'.lm <= clock'["tablet"],
         \/ ~d.present
         \/ clock["tablet"] < d.lm
         \/ u = nextUuid
         \/ stage' = "touch" /\ Current.uuid = u /\ \A a \in Work : a.op # "MoveLocal",
         \A a \in Work : a.op \in Agreements \cup {"CopyLocal", "CopyRemote", "MoveRemote"} /\ a.uuid = u
           => Bears(u, a.hash)',
         stage' = stage \/ (Work # {} /\ Current.op # "MoveLocal"),
         stage = "touch" => stage' = "touch" \/ Current.uuid = u,
         StageFits'
  PROVE  VouchInv'
<1>1. Work' = Work /\ Current' = Current
  BY SamePlan
<1>2. TypeOK /\ PlanFits /\ EntriesFit /\ DOMAIN doc = Uuid
      /\ clock["tablet"] \in Nat /\ clock'["tablet"] \in Nat
  BY DEF RunInv, TypeOK
<1>3. /\ \A k \in Key : archive[k].mtime \in Nat /\ archive[k].lm \in Nat
      /\ \A v \in Uuid : doc[v].lm \in Nat
      /\ \A a \in Work : a.lm \in Nat /\ (a.op = "MoveLocal" => a.uuid \in Uuid /\ a.uuid < nextUuid)
      /\ \A k \in Key : archive[k].mapped => archive[k].uuid \in Uuid /\ archive[k].uuid < nextUuid
      /\ d.lm \in Nat /\ nextUuid \in Nat /\ nextUuid' \in Nat
  <2>1. \A a \in Work : a.lm \in Nat /\ (a.op = "MoveLocal" => a.uuid \in Uuid /\ a.uuid < nextUuid)
    BY <1>2 DEF PlanFits, ActionFits, PlanAction, OfDocument, Ops, LocalWrites
  <2>2. \A k \in Key : archive[k].mapped => archive[k].uuid \in Uuid /\ archive[k].uuid < nextUuid
    BY <1>2 DEF EntriesFit, EntryFits, Bound
  <2>3. \A k \in Key : archive[k].mtime \in Nat /\ archive[k].lm \in Nat
    BY <1>2 DEF TypeOK, Entry
  <2>4. (\A v \in Uuid : doc[v].lm \in Nat) /\ d.lm \in Nat /\ nextUuid \in Nat /\ nextUuid' \in Nat
    BY <1>2 DEF TypeOK, Doc
  <2>5. QED
    BY <2>1, <2>2, <2>3, <2>4
<1>4. \A v \in Uuid \ {u} : doc'[v] = doc[v]
  BY <1>2
<1>5. doc'[u] = d
  BY <1>2
<1>6. Waiting' = Waiting
  BY <1>1 DEF Waiting
<1>7. StampsPast'
  <2>1. \A v \in Uuid : doc'[v].lm <= clock'["tablet"]
    BY <1>2, <1>3, <1>4, <1>5 DEF VouchInv, StampsPast
  <2>2. \A k \in Key : archive[k].lm <= clock'["tablet"]
    BY <1>2, <1>3 DEF VouchInv, StampsPast
  <2>3. \A a \in Work : a.lm <= clock'["tablet"]
    BY <1>2, <1>3 DEF VouchInv, StampsPast
  <2>4. QED
    BY <1>1, <2>1, <2>2, <2>3 DEF VouchInv, StampsPast
<1>8. Vouched'
  <2>1. SUFFICES ASSUME NEW k \in Key, archive[k].mapped, ~Touching(archive[k].uuid)'
                 PROVE  DocVouched(archive[k], doc'[archive[k].uuid])
    BY DEF VouchInv, Vouched, FileVouched, OneHash, DocVouched
  <2>2. CASE archive[k].uuid = u
    <3>1. ~d.present \/ clock["tablet"] < d.lm
      BY <1>1, <1>3, <2>1, <2>2 DEF Touching
    <3>2. archive[k].lm <= clock["tablet"]
      BY DEF VouchInv, StampsPast
    <3>3. d.lm = archive[k].lm => ~d.present
      BY <1>2, <1>3, <3>1, <3>2
    <3>4. QED
      BY <1>5, <2>2, <3>3 DEF DocVouched
  <2>3. CASE archive[k].uuid # u
    <3>1. doc'[archive[k].uuid] = doc[archive[k].uuid]
      BY <1>3, <1>4, <2>1, <2>3
    <3>2. ~Touching(archive[k].uuid)
      BY <1>1, <2>1, <2>3 DEF Touching
    <3>3. QED
      BY <3>1, <3>2 DEF VouchInv, Vouched
  <2>4. QED
    BY <2>2, <2>3
<1>9. ASSUME NEW a \in Work PROVE Backed(Waiting, a)'
  <2>1. Backed(Waiting, a)
    BY DEF VouchInv, PlanBacked
  <2>2. /\ \A k \in Reads(a) : WillHold(Waiting, k, a.hash)'
        /\ a.op \in Agreements /\ local[a.key].present => local[a.key].hash = a.hash
        /\ a.op = "MoveRemote" => Holds(a.other, a.hash)'
        /\ a.op \in Agreements \cup {"MoveRemote"} /\ PayloadMirrored(a.kind) => a.payload = a.hash
    BY <1>6, <2>1 DEF Backed, WillHold, Holds
  <2>3. ASSUME a.op \in Agreements \cup {"CopyLocal", "CopyRemote", "MoveRemote"} PROVE Bears(a.uuid, a.hash)'
    <3>1. CASE a.uuid = u
      BY <2>3, <3>1
    <3>2. CASE a.uuid # u
      <4>1. a.uuid \in Uuid
        BY <1>2, <2>3 DEF PlanFits, ActionFits, OfDocument, Ops, Agreements, LocalWrites, RemoteWrites
      <4>2. doc'[a.uuid] = doc[a.uuid]
        BY <1>4, <3>2, <4>1
      <4>3. QED
        BY <2>1, <2>3, <4>2 DEF Backed, Bears
    <3>3. QED
      BY <3>1, <3>2
  <2>4. QED
    BY <2>2, <2>3 DEF Backed
<1>10. ASSUME NEW a \in Work PROVE LmFits(a)'
  <2>1. SUFFICES ASSUME a.op = "MoveLocal", doc'[a.uuid].present, doc'[a.uuid].lm = a.lm
                 PROVE  doc'[a.uuid] = doc[a.uuid]
    BY DEF VouchInv, PlanBacked, LmFits
  <2>2. CASE a.uuid = u
    <3>1. clock["tablet"] < d.lm
      BY <1>3, <1>5, <2>1, <2>2
    <3>2. a.lm <= clock["tablet"]
      BY DEF VouchInv, StampsPast
    <3>3. QED
      BY <1>2, <1>3, <1>5, <2>1, <2>2, <3>1, <3>2
  <2>3. QED
    BY <1>3, <1>4, <2>1, <2>2
<1>11. \A m \in Waiting : Free(Work, m)'
  BY <1>1, <1>6 DEF VouchInv, PlanBacked, Free
<1>12. PlanBacked'
  BY <1>1, <1>6, <1>9, <1>10, <1>11 DEF VouchInv, PlanBacked
<1>13. Rested'
  BY DEF VouchInv, Rested
<1>14. QED
  BY <1>7, <1>8, <1>12, <1>13 DEF VouchInv

\* One file changes: it is stamped anew or gone, or it has what was expected.
LEMMA VouchFile ==
  ASSUME RunInv, TypeOK', VouchInv, UNCHANGED <<doc, archive, plan, phase, snap>>, phase # "scanned",
         NEW k \in Key, NEW f \in LocalFile, local' = [local EXCEPT ![k] = f],
         clock["folder"] <= clock'["folder"], clock'["tablet"] = clock["tablet"],
         f.mtime <= clock'["folder"], got'.lm <= clock["tablet"],
         FileVouched(archive[k], f),
         \A a \in Work : /\ k \in Reads(a) => f.present /\ f.hash = a.hash
                         /\ a.op \in Agreements => a.key # k
                         /\ a.op = "MoveRemote" => a.other # k,
         \A m \in Waiting : k \notin {m.key, m.other},
         stage' = stage \/ (Work # {} /\ Current.op # "MoveLocal"),
         stage # "touch" \/ stage' = "touch",
         StageFits'
  PROVE  VouchInv'
<1>1. Work' = Work /\ Current' = Current
  BY SamePlan
<1>2. TypeOK /\ PlanFits /\ DOMAIN local = Key /\ clock["folder"] \in Nat /\ clock'["folder"] \in Nat
  BY DEF RunInv, TypeOK
<1>3. /\ \A j \in Key : archive[j].mtime \in Nat /\ local[j].mtime \in Nat
      /\ \A a \in Work : a.key \in Key /\ a.other \in Key /\ Reads(a) \subseteq Key
  <2>1. \A j \in Key : archive[j].mtime \in Nat /\ local[j].mtime \in Nat
    BY <1>2 DEF TypeOK, Entry, LocalFile
  <2>2. \A a \in Work : a.key \in Key /\ a.other \in Key
    BY <1>2 DEF PlanFits, ActionFits, PlanAction
  <2>3. QED
    BY <2>1, <2>2 DEF Reads
<1>4. local'[k] = f /\ \A j \in Key \ {k} : local'[j] = local[j]
  BY <1>2
<1>5. Waiting' = Waiting /\ Waiting \subseteq Work
  BY <1>1 DEF Waiting
<1>6. StampsPast'
  <2>1. \A j \in Key : local'[j].mtime <= clock'["folder"] /\ archive[j].mtime <= clock'["folder"]
    BY <1>2, <1>3, <1>4 DEF VouchInv, StampsPast
  <2>2. QED
    BY <1>1, <2>1 DEF VouchInv, StampsPast
<1>7. Vouched'
  <2>1. \A j \in Key : FileVouched(archive[j], local'[j])
    BY <1>4 DEF VouchInv, Vouched
  <2>2. \A j \in Key : ~Touching(archive[j].uuid)' => DocVouched(archive[j], doc[archive[j].uuid])
    BY <1>1 DEF VouchInv, Vouched, Touching
  <2>3. QED
    BY <2>1, <2>2 DEF VouchInv, Vouched, FileVouched, DocVouched, OneHash
<1>8. ASSUME NEW a \in Work PROVE Backed(Waiting, a)'
  <2>1. Backed(Waiting, a)
    BY DEF VouchInv, PlanBacked
  <2>2. ASSUME NEW j \in Reads(a) PROVE WillHold(Waiting, j, a.hash)'
    <3>1. CASE j = k
      BY <1>4, <3>1 DEF WillHold, Holds
    <3>2. CASE j # k
      <4>1. WillHold(Waiting, j, a.hash) /\ j \in Key
        BY <1>3, <2>1 DEF Backed
      <4>2. \A m \in Waiting : m.key \in Key \ {k}
        BY <1>3, <1>5
      <4>3. QED
        BY <1>4, <1>5, <3>2, <4>1, <4>2 DEF WillHold, Holds
    <3>3. QED
      BY <3>1, <3>2
  <2>3. QED
    BY <1>3, <1>4, <2>1, <2>2 DEF Backed, Holds, Bears
<1>9. \A m \in Waiting : Free(Work, m)'
  <2>1. \A m \in Waiting : m.other \in Key \ {k}
    BY <1>3, <1>5
  <2>2. QED
    BY <1>1, <1>4, <2>1 DEF VouchInv, PlanBacked, Free
<1>10. PlanBacked'
  BY <1>1, <1>5, <1>8, <1>9 DEF VouchInv, PlanBacked, LmFits
<1>11. Rested'
  BY DEF Rested
<1>12. QED
  BY <1>6, <1>7, <1>10, <1>11 DEF VouchInv

\* A save: what it writes vouches for what is there, takes no path that a rename
\* waits for, and leaves a waiting rename an entry it can carry.
LEMMA VouchSaved ==
  ASSUME RunInv, TypeOK', VouchInv, phase = "run", Work # {}, NEW entries, NEW remote, Save(entries, remote),
         stage # "touch", Current.op = "MoveLocal" => stage = "record",
         \A k \in Key : \/ entries[k] = archive[k]
                        \/ /\ entries[k].mtime <= clock["folder"] /\ entries[k].lm <= clock["tablet"]
                           /\ FileVouched(entries[k], local[k]) /\ OneHash(entries[k])
                           /\ DocVouched(entries[k], doc[entries[k].uuid]),
         \A m \in Waiting : entries[m.other].mapped =>
           archive[m.other].mapped /\ ~(Current.op = "MoveRemote" /\ Current.key = m.other),
         \A m \in Work \ {Current} : m.op = "MoveLocal" =>
           \/ entries[m.key] = archive[m.key]
           \/ ~entries[m.key].mapped
           \/ entries[m.key].pending
           \/ Bears(m.uuid, entries[m.key].hash)
  PROVE  VouchInv'
<1>1. /\ archive' = entries /\ plan' = plan \ {Current} /\ stage' = "effect" /\ got' = NothingGot
      /\ UNCHANGED <<local, doc, clock, phase, snap>>
  BY DEF Save
<1>2. Work' = Work \ {Current} /\ Waiting' = Waiting
  BY <1>1 DEF Work, Waiting
<1>3. clock["tablet"] \in Nat /\ Work' \subseteq Work /\ Waiting \subseteq Work
  BY <1>2 DEF RunInv, TypeOK, Waiting
<1>4. StampsPast'
  <2>1. got'.lm = 0
    BY <1>1 DEF NothingGot
  <2>2. \A k \in Key : entries[k].mtime <= clock["folder"] /\ entries[k].lm <= clock["tablet"]
    BY DEF VouchInv, StampsPast
  <2>3. QED
    BY <1>1, <1>3, <2>1, <2>2 DEF VouchInv, StampsPast
<1>5. Vouched'
  <2>1. SUFFICES ASSUME NEW k \in Key
                 PROVE  /\ FileVouched(entries[k], local[k]) /\ OneHash(entries[k])
                        /\ DocVouched(entries[k], doc[entries[k].uuid])
    BY <1>1 DEF Vouched, FileVouched, OneHash, DocVouched
  <2>2. ~Touching(archive[k].uuid)
    BY DEF Touching
  <2>3. QED
    BY <2>2 DEF VouchInv, Vouched
<1>6. ASSUME NEW a \in Work' PROVE Backed(Waiting, a)' /\ LmFits(a)'
  <2>1. Backed(Waiting, a) /\ LmFits(a) /\ a \in Work \ {Current}
    BY <1>2 DEF VouchInv, PlanBacked
  <2>2. Backed(Waiting, a)'
    BY <1>1, <1>2, <2>1 DEF Backed, WillHold, Holds, Bears
  <2>3. LmFits(a)'
    BY <1>1, <2>1 DEF LmFits, Bears
  <2>4. QED
    BY <2>2, <2>3
<1>7. ASSUME NEW m \in Waiting PROVE Free(Work, m)'
  <2>1. Free(Work, m)
    BY DEF VouchInv, PlanBacked
  <2>2. ASSUME entries[m.other].mapped PROVE \E b \in Work' : b.op = "MoveRemote" /\ b.key = m.other
    BY <1>2, <2>1, <2>2 DEF Free
  <2>3. QED
    BY <1>1, <2>1, <2>2 DEF Free
<1>8. PlanBacked'
  BY <1>2, <1>3, <1>6, <1>7 DEF VouchInv, PlanBacked
<1>9. StageFits' /\ Rested'
  BY <1>1 DEF StageFits, Rested
<1>10. QED
  BY <1>4, <1>5, <1>8, <1>9 DEF VouchInv

\* A dropped entry vouches for nothing.
LEMMA NothingVouched ==
  /\ ~NoEntry.mapped /\ NoEntry.mtime = 0 /\ NoEntry.lm = 0
  /\ \A f, d : FileVouched(NoEntry, f) /\ OneHash(NoEntry) /\ DocVouched(NoEntry, d)
  BY DEF NoEntry, FileVouched, OneHash, DocVouched

\* The transfer's save: the file and the document have the bytes it saw.
LEMMA VouchTransferred ==
  ASSUME RunInv, TypeOK', OnceInv, VouchInv, RecordTransfer
  PROVE  VouchInv'
<1> DEFINE a == Current
           path == EntryPath(Current)
           e == Agreed(path, a.kind, got.uuid, got.lm, got.hash, PayloadOf(a, got.hash))
           entries == [archive EXCEPT ![a.key] = NoEntry, ![path] = e]
<1>1. phase = "run" /\ Work # {} /\ stage = "record" /\ a.op \in Transfers
  BY DEF RecordTransfer, At, Transfers
<1>2. /\ RunInv /\ TypeOK /\ PlanFits /\ DOMAIN archive = Key
      /\ clock["folder"] \in Nat /\ clock["tablet"] \in Nat
  BY DEF RunInv, TypeOK
<1>3. /\ a \in Work /\ ActionFits(a) /\ a.key \in Key /\ a.other \in Key /\ path \in Key
  BY <1>1, <1>2, CurrentType DEF EntryPath
<1>4. CASE ~local[path].present /\ Fail
  BY <1>1, <1>2, <1>4, VouchEnded, NothingVouched DEF Fail, EndRun, VouchInv, NothingGot
<1>5. CASE local[path].present /\ \E remote : Save(entries, remote)
  <2>1. PICK remote : Save(entries, remote)
    BY <1>5
  <2>2. /\ Holds(path, got.hash)
        /\ doc[got.uuid].present /\ doc[got.uuid].lm = got.lm => doc[got.uuid].payload = got.hash
        /\ a.op = "MoveRemote" => got.hash = a.hash
    BY <1>1 DEF VouchInv, StageFits
  <2>3. /\ e.mapped /\ e.mtime = local[path].mtime /\ e.lm = got.lm /\ e.hash = got.hash
        /\ e.uuid = got.uuid /\ e.kind = a.kind /\ e.payload = PayloadOf(a, got.hash)
    BY DEF Agreed
  <2>4. Backed(Waiting, a)
    BY <1>3 DEF VouchInv, PlanBacked
  <2>5. OneHash(e)
    BY <2>2, <2>3, <2>4 DEF OneHash, PayloadOf, Backed
  <2>6. FileVouched(e, local[path]) /\ DocVouched(e, doc[e.uuid])
    BY <2>2, <2>3 DEF FileVouched, DocVouched, Holds
  <2>7. e.mtime <= clock["folder"] /\ e.lm <= clock["tablet"]
    BY <1>3, <2>3 DEF VouchInv, StampsPast
  <2>8. /\ entries[path] = e
        /\ path # a.key => entries[a.key] = NoEntry
        /\ \A j \in Key \ {path, a.key} : entries[j] = archive[j]
    BY <1>2, <1>3
  <2> HIDE DEF e, entries
  <2>9. \A k \in Key : \/ entries[k] = archive[k]
                       \/ /\ entries[k].mtime <= clock["folder"] /\ entries[k].lm <= clock["tablet"]
                          /\ FileVouched(entries[k], local[k]) /\ OneHash(entries[k])
                          /\ DocVouched(entries[k], doc[entries[k].uuid])
    BY <1>2, <2>5, <2>6, <2>7, <2>8, NothingVouched
  <2>10. ASSUME NEW m \in Waiting, entries[m.other].mapped
         PROVE  archive[m.other].mapped /\ ~(a.op = "MoveRemote" /\ a.key = m.other)
    <3>1. ~local[m.other].present /\ m \in Work
      BY DEF VouchInv, PlanBacked, Free, Waiting
    <3>2. m.other \in Key \ {path}
      BY <1>2, <1>5, <3>1 DEF PlanFits, ActionFits, PlanAction
    <3>3. m.other # a.key
      BY <2>8, <2>10, <3>2, NothingVouched
    <3>4. QED
      BY <2>8, <2>10, <3>2, <3>3
  <2>11. ASSUME NEW m \in Work \ {a}, m.op = "MoveLocal"
         PROVE  entries[m.key] = archive[m.key] \/ ~entries[m.key].mapped \/ Bears(m.uuid, entries[m.key].hash)
    <3>1. a.op = "MoveRemote" /\ m.key \in Key
      BY <1>1, <1>2, <2>11, LaterBuckets DEF Transfers, Movers, Agreements, PlanFits, ActionFits, PlanAction
    <3>2. CASE m.key = path
      <4>1. a.uuid = m.uuid
        BY <1>2, <1>3, <2>11, <3>1, <3>2 DEF PlanFits, PairFits, EntryPath
      <4>2. Bears(a.uuid, a.hash)
        BY <2>4, <3>1 DEF Backed
      <4>3. entries[m.key].hash = a.hash
        BY <2>2, <2>3, <2>8, <3>1, <3>2
      <4>4. QED
        BY <4>1, <4>2, <4>3
    <3>3. CASE m.key # path
      BY <2>8, <3>1, <3>3, NothingVouched
    <3>4. QED
      BY <3>2, <3>3
  <2>12. a.op # "MoveLocal"
    BY <1>1 DEF Transfers
  <2>13. QED
    BY <1>1, <1>2, <2>1, <2>9, <2>10, <2>11, <2>12, VouchSaved
<1>6. QED
  BY <1>4, <1>5 DEF RecordTransfer, EntryPath

\* The rename's save: the entry goes with the file.
LEMMA VouchRenamed ==
  ASSUME RunInv, TypeOK', VouchInv, RecordLocalMove
  PROVE  VouchInv'
<1> DEFINE a == Current
           e == [archive[a.key] EXCEPT !.lm = a.lm]
           entries == [archive EXCEPT ![a.other] = e, ![a.key] = NoEntry]
<1>1. phase = "run" /\ Work # {} /\ stage = "record" /\ a.op = "MoveLocal" /\ Save(entries, FALSE)
  BY DEF RecordLocalMove, At
<1>2. PlanFits /\ TypeOK /\ DOMAIN archive = Key /\ archive[a.key] \in Entry
  BY <1>1, CurrentType DEF RunInv, TypeOK
<1>3. a \in Work /\ ActionFits(a) /\ a.key \in Key /\ a.other \in Key /\ a.uuid \in Uuid
  BY <1>1, <1>2, CurrentType DEF ActionFits, OfDocument, Ops, LocalWrites
<1>4. /\ archive[a.key].mapped /\ ~archive[a.other].mapped /\ ~local[a.key].present
      /\ FileVouched(archive[a.key], local[a.other])
  BY <1>1 DEF VouchInv, StageFits
<1>5. /\ e.mapped /\ e.mtime = archive[a.key].mtime /\ e.lm = a.lm /\ e.hash = archive[a.key].hash
      /\ e.pending = archive[a.key].pending /\ e.uuid = a.uuid /\ e.kind = archive[a.key].kind
      /\ e.payload = archive[a.key].payload
  BY <1>1, <1>2, <1>3, <1>4 DEF Entry, ActionFits
<1>6. FileVouched(e, local[a.other]) /\ OneHash(e) /\ DocVouched(e, doc[e.uuid])
  <2>1. LmFits(a) /\ OneHash(archive[a.key])
    BY <1>3 DEF VouchInv, PlanBacked, Vouched
  <2>2. FileVouched(e, local[a.other]) /\ OneHash(e)
    BY <1>4, <1>5, <2>1 DEF FileVouched, OneHash
  <2>3. DocVouched(e, doc[e.uuid])
    BY <1>1, <1>4, <1>5, <2>1 DEF LmFits, DocVouched
  <2>4. QED
    BY <2>2, <2>3
<1>7. e.mtime <= clock["folder"] /\ e.lm <= clock["tablet"]
  BY <1>3, <1>5 DEF VouchInv, StampsPast
<1>8. /\ entries[a.key] = NoEntry
      /\ a.other # a.key => entries[a.other] = e
      /\ \A j \in Key \ {a.other, a.key} : entries[j] = archive[j]
  BY <1>2, <1>3
<1> HIDE DEF e, entries
<1>9. \A k \in Key : \/ entries[k] = archive[k]
                     \/ /\ entries[k].mtime <= clock["folder"] /\ entries[k].lm <= clock["tablet"]
                        /\ FileVouched(entries[k], local[k]) /\ OneHash(entries[k])
                        /\ DocVouched(entries[k], doc[entries[k].uuid])
  <2>1. 0 <= clock["folder"] /\ 0 <= clock["tablet"]
    BY <1>2 DEF TypeOK
  <2>2. QED
    BY <1>6, <1>7, <1>8, <2>1, NothingVouched
<1>10. ASSUME NEW m \in Waiting, entries[m.other].mapped
       PROVE  archive[m.other].mapped /\ ~(a.op = "MoveRemote" /\ a.key = m.other)
  <2>1. m \in Work /\ m # a /\ m.op = "MoveLocal" /\ m.other \in Key
    BY <1>1, <1>2 DEF Waiting, PlanFits, ActionFits, PlanAction
  <2>2. m.other # a.other
    BY <1>1, <1>3, <2>1 DEF VouchInv, PlanBacked, ReadApart
  <2>3. QED
    BY <1>1, <1>8, <1>10, <2>1, <2>2, NothingVouched
<1>11. ASSUME NEW m \in Work \ {a}, m.op = "MoveLocal"
       PROVE  entries[m.key] = archive[m.key] \/ ~entries[m.key].mapped
  <2>1. m.key # a.other /\ m.key \in Key
    BY <1>1, <1>2, <1>3, <1>11 DEF PlanFits, PairFits, ActionFits, PlanAction
  <2>2. QED
    BY <1>8, <2>1, NothingVouched
<1>12. QED
  BY <1>1, <1>9, <1>10, <1>11, VouchSaved

\* An entry is dropped.
LEMMA VouchDropped ==
  ASSUME RunInv, TypeOK', VouchInv, RecordDelete \/ ForgetEntry
  PROVE  VouchInv'
<1> DEFINE a == Current
           entries == [archive EXCEPT ![a.key] = NoEntry]
<1>1. /\ phase = "run" /\ Work # {} /\ stage \in {"record", "effect"}
      /\ a.op \in {"DeleteRemote", "DeleteLocal", "Forget"}
  BY DEF RecordDelete, ForgetEntry, At
<1>2. PICK remote : Save(entries, remote)
  BY DEF RecordDelete, ForgetEntry
<1>3. PlanFits /\ TypeOK /\ DOMAIN archive = Key /\ clock["folder"] \in Nat /\ clock["tablet"] \in Nat
  BY DEF RunInv, TypeOK
<1>4. \A j \in Key : entries[j] = archive[j] \/ entries[j] = NoEntry
  BY <1>3
<1>5. \A m \in Work : m.key \in Key /\ m.other \in Key
  BY <1>3 DEF PlanFits, ActionFits, PlanAction
<1> HIDE DEF entries
<1>6. \A k \in Key : \/ entries[k] = archive[k]
                     \/ /\ entries[k].mtime <= clock["folder"] /\ entries[k].lm <= clock["tablet"]
                        /\ FileVouched(entries[k], local[k]) /\ OneHash(entries[k])
                        /\ DocVouched(entries[k], doc[entries[k].uuid])
  BY <1>3, <1>4, NothingVouched
<1>7. \A m \in Waiting : entries[m.other].mapped =>
        archive[m.other].mapped /\ ~(a.op = "MoveRemote" /\ a.key = m.other)
  BY <1>1, <1>4, <1>5, NothingVouched DEF Waiting
<1>8. \A m \in Work \ {a} : m.op = "MoveLocal" => entries[m.key] = archive[m.key] \/ ~entries[m.key].mapped
  BY <1>4, <1>5, NothingVouched
<1>9. stage # "touch" /\ a.op # "MoveLocal"
  BY <1>1
<1>10. QED
  BY <1>1, <1>2, <1>6, <1>7, <1>8, <1>9, VouchSaved

\* An agreement is recorded: both sides have the hash it names.
LEMMA VouchAgreed ==
  ASSUME RunInv, TypeOK', OnceInv, VouchInv, RecordAgreement
  PROVE  VouchInv'
<1> DEFINE a == Current
           e == Agreed(a.key, a.kind, a.uuid, a.lm, a.hash, a.payload)
           entries == [archive EXCEPT ![a.key] = e]
<1>1. phase = "run" /\ Work # {} /\ stage = "effect" /\ a.op \in Agreements
  BY DEF RecordAgreement, At, Agreements
<1>2. PlanFits /\ TypeOK /\ DOMAIN archive = Key /\ a \in Work /\ a.key \in Key
  BY <1>1, CurrentType DEF RunInv, TypeOK
<1>3. CASE ~local[a.key].present /\ Fail
  BY <1>1, <1>2, <1>3, VouchEnded DEF Fail, EndRun, VouchInv, NothingGot, TypeOK
<1>4. CASE local[a.key].present /\ Save(entries, FALSE)
  <2>1. Backed(Waiting, a)
    BY <1>2 DEF VouchInv, PlanBacked
  <2>2. /\ e.mapped /\ e.mtime = local[a.key].mtime /\ e.lm = a.lm /\ e.hash = a.hash
        /\ e.uuid = a.uuid /\ e.kind = a.kind /\ e.payload = a.payload
    BY DEF Agreed
  <2>3. FileVouched(e, local[a.key]) /\ OneHash(e) /\ DocVouched(e, doc[e.uuid])
    BY <1>1, <1>4, <2>1, <2>2 DEF Backed, Bears, FileVouched, OneHash, DocVouched
  <2>4. e.mtime <= clock["folder"] /\ e.lm <= clock["tablet"]
    BY <1>2, <2>2 DEF VouchInv, StampsPast
  <2>5. entries[a.key] = e /\ \A j \in Key \ {a.key} : entries[j] = archive[j]
    BY <1>2
  <2> HIDE DEF e, entries
  <2>6. \A k \in Key : \/ entries[k] = archive[k]
                       \/ /\ entries[k].mtime <= clock["folder"] /\ entries[k].lm <= clock["tablet"]
                          /\ FileVouched(entries[k], local[k]) /\ OneHash(entries[k])
                          /\ DocVouched(entries[k], doc[entries[k].uuid])
    BY <2>3, <2>4, <2>5
  <2>7. a.op # "MoveRemote" /\ a.op # "MoveLocal" /\ a.op \in {"Rebind", "Refresh", "Adopt"}
    BY <1>1 DEF Agreements
  <2>8. ASSUME NEW m \in Waiting
        PROVE  entries[m.other].mapped =>
                 archive[m.other].mapped /\ ~(a.op = "MoveRemote" /\ a.key = m.other)
    <3>1. m \in Work /\ ~local[m.other].present
      BY DEF VouchInv, PlanBacked, Free, Waiting
    <3>2. m.other \in Key \ {a.key}
      BY <1>2, <1>4, <3>1 DEF PlanFits, ActionFits, PlanAction
    <3>3. QED
      BY <2>5, <2>7, <3>2
  <2>9. ASSUME NEW m \in Work \ {a}, m.op = "MoveLocal" PROVE entries[m.key] = archive[m.key]
    <3>1. m.key \in Key \ {a.key}
      BY <1>2, <2>7, <2>9 DEF PlanFits, PairFits, ActionFits, PlanAction
    <3>2. QED
      BY <2>5, <3>1
  <2>10. QED
    BY <1>1, <1>4, <2>6, <2>7, <2>8, <2>9, VouchSaved
<1>5. QED
  BY <1>3, <1>4 DEF RecordAgreement

\* A rebound entry is pending: it vouches for no document.
LEMMA VouchRebound ==
  ASSUME RunInv, TypeOK', VouchInv, RebindEntry
  PROVE  VouchInv'
<1> DEFINE a == Current
           old == archive[a.key]
           e == IF old.mapped THEN [old EXCEPT !.uuid = a.uuid, !.pending = TRUE] ELSE old
           entries == [archive EXCEPT ![a.key] = e]
<1>1. phase = "run" /\ Work # {} /\ stage = "effect" /\ a.op = "Rebind" /\ Save(entries, TRUE)
  BY DEF RebindEntry, At
<1>2. PlanFits /\ TypeOK /\ DOMAIN archive = Key /\ a \in Work /\ a.key \in Key /\ old \in Entry
  BY <1>1, CurrentType DEF RunInv, TypeOK
<1>3. /\ e.mapped = old.mapped /\ e.mtime = old.mtime /\ e.lm = old.lm /\ e.hash = old.hash
      /\ e.kind = old.kind /\ e.payload = old.payload /\ (e.mapped => e.pending)
  BY <1>2 DEF Entry
<1>4. FileVouched(e, local[a.key]) /\ OneHash(e) /\ DocVouched(e, doc[e.uuid])
  BY <1>2, <1>3 DEF VouchInv, Vouched, FileVouched, OneHash, DocVouched
<1>5. e.mtime <= clock["folder"] /\ e.lm <= clock["tablet"]
  BY <1>2, <1>3 DEF VouchInv, StampsPast
<1>6. entries[a.key] = e /\ \A j \in Key \ {a.key} : entries[j] = archive[j]
  BY <1>2
<1>7. \A m \in Work : m.key \in Key /\ m.other \in Key
  BY <1>2 DEF PlanFits, ActionFits, PlanAction
<1> HIDE DEF e, entries
<1>8. \A k \in Key : \/ entries[k] = archive[k]
                     \/ /\ entries[k].mtime <= clock["folder"] /\ entries[k].lm <= clock["tablet"]
                        /\ FileVouched(entries[k], local[k]) /\ OneHash(entries[k])
                        /\ DocVouched(entries[k], doc[entries[k].uuid])
  BY <1>4, <1>5, <1>6
<1>9. \A m \in Waiting : entries[m.other].mapped =>
        archive[m.other].mapped /\ ~(a.op = "MoveRemote" /\ a.key = m.other)
  BY <1>1, <1>3, <1>6, <1>7 DEF Waiting
<1>10. \A m \in Work \ {a} : m.op = "MoveLocal" =>
         entries[m.key] = archive[m.key] \/ ~entries[m.key].mapped \/ entries[m.key].pending
  BY <1>3, <1>6, <1>7
<1>11. stage # "touch" /\ a.op # "MoveLocal"
  BY <1>1
<1>12. QED
  BY <1>1, <1>8, <1>9, <1>10, <1>11, VouchSaved

\* A document is made with the bytes of the file it was planned from.
LEMMA VouchRegistered ==
  ASSUME RunInv, TypeOK', VouchInv, At("effect", {"Upload", "CopyRemote"}),
         NEW kind \in Kind, NEW payload \in Version, payload = Current.hash,
         RegisterDocument(Current.key, kind, payload)
  PROVE  VouchInv'
<1> DEFINE a == Current
           u == nextUuid
           lm == clock["tablet"] + 1
           d == [present |-> TRUE, target |-> Target(a.key), kind |-> kind, lm |-> lm, payload |-> payload]
<1>1. /\ phase = "run" /\ Work # {} /\ stage = "effect" /\ a.op \in {"Upload", "CopyRemote"}
      /\ nextUuid <= NumDocs /\ doc' = [doc EXCEPT ![u] = d] /\ local' = local
      /\ clock' = [clock EXCEPT !["tablet"] = lm] /\ stage' = "record" /\ got' = Result(u, lm, a.hash)
      /\ UNCHANGED <<archive, phase, plan, snap>>
  BY DEF At, RegisterDocument, WriteDoc, Tick, Advance
<1>2. /\ PlanFits /\ TypeOK /\ u \in Uuid /\ clock["tablet"] \in Nat /\ clock \in [{"folder", "tablet"} -> Nat]
      /\ DOMAIN doc = Uuid
  <2>1. TypeOK /\ PlanFits
    BY DEF RunInv
  <2>2. u \in Uuid
    BY <1>1, <2>1, Constants DEF TypeOK, Uuid
  <2>3. QED
    BY <2>1, <2>2 DEF TypeOK
<1>3. a \in Work /\ a.key \in Key /\ a.other = a.key
  BY <1>1, <1>2, CurrentType DEF ActionFits
<1>4. d \in Doc
  BY <1>2, <1>3, Constants DEF Doc
<1>5. Waiting = {} /\ \A b \in Work : b.op \notin Agreements \cup {"Rebind"} \cup Movers
  BY <1>1, <1>2, BehindMoves DEF Agreements, Movers
<1>6. Holds(a.key, a.hash)
  BY <1>1, <1>3, <1>5 DEF VouchInv, PlanBacked, Backed, Reads, WillHold
<1>7. /\ got'.uuid = u /\ got'.lm = lm /\ got'.hash = a.hash /\ doc'[u] = d
      /\ clock'["tablet"] = lm /\ clock'["folder"] = clock["folder"]
  BY <1>1, <1>2 DEF Result
<1>8. Work' = Work /\ Current' = Current
  BY <1>1, SamePlan
<1>9. StageFits'
  <2>1. EntryPath(Current)' = a.key
    BY <1>1, <1>3, <1>8 DEF EntryPath
  <2>2. Holds(EntryPath(Current), got.hash)'
    BY <1>1, <1>6, <1>7, <2>1 DEF Holds
  <2>3. doc'[got'.uuid].payload = got'.hash
    BY <1>7
  <2>4. QED
    BY <1>1, <1>7, <1>8, <2>2, <2>3 DEF StageFits
<1>10. \A b \in Work : b.op \in Agreements \cup {"CopyLocal", "CopyRemote", "MoveRemote"} => b.uuid # u
  <2>1. \A b \in Work : b.op \in Agreements \cup {"CopyLocal", "CopyRemote", "MoveRemote"} => b.uuid < nextUuid /\ b.uuid \in Uuid
    BY <1>2 DEF PlanFits, ActionFits, OfDocument, Ops, Agreements, LocalWrites, RemoteWrites
  <2>2. QED
    BY <1>2, <2>1, Constants DEF Uuid
<1>11. d.lm = lm /\ clock["tablet"] <= lm /\ clock["tablet"] < lm /\ lm <= lm
  BY <1>2
<1> HIDE DEF d, u, lm
<1>12. QED
  BY <1>1, <1>2, <1>4, <1>7, <1>9, <1>10, <1>11, VouchDocument

\* Upload and copy on the device.
LEMMA VouchUploaded ==
  ASSUME RunInv, TypeOK', VouchInv, UploadDocument \/ CopyOnDevice
  PROVE  VouchInv'
<1> DEFINE a == Current
<1>1. phase = "run" /\ Work # {} /\ stage = "effect" /\ a.op \in {"Upload", "CopyRemote"}
  BY DEF UploadDocument, CopyOnDevice, At
<1>2. PlanFits /\ TypeOK /\ a \in Work /\ a.key \in Key /\ a.kind \in Kind
  BY <1>1, CurrentType DEF RunInv
<1>3. Waiting = {}
  BY <1>1, <1>2, BehindMoves DEF Agreements, Movers
<1>4. Backed(Waiting, a)
  BY <1>2 DEF VouchInv, PlanBacked
<1>5. Holds(a.key, a.hash)
  BY <1>1, <1>3, <1>4 DEF Backed, Reads, WillHold
<1>6. a.hash \in Version /\ BundleKinds \subseteq Kind /\ KindOf(a.key) \in Kind
  BY <1>1, <1>2, CurrentType, Constants, DeviceAssumption
<1>7. CASE Fail
  BY <1>1, <1>2, <1>7, VouchEnded DEF Fail, EndRun, VouchInv, NothingGot, TypeOK
<1>8. CASE UploadDocument /\ ~Fail
  <2>1. PICK kind \in (IF KindOf(a.key) = "rmdoc" THEN BundleKinds ELSE {KindOf(a.key)}) :
          RegisterDocument(a.key, kind, local[a.key].hash)
    BY <1>8 DEF UploadDocument
  <2>2. kind \in Kind /\ local[a.key].hash = a.hash
    BY <1>5, <1>6, <2>1 DEF Holds
  <2>3. QED
    BY <1>6, <1>8, <2>1, <2>2, VouchRegistered DEF UploadDocument, At
<1>9. CASE CopyOnDevice /\ ~Fail
  <2>1. doc[a.uuid].present /\ RegisterDocument(a.key, KindOf(a.key), doc[a.uuid].payload) /\ a.op = "CopyRemote"
    BY <1>9 DEF CopyOnDevice, At
  <2>2. doc[a.uuid].payload = a.hash
    BY <1>4, <2>1 DEF Backed, Bears
  <2>3. QED
    BY <1>6, <1>9, <2>1, <2>2, VouchRegistered DEF CopyOnDevice, At
<1>10. QED
  BY <1>7, <1>8, <1>9

\* The payload is replaced by the bytes that were planned.
LEMMA VouchUpdated ==
  ASSUME RunInv, TypeOK', OnceInv, VouchInv, UpdatePayload
  PROVE  VouchInv'
<1> DEFINE a == Current
<1>0. PICK u : u = a.uuid
  OBVIOUS
<1> DEFINE d == IF doc[u].present THEN [doc[u] EXCEPT !.payload = local[a.key].hash] ELSE doc[u]
<1>1. phase = "run" /\ Work # {} /\ stage = "effect" /\ a.op = "UpdateRemote"
  BY DEF UpdatePayload, At
<1>2. /\ PlanFits /\ TypeOK /\ a \in Work /\ a.key \in Key /\ u \in Uuid /\ doc[u] \in Doc
      /\ DOMAIN doc = Uuid /\ local[a.key] \in LocalFile /\ [doc EXCEPT ![u] = doc[u]] = doc
  <2>1. PlanFits /\ TypeOK /\ a \in Work /\ a.key \in Key /\ u \in Uuid /\ doc[u] \in Doc
    BY <1>0, <1>1, CurrentType, OnDocument DEF RunInv
  <2>2. QED
    BY <2>1 DEF TypeOK
<1>3. Waiting = {} /\ \A b \in Work : b.op \notin Agreements \cup {"Rebind"} \cup Movers
  BY <1>1, <1>2, BehindMoves DEF Agreements, Movers
<1>4. Holds(a.key, a.hash)
  BY <1>1, <1>2, <1>3 DEF VouchInv, PlanBacked, Backed, Reads, WillHold
<1>5. CASE Fail
  BY <1>1, <1>2, <1>5, VouchEnded DEF Fail, EndRun, VouchInv, NothingGot, TypeOK
<1>6. CASE ~Fail
  <2>1. /\ stage' = "touch" /\ got' = NothingGot /\ doc' = [doc EXCEPT ![u] = d]
        /\ UNCHANGED <<local, clock, archive, phase, plan, snap>>
    <3>1. CASE doc[u].present
      BY <1>0, <1>6, <3>1 DEF UpdatePayload, Advance, WriteDoc
    <3>2. CASE ~doc[u].present
      <4>1. UNCHANGED <<local, doc>> /\ Advance("touch", NothingGot) /\ UNCHANGED clock
        BY <1>0, <1>6, <3>2 DEF UpdatePayload
      <4>2. QED
        BY <1>2, <3>2, <4>1 DEF Advance
    <3>3. QED
      BY <3>1, <3>2
  <2>2. d \in Doc /\ d.lm = doc[u].lm /\ (d.present => d.payload = a.hash)
    BY <1>2, <1>4 DEF Doc, LocalFile, Holds
  <2>3. doc'[u] = d
    BY <1>2, <2>1
  <2>4. Work' = Work /\ Current' = Current
    BY <2>1, SamePlan
  <2> HIDE DEF d
  <2>5. StageFits'
    BY <1>0, <1>1, <2>1, <2>2, <2>3, <2>4 DEF StageFits, Bears
  <2>6. \A b \in Work : b.op \in Agreements \cup {"CopyLocal", "CopyRemote", "MoveRemote"} => b.uuid # u
    <3>1. SUFFICES ASSUME NEW b \in Work, b.op \in {"CopyLocal", "CopyRemote"}, b.uuid = u PROVE FALSE
      BY <1>3 DEF Movers
    <3>2. CASE b.op = "CopyRemote"
      BY <1>0, <1>1, <1>2, <3>1, <3>2 DEF VouchInv, PlanBacked, ReadApart
    <3>3. CASE b.op = "CopyLocal"
      <4>1. b.key = a.key /\ b # a
        BY <1>0, <1>1, <1>2, <3>1, <3>3 DEF OnceInv, PlanOnce, PairOnce, Binders
      <4>2. Before(a, b) /\ a.key \in Nat
        BY <1>2, <4>1, CurrentIs, Constants
      <4>3. Rank(a.op) = 5 /\ Rank(b.op) = 5
        BY <1>1, <3>3 DEF Rank
      <4>4. QED
        BY <3>3, <4>1, <4>2, <4>3, RankFacts DEF Before, PlanAction
    <3>4. QED
      BY <3>1, <3>2, <3>3
  <2>7. got'.lm = 0 /\ d.lm <= clock["tablet"] /\ clock["tablet"] \in Nat
    BY <1>2, <2>1, <2>2 DEF NothingGot, VouchInv, StampsPast, TypeOK
  <2>8. stage # "touch" /\ a.op # "MoveLocal" /\ \A b \in Work : b.op # "MoveLocal"
    BY <1>1, <1>3 DEF Movers
  <2>9. clock'["tablet"] = clock["tablet"] /\ clock'["folder"] = clock["folder"]
    BY <2>1
  <2>10. /\ got'.lm <= clock'["tablet"] /\ clock["tablet"] <= clock'["tablet"] /\ d.lm <= clock'["tablet"]
         /\ stage' = "touch" /\ Current.uuid = u /\ \A b \in Work : b.op # "MoveLocal"
    BY <1>0, <2>1, <2>7, <2>8, <2>9
  <2>11. QED
    BY <1>1, <1>2, <2>1, <2>2, <2>5, <2>6, <2>8, <2>9, <2>10, VouchDocument
<1>7. QED
  BY <1>5, <1>6

\* A document whose time is bumped: what vouched for it is out of date.
LEMMA VouchStamped ==
  ASSUME RunInv, TypeOK', VouchInv, TouchLastModified \/ MoveDocument
  PROVE  VouchInv'
<1> DEFINE a == Current
           lm == clock["tablet"] + 1
<1>0. PICK u : u = a.uuid
  OBVIOUS
<1>1. /\ phase = "run" /\ Work # {}
      /\ (stage = "touch" /\ a.op = "UpdateRemote") \/ (stage = "effect" /\ a.op = "MoveRemote")
  BY DEF TouchLastModified, MoveDocument, At
<1>2. /\ PlanFits /\ TypeOK /\ a \in Work /\ a.key \in Key /\ a.other \in Key /\ u \in Uuid /\ doc[u] \in Doc
      /\ DOMAIN doc = Uuid /\ clock["tablet"] \in Nat /\ Target(a.other) \in AllTargets
      /\ clock \in [{"folder", "tablet"} -> Nat]
  BY <1>0, <1>1, CurrentType, OnDocument, Constants DEF RunInv, TypeOK
<1>3. Backed(Waiting, a)
  BY <1>2 DEF VouchInv, PlanBacked
<1>4. Holds(EntryPath(a), a.hash) /\ Bears(u, a.hash)
  <2>1. CASE a.op = "MoveRemote"
    BY <1>0, <1>3, <2>1 DEF Backed, EntryPath
  <2>2. CASE stage = "touch" /\ a.op = "UpdateRemote"
    <3>1. Waiting = {}
      BY <1>1, <1>2, <2>2, BehindMoves DEF Agreements, Movers
    <3>2. a.other = a.key
      BY <1>1, <1>2, <2>2, CurrentType DEF ActionFits
    <3>3. QED
      BY <1>0, <1>1, <1>3, <2>2, <3>1, <3>2 DEF Backed, Reads, WillHold, EntryPath, VouchInv, StageFits
  <2>3. QED
    BY <1>1, <2>1, <2>2
<1>5. CASE ~doc[u].present /\ Fail
  BY <1>0, <1>1, <1>2, <1>5, VouchEnded DEF Fail, EndRun, VouchInv, NothingGot, TypeOK
<1>6. CASE doc[u].present
  <2>1. PICK d \in {[doc[u] EXCEPT !.lm = lm], [doc[u] EXCEPT !.target = Target(a.other), !.lm = lm]} :
          /\ doc' = [doc EXCEPT ![u] = d] /\ local' = local /\ clock' = [clock EXCEPT !["tablet"] = lm]
          /\ stage' = "record" /\ got' = Result(u, lm, a.hash)
          /\ UNCHANGED <<archive, phase, plan, snap>>
    <3>1. CASE TouchLastModified
      BY <1>0, <1>6, <3>1 DEF TouchLastModified, WriteDoc, Tick, Advance
    <3>2. CASE MoveDocument
      BY <1>0, <1>6, <3>2 DEF MoveDocument, WriteDoc, Tick, Advance
    <3>3. QED
      BY <3>1, <3>2
  <2>2. d \in Doc /\ d.lm = lm /\ d.payload = doc[u].payload /\ lm \in Nat
    <3>1. CASE d = [doc[u] EXCEPT !.lm = lm]
      BY <1>2, <3>1 DEF Doc
    <3>2. CASE d = [doc[u] EXCEPT !.target = Target(a.other), !.lm = lm]
      <4>1. lm \in Nat
        BY <1>2
      <4> HIDE DEF lm
      <4>2. QED
        BY <1>2, <3>2, <4>1 DEF Doc
    <3>3. QED
      BY <2>1, <3>1, <3>2
  <2>3. /\ doc'[u] = d /\ clock'["tablet"] = lm /\ clock'["folder"] = clock["folder"]
        /\ got'.uuid = u /\ got'.lm = lm /\ got'.hash = a.hash
    BY <1>2, <2>1 DEF Result
  <2>4. Work' = Work /\ Current' = Current
    BY <2>1, SamePlan
  <2>5. d.payload = a.hash
    BY <1>4, <1>6, <2>2 DEF Bears
  <2>6. StageFits'
    <3>1. EntryPath(Current)' = EntryPath(a)
      BY <2>4 DEF EntryPath
    <3>2. Holds(EntryPath(Current), got.hash)'
      BY <1>4, <2>1, <2>3, <3>1 DEF Holds
    <3>3. a.op # "MoveLocal"
      BY <1>1
    <3>4. QED
      BY <2>1, <2>3, <2>4, <2>5, <3>2, <3>3 DEF StageFits
  <2>7. ASSUME NEW b \in Work, b.op \in Agreements \cup {"CopyLocal", "CopyRemote", "MoveRemote"}, b.uuid = u
        PROVE  Bears(u, b.hash)'
    <3>1. Bears(u, b.hash)
      BY <2>7 DEF VouchInv, PlanBacked, Backed
    <3>2. QED
      BY <1>6, <2>2, <2>3, <3>1 DEF Bears
  <2>8. clock["tablet"] < lm /\ clock["tablet"] <= lm /\ lm <= lm /\ a.op # "MoveLocal"
    BY <1>1, <1>2
  <2> HIDE DEF lm
  <2>9. /\ clock["tablet"] <= clock'["tablet"] /\ d.lm <= clock'["tablet"] /\ got'.lm <= clock'["tablet"]
        /\ clock["tablet"] < d.lm /\ Current.uuid = u
    BY <1>0, <2>2, <2>3, <2>8
  <2>10. QED
    BY <1>1, <1>2, <2>1, <2>2, <2>3, <2>6, <2>7, <2>8, <2>9, VouchDocument
<1>7. QED
  BY <1>0, <1>5, <1>6 DEF TouchLastModified, MoveDocument

\* Which stamps a written file carries.
LEMMA WrittenFile ==
  ASSUME RunInv, VouchInv, NEW k \in Key, NEW h \in Version, WriteLocal(k, h)
  PROVE  LET f == [present |-> TRUE, mtime |-> clock["folder"] + 1, hash |-> h] IN
         /\ f \in LocalFile /\ local' = [local EXCEPT ![k] = f] /\ local'[k] = f
         /\ clock["folder"] <= clock'["folder"] /\ clock'["tablet"] = clock["tablet"]
         /\ f.mtime <= clock'["folder"] /\ clock["folder"] < f.mtime /\ FileVouched(archive[k], f)
         /\ UNCHANGED doc
<1> DEFINE f == [present |-> TRUE, mtime |-> clock["folder"] + 1, hash |-> h]
<1>1. /\ local' = [local EXCEPT ![k] = f] /\ clock' = [clock EXCEPT !["folder"] = clock["folder"] + 1]
      /\ UNCHANGED doc
  BY DEF WriteLocal, Tick
<1>2. /\ clock \in [{"folder", "tablet"} -> Nat] /\ local \in [Key -> LocalFile] /\ archive[k].mtime \in Nat
  BY DEF RunInv, TypeOK, Entry
<1>3. clock'["folder"] = clock["folder"] + 1 /\ clock'["tablet"] = clock["tablet"] /\ clock["folder"] \in Nat
  BY <1>1, <1>2
<1>4. archive[k].mtime <= clock["folder"]
  BY DEF VouchInv, StampsPast
<1>5. f \in LocalFile
  BY <1>3 DEF LocalFile
<1>6. f.mtime = clock["folder"] + 1 /\ local'[k] = f
  BY <1>1, <1>2
<1>7. FileVouched(archive[k], f)
  BY <1>2, <1>3, <1>4, <1>6 DEF FileVouched
<1> HIDE DEF f
<1>8. QED
  BY <1>1, <1>3, <1>5, <1>6, <1>7 DEF f

\* A download writes a path that nothing else reads.
LEMMA VouchDownloaded ==
  ASSUME RunInv, TypeOK', VouchInv, DownloadDocument
  PROVE  VouchInv'
<1>0. PICK k, u : k = Current.key /\ u = Current.uuid
  OBVIOUS
<1>1. phase = "run" /\ Work # {} /\ stage = "effect" /\ Current.op = "Download"
  BY DEF DownloadDocument, At
<1>2. PlanFits /\ TypeOK /\ Current \in Work /\ k \in Key /\ u \in Uuid /\ doc[u] \in Doc
  BY <1>0, <1>1, CurrentType, OnDocument DEF RunInv
<1>3. Waiting = {} /\ \A b \in Work : b.op \notin Agreements \cup {"Rebind"} \cup Movers
  BY <1>1, <1>2, BehindMoves DEF Agreements, Movers
<1>4. CASE Fail
  BY <1>1, <1>2, <1>4, VouchEnded DEF Fail, EndRun, VouchInv, NothingGot, TypeOK
<1>5. CASE ~Fail
  <2>1. /\ doc[u].present /\ WriteLocal(k, doc[u].payload) /\ Advance("hash", NothingGot)
    BY <1>0, <1>5 DEF DownloadDocument
  <2> DEFINE f == [present |-> TRUE, mtime |-> clock["folder"] + 1, hash |-> doc[u].payload]
  <2>2. doc[u].payload \in Version
    BY <1>2 DEF Doc
  <2>3. /\ f \in LocalFile /\ local' = [local EXCEPT ![k] = f] /\ local'[k] = f
        /\ clock["folder"] <= clock'["folder"] /\ clock'["tablet"] = clock["tablet"]
        /\ f.mtime <= clock'["folder"] /\ FileVouched(archive[k], f) /\ UNCHANGED doc
    BY <1>2, <2>1, <2>2, WrittenFile
  <2>4. stage' = "hash" /\ got' = NothingGot /\ UNCHANGED <<archive, phase, plan, snap>>
    BY <2>1 DEF Advance
  <2>5. Work' = Work /\ Current' = Current
    BY <2>4, SamePlan
  <2>6. StageFits'
    BY <1>0, <1>1, <2>3, <2>4, <2>5 DEF StageFits, Bears
  <2>7. got'.lm <= clock["tablet"]
    BY <1>2, <2>4 DEF NothingGot, TypeOK
  <2>8. \A a \in Work : /\ k \in Reads(a) => f.present /\ f.hash = a.hash
                        /\ a.op \in Agreements => a.key # k
                        /\ a.op = "MoveRemote" => a.other # k
    <3>1. ASSUME NEW a \in Work PROVE k \notin Reads(a)
      <4>1. CASE a = Current
        BY <1>1, <4>1 DEF Reads
      <4>2. CASE a # Current
        BY <1>0, <1>1, <1>2, <4>2 DEF VouchInv, PlanBacked, ReadApart
      <4>3. QED
        BY <4>1, <4>2
    <3>2. QED
      BY <1>3, <3>1 DEF Movers
  <2> HIDE DEF f
  <2>9. QED
    BY <1>1, <1>2, <1>3, <2>3, <2>4, <2>6, <2>7, <2>8, VouchFile
<1>6. QED
  BY <1>4, <1>5

\* The hash taken of a download is the hash of what the document bears.
LEMMA VouchHashed ==
  ASSUME RunInv, TypeOK', VouchInv, HashWritten
  PROVE  VouchInv'
<1>0. PICK k, u : k = Current.key /\ u = Current.uuid
  OBVIOUS
<1>1. phase = "run" /\ Work # {} /\ stage = "hash" /\ Current.op = "Download"
  BY DEF HashWritten, At
<1>2. /\ PlanFits /\ TypeOK /\ Current \in Work /\ k \in Key /\ Current.other = k /\ u \in Uuid
      /\ local[k] \in LocalFile /\ [local EXCEPT ![k] = local[k]] = local
  <2>1. PlanFits /\ TypeOK /\ Current \in Work /\ k \in Key /\ u \in Uuid /\ ActionFits(Current)
    BY <1>0, <1>1, CurrentType, OnDocument DEF RunInv
  <2>2. Current.other = k
    BY <1>0, <1>1, <2>1 DEF ActionFits
  <2>3. QED
    BY <2>1, <2>2 DEF TypeOK
<1>3. Waiting = {} /\ \A b \in Work : b.op \notin Agreements \cup {"Rebind"} \cup Movers
  BY <1>1, <1>2, BehindMoves DEF Agreements, Movers
<1>4. CASE Fail
  BY <1>1, <1>2, <1>4, VouchEnded DEF Fail, EndRun, VouchInv, NothingGot, TypeOK
<1>5. CASE ~Fail
  <2>1. /\ local[k].present /\ Advance("record", Result(u, Current.lm, local[k].hash))
        /\ UNCHANGED <<local, doc, clock>>
    BY <1>0, <1>5 DEF HashWritten
  <2>2. /\ stage' = "record" /\ got'.uuid = u /\ got'.lm = Current.lm /\ got'.hash = local[k].hash
        /\ UNCHANGED <<archive, phase, plan, snap>>
    BY <2>1 DEF Advance, Result
  <2>3. Work' = Work /\ Current' = Current
    BY <2>2, SamePlan
  <2>4. StageFits'
    <3>1. EntryPath(Current)' = k
      BY <1>0, <1>1, <1>2, <2>3 DEF EntryPath
    <3>2. Bears(u, local[k].hash)
      BY <1>0, <1>1 DEF VouchInv, StageFits
    <3>3. QED
      BY <1>1, <2>1, <2>2, <2>3, <3>1, <3>2 DEF StageFits, Holds, Bears
  <2>5. got'.lm <= clock["tablet"] /\ local[k].mtime <= clock["folder"] /\ FileVouched(archive[k], local[k])
    BY <1>2, <2>2 DEF VouchInv, StampsPast, Vouched
  <2>6. clock["folder"] <= clock'["folder"] /\ local[k].mtime <= clock'["folder"] /\ clock'["tablet"] = clock["tablet"]
    BY <1>2, <2>1, <2>5 DEF TypeOK
  <2>7. \A a \in Work : k \notin Reads(a)
    <3>1. SUFFICES ASSUME NEW a \in Work PROVE k \notin Reads(a)
      OBVIOUS
    <3>2. CASE a = Current
      BY <1>1, <3>2 DEF Reads
    <3>3. CASE a # Current
      BY <1>0, <1>1, <1>2, <3>3 DEF VouchInv, PlanBacked, ReadApart
    <3>4. QED
      BY <3>2, <3>3
  <2>8. \A a \in Work : a.op \notin Agreements /\ a.op # "MoveRemote"
    BY <1>3 DEF Movers
  <2>9. QED
    BY <1>1, <1>2, <1>3, <2>1, <2>2, <2>4, <2>5, <2>6, <2>7, <2>8, VouchFile
<1>6. QED
  BY <1>4, <1>5

\* A local copy writes the bytes that the document bears.
LEMMA VouchCopied ==
  ASSUME RunInv, TypeOK', VouchInv, CopyLocally
  PROVE  VouchInv'
<1>0. PICK k, j, u : k = Current.key /\ j = Current.other /\ u = Current.uuid
  OBVIOUS
<1>1. phase = "run" /\ Work # {} /\ stage = "effect" /\ Current.op = "CopyLocal"
  BY DEF CopyLocally, At
<1>2. PlanFits /\ TypeOK /\ Current \in Work /\ k \in Key /\ j \in Key /\ u \in Uuid /\ local[j] \in LocalFile
  BY <1>0, <1>1, CurrentType, OnDocument DEF RunInv, TypeOK
<1>3. Waiting = {} /\ \A b \in Work : b.op \notin Agreements \cup {"Rebind"} \cup Movers
  BY <1>1, <1>2, BehindMoves DEF Agreements, Movers
<1>4. CASE Fail
  BY <1>1, <1>2, <1>4, VouchEnded DEF Fail, EndRun, VouchInv, NothingGot, TypeOK
<1>5. CASE ~Fail
  <2>1. /\ WriteLocal(k, local[j].hash) /\ Advance("record", Result(u, Current.lm, Current.hash))
    BY <1>0, <1>5 DEF CopyLocally
  <2> DEFINE f == [present |-> TRUE, mtime |-> clock["folder"] + 1, hash |-> local[j].hash]
  <2>2. local[j].hash \in Version
    BY <1>2 DEF LocalFile
  <2>3. /\ f \in LocalFile /\ local' = [local EXCEPT ![k] = f] /\ local'[k] = f
        /\ clock["folder"] <= clock'["folder"] /\ clock'["tablet"] = clock["tablet"]
        /\ f.mtime <= clock'["folder"] /\ FileVouched(archive[k], f) /\ UNCHANGED doc
    BY <1>2, <2>1, <2>2, WrittenFile
  <2>4. Backed(Waiting, Current)
    BY <1>2 DEF VouchInv, PlanBacked
  <2>5. local[j].hash = Current.hash /\ Bears(u, Current.hash)
    BY <1>0, <1>1, <1>3, <2>4 DEF Backed, Reads, WillHold, Holds
  <2>6. /\ stage' = "record" /\ got'.uuid = u /\ got'.lm = Current.lm /\ got'.hash = Current.hash
        /\ UNCHANGED <<archive, phase, plan, snap>>
    BY <2>1 DEF Advance, Result
  <2>7. Work' = Work /\ Current' = Current
    BY <2>6, SamePlan
  <2>8. StageFits'
    <3>1. EntryPath(Current)' = k
      BY <1>0, <1>1, <2>7 DEF EntryPath
    <3>2. Holds(k, Current.hash)'
      BY <2>3, <2>5, <2>7 DEF Holds
    <3>3. QED
      BY <1>1, <2>3, <2>5, <2>6, <2>7, <3>1, <3>2 DEF StageFits, Holds, Bears
  <2>9. got'.lm <= clock["tablet"]
    BY <1>2, <2>6 DEF VouchInv, StampsPast
  <2>10. \A a \in Work : /\ k \in Reads(a) => f.present /\ f.hash = a.hash
                         /\ a.op \in Agreements => a.key # k
                         /\ a.op = "MoveRemote" => a.other # k
    <3>1. ASSUME NEW a \in Work, k \in Reads(a) PROVE f.present /\ f.hash = a.hash
      <4>1. a = Current
        BY <1>0, <1>1, <1>2, <3>1 DEF VouchInv, PlanBacked, ReadApart
      <4>2. QED
        BY <2>5, <4>1
    <3>2. QED
      BY <1>3, <3>1 DEF Movers
  <2> HIDE DEF f
  <2>11. QED
    BY <1>1, <1>2, <1>3, <2>3, <2>6, <2>8, <2>9, <2>10, VouchFile
<1>6. QED
  BY <1>4, <1>5

\* What a deletion takes away, no action left reads.
LEMMA VouchDeleted ==
  ASSUME RunInv, TypeOK', VouchInv, DeleteEffect
  PROVE  VouchInv'
<1>0. PICK k, u : k = Current.key /\ u = Current.uuid
  OBVIOUS
<1>1. /\ phase = "run" /\ Work # {} /\ stage = "effect" /\ Current.op \in Deletions
      /\ stage' = "record" /\ got' = NothingGot /\ UNCHANGED <<clock, archive, phase, plan, snap>>
  BY DEF DeleteEffect, At, Advance, Deletions
<1>2. PlanFits /\ TypeOK /\ Current \in Work /\ k \in Key /\ clock["folder"] \in Nat /\ clock["tablet"] \in Nat
  BY <1>0, <1>1, CurrentType DEF RunInv, TypeOK
<1>3. /\ Waiting = {} /\ \A b \in Work : b.op \notin Agreements \cup {"Rebind"} \cup Movers
      /\ \A b \in Work : Reads(b) = {}
  BY <1>1, <1>2, BehindMoves DEF Agreements, Movers, Deletions
<1>4. Work' = Work /\ Current' = Current
  BY <1>1, SamePlan
<1>5. StageFits'
  BY <1>1, <1>4 DEF StageFits, Deletions, Transfers
<1>6. got'.lm = 0 /\ got'.lm <= clock["tablet"] /\ clock'["folder"] = clock["folder"] /\ clock'["tablet"] = clock["tablet"]
  BY <1>1, <1>2 DEF NothingGot
<1>7. CASE Current.op = "DeleteRemote"
  <2>1. doc' = [doc EXCEPT ![u] = NoDoc] /\ UNCHANGED local
    BY <1>0, <1>7 DEF DeleteEffect, WriteDoc
  <2>2. u \in Uuid /\ NoDoc \in Doc /\ ~NoDoc.present /\ NoDoc.lm = 0
    <3>1. NoDoc \in Doc
      BY Constants DEF NoDoc, Doc
    <3>2. QED
      BY <1>0, <1>1, <1>2, <1>7, <3>1, OnDocument DEF NoDoc
  <2>3. doc'[u] = NoDoc
    BY <1>2, <2>1, <2>2 DEF TypeOK
  <2>4. \A b \in Work : Bears(u, b.hash)'
    BY <2>2, <2>3 DEF Bears
  <2>5. /\ clock["tablet"] <= clock'["tablet"] /\ NoDoc.lm <= clock'["tablet"] /\ got'.lm <= clock'["tablet"]
        /\ stage # "touch" /\ Current.op # "MoveLocal"
    BY <1>1, <1>2, <1>6, <1>7, <2>2
  <2>6. QED
    BY <1>1, <1>5, <1>6, <2>1, <2>2, <2>4, <2>5, VouchDocument
<1>8. CASE Current.op = "DeleteLocal"
  <2>1. local' = [local EXCEPT ![k] = NoFile] /\ UNCHANGED doc
    BY <1>0, <1>8 DEF DeleteEffect
  <2>2. NoFile \in LocalFile /\ ~NoFile.present /\ NoFile.mtime = 0 /\ FileVouched(archive[k], NoFile)
    BY NoEntryFits DEF NoFile, FileVouched
  <2>3. /\ clock["folder"] <= clock'["folder"] /\ NoFile.mtime <= clock'["folder"]
        /\ stage # "touch" /\ Current.op # "MoveLocal" /\ phase # "scanned"
    BY <1>1, <1>2, <1>6, <1>8, <2>2
  <2>4. \A a \in Work : k \notin Reads(a) /\ a.op \notin Agreements /\ a.op # "MoveRemote"
    BY <1>3 DEF Movers
  <2>5. QED
    BY <1>1, <1>2, <1>3, <1>5, <1>6, <2>1, <2>2, <2>3, <2>4, VouchFile
<1>9. QED
  BY <1>1, <1>7, <1>8 DEF Deletions

\* A file follows its document: it brings its bytes where later actions look
\* for them.
LEMMA VouchFollowed ==
  ASSUME RunInv, TypeOK', VouchInv, RenameFile
  PROVE  VouchInv'
<1>0. PICK from, to, c : from = Current.key /\ to = Current.other /\ c = Current
  OBVIOUS
<1>1. phase = "run" /\ Work # {} /\ stage = "effect" /\ c.op = "MoveLocal"
  BY <1>0 DEF RenameFile, At
<1>2. PlanFits /\ TypeOK /\ c \in Work /\ from \in Key /\ to \in Key /\ DOMAIN local = Key
  BY <1>0, <1>1, CurrentType DEF RunInv, TypeOK
<1>3. CASE Fail
  BY <1>1, <1>2, <1>3, VouchEnded DEF Fail, EndRun, VouchInv, NothingGot, TypeOK
<1>4. CASE ~Fail
  <2>1. /\ archive[from].mapped /\ local[from].present
        /\ local' = [local EXCEPT ![to] = local[from], ![from] = NoFile]
        /\ stage' = "record" /\ got' = NothingGot
        /\ UNCHANGED <<doc, clock, archive, phase, plan, snap>>
    BY <1>0, <1>4 DEF RenameFile, Advance
  <2>2. Work' = Work /\ Current' = c
    BY <1>0, <2>1, SamePlan
  <2>3. /\ Waiting = {m \in Work : m.op = "MoveLocal"} /\ Waiting' = Waiting \ {c} /\ c \in Waiting
    BY <1>1, <1>2, <2>1, <2>2 DEF Waiting
  <2>4. \A b \in Work : b.op \notin Agreements /\ b.op # "MoveRemote"
    <3>1. SUFFICES ASSUME NEW b \in Work \ {c} PROVE b.op \notin Agreements /\ b.op # "MoveRemote"
      BY <1>1 DEF Agreements
    <3>2. QED
      BY <1>0, <1>1, <1>2, LaterBuckets DEF Agreements
  <2>5. Free(Work, c)
    BY <2>3 DEF VouchInv, PlanBacked
  <2>6. ~local[to].present /\ ~archive[to].mapped /\ to # from
    BY <1>0, <2>1, <2>4, <2>5 DEF Free
  <2>7. /\ local'[to] = local[from] /\ local'[from] = NoFile
        /\ \A j \in Key \ {from, to} : local'[j] = local[j]
    BY <1>2, <2>1, <2>6
  <2>8. ~NoFile.present /\ NoFile.mtime = 0
    BY DEF NoFile
  <2>9. StampsPast'
    <3>1. clock["folder"] \in Nat /\ clock["tablet"] \in Nat /\ got'.lm = 0
      BY <1>2, <2>1 DEF TypeOK, NothingGot
    <3>2. \A j \in Key : local'[j].mtime <= clock["folder"]
      BY <1>2, <2>7, <2>8, <3>1 DEF VouchInv, StampsPast
    <3>3. StampsPast /\ clock' = clock /\ archive' = archive /\ doc' = doc
      BY <2>1 DEF VouchInv
    <3>4. QED
      BY <2>2, <3>1, <3>2, <3>3 DEF StampsPast
  <2>10. Vouched'
    <3>1. \A j \in Key : FileVouched(archive[j], local'[j])
      BY <2>6, <2>7, <2>8 DEF VouchInv, Vouched, FileVouched
    <3>2. \A j \in Key : DocVouched(archive[j], doc[archive[j].uuid])
      BY <1>1 DEF VouchInv, Vouched, Touching
    <3>3. QED
      BY <2>1, <3>1, <3>2 DEF VouchInv, Vouched, FileVouched, DocVouched, OneHash
  <2>11. \A m \in Waiting : m # c => /\ m.key \in Key \ {from, to} /\ m.other \in Key \ {to}
    <3>1. SUFFICES ASSUME NEW m \in Waiting, m # c PROVE m.key \in Key \ {from, to} /\ m.other \in Key \ {to}
      OBVIOUS
    <3>2. m \in Work /\ m.op = "MoveLocal" /\ m.key \in Key /\ m.other \in Key
      BY <1>2, <2>3, <3>1 DEF PlanFits, ActionFits, PlanAction
    <3>3. m.key # from
      <4>1. Before(c, m)
        BY <1>0, <1>1, <1>2, <3>1, <3>2, CurrentIs
      <4>2. Rank(c.op) = 4 /\ Rank(m.op) = 4 /\ from \in Nat
        BY <1>1, <1>2, <3>2, RankFacts, Constants
      <4>3. QED
        BY <1>0, <1>1, <3>2, <4>1, <4>2 DEF Before
    <3>4. m.key # to
      BY <1>0, <1>1, <1>2, <3>2 DEF PlanFits, PairFits
    <3>5. m.other # to
      BY <1>0, <1>1, <1>2, <3>1, <3>2 DEF VouchInv, PlanBacked, ReadApart
    <3>6. QED
      BY <3>2, <3>3, <3>4, <3>5
  <2>12. ASSUME NEW a \in Work PROVE Backed(Waiting, a)'
    <3>1. Backed(Waiting, a) /\ Reads(a) \subseteq Key
      BY <1>2 DEF VouchInv, PlanBacked, Reads, PlanFits, ActionFits, PlanAction
    <3>2. ASSUME NEW j \in Reads(a) PROVE WillHold(Waiting, j, a.hash)'
      <4>1. WillHold(Waiting, j, a.hash) /\ j \in Key /\ j # from
        BY <1>0, <1>1, <1>2, <3>1 DEF Backed, VouchInv, PlanBacked, ReadApart
      <4>2. CASE Holds(j, a.hash)
        <5>1. j # to
          BY <2>6, <4>2 DEF Holds
        <5>2. QED
          BY <2>7, <4>1, <4>2, <5>1 DEF WillHold, Holds
      <4>3. CASE \E m \in Waiting : m.other = j /\ Holds(m.key, a.hash)
        <5>1. PICK m \in Waiting : m.other = j /\ Holds(m.key, a.hash)
          BY <4>3
        <5>2. CASE m = c
          BY <1>0, <2>7, <5>1, <5>2 DEF WillHold, Holds
        <5>3. CASE m # c
          BY <2>3, <2>7, <2>11, <5>1, <5>3 DEF WillHold, Holds
        <5>4. QED
          BY <5>2, <5>3
      <4>4. QED
        BY <4>1, <4>2, <4>3 DEF WillHold
    <3>3. QED
      BY <2>1, <2>4, <3>1, <3>2 DEF Backed, Bears
  <2>13. \A m \in Waiting' : Free(Work, m)'
    <3>1. SUFFICES ASSUME NEW m \in Waiting, m # c PROVE Free(Work, m)'
      BY <2>3
    <3>2. Free(Work, m) /\ m.other \in Key \ {to}
      BY <2>11, <3>1 DEF VouchInv, PlanBacked
    <3>3. ~local'[m.other].present
      BY <2>7, <2>8, <3>2 DEF Free
    <3>4. QED
      BY <2>1, <2>2, <3>2, <3>3 DEF Free
  <2>14. PlanBacked'
    BY <2>1, <2>2, <2>12, <2>13 DEF VouchInv, PlanBacked, LmFits
  <2>15. StageFits'
    <3>1. FileVouched(archive[from], local'[to])
      BY <1>2, <2>7 DEF VouchInv, Vouched
    <3>2. QED
      BY <1>0, <1>1, <2>1, <2>2, <2>6, <2>7, <2>8, <3>1 DEF StageFits, Transfers, FileVouched
  <2>16. Rested'
    BY <1>1, <2>1 DEF Rested
  <2>17. QED
    BY <2>9, <2>10, <2>14, <2>15, <2>16 DEF VouchInv
<1>5. QED
  BY <1>3, <1>4

\* The folder's user changes a path that the running plan leaves alone.
LEMMA VouchBesideFile ==
  ASSUME RunInv, TypeOK', VouchInv, QuietRuns, FolderStep, NEW k \in Key, LeavesPath(k),
         NEW f \in LocalFile, local' = [local EXCEPT ![k] = f],
         \/ f.mtime = clock["folder"] + 1 /\ Tick("folder")
         \/ f = NoFile /\ clock' = clock
  PROVE  VouchInv'
<1>1. /\ phase # "scanned" /\ \A a \in Work : k \notin {a.key, a.other}
      /\ UNCHANGED <<doc, archive, plan, phase, snap, stage, got>>
  BY DEF LeavesPath, FolderStep, syncVars
<1>2. /\ TypeOK /\ PlanFits /\ DOMAIN local = Key /\ clock \in [{"folder", "tablet"} -> Nat]
      /\ archive[k].mtime \in Nat
  BY DEF RunInv, TypeOK, Entry
<1>3. Work' = Work /\ Current' = Current
  BY <1>1, SamePlan
<1>4. /\ clock["folder"] <= clock'["folder"] /\ clock'["tablet"] = clock["tablet"]
      /\ f.mtime <= clock'["folder"] /\ FileVouched(archive[k], f)
  <2>1. archive[k].mtime <= clock["folder"] /\ clock["folder"] \in Nat
    BY <1>2 DEF VouchInv, StampsPast
  <2>2. CASE f.mtime = clock["folder"] + 1 /\ Tick("folder")
    <3>1. clock'["folder"] = clock["folder"] + 1 /\ clock'["tablet"] = clock["tablet"]
      BY <1>2, <2>2 DEF Tick
    <3>2. f.mtime # archive[k].mtime
      BY <1>2, <2>1, <2>2
    <3>3. QED
      BY <2>1, <2>2, <3>1, <3>2 DEF FileVouched
  <2>3. CASE f = NoFile /\ clock' = clock
    BY <2>1, <2>3 DEF NoFile, FileVouched
  <2>4. QED
    BY <2>2, <2>3
<1>5. StageFits'
  <2>1. SUFFICES ASSUME Work # {} PROVE StageFits'
    BY <1>3 DEF StageFits
  <2>2. Current.key \in Key \ {k} /\ Current.other \in Key \ {k}
    BY <1>1, <1>2, <2>1, CurrentType
  <2>3. local'[Current.key] = local[Current.key] /\ local'[Current.other] = local[Current.other]
    BY <1>2, <2>2
  <2>4. EntryPath(Current)' = EntryPath(Current) /\ EntryPath(Current) \in {Current.key, Current.other}
    BY <1>3 DEF EntryPath
  <2>5. StageFits
    BY DEF VouchInv
  <2>6. stage = "record" /\ Current.op \in Transfers => Holds(EntryPath(Current), got.hash)'
    BY <1>1, <2>1, <2>3, <2>4, <2>5 DEF StageFits, Holds
  <2>7. QED
    BY <1>1, <1>3, <2>3, <2>5, <2>6 DEF StageFits, Bears, FileVouched
<1>6. /\ \A a \in Work : /\ k \notin Reads(a)
                         /\ a.op \in Agreements => a.key # k
                         /\ a.op = "MoveRemote" => a.other # k
      /\ \A m \in Waiting : k \notin {m.key, m.other}
  BY <1>1 DEF Reads, Waiting
<1>7. got'.lm <= clock["tablet"]
  BY <1>1 DEF VouchInv, StampsPast
<1>8. QED
  BY <1>1, <1>4, <1>5, <1>6, <1>7, VouchFile

\* What the folder's user does.
LEMMA VouchWithFolder ==
  ASSUME RunInv, TypeOK', VouchInv, QuietRuns, "rename" \notin FolderActs, NEW k \in Key, NEW j \in Key,
         UserWrite(k) \/ UserTouch(k) \/ UserRemove(k) \/ UserRename(k, j) \/ UserCopy(k, j)
  PROVE  VouchInv'
<1>1. /\ local \in [Key -> LocalFile] /\ clock["folder"] + 1 \in Nat /\ local' \in [Key -> LocalFile]
      /\ local[k] \in LocalFile /\ TypeOK
  BY Ticks DEF RunInv, TypeOK
<1>2. CASE UserWrite(k)
  <2> DEFINE f == [present |-> TRUE, mtime |-> clock["folder"] + 1, hash |-> NewVersion]
  <2>1. LeavesPath(k) /\ FolderStep /\ Tick("folder") /\ local' = [local EXCEPT ![k] = f]
    BY <1>2 DEF UserWrite
  <2>2. f.mtime = clock["folder"] + 1 /\ f = local'[k]
    BY <1>1, <2>1
  <2>3. f \in LocalFile
    BY <1>1, <2>2
  <2> HIDE DEF f
  <2>4. QED
    BY <2>1, <2>2, <2>3, VouchBesideFile
<1>3. CASE UserTouch(k)
  <2> DEFINE f == [local[k] EXCEPT !.mtime = clock["folder"] + 1]
  <2>1. LeavesPath(k) /\ FolderStep /\ Tick("folder") /\ local' = [local EXCEPT ![k] = f]
    BY <1>3 DEF UserTouch
  <2>2. f.mtime = clock["folder"] + 1 /\ f \in LocalFile
    BY <1>1 DEF LocalFile
  <2> HIDE DEF f
  <2>3. QED
    BY <2>1, <2>2, VouchBesideFile
<1>4. CASE UserRemove(k)
  <2>1. LeavesPath(k) /\ FolderStep /\ clock' = clock /\ local' = [local EXCEPT ![k] = NoFile]
    BY <1>4 DEF UserRemove
  <2>2. QED
    BY <2>1, NoEntryFits, VouchBesideFile
<1>5. CASE UserCopy(k, j)
  <2> DEFINE f == [local[k] EXCEPT !.mtime = clock["folder"] + 1]
  <2>1. LeavesPath(j) /\ FolderStep /\ Tick("folder") /\ local' = [local EXCEPT ![j] = f]
    BY <1>5 DEF UserCopy
  <2>2. f.mtime = clock["folder"] + 1 /\ f \in LocalFile
    BY <1>1 DEF LocalFile
  <2> HIDE DEF f
  <2>3. QED
    BY <2>1, <2>2, VouchBesideFile
<1>6. ~UserRename(k, j)
  BY DEF UserRename
<1>7. QED
  BY <1>2, <1>3, <1>4, <1>5, <1>6

\* The tablet's user changes a document that the running plan leaves alone.
LEMMA VouchBesideDocument ==
  ASSUME RunInv, TypeOK', VouchInv, TabletStep, NEW u \in Uuid, NEW d \in Doc,
         doc' = [doc EXCEPT ![u] = d], clock'["folder"] = clock["folder"],
         clock["tablet"] <= clock'["tablet"], d.lm <= clock'["tablet"],
         \A a \in Work : a.op \in OfDocument => a.uuid # u,
         ~d.present \/ clock["tablet"] < d.lm \/ u = nextUuid
  PROVE  VouchInv'
<1>1. UNCHANGED <<local, archive, plan, phase, snap, stage, got>>
  BY DEF TabletStep, syncVars
<1>2. Work' = Work /\ Current' = Current
  BY <1>1, SamePlan
<1>3. /\ TypeOK /\ PlanFits /\ RunShape /\ DOMAIN doc = Uuid /\ clock["tablet"] \in Nat /\ clock'["tablet"] \in Nat
      /\ got.lm \in Nat /\ d.lm \in Nat /\ nextUuid \in Nat
  BY DEF RunInv, TypeOK, Doc
<1>4. got.lm <= clock["tablet"] /\ got'.lm <= clock'["tablet"]
  BY <1>1, <1>3 DEF VouchInv, StampsPast
<1>5. doc'[u] = d /\ \A v : v \in Uuid \ {u} => doc'[v] = doc[v]
  BY <1>3
<1>6. StageFits'
  <2>1. SUFFICES ASSUME Work # {} PROVE StageFits'
    BY <1>2 DEF StageFits
  <2>2. StageFits /\ Current \in Work /\ (Current.op \in OfDocument => Current.uuid # u)
    BY <1>3, <2>1, CurrentType DEF VouchInv
  <2>3. ASSUME stage \in {"touch", "hash"} PROVE doc'[Current.uuid] = doc[Current.uuid]
    <3>1. Current.op \in {"UpdateRemote", "Download"}
      BY <2>1, <2>2, <2>3 DEF StageFits
    <3>2. Current.uuid \in Uuid
      BY <2>1, <3>1, OnDocument
    <3>3. Current.op \in OfDocument
      BY <3>1 DEF OfDocument, Ops, LocalWrites, RemoteWrites
    <3>4. QED
      BY <1>5, <2>2, <3>2, <3>3
  <2>4. ASSUME stage = "record", Current.op \in Transfers, doc'[got.uuid].present, doc'[got.uuid].lm = got.lm
        PROVE  doc'[got.uuid] = doc[got.uuid]
    <3>1. got.uuid \in Uuid /\ got.uuid < nextUuid
      BY <1>3, <2>1, <2>4 DEF RunShape, Bound
    <3>2. got.uuid \in Nat
      BY <1>3, <3>1, Constants DEF Uuid
    <3>3. CASE got.uuid = u
      BY <1>3, <1>4, <1>5, <2>4, <3>1, <3>2, <3>3
    <3>4. QED
      BY <1>5, <3>1, <3>3
  <2>5. EntryPath(Current)' = EntryPath(Current)
    BY <1>2 DEF EntryPath
  <2>6. QED
    BY <1>1, <1>2, <2>1, <2>2, <2>3, <2>4, <2>5 DEF StageFits, Holds, Bears, FileVouched
<1>7. stage' = stage /\ (stage = "touch" => stage' = "touch")
  BY <1>1
<1>8. \A a \in Work : a.op \in Agreements \cup {"CopyLocal", "CopyRemote", "MoveRemote"} => a.uuid # u
  BY DEF OfDocument, Ops, Agreements, LocalWrites, RemoteWrites
<1>9. QED
  BY <1>1, <1>4, <1>6, <1>7, <1>8, VouchDocument

\* What the tablet's user does: a document that changes gets a new time.
LEMMA VouchWithTablet ==
  ASSUME RunInv, RunInv', VouchInv, QuietRuns, NEW u \in Uuid, NEW k \in Key,
         TabletAnnotate(u) \/ TabletRemove(u) \/ TabletMove(u, k) \/ TabletCreate(k)
  PROVE  VouchInv'
<1>1. /\ TypeOK /\ TypeOK' /\ PlanFits /\ doc \in [Uuid -> Doc] /\ doc' \in [Uuid -> Doc]
      /\ clock \in [{"folder", "tablet"} -> Nat] /\ clock["tablet"] \in Nat
  BY DEF RunInv, TypeOK
<1>2. Tick("tablet") => /\ clock'["folder"] = clock["folder"] /\ clock'["tablet"] = clock["tablet"] + 1
  BY <1>1 DEF Tick
<1>3. CASE TabletAnnotate(u) \/ TabletMove(u, k)
  <2> DEFINE d == doc'[u]
  <2>1. TabletStep /\ Tick("tablet") /\ LeavesDoc(u)
    BY <1>3 DEF TabletAnnotate, TabletMove
  <2>2. doc' = [doc EXCEPT ![u] = d] /\ d.lm = clock["tablet"] + 1
    BY <1>1, <1>3 DEF TabletAnnotate, TabletMove, Doc
  <2>3. d \in Doc
    BY <1>1
  <2>4. \A a \in Work : a.uuid # u
    BY <2>1 DEF LeavesDoc
  <2>5. PICK e : e = d
    OBVIOUS
  <2>6. /\ clock["tablet"] <= clock'["tablet"] /\ e.lm <= clock'["tablet"] /\ clock["tablet"] < e.lm
        /\ clock'["folder"] = clock["folder"] /\ e \in Doc /\ doc' = [doc EXCEPT ![u] = e]
    BY <1>1, <1>2, <2>1, <2>2, <2>3, <2>5
  <2>7. QED
    BY <1>1, <2>1, <2>4, <2>6, VouchBesideDocument
<1>4. CASE TabletRemove(u)
  <2>1. TabletStep /\ clock' = clock /\ LeavesDoc(u) /\ doc' = [doc EXCEPT ![u] = NoDoc]
    BY <1>4 DEF TabletRemove
  <2>2. NoDoc \in Doc /\ ~NoDoc.present /\ NoDoc.lm = 0
    BY Constants DEF NoDoc, Doc
  <2>3. NoDoc.lm <= clock'["tablet"] /\ clock["tablet"] <= clock'["tablet"]
    BY <1>1, <2>1, <2>2
  <2>4. \A a \in Work : a.uuid # u
    BY <2>1 DEF LeavesDoc
  <2>5. QED
    BY <1>1, <2>1, <2>2, <2>3, <2>4, VouchBesideDocument
<1>5. CASE TabletCreate(k)
  <2> DEFINE v == nextUuid
  <2>1. PICK lm \in {clock["tablet"], clock["tablet"] + 1} :
          /\ doc' = [doc EXCEPT ![v] = [present |-> TRUE, target |-> Target(k), kind |-> KindOf(k),
                                       lm |-> lm, payload |-> NewVersion]]
          /\ clock' = [clock EXCEPT !["tablet"] = lm] /\ v <= NumDocs /\ TabletStep
    BY <1>5 DEF TabletCreate
  <2> DEFINE d == [present |-> TRUE, target |-> Target(k), kind |-> KindOf(k),
                   lm |-> lm, payload |-> NewVersion]
  <2>2. v \in Uuid /\ v \in Nat
    BY <1>1, <2>1, Constants DEF TypeOK, Uuid
  <2>3. doc'[v] = d /\ d \in Doc /\ d.lm = lm /\ doc' = [doc EXCEPT ![v] = d]
    BY <1>1, <2>1, <2>2
  <2> HIDE DEF d
  <2>4. /\ clock'["folder"] = clock["folder"] /\ clock["tablet"] <= clock'["tablet"] /\ d.lm <= clock'["tablet"]
    BY <1>1, <2>1, <2>3
  <2>5. \A a \in Work : a.op \in OfDocument => a.uuid # v
    <3>1. \A a \in Work : a.op \in OfDocument => a.uuid \in Uuid /\ a.uuid < nextUuid
      BY <1>1 DEF PlanFits, ActionFits
    <3>2. QED
      BY <2>1, <2>2, <3>1, Constants DEF Uuid
  <2>6. QED
    BY <1>1, <2>1, <2>2, <2>3, <2>4, <2>5, VouchBesideDocument
<1>6. QED
  BY <1>3, <1>4, <1>5

\* The next listing of the folder, the end of a run, an interruption that does
\* not fall between a payload and its time.
LEMMA VouchBetweenRuns ==
  ASSUME RunInv, TypeOK', VouchInv,
         (\E o \in Options : Scan(o)) \/ Finish \/ Crash \/ TornCrash,
         phase' = "idle" => stage # "touch"
  PROVE  VouchInv'
<1>1. TypeOK /\ RunShape /\ clock["tablet"] \in Nat /\ clock["folder"] \in Nat
  BY DEF RunInv, TypeOK
<1>2. CASE \E o \in Options : Scan(o)
  <2>1. /\ UNCHANGED <<local, doc, clock, archive, plan, stage, got>> /\ snap' = local
        /\ phase \in {"idle", "failed", "done"}
    BY <1>2 DEF Scan
  <2>2. plan' = {} /\ stage' = "effect" /\ stage # "touch"
    BY <1>1, <2>1 DEF RunShape
  <2>3. got'.lm <= clock'["tablet"] /\ clock'["tablet"] = clock["tablet"] /\ clock["folder"] <= clock'["folder"]
    BY <1>1, <2>1 DEF VouchInv, StampsPast
  <2>4. QED
    BY <2>1, <2>2, <2>3, VouchEnded
<1>3. CASE Finish \/ Crash
  <2>1. /\ UNCHANGED <<local, doc, clock, archive>> /\ plan' = {} /\ stage' = "effect" /\ got' = NothingGot
        /\ phase' # "scanned"
    BY <1>3 DEF Finish, Crash, Interrupted, EndRun
  <2>2. stage # "touch"
    BY <1>1, <1>3 DEF Finish, Crash, Interrupted, EndRun, RunShape
  <2>3. got'.lm <= clock'["tablet"] /\ clock'["tablet"] = clock["tablet"] /\ clock["folder"] <= clock'["folder"]
    BY <1>1, <2>1 DEF NothingGot
  <2>4. QED
    BY <2>1, <2>2, <2>3, VouchEnded
<1>4. CASE TornCrash
  <2>0. PICK k : k = Current.key
    OBVIOUS
  <2>1. /\ WriteLocal(k, Torn) /\ UNCHANGED archive /\ plan' = {} /\ stage' = "effect" /\ got' = NothingGot
        /\ phase' = "idle" /\ Work # {} /\ stage # "touch"
    BY <1>4, <2>0 DEF TornCrash, Interrupted, EndRun, At
  <2>2. k \in Key /\ Torn \in Version
    BY <2>0, <2>1, CurrentType, Constants DEF RunInv
  <2> DEFINE f == [present |-> TRUE, mtime |-> clock["folder"] + 1, hash |-> Torn]
  <2>3. /\ f \in LocalFile /\ local' = [local EXCEPT ![k] = f] /\ local'[k] = f
        /\ clock["folder"] <= clock'["folder"] /\ clock'["tablet"] = clock["tablet"]
        /\ f.mtime <= clock'["folder"] /\ clock["folder"] < f.mtime /\ UNCHANGED doc
    BY <2>1, <2>2, WrittenFile
  <2> HIDE DEF f
  <2>4. \A j \in Key : local'[j] = local[j] \/ (clock["folder"] < local'[j].mtime /\ local'[j].mtime <= clock'["folder"])
    BY <1>1, <2>2, <2>3 DEF TypeOK
  <2>5. got'.lm <= clock'["tablet"]
    BY <1>1, <2>1, <2>3 DEF NothingGot
  <2>6. QED
    BY <2>1, <2>3, <2>4, <2>5, VouchEnded
<1>5. QED
  BY <1>2, <1>3, <1>4

\* Nothing changes.
LEMMA VouchStays ==
  ASSUME VouchInv, UNCHANGED vars
  PROVE  VouchInv'
<1>1. UNCHANGED <<local, doc, clock, archive, phase, plan, stage, got, snap>>
  BY DEF vars, syncVars
<1>2. Work' = Work /\ Current' = Current
  BY <1>1, SamePlan
<1>3. Waiting' = Waiting /\ EntryPath(Current)' = EntryPath(Current)
  BY <1>1, <1>2 DEF Waiting, EntryPath
<1>4. StampsPast' /\ Rested'
  BY <1>1, <1>2 DEF VouchInv, StampsPast, Rested
<1>5. Vouched'
  BY <1>1, <1>2 DEF VouchInv, Vouched, Touching, FileVouched, DocVouched, OneHash
<1>6. PlanBacked'
  <2>1. \A a \in Work : Backed(Waiting, a)'
    BY <1>1, <1>3 DEF VouchInv, PlanBacked, Backed, WillHold, Holds, Bears
  <2>2. (\A m \in Waiting : Free(Work, m)') /\ \A a \in Work : LmFits(a)'
    BY <1>1, <1>2 DEF VouchInv, PlanBacked, Free, LmFits
  <2>3. QED
    BY <1>2, <1>3, <2>1, <2>2 DEF VouchInv, PlanBacked
<1>7. StageFits'
  BY <1>1, <1>2, <1>3 DEF VouchInv, StageFits, Holds, Bears, FileVouched
<1>8. QED
  BY <1>4, <1>5, <1>6, <1>7 DEF VouchInv

\* What the user may do between and beside the runs, short of renaming files.
LEMMA VouchWithUsers ==
  ASSUME RunInv, RunInv', VouchInv, QuietRuns, "rename" \notin FolderActs, UserStep
  PROVE  VouchInv'
<1>1. TypeOK'
  BY DEF RunInv
<1>2. CASE \E k \in Key : UserWrite(k) \/ UserTouch(k) \/ UserRemove(k)
  BY <1>1, <1>2, VouchWithFolder
<1>3. CASE \E j, k \in Key : UserRename(k, j) \/ UserCopy(k, j)
  BY <1>1, <1>3, VouchWithFolder
<1>4. CASE \E k \in Key : TabletCreate(k)
  <2>1. 1 \in Uuid
    BY Constants
  <2>2. QED
    BY <1>4, <2>1, VouchWithTablet
<1>5. CASE \E u \in Uuid : TabletAnnotate(u) \/ TabletRemove(u) \/ \E k \in Key : TabletMove(u, k)
  <2>1. 1 \in Key
    BY Constants
  <2>2. QED
    BY <1>5, <2>1, VouchWithTablet
<1>6. QED
  BY <1>2, <1>3, <1>4, <1>5 DEF UserStep

\* Every step keeps the invariant.
LEMMA VouchKeeps ==
  ASSUME QuietRuns, BundleKinds \subseteq {"rmdoc"}, "rename" \notin FolderActs,
         RunInv, RunInv', OnceInv, VouchInv, [Next]_vars, [phase' = "idle" => stage # "touch"]_vars
  PROVE  VouchInv'
<1>1. TypeOK'
  BY DEF RunInv
<1>2. CASE UNCHANGED vars
  BY <1>2, VouchStays
<1>3. ASSUME ~UNCHANGED vars PROVE phase' = "idle" => stage # "touch"
  BY <1>3
<1>4. CASE ~UNCHANGED vars /\ ((\E o \in Options : Scan(o)) \/ Finish \/ Crash \/ TornCrash)
  BY <1>1, <1>3, <1>4, VouchBetweenRuns
<1>5. CASE RecordTransfer \/ RecordLocalMove \/ RecordDelete \/ ForgetEntry
             \/ RecordAgreement \/ RebindEntry
  BY <1>1, <1>5, VouchTransferred, VouchRenamed, VouchDropped, VouchAgreed, VouchRebound
<1>6. CASE UploadDocument \/ CopyOnDevice \/ UpdatePayload \/ TouchLastModified
             \/ DownloadDocument \/ HashWritten \/ CopyLocally \/ MoveDocument \/ RenameFile
             \/ DeleteEffect
  BY <1>1, <1>6, VouchUploaded, VouchUpdated, VouchStamped, VouchDownloaded, VouchHashed,
     VouchCopied, VouchFollowed, VouchDeleted
<1>7. QED
  BY <1>2, <1>4, <1>5, <1>6, VouchPlanned, VouchWithUsers DEF Next, SyncStep, ExecuteStep

\* At the start nothing is mapped and nothing is planned.
LEMMA VouchStarts == Init => VouchInv
<1> SUFFICES ASSUME Init PROVE VouchInv
  OBVIOUS
<1>1. /\ archive = [k \in Key |-> NoEntry] /\ plan = {} /\ phase = "idle" /\ stage = "effect"
      /\ got = NothingGot /\ clock = [side \in {"folder", "tablet"} |-> 0]
  BY DEF Init
<1>2. Work = {} /\ Waiting = {}
  BY <1>1 DEF Work, Waiting
<1>3. \A k \in Key : local[k].mtime = 0 /\ archive[k] = NoEntry
  BY <1>1 DEF Init, NoFile
<1>4. \A u \in Uuid : doc[u].lm = 0
  BY DEF Init, NoDoc
<1>5. clock["folder"] = 0 /\ clock["tablet"] = 0 /\ got.lm = 0
  BY <1>1 DEF NothingGot
<1>6. StampsPast
  BY <1>2, <1>3, <1>4, <1>5, NothingVouched DEF StampsPast
<1>7. Vouched
  BY <1>3, NothingVouched DEF Vouched
<1>8. PlanBacked /\ StageFits /\ Rested
  BY <1>1, <1>2 DEF PlanBacked, StageFits, Rested
<1>9. QED
  BY <1>6, <1>7, <1>8 DEF VouchInv

\* While a payload is replaced, the bytes it gets are those of its path.
LEMMA VouchImplies ==
  ASSUME RunInv, OnceInv, VouchInv
  PROVE  ArchiveVouches
<1>1. SUFFICES ASSUME NEW k \in Key, archive[k].mapped, ~archive[k].pending, PayloadMirrored(archive[k].kind),
                      local[k].present, local[k].mtime = archive[k].mtime,
                      archive[k].uuid \in Uuid, doc[archive[k].uuid].present,
                      doc[archive[k].uuid].lm = archive[k].lm
               PROVE  local[k].hash = doc[archive[k].uuid].payload
  BY DEF ArchiveVouches
<1>2. local[k].hash = archive[k].hash
  BY <1>1 DEF VouchInv, Vouched, FileVouched
<1>3. CASE ~Touching(archive[k].uuid)
  BY <1>1, <1>2, <1>3 DEF VouchInv, Vouched, DocVouched
<1>4. CASE Touching(archive[k].uuid)
  <2>1. stage = "touch" /\ Work # {} /\ Current.uuid = archive[k].uuid /\ PlanFits
    BY <1>4 DEF Touching, RunInv, RunShape
  <2>2. Current.op = "UpdateRemote" /\ Bears(Current.uuid, Current.hash) /\ Current \in Work
    BY <2>1, CurrentType DEF VouchInv, StageFits
  <2>3. Waiting = {} /\ \A b \in Work : b.op \notin Movers
    BY <2>1, <2>2, BehindMoves DEF Agreements, Movers
  <2>4. k = Current.key
    BY <1>1, <2>1, <2>2, <2>3 DEF OnceInv, PlanOnce, PlacedIn, Binders, Movers
  <2>5. Holds(k, Current.hash)
    BY <2>2, <2>3, <2>4 DEF VouchInv, PlanBacked, Backed, Reads, WillHold
  <2>6. QED
    BY <1>1, <2>1, <2>2, <2>5 DEF Holds, Bears
<1>5. QED
  BY <1>3, <1>4

\* No interruption falls between a document's new payload and its lastModified
\* (update_payload_from_file).
TouchedWhole == [][phase' = "idle" => stage # "touch"]_vars

\* What the next run skips on its stamps is equal on both sides (attach_hashes,
\* record_state_with), wherever else the runs were interrupted, torn writes
\* included, if the users leave alone what a running plan works on, rename no
\* file over a stamp the archive knows, and put notebooks into bundles.
THEOREM SkippedIsEqual ==
  QuietRuns /\ BundleKinds \subseteq {"rmdoc"} /\ "rename" \notin FolderActs =>
    (Spec /\ TouchedWhole => []ArchiveVouches)
<1>1. SUFFICES ASSUME QuietRuns, BundleKinds \subseteq {"rmdoc"}, "rename" \notin FolderActs
               PROVE  Spec /\ TouchedWhole => []ArchiveVouches
  OBVIOUS
<1>2. Init => OnceInv /\ VouchInv
  BY OnceStarts, VouchStarts
<1>3. /\ RunInv /\ RunInv' /\ OnceInv /\ VouchInv /\ [Next]_vars /\ [phase' = "idle" => stage # "touch"]_vars
      => OnceInv' /\ VouchInv'
  BY <1>1, OnceKeeps, VouchKeeps
<1>4. RunInv /\ OnceInv /\ VouchInv => ArchiveVouches
  BY VouchImplies
<1>5. Spec => []RunInv
  BY RunsAreSound
<1>6. QED
  BY <1>2, <1>3, <1>4, <1>5, PTL DEF Spec, TouchedWhole
=============================================================================

-------------------------- MODULE DeviceSyncProofs --------------------------
(***************************************************************************)
(* Theorems about DeviceSync for every tree of paths, every set of options *)
(* and every bound on documents, edits and interruptions.                  *)
(***************************************************************************)
EXTENDS DeviceSync, FiniteSetTheorems, NaturalsInduction, WellFoundedInduction, TLAPS

\* ---------------------------------------------------------------------
\* The inductive invariant.

\* A bundle may hold a document of another kind than its extension says.
Fits(x, y) == y = x \/ (x = "rmdoc" /\ y \in BundleKinds)
Good(k, x) == Fits(KindOf(k), x) \/ Fits(x, KindOf(k))

HasPath(d) == \E k \in Key : Target(k) = d.target /\ KindOf(k) = d.kind

\* Document u at path k, of a kind the archive or an action takes it for.
Bound(docs, k, kind, u) ==
  /\ u \in Uuid /\ u < nextUuid
  /\ kind \in Kind /\ Good(k, kind)
  /\ docs[u].present => Fits(kind, docs[u].kind) /\ Good(k, docs[u].kind)

LocalWrites  == {"Download", "CopyLocal", "MoveLocal", "DeleteLocal"}
RemoteWrites == {"Upload", "CopyRemote", "UpdateRemote", "MoveRemote", "DeleteRemote"}
Transfers    == {"Upload", "CopyRemote", "UpdateRemote", "Download", "CopyLocal", "MoveRemote"}
Agreements   == {"Refresh", "Adopt"}
Ops == LocalWrites \cup RemoteWrites \cup Agreements \cup {"Rebind", "Forget", "Conflict"}
OfDocument == Ops \ {"Upload", "DeleteLocal", "Forget", "Conflict"}

PlanAction == [op : Ops, key : Key, other : Key, kind : Kind, uuid : 0..NumDocs,
               lm : Nat, hash : Version, payload : Version]

\* The path whose entry the action writes.
EntryPath(a) == IF a.op = "CopyLocal" THEN a.key ELSE a.other

\* What an action of a plan is, whatever happened since it was planned.
ActionFits(a) ==
  /\ a \in PlanAction
  /\ a.op \in LocalWrites => CanWriteLocal(opts.mode)
  /\ a.op \in RemoteWrites => CanWriteRemote(opts.mode)
  /\ a.op \notin {"CopyLocal", "MoveRemote", "MoveLocal"} => a.other = a.key
  /\ a.op \in OfDocument => a.uuid \in Uuid /\ a.uuid < nextUuid
  /\ a.op \in (Agreements \cup Transfers) \ {"Upload", "CopyRemote"} =>
       Bound(doc, EntryPath(a), a.kind, a.uuid)
  /\ a.op \in {"Upload", "CopyRemote", "MoveRemote"} => a.kind = KindOf(a.other)
  /\ a.op = "Rebind" /\ archive[a.key].mapped /\ doc[a.uuid].present
       => doc[a.uuid].kind = archive[a.key].kind
  /\ a.op = "MoveLocal" =>
       /\ doc[a.uuid].present => doc[a.uuid].kind = KindOf(a.other)
       /\ archive[a.key].mapped => /\ archive[a.key].uuid = a.uuid
                                   /\ Fits(archive[a.key].kind, KindOf(a.other))

\* Two actions of a plan: one is executed first, and what a local move follows
\* is not touched before it, except by the move of its document.
PairFits(a, b) ==
  /\ a = b \/ Before(a, b) \/ Before(b, a)
  /\ b.op = "MoveLocal" =>
       /\ a.op \in {"Rebind", "Refresh", "Adopt"} => a.key # b.key
       /\ a.op = "MoveLocal" => a.other # b.key
       /\ a.op = "MoveRemote" /\ a.other = b.key =>
            a.uuid = b.uuid /\ Fits(a.kind, KindOf(b.other))

PlanFits ==
  /\ \A a \in plan : a \in PlanAction
  /\ \A a \in Work : ActionFits(a)
  /\ \A a, b \in Work : PairFits(a, b)

RunShape ==
  /\ phase # "run" => plan = {} /\ stage = "effect"
  /\ Work = {} => stage = "effect"
  /\ stage = "record" /\ Work # {} /\ Current.op \in Transfers =>
       /\ Bound(doc, EntryPath(Current), Current.kind, got.uuid)
       /\ Current.op = "MoveRemote" => got.uuid = Current.uuid

DocsFit == \A u \in Uuid : doc[u].present => u < nextUuid /\ HasPath(doc[u])

EntryFits(docs, k, e) == e.mapped => Bound(docs, k, e.kind, e.uuid)
EntriesFit == \A k \in Key : EntryFits(doc, k, archive[k])

RunInv == TypeOK /\ PlanFits /\ RunShape /\ DocsFit /\ EntriesFit

\* ---------------------------------------------------------------------
\* Constants, paths and orders.

LEMMA Constants ==
  /\ Key # {} /\ Key \subseteq Nat /\ 1 \in Key /\ IsFiniteSet(Key)
  /\ Cardinality(Key) \in Nat /\ Key = 1..Cardinality(Key)
  /\ NumDocs \in Nat /\ NumDocs >= Cardinality(Key)
  /\ Key \subseteq Uuid /\ Uuid \subseteq 0..NumDocs /\ 0 \notin Uuid
  /\ \A k \in Key : KindOf(k) \in Kind /\ Target(k) \in AllTargets
  /\ MaxEdits \in Nat /\ MaxCrashes \in Nat
  /\ Options \subseteq SyncOptions
  /\ Torn \in Version /\ 0 \in Version /\ "pdf" \in Kind
  /\ \A v \in 0..2 * Cardinality(Key) + MaxEdits : v \in Version
<1> DEFINE n == Cardinality(Key)
<1>1. n \in Nat \ {0} /\ Key = 1..n
  BY PathsAssumption
<1> HIDE DEF n
<1>2. IsFiniteSet(Key)
  BY <1>1, FS_Interval
<1>3. NumDocs \in Nat /\ NumDocs >= n /\ \A k \in Key : KindOf(k) \in Kind
  BY PathsAssumption DEF n
<1>4. \A k \in Key : Target(k) \in AllTargets
  BY DEF AllTargets
<1>5. Torn = 2 * n + MaxEdits + 1 /\ MaxEdits \in Nat /\ MaxCrashes \in Nat /\ Options \subseteq SyncOptions
  BY DeviceAssumption DEF Torn, n
<1>6. QED
  BY <1>1, <1>2, <1>3, <1>4, <1>5 DEF Version, Uuid, Kind, n

LEMMA VersionsAreNat == Version \subseteq Nat
<1>1. Torn \in Nat
  BY Constants DEF Torn
<1>2. QED
  BY <1>1 DEF Version

LEMMA Fitting ==
  /\ \A x \in Kind : Fits(x, x)
  /\ \A x, y, z : Fits(x, y) /\ Fits(y, z) => Fits(x, z)
  /\ \A x, y : Fits(x, y) /\ x # "rmdoc" => y = x
  /\ \A k \in Key : \A x : Fits(KindOf(k), x) => Good(k, x)
  /\ \A k \in Key : \A x : Fits(x, KindOf(k)) => Good(k, x)
  /\ \A k \in Key : \A x : Fits(KindOf(k), x) => \E j \in Key : Target(j) = Target(k) /\ KindOf(j) = x
BY PathsAssumption DEF Fits, Good

LEMMA PathOfDocument ==
  ASSUME NEW d, HasPath(d)
  PROVE  LocalRelPath(d) \in Key /\ Target(LocalRelPath(d)) = d.target /\ KindOf(LocalRelPath(d)) = d.kind
BY DEF HasPath, LocalRelPath

LEMMA Least ==
  ASSUME NEW T, T \subseteq Nat, T # {}
  PROVE  \E n \in T : \A m \in T : n <= m
<1> DEFINE R == {p \in Nat \X Nat : p[1] < p[2]}
<1>1. IsWellFoundedOn(R, Nat)
  BY NatLessThanWellFounded DEF OpToRel
<1>2. \E n \in T : \A m \in T : <<m, n>> \notin R
  <2> HIDE DEF R
  <2>1. QED
    BY <1>1, WFMin
<1>3. PICK n \in T : \A m \in T : <<m, n>> \notin R
  BY <1>2
<1>4. \A m \in T : ~(m < n)
  <2>1. TAKE m \in T
  <2>2. m \in Nat /\ n \in Nat
    OBVIOUS
  <2>3. <<m, n>> \in R <=> <<m, n>>[1] < <<m, n>>[2]
    BY <2>2
  <2>4. QED
    BY <1>3, <2>3
<1>5. QED
  BY <1>4

\* Naturals are bounded, so a set of keys has a greatest one.
LEMMA Greatest ==
  ASSUME NEW T, T \subseteq Key, T # {}
  PROVE  LastOf(T) \in T /\ \A j \in T : j <= LastOf(T)
<1> DEFINE n == Cardinality(Key)
           D == {n - k : k \in T}
<1>1. n \in Nat /\ T \subseteq 1..n
  BY Constants
<1> HIDE DEF n
<1>2. D \subseteq Nat /\ D # {}
  <2>1. \A k \in T : n - k \in Nat
    BY <1>1
  <2>2. QED
    BY <2>1
<1>3. PICK d \in D : \A e \in D : d <= e
  BY <1>2, Least
<1>4. PICK k \in T : d = n - k
  BY <1>3
<1>5. \A j \in T : j <= k
  BY <1>1, <1>3, <1>4
<1>6. QED
  BY <1>5 DEF LastOf

LEMMA RankType == \A op \in Ops : Rank(op) \in 1..8
  BY DEF Rank, Ops, LocalWrites, RemoteWrites, Agreements

LEMMA RankFacts ==
  /\ Rank("Rebind") = 1 /\ Rank("MoveRemote") = 3 /\ Rank("MoveLocal") = 4
  /\ \A op \in Ops : /\ op # "Rebind" => Rank(op) # 1
                     /\ op # "MoveRemote" => Rank(op) # 3
                     /\ op # "MoveLocal" => Rank(op) # 4
                     /\ Rank(op) = 2 <=> op \in Agreements
BY DEF Rank, Ops, LocalWrites, RemoteWrites, Agreements

\* The moves of documents have a first one too.
LEMMA FirstMove ==
  ASSUME NEW A, A # {}, \A a \in A : a \in PlanAction
  PROVE  \E c \in A : \A b \in A : ~MovedBefore(b, c)
<1>0. ASSUME NEW a \in A
      PROVE  a.hash \in Nat /\ a.kind \in Kind /\ KindRank(a.kind) \in Nat /\ LeftOver(a) \in Nat /\ a.other \in Nat
  <2>1. a.hash \in Version /\ a.kind \in Kind /\ a.other \in Key
    BY DEF PlanAction
  <2>2. a.hash \in Nat /\ a.other \in Nat
    BY <2>1, Constants, VersionsAreNat
  <2>3. KindRank(a.kind) \in Nat
    BY <2>1 DEF Kind, KindRank
  <2>4. QED
    BY <2>1, <2>2, <2>3 DEF LeftOver
<1> DEFINE Hashes == {a.hash : a \in A}
<1>1. PICK h \in Hashes : \A i \in Hashes : h <= i
  BY <1>0, Least
<1> DEFINE Ranks == {KindRank(a.kind) : a \in {b \in A : b.hash = h}}
<1>2. Ranks \subseteq Nat /\ Ranks # {}
  BY <1>0, <1>1
<1>3. PICK r \in Ranks : \A i \in Ranks : r <= i
  BY <1>2, Least
<1>4. PICK d \in A : d.hash = h /\ KindRank(d.kind) = r
  BY <1>3
<1> DEFINE Group == {a \in A : a.hash = h /\ a.kind = d.kind}
           Named == {LeftOver(a) : a \in Group}
<1>5. Named \subseteq Nat /\ Named # {}
  BY <1>0, <1>4
<1>6. PICK n \in Named : \A i \in Named : n <= i
  BY <1>5, Least
<1> DEFINE Others == {a.other : a \in {b \in Group : LeftOver(b) = n}}
<1>7. Others \subseteq Nat /\ Others # {}
  BY <1>0, <1>6
<1>8. PICK o \in Others : \A i \in Others : o <= i
  BY <1>7, Least
<1>9. PICK c \in Group : LeftOver(c) = n /\ c.other = o
  BY <1>8
<1>10. ASSUME NEW b \in A, MovedBefore(b, c) PROVE FALSE
  <2>1. c \in A /\ c.hash = h /\ c.kind = d.kind /\ KindRank(c.kind) = r
    BY <1>4, <1>9
  <2>2. b.hash \in Nat /\ h \in Nat /\ ~(b.hash < h)
    <3>1. b.hash \in Hashes /\ b.hash \in Nat /\ h \in Nat
      BY <1>0, <2>1
    <3>2. h <= b.hash
      BY <1>1, <3>1
    <3>3. QED
      BY <3>1, <3>2
  <2>3. b.hash = h
    BY <1>10, <2>1, <2>2 DEF MovedBefore
  <2>4. r <= KindRank(b.kind) /\ KindRank(b.kind) \in Nat /\ r \in Nat
    BY <1>0, <1>2, <1>3, <2>3
  <2>5. b.kind = c.kind /\ (LeftOver(b) < LeftOver(c) \/ (LeftOver(b) = LeftOver(c) /\ b.other < c.other))
    BY <1>0, <1>10, <2>1, <2>2, <2>3, <2>4 DEF MovedBefore
  <2>6. b \in Group
    BY <2>1, <2>3, <2>5
  <2>7. n <= LeftOver(b) /\ LeftOver(b) \in Nat /\ n \in Nat
    BY <1>0, <1>5, <1>6, <2>6
  <2>8. LeftOver(b) = n /\ b.other < o
    BY <1>9, <2>5, <2>7
  <2>9. o <= b.other /\ o \in Nat /\ b.other \in Nat
    BY <1>0, <1>7, <1>8, <2>6, <2>8
  <2>10. QED
    BY <2>8, <2>9
<1>11. QED
  BY <1>9, <1>10

LEMMA Ordered ==
  ASSUME NEW A, A # {}, \A a \in A : a \in PlanAction,
         \A a, b \in A : a = b \/ Before(a, b) \/ Before(b, a)
  PROVE  LET c == CHOOSE a \in A : \A b \in A \ {a} : Before(a, b)
         IN c \in A /\ \A b \in A \ {c} : Before(c, b)
<1>0. \A a \in A : Rank(a.op) \in Nat /\ a.key \in Nat /\ a \in PlanAction
  <2>1. \A a \in A : a.op \in Ops /\ a.key \in Key
    BY DEF PlanAction
  <2>2. \A i \in 1..8 : i \in Nat
    OBVIOUS
  <2>3. QED
    BY <2>1, <2>2, RankType, Constants
<1> DEFINE Ranks == {Rank(a.op) : a \in A}
<1>1. PICK r \in Ranks : \A q \in Ranks : r <= q
  BY <1>0, Least
<1> DEFINE First == {a \in A : Rank(a.op) = r}
<1>2. First # {} /\ First \subseteq A
  BY <1>1
<1>3. \E c \in First : \A b \in First \ {c} : Before(c, b)
  <2>1. CASE \E a \in First : a.op = "MoveRemote"
    <3>1. \A a \in First : a.op = "MoveRemote"
      BY <1>0, <2>1, RankFacts DEF PlanAction
    <3>2. PICK c \in First : \A b \in First : ~MovedBefore(b, c)
      BY <1>0, <1>2, FirstMove
    <3>3. \A b \in First \ {c} : Before(c, b)
      BY <3>1, <3>2 DEF Before
    <3>4. QED
      BY <3>3
  <2>2. CASE ~\E a \in First : a.op = "MoveRemote"
    <3> DEFINE Keys == {a.key : a \in First}
    <3>1. Keys \subseteq Nat /\ Keys # {}
      BY <1>0, <1>2
    <3>2. PICK k \in Keys : \A j \in Keys : k <= j
      BY <3>1, Least
    <3>3. PICK c \in First : c.key = k
      BY <3>2
    <3>4. ASSUME NEW b \in First \ {c} PROVE Before(c, b)
      <4>1. k <= b.key /\ b.key \in Nat /\ c.key \in Nat
        BY <1>0, <3>2
      <4>2. Before(c, b) \/ Before(b, c)
        OBVIOUS
      <4>3. QED
        BY <2>2, <3>3, <4>1, <4>2 DEF Before
    <3>5. QED
      BY <3>4
  <2>3. QED
    BY <2>1, <2>2
<1>4. PICK c \in First : \A b \in First \ {c} : Before(c, b)
  BY <1>3
<1>5. ASSUME NEW b \in A \ {c} PROVE Before(c, b)
  <2>1. r <= Rank(b.op) /\ Rank(b.op) \in Nat /\ r = Rank(c.op)
    BY <1>0, <1>1
  <2>2. CASE Rank(b.op) = r
    BY <1>4, <2>2
  <2>3. CASE Rank(b.op) # r
    <3>1. Rank(c.op) < Rank(b.op)
      BY <1>0, <1>2, <2>1, <2>3
    <3>2. QED
      BY <3>1 DEF Before
  <2>4. QED
    BY <2>2, <2>3
<1>6. \E a \in A : \A b \in A \ {a} : Before(a, b)
  BY <1>5
<1>7. QED
  BY <1>6

\* ---------------------------------------------------------------------
\* Snapshots.  plan() works on three: its input, the one with the entries
\* re-keyed by the folder's moves, and the one the table sees.

SnapType ==
  [local : [Key -> LocalFile], doc : [Uuid -> Doc], state : [Key -> Entry],
   excludedUuids : SUBSET Uuid, excludedTargets : SUBSET AllTargets]

SnapFits(s) ==
  /\ s \in SnapType
  /\ \A u \in Uuid : /\ s.doc[u].kind = doc[u].kind
                     /\ s.doc[u].present => u < nextUuid /\ HasPath(s.doc[u])
  /\ \A u, v \in Uuid : s.doc[u].present /\ s.doc[v].present
                          /\ s.doc[u].target = s.doc[v].target => u = v
  /\ \A k \in Key : EntryFits(s.doc, k, s.state[k])

LEMMA InputFits ==
  ASSUME TypeOK, DocsFit, EntriesFit
  PROVE  LET s == PlanInput(snap, doc, archive) IN
         /\ SnapFits(s)
         /\ s.state = archive
         /\ \A k \in Key : s.local[k].present = snap[k].present
<1> DEFINE dup == {u \in Uuid : Duplicate(doc, u)}
           shown == [u \in Uuid |-> [doc[u] EXCEPT !.present = @ /\ u \notin dup]]
           hashed == AttachHashes(snap, archive)
           t == [local |-> hashed, doc |-> shown, state |-> archive,
                 excludedUuids |-> dup, excludedTargets |-> {doc[u].target : u \in dup}]
           wanted == DeviceHashCandidates(t)
           docs == [u \in Uuid |-> IF u \in wanted THEN shown[u] ELSE [shown[u] EXCEPT !.payload = 0]]
           s == PlanInput(snap, doc, archive)
<1>1. hashed \in [Key -> LocalFile] /\ \A k \in Key : hashed[k].present = snap[k].present
  <2>1. ASSUME NEW k \in Key PROVE hashed[k] \in LocalFile /\ hashed[k].present = snap[k].present
    <3>1. snap[k] \in LocalFile /\ archive[k].hash \in Version
      BY DEF TypeOK, Entry
    <3>2. [snap[k] EXCEPT !.hash = archive[k].hash] \in LocalFile
      BY <3>1 DEF LocalFile
    <3>3. QED
      BY <3>1, <3>2 DEF AttachHashes, LocalFile
  <2>2. QED
    BY <2>1 DEF AttachHashes
<1>2. dup \subseteq Uuid /\ {doc[u].target : u \in dup} \subseteq AllTargets
  BY DEF TypeOK, Doc
<1>3. ASSUME NEW u \in Uuid
      PROVE  /\ shown[u] \in Doc
             /\ shown[u].kind = doc[u].kind /\ shown[u].target = doc[u].target
             /\ shown[u].present <=> doc[u].present /\ ~Duplicate(doc, u)
  <2>1. doc[u] \in Doc
    BY DEF TypeOK
  <2>2. QED
    BY <2>1 DEF Doc
<1> HIDE DEF shown, dup, hashed, wanted
<1>4. ASSUME NEW u \in Uuid
      PROVE  /\ docs[u] \in Doc
             /\ docs[u].kind = doc[u].kind /\ docs[u].target = doc[u].target
             /\ docs[u].present <=> doc[u].present /\ ~Duplicate(doc, u)
  BY <1>3, Constants DEF Doc
<1>5. docs \in [Uuid -> Doc]
  BY <1>4
<1> HIDE DEF docs
<1>6. s = [t EXCEPT !.doc = docs]
  BY DEF s, docs, shown, hashed, dup, wanted, PlanInput, RemoteSnapshot, AttachPayloadHashes
<1>7. /\ s = [local |-> hashed, doc |-> docs, state |-> archive,
              excludedUuids |-> dup, excludedTargets |-> {doc[u].target : u \in dup}]
  BY <1>6
<1> HIDE DEF t, s
<1>8. s \in SnapType
  BY <1>1, <1>2, <1>5, <1>7 DEF SnapType, TypeOK
<1>9. \A u \in Uuid : docs[u].present => u < nextUuid /\ HasPath(docs[u])
  BY <1>4 DEF DocsFit, HasPath
<1>10. \A u, v \in Uuid : docs[u].present /\ docs[v].present /\ docs[u].target = docs[v].target => u = v
  BY <1>4 DEF Duplicate
<1>11. \A k \in Key : EntryFits(docs, k, archive[k])
  BY <1>4 DEF EntriesFit, EntryFits, Bound
<1>12. SnapFits(s)
  BY <1>4, <1>7, <1>8, <1>9, <1>10, <1>11 DEF SnapFits
<1>13. QED
  BY <1>1, <1>7, <1>12 DEF s

\* Local moves are one-to-one.
Injective(pairs) == \A p, q \in pairs : p.from = q.from \/ p.to = q.to => p = q

LEMMA OneElement ==
  ASSUME NEW S, IsFiniteSet(S), Cardinality(S) = 1
  PROVE  \A x, y \in S : x = y
BY FS_Singleton

LEMMA PairsMatch ==
  ASSUME NEW sources \in SUBSET Key, NEW targets \in SUBSET Key
  PROVE  /\ PairMoves(sources, targets) \subseteq [from : sources, to : targets]
         /\ Injective(PairMoves(sources, targets))
<1> DEFINE named == {p \in [from : sources, to : targets] :
                       /\ {k \in sources : Stem(k) = Stem(p.to)} = {p.from}
                       /\ \A k \in targets : Stem(k) = Stem(p.to) => p.to <= k}
           leftFrom == sources \ {p.from : p \in named}
           leftTo   == targets \ {p.to : p \in named}
           rest == IF Cardinality(leftFrom) = 1 /\ Cardinality(leftTo) = 1
                   THEN [from : leftFrom, to : leftTo] ELSE {}
<1>1. PairMoves(sources, targets) = named \cup rest
  BY DEF PairMoves
<1>2. IsFiniteSet(leftFrom) /\ IsFiniteSet(leftTo)
  BY Constants, FS_Subset
<1>3. \A p, q \in rest : p = q
  <2>1. Cardinality(leftFrom) = 1 => \A x, y \in leftFrom : x = y
    BY <1>2, OneElement
  <2>2. Cardinality(leftTo) = 1 => \A x, y \in leftTo : x = y
    BY <1>2, OneElement
  <2> HIDE DEF leftFrom, leftTo
  <2>3. QED
    BY <2>1, <2>2
<1>4. \A p, q \in named : p.from = q.from \/ p.to = q.to => p = q
  <2> SUFFICES ASSUME NEW p \in named, NEW q \in named, p.from = q.from \/ p.to = q.to
               PROVE  p = q
    OBVIOUS
  <2>1. p.from \in sources /\ q.from \in sources /\ p.to \in targets /\ q.to \in targets
    OBVIOUS
  <2>2. {k \in sources : Stem(k) = Stem(p.to)} = {p.from} /\ {k \in sources : Stem(k) = Stem(q.to)} = {q.from}
    OBVIOUS
  <2>3. Stem(p.from) = Stem(p.to) /\ Stem(q.from) = Stem(q.to)
    BY <2>2
  <2>4. Stem(p.to) = Stem(q.to)
    BY <2>3
  <2>5. p.from = q.from
    BY <2>2, <2>4
  <2>6. p.to <= q.to /\ q.to <= p.to
    BY <2>1, <2>4
  <2>7. p.to \in Nat /\ q.to \in Nat
    BY <2>1, Constants
  <2>8. p.to = q.to
    BY <2>6, <2>7
  <2>9. QED
    BY <2>5, <2>8
<1>5. \A p \in named, q \in rest : p.from # q.from /\ p.to # q.to
  OBVIOUS
<1>6. named \subseteq [from : sources, to : targets] /\ rest \subseteq [from : sources, to : targets]
  OBVIOUS
<1> HIDE DEF named, rest
<1>7. QED
  BY <1>1, <1>3, <1>4, <1>5, <1>6 DEF Injective

LEMMA RemoteMovesMatch ==
  ASSUME NEW s
  PROVE  /\ RemoteMoves(s) \subseteq [from : Key, to : Key]
         /\ Injective(RemoteMoves(s))
         /\ \A p \in RemoteMoves(s) : /\ MoveSource(s, p.from) /\ MoveTarget(s, p.to)
                                      /\ s.state[p.from].kind = KindOf(p.to)
                                      /\ s.state[p.from].hash = s.local[p.to].hash
                                      /\ Target(p.to) \notin DeviceTaken(s)
<1> DEFINE From(h, kind) == {k \in Key : MoveSource(s, k) /\ s.state[k].hash = h /\ s.state[k].kind = kind}
           To(h, kind) == {k \in Key : MoveTarget(s, k) /\ s.local[k].hash = h /\ KindOf(k) = kind}
<1>1. ASSUME NEW p \in MoveCandidates(s)
      PROVE  /\ p \in [from : Key, to : Key]
             /\ MoveSource(s, p.from) /\ MoveTarget(s, p.to)
             /\ s.state[p.from].kind = KindOf(p.to)
             /\ s.state[p.from].hash = s.local[p.to].hash
             /\ p \in PairMoves(From(s.state[p.from].hash, s.state[p.from].kind),
                                To(s.state[p.from].hash, s.state[p.from].kind))
  <2>1. PICK h \in {s.state[k].hash : k \in Key}, kind \in Kind : p \in PairMoves(From(h, kind), To(h, kind))
    <3>1. MoveCandidates(s) = UNION {PairMoves(From(h, kind), To(h, kind)) :
                                     h \in {s.state[k].hash : k \in Key}, kind \in Kind}
      BY DEF MoveCandidates
    <3> HIDE DEF From, To
    <3>2. PICK S \in {PairMoves(From(h, kind), To(h, kind)) :
                      h \in {s.state[k].hash : k \in Key}, kind \in Kind} : p \in S
      BY <3>1
    <3>3. QED
      BY <3>2
  <2>2. From(h, kind) \subseteq Key /\ To(h, kind) \subseteq Key
    OBVIOUS
  <2>3. p \in [from : From(h, kind), to : To(h, kind)]
    <3> HIDE DEF From, To
    <3>1. QED
      BY <2>1, <2>2, PairsMatch
  <2>4. p \in [from : Key, to : Key] /\ p.from \in From(h, kind) /\ p.to \in To(h, kind)
    BY <2>3
  <2>5. s.state[p.from].hash = h /\ s.state[p.from].kind = kind
    BY <2>4
  <2>6. QED
    BY <2>1, <2>4, <2>5
<1>2. ASSUME NEW p \in MoveCandidates(s), NEW q \in MoveCandidates(s), p.from = q.from \/ p.to = q.to
      PROVE  p = q
  <2> DEFINE h == s.state[p.from].hash
             kind == s.state[p.from].kind
  <2>1. s.state[q.from].hash = h /\ s.state[q.from].kind = kind
    BY <1>1, <1>2
  <2>2. p \in PairMoves(From(h, kind), To(h, kind)) /\ q \in PairMoves(From(h, kind), To(h, kind))
    BY <1>1, <2>1
  <2>3. From(h, kind) \subseteq Key /\ To(h, kind) \subseteq Key
    OBVIOUS
  <2>4. Injective(PairMoves(From(h, kind), To(h, kind)))
    <3> HIDE DEF From, To
    <3>1. QED
      BY <2>3, PairsMatch
  <2> HIDE DEF From, To
  <2>5. QED
    BY <1>2, <2>2, <2>4 DEF Injective
<1>3. RemoteMoves(s) \subseteq MoveCandidates(s) /\ \A p \in RemoteMoves(s) : Target(p.to) \notin DeviceTaken(s)
  BY DEF RemoteMoves
<1>4. QED
  BY <1>1, <1>2, <1>3 DEF Injective

LEMMA NoEntryFits ==
  /\ NoEntry \in Entry /\ ~NoEntry.mapped /\ NoFile \in LocalFile /\ ~NoFile.present
  /\ NoFile = [present |-> FALSE, mtime |-> 0, hash |-> 0]
BY Constants DEF NoEntry, Entry, NoFile, LocalFile, Kind

LEMMA SnapParts ==
  ASSUME NEW s, SnapFits(s)
  PROVE  /\ \A k \in Key : s.state[k] \in Entry /\ s.local[k] \in LocalFile
         /\ \A u \in Uuid : s.doc[u] \in Doc
BY DEF SnapFits, SnapType

LEMMA RekeyFits ==
  ASSUME NEW s, SnapFits(s), NEW pairs, pairs \subseteq RemoteMoves(s)
  PROVE  LET t == AfterRemoteMoves(s, pairs) IN
         /\ SnapFits(t)
         /\ t.local = s.local /\ t.doc = s.doc
         /\ \A p \in pairs : /\ t.state[p.to] = [s.state[p.from] EXCEPT !.mtime = s.local[p.to].mtime]
                             /\ t.state[p.from] = NoEntry
         /\ \A k \in Key : \/ t.state[k] = s.state[k]
                           \/ \E p \in pairs : p.from = k
                           \/ \E p \in pairs : p.to = k
<1> DEFINE Of(k) == CHOOSE p \in pairs : p.to = k
           state == [k \in Key |->
             IF \E p \in pairs : p.to = k
             THEN [s.state[Of(k).from] EXCEPT !.mtime = s.local[k].mtime]
             ELSE IF \E p \in pairs : p.from = k THEN NoEntry ELSE s.state[k]]
           t == AfterRemoteMoves(s, pairs)
<1>0. s \in SnapType
  BY DEF SnapFits
<1>1. t = [s EXCEPT !.state = state]
  BY DEF AfterRemoteMoves
<1>2. ASSUME NEW p \in pairs
      PROVE  /\ p.from \in Key /\ p.to \in Key
             /\ MoveSource(s, p.from) /\ MoveTarget(s, p.to)
             /\ s.state[p.from].kind = KindOf(p.to)
  BY RemoteMovesMatch
<1>3. \A p, q \in pairs : p.to = q.to => p = q
  BY RemoteMovesMatch DEF Injective
<1>4. \A p, q \in pairs : p.from # q.to
  BY <1>2 DEF MoveSource, MoveTarget
<1>5. ASSUME NEW p \in pairs PROVE Of(p.to) = p
  BY <1>3
<1> HIDE DEF Of
<1>6. ASSUME NEW p \in pairs
      PROVE  /\ state[p.to] = [s.state[p.from] EXCEPT !.mtime = s.local[p.to].mtime]
             /\ state[p.from] = NoEntry
  BY <1>2, <1>4, <1>5
<1>7. ASSUME NEW k \in Key
      PROVE  \/ state[k] = s.state[k]
             \/ \E p \in pairs : p.from = k
             \/ \E p \in pairs : p.to = k
  OBVIOUS
<1> HIDE DEF state
<1>8. ASSUME NEW k \in Key PROVE state[k] \in Entry /\ EntryFits(s.doc, k, state[k])
  <2>1. CASE \E p \in pairs : p.to = k
    <3>1. PICK p \in pairs : p.to = k
      BY <2>1
    <3> DEFINE e == s.state[p.from]
    <3>2. e \in Entry /\ s.local[k] \in LocalFile /\ e.mapped /\ Bound(s.doc, p.from, e.kind, e.uuid)
      BY <1>2, SnapParts DEF SnapFits, EntryFits, MoveSource
    <3> HIDE DEF e
    <3>3. /\ [e EXCEPT !.mtime = s.local[k].mtime] \in Entry
          /\ [e EXCEPT !.mtime = s.local[k].mtime].kind = e.kind
          /\ [e EXCEPT !.mtime = s.local[k].mtime].uuid = e.uuid
      BY <3>2 DEF Entry, LocalFile
    <3>4. e.kind = KindOf(k)
      BY <1>2, <3>1 DEF e
    <3>5. Bound(s.doc, k, e.kind, e.uuid)
      BY <3>2, <3>4, Fitting DEF Bound
    <3>6. state[k] = [e EXCEPT !.mtime = s.local[k].mtime]
      BY <1>6, <3>1 DEF e
    <3>7. QED
      BY <3>3, <3>5, <3>6 DEF EntryFits
  <2>2. CASE \E p \in pairs : p.from = k
    BY <1>6, <2>2, NoEntryFits DEF EntryFits
  <2>3. CASE state[k] = s.state[k]
    BY <2>3, SnapParts DEF SnapFits
  <2>4. QED
    BY <1>7, <2>1, <2>2, <2>3
<1>9. state \in [Key -> Entry]
  BY <1>8 DEF state
<1>10. /\ t \in SnapType
       /\ t.state = state /\ t.local = s.local /\ t.doc = s.doc
  BY <1>0, <1>1, <1>9 DEF SnapType
<1> HIDE DEF t
<1>11. SnapFits(t)
  BY <1>8, <1>10 DEF SnapFits
<1>12. QED
  BY <1>6, <1>7, <1>10, <1>11 DEF t

Stamped(e, lm) == [e EXCEPT !.lm = lm]

LEMMA MovesFit ==
  ASSUME NEW t, SnapFits(t), NEW moves, moves \subseteq LocalMoves(t)
  PROVE  /\ \A m \in moves :
              /\ m.from \in Key /\ m.to \in Key /\ m.lm \in Nat
              /\ FollowsDevice(t, m.from)
              /\ KindOf(m.to) = t.doc[t.state[m.from].uuid].kind
              /\ t.state[m.from].mapped /\ ~t.state[m.to].mapped
              /\ t.local[m.from].present /\ ~t.local[m.to].present
         /\ \A m, n \in moves : m.from = n.from => m = n
         /\ \A m, n \in moves : m.from # n.to
         /\ LET v == AfterLocalMoves(t, moves) IN
            /\ SnapFits(v)
            /\ v.doc = t.doc
            /\ \A m \in moves : /\ v.state[m.from] = NoEntry /\ ~v.local[m.from].present
                               /\ v.local[m.to].present
            /\ \A k \in Key : (\E m \in moves : m.to = k) =>
                 \E m \in moves : m.to = k /\ v.state[k] = Stamped(t.state[m.from], m.lm)
            /\ \A k \in Key : \/ v.state[k] = t.state[k] /\ v.local[k] = t.local[k]
                              \/ \E m \in moves : m.from = k
                              \/ \E m \in moves : m.to = k
<1>0. t \in SnapType
  BY DEF SnapFits
<1>1. ASSUME NEW m \in moves
      PROVE  /\ m.from \in Key /\ m.to \in Key /\ m.lm \in Nat
             /\ FollowsDevice(t, m.from)
             /\ m.to = LocalRelPath(t.doc[t.state[m.from].uuid])
             /\ m.lm = MovedLm(t.state[m.from], t.doc[t.state[m.from].uuid])
             /\ KindOf(m.to) = t.doc[t.state[m.from].uuid].kind
             /\ t.state[m.from].mapped /\ ~t.state[m.to].mapped
             /\ t.local[m.from].present /\ ~t.local[m.to].present
  <2>1. PICK k \in Key : /\ FollowsDevice(t, k)
                         /\ m = [from |-> k, to |-> LocalRelPath(t.doc[t.state[k].uuid]),
                                 lm |-> MovedLm(t.state[k], t.doc[t.state[k].uuid])]
    BY DEF LocalMoves
  <2>2. /\ m.from = k /\ m.to = LocalRelPath(t.doc[t.state[k].uuid])
        /\ m.lm = MovedLm(t.state[k], t.doc[t.state[k].uuid])
    BY <2>1
  <2> DEFINE u == t.state[k].uuid
  <2>3. u \in Uuid /\ t.doc[u].present /\ t.state[k].mapped
    BY <2>1 DEF FollowsDevice, HasDoc
  <2>4. LocalRelPath(t.doc[u]) \in Key /\ KindOf(LocalRelPath(t.doc[u])) = t.doc[u].kind
    BY <2>3, PathOfDocument DEF SnapFits
  <2>5. m.lm \in Nat
    BY <2>2, <2>3, SnapParts DEF MovedLm, Doc, Entry
  <2>6. t.local[k].present /\ ~t.local[m.to].present /\ ~t.state[m.to].mapped
    BY <2>1, <2>2 DEF FollowsDevice
  <2>7. QED
    BY <2>1, <2>2, <2>3, <2>4, <2>5, <2>6
<1>2. ASSUME NEW m \in moves, NEW n \in moves, m.from = n.from PROVE m = n
  <2>1. /\ m \in LocalMoves(t) /\ n \in LocalMoves(t)
    OBVIOUS
  <2>2. QED
    BY <1>2, <2>1 DEF LocalMoves
<1>3. \A m, n \in moves : m.from # n.to
  BY <1>1
<1> DEFINE v == AfterLocalMoves(t, moves)
           Onto(k) == \E m \in moves : m.to = k
           MoveTo(k) == CHOOSE m \in moves : m.to = k
           local1 == [k \in Key |-> IF Onto(k) THEN t.local[MoveTo(k).from]
                       ELSE IF \E m \in moves : m.from = k THEN NoFile ELSE t.local[k]]
           state0 == [k \in Key |-> IF Onto(k) THEN t.state[MoveTo(k).from]
                       ELSE IF \E m \in moves : m.from = k THEN NoEntry ELSE t.state[k]]
           state1 == [k \in Key |-> IF Onto(k) THEN [state0[k] EXCEPT !.lm = MoveTo(k).lm] ELSE state0[k]]
<1>4. v = [t EXCEPT !.local = local1, !.state = state1]
  BY NoEntryFits DEF AfterLocalMoves
<1>5. ASSUME NEW k \in Key, Onto(k) PROVE MoveTo(k) \in moves /\ MoveTo(k).to = k
  BY <1>5
<1> HIDE DEF MoveTo
<1>6. ASSUME NEW k \in Key
      PROVE  /\ Onto(k) => /\ local1[k] = t.local[MoveTo(k).from]
                           /\ state1[k] = [t.state[MoveTo(k).from] EXCEPT !.lm = MoveTo(k).lm]
             /\ ~Onto(k) /\ (\E m \in moves : m.from = k) => local1[k] = NoFile /\ state1[k] = NoEntry
             /\ ~Onto(k) /\ ~(\E m \in moves : m.from = k) => local1[k] = t.local[k] /\ state1[k] = t.state[k]
  <2> HIDE DEF Onto
  <2>1. QED
    OBVIOUS
<1> HIDE DEF local1, state1, state0, v
<1>7. ASSUME NEW k \in Key
      PROVE  local1[k] \in LocalFile /\ state1[k] \in Entry /\ EntryFits(t.doc, k, state1[k])
  <2>1. CASE Onto(k)
    <3>1. PICK m \in moves : m = MoveTo(k) /\ m.to = k
      BY <1>5, <2>1
    <3> DEFINE e == t.state[m.from]
    <3>2. e \in Entry /\ e.mapped /\ Bound(t.doc, m.from, e.kind, e.uuid) /\ t.local[m.from] \in LocalFile
      BY <1>1, SnapParts DEF SnapFits, EntryFits
    <3>3. KindOf(k) = t.doc[e.uuid].kind /\ m.lm \in Nat /\ t.doc[e.uuid].present
      BY <1>1, <3>1 DEF FollowsDevice, HasDoc
    <3>4. state1[k] = [e EXCEPT !.lm = m.lm] /\ local1[k] = t.local[m.from]
      BY <1>6, <2>1, <3>1
    <3> HIDE DEF e
    <3>5. state1[k] \in Entry /\ state1[k].kind = e.kind /\ state1[k].uuid = e.uuid
      BY <3>2, <3>3, <3>4 DEF Entry
    <3>6. Fits(e.kind, KindOf(k)) /\ Fits(KindOf(k), KindOf(k))
      BY <3>2, <3>3, Fitting, Constants DEF Bound
    <3>7. Bound(t.doc, k, e.kind, e.uuid)
      BY <3>2, <3>3, <3>6, Fitting DEF Bound
    <3>8. QED
      BY <3>2, <3>4, <3>5, <3>7 DEF EntryFits
  <2>2. CASE ~Onto(k) /\ (\E m \in moves : m.from = k)
    BY <1>6, <2>2, NoEntryFits DEF EntryFits
  <2>3. CASE ~Onto(k) /\ ~(\E m \in moves : m.from = k)
    BY <1>6, <2>3, SnapParts DEF SnapFits
  <2>4. QED
    BY <2>1, <2>2, <2>3
<1>8. local1 \in [Key -> LocalFile] /\ state1 \in [Key -> Entry]
  BY <1>7 DEF local1, state1
<1>9. /\ v \in SnapType
      /\ v.state = state1 /\ v.local = local1 /\ v.doc = t.doc
  BY <1>0, <1>4, <1>8 DEF SnapType
<1>10. SnapFits(v)
  BY <1>7, <1>9 DEF SnapFits
<1>11. ASSUME NEW m \in moves PROVE ~Onto(m.from) /\ v.state[m.from] = NoEntry /\ ~v.local[m.from].present
  BY <1>1, <1>3, <1>6, <1>9, NoEntryFits
<1>11a. ASSUME NEW m \in moves PROVE v.local[m.to].present
  <2>1. m.to \in Key /\ Onto(m.to)
    BY <1>1
  <2>2. MoveTo(m.to) \in moves /\ v.local[m.to] = t.local[MoveTo(m.to).from]
    BY <1>5, <1>6, <1>9, <2>1
  <2>3. QED
    BY <1>1, <2>2
<1>12. ASSUME NEW k \in Key, Onto(k)
       PROVE  \E m \in moves : m.to = k /\ v.state[k] = Stamped(t.state[m.from], m.lm)
  BY <1>5, <1>6, <1>9, <1>12 DEF Stamped
<1>13. ASSUME NEW k \in Key
       PROVE  \/ v.state[k] = t.state[k] /\ v.local[k] = t.local[k]
              \/ \E m \in moves : m.from = k
              \/ Onto(k)
  BY <1>6, <1>9
<1>14. QED
  BY <1>1, <1>2, <1>3, <1>9, <1>10, <1>11, <1>11a, <1>12, <1>13 DEF v

\* ---------------------------------------------------------------------
\* What the three-way table decides.

LEMMA ViewFits ==
  ASSUME NEW v, SnapFits(v), NEW k \in Key
  PROVE  /\ \A u, w \in ViewDoc(v, k) : u = w
         /\ \A u \in ViewDoc(v, k) :
              /\ u \in Uuid /\ v.doc[u].present
              /\ v.state[k].mapped => Bound(v.doc, k, v.state[k].kind, u)
              /\ ~v.state[k].mapped => v.doc[u].kind = KindOf(k)
              /\ v.state[k].mapped /\ ~HasDoc(v, v.state[k]) => v.doc[u].kind = v.state[k].kind
              /\ Bound(v.doc, k, v.doc[u].kind, u)
              /\ ~v.state[k].mapped \/ v.state[k].kind # "rmdoc" => Bound(v.doc, k, KindOf(k), u)
<1>0. KindOf(k) \in Kind /\ v.state[k] \in Entry
  BY Constants, SnapParts
<1>1. ASSUME NEW u \in Uuid, v.doc[u].present
      PROVE  /\ u < nextUuid /\ v.doc[u].kind \in Kind
             /\ LocalRelPath(v.doc[u]) = k => v.doc[u].kind = KindOf(k) /\ v.doc[u].target = Target(k)
  BY <1>1, PathOfDocument, SnapParts DEF SnapFits, Doc
<1>2. CASE v.state[k].mapped /\ HasDoc(v, v.state[k])
  <2> DEFINE u == v.state[k].uuid
             kind == v.state[k].kind
  <2>1. ViewDoc(v, k) = {u} /\ u \in Uuid /\ v.doc[u].present
    BY <1>2 DEF ViewDoc, HasDoc
  <2>2. Bound(v.doc, k, kind, u)
    BY <1>2 DEF SnapFits, EntryFits
  <2> HIDE DEF u, kind
  <2>3. Fits(kind, v.doc[u].kind) /\ Good(k, v.doc[u].kind) /\ Good(k, kind)
    BY <2>1, <2>2 DEF Bound
  <2>4. Bound(v.doc, k, v.doc[u].kind, u)
    BY <1>1, <2>1, <2>3, Fitting DEF Bound
  <2>5. ASSUME kind # "rmdoc" PROVE Bound(v.doc, k, KindOf(k), u)
    <3>1. v.doc[u].kind = kind
      BY <2>3, <2>5, Fitting
    <3>2. Fits(KindOf(k), kind)
      BY <1>0, <2>3, <2>5, Fitting DEF Good
    <3>3. QED
      BY <1>0, <1>1, <2>1, <2>3, <3>1, <3>2, Fitting DEF Bound
  <2>6. QED
    BY <1>2, <2>1, <2>2, <2>4, <2>5 DEF u, kind
<1>3. CASE v.state[k].mapped /\ ~HasDoc(v, v.state[k])
  <2> DEFINE kind == v.state[k].kind
  <2>1. ASSUME NEW u \in ViewDoc(v, k)
        PROVE  u \in Uuid /\ v.doc[u].present /\ v.doc[u].target = Target(k) /\ v.doc[u].kind = kind
    BY <1>3 DEF ViewDoc, Claims, Wants, Successor
  <2>2. \A u, w \in ViewDoc(v, k) : u = w
    BY <2>1 DEF SnapFits
  <2>3. kind \in Kind /\ Good(k, kind)
    BY <1>3 DEF SnapFits, EntryFits, Bound
  <2> HIDE DEF kind
  <2>4. ASSUME NEW u \in ViewDoc(v, k) PROVE Bound(v.doc, k, kind, u)
    BY <1>1, <2>1, <2>3, Fitting DEF Bound
  <2>5. ASSUME NEW u \in ViewDoc(v, k), kind # "rmdoc" PROVE Bound(v.doc, k, KindOf(k), u)
    <3>1. Fits(KindOf(k), kind)
      BY <1>0, <2>3, <2>5, Fitting DEF Good
    <3>2. QED
      BY <1>0, <1>1, <2>1, <2>3, <3>1, Fitting DEF Bound
  <2>6. QED
    BY <1>3, <2>1, <2>2, <2>4, <2>5 DEF kind
<1>4. CASE ~v.state[k].mapped
  <2>1. ASSUME NEW u \in ViewDoc(v, k)
        PROVE  u \in Uuid /\ v.doc[u].present /\ LocalRelPath(v.doc[u]) = k
    BY <1>4 DEF ViewDoc
  <2>2. \A u, w \in ViewDoc(v, k) : u = w
    BY <1>1, <2>1 DEF SnapFits
  <2>3. ASSUME NEW u \in ViewDoc(v, k)
        PROVE  v.doc[u].kind = KindOf(k) /\ Bound(v.doc, k, KindOf(k), u)
    BY <1>0, <1>1, <2>1, Fitting DEF Bound
  <2>4. QED
    BY <1>4, <2>1, <2>2, <2>3
<1>5. QED
  BY <1>2, <1>3, <1>4

\* The stamps of path k and document u say that one of them changed.
Restamped(v, k, u) ==
  v.local[k].mtime # v.state[k].mtime \/ RemoteStampChanged(v.state[k], u, v.doc[u])

\* An action of the table over snapshot v.
TableFits(o, v, a) ==
  /\ a \in PlanAction
  /\ a.op \notin {"MoveRemote", "MoveLocal"}
  /\ a.op \in LocalWrites => CanWriteLocal(o.mode)
  /\ a.op \in RemoteWrites => CanWriteRemote(o.mode)
  /\ a.op # "CopyLocal" => a.other = a.key
  /\ a.op \in OfDocument => a.uuid \in Uuid /\ v.doc[a.uuid].present
  /\ a.op \in (Agreements \cup Transfers) \ {"Upload", "CopyRemote"} =>
       Bound(v.doc, a.key, a.kind, a.uuid)
  /\ a.op \in {"Upload", "CopyRemote"} => a.kind = KindOf(a.key)
  /\ a.op \in Agreements => /\ v.local[a.key].present
                            /\ v.state[a.key].mapped => Restamped(v, a.key, a.uuid)
  /\ a.op = "Rebind" => /\ v.state[a.key].mapped /\ ~HasDoc(v, v.state[a.key])
                        /\ v.doc[a.uuid].kind = v.state[a.key].kind
  /\ a.op \in OfDocument \ {"CopyRemote"} => a.uuid \in ViewDoc(v, a.key)
  /\ a.op = "DeleteRemote" => o.delete /\ v.state[a.key].mapped /\ ~v.local[a.key].present
  /\ a.op = "DeleteLocal" => o.delete /\ v.state[a.key].mapped /\ ViewDoc(v, a.key) = {}

\* At most one action for path k, as the table makes them.
Yields(o, v, k, A) ==
  /\ \A a, b \in A : a = b
  /\ \A a \in A : a.key = k /\ a.op # "Rebind" /\ TableFits(o, v, a)

LEMMA YieldsEmpty == \A o, v, k : Yields(o, v, k, {})
  BY DEF Yields

LEMMA YieldsWhen ==
  ASSUME NEW o, NEW v, NEW k, NEW c, NEW A, c => Yields(o, v, k, A)
  PROVE  Yields(o, v, k, When(c, A))
BY YieldsEmpty DEF When

LEMMA YieldsByWinner ==
  ASSUME NEW o, NEW v, NEW k, NEW A, NEW B, NEW C, NEW w \in {"Nobody", "Local", "Remote"},
         w = "Nobody" => Yields(o, v, k, A),
         w = "Local" => Yields(o, v, k, B),
         w = "Remote" => Yields(o, v, k, C)
  PROVE  Yields(o, v, k, ByWinner(w, A, B, C))
BY DEF ByWinner

LEMMA WinnerType ==
  ASSUME NEW o \in SyncOptions, NEW x, NEW y
  PROVE  Winner(o.conflict, x, y) \in {"Nobody", "Local", "Remote"}
BY DEF Winner, SyncOptions, ConflictPolicy

LEMMA ModeFacts ==
  ASSUME NEW o \in SyncOptions
  PROVE  /\ o.mode # "Push" => CanWriteLocal(o.mode)
         /\ o.mode # "Pull" => CanWriteRemote(o.mode)
         /\ ~CanWriteLocal(o.mode) => CanWriteRemote(o.mode)
         /\ o.delete \in BOOLEAN
BY DEF SyncOptions, Mode, CanWriteLocal, CanWriteRemote

Act(op, k, j, kind, u, lm, h, x) ==
  [op |-> op, key |-> k, other |-> j, kind |-> kind, uuid |-> u, lm |-> lm, hash |-> h, payload |-> x]

LEMMA ActFields ==
  ASSUME NEW op, NEW k, NEW j, NEW kind, NEW u, NEW lm, NEW h, NEW x
  PROVE  LET a == Act(op, k, j, kind, u, lm, h, x) IN
         /\ op \in Ops /\ k \in Key /\ j \in Key /\ kind \in Kind /\ u \in 0..NumDocs
            /\ lm \in Nat /\ h \in Version /\ x \in Version => a \in PlanAction
         /\ a.op = op /\ a.key = k /\ a.other = j /\ a.kind = kind /\ a.uuid = u
         /\ a.lm = lm /\ a.hash = h /\ a.payload = x
BY DEF Act, PlanAction

\* The planner's constructors, written out.
LEMMA SetFields ==
  ASSUME NEW op, NEW k, NEW j, NEW kind, NEW u, NEW lm, NEW h, NEW x
  PROVE   /\ [Action(op, k) EXCEPT !.uuid = u] = Act(op, k, k, KindOf(k), u, 0, 0, 0)
         /\ [Act(op, k, j, kind, u, 0, 0, 0) EXCEPT !.lm = lm] = Act(op, k, j, kind, u, lm, 0, 0)
         /\ [Act(op, k, j, kind, u, lm, 0, 0) EXCEPT !.hash = h] = Act(op, k, j, kind, u, lm, h, 0)
         /\ [Act(op, k, j, kind, u, lm, h, 0) EXCEPT !.payload = x] = Act(op, k, j, kind, u, lm, h, x)
         /\ [Action(op, k) EXCEPT !.kind = kind] = Act(op, k, k, kind, 0, 0, 0, 0)
         /\ [Act(op, k, j, kind, 0, 0, 0, 0) EXCEPT !.uuid = u] = Act(op, k, j, kind, u, 0, 0, 0)
         /\ [Action(op, k) EXCEPT !.other = j] = Act(op, k, j, KindOf(k), 0, 0, 0, 0)
         /\ [Act(op, k, j, KindOf(k), 0, 0, 0, 0) EXCEPT !.kind = kind] = Act(op, k, j, kind, 0, 0, 0, 0)
         /\ [Act(op, k, k, KindOf(k), u, lm, 0, 0) EXCEPT !.kind = kind] = Act(op, k, k, kind, u, lm, 0, 0)
<1>1. [Action(op, k) EXCEPT !.uuid = u] = Act(op, k, k, KindOf(k), u, 0, 0, 0)
  BY DEF Action, Act
<1>2. [Act(op, k, j, kind, u, 0, 0, 0) EXCEPT !.lm = lm] = Act(op, k, j, kind, u, lm, 0, 0)
  BY DEF Act
<1>3. [Act(op, k, j, kind, u, lm, 0, 0) EXCEPT !.hash = h] = Act(op, k, j, kind, u, lm, h, 0)
  BY DEF Act
<1>4. [Act(op, k, j, kind, u, lm, h, 0) EXCEPT !.payload = x] = Act(op, k, j, kind, u, lm, h, x)
  BY DEF Act
<1>5. [Action(op, k) EXCEPT !.kind = kind] = Act(op, k, k, kind, 0, 0, 0, 0)
  BY DEF Action, Act
<1>6. [Act(op, k, j, kind, 0, 0, 0, 0) EXCEPT !.uuid = u] = Act(op, k, j, kind, u, 0, 0, 0)
  BY DEF Act
<1>7. [Action(op, k) EXCEPT !.other = j] = Act(op, k, j, KindOf(k), 0, 0, 0, 0)
  BY DEF Action, Act
<1>8. [Act(op, k, j, KindOf(k), 0, 0, 0, 0) EXCEPT !.kind = kind] = Act(op, k, j, kind, 0, 0, 0, 0)
  BY DEF Act
<1>9. [Act(op, k, k, KindOf(k), u, lm, 0, 0) EXCEPT !.kind = kind] = Act(op, k, k, kind, u, lm, 0, 0)
  BY DEF Act
<1>10. QED
  BY <1>1, <1>2, <1>3, <1>4, <1>5, <1>6, <1>7, <1>8, <1>9

LEMMA MadeUnmapped ==
  ASSUME NEW k, NEW h
  PROVE  /\ Conflict(k) = {Act("Conflict", k, k, KindOf(k), 0, 0, 0, 0)}
         /\ Forget(k) = {Act("Forget", k, k, KindOf(k), 0, 0, 0, 0)}
         /\ DeleteLocal(k) = {Act("DeleteLocal", k, k, KindOf(k), 0, 0, 0, 0)}
         /\ [Action("Upload", k) EXCEPT !.hash = h] = Act("Upload", k, k, KindOf(k), 0, 0, h, 0)
<1>1. [Action("Upload", k) EXCEPT !.hash = h] = Act("Upload", k, k, KindOf(k), 0, 0, h, 0)
  BY DEF Action, Act
<1>2. QED
  BY <1>1 DEF Conflict, Forget, DeleteLocal, Action, Act

LEMMA MadeDelete ==
  ASSUME NEW k, NEW u
  PROVE  /\ DeleteRemote(k, u) = {Act("DeleteRemote", k, k, KindOf(k), u, 0, 0, 0)}
         /\ Rebind(k, u) = Act("Rebind", k, k, KindOf(k), u, 0, 0, 0)
<1>1. [Action("DeleteRemote", k) EXCEPT !.uuid = u] = Act("DeleteRemote", k, k, KindOf(k), u, 0, 0, 0)
  BY DEF Action, Act
<1>2. [Action("Rebind", k) EXCEPT !.uuid = u] = Act("Rebind", k, k, KindOf(k), u, 0, 0, 0)
  BY DEF Action, Act
<1>3. QED
  BY <1>1, <1>2 DEF DeleteRemote, Rebind

LEMMA MadeUpdate ==
  ASSUME NEW k, NEW u, NEW h
  PROVE  /\ UpdateRemote(k, u, h) = {Act("UpdateRemote", k, k, KindOf(k), u, 0, h, 0)}
         /\ [Action("CopyRemote", k) EXCEPT !.uuid = u, !.hash = h]
              = Act("CopyRemote", k, k, KindOf(k), u, 0, h, 0)
<1>1. ASSUME NEW op PROVE [Action(op, k) EXCEPT !.uuid = u, !.hash = h] = Act(op, k, k, KindOf(k), u, 0, h, 0)
  <2> DEFINE r1 == [Action(op, k) EXCEPT !.uuid = u]
             r2 == [r1 EXCEPT !.hash = h]
  <2>1. [Action(op, k) EXCEPT !.uuid = u, !.hash = h] = r2
    OBVIOUS
  <2>2. r1 = Act(op, k, k, KindOf(k), u, 0, 0, 0)
    BY DEF Action, Act
  <2> HIDE DEF r1
  <2>3. r2 = Act(op, k, k, KindOf(k), u, 0, h, 0)
    BY <2>2 DEF Act
  <2> HIDE DEF r2
  <2>4. QED
    BY <2>1, <2>3
<1>2. [Action("UpdateRemote", k) EXCEPT !.uuid = u, !.hash = h] = Act("UpdateRemote", k, k, KindOf(k), u, 0, h, 0)
  BY <1>1
<1>3. [Action("CopyRemote", k) EXCEPT !.uuid = u, !.hash = h] = Act("CopyRemote", k, k, KindOf(k), u, 0, h, 0)
  BY <1>1
<1>4. QED
  BY <1>2, <1>3 DEF UpdateRemote

LEMMA MadeDownload ==
  ASSUME NEW k, NEW u, NEW d
  PROVE  Download(k, u, d) = {Act("Download", k, k, d.kind, u, d.lm, 0, 0)}
<1> DEFINE r1 == [Action("Download", k) EXCEPT !.uuid = u]
           r2 == [r1 EXCEPT !.lm = d.lm]
           r3 == [r2 EXCEPT !.kind = d.kind]
<1>1. Download(k, u, d) = {r3}
  BY DEF Download
<1>2. r1 = Act("Download", k, k, KindOf(k), u, 0, 0, 0)
  BY SetFields
<1> HIDE DEF r1
<1>3. r2 = Act("Download", k, k, KindOf(k), u, d.lm, 0, 0)
  BY SetFields, <1>2
<1> HIDE DEF r2
<1>4. r3 = Act("Download", k, k, d.kind, u, d.lm, 0, 0)
  BY SetFields, <1>3
<1> HIDE DEF r3
<1>5. QED
  BY <1>1, <1>4

AdoptAct(k, u, lm, h, x) ==
  [Action("Adopt", k) EXCEPT !.uuid = u, !.lm = lm, !.hash = h, !.payload = x]

LEMMA MadeAdopt ==
  ASSUME NEW k, NEW u, NEW lm, NEW h, NEW x
  PROVE  AdoptAct(k, u, lm, h, x) = Act("Adopt", k, k, KindOf(k), u, lm, h, x)
<1> DEFINE r1 == [Action("Adopt", k) EXCEPT !.uuid = u]
           r2 == [r1 EXCEPT !.lm = lm]
           r3 == [r2 EXCEPT !.hash = h]
           r4 == [r3 EXCEPT !.payload = x]
<1>1. AdoptAct(k, u, lm, h, x) = r4
  BY DEF AdoptAct
<1>2. r1 = Act("Adopt", k, k, KindOf(k), u, 0, 0, 0)
  BY SetFields
<1> HIDE DEF r1
<1>3. r2 = Act("Adopt", k, k, KindOf(k), u, lm, 0, 0)
  BY SetFields, <1>2
<1> HIDE DEF r2
<1>4. r3 = Act("Adopt", k, k, KindOf(k), u, lm, h, 0)
  BY SetFields, <1>3
<1> HIDE DEF r3
<1>5. r4 = Act("Adopt", k, k, KindOf(k), u, lm, h, x)
  BY SetFields, <1>4
<1> HIDE DEF r4
<1>6. QED
  BY <1>1, <1>5

RefreshAct(k, kind, u, lm, h, x) ==
  [Action("Refresh", k) EXCEPT !.kind = kind, !.uuid = u, !.lm = lm, !.hash = h, !.payload = x]

LEMMA MadeRefresh ==
  ASSUME NEW k, NEW kind, NEW u, NEW lm, NEW h, NEW x
  PROVE  RefreshAct(k, kind, u, lm, h, x) = Act("Refresh", k, k, kind, u, lm, h, x)
<1> DEFINE r1 == [Action("Refresh", k) EXCEPT !.kind = kind]
           r2 == [r1 EXCEPT !.uuid = u]
           r3 == [r2 EXCEPT !.lm = lm]
           r4 == [r3 EXCEPT !.hash = h]
           r5 == [r4 EXCEPT !.payload = x]
<1>1. RefreshAct(k, kind, u, lm, h, x) = r5
  BY DEF RefreshAct
<1>2. r1 = Act("Refresh", k, k, kind, 0, 0, 0, 0)
  BY SetFields
<1> HIDE DEF r1
<1>3. r2 = Act("Refresh", k, k, kind, u, 0, 0, 0)
  BY SetFields, <1>2
<1> HIDE DEF r2
<1>4. r3 = Act("Refresh", k, k, kind, u, lm, 0, 0)
  BY SetFields, <1>3
<1> HIDE DEF r3
<1>5. r4 = Act("Refresh", k, k, kind, u, lm, h, 0)
  BY SetFields, <1>4
<1> HIDE DEF r4
<1>6. r5 = Act("Refresh", k, k, kind, u, lm, h, x)
  BY SetFields, <1>5
<1> HIDE DEF r5
<1>7. QED
  BY <1>1, <1>6

CopyLocalAct(k, j, kind, u, lm, h, x) ==
  [Action("CopyLocal", k) EXCEPT !.other = j, !.kind = kind, !.uuid = u, !.lm = lm,
                                 !.hash = h, !.payload = x]

LEMMA MadeCopyLocal ==
  ASSUME NEW k, NEW j, NEW kind, NEW u, NEW lm, NEW h, NEW x
  PROVE  CopyLocalAct(k, j, kind, u, lm, h, x) = Act("CopyLocal", k, j, kind, u, lm, h, x)
<1> DEFINE r0 == [Action("CopyLocal", k) EXCEPT !.other = j]
           r1 == [r0 EXCEPT !.kind = kind]
           r2 == [r1 EXCEPT !.uuid = u]
           r3 == [r2 EXCEPT !.lm = lm]
           r4 == [r3 EXCEPT !.hash = h]
           r5 == [r4 EXCEPT !.payload = x]
<1>1. CopyLocalAct(k, j, kind, u, lm, h, x) = r5
  BY DEF CopyLocalAct
<1>2. r0 = Act("CopyLocal", k, j, KindOf(k), 0, 0, 0, 0)
  BY SetFields
<1> HIDE DEF r0
<1>3. r1 = Act("CopyLocal", k, j, kind, 0, 0, 0, 0)
  BY SetFields, <1>2
<1> HIDE DEF r1
<1>4. r2 = Act("CopyLocal", k, j, kind, u, 0, 0, 0)
  BY SetFields, <1>3
<1> HIDE DEF r2
<1>5. r3 = Act("CopyLocal", k, j, kind, u, lm, 0, 0)
  BY SetFields, <1>4
<1> HIDE DEF r3
<1>6. r4 = Act("CopyLocal", k, j, kind, u, lm, h, 0)
  BY SetFields, <1>5
<1> HIDE DEF r4
<1>7. r5 = Act("CopyLocal", k, j, kind, u, lm, h, x)
  BY SetFields, <1>6
<1> HIDE DEF r5
<1>8. QED
  BY <1>1, <1>7

LEMMA YieldsOne ==
  ASSUME NEW o, NEW v, NEW k, NEW a, a.key = k, a.op # "Rebind", TableFits(o, v, a)
  PROVE  Yields(o, v, k, {a})
BY DEF Yields

LEMMA YieldsAct ==
  ASSUME NEW o \in SyncOptions, NEW v, SnapFits(v), NEW k \in Key
  PROVE  /\ Yields(o, v, k, Conflict(k)) /\ Yields(o, v, k, Forget(k))
         /\ CanWriteLocal(o.mode) /\ o.delete /\ v.state[k].mapped /\ ViewDoc(v, k) = {} =>
              Yields(o, v, k, DeleteLocal(k))
         /\ \A h \in Version : CanWriteRemote(o.mode) =>
              Yields(o, v, k, {[Action("Upload", k) EXCEPT !.hash = h]})
<1>1. KindOf(k) \in Kind /\ 0 \in Version /\ 0 \in 0..NumDocs /\ 0 \in Nat
  BY Constants
<1>2. ASSUME NEW op \in {"Conflict", "Forget", "DeleteLocal", "Upload"}, NEW h \in Version,
             op = "DeleteLocal" => /\ CanWriteLocal(o.mode) /\ o.delete
                                   /\ v.state[k].mapped /\ ViewDoc(v, k) = {},
             op = "Upload" => CanWriteRemote(o.mode)
      PROVE  Yields(o, v, k, {Act(op, k, k, KindOf(k), 0, 0, h, 0)})
  <2> DEFINE a == Act(op, k, k, KindOf(k), 0, 0, h, 0)
  <2>1. op \in Ops
    BY DEF Ops, LocalWrites, RemoteWrites
  <2>2. /\ a \in PlanAction /\ a.op = op /\ a.key = k /\ a.other = k /\ a.kind = KindOf(k)
    BY <1>1, <2>1, ActFields
  <2> HIDE DEF a
  <2>3. TableFits(o, v, a)
    BY <1>2, <2>2 DEF TableFits, OfDocument, Agreements, Transfers, LocalWrites, RemoteWrites, Ops
  <2>4. QED
    BY <2>2, <2>3, YieldsOne DEF a
<1>3. QED
  BY <1>1, <1>2, MadeUnmapped

LEMMA YieldsOnDocument ==
  ASSUME NEW o \in SyncOptions, NEW v, SnapFits(v), NEW k \in Key, NEW u \in Uuid, v.doc[u].present,
         NEW h \in Version, NEW x \in Version
  PROVE  /\ CanWriteRemote(o.mode) =>
              /\ Yields(o, v, k, {[Action("CopyRemote", k) EXCEPT !.uuid = u, !.hash = h]})
              /\ u \in ViewDoc(v, k) /\ o.delete /\ v.state[k].mapped /\ ~v.local[k].present =>
                   Yields(o, v, k, DeleteRemote(k, u))
              /\ u \in ViewDoc(v, k) /\ Bound(v.doc, k, KindOf(k), u) =>
                   Yields(o, v, k, UpdateRemote(k, u, h))
         /\ CanWriteLocal(o.mode) /\ u \in ViewDoc(v, k) /\ Bound(v.doc, k, v.doc[u].kind, u) =>
              /\ Yields(o, v, k, Download(k, u, v.doc[u]))
              /\ \A j \in Key : Yields(o, v, k,
                   {CopyLocalAct(k, j, v.doc[u].kind, u, v.doc[u].lm, h, x)})
         /\ v.local[k].present /\ u \in ViewDoc(v, k) /\ (v.state[k].mapped => Restamped(v, k, u)) =>
              /\ \A kind \in Kind : Bound(v.doc, k, kind, u) =>
                   Yields(o, v, k, {RefreshAct(k, kind, u, v.doc[u].lm, h, x)})
              /\ Bound(v.doc, k, KindOf(k), u) =>
                   Yields(o, v, k, {AdoptAct(k, u, v.doc[u].lm, h, x)})
<1> DEFINE d == v.doc[u]
<1>1. /\ KindOf(k) \in Kind /\ 0 \in Version /\ 0 \in Nat /\ u \in 0..NumDocs
      /\ d.lm \in Nat /\ d.kind \in Kind
  BY Constants, SnapParts DEF Doc
<1>2. ASSUME NEW op \in OfDocument \ {"Rebind", "MoveLocal", "MoveRemote"}, NEW j \in Key, NEW kind \in Kind,
             NEW lm \in Nat, NEW g \in Version, NEW y \in Version,
             op \in LocalWrites => CanWriteLocal(o.mode),
             op \in RemoteWrites => CanWriteRemote(o.mode),
             op # "CopyLocal" => j = k,
             op \in Agreements => v.local[k].present /\ (v.state[k].mapped => Restamped(v, k, u)),
             op = "CopyRemote" => kind = KindOf(k),
             op \notin {"CopyRemote", "DeleteRemote"} => Bound(v.doc, k, kind, u),
             op # "CopyRemote" => u \in ViewDoc(v, k),
             op = "DeleteRemote" => o.delete /\ v.state[k].mapped /\ ~v.local[k].present
      PROVE  Yields(o, v, k, {Act(op, k, j, kind, u, lm, g, y)})
  <2> HIDE DEF d
  <2> DEFINE a == Act(op, k, j, kind, u, lm, g, y)
  <2>1. op \in Ops /\ op \notin {"Rebind", "MoveLocal", "MoveRemote"}
    BY DEF OfDocument
  <2>2. /\ a \in PlanAction /\ a.op = op /\ a.key = k /\ a.other = j /\ a.kind = kind /\ a.uuid = u
    BY <1>1, <2>1, ActFields
  <2> HIDE DEF a
  <2>3. TableFits(o, v, a)
    BY <1>2, <2>1, <2>2 DEF TableFits, OfDocument, Agreements, Transfers
  <2>4. QED
    BY <2>1, <2>2, <2>3, YieldsOne DEF a
<1> USE DEF OfDocument, Ops, LocalWrites, RemoteWrites, Agreements
<1>3. ASSUME CanWriteRemote(o.mode)
      PROVE  /\ Yields(o, v, k, {[Action("CopyRemote", k) EXCEPT !.uuid = u, !.hash = h]})
             /\ u \in ViewDoc(v, k) /\ o.delete /\ v.state[k].mapped /\ ~v.local[k].present =>
                  Yields(o, v, k, DeleteRemote(k, u))
             /\ u \in ViewDoc(v, k) /\ Bound(v.doc, k, KindOf(k), u) =>
                  Yields(o, v, k, UpdateRemote(k, u, h))
  <2>1. u \in ViewDoc(v, k) /\ o.delete /\ v.state[k].mapped /\ ~v.local[k].present =>
          Yields(o, v, k, {Act("DeleteRemote", k, k, KindOf(k), u, 0, 0, 0)})
    BY <1>1, <1>2, <1>3
  <2>2. Yields(o, v, k, {Act("CopyRemote", k, k, KindOf(k), u, 0, h, 0)})
    BY <1>1, <1>2, <1>3
  <2>3. u \in ViewDoc(v, k) /\ Bound(v.doc, k, KindOf(k), u) =>
          Yields(o, v, k, {Act("UpdateRemote", k, k, KindOf(k), u, 0, h, 0)})
    BY <1>1, <1>2, <1>3
  <2>4. QED
    BY <2>1, <2>2, <2>3, MadeDelete, MadeUpdate
<1>4. ASSUME CanWriteLocal(o.mode), u \in ViewDoc(v, k), Bound(v.doc, k, d.kind, u), NEW j \in Key
      PROVE  /\ Yields(o, v, k, Download(k, u, d))
             /\ Yields(o, v, k, {CopyLocalAct(k, j, d.kind, u, d.lm, h, x)})
  <2> HIDE DEF d
  <2>1. Yields(o, v, k, {Act("Download", k, k, d.kind, u, d.lm, 0, 0)})
    BY <1>1, <1>2, <1>4
  <2>2. Yields(o, v, k, {Act("CopyLocal", k, j, d.kind, u, d.lm, h, x)})
    BY <1>1, <1>2, <1>4
  <2>3. CopyLocalAct(k, j, d.kind, u, d.lm, h, x) = Act("CopyLocal", k, j, d.kind, u, d.lm, h, x)
    BY MadeCopyLocal
  <2>4. QED
    BY <2>1, <2>2, <2>3, MadeDownload
<1>5. ASSUME v.local[k].present, u \in ViewDoc(v, k), v.state[k].mapped => Restamped(v, k, u),
             NEW kind \in Kind, Bound(v.doc, k, kind, u)
      PROVE  Yields(o, v, k, {RefreshAct(k, kind, u, d.lm, h, x)})
  <2> HIDE DEF d
  <2>1. Yields(o, v, k, {Act("Refresh", k, k, kind, u, d.lm, h, x)})
    BY <1>1, <1>2, <1>5
  <2>2. RefreshAct(k, kind, u, d.lm, h, x) = Act("Refresh", k, k, kind, u, d.lm, h, x)
    BY MadeRefresh
  <2>3. QED
    BY <2>1, <2>2
<1>6. ASSUME v.local[k].present, u \in ViewDoc(v, k), v.state[k].mapped => Restamped(v, k, u),
             Bound(v.doc, k, KindOf(k), u)
      PROVE  Yields(o, v, k, {AdoptAct(k, u, d.lm, h, x)})
  <2> HIDE DEF d
  <2>1. Yields(o, v, k, {Act("Adopt", k, k, KindOf(k), u, d.lm, h, x)})
    BY <1>1, <1>2, <1>6
  <2>2. AdoptAct(k, u, d.lm, h, x) = Act("Adopt", k, k, KindOf(k), u, d.lm, h, x)
    BY MadeAdopt
  <2>3. QED
    BY <2>1, <2>2
<1>7. QED
  BY <1>3, <1>4, <1>5, <1>6, Constants

LEMMA MappedBothYields ==
  ASSUME NEW o \in SyncOptions, NEW v, SnapFits(v), NEW k \in Key, NEW u \in ViewDoc(v, k),
         v.state[k].mapped, v.local[k].present
  PROVE  Yields(o, v, k, MappedBoth(o, v, k, u))
<1> DEFINE st == v.state[k]
           e  == v.local[k]
           d  == v.doc[u]
           stampLocal    == e.mtime # st.mtime
           stampRemote   == RemoteStampChanged(st, u, d)
           localChanged  == stampLocal /\ e.hash # st.hash
           remoteChanged == stampRemote /\ ~(d.payload # 0 /\ d.payload = st.payload)
           pushed == When(CanWriteRemote(o.mode) /\ st.kind # "rmdoc", UpdateRemote(k, u, e.hash))
           pulled == When(CanWriteLocal(o.mode), Download(k, u, d))
           w == Winner(o.conflict, e.mtime, d.lm)
           refresh == When(stampLocal \/ stampRemote,
                           {RefreshAct(k, st.kind, u, d.lm, e.hash,
                                       IF d.payload # 0 THEN d.payload ELSE st.payload)})
<1>1. u \in Uuid /\ d.present /\ e.hash \in Version /\ d.payload \in Version /\ st.payload \in Version
      /\ st.kind \in Kind
  BY ViewFits, SnapParts DEF LocalFile, Doc, Entry
<1>2. /\ Bound(v.doc, k, st.kind, u) /\ Bound(v.doc, k, d.kind, u)
      /\ st.kind # "rmdoc" => Bound(v.doc, k, KindOf(k), u)
  BY ViewFits
<1>3. Yields(o, v, k, pushed)
  <2>1. CanWriteRemote(o.mode) /\ st.kind # "rmdoc" => Yields(o, v, k, UpdateRemote(k, u, e.hash))
    BY <1>1, <1>2, YieldsOnDocument
  <2> HIDE DEF st, e
  <2>2. QED
    BY <2>1, YieldsWhen
<1>4. CanWriteLocal(o.mode) => Yields(o, v, k, Download(k, u, d))
  BY <1>1, <1>2, YieldsOnDocument
<1>5. Yields(o, v, k, pulled)
  <2> HIDE DEF d
  <2>1. QED
    BY <1>4, YieldsWhen
<1>6. Yields(o, v, k, refresh)
  <2> DEFINE x == IF d.payload # 0 THEN d.payload ELSE st.payload
  <2>1. x \in Version
    BY <1>1
  <2> HIDE DEF x
  <2>2. Restamped(v, k, u) => Yields(o, v, k, {RefreshAct(k, st.kind, u, d.lm, e.hash, x)})
    <3> HIDE DEF e, st
    <3>1. /\ v.local[k].present /\ u \in ViewDoc(v, k) /\ Bound(v.doc, k, st.kind, u)
          /\ e.hash \in Version /\ st.kind \in Kind /\ u \in Uuid /\ v.doc[u].present
      BY <1>1, <1>2
    <3>2. QED
      BY <2>1, <3>1, YieldsOnDocument
  <2>2a. stampLocal \/ stampRemote <=> Restamped(v, k, u)
    BY DEF Restamped
  <2> HIDE DEF st, d, e, stampLocal, stampRemote
  <2>3. Yields(o, v, k, When(stampLocal \/ stampRemote, {RefreshAct(k, st.kind, u, d.lm, e.hash, x)}))
    BY <2>2, <2>2a, YieldsWhen
  <2>4. QED
    BY <2>3 DEF x, stampLocal, stampRemote
<1>7. w \in {"Nobody", "Local", "Remote"}
  BY WinnerType
<1>8. Yields(o, v, k, Conflict(k))
  BY YieldsAct
<1>9. MappedBoth(o, v, k, u) =
        CASE ~localChanged /\ ~remoteChanged -> refresh
          [] localChanged /\ ~remoteChanged ->
               IF CanWriteRemote(o.mode) THEN pushed
               ELSE ByWinner(w, Conflict(k), {}, Download(k, u, d))
          [] ~localChanged /\ remoteChanged -> pulled
          [] localChanged /\ remoteChanged -> ByWinner(w, Conflict(k), pushed, pulled)
  BY DEF MappedBoth, RefreshAct
<1>10. localChanged \in BOOLEAN /\ remoteChanged \in BOOLEAN
  OBVIOUS
<1> HIDE DEF st, e, d, stampLocal, stampRemote, localChanged, remoteChanged, pushed, pulled, w, refresh
<1>11. Yields(o, v, k, ByWinner(w, Conflict(k), pushed, pulled))
  BY <1>3, <1>5, <1>7, <1>8, YieldsByWinner
<1>12. ~CanWriteRemote(o.mode) => Yields(o, v, k, ByWinner(w, Conflict(k), {}, Download(k, u, d)))
  BY <1>4, <1>7, <1>8, ModeFacts, YieldsEmpty, YieldsByWinner
<1>13. QED
  BY <1>3, <1>5, <1>6, <1>9, <1>10, <1>11, <1>12

LEMMA UploadYields ==
  ASSUME NEW o \in SyncOptions, NEW v, SnapFits(v), NEW k \in Key, CanWriteRemote(o.mode), NEW written
  PROVE  Yields(o, v, k, UploadWithGuards(v, written, k))
<1> DEFINE hash == v.local[k].hash
           sources == When(written.copies, CopySources(v, written, hash))
           s == LastOf(sources)
           copy == {[Action("CopyRemote", k) EXCEPT !.uuid = v.state[s].uuid, !.hash = hash]}
           upload == {[Action("Upload", k) EXCEPT !.hash = hash]}
<1>1. hash \in Version
  BY SnapParts DEF LocalFile
<1>2. Yields(o, v, k, upload)
  BY <1>1, YieldsAct
<1>3. sources # {} => Yields(o, v, k, copy)
  <2>1. sources \subseteq {j \in Key : HasDoc(v, v.state[j])}
    BY DEF When, CopySources
  <2> SUFFICES ASSUME sources # {} PROVE Yields(o, v, k, copy)
    OBVIOUS
  <2> HIDE DEF sources
  <2>2. s \in Key /\ HasDoc(v, v.state[s])
    BY <2>1, Greatest
  <2>3. v.state[s].uuid \in Uuid /\ v.doc[v.state[s].uuid].present
    BY <2>2 DEF HasDoc
  <2> HIDE DEF s
  <2>4. QED
    BY <1>1, <2>3, YieldsOnDocument
<1>4. UploadWithGuards(v, written, k) \in {{}, copy, upload}
      /\ (sources = {} => UploadWithGuards(v, written, k) \in {{}, upload})
  BY DEF UploadWithGuards
<1> HIDE DEF sources, copy, upload
<1>5. QED
  BY <1>2, <1>3, <1>4, YieldsEmpty

LEMMA RemoteGoneYields ==
  ASSUME NEW o \in SyncOptions, NEW v, SnapFits(v), NEW k \in Key, NEW written,
         v.state[k].mapped, ViewDoc(v, k) = {}
  PROVE  Yields(o, v, k, MappedRemoteGone(o, v, written, k))
<1> DEFINE e == v.local[k]
           changed == e.mtime # v.state[k].mtime
           upload == UploadWithGuards(v, written, k)
           w == Winner(o.conflict, e.mtime, DeletedMs)
           kept == IF o.mode = "Pull" THEN Forget(k) ELSE upload
<1>1. o.mode # "Pull" => Yields(o, v, k, upload)
  BY ModeFacts, UploadYields
<1>2. w \in {"Nobody", "Local", "Remote"}
  BY WinnerType
<1>3. MappedRemoteGone(o, v, written, k) =
        CASE o.mode = "Push" -> upload
          [] o.mode # "Push" /\ ~o.delete -> When(o.mode = "TwoWay", upload)
          [] o.mode # "Push" /\ o.delete /\ ~changed -> DeleteLocal(k)
          [] o.mode # "Push" /\ o.delete /\ changed -> ByWinner(w, Conflict(k), kept, DeleteLocal(k))
  BY DEF MappedRemoteGone
<1>4. changed \in BOOLEAN
  OBVIOUS
<1> HIDE DEF e, changed, upload, w
<1>5. Yields(o, v, k, kept)
  BY <1>1, YieldsAct
<1> HIDE DEF kept
<1>6. o.mode # "Push" /\ o.delete => Yields(o, v, k, DeleteLocal(k))
  BY YieldsAct, ModeFacts
<1>7. o.mode # "Push" /\ o.delete => Yields(o, v, k, ByWinner(w, Conflict(k), kept, DeleteLocal(k)))
  BY <1>2, <1>5, <1>6, YieldsAct, YieldsByWinner
<1>8. Yields(o, v, k, When(o.mode = "TwoWay", upload))
  BY <1>1, YieldsWhen
<1>9. QED
  BY <1>1, <1>3, <1>4, <1>6, <1>7, <1>8, ModeFacts

LEMMA LocalGoneYields ==
  ASSUME NEW o \in SyncOptions, NEW v, SnapFits(v), NEW k \in Key, NEW u \in ViewDoc(v, k),
         v.state[k].mapped, ~v.local[k].present
  PROVE  Yields(o, v, k, MappedLocalGone(o, v, k, u))
<1> DEFINE d == v.doc[u]
           download == Download(k, u, d)
           w == Winner(o.conflict, DeletedMs, d.lm)
           kept == IF o.mode = "Push" THEN Forget(k) ELSE download
           stamped == RemoteStampChanged(v.state[k], u, d)
<1>1. u \in Uuid /\ d.present /\ Bound(v.doc, k, d.kind, u)
  BY ViewFits
<1>2. o.mode # "Push" => Yields(o, v, k, download)
  BY <1>1, Constants, ModeFacts, YieldsOnDocument
<1>3. o.mode # "Pull" /\ o.delete => Yields(o, v, k, DeleteRemote(k, u))
  BY <1>1, Constants, ModeFacts, YieldsOnDocument
<1>4. w \in {"Nobody", "Local", "Remote"}
  BY WinnerType
<1>5. MappedLocalGone(o, v, k, u) =
        CASE o.mode = "Pull" -> download
          [] o.mode # "Pull" /\ ~o.delete -> When(o.mode = "TwoWay", download)
          [] o.mode # "Pull" /\ o.delete /\ ~stamped -> DeleteRemote(k, u)
          [] o.mode # "Pull" /\ o.delete /\ stamped -> ByWinner(w, Conflict(k), DeleteRemote(k, u), kept)
  BY DEF MappedLocalGone
<1>6. stamped \in BOOLEAN
  BY SnapParts DEF RemoteStampChanged, Entry
<1> HIDE DEF d, download, w, stamped
<1>7. Yields(o, v, k, kept)
  BY <1>2, YieldsAct
<1> HIDE DEF kept
<1>8. o.mode # "Pull" /\ o.delete => Yields(o, v, k, ByWinner(w, Conflict(k), DeleteRemote(k, u), kept))
  BY <1>3, <1>4, <1>7, YieldsAct, YieldsByWinner
<1>9. Yields(o, v, k, When(o.mode = "TwoWay", download))
  BY <1>2, YieldsWhen
<1>10. QED
  BY <1>2, <1>3, <1>5, <1>6, <1>8, <1>9, ModeFacts

LEMMA NewDocumentYields ==
  ASSUME NEW o \in SyncOptions, NEW v, SnapFits(v), NEW k \in Key, NEW u \in ViewDoc(v, k),
         CanWriteLocal(o.mode), NEW written
  PROVE  Yields(o, v, k, NewDocument(v, written, k, u))
<1> DEFINE d == v.doc[u]
           twins == When(written.copies /\ d.payload # 0, LocalByHash(v, written, d.payload))
           copy == {CopyLocalAct(k, LastOf(twins), d.kind, u, d.lm, d.payload, d.payload)}
<1>1. u \in Uuid /\ d.present /\ Bound(v.doc, k, d.kind, u) /\ d.payload \in Version
  BY ViewFits, SnapParts DEF Doc
<1>2. twins # {} => Yields(o, v, k, copy)
  <2>1. twins \subseteq Key
    BY DEF When, LocalByHash
  <2> SUFFICES ASSUME twins # {} PROVE Yields(o, v, k, copy)
    OBVIOUS
  <2> HIDE DEF twins
  <2>2. LastOf(twins) \in Key
    BY <2>1, Greatest
  <2>3. QED
    BY <1>1, <2>2, YieldsOnDocument
<1>3. Yields(o, v, k, Download(k, u, d))
  BY <1>1, YieldsOnDocument
<1>4. NewDocument(v, written, k, u) =
        IF twins # {} /\ LastOf(twins) # k THEN copy ELSE Download(k, u, d)
  BY DEF NewDocument, CopyLocalAct
<1> HIDE DEF d, twins, copy
<1>5. QED
  BY <1>2, <1>3, <1>4

LEMMA CollisionYields ==
  ASSUME NEW o \in SyncOptions, NEW v, SnapFits(v), NEW k \in Key, NEW u \in ViewDoc(v, k),
         ~v.state[k].mapped, v.local[k].present
  PROVE  Yields(o, v, k, Collision(o, v, k, u))
<1> DEFINE e == v.local[k]
           d == v.doc[u]
           w == Winner(o.conflict, e.mtime, d.lm)
           adopt == {AdoptAct(k, u, d.lm, e.hash, e.hash)}
           pushed == IF KindOf(k) = "rmdoc" THEN Conflict(k) ELSE UpdateRemote(k, u, e.hash)
<1>1. u \in Uuid /\ d.present /\ e.hash \in Version
  BY ViewFits, SnapParts DEF LocalFile
<1>2. Bound(v.doc, k, KindOf(k), u) /\ Bound(v.doc, k, d.kind, u)
  BY ViewFits
<1>3. Yields(o, v, k, adopt)
  BY <1>1, <1>2, YieldsOnDocument
<1>4. CanWriteRemote(o.mode) => Yields(o, v, k, UpdateRemote(k, u, e.hash))
  BY <1>1, <1>2, YieldsOnDocument
<1>5. CanWriteLocal(o.mode) => Yields(o, v, k, Download(k, u, d))
  BY <1>1, <1>2, YieldsOnDocument
<1>6. Yields(o, v, k, Conflict(k))
  BY YieldsAct
<1>7. w \in {"Nobody", "Local", "Remote"}
  BY WinnerType
<1>8. Collision(o, v, k, u) =
        IF d.payload # 0 /\ e.hash = d.payload THEN adopt
        ELSE ByWinner(w, Conflict(k), When(CanWriteRemote(o.mode), pushed),
                      When(CanWriteLocal(o.mode), Download(k, u, d)))
  BY DEF Collision, AdoptAct
<1> HIDE DEF e, d, w, adopt
<1>9. CanWriteRemote(o.mode) => Yields(o, v, k, pushed)
  BY <1>4, <1>6
<1> HIDE DEF pushed
<1>10. /\ Yields(o, v, k, When(CanWriteRemote(o.mode), pushed))
       /\ Yields(o, v, k, When(CanWriteLocal(o.mode), Download(k, u, d)))
  BY <1>5, <1>9, YieldsWhen
<1>11. Yields(o, v, k, ByWinner(w, Conflict(k), When(CanWriteRemote(o.mode), pushed),
                                When(CanWriteLocal(o.mode), Download(k, u, d))))
  BY <1>6, <1>7, <1>10, YieldsByWinner
<1>12. QED
  BY <1>3, <1>8, <1>11

LEMMA DecideYields ==
  ASSUME NEW o \in SyncOptions, NEW v, SnapFits(v), NEW k \in Key, NEW written
  PROVE  Yields(o, v, k, Decide(o, v, written, k))
<1> DEFINE docs == ViewDoc(v, k)
<1>1. v.state[k].mapped \in BOOLEAN /\ v.local[k].present \in BOOLEAN
  BY SnapParts DEF Entry, LocalFile
<1>2. docs = {} => Yields(o, v, k, DecideNone(o, v, written, k))
  <2> SUFFICES ASSUME docs = {} PROVE Yields(o, v, k, DecideNone(o, v, written, k))
    OBVIOUS
  <2>1. /\ v.state[k].mapped => Yields(o, v, k, MappedRemoteGone(o, v, written, k))
        /\ Yields(o, v, k, Forget(k))
    BY RemoteGoneYields, YieldsAct
  <2>2. Yields(o, v, k, When(CanWriteRemote(o.mode), UploadWithGuards(v, written, k)))
    BY UploadYields, YieldsWhen
  <2>3. QED
    BY <1>1, <2>1, <2>2, YieldsEmpty DEF DecideNone
<1>3. ASSUME NEW u \in docs PROVE Yields(o, v, k, DecideOne(o, v, written, k, u))
  <2>1. v.state[k].mapped /\ v.local[k].present => Yields(o, v, k, MappedBoth(o, v, k, u))
    BY MappedBothYields
  <2>2. v.state[k].mapped /\ ~v.local[k].present => Yields(o, v, k, MappedLocalGone(o, v, k, u))
    BY LocalGoneYields
  <2>3. ~v.state[k].mapped /\ v.local[k].present => Yields(o, v, k, Collision(o, v, k, u))
    BY CollisionYields
  <2>4. Yields(o, v, k, When(CanWriteLocal(o.mode), NewDocument(v, written, k, u)))
    BY NewDocumentYields, YieldsWhen
  <2>5. QED
    BY <1>1, <2>1, <2>2, <2>3, <2>4 DEF DecideOne
<1>4. \A u, w \in docs : u = w
  BY ViewFits
<1> HIDE DEF docs
<1>5. Yields(o, v, k, UNION {DecideOne(o, v, written, k, u) : u \in docs})
  <2>1. CASE docs = {}
    BY <2>1, YieldsEmpty
  <2>2. CASE docs # {}
    <3>1. PICK u \in docs : TRUE
      BY <2>2
    <3>2. \A a \in UNION {DecideOne(o, v, written, k, w) : w \in docs} : a \in DecideOne(o, v, written, k, u)
      BY <1>4, <3>1
    <3>3. QED
      BY <1>3, <3>1, <3>2 DEF Yields
  <2>3. QED
    BY <2>1, <2>2
<1>6. Decide(o, v, written, k) \in
        {{}, UNION {DecideOne(o, v, written, k, u) : u \in docs}}
          \cup When(docs = {}, {DecideNone(o, v, written, k)})
  BY DEF Decide, docs, When
<1>7. QED
  BY <1>2, <1>5, <1>6, YieldsEmpty DEF When

LEMMA Comparable ==
  ASSUME NEW a \in PlanAction, NEW b \in PlanAction,
         Rank(a.op) # Rank(b.op) \/ (a.key # b.key /\ a.op # "MoveRemote" /\ b.op # "MoveRemote")
  PROVE  Before(a, b) \/ Before(b, a)
<1>1. a.op \in Ops /\ b.op \in Ops /\ a.key \in Key /\ b.key \in Key
  BY DEF PlanAction
<1>2. a.key \in Nat /\ b.key \in Nat
  BY <1>1, Constants
<1>3. Rank(a.op) \in 1..8 /\ Rank(b.op) \in 1..8
  BY <1>1, RankType
<1>4. QED
  BY <1>2, <1>3 DEF Before

LEMMA MovesComparable ==
  ASSUME NEW a \in PlanAction, NEW b \in PlanAction,
         a.op = "MoveRemote", b.op = "MoveRemote", a.other # b.other
  PROVE  Before(a, b) \/ Before(b, a)
<1>1. ASSUME NEW c \in PlanAction
      PROVE  /\ c.hash \in Nat /\ c.kind \in Kind /\ c.other \in Nat
             /\ LeftOver(c) \in {0, 1}
  <2>1. c.hash \in Version /\ c.kind \in Kind /\ c.other \in Key
    BY DEF PlanAction
  <2>2. QED
    BY <2>1, Constants, VersionsAreNat DEF LeftOver
<1>2. \A x, y \in Kind : x = y \/ KindRank(x) < KindRank(y) \/ KindRank(y) < KindRank(x)
  BY DEF Kind, KindRank
<1>3. MovedBefore(a, b) \/ MovedBefore(b, a)
  BY <1>1, <1>2 DEF MovedBefore
<1>4. QED
  BY <1>3 DEF Before

LEMMA TableIsFit ==
  ASSUME NEW o \in SyncOptions, NEW v, SnapFits(v)
  PROVE  /\ \A a \in TableActions(o, v) : TableFits(o, v, a)
         /\ \A a, b \in TableActions(o, v) : a = b \/ Before(a, b) \/ Before(b, a)
         /\ \A a, b \in TableActions(o, v) :
              a.key = b.key /\ a.op # "Rebind" /\ b.op # "Rebind" => a = b
         /\ \A k \in Key : v.state[k].mapped /\ ~HasDoc(v, v.state[k]) =>
              \A u \in ViewDoc(v, k) : \E a \in TableActions(o, v) :
                a.op = "Rebind" /\ a.key = k /\ a.uuid = u
<1>1. PICK written : TableActions(o, v) = Rebinds(v) \cup DecideAll(o, v, written)
  BY DEF TableActions
<1>2. ASSUME NEW a \in Rebinds(v)
      PROVE  /\ a.op = "Rebind" /\ a.key \in Key /\ TableFits(o, v, a)
             /\ a.uuid \in ViewDoc(v, a.key) /\ a = Rebind(a.key, a.uuid)
  <2>1. PICK k \in Key : a \in {Rebind(k, u) : u \in When(v.state[k].mapped /\ ~HasDoc(v, v.state[k]), ViewDoc(v, k))}
    BY DEF Rebinds
  <2>2. PICK u \in When(v.state[k].mapped /\ ~HasDoc(v, v.state[k]), ViewDoc(v, k)) : a = Rebind(k, u)
    BY <2>1
  <2>3. u \in ViewDoc(v, k) /\ v.state[k].mapped /\ ~HasDoc(v, v.state[k])
    BY <2>2 DEF When
  <2>4. u \in Uuid /\ v.doc[u].present /\ v.doc[u].kind = v.state[k].kind
    BY <2>3, ViewFits
  <2>5. a = Act("Rebind", k, k, KindOf(k), u, 0, 0, 0)
    BY <2>2, MadeDelete
  <2>6. "Rebind" \in Ops /\ u \in 0..NumDocs /\ KindOf(k) \in Kind /\ 0 \in Version /\ 0 \in Nat
    BY <2>4, Constants DEF Ops
  <2>7. a \in PlanAction /\ a.op = "Rebind" /\ a.key = k /\ a.other = k /\ a.uuid = u
    BY <2>5, <2>6, ActFields
  <2>8. TableFits(o, v, a)
    BY <2>3, <2>4, <2>7 DEF TableFits, LocalWrites, RemoteWrites, Transfers, Agreements
  <2>9. QED
    BY <2>2, <2>3, <2>7, <2>8
<1>3. ASSUME NEW a \in DecideAll(o, v, written)
      PROVE  a.key \in Key /\ a \in Decide(o, v, written, a.key) /\ a.op # "Rebind" /\ TableFits(o, v, a)
  <2>1. PICK k \in Key : a \in Decide(o, v, written, k)
    BY DEF DecideAll
  <2>2. QED
    BY <2>1, DecideYields DEF Yields
<1>4. ASSUME NEW a \in TableActions(o, v), NEW b \in TableActions(o, v)
      PROVE  a = b \/ Before(a, b) \/ Before(b, a)
  <2>1. a \in PlanAction /\ b \in PlanAction
    BY <1>1, <1>2, <1>3 DEF TableFits
  <2>2. CASE a \in Rebinds(v) /\ b \in Rebinds(v)
    <3>1. a.key = b.key => a.uuid = b.uuid
      BY <1>2, <2>2, ViewFits
    <3>2. a.key = b.key => a = b
      BY <1>2, <2>2, <3>1
    <3>3. a.op # "MoveRemote" /\ b.op # "MoveRemote"
      BY <1>2, <2>2
    <3>4. QED
      BY <2>1, <3>2, <3>3, Comparable
  <2>3. CASE a \in DecideAll(o, v, written) /\ b \in DecideAll(o, v, written)
    <3>1. a.key = b.key => a = b
      BY <1>3, <2>3, DecideYields DEF Yields
    <3>2. a.op # "MoveRemote" /\ b.op # "MoveRemote"
      BY <1>3, <2>3 DEF TableFits
    <3>3. QED
      BY <2>1, <3>1, <3>2, Comparable
  <2>4. CASE a \in Rebinds(v) /\ b \in DecideAll(o, v, written)
    BY <1>2, <1>3, <2>1, <2>4, RankFacts, Comparable DEF PlanAction
  <2>5. CASE b \in Rebinds(v) /\ a \in DecideAll(o, v, written)
    BY <1>2, <1>3, <2>1, <2>5, RankFacts, Comparable DEF PlanAction
  <2>6. QED
    BY <1>1, <2>2, <2>3, <2>4, <2>5
<1>5. ASSUME NEW a \in TableActions(o, v), NEW b \in TableActions(o, v),
             a.key = b.key, a.op # "Rebind", b.op # "Rebind"
      PROVE  a = b
  <2>1. a \in DecideAll(o, v, written) /\ b \in DecideAll(o, v, written)
    BY <1>1, <1>2, <1>5
  <2>2. QED
    BY <1>3, <1>5, <2>1, DecideYields DEF Yields
<1>6. ASSUME NEW k \in Key, v.state[k].mapped, ~HasDoc(v, v.state[k]), NEW u \in ViewDoc(v, k)
      PROVE  \E a \in TableActions(o, v) : a.op = "Rebind" /\ a.key = k /\ a.uuid = u
  <2>1. Rebind(k, u) \in Rebinds(v)
    BY <1>6 DEF Rebinds, When
  <2>2. Rebind(k, u) = Act("Rebind", k, k, KindOf(k), u, 0, 0, 0)
    BY MadeDelete
  <2>3. Rebind(k, u).op = "Rebind" /\ Rebind(k, u).key = k /\ Rebind(k, u).uuid = u
    BY <2>2, ActFields
  <2>4. QED
    BY <1>1, <2>1, <2>3
<1>7. QED
  BY <1>1, <1>2, <1>3, <1>4, <1>5, <1>6

LEMMA MadeMoves ==
  ASSUME NEW s, NEW p
  PROVE  /\ MoveRemote(s, p) = Act("MoveRemote", p.from, p.to, s.state[p.from].kind, s.state[p.from].uuid,
                                   0, s.state[p.from].hash, s.state[p.from].payload)
         /\ MoveLocal(s, p) = Act("MoveLocal", p.from, p.to, KindOf(p.from), s.state[p.from].uuid, p.lm, 0, 0)
<1> DEFINE st == s.state[p.from]
           r1 == [Action("MoveRemote", p.from) EXCEPT !.other = p.to]
           r2 == [r1 EXCEPT !.kind = st.kind]
           r3 == [r2 EXCEPT !.uuid = st.uuid]
           r4 == [r3 EXCEPT !.hash = st.hash]
           r5 == [r4 EXCEPT !.payload = st.payload]
           q1 == [Action("MoveLocal", p.from) EXCEPT !.other = p.to]
           q2 == [q1 EXCEPT !.uuid = st.uuid]
           q3 == [q2 EXCEPT !.lm = p.lm]
<1>1. MoveRemote(s, p) = r5 /\ MoveLocal(s, p) = q3
  BY DEF MoveRemote, MoveLocal
<1> HIDE DEF st
<1>2. r1 = Act("MoveRemote", p.from, p.to, KindOf(p.from), 0, 0, 0, 0)
  BY DEF Act, Action
<1> HIDE DEF r1
<1>3. r2 = Act("MoveRemote", p.from, p.to, st.kind, 0, 0, 0, 0)
  BY <1>2 DEF Act
<1> HIDE DEF r2
<1>4. r3 = Act("MoveRemote", p.from, p.to, st.kind, st.uuid, 0, 0, 0)
  BY <1>3 DEF Act
<1> HIDE DEF r3
<1>5. r4 = Act("MoveRemote", p.from, p.to, st.kind, st.uuid, 0, st.hash, 0)
  BY <1>4 DEF Act
<1> HIDE DEF r4
<1>6. r5 = Act("MoveRemote", p.from, p.to, st.kind, st.uuid, 0, st.hash, st.payload)
  BY <1>5 DEF Act
<1> HIDE DEF r5
<1>7. q1 = Act("MoveLocal", p.from, p.to, KindOf(p.from), 0, 0, 0, 0)
  BY DEF Act, Action
<1> HIDE DEF q1
<1>8. q2 = Act("MoveLocal", p.from, p.to, KindOf(p.from), st.uuid, 0, 0, 0)
  BY <1>7 DEF Act
<1> HIDE DEF q2
<1>9. q3 = Act("MoveLocal", p.from, p.to, KindOf(p.from), st.uuid, p.lm, 0, 0)
  BY <1>8 DEF Act
<1> HIDE DEF q3
<1>10. QED
  BY <1>1, <1>6, <1>9 DEF st

\* The snapshots of a plan, and its moves.
Start == PlanInput(snap, doc, archive)
PlanPairs == When(CanWriteRemote(opts.mode), RemoteMoves(Start))
Rekeyed == AfterRemoteMoves(Start, PlanPairs)
PlanMoves == When(CanWriteLocal(opts.mode), LocalMoves(Rekeyed))
Seen == AfterLocalMoves(Rekeyed, PlanMoves)

LEMMA PlanParts ==
  ASSUME TypeOK, DocsFit, EntriesFit
  PROVE  /\ opts \in SyncOptions
         /\ SnapFits(Start) /\ Start.state = archive
         /\ \A k \in Key : Start.local[k].present = snap[k].present
         /\ PlanPairs \subseteq RemoteMoves(Start) /\ (PlanPairs # {} => CanWriteRemote(opts.mode))
         /\ PlanMoves \subseteq LocalMoves(Rekeyed) /\ (PlanMoves # {} => CanWriteLocal(opts.mode))
         /\ MakeActions(opts, Start) =
              {MoveRemote(Start, p) : p \in PlanPairs} \cup {MoveLocal(Rekeyed, m) : m \in PlanMoves}
                \cup TableActions(opts, Seen)
<1>1. opts \in SyncOptions
  BY Constants DEF TypeOK
<1>2. SnapFits(Start) /\ Start.state = archive /\ \A k \in Key : Start.local[k].present = snap[k].present
  BY InputFits DEF Start
<1>3. MakeActions(opts, Start) =
        {MoveRemote(Start, p) : p \in PlanPairs} \cup {MoveLocal(Rekeyed, m) : m \in PlanMoves}
          \cup TableActions(opts, Seen)
  BY DEF MakeActions, Prepass, PlanPairs, PlanMoves, Rekeyed, Seen
<1>4. /\ PlanPairs \subseteq RemoteMoves(Start) /\ (PlanPairs # {} => CanWriteRemote(opts.mode))
      /\ PlanMoves \subseteq LocalMoves(Rekeyed) /\ (PlanMoves # {} => CanWriteLocal(opts.mode))
  BY DEF When, PlanPairs, PlanMoves
<1>5. QED
  BY <1>1, <1>2, <1>3, <1>4

LEMMA RekeyedParts ==
  ASSUME TypeOK, DocsFit, EntriesFit
  PROVE  /\ SnapFits(Rekeyed) /\ Rekeyed.local = Start.local /\ Rekeyed.doc = Start.doc
         /\ \A p \in PlanPairs :
              /\ Rekeyed.state[p.to] = [Start.state[p.from] EXCEPT !.mtime = Start.local[p.to].mtime]
              /\ Rekeyed.state[p.from] = NoEntry
              /\ p.from \in Key /\ p.to \in Key
              /\ MoveSource(Start, p.from) /\ MoveTarget(Start, p.to)
              /\ Start.state[p.from].kind = KindOf(p.to)
              /\ Start.state[p.from] \in Entry
              /\ Bound(Start.doc, p.from, Start.state[p.from].kind, Start.state[p.from].uuid)
              /\ Start.doc[Start.state[p.from].uuid].present
         /\ \A k \in Key : \/ Rekeyed.state[k] = Start.state[k]
                           \/ \E p \in PlanPairs : p.from = k
                           \/ \E p \in PlanPairs : p.to = k
<1>1. SnapFits(Start) /\ PlanPairs \subseteq RemoteMoves(Start)
  BY PlanParts
<1>2. /\ SnapFits(Rekeyed) /\ Rekeyed.local = Start.local /\ Rekeyed.doc = Start.doc
      /\ \A p \in PlanPairs :
           /\ Rekeyed.state[p.to] = [Start.state[p.from] EXCEPT !.mtime = Start.local[p.to].mtime]
           /\ Rekeyed.state[p.from] = NoEntry
      /\ \A k \in Key : \/ Rekeyed.state[k] = Start.state[k]
                        \/ \E p \in PlanPairs : p.from = k
                        \/ \E p \in PlanPairs : p.to = k
  BY <1>1, RekeyFits DEF Rekeyed
<1>3. ASSUME NEW p \in PlanPairs
      PROVE  /\ p.from \in Key /\ p.to \in Key
             /\ MoveSource(Start, p.from) /\ MoveTarget(Start, p.to)
             /\ Start.state[p.from].kind = KindOf(p.to)
             /\ Start.state[p.from] \in Entry
             /\ Bound(Start.doc, p.from, Start.state[p.from].kind, Start.state[p.from].uuid)
             /\ Start.doc[Start.state[p.from].uuid].present
  BY <1>1, RemoteMovesMatch, SnapParts DEF SnapFits, EntryFits, MoveSource, HasDoc
<1>4. QED
  BY <1>2, <1>3

LEMMA SeenParts ==
  ASSUME TypeOK, DocsFit, EntriesFit
  PROVE  /\ SnapFits(Seen) /\ Seen.doc = Rekeyed.doc
         /\ \A m \in PlanMoves :
              /\ m.from \in Key /\ m.to \in Key /\ m.lm \in Nat
              /\ FollowsDevice(Rekeyed, m.from)
              /\ KindOf(m.to) = Rekeyed.doc[Rekeyed.state[m.from].uuid].kind
              /\ Rekeyed.state[m.from].mapped /\ ~Rekeyed.state[m.to].mapped
              /\ Rekeyed.state[m.from] \in Entry /\ Rekeyed.state[m.from].uuid \in Uuid
              /\ Rekeyed.doc[Rekeyed.state[m.from].uuid].present
              /\ Bound(Rekeyed.doc, m.from, Rekeyed.state[m.from].kind, Rekeyed.state[m.from].uuid)
              /\ Seen.state[m.from] = NoEntry /\ ~Seen.local[m.from].present /\ Seen.local[m.to].present
         /\ \A m, n \in PlanMoves : m.from = n.from => m = n
         /\ \A m, n \in PlanMoves : m.from # n.to
         /\ \A k \in Key : (\E m \in PlanMoves : m.to = k) =>
              \E m \in PlanMoves : m.to = k /\ Seen.state[k] = Stamped(Rekeyed.state[m.from], m.lm)
         /\ \A k \in Key : \/ Seen.state[k] = Rekeyed.state[k] /\ Seen.local[k] = Rekeyed.local[k]
                           \/ \E m \in PlanMoves : m.from = k
                           \/ \E m \in PlanMoves : m.to = k
<1>1. SnapFits(Rekeyed) /\ PlanMoves \subseteq LocalMoves(Rekeyed)
  BY PlanParts, RekeyedParts
<1>2. SnapFits(Seen) /\ Seen.doc = Rekeyed.doc
  BY <1>1, MovesFit DEF Seen
<1>3. ASSUME NEW m \in PlanMoves
      PROVE  /\ m.from \in Key /\ m.to \in Key /\ m.lm \in Nat
             /\ FollowsDevice(Rekeyed, m.from)
             /\ KindOf(m.to) = Rekeyed.doc[Rekeyed.state[m.from].uuid].kind
             /\ Rekeyed.state[m.from].mapped /\ ~Rekeyed.state[m.to].mapped
  <2>1. \A n \in PlanMoves :
             /\ n.from \in Key /\ n.to \in Key /\ n.lm \in Nat
             /\ FollowsDevice(Rekeyed, n.from)
             /\ KindOf(n.to) = Rekeyed.doc[Rekeyed.state[n.from].uuid].kind
             /\ Rekeyed.state[n.from].mapped /\ ~Rekeyed.state[n.to].mapped
    BY <1>1, MovesFit
  <2>2. QED
    BY <2>1
<1>4. ASSUME NEW m \in PlanMoves
      PROVE  /\ Rekeyed.state[m.from] \in Entry /\ Rekeyed.state[m.from].uuid \in Uuid
             /\ Rekeyed.doc[Rekeyed.state[m.from].uuid].present
             /\ Bound(Rekeyed.doc, m.from, Rekeyed.state[m.from].kind, Rekeyed.state[m.from].uuid)
  BY <1>1, <1>3, SnapParts DEF SnapFits, EntryFits, FollowsDevice, HasDoc
<1>5. ASSUME NEW m \in PlanMoves
      PROVE  Seen.state[m.from] = NoEntry /\ ~Seen.local[m.from].present /\ Seen.local[m.to].present
  BY <1>1, MovesFit DEF Seen
<1>6. /\ \A m, n \in PlanMoves : m.from = n.from => m = n
      /\ \A m, n \in PlanMoves : m.from # n.to
  BY <1>1, MovesFit
<1>7. \A k \in Key : (\E m \in PlanMoves : m.to = k) =>
        \E m \in PlanMoves : m.to = k /\ Seen.state[k] = Stamped(Rekeyed.state[m.from], m.lm)
  BY <1>1, MovesFit DEF Seen
<1>8. \A k \in Key : \/ Seen.state[k] = Rekeyed.state[k] /\ Seen.local[k] = Rekeyed.local[k]
                     \/ \E m \in PlanMoves : m.from = k
                     \/ \E m \in PlanMoves : m.to = k
  BY <1>1, MovesFit DEF Seen
<1>9. QED
  BY <1>2, <1>3, <1>4, <1>5, <1>6, <1>7, <1>8

\* Everything a plan promises holds when it is made.
LEMMA PlannedFits ==
  ASSUME TypeOK, DocsFit, EntriesFit
  PROVE  LET A == MakeActions(opts, Start) IN
         /\ \A a \in A : a \in PlanAction /\ ActionFits(a)
         /\ \A a, b \in A : PairFits(a, b)
<1> DEFINE R == {MoveRemote(Start, p) : p \in PlanPairs}
           L == {MoveLocal(Rekeyed, m) : m \in PlanMoves}
           T == TableActions(opts, Seen)
           A == MakeActions(opts, Start)
<1>1. A = R \cup L \cup T
  BY PlanParts
<1>2. opts \in SyncOptions
  BY PlanParts
<1>3. SnapFits(Start) /\ Start.state = archive
  BY PlanParts
<1>4. /\ PlanPairs \subseteq RemoteMoves(Start) /\ (PlanPairs # {} => CanWriteRemote(opts.mode))
      /\ PlanMoves \subseteq LocalMoves(Rekeyed) /\ (PlanMoves # {} => CanWriteLocal(opts.mode))
  BY PlanParts
<1>5. SnapFits(Rekeyed) /\ Rekeyed.local = Start.local /\ Rekeyed.doc = Start.doc
  BY RekeyedParts
<1>5a. ASSUME NEW p \in PlanPairs
       PROVE  /\ Rekeyed.state[p.to] = [Start.state[p.from] EXCEPT !.mtime = Start.local[p.to].mtime]
              /\ Rekeyed.state[p.from] = NoEntry
  BY RekeyedParts
<1>5b. ASSUME NEW k \in Key
       PROVE  \/ Rekeyed.state[k] = Start.state[k]
              \/ \E p \in PlanPairs : p.from = k
              \/ \E p \in PlanPairs : p.to = k
  BY RekeyedParts
<1>6. ASSUME NEW m \in PlanMoves
      PROVE  /\ m.from \in Key /\ m.to \in Key /\ m.lm \in Nat
             /\ FollowsDevice(Rekeyed, m.from)
             /\ KindOf(m.to) = Rekeyed.doc[Rekeyed.state[m.from].uuid].kind
             /\ Rekeyed.state[m.from].mapped /\ ~Rekeyed.state[m.to].mapped
  BY SeenParts
<1>6a. /\ \A m, n \in PlanMoves : m.from = n.from => m = n
       /\ \A m, n \in PlanMoves : m.from # n.to
  BY SeenParts
<1>6b. SnapFits(Seen) /\ Seen.doc = Rekeyed.doc
  BY SeenParts
<1>6c. ASSUME NEW m \in PlanMoves PROVE Seen.state[m.from] = NoEntry /\ ~Seen.local[m.from].present
  BY SeenParts
<1>6d. \A k \in Key : (\E m \in PlanMoves : m.to = k) =>
         \E m \in PlanMoves : m.to = k /\ Seen.state[k] = Stamped(Rekeyed.state[m.from], m.lm)
  BY SeenParts
<1>6e. ASSUME NEW k \in Key
       PROVE  \/ Seen.state[k] = Rekeyed.state[k] /\ Seen.local[k] = Rekeyed.local[k]
              \/ \E m \in PlanMoves : m.from = k
              \/ \E m \in PlanMoves : m.to = k
  BY SeenParts
<1>7. /\ \A a \in T : TableFits(opts, Seen, a)
      /\ \A a, b \in T : a = b \/ Before(a, b) \/ Before(b, a)
  BY <1>2, <1>6b, TableIsFit
<1>8. \A u \in Uuid : /\ Start.doc[u].kind = doc[u].kind
                      /\ Start.doc[u].present => u < nextUuid
  BY <1>3 DEF SnapFits
<1>9. ASSUME NEW p \in PlanPairs
      PROVE  /\ p.from \in Key /\ p.to \in Key
             /\ MoveSource(Start, p.from) /\ MoveTarget(Start, p.to)
             /\ Start.state[p.from].kind = KindOf(p.to)
             /\ Start.state[p.from] \in Entry
             /\ Bound(Start.doc, p.from, Start.state[p.from].kind, Start.state[p.from].uuid)
             /\ Start.doc[Start.state[p.from].uuid].present
  BY RekeyedParts
<1>10. ASSUME NEW a \in R
       PROVE  /\ a \in PlanAction /\ ActionFits(a) /\ a.op = "MoveRemote"
              /\ \E p \in PlanPairs : a = MoveRemote(Start, p) /\ a.key = p.from /\ a.other = p.to
                                  /\ a.uuid = Start.state[p.from].uuid /\ a.kind = Start.state[p.from].kind
  <2>1. PICK p \in PlanPairs : a = MoveRemote(Start, p)
    OBVIOUS
  <2> DEFINE e == Start.state[p.from]
  <2>2. a = Act("MoveRemote", p.from, p.to, e.kind, e.uuid, 0, e.hash, e.payload)
    BY <2>1, MadeMoves
  <2>3. e \in Entry /\ p.from \in Key /\ p.to \in Key /\ Bound(Start.doc, p.from, e.kind, e.uuid)
        /\ e.kind = KindOf(p.to) /\ Start.doc[e.uuid].present
    BY <1>9
  <2> HIDE DEF e
  <2>4. /\ a \in PlanAction /\ a.op = "MoveRemote" /\ a.key = p.from /\ a.other = p.to
        /\ a.kind = e.kind /\ a.uuid = e.uuid
    <3>1. "MoveRemote" \in Ops /\ e.kind \in Kind /\ e.uuid \in 0..NumDocs /\ 0 \in Nat
          /\ e.hash \in Version /\ e.payload \in Version
      BY <2>3 DEF Entry, Ops, RemoteWrites
    <3>2. QED
      BY <2>2, <2>3, <3>1, ActFields
  <2>5. Fits(e.kind, Start.doc[e.uuid].kind) /\ e.uuid \in Uuid /\ e.uuid < nextUuid /\ e.kind \in Kind
    BY <2>3 DEF Bound
  <2>6. Bound(doc, p.to, e.kind, e.uuid)
    BY <1>8, <2>3, <2>5, Fitting DEF Bound
  <2>7. ActionFits(a)
    BY <1>4, <2>3, <2>4, <2>5, <2>6
       DEF ActionFits, EntryPath, LocalWrites, RemoteWrites, Agreements, Transfers, OfDocument
  <2>8. QED
    BY <2>1, <2>4, <2>7 DEF e
<1>11. ASSUME NEW m \in PlanMoves
       PROVE  /\ Rekeyed.state[m.from] \in Entry /\ Rekeyed.state[m.from].uuid \in Uuid
              /\ Rekeyed.doc[Rekeyed.state[m.from].uuid].present
              /\ Bound(Rekeyed.doc, m.from, Rekeyed.state[m.from].kind, Rekeyed.state[m.from].uuid)
  BY SeenParts
<1>12. ASSUME NEW a \in L
       PROVE  /\ a \in PlanAction /\ ActionFits(a) /\ a.op = "MoveLocal"
              /\ \E m \in PlanMoves : a = MoveLocal(Rekeyed, m) /\ a.key = m.from /\ a.other = m.to
                                  /\ a.uuid = Rekeyed.state[m.from].uuid
  <2>1. PICK m \in PlanMoves : a = MoveLocal(Rekeyed, m)
    OBVIOUS
  <2> DEFINE e == Rekeyed.state[m.from]
             d == Rekeyed.doc[e.uuid]
  <2>2. a = Act("MoveLocal", m.from, m.to, KindOf(m.from), e.uuid, m.lm, 0, 0)
    BY <2>1, MadeMoves
  <2>3. /\ e \in Entry /\ e.uuid \in Uuid /\ d.present /\ Bound(Rekeyed.doc, m.from, e.kind, e.uuid)
        /\ m.from \in Key /\ m.to \in Key /\ m.lm \in Nat /\ KindOf(m.to) = d.kind
    BY <1>6, <1>11
  <2>4. d.kind = doc[e.uuid].kind /\ e.uuid < nextUuid
    BY <1>5, <1>8, <2>3
  <2>5. archive[m.from].mapped => archive[m.from] = e
    <3>1. CASE Rekeyed.state[m.from] = Start.state[m.from]
      BY <1>3, <3>1
    <3>2. CASE \E p \in PlanPairs : p.from = m.from
      <4>1. PICK p \in PlanPairs : p.from = m.from
        BY <3>2
      <4>2. Rekeyed.state[m.from] = NoEntry
        BY <1>5a, <4>1
      <4>3. QED
        BY <1>6, <4>2, NoEntryFits
    <3>3. CASE \E p \in PlanPairs : p.to = m.from
      BY <1>3, <1>9, <3>3 DEF MoveTarget
    <3>4. QED
      BY <1>5b, <2>3, <3>1, <3>2, <3>3
  <2>6. Fits(e.kind, d.kind)
    BY <2>3 DEF Bound
  <2> HIDE DEF e, d
  <2>7. /\ a \in PlanAction /\ a.op = "MoveLocal" /\ a.key = m.from /\ a.other = m.to /\ a.uuid = e.uuid
    <3>1. "MoveLocal" \in Ops /\ KindOf(m.from) \in Kind /\ e.uuid \in 0..NumDocs /\ 0 \in Version
      BY <2>3, Constants DEF Ops, LocalWrites, Entry
    <3>2. QED
      BY <2>2, <2>3, <3>1, ActFields
  <2>8. ActionFits(a)
    BY <1>4, <2>3, <2>4, <2>5, <2>6, <2>7
       DEF ActionFits, LocalWrites, RemoteWrites, Agreements, Transfers, OfDocument
  <2>9. QED
    BY <2>1, <2>7, <2>8 DEF e
<1>13. ASSUME NEW a \in T
       PROVE  /\ a \in PlanAction /\ ActionFits(a) /\ a.op \notin {"MoveRemote", "MoveLocal"}
  <2>1. TableFits(opts, Seen, a)
    BY <1>7
  <2>2. a \in PlanAction /\ a.key \in Key /\ Seen.state[a.key] \in Entry
    BY <1>6b, <2>1, SnapParts DEF TableFits, PlanAction
  <2>3. \A u \in Uuid : Seen.doc[u].kind = doc[u].kind /\ (Seen.doc[u].present => u < nextUuid)
    BY <1>6b DEF SnapFits
  <2>4. a.op \in OfDocument => a.uuid \in Uuid /\ Seen.doc[a.uuid].present /\ a.uuid < nextUuid
    BY <2>1, <2>3 DEF TableFits
  <2>5. a.op \in (Agreements \cup Transfers) \ {"Upload", "CopyRemote"} =>
          Bound(doc, EntryPath(a), a.kind, a.uuid)
    <3>1. EntryPath(a) = a.key
      BY <2>1 DEF TableFits, EntryPath
    <3>2. (Agreements \cup Transfers) \ {"Upload", "CopyRemote"} \subseteq OfDocument
      BY DEF Agreements, Transfers, OfDocument, Ops, LocalWrites, RemoteWrites
    <3>3. QED
      BY <2>1, <2>3, <2>4, <3>1, <3>2 DEF TableFits, Bound
  <2>6. ASSUME a.op = "Rebind", archive[a.key].mapped PROVE doc[a.uuid].kind = archive[a.key].kind
    <3> DEFINE k == a.key
    <3>1. Seen.state[k].mapped /\ ~HasDoc(Seen, Seen.state[k]) /\ Seen.doc[a.uuid].kind = Seen.state[k].kind
      BY <2>1, <2>6 DEF TableFits
    <3>2. ~\E m \in PlanMoves : m.from = k
      BY <1>6c, <3>1, NoEntryFits
    <3>3. ~\E m \in PlanMoves : m.to = k
      <4> SUFFICES ASSUME \E m \in PlanMoves : m.to = k PROVE FALSE
        OBVIOUS
      <4>0. PICK m \in PlanMoves : Seen.state[k] = Stamped(Rekeyed.state[m.from], m.lm)
        BY <1>6d, <2>2
      <4>1. Seen.state[k].uuid = Rekeyed.state[m.from].uuid
        BY <1>11, <4>0 DEF Entry, Stamped
      <4>2. HasDoc(Seen, Seen.state[k])
        BY <1>6b, <1>11, <3>1, <4>1 DEF HasDoc
      <4>3. QED
        BY <3>1, <4>2
    <3>4. Seen.state[k] = Rekeyed.state[k]
      BY <1>6e, <2>2, <3>2, <3>3
    <3>5. ~\E p \in PlanPairs : p.from = k
      <4>1. ASSUME NEW p \in PlanPairs, p.from = k PROVE FALSE
        <5>1. Rekeyed.state[k] = NoEntry
          BY <1>5a, <4>1
        <5>2. QED
          BY <3>1, <3>4, <5>1, NoEntryFits
      <4>2. QED
        BY <4>1
    <3>6. ~\E p \in PlanPairs : p.to = k
      <4> SUFFICES ASSUME NEW p \in PlanPairs, p.to = k PROVE FALSE
        OBVIOUS
      <4>0. Rekeyed.state[k] = [Start.state[p.from] EXCEPT !.mtime = Start.local[p.to].mtime]
        BY <1>5a
      <4>1. Rekeyed.state[k].uuid = Start.state[p.from].uuid
        BY <1>9, <4>0 DEF Entry
      <4>2. HasDoc(Start, Start.state[p.from])
        BY <1>9 DEF MoveSource
      <4>3. HasDoc(Seen, Seen.state[k])
        BY <1>5, <1>6b, <3>1, <3>4, <4>1, <4>2 DEF HasDoc
      <4>4. QED
        BY <3>1, <4>3
    <3>7. Seen.state[k] = archive[k]
      BY <1>3, <1>5b, <2>2, <3>4, <3>5, <3>6
    <3>8. a.uuid \in Uuid
      BY <2>4, <2>6 DEF OfDocument, Ops
    <3>9. QED
      BY <2>3, <3>1, <3>7, <3>8
  <2>7. ActionFits(a)
    BY <2>1, <2>2, <2>4, <2>5, <2>6 DEF ActionFits, TableFits
  <2>8. QED
    BY <2>1, <2>2, <2>7 DEF TableFits
<1>14. ASSUME NEW a \in A, NEW b \in A PROVE a = b \/ Before(a, b) \/ Before(b, a)
  <2>1. a \in PlanAction /\ b \in PlanAction
    BY <1>1, <1>10, <1>12, <1>13
  <2>2. CASE a \in R /\ b \in R
    <3>1. PICK p \in PlanPairs : a = MoveRemote(Start, p) /\ a.other = p.to
      BY <1>10, <2>2
    <3>2. PICK q \in PlanPairs : b = MoveRemote(Start, q) /\ b.other = q.to
      BY <1>10, <2>2
    <3>3. a.other = b.other => p = q
      BY <1>4, <3>1, <3>2, RemoteMovesMatch DEF Injective
    <3>4. a.op = "MoveRemote" /\ b.op = "MoveRemote"
      BY <1>10, <2>2
    <3>5. QED
      BY <2>1, <3>1, <3>2, <3>3, <3>4, MovesComparable
  <2>3. CASE a \in L /\ b \in L
    <3>1. PICK m \in PlanMoves : a = MoveLocal(Rekeyed, m) /\ a.key = m.from
      BY <1>12, <2>3
    <3>2. PICK n \in PlanMoves : b = MoveLocal(Rekeyed, n) /\ b.key = n.from
      BY <1>12, <2>3
    <3>3. a.key = b.key => m = n
      BY <1>6a, <3>1, <3>2
    <3>4. a.op = "MoveLocal" /\ b.op = "MoveLocal"
      BY <1>12, <2>3
    <3>5. QED
      BY <2>1, <3>1, <3>2, <3>3, <3>4, Comparable
  <2>4. CASE a \in T /\ b \in T
    BY <1>7, <2>4
  <2>5. CASE Rank(a.op) # Rank(b.op)
    BY <2>1, <2>5, Comparable
  <2>6. \A c \in A : c \in PlanAction => c.op \in Ops
    BY DEF PlanAction
  <2>7. QED
    BY <1>1, <1>10, <1>12, <1>13, <2>1, <2>2, <2>3, <2>4, <2>5, <2>6, RankFacts
<1>15. ASSUME NEW a \in A, NEW b \in A, b.op = "MoveLocal"
       PROVE  /\ a.op \in {"Rebind", "Refresh", "Adopt"} => a.key # b.key
              /\ a.op = "MoveLocal" => a.other # b.key
              /\ a.op = "MoveRemote" /\ a.other = b.key => a.uuid = b.uuid /\ Fits(a.kind, KindOf(b.other))
  <2>1. b \in L
    BY <1>1, <1>10, <1>13, <1>15
  <2>2. PICK m \in PlanMoves : b.key = m.from /\ b.other = m.to /\ b.uuid = Rekeyed.state[m.from].uuid
    BY <1>12, <2>1
  <2>3. ASSUME a.op \in {"Rebind", "Refresh", "Adopt"} PROVE a.key # b.key
    <3>1. a \in T
      BY <1>1, <1>10, <1>12, <2>3
    <3>2. Seen.state[a.key].mapped \/ Seen.local[a.key].present
      BY <1>7, <2>3, <3>1 DEF TableFits, Agreements
    <3>3. QED
      BY <1>6c, <2>2, <3>2, NoEntryFits
  <2>4. ASSUME a.op = "MoveLocal" PROVE a.other # b.key
    <3>1. a \in L
      BY <1>1, <1>10, <1>13, <2>4
    <3>2. QED
      BY <1>6a, <1>12, <2>2, <3>1
  <2>5. ASSUME a.op = "MoveRemote", a.other = b.key
        PROVE  a.uuid = b.uuid /\ Fits(a.kind, KindOf(b.other))
    <3>1. a \in R
      BY <1>1, <1>12, <1>13, <2>5
    <3>2. PICK p \in PlanPairs : a.other = p.to /\ a.uuid = Start.state[p.from].uuid /\ a.kind = Start.state[p.from].kind
      BY <1>10, <3>1
    <3>3. Rekeyed.state[m.from] = [Start.state[p.from] EXCEPT !.mtime = Start.local[p.to].mtime]
      BY <1>5a, <2>2, <2>5, <3>2
    <3>4. Rekeyed.state[m.from].uuid = Start.state[p.from].uuid /\ Rekeyed.state[m.from].kind = Start.state[p.from].kind
      BY <1>9, <3>2, <3>3 DEF Entry
    <3>5. Fits(Rekeyed.state[m.from].kind, KindOf(m.to))
      BY <1>6, <1>11 DEF Bound
    <3>6. QED
      BY <2>2, <3>2, <3>4, <3>5
  <2>6. QED
    BY <2>3, <2>4, <2>5
<1>16. \A a, b \in A : PairFits(a, b)
  BY <1>14, <1>15 DEF PairFits
<1>17. \A a \in A : a \in PlanAction /\ ActionFits(a)
  BY <1>1, <1>10, <1>12, <1>13
<1>18. QED
  BY <1>16, <1>17 DEF Start

\* ---------------------------------------------------------------------
\* Steps of a run.

LEMMA CurrentIs ==
  ASSUME PlanFits, Work # {}
  PROVE  /\ Current \in Work /\ Current \in plan /\ ActionFits(Current)
         /\ \A b \in Work \ {Current} : Before(Current, b)
<1>1. \A a \in Work : a \in PlanAction
  BY DEF PlanFits, Work
<1>2. \A a, b \in Work : a = b \/ Before(a, b) \/ Before(b, a)
  BY DEF PlanFits, PairFits
<1>3. Current \in Work /\ \A b \in Work \ {Current} : Before(Current, b)
  BY <1>1, <1>2, Ordered DEF Current
<1>4. QED
  BY <1>3 DEF PlanFits, Work

LEMMA SamePlan ==
  ASSUME UNCHANGED plan
  PROVE  Work' = Work /\ Current' = Current
<1>1. Work' = Work
  BY DEF Work
<1>2. Current' = CHOOSE a \in Work' : \A b \in Work' \ {a} : Before(a, b)
  BY DEF Current
<1>3. QED
  BY <1>1, <1>2 DEF Current

\* Documents are made under fresh uuids and keep their kind.
DocsKept ==
  /\ nextUuid <= nextUuid'
  /\ \A u \in Uuid : u < nextUuid /\ doc'[u].present =>
       doc[u].present /\ doc'[u].kind = doc[u].kind

LEMMA BoundKept ==
  ASSUME TypeOK, TypeOK', DocsKept, NEW k \in Key, NEW kind, NEW u
  PROVE  Bound(doc, k, kind, u) => Bound(doc, k, kind, u)'
<1>1. nextUuid \in Nat /\ nextUuid' \in Nat
  BY Constants DEF TypeOK
<1>2. QED
  BY <1>1, Constants DEF Bound, DocsKept, Uuid

\* The archive's entry an action relies on is as it was, dropped, or the one
\* the move of its document made.
EntryKept(a) ==
  /\ a.op = "Rebind" => archive'[a.key] = archive[a.key] \/ ~archive'[a.key].mapped
  /\ a.op = "MoveLocal" =>
       \/ archive'[a.key] = archive[a.key]
       \/ ~archive'[a.key].mapped
       \/ archive'[a.key].uuid = a.uuid /\ Fits(archive'[a.key].kind, KindOf(a.other))

LEMMA ActionKept ==
  ASSUME TypeOK, TypeOK', DocsKept, UNCHANGED opts, NEW a, ActionFits(a), EntryKept(a)
  PROVE  ActionFits(a)'
<1>1. nextUuid \in Nat /\ nextUuid' \in Nat /\ Uuid \subseteq Nat
  BY Constants DEF TypeOK, Uuid
<1>2. EntryPath(a) \in Key
  BY DEF ActionFits, EntryPath, PlanAction
<1>3. a.op \in OfDocument => a.uuid \in Uuid /\ a.uuid < nextUuid
  BY DEF ActionFits
<1>3a. a.op \in OfDocument => a.uuid < nextUuid'
  <2>1. nextUuid <= nextUuid'
    BY DEF DocsKept
  <2>2. ASSUME NEW n \in Nat, n < nextUuid PROVE n < nextUuid'
    BY <1>1, <2>1, <2>2
  <2>3. QED
    BY <1>1, <1>3, <2>2
<1>4. a.op \in (Agreements \cup Transfers) \ {"Upload", "CopyRemote"} => Bound(doc, EntryPath(a), a.kind, a.uuid)'
  BY <1>2, BoundKept DEF ActionFits
<1>5. a.op \in {"Rebind", "MoveLocal"} =>
        a.uuid \in Uuid /\ (doc'[a.uuid].present => doc[a.uuid].present /\ doc'[a.uuid].kind = doc[a.uuid].kind)
  BY <1>3 DEF OfDocument, Ops, LocalWrites, DocsKept
<1>6. a.op = "Rebind" /\ archive'[a.key].mapped /\ doc'[a.uuid].present
        => doc'[a.uuid].kind = archive'[a.key].kind
  BY <1>5 DEF ActionFits, EntryKept
<1>7. a.op = "MoveLocal" =>
       /\ doc'[a.uuid].present => doc'[a.uuid].kind = KindOf(a.other)
       /\ archive'[a.key].mapped => /\ archive'[a.key].uuid = a.uuid
                                    /\ Fits(archive'[a.key].kind, KindOf(a.other))
  BY <1>5 DEF ActionFits, EntryKept
<1>8. QED
  BY <1>3, <1>3a, <1>4, <1>6, <1>7 DEF ActionFits

LEMMA EntriesKept ==
  ASSUME TypeOK, TypeOK', DocsKept, EntriesFit, UNCHANGED archive
  PROVE  EntriesFit'
BY BoundKept DEF EntriesFit, EntryFits

\* A step that leaves the plan and the archive alone.
LEMMA PlanKept ==
  ASSUME RunInv, TypeOK', DocsFit', DocsKept, UNCHANGED <<archive, phase, opts, plan>>,
         phase # "run" => stage' = "effect",
         Work = {} => stage' = "effect",
         stage' = "record" /\ Work # {} /\ Current.op \in Transfers =>
           /\ Bound(doc, EntryPath(Current), Current.kind, got.uuid)'
           /\ Current.op = "MoveRemote" => got'.uuid = Current.uuid
  PROVE  RunInv'
<1>1. Work' = Work /\ Current' = Current
  BY SamePlan
<1>2. \A a \in Work : ActionFits(a)'
  BY ActionKept DEF RunInv, PlanFits, EntryKept
<1>3. PlanFits'
  BY <1>1, <1>2 DEF RunInv, PlanFits
<1>4. EntriesFit'
  BY EntriesKept DEF RunInv
<1>5. RunShape'
  BY <1>1 DEF RunInv, RunShape
<1>6. QED
  BY <1>3, <1>4, <1>5 DEF RunInv

\* A step that ends the run.
LEMMA EndKept ==
  ASSUME RunInv, TypeOK', UNCHANGED <<doc, nextUuid, archive>>, NEW how, how # "run", EndRun(how)
  PROVE  RunInv'
<1>1. plan' = {} /\ phase' = how /\ stage' = "effect"
  BY DEF EndRun
<1>2. Work' = {}
  BY <1>1 DEF Work
<1>3. PlanFits' /\ RunShape'
  BY <1>1, <1>2 DEF PlanFits, RunShape
<1>4. DocsFit' /\ EntriesFit'
  BY DEF RunInv, DocsFit, EntriesFit, EntryFits, Bound
<1>5. QED
  BY <1>3, <1>4 DEF RunInv

\* Of the saves an action makes, only those of moves reach an entry that a
\* later action relies on.
LEMMA SavedEntry ==
  ASSUME PlanFits, Work # {}, NEW b \in Work \ {Current}, NEW k \in Key, NEW e,
         archive' = [archive EXCEPT ![k] = e], archive \in [Key -> Entry],
         \/ ~e.mapped
         \/ k = Current.key /\ Current.op \in {"Rebind", "Refresh", "Adopt"}
         \/ Rank(Current.op) > 4
  PROVE  EntryKept(b)
<1> DEFINE c == Current
<1>1. c \in Work /\ ActionFits(c) /\ Before(c, b) /\ b \in Work /\ ActionFits(b)
  BY CurrentIs DEF PlanFits
<1>2. PairFits(c, b)
  BY <1>1 DEF PlanFits
<1> HIDE DEF c
<1>3. c.op \in Ops /\ b.op \in Ops /\ c.key \in Nat /\ b.key \in Key /\ b.key \in Nat
  BY <1>1, Constants DEF ActionFits, PlanAction
<1>4. Rank(c.op) \in 1..8
  BY <1>3, RankType
<1>5. b.op \in {"Rebind", "MoveLocal"} => Rank(b.op) <= 4 /\ Rank(c.op) <= 4
  <2>1. Rank("Rebind") = 1 /\ Rank("MoveLocal") = 4
    BY RankFacts
  <2>2. QED
    BY <1>1, <1>4, <2>1 DEF Before
<1>6. b.op = "Rebind" => c.op = "Rebind" /\ c.key # b.key
  <2>1. Rank(b.op) = 1 => Rank(c.op) = 1 /\ c.key # b.key
    BY <1>1, <1>3, <1>4, RankFacts DEF Before
  <2>2. QED
    BY <1>3, <2>1, RankFacts
<1>7. archive'[b.key] = archive[b.key] \/ (b.key = k /\ archive'[b.key] = e)
  BY <1>3
<1>8. ~(Rank(c.op) > 4) \/ b.op \notin {"Rebind", "MoveLocal"}
  BY <1>4, <1>5
<1>9. b.op = "Rebind" => EntryKept(b)
  BY <1>6, <1>7, <1>8 DEF EntryKept, c
<1>10. b.op = "MoveLocal" /\ c.op \in {"Rebind", "Refresh", "Adopt"} => c.key # b.key
  BY <1>2 DEF PairFits
<1>11. b.op = "MoveLocal" => EntryKept(b)
  BY <1>7, <1>8, <1>10 DEF EntryKept, c
<1>12. QED
  BY <1>9, <1>11 DEF EntryKept

LEMMA SaveKept ==
  ASSUME RunInv, TypeOK', Work # {}, phase = "run",
         NEW entries, NEW remote, Save(entries, remote), EntriesFit',
         \A b \in Work \ {Current} : EntryKept(b)
  PROVE  RunInv'
<1>1. /\ plan' = plan \ {Current} /\ stage' = "effect" /\ phase' = "run"
      /\ UNCHANGED <<doc, nextUuid, opts>>
  BY DEF Save
<1>2. Work' = Work \ {Current}
  BY <1>1 DEF Work
<1>3. DocsKept
  BY <1>1, Constants DEF DocsKept, RunInv, TypeOK
<1>4. \A a \in Work' : ActionFits(a)'
  <2>1. \A a \in Work \ {Current} : ActionFits(a)'
    BY <1>1, <1>3, ActionKept DEF RunInv, PlanFits
  <2>2. QED
    BY <1>2, <2>1
<1>5. PlanFits'
  <2>1. \A a \in plan' : a \in PlanAction
    BY <1>1 DEF RunInv, PlanFits
  <2>2. \A a, b \in Work' : PairFits(a, b)
    BY <1>2 DEF RunInv, PlanFits
  <2>3. QED
    BY <1>4, <2>1, <2>2 DEF PlanFits
<1>6. DocsFit'
  BY <1>1 DEF RunInv, DocsFit
<1>7. RunShape'
  BY <1>1 DEF RunShape
<1>8. QED
  BY <1>5, <1>6, <1>7 DEF RunInv

\* ---------------------------------------------------------------------
\* One lemma for each step of a run.

LEMMA CurrentType ==
  ASSUME PlanFits, Work # {}
  PROVE  /\ Current \in Work /\ Current \in plan /\ ActionFits(Current)
         /\ Current.op \in Ops /\ Current.key \in Key /\ Current.other \in Key
         /\ Current.kind \in Kind /\ Current.uuid \in 0..NumDocs /\ Current.lm \in Nat
         /\ Current.hash \in Version /\ Current.payload \in Version
<1>1. Current \in Work /\ Current \in plan /\ ActionFits(Current)
  BY CurrentIs
<1>2. Current \in PlanAction
  BY <1>1 DEF ActionFits
<1>3. QED
  BY <1>1, <1>2 DEF PlanAction

LEMMA MakePlanKeeps ==
  ASSUME RunInv, MakePlan
  PROVE  RunInv'
<1> DEFINE A == MakeActions(opts, Start)
<1>1. /\ plan' = A /\ phase' = "run" /\ snap' = NothingListed /\ phase = "scanned"
      /\ UNCHANGED <<local, doc, clock, nextUuid, archive, opts, stage, got, modified,
                     uiStale, edits, crashes, ghosts>>
  BY DEF MakePlan, Start
<1>2. /\ \A a \in A : a \in PlanAction /\ ActionFits(a)
      /\ \A a, b \in A : PairFits(a, b)
  BY PlannedFits DEF RunInv
<1> HIDE DEF A
<1>3. \A a : ActionFits(a)' <=> ActionFits(a)
  BY <1>1 DEF ActionFits, Bound
<1>4. PlanFits'
  BY <1>1, <1>2, <1>3 DEF PlanFits, Work
<1>5. RunShape'
  BY <1>1 DEF RunInv, RunShape
<1>6. DocsFit' /\ EntriesFit'
  BY <1>1 DEF RunInv, DocsFit, EntriesFit, EntryFits, Bound
<1>7. NothingListed \in [Key -> LocalFile]
  BY Constants DEF NothingListed, NoFile, LocalFile
<1>8. TypeOK'
  BY <1>1, <1>7 DEF RunInv, TypeOK, ghosts
<1>9. QED
  BY <1>4, <1>5, <1>6, <1>8 DEF RunInv

LEMMA Ticks ==
  ASSUME TypeOK, NEW side \in {"folder", "tablet"}
  PROVE  /\ clock[side] \in Nat /\ clock[side] + 1 \in Nat
         /\ Tick(side) => clock' \in [{"folder", "tablet"} -> Nat]
<1>1. clock \in [{"folder", "tablet"} -> Nat]
  BY DEF TypeOK
<1>2. clock[side] \in Nat
  BY <1>1
<1>3. QED
  BY <1>1, <1>2 DEF Tick

\* What an action of a run leaves of the types to show.
LEMMA EffectType ==
  ASSUME TypeOK, NEW next \in {"effect", "touch", "hash", "record"},
         NEW result \in [uuid : 0..NumDocs, lm : Nat, hash : Version],
         Advance(next, result),
         local' \in [Key -> LocalFile], doc' \in [Uuid -> Doc],
         clock' \in [{"folder", "tablet"} -> Nat], nextUuid' \in 1..(NumDocs + 1),
         uiStale' \in BOOLEAN
  PROVE  TypeOK'
<1>1. /\ stage' = next /\ got' = result
      /\ UNCHANGED <<archive, phase, opts, snap, plan, modified, edits, crashes, ghosts>>
  BY DEF Advance
<1>2. archive' \in [Key -> Entry] /\ snap' \in [Key -> LocalFile]
  BY <1>1 DEF TypeOK
<1>3. QED
  BY <1>1, <1>2 DEF TypeOK, ghosts

LEMMA EndType ==
  ASSUME TypeOK, NEW how \in {"idle", "failed", "done"}, EndRun(how),
         UNCHANGED <<doc, nextUuid, archive, live, dragged>>,
         local' \in [Key -> LocalFile], clock' \in [{"folder", "tablet"} -> Nat],
         uiStale' \in BOOLEAN, quiet' \in BOOLEAN,
         edits' \in 0..MaxEdits, crashes' \in 0..MaxCrashes
  PROVE  TypeOK'
<1>1. /\ phase' = how /\ stage' = "effect" /\ got' = NothingGot
      /\ snap' = NothingListed /\ modified' = FALSE /\ opts' = opts
  BY DEF EndRun
<1>2. NothingListed \in [Key -> LocalFile]
  BY Constants DEF NothingListed, NoFile, LocalFile
<1>3. NothingGot \in [uuid : 0..NumDocs, lm : Nat, hash : Version]
  BY Constants DEF NothingGot
<1>4. QED
  BY <1>1, <1>2, <1>3 DEF TypeOK

LEMMA NothingGotType == NothingGot \in [uuid : 0..NumDocs, lm : Nat, hash : Version]
BY Constants DEF NothingGot

LEMMA FailKeeps ==
  ASSUME RunInv, Fail
  PROVE  RunInv'
<1>1. EndRun("failed") /\ UNCHANGED <<local, doc, clock, nextUuid, archive, uiStale, edits, crashes, ghosts>>
  BY DEF Fail
<1>2. TypeOK'
  <2>1. /\ local' \in [Key -> LocalFile] /\ clock' \in [{"folder", "tablet"} -> Nat]
        /\ uiStale' \in BOOLEAN /\ quiet' \in BOOLEAN
        /\ edits' \in 0..MaxEdits /\ crashes' \in 0..MaxCrashes
        /\ UNCHANGED <<doc, nextUuid, archive, live, dragged>>
    BY <1>1 DEF RunInv, TypeOK, ghosts
  <2>2. QED
    BY <1>1, <2>1, EndType DEF RunInv
<1>3. QED
  BY <1>1, <1>2, EndKept DEF RunInv

LEMMA RegisterKeeps ==
  ASSUME RunInv, phase = "run", Work # {}, Current.op \in {"Upload", "CopyRemote"},
         NEW kind \in Kind, Fits(KindOf(Current.key), kind), NEW payload \in Version,
         RegisterDocument(Current.key, kind, payload)
  PROVE  RunInv'
<1> DEFINE k == Current.key
           u == nextUuid
           lm == clock["tablet"] + 1
           d == [present |-> TRUE, target |-> Target(k), kind |-> kind, lm |-> lm, payload |-> payload]
           r == Result(u, lm, Current.hash)
<1>1. /\ u <= NumDocs /\ doc' = [doc EXCEPT ![u] = d] /\ uiStale' = TRUE /\ UNCHANGED local
      /\ Tick("tablet") /\ nextUuid' = u + 1 /\ Advance("record", r)
  BY DEF RegisterDocument, WriteDoc
<1>2. /\ Current \in Work /\ ActionFits(Current) /\ k \in Key /\ Current.other = k
      /\ Current.kind = KindOf(k) /\ Current.hash \in Version
  <2>1. Current \in Work /\ ActionFits(Current) /\ k \in Key /\ Current.hash \in Version
    BY CurrentType DEF RunInv
  <2>2. QED
    BY <2>1 DEF ActionFits
<1>3. u \in Uuid /\ u \in Nat /\ u \in 0..NumDocs /\ u + 1 \in 1..(NumDocs + 1) /\ u < u + 1
  BY <1>1, Constants DEF RunInv, TypeOK, Uuid
<1>4. lm \in Nat /\ clock' \in [{"folder", "tablet"} -> Nat]
  BY <1>1, Ticks DEF RunInv
<1> HIDE DEF lm
<1>5. d \in Doc /\ d.present /\ d.kind = kind /\ d.target = Target(k)
  BY <1>2, <1>4, Constants DEF Doc
<1>6. HasPath(d)
  BY <1>2, <1>5, Fitting DEF HasPath
<1> HIDE DEF d
<1>7. doc' \in [Uuid -> Doc] /\ doc'[u] = d /\ \A w \in Uuid \ {u} : doc'[w] = doc[w]
  BY <1>1, <1>3, <1>5 DEF RunInv, TypeOK
<1>8. r \in [uuid : 0..NumDocs, lm : Nat, hash : Version] /\ r.uuid = u
  BY <1>2, <1>3, <1>4 DEF Result
<1> HIDE DEF r
<1>9. UNCHANGED <<archive, phase, opts, plan>> /\ stage' = "record" /\ got' = r
  BY <1>1 DEF Advance
<1>10. TypeOK'
  <2>1. local' \in [Key -> LocalFile]
    BY <1>1 DEF RunInv, TypeOK
  <2>2. QED
    BY <1>1, <1>3, <1>4, <1>7, <1>8, <2>1, EffectType DEF RunInv
<1>11. DocsKept
  <2>1. \A w \in Uuid : w < u => w # u
    BY <1>3, Constants DEF Uuid
  <2>2. u <= u + 1
    BY <1>3
  <2>3. QED
    BY <1>1, <1>7, <2>1, <2>2 DEF DocsKept
<1>12. DocsFit'
  <2>1. \A w \in Uuid : w < u => w < u + 1
    BY <1>3, Constants DEF Uuid
  <2>2. \A w \in Uuid \ {u} : doc'[w].present => w < nextUuid' /\ HasPath(doc'[w])
    BY <1>1, <1>7, <2>1 DEF RunInv, DocsFit
  <2>3. QED
    BY <1>1, <1>3, <1>6, <1>7, <2>2 DEF DocsFit, HasPath
<1>13. Bound(doc, EntryPath(Current), Current.kind, got.uuid)'
  <2>1. EntryPath(Current) = k /\ Current' = Current
    BY <1>2, <1>9, SamePlan DEF EntryPath
  <2>2. got'.uuid = u
    BY <1>8, <1>9
  <2>3. Good(k, KindOf(k)) /\ Good(k, kind) /\ Fits(KindOf(k), kind) /\ KindOf(k) \in Kind
    BY <1>2, Fitting, Constants
  <2>4. QED
    BY <1>1, <1>2, <1>3, <1>5, <1>7, <2>1, <2>2, <2>3 DEF Bound
<1>14. QED
  BY <1>9, <1>10, <1>11, <1>12, <1>13, PlanKept

\* A document changed in place.
LEMMA ChangeKeeps ==
  ASSUME RunInv, NEW u \in Uuid, NEW d \in Doc,
         d.present => doc[u].present /\ d.kind = doc[u].kind /\ HasPath(d),
         doc' = [doc EXCEPT ![u] = d], nextUuid' = nextUuid
  PROVE  doc' \in [Uuid -> Doc] /\ DocsKept /\ DocsFit'
<1>1. doc' \in [Uuid -> Doc] /\ doc'[u] = d /\ \A w \in Uuid \ {u} : doc'[w] = doc[w]
  BY DEF RunInv, TypeOK
<1>2. nextUuid \in Nat
  BY Constants DEF RunInv, TypeOK
<1>3. DocsKept
  BY <1>1, <1>2 DEF DocsKept
<1>4. DocsFit'
  BY <1>1 DEF RunInv, DocsFit
<1>5. QED
  BY <1>1, <1>3, <1>4

LEMMA UploadKeeps ==
  ASSUME RunInv, UploadDocument
  PROVE  RunInv'
<1> DEFINE k == Current.key
           kinds == IF KindOf(k) = "rmdoc" THEN BundleKinds ELSE {KindOf(k)}
<1>1. phase = "run" /\ Work # {} /\ Current.op = "Upload" /\ k \in Key
  BY CurrentType DEF RunInv, UploadDocument, At
<1>2. \/ \E kind \in kinds : RegisterDocument(k, kind, local[k].hash)
      \/ Fail
  BY DEF UploadDocument
<1>3. \A kind \in kinds : kind \in Kind /\ Fits(KindOf(k), kind)
  BY <1>1, DeviceAssumption, Constants DEF Fits
<1>4. local[k].hash \in Version
  BY <1>1 DEF RunInv, TypeOK, LocalFile
<1>5. QED
  BY <1>1, <1>2, <1>3, <1>4, RegisterKeeps, FailKeeps

LEMMA CopyOnDeviceKeeps ==
  ASSUME RunInv, CopyOnDevice
  PROVE  RunInv'
<1>1. phase = "run" /\ Work # {} /\ Current.op = "CopyRemote" /\ Current.key \in Key /\ Current.uuid \in Uuid
  <2>1. phase = "run" /\ Work # {} /\ Current.op = "CopyRemote"
    BY DEF CopyOnDevice, At
  <2>2. QED
    BY <2>1, CurrentType DEF RunInv, ActionFits, OfDocument, Ops, RemoteWrites
<1>2. \/ RegisterDocument(Current.key, KindOf(Current.key), doc[Current.uuid].payload)
      \/ Fail
  BY DEF CopyOnDevice
<1>3. KindOf(Current.key) \in Kind /\ Fits(KindOf(Current.key), KindOf(Current.key))
  BY <1>1, Constants DEF Fits
<1>4. doc[Current.uuid].payload \in Version
  BY <1>1 DEF RunInv, TypeOK, Doc
<1>5. QED
  BY <1>1, <1>2, <1>3, <1>4, RegisterKeeps, FailKeeps

\* An action on a document that is still there.
LEMMA OnDocument ==
  ASSUME RunInv, Work # {}, Current.op \in {"UpdateRemote", "Download", "MoveRemote", "DeleteRemote", "CopyLocal"}
  PROVE  /\ Current.uuid \in Uuid /\ doc[Current.uuid] \in Doc
         /\ Current.op # "DeleteRemote" =>
              Bound(doc, EntryPath(Current), Current.kind, Current.uuid) /\ EntryPath(Current) \in Key
<1>1. ActionFits(Current) /\ Current.key \in Key /\ Current.other \in Key
  BY CurrentType DEF RunInv
<1>2. Current.op \in OfDocument
  BY DEF OfDocument, Ops, LocalWrites, RemoteWrites
<1>3. Current.uuid \in Uuid
  BY <1>1, <1>2 DEF ActionFits
<1>4. Current.op # "DeleteRemote" => Bound(doc, EntryPath(Current), Current.kind, Current.uuid)
  BY <1>1 DEF ActionFits, Transfers
<1>5. QED
  BY <1>1, <1>3, <1>4 DEF EntryPath, RunInv, TypeOK

LEMMA UpdatePayloadKeeps ==
  ASSUME RunInv, UpdatePayload
  PROVE  RunInv'
<1> DEFINE u == Current.uuid
           file == local[Current.key]
           d == [doc[u] EXCEPT !.payload = file.hash]
<1>1. /\ phase = "run" /\ Work # {} /\ u \in Uuid /\ doc[u] \in Doc /\ Current.key \in Key
  <2>1. phase = "run" /\ Work # {} /\ Current.op = "UpdateRemote"
    BY DEF UpdatePayload, At
  <2>2. QED
    BY <2>1, OnDocument, CurrentType DEF RunInv
<1>2. CASE Fail
  BY <1>2, FailKeeps
<1>3. CASE /\ IF doc[u].present THEN WriteDoc(u, d) ELSE UNCHANGED <<local, doc, uiStale>>
           /\ Advance("touch", NothingGot)
           /\ UNCHANGED <<clock, nextUuid>>
  <2>1. /\ UNCHANGED <<archive, phase, opts, plan>> /\ stage' = "touch"
    BY <1>3 DEF Advance
  <2>2. file.hash \in Version
    BY <1>1 DEF RunInv, TypeOK, LocalFile
  <2>3. d \in Doc /\ d.present = doc[u].present /\ d.kind = doc[u].kind /\ d.target = doc[u].target
    BY <1>1, <2>2 DEF Doc
  <2> HIDE DEF d
  <2>4. d.present => HasPath(d)
    BY <1>1, <2>3 DEF RunInv, DocsFit, HasPath
  <2>5. doc' \in [Uuid -> Doc] /\ DocsKept /\ DocsFit'
    <3>1. CASE doc[u].present
      BY <1>1, <1>3, <2>3, <2>4, <3>1, ChangeKeeps DEF WriteDoc
    <3>2. CASE ~doc[u].present
      <4>1. doc' = [doc EXCEPT ![u] = doc[u]] /\ nextUuid' = nextUuid
        BY <1>3, <3>2 DEF RunInv, TypeOK
      <4>2. QED
        BY <1>1, <3>2, <4>1, ChangeKeeps
    <3>3. QED
      BY <3>1, <3>2
  <2>6. TypeOK'
    <3>1. /\ local' \in [Key -> LocalFile] /\ clock' \in [{"folder", "tablet"} -> Nat]
          /\ nextUuid' \in 1..(NumDocs + 1) /\ uiStale' \in BOOLEAN
      BY <1>3 DEF RunInv, TypeOK, WriteDoc
    <3>2. QED
      BY <1>3, <2>5, <3>1, EffectType, NothingGotType DEF RunInv
  <2>7. QED
    BY <1>1, <2>1, <2>5, <2>6, PlanKept
<1>4. QED
  BY <1>2, <1>3 DEF UpdatePayload

\* The last write of an effect on one document of the tablet.
LEMMA DocumentWritten ==
  ASSUME RunInv, phase = "run", Work # {}, Current.op \in {"UpdateRemote", "MoveRemote"},
         NEW d \in Doc, d.kind = doc[Current.uuid].kind, doc[Current.uuid].present, HasPath(d),
         WriteDoc(Current.uuid, d), Tick("tablet"), nextUuid' = nextUuid,
         Advance("record", Result(Current.uuid, clock["tablet"] + 1, Current.hash))
  PROVE  RunInv'
<1> DEFINE r == Result(Current.uuid, clock["tablet"] + 1, Current.hash)
<1>1. /\ UNCHANGED <<archive, phase, opts, plan>> /\ stage' = "record" /\ got' = r
  BY DEF Advance
<1>2. /\ Current.uuid \in Uuid /\ Current.hash \in Version /\ EntryPath(Current) \in Key
      /\ Bound(doc, EntryPath(Current), Current.kind, Current.uuid)
  BY OnDocument, CurrentType DEF RunInv
<1>3. r \in [uuid : 0..NumDocs, lm : Nat, hash : Version] /\ r.uuid = Current.uuid
  BY <1>2, Ticks, Constants DEF Result, RunInv
<1> HIDE DEF r
<1>4. doc' \in [Uuid -> Doc] /\ DocsKept /\ DocsFit'
  BY <1>2, ChangeKeeps DEF WriteDoc
<1>5. TypeOK'
  <2>1. /\ local' \in [Key -> LocalFile] /\ clock' \in [{"folder", "tablet"} -> Nat]
        /\ nextUuid' \in 1..(NumDocs + 1) /\ uiStale' \in BOOLEAN
    BY Ticks DEF RunInv, TypeOK, WriteDoc
  <2>2. Advance("record", r)
    BY DEF r
  <2>3. QED
    BY <1>3, <1>4, <2>1, <2>2, EffectType DEF RunInv
<1>6. Bound(doc, EntryPath(Current), Current.kind, got.uuid)'
  <2>1. Current' = Current /\ EntryPath(Current)' = EntryPath(Current)
    BY <1>1, SamePlan DEF EntryPath
  <2>2. Bound(doc, EntryPath(Current), Current.kind, Current.uuid)'
    <3>1. \A k \in Key : \A x, u : Bound(doc, k, x, u) => Bound(doc, k, x, u)'
      BY <1>4, <1>5, BoundKept DEF RunInv
    <3>2. QED
      BY <1>2, <2>1, <3>1 DEF Bound
  <2>3. QED
    BY <1>1, <1>3, <2>1, <2>2
<1>7. QED
  BY <1>1, <1>3, <1>4, <1>5, <1>6, PlanKept

LEMMA TouchKeeps ==
  ASSUME RunInv, TouchLastModified
  PROVE  RunInv'
<1> DEFINE u == Current.uuid
           lm == clock["tablet"] + 1
           d == [doc[u] EXCEPT !.lm = lm]
<1>1. phase = "run" /\ Work # {} /\ Current.op = "UpdateRemote"
  BY DEF TouchLastModified, At
<1>2. u \in Uuid /\ doc[u] \in Doc /\ lm \in Nat
  BY <1>1, OnDocument, Ticks DEF RunInv
<1>3. CASE Fail
  BY <1>3, FailKeeps
<1>4. CASE /\ doc[u].present /\ WriteDoc(u, d) /\ Tick("tablet") /\ nextUuid' = nextUuid
           /\ Advance("record", Result(u, lm, Current.hash))
  <2>1. d \in Doc /\ d.kind = doc[u].kind /\ d.target = doc[u].target
    BY <1>2 DEF Doc
  <2> HIDE DEF d
  <2>2. HasPath(d)
    BY <1>2, <1>4, <2>1 DEF RunInv, DocsFit, HasPath
  <2>3. QED
    BY <1>1, <1>4, <2>1, <2>2, DocumentWritten
<1>5. QED
  BY <1>3, <1>4 DEF TouchLastModified

LEMMA MoveDocumentKeeps ==
  ASSUME RunInv, MoveDocument
  PROVE  RunInv'
<1> DEFINE u == Current.uuid
           lm == clock["tablet"] + 1
           d == [doc[u] EXCEPT !.target = Target(Current.other), !.lm = lm]
<1>1. phase = "run" /\ Work # {} /\ Current.op = "MoveRemote"
  BY DEF MoveDocument, At
<1>2. u \in Uuid /\ doc[u] \in Doc /\ lm \in Nat
  BY <1>1, OnDocument, Ticks DEF RunInv
<1>3. /\ Current.other \in Key /\ Target(Current.other) \in AllTargets
      /\ Current.kind = KindOf(Current.other)
  BY <1>1, CurrentType, Constants DEF RunInv, ActionFits
<1>4. CASE Fail
  BY <1>4, FailKeeps
<1>5. CASE /\ doc[u].present /\ WriteDoc(u, d) /\ Tick("tablet") /\ nextUuid' = nextUuid
           /\ Advance("record", Result(u, lm, Current.hash))
  <2>1. d \in Doc /\ d.kind = doc[u].kind /\ d.target = Target(Current.other)
    BY <1>2, <1>3 DEF Doc
  <2> HIDE DEF d
  <2>2. Fits(KindOf(Current.other), doc[u].kind)
    BY <1>1, <1>3, <1>5, OnDocument DEF Bound
  <2>3. HasPath(d)
    BY <1>3, <2>1, <2>2, Fitting DEF HasPath
  <2>4. QED
    BY <1>1, <1>5, <2>1, <2>3, DocumentWritten
<1>6. QED
  BY <1>4, <1>5 DEF MoveDocument

\* An effect that leaves the tablet's documents alone.
LEMMA LocalEffect ==
  ASSUME RunInv, phase = "run", Work # {},
         NEW next \in {"hash", "record"},
         NEW result \in [uuid : 0..NumDocs, lm : Nat, hash : Version],
         Advance(next, result), UNCHANGED <<doc, nextUuid>>,
         local' \in [Key -> LocalFile], clock' \in [{"folder", "tablet"} -> Nat],
         uiStale' \in BOOLEAN,
         next = "record" /\ Current.op \in Transfers =>
           Current.op \in {"Download", "CopyLocal"} /\ result.uuid = Current.uuid
  PROVE  RunInv'
<1>1. /\ UNCHANGED <<archive, phase, opts, plan>> /\ stage' = next /\ got' = result
  BY DEF Advance
<1>2. TypeOK'
  <2>1. doc' \in [Uuid -> Doc] /\ nextUuid' \in 1..(NumDocs + 1)
    BY DEF RunInv, TypeOK
  <2>2. QED
    BY <2>1, EffectType DEF RunInv
<1>3. DocsKept /\ DocsFit'
  BY Constants DEF DocsKept, DocsFit, RunInv, TypeOK
<1>4. ASSUME stage' = "record", Current.op \in Transfers
      PROVE  Bound(doc, EntryPath(Current), Current.kind, got.uuid)'
  <2>1. Current' = Current
    BY <1>1, SamePlan
  <2>2. Bound(doc, EntryPath(Current), Current.kind, Current.uuid)
    BY <1>1, <1>4, OnDocument
  <2>3. QED
    BY <1>1, <1>4, <2>1, <2>2 DEF Bound, EntryPath
<1>5. stage' = "record" /\ Current.op = "MoveRemote" => got'.uuid = Current.uuid
  BY <1>1 DEF Transfers
<1>6. QED
  BY <1>1, <1>2, <1>3, <1>4, <1>5, PlanKept

LEMMA FileWritten ==
  ASSUME RunInv, NEW k \in Key, NEW hash \in Version, WriteLocal(k, hash)
  PROVE  /\ local' \in [Key -> LocalFile] /\ clock' \in [{"folder", "tablet"} -> Nat]
         /\ uiStale' \in BOOLEAN /\ UNCHANGED <<doc, nextUuid>>
<1>1. [present |-> TRUE, mtime |-> clock["folder"] + 1, hash |-> hash] \in LocalFile
  BY Ticks DEF RunInv, LocalFile
<1>2. QED
  BY <1>1, Ticks DEF WriteLocal, RunInv, TypeOK

LEMMA DownloadKeeps ==
  ASSUME RunInv, DownloadDocument
  PROVE  RunInv'
<1>1. phase = "run" /\ Work # {} /\ Current.op = "Download"
  BY DEF DownloadDocument, At
<1>2. Current.key \in Key /\ doc[Current.uuid].payload \in Version
  BY <1>1, CurrentType, OnDocument DEF RunInv, Doc
<1>3. \/ WriteLocal(Current.key, doc[Current.uuid].payload) /\ Advance("hash", NothingGot)
      \/ Fail
  BY DEF DownloadDocument
<1>4. QED
  BY <1>1, <1>2, <1>3, FileWritten, LocalEffect, NothingGotType, FailKeeps

LEMMA HashKeeps ==
  ASSUME RunInv, HashWritten
  PROVE  RunInv'
<1> DEFINE r == Result(Current.uuid, Current.lm, local[Current.key].hash)
<1>1. phase = "run" /\ Work # {} /\ Current.op = "Download"
  BY DEF HashWritten, At
<1>2. Current.key \in Key /\ Current.uuid \in 0..NumDocs /\ Current.lm \in Nat
  BY <1>1, CurrentType DEF RunInv
<1>3. local[Current.key].hash \in Version
  BY <1>2 DEF RunInv, TypeOK, LocalFile
<1>4. r \in [uuid : 0..NumDocs, lm : Nat, hash : Version] /\ r.uuid = Current.uuid
  BY <1>2, <1>3 DEF Result
<1>5. \/ Advance("record", r) /\ UNCHANGED <<local, doc, clock, nextUuid, uiStale>>
      \/ Fail
  BY DEF HashWritten
<1> HIDE DEF r
<1>6. CASE Advance("record", r) /\ UNCHANGED <<local, doc, clock, nextUuid, uiStale>>
  <2>1. /\ local' \in [Key -> LocalFile] /\ clock' \in [{"folder", "tablet"} -> Nat]
        /\ uiStale' \in BOOLEAN
    BY <1>6 DEF RunInv, TypeOK
  <2>2. QED
    BY <1>1, <1>4, <1>6, <2>1, LocalEffect
<1>7. QED
  BY <1>5, <1>6, FailKeeps

LEMMA CopyLocallyKeeps ==
  ASSUME RunInv, CopyLocally
  PROVE  RunInv'
<1> DEFINE r == Result(Current.uuid, Current.lm, Current.hash)
<1>1. phase = "run" /\ Work # {} /\ Current.op = "CopyLocal"
  BY DEF CopyLocally, At
<1>2. /\ Current.key \in Key /\ Current.other \in Key /\ Current.uuid \in 0..NumDocs
      /\ Current.lm \in Nat /\ Current.hash \in Version
  BY <1>1, CurrentType DEF RunInv
<1>3. local[Current.other].hash \in Version
  BY <1>2 DEF RunInv, TypeOK, LocalFile
<1>4. r \in [uuid : 0..NumDocs, lm : Nat, hash : Version] /\ r.uuid = Current.uuid
  BY <1>2 DEF Result
<1>5. \/ WriteLocal(Current.key, local[Current.other].hash) /\ Advance("record", r)
      \/ Fail
  BY DEF CopyLocally
<1> HIDE DEF r
<1>6. QED
  BY <1>1, <1>2, <1>3, <1>4, <1>5, FileWritten, LocalEffect, FailKeeps

LEMMA RenameFileKeeps ==
  ASSUME RunInv, RenameFile
  PROVE  RunInv'
<1>1. phase = "run" /\ Work # {} /\ Current.op = "MoveLocal"
  BY DEF RenameFile, At
<1>2. Current.key \in Key /\ Current.other \in Key
  BY <1>1, CurrentType DEF RunInv
<1>3. CASE Fail
  BY <1>3, FailKeeps
<1>4. CASE /\ local' = [local EXCEPT ![Current.other] = local[Current.key], ![Current.key] = NoFile]
           /\ Advance("record", NothingGot)
           /\ UNCHANGED <<doc, clock, nextUuid, uiStale>>
  <2>1. NoFile \in LocalFile /\ local[Current.key] \in LocalFile
    BY <1>2, Constants DEF NoFile, LocalFile, RunInv, TypeOK
  <2>2. /\ local' \in [Key -> LocalFile] /\ clock' \in [{"folder", "tablet"} -> Nat]
        /\ uiStale' \in BOOLEAN
    BY <1>4, <2>1 DEF RunInv, TypeOK
  <2>3. Current.op \notin Transfers
    BY <1>1 DEF Transfers
  <2>4. QED
    BY <1>1, <1>4, <2>2, <2>3, LocalEffect, NothingGotType
<1>5. QED
  BY <1>3, <1>4 DEF RenameFile

LEMMA DeleteKeeps ==
  ASSUME RunInv, DeleteEffect
  PROVE  RunInv'
<1>1. /\ phase = "run" /\ Work # {} /\ Current.op \in {"DeleteRemote", "DeleteLocal"}
      /\ Advance("record", NothingGot) /\ UNCHANGED <<clock, nextUuid>>
  BY DEF DeleteEffect, At
<1>2. Current.op \notin Transfers
  BY <1>1 DEF Transfers
<1>3. CASE Current.op = "DeleteRemote"
  <2>1. Current.uuid \in Uuid
    BY <1>1, <1>3, OnDocument
  <2>2. doc' = [doc EXCEPT ![Current.uuid] = NoDoc] /\ uiStale' = TRUE /\ local' = local
    BY <1>3 DEF DeleteEffect, WriteDoc
  <2>3. NoDoc \in Doc /\ ~NoDoc.present
    BY Constants DEF NoDoc, Doc, Kind
  <2>4. doc' \in [Uuid -> Doc] /\ DocsKept /\ DocsFit'
    BY <1>1, <2>1, <2>2, <2>3, ChangeKeeps
  <2>5. /\ local' \in [Key -> LocalFile] /\ clock' \in [{"folder", "tablet"} -> Nat]
        /\ nextUuid' \in 1..(NumDocs + 1) /\ uiStale' \in BOOLEAN
    BY <1>1, <2>2 DEF RunInv, TypeOK
  <2>6. TypeOK'
    BY <1>1, <2>4, <2>5, EffectType, NothingGotType DEF RunInv
  <2>7. UNCHANGED <<archive, phase, opts, plan>>
    BY <1>1 DEF Advance
  <2>8. QED
    BY <1>1, <1>2, <2>4, <2>6, <2>7, PlanKept
<1>4. CASE Current.op = "DeleteLocal"
  <2>1. local' = [local EXCEPT ![Current.key] = NoFile] /\ UNCHANGED <<doc, uiStale>>
    BY <1>4 DEF DeleteEffect
  <2>2. NoFile \in LocalFile
    BY Constants DEF NoFile, LocalFile
  <2>3. /\ local' \in [Key -> LocalFile] /\ clock' \in [{"folder", "tablet"} -> Nat]
        /\ uiStale' \in BOOLEAN
    BY <1>1, <2>1, <2>2 DEF RunInv, TypeOK
  <2>4. QED
    BY <1>1, <1>2, <2>1, <2>3, LocalEffect, NothingGotType
<1>5. QED
  BY <1>1, <1>3, <1>4

\* ---------------------------------------------------------------------
\* One lemma for each save.

LEMMA SaveType ==
  ASSUME TypeOK, NEW entries \in [Key -> Entry], NEW remote \in BOOLEAN, Save(entries, remote)
  PROVE  TypeOK' /\ archive' = entries
<1>1. /\ archive' = entries /\ stage' = "effect" /\ got' = NothingGot
      /\ modified' = (modified \/ remote)
      /\ UNCHANGED <<local, doc, clock, nextUuid, phase, opts, snap, uiStale, edits, crashes, ghosts>>
  BY DEF Save
<1>2. modified' \in BOOLEAN
  BY <1>1 DEF TypeOK
<1>3. QED
  BY <1>1, <1>2, NothingGotType DEF TypeOK, ghosts

\* A save of one entry, at the path of the action or, for what no local move
\* follows, at any path.
LEMMA SaveOne ==
  ASSUME RunInv, phase = "run", Work # {}, NEW k \in Key, NEW e \in Entry, NEW remote \in BOOLEAN,
         Save([archive EXCEPT ![k] = e], remote),
         EntryFits(doc, k, e),
         \/ ~e.mapped
         \/ k = Current.key /\ Current.op \in {"Rebind", "Refresh", "Adopt"}
         \/ Rank(Current.op) > 4
  PROVE  RunInv'
<1> DEFINE entries == [archive EXCEPT ![k] = e]
<1>1. archive \in [Key -> Entry] /\ entries \in [Key -> Entry]
  BY DEF RunInv, TypeOK
<1>2. TypeOK' /\ archive' = entries
  BY <1>1, SaveType DEF RunInv
<1>3. EntriesFit'
  <2>1. UNCHANGED <<doc, nextUuid>>
    BY DEF Save
  <2>2. \A j \in Key : EntryFits(doc, j, archive'[j])
    BY <1>1, <1>2 DEF RunInv, EntriesFit
  <2>3. QED
    BY <2>1, <2>2 DEF EntriesFit, EntryFits, Bound
<1>4. \A b \in Work \ {Current} : EntryKept(b)
  <2>1. archive' = [archive EXCEPT ![k] = e]
    BY <1>2
  <2>2. QED
    BY <1>1, <2>1, SavedEntry DEF RunInv
<1> HIDE DEF entries
<1>5. Save(entries, remote)
  BY DEF entries
<1>6. QED
  BY <1>2, <1>3, <1>4, <1>5, SaveKept

LEMMA AgreedType ==
  ASSUME TypeOK, NEW k \in Key, NEW kind \in Kind, NEW u \in 0..NumDocs, NEW lm \in Nat,
         NEW h \in Version, NEW x \in Version
  PROVE  /\ Agreed(k, kind, u, lm, h, x) \in Entry
         /\ Agreed(k, kind, u, lm, h, x).mapped
         /\ Agreed(k, kind, u, lm, h, x).kind = kind
         /\ Agreed(k, kind, u, lm, h, x).uuid = u
<1>1. local[k].mtime \in Nat
  BY DEF TypeOK, LocalFile
<1>2. QED
  BY <1>1 DEF Agreed, Entry

LEMMA DroppedEntry == NoEntry \in Entry /\ ~NoEntry.mapped
BY Constants DEF NoEntry, Entry, Kind

LEMMA ForgetKeeps ==
  ASSUME RunInv, ForgetEntry
  PROVE  RunInv'
<1>1. phase = "run" /\ Work # {} /\ Current.key \in Key
  BY CurrentType DEF RunInv, ForgetEntry, At
<1>2. Save([archive EXCEPT ![Current.key] = NoEntry], FALSE)
  BY DEF ForgetEntry
<1>3. QED
  BY <1>1, <1>2, DroppedEntry, SaveOne DEF EntryFits

LEMMA RecordDeleteKeeps ==
  ASSUME RunInv, RecordDelete
  PROVE  RunInv'
<1>1. phase = "run" /\ Work # {} /\ Current.key \in Key
  BY CurrentType DEF RunInv, RecordDelete, At
<1>2. Save([archive EXCEPT ![Current.key] = NoEntry], Current.op = "DeleteRemote")
  BY DEF RecordDelete
<1>3. QED
  BY <1>1, <1>2, DroppedEntry, SaveOne DEF EntryFits

LEMMA AgreementKeeps ==
  ASSUME RunInv, RecordAgreement
  PROVE  RunInv'
<1> DEFINE a == Current
           e == Agreed(a.key, a.kind, a.uuid, a.lm, a.hash, a.payload)
<1>1. phase = "run" /\ Work # {} /\ a.op \in {"Refresh", "Adopt"}
  BY DEF RecordAgreement, At
<1>2. /\ ActionFits(a) /\ a.key \in Key /\ a.kind \in Kind /\ a.uuid \in 0..NumDocs
      /\ a.lm \in Nat /\ a.hash \in Version /\ a.payload \in Version
  BY <1>1, CurrentType DEF RunInv
<1>3. e \in Entry /\ e.mapped /\ e.kind = a.kind /\ e.uuid = a.uuid
  BY <1>2, AgreedType DEF RunInv
<1>4. Bound(doc, a.key, a.kind, a.uuid)
  BY <1>1, <1>2 DEF ActionFits, Agreements, EntryPath
<1>5. Save([archive EXCEPT ![a.key] = e], FALSE) \/ Fail
  BY DEF RecordAgreement
<1> HIDE DEF e
<1>6. EntryFits(doc, a.key, e)
  BY <1>3, <1>4 DEF EntryFits
<1>7. QED
  BY <1>1, <1>2, <1>3, <1>5, <1>6, SaveOne, FailKeeps

LEMMA RebindKeeps ==
  ASSUME RunInv, RebindEntry
  PROVE  RunInv'
<1> DEFINE a == Current
           k == a.key
           e == IF archive[k].mapped THEN [archive[k] EXCEPT !.uuid = a.uuid, !.pending = TRUE] ELSE archive[k]
<1>1. phase = "run" /\ Work # {} /\ a.op = "Rebind"
  BY DEF RebindEntry, At
<1>2. ActionFits(a) /\ k \in Key /\ a.uuid \in 0..NumDocs
  BY <1>1, CurrentType DEF RunInv
<1>3. archive[k] \in Entry
  BY <1>2 DEF RunInv, TypeOK
<1>4. Save([archive EXCEPT ![k] = e], TRUE)
  BY <1>2 DEF RebindEntry, RunInv, TypeOK
<1>5. e \in Entry
  BY <1>2, <1>3 DEF Entry
<1>6. e.mapped => archive[k].mapped /\ e.kind = archive[k].kind /\ e.uuid = a.uuid
  BY <1>3 DEF Entry
<1>7. EntryFits(doc, k, archive[k])
  BY <1>2 DEF RunInv, EntriesFit
<1> HIDE DEF e
<1>8. a.uuid \in Uuid /\ a.uuid < nextUuid
  BY <1>1, <1>2 DEF ActionFits, OfDocument, Ops
<1>9. EntryFits(doc, k, e)
  <2> SUFFICES ASSUME e.mapped PROVE Bound(doc, k, e.kind, e.uuid)
    BY DEF EntryFits
  <2>1. e.kind \in Kind /\ Good(k, e.kind)
    BY <1>6, <1>7 DEF EntryFits, Bound
  <2>2. doc[a.uuid].present => doc[a.uuid].kind = e.kind
    BY <1>1, <1>2, <1>6 DEF ActionFits
  <2>3. QED
    BY <1>6, <1>8, <2>1, <2>2 DEF Bound, Fits
<1>10. QED
  BY <1>1, <1>2, <1>4, <1>5, <1>9, SaveOne

\* A save that drops the entry of one path and writes that of another.
LEMMA SaveTwo ==
  ASSUME RunInv, phase = "run", Work # {}, NEW k \in Key, NEW j \in Key,
         NEW e \in Entry, NEW remote \in BOOLEAN, NEW entries \in [Key -> Entry],
         Save(entries, remote), EntryFits(doc, j, e),
         \A i \in Key : entries[i] \in {archive[i], NoEntry} \/ (i = j /\ entries[i] = e),
         \A b \in Work \ {Current} : b.op = "MoveLocal" /\ b.key = j =>
           e.uuid = b.uuid /\ Fits(e.kind, KindOf(b.other)),
         Rank(Current.op) # 1
  PROVE  RunInv'
<1>1. TypeOK' /\ archive' = entries
  BY SaveType DEF RunInv
<1>2. EntriesFit'
  <2>1. UNCHANGED <<doc, nextUuid>>
    BY DEF Save
  <2>2. \A i \in Key : EntryFits(doc, i, archive'[i])
    BY <1>1, DroppedEntry DEF RunInv, EntriesFit, EntryFits
  <2>3. QED
    BY <2>1, <2>2 DEF EntriesFit, EntryFits, Bound
<1>3. ASSUME NEW b \in Work \ {Current} PROVE EntryKept(b)
  <2>1. b \in PlanAction /\ Before(Current, b) /\ Current.op \in Ops
    BY CurrentIs, CurrentType DEF RunInv, PlanFits, Work
  <2>2. b.op # "Rebind"
    <3>1. Rank(Current.op) \in 1..8 /\ Rank("Rebind") = 1
      BY <2>1, RankType, RankFacts
    <3>2. QED
      BY <2>1, <3>1 DEF Before
  <2>3. b.key \in Key
    BY <2>1 DEF PlanAction
  <2>4. \/ archive'[b.key] = archive[b.key]
        \/ ~archive'[b.key].mapped
        \/ b.key = j /\ archive'[b.key] = e
    BY <1>1, <2>3, DroppedEntry
  <2>5. QED
    BY <2>2, <2>4 DEF EntryKept
<1>4. QED
  BY <1>1, <1>2, <1>3, SaveKept

LEMMA RecordTransferKeeps ==
  ASSUME RunInv, RecordTransfer
  PROVE  RunInv'
<1> DEFINE a == Current
           path == EntryPath(a)
           remote == a.op \notin {"Download", "CopyLocal"}
           e == Agreed(path, a.kind, got.uuid, got.lm, got.hash, PayloadOf(a, got.hash))
           entries == [archive EXCEPT ![a.key] = NoEntry, ![path] = e]
<1>1. phase = "run" /\ Work # {} /\ stage = "record" /\ a.op \in Transfers
  BY DEF RecordTransfer, At, Transfers
<1>2. /\ ActionFits(a) /\ a.key \in Key /\ a.other \in Key /\ a.kind \in Kind
      /\ a.payload \in Version /\ path \in Key
  BY <1>1, CurrentType DEF RunInv, EntryPath
<1>3. got.uuid \in 0..NumDocs /\ got.lm \in Nat /\ got.hash \in Version
  BY DEF RunInv, TypeOK
<1>4. PayloadOf(a, got.hash) \in Version
  BY <1>2, <1>3, Constants DEF PayloadOf
<1>5. e \in Entry /\ e.mapped /\ e.kind = a.kind /\ e.uuid = got.uuid
  BY <1>2, <1>3, <1>4, AgreedType DEF RunInv
<1>6. Save(entries, remote) \/ Fail
  BY DEF RecordTransfer, EntryPath
<1>7. Bound(doc, path, a.kind, got.uuid) /\ (a.op = "MoveRemote" => got.uuid = a.uuid)
  BY <1>1 DEF RunInv, RunShape
<1> HIDE DEF e, path
<1>8. entries \in [Key -> Entry]
      /\ \A i \in Key : entries[i] \in {archive[i], NoEntry} \/ (i = path /\ entries[i] = e)
  BY <1>2, <1>5, DroppedEntry DEF RunInv, TypeOK
<1>9. EntryFits(doc, path, e)
  BY <1>5, <1>7 DEF EntryFits
<1>10. Rank(a.op) # 1
  BY <1>1 DEF Rank, Transfers
<1>11. ASSUME NEW b \in Work \ {Current}, b.op = "MoveLocal", b.key = path
       PROVE  e.uuid = b.uuid /\ Fits(e.kind, KindOf(b.other))
  <2>1. a.op = "MoveRemote"
    <3>1. Before(a, b)
      BY <1>1, <1>11, CurrentIs DEF RunInv
    <3>2. a.op # "MoveRemote" => Rank(a.op) = 5
      BY <1>1 DEF Rank, Transfers
    <3>3. Rank(b.op) = 4
      BY <1>11, RankFacts
    <3>4. QED
      BY <3>1, <3>2, <3>3 DEF Before
  <2>2. PairFits(a, b) /\ a.other = b.key
    BY <1>1, <1>11, <2>1, CurrentType DEF RunInv, PlanFits, path, EntryPath
  <2>3. QED
    BY <1>5, <1>7, <1>11, <2>1, <2>2 DEF PairFits
<1> HIDE DEF entries
<1>12. CASE Save(entries, remote)
  BY <1>1, <1>2, <1>5, <1>8, <1>9, <1>10, <1>11, <1>12, SaveTwo
<1>13. QED
  BY <1>6, <1>12, FailKeeps

LEMMA RecordLocalMoveKeeps ==
  ASSUME RunInv, RecordLocalMove
  PROVE  RunInv'
<1> DEFINE a == Current
           e == [archive[a.key] EXCEPT !.lm = a.lm]
           entries == [archive EXCEPT ![a.other] = e, ![a.key] = NoEntry]
<1>1. phase = "run" /\ Work # {} /\ a.op = "MoveLocal"
  BY DEF RecordLocalMove, At
<1>2. a \in Work /\ ActionFits(a) /\ a.key \in Key /\ a.other \in Key /\ a.lm \in Nat
  BY <1>1, CurrentType DEF RunInv
<1>3. archive[a.key] \in Entry
  BY <1>2 DEF RunInv, TypeOK
<1>4. Save(entries, FALSE)
  BY DEF RecordLocalMove
<1>5. e \in Entry /\ e.mapped = archive[a.key].mapped /\ e.kind = archive[a.key].kind
      /\ e.uuid = archive[a.key].uuid
  BY <1>2, <1>3 DEF Entry
<1> HIDE DEF e
<1>6. entries \in [Key -> Entry]
      /\ \A i \in Key : entries[i] \in {archive[i], NoEntry} \/ (i = a.other /\ entries[i] = e)
  BY <1>2, <1>5, DroppedEntry DEF RunInv, TypeOK
<1> HIDE DEF entries
<1>7. EntryFits(doc, a.other, e)
  <2> SUFFICES ASSUME e.mapped PROVE Bound(doc, a.other, e.kind, e.uuid)
    BY DEF EntryFits
  <2>1. Bound(doc, a.key, e.kind, e.uuid)
    BY <1>2, <1>5 DEF RunInv, EntriesFit, EntryFits
  <2>2. e.uuid = a.uuid /\ Fits(e.kind, KindOf(a.other))
    BY <1>1, <1>2, <1>5 DEF ActionFits
  <2>3. doc[e.uuid].present => doc[e.uuid].kind = KindOf(a.other)
    BY <1>1, <1>2, <2>2 DEF ActionFits
  <2>4. QED
    BY <2>1, <2>2, <2>3 DEF Bound, Good, Fits
<1>8. ASSUME NEW b \in Work \ {Current}, b.op = "MoveLocal", b.key = a.other PROVE FALSE
  BY <1>1, <1>2, <1>8 DEF RunInv, PlanFits, PairFits
<1>9. Rank(a.op) # 1
  BY <1>1, RankFacts
<1>10. \A b \in Work \ {Current} : b.op = "MoveLocal" /\ b.key = a.other =>
          e.uuid = b.uuid /\ Fits(e.kind, KindOf(b.other))
  BY <1>8
<1>11. FALSE \in BOOLEAN
  OBVIOUS
<1>12. QED
  BY <1>1, <1>2, <1>4, <1>5, <1>6, <1>7, <1>9, <1>10, <1>11, SaveTwo

\* ---------------------------------------------------------------------
\* The other steps.

LEMMA ScanKeeps ==
  ASSUME RunInv, NEW o \in Options, Scan(o)
  PROVE  RunInv'
<1>1. /\ phase # "run" /\ phase' = "scanned" /\ opts' = o /\ snap' = local /\ quiet' = TRUE
      /\ UNCHANGED <<local, doc, clock, nextUuid, archive, plan, stage, got, modified,
                     uiStale, edits, crashes, live, dragged>>
  BY DEF Scan
<1>2. plan = {} /\ stage = "effect"
  BY <1>1 DEF RunInv, RunShape
<1>3. Work' = {}
  BY <1>1, <1>2 DEF Work
<1>4. TypeOK'
  BY <1>1 DEF RunInv, TypeOK
<1>5. PlanFits' /\ RunShape'
  BY <1>1, <1>2, <1>3 DEF PlanFits, RunShape
<1>6. DocsFit' /\ EntriesFit'
  BY <1>1 DEF RunInv, DocsFit, EntriesFit, EntryFits, Bound
<1>7. QED
  BY <1>4, <1>5, <1>6 DEF RunInv

LEMMA FinishKeeps ==
  ASSUME RunInv, Finish
  PROVE  RunInv'
<1>1. EndRun("done") /\ uiStale' = (uiStale /\ ~modified)
      /\ UNCHANGED <<local, doc, clock, nextUuid, archive, edits, crashes, ghosts>>
  BY DEF Finish
<1>2. TypeOK'
  <2>1. /\ local' \in [Key -> LocalFile] /\ clock' \in [{"folder", "tablet"} -> Nat]
        /\ uiStale' \in BOOLEAN /\ quiet' \in BOOLEAN
        /\ edits' \in 0..MaxEdits /\ crashes' \in 0..MaxCrashes
        /\ UNCHANGED <<doc, nextUuid, archive, live, dragged>>
    BY <1>1 DEF RunInv, TypeOK, ghosts
  <2>2. QED
    BY <1>1, <2>1, EndType DEF RunInv
<1>3. QED
  BY <1>1, <1>2, EndKept DEF RunInv

\* An interruption, with what it left of the files.
LEMMA InterruptKeeps ==
  ASSUME RunInv, Interrupted, UNCHANGED <<doc, nextUuid>>,
         local' \in [Key -> LocalFile], clock' \in [{"folder", "tablet"} -> Nat],
         uiStale' \in BOOLEAN
  PROVE  RunInv'
<1>1. EndRun("idle") /\ quiet' = FALSE /\ crashes' = crashes + 1 /\ crashes < MaxCrashes
      /\ UNCHANGED <<archive, edits, live, dragged>>
  BY DEF Interrupted
<1>2. TypeOK'
  <2>1. edits' \in 0..MaxEdits /\ quiet' \in BOOLEAN
    BY <1>1 DEF RunInv, TypeOK
  <2>2. crashes' \in 0..MaxCrashes
    BY <1>1, Constants DEF RunInv, TypeOK
  <2>3. QED
    BY <1>1, <2>1, <2>2, EndType DEF RunInv
<1>3. QED
  BY <1>1, <1>2, EndKept

LEMMA CrashKeeps ==
  ASSUME RunInv, Crash
  PROVE  RunInv'
<1>1. /\ local' \in [Key -> LocalFile] /\ clock' \in [{"folder", "tablet"} -> Nat]
      /\ uiStale' \in BOOLEAN
  BY DEF Crash, RunInv, TypeOK
<1>2. QED
  BY <1>1, InterruptKeeps DEF Crash

LEMMA TornCrashKeeps ==
  ASSUME RunInv, TornCrash
  PROVE  RunInv'
<1>1. Work # {} /\ WriteLocal(Current.key, Torn) /\ Interrupted
  BY DEF TornCrash, At
<1>2. Current.key \in Key /\ Torn \in Version
  BY <1>1, CurrentType, Constants DEF RunInv
<1>3. QED
  BY <1>1, <1>2, FileWritten, InterruptKeeps

LEMMA NewVersionType ==
  ASSUME RunInv, UserMay
  PROVE  NewVersion \in Version
<1> DEFINE n == Cardinality(Key)
<1>1. n \in Nat /\ MaxEdits \in Nat
  BY Constants
<1>2. edits \in 0..MaxEdits /\ edits < MaxEdits
  BY DEF RunInv, TypeOK, UserMay
<1>3. NewVersion = 2 * n + edits + 1 /\ Torn = 2 * n + MaxEdits + 1
  BY DEF NewVersion, Torn
<1> HIDE DEF n
<1>4. NewVersion \in 0..Torn
  BY <1>1, <1>2, <1>3
<1>5. QED
  BY <1>4 DEF Version

\* A step of a user.
LEMMA UserKeeps ==
  ASSUME RunInv, UserMay, UNCHANGED <<archive, syncVars, uiStale, crashes>>,
         local' \in [Key -> LocalFile], doc' \in [Uuid -> Doc],
         clock' \in [{"folder", "tablet"} -> Nat], nextUuid' \in 1..(NumDocs + 1),
         live' \subseteq live \cup {NewVersion}, dragged' \subseteq Uuid,
         DocsKept, DocsFit'
  PROVE  RunInv'
<1>1. edits < MaxEdits /\ edits' = edits + 1 /\ quiet' = FALSE
      /\ UNCHANGED <<phase, opts, snap, plan, stage, got, modified>>
  BY DEF UserMay, syncVars
<1>2. edits' \in 0..MaxEdits
  BY <1>1, Constants DEF RunInv, TypeOK
<1>3. NewVersion \in Version
  BY NewVersionType
<1>4. TypeOK'
  BY <1>1, <1>2, <1>3 DEF RunInv, TypeOK
<1>5. ASSUME stage' = "record", Work # {}, Current.op \in Transfers
      PROVE  /\ Bound(doc, EntryPath(Current), Current.kind, got.uuid)'
             /\ Current.op = "MoveRemote" => got'.uuid = Current.uuid
  <2>1. Current' = Current
    BY <1>1, SamePlan
  <2>2. /\ Bound(doc, EntryPath(Current), Current.kind, got.uuid)
        /\ Current.op = "MoveRemote" => got.uuid = Current.uuid
    BY <1>1, <1>5 DEF RunInv, RunShape
  <2>3. EntryPath(Current) \in Key
    BY <1>5, CurrentType DEF RunInv, EntryPath
  <2>4. \A k \in Key : \A x, u : Bound(doc, k, x, u) => Bound(doc, k, x, u)'
    BY <1>4, BoundKept DEF RunInv
  <2>5. QED
    BY <1>1, <2>1, <2>2, <2>3, <2>4 DEF Bound, EntryPath
<1>6. phase # "run" \/ Work = {} => stage' = "effect"
  BY <1>1 DEF RunInv, RunShape
<1>7. QED
  BY <1>1, <1>4, <1>5, <1>6, PlanKept

LEMMA FolderStepKeeps ==
  ASSUME RunInv, FolderStep, local' \in [Key -> LocalFile],
         clock' \in [{"folder", "tablet"} -> Nat], live' \subseteq live \cup {NewVersion}
  PROVE  RunInv'
<1>1. UserMay /\ UNCHANGED <<doc, nextUuid, archive, syncVars, uiStale, crashes, dragged>>
  BY DEF FolderStep
<1>2. DocsKept /\ DocsFit'
  BY <1>1, Constants DEF DocsKept, DocsFit, RunInv, TypeOK
<1>3. doc' \in [Uuid -> Doc] /\ nextUuid' \in 1..(NumDocs + 1) /\ dragged' \subseteq Uuid
  BY <1>1 DEF RunInv, TypeOK
<1>4. QED
  BY <1>1, <1>2, <1>3, UserKeeps

LEMMA FolderUserKeeps ==
  ASSUME RunInv, NEW k \in Key, NEW j \in Key,
         UserWrite(k) \/ UserTouch(k) \/ UserRemove(k) \/ UserRename(k, j) \/ UserCopy(k, j)
  PROVE  RunInv'
<1> DEFINE now == clock["folder"] + 1
<1>1. local \in [Key -> LocalFile] /\ local[k] \in LocalFile /\ NoFile \in LocalFile
  BY Constants DEF RunInv, TypeOK, NoFile, LocalFile
<1>2. now \in Nat /\ (Tick("folder") => clock' \in [{"folder", "tablet"} -> Nat])
  BY Ticks DEF RunInv
<1>3. clock \in [{"folder", "tablet"} -> Nat]
  BY DEF RunInv, TypeOK
<1>4. [local[k] EXCEPT !.mtime = now] \in LocalFile
  BY <1>1, <1>2 DEF LocalFile
<1>5. CASE UserWrite(k)
  <2>1. FolderStep /\ Tick("folder") /\ live' = (live \ {local[k].hash}) \cup {NewVersion}
    BY <1>5 DEF UserWrite
  <2>2. NewVersion \in Version
    BY <2>1, NewVersionType DEF FolderStep
  <2>3. [present |-> TRUE, mtime |-> now, hash |-> NewVersion] \in LocalFile
    BY <1>2, <2>2 DEF LocalFile
  <2>4. local' \in [Key -> LocalFile]
    BY <1>1, <1>5, <2>3 DEF UserWrite
  <2>5. QED
    BY <1>2, <2>1, <2>4, FolderStepKeeps
<1>6. CASE UserTouch(k)
  <2>1. local' \in [Key -> LocalFile]
    BY <1>1, <1>4, <1>6 DEF UserTouch
  <2>2. QED
    BY <1>2, <1>6, <2>1, FolderStepKeeps DEF UserTouch
<1>7. CASE UserRemove(k)
  <2>1. local' \in [Key -> LocalFile] /\ live' \subseteq live
    BY <1>1, <1>7 DEF UserRemove
  <2>2. QED
    BY <1>3, <1>7, <2>1, FolderStepKeeps DEF UserRemove
<1>8. CASE UserRename(k, j)
  <2>1. local' \in [Key -> LocalFile]
    BY <1>1, <1>8 DEF UserRename
  <2>2. QED
    BY <1>3, <1>8, <2>1, FolderStepKeeps DEF UserRename
<1>9. CASE UserCopy(k, j)
  <2>1. local' \in [Key -> LocalFile]
    BY <1>1, <1>4, <1>9 DEF UserCopy
  <2>2. QED
    BY <1>2, <1>9, <2>1, FolderStepKeeps DEF UserCopy
<1>10. QED
  BY <1>5, <1>6, <1>7, <1>8, <1>9

LEMMA TabletStepKeeps ==
  ASSUME RunInv, TabletStep, NEW u \in Uuid, NEW d \in Doc,
         d.present => doc[u].present /\ d.kind = doc[u].kind /\ HasPath(d),
         doc' = [doc EXCEPT ![u] = d], nextUuid' = nextUuid,
         clock' \in [{"folder", "tablet"} -> Nat], live' \subseteq live \cup {NewVersion},
         dragged' \subseteq dragged \cup {u}
  PROVE  RunInv'
<1>1. UserMay /\ UNCHANGED <<local, archive, syncVars, uiStale, crashes>>
  BY DEF TabletStep
<1>2. doc' \in [Uuid -> Doc] /\ DocsKept /\ DocsFit'
  BY ChangeKeeps
<1>3. local' \in [Key -> LocalFile] /\ nextUuid' \in 1..(NumDocs + 1) /\ dragged' \subseteq Uuid
  BY <1>1 DEF RunInv, TypeOK
<1>4. QED
  BY <1>1, <1>2, <1>3, UserKeeps

LEMMA AnnotateKeeps ==
  ASSUME RunInv, NEW u \in Uuid, TabletAnnotate(u)
  PROVE  RunInv'
<1> DEFINE ink == doc[u].kind = "rmdoc"
           now == clock["tablet"] + 1
           x == IF ink THEN NewVersion ELSE doc[u].payload
           d == [doc[u] EXCEPT !.lm = now, !.payload = x]
<1>1. /\ doc[u].present /\ TabletStep /\ Tick("tablet") /\ nextUuid' = nextUuid /\ dragged' = dragged
      /\ live' \subseteq live \cup {NewVersion}
  BY DEF TabletAnnotate
<1>2. doc[u] \in Doc /\ now \in Nat /\ clock' \in [{"folder", "tablet"} -> Nat]
  BY <1>1, Ticks DEF RunInv, TypeOK
<1>3. NewVersion \in Version
  BY <1>1, NewVersionType DEF TabletStep
<1>4. x \in Version
  BY <1>2, <1>3 DEF Doc
<1>5. doc' = [doc EXCEPT ![u] = d]
  BY DEF TabletAnnotate, RunInv, TypeOK, Doc
<1> HIDE DEF x
<1>6. d \in Doc /\ d.kind = doc[u].kind /\ d.target = doc[u].target
  BY <1>2, <1>4 DEF Doc
<1> HIDE DEF d
<1>7. HasPath(d)
  BY <1>1, <1>6 DEF RunInv, DocsFit, HasPath
<1>8. QED
  BY <1>1, <1>2, <1>5, <1>6, <1>7, TabletStepKeeps

LEMMA RemoveKeeps ==
  ASSUME RunInv, NEW u \in Uuid, TabletRemove(u)
  PROVE  RunInv'
<1>1. /\ TabletStep /\ doc' = [doc EXCEPT ![u] = NoDoc] /\ live' \subseteq live
      /\ UNCHANGED <<clock, nextUuid, dragged>>
  BY DEF TabletRemove
<1>2. NoDoc \in Doc /\ ~NoDoc.present
  BY Constants DEF NoDoc, Doc, Kind
<1>3. clock' \in [{"folder", "tablet"} -> Nat]
  BY <1>1 DEF RunInv, TypeOK
<1>4. QED
  BY <1>1, <1>2, <1>3, TabletStepKeeps

LEMMA TabletMoveKeeps ==
  ASSUME RunInv, NEW u \in Uuid, NEW k \in Key, TabletMove(u, k)
  PROVE  RunInv'
<1> DEFINE now == clock["tablet"] + 1
           d == [doc[u] EXCEPT !.target = Target(k), !.lm = now]
<1>1. /\ doc[u].present /\ KindOf(k) = doc[u].kind /\ TabletStep /\ Tick("tablet")
      /\ dragged' = dragged \cup {u} /\ UNCHANGED <<nextUuid, live>>
  BY DEF TabletMove
<1>2. doc[u] \in Doc /\ now \in Nat /\ clock' \in [{"folder", "tablet"} -> Nat]
  BY <1>1, Ticks DEF RunInv, TypeOK
<1>3. doc' = [doc EXCEPT ![u] = d]
  BY DEF TabletMove, RunInv, TypeOK, Doc
<1>4. d \in Doc /\ d.kind = doc[u].kind /\ d.target = Target(k)
  BY <1>2, Constants DEF Doc
<1> HIDE DEF d
<1>5. HasPath(d)
  BY <1>1, <1>4 DEF HasPath
<1>6. QED
  BY <1>1, <1>2, <1>3, <1>4, <1>5, TabletStepKeeps

LEMMA CreateKeeps ==
  ASSUME RunInv, NEW k \in Key, TabletCreate(k)
  PROVE  RunInv'
<1> DEFINE u == nextUuid
<1>1. /\ u <= NumDocs /\ TabletStep /\ nextUuid' = u + 1 /\ dragged' = dragged
      /\ live' = live \cup {NewVersion}
  BY DEF TabletCreate
<1>2. PICK lm \in {clock["tablet"], clock["tablet"] + 1} :
        /\ doc' = [doc EXCEPT ![u] = [present |-> TRUE, target |-> Target(k), kind |-> KindOf(k),
                                      lm |-> lm, payload |-> NewVersion]]
        /\ clock' = [clock EXCEPT !["tablet"] = lm]
  BY DEF TabletCreate
<1> DEFINE d == [present |-> TRUE, target |-> Target(k), kind |-> KindOf(k), lm |-> lm, payload |-> NewVersion]
<1>3. lm \in Nat /\ clock' \in [{"folder", "tablet"} -> Nat]
  BY <1>2, Ticks DEF RunInv, TypeOK
<1>4. UserMay /\ UNCHANGED <<local, archive, syncVars, uiStale, crashes>>
  BY <1>1 DEF TabletStep
<1>5. NewVersion \in Version
  BY <1>4, NewVersionType
<1>6. d \in Doc /\ d.kind = KindOf(k) /\ d.target = Target(k)
  BY <1>3, <1>5, Constants DEF Doc
<1>7. doc' = [doc EXCEPT ![u] = d]
  BY <1>2
<1> HIDE DEF d
<1>8. HasPath(d)
  BY <1>6 DEF HasPath
<1>9. u \in Uuid /\ u \in Nat /\ u + 1 \in 1..(NumDocs + 1) /\ u < u + 1
  BY <1>1, Constants DEF RunInv, TypeOK, Uuid
<1>10. doc' \in [Uuid -> Doc] /\ doc'[u] = d /\ \A w \in Uuid \ {u} : doc'[w] = doc[w]
  BY <1>6, <1>7, <1>9 DEF RunInv, TypeOK
<1>11. \A w \in Uuid : w < u => w # u /\ w < u + 1
  BY <1>9, Constants DEF Uuid
<1>12. DocsKept
  <2>1. u <= u + 1
    BY <1>9
  <2>2. QED
    BY <1>1, <1>10, <1>11, <2>1 DEF DocsKept
<1>13. DocsFit'
  <2>1. \A w \in Uuid \ {u} : doc'[w].present => w < nextUuid' /\ HasPath(doc'[w])
    BY <1>1, <1>10, <1>11 DEF RunInv, DocsFit
  <2>2. QED
    BY <1>1, <1>8, <1>9, <1>10, <2>1 DEF DocsFit, HasPath
<1>14. /\ local' \in [Key -> LocalFile] /\ nextUuid' \in 1..(NumDocs + 1) /\ dragged' \subseteq Uuid
       /\ live' \subseteq live \cup {NewVersion}
  BY <1>1, <1>4, <1>9 DEF RunInv, TypeOK
<1>15. QED
  BY <1>3, <1>4, <1>10, <1>12, <1>13, <1>14, UserKeeps

LEMMA InitFits == Init => RunInv
<1> SUFFICES ASSUME Init PROVE RunInv
  OBVIOUS
<1> DEFINE n == Cardinality(Key)
<1>1. PICK files \in [Key -> BOOLEAN], docs \in [Key -> {"none", "own", "copy"}] :
       /\ \A k \in Key : docs[k] = "copy" => files[k]
       /\ local = [k \in Key |-> IF files[k]
            THEN [present |-> TRUE, mtime |-> 0, hash |-> k] ELSE NoFile]
       /\ doc = [u \in Uuid |-> IF u \in Key /\ docs[u] # "none"
            THEN [present |-> TRUE, target |-> Target(u), kind |-> KindOf(u), lm |-> 0,
                  payload |-> IF docs[u] = "copy" THEN u ELSE Cardinality(Key) + u]
            ELSE NoDoc]
  BY DEF Init
<1>2. /\ clock = [side \in {"folder", "tablet"} |-> 0] /\ nextUuid = n + 1
      /\ archive = [k \in Key |-> NoEntry] /\ phase = "idle" /\ opts \in Options
      /\ snap = NothingListed /\ plan = {} /\ stage = "effect" /\ got = NothingGot
      /\ modified = FALSE /\ uiStale = FALSE /\ edits = 0 /\ crashes = 0
      /\ live = {local[k].hash : k \in {j \in Key : local[j].present}}
                \cup {doc[u].payload : u \in {w \in Uuid : doc[w].present}}
      /\ dragged = {} /\ quiet = TRUE
  BY DEF Init
<1>3. n \in Nat \ {0} /\ Key = 1..n /\ NumDocs \in Nat /\ n <= NumDocs /\ n + 1 \in 1..(NumDocs + 1)
  BY PathsAssumption
<1>4. \A k \in Key : k \in Version /\ n + k \in Version /\ k < n + 1
  <2>1. MaxEdits \in Nat /\ Torn = 2 * n + MaxEdits + 1
    BY Constants DEF Torn
  <2> HIDE DEF n
  <2>2. ASSUME NEW k \in Key PROVE k \in 0..Torn /\ n + k \in 0..Torn /\ k < n + 1
    BY <1>3, <2>1
  <2>3. QED
    BY <2>2 DEF Version
<1>5. NoFile \in LocalFile /\ NoDoc \in Doc /\ ~NoDoc.present
  BY Constants DEF NoFile, LocalFile, NoDoc, Doc, Kind
<1>6. local \in [Key -> LocalFile]
  <2>1. \A k \in Key : [present |-> TRUE, mtime |-> 0, hash |-> k] \in LocalFile
    BY <1>4 DEF LocalFile
  <2>2. QED
    BY <1>1, <1>5, <2>1
<1>7. ASSUME NEW u \in Uuid
      PROVE  doc[u] \in Doc /\ (doc[u].present => u < nextUuid /\ HasPath(doc[u]))
  <2>1. CASE u \in Key /\ docs[u] # "none"
    <3> DEFINE x == IF docs[u] = "copy" THEN u ELSE Cardinality(Key) + u
    <3>1. x \in Version
      BY <1>4, <2>1
    <3>2. doc[u] = [present |-> TRUE, target |-> Target(u), kind |-> KindOf(u), lm |-> 0, payload |-> x]
      BY <1>1, <2>1
    <3> HIDE DEF x
    <3>3. doc[u] \in Doc
      BY <2>1, <3>1, <3>2, Constants DEF Doc
    <3>4. u < nextUuid
      BY <1>2, <1>4, <2>1
    <3>5. QED
      BY <2>1, <3>2, <3>3, <3>4 DEF HasPath
  <2>2. CASE ~(u \in Key /\ docs[u] # "none")
    BY <1>1, <1>5, <2>2
  <2>3. QED
    BY <2>1, <2>2
<1>8. doc \in [Uuid -> Doc]
  <2>1. doc = [u \in Uuid |-> doc[u]]
    BY <1>1
  <2>2. QED
    BY <1>7, <2>1
<1>9. archive \in [Key -> Entry] /\ \A k \in Key : ~archive[k].mapped
  BY <1>2, DroppedEntry
<1>10. NothingListed \in [Key -> LocalFile]
  BY <1>5 DEF NothingListed
<1>11. live \subseteq Version
  <2>1. \A k \in Key : local[k].hash \in Version
    BY <1>6 DEF LocalFile
  <2>2. \A u \in Uuid : doc[u].payload \in Version
    BY <1>7 DEF Doc
  <2>3. QED
    BY <1>2, <2>1, <2>2
<1> HIDE DEF n
<1>12. TypeOK
  <2>1. nextUuid \in 1..(NumDocs + 1) /\ clock \in [{"folder", "tablet"} -> Nat]
    BY <1>2, <1>3
  <2>2. edits \in 0..MaxEdits /\ crashes \in 0..MaxCrashes
    BY <1>2, Constants
  <2>3. snap \in [Key -> LocalFile] /\ got \in [uuid : 0..NumDocs, lm : Nat, hash : Version]
    BY <1>2, <1>10, NothingGotType
  <2>4. QED
    BY <1>2, <1>6, <1>8, <1>9, <1>11, <2>1, <2>2, <2>3 DEF TypeOK
<1>13. Work = {}
  BY <1>2 DEF Work
<1>14. PlanFits /\ RunShape
  BY <1>2, <1>13 DEF PlanFits, RunShape
<1>15. DocsFit /\ EntriesFit
  BY <1>7, <1>9 DEF DocsFit, EntriesFit, EntryFits
<1>16. QED
  BY <1>12, <1>14, <1>15 DEF RunInv

\* A step that changes nothing.
LEMMA StutterKeeps ==
  ASSUME RunInv, UNCHANGED vars
  PROVE  RunInv'
<1>1. UNCHANGED <<local, doc, clock, nextUuid, archive, phase, opts, snap, plan, stage, got,
                  modified, uiStale, edits, crashes, live, dragged, quiet>>
  BY DEF vars, syncVars, ghosts
<1>2. TypeOK'
  BY <1>1 DEF RunInv, TypeOK
<1>3. DocsKept /\ DocsFit'
  BY <1>1, Constants DEF DocsKept, DocsFit, RunInv, TypeOK
<1>4. stage' = "record" /\ Work # {} /\ Current.op \in Transfers =>
        /\ Bound(doc, EntryPath(Current), Current.kind, got.uuid)'
        /\ Current.op = "MoveRemote" => got'.uuid = Current.uuid
  <2>1. Current' = Current
    BY <1>1, SamePlan
  <2>2. QED
    BY <1>1, <2>1 DEF RunInv, RunShape, Bound, EntryPath
<1>5. phase # "run" \/ Work = {} => stage' = "effect"
  BY <1>1 DEF RunInv, RunShape
<1>6. QED
  BY <1>1, <1>2, <1>3, <1>4, <1>5, PlanKept

LEMMA StepKeeps == RunInv /\ [Next]_vars => RunInv'
<1> SUFFICES ASSUME RunInv, [Next]_vars PROVE RunInv'
  OBVIOUS
<1>1. CASE ExecuteStep
  <2>1. CASE UploadDocument \/ CopyOnDevice \/ UpdatePayload \/ TouchLastModified \/ MoveDocument
    BY <2>1, UploadKeeps, CopyOnDeviceKeeps, UpdatePayloadKeeps, TouchKeeps, MoveDocumentKeeps
  <2>2. CASE DownloadDocument \/ HashWritten \/ CopyLocally \/ RenameFile \/ DeleteEffect
    BY <2>2, DownloadKeeps, HashKeeps, CopyLocallyKeeps, RenameFileKeeps, DeleteKeeps
  <2>3. CASE RecordTransfer \/ RecordLocalMove \/ RecordDelete \/ ForgetEntry \/ RecordAgreement \/ RebindEntry
    BY <2>3, RecordTransferKeeps, RecordLocalMoveKeeps, RecordDeleteKeeps, ForgetKeeps, AgreementKeeps, RebindKeeps
  <2>4. QED
    BY <1>1, <2>1, <2>2, <2>3, FinishKeeps DEF ExecuteStep
<1>2. CASE UserStep
  <2>1. ASSUME NEW k \in Key, UserWrite(k) \/ UserTouch(k) \/ UserRemove(k) PROVE RunInv'
    BY <2>1, FolderUserKeeps
  <2>2. ASSUME NEW j \in Key, NEW k \in Key, UserRename(k, j) \/ UserCopy(k, j) PROVE RunInv'
    BY <2>2, FolderUserKeeps
  <2>3. ASSUME NEW u \in Uuid, TabletAnnotate(u) \/ TabletRemove(u) PROVE RunInv'
    BY <2>3, AnnotateKeeps, RemoveKeeps
  <2>4. QED
    BY <1>2, <2>1, <2>2, <2>3, CreateKeeps, TabletMoveKeeps DEF UserStep
<1>3. QED
  BY <1>1, <1>2, ScanKeeps, MakePlanKeeps, CrashKeeps, TornCrashKeeps, StutterKeeps DEF Next, SyncStep

\* ---------------------------------------------------------------------
\* Theorems.

\* Whatever the users do and wherever a run is interrupted, every action of a
\* plan is still one the code may carry out: it writes only to the side the mode
\* allows, its document has the kind it was planned for, actions have one order,
\* and every archive entry maps a document to a path that can hold it (make_plan,
\* execute, record_state_with).
THEOREM RunsAreSound == Spec => []RunInv
<1>1. QED
  BY InitFits, StepKeeps, PTL DEF Spec

\* The state of every run has its type: a plan finds a path for what it writes
\* and never runs out of the kinds, uuids and versions it knows.
THEOREM TypeCorrect == Spec => []TypeOK
<1>1. RunInv => TypeOK
  BY DEF RunInv
<1>2. QED
  BY <1>1, RunsAreSound, PTL

\* What a step of the sync changes of the documents and the files.
LEMMA SyncWrites ==
  ASSUME RunInv, Next, edits' = edits
  PROVE  /\ local' # local => Work # {} /\ Current.op \in LocalWrites /\ ActionFits(Current)
         /\ doc' # doc => Work # {} /\ Current.op \in RemoteWrites /\ ActionFits(Current)
<1>1. ~UserStep
  <2>1. edits + 1 # edits
    BY DEF RunInv, TypeOK
  <2>2. ~UserMay
    BY <2>1 DEF UserMay
  <2>3. ~FolderStep /\ ~TabletStep
    BY <2>2 DEF FolderStep, TabletStep
  <2>4. QED
    BY <2>3 DEF UserStep, UserWrite, UserTouch, UserRemove, UserRename, UserCopy,
                TabletCreate, TabletAnnotate, TabletRemove, TabletMove
<1>2. Work # {} => ActionFits(Current)
  BY CurrentIs DEF RunInv
<1>3. CASE ExecuteStep
  <2>1. CASE UploadDocument \/ CopyOnDevice \/ UpdatePayload \/ TouchLastModified \/ MoveDocument
    <3>1. Work # {} /\ Current.op \in RemoteWrites
      BY <2>1 DEF UploadDocument, CopyOnDevice, UpdatePayload, TouchLastModified, MoveDocument, At, RemoteWrites
    <3>2. local' = local
      BY <2>1 DEF UploadDocument, CopyOnDevice, UpdatePayload, TouchLastModified, MoveDocument,
                  RegisterDocument, WriteDoc, Fail
    <3>3. QED
      BY <1>2, <3>1, <3>2
  <2>2. CASE DownloadDocument \/ HashWritten \/ CopyLocally \/ RenameFile
    <3>1. Work # {} /\ Current.op \in LocalWrites
      BY <2>2 DEF DownloadDocument, HashWritten, CopyLocally, RenameFile, At, LocalWrites
    <3>2. doc' = doc
      BY <2>2 DEF DownloadDocument, HashWritten, CopyLocally, RenameFile, WriteLocal, Fail
    <3>3. QED
      BY <1>2, <3>1, <3>2
  <2>3. CASE DeleteEffect
    <3>1. Work # {} /\ Current.op \in {"DeleteRemote", "DeleteLocal"}
      BY <2>3 DEF DeleteEffect, At
    <3>2. /\ Current.op = "DeleteRemote" => local' = local
          /\ Current.op # "DeleteRemote" => doc' = doc
      BY <2>3 DEF DeleteEffect, WriteDoc
    <3>3. QED
      BY <1>2, <3>1, <3>2 DEF LocalWrites, RemoteWrites
  <2>4. CASE RecordTransfer \/ RecordLocalMove \/ RecordDelete \/ ForgetEntry \/ RecordAgreement \/ RebindEntry
    BY <2>4 DEF RecordTransfer, RecordLocalMove, RecordDelete, ForgetEntry, RecordAgreement,
                RebindEntry, Save, Fail
  <2>5. CASE Finish
    BY <2>5 DEF Finish
  <2>6. QED
    BY <1>3, <2>1, <2>2, <2>3, <2>4, <2>5 DEF ExecuteStep
<1>4. CASE TornCrash
  BY <1>2, <1>4 DEF TornCrash, At, WriteLocal, LocalWrites
<1>5. CASE MakePlan \/ Crash \/ \E o \in Options : Scan(o)
  BY <1>5 DEF MakePlan, Crash, Scan
<1>6. QED
  BY <1>1, <1>3, <1>4, <1>5 DEF Next, SyncStep

\* A push never writes, renames or deletes a file of the folder, a pull never a
\* document of the tablet: neither in a plan nor where one is interrupted or fails
\* (can_write_local and can_write_remote in make_plan, execute).
THEOREM SourceIsUntouched == Spec => SourceUntouched
<1>1. ASSUME RunInv, [Next]_vars
      PROVE  [/\ SyncTouches(local) => opts.mode # "Push"
              /\ SyncTouches(doc) => opts.mode # "Pull"]_vars
  <2>1. CASE UNCHANGED vars
    BY <2>1
  <2>2. CASE Next
    <3>1. SyncTouches(local) => CanWriteLocal(opts.mode)
      BY <1>1, <2>2, SyncWrites DEF SyncTouches, ActionFits
    <3>2. SyncTouches(doc) => CanWriteRemote(opts.mode)
      BY <1>1, <2>2, SyncWrites DEF SyncTouches, ActionFits
    <3>3. QED
      BY <3>1, <3>2 DEF CanWriteLocal, CanWriteRemote
  <2>3. QED
    BY <1>1, <2>1, <2>2
<1>2. QED
  BY <1>1, RunsAreSound, PTL DEF Spec, SourceUntouched

\* ---------------------------------------------------------------------
\* Deletions.

Deletions == {"DeleteRemote", "DeleteLocal"}

RebindFor(a, b) == a.op = "Rebind" /\ a.key = b.key /\ a.uuid = b.uuid

\* What a deletion deletes is in the archive, or will be once its document is
\* rebound.
Tracked(b) ==
  b.op \in Deletions =>
    /\ opts.delete
    /\ archive[b.key].mapped
    /\ b.op = "DeleteRemote" => archive[b.key].uuid = b.uuid \/ \E a \in Work : RebindFor(a, b)

\* No other action of the plan writes the entry a deletion relies on.
Apart(a, b) ==
  b.op \in Deletions /\ a # b /\ b.key \in {a.key, EntryPath(a)} =>
    b.op = "DeleteRemote" /\ RebindFor(a, b)

DeletesFit ==
  /\ \A b \in Work : Tracked(b)
  /\ \A a, b \in Work : Apart(a, b)

\* The actions of a plan by where they come from.
LEMMA PlanMembers ==
  ASSUME TypeOK, DocsFit, EntriesFit, NEW a \in MakeActions(opts, Start)
  PROVE  \/ a.op = "MoveRemote" /\ \E p \in PlanPairs :
              a.key = p.from /\ a.other = p.to /\ a.uuid = Start.state[p.from].uuid
         \/ a.op = "MoveLocal" /\ \E m \in PlanMoves :
              a.key = m.from /\ a.other = m.to /\ a.uuid = Rekeyed.state[m.from].uuid
         \/ a \in TableActions(opts, Seen) /\ TableFits(opts, Seen, a)
<1>1. CASE a \in {MoveRemote(Start, p) : p \in PlanPairs}
  <2>1. PICK p \in PlanPairs : a = MoveRemote(Start, p)
    BY <1>1
  <2>2. a.op = "MoveRemote" /\ a.key = p.from /\ a.other = p.to /\ a.uuid = Start.state[p.from].uuid
    BY <2>1, MadeMoves, ActFields
  <2>3. QED
    BY <2>2
<1>2. CASE a \in {MoveLocal(Rekeyed, m) : m \in PlanMoves}
  <2>1. PICK m \in PlanMoves : a = MoveLocal(Rekeyed, m)
    BY <1>2
  <2>2. a.op = "MoveLocal" /\ a.key = m.from /\ a.other = m.to /\ a.uuid = Rekeyed.state[m.from].uuid
    BY <2>1, MadeMoves, ActFields
  <2>3. QED
    BY <2>2
<1>3. CASE a \in TableActions(opts, Seen)
  <2>1. opts \in SyncOptions /\ SnapFits(Seen)
    BY PlanParts, SeenParts
  <2>2. \A b \in TableActions(opts, Seen) : TableFits(opts, Seen, b)
    BY <2>1, TableIsFit
  <2>3. QED
    BY <1>3, <2>2
<1>4. QED
  BY <1>1, <1>2, <1>3, PlanParts

\* A path no move of the plan touches has the entry of the archive.
LEMMA Unmoved ==
  ASSUME TypeOK, DocsFit, EntriesFit, NEW k \in Key,
         Seen.state[k].mapped, ViewDoc(Seen, k) = {} \/ ~Seen.local[k].present
  PROVE  /\ Seen.state[k] = archive[k]
         /\ ~\E m \in PlanMoves : k \in {m.from, m.to}
         /\ ~\E p \in PlanPairs : k \in {p.from, p.to}
<1>1. ASSUME HasDoc(Seen, Seen.state[k]), Seen.local[k].present PROVE FALSE
  BY <1>1 DEF ViewDoc
<1>2. ASSUME NEW m \in PlanMoves PROVE k # m.from
  BY <1>2, SeenParts, NoEntryFits
<1>3. ASSUME NEW m \in PlanMoves PROVE k # m.to
  <2> SUFFICES ASSUME k = m.to PROVE FALSE
    OBVIOUS
  <2>1. PICK n \in PlanMoves : n.to = k /\ Seen.state[k] = Stamped(Rekeyed.state[n.from], n.lm)
    BY SeenParts
  <2>2. Rekeyed.state[n.from] \in Entry /\ Rekeyed.state[n.from].mapped
        /\ Rekeyed.state[n.from].uuid \in Uuid /\ Rekeyed.doc[Rekeyed.state[n.from].uuid].present
    BY SeenParts
  <2>3. Seen.state[k].uuid = Rekeyed.state[n.from].uuid
    BY <2>1, <2>2 DEF Stamped, Entry
  <2>4. HasDoc(Seen, Seen.state[k]) /\ Seen.local[k].present
    BY <2>1, <2>2, <2>3, SeenParts DEF HasDoc
  <2>5. QED
    BY <1>1, <2>4
<1>4. Seen.state[k] = Rekeyed.state[k] /\ Seen.local[k] = Rekeyed.local[k]
  BY <1>2, <1>3, SeenParts
<1>5. ASSUME NEW p \in PlanPairs PROVE k # p.from
  <2> SUFFICES ASSUME k = p.from PROVE FALSE
    OBVIOUS
  <2>1. Rekeyed.state[p.from] = NoEntry
    BY RekeyedParts
  <2>2. QED
    BY <1>4, <2>1, NoEntryFits
<1>6. ASSUME NEW p \in PlanPairs PROVE k # p.to
  <2> SUFFICES ASSUME k = p.to PROVE FALSE
    OBVIOUS
  <2>1. /\ Rekeyed.state[k] = [Start.state[p.from] EXCEPT !.mtime = Start.local[k].mtime]
        /\ Start.state[p.from] \in Entry /\ Start.doc[Start.state[p.from].uuid].present
        /\ Start.state[p.from].uuid \in Uuid /\ Start.local[k].present
    BY RekeyedParts DEF MoveTarget, Bound
  <2>2. Seen.state[k].uuid = Start.state[p.from].uuid
    BY <1>4, <2>1 DEF Entry
  <2>3. Seen.doc = Start.doc /\ Seen.local[k] = Start.local[k]
    BY <1>4, SeenParts, RekeyedParts
  <2>4. Seen.doc[Seen.state[k].uuid].present /\ Seen.local[k].present
    BY <2>1, <2>2, <2>3
  <2>5. HasDoc(Seen, Seen.state[k])
    BY <2>1, <2>2, <2>4 DEF HasDoc
  <2>6. QED
    BY <1>1, <2>4, <2>5
<1>7. Rekeyed.state[k] = Start.state[k]
  BY <1>5, <1>6, RekeyedParts
<1>8. QED
  BY <1>2, <1>3, <1>4, <1>5, <1>6, <1>7, PlanParts

LEMMA DeletesPlanned ==
  ASSUME TypeOK, DocsFit, EntriesFit
  PROVE  LET A == MakeActions(opts, Start) IN
         /\ \A b \in A : b.op \in Deletions =>
              /\ opts.delete /\ archive[b.key].mapped
              /\ b.op = "DeleteRemote" => archive[b.key].uuid = b.uuid \/ \E a \in A : RebindFor(a, b)
         /\ \A a, b \in A : Apart(a, b)
<1> DEFINE A == MakeActions(opts, Start)
           T == TableActions(opts, Seen)
<1>1. opts \in SyncOptions /\ SnapFits(Seen) /\ T \subseteq A
  BY PlanParts, SeenParts
<1>2. ASSUME NEW b \in A, b.op \in Deletions
      PROVE  /\ b \in T /\ opts.delete /\ b.key \in Key /\ Seen.state[b.key].mapped
             /\ b.op = "DeleteRemote" => b.uuid \in ViewDoc(Seen, b.key) /\ ~Seen.local[b.key].present
             /\ b.op = "DeleteLocal" => ViewDoc(Seen, b.key) = {}
  <2>1. b \in T /\ TableFits(opts, Seen, b)
    BY <1>2, PlanMembers DEF Deletions
  <2>2. b.key \in Key
    BY <2>1 DEF TableFits, PlanAction
  <2>3. QED
    BY <1>2, <2>1, <2>2 DEF TableFits, Deletions, OfDocument, Ops, RemoteWrites
<1>3. ASSUME NEW b \in A, b.op \in Deletions
      PROVE  /\ Seen.state[b.key] = archive[b.key]
             /\ ~\E m \in PlanMoves : b.key \in {m.from, m.to}
             /\ ~\E p \in PlanPairs : b.key \in {p.from, p.to}
  BY <1>2, <1>3, Unmoved DEF Deletions
<1>4. ASSUME NEW b \in A, b.op = "DeleteRemote"
      PROVE  archive[b.key].uuid = b.uuid \/ \E a \in A : RebindFor(a, b)
  <2> DEFINE k == b.key
  <2>1. /\ k \in Key /\ Seen.state[k].mapped /\ Seen.state[k] = archive[k] /\ b.uuid \in ViewDoc(Seen, k)
    BY <1>2, <1>3, <1>4 DEF Deletions
  <2>2. CASE HasDoc(Seen, Seen.state[k])
    BY <2>1, <2>2 DEF ViewDoc
  <2>3. CASE ~HasDoc(Seen, Seen.state[k])
    <3>1. \E a \in T : a.op = "Rebind" /\ a.key = k /\ a.uuid = b.uuid
      BY <1>1, <2>1, <2>3, TableIsFit
    <3>2. QED
      BY <1>1, <3>1 DEF RebindFor
  <2>4. QED
    BY <2>2, <2>3
<1>5. ASSUME NEW a \in A, NEW b \in A, b.op \in Deletions, a # b, b.key \in {a.key, EntryPath(a)}
      PROVE  b.op = "DeleteRemote" /\ RebindFor(a, b)
  <2>1. a \in T /\ TableFits(opts, Seen, a) /\ a.op \notin {"MoveRemote", "MoveLocal"}
    <3>1. ~(a.op = "MoveRemote" /\ \E p \in PlanPairs : a.key = p.from /\ a.other = p.to)
      BY <1>3, <1>5 DEF EntryPath
    <3>2. ~(a.op = "MoveLocal" /\ \E m \in PlanMoves : a.key = m.from /\ a.other = m.to)
      BY <1>3, <1>5 DEF EntryPath
    <3>3. QED
      BY <3>1, <3>2, PlanMembers DEF TableFits
  <2>2. a.key = b.key
    BY <1>5, <2>1 DEF EntryPath, TableFits
  <2>3. a.op = "Rebind"
    <3>1. \A c, d \in T : c.key = d.key /\ c.op # "Rebind" /\ d.op # "Rebind" => c = d
      BY <1>1, TableIsFit
    <3>2. b \in T /\ b.op # "Rebind"
      BY <1>2, <1>5 DEF Deletions
    <3>3. QED
      BY <1>5, <2>1, <2>2, <3>1, <3>2
  <2>4. a.uuid \in ViewDoc(Seen, b.key)
    BY <2>1, <2>2, <2>3 DEF TableFits, OfDocument, Ops
  <2>5. b.op = "DeleteRemote" /\ b.uuid \in ViewDoc(Seen, b.key) /\ b.key \in Key
    BY <1>2, <1>5, <2>4 DEF Deletions
  <2>6. a.uuid = b.uuid
    BY <1>1, <2>4, <2>5, ViewFits
  <2>7. QED
    BY <2>2, <2>3, <2>5, <2>6 DEF RebindFor
<1> HIDE DEF A, T
<1>6. \A b \in A : b.op \in Deletions => opts.delete /\ archive[b.key].mapped
  BY <1>2, <1>3
<1>7. \A a, b \in A : Apart(a, b)
  BY <1>5 DEF Apart
<1>8. QED
  BY <1>4, <1>6, <1>7 DEF A

LEMMA DeletesStay ==
  ASSUME DeletesFit, UNCHANGED <<plan, archive, opts>>
  PROVE  DeletesFit'
<1>1. Work' = Work /\ archive' = archive /\ opts' = opts
  BY DEF Work
<1>2. QED
  BY <1>1 DEF DeletesFit, Tracked, Apart

LEMMA DeletesDone ==
  ASSUME plan' = {}
  PROVE  DeletesFit'
<1>1. Work' = {}
  BY DEF Work
<1>2. QED
  BY <1>1 DEF DeletesFit

LEMMA DeletesSaved ==
  ASSUME RunInv, DeletesFit, Work # {}, NEW entries, NEW remote, Save(entries, remote),
         \A k \in Key \ {Current.key, EntryPath(Current)} : entries[k] = archive[k],
         Current.op = "Rebind" /\ archive[Current.key].mapped
           => entries[Current.key].mapped /\ entries[Current.key].uuid = Current.uuid
  PROVE  DeletesFit'
<1>1. Work' = Work \ {Current} /\ archive' = entries /\ opts' = opts
  BY DEF Save, Work
<1>2. Current \in Work
  BY CurrentType DEF RunInv
<1>3. ASSUME NEW b \in Work \ {Current}, b.op \in Deletions
      PROVE  Tracked(b)'
  <2>1. b \in Work /\ b.key \in Key
    BY DEF RunInv, PlanFits, PlanAction, Work
  <2>2. Tracked(b) /\ Apart(Current, b) /\ Current # b
    BY <1>2, <2>1 DEF DeletesFit
  <2>3. opts.delete /\ archive[b.key].mapped
    BY <1>3, <2>2 DEF Tracked
  <2>4. CASE b.key \in {Current.key, EntryPath(Current)}
    <3>1. b.op = "DeleteRemote" /\ RebindFor(Current, b)
      BY <1>3, <2>2, <2>4 DEF Apart
    <3>2. entries[b.key].mapped /\ entries[b.key].uuid = b.uuid
      BY <2>3, <3>1 DEF RebindFor
    <3>3. QED
      BY <1>1, <2>3, <3>1, <3>2 DEF Tracked
  <2>5. CASE b.key \notin {Current.key, EntryPath(Current)}
    <3>1. entries[b.key] = archive[b.key]
      BY <2>1, <2>5
    <3>2. \A a \in Work : RebindFor(a, b) => a \in Work \ {Current}
      BY <2>5 DEF RebindFor
    <3>3. b.op = "DeleteRemote" => archive[b.key].uuid = b.uuid
                                     \/ \E a \in Work \ {Current} : RebindFor(a, b)
      BY <1>3, <2>2, <3>2 DEF Tracked
    <3>4. QED
      BY <1>1, <2>3, <3>1, <3>3 DEF Tracked
  <2>6. QED
    BY <2>4, <2>5
<1>4. \A b \in Work \ {Current} : Tracked(b)'
  BY <1>3 DEF Tracked
<1>5. \A a, b \in Work \ {Current} : Apart(a, b)
  BY DEF DeletesFit
<1>6. QED
  BY <1>1, <1>4, <1>5 DEF DeletesFit, Apart

\* What each save writes.
LEMMA SavedDeletes ==
  ASSUME RunInv, DeletesFit,
         RecordTransfer \/ RecordLocalMove \/ RecordDelete \/ ForgetEntry
           \/ RecordAgreement \/ RebindEntry
  PROVE  DeletesFit'
<1>0. Work # {}
  BY DEF RecordTransfer, RecordLocalMove, RecordDelete, ForgetEntry, RecordAgreement, RebindEntry, At
<1>1. Current.key \in Key /\ archive \in [Key -> Entry]
  BY <1>0, CurrentType DEF RunInv, TypeOK
<1>2. CASE RecordTransfer
  <2>1. Current.op # "Rebind" /\ (Current.op # "CopyLocal" => EntryPath(Current) = Current.other)
        /\ (Current.op = "CopyLocal" => EntryPath(Current) = Current.key)
    BY <1>2 DEF RecordTransfer, At, EntryPath
  <2>2. CASE Fail
    BY <2>2, DeletesDone DEF Fail, EndRun
  <2>3. CASE ~Fail
    <3>1. PICK path \in {EntryPath(Current)}, entry \in {Agreed(IF Current.op = "CopyLocal" THEN Current.key ELSE Current.other, Current.kind, got.uuid, got.lm, got.hash, PayloadOf(Current, got.hash))} :
            Save([archive EXCEPT ![Current.key] = NoEntry, ![path] = entry], Current.op \notin {"Download", "CopyLocal"})
      BY <1>2, <2>1, <2>3 DEF RecordTransfer
    <3> DEFINE entries == [archive EXCEPT ![Current.key] = NoEntry, ![path] = entry]
    <3>2. \A k \in Key \ {Current.key, EntryPath(Current)} : entries[k] = archive[k]
      BY <1>1, <3>1
    <3> HIDE DEF entries
    <3>3. QED
      BY <1>0, <2>1, <3>1, <3>2, DeletesSaved DEF entries
  <2>4. QED
    BY <2>2, <2>3
<1>3. CASE RecordLocalMove
  <2> DEFINE entries == [archive EXCEPT ![Current.other] = [archive[Current.key] EXCEPT !.lm = Current.lm],
                                        ![Current.key] = NoEntry]
  <2>1. Current.op # "Rebind" /\ EntryPath(Current) = Current.other /\ Save(entries, FALSE)
    BY <1>3 DEF RecordLocalMove, At, EntryPath
  <2>2. \A k \in Key \ {Current.key, EntryPath(Current)} : entries[k] = archive[k]
    BY <1>1, <2>1
  <2> HIDE DEF entries
  <2>3. FALSE \in BOOLEAN
    OBVIOUS
  <2>4. QED
    BY <1>0, <2>1, <2>2, DeletesSaved
<1>4. CASE RecordDelete \/ ForgetEntry
  <2> DEFINE entries == [archive EXCEPT ![Current.key] = NoEntry]
  <2>1. \A k \in Key \ {Current.key, EntryPath(Current)} : entries[k] = archive[k]
    BY <1>1
  <2>2. PICK remote \in BOOLEAN : Save(entries, remote)
    BY <1>4 DEF RecordDelete, ForgetEntry
  <2>3. Current.op # "Rebind"
    BY <1>4 DEF RecordDelete, ForgetEntry, At
  <2> HIDE DEF entries
  <2>4. QED
    BY <1>0, <2>1, <2>2, <2>3, DeletesSaved
<1>5. CASE RecordAgreement
  <2>1. CASE Fail
    BY <2>1, DeletesDone DEF Fail, EndRun
  <2>2. CASE ~Fail
    <3> DEFINE entry == Agreed(Current.key, Current.kind, Current.uuid, Current.lm, Current.hash, Current.payload)
               entries == [archive EXCEPT ![Current.key] = entry]
    <3>1. Save(entries, FALSE) /\ Current.op # "Rebind"
      BY <1>5, <2>2 DEF RecordAgreement, At
    <3>2. \A k \in Key \ {Current.key, EntryPath(Current)} : entries[k] = archive[k]
      BY <1>1
    <3> HIDE DEF entries
    <3>3. QED
      BY <1>0, <3>1, <3>2, DeletesSaved
  <2>3. QED
    BY <2>1, <2>2
<1>6. CASE RebindEntry
  <2> DEFINE entries == [archive EXCEPT ![Current.key] =
                 IF @.mapped THEN [@ EXCEPT !.uuid = Current.uuid, !.pending = TRUE] ELSE @]
  <2>1. Save(entries, TRUE)
    BY <1>6 DEF RebindEntry
  <2>2. \A k \in Key \ {Current.key, EntryPath(Current)} : entries[k] = archive[k]
    BY <1>1
  <2>3. archive[Current.key] \in Entry
    BY <1>1
  <2>4. archive[Current.key].mapped => entries[Current.key].mapped /\ entries[Current.key].uuid = Current.uuid
    BY <1>1, <2>3 DEF Entry
  <2> HIDE DEF entries
  <2>5. QED
    BY <1>0, <2>1, <2>2, <2>4, DeletesSaved
<1>7. QED
  BY <1>2, <1>3, <1>4, <1>5, <1>6

LEMMA DeletesKeep == RunInv /\ DeletesFit /\ RunInv' /\ [Next]_vars => DeletesFit'
<1> SUFFICES ASSUME RunInv, DeletesFit, [Next]_vars PROVE DeletesFit'
  OBVIOUS
<1>1. CASE UNCHANGED vars
  BY <1>1, DeletesStay DEF vars, syncVars
<1>2. CASE \E o \in Options : Scan(o)
  <2>1. plan' = plan /\ phase # "run"
    BY <1>2 DEF Scan
  <2>2. QED
    BY <2>1, DeletesDone DEF RunInv, RunShape
<1>3. CASE MakePlan
  <2>1. plan' = MakeActions(opts, Start) /\ archive' = archive /\ opts' = opts
    BY <1>3 DEF MakePlan, Start
  <2> DEFINE A == MakeActions(opts, Start)
  <2>2. /\ \A b \in A : b.op \in Deletions =>
              /\ opts.delete /\ archive[b.key].mapped
              /\ b.op = "DeleteRemote" => archive[b.key].uuid = b.uuid \/ \E a \in A : RebindFor(a, b)
        /\ \A a, b \in A : Apart(a, b)
    BY DeletesPlanned DEF RunInv
  <2> HIDE DEF A
  <2>3. Work' = {a \in A : a.op # "Conflict"}
    BY <2>1 DEF Work, A
  <2>4. \A a, b : RebindFor(a, b) => a.op # "Conflict"
    BY DEF RebindFor
  <2>5. \A b \in Work' : Tracked(b)'
    BY <2>1, <2>2, <2>3, <2>4 DEF Tracked
  <2>6. \A a, b \in Work' : Apart(a, b)
    BY <2>2, <2>3
  <2>7. QED
    BY <2>5, <2>6 DEF DeletesFit, Apart
<1>4. CASE UserStep \/ Crash \/ TornCrash
  <2>1. UNCHANGED <<plan, archive, opts>> \/ plan' = {}
    BY <1>4 DEF UserStep, Crash, TornCrash, Interrupted, EndRun, UserWrite, UserTouch, UserRemove,
         UserRename, UserCopy, FolderStep, TabletAnnotate, TabletRemove, TabletMove, TabletCreate,
         TabletStep, syncVars
  <2>2. QED
    BY <2>1, DeletesStay, DeletesDone
<1>5. CASE RecordTransfer \/ RecordLocalMove \/ RecordDelete \/ ForgetEntry
             \/ RecordAgreement \/ RebindEntry
  BY <1>5, SavedDeletes
<1>6. CASE UploadDocument \/ CopyOnDevice \/ UpdatePayload \/ TouchLastModified
             \/ DownloadDocument \/ HashWritten \/ CopyLocally \/ MoveDocument \/ RenameFile
             \/ DeleteEffect \/ Finish
  <2>1. UNCHANGED <<plan, archive, opts>> \/ plan' = {}
    BY <1>6 DEF UploadDocument, CopyOnDevice, RegisterDocument, UpdatePayload, TouchLastModified,
         DownloadDocument, HashWritten, CopyLocally, MoveDocument, RenameFile, DeleteEffect,
         Finish, Fail, EndRun, Advance
  <2>2. QED
    BY <2>1, DeletesStay, DeletesDone
<1>7. QED
  BY <1>1, <1>2, <1>3, <1>4, <1>5, <1>6 DEF Next, SyncStep, ExecuteStep

\* Only a deletion or the rename of a file takes anything away.
LEMMA NothingElseGoes ==
  ASSUME RunInv, Next, edits' = edits, ~DeleteEffect, ~RenameFile
  PROVE  /\ \A k \in Key : local[k].present => local'[k].present
         /\ \A u \in Uuid : doc[u].present => doc'[u].present
<1>0. local \in [Key -> LocalFile] /\ doc \in [Uuid -> Doc]
  BY DEF RunInv, TypeOK
<1>1. ~UserStep
  <2>1. UserStep => UserMay
    BY DEF UserStep, UserWrite, UserTouch, UserRemove, UserRename, UserCopy, FolderStep,
         TabletAnnotate, TabletRemove, TabletMove, TabletCreate, TabletStep
  <2>2. edits \in Nat
    BY Constants DEF RunInv, TypeOK
  <2>3. QED
    BY <2>1, <2>2 DEF UserMay
<1>2. ASSUME NEW u, NEW d, WriteDoc(u, d), d.present
      PROVE  local' = local /\ \A w \in Uuid : doc[w].present => doc'[w].present
  BY <1>0, <1>2 DEF WriteDoc
<1>3. ASSUME NEW k, NEW hash, WriteLocal(k, hash)
      PROVE  doc' = doc /\ \A j \in Key : local[j].present => local'[j].present
  BY <1>0, <1>3 DEF WriteLocal
<1>4. CASE UNCHANGED <<local, doc>>
  BY <1>4
<1>5. CASE UploadDocument \/ CopyOnDevice
  <2>1. ASSUME NEW k, NEW kind, NEW payload, RegisterDocument(k, kind, payload)
        PROVE  local' = local /\ \A w \in Uuid : doc[w].present => doc'[w].present
    BY <1>2, <2>1 DEF RegisterDocument
  <2>2. Fail => UNCHANGED <<local, doc>>
    BY DEF Fail
  <2>3. UploadDocument => Fail \/ \E k, kind, payload : RegisterDocument(k, kind, payload)
    BY DEF UploadDocument
  <2>4. CopyOnDevice => Fail \/ \E k, kind, payload : RegisterDocument(k, kind, payload)
    BY DEF CopyOnDevice
  <2>5. QED
    BY <1>4, <1>5, <2>1, <2>2, <2>3, <2>4
<1>6. CASE UpdatePayload \/ TouchLastModified \/ MoveDocument
  <2>1. UNCHANGED <<local, doc>> \/ \E u, d : WriteDoc(u, d) /\ d.present
    <3>1. CASE Current.uuid \in Uuid
      <4>1. doc[Current.uuid] \in Doc
        BY <1>0, <3>1
      <4> DEFINE u == Current.uuid
                 lm == clock["tablet"] + 1
                 d1 == [doc[u] EXCEPT !.payload = local[Current.key].hash]
                 d2 == [doc[u] EXCEPT !.lm = lm]
                 d3 == [doc[u] EXCEPT !.target = Target(Current.other), !.lm = lm]
      <4>2. d1.present = doc[u].present /\ d2.present = doc[u].present /\ d3.present = doc[u].present
        BY <4>1 DEF Doc
      <4>3. UpdatePayload => UNCHANGED <<local, doc>> \/ (doc[u].present /\ WriteDoc(u, d1))
        BY DEF UpdatePayload, Fail
      <4>4. TouchLastModified => UNCHANGED <<local, doc>> \/ (doc[u].present /\ WriteDoc(u, d2))
        BY DEF TouchLastModified, Fail
      <4>5. MoveDocument => UNCHANGED <<local, doc>> \/ (doc[u].present /\ WriteDoc(u, d3))
        BY DEF MoveDocument, Fail
      <4> HIDE DEF d1, d2, d3, u
      <4>6. QED
        BY <1>6, <4>2, <4>3, <4>4, <4>5
    <3>2. CASE Current.uuid \notin Uuid
      <4>1. Work # {} /\ Current.op \in {"UpdateRemote", "MoveRemote"}
        BY <1>6 DEF UpdatePayload, TouchLastModified, MoveDocument, At
      <4>2. ActionFits(Current)
        BY <4>1, CurrentType DEF RunInv
      <4>3. QED
        BY <3>2, <4>1, <4>2 DEF ActionFits, OfDocument, Ops, RemoteWrites
    <3>3. QED
      BY <3>1, <3>2
  <2>2. QED
    BY <1>2, <1>4, <2>1
<1>7. CASE DownloadDocument \/ CopyLocally \/ TornCrash
  <2>1. UNCHANGED <<local, doc>> \/ \E k, hash : WriteLocal(k, hash)
    BY <1>7 DEF DownloadDocument, CopyLocally, TornCrash, Fail
  <2>2. QED
    BY <1>3, <1>4, <2>1
<1>8. CASE \/ HashWritten \/ RecordTransfer \/ RecordLocalMove \/ RecordDelete \/ ForgetEntry
           \/ RecordAgreement \/ RebindEntry \/ Finish \/ MakePlan \/ Crash
           \/ \E o \in Options : Scan(o)
  <2>1. UNCHANGED <<local, doc>>
    BY <1>8 DEF HashWritten, RecordTransfer, RecordLocalMove, RecordDelete, ForgetEntry,
         RecordAgreement, RebindEntry, Save, Finish, MakePlan, Crash, Scan, Fail
  <2>2. QED
    BY <1>4, <2>1
<1>9. QED
  BY <1>1, <1>5, <1>6, <1>7, <1>8 DEF Next, SyncStep, ExecuteStep

\* Only a --delete run deletes, and only what the archive tracks (README.md:126):
\* no sync step removes a file whose path is not in the archive, or a document
\* whose uuid is not, whatever the users did since the plan was made.
THEOREM OnlyTrackedIsDeleted == Spec => DeletesOnlyTracked
<1> DEFINE Step == edits' = edits =>
       /\ \A k \in Key : local[k].present /\ ~local'[k].present
            => archive[k].mapped /\ (opts.delete \/ Current.op = "MoveLocal")
       /\ \A u \in Uuid : doc[u].present /\ ~doc'[u].present
            => opts.delete /\ \E k \in Key : archive[k].mapped /\ archive[k].uuid = u
<1>1. Init => DeletesFit
  BY DEF Init, DeletesFit, Work
<1>2. Spec => []DeletesFit
  BY <1>1, DeletesKeep, RunsAreSound, PTL DEF Spec
<1>3. ASSUME RunInv, DeletesFit, [Next]_vars
      PROVE  [Step]_vars
  <2> SUFFICES ASSUME Next, edits' = edits
               PROVE  /\ \A k \in Key : local[k].present /\ ~local'[k].present
                           => archive[k].mapped /\ (opts.delete \/ Current.op = "MoveLocal")
                      /\ \A u \in Uuid : doc[u].present /\ ~doc'[u].present
                           => opts.delete /\ \E k \in Key : archive[k].mapped /\ archive[k].uuid = u
    BY <1>3
  <2>0. local \in [Key -> LocalFile] /\ doc \in [Uuid -> Doc]
    BY <1>3 DEF RunInv, TypeOK
  <2>1. CASE local' = local /\ doc' = doc
    BY <2>1
  <2>2. CASE DeleteEffect
    <3>1. /\ Work # {} /\ Current.op \in Deletions
          /\ Current.op = "DeleteLocal" => local' = [local EXCEPT ![Current.key] = NoFile] /\ doc' = doc
          /\ Current.op = "DeleteRemote" => doc' = [doc EXCEPT ![Current.uuid] = NoDoc] /\ local' = local
      BY <2>2 DEF DeleteEffect, At, Deletions, WriteDoc
    <3>2. /\ Current \in Work /\ Current.key \in Key
          /\ \A b \in Work \ {Current} : Before(Current, b)
      BY <1>3, <3>1, CurrentIs, CurrentType DEF RunInv
    <3>3. Tracked(Current)
      BY <1>3, <3>2 DEF DeletesFit
    <3>4. opts.delete /\ archive[Current.key].mapped
      BY <3>1, <3>3 DEF Tracked
    <3>5. CASE Current.op = "DeleteLocal"
      BY <2>0, <3>1, <3>4, <3>5
    <3>6. CASE Current.op = "DeleteRemote"
      <4>1. ASSUME NEW a \in Work, RebindFor(a, Current) PROVE FALSE
        <5>1. a.op = "Rebind" /\ a # Current
          BY <3>6, <4>1 DEF RebindFor
        <5>2. Before(Current, a)
          BY <3>2, <5>1
        <5>3. QED
          BY <3>6, <5>1, <5>2 DEF Before, Rank
      <4>2. archive[Current.key].uuid = Current.uuid
        BY <3>3, <3>6, <4>1 DEF Tracked, Deletions
      <4>3. \A u \in Uuid : doc[u].present /\ ~doc'[u].present => u = Current.uuid
        BY <2>0, <3>1, <3>6
      <4>4. QED
        BY <3>1, <3>2, <3>4, <3>6, <4>2, <4>3
    <3>7. QED
      BY <3>1, <3>5, <3>6 DEF Deletions
  <2>3. CASE RenameFile
    <3>1. CASE Fail
      BY <2>1, <3>1 DEF Fail
    <3>2. CASE ~Fail
      <4>1. /\ Work # {} /\ Current.op = "MoveLocal" /\ archive[Current.key].mapped
            /\ local[Current.key].present
            /\ local' = [local EXCEPT ![Current.other] = local[Current.key], ![Current.key] = NoFile]
            /\ doc' = doc
        BY <2>3, <3>2 DEF RenameFile, At
      <4>2. Current.key \in Key /\ Current.other \in Key
        BY <1>3, <4>1, CurrentType DEF RunInv
      <4>3. \A k \in Key : local[k].present /\ ~local'[k].present => k = Current.key
        BY <2>0, <4>1, <4>2
      <4>4. QED
        BY <4>1, <4>3
    <3>3. QED
      BY <3>1, <3>2
  <2>4. QED
    BY <1>3, <2>2, <2>3, NothingElseGoes
<1>4. QED
  BY <1>2, <1>3, RunsAreSound, PTL DEF Spec, DeletesOnlyTracked

\* ---------------------------------------------------------------------
\* One entry per document.  Users leave a running plan alone (QuietRuns):
\* section 6 of the README has what happens otherwise.

MappedOnceIn(entries) ==
  \A j, k \in Key : entries[j].mapped /\ entries[k].mapped /\ entries[j].uuid = entries[k].uuid => j = k

\* Actions that write an entry for a document the plan knew, and those that
\* move one to another path first.
Binders == Agreements \cup {"Rebind", "UpdateRemote", "Download", "CopyLocal"}
Movers  == {"MoveRemote", "MoveLocal"}

\* Two actions for one document.
PairOnce(a, b) ==
  a.uuid = b.uuid =>
    /\ a.op \in Binders /\ b.op \in Binders => a.key = b.key
    /\ a.op \in Movers /\ b.op = a.op => a = b
    /\ a.op \in Movers => b.op # "Rebind"
    /\ a.op = "MoveLocal" /\ b.op \in Binders => a.other = b.key
    /\ a.op = "MoveRemote" /\ b.op = "MoveLocal" => a.other = b.key

\* The document is moved to the path of its other action, if need be by two moves.
ReachesIn(work, a, b) ==
  a.op = "MoveRemote" /\ b.op \in Binders /\ a.uuid = b.uuid =>
    \/ a.other = b.key
    \/ \E m \in work : m.op = "MoveLocal" /\ m.uuid = a.uuid /\ m.key = a.other

\* What is agreed on before the moves is where the file is.
WaitsFor(a, b) ==
  a.op \in Movers /\ b.op \in Agreements /\ a.uuid = b.uuid => ~local[b.key].present

\* The entry of a's document is at its path, or is still to be moved.
PlacedIn(work, entries, a) ==
  a.op \in Binders \cup Movers =>
    \A j \in Key : entries[j].mapped /\ entries[j].uuid = a.uuid =>
      \/ j = a.key
      \/ a.op \in Binders /\ \E m \in work : m.op \in Movers /\ m.uuid = a.uuid /\ m.key = j
      \/ a.op = "MoveLocal" /\ \E m \in work : m.op = "MoveRemote" /\ m.uuid = a.uuid /\ m.key = j

\* What the effect returned: the action's document, or one that nothing has yet.
GotFits ==
  stage = "record" /\ Work # {} =>
    /\ Current.op \in {"UpdateRemote", "Download", "CopyLocal", "MoveRemote"} => got.uuid = Current.uuid
    /\ Current.op \in {"Upload", "CopyRemote"} =>
         /\ \A j \in Key : archive[j].mapped => archive[j].uuid # got.uuid
         /\ \A a \in Work : a.op \in Binders \cup Movers => a.uuid # got.uuid

\* The folder rests between its listing and the plan.
ListedFilesAreThere == phase = "scanned" => \A k \in Key : snap[k].present = local[k].present

PlanOnce ==
  /\ \A a, b \in Work : PairOnce(a, b)
  /\ \A a, b \in Work : ReachesIn(Work, a, b)
  /\ \A a, b \in Work : WaitsFor(a, b)
  /\ \A a \in Work : PlacedIn(Work, archive, a)

OnceInv == MappedOnce /\ PlanOnce /\ GotFits /\ ListedFilesAreThere

LEMMA MappedOnceIs == MappedOnce <=> MappedOnceIn(archive)
BY DEF MappedOnce, MappedOnceIn

\* Re-keying keeps one entry per document.
LEMMA RekeyedOnce ==
  ASSUME TypeOK, DocsFit, EntriesFit, MappedOnce
  PROVE  /\ MappedOnceIn(Start.state) /\ MappedOnceIn(Rekeyed.state)
         /\ \A p \in PlanPairs : /\ Rekeyed.state[p.to].mapped
                                 /\ Rekeyed.state[p.to].uuid = Start.state[p.from].uuid
                                 /\ Start.state[p.from].mapped /\ ~Start.state[p.to].mapped
<1>1. MappedOnceIn(Start.state)
  BY PlanParts, MappedOnceIs
<1>2. ASSUME NEW p \in PlanPairs
      PROVE  /\ Rekeyed.state[p.to].mapped /\ Rekeyed.state[p.to].uuid = Start.state[p.from].uuid
             /\ Start.state[p.from].mapped /\ ~Start.state[p.to].mapped
             /\ ~Rekeyed.state[p.from].mapped /\ p.from \in Key /\ p.to \in Key
  <2>1. /\ Rekeyed.state[p.to] = [Start.state[p.from] EXCEPT !.mtime = Start.local[p.to].mtime]
        /\ Rekeyed.state[p.from] = NoEntry
        /\ Start.state[p.from] \in Entry
        /\ MoveSource(Start, p.from) /\ MoveTarget(Start, p.to)
        /\ p.from \in Key /\ p.to \in Key
    BY RekeyedParts
  <2>2. Rekeyed.state[p.to].mapped = Start.state[p.from].mapped /\ Rekeyed.state[p.to].uuid = Start.state[p.from].uuid
    BY <2>1 DEF Entry
  <2>3. QED
    BY <2>1, <2>2, NoEntryFits DEF MoveSource, MoveTarget
<1>3. Injective(PlanPairs)
  BY PlanParts, RemoteMovesMatch DEF Injective
<1>4. ASSUME NEW k \in Key, Rekeyed.state[k].mapped
      PROVE  \/ Rekeyed.state[k] = Start.state[k]
             \/ \E p \in PlanPairs : p.to = k
  BY <1>2, <1>4, RekeyedParts
<1>5. ASSUME NEW j \in Key, NEW k \in Key, Rekeyed.state[j].mapped, Rekeyed.state[k].mapped,
             Rekeyed.state[j].uuid = Rekeyed.state[k].uuid, Rekeyed.state[j] = Start.state[j]
      PROVE  j = k
  <2>1. CASE Rekeyed.state[k] = Start.state[k]
    BY <1>1, <1>5, <2>1 DEF MappedOnceIn
  <2>2. ASSUME NEW p \in PlanPairs, p.to = k PROVE FALSE
    <3>1. Start.state[j].mapped /\ Start.state[j].uuid = Start.state[p.from].uuid
      BY <1>2, <1>5, <2>2
    <3>2. j = p.from
      BY <1>1, <1>2, <3>1 DEF MappedOnceIn
    <3>3. QED
      BY <1>2, <1>5, <3>2
  <2>3. QED
    BY <1>4, <1>5, <2>1, <2>2
<1>6. ASSUME NEW p \in PlanPairs, NEW q \in PlanPairs, Rekeyed.state[p.to].uuid = Rekeyed.state[q.to].uuid
      PROVE  p.to = q.to
  <2>1. p.from = q.from
    BY <1>1, <1>2, <1>6 DEF MappedOnceIn
  <2>2. QED
    BY <1>3, <2>1 DEF Injective
<1>7. MappedOnceIn(Rekeyed.state)
  <2> SUFFICES ASSUME NEW j \in Key, NEW k \in Key, Rekeyed.state[j].mapped, Rekeyed.state[k].mapped,
                      Rekeyed.state[j].uuid = Rekeyed.state[k].uuid
               PROVE  j = k
    BY DEF MappedOnceIn
  <2>1. CASE Rekeyed.state[j] = Start.state[j]
    BY <1>5, <2>1
  <2>2. CASE Rekeyed.state[k] = Start.state[k]
    BY <1>5, <2>2
  <2>3. CASE (\E p \in PlanPairs : p.to = j) /\ (\E q \in PlanPairs : q.to = k)
    BY <1>6, <2>3
  <2>4. QED
    BY <1>4, <2>1, <2>2, <2>3
<1>8. QED
  BY <1>1, <1>2, <1>7

\* Following a document keeps one entry per document too, and puts the entry of
\* every move at its end.
LEMMA SeenOnce ==
  ASSUME TypeOK, DocsFit, EntriesFit, MappedOnce
  PROVE  /\ MappedOnceIn(Seen.state)
         /\ \A m \in PlanMoves : /\ Seen.state[m.to].mapped
                                 /\ Seen.state[m.to].uuid = Rekeyed.state[m.from].uuid
         /\ \A k \in Key : Seen.state[k].mapped =>
              Seen.state[k] = Rekeyed.state[k] \/ \E m \in PlanMoves : m.to = k
<1>0. MappedOnceIn(Rekeyed.state) /\ SnapFits(Rekeyed)
  BY RekeyedOnce, RekeyedParts
<1>1. ASSUME NEW m \in PlanMoves, NEW n \in PlanMoves, m.to = n.to PROVE m = n
  <2> DEFINE u == Rekeyed.state[m.from].uuid
             w == Rekeyed.state[n.from].uuid
  <2>1. /\ u \in Uuid /\ w \in Uuid /\ Rekeyed.doc[u].present /\ Rekeyed.doc[w].present
        /\ Rekeyed.state[m.from].mapped /\ Rekeyed.state[n.from].mapped
        /\ m.from \in Key /\ n.from \in Key
    BY SeenParts
  <2>2. m.to = LocalRelPath(Rekeyed.doc[u]) /\ n.to = LocalRelPath(Rekeyed.doc[w])
    BY PlanParts DEF LocalMoves
  <2> HIDE DEF u, w
  <2>3. Rekeyed.doc[u].target = Target(m.to) /\ Rekeyed.doc[w].target = Target(n.to)
    BY <1>0, <2>1, <2>2, PathOfDocument DEF SnapFits
  <2>4. u = w
    BY <1>0, <1>1, <2>1, <2>3 DEF SnapFits
  <2>5. m.from = n.from
    BY <1>0, <2>1, <2>4 DEF MappedOnceIn, u, w
  <2>6. QED
    BY <2>5, SeenParts
<1>2. ASSUME NEW m \in PlanMoves
      PROVE  /\ m.from \in Key /\ m.to \in Key
             /\ Seen.state[m.to].mapped /\ Seen.state[m.to].uuid = Rekeyed.state[m.from].uuid
             /\ Rekeyed.state[m.from].mapped
             /\ ~Seen.state[m.from].mapped
  <2>1. m.from \in Key /\ m.to \in Key /\ Rekeyed.state[m.from] \in Entry /\ Rekeyed.state[m.from].mapped
        /\ Seen.state[m.from] = NoEntry
    BY SeenParts
  <2>2. PICK n \in PlanMoves : n.to = m.to /\ Seen.state[m.to] = Stamped(Rekeyed.state[n.from], n.lm)
    BY <2>1, SeenParts
  <2>3. n = m
    BY <1>1, <2>2
  <2>4. QED
    BY <2>1, <2>2, <2>3, NoEntryFits DEF Stamped, Entry
<1>3. ASSUME NEW k \in Key, Seen.state[k].mapped
      PROVE  Seen.state[k] = Rekeyed.state[k] \/ \E m \in PlanMoves : m.to = k
  BY <1>2, <1>3, SeenParts
<1>4. ASSUME NEW j \in Key, NEW k \in Key, Seen.state[j].mapped, Seen.state[k].mapped,
             Seen.state[j].uuid = Seen.state[k].uuid, Seen.state[j] = Rekeyed.state[j]
      PROVE  j = k
  <2>1. CASE Seen.state[k] = Rekeyed.state[k]
    BY <1>0, <1>4, <2>1 DEF MappedOnceIn
  <2>2. ASSUME NEW m \in PlanMoves, m.to = k PROVE FALSE
    <3>1. Rekeyed.state[j].mapped /\ Rekeyed.state[j].uuid = Rekeyed.state[m.from].uuid
      BY <1>2, <1>4, <2>2
    <3>2. j = m.from
      BY <1>0, <1>2, <3>1 DEF MappedOnceIn
    <3>3. QED
      BY <1>2, <1>4, <3>2
  <2>3. QED
    BY <1>3, <1>4, <2>1, <2>2
<1>5. ASSUME NEW m \in PlanMoves, NEW n \in PlanMoves, Seen.state[m.to].uuid = Seen.state[n.to].uuid
      PROVE  m.to = n.to
  <2>1. m.from = n.from
    BY <1>0, <1>2, <1>5 DEF MappedOnceIn
  <2>2. QED
    BY <2>1, SeenParts
<1>6. MappedOnceIn(Seen.state)
  <2> SUFFICES ASSUME NEW j \in Key, NEW k \in Key, Seen.state[j].mapped, Seen.state[k].mapped,
                      Seen.state[j].uuid = Seen.state[k].uuid
               PROVE  j = k
    BY DEF MappedOnceIn
  <2>1. CASE Seen.state[j] = Rekeyed.state[j]
    BY <1>4, <2>1
  <2>2. CASE Seen.state[k] = Rekeyed.state[k]
    BY <1>4, <2>2
  <2>3. CASE (\E m \in PlanMoves : m.to = j) /\ (\E n \in PlanMoves : n.to = k)
    BY <1>5, <2>3
  <2>4. QED
    BY <1>3, <2>1, <2>2, <2>3
<1>7. QED
  BY <1>2, <1>3, <1>6

LEMMA MappedView ==
  ASSUME NEW v, MappedOnceIn(v.state), NEW k \in Key, NEW u \in ViewDoc(v, k)
  PROVE  /\ \A j \in Key : v.state[j].mapped /\ v.state[j].uuid = u => j = k
         /\ Mapped(v, u) => v.state[k].mapped /\ HasDoc(v, v.state[k])
<1>1. CASE v.state[k].mapped /\ HasDoc(v, v.state[k])
  BY <1>1 DEF ViewDoc, MappedOnceIn
<1>2. CASE ~(v.state[k].mapped /\ HasDoc(v, v.state[k]))
  <2>1. ~Mapped(v, u)
    BY <1>2 DEF ViewDoc, Claims, Wants, Successor
  <2>2. QED
    BY <2>1 DEF Mapped
<1>3. QED
  BY <1>1, <1>2

\* No two paths see one document: of those that want a successor the first has it.
LEMMA ViewsApart ==
  ASSUME NEW v, MappedOnceIn(v.state),
         NEW j \in Key, NEW k \in Key, NEW u \in ViewDoc(v, j), u \in ViewDoc(v, k)
  PROVE  j = k
<1>1. CASE Mapped(v, u)
  BY <1>1, MappedView DEF Mapped
<1>2. CASE ~Mapped(v, u)
  <2>1. ASSUME NEW i \in Key, u \in ViewDoc(v, i)
        PROVE  \/ Claims(v, i, u)
               \/ LocalRelPath(v.doc[u]) = i /\ ~\E h \in Key : Wants(v, h, u)
    <3>1. CASE v.state[i].mapped /\ HasDoc(v, v.state[i])
      <4>1. u = v.state[i].uuid
        BY <2>1, <3>1 DEF ViewDoc
      <4>2. QED
        BY <1>2, <3>1, <4>1 DEF Mapped
    <3>2. CASE ~(v.state[i].mapped /\ HasDoc(v, v.state[i]))
      BY <2>1, <3>2 DEF ViewDoc
    <3>3. QED
      BY <3>1, <3>2
  <2>2. \A i \in Key : Claims(v, i, u) => Wants(v, i, u) /\ \A h \in Key : Wants(v, h, u) => ~(h < i)
    BY DEF Claims
  <2>3. j < k \/ k < j \/ j = k
    BY Constants
  <2>4. QED
    BY <2>1, <2>2, <2>3
<1>3. QED
  BY <1>1, <1>2

\* The three ways an action of a plan comes by its document.
LEMMA PlannedFor ==
  ASSUME TypeOK, DocsFit, EntriesFit, MappedOnce, NEW a \in MakeActions(opts, Start)
  PROVE  /\ a.op = "MoveRemote" => \E p \in PlanPairs :
              a = MoveRemote(Start, p) /\ a.key = p.from /\ a.other = p.to /\ a.uuid = Start.state[p.from].uuid
         /\ a.op = "MoveLocal" => \E m \in PlanMoves :
              a = MoveLocal(Rekeyed, m) /\ a.key = m.from /\ a.other = m.to /\ a.uuid = Rekeyed.state[m.from].uuid
         /\ a.op \in Binders => /\ a.key \in Key /\ a.uuid \in ViewDoc(Seen, a.key)
                                /\ TableFits(opts, Seen, a)
<1>1. CASE a \in {MoveRemote(Start, p) : p \in PlanPairs}
  <2>1. PICK p \in PlanPairs : a = MoveRemote(Start, p)
    BY <1>1
  <2>2. a.op = "MoveRemote" /\ a.key = p.from /\ a.other = p.to /\ a.uuid = Start.state[p.from].uuid
    BY <2>1, MadeMoves, ActFields
  <2>3. QED
    BY <2>1, <2>2 DEF Binders, Agreements
<1>2. CASE a \in {MoveLocal(Rekeyed, m) : m \in PlanMoves}
  <2>1. PICK m \in PlanMoves : a = MoveLocal(Rekeyed, m)
    BY <1>2
  <2>2. a.op = "MoveLocal" /\ a.key = m.from /\ a.other = m.to /\ a.uuid = Rekeyed.state[m.from].uuid
    BY <2>1, MadeMoves, ActFields
  <2>3. QED
    BY <2>1, <2>2 DEF Binders, Agreements
<1>3. CASE a \in TableActions(opts, Seen)
  <2>1. opts \in SyncOptions /\ SnapFits(Seen)
    BY PlanParts, SeenParts
  <2>2. \A b \in TableActions(opts, Seen) : TableFits(opts, Seen, b)
    BY <2>1, TableIsFit
  <2>3. TableFits(opts, Seen, a)
    BY <1>3, <2>2
  <2>4. a.op \in Binders => a.op \in OfDocument \ {"CopyRemote"}
    BY DEF Binders, Agreements, OfDocument, Ops, LocalWrites, RemoteWrites
  <2>5. QED
    BY <2>3, <2>4 DEF TableFits, PlanAction
<1>4. QED
  BY <1>1, <1>2, <1>3, PlanParts

LEMMA PlanMovesMake ==
  ASSUME TypeOK, DocsFit, EntriesFit
  PROVE  LET A == MakeActions(opts, Start) IN
         /\ \A p \in PlanPairs : \E a \in A :
              a.op = "MoveRemote" /\ a.key = p.from /\ a.other = p.to /\ a.uuid = Start.state[p.from].uuid
         /\ \A m \in PlanMoves : \E a \in A :
              a.op = "MoveLocal" /\ a.key = m.from /\ a.other = m.to /\ a.uuid = Rekeyed.state[m.from].uuid
<1>1. ASSUME NEW p \in PlanPairs
      PROVE  /\ MoveRemote(Start, p) \in MakeActions(opts, Start)
             /\ MoveRemote(Start, p).op = "MoveRemote" /\ MoveRemote(Start, p).key = p.from
             /\ MoveRemote(Start, p).other = p.to /\ MoveRemote(Start, p).uuid = Start.state[p.from].uuid
  BY PlanParts, MadeMoves, ActFields
<1>2. ASSUME NEW m \in PlanMoves
      PROVE  /\ MoveLocal(Rekeyed, m) \in MakeActions(opts, Start)
             /\ MoveLocal(Rekeyed, m).op = "MoveLocal" /\ MoveLocal(Rekeyed, m).key = m.from
             /\ MoveLocal(Rekeyed, m).other = m.to /\ MoveLocal(Rekeyed, m).uuid = Rekeyed.state[m.from].uuid
  BY PlanParts, MadeMoves, ActFields
<1>3. QED
  BY <1>1, <1>2

\* Where the table sees the document of a move.
LEMMA MovedSeen ==
  ASSUME TypeOK, DocsFit, EntriesFit, MappedOnce
  PROVE  \A p \in PlanPairs :
           \/ \E m \in PlanMoves : m.from = p.to /\ Rekeyed.state[m.from].uuid = Start.state[p.from].uuid
           \/ /\ Seen.state[p.to] = Rekeyed.state[p.to] /\ Seen.local[p.to] = Rekeyed.local[p.to]
              /\ Seen.state[p.to].mapped /\ Seen.state[p.to].uuid = Start.state[p.from].uuid
<1> SUFFICES ASSUME NEW p \in PlanPairs, ~\E m \in PlanMoves : m.from = p.to
             PROVE  /\ Seen.state[p.to] = Rekeyed.state[p.to] /\ Seen.local[p.to] = Rekeyed.local[p.to]
                    /\ Seen.state[p.to].mapped /\ Seen.state[p.to].uuid = Start.state[p.from].uuid
  BY RekeyedOnce
<1>1. p.to \in Key /\ Rekeyed.state[p.to].mapped /\ Rekeyed.state[p.to].uuid = Start.state[p.from].uuid
  BY RekeyedOnce, RekeyedParts
<1>2. ~\E m \in PlanMoves : m.to = p.to
  BY <1>1, SeenParts
<1>3. QED
  BY <1>1, <1>2, SeenParts

LEMMA PlannedPairsOnce ==
  ASSUME TypeOK, DocsFit, EntriesFit, MappedOnce,
         NEW a \in MakeActions(opts, Start), NEW b \in MakeActions(opts, Start)
  PROVE  /\ PairOnce(a, b)
         /\ ReachesIn(MakeActions(opts, Start), a, b)
<1> DEFINE A == MakeActions(opts, Start)
<1>1. MappedOnceIn(Start.state) /\ MappedOnceIn(Rekeyed.state) /\ MappedOnceIn(Seen.state) /\ SnapFits(Seen)
  BY RekeyedOnce, SeenOnce, SeenParts
<1>2. ASSUME a.op \in Binders, b.op \in Binders, a.uuid = b.uuid PROVE a.key = b.key
  <2>1. /\ a.key \in Key /\ b.key \in Key
        /\ a.uuid \in ViewDoc(Seen, a.key) /\ a.uuid \in ViewDoc(Seen, b.key)
    BY <1>2, PlannedFor
  <2>2. QED
    BY <1>1, <2>1, ViewsApart
<1>3. ASSUME a.op = "MoveRemote", b.op = "MoveRemote", a.uuid = b.uuid PROVE a = b
  <2>1. PICK p \in PlanPairs : a = MoveRemote(Start, p) /\ a.uuid = Start.state[p.from].uuid
    BY <1>3, PlannedFor
  <2>2. PICK q \in PlanPairs : b = MoveRemote(Start, q) /\ b.uuid = Start.state[q.from].uuid
    BY <1>3, PlannedFor
  <2>3. /\ p.from \in Key /\ q.from \in Key
        /\ Start.state[p.from].mapped /\ Start.state[q.from].mapped
    BY RekeyedOnce, RekeyedParts
  <2>4. p.from = q.from
    BY <1>1, <1>3, <2>1, <2>2, <2>3 DEF MappedOnceIn
  <2>5. p = q
    BY <2>4, PlanParts, RemoteMovesMatch DEF Injective
  <2>6. QED
    BY <2>1, <2>2, <2>5
<1>4. ASSUME a.op = "MoveLocal", b.op = "MoveLocal", a.uuid = b.uuid PROVE a = b
  <2>1. PICK m \in PlanMoves : a = MoveLocal(Rekeyed, m) /\ a.uuid = Rekeyed.state[m.from].uuid
    BY <1>4, PlannedFor
  <2>2. PICK n \in PlanMoves : b = MoveLocal(Rekeyed, n) /\ b.uuid = Rekeyed.state[n.from].uuid
    BY <1>4, PlannedFor
  <2>3. /\ m.from \in Key /\ n.from \in Key
        /\ Rekeyed.state[m.from].mapped /\ Rekeyed.state[n.from].mapped
    BY SeenParts
  <2>4. m.from = n.from
    BY <1>1, <1>4, <2>1, <2>2, <2>3 DEF MappedOnceIn
  <2>5. m = n
    BY <2>4, SeenParts
  <2>6. QED
    BY <2>1, <2>2, <2>5
<1>5. ASSUME a.op = "MoveLocal", b.op \in Binders, a.uuid = b.uuid
      PROVE  a.other = b.key /\ Mapped(Seen, a.uuid)
  <2>1. PICK m \in PlanMoves : a.other = m.to /\ a.uuid = Rekeyed.state[m.from].uuid
    BY <1>5, PlannedFor
  <2>2. m.to \in Key /\ Seen.state[m.to].mapped /\ Seen.state[m.to].uuid = a.uuid
    BY <2>1, SeenOnce, SeenParts
  <2>3. b.key \in Key /\ a.uuid \in ViewDoc(Seen, b.key)
    BY <1>5, PlannedFor
  <2>4. m.to = b.key
    BY <1>1, <2>2, <2>3, MappedView
  <2>5. QED
    BY <2>1, <2>2, <2>4 DEF Mapped
<1>6. ASSUME a.op = "MoveRemote", b.op = "MoveLocal", a.uuid = b.uuid PROVE a.other = b.key
  <2>1. PICK p \in PlanPairs : a.other = p.to /\ a.uuid = Start.state[p.from].uuid
    BY <1>6, PlannedFor
  <2>2. PICK m \in PlanMoves : b.key = m.from /\ b.uuid = Rekeyed.state[m.from].uuid
    BY <1>6, PlannedFor
  <2>3. /\ p.to \in Key /\ Rekeyed.state[p.to].mapped /\ Rekeyed.state[p.to].uuid = a.uuid
    BY <2>1, RekeyedOnce, RekeyedParts
  <2>4. m.from \in Key /\ Rekeyed.state[m.from].mapped
    BY SeenParts
  <2>5. QED
    BY <1>1, <1>6, <2>1, <2>2, <2>3, <2>4 DEF MappedOnceIn
<1>7. ASSUME a.op = "MoveRemote", b.op \in Binders, a.uuid = b.uuid
      PROVE  /\ a.other = b.key \/ \E m \in A : m.op = "MoveLocal" /\ m.uuid = a.uuid /\ m.key = a.other
             /\ Mapped(Seen, a.uuid)
  <2>1. PICK p \in PlanPairs : a.other = p.to /\ a.uuid = Start.state[p.from].uuid
    BY <1>7, PlannedFor
  <2>2. CASE \E m \in PlanMoves : m.from = p.to /\ Rekeyed.state[m.from].uuid = Start.state[p.from].uuid
    <3>1. PICK m \in PlanMoves : m.from = p.to /\ Rekeyed.state[m.from].uuid = a.uuid
      BY <2>1, <2>2
    <3>2. \E c \in A : c.op = "MoveLocal" /\ c.uuid = a.uuid /\ c.key = a.other
      BY <2>1, <3>1, PlanMovesMake
    <3>3. m.to \in Key /\ Seen.state[m.to].mapped /\ Seen.state[m.to].uuid = a.uuid
      BY <3>1, SeenOnce, SeenParts
    <3>4. QED
      BY <3>2, <3>3 DEF Mapped
  <2>3. CASE Seen.state[p.to].mapped /\ Seen.state[p.to].uuid = Start.state[p.from].uuid
    <3>1. p.to \in Key
      BY RekeyedParts
    <3>2. b.key \in Key /\ a.uuid \in ViewDoc(Seen, b.key)
      BY <1>7, PlannedFor
    <3>3. p.to = b.key
      BY <1>1, <2>1, <2>3, <3>1, <3>2, MappedView
    <3>4. QED
      BY <2>1, <2>3, <3>1, <3>3 DEF Mapped
  <2>4. QED
    BY <2>2, <2>3, MovedSeen
<1>8. ASSUME a.op \in Movers, b.op = "Rebind", a.uuid = b.uuid PROVE FALSE
  <2>1. b.op \in Binders
    BY <1>8 DEF Binders
  <2>2. Mapped(Seen, a.uuid)
    BY <1>5, <1>7, <1>8, <2>1 DEF Movers
  <2>3. /\ b.key \in Key /\ b.uuid \in ViewDoc(Seen, b.key)
        /\ Seen.state[b.key].mapped /\ ~HasDoc(Seen, Seen.state[b.key])
    BY <1>8, <2>1, PlannedFor DEF TableFits
  <2>4. QED
    BY <1>1, <1>8, <2>2, <2>3, MappedView
<1> HIDE DEF A
<1>9. PairOnce(a, b)
  BY <1>2, <1>3, <1>4, <1>5, <1>6, <1>8 DEF PairOnce, Movers
<1>10. ReachesIn(A, a, b)
  BY <1>7 DEF ReachesIn
<1>11. QED
  BY <1>9, <1>10 DEF A

LEMMA PlannedPlaced ==
  ASSUME TypeOK, DocsFit, EntriesFit, MappedOnce, NEW a \in MakeActions(opts, Start)
  PROVE  PlacedIn(MakeActions(opts, Start), archive, a)
<1> DEFINE A == MakeActions(opts, Start)
<1>1. /\ MappedOnceIn(Start.state) /\ MappedOnceIn(Seen.state)
      /\ Start.state = archive
  BY RekeyedOnce, SeenOnce, PlanParts
<1> SUFFICES ASSUME a.op \in Binders \cup Movers, NEW j \in Key, archive[j].mapped, archive[j].uuid = a.uuid
             PROVE  \/ j = a.key
                    \/ a.op \in Binders /\ \E m \in A : m.op \in Movers /\ m.uuid = a.uuid /\ m.key = j
                    \/ a.op = "MoveLocal" /\ \E m \in A : m.op = "MoveRemote" /\ m.uuid = a.uuid /\ m.key = j
  BY DEF PlacedIn
<1>2. CASE a.op = "MoveRemote"
  <2>1. PICK p \in PlanPairs : a.key = p.from /\ a.uuid = Start.state[p.from].uuid
    BY <1>2, PlannedFor
  <2>2. p.from \in Key /\ Start.state[p.from].mapped
    BY RekeyedOnce, RekeyedParts
  <2>3. QED
    BY <1>1, <2>1, <2>2 DEF MappedOnceIn
<1>3. CASE a.op = "MoveLocal"
  <2>1. PICK m \in PlanMoves : a.key = m.from /\ a.uuid = Rekeyed.state[m.from].uuid
    BY <1>3, PlannedFor
  <2>2. m.from \in Key /\ Rekeyed.state[m.from].mapped
    BY SeenParts
  <2>3. CASE Rekeyed.state[m.from] = Start.state[m.from]
    BY <1>1, <2>1, <2>2, <2>3 DEF MappedOnceIn
  <2>4. CASE \E p \in PlanPairs : p.from = m.from
    BY <2>2, <2>4, RekeyedParts, NoEntryFits
  <2>5. ASSUME NEW p \in PlanPairs, p.to = m.from
        PROVE  \E c \in A : c.op = "MoveRemote" /\ c.uuid = a.uuid /\ c.key = j
    <3>1. p.from \in Key /\ Start.state[p.from].mapped /\ Start.state[p.from].uuid = a.uuid
      BY <2>1, <2>5, RekeyedOnce, RekeyedParts
    <3>2. p.from = j
      BY <1>1, <3>1 DEF MappedOnceIn
    <3>3. QED
      BY <3>1, <3>2, PlanMovesMake
  <2>6. QED
    BY <1>3, <2>2, <2>3, <2>4, <2>5, RekeyedParts
<1>4. CASE a.op \in Binders
  <2>1. a.key \in Key /\ a.uuid \in ViewDoc(Seen, a.key)
    BY <1>4, PlannedFor
  <2>2. ASSUME NEW p \in PlanPairs, p.from = j
        PROVE  \E c \in A : c.op \in Movers /\ c.uuid = a.uuid /\ c.key = j
    <3>1. \E c \in A : c.op = "MoveRemote" /\ c.uuid = Start.state[p.from].uuid /\ c.key = p.from
      BY PlanMovesMake
    <3>2. QED
      BY <1>1, <2>2, <3>1 DEF Movers
  <2>3. ~\E p \in PlanPairs : p.to = j
    BY <1>1, RekeyedOnce
  <2>4. CASE Rekeyed.state[j] = Start.state[j]
    <3>1. Rekeyed.state[j].mapped /\ Rekeyed.state[j].uuid = a.uuid
      BY <1>1, <2>4
    <3>2. CASE Seen.state[j] = Rekeyed.state[j]
      <4>1. j = a.key
        BY <1>1, <2>1, <3>1, <3>2, MappedView
      <4>2. QED
        BY <4>1
    <3>3. ASSUME NEW m \in PlanMoves, m.from = j
          PROVE  \E c \in A : c.op \in Movers /\ c.uuid = a.uuid /\ c.key = j
      <4>1. \E c \in A : c.op = "MoveLocal" /\ c.uuid = Rekeyed.state[m.from].uuid /\ c.key = m.from
        BY PlanMovesMake
      <4>2. QED
        BY <3>1, <3>3, <4>1 DEF Movers
    <3>4. ~\E m \in PlanMoves : m.to = j
      BY <3>1, SeenParts
    <3>5. QED
      BY <1>4, <3>2, <3>3, <3>4, SeenParts
  <2>5. QED
    BY <1>4, <2>2, <2>3, <2>4, RekeyedParts
<1>5. QED
  BY <1>2, <1>3, <1>4 DEF Movers

LEMMA PlannedWaits ==
  ASSUME TypeOK, DocsFit, EntriesFit, MappedOnce,
         \A k \in Key : snap[k].present = local[k].present,
         NEW a \in MakeActions(opts, Start), NEW b \in MakeActions(opts, Start)
  PROVE  WaitsFor(a, b)
<1> SUFFICES ASSUME a.op \in Movers, b.op \in Agreements, a.uuid = b.uuid
             PROVE  ~local[b.key].present
  BY DEF WaitsFor
<1>1. b.op \in Binders /\ b.key \in Key /\ b.uuid \in ViewDoc(Seen, b.key) /\ TableFits(opts, Seen, b)
  BY PlannedFor DEF Binders
<1>2. MappedOnceIn(Seen.state)
  BY SeenOnce
<1>3. ASSUME NEW m \in PlanMoves, Rekeyed.state[m.from].uuid = b.uuid PROVE ~local[b.key].present
  <2>1. m.to \in Key /\ m.from \in Key /\ Seen.state[m.to].mapped /\ Seen.state[m.to].uuid = b.uuid
    BY <1>3, SeenOnce, SeenParts
  <2>2. m.to = b.key
    BY <1>1, <1>2, <2>1, MappedView
  <2>3. ~Rekeyed.local[m.to].present
    <3>1. SnapFits(Rekeyed) /\ PlanMoves \subseteq LocalMoves(Rekeyed)
      BY RekeyedParts, PlanParts
    <3>2. QED
      BY <3>1, MovesFit
  <2>4. ~snap[m.to].present
    BY <2>1, <2>3, PlanParts, RekeyedParts
  <2>5. QED
    BY <2>1, <2>2, <2>4
<1>4. CASE a.op = "MoveLocal"
  BY <1>3, <1>4, PlannedFor
<1>5. CASE a.op = "MoveRemote"
  <2>1. PICK p \in PlanPairs : a.uuid = Start.state[p.from].uuid
    BY <1>5, PlannedFor
  <2>2. CASE \E m \in PlanMoves : m.from = p.to /\ Rekeyed.state[m.from].uuid = Start.state[p.from].uuid
    BY <1>3, <2>1, <2>2
  <2>3. ASSUME Seen.state[p.to] = Rekeyed.state[p.to], Seen.local[p.to] = Rekeyed.local[p.to],
               Seen.state[p.to].mapped, Seen.state[p.to].uuid = Start.state[p.from].uuid
        PROVE  FALSE
    <3>1. /\ p.to \in Key /\ p.from \in Key /\ Start.state[p.from] \in Entry
          /\ Rekeyed.state[p.to] = [Start.state[p.from] EXCEPT !.mtime = Start.local[p.to].mtime]
          /\ MoveSource(Start, p.from)
      BY RekeyedParts
    <3>1a. p.to \in Key /\ Seen.state[p.to].mapped /\ Seen.state[p.to].uuid = b.uuid
      BY <2>1, <2>3, <3>1
    <3>2. p.to = b.key
      BY <1>1, <1>2, <3>1a, MappedView
    <3>3. Restamped(Seen, p.to, b.uuid)
      BY <1>1, <2>3, <3>2 DEF TableFits
    <3> DEFINE e == Start.state[p.from]
    <3>4. ~RemoteStampChanged(e, e.uuid, Start.doc[e.uuid])
      BY <3>1 DEF MoveSource
    <3>5. Seen.doc = Start.doc /\ Rekeyed.local = Start.local
      BY SeenParts, RekeyedParts
    <3>6. Seen.state[p.to] = [e EXCEPT !.mtime = Start.local[p.to].mtime] /\ e \in Entry /\ e.uuid = b.uuid
      BY <2>1, <2>3, <3>1
    <3> HIDE DEF e
    <3>7. /\ Seen.state[p.to].mtime = Seen.local[p.to].mtime
          /\ Seen.state[p.to].pending = e.pending /\ Seen.state[p.to].uuid = e.uuid
          /\ Seen.state[p.to].lm = e.lm
      BY <2>3, <3>5, <3>6 DEF Entry
    <3>8. QED
      BY <3>3, <3>4, <3>5, <3>6, <3>7 DEF Restamped, RemoteStampChanged
  <2>4. QED
    BY <2>2, <2>3, MovedSeen
<1>6. QED
  BY <1>4, <1>5 DEF Movers

\* What is left is of the bucket of the action that runs, or of a later one.
LEMMA LaterBuckets ==
  ASSUME PlanFits, Work # {}, NEW b \in Work \ {Current}
  PROVE  /\ Current.op \notin Agreements \cup {"Rebind"} => b.op \notin Agreements \cup {"Rebind"}
         /\ Current.op \notin Agreements \cup {"Rebind", "MoveRemote"} => b.op # "MoveRemote"
         /\ Current.op \notin Agreements \cup {"Rebind"} \cup Movers => b.op \notin Movers
<1>1. Before(Current, b) /\ Current.op \in Ops
  BY CurrentIs, CurrentType
<1>2. b.op \in Ops
  BY DEF PlanFits, PlanAction, Work
<1>3. Rank(Current.op) <= Rank(b.op)
  <2>1. Rank(Current.op) \in Nat /\ Rank(b.op) \in Nat
    BY <1>1, <1>2, RankType
  <2>2. QED
    BY <1>1, <2>1 DEF Before
<1>4. \A op \in Ops : /\ op \in Agreements \cup {"Rebind"} => Rank(op) \in 1..2
                      /\ op \notin Agreements \cup {"Rebind"} => Rank(op) \in 3..8
                      /\ op \notin Agreements \cup {"Rebind", "MoveRemote"} => Rank(op) \in 4..8
                      /\ op \notin Agreements \cup {"Rebind"} \cup Movers => Rank(op) \in 5..8
  BY DEF Rank, Ops, LocalWrites, RemoteWrites, Agreements, Movers
<1>5. Rank("MoveRemote") = 3 /\ Rank("MoveLocal") = 4
  BY DEF Rank
<1>6. Rank(Current.op) \in 1..8 /\ Rank(b.op) \in 1..8
  BY <1>1, <1>2, RankType
<1>7. QED
  BY <1>1, <1>2, <1>3, <1>4, <1>5, <1>6 DEF Movers

\* A save that gives document u the entry of `path`, or with u = 0 none, while
\* no other entry keeps u and the actions left know where it is.
SavesOnce(entries, path, u) ==
  /\ \A j \in Key : entries[j].mapped =>
       \/ j = path /\ entries[j].uuid = u
       \/ /\ archive[j].mapped /\ archive[j].uuid = entries[j].uuid
          /\ Current.op \in Movers => j # Current.key
  /\ \A j \in Key \ {path} : archive[j].mapped /\ archive[j].uuid = u =>
       Current.op \in Movers /\ j = Current.key
  /\ \A a \in Work \ {Current} : a.uuid = u =>
       /\ a.op # "MoveRemote"
       /\ a.op = "MoveLocal" => path = a.key
       /\ a.op \in Binders => \/ path = a.key
                              \/ \E m \in Work \ {Current} :
                                   m.op = "MoveLocal" /\ m.uuid = u /\ m.key = path

LEMMA OnceSaved ==
  ASSUME RunInv, OnceInv, phase = "run", Work # {}, NEW entries, NEW remote, Save(entries, remote),
         NEW path \in Key, NEW u, SavesOnce(entries, path, u)
  PROVE  OnceInv'
<1>0. /\ \A j \in Key : entries[j].mapped =>
           \/ j = path /\ entries[j].uuid = u
           \/ /\ archive[j].mapped /\ archive[j].uuid = entries[j].uuid
              /\ Current.op \in Movers => j # Current.key
      /\ \A j \in Key \ {path} : archive[j].mapped /\ archive[j].uuid = u =>
           Current.op \in Movers /\ j = Current.key
      /\ \A a \in Work \ {Current} : a.uuid = u =>
           /\ a.op # "MoveRemote"
           /\ a.op = "MoveLocal" => path = a.key
           /\ a.op \in Binders => \/ path = a.key
                                  \/ \E m \in Work \ {Current} :
                                       m.op = "MoveLocal" /\ m.uuid = u /\ m.key = path
  BY DEF SavesOnce
<1>1. /\ Work' = Work \ {Current} /\ archive' = entries /\ local' = local /\ phase' = phase
      /\ stage' = "effect"
  BY DEF Save, Work
<1>2. Current \in Work
  BY CurrentType DEF RunInv
<1>3. MappedOnceIn(entries)
  <2> SUFFICES ASSUME NEW j \in Key, NEW k \in Key, entries[j].mapped, entries[k].mapped,
                      entries[j].uuid = entries[k].uuid
               PROVE  j = k
    BY DEF MappedOnceIn
  <2>1. ASSUME NEW i \in Key, NEW h \in Key, i = path, entries[i].uuid = u, h # path,
               archive[h].mapped, archive[h].uuid = u, Current.op \in Movers => h # Current.key
        PROVE  FALSE
    BY <1>0, <2>1
  <2>2. CASE j = path /\ entries[j].uuid = u
    BY <1>0, <2>1, <2>2
  <2>3. CASE k = path /\ entries[k].uuid = u
    BY <1>0, <2>1, <2>3
  <2>4. CASE archive[j].mapped /\ archive[j].uuid = entries[j].uuid /\ archive[k].mapped /\ archive[k].uuid = entries[k].uuid
    BY <2>4 DEF OnceInv, MappedOnce
  <2>5. QED
    BY <1>0, <2>2, <2>3, <2>4
<1>4. MappedOnce'
  BY <1>1, <1>3 DEF MappedOnce, MappedOnceIn
<1>5. \A a, b \in Work \ {Current} : PairOnce(a, b)
  BY DEF OnceInv, PlanOnce
<1>6. ASSUME NEW a \in Work \ {Current}, NEW b \in Work \ {Current}
      PROVE  ReachesIn(Work \ {Current}, a, b)
  <2> SUFFICES ASSUME a.op = "MoveRemote", b.op \in Binders, a.uuid = b.uuid, a.other # b.key
               PROVE  \E m \in Work \ {Current} : m.op = "MoveLocal" /\ m.uuid = a.uuid /\ m.key = a.other
    BY DEF ReachesIn
  <2>1. PICK m \in Work : m.op = "MoveLocal" /\ m.uuid = a.uuid /\ m.key = a.other
    BY DEF OnceInv, PlanOnce, ReachesIn
  <2>2. m # Current
    BY <2>1, LaterBuckets DEF RunInv, Agreements
  <2>3. QED
    BY <2>1, <2>2
<1>7. \A a, b \in Work \ {Current} : WaitsFor(a, b)'
  BY <1>1 DEF OnceInv, PlanOnce, WaitsFor
<1>8. ASSUME NEW a \in Work \ {Current} PROVE PlacedIn(Work \ {Current}, entries, a)
  <2> SUFFICES ASSUME a.op \in Binders \cup Movers, NEW j \in Key, entries[j].mapped, entries[j].uuid = a.uuid, j # a.key
               PROVE  \/ a.op \in Binders /\ \E m \in Work \ {Current} :
                           m.op \in Movers /\ m.uuid = a.uuid /\ m.key = j
                      \/ a.op = "MoveLocal" /\ \E m \in Work \ {Current} :
                           m.op = "MoveRemote" /\ m.uuid = a.uuid /\ m.key = j
    BY DEF PlacedIn
  <2>1. CASE j = path /\ entries[j].uuid = u
    BY <1>0, <2>1 DEF Movers
  <2>2. CASE archive[j].mapped /\ archive[j].uuid = entries[j].uuid /\ (Current.op \in Movers => j # Current.key)
    <3>1. PlacedIn(Work, archive, a)
      BY DEF OnceInv, PlanOnce
    <3>2. \A m \in Work : m.op \in Movers /\ m.key = j => m # Current
      BY <2>2
    <3>3. QED
      BY <2>2, <3>1, <3>2 DEF PlacedIn, Movers
  <2>3. QED
    BY <1>0, <2>1, <2>2
<1>9. PlanOnce'
  BY <1>1, <1>5, <1>6, <1>7, <1>8 DEF PlanOnce, PairOnce, ReachesIn, PlacedIn
<1>10. GotFits'
  BY <1>1 DEF GotFits
<1>11. ListedFilesAreThere'
  BY <1>1 DEF ListedFilesAreThere
<1>12. QED
  BY <1>4, <1>9, <1>10, <1>11 DEF OnceInv

\* A save that only gives up an entry.
LEMMA OnceDropped ==
  ASSUME RunInv, OnceInv, phase = "run", Work # {}, NEW entries, NEW remote, Save(entries, remote),
         Current.op \notin Movers,
         \A j \in Key : entries[j].mapped => archive[j].mapped /\ archive[j].uuid = entries[j].uuid
  PROVE  OnceInv'
<1>1. \A j \in Key : archive[j].mapped => archive[j].uuid # 0
  BY Constants DEF RunInv, EntriesFit, EntryFits, Bound
<1>2. ASSUME NEW a \in Work, a.op \in Binders \cup Movers PROVE a.uuid # 0
  <2>1. a.op \in OfDocument
    BY <1>2 DEF Binders, Movers, OfDocument, Ops, LocalWrites, RemoteWrites, Agreements
  <2>2. ActionFits(a)
    BY DEF RunInv, PlanFits
  <2>3. QED
    BY <2>1, <2>2, Constants DEF ActionFits
<1>3. PICK path \in Key : path = Current.key
  BY CurrentType DEF RunInv
<1>3a. PICK u : u = 0
  OBVIOUS
<1>4. SavesOnce(entries, path, u)
  BY <1>1, <1>2, <1>3a DEF SavesOnce, Movers
<1>5. QED
  BY <1>4, OnceSaved

\* A run that ended has nothing left to do.
LEMMA DoneOnce ==
  ASSUME OnceInv, Fail
  PROVE  OnceInv'
<1>1. Work' = {} /\ archive' = archive /\ phase' = "failed"
  BY DEF Fail, EndRun, Work
<1>2. MappedOnce'
  BY <1>1 DEF OnceInv, MappedOnce
<1>3. PlanOnce' /\ GotFits' /\ ListedFilesAreThere'
  BY <1>1 DEF PlanOnce, GotFits, ListedFilesAreThere
<1>4. QED
  BY <1>2, <1>3 DEF OnceInv

\* An action that binds its path to its document, with no move of it left.
LEMMA BinderSaves ==
  ASSUME RunInv, OnceInv, Work # {}, Current.op \in Binders, NEW entries,
         \A m \in Work : m.op \in Movers => m.uuid # Current.uuid,
         \A j \in Key : entries[j].mapped =>
           \/ j = Current.key /\ entries[j].uuid = Current.uuid
           \/ archive[j].mapped /\ archive[j].uuid = entries[j].uuid
  PROVE  SavesOnce(entries, Current.key, Current.uuid)
<1>1. Current \in Work
  BY CurrentType DEF RunInv
<1>2. Current.op \notin Movers
  BY DEF Binders, Movers, Agreements
<1>3. \A j \in Key \ {Current.key} : ~(archive[j].mapped /\ archive[j].uuid = Current.uuid)
  <2>1. PlacedIn(Work, archive, Current)
    BY <1>1 DEF OnceInv, PlanOnce
  <2>2. QED
    BY <1>2, <2>1 DEF PlacedIn, Movers
<1>4. \A a \in Work \ {Current} : a.uuid = Current.uuid => a.op \notin Movers /\ (a.op \in Binders => a.key = Current.key)
  BY <1>1 DEF OnceInv, PlanOnce, PairOnce
<1>5. QED
  BY <1>2, <1>3, <1>4 DEF SavesOnce, Movers

LEMMA OnceTransferred ==
  ASSUME RunInv, OnceInv, RecordTransfer
  PROVE  OnceInv'
<1> DEFINE a == Current
           path == EntryPath(a)
           remote == a.op \notin {"Download", "CopyLocal"}
           e == Agreed(path, a.kind, got.uuid, got.lm, got.hash, PayloadOf(a, got.hash))
           entries == [archive EXCEPT ![a.key] = NoEntry, ![path] = e]
<1>1. phase = "run" /\ Work # {} /\ stage = "record" /\ a.op \in Transfers
  BY DEF RecordTransfer, At, Transfers
<1>2. /\ a \in Work /\ ActionFits(a) /\ a.key \in Key /\ a.other \in Key /\ path \in Key
  BY <1>1, CurrentType DEF RunInv, EntryPath
<1>3. path = a.key \/ (a.op = "MoveRemote" /\ path = a.other)
  BY <1>1, <1>2 DEF ActionFits, EntryPath, Transfers
<1>4. e.mapped /\ e.uuid = got.uuid
  BY DEF Agreed
<1>5. Save(entries, remote) \/ Fail
  BY DEF RecordTransfer, EntryPath
<1>6. archive \in [Key -> Entry]
  BY DEF RunInv, TypeOK
<1> HIDE DEF e
<1>7. ASSUME NEW j \in Key, entries[j].mapped
      PROVE  \/ j = path /\ entries[j].uuid = got.uuid
             \/ archive[j].mapped /\ archive[j].uuid = entries[j].uuid /\ j # a.key
  <2> HIDE DEF path
  <2>1. CASE j = path
    BY <1>2, <1>4, <1>6, <2>1
  <2>2. CASE j # path /\ j = a.key
    BY <1>6, <1>7, <2>2, NoEntryFits
  <2>3. CASE j # path /\ j # a.key
    BY <1>6, <1>7, <2>3
  <2>4. QED
    BY <2>1, <2>2, <2>3
<1> HIDE DEF entries
<1>8. CASE a.op \in {"UpdateRemote", "Download", "CopyLocal"}
  <2>1. got.uuid = a.uuid /\ path = a.key
    BY <1>1, <1>3, <1>8 DEF OnceInv, GotFits
  <2>2. \A m \in Work : m.op \in Movers => m.uuid # a.uuid
    BY <1>1, <1>8, LaterBuckets DEF RunInv, Movers, Agreements
  <2>3. a.op \in Binders
    BY <1>8 DEF Binders
  <2>4. SavesOnce(entries, a.key, a.uuid)
    <3> HIDE DEF path
    <3>1. QED
      BY <1>1, <1>7, <2>1, <2>2, <2>3, BinderSaves
  <2>5. QED
    BY <1>1, <1>2, <1>5, <2>4, OnceSaved, DoneOnce
<1>9. CASE a.op = "MoveRemote"
  <2>1. got.uuid = a.uuid /\ path = a.other
    BY <1>1, <1>9 DEF OnceInv, GotFits, EntryPath
  <2>2. \A j \in Key : archive[j].mapped /\ archive[j].uuid = a.uuid => j = a.key
    <3>1. PlacedIn(Work, archive, a)
      BY <1>2 DEF OnceInv, PlanOnce
    <3>2. QED
      BY <1>9, <3>1 DEF PlacedIn, Movers, Binders, Agreements
  <2>3. ASSUME NEW b \in Work \ {Current}, b.uuid = a.uuid
        PROVE  /\ b.op # "MoveRemote"
               /\ b.op = "MoveLocal" => path = b.key
               /\ b.op \in Binders => \/ path = b.key
                                      \/ \E m \in Work \ {Current} :
                                           m.op = "MoveLocal" /\ m.uuid = a.uuid /\ m.key = path
    <3>1. PairOnce(a, b) /\ ReachesIn(Work, a, b)
      BY <1>2 DEF OnceInv, PlanOnce
    <3>2. \A m \in Work : m.op = "MoveLocal" => m # Current
      BY <1>9
    <3>3. QED
      BY <1>9, <2>1, <2>3, <3>1, <3>2 DEF PairOnce, ReachesIn, Movers
  <2>4. SavesOnce(entries, a.other, a.uuid)
    <3> HIDE DEF path
    <3>1. QED
      BY <1>7, <1>9, <2>1, <2>2, <2>3 DEF SavesOnce, Movers
  <2>5. QED
    BY <1>1, <1>2, <1>5, <2>4, OnceSaved, DoneOnce
<1>10. CASE a.op \in {"Upload", "CopyRemote"}
  <2>1. /\ path = a.key
        /\ \A j \in Key : archive[j].mapped => archive[j].uuid # got.uuid
        /\ \A b \in Work : b.op \in Binders \cup Movers => b.uuid # got.uuid
    BY <1>1, <1>3, <1>10 DEF OnceInv, GotFits
  <2>2. SavesOnce(entries, a.key, got.uuid)
    <3> HIDE DEF path
    <3>1. QED
      BY <1>7, <1>10, <2>1 DEF SavesOnce, Movers
  <2>3. QED
    BY <1>1, <1>2, <1>5, <2>2, OnceSaved, DoneOnce
<1>11. QED
  BY <1>1, <1>8, <1>9, <1>10 DEF Transfers

LEMMA OnceRenamed ==
  ASSUME RunInv, OnceInv, RecordLocalMove
  PROVE  OnceInv'
<1> DEFINE a == Current
           e == [archive[a.key] EXCEPT !.lm = a.lm]
           entries == [archive EXCEPT ![a.other] = e, ![a.key] = NoEntry]
<1>1. phase = "run" /\ Work # {} /\ a.op = "MoveLocal"
  BY DEF RecordLocalMove, At
<1>2. a \in Work /\ ActionFits(a) /\ a.key \in Key /\ a.other \in Key
  BY <1>1, CurrentType DEF RunInv
<1>3. archive \in [Key -> Entry] /\ archive[a.key] \in Entry
  BY <1>2 DEF RunInv, TypeOK
<1>4. Save(entries, FALSE)
  BY DEF RecordLocalMove
<1>5. e.mapped = archive[a.key].mapped /\ e.uuid = archive[a.key].uuid
  BY <1>3 DEF Entry
<1>6. archive[a.key].mapped => archive[a.key].uuid = a.uuid
  BY <1>1, <1>2 DEF ActionFits
<1> HIDE DEF e
<1>7. ASSUME NEW j \in Key, entries[j].mapped
      PROVE  \/ j = a.other /\ entries[j].uuid = a.uuid
             \/ archive[j].mapped /\ archive[j].uuid = entries[j].uuid /\ j # a.key
  <2>1. CASE j = a.key
    BY <1>3, <1>7, <2>1, NoEntryFits
  <2>2. CASE j # a.key /\ j = a.other
    BY <1>3, <1>5, <1>6, <1>7, <2>2
  <2>3. CASE j # a.key /\ j # a.other
    BY <1>3, <1>7, <2>3
  <2>4. QED
    BY <2>1, <2>2, <2>3
<1> HIDE DEF entries
<1>8. \A b \in Work \ {Current} : b.op # "MoveRemote"
  BY <1>1, LaterBuckets DEF RunInv, Agreements
<1>9. \A j \in Key : archive[j].mapped /\ archive[j].uuid = a.uuid => j = a.key
  <2>1. PlacedIn(Work, archive, a)
    BY <1>2 DEF OnceInv, PlanOnce
  <2>2. QED
    BY <1>1, <1>8, <2>1 DEF PlacedIn, Movers, Binders, Agreements
<1>10. ASSUME NEW b \in Work \ {Current}, b.uuid = a.uuid
       PROVE  b.op # "MoveLocal" /\ (b.op \in Binders => a.other = b.key)
  <2>1. PairOnce(a, b)
    BY <1>2 DEF OnceInv, PlanOnce
  <2>2. QED
    BY <1>1, <1>10, <2>1 DEF PairOnce, Movers
<1>11. SavesOnce(entries, a.other, a.uuid)
  BY <1>1, <1>7, <1>8, <1>9, <1>10 DEF SavesOnce, Movers
<1>12. FALSE \in BOOLEAN
  OBVIOUS
<1>13. QED
  BY <1>1, <1>2, <1>4, <1>11, OnceSaved

LEMMA OnceAgreed ==
  ASSUME RunInv, OnceInv, RecordAgreement
  PROVE  OnceInv'
<1> DEFINE a == Current
           e == Agreed(a.key, a.kind, a.uuid, a.lm, a.hash, a.payload)
           entries == [archive EXCEPT ![a.key] = e]
<1>1. phase = "run" /\ Work # {} /\ a.op \in Agreements
  BY DEF RecordAgreement, At, Agreements
<1>2. a \in Work /\ a.key \in Key /\ archive \in [Key -> Entry]
  BY <1>1, CurrentType DEF RunInv, TypeOK
<1>3. Fail \/ (Save(entries, FALSE) /\ local[a.key].present)
  BY DEF RecordAgreement
<1>4. e.uuid = a.uuid
  BY DEF Agreed
<1> HIDE DEF e
<1>5. \A j \in Key : entries[j].mapped =>
           \/ j = Current.key /\ entries[j].uuid = Current.uuid
           \/ archive[j].mapped /\ archive[j].uuid = entries[j].uuid
  BY <1>2, <1>4
<1> HIDE DEF entries
<1>6. ASSUME local[a.key].present, Save(entries, FALSE) PROVE OnceInv'
  <2>1. \A m \in Work : m.op \in Movers => m.uuid # a.uuid
    <3>1. \A m \in Work : WaitsFor(m, a)
      BY <1>2 DEF OnceInv, PlanOnce
    <3>2. QED
      BY <1>1, <1>6, <3>1 DEF WaitsFor
  <2>2. a.op \in Binders
    BY <1>1 DEF Binders
  <2>3. SavesOnce(entries, a.key, a.uuid)
    BY <1>1, <1>5, <2>1, <2>2, BinderSaves
  <2>4. QED
    BY <1>1, <1>2, <1>6, <2>3, OnceSaved
<1>7. QED
  BY <1>3, <1>6, DoneOnce

LEMMA OnceRebound ==
  ASSUME RunInv, OnceInv, RebindEntry
  PROVE  OnceInv'
<1> DEFINE a == Current
           entries == [archive EXCEPT ![a.key] =
                         IF @.mapped THEN [@ EXCEPT !.uuid = a.uuid, !.pending = TRUE] ELSE @]
<1>1. phase = "run" /\ Work # {} /\ a.op = "Rebind"
  BY DEF RebindEntry, At
<1>2. a \in Work /\ a.key \in Key /\ archive \in [Key -> Entry] /\ archive[a.key] \in Entry
  BY <1>1, CurrentType DEF RunInv, TypeOK
<1>3. Save(entries, TRUE)
  BY DEF RebindEntry
<1>4. \A j \in Key : entries[j].mapped =>
           \/ j = Current.key /\ entries[j].uuid = Current.uuid
           \/ archive[j].mapped /\ archive[j].uuid = entries[j].uuid
  BY <1>2 DEF Entry
<1> HIDE DEF entries
<1>5. \A m \in Work : m.op \in Movers => m.uuid # a.uuid
  <2>1. \A m \in Work : PairOnce(m, a)
    BY <1>2 DEF OnceInv, PlanOnce
  <2>2. QED
    BY <1>1, <2>1 DEF PairOnce
<1>6. a.op \in Binders
  BY <1>1 DEF Binders
<1>7. SavesOnce(entries, a.key, a.uuid)
  BY <1>1, <1>4, <1>5, <1>6, BinderSaves
<1>8. QED
  BY <1>1, <1>2, <1>3, <1>7, OnceSaved

LEMMA OnceForgotten ==
  ASSUME RunInv, OnceInv, RecordDelete \/ ForgetEntry
  PROVE  OnceInv'
<1> DEFINE entries == [archive EXCEPT ![Current.key] = NoEntry]
<1>1. phase = "run" /\ Work # {} /\ Current.op \notin Movers
  BY DEF RecordDelete, ForgetEntry, At, Movers
<1>2. PICK remote \in BOOLEAN : Save(entries, remote)
  BY DEF RecordDelete, ForgetEntry
<1>3. Current.key \in Key /\ archive \in [Key -> Entry]
  BY <1>1, CurrentType DEF RunInv, TypeOK
<1>4. \A j \in Key : entries[j].mapped => archive[j].mapped /\ archive[j].uuid = entries[j].uuid
  BY <1>3, NoEntryFits
<1> HIDE DEF entries
<1>5. QED
  BY <1>1, <1>2, <1>4, OnceDropped

\* An effect that is carried out, its save still to come.
LEMMA OnceAdvanced ==
  ASSUME RunInv, OnceInv, phase = "run", Work # {}, Current.op \notin Agreements \cup {"Rebind"},
         NEW next, NEW result, Advance(next, result),
         next = "record" =>
           /\ Current.op \in {"UpdateRemote", "Download", "CopyLocal", "MoveRemote"} => result.uuid = Current.uuid
           /\ Current.op \in {"Upload", "CopyRemote"} => result.uuid = nextUuid
  PROVE  OnceInv'
<1>1. /\ archive' = archive /\ phase' = phase /\ plan' = plan /\ stage' = next /\ got' = result
      /\ Work' = Work /\ Current' = Current
  BY SamePlan DEF Advance
<1>2. \A b \in Work : b.op \notin Agreements
  BY LaterBuckets DEF RunInv
<1>3. \A a, b \in Work : WaitsFor(a, b)'
  BY <1>2 DEF WaitsFor
<1>4. MappedOnce'
  BY <1>1 DEF OnceInv, MappedOnce
<1>5. PlanOnce'
  BY <1>1, <1>3 DEF OnceInv, PlanOnce, PairOnce, ReachesIn, PlacedIn
<1>6. \A j \in Key : archive[j].mapped => archive[j].uuid # nextUuid
  <2>1. \A j \in Key : archive[j].mapped => archive[j].uuid \in Uuid /\ archive[j].uuid < nextUuid
    BY DEF RunInv, EntriesFit, EntryFits, Bound
  <2>2. nextUuid \in Nat /\ Uuid \subseteq Nat
    BY Constants DEF RunInv, TypeOK
  <2>3. QED
    BY <2>1, <2>2
<1>7. ASSUME NEW a \in Work, a.op \in Binders \cup Movers PROVE a.uuid # nextUuid
  <2>1. a.op \in OfDocument
    BY <1>7 DEF Binders, Movers, OfDocument, Ops, LocalWrites, RemoteWrites, Agreements
  <2>2. a.uuid \in Uuid /\ a.uuid < nextUuid
    BY <2>1 DEF RunInv, PlanFits, ActionFits
  <2>3. nextUuid \in Nat /\ Uuid \subseteq Nat
    BY Constants DEF RunInv, TypeOK
  <2>4. QED
    BY <2>2, <2>3
<1>8. GotFits'
  BY <1>1, <1>6, <1>7 DEF GotFits
<1>9. ListedFilesAreThere'
  BY <1>1 DEF ListedFilesAreThere
<1>10. QED
  BY <1>4, <1>5, <1>8, <1>9 DEF OnceInv

LEMMA OnceAtEffects ==
  ASSUME RunInv, OnceInv,
         \/ UploadDocument \/ CopyOnDevice \/ UpdatePayload \/ TouchLastModified \/ MoveDocument
         \/ DownloadDocument \/ HashWritten \/ CopyLocally \/ RenameFile \/ DeleteEffect
  PROVE  OnceInv'
<1>1. phase = "run" /\ Work # {} /\ Current.op \notin Agreements \cup {"Rebind"}
  BY DEF UploadDocument, CopyOnDevice, UpdatePayload, TouchLastModified, MoveDocument,
       DownloadDocument, HashWritten, CopyLocally, RenameFile, DeleteEffect, At, Agreements
<1>2. CASE Fail
  BY <1>2, DoneOnce
<1>3. ASSUME ~Fail
      PROVE  \E next, result :
               /\ Advance(next, result)
               /\ next = "record" =>
                    /\ Current.op \in {"UpdateRemote", "Download", "CopyLocal", "MoveRemote"} => result.uuid = Current.uuid
                    /\ Current.op \in {"Upload", "CopyRemote"} => result.uuid = nextUuid
  <2>1. CASE UploadDocument \/ CopyOnDevice
    <3>1. Current.op \in {"Upload", "CopyRemote"}
      BY <2>1 DEF UploadDocument, CopyOnDevice, At
    <3>2. \E k, kind, payload : RegisterDocument(k, kind, payload)
      BY <1>3, <2>1 DEF UploadDocument, CopyOnDevice
    <3>3. \E lm : Advance("record", Result(nextUuid, lm, Current.hash))
      BY <3>2 DEF RegisterDocument
    <3>4. PICK lm : Advance("record", Result(nextUuid, lm, Current.hash))
      BY <3>3
    <3>5. Result(nextUuid, lm, Current.hash).uuid = nextUuid
      BY DEF Result
    <3>6. QED
      BY <3>1, <3>4, <3>5
  <2>2. CASE UpdatePayload \/ DownloadDocument
    <3>1. Advance("touch", NothingGot) \/ Advance("hash", NothingGot)
      BY <1>3, <2>2 DEF UpdatePayload, DownloadDocument
    <3>2. QED
      BY <3>1
  <2>3. CASE TouchLastModified \/ MoveDocument \/ HashWritten \/ CopyLocally
    <3>1. Current.op \notin {"Upload", "CopyRemote"}
      BY <2>3 DEF TouchLastModified, MoveDocument, HashWritten, CopyLocally, At
    <3>2. \E lm, h : Advance("record", Result(Current.uuid, lm, h))
      BY <1>3, <2>3 DEF TouchLastModified, MoveDocument, HashWritten, CopyLocally
    <3>3. PICK lm, h : Advance("record", Result(Current.uuid, lm, h))
      BY <3>2
    <3>4. Result(Current.uuid, lm, h).uuid = Current.uuid
      BY DEF Result
    <3>5. QED
      BY <3>1, <3>3, <3>4
  <2>4. CASE RenameFile \/ DeleteEffect
    <3>1. Current.op \in {"MoveLocal", "DeleteRemote", "DeleteLocal"} /\ Advance("record", NothingGot)
      BY <1>3, <2>4 DEF RenameFile, DeleteEffect, At
    <3>2. QED
      BY <3>1
  <2>5. QED
    BY <2>1, <2>2, <2>3, <2>4
<1>4. QED
  BY <1>1, <1>2, <1>3, OnceAdvanced

\* The steps that leave no plan.
LEMMA OnceWithoutPlan ==
  ASSUME OnceInv, archive' = archive, plan' = {},
         phase' = "scanned" => \A k \in Key : snap'[k].present = local'[k].present
  PROVE  OnceInv'
<1>1. Work' = {}
  BY DEF Work
<1>2. MappedOnce'
  BY DEF OnceInv, MappedOnce
<1>3. PlanOnce' /\ GotFits' /\ ListedFilesAreThere'
  BY <1>1 DEF PlanOnce, GotFits, ListedFilesAreThere
<1>4. QED
  BY <1>2, <1>3 DEF OnceInv

LEMMA OncePlanned ==
  ASSUME RunInv, OnceInv, MakePlan
  PROVE  OnceInv'
<1> DEFINE A == MakeActions(opts, Start)
           W == {a \in A : a.op # "Conflict"}
<1>1. /\ plan' = A /\ phase' = "run" /\ phase = "scanned" /\ stage = "effect" /\ stage' = stage
      /\ archive' = archive /\ local' = local
  BY DEF MakePlan, Start, RunInv, RunShape
<1>2. TypeOK /\ DocsFit /\ EntriesFit /\ MappedOnce /\ \A k \in Key : snap[k].present = local[k].present
  BY <1>1 DEF RunInv, OnceInv, ListedFilesAreThere
<1>3. ASSUME NEW a \in A, NEW b \in A PROVE PairOnce(a, b) /\ ReachesIn(A, a, b) /\ WaitsFor(a, b)
  BY <1>2, PlannedPairsOnce, PlannedWaits
<1>4. ASSUME NEW a \in A PROVE PlacedIn(A, archive, a)
  BY <1>2, PlannedPlaced
<1> HIDE DEF A
<1>5. Work' = W
  BY <1>1 DEF Work
<1>6. \A a, b \in W : PairOnce(a, b) /\ WaitsFor(a, b)
  BY <1>3
<1>7. ASSUME NEW a \in W, NEW b \in W PROVE ReachesIn(W, a, b)
  BY <1>3 DEF ReachesIn
<1>8. ASSUME NEW a \in W PROVE PlacedIn(W, archive, a)
  BY <1>4 DEF PlacedIn, Movers
<1> HIDE DEF W
<1>9. PlanOnce'
  BY <1>1, <1>5, <1>6, <1>7, <1>8 DEF PlanOnce, PairOnce, ReachesIn, WaitsFor, PlacedIn
<1>10. MappedOnce'
  BY <1>1, <1>2 DEF MappedOnce
<1>11. GotFits' /\ ListedFilesAreThere'
  BY <1>1 DEF GotFits, ListedFilesAreThere
<1>12. QED
  BY <1>9, <1>10, <1>11 DEF OnceInv

\* Users make and remove files only at paths nobody is working on.
LEMMA OnceBesideUsers ==
  ASSUME RunInv, OnceInv, UNCHANGED <<archive, phase, plan, stage, got, snap>>,
         \A k \in Key : local'[k].present # local[k].present =>
           phase # "scanned" /\ \A a \in Work : k # a.key
  PROVE  OnceInv'
<1>1. Work' = Work /\ Current' = Current
  BY SamePlan
<1>2. MappedOnce'
  BY DEF OnceInv, MappedOnce
<1>3. ASSUME NEW a \in Work, NEW b \in Work PROVE WaitsFor(a, b)'
  <2>1. WaitsFor(a, b) /\ b.key \in Key
    BY DEF OnceInv, PlanOnce, RunInv, PlanFits, ActionFits, PlanAction
  <2>2. QED
    BY <2>1 DEF WaitsFor
<1>4. PlanOnce'
  BY <1>1, <1>3 DEF OnceInv, PlanOnce, PairOnce, ReachesIn, PlacedIn
<1>5. GotFits'
  BY <1>1 DEF OnceInv, GotFits
<1>6. ListedFilesAreThere'
  BY DEF OnceInv, ListedFilesAreThere
<1>7. QED
  BY <1>2, <1>4, <1>5, <1>6 DEF OnceInv

LEMMA OnceWithUsers ==
  ASSUME RunInv, OnceInv, QuietRuns, UserStep
  PROVE  OnceInv'
<1>1. UNCHANGED <<archive, phase, plan, stage, got, snap>>
  BY DEF UserStep, UserWrite, UserTouch, UserRemove, UserRename, UserCopy, FolderStep,
       TabletAnnotate, TabletRemove, TabletMove, TabletCreate, TabletStep, syncVars
<1>2. local \in [Key -> LocalFile]
  BY DEF RunInv, TypeOK
<1>3. ASSUME NEW k \in Key, LeavesPath(k)
      PROVE  phase # "scanned" /\ \A a \in Work : k # a.key
  BY <1>3 DEF LeavesPath
<1>4. ASSUME NEW k \in Key, UserWrite(k) \/ UserTouch(k) \/ UserRemove(k) PROVE OnceInv'
  <2>1. LeavesPath(k) /\ \A i \in Key \ {k} : local'[i] = local[i]
    BY <1>2, <1>4 DEF UserWrite, UserTouch, UserRemove
  <2>2. QED
    BY <1>1, <1>3, <2>1, OnceBesideUsers
<1>5. ASSUME NEW j \in Key, NEW k \in Key, UserRename(k, j) PROVE OnceInv'
  <2>1. LeavesPath(k) /\ LeavesPath(j) /\ \A i \in Key \ {j, k} : local'[i] = local[i]
    BY <1>2, <1>5 DEF UserRename
  <2>2. QED
    BY <1>1, <1>3, <2>1, OnceBesideUsers
<1>6. ASSUME NEW j \in Key, NEW k \in Key, UserCopy(k, j) PROVE OnceInv'
  <2>1. LeavesPath(j) /\ \A i \in Key \ {j} : local'[i] = local[i]
    BY <1>2, <1>6 DEF UserCopy
  <2>2. QED
    BY <1>1, <1>3, <2>1, OnceBesideUsers
<1>7. CASE local' = local
  BY <1>1, <1>7, OnceBesideUsers
<1>8. ASSUME \/ \E k \in Key : TabletCreate(k)
             \/ \E u \in Uuid : TabletAnnotate(u) \/ TabletRemove(u) \/ \E k \in Key : TabletMove(u, k)
      PROVE  local' = local
  BY <1>8 DEF TabletCreate, TabletAnnotate, TabletRemove, TabletMove, TabletStep
<1>9. QED
  BY <1>4, <1>5, <1>6, <1>7, <1>8 DEF UserStep

LEMMA OnceKeeps ==
  ASSUME QuietRuns
  PROVE  RunInv /\ OnceInv /\ [Next]_vars => OnceInv'
<1> SUFFICES ASSUME RunInv, OnceInv, [Next]_vars PROVE OnceInv'
  OBVIOUS
<1>1. CASE UNCHANGED vars
  <2>1. UNCHANGED <<archive, phase, plan, stage, got, snap, local>>
    BY <1>1 DEF vars, syncVars
  <2>2. QED
    BY <2>1, OnceBesideUsers
<1>2. CASE (\E o \in Options : Scan(o)) \/ Crash \/ TornCrash \/ Finish
  <2>1. archive' = archive /\ plan' = {} /\ (phase' = "scanned" => snap' = local /\ local' = local)
    BY <1>2 DEF Scan, Crash, TornCrash, Interrupted, Finish, EndRun, RunInv, RunShape
  <2>2. QED
    BY <2>1, OnceWithoutPlan
<1>3. CASE RecordTransfer \/ RecordLocalMove \/ RecordDelete \/ ForgetEntry
             \/ RecordAgreement \/ RebindEntry
  BY <1>3, OnceTransferred, OnceRenamed, OnceForgotten, OnceAgreed, OnceRebound
<1>4. CASE UploadDocument \/ CopyOnDevice \/ UpdatePayload \/ TouchLastModified
             \/ DownloadDocument \/ HashWritten \/ CopyLocally \/ MoveDocument \/ RenameFile
             \/ DeleteEffect
  BY <1>4, OnceAtEffects
<1>5. QED
  BY <1>1, <1>2, <1>3, <1>4, OncePlanned, OnceWithUsers DEF Next, SyncStep, ExecuteStep

\* At the start nothing is mapped.
LEMMA OnceStarts == Init => OnceInv
<1> SUFFICES ASSUME Init PROVE OnceInv
  OBVIOUS
<1>1. archive = [k \in Key |-> NoEntry] /\ plan = {} /\ phase = "idle"
  BY DEF Init
<1>2. Work = {}
  BY <1>1 DEF Work
<1>3. MappedOnce
  BY <1>1, NoEntryFits DEF MappedOnce
<1>4. PlanOnce /\ GotFits /\ ListedFilesAreThere
  BY <1>1, <1>2 DEF PlanOnce, GotFits, ListedFilesAreThere
<1>5. QED
  BY <1>3, <1>4 DEF OnceInv

\* Two paths never share a document in the archive, so no run writes one
\* document from two files or two files from one document (record_state_with,
\* plan()), whatever the users did between the runs and wherever a run was
\* interrupted.
THEOREM EntriesAreUnique ==
  QuietRuns => (Spec => []MappedOnce)
<1>1. SUFFICES ASSUME QuietRuns PROVE Spec => []MappedOnce
  OBVIOUS
<1>2. Init => OnceInv
  BY OnceStarts
<1>3. RunInv /\ OnceInv /\ [Next]_vars => OnceInv'
  BY <1>1, OnceKeeps
<1>4. OnceInv => MappedOnce
  BY DEF OnceInv
<1>5. QED
  BY <1>2, <1>3, <1>4, RunsAreSound, PTL DEF Spec
=============================================================================

-------------------------- MODULE RemoteStoreProofs --------------------------
(***************************************************************************)
(* Theorems about RemoteStore for every number of items, every listing the *)
(* tablet may start with and every number of operations: its types, that   *)
(* no operation, stopped anywhere, leaves a broken document, that the      *)
(* change of one field keeps what the tablet did to the others, and that   *)
(* every operation keeps the tree of items a tree.                         *)
(***************************************************************************)
EXTENDS RemoteStore, FiniteSetTheorems, SequenceTheorems, TLAPS

\* ---------------------------------------------------------------------
\* Induction, said with sets: what a recursive function yields.

LEMMA Least ==
  ASSUME NEW T, T \subseteq Nat, T # {}
  PROVE  \E n \in T : \A m \in T : n <= m
<1> DEFINE R == {p \in Nat \X Nat : p[1] < p[2]}
<1>1. IsWellFoundedOn(R, Nat)
  BY NatLessThanWellFounded DEF OpToRel
<1>2. \E n \in T : \A m \in T : <<m, n>> \notin R
  <2> HIDE DEF R
  <2>1. QED
    BY <1>1, WFMin
<1>3. PICK n \in T : \A m \in T : <<m, n>> \notin R
  BY <1>2
<1>4. \A m \in T : ~(m < n)
  <2>1. TAKE m \in T
  <2>2. m \in Nat /\ n \in Nat
    OBVIOUS
  <2>3. <<m, n>> \in R <=> <<m, n>>[1] < <<m, n>>[2]
    BY <2>2
  <2>4. QED
    BY <1>3, <2>3
<1>5. QED
  BY <1>4

LEMMA SetInduction ==
  ASSUME NEW S, 0 \in S, \A n \in S \cap Nat : n + 1 \in S
  PROVE  Nat \subseteq S
<1>1. SUFFICES ASSUME Nat \ S # {} PROVE FALSE
  OBVIOUS
<1>2. PICK n \in Nat \ S : \A m \in Nat \ S : n <= m
  BY <1>1, Least
<1>3. n # 0 /\ n - 1 \in Nat /\ n - 1 \in S
  BY <1>2
<1>4. (n - 1) + 1 \in S
  BY <1>3
<1>5. QED
  BY <1>4

\* A function is defined by its first value and a step within a set.
Follows(f, S, n, x, step) ==
  f \in [0..n -> S] /\ f[0] = x /\ \A i \in 1..n : f[i] = step[i][f[i - 1]]

LEMMA Recursion ==
  ASSUME NEW S, NEW n \in Nat, NEW x \in S, NEW step \in [1..n -> [S -> S]]
  PROVE  \E f : Follows(f, S, n, x, step)
<1> DEFINE Has(k) == \E f \in [0..k -> S] : f[0] = x /\ \A i \in 1..k : f[i] = step[i][f[i - 1]]
           Good == {k \in Nat : k <= n => Has(k)}
<1>1. Has(0)
  <2> DEFINE f == [i \in 0..0 |-> x]
  <2>1. f \in [0..0 -> S] /\ f[0] = x
    OBVIOUS
  <2>2. \A i \in 1..0 : FALSE
    OBVIOUS
  <2> HIDE DEF f
  <2>3. QED
    BY <2>1, <2>2
<1>2. ASSUME NEW m \in Nat, m + 1 <= n, Has(m) PROVE Has(m + 1)
  <2>1. m + 1 \in 1..n /\ step[m + 1] \in [S -> S]
    BY <1>2
  <2>2. PICK f \in [0..m -> S] : f[0] = x /\ \A i \in 1..m : f[i] = step[i][f[i - 1]]
    BY <1>2
  <2> DEFINE g == [i \in 0..m + 1 |-> IF i <= m THEN f[i] ELSE step[m + 1][f[m]]]
  <2>3. f[m] \in S
    BY <2>2
  <2>4. g \in [0..m + 1 -> S]
    BY <2>1, <2>3
  <2>5. g[0] = x /\ g[m + 1] = step[m + 1][g[m]]
    BY <2>2
  <2>6. ASSUME NEW i \in 1..m PROVE g[i] = step[i][g[i - 1]]
    BY <2>2
  <2>7. \A i \in 1..m + 1 : i = m + 1 \/ i \in 1..m
    OBVIOUS
  <2> HIDE DEF g
  <2>8. \A i \in 1..m + 1 : g[i] = step[i][g[i - 1]]
    <3>1. (m + 1) - 1 = m
      OBVIOUS
    <3>2. QED
      BY <2>5, <2>6, <2>7, <3>1
  <2>9. QED
    BY <2>4, <2>5, <2>8
<1> HIDE DEF Has
<1>3. 0 \in Good
  BY <1>1
<1>4. \A m \in Good \cap Nat : m + 1 \in Good
  BY <1>2
<1>5. Nat \subseteq Good
  <2> HIDE DEF Good
  <2>1. QED
    BY <1>3, <1>4, SetInduction
<1>6. Has(n)
  BY <1>5
<1>7. QED
  BY <1>6 DEF Has, Follows

\* A sequence of sequences is put together within any set closed under \o.
LEMMA FlattenStays ==
  ASSUME NEW W, <<>> \in W, \A s, t \in W : s \o t \in W, \A s \in W : <<>> \o s = s,
         NEW seqs \in Seq(W)
  PROVE  FlattenSeq(seqs) \in W
<1>1. CASE Len(seqs) = 0
  <2>1. seqs = <<>>
    BY <1>1
  <2>2. QED
    BY <1>1, <2>1 DEF FlattenSeq
<1>2. CASE Len(seqs) # 0
  <2> DEFINE n == Len(seqs)
             step == [i \in 1..n |-> [w \in W |-> w \o seqs[i]]]
             Eq(g) == g = [i \in 1..n |-> IF i = 1 THEN seqs[i] ELSE g[i - 1] \o seqs[i]]
             flatten == CHOOSE g : Eq(g)
  <2>0. n \in Nat /\ n # 0 /\ \A i \in 1..n : seqs[i] \in W
    BY <1>2
  <2>1. FlattenSeq(seqs) = flatten[n]
    BY <1>2 DEF FlattenSeq
  <2> HIDE DEF n, flatten
  <2>2. step \in [1..n -> [W -> W]]
    BY <2>0
  <2> DEFINE x == <<>>
  <2> HIDE DEF step, x
  <2>3. PICK f : Follows(f, W, n, x, step)
    <3>1. x \in W
      BY DEF x
    <3>2. QED
      BY <2>0, <2>2, <3>1, Recursion
  <2>4. ASSUME NEW i \in 1..n PROVE f[i] = f[i - 1] \o seqs[i]
    <3>1. i - 1 \in 0..n
      BY <2>0
    <3>2. f[i - 1] \in W
      BY <2>3, <3>1 DEF Follows
    <3>3. step[i][f[i - 1]] = f[i - 1] \o seqs[i]
      BY <3>2 DEF step
    <3>4. QED
      BY <2>3, <3>3 DEF Follows
  <2>5. Eq([i \in 1..n |-> f[i]])
    <3> DEFINE g == [i \in 1..n |-> f[i]]
    <3>1. ASSUME NEW i \in 1..n PROVE g[i] = IF i = 1 THEN seqs[i] ELSE g[i - 1] \o seqs[i]
      <4>1. CASE i = 1
        <5>1. f[1] = x \o seqs[1] /\ seqs[1] \in W
          <6>1. 1 \in 1..n /\ 1 - 1 = 0
            BY <2>0
          <6>2. f[0] = x
            BY <2>3 DEF Follows
          <6>3. f[1] = f[0] \o seqs[1]
            BY <2>4, <6>1
          <6>4. QED
            BY <2>0, <6>1, <6>2, <6>3
        <5>2. QED
          BY <4>1, <5>1 DEF x
      <4>2. CASE i # 1
        <5>1. i - 1 \in 1..n /\ g[i] = f[i] /\ g[i - 1] = f[i - 1]
          BY <2>0, <4>2
        <5>2. QED
          BY <2>4, <4>2, <5>1
      <4>3. QED
        BY <4>1, <4>2
    <3>2. QED
      BY <3>1
  <2>6. Eq(flatten)
    <3> HIDE DEF Eq
    <3>1. QED
      BY <2>5 DEF flatten
  <2>7. \A i \in 1..n : flatten[i] = IF i = 1 THEN seqs[i] ELSE flatten[i - 1] \o seqs[i]
    BY <2>6
  <2> DEFINE Good == {m \in Nat : m + 1 <= n => flatten[m + 1] \in W}
  <2>8. 0 \in Good
    BY <2>0, <2>7
  <2>9. ASSUME NEW m \in Nat, m \in Good PROVE m + 1 \in Good
    BY <2>0, <2>7, <2>9
  <2>10. Nat \subseteq Good
    <3> HIDE DEF Good
    <3>1. QED
      BY <2>8, <2>9, SetInduction
  <2>11. n - 1 \in Nat /\ (n - 1) + 1 = n
    BY <2>0
  <2>12. QED
    BY <2>1, <2>10, <2>11
<1>3. QED
  BY <1>1, <1>2

\* ---------------------------------------------------------------------
\* The commands an operation is made of, and what its plan guarantees.

Acts == {"put", "copy", "register", "read", "write", "drop", "fetch"}
Changes == [name : Names \cup {Same}, parent : Uuids \cup {Root, Stop}]
Files == Parts \cup {"metadata"} \cup (Names \X {"rmdoc", "pdf"})
Commands == [act : Acts, uuid : Uuids, part : Files, from : Uuids \cup {Stop},
             entry : Entry \cup Changes \cup {NoItem}]

Sane(c) ==
  /\ c.act = "put" => c.part \in Parts
  /\ c.act = "copy" => c.part = "payload"
  /\ c.act = "register" => c.entry \in Entry
  /\ c.act = "write" => c.entry \in Changes

\* What the request is not about, its writes leave the same.
Suits(do, c) ==
  c.act = "write" =>
    /\ do \in {"rename", "update"} => c.entry.parent = Stop
    /\ do \in {"move", "update"} => c.entry.name = Same

Reads(c, u) == c.act = "read" /\ c.uuid = u
Hides(c, u) == c.act = "drop" /\ c.part = "metadata" /\ c.uuid = u
Brings(c, u, p) == c.act \in {"put", "copy"} /\ c.part = p /\ c.uuid = u

\* A file goes after the item's metadata, for the payload.
Ends(c) == c.act = "drop" /\ c.part = "payload"
Shows(c) == c.act = "register" /\ c.entry.kind # "folder"

PlanOK(plan, do, new) ==
  \A i \in 1..Len(plan) :
    /\ Sane(plan[i]) /\ Suits(do, plan[i]) /\ plan[i].uuid < new
    /\ plan[i].act = "write" => i = 1 \/ Reads(plan[i - 1], plan[i].uuid)
    /\ plan[i].act = "drop" => \A j \in 1..Len(plan) : plan[j].act = "drop"
    /\ Shows(plan[i]) => i = Len(plan) /\ \A j \in 1..Len(plan) - 1 : plan[j].act \in {"put", "copy"}

\* The payload goes when the item is hidden already.
DropsHidden ==
  \A i \in 1..Len(todo) : Ends(todo[i]) =>
    meta[todo[i].uuid] = NoItem \/ \E j \in 1..i - 1 : Hides(todo[j], todo[i].uuid)

\* A document is registered when it is complete.
ShowsComplete ==
  \A i \in 1..Len(todo) : Shows(todo[i]) =>
    /\ meta[todo[i].uuid] = NoItem
    /\ \A p \in Essential(todo[i].entry.kind) :
         p \in parts[todo[i].uuid] \/ \E j \in 1..i - 1 : Brings(todo[j], todo[i].uuid, p)

\* What is written back was read, and is what the tablet has.
HeldIsCurrent ==
  todo # <<>> /\ Head(todo).act = "write" =>
    /\ held \in Entry /\ held # NoItem
    /\ Head(todo).uuid \notin raced => meta[Head(todo).uuid] = held

StoreInv ==
  /\ TypeOK
  /\ todo \in Seq(Commands) /\ PlanOK(todo, request.do, fresh)
  /\ DropsHidden /\ ShowsComplete /\ HeldIsCurrent
  /\ NoBrokenDocument

\* ---------------------------------------------------------------------
\* What the lookups return.

\* Listings: a tree of items with uuids.
IsListing(items) == DOMAIN items \subseteq Uuids /\ \A u \in DOMAIN items : items[u] \in Entry

LEMMA UuidFacts ==
  /\ NumItems \in Nat /\ Uuids \subseteq Nat /\ IsFiniteSet(Uuids)
  /\ \A u \in Uuids : u > 0 /\ u # Root /\ u # Stop /\ u # Trash
<1>1. NumItems \in Nat
  BY StoreAssumption
<1>2. IsFiniteSet(1..NumItems)
  BY <1>1, FS_Interval
<1>3. QED
  BY <1>1, <1>2 DEF Uuids, Root, Stop, Trash

Errors == {"notfound", "ambiguous"}

\* Where a walk can be: at an item, at its start or lost.
Places(items, start) == {Found(u) : u \in DOMAIN items \cup {start}} \cup {Failed(e) : e \in Errors}

LEMMA TheOnlyIsOne ==
  ASSUME NEW T, IsFiniteSet(T)
  PROVE  \/ \E u \in T : TheOnly(T) = Found(u)
         \/ \E e \in Errors : TheOnly(T) = Failed(e)
<1>1. CASE T = {}
  <2>1. Cardinality(T) = 0
    BY <1>1, FS_EmptySet
  <2>2. TheOnly(T) = Failed("notfound")
    BY <1>1, <2>1 DEF TheOnly
  <2>3. QED
    BY <2>2 DEF Errors
<1>2. CASE Cardinality(T) = 1
  <2>1. T # {}
    BY <1>2, FS_EmptySet
  <2>2. TheOnly(T) = Found(CHOOSE u \in T : TRUE)
    BY <1>2, <2>1 DEF TheOnly
  <2>3. QED
    BY <2>1, <2>2
<1>3. CASE Cardinality(T) > 1
  <2>1. T # {} /\ Cardinality(T) # 1
    BY <1>3, FS_EmptySet, FS_CardinalityType
  <2>2. TheOnly(T) = Failed("ambiguous")
    BY <1>3, <2>1 DEF TheOnly
  <2>3. QED
    BY <2>2 DEF Errors
<1>4. QED
  <2>1. Cardinality(T) \in Nat
    BY FS_CardinalityType
  <2>2. Cardinality(T) = 0 => T = {}
    BY FS_EmptySet
  <2>3. QED
    BY <1>1, <1>2, <1>3, <2>1, <2>2

LEMMA NamedIsFinite ==
  ASSUME NEW items, IsListing(items), NEW p, NEW name, NEW T, T \subseteq Named(items, p, name)
  PROVE  IsFiniteSet(T) /\ T \subseteq DOMAIN items
<1>1. Named(items, p, name) \subseteq DOMAIN items
  BY DEF Named, Children
<1>2. QED
  BY <1>1, UuidFacts, FS_Subset DEF IsListing

\* One step of a walk by names: lost, or at an item below.
LEMMA FoundOrFailed ==
  /\ \A u : Found(u).err = "none" /\ Found(u).uuid = u
  /\ \A e : Failed(e).err = e /\ Failed(e).uuid = Stop
  /\ "none" \notin Errors
BY DEF Found, Failed, Errors

LEMMA TheOnlyBelow ==
  ASSUME NEW items, IsListing(items), NEW p, NEW name, NEW T, T \subseteq Named(items, p, name),
         NEW start
  PROVE  /\ TheOnly(T) \in Places(items, start)
         /\ TheOnly(T).err = "none" => TheOnly(T).uuid \in T
<1>1. IsFiniteSet(T) /\ T \subseteq DOMAIN items
  BY NamedIsFinite
<1>2. CASE \E u \in T : TheOnly(T) = Found(u)
  BY <1>1, <1>2, FoundOrFailed DEF Places
<1>3. CASE \E e \in Errors : TheOnly(T) = Failed(e)
  BY <1>3, FoundOrFailed DEF Places
<1>4. QED
  BY <1>1, <1>2, <1>3, TheOnlyIsOne

\* resolve_item_ref returns an item of the listing, or an error.
LEMMA ResolvesToItem ==
  ASSUME NEW items, IsListing(items), NEW ref, NEW S, ref.path \in Seq(S),
         ResolveItemRef(items, ref).err = "none"
  PROVE  ResolveItemRef(items, ref).uuid \in DOMAIN items
<1> DEFINE n == Len(ref.path)
           next(w, i) == IF w.err # "none" THEN w ELSE TheOnly(Named(items, w.uuid, ref.path[i]))
           Eq(g) == g = [i \in 0..n |-> IF i = 0 THEN Found(Root) ELSE next(g[i - 1], i)]
           walk == CHOOSE g : Eq(g)
<1>1. CASE ref.uuid \in DOMAIN items
  BY <1>1, FoundOrFailed DEF ResolveItemRef
<1>2. CASE ref.uuid \notin DOMAIN items /\ ref.path = <<>>
  BY <1>2, FoundOrFailed DEF ResolveItemRef
<1>3. CASE ref.uuid \notin DOMAIN items /\ ref.path # <<>>
  <2>1. ResolveItemRef(items, ref) = walk[n]
    BY <1>3 DEF ResolveItemRef
  <2>2. n \in Nat /\ n > 0
    BY <1>3
  <2> HIDE DEF n, walk
  <2> DEFINE P == Places(items, Root)
             step == [i \in 1..n |-> [w \in P |-> next(w, i)]]
  <2>3. step \in [1..n -> [P -> P]]
    <3>1. ASSUME NEW i \in 1..n, NEW w \in P PROVE next(w, i) \in P
      BY TheOnlyBelow
    <3> HIDE DEF next, P
    <3>2. QED
      BY <3>1
  <2>4. Found(Root) \in P
    BY DEF Places
  <2> HIDE DEF step
  <2>5. PICK f : Follows(f, P, n, Found(Root), step)
    <3> HIDE DEF P
    <3>1. QED
      BY <2>2, <2>3, <2>4, Recursion
  <2>6. ASSUME NEW i \in 1..n PROVE f[i] = next(f[i - 1], i)
    <3> HIDE DEF P, next
    <3>1. f[i - 1] \in P
      BY <2>2, <2>5 DEF Follows
    <3>2. step[i][f[i - 1]] = next(f[i - 1], i)
      BY <3>1 DEF step
    <3>3. QED
      BY <2>5, <3>2 DEF Follows
  <2>7. Eq(f)
    <3> HIDE DEF next
    <3>1. f = [i \in 0..n |-> f[i]] /\ f[0] = Found(Root)
      BY <2>5 DEF Follows
    <3>2. \A i \in 0..n : f[i] = IF i = 0 THEN Found(Root) ELSE next(f[i - 1], i)
      BY <2>2, <2>6, <3>1
    <3>3. QED
      BY <3>1, <3>2
  <2>8. Eq(walk)
    <3> HIDE DEF Eq
    <3>1. QED
      BY <2>7 DEF walk
  <2>9. walk[n] = next(walk[n - 1], n)
    <3> HIDE DEF next
    <3>1. QED
      BY <2>2, <2>8
  <2>10. walk[n].err = "none"
    BY <2>1
  <2>11. walk[n - 1].err = "none" /\ walk[n] = TheOnly(Named(items, walk[n - 1].uuid, ref.path[n]))
    BY <2>9, <2>10
  <2>12. walk[n].uuid \in Named(items, walk[n - 1].uuid, ref.path[n])
    BY <2>10, <2>11, TheOnlyBelow
  <2>13. QED
    BY <2>1, <2>12 DEF Named, Children
<1>4. QED
  BY <1>1, <1>2, <1>3

\* What can hold items: the root and the folders.
Homes(items) == {u \in DOMAIN items : IsFolder(items, u)} \cup {Root}

\* resolve_folder_ref returns the root or a folder of the listing, or an error.
LEMMA ResolvesToFolder ==
  ASSUME NEW items, IsListing(items), NEW ref, NEW S, ref.path \in Seq(S),
         ResolveFolderRef(items, ref).err = "none"
  PROVE  /\ ResolveFolderRef(items, ref).uuid \in DOMAIN items \cup {Root}
         /\ ResolveFolderRef(items, ref).uuid \in Homes(items)
<1>1. CASE ref.path = <<>>
  <2>1. ResolveFolderRef(items, ref).uuid = Root
    BY <1>1, FoundOrFailed DEF ResolveFolderRef
  <2>2. QED
    BY <2>1 DEF Homes
<1>2. CASE ref.path # <<>>
  <2> DEFINE item == ResolveItemRef(items, ref)
  <2>1. ~(item.err = "none" /\ ~IsFolder(items, item.uuid))
    BY <1>2, FoundOrFailed DEF ResolveFolderRef
  <2>2. ResolveFolderRef(items, ref) = item
    BY <1>2, <2>1 DEF ResolveFolderRef
  <2>3. item.uuid \in DOMAIN items
    BY <2>2, ResolvesToItem
  <2>4. QED
    BY <2>1, <2>2, <2>3 DEF Homes
<1>3. QED
  BY <1>1, <1>2

\* descendants stays within the listing.
LEMMA DescendantsAreItems ==
  ASSUME NEW items, IsListing(items), NEW p
  PROVE  Descendants(items, p) \subseteq DOMAIN items
<1> DEFINE n == Cardinality(DOMAIN items)
           S == SUBSET DOMAIN items
           next(l) == UNION {Children(items, u) : u \in l}
           Eq(g) == g = [i \in 0..n |-> IF i = 0 THEN Children(items, p) ELSE next(g[i - 1])]
           level == CHOOSE g : Eq(g)
<1>1. Descendants(items, p) = UNION {level[i] : i \in DOMAIN level}
  BY DEF Descendants
<1>2. n \in Nat
  BY UuidFacts, FS_Subset, FS_CardinalityType DEF IsListing
<1>3. \A u : Children(items, u) \in S
  BY DEF Children
<1>4. \A l : next(l) \in S
  BY <1>3
<1> HIDE DEF n, level, next
<1> DEFINE step == [i \in 1..n |-> [l \in S |-> next(l)]]
<1>5. step \in [1..n -> [S -> S]] /\ \A i \in 1..n : \A l \in S : step[i][l] = next(l)
  <2> HIDE DEF S
  <2>1. QED
    BY <1>4
<1> HIDE DEF step, S
<1>6. PICK f : Follows(f, S, n, Children(items, p), step)
  BY <1>2, <1>3, <1>5, Recursion
<1>7. Eq(f)
  <2>1. f = [i \in 0..n |-> f[i]] /\ f[0] = Children(items, p)
    BY <1>6 DEF Follows
  <2>2. \A i \in 0..n : f[i] = IF i = 0 THEN Children(items, p) ELSE next(f[i - 1])
    BY <1>2, <1>5, <1>6 DEF Follows
  <2>3. QED
    BY <2>1, <2>2
<1>8. Eq(level)
  <2> HIDE DEF Eq
  <2>1. QED
    BY <1>7 DEF level
<1>9. \A i \in DOMAIN level : level[i] \in S
  BY <1>3, <1>4, <1>8
<1>10. QED
  BY <1>1, <1>9 DEF S

LEMMA DoomedAreItems ==
  ASSUME NEW items, IsListing(items), NEW targets, targets \subseteq DOMAIN items
  PROVE  Doomed(items, targets) \subseteq DOMAIN items
BY DescendantsAreItems DEF Doomed

\* resolve_glob only meets items of the listing.
LEMMA GlobsMeetItems ==
  ASSUME NEW items, IsListing(items), NEW pattern
  PROVE  ResolveGlob(items, pattern) \subseteq DOMAIN items
<1> DEFINE n == Cardinality(DOMAIN items)
           X == [uuid : DOMAIN items, path : Seq(Names)]
           below(at) == {[uuid |-> u, path |-> Append(at.path, items[u].name)] :
                           u \in Children(items, at.uuid)}
           next(l) == UNION {below(at) : at \in {x \in l : IsFolder(items, x.uuid)}}
           Eq(g) == g = [i \in 0..n |-> IF i = 0 THEN below([uuid |-> Root, path |-> <<>>])
                                        ELSE next(g[i - 1])]
           level == CHOOSE g : Eq(g)
<1>1. ResolveGlob(items, pattern) =
        {at.uuid : at \in {x \in UNION {level[i] : i \in DOMAIN level} : MatchSegments(pattern, x.path)}}
  BY DEF ResolveGlob
<1>2. n \in Nat
  BY UuidFacts, FS_Subset, FS_CardinalityType DEF IsListing
<1>3. ASSUME NEW at, at.path \in Seq(Names) PROVE below(at) \in SUBSET X
  <2>1. ASSUME NEW u \in Children(items, at.uuid)
        PROVE  [uuid |-> u, path |-> Append(at.path, items[u].name)] \in X
    <3>1. u \in DOMAIN items /\ items[u].name \in Names
      BY <2>1 DEF Children, IsListing, Entry
    <3>2. QED
      BY <1>3, <3>1
  <2> HIDE DEF X
  <2>2. QED
    BY <2>1
<1>4. below([uuid |-> Root, path |-> <<>>]) \in SUBSET X
  <2>1. [uuid |-> Root, path |-> <<>>].path \in Seq(Names)
    OBVIOUS
  <2> HIDE DEF below, X
  <2>2. QED
    BY <1>3, <2>1
<1>5. \A l \in SUBSET X : next(l) \in SUBSET X
  <2>1. \A at \in X : at.path \in Seq(Names)
    OBVIOUS
  <2> HIDE DEF below, X
  <2>2. QED
    BY <1>3, <2>1
<1>6. \A l \in SUBSET X : \A x \in l : x.uuid \in DOMAIN items
  OBVIOUS
<1> DEFINE S == SUBSET X
           x0 == below([uuid |-> Root, path |-> <<>>])
<1> HIDE DEF n, level, next, below, X
<1> DEFINE step == [i \in 1..n |-> [l \in S |-> next(l)]]
<1>7. step \in [1..n -> [S -> S]] /\ \A i \in 1..n : \A l \in S : step[i][l] = next(l)
  BY <1>5
<1> HIDE DEF step, S
<1>8. x0 \in S
  BY <1>4 DEF S
<1>9. PICK f : Follows(f, S, n, x0, step)
  <2> HIDE DEF x0
  <2>1. QED
    BY <1>2, <1>7, <1>8, Recursion
<1>10. Eq(f)
  <2> HIDE DEF x0
  <2>1. f = [i \in 0..n |-> f[i]] /\ f[0] = x0
    BY <1>9 DEF Follows
  <2>2. \A i \in 0..n : f[i] = IF i = 0 THEN x0 ELSE next(f[i - 1])
    BY <1>2, <1>7, <1>9 DEF Follows
  <2>3. QED
    BY <2>1, <2>2 DEF x0
<1>11. Eq(level)
  <2> HIDE DEF Eq
  <2>1. QED
    BY <1>10 DEF level
<1> DEFINE Good == {i \in Nat : i <= n => level[i] \in S}
<1>12. 0 \in Good
  BY <1>2, <1>8, <1>11
<1>13. \A i \in Good \cap Nat : i + 1 \in Good
  <2>1. TAKE i \in Good \cap Nat
  <2>2. SUFFICES ASSUME i + 1 <= n PROVE level[i + 1] \in S
    OBVIOUS
  <2>3. i + 1 \in 0..n /\ i + 1 # 0 /\ (i + 1) - 1 = i /\ i <= n
    BY <1>2, <2>2
  <2>4. level[i + 1] = next(level[i])
    <3> HIDE DEF x0
    <3>1. level[i + 1] = IF i + 1 = 0 THEN x0 ELSE next(level[(i + 1) - 1])
      BY <1>11, <2>3 DEF x0
    <3>2. QED
      BY <2>3, <3>1
  <2>5. level[i] \in S
    BY <2>3
  <2>6. QED
    BY <1>5, <2>4, <2>5 DEF S
<1>14. Nat \subseteq Good
  <2> HIDE DEF Good
  <2>1. QED
    BY <1>12, <1>13, SetInduction
<1>15. \A i \in DOMAIN level : level[i] \in SUBSET X
  <2>1. DOMAIN level = 0..n
    BY <1>11
  <2>2. QED
    BY <1>2, <1>14, <2>1 DEF S
<1>16. QED
  <2>1. \A x \in UNION {level[i] : i \in DOMAIN level} : x.uuid \in DOMAIN items
    BY <1>6, <1>15
  <2>2. QED
    BY <1>1, <2>1

LEMMA ExpandsToItems ==
  ASSUME NEW items, IsListing(items), NEW ref, NEW S, ref.path \in Seq(S)
  PROVE  ExpandRef(items, ref) \subseteq DOMAIN items
<1>1. CASE ResolveItemRef(items, ref).err = "none"
  <2>1. ExpandRef(items, ref) = {ResolveItemRef(items, ref).uuid}
    BY <1>1 DEF ExpandRef
  <2>2. QED
    BY <1>1, <2>1, ResolvesToItem
<1>2. CASE /\ ResolveItemRef(items, ref).err = "notfound"
           /\ \E i \in DOMAIN ref.path : ref.path[i] \in Glob
  <2>1. ExpandRef(items, ref) = ResolveGlob(items, ref.path)
    BY <1>2 DEF ExpandRef
  <2>2. QED
    BY <2>1, GlobsMeetItems
<1>3. CASE /\ ResolveItemRef(items, ref).err # "none"
           /\ ~(/\ ResolveItemRef(items, ref).err = "notfound"
                /\ \E i \in DOMAIN ref.path : ref.path[i] \in Glob)
  <2>1. ExpandRef(items, ref) = {}
    BY <1>3 DEF ExpandRef
  <2>2. QED
    BY <2>1
<1>4. QED
  BY <1>1, <1>2, <1>3

\* An initial segment of the numbers is as long as it has members.
LEMMA InitialSegment ==
  ASSUME NEW n \in Nat, NEW T, T \subseteq 1..n, \A i \in T : \A j \in 1..i : j \in T
  PROVE  Cardinality(T) \in 0..n /\ T = 1..Cardinality(T)
<1> DEFINE Out == {k \in Nat : k + 1 \notin T}
<1>1. n \in Out
  OBVIOUS
<1>2. PICK m \in Out : \A k \in Out : m <= k
  <2>1. Out \subseteq Nat /\ Out # {}
    BY <1>1
  <2> HIDE DEF Out
  <2>2. QED
    BY <2>1, Least
<1>3. m \in 0..n
  BY <1>1, <1>2
<1>4. ASSUME NEW j \in 1..m PROVE j \in T
  <2>1. j - 1 \in Nat /\ ~(m <= j - 1) /\ (j - 1) + 1 = j
    BY <1>3
  <2>2. QED
    BY <1>2, <2>1
<1>5. ASSUME NEW i \in T PROVE i \in 1..m
  <2>1. i \in 1..n
    OBVIOUS
  <2>2. i <= m
    <3>1. SUFFICES ASSUME m + 1 <= i PROVE FALSE
      BY <1>3, <2>1
    <3>2. m + 1 \in 1..i
      BY <1>3, <2>1, <3>1
    <3>3. QED
      BY <1>2, <3>2
  <2>3. QED
    BY <2>1, <2>2
<1>6. T = 1..m
  BY <1>4, <1>5
<1>7. Cardinality(1..m) = m
  BY <1>3, FS_Interval
<1>8. QED
  BY <1>3, <1>6, <1>7

\* mkdir_path finds the folders of a path up to the first that is missing.
Known(items, parent, path) ==
  Cardinality({i \in 1..Len(path) : MissingFrom(items, parent, path)[i].err = "none"})

LEMMA WayExists ==
  ASSUME NEW items, IsListing(items), NEW parent \in Homes(items),
         NEW S, NEW path \in Seq(S)
  PROVE  /\ Known(items, parent, path) \in 0..Len(path)
         /\ MissingFrom(items, parent, path)[Known(items, parent, path)].uuid \in Homes(items)
<1> DEFINE n == Len(path)
           P == {w \in Places(items, parent) : w.err = "none" => w.uuid \in Homes(items)}
           next(w, i) == IF w.err # "none" THEN w ELSE FindChildFolder(items, w.uuid, path[i])
           Eq(g) == g = [i \in 0..n |-> IF i = 0 THEN Found(parent) ELSE next(g[i - 1], i)]
           way == CHOOSE g : Eq(g)
           T == {i \in 1..n : way[i].err = "none"}
           known == Cardinality(T)
<1>1. MissingFrom(items, parent, path) = way
  BY DEF MissingFrom
<1>2. n \in Nat
  OBVIOUS
<1>3. ASSUME NEW w \in P, NEW i PROVE next(w, i) \in P
  <2>1. CASE w.err # "none"
    BY <1>3, <2>1
  <2>2. CASE w.err = "none"
    <3> DEFINE T0 == {u \in Named(items, w.uuid, path[i]) : IsFolder(items, u)}
    <3>1. next(w, i) = TheOnly(T0)
      BY <2>2 DEF FindChildFolder
    <3>2. T0 \subseteq Named(items, w.uuid, path[i])
      OBVIOUS
    <3>3. T0 \subseteq Homes(items)
      BY DEF Homes, Named, Children
    <3> HIDE DEF T0, next
    <3>4. TheOnly(T0) \in Places(items, parent) /\ (TheOnly(T0).err = "none" => TheOnly(T0).uuid \in T0)
      BY <3>2, TheOnlyBelow
    <3>5. QED
      BY <3>1, <3>3, <3>4
  <2>3. QED
    BY <2>1, <2>2
<1>4. Found(parent) \in P
  BY FoundOrFailed DEF Places, Homes
<1>5. \A w \in P : w.err = "none" => w.uuid \in Homes(items)
  OBVIOUS
<1>6. \A w, i : w.err # "none" => next(w, i).err # "none"
  OBVIOUS
<1> HIDE DEF n, way, next, P
<1> DEFINE step == [i \in 1..n |-> [w \in P |-> next(w, i)]]
<1>7. step \in [1..n -> [P -> P]] /\ \A i \in 1..n : \A w \in P : step[i][w] = next(w, i)
  BY <1>3
<1> HIDE DEF step
<1>8. PICK f : Follows(f, P, n, Found(parent), step)
  BY <1>2, <1>4, <1>7, Recursion
<1>9. Eq(f)
  <2>1. f = [i \in 0..n |-> f[i]] /\ f[0] = Found(parent)
    BY <1>8 DEF Follows
  <2>2. \A i \in 0..n : f[i] = IF i = 0 THEN Found(parent) ELSE next(f[i - 1], i)
    BY <1>2, <1>7, <1>8 DEF Follows
  <2>3. QED
    BY <2>1, <2>2
<1>10. Eq(way)
  <2> HIDE DEF Eq
  <2>1. QED
    BY <1>9 DEF way
<1>11. way[0] = Found(parent) /\ \A i \in 1..n : way[i] = next(way[i - 1], i)
  BY <1>2, <1>10
<1> HIDE DEF Eq
<1> DEFINE Good == {i \in Nat : i <= n => way[i] \in P}
<1>12. 0 \in Good
  BY <1>4, <1>11
<1>13. \A i \in Good \cap Nat : i + 1 \in Good
  <2>1. TAKE i \in Good \cap Nat
  <2>2. SUFFICES ASSUME i + 1 <= n PROVE way[i + 1] \in P
    OBVIOUS
  <2>3. i + 1 \in 1..n /\ (i + 1) - 1 = i /\ i <= n
    BY <1>2, <2>2
  <2>4. QED
    BY <1>3, <1>11, <2>3
<1>14. Nat \subseteq Good
  <2> HIDE DEF Good
  <2>1. QED
    BY <1>12, <1>13, SetInduction
\* Once lost, always lost: the folders found come first.
<1>15. \A i \in T : \A j \in 1..i : j \in T
  <2>1. SUFFICES ASSUME NEW i \in T, NEW j \in 1..i, j \notin T PROVE FALSE
    OBVIOUS
  <2> DEFINE Lost == {k \in Nat : j + k <= n => way[j + k].err # "none"}
  <2>2. i \in 1..n /\ j \in 1..n /\ way[j].err # "none"
    BY <1>2, <2>1
  <2>3. 0 \in Lost
    BY <2>2
  <2>4. \A k \in Lost \cap Nat : k + 1 \in Lost
    <3>1. TAKE k \in Lost \cap Nat
    <3>2. SUFFICES ASSUME j + (k + 1) <= n PROVE way[j + (k + 1)].err # "none"
      OBVIOUS
    <3>3. j + (k + 1) \in 1..n /\ (j + (k + 1)) - 1 = j + k /\ j + k <= n
      BY <1>2, <2>2, <3>2
    <3>4. QED
      BY <1>6, <1>11, <3>3
  <2>5. Nat \subseteq Lost
    <3> HIDE DEF Lost
    <3>1. QED
      BY <2>3, <2>4, SetInduction
  <2>6. i - j \in Nat /\ j + (i - j) = i /\ i <= n
    BY <1>2, <2>2
  <2>7. way[i].err # "none"
    BY <2>5, <2>6
  <2>8. QED
    BY <2>7
<1>16. known \in 0..n /\ T = 1..known
  <2>1. T \subseteq 1..n
    OBVIOUS
  <2> HIDE DEF T
  <2>2. QED
    BY <1>2, <1>15, <2>1, InitialSegment
<1>17. way[known].err = "none" /\ way[known] \in P
  <2>1. known \in Nat /\ known <= n
    BY <1>2, <1>16
  <2>2. way[known] \in P
    BY <1>14, <2>1
  <2>3. CASE known = 0
    BY <1>11, <2>2, <2>3, FoundOrFailed
  <2>4. CASE known # 0
    <3>1. known \in 1..known
      BY <2>1, <2>4
    <3>2. known \in T
      BY <1>16, <3>1
    <3>3. QED
      BY <2>2, <3>2
  <2>5. QED
    BY <2>3, <2>4
<1>18. Known(items, parent, path) = known
  BY <1>1 DEF n, Known
<1> HIDE DEF known
<1>19. QED
  BY <1>1, <1>5, <1>16, <1>17, <1>18 DEF n

\* ---------------------------------------------------------------------
\* Plans put together from the commands for one item after the other.

\* Commands of some acts on some items that neither show a document nor end a
\* shown one, and that write what they have read.
Safe(acts, uuids, do) ==
  {plan \in Seq(Commands) :
     \A i \in 1..Len(plan) :
       /\ plan[i].act \in acts /\ plan[i].uuid \in uuids
       /\ Sane(plan[i]) /\ Suits(do, plan[i]) /\ ~Shows(plan[i])
       /\ plan[i].act = "write" => i > 1 /\ Reads(plan[i - 1], plan[i].uuid)
       /\ Ends(plan[i]) => \E j \in 1..i - 1 : Hides(plan[j], plan[i].uuid)}

LEMMA SafeJoin ==
  ASSUME NEW acts, NEW uuids, NEW do, NEW s \in Safe(acts, uuids, do), NEW t \in Safe(acts, uuids, do)
  PROVE  s \o t \in Safe(acts, uuids, do)
<1> DEFINE r == s \o t
<1>1. /\ s \in Seq(Commands) /\ t \in Seq(Commands) /\ Len(s) \in Nat /\ Len(t) \in Nat
      /\ r \in Seq(Commands) /\ Len(r) = Len(s) + Len(t)
      /\ \A i \in 1..Len(s) + Len(t) : r[i] = IF i <= Len(s) THEN s[i] ELSE t[i - Len(s)]
  BY ConcatProperties DEF Safe
<1> HIDE DEF r
<1>2. ASSUME NEW i \in 1..Len(r)
      PROVE  /\ r[i].act \in acts /\ r[i].uuid \in uuids
             /\ Sane(r[i]) /\ Suits(do, r[i]) /\ ~Shows(r[i])
             /\ r[i].act = "write" => i > 1 /\ Reads(r[i - 1], r[i].uuid)
             /\ Ends(r[i]) => \E j \in 1..i - 1 : Hides(r[j], r[i].uuid)
  <2>1. CASE i <= Len(s)
    <3>1. i \in 1..Len(s) /\ \A j \in 1..i : r[j] = s[j]
      BY <1>1, <2>1
    <3>2. i > 1 => r[i - 1] = s[i - 1]
      BY <3>1
    <3>3. r[i] = s[i]
      BY <3>1
    <3>4. /\ s[i].act \in acts /\ s[i].uuid \in uuids
          /\ Sane(s[i]) /\ Suits(do, s[i]) /\ ~Shows(s[i])
          /\ s[i].act = "write" => i > 1 /\ Reads(s[i - 1], s[i].uuid)
          /\ Ends(s[i]) => \E j \in 1..i - 1 : Hides(s[j], s[i].uuid)
      BY <3>1 DEF Safe
    <3>5. \A j \in 1..i - 1 : r[j] = s[j]
      BY <3>1
    <3>6. QED
      BY <3>2, <3>3, <3>4, <3>5
  <2>2. CASE ~(i <= Len(s))
    <3> DEFINE k == i - Len(s)
    <3>1. k \in 1..Len(t) /\ k + Len(s) = i
      BY <1>1, <2>2
    <3>2. \A j \in 1..k : j + Len(s) \in 1..i /\ r[j + Len(s)] = t[j]
      <4>1. TAKE j \in 1..k
      <4>2. j + Len(s) \in 1..Len(s) + Len(t) /\ ~(j + Len(s) <= Len(s)) /\ (j + Len(s)) - Len(s) = j
        BY <1>1, <3>1
      <4>3. QED
        BY <1>1, <3>1, <4>2
    <3>3. k > 1 => r[i - 1] = t[k - 1]
      <4>1. k > 1 => k - 1 \in 1..k /\ (k - 1) + Len(s) = i - 1
        BY <1>1, <3>1
      <4>2. QED
        BY <3>2, <4>1
    <3>4. r[i] = t[k]
      BY <3>1, <3>2
    <3>5. /\ t[k].act \in acts /\ t[k].uuid \in uuids
          /\ Sane(t[k]) /\ Suits(do, t[k]) /\ ~Shows(t[k])
          /\ t[k].act = "write" => k > 1 /\ Reads(t[k - 1], t[k].uuid)
          /\ Ends(t[k]) => \E j \in 1..k - 1 : Hides(t[j], t[k].uuid)
      BY <3>1 DEF Safe
    <3>6. \A j \in 1..k - 1 : j + Len(s) \in 1..i - 1 /\ r[j + Len(s)] = t[j]
      <4>1. TAKE j \in 1..k - 1
      <4>2. j \in 1..k /\ j + Len(s) \in 1..i - 1
        BY <1>1, <3>1
      <4>3. QED
        BY <3>2, <4>2
    <3>7. k > 1 => i > 1
      BY <1>1, <3>1
    <3> HIDE DEF k
    <3>8. QED
      BY <3>3, <3>4, <3>5, <3>6, <3>7
  <2>3. QED
    BY <2>1, <2>2
<1>3. r \in Safe(acts, uuids, do)
  BY <1>1, <1>2 DEF Safe
<1>4. QED
  BY <1>3 DEF r

LEMMA SafeFlatten ==
  ASSUME NEW acts, NEW uuids, NEW do, NEW n \in Nat, NEW seqs,
         seqs \in [1..n -> Safe(acts, uuids, do)]
  PROVE  FlattenSeq(seqs) \in Safe(acts, uuids, do)
<1> DEFINE W == Safe(acts, uuids, do)
<1>1. <<>> \in W
  <2>1. <<>> \in Seq(Commands) /\ Len(<<>>) = 0
    OBVIOUS
  <2>2. QED
    BY <2>1 DEF Safe
<1>2. \A s \in W : <<>> \o s = s
  <2>1. \A s \in W : s \in Seq(Commands)
    BY DEF Safe
  <2> HIDE DEF W
  <2>2. QED
    BY <2>1, ConcatEmptySeq
<1>3. \A s, t \in W : s \o t \in W
  BY SafeJoin
<1>4. seqs \in Seq(W)
  <2> HIDE DEF W
  <2>1. seqs \in [1..n -> W]
    BY DEF W
  <2>2. QED
    BY <2>1, SeqDef
<1> HIDE DEF W
<1>5. FlattenSeq(seqs) \in W
  BY <1>1, <1>2, <1>3, <1>4, FlattenStays
<1>6. QED
  BY <1>5 DEF W

LEMMA SafePlan ==
  ASSUME NEW acts, NEW uuids, NEW do, NEW plan \in Safe(acts, uuids, do), NEW new,
         \A u \in uuids : u < new,
         "drop" \in acts => acts = {"drop"}
  PROVE  /\ plan \in Seq(Commands) /\ PlanOK(plan, do, new)
         /\ \A i \in 1..Len(plan) :
              /\ plan[i].act # "write" \/ i > 1
              /\ ~Shows(plan[i])
              /\ Ends(plan[i]) => \E j \in 1..i - 1 : Hides(plan[j], plan[i].uuid)
BY DEF Safe, PlanOK

\* The commands for one item.
LEMMA UpdateIsSafe ==
  ASSUME NEW uuids, NEW u \in uuids, u \in Uuids, NEW name \in Names \cup {Same},
         NEW parent \in Uuids \cup {Root, Stop}, NEW do,
         do \in {"rename", "update"} => parent = Stop,
         do \in {"move", "update"} => name = Same
  PROVE  Update(u, name, parent) \in Safe({"read", "write"}, uuids, do)
<1> DEFINE plan == Update(u, name, parent)
           c == Command("read", u, "metadata")
           d == [Command("write", u, "metadata") EXCEPT !.entry = [name |-> name, parent |-> parent]]
<1>1. c = [act |-> "read", uuid |-> u, part |-> "metadata", from |-> Stop, entry |-> NoItem]
  BY DEF Command
<1>2. d = [act |-> "write", uuid |-> u, part |-> "metadata", from |-> Stop,
           entry |-> [name |-> name, parent |-> parent]]
  BY DEF Command
<1>3. plan = <<c, d>>
  BY DEF Update
<1>4. [name |-> name, parent |-> parent] \in Changes
  BY DEF Changes
<1> HIDE DEF plan, c, d
<1>5. c \in Commands /\ d \in Commands
  BY <1>1, <1>2, <1>4 DEF Commands, Acts, Files
<1>6. plan \in Seq(Commands) /\ Len(plan) = 2 /\ plan[1] = c /\ plan[2] = d
  BY <1>3, <1>5
<1>7. Sane(c) /\ Suits(do, c) /\ ~Shows(c) /\ ~Ends(c) /\ c.act = "read" /\ c.uuid = u
  BY <1>1 DEF Sane, Suits, Shows, Ends
<1>8. Sane(d) /\ Suits(do, d) /\ ~Shows(d) /\ ~Ends(d) /\ d.act = "write" /\ d.uuid = u
  BY <1>2, <1>4 DEF Sane, Suits, Shows, Ends
<1>9. Reads(c, u)
  BY <1>7 DEF Reads
<1>10. ASSUME NEW i \in 1..Len(plan)
       PROVE  /\ plan[i].act \in {"read", "write"} /\ plan[i].uuid \in uuids
              /\ Sane(plan[i]) /\ Suits(do, plan[i]) /\ ~Shows(plan[i])
              /\ plan[i].act = "write" => i > 1 /\ Reads(plan[i - 1], plan[i].uuid)
              /\ ~Ends(plan[i])
  <2>1. CASE i = 1
    BY <1>6, <1>7, <2>1
  <2>2. CASE i = 2
    BY <1>6, <1>8, <1>9, <2>2
  <2>3. QED
    BY <1>6, <2>1, <2>2
<1>11. plan \in Safe({"read", "write"}, uuids, do)
  BY <1>6, <1>10 DEF Safe
<1>12. QED
  BY <1>11 DEF plan

LEMMA RemoveIsSafe ==
  ASSUME NEW uuids, NEW u \in uuids, u \in Uuids, NEW do
  PROVE  RemoveFiles(u) \in Safe({"drop"}, uuids, do)
<1> DEFINE plan == RemoveFiles(u)
           file == <<"dir", "content", "metadata", "pagedata", "payload">>
<1>1. \A i \in 1..5 : file[i] \in Files /\ (i < 5 => file[i] # "payload")
  <2>1. \A i \in 1..5 : i = 1 \/ i = 2 \/ i = 3 \/ i = 4 \/ i = 5
    OBVIOUS
  <2>2. QED
    BY <2>1 DEF Files, Parts
<1>2. file[3] = "metadata"
  OBVIOUS
<1>3. plan = [i \in 1..5 |-> Command("drop", u, file[i])]
  BY DEF RemoveFiles
<1> HIDE DEF plan, file
<1>4. \A i \in 1..5 : plan[i] = [act |-> "drop", uuid |-> u, part |-> file[i], from |-> Stop, entry |-> NoItem]
  BY <1>3 DEF Command
<1>5. \A i \in 1..5 : plan[i] \in Commands
  BY <1>1, <1>4 DEF Commands, Acts
<1>6. plan \in Seq(Commands) /\ Len(plan) = 5
  BY <1>3, <1>5
<1>7. Hides(plan[3], u)
  <2>1. 3 \in 1..5
    OBVIOUS
  <2>2. QED
    BY <1>2, <1>4, <2>1 DEF Hides
<1>8. ASSUME NEW i \in 1..5
      PROVE  /\ plan[i].act = "drop" /\ plan[i].uuid = u
             /\ Sane(plan[i]) /\ Suits(do, plan[i]) /\ ~Shows(plan[i])
             /\ Ends(plan[i]) => 3 \in 1..i - 1
  BY <1>1, <1>4 DEF Sane, Suits, Shows, Ends
<1>9. plan \in Safe({"drop"}, uuids, do)
  BY <1>6, <1>7, <1>8 DEF Safe
<1>10. QED
  BY <1>9 DEF plan

LEMMA FolderIsSafe ==
  ASSUME NEW uuids, NEW u \in uuids, u \in Uuids, NEW name \in Names,
         NEW parent \in Uuids \cup {Root}, NEW do
  PROVE  CreateFolder(u, name, parent) \in Safe({"register", "put"}, uuids, do)
<1> DEFINE plan == CreateFolder(u, name, parent)
           entry == [name |-> name, parent |-> parent, kind |-> "folder"]
           c == Register(u, entry)
           d == Put(u, "content")
           e == Put(u, "pagedata")
<1>1. entry \in Entry /\ entry.kind = "folder"
  BY DEF Entry, Kinds
<1>2. plan = <<c, d, e>>
  BY DEF CreateFolder
<1> HIDE DEF entry
<1>3. c = [act |-> "register", uuid |-> u, part |-> "metadata", from |-> Stop, entry |-> entry]
  BY DEF Register, Command
<1>4. /\ d = [act |-> "put", uuid |-> u, part |-> "content", from |-> Stop, entry |-> NoItem]
      /\ e = [act |-> "put", uuid |-> u, part |-> "pagedata", from |-> Stop, entry |-> NoItem]
  BY DEF Put, Command
<1> HIDE DEF plan, c, d, e
<1>5. c \in Commands /\ d \in Commands /\ e \in Commands
  BY <1>1, <1>3, <1>4 DEF Commands, Acts, Files, Parts
<1>6. plan \in Seq(Commands) /\ Len(plan) = 3 /\ plan[1] = c /\ plan[2] = d /\ plan[3] = e
  BY <1>2, <1>5
<1>7. Sane(c) /\ Suits(do, c) /\ ~Shows(c) /\ ~Ends(c) /\ c.act = "register" /\ c.uuid = u
  BY <1>1, <1>3 DEF Sane, Suits, Shows, Ends
<1>8. Sane(d) /\ Suits(do, d) /\ ~Shows(d) /\ ~Ends(d) /\ d.act = "put" /\ d.uuid = u
  BY <1>4 DEF Sane, Suits, Shows, Ends, Parts
<1>9. Sane(e) /\ Suits(do, e) /\ ~Shows(e) /\ ~Ends(e) /\ e.act = "put" /\ e.uuid = u
  BY <1>4 DEF Sane, Suits, Shows, Ends, Parts
<1>10. ASSUME NEW i \in 1..Len(plan)
       PROVE  /\ plan[i].act \in {"register", "put"} /\ plan[i].uuid \in uuids
              /\ Sane(plan[i]) /\ Suits(do, plan[i]) /\ ~Shows(plan[i]) /\ ~Ends(plan[i])
  <2>1. CASE i = 1
    BY <1>6, <1>7, <2>1
  <2>2. CASE i = 2
    BY <1>6, <1>8, <2>2
  <2>3. CASE i = 3
    BY <1>6, <1>9, <2>3
  <2>4. QED
    BY <1>6, <2>1, <2>2, <2>3
<1>11. plan \in Safe({"register", "put"}, uuids, do)
  BY <1>6, <1>10 DEF Safe
<1>12. QED
  BY <1>11 DEF plan

\* ---------------------------------------------------------------------
\* How an operation starts.

LEMMA ListingFacts ==
  ASSUME TypeOK
  PROVE  /\ IsListing(Listing)
         /\ \A u \in DOMAIN Listing : u \in Uuids /\ u < fresh /\ meta[u] \in Entry /\ meta[u] # NoItem
                                      /\ Listing[u] = meta[u]
         /\ fresh \in Nat /\ fresh <= NumItems + 1
<1>1. DOMAIN Listing = {v \in Uuids : meta[v] # NoItem} /\ \A u \in DOMAIN Listing : Listing[u] = meta[u]
  BY DEF Listing
<1>2. \A u \in Uuids : meta[u] \in Entry \cup {NoItem}
  BY DEF TypeOK
<1>3. fresh \in Nat /\ fresh <= NumItems + 1 /\ \A u \in Uuids : u >= fresh => meta[u] = NoItem
  BY UuidFacts DEF TypeOK
<1>4. ASSUME NEW u \in DOMAIN Listing
      PROVE  u \in Uuids /\ u < fresh /\ meta[u] \in Entry /\ meta[u] # NoItem /\ Listing[u] = meta[u]
  <2>1. u \in Uuids /\ meta[u] # NoItem
    BY <1>1
  <2>2. u \in Nat /\ ~(u >= fresh)
    BY <1>3, <2>1, UuidFacts
  <2>3. QED
    BY <1>1, <1>2, <1>3, <2>1, <2>2
<1>5. IsListing(Listing)
  BY <1>4 DEF IsListing
<1>6. QED
  BY <1>3, <1>4, <1>5

\* What stays while an operation starts, whatever it is.
LEMMA RefuseKeeps ==
  ASSUME StoreAssumption, StoreInv, result # "running", ops < MaxOps, NEW r, Refuse(r)
  PROVE  StoreInv'
<1> USE DEF StoreInv
<1>1. TypeOK'
  BY UuidFacts DEF Refuse, Begin, TypeOK, StoreAssumption
<1>2. todo' = <<>> /\ Len(todo') = 0
  BY DEF Refuse
<1>3. NoBrokenDocument'
  BY DEF NoBrokenDocument, Refuse, Begin
<1>4. QED
  BY <1>1, <1>2, <1>3 DEF PlanOK, DropsHidden, ShowsComplete, HeldIsCurrent

LEMMA RunKeeps ==
  ASSUME StoreAssumption, StoreInv, result # "running", ops < MaxOps,
         NEW r, NEW commands \in Seq(Commands), NEW new \in Nat, Run(r, commands, new),
         PlanOK(commands, r.do, fresh + new),
         \A i \in 1..Len(commands) :
           /\ commands[i].act # "write" \/ i > 1
           /\ Shows(commands[i]) =>
                /\ meta[commands[i].uuid] = NoItem
                /\ \A p \in Essential(commands[i].entry.kind) :
                     \E j \in 1..i - 1 : Brings(commands[j], commands[i].uuid, p)
           /\ Ends(commands[i]) => \E j \in 1..i - 1 : Hides(commands[j], commands[i].uuid)
  PROVE  StoreInv'
<1> USE DEF StoreInv
<1>1. /\ todo' = commands /\ result' = IF commands = <<>> THEN "done" ELSE "running"
      /\ fresh' = fresh + new /\ fresh + new <= NumItems + 1
      /\ request' = r /\ ops' = ops + 1 /\ local' = <<>> /\ held' = NoItem
      /\ UNCHANGED <<meta, parts, edits, raced, halved>>
  BY DEF Run, Begin
<1>2. fresh' \in 1..NumItems + 1 /\ \A u \in Uuids : u >= fresh' => u >= fresh
  BY <1>1, UuidFacts DEF TypeOK
<1>3. TypeOK'
  BY <1>1, <1>2 DEF TypeOK, StoreAssumption
<1>4. PlanOK(todo', request'.do, fresh')
  BY <1>1
<1>5. DropsHidden' /\ ShowsComplete'
  BY <1>1 DEF DropsHidden, ShowsComplete
<1>6. HeldIsCurrent'
  <2>1. commands # <<>> => Head(commands) = commands[1] /\ 1 \in 1..Len(commands)
    OBVIOUS
  <2>2. commands # <<>> => Head(commands).act # "write"
    BY <2>1
  <2>3. QED
    BY <1>1, <2>2 DEF HeldIsCurrent
<1>7. NoBrokenDocument'
  BY <1>1 DEF NoBrokenDocument
<1>8. QED
  BY <1>1, <1>3, <1>4, <1>5, <1>6, <1>7

LEMMA SafeRunKeeps ==
  ASSUME StoreAssumption, StoreInv, result # "running", ops < MaxOps,
         NEW r, NEW acts, NEW uuids, NEW commands \in Safe(acts, uuids, r.do), NEW new \in Nat,
         Run(r, commands, new),
         \A u \in uuids : u < fresh + new, "drop" \in acts => acts = {"drop"}
  PROVE  StoreInv'
<1>1. /\ commands \in Seq(Commands) /\ PlanOK(commands, r.do, fresh + new)
      /\ \A i \in 1..Len(commands) :
           /\ commands[i].act # "write" \/ i > 1
           /\ ~Shows(commands[i])
           /\ Ends(commands[i]) => \E j \in 1..i - 1 : Hides(commands[j], commands[i].uuid)
  <2> DEFINE n == fresh + new
  <2>1. \A u \in uuids : u < n
    OBVIOUS
  <2> HIDE DEF n
  <2>2. /\ commands \in Seq(Commands) /\ PlanOK(commands, r.do, n)
        /\ \A i \in 1..Len(commands) :
             /\ commands[i].act # "write" \/ i > 1
             /\ ~Shows(commands[i])
             /\ Ends(commands[i]) => \E j \in 1..i - 1 : Hides(commands[j], commands[i].uuid)
    BY <2>1, SafePlan
  <2>3. QED
    BY <2>2 DEF n
<1>2. QED
  BY <1>1, RunKeeps

\* The references are sequences of segments.
LEMMA RefFacts ==
  /\ \A p \in Paths : p \in Seq(Segments)
  /\ \A p \in NamePaths : p \in Seq(Names)
  /\ \E S : \A ref \in Refs \cup FolderRefs : ref.path \in Seq(S)
<1>0. \A S : \A n \in 1..2 : \A p \in [1..n -> S] : p \in Seq(S)
  BY SeqDef
<1>1. \A p \in Paths : p \in Seq(Segments)
  BY <1>0 DEF Paths
<1>2. \A p \in NamePaths : p \in Seq(Names)
  BY <1>0 DEF NamePaths
<1> DEFINE S == Segments \cup Names \cup {"uuid"}
<1>3. \A p \in Seq(Segments) \cup Seq(Names) : p \in Seq(S)
  BY SeqMonotonic
<1>4. \A u : ByUuid(u).path \in Seq(S)
  BY DEF ByUuid
<1>5. \A n \in Names : ByPath(<<n>>).path \in Seq(S)
  BY DEF ByPath
<1>6. ByPath(<<>>).path \in Seq(S)
  BY DEF ByPath
<1>7. \A p \in Paths : ByPath(p).path \in Seq(S)
  BY <1>1, <1>3 DEF ByPath
<1>8. \A ref \in Refs \cup FolderRefs : ref.path \in Seq(S)
  BY <1>4, <1>5, <1>6, <1>7 DEF Refs, FolderRefs
<1>9. QED
  BY <1>1, <1>2, <1>8

\* Requests.
LEMMA RequestFacts ==
  \A do, refs, at, name : Request(do, refs, at, name).do = do
BY DEF Request

LEMMA MkdirKeeps ==
  ASSUME StoreAssumption, StoreInv, result # "running", ops < MaxOps,
         NEW path \in NamePaths, NEW at \in FolderRefs, Mkdir(path, at)
  PROVE  StoreInv'
<1> DEFINE items == Listing
           parent == ResolveFolderRef(items, at)
           way == MissingFrom(items, parent.uuid, path)
           known == Cardinality({i \in 1..Len(path) : way[i].err = "none"})
           r == [Request("mkdir", {}, at, Same) EXCEPT !.refs = {ByPath(path)}]
           new == Len(path) - known
           commands == FlattenSeq([k \in 1..new |->
                         CreateFolder(fresh + k - 1, path[known + k],
                                      IF k = 1 THEN way[known].uuid ELSE fresh + k - 2)])
<1>1. CASE Refuse(r)
  BY <1>1, RefuseKeeps
<1>2. CASE parent.err = "none" /\ Run(r, commands, new)
  <2>0. TypeOK
    BY DEF StoreInv
  <2>1. IsListing(items)
    BY <2>0, ListingFacts
  <2>2. parent.uuid \in Homes(items)
    BY <1>2, <2>1, RefFacts, ResolvesToFolder
  <2>3. path \in Seq(Names)
    BY RefFacts
  <2>4. known \in 0..Len(path) /\ way[known].uuid \in Homes(items)
    <3>1. known = Known(items, parent.uuid, path)
      BY DEF Known
    <3> HIDE DEF items, parent, known
    <3>2. QED
      BY <2>1, <2>2, <2>3, <3>1, WayExists
  <2>5. way[known].uuid \in Uuids \cup {Root}
    BY <2>1, <2>4 DEF IsListing, Homes
  <2>6. Len(path) \in Nat /\ new \in Nat /\ fresh \in Nat /\ fresh >= 1 /\ fresh + new <= NumItems + 1
    <3>1. fresh \in Nat /\ fresh >= 1
      BY <2>0, UuidFacts DEF TypeOK
    <3>2. fresh + new <= NumItems + 1
      BY <1>2 DEF Run
    <3>3. QED
      BY <2>3, <2>4, <3>1, <3>2
  <2> DEFINE uuids == fresh..fresh + new - 1
             folders == [k \in 1..new |->
                          CreateFolder(fresh + k - 1, path[known + k],
                                       IF k = 1 THEN way[known].uuid ELSE fresh + k - 2)]
  <2> HIDE DEF items, known, way, parent
  <2>7. ASSUME NEW k \in 1..new
        PROVE  folders[k] \in Safe({"register", "put"}, uuids, "mkdir")
    <3> DEFINE u == fresh + k - 1
               below == IF k = 1 THEN way[known].uuid ELSE fresh + k - 2
    <3>1. u \in uuids /\ u \in Uuids
      BY <2>6, UuidFacts DEF Uuids
    <3>2. path[known + k] \in Names
      <4>1. known + k \in 1..Len(path)
        BY <2>4, <2>6
      <4>2. QED
        BY <2>3, <4>1
    <3>3. k # 1 => fresh + k - 2 \in Uuids
      BY <2>6, UuidFacts DEF Uuids
    <3>4. below \in Uuids \cup {Root}
      BY <2>5, <3>3
    <3> HIDE DEF u, below, uuids
    <3>5. CreateFolder(u, path[known + k], below) \in Safe({"register", "put"}, uuids, "mkdir")
      BY <3>1, <3>2, <3>4, FolderIsSafe
    <3>6. folders[k] = CreateFolder(u, path[known + k], below)
      BY DEF u, below
    <3>7. QED
      BY <3>5, <3>6
  <2>8. \A u \in uuids : u < fresh + new
    BY <2>6
  <2>9. commands \in Safe({"register", "put"}, uuids, "mkdir")
    <3>1. commands = FlattenSeq(folders)
      OBVIOUS
    <3>2. folders \in [1..new -> Safe({"register", "put"}, uuids, "mkdir")]
      <4>1. folders = [k \in 1..new |-> folders[k]]
        OBVIOUS
      <4> HIDE DEF folders, uuids
      <4>2. QED
        BY <2>7, <4>1
    <3> HIDE DEF folders, uuids, commands
    <3>3. QED
      BY <2>6, <3>1, <3>2, SafeFlatten
  <2>10. r.do = "mkdir"
    BY RequestFacts DEF Request
  <2> HIDE DEF commands, uuids, r, new
  <2>11. "drop" \notin {"register", "put"}
    OBVIOUS
  <2>12. QED
    BY <1>2, <2>6, <2>8, <2>9, <2>10, <2>11, SafeRunKeeps
<1>3. QED
  BY <1>1, <1>2 DEF Mkdir

LEMMA MoveKeeps ==
  ASSUME StoreAssumption, StoreInv, result # "running", ops < MaxOps,
         NEW ref \in Refs, NEW at \in FolderRefs, Move(ref, at)
  PROVE  StoreInv'
<1> DEFINE items == Listing
           dest == ResolveFolderRef(items, at)
           uuids == ExpandRef(items, ref)
           need == NeedMoving(items, uuids, dest.uuid)
           r == Request("move", {ref}, at, Same)
           commands(order) == FlattenSeq([i \in DOMAIN order |-> Update(order[i], Same, dest.uuid)])
<1>1. CASE Refuse(r)
  BY <1>1, RefuseKeeps
<1>2. ASSUME dest.err = "none", NEW order \in SetToSeqs(need), Run(r, commands(order), 0)
      PROVE  StoreInv'
  <2>0. TypeOK
    BY DEF StoreInv
  <2>1. IsListing(items) /\ fresh \in Nat /\ \A u \in DOMAIN items : u \in Uuids /\ u < fresh
    BY <2>0, ListingFacts
  <2>2. dest.uuid \in Uuids \cup {Root, Stop}
    BY <1>2, <2>1, RefFacts, ResolvesToFolder
  <2>3. need \subseteq DOMAIN items
    BY <2>1, RefFacts, ExpandsToItems DEF NeedMoving
  <2>4. Cardinality(need) \in Nat
    BY <2>1, <2>3, UuidFacts, FS_Subset, FS_CardinalityType DEF IsListing
  <2>5. order \in [1..Cardinality(need) -> need]
    BY <1>2 DEF SetToSeqs
  <2> DEFINE n == Cardinality(need)
             seqs == [i \in 1..n |-> Update(order[i], Same, dest.uuid)]
  <2> HIDE DEF items, dest, need, uuids
  <2>6. DOMAIN order = 1..n
    BY <2>5
  <2>7. ASSUME NEW i \in 1..n
        PROVE  seqs[i] \in Safe({"read", "write"}, DOMAIN items, "move")
    <3>1. order[i] \in DOMAIN items /\ order[i] \in Uuids
      BY <2>1, <2>3, <2>5
    <3>2. QED
      BY <2>2, <3>1, UpdateIsSafe
  <2>8. commands(order) \in Safe({"read", "write"}, DOMAIN items, "move")
    <3>1. commands(order) = FlattenSeq(seqs)
      BY <2>6
    <3>2. seqs \in [1..n -> Safe({"read", "write"}, DOMAIN items, "move")]
      <4>1. seqs = [i \in 1..n |-> seqs[i]]
        OBVIOUS
      <4> HIDE DEF seqs
      <4>2. QED
        BY <2>7, <4>1
    <3> HIDE DEF seqs, n, commands
    <3>3. n \in Nat
      BY <2>4 DEF n
    <3>4. QED
      BY <3>1, <3>2, <3>3, SafeFlatten
  <2>9. r.do = "move"
    BY RequestFacts
  <2>10. \A u \in DOMAIN items : u < fresh + 0
    BY <2>1
  <2> HIDE DEF commands, r
  <2>11. "drop" \notin {"read", "write"} /\ 0 \in Nat
    OBVIOUS
  <2>12. QED
    BY <1>2, <2>8, <2>9, <2>10, <2>11, SafeRunKeeps
<1>3. QED
  BY <1>1, <1>2 DEF Move

\* An update of one item.
LEMMA UpdateKeeps ==
  ASSUME StoreAssumption, StoreInv, result # "running", ops < MaxOps,
         NEW r, NEW u \in DOMAIN Listing, NEW name \in Names \cup {Same},
         NEW parent \in Uuids \cup {Root, Stop},
         r.do \in {"rename", "update"} => parent = Stop,
         r.do \in {"move", "update"} => name = Same,
         Run(r, Update(u, name, parent), 0)
  PROVE  StoreInv'
<1>1. u \in Uuids /\ u < fresh /\ fresh \in Nat
  BY ListingFacts DEF StoreInv
<1> DEFINE uuids == {u}
           commands == Update(u, name, parent)
<1>2. commands \in Safe({"read", "write"}, uuids, r.do)
  BY <1>1, UpdateIsSafe
<1>3. \A v \in uuids : v < fresh + 0
  BY <1>1
<1>4. "drop" \notin {"read", "write"} /\ 0 \in Nat
  OBVIOUS
<1>5. Run(r, commands, 0)
  OBVIOUS
<1> HIDE DEF uuids, commands
<1>6. QED
  BY <1>2, <1>3, <1>4, <1>5, SafeRunKeeps

LEMMA RenameKeeps ==
  ASSUME StoreAssumption, StoreInv, result # "running", ops < MaxOps,
         NEW ref \in Refs, NEW name \in Names, Rename(ref, name)
  PROVE  StoreInv'
<1> DEFINE items == Listing
           item == ResolveItemRef(items, ref)
           r == Request("rename", {ref}, ByPath(<<>>), name)
<1>1. CASE Refuse(r)
  BY <1>1, RefuseKeeps
<1>2. CASE item.err = "none" /\ Run(r, <<>>, 0)
  <2> DEFINE commands == <<>>
  <2>1. commands \in Seq(Commands) /\ Len(commands) = 0 /\ 0 \in Nat
    OBVIOUS
  <2> HIDE DEF commands, r
  <2>2. PlanOK(commands, r.do, fresh + 0)
    BY <2>1 DEF PlanOK
  <2>3. Run(r, commands, 0)
    BY <1>2 DEF commands
  <2>4. \A i \in 1..Len(commands) : FALSE
    BY <2>1
  <2>5. QED
    BY <2>1, <2>2, <2>3, <2>4, RunKeeps
<1>3. CASE item.err = "none" /\ Run(r, Update(item.uuid, name, Stop), 0)
  <2>1. IsListing(items)
    BY ListingFacts DEF StoreInv
  <2>2. item.uuid \in DOMAIN Listing
    BY <1>3, <2>1, RefFacts, ResolvesToItem
  <2>3. r.do = "rename"
    BY RequestFacts
  <2> HIDE DEF r, item
  <2>4. QED
    BY <1>3, <2>2, <2>3, UpdateKeeps
<1>4. QED
  BY <1>1, <1>2, <1>3 DEF Rename

LEMMA MoveDocumentKeeps ==
  ASSUME StoreAssumption, StoreInv, result # "running", ops < MaxOps,
         NEW u \in Uuids, NEW at \in FolderRefs, NEW name \in Names, MoveDocument(u, at, name)
  PROVE  StoreInv'
<1> DEFINE items == Listing
           parent == ResolveFolderRef(items, at)
           r == Request("relocate", {ByUuid(u)}, at, name)
<1>1. u \in DOMAIN Listing /\ parent.err = "none" /\ Run(r, Update(u, name, parent.uuid), 0)
  BY DEF MoveDocument
<1>2. IsListing(items)
  BY ListingFacts DEF StoreInv
<1>3. parent.uuid \in Uuids \cup {Root, Stop}
  <2>1. parent.uuid \in DOMAIN items \cup {Root}
    BY <1>1, <1>2, RefFacts, ResolvesToFolder
  <2>2. QED
    BY <1>2, <2>1 DEF IsListing
<1>4. r.do = "relocate"
  BY RequestFacts
<1> HIDE DEF r, parent
<1>5. QED
  BY <1>1, <1>3, <1>4, UpdateKeeps

\* An upload: the files of one new document, and then its registration.
LEMMA NewDocumentKeeps ==
  ASSUME StoreAssumption, StoreInv, result # "running", ops < MaxOps,
         NEW r, NEW n \in Nat, NEW commands \in Seq(Commands), Len(commands) = n + 1,
         \A i \in 1..n : /\ commands[i].act \in {"put", "copy"} /\ commands[i].uuid = fresh
                         /\ commands[i].part \in Parts
                         /\ commands[i].act = "copy" => commands[i].part = "payload",
         commands[n + 1].act = "register", commands[n + 1].uuid = fresh,
         commands[n + 1].entry \in Entry,
         \A p \in Essential(commands[n + 1].entry.kind) : \E j \in 1..n : commands[j].part = p,
         Run(r, commands, 1)
  PROVE  StoreInv'
<1>1. fresh \in Uuids /\ fresh \in Nat /\ meta[fresh] = NoItem
  <2>1. fresh \in 1..NumItems + 1 /\ fresh + 1 <= NumItems + 1
    BY DEF StoreInv, TypeOK, Run
  <2>2. fresh \in Uuids
    BY <2>1, UuidFacts DEF Uuids
  <2>3. fresh >= fresh
    BY <2>1
  <2>4. QED
    BY <2>1, <2>2, <2>3, UuidFacts DEF StoreInv, TypeOK
<1>2. \A i \in 1..n + 1 : i = n + 1 \/ i \in 1..n
  OBVIOUS
<1>3. ASSUME NEW i \in 1..n
      PROVE  /\ Sane(commands[i]) /\ Suits(r.do, commands[i]) /\ commands[i].uuid < fresh + 1
             /\ commands[i].act # "write" /\ commands[i].act # "drop"
             /\ ~Shows(commands[i]) /\ ~Ends(commands[i])
             /\ commands[i].act \in {"put", "copy"}
  BY <1>1 DEF Sane, Suits, Shows, Ends
<1>4. /\ Sane(commands[n + 1]) /\ Suits(r.do, commands[n + 1]) /\ commands[n + 1].uuid < fresh + 1
      /\ commands[n + 1].act # "write" /\ commands[n + 1].act # "drop" /\ ~Ends(commands[n + 1])
  BY <1>1 DEF Sane, Suits, Ends
<1>5. PlanOK(commands, r.do, fresh + 1)
  <2>1. (n + 1) - 1 = n
    OBVIOUS
  <2>2. \A j \in 1..Len(commands) - 1 : commands[j].act \in {"put", "copy"}
    BY <1>3, <2>1
  <2>3. QED
    BY <1>2, <1>3, <1>4, <2>2 DEF PlanOK
<1>6. ASSUME NEW i \in 1..Len(commands)
      PROVE  /\ commands[i].act # "write" \/ i > 1
             /\ Shows(commands[i]) =>
                  /\ meta[commands[i].uuid] = NoItem
                  /\ \A p \in Essential(commands[i].entry.kind) :
                       \E j \in 1..i - 1 : Brings(commands[j], commands[i].uuid, p)
             /\ Ends(commands[i]) => \E j \in 1..i - 1 : Hides(commands[j], commands[i].uuid)
  <2>1. CASE i \in 1..n
    BY <1>3, <2>1
  <2>2. CASE i = n + 1
    <3>1. i - 1 = n
      BY <2>2
    <3>2. \A p \in Essential(commands[i].entry.kind) :
            \E j \in 1..i - 1 : Brings(commands[j], commands[i].uuid, p)
      BY <2>2, <3>1 DEF Brings
    <3>3. QED
      BY <1>1, <1>4, <2>2, <3>2
  <2>3. QED
    BY <1>2, <2>1, <2>2
<1>7. 1 \in Nat
  OBVIOUS
<1>8. QED
  BY <1>5, <1>6, <1>7, RunKeeps

LEMMA StoreDocumentKeeps ==
  ASSUME StoreAssumption, StoreInv, result # "running", ops < MaxOps,
         NEW r, NEW payload \in Commands, payload.act \in {"put", "copy"}, payload.uuid = fresh,
         payload.part = "payload", NEW entry \in Entry, entry.kind = "payload",
         fresh \in Uuids, Run(r, StoreDocument(fresh, payload, entry), 1)
  PROVE  StoreInv'
<1> DEFINE commands == StoreDocument(fresh, payload, entry)
           b == Put(fresh, "content")
           c == Put(fresh, "dir")
           d == Put(fresh, "pagedata")
           e == Register(fresh, entry)
<1>1. /\ b = [act |-> "put", uuid |-> fresh, part |-> "content", from |-> Stop, entry |-> NoItem]
      /\ c = [act |-> "put", uuid |-> fresh, part |-> "dir", from |-> Stop, entry |-> NoItem]
      /\ d = [act |-> "put", uuid |-> fresh, part |-> "pagedata", from |-> Stop, entry |-> NoItem]
      /\ e = [act |-> "register", uuid |-> fresh, part |-> "metadata", from |-> Stop, entry |-> entry]
  BY DEF Put, Register, Command
<1>2. commands = <<payload, b, c, d, e>>
  BY DEF StoreDocument
<1>3. Run(r, commands, 1)
  OBVIOUS
<1> HIDE DEF commands, b, c, d, e
<1>4. b \in Commands /\ c \in Commands /\ d \in Commands /\ e \in Commands
  BY <1>1 DEF Commands, Acts, Files, Parts
<1>5. /\ commands \in Seq(Commands) /\ Len(commands) = 5
      /\ commands[1] = payload /\ commands[2] = b /\ commands[3] = c /\ commands[4] = d
      /\ commands[5] = e
  BY <1>2, <1>4
<1>6. ASSUME NEW i \in 1..4
      PROVE  /\ commands[i].act \in {"put", "copy"} /\ commands[i].uuid = fresh
             /\ commands[i].part \in Parts
             /\ commands[i].act = "copy" => commands[i].part = "payload"
  <2>1. i = 1 \/ i = 2 \/ i = 3 \/ i = 4
    OBVIOUS
  <2>2. QED
    BY <1>1, <1>5, <2>1 DEF Parts
<1>7. /\ commands[4 + 1].act = "register" /\ commands[4 + 1].uuid = fresh
      /\ commands[4 + 1].entry = entry
  BY <1>1, <1>5
<1>8. \A p \in Essential(commands[4 + 1].entry.kind) : \E j \in 1..4 : commands[j].part = p
  <2>1. Essential(commands[4 + 1].entry.kind) = {"payload", "content"}
    BY <1>7 DEF Essential
  <2>2. commands[1].part = "payload" /\ commands[2].part = "content"
    BY <1>1, <1>5
  <2>3. 1 \in 1..4 /\ 2 \in 1..4
    OBVIOUS
  <2>4. QED
    BY <2>1, <2>2, <2>3
<1>9. 4 \in Nat /\ Len(commands) = 4 + 1
  BY <1>5
<1>10. QED
  BY <1>3, <1>5, <1>6, <1>7, <1>8, <1>9, NewDocumentKeeps

LEMMA RestoreBundleKeeps ==
  ASSUME StoreAssumption, StoreInv, result # "running", ops < MaxOps,
         NEW r, NEW entry \in Entry, entry.kind = "notebook",
         NEW files \in {<<"content", "dir">>, <<"dir", "content">>},
         fresh \in Uuids, Run(r, RestoreBundle(fresh, files, entry), 1)
  PROVE  StoreInv'
<1> DEFINE commands == RestoreBundle(fresh, files, entry)
           puts == [i \in DOMAIN files |-> Put(fresh, files[i])]
           e == Register(fresh, entry)
<1>1. /\ DOMAIN files = 1..2 /\ \A i \in 1..2 : files[i] \in {"content", "dir"}
      /\ \A p \in {"content", "dir"} : \E i \in 1..2 : files[i] = p
  <2>1. CASE files = <<"content", "dir">>
    <3>1. DOMAIN files = 1..2 /\ files[1] = "content" /\ files[2] = "dir"
      BY <2>1
    <3>2. 1 \in 1..2 /\ 2 \in 1..2 /\ \A i \in 1..2 : i = 1 \/ i = 2
      OBVIOUS
    <3>3. QED
      BY <3>1, <3>2
  <2>2. CASE files = <<"dir", "content">>
    <3>1. DOMAIN files = 1..2 /\ files[1] = "dir" /\ files[2] = "content"
      BY <2>2
    <3>2. 1 \in 1..2 /\ 2 \in 1..2 /\ \A i \in 1..2 : i = 1 \/ i = 2
      OBVIOUS
    <3>3. QED
      BY <3>1, <3>2
  <2>3. QED
    BY <2>1, <2>2
<1>2. \A i \in 1..2 : puts[i] = [act |-> "put", uuid |-> fresh, part |-> files[i], from |-> Stop,
                                 entry |-> NoItem]
  BY <1>1 DEF Put, Command
<1>3. e = [act |-> "register", uuid |-> fresh, part |-> "metadata", from |-> Stop, entry |-> entry]
  BY DEF Register, Command
<1>4. commands = puts \o <<e>> /\ Run(r, commands, 1)
  BY DEF RestoreBundle
<1>5. puts = [i \in 1..2 |-> puts[i]]
  BY <1>1
<1> HIDE DEF commands, puts, e
<1>6. /\ \A i \in 1..2 : puts[i] \in Commands
      /\ e \in Commands
  BY <1>1, <1>2, <1>3 DEF Commands, Acts, Files, Parts
<1>7. puts \in Seq(Commands) /\ Len(puts) = 2 /\ <<e>> \in Seq(Commands) /\ Len(<<e>>) = 1
  BY <1>5, <1>6
<1>8. /\ commands \in Seq(Commands) /\ Len(commands) = 3
      /\ \A i \in 1..2 : commands[i] = puts[i]
      /\ commands[3] = e
  <2>1. /\ commands \in Seq(Commands) /\ Len(commands) = 2 + 1
        /\ \A i \in 1..2 + 1 : commands[i] = IF i <= 2 THEN puts[i] ELSE <<e>>[i - 2]
    <3> DEFINE last == <<e>>
    <3>1. commands = puts \o last /\ last \in Seq(Commands) /\ Len(last) = 1
      BY <1>4, <1>7
    <3> HIDE DEF last
    <3>2. /\ commands \in Seq(Commands) /\ Len(commands) = Len(puts) + Len(last)
          /\ \A i \in 1..Len(puts) + Len(last) :
               commands[i] = IF i <= Len(puts) THEN puts[i] ELSE last[i - Len(puts)]
      BY <1>7, <3>1, ConcatProperties
    <3>3. QED
      BY <1>7, <3>1, <3>2 DEF last
  <2>2. 3 \in 1..2 + 1 /\ ~(3 <= 2) /\ 3 - 2 = 1
    OBVIOUS
  <2>3. \A i \in 1..2 : i \in 1..2 + 1 /\ i <= 2
    OBVIOUS
  <2>4. QED
    BY <2>1, <2>2, <2>3
<1>9. ASSUME NEW i \in 1..2
      PROVE  /\ commands[i].act \in {"put", "copy"} /\ commands[i].uuid = fresh
             /\ commands[i].part \in Parts
             /\ commands[i].act = "copy" => commands[i].part = "payload"
  BY <1>1, <1>2, <1>8 DEF Parts
<1>10. /\ commands[2 + 1].act = "register" /\ commands[2 + 1].uuid = fresh
       /\ commands[2 + 1].entry = entry
  BY <1>3, <1>8
<1>11. \A p \in Essential(commands[2 + 1].entry.kind) : \E j \in 1..2 : commands[j].part = p
  <2>1. Essential(commands[2 + 1].entry.kind) = {"content", "dir"}
    BY <1>10 DEF Essential
  <2>2. \A j \in 1..2 : commands[j].part = files[j]
    BY <1>2, <1>8
  <2>3. QED
    BY <1>1, <2>1, <2>2
<1>12. QED
  <2> DEFINE m == 2
  <2>1. m \in Nat /\ Len(commands) = m + 1
    BY <1>8
  <2>2. /\ commands[m + 1].act = "register" /\ commands[m + 1].uuid = fresh
        /\ commands[m + 1].entry \in Entry
    BY <1>10
  <2>3. \A i \in 1..m : /\ commands[i].act \in {"put", "copy"} /\ commands[i].uuid = fresh
                        /\ commands[i].part \in Parts
                        /\ commands[i].act = "copy" => commands[i].part = "payload"
    BY <1>9
  <2>4. \A q \in Essential(commands[m + 1].entry.kind) : \E j \in 1..m : commands[j].part = q
    BY <1>11
  <2>5. Run(r, commands, 1) /\ commands \in Seq(Commands)
    BY <1>4, <1>8
  <2> HIDE DEF m
  <2>6. QED
    BY <2>1, <2>2, <2>3, <2>4, <2>5, NewDocumentKeeps

\* Where a new document goes.
LEMMA NewEntry ==
  ASSUME StoreAssumption, StoreInv, NEW at \in FolderRefs, NEW name \in Names,
         NEW kind \in Kinds, MayAdd(at, name), NEW r, NEW commands, Run(r, commands, 1)
  PROVE  /\ [name |-> name, parent |-> ResolveFolderRef(Listing, at).uuid, kind |-> kind] \in Entry
         /\ fresh \in Uuids
<1>1. IsListing(Listing)
  BY ListingFacts DEF StoreInv
<1>2. ResolveFolderRef(Listing, at).uuid \in DOMAIN Listing \cup {Root}
  BY <1>1, RefFacts, ResolvesToFolder DEF MayAdd
<1>3. fresh \in 1..NumItems + 1 /\ fresh + 1 <= NumItems + 1
  BY DEF StoreInv, TypeOK, Run
<1>4. QED
  BY <1>1, <1>2, <1>3, UuidFacts DEF IsListing, Entry, Uuids

LEMMA UploadKeeps ==
  ASSUME StoreAssumption, StoreInv, result # "running", ops < MaxOps,
         NEW at \in FolderRefs, NEW name \in Names, Upload(at, name)
  PROVE  StoreInv'
<1> DEFINE entry(kind) == [name |-> name, parent |-> ResolveFolderRef(Listing, at).uuid, kind |-> kind]
           r == Request("upload", {}, at, name)
           payload == Put(fresh, "payload")
<1>1. CASE Refuse(r)
  BY <1>1, RefuseKeeps
<1>2. CASE MayAdd(at, name) /\ Run(r, StoreDocument(fresh, payload, entry("payload")), 1)
  <2>0. "payload" \in Kinds
    BY DEF Kinds
  <2>1. entry("payload") \in Entry /\ fresh \in Uuids
    BY <1>2, <2>0, NewEntry
  <2>2. entry("payload").kind = "payload"
    OBVIOUS
  <2>3. payload = [act |-> "put", uuid |-> fresh, part |-> "payload", from |-> Stop, entry |-> NoItem]
    BY DEF Put, Command
  <2>4. payload \in Commands
    BY <2>1, <2>3 DEF Commands, Acts, Files, Parts
  <2> HIDE DEF entry, payload, r
  <2>5. QED
    BY <1>2, <2>1, <2>2, <2>3, <2>4, StoreDocumentKeeps
<1>3. CASE /\ MayAdd(at, name)
           /\ \E files \in {<<"content", "dir">>, <<"dir", "content">>} :
                Run(r, RestoreBundle(fresh, files, entry("notebook")), 1)
  <2>0. "notebook" \in Kinds
    BY DEF Kinds
  <2>1. PICK files \in {<<"content", "dir">>, <<"dir", "content">>} :
          Run(r, RestoreBundle(fresh, files, entry("notebook")), 1)
    BY <1>3
  <2>2. entry("notebook") \in Entry /\ fresh \in Uuids
    BY <1>3, <2>0, <2>1, NewEntry
  <2>3. entry("notebook").kind = "notebook"
    OBVIOUS
  <2> HIDE DEF entry, r
  <2>4. QED
    BY <2>1, <2>2, <2>3, RestoreBundleKeeps
<1>4. QED
  BY <1>1, <1>2, <1>3 DEF Upload

LEMMA CopyOnDeviceKeeps ==
  ASSUME StoreAssumption, StoreInv, result # "running", ops < MaxOps,
         NEW u \in Uuids, NEW at \in FolderRefs, NEW name \in Names, CopyOnDevice(u, at, name)
  PROVE  StoreInv'
<1> DEFINE entry == [name |-> name, parent |-> ResolveFolderRef(Listing, at).uuid, kind |-> "payload"]
           r == Request("upload", {}, at, name)
           payload == CopyPayload(fresh, u)
<1>1. MayAdd(at, name) /\ Run(r, StoreDocument(fresh, payload, entry), 1)
  BY DEF CopyOnDevice
<1>2. "payload" \in Kinds
  BY DEF Kinds
<1>3. entry \in Entry /\ fresh \in Uuids
  BY <1>1, <1>2, NewEntry
<1>4. entry.kind = "payload"
  OBVIOUS
<1>5. payload = [act |-> "copy", uuid |-> fresh, part |-> "payload", from |-> u, entry |-> NoItem]
  BY DEF CopyPayload, Command
<1>6. payload \in Commands
  BY <1>3, <1>5 DEF Commands, Acts, Files, Parts
<1> HIDE DEF entry, payload, r
<1>7. QED
  BY <1>1, <1>3, <1>4, <1>5, <1>6, StoreDocumentKeeps

LEMMA UpdatePayloadKeeps ==
  ASSUME StoreAssumption, StoreInv, result # "running", ops < MaxOps,
         NEW u \in Uuids, UpdatePayload(u)
  PROVE  StoreInv'
<1> DEFINE r == Request("update", {ByUuid(u)}, ByPath(<<>>), Same)
           c == Put(u, "payload")
           uuids == {u}
           acts == {"put", "read", "write"}
           rest == Update(u, Same, Stop)
           commands == <<c>> \o rest
<1>1. u \in DOMAIN Listing /\ Run(r, commands, 0)
  BY DEF UpdatePayload
<1>2. u < fresh /\ fresh \in Nat
  BY <1>1, ListingFacts DEF StoreInv
<1>3. r.do = "update"
  BY RequestFacts
<1>4. rest \in Safe({"read", "write"}, uuids, "update")
  BY UpdateIsSafe
<1>5. c = [act |-> "put", uuid |-> u, part |-> "payload", from |-> Stop, entry |-> NoItem]
  BY DEF Put, Command
<1>6. c \in Commands
  BY <1>5 DEF Commands, Acts, Files, Parts
<1>7. Sane(c) /\ Suits("update", c) /\ ~Shows(c) /\ ~Ends(c) /\ c.act = "put" /\ c.uuid = u
  BY <1>5 DEF Sane, Suits, Shows, Ends, Parts
<1>8. <<c>> \in Safe(acts, uuids, "update")
  <2>1. <<c>> \in Seq(Commands) /\ Len(<<c>>) = 1 /\ <<c>>[1] = c
    BY <1>6
  <2>2. \A i \in 1..1 : i = 1
    OBVIOUS
  <2> DEFINE s == <<c>>
  <2> HIDE DEF c
  <2>3. ASSUME NEW i \in 1..Len(s)
        PROVE  /\ s[i].act \in acts /\ s[i].uuid \in uuids
               /\ Sane(s[i]) /\ Suits("update", s[i]) /\ ~Shows(s[i])
               /\ s[i].act # "write" /\ ~Ends(s[i])
    BY <1>7, <2>1, <2>2
  <2>4. s \in Seq(Commands)
    BY <2>1
  <2> HIDE DEF s, acts, uuids
  <2>5. s \in Safe(acts, uuids, "update")
    BY <2>3, <2>4 DEF Safe
  <2>6. QED
    BY <2>5 DEF s
<1>9. rest \in Safe(acts, uuids, "update")
  <2> HIDE DEF rest, uuids
  <2>1. QED
    BY <1>4 DEF Safe
<1>10. commands \in Safe(acts, uuids, "update")
  <2> HIDE DEF rest, acts, uuids, c
  <2>1. QED
    BY <1>8, <1>9, SafeJoin
<1>11. \A v \in uuids : v < fresh + 0
  BY <1>2
<1>12. "drop" \notin acts /\ 0 \in Nat
  OBVIOUS
<1> HIDE DEF commands, acts, uuids, r
<1>13. QED
  BY <1>1, <1>3, <1>10, <1>11, <1>12, SafeRunKeeps

LEMMA RemoveAllKeeps ==
  ASSUME StoreAssumption, StoreInv, result # "running", ops < MaxOps,
         NEW r, NEW gone, gone \subseteq DOMAIN Listing, RemoveAll(r, gone)
  PROVE  StoreInv'
<1>1. PICK order \in SetToSeqs(gone) :
        Run(r, FlattenSeq([i \in DOMAIN order |-> RemoveFiles(order[i])]), 0)
  BY DEF RemoveAll
<1>2. IsListing(Listing) /\ fresh \in Nat /\ \A u \in DOMAIN Listing : u \in Uuids /\ u < fresh
  BY ListingFacts DEF StoreInv
<1> DEFINE n == Cardinality(gone)
           seqs == [i \in DOMAIN order |-> RemoveFiles(order[i])]
           commands == FlattenSeq(seqs)
<1>3. n \in Nat
  BY <1>2, UuidFacts, FS_Subset, FS_CardinalityType DEF IsListing
<1>4. order \in [1..n -> gone] /\ DOMAIN order = 1..n
  BY DEF SetToSeqs
<1>5. ASSUME NEW i \in 1..n PROVE seqs[i] \in Safe({"drop"}, gone, r.do)
  <2>1. order[i] \in gone /\ order[i] \in Uuids
    BY <1>2, <1>4
  <2>2. seqs[i] = RemoveFiles(order[i])
    BY <1>4
  <2>3. QED
    BY <2>1, <2>2, RemoveIsSafe
<1>6. seqs \in [1..n -> Safe({"drop"}, gone, r.do)]
  <2>1. seqs = [i \in 1..n |-> seqs[i]]
    BY <1>4
  <2> HIDE DEF seqs
  <2>2. QED
    BY <1>5, <2>1
<1>7. Run(r, commands, 0)
  BY <1>1
<1>8. commands \in Safe({"drop"}, gone, r.do)
  <2> HIDE DEF seqs, n
  <2>1. QED
    BY <1>3, <1>6, SafeFlatten
<1>9. \A u \in gone : u < fresh + 0
  BY <1>2
<1> HIDE DEF commands
<1> DEFINE acts == {"drop"}
<1>10. acts = {"drop"} /\ 0 \in Nat
  OBVIOUS
<1>11. commands \in Safe(acts, gone, r.do)
  BY <1>8
<1> HIDE DEF acts
<1>12. QED
  BY <1>7, <1>9, <1>10, <1>11, SafeRunKeeps

LEMMA DeleteKeeps ==
  ASSUME StoreAssumption, StoreInv, result # "running", ops < MaxOps,
         NEW refs, refs \subseteq Refs, NEW recursive, Delete(refs, recursive)
  PROVE  StoreInv'
<1> DEFINE targets == UNION {ExpandRef(Listing, ref) : ref \in refs}
           r == Request("delete", refs, ByPath(<<>>), Same)
<1>1. CASE Refuse(r)
  BY <1>1, RefuseKeeps
<1>2. CASE RemoveAll(r, Doomed(Listing, targets))
  <2>1. IsListing(Listing)
    BY ListingFacts DEF StoreInv
  <2>2. \A ref \in refs : ExpandRef(Listing, ref) \subseteq DOMAIN Listing
    BY <2>1, RefFacts, ExpandsToItems
  <2>3. targets \subseteq DOMAIN Listing
    BY <2>2
  <2> HIDE DEF targets, r
  <2>4. Doomed(Listing, targets) \subseteq DOMAIN Listing
    BY <2>1, <2>3, DoomedAreItems
  <2>5. QED
    BY <1>2, <2>4, RemoveAllKeeps
<1>3. QED
  BY <1>1, <1>2 DEF Delete

LEMMA InTrashAreItems ==
  ASSUME StoreAssumption, TypeOK
  PROVE  Doomed(Listing, Children(Listing, Trash)) \subseteq DOMAIN Listing
<1>1. IsListing(Listing)
  BY ListingFacts
<1>2. Children(Listing, Trash) \subseteq DOMAIN Listing
  BY DEF Children
<1>3. QED
  BY <1>1, <1>2, DoomedAreItems

LEMMA EmptyTrashKeeps ==
  ASSUME StoreAssumption, StoreInv, result # "running", ops < MaxOps, EmptyTrash
  PROVE  StoreInv'
<1>1. Doomed(Listing, Children(Listing, Trash)) \subseteq DOMAIN Listing
  BY InTrashAreItems DEF StoreInv
<1>2. QED
  BY <1>1, RemoveAllKeeps DEF EmptyTrash

LEMMA DeleteDocumentKeeps ==
  ASSUME StoreAssumption, StoreInv, result # "running", ops < MaxOps,
         NEW u \in Uuids, DeleteDocument(u)
  PROVE  StoreInv'
<1> DEFINE r == Request("delete", {ByUuid(u)}, ByPath(<<>>), Same)
           commands == RemoveFiles(u)
           uuids == {u}
           acts == {"drop"}
<1>1. u \in DOMAIN Listing /\ Run(r, commands, 0)
  BY DEF DeleteDocument
<1>2. u < fresh /\ fresh \in Nat
  BY <1>1, ListingFacts DEF StoreInv
<1>3. commands \in Safe(acts, uuids, r.do)
  BY RemoveIsSafe
<1>4. \A v \in uuids : v < fresh + 0
  BY <1>2
<1>5. acts = {"drop"} /\ 0 \in Nat
  OBVIOUS
<1> HIDE DEF commands, acts, uuids, r
<1>6. QED
  BY <1>1, <1>3, <1>4, <1>5, SafeRunKeeps

LEMMA DownloadKeeps ==
  ASSUME StoreAssumption, StoreInv, result # "running", ops < MaxOps,
         NEW ref \in Refs, Download(ref)
  PROVE  StoreInv'
<1> DEFINE items == Listing
           docs == {u \in ExpandRef(items, ref) : ~IsFolder(items, u)}
           r == Request("download", {ref}, ByPath(<<>>), Same)
<1>1. CASE Refuse(r)
  BY <1>1, RefuseKeeps
<1>2. ASSUME NEW order \in SetToSeqs(docs),
             Run(r, [i \in DOMAIN order |-> Command("fetch", order[i], FileOf(items, order[i]))], 0)
      PROVE  StoreInv'
  <2>1. IsListing(items) /\ fresh \in Nat
        /\ \A u \in DOMAIN items : u \in Uuids /\ u < fresh /\ items[u].name \in Names
    <3>1. TypeOK
      BY DEF StoreInv
    <3>2. IsListing(items) /\ fresh \in Nat /\ \A u \in DOMAIN items : u \in Uuids /\ u < fresh
      BY <3>1, ListingFacts
    <3>3. QED
      BY <3>2 DEF IsListing, Entry
  <2>2. docs \subseteq DOMAIN items
    BY <2>1, RefFacts, ExpandsToItems
  <2> DEFINE n == Cardinality(docs)
             commands == [i \in DOMAIN order |-> Command("fetch", order[i], FileOf(items, order[i]))]
             acts == {"fetch"}
  <2>3. n \in Nat
    BY <2>1, <2>2, UuidFacts, FS_Subset, FS_CardinalityType DEF IsListing
  <2>4. order \in [1..n -> docs] /\ DOMAIN order = 1..n
    BY <1>2 DEF SetToSeqs
  <2>5. Run(r, commands, 0) /\ r.do = "download"
    BY <1>2, RequestFacts
  <2>6. \A u \in DOMAIN items : FileOf(items, u) \in Files
    BY <2>1 DEF FileOf, Files
  <2> HIDE DEF n, items, docs, r
  <2>7. ASSUME NEW i \in 1..n
        PROVE  /\ commands[i] = [act |-> "fetch", uuid |-> order[i], part |-> FileOf(items, order[i]),
                                 from |-> Stop, entry |-> NoItem]
               /\ order[i] \in DOMAIN items
    BY <2>2, <2>4 DEF Command
  <2>8. commands = [i \in 1..n |-> commands[i]]
    BY <2>4
  <2> HIDE DEF commands
  <2> DEFINE Fetch(u, f) ==
               [act |-> "fetch", uuid |-> u, part |-> f, from |-> Stop, entry |-> NoItem]
  <2>9. \A i \in 1..n : commands[i] \in Commands
    <3>1. \A u \in Uuids, f \in Files : Fetch(u, f) \in Commands
      BY DEF Commands, Acts
    <3> HIDE DEF Fetch
    <3>2. TAKE i \in 1..n
    <3>3. commands[i] = Fetch(order[i], FileOf(items, order[i])) /\ order[i] \in DOMAIN items
      BY <2>7 DEF Fetch
    <3>4. order[i] \in Uuids /\ FileOf(items, order[i]) \in Files
      BY <2>1, <2>6, <3>3
    <3>5. QED
      BY <3>1, <3>3, <3>4
  <2>10. commands \in Seq(Commands) /\ Len(commands) = n
    BY <2>3, <2>8, <2>9
  <2>11. ASSUME NEW i \in 1..n
         PROVE  /\ commands[i].act \in acts /\ commands[i].uuid \in DOMAIN items
                /\ Sane(commands[i]) /\ Suits("download", commands[i]) /\ ~Shows(commands[i])
                /\ commands[i].act # "write" /\ ~Ends(commands[i])
    <3>1. commands[i] = Fetch(order[i], FileOf(items, order[i])) /\ order[i] \in DOMAIN items
      BY <2>7
    <3>2. commands[i].act = "fetch" /\ commands[i].uuid = order[i]
      BY <3>1
    <3> HIDE DEF Fetch
    <3>3. QED
      BY <3>1, <3>2 DEF Sane, Suits, Shows, Ends
  <2>12. "drop" \notin acts /\ 0 \in Nat
    OBVIOUS
  <2> HIDE DEF acts
  <2>13. commands \in Safe(acts, DOMAIN items, "download")
    BY <2>10, <2>11 DEF Safe
  <2>14. \A u \in DOMAIN items : u < fresh + 0
    BY <2>1
  <2>15. QED
    BY <2>5, <2>12, <2>13, <2>14, SafeRunKeeps
<1>3. QED
  BY <1>1, <1>2 DEF Download

LEMMA StartKeeps ==
  ASSUME StoreAssumption, StoreInv, Start
  PROVE  StoreInv'
<1>1. result # "running" /\ ops < MaxOps
  BY DEF Start
<1>2. CASE \E path \in NamePaths, at \in FolderRefs : Mkdir(path, at)
  BY <1>1, <1>2, MkdirKeeps
<1>3. CASE \E at \in FolderRefs, name \in Names : Upload(at, name)
  BY <1>1, <1>3, UploadKeeps
<1>4. CASE \E u \in Uuids, at \in FolderRefs, name \in Names :
             CopyOnDevice(u, at, name) \/ MoveDocument(u, at, name)
  BY <1>1, <1>4, CopyOnDeviceKeeps, MoveDocumentKeeps
<1>5. CASE \E u \in Uuids : UpdatePayload(u) \/ DeleteDocument(u)
  BY <1>1, <1>5, UpdatePayloadKeeps, DeleteDocumentKeeps
<1>6. CASE \E ref \in Refs, at \in FolderRefs : Move(ref, at)
  BY <1>1, <1>6, MoveKeeps
<1>7. CASE \E ref \in Refs, name \in Names : Rename(ref, name)
  BY <1>1, <1>7, RenameKeeps
<1>8. CASE \E refs \in {{ref} : ref \in Refs} \cup Pairs, recursive \in BOOLEAN : Delete(refs, recursive)
  <2>1. PICK refs \in {{ref} : ref \in Refs} \cup Pairs, recursive \in BOOLEAN : Delete(refs, recursive)
    BY <1>8
  <2>2. refs \subseteq Refs
    BY DEF StoreAssumption
  <2>3. QED
    BY <1>1, <2>1, <2>2, DeleteKeeps
<1>9. CASE EmptyTrash
  BY <1>1, <1>9, EmptyTrashKeeps
<1>10. CASE \E ref \in Refs : Download(ref)
  BY <1>1, <1>10, DownloadKeeps
<1>11. QED
  BY <1>2, <1>3, <1>4, <1>5, <1>6, <1>7, <1>8, <1>9, <1>10 DEF Start

\* ---------------------------------------------------------------------
\* How it goes on.

\* What every command leaves behind, whatever it does to the tablet.
LEMMA CommandFacts ==
  ASSUME StoreInv, NEW act, Next1(act)
  PROVE  /\ todo # <<>> /\ 1 \in 1..Len(todo) /\ Head(todo) = todo[1]
         /\ todo[1] \in Commands /\ todo[1].act = act /\ todo[1].uuid \in Uuids
         /\ todo' \in Seq(Commands) /\ PlanOK(todo', request'.do, fresh')
         /\ Len(todo') = Len(todo) - 1
         /\ \A i \in 1..Len(todo') : i + 1 \in 1..Len(todo) /\ todo'[i] = todo[i + 1]
         /\ act # "read" => HeldIsCurrent'
         /\ act # "drop" => DropsHidden'
         /\ act \notin {"put", "copy"} => ShowsComplete'
<1> DEFINE n == Len(todo)
           rest == Tail(todo)
<1>1. todo \in Seq(Commands) /\ PlanOK(todo, request.do, fresh)
  BY DEF StoreInv
<1>2. todo # <<>>
  BY DEF StoreInv, TypeOK, Next1
<1>3. n \in Nat /\ n > 0 /\ Head(todo) = todo[1] /\ 1 \in 1..n
  BY <1>1, <1>2
<1>4. todo[1] \in Commands /\ todo[1].uuid \in Uuids
  <2>1. \A c \in Commands : c.uuid \in Uuids
    BY DEF Commands
  <2>2. QED
    BY <1>1, <1>3, <2>1
<1>5. todo[1].act = act
  BY <1>3 DEF Next1
<1>6. rest \in Seq(Commands) /\ Len(rest) = n - 1 /\ \A i \in 1..n - 1 : rest[i] = todo[i + 1]
  <2>1. \A i \in 1..Len(rest) : rest[i] = todo[i + 1]
    BY <1>1, <1>2, HeadTailProperties
  <2>2. rest \in Seq(Commands) /\ Len(rest) = n - 1
    BY <1>1, <1>2, HeadTailProperties
  <2>3. QED
    BY <2>1, <2>2
<1>7. todo' = rest /\ UNCHANGED <<request, fresh>>
  BY DEF Next1
<1> HIDE DEF rest, n
<1>8. \A i \in 1..n - 1 : i + 1 \in 1..n /\ i \in 1..n /\ (i + 1) - 1 = i /\ i + 1 # 1
  BY <1>3
<1>9. \A i \in 1..n :
        /\ Sane(todo[i]) /\ Suits(request.do, todo[i]) /\ todo[i].uuid < fresh
        /\ todo[i].act = "write" => i = 1 \/ Reads(todo[i - 1], todo[i].uuid)
        /\ todo[i].act = "drop" => \A j \in 1..n : todo[j].act = "drop"
        /\ Shows(todo[i]) => i = n /\ \A j \in 1..n - 1 : todo[j].act \in {"put", "copy"}
  BY <1>1 DEF PlanOK, n
<1>10. PlanOK(rest, request.do, fresh)
  <2>1. ASSUME NEW i \in 1..n - 1
        PROVE  /\ Sane(rest[i]) /\ Suits(request.do, rest[i]) /\ rest[i].uuid < fresh
               /\ rest[i].act = "write" => i = 1 \/ Reads(rest[i - 1], rest[i].uuid)
               /\ rest[i].act = "drop" => \A j \in 1..n - 1 : rest[j].act = "drop"
               /\ Shows(rest[i]) =>
                    i = n - 1 /\ \A j \in 1..(n - 1) - 1 : rest[j].act \in {"put", "copy"}
    <3>1. rest[i] = todo[i + 1] /\ i + 1 \in 1..n /\ i + 1 # 1 /\ (i + 1) - 1 = i
      BY <1>6, <1>8
    <3>2. Sane(rest[i]) /\ Suits(request.do, rest[i]) /\ rest[i].uuid < fresh
      BY <1>9, <3>1
    <3>3. rest[i].act = "write" => i = 1 \/ Reads(rest[i - 1], rest[i].uuid)
      <4>1. i # 1 => i - 1 \in 1..n - 1 /\ (i - 1) + 1 = i
        BY <1>3
      <4>2. i # 1 => rest[i - 1] = todo[i]
        BY <1>6, <4>1
      <4>3. QED
        BY <1>9, <3>1, <4>2
    <3>4. rest[i].act = "drop" => \A j \in 1..n - 1 : rest[j].act = "drop"
      BY <1>6, <1>8, <1>9, <3>1
    <3>5. Shows(rest[i]) => i = n - 1 /\ \A j \in 1..(n - 1) - 1 : rest[j].act \in {"put", "copy"}
      <4>1. SUFFICES ASSUME Shows(rest[i])
                     PROVE  i = n - 1 /\ \A j \in 1..(n - 1) - 1 : rest[j].act \in {"put", "copy"}
        OBVIOUS
      <4>2. i + 1 = n /\ \A j \in 1..n - 1 : todo[j].act \in {"put", "copy"}
        BY <1>9, <3>1, <4>1
      <4>3. \A j \in 1..(n - 1) - 1 : j \in 1..n - 1 /\ j + 1 \in 1..n - 1
        BY <1>3
      <4>4. i = n - 1
        BY <1>3, <4>2
      <4>5. QED
        BY <1>6, <4>2, <4>3, <4>4
    <3>6. QED
      BY <3>2, <3>3, <3>4, <3>5
  <2>2. QED
    BY <1>6, <2>1 DEF PlanOK
<1>11. act # "read" => HeldIsCurrent'
  <2>1. SUFFICES ASSUME act # "read", rest # <<>>, Head(rest).act = "write" PROVE FALSE
    BY <1>7 DEF HeldIsCurrent
  <2>2. 1 \in 1..n - 1 /\ Head(rest) = rest[1]
    BY <1>6, <2>1
  <2>3. 1 + 1 \in 1..n /\ 1 + 1 # 1 /\ (1 + 1) - 1 = 1 /\ rest[1] = todo[1 + 1]
    BY <1>6, <1>8, <2>2
  <2>4. Reads(todo[1], todo[1 + 1].uuid)
    BY <1>9, <2>1, <2>2, <2>3
  <2>5. QED
    BY <1>5, <2>1, <2>4 DEF Reads
<1>12. act # "drop" => DropsHidden'
  <2>1. SUFFICES ASSUME act # "drop", NEW i \in 1..n - 1, Ends(rest[i]) PROVE FALSE
    BY <1>6, <1>7 DEF DropsHidden
  <2>2. todo[i + 1].act = "drop" /\ i + 1 \in 1..n
    BY <1>6, <1>8, <2>1 DEF Ends
  <2>3. todo[1].act = "drop"
    BY <1>3, <1>9, <2>2
  <2>4. QED
    BY <1>5, <2>1, <2>3
<1>13. act \notin {"put", "copy"} => ShowsComplete'
  <2>1. SUFFICES ASSUME act \notin {"put", "copy"}, NEW i \in 1..n - 1, Shows(rest[i]) PROVE FALSE
    BY <1>6, <1>7 DEF ShowsComplete
  <2>2. Shows(todo[i + 1]) /\ i + 1 \in 1..n /\ 1 \in 1..n - 1
    BY <1>3, <1>6, <1>8, <2>1
  <2>3. todo[1].act \in {"put", "copy"}
    BY <1>9, <2>2
  <2>4. QED
    BY <1>5, <2>1, <2>3
<1>14. QED
  BY <1>1, <1>2, <1>3, <1>4, <1>5, <1>6, <1>7, <1>8, <1>10, <1>11, <1>12, <1>13 DEF n

\* What every command leaves alone is of its type.
LEMMA CommandTypes ==
  ASSUME StoreAssumption, StoreInv, NEW act, Next1(act),
         meta' \in [Uuids -> Entry \cup {NoItem}],
         \A u \in Uuids : u >= fresh => meta'[u] = NoItem,
         parts' \in [Uuids -> SUBSET Parts],
         \A f \in DOMAIN local' : local'[f] \in Uuids,
         held' \in Entry \cup {NoItem}, halved' \subseteq Uuids
  PROVE  TypeOK'
<1>1. /\ UNCHANGED <<request, fresh, ops, edits, before, calm, raced>>
      /\ result' = IF Len(todo) = 1 THEN "done" ELSE "running"
  BY DEF Next1
<1>2. Len(todo') = Len(todo) - 1 /\ todo' \in Seq(Commands) /\ todo \in Seq(Commands)
  BY CommandFacts DEF StoreInv
<1>3. (result' = "running") = (todo' # <<>>) /\ result' \in {"done", "running"}
  BY <1>1, <1>2
<1>4. QED
  BY <1>1, <1>3 DEF TypeOK, StoreInv

\* A file arrives: sent, or copied on the tablet.
LEMMA BringKeeps ==
  ASSUME StoreAssumption, StoreInv, NEW act \in {"put", "copy"}, Next1(act),
         NEW p \in Parts, p = todo[1].part,
         parts' = [parts EXCEPT ![todo[1].uuid] = @ \cup {p}],
         UNCHANGED <<meta, local, held, halved>>
  PROVE  StoreInv'
<1>1. /\ todo # <<>> /\ 1 \in 1..Len(todo)
      /\ todo[1] \in Commands /\ todo[1].act = act /\ todo[1].uuid \in Uuids
      /\ todo' \in Seq(Commands) /\ PlanOK(todo', request'.do, fresh')
      /\ Len(todo') = Len(todo) - 1
      /\ \A i \in 1..Len(todo') : i + 1 \in 1..Len(todo) /\ todo'[i] = todo[i + 1]
      /\ HeldIsCurrent' /\ DropsHidden'
  BY CommandFacts
<1>2. TypeOK /\ NoBrokenDocument /\ ShowsComplete
  BY DEF StoreInv
<1>3. parts' \in [Uuids -> SUBSET Parts]
  BY <1>1, <1>2 DEF TypeOK
<1>4. \A u \in Uuids : parts[u] \subseteq parts'[u]
  BY <1>1, <1>2 DEF TypeOK
<1>5. p \in parts'[todo[1].uuid]
  BY <1>1, <1>2 DEF TypeOK
<1>6. TypeOK'
  BY <1>2, <1>3, CommandTypes DEF TypeOK
<1>7. NoBrokenDocument'
  BY <1>2, <1>4 DEF NoBrokenDocument, Next1
<1>8. ShowsComplete'
  <2>1. SUFFICES ASSUME NEW i \in 1..Len(todo'), Shows(todo'[i])
                 PROVE  /\ meta[todo'[i].uuid] = NoItem
                        /\ \A q \in Essential(todo'[i].entry.kind) :
                             q \in parts'[todo'[i].uuid]
                             \/ \E j \in 1..i - 1 : Brings(todo'[j], todo'[i].uuid, q)
    BY DEF ShowsComplete
  <2> DEFINE k == i + 1
             u == todo[k].uuid
  <2>2. k \in 1..Len(todo) /\ todo'[i] = todo[k] /\ Shows(todo[k])
    BY <1>1, <2>1
  <2>3. meta[u] = NoItem /\ \A q \in Essential(todo[k].entry.kind) :
          q \in parts[u] \/ \E j \in 1..k - 1 : Brings(todo[j], u, q)
    BY <1>2, <2>2 DEF ShowsComplete
  <2>4. u \in Uuids
    <3>1. todo \in Seq(Commands)
      BY DEF StoreInv
    <3>2. todo[k] \in Commands
      BY <2>2, <3>1
    <3>3. QED
      BY <3>2 DEF Commands
  <2>5. ASSUME NEW q \in Essential(todo[k].entry.kind)
        PROVE  q \in parts'[u] \/ \E j \in 1..i - 1 : Brings(todo'[j], u, q)
    <3>1. CASE q \in parts[u]
      BY <1>4, <2>4, <3>1
    <3>2. CASE \E j \in 1..k - 1 : Brings(todo[j], u, q)
      <4>1. PICK j \in 1..k - 1 : Brings(todo[j], u, q)
        BY <3>2
      <4>2. CASE j = 1
        <5>1. todo[1].part = q /\ todo[1].uuid = u
          BY <4>1, <4>2 DEF Brings
        <5>2. p = q
          BY <1>1, <2>2, <5>1
        <5>3. QED
          BY <1>5, <5>1, <5>2
      <4>3. CASE j # 1
        <5>1. j - 1 \in 1..i - 1 /\ (j - 1) + 1 = j /\ j - 1 \in 1..Len(todo')
          <6>1. Len(todo') \in Nat /\ i <= Len(todo') /\ j \in 2..i
            BY <1>1, <4>3
          <6>2. QED
            BY <6>1
        <5>2. todo'[j - 1] = todo[j]
          BY <1>1, <5>1
        <5>3. QED
          BY <4>1, <5>1, <5>2
      <4>4. QED
        BY <4>2, <4>3
    <3>3. QED
      BY <2>3, <3>1, <3>2
  <2> HIDE DEF u, k
  <2>6. QED
    BY <2>2, <2>3, <2>5 DEF u
<1>9. QED
  BY <1>1, <1>6, <1>7, <1>8 DEF StoreInv

LEMMA RegisterKeeps ==
  ASSUME StoreAssumption, StoreInv, RegisterItem
  PROVE  StoreInv'
<1>0. Next1("register")
  BY DEF RegisterItem
<1> DEFINE c == todo[1]
<1>1. /\ todo # <<>> /\ 1 \in 1..Len(todo) /\ Head(todo) = c
      /\ c \in Commands /\ c.act = "register" /\ c.uuid \in Uuids
      /\ todo' \in Seq(Commands) /\ PlanOK(todo', request'.do, fresh')
      /\ HeldIsCurrent' /\ DropsHidden' /\ ShowsComplete'
  BY <1>0, CommandFacts
<1>2. /\ meta' = [meta EXCEPT ![c.uuid] = c.entry] /\ UNCHANGED <<parts, local, held, halved>>
  BY <1>1 DEF RegisterItem
<1>3. TypeOK /\ NoBrokenDocument /\ ShowsComplete /\ PlanOK(todo, request.do, fresh)
  BY DEF StoreInv
<1>4. c.entry \in Entry /\ c.uuid < fresh
  BY <1>1, <1>3 DEF PlanOK, Sane
<1>5. meta' \in [Uuids -> Entry \cup {NoItem}]
  BY <1>1, <1>2, <1>3, <1>4 DEF TypeOK
<1>6. \A u \in Uuids : u >= fresh => meta'[u] = NoItem
  <2>1. TAKE u \in Uuids
  <2>2. fresh \in Nat /\ u \in Nat
    BY <1>3, ListingFacts, UuidFacts
  <2>3. u >= fresh => u # c.uuid
    BY <1>1, <1>4, <2>2, UuidFacts
  <2>4. QED
    BY <1>2, <1>3, <2>3 DEF TypeOK
<1>7. TypeOK'
  BY <1>0, <1>2, <1>3, <1>5, <1>6, CommandTypes DEF TypeOK
<1>8. Essential(c.entry.kind) \subseteq parts[c.uuid]
  <2>1. CASE c.entry.kind = "folder"
    BY <2>1 DEF Essential
  <2>2. CASE c.entry.kind # "folder"
    <3>1. Shows(c)
      BY <1>1, <2>2 DEF Shows
    <3>2. \A j \in 1..1 - 1 : FALSE
      OBVIOUS
    <3>3. QED
      BY <1>1, <1>3, <3>1, <3>2 DEF ShowsComplete
  <2>3. QED
    BY <2>1, <2>2
<1>9. NoBrokenDocument'
  <2>1. raced' = raced
    BY <1>0 DEF Next1
  <2> HIDE DEF c
  <2>2. ASSUME NEW u \in Uuids \ (halved \cup raced), meta'[u] # NoItem
        PROVE  Essential(meta'[u].kind) \subseteq parts[u]
    <3>1. CASE u = c.uuid
      <4>1. meta'[u] = c.entry
        BY <1>1, <1>2, <1>3, <3>1 DEF TypeOK
      <4>2. QED
        BY <1>8, <3>1, <4>1
    <3>2. CASE u # c.uuid
      <4>1. meta'[u] = meta[u]
        BY <1>2, <1>3, <3>2 DEF TypeOK
      <4>2. QED
        BY <1>3, <2>2, <4>1 DEF NoBrokenDocument
    <3>3. QED
      BY <3>1, <3>2
  <2>3. QED
    BY <1>2, <2>1, <2>2 DEF NoBrokenDocument
<1>10. QED
  BY <1>1, <1>7, <1>9 DEF StoreInv

LEMMA ReadKeeps ==
  ASSUME StoreAssumption, StoreInv, ReadMetadata
  PROVE  StoreInv'
<1>0. Next1("read")
  BY DEF ReadMetadata
<1> DEFINE c == todo[1]
<1>1. /\ todo # <<>> /\ 1 \in 1..Len(todo) /\ Head(todo) = c
      /\ c \in Commands /\ c.act = "read" /\ c.uuid \in Uuids
      /\ todo' \in Seq(Commands) /\ PlanOK(todo', request'.do, fresh')
      /\ Len(todo') = Len(todo) - 1
      /\ \A i \in 1..Len(todo') : i + 1 \in 1..Len(todo) /\ todo'[i] = todo[i + 1]
      /\ DropsHidden' /\ ShowsComplete'
  BY <1>0, CommandFacts
<1>2. /\ held' = meta[c.uuid] /\ meta[c.uuid] # NoItem
      /\ UNCHANGED <<meta, parts, local, halved>> /\ raced' = raced
  BY <1>1 DEF ReadMetadata, Next1
<1>3. TypeOK /\ NoBrokenDocument /\ PlanOK(todo, request.do, fresh)
  BY DEF StoreInv
<1>4. held' \in Entry
  BY <1>1, <1>2, <1>3 DEF TypeOK
<1>5. TypeOK'
  BY <1>0, <1>2, <1>3, <1>4, CommandTypes DEF TypeOK
<1>6. HeldIsCurrent'
  <2>1. SUFFICES ASSUME todo' # <<>>, Head(todo').act = "write"
                 PROVE  /\ held' \in Entry /\ held' # NoItem
                        /\ Head(todo').uuid \notin raced' => meta'[Head(todo').uuid] = held'
    BY DEF HeldIsCurrent
  <2>2. 1 \in 1..Len(todo') /\ Head(todo') = todo'[1]
    BY <1>1, <2>1
  <2>3. 1 + 1 \in 1..Len(todo) /\ 1 + 1 # 1 /\ (1 + 1) - 1 = 1 /\ Head(todo') = todo[1 + 1]
    BY <1>1, <2>2
  <2>4. Reads(c, todo[1 + 1].uuid)
    BY <1>3, <2>1, <2>3 DEF PlanOK
  <2>5. Head(todo').uuid = c.uuid
    BY <2>3, <2>4 DEF Reads
  <2>6. QED
    BY <1>2, <1>4, <2>5
<1>7. NoBrokenDocument'
  BY <1>2, <1>3 DEF NoBrokenDocument
<1>8. QED
  BY <1>1, <1>5, <1>6, <1>7 DEF StoreInv

\* The entry a write leaves.
LEMMA MergedEntry ==
  ASSUME NEW entry \in Entry, NEW change \in Changes
  PROVE  /\ Merged(entry, change) \in Entry
         /\ Merged(entry, change).kind = entry.kind
         /\ change.name = Same => Merged(entry, change).name = entry.name
         /\ change.parent = Stop => Merged(entry, change).parent = entry.parent
<1>1. /\ entry = [name |-> entry.name, parent |-> entry.parent, kind |-> entry.kind]
      /\ entry.name \in Names /\ entry.parent \in Uuids \cup {Root, Trash} /\ entry.kind \in Kinds
  BY DEF Entry
<1>2. change.name \in Names \cup {Same} /\ change.parent \in Uuids \cup {Root, Stop}
  BY DEF Changes
<1>3. Merged(entry, change) =
        [name |-> IF change.name = Same THEN entry.name ELSE change.name,
         parent |-> IF change.parent = Stop THEN entry.parent ELSE change.parent,
         kind |-> entry.kind]
  <2> DEFINE n == entry.name
             p == entry.parent
             k == entry.kind
             x == IF change.name = Same THEN n ELSE change.name
             y == IF change.parent = Stop THEN p ELSE change.parent
  <2>1. Merged(entry, change) = [entry EXCEPT !.name = x, !.parent = y]
    BY DEF Merged
  <2>2. entry = [name |-> n, parent |-> p, kind |-> k]
    BY <1>1
  <2> HIDE DEF n, p, k, x, y
  <2> DEFINE e == [entry EXCEPT !.name = x]
  <2>3. e = [name |-> x, parent |-> p, kind |-> k]
    BY <2>2
  <2>4. Merged(entry, change) = [e EXCEPT !.parent = y]
    BY <2>1
  <2> HIDE DEF e
  <2>5. Merged(entry, change) = [name |-> x, parent |-> y, kind |-> k]
    BY <2>3, <2>4
  <2>6. QED
    BY <2>5 DEF n, p, k, x, y
<1>4. QED
  BY <1>1, <1>2, <1>3 DEF Entry

LEMMA WriteFacts ==
  ASSUME StoreAssumption, StoreInv, WriteMetadata
  PROVE  LET c == todo[1] IN
         /\ c \in Commands /\ c.act = "write" /\ c.uuid \in Uuids /\ c.entry \in Changes
         /\ Suits(request.do, c) /\ c.uuid < fresh
         /\ held \in Entry /\ held # NoItem
         /\ c.uuid \notin raced => meta[c.uuid] = held
         /\ meta' = [meta EXCEPT ![c.uuid] = Merged(held, c.entry)]
         /\ Merged(held, c.entry) \in Entry /\ Merged(held, c.entry).kind = held.kind
<1> DEFINE c == todo[1]
<1>0. Next1("write")
  BY DEF WriteMetadata
<1>1. /\ todo # <<>> /\ 1 \in 1..Len(todo) /\ Head(todo) = c
      /\ c \in Commands /\ c.act = "write" /\ c.uuid \in Uuids
  BY <1>0, CommandFacts
<1>2. c.entry \in Changes /\ Suits(request.do, c) /\ c.uuid < fresh
  BY <1>1 DEF StoreInv, PlanOK, Sane
<1>3. held \in Entry /\ held # NoItem /\ (c.uuid \notin raced => meta[c.uuid] = held)
  BY <1>1 DEF StoreInv, HeldIsCurrent
<1>4. meta' = [meta EXCEPT ![c.uuid] = Merged(held, c.entry)]
  BY <1>1 DEF WriteMetadata
<1>5. Merged(held, c.entry) \in Entry /\ Merged(held, c.entry).kind = held.kind
  BY <1>2, <1>3, MergedEntry
<1>6. QED
  BY <1>1, <1>2, <1>3, <1>4, <1>5

LEMMA WriteKeeps ==
  ASSUME StoreAssumption, StoreInv, WriteMetadata
  PROVE  StoreInv'
<1>0. Next1("write") /\ held' = NoItem /\ UNCHANGED <<parts, local, halved>>
  BY DEF WriteMetadata
<1> DEFINE c == todo[1]
           e == Merged(held, c.entry)
<1>1. /\ todo' \in Seq(Commands) /\ PlanOK(todo', request'.do, fresh')
      /\ HeldIsCurrent' /\ DropsHidden' /\ ShowsComplete'
  BY <1>0, CommandFacts
<1>2. /\ c.uuid \in Uuids /\ c.uuid < fresh
      /\ held \in Entry /\ (c.uuid \notin raced => meta[c.uuid] = held) /\ held # NoItem
      /\ meta' = [meta EXCEPT ![c.uuid] = e]
      /\ e \in Entry /\ e.kind = held.kind
  BY WriteFacts
<1>3. TypeOK /\ NoBrokenDocument /\ raced' = raced
  BY <1>0 DEF StoreInv, Next1
<1> HIDE DEF c, e
<1>4. meta' \in [Uuids -> Entry \cup {NoItem}]
  BY <1>2, <1>3 DEF TypeOK
<1>5. \A u \in Uuids : u >= fresh => meta'[u] = NoItem
  <2>1. TAKE u \in Uuids
  <2>2. fresh \in Nat /\ u \in Nat
    BY <1>3, ListingFacts, UuidFacts
  <2>3. u >= fresh => u # c.uuid
    BY <1>2, <2>2, UuidFacts
  <2>4. QED
    BY <1>2, <1>3, <2>3 DEF TypeOK
<1>6. TypeOK'
  BY <1>0, <1>3, <1>4, <1>5, CommandTypes DEF TypeOK
<1>7. NoBrokenDocument'
  <2>1. ASSUME NEW u \in Uuids \ (halved \cup raced), meta'[u] # NoItem
        PROVE  Essential(meta'[u].kind) \subseteq parts[u]
    <3>1. CASE u = c.uuid
      <4>1. meta'[u] = e /\ meta[u] = held
        BY <1>2, <1>3, <2>1, <3>1 DEF TypeOK
      <4>2. Essential(meta[u].kind) \subseteq parts[u]
        BY <1>2, <1>3, <2>1, <4>1 DEF NoBrokenDocument
      <4>3. QED
        BY <1>2, <4>1, <4>2
    <3>2. CASE u # c.uuid
      <4>1. meta'[u] = meta[u]
        BY <1>2, <1>3, <3>2 DEF TypeOK
      <4>2. QED
        BY <1>3, <2>1, <4>1 DEF NoBrokenDocument
    <3>3. QED
      BY <3>1, <3>2
  <2>2. QED
    BY <1>0, <1>3, <2>1 DEF NoBrokenDocument
<1>8. QED
  BY <1>1, <1>6, <1>7 DEF StoreInv

LEMMA DropKeeps ==
  ASSUME StoreAssumption, StoreInv, DropPart
  PROVE  StoreInv'
<1>0. Next1("drop") /\ UNCHANGED <<local, held>>
  BY DEF DropPart
<1> DEFINE c == todo[1]
           u == c.uuid
<1>1. /\ todo # <<>> /\ 1 \in 1..Len(todo) /\ Head(todo) = c
      /\ c \in Commands /\ c.act = "drop" /\ u \in Uuids
      /\ todo' \in Seq(Commands) /\ PlanOK(todo', request'.do, fresh')
      /\ Len(todo') = Len(todo) - 1
      /\ \A i \in 1..Len(todo') : i + 1 \in 1..Len(todo) /\ todo'[i] = todo[i + 1]
      /\ HeldIsCurrent' /\ ShowsComplete'
  BY <1>0, CommandFacts
<1>2. /\ IF c.part = "metadata" THEN meta' = [meta EXCEPT ![u] = NoItem] /\ UNCHANGED parts
                                ELSE parts' = [parts EXCEPT ![u] = @ \ {c.part}] /\ UNCHANGED meta
      /\ halved' = IF c.part = "payload" THEN halved \ {u} ELSE halved \cup {u}
      /\ raced' = raced
  BY <1>1 DEF DropPart, Next1
<1>3. TypeOK /\ NoBrokenDocument /\ DropsHidden /\ todo \in Seq(Commands)
  BY DEF StoreInv
<1> HIDE DEF c, u
<1>4. /\ meta' \in [Uuids -> Entry \cup {NoItem}] /\ parts' \in [Uuids -> SUBSET Parts]
      /\ \A v \in Uuids : meta'[v] \in {meta[v], NoItem}
      /\ \A v \in Uuids : v # u => parts'[v] = parts[v] /\ meta'[v] = meta[v]
      /\ halved' \subseteq Uuids
  <2>1. meta \in [Uuids -> Entry \cup {NoItem}] /\ parts \in [Uuids -> SUBSET Parts] /\ halved \subseteq Uuids
    BY <1>3 DEF TypeOK
  <2>2. halved' \subseteq Uuids
    BY <1>1, <1>2, <2>1
  <2>3. CASE c.part = "metadata"
    <3>1. meta' = [meta EXCEPT ![u] = NoItem] /\ parts' = parts
      BY <1>2, <2>3
    <3>2. QED
      BY <1>1, <2>1, <2>2, <3>1
  <2>4. CASE c.part # "metadata"
    <3>1. parts' = [parts EXCEPT ![u] = parts[u] \ {c.part}] /\ meta' = meta
      BY <1>2, <2>4
    <3>2. parts[u] \ {c.part} \in SUBSET Parts
      BY <1>1, <2>1
    <3>3. QED
      BY <1>1, <2>1, <2>2, <3>1, <3>2
  <2>5. QED
    BY <2>3, <2>4
<1>5. TypeOK'
  BY <1>0, <1>3, <1>4, CommandTypes DEF TypeOK
<1>6. DropsHidden'
  <2>1. SUFFICES ASSUME NEW i \in 1..Len(todo'), Ends(todo'[i])
                 PROVE  meta'[todo'[i].uuid] = NoItem \/ \E j \in 1..i - 1 : Hides(todo'[j], todo'[i].uuid)
    BY DEF DropsHidden
  <2> DEFINE k == i + 1
             v == todo[k].uuid
  <2>2. k \in 1..Len(todo) /\ todo'[i] = todo[k] /\ Ends(todo[k])
    BY <1>1, <2>1
  <2>3. v \in Uuids
    <3>1. todo[k] \in Commands
      BY <1>3, <2>2
    <3>2. QED
      BY <3>1 DEF Commands
  <2>4. CASE meta[v] = NoItem
    BY <1>4, <2>2, <2>3, <2>4
  <2>5. CASE \E j \in 1..k - 1 : Hides(todo[j], v)
    <3>1. PICK j \in 1..k - 1 : Hides(todo[j], v)
      BY <2>5
    <3>2. CASE j = 1
      <4>1. c.part = "metadata" /\ u = v
        BY <3>1, <3>2 DEF Hides, c, u
      <4>2. QED
        BY <1>2, <1>3, <2>2, <2>3, <4>1 DEF TypeOK
    <3>3. CASE j # 1
      <4>1. j - 1 \in 1..i - 1 /\ (j - 1) + 1 = j /\ j - 1 \in 1..Len(todo')
        <5>1. Len(todo') \in Nat /\ i <= Len(todo') /\ j \in 2..i
          BY <1>1, <3>3
        <5>2. QED
          BY <5>1
      <4>2. todo'[j - 1] = todo[j]
        BY <1>1, <4>1
      <4>3. QED
        BY <2>2, <3>1, <4>1, <4>2
    <3>4. QED
      BY <3>2, <3>3
  <2>6. QED
    BY <1>3, <2>2, <2>4, <2>5 DEF DropsHidden
<1>7. NoBrokenDocument'
  <2>1. ASSUME NEW v \in Uuids \ (halved' \cup raced'), meta'[v] # NoItem
        PROVE  Essential(meta'[v].kind) \subseteq parts'[v]
    <3>1. CASE v # u
      <4>1. v \notin halved \cup raced /\ parts'[v] = parts[v] /\ meta'[v] = meta[v]
        BY <1>2, <1>4, <2>1, <3>1
      <4>2. QED
        BY <1>3, <2>1, <4>1 DEF NoBrokenDocument
    <3>2. CASE v = u
      <4>1. c.part = "payload" /\ meta'[u] = meta[u]
        BY <1>2, <2>1, <3>2
      <4>2. Ends(todo[1]) /\ todo[1].uuid = u
        BY <1>1, <4>1 DEF Ends, c, u
      <4>3. \A j \in 1..1 - 1 : FALSE
        OBVIOUS
      <4>4. meta[u] = NoItem
        BY <1>1, <1>3, <4>2, <4>3 DEF DropsHidden
      <4>5. QED
        BY <2>1, <3>2, <4>1, <4>4
    <3>3. QED
      BY <3>1, <3>2
  <2>2. QED
    BY <2>1 DEF NoBrokenDocument
<1>8. QED
  BY <1>1, <1>5, <1>6, <1>7 DEF StoreInv

LEMMA FetchKeeps ==
  ASSUME StoreAssumption, StoreInv, FetchItem
  PROVE  StoreInv'
<1>0. Next1("fetch") /\ UNCHANGED <<meta, parts, held, halved>>
  BY DEF FetchItem
<1>1. /\ todo' \in Seq(Commands) /\ PlanOK(todo', request'.do, fresh')
      /\ Head(todo) = todo[1] /\ todo[1].uuid \in Uuids
      /\ HeldIsCurrent' /\ DropsHidden' /\ ShowsComplete'
  BY <1>0, CommandFacts
<1>2. TypeOK /\ NoBrokenDocument /\ raced' = raced
  BY <1>0 DEF StoreInv, Next1
<1>3. \A f \in DOMAIN local' : local'[f] \in Uuids
  BY <1>1, <1>2 DEF FetchItem, TypeOK
<1>4. TypeOK'
  BY <1>0, <1>2, <1>3, CommandTypes DEF TypeOK
<1>5. NoBrokenDocument'
  BY <1>0, <1>2 DEF NoBrokenDocument
<1>6. QED
  BY <1>1, <1>4, <1>5 DEF StoreInv

LEMMA FailKeeps ==
  ASSUME StoreAssumption, StoreInv, Fail
  PROVE  StoreInv'
<1> USE DEF StoreInv
<1>1. TypeOK'
  BY DEF Fail, TypeOK
<1>2. todo' = <<>> /\ Len(todo') = 0
  BY DEF Fail
<1>3. NoBrokenDocument'
  BY DEF NoBrokenDocument, Fail
<1>4. QED
  BY <1>1, <1>2, <1>3 DEF PlanOK, DropsHidden, ShowsComplete, HeldIsCurrent

\* ---------------------------------------------------------------------
\* The tablet acts.

\* It may change what it likes of the items that exist or that it makes.
LEMMA TabletKeeps ==
  ASSUME StoreAssumption, StoreInv, NEW changed, changed \subseteq Uuids, TabletActs(changed),
         \A u \in changed : u < fresh => meta[u] # NoItem,
         \A u \in Uuids \ changed : meta'[u] = meta[u] /\ parts'[u] = parts[u],
         meta' \in [Uuids -> Entry \cup {NoItem}], parts' \in [Uuids -> SUBSET Parts],
         fresh' \in fresh..NumItems + 1, \A u \in Uuids : u >= fresh' => meta'[u] = NoItem,
         halved' \subseteq halved, halved \ halved' \subseteq changed,
         \A u \in changed \ (halved' \cup raced') :
           meta'[u] # NoItem => Essential(meta'[u].kind) \subseteq parts'[u]
  PROVE  StoreInv'
<1> USE DEF StoreInv
<1>1. /\ edits < MaxEdits /\ edits' = edits + 1
      /\ UNCHANGED <<local, request, result, todo, held, ops, before>>
      /\ raced' = IF todo # <<>> /\ Head(todo).act = "write" /\ Head(todo).uuid \in changed
                    THEN raced \cup {Head(todo).uuid} ELSE raced
  BY DEF TabletActs, Races, opVars
<1>2. fresh \in Nat /\ fresh >= 1 /\ fresh' \in Nat /\ fresh' >= fresh /\ fresh' \in 1..NumItems + 1
  BY UuidFacts DEF TypeOK
<1>3. raced' \subseteq Uuids /\ raced \subseteq raced'
  BY <1>1 DEF TypeOK
<1>4. TypeOK'
  <2>1. edits' \in 0..MaxEdits
    BY <1>1 DEF TypeOK, StoreAssumption
  <2>2. QED
    BY <1>1, <1>2, <1>3, <2>1 DEF TypeOK
<1>5. \A i \in 1..Len(todo) : todo[i] \in Commands /\ todo[i].uuid \in Uuids /\ todo[i].uuid < fresh
  <2>1. \A c \in Commands : c.uuid \in Uuids
    BY DEF Commands
  <2>2. QED
    BY <2>1 DEF PlanOK
<1>6. PlanOK(todo', request'.do, fresh')
  <2>1. \A i \in 1..Len(todo) : todo[i].uuid < fresh'
    <3>1. TAKE i \in 1..Len(todo)
    <3>2. todo[i].uuid \in Nat /\ todo[i].uuid < fresh
      BY <1>5, UuidFacts
    <3>3. QED
      BY <1>2, <3>2
  <2>2. QED
    BY <1>1, <2>1 DEF PlanOK
<1>7. \A u \in Uuids : u < fresh /\ meta[u] = NoItem => meta'[u] = NoItem /\ parts'[u] = parts[u]
  OBVIOUS
<1>8. DropsHidden'
  <2>1. SUFFICES ASSUME NEW i \in 1..Len(todo), Ends(todo[i])
                 PROVE  meta'[todo[i].uuid] = NoItem \/ \E j \in 1..i - 1 : Hides(todo[j], todo[i].uuid)
    BY <1>1 DEF DropsHidden
  <2>2. QED
    BY <1>5, <1>7, <2>1 DEF DropsHidden
<1>9. ShowsComplete'
  <2>1. SUFFICES ASSUME NEW i \in 1..Len(todo), Shows(todo[i])
                 PROVE  /\ meta'[todo[i].uuid] = NoItem
                        /\ \A p \in Essential(todo[i].entry.kind) :
                             p \in parts'[todo[i].uuid]
                             \/ \E j \in 1..i - 1 : Brings(todo[j], todo[i].uuid, p)
    BY <1>1 DEF ShowsComplete
  <2>2. QED
    BY <1>5, <1>7, <2>1 DEF ShowsComplete
<1>10. HeldIsCurrent'
  <2>1. SUFFICES ASSUME todo # <<>>, Head(todo).act = "write"
                 PROVE  /\ held \in Entry /\ held # NoItem
                        /\ Head(todo).uuid \notin raced' => meta'[Head(todo).uuid] = held
    BY <1>1 DEF HeldIsCurrent
  <2>2. Head(todo) = todo[1] /\ 1 \in 1..Len(todo)
    BY <2>1
  <2>3. Head(todo).uuid \in Uuids
    BY <1>5, <2>2
  <2>4. Head(todo).uuid \notin raced' => Head(todo).uuid \notin changed /\ Head(todo).uuid \notin raced
    BY <1>1, <2>1
  <2>5. QED
    BY <2>1, <2>3, <2>4 DEF HeldIsCurrent
<1>11. NoBrokenDocument'
  <2>1. ASSUME NEW u \in Uuids \ (halved' \cup raced'), meta'[u] # NoItem
        PROVE  Essential(meta'[u].kind) \subseteq parts'[u]
    <3>1. CASE u \in changed
      BY <2>1, <3>1
    <3>2. CASE u \notin changed
      <4>1. u \notin halved \cup raced /\ meta'[u] = meta[u] /\ parts'[u] = parts[u]
        BY <1>3, <2>1, <3>2
      <4>2. QED
        BY <2>1, <4>1 DEF NoBrokenDocument
    <3>3. QED
      BY <3>1, <3>2
  <2>2. QED
    BY <2>1 DEF NoBrokenDocument
<1>12. QED
  BY <1>1, <1>4, <1>6, <1>8, <1>9, <1>10, <1>11

\* A field of one item's metadata other than its kind.
LEMMA FieldKeeps ==
  ASSUME StoreAssumption, StoreInv, NEW u \in Uuids, meta[u] # NoItem, TabletActs({u}),
         NEW e \in Entry, e.kind = meta[u].kind, meta' = [meta EXCEPT ![u] = e],
         UNCHANGED <<parts, fresh, halved>>
  PROVE  StoreInv'
<1> DEFINE changed == {u}
<1>1. TypeOK /\ NoBrokenDocument
  BY DEF StoreInv
<1>2. fresh \in Nat /\ u \in Nat /\ ~(u >= fresh) /\ fresh <= NumItems + 1
  <2>1. ~(u >= fresh)
    BY <1>1 DEF TypeOK
  <2>2. QED
    BY <1>1, <2>1, UuidFacts, ListingFacts
<1>3. /\ meta' \in [Uuids -> Entry \cup {NoItem}] /\ parts' \in [Uuids -> SUBSET Parts]
      /\ meta'[u] = e
      /\ \A v \in Uuids \ changed : meta'[v] = meta[v] /\ parts'[v] = parts[v]
  BY <1>1 DEF TypeOK
<1>4. fresh' \in fresh..NumItems + 1
  BY <1>2, UuidFacts
<1>5. \A v \in Uuids : v >= fresh' => meta'[v] = NoItem
  <2>1. \A v \in Uuids : v >= fresh' => v # u
    BY <1>2
  <2>2. QED
    BY <1>1, <1>3, <2>1 DEF TypeOK
<1>6. raced \subseteq raced'
  BY DEF TabletActs, Races
<1>7. \A v \in changed \ (halved' \cup raced') :
        meta'[v] # NoItem => Essential(meta'[v].kind) \subseteq parts'[v]
  BY <1>1, <1>3, <1>6 DEF NoBrokenDocument
<1>8. /\ changed \subseteq Uuids /\ TabletActs(changed)
      /\ \A v \in changed : v < fresh => meta[v] # NoItem
      /\ halved' \subseteq halved /\ halved \ halved' \subseteq changed
  OBVIOUS
<1> HIDE DEF changed
<1>9. QED
  BY <1>3, <1>4, <1>5, <1>7, <1>8, TabletKeeps

LEMMA EntryFields ==
  ASSUME NEW e \in Entry
  PROVE  /\ \A n \in Names : [e EXCEPT !.name = n] \in Entry /\ [e EXCEPT !.name = n].kind = e.kind
         /\ \A p \in Uuids \cup {Root, Trash} :
              [e EXCEPT !.parent = p] \in Entry /\ [e EXCEPT !.parent = p].kind = e.kind
BY DEF Entry

LEMMA TabletRenamesKeeps ==
  ASSUME StoreAssumption, StoreInv, NEW u \in Uuids, NEW name \in Names, TabletRenames(u, name)
  PROVE  StoreInv'
<1> DEFINE e == [meta[u] EXCEPT !.name = name]
<1>1. meta[u] # NoItem /\ TabletActs({u}) /\ UNCHANGED <<parts, fresh, halved>>
  BY DEF TabletRenames
<1>2. meta' = [meta EXCEPT ![u] = e]
  BY DEF TabletRenames
<1>3. meta[u] \in Entry
  BY <1>1 DEF StoreInv, TypeOK
<1>4. e \in Entry /\ e.kind = meta[u].kind
  BY <1>3, EntryFields
<1> HIDE DEF e
<1>5. QED
  BY <1>1, <1>2, <1>4, FieldKeeps

LEMMA TabletMovesKeeps ==
  ASSUME StoreAssumption, StoreInv, NEW u \in Uuids, NEW p \in DOMAIN Listing \cup {Root, Trash},
         TabletMoves(u, p)
  PROVE  StoreInv'
<1> DEFINE e == [meta[u] EXCEPT !.parent = p]
<1>1. meta[u] # NoItem /\ TabletActs({u}) /\ UNCHANGED <<parts, fresh, halved>>
  BY DEF TabletMoves
<1>2. meta' = [meta EXCEPT ![u] = e]
  BY DEF TabletMoves
<1>3. meta[u] \in Entry
  BY <1>1 DEF StoreInv, TypeOK
<1>4. p \in Uuids \cup {Root, Trash}
  BY ListingFacts DEF StoreInv
<1>5. e \in Entry /\ e.kind = meta[u].kind
  BY <1>3, <1>4, EntryFields
<1> HIDE DEF e
<1>6. QED
  BY <1>1, <1>2, <1>5, FieldKeeps

LEMMA TabletCreatesKeeps ==
  ASSUME StoreAssumption, StoreInv, NEW name \in Names, NEW p \in DOMAIN Listing \cup {Root},
         NEW kind \in {"folder", "notebook"}, TabletCreates(name, p, kind)
  PROVE  StoreInv'
<1> DEFINE e == [name |-> name, parent |-> p, kind |-> kind]
           changed == {fresh}
<1>1. /\ fresh <= NumItems /\ TabletActs(changed) /\ halved' = halved /\ fresh' = fresh + 1
      /\ meta' = [meta EXCEPT ![fresh] = e] /\ parts' = [parts EXCEPT ![fresh] = Complete(kind)]
  BY DEF TabletCreates
<1>2. TypeOK
  BY DEF StoreInv
<1>3. fresh \in Nat /\ fresh >= 1 /\ fresh \in Uuids
  BY <1>1, <1>2, UuidFacts DEF TypeOK, Uuids
<1>4. p \in Uuids \cup {Root, Trash}
  BY <1>2, ListingFacts
<1>5. e \in Entry /\ e.kind = kind
  BY <1>4 DEF Entry, Kinds
<1>6. Complete(kind) \subseteq Parts /\ Essential(kind) \subseteq Complete(kind)
  <2>1. CASE kind = "folder"
    BY <2>1 DEF Complete, Essential, Parts
  <2>2. CASE kind = "notebook"
    BY <2>2 DEF Complete, Essential, Parts
  <2>3. QED
    BY <2>1, <2>2
<1> HIDE DEF e
<1>7. /\ meta' \in [Uuids -> Entry \cup {NoItem}] /\ parts' \in [Uuids -> SUBSET Parts]
      /\ meta'[fresh] = e /\ parts'[fresh] = Complete(kind)
      /\ \A v \in Uuids \ changed : meta'[v] = meta[v] /\ parts'[v] = parts[v]
  BY <1>1, <1>2, <1>3, <1>5, <1>6 DEF TypeOK
<1>8. fresh' \in fresh..NumItems + 1
  BY <1>1, <1>3, UuidFacts
<1>9. \A v \in Uuids : v >= fresh' => meta'[v] = NoItem
  <2>1. \A v \in Uuids : v >= fresh' => v # fresh /\ v >= fresh
    BY <1>1, <1>3, UuidFacts
  <2>2. QED
    BY <1>2, <1>7, <2>1 DEF TypeOK
<1>10. \A v \in changed \ (halved' \cup raced') :
         meta'[v] # NoItem => Essential(meta'[v].kind) \subseteq parts'[v]
  BY <1>5, <1>6, <1>7
<1>11. /\ changed \subseteq Uuids
       /\ \A v \in changed : v < fresh => meta[v] # NoItem
       /\ halved' \subseteq halved /\ halved \ halved' \subseteq changed
  BY <1>1, <1>3
<1> HIDE DEF changed
<1>12. QED
  BY <1>1, <1>7, <1>8, <1>9, <1>10, <1>11, TabletKeeps

LEMMA TabletPurgesKeeps ==
  ASSUME StoreAssumption, StoreInv, TabletPurges
  PROVE  StoreInv'
<1> DEFINE gone == Doomed(Listing, Children(Listing, Trash))
<1>1. /\ TabletActs(gone) /\ halved' = halved \ gone /\ fresh' = fresh
      /\ meta' = [u \in Uuids |-> IF u \in gone THEN NoItem ELSE meta[u]]
      /\ parts' = [u \in Uuids |-> IF u \in gone THEN {} ELSE parts[u]]
  BY DEF TabletPurges
<1>2. TypeOK
  BY DEF StoreInv
<1>3. gone \subseteq DOMAIN Listing
  BY <1>2, InTrashAreItems
<1>4. gone \subseteq Uuids /\ (\A u \in gone : meta[u] # NoItem)
  BY <1>2, <1>3, ListingFacts
<1> HIDE DEF gone
<1>5. /\ meta' \in [Uuids -> Entry \cup {NoItem}] /\ parts' \in [Uuids -> SUBSET Parts]
      /\ \A v \in Uuids \ gone : meta'[v] = meta[v] /\ parts'[v] = parts[v]
      /\ \A v \in gone : meta'[v] = NoItem
  BY <1>1, <1>2, <1>4 DEF TypeOK
<1>6. fresh' \in fresh..NumItems + 1
  BY <1>1, <1>2, ListingFacts, UuidFacts
<1>7. \A v \in Uuids : v >= fresh' => meta'[v] = NoItem
  BY <1>1, <1>2, <1>5 DEF TypeOK
<1>8. halved' \subseteq halved /\ halved \ halved' \subseteq gone
  BY <1>1
<1>9. QED
  BY <1>1, <1>4, <1>5, <1>6, <1>7, <1>8, TabletKeeps

LEMMA TabletStepKeeps ==
  ASSUME StoreAssumption, StoreInv, Tablet
  PROVE  StoreInv'
BY TabletRenamesKeeps, TabletMovesKeeps, TabletCreatesKeeps, TabletPurgesKeeps DEF Tablet

\* ---------------------------------------------------------------------
\* The invariant and what follows from it.

LEMMA InitKeeps ==
  ASSUME StoreAssumption, Init
  PROVE  StoreInv
<1>1. PICK items \in FirstTrees :
        /\ meta = [u \in Uuids |-> IF u \in DOMAIN items THEN items[u] ELSE NoItem]
        /\ parts = [u \in Uuids |-> IF u \in DOMAIN items THEN Complete(items[u].kind) ELSE {}]
        /\ fresh = 1 + Cardinality(DOMAIN items)
  BY DEF Init
<1>2. PICK n \in 0..NumItems : items \in [1..n -> Entry]
  BY DEF StoreAssumption
<1>3. /\ local = <<>> /\ result = "idle" /\ todo = <<>> /\ held = NoItem
      /\ ops = 0 /\ edits = 0 /\ raced = {} /\ halved = {}
  BY DEF Init
<1>4. n \in Nat /\ fresh = n + 1 /\ n <= NumItems
  <2>1. n \in Nat /\ n <= NumItems
    BY UuidFacts
  <2>2. Cardinality(1..n) = n
    BY <2>1, FS_Interval
  <2>3. QED
    BY <1>1, <1>2, <2>1, <2>2
<1>5. \A kind \in Kinds : Complete(kind) \subseteq Parts /\ Essential(kind) \subseteq Complete(kind)
  <2>1. /\ Complete("folder") \subseteq Parts /\ Essential("folder") \subseteq Complete("folder")
    BY DEF Complete, Essential, Parts
  <2>2. /\ Complete("payload") \subseteq Parts /\ Essential("payload") \subseteq Complete("payload")
    BY DEF Complete, Essential, Parts
  <2>3. /\ Complete("notebook") \subseteq Parts /\ Essential("notebook") \subseteq Complete("notebook")
    BY DEF Complete, Essential, Parts
  <2>4. QED
    BY <2>1, <2>2, <2>3 DEF Kinds
<1>6. \A u \in 1..n : items[u] \in Entry /\ items[u].kind \in Kinds
  BY <1>2 DEF Entry
<1>7. meta \in [Uuids -> Entry \cup {NoItem}] /\ parts \in [Uuids -> SUBSET Parts]
  BY <1>1, <1>2, <1>5, <1>6
<1>8. \A u \in Uuids : u >= fresh => meta[u] = NoItem
  BY <1>1, <1>2, <1>4, UuidFacts
<1>9. TypeOK
  <2>1. fresh \in 1..NumItems + 1
    BY <1>4, UuidFacts
  <2>2. \A f \in DOMAIN local : local[f] \in Uuids
    BY <1>3
  <2>3. ops \in 0..MaxOps /\ edits \in 0..MaxEdits
    BY <1>3 DEF StoreAssumption
  <2>4. QED
    BY <1>3, <1>7, <1>8, <2>1, <2>2, <2>3 DEF TypeOK
<1>10. NoBrokenDocument
  <2>1. ASSUME NEW u \in Uuids, u \in DOMAIN items PROVE Essential(meta[u].kind) \subseteq parts[u]
    BY <1>1, <1>2, <1>5, <1>6, <2>1
  <2>2. \A u \in Uuids : u \notin DOMAIN items => meta[u] = NoItem
    BY <1>1
  <2>3. QED
    BY <2>1, <2>2 DEF NoBrokenDocument
<1>11. todo \in Seq(Commands) /\ Len(todo) = 0
  BY <1>3
<1>12. QED
  BY <1>3, <1>9, <1>10, <1>11 DEF StoreInv, PlanOK, DropsHidden, ShowsComplete, HeldIsCurrent

LEMMA StepKeeps ==
  ASSUME StoreAssumption, StoreInv, [Next]_vars
  PROVE  StoreInv'
<1>1. CASE Start
  BY <1>1, StartKeeps
<1>2. CASE Fail
  BY <1>2, FailKeeps
<1>3. CASE Tablet
  BY <1>3, TabletStepKeeps
<1>4. CASE PutPart
  <2>1. Next1("put") /\ UNCHANGED <<meta, local, held, halved>>
    BY <1>4 DEF PutPart
  <2>2. Head(todo) = todo[1] /\ 1 \in 1..Len(todo) /\ todo[1].act = "put"
    BY <2>1, CommandFacts
  <2>3. todo[1].part \in Parts
    BY <2>2 DEF StoreInv, PlanOK, Sane
  <2>4. parts' = [parts EXCEPT ![todo[1].uuid] = @ \cup {todo[1].part}]
    BY <1>4, <2>2 DEF PutPart
  <2>5. QED
    BY <2>1, <2>3, <2>4, BringKeeps
<1>5. CASE CopyPart
  <2>1. Next1("copy") /\ UNCHANGED <<meta, local, held, halved>>
    BY <1>5 DEF CopyPart
  <2>2. Head(todo) = todo[1] /\ 1 \in 1..Len(todo) /\ todo[1].act = "copy"
    BY <2>1, CommandFacts
  <2>3. todo[1].part = "payload"
    BY <2>2 DEF StoreInv, PlanOK, Sane
  <2>4. todo[1].part \in Parts
    BY <2>3 DEF Parts
  <2>5. parts' = [parts EXCEPT ![todo[1].uuid] = @ \cup {todo[1].part}]
    BY <1>5, <2>2, <2>3 DEF CopyPart
  <2>6. QED
    BY <2>1, <2>4, <2>5, BringKeeps
<1>6. CASE RegisterItem
  BY <1>6, RegisterKeeps
<1>7. CASE ReadMetadata
  BY <1>7, ReadKeeps
<1>8. CASE WriteMetadata
  BY <1>8, WriteKeeps
<1>9. CASE DropPart
  BY <1>9, DropKeeps
<1>10. CASE FetchItem
  BY <1>10, FetchKeeps
<1>11. CASE UNCHANGED vars
  BY <1>11 DEF vars, opVars, StoreInv, TypeOK, PlanOK, DropsHidden, ShowsComplete, HeldIsCurrent,
               NoBrokenDocument
<1>12. QED
  BY <1>1, <1>2, <1>3, <1>4, <1>5, <1>6, <1>7, <1>8, <1>9, <1>10, <1>11 DEF Next

\* Every plan of remote commands keeps the order that makes it safe to stop:
\* files before the metadata of a new document, the metadata before the payload
\* of a removed one, a read before each write.
THEOREM StoreInvariant == Spec => []StoreInv
<1>1. Init => StoreInv
  BY StoreAssumption, InitKeeps
<1>2. StoreInv /\ [Next]_vars => StoreInv'
  BY StoreAssumption, StepKeeps
<1>3. QED
  BY <1>1, <1>2, PTL DEF Spec

\* The store's variables always have their types, uuids are only given out once
\* and an operation runs exactly while it has commands left.
THEOREM TypeCorrect == Spec => []TypeOK
<1>1. StoreInv => TypeOK
  BY DEF StoreInv
<1>2. QED
  BY <1>1, StoreInvariant, PTL

\* No operation of the store, stopped after any command or interleaved with the
\* tablet's own acts, leaves a document the tablet shows and cannot open, but for
\* the two holes NoBrokenDocument names.
THEOREM DocumentsStayWhole == Spec => []NoBrokenDocument
<1>1. StoreInv => NoBrokenDocument
  BY DEF StoreInv
<1>2. QED
  BY <1>1, StoreInvariant, PTL

\* The read before each write of metadata keeps what the tablet did since the
\* listing: its moves and renames survive, and no item comes back.
THEOREM TabletChangesAreKept == Spec => TabletActsSurvive
<1> DEFINE Kept ==
      \A u \in Uuids \ raced :
        result = "running" /\ Head(todo).act = "write" /\ meta'[u] # meta[u]
          /\ calm' = calm /\ edits' = edits =>
          /\ meta[u] # NoItem
          /\ request.do \in {"rename", "update"} => meta'[u].parent = meta[u].parent
          /\ request.do \in {"move", "update"} => meta'[u].name = meta[u].name
<1>1. StoreInv /\ [Next]_vars => [Kept]_vars
  <2>1. SUFFICES ASSUME StoreInv, Next,
                        NEW u \in Uuids \ raced,
                        result = "running", Head(todo).act = "write", meta'[u] # meta[u], edits' = edits
                 PROVE  /\ meta[u] # NoItem
                        /\ request.do \in {"rename", "update"} => meta'[u].parent = meta[u].parent
                        /\ request.do \in {"move", "update"} => meta'[u].name = meta[u].name
    OBVIOUS
  <2>2. ~Start /\ ~Fail
    BY <2>1 DEF Start, Fail
  <2>3. ~Tablet
    <3>1. edits \in Nat
      BY <2>1, StoreAssumption DEF StoreInv, TypeOK
    <3>2. Tablet => edits' = edits + 1
      BY DEF Tablet, TabletRenames, TabletMoves, TabletCreates, TabletPurges, TabletActs
    <3>3. QED
      BY <2>1, <3>1, <3>2
  <2>4. ~PutPart /\ ~CopyPart /\ ~RegisterItem /\ ~ReadMetadata /\ ~DropPart /\ ~FetchItem
    BY <2>1 DEF PutPart, CopyPart, RegisterItem, ReadMetadata, DropPart, FetchItem, Next1
  <2>5. WriteMetadata
    BY <2>1, <2>2, <2>3, <2>4 DEF Next
  <2> DEFINE c == todo[1]
             e == Merged(held, c.entry)
  <2>6. /\ c.act = "write" /\ c.uuid \in Uuids /\ c.entry \in Changes
        /\ Suits(request.do, c) /\ held \in Entry /\ held # NoItem
        /\ c.uuid \notin raced => meta[c.uuid] = held
        /\ meta' = [meta EXCEPT ![c.uuid] = e]
    BY <2>1, <2>5, StoreAssumption, WriteFacts
  <2>7. /\ c.entry.name = Same => e.name = held.name
        /\ c.entry.parent = Stop => e.parent = held.parent
    BY <2>6, MergedEntry
  <2>8. meta \in [Uuids -> Entry \cup {NoItem}]
    BY <2>1 DEF StoreInv, TypeOK
  <2> HIDE DEF c, e
  <2>9. u = c.uuid /\ meta[u] = held /\ meta'[u] = e
    BY <2>1, <2>6, <2>8
  <2>10. QED
    BY <2>6, <2>7, <2>9 DEF Suits
<1>2. QED
  BY <1>1, StoreInvariant, PTL DEF Spec, TabletActsSurvive

\* ---------------------------------------------------------------------
\* Trees without walks: what Sound says with the chain of ancestors, said
\* of the parents alone.

\* No items are all below one another.
NoLoop(items) ==
  \A C \in SUBSET DOMAIN items : C # {} => \E u \in C : items[u].parent \notin C

ParentsOK(items) ==
  \A u \in DOMAIN items :
    /\ items[u].parent \in DOMAIN items \cup {Root, Trash}
    /\ items[u].parent \in DOMAIN items => IsFolder(items, items[u].parent)

NamesOK(items) ==
  \A u, v \in DOMAIN items :
    /\ items[u].parent = items[v].parent
    /\ items[u].parent # Trash
    /\ items[u].name = items[v].name
    => u = v

TreeOK(items) == ParentsOK(items) /\ NamesOK(items) /\ NoLoop(items)

\* A way up: n steps from an item to its parent, the first from x.
Climb(items, at, n, x) ==
  /\ at[0] = x
  /\ \A i \in 1..n : at[i - 1] \in DOMAIN items /\ at[i] = items[at[i - 1]].parent

\* A chain is finite, and as long as the walk may be.
Cap(items) == Cardinality(DOMAIN items)

LEMMA ItemsAreFinite ==
  ASSUME NEW items, IsListing(items)
  PROVE  IsFiniteSet(DOMAIN items) /\ Cap(items) \in Nat
BY UuidFacts, FS_Subset, FS_CardinalityType DEF IsListing, Cap

\* The walk of ancestor_chain, with or without its end.
Walk(items, at, x) ==
  /\ DOMAIN at = 0..Cap(items) /\ at[0] = x
  /\ \A i \in 1..Cap(items) :
       at[i] = IF at[i - 1] \in DOMAIN items THEN items[at[i - 1]].parent ELSE Stop

Ended(at, n) == {i \in 0..n : at[i] \in {Root, Stop}}

LEMMA ChainIsWalk ==
  ASSUME NEW items, IsListing(items), NEW x
  PROVE  \E at : /\ Walk(items, at, x)
                 /\ Chain(items, x) =
                      [i \in {k \in 0..Cap(items) : \A j \in Ended(at, Cap(items)) : k < j} |-> at[i]]
<1> DEFINE n == Cardinality(DOMAIN items)
           S == Uuids \cup {Root, Trash, Stop, x}
           next(w) == IF w \in DOMAIN items THEN items[w].parent ELSE Stop
           Eq(g) == g = [i \in 0..n |-> IF i = 0 THEN x ELSE next(g[i - 1])]
           at == CHOOSE g : Eq(g)
<1>1. Chain(items, x) = [i \in {k \in 0..n : \A j \in Ended(at, n) : k < j} |-> at[i]]
  BY DEF Chain, Ended
<1>2. n \in Nat
  BY ItemsAreFinite DEF Cap
<1>3. \A w \in S : next(w) \in S
  BY DEF IsListing, Entry
<1>4. x \in S
  OBVIOUS
<1> HIDE DEF n, at, next
<1> DEFINE step == [i \in 1..n |-> [w \in S |-> next(w)]]
<1>5. step \in [1..n -> [S -> S]] /\ \A i \in 1..n : \A w \in S : step[i][w] = next(w)
  <2> HIDE DEF S
  <2>1. QED
    BY <1>3
<1> HIDE DEF step, S
<1>6. PICK f : Follows(f, S, n, x, step)
  BY <1>2, <1>4, <1>5, Recursion
<1>7. Eq(f)
  <2>1. f = [i \in 0..n |-> f[i]] /\ f[0] = x
    BY <1>6 DEF Follows
  <2>2. \A i \in 0..n : f[i] = IF i = 0 THEN x ELSE next(f[i - 1])
    BY <1>2, <1>5, <1>6 DEF Follows
  <2>3. QED
    BY <2>1, <2>2
<1>8. Eq(at)
  <2> HIDE DEF Eq
  <2>1. QED
    BY <1>7 DEF at
<1>9. DOMAIN at = 0..n /\ at[0] = x /\ \A i \in 1..n : at[i] = next(at[i - 1])
  BY <1>2, <1>8
<1>10. Walk(items, at, x)
  BY <1>9 DEF Walk, Cap, n, next
<1>11. QED
  BY <1>1, <1>10 DEF Cap, n

LEMMA WalkExists ==
  ASSUME NEW items, IsListing(items), NEW x
  PROVE  \E at : Walk(items, at, x)
BY ChainIsWalk

\* A way up meets only items but for its end.
LEMMA ClimbMeets ==
  ASSUME NEW items, NEW at, NEW n \in Nat, NEW x, Climb(items, at, n, x), at[n] \in DOMAIN items
  PROVE  \A i \in 0..n : at[i] \in DOMAIN items
<1>1. TAKE i \in 0..n
<1>2. CASE i = n
  BY <1>2
<1>3. CASE i # n
  <2>1. i + 1 \in 1..n /\ (i + 1) - 1 = i
    BY <1>3
  <2>2. QED
    BY <2>1 DEF Climb
<1>4. QED
  BY <1>2, <1>3

\* A walk is the way up, as far as that goes.
LEMMA WalkIsClimb ==
  ASSUME NEW items, IsListing(items), NEW at, NEW x, Walk(items, at, x),
         NEW n \in 0..Cap(items), NEW up, Climb(items, up, n, x)
  PROVE  \A i \in 0..n : at[i] = up[i]
<1> DEFINE Good == {i \in Nat : i <= n => at[i] = up[i]}
<1>0. Cap(items) \in Nat /\ n \in Nat /\ n <= Cap(items)
  BY ItemsAreFinite
<1>1. 0 \in Good
  BY DEF Walk, Climb
<1>2. \A i \in Good \cap Nat : i + 1 \in Good
  <2>1. TAKE i \in Good \cap Nat
  <2>2. SUFFICES ASSUME i + 1 <= n PROVE at[i + 1] = up[i + 1]
    OBVIOUS
  <2>3. i + 1 \in 1..n /\ (i + 1) - 1 = i /\ i <= n /\ i + 1 \in 1..Cap(items)
    BY <1>0, <2>2
  <2>4. at[i] = up[i] /\ up[i] \in DOMAIN items /\ up[i + 1] = items[up[i]].parent
    BY <2>3 DEF Climb
  <2>5. at[i + 1] = IF at[i] \in DOMAIN items THEN items[at[i]].parent ELSE Stop
    BY <2>3 DEF Walk
  <2>6. QED
    BY <2>4, <2>5
<1>3. Nat \subseteq Good
  <2> HIDE DEF Good
  <2>1. QED
    BY <1>1, <1>2, SetInduction
<1>4. QED
  BY <1>0, <1>3

\* An item above another is where a way up leads that is not too long.
LEMMA AboveIsClimb ==
  ASSUME NEW items, IsListing(items), NEW x, NEW y \in DOMAIN items
  PROVE  IsDescendant(items, x, y) <=>
           \E n \in 0..Cap(items) : \E at : Climb(items, at, n, x) /\ at[n] = y
<1> DEFINE cap == Cap(items)
<1>0. cap \in Nat
  BY ItemsAreFinite
<1>1. PICK at : /\ Walk(items, at, x)
                /\ Chain(items, x) = [i \in {k \in 0..cap : \A j \in Ended(at, cap) : k < j} |-> at[i]]
  BY ChainIsWalk
<1>2. IsDescendant(items, x, y) <=> \E i \in 0..cap : at[i] = y /\ \A j \in Ended(at, cap) : i < j
  BY <1>1 DEF IsDescendant
<1>3. Root \notin DOMAIN items /\ Stop \notin DOMAIN items
  BY UuidFacts DEF IsListing
<1> HIDE DEF cap
<1>4. ASSUME NEW n \in 0..cap, at[n] = y, \A j \in Ended(at, cap) : n < j
      PROVE  Climb(items, at, n, x)
  <2>1. ASSUME NEW i \in 1..n PROVE at[i - 1] \in DOMAIN items /\ at[i] = items[at[i - 1]].parent
    <3>1. i \in 0..cap /\ ~(n < i) /\ i \in 1..cap
      BY <1>0
    <3>2. at[i] \notin {Root, Stop}
      BY <1>4, <3>1 DEF Ended
    <3>3. at[i] = IF at[i - 1] \in DOMAIN items THEN items[at[i - 1]].parent ELSE Stop
      BY <1>1, <3>1 DEF Walk, cap
    <3>4. QED
      BY <3>2, <3>3
  <2>2. QED
    BY <1>1, <2>1 DEF Climb, Walk
<1>5. ASSUME NEW n \in 0..cap, NEW up, Climb(items, up, n, x), up[n] = y
      PROVE  at[n] = y /\ \A j \in Ended(at, cap) : n < j
  <2>1. \A i \in 0..n : at[i] = up[i]
    BY <1>1, <1>5, WalkIsClimb DEF cap
  <2>2. n \in Nat /\ n \in 0..n
    OBVIOUS
  <2>3. \A i \in 0..n : up[i] \in DOMAIN items
    BY <1>5, <2>2, ClimbMeets
  <2>4. ASSUME NEW j \in Ended(at, cap) PROVE n < j
    <3>1. j \in 0..cap /\ at[j] \in {Root, Stop}
      BY DEF Ended
    <3>2. j \notin 0..n
      BY <1>3, <2>1, <2>3, <3>1
    <3>3. QED
      BY <1>0, <2>2, <3>1, <3>2
  <2>5. QED
    BY <1>5, <2>1, <2>2, <2>4
<1>6. QED
  BY <1>2, <1>4, <1>5 DEF cap

\* Two places with the same item on a way up make a loop.
LEMMA ClimbTwice ==
  ASSUME NEW items, NEW at, NEW n \in Nat, NEW x, Climb(items, at, n, x), at[n] \in DOMAIN items,
         NEW i \in 0..n, NEW j \in 0..n, i < j, at[i] = at[j]
  PROVE  ~NoLoop(items)
<1> DEFINE C == {at[k] : k \in i..j - 1}
<1>1. \A k \in 0..n : at[k] \in DOMAIN items
  BY ClimbMeets
<1>2. C \subseteq DOMAIN items
  BY <1>1
<1>3. at[i] \in C
  <2>1. i \in i..j - 1
    OBVIOUS
  <2>2. QED
    BY <2>1
<1>4. ASSUME NEW u \in C PROVE items[u].parent \in C
  <2>1. PICK k \in i..j - 1 : u = at[k]
    BY <1>4
  <2>2. k + 1 \in 1..n /\ (k + 1) - 1 = k
    BY <2>1
  <2>3. items[u].parent = at[k + 1]
    BY <2>1, <2>2 DEF Climb
  <2>4. CASE k + 1 = j
    BY <1>3, <2>3, <2>4
  <2>5. CASE k + 1 # j
    <3>1. k + 1 \in i..j - 1
      BY <2>1, <2>5
    <3>2. QED
      BY <2>3, <3>1
  <2>6. QED
    BY <2>4, <2>5
<1> HIDE DEF C
<1>5. QED
  BY <1>2, <1>3, <1>4 DEF NoLoop

\* Without loops a way up has fewer steps than there are items.
LEMMA ClimbIsShort ==
  ASSUME NEW items, IsListing(items), NoLoop(items), NEW at, NEW n \in Nat, NEW x,
         Climb(items, at, n, x), at[n] \in DOMAIN items
  PROVE  n < Cap(items)
<1>1. SUFFICES ASSUME Cap(items) <= n PROVE FALSE
  BY ItemsAreFinite
<1> DEFINE f == [k \in 0..n |-> at[k]]
           S == 0..n
           T == DOMAIN items
<1>2. f \in [S -> T]
  BY ClimbMeets
<1>3. IsFiniteSet(S) /\ Cardinality(S) = n + 1
  BY FS_Interval
<1>4. IsFiniteSet(T) /\ Cardinality(T) \in Nat /\ Cardinality(T) <= n
  BY <1>1, ItemsAreFinite DEF Cap
<1> HIDE DEF f, S, T
<1>5. \E i, j \in S : i # j /\ f[i] = f[j]
  <2>1. Cardinality(T) < Cardinality(S)
    BY <1>3, <1>4
  <2>2. QED
    BY <1>2, <1>3, <1>4, <2>1, FS_PigeonHole
<1>6. PICK i \in 0..n, j \in 0..n : i # j /\ at[i] = at[j]
  BY <1>5 DEF f, S
<1>7. i < j \/ j < i
  BY <1>6
<1>8. QED
  BY <1>6, <1>7, ClimbTwice

\* No item is on the way up from its parent when there is no loop, ...
LEMMA LoopFreeIsSound ==
  ASSUME NEW items, IsListing(items), NoLoop(items), NEW u \in DOMAIN items
  PROVE  ~IsDescendant(items, items[u].parent, u)
<1>1. SUFFICES ASSUME IsDescendant(items, items[u].parent, u) PROVE FALSE
  OBVIOUS
<1>2. PICK n \in 0..Cap(items) : \E up : Climb(items, up, n, items[u].parent) /\ up[n] = u
  BY <1>1, AboveIsClimb
<1>3. PICK at : Climb(items, at, n, items[u].parent) /\ at[n] = u
  BY <1>2
<1>4. n \in Nat
  BY ItemsAreFinite
<1> DEFINE C == {at[k] : k \in 0..n}
<1>5. C \subseteq DOMAIN items
  BY <1>3, <1>4, ClimbMeets
<1>6. u \in C /\ at[0] \in C
  <2>1. 0 \in 0..n /\ n \in 0..n
    BY <1>4
  <2>2. QED
    BY <1>3, <2>1
<1>7. ASSUME NEW v \in C PROVE items[v].parent \in C
  <2>1. PICK k \in 0..n : v = at[k]
    BY <1>7
  <2>2. CASE k = n
    <3>1. items[v].parent = at[0]
      BY <1>3, <2>1, <2>2 DEF Climb
    <3>2. QED
      BY <1>6, <3>1
  <2>3. CASE k # n
    <3>1. k + 1 \in 1..n /\ (k + 1) - 1 = k /\ k + 1 \in 0..n
      BY <1>4, <2>3
    <3>2. items[v].parent = at[k + 1]
      BY <1>3, <2>1, <3>1 DEF Climb
    <3>3. QED
      BY <3>1, <3>2
  <2>4. QED
    BY <2>2, <2>3
<1> HIDE DEF C
<1>8. QED
  BY <1>5, <1>6, <1>7 DEF NoLoop

\* ... and only then.
LEMMA SoundIsLoopFree ==
  ASSUME NEW items, IsListing(items),
         \A u \in DOMAIN items : ~IsDescendant(items, items[u].parent, u)
  PROVE  NoLoop(items)
<1>1. SUFFICES ASSUME NEW C \in SUBSET DOMAIN items, NEW x \in C,
                      \A u \in C : items[u].parent \in C
               PROVE  FALSE
  BY DEF NoLoop
<1> DEFINE cap == Cap(items)
<1>2. cap \in Nat /\ IsFiniteSet(DOMAIN items)
  BY ItemsAreFinite
<1>3. PICK at : Walk(items, at, x)
  BY WalkExists
<1> DEFINE Good == {i \in Nat : i <= cap => at[i] \in C}
<1>4. 0 \in Good
  BY <1>3 DEF Walk
<1>5. \A i \in Good \cap Nat : i + 1 \in Good
  <2>1. TAKE i \in Good \cap Nat
  <2>2. SUFFICES ASSUME i + 1 <= cap PROVE at[i + 1] \in C
    OBVIOUS
  <2>3. i + 1 \in 1..cap /\ (i + 1) - 1 = i /\ i <= cap
    BY <1>2, <2>2
  <2>4. at[i + 1] = IF at[i] \in DOMAIN items THEN items[at[i]].parent ELSE Stop
    BY <1>3, <2>3 DEF Walk
  <2>5. QED
    BY <1>1, <2>3, <2>4
<1>6. Nat \subseteq Good
  <2> HIDE DEF Good
  <2>1. QED
    BY <1>4, <1>5, SetInduction
<1>7. \A i \in 0..cap : at[i] \in C
  BY <1>2, <1>6
<1>8. \A i \in 1..cap : at[i - 1] \in C /\ at[i] = items[at[i - 1]].parent
  <2>1. TAKE i \in 1..cap
  <2>2. i - 1 \in 0..cap
    BY <1>2
  <2>3. at[i - 1] \in C
    BY <1>7, <2>2
  <2>4. QED
    BY <1>3, <2>3 DEF Walk
<1> DEFINE f == [k \in 0..cap |-> at[k]]
           S == 0..cap
           T == DOMAIN items
<1>9. f \in [S -> T]
  BY <1>7
<1>10. IsFiniteSet(S) /\ Cardinality(S) = cap + 1
  BY <1>2, FS_Interval
<1>11. Cardinality(T) < Cardinality(S) /\ IsFiniteSet(T)
  BY <1>2, <1>10 DEF Cap
<1> HIDE DEF f, S, T
<1>12. \E i, j \in S : i # j /\ f[i] = f[j]
  BY <1>9, <1>10, <1>11, FS_PigeonHole
<1>13. PICK i \in 0..cap, j \in 0..cap : i # j /\ at[i] = at[j]
  BY <1>12 DEF f, S
<1>14. ASSUME NEW k \in 0..cap, NEW l \in 0..cap, k < l, at[k] = at[l]
       PROVE  FALSE
  <2> DEFINE n == l - k - 1
             up == [m \in 0..n |-> at[k + 1 + m]]
             u == at[k]
  <2>1. n \in 0..cap /\ n \in Nat /\ k + 1 \in 1..cap /\ (k + 1) - 1 = k /\ k + 1 + n = l
    BY <1>2, <1>14
  <2>2. u \in DOMAIN items /\ items[u].parent = at[k + 1]
    BY <1>7, <1>8, <2>1
  <2>3. Climb(items, up, n, items[u].parent)
    <3>1. up[0] = at[k + 1]
      BY <2>1
    <3>2. ASSUME NEW m \in 1..n PROVE up[m - 1] \in DOMAIN items /\ up[m] = items[up[m - 1]].parent
      <4>1. k + 1 + m \in 1..cap /\ (k + 1 + m) - 1 = k + 1 + (m - 1) /\ m - 1 \in 0..n /\ m \in 0..n
        BY <1>2, <1>14
      <4>2. up[m] = at[k + 1 + m] /\ up[m - 1] = at[(k + 1 + m) - 1]
        BY <4>1
      <4>3. QED
        BY <1>8, <4>1, <4>2
    <3> HIDE DEF up, n, u
    <3>3. QED
      BY <2>2, <3>1, <3>2 DEF Climb
  <2>4. up[n] = u
    BY <1>14, <2>1
  <2> HIDE DEF up, n, u
  <2>5. IsDescendant(items, items[u].parent, u)
    BY <2>1, <2>2, <2>3, <2>4, AboveIsClimb DEF cap
  <2>6. QED
    BY <2>2, <2>5
<1>15. i < j \/ j < i
  BY <1>2, <1>13
<1>16. QED
  BY <1>13, <1>14, <1>15

\* What the invariant of the runs says of a listing, without the chains.
LEMMA SoundIsTree ==
  ASSUME NEW items, IsListing(items)
  PROVE  Sound(items) <=> TreeOK(items)
<1>1. ASSUME Sound(items) PROVE TreeOK(items)
  <2>1. ParentsOK(items)
    BY <1>1 DEF Sound, ParentsOK
  <2>2. NamesOK(items)
    <3>1. SUFFICES ASSUME NEW u \in DOMAIN items, NEW v \in DOMAIN items,
                          items[u].parent = items[v].parent, items[u].parent # Trash,
                          items[u].name = items[v].name
                   PROVE  u = v
      BY DEF NamesOK
    <3>2. Named(items, items[u].parent, items[u].name) = {u}
      BY <1>1, <3>1 DEF Sound
    <3>3. v \in Named(items, items[u].parent, items[u].name)
      BY <3>1 DEF Named, Children
    <3>4. QED
      BY <3>2, <3>3
  <2>3. NoLoop(items)
    BY <1>1, SoundIsLoopFree DEF Sound
  <2>4. QED
    BY <2>1, <2>2, <2>3 DEF TreeOK
<1>2. ASSUME TreeOK(items) PROVE Sound(items)
  <2>1. SUFFICES ASSUME NEW u \in DOMAIN items
                 PROVE  /\ items[u].parent \in DOMAIN items \cup {Root, Trash}
                        /\ items[u].parent \in DOMAIN items => IsFolder(items, items[u].parent)
                        /\ ~IsDescendant(items, items[u].parent, u)
                        /\ items[u].parent # Trash =>
                             Named(items, items[u].parent, items[u].name) = {u}
    BY DEF Sound
  <2>2. ~IsDescendant(items, items[u].parent, u)
    BY <1>2, LoopFreeIsSound DEF TreeOK
  <2>3. items[u].parent # Trash => Named(items, items[u].parent, items[u].name) = {u}
    BY <1>2 DEF TreeOK, NamesOK, Named, Children
  <2>4. QED
    BY <1>2, <2>2, <2>3 DEF TreeOK, ParentsOK
<1>3. QED
  BY <1>1, <1>2

\* ---------------------------------------------------------------------
\* What is above and what is below.

\* A place for an item with what is above it, all of them folders.
Above(items, p) == {x \in DOMAIN items : IsFolder(items, x) /\ IsDescendant(items, p, x)}

UpClosed(items, D) ==
  /\ D \subseteq DOMAIN items
  /\ \A x \in D : items[x].parent \in DOMAIN items => items[x].parent \in D

LEMMA AboveIsClosed ==
  ASSUME NEW items, IsListing(items), TreeOK(items), NEW p
  PROVE  UpClosed(items, Above(items, p))
<1>1. SUFFICES ASSUME NEW x \in Above(items, p), items[x].parent \in DOMAIN items
               PROVE  items[x].parent \in Above(items, p)
  BY DEF UpClosed, Above
<1> DEFINE y == items[x].parent
<1>2. x \in DOMAIN items /\ IsDescendant(items, p, x) /\ IsFolder(items, y)
  BY <1>1 DEF Above, TreeOK, ParentsOK
<1>3. PICK n \in 0..Cap(items) : \E up : Climb(items, up, n, p) /\ up[n] = x
  BY <1>2, AboveIsClimb
<1>4. PICK at : Climb(items, at, n, p) /\ at[n] = x
  BY <1>3
<1>5. n \in Nat /\ Cap(items) \in Nat
  BY ItemsAreFinite
<1>6. n < Cap(items)
  BY <1>2, <1>4, <1>5, ClimbIsShort DEF TreeOK
<1> DEFINE up == [k \in 0..n + 1 |-> IF k = n + 1 THEN y ELSE at[k]]
<1>7. Climb(items, up, n + 1, p)
  <2>1. up[0] = p
    BY <1>4, <1>5 DEF Climb
  <2>2. ASSUME NEW i \in 1..n + 1 PROVE up[i - 1] \in DOMAIN items /\ up[i] = items[up[i - 1]].parent
    <3>1. CASE i = n + 1
      <4>1. i - 1 = n /\ up[i - 1] = at[n] /\ up[i] = y
        BY <1>5, <3>1
      <4>2. QED
        BY <1>2, <1>4, <4>1
    <3>2. CASE i # n + 1
      <4>1. i \in 1..n /\ up[i] = at[i] /\ up[i - 1] = at[i - 1]
        BY <1>5, <3>2
      <4> HIDE DEF up
      <4>2. QED
        BY <1>4, <4>1 DEF Climb
    <3>3. QED
      BY <3>1, <3>2
  <2> HIDE DEF up
  <2>3. QED
    BY <2>1, <2>2 DEF Climb
<1>8. n + 1 \in 0..Cap(items) /\ up[n + 1] = y
  BY <1>5, <1>6
<1> HIDE DEF up, y
<1>9. IsDescendant(items, p, y)
  <2>1. y \in DOMAIN items
    BY <1>1 DEF y
  <2>2. QED
    BY <1>7, <1>8, <2>1, AboveIsClimb
<1>10. QED
  BY <1>1, <1>2, <1>9 DEF Above, y

\* A folder is a place of its own.
LEMMA PlaceIsAbove ==
  ASSUME NEW items, IsListing(items), NEW p \in DOMAIN items, IsFolder(items, p)
  PROVE  p \in Above(items, p)
<1> DEFINE at == [k \in 0..0 |-> p]
<1>1. Climb(items, at, 0, p) /\ at[0] = p
  BY DEF Climb
<1>2. 0 \in 0..Cap(items)
  BY ItemsAreFinite
<1> HIDE DEF at
<1>3. IsDescendant(items, p, p)
  BY <1>1, <1>2, AboveIsClimb
<1>4. QED
  BY <1>3 DEF Above

\* descendants, level by level.
Levels(items, p, level) ==
  /\ DOMAIN level = 0..Cap(items) /\ level[0] = Children(items, p)
  /\ \A i \in 1..Cap(items) : level[i] = UNION {Children(items, u) : u \in level[i - 1]}

LEMMA DescendantLevels ==
  ASSUME NEW items, IsListing(items), NEW p
  PROVE  \E level : /\ Levels(items, p, level)
                    /\ Descendants(items, p) = UNION {level[i] : i \in 0..Cap(items)}
<1> DEFINE n == Cardinality(DOMAIN items)
           S == SUBSET DOMAIN items
           next(l) == UNION {Children(items, u) : u \in l}
           Eq(g) == g = [i \in 0..n |-> IF i = 0 THEN Children(items, p) ELSE next(g[i - 1])]
           level == CHOOSE g : Eq(g)
<1>1. Descendants(items, p) = UNION {level[i] : i \in DOMAIN level}
  BY DEF Descendants
<1>2. n \in Nat
  BY ItemsAreFinite DEF Cap
<1>3. \A u : Children(items, u) \in S
  BY DEF Children
<1>4. \A l : next(l) \in S
  BY <1>3
<1> HIDE DEF n, level, next
<1> DEFINE step == [i \in 1..n |-> [l \in S |-> next(l)]]
<1>5. step \in [1..n -> [S -> S]] /\ \A i \in 1..n : \A l \in S : step[i][l] = next(l)
  <2> HIDE DEF S
  <2>1. QED
    BY <1>4
<1> HIDE DEF step, S
<1>6. PICK f : Follows(f, S, n, Children(items, p), step)
  BY <1>2, <1>3, <1>5, Recursion
<1>7. Eq(f)
  <2>1. f = [i \in 0..n |-> f[i]] /\ f[0] = Children(items, p)
    BY <1>6 DEF Follows
  <2>2. \A i \in 0..n : f[i] = IF i = 0 THEN Children(items, p) ELSE next(f[i - 1])
    BY <1>2, <1>5, <1>6 DEF Follows
  <2>3. QED
    BY <2>1, <2>2
<1>8. Eq(level)
  <2> HIDE DEF Eq
  <2>1. QED
    BY <1>7 DEF level
<1>9. /\ DOMAIN level = 0..n /\ level[0] = Children(items, p)
      /\ \A i \in 1..n : level[i] = next(level[i - 1])
  BY <1>2, <1>8
<1>10. Levels(items, p, level) /\ DOMAIN level = 0..Cap(items)
  BY <1>9 DEF Levels, Cap, n, next
<1>11. QED
  BY <1>1, <1>10

\* The walk ends below the items it meets: they are closed under children.
LEMMA DescendantsAreClosed ==
  ASSUME NEW items, IsListing(items), NoLoop(items), NEW p,
         NEW x \in Descendants(items, p), NEW c \in Children(items, x)
  PROVE  c \in Descendants(items, p)
<1> DEFINE n == Cap(items)
<1>1. PICK level : /\ Levels(items, p, level)
                   /\ Descendants(items, p) = UNION {level[i] : i \in 0..n}
  BY DescendantLevels
<1>2. n \in Nat /\ n = Cap(items)
  BY ItemsAreFinite
<1> HIDE DEF n
<1>3. \A i \in 1..n : \A v : v \in level[i] <=> \E u \in level[i - 1] : v \in Children(items, u)
  BY <1>1, <1>2 DEF Levels
<1>4. level[0] = Children(items, p)
  BY <1>1 DEF Levels
\* Level i is i steps below the children of p.
<1> DEFINE Leads(i, y) == \E at : Climb(items, at, i, y) /\ at[i] \in DOMAIN items
           Good == {i \in Nat : i <= n => \A y \in level[i] : y \in DOMAIN items /\ Leads(i, y)}
<1>5. 0 \in Good
  <2>1. ASSUME NEW y \in Children(items, p) PROVE y \in DOMAIN items /\ Leads(0, y)
    <3> DEFINE at == [k \in 0..0 |-> y]
    <3>1. y \in DOMAIN items /\ at[0] = y
      BY DEF Children
    <3>2. Climb(items, at, 0, y)
      BY DEF Climb
    <3> HIDE DEF at
    <3>3. QED
      BY <3>1, <3>2
  <2> HIDE DEF Leads
  <2>2. QED
    BY <1>4, <2>1
<1>6. \A i \in Good \cap Nat : i + 1 \in Good
  <2>1. TAKE i \in Good \cap Nat
  <2>2. SUFFICES ASSUME i + 1 <= n, NEW y \in level[i + 1] PROVE y \in DOMAIN items /\ Leads(i + 1, y)
    BY DEF Good
  <2>3. i + 1 \in 1..n /\ (i + 1) - 1 = i /\ i <= n
    BY <1>2, <2>2
  <2>5. PICK u \in level[i] : y \in Children(items, u)
    BY <1>3, <2>2, <2>3
  <2>6. Leads(i, u) /\ y \in DOMAIN items /\ items[y].parent = u
    <3>1. Leads(i, u)
      BY <2>3, <2>5 DEF Good
    <3>2. QED
      BY <2>5, <3>1 DEF Children
  <2>7. PICK at : Climb(items, at, i, u) /\ at[i] \in DOMAIN items
    BY <2>6
  <2> DEFINE up == [k \in 0..i + 1 |-> IF k = 0 THEN y ELSE at[k - 1]]
  <2>8. Climb(items, up, i + 1, y) /\ up[i + 1] \in DOMAIN items
    <3>1. up[0] = y /\ up[i + 1] = at[i]
      OBVIOUS
    <3>2. ASSUME NEW k \in 1..i + 1 PROVE up[k - 1] \in DOMAIN items /\ up[k] = items[up[k - 1]].parent
      <4>1. CASE k = 1
        <5>1. up[k - 1] = y /\ up[k] = at[0]
          BY <4>1
        <5>2. at[0] = u
          BY <2>7 DEF Climb
        <5>3. QED
          BY <2>6, <5>1, <5>2
      <4>2. CASE k # 1
        <5>1. k - 1 \in 1..i /\ up[k] = at[k - 1] /\ up[k - 1] = at[(k - 1) - 1]
          BY <4>2
        <5> HIDE DEF up
        <5>2. QED
          BY <2>7, <5>1 DEF Climb
      <4>3. QED
        BY <4>1, <4>2
    <3> HIDE DEF up
    <3>3. QED
      BY <2>7, <3>1, <3>2 DEF Climb
  <2> HIDE DEF up
  <2>9. QED
    BY <2>6, <2>8
<1>7. Nat \subseteq Good
  <2> HIDE DEF Good
  <2>1. QED
    BY <1>5, <1>6, SetInduction
<1>8. PICK i \in 0..n : x \in level[i]
  BY <1>1
<1>9. i < n
  <2>1. i \in Nat /\ i <= n
    BY <1>2
  <2>2. Leads(i, x)
    BY <1>7, <1>8, <2>1 DEF Good
  <2>3. QED
    BY <1>2, <2>1, <2>2, ClimbIsShort
<1>10. i + 1 \in 1..n /\ (i + 1) - 1 = i /\ i + 1 \in 0..n
  BY <1>2, <1>9
<1>11. c \in level[i + 1]
  BY <1>3, <1>8, <1>10
<1>12. QED
  BY <1>1, <1>10, <1>11

LEMMA ChildrenAreDescendants ==
  ASSUME NEW items, IsListing(items), NEW p
  PROVE  Children(items, p) \subseteq Descendants(items, p)
<1>1. PICK level : /\ Levels(items, p, level)
                   /\ Descendants(items, p) = UNION {level[i] : i \in 0..Cap(items)}
  BY DescendantLevels
<1>2. 0 \in 0..Cap(items)
  BY ItemsAreFinite
<1>3. QED
  BY <1>1, <1>2 DEF Levels

\* What a deletion removes has all its children in it.
LEMMA DoomedIsClosed ==
  ASSUME NEW items, IsListing(items), NoLoop(items), NEW targets,
         NEW x \in Doomed(items, targets), NEW c \in Children(items, x)
  PROVE  c \in Doomed(items, targets)
<1>1. CASE x \in targets
  <2>1. c \in Descendants(items, x)
    BY ChildrenAreDescendants
  <2>2. QED
    BY <1>1, <2>1 DEF Doomed
<1>2. CASE \E u \in targets : x \in Descendants(items, u)
  <2>1. PICK u \in targets : x \in Descendants(items, u)
    BY <1>2
  <2>2. c \in Descendants(items, u)
    BY <2>1, DescendantsAreClosed
  <2>3. QED
    BY <2>2 DEF Doomed
<1>3. QED
  BY <1>1, <1>2 DEF Doomed

\* A child is deeper than its parent.
LEMMA ChildIsDeeper ==
  ASSUME NEW items, IsListing(items), NoLoop(items), NEW u \in DOMAIN items, NEW c \in Children(items, u)
  PROVE  /\ Depth(items, u) \in Nat /\ Depth(items, c) \in Nat
         /\ Depth(items, u) < Depth(items, c)
<1> DEFINE n == Cap(items)
           p == items[u].parent
           Reach(at) == {k \in 0..n : \A j \in Ended(at, n) : k < j}
<1>1. PICK g : Walk(items, g, p) /\ Chain(items, p) = [i \in Reach(g) |-> g[i]]
  BY ChainIsWalk
<1>2. PICK f : Walk(items, f, u) /\ Chain(items, u) = [i \in Reach(f) |-> f[i]]
  BY ChainIsWalk
<1>3. items[c].parent = u
  BY DEF Children
<1>4. Depth(items, u) = Cardinality(Reach(g)) /\ Depth(items, c) = Cardinality(Reach(f))
  BY <1>1, <1>2, <1>3 DEF Depth
<1>5. n \in Nat /\ n = Cap(items)
  BY ItemsAreFinite
<1>6. u \notin {Root, Stop}
  BY UuidFacts DEF IsListing
<1>7. 0 < n
  BY <1>5, ItemsAreFinite, FS_EmptySet DEF Cap
<1> HIDE DEF n
\* The walk from u is one step, and then the walk from its parent.
<1> DEFINE Good == {k \in Nat : k + 1 <= n => f[k + 1] = g[k]}
<1>8. 0 \in Good
  <2>1. f[0] = u /\ f[1] = (IF f[1 - 1] \in DOMAIN items THEN items[f[1 - 1]].parent ELSE Stop) /\ g[0] = p
    <3>1. 1 \in 1..n
      BY <1>5, <1>7
    <3>2. QED
      BY <1>1, <1>2, <1>5, <3>1 DEF Walk
  <2>2. f[1] = p
    BY <2>1
  <2>3. QED
    BY <2>1, <2>2
<1>9. \A k \in Good \cap Nat : k + 1 \in Good
  <2>1. TAKE k \in Good \cap Nat
  <2>2. SUFFICES ASSUME (k + 1) + 1 <= n PROVE f[(k + 1) + 1] = g[k + 1]
    OBVIOUS
  <2>3. /\ k + 1 \in 1..n /\ (k + 1) - 1 = k /\ k + 1 <= n
        /\ (k + 1) + 1 \in 1..n /\ ((k + 1) + 1) - 1 = k + 1
    BY <1>5, <2>2
  <2>4. f[(k + 1) + 1] = (IF f[k + 1] \in DOMAIN items THEN items[f[k + 1]].parent ELSE Stop)
    BY <1>2, <1>5, <2>3 DEF Walk
  <2>5. g[k + 1] = (IF g[k] \in DOMAIN items THEN items[g[k]].parent ELSE Stop)
    BY <1>1, <1>5, <2>3 DEF Walk
  <2>6. QED
    BY <2>3, <2>4, <2>5
<1>10. Nat \subseteq Good
  <2> HIDE DEF Good
  <2>1. QED
    BY <1>8, <1>9, SetInduction
<1>11. \A k \in Nat : k + 1 <= n => f[k + 1] = g[k]
  BY <1>10
<1>12. f[0] = u
  BY <1>2 DEF Walk
<1>13. ASSUME NEW at, NEW k \in Reach(at), NEW j \in 0..k PROVE j \in Reach(at)
  <2>1. k \in 0..n /\ (\A i \in Ended(at, n) : k < i) /\ Ended(at, n) \subseteq 0..n
    BY DEF Ended
  <2>2. j \in 0..n /\ j <= k
    BY <1>5, <2>1
  <2>3. \A i \in Ended(at, n) : j < i
    BY <1>5, <2>1, <2>2
  <2>4. QED
    BY <2>2, <2>3
<1>14. ASSUME NEW k \in Reach(g), k + 1 <= n PROVE k + 1 \in Reach(f)
  <2>1. k \in Nat /\ k + 1 \in 0..n
    BY <1>5, <1>14
  <2>2. ASSUME NEW j \in Ended(f, n) PROVE k + 1 < j
    <3>1. j \in 0..n /\ f[j] \in {Root, Stop}
      BY DEF Ended
    <3>2. j # 0
      BY <1>6, <1>12, <3>1
    <3>3. j - 1 \in 0..n /\ j - 1 \in Nat /\ (j - 1) + 1 = j
      BY <1>5, <3>1, <3>2
    <3>4. g[j - 1] \in {Root, Stop}
      BY <1>5, <1>11, <3>1, <3>3
    <3>5. k < j - 1
      BY <1>14, <3>3, <3>4 DEF Ended
    <3>6. QED
      BY <2>1, <3>1, <3>3, <3>5
  <2>3. QED
    BY <2>1, <2>2
\* The walk from the parent ends: it has no loop.
<1>15. n \notin Reach(g)
  <2>1. SUFFICES ASSUME n \in Reach(g) PROVE FALSE
    OBVIOUS
  <2>2. \A i \in 0..n : g[i] \notin {Root, Stop}
    <3>1. \A i \in Ended(g, n) : n < i
      BY <2>1
    <3>2. QED
      BY <1>5, <3>1 DEF Ended
  <2>3. \A i \in 1..n : g[i - 1] \in DOMAIN items /\ g[i] = items[g[i - 1]].parent
    <3>1. TAKE i \in 1..n
    <3>2. g[i] \notin {Root, Stop}
      <4>1. i \in 0..n
        BY <1>5
      <4>2. QED
        BY <2>2, <4>1
    <3>3. QED
      BY <1>1, <1>5, <3>2 DEF Walk
  <2>4. Climb(items, f, n, u)
    <3>1. \A i \in 1..n : f[i - 1] \in DOMAIN items /\ f[i] = items[f[i - 1]].parent
      <4>1. TAKE i \in 1..n
      <4>2. CASE i = 1
        <5>1. f[i - 1] = u /\ f[i] = g[0]
          BY <1>5, <1>7, <1>11, <1>12, <4>2
        <5>2. g[0] = p
          BY <1>1 DEF Walk
        <5>3. QED
          BY <5>1, <5>2
      <4>3. CASE i # 1
        <5>1. i - 1 \in 1..n /\ i - 1 \in Nat /\ (i - 1) - 1 \in Nat /\ (i - 1) + 1 = i /\ ((i - 1) - 1) + 1 = i - 1
          BY <1>5, <4>3
        <5>2. i <= n /\ i - 1 <= n
          BY <1>5
        <5>3. f[i] = g[i - 1] /\ f[i - 1] = g[(i - 1) - 1]
          BY <1>11, <5>1, <5>2
        <5>4. QED
          BY <2>3, <5>1, <5>3
      <4>4. QED
        BY <4>2, <4>3
    <3>2. QED
      BY <1>12, <3>1 DEF Climb
  <2>5. f[n] \in DOMAIN items
    <3>1. n - 1 \in Nat /\ (n - 1) + 1 = n /\ n \in 1..n
      BY <1>5, <1>7
    <3>2. f[n] = g[n - 1]
      BY <1>5, <1>11, <3>1
    <3>3. QED
      BY <2>3, <3>1, <3>2
  <2>6. n < Cap(items)
    BY <1>5, <2>4, <2>5, ClimbIsShort
  <2>7. QED
    BY <1>5, <2>6
<1> DEFINE Out == {k \in Nat : k \notin Reach(g)}
<1>16. PICK m \in Out : \A k \in Out : m <= k
  <2>1. Out \subseteq Nat /\ n \in Out
    BY <1>5, <1>15
  <2> HIDE DEF Out
  <2>2. QED
    BY <2>1, Least
<1>17. m \in Nat /\ m \notin Reach(g) /\ m <= n
  BY <1>5, <1>15, <1>16
<1>18. m \in Reach(f)
  <2>1. CASE m = 0
    <3>1. ASSUME NEW j \in Ended(f, n) PROVE 0 < j
      <4>1. j \in 0..n /\ f[j] \in {Root, Stop}
        BY DEF Ended
      <4>2. QED
        BY <1>5, <1>6, <1>12, <4>1
    <3>2. QED
      BY <1>5, <2>1, <3>1
  <2>2. CASE m # 0
    <3>1. m - 1 \in Nat /\ (m - 1) + 1 = m /\ ~(m <= m - 1)
      BY <1>17, <2>2
    <3>2. m - 1 \in Reach(g)
      <4> HIDE DEF Reach
      <4>1. QED
        BY <1>16, <3>1
    <3>3. QED
      BY <1>14, <1>17, <3>1, <3>2
  <2>3. QED
    BY <2>1, <2>2
<1>19. Reach(g) \subseteq Reach(f)
  <2>1. ASSUME NEW k \in Reach(g) PROVE k \in Reach(f)
    <3>1. k \in 0..n /\ k # n
      BY <1>15
    <3>2. k + 1 <= n /\ k \in 0..k + 1
      BY <1>5, <3>1
    <3>3. k + 1 \in Reach(f)
      BY <1>14, <3>2
    <3> HIDE DEF Reach
    <3>4. QED
      BY <1>13, <3>2, <3>3
  <2>2. QED
    BY <2>1
<1>20. IsFiniteSet(Reach(f)) /\ Reach(f) # Reach(g)
  <2>1. Reach(f) \subseteq 0..n /\ IsFiniteSet(0..n)
    BY <1>5, FS_Interval
  <2> HIDE DEF Reach
  <2>2. QED
    BY <1>17, <1>18, <2>1, FS_Subset
<1> HIDE DEF Reach
<1>21. /\ IsFiniteSet(Reach(g)) /\ Cardinality(Reach(g)) <= Cardinality(Reach(f))
       /\ Cardinality(Reach(g)) # Cardinality(Reach(f))
  BY <1>19, <1>20, FS_Subset
<1>22. Cardinality(Reach(g)) \in Nat /\ Cardinality(Reach(f)) \in Nat
  BY <1>20, <1>21, FS_CardinalityType
<1>23. QED
  BY <1>4, <1>21, <1>22

\* ---------------------------------------------------------------------
\* How the commands of one item after the other lie in a plan.

\* at[k] commands of the plan come before those of item k.
Laid(plan, seqs, n, at) ==
  /\ \A k \in 1..n :
       /\ at[k] \in Nat /\ Len(seqs[k]) \in Nat /\ at[k] + Len(seqs[k]) <= Len(plan)
       /\ \A m \in 1..Len(seqs[k]) : plan[at[k] + m] = seqs[k][m]
  /\ \A j, k \in 1..n : j < k => at[j] + Len(seqs[j]) <= at[k]
  /\ \A i \in 1..Len(plan) : \E k \in 1..n : \E m \in 1..Len(seqs[k]) : i = at[k] + m

\* One more item.
LEMMA LaidMore ==
  ASSUME NEW S, NEW seqs, NEW n \in Nat, \A k \in 1..n + 1 : seqs[k] \in Seq(S),
         NEW plan \in Seq(S), NEW at, Laid(plan, seqs, n, at), at[n + 1] = Len(plan)
  PROVE  Laid(plan \o seqs[n + 1], seqs, n + 1, at)
<1> DEFINE more == seqs[n + 1]
           r == plan \o more
<1>0. more \in Seq(S) /\ n + 1 \in 1..n + 1
  OBVIOUS
<1>1. /\ Len(plan) \in Nat /\ Len(more) \in Nat /\ Len(r) = Len(plan) + Len(more)
      /\ \A i \in 1..Len(plan) + Len(more) : r[i] = IF i <= Len(plan) THEN plan[i] ELSE more[i - Len(plan)]
  <2> HIDE DEF more
  <2>1. QED
    BY <1>0, ConcatProperties
<1>2. \A k \in 1..n + 1 : k = n + 1 \/ k \in 1..n
  OBVIOUS
<1>3. \A k \in 1..n + 1 : Len(seqs[k]) \in Nat
  OBVIOUS
<1> HIDE DEF r, more
<1>4. ASSUME NEW k \in 1..n + 1
      PROVE  /\ at[k] \in Nat /\ Len(seqs[k]) \in Nat /\ at[k] + Len(seqs[k]) <= Len(r)
             /\ \A m \in 1..Len(seqs[k]) : r[at[k] + m] = seqs[k][m]
  <2>1. CASE k = n + 1
    <3>1. seqs[k] = more /\ at[k] = Len(plan)
      BY <2>1 DEF more
    <3>2. ASSUME NEW m \in 1..Len(more) PROVE r[Len(plan) + m] = more[m]
      <4>1. Len(plan) + m \in 1..Len(plan) + Len(more) /\ ~(Len(plan) + m <= Len(plan)) /\ (Len(plan) + m) - Len(plan) = m
        BY <1>1
      <4>2. QED
        BY <1>1, <4>1
    <3>3. QED
      BY <1>1, <3>1, <3>2
  <2>2. CASE k \in 1..n
    <3>1. /\ at[k] \in Nat /\ Len(seqs[k]) \in Nat /\ at[k] + Len(seqs[k]) <= Len(plan)
          /\ \A m \in 1..Len(seqs[k]) : plan[at[k] + m] = seqs[k][m]
      BY <2>2 DEF Laid
    <3>2. ASSUME NEW m \in 1..Len(seqs[k]) PROVE r[at[k] + m] = seqs[k][m]
      <4>1. at[k] + m \in 1..Len(plan) + Len(more) /\ at[k] + m <= Len(plan)
        BY <1>1, <3>1
      <4>2. QED
        BY <1>1, <3>1, <4>1
    <3>3. QED
      BY <1>1, <3>1, <3>2
  <2>3. QED
    BY <1>2, <2>1, <2>2
<1>5. ASSUME NEW j \in 1..n + 1, NEW k \in 1..n + 1, j < k PROVE at[j] + Len(seqs[j]) <= at[k]
  <2>1. j \in 1..n
    BY <1>5
  <2>2. CASE k \in 1..n
    BY <1>5, <2>1, <2>2 DEF Laid
  <2>3. CASE k = n + 1
    BY <2>1, <2>3 DEF Laid
  <2>4. QED
    BY <1>2, <2>2, <2>3
<1>6. ASSUME NEW i \in 1..Len(r) PROVE \E k \in 1..n + 1 : \E m \in 1..Len(seqs[k]) : i = at[k] + m
  <2>1. CASE i <= Len(plan)
    <3>1. PICK k \in 1..n : \E m \in 1..Len(seqs[k]) : i = at[k] + m
      <4>1. i \in 1..Len(plan)
        BY <1>1, <2>1
      <4>2. QED
        BY <4>1 DEF Laid
    <3>2. k \in 1..n + 1
      OBVIOUS
    <3>3. QED
      BY <3>1, <3>2
  <2>2. CASE ~(i <= Len(plan))
    <3>1. i - Len(plan) \in 1..Len(more) /\ i = Len(plan) + (i - Len(plan))
      BY <1>1, <2>2
    <3>2. seqs[n + 1] = more /\ at[n + 1] = Len(plan)
      BY DEF more
    <3>3. QED
      BY <1>0, <3>1, <3>2
  <2>3. QED
    BY <2>1, <2>2
<1>7. Laid(r, seqs, n + 1, at)
  BY <1>4, <1>5, <1>6 DEF Laid
<1>8. QED
  BY <1>7 DEF r, more

LEMMA PlanIsLaid ==
  ASSUME NEW S, NEW n \in Nat, NEW seqs \in [1..n -> Seq(S)]
  PROVE  \E at : Laid(FlattenSeq(seqs), seqs, n, at)
<1>0. Len(seqs) = n /\ seqs \in Seq(Seq(S))
  OBVIOUS
<1>1. CASE n = 0
  <2>1. FlattenSeq(seqs) = <<>>
    BY <1>0, <1>1 DEF FlattenSeq
  <2>2. \A i \in 1..n : FALSE
    BY <1>1
  <2> DEFINE plan == FlattenSeq(seqs)
  <2>3. Len(plan) = 0
    BY <2>1
  <2> HIDE DEF plan
  <2>4. 1..n = {} /\ 1..Len(plan) = {}
    <3>1. 1..0 = {}
      OBVIOUS
    <3>2. QED
      BY <1>1, <2>3, <3>1
  <2>5. ASSUME NEW at PROVE Laid(plan, seqs, n, at)
    BY <2>4 DEF Laid
  <2>6. QED
    BY <2>5 DEF plan
<1>2. CASE n # 0
  <2> DEFINE W == Seq(S)
             step == [i \in 1..n |-> [w \in W |-> w \o seqs[i]]]
             Eq(g) == g = [i \in 1..n |-> IF i = 1 THEN seqs[i] ELSE g[i - 1] \o seqs[i]]
             flatten == CHOOSE g : Eq(g)
             x == <<>>
  <2>0. n > 0 /\ \A i \in 1..n : seqs[i] \in W
    BY <1>2
  <2>1. FlattenSeq(seqs) = flatten[n]
    BY <1>0, <1>2 DEF FlattenSeq
  <2>2. step \in [1..n -> [W -> W]]
    BY <2>0
  <2>3. \A w \in W : <<>> \o w = w
    BY ConcatEmptySeq
  <2>4. x \in W /\ Len(x) = 0
    OBVIOUS
  <2> HIDE DEF flatten, step, x, W
  <2>5. PICK f : Follows(f, W, n, x, step)
    BY <2>2, <2>4, Recursion
  <2>6. \A i \in 0..n : f[i] \in W
    BY <2>5 DEF Follows
  <2>7. ASSUME NEW i \in 1..n PROVE f[i] = f[i - 1] \o seqs[i]
    <3>1. i - 1 \in 0..n
      OBVIOUS
    <3>2. f[i - 1] \in W
      BY <2>6, <3>1
    <3>3. step[i][f[i - 1]] = f[i - 1] \o seqs[i]
      BY <3>2 DEF step
    <3>4. QED
      BY <2>5, <3>3 DEF Follows
  <2>8. Eq([i \in 1..n |-> f[i]])
    <3> DEFINE g == [i \in 1..n |-> f[i]]
    <3>1. ASSUME NEW i \in 1..n PROVE g[i] = IF i = 1 THEN seqs[i] ELSE g[i - 1] \o seqs[i]
      <4>1. CASE i = 1
        <5>1. f[1] = f[0] \o seqs[1] /\ f[0] = x /\ seqs[1] \in W
          <6>1. 1 \in 1..n /\ 1 - 1 = 0
            BY <2>0
          <6>2. QED
            BY <2>0, <2>5, <2>7, <6>1 DEF Follows
        <5>2. f[1] = seqs[1]
          BY <2>3, <5>1 DEF x
        <5>3. QED
          BY <4>1, <5>2
      <4>2. CASE i # 1
        <5>1. i - 1 \in 1..n /\ g[i] = f[i] /\ g[i - 1] = f[i - 1]
          BY <4>2
        <5>2. QED
          BY <2>7, <4>2, <5>1
      <4>3. QED
        BY <4>1, <4>2
    <3>2. QED
      BY <3>1
  <2>9. Eq(flatten)
    <3> HIDE DEF Eq
    <3>1. QED
      BY <2>8 DEF flatten
  <2> DEFINE Same0 == {k \in Nat : k + 1 <= n => flatten[k + 1] = f[k + 1]}
  <2>10. flatten = [i \in 1..n |-> IF i = 1 THEN seqs[i] ELSE flatten[i - 1] \o seqs[i]]
    BY <2>9
  <2>11. f[1] = seqs[1]
    <3>1. f[1] = f[0] \o seqs[1] /\ f[0] = x /\ seqs[1] \in W
      <4>1. 1 \in 1..n /\ 1 - 1 = 0
        BY <2>0
      <4>2. QED
        BY <2>0, <2>5, <2>7, <4>1 DEF Follows
    <3>2. QED
      BY <2>3, <3>1 DEF x
  <2>12. 0 \in Same0
    <3>1. flatten[1] = seqs[1]
      <4>1. 1 \in 1..n
        BY <2>0
      <4>2. QED
        BY <2>10, <4>1
    <3>2. QED
      BY <2>11, <3>1
  <2>13. \A k \in Same0 \cap Nat : k + 1 \in Same0
    <3>1. TAKE k \in Same0 \cap Nat
    <3>2. SUFFICES ASSUME (k + 1) + 1 <= n PROVE flatten[(k + 1) + 1] = f[(k + 1) + 1]
      OBVIOUS
    <3>3. (k + 1) + 1 \in 1..n /\ (k + 1) + 1 # 1 /\ ((k + 1) + 1) - 1 = k + 1 /\ k + 1 <= n
      BY <3>2
    <3>4. flatten[(k + 1) + 1] = flatten[k + 1] \o seqs[(k + 1) + 1]
      BY <2>10, <3>3
    <3>5. f[(k + 1) + 1] = f[k + 1] \o seqs[(k + 1) + 1]
      BY <2>7, <3>3
    <3>6. QED
      BY <3>3, <3>4, <3>5
  <2>14. Nat \subseteq Same0
    <3> HIDE DEF Same0
    <3>1. QED
      BY <2>12, <2>13, SetInduction
  <2>15. flatten[n] = f[n]
    <3>1. n - 1 \in Nat /\ (n - 1) + 1 = n
      BY <2>0
    <3>2. QED
      BY <2>14, <3>1
  <2> DEFINE at == [k \in 1..n |-> Len(f[k - 1])]
             Good == {k \in Nat : k <= n => Laid(f[k], seqs, k, at)}
  <2>16. 0 \in Good
    <3>1. f[0] = x
      BY <2>5 DEF Follows
    <3>2. \A i \in 1..0 : FALSE
      OBVIOUS
    <3>3. QED
      BY <2>4, <3>1, <3>2 DEF Laid
  <2>17. \A k \in Good \cap Nat : k + 1 \in Good
    <3>1. TAKE k \in Good \cap Nat
    <3>2. SUFFICES ASSUME k + 1 <= n PROVE Laid(f[k + 1], seqs, k + 1, at)
      OBVIOUS
    <3>3. k + 1 \in 1..n /\ (k + 1) - 1 = k /\ k <= n /\ k \in 0..n /\ 1..k + 1 \subseteq 1..n
      BY <3>2
    <3>4. Laid(f[k], seqs, k, at) /\ at[k + 1] = Len(f[k]) /\ f[k] \in W
      BY <2>6, <3>3
    <3>5. f[k + 1] = f[k] \o seqs[k + 1]
      BY <2>7, <3>3
    <3>6. \A i \in 1..k + 1 : seqs[i] \in Seq(S)
      BY <2>0, <3>3 DEF W
    <3>7. f[k] \in Seq(S)
      BY <3>4 DEF W
    <3> HIDE DEF at
    <3>8. Laid(f[k] \o seqs[k + 1], seqs, k + 1, at)
      BY <3>4, <3>6, <3>7, LaidMore
    <3>9. QED
      BY <3>5, <3>8
  <2>18. Nat \subseteq Good
    <3> HIDE DEF Good
    <3>1. QED
      BY <2>16, <2>17, SetInduction
  <2>19. Laid(f[n], seqs, n, at)
    BY <2>18
  <2> HIDE DEF at
  <2>20. QED
    BY <2>1, <2>15, <2>19
<1>3. QED
  BY <1>1, <1>2

\* ---------------------------------------------------------------------
\* Plans that fit a listing.

\* An item is registered below a folder that is there by then, under a name
\* nothing there has.
RegisterFits(items, plan, i) ==
  LET e == plan[i].entry IN
  /\ plan[i].uuid \notin DOMAIN items
  /\ \/ e.parent \in Homes(items)
     \/ \E j \in 1..i - 1 : /\ plan[j].act = "register" /\ plan[j].uuid = e.parent
                            /\ plan[j].entry.kind = "folder"
  /\ \A v \in DOMAIN items : items[v].parent # e.parent \/ items[v].name # e.name
  /\ \A j \in 1..i - 1 : plan[j].act = "register" =>
       /\ plan[j].uuid # plan[i].uuid
       /\ plan[j].entry.parent # e.parent \/ plan[j].entry.name # e.name

RegistersFit(items, plan) ==
  \A i \in 1..Len(plan) : plan[i].act = "register" => RegisterFits(items, plan, i)

Written(items, c) == Merged(items[c.uuid], c.entry)

\* Items move to folders that do not move themselves, nor anything above them,
\* under names nothing there has.
WriteFits(items, D, plan, i) ==
  LET u == plan[i].uuid
      e == Written(items, plan[i])
  IN /\ u \in DOMAIN items /\ u \notin D
     /\ e.parent \in D \cup {Root, Trash}
     /\ e.parent \in D => IsFolder(items, e.parent)
     /\ e.parent # Trash =>
          \A v \in DOMAIN items \ {u} : items[v].parent # e.parent \/ items[v].name # e.name
     /\ \A j \in 1..i - 1 : plan[j].act = "write" =>
          /\ plan[j].uuid # u
          /\ Written(items, plan[j]).parent # e.parent \/ Written(items, plan[j]).name # e.name

WritesFitIn(items, D, plan) ==
  \A i \in 1..Len(plan) : plan[i].act = "write" => WriteFits(items, D, plan, i)

WritesFit(items, plan) == \E D : UpClosed(items, D) /\ WritesFitIn(items, D, plan)

\* An item is removed after everything in it.
DropsFit(items, plan) ==
  \A i \in 1..Len(plan) : Hides(plan[i], plan[i].uuid) =>
    \A c \in Children(items, plan[i].uuid) : \E j \in 1..i - 1 : Hides(plan[j], c)

NoMix(plan) ==
  \A i, j \in 1..Len(plan) : ~(plan[i].act = "register" /\ plan[j].act = "write")

PlanFits(items, plan) ==
  RegistersFit(items, plan) /\ WritesFit(items, plan) /\ DropsFit(items, plan) /\ NoMix(plan)

\* A plan and what is left of it after its first command.
Rest(plan, rest) ==
  /\ Len(plan) \in Nat /\ Len(plan) > 0 /\ Len(rest) = Len(plan) - 1
  /\ \A i \in 1..Len(rest) : i + 1 \in 1..Len(plan) /\ rest[i] = plan[i + 1]

LEMMA RestBack ==
  ASSUME NEW plan, NEW rest, Rest(plan, rest), NEW i \in 1..Len(rest), NEW j \in 1..(i + 1) - 1
  PROVE  j = 1 \/ (j - 1 \in 1..i - 1 /\ rest[j - 1] = plan[j])
<1>1. Len(rest) \in Nat /\ i \in Nat
  BY DEF Rest
<1>2. CASE j # 1
  <2>1. j - 1 \in 1..i - 1 /\ (j - 1) + 1 = j /\ j - 1 \in 1..Len(rest)
    BY <1>1, <1>2
  <2>2. QED
    BY <2>1 DEF Rest
<1>3. QED
  BY <1>2

LEMMA RestForth ==
  ASSUME NEW plan, NEW rest, Rest(plan, rest), NEW i \in 1..Len(rest), NEW j \in 1..i - 1
  PROVE  j + 1 \in 1..(i + 1) - 1 /\ rest[j] = plan[j + 1] /\ j + 1 # 1
<1>1. Len(rest) \in Nat
  BY DEF Rest
<1>2. j \in 1..Len(rest) /\ j + 1 \in 1..(i + 1) - 1 /\ j + 1 # 1
  BY <1>1
<1>3. QED
  BY <1>2 DEF Rest

LEMMA NoWritesFit ==
  ASSUME NEW items, NEW plan, \A i \in 1..Len(plan) : plan[i].act # "write"
  PROVE  WritesFit(items, plan) /\ NoMix(plan)
<1>1. UpClosed(items, {}) /\ WritesFitIn(items, {}, plan)
  BY DEF UpClosed, WritesFitIn
<1>2. QED
  BY <1>1 DEF WritesFit, NoMix

\* A command that leaves the listing alone leaves a plan that fits.
LEMMA RestFits ==
  ASSUME NEW items, NEW plan, NEW rest, Rest(plan, rest), PlanFits(items, plan),
         plan[1].act \notin {"register", "write"}, ~Hides(plan[1], plan[1].uuid)
  PROVE  PlanFits(items, rest)
<1>1. ASSUME NEW i \in 1..Len(rest), rest[i].act = "register"
      PROVE  RegisterFits(items, rest, i)
  <2> DEFINE k == i + 1
             e == plan[k].entry
  <2>1. k \in 1..Len(plan) /\ rest[i] = plan[k]
    BY DEF Rest
  <2>2. RegisterFits(items, plan, k)
    BY <1>1, <2>1 DEF PlanFits, RegistersFit
  <2>3. e.parent \in Homes(items)
        \/ \E j \in 1..i - 1 : /\ rest[j].act = "register" /\ rest[j].uuid = e.parent
                               /\ rest[j].entry.kind = "folder"
    <3>1. CASE \E j \in 1..k - 1 : /\ plan[j].act = "register" /\ plan[j].uuid = e.parent
                                   /\ plan[j].entry.kind = "folder"
      <4>1. PICK j \in 1..k - 1 : /\ plan[j].act = "register" /\ plan[j].uuid = e.parent
                                  /\ plan[j].entry.kind = "folder"
        BY <3>1
      <4>2. j - 1 \in 1..i - 1 /\ rest[j - 1] = plan[j]
        BY <4>1, RestBack
      <4>3. QED
        BY <4>1, <4>2
    <3>2. QED
      BY <2>2, <3>1 DEF RegisterFits
  <2>4. \A j \in 1..i - 1 : rest[j].act = "register" =>
          /\ rest[j].uuid # rest[i].uuid
          /\ rest[j].entry.parent # e.parent \/ rest[j].entry.name # e.name
    <3>1. TAKE j \in 1..i - 1
    <3>2. j + 1 \in 1..k - 1 /\ rest[j] = plan[j + 1]
      BY RestForth
    <3>3. QED
      BY <2>1, <2>2, <3>2 DEF RegisterFits
  <2> HIDE DEF k
  <2>5. QED
    BY <2>1, <2>2, <2>3, <2>4 DEF RegisterFits
<1>2. WritesFit(items, rest)
  <2>1. PICK D : UpClosed(items, D) /\ WritesFitIn(items, D, plan)
    BY DEF PlanFits, WritesFit
  <2>2. ASSUME NEW i \in 1..Len(rest), rest[i].act = "write" PROVE WriteFits(items, D, rest, i)
    <3> DEFINE k == i + 1
    <3>1. k \in 1..Len(plan) /\ rest[i] = plan[k]
      BY DEF Rest
    <3>2. WriteFits(items, D, plan, k)
      BY <2>1, <2>2, <3>1 DEF WritesFitIn
    <3>3. \A j \in 1..i - 1 : j + 1 \in 1..k - 1 /\ rest[j] = plan[j + 1]
      BY RestForth
    <3> HIDE DEF k
    <3>4. QED
      BY <3>1, <3>2, <3>3 DEF WriteFits
  <2>3. QED
    BY <2>1, <2>2 DEF WritesFit, WritesFitIn
<1>3. DropsFit(items, rest)
  <2>1. SUFFICES ASSUME NEW i \in 1..Len(rest), Hides(rest[i], rest[i].uuid),
                        NEW c \in Children(items, rest[i].uuid)
                 PROVE  \E j \in 1..i - 1 : Hides(rest[j], c)
    BY DEF DropsFit
  <2>2. i + 1 \in 1..Len(plan) /\ rest[i] = plan[i + 1]
    BY DEF Rest
  <2>3. PICK j \in 1..(i + 1) - 1 : Hides(plan[j], c)
    BY <2>1, <2>2 DEF PlanFits, DropsFit
  <2>4. j # 1
    BY <2>3 DEF Hides
  <2>5. QED
    BY <2>3, <2>4, RestBack
<1>4. NoMix(rest)
  BY DEF PlanFits, NoMix, Rest
<1>5. QED
  BY <1>1, <1>2, <1>3, <1>4 DEF PlanFits, RegistersFit

\* ---------------------------------------------------------------------
\* A new item.

Adds(items, u, e, more) ==
  /\ DOMAIN more = DOMAIN items \cup {u} /\ more[u] = e
  /\ \A v \in DOMAIN items : more[v] = items[v]

LEMMA AddedIsTree ==
  ASSUME NEW items, IsListing(items), TreeOK(items), NEW u \in Uuids, u \notin DOMAIN items,
         NEW e, e.parent \in Homes(items),
         \A v \in DOMAIN items : items[v].parent # e.parent \/ items[v].name # e.name,
         NEW more, Adds(items, u, e, more)
  PROVE  TreeOK(more)
<1>1. u # Root /\ u # Trash /\ u # e.parent
  BY UuidFacts DEF Homes
<1>2. \A v \in DOMAIN items : items[v].parent # u
  BY <1>1 DEF TreeOK, ParentsOK
<1>3. ParentsOK(more)
  <2>1. SUFFICES ASSUME NEW v \in DOMAIN more
                 PROVE  /\ more[v].parent \in DOMAIN more \cup {Root, Trash}
                        /\ more[v].parent \in DOMAIN more => IsFolder(more, more[v].parent)
    BY DEF ParentsOK
  <2>2. CASE v = u
    <3>1. more[v] = e /\ e.parent # u
      BY <1>1, <2>2 DEF Adds
    <3>2. e.parent \in DOMAIN items => IsFolder(items, e.parent)
      BY UuidFacts DEF Homes, IsListing
    <3>3. e.parent \in DOMAIN items \cup {Root}
      BY DEF Homes
    <3>4. QED
      BY <3>1, <3>2, <3>3 DEF Adds, IsFolder
  <2>3. CASE v # u
    <3>1. v \in DOMAIN items /\ more[v] = items[v]
      BY <2>1, <2>3 DEF Adds
    <3>2. QED
      BY <1>2, <3>1 DEF Adds, IsFolder, TreeOK, ParentsOK
  <2>4. QED
    BY <2>2, <2>3
<1>4. NamesOK(more)
  BY DEF NamesOK, TreeOK, Adds
<1>5. NoLoop(more)
  <2>1. SUFFICES ASSUME NEW C \in SUBSET DOMAIN more, C # {}
                 PROVE  \E w \in C : more[w].parent \notin C
    BY DEF NoLoop
  <2> DEFINE B == C \ {u}
  <2>2. B \subseteq DOMAIN items
    BY DEF Adds
  <2>3. CASE B = {}
    <3>1. C = {u} /\ more[u].parent # u
      BY <1>1, <2>1, <2>3 DEF Adds
    <3>2. QED
      BY <3>1
  <2>4. CASE B # {}
    <3>1. PICK w \in B : items[w].parent \notin B
      BY <2>2, <2>4 DEF TreeOK, NoLoop
    <3>2. w \in C /\ more[w] = items[w] /\ items[w].parent # u
      BY <1>2, <2>2, <3>1 DEF Adds
    <3>3. QED
      BY <3>1, <3>2
  <2>5. QED
    BY <2>3, <2>4
<1>6. QED
  BY <1>3, <1>4, <1>5 DEF TreeOK

LEMMA AddedFits ==
  ASSUME NEW items, IsListing(items), NEW plan, NEW rest, Rest(plan, rest), PlanFits(items, plan),
         plan[1].act = "register", \A i \in 1..Len(plan) : plan[i].act # "drop",
         plan[1].uuid \in Uuids,
         NEW more, Adds(items, plan[1].uuid, plan[1].entry, more)
  PROVE  PlanFits(more, rest)
<1> DEFINE u == plan[1].uuid
<1>0. 1 \in 1..Len(plan)
  BY DEF Rest
<1>1. ASSUME NEW i \in 1..Len(rest), rest[i].act = "register"
      PROVE  RegisterFits(more, rest, i)
  <2> DEFINE k == i + 1
             e == plan[k].entry
  <2>1. k \in 1..Len(plan) /\ rest[i] = plan[k] /\ 1 \in 1..k - 1
    BY DEF Rest
  <2>2. RegisterFits(items, plan, k)
    BY <1>1, <2>1 DEF PlanFits, RegistersFit
  <2>3. /\ plan[k].uuid # u
        /\ plan[1].entry.parent # e.parent \/ plan[1].entry.name # e.name
    BY <2>1, <2>2 DEF RegisterFits
  <2>4. rest[i].uuid \notin DOMAIN more
    BY <2>1, <2>2, <2>3 DEF RegisterFits, Adds
  <2>5. e.parent \in Homes(more)
        \/ \E j \in 1..i - 1 : /\ rest[j].act = "register" /\ rest[j].uuid = e.parent
                               /\ rest[j].entry.kind = "folder"
    <3>1. CASE e.parent \in Homes(items)
      BY <3>1 DEF Homes, Adds, IsFolder
    <3>2. CASE \E j \in 1..k - 1 : /\ plan[j].act = "register" /\ plan[j].uuid = e.parent
                                   /\ plan[j].entry.kind = "folder"
      <4>1. PICK j \in 1..k - 1 : /\ plan[j].act = "register" /\ plan[j].uuid = e.parent
                                  /\ plan[j].entry.kind = "folder"
        BY <3>2
      <4>2. CASE j = 1
        <5>1. e.parent = u /\ more[u].kind = "folder"
          BY <4>1, <4>2 DEF Adds
        <5>2. QED
          BY <5>1 DEF Homes, Adds, IsFolder
      <4>3. CASE j # 1
        <5>1. j - 1 \in 1..i - 1 /\ rest[j - 1] = plan[j]
          BY <4>3, RestBack
        <5>2. QED
          BY <4>1, <5>1
      <4>4. QED
        BY <4>2, <4>3
    <3>3. QED
      BY <2>2, <3>1, <3>2 DEF RegisterFits
  <2>6. \A v \in DOMAIN more : more[v].parent # e.parent \/ more[v].name # e.name
    BY <2>2, <2>3 DEF RegisterFits, Adds
  <2>7. \A j \in 1..i - 1 : rest[j].act = "register" =>
          /\ rest[j].uuid # rest[i].uuid
          /\ rest[j].entry.parent # e.parent \/ rest[j].entry.name # e.name
    <3>1. TAKE j \in 1..i - 1
    <3>2. j + 1 \in 1..k - 1 /\ rest[j] = plan[j + 1]
      BY RestForth
    <3>3. QED
      BY <2>1, <2>2, <3>2 DEF RegisterFits
  <2> HIDE DEF k
  <2>8. QED
    BY <2>1, <2>4, <2>5, <2>6, <2>7 DEF RegisterFits
<1>2. \A i \in 1..Len(rest) : rest[i].act \notin {"write", "drop"}
  BY <1>0 DEF Rest, PlanFits, NoMix
<1>3. WritesFit(more, rest) /\ NoMix(rest)
  BY <1>2, NoWritesFit
<1>4. DropsFit(more, rest)
  BY <1>2 DEF DropsFit, Hides
<1>5. QED
  BY <1>1, <1>3, <1>4 DEF PlanFits, RegistersFit

\* ---------------------------------------------------------------------
\* A change of an item's name or parent.

Sets(items, u, e, more) ==
  /\ u \in DOMAIN items /\ DOMAIN more = DOMAIN items
  /\ more[u] = e /\ e.kind = items[u].kind
  /\ \A v \in DOMAIN items \ {u} : more[v] = items[v]

LEMMA SetIsTree ==
  ASSUME NEW items, IsListing(items), TreeOK(items), NEW D, UpClosed(items, D),
         NEW u, u \notin D, NEW e, e.parent \in D \cup {Root, Trash},
         e.parent \in D => IsFolder(items, e.parent),
         e.parent # Trash =>
           \A v \in DOMAIN items \ {u} : items[v].parent # e.parent \/ items[v].name # e.name,
         NEW more, Sets(items, u, e, more)
  PROVE  TreeOK(more)
<1>0. Root \notin DOMAIN items /\ Trash \notin DOMAIN items /\ D \subseteq DOMAIN items
  BY UuidFacts DEF IsListing, UpClosed
<1>1. \A v \in DOMAIN items : IsFolder(items, v) => IsFolder(more, v)
  BY DEF IsFolder, Sets
<1>2. ParentsOK(more)
  <2>1. SUFFICES ASSUME NEW v \in DOMAIN items
                 PROVE  /\ more[v].parent \in DOMAIN items \cup {Root, Trash}
                        /\ more[v].parent \in DOMAIN items => IsFolder(more, more[v].parent)
    BY DEF ParentsOK, Sets
  <2>2. CASE v = u
    <3>1. more[v] = e
      BY <2>2 DEF Sets
    <3>2. QED
      BY <1>0, <1>1, <3>1
  <2>3. CASE v # u
    <3>1. more[v] = items[v]
      BY <2>3 DEF Sets
    <3>2. QED
      BY <1>1, <3>1 DEF TreeOK, ParentsOK
  <2>4. QED
    BY <2>2, <2>3
<1>3. NamesOK(more)
  BY DEF NamesOK, TreeOK, Sets
<1>4. NoLoop(more)
  <2>1. SUFFICES ASSUME NEW C \in SUBSET DOMAIN items, C # {}, \A w \in C : more[w].parent \in C
                 PROVE  FALSE
    BY DEF NoLoop, Sets
  <2>2. CASE u \in C
    <3> DEFINE B == C \cap D
    <3>1. e.parent \in B
      BY <1>0, <2>1, <2>2 DEF Sets
    <3>2. \A w \in B : items[w].parent \in B
      <4>1. TAKE w \in B
      <4>2. w # u /\ w \in DOMAIN items /\ more[w] = items[w]
        BY DEF Sets
      <4>3. items[w].parent \in C
        BY <2>1, <4>2
      <4>4. items[w].parent \in D
        BY <4>3 DEF UpClosed
      <4>5. QED
        BY <4>3, <4>4
    <3>3. B \subseteq DOMAIN items
      OBVIOUS
    <3> HIDE DEF B
    <3>4. QED
      BY <3>1, <3>2, <3>3 DEF TreeOK, NoLoop
  <2>3. CASE u \notin C
    <3>1. \A w \in C : items[w].parent \in C
      BY <2>1, <2>3 DEF Sets
    <3>2. QED
      BY <2>1, <3>1 DEF TreeOK, NoLoop
  <2>4. QED
    BY <2>2, <2>3
<1>5. QED
  BY <1>2, <1>3, <1>4 DEF TreeOK

LEMMA SetFits ==
  ASSUME NEW items, IsListing(items), NEW plan, NEW rest, Rest(plan, rest),
         NEW D, UpClosed(items, D), WritesFitIn(items, D, plan), NoMix(plan),
         plan[1].act = "write", \A i \in 1..Len(plan) : plan[i].act # "drop",
         NEW more, Sets(items, plan[1].uuid, Written(items, plan[1]), more)
  PROVE  PlanFits(more, rest)
<1> DEFINE u == plan[1].uuid
<1>0. 1 \in 1..Len(plan)
  BY DEF Rest
<1>1. u \notin D
  BY <1>0 DEF WritesFitIn, WriteFits
<1>2. UpClosed(more, D)
  BY <1>1 DEF UpClosed, Sets
<1>3. ASSUME NEW i \in 1..Len(rest), rest[i].act = "write" PROVE WriteFits(more, D, rest, i)
  <2> DEFINE k == i + 1
             w == plan[k].uuid
             e == Written(items, plan[k])
  <2>1. k \in 1..Len(plan) /\ rest[i] = plan[k] /\ 1 \in 1..k - 1
    BY DEF Rest
  <2>2. WriteFits(items, D, plan, k)
    BY <1>3, <2>1 DEF WritesFitIn
  <2>3. /\ w # u /\ w \in DOMAIN items /\ w \notin D
        /\ Written(items, plan[1]).parent # e.parent \/ Written(items, plan[1]).name # e.name
    BY <2>1, <2>2 DEF WriteFits
  <2>4. Written(more, plan[k]) = e
    BY <2>3 DEF Written, Sets
  <2>5. e.parent \in D => IsFolder(more, e.parent)
    BY <1>2, <2>2 DEF WriteFits, IsFolder, Sets, UpClosed
  <2>6. e.parent # Trash =>
          \A v \in DOMAIN more \ {w} : more[v].parent # e.parent \/ more[v].name # e.name
    BY <2>2, <2>3 DEF WriteFits, Sets
  <2>7. \A j \in 1..i - 1 : rest[j].act = "write" =>
          /\ rest[j].uuid # w
          /\ Written(more, rest[j]).parent # e.parent \/ Written(more, rest[j]).name # e.name
    <3>1. SUFFICES ASSUME NEW j \in 1..i - 1, rest[j].act = "write"
                   PROVE  /\ rest[j].uuid # w
                          /\ Written(more, rest[j]).parent # e.parent \/ Written(more, rest[j]).name # e.name
      OBVIOUS
    <3>2. j + 1 \in 1..k - 1 /\ rest[j] = plan[j + 1] /\ j + 1 # 1
      BY RestForth
    <3>3. /\ plan[j + 1].uuid # w
          /\ Written(items, plan[j + 1]).parent # e.parent \/ Written(items, plan[j + 1]).name # e.name
      BY <2>2, <3>1, <3>2 DEF WriteFits
    <3>4. j + 1 \in 1..Len(plan) /\ 1 \in 1..(j + 1) - 1
      <4>1. k \in Nat /\ Len(plan) \in Nat
        BY <2>1 DEF Rest
      <4>2. QED
        BY <2>1, <3>2, <4>1
    <3>5. plan[j + 1].uuid # u /\ plan[j + 1].uuid \in DOMAIN items
      BY <1>0, <3>1, <3>2, <3>4 DEF WritesFitIn, WriteFits
    <3>6. Written(more, plan[j + 1]) = Written(items, plan[j + 1])
      BY <3>5 DEF Written, Sets
    <3>7. QED
      BY <3>2, <3>3, <3>6
  <2>8. w \in DOMAIN more /\ e.parent \in D \cup {Root, Trash}
    BY <2>2, <2>3 DEF WriteFits, Sets
  <2> HIDE DEF k, e
  <2>9. QED
    BY <2>1, <2>3, <2>4, <2>5, <2>6, <2>7, <2>8 DEF WriteFits
<1>4. \A i \in 1..Len(rest) : rest[i].act \notin {"register", "drop"}
  BY <1>0 DEF Rest, NoMix
<1>5. RegistersFit(more, rest) /\ DropsFit(more, rest) /\ NoMix(rest)
  BY <1>4 DEF RegistersFit, DropsFit, NoMix, Hides
<1>6. QED
  BY <1>2, <1>3, <1>5 DEF PlanFits, WritesFit, WritesFitIn

\* ---------------------------------------------------------------------
\* The removal of an item.

Removes(items, u, less) ==
  /\ DOMAIN less = DOMAIN items \ {u}
  /\ \A v \in DOMAIN less : less[v] = items[v]

LEMMA RemovedIsTree ==
  ASSUME NEW items, TreeOK(items), NEW u, Children(items, u) = {},
         NEW less, Removes(items, u, less)
  PROVE  TreeOK(less)
<1>1. \A v \in DOMAIN items : items[v].parent # u
  BY DEF Children
<1>2. ParentsOK(less) /\ NamesOK(less)
  BY <1>1 DEF TreeOK, ParentsOK, NamesOK, IsFolder, Removes
<1>3. NoLoop(less)
  <2>1. SUFFICES ASSUME NEW C \in SUBSET DOMAIN less, C # {}
                 PROVE  \E w \in C : less[w].parent \notin C
    BY DEF NoLoop
  <2>2. C \subseteq DOMAIN items /\ \A w \in C : less[w] = items[w]
    BY DEF Removes
  <2>3. QED
    BY <2>1, <2>2 DEF TreeOK, NoLoop
<1>4. QED
  BY <1>2, <1>3 DEF TreeOK

LEMMA RemovedFits ==
  ASSUME NEW items, NEW plan, NEW rest, Rest(plan, rest), DropsFit(items, plan),
         Hides(plan[1], plan[1].uuid), \A i \in 1..Len(plan) : plan[i].act = "drop",
         NEW less, Removes(items, plan[1].uuid, less)
  PROVE  PlanFits(less, rest)
<1>1. \A i \in 1..Len(rest) : rest[i].act = "drop"
  BY DEF Rest
<1>2. RegistersFit(less, rest) /\ WritesFit(less, rest) /\ NoMix(rest)
  BY <1>1, NoWritesFit DEF RegistersFit
<1>3. DropsFit(less, rest)
  <2>1. SUFFICES ASSUME NEW i \in 1..Len(rest), Hides(rest[i], rest[i].uuid),
                        NEW c \in Children(less, rest[i].uuid)
                 PROVE  \E j \in 1..i - 1 : Hides(rest[j], c)
    BY DEF DropsFit
  <2>2. i + 1 \in 1..Len(plan) /\ rest[i] = plan[i + 1]
    BY DEF Rest
  <2>3. c \in Children(items, rest[i].uuid) /\ c # plan[1].uuid
    BY DEF Children, Removes
  <2>4. PICK j \in 1..(i + 1) - 1 : Hides(plan[j], c)
    BY <2>1, <2>2, <2>3 DEF DropsFit
  <2>5. j # 1
    BY <2>3, <2>4 DEF Hides
  <2>6. QED
    BY <2>4, <2>5, RestBack
<1>4. QED
  BY <1>2, <1>3 DEF PlanFits

\* ---------------------------------------------------------------------
\* The invariant of the tree, and how commands keep it.

\* What is to be written was read from the listing there is.
HeldIsNow == todo # <<>> /\ Head(todo).act = "write" => held = meta[Head(todo).uuid]

TreeInv ==
  calm /\ Sound(before) => TreeOK(Listing) /\ HeldIsNow /\ PlanFits(Listing, todo)

LEMMA ListingIs ==
  /\ DOMAIN Listing = {v \in Uuids : meta[v] # NoItem}
  /\ \A v \in DOMAIN Listing : Listing[v] = meta[v]
BY DEF Listing

\* What is left after one command.
LEMMA CommandRest ==
  ASSUME StoreInv, NEW act, Next1(act)
  PROVE  /\ Rest(todo, todo') /\ Head(todo) = todo[1] /\ todo[1].act = act /\ todo[1].uuid \in Uuids
         /\ (calm' = calm) /\ (before' = before)
         /\ act # "drop" => \A i \in 1..Len(todo) : todo[i].act # "drop"
         /\ act = "drop" => \A i \in 1..Len(todo) : todo[i].act = "drop"
         /\ todo' # <<>> /\ Head(todo').act = "write" =>
              act = "read" /\ Head(todo').uuid = todo[1].uuid
<1>1. /\ todo # <<>> /\ 1 \in 1..Len(todo) /\ Head(todo) = todo[1]
      /\ todo[1] \in Commands /\ todo[1].act = act /\ todo[1].uuid \in Uuids
      /\ todo' \in Seq(Commands) /\ Len(todo') = Len(todo) - 1
      /\ \A i \in 1..Len(todo') : i + 1 \in 1..Len(todo) /\ todo'[i] = todo[i + 1]
  BY CommandFacts
<1>2. todo \in Seq(Commands) /\ PlanOK(todo, request.do, fresh)
  BY DEF StoreInv
<1>3. Rest(todo, todo')
  BY <1>1, <1>2 DEF Rest
<1>4. calm' = calm /\ before' = before
  BY DEF Next1
<1>5. /\ act # "drop" => \A i \in 1..Len(todo) : todo[i].act # "drop"
      /\ act = "drop" => \A i \in 1..Len(todo) : todo[i].act = "drop"
  BY <1>1, <1>2 DEF PlanOK
<1>6. ASSUME todo' # <<>>, Head(todo').act = "write"
      PROVE  act = "read" /\ Head(todo').uuid = todo[1].uuid
  <2>1. 1 \in 1..Len(todo') /\ Head(todo') = todo'[1]
    BY <1>1, <1>6
  <2>2. 1 + 1 \in 1..Len(todo) /\ 1 + 1 # 1 /\ (1 + 1) - 1 = 1 /\ Head(todo') = todo[1 + 1]
    BY <1>1, <2>1
  <2>3. Reads(todo[1], todo[1 + 1].uuid)
    BY <1>2, <1>6, <2>2 DEF PlanOK
  <2>4. QED
    BY <1>1, <2>2, <2>3 DEF Reads
<1>7. QED
  BY <1>1, <1>3, <1>4, <1>5, <1>6

\* Commands on the other files leave the tree alone.
LEMMA FilesKeepTree ==
  ASSUME StoreInv, TreeInv, NEW act, Next1(act), act \notin {"register", "write"},
         ~Hides(todo[1], todo[1].uuid), meta' = meta,
         act = "read" => held' = meta[todo[1].uuid]
  PROVE  TreeInv'
<1>1. SUFFICES ASSUME calm, Sound(before)
               PROVE  TreeOK(Listing)' /\ HeldIsNow' /\ PlanFits(Listing, todo)'
  BY CommandRest DEF TreeInv
<1>2. TreeOK(Listing) /\ PlanFits(Listing, todo)
  BY <1>1 DEF TreeInv
<1>3. Listing' = Listing
  BY DEF Listing
<1>4. PlanFits(Listing, todo')
  BY <1>2, CommandRest, RestFits
<1>5. HeldIsNow'
  BY CommandRest DEF HeldIsNow
<1>6. QED
  BY <1>2, <1>3, <1>4, <1>5

LEMMA RegisterKeepsTree ==
  ASSUME StoreAssumption, StoreInv, TreeInv, RegisterItem
  PROVE  TreeInv'
<1> DEFINE c == todo[1]
           items == Listing
           more == Listing'
<1>0. Next1("register")
  BY DEF RegisterItem
<1>1. SUFFICES ASSUME calm, Sound(before)
               PROVE  TreeOK(more) /\ HeldIsNow' /\ PlanFits(more, todo')
  BY <1>0, CommandRest DEF TreeInv
<1>2. TreeOK(items) /\ PlanFits(items, todo) /\ IsListing(items)
  BY <1>1, ListingFacts DEF TreeInv, StoreInv
<1>3. /\ Rest(todo, todo') /\ c.act = "register" /\ c.uuid \in Uuids
      /\ \A i \in 1..Len(todo) : todo[i].act # "drop"
      /\ HeldIsNow'
  BY <1>0, CommandRest DEF HeldIsNow
<1>4. meta' = [meta EXCEPT ![c.uuid] = c.entry]
  BY <1>0, CommandRest DEF RegisterItem
<1>5. c.entry \in Entry /\ c.entry # NoItem
  <2>1. 1 \in 1..Len(todo)
    BY <1>3 DEF Rest
  <2>2. QED
    BY <1>3, <2>1 DEF StoreInv, PlanOK, Sane, StoreAssumption
<1>6. RegisterFits(items, todo, 1)
  <2>1. 1 \in 1..Len(todo)
    BY <1>3 DEF Rest
  <2>2. QED
    BY <1>2, <1>3, <2>1 DEF PlanFits, RegistersFit
<1>7. meta \in [Uuids -> Entry \cup {NoItem}]
  BY DEF StoreInv, TypeOK
<1>8. Adds(items, c.uuid, c.entry, more)
  <2>1. DOMAIN more = {v \in Uuids : meta'[v] # NoItem} /\ \A v \in DOMAIN more : more[v] = meta'[v]
    BY DEF Listing
  <2> HIDE DEF more, items, c
  <2>2. meta'[c.uuid] = c.entry /\ \A v \in Uuids : v # c.uuid => meta'[v] = meta[v]
    BY <1>3, <1>4, <1>7
  <2>3. DOMAIN more = DOMAIN items \cup {c.uuid} /\ \A v \in DOMAIN items : items[v] = meta[v]
    BY <1>3, <1>5, <2>1, <2>2, ListingIs DEF items
  <2>4. c.uuid \notin DOMAIN items
    BY <1>6 DEF RegisterFits, c
  <2>5. \A v \in DOMAIN items : v \in Uuids /\ v # c.uuid
    BY <2>4, ListingIs DEF items
  <2>6. QED
    BY <2>1, <2>2, <2>3, <2>5 DEF Adds
<1>9. TreeOK(more)
  <2>1. \A j \in 1..1 - 1 : FALSE
    OBVIOUS
  <2>2. c.uuid \notin DOMAIN items /\ c.entry.parent \in Homes(items)
        /\ \A v \in DOMAIN items : items[v].parent # c.entry.parent \/ items[v].name # c.entry.name
    BY <1>6, <2>1 DEF RegisterFits
  <2> HIDE DEF more, items, c
  <2>3. QED
    BY <1>2, <1>3, <1>8, <2>2, AddedIsTree
<1>10. PlanFits(more, todo')
  <2> HIDE DEF more, items
  <2>1. QED
    BY <1>2, <1>3, <1>8, AddedFits
<1>11. QED
  BY <1>3, <1>9, <1>10

LEMMA WriteKeepsTree ==
  ASSUME StoreAssumption, StoreInv, TreeInv, WriteMetadata
  PROVE  TreeInv'
<1> DEFINE c == todo[1]
           items == Listing
           more == Listing'
           e == Written(items, c)
<1>0. Next1("write")
  BY DEF WriteMetadata
<1>1. SUFFICES ASSUME calm, Sound(before)
               PROVE  TreeOK(more) /\ HeldIsNow' /\ PlanFits(more, todo')
  BY <1>0, CommandRest DEF TreeInv
<1>2. TreeOK(items) /\ PlanFits(items, todo) /\ IsListing(items) /\ HeldIsNow
  BY <1>1, ListingFacts DEF TreeInv, StoreInv
<1>3. /\ Rest(todo, todo') /\ c.act = "write" /\ c.uuid \in Uuids /\ Head(todo) = c
      /\ \A i \in 1..Len(todo) : todo[i].act # "drop"
      /\ HeldIsNow'
  BY <1>0, CommandRest DEF HeldIsNow
<1>4. 1 \in 1..Len(todo) /\ todo # <<>>
  BY <1>3, <1>0, CommandFacts DEF Rest
<1>5. held = meta[c.uuid]
  BY <1>2, <1>3, <1>4 DEF HeldIsNow
<1>6. /\ meta' = [meta EXCEPT ![c.uuid] = Merged(held, c.entry)]
      /\ Merged(held, c.entry) \in Entry /\ Merged(held, c.entry).kind = held.kind
  BY WriteFacts
<1>7. PICK D : UpClosed(items, D) /\ WritesFitIn(items, D, todo)
  BY <1>2 DEF PlanFits, WritesFit
<1>8. WriteFits(items, D, todo, 1)
  BY <1>3, <1>4, <1>7 DEF WritesFitIn
<1>9. c.uuid \in DOMAIN items /\ items[c.uuid] = meta[c.uuid] /\ e = Merged(held, c.entry)
  BY <1>5, <1>8, ListingIs DEF WriteFits, Written
<1>10. meta \in [Uuids -> Entry \cup {NoItem}]
  BY DEF StoreInv, TypeOK
<1>11. Sets(items, c.uuid, e, more)
  <2>1. DOMAIN more = {v \in Uuids : meta'[v] # NoItem} /\ \A v \in DOMAIN more : more[v] = meta'[v]
    BY DEF Listing
  <2>2. e \in Entry /\ e # NoItem /\ e.kind = items[c.uuid].kind /\ meta' = [meta EXCEPT ![c.uuid] = e]
    BY <1>5, <1>6, <1>9 DEF StoreAssumption
  <2> HIDE DEF more, items, c, e
  <2>3. meta'[c.uuid] = e /\ \A v \in Uuids : v # c.uuid => meta'[v] = meta[v]
    BY <1>3, <1>10, <2>2
  <2>4. DOMAIN more = DOMAIN items /\ \A v \in DOMAIN items : v \in Uuids /\ items[v] = meta[v]
    BY <1>9, <2>1, <2>2, <2>3, ListingIs DEF items
  <2>5. QED
    BY <1>9, <2>1, <2>2, <2>3, <2>4 DEF Sets
<1>12. TreeOK(more)
  <2>1. /\ c.uuid \notin D /\ e.parent \in D \cup {Root, Trash}
        /\ e.parent \in D => IsFolder(items, e.parent)
        /\ e.parent # Trash =>
             \A v \in DOMAIN items \ {c.uuid} : items[v].parent # e.parent \/ items[v].name # e.name
    BY <1>8 DEF WriteFits
  <2> HIDE DEF more, items, c, e
  <2>2. QED
    BY <1>2, <1>7, <1>11, <2>1, SetIsTree
<1>13. PlanFits(more, todo')
  <2>1. NoMix(todo)
    BY <1>2 DEF PlanFits
  <2>2. Sets(items, todo[1].uuid, Written(items, todo[1]), more) /\ todo[1].act = "write"
    BY <1>3, <1>11
  <2> HIDE DEF more, items, c, e
  <2>3. QED
    BY <1>2, <1>3, <1>7, <2>1, <2>2, SetFits
<1>14. QED
  BY <1>3, <1>12, <1>13

LEMMA DropKeepsTree ==
  ASSUME StoreAssumption, StoreInv, TreeInv, DropPart
  PROVE  TreeInv'
<1> DEFINE c == todo[1]
           items == Listing
           less == Listing'
<1>0. Next1("drop")
  BY DEF DropPart
<1>1. Head(todo) = c /\ c.act = "drop"
  BY <1>0, CommandRest
<1>2. CASE c.part # "metadata"
  <2>1. meta' = meta /\ ~Hides(c, c.uuid)
    BY <1>1, <1>2 DEF DropPart, Hides
  <2>2. QED
    BY <1>0, <2>1, FilesKeepTree
<1>3. CASE c.part = "metadata"
  <2>1. SUFFICES ASSUME calm, Sound(before)
                 PROVE  TreeOK(less) /\ HeldIsNow' /\ PlanFits(less, todo')
    BY <1>0, CommandRest DEF TreeInv
  <2>2. TreeOK(items) /\ PlanFits(items, todo)
    BY <2>1 DEF TreeInv
  <2>3. /\ Rest(todo, todo') /\ c.uuid \in Uuids /\ 1 \in 1..Len(todo)
        /\ \A i \in 1..Len(todo) : todo[i].act = "drop"
        /\ HeldIsNow'
    BY <1>0, CommandRest DEF HeldIsNow, Rest
  <2>4. Hides(c, c.uuid)
    BY <1>1, <1>3 DEF Hides
  <2>5. meta' = [meta EXCEPT ![c.uuid] = NoItem]
    BY <1>1, <1>3 DEF DropPart
  <2>6. Removes(items, c.uuid, less)
    <3>1. DOMAIN less = {v \in Uuids : meta'[v] # NoItem} /\ \A v \in DOMAIN less : less[v] = meta'[v]
      BY DEF Listing
    <3>2. meta \in [Uuids -> Entry \cup {NoItem}]
      BY DEF StoreInv, TypeOK
    <3> HIDE DEF less, items, c
    <3>3. meta'[c.uuid] = NoItem /\ \A v \in Uuids : v # c.uuid => meta'[v] = meta[v]
      BY <2>3, <2>5, <3>2
    <3>4. QED
      BY <3>1, <3>3, ListingIs DEF Removes, items
  <2>7. DropsFit(items, todo)
    BY <2>2 DEF PlanFits
  <2>8. Children(items, c.uuid) = {}
    <3>1. \A j \in 1..1 - 1 : FALSE
      OBVIOUS
    <3>2. QED
      BY <2>3, <2>4, <2>7, <3>1 DEF DropsFit
  <2>9. TreeOK(less)
    <3> HIDE DEF less, items, c
    <3>1. QED
      BY <2>2, <2>6, <2>8, RemovedIsTree
  <2>10. PlanFits(less, todo')
    <3> HIDE DEF less, items
    <3>1. QED
      BY <2>3, <2>4, <2>6, <2>7, RemovedFits
  <2>11. QED
    BY <2>3, <2>9, <2>10
<1>4. QED
  BY <1>2, <1>3

LEMMA CommandKeepsTree ==
  ASSUME StoreAssumption, StoreInv, TreeInv,
         PutPart \/ CopyPart \/ RegisterItem \/ ReadMetadata \/ WriteMetadata \/ DropPart \/ FetchItem
  PROVE  TreeInv'
<1>1. ASSUME NEW act \in {"put", "copy", "fetch", "read"}, Next1(act), meta' = meta,
             act = "read" => held' = meta[todo[1].uuid]
      PROVE  TreeInv'
  <2>1. todo[1].act = act
    BY <1>1, CommandRest
  <2>2. ~Hides(todo[1], todo[1].uuid)
    BY <2>1 DEF Hides
  <2>3. QED
    BY <1>1, <2>2, FilesKeepTree
<1>2. CASE PutPart
  BY <1>1, <1>2 DEF PutPart
<1>3. CASE CopyPart
  BY <1>1, <1>3 DEF CopyPart
<1>4. CASE FetchItem
  BY <1>1, <1>4 DEF FetchItem
<1>5. CASE ReadMetadata
  <2>1. Next1("read") /\ meta' = meta
    BY <1>5 DEF ReadMetadata
  <2>2. held' = meta[todo[1].uuid]
    BY <1>5, <2>1, CommandRest DEF ReadMetadata
  <2>3. QED
    BY <1>1, <2>1, <2>2
<1>6. QED
  BY <1>2, <1>3, <1>4, <1>5, RegisterKeepsTree, WriteKeepsTree, DropKeepsTree

LEMMA EmptyPlanFits ==
  ASSUME NEW items
  PROVE  PlanFits(items, <<>>)
<1> DEFINE plan == <<>>
<1>1. Len(plan) = 0
  OBVIOUS
<1> HIDE DEF plan
<1>2. \A i \in 1..Len(plan) : FALSE
  BY <1>1
<1>3. WritesFit(items, plan) /\ NoMix(plan)
  BY <1>2, NoWritesFit
<1>4. PlanFits(items, plan)
  BY <1>2, <1>3 DEF PlanFits, RegistersFit, DropsFit
<1>5. QED
  BY <1>4 DEF plan

LEMMA FailKeepsTree ==
  ASSUME StoreInv, TreeInv, Fail
  PROVE  TreeInv'
<1>1. todo' = <<>> /\ meta' = meta /\ calm' = calm /\ before' = before
  BY DEF Fail
<1>2. Listing' = Listing
  BY <1>1 DEF Listing
<1>3. PlanFits(Listing, <<>>)
  BY EmptyPlanFits
<1>4. QED
  BY <1>1, <1>2, <1>3 DEF TreeInv, HeldIsNow

LEMMA TabletKeepsTree ==
  ASSUME Tablet
  PROVE  TreeInv'
<1>1. calm' = FALSE
  BY DEF Tablet, TabletRenames, TabletMoves, TabletCreates, TabletPurges, TabletActs
<1>2. QED
  BY <1>1 DEF TreeInv

LEMMA InitIsTree ==
  ASSUME StoreAssumption, Init
  PROVE  TreeInv
<1>1. PICK items \in FirstTrees :
        /\ meta = [u \in Uuids |-> IF u \in DOMAIN items THEN items[u] ELSE NoItem]
        /\ before = items
  BY DEF Init
<1>2. PICK n \in 0..NumItems : items \in [1..n -> Entry]
  BY DEF StoreAssumption
<1>3. todo = <<>>
  BY DEF Init
<1>4. \A u \in 1..n : u \in Uuids /\ items[u] \in Entry /\ items[u] # NoItem
  BY <1>2, UuidFacts DEF StoreAssumption, Uuids
<1>5. Listing = items
  <2>1. items = [u \in 1..n |-> items[u]]
    BY <1>2
  <2>2. {v \in Uuids : meta[v] # NoItem} = 1..n
    BY <1>1, <1>2, <1>4
  <2>3. Listing = [u \in 1..n |-> meta[u]]
    BY <2>2 DEF Listing
  <2>4. \A u \in 1..n : meta[u] = items[u]
    BY <1>1, <1>2, <1>4
  <2>5. QED
    BY <2>1, <2>3, <2>4
<1>6. IsListing(items)
  BY <1>2, <1>4 DEF IsListing
<1>7. PlanFits(items, <<>>)
  BY EmptyPlanFits
<1>8. Sound(items) => TreeOK(items)
  BY <1>6, SoundIsTree
<1>9. QED
  BY <1>1, <1>3, <1>5, <1>7, <1>8 DEF TreeInv, HeldIsNow

\* ---------------------------------------------------------------------
\* How operations start.

LEMMA RefuseKeepsTree ==
  ASSUME StoreInv, NEW r, Refuse(r)
  PROVE  TreeInv'
<1>1. todo' = <<>> /\ before' = Listing /\ meta' = meta
  BY DEF Refuse, Begin
<1>2. Listing' = Listing
  BY <1>1 DEF Listing
<1>3. IsListing(Listing)
  BY ListingFacts DEF StoreInv
<1>4. Sound(Listing) => TreeOK(Listing)
  BY <1>3, SoundIsTree
<1>5. PlanFits(Listing, <<>>)
  BY EmptyPlanFits
<1>6. QED
  BY <1>1, <1>2, <1>4, <1>5 DEF TreeInv, HeldIsNow

LEMMA RunKeepsTree ==
  ASSUME StoreAssumption, StoreInv, StoreInv', NEW r, NEW commands, NEW new, Run(r, commands, new),
         TreeOK(Listing) => PlanFits(Listing, commands)
  PROVE  TreeInv'
<1>1. todo' = commands /\ before' = Listing /\ meta' = meta /\ held' = NoItem
  BY DEF Run, Begin
<1>2. Listing' = Listing
  BY <1>1 DEF Listing
<1>3. IsListing(Listing)
  BY ListingFacts DEF StoreInv
<1>4. Sound(Listing) => TreeOK(Listing)
  BY <1>3, SoundIsTree
<1>5. HeldIsNow'
  <2>1. held' \notin Entry
    BY <1>1 DEF StoreAssumption
  <2>2. QED
    BY <2>1 DEF HeldIsNow, StoreInv, HeldIsCurrent
<1>6. QED
  BY <1>1, <1>2, <1>4, <1>5 DEF TreeInv

\* Plans of one kind.
LEMMA AddingFits ==
  ASSUME NEW items, NEW plan, \A i \in 1..Len(plan) : plan[i].act \notin {"write", "drop"},
         RegistersFit(items, plan)
  PROVE  PlanFits(items, plan)
<1>1. WritesFit(items, plan) /\ NoMix(plan)
  BY NoWritesFit
<1>2. DropsFit(items, plan)
  BY DEF DropsFit, Hides
<1>3. QED
  BY <1>1, <1>2 DEF PlanFits

LEMMA ChangingFits ==
  ASSUME NEW items, NEW plan, \A i \in 1..Len(plan) : plan[i].act \notin {"register", "drop"},
         WritesFit(items, plan)
  PROVE  PlanFits(items, plan)
<1>1. DropsFit(items, plan)
  BY DEF DropsFit, Hides
<1>2. QED
  BY <1>1 DEF PlanFits, RegistersFit, NoMix

LEMMA RemovingFits ==
  ASSUME NEW items, NEW plan, \A i \in 1..Len(plan) : plan[i].act \in {"drop", "fetch"},
         DropsFit(items, plan)
  PROVE  PlanFits(items, plan)
<1>1. WritesFit(items, plan) /\ NoMix(plan)
  BY NoWritesFit
<1>2. QED
  BY <1>1 DEF PlanFits, RegistersFit

\* A name nothing has in a folder.
LEMMA FreeName ==
  ASSUME NEW items, NEW p, NEW name, NEW ignore, NoConflict(items, p, name, ignore)
  PROVE  \A v \in DOMAIN items \ {ignore} : items[v].parent # p \/ items[v].name # name
BY DEF NoConflict, Named, Children

LEMMA NewDocumentFits ==
  ASSUME NEW items, IsListing(items), NEW n \in Nat, NEW plan, Len(plan) = n + 1,
         \A i \in 1..n : plan[i].act \in {"put", "copy"},
         plan[n + 1].act = "register", plan[n + 1].uuid \notin DOMAIN items,
         NEW e, plan[n + 1].entry = e, e.parent \in Homes(items),
         NoConflict(items, e.parent, e.name, Stop)
  PROVE  PlanFits(items, plan)
<1>1. \A i \in 1..Len(plan) : i = n + 1 \/ i \in 1..n
  OBVIOUS
<1>2. \A i \in 1..Len(plan) : plan[i].act \notin {"write", "drop"}
  BY <1>1
<1>3. \A v \in DOMAIN items : items[v].parent # e.parent \/ items[v].name # e.name
  <2>1. Stop \notin DOMAIN items
    BY UuidFacts DEF IsListing
  <2>2. QED
    BY <2>1, FreeName
<1>4. ASSUME NEW i \in 1..Len(plan), plan[i].act = "register" PROVE RegisterFits(items, plan, i)
  <2>1. i = n + 1
    BY <1>1, <1>4
  <2>2. \A j \in 1..i - 1 : plan[j].act # "register"
    BY <2>1
  <2>3. plan[i].entry = e /\ plan[i].uuid \notin DOMAIN items
    BY <2>1
  <2>4. QED
    BY <1>3, <2>2, <2>3 DEF RegisterFits
<1>5. QED
  BY <1>2, <1>4, AddingFits DEF RegistersFit

LEMMA StoreDocumentKeepsTree ==
  ASSUME StoreAssumption, StoreInv, StoreInv', NEW r, NEW payload, payload.act \in {"put", "copy"},
         NEW e, e.parent \in Homes(Listing), NoConflict(Listing, e.parent, e.name, Stop),
         Run(r, StoreDocument(fresh, payload, e), 1)
  PROVE  TreeInv'
<1> DEFINE commands == StoreDocument(fresh, payload, e)
           b == Put(fresh, "content")
           c == Put(fresh, "dir")
           d == Put(fresh, "pagedata")
           g == Register(fresh, e)
<1>1. b.act = "put" /\ c.act = "put" /\ d.act = "put"
  BY DEF Put, Command
<1>2. g.act = "register" /\ g.uuid = fresh /\ g.entry = e
  BY DEF Register, Command
<1>3. commands = <<payload, b, c, d, g>>
  BY DEF StoreDocument
<1> HIDE DEF commands, b, c, d, g
<1>4. Len(commands) = 4 + 1 /\ commands[1] = payload /\ commands[2] = b /\ commands[3] = c
      /\ commands[4] = d /\ commands[4 + 1] = g
  BY <1>3
<1>5. \A i \in 1..4 : commands[i].act \in {"put", "copy"}
  <2>1. \A i \in 1..4 : i = 1 \/ i = 2 \/ i = 3 \/ i = 4
    OBVIOUS
  <2>2. QED
    BY <1>1, <1>4, <2>1
<1>6. IsListing(Listing) /\ fresh \notin DOMAIN Listing
  BY ListingFacts DEF StoreInv
<1>7. PlanFits(Listing, commands)
  <2>1. 4 \in Nat
    OBVIOUS
  <2>2. QED
    BY <1>2, <1>4, <1>5, <1>6, <2>1, NewDocumentFits
<1>8. Run(r, commands, 1)
  BY DEF commands
<1>9. QED
  BY <1>7, <1>8, RunKeepsTree

LEMMA RestoreBundleKeepsTree ==
  ASSUME StoreAssumption, StoreInv, StoreInv', NEW r,
         NEW files \in {<<"content", "dir">>, <<"dir", "content">>},
         NEW e, e.parent \in Homes(Listing), NoConflict(Listing, e.parent, e.name, Stop),
         Run(r, RestoreBundle(fresh, files, e), 1)
  PROVE  TreeInv'
<1> DEFINE commands == RestoreBundle(fresh, files, e)
           puts == [i \in DOMAIN files |-> Put(fresh, files[i])]
           g == Register(fresh, e)
           S == {puts[1], puts[2], g}
           last == <<g>>
<1>1. DOMAIN files = 1..2
  <2>1. CASE files = <<"content", "dir">>
    BY <2>1
  <2>2. CASE files = <<"dir", "content">>
    BY <2>2
  <2>3. QED
    BY <2>1, <2>2
<1>2. g.act = "register" /\ g.uuid = fresh /\ g.entry = e
  BY DEF Register, Command
<1>3. \A i \in 1..2 : puts[i].act = "put"
  BY <1>1 DEF Put, Command
<1>4. commands = puts \o last
  BY DEF RestoreBundle
<1>5. puts = [i \in 1..2 |-> puts[i]]
  BY <1>1
<1>6. last \in Seq(S) /\ Len(last) = 1 /\ last[1] = g
  OBVIOUS
<1> HIDE DEF commands, puts, g, last
<1>7. puts \in Seq(S) /\ Len(puts) = 2
  <2>1. \A i \in 1..2 : puts[i] \in S
    <3>1. \A i \in 1..2 : i = 1 \/ i = 2
      OBVIOUS
    <3>2. QED
      BY <3>1
  <2> HIDE DEF S
  <2>2. QED
    BY <1>5, <2>1
<1> HIDE DEF S
<1>8. Len(commands) = 2 + 1 /\ \A i \in 1..2 + 1 : commands[i] = IF i <= 2 THEN puts[i] ELSE last[i - 2]
  <2>1. /\ Len(commands) = Len(puts) + Len(last)
        /\ \A i \in 1..Len(puts) + Len(last) :
             commands[i] = IF i <= Len(puts) THEN puts[i] ELSE last[i - Len(puts)]
    BY <1>4, <1>6, <1>7, ConcatProperties
  <2>2. QED
    BY <1>6, <1>7, <2>1
<1>9. /\ commands[2 + 1] = g
      /\ \A i \in 1..2 : commands[i].act \in {"put", "copy"}
  <2>1. 2 + 1 \in 1..2 + 1 /\ ~(2 + 1 <= 2) /\ (2 + 1) - 2 = 1
    OBVIOUS
  <2>2. \A i \in 1..2 : i \in 1..2 + 1 /\ i <= 2
    OBVIOUS
  <2>3. QED
    BY <1>3, <1>6, <1>8, <2>1, <2>2
<1>10. IsListing(Listing) /\ fresh \notin DOMAIN Listing
  BY ListingFacts DEF StoreInv
<1>11. PlanFits(Listing, commands)
  <2>1. 2 \in Nat
    OBVIOUS
  <2>2. QED
    BY <1>2, <1>8, <1>9, <1>10, <2>1, NewDocumentFits
<1>12. Run(r, commands, 1)
  BY DEF commands
<1>13. QED
  BY <1>11, <1>12, RunKeepsTree

\* What upload_payload and upload_rmdoc have checked.
LEMMA MayAddFits ==
  ASSUME StoreInv, NEW at \in FolderRefs, NEW name, NEW kind, MayAdd(at, name),
         NEW e, e = [name |-> name, parent |-> ResolveFolderRef(Listing, at).uuid, kind |-> kind]
  PROVE  e.parent \in Homes(Listing) /\ NoConflict(Listing, e.parent, e.name, Stop)
<1>1. IsListing(Listing)
  BY ListingFacts DEF StoreInv
<1>2. ResolveFolderRef(Listing, at).uuid \in Homes(Listing)
  BY <1>1, RefFacts, ResolvesToFolder DEF MayAdd
<1>3. QED
  BY <1>2 DEF MayAdd

LEMMA UploadKeepsTree ==
  ASSUME StoreAssumption, StoreInv, StoreInv', NEW at \in FolderRefs, NEW name, Upload(at, name)
  PROVE  TreeInv'
<1> DEFINE entry(kind) == [name |-> name, parent |-> ResolveFolderRef(Listing, at).uuid, kind |-> kind]
           r == Request("upload", {}, at, name)
           payload == Put(fresh, "payload")
<1>1. CASE Refuse(r)
  BY <1>1, RefuseKeepsTree
<1>2. CASE MayAdd(at, name) /\ Run(r, StoreDocument(fresh, payload, entry("payload")), 1)
  <2> DEFINE e == entry("payload")
  <2>1. e.parent \in Homes(Listing) /\ NoConflict(Listing, e.parent, e.name, Stop)
    BY <1>2, MayAddFits
  <2>2. payload.act = "put"
    BY DEF Put, Command
  <2>3. Run(r, StoreDocument(fresh, payload, e), 1)
    BY <1>2
  <2> HIDE DEF e, payload, r
  <2>4. QED
    BY <2>1, <2>2, <2>3, StoreDocumentKeepsTree
<1>3. CASE /\ MayAdd(at, name)
           /\ \E files \in {<<"content", "dir">>, <<"dir", "content">>} :
                Run(r, RestoreBundle(fresh, files, entry("notebook")), 1)
  <2> DEFINE e == entry("notebook")
  <2>1. e.parent \in Homes(Listing) /\ NoConflict(Listing, e.parent, e.name, Stop)
    BY <1>3, MayAddFits
  <2>2. PICK files \in {<<"content", "dir">>, <<"dir", "content">>} :
          Run(r, RestoreBundle(fresh, files, e), 1)
    BY <1>3
  <2> HIDE DEF e, r
  <2>3. QED
    BY <2>1, <2>2, RestoreBundleKeepsTree
<1>4. QED
  BY <1>1, <1>2, <1>3 DEF Upload

LEMMA CopyOnDeviceKeepsTree ==
  ASSUME StoreAssumption, StoreInv, StoreInv', NEW u, NEW at \in FolderRefs, NEW name,
         CopyOnDevice(u, at, name)
  PROVE  TreeInv'
<1> DEFINE e == [name |-> name, parent |-> ResolveFolderRef(Listing, at).uuid, kind |-> "payload"]
           r == Request("upload", {}, at, name)
           payload == CopyPayload(fresh, u)
<1>1. MayAdd(at, name) /\ Run(r, StoreDocument(fresh, payload, e), 1)
  BY DEF CopyOnDevice
<1>2. e.parent \in Homes(Listing) /\ NoConflict(Listing, e.parent, e.name, Stop)
  BY <1>1, MayAddFits
<1>3. payload.act = "copy"
  BY DEF CopyPayload, Command
<1> HIDE DEF e, r, payload
<1>4. QED
  BY <1>1, <1>2, <1>3, StoreDocumentKeepsTree

\* ---------------------------------------------------------------------
\* Changes of names and parents.

LEMMA UpdateShape ==
  ASSUME NEW u, NEW name, NEW parent
  PROVE  /\ Len(Update(u, name, parent)) = 2
         /\ Update(u, name, parent)[1].act = "read"
         /\ Update(u, name, parent)[2].act = "write" /\ Update(u, name, parent)[2].uuid = u
         /\ Update(u, name, parent)[2].entry = [name |-> name, parent |-> parent]
<1> DEFINE plan == Update(u, name, parent)
           c == Command("read", u, "metadata")
           d == [Command("write", u, "metadata") EXCEPT !.entry = [name |-> name, parent |-> parent]]
<1>1. c.act = "read"
  BY DEF Command
<1>2. d = [act |-> "write", uuid |-> u, part |-> "metadata", from |-> Stop,
           entry |-> [name |-> name, parent |-> parent]]
  BY DEF Command
<1>3. plan = <<c, d>>
  BY DEF Update
<1> HIDE DEF plan, c
<1>4. Len(plan) = 2 /\ plan[1] = c /\ plan[2] = d
  BY <1>3
<1> HIDE DEF d
<1>5. plan[2].act = "write" /\ plan[2].uuid = u /\ plan[2].entry = [name |-> name, parent |-> parent]
  BY <1>2, <1>4
<1>6. QED
  BY <1>1, <1>4, <1>5 DEF plan

\* update_metadata sets the fields it is given.
LEMMA MergedFields ==
  ASSUME NEW entry \in Entry, NEW name, NEW parent, NEW c, c.entry = [name |-> name, parent |-> parent]
  PROVE  /\ Merged(entry, c.entry).name = IF name = Same THEN entry.name ELSE name
         /\ Merged(entry, c.entry).parent = IF parent = Stop THEN entry.parent ELSE parent
<1> DEFINE n == entry.name
           p == entry.parent
           k == entry.kind
           x == IF name = Same THEN n ELSE name
           y == IF parent = Stop THEN p ELSE parent
<1>1. entry = [name |-> n, parent |-> p, kind |-> k]
  BY DEF Entry
<1>2. Merged(entry, c.entry) = [entry EXCEPT !.name = x, !.parent = y]
  BY DEF Merged
<1> HIDE DEF n, p, k, x, y
<1> DEFINE g == [entry EXCEPT !.name = x]
<1>3. g = [name |-> x, parent |-> p, kind |-> k]
  BY <1>1
<1>4. Merged(entry, c.entry) = [g EXCEPT !.parent = y]
  BY <1>2
<1> HIDE DEF g
<1>5. Merged(entry, c.entry) = [name |-> x, parent |-> y, kind |-> k]
  BY <1>3, <1>4
<1>6. QED
  BY <1>5 DEF n, p, k, x, y

LEMMA OneWriteFits ==
  ASSUME NEW items, NEW plan, NEW k \in 1..Len(plan), Len(plan) \in Nat,
         \A i \in 1..Len(plan) : i # k => plan[i].act \in {"put", "read"},
         plan[k].act = "write", NEW u \in DOMAIN items, plan[k].uuid = u,
         NEW D, UpClosed(items, D), u \notin D,
         NEW e, e = Written(items, plan[k]),
         e.parent \in D \cup {Root, Trash}, e.parent \in D => IsFolder(items, e.parent),
         e.parent # Trash =>
           \A v \in DOMAIN items \ {u} : items[v].parent # e.parent \/ items[v].name # e.name
  PROVE  PlanFits(items, plan)
<1>1. \A i \in 1..Len(plan) : plan[i].act \notin {"register", "drop"}
  OBVIOUS
<1>2. ASSUME NEW i \in 1..Len(plan), plan[i].act = "write" PROVE WriteFits(items, D, plan, i)
  <2>1. i = k
    BY <1>2
  <2>2. \A j \in 1..i - 1 : plan[j].act # "write"
    <3>1. \A j \in 1..i - 1 : j \in 1..Len(plan) /\ j # k
      BY <2>1
    <3>2. QED
      BY <3>1
  <2>3. QED
    BY <2>1, <2>2 DEF WriteFits
<1>3. WritesFit(items, plan)
  BY <1>2 DEF WritesFit, WritesFitIn
<1>4. QED
  BY <1>1, <1>3, ChangingFits

\* An item stays where it is: it is not above its own folder.
LEMMA OwnPlace ==
  ASSUME NEW items, IsListing(items), TreeOK(items), NEW u \in DOMAIN items,
         NEW p, p = items[u].parent, NEW D, D = Above(items, p)
  PROVE  /\ UpClosed(items, D) /\ u \notin D /\ p \in D \cup {Root, Trash}
         /\ p \in D => IsFolder(items, p)
<1>1. UpClosed(items, D)
  BY AboveIsClosed
<1>2. u \notin D
  BY LoopFreeIsSound DEF TreeOK, Above
<1>3. p \in DOMAIN items \cup {Root, Trash} /\ (p \in DOMAIN items => IsFolder(items, p))
  BY DEF TreeOK, ParentsOK
<1>4. p \in DOMAIN items => p \in D
  BY <1>3, PlaceIsAbove
<1>5. QED
  BY <1>1, <1>2, <1>3, <1>4 DEF UpClosed

LEMMA RenameKeepsTree ==
  ASSUME StoreAssumption, StoreInv, StoreInv', NEW ref \in Refs, NEW name \in Names, Rename(ref, name)
  PROVE  TreeInv'
<1> DEFINE items == Listing
           item == ResolveItemRef(items, ref)
           r == Request("rename", {ref}, ByPath(<<>>), name)
           u == item.uuid
           commands == Update(u, name, Stop)
<1>1. CASE Refuse(r)
  BY <1>1, RefuseKeepsTree
<1>2. CASE Run(r, <<>>, 0)
  BY <1>2, EmptyPlanFits, RunKeepsTree
<1>3. CASE /\ item.err = "none" /\ NoConflict(items, items[u].parent, name, u)
           /\ Run(r, commands, 0)
  <2>1. IsListing(items)
    BY ListingFacts DEF StoreInv
  <2>2. u \in DOMAIN items
    BY <1>3, <2>1, RefFacts, ResolvesToItem
  <2>3. ASSUME TreeOK(items) PROVE PlanFits(items, commands)
    <3> DEFINE p == items[u].parent
               D == Above(items, p)
               e == Written(items, commands[2])
    <3>1. /\ Len(commands) = 2 /\ commands[1].act = "read"
          /\ commands[2].act = "write" /\ commands[2].uuid = u
          /\ commands[2].entry = [name |-> name, parent |-> Stop]
      BY UpdateShape
    <3>2. \A v \in DOMAIN items \ {u} : items[v].parent # p \/ items[v].name # name
      BY <1>3, FreeName
    <3>3. items[u] \in Entry /\ name # Same
      BY <2>1, <2>2 DEF IsListing, StoreAssumption
    <3> HIDE DEF commands, items, u
    <3>4. e.name = name /\ e.parent = p
      BY <3>1, <3>3, MergedFields DEF Written
    <3> HIDE DEF e, D
    <3>5. /\ UpClosed(items, D) /\ u \notin D /\ p \in D \cup {Root, Trash}
          /\ p \in D => IsFolder(items, p)
      BY <2>1, <2>2, <2>3, OwnPlace DEF D
    <3> HIDE DEF p
    <3>6. \A i \in 1..Len(commands) : i # 2 => commands[i].act \in {"put", "read"}
      BY <3>1
    <3>7. 2 \in 1..Len(commands) /\ Len(commands) \in Nat
      BY <3>1
    <3>8. QED
      BY <2>2, <3>1, <3>2, <3>4, <3>5, <3>6, <3>7, OneWriteFits DEF e
  <2> HIDE DEF commands, r
  <2>4. QED
    BY <1>3, <2>3, RunKeepsTree
<1>4. QED
  BY <1>1, <1>2, <1>3 DEF Rename

LEMMA MoveDocumentKeepsTree ==
  ASSUME StoreAssumption, StoreInv, StoreInv', NEW u, NEW at \in FolderRefs, NEW name \in Names,
         MoveDocument(u, at, name)
  PROVE  TreeInv'
<1> DEFINE items == Listing
           p == ResolveFolderRef(items, at).uuid
           r == Request("relocate", {ByUuid(u)}, at, name)
           commands == Update(u, name, p)
<1>1. /\ u \in DOMAIN items /\ ~IsFolder(items, u) /\ ResolveFolderRef(items, at).err = "none"
      /\ NoConflict(items, p, name, u) /\ Run(r, commands, 0)
  BY DEF MoveDocument
<1>2. IsListing(items)
  BY ListingFacts DEF StoreInv
<1>3. p \in Homes(items)
  BY <1>1, <1>2, RefFacts, ResolvesToFolder
<1>4. ASSUME TreeOK(items) PROVE PlanFits(items, commands)
  <2> DEFINE D == Above(items, p)
             e == Written(items, commands[2])
  <2>1. /\ Len(commands) = 2 /\ commands[1].act = "read"
        /\ commands[2].act = "write" /\ commands[2].uuid = u
        /\ commands[2].entry = [name |-> name, parent |-> p]
    BY UpdateShape
  <2>2. \A v \in DOMAIN items \ {u} : items[v].parent # p \/ items[v].name # name
    BY <1>1, FreeName
  <2>3. items[u] \in Entry /\ name # Same /\ p # Stop
    <3>1. items[u] \in Entry /\ name # Same
      BY <1>1, <1>2 DEF IsListing, StoreAssumption
    <3>2. Root # Stop /\ Stop \notin DOMAIN items
      BY <1>2, UuidFacts DEF IsListing, Root, Stop
    <3> HIDE DEF p, items
    <3>3. QED
      BY <1>3, <3>1, <3>2 DEF Homes
  <2> HIDE DEF commands, items, p
  <2>4. e.name = name /\ e.parent = p
    BY <2>1, <2>3, MergedFields DEF Written
  <2>5. UpClosed(items, D) /\ u \notin D
    BY <1>1, <1>2, <1>4, AboveIsClosed DEF Above
  <2>6. p \in D \cup {Root} /\ (p \in D => IsFolder(items, p))
    BY <1>2, <1>3, PlaceIsAbove DEF Homes, Above
  <2> HIDE DEF e, D
  <2>7. \A i \in 1..Len(commands) : i # 2 => commands[i].act \in {"put", "read"}
    BY <2>1
  <2>8. 2 \in 1..Len(commands) /\ Len(commands) \in Nat
    BY <2>1
  <2>9. QED
    BY <1>1, <2>1, <2>2, <2>4, <2>5, <2>6, <2>7, <2>8, OneWriteFits DEF e
<1> HIDE DEF commands, r
<1>5. QED
  BY <1>1, <1>4, RunKeepsTree

LEMMA UpdatePayloadKeepsTree ==
  ASSUME StoreAssumption, StoreInv, StoreInv', NEW u, UpdatePayload(u)
  PROVE  TreeInv'
<1> DEFINE items == Listing
           p == items[u].parent
           r == Request("update", {ByUuid(u)}, ByPath(<<>>), Same)
           c == Put(u, "payload")
           rest == Update(u, Same, Stop)
           commands == <<c>> \o rest
<1>1. u \in DOMAIN items /\ Run(r, commands, 0)
  BY DEF UpdatePayload
<1>2. IsListing(items)
  BY ListingFacts DEF StoreInv
<1>3. c.act = "put"
  BY DEF Put, Command
<1>4. /\ Len(rest) = 2 /\ rest[1].act = "read"
      /\ rest[2].act = "write" /\ rest[2].uuid = u
      /\ rest[2].entry = [name |-> Same, parent |-> Stop]
  BY UpdateShape
<1>5. Len(commands) = 3 /\ commands[1] = c /\ commands[2] = rest[1] /\ commands[3] = rest[2]
  <2> DEFINE d == Command("read", u, "metadata")
             g == [Command("write", u, "metadata") EXCEPT !.entry = [name |-> Same, parent |-> Stop]]
  <2>1. rest = <<d, g>>
    BY DEF Update
  <2> HIDE DEF c, d, g, rest
  <2> DEFINE S == {c, d, g}
             first == <<c>>
  <2>2. rest \in Seq(S) /\ Len(rest) = 2
    BY <2>1
  <2>3. first \in Seq(S) /\ Len(first) = 1 /\ first[1] = c /\ commands = first \o rest
    OBVIOUS
  <2> HIDE DEF commands, S, first
  <2>4. /\ Len(commands) = 1 + 2
        /\ \A i \in 1..1 + 2 : commands[i] = IF i <= 1 THEN first[i] ELSE rest[i - 1]
    <3>1. /\ Len(commands) = Len(first) + Len(rest)
          /\ \A i \in 1..Len(first) + Len(rest) :
               commands[i] = IF i <= Len(first) THEN first[i] ELSE rest[i - Len(first)]
      BY <2>2, <2>3, ConcatProperties
    <3>2. QED
      BY <2>2, <2>3, <3>1
  <2>5. QED
    BY <2>3, <2>4
<1>6. ASSUME TreeOK(items) PROVE PlanFits(items, commands)
  <2> DEFINE D == Above(items, p)
             e == Written(items, commands[3])
  <2> HIDE DEF commands, rest, c
  <2>1. items[u] \in Entry
    BY <1>1, <1>2 DEF IsListing
  <2>2. commands[3].act = "write" /\ commands[3].uuid = u
        /\ commands[3].entry = [name |-> Same, parent |-> Stop]
    BY <1>4, <1>5
  <2> HIDE DEF items
  <2>3. e.name = items[u].name /\ e.parent = p
    BY <2>1, <2>2, MergedFields DEF Written
  <2>4. p # Trash => \A v \in DOMAIN items \ {u} : items[v].parent # p \/ items[v].name # items[u].name
    BY <1>1, <1>6 DEF TreeOK, NamesOK
  <2>5. /\ UpClosed(items, D) /\ u \notin D /\ p \in D \cup {Root, Trash}
        /\ p \in D => IsFolder(items, p)
    BY <1>1, <1>2, <1>6, OwnPlace
  <2> HIDE DEF p, e, D
  <2>6. \A i \in 1..Len(commands) : i # 3 => commands[i].act \in {"put", "read"}
    <3>1. \A i \in 1..3 : i # 3 => i = 1 \/ i = 2
      OBVIOUS
    <3>2. QED
      BY <1>3, <1>4, <1>5, <3>1
  <2>7. 3 \in 1..Len(commands) /\ Len(commands) \in Nat
    BY <1>5
  <2>8. QED
    BY <1>1, <2>2, <2>3, <2>4, <2>5, <2>6, <2>7, OneWriteFits DEF e
<1> HIDE DEF commands, r
<1>7. QED
  BY <1>1, <1>6, RunKeepsTree

LEMMA MovesFit ==
  ASSUME NEW items, IsListing(items), TreeOK(items), NEW dest \in Homes(items),
         NEW uuids, uuids \subseteq DOMAIN items, MoveAllowed(items, uuids, dest),
         NEW n \in Nat, NEW order \in [1..n -> NeedMoving(items, uuids, dest)],
         \A i, j \in 1..n : order[i] = order[j] => i = j,
         NEW plan, plan = FlattenSeq([i \in 1..n |-> Update(order[i], Same, dest)])
  PROVE  PlanFits(items, plan)
<1> DEFINE need == NeedMoving(items, uuids, dest)
           seqs == [i \in 1..n |-> Update(order[i], Same, dest)]
           D == Above(items, dest)
<1>1. \A i \in 1..n : order[i] \in need /\ order[i] \in DOMAIN items /\ order[i] \in Uuids
  BY DEF NeedMoving, IsListing
<1>2. /\ dest \in Uuids \cup {Root, Stop} /\ dest # Stop
      /\ dest \in D \cup {Root} /\ (dest \in D => IsFolder(items, dest))
  <2>1. Root # Stop /\ Stop \notin DOMAIN items
    BY UuidFacts DEF IsListing, Root, Stop
  <2>2. dest \in D \cup {Root} /\ (dest \in D => IsFolder(items, dest))
    BY PlaceIsAbove DEF Homes, Above
  <2>3. QED
    BY <2>1, <2>2 DEF Homes, IsListing
<1>3. UpClosed(items, D)
  BY AboveIsClosed
<1>4. \E at : Laid(plan, seqs, n, at)
  <2>1. ASSUME NEW i \in 1..n PROVE seqs[i] \in Seq(Commands)
    <3>1. Update(order[i], Same, dest) \in Safe({"read", "write"}, Uuids, "move")
      BY <1>1, <1>2, UpdateIsSafe
    <3>2. QED
      BY <3>1 DEF Safe
  <2>2. plan = FlattenSeq(seqs) /\ seqs = [i \in 1..n |-> seqs[i]]
    OBVIOUS
  <2> HIDE DEF seqs
  <2>3. seqs \in [1..n -> Seq(Commands)]
    BY <2>1, <2>2
  <2>4. \E at : Laid(FlattenSeq(seqs), seqs, n, at)
    BY <2>3, PlanIsLaid
  <2>5. QED
    BY <2>2, <2>4
<1>5. PICK at : Laid(plan, seqs, n, at)
  BY <1>4
<1>6. ASSUME NEW k \in 1..n
      PROVE  /\ Len(seqs[k]) = 2 /\ seqs[k][1].act = "read"
             /\ seqs[k][2].act = "write" /\ seqs[k][2].uuid = order[k]
             /\ seqs[k][2].entry = [name |-> Same, parent |-> dest]
  BY UpdateShape
<1> HIDE DEF seqs, D
<1>7. ASSUME NEW i \in 1..Len(plan)
      PROVE  \E k \in 1..n :
               \/ plan[i].act = "read"
               \/ /\ i = at[k] + 2 /\ plan[i].act = "write" /\ plan[i].uuid = order[k]
                  /\ plan[i].entry = [name |-> Same, parent |-> dest]
  <2>1. PICK k \in 1..n : \E m \in 1..Len(seqs[k]) : i = at[k] + m
    BY <1>5 DEF Laid
  <2>2. PICK m \in 1..Len(seqs[k]) : i = at[k] + m
    BY <2>1
  <2>3. plan[i] = seqs[k][m]
    BY <1>5, <2>2 DEF Laid
  <2>4. Len(seqs[k]) = 2
    BY <1>6
  <2>5. m = 1 \/ m = 2
    BY <2>4
  <2>6. QED
    BY <1>6, <2>2, <2>3, <2>5
<1>8. ASSUME NEW k \in 1..n, NEW c, c.uuid = order[k], c.entry = [name |-> Same, parent |-> dest]
      PROVE  /\ Written(items, c).name = items[order[k]].name
             /\ Written(items, c).parent = dest
  <2>1. items[order[k]] \in Entry
    BY <1>1 DEF IsListing
  <2> DEFINE w == items[order[k]]
  <2>2. Written(items, c) = Merged(w, c.entry)
    BY <1>8 DEF Written
  <2> HIDE DEF w
  <2>3. /\ Merged(w, c.entry).name = IF Same = Same THEN w.name ELSE Same
        /\ Merged(w, c.entry).parent = IF dest = Stop THEN w.parent ELSE dest
    BY <1>8, <2>1, MergedFields DEF w
  <2>4. QED
    BY <1>2, <2>2, <2>3 DEF w
<1>9. \A k \in 1..n :
        /\ order[k] \notin D
        /\ \A v \in DOMAIN items \ {order[k]} :
             items[v].parent # dest \/ items[v].name # items[order[k]].name
        /\ \A j \in 1..n : j # k => items[order[j]].name # items[order[k]].name
  <2>1. TAKE k \in 1..n
  <2>2. /\ IsFolder(items, order[k]) => ~IsDescendant(items, dest, order[k])
        /\ NoConflict(items, dest, items[order[k]].name, order[k])
        /\ \A v \in need : v # order[k] => items[v].name # items[order[k]].name
    BY <1>1 DEF MoveAllowed
  <2>3. order[k] \notin D
    BY <2>2 DEF D, Above
  <2>4. QED
    BY <1>1, <2>2, <2>3, FreeName
<1>10. ASSUME NEW i \in 1..Len(plan), plan[i].act = "write" PROVE WriteFits(items, D, plan, i)
  <2>1. PICK k \in 1..n : /\ i = at[k] + 2 /\ plan[i].uuid = order[k]
                          /\ plan[i].entry = [name |-> Same, parent |-> dest]
    BY <1>7, <1>10
  <2>2. Written(items, plan[i]).name = items[order[k]].name /\ Written(items, plan[i]).parent = dest
    BY <1>8, <2>1
  <2>3. ASSUME NEW j \in 1..i - 1, plan[j].act = "write"
        PROVE  plan[j].uuid # plan[i].uuid /\ Written(items, plan[j]).name # Written(items, plan[i]).name
    <3>1. j \in 1..Len(plan) /\ j # i
      <4>1. Len(plan) \in Nat
        BY <1>5, <2>1 DEF Laid
      <4>2. QED
        BY <4>1
    <3>2. PICK l \in 1..n : /\ j = at[l] + 2 /\ plan[j].uuid = order[l]
                            /\ plan[j].entry = [name |-> Same, parent |-> dest]
      BY <1>7, <2>3, <3>1
    <3>3. l # k
      BY <2>1, <3>1, <3>2
    <3>4. Written(items, plan[j]).name = items[order[l]].name
      BY <1>8, <3>2
    <3>5. QED
      BY <1>9, <2>1, <2>2, <3>2, <3>3, <3>4
  <2>4. QED
    BY <1>1, <1>2, <1>9, <2>1, <2>2, <2>3 DEF WriteFits
<1>11. WritesFit(items, plan)
  BY <1>3, <1>10 DEF WritesFit, WritesFitIn
<1>12. \A i \in 1..Len(plan) : plan[i].act \notin {"register", "drop"}
  BY <1>7
<1>13. QED
  BY <1>11, <1>12, ChangingFits

LEMMA MoveKeepsTree ==
  ASSUME StoreAssumption, StoreInv, StoreInv', NEW ref \in Refs, NEW at \in FolderRefs, Move(ref, at)
  PROVE  TreeInv'
<1> DEFINE items == Listing
           dest == ResolveFolderRef(items, at)
           uuids == ExpandRef(items, ref)
           need == NeedMoving(items, uuids, dest.uuid)
           r == Request("move", {ref}, at, Same)
           commands(order) == FlattenSeq([i \in DOMAIN order |-> Update(order[i], Same, dest.uuid)])
<1>1. CASE Refuse(r)
  BY <1>1, RefuseKeepsTree
<1>2. ASSUME dest.err = "none", MoveAllowed(items, uuids, dest.uuid),
             NEW order \in SetToSeqs(need), Run(r, commands(order), 0)
      PROVE  TreeInv'
  <2>1. IsListing(items)
    BY ListingFacts DEF StoreInv
  <2>2. dest.uuid \in Homes(items)
    BY <1>2, <2>1, RefFacts, ResolvesToFolder
  <2>3. uuids \subseteq DOMAIN items
    BY <2>1, RefFacts, ExpandsToItems
  <2> DEFINE n == Cardinality(need)
  <2>4. n \in Nat
    <3>1. need \subseteq DOMAIN items
      BY <2>3 DEF NeedMoving
    <3>2. QED
      BY <2>1, <3>1, UuidFacts, FS_Subset, FS_CardinalityType DEF IsListing
  <2>5. order \in [1..n -> need] /\ \A i, j \in 1..n : order[i] = order[j] => i = j
    BY <1>2 DEF SetToSeqs, IsInjective
  <2>6. commands(order) = FlattenSeq([i \in 1..n |-> Update(order[i], Same, dest.uuid)])
    BY <2>5
  <2> HIDE DEF items, dest, uuids, n, commands, r
  <2>7. TreeOK(items) => PlanFits(items, commands(order))
    BY <1>2, <2>1, <2>2, <2>3, <2>4, <2>5, <2>6, MovesFit
  <2>8. QED
    BY <1>2, <2>7, RunKeepsTree DEF items
<1>3. QED
  BY <1>1, <1>2 DEF Move

\* ---------------------------------------------------------------------
\* Removals.

LEMMA RemoveShape ==
  ASSUME NEW u
  PROVE  /\ Len(RemoveFiles(u)) = 5
         /\ \A i \in 1..5 : /\ RemoveFiles(u)[i].act = "drop" /\ RemoveFiles(u)[i].uuid = u
                            /\ Hides(RemoveFiles(u)[i], u) <=> i = 3
<1> DEFINE plan == RemoveFiles(u)
           file == <<"dir", "content", "metadata", "pagedata", "payload">>
<1>1. \A i \in 1..5 : file[i] = "metadata" <=> i = 3
  <2>1. \A i \in 1..5 : i = 1 \/ i = 2 \/ i = 3 \/ i = 4 \/ i = 5
    OBVIOUS
  <2>2. file[1] # "metadata" /\ file[2] # "metadata" /\ file[4] # "metadata" /\ file[5] # "metadata"
    OBVIOUS
  <2>3. file[3] = "metadata"
    OBVIOUS
  <2> HIDE DEF file
  <2>4. QED
    BY <2>1, <2>2, <2>3
<1>2. plan = [i \in 1..5 |-> Command("drop", u, file[i])]
  BY DEF RemoveFiles
<1> HIDE DEF plan, file
<1>3. Len(plan) = 5
  BY <1>2
<1>4. \A i \in 1..5 : plan[i].act = "drop" /\ plan[i].uuid = u /\ plan[i].part = file[i]
  BY <1>2 DEF Command
<1>5. \A i \in 1..5 : Hides(plan[i], u) <=> i = 3
  BY <1>1, <1>4 DEF Hides
<1>6. QED
  BY <1>3, <1>4, <1>5 DEF plan

\* An order of a finite set has every member of it.
LEMMA OrderMeetsAll ==
  ASSUME NEW S, IsFiniteSet(S), NEW order \in SetToSeqs(S)
  PROVE  /\ Cardinality(S) \in Nat /\ order \in [1..Cardinality(S) -> S]
         /\ DOMAIN order = 1..Cardinality(S)
         /\ \A i, j \in 1..Cardinality(S) : order[i] = order[j] => i = j
         /\ \A s \in S : \E i \in 1..Cardinality(S) : order[i] = s
<1> DEFINE n == Cardinality(S)
<1>1. n \in Nat
  BY FS_CardinalityType
<1>2. order \in [1..n -> S] /\ \A i, j \in 1..n : order[i] = order[j] => i = j
  BY DEF SetToSeqs
<1> HIDE DEF n
<1>3. order \in Injection(1..n, S)
  BY <1>2 DEF Injection, IsInjective
<1>4. Cardinality(1..n) = n
  BY <1>1, FS_Interval
<1>5. order \in Surjection(1..n, S)
  <2>1. Cardinality(1..n) = Cardinality(S)
    BY <1>4 DEF n
  <2>2. QED
    BY <1>3, <2>1, FS_Injection
<1>6. \A s \in S : \E i \in 1..n : order[i] = s
  BY <1>5 DEF Surjection
<1>7. QED
  BY <1>1, <1>2, <1>6 DEF n

LEMMA DropsFitIn ==
  ASSUME NEW items, IsListing(items), NoLoop(items), NEW gone, gone \subseteq DOMAIN items,
         \A x \in gone : \A c \in Children(items, x) : c \in gone,
         NEW order \in SetToSeqs(gone), DeepestFirst(items, order),
         NEW plan, plan = FlattenSeq([i \in DOMAIN order |-> RemoveFiles(order[i])])
  PROVE  PlanFits(items, plan)
<1> DEFINE n == Cardinality(gone)
           seqs == [i \in 1..n |-> RemoveFiles(order[i])]
<1>1. /\ n \in Nat /\ order \in [1..n -> gone] /\ DOMAIN order = 1..n
      /\ \A s \in gone : \E i \in 1..n : order[i] = s
  <2>1. IsFiniteSet(gone)
    BY UuidFacts, FS_Subset DEF IsListing
  <2>2. QED
    BY <2>1, OrderMeetsAll
<1> HIDE DEF n
<1>2. PICK at : Laid(plan, seqs, n, at)
  <2>1. ASSUME NEW i \in 1..n PROVE seqs[i] \in Seq(Commands)
    <3>1. order[i] \in Uuids
      BY <1>1 DEF IsListing
    <3>2. RemoveFiles(order[i]) \in Safe({"drop"}, Uuids, "delete")
      BY <3>1, RemoveIsSafe
    <3>3. QED
      BY <3>2 DEF Safe
  <2>2. plan = FlattenSeq(seqs) /\ seqs = [i \in 1..n |-> seqs[i]]
    BY <1>1
  <2> HIDE DEF seqs
  <2>3. seqs \in [1..n -> Seq(Commands)]
    BY <2>1, <2>2
  <2>4. \E at : Laid(FlattenSeq(seqs), seqs, n, at)
    BY <1>1, <2>3, PlanIsLaid
  <2>5. QED
    BY <2>2, <2>4
<1>3. ASSUME NEW k \in 1..n
      PROVE  /\ Len(seqs[k]) = 5
             /\ \A m \in 1..5 : /\ seqs[k][m].act = "drop" /\ seqs[k][m].uuid = order[k]
                                /\ Hides(seqs[k][m], order[k]) <=> m = 3
  BY RemoveShape
<1> HIDE DEF seqs
<1>4. ASSUME NEW i \in 1..Len(plan)
      PROVE  \E k \in 1..n : \E m \in 1..5 : i = at[k] + m /\ plan[i] = seqs[k][m]
  <2>1. PICK k \in 1..n : \E m \in 1..Len(seqs[k]) : i = at[k] + m
    BY <1>2 DEF Laid
  <2>2. PICK m \in 1..Len(seqs[k]) : i = at[k] + m
    BY <2>1
  <2>3. plan[i] = seqs[k][m]
    BY <1>2, <2>2 DEF Laid
  <2>4. Len(seqs[k]) = 5
    BY <1>3
  <2>5. m \in 1..5
    BY <2>4
  <2>6. QED
    BY <2>2, <2>3, <2>5
<1>5. \A i \in 1..Len(plan) : plan[i].act \in {"drop", "fetch"}
  BY <1>3, <1>4
<1>6. ASSUME NEW i \in 1..Len(plan), Hides(plan[i], plan[i].uuid), NEW c \in Children(items, plan[i].uuid)
      PROVE  \E j \in 1..i - 1 : Hides(plan[j], c)
  <2>1. PICK k \in 1..n : \E m \in 1..5 : i = at[k] + m /\ plan[i] = seqs[k][m]
    BY <1>4
  <2>2. PICK m \in 1..5 : i = at[k] + m /\ plan[i] = seqs[k][m]
    BY <2>1
  <2>3. plan[i].uuid = order[k] /\ order[k] \in gone
    <3>1. seqs[k][m].uuid = order[k]
      BY <1>3
    <3>2. QED
      BY <1>1, <2>2, <3>1
  <2>4. c \in gone
    BY <1>6, <2>3
  <2>5. PICK l \in 1..n : order[l] = c
    BY <1>1, <2>4
  <2>6. Depth(items, order[k]) \in Nat /\ Depth(items, order[l]) \in Nat
        /\ Depth(items, order[k]) < Depth(items, order[l])
    BY <1>6, <2>3, <2>5, ChildIsDeeper
  <2>7. ~(k < l)
    <3>1. ASSUME k < l PROVE Depth(items, order[k]) >= Depth(items, order[l])
      <4>1. order[k] \in Range(order) /\ order[l] \in Range(order)
        BY <1>1 DEF Range
      <4>2. QED
        BY <1>1, <3>1, <4>1 DEF DeepestFirst
    <3>2. QED
      BY <2>6, <3>1
  <2>8. l < k
    BY <2>6, <2>7
  <2>9. at[l] \in Nat /\ at[k] \in Nat /\ at[l] + Len(seqs[l]) <= at[k]
        /\ plan[at[l] + 3] = seqs[l][3]
    <3>1. Len(seqs[l]) = 5 /\ 3 \in 1..5
      BY <1>3
    <3>2. 3 \in 1..Len(seqs[l])
      BY <3>1
    <3>3. at[l] \in Nat /\ at[k] \in Nat /\ at[l] + Len(seqs[l]) <= Len(plan)
      BY <1>2 DEF Laid
    <3>4. at[l] + Len(seqs[l]) <= at[k]
      BY <1>2, <2>8 DEF Laid
    <3>5. plan[at[l] + 3] = seqs[l][3]
      BY <1>2, <3>2 DEF Laid
    <3>6. QED
      BY <3>3, <3>4, <3>5
  <2>10. Len(seqs[l]) = 5 /\ Hides(seqs[l][3], c)
    <3>1. 3 \in 1..5
      OBVIOUS
    <3>2. QED
      BY <1>3, <2>5, <3>1
  <2>11. at[l] + 3 \in 1..i - 1
    <3> DEFINE a == at[l]
               b == at[k]
    <3>1. a \in Nat /\ b \in Nat /\ a + 5 <= b /\ i = b + m
      BY <2>2, <2>9, <2>10
    <3> HIDE DEF a, b
    <3>2. a + 3 \in 1..i - 1
      BY <3>1
    <3>3. QED
      BY <3>2 DEF a
  <2>12. QED
    BY <2>9, <2>10, <2>11
<1>7. QED
  BY <1>5, <1>6, RemovingFits DEF DropsFit

LEMMA RemoveAllKeepsTree ==
  ASSUME StoreAssumption, StoreInv, StoreInv', NEW r, NEW targets, targets \subseteq DOMAIN Listing,
         RemoveAll(r, Doomed(Listing, targets))
  PROVE  TreeInv'
<1> DEFINE items == Listing
           gone == Doomed(items, targets)
<1>1. PICK order \in SetToSeqs(gone) :
        /\ DeepestFirst(items, order)
        /\ Run(r, FlattenSeq([i \in DOMAIN order |-> RemoveFiles(order[i])]), 0)
  BY DEF RemoveAll
<1>2. IsListing(items)
  BY ListingFacts DEF StoreInv
<1>3. gone \subseteq DOMAIN items
  BY <1>2, DoomedAreItems
<1> DEFINE commands == FlattenSeq([i \in DOMAIN order |-> RemoveFiles(order[i])])
<1>4. ASSUME TreeOK(items) PROVE PlanFits(items, commands)
  <2>1. NoLoop(items)
    BY <1>4 DEF TreeOK
  <2>2. \A x \in gone : \A c \in Children(items, x) : c \in gone
    BY <1>2, <2>1, DoomedIsClosed
  <2> HIDE DEF gone, items
  <2>3. QED
    BY <1>1, <1>2, <1>3, <2>1, <2>2, DropsFitIn
<1>5. Run(r, commands, 0)
  BY <1>1
<1> HIDE DEF commands
<1>6. QED
  BY <1>4, <1>5, RunKeepsTree

LEMMA DeleteKeepsTree ==
  ASSUME StoreAssumption, StoreInv, StoreInv', NEW refs, refs \subseteq Refs, NEW recursive,
         Delete(refs, recursive)
  PROVE  TreeInv'
<1> DEFINE targets == UNION {ExpandRef(Listing, ref) : ref \in refs}
           r == Request("delete", refs, ByPath(<<>>), Same)
<1>1. CASE Refuse(r)
  BY <1>1, RefuseKeepsTree
<1>2. CASE RemoveAll(r, Doomed(Listing, targets))
  <2>1. IsListing(Listing)
    BY ListingFacts DEF StoreInv
  <2>2. \A ref \in refs : ExpandRef(Listing, ref) \subseteq DOMAIN Listing
    BY <2>1, RefFacts, ExpandsToItems
  <2>3. targets \subseteq DOMAIN Listing
    BY <2>2
  <2> HIDE DEF targets, r
  <2>4. QED
    BY <1>2, <2>3, RemoveAllKeepsTree
<1>3. QED
  BY <1>1, <1>2 DEF Delete

LEMMA EmptyTrashKeepsTree ==
  ASSUME StoreAssumption, StoreInv, StoreInv', EmptyTrash
  PROVE  TreeInv'
<1>1. Children(Listing, Trash) \subseteq DOMAIN Listing
  BY DEF Children
<1>2. QED
  BY <1>1, RemoveAllKeepsTree DEF EmptyTrash

LEMMA DeleteDocumentKeepsTree ==
  ASSUME StoreAssumption, StoreInv, StoreInv', NEW u, DeleteDocument(u)
  PROVE  TreeInv'
<1> DEFINE items == Listing
           r == Request("delete", {ByUuid(u)}, ByPath(<<>>), Same)
           commands == RemoveFiles(u)
<1>1. u \in DOMAIN items /\ ~IsFolder(items, u) /\ Run(r, commands, 0)
  BY DEF DeleteDocument
<1>2. Len(commands) = 5 /\ \A i \in 1..5 : commands[i].act = "drop" /\ commands[i].uuid = u
  BY RemoveShape
<1> HIDE DEF commands, r
<1>3. ASSUME TreeOK(items) PROVE PlanFits(items, commands)
  <2>1. Children(items, u) = {}
    BY <1>1, <1>3 DEF TreeOK, ParentsOK, Children
  <2>2. DropsFit(items, commands)
    BY <1>2, <2>1 DEF DropsFit
  <2>3. QED
    BY <1>2, <2>2, RemovingFits
<1>4. QED
  BY <1>1, <1>3, RunKeepsTree

LEMMA DownloadKeepsTree ==
  ASSUME StoreAssumption, StoreInv, StoreInv', NEW ref \in Refs, Download(ref)
  PROVE  TreeInv'
<1> DEFINE items == Listing
           docs == {u \in ExpandRef(items, ref) : ~IsFolder(items, u)}
           r == Request("download", {ref}, ByPath(<<>>), Same)
<1>1. CASE Refuse(r)
  BY <1>1, RefuseKeepsTree
<1>2. ASSUME NEW order \in SetToSeqs(docs),
             Run(r, [i \in DOMAIN order |-> Command("fetch", order[i], FileOf(items, order[i]))], 0)
      PROVE  TreeInv'
  <2> DEFINE commands == [i \in DOMAIN order |-> Command("fetch", order[i], FileOf(items, order[i]))]
  <2>1. IsListing(items)
    BY ListingFacts DEF StoreInv
  <2>2. docs \subseteq DOMAIN items
    BY <2>1, RefFacts, ExpandsToItems
  <2>3. IsFiniteSet(docs)
    BY <2>1, <2>2, UuidFacts, FS_Subset DEF IsListing
  <2>4. Cardinality(docs) \in Nat /\ DOMAIN order = 1..Cardinality(docs)
    BY <2>3, OrderMeetsAll
  <2>5. Len(commands) = Cardinality(docs)
    BY <2>4
  <2>6. \A i \in 1..Len(commands) : commands[i].act = "fetch"
    BY <2>4, <2>5 DEF Command
  <2>7. Run(r, commands, 0)
    BY <1>2
  <2> HIDE DEF commands, r
  <2>8. DropsFit(items, commands)
    BY <2>6 DEF DropsFit, Hides
  <2>9. PlanFits(items, commands)
    BY <2>6, <2>8, RemovingFits
  <2>10. QED
    BY <2>7, <2>9, RunKeepsTree
<1>3. QED
  BY <1>1, <1>2 DEF Download

\* ---------------------------------------------------------------------
\* New folders.

LEMMA FolderShape ==
  ASSUME NEW u, NEW name, NEW parent
  PROVE  /\ Len(CreateFolder(u, name, parent)) = 3
         /\ CreateFolder(u, name, parent)[1].act = "register"
         /\ CreateFolder(u, name, parent)[1].uuid = u
         /\ CreateFolder(u, name, parent)[1].entry = [name |-> name, parent |-> parent, kind |-> "folder"]
         /\ CreateFolder(u, name, parent)[2].act = "put"
         /\ CreateFolder(u, name, parent)[3].act = "put"
<1> DEFINE plan == CreateFolder(u, name, parent)
           entry == [name |-> name, parent |-> parent, kind |-> "folder"]
           c == Register(u, entry)
           d == Put(u, "content")
           e == Put(u, "pagedata")
<1>1. plan = <<c, d, e>>
  BY DEF CreateFolder
<1> HIDE DEF entry
<1>2. c = [act |-> "register", uuid |-> u, part |-> "metadata", from |-> Stop, entry |-> entry]
  BY DEF Register, Command
<1>3. d.act = "put" /\ e.act = "put"
  BY DEF Put, Command
<1> HIDE DEF plan, c, d, e
<1>4. Len(plan) = 3 /\ plan[1] = c /\ plan[2] = d /\ plan[3] = e
  BY <1>1
<1>5. c.act = "register" /\ c.uuid = u /\ c.entry = entry
  BY <1>2
<1>6. QED
  BY <1>3, <1>4, <1>5 DEF plan, entry

\* Uuids are positive numbers, and the special parents are none.
LEMMA ItemUuids ==
  ASSUME NEW items, IsListing(items)
  PROVE  /\ \A u \in DOMAIN items : u \in Nat /\ u > 0 /\ u # Stop
         /\ \A u \in DOMAIN items \cup {Root, Trash} : u \in Int
         /\ \A first \in Nat : first >= 1 => Root < first /\ Trash < first
<1>1. \A u \in DOMAIN items : u \in Nat /\ u > 0 /\ u # Stop
  BY UuidFacts DEF IsListing
<1>2. Root \in Int /\ Trash \in Int /\ \A first \in Nat : first >= 1 => Root < first /\ Trash < first
  BY DEF Root, Trash
<1>3. QED
  BY <1>1, <1>2

\* What mkdir_path creates: the missing folders, each below the one before.
NewFolders(path, known, p, first) ==
  FlattenSeq([k \in 1..Len(path) - known |->
                CreateFolder(first + k - 1, path[known + k],
                             IF k = 1 THEN p ELSE first + k - 2)])

LEMMA FoldersFit ==
  ASSUME NEW items, IsListing(items), TreeOK(items), NEW path \in Seq(Names),
         NEW known \in 0..Len(path), NEW new, new = Len(path) - known,
         NEW p \in Homes(items), new > 0 => NoConflict(items, p, path[known + 1], Stop),
         NEW first \in Nat, first >= 1, first + new <= NumItems + 1, \A u \in DOMAIN items : u < first,
         NEW plan, plan = NewFolders(path, known, p, first)
  PROVE  PlanFits(items, plan)
<1> DEFINE below(k) == IF k = 1 THEN p ELSE first + k - 2
           entry(k) == [name |-> path[known + k], parent |-> below(k), kind |-> "folder"]
           seqs == [k \in 1..new |-> CreateFolder(first + k - 1, path[known + k], below(k))]
<1>1. new \in Nat /\ Len(path) \in Nat /\ known \in Nat
  OBVIOUS
<1>2. p < first /\ p \in Int /\ p \in Uuids \cup {Root}
  <2>1. p \in DOMAIN items \/ p = Root
    BY DEF Homes
  <2>2. p \in Int /\ p < first
    BY <2>1, ItemUuids
  <2>3. p \in Uuids \cup {Root}
    BY <2>1 DEF IsListing
  <2>4. QED
    BY <2>2, <2>3
<1>3. \A j, k \in 1..new : below(j) = below(k) => j = k
  BY <1>1, <1>2
<1>4. PICK at : Laid(plan, seqs, new, at)
  <2>1. ASSUME NEW k \in 1..new PROVE seqs[k] \in Seq(Commands)
    <3> DEFINE u == first + k - 1
               b == below(k)
               name == path[known + k]
    <3>1. u \in Uuids
      BY <1>1, UuidFacts DEF Uuids
    <3>2. name \in Names
      <4>1. known + k \in 1..Len(path)
        BY <1>1
      <4>2. QED
        BY <4>1
    <3>3. b \in Uuids \cup {Root}
      <4>1. k # 1 => first + k - 2 \in Uuids
        BY <1>1, UuidFacts DEF Uuids
      <4>2. QED
        BY <1>2, <4>1
    <3>4. seqs[k] = CreateFolder(u, name, b)
      OBVIOUS
    <3> HIDE DEF u, b, name, seqs
    <3>5. CreateFolder(u, name, b) \in Safe({"register", "put"}, Uuids, "mkdir")
      BY <3>1, <3>2, <3>3, FolderIsSafe
    <3>6. QED
      BY <3>4, <3>5 DEF Safe
  <2>2. plan = FlattenSeq(seqs) /\ seqs = [k \in 1..new |-> seqs[k]]
    BY DEF NewFolders
  <2> HIDE DEF seqs
  <2>3. seqs \in [1..new -> Seq(Commands)]
    BY <2>1, <2>2
  <2>4. \E at : Laid(FlattenSeq(seqs), seqs, new, at)
    BY <1>1, <2>3, PlanIsLaid
  <2>5. QED
    BY <2>2, <2>4
<1>5. ASSUME NEW k \in 1..new
      PROVE  /\ Len(seqs[k]) = 3 /\ seqs[k][1].act = "register"
             /\ seqs[k][1].uuid = first + k - 1 /\ seqs[k][1].entry = entry(k)
             /\ seqs[k][2].act = "put" /\ seqs[k][3].act = "put"
  <2> DEFINE u == first + k - 1
             b == below(k)
             name == path[known + k]
  <2>1. seqs[k] = CreateFolder(u, name, b) /\ entry(k) = [name |-> name, parent |-> b, kind |-> "folder"]
    OBVIOUS
  <2> HIDE DEF b, name, seqs, entry
  <2>2. QED
    BY <2>1, FolderShape DEF u
<1> HIDE DEF seqs
<1>6. \A k \in 1..new : /\ entry(k).name = path[known + k] /\ entry(k).parent = below(k)
                        /\ entry(k).kind = "folder"
  OBVIOUS
<1> HIDE DEF entry
<1>7. ASSUME NEW i \in 1..Len(plan)
      PROVE  \E k \in 1..new :
               \/ plan[i].act = "put"
               \/ /\ i = at[k] + 1 /\ plan[i].act = "register"
                  /\ plan[i].uuid = first + k - 1 /\ plan[i].entry = entry(k)
  <2>1. PICK k \in 1..new : \E m \in 1..Len(seqs[k]) : i = at[k] + m
    BY <1>4 DEF Laid
  <2>2. PICK m \in 1..Len(seqs[k]) : i = at[k] + m
    BY <2>1
  <2>3. plan[i] = seqs[k][m]
    BY <1>4, <2>2 DEF Laid
  <2>4. Len(seqs[k]) = 3
    BY <1>5
  <2>5. m = 1 \/ m = 2 \/ m = 3
    BY <2>4
  <2>6. QED
    BY <1>5, <2>2, <2>3, <2>5
<1>8. ASSUME NEW k \in 1..new, NEW v \in DOMAIN items
      PROVE  items[v].parent # below(k) \/ items[v].name # path[known + k]
  <2>1. CASE k = 1
    <3>1. below(k) = p /\ new > 0 /\ v # Stop
      BY <1>1, <2>1, ItemUuids
    <3>2. QED
      BY <2>1, <3>1, FreeName
  <2>2. CASE k # 1
    <3>1. below(k) >= first
      BY <1>1, <2>2
    <3>2. items[v].parent \in DOMAIN items \cup {Root, Trash}
      BY DEF TreeOK, ParentsOK
    <3>3. items[v].parent < first /\ items[v].parent \in Int
      BY <3>2, ItemUuids
    <3>4. below(k) \in Int
      BY <1>1, <1>2
    <3> HIDE DEF below
    <3>5. QED
      BY <3>1, <3>3, <3>4
  <2>3. QED
    BY <2>1, <2>2
<1>9. ASSUME NEW i \in 1..Len(plan), plan[i].act = "register" PROVE RegisterFits(items, plan, i)
  <2>1. PICK k \in 1..new : i = at[k] + 1 /\ plan[i].uuid = first + k - 1 /\ plan[i].entry = entry(k)
    BY <1>7, <1>9
  <2>2. plan[i].uuid \notin DOMAIN items
    <3>1. first + k - 1 >= first
      BY <1>1
    <3>2. \A u \in DOMAIN items : u < first /\ u \in Int
      BY ItemUuids
    <3>3. QED
      BY <1>1, <2>1, <3>1, <3>2
  <2>3. below(k) \in Homes(items)
        \/ \E j \in 1..i - 1 : /\ plan[j].act = "register" /\ plan[j].uuid = below(k)
                               /\ plan[j].entry.kind = "folder"
    <3>1. CASE k = 1
      BY <3>1
    <3>2. CASE k # 1
      <4> DEFINE l == k - 1
                 j == at[l] + 1
      <4>1. l \in 1..new /\ l < k /\ below(k) = first + l - 1
        BY <1>1, <3>2
      <4> HIDE DEF l
      <4>2. Len(seqs[l]) = 3 /\ 1 \in 1..3
        BY <1>5, <4>1
      <4>3. at[l] \in Nat /\ at[k] \in Nat
        BY <1>4, <4>1 DEF Laid
      <4>4. at[l] + Len(seqs[l]) <= at[k]
        BY <1>4, <4>1 DEF Laid
      <4>5. plan[j] = seqs[l][1]
        BY <1>4, <4>1, <4>2 DEF Laid
      <4>6. j \in 1..i - 1
        <5> DEFINE a == at[l]
                   b == at[k]
        <5>1. a \in Nat /\ b \in Nat /\ a + 3 <= b /\ i = b + 1
          BY <2>1, <4>2, <4>3, <4>4
        <5> HIDE DEF a, b
        <5>2. a + 1 \in 1..i - 1
          BY <5>1
        <5>3. QED
          BY <5>2 DEF a
      <4>7. plan[j].act = "register" /\ plan[j].uuid = first + l - 1 /\ plan[j].entry.kind = "folder"
        BY <1>5, <1>6, <4>1, <4>5
      <4> HIDE DEF j, below
      <4>8. QED
        BY <4>1, <4>6, <4>7
    <3>3. QED
      BY <3>1, <3>2
  <2>4. ASSUME NEW j \in 1..i - 1, plan[j].act = "register"
        PROVE  plan[j].uuid # plan[i].uuid /\ plan[j].entry.parent # plan[i].entry.parent
    <3>1. j \in 1..Len(plan) /\ j # i
      <4>1. Len(plan) \in Nat
        <5>1. at[k] + Len(seqs[k]) <= Len(plan) /\ at[k] \in Nat /\ Len(seqs[k]) = 3
          BY <1>4, <1>5 DEF Laid
        <5>2. plan \in Seq(Commands) \/ i \in 1..Len(plan)
          OBVIOUS
        <5>3. QED
          BY <2>1
      <4>2. QED
        BY <4>1
    <3>2. PICK l \in 1..new : j = at[l] + 1 /\ plan[j].uuid = first + l - 1 /\ plan[j].entry = entry(l)
      BY <1>7, <2>4, <3>1
    <3>3. l # k
      BY <2>1, <3>1, <3>2
    <3>4. below(l) # below(k)
      BY <1>3, <3>3
    <3>5. first + l - 1 # first + k - 1
      BY <1>1, <3>3
    <3> HIDE DEF below
    <3>6. QED
      BY <1>6, <2>1, <3>2, <3>4, <3>5
  <2> HIDE DEF below
  <2>5. plan[i].entry.parent = below(k) /\ plan[i].entry.name = path[known + k]
    BY <1>6, <2>1
  <2>6. QED
    BY <1>8, <2>2, <2>3, <2>4, <2>5 DEF RegisterFits
<1>10. \A i \in 1..Len(plan) : plan[i].act \notin {"write", "drop"}
  BY <1>7
<1>11. QED
  BY <1>9, <1>10, AddingFits DEF RegistersFit

LEMMA MkdirKeepsTree ==
  ASSUME StoreAssumption, StoreInv, StoreInv', NEW path \in NamePaths, NEW at \in FolderRefs,
         Mkdir(path, at)
  PROVE  TreeInv'
<1> DEFINE items == Listing
           parent == ResolveFolderRef(items, at)
           way == MissingFrom(items, parent.uuid, path)
           known == Cardinality({i \in 1..Len(path) : way[i].err = "none"})
           r == [Request("mkdir", {}, at, Same) EXCEPT !.refs = {ByPath(path)}]
           new == Len(path) - known
           p == way[known].uuid
           commands == FlattenSeq([k \in 1..new |->
                         CreateFolder(fresh + k - 1, path[known + k],
                                      IF k = 1 THEN p ELSE fresh + k - 2)])
<1>1. CASE Refuse(r)
  BY <1>1, RefuseKeepsTree
<1>2. CASE /\ parent.err = "none" /\ ~(new > 0 /\ ~NoConflict(items, p, path[known + 1], Stop))
           /\ Run(r, commands, new)
  <2>1. IsListing(items) /\ fresh \in Nat /\ \A u \in DOMAIN items : u < fresh
    BY ListingFacts DEF StoreInv
  <2>2. parent.uuid \in Homes(items)
    BY <1>2, <2>1, RefFacts, ResolvesToFolder
  <2>3. path \in Seq(Names)
    BY RefFacts
  <2>4. known \in 0..Len(path) /\ p \in Homes(items)
    <3>1. known = Known(items, parent.uuid, path)
      BY DEF Known
    <3> HIDE DEF items, parent, known
    <3>2. QED
      BY <2>1, <2>2, <2>3, <3>1, WayExists
  <2>5. fresh >= 1 /\ fresh + new <= NumItems + 1
    <3>1. fresh >= 1
      BY <2>1, UuidFacts DEF StoreInv, TypeOK
    <3>2. QED
      BY <1>2, <3>1 DEF Run
  <2>6. new = Len(path) - known /\ (new > 0 => NoConflict(items, p, path[known + 1], Stop))
    BY <1>2
  <2>7. commands = NewFolders(path, known, p, fresh)
    BY DEF NewFolders
  <2> HIDE DEF items, p, known, new, commands, r
  <2>8. TreeOK(items) => PlanFits(items, commands)
    BY <2>1, <2>3, <2>4, <2>5, <2>6, <2>7, FoldersFit
  <2>9. QED
    BY <1>2, <2>8, RunKeepsTree DEF items
<1>3. QED
  BY <1>1, <1>2 DEF Mkdir

LEMMA StartKeepsTree ==
  ASSUME StoreAssumption, StoreInv, StoreInv', Start
  PROVE  TreeInv'
<1>1. CASE \E path \in NamePaths, at \in FolderRefs : Mkdir(path, at)
  BY <1>1, MkdirKeepsTree
<1>2. CASE \E at \in FolderRefs, name \in Names : Upload(at, name)
  BY <1>2, UploadKeepsTree
<1>3. CASE \E u \in Uuids, at \in FolderRefs, name \in Names :
             CopyOnDevice(u, at, name) \/ MoveDocument(u, at, name)
  BY <1>3, CopyOnDeviceKeepsTree, MoveDocumentKeepsTree
<1>4. CASE \E u \in Uuids : UpdatePayload(u) \/ DeleteDocument(u)
  BY <1>4, UpdatePayloadKeepsTree, DeleteDocumentKeepsTree
<1>5. CASE \E ref \in Refs, at \in FolderRefs : Move(ref, at)
  BY <1>5, MoveKeepsTree
<1>6. CASE \E ref \in Refs, name \in Names : Rename(ref, name)
  BY <1>6, RenameKeepsTree
<1>7. CASE \E refs \in {{ref} : ref \in Refs} \cup Pairs, recursive \in BOOLEAN : Delete(refs, recursive)
  <2>1. PICK refs \in {{ref} : ref \in Refs} \cup Pairs, recursive \in BOOLEAN : Delete(refs, recursive)
    BY <1>7
  <2>2. refs \subseteq Refs
    BY DEF StoreAssumption
  <2>3. QED
    BY <2>1, <2>2, DeleteKeepsTree
<1>8. CASE EmptyTrash
  BY <1>8, EmptyTrashKeepsTree
<1>9. CASE \E ref \in Refs : Download(ref)
  BY <1>9, DownloadKeepsTree
<1>10. QED
  BY <1>1, <1>2, <1>3, <1>4, <1>5, <1>6, <1>7, <1>8, <1>9 DEF Start

LEMMA StepKeepsTree ==
  ASSUME StoreAssumption, StoreInv, StoreInv', TreeInv, [Next]_vars
  PROVE  TreeInv'
<1>1. CASE Start
  BY <1>1, StartKeepsTree
<1>2. CASE Fail
  BY <1>2, FailKeepsTree
<1>3. CASE Tablet
  BY <1>3, TabletKeepsTree
<1>4. CASE PutPart \/ CopyPart \/ RegisterItem \/ ReadMetadata \/ WriteMetadata \/ DropPart \/ FetchItem
  BY <1>4, CommandKeepsTree
<1>5. CASE UNCHANGED vars
  <2>1. calm' = calm /\ before' = before /\ meta' = meta /\ todo' = todo /\ held' = held
    BY <1>5 DEF vars, opVars
  <2>2. Listing' = Listing
    BY <2>1 DEF Listing
  <2>3. QED
    BY <2>1, <2>2 DEF TreeInv, HeldIsNow
<1>6. QED
  BY <1>1, <1>2, <1>3, <1>4, <1>5 DEF Next

\* No operation of the store breaks the tree: stopped after any of its commands,
\* and as long as the tablet is left alone meanwhile, a move, a removal, an
\* upload, a rename or a new folder leaves every parent an existing folder, no
\* item below itself and no two siblings with one name.
THEOREM ForestStays == Spec => []StaysATree
<1>1. Init => TreeInv
  BY StoreAssumption, InitIsTree
<1>2. StoreInv /\ StoreInv' /\ TreeInv /\ [Next]_vars => TreeInv'
  BY StoreAssumption, StepKeepsTree
<1>3. StoreInv /\ TreeInv => StaysATree
  <2>1. SUFFICES ASSUME StoreInv, TreeInv, calm, Sound(before)
                 PROVE  Sound(Listing)
    BY DEF StaysATree
  <2>2. IsListing(Listing)
    BY <2>1, ListingFacts DEF StoreInv
  <2>3. TreeOK(Listing)
    BY <2>1 DEF TreeInv
  <2>4. QED
    BY <2>2, <2>3, SoundIsTree
<1>4. QED
  BY <1>1, <1>2, <1>3, StoreInvariant, PTL DEF Spec
=============================================================================

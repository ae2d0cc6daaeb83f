--------------------------- MODULE PairTableProofs --------------------------
(***************************************************************************)
(* The decision table never tells a run to write a side its mode protects. *)
(***************************************************************************)
EXTENDS PairTable, TLAPS

\* A disposition a run with options o may carry out.
Respects(o, d) ==
  /\ d \in Disposition
  /\ d \in WritesA => CanWriteLocal(o.mode)
  /\ d \in WritesB => CanWriteRemote(o.mode)

LEMMA WinnerType ==
  ASSUME NEW policy \in ConflictPolicy, NEW x \in Int, NEW y \in Int
  PROVE  Winner(policy, x, y) \in {"Nobody", "Local", "Remote"}
  BY DEF Winner, ConflictPolicy

\* A conflict is reported or takes one of its two outcomes.
LEMMA ResolveRespects ==
  ASSUME NEW o \in SyncOptions, NEW x \in Int, NEW y \in Int, NEW c, NEW d,
         Respects(o, c), Respects(o, d)
  PROVE  Respects(o, Resolve(Winner(o.conflict, x, y), c, d))
<1>1. Winner(o.conflict, x, y) \in {"Nobody", "Local", "Remote"}
  BY WinnerType DEF SyncOptions
<1>2. Respects(o, "Conflict")
  BY DEF Respects, Disposition, WritesA, WritesB
<1>3. QED
  BY <1>1, <1>2 DEF Resolve

\* The outcomes that need no permission, and those guarded by one.
LEMMA OutcomesRespect ==
  ASSUME NEW o \in SyncOptions
  PROVE  /\ Respects(o, "None")
         /\ Respects(o, "Forget")
         /\ CanWriteRemote(o.mode) => Respects(o, "CopyToB")
         /\ CanWriteLocal(o.mode) => Respects(o, "CopyToA")
         /\ \A d \in WritesB : Respects(o, Allow(CanWriteRemote(o.mode), d))
         /\ \A d \in WritesA : Respects(o, Allow(CanWriteLocal(o.mode), d))
  BY DEF Respects, Disposition, WritesA, WritesB, Allow

\* One side at least may be written in every mode.
LEMMA SomeSideWritable ==
  ASSUME NEW o \in SyncOptions
  PROVE  /\ ~CanWriteRemote(o.mode) => CanWriteLocal(o.mode)
         /\ ~CanWriteLocal(o.mode) => CanWriteRemote(o.mode)
  BY DEF SyncOptions, Mode, CanWriteLocal, CanWriteRemote

\* decide_pair: "Deletions, like copies, may only write to a destination
\* allowed by the mode" (sync.rs:3204), for every view of the two sides.
THEOREM DecidePairRespects ==
  ASSUME NEW o \in SyncOptions, NEW a \in SideView, NEW b \in SideView,
         NEW mapped \in BOOLEAN
  PROVE  Respects(o, DecidePair(o, a, b, mapped))
<1> USE OutcomesRespect, SomeSideWritable
<1>a. /\ a.present \in BOOLEAN /\ a.changed \in BOOLEAN /\ a.ms \in Int
      /\ b.present \in BOOLEAN /\ b.changed \in BOOLEAN /\ b.ms \in Int
      /\ o.delete \in BOOLEAN
  BY DEF SideView, SyncOptions
<1>d. DeletedMs \in Int
  BY DEF DeletedMs
<1>1. Respects(o, PairBoth(o, a, b))
  <2>1. CASE ~a.changed /\ ~b.changed
    BY <2>1 DEF PairBoth
  <2>2. CASE a.changed /\ ~b.changed
    <3>1. CanWriteLocal(o.mode) =>
            Respects(o, Resolve(Winner(o.conflict, a.ms, b.ms), "None", "CopyToA"))
      BY <1>a, ResolveRespects
    <3>2. QED
      BY <2>2, <3>1 DEF PairBoth
  <2>3. CASE ~a.changed /\ b.changed
    <3>1. CanWriteRemote(o.mode) =>
            Respects(o, Resolve(Winner(o.conflict, a.ms, b.ms), "CopyToB", "None"))
      BY <1>a, ResolveRespects
    <3>2. QED
      BY <2>3, <3>1 DEF PairBoth
  <2>4. CASE a.changed /\ b.changed
    <3>1. Respects(o, Resolve(Winner(o.conflict, a.ms, b.ms),
                              Allow(CanWriteRemote(o.mode), "CopyToB"),
                              Allow(CanWriteLocal(o.mode), "CopyToA")))
      BY <1>a, ResolveRespects DEF WritesA, WritesB
    <3>2. QED
      BY <2>4, <3>1 DEF PairBoth
  <2>5. QED
    BY <1>a, <2>1, <2>2, <2>3, <2>4
<1>2. Respects(o, PairBGone(o, a))
  <2>1. Respects(o, Resolve(Winner(o.conflict, a.ms, DeletedMs),
                            IF CanWriteRemote(o.mode) THEN "CopyToB" ELSE "Forget",
                            Allow(CanWriteLocal(o.mode), "DeleteA")))
    BY <1>a, <1>d, ResolveRespects DEF WritesA
  <2>2. QED
    BY <1>a, <2>1 DEF PairBGone, WritesA, WritesB
<1>3. Respects(o, PairAGone(o, b))
  <2>1. Respects(o, Resolve(Winner(o.conflict, DeletedMs, b.ms),
                            Allow(CanWriteRemote(o.mode), "DeleteB"),
                            IF CanWriteLocal(o.mode) THEN "CopyToA" ELSE "Forget"))
    BY <1>a, <1>d, ResolveRespects DEF WritesB
  <2>2. QED
    BY <1>a, <2>1 DEF PairAGone, WritesA, WritesB
<1>4. Respects(o, PairUnmapped(o, a, b))
  <2>1. Respects(o, Resolve(Winner(o.conflict, a.ms, b.ms),
                            Allow(CanWriteRemote(o.mode), "CopyToB"),
                            Allow(CanWriteLocal(o.mode), "CopyToA")))
    BY <1>a, ResolveRespects DEF WritesA, WritesB
  <2>2. QED
    BY <1>a, <2>1 DEF PairUnmapped, WritesA, WritesB
<1>5. QED
  BY <1>a, <1>1, <1>2, <1>3, <1>4 DEF DecidePair

\* A version of a side that a disposition would destroy must be the archived one.
Spares(d, a, b, mapped) ==
  /\ d \in WritesA /\ a.present => mapped /\ ~a.changed
  /\ d \in WritesB /\ b.present => mapped /\ ~b.changed

\* Under the skip policy ("loses nothing", sync.rs:1047) the table only
\* overwrites or deletes versions the archive already recorded.
THEOREM SkipSparesChanges ==
  ASSUME NEW o \in SyncOptions, NEW a \in SideView, NEW b \in SideView,
         NEW mapped \in BOOLEAN, o.conflict = "Skip"
  PROVE  Spares(DecidePair(o, a, b, mapped), a, b, mapped)
<1>a. /\ a.present \in BOOLEAN /\ a.changed \in BOOLEAN
      /\ b.present \in BOOLEAN /\ b.changed \in BOOLEAN
      /\ o.delete \in BOOLEAN
  BY DEF SideView, SyncOptions
<1>s. \A x, y, c, d : Resolve(Winner(o.conflict, x, y), c, d) = "Conflict"
  BY DEF Resolve, Winner
<1>n. \A d \in {"None", "Forget", "Conflict"} : Spares(d, a, b, mapped)
  BY DEF Spares, WritesA, WritesB
<1>v. \A can, d : Allow(can, d) \in {"None", d}
  BY DEF Allow
<1>1. CASE mapped /\ a.present /\ b.present
  <2>1. ~b.changed => Spares("CopyToB", a, b, mapped)
    BY <1>1 DEF Spares, WritesA, WritesB
  <2>2. ~a.changed => Spares("CopyToA", a, b, mapped)
    BY <1>1 DEF Spares, WritesA, WritesB
  <2>3. Spares(PairBoth(o, a, b), a, b, mapped)
    BY <1>a, <1>s, <1>n, <2>1, <2>2 DEF PairBoth
  <2>4. QED
    BY <1>1, <2>3 DEF DecidePair
<1>2. CASE mapped /\ a.present /\ ~b.present
  <2>1. Spares("CopyToB", a, b, mapped)
    BY <1>2 DEF Spares, WritesA, WritesB
  <2>2. ~a.changed => Spares("DeleteA", a, b, mapped)
    BY <1>2 DEF Spares, WritesA, WritesB
  <2>3. Spares(PairBGone(o, a), a, b, mapped)
    BY <1>a, <1>s, <1>n, <1>v, <2>1, <2>2 DEF PairBGone
  <2>4. QED
    BY <1>2, <2>3 DEF DecidePair
<1>3. CASE mapped /\ ~a.present /\ b.present
  <2>1. Spares("CopyToA", a, b, mapped)
    BY <1>3 DEF Spares, WritesA, WritesB
  <2>2. ~b.changed => Spares("DeleteB", a, b, mapped)
    BY <1>3 DEF Spares, WritesA, WritesB
  <2>3. Spares(PairAGone(o, b), a, b, mapped)
    BY <1>a, <1>s, <1>n, <1>v, <2>1, <2>2 DEF PairAGone
  <2>4. QED
    BY <1>3, <2>3 DEF DecidePair
<1>4. CASE mapped /\ ~a.present /\ ~b.present
  BY <1>4, <1>n DEF DecidePair
<1>5. CASE ~mapped
  <2>1. ~b.present => Spares("CopyToB", a, b, mapped)
    BY <1>5 DEF Spares, WritesA, WritesB
  <2>2. ~a.present => Spares("CopyToA", a, b, mapped)
    BY <1>5 DEF Spares, WritesA, WritesB
  <2>3. Spares(PairUnmapped(o, a, b), a, b, mapped)
    BY <1>a, <1>s, <1>n, <1>v, <2>1, <2>2 DEF PairUnmapped
  <2>4. QED
    BY <1>5, <2>3 DEF DecidePair
<1>6. QED
  BY <1>a, <1>1, <1>2, <1>3, <1>4, <1>5

\* What a disposition carries over or deletes is there.
Supplied(d, a, b) ==
  /\ d \in {"CopyToB", "DeleteA"} => a.present
  /\ d \in {"CopyToA", "DeleteB"} => b.present

LEMMA ResolveSupplied ==
  ASSUME NEW o \in SyncOptions, NEW x \in Int, NEW y \in Int, NEW a, NEW b, NEW c, NEW d,
         Supplied(c, a, b), Supplied(d, a, b)
  PROVE  Supplied(Resolve(Winner(o.conflict, x, y), c, d), a, b)
  BY WinnerType DEF Resolve, Supplied, SyncOptions

\* decide_pair never copies from, or deletes on, a side without the document: the
\* planners read that side's document without looking ("CopyToB requires a
\* document on A", sync.rs:3636).
THEOREM DecidePairIsSupplied ==
  ASSUME NEW o \in SyncOptions, NEW a \in SideView, NEW b \in SideView,
         NEW mapped \in BOOLEAN
  PROVE  Supplied(DecidePair(o, a, b, mapped), a, b)
<1>a. /\ a.present \in BOOLEAN /\ a.changed \in BOOLEAN
      /\ b.present \in BOOLEAN /\ b.changed \in BOOLEAN
      /\ o.delete \in BOOLEAN
  BY DEF SideView, SyncOptions
<1>n. \A d \in {"None", "Forget", "Conflict"} : Supplied(d, a, b)
  BY DEF Supplied
<1>v. \A can, d : Supplied(d, a, b) => Supplied(Allow(can, d), a, b)
  BY DEF Allow, Supplied
<1>l. a.present => Supplied("CopyToB", a, b) /\ Supplied("DeleteA", a, b)
  BY DEF Supplied
<1>r. b.present => Supplied("CopyToA", a, b) /\ Supplied("DeleteB", a, b)
  BY DEF Supplied
<1>w. \A x, y \in Int : \A c, d : Supplied(c, a, b) /\ Supplied(d, a, b) =>
        Supplied(Resolve(Winner(o.conflict, x, y), c, d), a, b)
  BY ResolveSupplied
<1>m. a.ms \in Int /\ b.ms \in Int /\ DeletedMs \in Int
  BY DEF SideView, DeletedMs
<1>1. a.present /\ b.present => Supplied(PairBoth(o, a, b), a, b)
  BY <1>a, <1>n, <1>v, <1>l, <1>r, <1>w, <1>m DEF PairBoth
<1>2. a.present => Supplied(PairBGone(o, a), a, b)
  BY <1>a, <1>n, <1>v, <1>l, <1>w, <1>m DEF PairBGone
<1>3. b.present => Supplied(PairAGone(o, b), a, b)
  BY <1>a, <1>n, <1>v, <1>r, <1>w, <1>m DEF PairAGone
<1>4. Supplied(PairUnmapped(o, a, b), a, b)
  BY <1>a, <1>n, <1>v, <1>l, <1>r, <1>w, <1>m DEF PairUnmapped
<1>5. QED
  BY <1>a, <1>n, <1>1, <1>2, <1>3, <1>4 DEF DecidePair

\* With both sides there, the skip policy carries over only what changed, and it
\* deletes only what is gone from the other side.
LEMMA SkipCarriesChanges ==
  ASSUME NEW o \in SyncOptions, NEW a \in SideView, NEW b \in SideView,
         NEW mapped \in BOOLEAN, o.conflict = "Skip"
  PROVE  LET d == DecidePair(o, a, b, mapped) IN
         /\ d = "CopyToB" /\ mapped /\ b.present => a.changed
         /\ d = "CopyToA" /\ mapped /\ a.present => b.changed
         /\ d = "DeleteA" => ~b.present
         /\ d = "DeleteB" => ~a.present
<1>a. /\ a.present \in BOOLEAN /\ a.changed \in BOOLEAN
      /\ b.present \in BOOLEAN /\ b.changed \in BOOLEAN
      /\ o.delete \in BOOLEAN
  BY DEF SideView, SyncOptions
<1>s. \A x, y, c, d : Resolve(Winner(o.conflict, x, y), c, d) = "Conflict"
  BY DEF Resolve, Winner
<1>v. \A can, d : Allow(can, d) \in {"None", d}
  BY DEF Allow
<1>p. DecidePair(o, a, b, mapped) \in {"CopyToA", "DeleteB"} => b.present
  BY DecidePairIsSupplied DEF Supplied
<1>q. DecidePair(o, a, b, mapped) \in {"CopyToB", "DeleteA"} => a.present
  BY DecidePairIsSupplied DEF Supplied
<1>1. CASE mapped /\ a.present /\ b.present
  BY <1>a, <1>s, <1>1 DEF DecidePair, PairBoth
<1>2. CASE ~mapped /\ a.present /\ b.present
  BY <1>a, <1>s, <1>2 DEF DecidePair, PairUnmapped
<1>3. CASE ~(a.present /\ b.present)
  BY <1>a, <1>p, <1>q, <1>3
<1>4. QED
  BY <1>a, <1>1, <1>2, <1>3

\* When decide_pair must leave both sides equal: two-way with every conflict
\* decided, or one-way from a side that has the document and wins, without --delete.
MirrorsPair(o, a, b) ==
  \/ o.mode = "TwoWay" /\ o.conflict # "Skip"
  \/ o.mode = "Push" /\ o.conflict = "PreferLocal" /\ ~o.delete /\ a.present
  \/ o.mode = "Pull" /\ o.conflict = "PreferRemote" /\ ~o.delete /\ b.present

\* Then it copies, or deletes what the other side has not, or does nothing because
\* both sides are unchanged, or both are gone.
LEMMA DecidePairMirrors ==
  ASSUME NEW o \in SyncOptions, NEW a \in SideView, NEW b \in SideView,
         NEW mapped \in BOOLEAN, MirrorsPair(o, a, b)
  PROVE  LET d == DecidePair(o, a, b, mapped) IN
         \/ d \in {"CopyToA", "CopyToB"}
         \/ d = "DeleteA" /\ ~b.present
         \/ d = "DeleteB" /\ ~a.present
         \/ /\ d \notin {"DeleteA", "DeleteB"}
            /\ \/ ~a.present /\ ~b.present
               \/ mapped /\ a.present /\ b.present /\ ~a.changed /\ ~b.changed
<1>a. /\ a.present \in BOOLEAN /\ a.changed \in BOOLEAN
      /\ b.present \in BOOLEAN /\ b.changed \in BOOLEAN
      /\ o.delete \in BOOLEAN /\ o.mode \in Mode
  BY DEF SideView, SyncOptions
<1>c. \/ o.mode = "TwoWay" /\ CanWriteLocal(o.mode) /\ CanWriteRemote(o.mode)
      \/ o.mode = "Push" /\ ~CanWriteLocal(o.mode) /\ CanWriteRemote(o.mode)
      \/ o.mode = "Pull" /\ CanWriteLocal(o.mode) /\ ~CanWriteRemote(o.mode)
  BY <1>a DEF Mode, CanWriteLocal, CanWriteRemote
<1>w. /\ o.conflict # "Skip" => \A x, y \in Int : Winner(o.conflict, x, y) \in {"Local", "Remote"}
      /\ o.conflict = "PreferLocal" => \A x, y : Winner(o.conflict, x, y) = "Local"
      /\ o.conflict = "PreferRemote" => \A x, y : Winner(o.conflict, x, y) = "Remote"
  BY DEF Winner, SyncOptions, ConflictPolicy
<1>m. a.ms \in Int /\ b.ms \in Int /\ DeletedMs \in Int
  BY DEF SideView, DeletedMs
<1>r. \A c, d : Resolve("Local", c, d) = c /\ Resolve("Remote", c, d) = d
  BY DEF Resolve
<1>1. CASE mapped /\ a.present /\ b.present
  BY <1>a, <1>c, <1>w, <1>m, <1>r, <1>1 DEF DecidePair, PairBoth, MirrorsPair, Allow
<1>2. CASE mapped /\ a.present /\ ~b.present
  BY <1>a, <1>c, <1>w, <1>m, <1>r, <1>2 DEF DecidePair, PairBGone, MirrorsPair, Allow
<1>3. CASE mapped /\ ~a.present /\ b.present
  BY <1>a, <1>c, <1>w, <1>m, <1>r, <1>3 DEF DecidePair, PairAGone, MirrorsPair, Allow
<1>4. CASE mapped /\ ~a.present /\ ~b.present
  BY <1>4 DEF DecidePair
<1>5. CASE ~mapped
  BY <1>a, <1>c, <1>w, <1>m, <1>r, <1>5 DEF DecidePair, PairUnmapped, MirrorsPair, Allow
<1>6. QED
  BY <1>a, <1>1, <1>2, <1>3, <1>4, <1>5
=============================================================================

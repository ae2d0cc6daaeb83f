-------------------------- MODULE ListingCacheProofs --------------------------
(***************************************************************************)
(* The listing cache is coherent and every listing fresh, for any number   *)
(* of processes and files: what is remembered of a file, in the cache or   *)
(* in a listing under way, is no later than the file, so a change of the   *)
(* file that gives it a stat remembered before falls into the second of    *)
(* its last change and blurs the file, unless nothing is remembered.       *)
(***************************************************************************)
EXTENDS ListingCache, TLAPS

\* A file's times and bodies only grow.
Clock ==
  \A n \in Names : /\ file[n].sec <= now /\ file[n].body <= changes
                   /\ file[n].size \in used[n]

\* The stat is one that file n had, and was counted as used if it is of the
\* file's last second.
Known(n, stat) ==
  stat.sec <= file[n].sec /\ (stat.sec = file[n].sec => stat.size \in used[n])

CacheKnown == \A n \in Names : cache[n] # NoEntry => Known(n, cache[n].stat)
ListingsKnown ==
  \A c \in Clients, n \in Names : Listing(c) /\ stats[c][n] # NoStat => Known(n, stats[c][n])

\* While a client that dropped the cache is alone, there is none.
AloneWithoutCache == alone # {} => cache = NoCache

CacheFits ==
  \A n \in Names \ blurred :
    cache[n] # NoEntry /\ cache[n].stat = Stat(file[n]) => cache[n].body = file[n].body

\* The listing of c has the body that it will save for n.
Has(c, n) ==
  stats[c][n] # NoStat /\ (pc[c] = "save" \/ (pc[c] = "fetch" /\ n \notin wanted[c]))

ListingsFit ==
  \A c \in Clients : \A n \in Names \ blurred :
    Has(c, n) /\ stats[c][n] = Stat(file[n]) => bodies[c][n] = file[n].body

CoherentInv ==
  /\ TypeOK /\ Clock /\ CacheKnown /\ ListingsKnown /\ AloneWithoutCache
  /\ CacheFits /\ ListingsFit

\* What a listing has, or may still find in the cache, is no older than its floor.
FloorsAreOld == \A c \in Clients, n \in Names : floor[c][n] <= file[n].body

CacheIsFresh ==
  \A c \in Clients, n \in Names :
    pc[c] = "load" /\ cache[n] # NoEntry /\ cache[n].stat = stats[c][n]
      => cache[n].body >= floor[c][n]

OthersAreFresh ==
  \A c, d \in Clients, n \in Names :
    pc[c] = "load" /\ Has(d, n) /\ stats[d][n] = stats[c][n] => bodies[d][n] >= floor[c][n]

OwnIsFresh ==
  \A c \in Clients, n \in Names :
    \/ pc[c] \in {"load", "save", "listed"}
    \/ pc[c] = "fetch" /\ n \notin wanted[c]
    => bodies[c][n] >= floor[c][n]

FreshInv == FloorsAreOld /\ CacheIsFresh /\ OthersAreFresh /\ OwnIsFresh

-----------------------------------------------------------------------------
\* Types.

LEMMA InitTypes == Init => TypeOK
BY CacheAssumption DEF Init, TypeOK, File, Body, Unlisted, NoBodies, NoCache

LEMMA NextTypes == TypeOK /\ [Next]_vars => TypeOK'
<1> SUFFICES ASSUME TypeOK, [Next]_vars PROVE TypeOK'
  OBVIOUS
<1> USE CacheAssumption DEF TypeOK, clientVars, ghosts, Body, File, StatOf, CachedFile, Stat,
        NoCache, NoBodies, Unlisted, Change, Blurs
<1>1. CASE TabletChanges
  BY <1>1 DEF TabletChanges
<1>2. CASE LateChange
  BY <1>2 DEF LateChange
<1>3. CASE LateLost
  BY <1>3 DEF LateLost
<1>4. CASE Tick
  BY <1>4 DEF Tick
<1>5. ASSUME NEW c \in Clients, BeginChange(c) PROVE TypeOK'
  BY <1>5 DEF BeginChange
<1>6. ASSUME NEW c \in Clients, Write(c) PROVE TypeOK'
  BY <1>6 DEF Write
<1>7. ASSUME NEW c \in Clients, ReplyLost(c) PROVE TypeOK'
  BY <1>7 DEF ReplyLost
<1>8. ASSUME NEW c \in Clients, StatFiles(c) PROVE TypeOK'
  BY <1>8 DEF StatFiles
<1>9. ASSUME NEW c \in Clients, LoadCache(c) PROVE TypeOK'
  <2>1. PICK known \in {cache, NoCache} :
          /\ wanted' = [wanted EXCEPT ![c] = ToFetch(known, stats[c])]
          /\ bodies' = [bodies EXCEPT ![c] =
               [n \in Names |-> IF Retained(known, stats[c], n) THEN known[n].body ELSE @[n]]]
    BY <1>9 DEF LoadCache
  <2>2. ToFetch(known, stats[c]) \subseteq Names
    BY DEF ToFetch
  <2>3. ASSUME NEW n \in Names, Retained(known, stats[c], n) PROVE known[n].body \in Body
    BY <2>1, <2>3 DEF Retained, Unmoved
  <2>4. [n \in Names |-> IF Retained(known, stats[c], n) THEN known[n].body ELSE bodies[c][n]]
          \in [Names -> Body]
    BY <2>3
  <2>5. bodies' \in [Clients -> [Names -> Body]]
    BY <2>1, <2>4
  <2>6. wanted' \in [Clients -> SUBSET Names]
    BY <2>1, <2>2
  <2> QED
    BY <1>9, <2>5, <2>6 DEF LoadCache
<1>10. ASSUME NEW c \in Clients, Fetch(c) PROVE TypeOK'
  <2>1. [n \in Names |-> IF n \in wanted[c] THEN file[n].body ELSE bodies[c][n]]
          \in [Names -> Body]
    OBVIOUS
  <2>2. bodies' \in [Clients -> [Names -> Body]]
    BY <1>10, <2>1 DEF Fetch
  <2> QED
    BY <1>10, <2>2 DEF Fetch
<1>11. ASSUME NEW c \in Clients, Save(c) PROVE TypeOK'
  BY <1>11 DEF Save, FromListing
<1>12. ASSUME NEW c \in Clients, ListFull(c) PROVE TypeOK'
  BY <1>12 DEF ListFull
<1>13. ASSUME NEW c \in Clients, Return(c) PROVE TypeOK'
  BY <1>13 DEF Return
<1>14. CASE UNCHANGED vars
  BY <1>14 DEF vars
<1> QED
  BY <1>1, <1>2, <1>3, <1>4, <1>5, <1>6, <1>7, <1>8, <1>9, <1>10, <1>11,
     <1>12, <1>13, <1>14 DEF Next

-----------------------------------------------------------------------------
\* Coherence.

LEMMA InitCoherent == Init => CoherentInv
<1> SUFFICES ASSUME Init PROVE CoherentInv
  OBVIOUS
<1>1. TypeOK
  BY InitTypes
<1>2. Clock /\ CacheKnown /\ ListingsKnown /\ AloneWithoutCache
  BY <1>1, CacheAssumption
  DEF Init, TypeOK, File, Body, Clock, CacheKnown, ListingsKnown, AloneWithoutCache, NoCache,
      Listing
<1>3. CacheFits /\ ListingsFit
  BY DEF Init, CacheFits, ListingsFit, NoCache, Has
<1> QED
  BY <1>1, <1>2, <1>3 DEF CoherentInv

\* A change keeps what is known known, and fits nothing wrong to a new stat:
\* it is blurred, or there is nothing to fit.
LEMMA ChangeKeeps ==
  ASSUME CoherentInv, NEW n \in Names, NEW there \in BOOLEAN, NEW size \in Sizes,
         NEW hidden \in BOOLEAN, Change(n, there, size), Blurs(n, size, hidden),
         hidden \/ (cache = NoCache /\ \A d \in Clients : ~Listing(d)),
         \A d \in Clients : pc'[d] = pc[d] \/ pc'[d] = "idle",
         UNCHANGED <<now, cache, stats, bodies, wanted>>, alone' \subseteq alone
  PROVE  /\ Clock' /\ CacheKnown' /\ ListingsKnown' /\ AloneWithoutCache'
         /\ CacheFits' /\ ListingsFit'
<1> USE CacheAssumption DEF CoherentInv
<1>1. /\ now \in Nat /\ changes \in Nat /\ now' = now /\ changes' = changes + 1
      /\ file \in [Names -> File] /\ used \in [Names -> SUBSET Sizes]
      /\ file' = [file EXCEPT ![n] = [there |-> there, body |-> changes + 1, sec |-> now,
                                      size |-> size]]
      /\ used' = [used EXCEPT ![n] = IF file[n].sec = now THEN @ \cup {size} ELSE {size}]
  BY DEF TypeOK, Body, Change
<1>2. \A m \in Names : file[m].sec \in Nat /\ file[m].body \in Nat
  BY <1>1 DEF File, Body
<1>3. Clock'
  BY <1>1, <1>2 DEF Clock
<1>4. ASSUME NEW m \in Names, NEW stat \in StatOf, Known(m, stat) PROVE Known(m, stat)'
  <2>1. stat.sec \in Nat
    BY DEF StatOf
  <2>2. CASE m = n
    BY <1>1, <1>2, <1>4, <2>1, <2>2 DEF Clock, Known
  <2>3. CASE m # n
    BY <1>1, <1>4, <2>3 DEF Known
  <2> QED
    BY <2>2, <2>3
<1>5. \A m \in Names : cache[m] # NoEntry => cache[m].stat \in StatOf
  BY DEF TypeOK, CachedFile
<1>6. CacheKnown'
  BY <1>4, <1>5 DEF CacheKnown
<1>7. \A d \in Clients, m \in Names : stats[d][m] # NoStat => stats[d][m] \in StatOf
  BY DEF TypeOK
<1>8. \A d \in Clients : Listing(d)' => Listing(d)
  BY DEF Listing
<1>9. ListingsKnown'
  BY <1>4, <1>7, <1>8 DEF ListingsKnown
<1>10. AloneWithoutCache'
  BY DEF AloneWithoutCache
<1>11. \A m \in Names : m # n => (m \in blurred' <=> m \in blurred) /\ file'[m] = file[m]
  BY <1>1 DEF Blurs
\* A remembered stat that is the new one is one of this second: hidden, and blurred.
<1>12. ASSUME NEW stat \in StatOf, Known(n, stat), stat = Stat(file[n])', hidden
       PROVE  n \in blurred'
  <2>1. stat.sec = now /\ stat.size = size
    BY <1>1, <1>12 DEF Stat
  <2>2. file[n].sec = now /\ size \in used[n]
    BY <1>1, <1>2, <1>12, <2>1 DEF Clock, Known
  <2> QED
    BY <1>12, <2>2 DEF Blurs, SameStat
<1>13. CacheFits'
  <2> SUFFICES ASSUME NEW m \in Names, m \notin blurred', cache[m] # NoEntry,
                      cache[m].stat = Stat(file[m])'
               PROVE  cache[m].body = file'[m].body
    BY DEF CacheFits
  <2>1. CASE m = n
    <3>1. cache[n] # NoEntry /\ cache # NoCache
      BY <2>1 DEF NoCache
    <3> QED
      BY <1>5, <1>12, <2>1, <3>1 DEF CacheKnown
  <2>2. CASE m # n
    BY <1>11, <2>2 DEF CacheFits, Stat
  <2> QED
    BY <2>1, <2>2
<1>14. ListingsFit'
  <2> SUFFICES ASSUME NEW d \in Clients, NEW m \in Names, m \notin blurred', Has(d, m)',
                      stats[d][m] = Stat(file[m])'
               PROVE  bodies[d][m] = file'[m].body
    BY DEF ListingsFit
  <2>1. Has(d, m) /\ Listing(d) /\ stats[d][m] # NoStat
    BY DEF Has, Listing
  <2>2. CASE m = n
    BY <1>7, <1>12, <2>1, <2>2 DEF ListingsKnown
  <2>3. CASE m # n
    BY <1>11, <2>1, <2>3 DEF ListingsFit, Stat
  <2> QED
    BY <2>2, <2>3
<1> QED
  BY <1>3, <1>6, <1>9, <1>10, <1>13, <1>14

\* What a listing keeps instead of fetching it, it has from the cache.
LEMMA LoadTakesCache ==
  ASSUME TypeOK, NEW c \in Clients, LoadCache(c), NEW n \in Names
  PROVE  /\ Has(c, n)' => /\ cache[n] # NoEntry /\ cache[n].stat = stats[c][n]
                          /\ bodies'[c][n] = cache[n].body
         /\ stats[c][n] = NoStat => bodies'[c][n] = bodies[c][n]
<1>1. PICK known \in {cache, NoCache} :
        /\ wanted' = [wanted EXCEPT ![c] = ToFetch(known, stats[c])]
        /\ bodies' = [bodies EXCEPT ![c] =
             [m \in Names |-> IF Retained(known, stats[c], m) THEN known[m].body ELSE @[m]]]
  BY DEF LoadCache
<1>2. UNCHANGED <<cache, stats>> /\ pc'[c] = "fetch"
  BY DEF LoadCache, TypeOK, clientVars
<1>3. bodies'[c][n] = IF Retained(known, stats[c], n) THEN known[n].body ELSE bodies[c][n]
  BY <1>1 DEF TypeOK
<1>4. ASSUME Has(c, n)'
      PROVE  /\ cache[n] # NoEntry /\ cache[n].stat = stats[c][n]
             /\ bodies'[c][n] = cache[n].body
  <2>1. stats[c][n] # NoStat /\ n \notin wanted'[c]
    BY <1>2, <1>4 DEF Has
  <2>2. Retained(known, stats[c], n) /\ Unmoved(known[n], stats[c][n])
    BY <1>1, <2>1 DEF ToFetch, Retained, TypeOK
  <2>3. known = cache
    BY <1>1, <2>2 DEF Unmoved, NoCache
  <2> QED
    BY <1>3, <2>2, <2>3 DEF Unmoved
<1> QED
  BY <1>3, <1>4 DEF Retained

LEMMA NextCoherent == CoherentInv /\ [Next]_vars => CoherentInv'
<1> SUFFICES ASSUME CoherentInv, [Next]_vars PROVE CoherentInv'
  OBVIOUS
<1> DEFINE Facts == /\ Clock /\ CacheKnown /\ ListingsKnown /\ AloneWithoutCache
                    /\ CacheFits /\ ListingsFit
<1> USE DEF clientVars, ghosts
<1>1. TypeOK /\ TypeOK' /\ Facts
  BY NextTypes DEF CoherentInv
<1> SUFFICES Facts'
  BY <1>1 DEF CoherentInv
<1>2. pc \in [Clients -> {"idle", "load", "fetch", "save", "listed", "write", "full"}]
  BY <1>1 DEF TypeOK
<1>3. CASE TabletChanges \/ LateChange
  <2>1. PICK n \in Names, there \in BOOLEAN, size \in Sizes :
          Change(n, there, size) /\ Blurs(n, size, TRUE)
    BY <1>1, <1>3 DEF TabletChanges, LateChange, TypeOK
  <2> QED
    BY <1>3, <2>1, ChangeKeeps DEF TabletChanges, LateChange
<1>4. CASE LateLost \/ UNCHANGED vars
  BY <1>1, <1>4
  DEF LateLost, vars, Clock, CacheKnown, ListingsKnown, AloneWithoutCache, CacheFits,
      ListingsFit, Known, Listing, Has
<1>5. CASE Tick
  <2>1. Clock'
    BY <1>1, <1>5 DEF Tick, Clock, TypeOK, File
  <2> QED
    BY <1>1, <1>5, <2>1
    DEF Tick, CacheKnown, ListingsKnown, AloneWithoutCache, CacheFits, ListingsFit, Known,
        Listing, Has
<1>6. ASSUME NEW c \in Clients, BeginChange(c) \/ ReplyLost(c) \/ ListFull(c) \/ Return(c)
      PROVE  Facts'
  <2>1. /\ pc'[c] \notin {"load", "fetch", "save"}
        /\ UNCHANGED <<now, file, changes, used, blurred>>
        /\ (alone' \subseteq alone /\ cache' = cache) \/ cache' = NoCache
    BY <1>2, <1>6 DEF BeginChange, ReplyLost, ListFull, Return
  <2>2. \A d \in Clients : d # c => pc'[d] = pc[d] /\ stats'[d] = stats[d]
                                    /\ bodies'[d] = bodies[d] /\ wanted'[d] = wanted[d]
    BY <1>1, <1>6 DEF BeginChange, ReplyLost, ListFull, Return, TypeOK
  <2>3. \A n \in Names : cache'[n] # NoEntry => cache'[n] = cache[n]
    BY <2>1 DEF NoCache
  <2>4. Clock' /\ CacheKnown' /\ CacheFits' /\ AloneWithoutCache'
    BY <1>1, <2>1, <2>3 DEF Clock, CacheKnown, CacheFits, AloneWithoutCache, Known
  <2>5. ListingsKnown' /\ ListingsFit'
    BY <1>1, <2>1, <2>2 DEF ListingsKnown, ListingsFit, Listing, Has, Known
  <2> QED
    BY <2>4, <2>5
<1>7. ASSUME NEW c \in Clients, Write(c) PROVE Facts'
  <2>1. PICK there \in BOOLEAN, size \in Sizes :
          /\ Change(target[c], there, size)
          /\ Blurs(target[c], size, c \notin alone \/ \E d \in Clients : Listing(d))
    BY <1>7 DEF Write
  <2>2. c \in alone => cache = NoCache
    BY <1>1 DEF AloneWithoutCache
  <2>3. target[c] \in Names
    BY <1>1 DEF TypeOK
  <2>4. \A d \in Clients : pc'[d] = pc[d] \/ pc'[d] = "idle"
    BY <1>2, <1>7 DEF Write
  <2>5. alone' \subseteq alone /\ UNCHANGED <<now, cache, stats, bodies, wanted>>
    BY <1>7 DEF Write
  <2> DEFINE hidden == c \notin alone \/ \E d \in Clients : Listing(d)
  <2>6. hidden \in BOOLEAN /\ (hidden \/ (cache = NoCache /\ \A d \in Clients : ~Listing(d)))
    BY <2>2
  <2>7. Blurs(target[c], size, hidden)
    BY <2>1
  <2> HIDE DEF hidden
  <2> QED
    BY <2>1, <2>3, <2>4, <2>5, <2>6, <2>7, ChangeKeeps
<1>8. ASSUME NEW c \in Clients, StatFiles(c) PROVE Facts'
  <2>1. /\ UNCHANGED <<now, file, changes, cache, used, blurred, alone>> /\ pc'[c] = "load"
        /\ \A n \in Names : stats'[c][n] # NoStat => stats'[c][n] = Stat(file[n])
    BY <1>1, <1>2, <1>8 DEF StatFiles, TypeOK
  <2>2. \A d \in Clients : d # c => pc'[d] = pc[d] /\ stats'[d] = stats[d]
                                    /\ bodies'[d] = bodies[d] /\ wanted'[d] = wanted[d]
    BY <1>1, <1>8 DEF StatFiles, TypeOK
  <2>3. \A n \in Names : file[n].sec \in Nat
    BY <1>1 DEF TypeOK, File
  <2>4. \A n \in Names : stats'[c][n] # NoStat => Known(n, stats'[c][n])
    <3> SUFFICES ASSUME NEW n \in Names PROVE Known(n, Stat(file[n]))
      BY <2>1
    <3>1. file[n].size \in used[n]
      BY <1>1 DEF Clock
    <3> QED
      BY <2>3, <3>1 DEF Known, Stat
  <2>5. ListingsKnown' /\ ListingsFit'
    BY <1>1, <2>1, <2>2, <2>4 DEF ListingsKnown, ListingsFit, Listing, Has, Known
  <2> QED
    BY <1>1, <2>1, <2>5 DEF Clock, CacheKnown, CacheFits, AloneWithoutCache, Known
<1>9. ASSUME NEW c \in Clients, LoadCache(c) PROVE Facts'
  <2>1. /\ UNCHANGED <<now, file, changes, cache, stats, used, blurred, alone>>
        /\ pc[c] = "load" /\ pc'[c] = "fetch"
    BY <1>2, <1>9 DEF LoadCache
  <2>2. \A d \in Clients : d # c => pc'[d] = pc[d] /\ bodies'[d] = bodies[d]
                                    /\ wanted'[d] = wanted[d]
    BY <1>1, <1>9 DEF LoadCache, TypeOK
  <2>3. ListingsFit'
    BY <1>1, <1>9, <2>1, <2>2, LoadTakesCache DEF ListingsFit, CacheFits, Has
  <2>4. ListingsKnown'
    BY <1>1, <2>1, <2>2 DEF ListingsKnown, Listing, Known
  <2> QED
    BY <1>1, <2>1, <2>3, <2>4 DEF Clock, CacheKnown, CacheFits, AloneWithoutCache, Known
<1>10. ASSUME NEW c \in Clients, Fetch(c) PROVE Facts'
  <2>1. /\ UNCHANGED <<now, file, changes, cache, stats, wanted, used, blurred, alone>>
        /\ pc[c] = "fetch" /\ pc'[c] \in {"save", "full"}
    BY <1>2, <1>10 DEF Fetch
  <2>2. \A d \in Clients : d # c => pc'[d] = pc[d] /\ bodies'[d] = bodies[d]
    BY <1>1, <1>10 DEF Fetch, TypeOK
  <2>3. pc'[c] = "save" => \A n \in Names :
          bodies'[c][n] = IF n \in wanted[c] THEN file[n].body ELSE bodies[c][n]
    BY <1>1, <1>2, <1>10 DEF Fetch, TypeOK
  <2>4. ListingsFit'
    BY <1>1, <2>1, <2>2, <2>3 DEF ListingsFit, Has
  <2>5. ListingsKnown'
    BY <1>1, <2>1, <2>2 DEF ListingsKnown, Listing, Known
  <2> QED
    BY <1>1, <2>1, <2>4, <2>5 DEF Clock, CacheKnown, CacheFits, AloneWithoutCache, Known
<1>11. ASSUME NEW c \in Clients, Save(c) PROVE Facts'
  <2>1. /\ UNCHANGED <<now, file, changes, stats, bodies, wanted, used, blurred>>
        /\ pc[c] = "save" /\ pc'[c] = "listed" /\ alone' = {}
        /\ \A d \in Clients : d # c => pc'[d] = pc[d]
    BY <1>2, <1>11 DEF Save
  <2>2. \A n \in Names :
          \/ cache'[n] = NoEntry \/ cache'[n] = cache[n]
          \/ stats[c][n] # NoStat /\ cache'[n] = [stat |-> stats[c][n], body |-> bodies[c][n]]
    BY <1>11 DEF Save, FromListing
  <2>3. CacheKnown'
    <3> SUFFICES ASSUME NEW n \in Names, cache'[n] # NoEntry PROVE Known(n, cache'[n].stat)
      BY <2>1 DEF CacheKnown, Known
    <3>1. CASE cache'[n] = cache[n]
      BY <1>1, <3>1 DEF CacheKnown
    <3>2. CASE stats[c][n] # NoStat /\ cache'[n] = [stat |-> stats[c][n], body |-> bodies[c][n]]
      <4>1. Known(n, stats[c][n])
        BY <1>1, <2>1, <3>2 DEF ListingsKnown, Listing
      <4>2. cache'[n].stat = stats[c][n]
        BY <3>2
      <4> QED
        BY <4>1, <4>2
    <3> QED
      BY <2>2, <3>1, <3>2
  <2>4. CacheFits'
    <3> SUFFICES ASSUME NEW n \in Names, n \notin blurred, cache'[n] # NoEntry,
                        cache'[n].stat = Stat(file[n])
                 PROVE  cache'[n].body = file[n].body
      BY <2>1 DEF CacheFits, Stat
    <3>1. CASE cache'[n] = cache[n]
      BY <1>1, <3>1 DEF CacheFits
    <3>2. CASE stats[c][n] # NoStat /\ cache'[n] = [stat |-> stats[c][n], body |-> bodies[c][n]]
      BY <1>1, <2>1, <3>2 DEF ListingsFit, Has
    <3> QED
      BY <2>2, <3>1, <3>2
  <2>5. ListingsKnown' /\ ListingsFit'
    BY <1>1, <2>1 DEF ListingsKnown, ListingsFit, Listing, Has, Known
  <2> QED
    BY <1>1, <2>1, <2>3, <2>4, <2>5 DEF Clock, AloneWithoutCache
<1> QED
  BY <1>3, <1>4, <1>5, <1>6, <1>7, <1>8, <1>9, <1>10, <1>11 DEF Next

\* A cached body whose stat is the file's is the file's body, unless the file
\* had two bodies under one stat that nobody dropped the cache for.
THEOREM CacheStaysCoherent == Spec => []CacheCoherent
<1>1. CoherentInv => CacheCoherent
  BY DEF CoherentInv, CacheFits, CacheCoherent
<1> QED
  BY <1>1, InitCoherent, NextCoherent, PTL DEF Spec

-----------------------------------------------------------------------------
\* Freshness.

LEMMA InitFresh == Init => FreshInv
BY CacheAssumption
DEF Init, FreshInv, FloorsAreOld, CacheIsFresh, OthersAreFresh, OwnIsFresh, NoBodies, File, Body

\* A step that neither starts nor advances a listing keeps it.
LEMMA RestKeepsFresh ==
  ASSUME TypeOK, TypeOK', FreshInv,
         \A d \in Clients :
           \/ pc'[d] \in {"idle", "write"}
           \/ /\ pc'[d] = pc[d] /\ stats'[d] = stats[d] /\ bodies'[d] = bodies[d]
              /\ wanted'[d] = wanted[d] /\ floor'[d] = floor[d],
         \A d \in Clients, n \in Names : floor'[d][n] \in {0, floor[d][n]},
         \A n \in Names : cache'[n] \in {NoEntry, cache[n]},
         \A n \in Names : file'[n].body >= file[n].body
  PROVE  FreshInv'
<1>1. \A n \in Names : file[n].body \in Nat /\ file'[n].body \in Nat
  BY CacheAssumption DEF TypeOK, File, Body
<1>2. \A d \in Clients, n \in Names : floor[d][n] \in Nat
  BY CacheAssumption DEF TypeOK, Body
<1>3. FloorsAreOld'
  BY <1>1, <1>2 DEF FreshInv, FloorsAreOld
<1>4. CacheIsFresh'
  BY DEF FreshInv, CacheIsFresh
<1>5. OthersAreFresh' /\ OwnIsFresh'
  BY DEF FreshInv, OthersAreFresh, OwnIsFresh, Has
<1> QED
  BY <1>3, <1>4, <1>5 DEF FreshInv

LEMMA NextFresh == CoherentInv /\ FreshInv /\ [Next]_vars => FreshInv'
<1> SUFFICES ASSUME CoherentInv, FreshInv, [Next]_vars PROVE FreshInv'
  OBVIOUS
<1> USE DEF clientVars, ghosts
<1>1. /\ TypeOK /\ TypeOK' /\ Clock /\ CacheFits /\ ListingsFit
      /\ FloorsAreOld /\ CacheIsFresh /\ OthersAreFresh /\ OwnIsFresh
  BY NextTypes DEF CoherentInv, FreshInv
<1>2. pc \in [Clients -> {"idle", "load", "fetch", "save", "listed", "write", "full"}]
  BY <1>1 DEF TypeOK
<1>3. /\ \A n \in Names : file[n].body \in Nat /\ file[n].body <= changes
      /\ \A c \in Clients, n \in Names : floor[c][n] \in Nat
      /\ \A n \in Names : cache[n] # NoEntry =>
           cache[n].body \in Nat /\ cache[n].stat \in [sec : Nat, size : Nat]
      /\ changes \in Nat
  <2>1. changes \in Nat /\ \A n \in Names : file[n].body \in Nat /\ file[n].body <= changes
    BY <1>1, CacheAssumption DEF TypeOK, File, Body, Clock
  <2>2. \A c \in Clients, n \in Names : bodies[c][n] \in Nat /\ floor[c][n] \in Nat
    BY <1>1, CacheAssumption DEF TypeOK, Body
  <2>3. Sizes \subseteq Nat /\ 0..MaxSec \subseteq Nat /\ Body \subseteq Nat
    BY CacheAssumption DEF Body
  <2>4. \A n \in Names : cache[n] # NoEntry => cache[n] \in CachedFile
    BY <1>1 DEF TypeOK
  <2> QED
    BY <2>1, <2>2, <2>3, <2>4 DEF CachedFile, StatOf
<1>4. \A n, m \in Names, there \in BOOLEAN, size \in Sizes :
        Change(n, there, size) => file'[m].body >= file[m].body
  BY <1>1, <1>3 DEF Change, TypeOK
<1>5. CASE TabletChanges \/ LateChange
  BY <1>1, <1>4, <1>5, RestKeepsFresh DEF TabletChanges, LateChange, TypeOK
<1>6. CASE LateLost \/ Tick \/ UNCHANGED vars
  BY <1>1, <1>3, <1>6, RestKeepsFresh DEF LateLost, Tick, vars
<1>7. ASSUME NEW c \in Clients, BeginChange(c) \/ Write(c) \/ ReplyLost(c) \/ Return(c)
      PROVE  FreshInv'
  <2>1. \A n \in Names : file'[n].body >= file[n].body
    BY <1>1, <1>3, <1>4, <1>7 DEF BeginChange, Write, ReplyLost, Return, TypeOK
  <2>2. \A n \in Names : cache'[n] \in {NoEntry, cache[n]}
    BY <1>7 DEF BeginChange, Write, ReplyLost, Return, NoCache
  <2>3. \A d \in Clients, n \in Names : floor'[d][n] \in {0, floor[d][n]}
    <3> SUFFICES ASSUME NEW d \in Clients, NEW n \in Names PROVE floor'[d][n] \in {0, floor[d][n]}
      OBVIOUS
    <3>1. floor' = floor \/ floor' = [floor EXCEPT ![c] = NoBodies]
      BY <1>7 DEF BeginChange, Write, ReplyLost, Return
    <3>2. floor'[d] = floor[d] \/ floor'[d] = NoBodies
      BY <1>1, <3>1 DEF TypeOK
    <3> QED
      BY <3>2 DEF NoBodies
  <2>4. \A d \in Clients :
          \/ pc'[d] \in {"idle", "write"}
          \/ /\ pc'[d] = pc[d] /\ stats'[d] = stats[d] /\ bodies'[d] = bodies[d]
             /\ wanted'[d] = wanted[d] /\ floor'[d] = floor[d]
    BY <1>1, <1>2, <1>7 DEF BeginChange, Write, ReplyLost, Return, TypeOK
  <2> QED
    BY <1>1, <2>1, <2>2, <2>3, <2>4, RestKeepsFresh
<1>8. ASSUME NEW c \in Clients, StatFiles(c) PROVE FreshInv'
  <2>1. /\ UNCHANGED <<file, cache>> /\ pc'[c] = "load"
        /\ \A n \in Names : /\ stats'[c][n] \in {NoStat, Stat(file[n])}
                            /\ bodies'[c][n] = file[n].body
                            /\ floor'[c][n] = IF n \in blurred THEN 0 ELSE file[n].body
    BY <1>1, <1>2, <1>8 DEF StatFiles, TypeOK
  <2>2. \A d \in Clients : d # c =>
          /\ pc'[d] = pc[d] /\ stats'[d] = stats[d] /\ bodies'[d] = bodies[d]
          /\ wanted'[d] = wanted[d] /\ floor'[d] = floor[d]
    BY <1>1, <1>8 DEF StatFiles, TypeOK
  <2>3. FloorsAreOld'
    BY <1>1, <1>3, <2>1, <2>2 DEF FloorsAreOld
  <2>4. CacheIsFresh'
    <3> SUFFICES ASSUME NEW n \in Names, cache[n] # NoEntry, cache[n].stat = stats'[c][n]
                 PROVE  cache[n].body >= floor'[c][n]
      BY <1>1, <2>1, <2>2 DEF CacheIsFresh
    <3>1. cache[n].stat = Stat(file[n])
      BY <1>3, <2>1, CacheAssumption
    <3> QED
      BY <1>1, <1>3, <2>1, <3>1 DEF CacheFits
  <2>5. OthersAreFresh'
    <3> SUFFICES ASSUME NEW d \in Clients, NEW n \in Names, d # c, Has(d, n),
                        stats[d][n] = stats'[c][n]
                 PROVE  bodies[d][n] >= floor'[c][n]
      BY <1>1, <2>1, <2>2 DEF OthersAreFresh, Has
    <3>1. stats[d][n] = Stat(file[n])
      BY <2>1 DEF Has
    <3>2. bodies[d][n] \in Nat
      BY <1>1, CacheAssumption DEF TypeOK, Body
    <3> QED
      BY <1>1, <1>3, <2>1, <3>1, <3>2 DEF ListingsFit
  <2>6. OwnIsFresh'
    BY <1>1, <1>3, <2>1, <2>2 DEF OwnIsFresh
  <2> QED
    BY <2>3, <2>4, <2>5, <2>6 DEF FreshInv
<1>9. ASSUME NEW c \in Clients, LoadCache(c) PROVE FreshInv'
  <2>1. UNCHANGED <<file, cache, stats, floor>> /\ pc[c] = "load" /\ pc'[c] = "fetch"
    BY <1>2, <1>9 DEF LoadCache
  <2>2. \A d \in Clients : d # c => pc'[d] = pc[d] /\ bodies'[d] = bodies[d]
                                    /\ wanted'[d] = wanted[d]
    BY <1>1, <1>9 DEF LoadCache, TypeOK
  <2>3. FloorsAreOld' /\ CacheIsFresh'
    BY <1>1, <2>1, <2>2 DEF FloorsAreOld, CacheIsFresh
  <2>4. OthersAreFresh'
    BY <1>1, <1>9, <2>1, <2>2, LoadTakesCache DEF OthersAreFresh, CacheIsFresh, Has
  <2>5. OwnIsFresh'
    BY <1>1, <1>9, <2>1, <2>2, LoadTakesCache DEF OwnIsFresh, CacheIsFresh, Has
  <2> QED
    BY <2>3, <2>4, <2>5 DEF FreshInv
<1>10. ASSUME NEW c \in Clients, Fetch(c) PROVE FreshInv'
  <2>1. /\ UNCHANGED <<file, cache, stats, wanted, floor>>
        /\ pc[c] = "fetch" /\ pc'[c] \in {"save", "full"}
    BY <1>2, <1>10 DEF Fetch
  <2>2. \A d \in Clients : d # c => pc'[d] = pc[d] /\ bodies'[d] = bodies[d]
    BY <1>1, <1>10 DEF Fetch, TypeOK
  <2>3. pc'[c] = "save" => \A n \in Names :
          bodies'[c][n] = IF n \in wanted[c] THEN file[n].body ELSE bodies[c][n]
    BY <1>1, <1>2, <1>10 DEF Fetch, TypeOK
  <2>4. FloorsAreOld' /\ CacheIsFresh'
    BY <1>1, <2>1, <2>2 DEF FloorsAreOld, CacheIsFresh
  <2>5. OthersAreFresh'
    BY <1>1, <1>3, <2>1, <2>2, <2>3 DEF OthersAreFresh, FloorsAreOld, Has
  <2>6. OwnIsFresh'
    BY <1>1, <1>3, <2>1, <2>2, <2>3 DEF OwnIsFresh, FloorsAreOld
  <2> QED
    BY <2>4, <2>5, <2>6 DEF FreshInv
<1>11. ASSUME NEW c \in Clients, Save(c) PROVE FreshInv'
  <2>1. /\ UNCHANGED <<file, stats, bodies, wanted, floor>>
        /\ pc[c] = "save" /\ pc'[c] = "listed"
        /\ \A d \in Clients : d # c => pc'[d] = pc[d]
    BY <1>2, <1>11 DEF Save
  <2>2. \A n \in Names :
          \/ cache'[n] = NoEntry \/ cache'[n] = cache[n]
          \/ stats[c][n] # NoStat /\ cache'[n] = [stat |-> stats[c][n], body |-> bodies[c][n]]
    BY <1>11 DEF Save, FromListing
  <2>3. CacheIsFresh'
    <3> SUFFICES ASSUME NEW d \in Clients, NEW n \in Names, d # c, pc[d] = "load",
                        cache'[n] # NoEntry, cache'[n].stat = stats[d][n]
                 PROVE  cache'[n].body >= floor[d][n]
      BY <2>1 DEF CacheIsFresh
    <3>1. CASE cache'[n] = cache[n]
      BY <1>1, <3>1 DEF CacheIsFresh
    <3>2. CASE stats[c][n] # NoStat /\ cache'[n] = [stat |-> stats[c][n], body |-> bodies[c][n]]
      BY <1>1, <2>1, <3>2 DEF OthersAreFresh, Has
    <3> QED
      BY <2>2, <3>1, <3>2
  <2>4. FloorsAreOld' /\ OthersAreFresh' /\ OwnIsFresh'
    BY <1>1, <2>1 DEF FloorsAreOld, OthersAreFresh, OwnIsFresh, Has
  <2> QED
    BY <2>3, <2>4 DEF FreshInv
<1>12. ASSUME NEW c \in Clients, ListFull(c) PROVE FreshInv'
  <2>1. /\ UNCHANGED <<file, cache, stats, wanted, floor>> /\ pc'[c] = "listed"
        /\ \A n \in Names : bodies'[c][n] = file[n].body
        /\ \A d \in Clients : d # c => pc'[d] = pc[d] /\ bodies'[d] = bodies[d]
    BY <1>1, <1>2, <1>12 DEF ListFull, TypeOK
  <2> QED
    BY <1>1, <1>3, <2>1
    DEF FreshInv, FloorsAreOld, CacheIsFresh, OthersAreFresh, OwnIsFresh, Has
<1> QED
  BY <1>5, <1>6, <1>7, <1>8, <1>9, <1>10, <1>11, <1>12 DEF Next

\* A listing returns no body older than the one its file had when it began, for
\* every number of processes, files and changes.
THEOREM ListingsStayFresh == Spec => []ListingIsFresh
<1>1. FreshInv => ListingIsFresh
  BY DEF FreshInv, OwnIsFresh, ListingIsFresh
<1>2. Init => CoherentInv /\ FreshInv
  BY InitCoherent, InitFresh
<1>3. CoherentInv /\ FreshInv /\ [Next]_vars => (CoherentInv /\ FreshInv)'
  BY NextCoherent, NextFresh
<1> QED
  BY <1>1, <1>2, <1>3, PTL DEF Spec

\* The variables keep their types: in particular a cache entry is saved only for
\* a file that the listing's first round trip saw.
THEOREM TypeCorrect == Spec => []TypeOK
BY InitTypes, NextTypes, PTL DEF Spec
=============================================================================

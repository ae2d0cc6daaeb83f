----------------------------- MODULE ListingCache ----------------------------
(***************************************************************************)
(* The incremental listing and its cache (client.rs): rmu processes that   *)
(* share one cache file list the tablet and change it, while the tablet    *)
(* rewrites its own files.                                                 *)
(*                                                                         *)
(* A file of the tablet is [there, body, sec, size]: its body is the       *)
(* number of the change that made it, sec and size are what stat returns.  *)
(* The cache has, per name, the stat it was saved under and a body.        *)
(*                                                                         *)
(* A listing is stat, load, fetch, save, each of them atomic: one remote   *)
(* command or one local file.  A change is: drop the cache, then one       *)
(* remote command, whose reply may be lost and which may then run late.    *)
(*                                                                         *)
(* Bounds: MaxChanges changes of files, MaxSec seconds.                    *)
(***************************************************************************)
EXTENDS Naturals

CONSTANTS
  Clients,     \* rmu processes of one user
  Names,       \* the .metadata and .content files
  Sizes,       \* the lengths a file can have
  MaxChanges,  \* bound on changes of files
  MaxSec,      \* bound on the clock
  NoEntry,     \* the name is not in the cache
  NoStat       \* the file was not there for stat

ASSUME CacheAssumption ==
  /\ Clients # {} /\ Names # {} /\ Sizes \subseteq Nat /\ Sizes # {}
  /\ MaxChanges \in Nat /\ MaxSec \in Nat
  /\ NoEntry \notin [stat : [sec : Nat, size : Nat], body : Nat]
  /\ NoStat \notin [sec : Nat, size : Nat]

VARIABLES
  now,       \* the tablet's clock, in seconds
  file,      \* the files of the tablet
  changes,   \* changes of files so far
  cache,     \* the cache file: its entries, or NoCache
  pc,        \* where each client is
  stats,     \* what the first round trip of a listing returned
  bodies,    \* the bodies a listing has, retained or fetched
  wanted,    \* the names whose bodies it must fetch
  target,    \* the file a client changes
  flying,    \* remote commands whose reply was lost and that have not run yet
  used,      \* ghost: sizes each file has had in the second of its last change
  blurred,   \* ghost: files that had two bodies under one stat (see Blurs)
  alone,     \* ghost: clients since whose BeginChange nobody saved a listing
  floor      \* ghost: the oldest body each listing may return

clientVars == <<pc, stats, bodies, wanted, target>>
ghosts == <<used, blurred, alone, floor>>
vars == <<now, file, changes, cache, clientVars, flying, ghosts>>

Body == 0..MaxChanges
File == [there : BOOLEAN, body : Body, sec : 0..MaxSec, size : Sizes]
Stat(f) == [sec |-> f.sec, size |-> f.size]
StatOf == [sec : 0..MaxSec, size : Sizes]
CachedFile == [stat : StatOf, body : Body]
Unlisted == [n \in Names |-> NoStat]
NoBodies == [n \in Names |-> 0]
NoCache == [n \in Names |-> NoEntry]

TypeOK ==
  /\ now \in 0..MaxSec /\ changes \in Body
  /\ file \in [Names -> File]
  /\ cache \in [Names -> CachedFile \cup {NoEntry}]
  /\ pc \in [Clients -> {"idle", "load", "fetch", "save", "listed", "write", "full"}]
  /\ stats \in [Clients -> [Names -> StatOf \cup {NoStat}]]
  /\ bodies \in [Clients -> [Names -> Body]]
  /\ wanted \in [Clients -> SUBSET Names]
  /\ target \in [Clients -> Names]
  /\ flying \subseteq Names
  /\ used \in [Names -> SUBSET Sizes] /\ blurred \subseteq Names
  /\ alone \subseteq Clients
  /\ floor \in [Clients -> [Names -> Body]]

Init ==
  /\ now = 0 /\ changes = 0
  /\ file \in [Names -> {f \in File : f.body = 0 /\ f.sec = 0}]
  /\ cache = NoCache
  /\ pc = [c \in Clients |-> "idle"]
  /\ stats = [c \in Clients |-> Unlisted]
  /\ bodies = [c \in Clients |-> NoBodies]
  /\ wanted = [c \in Clients |-> {}]
  /\ target = [c \in Clients |-> CHOOSE n \in Names : TRUE]
  /\ flying = {}
  /\ used = [n \in Names |-> {file[n].size}] /\ blurred = {} /\ alone = {}
  /\ floor = [c \in Clients |-> NoBodies]
-----------------------------------------------------------------------------
(* The pure part.                                                          *)

\* Mutant of Unmoved: only the length of the file is compared.
UnmovedBySize(entry, stat) == entry # NoEntry /\ entry.stat.size = stat.size

\* A cached body is reused while stat returns what it was saved under.
Unmoved(entry, stat) == entry # NoEntry /\ entry.stat = stat

\* listing_delta: the names to fetch; the others keep their cached body.
ToFetch(known, stat) ==
  {n \in Names : stat[n] # NoStat /\ ~Unmoved(known[n], stat[n])}

Retained(known, stat, n) == stat[n] # NoStat /\ Unmoved(known[n], stat[n])

\* Mutant of FromListing: a file that is gone gets an entry too.
FromListingAll(stat, body) == [n \in Names |-> [stat |-> stat[n], body |-> body[n]]]

\* ListingCache::from_listing: every file of the first round trip, under the
\* stat of that round trip, with the body the listing ended up with.
FromListing(stat, body) ==
  [n \in Names |-> IF stat[n] = NoStat THEN NoEntry
                   ELSE [stat |-> stat[n], body |-> body[n]]]

-----------------------------------------------------------------------------
(* Changes of files, and which of them stat cannot tell apart.             *)

Listing(c) == pc[c] \in {"load", "fetch", "save"}

\* The change gives file n a stat it already had in this second.
SameStat(n, size) == file[n].sec = now /\ size \in used[n]

\* File n gets its next body, and is there or not.
Change(n, there, size) ==
  /\ changes < MaxChanges
  /\ changes' = changes + 1
  /\ file' = [file EXCEPT ![n] = [there |-> there, body |-> changes + 1, sec |-> now,
                                  size |-> size]]
  /\ used' = [used EXCEPT ![n] = IF file[n].sec = now THEN @ \cup {size} ELSE {size}]

\* `hidden` is whether nobody dropped the cache for this change.
Blurs(n, size, hidden) ==
  blurred' = IF SameStat(n, size) THEN IF hidden THEN blurred \cup {n} ELSE blurred
             ELSE IF file[n].sec = now THEN blurred ELSE blurred \ {n}

\* The tablet rewrites or removes a file; so does a command that runs late.
TabletChanges ==
  /\ \E n \in Names, there \in BOOLEAN, size \in Sizes :
       Change(n, there, size) /\ Blurs(n, size, TRUE)
  /\ UNCHANGED <<now, cache, clientVars, flying, alone, floor>>

LateChange ==
  /\ \E n \in flying, there \in BOOLEAN, size \in Sizes :
       Change(n, there, size) /\ Blurs(n, size, TRUE) /\ flying' = flying \ {n}
  /\ UNCHANGED <<now, cache, clientVars, alone, floor>>

\* A late command that never runs: the connection was lost before it started.
LateLost ==
  /\ \E n \in flying : flying' = flying \ {n}
  /\ UNCHANGED <<now, file, changes, cache, clientVars, ghosts>>

Tick == /\ now < MaxSec /\ now' = now + 1
        /\ UNCHANGED <<file, changes, cache, clientVars, flying, ghosts>>

-----------------------------------------------------------------------------
(* Changes by a client: write_text, delete_artifacts, restore_bundle.      *)

\* Mutant of BeginChange: the cache is left to the next listing.
BeginChangeKeepsCache(c) ==
  /\ pc[c] = "idle"
  /\ \E n \in Names : target' = [target EXCEPT ![c] = n]
  /\ alone' = alone \cup {c}
  /\ pc' = [pc EXCEPT ![c] = "write"]
  /\ UNCHANGED <<now, file, changes, cache, stats, bodies, wanted, flying, used, blurred, floor>>

\* invalidate_listing_cache, before any I/O.  When the cache file cannot be
\* removed the operation fails and nothing happens.
BeginChange(c) ==
  /\ pc[c] = "idle"
  /\ \E n \in Names : target' = [target EXCEPT ![c] = n]
  /\ cache' = NoCache
  /\ alone' = alone \cup {c}
  /\ pc' = [pc EXCEPT ![c] = "write"]
  /\ UNCHANGED <<now, file, changes, stats, bodies, wanted, flying, used, blurred, floor>>

\* The remote command runs.  Another process may have saved a listing since the
\* cache was dropped, or may be about to save what it saw before the change.
Write(c) ==
  /\ pc[c] = "write"
  /\ \E there \in BOOLEAN, size \in Sizes :
       /\ Change(target[c], there, size)
       /\ Blurs(target[c], size, c \notin alone \/ \E d \in Clients : Listing(d))
  /\ alone' = alone \ {c}
  /\ pc' = [pc EXCEPT ![c] = "idle"]
  /\ UNCHANGED <<now, cache, stats, bodies, wanted, target, flying, floor>>

\* The reply is lost: the operation fails, and the command may still run.
ReplyLost(c) ==
  /\ pc[c] = "write"
  /\ flying' = flying \cup {target[c]}
  /\ pc' = [pc EXCEPT ![c] = "idle"]
  /\ UNCHANGED <<now, file, changes, cache, stats, bodies, wanted, target, ghosts>>

-----------------------------------------------------------------------------
(* A listing: list_items_incremental.                                      *)

\* Round trip 1.
StatFiles(c) ==
  /\ pc[c] = "idle"
  /\ stats' = [stats EXCEPT ![c] =
       [n \in Names |-> IF file[n].there THEN Stat(file[n]) ELSE NoStat]]
  \* A file that is not there contributes nothing to the listing.
  /\ bodies' = [bodies EXCEPT ![c] = [n \in Names |-> file[n].body]]
  /\ floor' = [floor EXCEPT ![c] =
       [n \in Names |-> IF n \in blurred THEN 0 ELSE file[n].body]]
  /\ pc' = [pc EXCEPT ![c] = "load"]
  /\ UNCHANGED <<now, file, changes, cache, wanted, target, flying, used, blurred, alone>>

\* The cache file is read after it; an unreadable one counts as empty.
LoadCache(c) ==
  /\ pc[c] = "load"
  /\ \E known \in {cache, NoCache} :
       /\ wanted' = [wanted EXCEPT ![c] = ToFetch(known, stats[c])]
       /\ bodies' = [bodies EXCEPT ![c] =
            [n \in Names |-> IF Retained(known, stats[c], n) THEN known[n].body ELSE @[n]]]
  /\ pc' = [pc EXCEPT ![c] = "fetch"]
  /\ UNCHANGED <<now, file, changes, cache, stats, target, flying, ghosts>>

\* Round trip 2, skipped when nothing moved.  A wanted file that is gone fails
\* it, and list_items falls back to list_items_full.
Fetch(c) ==
  /\ pc[c] = "fetch"
  /\ IF \A n \in wanted[c] : file[n].there
       THEN /\ bodies' = [bodies EXCEPT ![c] =
                 [n \in Names |-> IF n \in wanted[c] THEN file[n].body ELSE @[n]]]
            /\ pc' = [pc EXCEPT ![c] = "save"]
       ELSE /\ pc' = [pc EXCEPT ![c] = "full"]
            /\ UNCHANGED bodies
  /\ UNCHANGED <<now, file, changes, cache, stats, wanted, target, flying, ghosts>>

\* The refreshed cache replaces the old one, if it can be written.
Save(c) ==
  /\ pc[c] = "save"
  /\ cache' \in {cache, FromListing(stats[c], bodies[c])}
  /\ alone' = {}
  /\ pc' = [pc EXCEPT ![c] = "listed"]
  /\ UNCHANGED <<now, file, changes, stats, bodies, wanted, target, flying, used, blurred, floor>>

\* list_items_full (and list_items_authoritative): every body, no cache.
ListFull(c) ==
  /\ pc[c] = "full"
  /\ bodies' = [bodies EXCEPT ![c] = [n \in Names |-> file[n].body]]
  /\ pc' = [pc EXCEPT ![c] = "listed"]
  /\ UNCHANGED <<now, file, changes, cache, stats, wanted, target, flying, ghosts>>

\* The caller has the items.  A process may also stop anywhere on the way.
Return(c) ==
  /\ pc[c] # "idle"
  /\ pc' = [pc EXCEPT ![c] = "idle"]
  /\ stats' = [stats EXCEPT ![c] = Unlisted]
  /\ bodies' = [bodies EXCEPT ![c] = NoBodies]
  /\ wanted' = [wanted EXCEPT ![c] = {}]
  /\ floor' = [floor EXCEPT ![c] = NoBodies]
  /\ UNCHANGED <<now, file, changes, cache, target, flying, used, blurred, alone>>

Next ==
  \/ TabletChanges \/ LateChange \/ LateLost \/ Tick
  \/ \E c \in Clients :
       \/ BeginChange(c) \/ Write(c) \/ ReplyLost(c)
       \/ StatFiles(c) \/ LoadCache(c) \/ Fetch(c) \/ Save(c) \/ ListFull(c)
       \/ Return(c)

Spec == Init /\ [][Next]_vars
-----------------------------------------------------------------------------
(* Properties.                                                             *)

\* A cached body whose stat is still the file's is the file's body, except for
\* files blurred within a second: no order of listings, invalidations, late
\* writes and changes by others leaves a wrong body behind a current stat.
CacheCoherent ==
  \A n \in Names \ blurred :
    cache[n] # NoEntry /\ file[n].there /\ cache[n].stat = Stat(file[n])
      => cache[n].body = file[n].body

\* A listing never returns a body older than the one the file had when the
\* listing began: in particular a process sees its own changes, also those
\* within the second and the length of the body they replaced.
ListingIsFresh ==
  \A c \in Clients : pc[c] = "listed" => \A n \in Names : bodies[c][n] >= floor[c][n]
=============================================================================

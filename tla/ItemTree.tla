------------------------------ MODULE ItemTree ------------------------------
(***************************************************************************)
(* References, globs and tree checks over one listing (xochitl.rs, and     *)
(* client.rs's deletion_plan): the pure part of the document store.        *)
(*                                                                         *)
(* A listing `items` is a function from uuids to [name, parent, kind].     *)
(* Uuids are positive numbers.  A reference is [uuid, path]: a uuid, or    *)
(* Stop and the segments of a logical path, some of them globs.            *)
(* How a glob segment matches the letters of one name is given by          *)
(* GlobNames.                                                              *)
(***************************************************************************)
EXTENDS Integers, FiniteSets, SequencesExt

CONSTANT GlobNames     \* glob segment -> the names it matches

Root == 0              \* the empty parent
Trash == -1            \* TRASH_PARENT: a parent no item has as its uuid
Stop == -2             \* no uuid

Many == "**"
Glob == DOMAIN GlobNames

ByPath(path) == [uuid |-> Stop, path |-> path]
\* As a path the text of a uuid is one segment, and no item has that name.
ByUuid(uuid) == [uuid |-> uuid, path |-> <<"uuid">>]

Children(items, p) == {u \in DOMAIN items : items[u].parent = p}
Named(items, p, name) == {u \in Children(items, p) : items[u].name = name}
IsFolder(items, u) == items[u].kind = "folder"
-----------------------------------------------------------------------------
(* Walking up and down.                                                    *)

\* ancestor_chain: the uuid, its parent and so on, up to the root or to a
\* parent nobody has; the cap breaks cycles.
Chain(items, start) ==
  LET cap == Cardinality(DOMAIN items)
      at[i \in 0..cap] ==
        IF i = 0 THEN start
        ELSE IF at[i - 1] \in DOMAIN items THEN items[at[i - 1]].parent ELSE Stop
      last == {i \in 0..cap : at[i] \in {Root, Stop}}
  IN [i \in {k \in 0..cap : \A j \in last : k < j} |-> at[i]]

IsDescendant(items, candidate, ancestor) ==
  LET chain == Chain(items, candidate) IN \E i \in DOMAIN chain : chain[i] = ancestor

Depth(items, u) == Cardinality(DOMAIN Chain(items, items[u].parent))

\* build_path: the names on the way up, from the top.
BuildPath(items, u) ==
  LET chain == Chain(items, u)
      up == {i \in DOMAIN chain : chain[i] \in DOMAIN items}
      n == Cardinality(up)
  IN [i \in 1..n |-> items[chain[n - i]].name]

\* The way up ends at the root, not in the trash or on a cycle.
Rooted(items, u) ==
  LET chain == Chain(items, u) IN
  \E i \in DOMAIN chain : chain[i] \in DOMAIN items /\ items[chain[i]].parent = Root

\* descendants: down the children map, level by level.
Descendants(items, p) ==
  LET level[i \in 0..Cardinality(DOMAIN items)] ==
        IF i = 0 THEN Children(items, p) ELSE UNION {Children(items, u) : u \in level[i - 1]}
  IN UNION {level[i] : i \in DOMAIN level}

\* On a cycle of parents the walk does not end, and the program overflows its
\* stack.  Going down, a cycle is only reached from an item on it.
Endless(items, u) == u \in Descendants(items, u)
-----------------------------------------------------------------------------
(* References.                                                             *)

Found(u) == [err |-> "none", uuid |-> u]
Failed(e) == [err |-> e, uuid |-> Stop]

\* At most one item may have a name on a path: nothing is guessed.
TheOnly(uuids) ==
  CASE uuids = {} -> Failed("notfound")
    [] Cardinality(uuids) = 1 -> Found(CHOOSE u \in uuids : TRUE)
    [] Cardinality(uuids) > 1 -> Failed("ambiguous")

\* resolve_item_ref.
ResolveItemRef(items, ref) ==
  LET walk[i \in 0..Len(ref.path)] ==
        IF i = 0 THEN Found(Root)
        ELSE IF walk[i - 1].err # "none" THEN walk[i - 1]
        ELSE TheOnly(Named(items, walk[i - 1].uuid, ref.path[i]))
  IN IF ref.uuid \in DOMAIN items THEN Found(ref.uuid)
     ELSE IF ref.path = <<>> THEN Failed("root")
     ELSE walk[Len(ref.path)]

ResolveFolderRef(items, ref) ==
  LET item == ResolveItemRef(items, ref) IN
  IF ref.path = <<>> THEN Found(Root)
  ELSE IF item.err = "none" /\ ~IsFolder(items, item.uuid) THEN Failed("notafolder")
  ELSE item

SegmentMatch(segment, name) ==
  name = segment \/ (segment \in Glob /\ name \in GlobNames[segment])

\* Mutant of MatchSegments: a trailing ** also matches the folder itself.
MatchSegmentsEmpty(pattern, path) ==
  LET np == Len(pattern)
      nt == Len(path)
      m[i \in 1..np + 1, j \in 1..nt + 1] ==
        IF i > np THEN j > nt
        ELSE IF pattern[i] = Many THEN \E k \in j..nt + 1 : m[i + 1, k]
        ELSE j <= nt /\ SegmentMatch(pattern[i], path[j]) /\ m[i + 1, j + 1]
  IN m[1, 1]

\* match_segments: m[i, j] is whether pattern[i..] matches path[j..].
MatchSegments(pattern, path) ==
  LET np == Len(pattern)
      nt == Len(path)
      m[i \in 1..np + 1, j \in 1..nt + 1] ==
        IF i > np THEN j > nt
        ELSE IF pattern[i] = Many
               THEN IF i = np THEN j <= nt ELSE \E k \in j..nt + 1 : m[i + 1, k]
        ELSE j <= nt /\ SegmentMatch(pattern[i], path[j]) /\ m[i + 1, j + 1]
  IN m[1, 1]

\* resolve_glob: what a walk down from the root meets, folders entered, whose
\* path matches.  The empty set stands for the error.
ResolveGlob(items, pattern) ==
  LET below(at) == {[uuid |-> u, path |-> Append(at.path, items[u].name)] :
                      u \in Children(items, at.uuid)}
      level[i \in 0..Cardinality(DOMAIN items)] ==
        IF i = 0 THEN below([uuid |-> Root, path |-> <<>>])
        ELSE UNION {below(at) : at \in {x \in level[i - 1] : IsFolder(items, x.uuid)}}
  IN {at.uuid : at \in {x \in UNION {level[i] : i \in DOMAIN level} :
                          MatchSegments(pattern, x.path)}}

\* expand_refs, for one reference: the exact item, or else what the glob
\* matches.  The empty set stands for the error.
ExpandRef(items, ref) ==
  LET exact == ResolveItemRef(items, ref) IN
  CASE exact.err = "none" -> {exact.uuid}
    [] exact.err = "notfound" /\ (\E i \in DOMAIN ref.path : ref.path[i] \in Glob) ->
         ResolveGlob(items, ref.path)
    [] OTHER -> {}
-----------------------------------------------------------------------------
(* Checks before a change.                                                 *)

\* find_child among the folders.
FindChildFolder(items, p, name) ==
  TheOnly({u \in Named(items, p, name) : IsFolder(items, u)})

NoConflict(items, p, name, ignore) == Named(items, p, name) \ {ignore} = {}

\* plan_moves: the items that need to move.
NeedMoving(items, uuids, dest) == {u \in uuids : items[u].parent # dest}

\* ... and whether all of them can: not below themselves, and under names that
\* neither the destination nor another moved item has.
MoveAllowed(items, uuids, dest) ==
  \A u \in NeedMoving(items, uuids, dest) :
    /\ u # dest
    /\ IsFolder(items, u) => ~IsDescendant(items, dest, u)
    /\ NoConflict(items, dest, items[u].name, u)
    /\ \A v \in NeedMoving(items, uuids, dest) : v # u => items[v].name # items[u].name

\* Mutant of DeepestFirst: parents go first.
ParentsFirst(items, order) ==
  LET depth == [u \in Range(order) |-> Depth(items, u)] IN
  \A i, j \in DOMAIN order : i < j => depth[order[i]] <= depth[order[j]]

\* deletion_plan: the targets with what is below them, deepest first; among
\* items of one depth the order is that of the listing.
Doomed(items, targets) == targets \cup UNION {Descendants(items, u) : u \in targets}

DeletionAllowed(items, targets, recursive) ==
  recursive \/ \A u \in targets : IsFolder(items, u) => Children(items, u) = {}

DeepestFirst(items, order) ==
  LET depth == [u \in Range(order) |-> Depth(items, u)] IN
  \A i, j \in DOMAIN order : i < j => depth[order[i]] >= depth[order[j]]
=============================================================================

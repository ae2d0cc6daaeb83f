---------------------------- MODULE MCRemoteStore ----------------------------
(* Small instances of RemoteStore: every forest of a folder, an item of any *)
(* kind and a document with a payload, stray and trashed items included.   *)
EXTENDS RemoteStore

CONSTANTS a, b

MCNames == {a, b}
MCGlobNames == [g \in {"*", "**"} |-> MCNames]
MCSegments == {a, b, "*", "**"}
MCPairs == {{ByPath(<<n>>), ByPath(<<"*", m>>)} : n, m \in MCNames}
             \cup {{ByPath(<<n>>), ByUuid(2)} : n \in MCNames}
Symmetric == Permutations(MCNames)

\* The first item is at the top or in the trash, the second at the top or in the
\* first, the third anywhere; the parents make no cycle.
MCTrees ==
  {items \in [1..3 -> [name : MCNames, parent : {Root, Trash, 1, 2}, kind : Kinds]] :
     /\ items[1].kind = "folder" /\ items[3].kind = "payload"
     /\ items[1].parent \in {Root, Trash} /\ items[2].parent \in {Root, 1}
     /\ items[3].parent = 2 => items[2].kind = "folder"}

\* For one of the supplementary runs: nothing is ever below itself.
NeverACycle == \A u \in DOMAIN Listing : ~Endless(Listing, u)
=============================================================================

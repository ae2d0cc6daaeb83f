------------------------------ MODULE DocsPlan ------------------------------
(***************************************************************************)
(* plan_docs: the plan of a tablet <-> tablet sync, from a listing of each *)
(* tablet and the pair-state file (sync.rs).                               *)
(*                                                                         *)
(* A document is [present, key, home, ver, lm]: its logical path, the uuid *)
(* of the folder it is in (0 is the root), the version of its content and  *)
(* its lastModified.  There is one subfolder name; the keys in FolderKeys  *)
(* are documents in it.  A listing is what remote_snapshot keeps of it.    *)
(***************************************************************************)
EXTENDS PairTable, FiniteSets

CONSTANTS
  NumKeys,      \* Logical paths are 1..NumKeys, in the order of the plan's BTreeSet.
  FolderKeys,   \* The keys inside the subfolder.
  NumDocs,      \* Bound on the uuids of documents in use on one tablet.
  NumFolders    \* Bound on the uuids of folders in use on one tablet.

ASSUME DocsPlanAssumption ==
  /\ NumKeys \in Nat \ {0} /\ FolderKeys \subseteq 1..NumKeys
  /\ NumDocs \in Nat /\ NumDocs >= NumKeys
  /\ NumFolders \in Nat \ {0}

Key == 1..NumKeys
DocId == 1..NumDocs
FolderId == 1..NumFolders
Side == {"a", "b"}
Other(s) == IF s = "a" THEN "b" ELSE "a"

-----------------------------------------------------------------------------
\* remote_snapshot: what one tablet shows under the synced root.

\* A document whose folder is gone is reached by no walk from the root.
Reachable(docs, folders) ==
  {u \in DocId : docs[u].present /\ docs[u].home \in folders \cup {0}}

\* Two siblings of one name exclude each other, folders with all they hold.
ExcludedKeys(docs, folders) ==
  LET siblings(k) == {u \in Reachable(docs, folders) : docs[u].key = k} IN
  {k \in Key : \/ k \in FolderKeys /\ Cardinality(folders) > 1
               \/ Cardinality(siblings(k)) > 1}

ListingOf(docs, folders) ==
  LET excluded == ExcludedKeys(docs, folders)
      at(k) == {u \in Reachable(docs, folders) : docs[u].key = k}
      uuid == [k \in Key |-> IF k \in excluded \/ at(k) = {} THEN 0
                                                    ELSE CHOOSE u \in at(k) : TRUE]
  IN [uuid          |-> uuid,
      lm            |-> [k \in Key |-> IF uuid[k] = 0 THEN 0 ELSE docs[uuid[k]].lm],
      excludedKeys  |-> excluded,
      excludedUuids |-> {u \in Reachable(docs, folders) : docs[u].key \in excluded},
      folder        |-> IF Cardinality(folders) = 1 THEN CHOOSE f \in folders : TRUE ELSE 0]

NoListing == [uuid |-> [k \in Key |-> 0], lm |-> [k \in Key |-> 0],
              excludedKeys |-> {}, excludedUuids |-> {}, folder |-> 0]

-----------------------------------------------------------------------------
\* plan_docs.

\* Changed: replaced (another uuid) or modified (another lastModified).
View(s, list, entry, k) ==
  [present |-> list.uuid[k] # 0,
   changed |-> ~entry.mapped \/ entry.uuid[s] # list.uuid[k] \/ entry.lm[s] # list.lm[k],
   ms      |-> list.lm[k]]

\* "Never guess on ambiguity": nothing is planned for a key that is excluded on
\* either tablet, now or under the document its entry names.
Excluded(list, entry, k) ==
  \E s \in Side : \/ k \in list[s].excludedKeys
                  \/ entry.mapped /\ entry.uuid[s] \in list[s].excludedUuids

DispositionOf(o, list, entry, k) ==
  CASE Excluded(list, entry, k) -> "Conflict"
    [] ~entry.mapped /\ \A s \in Side : list[s].uuid[k] = 0 -> "None"
    [] OTHER -> DecidePair(o, View("a", list["a"], entry, k), View("b", list["b"], entry, k),
                           entry.mapped)

\* The side an action writes; a Forget writes none.
Target(op) == IF op \in WritesA THEN "a" ELSE "b"
Copies == {"CopyToA", "CopyToB"}
Deletes == {"DeleteA", "DeleteB"}

Item(op, uuid, lm, replace) == [op |-> op, uuid |-> uuid, lm |-> lm, replace |-> replace]
NoItem == Item("None", 0, 0, 0)

\* A copy names the source document as listed and the document it replaces; a
\* delete names the document to delete.
PlanItem(o, list, entry, k) ==
  LET op == DispositionOf(o, list, entry, k)
      to == Target(op)
      from == Other(to)
  IN CASE op \in Copies  -> Item(op, list[from].uuid[k], list[from].lm[k], list[to].uuid[k])
       [] op \in Deletes -> Item(op, list[to].uuid[k], 0, 0)
       [] OTHER          -> Item(op, 0, 0, 0)

PlanDocs(o, list, entries) == [k \in Key |-> PlanItem(o, list, entries[k], k)]

\* Mutant of FoldersNeeded: a folder that exists on one tablet is not created.
FoldersNeededAnywhere(list, items) ==
  {s \in Side : /\ \A t \in Side : list[t].folder = 0
                /\ \E k \in FolderKeys : items[k].op \in Copies /\ Target(items[k].op) = s}

\* The sides on which a copy needs the subfolder and the listing has none.
FoldersNeeded(list, items) ==
  {s \in Side : /\ list[s].folder = 0
                /\ \E k \in FolderKeys : items[k].op \in Copies /\ Target(items[k].op) = s}
=============================================================================

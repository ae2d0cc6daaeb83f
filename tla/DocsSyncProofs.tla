--------------------------- MODULE DocsSyncProofs ---------------------------
(***************************************************************************)
(* Theorems about DocsSync for every number of documents, every set of     *)
(* options and every bound on edits and interruptions: its types and the   *)
(* shape of a run in progress, the folder a successor goes to, the restart *)
(* of every changed tablet, the source of a one-way run, that matching     *)
(* pair state vouches for the content, and that an undisturbed run leaves  *)
(* both tablets alike; and, while users leave alone what a running plan is *)
(* to write, that the skip policy overwrites nothing new, that no name is  *)
(* given twice, and that no document disappears.                           *)
(***************************************************************************)
EXTENDS DocsSync, PairTableProofs, FiniteSetTheorems

\* ---------------------------------------------------------------------
\* The inductive invariant.

ListingType ==
  [uuid : [Key -> DocId \cup {0}], lm : [Key -> Nat], excludedKeys : SUBSET Key,
   excludedUuids : SUBSET DocId, folder : FolderId \cup {0}]

Copying == phase \in {"fetched", "replaced", "restored"}

\* Where a run is fixes what it has left and what its current action is.
RunShape ==
  /\ listA \in ListingType
  /\ ~Running => plan = NothingPlanned /\ mkdir = {} /\ unseen = {}
  /\ mkdir # {} => phase = "run"
  /\ Copying => CurItem.op \in Copies
  /\ phase = "deleted" => CurItem.op \in Deletes
  /\ phase = "restored" => cur.uuid \in DocId

\* What is planned respects the mode of the run.
PlanRespectsMode == \A k \in Key : Respects(opts, plan[k].op)

\* A document to be copied into the subfolder finds it, or it is about to be made;
\* nothing else makes a folder.
FolderIsPlanned ==
  /\ \A k \in FolderKeys : Running /\ plan[k].op \in Copies =>
       LET to == Target(plan[k].op) IN parent[to] \in FolderId \/ to \in mkdir
  /\ \A s \in mkdir : \E k \in FolderKeys : plan[k].op \in Copies /\ Target(plan[k].op) = s

\* A tablet whose change is not shown yet is remembered as modified, except
\* between the change and its record.
ChangesAreRemembered ==
  unseen \subseteq modified \cup (IF phase \in {"replaced", "restored", "deleted"} THEN {To} ELSE {})

\* No time that was read or recorded is later than the clock of its tablet.
StampsArePast ==
  /\ \A s \in Side, u \in DocId : doc[s][u].lm <= clock[s]
  /\ \A s \in Side, k \in Key : state[k].lm[s] <= clock[s]
  /\ \A k \in Key : listA.lm[k] <= clock["a"]
  /\ \A k \in Key : plan[k].op \in Copies => plan[k].lm <= clock[Other(Target(plan[k].op))]
  /\ phase = "restored" => cur.lm <= clock[To]

\* A source that is still as listed has the content that was fetched, and a
\* successor that is still as restored was given it.
CopyIsTrue ==
  /\ Copying => LET d == doc[Other(To)][CurItem.uuid] IN
                d.present /\ d.lm = CurItem.lm => d.ver = cur.ver
  /\ phase = "restored" => LET d == doc[To][cur.uuid] IN
                           d.present /\ d.lm = cur.lm => d.ver = cur.ver

ProcessInv == TypeOK /\ RunShape /\ PlanRespectsMode /\ FolderIsPlanned /\ ChangesAreRemembered
DocsInv == ProcessInv /\ StampsArePast /\ CopyIsTrue /\ StateVouches

\* ---------------------------------------------------------------------
\* Types of the helpers.

LEMMA NoDocType == NoDoc \in Doc /\ NoEntry \in Entry /\ NoAction \in Action /\ NoListing \in ListingType
  BY DocsPlanAssumption, DocsAssumption
     DEF NoDoc, Doc, NoEntry, Entry, NoAction, Action, NoListing, ListingType, Key, Version, DocId

LEMMA SideFacts ==
  /\ \A op : Target(op) \in Side /\ Other(Target(op)) \in Side
  /\ Other("a") = "b" /\ Other("b") = "a"
  /\ Target("CopyToA") = "a" /\ Target("DeleteA") = "a"
  /\ Target("CopyToB") = "b" /\ Target("DeleteB") = "b"
  BY DEF Target, Other, Side, WritesA

\* remote_snapshot yields a listing, whose times are those of documents.
LEMMA ListingIsTyped ==
  ASSUME NEW docs \in [DocId -> Doc], NEW fs \in SUBSET FolderId
  PROVE  /\ ListingOf(docs, fs) \in ListingType
         /\ \A k \in Key : LET list == ListingOf(docs, fs) IN
              /\ list.uuid[k] = 0 => list.lm[k] = 0
              /\ list.uuid[k] # 0 => /\ docs[list.uuid[k]].present
                                     /\ docs[list.uuid[k]].key = k
                                     /\ list.lm[k] = docs[list.uuid[k]].lm
<1> DEFINE excluded == ExcludedKeys(docs, fs)
           at(k) == {u \in Reachable(docs, fs) : docs[u].key = k}
           uuid == [k \in Key |-> IF k \in excluded \/ at(k) = {} THEN 0
                                                    ELSE CHOOSE u \in at(k) : TRUE]
           folder == IF Cardinality(fs) = 1 THEN CHOOSE f \in fs : TRUE ELSE 0
<1>1. /\ uuid \in [Key -> DocId \cup {0}]
      /\ \A k \in Key : uuid[k] # 0 => uuid[k] \in at(k)
  <2>1. \A k \in Key : at(k) \subseteq DocId
    BY DEF Reachable
  <2>2. ASSUME NEW k \in Key PROVE uuid[k] \in DocId \cup {0} /\ (uuid[k] # 0 => uuid[k] \in at(k))
    <3>1. at(k) # {} => (CHOOSE u \in at(k) : TRUE) \in at(k)
      OBVIOUS
    <3>2. QED
      BY <2>1, <3>1
  <2>3. QED
    BY <2>2
<1>2. \A k \in Key : uuid[k] # 0 => docs[uuid[k]].present /\ docs[uuid[k]].key = k /\ docs[uuid[k]].lm \in Nat
  <2> HIDE DEF uuid
  <2>1. QED
    BY <1>1 DEF Reachable, Doc
<1>3. folder \in FolderId \cup {0}
  <2>1. Cardinality({}) = 0
    BY FS_EmptySet
  <2>2. CASE Cardinality(fs) = 1
    <3>1. fs # {}
      BY <2>1, <2>2
    <3>2. (CHOOSE f \in fs : TRUE) \in fs
      BY <3>1
    <3>3. QED
      BY <2>2, <3>2
  <2>3. QED
    BY <2>2
<1>4. excluded \subseteq Key /\ {u \in Reachable(docs, fs) : docs[u].key \in excluded} \subseteq DocId
  BY DEF ExcludedKeys, Reachable
<1>5. ListingOf(docs, fs) =
        [uuid |-> uuid,
         lm |-> [k \in Key |-> IF uuid[k] = 0 THEN 0 ELSE docs[uuid[k]].lm],
         excludedKeys |-> excluded,
         excludedUuids |-> {u \in Reachable(docs, fs) : docs[u].key \in excluded},
         folder |-> folder]
  BY DEF ListingOf
<1> HIDE DEF uuid, excluded, folder
<1>6. [k \in Key |-> IF uuid[k] = 0 THEN 0 ELSE docs[uuid[k]].lm] \in [Key -> Nat]
  BY <1>1, <1>2
<1>7. QED
  BY <1>1, <1>2, <1>3, <1>4, <1>5, <1>6 DEF ListingType, at

\* ---------------------------------------------------------------------
\* What plan_docs yields.

ItemType == [op : Disposition, uuid : DocId \cup {0}, lm : Nat, replace : DocId \cup {0}]

LEMMA ItemFacts ==
  ASSUME NEW o \in SyncOptions, NEW list \in [Side -> ListingType], NEW entry \in Entry, NEW k \in Key
  PROVE  LET i == PlanItem(o, list, entry, k)
             to == Target(i.op)
         IN /\ i \in ItemType
            /\ Respects(o, i.op)
            /\ i.op = DispositionOf(o, list, entry, k)
            /\ i.op \in Copies => /\ i.uuid \in DocId
                                  /\ i.uuid = list[Other(to)].uuid[k]
                                  /\ i.lm = list[Other(to)].lm[k]
                                  /\ i.replace = list[to].uuid[k]
            /\ i.op \in Deletes => i.uuid \in DocId /\ i.uuid = list[to].uuid[k]
<1> DEFINE a == View("a", list["a"], entry, k)
           b == View("b", list["b"], entry, k)
           d == DispositionOf(o, list, entry, k)
<1>1. \A s \in Side : /\ list[s].uuid[k] \in DocId \cup {0} /\ list[s].lm[k] \in Nat
                      /\ View(s, list[s], entry, k) \in SideView
                      /\ View(s, list[s], entry, k).present = (list[s].uuid[k] # 0)
  BY DEF ListingType, View, SideView, Entry
<1>2. entry.mapped \in BOOLEAN /\ "a" \in Side /\ "b" \in Side
  BY DEF Entry, Side
<1>3. Respects(o, DecidePair(o, a, b, entry.mapped)) /\ Supplied(DecidePair(o, a, b, entry.mapped), a, b)
  BY <1>1, <1>2, DecidePairRespects, DecidePairIsSupplied
<1>4. d \in {"Conflict", "None", DecidePair(o, a, b, entry.mapped)}
  BY DEF DispositionOf
<1>5. /\ Respects(o, d)
      /\ d \in {"CopyToB", "DeleteA"} => list["a"].uuid[k] # 0
      /\ d \in {"CopyToA", "DeleteB"} => list["b"].uuid[k] # 0
  <2>1. Respects(o, "Conflict") /\ Respects(o, "None")
    BY DEF Respects, Disposition, WritesA, WritesB
  <2>2. QED
    BY <1>1, <1>2, <1>3, <1>4, <2>1 DEF Supplied
<1>6. d \in Disposition
  BY <1>5 DEF Respects
<1> HIDE DEF a, b, d
<1>7. CASE d \in Copies
  <2>1. PlanItem(o, list, entry, k) =
          Item(d, list[Other(Target(d))].uuid[k], list[Other(Target(d))].lm[k], list[Target(d)].uuid[k])
    BY <1>7 DEF PlanItem, d, Copies, Deletes
  <2>2. list[Other(Target(d))].uuid[k] # 0
    BY <1>5, <1>7, SideFacts DEF Copies
  <2>3. QED
    BY <1>1, <1>5, <1>6, <1>7, <2>1, <2>2, SideFacts DEF Item, ItemType, Copies, Deletes, d
<1>8. CASE d \in Deletes
  <2>1. PlanItem(o, list, entry, k) = Item(d, list[Target(d)].uuid[k], 0, 0)
    BY <1>8 DEF PlanItem, d, Copies, Deletes
  <2>2. list[Target(d)].uuid[k] # 0
    BY <1>5, <1>8, SideFacts DEF Deletes
  <2>3. QED
    BY <1>1, <1>5, <1>6, <1>8, <2>1, <2>2, SideFacts DEF Item, ItemType, Copies, Deletes, d
<1>9. CASE d \notin Copies \cup Deletes
  <2>1. PlanItem(o, list, entry, k) = Item(d, 0, 0, 0)
    BY <1>9 DEF PlanItem, d
  <2>2. QED
    BY <1>5, <1>6, <1>9, <2>1 DEF Item, ItemType, d
<1>10. QED
  BY <1>7, <1>8, <1>9

\* The listings a plan is made from: tablet b's is taken after tablet a's.
PlanLists == [s \in Side |-> IF s = "a" THEN listA ELSE Listing("b")]

LEMMA ListsAreTyped ==
  ASSUME TypeOK, RunShape
  PROVE  /\ \A s \in Side : Listing(s) \in ListingType
         /\ PlanLists \in [Side -> ListingType]
         /\ PlanLists["a"] = listA /\ PlanLists["b"] = Listing("b")
<1>1. \A s \in Side : Listing(s) \in ListingType
  BY ListingIsTyped DEF Listing, TypeOK
<1>2. QED
  BY <1>1 DEF PlanLists, RunShape, Side

LEMMA MadePlan ==
  ASSUME TypeOK, RunShape, MakePlan
  PROVE  /\ \A k \in Key : plan'[k] = PlanItem(opts, PlanLists, state[k], k)
         /\ plan' \in [Key -> ItemType]
         /\ \A k \in Key : Respects(opts, plan'[k].op)
         /\ \A k \in Key : LET i == plan'[k]
                               to == Target(i.op)
                           IN /\ i.op = DispositionOf(opts, PlanLists, state[k], k)
                              /\ i.op \in Copies => /\ i.uuid \in DocId
                                                    /\ i.uuid = PlanLists[Other(to)].uuid[k]
                                                    /\ i.lm = PlanLists[Other(to)].lm[k]
                                                    /\ i.replace = PlanLists[to].uuid[k]
                              /\ i.op \in Deletes => /\ i.uuid \in DocId
                                                     /\ i.uuid = PlanLists[to].uuid[k]
         /\ mkdir' = FoldersNeeded(PlanLists, plan')
         /\ parent' = [s \in Side |-> PlanLists[s].folder]
<1>1. /\ plan' = [k \in Key |-> PlanItem(opts, PlanLists, state[k], k)]
      /\ mkdir' = FoldersNeeded(PlanLists, plan')
      /\ parent' = [s \in Side |-> PlanLists[s].folder]
  BY DEF MakePlan, PlanLists, PlanDocs
<1>2. opts \in SyncOptions /\ \A k \in Key : state[k] \in Entry
  BY DocsAssumption DEF TypeOK
<1>3. PlanLists \in [Side -> ListingType]
  BY ListsAreTyped
<1>4. QED
  BY <1>1, <1>2, <1>3, ItemFacts

\* ---------------------------------------------------------------------
\* What users and the sync change.

LEMMA EndRunFacts ==
  ASSUME NEW how, EndRun(how)
  PROVE  /\ phase' = how /\ opts' = opts
         /\ listA' = NoListing /\ plan' = NothingPlanned /\ cur' = NoAction
         /\ mkdir' = {} /\ modified' = {} /\ unseen' = {}
         /\ parent' = [s \in Side |-> 0]
  BY DEF EndRun

\* A step leaves a document as it is, removes it, or gives it a time later than
\* any its tablet gave before; clocks do not go back.
LEMMA DocStep ==
  ASSUME TypeOK, RunShape, [Next]_vars, NEW s \in Side, NEW u \in DocId
  PROVE  /\ clock'[s] \in Nat /\ clock[s] \in Nat /\ clock[s] <= clock'[s]
         /\ \/ doc'[s][u] = doc[s][u]
            \/ doc'[s][u] = NoDoc
            \/ doc'[s][u].lm = clock[s] + 1 /\ clock'[s] = clock[s] + 1
<1> USE DEF TypeOK
<1>0. clock[s] \in Nat
  OBVIOUS
<1>1. CASE UNCHANGED tablets
  BY <1>0, <1>1 DEF tablets
<1>2. CASE DeleteReplaced
  BY <1>0, <1>2 DEF DeleteReplaced
<1>3. CASE RestoreBundle
  <2>1. To \in Side
    BY SideFacts DEF To
  <2>2. PICK v \in NewDocIds(To) :
          /\ clock' = [clock EXCEPT ![To] = clock[To] + 1]
          /\ doc' = [doc EXCEPT ![To][v] =
               [present |-> TRUE, key |-> cur.key, home |-> ParentOf(To, cur.key),
                ver |-> cur.ver, lm |-> clock[To] + 1]]
    BY <1>3 DEF RestoreBundle
  <2>3. QED
    BY <1>0, <2>1, <2>2
<1>4. CASE \E k \in Key : DeleteDocument(k)
  BY <1>0, <1>4 DEF DeleteDocument
<1> DEFINE Good == /\ clock'[s] \in Nat /\ clock[s] <= clock'[s]
                   /\ \/ doc'[s][u] = doc[s][u]
                      \/ doc'[s][u] = NoDoc
                      \/ doc'[s][u].lm = clock[s] + 1 /\ clock'[s] = clock[s] + 1
<1>5. ASSUME NEW t \in Side, NEW v \in DocId, Annotate(t, v) PROVE Good
  BY <1>0, <1>5 DEF Annotate, Stamp, Doc
<1>6. ASSUME NEW t \in Side, NEW v \in DocId, Remove(t, v) PROVE Good
  BY <1>0, <1>6 DEF Remove
<1>7. ASSUME NEW t \in Side, NEW v \in DocId, NEW k \in Key, MoveTo(t, v, k) PROVE Good
  BY <1>0, <1>7 DEF MoveTo, Stamp, Doc
<1>8. ASSUME NEW t \in Side, NEW k \in Key, Create(t, k) PROVE Good
  BY <1>0, <1>8 DEF Create, Stamp
<1>9. ASSUME NEW t \in Side, MakeFolder(t) PROVE Good
  BY <1>0, <1>9 DEF MakeFolder
<1>10. ASSUME NEW t \in Side, RemoveFolder(t) PROVE Good
  BY <1>0, <1>10 DEF RemoveFolder
<1>11. CASE UserStep
  BY <1>0, <1>5, <1>6, <1>7, <1>8, <1>9, <1>10, <1>11 DEF UserStep
<1>12. CASE MakePlan \/ Crash \/ RecordCopy \/ RecordDelete \/ Finish
  BY <1>0, <1>12 DEF MakePlan, Crash, RecordCopy, RecordDelete, Finish, Save, tablets
<1>13. CASE \/ \E o \in Options : Scan(o)
            \/ \E t \in Side : CreateFolder(t) \/ Restart(t) \/ RestartFails(t)
  BY <1>0, <1>13 DEF Scan, CreateFolder, Restart, RestartFails, Fail, tablets
<1>14. CASE \E k \in Key : DownloadBundle(k) \/ ForgetEntry(k)
  BY <1>0, <1>14 DEF DownloadBundle, ForgetEntry, Save, Fail, tablets
<1>15. QED
  BY <1>0, <1>1, <1>2, <1>3, <1>4, <1>11, <1>12, <1>13, <1>14
     DEF Next, SyncStep, ExecuteStep, vars

\* What a user does leaves the sync alone.
LEMMA UserFrame ==
  UserStep => /\ UNCHANGED <<state, process, crashes>>
              /\ edits' = edits + 1 /\ quiet' = FALSE
<1>1. \A s \in Side : MakeFolder(s) \/ RemoveFolder(s) => UserDid
  BY DEF MakeFolder, RemoveFolder
<1>2. \A s \in Side, k \in Key : Create(s, k) => UserDid
  BY DEF Create
<1>3. \A s \in Side, u \in DocId : Annotate(s, u) \/ Remove(s, u) => UserDid
  BY DEF Annotate, Remove
<1>4. \A s \in Side, u \in DocId, k \in Key : MoveTo(s, u, k) => UserDid
  BY DEF MoveTo
<1>5. QED
  BY <1>1, <1>2, <1>3, <1>4 DEF UserStep, UserDid

LEMMA UserType == TypeOK /\ UserStep => TypeOK'
<1> SUFFICES ASSUME TypeOK, UserStep PROVE TypeOK'
  OBVIOUS
<1> USE DEF TypeOK
<1> DEFINE Good == /\ doc' \in [Side -> [DocId -> Doc]]
                   /\ folders' \in [Side -> SUBSET FolderId]
                   /\ clock' \in [Side -> Nat]
                   /\ edits' \in 0..MaxEdits /\ live' \subseteq Version /\ wanted' \subseteq Key
                   /\ quiet' \in BOOLEAN
<1>0. /\ edits < MaxEdits => NewVersion \in Version
      /\ edits < MaxEdits => edits + 1 \in 0..MaxEdits
      /\ \A s \in Side : clock[s] + 1 \in Nat
      /\ NoDoc \in Doc
  BY DocsPlanAssumption, DocsAssumption, NoDocType DEF NewVersion, Version
<1>1. ASSUME NEW s \in Side, NEW u \in DocId, Annotate(s, u) PROVE Good
  <2>1. [doc[s][u] EXCEPT !.ver = NewVersion, !.lm = clock[s] + 1] \in Doc
    <3>1. doc[s][u] \in Doc /\ NewVersion \in Version /\ clock[s] + 1 \in Nat
      BY <1>0, <1>1 DEF Annotate, UserMay
    <3>2. QED
      BY <3>1 DEF Doc
  <2>2. QED
    BY <1>0, <1>1, <2>1 DEF Annotate, UserMay, UserDid, Stamp
<1>2. ASSUME NEW s \in Side, NEW u \in DocId, Remove(s, u) PROVE Good
  BY <1>0, <1>2 DEF Remove, UserMay, UserDid
<1>3. ASSUME NEW s \in Side, NEW u \in DocId, NEW k \in Key, MoveTo(s, u, k) PROVE Good
  <2>1. PICK home \in HomesFor(s, k) :
          doc' = [doc EXCEPT ![s][u] =
                    [doc[s][u] EXCEPT !.key = k, !.home = home, !.lm = clock[s] + 1]]
    BY <1>3 DEF MoveTo
  <2>2. home \in FolderId \cup {0}
    BY DEF HomesFor
  <2>3. [doc[s][u] EXCEPT !.key = k, !.home = home, !.lm = clock[s] + 1] \in Doc
    <3>1. doc[s][u] \in Doc /\ clock[s] + 1 \in Nat
      BY <1>0
    <3>2. QED
      BY <2>2, <3>1 DEF Doc
  <2>4. QED
    BY <1>0, <1>3, <2>1, <2>3 DEF MoveTo, UserMay, UserDid, Stamp
<1>4. ASSUME NEW s \in Side, NEW k \in Key, Create(s, k) PROVE Good
  <2>1. PICK u \in NewDocIds(s), home \in HomesFor(s, k) :
          doc' = [doc EXCEPT ![s][u] = [present |-> TRUE, key |-> k, home |-> home,
                                        ver |-> NewVersion, lm |-> clock[s] + 1]]
    BY <1>4 DEF Create
  <2>2. home \in FolderId \cup {0} /\ u \in DocId
    BY DEF HomesFor, NewDocIds
  <2>3. [present |-> TRUE, key |-> k, home |-> home, ver |-> NewVersion, lm |-> clock[s] + 1] \in Doc
    BY <1>0, <1>4, <2>2 DEF Doc, Create, UserMay
  <2>4. QED
    BY <1>0, <1>4, <2>1, <2>2, <2>3 DEF Create, UserMay, UserDid, Stamp
<1>5. ASSUME NEW s \in Side, MakeFolder(s) PROVE Good
  <2>1. PICK f \in NewFolderIds(s) : folders' = [folders EXCEPT ![s] = @ \cup {f}]
    BY <1>5 DEF MakeFolder
  <2>2. f \in FolderId
    BY DEF NewFolderIds
  <2>3. QED
    BY <1>0, <1>5, <2>1, <2>2 DEF MakeFolder, UserMay, UserDid
<1>6. ASSUME NEW s \in Side, RemoveFolder(s) PROVE Good
  <2>1. PICK f \in folders[s] :
          LET inside == {u \in DocId : doc[s][u].present /\ doc[s][u].home = f} IN
          /\ folders' = [folders EXCEPT ![s] = @ \ {f}]
          /\ doc' = [doc EXCEPT ![s] = [u \in DocId |-> IF u \in inside THEN NoDoc ELSE doc[s][u]]]
          /\ live' = live \ UNION {Discarded(doc[s][u].ver) : u \in inside}
          /\ wanted' = wanted \ {doc[s][u].key : u \in inside}
    BY <1>6 DEF RemoveFolder
  <2>2. doc' \in [Side -> [DocId -> Doc]]
    BY <1>0, <2>1
  <2>3. folders' \in [Side -> SUBSET FolderId] /\ live' \subseteq Version /\ wanted' \subseteq Key
    BY <2>1
  <2>4. QED
    BY <1>0, <1>6, <2>2, <2>3 DEF RemoveFolder, UserMay, UserDid
<1>7. Good
  BY <1>1, <1>2, <1>3, <1>4, <1>5, <1>6 DEF UserStep
<1>8. UNCHANGED <<state, process, crashes>>
  BY UserFrame
<1>9. QED
  BY <1>7, <1>8 DEF process

\* ---------------------------------------------------------------------
\* The process invariant.

LEMMA NoPlan ==
  /\ NothingPlanned \in [Key -> ItemType]
  /\ \A k \in Key : NothingPlanned[k] = NoItem
  /\ NoItem.op = "None" /\ NoItem \in ItemType
  /\ "None" \notin Copies \cup Deletes
  /\ \A o \in SyncOptions : Respects(o, "None")
  BY DEF NothingPlanned, NoItem, Item, ItemType, Disposition, Copies, Deletes, Respects,
     WritesA, WritesB

LEMMA InitProcess == Init => ProcessInv
<1> SUFFICES ASSUME Init PROVE ProcessInv
  OBVIOUS
<1> USE DocsPlanAssumption, DocsAssumption
<1>1. PICK onA \in SUBSET Key, onB \in [Key -> InitialDocs] :
       LET held == [s \in Side |-> IF s = "a" THEN onA ELSE {k \in Key : onB[k] # "none"}]
           home(k) == IF k \in FolderKeys THEN 1 ELSE 0
           ver(s, k) == IF s = "b" /\ onB[k] = "own" THEN NumKeys + k ELSE k
       IN /\ doc = [s \in Side |-> [u \in DocId |->
               IF u \in held[s] THEN InitialDoc(u, ver(s, u), home(u)) ELSE NoDoc]]
          /\ folders = [s \in Side |-> IF held[s] \cap FolderKeys = {} THEN {} ELSE {1}]
          /\ wanted = held["a"] \cup held["b"]
          /\ live = {ver(p[1], p[2]) : p \in {h \in Side \X Key : h[2] \in held[h[1]]}}
  BY DEF Init
<1> DEFINE held == [s \in Side |-> IF s = "a" THEN onA ELSE {k \in Key : onB[k] # "none"}]
           home(k) == IF k \in FolderKeys THEN 1 ELSE 0
           ver(s, k) == IF s = "b" /\ onB[k] = "own" THEN NumKeys + k ELSE k
<1>2. held \in [Side -> SUBSET Key]
  OBVIOUS
<1>3. \A s \in Side, k \in Key :
        ver(s, k) \in Version /\ home(k) \in FolderId \cup {0} /\ InitialDoc(k, ver(s, k), home(k)) \in Doc
  BY DEF InitialDoc, Doc, Version, Key, FolderId
<1>4. /\ doc = [s \in Side |-> [u \in DocId |->
               IF u \in held[s] THEN InitialDoc(u, ver(s, u), home(u)) ELSE NoDoc]]
      /\ folders = [s \in Side |-> IF held[s] \cap FolderKeys = {} THEN {} ELSE {1}]
      /\ wanted = held["a"] \cup held["b"]
      /\ live = {ver(p[1], p[2]) : p \in {h \in Side \X Key : h[2] \in held[h[1]]}}
  BY <1>1
<1> HIDE DEF held, home, ver
<1>5. doc \in [Side -> [DocId -> Doc]]
  BY <1>2, <1>3, <1>4, NoDocType
<1>6. folders \in [Side -> SUBSET FolderId]
  BY <1>4 DEF FolderId
<1>7. wanted \subseteq Key /\ live \subseteq Version
  BY <1>2, <1>3, <1>4 DEF Side
<1>8. TypeOK
  <2>1. /\ clock \in [Side -> Nat] /\ state \in [Key -> Entry] /\ cur \in Action
        /\ parent \in [Side -> FolderId \cup {0}]
    BY NoDocType DEF Init
  <2>2. /\ plan \in [Key -> ItemType]
        /\ \A k \in Key : plan[k].op \in Copies \cup Deletes => plan[k].uuid \in DocId
    BY NoPlan DEF Init
  <2>3. edits \in 0..MaxEdits /\ crashes \in 0..MaxCrashes
    BY DEF Init
  <2>4. QED
    BY <1>5, <1>6, <1>7, <2>1, <2>2, <2>3 DEF Init, TypeOK, ItemType
<1>9. RunShape
  BY NoDocType DEF Init, RunShape, Running, Copying
<1>10. PlanRespectsMode
  BY NoPlan DEF Init, PlanRespectsMode
<1>11. FolderIsPlanned /\ ChangesAreRemembered
  BY DEF Init, FolderIsPlanned, ChangesAreRemembered, Running
<1>12. QED
  BY <1>8, <1>9, <1>10, <1>11 DEF ProcessInv

LEMMA EndProcess ==
  ASSUME ProcessInv, NEW how \in {"idle", "done"}, EndRun(how),
         UNCHANGED <<tablets, state, edits, live, wanted>>,
         crashes' \in 0..MaxCrashes, quiet' \in BOOLEAN
  PROVE  ProcessInv'
<1> USE EndRunFacts, NoPlan, NoDocType
<1>1. TypeOK'
  BY DEF ProcessInv, TypeOK, tablets, ItemType
<1>2. RunShape'
  BY DEF RunShape, Running, Copying
<1>3. PlanRespectsMode' /\ FolderIsPlanned' /\ ChangesAreRemembered'
  BY DocsAssumption DEF ProcessInv, TypeOK, PlanRespectsMode, FolderIsPlanned,
     ChangesAreRemembered, Running
<1>4. QED
  BY <1>1, <1>2, <1>3 DEF ProcessInv

LEMMA UserProcess == ProcessInv /\ UserStep => ProcessInv'
<1> SUFFICES ASSUME ProcessInv, UserStep PROVE ProcessInv'
  OBVIOUS
<1>1. TypeOK'
  BY UserType DEF ProcessInv
<1>2. UNCHANGED <<state, process, crashes>>
  BY UserFrame
<1>3. QED
  BY <1>1, <1>2 DEF process, ProcessInv, RunShape, PlanRespectsMode, FolderIsPlanned,
     ChangesAreRemembered, Running, Copying, CurItem, To

LEMMA PlanProcess ==
  ASSUME ProcessInv, (\E o \in Options : Scan(o)) \/ MakePlan
  PROVE  ProcessInv'
<1> USE DEF ProcessInv
<1>1. ASSUME NEW o \in Options, Scan(o) PROVE ProcessInv'
  <2>1. TypeOK'
    BY <1>1 DEF Scan, TypeOK, tablets
  <2>2. listA' \in ListingType
    BY <1>1, ListsAreTyped DEF Scan, Side
  <2>3. RunShape'
    BY <1>1, <2>2 DEF RunShape, Scan, Running, Copying
  <2>4. PlanRespectsMode'
    BY <1>1, NoPlan, DocsAssumption DEF PlanRespectsMode, Scan, RunShape, Running
  <2>5. QED
    BY <1>1, <2>1, <2>3, <2>4 DEF Scan, FolderIsPlanned, ChangesAreRemembered, RunShape, Running
<1>2. CASE MakePlan
  <2>1. /\ plan' \in [Key -> ItemType] /\ mkdir' \subseteq Side
        /\ parent' \in [Side -> FolderId \cup {0}]
        /\ \A k \in Key : plan'[k].op \in Copies \cup Deletes => plan'[k].uuid \in DocId
    BY <1>2, MadePlan, ListsAreTyped DEF FoldersNeeded, ListingType
  <2>2. TypeOK'
    BY <1>2, <2>1 DEF MakePlan, TypeOK, tablets, ghosts, ItemType
  <2>3. RunShape'
    BY <1>2, NoDocType DEF RunShape, MakePlan, Running, Copying
  <2>4. PlanRespectsMode'
    BY <1>2, MadePlan DEF PlanRespectsMode, MakePlan
  <2>5. FolderIsPlanned'
    <3>1. \A s \in Side : PlanLists[s].folder \in FolderId \cup {0} /\ parent'[s] = PlanLists[s].folder
      BY <1>2, MadePlan, ListsAreTyped DEF ListingType
    <3>2. QED
      BY <1>2, <3>1, MadePlan, SideFacts DEF FolderIsPlanned, FoldersNeeded
  <2>6. ChangesAreRemembered'
    BY <1>2 DEF ChangesAreRemembered, MakePlan, RunShape, Running
  <2>7. QED
    BY <2>2, <2>3, <2>4, <2>5, <2>6
<1>3. QED
  BY <1>1, <1>2

\* One step of execute_docs.
LEMMA ExecuteProcess == ProcessInv /\ ExecuteStep => ProcessInv'
<1> SUFFICES ASSUME ProcessInv, ExecuteStep PROVE ProcessInv'
  OBVIOUS
<1> USE DEF ProcessInv
<1> DEFINE Frame == UNCHANGED <<opts, listA, edits, crashes, ghosts>>
<1>1. ASSUME NEW s \in Side, CreateFolder(s) PROVE ProcessInv'
  <2>1. PICK f \in NewFolderIds(s) : /\ folders' = [folders EXCEPT ![s] = @ \cup {f}]
                                     /\ parent' = [parent EXCEPT ![s] = f]
    BY <1>1 DEF CreateFolder
  <2>2. f \in FolderId
    BY DEF NewFolderIds
  <2>3. TypeOK'
    BY <1>1, <2>1, <2>2 DEF CreateFolder, TypeOK, ghosts
  <2>4. RunShape' /\ PlanRespectsMode'
    BY <1>1 DEF CreateFolder, RunShape, PlanRespectsMode, Running, Copying
  <2>5. FolderIsPlanned'
    BY <1>1, <2>1, <2>2, SideFacts DEF CreateFolder, FolderIsPlanned, Running, TypeOK
  <2>6. ChangesAreRemembered'
    BY <1>1 DEF CreateFolder, ChangesAreRemembered
  <2>7. QED
    BY <2>3, <2>4, <2>5, <2>6
<1>2. ASSUME NEW s \in Side, Restart(s) PROVE ProcessInv'
  <2>1. TypeOK'
    BY <1>2 DEF Restart, RestartFails, TypeOK, tablets, ghosts
  <2>2. RunShape' /\ PlanRespectsMode' /\ FolderIsPlanned'
    BY <1>2 DEF Restart, RestartFails, PlanDone, RunShape, PlanRespectsMode, FolderIsPlanned, Running, Copying
  <2>3. ChangesAreRemembered'
    BY <1>2 DEF Restart, RestartFails, PlanDone, ChangesAreRemembered
  <2>4. QED
    BY <2>1, <2>2, <2>3
<1>3. CASE Finish
  BY <1>3, EndProcess DEF Finish, TypeOK, ghosts
<1>4. ASSUME NEW k \in Key, DownloadBundle(k) PROVE ProcessInv'
  <2>1. plan[k].op \in Copies /\ plan[k].uuid \in DocId /\ phase = "run" /\ mkdir = {}
    BY <1>4 DEF DownloadBundle, IsNext, IsFirst, Pending, TypeOK
  <2>2. CASE Fail
    BY <2>2, EndProcess DEF Fail, TypeOK, ghosts
  <2>3. CASE ~Fail
    <3> DEFINE source == doc[Other(Target(plan[k].op))][plan[k].uuid]
    <3>1. /\ Advance("fetched", [NoAction EXCEPT !.key = k, !.ver = source.ver])
          /\ UNCHANGED <<doc, clock, unseen>>
      BY <1>4, <2>3 DEF DownloadBundle
    <3>2. source.ver \in Version
      BY <2>1, SideFacts DEF TypeOK, Doc
    <3>3. cur' \in Action /\ cur'.key = k
      BY <3>1, <3>2, NoDocType DEF Advance, Action
    <3>4. TypeOK'
      BY <3>1, <3>3 DEF Advance, TypeOK, ghosts
    <3>5. RunShape' /\ PlanRespectsMode' /\ FolderIsPlanned' /\ ChangesAreRemembered'
      BY <2>1, <3>1, <3>3 DEF Advance, RunShape, PlanRespectsMode, FolderIsPlanned,
         ChangesAreRemembered, Running, Copying, CurItem
    <3>6. QED
      BY <3>4, <3>5
  <2>4. QED
    BY <2>2, <2>3
<1>5. CASE DeleteReplaced
  <2>1. /\ phase = "fetched" /\ Advance("replaced", cur) /\ UNCHANGED clock
        /\ unseen' \subseteq unseen \cup {To}
        /\ doc' \in [Side -> [DocId -> Doc]]
    BY <1>5, NoDocType DEF DeleteReplaced, TypeOK
  <2>2. To \in Side
    BY SideFacts DEF To
  <2>3. TypeOK'
    BY <2>1, <2>2 DEF Advance, TypeOK, ghosts
  <2>4. RunShape' /\ PlanRespectsMode' /\ FolderIsPlanned' /\ ChangesAreRemembered'
    BY <2>1 DEF Advance, RunShape, PlanRespectsMode, FolderIsPlanned,
       ChangesAreRemembered, Running, Copying, CurItem, To
  <2>5. QED
    BY <2>3, <2>4
<1>6. CASE RestoreBundle
  <2>1. To \in Side /\ clock[To] + 1 \in Nat
    BY SideFacts DEF To, TypeOK
  <2>2. PICK u \in NewDocIds(To) :
          /\ doc' = [doc EXCEPT ![To][u] =
               [present |-> TRUE, key |-> cur.key, home |-> ParentOf(To, cur.key),
                ver |-> cur.ver, lm |-> clock[To] + 1]]
          /\ clock' = [clock EXCEPT ![To] = clock[To] + 1]
          /\ unseen' = unseen \cup {To}
          /\ Advance("restored", [cur EXCEPT !.uuid = u, !.lm = clock[To] + 1])
    BY <1>6 DEF RestoreBundle
  <2>3. u \in DocId /\ ParentOf(To, cur.key) \in FolderId \cup {0}
    BY <2>1 DEF NewDocIds, ParentOf, TypeOK
  <2>4. [present |-> TRUE, key |-> cur.key, home |-> ParentOf(To, cur.key),
         ver |-> cur.ver, lm |-> clock[To] + 1] \in Doc
    BY <2>1, <2>3 DEF Doc, TypeOK, Action
  <2>5. cur' \in Action /\ cur'.key = cur.key /\ cur'.uuid = u
    BY <2>1, <2>2, <2>3 DEF Advance, Action, TypeOK
  <2>6. doc' \in [Side -> [DocId -> Doc]] /\ clock' \in [Side -> Nat]
    BY <2>1, <2>2, <2>3, <2>4 DEF TypeOK
  <2>7. TypeOK'
    BY <2>1, <2>2, <2>5, <2>6 DEF Advance, TypeOK, ghosts
  <2>8. RunShape' /\ PlanRespectsMode' /\ FolderIsPlanned' /\ ChangesAreRemembered'
    BY <1>6, <2>2, <2>3, <2>5 DEF RestoreBundle, Advance, RunShape, PlanRespectsMode,
       FolderIsPlanned, ChangesAreRemembered, Running, Copying, CurItem, To
  <2>9. QED
    BY <2>7, <2>8
<1>7. ASSUME NEW k \in Key, NEW entry \in Entry, Save(k, entry), modified' \in SUBSET Side,
             unseen \subseteq modified', mkdir = {}
      PROVE  ProcessInv'
  <2>1. /\ plan' = [plan EXCEPT ![k] = NoItem] /\ cur' = NoAction /\ phase' = "run"
        /\ state' = [state EXCEPT ![k] = entry]
        /\ UNCHANGED <<tablets, opts, listA, mkdir, parent, unseen, edits, crashes, ghosts>>
    BY <1>7 DEF Save
  <2>2. /\ plan' \in [Key -> ItemType]
        /\ \A j \in Key : plan'[j] = plan[j] \/ plan'[j] = NoItem
    BY <2>1, NoPlan DEF TypeOK, ItemType
  <2>3. TypeOK'
    BY <1>7, <2>1, <2>2, NoPlan, NoDocType DEF TypeOK, tablets, ghosts, ItemType
  <2>4. RunShape'
    BY <1>7, <2>1 DEF RunShape, Running, Copying
  <2>5. PlanRespectsMode'
    BY <2>1, <2>2, NoPlan, DocsAssumption DEF PlanRespectsMode, TypeOK
  <2>6. FolderIsPlanned'
    <3>1. ASSUME NEW j \in FolderKeys, plan'[j].op \in Copies
          PROVE  parent'[Target(plan'[j].op)] \in FolderId \/ Target(plan'[j].op) \in mkdir'
      <4>1. j \in Key
        BY DocsPlanAssumption DEF Key
      <4>2. plan'[j] = plan[j]
        BY <2>2, <3>1, <4>1, NoPlan
      <4>3. Running
        BY <3>1, <4>1, <4>2, NoPlan DEF RunShape
      <4>4. QED
        BY <2>1, <3>1, <4>2, <4>3 DEF FolderIsPlanned
    <3>2. QED
      BY <1>7, <2>1, <3>1 DEF FolderIsPlanned
  <2>7. ChangesAreRemembered'
    BY <1>7, <2>1 DEF ChangesAreRemembered
  <2>8. QED
    BY <2>3, <2>4, <2>5, <2>6, <2>7
<1>8. ASSUME RecordCopy \/ RecordDelete PROVE ProcessInv'
  <2>1. /\ modified' = modified \cup {To} /\ To \in Side /\ mkdir = {}
        /\ unseen \subseteq modified' /\ modified' \in SUBSET Side
    BY <1>8, SideFacts DEF RecordCopy, RecordDelete, To, TypeOK, RunShape, ChangesAreRemembered
  <2>2. cur.key \in Key
    BY DEF TypeOK, Action
  <2>3. CASE RecordDelete
    BY <1>7, <2>1, <2>2, <2>3, NoDocType DEF RecordDelete
  <2>4. CASE RecordCopy
    <3>1. CurItem.uuid \in DocId \cup {0} /\ CurItem.lm \in Nat
      BY <2>2 DEF CurItem, TypeOK
    <3>2. [mapped |-> TRUE,
           uuid |-> [s \in Side |-> IF s = To THEN cur.uuid ELSE CurItem.uuid],
           lm |-> [s \in Side |-> IF s = To THEN cur.lm ELSE CurItem.lm]] \in Entry
      BY <3>1 DEF Entry, TypeOK, Action
    <3>3. QED
      BY <1>7, <2>1, <2>2, <2>4, <3>2 DEF RecordCopy
  <2>5. QED
    BY <1>8, <2>3, <2>4
<1>9. ASSUME NEW k \in Key, DeleteDocument(k) PROVE ProcessInv'
  <2>1. /\ phase = "run" /\ mkdir = {} /\ plan[k].op \in Deletes /\ plan[k].uuid \in DocId
        /\ doc' = [doc EXCEPT ![Target(plan[k].op)][plan[k].uuid] = NoDoc]
        /\ unseen' = unseen \cup {Target(plan[k].op)}
        /\ Advance("deleted", [NoAction EXCEPT !.key = k])
        /\ UNCHANGED clock
    BY <1>9 DEF DeleteDocument, IsNext, IsFirst, Pending, TypeOK
  <2>2. cur' \in Action /\ cur'.key = k
    BY <2>1, NoDocType DEF Advance, Action
  <2>3. Target(plan[k].op) \in Side
    BY SideFacts
  <2>4. TypeOK'
    BY <2>1, <2>2, <2>3, NoDocType DEF Advance, TypeOK, ghosts
  <2>5. RunShape' /\ PlanRespectsMode' /\ FolderIsPlanned' /\ ChangesAreRemembered'
    BY <2>1, <2>2 DEF Advance, RunShape, PlanRespectsMode, FolderIsPlanned,
       ChangesAreRemembered, Running, Copying, CurItem, To
  <2>6. QED
    BY <2>4, <2>5
<1>10. ASSUME NEW k \in Key, ForgetEntry(k) PROVE ProcessInv'
  <2>1. /\ phase = "run" /\ mkdir = {} /\ modified' = modified
    BY <1>10 DEF ForgetEntry, IsNext
  <2>2. unseen \subseteq modified'
    BY <2>1 DEF ChangesAreRemembered
  <2>3. QED
    BY <1>7, <1>10, <2>1, <2>2, NoDocType DEF ForgetEntry, TypeOK
<1>11. ASSUME NEW s \in Side, RestartFails(s) PROVE ProcessInv'
  BY <1>11, EndProcess DEF RestartFails, Fail, TypeOK, ghosts
<1>12. QED
  BY <1>1, <1>2, <1>3, <1>4, <1>5, <1>6, <1>8, <1>9, <1>10, <1>11 DEF ExecuteStep

LEMMA NextProcess == ProcessInv /\ [Next]_vars => ProcessInv'
<1> SUFFICES ASSUME ProcessInv, [Next]_vars PROVE ProcessInv'
  OBVIOUS
<1>1. CASE Crash
  <2>1. crashes' \in 0..MaxCrashes
    BY <1>1, DocsAssumption DEF Crash, ProcessInv, TypeOK
  <2>2. QED
    BY <1>1, <2>1, EndProcess DEF Crash
<1>2. CASE UNCHANGED vars
  BY <1>2 DEF vars, tablets, process, ghosts, ProcessInv, TypeOK, RunShape, PlanRespectsMode,
     FolderIsPlanned, ChangesAreRemembered, Running, Copying, CurItem, To
<1>3. QED
  BY <1>1, <1>2, UserProcess, PlanProcess, ExecuteProcess DEF Next, SyncStep

\* execute_docs only ever works on what plan_docs decided for its options: the
\* invariant of the run in progress that the theorems below rest on.
THEOREM ProcessInvariant == Spec => []ProcessInv
<1>1. QED
  BY InitProcess, NextProcess, PTL DEF Spec

\* ---------------------------------------------------------------------
\* Consequences of the process invariant.

\* The types of the specification; a plan never copies or deletes without a
\* document ("CopyToB requires a document on A", sync.rs:3636).
THEOREM TypeCorrect == Spec => []TypeOK
<1>1. ProcessInv => TypeOK
  BY DEF ProcessInv
<1>2. QED
  BY <1>1, ProcessInvariant, PTL

\* execute_docs never looks up a folder it does not know, once the document the
\* successor replaces is deleted.
THEOREM FolderIsKnown == Spec => []SuccessorHasParent
<1>1. ProcessInv => SuccessorHasParent
  BY DEF ProcessInv, RunShape, FolderIsPlanned, SuccessorHasParent, Running, Copying, CurItem, To
<1>2. QED
  BY <1>1, ProcessInvariant, PTL

\* run_docs_sync restarts every tablet it changed before it reports success.
THEOREM RestartsWhatItChanged == Spec => ShowsWhatItChanged
<1>1. ProcessInv /\ [Next]_vars => [phase = "run" /\ phase' = "done" => unseen = {}]_vars
  <2> SUFFICES ASSUME ProcessInv, [Next]_vars, phase = "run", phase' = "done" PROVE unseen = {}
    OBVIOUS
  <2>1. phase' # phase /\ ~UserStep
    BY UserFrame DEF process
  <2>2. Finish
    BY <2>1 DEF Next, SyncStep, ExecuteStep, Scan, MakePlan, CreateFolder, Restart, RestartFails, DownloadBundle,
       DeleteDocument, ForgetEntry, DeleteReplaced, RestoreBundle, RecordCopy, RecordDelete,
       Advance, Save, Fail, EndRun, Crash, vars, process
  <2>3. QED
    BY <2>2 DEF Finish, PlanDone, ProcessInv, ChangesAreRemembered
<1>2. QED
  BY <1>1, ProcessInvariant, PTL DEF Spec, ShowsWhatItChanged

\* ---------------------------------------------------------------------
\* Pair state vouches for content.

\* A document that still shows a time no later than its tablet's clock was not
\* touched by the step.
LEMMA StampedIsKept ==
  ASSUME ProcessInv, [Next]_vars, NEW s \in Side, NEW u \in DocId, NEW n \in Nat,
         n <= clock[s], doc'[s][u].present, doc'[s][u].lm = n
  PROVE  doc'[s][u] = doc[s][u]
  BY DocStep DEF ProcessInv, NoDoc

LEMMA ListedTimes ==
  ASSUME TypeOK, StampsArePast, NEW s \in Side, NEW k \in Key
  PROVE  Listing(s).lm[k] <= clock[s]
<1>1. doc[s] \in [DocId -> Doc] /\ folders[s] \in SUBSET FolderId /\ clock[s] \in Nat
  BY DEF TypeOK
<1>2. /\ Listing(s) \in ListingType
      /\ Listing(s).uuid[k] = 0 => Listing(s).lm[k] = 0
      /\ Listing(s).uuid[k] # 0 => Listing(s).lm[k] = doc[s][Listing(s).uuid[k]].lm
  BY <1>1, ListingIsTyped DEF Listing
<1>3. Listing(s).uuid[k] \in DocId \cup {0}
  BY <1>2 DEF ListingType
<1>4. QED
  BY <1>1, <1>2, <1>3 DEF StampsArePast

LEMMA StampsStep == ProcessInv /\ StampsArePast /\ [Next]_vars => StampsArePast'
<1> SUFFICES ASSUME ProcessInv, StampsArePast, [Next]_vars PROVE StampsArePast'
  OBVIOUS
<1>t. TypeOK /\ RunShape /\ TypeOK' /\ RunShape'
  BY NextProcess DEF ProcessInv
<1>c. /\ \A s \in Side : clock[s] \in Nat /\ clock'[s] \in Nat /\ clock[s] <= clock'[s]
      /\ \A op : Target(op) \in Side /\ Other(Target(op)) \in Side
      /\ "a" \in Side /\ "b" \in Side
  <2>1. \A s \in Side : clock[s] \in Nat /\ clock'[s] \in Nat /\ clock[s] <= clock'[s]
    BY <1>t, DocStep, DocsPlanAssumption DEF DocId
  <2>2. QED
    BY <2>1, SideFacts DEF Side
<1>1. \A s \in Side, u \in DocId : doc'[s][u].lm <= clock'[s]
  <2>1. NoDoc.lm = 0 /\ \A s \in Side, u \in DocId : doc[s][u].lm \in Nat
    BY <1>t DEF NoDoc, TypeOK, Doc
  <2>2. QED
    BY <1>t, <1>c, <2>1, DocStep DEF StampsArePast
<1> DEFINE Ent == \A s \in Side, k \in Key : state'[k].lm[s] <= clock'[s]
           Lst == \A k \in Key : listA'.lm[k] <= clock'["a"]
           Pln == \A k \in Key : plan'[k].op \in Copies =>
                    plan'[k].lm <= clock'[Other(Target(plan'[k].op))]
           Cur == phase' = "restored" => cur'.lm <= clock'[To']
<1>n. /\ \A k \in Key : NothingPlanned[k].op \notin Copies /\ NoListing.lm[k] = 0
      /\ NoItem.op \notin Copies
  BY NoPlan DEF NoListing
<1>k. /\ \A s \in Side, k \in Key : state[k].lm[s] \in Nat
      /\ \A k \in Key : plan[k].lm \in Nat /\ listA.lm[k] \in Nat
  BY <1>t DEF TypeOK, Entry, RunShape, ListingType
<1>2. (state' = state => Ent) /\ (listA' = listA \/ listA' = NoListing => Lst)
  BY <1>c, <1>k, <1>n DEF StampsArePast
<1>3. (\A k \in Key : plan'[k] = plan[k] \/ plan'[k] = NoItem) => Pln
  BY <1>c, <1>k, <1>n DEF StampsArePast
<1>4. plan' = NothingPlanned => Pln
  BY <1>n
<1>5. CASE UserStep \/ UNCHANGED vars
  <2>1. UNCHANGED <<state, process>>
    BY <1>5, UserFrame DEF vars
  <2>2. Cur
    BY <1>t, <1>c, <2>1 DEF StampsArePast, process, To, CurItem, TypeOK, Action
  <2>3. QED
    BY <1>1, <1>2, <1>3, <2>1, <2>2 DEF StampsArePast, process
<1>6. ASSUME NEW how \in {"idle", "done"}, EndRun(how), state' = state PROVE StampsArePast'
  BY <1>1, <1>2, <1>4, <1>6, EndRunFacts DEF StampsArePast
<1>7. ASSUME NEW o \in Options, Scan(o) PROVE StampsArePast'
  <2>1. \A k \in Key : listA'.lm[k] <= clock["a"]
    BY <1>t, <1>c, <1>7, ListedTimes DEF Scan
  <2>2. UNCHANGED <<clock, state, plan>> /\ phase' = "scanned"
    BY <1>7 DEF Scan, tablets
  <2>3. QED
    BY <1>1, <1>2, <1>3, <2>1, <2>2 DEF StampsArePast
<1>8. CASE MakePlan
  <2>1. UNCHANGED <<clock, state>> /\ listA' = NoListing /\ phase' = "run"
    BY <1>8 DEF MakePlan, tablets
  <2>2. ASSUME NEW k \in Key, plan'[k].op \in Copies
        PROVE  plan'[k].lm <= clock[Other(Target(plan'[k].op))]
    <3> DEFINE from == Other(Target(plan'[k].op))
    <3>1. from \in Side /\ plan'[k].lm = PlanLists[from].lm[k]
      BY <1>t, <1>8, <2>2, MadePlan, SideFacts
    <3>2. PlanLists["a"].lm[k] <= clock["a"]
      BY <1>t, ListsAreTyped DEF StampsArePast
    <3>3. PlanLists["b"].lm[k] <= clock["b"]
      BY <1>t, <1>c, ListedTimes, ListsAreTyped
    <3>4. QED
      BY <3>1, <3>2, <3>3 DEF Side
  <2>3. QED
    BY <1>1, <1>2, <2>1, <2>2 DEF StampsArePast
<1>9. ASSUME NEW k \in Key, NEW entry, Save(k, entry),
             \A s \in Side : entry.lm[s] <= clock[s] PROVE StampsArePast'
  <2>1. /\ plan' = [plan EXCEPT ![k] = NoItem] /\ phase' = "run"
        /\ state' = [state EXCEPT ![k] = entry]
        /\ UNCHANGED <<tablets, listA>>
    BY <1>9 DEF Save
  <2>2. Pln
    BY <1>t, <1>3, <2>1 DEF TypeOK
  <2>3. Ent
    BY <1>t, <1>9, <2>1 DEF TypeOK, tablets, StampsArePast
  <2>4. QED
    BY <1>1, <1>2, <2>1, <2>2, <2>3 DEF StampsArePast
<1>10. CASE RecordCopy
  <2>1. /\ phase = "restored" /\ To = Target(CurItem.op) /\ CurItem.op \in Copies
        /\ cur.key \in Key /\ CurItem = plan[cur.key]
    BY <1>t, <1>10 DEF RecordCopy, To, CurItem, RunShape, Copying, TypeOK, Action
  <2>2. cur.lm <= clock[To] /\ CurItem.lm <= clock[Other(To)]
    BY <2>1 DEF StampsArePast
  <2>3. \A s \in Side : s # To => s = Other(To)
    BY DEF To, Target, Other, Side
  <2>4. QED
    BY <1>9, <1>10, <2>1, <2>2, <2>3 DEF RecordCopy
<1>11. CASE RecordDelete \/ \E k \in Key : ForgetEntry(k)
  <2>1. \A s \in Side : NoEntry.lm[s] <= clock[s]
    BY <1>c DEF NoEntry
  <2>2. cur.key \in Key
    BY <1>t DEF TypeOK, Action
  <2>3. QED
    BY <1>9, <1>11, <2>1, <2>2 DEF RecordDelete, ForgetEntry
<1>12. CASE RestoreBundle
  <2>1. To \in Side
    BY <1>c DEF To
  <2>2. clock'[To] = clock[To] + 1 /\ cur'.lm = clock[To] + 1 /\ cur'.key = cur.key
    BY <1>t, <1>12, <2>1 DEF RestoreBundle, Advance, TypeOK, Action
  <2>3. UNCHANGED <<state, listA, plan>>
    BY <1>12 DEF RestoreBundle, Advance
  <2>4. To' = To
    BY <2>2, <2>3 DEF To, CurItem
  <2>5. Cur
    BY <1>c, <2>1, <2>2, <2>4
  <2>6. QED
    BY <1>1, <1>2, <1>3, <2>3, <2>5 DEF StampsArePast
<1>13. ASSUME UNCHANGED <<state, listA, plan>>, phase' # "restored" PROVE StampsArePast'
  BY <1>1, <1>2, <1>3, <1>13 DEF StampsArePast
<1>14. CASE DeleteReplaced \/ \E k \in Key : DeleteDocument(k)
  BY <1>13, <1>14 DEF DeleteReplaced, DeleteDocument, Advance
<1>15. CASE \E s \in Side : CreateFolder(s) \/ Restart(s) \/ RestartFails(s)
  <2>1. CASE \E s \in Side : CreateFolder(s) \/ Restart(s)
    BY <1>13, <2>1 DEF CreateFolder, Restart, PlanDone
  <2>2. CASE \E s \in Side : RestartFails(s)
    BY <1>6, <2>2 DEF RestartFails, Fail
  <2>3. QED
    BY <1>15, <2>1, <2>2
<1>16. ASSUME NEW k \in Key, DownloadBundle(k) PROVE StampsArePast'
  BY <1>6, <1>13, <1>16 DEF DownloadBundle, Advance, Fail
<1>17. CASE Finish \/ Crash
  BY <1>6, <1>17 DEF Finish, Crash
<1>18. QED
  BY <1>5, <1>7, <1>8, <1>10, <1>11, <1>12, <1>14, <1>15, <1>16, <1>17
     DEF Next, SyncStep, ExecuteStep

\* While a copy is in progress, neither its plan nor what it recorded changes.
LEMMA CopyGoesOn ==
  ASSUME ProcessInv, [Next]_vars, Copying'
  PROVE  \/ \E k \in Key : DownloadBundle(k) /\ phase' = "fetched"
         \/ Copying /\ CurItem' = CurItem /\ To' = To /\ cur'.ver = cur.ver
            /\ cur'.key = cur.key /\ (RestoreBundle \/ cur' = cur)
            /\ (phase' = "restored" => RestoreBundle \/ phase = "restored")
<1> USE DEF Copying, CurItem, To
<1>1. CASE UserStep \/ UNCHANGED vars
  BY <1>1, UserFrame DEF process, vars
<1>2. CASE DeleteReplaced
  BY <1>2 DEF DeleteReplaced, Advance
<1>3. CASE RestoreBundle
  BY <1>3 DEF RestoreBundle, Advance, ProcessInv, TypeOK, Action
<1>4. CASE \E k \in Key : DownloadBundle(k)
  BY <1>4 DEF DownloadBundle, Advance, Fail, EndRun
<1>5. CASE \E k \in Key : DeleteDocument(k) \/ ForgetEntry(k)
  BY <1>5 DEF DeleteDocument, ForgetEntry, Advance, Save
<1>6. CASE RecordCopy \/ RecordDelete \/ Finish \/ Crash \/ MakePlan \/ \E o \in Options : Scan(o)
  BY <1>6 DEF RecordCopy, RecordDelete, Save, Finish, Crash, EndRun, MakePlan, Scan
<1>7. CASE \E s \in Side : CreateFolder(s) \/ Restart(s) \/ RestartFails(s)
  BY <1>7 DEF CreateFolder, Restart, RestartFails, Fail, EndRun, PlanDone
<1>8. QED
  BY <1>1, <1>2, <1>3, <1>4, <1>5, <1>6, <1>7 DEF Next, SyncStep, ExecuteStep

LEMMA CopyStep == ProcessInv /\ StampsArePast /\ CopyIsTrue /\ [Next]_vars => CopyIsTrue'
<1> SUFFICES ASSUME ProcessInv, StampsArePast, CopyIsTrue, [Next]_vars PROVE CopyIsTrue'
  OBVIOUS
<1> USE DEF ProcessInv
<1>1. CASE ~Copying'
  BY <1>1 DEF CopyIsTrue, Copying
<1>2. ASSUME NEW k \in Key, DownloadBundle(k), phase' = "fetched" PROVE CopyIsTrue'
  <2>1. /\ doc' = doc /\ plan' = plan
        /\ cur' = [NoAction EXCEPT !.key = k,
                     !.ver = doc[Other(Target(plan[k].op))][plan[k].uuid].ver]
    BY <1>2 DEF DownloadBundle, Advance, Fail, EndRun
  <2>2. /\ cur'.key = k /\ cur'.ver = doc[Other(Target(plan[k].op))][plan[k].uuid].ver
        /\ cur'.uuid = 0
    BY <2>1 DEF NoAction
  <2>3. CurItem' = plan[k] /\ To' = Target(plan[k].op)
    BY <2>1, <2>2 DEF CurItem, To
  <2>4. QED
    BY <1>2, <2>1, <2>2, <2>3 DEF CopyIsTrue
<1>3. ASSUME Copying, Copying', CurItem' = CurItem, To' = To, cur'.ver = cur.ver,
             RestoreBundle \/ cur' = cur,
             phase' = "restored" => RestoreBundle \/ phase = "restored"
      PROVE  CopyIsTrue'
  <2>1. /\ To \in Side /\ Other(To) \in Side /\ CurItem.uuid \in DocId /\ CurItem.lm \in Nat
        /\ CurItem.op \in Copies /\ Other(To) # To
    BY <1>3, SideFacts DEF To, CurItem, RunShape, TypeOK, Action, Other
  <2>2. CurItem.lm <= clock[Other(To)]
    BY <2>1 DEF StampsArePast, CurItem, To, TypeOK, Action
  <2>3. LET d == doc'[Other(To)][CurItem.uuid] IN
        d.present /\ d.lm = CurItem.lm => d.ver = cur.ver
    BY <1>3, <2>1, <2>2, StampedIsKept DEF CopyIsTrue
  <2>4. ASSUME phase' = "restored"
        PROVE  LET d == doc'[To][cur'.uuid] IN d.present /\ d.lm = cur'.lm => d.ver = cur.ver
    <3>1. CASE RestoreBundle
      <4>1. PICK u \in NewDocIds(To) :
              /\ doc' = [doc EXCEPT ![To][u] =
                   [present |-> TRUE, key |-> cur.key, home |-> ParentOf(To, cur.key),
                    ver |-> cur.ver, lm |-> clock[To] + 1]]
              /\ cur' = [cur EXCEPT !.uuid = u, !.lm = clock[To] + 1]
        BY <3>1 DEF RestoreBundle, Advance
      <4>2. u \in DocId /\ cur'.uuid = u
        BY <4>1 DEF NewDocIds, TypeOK, Action
      <4>3. doc'[To][u].ver = cur.ver
        BY <2>1, <4>1, <4>2 DEF TypeOK
      <4>4. QED
        BY <4>2, <4>3
    <3>2. CASE ~RestoreBundle
      <4>1. phase = "restored" /\ cur' = cur /\ cur.uuid \in DocId /\ cur.lm \in Nat
        BY <1>3, <2>4, <3>2 DEF RunShape, TypeOK, Action
      <4>2. cur.lm <= clock[To]
        BY <4>1 DEF StampsArePast
      <4>3. QED
        BY <2>1, <4>1, <4>2, StampedIsKept DEF CopyIsTrue
    <3>3. QED
      BY <3>1, <3>2
  <2>5. QED
    BY <1>3, <2>3, <2>4 DEF CopyIsTrue
<1>4. QED
  BY <1>1, <1>2, <1>3, CopyGoesOn

\* An entry that vouches is untouched, dropped, or the copy just recorded.
LEMMA VouchStep ==
  ProcessInv /\ StampsArePast /\ CopyIsTrue /\ StateVouches /\ [Next]_vars => StateVouches'
<1> SUFFICES ASSUME ProcessInv, StampsArePast, CopyIsTrue, StateVouches, [Next]_vars
             PROVE  StateVouches'
  OBVIOUS
<1> USE DEF ProcessInv
<1> DEFINE D(e, s) == IF e.uuid[s] = 0 THEN NoDoc ELSE doc[s][e.uuid[s]]
           Dn(e, s) == IF e.uuid[s] = 0 THEN NoDoc ELSE doc'[s][e.uuid[s]]
           Vouches(e) == e.mapped /\ (\A s \in Side : D(e, s).present /\ D(e, s).lm = e.lm[s])
                           => D(e, "a").ver = D(e, "b").ver
           VouchesNext(e) == e.mapped /\ (\A s \in Side : Dn(e, s).present /\ Dn(e, s).lm = e.lm[s])
                               => Dn(e, "a").ver = Dn(e, "b").ver
<1>0. "a" \in Side /\ "b" \in Side /\ ~NoDoc.present
  BY DEF Side, NoDoc
<1>1. \A k \in Key : Vouches(state[k])
  BY <1>0 DEF StateVouches
<1>2. ASSUME NEW k \in Key PROVE VouchesNext(state[k])
  <2>1. ASSUME NEW s \in Side, Dn(state[k], s).present, Dn(state[k], s).lm = state[k].lm[s]
        PROVE  D(state[k], s) = Dn(state[k], s)
    <3>1. /\ state[k].uuid[s] \in DocId /\ state[k].lm[s] \in Nat
          /\ state[k].lm[s] <= clock[s]
      BY <1>0, <2>1 DEF TypeOK, Entry, StampsArePast
    <3>2. QED
      BY <2>1, <3>1, StampedIsKept
  <2> HIDE DEF D, Dn
  <2>2. QED
    BY <1>0, <1>1, <2>1
<1>3. VouchesNext(NoEntry)
  BY DEF NoEntry
<1>4. ASSUME NEW k \in Key, NEW e, Save(k, e), VouchesNext(e) PROVE StateVouches'
  <2>1. \A j \in Key : VouchesNext(state'[j])
    <3>1. \A j \in Key : state'[j] = state[j] \/ state'[j] = e
      BY <1>4 DEF Save, TypeOK
    <3> HIDE DEF VouchesNext
    <3>2. QED
      BY <1>2, <1>4, <3>1
  <2>2. QED
    BY <1>0, <2>1 DEF StateVouches
<1>5. ASSUME state' = state PROVE StateVouches'
  BY <1>0, <1>2, <1>5 DEF StateVouches
<1>6. CASE RecordCopy
  <2>1. /\ phase = "restored" /\ To \in Side /\ CurItem.uuid \in DocId /\ cur.uuid \in DocId
        /\ cur.key \in Key /\ doc' = doc
    BY <1>6, SideFacts DEF RecordCopy, Save, tablets, To, CurItem, RunShape, Copying, TypeOK, Action
  <2> DEFINE e == [mapped |-> TRUE,
                   uuid |-> [s \in Side |-> IF s = To THEN cur.uuid ELSE CurItem.uuid],
                   lm |-> [s \in Side |-> IF s = To THEN cur.lm ELSE CurItem.lm]]
  <2>2. ASSUME \A s \in Side : Dn(e, s).present /\ Dn(e, s).lm = e.lm[s]
        PROVE  \A s \in Side : Dn(e, s).ver = cur.ver
    <3>1. \A s \in Side : Dn(e, s) = doc[s][IF s = To THEN cur.uuid ELSE CurItem.uuid]
      BY <2>1, DocsPlanAssumption DEF DocId
    <3>2. Dn(e, To).ver = cur.ver
      BY <2>1, <2>2, <3>1 DEF CopyIsTrue
    <3>3. Other(To) \in Side /\ Other(To) # To /\ \A s \in Side : s = To \/ s = Other(To)
      BY <2>1 DEF Other, Side
    <3>4. Dn(e, Other(To)).ver = cur.ver
      BY <2>1, <2>2, <3>1, <3>3 DEF CopyIsTrue, Copying
    <3>5. QED
      BY <3>2, <3>3, <3>4
  <2>3. VouchesNext(e)
    BY <1>0, <2>2
  <2>4. Save(cur.key, e)
    BY <1>6 DEF RecordCopy
  <2>5. QED
    BY <1>4, <2>1, <2>3, <2>4
<1>7. CASE RecordDelete \/ \E k \in Key : ForgetEntry(k)
  <2>1. cur.key \in Key
    BY DEF TypeOK, Action
  <2>2. QED
    BY <1>3, <1>4, <1>7, <2>1 DEF RecordDelete, ForgetEntry
<1>8. CASE UserStep \/ UNCHANGED vars
  BY <1>5, <1>8, UserFrame DEF vars
<1>9. CASE MakePlan \/ DeleteReplaced \/ RestoreBundle \/ Finish \/ Crash \/ \E o \in Options : Scan(o)
  BY <1>5, <1>9 DEF MakePlan, DeleteReplaced, RestoreBundle, Advance, Finish, Crash, Scan
<1>10. CASE \E s \in Side : CreateFolder(s) \/ Restart(s) \/ RestartFails(s)
  BY <1>5, <1>10 DEF CreateFolder, Restart, RestartFails, Fail
<1>11. CASE \E k \in Key : DownloadBundle(k) \/ DeleteDocument(k)
  BY <1>5, <1>11 DEF DownloadBundle, DeleteDocument, Advance, Fail
<1>12. QED
  BY <1>6, <1>7, <1>8, <1>9, <1>10, <1>11 DEF Next, SyncStep, ExecuteStep

LEMMA InitDocs == Init => DocsInv
<1> SUFFICES ASSUME Init PROVE DocsInv
  OBVIOUS
<1>1. ProcessInv
  BY InitProcess
<1>2. \A s \in Side, u \in DocId : doc[s][u].lm = 0
  BY DEF Init, InitialDoc, NoDoc
<1>3. StampsArePast
  <2>1. /\ \A s \in Side : clock[s] = 0 /\ \A k \in Key : state[k].lm[s] = 0
        /\ \A k \in Key : listA.lm[k] = 0 /\ plan[k].op \notin Copies
    BY NoPlan DEF Init, NoEntry, NoListing
  <2>2. phase # "restored" /\ "a" \in Side
    BY DEF Init, Side
  <2>3. QED
    BY <1>2, <2>1, <2>2 DEF StampsArePast
<1>4. CopyIsTrue /\ StateVouches
  BY DEF Init, CopyIsTrue, Copying, StateVouches, NoEntry
<1>5. QED
  BY <1>1, <1>3, <1>4 DEF DocsInv

\* Stamps in the pair state are past, a copy in progress holds what was listed,
\* and the pair state matches only equal documents (copy_doc and plan_docs).
THEOREM DocsInvariant == Spec => []DocsInv
<1>1. DocsInv /\ [Next]_vars => DocsInv'
  BY NextProcess, StampsStep, CopyStep, VouchStep DEF DocsInv
<1>2. QED
  BY <1>1, InitDocs, PTL DEF Spec

\* What the pair state calls unchanged on both tablets is equal, whoever edits
\* what while a run copies it.
THEOREM MatchedDocumentsAreEqual == Spec => []StateVouches
<1>1. DocsInv => StateVouches
  BY DEF DocsInv
<1>2. QED
  BY <1>1, DocsInvariant, PTL

\* ---------------------------------------------------------------------
\* The source of a one-way run.

\* A step of the sync changes a tablet only as its plan says.
LEMMA SyncWrites ==
  ASSUME ProcessInv, [Next]_vars, NEW s \in Side, SyncTouches(s)
  PROVE  /\ DeleteReplaced \/ RestoreBundle \/ CreateFolder(s) \/ \E k \in Key : DeleteDocument(k)
         /\ \E k \in Key : plan[k].op \in Copies \cup Deletes /\ Target(plan[k].op) = s
<1> USE DEF ProcessInv
<1>1. edits' = edits /\ ~UNCHANGED <<doc[s], folders[s]>> /\ ~UNCHANGED <<doc, folders>>
  BY DEF SyncTouches
<1>2. ~UserStep
  BY <1>1, UserFrame DEF TypeOK
<1>3. ~UNCHANGED tablets
  BY <1>1 DEF tablets
<1>4. CASE DeleteReplaced \/ RestoreBundle
  <2>1. cur.key \in Key /\ CurItem.op \in Copies
    BY <1>4 DEF DeleteReplaced, RestoreBundle, RunShape, Copying, TypeOK, Action
  <2>2. \A t \in Side : t # To => doc'[t] = doc[t] /\ folders' = folders
    BY <1>4 DEF DeleteReplaced, RestoreBundle, Advance, TypeOK
  <2>3. To = s
    BY <1>1, <2>2, <1>4 DEF DeleteReplaced, RestoreBundle, Advance
  <2>4. QED
    BY <1>4, <2>1, <2>3 DEF To, CurItem
<1>5. ASSUME NEW t \in Side, CreateFolder(t)
      PROVE  CreateFolder(s) /\ \E k \in Key : plan[k].op \in Copies /\ Target(plan[k].op) = s
  <2>1. t \in mkdir /\ doc' = doc /\ \A r \in Side : r # t => folders'[r] = folders[r]
    BY <1>5 DEF CreateFolder, TypeOK
  <2>2. t = s
    BY <1>1, <2>1
  <2>3. QED
    BY <1>5, <2>1, <2>2, DocsPlanAssumption DEF FolderIsPlanned, Key
<1>6. ASSUME NEW k \in Key, DeleteDocument(k)
      PROVE  plan[k].op \in Deletes /\ Target(plan[k].op) = s
  <2>1. /\ plan[k].op \in Deletes /\ folders' = folders
        /\ \A t \in Side : t # Target(plan[k].op) => doc'[t] = doc[t]
    BY <1>6 DEF DeleteDocument, IsNext, IsFirst, Pending, Advance, TypeOK
  <2>2. QED
    BY <1>1, <2>1
<1>7. CASE \/ MakePlan \/ Finish \/ Crash \/ RecordCopy \/ RecordDelete
           \/ \E o \in Options : Scan(o)
  BY <1>3, <1>7 DEF MakePlan, Finish, Crash, RecordCopy, RecordDelete, Save, Scan
<1>8. CASE \E t \in Side : Restart(t) \/ RestartFails(t)
  BY <1>3, <1>8 DEF Restart, RestartFails, Fail, tablets
<1>9. CASE \E k \in Key : DownloadBundle(k) \/ ForgetEntry(k)
  BY <1>1, <1>3, <1>9 DEF DownloadBundle, ForgetEntry, Advance, Fail, Save, tablets
<1>10. CASE UNCHANGED vars
  BY <1>3, <1>10 DEF vars
<1>11. QED
  BY <1>2, <1>4, <1>5, <1>6, <1>7, <1>8, <1>9, <1>10 DEF Next, SyncStep, ExecuteStep

\* A one-way run of run_docs_sync changes neither the documents nor the folders
\* of its source tablet.
THEOREM SourceIsUntouched == Spec => SourceUntouched
<1>1. ProcessInv /\ [Next]_vars =>
        [/\ SyncTouches("a") => opts.mode # "Push"
         /\ SyncTouches("b") => opts.mode # "Pull"]_vars
  <2> SUFFICES ASSUME ProcessInv, [Next]_vars
               PROVE  /\ SyncTouches("a") => opts.mode # "Push"
                      /\ SyncTouches("b") => opts.mode # "Pull"
    OBVIOUS
  <2>1. ASSUME NEW k \in Key, plan[k].op \in Copies \cup Deletes
        PROVE  /\ Target(plan[k].op) = "a" => opts.mode # "Push"
               /\ Target(plan[k].op) = "b" => opts.mode # "Pull"
    BY <2>1 DEF ProcessInv, PlanRespectsMode, Respects, Target, Copies, Deletes, WritesA, WritesB,
       CanWriteLocal, CanWriteRemote
  <2>2. QED
    BY <2>1, SyncWrites DEF Side
<1>2. QED
  BY <1>1, ProcessInvariant, PTL DEF Spec, SourceUntouched

\* ---------------------------------------------------------------------
\* What a run relies on while users leave alone what it is to write.

\* The documents of one path on a tablet.
Siblings(docs, fs, k) == {u \in Reachable(docs, fs) : docs[u].key = k}

\* The document a planned action destroys.
Victim(i) == IF i.op \in Copies THEN i.replace ELSE i.uuid

\* Tablet a is as it was listed wherever the plan may write it.
ListedIsKept ==
  phase = "scanned" /\ CanWriteLocal(opts.mode) => \A k \in Key \ listA.excludedKeys :
    LET u == listA.uuid[k] IN
    /\ Siblings(doc["a"], folders["a"], k) \subseteq {u}
    /\ k \in FolderKeys => folders["a"] = {listA.folder} \ {0}
    /\ u # 0 /\ doc["a"][u].present => doc["a"][u].key = k /\ doc["a"][u].lm = listA.lm[k]

\* A document to be destroyed is the one of its path, and under the skip policy
\* the one the pair state knows.
VictimIsKnown ==
  \A k \in Key : Running /\ plan[k].op \in Copies \cup Deletes =>
    LET to == Target(plan[k].op)
        u == Victim(plan[k])
    IN u # 0 /\ doc[to][u].present =>
         /\ doc[to][u].key = k
         /\ opts.conflict = "Skip" =>
              state[k].mapped /\ state[k].uuid[to] = u /\ state[k].lm[to] = doc[to][u].lm

\* A document is restored where no other has its path, in the only subfolder.
PlaceIsFree ==
  Running =>
    /\ \A k \in Key : plan[k].op \in Copies =>
         LET to == Target(plan[k].op) IN
         /\ \/ phase = "restored" /\ k = cur.key
            \/ Siblings(doc[to], folders[to], k) \subseteq {plan[k].replace}
         /\ k \in FolderKeys => folders[to] = {parent[to]} \ {0}
    /\ phase = "replaced" => Siblings(doc[To], folders[To], cur.key) = {}
    /\ \A s \in mkdir : parent[s] = 0

QuietInv == ListedIsKept /\ VictimIsKnown /\ PlaceIsFree

LEMMA UserLeaves ==
  ASSUME TypeOK, UserStep, QuietRuns, NEW s \in Side
  PROVE  /\ \A u \in DocId : doc'[s][u].present => doc[s][u].present \/ u \notin Mentioned(s)
         /\ \A k \in Key : Targeted(s, k) =>
              /\ \A u \in DocId : doc[s][u].present /\ doc[s][u].key = k /\ doc'[s][u].present =>
                   doc'[s][u] = doc[s][u]
              /\ Siblings(doc'[s], folders'[s], k) \subseteq Siblings(doc[s], folders[s], k)
              /\ k \in FolderKeys => folders'[s] = folders[s]
<1> DEFINE Good == /\ \A u \in DocId : doc'[s][u].present => doc[s][u].present \/ u \notin Mentioned(s)
                   /\ \A k \in Key : Targeted(s, k) =>
                        /\ \A u \in DocId : doc[s][u].present /\ doc[s][u].key = k /\ doc'[s][u].present =>
                             doc'[s][u] = doc[s][u]
                        /\ \A u \in DocId :
                             /\ doc'[s][u].present /\ doc'[s][u].key = k
                             /\ doc'[s][u].home \in folders'[s] \cup {0}
                             => /\ doc[s][u].present /\ doc[s][u].key = k
                                /\ doc[s][u].home \in folders[s] \cup {0}
                        /\ k \in FolderKeys => folders'[s] = folders[s]
<1> USE DEF TypeOK
<1>0. doc'[s] = doc[s] /\ folders'[s] = folders[s] => Good
  OBVIOUS
<1>1. ASSUME NEW t \in Side, NEW v \in DocId, Annotate(t, v) PROVE Good
  <2>1. CASE t # s
    BY <1>0, <1>1, <2>1 DEF Annotate
  <2>2. CASE t = s
    <3>1. /\ doc[s][v].present /\ \A k \in Key : Targeted(s, k) => doc[s][v].key # k
          /\ folders' = folders
          /\ doc' = [doc EXCEPT ![s][v] = [doc[s][v] EXCEPT !.ver = NewVersion, !.lm = clock[s] + 1]]
      BY <1>1, <2>2 DEF Annotate, Leaves
    <3>2. doc[s][v] \in Doc
      OBVIOUS
    <3>3. \A u \in DocId : u # v => doc'[s][u] = doc[s][u]
      BY <3>1
    <3>4. doc'[s][v].key = doc[s][v].key
      BY <3>1, <3>2 DEF Doc
    <3>5. QED
      BY <3>1, <3>3, <3>4
  <2>3. QED
    BY <2>1, <2>2
<1>2. ASSUME NEW t \in Side, NEW v \in DocId, Remove(t, v) PROVE Good
  <2>1. CASE t # s
    BY <1>0, <1>2, <2>1 DEF Remove
  <2>2. CASE t = s
    BY <1>2, <2>2 DEF Remove, NoDoc
  <2>3. QED
    BY <2>1, <2>2
<1>3. ASSUME NEW t \in Side, NEW v \in DocId, NEW j \in Key, MoveTo(t, v, j) PROVE Good
  <2>1. CASE t # s
    BY <1>0, <1>3, <2>1 DEF MoveTo
  <2>2. CASE t = s
    <3>1. PICK home \in HomesFor(s, j) :
            doc' = [doc EXCEPT ![s][v] =
                      [doc[s][v] EXCEPT !.key = j, !.home = home, !.lm = clock[s] + 1]]
      BY <1>3, <2>2 DEF MoveTo
    <3>2. /\ doc[s][v].present /\ folders' = folders
          /\ \A k \in Key : Targeted(s, k) => doc[s][v].key # k /\ j # k
      BY <1>3, <2>2 DEF MoveTo, Leaves
    <3>3. doc[s][v] \in Doc
      OBVIOUS
    <3>4. \A u \in DocId : u # v => doc'[s][u] = doc[s][u]
      BY <3>1
    <3>5. doc'[s][v].key = j
      BY <3>1, <3>3 DEF Doc
    <3>6. QED
      BY <3>2, <3>4, <3>5
  <2>3. QED
    BY <2>1, <2>2
<1>4. ASSUME NEW t \in Side, NEW j \in Key, Create(t, j) PROVE Good
  <2>1. CASE t # s
    BY <1>0, <1>4, <2>1 DEF Create
  <2>2. CASE t = s
    <3>1. PICK v \in NewDocIds(s), home \in HomesFor(s, j) :
            doc' = [doc EXCEPT ![s][v] = [present |-> TRUE, key |-> j, home |-> home,
                                          ver |-> NewVersion, lm |-> clock[s] + 1]]
      <4>1. Create(s, j)
        BY <1>4, <2>2
      <4>2. QED
        BY <4>1 DEF Create
    <3>2. v \in DocId /\ v \notin Mentioned(s) /\ ~doc[s][v].present
      BY DEF NewDocIds, Mentioned
    <3>3. folders' = folders /\ \A k \in Key : Targeted(s, k) => j # k
      BY <1>4, <2>2 DEF Create, Leaves
    <3>4. \A u \in DocId : u # v => doc'[s][u] = doc[s][u]
      BY <3>1
    <3>5. doc'[s][v].key = j
      BY <3>1, <3>2
    <3>6. QED
      BY <3>2, <3>3, <3>4, <3>5
  <2>3. QED
    BY <2>1, <2>2
<1>5. ASSUME NEW t \in Side, MakeFolder(t) PROVE Good
  <2>1. CASE t # s
    BY <1>0, <1>5, <2>1 DEF MakeFolder
  <2>2. CASE t = s
    <3>1. PICK f \in NewFolderIds(s) : folders' = [folders EXCEPT ![s] = @ \cup {f}]
      BY <1>5, <2>2 DEF MakeFolder
    <3>2. f \in FolderId /\ f # 0 /\ \A u \in DocId : doc[s][u].home # f
      BY DEF NewFolderIds, FolderId
    <3>3. doc' = doc /\ \A k \in FolderKeys : ~Targeted(s, k)
      BY <1>5, <2>2 DEF MakeFolder, Leaves
    <3>4. QED
      BY <3>1, <3>2, <3>3
  <2>3. QED
    BY <2>1, <2>2
<1>6. ASSUME NEW t \in Side, RemoveFolder(t) PROVE Good
  <2>1. CASE t # s
    BY <1>0, <1>6, <2>1 DEF RemoveFolder
  <2>2. CASE t = s
    <3>1. PICK f \in folders[s] :
            LET inside == {u \in DocId : doc[s][u].present /\ doc[s][u].home = f} IN
            /\ folders' = [folders EXCEPT ![s] = @ \ {f}]
            /\ doc' = [doc EXCEPT ![s] = [u \in DocId |-> IF u \in inside THEN NoDoc ELSE doc[s][u]]]
      <4>1. RemoveFolder(s)
        BY <1>6, <2>2
      <4>2. QED
        BY <4>1 DEF RemoveFolder
    <3>2. \A u \in DocId : doc'[s][u] = doc[s][u] \/ ~doc'[s][u].present
      BY <3>1 DEF NoDoc
    <3>3. folders'[s] \subseteq folders[s]
      BY <3>1
    <3>4. \A k \in FolderKeys : ~Targeted(s, k)
      BY <1>6, <2>2 DEF RemoveFolder, Leaves
    <3>5. QED
      BY <3>2, <3>3, <3>4
  <2>3. QED
    BY <2>1, <2>2
<1>7. Good
  BY <1>1, <1>2, <1>3, <1>4, <1>5, <1>6 DEF UserStep
<1>8. \A k \in Key : Targeted(s, k) => Siblings(doc'[s], folders'[s], k) \subseteq Siblings(doc[s], folders[s], k)
  BY <1>7 DEF Siblings, Reachable
<1>9. QED
  BY <1>7, <1>8

LEMMA AtMostOne ==
  ASSUME NEW S, IsFiniteSet(S)
  PROVE  Cardinality(S) > 1 <=> \E x, y \in S : x # y
<1>1. Cardinality(S) \in Nat
  BY FS_CardinalityType
<1>2. ASSUME NEW x \in S, NEW y \in S, x # y PROVE Cardinality(S) > 1
  <2>1. Cardinality(S) # 0
    BY <1>2, FS_EmptySet
  <2>2. Cardinality(S) # 1
    BY <1>2, FS_Singleton
  <2>3. QED
    BY <1>1, <2>1, <2>2
<1>3. ASSUME Cardinality(S) > 1 PROVE \E x, y \in S : x # y
  <2>1. S # {}
    BY <1>1, <1>3, FS_EmptySet
  <2>2. PICK x : x \in S
    BY <2>1
  <2>3. S # {x}
    BY <1>1, <1>3, FS_Singleton
  <2>4. QED
    BY <2>2, <2>3
<1>4. QED
  BY <1>2, <1>3

LEMMA SetsAreFinite ==
  ASSUME TypeOK, NEW s \in Side
  PROVE  /\ IsFiniteSet(folders[s])
         /\ \A k \in Key : /\ IsFiniteSet(Siblings(doc[s], folders[s], k))
                           /\ Siblings(doc[s], folders[s], k) \subseteq DocId
<1>1. IsFiniteSet(DocId) /\ IsFiniteSet(FolderId)
  BY FS_Interval, DocsPlanAssumption DEF DocId, FolderId
<1>2. folders[s] \subseteq FolderId /\ \A k \in Key : Siblings(doc[s], folders[s], k) \subseteq DocId
  BY DEF TypeOK, Siblings, Reachable
<1>3. QED
  BY <1>1, <1>2, FS_Subset

\* remote_snapshot shows all there is of a path that is not ambiguous.
LEMMA ListingShows ==
  ASSUME TypeOK, NEW s \in Side
  PROVE  /\ Listing(s).excludedKeys = ExcludedKeys(doc[s], folders[s])
         /\ \A k \in Key \ Listing(s).excludedKeys :
              /\ Siblings(doc[s], folders[s], k) = {Listing(s).uuid[k]} \ {0}
              /\ k \in FolderKeys => folders[s] = {Listing(s).folder} \ {0}
<1> DEFINE excluded == ExcludedKeys(doc[s], folders[s])
           uuid == [k \in Key |-> IF k \in excluded \/ Siblings(doc[s], folders[s], k) = {} THEN 0
                                                    ELSE CHOOSE u \in Siblings(doc[s], folders[s], k) : TRUE]
           folder == IF Cardinality(folders[s]) = 1 THEN CHOOSE f \in folders[s] : TRUE ELSE 0
<1>1. /\ Listing(s).excludedKeys = excluded
      /\ Listing(s).uuid = uuid
      /\ Listing(s).folder = folder
  BY DEF Listing, ListingOf, Siblings
<1>2. \A k \in Key : k \in excluded <=> \/ k \in FolderKeys /\ Cardinality(folders[s]) > 1
                                        \/ Cardinality(Siblings(doc[s], folders[s], k)) > 1
  BY DEF ExcludedKeys, Siblings
<1> HIDE DEF excluded
<1>3. ASSUME NEW k \in Key \ excluded
      PROVE  Siblings(doc[s], folders[s], k) = {uuid[k]} \ {0}
  <2>1. /\ \A x, y \in Siblings(doc[s], folders[s], k) : x = y
        /\ 0 \notin Siblings(doc[s], folders[s], k)
    BY <1>2, <1>3, SetsAreFinite, AtMostOne DEF DocId
  <2>2. uuid[k] = IF Siblings(doc[s], folders[s], k) = {} THEN 0
            ELSE CHOOSE u \in Siblings(doc[s], folders[s], k) : TRUE
    BY <1>3
  <2>3. Siblings(doc[s], folders[s], k) # {} => 
            (CHOOSE u \in Siblings(doc[s], folders[s], k) : TRUE) \in Siblings(doc[s], folders[s], k)
    OBVIOUS
  <2> HIDE DEF uuid
  <2>4. CASE Siblings(doc[s], folders[s], k) = {}
    BY <2>2, <2>4
  <2>5. CASE Siblings(doc[s], folders[s], k) # {}
    BY <2>1, <2>2, <2>3, <2>5
  <2>6. QED
    BY <2>4, <2>5
<1>4. ASSUME NEW k \in FolderKeys, k \notin excluded
      PROVE  folders[s] = {folder} \ {0}
  <2>1. k \in Key
    BY DocsPlanAssumption DEF Key
  <2>2. ~(Cardinality(folders[s]) > 1) /\ Cardinality(folders[s]) \in Nat /\ IsFiniteSet(folders[s])
    BY <1>2, <1>4, <2>1, SetsAreFinite, FS_CardinalityType
  <2>3. 0 \notin folders[s]
    BY DEF TypeOK, FolderId
  <2>4. CASE Cardinality(folders[s]) = 1
    <3>1. \E f : folders[s] = {f}
      BY <2>2, <2>4, FS_Singleton
    <3>2. folder = CHOOSE f \in folders[s] : TRUE
      BY <2>4
    <3>3. (CHOOSE f \in folders[s] : TRUE) \in folders[s]
      BY <3>1
    <3> HIDE DEF folder
    <3>4. QED
      BY <2>3, <3>1, <3>2, <3>3
  <2>5. CASE Cardinality(folders[s]) # 1
    <3>1. Cardinality(folders[s]) = 0
      BY <2>2, <2>5
    <3>2. folders[s] = {}
      BY <2>2, <3>1, FS_EmptySet
    <3>3. QED
      BY <2>5, <3>2
  <2>6. QED
    BY <2>4, <2>5
<1> HIDE DEF uuid, folder
<1>5. ASSUME NEW k \in Key \ Listing(s).excludedKeys
      PROVE  /\ Siblings(doc[s], folders[s], k) = {Listing(s).uuid[k]} \ {0}
             /\ k \in FolderKeys => folders[s] = {Listing(s).folder} \ {0}
  <2>1. k \in Key \ excluded
    BY <1>1
  <2>2. Siblings(doc[s], folders[s], k) = {Listing(s).uuid[k]} \ {0}
    BY <1>1, <1>3, <2>1
  <2>3. k \in FolderKeys => folders[s] = {Listing(s).folder} \ {0}
    BY <1>1, <1>4, <2>1
  <2>4. QED
    BY <2>2, <2>3
<1>6. QED
  BY <1>1, <1>5 DEF excluded

LEMMA DeletionsRemove ==
  ASSUME TypeOK, DeleteReplaced \/ \E k \in Key : DeleteDocument(k), NEW s \in Side
  PROVE  /\ folders' = folders
         /\ \A u \in DocId : doc'[s][u] = doc[s][u] \/ doc'[s][u] = NoDoc
<1>1. CASE DeleteReplaced
  BY <1>1 DEF DeleteReplaced, Advance, TypeOK
<1>2. CASE \E k \in Key : DeleteDocument(k)
  BY <1>2 DEF DeleteDocument, Advance, TypeOK
<1>3. QED
  BY <1>1, <1>2

\* Removing documents removes siblings.
LEMMA FewerSiblings ==
  ASSUME NEW s \in Side, NEW k \in Key, folders'[s] = folders[s],
         \A u \in DocId : doc'[s][u] = doc[s][u] \/ doc'[s][u] = NoDoc
  PROVE  Siblings(doc'[s], folders'[s], k) = {u \in Siblings(doc[s], folders[s], k) : doc'[s][u] = doc[s][u]}
<1>1. ~NoDoc.present
  BY DEF NoDoc
<1>2. Reachable(doc'[s], folders'[s]) = {u \in DocId : doc'[s][u].present
                                          /\ doc'[s][u].home \in folders'[s] \cup {0}}
  BY DEF Reachable
<1>3. QED
  BY <1>1, <1>2 DEF Siblings, Reachable

\* The steps that change documents.
LEMMA OthersKeepDocuments ==
  ASSUME [Next]_vars
  PROVE  \/ UserStep \/ DeleteReplaced \/ RestoreBundle \/ \E k \in Key : DeleteDocument(k)
         \/ UNCHANGED doc
<1>1. CASE \/ MakePlan \/ Finish \/ Crash \/ RecordCopy \/ RecordDelete
           \/ \E o \in Options : Scan(o)
  BY <1>1 DEF MakePlan, Finish, Crash, RecordCopy, RecordDelete, Save, Scan, tablets
<1>2. CASE \/ \E t \in Side : CreateFolder(t) \/ Restart(t) \/ RestartFails(t)
           \/ UNCHANGED vars
  BY <1>2 DEF CreateFolder, Restart, RestartFails, Fail, vars, tablets
<1>3. CASE \E k \in Key : DownloadBundle(k) \/ ForgetEntry(k)
  BY <1>3 DEF DownloadBundle, ForgetEntry, Advance, Fail, Save, tablets
<1>4. QED
  BY <1>1, <1>2, <1>3 DEF Next, SyncStep, ExecuteStep

\* A fresh folder holds nothing.
LEMMA FolderAddsNone ==
  ASSUME TypeOK, NEW s \in Side, NEW t \in Side, NEW k \in Key, CreateFolder(s)
  PROVE  Siblings(doc'[t], folders'[t], k) = Siblings(doc[t], folders[t], k)
<1>1. PICK f \in NewFolderIds(s) : folders' = [folders EXCEPT ![s] = @ \cup {f}]
  BY DEF CreateFolder
<1>2. f # 0 /\ \A u \in DocId : doc[s][u].home # f
  BY DEF NewFolderIds, FolderId
<1>3. doc' = doc
  BY DEF CreateFolder
<1>4. Reachable(doc'[t], folders'[t]) = Reachable(doc[t], folders[t])
  BY <1>1, <1>2, <1>3 DEF Reachable, TypeOK
<1>5. QED
  BY <1>3, <1>4 DEF Siblings

\* A restored document is a sibling of its own path alone.
LEMMA RestoreAddsOne ==
  ASSUME ProcessInv, RestoreBundle
  PROVE  \E u \in DocId \ Mentioned(To) :
           /\ cur'.uuid = u /\ ~doc[To][u].present
           /\ doc'[To][u] = [present |-> TRUE, key |-> cur.key, home |-> ParentOf(To, cur.key),
                             ver |-> cur.ver, lm |-> clock[To] + 1]
           /\ \A s \in Side, v \in DocId : s # To \/ v # u => doc'[s][v] = doc[s][v]
           /\ \A s \in Side, k \in Key :
                Siblings(doc'[s], folders'[s], k) \subseteq
                 Siblings(doc[s], folders[s], k) \cup (IF s = To /\ k = cur.key THEN {u} ELSE {})
           /\ \A s \in Side, k \in Key : s # To \/ k # cur.key =>
                 Siblings(doc'[s], folders'[s], k) = Siblings(doc[s], folders[s], k)
<1>1. PICK u \in NewDocIds(To) :
        /\ doc' = [doc EXCEPT ![To][u] =
             [present |-> TRUE, key |-> cur.key, home |-> ParentOf(To, cur.key),
              ver |-> cur.ver, lm |-> clock[To] + 1]]
        /\ Advance("restored", [cur EXCEPT !.uuid = u, !.lm = clock[To] + 1])
  BY DEF RestoreBundle
<1>2. u \in DocId \ Mentioned(To) /\ ~doc[To][u].present
  BY DEF NewDocIds, Mentioned
<1>3. To \in Side /\ folders' = folders
  BY <1>1, SideFacts DEF To, Advance
<1>4. cur'.uuid = u
  BY <1>1 DEF Advance, ProcessInv, TypeOK, Action
<1>5. /\ doc'[To][u] = [present |-> TRUE, key |-> cur.key, home |-> ParentOf(To, cur.key),
                        ver |-> cur.ver, lm |-> clock[To] + 1]
      /\ \A s \in Side, v \in DocId : s # To \/ v # u => doc'[s][v] = doc[s][v]
  BY <1>1, <1>2, <1>3 DEF ProcessInv, TypeOK
<1>6. doc'[To][u].key = cur.key
  BY <1>5
<1>7. ASSUME NEW s \in Side, NEW k \in Key
      PROVE  /\ Siblings(doc'[s], folders'[s], k) \subseteq
                 Siblings(doc[s], folders[s], k) \cup (IF s = To /\ k = cur.key THEN {u} ELSE {})
             /\ s # To \/ k # cur.key =>
                 Siblings(doc'[s], folders'[s], k) = Siblings(doc[s], folders[s], k)
  BY <1>2, <1>3, <1>5, <1>6 DEF Siblings, Reachable
<1>8. QED
  BY <1>2, <1>4, <1>5, <1>7

LEMMA ListedKept ==
  ProcessInv /\ (UserStep => QuietRuns) /\ ListedIsKept /\ [Next]_vars => ListedIsKept'
<1> SUFFICES ASSUME ProcessInv, UserStep => QuietRuns, ListedIsKept, [Next]_vars,
                    phase' = "scanned", CanWriteLocal(opts'.mode),
                    NEW k \in Key, k \notin listA'.excludedKeys
             PROVE  LET u == listA'.uuid[k] IN
                    /\ Siblings(doc'["a"], folders'["a"], k) \subseteq {u}
                    /\ k \in FolderKeys => folders'["a"] = {listA'.folder} \ {0}
                    /\ u # 0 /\ doc'["a"][u].present =>
                         doc'["a"][u].key = k /\ doc'["a"][u].lm = listA'.lm[k]
  BY DEF ListedIsKept
<1> USE DEF ProcessInv
<1>0. "a" \in Side
  BY DEF Side
<1>1. CASE \E o \in Options : Scan(o)
  <2>1. listA' = Listing("a") /\ doc' = doc /\ folders' = folders
    BY <1>1 DEF Scan, tablets
  <2>2. Siblings(doc'["a"], folders'["a"], k) = Siblings(doc["a"], folders["a"], k)
    BY <2>1 DEF Siblings
  <2>3. doc["a"] \in [DocId -> Doc] /\ folders["a"] \in SUBSET FolderId
    BY <1>0 DEF TypeOK
  <2>4. /\ Listing("a").uuid[k] # 0 => /\ doc["a"][Listing("a").uuid[k]].key = k
                                       /\ Listing("a").lm[k] = doc["a"][Listing("a").uuid[k]].lm
    BY <2>3, ListingIsTyped DEF Listing
  <2>5. QED
    BY <1>0, <2>1, <2>2, <2>4, ListingShows
<1>2. CASE UserStep
  <2>1. phase = "scanned" /\ listA' = listA /\ opts' = opts
    BY <1>2, UserFrame DEF process
  <2>2. Targeted("a", k)
    BY <2>1 DEF Targeted
  <2> DEFINE u == listA.uuid[k]
  <2>3. u \in DocId \cup {0} /\ u \in Mentioned("a")
    BY DEF RunShape, ListingType, Mentioned
  <2>4. /\ Siblings(doc["a"], folders["a"], k) \subseteq {u}
        /\ k \in FolderKeys => folders["a"] = {listA.folder} \ {0}
        /\ u # 0 /\ doc["a"][u].present => doc["a"][u].key = k /\ doc["a"][u].lm = listA.lm[k]
    BY <2>1 DEF ListedIsKept
  <2>5. /\ Siblings(doc'["a"], folders'["a"], k) \subseteq Siblings(doc["a"], folders["a"], k)
        /\ k \in FolderKeys => folders'["a"] = folders["a"]
        /\ u # 0 /\ doc'["a"][u].present =>
             doc["a"][u].present /\ (doc["a"][u].key = k => doc'["a"][u] = doc["a"][u])
    BY <1>0, <1>2, <2>2, <2>3, UserLeaves
  <2>6. QED
    BY <2>1, <2>4, <2>5
<1>3. CASE UNCHANGED vars
  <2>1. /\ phase' = phase /\ opts' = opts /\ listA' = listA /\ doc' = doc /\ folders' = folders
        /\ Siblings(doc'["a"], folders'["a"], k) = Siblings(doc["a"], folders["a"], k)
    BY <1>3 DEF vars, process, tablets, Siblings
  <2>2. QED
    BY <2>1 DEF ListedIsKept
<1>4. ~SyncStep /\ ~Crash
  BY DEF SyncStep, ExecuteStep, MakePlan, CreateFolder, Restart, RestartFails, PlanDone, DownloadBundle,
     DeleteDocument, ForgetEntry, DeleteReplaced, RestoreBundle, RecordCopy, RecordDelete, Finish,
     Crash, Advance, Save, Fail, EndRun
<1>5. QED
  BY <1>1, <1>2, <1>3, <1>4 DEF Next

\* What is still planned is planned as before, for the same entry.
LEMMA PlanGoesOn ==
  ASSUME TypeOK, [Next]_vars, ~MakePlan, Running', NEW k \in Key,
         plan'[k].op \in Copies \cup Deletes
  PROVE  Running /\ plan'[k] = plan[k] /\ opts' = opts /\ state'[k] = state[k]
<1>1. ASSUME NEW j \in Key, NEW e, Save(j, e)
      PROVE  plan'[k] = plan[k] /\ opts' = opts /\ state'[k] = state[k]
  BY <1>1, NoPlan DEF Save, TypeOK
<1>2. cur.key \in Key
  BY DEF TypeOK, Action
<1>3. CASE UserStep \/ UNCHANGED vars
  BY <1>3, UserFrame DEF process, vars, Running
<1>4. CASE RecordCopy \/ RecordDelete \/ \E j \in Key : ForgetEntry(j)
  BY <1>1, <1>2, <1>4 DEF RecordCopy, RecordDelete, ForgetEntry, IsNext, Running
<1>5. CASE DeleteReplaced \/ RestoreBundle
  BY <1>5 DEF DeleteReplaced, RestoreBundle, Advance, Running
<1>6. CASE \E j \in Key : DownloadBundle(j) \/ DeleteDocument(j)
  BY <1>6 DEF DownloadBundle, DeleteDocument, IsNext, Advance, Running, Fail, EndRun
<1>7. CASE Finish \/ Crash \/ \E o \in Options : Scan(o)
  BY <1>7 DEF Finish, Crash, EndRun, Scan, Running
<1>8. CASE \E s \in Side : CreateFolder(s) \/ Restart(s) \/ RestartFails(s)
  BY <1>8 DEF CreateFolder, Restart, RestartFails, Fail, EndRun, PlanDone, Running
<1>9. QED
  BY <1>3, <1>4, <1>5, <1>6, <1>7, <1>8 DEF Next, SyncStep, ExecuteStep

LEMMA VictimStep ==
  ProcessInv /\ (UserStep => QuietRuns) /\ ListedIsKept /\ VictimIsKnown /\ [Next]_vars => VictimIsKnown'
<1> SUFFICES ASSUME ProcessInv, UserStep => QuietRuns, ListedIsKept, VictimIsKnown, [Next]_vars,
                    Running', NEW k \in Key, plan'[k].op \in Copies \cup Deletes
             PROVE  LET to == Target(plan'[k].op)
                        u == Victim(plan'[k])
                    IN u # 0 /\ doc'[to][u].present =>
                         /\ doc'[to][u].key = k
                         /\ opts'.conflict = "Skip" =>
                              /\ state'[k].mapped /\ state'[k].uuid[to] = u
                              /\ state'[k].lm[to] = doc'[to][u].lm
  BY DEF VictimIsKnown
<1> USE DEF ProcessInv
<1> DEFINE to == Target(plan[k].op)
           u == Victim(plan[k])
<1>1. CASE MakePlan
  <2> DEFINE t == Target(plan'[k].op)
             v == Victim(plan'[k])
  <2>1. /\ v = PlanLists[t].uuid[k] /\ t \in Side
        /\ plan'[k].op = DispositionOf(opts, PlanLists, state[k], k)
        /\ t = "a" => CanWriteLocal(opts.mode)
    BY <1>1, MadePlan, SideFacts DEF Victim, Copies, Deletes, Respects, Target, WritesA, WritesB
  <2>2. /\ doc' = doc /\ state' = state /\ opts' = opts /\ phase = "scanned"
    BY <1>1 DEF MakePlan, tablets
  <2>3. ~Excluded(PlanLists, state[k], k)
    BY <2>1 DEF DispositionOf, Copies, Deletes
  <2>4. /\ v \in DocId \cup {0}
        /\ v # 0 /\ doc[t][v].present =>
             doc[t][v].key = k /\ doc[t][v].lm = PlanLists[t].lm[k]
    <3>1. CASE t = "a"
      <4>1. k \notin listA.excludedKeys
        BY <2>1, <2>3, <3>1, ListsAreTyped DEF Excluded
      <4>2. QED
        BY <2>1, <2>2, <3>1, <4>1, ListsAreTyped DEF ListedIsKept, ListingType, RunShape
    <3>2. CASE t = "b"
      <4>1. doc["b"] \in [DocId -> Doc] /\ folders["b"] \in SUBSET FolderId
        BY <2>1, <3>2 DEF TypeOK
      <4>2. QED
        <5>1. v = Listing("b").uuid[k] /\ PlanLists["b"] = Listing("b")
          BY <2>1, <3>2, ListsAreTyped
        <5>2. /\ Listing("b").uuid[k] \in DocId \cup {0}
              /\ Listing("b").uuid[k] # 0 =>
                   /\ doc["b"][Listing("b").uuid[k]].key = k
                   /\ Listing("b").lm[k] = doc["b"][Listing("b").uuid[k]].lm
          BY <4>1, ListingIsTyped DEF Listing, ListingType
        <5>3. QED
          BY <3>2, <5>1, <5>2
    <3>3. QED
      BY <2>1, <3>1, <3>2 DEF Side
  <2>5. ASSUME v # 0, opts.conflict = "Skip"
        PROVE  state[k].mapped /\ state[k].uuid[t] = v /\ state[k].lm[t] = PlanLists[t].lm[k]
    <3> DEFINE a == View("a", PlanLists["a"], state[k], k)
               b == View("b", PlanLists["b"], state[k], k)
    <3>1. /\ state[k] \in Entry /\ state[k].mapped \in BOOLEAN /\ opts \in SyncOptions
          /\ PlanLists["a"] \in ListingType /\ PlanLists["b"] \in ListingType
      BY ListsAreTyped, DocsAssumption DEF TypeOK, Entry, Side
    <3>2. a \in SideView /\ b \in SideView
      BY <3>1 DEF View, SideView, ListingType, Entry
    <3>3. Spares(DecidePair(opts, a, b, state[k].mapped), a, b, state[k].mapped)
      BY <2>5, <3>1, <3>2, SkipSparesChanges
    <3>4. plan'[k].op = DecidePair(opts, a, b, state[k].mapped)
      BY <2>1, <2>3 DEF DispositionOf, Copies, Deletes
    <3>5. CASE t = "a"
      <4>1. plan'[k].op \in WritesA /\ a.present
        BY <2>1, <2>5, <3>5 DEF Target, WritesA, View
      <4>2. QED
        BY <2>1, <3>3, <3>4, <3>5, <4>1 DEF Spares, View
    <3>6. CASE t = "b"
      <4>1. plan'[k].op \in WritesB /\ b.present
        BY <2>1, <2>5, <3>6 DEF Target, WritesA, WritesB, Copies, Deletes, View
      <4>2. QED
        BY <2>1, <3>3, <3>4, <3>6, <4>1 DEF Spares, View
    <3>7. QED
      BY <2>1, <3>5, <3>6 DEF Side
  <2>6. QED
    BY <2>2, <2>4, <2>5
<1>2. ~MakePlan => Running /\ plan'[k] = plan[k] /\ opts' = opts /\ state'[k] = state[k]
  BY PlanGoesOn
<1>3. CASE ~MakePlan
  <2>1. /\ to \in Side /\ u \in DocId \cup {0} /\ u \in Mentioned(to)
        /\ Targeted(to, k)
    BY <1>2, <1>3, SideFacts DEF Victim, TypeOK, Mentioned, Targeted, Copies, Deletes, Target,
       WritesA, WritesB
  <2>2. u # 0 /\ doc'[to][u].present =>
          doc[to][u].present /\ (doc[to][u].key = k => doc'[to][u] = doc[to][u])
    <3>1. CASE UserStep
      BY <2>1, <3>1, UserLeaves
    <3>2. CASE RestoreBundle
      BY <2>1, <3>2, RestoreAddsOne
    <3>3. CASE DeleteReplaced \/ \E j \in Key : DeleteDocument(j)
      BY <2>1, <3>3, DeletionsRemove DEF NoDoc
    <3>4. CASE UNCHANGED doc
      BY <3>4
    <3>5. QED
      BY <1>3, <3>1, <3>2, <3>3, <3>4, OthersKeepDocuments
  <2>3. QED
    BY <1>2, <1>3, <2>2 DEF VictimIsKnown
<1>4. QED
  BY <1>1, <1>3

LEMMA SameSiblings ==
  ASSUME doc' = doc, folders' = folders
  PROVE  \A s \in Side, k \in Key : Siblings(doc'[s], folders'[s], k) = Siblings(doc[s], folders[s], k)
  BY DEF Siblings

LEMMA PlaceStep ==
  ProcessInv /\ (UserStep => QuietRuns) /\ ListedIsKept /\ PlaceIsFree /\ [Next]_vars => PlaceIsFree'
<1> SUFFICES ASSUME ProcessInv, UserStep => QuietRuns, ListedIsKept, PlaceIsFree, [Next]_vars, Running'
             PROVE  PlaceIsFree'
  BY DEF PlaceIsFree
<1> USE DEF ProcessInv
<1>k. /\ FolderKeys \subseteq Key /\ cur.key \in Key
      /\ \A k \in Key : Target(plan[k].op) \in Side
  BY DocsPlanAssumption, SideFacts DEF Key, TypeOK, Action
<1>1. CASE MakePlan
  <2>1. /\ doc' = doc /\ folders' = folders /\ opts' = opts /\ phase = "scanned" /\ phase' = "run"
    BY <1>1 DEF MakePlan, tablets
  <2>2. ASSUME NEW k \in Key, plan'[k].op \in Copies
        PROVE  LET to == Target(plan'[k].op) IN
               /\ Siblings(doc[to], folders[to], k) \subseteq {plan'[k].replace}
               /\ k \in FolderKeys => folders[to] = {parent'[to]} \ {0}
    <3> DEFINE to == Target(plan'[k].op)
    <3>1. /\ to \in Side /\ plan'[k].replace = PlanLists[to].uuid[k]
          /\ parent'[to] = PlanLists[to].folder
          /\ to = "a" => CanWriteLocal(opts.mode)
      BY <1>1, <2>2, MadePlan, SideFacts DEF Copies, Respects, Target, WritesA, WritesB
    <3>2. ~Excluded(PlanLists, state[k], k)
      BY <1>1, <2>2, MadePlan DEF DispositionOf, Copies
    <3>3. k \notin PlanLists[to].excludedKeys
      BY <3>1, <3>2 DEF Excluded
    <3>4. CASE to = "a"
      BY <2>1, <3>1, <3>3, <3>4, ListsAreTyped DEF ListedIsKept
    <3>5. CASE to = "b"
      <4>1. /\ to = "b" /\ PlanLists[to] = Listing("b") /\ "b" \in Side
            /\ k \notin Listing("b").excludedKeys
        BY <3>1, <3>3, <3>5, ListsAreTyped
      <4>2. /\ Siblings(doc["b"], folders["b"], k) \subseteq {Listing("b").uuid[k]}
            /\ k \in FolderKeys => folders["b"] = {Listing("b").folder} \ {0}
        BY <4>1, ListingShows
      <4> HIDE DEF to
      <4>3. QED
        BY <3>1, <4>1, <4>2 DEF to
    <3>6. QED
      BY <3>1, <3>4, <3>5 DEF Side
  <2>3. \A s \in mkdir' : parent'[s] = 0
    BY <1>1, MadePlan DEF FoldersNeeded
  <2>4. \A s \in Side, k \in Key : Siblings(doc'[s], folders'[s], k) = Siblings(doc[s], folders[s], k)
    BY <2>1, SameSiblings
  <2>5. \A k \in Key, s \in Side : plan'[k].op \in Copies /\ s = Target(plan'[k].op) =>
          /\ Siblings(doc'[s], folders'[s], k) \subseteq {plan'[k].replace}
          /\ k \in FolderKeys => folders'[s] = {parent'[s]} \ {0}
    BY <2>1, <2>2, <2>4
  <2>6. QED
    BY <2>1, <2>3, <2>5, SideFacts DEF PlaceIsFree
<1>2. CASE UserStep
  <2>1. /\ UNCHANGED process /\ Running
    BY <1>2, UserFrame DEF process, Running
  <2>2. \A k \in Key : plan[k].op \in Copies => Targeted(Target(plan[k].op), k)
    BY <2>1 DEF Targeted, Target, Copies, WritesA, WritesB
  <2>3. \A k \in Key, s \in Side : plan[k].op \in Copies /\ s = Target(plan[k].op) =>
          /\ Siblings(doc'[s], folders'[s], k) \subseteq Siblings(doc[s], folders[s], k)
          /\ k \in FolderKeys => folders'[s] = folders[s]
    BY <1>2, <2>2, UserLeaves
  <2>4. \A k \in Key, s \in Side : phase = "replaced" /\ s = To /\ k = cur.key => Siblings(doc'[s], folders'[s], k) = {}
    BY <2>1, <2>3 DEF PlaceIsFree, RunShape, Copying, To, CurItem
  <2>5. To' = To /\ cur' = cur /\ phase' = phase
    BY <2>1 DEF process, To, CurItem
  <2>6. To \in Side
    BY <1>k DEF To, CurItem
  <2>7. phase' = "replaced" => Siblings(doc'[To'], folders'[To'], cur'.key) = {}
    BY <1>k, <2>4, <2>5, <2>6
  <2>8. QED
    BY <1>k, <2>1, <2>3, <2>7 DEF PlaceIsFree, process
<1>3. ASSUME NEW s \in Side, CreateFolder(s) PROVE PlaceIsFree'
  <2>1. PICK f \in NewFolderIds(s) : /\ folders' = [folders EXCEPT ![s] = @ \cup {f}]
                                     /\ parent' = [parent EXCEPT ![s] = f]
    BY <1>3 DEF CreateFolder
  <2>2. /\ s \in mkdir /\ mkdir' = mkdir \ {s} /\ plan' = plan /\ phase = "run" /\ phase' = "run"
        /\ Running
    BY <1>3 DEF CreateFolder, Running
  <2>3. f # 0
    BY DEF NewFolderIds, FolderId
  <2>4. \A k \in Key, t \in Side : plan[k].op \in Copies /\ t = Target(plan[k].op) =>
          /\ Siblings(doc'[t], folders'[t], k) = Siblings(doc[t], folders[t], k)
          /\ k \in FolderKeys => folders'[t] = {parent'[t]} \ {0}
    <3>1. SUFFICES ASSUME NEW k \in Key, NEW t \in Side, plan[k].op \in Copies, t = Target(plan[k].op),
                          k \in FolderKeys
                   PROVE  folders'[t] = {parent'[t]} \ {0}
      BY <1>3, FolderAddsNone
    <3>2. folders[t] = {parent[t]} \ {0} /\ parent[s] = 0
      BY <2>2, <3>1 DEF PlaceIsFree
    <3>3. CASE t = s
      <4>1. folders'[t] = folders[t] \cup {f} /\ parent'[t] = f
        BY <2>1, <3>3 DEF TypeOK
      <4>2. QED
        BY <2>3, <3>2, <3>3, <4>1
    <3>4. CASE t # s
      BY <2>1, <3>2, <3>4 DEF TypeOK
    <3>5. QED
      BY <3>3, <3>4
  <2>5. \A t \in mkdir' : parent'[t] = 0
    BY <2>1, <2>2 DEF PlaceIsFree, TypeOK
  <2>6. QED
    BY <1>k, <2>2, <2>4, <2>5 DEF PlaceIsFree
<1>4. ASSUME UNCHANGED <<doc, folders, plan, parent, mkdir>>, Running,
             phase' # "replaced" \/ (phase = "replaced" /\ cur' = cur),
             phase = "restored" => phase' = "restored" /\ cur' = cur
      PROVE  PlaceIsFree'
  <2>1. \A s \in Side, k \in Key : Siblings(doc'[s], folders'[s], k) = Siblings(doc[s], folders[s], k)
    BY <1>4, SameSiblings
  <2>2. phase' = "replaced" => To' = To /\ To \in Side /\ cur' = cur
    BY <1>4, <1>k DEF To, CurItem
  <2>3. phase' = "replaced" => Siblings(doc'[To'], folders'[To'], cur'.key) = {}
    BY <1>4, <1>k, <2>1, <2>2 DEF PlaceIsFree
  <2>4. QED
    BY <1>4, <1>k, <2>1, <2>3 DEF PlaceIsFree
<1>5. CASE UNCHANGED vars \/ (\E s \in Side : Restart(s) \/ RestartFails(s)) \/ (\E k \in Key : DownloadBundle(k))
  <2>1. CASE UNCHANGED vars
    BY <1>4, <2>1 DEF vars, process, tablets, Running
  <2>2. CASE \E s \in Side : Restart(s) \/ RestartFails(s)
    BY <1>4, <2>2 DEF Restart, RestartFails, Fail, EndRun, PlanDone, tablets, Running
  <2>3. CASE \E k \in Key : DownloadBundle(k)
    BY <1>4, <2>3 DEF DownloadBundle, IsNext, Advance, Fail, EndRun, Running
  <2>4. QED
    BY <1>5, <2>1, <2>2, <2>3
<1>6. CASE DeleteReplaced
  <2>1. /\ phase = "fetched" /\ phase' = "replaced" /\ cur' = cur /\ folders' = folders
        /\ UNCHANGED <<plan, parent, mkdir>> /\ Running /\ CurItem.op \in Copies
    BY <1>6 DEF DeleteReplaced, Advance, Running, RunShape, Copying
  <2>2. \A s \in Side, k \in Key :
          Siblings(doc'[s], folders'[s], k) = {u \in Siblings(doc[s], folders[s], k) : doc'[s][u] = doc[s][u]}
    BY <1>6, FewerSiblings, DeletionsRemove
  <2>3. To' = To /\ To \in Side
    BY <1>k, <2>1 DEF To, CurItem
  <2>4. \A s \in Side, k \in Key : s = To /\ k = cur.key => Siblings(doc'[s], folders'[s], k) = {}
    <3>1. SUFFICES ASSUME NEW s \in Side, NEW k \in Key, s = To, k = cur.key
                   PROVE  Siblings(doc'[s], folders'[s], k) = {}
      OBVIOUS
    <3>2. Siblings(doc[s], folders[s], k) \subseteq {CurItem.replace}
      BY <2>1, <3>1 DEF PlaceIsFree, To, CurItem
    <3>3. \A u \in Siblings(doc[s], folders[s], k) : u \in DocId /\ doc[s][u].present
      BY DEF Siblings, Reachable
    <3>4. CurItem.replace \in DocId => doc'[s][CurItem.replace] = NoDoc
      <4>1. CurItem.replace \in DocId => doc' = [doc EXCEPT ![To][CurItem.replace] = NoDoc]
        BY <1>6 DEF DeleteReplaced, DocId
      <4>2. QED
        BY <3>1, <4>1 DEF TypeOK
    <3>5. QED
      BY <2>2, <3>2, <3>3, <3>4 DEF NoDoc
  <2>5. Siblings(doc'[To'], folders'[To'], cur'.key) = {}
    BY <1>k, <2>1, <2>3, <2>4
  <2>6. QED
    BY <1>k, <2>1, <2>2, <2>5 DEF PlaceIsFree
<1>7. CASE RestoreBundle
  <2>1. /\ phase = "replaced" /\ phase' = "restored" /\ cur'.key = cur.key /\ folders' = folders
        /\ UNCHANGED <<plan, parent, mkdir>> /\ Running
    BY <1>7 DEF RestoreBundle, Advance, Running, TypeOK, Action
  <2>2. \A s \in Side, k \in Key : k # cur.key =>
                 Siblings(doc'[s], folders'[s], k) = Siblings(doc[s], folders[s], k)
    BY <1>7, RestoreAddsOne
  <2>3. QED
    BY <1>k, <2>1, <2>2 DEF PlaceIsFree
<1>8. ASSUME NEW k \in Key, DeleteDocument(k) PROVE PlaceIsFree'
  <2>1. /\ phase = "run" /\ phase' = "deleted" /\ folders' = folders
        /\ UNCHANGED <<plan, parent, mkdir>> /\ Running
    BY <1>8 DEF DeleteDocument, IsNext, Advance, Running
  <2>2. \A s \in Side, j \in Key : Siblings(doc'[s], folders'[s], j) \subseteq Siblings(doc[s], folders[s], j)
    BY <1>8, FewerSiblings, DeletionsRemove
  <2>3. QED
    BY <1>k, <2>1, <2>2 DEF PlaceIsFree
<1>9. ASSUME NEW k \in Key, NEW e, Save(k, e), Running, phase = "restored" => k = cur.key
      PROVE  PlaceIsFree'
  <2>1. /\ phase' = "run" /\ doc' = doc /\ folders' = folders
        /\ plan' = [plan EXCEPT ![k] = NoItem] /\ UNCHANGED <<parent, mkdir>>
    BY <1>9 DEF Save, tablets
  <2>2. \A j \in Key : plan'[j].op \in Copies => j # k /\ plan'[j] = plan[j]
    BY <2>1, NoPlan DEF TypeOK
  <2>3. \A s \in Side, j \in Key : Siblings(doc'[s], folders'[s], j) = Siblings(doc[s], folders[s], j)
    BY <2>1, SameSiblings
  <2>4. QED
    BY <1>9, <1>k, <2>1, <2>2, <2>3 DEF PlaceIsFree
<1>10. CASE RecordCopy \/ RecordDelete \/ \E k \in Key : ForgetEntry(k)
  BY <1>9, <1>10, <1>k DEF RecordCopy, RecordDelete, ForgetEntry, IsNext, Running
<1>11. ~Finish /\ ~Crash /\ ~(\E o \in Options : Scan(o))
  BY DEF Finish, Crash, Scan, EndRun, Running
<1>12. QED
  BY <1>1, <1>2, <1>3, <1>5, <1>6, <1>7, <1>8, <1>10, <1>11 DEF Next, SyncStep, ExecuteStep

LEMMA InitQuiet == Init => QuietInv
  BY DEF Init, QuietInv, ListedIsKept, VictimIsKnown, PlaceIsFree, Running

\* While users leave alone what a running plan is to write, what execute_docs is
\* still to delete is what remote_snapshot listed, and the place it restores to is free.
THEOREM QuietInvariant == QuietRuns => (Spec => []QuietInv)
<1>1. SUFFICES ASSUME QuietRuns PROVE Spec => []QuietInv
  OBVIOUS
<1>2. ProcessInv /\ QuietInv /\ [Next]_vars => QuietInv'
  BY <1>1, ListedKept, VictimStep, PlaceStep DEF QuietInv
<1>3. QED
  BY <1>2, InitQuiet, ProcessInvariant, PTL DEF Spec

\* While users leave alone what a running plan is to write, the sync under the
\* skip policy removes a document only as the pair state knows it.  Without that
\* proviso it does not ("never silently overwritten", README.md:124): a document
\* edited after its listing is replaced all the same.
THEOREM SkipNeverOverwrites == QuietRuns => (Spec => NeverSilentlyOverwritten)
<1>1. SUFFICES ASSUME QuietRuns PROVE Spec => NeverSilentlyOverwritten
  OBVIOUS
<1>2. ProcessInv /\ QuietInv /\ [Next]_vars =>
        [edits' = edits /\ opts.conflict = "Skip" =>
           \A s \in Side : \A u \in DocId : doc[s][u].present /\ ~doc'[s][u].present =>
             \E k \in Key : state[k].mapped /\ state[k].uuid[s] = u /\ state[k].lm[s] = doc[s][u].lm]_vars
  <2> SUFFICES ASSUME ProcessInv, QuietInv, [Next]_vars, edits' = edits, opts.conflict = "Skip",
                      NEW s \in Side, NEW u \in DocId, doc[s][u].present, ~doc'[s][u].present
               PROVE  \E k \in Key : /\ state[k].mapped /\ state[k].uuid[s] = u
                                     /\ state[k].lm[s] = doc[s][u].lm
    OBVIOUS
  <2> USE DEF ProcessInv
  <2>1. ~UserStep
    BY UserFrame DEF TypeOK
  <2>2. ASSUME NEW k \in Key, Running, plan[k].op \in Copies \cup Deletes, s = Target(plan[k].op),
               u = Victim(plan[k])
        PROVE  state[k].mapped /\ state[k].uuid[s] = u /\ state[k].lm[s] = doc[s][u].lm
    BY <2>2, DocsPlanAssumption DEF QuietInv, VictimIsKnown, DocId
  <2>3. CASE DeleteReplaced
    <3>1. /\ cur.key \in Key /\ Running /\ CurItem.op \in Copies
          /\ Victim(CurItem) = CurItem.replace
      BY <2>3 DEF DeleteReplaced, RunShape, Copying, Running, Victim, TypeOK, Action
    <3>2. s = To /\ u = CurItem.replace
      BY <2>3 DEF DeleteReplaced, TypeOK
    <3>3. QED
      BY <2>2, <3>1, <3>2 DEF To, CurItem
  <2>4. ASSUME NEW k \in Key, DeleteDocument(k) PROVE s = Target(plan[k].op) /\ u = Victim(plan[k])
                                                     /\ plan[k].op \in Deletes /\ Running
    BY <2>4 DEF DeleteDocument, IsNext, IsFirst, Pending, Victim, Copies, Deletes, Running, TypeOK
  <2>5. ~RestoreBundle
    <3>1. ASSUME RestoreBundle PROVE FALSE
      BY <3>1, RestoreAddsOne
    <3>2. QED
      BY <3>1
  <2>6. QED
    BY <2>1, <2>2, <2>3, <2>4, <2>5, OthersKeepDocuments
<1>3. QED
  BY <1>1, <1>2, ProcessInvariant, QuietInvariant, PTL DEF Spec, NeverSilentlyOverwritten

\* A path that is ambiguous after a step of the sync was so before.
LEMMA NoNewExclusion ==
  ASSUME ProcessInv, QuietInv, [Next]_vars, edits' = edits, NEW s \in Side
  PROVE  ExcludedKeys(doc'[s], folders'[s]) \subseteq ExcludedKeys(doc[s], folders[s])
<1> USE DEF ProcessInv
<1>1. \A k \in Key :
        /\ k \in ExcludedKeys(doc[s], folders[s]) <=>
             \/ k \in FolderKeys /\ Cardinality(folders[s]) > 1
             \/ Cardinality(Siblings(doc[s], folders[s], k)) > 1
        /\ k \in ExcludedKeys(doc'[s], folders'[s]) <=>
             \/ k \in FolderKeys /\ Cardinality(folders'[s]) > 1
             \/ Cardinality(Siblings(doc'[s], folders'[s], k)) > 1
  BY DEF ExcludedKeys, Siblings
<1>2. /\ IsFiniteSet(folders[s]) /\ IsFiniteSet(folders'[s])
      /\ \A k \in Key : /\ IsFiniteSet(Siblings(doc[s], folders[s], k))
                        /\ IsFiniteSet(Siblings(doc'[s], folders'[s], k))
  <2>1. IsFiniteSet(DocId) /\ IsFiniteSet(FolderId)
    BY FS_Interval, DocsPlanAssumption DEF DocId, FolderId
  <2>2. folders[s] \subseteq FolderId /\ folders'[s] \subseteq FolderId
    BY NextProcess DEF TypeOK
  <2>3. \A docs, fs : \A k \in Key : Siblings(docs, fs, k) \subseteq DocId
    BY DEF Siblings, Reachable
  <2>4. QED
    BY <2>1, <2>2, <2>3, FS_Subset
<1>3. ExcludedKeys(doc'[s], folders'[s]) \subseteq Key
  BY DEF ExcludedKeys
<1>4. ASSUME Cardinality(folders'[s]) > 1, Cardinality(folders[s]) <= 1 PROVE FALSE
  <2>1. folders'[s] # folders[s]
    BY <1>4, <1>2, FS_CardinalityType
  <2>2. SyncTouches(s)
    BY <2>1 DEF SyncTouches
  <2>3. CreateFolder(s)
    BY <2>1, <2>2, SyncWrites DEF DeleteReplaced, RestoreBundle, DeleteDocument, Advance
  <2>4. PICK f : folders'[s] = folders[s] \cup {f}
    BY <2>3 DEF CreateFolder, TypeOK
  <2>5. folders[s] = {}
    <3>1. s \in mkdir /\ Running
      BY <2>3 DEF CreateFolder, Running
    <3>2. PICK k \in FolderKeys : plan[k].op \in Copies /\ Target(plan[k].op) = s
      BY <3>1 DEF FolderIsPlanned
    <3>3. k \in Key /\ parent[s] = 0
      BY <3>1, DocsPlanAssumption DEF QuietInv, PlaceIsFree, Key
    <3>4. QED
      BY <3>1, <3>2, <3>3 DEF QuietInv, PlaceIsFree
  <2>6. QED
    BY <1>2, <1>4, <2>4, <2>5, AtMostOne
<1>5. ASSUME NEW k \in Key, Cardinality(Siblings(doc'[s], folders'[s], k)) > 1,
             ~(Cardinality(Siblings(doc[s], folders[s], k)) > 1)
      PROVE  FALSE
  <2>1. PICK x \in Siblings(doc'[s], folders'[s], k), y \in Siblings(doc'[s], folders'[s], k) : x # y
    BY <1>2, <1>5, AtMostOne
  <2>2. ~(Siblings(doc'[s], folders'[s], k) \subseteq Siblings(doc[s], folders[s], k))
    BY <1>2, <1>5, <2>1, AtMostOne
  <2>3. SyncTouches(s)
    BY <2>2 DEF SyncTouches
  <2>4. RestoreBundle
    <3>1. ~CreateFolder(s)
      BY <2>2, FolderAddsNone
    <3>2. ~DeleteReplaced /\ ~(\E j \in Key : DeleteDocument(j))
      BY <2>2, DeletionsRemove, FewerSiblings
    <3>3. QED
      BY <2>3, <3>1, <3>2, SyncWrites
  <2>5. s = To /\ k = cur.key
    BY <2>2, <2>4, RestoreAddsOne
  <2>6. Siblings(doc[s], folders[s], k) = {}
    BY <2>4, <2>5 DEF QuietInv, PlaceIsFree, RestoreBundle, Running
  <2>7. QED
    BY <2>1, <2>4, <2>5, <2>6, RestoreAddsOne
<1>6. Cardinality(folders[s]) \in Nat
  BY <1>2, FS_CardinalityType
<1>7. QED
  BY <1>1, <1>3, <1>4, <1>5, <1>6

\* A restore gives no tablet two documents of one path, and no run makes a second
\* subfolder, while users leave alone what it is to write.
THEOREM NamesStayUnique == QuietRuns => (Spec => MakesNoDuplicates)
<1>1. SUFFICES ASSUME QuietRuns PROVE Spec => MakesNoDuplicates
  OBVIOUS
<1>2. ProcessInv /\ QuietInv /\ [Next]_vars =>
        [edits' = edits => \A s \in Side :
           ExcludedKeys(doc'[s], folders'[s]) \subseteq ExcludedKeys(doc[s], folders[s])]_vars
  BY NoNewExclusion
<1>3. QED
  BY <1>1, <1>2, ProcessInvariant, QuietInvariant, PTL DEF Spec, MakesNoDuplicates

\* ---------------------------------------------------------------------
\* No document that a user still wants disappears.

Holds(docs, k) == \E u \in DocId : docs[u].present /\ docs[u].key = k

\* Of a tablet s, the document that an entry of key k stands for is as recorded.
IsKnown(docs, e, s, k) ==
  e.mapped /\ \E u \in DocId : /\ u = e.uuid[s] /\ docs[u].present /\ docs[u].key = k
                               /\ docs[u].lm = e.lm[s]

\* Every document is in a folder that exists: a listing shows it.
HomesExist ==
  \A s \in Side, u \in DocId : doc[s][u].present => doc[s][u].home \in folders[s] \cup {0}

\* Where the pair state knows one document of a pair, the other is there too, or
\* the next run would take its absence for a deletion.
PairsAreWhole ==
  \A k \in wanted, s \in Side :
    IsKnown(doc[s], state[k], s, k) => Holds(doc[Other(s)], k)

\* The same, of the listing of tablet a that a plan is to be made from.
ListedSurvive ==
  phase = "scanned" => \A k \in wanted \ listA.excludedKeys :
    LET u == listA.uuid[k] IN
    /\ u # 0 => doc["a"][u].present /\ doc["a"][u].key = k
    /\ u = 0 => ~IsKnown(doc["b"], state[k], "b", k)
    /\ IsKnown(doc["a"], state[k], "a", k) => state[k].uuid["a"] = u /\ state[k].lm["a"] = listA.lm[k]

\* A wanted document is never deleted; replaced, it is so by one that is there
\* and that the pair state does not know.
PlannedSurvive ==
  /\ \A k \in wanted : Running =>
       /\ plan[k].op \notin Deletes
       /\ plan[k].op \in Copies =>
            LET from == Other(Target(plan[k].op)) IN
            /\ doc[from][plan[k].uuid].present /\ doc[from][plan[k].uuid].key = k
            /\ plan[k].replace # 0 => ~IsKnown(doc[from], state[k], from, k)
  /\ phase = "restored" /\ cur.key \in wanted =>
       doc[To][cur.uuid].present /\ doc[To][cur.uuid].key = cur.key

SurvivalInv == HomesExist /\ PairsAreWhole /\ ListedSurvive /\ PlannedSurvive /\ DocumentsSurvive

\* A user who takes a document away, or renames it, no longer wants it there.
LEMMA UserKeeps ==
  ASSUME TypeOK, UserStep, NEW s \in Side, NEW u \in DocId,
         doc[s][u].present, doc[s][u].key \in wanted'
  PROVE  doc'[s][u].present /\ doc'[s][u].key = doc[s][u].key
<1> DEFINE Good == doc'[s][u].present /\ doc'[s][u].key = doc[s][u].key
<1> USE DEF TypeOK
<1>0. doc'[s][u] = doc[s][u] => Good
  OBVIOUS
<1>1. ASSUME NEW t \in Side, NEW v \in DocId, Annotate(t, v) PROVE Good
  <2>1. doc[t][v] \in Doc /\ doc' = [doc EXCEPT ![t][v] =
          [doc[t][v] EXCEPT !.ver = NewVersion, !.lm = clock[t] + 1]]
    BY <1>1 DEF Annotate
  <2>2. CASE t = s /\ v = u
    <3>1. doc'[s][u] = [doc[s][u] EXCEPT !.ver = NewVersion, !.lm = clock[s] + 1]
      BY <2>1, <2>2
    <3>2. QED
      BY <2>1, <2>2, <3>1 DEF Doc
  <2>3. CASE ~(t = s /\ v = u)
    BY <1>0, <2>1, <2>3
  <2>4. QED
    BY <2>2, <2>3
<1>2. ASSUME NEW t \in Side, NEW v \in DocId, Remove(t, v) PROVE Good
  BY <1>0, <1>2 DEF Remove
<1>3. ASSUME NEW t \in Side, NEW v \in DocId, NEW j \in Key, MoveTo(t, v, j) PROVE Good
  BY <1>0, <1>3 DEF MoveTo
<1>4. ASSUME NEW t \in Side, NEW j \in Key, Create(t, j) PROVE Good
  <2>1. PICK v \in NewDocIds(t), home \in HomesFor(t, j) :
          doc' = [doc EXCEPT ![t][v] = [present |-> TRUE, key |-> j, home |-> home,
                                        ver |-> NewVersion, lm |-> clock[t] + 1]]
    BY <1>4 DEF Create
  <2>2. ~doc[t][v].present
    BY DEF NewDocIds, Mentioned
  <2>3. QED
    BY <1>0, <2>1, <2>2
<1>5. ASSUME NEW t \in Side, MakeFolder(t) PROVE Good
  BY <1>0, <1>5 DEF MakeFolder
<1>6. ASSUME NEW t \in Side, RemoveFolder(t) PROVE Good
  <2>1. PICK f \in folders[t] :
          LET inside == {v \in DocId : doc[t][v].present /\ doc[t][v].home = f} IN
          /\ doc' = [doc EXCEPT ![t] = [v \in DocId |-> IF v \in inside THEN NoDoc ELSE doc[t][v]]]
          /\ wanted' = wanted \ {doc[t][v].key : v \in inside}
    BY <1>6 DEF RemoveFolder
  <2>2. QED
    BY <1>0, <2>1
<1>7. QED
  BY <1>1, <1>2, <1>3, <1>4, <1>5, <1>6 DEF UserStep

\* What is known after a step that keeps its entry was known before.
LEMMA KnownStays ==
  ASSUME ProcessInv, StampsArePast, [Next]_vars, NEW s \in Side, NEW k \in Key, state'[k] = state[k],
         IsKnown(doc'[s], state'[k], s, k)
  PROVE  IsKnown(doc[s], state[k], s, k)
<1>1. /\ state[k].lm[s] \in Nat /\ state[k].lm[s] <= clock[s]
  BY DEF ProcessInv, TypeOK, Entry, StampsArePast
<1>2. PICK u \in DocId : /\ u = state[k].uuid[s] /\ doc'[s][u].present /\ doc'[s][u].key = k
                         /\ doc'[s][u].lm = state[k].lm[s]
  BY DEF IsKnown
<1>3. doc'[s][u] = doc[s][u]
  BY <1>1, <1>2, StampedIsKept
<1>4. QED
  BY <1>2, <1>3 DEF IsKnown

\* The sync removes nothing but the document an action is to replace or delete.
LEMMA SyncKeeps ==
  ASSUME ProcessInv, VictimIsKnown, [Next]_vars, ~UserStep, NEW s \in Side, NEW u \in DocId, doc[s][u].present
  PROVE  \/ doc'[s][u] = doc[s][u]
         \/ LET k == doc[s][u].key IN
            /\ Running /\ plan[k].op \in Copies \cup Deletes
            /\ s = Target(plan[k].op) /\ u = Victim(plan[k])
<1> USE DEF ProcessInv
<1>1. u # 0
  BY DEF DocId
<1>2. CASE DeleteReplaced
  <2>1. /\ cur.key \in Key /\ Running /\ CurItem.op \in Copies
        /\ Victim(CurItem) = CurItem.replace
    BY <1>2 DEF DeleteReplaced, RunShape, Copying, Running, Victim, TypeOK, Action
  <2>2. doc'[s][u] # doc[s][u] => s = To /\ u = CurItem.replace
    BY <1>2 DEF DeleteReplaced, TypeOK
  <2>3. QED
    BY <1>1, <2>1, <2>2 DEF VictimIsKnown, To, CurItem
<1>3. ASSUME NEW k \in Key, DeleteDocument(k), doc'[s][u] # doc[s][u]
      PROVE  LET j == doc[s][u].key IN
             /\ Running /\ plan[j].op \in Copies \cup Deletes
             /\ s = Target(plan[j].op) /\ u = Victim(plan[j])
  <2>1. /\ plan[k].op \in Deletes /\ Running /\ Victim(plan[k]) = plan[k].uuid
        /\ s = Target(plan[k].op) /\ u = plan[k].uuid
    BY <1>3 DEF DeleteDocument, IsNext, IsFirst, Pending, Victim, Copies, Deletes, Running, TypeOK
  <2>2. QED
    BY <1>1, <2>1 DEF VictimIsKnown
<1>4. CASE RestoreBundle
  BY <1>4, RestoreAddsOne
<1>5. QED
  BY <1>2, <1>3, <1>4, OthersKeepDocuments

\* Nothing becomes wanted again.
LEMMA WantedShrinks ==
  ASSUME TypeOK, [Next]_vars
  PROVE  wanted' \subseteq wanted
<1>1. CASE UserStep
  <2>1. \A s \in Side, u \in DocId : Annotate(s, u) \/ Remove(s, u) => wanted' \subseteq wanted
    BY DEF Annotate, Remove
  <2>2. \A s \in Side, u \in DocId, k \in Key : MoveTo(s, u, k) => wanted' \subseteq wanted
    BY DEF MoveTo
  <2>3. \A s \in Side, k \in Key : Create(s, k) => wanted' \subseteq wanted
    BY DEF Create
  <2>4. \A s \in Side : MakeFolder(s) \/ RemoveFolder(s) => wanted' \subseteq wanted
    BY DEF MakeFolder, RemoveFolder
  <2>5. QED
    BY <1>1, <2>1, <2>2, <2>3, <2>4 DEF UserStep
<1>2. CASE \/ MakePlan \/ Finish \/ Crash \/ RecordCopy \/ RecordDelete
           \/ DeleteReplaced \/ RestoreBundle
           \/ \E o \in Options : Scan(o)
  BY <1>2 DEF MakePlan, Finish, Crash, RecordCopy, RecordDelete, DeleteReplaced, RestoreBundle,
     Advance, Save, Scan, ghosts
<1>3. CASE \/ \E s \in Side : CreateFolder(s) \/ Restart(s) \/ RestartFails(s)
           \/ UNCHANGED vars
  BY <1>3 DEF CreateFolder, Restart, RestartFails, Fail, vars, ghosts
<1>4. CASE \E k \in Key : DownloadBundle(k) \/ DeleteDocument(k) \/ ForgetEntry(k)
  BY <1>4 DEF DownloadBundle, DeleteDocument, ForgetEntry, Advance, Fail, Save, ghosts
<1>5. QED
  BY <1>1, <1>2, <1>3, <1>4 DEF Next, SyncStep, ExecuteStep

\* While every document is in a folder that exists, an unambiguous path that is
\* listed empty is empty.
LEMMA ListingFindsAll ==
  ASSUME TypeOK, HomesExist, NEW s \in Side, NEW k \in Key, k \notin Listing(s).excludedKeys,
         NEW u \in DocId, doc[s][u].present, doc[s][u].key = k
  PROVE  Listing(s).uuid[k] = u /\ Listing(s).lm[k] = doc[s][u].lm
<1>1. u \in Siblings(doc[s], folders[s], k)
  BY DEF HomesExist, Siblings, Reachable
<1>2. Siblings(doc[s], folders[s], k) = {Listing(s).uuid[k]} \ {0}
  BY ListingShows
<1>3. Listing(s).uuid[k] = u /\ u # 0
  BY <1>1, <1>2 DEF DocId
<1>4. doc[s] \in [DocId -> Doc] /\ folders[s] \in SUBSET FolderId
  BY DEF TypeOK
<1>5. QED
  BY <1>3, <1>4, ListingIsTyped DEF Listing

LEMMA HomesStep == ProcessInv /\ PlaceIsFree /\ HomesExist /\ [Next]_vars => HomesExist'
<1> SUFFICES ASSUME ProcessInv, PlaceIsFree, HomesExist, [Next]_vars,
                    NEW s \in Side, NEW u \in DocId, doc'[s][u].present
             PROVE  doc'[s][u].home \in folders'[s] \cup {0}
  BY DEF HomesExist
<1> DEFINE Good == doc'[s][u].home \in folders'[s] \cup {0}
<1> USE DEF ProcessInv, TypeOK
<1>0. doc'[s][u] = doc[s][u] /\ folders[s] \subseteq folders'[s] => Good
  BY DEF HomesExist
<1>1. ASSUME NEW t \in Side, NEW v \in DocId, Annotate(t, v) PROVE Good
  <2>1. doc[t][v] \in Doc /\ doc[t][v].present /\ folders' = folders /\ doc' = [doc EXCEPT ![t][v] =
          [doc[t][v] EXCEPT !.ver = NewVersion, !.lm = clock[t] + 1]]
    BY <1>1 DEF Annotate
  <2>2. CASE t = s /\ v = u
    <3>1. doc'[s][u] = [doc[s][u] EXCEPT !.ver = NewVersion, !.lm = clock[s] + 1]
      BY <2>1, <2>2
    <3>2. doc'[s][u].home = doc[s][u].home
      BY <2>1, <2>2, <3>1 DEF Doc
    <3>3. QED
      BY <2>1, <2>2, <3>2 DEF HomesExist
  <2>3. CASE ~(t = s /\ v = u)
    BY <1>0, <2>1, <2>3
  <2>4. QED
    BY <2>2, <2>3
<1>2. ASSUME NEW t \in Side, NEW v \in DocId, Remove(t, v) PROVE Good
  BY <1>0, <1>2 DEF Remove, NoDoc
<1>3. ASSUME NEW t \in Side, NEW v \in DocId, NEW j \in Key, MoveTo(t, v, j) PROVE Good
  <2>1. PICK home \in HomesFor(t, j) :
          doc' = [doc EXCEPT ![t][v] = [doc[t][v] EXCEPT !.key = j, !.home = home, !.lm = clock[t] + 1]]
    BY <1>3 DEF MoveTo
  <2>2. folders' = folders /\ home \in folders[t] \cup {0} /\ doc[t][v] \in Doc
    BY <1>3 DEF MoveTo, HomesFor
  <2>3. CASE t = s /\ v = u
    <3>1. doc'[s][u] = [doc[s][u] EXCEPT !.key = j, !.home = home, !.lm = clock[s] + 1]
      BY <2>1, <2>3
    <3>2. QED
      BY <2>2, <2>3, <3>1 DEF Doc
  <2>4. CASE ~(t = s /\ v = u)
    BY <1>0, <2>1, <2>2, <2>4
  <2>5. QED
    BY <2>3, <2>4
<1>4. ASSUME NEW t \in Side, NEW j \in Key, Create(t, j) PROVE Good
  <2>1. PICK v \in NewDocIds(t), home \in HomesFor(t, j) :
          doc' = [doc EXCEPT ![t][v] = [present |-> TRUE, key |-> j, home |-> home,
                                        ver |-> NewVersion, lm |-> clock[t] + 1]]
    BY <1>4 DEF Create
  <2>2. folders' = folders /\ home \in folders[t] \cup {0}
    BY <1>4 DEF Create, HomesFor
  <2>3. QED
    BY <1>0, <2>1, <2>2
<1>5. ASSUME NEW t \in Side, MakeFolder(t) PROVE Good
  BY <1>0, <1>5 DEF MakeFolder
<1>6. ASSUME NEW t \in Side, RemoveFolder(t) PROVE Good
  <2>1. PICK f \in folders[t] :
          LET inside == {v \in DocId : doc[t][v].present /\ doc[t][v].home = f} IN
          /\ folders' = [folders EXCEPT ![t] = folders[t] \ {f}]
          /\ doc' = [doc EXCEPT ![t] = [v \in DocId |-> IF v \in inside THEN NoDoc ELSE doc[t][v]]]
    BY <1>6 DEF RemoveFolder
  <2>2. CASE t = s
    <3>1. ~NoDoc.present
      BY DEF NoDoc
    <3>2. doc'[s][u] = doc[s][u] /\ doc[s][u].home # f
      BY <2>1, <2>2, <3>1
    <3>3. QED
      BY <2>1, <2>2, <3>2 DEF HomesExist
  <2>3. CASE t # s
    BY <1>0, <2>1, <2>3
  <2>4. QED
    BY <2>2, <2>3
<1>7. CASE UserStep
  BY <1>1, <1>2, <1>3, <1>4, <1>5, <1>6, <1>7 DEF UserStep
<1>8. CASE RestoreBundle
  <2>1. /\ cur.key \in Key /\ CurItem.op \in Copies /\ Running /\ To \in Side /\ folders' = folders
    BY <1>8, SideFacts DEF RestoreBundle, RunShape, Copying, Running, Action, To, Advance
  <2>2. ParentOf(To, cur.key) \in folders[To] \cup {0}
    <3>1. cur.key \in FolderKeys => folders[To] = {parent[To]} \ {0}
      BY <2>1 DEF PlaceIsFree, To, CurItem
    <3>2. QED
      BY <3>1 DEF ParentOf
  <2>3. QED
    BY <1>0, <1>8, <2>1, <2>2, RestoreAddsOne
<1>9. CASE DeleteReplaced \/ \E k \in Key : DeleteDocument(k)
  BY <1>0, <1>9, DeletionsRemove DEF NoDoc
<1>10. CASE UNCHANGED doc /\ ~UserStep
  <2>1. folders[s] \subseteq folders'[s]
    <3>1. folders'[s] # folders[s] => SyncTouches(s)
      <4>1. edits' = edits \/ UserStep
        BY DEF Next, SyncStep, ExecuteStep, MakePlan, Scan, CreateFolder, Restart, RestartFails, DownloadBundle,
           DeleteDocument, ForgetEntry, DeleteReplaced, RestoreBundle, RecordCopy, RecordDelete,
           Finish, Crash, Advance, Save, Fail, vars
      <4>2. QED
        BY <1>10, <4>1 DEF SyncTouches
    <3>2. CASE SyncTouches(s)
      <4>1. CASE CreateFolder(s)
        BY <4>1 DEF CreateFolder
      <4>2. CASE DeleteReplaced \/ RestoreBundle \/ \E k \in Key : DeleteDocument(k)
        BY <4>2 DEF DeleteReplaced, RestoreBundle, DeleteDocument, Advance
      <4>3. QED
        BY <3>2, <4>1, <4>2, SyncWrites
    <3>3. QED
      BY <3>1, <3>2
  <2>2. QED
    BY <1>0, <1>10, <2>1
<1>11. QED
  BY <1>7, <1>8, <1>9, <1>10, OthersKeepDocuments

\* An entry changes only by the record of a copy, or when it is dropped.
LEMMA EntryStep ==
  ASSUME ProcessInv, [Next]_vars, NEW k \in Key, state'[k] # state[k]
  PROVE  /\ UNCHANGED doc
         /\ ~state'[k].mapped \/ (RecordCopy /\ k = cur.key)
<1> USE DEF ProcessInv
<1>1. ASSUME NEW j \in Key, NEW e, Save(j, e)
      PROVE  UNCHANGED doc /\ k = j /\ state'[k] = e
  BY <1>1 DEF Save, tablets, TypeOK
<1>2. cur.key \in Key /\ ~NoEntry.mapped
  BY DEF TypeOK, Action, NoEntry
<1>3. CASE RecordCopy \/ RecordDelete \/ \E j \in Key : ForgetEntry(j)
  BY <1>1, <1>2, <1>3 DEF RecordCopy, RecordDelete, ForgetEntry
<1>4. CASE \/ UserStep \/ MakePlan \/ Finish \/ Crash \/ DeleteReplaced \/ RestoreBundle
           \/ \E o \in Options : Scan(o)
  BY <1>4, UserFrame DEF MakePlan, Finish, Crash, DeleteReplaced, RestoreBundle, Advance, Scan
<1>5. CASE \/ \E s \in Side : CreateFolder(s) \/ Restart(s) \/ RestartFails(s)
           \/ \E j \in Key : DownloadBundle(j) \/ DeleteDocument(j)
           \/ UNCHANGED vars
  BY <1>5 DEF CreateFolder, Restart, RestartFails, DownloadBundle, DeleteDocument, Advance, Fail, vars
<1>6. QED
  BY <1>3, <1>4, <1>5 DEF Next, SyncStep, ExecuteStep

\* A document whose path is still wanted stays, unless an action replaces it.
LEMMA WantedStays ==
  ASSUME ProcessInv, VictimIsKnown, PlannedSurvive, [Next]_vars,
         NEW s \in Side, NEW k \in wanted', NEW u \in DocId, doc[s][u].present, doc[s][u].key = k
  PROVE  \/ doc'[s][u].present /\ doc'[s][u].key = k
         \/ /\ ~UserStep /\ Running /\ plan[k].op \in Copies
            /\ s = Target(plan[k].op) /\ plan[k].replace # 0
<1>1. CASE UserStep
  BY <1>1, UserKeeps DEF ProcessInv
<1>2. CASE ~UserStep
  <2>1. k \in wanted /\ u # 0
    BY WantedShrinks DEF ProcessInv, DocId
  <2>2. CASE doc'[s][u] = doc[s][u]
    BY <2>2
  <2>3. CASE /\ Running /\ plan[k].op \in Copies \cup Deletes
             /\ s = Target(plan[k].op) /\ u = Victim(plan[k])
    BY <1>2, <2>1, <2>3 DEF PlannedSurvive, Victim
  <2>4. QED
    BY <1>2, <2>2, <2>3, SyncKeeps
<1>3. QED
  BY <1>1, <1>2

LEMMA PairsStep ==
  ProcessInv /\ StampsArePast /\ VictimIsKnown /\ PairsAreWhole /\ PlannedSurvive /\ [Next]_vars
    => PairsAreWhole'
<1> SUFFICES ASSUME ProcessInv, StampsArePast, VictimIsKnown, PairsAreWhole, PlannedSurvive, [Next]_vars,
                    NEW k \in wanted', NEW s \in Side, IsKnown(doc'[s], state'[k], s, k)
             PROVE  Holds(doc'[Other(s)], k)
  BY DEF PairsAreWhole
<1> USE DEF ProcessInv
<1>1. k \in wanted /\ k \in Key /\ Other(s) \in Side /\ s # Other(s) /\ Other(Other(s)) = s
  BY WantedShrinks DEF TypeOK, Side, Other
<1>2. CASE state'[k] = state[k]
  <2>1. IsKnown(doc[s], state[k], s, k)
    BY <1>1, <1>2, KnownStays
  <2>2. PICK u \in DocId : doc[Other(s)][u].present /\ doc[Other(s)][u].key = k
    BY <1>1, <2>1 DEF PairsAreWhole, Holds
  <2>3. CASE doc'[Other(s)][u].present /\ doc'[Other(s)][u].key = k
    BY <2>3 DEF Holds
  <2>4. CASE /\ Running /\ plan[k].op \in Copies
             /\ Other(s) = Target(plan[k].op) /\ plan[k].replace # 0
    <3>1. ~IsKnown(doc[s], state[k], s, k)
      BY <1>1, <2>4 DEF PlannedSurvive
    <3>2. QED
      BY <2>1, <3>1
  <2>5. QED
    BY <1>1, <2>2, <2>3, <2>4, WantedStays
<1>3. CASE state'[k] # state[k]
  <2>1. doc' = doc /\ RecordCopy /\ k = cur.key
    BY <1>1, <1>3, EntryStep DEF IsKnown
  <2>2. phase = "restored" /\ Running /\ CurItem.op \in Copies /\ To \in Side /\ cur.uuid \in DocId
        /\ CurItem = plan[k] /\ CurItem.uuid \in DocId
    BY <1>1, <2>1, SideFacts DEF RecordCopy, Running, RunShape, Copying, To, CurItem, TypeOK
  <2>3. doc[To][cur.uuid].present /\ doc[To][cur.uuid].key = k
    BY <1>1, <2>1, <2>2 DEF PlannedSurvive
  <2>4. doc[Other(To)][CurItem.uuid].present /\ doc[Other(To)][CurItem.uuid].key = k
    BY <1>1, <2>1, <2>2 DEF PlannedSurvive, To
  <2>5. Other(s) = To \/ Other(s) = Other(To)
    BY <2>2 DEF Side, Other
  <2>6. QED
    BY <2>1, <2>2, <2>3, <2>4, <2>5 DEF Holds
<1>4. QED
  BY <1>2, <1>3

LEMMA ListedStep ==
  /\ ProcessInv /\ StampsArePast
  /\ HomesExist /\ PairsAreWhole /\ ListedSurvive /\ [Next]_vars
  => ListedSurvive'
<1> SUFFICES ASSUME ProcessInv, StampsArePast, HomesExist, PairsAreWhole, ListedSurvive, [Next]_vars,
                    phase' = "scanned", NEW k \in wanted', k \notin listA'.excludedKeys
             PROVE  LET u == listA'.uuid[k] IN
                    /\ u # 0 => doc'["a"][u].present /\ doc'["a"][u].key = k
                    /\ u = 0 => ~IsKnown(doc'["b"], state'[k], "b", k)
                    /\ IsKnown(doc'["a"], state'[k], "a", k) =>
                         state'[k].uuid["a"] = u /\ state'[k].lm["a"] = listA'.lm[k]
  BY DEF ListedSurvive
<1> USE DEF ProcessInv
<1>0. "a" \in Side /\ "b" \in Side /\ k \in wanted /\ k \in Key /\ Other("b") = "a"
  BY WantedShrinks DEF Side, TypeOK, Other
<1>1. CASE \E o \in Options : Scan(o)
  <2>1. listA' = Listing("a") /\ doc' = doc /\ state' = state
    BY <1>1 DEF Scan, tablets
  <2>2. doc["a"] \in [DocId -> Doc] /\ folders["a"] \in SUBSET FolderId
    BY <1>0 DEF TypeOK
  <2>3. \A u \in DocId : doc["a"][u].present /\ doc["a"][u].key = k =>
          Listing("a").uuid[k] = u /\ Listing("a").lm[k] = doc["a"][u].lm
    BY <1>0, <2>1, ListingFindsAll
  <2>4. Listing("a").uuid[k] # 0 => /\ doc["a"][Listing("a").uuid[k]].present
                                    /\ doc["a"][Listing("a").uuid[k]].key = k
    BY <1>0, <2>2, ListingIsTyped DEF Listing
  <2>5. Listing("a").uuid[k] = 0 => ~IsKnown(doc["b"], state[k], "b", k)
    BY <1>0, <2>3 DEF PairsAreWhole, Holds, DocId
  <2>6. IsKnown(doc["a"], state[k], "a", k) =>
          state[k].uuid["a"] = Listing("a").uuid[k] /\ state[k].lm["a"] = Listing("a").lm[k]
    BY <2>3 DEF IsKnown
  <2>7. QED
    BY <2>1, <2>4, <2>5, <2>6
<1>2. CASE UserStep \/ UNCHANGED vars
  <2>1. phase = "scanned" /\ listA' = listA /\ state' = state
    BY <1>2, UserFrame DEF vars, process
  <2>2. listA.uuid[k] \in DocId \cup {0}
    BY <1>0 DEF RunShape, ListingType
  <2>3. listA.uuid[k] # 0 => doc'["a"][listA.uuid[k]].present /\ doc'["a"][listA.uuid[k]].key = k
    <3>1. CASE UserStep
      BY <1>0, <2>1, <2>2, <3>1, UserKeeps DEF ListedSurvive
    <3>2. CASE UNCHANGED vars
      BY <1>0, <2>1, <3>2 DEF ListedSurvive, vars, tablets
    <3>3. QED
      BY <1>2, <3>1, <3>2
  <2>4. \A s \in Side : IsKnown(doc'[s], state'[k], s, k) => IsKnown(doc[s], state[k], s, k)
    BY <1>0, <2>1, KnownStays
  <2>5. QED
    BY <1>0, <2>1, <2>3, <2>4 DEF ListedSurvive
<1>3. ~SyncStep /\ ~Crash
  BY DEF SyncStep, ExecuteStep, MakePlan, CreateFolder, Restart, RestartFails, PlanDone, DownloadBundle,
     DeleteDocument, ForgetEntry, DeleteReplaced, RestoreBundle, RecordCopy, RecordDelete, Finish,
     Crash, Advance, Save, Fail, EndRun
<1>4. QED
  BY <1>1, <1>2, <1>3 DEF Next

\* What plan_docs makes, under the skip policy, of listings that a tablet may
\* have left behind.
LEMMA PlanSurvives ==
  ASSUME ProcessInv, ListedIsKept, HomesExist, PairsAreWhole, ListedSurvive, MakePlan,
         opts.conflict = "Skip", NEW k \in wanted, plan'[k].op \in Copies \cup Deletes
  PROVE  /\ plan'[k].op \notin Deletes
         /\ LET from == Other(Target(plan'[k].op)) IN
            /\ doc[from][plan'[k].uuid].present /\ doc[from][plan'[k].uuid].key = k
            /\ plan'[k].replace # 0 => ~IsKnown(doc[from], state[k], from, k)
<1> USE DEF ProcessInv
<1> DEFINE e == state[k]
           A == PlanLists["a"]
           B == PlanLists["b"]
           a == View("a", A, e, k)
           b == View("b", B, e, k)
           op == plan'[k].op
<1>1. /\ k \in Key /\ "a" \in Side /\ "b" \in Side /\ Other("a") = "b" /\ Other("b") = "a"
      /\ phase = "scanned" /\ opts \in SyncOptions
      /\ e \in Entry /\ e.mapped \in BOOLEAN
  BY DocsAssumption, SideFacts DEF MakePlan, TypeOK, Side, Entry
<1>2. A = listA /\ B = Listing("b") /\ A \in ListingType /\ B \in ListingType
  BY <1>1, ListsAreTyped
<1>3. /\ op = DispositionOf(opts, PlanLists, e, k)
      /\ op \in Copies => LET to == Target(op) IN
           /\ plan'[k].uuid \in DocId /\ plan'[k].uuid = PlanLists[Other(to)].uuid[k]
           /\ plan'[k].replace = PlanLists[to].uuid[k]
      /\ op \in Deletes => plan'[k].uuid \in DocId /\ plan'[k].uuid = PlanLists[Target(op)].uuid[k]
      /\ Respects(opts, op)
  BY <1>1, MadePlan
<1>4. ~Excluded(PlanLists, e, k) /\ op = DecidePair(opts, a, b, e.mapped)
  BY <1>3 DEF DispositionOf, Copies, Deletes
<1>5. k \notin A.excludedKeys /\ k \notin B.excludedKeys
  BY <1>1, <1>4 DEF Excluded
<1>6. a \in SideView /\ b \in SideView
  BY <1>1, <1>2 DEF View, SideView, ListingType, Entry
<1>7. /\ op = "CopyToB" /\ e.mapped /\ b.present => a.changed
      /\ op = "CopyToA" /\ e.mapped /\ a.present => b.changed
      /\ op = "DeleteA" => ~b.present
      /\ op = "DeleteB" => ~a.present
      /\ Spares(op, a, b, e.mapped)
  BY <1>1, <1>4, <1>6, SkipCarriesChanges, SkipSparesChanges
<1>8. /\ a.present = (A.uuid[k] # 0) /\ b.present = (B.uuid[k] # 0)
      /\ a.changed = (~e.mapped \/ e.uuid["a"] # A.uuid[k] \/ e.lm["a"] # A.lm[k])
      /\ b.changed = (~e.mapped \/ e.uuid["b"] # B.uuid[k] \/ e.lm["b"] # B.lm[k])
  BY DEF View
<1>9. /\ A.uuid[k] # 0 => doc["a"][A.uuid[k]].present /\ doc["a"][A.uuid[k]].key = k
      /\ A.uuid[k] = 0 => ~IsKnown(doc["b"], e, "b", k)
      /\ IsKnown(doc["a"], e, "a", k) => e.uuid["a"] = A.uuid[k] /\ e.lm["a"] = A.lm[k]
  BY <1>1, <1>2, <1>5 DEF ListedSurvive
<1>10. B.uuid[k] # 0 => /\ doc["b"][B.uuid[k]].present /\ doc["b"][B.uuid[k]].key = k
                        /\ B.lm[k] = doc["b"][B.uuid[k]].lm
  <2>1. doc["b"] \in [DocId -> Doc] /\ folders["b"] \in SUBSET FolderId
    BY <1>1 DEF TypeOK
  <2>2. QED
    BY <1>1, <1>2, <2>1, ListingIsTyped DEF Listing
<1>11. \A u \in DocId : doc["b"][u].present /\ doc["b"][u].key = k =>
         B.uuid[k] = u /\ B.lm[k] = doc["b"][u].lm
  BY <1>1, <1>2, <1>5, ListingFindsAll
<1>12. 0 \notin DocId /\ A.uuid[k] \in DocId \cup {0} /\ B.uuid[k] \in DocId \cup {0}
  BY <1>1, <1>2 DEF ListingType, DocId
<1> HIDE DEF A, B, a, b, op, e
<1>13. op # "DeleteA"
  <2> SUFFICES ASSUME op = "DeleteA" PROVE FALSE
    OBVIOUS
  <2>1. CanWriteLocal(opts.mode) /\ A.uuid[k] # 0 /\ B.uuid[k] = 0
    <3>1. Target(op) = "a" /\ op \in Deletes /\ op \in WritesA
      BY SideFacts DEF Deletes, WritesA
    <3>2. QED
      BY <1>3, <1>7, <1>8, <1>12, <3>1 DEF Respects, A
  <2>2. e.mapped /\ e.uuid["a"] = A.uuid[k] /\ e.lm["a"] = A.lm[k]
    BY <1>7, <1>8, <2>1 DEF Spares, WritesA
  <2>3. doc["a"][A.uuid[k]].lm = A.lm[k]
    BY <1>1, <1>2, <1>5, <1>9, <2>1 DEF ListedIsKept
  <2>4. IsKnown(doc["a"], e, "a", k)
    BY <1>9, <1>12, <2>1, <2>2, <2>3 DEF IsKnown
  <2>5. Holds(doc["b"], k)
    BY <1>1, <2>4 DEF PairsAreWhole, e
  <2>6. QED
    BY <1>11, <1>12, <2>1, <2>5 DEF Holds
<1>14. op # "DeleteB"
  <2> SUFFICES ASSUME op = "DeleteB" PROVE FALSE
    OBVIOUS
  <2>1. B.uuid[k] # 0 /\ A.uuid[k] = 0
    <3>1. Target(op) = "b" /\ op \in Deletes
      BY SideFacts DEF Deletes
    <3>2. QED
      BY <1>3, <1>7, <1>8, <1>12, <3>1 DEF B
  <2>2. e.mapped /\ e.uuid["b"] = B.uuid[k] /\ e.lm["b"] = B.lm[k]
    BY <1>7, <1>8, <2>1 DEF Spares, WritesB
  <2>3. IsKnown(doc["b"], e, "b", k)
    BY <1>10, <1>12, <2>1, <2>2 DEF IsKnown
  <2>4. QED
    BY <1>9, <2>1, <2>3
<1>15. CASE op = "CopyToB"
  <2>1. Target(op) = "b" /\ Other(Target(op)) = "a" /\ op \in Copies
    BY <1>1, <1>15, SideFacts DEF Copies
  <2>2. plan'[k].uuid = A.uuid[k] /\ plan'[k].uuid # 0 /\ plan'[k].replace = B.uuid[k]
    BY <1>3, <1>12, <2>1 DEF A, B
  <2>3. B.uuid[k] # 0 => ~IsKnown(doc["a"], e, "a", k)
    BY <1>7, <1>8, <1>9, <1>15 DEF IsKnown
  <2>4. QED
    BY <1>9, <1>13, <1>14, <2>1, <2>2, <2>3 DEF Deletes, op, e
<1>16. CASE op = "CopyToA"
  <2>1. Target(op) = "a" /\ Other(Target(op)) = "b" /\ op \in Copies
    BY <1>1, <1>16, SideFacts DEF Copies
  <2>2. plan'[k].uuid = B.uuid[k] /\ plan'[k].uuid # 0 /\ plan'[k].replace = A.uuid[k]
    BY <1>3, <1>12, <2>1 DEF A, B
  <2>3. A.uuid[k] # 0 => ~IsKnown(doc["b"], e, "b", k)
    BY <1>7, <1>8, <1>11, <1>16 DEF IsKnown
  <2>4. QED
    BY <1>10, <1>13, <1>14, <2>1, <2>2, <2>3 DEF Deletes, op, e
<1>17. QED
  BY <1>13, <1>14, <1>15, <1>16 DEF Copies, Deletes, op

LEMMA PlannedStep ==
  ASSUME \A o \in Options : o.conflict = "Skip"
  PROVE  /\ DocsInv /\ QuietInv
         /\ HomesExist /\ PairsAreWhole /\ ListedSurvive /\ PlannedSurvive /\ [Next]_vars
         => PlannedSurvive'
<1> SUFFICES ASSUME DocsInv, QuietInv, HomesExist, PairsAreWhole, ListedSurvive, PlannedSurvive, [Next]_vars
             PROVE  PlannedSurvive'
  OBVIOUS
<1> USE DEF DocsInv, ProcessInv, QuietInv
<1>1. ASSUME NEW k \in wanted', Running', plan'[k].op \in Copies \cup Deletes
      PROVE  /\ plan'[k].op \notin Deletes
             /\ LET from == Other(Target(plan'[k].op)) IN
                /\ doc'[from][plan'[k].uuid].present /\ doc'[from][plan'[k].uuid].key = k
                /\ plan'[k].replace # 0 => ~IsKnown(doc'[from], state'[k], from, k)
  <2>1. k \in wanted /\ k \in Key
    BY <1>1, WantedShrinks DEF TypeOK
  <2>2. CASE MakePlan
    <3>1. doc' = doc /\ state' = state /\ opts.conflict = "Skip"
      BY <2>2 DEF MakePlan, tablets, TypeOK
    <3>2. QED
      BY <1>1, <2>1, <2>2, <3>1, PlanSurvives
  <2>3. CASE ~MakePlan
    <3>1. Running /\ plan'[k] = plan[k] /\ opts' = opts /\ state'[k] = state[k]
      BY <1>1, <2>1, <2>3, PlanGoesOn
    <3> DEFINE from == Other(Target(plan[k].op))
    <3>2. from \in Side /\ from # Target(plan[k].op)
      BY SideFacts DEF Other, Side
    <3>3. /\ plan[k].op \notin Deletes /\ plan[k].op \in Copies
          /\ doc[from][plan[k].uuid].present /\ doc[from][plan[k].uuid].key = k
          /\ plan[k].replace # 0 => ~IsKnown(doc[from], state[k], from, k)
      BY <1>1, <2>1, <3>1 DEF PlannedSurvive
    <3>4. plan[k].uuid \in DocId
      BY <2>1, <3>3 DEF TypeOK
    <3>5. doc'[from][plan[k].uuid].present /\ doc'[from][plan[k].uuid].key = k
      BY <1>1, <3>2, <3>3, <3>4, WantedStays
    <3>6. plan[k].replace # 0 => ~IsKnown(doc'[from], state'[k], from, k)
      BY <2>1, <3>1, <3>2, <3>3, KnownStays
    <3>7. QED
      BY <3>1, <3>3, <3>5, <3>6
  <2>4. QED
    BY <2>2, <2>3
<1>2. ASSUME phase' = "restored", cur'.key \in wanted'
      PROVE  doc'[To'][cur'.uuid].present /\ doc'[To'][cur'.uuid].key = cur'.key
  <2>1. /\ Copying /\ To' = To /\ cur'.key = cur.key
        /\ RestoreBundle \/ (phase = "restored" /\ cur' = cur)
    BY <1>2, CopyGoesOn DEF Copying
  <2>2. To \in Side /\ cur.key \in wanted
    BY <1>2, <2>1, SideFacts, WantedShrinks DEF To
  <2>3. CASE RestoreBundle
    BY <2>1, <2>2, <2>3, RestoreAddsOne
  <2>4. CASE phase = "restored" /\ cur' = cur
    <3>1. cur.uuid \in DocId /\ doc[To][cur.uuid].present /\ doc[To][cur.uuid].key = cur.key
      BY <2>2, <2>4 DEF RunShape, PlannedSurvive
    <3>2. CASE UserStep
      BY <1>2, <2>1, <2>2, <2>4, <3>1, <3>2, UserKeeps
    <3>3. CASE UNCHANGED doc
      BY <2>1, <2>4, <3>1, <3>3
    <3>4. ~DeleteReplaced /\ ~RestoreBundle /\ ~(\E k \in Key : DeleteDocument(k))
      BY <2>4 DEF DeleteReplaced, RestoreBundle, DeleteDocument, IsNext
    <3>5. QED
      BY <3>2, <3>3, <3>4, OthersKeepDocuments
  <2>5. QED
    BY <2>1, <2>3, <2>4
<1>3. \A k \in Key : plan'[k].op \in Copies => plan'[k].op \in Copies \cup Deletes
  OBVIOUS
<1>4. QED
  BY <1>1, <1>2 DEF PlannedSurvive

LEMMA SurviveStep ==
  ProcessInv /\ VictimIsKnown /\ PlannedSurvive /\ DocumentsSurvive /\ [Next]_vars => DocumentsSurvive'
<1> SUFFICES ASSUME ProcessInv, VictimIsKnown, PlannedSurvive, DocumentsSurvive, [Next]_vars,
                    NEW k \in wanted'
             PROVE  \E s \in Side, u \in DocId : doc'[s][u].present /\ doc'[s][u].key = k
  BY DEF DocumentsSurvive
<1> USE DEF ProcessInv
<1>1. k \in wanted /\ k \in Key
  BY WantedShrinks DEF TypeOK
<1>2. PICK s \in Side, u \in DocId : doc[s][u].present /\ doc[s][u].key = k
  BY <1>1 DEF DocumentsSurvive
<1>3. CASE /\ ~UserStep /\ Running /\ plan[k].op \in Copies
           /\ s = Target(plan[k].op) /\ plan[k].replace # 0
  <2> DEFINE from == Other(Target(plan[k].op))
  <2>1. from \in Side /\ from # Target(plan[k].op) /\ plan[k].uuid \in DocId
    BY <1>1, <1>3, SideFacts DEF Other, Side, TypeOK
  <2>2. doc[from][plan[k].uuid].present /\ doc[from][plan[k].uuid].key = k
    BY <1>1, <1>3 DEF PlannedSurvive
  <2>3. doc'[from][plan[k].uuid].present /\ doc'[from][plan[k].uuid].key = k
    BY <2>1, <2>2, WantedStays
  <2>4. QED
    BY <2>1, <2>3
<1>4. QED
  BY <1>2, <1>3, WantedStays

LEMMA InitSurvival == Init => SurvivalInv
<1> SUFFICES ASSUME Init PROVE SurvivalInv
  OBVIOUS
<1>1. PICK onA \in SUBSET Key, onB \in [Key -> InitialDocs] :
        LET held == [s \in Side |-> IF s = "a" THEN onA ELSE {k \in Key : onB[k] # "none"}]
            home(k) == IF k \in FolderKeys THEN 1 ELSE 0
            ver(s, k) == IF s = "b" /\ onB[k] = "own" THEN NumKeys + k ELSE k
        IN /\ doc = [s \in Side |-> [u \in DocId |->
                IF u \in held[s] THEN InitialDoc(u, ver(s, u), home(u)) ELSE NoDoc]]
           /\ folders = [s \in Side |-> IF held[s] \cap FolderKeys = {} THEN {} ELSE {1}]
           /\ wanted = held["a"] \cup held["b"]
  BY DEF Init
<1> DEFINE held == [s \in Side |-> IF s = "a" THEN onA ELSE {k \in Key : onB[k] # "none"}]
<1>2. /\ \A s \in Side, u \in DocId :
           IF u \in held[s]
           THEN doc[s][u].present /\ doc[s][u].key = u /\ doc[s][u].home = IF u \in FolderKeys THEN 1 ELSE 0
           ELSE ~doc[s][u].present
      /\ \A s \in Side : folders[s] = IF held[s] \cap FolderKeys = {} THEN {} ELSE {1}
      /\ wanted = held["a"] \cup held["b"]
  BY <1>1 DEF InitialDoc, NoDoc
<1>3. held["a"] \subseteq Key /\ held["b"] \subseteq Key /\ Key \subseteq DocId
  BY DocsPlanAssumption DEF Key, DocId, Side
<1> HIDE DEF held
<1>4. HomesExist
  BY <1>2 DEF HomesExist
<1>5. DocumentsSurvive
  BY <1>2, <1>3 DEF DocumentsSurvive, Side
<1>6. \A k \in wanted : ~state[k].mapped
  BY <1>2, <1>3 DEF Init, NoEntry
<1>7. phase = "idle"
  BY DEF Init
<1>8. QED
  BY <1>4, <1>5, <1>6, <1>7
     DEF SurvivalInv, PairsAreWhole, IsKnown, ListedSurvive, PlannedSurvive, Running

\* Under the skip policy a document missing from one tablet is on the other one,
\* whatever interrupted delete-then-restore of copy_doc took it away.
THEOREM SurvivalInvariant ==
  QuietRuns /\ (\A o \in Options : o.conflict = "Skip") => (Spec => []SurvivalInv)
<1>1. SUFFICES ASSUME QuietRuns, \A o \in Options : o.conflict = "Skip" PROVE Spec => []SurvivalInv
  OBVIOUS
<1>2. DocsInv /\ QuietInv /\ SurvivalInv /\ [Next]_vars => SurvivalInv'
  <2> SUFFICES ASSUME DocsInv, QuietInv, SurvivalInv, [Next]_vars PROVE SurvivalInv'
    OBVIOUS
  <2> USE DEF SurvivalInv
  <2>1. HomesExist'
    BY HomesStep DEF DocsInv, QuietInv
  <2>2. PairsAreWhole'
    BY PairsStep DEF DocsInv, QuietInv
  <2>3. ListedSurvive'
    BY ListedStep DEF DocsInv
  <2>4. PlannedSurvive'
    BY <1>1, PlannedStep
  <2>5. DocumentsSurvive'
    BY SurviveStep DEF DocsInv, QuietInv
  <2>6. QED
    BY <2>1, <2>2, <2>3, <2>4, <2>5
<1>3. QED
  BY <1>1, <1>2, InitSurvival, DocsInvariant, QuietInvariant, PTL DEF Spec

\* Under the skip policy, and while users leave alone what a running plan is to
\* write, no sequence of edits, runs and interruptions loses a document that no
\* user removed or renamed: an interrupted replacement is not taken for a deletion
\* ("an interrupted sync resumes cleanly", sync.rs:7-8).
THEOREM NoDocumentDisappears ==
  QuietRuns /\ (\A o \in Options : o.conflict = "Skip") => (Spec => []DocumentsSurvive)
<1>1. SurvivalInv => DocumentsSurvive
  BY DEF SurvivalInv
<1>2. QED
  BY <1>1, SurvivalInvariant, PTL

\* ---------------------------------------------------------------------
\* What an undisturbed run leaves.

\* FinishedRunAgrees asks for this path, as long as nothing of it is ambiguous.
MustAgree(k) ==
  \/ opts.mode = "TwoWay" /\ opts.conflict # "Skip"
  \/ /\ opts.mode = "Push" /\ opts.conflict = "PreferLocal" /\ ~opts.delete
     /\ Siblings(doc["a"], folders["a"], k) # {}
  \/ /\ opts.mode = "Pull" /\ opts.conflict = "PreferRemote" /\ ~opts.delete
     /\ Siblings(doc["b"], folders["b"], k) # {}

\* The documents of a path are the same on both tablets.
Level(k) ==
  /\ Siblings(doc["a"], folders["a"], k) = {} <=> Siblings(doc["b"], folders["b"], k) = {}
  /\ \A u \in Siblings(doc["a"], folders["a"], k), v \in Siblings(doc["b"], folders["b"], k) :
       doc["a"][u].ver = doc["b"][v].ver

Ambiguous(k) == Excluded([s \in Side |-> Listing(s)], state[k], k)

\* What is still to be copied or deleted is as it was planned.
PlanIsCurrent ==
  \A k \in Key :
    LET to == Target(plan[k].op)
        from == Other(to)
    IN /\ plan[k].op \in Copies \cup Deletes =>
            \A s \in Side : k \notin ExcludedKeys(doc[s], folders[s])
       /\ plan[k].op \in Copies => Siblings(doc[from], folders[from], k) = {plan[k].uuid}
       /\ plan[k].op \in Deletes =>
            /\ Siblings(doc[to], folders[to], k) \subseteq {plan[k].uuid}
            /\ MustAgree(k) => Siblings(doc[from], folders[from], k) = {}

\* Where nothing is left to be copied or deleted, all is done that could be.
DoneIsLevel ==
  \A k \in Key : plan[k].op \notin Copies \cup Deletes /\ MustAgree(k) =>
    (plan[k].op # "Forget" /\ Ambiguous(k)) \/ Level(k)

\* The action in progress does what it was planned for.
ActionIsCurrent ==
  /\ Copying => doc[Other(To)][CurItem.uuid].ver = cur.ver
  /\ phase = "restored" => /\ Siblings(doc[To], folders[To], cur.key) = {cur.uuid}
                           /\ doc[To][cur.uuid].ver = cur.ver
  /\ phase = "deleted" => Siblings(doc[To], folders[To], cur.key) = {}

UndisturbedInv ==
  quiet => /\ QuietInv
           /\ phase = "scanned" => listA = Listing("a")
           /\ Running => PlanIsCurrent /\ DoneIsLevel /\ ActionIsCurrent
           /\ FinishedRunAgrees

LEMMA ExcludedPaths ==
  ASSUME NEW s \in Side, NEW k \in Key
  PROVE  k \in ExcludedKeys(doc[s], folders[s]) <=>
             \/ k \in FolderKeys /\ Cardinality(folders[s]) > 1
             \/ Cardinality(Siblings(doc[s], folders[s], k)) > 1
  BY DEF ExcludedKeys, Siblings

LEMMA NonUserEdits ==
  ASSUME [Next]_vars, ~UserStep
  PROVE  edits' = edits
<1>1. CASE \/ MakePlan \/ Finish \/ Crash \/ RecordCopy \/ RecordDelete
           \/ DeleteReplaced \/ RestoreBundle
           \/ \E o \in Options : Scan(o)
  BY <1>1 DEF MakePlan, Finish, Crash, RecordCopy, RecordDelete, DeleteReplaced, RestoreBundle,
     Advance, Save, Scan
<1>2. CASE \/ \E s \in Side : CreateFolder(s) \/ Restart(s) \/ RestartFails(s)
           \/ UNCHANGED vars
  BY <1>2 DEF CreateFolder, Restart, RestartFails, Fail, vars
<1>3. CASE \E k \in Key : DownloadBundle(k) \/ DeleteDocument(k) \/ ForgetEntry(k)
  BY <1>3 DEF DownloadBundle, DeleteDocument, ForgetEntry, Advance, Fail, Save
<1>4. QED
  BY <1>1, <1>2, <1>3 DEF Next, SyncStep, ExecuteStep

\* Nothing but the action of a path touches what is at the path.
LEMMA OthersLeavePath ==
  ASSUME ProcessInv, VictimIsKnown, [Next]_vars, ~UserStep, NEW s \in Side, NEW k \in Key,
         ~(Running /\ plan[k].op \in Copies \cup Deletes /\ s = Target(plan[k].op))
  PROVE  /\ folders[s] \subseteq folders'[s]
         /\ Siblings(doc'[s], folders'[s], k) = Siblings(doc[s], folders[s], k)
         /\ \A u \in Siblings(doc[s], folders[s], k) : doc'[s][u] = doc[s][u]
<1> USE DEF ProcessInv
<1>1. \A u \in Siblings(doc[s], folders[s], k) :
        u \in DocId /\ doc[s][u].present /\ doc[s][u].key = k /\ doc[s][u].home \in folders[s] \cup {0}
  BY DEF Siblings, Reachable
<1>2. \A u \in Siblings(doc[s], folders[s], k) : doc'[s][u] = doc[s][u]
  BY <1>1, SyncKeeps
<1>3. CASE DeleteReplaced \/ \E j \in Key : DeleteDocument(j)
  <2>1. folders' = folders /\ \A u \in DocId : doc'[s][u] = doc[s][u] \/ doc'[s][u] = NoDoc
    BY <1>3, DeletionsRemove
  <2>2. Siblings(doc'[s], folders'[s], k) = {u \in Siblings(doc[s], folders[s], k) : doc'[s][u] = doc[s][u]}
    BY <2>1, FewerSiblings
  <2>3. QED
    BY <1>2, <2>1, <2>2
<1>4. CASE RestoreBundle
  <2>1. cur.key \in Key /\ CurItem.op \in Copies /\ Running
    BY <1>4 DEF RestoreBundle, RunShape, Copying, Running, TypeOK, Action
  <2>2. s # To \/ k # cur.key
    BY <2>1 DEF To, CurItem
  <2>3. folders' = folders
    BY <1>4 DEF RestoreBundle, Advance
  <2>4. QED
    BY <1>2, <1>4, <2>2, <2>3, RestoreAddsOne
<1>5. CASE \E t \in Side : CreateFolder(t)
  <2>1. PICK t \in Side : CreateFolder(t)
    BY <1>5
  <2>2. folders[s] \subseteq folders'[s]
    BY <2>1 DEF CreateFolder, TypeOK
  <2>3. QED
    BY <1>2, <2>1, <2>2, FolderAddsNone
<1>6. CASE UNCHANGED <<doc, folders>>
  BY <1>2, <1>6, SameSiblings
<1>7. ASSUME ~UNCHANGED <<doc, folders>> 
      PROVE  \/ DeleteReplaced \/ (\E j \in Key : DeleteDocument(j)) \/ RestoreBundle 
             \/ \E t \in Side : CreateFolder(t)
  <2>1. edits' = edits
    BY NonUserEdits
  <2>2. PICK t \in Side : SyncTouches(t)
    BY <1>7, <2>1, NextProcess DEF SyncTouches, TypeOK
  <2>3. QED
    BY <2>2, SyncWrites
<1>8. QED
  BY <1>3, <1>4, <1>5, <1>6, <1>7

\* The paths that are ambiguous stay so while nothing is done at them.
LEMMA StaysExcluded ==
  ASSUME ProcessInv, VictimIsKnown, [Next]_vars, ~UserStep, NEW s \in Side, NEW k \in Key,
         plan[k].op \notin Copies \cup Deletes, k \in ExcludedKeys(doc[s], folders[s])
  PROVE  k \in ExcludedKeys(doc'[s], folders'[s])
<1>1. /\ folders[s] \subseteq folders'[s]
      /\ Siblings(doc'[s], folders'[s], k) = Siblings(doc[s], folders[s], k)
  BY OthersLeavePath
<1>2. IsFiniteSet(folders[s]) /\ IsFiniteSet(folders'[s])
  <2>1. IsFiniteSet(FolderId)
    BY FS_Interval, DocsPlanAssumption DEF FolderId
  <2>2. folders[s] \subseteq FolderId /\ folders'[s] \subseteq FolderId
    BY NextProcess DEF ProcessInv, TypeOK
  <2>3. QED
    BY <2>1, <2>2, FS_Subset
<1>3. Cardinality(folders[s]) > 1 => Cardinality(folders'[s]) > 1
  BY <1>1, <1>2, AtMostOne
<1>4. k \in ExcludedKeys(doc'[s], folders'[s]) <=>
             \/ k \in FolderKeys /\ Cardinality(folders'[s]) > 1
             \/ Cardinality(Siblings(doc'[s], folders'[s], k)) > 1
  BY DEF ExcludedKeys, Siblings
<1>5. QED
  BY <1>1, <1>3, <1>4, ExcludedPaths

LEMMA AmbiguousPaths ==
  ASSUME NEW k \in Key
  PROVE  /\ Ambiguous(k) <=> \E s \in Side :
              \/ k \in ExcludedKeys(doc[s], folders[s])
              \/ state[k].mapped /\ \E j \in Key : /\ j \in ExcludedKeys(doc[s], folders[s])
                                                   /\ state[k].uuid[s] \in Siblings(doc[s], folders[s], j)
         /\ Ambiguous(k)' <=> \E s \in Side :
              \/ k \in ExcludedKeys(doc'[s], folders'[s])
              \/ state'[k].mapped /\ \E j \in Key : /\ j \in ExcludedKeys(doc'[s], folders'[s])
                                                    /\ state'[k].uuid[s] \in Siblings(doc'[s], folders'[s], j)
<1>1. \A d, f : ListingOf(d, f).excludedKeys = ExcludedKeys(d, f)
  BY DEF ListingOf
<1>2. \A d, f, u : u \in ListingOf(d, f).excludedUuids <=>
                     \E j \in Key : j \in ExcludedKeys(d, f) /\ u \in Siblings(d, f, j)
  <2>1. SUFFICES ASSUME NEW d, NEW f, NEW u
                 PROVE  u \in ListingOf(d, f).excludedUuids <=>
                          \E j \in Key : j \in ExcludedKeys(d, f) /\ u \in Siblings(d, f, j)
    OBVIOUS
  <2>2. ListingOf(d, f).excludedUuids = {v \in Reachable(d, f) : d[v].key \in ExcludedKeys(d, f)}
    BY DEF ListingOf
  <2>3. ExcludedKeys(d, f) \subseteq Key
    BY DEF ExcludedKeys
  <2>4. QED
    BY <2>2, <2>3 DEF Siblings
<1>3. Ambiguous(k) <=> \E s \in Side :
              \/ k \in ExcludedKeys(doc[s], folders[s])
              \/ state[k].mapped /\ \E j \in Key : /\ j \in ExcludedKeys(doc[s], folders[s])
                                                   /\ state[k].uuid[s] \in Siblings(doc[s], folders[s], j)
  BY <1>1, <1>2 DEF Ambiguous, Excluded, Listing
<1>4. Ambiguous(k)' <=> \E s \in Side :
              \/ k \in ExcludedKeys(doc'[s], folders'[s])
              \/ state'[k].mapped /\ \E j \in Key : /\ j \in ExcludedKeys(doc'[s], folders'[s])
                                                    /\ state'[k].uuid[s] \in Siblings(doc'[s], folders'[s], j)
  BY <1>1, <1>2 DEF Ambiguous, Excluded, Listing
<1>5. QED
  BY <1>3, <1>4

\* A step that leaves a path alone leaves it level, and ambiguous while its entry
\* is kept.
LEMMA LevelStays ==
  ASSUME ProcessInv, VictimIsKnown, PlanIsCurrent, [Next]_vars, ~UserStep, NEW k \in Key,
         plan[k].op \notin Copies \cup Deletes
  PROVE  /\ Level(k) => Level(k)'
         /\ Ambiguous(k) /\ state'[k] = state[k] /\ Running => Ambiguous(k)'
<1>1. \A s \in Side : /\ Siblings(doc'[s], folders'[s], k) = Siblings(doc[s], folders[s], k)
                      /\ \A u \in Siblings(doc[s], folders[s], k) : doc'[s][u] = doc[s][u]
  BY OthersLeavePath
<1>2. "a" \in Side /\ "b" \in Side
  BY DEF Side
<1>3. Level(k) => Level(k)'
  BY <1>1, <1>2 DEF Level
<1>4. ASSUME Ambiguous(k), state'[k] = state[k], Running PROVE Ambiguous(k)'
  <2>1. ASSUME NEW s \in Side, NEW j \in Key, j \in ExcludedKeys(doc[s], folders[s])
        PROVE  /\ j \in ExcludedKeys(doc'[s], folders'[s])
               /\ Siblings(doc'[s], folders'[s], j) = Siblings(doc[s], folders[s], j)
    <3>1. plan[j].op \notin Copies \cup Deletes
      BY <2>1 DEF PlanIsCurrent
    <3>2. QED
      BY <2>1, <3>1, StaysExcluded, OthersLeavePath
  <2>2. \A s \in Side : k \in ExcludedKeys(doc[s], folders[s]) => k \in ExcludedKeys(doc'[s], folders'[s])
    BY <2>1
  <2>3. QED
    BY <1>4, <2>1, <2>2, AmbiguousPaths
<1>5. QED
  BY <1>3, <1>4

\* A plan made from what the tablets hold covers all that must agree.
LEMMA UndisturbedPlan ==
  ASSUME ProcessInv, StateVouches, listA = Listing("a"), MakePlan
  PROVE  PlanIsCurrent' /\ DoneIsLevel' /\ ActionIsCurrent'
<1> USE DEF ProcessInv
<1>1. /\ doc' = doc /\ folders' = folders /\ opts' = opts /\ state' = state /\ phase' = "run"
      /\ phase = "scanned"
  BY DEF MakePlan, tablets
<1>2. \A s \in Side : PlanLists[s] = Listing(s)
  BY DEF PlanLists, Side
<1>3. PlanLists = [s \in Side |-> Listing(s)]
  BY <1>2 DEF PlanLists, Side
<1>4. ASSUME NEW k \in Key, ~Excluded(PlanLists, state[k], k), NEW s \in Side
      PROVE  /\ k \notin ExcludedKeys(doc[s], folders[s])
             /\ Siblings(doc[s], folders[s], k) = {Listing(s).uuid[k]} \ {0}
  <2>1. k \notin Listing(s).excludedKeys
    BY <1>2, <1>4 DEF Excluded
  <2>2. QED
    BY <2>1, ListingShows
<1>5. \A s \in Side, k \in Key : Siblings(doc'[s], folders'[s], k) = Siblings(doc[s], folders[s], k)
  BY <1>1, SameSiblings
<1>6. "a" \in Side /\ "b" \in Side
  BY DEF Side
<1>7. \A k \in Key : MustAgree(k)' <=> MustAgree(k)
  BY <1>1 DEF MustAgree
<1>8. ASSUME NEW k \in Key, ~Excluded(PlanLists, state[k], k), MustAgree(k)
      PROVE  LET d == plan'[k].op IN
             \/ d \in Copies
             \/ d \in Deletes /\ Siblings(doc[Other(Target(d))], folders[Other(Target(d))], k) = {}
             \/ d \notin Deletes /\ Level(k)
  <2> DEFINE d == plan'[k].op
             a == View("a", PlanLists["a"], state[k], k)
             b == View("b", PlanLists["b"], state[k], k)
  <2>1. /\ state[k] \in Entry /\ state[k].mapped \in BOOLEAN /\ opts \in SyncOptions
        /\ PlanLists["a"] \in ListingType /\ PlanLists["b"] \in ListingType
    BY ListsAreTyped, DocsAssumption DEF TypeOK, Entry, Side
  <2>2. a \in SideView /\ b \in SideView
    BY <2>1 DEF View, SideView, ListingType, Entry
  <2>3. d = DispositionOf(opts, PlanLists, state[k], k)
    BY MadePlan
  <2>4. /\ a.present = (Listing("a").uuid[k] # 0) /\ b.present = (Listing("b").uuid[k] # 0)
        /\ a.present <=> Siblings(doc["a"], folders["a"], k) # {}
        /\ b.present <=> Siblings(doc["b"], folders["b"], k) # {}
    <3>1. a.present = (Listing("a").uuid[k] # 0) /\ b.present = (Listing("b").uuid[k] # 0)
      BY <1>2, <1>6 DEF View
    <3>2. /\ Siblings(doc["a"], folders["a"], k) = {Listing("a").uuid[k]} \ {0}
          /\ Siblings(doc["b"], folders["b"], k) = {Listing("b").uuid[k]} \ {0}
      BY <1>4, <1>6, <1>8
    <3> HIDE DEF a, b
    <3>3. QED
      BY <3>1, <3>2
  <2>5. MirrorsPair(opts, a, b)
    BY <1>8, <2>4 DEF MirrorsPair, MustAgree
  <2>6. \/ d = "None" /\ ~state[k].mapped /\ ~a.present /\ ~b.present
        \/ d = DecidePair(opts, a, b, state[k].mapped)
    BY <1>2, <1>6, <1>8, <2>3, <2>4 DEF DispositionOf
  <2>7. \/ d \in {"CopyToA", "CopyToB"}
        \/ d = "DeleteA" /\ ~b.present
        \/ d = "DeleteB" /\ ~a.present
        \/ /\ d \notin {"DeleteA", "DeleteB"}
           /\ \/ ~a.present /\ ~b.present
              \/ state[k].mapped /\ a.present /\ b.present /\ ~a.changed /\ ~b.changed
    BY <2>1, <2>2, <2>5, <2>6, DecidePairMirrors
  <2>8. ASSUME state[k].mapped, a.present, b.present, ~a.changed, ~b.changed
        PROVE  Level(k)
    <3>1. ASSUME NEW s \in Side
          PROVE  /\ state[k].uuid[s] = Listing(s).uuid[k] /\ state[k].uuid[s] # 0
                 /\ state[k].lm[s] = doc[s][state[k].uuid[s]].lm
                 /\ doc[s][state[k].uuid[s]].present
      <4>1. ~View(s, Listing(s), state[k], k).changed /\ Listing(s).uuid[k] # 0
        BY <1>2, <1>6, <2>4, <2>8 DEF Side
      <4>2. state[k].uuid[s] = Listing(s).uuid[k] /\ state[k].lm[s] = Listing(s).lm[k]
        BY <4>1 DEF View
      <4>3. doc[s] \in [DocId -> Doc] /\ folders[s] \in SUBSET FolderId
        BY DEF TypeOK
      <4>4. QED
        BY <4>1, <4>2, <4>3, ListingIsTyped DEF Listing
    <3>2. doc["a"][state[k].uuid["a"]].ver = doc["b"][state[k].uuid["b"]].ver
      <4> DEFINE e == [s \in Side |-> IF state[k].uuid[s] = 0 THEN NoDoc ELSE doc[s][state[k].uuid[s]]]
      <4>1. \A s \in Side : e[s] = doc[s][state[k].uuid[s]]
        BY <3>1
      <4>2. state[k].mapped /\ (\A s \in Side : e[s].present /\ e[s].lm = state[k].lm[s]) => e["a"].ver = e["b"].ver
        BY DEF StateVouches
      <4> HIDE DEF e
      <4>3. QED
        BY <1>6, <2>8, <3>1, <4>1, <4>2
    <3>3. \A s \in Side : Siblings(doc[s], folders[s], k) = {state[k].uuid[s]}
      BY <1>4, <1>8, <3>1
    <3>4. QED
      BY <1>6, <3>2, <3>3 DEF Level
  <2>9. ~a.present /\ ~b.present => Level(k)
    BY <2>4 DEF Level
  <2> HIDE DEF a, b, d
  <2>10. CASE d \in Copies
    BY <2>10 DEF d
  <2>11. CASE d = "DeleteA" /\ ~b.present
    BY <2>4, <2>11, SideFacts DEF d, Deletes
  <2>12. CASE d = "DeleteB" /\ ~a.present
    BY <2>4, <2>12, SideFacts DEF d, Deletes
  <2>13. CASE d \notin {"DeleteA", "DeleteB"} /\ Level(k)
    BY <2>13 DEF d, Deletes
  <2>14. QED
    BY <2>7, <2>8, <2>9, <2>10, <2>11, <2>12, <2>13 DEF Copies
<1>9. ASSUME NEW k \in Key, plan'[k].op \in Copies \cup Deletes
      PROVE  LET to == Target(plan'[k].op)
                 from == Other(to)
             IN /\ \A s \in Side : k \notin ExcludedKeys(doc[s], folders[s])
                /\ plan'[k].op \in Copies => Siblings(doc[from], folders[from], k) = {plan'[k].uuid}
                /\ plan'[k].op \in Deletes =>
                     /\ Siblings(doc[to], folders[to], k) \subseteq {plan'[k].uuid}
                     /\ MustAgree(k) => Siblings(doc[from], folders[from], k) = {}
  <2>1. ~Excluded(PlanLists, state[k], k)
    BY <1>9, MadePlan DEF DispositionOf, Copies, Deletes
  <2>2. Target(plan'[k].op) \in Side /\ Other(Target(plan'[k].op)) \in Side
    BY SideFacts
  <2>3. plan'[k].op \in Copies =>
          Siblings(doc[Other(Target(plan'[k].op))], folders[Other(Target(plan'[k].op))], k) = {plan'[k].uuid}
    <3>1. plan'[k].op \in Copies => plan'[k].uuid = Listing(Other(Target(plan'[k].op))).uuid[k] /\ plan'[k].uuid # 0
      BY <1>2, <2>2, MadePlan DEF DocId
    <3>2. QED
      BY <1>4, <2>1, <2>2, <3>1
  <2>4. plan'[k].op \in Deletes =>
          Siblings(doc[Target(plan'[k].op)], folders[Target(plan'[k].op)], k) \subseteq {plan'[k].uuid}
    <3>1. plan'[k].op \in Deletes => plan'[k].uuid = Listing(Target(plan'[k].op)).uuid[k]
      BY <1>2, <2>2, MadePlan
    <3>2. QED
      BY <1>4, <2>1, <2>2, <3>1
  <2>5. plan'[k].op \in Deletes /\ MustAgree(k) =>
          Siblings(doc[Other(Target(plan'[k].op))], folders[Other(Target(plan'[k].op))], k) = {}
    BY <1>8, <2>1 DEF Copies, Deletes
  <2>6. QED
    BY <1>4, <2>1, <2>3, <2>4, <2>5
<1>10. PlanIsCurrent'
  BY <1>1, <1>5, <1>7, <1>9, SideFacts DEF PlanIsCurrent
<1>11. DoneIsLevel'
  <2>1. SUFFICES ASSUME NEW k \in Key, plan'[k].op \notin Copies \cup Deletes, MustAgree(k)
                 PROVE  (plan'[k].op # "Forget" /\ Ambiguous(k)') \/ Level(k)'
    BY <1>7 DEF DoneIsLevel
  <2>2. Level(k) => Level(k)'
    BY <1>1, <1>5, <1>6 DEF Level
  <2>3. CASE Excluded(PlanLists, state[k], k)
    <3>1. plan'[k].op # "Forget"
      <4>1. plan'[k].op = DispositionOf(opts, PlanLists, state[k], k)
        BY MadePlan
      <4>2. QED
        BY <2>3, <4>1 DEF DispositionOf
    <3>2. Ambiguous(k)
      BY <1>3, <2>3 DEF Ambiguous
    <3>3. Ambiguous(k)'
      BY <1>1, <3>2, AmbiguousPaths
    <3>4. QED
      BY <3>1, <3>3
  <2>4. CASE ~Excluded(PlanLists, state[k], k)
    BY <1>8, <2>1, <2>2, <2>4
  <2>5. QED
    BY <2>3, <2>4
<1>12. ActionIsCurrent'
  BY <1>1 DEF ActionIsCurrent, Copying
<1>13. QED
  BY <1>10, <1>11, <1>12

\* Only a restore puts a document at a path.
LEMMA PathsShrink ==
  ASSUME ProcessInv, VictimIsKnown, [Next]_vars, ~UserStep, NEW s \in Side, NEW k \in Key,
         RestoreBundle => s # To \/ k # cur.key
  PROVE  Siblings(doc'[s], folders'[s], k) \subseteq Siblings(doc[s], folders[s], k)
<1> USE DEF ProcessInv
<1>1. CASE DeleteReplaced \/ \E j \in Key : DeleteDocument(j)
  <2>1. folders' = folders /\ \A u \in DocId : doc'[s][u] = doc[s][u] \/ doc'[s][u] = NoDoc
    BY <1>1, DeletionsRemove
  <2>2. QED
    BY <2>1, FewerSiblings
<1>2. CASE RestoreBundle
  BY <1>2, RestoreAddsOne
<1>3. CASE ~(Running /\ plan[k].op \in Copies \cup Deletes /\ s = Target(plan[k].op))
  BY <1>3, OthersLeavePath
<1>4. CASE ~DeleteReplaced /\ ~RestoreBundle /\ ~(\E j \in Key : DeleteDocument(j))
  <2>1. doc' = doc
    BY <1>4, OthersKeepDocuments
  <2>2. CASE folders' = folders
    BY <2>1, <2>2, SameSiblings
  <2>3. CASE folders' # folders
    <3>1. edits' = edits
      BY NonUserEdits
    <3>2. PICK t \in Side : SyncTouches(t)
      BY <2>3, <3>1, NextProcess DEF SyncTouches, TypeOK
    <3>3. CreateFolder(t)
      BY <1>4, <3>2, SyncWrites
    <3>4. QED
      BY <3>3, FolderAddsNone
  <2>4. QED
    BY <2>2, <2>3
<1>5. QED
  BY <1>1, <1>2, <1>4

\* What FinishedRunAgrees asks of a path does not grow in a run.
LEMMA MustAgreeStays ==
  ASSUME ProcessInv, QuietInv, [Next]_vars, ~UserStep, ~MakePlan, Running, Running', NEW k \in Key,
         MustAgree(k)'
  PROVE  MustAgree(k)
<1>1. opts' = opts
  <2>1. CASE RecordCopy \/ RecordDelete \/ DeleteReplaced \/ RestoreBundle
    BY <2>1 DEF RecordCopy, RecordDelete, DeleteReplaced, RestoreBundle, Advance, Save
  <2>2. CASE \/ \E s \in Side : CreateFolder(s) \/ Restart(s) \/ RestartFails(s)
             \/ UNCHANGED vars
    BY <2>2 DEF CreateFolder, Restart, RestartFails, Fail, EndRun, vars, process, Running
  <2>3. CASE \E j \in Key : DownloadBundle(j) \/ DeleteDocument(j) \/ ForgetEntry(j)
    BY <2>3 DEF DownloadBundle, DeleteDocument, ForgetEntry, Advance, Fail, Save, EndRun
  <2>4. ~Finish /\ ~Crash /\ ~(\E o \in Options : Scan(o))
    BY DEF Finish, Crash, Scan, EndRun, Running
  <2>5. QED
    BY <2>1, <2>2, <2>3, <2>4 DEF Next, SyncStep, ExecuteStep
<1>2. \A s \in Side : (s = "a" /\ opts.mode = "Push") \/ (s = "b" /\ opts.mode = "Pull") =>
        Siblings(doc'[s], folders'[s], k) = Siblings(doc[s], folders[s], k)
  <2>1. \A j \in Key : Respects(opts, plan[j].op)
    BY DEF ProcessInv, PlanRespectsMode
  <2>2. \A s \in Side : (s = "a" /\ opts.mode = "Push") \/ (s = "b" /\ opts.mode = "Pull") =>
           ~(plan[k].op \in Copies \cup Deletes /\ s = Target(plan[k].op))
    BY <2>1 DEF Respects, CanWriteLocal, CanWriteRemote, Target, Copies, Deletes, WritesA, WritesB
  <2>3. QED
    BY <2>2, OthersLeavePath DEF QuietInv
<1>3. /\ opts.mode = "Push" => Siblings(doc'["a"], folders'["a"], k) = Siblings(doc["a"], folders["a"], k)
      /\ opts.mode = "Pull" => Siblings(doc'["b"], folders'["b"], k) = Siblings(doc["b"], folders["b"], k)
  BY <1>2 DEF Side
<1>4. \/ opts.mode = "TwoWay" /\ opts.conflict # "Skip"
      \/ /\ opts.mode = "Push" /\ opts.conflict = "PreferLocal" /\ ~opts.delete
         /\ Siblings(doc'["a"], folders'["a"], k) # {}
      \/ /\ opts.mode = "Pull" /\ opts.conflict = "PreferRemote" /\ ~opts.delete
         /\ Siblings(doc'["b"], folders'["b"], k) # {}
  BY <1>1 DEF MustAgree
<1>5. QED
  BY <1>3, <1>4 DEF MustAgree

LEMMA CurrentStep ==
  ASSUME ProcessInv, QuietInv, PlanIsCurrent, [Next]_vars, ~UserStep, ~MakePlan, Running, Running'
  PROVE  PlanIsCurrent'
<1> USE DEF ProcessInv
<1>1. edits' = edits
  BY NonUserEdits
<1>2. SUFFICES ASSUME NEW k \in Key, plan'[k].op \in Copies \cup Deletes
      PROVE  LET to == Target(plan'[k].op)
                 from == Other(to)
             IN /\ \A s \in Side : k \notin ExcludedKeys(doc'[s], folders'[s])
                /\ plan'[k].op \in Copies => Siblings(doc'[from], folders'[from], k) = {plan'[k].uuid}
                /\ plan'[k].op \in Deletes =>
                     /\ Siblings(doc'[to], folders'[to], k) \subseteq {plan'[k].uuid}
                     /\ MustAgree(k)' => Siblings(doc'[from], folders'[from], k) = {}
  BY DEF PlanIsCurrent
<1> DEFINE to == Target(plan[k].op)
           from == Other(to)
<1>3. plan'[k] = plan[k]
  BY <1>2, PlanGoesOn
<1>4. to \in Side /\ from \in Side /\ from # to
  BY SideFacts DEF Other, Side
<1>5. Siblings(doc'[from], folders'[from], k) = Siblings(doc[from], folders[from], k)
  BY <1>4, OthersLeavePath DEF QuietInv
<1>6. \A s \in Side : k \notin ExcludedKeys(doc'[s], folders'[s])
  BY <1>1, <1>2, <1>3, NoNewExclusion DEF PlanIsCurrent
<1>7. plan[k].op \in Deletes => Siblings(doc'[to], folders'[to], k) \subseteq Siblings(doc[to], folders[to], k)
  <2>1. RestoreBundle /\ plan[k].op \in Deletes => k # cur.key
    BY DEF RestoreBundle, RunShape, Copying, CurItem, Copies, Deletes
  <2>2. QED
    BY <1>4, <2>1, PathsShrink DEF QuietInv
<1>8. MustAgree(k)' => MustAgree(k)
  BY MustAgreeStays
<1> HIDE DEF to, from
<1>9. /\ plan[k].op \in Copies => Siblings(doc[from], folders[from], k) = {plan[k].uuid}
      /\ plan[k].op \in Deletes =>
            /\ Siblings(doc[to], folders[to], k) \subseteq {plan[k].uuid}
            /\ MustAgree(k) => Siblings(doc[from], folders[from], k) = {}
  BY <1>2, <1>3 DEF PlanIsCurrent, to, from
<1>10. QED
  BY <1>3, <1>5, <1>6, <1>7, <1>8, <1>9 DEF to, from

LEMMA ActionStep ==
  ASSUME ProcessInv, QuietInv, PlanIsCurrent, ActionIsCurrent, [Next]_vars, ~UserStep, Running
  PROVE  ActionIsCurrent'
<1> USE DEF ProcessInv
<1>k. cur.key \in Key /\ To \in Side /\ Other(To) \in Side /\ Other(To) # To
  BY SideFacts DEF TypeOK, Action, To, Other, Side
<1>1. CASE DeleteReplaced \/ RestoreBundle
  <2>1. /\ Copying /\ plan' = plan /\ cur'.key = cur.key /\ cur'.ver = cur.ver
        /\ RestoreBundle => phase' = "restored" /\ phase = "replaced"
        /\ DeleteReplaced => phase' = "replaced"
        /\ folders' = folders
    BY <1>1 DEF DeleteReplaced, RestoreBundle, Advance, Copying, TypeOK, Action
  <2>2. CurItem' = CurItem /\ To' = To /\ CurItem = plan[cur.key]
    BY <2>1 DEF CurItem, To
  <2>3. CurItem.op \in Copies /\ CurItem.uuid \in DocId
    BY <1>k, <2>1 DEF RunShape, TypeOK, CurItem
  <2>4. Siblings(doc[Other(To)], folders[Other(To)], cur.key) = {CurItem.uuid}
    BY <1>k, <2>2, <2>3 DEF PlanIsCurrent, To
  <2>5. doc'[Other(To)][CurItem.uuid] = doc[Other(To)][CurItem.uuid]
    BY <1>k, <2>2, <2>4, OthersLeavePath DEF QuietInv, To
  <2>6. doc'[Other(To')][CurItem'.uuid].ver = cur'.ver
    BY <2>1, <2>2, <2>5 DEF ActionIsCurrent
  <2>7. ASSUME RestoreBundle
        PROVE  Siblings(doc'[To], folders'[To], cur.key) = {cur'.uuid} /\ doc'[To][cur'.uuid].ver = cur.ver
    <3>1. PICK u \in DocId \ Mentioned(To) :
           /\ cur'.uuid = u /\ ~doc[To][u].present
           /\ doc'[To][u] = [present |-> TRUE, key |-> cur.key, home |-> ParentOf(To, cur.key),
                             ver |-> cur.ver, lm |-> clock[To] + 1]
           /\ \A s \in Side, k \in Key :
                Siblings(doc'[s], folders'[s], k) \subseteq
                 Siblings(doc[s], folders[s], k) \cup (IF s = To /\ k = cur.key THEN {u} ELSE {})
      BY <2>7, RestoreAddsOne
    <3>2. Siblings(doc[To], folders[To], cur.key) = {}
      BY <2>1, <2>7 DEF QuietInv, PlaceIsFree, Running
    <3>3. Siblings(doc'[To], folders'[To], cur.key) \subseteq {u}
      BY <1>k, <3>1, <3>2
    <3>4. ParentOf(To, cur.key) \in folders'[To] \cup {0}
      <4>1. CASE cur.key \notin FolderKeys
        BY <4>1 DEF ParentOf
      <4>2. CASE cur.key \in FolderKeys
        <5>1. folders[To] = {parent[To]} \ {0}
          BY <2>2, <2>3, <4>2, <1>k DEF QuietInv, PlaceIsFree, To
        <5>2. QED
          BY <2>1, <4>2, <5>1 DEF ParentOf
      <4>3. QED
        BY <4>1, <4>2
    <3>5. u \in Siblings(doc'[To], folders'[To], cur.key)
      BY <3>1, <3>4 DEF Siblings, Reachable
    <3>6. doc'[To][u].ver = cur.ver
      BY <3>1
    <3>7. QED
      BY <3>1, <3>3, <3>5, <3>6
  <2>8. phase' = "restored" => RestoreBundle
    BY <1>1, <2>1
  <2>9. QED
    <3>1. phase' # "deleted"
      BY <1>1, <2>1, <2>8
    <3>2. phase' = "restored" => /\ Siblings(doc'[To'], folders'[To'], cur'.key) = {cur'.uuid}
                                 /\ doc'[To'][cur'.uuid].ver = cur'.ver
      BY <2>1, <2>2, <2>7, <2>8
    <3>3. QED
      BY <2>6, <3>1, <3>2 DEF ActionIsCurrent
<1>2. ASSUME NEW k \in Key, DownloadBundle(k) PROVE ActionIsCurrent'
  <2>1. plan[k].op \in Copies /\ doc' = doc
    BY <1>2 DEF DownloadBundle, IsNext, IsFirst, Pending, Fail, tablets
  <2>2. CASE Fail
    BY <2>2 DEF Fail, EndRun, ActionIsCurrent, Copying
  <2>3. CASE Advance("fetched", [NoAction EXCEPT !.key = k,
                       !.ver = doc[Other(Target(plan[k].op))][plan[k].uuid].ver])
    <3>1. /\ phase' = "fetched" /\ plan' = plan /\ cur'.key = k
          /\ cur'.ver = doc[Other(Target(plan[k].op))][plan[k].uuid].ver
      BY <2>3 DEF Advance, NoAction
    <3>2. CurItem' = plan[k] /\ To' = Target(plan[k].op)
      BY <3>1 DEF CurItem, To
    <3>3. QED
      BY <2>1, <3>1, <3>2 DEF ActionIsCurrent
  <2>4. QED
    BY <1>2, <2>2, <2>3 DEF DownloadBundle
<1>3. ASSUME NEW k \in Key, DeleteDocument(k) PROVE ActionIsCurrent'
  <2>1. /\ plan[k].op \in Deletes /\ phase' = "deleted" /\ plan' = plan /\ cur'.key = k
        /\ doc' = [doc EXCEPT ![Target(plan[k].op)][plan[k].uuid] = NoDoc]
    BY <1>3 DEF DeleteDocument, IsNext, IsFirst, Pending, Advance, NoAction
  <2>2. To' = Target(plan[k].op) /\ Target(plan[k].op) \in Side
    BY <2>1, SideFacts DEF CurItem, To
  <2>3. plan[k].uuid \in DocId
    BY <2>1 DEF TypeOK
  <2>4. doc'[Target(plan[k].op)][plan[k].uuid] = NoDoc
    BY <2>1, <2>2, <2>3 DEF TypeOK
  <2>5. Siblings(doc'[Target(plan[k].op)], folders'[Target(plan[k].op)], k) \subseteq {plan[k].uuid}
    <3>1. ~RestoreBundle
      BY <1>3 DEF RestoreBundle, DeleteDocument, IsNext
    <3>2. Siblings(doc[Target(plan[k].op)], folders[Target(plan[k].op)], k) \subseteq {plan[k].uuid}
      BY <2>1 DEF PlanIsCurrent
    <3>3. QED
      BY <2>2, <3>1, <3>2, PathsShrink DEF QuietInv
  <2>6. plan[k].uuid \notin Siblings(doc'[Target(plan[k].op)], folders'[Target(plan[k].op)], k)
    BY <2>4 DEF Siblings, Reachable, NoDoc
  <2>7. Siblings(doc'[Target(plan[k].op)], folders'[Target(plan[k].op)], k) = {}
    BY <2>5, <2>6
  <2>8. QED
    BY <2>1, <2>2, <2>7 DEF ActionIsCurrent, Copying
<1>4. CASE UNCHANGED vars
  <2>1. UNCHANGED <<doc, folders, plan, phase, cur>>
    BY <1>4 DEF vars, tablets, process
  <2>2. CurItem' = CurItem /\ To' = To /\ (Copying' <=> Copying)
    BY <2>1 DEF CurItem, To, Copying
  <2>3. Siblings(doc'[To], folders'[To], cur.key) = Siblings(doc[To], folders[To], cur.key)
    BY <1>k, <2>1, SameSiblings
  <2>4. QED
    BY <2>1, <2>2, <2>3 DEF ActionIsCurrent
<1>5. phase' \in {"run", "idle", "done", "scanned"} => ActionIsCurrent'
  BY DEF ActionIsCurrent, Copying
<1>6. CASE \/ RecordCopy \/ RecordDelete \/ Finish \/ Crash \/ MakePlan
           \/ \E o \in Options : Scan(o)
  BY <1>5, <1>6 DEF RecordCopy, RecordDelete, Save, Finish, Crash, EndRun, MakePlan, Scan
<1>7. CASE \/ \E s \in Side : CreateFolder(s) \/ Restart(s) \/ RestartFails(s)
           \/ \E k \in Key : ForgetEntry(k)
  BY <1>5, <1>7 DEF CreateFolder, Restart, RestartFails, Fail, EndRun, PlanDone, ForgetEntry, Save
<1>8. QED
  BY <1>1, <1>2, <1>3, <1>4, <1>6, <1>7 DEF Next, SyncStep, ExecuteStep

\* What a step of a run leaves undone is still planned.
LEMMA DoneStep ==
  ASSUME ProcessInv, QuietInv, PlanIsCurrent, DoneIsLevel, ActionIsCurrent, [Next]_vars, ~UserStep,
         ~MakePlan, Running, Running'
  PROVE  DoneIsLevel'
<1> USE DEF ProcessInv
<1>1. SUFFICES ASSUME NEW k \in Key, plan'[k].op \notin Copies \cup Deletes, MustAgree(k)'
               PROVE  (plan'[k].op # "Forget" /\ Ambiguous(k)') \/ Level(k)'
  BY DEF DoneIsLevel
<1>2. MustAgree(k)
  BY <1>1, MustAgreeStays
<1>3. ASSUME NEW j \in Key, NEW e, Save(j, e)
      PROVE  \A i \in Key : i # j => plan'[i] = plan[i] /\ state'[i] = state[i]
  BY <1>3 DEF Save, TypeOK
<1>4. cur.key \in Key
  BY DEF TypeOK, Action
<1>5. \/ plan'[k] = plan[k] /\ state'[k] = state[k]
      \/ (RecordCopy \/ RecordDelete) /\ k = cur.key
      \/ ForgetEntry(k)
  <2>1. CASE RecordCopy \/ RecordDelete \/ \E j \in Key : ForgetEntry(j)
    BY <1>3, <1>4, <2>1 DEF RecordCopy, RecordDelete, ForgetEntry
  <2>2. CASE DeleteReplaced \/ RestoreBundle
    BY <2>2 DEF DeleteReplaced, RestoreBundle, Advance
  <2>3. CASE \E j \in Key : DownloadBundle(j) \/ DeleteDocument(j)
    BY <2>3 DEF DownloadBundle, DeleteDocument, Advance, Fail, EndRun, Running
  <2>4. CASE \/ \E s \in Side : CreateFolder(s) \/ Restart(s) \/ RestartFails(s)
             \/ UNCHANGED vars
    BY <2>4 DEF CreateFolder, Restart, RestartFails, Fail, EndRun, vars, process, Running
  <2>5. ~Finish /\ ~Crash /\ ~(\E o \in Options : Scan(o))
    BY DEF Finish, Crash, Scan, EndRun, Running
  <2>6. QED
    BY <2>1, <2>2, <2>3, <2>4, <2>5 DEF Next, SyncStep, ExecuteStep
<1>6. CASE plan[k].op \notin Copies \cup Deletes
  <2>1. /\ Level(k) => Level(k)'
        /\ Ambiguous(k) /\ state'[k] = state[k] => Ambiguous(k)'
    BY <1>6, LevelStays DEF QuietInv
  <2>2. (plan[k].op # "Forget" /\ Ambiguous(k)) \/ Level(k)
    BY <1>2, <1>6 DEF DoneIsLevel
  <2>3. CASE plan'[k] = plan[k] /\ state'[k] = state[k]
    BY <2>1, <2>2, <2>3
  <2>4. ~((RecordCopy \/ RecordDelete) /\ k = cur.key)
    BY <1>6 DEF RecordCopy, RecordDelete, RunShape, Copying, CurItem
  <2>5. CASE ForgetEntry(k)
    <3>1. plan[k].op = "Forget"
      BY <2>5 DEF ForgetEntry, IsNext, IsFirst, Pending
    <3>2. QED
      BY <2>1, <2>2, <3>1
  <2>6. QED
    BY <1>5, <2>3, <2>4, <2>5
<1>7. CASE plan[k].op \in Copies \cup Deletes
  <2>1. ~ForgetEntry(k)
    BY <1>7 DEF ForgetEntry, IsNext, IsFirst, Pending, Copies, Deletes
  <2>2. (RecordCopy \/ RecordDelete) /\ k = cur.key
    BY <1>1, <1>5, <1>7, <2>1
  <2>3. doc' = doc /\ folders' = folders
    BY <2>2 DEF RecordCopy, RecordDelete, Save, tablets
  <2>4. /\ To = Target(plan[k].op) /\ To \in Side /\ Other(To) \in Side
        /\ {To, Other(To)} = {"a", "b"} /\ CurItem = plan[k]
    BY <2>2, SideFacts DEF To, CurItem, Other, Side
  <2>5. Level(k)
    <3>1. CASE RecordCopy
      <4>1. plan[k].op \in Copies /\ phase = "restored"
        BY <2>2, <2>4, <3>1 DEF RecordCopy, RunShape, Copying
      <4>2. /\ Siblings(doc[Other(To)], folders[Other(To)], k) = {plan[k].uuid}
            /\ doc[Other(To)][plan[k].uuid].ver = cur.ver
            /\ Siblings(doc[To], folders[To], k) = {cur.uuid}
            /\ doc[To][cur.uuid].ver = cur.ver
        BY <2>2, <2>4, <4>1 DEF PlanIsCurrent, ActionIsCurrent, Copying
      <4>3. CASE To = "a"
        BY <4>2, <4>3 DEF Level, Other
      <4>4. CASE To = "b"
        BY <4>2, <4>4 DEF Level, Other
      <4>5. QED
        BY <2>4, <4>3, <4>4
    <3>2. CASE RecordDelete
      <4>1. plan[k].op \in Deletes /\ phase = "deleted"
        BY <2>2, <2>4, <3>2 DEF RecordDelete, RunShape
      <4>2. /\ Siblings(doc[Other(To)], folders[Other(To)], k) = {}
            /\ Siblings(doc[To], folders[To], k) = {}
        BY <1>2, <2>2, <2>4, <4>1 DEF PlanIsCurrent, ActionIsCurrent
      <4>3. CASE To = "a"
        BY <4>2, <4>3 DEF Level, Other
      <4>4. CASE To = "b"
        BY <4>2, <4>4 DEF Level, Other
      <4>5. QED
        BY <2>4, <4>3, <4>4
    <3>3. QED
      BY <2>2, <3>1, <3>2
  <2>6. Level(k)'
    BY <2>3, <2>5, SameSiblings DEF Level, Side
  <2>7. QED
    BY <2>6
<1>8. QED
  BY <1>6, <1>7

\* With nothing left to do, the run leaves what it should.
LEMMA DoneAgrees ==
  ASSUME TypeOK, DoneIsLevel, \A k \in Key : plan[k].op \notin Copies \cup Deletes \cup {"Forget"},
         doc' = doc, folders' = folders, state' = state, opts' = opts
  PROVE  FinishedRunAgrees'
<1> DEFINE list == [s \in Side |-> Listing(s)]
<1>1. ASSUME NEW k \in Key, Mirrored(list, k), ~Excluded(list, state[k], k)
      PROVE  /\ list["a"].uuid[k] = 0 <=> list["b"].uuid[k] = 0
             /\ list["a"].uuid[k] # 0 =>
                  doc["a"][list["a"].uuid[k]].ver = doc["b"][list["b"].uuid[k]].ver
  <2>1. "a" \in Side /\ "b" \in Side /\ list["a"] = Listing("a") /\ list["b"] = Listing("b")
    BY DEF Side
  <2>2. k \notin Listing("a").excludedKeys /\ k \notin Listing("b").excludedKeys
    BY <1>1, <2>1 DEF Excluded
  <2> HIDE DEF list
  <2>3. /\ Siblings(doc["a"], folders["a"], k) = {Listing("a").uuid[k]} \ {0}
        /\ Siblings(doc["b"], folders["b"], k) = {Listing("b").uuid[k]} \ {0}
    BY <2>1, <2>2, ListingShows
  <2>4. MustAgree(k)
    BY <1>1, <2>1, <2>3 DEF Mirrored, MustAgree
  <2>5. ~Ambiguous(k)
    BY <1>1 DEF Ambiguous, list
  <2>6. Level(k)
    BY <2>4, <2>5 DEF DoneIsLevel
  <2>7. QED
    BY <2>1, <2>3, <2>6 DEF Level
<1> DEFINE after == [s \in Side |-> ListingOf(doc'[s], folders'[s])]
<1>2. after = list
  BY DEF Listing
<1>3. ASSUME NEW k \in Key,
             \/ opts.mode = "TwoWay" /\ opts.conflict # "Skip"
             \/ opts.mode = "Push" /\ opts.conflict = "PreferLocal" /\ ~opts.delete /\ after["a"].uuid[k] # 0
             \/ opts.mode = "Pull" /\ opts.conflict = "PreferRemote" /\ ~opts.delete /\ after["b"].uuid[k] # 0,
             ~Excluded(after, state[k], k)
      PROVE  /\ after["a"].uuid[k] = 0 <=> after["b"].uuid[k] = 0
             /\ after["a"].uuid[k] # 0 =>
                  doc["a"][after["a"].uuid[k]].ver = doc["b"][after["b"].uuid[k]].ver
  <2> HIDE DEF list, after
  <2>1. Mirrored(list, k) /\ ~Excluded(list, state[k], k)
    BY <1>2, <1>3 DEF Mirrored
  <2>2. QED
    BY <1>1, <1>2, <2>1
<1>4. FinishedRunAgrees' <=>
        (phase' = "done" /\ quiet' => \A k \in Key :
           /\ \/ opts'.mode = "TwoWay" /\ opts'.conflict # "Skip"
              \/ opts'.mode = "Push" /\ opts'.conflict = "PreferLocal" /\ ~opts'.delete /\ after["a"].uuid[k] # 0
              \/ opts'.mode = "Pull" /\ opts'.conflict = "PreferRemote" /\ ~opts'.delete /\ after["b"].uuid[k] # 0
           /\ ~Excluded(after, state'[k], k)
           => /\ after["a"].uuid[k] = 0 <=> after["b"].uuid[k] = 0
              /\ after["a"].uuid[k] # 0 =>
                   doc'["a"][after["a"].uuid[k]].ver = doc'["b"][after["b"].uuid[k]].ver)
  BY DEF FinishedRunAgrees, Mirrored, Listing
<1> HIDE DEF after
<1>5. QED
  BY <1>3, <1>4

LEMMA UnchangedAgrees ==
  ASSUME FinishedRunAgrees, UNCHANGED <<doc, folders, state, opts, phase, quiet>>
  PROVE  FinishedRunAgrees'
<1> DEFINE list == [s \in Side |-> ListingOf(doc[s], folders[s])]
           after == [s \in Side |-> ListingOf(doc'[s], folders'[s])]
<1>1. after = list
  OBVIOUS
<1>2. FinishedRunAgrees <=>
        (phase = "done" /\ quiet => \A k \in Key :
           /\ \/ opts.mode = "TwoWay" /\ opts.conflict # "Skip"
              \/ opts.mode = "Push" /\ opts.conflict = "PreferLocal" /\ ~opts.delete /\ list["a"].uuid[k] # 0
              \/ opts.mode = "Pull" /\ opts.conflict = "PreferRemote" /\ ~opts.delete /\ list["b"].uuid[k] # 0
           /\ ~Excluded(list, state[k], k)
           => /\ list["a"].uuid[k] = 0 <=> list["b"].uuid[k] = 0
              /\ list["a"].uuid[k] # 0 =>
                   doc["a"][list["a"].uuid[k]].ver = doc["b"][list["b"].uuid[k]].ver)
  BY DEF FinishedRunAgrees, Mirrored, Listing
<1>3. FinishedRunAgrees' <=>
        (phase' = "done" /\ quiet' => \A k \in Key :
           /\ \/ opts'.mode = "TwoWay" /\ opts'.conflict # "Skip"
              \/ opts'.mode = "Push" /\ opts'.conflict = "PreferLocal" /\ ~opts'.delete /\ after["a"].uuid[k] # 0
              \/ opts'.mode = "Pull" /\ opts'.conflict = "PreferRemote" /\ ~opts'.delete /\ after["b"].uuid[k] # 0
           /\ ~Excluded(after, state'[k], k)
           => /\ after["a"].uuid[k] = 0 <=> after["b"].uuid[k] = 0
              /\ after["a"].uuid[k] # 0 =>
                   doc'["a"][after["a"].uuid[k]].ver = doc'["b"][after["b"].uuid[k]].ver)
  BY DEF FinishedRunAgrees, Mirrored, Listing
<1> HIDE DEF list, after
<1>4. QED
  BY <1>1, <1>2, <1>3

LEMMA InitUndisturbed == Init => UndisturbedInv
  BY InitQuiet DEF Init, UndisturbedInv, FinishedRunAgrees, Running

LEMMA UndisturbedStep == DocsInv /\ UndisturbedInv /\ [Next]_vars => UndisturbedInv'
<1> SUFFICES ASSUME DocsInv, UndisturbedInv, [Next]_vars, quiet' PROVE UndisturbedInv'
  BY DEF UndisturbedInv
<1> USE DEF DocsInv, ProcessInv
<1>1. ~UserStep
  BY UserFrame
<1>2. quiet = quiet' \/ \E o \in Options : Scan(o)
  <2>1. CASE \/ MakePlan \/ Finish \/ Crash \/ RecordCopy \/ RecordDelete
             \/ DeleteReplaced \/ RestoreBundle
    BY <2>1 DEF MakePlan, Finish, Crash, RecordCopy, RecordDelete, DeleteReplaced, RestoreBundle,
       Advance, Save, ghosts
  <2>2. CASE \/ \E s \in Side : CreateFolder(s) \/ Restart(s) \/ RestartFails(s)
             \/ UNCHANGED vars
    BY <2>2 DEF CreateFolder, Restart, RestartFails, Fail, vars, ghosts
  <2>3. CASE \E k \in Key : DownloadBundle(k) \/ DeleteDocument(k) \/ ForgetEntry(k)
    BY <2>3 DEF DownloadBundle, DeleteDocument, ForgetEntry, Advance, Fail, Save, ghosts
  <2>4. QED
    BY <1>1, <2>1, <2>2, <2>3 DEF Next, SyncStep, ExecuteStep
<1>3. ASSUME NEW o \in Options, Scan(o)
      PROVE  QuietInv /\ phase \in {"idle", "done"} /\ phase' = "scanned" /\ listA' = Listing("a")'
  <2>1. phase \in {"idle", "done"} /\ phase' = "scanned" /\ listA' = Listing("a") /\ UNCHANGED <<doc, folders>>
    BY <1>3 DEF Scan, tablets
  <2>2. Listing("a")' = Listing("a")
    BY <2>1 DEF Listing
  <2>3. QuietInv
    BY <2>1 DEF QuietInv, ListedIsKept, VictimIsKnown, PlaceIsFree, Running
  <2>4. QED
    BY <2>1, <2>2, <2>3
<1>4. QuietInv
  BY <1>2, <1>3 DEF UndisturbedInv
<1>5. QuietInv'
  BY <1>1, <1>4, ListedKept, VictimStep, PlaceStep DEF QuietInv
<1>6. CASE \E o \in Options : Scan(o)
  <2>1. phase' = "scanned" /\ listA' = Listing("a")'
    BY <1>3, <1>6
  <2>2. ~Running' /\ FinishedRunAgrees'
    BY <2>1 DEF Running, FinishedRunAgrees
  <2>3. QED
    BY <1>5, <2>1, <2>2 DEF UndisturbedInv
<1>7. CASE quiet /\ ~(\E o \in Options : Scan(o))
  <2>1. /\ QuietInv
        /\ phase = "scanned" => listA = Listing("a")
        /\ Running => PlanIsCurrent /\ DoneIsLevel /\ ActionIsCurrent
        /\ FinishedRunAgrees
    BY <1>7 DEF UndisturbedInv
  <2>2. CASE UNCHANGED vars
    <3>1. UNCHANGED <<doc, folders, state, phase, opts, listA, plan, cur, quiet>>
      BY <2>2 DEF vars, tablets, process, ghosts
    <3>2. Listing("a")' = Listing("a")
      BY <3>1 DEF Listing
    <3>3. FinishedRunAgrees'
      BY <2>1, <3>1, UnchangedAgrees
    <3>4. Running' <=> Running
      BY <3>1 DEF Running
    <3>5. Running => PlanIsCurrent' /\ DoneIsLevel' /\ ActionIsCurrent'
      <4>1. ~MakePlan \/ ~Running
        BY DEF MakePlan, Running
      <4>2. QED
        BY <1>1, <1>4, <2>1, <3>4, <4>1, CurrentStep, DoneStep, ActionStep
    <3>6. QED
      BY <1>5, <2>1, <3>1, <3>2, <3>3, <3>4, <3>5 DEF UndisturbedInv
  <2>3. CASE MakePlan
    <3>1. phase = "scanned" /\ phase' = "run"
      BY <2>3 DEF MakePlan
    <3>2. PlanIsCurrent' /\ DoneIsLevel' /\ ActionIsCurrent'
      BY <2>1, <2>3, <3>1, UndisturbedPlan
    <3>3. FinishedRunAgrees'
      BY <3>1 DEF FinishedRunAgrees
    <3>4. QED
      BY <1>5, <3>1, <3>2, <3>3 DEF UndisturbedInv
  <2>4. CASE ExecuteStep
    <3>1. Running /\ ~MakePlan
      BY <2>4 DEF ExecuteStep, CreateFolder, Restart, RestartFails, PlanDone, DownloadBundle, DeleteDocument,
         ForgetEntry, IsNext, DeleteReplaced, RestoreBundle, RecordCopy, RecordDelete, Finish,
         MakePlan, Running
    <3>2. phase' # "scanned"
      BY <2>4 DEF ExecuteStep, CreateFolder, Restart, RestartFails, PlanDone, DownloadBundle, DeleteDocument,
         ForgetEntry, DeleteReplaced, RestoreBundle, RecordCopy, RecordDelete, Finish, EndRun,
         Advance, Save, Fail
    <3>3. Running' => PlanIsCurrent' /\ DoneIsLevel' /\ ActionIsCurrent'
      BY <1>1, <1>4, <2>1, <3>1, CurrentStep, DoneStep, ActionStep
    <3>4. CASE Finish
      <4>1. /\ UNCHANGED <<doc, folders, state, opts>>
            /\ \A k \in Key : plan[k].op \notin Copies \cup Deletes \cup {"Forget"}
        BY <3>4 DEF Finish, EndRun, tablets, PlanDone, Work, Pending
      <4>2. FinishedRunAgrees'
        BY <2>1, <3>1, <4>1, DoneAgrees
      <4>3. QED
        BY <1>5, <3>2, <3>3, <4>2 DEF UndisturbedInv
    <3>5. CASE ~Finish
      <4>1. phase' # "done"
        BY <2>4, <3>5 DEF ExecuteStep, CreateFolder, Restart, RestartFails, PlanDone, DownloadBundle, DeleteDocument,
           ForgetEntry, DeleteReplaced, RestoreBundle, RecordCopy, RecordDelete, EndRun,
           Advance, Save, Fail
      <4>2. QED
        BY <1>5, <3>2, <3>3, <4>1 DEF UndisturbedInv, FinishedRunAgrees
    <3>6. QED
      BY <3>4, <3>5
  <2>5. ~Crash
    BY <1>7 DEF Crash
  <2>6. QED
    BY <1>1, <1>7, <2>2, <2>3, <2>4, <2>5 DEF Next, SyncStep
<1>8. QED
  BY <1>2, <1>6, <1>7

\* While nothing disturbs it, a run copies and deletes what was listed, and leaves
\* every path that must agree level or ambiguous.
THEOREM UndisturbedInvariant == Spec => []UndisturbedInv
  BY InitUndisturbed, UndisturbedStep, DocsInvariant, PTL DEF Spec

\* An undisturbed run of run_docs_sync leaves on both tablets the same documents
\* with the same content: all of them two-way when conflicts are decided, those of
\* the winning source one-way; whatever edits, interruptions and runs came before.
THEOREM RunsMirror == Spec => []FinishedRunAgrees
<1>1. UndisturbedInv => FinishedRunAgrees
  BY DEF UndisturbedInv, FinishedRunAgrees
<1>2. QED
  BY <1>1, UndisturbedInvariant, PTL
=============================================================================

------------------------------ MODULE PairTable -----------------------------
(***************************************************************************)
(* decide_pair: the three-way decision table shared by the symmetric       *)
(* pairings (two file trees, two tablets).  A side is seen as              *)
(*   [present, changed, ms]  -- changed since the archive entry, and the   *)
(*                              time of its version;                       *)
(* `mapped` says the archive has an entry for the key.  A plays the        *)
(* "local" role, B the "remote" one.                                       *)
(***************************************************************************)
EXTENDS SyncPolicy

Disposition ==
  {"None", "CopyToB", "CopyToA", "DeleteA", "DeleteB", "Forget", "Conflict"}

\* Dispositions that write a side.
WritesA == {"CopyToA", "DeleteA"}
WritesB == {"CopyToB", "DeleteB"}

SideView == [present : BOOLEAN, changed : BOOLEAN, ms : Int]

\* Mutant of PairBoth: the newer of two changed sides wins under every policy.
PairBothNewestWins(o, a, b) ==
  CASE ~a.changed /\ ~b.changed -> "None"
    [] a.changed /\ (~b.changed \/ a.ms >= b.ms) -> Allow(CanWriteRemote(o.mode), "CopyToB")
    [] b.changed /\ (~a.changed \/ a.ms < b.ms)  -> Allow(CanWriteLocal(o.mode), "CopyToA")

\* Mapped, present on both sides.  One-way, the side that may not be written
\* can only lose to the other side or be kept.
PairBoth(o, a, b) ==
  LET w == Winner(o.conflict, a.ms, b.ms) IN
  CASE ~a.changed /\ ~b.changed -> "None"
    [] a.changed /\ ~b.changed ->
         IF CanWriteRemote(o.mode) THEN "CopyToB" ELSE Resolve(w, "None", "CopyToA")
    [] ~a.changed /\ b.changed ->
         IF CanWriteLocal(o.mode) THEN "CopyToA" ELSE Resolve(w, "CopyToB", "None")
    [] a.changed /\ b.changed ->
         Resolve(w, Allow(CanWriteRemote(o.mode), "CopyToB"),
                    Allow(CanWriteLocal(o.mode), "CopyToA"))

\* Mutant of PairBGone: the deletion reaches side a in every mode.
PairBGoneDeletesSource(o, a) ==
  CASE ~o.delete -> Allow(CanWriteRemote(o.mode), "CopyToB")
    [] o.delete /\ ~a.changed -> "DeleteA"
    [] o.delete /\ a.changed -> Resolve(Winner(o.conflict, a.ms, DeletedMs), "Forget", "DeleteA")

\* Mutant of PairBGone: the copy goes the wrong way.
PairBGoneSwapped(o, a) ==
  CASE ~o.delete -> Allow(CanWriteRemote(o.mode), "CopyToA")
    [] o.delete /\ ~a.changed -> Allow(CanWriteLocal(o.mode), "DeleteA")
    [] o.delete /\ a.changed -> Resolve(Winner(o.conflict, a.ms, DeletedMs), "CopyToA", "DeleteA")

\* Mutant of PairBGone: the deletion wins over an edit.
PairBGoneIgnoresEdits(o, a) ==
  IF o.delete THEN Allow(CanWriteLocal(o.mode), "DeleteA") ELSE Allow(CanWriteRemote(o.mode), "CopyToB")

\* Mapped, gone from B.
PairBGone(o, a) ==
  CASE ~o.delete -> Allow(CanWriteRemote(o.mode), "CopyToB")
    [] o.delete /\ ~a.changed -> Allow(CanWriteLocal(o.mode), "DeleteA")
    [] o.delete /\ a.changed ->
         Resolve(Winner(o.conflict, a.ms, DeletedMs),
                 IF CanWriteRemote(o.mode) THEN "CopyToB" ELSE "Forget",
                 Allow(CanWriteLocal(o.mode), "DeleteA"))

\* Mutant of PairAGone: without --delete the entry is dropped and nothing copied.
PairAGoneForgets(o, b) == IF o.delete THEN Allow(CanWriteRemote(o.mode), "DeleteB") ELSE "Forget"

\* Mapped, gone from A.
PairAGone(o, b) ==
  CASE ~o.delete -> Allow(CanWriteLocal(o.mode), "CopyToA")
    [] o.delete /\ ~b.changed -> Allow(CanWriteRemote(o.mode), "DeleteB")
    [] o.delete /\ b.changed ->
         Resolve(Winner(o.conflict, DeletedMs, b.ms),
                 Allow(CanWriteRemote(o.mode), "DeleteB"),
                 IF CanWriteLocal(o.mode) THEN "CopyToA" ELSE "Forget")

\* Mutant of PairUnmapped: a collision is copied over without asking the policy.
PairUnmappedOverwrites(o, a, b) ==
  IF a.present THEN Allow(CanWriteRemote(o.mode), "CopyToB")
               ELSE Allow(CanWriteLocal(o.mode), "CopyToA")

\* No archive entry: new files are copied, collisions go to the policy.
PairUnmapped(o, a, b) ==
  CASE a.present /\ ~b.present -> Allow(CanWriteRemote(o.mode), "CopyToB")
    [] ~a.present /\ b.present -> Allow(CanWriteLocal(o.mode), "CopyToA")
    [] a.present /\ b.present ->
         Resolve(Winner(o.conflict, a.ms, b.ms),
                 Allow(CanWriteRemote(o.mode), "CopyToB"),
                 Allow(CanWriteLocal(o.mode), "CopyToA"))
    [] OTHER -> "None"                      \* not a key of the plan

DecidePair(o, a, b, mapped) ==
  CASE mapped /\ a.present /\ b.present   -> PairBoth(o, a, b)
    [] mapped /\ a.present /\ ~b.present  -> PairBGone(o, a)
    [] mapped /\ ~a.present /\ b.present  -> PairAGone(o, b)
    [] mapped /\ ~a.present /\ ~b.present -> "Forget"
    [] ~mapped                            -> PairUnmapped(o, a, b)
=============================================================================

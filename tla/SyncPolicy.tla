----------------------------- MODULE SyncPolicy -----------------------------
(***************************************************************************)
(* The run options of `rmu sync` and the two rules every pairing shares:   *)
(* which side a mode may write, and who wins a conflict                    *)
(* (libremarkable-utils/src/sync.rs).                                      *)
(*                                                                         *)
(* Times are milliseconds as naturals; only their order matters.           *)
(***************************************************************************)
EXTENDS Integers

Mode == {"Push", "Pull", "TwoWay"}

ConflictPolicy == {"Skip", "Newest", "PreferLocal", "PreferRemote"}

SyncOptions == [mode : Mode, delete : BOOLEAN, conflict : ConflictPolicy]

\* i64::MIN, the version time a deleted side passes to winner: below all times.
DeletedMs == -1

CanWriteRemote(mode) == mode \in {"Push", "TwoWay"}

CanWriteLocal(mode) == mode \in {"Pull", "TwoWay"}

\* "Nobody" is the None of winner(): the policy reports and touches nothing.
Winner(policy, localMs, remoteMs) ==
  CASE policy = "Skip"         -> "Nobody"
    [] policy = "PreferLocal"  -> "Local"
    [] policy = "PreferRemote" -> "Remote"
    [] policy = "Newest"       -> IF localMs >= remoteMs THEN "Local" ELSE "Remote"

\* What a decision does for each outcome of a conflict.
Resolve(winner, ifLocal, ifRemote) ==
  CASE winner = "Nobody" -> "Conflict"
    [] winner = "Local"  -> ifLocal
    [] winner = "Remote" -> ifRemote

\* `can.then_some(decision)`.
Allow(can, decision) == IF can THEN decision ELSE "None"
=============================================================================

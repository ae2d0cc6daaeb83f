---------------------------- MODULE MCFilesSync -----------------------------
(* Option sets for the runs of FilesSync. *)
EXTENDS FilesSync

OptionsOf(modes, deletes, policies) ==
  [mode : modes, delete : deletes, conflict : policies]

\* The default policy, in every mode, with and without --delete.
SkipOptions == OptionsOf(Mode, BOOLEAN, {"Skip"})

AllOptions == SyncOptions

\* One direction only, the default policy.
PushSkip == OptionsOf({"Push"}, {FALSE}, {"Skip"})

\* One direction, the source wins, deletions propagated.
PushMirror == OptionsOf({"Push"}, {TRUE}, {"PreferLocal"})

TwoWaySkip == OptionsOf({"TwoWay"}, {FALSE}, {"Skip"})
TwoWaySkipBoth == OptionsOf({"TwoWay"}, BOOLEAN, {"Skip"})
=============================================================================

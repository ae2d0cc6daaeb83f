----------------------------- MODULE MCDocsSync -----------------------------
(* Keys and option sets for the runs of DocsSync. *)
EXTENDS DocsSync

OptionsOf(modes, deletes, policies) ==
  [mode : modes, delete : deletes, conflict : policies]

AllOptions == SyncOptions

TwoWayPreferB == OptionsOf({"TwoWay"}, {TRUE}, {"PreferRemote"})
TwoWaySkipBoth == OptionsOf({"TwoWay"}, BOOLEAN, {"Skip"})
TwoWaySkipDelete == OptionsOf({"TwoWay"}, {TRUE}, {"Skip"})
TwoWaySkip == OptionsOf({"TwoWay"}, {FALSE}, {"Skip"})

\* What tablet b may hold before the first sync.
AnyDocs == {"none", "own", "copy"}
NoCopies == {"none", "own"}

NoKeys == {}
FirstKey == {1}

\* What users do to documents; all they do.
DocActs == {"annotate", "create", "remove", "move"}
AnnotateActs == {"annotate"}
AllActs == DocActs \cup {"mkdir", "rmdir"}
=============================================================================

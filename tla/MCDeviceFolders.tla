-------------------------- MODULE MCDeviceFolders --------------------------
(* Paths and option sets for the runs of DeviceFolders. *)
EXTENDS DeviceFolders

Pdf(dir, stem) == [dir |-> dir, stem |-> stem, kind |-> "pdf"]

\* 1/3/9, 1/9, 2/3/9, 2/9: two folders that can become each other, a subfolder.
TwoTrees == <<Pdf(<<1, 3>>, 9), Pdf(<<1>>, 9), Pdf(<<2, 3>>, 9), Pdf(<<2>>, 9)>>

\* One tree with its subfolder, or a document in each tree.
SomeSynced == {{1, 2}, {1, 4}}

\* One document in the first tree, without the subfolder.
OneSynced == {{2}}

OptionsOf(modes, deletes) == [mode : modes, delete : deletes, conflict : {"Skip"}]

AllSkip == OptionsOf(Mode, BOOLEAN)

TwoWayDelete == OptionsOf({"TwoWay"}, {TRUE})
OneWayDelete == OptionsOf({"Push", "Pull"}, {TRUE})
=============================================================================

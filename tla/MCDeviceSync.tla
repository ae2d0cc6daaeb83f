---------------------------- MODULE MCDeviceSync ----------------------------
(* Paths and option sets for the runs of DeviceSync. *)
EXTENDS DeviceSync

PathOf(dir, stem, kind) == [dir |-> dir, stem |-> stem, kind |-> kind]

\* One pdf.
OnePdf == <<PathOf("x", "n", "pdf")>>

\* Two pdfs: a rename goes from one to the other.
TwoPdfs == <<PathOf("x", "m", "pdf"), PathOf("x", "n", "pdf")>>

\* A pdf and a notebook's bundle that compete for one name on the tablet, and a
\* pdf of another name.
BundleAndPdfs == <<PathOf("x", "n", "pdf"), PathOf("x", "n", "rmdoc"), PathOf("x", "p", "pdf")>>

\* A bundle of a pdf restores to a pdf document of the bundle's name.
PdfBundle == <<PathOf("x", "n", "pdf"), PathOf("x", "n", "rmdoc")>>

OptionsOf(modes, deletes, policies) ==
  [mode : modes, delete : deletes, conflict : policies]

SkipOptions == OptionsOf(Mode, BOOLEAN, {"Skip"})
AllOptions == SyncOptions
PushSkip == OptionsOf({"Push"}, {FALSE}, {"Skip"})
TwoWaySkip == OptionsOf({"TwoWay"}, {FALSE}, {"Skip"})
TwoWayPreferRemote == OptionsOf({"TwoWay"}, BOOLEAN, {"PreferRemote"})
TwoWayResolving == OptionsOf({"TwoWay"}, BOOLEAN, ConflictPolicy \ {"Skip"})

AllFolderActs == {"write", "remove", "rename", "copy", "touch"}
AllTabletActs == {"annotate", "remove", "move", "create"}
=============================================================================

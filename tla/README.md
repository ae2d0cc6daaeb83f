# A verification project for remarkable-utils

`rmu` (crate `rmu/`) and its library (`libremarkable-utils/`) manage the
documents of a reMarkable tablet over SSH. Most of the program is thin I/O; its
own logic, and nearly all of its risk, is `rmu sync`: a three-way sync between
two of {file tree, tablet}, with an archive of what was last agreed, modes,
conflict policies, `--delete`, move detection, and users who keep working on
both sides while it runs. This directory models that in TLA+, checks it with
TLC, and proves part of it with TLAPS.

Source paths below are relative to `src/libremarkable-utils/src/` unless they
say otherwise; `PROJECT.json` maps every definition to its lines.

## 1. Inventory

| Component | State it keeps | Operations | Talks to |
|---|---|---|---|
| Sync policy, pair table (`sync.rs:1033-1271`, `3150-3259`) | none | `winner`, `can_write_*`, `decide_pair` | called by the two symmetric planners |
| Filesystem-filesystem sync (`sync.rs:3117-3425`, `rmu/src/main.rs:817-913`) | two trees, archive | list, `plan_files`, `execute_files` | `FsEndpoint`s, archive file |
| Filesystem-tablet sync (`sync.rs:1328-3100`, `main.rs:674-810`) | folder, tablet, archive | list, hash, `plan` (`detect_moves`, three-way table), `execute`, restart | `Client`, `FsEndpoint`, archive file |
| Tablet-tablet sync (`sync.rs:3428-3905`, `main.rs:555-672`) | two tablets, pair state | list, `plan_docs`, `execute_docs`, restart | two `Client`s, pair-state file |
| Archive (`sync.rs:451-546`, `3447-3476`) | one JSON file per endpoint pair | load, save by temp file and rename | the three syncs |
| Remote document store (`client.rs`) | the tablet's `uuid.*` files | register, restore, update, move, delete, mkdir, download, trash | SSH, listing cache |
| Listing cache (`client.rs:116-190`, `1119-1260`) | cached metadata bodies by (mtime, size) | incremental listing, invalidation | the store's readers, never sync |
| SSH transport (`ssh.rs`) | child processes and their pipes | run, stream, staged write | the store, `SshFs` |
| Path resolution (`xochitl.rs`), bundles (`bundle.rs`), status, CLI | none | pure functions and output | everything |

How they interact: the sync is one sequential process. It lists one side, then
the other, loads the archive, computes a whole plan from those listings
(pure), and executes it action by action, saving the archive after each.
Nothing is locked. Concurrency comes from outside: the user of the computer
edits files, the tablet's UI (xochitl) and other clients change documents, and
the process can be killed, lose its connection or hit an I/O error between any
two effects. xochitl sees what the sync wrote only after a restart.

What is hard, and what each component must get right:

* *Pair table*: writes only the sides the mode allows; under the default policy
  overwrites or deletes only what has not changed.
* *Each sync*: loses no version under the default policy; never silently
  overwrites; its archive vouches only for equal content; a finished
  undisturbed run leaves what its mode promises and a second one is idle; a
  one-way run never writes its source; an interrupted run resumes cleanly;
  every run ends.
* *Move detection*: a file is renamed only because its document was; no
  duplicates are made; no copy is left behind.
* *Tablet visibility*: after a finished run the tablet shows what was written.
* *Device folders*: a folder is deleted only for content the sync had archived, and
  only when it is empty; a renamed folder keeps its documents.
* *Document store*: an operation stopped anywhere leaves no broken document, orphan,
  cycle or duplicate name; it does what its arguments say to the items they stand for,
  and keeps what the tablet changed meanwhile.
* *Listing cache*: no listing returns a body older than the listing, in particular not
  after a mutation of its own.
* *Transport*: no deadlock between full pipes; a staged file is replaced whole or not
  at all, success means the whole file, error messages are not cut.

`PROJECT.json` lists each hazard at its line with the properties that cover it.

## 2. Modules

| Module | Models |
|---|---|
| `SyncPolicy` | modes, policies, `winner`, `can_write_local/remote` |
| `PairTable` | `decide_pair`, shared by the two symmetric syncs |
| `FilesSync` | filesystem-filesystem: trees, users, listing, plan, each effect of the copy closure, archive |
| `DevicePlan` | the planner of filesystem-tablet sync: listing with exclusions, hashing, move pre-pass, three-way table, action order |
| `DeviceSync` | its run and executor, the tablet, the folder, both users, interruptions, the restart |
| `DocsPlan` | tablet-tablet: `remote_snapshot`, `plan_docs` |
| `DocsSync` | tablet-tablet: `execute_docs`, pair state, two tablets and their users, interruptions, restarts |
| `DeviceFolders` | the folders of filesystem-tablet sync: the walk of `remote_snapshot`, folder moves, folders a plan needs or empties, their executor arms |
| `ItemTree` | references, globs, ancestor chains and the checks before a change, over one listing (`xochitl.rs`) |
| `RemoteStore` | every operation of `Client` as a listing, a decision and a sequence of remote commands, with the tablet's own program beside it |
| `ListingCache` | `list_items_incremental`, the cache file, invalidation, several processes, a tablet that changes its files |
| `SshStream` | one transfer over a child ssh: the calling thread, the reader threads, the remote shell, pipes, a helper that inherited them |
| `FileTransfer` | the abstract specification that `SshStream` implements: what a transfer promises its caller |
| `MC*` | option sets, path sets and item trees for TLC |
| `PairTableProofs` | theorems about `decide_pair` |
| `FilesSyncProofs` | theorems about file pairs: types, plan and writes; archive, second runs, lost versions |
| `DocsSyncProofs` | theorems about tablet pairs |
| `DeviceSyncProofs`, `DeviceSyncArchive` | theorems about filesystem-tablet sync: types, plan, writes, one entry per document; what the archive vouches for |
| `RemoteStoreProofs` | theorems about the document store |
| `SshStreamProofs` | the refinement of `FileTransfer`, diagnostics, staging files |
| `ListingCacheProofs` | theorems about the listing cache |

`PairTable` extends `SyncPolicy`; `FilesSync` and `DocsPlan` extend
`PairTable`, `DevicePlan` extends `SyncPolicy`; `DeviceSync` extends
`DevicePlan`, `DocsSync` extends `DocsPlan`. `DeviceFolders` extends `DevicePlan`:
the table and the file moves of its plans are the same definitions that
`DeviceSync` runs. `RemoteStore` extends `ItemTree`. `SshStream` has an
`INSTANCE` of `FileTransfer` with `dest` and `result` mapped to themselves and
`staged` to `kind # "write"`. Definitions named "Mutant of X" are
plausible bugs of X that `PROJECT.json` pairs with the property that catches
them; nothing else uses them.

### How state and actions correspond to the code

*Content* is a version: a number, fresh for each user edit. A file's stamp is
`(size, mtime)` in the code; versions of one length are told apart by mtime
alone, a truncated file also by its length. A hash is the version itself: equal
hashes mean equal content. *Time* is a counter per side, so no order between
the clocks of two machines is assumed; two edits on one side never share a
time, except a tablet document uploaded by another client, which may carry an
old one.

*Archive.* Every change to the in-memory archive is followed by a save through
a temp file and a rename before the next effect, so one variable
(`archive`, `state`) stands for both.

*Users.* `live` holds the versions users wrote and did not themselves replace or
give up: a removed version is given up if it was the last copy or if the runs
use `--delete`. `quiet` says that no user step or interruption has happened since
the run's listing began; properties of "undisturbed" runs are conditional on
it, but whatever came *before* that run is arbitrary.

*`FilesSync`*: `Scan` lists side a, `MakePlan` lists b and plans;
`StartCopy`, `StatSource`, `ReadSource`, `VerifyBeforeWrite`, `Truncate`, `Fill`,
`StatDestination`, `VerifyAndRecord` are the `copy` closure of `execute_files`
line by line (`sync.rs:3322-3369`), `RemoveFile` and `Forget` its other arms.
A failed check is `Fail`: the `?` that ends the run.

*`DevicePlan`/`DeviceSync`*: a plan is a set of actions with a total order
`Before` (bucket, then path), which `Current` follows. Each executor arm is an
effect (`UploadDocument`, `UpdatePayload` then `TouchLastModified`,
`DownloadDocument` then `HashWritten`, `MoveDocument`, `RenameFile`,
`CopyOnDevice`, `CopyLocally`, `DeleteEffect`) and a save (`RecordTransfer`,
`RecordLocalMove`, `RecordDelete`, ...). `MakeActions` is `plan()`: `Prepass` re-keys
moves (`detect_moves`), `TableActions` applies the three-way table to the rest.

*`DocsPlan`/`DocsSync`*: `ListingOf` is `remote_snapshot` with its exclusions;
`CreateFolder`, `DownloadBundle`, `DeleteReplaced`, `RestoreBundle`, `RecordCopy`
are `create_folder` and `copy_doc`; `Restart` and `RestartFails` are the end of `run_docs_sync`: a's restart comes first, and when it
fails, b's is skipped. A uuid
that nothing refers to any more stands for the next fresh one, which keeps the
state space finite without a counter. A restored bundle appears whole or not at
all, because `rmdoc_to_tar` puts the `.metadata` entry last.

*`DeviceFolders`*: an item of the tablet is its metadata file (parent, name,
lastModified), and paths are computed by walking up (`Chain`, `PathOf`) as the snapshot
does; twins and what is below them are excluded. `Plan` is one step: the folder
pre-pass (`FolderVanished`, `FolderMoves`) re-keys a whole subtree, `DevicePlan`'s
`MakeActions` decides the rest on the re-keyed listing, `Condemn` is
`append_dir_deletes`, `NeededFolders` the folders to create. `CreateRemoteFolder`,
`MoveRemoteFolder` then `RecordFolderMove`, and `DeleteRemoteFolder` are the executor's
arms; the other arms are those of `DeviceSync` for files that nobody edits.

*`ItemTree`/`RemoteStore`*: a listing is a function from uuids to (name, parent, kind).
An operation reads `Listing`, decides everything on it and leaves a sequence `todo` of
remote commands; `Next1` runs the first. A document has its metadata in `meta` and its other
files in `parts`, so `StoreDocument` puts five files in the code's order and
`RegisterItem` is the write of the `.metadata`. `update_metadata` is two commands,
`ReadMetadata` and `WriteMetadata`, with `held` in between. `Fail` may come between any two.
The tablet renames, moves, creates and purges at any moment.

*`ListingCache`*: `StatFiles` is round trip 1, `LoadCache` reads the cache file, `Fetch` is round trip
2 with its fall-back to `ListFull`, `Save` replaces the cache file. `BeginChange` is
`invalidate_listing_cache` and `Write` the remote command after it; `ReplyLost` leaves the
command to run later (`LateChange`) or never. Bodies are numbered by the change that made them. The
ghost `blurred` names the files that had two bodies under one (second, length) without
anybody dropping the cache after the second: what (mtime, size) cannot tell apart.

*`SshStream`*: `main` is the calling thread's place in `copy_with_progress`, `finish`,
`wait_for_output` or `drop`; `reader[p]` is the `drain_pipe` thread of a pipe; `shell` is
the place in `staged_write_command`'s script. Chunks stand for data. A writer of a full pipe
waits (`saying`, `Flush`). `cat` may also fail while the connection stands (`ReceiveFails`). `Held` are the pipes a lingering helper holds: not the stdout of a
download, which the code reads to its end. ssh is *assumed* to notice a dead connection
(`SshExit`): one that neither ends nor fails would keep the caller waiting.

## 3. Runs

The runs of `PROJECT.json`, each with its own question:

| Run | Question | Result |
|---|---|---|
| `files_policies` | two file trees, every option set changing from run to run, edits in the middle of copies, an interruption: is what is skipped equal, a second run idle, a one-way source spared, anything unrecorded overwritten or lost under the default policy, and does every run end? | yes, no loss |
| `device_skip` | two pdfs, default policy, every mode, renames, moves, copies: is a version lost? | no |
| `device_bundles` | a notebook and a pdf compete for one name, a second pdf, interruptions also inside in-place writes: lost versions, duplicates made by the sync? | no |
| `device_policies` | one path, every option set: agreement, idle second run, truthful archive? | yes |
| `device_moves` | two pdfs, two-way, documents moved and replaced while users disturb the plan: only moved documents drag files, undisturbed runs succeed, no document is mapped twice? | yes |
| `device_folders` | two trees with subfolders, one-way with `--delete`, renamed, emptied and refilled on both sides, an interruption: is something lost, a document of a renamed folder replaced, an untracked folder deleted? | no |
| `folders_rename` | two-way with `--delete`: is a deleted folder always empty? | violated, see 6 |
| `docs_skip` | two documents on two tablets, one in a folder, default policy, an interruption at any step: vanished documents, untruthful pair state, replacements without a parent, duplicates? | no |
| `docs_policies` | every option set: agreement, a restart for everything a finished run changed? | yes |
| `store_ops` | every operation of the client on every forest of a folder, an item of any kind and a document with a payload, stopped after any command, the tablet acting once at any moment: broken documents, a tree that is none, other items than the arguments say, lost acts of the tablet? | no |
| `listing_cache` | two processes with one cache file, a tablet that changes the file, lost replies, late commands: a wrong cached body, a stale listing? | no |
| `ssh_stream` | upload, in-place write and download with full pipes, a helper, a lost connection, deaths of both ends: does the transfer implement `FileTransfer`, keep its diagnostics, clean up, return? | yes |

The other configurations are kept beside them and run by hand
(`tlc -config <name>.cfg MC<module>`; `files_*` with `MCFilesSync`, `device_*` with `MCDeviceSync`,
except `device_folders`, `folders_*` with `MCDeviceFolders`, `docs_*` with
`MCDocsSync`, `store_*` with `MCRemoteStore`). They are the further counterexamples of section 6.

### Bounds, and why they are enough

* **Paths.** The planners decide each path from its own views and entry, except
  for move detection, copies by content, names that collide on the tablet, folders and
  the order of the plan. One path therefore covers the tables with every option;
  two paths cover the rest (a rename goes from one to the other, two files
  compete for one name, an action precedes another). `DeviceFolders` has four paths in two
  trees of depth two: a folder can become the other one, with or without its subfolder.
  Three-way move cycles are out of these bounds.
* **User steps** (`MaxEdits` 2) with any number of runs in
  between: what a path can be told apart by is changed or unchanged on either side,
  so two edits reach every row of the tables, before, during or after a run. In
  `device_folders` they include the interruptions.
* **Interruptions** (`MaxCrashes` 0-1): after one, the next runs are undisturbed
  by it, which is what "resumes cleanly" is about.
* **Documents.** `NumDocs` (`DeviceSync`, `DeviceFolders`) bounds the uuids ever used, and
  registering stops there; it is chosen as the initial documents plus what edits and
  interrupted uploads can add, plus slack. In `DocsSync` uuids are reused and the
  bounds are never reached.
* **Store.** Three items are the least with a folder, something below it and something to collide with;
  all their forests are initial states. `MaxOps` is 1: every operation starts from a fresh
  listing, so earlier operations only lead to another forest, and those with orphans or
  half-removed items are reached by the tablet's act (`MaxEdits` 1). Two new uuids
  suffice for `mkdir` of two segments.
* **Cache.** One file, since files do not interact except through the fall-back; two processes; three changes and two seconds, so that
  bodies can share a second, a length, both or neither. The proofs lift all of these.
* **Stream.** A file of two chunks and pipes of one: the file does not fit a pipe, which is what makes
  either side wait; sources that are a chunk short or long; one more chunk of noise per
  pipe than fits while another is queued.
* `QuietRuns`, `QuietDestination` and `UsersRest` (users leave alone what a running plan will
  write, or everything) are *assumptions*: the syncs look at a destination once. Where a property
  needs them its run sets them, and `files_overwrite`, `docs_overwrite` and `folders_race` show
  what happens otherwise. In the syncs of file pairs and of tablet pairs sources may always be edited.

`CHECK_DEADLOCK` is on everywhere except in the `store_*` configurations: with `MaxOps` operations done
nothing is left to do there. In `SshStream` the end of a transfer is a step of its own
(`Over`), so TLC's deadlock check says that nothing else ever stops.

### Fairness

`FilesSync!FairSpec` makes `SyncStep` weakly fair: the sync is one sequential thread that, once
started, executes its next statement. Users, interruptions and the decision to
start a run are not fair. Blocking forever inside an SSH call is
`SshStream`'s question.

`SshStream!FairSpec`: the calling thread, each reader thread, the remote shell and the
exit of ssh are weakly fair: they are threads and processes that an
operating system schedules. `Flush`, a writer waiting for room in a pipe, is strongly
fair: a helper that prints all the time can take the room again and again, but the kernel
serves those who wait in turn. The helper never has to exit, the connection never has to
fail or hold.

## 4. Proofs

All theorems are checked by TLAPS for every value of the constants: any number of paths, documents, items or processes,
any set of options, any bound on edits and interruptions. Each inductive invariant was first checked by TLC on the
bounds of the component's runs.

**`PairTableProofs`**, about `decide_pair` for all views of the two sides. `DecidePairRespects`: it
writes only sides the mode allows. `DecidePairIsSupplied`: it never copies from or deletes on a side without the
document. `SkipSparesChanges`: under the skip policy what it overwrites or deletes
is absent, or mapped and unchanged; `SkipCarriesChanges`, a lemma: and what it copies there is changed. All
are case splits over the rows of the table, one lemma step per row. Both symmetric syncs rest on them.

**`FilesSyncProofs`**

* `TypeCorrect`: `Spec => []TypeOK`. `TypeOK` is inductive as it stands; one step per action.
* `SourceIsUntouched`: `Spec => SourceUntouched`. The property is not inductive: a
  write is allowed by what the *plan* says, not by the mode. The strengthening
  `PlanRespectsMode` says that a running plan has no disposition that
  writes a side the mode forbids, and that a copy in progress is one of the plan.
  `MakePlan` establishes it by `DecidePairRespects`; every other step only removes work.
* `SkipNeverOverwrites`: `QuietDestination => (Spec => NeverSilentlyOverwritten)`.
  The strengthening `SkipPlanIsFresh` says that under the skip policy, what the plan is
  still to overwrite or delete is as the archive recorded it, and that the first
  listing is still true of a writable side. Without the assumption the property is false (`files_overwrite`).

The second part of `FilesSyncProofs` rests on `ArchiveInv`: `IInv`, the invariant of the first part, and that every stamp that was read or
recorded is past (`StampsArePast`: a later write gets another one), that a copy in progress has the bytes of
the stamp it noted unless its source changed since (`CopyOK`), that what the first listing and the archive agree on
is listed as it is (`ListedAsRecorded`), that a version that is as recorded and that users still want is so on both sides,
and no run has plans for it (`WantedIsOnBothSides`), and that a quiet run has settled every path it is done with (`QuietRunSettles`).

* `VouchedFilesAreEqual`: `QuietDestination` implies `Spec => []ArchiveVouches`.
* `UndisturbedRunSettles`: `Spec => []SecondRunIdle`, without hypotheses.
* `SkipKeepsVersions`: `Spec => SkipLosesNothing` for runs of any options before it; `NothingIsLost`:
  `Spec => []NoVersionLost` when every run is under the skip policy. Both need `QuietDestination` and that some option
  set has `--delete`: only then does removing a file give its version up. Without `--delete` a user
  may remove one copy and keep the other, and a torn write or a one-way run then destroys that one.
* `FinishedRunsAgree`: `QuietDestination` implies `Spec => []FinishedRunAgrees`.

**`DocsSyncProofs`**, in layers. `ProcessInv` (types, `RunShape`: what each place of the executor implies for the plan and the
action in hand, `PlanRespectsMode`, `FolderIsPlanned`, `ChangesAreRemembered`) gives, without hypotheses, `TypeCorrect`,
`FolderIsKnown` (`SuccessorHasParent`), `RestartsWhatItChanged` (`ShowsWhatItChanged`) and `SourceIsUntouched`.
`DocsInv` adds that stamps are past and that a copy in progress is true to its source (`CopyIsTrue`), and gives
`MatchedDocumentsAreEqual` (`StateVouches`), also without hypotheses: unlike a file, a restored document is new and
nobody can have edited it under the stamp that is archived.

`RunsMirror`, `Spec => []FinishedRunAgrees`, has no hypotheses either: `UndisturbedInv` speaks of a run that nobody has disturbed
so far. Its plan is made from what both tablets hold, so what is still to be copied is the only document of its path on
the source and what is to be deleted has no counterpart (`PlanIsCurrent`), and where nothing is left to do the two paths have
equal documents, or an ambiguity that no step of the run can lift (`DoneIsLevel`). It rests on `DecidePairMirrors` of
`PairTableProofs`: a run that must agree on a path copies, or deletes what the other side has not, or finds both unchanged.

While users leave alone what a running plan is to write (`QuietRuns`), `QuietInv` holds: tablet a is as listed where
the plan may write it, what is to be destroyed is the document of its path, and known to the pair state under the skip
policy, and a restore finds its place free. It gives

* `SkipNeverOverwrites`: a document is removed under the skip policy only as the pair state knows it. `docs_overwrite` shows
  that this fails without `QuietRuns`;
* `NamesStayUnique`: `Spec => MakesNoDuplicates`. The documents of a path and the subfolders are counted, so the proof
  carries the sets and compares their cardinalities at the end;
* `NoDocumentDisappears`: `Spec => []DocumentsSurvive`, when also every run is under the skip policy. `SurvivalInv` says that
  where the pair state knows one document of a pair the other one is there (`PairsAreWhole`), of the tablets, of the
  listing, and of what is planned: a replaced document is replaced by one that the pair state does *not* know,
  so that an interruption between the deletion and the restore leaves a pair that no later run takes for a deletion.
  Both hypotheses are needed. A one-way run that prefers its source replaces a changed document by
  an unchanged and known one: interrupted, it leaves what a later two-way `--delete` run takes for a deletion
  (`docs_replace_crash`). And a document that a user renames while the plan is to replace it is deleted under its new name.

**`DeviceSyncProofs`**. `RunInv` is inductive and holds without hypotheses (`RunsAreSound`), so for every tree of
paths, every kind in a bundle and users who work on both sides at any moment. Types alone are not inductive: a document
gets the target and kind of the action that writes it, and `Current` is *chosen* from the plan. So it also says

* `PlanFits`: what each action of a running plan is (`ActionFits`: it writes a side the mode allows, its document was registered
  and is of a kind its path can hold), and that two actions are ordered, and that what the rename of a file follows
  is not touched before it except by the move of its document (`PairFits`);
* `RunShape`: when there is a plan, and what the effect before a save returned;
* `DocsFit` and `EntriesFit`: every document of the tablet has a path, and every entry is about a registered document of a kind that
  fits its path. A bundle may restore to another kind than its extension says, so kinds fit up to `BundleKinds`.

That a plan is so is `PlannedFits`, which follows the planner: its input (`InputFits`), the move pre-pass (`PairsMatch`, `RemoteMovesMatch`,
`RekeyFits`, `MovesFit`), what is shown at a path (`ViewFits`), one lemma for each row of the table (`DecideYields`), the actions together
(`TableIsFit`). Then one lemma for each step of the executor and of the users (`StepKeeps`).

* `TypeCorrect`: `Spec => []TypeOK`.
* `SourceIsUntouched`: `Spec => SourceUntouched`: a push never writes a file and a pull never a document.
* `OnlyTrackedIsDeleted`: `Spec => DeletesOnlyTracked`. `DeletesFit` says that what a plan is still to delete is in the archive, or is
  about to be by a `Rebind` that comes before it, and that no other action of the plan writes that entry.
* `EntriesAreUnique`: `Spec => []MappedOnce`, when users leave a running plan alone (`QuietRuns`). That one
  save leaves two entries for a document is not visible in the archive before it, so `OnceInv` follows the plan: two actions for one
  document bind it to one path (`PairOnce`); what moves it ends where the other action binds it (`ReachesIn`); an agreement about
  it that comes before its move fails, since its file is not there yet (`WaitsFor`); its entry is at the action's path or is still
  to be moved there (`PlacedIn`). That a plan is so is `PlannedPairsOnce`, `PlannedPlaced` and `PlannedWaits`, from
  the archives that the planner re-keys, each with one entry per document (`RekeyedOnce`, `SeenOnce`), and from what no two paths
  are shown: a document that took a vanished one's place is claimed by the first entry that wants it (`ViewsApart`). The hypothesis
  is needed (section 6), although the run `device_moves` meets no counterexample without it within its bounds.

**`DeviceSyncArchive`**. `SkippedIsEqual`: `Spec /\ TouchedWhole => []ArchiveVouches`, when users leave a running plan alone (`QuietRuns`),
bundles hold notebooks and no user renames a file. What a run archives is put together from three times: the hash is of the listing,
or of a file that the planner took for the same one; the file's stamp is read at the save; the document's is what the effect returned. `VouchInv`
keeps them together, on top of `RunInv` and `OnceInv`:

* `StampsPast`: every stamp in the archive, the plan and on both sides is past, so a later write gets another one;
* `Vouched`: an entry's stamp of a file vouches for the archived hash, so does its time of a document, and payload hash and file
  hash of an entry are one. The document whose payload is new and whose `lastModified` is not (`Touching`) is left out;
* `PlanBacked`: the hash of every action left is that of the file it reads, if need be after a rename that is still to come
  (`WillHold`), and of the document it agrees with; a rename finds its path free; no action writes what another one reads
  (`ReadApart`: the reason for the second pass of the table, which leaves copies out of what is overwritten, and for the order of the buckets);
* `StageFits`: what the effect of the current action left behind for its save.

That a plan is so starts from what hashing may take from the archive (`StartTruthful`), follows it through both re-keyings
(`RekeyedTruthful`, `SeenTruthful`) and through each row of the table (`MappedBothMakes` to `CollisionMakes` say which action a row
makes and when, `DecideRight` that its hashes are right), and through the two passes of the table (`SamePasses`, `TableRight`, `PlannedApart`).
Then one lemma for each step. The theorem covers options that change from run to run, torn writes, and interruptions anywhere but one place:
`TouchedWhole` says that none falls between the two remote writes of an update. There the property is false (section 6). So it is
when users disturb a running plan, where old hashes are archived with new stamps (`device_stale_hash`), and when they rename files: of two
files with one stamp, as those of the initial trees, one can be renamed to where the archive knows the other (TLC: two pdfs, `FolderActs` rename and remove,
`MaxEdits` 2; 6 states). The condition on bundles makes an entry's kind that of its
document (`EntryOfKind`), on which the argument about payload hashes rests; TLC found no counterexample to `ArchiveVouches` without it.

**`RemoteStoreProofs`**. An operation plans its remote commands on one listing and may stop after any of them, while the
tablet acts. `StoreInv` is `TypeOK` and what makes every plan safe to stop: which commands an operation may have
left and in which order (`PlanOK`), that a document is registered only when its files are there or come first
(`ShowsComplete`), that payloads go only after the item is hidden (`DropsHidden`), that what is written back was read
and is what the tablet has (`HeldIsCurrent`). That each operation plans so needs what its lookups return on a forest of any size:
`ResolvesToItem`, `ResolvesToFolder`, `DescendantsAreItems`, `GlobsMeetItems`, `ExpandsToItems`. They walk trees and paths
by recursive functions; the section on induction of the module proves what those yield from the well-founded order of `Nat`, with the
induction hypothesis as a set instead of an operator (`Least`, `SetInduction`, `Recursion`), and that flattening sequences of safe plans is a safe plan
(`FlattenStays`). Without hypotheses:

* `TypeCorrect`: `Spec => []TypeOK`, with fresh uuids used once;
* `DocumentsStayWhole`: `Spec => []NoBrokenDocument`;
* `TabletChangesAreKept`: `Spec => TabletActsSurvive`;
* `ForestStays`: `Spec => []StaysATree`. `Sound`, which the runs check, walks up the chain of ancestors that the code walks, with
  its cap. `SoundIsTree` says it of the parents alone (`TreeOK`: no set of items is closed under parents, `NoLoop`), which a
  proof can follow through a change. That the listing is a tree is not inductive: what is left of a plan must fit
  it. `TreeInv` says that while the tablet has been left alone the listing is a tree, what is held is what the tablet has, and
  `PlanFits`: an item is registered under a new uuid, below a folder that is there or is registered before it (`RegistersFit`); items move to
  folders that neither move nor are below one that does, under names that nothing there has (`WritesFit`, with the folders above the
  destination, `Above`, as the set that stays); an item is removed after all its children (`DropsFit`). Every command leaves a
  tree and a rest that fits (`AddedFits`, `SetFits`, `RemovedFits`), and every operation starts with a plan that fits: for a
  move from the ancestor check (`MovesFit`), for a removal from the closure under children that the walk down yields
  (`DoomedIsClosed`) and the order by depth (`ChildIsDeeper`, `DropsFitIn`), for `mkdir` from the chain of new uuids
  (`FoldersFit`). How the commands of one item after the other lie in a plan is `PlanIsLaid`.

**`SshStreamProofs`**

* `TransferRefines`: `Spec => KeepsItsPromise`, the refinement of `FileTransfer`, for
  files, pipes and noise of every size. The invariant `IInv` counts chunks:
  `Writing` says that what was fed is in stdin's pipe or in the file, and that `cat` can end well
  over a live connection only after the last chunk; `Downloading` the same for stdout and the
  staging file; `Uploading` that the rename follows a byte count that
  matched; `Feeding` that the calling thread lets go of stdin only when all was fed or the
  transfer failed. `Control` has the types and the order of the steps. `NextRefines`
  then maps each step to one of `FileTransfer` or to a stutter.
* `DiagnosticsAreKept`: `Spec => []DiagnosticsKept`. `Collecting` counts what the child said: collected, or still in the pipe;
  `Draining` says that a cancelled reader of a pipe whose child is gone leaves it only when it is empty of the child's output.
* `StagingIsCleared`: `Spec => []NoTempLeft`, from `Cleaning`, which follows the staging file through the traps of the shell
  and the drop of the local temp file.

**`ListingCacheProofs`**

* `CacheStaysCoherent`: `Spec => []CacheCoherent` for any number of processes, files,
  lengths and changes. `CoherentInv` adds that what a process in the middle of a listing
  is about to save is right too (`ListingsFit`), that a file's stat with a body that
  is not its own belongs to an earlier time or to a blurred file, and what a process knows that has
  dropped the cache and not written yet.
* `ListingsStayFresh`: `Spec => []ListingIsFresh`, from `CoherentInv` and
  `FreshInv`, which bounds from below the bodies that are cached or about to be saved.
* `TypeCorrect`: `Spec => []TypeOK`.

The assumptions are those on the constants (`FilesAssumption`, `DocsPlanAssumption`, `DocsAssumption`, `StoreAssumption`,
`StreamAssumption`, `CacheAssumption`, `DeviceAssumption`, `PathsAssumption`) and the hypotheses named above, stated in the theorems. `StoreAssumption` says
that the tablet's first forests are functions from uuids to items, which every listing is, and that no item stands for a missing one
(`NoItem \notin Entry`); it does not say that the forests are trees.

Only model-checked: liveness (`RunEnds`, `CallReturns`: out of TLAPS's reach here);
`DoesWhatItSays` of `RemoteStore`; `DeviceFolders`; and the other properties of `DeviceSync`. Of these `OnlyDeviceMovesDragFiles`,
`UndisturbedRunSucceeds` and `MakesNoDuplicates` hold within the bounds of their runs and not in general (section 6:
`device_rename`, `device_move_crash`, `device_touch_move`, `device_rename_name`), and
`NoVersionLost`, `FinishedRunAgrees` and `SecondRunIdle` need, beyond what `VouchInv` says, where else each version is while a plan
is carried out, and that nothing was disturbed since the listing, as `ArchiveInv` has it for file pairs.

## 5. Abstractions and what is not modelled

* Content is a version and files of different content have the same length. A
  change that keeps `(size, mtime)` is invisible to the code by design and not
  among the user steps. Hash comparison (`<`) in the move pre-pass, used to break ties,
  is comparison of version numbers.
* In `DeviceSync` folders are fixed; `DeviceFolders` has them, with files that are all
  pdfs and that nobody edits, users that rest while a run works (except in
  `folders_race`), and files and folders that keep their depth. A
  document is a pdf, an epub or a notebook; in `DeviceSync` a folder's path is one field of a target.
* `DeleteLocalDir`, which removes directories of the computer that the plan emptied, is not modelled: directories
  of the computer have no state of their own in the models.
* In `DeviceSync`, `DeviceFolders` and `DocsSync` a document's files change in one step; `RemoteStore` has them
  one by one (`.metadata` last on creation makes the one step true of creation; of deletion it is true up to
  the hole that `halved` names). Every other remote command of `RemoteStore` is atomic, `ListingCache` and
  `SshStream` look inside listings and transfers.
* How a glob segment matches the letters of one name (`segment_match`) is the constant `GlobNames`; how paths are split
  is left out; a uuid is a number that no name equals.
* `list_items_*` and `parse_stat_listing` are modelled by the stats and bodies they return, not by the text they parse.
* `SshStream` is one transfer over one connection; the options of ssh, the multiplexing master's start and
  `run_checked` without data (a transfer of nothing) are not modelled.
* A tablet or tree whose root is missing is not modelled (`sync_tablet_snapshot`, `root_exists`).
* The derivation of the archive's path and the choice of side a by identity
  are not modelled; a run is given in terms of a and b.
* `SshFs` has the semantics of `LocalFs`; symlink and path checks are not modelled.
* Not modelled at all: status, CLI, progress, errors (output only), the tar and zip formats of bundles (the order of
  their entries is in `RemoteStore` and `DocsSync`, the kind they restore to in `DeviceSync`).

A known limit: with a file removed while its document is moved on the tablet, the
run downloads the document to the path it no longer has, and only a further
run converges. `SecondRunIdle` of `DeviceSync` is therefore checked on one path.

## 6. Findings

Each row is a configuration whose TLC trace is the counterexample. `folders_rename`
is among the runs of `PROJECT.json`; the others are kept beside it and run by hand, as
section 3 says.

| Configuration | What happens |
|---|---|
| `files_torn_write` | `fs::write` truncates the destination in place; an interruption leaves a fragment whose version is nowhere else whole |
| `files_resume`, `device_resume` | the effect precedes the save, so an interruption in between ends in a reported conflict between equal contents instead of a clean resumption (so does a tablet pair, which compares no content at all) |
| `files_overwrite`, `docs_overwrite` | a destination edited after the listing is overwritten without a warning |
| `files_delete_mirror` | one-way with `--delete`, a file removed from the destination is not restored |
| `device_rename` | a local rename plans the document's move and, against it, the file's move back |
| `device_bundle_kind` | a pushed `.rmdoc` of a pdf is renamed to `.pdf` by the next two-way run |
| `device_rename_name` | a file renamed to a stem that a new file of another kind also has: the document's move and the upload are planned together, and the tablet ends up with two documents of one name, which every later run excludes. `upload_counts` (`sync.rs:1920`) counts neither the moved file nor its new name |
| `device_touch_move` | a touched file whose document moved makes every two-way run fail: `Refresh` runs before the move it presumes |
| `device_move_crash` | an interruption between the rename of a file and the save leaves a second copy |
| `device_stale_hash` | a file edited between listing and save is archived with the old hash and the new stamp |
| `device_restart` | xochitl is never restarted for what an interrupted run wrote |
| `docs_replace_crash` | a replacement interrupted after the deletion is taken for a deletion, which a two-way `--delete` run that prefers that tablet carries to the other one: the document is gone from both |
| `folders_rename` | two-way with `--delete`: a file renamed to 1/9 while 1/3/9 is removed. The document's move into folder 1, the file's move back (see `device_rename`) and the deletion of folder 1 are planned together; the moved document becomes an orphan, and the next run deletes its file. `sync.rs:2781`: "The planner guarantees this folder has no children left" |
| `folders_create_late` | a folder renamed on the computer and a file created in a new subfolder of it: the needed folders are computed from the paths after the folder move but created before it, so the run ends with not-found, and so does every later one |
| `folders_move_crash` | an interruption between the metadata write of a folder move and its save: the next run with `--delete` takes the unchanged documents below it for removed and deletes them |
| `folders_race` | a document that arrives in a folder the running plan is to delete becomes an orphan |
| `store_move_race` | a folder moved on the tablet between the check and the write of `move_items`: two folders become each other's parents, no listing shows them, and walks down do not end |

Two more that need longer traces than the runs have, found when `MappedOnce` and `ArchiveVouches` were looked at for a proof. A file is touched while its document moves on
the tablet, and a file is created at the document's new path once the folder is listed: `Refresh`, planned for the path after the move, finds the new file
there and writes a second entry for the document before the rename, which then falls on the new file (TLC: two pdfs, conflicts resolved, `FolderActs` write and touch,
`TabletActs` move, `MaxEdits` 3, `QuietRuns` FALSE; 11 steps).

The second is an update interrupted between its two remote writes (`client.rs:443`): the document has the new payload under the old `lastModified`, and its entry
still says that this time stands for the old bytes. If the user then removes the file and has a copy of its old version under another name, the next run takes
the copy for the renamed file and the document for unchanged, moves the document to the copy's name and archives the pair: file and document
differ, and no later run looks at them (TLC: `ArchiveVouches`, two pdfs, two-way without `--delete` under the skip policy, `FolderActs` write, remove and copy, no
`TabletActs`, `NumDocs` 4, `MaxEdits` 4, `MaxCrashes` 1; 16 states).

What the models say of the code and no run can: `rm` stopped between an item's files leaves a document
without its `.content` on display (`.content` sorts before `.metadata`), and a write
of the tablet's between the read and the write of `update_metadata` is undone; both are the
exceptions that `NoBrokenDocument` and `TabletActsSurvive` name.

## 7. Plan

Done: policy, file pairs, tablet planner and executor, tablet pairs, folders, the document store, the listing
cache and the transport; proofs of the pair table, of file pairs, of tablet pairs, of the planner and executor of filesystem-tablet sync
(types, sources, deletions, one entry per document, what the archive vouches for), of the store, of the cache, and of the transport with its refinement.

Next, models:

1. A missing sync root and its creation, `DeleteLocalDir`, and folders in two-way runs with edits.
2. An abstract `Sync` (per path: two contents and a base, one atomic step per
   decision) which `FilesSync` and `DocsSync` implement when undisturbed.
3. A store whose documents appear, change and vanish atomically, implemented by `RemoteStore` up to its two holes.

Next, proofs: `NoVersionLost` of `DeviceSync`, for users who do not rename; `MakesNoDuplicates` while users leave a running plan
alone; `TypeOK` and `NothingLost` of `DeviceFolders`; `DoesWhatItSays` of `RemoteStore`, whose globs need an induction over patterns.

# fs-organizer, modelled in TLA+

fs-organizer keeps the addons of Microsoft Flight Simulator in *libraries* of
its own and enables them with links in the simulator's *destinations*
(`Community` folders). This directory models the parts of it that move the
user's files or decide what the window shows, model-checks them with TLC and
proves the main results with TLAPS. Paths below are relative to the repository;
the C++ is under `src/`.

## The system

The window runs on one thread. Work that touches the disk runs in a thread of
its own (`BackgroundRunner`, one `QThread` per `Run`) whose completion handler
runs on the window's thread. Each view model has a `GuardedRunner`: while its
work is in flight, another request of the same view model is dropped; different
view models run at the same time, and so does the session's scan.

| component | state it keeps | operations | talks to |
|---|---|---|---|
| Import engine (`domain/importing/ImportEngine.cpp`) | the disk: entries, links, library folders, `.fsorg-partial` stagings, `.fsorg-swap` slots, sidecars | Import, GiveBack, Quarantine | file operations, sidecars, linking engine, operation log |
| Import service (`application/ImportService.cpp`) | none of its own | Import, Resume, GiveBack, Leftovers, UndoInterruptedSwaps; ResolveConflict, Admit, Restore, Swap, Discard | engine, journal, catalog scanner |
| Session (`application/Session.cpp`) | settings, the profile on screen, its snapshot, a scan, a read, counters of changes | ShowActiveProfile, ChooseProfile, RemoveProfile, library edits, overrides, registrations, refreshes | settings repository, profile service, every view model |
| Profile service (`application/ProfileService.cpp`) | the undo list | Scan, ReadEntries, SetEnabled, Relink, Repair, UndoLastBatch | linking engine, classifier, startup entries |
| Linking engine, link services | links on disk | Enable, LinkAt, Disable | file system |
| File operations, sidecar stores | files | CopyTree, Move, RemoveTree, Recycle; Write, Read, Forget | file system |
| Operation journal (`infrastructure/journal`) | a JSON-lines file and a cache of it | Append, Read | recovery, history page |
| Bisection (`application/BisectionService.cpp`) | a stored run | Begin, Answer, Refine, Stop, Resume, StartOver | profile service |
| Presets, archive installation, deletion, library organizer, startup entries | files, stored presets | apply, install, delete, move, edit `exe.xml` | profile service, session |
| Documents, scenery, sizes, coverage, updates, single instance, views | caches, widgets | reads | network, operating system |

What is hard in it: an import is a dozen file operations, any of which may fail
and any two of which a crash may separate, and recovery knows only what the
disk, the journal and the saved profile say. A scan, a read of the entries, a
link batch and a registration can be in flight together, each started from what
was true when it began. Settings, screen and disk are three copies of the truth.

What makes each component correct:

- the importer never loses an addon, never leaves a link into a folder that is
  gone or half gone, and another program's folder can always be given back;
- the session never loses a saved edit, never shows a profile with the trees of
  another, and never shows older links over newer ones;
- a conflict, a swap or a restore leaves both copies somewhere, with a true
  record of where they came from, and the links that led to one lead to a folder;
- a batch of links does what was asked and no more, what is then derived of it
  is what the disk holds, and an undo restores what was there;
- a deletion or a move of an addon takes its links with it;
- a bisection never rules out the addon at fault and puts back what it turned
  off, across crashes and changes by others;
- a startup entry that was removed can be restored, and undo, presets and the
  return preset are ways back.

`PROJECT.json` lists the components with what is left out of each, and the
hazards at their lines.

## Modules

| module | what it is |
|---|---|
| `Custody` | abstract: each addon is whole on one side or both, and a side lets go of one only while the other holds it |
| `ImportEngine` | `ImportEngine::Import`, `GiveBack`; `ImportService::Import`, `Resume`, `GiveBack` and the recovery; the adoption of results by `ImportViewModel` |
| `ImportEngineMC` | the instance TLC checks |
| `ImportEngineProofs` | type correctness, `NothingIsLost` and the refinement of `Custody` |
| `ImportPlacesProofs` | extends it: the other invariants of the importer |
| `Session` | `Session.cpp` with the link batches of the view models |
| `SessionProofs` | the theorems about `Session` |
| `Quarantine` | two copies of one addon: `ResolveConflict`, `TakeBackWhatWasReplaced`, `Admit`, `Swap`, `Restore`, `Discard`, `ImportEngine::Quarantine` |
| `QuarantineProofs` | that no copy is lost and links lead somewhere |
| `QuarantineRecordsProofs` | extends it: the records, and the links that come back |
| `Linking` | batches of links and startup entries: `ProfileService`, `LinkingEngine`, `EntryClassifier`, the links of presets |
| `LibraryFolders` | extends `Linking`: deleting addons (`DeletionService`) and moving them (`LibraryOrganizer`), beside the batches |
| `LibraryFoldersProofs` | the theorems about `LibraryFolders`, and so about the batches of `Linking` it composes |
| `Bisection` | `BisectionService`, its rounds, units, drift and store, and `BisectionViewModel` |
| `BisectionMC` | two ways four addons may be coupled |
| `BisectionProofs` | the theorems about `Bisection` |
| `Startup` | `StartupEditor`, `ExeXmlStartupEntries`, `RemovedStartupEntriesFile`, the startup half of the presets |
| `StartupMC` | the files, kept entries and presets TLC starts from |
| `StartupProofs` | the theorems about `Startup` |

Each module stands alone but for `LibraryFolders`, which composes its two
operations with every batch of `Linking`. `ImportEngine`, `Quarantine` and
`LibraryFolders` share the disk in the program, but their view models run one
operation at a time on folders of different addons or of one name, so that each
module has the interference there is. A batch as `Session` sees it is one read
and one write; what they are made of is in `Linking`.

### ImportEngine

A *request* is an entry of a destination that can be imported. For some
requests (`External`) the entry is a link to a folder another program
installed. Several requests may land on one *target* in a library, because a
target is a library place with the folder's own name.

| variables | in the code |
|---|---|
| `entry`, `entryLink` | `ImportRequest::source`, a folder or a link |
| `outside`, `outsideLink`, `aside` | the other program's folder, the link that stands in for it, its `.fsorg-swap` name |
| `library`, `staging`, `sidecar` | the addon folder, `<folder>.fsorg-partial`, the `ExternalSidecar` record |
| `announced`, `copied` | the last `ImportFromAnotherProgram` and `ImportCopyToStaging` records about a staging |
| `origins` | `SimulatorProfile::externalOrigins` as saved |
| `at`, `req`, `lib`, `giving`, `down` | where the worker is in `Import` or `GiveBack` |
| `todo`, `occupied`, `arrived` | the rest of the batch, the scan with `RememberTheLanding`, the results |

Contents are abstracted to what the engine can tell: a whole tree carries its
request's name, `"part"` has files missing or extra, `"mangled"` has the right
names and sizes with wrong bytes. Each call that changes the disk is an action;
`RemoveTree` is two, because it removes file by file and may stop anywhere.
Every step has a failure action with what the code undoes then, and `Crash` may
come between any two. Recovery (`Resume`, `DiscardStaging`, `UndoSwap`) is
whatever the user accepts of what the program offers, in any order and as often
as they like. A batch may list its requests in any order; a give back of
several folders is several give backs of one.

### Session

A profile is its id and the set of edits it carries; what a read of the disk
found is the set of link batches whose effect it saw. The counters
`profileChanges_` and `snapshotsAdopted_` are only compared for equality with
an earlier value of theirs, so work in flight carries `fresh` instead, which is
exact and needs no bound. Handlers of the window's thread are atomic; workers
read and write in steps of their own (`ScanReads`, `ReadEntries`, `BatchReads`,
`BatchLinks`, `RegisterLibraryOn`) between which anything may happen.
The edits are of four kinds because handlers treat them differently: libraries
(scan), the library a worker registers, origins (an edit followed by a scan of
the active profile) and overrides (`Keep`). An import of a legacy configuration
is the same handshake as a registration. One that is refused, because the profile
changed while its worker ran, is begun again by the view model that asked for it, by
itself and on the latest profile (`RefuseTheRegistration`;
`AddonTreeViewModel.cpp:778`, `OptionsViewModel.cpp:482`,
`LegacyImportViewModel.cpp:94`); a library the profile has by then is turned down
(`NothingIsRegistered`). One registration is in flight at a time here, of whichever
of the three.

### Quarantine

The folders here all have one name, so those of a library share one slot of its
quarantine whatever their category, which is where the operations meet. A place
is a category, the entry of a destination, or another program's folder.

| variables | in the code |
|---|---|
| `holds`, `half` | the folders at places, slots and swap slots; those only partly removed |
| `came`, `sidecar`, `journal` | where an item really was; the `QuarantineSidecar` record beside a slot; the last quarantine the journal recorded for it |
| `link` | the links in two destinations and the stand-in at the other program's folder |
| `op` | the operation in hand: `at` is the step, `loser` the copy that goes to the quarantine, `winner` and `goal` the other one, `places` the links that led to the loser |
| `restoring` | the items `Restore` checked and has not put back |

Every call that moves, removes or records is an action which may fail, with what
the code undoes then, or be the last before a `Crash`; the links taken down or
put back in a loop are one action that may stop anywhere. The guards of the
operations are those the code asks of the disk, so an operation may meet what a
failed or lost one left. The refusals while the simulator runs are left out:
they come before the first change.

Where code and documentation part, the model follows the code. An item stranded
in the swap slot is listed with the record of the item in the slot
(`ImportService.cpp:995`); a folder quarantined across volumes can never be
restored, because `Restore` is one `Move`, which does not cross volumes
(`PosixFileOperations.cpp:286`).

### Linking

Addons are the paths of their folders; all have the same folder name, so any may
be linked at any place. Three view models run batches (`"tree"`,
`"community"`, `"presets"`), each with one in flight: `SetEnabled`, `Toggle`,
`RelinkToTheProfileDestination`, `Repair`, `Apply` and `ApplyReturn` plan their
steps on what they read, without the lock; `TakeTheGuard` is `guard_`; the steps
then succeed or fail one by one, and `End` derives the entries the window shows
and the steps of the undo.

| variables | in the code |
|---|---|
| `link`, `there`, `gone`, `starts` | the disk: what stands at each place, folders that can be read (a drive may be disconnected), paths without an addon, startup entries that are on |
| `profile`, `pinned` | the profile in use; what overrides the default destination of each path in each profile: its own override, and that of the nearest category above it |
| `work` | the batch of each view model: what it read, its steps, what it did |
| `undo`, `previous` | `undo_` of `ProfileService`; the return preset |
| `base`, `replaced`, `strange` | not in the code: what the last batch found, the dead links it replaced, the places others changed since or where a step took another link than it was planned for |

Where a profile plans an addon (`Planned`) is computed by `Destination` as
`EffectiveDestination` does: its own override, else the one above, else the default.
The categories above a path are one override each may change on its own, so two
paths may have the same or different ones. A link's class (`Class`, `Marked`,
`Refreshed`) is computed as the classifier
does, incrementally after a batch. A preset is a function from addons to
*enable*, *disable* or *unnamed*. Others may link, unlink, connect drives and
switch startup entries (`SomeoneElseActs`). Three disagreements are in the model
as the code has them: an undo after another profile was chosen changes the links
of the earlier one (`manual/fs-organizer-en.tex:50-52`); a dead link `LinkAt`
replaced outside a repair is not restored by undo (line 614); and a step may take
a link it was not planned for (`Mistaken`). The last needs three batches. The
tree plans to take the link of `p` at a place down, and has not taken the lock;
a batch of the presets links `q` there instead; the tree's `Disable` asks for a
link and not where it leads (`LinkingEngine.cpp:66`), so it takes `q`'s, and its
undo links `p` (`ProfileService.cpp`, `Inverse`). The manual and `src/README.md:91`
say that undo takes back the whole last change. `UndoPutsTheLastBatchBack` excepts
the places where this happened (`strange`); they are the only ones, which the
theorem shows for any number of batches.

### LibraryFolders

`Delete` reads the links of every profile once and takes those of each addon
down one by one; the first that fails ends that addon, and when all are down the
folder goes; the completion forgets the undo. `MoveTo` reads the links of the
profile it begins with, takes them down, moves the folder and links it once where
that profile plans the *new* path: the folder's own override goes with it
(`OwnOnceCarried`), and without one the override of the category it comes to counts
(`PlannedOnceCarried`), as `CarryTheFolder` and then `EffectiveDestination` of the
target do (`LibraryOrganizer.cpp:332`, `275`; `tst_library_organizer.cpp:204`). An
addon deleted by other means may have left an override at the new path; then there
are two, of which the older counts, and the model takes either. The adoption carries
the override in the saved profile and forgets the undo.
Neither holds `guard_`, so every batch and every other program may come between
(`alone` remembers whether one did): a link a batch put at a place meanwhile is
removed all the same, since `Disable` does not look where it leads, and the
properties are about deletions and moves no one crossed. They also say nothing of
the links *another* profile has to an addon that moved: the code leaves them
broken. Left out: restoring from the recycle bin, category markers and sidecars,
renaming a category, several moves in one go.

### Bisection

Addons are numbered in the order of their paths, which is the order the code
splits them in. A procedure on its thread reads the disk, decides and stores the
run, applies the round, and reads the disk again as the baseline: `ReadTheDisk`,
`DecideTo...`, `Apply`, `AdoptAsTheBaseline`, `PutBack`, `Forget`. `facts` is what
the coupling scan finds; `UnitsFrom` joins what is coupled and chooses the base.

| variables | in the code |
|---|---|
| `entries`, `library` | the disk |
| `shown` | `Session::Snapshot()`, which no search refreshes |
| `store` | the stored `BisectionRun`; survives a crash |
| `baseline`, `work`, `stage`, `held`, `offer` | memory of the service and of the panel, lost in a crash |
| `culprit` | what crashes the simulator, an addon or something outside the libraries; the user answers truly about what loads |
| `setup`, `fair`, `inPlace`, `trusted` | not in the code: what was on when the search began, whether it can come back (no longer once an addon left or joined the libraries), whether the round is on disk, whether every answer was about one that was |

Left out: that removing the stored run may fail. `JsonBisectionStore.cpp:351-362`
ignores it, and the next start would offer a search that has ended; in the model
`Forget` always succeeds.

Known disagreements: `Begin` takes a stale snapshot as the setup (the finding of
`bisection_setup`); `Stop` forgets the run even if steps of putting back failed; a
change between a round and the reading of its baseline becomes part of the
baseline; the base of a group is never suspected in the second pass.

### Startup

A gesture (`Switch`, `Gesture`, `Undo`) and the switches of a preset
(`RunASwitch`) are each a read of the file with a keeping of what it takes out
(`Begin`) and a write (`WriteTheFile`, `TheWriteFails`), and then what follows in
the undo and the presets (`Settle`). `TheFileIsFree` is the lock of `Apply`,
which other programs (`ForeignWrite`) do not take.

| variables | in the code |
|---|---|
| `file`, `keeping`, `preset`, `back` | `EXE.xml` of each profile, the removed entries with the entry they stood before, what a preset and the return preset ask of entries |
| `profile`, `inUse` | the profile shown and the one whose file `ExeXmlStartupEntries` writes, which follows it |
| `undo`, `doing`, `worker` | the last gesture, the change each thread has in hand, the preset on the other thread |
| `away`, `owed`, `gone` | not in the code: what was on when the return preset was recorded, the newest entry taken out of each path, paths taken out or not followed |

Each profile here has a simulator, and so a file, of its own. The user does not
click between a profile's scan and the timer of 0 ms that switches the file, but a
preset on the worker may cross it. Known disagreements, all as the code has them:
a preset then switches entries of the other profile (manual:459); a write of
another program between read and write is overwritten (manual:478); undoing an
edit after `Forget` drops an older kept entry (`StartupEditor.cpp:522`); a preset
that names both paths of an edit loses one on undo (manual:514); a path twice in
the file leaves its second entry on. The properties except these cases by name
(`stale`, `EachPathOnce`, `away`, `gone`).

## Runs

| run | what it shows |
|---|---|
| `import_engine` | type correctness, the four safety invariants, completion, and refinement of `Custody`, over one addon of the user and two of other programs that share one library place: 720 498 states |
| `import_cancel` | *violation*: cancelling removes the staging the manual says is kept |
| `import_lost_swap` | *violation*: a first take-over that dies with the folder moved aside is not offered to be undone |
| `import_resume` | *violation*: a take-over that dies during its copy is announced as resumable, loses the half copy, and is refused |
| `session` | three invariants, three action properties and termination of everything asked for: 782 840 states |
| `session_chosen` | *violation*: an edit during the scan of a newly chosen profile brings the previous one back to stay |
| `session_entries` | *violation*: a scan that read before a link batch lands after it and hides its effect |
| `quarantine` | no copy is lost, links lead somewhere and come back, records tell the truth, an earlier copy is discarded only for a newcomer that stands: 2 070 140 states |
| `linking` | an undo restores, what was asked is so, what is derived is on disk, a repair takes only dead links, links go and move with their addon: 2 239 335 states |
| `bisection` | units are the coupled ones, the culprit is never ruled out, an answer is about its round, the announced rounds are enough, the setup comes back: 1 644 132 states |
| `bisection_setup` | *violation*: a second search saves a round of the first as the setup to restore |
| `startup` | nothing removed is lost, undo takes a gesture back, nothing else in the file changes, presets follow, the return preset is the way back: 2 016 098 states |

The violations are findings in `PROJECT.json`, each with the sentence or the
test it contradicts.

Every property of a passing run has a mutant: a definition of the model changed
as a plausible slip would change the code (a check that always passes, an
adoption without its stamp, a request that is never cleared). The mutants stand
beside the definitions they change and TLC finds the property violated with
each.

### Bounds, and why they are enough

- Importer: three requests on one target. Interference happens only through a
  shared name, and there are three kinds of pairs: own/external, two externals,
  and an addon with its own earlier attempt. Nothing else is bounded: batches,
  crashes and retries repeat for ever. The instance verifies by contents and
  lets copies be mangled, the harder case; the theorems cover the other.
- Session: two profiles, two view models with link batches, four kinds of
  edits, and `MaxAsks = 4` requests of the user in a behaviour. Each
  interference found needs two; four lets a chosen profile, an edit, a batch
  and a refresh be in flight at once.
  A registration is begun again only after a request of the user changed the
  profile, so `MaxAsks` bounds the restarts too; within the bound they race with
  three edits. `SavesCanFail = FALSE`: with failing saves `AppliedEditsStay` does not hold,
  because `LatestProfile` reads the stored profile (a hazard in `PROJECT.json`).
- Quarantine: three copies (an occupant, a newcomer, and one from before), two
  categories that share a slot, the other program's folder on another volume, and
  `MaxFaults = 2`: one fault leaves a state, the second meets it. Operations
  repeat for ever; the theorems hold for any bound. The run allows deadlock:
  a state in which all copies were moved out of reach has no operation left.
- Linking: two addons, of which one is on a drive that may go, and a third path
  to move the other to; two places in one profile and one in the other (the default ones `d1` and
  `e1`, and `d2`, which overrides of an addon or of a category above it may name);
  three view models; `MaxBatches = 2` (deletions and moves count) and `MaxMishaps = 1`. A
  batch and an undo, a batch in the middle of another, or a batch and a
  deletion are two; one mishap is a failing step, a change by others or of the
  profile. The bounds end the behaviours, so deadlock is allowed.
- Bisection: four addons, uncoupled or coupled so that a pair and a chain need
  joining, one that may join late, `MaxMishaps = 1`. Four uncoupled units are
  the fewest that are halved twice. What crashes is an addon of either half, which
  when coupled is alone or in the group, or nothing of the libraries (`Culprit`);
  `bisection_setup` takes any. Rounds, second passes and repeated searches
  are not bounded, and deadlock is checked.
- Startup: three paths, two texts, `MaxGestures = 3` (a gesture, another that
  crosses it and an undo), one foreign write (of a path that is there, was there, or
  now is there twice), one failure or crash. The bounds end
  the behaviours, so deadlock is allowed.

### Assumptions

- `ImportAssumption`: names are distinct, and a copy that reports success holds
  the right bytes unless verification compares contents. The default option
  compares names and sizes only, and is sound only then.
- The import works on entries that are up to date: the session scans after each
  import, but nothing stops a link made in between (a hazard).
- Nothing else writes to the importer's and the quarantine's folders while the
  program runs.
- `QuarantineAssumption`, `SessionAssumption`, `LinkingAssumption`,
  `FoldersAssumption`, `BisectionAssumption`, `StartupAssumption` and
  `StartsAssumption`: names are distinct, each profile has one default place, the
  places of two profiles differ, bounds are naturals, there are finitely many
  addons and places, those of a search are numbers, and what the startup files,
  kept entries and presets start from is of their kind.
- `None` stands for an absent value and is none of the values it may stand beside
  (`NoneIsNoOperation`, `NoneIsNoBatch`, `NoneIsNoErrand`, `NoneIsNeither`, and
  conjuncts of `SessionAssumption` and `BisectionAssumption`): an
  `std::optional` tells them apart by its own flag.
- The user of a bisection answers truly; a search is promised its culprit only
  while a single addon is at fault and every answer was about a round that was in
  place when the user tried it (`trusted`).

### Fairness

`Session!Spec` assumes `WF_vars(Lands)`: as long as work is in flight some of it
proceeds. A thread that was started runs (`QThread::start`) and the window's
event loop handles what it posts (`QtBackgroundRunner`). Users are never fair.
The other modules have no liveness property: whether a recovery is ever run, a
round answered or an undo asked for is the user's choice, and each operation is
a bounded sequence of steps that ends by its shape.

## Proofs

Thirty-eight theorems in eight modules, each from the assumptions of its module
alone, for every value of the constants; three of them say in their statement that
saves succeed. They state every safety property and every action property that a
passing run checks, and the refinement: the runs show them on small instances, the
theorems for any.

`ImportEngineProofs`, under `ImportAssumption`:

- `TypeCorrect`: `Spec => []TypeOK`;
- `NoAddonIsLost`: `Spec => []NothingIsLost`;
- `ImplementsCustody`: `Spec => Custody`, by step simulation.

`NothingIsLost` is not inductive: a step that removes a tree needs to know that
the other side holds it. The invariant `IInv` adds what the program counter
knows. `StepsBelong` tells the steps of an import from those of a give back;
`StagingIsTheSource` says that between the verification and the move the
staging is the source; `RemovedIsElsewhere` says that whatever is about to be
removed is whole on the other side; `NothingMangled` says that, where sizes are
all that is compared, nothing is mangled. One lemma per conjunct
shows that every step keeps it. Two facts carry the argument:
`OriginalsLetGo` and `CopiesLetGo`, that only the removals shrink a side, and
then by an addon the other side holds. The refinement follows from them and
from the placements, which never replace anything.

`ImportPlacesProofs` adds four theorems on top of it:

- `NoLinkLeadsToAHalf`: `Spec => []LinksLeadToWholeAddons`;
- `TheWayBackStays`: `Spec => []TheOtherProgramCanGetItBack`;
- `EveryHalfCopyIsListed`: `Spec => []BesideOthersIsListed`;
- `ReportedIsComplete`: `Spec => []CompletedIsComplete`.

`PInv` says, per folder and not per step, where its parts can be: `OwnFolders` and
`OthersPlaces` (what may stand at each place of a request), `OthersInLibrary` (while
its name is free the library has it whole), `OthersHalves` (a half removed folder is
one the entry no longer leads to) and `OthersWayBack` (the swap slot or the origin
in the profile). `ImportsGoByTheirSteps` and `GiveBacksGoByTheirSteps` say what the
program counter adds while a folder is in hand, and `TheBatch` that nothing of a
batch arrives where something of it already did, which is what keeps a result true
until it is reported.

`QuarantineProofs`, under `QuarantineAssumption`:

- `QuarantineTypeCorrect`: `Spec => []TypeOK`;
- `NoCopyIsEverLost`: `Spec => []NoCopyIsLost`;
- `LinksAlwaysLeadSomewhere`: `Spec => []LinksLeadSomewhere`;
- `TheEarlierCopyOutlivesAFailedAdmission`: `Spec => [][...]`, the action
  property `DiscardedOnlyForTheNewcomer`.

A copy may leave a folder only when it was moved or is whole elsewhere, so the
invariant must know, for each step in hand, where both copies are.
`OnlyFoldersAreHalf` and `WhatIsThereIsKnown` are about the disk; `OneAtATime`
separates operations and restores; `TheirParts` gives each kind of operation its
places; `TheLoserWaits` and `TheOtherWaits` say where the two copies are at each
step. `TheLinksAreDown` and `TheWinnerStands` add what the links need: those to the
loser were taken down before it moved, and those put back find the winner. The
action property rests on `TheNewcomer` and on the lemma `OnlyTheseLeave`, which
lists the only steps that discard.

`QuarantineRecordsProofs` adds two:

- `OneFailureLeavesTheRecords`: `Spec => []TheRecordStaysWithIt`;
- `EveryLinkComesBack`: `Spec => LinksComeBack`.

The records are promised up to one failure, and the argument needs to know how the
operations behave before it and after it. `TheRecordsAreRight` holds of every slot
but that of an operation which, after the failure, has yet to put its record right;
`TheRecordInHand` says what an operation carries of the item that made room, and
that its repairing steps are only reached after a failure. `TheLinksInHand` follows
each link an operation took down (leading to the loser, then nowhere, then to its
heir), with `TheLoserHasGone` for the landing.

`SessionProofs`, under `SessionAssumption`:

- `SessionTypeCorrect`: `Spec => []TypeOK`;
- `SavedEditsStay`: `Spec => NoSavedEditIsLost`;
- `RefreshesGoForward`: `Spec => ARefreshNeverGoesBack`;
- `TheScreenShowsWhatIsSaved`: `~SavesCanFail => (Spec => []AtRestTheProfileIsSaved)`;
- `TreesAndProfileLandTogether`: `~SavesCanFail => (Spec => []TheyLandTogether)`;
- `EditsOnScreenStay`: `~SavesCanFail => (Spec => AppliedEditsStay)`.

`IInv` holds whether saves fail or not. `TheRegistrationKnowsTheEdits` is what the
counter of profile changes is for: a registration that may still be adopted carries
every edit saved meanwhile. `ReadsAreOfTheDisk` says that what was read is on disk
and that a read nothing overtook saw all that is on screen. `SavedInv` adds
`TheLastScanIsOfWhatIsSaved`: the scan that will land last, in flight or queued, is
of a profile as it is saved. The hypothesis of the last three is needed:
`LatestProfile` reads the stored profile, so an edit whose save failed leaves the
screen with the next one (`Session.cpp:826`, a hazard).

`LibraryFoldersProofs`, under the assumptions of `Linking` and `LibraryFolders`:

- `FoldersTypeCorrect`: `FoldersSpec => []FoldersTypeOK`;
- `WhatIsAskedIsDone`: `FoldersSpec => []WhatWasAskedIsSo`;
- `WhatIsShownIsOnDisk`: `FoldersSpec => []WhatIsDerivedIsOnDisk`;
- `RepairsTakeOnlyDeadLinks`: `FoldersSpec => ARepairTakesOnlyDeadLinks`;
- `NoLinkIsLeftBehind`: `FoldersSpec => []NoLinkOutlivesItsAddon`;
- `AMoveKeepsWhatIsEnabled`: `FoldersSpec => []AMovedAddonIsAsEnabledAsBefore`;
- `TheLastBatchComesUndone`: `FoldersSpec => []UndoPutsTheLastBatchBack`.

They are about `FoldersSpec`, in which batches, deletions, moves and other programs
interleave. `FInv` has the types, `PinsAreOfTheProfile`, `RepairsNameTheirTarget`
and `AddonsAreDeletedOnce`. For a batch nobody disturbed (`AloneInv`), the idea is
that the steps left are exactly what separates the disk from what was asked:
`AsItWasRead` says that the disk differs from the reading only where a step ran,
`UnderWay` that every link still to go has its step, that every addon still to be
enabled has its own or a link, and that links are taken down before they are made.
`DeletionInv` and `MoveInv` do the same for an errand nobody crossed;
`PlannedWhereItGoes` says that the place `MoveTo` plans is one where the profile, as
it will be adopted, plans the new path.

The undo is an invariant about sequences. `PutsBack(steps, p, now, then, ...)` says
that running the steps at a place leads from what stands there to what stood there,
each of them able to succeed; `LeadsBack` says it of all places and entries but the
`strange` ones; `UndoInv` that the undo leads back while nothing runs, and that the
batch which runs leads back by what it has done so far, or the undo by the steps it
has left. The lemmas `OneMore`, `PutBackByMore` and `PutBackByTheRest` are the facts
about sequences behind a step done and a step undone, and `OneRuns` is the lock.

`StartupProofs`, under `StartupAssumption`, `StartsAssumption` and `NoneIsNeither`:

- `StartupTypeCorrect`: `Spec => []TypeOK`;
- `TheRestStays`: `Spec => TheRestOfTheFileStays`;
- `NothingIsEverLost`: `Spec => []NothingIsLost`;
- `ThePresetsFollow`: `Spec => []NoPresetIsLeftBehind`;
- `TheReturnLeadsBack`: `Spec => []TheReturnIsTheWayBack`;
- `TheUndoTakesItBack`: `Spec => UndoTakesTheGestureBack`.

`TInv` types the state and says that one thread at a time has a change of a file in
hand; `FileInv` that while no other program wrote it, the file is as that thread
read it. Each theorem then has an invariant of its own: `LostInv` (what the change
in hand takes out is kept already, and what will be dropped when it settles is not
owed), `NamedInv` (what a preset names was in the file as it was read), `ReturnInv`
(what is on is what was on when the return was recorded, with the switches still to
be made) and `UndoInv` (what an undo of a removal looks for is the newest kept entry
of its path). They rest on lemmas about inserting into and removing from a file, and
about the position of an entry by its path.

`BisectionProofs`, under `BisectionAssumption`:

- `BisectionTypeCorrect`: `Spec => []TypeOK`;
- `TheCulpritStaysUnderSuspicion`: `Spec => []TheCulpritIsNeverRuledOut`;
- `AnswersAreAboutTheirRound`: `Spec => []AnAnswerIsAboutTheRound`;
- `TheSetupIsBackAtTheEnd`: `Spec => TheSetupComesBack`;
- `TheUnitsAreTheClassesOfTheCoupling`: `Spec => []TheUnitsAreTheCoupledOnes`;
- `TheAnnouncedRoundsSuffice`: `Spec => []TheAnnouncedRoundsAreEnough`.

The invariant adds what ties memory to the store: `ReadBefore` (a procedure past
its reading holds one), `StoredIsDivided` (suspects and cleared divide the units),
`InPlaceIsTheRound` (a round said to be in place is the one of the stored run) and
`StoredStillSearches`. An answer is taken only when the drift check finds no
difference from the baseline (`NoDrift`), so it is about what that round loaded;
`AnswerKeepsTheCulprit` then goes by cases over the reference round, a half and
the second pass, with the answer and with its opposite.

`SetupInv` carries the setup over a search that starts over: the stored run holds it
as long as it can come back, there is none without a run unless a search is about to
begin again, and then what is read is the setup. `UnitsInv` rests on the fold of
joins in `Owners`: after each pair the classes are connected by the coupling
(`JoinConnects`), and two addons once in one class stay together, so that in the end
all coupled ones are; no order of the pairs is assumed. `RoundsInv` says that a run
of the first pass in round *r* with *c* suspects of *n* units has *(c - 1) * 2^(r - 1) < n*: a half has
half of the suspects because the rank of a suspect by its first addon numbers them
from 0 to *c - 1* (`HalfOfIsHalf`), and units are told apart by their firsts because
they are classes. Powers of two are handled as sizes of power sets (`Powers`).

Where an argument goes by induction over a number (the fold of joins, the powers of
two, the steps of an undo), it takes the least counterexample: the lemmas `Smallest`
and `OneAfterTheOther` follow from the well-foundedness of `<` on the naturals, which
the library states without an operator parameter.

Model-checked only: `EverythingLands` of `Session`, the one liveness property, since
liveness under fairness is beyond the prover (it says that queued scans, repeated
reads and registrations begun again end once the user stops asking); and the six
violations, which TLC finds.

## Plan

Left, in this order:

1. Composition of `ImportEngine` with `Session`: links from a stale screen.
2. The journal's file: appends, torn lines, the cache.
3. Renaming a category (several addons in one go) in `LibraryFolders`, and the
   extraction of archives.

## Not modelled

Parsers, text, layout, network and the operating system's services; documents,
scenery, sizes and coverage, updates, single instance and the views. They keep no
state that the components above depend on, and most of the repository's lines are
theirs. Of modelled components, `PROJECT.json` says per component what is left
out. The hazards without a property are of two kinds: places where the code does
what it should not or no document speaks of (the model has them as they are, and
the note says what the properties except), and the two of the plan above.

# A TLA+ verification project for the Retro Rewind launcher

This directory specifies the launcher of the Retro Rewind pack for Mario Kart
Wii (`src/source`) and the runtime extension that it loads with the game
(`src/runtime-ext`). TLC checks the specifications on small instances; TLAPS
proves theorems about them for all values of their constants.

* [1. The system](#1-the-system)
* [2. Modules](#2-modules)
* [3. Runs and bounds](#3-runs-and-bounds)
* [4. Assumptions and fairness](#4-assumptions-and-fairness)
* [5. Proofs](#5-proofs)
* [6. Where the code and its comments disagree](#6-where-the-code-and-its-comments-disagree)
* [7. What is not modelled](#7-what-is-not-modelled)
* [8. Plan](#8-plan)

Line numbers refer to files under `src/source` unless a path says otherwise.

## 1. The system

The launcher is a Wii program with one main thread. It shows a few screens,
updates the pack from a server, applies a Riivolution XML file to the disc's
files, copies the game, patches and the runtime extension to memory and starts
the game. From then on the game's threads call the runtime extension wherever
the game would call its own DVD functions.

| Component | State | Operations | Talks to |
| --- | --- | --- | --- |
| Boot sequence (`main.c`) | `stored_settings`, `first_open`, `loaded_from_rr`, `crashed` | terms of use, settings, marks, disc, update, five seconds, menu, launch | everything |
| Settings file (`settingsfile.c`) | `.settings` on the SD card | create, parse, store | boot, menu |
| Settings menu and extras (`settings.c`) | options, initial values, cursor | change, save, update, extras, launch, exit | settings file, updater, tests |
| Updater (`update/update.c`) | files of the pack, `version.txt`, `rr.update.zip`, the list of updates | check, download, extract, remove, write the version | server lists, prompts |
| Version lists (`update/versionsfile.c`, `versionutils.c`) | the two lists of the server | split, parse, compare | updater |
| Riivolution patches (`loader/riivo_patch_loader.c`) | tables of replaced files | file and folder patches, sort | XML, runtime extension |
| Runtime extension (`runtime-ext/source/dvd.c`) | 16 slots, reference counts, the FileInfos of the game | convert, open, fast open, read, close | tables, libfat, the game |
| Power and reset (`shutdown.c`) | button and time of the press | two interrupt callbacks, one check | every screen |
| Prompts (`prompt.c`), results (`result.c`), time (`time.c`) | none that lasts | show, wait, check for a shutdown | every screen |
| Server status (`server_status.c`) | the cached status | fetch, show | updater, extras, launch |
| Crash and launch marks (`crash.c`, `ephfile.c`) | two files written by the game | read and remove | boot |
| Disc loader (`loader/disc_loader.c`, `di.c`) | the drive | wait for the disc, find its data partition | boot |
| STUN client and NAT test (`stun.c`, `nat_test.c`) | transaction, answers so far | request, wait, conclude | UDP, extras |
| UPnP (`upnp.c`) | the router found, the last error | discover, fetch, add mapping | UDP, HTTP, launch, extras |
| Loader (`loader/*.c`, the end of `main.c`) | MEM1: `mem1_hi` and what lies above it, the DOL's buffer | read, place, patch, copy the DOL over the launcher, jump | tables, game |

### What is hard, and what makes each part correct

* **Runtime extension.** The game's threads call it, it takes no lock, and all
  FileInfos open on one file share a slot. A slot's reference count must be the
  number of FileInfos on it whatever the order of opens and closes; a slot must
  neither leak nor be closed under a reader; reads must come from the offset
  asked for.
* **Updater.** The power may fail and the card may be pulled at any point. Then
  the card holds a mixture of two releases, and the next attempt must bring it
  to a whole one. `version.txt` must never name a release that is not there.
  Sizes and free space are compared before anything is written, in signed and
  unsigned numbers, and must be right when it is written.
* **Version lists.** A text from a server, split by hand: no line may be lost,
  and every deletion must be made with the release it belongs to.
* **Riivolution patches.** A later patch overrides an earlier one although the
  tables are reordered by `swap_remove` and `qsort`, and the runtime extension
  finds entries by a hash that may collide.
* **Loader.** Five functions carve MEM1 from one end and know nothing of each
  other; the game's sections go where the launcher's code is. Nothing given to
  the game may be written over, and no code may write over itself or over what
  it has yet to read.
* **Settings.** A store cut short must not pass for settings; the menu must not
  show an option that an update has taken away; what
  differs from the file must be marked as unsaved.
* **Power and reset.** Interrupts write two variables that the main thread
  reads one after the other, and acts on only at its checks.
* **Boot sequence.** Whether the game starts by itself, and what the launch
  shows, depends on files, settings and results read at different times.
* **NAT test.** Packets are lost, late, repeated and out of order; the verdict
  must not be better than the truth.
* **UPnP.** Strangers answer, time is counted by hand, an error is a static
  that must be right on every path.

`PROJECT.json` lists these hazards at their lines with the properties that
cover them.

## 2. Modules

| Module | Models | Checked by | Proved in |
| --- | --- | --- | --- |
| `RteDvdAbs` | the promise of the DVD functions, without slots | as `AbsSpec`, `TAbsSpec` | |
| `RteDvd` | `dvd.c`, one call at a time | `MCRteDvd` | `RteDvdProofs` |
| `RteDvdThreads` | the same calls overlapping; extends `RteDvd` | `MCRteDvdThreads` | `RteDvdProofs` |
| `UpdateAbs` | what updates promise of the card, without the ZIP and the lists | as `AbsSpec` of `Update` | |
| `Update` | `update.c` with faults and restarts | `MCUpdate` | `UpdateProofs` |
| `VersionsFile` | `versionsfile.c`, `versionutils.c` | `MCVersionsFile` | `VersionsFileProofs` |
| `RiivoTable` | the files of `riivo_patch_loader.c` and the search in `dvd.c` | within `MCGameLoad` | `GameLoadProofs` |
| `GameLoad` | `main.c` from line 346, `loader/*.c`; extends `RiivoTable` | `MCGameLoad` | `GameLoadProofs` |
| `Settings` | `settingsfile.c`, `settings.c` | `MCSettings` | `SettingsProofs` |
| `Shutdown` | `shutdown.c` | within `MCLauncher` | `LauncherProofs` |
| `Launcher` | `main.c` and the screens; extends `Shutdown` | `MCLauncher` | `LauncherProofs` |
| `NatTest` | `stun.c`, `nat_test.c` | `MCNatTest` | `NatTestProofs` |
| `Upnp` | `upnp.c` | `MCUpnp` | `UpnpProofs` |

Every module starts with what it stands for. Operators whose name adds a word
to another's (`ReuseSlotUncounted` beside `ReuseSlot`) are faulty variants of
that operator; no specification uses them, and they serve to show that a
property fails for a plausible mistake.

**RteDvd.** `slotFile` and `refcount` are the fields of `open_files[]`,
`fileInfo` is the slot of an entry of the table of SD files, and `startAddr` is
the field of the game's FileInfo in which `dvd.c` keeps the entry. `Open`,
`FastOpen`, `ConvertPath`, `ReadPrio` and `Close` are the five custom functions;
each may fail as SD calls do. `Fatal` is `RTE_FATAL`: the game stops.

**RteDvdThreads.** A call is cut where an SD function may switch threads (it
takes libfat's mutex), so `StartClose` drops the reference and `FinishClose` is
`SD_close`, as in lines 391-400. `Serial` names the pairs of calls that the game
is assumed to keep apart: opens of one file (`same_open`), and closes from opens
(`close_with_open`). Everything else may overlap, reads of one file included:
`crossed` notes the reads that another read of the same file overlaps. A FileInfo counts as open in `RteDvdAbs` as soon as
its open has a slot, and as closed as soon as its close has given the slot up
(`Opened`).

**Update.** `card` maps each file to the release it comes from. The steps of an
attempt are the values of `step`; each step may be the last before the power
fails. `Pack[v]` is the pack as release `v` leaves it. `free` counts the free
clusters, `used` and `zipUsed` what each file and the ZIP occupy; `Exceeds` is
the comparison of `update.c:571`, in which a missing length, -1, is larger than
any free space. A refused update ends the attempt as an error does. The code
looks at the result of neither `fclose`: where the one at line 313 fails, the ZIP
is cut short and `RejectArchive` refuses it (`ZipCloseFails`); where the one at
line 510 fails, the file lacks what was only buffered and the extraction goes on
(`FileCloseFails`). `damaged` holds those files until they are written again or
deleted, and what the properties say of a whole release, they say of the other
files (`HoldsRelease`).
`UpdateAbs` knows only `card`, the release that is installed and whether
`version.txt` names it. It goes from each release to the next: files of the next
release change in any order (`Change`), when all are in place the release counts
as installed (`Finish`, where `version.txt` is emptied), and it gets its name
(`Name`). Where `version.txt` is empty the mapping takes the release from `cur`.
That `version.txt` is empty only over a whole release
(`LostVersionOnWholePack`) is part of this, and a theorem of its own.

**VersionsFile.** Texts are sequences of tokens, and a line of a list has three:
a version, a space and a name. `Scan` is the loop of
`rrc_versionsfile_split_by`, including its treatment of the end of the text,
and `ReadLines` the loop over the lines, which stops at the first that cannot
be read. The properties do not mention the loops: `IsNewerOf` says where among
the entries read each entry of the list must be, and `Precedes` compares
versions by the first part in which they differ. `ResumesWithTheRest` reads the
lists a second time, as an update does that was stopped after one of its
releases, and compares what it would do with the rest of the first reading.

**RiivoTable.** Tables are sequences, `Register` and `SwapRemove` change them as
the code does, `Finish` chooses any permutation that is ordered by hash, and
`SearchReplacement` is the binary search with its walks back and forth. A folder
is read entry by entry in any order (`ReadEntry`). It may be missing
(`MissingFolder`), and `readdir` may fail at any entry of it or of its
subfolders, which loses the rest of what was open (`FolderFails`).

**GameLoad.** An address of the model stands for 16 bytes, and what it holds is
a pair such as `<<"dol", <<"pack", 3>> >>`, so that every write to MEM1 leaves
its trace. `stage` is the next function of `main.c` and `rrc_loader_load`:
the DOL, the file system table and BI2 are read, runtime-ext is loaded, the
patches are parsed (with `ReservePatches` before and `PlaceTables` after them),
the DVD functions are hooked, Loader.pul is copied, everything is handed over
and the copier, itself copied below the DOL's buffer, moves the sections over
the launcher and applies the `<memory>` patches. `kept` is a history variable:
what the game has been given so far, with the address it must be found at.
`InUse` is what the running code executes and has yet to read. `lost` notes the
reads whose errors the code ignores.

**Settings.** The file is a header and the entries that are whole. `Load` to
`Leave` are the boot as far as settings matter, `OpenMenu` to `UpdateFromMenu`
the menu. Both options of the XML have as many choices as the pack on the card
gives them; when the XML cannot be read, the menu does not open (`MenuNotOpened`). `StartStore`/`FinishStore` are `fopen("w")` and the rest.

**Shutdown.** `StartCheck` and `FinishCheck` are the two reads of
`rrc_shutdown_check`; `Press` may fall between them.

**Launcher.** `at` is the screen or the work the main thread is in. `Polling`
are the loops that check for a button in each round, `Drawing` check once when
they are drawn, `Deaf` work does not check. The marks of the game, the network,
the cached status and the five seconds are variables; what the user chooses is
nondeterministic.

**NatTest.** `Send`, `Receive`, `Timeout` and `NotSent` are the requests in the
order of `rr_nat_test_run`; the NAT is one of six kinds (two mappings by three
filters), and an answer that was ever possible may arrive at any later wait.

**Upnp.** `elapsed` is the code's count of time, beside the real time. An answer
of the router is what the code looks for in it: whether it holds `" 200 "`, at
any place, and whether it holds an error code; whether the router has made the
mapping is a third, independent part (`Answers`).

## 3. Runs and bounds

| Run | Shows | Bounds, and why they are enough |
| --- | --- | --- |
| `dvd` | Slots and counts are exact; `RteDvd` implements `RteDvdAbs`. | 2 slots, 3 files, 3 FileInfos, one path that is not replaced: slots are shared, reused after a close, and run out. |
| `dvd_threads` | Every open is counted once also while other calls are under way; a read comes from its offset unless another read of its file overlaps it; the calls implement `RteDvdAbs`. | 2 threads, 2 offsets, the same pool; opens of one file are kept apart, and closes from opens. |
| `dvd_close_open` | If closes may overlap opens, an open file can become unreadable (a finding). | as above |
| `update` | Cut short anywhere, the card differs from the release of `version.txt` only in what a repetition repairs and in files whose `fclose` failed; no write finds the card full; in the end the card is current, has lost `version.txt`, or is refused the update for space again and again. `Update` implements `UpdateAbs`. | 3 releases with files that are replaced, deleted, brought back, and shipped and deleted at once; 2 faults, so that a repaired update fails again. Clusters of 2 units and 1, 4, 5 or 9 free clusters: updates are refused before the download, after it, at a single file, or fit. |
| `versions` | Lists are read whole or refused; an update that was stopped goes on with exactly the rest, each release with its deletions. | 2 lines, four versions that differ in each part and one that is malformed; one trailing separator. |
| `versions_limit` | The array of split parts has room for fewer entries than documented (a finding). | the limit scaled down to 8 bytes, 4-byte pointers: the trace is a list of three lines that can all be read |
| `game_load` | Every path finds the file of the last patch that names it; nothing given to the game is written over; no code writes over itself or what it has yet to read; the game starts on one whole DOL with its hooks, Loader.pul and memory patches. | 3 patches, files and folders with a subfolder, paths of one hash and one of another, and hashes that occur nowhere: the search starts in, before and behind a group of equal hashes. A MEM1 of 57 addresses with every region of the real one in its order; two DOLs of two sections with bss between and behind them, over the launcher's code; main.dol and Loader.pul read whole, in part or not at all; a file system table that does not fit; a runtime-ext that is out of its bounds or outdated; two memory patches of one address, one depending on the other, and one more than there is room for. |
| `settings` | Only complete stores are loaded; the menu's indexes are in range; what differs from the file is marked. | 1 or 2 choices of My Stuff, which an update changes; one choice of the savegame; 2 faults: a store cut short, and the one that should repair it. |
| `launcher` | A press is acted on as the last one asked for and is lost only in a check or in work without checks; the game starts by itself only after a normal start; the alert shown is that of the last fetch. | 2 presses, an age limit of 2 in a time of 4, 2 rounds for the five seconds: a press can be in time, too late, or fall into a check, and a second one can replace the first. What a press follows and precedes is any screen. |
| `launcher_network` | The launch asks for the server status without a network (a finding). | no presses |
| `nat` | Mapping, filter and verdict shown are never better than the NAT's, and exact without loss. | all six kinds of NAT, every loss, delay and repetition; nothing else is bounded. |
| `upnp` | The search ends in time up to fetches and early answers; success means that an answer of this call says 200; an error is shown exactly after a failure. | timeout 5, rounds of 2, so that the last round is cut short; fetches of up to 3. |

Deadlock is checked in all runs; a module's normal end is an action that changes
nothing (such as `Done`, `Reset`, `Stay`, `Stopped`, `Ended`), so that any other end would be
reported. For each property of a passing run `PROJECT.json` names a faulty
variant of one definition (`mutants`) with which TLC finds the property
violated.

## 4. Assumptions and fairness

* **Releases** are listed in ascending order and the list of deletions is
  published no later than the manifest (`Update`). Releases may be added while
  an update runs. A server that states a length states the true one; new
  directories and `version.txt` find their clusters on the card.
* **Memory** (`LoadAssumption`). The regions of MEM1 lie in the order that the
  addresses in `main.c`, `loader.h` and `base.ld` give them; the game's sections
  and bss end below the copied function `patch_dol` (`loader.c:129`), and
  Loader.pul ends within its section (`binary_loader.c:55-58`). That there are
  no more `<memory>` patches than `MAX_MEMORY_PATCHES` and that the strings stay
  above the DOL's buffer is not checked by the code and not assumed of the runs:
  the properties are stated for loads of which it is true (`Roomy`). The bounds of
runtime-ext's sections are checked with a sum of address and size
(`binary_loader.c:80`) that a corrupt file could make wrap; the runtime-exts of
the model (`RteFiles`) have sections of which it does not.
* **The DOL** (`ImageAssumption`). Its sections share neither addresses nor
  offsets in the file, as in any DOL a linker writes, and the trampolines are an
  array of pairs of instructions.
* **Patched paths** (`PathAssumption`). The paths that reach the tables are in
  lower case, as `strlower` leaves them (`riivo_patch_loader.c:265`, 437-441), and
  a hash is a number. The game's own paths may be in any case.
* **The server's lists** (`VersionsFileAssumption`). A line is a version, a space
  and a name, and neither holds a space or a line end. Everything else is left
  open: versions that cannot be read, their order, names that occur twice,
  additional line ends.
* **Game threads.** libfat serialises its own calls with a mutex per partition;
  `dvd.c` has no lock. The model switches threads inside the SD calls only: a
  switch between two instructions of `dvd.c`, say within `refcount++`, is left
  out. The game uses a FileInfo in one call at a time. That it keeps apart the
  opens of one file, and closes from opens (`Serial`), is an assumption on the
  game, and the theorems about overlapping calls have it as their hypothesis
  (`Discipline`). `dvd_close_open` shows that the second half is needed, and
  `CountedSlotsInUse` (section 6) that the first is. Reads of one file may overlap; then they may get each other's bytes,
  which nothing in the code prevents, and `ReadsAtOffset` excepts them. It says
  that nothing else comes between a seek and its read.
* **FileInfos** are closed once and opened only when closed (`RteDvd`).
* **STUN** transaction IDs are unique, and a server asked to answer from another
  address does so (`NatTest`).
* **Settings** are written only by the launcher. So `auto_update`, which the menu
  uses as an index and does not clamp (`settings.c:649-654`), is 0 or 1. A file that is not there is told
  from every file (`Absent`).
* **Prompts** fit on the console. One with a line that is too wide returns at once
  (`prompt.c:98-102`, 198-202): the texts in the code fit, but for the one named
  in section 6, and those that quote an error are shown or not with the same
  steps after them.
* **Time** passes in the loops of `Launcher` only between checks: the loops wait
  10 to 20 ms, the limit is 2.5 s. So a loop goes round more than once within the
  limit (`LauncherAssumption`).
* **Fairness** is assumed only in `Update`. `WF(Install)`, `WF(Boot)` and
  `WF(Quit)`: the main thread is not stopped for ever and the console is
  switched on again. `SF(CheckUpdates)`, `SF(Accept)`, `SF(NextUpdate)`: with
  automatic updates the check is made at every start, so it is made again and
  again although a given start may skip it; the user sooner or later accepts,
  and does not press POWER between releases for ever. Faults are bounded, so
  they end. An update refused for space keeps the card from becoming current, and
  `EventuallyCurrent` says so instead of assuming room (so it does not say that a
  card with room gets its update, see section 6): either the card ends up
  current or without a version, or updates are refused infinitely often. All
  other properties need no fairness.

## 5. Proofs

`tlapm` proves every obligation with SMT, Zenon and LS4. Each module states its
inductive invariant first, then a lemma for each action, then the theorems.

* **`RteDvdProofs`**, calls one at a time: for any number of slots, entries and
  FileInfos. The inductive invariant joins `TypeOK`, `RefcountExact`,
  `SlotsAccounted` and `NoBugHalt` with `OpenHandlesBacked` (a FileInfo open on
  an entry has that entry's slot in use). `RefcountExact` alone is not
  inductive: that a close finds its slot needs the slot to be accounted for and
  the handle to be backed. `ImplementsAbs` maps every call to one of
  `RteDvdAbs`; the lemma `PoolUsage` counts the used slots, so that "no slot is
  free" means `MaxFiles` files are open.
* **`RteDvdProofs`**, overlapping calls: for any number of threads too, under
  `Discipline`. Between the two halves of a call the tables say less than the
  refcounts, so the invariant `TInv` says what each call under way may rely on:
  an open has reserved a slot that no file and no other open has (`OpenTrue`,
  `SlotsApart`), a close still holds its file and is its only FileInfo
  (`CloseTrue`), a read is on a file that is open (`ReadTrue`) and, unless another
  read of the file overlaps it, where its seek left it (`Positioned`); `KeptApart`
  carries the discipline from the start of a call to its end.
  `RefcountFollowsCalls`
  needs that a file that has a slot is not being opened for the first time, and
  that one that is being closed has no FileInfo left (lemma `CountsOpened`). For
  `OverlappingCallsImplementAbs`, `OpenedIs` computes the refinement mapping
  from the calls under way, and `SlotsInUse` is `PoolUsage` again with reserved
  slots counted.
* **`UpdateProofs`**: for any list of releases whose packs fit together
  (`UpdateAssumption`), any sizes, any free space and any number of faults,
  among them files and ZIPs damaged by an `fclose` that fails unnoticed; what is
  proved of a release is proved of its files that are not `damaged`. The
  invariant says, for each step of an attempt, which files are already those of
  the new release (`BetweenInv`, `ExtractInv`, `RemoveInv`, `VersionInv`), what
  is listed (`VersionsInv`), and that what was compared with the free space
  still fits when it is written (`SpaceInv`; `RoundedFits` is the arithmetic of
  clusters). `PackMatchesVersion` needs them because after `version.txt` is
  written the claim is about another release. `ImplementsAbs` maps each write
  and deletion to `Change`, the opening of `version.txt` to `Finish` and its
  writing to `Name`; every other step, faults included, changes nothing that
  `UpdateAbs` shows. It needs `LostInv`: once the version is lost, `cur` stays
  the release that the card holds, because with an unreadable `version.txt` the
  launcher neither checks for updates nor starts again.
* **`GameLoadProofs`**, memory: for any patches and folders, any DOLs, any files
  and any sizes in a memory that satisfies `LoadAssumption`. The invariant is
  `Whole`: the tables are well-formed (`TablesInv`), `mem1_hi` only falls, and if
  the load is `Roomy`, the `Layout` holds, which says for each stage which parts
  of memory are taken, which are still free, and where the patches are.
  `KeptIntact` and `RunsOnOwnCode` follow from it stage by stage.
  `EntriesAreUnique` needs only the tables.
* **`GameLoadProofs`**, contents: `GameStartsWhole` and `OriginalsAreReached`
  rest on `ImageInv`, which adds to `Whole` what memory holds. For the DOL `d`
  that was read last, `Image(d)` says of each stage that the buffer holds `d`
  (`DolIn`), then `d` with the hooks and the trampolines that lead back behind
  them (`BufferHooked`, `HooksPlaced`), then with Loader.pul (`BufferWhole`); and
  while the copier works, which sections have been moved (`Copied`) and which
  memory patches applied (`PatchedTo`). It is not inductive without `Layout`: a
  section is moved whole only if nothing moved or cleared before it lies over
  the rest of the buffer. `AfterPatches` computes what an address holds after
  the patches; `AfterPatchesStep` gives the value after each patch from the one
  before.
* **`GameLoadProofs`**, tables: `LastPatchIsFound` has two halves. While the
  XML is read, the tables reflect the patches met so far (`HistoryInv`): a path
  has an entry exactly if a patch named it, and that entry is of the last one
  that did; `RemoveReplacement` may move entries about but not change this. Then,
  in any table ordered by hash (`Ordered`), the binary search ends in the group
  of a hash if there is one, the walk back at its first entry, and the walk forth
  meets every entry of the group, by inductions over the width of the window and
  over the index.
* **`SettingsProofs`**: for any number of choices and faults. `FileInv` says that
  a file without an error in it gives the settings stored last; `ParsedCut`,
  what a store that was cut short gives.
  `MenuInRange` is for any numbers of choices of both options of the XML, in any
  packs that updates bring. `LossIsAsked` needs `SyncInv`: while the menu has not lost touch with the
  file, its marks compare with what the file says.
* **`LauncherProofs`**: for any limit, number of presses and wait. In `Shutdown`,
  that ages are never negative needs the order of the times (`TimesOrdered`),
  that the console does what the last press asked for needs `ButtonKnown`.
  `ScreensUseShutdown` shows that every step of `Launcher` is a step of
  `Shutdown` or leaves it alone, which carries these theorems to all screens.
  `StartsByItselfNormally` and `ShowsLastAlert` follow from what each screen
  leaves to the next (`MarksKept`, `CheckedFirst`, `LaunchedLast`,
  `StatusIsLast`); `ScreensHearPresses` from `Heard`, which bounds the age of a
  press by the rounds of the loop it falls into.
* **`NatTestProofs`**: for every NAT and every schedule of packets, from
  `AddressesTrue` (an address noted is one the NAT gave for that server) and
  `FilterTrue` (an answer noted for a change request was let in).
  `VerdictExactWithoutLoss` says that the verdict is not too bad either. It needs
  `ExactInv`: while nothing has been missed, a request without an answer is one
  whose answer the NAT does not let in.
* **`UpnpProofs`**: for every timeout and round. `SearchTime` follows from an
  account of real time, counted time, early answers and fetches; `OutcomeTrue`
  needs that until a call ends it has neither an error nor a confirmed mapping
  (`Report`).
* **`VersionsFileProofs`**: versions are strictly ordered, and after a release
  is installed the remaining updates are the rest of the list (`UpdatesGoOn`).
  `UpdatesResume` carries this to the lists of any length that an update reads
  again after it was stopped, with their deletions: that those of a later release are newer than any version
  it resumes from follows from the order of versions. `ListsAreReadWhole` goes through the text of a list of any length: `SplitIsText` shows by
  induction over the lines, and then over the line ends left, that the loop
  finds the lines and an empty one for each surplus line end; `ReadFound` shows
  by induction over these that the entries read are the newer ones, each at its
  rank (`RankedAppend`), until a line cannot be read. The invariant of the
  specification, `ListInv`, joins this with the types.

Inductions over an index are made without the library's induction theorems,
which take an operator: the lemma `Induction` is stated for a set, and the set of
the numbers for which a claim holds is a `DEFINE` of the proof. That a recursive
function satisfies its own definition is shown by giving the function
(`Recursion` computes it index by index) and replacing the CHOOSE behind it.

Checked by TLC only: liveness, that is `EventuallyCurrent` (TLAPS proves neither
fairness arguments nor `ENABLED`). Every other property of a run that passes is
a theorem. The proofs about loads and tables inherit the assumptions of section
4, and those about overlapping calls `Discipline`.

## 6. Where the code and its comments disagree

Three disagreements have a run of their own (`findings` in `PROJECT.json`):
`OpenFilesReadable`, `UpToTheLimit` and `StatusFromNetwork`. The others met
while modelling are stated as definitions in the modules; TLC refutes each when
it is added to the configuration named here. The first two of the table are
defects as plain as those with a run: an update is reported over a truncated
file, and a refusal of the router as success.

| Definition | Comment | Code |
| --- | --- | --- |
| `InstalledMeansWhole` (`Update`) | `main.c:254`, `update/update.h:102` | the result of `fclose` is ignored (`update/update.c:510`): the end of a file may be missing, and stays missing until a later release ships the file |
| `ZeroMeansNoCode` (`Upnp`) | `upnp.h:24` | `strstr` finds `" 200 "` anywhere in a refusal with an error code (408) |
| `CountedSlotsInUse` (`RteDvdThreads`, `Serial <- OpensOverlap`) | `runtime-ext/source/dvd.c:89` | of two slots that overlapping opens of one file take, one stays counted for ever: `file_info` is tested at 226 and set at 251 |
| `NoZeroRefcount` (`RteDvdThreads`, `Serial <- OpensOverlap`) | `runtime-ext/source/dvd.c:386-389` | `file_info` is tested at 226 and set at 251 |
| `ErrorsAreFatal` (`GameLoad`) | `loader/loader.c:156` | the results of `rrc_replace_main_dol` (`riivo_patch_loader.c:512`) and of folders (464) are ignored, and a failed `fread` ends Loader.pul like its end (`binary_loader.c:59`) |
| `AppleDoubleIgnored` (`RiivoTable`, with `<<"._a">>` in `MCTree`) | `loader/riivo_patch_loader.c:159` | only a disc path that begins with `._` is ignored, not one in a folder (157) |
| `DefaultsOnError` (`Settings`) | `settingsfile.h:60` | values read before an error stay (`settingsfile.c:181-192`) |
| `UnsavedChangesKnown` (`Settings`) | `settings.c:52-54` | a clamped value is not marked (139-143) |
| `ForgetsOnlyLate` (`Launcher`) | `shutdown.c:60` | a press between the two reads is dropped (53-63) |
| `TrailingIgnored` (`VersionsFile`, `MaxTrailing = 2`) | `update/versionsfile.h:37` | only one trailing separator is ignored, a second one makes an empty part (195-225) |
| `ListensUntilTimeout` (`Upnp`) | `upnp.c:304-306` | an early answer counts as a full round (322) |
| `StatusTriedAtLaunch` (`Launcher`) | `main.c:318-321` | switching automatic updates on in the menu, or a failed network, leaves no fetch at all (322) |
| `LoadedFromGame` (`Launcher`) | `main.c:239` | the mark stays if the launcher ends before it is read |

A few more were seen and are not stated formally. An update that was refused for
lack of space after an interrupted download stays refused although the card has
room: the old `rr.update.zip`, which the new download would replace, counts as
taken (`update/update.c:571`). `loader/disc_loader.c:102` says
"likely drive wasnt spun up" over a test that resets the drive unless the error
is EIO. HOME in the menu (`settings.c:791-793`) leaves it without the question
that "Exit" asks when there are changes. `prompt.c:198` returns without showing
a prompt that has a line wider than the console; the message at `update/update.c:629` is 86 characters long,
and so, on a console of 80 columns or fewer, is never seen.

## 7. What is not modelled

* **Hardware and drawing**: `console.c`, `gui.c`, `pngu`, `pad.c`, `sd.c` and the
  drive itself, whose answers are outcomes; the exception handler; the assembly
  that enters runtime-ext; libfat and libsd, which appear as `dvd.c` uses them.
* **Of the loader**: MEM2, caches, the shutdown of IOS, and the low-memory words
  other than the end of the arena. A patch that names more than 16 bytes is one
  address like any other. Loads with more patches than `MAX_MEMORY_PATCHES` are
  run, but nothing is claimed of them (`Roomy`), nor of sizes that wrap in
  `ensure_section_inbounds`.
* **Of the Riivolution XML**: how the patches of the chosen options are found
  (`Settings` has the failure of a choice that is gone); the order in which
  `PatchFiles` meets them is any order.
* **Of the runtime extension**: switches of threads between two instructions of
  `dvd.c`, and what the bytes are that reads get which overlap on one file.
* **Of the updater**: the progress display, the clusters of new directories, the
  check of the paths in a ZIP, the transfer itself. The deletions of a release
  that an installation skips are never made (`update.c:595`), and the code
  promises nothing of them.
* **Of the network**: the bytes of STUN, SOAP and JSON; the ping test, which
  repeats the exchange that `NatTest` models, on a socket that it keeps for its
  next run and that the NAT test closes, and averages the times;
  `rr_upnp_delete_udp_mapping`, which nothing calls; the list of error codes.
* **`private_port.c`**, a pure function of the console's serial number.

`PROJECT.json` gives the reason for each component.

## 8. Plan

The modules were written in the order of section 2; what is left, in the order
of its worth:

1. The drive: `disc_loader.c` with a disc that is changed between two calls of
   the driver (`Launcher` has the answers of the drive, not their races).
2. The choice of patches from the XML, with the indexes that `Settings` stores.

# DREX v2: models, checks and proofs

TLA+ models of DREX v2, a system for forensic recovery and secure sanitization
of storage: a FastAPI server, a desktop application, the engines they share, and
a set of native command-line tools. The sources are the `*.py` files in the root
of the repository and the C++ under `methods/Recovery`; paths below are relative
to the root.

The models follow the code, not its documents. Where the two disagree the model
does what the code does, and section 6 names the disagreement.

## 1. Inventory

### Job registry and operation endpoints (`drex_server.py`)

*State.* `JobRegistry` keeps, under one re-entrant lock: `_jobs` (records in
memory), one JSON file per job, `_target_locks` (normalised target to job) and
`_cancel_events` (a token per job). A thread pool of four workers runs
asynchronous operations; endpoints are plain functions and so run concurrently
on the server's own threads.

*Operations.* `execute_sanitization` (fingerprint check, target lock,
`register_job`, inline or pooled `_execute_worker`), `launch_recovery_scan`
(`run_scan_job`), `cancel_job`, `update_job` with its transition table,
`generate_certificate`, and `reconcile_startup`.

*Interaction.* Engines are called with a progress callback (which updates the
registry) and the cancellation token; workers append to the case ledger.

*Hard.* Two critical sections between "is this operation already active" and
"the target is mine"; cancellation of queued, running and just-completing jobs;
late progress; a full pool; record writes that fail after memory was changed;
crash and reconciliation.

*Correct when* a target is never used by two workers, locks do not outlive their
reason, cancellations stick, ended jobs do not change, and every job ends.

### Case ledger (`forensic_vault.py`, `ForensicCaseManager`)

*State.* Files of a case: `case.json`, `evidence.json`, `custody.json`,
`timeline.json`, `audit/audit_chain.json`; the manager's lock.

*Operations.* `update_case_status`, `record_custody_event`, `register_evidence`,
`record_recovery_event`, `record_performance_benchmark` (which appends to the
chain alone), and the private `_record_timeline_event` and
`_append_audit_event` that workers of the server call without the lock. Each
append reads a whole file, adds an entry and replaces the file.

*Hard.* Lost updates, an operation that stops between two of its files, files
that cannot be read, crashes.

*Correct when* the chain verifies, only grows, agrees with timeline, custody and
case status, and nobody keeps the lock.

### File sanitizer (`file_sanitizer.py`)

*State.* The bytes and directory entries of a tree, position and pass of the
current file, accumulated progress, results per file; it shares the cancellation
token with the registry.

*Hard.* A token set between any two steps; several passes and partial chunks;
files that fail halfway, are locked, or are wiped by an external tool, which
no token can stop.

*Correct when* what is reported as wiped is wiped, a cancellation stops the
writing and deletes nothing, and progress never goes back.

### Process runner and quick recovery (`backend_adapters.py`, `recovery_adapter.py`)

*State.* A child process, the pipe of its output, timeout and token.

*Hard.* The pipe is read only once the child has ended; cancel, timeout, kill
and exit race; a recovery runs its command a second time in another way.

*Correct when* a result that is reported as complete is complete, no child is
left behind, and every call returns.

### Damaged-media imager and mapfiles (`recovery_adapter.py`, `damaged_media.py`)

*State.* The output image, the list of map blocks, and the mapfiles of several
passes.

*Hard.* Bad sectors anywhere in a chunk, adjacent ones, short last chunks,
cancelled passes; merging maps with different boundaries, in any order.

*Correct when* the map says exactly what the image holds, and merging gives
every sector its best status whatever the order, and does not announce more than
that in the header.

### Case packages, backup and restore (`forensic_vault.py`)

*State.* A case directory, the archive made of it, and the directory of the same
case in another vault.

*Operations.* `export_package` (hash every file, write the manifest, then archive
every file, without a lock), `validate_and_import` (verify in a temporary
directory, remove the case that is there, copy), `create_case_backup` (archive
under the manager's lock, keep a digest), `restore_case_backup` (extract into a
directory that must not exist, verify, remove on failure).

*Interaction.* Locked operations and the workers' unlocked appends replace files
of the directory while it is listed, hashed and archived.

*Hard.* Two passes over files that change; a listed temporary file that vanishes;
an archive that arrives altered; a crash between removing and copying.

*Correct when* what arrives is the case as it was at one instant, the old case or
the new one is there as a whole, and a package is refused only for a reason.

### Desktop application (`drex_app.py`)

*State.* `DrexTaskManager` (state, cancellation event and stopwatch shared by all
tasks, a pool of four threads), `DrexDeviceManager` (a cache and the flag that a
discovery is under way), the event queue, and the widgets of the page.

*Operations.* The clicks (Start, Retry, Cancel, Recover selected, Detect, another
page, close), `submit_task` and its wrapper, the bodies of four kinds of
operation, the discovery thread, and `_poll_events`.

*Interaction.* Threads put events; the Tk thread alone takes them, up to 30 ms
later, when the next task may already be under way.

*Hard.* The result, "finished" and "task finished" events of one task reach the
buttons and the stopwatch of the next; Start is enabled again before the task
has ended, and the submission behind it is refused without a word; handlers clear
the cancellation event before they know whether they may submit.

*Correct when* no two operations run together, a cancelled task does not succeed,
and the window ends up offering what it should.

### Native recovery tools (`methods/Recovery`)

Nine stand-alone C++ programs. The one with state worth a model is module 8,
`mediaimager`: an image, a sector map in memory, a map on disk that is replaced
after every block, and a stream that may hold the last write back.

*Hard.* A block that cannot be read is halved recursively; the map is removed
before its replacement is renamed; nobody looks at the results of writing, of
removing, of renaming, or of saving the map as a whole.

*Correct when* a whole map always exists, it does not run ahead of the image by
more than the write the stream holds, and what `image()` returns is true.

### Not modelled

| part | why |
|---|---|
| progress numbers of `update_job` | planned (`JobProgress`): arithmetic on the arguments of one call, without influence on any state the models keep |
| `DualAuthorizationManager` | planned (`DualAuthorization`): a table under one lock whose records the endpoints consult once |
| `hardware_storage.py` | snapshots are taken and compared within one call; the rest is device I/O |
| drive methods, views, capability cache of `drex_app.py` | device I/O behind one call, and layout; an operation's body is in `TaskManager` |
| slack, free-space and crypto sanitizers | planned (`FreeSpaceSanitizer`) |
| carving, fragments, RAID, entropy, `fs_*` readers | sequential computations on bytes without state between calls |
| certificate rendering, read-back statistics | pure computation; when a certificate may be made is in `JobServer` |
| roles, API models, target names | tables and string normalisation |
| MFT and VSS sanitizers | short wrappers around operating-system tools |
| native tools other than module 8 | parsers and scorers that read, print and end; the case store of module 9 saves as the map of module 8 does |
| laboratories, fixtures, web interface | harnesses and clients |
| `repo/`, `build/`, `installer/` and other trees | copies of third-party projects (The Sleuth Kit, nvme-cli, libfsntfs and others), build output, installers |

Nearly all lines of C in the repository are those of the third-party projects
under `repo/`. They are not the system's own code, and modelling them would say
nothing about DREX.

## 2. Modules

| module | models | extends |
|---|---|---|
| `JobRegistry` | class `JobRegistry`: one operator per critical section | |
| `JobServer` | endpoints, workers, thread pool, crash and restart | `JobRegistry` |
| `JobLifecycle` | abstract promise of the two | (instantiated by `JobServer`) |
| `CaseLedger` | appends of `ForensicCaseManager`, verifiers | |
| `FileSanitizer` | `wipe_directory_tree` and `wipe_file` | |
| `ProcessRunner` | `CentralProcessRunner` and `QuickRecoveryAdapter` | |
| `MediaImager` | `image_source` and `DdrescueMapfile` | |
| `CasePackage` | export, import, backup and restore of a case beside its writers | |
| `EventBus` | the event queue of the desktop application | |
| `TaskManager` | `DrexTaskManager` and the operations it runs | `EventBus` |
| `DeviceManager` | `DrexDeviceManager` | `EventBus` |
| `Desktop` | `DrexApp`: handlers and `_poll_events`, composed with both managers | `TaskManager`, `DeviceManager` |
| `SectorImager` | `image`, `read_write`, `save_map` of the native imager | |
| `MCJobServer`, `MCCaseLedger`, `MCFileSanitizer`, `MCCasePackage` | requests, operations and symmetry for the checks | the module they check |
| `JobServer_proofs`, `CaseLedger_proofs`, `FileSanitizer_proofs`, `ProcessRunner_proofs`, `CasePackage_proofs`, `Desktop_proofs`, `MediaImager_proofs`, `SectorImager_proofs` | theorems | the module they are about |

Operators whose comment begins with "Mutant" are not part of the
specifications. Each is a definition with one plausible mistake in it, and each
property is known to fail when its mutant takes the place of the definition.

### How state and actions correspond to the code

**JobRegistry / JobServer.** `jobs`, `disk`, `locks` and `tokens` are `_jobs`,
the job files, `_target_locks` and `_cancel_events`. A record keeps `status`,
`verification_state` and `cancellation_requested`. `pc[j]` is the position of
the thread that serves job `j`: first the endpoint, then the worker (on the same
thread for a synchronous run). A step is one critical section of the registry or
one step outside it, so that every interleaving the `RLock` allows is explored.
`UpdateJob` keeps the order of the code: fields are assigned, then the
transition is judged (a refused call has already changed memory), then status
and locks, then the file is written, which may raise. The exception handlers are
control points too: `failing` is `except Exception`, `release` is `finally`.
A scan of a file reads all of it before it reports its size (`RecRead`), and is
counted as a user of its target there too. Two simplifications: a unit of engine work is one step followed by one progress
call; and each job identifier is used once, as in the code, where it is random.

**CaseLedger.** An operation is a sequence of appends (`Appends`); an append is a
`Read` step and a `Write` step. The operations that are not listed there append
as one of those that are: certificates, validation reports and promoted
candidates as `RECOVERY`, further unlocked callers as `SANITIZE`. The type of an
entry stands for what happened: some of these name it differently in the two files
(`CERTIFICATE_CREATED` in the timeline, `CERTIFICATE_ISSUED` in the chain). A hash is represented by what it hashes, so a
link matches exactly if it names the event before it. `Crash` leaves the files
and takes the threads and the lock. A status update rewrites `case.json` from what it
read; its other fields never change here, so the file holds one entry.

**FileSanitizer.** A chunk is known by the pass that wrote it last. The look at
the token and the write of the chunk are two steps. External tools are believed when
they succeed, as in the code (`ToolWipes`); when they fail the engine goes on
(`ToolFails`). A tool is a step of its own after the walk has come to a file,
so that the token may be set before it. `late` is a history variable that counts
the writes after the token was set: chunks, and runs of a tool (`CountLate`).

**ProcessRunner.** The child is a process of its own that writes into a pipe of
`Capacity` pieces and blocks when it is full. `Capture` is the second attempt of
`recover`, which reads the pipe while the child runs.

**MediaImager.** Offsets are in sectors. `Begin` picks any set of bad sectors,
`Seal` ends a pass at the end or after a cancellation, and `Load` adds mapfiles
of other tools, of any length. `Merge` is translated operator by operator from
`merge`, with `Points`, `StatusAt`, `Winner` and `Coalesced`. Of the header that
`merge` makes, `MergedStatus` is the status; position and number of the pass are
maxima and left out.
Here `raised` stands for the exception of `SkipSector`.

**CasePackage.** The content of a file is the number of times it was replaced;
its entries carry random identifiers and times, so equal digests mean equal
versions. `safe_atomic_write` is two steps, `WriteTemp` and `Replace`, because
the temporary file is visible to a listing. `Sorted` and `InTurn` keep the order
in which the two archivers visit the files. `seen` is a history variable: the
states of the directory since the export or backup began. `Deliver` may alter one
member. Rmtree, copytree and extractall go file by file, so that `DestCrash` can
come between any two. One export runs at a time, since all write the same
`manifest.json` (no endpoint calls it). A restore is given the digest of the
backup; the endpoint of the server gives none, and what is then left of
the check is that of the audit chain. Files other than the four kinds behave as one of them.

**TaskManager / DeviceManager / Desktop.** A handler is one step of the Tk thread,
except that `start_operation` and `recover_selected_candidates` are two: what
they do up to `submit_task`, where the event is cleared, and the call
(`SubmitPending`), since the worker may run in between. A message box is no step
of its own: what happens before it is `StartDeclined`. The label's `RUNNING`
stands for `SCANNING` as well. `_poll_events` takes one event per step, with the
Tk thread otherwise idle; that it usually takes several at once allows fewer
behaviours. An operation's body is reduced to its polls of the cancellation event
and what it announces: the last poll fixes `outcome`, and an `except` clause that
reads the event again is the last poll of an operation that raised. `BodyBreaks`
is what hashing the target and writing the history may raise outside of that.
Selecting the protected system disk, which disables Start on purpose, is left
out, and so are log, status and progress events. The stopwatch is kept as the
state it is, without a property of its own.

**SectorImager.** `work` holds the pending recursive calls of `read_write` as
ranges. A medium has good, bad and flaky sectors, the last of which read or not
at every attempt. `buffer` is what the stream may still hold: `seekp` writes it
out, and a crash loses it. `full` is a destination that has refused data, on which a
stream fails for good; a full disk may show only when the map's temporary file is
closed, which nobody checks. `WriteTmpFails`, `RemoveMap` and `RenameTmp` may fail
on any destination. `saveOk` is what the last `save_map` returned, `stranded` that
its rename failed and left no map in place; the program has neither. The imager is
started with paths where there is neither an image nor a map.

## 3. Runs

| run | question | states | time |
|---|---|---|---|
| `JobServerSafety` | exclusion, locks, cancellation with faults and a crash | 621 000 | 30 s |
| `JobServerLive` | refinement of `JobLifecycle`, immutability, liveness | 75 000 | 40 s |
| `JobCancelledVerified` | divergence (section 6) | | seconds |
| `CaseLedgerLocked` | the story of the files, for locked operations | 81 000 | seconds |
| `CaseLedgerLive` | the chain and the lock, for all operations and faults | 180 000 | 15 s |
| `CaseLedgerLost` | divergence | | seconds |
| `CasePackage` | what arrives in another vault | 2 325 000 | 40 s |
| `FileSanitizerTree` | wiping, cancellation, progress | 243 000 | seconds |
| `ProcessRunner` | completeness, children, termination | 2 500 | seconds |
| `MediaImager` | map and image, merging | 72 000 | 45 s |
| `SectorImager` | map on disk, map in memory and image of the native imager | 4 970 000 | 45 s |
| `Desktop` | tasks, buttons, discovery | 239 000 | 35 s |

`CHECK_DEADLOCK FALSE` is in every configuration because every one of these
systems may come to rest: all jobs over, all operations done, tree wiped, call
returned, image written, archive delivered, window closed.

### Bounds and why they are enough

* `JobServerSafety`: two jobs, one target, synchronous runs and scans, pool of
  one thread, one unit of work, one crash, every write may fail. Exclusion
  concerns pairs of jobs and one target, and the theorems of section 5 cover the
  rest. Two equal requests meet at the fingerprint check, two different ones pass
  it and meet at the target lock. Jobs are symmetric.
* `JobServerLive`: the same with asynchronous runs and scans, no write
  failures (with them a job whose first record could not be written keeps its
  target until a restart, see section 6). One pool thread makes the second job
  wait for the first. No symmetry is used with liveness.
* `CaseLedgerLocked`: three writers, the five locked operations, one crash,
  failing writes. Three writers let one operation start and finish between two
  others. Unreadable files are excluded since they restart a file from nothing.
* `CaseLedgerLive`: two writers, all seven operations, unreadable files, failing
  writes, one crash.
* `FileSanitizerTree`: three files of zero to two chunks, two passes, a tool,
  every fault. Two chunks distinguish first and last; two passes distinguish a
  pass that rewinds from one that does not; a third file follows a failed one.
  `ToolPasses` is not larger than `Passes` (section 6).
* `ProcessRunner`: up to four pieces of output, a pipe of two, so that output
  fits, fills and exceeds it.
* `MediaImager`: three sectors in chunks of two (a short last chunk), every
  pattern of bad sectors, up to three mapfiles, which associativity of merging
  needs; mapfiles of other tools with two statuses of low priority, which
  together with those of the imager gives four of the five statuses. "Not tried" comes in as
  what a map says of sectors past its end.

* `CasePackage`: two writers with one operation each, a custody transfer, a scan
  or a sanitization: one locked and two unlocked, replacing three, two and one of
  the four files. Two writers let one finish before and one during a pass. One
  crash of either process. A refused or failed export, import or restore may be
  repeated without a bound. `Followed`: once the archive is delivered, nothing
  looks at the directory again and it is left as it is.
* `Desktop`: `Room` lets two submissions be accepted, or one and a refresh, or two
  refreshes; refused submissions, clicks, pages and events are not bounded by it.
  Two tasks are what a stale event, a shared cancellation event or a second
  operation need. All four kinds of operation occur (a recovery needs a scan).
* `SectorImager`: five sectors in blocks of three: a full block that is halved
  into unequal parts and a short last one, one retry, every medium.

### Fairness

* `JobServer`: weak fairness of every thread and of `Restart`: threads are
  scheduled, and an operator starts the service again. Clients are not assumed
  to cancel or submit anything, and nothing is assumed about crashes.
  A worker's engine is assumed to get on with its work.
* `CaseLedger`: weak fairness of the steps of a writer inside an operation. A
  writer is not assumed to begin one.
* `ProcessRunner`: weak fairness of the caller and of time. None of the child,
  which may hang, ignore `terminate()`, or wait for the pipe for ever.
* `Desktop`: weak fairness of a handler that runs, of the poll timer, of each
  worker thread and of the discovery: handlers return, `after` fires, threads are
  scheduled, and operations and queries of the host end. Nobody is assumed to
  click, and a cache is not assumed to grow old.

## 4. Properties

Every property, with the hazard it is for, is listed in `PROJECT.json`. The ones
that a test would hardly reach:

* `TargetExclusion`, `LockOwnerActive`, `CancelHonoured`: for all interleavings
  of submission, cancellation, work, failure of writes and restart.
* `ImplementsLifecycle`: `JobServer` refines `JobLifecycle`, where admission is
  one atomic test of "no active job aims at this target". Locks, files, tokens
  and threads disappear behind the mapping.
* `CustodyFirst`, `FilesAgree`, `CustodyVerifies`, `ChainVerifies`: what four
  separately replaced files say together. A benchmark (and, without the lock, a
  sanitization) is logged in the chain alone, so `FilesAgree` compares the timeline
  with the events of the other types (`TimelineTypes`).
* `WipedIfReported`, `CancelStopsWriting`, `ProgressMonotone`. After a cancellation
  one more write may be made, and no second: a chunk, or the run of a tool, which
  overwrites a whole file.
* `WholeIfReported`, `NoChildLeft`, `EveryCallReturns`.
* `MapTellsImage`, `MergePointwise`, `MergeCanonical`, `BlocksOrderFree`. The
  header of a merged mapfile is not as orderly as its blocks (section 6);
  `HeaderTruthful` is what can be said of it.
* `ImportIsSnapshot`: an export takes no lock, and yet a package that passes the
  import is not torn, because all digests are taken before the first file is
  archived. `RestoreIsSnapshot`: the same for a backup, where it rests on the lock
  and on the audit chain being the only file the unlocked sanitization touches.
  `WholeUnlessCut`, `RefusedForAReason`.
* `OneOperation`, `QuietOffersStart`, `StartComesBack`,
  `DetectComesBack`: early releases by stale events and silent refusals do no
  lasting harm. `CancelStopsTask`: nor is a cancellation lost, except through the
  click described in section 6.
* `KnownGoodMap`, `MapLeadsByOneWrite`, `ReturnedMapIsTrue`: for every medium,
  every instant of a crash, and saves of the map that fail in every way. None of
  them speaks of a destination that has refused data; `KnownGoodMap` excepts a last
  rename that failed and left no map in place (`stranded`), and
  `ReturnedMapIsTrue` distinguishes the map that is returned from the one on
  disk, which is the same only if the last save succeeded.

## 5. Proofs

Every invariant and every action property that a run checks is also a theorem,
checked by TLAPS for every value of the constants that satisfies their
assumptions (`RequestsAssumption`, `BoundsAssumption`, `NoOwnerAssumption`,
`OperationsAssumption`, `LedgerAssumption`, `PassesAssumption`,
`OutputAssumption`, `SizeAssumption` and the like, which say that parameters have
their types and that "none" values are none of the ordinary ones). Four groups
of theorems have a hypothesis more, named in the statement:

| hypothesis | theorems | why |
|---|---|---|
| `~DiskFaults`: record writes succeed | `ActiveHasThreadHolds`, `TerminalImmutableHolds`, `CertificateStandsHolds`, `ImplementsLifecycleHolds` | with a failed write the code breaks all four (section 6) |
| `~ReadFaults`: files can be read | `CustodyFirstHolds` | an unreadable file is replaced by a new one, and its records are lost |
| `OnlyLocked`: files can be read, and every operation holds the manager's lock | `CustodyVerifiesHolds`, `FilesAgreeHolds`, `AuditAppendOnlyHolds` | `CaseLedgerLost` is a counterexample without it |
| a finite tree, and `ToolPasses <= Passes` | `ProgressMonotoneHolds` | with Eraser the total counts fewer passes than the code accumulates (section 6) |

The runs of these properties use the same restrictions; the other faults,
cancellations and crashes stay possible.

* **JobServer.** `ExclusionInvariant`: `ExclusionInv` is inductive.
  `TargetExclusion` alone is not: that two workers do not share a target follows
  from each having a job that is running or cancelling (`UserRuns`), and from
  every active job with a thread owning its target (`ActiveHoldsLock`). For this
  to be preserved by `update_job`, a live thread must have its record in memory
  (`LiveHaveRecord`), since `View` would otherwise fall back on a file that may
  be stale, and a job id must be fresh when its endpoint registers it
  (`UnregisteredHaveNoRecord`). The central lemma is `UpdateKeeps`, about one
  call of `update_job` in any state. `TypeCorrect` and `TargetExclusionHolds`
  follow; `LockOwnerActiveHolds` uses the invariant and a second induction over
  the lock table; `CancelHonouredHolds` a third, over memory and files, because a
  record that is read back after a restart must be sealed as well.
  `LifeInvariant` adds what is true while record writes succeed: memory and file
  agree (`FilesMatch`), a job whose worker is past its last update has ended
  (`EndedBeforeRelease`), one that is cancelling has its token set. With it each
  step of the server maps to a step of `JobLifecycle` or to a stutter
  (`ImplementsLifecycleHolds`): registration is `Admit`, although the test and the
  lock are separate steps, because `ActiveHoldsLock` leaves no other active job of
  that target. `TerminalImmutableHolds` is then a property of the abstract steps.
* **CaseLedger.** `LedgerInvariant`: the chain and every copy a writer has read
  verify. The copies are needed because a write replaces the file by an extension
  of the copy and not of the file. `AppendVerifies` is the lemma that extending a
  verified chain by `NextEvent` gives a verified chain. `TypesHold` and
  `ChainVerifiesHolds` follow. `CustodyInvariant` says that whoever is about to
  log a custody transfer has its record on disk, and that its copy of the custody
  file is current, for only the lock's holder writes that file. `StoryInvariant`
  says by how much the files differ at each append of the operation inside the
  lock (`Ahead`), and that they agree when nobody is inside (`AllAgree`).
  The timeline is compared with the events of `TimelineTypes`, so that an append to
  the chain alone changes neither side.
* **FileSanitizer.** `WipeInvariant`: within a pass exactly the chunks before the
  present position carry the present pass and the others the one before, so
  that the last pass leaves every chunk with its number.
  After the token is set the engine makes at most one more write before it looks
  again, and is past the tool of the present file once it has.
  `WipedIfReportedHolds` and `CancelStopsWritingHolds` follow.
  `CancelKeepsFilesHolds` adds that a file without a result is in the queue or
  under way, so that the removal of the tree, which needs an empty queue and no
  cancellation, takes none of them. `ProgressMonotoneHolds` adds the accounting:
  accumulated bytes, the work of the present file and that of the queue stay
  within the total. It rests on `SumTakesOut`, that any term may be taken out of
  the sum `FoldFunction` forms in an order of its own.
* **ProcessRunner.** `RunInvariant`: what was read, what is in the pipe and what
  is unwritten add up to the whole output as long as the child has not been cut
  short. `WholeIfReportedHolds` and `NoChildLeftHolds` follow.
* **CasePackage.** `PackageInvariant`: `PackageInv` is inductive. The argument is
  that of a double collect. Versions only grow; at the moment the second pass
  begins, every digest is at most the version in the directory, and every version
  archived later is at least that. If digest and archived version agree, both are
  the version of that moment, which `seen` records. `PackageTypes`,
  `ImportIsSnapshotHolds` and `WholeUnlessCutHolds` follow. `SnapshotInvariant`
  is about the backup: under the lock only the audit chain and the timeline move,
  so that the directory at the moment the audit chain is archived is the archive,
  the timeline left out; and about exports: as long as `seen` is a singleton,
  digests and archive equal the directory. `RestoreIsSnapshotHolds` and
  `RefusedForAReasonHolds` follow.
* **Desktop.** `DesktopInvariant`: the manager's state is `QUEUED` or `RUNNING`
  exactly while a thread is inside the wrapper (`StateTellsThread`), which makes
  the guard of `submit_task` an exclusion; and while the page is not as it should
  be, a thread is inside the wrapper or an event that will release the buttons is
  on the bus (`ReleaseIsComing`). `OneOperationHolds`,
  `CancelStopsTaskHolds` and `QuietOffersStartHolds` follow.
* **SectorImager.** `ImagerInvariant`: the pending ranges of the recursive
  `read_write` follow one another up to the end of the block (`RangesMeet`),
  the sectors before the first of them, and no others, have been decided
  (`Decided`), those called good are the ones the stream was given
  (`GoodWritten`), and a map that was in place stays whole under one of its two
  names, unless it is stranded, and behind the map in memory (`MapKept`, `MapBehind`). `KnownGoodMapHolds`,
  `MapLeadsByOneWriteHolds` and `ReturnedMapIsTrueHolds` follow.
* **MediaImager.** `ImagerInvariant`: the blocks of every map follow one another
  from offset 0 (`Tiles`), and image and map agree between two sectors (`Told`).
  `MergeCorrect` is proved by induction over the split points: up to each of them
  the blocks made so far tile the medium, have no two neighbours of one status,
  and give each offset the better of its statuses. A map with these properties is
  determined by its statuses (`TilesUnique`), and the better of two statuses is
  commutative and associative (`WinnerAlgebra`); hence `BlocksOrderFreeHolds`.
  `HeaderTruthfulHolds`: in a complete map that tiles the medium every sector is
  rescued or given up, and the better of two statuses is then one of these.
  Mapfiles of other tools come in as blocks of one sector each that follow one
  another; what `merge` makes of a file with gaps or overlaps is not claimed.

Induction over data occurs in three places (`OfType` of the ledger, the split
points of `merge`, the sum of the sanitizer). It is done with the lemma
`InductiveSet`, that a set of naturals with zero and all its successors is
`Nat`, which follows from `WFMin`; the induction theorems of the library take an
operator as a parameter and cannot be instantiated.

Only model-checked: the liveness properties (`EveryJobEnds`, `LocksReleased`,
`LockComesFree`, `EveryCallReturns`, `StartComesBack`, `DetectComesBack`), since
fairness is outside the reach of the prover; and the two runs that end with a
counterexample.

## 6. Where the code and its documents disagree

Two races have a run that ends with a counterexample:

1. `JobCancelledVerified`: a completion that meets a cancellation leaves a
   `CANCELLED` job marked `VERIFIED` (`drex_server.py:571`, `:659`).
2. `CaseLedgerLost`: an audit event can be overwritten by an append that does not
   take the lock (`forensic_vault.py:1943`).

Five more involve a single actor, so that no run is kept for them; their
statements stand at the end of the modules, and TLC refutes each when it is added
as an invariant to the configuration named:

* A certificate attests exact readback whatever the readback found, because the
  result is looked for in the wrong place (`drex_server.py:2954`;
  `CertificateTruthful`, `JobServerSafety.cfg`).
* A wiped file stays in its directory under a random name
  (`file_sanitizer.py:361`; `UnlinkedIfReported`, `FileSanitizerTree.cfg`).
* Two adjacent bad sectors raise `TypeError` (`recovery_adapter.py:1145`;
  `NeverStopped`, `MediaImager.cfg`).
* "Do not remove the last known-good map until the replacement is fully written"
  (`map.cpp:16`). Whether it is fully written shows when it is closed (`:15`), which
  nobody looks at: on a disk that fills up the old map is removed and the new one
  is incomplete (`RemovedWhenWritten`, `SectorImager.cfg`).
* "map updates are atomic via temporary file + rename" (`docs/SECURITY.md:7` of
  module 8). The old map is removed first; if the rename then fails
  (`map.cpp:17-18`), `image` goes on, and its next save truncates the temporary
  file, the only copy, on a disk that takes everything (`LastMapKept`,
  `SectorImager.cfg`). A crash between the two leaves a whole map only under the
  temporary name, where `load_map` does not look.

Met while modelling, and not the subject of a run:

* A click that starts another operation while a cancelled one winds down clears
  the cancellation event before its submission is refused, so that the first
  operation may go on to its end (`drex_app.py:4271`, `:4849`, `:5066`, `:5097`).
  "Worker will exit at next safe boundary" (`drex_app.py:676`) then does not hold;
  `CancelStopsTask` excepts it.
* Import is announced as "Atomically move into target vault"
  (`forensic_vault.py:1144`) and is a removal followed by a copy: a crash in
  between leaves neither case. A restore that raises while extracting leaves what
  it has extracted, and the next attempt is refused (`:2546`, `:2550`).
* `safe_atomic_write` "Guarantees no partial or corrupted file persists upon
  process interruption" (`forensic_vault.py:186`). Its temporary file does; every
  later export declares it and does not archive it (`:975`, `:1018`), so that no
  package of that case passes the import.
* `image` says `complete` although the image lacks data on a full disk, and although
  no `save_map` may have succeeded, for what it returns is ignored (`imager.cpp:8`).
* A last sector that is not full is always marked `Failed`, readable or not
  (`source.cpp:4`, `imager.cpp:8`).
* A failed first write of a job record leaves the job in the table, without a
  worker and owning its target, until a restart or its cancellation
  (`drex_server.py:508`). A failed last write makes an ended job `INTERRUPTED`
  after a restart. Both are why `JobServerLive` excludes write failures.
* A run whose readback fails still ends `COMPLETED` and `VERIFIED`
  (`drex_server.py:2739`).
* An unreadable audit chain is replaced by a new one, which verifies
  (`forensic_vault.py:1956`).
* Seven passes are counted for Eraser with the three-pass standard
  (`file_sanitizer.py:251`), which takes the progress beyond its total.
* A command whose output does not fit into the pipe can only end by its timeout
  (`backend_adapters.py:552`).
* The run of an external tool cannot be cancelled: it is waited for without a
  timeout, and overwrites the whole of a file after the token was set
  (`file_sanitizer.py:244`, `:265`).
* A benchmark is logged in the audit chain and not in the timeline
  (`forensic_vault.py:2455`), unlike every other operation under the lock.
* The header of a merged mapfile does not follow from its blocks
  (`damaged_media.py:302`). Its status is `FINISHED` if one operand is complete,
  though the other may be longer and not complete; and it depends on the order of
  three merges: with one map that has rescued the first half and not tried the
  second, one that has done the opposite, and one that has tried nothing, merging
  the first two before the third gives `FINISHED`, and merging the last two
  before the first does not. The blocks are the same. So the file, and its digest,
  may differ between two orders, which is why `BlocksOrderFree` is about blocks.
* The mapfile of a cancelled pass says that the pass is finished, and a new pass
  starts the image again (`recovery_adapter.py:1108`, `:1155`).

## 7. Plan

Done, in order of importance: the registry with its endpoints, the case ledger,
the file sanitizer, the process runner, the imager, the case packages, the desktop
application, the native imager.

Next, as theorems: what stays true of ended jobs when record writes may fail; what
`merge` returns for mapfiles whose blocks leave gaps; how many steps a call of the
process runner can take, the safety half of `EveryCallReturns`.

Next, as models: `DualAuthorization` composed with the execute endpoint,
`JobProgress`, `FreeSpaceSanitizer`.

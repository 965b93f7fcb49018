# Luxury Optimization: verification project

TLA+ models of the parts of Luxury Optimization in which the order of steps,
failures and concurrency decide whether a user gets the machine back as it was.
Source paths are relative to the repository; `O/` stands for
`backend/internal/optimizer/`.

## 1. The system

| Component | State it keeps | Operations | Talks to |
|---|---|---|---|
| React interface (`frontend/src`) | response cache, promises of running calls | screens, `CachedClient`, `TauriClient` | Tauri host, by commands and events |
| Tauri host (`frontend/src-tauri/src/sidecar.rs`) | the child process, its generation | start, write, stop, forward events | interface; sidecar by pipes |
| Go sidecar (`backend/internal/app`, `features`) | table of running calls | serve, cancel, shut down | host by JSON lines; the service |
| Service facade (`O/facade*.go`) | marker files of tweaks and checkpoints, saved games | everything the interface can ask for | elevated children, journals |
| Elevated child (`O/main_windows.go`, `O/platform_windows.go`) | the operation mutex | apply, tweak, checkpoint, restore | its parent, the two named mutexes |
| Transaction engine (`O/engine_windows.go`, `O/tweaks_windows.go`) | registry, mouse, power schemes, Ethernet; one journal per operation | apply, verify, roll back, restore | journals |
| Sealed journal (`saveBackup`, `O/backup_security_windows.go`) | one file, one seal in HKLM | save, load | file system, registry |
| Boost session (`O/boost_windows.go`) | the boost mutex, the game process | apply, run the game, restore | elevated children |
| Services and startup entries (`O/services_*.go`, `O/startup_*.go`) | their own backups | toggle, restore | engine (restore of everything) |
| Storage (`O/storage_*.go`) | the current scan, cache of reports, deletion tokens, the lock of heavy diagnostics | scan, cancel, preview, confirm | file system, recycle bin |
| Games (`O/game_*.go`, `O/facade.go`) | `games.json`, `game-history.json`, their lock | save, remove, launch, attach a benchmark | command lines, boost session |
| Updater (`O/update*.go`) | the executable, downloads, a lock; on Windows a script | check, download, install | GitHub, PowerShell |
| Diagnostics, advisor, benchmarks (`O/network*.go`, `O/background_*.go`, `O/benchmark.go`) | none | measure, compare, advise | sockets, processes |

How they interact on one click: the interface sends a request through the host to
the sidecar; a change to the machine starts an elevated child (one UAC prompt),
which takes the operation mutex, checks that no boost session is active, captures
the state, writes a sealed journal, and then announces each change in the journal
before making it. The journal is all that is left if the process dies.

What is hard: the child can die or fail at any step; journals have to stay
readable, restorable and true about the machine; the named mutexes are used
without waiting, so an operation may be refused at any moment; decisions are
taken before the lock is held (checkpoint, backup ID); requests, answers and
process generations overlap in the sidecar; scans, caches and tokens age; other programs
change files, services, startup entries and processes while this one looks at them.
`PROJECT.json` lists these hazards at their lines.

## 2. Modules

| Module | Models | Kind |
|---|---|---|
| `DurableRecord` | what the engine relies on: a journal is one value, replaced as a whole | abstract |
| `BackupSeal` | `saveBackup`, `prepareBackupSeal`, `commitBackupSeal`, `verifyBackupSeal`, `loadBackupFile` | detailed, refines `DurableRecord` |
| `Transaction` | `applyProfile`, `applyTweak`, `createCheckpoint`, `restoreBackup`, `restoreTweakBackup`, `rollbackBackup` | detailed |
| `Sessions` | requests in processes, elevation, the operation and the boost mutex, choice of the backup | composition of many operations |
| `RemoteCall` | what `BackendClient.call` promises to a screen | abstract |
| `SidecarServer` | `Serve`: command loop, running calls, cancellation, shutdown | component |
| `SidecarHost` | `sidecar.rs`: the child, its readers, the lifecycle event, the graceful exit | component, extends `SidecarServer` |
| `BackendClient` | `TauriBackendClient` of every window, composed with host and sidecar | composition, refines `RemoteCall` |
| `CachedClient` | `CachedBackendClient` of one window over a backend that changes | component |
| `KeptBackups` | `setServiceEnabled`, `disableStartup`, `enableStartup`, `restoreStartupBackups`, `restoreServiceBackups` | component |
| `TweakMarkers` | `ApplyTweak`, `RestoreTweak`, `Restore` of the service and the marker file | composition, extends `KeptBackups` |
| `StorageScan` | scan jobs, cancellation, cache, deletion tokens, invalidation | component |
| `StorageReport` | totals, groups, largest files and rows of a report | algorithm |
| `StorageTree` | `walkStorageEntries` and its workers, visiting with `StorageReport` | component, extends `StorageReport` |
| `GameLibrary` | saved games and their history | component |
| `Updater` | check, download, installation, the Windows script | component |
| `LoadPhase` | `runBufferbloatPhase`: streams, budget, deadline | component |
| `BackgroundAdvisor` | `collectBackgroundReport` on Windows | component |
| `Benchmarks` | `compareBenchmarks` | algorithm |
| `Measurements` | one of the last three, as asked for | composition |
| `FilesProofs` (of `BackupSeal`, `GameLibrary`, `Updater`), `TransactionProofs`, `SessionsProofs`, `BackendClientProofs` (also of `CachedClient`), `TweakMarkersProofs` (also of `KeptBackups`), `StorageScanProofs`, `StorageTreeProofs` (also of `StorageReport`), `MeasurementsProofs` (of `LoadPhase`, `BackgroundAdvisor`, `Benchmarks`) | theorems and proofs | proofs |
| `MC*` | values for the constants | model checking |

The three levels stack. `Sessions` shows that one process at a time works on
journals and takes the whole operation as one step; `Transaction` opens that step,
has a single `pc` because of the mutex, and takes `saveBackup` as one step that
may fail before or after it replaced the file and leaves what it did to the seal;
`BackupSeal` opens `saveBackup` and shows that, until two saves in a row are interrupted, it is
one replacement of the file (the refinement of `DurableRecord`).

Beside that stack `TweakMarkers` is the view of the unelevated service: what the child
does to a tweak is one step, and what follows the rollback of a profile are the steps of
`KeptBackups`, under the same operation lock.

On the side of the interface `SidecarServer` and `SidecarHost` write the commands
and events of their processes as operators, and `BackendClient` joins them into
the steps of the whole chain. `CachedClient` stands on top and takes a call as
`RemoteCall` promises it: it may take effect also when it fails for its caller.

### BackupSeal

`file` and `seal` are the digest of the journal on disk and the REG_MULTI_SZ value;
`writer` is how far `saveBackup` is (temporary file, seal prepared, renamed).
Every one of the four steps can fail (`...Fails`) and the process can die at each
(`Crash`); `established` says whether a failed save ends the operation (the first
one does) or is only noted. `interrupted` counts saves stopped between seal and
rename since the last rename. Contents are digests: a new content may equal an old
one, as happens when a status is written twice.

### Transaction

`reg`, `mouse`, `net`, `active`, `schemes` are the machine; `disk` the journals;
`tx`, `cur`, `step`, `registryFailed`, `problems` the local variables of the running
operation and `pc` its place in the code. A journal is the `Backup` record reduced
to what a rollback reads: captured values, `applied` (`AppliedRegistry`), the
`...Applied` flags, `previous` and whether `Power.Settings` is empty; `CreatedGUID`
of backup `b` is `b`. Each action is one save or one external command together with
the branch the code takes on its result. A command may fail without effect, fail after its
effect (a read-back that errs), or succeed for a value that does not stick. `faults` bounds
failures and crashes. `before` and `ordered` are history variables.

`ahead` is what a journal's seal holds in front of its own digest: a save that stops between the
preparation of the seal and the rename puts one more there, or none if it writes what was being
written before, and a rename brings the journal's own to the front. The seal has two places (`SealSize`),
so that two such saves in a row push the digest out, and a restore refuses the
journal (`Trusted`). Both a failed rename and a death at that point are such saves.

Abstracted: registry types and absent values (one of `Values`), the settings inside
a power scheme (whether they are journalled remains), validation of identifiers,
several Windows users.

### Sessions

A process is a request: `kind` says for what. `pc` follows the unelevated parent,
then its child, then the parent again; `alive` is the parent. `operation`,
`boosters` and `lookers` are the open handles to the two mutexes: `CreateMutex`
on an existing name also opens a handle, so a refused attempt and a mere look keep
a mutex in existence for a moment. The journal is reduced to its status. `id` and
`clock` are the times in backup IDs, `appliedAt` the order in which journals took
effect. The 24 hours a checkpoint counts as recent do not pass.

### SidecarServer, SidecarHost, BackendClient

`proc`, `input`, `output` are, for each process the host ever starts, its life and its
two pipes; `call`, `cancelled` the table of running calls; `child`, `generation`,
`reader`, `mail`, `exit` the state of the host; `started`, `starting`, `attempt` the
fields of the client in each window; `status` and `result` how far each command and its
promise are. A command is named by its window, its purpose and a number, as IDs
are random UUIDs. An action of a window is one turn of its event loop, with everything that
follows without waiting (`Continue`: the end of a handshake ends `#spawn`).

The host writes under its mutex, and a pipe has room for `PipeRoom` commands. A write that finds
it full (`writer`) waits with the mutex held until the sidecar reads or dies, and everything that needs
the mutex waits with it: other writes, `sidecar_start`, `sidecar_stop`, the reader that claims an ended child,
and the graceful exit, which is therefore three steps (`BeginExit`, `WriteShutdown`, `FinishExit`).

Abstracted: frames and their validation (the windows send only valid ones), results
that nobody waits for, the end of the input (the host always kills). A `GiveUp` (timer
or `AbortSignal`) writes its cancel at once, the reply of `sidecar_stop` is taken with
the stop, and an output pipe and the event queue behind it are one sequence. `stop()`, which
nothing calls, is left out.

### CachedClient

`truth` is the machine: for each read, the mutations that took effect on what it
shows. `cache` is `#cache` with one entry per method (payloads are left out), `fill` the
calls that reads made, `mutation` how far each mutation is. A value keeps, as history,
which mutations had returned when its fill began and when it ended. `CachedMethods` are the methods with a time to live. The time to live is the
action `Expire`, which may come at any time. `Invalidates` is the table
`invalidationByMutation`, `Affects` what the backend changes.

### KeptBackups and TweakMarkers

`config` and `run` are the start types of services and the Run key, `kept` and `parked`
the backups of both in the registry. The operation lock leaves one operation at a time:
`work` is its step and what it has read. Every registry call may fail (`CallFails`), the process
may die (`Die`), and other programs change services and entries at any moment
(`OtherService`, `OtherStartup`), also between a look and a write. `disabledFrom`,
`overtaken`, `latest` and `overwritten` are history. `marker` is `tweak-backups.json`,
`tweakMu` the mutex of the sidecar, `call` the calls with what each has loaded; a save
writes what was loaded with one change, which is how updates get lost (`lost`). A child may report an
error after it has done its work (`ElevatedFails`): the last save fails after its rename, or the child dies behind it. A
sidecar that dies leaves its child alone, which goes on with the lock and may still take effect
(`ChildAlone`, `ProfileAlone`); `excused` remembers the tweaks this concerns. There is one sidecar: nothing in the
application prevents a second instance, whose `tweakMu` would be another one. Abstracted: names and
command strings, the types of registry values, several users but for the
question whether the elevated account is the user's own.

### StorageScan, StorageReport, StorageTree

`identity` says which incarnation of a file or directory is under a name, so that a replaced
file is told from the reviewed one; a directory gets another one with each entry that comes or goes, as
its time of change does. Paths are a parent relation: `Line(n)` is a node with all that
is above it, the least set closed under `Parent`, and `Below` what deletion and invalidation compare. `scan`, `job`, `probe`, `cache` and `order` are the fields of
`Service`; `token` the deletion authorisations, which live in their job. A walk reads one
directory at a time while files change. Deadlines (`limit`, `Lapse`) may pass at any moment.
The protected paths are a constant; the move to the recycle bin is one step, which succeeds
or fails.

`StorageTree` has the coordinator and its workers: the unbuffered channel of tasks is a joint
step, `results` the buffered one. The coordinator receives a listing (`Receive`) and visits its
entries one by one (`VisitEntry`), in any order, with a look at the context and the limit before each;
it selects again when `listing` is empty. The visits are the operators of `StorageReport`; numbers
stand for names and for sizes. A list in order is defined by ranks (`Descending`): each row
has as many before it as precede it.

### GameLibrary

`games`, `launches`, `benchmarks` are the two files, `profilesLock` the named mutex, and `call` the calls with
what each has loaded. `IdOf` maps a path to its ID, a truncated hash, so that two paths
may collide. `CommitHistory` takes any time of `Times`: the clock may be set back.

### Updater

`current` is the file under the name of the executable (named by the process that downloaded
it), `pending` and `aside` the downloaded and the moved-away files, `script` the progress of
each PowerShell script. Each move and deletion may fail, for any reason; a script that can
neither install the new file nor move the old one back ends `stuck`. One flag says whether it is Windows, chosen in `Init`.

### LoadPhase, BackgroundAdvisor, Benchmarks

A unit of data is what is copied at a time; the transport may read a body on after the answer
(`Send`). An answer has any length up to what was asked for, also none. A stream that ends or fails counts itself off
`workers`; the last one closes `closed`, and each way out of the phase waits for that channel.
The advisor names a process by its PID and creation time, and a service only by the
PID. Benchmarks compare integers; medians are doubled and deviations taken four times
so that no fraction occurs, and the rounding of floats is left out.

## 3. Runs

| Run | Bounds | Shows |
|---|---|---|
| `seal` | 3 digests, 1 interruption before the next rename | the journal on disk is always in the seal; a save is atomic |
| `transaction` | 2 registry keys, 1 mouse key, 1 Ethernet property, 2 values, 2 backups, 2 faults; profile, mouse tweak, Ethernet tweak, checkpoint | write-ahead journal, exact restores, no orphaned scheme, retryable and terminating rollbacks as long as a journal's digest stays in its seal |
| `power_tweak_crash` (violation) | power-setting tweak, 1 crash | finding 2 |
| `sessions` | 3 processes, every combination of kinds, 1 failure, 1 dead parent | mutual exclusion, undisturbed boosts, released locks |
| `sidecar` | 2 windows, 2 calls, of one window or of both, 2 processes, pipes with room for 1 command, 1 crash, reader failure, refused start or closing | one sidecar at most; every call settles unless a write hangs; the chain implements `RemoteCall` |
| `cache` | 2 reads, 2 mutations that share one, 3 fills | only a race leaves a stale entry; joined calls are alive |
| `storage_scan` | a volume, a directory, a file; 3 scans, 1 token, room for 1 cached root, 2 writes of others | locks, cancellation, cache and deletions of scans |
| `storage_tree` | 9 nodes, 2 workers, every limit 1 or 2, the entry limit 8, largest integer 8 | the walk ends; the report adds up |
| `recovery` | 2 tweaks, a profile, a service with 2 start types, an entry with 2 commands; 3 calls, 4 events, children that err or die after their work or outlive the sidecar | backups, markers and restores |
| `games` | 4 paths, 3 IDs, 3 calls, room for 2 games, 1 launch of a game, 2 times | library and history |
| `updater` | 3 processes, a prerelease, 2 releases, 1 of another channel, Windows and Linux | there is an executable, and it gets newer |
| `measurements` | 2 streams, a budget of 4 units, answers of 0 to 2, 3 samples; 2 PIDs, 2 services, 2 new processes; sets of 3 or 4 runs of 2 metrics | phase, advice, verdict |

Why the bounds are enough. Seal: a seal holds two digests, so three contents and
two interruptions are the smallest case in which one is lost. Transaction: the
second registry key makes the loops go round, its mouse parameter joins the two
stages, one property can be changed or not changed by a command that stops midway; two
backups give every nesting of an older and a newer one; two faults give every pair
(a failing change and a failing rollback, a failed save and a crash, two interrupted saves). Sessions: two
processes compete for a mutex while a third holds, or only looks at, the other. Combinations
differing in the order of the processes are the same, so one of each is taken.
Sidecar: two windows share it; the second process overlaps with the late events of the
first one, and a third would meet no others, as a reader keeps only its own number; with room for one command a pipe
is full at the second, which may be a call, a cancellation or the shutdown; two calls
are one that fails the connection and one that waits for it or comes later. Cache: three fills are
one that is overtaken, the one that overtakes it and one more to find it stale. Storage: three scans are
one in the cache, one that replaces it and one that overlaps with either; a cache of one root
evicts at the second. The tree has a directory within the limit and one beyond it,
a directory below a directory, a link, equal sizes and a sum above the largest integer. Recovery: three
calls are two that lose an update and the one whose marker it was; four events are a toggle,
a change by others, a second toggle and a restore. Games: two calls race for a file while a third finds the
lock taken; the limits are met by the second record. Updater: the third process installs between
the check and the installation of the first while the second's script is at work. Measurements:
each stream makes two requests or more of what is left of its share; a PID is reused once by each of two
processes; three runs are the least allowed, four the first even number.

Runs stop where nothing remains to be asked (`CHECK_DEADLOCK FALSE`): all backups
are used and rolled back, every process has ended, the last digest is sealed, all
calls are settled, all scans, tokens and events are used, what was measured is reported.

### Properties

* `TrustedUnlessTwiceInterrupted`, `ImplementsDurableRecord`: a crash leaves a
  journal that the next process opens, with the old or with the new content.
* `JournalBeforeMutation`: no step changes a setting unless the journal on disk
  announces it and holds the value from before the operation.
* `RestoreIsExact`: with backups restored newest first, the one that becomes
  `rolled_back` leaves the machine as its operation found it.
* `SchemeJournalled`: a created power scheme never outlives its journal.
* `AppliedHolds`: the newest backup says `applied` only while all it covers holds.
  One fault is tolerated; a failed save of `rolling_back` followed by a
  crash is outside the promise.
* `RollbackRetryable`: nothing in the newest backup or on the machine makes a restore refuse it. It
  holds for profiles, checkpoints, mouse and Ethernet tweaks with two faults; with three (both saves of
  a rollback fail, then a crash) a journal can stay at `applied` with its scheme
  no longer active, and be refused. Nor does its seal refuse it after one fault; the two of
  two interrupted saves in a row can push its digest out (disagreement 1 in section 4).
* `RollbackCompletes`: once faults end, restores of the newest backup end with
  everything rolled back, if the digest of every journal stays in its seal.
* `OneOperation`, `LocksReleased`, `BoostUndisturbed`: the mutexes. While a boost
  session has its profile applied no other operation changes a journal, provided
  no parent has died.

* `NoOrphan`: a sidecar that runs is the child of the host, so there is one at most,
  and none after the application; the reader of an earlier process never takes a later one.
* `ConnectedToChild`: a window takes itself for connected only if there is a
  sidecar, or it is going to learn that there is none, or a handshake of its own is under way,
  unless another window stopped it.
* `EverythingSettles`: every promise settles, also when the sidecar hangs, and a
  closing application ends; except while the host waits, with the mutex, for room in the pipe of a sidecar that
  runs and reads no more. `KeepsPromise`: a call is carried out at most once,
  settles once, and resolves only if it took effect.
* `FreshOrRaced`: a cached value misses a mutation that drops it only if its fill was
  in flight when the mutation returned. The code does have that race: the answer of such a
  fill is stored after the invalidation and stays for its time to live.
* `PendingInFlight`: whoever joins a pending entry waits for a live call.

* `OriginalUnlessOvertaken`, `CommandKept`: whatever fails or dies, the original start type of a
  service the program disabled, and the command of a startup entry, can be had back; the exceptions
  need another program between the last look and the write, or a change while a backup is kept.
* `RestoreComplete`: a restore that reports success leaves no backup behind.
* `MarkerUnlessLost`, `MarkerRestorable`: the one-click rollback of a tweak is there as long as its
  backup is outstanding, and only then. "Its" backup is that of the last apply. The exceptions named in them are real: `Restore`
  changes the file without `tweakMu`; a restore of the latest backup does not change it; and neither does
  a restore whose child took effect and reported an error, or outlived the sidecar that asked for it.
* `ProbeHeld`, `HeavyReleased`: the lock of heavy diagnostics is held exactly while a scan works, and
  always comes free. `CancelHolds`: a cancelled scan neither completes nor is cached.
* `OrderMatchesCache`: the queue of the cache and its map agree.
* `NoDeletedUnlessRaced`: a cached report shows what was deleted only if its scan was under way
  at the invalidation. `NodeReviewedUnlessSwapped`: the item that goes to the recycle bin is the one that was reviewed, and
  if it is a directory it has exactly the entries it had, unless another program changed it after the last look
  (`O/storage_delete.go:134`). That look is at the item only: what its files hold and what lies deeper may have
  changed since the review.
* `ReportAddsUp`: the rows of children and of extensions add up to the totals at every moment, and the
  totals of a walk that was not cut short are those of the tree, whatever the order of the workers; of the
  rows of children the sizes add up (their counts of files are not compared).
  `LargestFirst`: the largest files are. `Terminates`: the walk ends and so do its workers.
* `NoLostUpdate`, `NewestKept`: the library is what the successful calls made of it; a record
  that is gone made room for newer ones.
* `ExecutablePresent`: no interleaving of scripts leaves the program without an executable, except one
  that died at work, or could move neither the new file in nor the old one back. `OnlyNewer`: an update is newer than what it replaces, unless another update came between.
* `QuietWhenReturned`, `PhaseReturns`, `BytesBounded`: a phase returns by each of its ways out, with no stream
  of its own in a request any more, within its budget.
* `AdviceSafe`: an advice to act is never about another process than the measured one, nor about one with a
  protected service among those listed.
* `VerdictRobust`: the verdict is the same for every order of either set of runs, and a minority of outliers
  makes none.

Each has a mutant: a plausible mistake in the code (kept next to the definition it
replaces, such as `JournalRegistryAfterApply`) with which the property fails.

### Fairness

`Transaction`: weak fairness of the steps of a running operation (a program that
runs, takes its next step; every external command has a timeout), and of
restores, which says the user goes on asking while something is left. Faults have none.
`Sessions`: weak fairness of each process's steps (nothing waits for a mutex) and of the
user's answer to a prompt and the end of a game. Requests, refusals and deaths have none.
`BackendClient`: weak fairness of `Progress`, the steps of windows and host, every
timer included. One condition for all of them is enough, because they are finitely many for
a given number of calls. The sidecar has no fairness: it may hang. `CachedClient` has
none and states only safety.
`StorageScan` and `StorageTree`: weak fairness of all goroutines together, some one that can
run does, which the Go scheduler more than provides; cancellation has none. `Measurements`: of the
caller, each stream and the deadline, which is a timer. `TweakMarkers`, `GameLibrary` and `Updater`
have none and state only safety.

## 4. Where code and documents disagree

The run `power_tweak_crash` shows a bug: a power-setting tweak that dies before its second save
leaves a journal that every restore refuses (`O/tweaks_windows.go:360`), against "retryable
rollback" (`docs/BOOSTERX-COVERAGE.md:11`).

Six more were found with the same modules. Each is an invariant that the module states and a
configuration beside it that TLC runs to the counterexample; they are not among the runs of
`PROJECT.json`:

1. Two interrupted saves lose the seal of the journal (`O/backup_security_windows.go:118`; `MCBackupSealTwice.cfg`).
   One fault is not enough; two in a row are, such as the two saves of one rollback whose renames fail.
2. A boost session's one attempt to restore is refused if any operation holds the
   mutex (`O/boost_windows.go:60`), against "automatic restore" (`README.md:51`; `MCBoostRestore.cfg`).
3. A profile can be applied after its required checkpoint is gone
   (`O/main_windows.go:209`), against `README.md:42` (`MCCheckpointStale.cfg`).
4. "The last applied backup" is the one whose ID was drawn last
   (`O/facade_windows.go:48`, `O/main_windows.go:286`; `MCLastApplied.cfg`).
5. A window whose handshake fails stops the sidecar under the other window, which
   is never told (`tauri-client.ts:62`, `sidecar.rs:270`), against
   `docs/DIAGNOSTICS-PROTOCOL-1.0.6.md:70` (`MCSharedSidecar.cfg`).
6. The restore of a profile also restores startup entries and services, whose
   cached lists it does not drop (`cached-client.ts:30`), against `docs/ARCHITECTURE.md:7` (`MCRestoreInvalidation.cfg`).

Behaviour worth knowing, which the properties therefore except:

* `validatePowerRestoreOrder` exempts backups without a plan of their own, so a named checkpoint may
  be restored over a newer power tweak. `RestoreIsExact` and `RollbackRetryable` are about restores newest first.
* `Restore` of a tweak's backup between the elevated apply and `setTweakMarker` leaves a marker
  for a backup that is restored; `removeTweakMarkerByBackup` works without `tweakMu` and can undo
  another call's change; a restore of the latest backup never removes a marker.
* The backup of a service that could not be disabled, or that somebody else changed since, is kept, and
  what the program calls the original is then older than the last state; enabling a service that is not disabled
  leaves its backup. Startup entries are restored in the registry of the elevated account.
* A rollback of a tweak whose child took effect and then reports an error (`O/engine_windows.go:478`, `600`) returns
  before it removes the marker (`O/facade_windows.go:77`). The button stays and cannot succeed until the tweak is applied
  again. A child that goes on after its sidecar died does the same.
* The markers and saved games assume what holds of one sidecar; a second instance of the application has one too.
* A sidecar that hangs with a full pipe blocks the writer under the host's mutex (`sidecar.rs:94`), and with it the
  stop of the sidecar and the closing of the application (`sidecar.rs:136`).
* A scan that is under way during a deletion caches what it read before. A file rewritten inside a reviewed directory, and
  anything deeper, goes to the recycle bin with it unseen.
* `docs/ARCHITECTURE.md:32` speaks of deterministic aggregates. Totals are; which of several equal
  files is among the largest, and which extensions get a group when there are more than the limit,
  depend on the order of the workers.
* A history record made with the clock set back can be cut at once; the history of a removed game stays and comes
  back with it; a launch uses a profile that was read without the lock.
* An older release can replace a newer one if another process installs between check and lock. The
  Windows script replaces the file while other processes of the program run from it. A
  process that dies leaves its download. A script whose move back fails too leaves no file under the
  executable's name.
* The transport's late reads count after the budget was reduced: slightly more than the 128 MiB per
  direction of `docs/DIAGNOSTICS-PROTOCOL-1.0.6.md:36`.
* Services that cannot be opened are unknown to the advisor, and a missing list only gives a warning.
* A comparison of benchmarks is not symmetric at the threshold of 2 percent, which is of the median before.

## 5. Proofs

TLAPS proves for all values of the constants, from the assumptions declared in the
modules: bounds and times are numbers, there are runs to compare and each gives every metric
a number, the nodes of a scanned tree are finitely many and every set of them but the root has one whose
parent is outside (`TreeAssumption`: parents lead to the root), the entries that a scan counts do not exceed
the largest integer (10 000 000 against 2^63 - 1), `Optimized` is a value, `NoJournal` no journal, mouse
keys are keys, the sets of processes and of calls are finite, and the values for nothing (`None`,
`Nothing`, `Absent`) are none of the processes, hosts, tweaks, calls, paths or files that they are
compared with.

* **FilesProofs**, one file after the other. *The journal:* `TypeCorrect`; `SealTrusted`, by
  `SealInv`: the first digest of a seal is that of the content being saved, or else,
  unless a save was interrupted since, of the file; after one interruption the file is
  the other digest. `RefinesDurableRecord`: under `MaxInterrupted <= 1` every step maps to a
  step of `DurableRecord` or to a stutter. *The library:* `LibraryKept`, from `LibraryInv`: a call that
  loads or saves holds the lock, and what it has loaded is the file as it is (`InHand`).
  *The history:* `NewestRecordsKept` (`NewestKept`), from `HistoryInv`: a record once reported is in its history, or
  as many newer ones are as are kept of its game or in all (`Remembered`). Pruning keeps that, whether a
  record is added or not (`PruneRemembers`). The loop of `pruneGameHistory` is written without recursion: a record
  is kept by how many of its game, and how many eligible ones, come before it. So
  the proof counts: in any order of a finite set each member has its rank (`RankedOneByOne`), the members with fewer
  than m before them are m or all (`FirstOnes`), and the newest ones of some time on come
  first (`NewestComeFirst`); adding a record makes one of its own game ineligible at most (`OneMore`).
  *The executable:* `ExecutableKept` and `ReplacedByNewer`, from `UpdaterInv`: a script behind its first
  move has a file that it can move back (`CanMoveBack`), a process has at most one script (`OneScript`),
  and the version of a download is settled, and newer than its process's, before it can be installed
  or appears under the name (`AllSettled`).
* **TransactionProofs.** `TypeCorrect` needs more than types: a rollback writes back
  what the journal captured, so that the machine keeps its type only if an announced key was captured.
  The invariant `TInv` adds that the journal in memory and every one on disk
  captured the keys of its operation, how the stages and flags go together, and that a seal holds
  at most as many digests in front of its journal's as there were faults (`FewAhead`).
  `SchemesAreJournalled` rests on `SInv`: while an operation is past its first save
  its journal on disk is outstanding and announces the scheme until it is deleted.
  `IntentIsJournalled` (`JournalBeforeMutation`) rests on `WInv`: a journal holds what its operation found
  (`Truths`), and what the one in memory announces is announced on disk too, or has not been changed
  (`RegistryAhead` and its like for the mouse, the network and the scheme). `RestoresAreExact` (`RestoreIsExact`)
  rests on `EInv`: with restores newest first the machine differs from what an operation found only where
  its journal says so (`Clean`), the newest one against the machine (`NewestClean`), an older one against
  what the next newer one found (`StackClean`); a rollback without problems shrinks that difference stage
  by stage (`Undone`). `AppliedIsTrue` (`AppliedHolds`) rests on `AInv`: `applied` is
  saved after the read-back, and while an operation changes something it is not on disk unless
  a save has failed (`StatusKept`); what holds of the newest journal is kept for the older ones, in what the
  next newer one found. `NewestCanBeRestored` (`RollbackRetryable`) rests on `RInv`, which counts: with the
  scheme gone, a journal says `applied` only after two faults, and becomes visible to
  another restore only with a third. Hence the hypothesis `faults <= 2`. That the seal does not refuse it
  after one fault follows from `FewAhead`. The catalogue must have no
  single-setting power tweak, because one crash makes such a journal one that is refused (section 4).
* **SessionsProofs.** `TypeCorrect`; `MutualExclusion` from the invariant that a
  critical process has its handle open and was alone when it took it, and that all
  other open handles belong to refused attempts; `BoostSafe` from the invariant
  that ties the boost mutex, what each process saw of it and the time in the newest ID.
* **BackendClientProofs.** `SidecarOwned` (`NoOrphan`): the host kills the child in the
  step that takes it, starts one only if it has none, and none once it has exited. `ClientsTypeCorrect`.
  `NeverForgotten` (`ConnectedToChild`): when there is no sidecar, a connected window is about to learn it,
  or was stopped by another one, or is in a handshake of which nothing was written, so that it ends in a refusal
  (`LostOrRefused`). `CallsKeepPromise` (`KeepsPromise`): the chain of window, host and sidecar implements
  `RemoteCall`, for any number of windows, calls and processes. What a sidecar has read was asked, an
  answer with success follows the effect (`HandledTrue`, `AnswersTrue`, `ResultsTrue`), and in a turn of a window
  at most one call resolves, for those that wait for a handshake do so one by one (`HandshakeOpen`); so every
  step is one of the promise or a stutter. *The cache:* `CacheTypeCorrect`; `OnlyRacesAreStale` and
  `PendingIsInFlight`, from `CacheInv`: effects stay visible, and a fill that has looked saw all that had
  returned before it began.
* **TweakMarkersProofs.** For the kept backups, `OriginalNotForgotten`, `CommandNeverLost` and `SuccessIsComplete`, from
  `KeptInv`. None of the three is inductive, for between two steps of an operation other programs
  change what it has read. `ServiceWork` and `StartupWork` say, for each step, what of it still
  holds: the backup was written before the change (`BackupTrue`), a command is parked before
  it is dropped and put back before it is unparked. `RestoreWork` says that a restore which has
  not failed has only those backups before it that it set out with.
  For the markers, `MarkerNotForgotten` and `MarkerCanBeUsed`, from `MarkerInv`. What makes it
  inductive: applies and restores of tweaks hold `tweakMu` until they return (`Holders`), so that a
  tweak has at most one backup that can be restored (`OnePerTweak`), and the holder knows which
  (`HolderKnows`); every marker, also one in a store that a call has loaded and not yet saved,
  names an apply that has returned (`MarkersName`). Of a tweak whose child erred after its work, or is
  alone, the invariant only keeps that it is `excused`. `MarkerMove` puts each step into the
  form of what it does to each variable, so that the parts are proved one by one; the
  steps of `KeptBackups` change none of these variables.
* **StorageScanProofs.** `LockHeld`, `CancelIsFinal`, `NoDeletedNodeShown` and `OnlyReviewedGoes`, from `IInv`.
  The steps and states of a scan go together and a cancelled one never completes (`Stages`); what is
  in the cache comes from a walk that completed (`CachedAfter`). Identities are given out in order, so that what was deleted
  never comes back as the same (`Fresh`); a walk sees only what is below its root (`Inside`), which
  rests on what is proved of the tree: of two nodes above a third, one is above the other (`Comparable`). A report
  on its way to the cache shows what was deleted only if it was raced (`WalkUnlessRaced`), and a token
  validated for the bin names the node that was reviewed, with the same entries, unless it was swapped since
  (`ValidatedStays`,
  `ListedStays`).
  `QueueMatchesCache` (`OrderMatchesCache`), from `OrderInv`: the queue has no root twice. What an invalidation leaves of
  it is counted by ranks (`Ranks`, `StillCachedKeeps`).
* **StorageTreeProofs.** `ReportIsRight` (`ReportAddsUp`), `LargestAreFirst` (`LargestFirst`) and `ChannelsSuffice`
  (`NobodyWaits`: a result has room, a directory to hand out finds a waiting worker, and a coordinator that waits
  for a result has one under way), from `Inv`. *Sums.* The report adds with a fold that
  saturates. A sum is taken for the number of its units (`Weight`, the cardinality of the pairs of an index and a number
  up to its value), so that the facts about finite sets carry everything: a sum in two parts, with one value more or
  changed, under other names (`WeightSplit`, `WeightAdd`, `WeightChange`, `WeightRenamed`). `SaturatingSumIsWeight` says
  that the fold is that weight, capped: of the sets of indices on which the two differ, take one of the smallest
  size. *Lists.* Rows of different names each have their rank (`OrderOfRows`), so that a list in order names each row
  once, and the sum does not depend on the order (`SumInAnyOrder`); the row "Other" stands for the rest
  (`SameSums`). *Accounts.* `Sound`: every byte, file and directory counted is in one group by directory and in one by
  extension, whichever limit was met; every kind of visit keeps it (`VisitFileSound`, `VisitDirectorySound`, `SkipSound`),
  and the rows built from it add up (`ChildrenAddUp`, `ExtensionsAddUp`). `Tally`: the counters are those of the
  entries visited, and `largest` has the largest of the files among them (`TopOfMore`). *The walk.* `Waiting`: each directory not
  received yet is in exactly one place, the queue, a worker or the results; `Walked`: what was visited, and
  what the listing still has, are the entries of the directories that were read. When nothing waits, the
  entries visited are closed under being an entry of a readable directory, hence the ones reached
  (`ReachedEntries`; a smallest counterexample again, by `TreeAssumption`), and the totals are exact
  (`FinishedIsExact`).
* **MeasurementsProofs.** For the phase, `StreamsEnded` (`QuietWhenReturned`) and `BudgetKept`, from `LoadInv`: the
  counter is the number of streams that are not done, and the channel is closed only at zero; the units of each stream are
  numbered, so that the total is the cardinality of the units used plus the late ones, and no sum over
  the streams has to be reasoned about. For the advisor, `AdviceIsSafe`, from `AdvisorInv`: a PID is used again only by
  processes created later (`Since`), so that a process found once more after the services were listed
  was the host of what was listed for its PID (`FoundIsHost`). For the benchmarks, `VerdictIsRobust`
  (`VerdictRobust`): the k-th of the ordered values is the one that fewer than k are below and at least k are up to
  (`Kth`), there is only one such (`KthIsOne`), the order does not matter to it
  (`PermutedKth`, hence `PermutedMedian` and `PermutedDeviation`), and a value that more than half of the runs have is the median (`MajorityMedian`).

Only model-checked:

* `RollbackCompletes`, `LocksReleased`, `EverythingSettles`, `HeavyReleased`, `Terminates`,
  `PhaseReturns`: liveness under fairness, out of the prover's reach.

The type invariants of `BackupSeal`, `Transaction`, `Sessions`, `BackendClient` and `CachedClient`
have theorems in place of runs; where the other proofs need types, these are a part of the invariant.

## 6. Plan

1. Done: sealed journal, transaction engine, sessions; sidecar, host and client; cache; markers and
   kept backups; storage; games; updater; latency phase, advisor, benchmarks.
2. Done: every safety property that a run checks, as a theorem. Left: only liveness, which the provers
   cannot reach.
3. Models: the checkpoint marker, the Linux startup entries, the screen's polling of a scan.

## 7. Not modelled

Rendering, translations, command-line parsing, the Windows and Linux inventory
queries, the discovery of installed games, the UDP, TCP and DNS probes, the cleanup of
temporary files and the listing of backups: loops over system calls with no state of their own. The
components and the reasons are in `PROJECT.json`.

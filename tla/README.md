# Silicon: specifications of the monitoring agent

Silicon is a macOS agent that watches the processes, the mounted volumes and
some directories of a machine during an exam, and reports what its policy does
not allow. It only monitors. These modules specify its concurrent and
failure-handling core in TLA+; TLC checks them on small instances, and TLAPS
proves every safety property of them for every instance. `PROJECT.json` lists the
runs, the mutants, the theorems and, under `map`, the lines of the source that
each definition stands for.

Paths below are relative to the repository: `process` is
`src/process/process_enforcer.cpp`, `filesystem` is
`src/filesystem/filesystem_enforcer.cpp`, `config` is
`src/config/config_manager.cpp`.

## 1. Inventory

| Component | State | Operations | Talks to |
|---|---|---|---|
| `ProcessEnforcer` | `worker_`, `running_`, `stop_requested_`, `worker_exited_`, two mutexes with a condition variable each, last statistics | `start`, `stop(timeout)`, destructor, `scan_loop`, `perform_scan` | its worker thread; `ConfigManager` (getters, `isProcessAllowed`); sysctl, libproc |
| `FilesystemEnforcer` | the same handshake; event queue with two flags; `known_mounts_`, `known_path_snapshot_`, `last_volume_resync_`; rate limit and clipboard deadlines | the same, and `fsevents_callback`, `monitor_volumes`, `monitor_paths_from_events`, `monitor_paths_polling`, `run_clipboard_hook` | its worker; the FSEvents dispatch queue, which calls back; file system, notification sink and clipboard behind interfaces |
| `ConfigManager` | the policy members, `config_snapshot_`, `config_path_`, under one shared mutex; the file | constructor, `load`, `reload`, queries | the file; read by both workers and `main` |
| `EnforcementCoordinator` | one enforcer of each kind | `start` (process first), `stop` (filesystem first) | the enforcers |
| `Agent`, `main` | `g_shutdown_requested_`, `g_last_signal_`, life-cycle state | heartbeat loop, signal handlers, start and stop | the coordinator, the signals |
| `Logger` | stream and level under a mutex | `log` | everybody |

What is hard here, and what makes each component correct:

- **Enforcer life cycle.** Any thread may call `start` and `stop` at any time.
  `stop` checks, releases the mutex, stores its flag and notifies without a
  mutex, and then waits with a timeout. So a wake-up can be lost, a timeout can
  race with the exit, two stops can want the same thread handle, and a start
  can come between a stop and its wait. Correct means: one worker at most; no
  `std::thread` destroyed while joinable and none joined twice; flags that tell
  the truth; a `true` answer that can be relied on; a destructor that returns,
  and only when nobody uses the object any more.
- **Volumes and events.** A callback on another thread fills a queue, the
  worker drains it and lists a directory that changes meanwhile; events are
  merged or dropped, listings fail, throw or skip an entry, the clock is set
  back, the stream is closed and opened again. Correct means: no event is
  consumed without a listing begun after it, no volume is reported that was
  neither inserted nor skipped by a listing since it was last listed, and a
  volume that stays is found in the end.
- **Polling of paths.** A walk is not atomic, roots overlap, and a walk may be
  incomplete; an incomplete snapshot becomes the memory of the next scan.
  Correct means: every event is explained by a change or by a path that could
  not be read, and a change that was read is reported exactly.
- **Policy file.** The agent itself writes a default file, in steps a crash can
  separate, beside an administrator who edits it. Correct means: a policy that
  is whole and sane, a raw document that belongs to it, a start that repairs
  what a crash left.
- **Process scan.** The list of processes is asked for in two steps, of two
  interfaces, each of which can fail or lag behind; then processes exit and
  numbers are reused before they are looked at. Correct means: a failure is not
  taken for an empty machine, a process that stays is judged by what it runs,
  the statistics are those of one scan, and a scan ends.
- **Notifications and clipboard.** Both go by a wall clock that can be set, and
  read the policy getter by getter. Correct means: notifications are spaced but
  never silenced for long, and the clipboard is cleared when, and only when, the
  policy says so.
- **Queries.** Several getters around a reload, a reference that outlives the
  lock, and matching by characters. Correct means: no mixed answer is a wrong
  one, the reference stays valid, and a match is one of whole labels and
  components.
- **Start and shutdown.** A signal at any moment, an enforcer that does not start,
  aborts or does not stop in time. Correct means: the program ends, both
  enforcers are asked and joined, and the answer of `stop` is true.
- **Logger.** One critical section per line; what can go wrong is the stream.

`PROJECT.json` lists each hazard at its line, with the properties that would
catch it or the reason why none does.

## 2. Modules

| Module | Models |
|---|---|
| `EnforcerService` | what `process_enforcer.hpp` promises of `start`, `stop` and the destructor: the abstract specification |
| `EnforcerLifecycle` | the handshake of `process` lines 99-259, which `filesystem` repeats (497-664) |
| `FilesystemEvents` | `filesystem`: the callback, the queue, `perform_scan`, `monitor_volumes`, `monitor_paths_from_events`, the stream |
| `PathPolling` | `filesystem`: `snapshot_tree` and `monitor_paths_polling` |
| `ConfigStore` | `config`: constructor, `default_config_path`, `create_default_config`, `load_locked`, `parse_json_locked`; `main` line 58 |
| `PolicyQueries` | extends `ConfigStore` by its readers: `getRawConfig`, the getters of `filesystem`'s `load_monitored_paths`, `match_domain_pattern`, `has_prefix_path` |
| `ProcessScan` | `process`: `perform_scan`, `enumerate_all_pids`, `enumerate_with_libproc`, and `isProcessAllowed` |
| `ScanTimers` | `filesystem`: `emit_notification_if_allowed`, `should_emit_notification`, `run_clipboard_hook` |
| `AgentShutdown` | `main`, the signal handler, `Agent::run`, the coordinator, over two instances of `EnforcerLifecycle` |
| `Logger` | `src/logging/logger.hpp` |
| `EnforcerLifecycleProofs`, `ConfigStoreProofs`, `PolicyQueriesProofs`, `FilesystemEventsProofs`, `PathPollingProofs`, `ProcessScanProofs`, `ScanTimersProofs`, `AgentShutdownProofs` | the theorems about the module of the same name (section 5) |
| `MCPathPolling`, `MCConfigStore`, `MCProcessScan`, `MCScanTimers` | instances for TLC |

A definition named *Mutant* in a comment is a bug that such code plausibly has;
it stands before the definition it would replace, and shows that a property
really depends on it.

### EnforcerLifecycle

Variables are the members of the class, with `wpc` for the position of each
worker in `scan_loop` and `cpc` for that of each caller in `stop` or the
destructor; `grabbed[c]` is the local `thread_to_join`. `owed` and `answer` are
history: the workers that a stop found, and what it returned.

| Action | Code |
|---|---|
| `StartUnconfigured`, `StartRefused`, `StartLaunches`, `StartSpawnFails` | the four ways out of `start` (132-173) |
| `StopNothingToStop`, `StopAsked` | the first critical section of `stop` (184-193) |
| `StoreStop`, `NotifyWorker` | the two statements outside any mutex (195, 196), and those of the destructor (109, 110) |
| `WaitSatisfied`, `WaitBlocks`, `WaitWakesSpuriously`, `TimeoutFindsExit`, `StopTimesOut` | the wait on `lifecycle_cv_`, split where it releases the mutex (198-210) |
| `Joined` | `join` and the return (212-218) |
| `DestroyNothingToStop`, `DestroyAsked`, `DestroyTakes` | the destructor (99-125) |
| `LoopTest`, `ScanReturns`, `ScanAborts` | the loop, and an exception that ends it (236-250) |
| `WaitTest`, `FallAsleep`, `IntervalExpires`, `WorkerWakesSpuriously` | the wait on `wake_cv_`; between the test and the sleep a notification is lost |
| `ClearRunning`, `ReportExit`, `NotifyCallers` | the end of the thread function (252-259) |

A block that holds `lifecycle_mutex_` throughout is one action. The relaxed
atomics are read and written as if sequentially consistent: each decision
hangs on one of them alone, or is ordered by the mutex. The environment obeys
C++: no call on an object that is being destroyed, no destructor during a call.

### EnforcerService

Six variables and no mechanism: `Launch` needs that no worker is in its loop,
`Stopped` (the answer `true`) that the workers found by the call are gone,
`Destroyed` that no thread function is still running. `EnforcerLifecycle`
implements it under the mapping `live` = the workers inside `scan_loop`,
`touching` = the workers whose function has not returned, `pending` = the
callers inside a call.

### FilesystemEvents

`mounts` is the truth, `notices` what FSEvents has still to deliver, then come
the members of the class. `Callback` is one event of a callback; a notice of
dropped events becomes two entries, as in `fsevents_callback` (1156-1160).
`ScanBegins` stamps the time, drains the queue and decides (666-701); a listing
may read its entries at any instant from then on until `MonitorVolumes`, which
ends it: what came or went meanwhile (`moved`) may be in it or not. `Listing` is
`list_directories` when it returns true: an entry of which `is_directory` fails
is skipped (363-370), and nothing tells the caller. `ListFails` is an error that
it returns, `ListThrows` an exception, which ends the loop. History:
`newcomers`, the volumes inserted, or skipped by a listing, since a listing last
contained them; `blind`, those of which the latest listing says nothing: the
ones it skipped, and all of them if it failed or if there was none since the
start; `unreported` and `dropped`. `alerts` is what the last scan reported.
`sinceResync` is the age of `last_volume_resync_` instead of the two absolute
times; `SetClockBack` makes it negative. The queue is a set, since a scan
handles each path once (831-861).

Assumed of FSEvents: each change under a running stream is announced, alone or
by a notice of dropped events; no callback begins after
`FSEventStreamInvalidate` has returned. One that was running then may still put
its event into the queue after the worker has cleared it, and the next worker
finds it there. Which volumes are allowed (`is_mount_allowed`) is fixed at the
start.

### PathPolling

`disk` is the truth, `current` and `known` are the two snapshots; `Absent`
stands for a path that a snapshot lacks. `ReadEntry` and `SkipEntry` visit one
entry of the root that is open, in any order; `RootFails`, `WalkBreaksOff` and
`RootsOver` are the ways in which a snapshot stays incomplete. `Compare` is the
rest of the function (902-953). A fingerprint (size and time) stands for the
contents: a change that keeps both is invisible to the code and to the model.

### ConfigStore

`file` is what lies at `config_path_`: a document, nothing, a directory, or
something `load_locked` rejects. `pc` follows the constructor and `main`.
`Parse` and its helpers are the parsing of one path list, of the list of
ignored paths and of the two kinds of integer, strict and clamped; the other
sections go through the same four lambdas, and
`filesystem_monitor_paths` through the same filter as `protected_paths`.
`GetInt` wraps as `get<int>()` does. Opening a file for writing truncates it,
also for the administrator. `calm` is history: nobody but the agent has touched
the file, and no write has failed, since this start began.
A path is one spelling: with and without a trailing slash it is two paths, and
`Below` says which is a prefix of which.

### ProcessScan

`procs` says which program each number really runs. `AskSize` and `Fill` are
the two calls of sysctl in an attempt, `AskLibproc` and `FillLibproc` those of
libproc. Each call may fail, sysctl may answer nonsense, and between the two
the list may outgrow the buffer: sysctl says so (`TooSmall`, which retries),
libproc fills the buffer and says nothing. `Inspect` looks at one process, in
ascending order, under the policy then in force; `InspectionOver` is the end of
the list or a stop request. The values of errno are reduced to `EPERM`, which the
statistics count, `EIO` for the others, and `ENOMEM`. History: `stayed`, what a
number has run without a break since the scan began; `rules`, the policies in
force since then; `listing`, how the list was obtained; `reported`.

### ScanTimers

Two absolute times and a clock become differences (`noteAge`, `left`,
`stampAge`), which stop growing where no adjustment still to come could change
what they decide. `ScanBegins` takes the time stamp that the hook compares with
at the end of the scan; each getter of the policy is a step of its own where
the order matters (`HookBegins`, `ReadDebugMode`). The getters have the same least
values as the functions that resolve the intervals, so the default for a value
of zero or less is dead code and is not in the model.

### PolicyQueries

`ReadProtected`, `ReadMonitorPaths`, `ReadIgnored` are the three getters of
`load_monitored_paths`; `slot[r]` is the `thread_local` variable in `getRawConfig`
and `ref[r]` what the latest returned reference points into: the present
snapshot, or a past one that only a slot keeps alive. `MatchDomainPattern` and
`HasPrefixChars` follow the code character by character, because what they
decide hangs on single characters. A path that does not exist when it is
normalised keeps the slash it may end with, so `NormalPaths` contains both
spellings; `Stem` is the directory either of them names.

### AgentShutdown

`mpc` follows `main` from before the handlers are installed to its return; its
calls to the two enforcers are the actions of two instances of
`EnforcerLifecycle`, whose only caller is `main`. A signal before
`install_signal_handlers` kills the program; later its two stores, which are
relaxed, reach `main` in either order (`Store`). The types of the variables of
each instance are those that the run `lifecycle` checks. The members of the coordinator
are destroyed in reverse, the filesystem enforcer first. The heartbeat is kept
as a sleep that ends (`NapOver`, one second at most); `state_` has no reader.

### Logger

A line is formatted by its thread outside the mutex (`Log`) and written under it
(`WriteLine`). An `ofstream` that could not write stays open with its error flags
set: `failed`.

## 3. Runs

| Run | Checks | Instance | Distinct states |
|---|---|---|---|
| `lifecycle` | `TypeOK`, `LifecycleInv`, `NoThreadLost`, `AtMostOneWorker`, `RequestOutlivesWorker`, `KeepsPromise`, `WorkerHeedsStop`, `DestructorReturns`, `StopReturns` | 2 callers, 2 workers | 66 126 |
| `lifecycle_start_refused` | violates `StartRefusalMeansRunning` | 1 caller, 2 workers | |
| `events` | `TypeOK`, `NoFalseAlert`, `QuietMeansKnown`, `QuietMeansReported`, `MountIsFound` | 1 volume (allowed or not), 1 file, the clock set back once | 860 670 |
| `events_dropped` | violates `DroppedMeansRescanned` | 1 volume, 1 file | |
| `polling` | `TypeOK`, `MemoryIsExplained`, `EventsAreReal`, `ChangesAreReported` | 2 paths, 2 contents, 2 overlapping roots | 122 377 |
| `polling_phantom` | violates `DeletedMeansTouched` | the same | |
| `config` | `TypeOK`, `PolicySane`, `SnapshotAgrees`, `StartRepairs`, `CalmStartKeepsDoc`, `MonitoredPathsAgree`, `ReferenceStaysAlive`, `DomainsByLabels`, `PrefixByComponents` | 3 documents and the default, 5 paths, integers of 4 bits, 2 readers; strings of up to 4 characters | 2 334 |
| `config_default_path` | violates `DefaultIsCreated` | the same, without a path argument | |
| `process_scan` | `TypeOK`, `NoListIsAnError`, `StayersAreJudged`, `ScanEnds` | 2 process numbers, 3 programs, 2 policies, 3 attempts | 408 500 |
| `timers` | `TypeOK`, `SilenceIsShort`, `SpacedNotifications`, `ClearIsLicensed`, `NoHastyClear`, `HookServes` | 3 policies, limits and intervals of 1 and 2 ticks, the clock set once, by 3 | 515 994 |
| `shutdown` | `NoWorkerOutlivesMain`, `StopAnswerTrue`, `SignalEndsProgram` | 2 signals, 2 enforcers | 71 140 |
| `logger_silent` | violates `LineIsWritten` | 2 threads, 1 path | |

What they show beyond the names:

- `KeepsPromise` is a refinement: the handshake implements `EnforcerService`.
- `NoFalseAlert` is about the step that reports: a listing that races with what it
  lists, a resync, a failed listing, a restart and the first listing of all
  report nothing by themselves. What it has to allow is the repeated report
  after a skipped entry (section 6).
- `QuietMeansKnown` says nothing of the volumes in `blind`. After a start
  `known_mounts_` is that of an earlier worker until something asks for a listing:
  an event, or the resync; with an unreadable volumes root, or an entry that
  cannot be read, the memory is as good as the last listing was.
- `PrefixByComponents` says for both spellings of a directory what is below it,
  also where that surprises: `/a` is not below `/a/`.
- `MonitoredPathsAgree`: the three lists that `load_monitored_paths` reads may come
  from three policies, and yet nothing the last of them ignores is returned,
  because the function filters again what the parser has filtered already.
- `StayersAreJudged` says both that a complete scan misses no process that ran a
  forbidden program throughout, and that no scan accuses one that did nothing
  forbidden; reused numbers and reloads are allowed for.
- `SilenceIsShort` and `SpacedNotifications` together bound the rate from both
  sides, in real time, with a clock set in either direction.
- `HookServes` needs that the hook does not move its deadline at every scan, that
  a policy switched back and forth forgets it, and that a clock set back only
  delays it.
- `NoWorkerOutlivesMain` and `SignalEndsProgram` rest on the destructors: nothing
  is assumed of the timeouts of `stop`, which may all expire.

Why the bounds are enough:

- Two callers stop the same worker, or one stops and one starts again in
  between; what a third adds is checked by the proofs, which hold for any
  number. Two workers are one restart; a third meets the same code as the
  second (all flags are reset).
- The one volume is allowed or not (both are initial states), and present at
  first or not. It is inserted, removed and skipped any number of times; the
  resync interval is one tick, due before, during or after each listing. `MaxBackSteps` bounds the settings of the clock. Volumes do not
  influence each other but by the shared flag, which the file sets as well.
- Two overlapping roots give a path read by both, by one or by none; the
  number of scans, restarts and changes is not bounded.
- The documents contain a path inside an ignored one, the ignored one itself, a
  rejected path, missing sections, values below a minimum, and values that wrap
  to a valid and to a negative integer. Crashes and edits are not bounded.
  Patterns and domains of up to `MaxLength` = 4 characters contain a label that
  only ends like another, an empty label, and a wildcard in each position; for
  longer ones there is the proof.
- Two numbers let one process exit, and its number be reused, while the other
  is inspected, and let the list outgrow its buffer (`Slack` = 0). The three
  programs are one blocked by its path and allowed by its name, one inside an
  ignored directory, and one whose path may not be read. Reloads, scans and
  processes are not bounded.
- The clock jumps (`Jump`) by more than any interval, once (`MaxAdjusts`), at any
  moment, and a scan takes up to a tick (`MaxScan`). What a second adjustment
  does to a deadline or a stamp is what the first does.
- Each signal is delivered once; of a third the handler would store the same.

No run turns the deadlock check off: after its destruction an object, and after
its end the program, stutters by an explicit disjunct; the others never stop.

## 4. Fairness

- `EnforcerLifecycle`: weak fairness of what a call in progress does next
  (`Proceed`) and of what each worker does next (`Work`): threads are scheduled, a
  scan returns and a timed wait ends. No fairness for the timeout of `stop`, so
  the liveness results do not lean on it, nor for new calls.
- `FilesystemEvents`: weak fairness of the worker and of time; strong fairness,
  for each volume, of a listing that does not skip it, which says that the
  volumes root is not unreadable for ever and that no entry is skipped each time. Delivery of notices is *not* fair: the resync alone must find a volume.
- `ProcessScan`: weak fairness of the scan. That its retries end follows from
  their bound, not from fairness: processes may start between any two calls.
- `ScanTimers`: weak fairness of time and of the worker; strong fairness of
  `HookBegins`, because a scan has finitely many events to report and then runs
  the hook, while the model would let it report for ever.
- `AgentShutdown`: weak fairness of `main`, of each worker, and of the visibility
  of a relaxed store. None of the timeouts, of aborts or of signals.

## 5. What is proved

Every invariant and every safety action property that a passing run checks is
also a theorem, for all values of the constants that satisfy the assumptions of
the module. Each follows from an inductive invariant, proved one action at a
time; those below named `...Inv` were checked by TLC before they were proved.

### Enforcer life cycle

`EnforcerLifecycleProofs`, for any sets of callers and workers, from the one
assumption `NullAssumption` (the null values are not threads or callers):

- `TypeCorrect`: `Spec => []TypeOK`.
- `LifecycleInvariant`: `Spec => []LifecycleInv`. `NoThreadLost` and
  `AtMostOneWorker` are not inductive alone. That `start` may
  launch depends on `worker_` being empty *and* on the flags telling the truth
  about the workers (`ExitedFlagTruthful`, `RunningFlagTruthful`); that a
  caller may empty `worker_` depends on `worker_exited_`, which a worker raises
  before its function has returned, so the invariant tracks who holds each
  thread until it is joined (`GrabbedIsLeaving`); the destructor takes the
  handle of a running worker, which is safe only because nobody else is in a
  call (`DestructorAlone`). Together with `TypeOK` the conjunction is inductive;
  the run `lifecycle` checks it too.
- `OneWorker`, `NoTerminate`, `RequestsAreKept` follow from it.
- `Implementation`: `Spec => KeepsPromise`, the refinement of
  `EnforcerService`, one step per action. `OwedHaveLeft` is the part of the
  invariant that it needs: a stop about to answer `true` has seen its worker go.

### Start and shutdown

`AgentShutdownProofs`, for any signals, from `SignalAssumption` and
`ThreadAssumption` (null values again):

- `EnforcersWellUsed`: `Spec => PL!Spec /\ FL!Spec`, where `PL` and `FL` are the
  life cycles, with their lemmas, of the two enforcers. Each action of the
  agent is a step of one and a stutter of the other, or of both. What has to be
  shown is that `main` obeys the rules of C++ for each object, which is how the
  guards of `start`, `stop` and the destructor come to hold.
- `EnforcersKeepPromise` and all the theorems of the life cycle carry over.
- `NoWorkerLeft`, `StopTellsTruth`, from `AgentInv`: while `main` waits in a
  `stop`, each live worker is one that the call found (`Answering`); a `true`
  stays true, since nothing is started between `stop` and the destructors.
  `mpc` says which destructors have not begun and which have returned; that a
  destroyed enforcer has no worker left is `DestructorAlone`.

### Volumes and events

`FilesystemEventsProofs`, for any volumes, files, resync interval and bounds,
from `InputAssumption` (the volumes root and its parent are distinct and are
not files) and `BoundAssumption` (the bounds are naturals, the interval is not
zero):

- `EventsTypeCorrect`: the types.
- `AlertsAreInsertions`, from `AlertsInv`: what the next comparison can find
  new, because it is mounted or may be in the listing under way, is a newcomer.
  So is a volume that came during the listing under way, whether or not that
  listing contains it, since the next may disagree. `AlertsAreOwed` takes the
  step that reports from there.
- `QuietVolumes`, from `KnownInv`: except for what is in `blind`, what is
  remembered is what is mounted, or a listing is due without the help of the
  resync: by a notice on its way or a flag set. A listing that missed a move
  leaves the notice of that move behind it, which is why the order of *drain,
  then list* matters.
- `QuietFiles`, from `ReportedInv`: a change not reported is a notice, or
  queued, or in the hands of the worker, or was dropped by the system.

### Polling of paths

`PathPollingProofs`, for any tree, fingerprints and sequence of roots, from
`RootAssumption` (the roots are directories whose entries are paths):

- `PollingTypeCorrect` needs `WalkInv`: during a walk the index is that of a root.
- `MemoryCorrect`, from `SnapshotInv` (the new snapshot holds a path that was
  read as it is, until it is touched again, and nothing of a path not read) and
  `MemoryInv` (the same of the remembered one, over two scans).
- `ReportsAreReal` and `ReportsAreComplete`: no phantom and no miss, from the same
  invariant and from what a comparison of snapshots contains.

### Process scan

`ProcessScanProofs`, from `ScanAssumption` (a finite, non-empty set of positive
numbers, a positive number of attempts, distinct null values):

- `ScanTypeCorrect` says that the statistics count each process once. It is
  inductive only with `CountInv`: what was counted is not among the processes
  still to be inspected. `LeastIsListed` (the smallest of a set of numbers is one
  of them) is what keeps the loop inside its list.
- `FailedListIsAnError`, from `ListInv`.
- `ReportsAreJust`, from `StayInv` and `JudgedInv`: of each process that has stayed
  since the scan began, a report has a reason in the policies in force since
  then, and one with reason enough is reported or will still be inspected. The
  two policies that one inspection reads from may differ; both are in `rules`.

### Notifications and clipboard

`ScanTimersProofs`, from `TimerAssumption`: a finite set of policies with natural
limits and intervals, a positive least limit and interval, a positive jump.
`LongestLimit` and `LongestInterval` get their maximum from the well-founded
order of the finite sets.

- `TimersTypeCorrect`, from `TimesInv`: each difference is within the longest
  interval and what the clock was set back *so far*; with the bounds of `TypeOK`,
  which speak of all adjustments, it would not be inductive.
- `SilenceEnds`, from `NoteInv`: the ticks refused are paid for by the time passed
  since the last notification, and each adjustment by at most one longest limit.
- `NotificationsSpaced`, from the same: unless the clock was set, the real time
  is the measured one.
- `ClearsAreLicensed`, from `RulesInv`: what the hook has read, some policy since
  it began has said.
- `ClearsAreSpaced`, from `QuietInv`: the deadline lies at least the least interval
  after the beginning of the quiet time, measured by the stamp the scan took
  when it began.

### Policy file and queries

`ConfigStoreProofs`, for any documents, paths and integer width, from the three
assumptions of `ConfigStore` (distinct null values, defaults not below their
minimum, integer sections that are integers or bad):

- `ConfigTypeCorrect` and `SnapshotAgreement`, from the invariant `ConfigInv`. It
  adds that nothing has been loaded while the default is being created, which
  is why a failed write, that resets the policy and not the snapshot, leaves
  the two in agreement.
- `PolicySanity`: from lemmas about `ReadInt`, `ReadIntClamped` and `Parse`, for
  every document.
- `CalmStartKeeps`: `Spec => CalmStartKeepsDoc`, from `NoDocWhereWritten`: while
  nobody disturbs a start, no document of an administrator is there when the
  program is about to write.
- `StartRepair`: `Spec => []StartRepairs`, for a program that was given a path
  (`~DefaultPath`; without it the property is false, see section 6). The
  invariant `FileOfCalmStart` says what a calm start knows of the file at each
  step: truncated while it writes, the default before it loads again, a
  document once it is constructed.

`PolicyQueriesProofs`, for any number of readers and any characters, from
`CharAssumption` (the dot, the star and the slash are among the characters; the
dot is not the star):

- `QueriesOnlyRead`: `QuerySpec => Spec`, the store with readers refines the store;
  `StoreBehindReaders` carries the results about the store over.
- `MonitoredAgreement`, from `ConfigInv` and `ListInv`; `FilteredAlready` says that
  the parser has filtered the protected paths of every policy.
- `ReferencesLive`, from `SlotInv`: a reference points into the snapshot that its
  own thread keeps alive.
- `PrefixMatching` and `DomainMatching`: the comparisons of characters are those
  of components and labels, for strings of any length (`MaxLength` is any
  natural). Nothing in the code is recursive there, so no induction is needed:
  the lemmas follow an index through `SubSeq` and `\o` in both directions
  (`StemShape`, `RestIsNormal`, `ConcatIsBelow`, `WildcardShape`, `WildMatches`).

### Only model-checked

Liveness: `WorkerHeedsStop`, `DestructorReturns`, `StopReturns`, `MountIsFound`,
`ScanEnds`, `HookServes` and `SignalEndsProgram` rest on fairness and `ENABLED`, which
are out of the prover's reach. `StartRepairs` for a program without a path has no
theorem because the run `config_default_path` refutes it. The five properties
that the code violates (section 6) are counterexamples found by TLC.

## 6. Where the code differs from what it says

- **A refused start** (`lifecycle_start_refused`). After a scan threw, or a `stop`
  timed out, `start` is refused as "already running" until somebody calls `stop`.
- **Dropped events** (`events_dropped`). Only the volumes are listed again; the
  glossary of the file asks for a full rescan.
- **Phantom deletions** (`polling_phantom`). An incomplete snapshot makes paths
  look deleted, and created again by the next scan.
- **A directory for a file** (`config_default_path`). The default path is created
  as a directory, so no default file is ever written.
- **A silent logger** (`logger_silent`). After one write that failed the stream
  stays open and failed, and every later line is dropped until `set_log_path` is
  called again; the feature list of the file promises that a line is written
  instantly.

Met while modelling, and not runs of their own:

- The notification of `stop` can fall between the test and the wait of the worker,
  since neither the flag nor the notification is under `wake_mutex_` (195-196 of
  `process`); the worker then sleeps its interval (10 s by default) and a `stop`
  with a shorter timeout fails. The model contains it: `WorkerHeedsStop` and
  `SignalEndsProgram` hold in spite of it, by the end of the interval.
- An entry of the volumes root that cannot be examined at one moment is left out
  of a listing that counts as successful (363-370 of `filesystem`), and of
  `known_mounts_` with it (793): the next listing that reads it reports a volume
  as new that was there all the time. `NoFalseAlert` allows for it. In the
  same way an entry that the first listing skips is missing from the baseline.
- A volume removed and inserted again between two listings is in both, and is not
  reported a second time: by the design of a comparison of listings (754 of
  `filesystem`).
- A path of the policy that does not exist when it is loaded keeps its final
  slash (`weakly_canonical` only resolves what exists), and then does not cover
  the directory itself, spelled without it, once it exists (817-820 of `config`);
  what is inside is covered.
- After a restart `known_mounts_` is not renewed before an event or the resync asks
  for it: a volume inserted while the stream was closed is reported that late.
- A document that an administrator completes between the failed load and the
  creation of the default (189-192 of `config`) is overwritten; this is why
  `CalmStartKeepsDoc` is about a start that nobody disturbs.
- The clipboard hook can clear although neither the policy before a reload nor
  the one after it would have: one asks for it in debug mode, the other is not in
  debug mode and does not ask. `ClearIsLicensed` says what is left. In the same
  way `is_mount_allowed` can mix the volumes of one policy with the prefixes of
  another. `reload` has no caller in the agent yet.
- The clipboard deadline has no case for a clock set back, as the rate limit has:
  it is put off by as much.
- A size from sysctl that is zero or no multiple of an entry (379 of `process`)
  ends the scan with an empty list and no error; a list of libproc may be cut
  at the size it was first told. A failed enumeration publishes statistics of
  zero processes.
- `normalize_path` makes every entry of `system_paths_to_ignore` absolute, so the
  comparison of bare names in `should_ignore_process` (560) is dead.
- A worker that an exception has ended is noticed by nobody until `stop`.

## 7. What is not modelled

The wording of logs and notifications, `sanitize_for_log` and time stamps: no
decision depends on them. The bytes of JSON, of paths and of sysctl buffers: a
document is a record, a path a value. The lifetime of Core Foundation objects.
`resolve_scan_interval` of both enforcers: an interval is any finite time in
the models. `is_mount_allowed` beyond its answer. Of the events of one scan only the
first 32 are logged each (846, 935 of `filesystem`), by both ways of monitoring;
what lies beyond is counted in the statistics, so *reported* in these models
means logged or counted. An exception out of `isProcessAllowed` (326-328 of
`process`), which only a failed allocation or lock can throw: the process would be
counted as checked, and skipped. The tests and the build files,
which were read for what they say of the program.

## 8. Plan

Every component is modelled and every safety property that is checked is proved.
What is left:

1. An abstract specification of the volume watcher (a volume inserted is reported
   once, or dropped with a failed listing), with `FilesystemEvents` shown to
   implement it as `EnforcerLifecycle` implements `EnforcerService`.
2. The same for the store: a start as one atomic step between two crashes.
3. What the volume worker promises across a `stop` and a new `start`, by composing
   `FilesystemEvents` with `EnforcerLifecycle`, which today share the handshake
   only by construction.

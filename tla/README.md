# Verification of the Vadana class bot

The program enters online classes on the Vadana site by itself. A desktop
window lets a user enter a class now or queue it; a worker process takes due
classes from a SQLite queue, drives Chrome through login, course page and class
link, hands over to Adobe Connect, and leaves the meeting when the participants
say farewell. This directory models those parts in TLA+, checks them with TLC on
small instances and proves their safety properties, and some of their liveness, for
instances of any size, with TLAPS.

Paths are relative to the repository; the Python package is `src/`.

## The system

| Part | Code | State | Operations | Talks to |
|---|---|---|---|---|
| schedule store | `src/scheduling/schedule_store.py` | one SQLite table | create, cancel, claim_due, finish, retry, recover_stale; each one transaction | worker, window, configuration manager |
| scheduler worker | `src/scheduler_worker.py` | OS lock, the job in hand | tick: recover, claim, execute; retry or give up | store, executor, heartbeat file |
| executor | `src/scheduling/executor.py` | none | run_schedule, should_retry | configuration, credentials, automation |
| class flow | `src/browser/automation.py`, `src/sites/vadana_sum39.py`, `src/browser/adobe_connect.py` | browser, page, stop event, result | login, open course, click class link, launch Adobe, monitor, hold, clean up | site, Chrome, Windows |
| farewell monitor | `src/browser/meeting_end.py` | deadline | read the chat, decide, wait | the meeting's page, stop event |
| Adobe processes | `src/browser/meeting_end.py` | pids of the first listing | list, kill the process tree of each new pid | Windows |
| window | `src/ui/main_window.py`, `src/utils/logger.py` | flow thread, stop event, log queue, buttons, selected class | clicks, log poll, removing the browser session | flow threads (shared event, queue and session directory) |
| schedule form | `src/ui/schedule_frame.py` | delay fields, preview, id it saved last, label | type a delay, save, health thread | store, worker task |
| configuration | `src/config/manager.py` | `config.json` | load with migration, save | window, worker, store |
| worker health | `src/scheduling/worker_runtime.py`, `worker_task.py` | lock file, heartbeat file, the task's registration | acquire, probe, beat, verify, register, start, ensure running | worker, window, Task Scheduler |
| times | `src/scheduling/time_utils.py`, `models.py`, `manager.py` | none | effective run, next run, clock conversion, rows to local times and back | legacy records, form, store |

What is hard: three kinds of processes share a database, a file and a lock;
threads of the window share an event and a queue with it; a flow lasts hours
and may be stopped between any two of its steps; a worker may die between a
claim and its result; Windows, the site and the participants answer anything.
`PROJECT.json` lists each such hazard at its line with the properties that
would notice it.

### Not modelled

- `profile_lock.py` and `schedule_lock.py`: nothing that the program runs imports them
  (one test does), so no behaviour of the system depends on their check-then-write. That
  the README promises them all the same is the divergence `OneFlowPerProfile` below.
- `ScheduleEditorDialog` (no module opens it), class presets (constants),
  notifications (output only), `.bat` files and the smoke-test script.
- Entry points `main.py`, `app.py`, `bot.py`: they start the window, report errors, or
  register the task once, which `WorkerHealth` has as an initial state.
- Credentials: one keyring call per operation; its results are choices. So the
  window's `delete_saved_password` and the password half of `save_config` are left out,
  as are `clear_log` and `_on_close`, which touch widgets only.
- `remove_legacy_tasks`: which tasks earlier versions left in Windows is not known to
  this program, and no other part looks at them; it counts only as a call of `register`
  that may raise.
- Locators, screenshots, diagnostics, log texts, the validation of times and URIs.
  `open_site` and `login_to_site` are seen from the window only, as threads.

## Modules

| Module | Models | State |
|---|---|---|
| `ScheduleStore` | every method that writes the table, as one atomic step each | `table`, `now` |
| `SchedulerWorker` (extends it) | `main`, `run_forever`, `tick`, `execute`, with crashes and database faults | `lock`, `pc`, `job`, `session`; ghosts `joined`, `incidents` |
| `ClassQueue` | abstract: what the scheduler promises about a job | `phase`, `tries`, `limit` |
| `FullFlow` | `login_and_enter_class` with adapter and launcher | `stage`, `page`, `opened`, `stop`, ... ; ghosts `clicked`, `joins`, `late` |
| `ClassFlow` | abstract: what the worker relies on in a flow | `place`, `failure`, `session` |
| `FarewellMonitor` | extraction, consensus and the polling loop | `chat`, `polls`, `outcome`; ghost `earlier` |
| `AdobeProcesses` | `snapshot` and `close_new`, with the process trees of `taskkill /T`, against processes that start others and reuse pids | `running` (with each process's parent), `before`, `targets`; ghosts `failed`, `blind`, `orphan` |
| `MainWindow` | buttons, cards, flow threads, stop, log poll, removing the session | `threads`, `stopEvent`, `queue`, `enabled`, `session`, `asking`, ... |
| `ConfigFile` | `load` with the migration, `save`, applying to and saving from the form | `file`, `rows`, `place`, `copy`, `todo`, `form`; ghost `unfilled` |
| `WorkerHealth` | lock, probe, heartbeat, `ensure_scheduler_worker_running` with each of its calls, Task Scheduler, the thread of a save | `lock`, `worker`, `byTask`, `heartbeat`, `registered`, `restart`, `check`, `polling`, `row`, `told`; ghost `met` |
| `TimeUtils` | the way of a legacy record, or of a typed delay, to its row and to the time that is listed | `schedule`, `change`, `now`, `preview`, `effective`, `next`, `row`, `listed` |
| `ScheduleStoreProofs`, `SchedulerWorkerProofs`, `FullFlowProofs`, `MeetingEndProofs` (`FarewellMonitor`, `AdobeProcesses`), `MainWindowProofs`, `ConfigFileProofs`, `WorkerHealthProofs`, `TimeUtilsProofs` | theorems | |

How they fit together: `SchedulerWorker` extends `ScheduleStore` and calls its
actions, so a step of the worker is a step of the store plus what the worker
does around it. Inside `SchedulerWorker` a flow is seen only by how it ends;
`FullFlow`, started by the worker, implements exactly that view, `ClassFlow`. Its
actions are the flow actions of `SchedulerWorker` one by one, which is proved in both
directions (`FlowsFollowClassFlow`, `EveryClassFlowIsCovered`), so the theorems about the
worker hold of one that runs the whole flow. In the same way
`MainWindow` sees a flow only as a thread that works, holds a page, logs its end
and dies. `WorkerHealth` sees a worker only as a process that starts, holds the lock and
dies, which is how `SchedulerWorker` starts (`Start`) and crashes (`Crash`). `ConfigFile` and
`TimeUtils` are two views of the migration: which records are imported, and when
what is imported runs.

Windows is part of two modules. `WorkerHealth` has what `build_worker_task_xml` asks
of Task Scheduler: a start at logon, one instance at a time (`IgnoreNew`), and a restart
of an instance that crashed but of none that exited with code 0. A worker started by
`_detached_start` is outside all that. `TimeUtils` has the local clock, which is set once,
forward or back, at some moment: a local time may be skipped or shown twice.

Names follow the code: an action is a method or a stretch of one between two
points where another process, thread or fault may come in between. The
transactions of SQLite are single steps, because they are `BEGIN IMMEDIATE` or
one autocommitted `UPDATE`. `store.get` and `store.create` in the migration are
two transactions, so they are two steps. A definition marked "Variant" is not part of
any specification: it is the plausible mistake next to the definition it
precedes, and replaces it when the power of a property is tried.

Abstractions. Columns that no query reads again, log texts, locators, screenshots
and layout are left out. A class of the queue is one value for profile and class name. A name in
the chat has a normal form; whether a text is a farewell is a choice per
message. Times of the flow are only an order of steps; the clock of the store
stands still once every pending row is due and every running row is stale,
because the code compares times in no other way.

## Runs

Passing runs (TLC, breadth first, complete):

| Run | Bounds | Distinct states | Shows |
|---|---|---|---|
| `SchedulerWorker` | 2 jobs of one class, 2 workers, 2 attempts, 2 incidents, stale after 1 tick | 1.85 M | `ExecutorOwnsItsClaim`, `OneFlowAtATime`, `AttemptsBounded`, `RunningRowsAreStamped`, `RejoinOnlyAfterIncident`, `SettledIsFinal`, `RunningLeftByOwner`, refinement `ImplementsQueue` |
| `SchedulerWorkerLive` | 2 jobs, 1 worker, 1 incident | 0.7 M | `EveryJobSettles`, given that a worker is started again whenever none is left |
| `FullFlow` | 3 courses, one name part of another and one of neither, a dashboard that can be relied on or not, every configuration, 2 polls per wait | 116 k | `SuccessMeansClicked`, `LateActsBounded`, `EntersRequestedCourse`, `ClosedOnlyForCause`, `StopReleases`, `FlowComesToRest`, refinement `ImplementsClassFlow` |
| `FarewellMonitor` | 4 names (two spellings of one, one blank), 4 messages, window of 3, 3 polls | 137 k | `ClosesOnFarewellTail`, `MonitorEnds` |
| `AdobeProcesses` | 3 pids, 4 started processes, either listing and any kill may fail | 100 k | `StopsOnlyLater`, `LeftoversExplained` |
| `MainWindow` | 2 classes, 3 flows | 24 k | `OneFlowPerWindow`, `SessionClearedAtRest`, `StopIsNotWithdrawn`, `StopEndsRun` |
| `ConfigFile` | window and worker, 3 legacy schedules (with id and date, without date, without id), 2 faults | 370 k | `ImportedAtMostOnce`, `ImportNotLost` |
| `WorkerHealth` | 2 worker processes, 2 checks, whose calls may raise | 488 k | `RunningHoldsLock`, `TaskWorkerComesBack`, `SaverIsTold`, `HealthyMeansWorker` |
| `TimeUtils` | hours of two minutes; records of every day and time of a week, early by -3 to 100 minutes; delays of up to 25 hours; a clock set by an hour forward, back, or not | 425 k | `RunsBeforeItsClass`, `RunsAfterItsDelay`, `ListedAsComputed` |

Each run also checks one type invariant, except `SchedulerWorkerLive` (the
same module as `SchedulerWorker`) and `TimeUtils`.

Why the bounds are enough for what they are about. Two jobs and two workers make
every pair of actors meet; two attempts give a first, a last and a refused
retry; two incidents allow a fault during the recovery from a fault; `StaleSeconds = 1`
lets a flow be far older than the limit, which is the case for every real class.
`FullFlow` needs two looks at a wait to tell "not yet" from "never", and three
courses: the requested one, one whose name contains it, which the check of the heading
lets pass after a wrong link, and one that it must stop. Four started processes on three
pids are enough for a parent that ends, a child that stays, and a later process that gets
the parent's pid and is killed with the child in its tree. A window of three below four messages makes the
extraction cut. Three started flows are needed for a message of the first to meet the
second while a third starts. Hours of two minutes keep the arithmetic over
midnight and let TLC visit a whole week; a delay of 25 hours is one with days, and the
moments are the ones right before and after the clock is set, and some far from it. Two
worker processes are one that dies and one that follows it. `SchedulerWorker`
uses symmetry of jobs and workers, `AdobeProcesses` of pids; no liveness run does.

`CHECK_DEADLOCK FALSE` stands where the program really stops: a flow that is
done, a monitor that has returned, a window with `MaxRuns` used up and nothing to
do, a computed time.

### Fairness

- Worker: weak fairness of the loop of a worker that was started, and of the clock. Every
  wait of the flow has a timeout, and `run_forever` survives every exception. Nothing is
  assumed of `Start`: Windows restarts only an instance of its task that crashed, not a
  worker that was started directly or that exited with code 0. That somebody (the task, a
  logon, a save) starts a worker again whenever none is left is therefore a premise in the
  formula, `WorkersKeepComing`, of `EveryJobSettles` and of `DueJobsStart`. Closing a page that is held open has no timeout; its fairness is added by `FairSpec` only,
  and is an assumption about the user: `DueJobsStart.cfg` shows that without it a due
  job may wait for ever.
- Flow and monitor: weak fairness of the flow's own next step; never of the user
  or the stop event.
- Window: Tk's timer, a flow's end, a hold's look at the stop event, a thread's
  end. Nothing is assumed of clicks.
- Health: a check's thread goes on (`subprocess.run` is called without a timeout: that
  `schtasks` answers in the end is part of this), and strong fairness of giving up: between two
  looks the deadline is tested again and again, and time does pass it. A process that
  was started gets to its lock, and Windows keeps its `RestartOnFailure`. Nothing is assumed
  of logons, saves, or of a worker living on.

That a fair step is possible where its guard says so is a predicate of its own:
`NobodyStuck` (`WorkerHealth`), `FlowNeverStuck` (`FullFlow`) and `NoThreadStuck`
(`MainWindow`) are made of ENABLED. They are the hypotheses of the liveness theorems below.
TLC evaluates them in every reachable state of the same instances as the runs:
`tlc -config WorkerHealthNobodyStuck.cfg MCWorkerHealth`, and likewise
`FullFlowNeverStuck.cfg` and `MainWindowNoThreadStuck.cfg`; all three pass.

### Runs that end in a violation

| Run | The code | The text |
|---|---|---|
| `ActionsComeBack` | `_poll_logs` waits for `WORKER_FINISHED`, `log` puts a time before it: the buttons stay disabled after the first flow | `main_window.py:482` "Keep conflicting actions disabled while leaving Stop usable." |
| `LoadingKeepsSettings` | `_apply_config` selects the class, `select_class` saves the form before its switches are set: loading resets settings of the file | `main_window.py:328` "Load settings from config.json and password from keyring." |
| `ReleasedBeforeNextClass` | after a monitor timeout, or without auto-close, the Playwright session is not stopped when the job is recorded | `executor.py:47-48` "... then releases Chrome/Adobe before the worker accepts another class" |

`SessionClearedAtRest` (and `RunningLocksActions`, which is proved) holds partly because of the
first of these: once a flow was started, the button that removes the session is
disabled for good. With messages that match, a late message of one flow would unlock the
buttons of the next, and the session could be removed under it (that is the variant
`LoggedPlain`), so a repair has to name the flow in the message. The property is about flows of the window.
A flow of the worker has a directory of its own, `browser-session/scheduled/<profile>`
(`executor.py:50`), which the removal leaves alone while the window's directory is
`browser-session/vadana-sum39`; in a window whose profile name lacks the word that
`main_window.py:267` looks for, it is `browser-session`, with the worker's inside, and then
nothing keeps the removal from a flow of the worker.

### Further divergences

Met while modelling; each has a property in its module and a configuration that
makes TLC show it (`tlc -config <name>.cfg <MC module>`).

| Configuration (MC module) | The code | The text |
|---|---|---|
| `DueJobsStart` (MCSchedulerWorker) | jobs run in the worker's one thread, a held page blocks the queue | `README.md:185`, due schedules run in an independent thread |
| `OneFlowPerProfile` (MCMainWindow) | window and worker may both be in a flow; no lock is taken | `README.md:185`, a lock per schedule and profile |
| `EntersTheSelectedClass` (MCMainWindow) | "start" enters the class of the schedule saved last, not the selected one | `main_window.py:216` "Select exactly one fixed class" |
| `TimeoutMeansNoEntry` (MCFullFlow) | a second click that fails after the first opened the meeting late goes on to the timeout | message at `vadana_sum39.py:298` |
| `NotInstalledKeepsBrowser` (MCFullFlow) | without keep_open the refused status closes the browser | `README.md:203` |
| `MonitorsTheMeeting` (MCFullFlow) | when the tab shows late, the old tab is monitored | `meeting_end.py:108` |
| `FarewellMixedMarkup` (MCFarewellMonitor) | with two kinds of message markup the extracted order is not the order of the chat | `meeting_end.py:53-54` against `:116` |
| `ConsensusIsCurrent` (MCFarewellMonitor) | farewells shown from an earlier meeting close a new one | `meeting_end.py:53` |
| `EveryoneSaidFarewell` (MCFarewellMonitor) | two farewells are enough, whoever else spoke | `meeting_end.py:47` |
| `SnapshotFails` (MCAdobeProcesses; `StopsOnlyCreatedAfterward`) | a failed first listing counts as no processes, so older ones are ended; and `/T` reaches an older process whose parent's pid was given to a later one | `meeting_end.py:68` against `:81-82` and `:98` |
| `ClosesOnlyOwn` (MCAdobeProcesses) | any Adobe process started after the snapshot is ended, the user's too | `meeting_end.py:1` |
| `ImportedExactlyOnce` (MCConfigFile) | schedules without a date (a weekly one whose `next_run` was never written is one) are dropped, schedules without an id may be imported twice | `config/manager.py:140` |
| `WorkerKeepsSettings` (MCConfigFile) | the worker's load may write an old copy over what the window saved | `config/manager.py:92` |
| `CrashedWorkerComesBack` (MCWorkerHealth) | a worker that was started directly, or whose restart met a probe and so exited with code 0, is not restarted | `README.md:177`, Windows runs a crashed worker again after a minute |
| `InactiveLeavesPending` (MCWorkerHealth) | "not active" may be shown for a row that was claimed or superseded | `schedule_frame.py:179-180` |
| `LongBefore` (MCTimeUtils) | a weekly run more than a day early is put one day back only | `README.md:173` |

Exceptions are written into passing properties instead, each with its reason in the
comment: `_check_worker_after_save` has no `try`, so an exception of `verify`, `register`,
`start` or `store.get` ends the thread of a save and the label keeps its first text
(`SaverIsTold`; what `worker_is_healthy` and `_detached_start` catch is not excepted); a
failed first listing, and an older orphan in the tree of a reused pid (`StopsOnlyLater`);
a course whose name contains the requested one, behind a link that led wrong or was
looked up by its place again at the click (`EntersRequestedCourse`: with links that stay in
place and lead where they say, only the requested course is entered); a load of the window that raises leaves a default form, which the next click on a
card saves over the file (`ImportNotLost`); the probe of one health check looks like a worker
to another (`HealthyMeansWorker`), and a restarted worker that meets a probe gives up
(`TaskWorkerComesBack`); a weekly record more than a day early (`RunsBeforeItsClass`); and a
run at a local time that the clock shows twice is due at the first of the two moments,
so before its delay is over (`RunsAfterItsDelay`).

## Proofs

Checked by TLAPS for every value of the constants: any sets of jobs, workers, courses,
participants, pids, cards, processes and checks, any hour length. Assumptions
are the `ASSUME`s of the modules (`StoreConstants`, `WorkerConstants`, `NullIsNoJob`, `FlowConstants`,
`MonitorConstants`, `WindowConstants`, `HealthConstants`, `TimeConstants`, ...), which say that limits are
numbers, NULL is none of the other values and the like; TLC evaluates them in every run.

- `ScheduleStoreProofs`: with callers that follow no protocol at all,
  `StoreTypeCorrect`, `AttemptsAreBounded`, `RunningRowsStayStamped` and
  `SettledRowsAreFinal`. `AttemptsBounded` and `RunningRowsAreStamped` are inductive
  together with the types; the last follows from the WHERE clauses alone.
- `SchedulerWorkerProofs`: `WorkerTypeCorrect`, `AtMostOneFlow`,
  `ExecutorsOwnTheirClaims`, `RejoinsNeedIncidents`, `OwnersLeaveRunning`,
  `WorkersKeepAttemptsBounded`. `ExecutorOwnsItsClaim` is not inductive as it stands: a stale
  recovery of another worker would break it. The invariant `WorkerInv` adds that a
  worker that is not off holds the lock (`LockHeld`, so who recovers has no job),
  that a job is in hand exactly while a worker executes (`JobInHand`), that
  a job before its first failure is not marked as failed (`NotFailedYet`), and how entries
  and incidents of a job balance (`EntriesAccounted`, which carries `RejoinOnlyAfterIncident`).
  The proof that a step keeps it has one lemma per kind of action. That a worker's step
  is also a step of the store carries the store's invariants over.
  Its last part is the refinement `WorkerImplementsQueue`. The mapping calls a running
  row active while a worker has it in hand and lost otherwise; every step of the
  worker is a step of `ClassQueue` under it, or changes nothing there.
  Towards the flow, `FlowsFollowClassFlow` says that a worker inside a flow takes steps of
  `ClassFlow` only, and `EveryClassFlowIsCovered` that none of these is missing in the
  worker, for a flow that notes its entries and stops no session older than itself.
- `FullFlowProofs`: `FlowTypeCorrect`, `SuccessIsClicked`, `LateActsAreBounded`,
  `MeetingBehindVerifiedHeading`, `MeetingClosedForCause` and the refinement
  `FlowImplementsClassFlow`. `FlowInv` adds where the flow can be after what
  (`FlowControl`: no exception before the end stages, a click before the meeting stages), that
  between the check of the heading and the last click the tab shows the page that was checked
  (`FlowPage`, which assumes that nobody else navigates the tab meanwhile), what is open there (`FlowResources`), and that after a stop
  one stage has acted and the next look at the event is still to come (`FlowLate`).
  Liveness: `StoppedFlowReleases` (`StopReleases`) by the number `StopRank` of steps that a
  stopped flow still takes, at most seven, which every step of it lowers.
  `FlowComesCloserToRest` has `RestRank` instead, the stages ahead and the looks left in
  one: from each value the flow comes to a lower one, or to rest.
- `MeetingEndProofs`: `MonitorTypeCorrect`; `MeetingsCloseOnShownTail`, that what the
  page shows when a meeting is closed are farewells of two people which nobody who can be
  told apart followed by anything else; `MeetingsCloseOnFarewellTail`, that the same holds of
  the whole chat (`ClosesOnFarewellTail`) while it has one markup (`OneMarkup`), which
  `OneSelectorClosesOnFarewellTail` has for every page with one kind. `FarewellMonitor` gives
  each node its place in the selection by counting the nodes that are not behind it, so in
  a chat of one markup that place is its own (`OneMarkupKeepsOrder`), and what is extracted is
  the end of the chat (`ExtractedIsTail`); `ProcessTypeCorrect`, `LeftoversHaveAReason` (`BotInv`:
  a process of the bot is a target unless its kill failed or its pid is from before), and
  `OlderEndOnlyInReusedTree` (`StopsOnlyLater`): a target is from after the first listing
  unless that failed (`SnapshotInv`), and if the tree of such a process reached an older one
  through parents that still are what they were, each on the way would be older too; so there
  is an orphan among them (`OlderInTree`, by the closed set of the processes that are not older).
- `MainWindowProofs`: `WindowTypeCorrect`, `OneFlowRuns`, `RunningFlowLocksActions`,
  `SessionRemovedAtRest`, `StopsAreKept`. `WindowInv` adds that each thread writes its end
  once (`QueueInv`, which bounds the queue), that buttons stay locked from the first thread on
  (`LockInv`), and that a question is open only before it (`AskInv`). Liveness:
  `StoppedFlowEnds` (`StopEndsRun`): a stopped thread is the last one, stays stopped, and only
  its own steps move it, each nearer to its end (`StoppedThreadMoves`).
- `ConfigFileProofs`: `ConfigTypeCorrect`, `ImportedOnce`, `NoImportIsLost`. `ConfigInv` adds
  what a load has still to look at: every schedule without its row is on its list
  (`LoadInv`), and a marked file holds no legacy schedules (`MarkInv`).
- `WorkerHealthProofs`: `HealthTypeCorrect`, `RunningWorkersHoldTheLock`, `OneWorkerRuns`,
  `HealthyMeansAWorker`. `RunningHoldsLock` becomes inductive with `HoldersUseLock`: whoever has
  the lock is a running worker or a check between probe and release, so a release
  frees only its own lock. Liveness: `EverySaverIsTold` (`SaverIsTold`, with an exception in the
  thread as its other end), from where each stage of a check leads (`WhereChecksGo`) and that no one else moves it (`OthersLeaveCheck`): its
  polling cannot last, by the strong fairness of giving up; and `CrashedTaskComesBack`
  (`TaskWorkerComesBack`): what Windows owes is started, and what is started asks for
  the lock, gets it, or finds a worker or a probe there.
- `TimeUtilsProofs`: `ClockConversionsAgree`, `LegacyRunsAreOnTime`, `FormRunsAfterTheDelay`,
  `RowsAreListedAsComputed`. Lemmas about quotient and remainder give the arithmetic of
  days and weeks; `TimeInv` says of each stage what the stages before computed.

How the liveness theorems are to be read. Their specification has the fairness written in
the component's module. The prover takes ENABLED as an unknown, so each theorem
assumes that the module's predicate of that kind always holds (`[]NobodyStuck`, ...), which
TLC evaluates as described under Fairness. `CrashedTaskComesBack` and `StoppedFlowEnds` assume
their fairness under `[]`. That is no stronger, for what holds again and again does so from
any moment on, but the prover does not exchange `[]` and `\A`.

Only model-checked, and why:

- `EveryJobSettles`, `FlowComesToRest`, `MonitorEnds`: how long they take depends on a bound
  (attempts, looks, polls), and so does the proof: an induction over it with a temporal
  formula in it, which none of the installed provers can instantiate. For
  `FlowComesToRest` that induction is all that is missing (`FlowComesCloserToRest`);
- that the fair steps are enabled where the guards say so (see above).

Check everything with `tlc -workers 2 -config X.cfg M` for each run and `tlapm M.tla`
for the eight proof modules.

## Plan

Done, in this order: the store and the worker; the flow; what surrounds them; then
Task Scheduler, the session, the form and the way of a time through the program;
then the theorems, of safety first and then of liveness. What is left, by what it would add:

1. A distance like `RestRank` for the queue, which every step of `SchedulerWorker` lowers but
   the passing of time, as the core of `EveryJobSettles`.
2. A composition of `FarewellMonitor` and `AdobeProcesses` as the end of a meeting, and of
   `MainWindow` with the worker, to state `OneFlowPerProfile` of the real worker.
3. `open_site` and `login_to_site` from inside, as smaller flows beside `FullFlow`.
4. The file locks, should the program come to use them; the credential operations
   as a store of their own, should more than one process come to write it.

----------------------------- MODULE WorkerHealth -----------------------------
(***************************************************************************)
(* Is the scheduler worker alive?  src/scheduling/worker_runtime.py keeps a *)
(* heartbeat file and an OS lock, src/scheduling/worker_task.py looks at    *)
(* them and starts a worker, and after every save a thread of               *)
(* src/ui/schedule_frame.py does so and tells the user how it went.  The    *)
(* check takes the lock itself for a moment, to see whether it can.         *)
(*                                                                         *)
(* Windows is external: its Task Scheduler starts the worker's task at a    *)
(* logon, on request, and again when it crashed, one instance at a time.    *)
(* A worker may also be started past it, as a process of its own.           *)
(***************************************************************************)
EXTENDS Naturals, FiniteSets

CONSTANTS
    Workers,    \* worker processes that may be started, each with its own pid
    Checkers,   \* threads of the window, one for each saved schedule
    NULL,
    SlowChecks  \* may a check outlast the minute that a new row waits at least?

ASSUME HealthConstants ==
    /\ NULL \notin Workers \cup Checkers /\ Workers \cap Checkers = {}
    /\ SlowChecks \in BOOLEAN

VARIABLES
    lock,       \* who holds the OS lock
    worker,     \* per worker: where its process is
    byTask,     \* the workers that Task Scheduler started
    heartbeat,  \* the file: who wrote it, and is it younger than ten seconds?
    registered, \* external: is there a task that verify accepts?
    restart,    \* external: does Windows owe a crashed instance its restart?
    met,        \* ghost: has a worker that started met a check's probe?
    check,      \* per checker: where ensure_scheduler_worker_running is
    polling,    \* per checker: did its first look fail?
    row,        \* per checker: the status of the schedule it was started for
    told        \* per checker: what the status label says

WorkerVars == <<worker, byTask, heartbeat>>
TaskVars == <<registered, restart, met>>
CheckVars == <<check, polling, row, told>>
healthVars == <<lock, WorkerVars, TaskVars, CheckVars>>

HealthTypeOK ==
    /\ lock \in Workers \cup Checkers \cup {NULL}
    /\ worker \in [Workers -> {"off", "starting", "running", "exited", "dead"}]
    /\ byTask \subseteq {w \in Workers : worker[w] # "off"}
    /\ heartbeat \in [pid: Workers \cup {NULL}, fresh: BOOLEAN]
    /\ registered \in BOOLEAN /\ restart \in BOOLEAN /\ met \in BOOLEAN
    /\ check \in [Checkers -> {"idle", "look", "probe", "probed", "unhealthy", "register", "run",
                            "direct", "healthy", "failed", "registered", "inactive", "done",
                            "raised"}]
    /\ polling \in [Checkers -> BOOLEAN]
    /\ row \in [Checkers -> {"none", "pending", "claimed", "cancelled"}]
    /\ told \in [Checkers -> {"nothing", "registered", "inactive"}]

HealthInit ==
    /\ lock = NULL
    /\ worker = [w \in Workers |-> "off"] /\ byTask = {}
    /\ heartbeat = [pid |-> NULL, fresh |-> FALSE]
    /\ registered \in BOOLEAN /\ restart = FALSE /\ met = FALSE
    /\ check = [c \in Checkers |-> "idle"] /\ polling = [c \in Checkers |-> FALSE]
    /\ row = [c \in Checkers |-> "none"] /\ told = [c \in Checkers |-> "nothing"]

-----------------------------------------------------------------------------
(* The worker process.  main: without the lock it exits, with code 0.        *)
Becomes(w, state) == worker' = [worker EXCEPT ![w] = state]

(* Variant: a fresh heartbeat counts as a running worker.                    *)
TakesLockIfSilent(w) ==
    /\ worker[w] = "starting"
    /\ \/ lock = NULL /\ ~heartbeat.fresh /\ lock' = w /\ Becomes(w, "running") /\ UNCHANGED met
       \/ /\ lock # NULL \/ heartbeat.fresh
          /\ UNCHANGED lock /\ Becomes(w, "exited") /\ met' = (met \/ lock \in Checkers)
    /\ UNCHANGED <<byTask, heartbeat, registered, restart, CheckVars>>

TakesLock(w) ==
    /\ worker[w] = "starting"
    /\ \/ lock = NULL /\ lock' = w /\ Becomes(w, "running") /\ UNCHANGED met
       \/ lock # NULL /\ UNCHANGED lock /\ Becomes(w, "exited") /\ met' = (met \/ lock \in Checkers)
    /\ UNCHANGED <<byTask, heartbeat, registered, restart, CheckVars>>

(* run_forever, its pump thread and every tick write the heartbeat.          *)
Beats(w) ==
    /\ worker[w] = "running"
    /\ heartbeat' = [pid |-> w, fresh |-> TRUE]
    /\ UNCHANGED <<lock, worker, byTask, TaskVars, CheckVars>>

(* Ten seconds pass: the worker is dead, hangs or the machine slept.         *)
HeartbeatAges ==
    /\ heartbeat.fresh
    /\ heartbeat' = [heartbeat EXCEPT !.fresh = FALSE]
    /\ UNCHANGED <<lock, worker, byTask, TaskVars, CheckVars>>

(* Windows releases the lock of a dead process.                              *)
WorkerDies(w) ==
    /\ worker[w] = "running"
    /\ Becomes(w, "dead")
    /\ lock' = NULL
    /\ restart' = (restart \/ w \in byTask)
    /\ UNCHANGED <<byTask, heartbeat, registered, met, CheckVars>>

(* MultipleInstancesPolicy: IgnoreNew.                                       *)
TaskIsBusy == \E w \in byTask : worker[w] \in {"starting", "running"}

TaskStarts(w) ==
    /\ worker[w] = "off" /\ ~TaskIsBusy
    /\ Becomes(w, "starting") /\ byTask' = byTask \cup {w}

(* LogonTrigger, also when the logon was before the window was opened.       *)
LogonStarts(w) ==
    /\ registered /\ TaskStarts(w)
    /\ UNCHANGED <<lock, heartbeat, TaskVars, CheckVars>>

(* RestartOnFailure: for an instance that crashed, a minute later.           *)
TaskRestarts ==
    /\ restart /\ restart' = FALSE
    /\ \/ TaskIsBusy /\ UNCHANGED <<worker, byTask>>
       \/ \E w \in Workers : TaskStarts(w)
    /\ UNCHANGED <<lock, heartbeat, registered, met, CheckVars>>

-----------------------------------------------------------------------------
(* worker_is_healthy.                                                        *)
CheckGoes(c, to) == check' = [check EXCEPT ![c] = to]

(* pid_is_running: the pid of a dead process may look alive, while a handle  *)
(* to it is open or when another process got it.                             *)
PidIsRunning(w) == IF worker[w] = "dead" THEN BOOLEAN ELSE {TRUE}

LooksHealthy ==
    IF heartbeat.fresh THEN PidIsRunning(heartbeat.pid) ELSE {FALSE}

(* Variant: the heartbeat and the pid are enough.                            *)
LooksWithoutProbe(c) ==
    /\ check[c] = "look"
    /\ \E good \in LooksHealthy : CheckGoes(c, IF good THEN "healthy" ELSE "unhealthy")
    /\ UNCHANGED <<lock, WorkerVars, TaskVars, polling, row, told>>

(* Variant: without a readable heartbeat the exception leaves the look.      *)
LooksAndRaises(c) ==
    /\ check[c] = "look"
    /\ CheckGoes(c, IF heartbeat.pid = NULL THEN "unread" ELSE "probe")
    /\ UNCHANGED <<lock, WorkerVars, TaskVars, polling, row, told>>

Looks(c) ==
    /\ check[c] = "look"
    /\ \E good \in LooksHealthy : CheckGoes(c, IF good THEN "probe" ELSE "unhealthy")
    /\ UNCHANGED <<lock, WorkerVars, TaskVars, polling, row, told>>

(* Variant: the lock is released also when the probe did not get it.         *)
ProbesAndReleases(c) ==
    /\ check[c] = "probe"
    /\ lock' = NULL
    /\ CheckGoes(c, IF lock = NULL THEN "unhealthy" ELSE "healthy")
    /\ UNCHANGED <<WorkerVars, TaskVars, polling, row, told>>

Probes(c) ==
    /\ check[c] = "probe"
    /\ \/ lock = NULL /\ lock' = c /\ CheckGoes(c, "probed")
       \/ lock # NULL /\ UNCHANGED lock /\ CheckGoes(c, "healthy")
    /\ UNCHANGED <<WorkerVars, TaskVars, polling, row, told>>

ReleasesProbe(c) ==
    /\ check[c] = "probed"
    /\ lock' = NULL
    /\ CheckGoes(c, "unhealthy")
    /\ UNCHANGED <<WorkerVars, TaskVars, polling, row, told>>

(* ensure_scheduler_worker_running, after its first look.  An exception in   *)
(* verify, register or start is caught by nobody: the thread of the save     *)
(* ends.  verify: does the task's XML name pythonw, the module and this      *)
(* directory?                                                                *)
Verifies(c) ==
    /\ check[c] = "unhealthy" /\ ~polling[c]
    /\ polling' = [polling EXCEPT ![c] = TRUE]
    /\ \/ CheckGoes(c, IF registered THEN "run" ELSE "register")
       \/ CheckGoes(c, "raised")
    /\ UNCHANGED <<lock, WorkerVars, TaskVars, row, told>>

(* register: refused without the interpreter of .venv or by Windows.  It may *)
(* raise before the task is created (the old tasks, the temporary file) or   *)
(* after (the removal of the file).                                          *)
Registers(c) ==
    /\ check[c] = "register"
    /\ \/ registered' = TRUE /\ CheckGoes(c, "run")
       \/ UNCHANGED registered /\ CheckGoes(c, "direct")
       \/ registered' \in {registered, TRUE} /\ CheckGoes(c, "raised")
    /\ UNCHANGED <<lock, WorkerVars, restart, met, polling, row, told>>

(* start: schtasks /Run is content with an instance that runs already.  What *)
(* raises may be the call or the reading of its answer.                      *)
RunsTask(c) ==
    /\ check[c] = "run"
    /\ \/ CheckGoes(c, "look") /\ TaskIsBusy /\ UNCHANGED <<worker, byTask>>
       \/ CheckGoes(c, "look") /\ \E w \in Workers : TaskStarts(w)
       \/ CheckGoes(c, "direct") /\ UNCHANGED <<worker, byTask>>
       \/ /\ CheckGoes(c, "raised")
          /\ UNCHANGED <<worker, byTask>> \/ \E w \in Workers : TaskStarts(w)
    /\ UNCHANGED <<lock, heartbeat, TaskVars, polling, row, told>>

(* _detached_start: a process past Task Scheduler, if there is an interpreter. *)
StartsDirectly(c) ==
    /\ check[c] = "direct"
    /\ CheckGoes(c, "look")
    /\ \/ UNCHANGED worker
       \/ \E w \in Workers : worker[w] = "off" /\ Becomes(w, "starting")
    /\ UNCHANGED <<lock, byTask, heartbeat, TaskVars, polling, row, told>>

(* Then it polls until its deadline.                                         *)
LooksAgain(c) ==
    /\ check[c] = "unhealthy" /\ polling[c]
    /\ CheckGoes(c, "look")
    /\ UNCHANGED <<lock, WorkerVars, TaskVars, polling, row, told>>

(* Variant: the deadline is not looked at.                                   *)
NeverGivesUp(c) == FALSE /\ check[c] = "unhealthy" /\ UNCHANGED healthVars

GivesUp(c) ==
    /\ check[c] = "unhealthy" /\ polling[c]
    /\ CheckGoes(c, "failed")
    /\ UNCHANGED <<lock, WorkerVars, TaskVars, polling, row, told>>

-----------------------------------------------------------------------------
(* schedule_frame.save: the new row cancels a pending one of the same class, *)
(* and a thread of its own looks after the worker.                           *)
Saves(c) ==
    /\ check[c] = "idle"
    /\ CheckGoes(c, "look")
    /\ row' \in {[d \in Checkers |->
            IF d = c THEN "pending"
            ELSE IF sameClass /\ row[d] = "pending" THEN "cancelled" ELSE row[d]]
          : sameClass \in BOOLEAN}
    /\ UNCHANGED <<lock, WorkerVars, TaskVars, polling, told>>

(* _check_worker_after_save reads the row again, or get raises and the thread *)
(* ends; the label is changed later, by Tk's thread.                         *)
ReadsRow(c) ==
    /\ check[c] \in {"healthy", "failed"}
    /\ \/ CheckGoes(c, IF check[c] = "healthy" /\ row[c] = "pending" THEN "registered" ELSE "inactive")
       \/ CheckGoes(c, "raised")
    /\ UNCHANGED <<lock, WorkerVars, TaskVars, polling, row, told>>

UpdatesUi(c) ==
    /\ check[c] \in {"registered", "inactive"}
    /\ told' = [told EXCEPT ![c] = check[c]]
    /\ CheckGoes(c, "done")
    /\ UNCHANGED <<lock, WorkerVars, TaskVars, polling, row>>

(* The worker claims a row that is due: the machine slept or schtasks took   *)
(* its time.                                                                 *)
WorkerClaims(c) ==
    /\ SlowChecks
    /\ row[c] = "pending"
    /\ \E w \in Workers : worker[w] = "running"
    /\ row' = [row EXCEPT ![c] = "claimed"]
    /\ UNCHANGED <<lock, WorkerVars, TaskVars, check, polling, told>>

WorkerSteps == \E w \in Workers : TakesLock(w) \/ Beats(w) \/ WorkerDies(w) \/ LogonStarts(w)

CheckSteps(c) ==
    \/ Looks(c) \/ Probes(c) \/ ReleasesProbe(c)
    \/ Verifies(c) \/ Registers(c) \/ RunsTask(c) \/ StartsDirectly(c)
    \/ LooksAgain(c) \/ GivesUp(c) \/ ReadsRow(c) \/ UpdatesUi(c)

HealthNext ==
    \/ WorkerSteps \/ TaskRestarts \/ HeartbeatAges
    \/ \E c \in Checkers : Saves(c) \/ WorkerClaims(c) \/ CheckSteps(c)

HealthSpec == HealthInit /\ [][HealthNext]_healthVars

(* A thread of the window goes on, and its clock reaches the deadline; so    *)
(* does a process that was started, and Windows keeps its RestartOnFailure.  *)
FairCheck(c) == WF_healthVars(CheckSteps(c)) /\ SF_healthVars(GivesUp(c))
FairWorker(w) == WF_healthVars(TakesLock(w))
FairRestart == WF_healthVars(TaskRestarts)

HealthFairness ==
    /\ \A c \in Checkers : FairCheck(c)
    /\ \A w \in Workers : FairWorker(w)
    /\ FairRestart

FairHealthSpec == HealthSpec /\ HealthFairness

(* Where each of these steps can be taken: nothing on the way of a check, and *)
(* nothing before the lock, can be stuck.                                    *)
CheckCanGoOn(c) ==
    /\ check[c] \notin {"idle", "done", "raised"} => ENABLED <<CheckSteps(c)>>_healthVars
    /\ check[c] = "unhealthy" /\ polling[c] => ENABLED <<GivesUp(c)>>_healthVars

WorkerCanGoOn(w) == worker[w] = "starting" => ENABLED <<TakesLock(w)>>_healthVars

RestartCanGoOn ==
    restart /\ (\E w \in Workers : worker[w] = "off") => ENABLED <<TaskRestarts>>_healthVars

NobodyStuck ==
    /\ \A c \in Checkers : CheckCanGoOn(c)
    /\ \A w \in Workers : WorkerCanGoOn(w)
    /\ RestartCanGoOn

-----------------------------------------------------------------------------
(* A check that calls the worker healthy has met one: at that moment a       *)
(* worker, not only a fresh file and a pid, held the lock.  The one exception *)
(* is the probe of another check that holds it just then.                    *)
HealthyMeansWorker ==
    [][\A c \in Checkers :
         check[c] # "healthy" /\ check'[c] = "healthy" =>
            lock \in Workers \/ \E d \in Checkers \ {c} : check[d] = "probed"]_healthVars

(* An instance of the task that crashed is followed by a running worker,     *)
(* through restarts, requests of checks, and probes that take the lock and   *)
(* give it back.  Two exceptions: a worker that started just when a check    *)
(* probed the lock, exits with code 0 and is not restarted; and the restart  *)
(* finds no process left in the model (a bound).                             *)
TaskWorkerComesBack ==
    restart ~> \/ \E w \in Workers : worker[w] = "running"
               \/ met
               \/ restart /\ \A w \in Workers : worker[w] # "off"

(* Whatever happens to workers, heartbeat and lock meanwhile, the thread of  *)
(* a save comes to an end and tells the user, or one of its calls of         *)
(* schtasks, of the temporary file or of the store has raised: then, and only *)
(* then, it ends without a word and the label keeps its first text.          *)
SaverIsTold ==
    \A c \in Checkers : (check[c] = "look") ~> (told[c] # "nothing" \/ check[c] = "raised")

(* A worker runs only under the lock, however many checks take it for a      *)
(* moment meanwhile: no two workers run, and no check frees a worker's lock. *)
RunningHoldsLock == \A w \in Workers : worker[w] = "running" => lock = w

(* README, on the worker's task: Windows restarts a crashed worker.  One that *)
(* was started directly, or whose restart met a probe, it does not.          *)
CrashedWorkerComesBack ==
    (\E w \in Workers : worker[w] = "dead")
        ~> \/ \E w \in Workers : worker[w] = "running"
           \/ \A w \in Workers : worker[w] # "off"

(* The comment in _check_worker_after_save: when the service is not active   *)
(* the schedule remains pending and can be picked up later.                  *)
InactiveLeavesPending ==
    [][\A c \in Checkers :
         check[c] # "inactive" /\ check'[c] = "inactive" => row[c] = "pending"]_healthVars
=============================================================================

--------------------------- MODULE SchedulerWorker ---------------------------
(***************************************************************************)
(* The persistent worker: src/scheduler_worker.py drives the store, and for *)
(* each claimed row src/scheduling/executor.py runs the class flow of       *)
(* src/browser/automation.py.  Several worker processes may be started; the *)
(* OS lock of worker_runtime.py lets one of them live.  A process can die   *)
(* between any two steps, and every database call can raise.                *)
(*                                                                         *)
(* The flow is seen from the worker: it is refused, fails with a page open, *)
(* or enters the class; what happens inside is the subject of FullFlow.     *)
(* The executor forces keep_open on and headless off, and the worker's own  *)
(* stop event is never set, so the branches for these are not taken here.   *)
(***************************************************************************)
EXTENDS ScheduleStore, Sequences, Functions

CONSTANTS
    RETRY_DELAYS,    \* the sequence RETRY_DELAYS of scheduler_worker.py
    AutoClose,       \* the values config.auto_close_on_farewell may have
    MaxIncidents     \* bound: crashes and database faults per behaviour

ASSUME WorkerConstants ==
    /\ RETRY_DELAYS \in Seq(RetryDelays) /\ RETRY_DELAYS # <<>>
    /\ AutoClose \subseteq BOOLEAN
    /\ MaxIncidents \in Nat
    /\ NULL \notin Ids

VARIABLES
    lock,       \* the worker that owns the OS lock, or NULL
    pc,         \* per worker: where its loop is
    job,        \* per worker: the claimed ScheduleRecord and its exception
    session,    \* per worker: has it a Playwright session that is not stopped?
    joined,     \* ghost, per id: how often the flow got a result it accepts
    incidents   \* ghost, per id in hand (or NULL): crashes and database faults

workerVars == <<lock, pc, job, session, joined, incidents>>
vars == <<storeVars, workerVars>>

Workers == Claimants

Executing == {"flow", "meeting", "held", "finish", "handler", "giveup"}
Failures == {"none", "retryable", "permanent"}
Job == [id: Ids, attempt: Nat, failure: Failures]

ASSUME NullIsNoJob == NULL \notin Job

WorkerTypeOK ==
    /\ StoreTypeOK
    /\ lock \in Workers \cup {NULL}
    /\ pc \in [Workers -> {"off", "recover", "claim"} \cup Executing]
    /\ job \in [Workers -> Job \cup {NULL}]
    /\ session \in [Workers -> BOOLEAN]
    /\ joined \in [Ids -> Nat]
    /\ incidents \in [Ids \cup {NULL} -> Nat]

WorkerInit ==
    /\ StoreInit
    /\ lock = NULL
    /\ pc = [w \in Workers |-> "off"]
    /\ job = [w \in Workers |-> NULL]
    /\ session = [w \in Workers |-> FALSE]
    /\ joined = [i \in Ids |-> 0]
    /\ incidents = [i \in Ids \cup {NULL} |-> 0]

At(w, place) == pc[w] = place
Goto(w, place) == pc' = [pc EXCEPT ![w] = place]
InHand(w) == IF job[w] = NULL THEN NULL ELSE job[w].id

Incident(w) ==
    /\ FoldFunction(+, 0, incidents) < MaxIncidents
    /\ incidents' = [incidents EXCEPT ![InHand(w)] = @ + 1]

-----------------------------------------------------------------------------
(* Variant: the process lock is not looked at.                               *)
StartUnlocked(w) ==
    /\ At(w, "off")
    /\ lock' = w
    /\ Goto(w, "recover")
    /\ UNCHANGED <<storeVars, job, session, joined, incidents>>

(* main: a worker that does not get the lock exits at once, a stuttering     *)
(* step.  run_forever then ticks: recover_stale, claim_due, execute.         *)
Start(w) ==
    /\ At(w, "off") /\ lock = NULL
    /\ lock' = w
    /\ Goto(w, "recover")
    /\ UNCHANGED <<storeVars, job, session, joined, incidents>>

RecoverStaleClaims(w) ==
    /\ At(w, "recover")
    /\ RecoverStale
    /\ Goto(w, "claim")
    /\ UNCHANGED <<lock, job, session, joined, incidents>>

NothingDue(w) ==
    /\ At(w, "claim")
    /\ \A i \in Ids : ~Due(i)
    /\ Goto(w, "recover")
    /\ UNCHANGED <<storeVars, lock, job, session, joined, incidents>>

ClaimNext(w) ==
    /\ At(w, "claim")
    /\ \E i \in Ids :
         /\ ClaimDue(i, w)
         /\ job' = [job EXCEPT ![w] =
               [id |-> i, attempt |-> table[i].attempts + 1, failure |-> "none"]]
    /\ Goto(w, "flow")
    /\ UNCHANGED <<lock, session, joined, incidents>>

(* The claim raises: before its commit, or in the self.get that follows it,  *)
(* and then the row stays behind as running.  run_forever logs and polls on. *)
ClaimFaults(w) ==
    /\ At(w, "claim")
    /\ Incident(w)
    /\ \/ UNCHANGED storeVars
       \/ \E i \in Ids : ClaimDue(i, w)
    /\ Goto(w, "recover")
    /\ UNCHANGED <<lock, job, session, joined>>

-----------------------------------------------------------------------------
(* The flow of one claimed job.                                              *)
(* Variant: an exception that should_retry does not classify.                *)
FailsUnclassified(w, failure) == job' = [job EXCEPT ![w].failure = "timeout"]

Fails(w, failure) == job' = [job EXCEPT ![w].failure = failure]

(* run_schedule and the input checks raise ValueError before any browser.    *)
RefusesJob(w) ==
    /\ At(w, "flow")
    /\ Fails(w, "permanent")
    /\ Goto(w, "handler")
    /\ UNCHANGED <<storeVars, lock, session, joined, incidents>>

(* Playwright or Chrome does not start: no page, so nothing is held open,    *)
(* but keep_open leaves a started Playwright running.                        *)
LaunchFails(w) ==
    /\ At(w, "flow")
    /\ Fails(w, "retryable")
    /\ session' \in {session, [session EXCEPT ![w] = TRUE]}
    /\ Goto(w, "handler")
    /\ UNCHANGED <<storeVars, lock, joined, incidents>>

(* Login, course or class link fail: the page stays open for the user before *)
(* the exception goes on.                                                    *)
FlowFails(w) ==
    /\ At(w, "flow")
    /\ \E failure \in {"retryable", "permanent"} : Fails(w, failure)
    /\ session' = [session EXCEPT ![w] = TRUE]
    /\ Goto(w, "held")
    /\ UNCHANGED <<storeVars, lock, joined, incidents>>

EntersClass(w) ==
    /\ At(w, "flow")
    /\ session' = [session EXCEPT ![w] = TRUE]
    /\ joined' = [joined EXCEPT ![job[w].id] = @ + 1]
    /\ \E autoClose \in AutoClose : Goto(w, IF autoClose THEN "meeting" ELSE "held")
    /\ UNCHANGED <<storeVars, lock, job, incidents>>

(* Farewell consensus, or the page was closed: browser and Playwright stop.  *)
MeetingEnds(w) ==
    /\ At(w, "meeting")
    /\ session' = [session EXCEPT ![w] = FALSE]
    /\ Goto(w, "finish")
    /\ UNCHANGED <<storeVars, lock, job, joined, incidents>>

(* Variant: the monitor's timeout is raised as an error of the flow.         *)
MeetingOutlastsRaises(w) ==
    /\ At(w, "meeting")
    /\ Fails(w, "retryable")
    /\ Goto(w, "held")
    /\ UNCHANGED <<storeVars, lock, session, joined, incidents>>

(* monitor_timeout: the page stays open without a monitor.                   *)
MeetingOutlasts(w) ==
    /\ At(w, "meeting")
    /\ Goto(w, "held")
    /\ UNCHANGED <<storeVars, lock, job, session, joined, incidents>>

(* _wait_for_browser_to_stay_open ends; should_close is false, so the        *)
(* Playwright session is not stopped.                                        *)
UserClosesBrowser(w) ==
    /\ At(w, "held")
    /\ Goto(w, IF job[w].failure = "none" THEN "finish" ELSE "handler")
    /\ UNCHANGED <<storeVars, lock, job, session, joined, incidents>>

-----------------------------------------------------------------------------
(* execute: the result of the flow goes to the store.                        *)
LeavesJob(w) ==
    /\ job' = [job EXCEPT ![w] = NULL]
    /\ Goto(w, "recover")

RecordsSuccess(w) ==
    /\ At(w, "finish")
    /\ Finish(job[w].id, TRUE)
    /\ LeavesJob(w)
    /\ UNCHANGED <<lock, session, joined, incidents>>

(* finish is inside the try: its own exception is handled like the flow's.   *)
FinishFaults(w) ==
    /\ At(w, "finish")
    /\ Incident(w)
    /\ Fails(w, "retryable")
    /\ Goto(w, "handler")
    /\ UNCHANGED <<storeVars, lock, session, joined>>

(* RETRY_DELAYS[max(0, min(attempt - 1, len - 1))], counted from 1 here.      *)
DelayAfter(attempt) ==
    RETRY_DELAYS[IF attempt < 1 THEN 1
                 ELSE IF attempt > Len(RETRY_DELAYS) THEN Len(RETRY_DELAYS)
                 ELSE attempt]

RetriesJob(w) ==
    /\ At(w, "handler")
    /\ job[w].failure = "retryable"
    /\ Retry(job[w].id, DelayAfter(job[w].attempt))
    /\ LeavesJob(w)
    /\ UNCHANGED <<lock, session, joined, incidents>>

NoRetry(w) ==
    /\ At(w, "handler")
    /\ job[w].failure = "permanent" \/ ~Retryable(job[w].id)
    /\ Goto(w, "giveup")
    /\ UNCHANGED <<storeVars, lock, job, session, joined, incidents>>

RecordsFailure(w) ==
    /\ At(w, "giveup")
    /\ Finish(job[w].id, FALSE)
    /\ LeavesJob(w)
    /\ UNCHANGED <<lock, session, joined, incidents>>

(* record_error, retry or the second finish raises inside the handler: the   *)
(* exception ends the tick, and the row stays behind as running.             *)
HandlerFaults(w) ==
    /\ At(w, "handler") \/ At(w, "giveup")
    /\ Incident(w)
    /\ LeavesJob(w)
    /\ UNCHANGED <<storeVars, lock, session, joined>>

-----------------------------------------------------------------------------
(* The process dies.  The OS frees the lock, and Playwright's driver, which  *)
(* talks to it over a pipe, ends with it; the row keeps its status.          *)
Crash(w) ==
    /\ pc[w] # "off"
    /\ Incident(w)
    /\ lock' = NULL
    /\ job' = [job EXCEPT ![w] = NULL]
    /\ session' = [session EXCEPT ![w] = FALSE]
    /\ Goto(w, "off")
    /\ UNCHANGED <<storeVars, joined>>

(* The GUI and the legacy import write to the same database.                 *)
Clients ==
    /\ CreateSome \/ \E id \in Ids : Cancel(id)
    /\ UNCHANGED workerVars

TimePasses == Tick /\ UNCHANGED workerVars

Flow(w) ==
    \/ RefusesJob(w) \/ LaunchFails(w) \/ FlowFails(w) \/ EntersClass(w)
    \/ MeetingEnds(w) \/ MeetingOutlasts(w)

WorkerLoop(w) ==
    \/ RecoverStaleClaims(w) \/ NothingDue(w) \/ ClaimNext(w)
    \/ Flow(w)
    \/ RecordsSuccess(w) \/ RetriesJob(w) \/ NoRetry(w) \/ RecordsFailure(w)

Faults(w) == ClaimFaults(w) \/ FinishFaults(w) \/ HandlerFaults(w) \/ Crash(w)

WorkerNext ==
    \/ TimePasses \/ Clients
    \/ \E w \in Workers : Start(w) \/ WorkerLoop(w) \/ UserClosesBrowser(w) \/ Faults(w)

WorkerSpec == WorkerInit /\ [][WorkerNext]_vars

(* Every wait of the flow and of the monitor has a timeout, and the loop     *)
(* never blocks otherwise.  Nothing is promised of Start: Task Scheduler     *)
(* restarts a crashed instance of its task only, not a worker started beside *)
(* the task, and not an instance that met another's lock and ended with 0.   *)
WorkerFairness ==
    /\ WF_vars(TimePasses)
    /\ \A w \in Workers : WF_vars(WorkerLoop(w))

UnattendedSpec == WorkerSpec /\ WorkerFairness

(* The one wait without a timeout is for the user to close the browser.      *)
FairSpec == UnattendedSpec /\ \A w \in Workers : WF_vars(UserClosesBrowser(w))

-----------------------------------------------------------------------------
(* Who executes a job holds its claim: the row is running, stamped with this *)
(* worker, and still at the attempt the worker read.  No recovery, retry or  *)
(* second claim of another process gets in between, although a job of hours  *)
(* is far older than stale_seconds.                                          *)
ExecutorOwnsItsClaim ==
    \A w \in Workers : pc[w] \in Executing =>
        LET row == table[job[w].id]
        IN  /\ HasStatus(job[w].id, "running")
            /\ row.claimedBy = w
            /\ row.attempts = job[w].attempt

(* "Claim and execute exactly one job at a time": no two workers are ever in *)
(* a flow together, not even for different jobs.                             *)
OneFlowAtATime ==
    \A v, w \in Workers : pc[v] \in Executing /\ pc[w] \in Executing => v = w

(* A flow that ended with an accepted result is repeated for the same job    *)
(* only after a crash or a database fault hit that job: without one, the job *)
(* is settled.  (A flow that fails after its click on the class link is      *)
(* repeated as any failure is; that case belongs to FullFlow.)               *)
RejoinOnlyAfterIncident ==
    \A i \in Ids : joined[i] <= 1 + incidents[i]

(* A running row is taken from its claim only by the worker that executes    *)
(* it, or by stale recovery when nobody does.                                *)
RunningLeftByOwner ==
    [][\A i \in DOMAIN table :
          HasStatus(i, "running") /\ table'[i].status # "running" =>
             \/ \E w \in Workers : InHand(w) = i /\ table[i].claimedBy = w
             \/ /\ table[i].claimedAt < now - StaleSeconds
                /\ \A w \in Workers : InHand(w) # i]_vars

(* However often the worker dies, another is started: by the task's restart, *)
(* by the next logon, or by a save of a class.  A premise, not a fairness.   *)
WorkersKeepComing == []<>(\E w \in Workers : pc[w] # "off")

(* As long as workers are started again, every job that was ever queued is   *)
(* settled in the end, through any bounded number of crashes and database    *)
(* faults, if the user closes browsers.                                      *)
EveryJobSettles ==
    WorkersKeepComing =>
        \A i \in Ids : i \in DOMAIN table ~> i \in DOMAIN table /\ table[i].status \in Settled

-----------------------------------------------------------------------------
(* The worker implements ClassQueue: a running row is active while a worker  *)
(* has it in hand, and lost when none has.                                   *)
PhaseOf(i) ==
    IF i \notin DOMAIN table THEN "absent"
    ELSE IF table[i].status # "running" THEN table[i].status
    ELSE IF \E w \in Workers : InHand(w) = i THEN "active" ELSE "lost"

Queue == INSTANCE ClassQueue WITH
    Limits <- AttemptLimits,
    phase <- [i \in Ids |-> PhaseOf(i)],
    tries <- [i \in Ids |-> IF i \in DOMAIN table THEN table[i].attempts ELSE 0],
    limit <- [i \in Ids |-> IF i \in DOMAIN table THEN table[i].limit ELSE 0]

(* The promise of ClassQueue, kept by store, lock and worker together.       *)
ImplementsQueue == Queue!QueueSpec

-----------------------------------------------------------------------------
(* executor.py: "the farewell monitor then releases Chrome/Adobe before the  *)
(* worker accepts another class": when a class that was joined is recorded,  *)
(* its browser session has been stopped.                                     *)
ReleasedBeforeNextClass == [][\A w \in Workers : RecordsSuccess(w) => ~session[w]]_vars

(* README: due schedules run in a thread of their own, so a due job does not *)
(* wait for another job's flow to be over.                                   *)
DueJobsStart ==
    WorkersKeepComing => \A i \in Ids : Due(i) ~> ~Due(i)
=============================================================================

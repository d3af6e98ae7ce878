------------------------ MODULE SchedulerWorkerProofs ------------------------
(***************************************************************************)
(* Proofs about SchedulerWorker: any number of workers, jobs, crashes and   *)
(* database faults, any delays.  The lock is the heart of the argument: who *)
(* has left "off" owns it, so while one worker executes a job every other   *)
(* process can only create or cancel rows, and these do not touch a running *)
(* row.                                                                     *)
(***************************************************************************)
EXTENDS SchedulerWorker, ScheduleStoreProofs

(* Whoever runs has the lock.                                                *)
LockHeld == \A w \in Workers : pc[w] # "off" => lock = w

(* A worker has a job in hand exactly while it executes.                     *)
JobInHand == \A w \in Workers : job[w] # NULL <=> pc[w] \in Executing

(* The worker has joined the class of job i and has not yet recorded it.    *)
InClass(w, i) ==
    /\ InHand(w) = i
    /\ \/ pc[w] \in {"meeting", "finish"}
       \/ pc[w] = "held" /\ job[w].failure = "none"

(* A flow that has not failed so far has no failure noted.                   *)
NotFailedYet ==
    \A w \in Workers : pc[w] \in {"flow", "meeting"} => job[w].failure = "none"

(* The strengthening of RejoinOnlyAfterIncident: an entry that no incident   *)
(* accounts for belongs to a class that is still going on, or to a settled   *)
(* row, and so to a job that is not going to be claimed again.               *)
EntriesAccounted ==
    \A i \in Ids :
        \/ joined[i] <= incidents[i]
        \/ /\ joined[i] <= incidents[i] + 1
           /\ \/ i \in DOMAIN table /\ table[i].status \in Settled
              \/ \E w \in Workers : InClass(w, i)

WorkerInv ==
    /\ WorkerTypeOK
    /\ LockHeld
    /\ JobInHand
    /\ NotFailedYet
    /\ ExecutorOwnsItsClaim
    /\ EntriesAccounted

LEMMA InitInv == WorkerInit => WorkerInv
<1> SUFFICES ASSUME WorkerInit PROVE WorkerInv
    OBVIOUS
<1>1. StoreTypeOK
    BY DEF WorkerInit, StoreInit, StoreTypeOK
<1>2. WorkerTypeOK
    BY <1>1 DEF WorkerInit, WorkerTypeOK
<1> QED
    BY <1>2, WorkerConstants DEF WorkerInit, StoreInit, WorkerInv, LockHeld, JobInHand, NotFailedYet,
            Executing, ExecutorOwnsItsClaim, EntriesAccounted

-----------------------------------------------------------------------------
(* What an executing worker has in hand.                                     *)
LEMMA HandIsJob ==
    ASSUME WorkerTypeOK, JobInHand, NEW w \in Workers
    PROVE  /\ pc[w] \in Executing => /\ job[w] \in Job
                                     /\ InHand(w) = job[w].id /\ InHand(w) \in Ids
           /\ pc[w] \notin Executing => job[w] = NULL /\ InHand(w) = NULL
           /\ InHand(w) \in Ids \cup {NULL}
BY DEF WorkerTypeOK, JobInHand, InHand, Job

(* A worker that takes a step is the only one that is not off.               *)
LEMMA StepperIsAlone ==
    ASSUME LockHeld, NEW v \in Workers, pc[v] # "off" \/ lock = NULL
    PROVE  \A w \in Workers : w # v => pc[w] = "off"
BY StoreConstants DEF LockHeld, Workers

LEMMA DelayIsRetryDelay ==
    ASSUME NEW attempt \in Nat
    PROVE  DelayAfter(attempt) \in RetryDelays
<1>1. Len(RETRY_DELAYS) \in Nat /\ Len(RETRY_DELAYS) > 0
    BY WorkerConstants
<1> QED
    BY <1>1, WorkerConstants DEF DelayAfter

(* Each step of the worker's specification is, for the store, a step of      *)
(* StoreSpec: what is proved of the store holds with the worker too.         *)
LEMMA StoreStep ==
    WorkerTypeOK /\ JobInHand /\ [WorkerNext]_vars => [StoreNext]_storeVars
<1> SUFFICES ASSUME WorkerTypeOK, JobInHand, [WorkerNext]_vars
             PROVE  [StoreNext]_storeVars
    OBVIOUS
<1>1. CASE UNCHANGED vars
    BY <1>1 DEF vars
<1>2. CASE TimePasses \/ Clients
    BY <1>2 DEF TimePasses, Clients, StoreNext
<1>3. ASSUME NEW w \in Workers,
             RecoverStaleClaims(w) \/ ClaimNext(w) \/ ClaimFaults(w)
      PROVE  [StoreNext]_storeVars
    BY <1>3 DEF RecoverStaleClaims, ClaimNext, ClaimFaults, StoreNext, Workers
<1>4. ASSUME NEW w \in Workers, RecordsSuccess(w) \/ RecordsFailure(w)
      PROVE  [StoreNext]_storeVars
    <2>1. job[w].id \in Ids
        BY <1>4, HandIsJob DEF RecordsSuccess, RecordsFailure, At, Executing, Job
    <2> QED
        BY <1>4, <2>1 DEF RecordsSuccess, RecordsFailure, StoreNext
<1>5. ASSUME NEW w \in Workers, RetriesJob(w)
      PROVE  [StoreNext]_storeVars
    <2>1. job[w].id \in Ids /\ job[w].attempt \in Nat
        BY <1>5, HandIsJob DEF RetriesJob, At, Executing, Job
    <2>2. DelayAfter(job[w].attempt) \in RetryDelays
        BY <2>1, DelayIsRetryDelay
    <2> QED
        BY <1>5, <2>1, <2>2 DEF RetriesJob, StoreNext
<1>6. ASSUME NEW w \in Workers,
             \/ Start(w) \/ NothingDue(w) \/ Flow(w) \/ NoRetry(w)
             \/ UserClosesBrowser(w) \/ FinishFaults(w) \/ HandlerFaults(w) \/ Crash(w)
      PROVE  [StoreNext]_storeVars
    BY <1>6 DEF Start, NothingDue, Flow, RefusesJob, LaunchFails, FlowFails, EntersClass,
               MeetingEnds, MeetingOutlasts, NoRetry, UserClosesBrowser, FinishFaults,
               HandlerFaults, Crash
<1> QED
    BY <1>1, <1>2, <1>3, <1>4, <1>5, <1>6 DEF WorkerNext, WorkerLoop, Faults

LEMMA WorkerTypeStep ==
    WorkerTypeOK /\ JobInHand /\ [WorkerNext]_vars => WorkerTypeOK'
<1> SUFFICES ASSUME WorkerTypeOK, JobInHand, [WorkerNext]_vars PROVE WorkerTypeOK'
    OBVIOUS
<1>1. StoreTypeOK'
    BY StoreStep, StoreTypeStep DEF WorkerTypeOK
<1> USE <1>1 DEF WorkerTypeOK, Executing, Job, Failures, Goto, At
<1>2. CASE UNCHANGED workerVars
    BY <1>2 DEF workerVars
<1>3. ASSUME NEW w \in Workers, Incident(w)
      PROVE  incidents' \in [Ids \cup {NULL} -> Nat]
    <2>1. InHand(w) \in Ids \cup {NULL}
        BY HandIsJob
    <2>2. incidents' = [incidents EXCEPT ![InHand(w)] = @ + 1]
        BY <1>3 DEF Incident
    <2> QED
        BY <2>1, <2>2
<1>4. ASSUME NEW w \in Workers, Start(w) \/ RecoverStaleClaims(w) \/ NothingDue(w)
      PROVE  WorkerTypeOK'
    BY <1>4 DEF Start, RecoverStaleClaims, NothingDue
<1>5. ASSUME NEW w \in Workers, ClaimNext(w) PROVE WorkerTypeOK'
    <2>1. \A i \in Ids : ClaimDue(i, w) => table[i].attempts + 1 \in Nat
        BY DEF StoreTypeOK, Row, ClaimDue, FirstDue, Due, HasStatus
    <2> QED
        BY <1>5, <2>1 DEF ClaimNext
<1>6. ASSUME NEW w \in Workers, ClaimFaults(w) PROVE WorkerTypeOK'
    BY <1>3, <1>6 DEF ClaimFaults
<1>7. ASSUME NEW w \in Workers, NEW f \in Failures, Fails(w, f), pc[w] \in Executing
      PROVE  job' \in [Workers -> Job \cup {NULL}]
    <2>1. job[w] \in Job
        BY <1>7, HandIsJob
    <2> QED
        BY <1>7, <2>1 DEF Fails
<1>8. ASSUME NEW w \in Workers, RefusesJob(w) \/ LaunchFails(w) \/ FlowFails(w)
      PROVE  WorkerTypeOK'
    BY <1>7, <1>8 DEF RefusesJob, LaunchFails, FlowFails
<1>9. ASSUME NEW w \in Workers, EntersClass(w) PROVE WorkerTypeOK'
    <2>1. job[w].id \in Ids
        BY <1>9, HandIsJob DEF EntersClass
    <2> QED
        BY <1>9, <2>1 DEF EntersClass
<1>10. ASSUME NEW w \in Workers, MeetingEnds(w) \/ MeetingOutlasts(w) \/ UserClosesBrowser(w) \/ NoRetry(w)
       PROVE  WorkerTypeOK'
    BY <1>10 DEF MeetingEnds, MeetingOutlasts, UserClosesBrowser, NoRetry
<1>11. ASSUME NEW w \in Workers, RecordsSuccess(w) \/ RetriesJob(w) \/ RecordsFailure(w)
       PROVE  WorkerTypeOK'
    BY <1>11 DEF RecordsSuccess, RetriesJob, RecordsFailure, LeavesJob
<1>12. ASSUME NEW w \in Workers, FinishFaults(w) PROVE WorkerTypeOK'
    BY <1>3, <1>7, <1>12 DEF FinishFaults
<1>13. ASSUME NEW w \in Workers, HandlerFaults(w) \/ Crash(w) PROVE WorkerTypeOK'
    BY <1>3, <1>13 DEF HandlerFaults, Crash, LeavesJob
<1> QED
    BY <1>2, <1>4, <1>5, <1>6, <1>8, <1>9, <1>10, <1>11, <1>12, <1>13
       DEF WorkerNext, WorkerLoop, Flow, Faults, TimePasses, Clients, vars

-----------------------------------------------------------------------------
(* The parts of a worker's step that matter to the invariant: it is made by  *)
(* somebody who holds the lock or takes the free one, and it leaves the      *)
(* variables of the other workers alone.                                     *)
OwnStep(w) == Start(w) \/ WorkerLoop(w) \/ UserClosesBrowser(w) \/ Faults(w)

LEMMA OthersUntouched ==
    ASSUME WorkerTypeOK, NEW w \in Workers, OwnStep(w)
    PROVE  /\ pc[w] # "off" \/ lock = NULL
           /\ \A v \in Workers : v # w => pc'[v] = pc[v] /\ job'[v] = job[v]
BY DEF WorkerTypeOK, OwnStep, WorkerLoop, Flow, Faults, At, Goto, LeavesJob, Fails,
       Start, RecoverStaleClaims, NothingDue, ClaimNext, ClaimFaults,
       RefusesJob, LaunchFails, FlowFails, EntersClass, MeetingEnds, MeetingOutlasts,
       UserClosesBrowser, RecordsSuccess, FinishFaults, RetriesJob, NoRetry,
       RecordsFailure, HandlerFaults, Crash

LEMMA LockStep ==
    WorkerTypeOK /\ LockHeld /\ [WorkerNext]_vars => LockHeld'
<1> SUFFICES ASSUME WorkerTypeOK, LockHeld, [WorkerNext]_vars PROVE LockHeld'
    OBVIOUS
<1>1. CASE UNCHANGED <<lock, pc>>
    BY <1>1 DEF LockHeld
<1>2. ASSUME NEW w \in Workers, OwnStep(w) PROVE LockHeld'
    <2>1. \A v \in Workers : v # w => pc'[v] = "off"
        BY <1>2, OthersUntouched, StepperIsAlone
    <2>2. pc'[w] # "off" => lock' = w
        BY <1>2, StoreConstants DEF LockHeld, WorkerTypeOK, OwnStep, WorkerLoop, Flow, Faults, At, Goto, LeavesJob,
           Start, RecoverStaleClaims, NothingDue, ClaimNext, ClaimFaults,
           RefusesJob, LaunchFails, FlowFails, EntersClass, MeetingEnds, MeetingOutlasts,
           UserClosesBrowser, RecordsSuccess, FinishFaults, RetriesJob, NoRetry,
           RecordsFailure, HandlerFaults, Crash
    <2> QED
        BY <2>1, <2>2 DEF LockHeld
<1> QED
    BY <1>1, <1>2 DEF WorkerNext, OwnStep, TimePasses, Clients, vars, workerVars

LEMMA JobStep ==
    WorkerTypeOK /\ JobInHand /\ [WorkerNext]_vars => JobInHand'
<1> SUFFICES ASSUME WorkerTypeOK, JobInHand, [WorkerNext]_vars PROVE JobInHand'
    OBVIOUS
<1>1. CASE UNCHANGED <<job, pc>>
    BY <1>1 DEF JobInHand
<1>2. ASSUME NEW w \in Workers, OwnStep(w) PROVE JobInHand'
    <2>1. \A v \in Workers : v # w => (job'[v] # NULL <=> pc'[v] \in Executing)
        BY <1>2, OthersUntouched DEF JobInHand
    <2>2. CASE ClaimNext(w)
        <3>1. PICK i \in Ids : job' = [job EXCEPT ![w] =
                  [id |-> i, attempt |-> table[i].attempts + 1, failure |-> "none"]]
                  /\ HasStatus(i, "pending")
            BY <2>2 DEF ClaimNext, ClaimDue, FirstDue, Due
        <3>2. job'[w] \in Job
            BY <3>1 DEF WorkerTypeOK, StoreTypeOK, Row, Job, Failures, HasStatus
        <3> QED
            BY <2>1, <2>2, <3>2, NullIsNoJob DEF JobInHand, ClaimNext, Goto, WorkerTypeOK, Executing
    <2>3. CASE \E f \in Failures : Fails(w, f) /\ pc[w] \in Executing /\ pc'[w] \in Executing
        <3>1. job[w] \in Job
            BY <2>3, HandIsJob
        <3>2. job'[w] \in Job
            BY <2>3, <3>1 DEF Fails, Job, WorkerTypeOK
        <3> QED
            BY <2>1, <2>3, <3>2, NullIsNoJob DEF JobInHand
    <2>4. ASSUME RefusesJob(w) \/ LaunchFails(w) \/ FlowFails(w) \/ FinishFaults(w)
          PROVE  \E f \in Failures : Fails(w, f) /\ pc[w] \in Executing /\ pc'[w] \in Executing
        BY <2>4 DEF RefusesJob, LaunchFails, FlowFails, FinishFaults, At, Goto, Executing,
                    Failures, WorkerTypeOK
    <2>5. ASSUME \/ Start(w) \/ RecoverStaleClaims(w) \/ NothingDue(w) \/ ClaimFaults(w)
                 \/ EntersClass(w) \/ MeetingEnds(w) \/ MeetingOutlasts(w)
                 \/ UserClosesBrowser(w) \/ NoRetry(w)
                 \/ RecordsSuccess(w) \/ RetriesJob(w) \/ RecordsFailure(w)
                 \/ HandlerFaults(w) \/ Crash(w)
          PROVE  job'[w] # NULL <=> pc'[w] \in Executing
        BY <2>5 DEF JobInHand, Executing, WorkerTypeOK, At, Goto, LeavesJob, Start,
            RecoverStaleClaims, NothingDue, ClaimFaults, EntersClass, MeetingEnds,
            MeetingOutlasts, UserClosesBrowser, NoRetry, RecordsSuccess, RetriesJob,
            RecordsFailure, HandlerFaults, Crash
    <2> QED
        BY <1>2, <2>1, <2>2, <2>3, <2>4, <2>5 DEF JobInHand, OwnStep, WorkerLoop, Flow, Faults
<1> QED
    BY <1>1, <1>2 DEF WorkerNext, OwnStep, TimePasses, Clients, vars, workerVars

-----------------------------------------------------------------------------
(* The three ways a worker's step can leave it executing: it claimed a job,  *)
(* it stays with the job it has, or it does not execute afterwards.          *)
Claims(w, i) ==
    /\ pc[w] = "claim" /\ pc'[w] = "flow"
    /\ ClaimDue(i, w)
    /\ job'[w].id = i /\ job'[w].attempt = table[i].attempts + 1
    /\ job'[w].failure = "none" /\ job'[w] # NULL

Stays(w) ==
    /\ pc[w] \in Executing /\ pc'[w] \in Executing
    /\ UNCHANGED storeVars
    /\ job'[w].id = job[w].id /\ job'[w].attempt = job[w].attempt

LEMMA OwnStepCases ==
    ASSUME WorkerTypeOK, JobInHand, NEW w \in Workers, OwnStep(w)
    PROVE  \/ (\E i \in Ids : Claims(w, i)) \/ Stays(w) \/ pc'[w] \notin Executing
<1>1. CASE ClaimNext(w)
    <2>1. PICK i \in Ids : /\ ClaimDue(i, w)
                           /\ job' = [job EXCEPT ![w] = [id |-> i,
                                 attempt |-> table[i].attempts + 1, failure |-> "none"]]
        BY <1>1 DEF ClaimNext
    <2>2. pc[w] = "claim" /\ pc'[w] = "flow"
        BY <1>1 DEF ClaimNext, At, Goto, WorkerTypeOK
    <2>3. job'[w] # NULL
        <3>1. JobInHand'
            BY JobStep, <1>1 DEF WorkerNext, WorkerLoop
        <3> QED
            BY <3>1, <2>2 DEF JobInHand, Executing
    <2> QED
        BY <2>1, <2>2, <2>3 DEF Claims, WorkerTypeOK
<1>2. ASSUME \/ RefusesJob(w) \/ LaunchFails(w) \/ FlowFails(w) \/ FinishFaults(w)
      PROVE  Stays(w)
    <2>1. /\ pc[w] \in Executing /\ pc'[w] \in Executing /\ UNCHANGED storeVars
          /\ \E f \in Failures : job' = [job EXCEPT ![w].failure = f]
        BY <1>2 DEF RefusesJob, LaunchFails, FlowFails, FinishFaults, At, Goto, Fails,
                    Executing, Failures, WorkerTypeOK
    <2>2. job[w] \in Job
        BY <2>1, HandIsJob
    <2> QED
        BY <2>1, <2>2 DEF Stays, Job, WorkerTypeOK
<1>3. ASSUME \/ EntersClass(w) \/ MeetingEnds(w) \/ MeetingOutlasts(w)
             \/ UserClosesBrowser(w) \/ NoRetry(w)
      PROVE  Stays(w)
    BY <1>3 DEF EntersClass, MeetingEnds, MeetingOutlasts, UserClosesBrowser, NoRetry,
                Stays, At, Goto, Executing, WorkerTypeOK
<1>4. ASSUME \/ Start(w) \/ RecoverStaleClaims(w) \/ NothingDue(w) \/ ClaimFaults(w)
             \/ RecordsSuccess(w) \/ RetriesJob(w) \/ RecordsFailure(w)
             \/ HandlerFaults(w) \/ Crash(w)
      PROVE  pc'[w] \notin Executing
    BY <1>4 DEF Start, RecoverStaleClaims, NothingDue, ClaimFaults, RecordsSuccess,
                RetriesJob, RecordsFailure, HandlerFaults, Crash, LeavesJob, Goto,
                Executing, WorkerTypeOK
<1> QED
    BY <1>1, <1>2, <1>3, <1>4 DEF OwnStep, WorkerLoop, Flow, Faults

(* Creating and cancelling rows, and time, leave running rows alone.         *)
LEMMA ClientsSpareRunning ==
    ASSUME StoreTypeOK, TimePasses \/ Clients, NEW i, HasStatus(i, "running")
    PROVE  HasStatus(i, "running")' /\ table'[i] = table[i]
BY DEF TimePasses, Tick, Clients, CreateSome, Create, Superseded, Cancel, Updated,
       HasStatus, StoreTypeOK

LEMMA ClaimStamps ==
    ASSUME StoreTypeOK, NEW i \in Ids, NEW w \in Claimants, ClaimDue(i, w)
    PROVE  /\ HasStatus(i, "pending") /\ HasStatus(i, "running")'
           /\ table'[i].claimedBy = w
           /\ table'[i].attempts = table[i].attempts + 1
BY DEF StoreTypeOK, ClaimDue, FirstDue, Due, HasStatus, Updated, Row

Owns(w) ==
    /\ HasStatus(job[w].id, "running")
    /\ table[job[w].id].claimedBy = w
    /\ table[job[w].id].attempts = job[w].attempt

LEMMA OwnsStep ==
    /\ WorkerTypeOK /\ LockHeld /\ JobInHand /\ ExecutorOwnsItsClaim
    /\ [WorkerNext]_vars
    => ExecutorOwnsItsClaim'
<1> SUFFICES ASSUME WorkerTypeOK, LockHeld, JobInHand, ExecutorOwnsItsClaim,
                    [WorkerNext]_vars
             PROVE  ExecutorOwnsItsClaim'
    OBVIOUS
<1>1. CASE UNCHANGED vars
    BY <1>1 DEF vars, storeVars, workerVars, ExecutorOwnsItsClaim, HasStatus
<1>2. CASE TimePasses \/ Clients
    <2>1. UNCHANGED workerVars
        BY <1>2 DEF TimePasses, Clients
    <2> QED
        BY <1>2, <2>1, ClientsSpareRunning DEF WorkerTypeOK, workerVars, ExecutorOwnsItsClaim
<1>3. ASSUME NEW v \in Workers, OwnStep(v),
             NEW w \in Workers, pc'[w] \in Executing
      PROVE  Owns(w)'
    <2>1. w = v
        BY <1>3, OthersUntouched, StepperIsAlone DEF Executing
    <2>2. CASE \E i \in Ids : Claims(w, i)
        <3>1. PICK i \in Ids : Claims(w, i)
            BY <2>2
        <3>2. job'[w].id = i /\ job'[w].attempt = table[i].attempts + 1 /\ ClaimDue(i, w)
            BY <3>1 DEF Claims
        <3> QED
            BY <3>2, ClaimStamps DEF WorkerTypeOK, Workers, Owns, HasStatus
    <2>3. CASE Stays(w)
        <3>1. Owns(w)
            BY <2>3 DEF Stays, ExecutorOwnsItsClaim, Owns
        <3> QED
            BY <2>3, <3>1 DEF Stays, Owns, HasStatus, storeVars
    <2> QED
        BY <1>3, <2>1, <2>2, <2>3, OwnStepCases
<1> QED
    BY <1>1, <1>2, <1>3 DEF WorkerNext, OwnStep, ExecutorOwnsItsClaim, Owns

LEMMA NotFailedStep ==
    WorkerTypeOK /\ JobInHand /\ NotFailedYet /\ [WorkerNext]_vars => NotFailedYet'
<1> SUFFICES ASSUME WorkerTypeOK, JobInHand, NotFailedYet, [WorkerNext]_vars
             PROVE  NotFailedYet'
    OBVIOUS
<1>1. CASE UNCHANGED <<job, pc>>
    BY <1>1 DEF NotFailedYet
<1>2. ASSUME NEW v \in Workers, OwnStep(v) PROVE NotFailedYet'
    <2>1. \A w \in Workers : w # v => pc'[w] = pc[w] /\ job'[w] = job[w]
        BY <1>2, OthersUntouched
    <2>2. pc'[v] \in {"flow", "meeting"} => job'[v].failure = "none"
        <3>1. ASSUME ClaimNext(v) PROVE job'[v].failure = "none"
            BY <3>1 DEF ClaimNext, WorkerTypeOK
        <3>2. ASSUME EntersClass(v) PROVE job'[v].failure = "none"
            BY <3>2 DEF EntersClass, NotFailedYet, At
        <3>3. ASSUME OwnStep(v), ~ClaimNext(v), ~EntersClass(v)
              PROVE  pc'[v] \notin {"flow", "meeting"}
            BY <3>3 DEF OwnStep, WorkerLoop, Flow, Faults, At, Goto, LeavesJob,
                WorkerTypeOK, Start, RecoverStaleClaims, NothingDue, ClaimFaults,
                RefusesJob, LaunchFails, FlowFails, MeetingEnds, MeetingOutlasts,
                UserClosesBrowser, RecordsSuccess, FinishFaults, RetriesJob, NoRetry,
                RecordsFailure, HandlerFaults, Crash
        <3> QED
            BY <1>2, <3>1, <3>2, <3>3
    <2> QED
        BY <2>1, <2>2 DEF NotFailedYet
<1> QED
    BY <1>1, <1>2 DEF WorkerNext, OwnStep, TimePasses, Clients, vars, workerVars

-----------------------------------------------------------------------------
(* Once settled, always settled: the store's part of the accounting.         *)
LEMMA SettledKept ==
    ASSUME WorkerTypeOK, JobInHand, [WorkerNext]_vars,
           NEW i \in DOMAIN table, table[i].status \in Settled
    PROVE  i \in DOMAIN table' /\ table'[i].status \in Settled
BY StoreStep, StepByRows DEF WorkerTypeOK, RowStep, Settled

LEMMA EntriesStep ==
    WorkerInv /\ [WorkerNext]_vars => EntriesAccounted'
<1> SUFFICES ASSUME WorkerInv, [WorkerNext]_vars, NEW i \in Ids
             PROVE  \/ joined'[i] <= incidents'[i]
                    \/ /\ joined'[i] <= incidents'[i] + 1
                       /\ \/ i \in DOMAIN table' /\ table'[i].status \in Settled
                          \/ \E w \in Workers : InClass(w, i)'
    BY DEF EntriesAccounted
<1> USE DEF WorkerInv
<1> DEFINE Account == \/ joined'[i] <= incidents'[i]
                      \/ /\ joined'[i] <= incidents'[i] + 1
                         /\ \/ i \in DOMAIN table' /\ table'[i].status \in Settled
                            \/ \E w \in Workers : InClass(w, i)'
<1>1. /\ joined[i] \in Nat /\ incidents[i] \in Nat
      /\ \/ joined[i] <= incidents[i]
         \/ /\ joined[i] <= incidents[i] + 1
            /\ \/ i \in DOMAIN table /\ table[i].status \in Settled
               \/ \E w \in Workers : InClass(w, i)
    BY DEF WorkerTypeOK, EntriesAccounted
<1>2. CASE UNCHANGED workerVars
    <2>1. \A w \in Workers : InClass(w, i)' = InClass(w, i)
        BY <1>2 DEF workerVars, InClass, InHand
    <2> QED
        BY <1>1, <1>2, <2>1, SettledKept DEF workerVars
<1>3. ASSUME NEW v \in Workers, OwnStep(v) PROVE Account
    <2>1. \A w \in Workers : InClass(w, i) => w = v
        BY <1>3, OthersUntouched, StepperIsAlone DEF InClass
    <2>2. ASSUME joined' = joined, incidents'[i] \in Nat, incidents'[i] >= incidents[i],
                 InClass(v, i) => InClass(v, i)' \/ incidents'[i] = incidents[i] + 1
          PROVE  Account
        BY <1>1, <2>1, <2>2, SettledKept
    <2>3. ASSUME Incident(v)
          PROVE  /\ incidents'[i] \in Nat /\ incidents'[i] >= incidents[i]
                 /\ InHand(v) = i => incidents'[i] = incidents[i] + 1
        <3>1. incidents' = [incidents EXCEPT ![InHand(v)] = @ + 1]
            BY <2>3 DEF Incident
        <3> QED
            BY <1>1, <3>1 DEF WorkerTypeOK
    <2>4. CASE Crash(v) \/ FinishFaults(v) \/ HandlerFaults(v) \/ ClaimFaults(v)
        BY <2>2, <2>3, <2>4
           DEF Crash, FinishFaults, HandlerFaults, ClaimFaults, InClass
    <2>5. CASE MeetingEnds(v) \/ MeetingOutlasts(v) \/ UserClosesBrowser(v)
        <3>1. InClass(v, i) => InClass(v, i)'
            BY <2>5 DEF MeetingEnds, MeetingOutlasts, UserClosesBrowser, InClass, InHand,
                        At, Goto, WorkerTypeOK, NotFailedYet
        <3> QED
            BY <1>1, <2>2, <2>5, <3>1 DEF MeetingEnds, MeetingOutlasts, UserClosesBrowser
    <2>6. CASE \/ Start(v) \/ RecoverStaleClaims(v) \/ NothingDue(v) \/ ClaimNext(v)
               \/ RefusesJob(v) \/ LaunchFails(v) \/ FlowFails(v)
               \/ RetriesJob(v) \/ NoRetry(v) \/ RecordsFailure(v)
        <3>1. ~InClass(v, i)
            BY <2>6 DEF Start, RecoverStaleClaims, NothingDue, ClaimNext, RefusesJob,
                        LaunchFails, FlowFails, RetriesJob, NoRetry, RecordsFailure,
                        InClass, At
        <3>2. UNCHANGED <<joined, incidents>>
            BY <2>6 DEF Start, RecoverStaleClaims, NothingDue, ClaimNext, RefusesJob,
                        LaunchFails, FlowFails, RetriesJob, NoRetry, RecordsFailure
        <3> QED
            BY <1>1, <2>2, <3>1, <3>2
    <2>7. CASE RecordsSuccess(v)
        <3>1. HasStatus(InHand(v), "running") /\ InHand(v) = job[v].id
            BY <2>7, HandIsJob DEF RecordsSuccess, At, ExecutorOwnsItsClaim, Executing
        <3>2. InHand(v) \in DOMAIN table' /\ table'[InHand(v)].status = "succeeded"
            BY <2>7, <3>1 DEF RecordsSuccess, Finish, Updated, HasStatus, WorkerTypeOK,
                              StoreTypeOK, Row
        <3>3. UNCHANGED <<joined, incidents>>
            BY <2>7 DEF RecordsSuccess
        <3>4. CASE InHand(v) = i
            BY <1>1, <3>2, <3>3, <3>4 DEF Settled
        <3>5. CASE InHand(v) # i
            BY <1>1, <2>2, <3>3, <3>5 DEF InClass
        <3> QED
            BY <3>4, <3>5
    <2>8. CASE EntersClass(v)
        <3>1. /\ pc[v] = "flow" /\ job' = job /\ UNCHANGED incidents
              /\ pc'[v] \in {"meeting", "held"}
              /\ joined' = [joined EXCEPT ![job[v].id] = @ + 1]
            BY <2>8 DEF EntersClass, At, Goto, WorkerTypeOK
        <3>2. ~InClass(v, i)
            BY <3>1 DEF InClass
        <3>3. InHand(v) = job[v].id /\ HasStatus(InHand(v), "running")
            BY <3>1, HandIsJob DEF Executing, ExecutorOwnsItsClaim
        <3>4. CASE InHand(v) = i
            <4>1. joined[i] <= incidents[i]
                BY <1>1, <2>1, <3>2, <3>3, <3>4 DEF HasStatus, Settled
            <4>2. InClass(v, i)'
                BY <3>1, <3>4 DEF InClass, InHand, NotFailedYet
            <4> QED
                BY <1>1, <3>1, <3>3, <3>4, <4>1, <4>2 DEF WorkerTypeOK
        <3>5. CASE InHand(v) # i
            <4>1. joined'[i] = joined[i]
                BY <3>1, <3>3, <3>5 DEF WorkerTypeOK
            <4> QED
                BY <1>1, <2>1, <3>1, <3>2, <4>1, SettledKept
        <3> QED
            BY <3>4, <3>5
    <2> QED
        BY <1>3, <2>4, <2>5, <2>6, <2>7, <2>8 DEF OwnStep, WorkerLoop, Flow, Faults
<1> QED
    BY <1>2, <1>3 DEF WorkerNext, OwnStep, TimePasses, Clients, vars

-----------------------------------------------------------------------------
LEMMA WorkerInvariant == WorkerSpec => []WorkerInv
<1>1. WorkerInv /\ [WorkerNext]_vars => WorkerInv'
    BY WorkerTypeStep, LockStep, JobStep, NotFailedStep, OwnsStep, EntriesStep DEF WorkerInv
<1> QED
    BY <1>1, InitInv, PTL DEF WorkerSpec

(* For every instance: the worker's variables keep their types.              *)
THEOREM WorkerTypeCorrect == WorkerSpec => []WorkerTypeOK
<1>1. WorkerInv => WorkerTypeOK
    BY DEF WorkerInv
<1> QED
    BY <1>1, WorkerInvariant, PTL

(* For every number of workers, jobs and incidents: who executes a job holds *)
(* its claim, however old the claim has become.                              *)
THEOREM ExecutorsOwnTheirClaims == WorkerSpec => []ExecutorOwnsItsClaim
<1>1. WorkerInv => ExecutorOwnsItsClaim
    BY DEF WorkerInv
<1> QED
    BY <1>1, WorkerInvariant, PTL

(* For every instance: no two worker processes are in a flow together.       *)
THEOREM AtMostOneFlow == WorkerSpec => []OneFlowAtATime
<1>1. WorkerInv => OneFlowAtATime
    BY DEF WorkerInv, LockHeld, OneFlowAtATime, Executing
<1> QED
    BY <1>1, WorkerInvariant, PTL

(* For every instance: a class is joined again for the same job at most as  *)
(* often as a crash or a database fault hit that job.                        *)
THEOREM RejoinsNeedIncidents == WorkerSpec => []RejoinOnlyAfterIncident
<1>1. WorkerInv => RejoinOnlyAfterIncident
    BY DEF WorkerInv, WorkerTypeOK, EntriesAccounted, RejoinOnlyAfterIncident
<1> QED
    BY <1>1, WorkerInvariant, PTL

(* For every instance: with the workers, too, no row is started more often   *)
(* than its max_attempts.                                                    *)
THEOREM WorkersKeepAttemptsBounded == WorkerSpec => []AttemptsBounded
<1>1. WorkerInit => AttemptsBounded
    BY DEF WorkerInit, StoreInit, AttemptsBounded
<1>2. WorkerInv /\ AttemptsBounded /\ [WorkerNext]_vars => AttemptsBounded'
    BY StoreStep, AttemptsStep DEF WorkerInv, WorkerTypeOK
<1> QED
    BY <1>1, <1>2, WorkerInvariant, PTL DEF WorkerSpec

-----------------------------------------------------------------------------
(* How each step treats the running rows.                                    *)
LEMMA RunningRowCases ==
    ASSUME WorkerInv, [WorkerNext]_vars,
           NEW i \in DOMAIN table, HasStatus(i, "running")
    PROVE  \/ table'[i] = table[i]
           \/ \E w \in Workers : /\ InHand(w) = i /\ pc[w] \in Executing
                                 /\ pc'[w] = "recover" /\ job'[w] = NULL
           \/ Stale(i) /\ \E w \in Workers : pc[w] = "recover" /\ RecoverStaleClaims(w)
<1> USE DEF WorkerInv
<1>1. CASE UNCHANGED vars
    BY <1>1 DEF vars, storeVars
<1>2. CASE TimePasses \/ Clients
    BY <1>2, ClientsSpareRunning DEF WorkerTypeOK
<1>3. ASSUME NEW w \in Workers, OwnStep(w)
      PROVE  \/ table'[i] = table[i]
             \/ /\ InHand(w) = i /\ pc[w] \in Executing
                /\ pc'[w] = "recover" /\ job'[w] = NULL
             \/ Stale(i) /\ pc[w] = "recover" /\ RecoverStaleClaims(w)
    <2>1. CASE RecoverStaleClaims(w)
        BY <2>1 DEF RecoverStaleClaims, RecoverStale, Updated, At
    <2>2. ASSUME NEW j \in Ids, ClaimDue(j, w) PROVE table'[i] = table[i]
        BY <2>2 DEF ClaimDue, Updated, FirstDue, Due, HasStatus
    <2>3. CASE ClaimNext(w) \/ ClaimFaults(w)
        BY <2>2, <2>3 DEF ClaimNext, ClaimFaults, storeVars
    <2>4. CASE RecordsSuccess(w) \/ RetriesJob(w) \/ RecordsFailure(w)
        <3>1. /\ pc[w] \in Executing /\ pc'[w] = "recover" /\ job'[w] = NULL
              /\ InHand(w) = job[w].id
            BY <2>4, HandIsJob DEF RecordsSuccess, RetriesJob, RecordsFailure, LeavesJob,
                                   Goto, At, Executing, WorkerTypeOK
        <3>2. job[w].id # i => table'[i] = table[i]
            BY <2>4 DEF RecordsSuccess, RetriesJob, RecordsFailure, Finish, Retry, Updated
        <3> QED
            BY <3>1, <3>2
    <2>5. CASE \/ Start(w) \/ NothingDue(w) \/ Flow(w) \/ NoRetry(w) \/ UserClosesBrowser(w)
               \/ FinishFaults(w) \/ HandlerFaults(w) \/ Crash(w)
        BY <2>5 DEF Start, NothingDue, Flow, RefusesJob, LaunchFails, FlowFails,
            EntersClass, MeetingEnds, MeetingOutlasts, NoRetry, UserClosesBrowser,
            FinishFaults, HandlerFaults, Crash, storeVars
    <2> QED
        BY <1>3, <2>1, <2>3, <2>4, <2>5 DEF OwnStep, WorkerLoop, Faults
<1> QED
    BY <1>1, <1>2, <1>3 DEF WorkerNext, OwnStep

(* For every instance: a running row leaves its claim by its executor's      *)
(* hand, or by stale recovery when nobody executes it.                       *)
THEOREM OwnersLeaveRunning == WorkerSpec => RunningLeftByOwner
<1> DEFINE Left == \A i \in DOMAIN table :
          HasStatus(i, "running") /\ table'[i].status # "running" =>
             \/ \E w \in Workers : InHand(w) = i /\ table[i].claimedBy = w
             \/ /\ table[i].claimedAt < now - StaleSeconds
                /\ \A w \in Workers : InHand(w) # i
<1>1. WorkerInv /\ [WorkerNext]_vars => Left
    <2> SUFFICES ASSUME WorkerInv, [WorkerNext]_vars, NEW i \in DOMAIN table,
                        HasStatus(i, "running"), table'[i].status # "running"
                 PROVE  \/ \E w \in Workers : InHand(w) = i /\ table[i].claimedBy = w
                        \/ /\ table[i].claimedAt < now - StaleSeconds
                           /\ \A w \in Workers : InHand(w) # i
        OBVIOUS
    <2>1. table'[i] # table[i]
        BY DEF HasStatus
    <2>2. CASE \E w \in Workers : InHand(w) = i /\ pc[w] \in Executing
        BY <2>2, HandIsJob DEF WorkerInv, ExecutorOwnsItsClaim
    <2>3. ASSUME NEW v \in Workers, pc[v] = "recover", Stale(i)
          PROVE  \A w \in Workers : InHand(w) # i
        <3>1. \A w \in Workers : InHand(w) = NULL
            BY <2>3, StepperIsAlone, HandIsJob DEF WorkerInv, Executing
        <3> QED
            BY <3>1, WorkerConstants DEF WorkerInv, WorkerTypeOK, StoreTypeOK
    <2> QED
        BY <2>1, <2>2, <2>3, RunningRowCases DEF Stale
<1>2. WorkerInv /\ [WorkerNext]_vars => [Left]_vars
    BY <1>1
<1> QED
    BY <1>2, WorkerInvariant, PTL DEF WorkerSpec, RunningLeftByOwner

-----------------------------------------------------------------------------
(* Refinement.  Store, lock and worker together keep the promise of          *)
(* ClassQueue: every step of SchedulerWorker maps to a step of the abstract  *)
(* queue or leaves it unchanged.                                             *)
Held(i) == \E w \in Workers : InHand(w) = i

TriesOf(i) == IF i \in DOMAIN table THEN table[i].attempts ELSE 0
LimitOf(i) == IF i \in DOMAIN table THEN table[i].limit ELSE 0

(* What the abstract queue sees of job i.                                    *)
Seen(i) == <<PhaseOf(i), TriesOf(i), LimitOf(i)>>

Unseen(S) == \A i \in Ids \ S : Seen(i)' = Seen(i)

LEMMA SameRowSameSight ==
    ASSUME NEW i, Held(i)' = Held(i),
           (i \in DOMAIN table') = (i \in DOMAIN table),
           i \in DOMAIN table => table'[i] = table[i]
    PROVE  Seen(i)' = Seen(i)
BY DEF Seen, PhaseOf, TriesOf, LimitOf, Held

(* Nobody has a job in hand when a worker recovers or claims.                *)
LEMMA NobodyWorks ==
    ASSUME WorkerInv, NEW w \in Workers, pc[w] \in {"recover", "claim"}
    PROVE  \A v \in Workers : InHand(v) = NULL
BY StepperIsAlone, HandIsJob DEF WorkerInv, Executing

(* A worker's step changes at most its own hand.                             *)
LEMMA OtherHandsKept ==
    ASSUME WorkerTypeOK, NEW w \in Workers, OwnStep(w)
    PROVE  \A v \in Workers : v # w => InHand(v)' = InHand(v)
BY OthersUntouched DEF InHand

(* Only one worker has anything in hand.                                     *)
LEMMA OneHand ==
    ASSUME WorkerInv, NEW w \in Workers, pc[w] \in Executing
    PROVE  \A v \in Workers : v # w => InHand(v) = NULL
BY StepperIsAlone, HandIsJob DEF WorkerInv, LockHeld, Executing

-----------------------------------------------------------------------------
(* The refinement mapping, step by step: what each step does to the sight.   *)
PhaseBar == [i \in Ids |-> PhaseOf(i)]
TriesBar == [i \in Ids |-> TriesOf(i)]
LimitBar == [i \in Ids |-> LimitOf(i)]
BarVars == <<PhaseBar, TriesBar, LimitBar>>

LEMMA UnseenIsStutter ==
    ASSUME Unseen({}) PROVE UNCHANGED BarVars
BY DEF Unseen, Seen, BarVars, PhaseBar, TriesBar, LimitBar

(* A step that only lets one job be seen anew.                               *)
LEMMA OneSeen ==
    ASSUME NEW i \in Ids, Unseen({i})
    PROVE  /\ PhaseBar' = [PhaseBar EXCEPT ![i] = PhaseOf(i)']
           /\ TriesBar' = [TriesBar EXCEPT ![i] = TriesOf(i)']
           /\ LimitBar' = [LimitBar EXCEPT ![i] = LimitOf(i)']
BY DEF Unseen, Seen, PhaseBar, TriesBar, LimitBar

LEMMA CancelIsWithdraw ==
    ASSUME WorkerInv, NEW id \in Ids, Cancel(id), UNCHANGED workerVars
    PROVE  Queue!Withdraw(id)
<1>1. \A i : Held(i)' = Held(i)
    BY DEF Held, InHand, workerVars
<1>2. /\ HasStatus(id, "pending") /\ table'[id] = Cancelled(table[id])
      /\ DOMAIN table' = DOMAIN table
      /\ \A i \in DOMAIN table \ {id} : table'[i] = table[i]
    BY DEF Cancel, Updated, HasStatus
<1>3. Unseen({id})
    BY <1>1, <1>2, SameRowSameSight DEF Unseen
<1>4. table[id] \in Row
    BY <1>2 DEF WorkerInv, WorkerTypeOK, StoreTypeOK, HasStatus
<1>5. PhaseOf(id) = "pending" /\ PhaseOf(id)' = "cancelled"
    BY <1>2, <1>4 DEF PhaseOf, HasStatus, Cancelled, Row
<1>6. TriesOf(id)' = TriesOf(id) /\ LimitOf(id)' = LimitOf(id)
    BY <1>2, <1>4 DEF TriesOf, LimitOf, Cancelled, Row
<1> QED
    BY <1>3, <1>5, <1>6, OneSeen
       DEF Queue!Withdraw, PhaseBar, TriesBar, LimitBar, TriesOf, LimitOf

LEMMA CreateIsSubmit ==
    ASSUME WorkerInv, CreateSome, UNCHANGED workerVars
    PROVE  \E id \in Ids : Queue!Submit(id)
<1> PICK id \in Ids, class \in Classes, delay \in StartDelays,
         n \in AttemptLimits, cancelPending \in BOOLEAN :
             Create(id, class, now + delay, n, cancelPending)
    BY DEF CreateSome
<1> DEFINE S == Superseded(class, cancelPending)
<1>1. \A i : Held(i)' = Held(i)
    BY DEF Held, InHand, workerVars
<1>2. /\ id \notin DOMAIN table /\ DOMAIN table' = DOMAIN table \cup {id}
      /\ table'[id] = NewRow(class, now + delay, n)
      /\ \A i \in S : table'[i] = Cancelled(table[i])
      /\ \A i \in DOMAIN table \ S : table'[i] = table[i]
      /\ \A i \in S : i \in DOMAIN table /\ table[i].status = "pending"
      /\ DOMAIN table \subseteq Ids
      /\ \A i \in DOMAIN table : table[i] \in Row
    BY DEF Create, Superseded, WorkerInv, WorkerTypeOK, StoreTypeOK
<1>3. \A i \in Ids \ (S \cup {id}) : Seen(i)' = Seen(i)
    BY <1>1, <1>2, SameRowSameSight
<1>4. \A i \in S : PhaseOf(i) = "pending" /\ PhaseOf(i)' = "cancelled"
                   /\ TriesOf(i)' = TriesOf(i) /\ LimitOf(i)' = LimitOf(i)
    BY <1>2 DEF PhaseOf, TriesOf, LimitOf, Cancelled, Row
<1>5. /\ PhaseOf(id) = "absent" /\ PhaseOf(id)' = "pending"
      /\ TriesOf(id) = 0 /\ TriesOf(id)' = 0 /\ LimitOf(id)' = n
    BY <1>2 DEF PhaseOf, TriesOf, LimitOf, NewRow
<1>6. S \in SUBSET Queue!InPhase("pending")
    BY <1>2, <1>4 DEF Queue!InPhase
<1>7. Queue!Move(S \cup {id}, LAMBDA j : IF j = id THEN "pending" ELSE "cancelled")
    BY <1>3, <1>4, <1>5 DEF Queue!Move, Seen
<1>8. LimitBar' = [LimitBar EXCEPT ![id] = n] /\ TriesBar' = TriesBar
    BY <1>3, <1>4, <1>5 DEF LimitBar, TriesBar, Seen
<1> QED
    BY <1>5, <1>6, <1>7, <1>8 DEF Queue!Submit, LimitBar, TriesBar, LimitOf, TriesOf

LEMMA RecoverIsFind ==
    ASSUME WorkerInv, NEW w \in Workers, RecoverStaleClaims(w)
    PROVE  \E S \in SUBSET Ids : Queue!Find(S)
<1> DEFINE S == {i \in DOMAIN table : Stale(i)}
<1>1. \A i \in Ids : ~Held(i) /\ ~Held(i)'
    <2>1. \A v \in Workers : InHand(v) = NULL
        BY NobodyWorks DEF RecoverStaleClaims, At
    <2>2. \A v \in Workers : InHand(v)' = InHand(v)
        BY DEF RecoverStaleClaims, InHand
    <2> QED
        BY <2>1, <2>2, WorkerConstants DEF Held
<1>2. /\ DOMAIN table' = DOMAIN table /\ DOMAIN table \subseteq Ids
      /\ \A i \in DOMAIN table : table[i] \in Row
      /\ \A i \in S : table'[i] = IF table[i].attempts < table[i].limit
                                  THEN Requeued(table[i])
                                  ELSE [table[i] EXCEPT !.status = "failed"]
      /\ \A i \in DOMAIN table \ S : table'[i] = table[i]
    BY DEF RecoverStaleClaims, RecoverStale, Updated, WorkerInv, WorkerTypeOK, StoreTypeOK
<1>3. \A i \in Ids \ S : Seen(i)' = Seen(i)
    BY <1>1, <1>2, SameRowSameSight DEF Held
<1>4. \A i \in S : /\ PhaseOf(i) = "lost"
                   /\ PhaseOf(i)' = IF TriesOf(i) < LimitOf(i) THEN "pending" ELSE "failed"
                   /\ TriesOf(i)' = TriesOf(i) /\ LimitOf(i)' = LimitOf(i)
    <2> SUFFICES ASSUME NEW i \in S
                 PROVE  /\ PhaseOf(i) = "lost"
                        /\ PhaseOf(i)' = IF TriesOf(i) < LimitOf(i) THEN "pending" ELSE "failed"
                        /\ TriesOf(i)' = TriesOf(i) /\ LimitOf(i)' = LimitOf(i)
        OBVIOUS
    <2>1. /\ i \in DOMAIN table /\ i \in DOMAIN table' /\ i \in Ids
          /\ table[i] \in Row /\ table[i].status = "running"
        BY <1>2 DEF Stale, HasStatus
    <2>2. PhaseOf(i) = "lost"
        BY <1>1, <2>1 DEF PhaseOf, Held
    <2>3. /\ table'[i].attempts = table[i].attempts /\ table'[i].limit = table[i].limit
          /\ table'[i].status = IF table[i].attempts < table[i].limit THEN "pending" ELSE "failed"
        BY <1>2, <2>1 DEF Requeued, Row
    <2> QED
        BY <2>1, <2>2, <2>3 DEF PhaseOf, TriesOf, LimitOf
<1>5. Queue!InPhase("active") = {}
    BY <1>1, <1>2 DEF Queue!InPhase, PhaseOf, Held, Row, Statuses
<1>6. S \subseteq Queue!InPhase("lost") /\ S \in SUBSET Ids
    BY <1>2, <1>4 DEF Queue!InPhase
<1>7. PhaseBar' = [i \in Ids |-> IF i \in S
                                 THEN IF TriesOf(i) < LimitOf(i) THEN "pending" ELSE "failed"
                                 ELSE PhaseBar[i]]
    <2>1. \A i \in Ids : PhaseOf(i)' = IF i \in S
                                 THEN IF TriesOf(i) < LimitOf(i) THEN "pending" ELSE "failed"
                                 ELSE PhaseOf(i)
        BY <1>3, <1>4 DEF Seen
    <2> QED
        BY <2>1 DEF PhaseBar
<1>8. TriesBar' = TriesBar /\ LimitBar' = LimitBar
    BY <1>3, <1>4 DEF Seen, TriesBar, LimitBar
<1> QED
    <2>1. \A i \in Ids : TriesBar[i] = TriesOf(i) /\ LimitBar[i] = LimitOf(i)
        BY DEF TriesBar, LimitBar
    <2>2. PhaseBar' = [i \in Ids |-> IF i \in S
                                 THEN IF TriesBar[i] < LimitBar[i] THEN "pending" ELSE "failed"
                                 ELSE PhaseBar[i]]
        BY <1>7, <2>1
    <2> HIDE DEF S
    <2> QED
        BY <1>5, <1>6, <2>2, <1>8
           DEF Queue!Find, Queue!Move, PhaseBar, TriesBar, LimitBar, TriesOf, LimitOf

(* A claim begins the job, and loses it at once if the worker does not get   *)
(* to know of it.                                                            *)
LEMMA ClaimIsBegin ==
    ASSUME WorkerInv, AttemptsBounded, NEW w \in Workers, OwnStep(w), pc[w] = "claim",
           NEW i \in Ids, ClaimDue(i, w), InHand(w)' \in {i, NULL}
    PROVE  Queue!Begin(i)
<1>1. \A v \in Workers : InHand(v) = NULL
    BY NobodyWorks
<1>2. \A v \in Workers : v # w => InHand(v)' = NULL
    BY <1>1, OtherHandsKept DEF WorkerInv
<1>3. \A j \in Ids : ~Held(j) /\ (j # i => ~Held(j)')
    BY <1>1, <1>2, WorkerConstants DEF Held
<1>4. /\ HasStatus(i, "pending") /\ table[i] \in Row
      /\ DOMAIN table' = DOMAIN table
      /\ table'[i].status = "running" /\ table'[i].attempts = table[i].attempts + 1
      /\ table'[i].limit = table[i].limit
      /\ \A j \in DOMAIN table \ {i} : table'[j] = table[j]
    BY DEF ClaimDue, FirstDue, Due, HasStatus, Updated, WorkerInv, WorkerTypeOK, StoreTypeOK, Row
<1>5. Unseen({i})
    BY <1>3, <1>4, SameRowSameSight DEF Unseen, Held
<1>6. /\ PhaseOf(i) = "pending" /\ PhaseOf(i)' \in {"active", "lost"}
      /\ TriesOf(i) < LimitOf(i)
      /\ TriesOf(i)' = TriesOf(i) + 1 /\ LimitOf(i)' = LimitOf(i)
    BY <1>4 DEF PhaseOf, TriesOf, LimitOf, HasStatus, AttemptsBounded
<1>7. Queue!InPhase("active") = {}
    <2>1. ASSUME NEW j \in Ids PROVE PhaseOf(j) # "active"
        <3>1. j \in DOMAIN table => table[j].status \in Statuses
            BY DEF WorkerInv, WorkerTypeOK, StoreTypeOK, Row
        <3> QED
            BY <1>3, <3>1 DEF PhaseOf, Held, Statuses
    <2> QED
        BY <2>1 DEF Queue!InPhase
<1> QED
    BY <1>5, <1>6, <1>7, OneSeen
       DEF Queue!Begin, PhaseBar, TriesBar, LimitBar, TriesOf, LimitOf

(* Whoever lays down its job settles it, hands it back or loses it.          *)
LEMMA LayingDownIsLeave ==
    ASSUME WorkerInv, NEW w \in Workers, OwnStep(w), pc[w] \in Executing, job'[w] = NULL,
           LET i == InHand(w)
           IN  /\ DOMAIN table' = DOMAIN table
               /\ \A j \in DOMAIN table \ {i} : table'[j] = table[j]
               /\ table'[i].attempts = table[i].attempts /\ table'[i].limit = table[i].limit
               /\ \/ table'[i].status \in {"succeeded", "failed", "running"}
                  \/ table'[i].status = "pending" /\ table[i].attempts < table[i].limit
    PROVE  \E i \in Ids : Queue!Leave(i)
<1>1. PICK i \in Ids : i = InHand(w) /\ HasStatus(i, "running")
    BY HandIsJob DEF WorkerInv, ExecutorOwnsItsClaim
<1>2. \A v \in Workers : v # w => InHand(v) = NULL /\ InHand(v)' = NULL
    BY OneHand, OtherHandsKept DEF WorkerInv
<1>3. InHand(w)' = NULL
    BY DEF InHand
<1>4. Held(i) /\ \A j \in Ids : ~Held(j)' /\ (j # i => ~Held(j))
    BY <1>1, <1>2, <1>3, WorkerConstants DEF Held
<1>5. Unseen({i})
    BY <1>1, <1>4, SameRowSameSight DEF Unseen, Held
<1>6. i \in DOMAIN table
    BY <1>1 DEF HasStatus
<1>7. PhaseOf(i) = "active"
    BY <1>1, <1>4, <1>6 DEF PhaseOf, Held, HasStatus
<1>8. \/ PhaseOf(i)' \in {"succeeded", "failed", "lost"}
      \/ PhaseOf(i)' = "pending" /\ TriesOf(i) < LimitOf(i)
    BY <1>1, <1>4, <1>6 DEF PhaseOf, TriesOf, LimitOf, Held
<1>9. TriesOf(i)' = TriesOf(i) /\ LimitOf(i)' = LimitOf(i)
    BY <1>1, <1>6 DEF TriesOf, LimitOf
<1>10. PhaseBar' = [PhaseBar EXCEPT ![i] = PhaseOf(i)']
    BY <1>1, <1>5, OneSeen
<1>11. TriesBar' = TriesBar /\ LimitBar' = LimitBar
    BY <1>1, <1>5, <1>9 DEF Unseen, Seen, TriesBar, LimitBar
<1>12. PhaseBar[i] = "active" /\ TriesBar[i] = TriesOf(i) /\ LimitBar[i] = LimitOf(i)
    BY <1>1, <1>7 DEF PhaseBar, TriesBar, LimitBar
<1>13. \/ \E p \in {"succeeded", "failed", "lost"} : PhaseBar' = [PhaseBar EXCEPT ![i] = p]
       \/ TriesBar[i] < LimitBar[i] /\ PhaseBar' = [PhaseBar EXCEPT ![i] = "pending"]
    BY <1>8, <1>10, <1>12
<1> QED
    BY <1>1, <1>11, <1>12, <1>13
       DEF Queue!Leave, PhaseBar, TriesBar, LimitBar, TriesOf, LimitOf

(* A step that touches neither table nor hands is not seen.                  *)
LEMMA HandsAndTableKept ==
    ASSUME UNCHANGED table, \A v \in Workers : InHand(v)' = InHand(v)
    PROVE  UNCHANGED Queue!queueVars
<1>1. \A i : Held(i)' = Held(i)
    BY DEF Held
<1>2. Unseen({})
    BY <1>1, SameRowSameSight DEF Unseen
<1> QED
    BY <1>2 DEF Unseen, Seen, Queue!queueVars, TriesOf, LimitOf

-----------------------------------------------------------------------------
LEMMA OwnStepMapped ==
    ASSUME WorkerInv, AttemptsBounded, NEW w \in Workers, OwnStep(w)
    PROVE  [Queue!QueueNext]_(Queue!queueVars)
<1>1. CASE RecoverStaleClaims(w)
    BY <1>1, RecoverIsFind DEF Queue!QueueNext
<1>2. CASE ClaimNext(w)
    <2>1. PICK i \in Ids : ClaimDue(i, w) /\ InHand(w)' \in {i, NULL}
        BY <1>2 DEF ClaimNext, InHand, WorkerInv, WorkerTypeOK
    <2>2. pc[w] = "claim"
        BY <1>2 DEF ClaimNext, At
    <2> QED
        BY <2>1, <2>2, ClaimIsBegin DEF Queue!QueueNext
<1>3. CASE ClaimFaults(w)
    <2>1. pc[w] = "claim" /\ \A v \in Workers : InHand(v)' = InHand(v)
        BY <1>3 DEF ClaimFaults, At, InHand
    <2>2. InHand(w) = NULL
        BY <2>1, NobodyWorks
    <2>3. CASE UNCHANGED storeVars
        BY <2>1, <2>3, HandsAndTableKept DEF storeVars
    <2>4. CASE \E i \in Ids : ClaimDue(i, w)
        BY <2>1, <2>2, <2>4, ClaimIsBegin DEF Queue!QueueNext
    <2> QED
        BY <1>3, <2>3, <2>4 DEF ClaimFaults
<1>4. CASE RecordsSuccess(w) \/ RecordsFailure(w) \/ RetriesJob(w)
    <2> DEFINE i == InHand(w)
    <2>1. /\ pc[w] \in Executing /\ job'[w] = NULL /\ i = job[w].id
        BY <1>4, HandIsJob DEF RecordsSuccess, RecordsFailure, RetriesJob, LeavesJob, At,
                               Executing, WorkerInv, WorkerTypeOK
    <2>2. HasStatus(i, "running") /\ i \in DOMAIN table /\ table[i] \in Row
        BY <2>1 DEF WorkerInv, ExecutorOwnsItsClaim, HasStatus, WorkerTypeOK, StoreTypeOK
    <2>3. /\ DOMAIN table' = DOMAIN table
          /\ \A j \in DOMAIN table \ {i} : table'[j] = table[j]
        BY <1>4, <2>1 DEF RecordsSuccess, RecordsFailure, RetriesJob, Finish, Retry, Updated
    <2>4. CASE RecordsSuccess(w) \/ RecordsFailure(w)
        <3>1. PICK succeeded \in BOOLEAN : Finish(i, succeeded)
            BY <2>1, <2>4 DEF RecordsSuccess, RecordsFailure
        <3>2. table'[i] = [table[i] EXCEPT !.status = IF succeeded THEN "succeeded" ELSE "failed"]
            BY <2>2, <3>1 DEF Finish, Updated
        <3>3. /\ table'[i].attempts = table[i].attempts /\ table'[i].limit = table[i].limit
              /\ table'[i].status \in {"succeeded", "failed", "running"}
            BY <2>2, <3>2 DEF Row
        <3> QED
            BY <2>1, <2>3, <3>3, LayingDownIsLeave DEF Queue!QueueNext
    <2>5. CASE RetriesJob(w)
        <3>1. /\ Retryable(i)
              /\ table'[i] = [Requeued(table[i]) EXCEPT !.runAt = now + DelayAfter(job[w].attempt)]
            BY <2>1, <2>2, <2>5 DEF RetriesJob, Retry, Updated
        <3>2. /\ table'[i].attempts = table[i].attempts /\ table'[i].limit = table[i].limit
              /\ table'[i].status = "pending" /\ table[i].attempts < table[i].limit
            BY <2>2, <3>1 DEF Row, Requeued, Retryable
        <3> QED
            BY <2>1, <2>3, <3>2, LayingDownIsLeave DEF Queue!QueueNext
    <2> QED
        BY <1>4, <2>4, <2>5
<1>5. CASE HandlerFaults(w) \/ Crash(w)
    <2>1. job'[w] = NULL /\ UNCHANGED table
        BY <1>5 DEF HandlerFaults, Crash, LeavesJob, storeVars, WorkerInv, WorkerTypeOK
    <2>2. CASE pc[w] \in Executing
        <3>1. HasStatus(InHand(w), "running")
            BY <2>2, HandIsJob DEF WorkerInv, ExecutorOwnsItsClaim
        <3> QED
            BY <2>1, <2>2, <3>1, LayingDownIsLeave DEF Queue!QueueNext, HasStatus
    <2>3. CASE pc[w] \notin Executing
        <3>1. InHand(w)' = InHand(w)
            BY <2>1, <2>3, HandIsJob DEF InHand, WorkerInv
        <3> QED
            BY <2>1, <3>1, OtherHandsKept, HandsAndTableKept DEF WorkerInv
    <2> QED
        BY <2>2, <2>3
<1>6. CASE \/ Start(w) \/ NothingDue(w) \/ Flow(w) \/ NoRetry(w) \/ UserClosesBrowser(w)
           \/ FinishFaults(w)
    <2>1. UNCHANGED table
        BY <1>6 DEF Start, NothingDue, Flow, RefusesJob, LaunchFails, FlowFails, EntersClass,
            MeetingEnds, MeetingOutlasts, NoRetry, UserClosesBrowser, FinishFaults, storeVars
    <2>2. InHand(w)' = InHand(w)
        <3>1. CASE job' = job
            BY <3>1 DEF InHand
        <3>2. CASE RefusesJob(w) \/ LaunchFails(w) \/ FlowFails(w) \/ FinishFaults(w)
            <4>1. pc[w] \in Executing /\ \E f : job' = [job EXCEPT ![w].failure = f]
                BY <3>2 DEF RefusesJob, LaunchFails, FlowFails, FinishFaults, Fails, At, Executing
            <4>2. pc'[w] \in Executing
                BY <3>2 DEF RefusesJob, LaunchFails, FlowFails, FinishFaults, Goto, Executing,
                            WorkerInv, WorkerTypeOK
            <4>3. job[w] \in Job /\ job[w] # NULL
                BY <4>1, HandIsJob DEF WorkerInv, JobInHand
            <4>4. JobInHand'
                BY JobStep, <3>2 DEF WorkerNext, WorkerLoop, Flow, Faults, WorkerInv
            <4>5. job'[w] # NULL
                BY <4>2, <4>4 DEF JobInHand
            <4>6. job'[w].id = job[w].id
                BY <4>1, <4>3 DEF Job, WorkerInv, WorkerTypeOK
            <4> QED
                BY <4>3, <4>5, <4>6 DEF InHand
        <3> QED
            BY <1>6, <3>1, <3>2 DEF Start, NothingDue, Flow, EntersClass, MeetingEnds,
                MeetingOutlasts, NoRetry, UserClosesBrowser
    <2> QED
        BY <2>1, <2>2, OtherHandsKept, HandsAndTableKept DEF WorkerInv
<1> QED
    BY <1>1, <1>2, <1>3, <1>4, <1>5, <1>6 DEF OwnStep, WorkerLoop, Faults

(* For every number of workers, jobs and incidents: the worker keeps the     *)
(* promise of ClassQueue.                                                    *)
THEOREM WorkerImplementsQueue == WorkerSpec => ImplementsQueue
<1>1. WorkerInit => Queue!QueueInit
    BY DEF WorkerInit, StoreInit, Queue!QueueInit, PhaseOf
<1>2. ASSUME WorkerInv, AttemptsBounded, [WorkerNext]_vars
      PROVE  [Queue!QueueNext]_(Queue!queueVars)
    <2>1. CASE UNCHANGED vars
        BY <2>1, HandsAndTableKept DEF vars, storeVars, workerVars, InHand
    <2>2. CASE TimePasses
        BY <2>2, HandsAndTableKept DEF TimePasses, Tick, workerVars, InHand
    <2>3. CASE Clients
        BY <1>2, <2>3, CreateIsSubmit, CancelIsWithdraw DEF Clients, Queue!QueueNext
    <2>4. ASSUME NEW w \in Workers, OwnStep(w) PROVE [Queue!QueueNext]_(Queue!queueVars)
        BY <1>2, <2>4, OwnStepMapped
    <2> QED
        BY <1>2, <2>1, <2>2, <2>3, <2>4 DEF WorkerNext, OwnStep
<1> QED
    BY <1>1, <1>2, WorkerInvariant, WorkersKeepAttemptsBounded, PTL
       DEF WorkerSpec, ImplementsQueue, Queue!QueueSpec

-----------------------------------------------------------------------------
(* A worker inside a flow follows ClassFlow, which FullFlow implements.      *)
InFlow(w) == pc[w] \in {"flow", "meeting", "held"}

JobFlow(w) == INSTANCE ClassFlow WITH
    place <- pc[w], failure <- job[w].failure, session <- session[w]

StepOfFlow(w) ==
    \/ JobFlow(w)!Refused \/ JobFlow(w)!LaunchFailed \/ JobFlow(w)!FailedWithTab
    \/ JobFlow(w)!ClassJoined \/ JobFlow(w)!MeetingEnded \/ JobFlow(w)!MonitorEnded
    \/ JobFlow(w)!TabClosed

LEMMA StepsOfOthers ==
    ASSUME WorkerInv, NEW v \in Workers, NEW w \in Workers, v # w, InFlow(w), OwnStep(v)
    PROVE  pc'[w] = pc[w] /\ job'[w] = job[w] /\ session'[w] = session[w]
<1>1. pc[v] = "off" /\ lock = w
    BY StepperIsAlone DEF WorkerInv, InFlow, LockHeld
<1>2. ~Start(v)
    BY <1>1, StoreConstants DEF Start, Workers
<1>3. FALSE
    BY <1>1, <1>2 DEF OwnStep, WorkerLoop, Flow, Faults, RecoverStaleClaims, NothingDue, ClaimNext,
        RefusesJob, LaunchFails, FlowFails, EntersClass, MeetingEnds, MeetingOutlasts,
        RecordsSuccess, RetriesJob, NoRetry, RecordsFailure, UserClosesBrowser, ClaimFaults,
        FinishFaults, HandlerFaults, Crash, At
<1> QED
    BY <1>3

(* As long as its process lives, the flow of a claimed job takes no steps     *)
(* but those of ClassFlow, whatever other workers and the GUI do.             *)
THEOREM FlowsFollowClassFlow ==
    WorkerSpec => [][\A w \in Workers :
        InFlow(w) /\ pc'[w] # "off"
            => StepOfFlow(w) \/ UNCHANGED <<pc[w], job[w], session[w]>>]_vars
<1>1. WorkerInv /\ [WorkerNext]_vars =>
        \A w \in Workers : InFlow(w) /\ pc'[w] # "off"
            => StepOfFlow(w) \/ UNCHANGED <<pc[w], job[w], session[w]>>
    <2> SUFFICES ASSUME WorkerInv, [WorkerNext]_vars, NEW w \in Workers, InFlow(w), pc'[w] # "off"
                 PROVE  StepOfFlow(w) \/ UNCHANGED <<pc[w], job[w], session[w]>>
        OBVIOUS
    <2>1. CASE UNCHANGED vars \/ TimePasses \/ Clients
        BY <2>1 DEF vars, workerVars, TimePasses, Clients
    <2>2. ASSUME NEW v \in Workers, v # w, OwnStep(v)
          PROVE  UNCHANGED <<pc[w], job[w], session[w]>>
        BY <2>2, StepsOfOthers
    <2>3. CASE OwnStep(w)
        <3> USE DEF StepOfFlow, JobFlow!Refused, JobFlow!LaunchFailed, JobFlow!FailedWithTab,
                JobFlow!ClassJoined, JobFlow!MeetingEnded, JobFlow!MonitorEnded, JobFlow!TabClosed,
                WorkerInv, WorkerTypeOK, At, Goto, Fails, Job, InFlow
        <3>1. job[w] \in Job
            BY HandIsJob DEF Executing
        <3>2. CASE RefusesJob(w) \/ LaunchFails(w) \/ FlowFails(w)
            <4>1. ASSUME NEW failure \in Failures, Fails(w, failure)
                  PROVE  job'[w].failure = failure
                BY <3>1, <4>1 DEF Failures
            <4>2. CASE RefusesJob(w)
                <5>1. pc[w] = "flow" /\ pc'[w] = "handler" /\ session' = session
                    BY <4>2 DEF RefusesJob
                <5>2. job'[w].failure = "permanent"
                    BY <4>1, <4>2 DEF RefusesJob, Failures
                <5> QED
                    BY <5>1, <5>2
            <4>3. CASE LaunchFails(w)
                <5>1. pc[w] = "flow" /\ pc'[w] = "handler" /\ session'[w] \in BOOLEAN
                    BY <4>3 DEF LaunchFails
                <5>2. job'[w].failure = "retryable"
                    BY <4>1, <4>3 DEF LaunchFails, Failures
                <5> QED
                    BY <5>1, <5>2
            <4>4. CASE FlowFails(w)
                <5>1. pc[w] = "flow" /\ pc'[w] = "held" /\ session'[w] = TRUE
                    BY <4>4 DEF FlowFails
                <5>2. job'[w].failure \in {"retryable", "permanent"}
                    BY <4>1, <4>4 DEF FlowFails, Failures
                <5> QED
                    BY <5>1, <5>2
            <4> QED
                BY <3>2, <4>2, <4>3, <4>4
        <3>3. CASE EntersClass(w)
            BY <3>1, <3>3 DEF EntersClass
        <3>4. CASE MeetingEnds(w) \/ MeetingOutlasts(w) \/ UserClosesBrowser(w)
            BY <3>1, <3>4 DEF MeetingEnds, MeetingOutlasts, UserClosesBrowser
        <3>5. CASE Crash(w)
            BY <3>5 DEF Crash
        <3> QED
            BY <2>3, <3>2, <3>3, <3>4, <3>5 DEF OwnStep, WorkerLoop, Flow, Faults, Start,
                RecoverStaleClaims, NothingDue, ClaimNext, RecordsSuccess, RetriesJob, NoRetry,
                RecordsFailure, ClaimFaults, FinishFaults, HandlerFaults
    <2> QED
        BY <2>1, <2>2, <2>3 DEF WorkerNext, OwnStep
<1> QED
    BY <1>1, WorkerInvariant, PTL DEF WorkerSpec

(* A step that is taken by the flow of one worker alone: it notes an entry   *)
(* to the class, and does not stop a session that was there before it.       *)
OnlyFlowMoves(w) ==
    /\ pc' = [pc EXCEPT ![w] = pc'[w]]
    /\ job' = [job EXCEPT ![w].failure = job'[w].failure]
    /\ session' = [session EXCEPT ![w] = session'[w]]
    /\ joined' = IF pc[w] = "flow" /\ job'[w].failure = "none"
                 THEN [joined EXCEPT ![job[w].id] = @ + 1] ELSE joined
    /\ pc[w] = "flow" /\ session[w] => session'[w]
    /\ UNCHANGED <<storeVars, lock, incidents>>

(* And no step of ClassFlow is missing from the worker: whatever a flow that  *)
(* implements ClassFlow does, as FullFlow, is a step of this specification,   *)
(* so the theorems about it hold of a worker that runs such a flow.           *)
THEOREM EveryClassFlowIsCovered ==
    ASSUME WorkerInv, AutoClose = BOOLEAN,
           NEW w \in Workers, InFlow(w), StepOfFlow(w), OnlyFlowMoves(w)
    PROVE  Flow(w) \/ UserClosesBrowser(w)
<1> USE DEF OnlyFlowMoves, At, Goto, Fails
<1>1. /\ job[w] \in Job
      /\ pc[w] \in {"flow", "meeting"} => job[w].failure = "none"
      /\ job \in [Workers -> Job \cup {NULL}] /\ session \in [Workers -> BOOLEAN]
      /\ pc \in [Workers -> {"off", "recover", "claim"} \cup Executing]
    BY HandIsJob DEF WorkerInv, NotFailedYet, InFlow, Executing, WorkerTypeOK
<1>2. ASSUME job'[w].failure = job[w].failure PROVE job' = job
    <2>1. [job[w] EXCEPT !.failure = job[w].failure] = job[w]
        BY <1>1 DEF Job
    <2>2. job' = [job EXCEPT ![w] = job[w]]
        BY <1>2, <2>1
    <2> QED
        BY <1>1, <2>2
<1>3. ASSUME session'[w] = session[w] PROVE session' = session
    BY <1>1, <1>3
<1>4. CASE JobFlow(w)!Refused
    <2>1. RefusesJob(w)
        BY <1>1, <1>3, <1>4 DEF JobFlow!Refused, RefusesJob
    <2> QED
        BY <2>1 DEF Flow
<1>5. CASE JobFlow(w)!LaunchFailed
    <2>1. session' \in {session, [session EXCEPT ![w] = TRUE]}
        BY <1>1, <1>3, <1>5 DEF JobFlow!LaunchFailed
    <2>2. LaunchFails(w)
        BY <1>1, <1>5, <2>1 DEF JobFlow!LaunchFailed, LaunchFails
    <2> QED
        BY <2>2 DEF Flow
<1>6. CASE JobFlow(w)!FailedWithTab
    <2>1. FlowFails(w)
        BY <1>1, <1>6 DEF JobFlow!FailedWithTab, FlowFails
    <2> QED
        BY <2>1 DEF Flow
<1>7. CASE JobFlow(w)!ClassJoined
    <2>1. /\ pc[w] = "flow" /\ pc'[w] \in {"meeting", "held"} /\ session'[w] = TRUE
          /\ job'[w].failure = "none" /\ job' = job
        BY <1>1, <1>2, <1>7 DEF JobFlow!ClassJoined
    <2>2. \E autoClose \in AutoClose : pc'[w] = IF autoClose THEN "meeting" ELSE "held"
        BY <2>1
    <2>3. EntersClass(w)
        BY <2>1, <2>2 DEF EntersClass
    <2> QED
        BY <2>3 DEF Flow
<1>8. CASE JobFlow(w)!MeetingEnded
    <2>1. MeetingEnds(w)
        BY <1>1, <1>2, <1>8 DEF JobFlow!MeetingEnded, MeetingEnds
    <2> QED
        BY <2>1 DEF Flow
<1>9. CASE JobFlow(w)!MonitorEnded
    <2>1. MeetingOutlasts(w)
        BY <1>1, <1>2, <1>3, <1>9 DEF JobFlow!MonitorEnded, MeetingOutlasts
    <2> QED
        BY <2>1 DEF Flow
<1>10. CASE JobFlow(w)!TabClosed
    <2>1. UserClosesBrowser(w)
        BY <1>1, <1>2, <1>3, <1>10 DEF JobFlow!TabClosed, UserClosesBrowser
    <2> QED
        BY <2>1
<1> QED
    BY <1>4, <1>5, <1>6, <1>7, <1>8, <1>9, <1>10 DEF StepOfFlow
=============================================================================

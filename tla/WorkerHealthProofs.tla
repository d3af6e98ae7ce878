-------------------------- MODULE WorkerHealthProofs --------------------------
(***************************************************************************)
(* Proofs about WorkerHealth, for any number of worker processes and of     *)
(* checks.  The argument is who may hold the lock: a worker only while it   *)
(* runs, a check only between its probe and the release.                    *)
(***************************************************************************)
EXTENDS WorkerHealth, TLAPS

(* The strengthening of RunningHoldsLock: with it, whoever frees the lock    *)
(* frees its own.                                                            *)
HoldersUseLock ==
    /\ \A c \in Checkers : check[c] = "probed" => lock = c
    /\ lock \in Checkers => check[lock] = "probed"
    /\ lock \in Workers => worker[lock] = "running"

HealthInv == HealthTypeOK /\ RunningHoldsLock /\ HoldersUseLock

LEMMA HealthInitInv == HealthInit => HealthInv
<1> SUFFICES ASSUME HealthInit PROVE HealthInv
    OBVIOUS
<1>1. HealthTypeOK
    BY DEF HealthInit, HealthTypeOK
<1>2. RunningHoldsLock /\ HoldersUseLock
    BY HealthConstants DEF HealthInit, RunningHoldsLock, HoldersUseLock
<1> QED
    BY <1>1, <1>2 DEF HealthInv

-----------------------------------------------------------------------------
(* A step of a check other than probing and releasing: it is the check's     *)
(* own, does not touch the lock, and leads to neither probed nor healthy.    *)
OwnStep(c) ==
    /\ check' \in [Checkers -> {"idle", "look", "probe", "probed", "unhealthy", "register", "run",
                            "direct", "healthy", "failed", "registered", "inactive", "done",
                            "raised"}]
    /\ check[c] \notin {"probe", "probed"} /\ check'[c] \notin {"probed", "healthy"}
    /\ \A d \in Checkers \ {c} : check'[d] = check[d]
    /\ UNCHANGED lock

LEMMA GoesIsOwnStep ==
    ASSUME HealthTypeOK, NEW c \in Checkers,
           check[c] \notin {"probe", "probed"}, UNCHANGED lock,
           NEW to \in {"look", "probe", "unhealthy", "register", "run", "direct", "failed",
                      "registered", "inactive", "done", "raised"},
           CheckGoes(c, to)
    PROVE  OwnStep(c)
BY DEF HealthTypeOK, CheckGoes, OwnStep

(* The first look leads to the probe or shows that the worker is unhealthy.  *)
LEMMA LooksLeads ==
    ASSUME NEW c \in Checkers, Looks(c)
    PROVE  CheckGoes(c, "probe") \/ CheckGoes(c, "unhealthy")
<1>1. PICK good \in LooksHealthy : CheckGoes(c, IF good THEN "probe" ELSE "unhealthy")
    BY DEF Looks
<1>2. CASE good
    BY <1>1, <1>2
<1>3. CASE ~good
    BY <1>1, <1>3
<1> QED
    BY <1>2, <1>3

LEMMA OtherCheckSteps ==
    ASSUME HealthTypeOK, NEW c \in Checkers, CheckSteps(c)
    PROVE  Probes(c) \/ ReleasesProbe(c) \/ OwnStep(c)
<1>1. CASE Looks(c)
    <2>1. check[c] = "look" /\ UNCHANGED lock
        BY <1>1 DEF Looks
    <2> QED
        BY <1>1, <2>1, LooksLeads, GoesIsOwnStep
<1>2. CASE Verifies(c)
    <2>1. check[c] = "unhealthy" /\ UNCHANGED lock
        BY <1>2 DEF Verifies
    <2>2. CheckGoes(c, "run") \/ CheckGoes(c, "register") \/ CheckGoes(c, "raised")
        BY <1>2 DEF Verifies
    <2> QED
        BY <2>1, <2>2, GoesIsOwnStep
<1>3. CASE Registers(c) \/ RunsTask(c) \/ StartsDirectly(c)
    <2>1. check[c] \in {"register", "run", "direct"} /\ UNCHANGED lock
        BY <1>3 DEF Registers, RunsTask, StartsDirectly
    <2>2. CheckGoes(c, "run") \/ CheckGoes(c, "direct") \/ CheckGoes(c, "look") \/ CheckGoes(c, "raised")
        BY <1>3 DEF Registers, RunsTask, StartsDirectly
    <2> QED
        BY <2>1, <2>2, GoesIsOwnStep
<1>4. CASE LooksAgain(c) \/ GivesUp(c)
    <2>1. check[c] = "unhealthy" /\ UNCHANGED lock
        BY <1>4 DEF LooksAgain, GivesUp
    <2>2. CheckGoes(c, "look") \/ CheckGoes(c, "failed")
        BY <1>4 DEF LooksAgain, GivesUp
    <2> QED
        BY <2>1, <2>2, GoesIsOwnStep
<1>5. CASE ReadsRow(c)
    <2>1. check[c] \in {"healthy", "failed"} /\ UNCHANGED lock
        BY <1>5 DEF ReadsRow
    <2>2. CheckGoes(c, "registered") \/ CheckGoes(c, "inactive") \/ CheckGoes(c, "raised")
        BY <1>5 DEF ReadsRow
    <2> QED
        BY <2>1, <2>2, GoesIsOwnStep
<1>6. CASE UpdatesUi(c)
    <2>1. check[c] \in {"registered", "inactive"} /\ CheckGoes(c, "done") /\ UNCHANGED lock
        BY <1>6 DEF UpdatesUi
    <2> QED
        BY <2>1, GoesIsOwnStep
<1> QED
    BY <1>1, <1>2, <1>3, <1>4, <1>5, <1>6 DEF CheckSteps

-----------------------------------------------------------------------------
(* What a step of a worker process does to process and lock.                 *)
LEMMA WorkerTypeStep ==
    ASSUME HealthTypeOK, NEW w \in Workers, TakesLock(w) \/ Beats(w) \/ WorkerDies(w) \/ LogonStarts(w)
    PROVE  HealthTypeOK'
<1>1. CASE TakesLock(w)
    <2>1. lock' \in {lock, w} /\ (Becomes(w, "running") \/ Becomes(w, "exited"))
        BY <1>1 DEF TakesLock
    <2>2. met' \in BOOLEAN
        BY <1>1 DEF TakesLock, HealthTypeOK
    <2> QED
        BY <1>1, <2>1, <2>2 DEF TakesLock, Becomes, HealthTypeOK, CheckVars
<1>2. CASE Beats(w)
    BY <1>2 DEF Beats, HealthTypeOK, CheckVars, TaskVars
<1>3. CASE WorkerDies(w)
    <2>1. restart' \in BOOLEAN
        BY <1>3 DEF WorkerDies, HealthTypeOK
    <2> QED
        BY <1>3, <2>1 DEF WorkerDies, Becomes, HealthTypeOK, CheckVars
<1>4. CASE LogonStarts(w)
    BY <1>4 DEF LogonStarts, TaskStarts, Becomes, HealthTypeOK, CheckVars, TaskVars
<1> QED
    BY <1>1, <1>2, <1>3, <1>4

LEMMA WindowsTypeStep ==
    ASSUME HealthTypeOK, TaskRestarts \/ HeartbeatAges
    PROVE  HealthTypeOK'
<1>1. CASE TaskRestarts
    <2>1. CASE UNCHANGED <<worker, byTask>>
        BY <1>1, <2>1 DEF TaskRestarts, HealthTypeOK, CheckVars
    <2>2. ASSUME NEW w \in Workers, TaskStarts(w) PROVE HealthTypeOK'
        BY <1>1, <2>2 DEF TaskRestarts, TaskStarts, Becomes, HealthTypeOK, CheckVars
    <2> QED
        BY <1>1, <2>1, <2>2 DEF TaskRestarts
<1>2. CASE HeartbeatAges
    BY <1>2 DEF HeartbeatAges, HealthTypeOK, CheckVars, TaskVars
<1> QED
    BY <1>1, <1>2

LEMMA CheckTypeStep ==
    ASSUME HealthTypeOK, NEW c \in Checkers, CheckSteps(c) \/ Saves(c) \/ WorkerClaims(c)
    PROVE  HealthTypeOK'
<1>1. CASE Looks(c)
    BY <1>1, LooksLeads DEF Looks, CheckGoes, HealthTypeOK, WorkerVars, TaskVars
<1>2. CASE Probes(c)
    BY <1>2 DEF Probes, CheckGoes, HealthTypeOK, WorkerVars, TaskVars
<1>3. CASE ReleasesProbe(c)
    BY <1>3 DEF ReleasesProbe, CheckGoes, HealthTypeOK, WorkerVars, TaskVars
<1>4. CASE Verifies(c)
    BY <1>4 DEF Verifies, CheckGoes, HealthTypeOK, WorkerVars, TaskVars
<1>5. CASE Registers(c)
    BY <1>5 DEF Registers, CheckGoes, HealthTypeOK, WorkerVars
<1>6. CASE RunsTask(c)
    <2>1. CheckGoes(c, "look") \/ CheckGoes(c, "direct") \/ CheckGoes(c, "raised")
        BY <1>6 DEF RunsTask
    <2>2. \/ UNCHANGED <<worker, byTask>>
          \/ \E w \in Workers : TaskStarts(w)
        BY <1>6 DEF RunsTask
    <2>3. /\ byTask' \subseteq {w \in Workers : worker'[w] # "off"}
          /\ worker' \in [Workers -> {"off", "starting", "running", "exited", "dead"}]
        BY <2>2 DEF TaskStarts, Becomes, HealthTypeOK
    <2> QED
        BY <1>6, <2>1, <2>3 DEF RunsTask, CheckGoes, HealthTypeOK, TaskVars
<1>7. CASE StartsDirectly(c)
    <2>1. /\ byTask' \subseteq {w \in Workers : worker'[w] # "off"}
          /\ worker' \in [Workers -> {"off", "starting", "running", "exited", "dead"}]
        BY <1>7 DEF StartsDirectly, Becomes, HealthTypeOK
    <2> QED
        BY <1>7, <2>1 DEF StartsDirectly, CheckGoes, HealthTypeOK, TaskVars
<1>8. CASE LooksAgain(c) \/ GivesUp(c)
    BY <1>8 DEF LooksAgain, GivesUp, CheckGoes, HealthTypeOK, WorkerVars, TaskVars
<1>9. CASE ReadsRow(c)
    BY <1>9 DEF ReadsRow, CheckGoes, HealthTypeOK, WorkerVars, TaskVars
<1>10. CASE UpdatesUi(c)
    BY <1>10 DEF UpdatesUi, CheckGoes, HealthTypeOK, WorkerVars, TaskVars
<1>11. CASE Saves(c)
    BY <1>11 DEF Saves, CheckGoes, HealthTypeOK, WorkerVars, TaskVars
<1>12. CASE WorkerClaims(c)
    BY <1>12 DEF WorkerClaims, HealthTypeOK, WorkerVars, TaskVars
<1> QED
    BY <1>1, <1>2, <1>3, <1>4, <1>5, <1>6, <1>7, <1>8, <1>9, <1>10, <1>11, <1>12 DEF CheckSteps

LEMMA HealthTypeStep == HealthTypeOK /\ [HealthNext]_healthVars => HealthTypeOK'
<1> SUFFICES ASSUME HealthTypeOK, [HealthNext]_healthVars PROVE HealthTypeOK'
    OBVIOUS
<1>1. CASE UNCHANGED healthVars
    BY <1>1 DEF healthVars, WorkerVars, TaskVars, CheckVars, HealthTypeOK
<1> QED
    BY <1>1, WorkerTypeStep, WindowsTypeStep, CheckTypeStep DEF HealthNext, WorkerSteps

-----------------------------------------------------------------------------
(* A step of a worker touches the lock only to take a free one or to give up *)
(* its own.                                                                  *)
LEMMA WorkerKeepsLock ==
    ASSUME HealthInv, NEW w \in Workers,
           TakesLock(w) \/ Beats(w) \/ WorkerDies(w) \/ LogonStarts(w)
    PROVE  RunningHoldsLock' /\ HoldersUseLock'
<1>1. CASE TakesLock(w)
    BY <1>1, HealthConstants
       DEF TakesLock, Becomes, CheckVars, HealthInv, HealthTypeOK, RunningHoldsLock, HoldersUseLock
<1>2. CASE Beats(w)
    BY <1>2 DEF Beats, CheckVars, HealthInv, RunningHoldsLock, HoldersUseLock
<1>3. CASE WorkerDies(w)
    <2>1. lock = w /\ lock' = NULL /\ UNCHANGED check
        BY <1>3 DEF WorkerDies, CheckVars, HealthInv, RunningHoldsLock
    <2>2. \A v \in Workers : worker'[v] = "running" => v # w /\ worker[v] = "running"
        BY <1>3 DEF WorkerDies, Becomes, HealthInv, HealthTypeOK
    <2> QED
        BY <2>1, <2>2, HealthConstants DEF HealthInv, RunningHoldsLock, HoldersUseLock
<1>4. CASE LogonStarts(w)
    BY <1>4 DEF LogonStarts, TaskStarts, Becomes, CheckVars, HealthInv, HealthTypeOK,
                RunningHoldsLock, HoldersUseLock
<1> QED
    BY <1>1, <1>2, <1>3, <1>4

(* A worker that is started does not run yet, and none stops running by it.  *)
LEMMA StartingKeepsRunning ==
    ASSUME HealthTypeOK,
           UNCHANGED worker \/ \E w \in Workers : worker[w] = "off" /\ Becomes(w, "starting")
    PROVE  \A w \in Workers : worker'[w] = "running" <=> worker[w] = "running"
BY DEF Becomes, HealthTypeOK

LEMMA StartingKeepsLock ==
    ASSUME HealthInv, UNCHANGED <<lock, check>>,
           UNCHANGED worker \/ \E w \in Workers : worker[w] = "off" /\ Becomes(w, "starting")
    PROVE  RunningHoldsLock' /\ HoldersUseLock'
BY StartingKeepsRunning DEF HealthInv, RunningHoldsLock, HoldersUseLock

LEMMA WindowsKeepsLock ==
    ASSUME HealthInv, TaskRestarts \/ HeartbeatAges
    PROVE  RunningHoldsLock' /\ HoldersUseLock'
<1>1. UNCHANGED <<lock, check>>
    BY DEF TaskRestarts, HeartbeatAges, CheckVars
<1>2. UNCHANGED worker \/ \E w \in Workers : worker[w] = "off" /\ Becomes(w, "starting")
    BY DEF TaskRestarts, TaskStarts, HeartbeatAges
<1> QED
    BY <1>1, <1>2, StartingKeepsLock

(* What each step of a check does to the worker processes.                   *)
LEMMA CheckMayStart ==
    ASSUME NEW c \in Checkers, CheckSteps(c)
    PROVE  UNCHANGED worker \/ \E w \in Workers : worker[w] = "off" /\ Becomes(w, "starting")
<1>1. CASE RunsTask(c) \/ StartsDirectly(c)
    BY <1>1 DEF RunsTask, TaskStarts, StartsDirectly
<1>2. CASE Looks(c) \/ Probes(c) \/ ReleasesProbe(c) \/ Verifies(c) \/ Registers(c)
    BY <1>2 DEF Looks, Probes, ReleasesProbe, Verifies, Registers, WorkerVars
<1>3. CASE LooksAgain(c) \/ GivesUp(c) \/ ReadsRow(c) \/ UpdatesUi(c)
    BY <1>3 DEF LooksAgain, GivesUp, ReadsRow, UpdatesUi, WorkerVars
<1> QED
    BY <1>1, <1>2, <1>3 DEF CheckSteps

(* A check takes only a free lock and frees only the one that its own probe  *)
(* got: no worker loses its lock to a check.                                 *)
LEMMA CheckKeepsLock ==
    ASSUME HealthInv, NEW c \in Checkers, CheckSteps(c)
    PROVE  RunningHoldsLock' /\ HoldersUseLock'
<1>1. \A w \in Workers : worker'[w] = "running" <=> worker[w] = "running"
    BY CheckMayStart, StartingKeepsRunning DEF HealthInv
<1>2. CASE Probes(c)
    <2>1. UNCHANGED worker
        BY <1>2 DEF Probes, WorkerVars
    <2>2. CASE lock = NULL
        <3>1. lock' = c /\ check' = [check EXCEPT ![c] = "probed"]
            BY <1>2, <2>2 DEF Probes, CheckGoes
        <3>2. \A w \in Workers : worker[w] # "running"
            BY <2>2, HealthConstants DEF HealthInv, RunningHoldsLock
        <3>3. \A d \in Checkers : check[d] # "probed"
            BY <2>2, HealthConstants DEF HealthInv, HoldersUseLock
        <3> QED
            BY <2>1, <3>1, <3>2, <3>3, HealthConstants
               DEF HealthInv, HealthTypeOK, RunningHoldsLock, HoldersUseLock
    <2>3. CASE lock # NULL
        <3>1. UNCHANGED lock /\ check' = [check EXCEPT ![c] = "healthy"] /\ check[c] = "probe"
            BY <1>2, <2>3 DEF Probes, CheckGoes
        <3> QED
            BY <2>1, <3>1 DEF HealthInv, HealthTypeOK, RunningHoldsLock, HoldersUseLock
    <2> QED
        BY <2>2, <2>3
<1>3. CASE ReleasesProbe(c)
    <2>1. lock = c /\ lock' = NULL /\ check' = [check EXCEPT ![c] = "unhealthy"]
        BY <1>3 DEF ReleasesProbe, CheckGoes, HealthInv, HoldersUseLock
    <2>2. \A w \in Workers : worker[w] # "running"
        BY <2>1, HealthConstants DEF HealthInv, RunningHoldsLock
    <2> QED
        BY <1>1, <2>1, <2>2, HealthConstants
           DEF HealthInv, HealthTypeOK, RunningHoldsLock, HoldersUseLock
<1>4. CASE OwnStep(c)
    BY <1>1, <1>4 DEF OwnStep, HealthInv, RunningHoldsLock, HoldersUseLock
<1> QED
    BY <1>2, <1>3, <1>4, OtherCheckSteps DEF HealthInv

LEMMA SavesKeepsLock ==
    ASSUME HealthInv, NEW c \in Checkers, Saves(c) \/ WorkerClaims(c)
    PROVE  RunningHoldsLock' /\ HoldersUseLock'
<1>1. UNCHANGED <<lock, worker>>
    BY DEF Saves, WorkerClaims, WorkerVars
<1>2. \A d \in Checkers : check'[d] = "probed" <=> check[d] = "probed"
    BY DEF Saves, WorkerClaims, CheckGoes, HealthInv, HealthTypeOK
<1> QED
    BY <1>1, <1>2 DEF HealthInv, RunningHoldsLock, HoldersUseLock

LEMMA HealthStep == HealthInv /\ [HealthNext]_healthVars => HealthInv'
<1> SUFFICES ASSUME HealthInv, [HealthNext]_healthVars PROVE HealthInv'
    OBVIOUS
<1>1. HealthTypeOK'
    BY HealthTypeStep DEF HealthInv
<1>2. CASE UNCHANGED healthVars
    <2>1. RunningHoldsLock' /\ HoldersUseLock'
        BY <1>2 DEF healthVars, WorkerVars, CheckVars, HealthInv, RunningHoldsLock, HoldersUseLock
    <2> QED
        BY <1>1, <2>1 DEF HealthInv
<1>3. CASE HealthNext
    <2>1. RunningHoldsLock' /\ HoldersUseLock'
        BY <1>3, WorkerKeepsLock, WindowsKeepsLock, CheckKeepsLock, SavesKeepsLock
           DEF HealthNext, WorkerSteps
    <2> QED
        BY <1>1, <2>1 DEF HealthInv
<1> QED
    BY <1>2, <1>3

LEMMA HealthInvariant == HealthSpec => []HealthInv
<1> QED
    BY HealthInitInv, HealthStep, PTL DEF HealthSpec

(* Every variable keeps its type.                                            *)
THEOREM HealthTypeCorrect == HealthSpec => []HealthTypeOK
<1>1. HealthInv => HealthTypeOK
    BY DEF HealthInv
<1> QED
    BY <1>1, HealthInvariant, PTL

(* However many workers are started, by whomever, and whatever checks probe  *)
(* meanwhile: a worker that runs holds the lock.                             *)
THEOREM RunningWorkersHoldTheLock == HealthSpec => []RunningHoldsLock
<1>1. HealthInv => RunningHoldsLock
    BY DEF HealthInv
<1> QED
    BY <1>1, HealthInvariant, PTL

(* And so no two run at a time.                                              *)
THEOREM OneWorkerRuns ==
    HealthSpec => [](\A v, w \in Workers : worker[v] = "running" /\ worker[w] = "running" => v = w)
<1>1. HealthInv => \A v, w \in Workers : worker[v] = "running" /\ worker[w] = "running" => v = w
    BY DEF HealthInv, RunningHoldsLock
<1> QED
    BY <1>1, HealthInvariant, PTL

(* A check calls the worker healthy only when a worker held the lock, or     *)
(* another check's probe did just then.                                      *)
LEMMA HealthyStep ==
    ASSUME HealthInv, [HealthNext]_healthVars, NEW c \in Checkers,
           check[c] # "healthy", check'[c] = "healthy"
    PROVE  lock \in Workers \/ \E d \in Checkers \ {c} : check[d] = "probed"
<1>1. PICK d \in Checkers : CheckSteps(d) \/ Saves(d)
    BY DEF HealthNext, WorkerSteps, healthVars, CheckVars, TakesLock, Beats, WorkerDies,
           LogonStarts, TaskRestarts, HeartbeatAges, WorkerClaims
<1>2. CASE Saves(d)
    BY <1>2 DEF Saves, CheckGoes, HealthInv, HealthTypeOK
<1>3. CASE ReleasesProbe(d)
    BY <1>3 DEF ReleasesProbe, CheckGoes, HealthInv, HealthTypeOK
<1>4. CASE OwnStep(d)
    BY <1>4 DEF OwnStep
<1>5. CASE Probes(d)
    <2>1. CASE lock = NULL
        <3>1. check' = [check EXCEPT ![d] = "probed"]
            BY <1>5, <2>1 DEF Probes, CheckGoes
        <3> QED
            BY <3>1 DEF HealthInv, HealthTypeOK
    <2>2. CASE lock # NULL
        <3>1. check[d] = "probe" /\ check' = [check EXCEPT ![d] = "healthy"]
            BY <1>5, <2>2 DEF Probes, CheckGoes
        <3>2. d = c
            BY <3>1 DEF HealthInv, HealthTypeOK
        <3>3. lock \in Workers \/ lock \in Checkers
            BY <2>2 DEF HealthInv, HealthTypeOK
        <3>4. lock \in Checkers => check[lock] = "probed"
            BY DEF HealthInv, HoldersUseLock
        <3> QED
            BY <3>1, <3>2, <3>3, <3>4
    <2> QED
        BY <2>1, <2>2
<1> QED
    BY <1>1, <1>2, <1>3, <1>4, <1>5, OtherCheckSteps DEF HealthInv

THEOREM HealthyMeansAWorker == HealthSpec => HealthyMeansWorker
<1>1. HealthInv /\ [HealthNext]_healthVars =>
        [\A c \in Checkers :
           check[c] # "healthy" /\ check'[c] = "healthy" =>
              lock \in Workers \/ \E d \in Checkers \ {c} : check[d] = "probed"]_healthVars
    BY HealthyStep
<1> QED
    BY <1>1, HealthInvariant, PTL DEF HealthSpec, HealthyMeansWorker

-----------------------------------------------------------------------------
(* The way of a check to its end.  A step that is not its own leaves it       *)
(* where it is, unless it has not begun.                                     *)
LEMMA OthersLeaveCheck ==
    ASSUME HealthTypeOK, [HealthNext]_healthVars, NEW c \in Checkers, check[c] # "idle"
    PROVE  \/ CheckSteps(c)
           \/ check'[c] = check[c] /\ polling'[c] = polling[c] /\ told'[c] = told[c]
<1>1. CASE WorkerSteps \/ TaskRestarts \/ HeartbeatAges \/ UNCHANGED healthVars
    BY <1>1 DEF WorkerSteps, TakesLock, Beats, WorkerDies, LogonStarts, TaskRestarts, HeartbeatAges,
                healthVars, CheckVars
<1>2. ASSUME NEW d \in Checkers, Saves(d) \/ WorkerClaims(d)
      PROVE  check'[c] = check[c] /\ polling'[c] = polling[c] /\ told'[c] = told[c]
    <2>1. UNCHANGED <<polling, told>>
        BY <1>2 DEF Saves, WorkerClaims
    <2>2. check'[c] = check[c]
        BY <1>2 DEF Saves, WorkerClaims, CheckGoes, HealthTypeOK
    <2> QED
        BY <2>1, <2>2
<1>3. ASSUME NEW d \in Checkers \ {c}, CheckSteps(d)
      PROVE  check'[c] = check[c] /\ polling'[c] = polling[c] /\ told'[c] = told[c]
    <2>1. check'[c] = check[c]
        <3>1. CASE Probes(d) \/ ReleasesProbe(d)
            BY <3>1 DEF Probes, ReleasesProbe, CheckGoes, HealthTypeOK
        <3> QED
            BY <1>3, <3>1, OtherCheckSteps DEF OwnStep
    <2>2. polling'[c] = polling[c]
        BY <1>3 DEF CheckSteps, Looks, Probes, ReleasesProbe, Verifies, Registers, RunsTask,
                    StartsDirectly, LooksAgain, GivesUp, ReadsRow, UpdatesUi, HealthTypeOK
    <2>3. told'[c] = told[c]
        BY <1>3 DEF CheckSteps, Looks, Probes, ReleasesProbe, Verifies, Registers, RunsTask,
                    StartsDirectly, LooksAgain, GivesUp, ReadsRow, UpdatesUi, HealthTypeOK
    <2> QED
        BY <2>1, <2>2, <2>3
<1> QED
    BY <1>1, <1>2, <1>3 DEF HealthNext

(* Where each step of a check leads: a look, and perhaps a probe, to an       *)
(* answer; the first bad answer, by way of the task, to polling; polling to  *)
(* another look or to the end; and what is not caught, out of the thread.    *)
LEMMA WhereChecksGo ==
    ASSUME HealthTypeOK, NEW c \in Checkers, CheckSteps(c)
    PROVE  /\ check[c] = "look" => check'[c] \in {"probe", "unhealthy"}
           /\ check[c] = "probe" => check'[c] \in {"probed", "healthy"}
           /\ check[c] = "probed" => check'[c] = "unhealthy"
           /\ check[c] = "unhealthy" /\ ~polling[c] => check'[c] \in {"register", "run", "raised"} /\ polling'[c]
           /\ check[c] = "unhealthy" /\ polling[c] => check'[c] \in {"look", "failed"}
           /\ check[c] = "register" => check'[c] \in {"run", "direct", "raised"}
           /\ check[c] = "run" => check'[c] \in {"look", "direct", "raised"}
           /\ check[c] = "direct" => check'[c] = "look"
           /\ check[c] \in {"healthy", "failed"} => check'[c] \in {"registered", "inactive", "raised"}
           /\ check[c] \in {"registered", "inactive"} => check'[c] = "done" /\ told'[c] # "nothing"
           /\ check[c] \notin {"idle", "done", "raised"}
           /\ polling[c] => polling'[c]
<1> USE DEF HealthTypeOK
<1>1. CASE Looks(c)
    BY <1>1, LooksLeads DEF Looks, CheckGoes
<1>2. CASE Probes(c) \/ ReleasesProbe(c)
    BY <1>2 DEF Probes, ReleasesProbe, CheckGoes
<1>3. CASE Verifies(c) \/ Registers(c)
    BY <1>3 DEF Verifies, Registers, CheckGoes
<1>4. CASE RunsTask(c) \/ StartsDirectly(c)
    BY <1>4 DEF RunsTask, StartsDirectly, CheckGoes
<1>5. CASE LooksAgain(c) \/ GivesUp(c)
    BY <1>5 DEF LooksAgain, GivesUp, CheckGoes
<1>6. CASE ReadsRow(c)
    BY <1>6 DEF ReadsRow, CheckGoes
<1>7. CASE UpdatesUi(c)
    BY <1>7 DEF UpdatesUi, CheckGoes
<1> QED
    BY <1>1, <1>2, <1>3, <1>4, <1>5, <1>6, <1>7 DEF CheckSteps

(* A check comes to its end: polling ends by its deadline, and every other   *)
(* stage leads on.                                                           *)
LEMMA CheckComesToItsEnd ==
    ASSUME NEW c \in Checkers
    PROVE  HealthSpec /\ FairCheck(c) /\ []CheckCanGoOn(c)
             => ((check[c] = "look") ~> (told[c] # "nothing" \/ check[c] = "raised"))
<1> DEFINE At(stage) == check[c] = stage
           Answered == At("healthy") \/ At("failed")
           Read == At("registered") \/ At("inactive")
           Ended == told[c] # "nothing" \/ check[c] = "raised"
<1>1. /\ HealthTypeOK /\ At("look") /\ [HealthNext]_healthVars => At("look")' \/ (At("probe") \/ At("unhealthy"))'
      /\ HealthTypeOK /\ At("look") /\ <<CheckSteps(c)>>_healthVars => (At("probe") \/ At("unhealthy"))'
    BY OthersLeaveCheck, WhereChecksGo
<1>2. /\ HealthTypeOK /\ At("probe") /\ [HealthNext]_healthVars => At("probe")' \/ (At("probed") \/ Answered)'
      /\ HealthTypeOK /\ At("probe") /\ <<CheckSteps(c)>>_healthVars => (At("probed") \/ Answered)'
    BY OthersLeaveCheck, WhereChecksGo
<1>3. /\ HealthTypeOK /\ At("probed") /\ [HealthNext]_healthVars => At("probed")' \/ At("unhealthy")'
      /\ HealthTypeOK /\ At("probed") /\ <<CheckSteps(c)>>_healthVars => At("unhealthy")'
    BY OthersLeaveCheck, WhereChecksGo
<1>4. /\ HealthTypeOK /\ (At("unhealthy") /\ ~polling[c]) /\ [HealthNext]_healthVars => (At("unhealthy") /\ ~polling[c])' \/ (((At("register") \/ At("run")) /\ polling[c]) \/ Ended)'
      /\ HealthTypeOK /\ (At("unhealthy") /\ ~polling[c]) /\ <<CheckSteps(c)>>_healthVars => (((At("register") \/ At("run")) /\ polling[c]) \/ Ended)'
    BY OthersLeaveCheck, WhereChecksGo
<1>5. /\ HealthTypeOK /\ At("register") /\ [HealthNext]_healthVars => At("register")' \/ (At("run") \/ At("direct") \/ Ended)'
      /\ HealthTypeOK /\ At("register") /\ <<CheckSteps(c)>>_healthVars => (At("run") \/ At("direct") \/ Ended)'
    BY OthersLeaveCheck, WhereChecksGo
<1>6. /\ HealthTypeOK /\ At("run") /\ [HealthNext]_healthVars => At("run")' \/ (At("look") \/ At("direct") \/ Ended)'
      /\ HealthTypeOK /\ At("run") /\ <<CheckSteps(c)>>_healthVars => (At("look") \/ At("direct") \/ Ended)'
    BY OthersLeaveCheck, WhereChecksGo
<1>7. /\ HealthTypeOK /\ At("direct") /\ [HealthNext]_healthVars => At("direct")' \/ At("look")'
      /\ HealthTypeOK /\ At("direct") /\ <<CheckSteps(c)>>_healthVars => At("look")'
    BY OthersLeaveCheck, WhereChecksGo
<1>8. /\ HealthTypeOK /\ Answered /\ [HealthNext]_healthVars => Answered' \/ (Read \/ Ended)'
      /\ HealthTypeOK /\ Answered /\ <<CheckSteps(c)>>_healthVars => (Read \/ Ended)'
    BY OthersLeaveCheck, WhereChecksGo
<1>9. /\ HealthTypeOK /\ Read /\ [HealthNext]_healthVars => Read' \/ Ended'
      /\ HealthTypeOK /\ Read /\ <<CheckSteps(c)>>_healthVars => Ended'
    BY OthersLeaveCheck, WhereChecksGo
<1>10. /\ HealthTypeOK /\ At("unhealthy") /\ polling[c] /\ [HealthNext]_healthVars
            => (At("unhealthy") \/ At("look") \/ At("failed"))'
       /\ HealthTypeOK /\ <<GivesUp(c)>>_healthVars => At("failed")'
       /\ HealthTypeOK /\ polling[c] /\ ~At("idle") /\ [HealthNext]_healthVars => polling[c]'
    BY OthersLeaveCheck, WhereChecksGo DEF GivesUp, CheckGoes, HealthTypeOK, CheckSteps
<1>11. /\ CheckCanGoOn(c) /\ ~At("idle") /\ ~At("done") /\ ~At("raised") => ENABLED <<CheckSteps(c)>>_healthVars
       /\ CheckCanGoOn(c) /\ At("unhealthy") /\ polling[c] => ENABLED <<GivesUp(c)>>_healthVars
    BY DEF CheckCanGoOn
<1>12. /\ At("look") \/ At("probe") \/ At("probed") \/ At("unhealthy") => ~At("idle") /\ ~At("done") /\ ~At("raised")
       /\ At("register") \/ At("run") \/ At("direct") \/ Answered \/ Read => ~At("idle") /\ ~At("done") /\ ~At("raised")
    OBVIOUS
<1>13. HealthSpec => []HealthTypeOK /\ [][HealthNext]_healthVars
    BY HealthTypeCorrect, PTL DEF HealthSpec
<1>14. FairCheck(c) => WF_healthVars(CheckSteps(c)) /\ SF_healthVars(GivesUp(c))
    BY PTL DEF FairCheck
<1> DEFINE Fair == /\ []HealthTypeOK /\ [][HealthNext]_healthVars /\ []CheckCanGoOn(c)
                   /\ WF_healthVars(CheckSteps(c)) /\ SF_healthVars(GivesUp(c))
(* A stage with an answer is on its way to the user.                         *)
<1>15. Fair => (Answered ~> Ended)
    BY <1>8, <1>9, <1>11, <1>12, PTL
<1>16. Fair => (At("look") ~> (At("unhealthy") \/ Answered))
    BY <1>1, <1>2, <1>3, <1>11, <1>12, PTL
<1>17. Fair => ((At("register") \/ At("run") \/ At("direct")) ~> (At("look") \/ Ended))
    BY <1>5, <1>6, <1>7, <1>11, <1>12, PTL
<1> QED
    BY <1>1, <1>2, <1>3, <1>4, <1>5, <1>6, <1>7, <1>10, <1>11, <1>12, <1>13, <1>14, <1>15, <1>16, <1>17, PTL

(* Whatever workers, Windows and the other checks do, each saver is told,    *)
(* unless a call that nobody guards has raised in its thread.                *)
(* NobodyStuck says that fair steps are enabled where their guards say so;   *)
(* the prover does not compute ENABLED, TLC evaluates it.                    *)
THEOREM EverySaverIsTold == FairHealthSpec /\ []NobodyStuck => SaverIsTold
<1>1. ASSUME NEW c \in Checkers
      PROVE  FairHealthSpec /\ []NobodyStuck => ((check[c] = "look") ~> (told[c] # "nothing" \/ check[c] = "raised"))
    <2>1. HealthFairness => FairCheck(c)
        BY DEF HealthFairness
    <2>2. NobodyStuck => CheckCanGoOn(c)
        BY DEF NobodyStuck
    <2> QED
        BY <2>1, <2>2, CheckComesToItsEnd, PTL DEF FairHealthSpec
<1> QED
    BY <1>1 DEF SaverIsTold

-----------------------------------------------------------------------------
(* The way of a crashed instance of the task to a running worker.  What is   *)
(* to come, and that it comes.                                               *)
WorkerIsBack ==
    \/ \E w \in Workers : worker[w] = "running"
    \/ met
    \/ restart /\ \A w \in Workers : worker[w] # "off"
WorkerWillBeBack == <>WorkerIsBack

(* A process that was started is there until it asks for the lock: then it   *)
(* runs, or another worker does, or it has met a probe.                      *)
LEMMA StartedAsksForLock ==
    ASSUME HealthInv, [HealthNext]_healthVars, NEW w \in Workers, worker[w] = "starting"
    PROVE  \/ worker'[w] = "starting" /\ ~TakesLock(w)
           \/ WorkerIsBack \/ WorkerIsBack'
<1>1. CASE TakesLock(w)
    <2>1. CASE lock = NULL
        BY <1>1, <2>1 DEF TakesLock, Becomes, HealthInv, HealthTypeOK, WorkerIsBack
    <2>2. CASE lock \in Checkers
        BY <1>1, <2>2, HealthConstants DEF TakesLock, WorkerIsBack
    <2>3. CASE lock \in Workers
        BY <2>3 DEF HealthInv, HoldersUseLock, WorkerIsBack
    <2> QED
        BY <2>1, <2>2, <2>3 DEF HealthInv, HealthTypeOK
<1>2. CASE ~TakesLock(w)
    <2>1. ASSUME NEW v \in Workers, TakesLock(v) PROVE worker'[w] = "starting"
        BY <1>2, <2>1 DEF TakesLock, Becomes, HealthInv, HealthTypeOK
    <2>2. ASSUME NEW v \in Workers, Beats(v) \/ WorkerDies(v) \/ LogonStarts(v)
          PROVE  worker'[w] = "starting"
        BY <2>2 DEF Beats, WorkerDies, LogonStarts, TaskStarts, Becomes, HealthInv, HealthTypeOK
    <2>3. CASE TaskRestarts \/ HeartbeatAges
        <3>1. UNCHANGED worker \/ \E v \in Workers : worker[v] = "off" /\ Becomes(v, "starting")
            BY <2>3 DEF TaskRestarts, HeartbeatAges, TaskStarts
        <3> QED
            BY <1>2, <3>1 DEF Becomes, HealthInv, HealthTypeOK
    <2>4. ASSUME NEW c \in Checkers, Saves(c) \/ WorkerClaims(c) PROVE worker'[w] = "starting"
        BY <2>4 DEF Saves, WorkerClaims, WorkerVars
    <2>5. ASSUME NEW c \in Checkers, CheckSteps(c) PROVE worker'[w] = "starting"
        BY <2>5, CheckMayStart DEF Becomes, HealthInv, HealthTypeOK
    <2>6. CASE UNCHANGED healthVars
        BY <1>2, <2>6 DEF healthVars, WorkerVars
    <2> QED
        BY <1>2, <2>1, <2>2, <2>3, <2>4, <2>5, <2>6 DEF HealthNext, WorkerSteps
<1> QED
    BY <1>1, <1>2

(* Windows owes the restart until it acts; then an instance has been started. *)
LEMMA OwedUntilStarted ==
    ASSUME HealthInv, [HealthNext]_healthVars, restart
    PROVE  \/ restart' /\ ~TaskRestarts
           \/ WorkerIsBack' \/ \E w \in Workers : worker'[w] = "starting"
<1>1. CASE TaskRestarts
    <2>1. CASE TaskIsBusy /\ UNCHANGED worker
        BY <2>1 DEF TaskIsBusy, WorkerIsBack, HealthInv, HealthTypeOK
    <2>2. ASSUME NEW w \in Workers, TaskStarts(w) PROVE worker'[w] = "starting"
        BY <2>2 DEF TaskStarts, Becomes, HealthInv, HealthTypeOK
    <2> QED
        BY <1>1, <2>1, <2>2 DEF TaskRestarts
<1>2. CASE ~TaskRestarts
    <2>1. CASE WorkerSteps \/ HeartbeatAges \/ UNCHANGED healthVars
        <3>1. restart' = restart \/ restart' = TRUE
            BY <2>1 DEF WorkerSteps, TakesLock, Beats, WorkerDies, LogonStarts, HeartbeatAges,
                        healthVars, TaskVars
        <3> QED
            BY <1>2, <3>1
    <2>2. ASSUME NEW c \in Checkers, Saves(c) \/ WorkerClaims(c) PROVE restart'
        BY <2>2 DEF Saves, WorkerClaims, TaskVars
    <2>3. ASSUME NEW c \in Checkers, CheckSteps(c) PROVE restart'
        BY <2>3 DEF CheckSteps, Looks, Probes, ReleasesProbe, Verifies, Registers, RunsTask,
                    StartsDirectly, LooksAgain, GivesUp, ReadsRow, UpdatesUi, TaskVars
    <2> QED
        BY <1>2, <2>1, <2>2, <2>3 DEF HealthNext
<1> QED
    BY <1>1, <1>2

(* All that the argument uses, each part always true.                        *)
HealthGoesOn ==
    /\ []HealthInv /\ [][HealthNext]_healthVars
    /\ []HealthFairness /\ []NobodyStuck

LEMMA StartedWorkerComesBack ==
    HealthGoesOn => \A w \in Workers : worker[w] = "starting" => WorkerWillBeBack
<1>1. ASSUME NEW w \in Workers
      PROVE  HealthGoesOn => (worker[w] = "starting" => WorkerWillBeBack)
    <2>1. HealthInv /\ worker[w] = "starting" /\ [HealthNext]_healthVars
            => (worker[w] = "starting")' \/ WorkerIsBack \/ WorkerIsBack'
        BY StartedAsksForLock
    <2>2. HealthInv /\ worker[w] = "starting" /\ <<TakesLock(w)>>_healthVars /\ [HealthNext]_healthVars
            => WorkerIsBack \/ WorkerIsBack'
        BY StartedAsksForLock
    <2>3. (HealthFairness => FairWorker(w)) /\ (NobodyStuck => WorkerCanGoOn(w))
        BY DEF HealthFairness, NobodyStuck
    <2>4. FairWorker(w) => WF_healthVars(TakesLock(w))
        BY PTL DEF FairWorker
    <2>5. WorkerCanGoOn(w) /\ worker[w] = "starting" => ENABLED <<TakesLock(w)>>_healthVars
        BY DEF WorkerCanGoOn
    <2> QED
        BY <2>1, <2>2, <2>3, <2>4, <2>5, PTL DEF HealthGoesOn, WorkerWillBeBack
<1> QED
    BY <1>1

(* Windows keeps its promise: through logons, requests of checks, probes and *)
(* further crashes, with any number of processes.  The fairness is assumed   *)
(* under [], which adds nothing to it: what happens again and again, does so *)
(* from any moment on; the prover does not exchange [] and \A.               *)
THEOREM CrashedTaskComesBack ==
    HealthSpec /\ []HealthFairness /\ []NobodyStuck => TaskWorkerComesBack
<1>1. HealthInv /\ restart /\ [HealthNext]_healthVars
        => restart' \/ WorkerIsBack' \/ (\E w \in Workers : worker[w] = "starting")'
    BY OwedUntilStarted
<1>2. HealthInv /\ restart /\ <<TaskRestarts>>_healthVars /\ [HealthNext]_healthVars
        => WorkerIsBack' \/ (\E w \in Workers : worker[w] = "starting")'
    BY OwedUntilStarted
<1>3. NobodyStuck /\ restart /\ ~WorkerIsBack => ENABLED <<TaskRestarts>>_healthVars
    BY DEF NobodyStuck, RestartCanGoOn, WorkerIsBack
<1>4. HealthFairness => FairRestart
    BY DEF HealthFairness
<1>5. HealthGoesOn /\ (\E w \in Workers : worker[w] = "starting") => WorkerWillBeBack
    BY StartedWorkerComesBack
<1>6. HealthSpec /\ []HealthFairness /\ []NobodyStuck => []HealthGoesOn
    BY HealthInvariant, PTL DEF HealthSpec, HealthGoesOn
<1>7. HealthSpec /\ []HealthFairness /\ []NobodyStuck => (restart ~> WorkerIsBack)
    BY <1>1, <1>2, <1>3, <1>4, <1>5, <1>6, PTL DEF HealthGoesOn, FairRestart, WorkerWillBeBack
<1> QED
    BY <1>7 DEF TaskWorkerComesBack, WorkerIsBack
=============================================================================

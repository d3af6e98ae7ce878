------------------------------ MODULE ClassQueue ------------------------------
(***************************************************************************)
(* What the scheduler promises about its jobs, without a database, a lock,  *)
(* a clock or a browser: a job waits, is worked on by one live worker at a  *)
(* time, may be lost with its worker and found again, and settles once.     *)
(***************************************************************************)
EXTENDS Integers, FiniteSets

CONSTANTS
    Ids,        \* the jobs
    Limits      \* how many tries a job may be given

VARIABLES
    phase,  \* per job: where it is
    tries,  \* per job: how often it was begun
    limit   \* per job: how often it may be begun (0 while absent)

queueVars == <<phase, tries, limit>>

InPhase(p) == {i \in Ids : phase[i] = p}

(* Jobs S go to the phases that Next gives them; the others stay.            *)
Move(S, NextPhase(_)) ==
    phase' = [i \in Ids |-> IF i \in S THEN NextPhase(i) ELSE phase[i]]

QueueInit ==
    /\ phase = [i \in Ids |-> "absent"]
    /\ tries = [i \in Ids |-> 0]
    /\ limit = [i \in Ids |-> 0]

(* A new job waits; it may take the place of others that were waiting.       *)
Submit(i) ==
    /\ phase[i] = "absent"
    /\ \E replaced \in SUBSET InPhase("pending") :
         Move(replaced \cup {i}, LAMBDA j : IF j = i THEN "pending" ELSE "cancelled")
    /\ \E n \in Limits : limit' = [limit EXCEPT ![i] = n]
    /\ UNCHANGED tries

Withdraw(i) ==
    /\ phase[i] = "pending"
    /\ phase' = [phase EXCEPT ![i] = "cancelled"]
    /\ UNCHANGED <<tries, limit>>

(* A job is begun while no other is worked on, and counts as a try even when *)
(* it is lost in that very moment.                                           *)
Begin(i) ==
    /\ phase[i] = "pending" /\ tries[i] < limit[i]
    /\ InPhase("active") = {}
    /\ \E p \in {"active", "lost"} : phase' = [phase EXCEPT ![i] = p]
    /\ tries' = [tries EXCEPT ![i] = @ + 1]
    /\ UNCHANGED limit

(* The worker settles its job, hands it back, or loses it.                   *)
Leave(i) ==
    /\ phase[i] = "active"
    /\ \/ \E p \in {"succeeded", "failed", "lost"} : phase' = [phase EXCEPT ![i] = p]
       \/ /\ tries[i] < limit[i]
          /\ phase' = [phase EXCEPT ![i] = "pending"]
    /\ UNCHANGED <<tries, limit>>

(* Some lost jobs are found: each waits again, or fails when it has no try   *)
(* left.  Nobody works on a job meanwhile.                                   *)
Find(S) ==
    /\ S \subseteq InPhase("lost")
    /\ InPhase("active") = {}
    /\ Move(S, LAMBDA i : IF tries[i] < limit[i] THEN "pending" ELSE "failed")
    /\ UNCHANGED <<tries, limit>>

QueueNext ==
    \/ \E i \in Ids : Submit(i) \/ Withdraw(i) \/ Begin(i) \/ Leave(i)
    \/ \E S \in SUBSET Ids : Find(S)

QueueSpec == QueueInit /\ [][QueueNext]_queueVars
=============================================================================

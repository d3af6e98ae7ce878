---------------------------- MODULE ScheduleStore ----------------------------
(***************************************************************************)
(* The SQLite queue of src/scheduling/schedule_store.py: one table of       *)
(* schedule rows, one action per method that writes it.  Every method runs  *)
(* in one transaction (BEGIN IMMEDIATE, or a single autocommitted UPDATE),  *)
(* so every method is one atomic step, whichever process calls it.          *)
(*                                                                         *)
(* Abstracted: the profile and the class name are one value of Classes (the *)
(* queries only ever compare the pair); the columns no query reads again    *)
(* (delay_*, updated_at, completed_at, last_result, last_error) are left    *)
(* out.                                                                     *)
(***************************************************************************)
EXTENDS Integers, FiniteSets

CONSTANTS
    Ids,            \* the ids that schedules may get (uuid4 hex strings)
    Classes,        \* the (profile_id, class_name) pairs
    Claimants,      \* the values of claimed_by: the worker processes
    AttemptLimits,  \* the values of max_attempts that callers pass
    StartDelays,    \* how far ahead of the clock callers place run_at_epoch
    RetryDelays,    \* the delays that callers of retry pass
    StaleSeconds,   \* stale_seconds of recover_stale
    NULL            \* SQL's NULL

ASSUME StoreConstants ==
    /\ AttemptLimits \subseteq Nat \ {0}
    /\ StartDelays \subseteq Int
    /\ RetryDelays \subseteq Nat
    /\ StaleSeconds \in Nat
    /\ NULL \notin Int /\ NULL \notin Claimants

VARIABLES
    table,  \* the rows: a function from the ids inserted so far to Row
    now     \* time.time(), shared by every process of the machine

storeVars == <<table, now>>

Statuses == {"pending", "running", "succeeded", "failed", "cancelled"}
Settled  == {"succeeded", "failed", "cancelled"}

Row == [status: Statuses, class: Classes, runAt: Int, createdAt: Nat,
        attempts: Nat, limit: AttemptLimits,
        claimedAt: Nat \cup {NULL}, claimedBy: Claimants \cup {NULL}]

StoreTypeOK ==
    /\ DOMAIN table \subseteq Ids
    /\ table \in [DOMAIN table -> Row]
    /\ now \in Nat

StoreInit ==
    /\ table = [i \in {} |-> NULL]
    /\ now = 0

-----------------------------------------------------------------------------
(* UPDATE schedules SET ... WHERE id IN ids: Set gives the new row.          *)
Updated(ids, Set(_)) ==
    [i \in DOMAIN table |-> IF i \in ids THEN Set(table[i]) ELSE table[i]]

HasStatus(i, s) == i \in DOMAIN table /\ table[i].status = s

NewRow(class, runAt, limit) ==
    [status |-> "pending", class |-> class, runAt |-> runAt, createdAt |-> now,
     attempts |-> 0, limit |-> limit, claimedAt |-> NULL, claimedBy |-> NULL]

Cancelled(row) == [row EXCEPT !.status = "cancelled"]

(* The rows that create cancels first: pending ones of the same class.       *)
Superseded(class, cancelPending) ==
    IF cancelPending
    THEN {i \in DOMAIN table : table[i].status = "pending" /\ table[i].class = class}
    ELSE {}

(* An id that is already taken violates the primary key: the transaction is  *)
(* rolled back with the cancellations, and nothing changes.                  *)
Create(id, class, runAt, limit, cancelPending) ==
    /\ id \notin DOMAIN table
    /\ table' = [i \in DOMAIN table \cup {id} |->
                    IF i = id THEN NewRow(class, runAt, limit)
                    ELSE IF i \in Superseded(class, cancelPending)
                         THEN Cancelled(table[i])
                         ELSE table[i]]
    /\ UNCHANGED now

(* Variant: cancel without its status condition.                             *)
CancelAnyRow(id) ==
    /\ id \in DOMAIN table
    /\ table' = Updated({id}, Cancelled)
    /\ UNCHANGED now

Cancel(id) ==
    /\ HasStatus(id, "pending")
    /\ table' = Updated({id}, Cancelled)
    /\ UNCHANGED now

-----------------------------------------------------------------------------
Due(i) == HasStatus(i, "pending") /\ table[i].runAt <= now

(* ORDER BY run_at_epoch, created_at_epoch                                   *)
OrderedBefore(i, j) ==
    \/ table[i].runAt < table[j].runAt
    \/ table[i].runAt = table[j].runAt /\ table[i].createdAt <= table[j].createdAt

FirstDue(i) ==
    /\ Due(i)
    /\ \A j \in DOMAIN table : Due(j) => OrderedBefore(i, j)

ClaimDue(id, claimant) ==
    LET Claimed(row) == [row EXCEPT !.status = "running",
                                    !.attempts = row.attempts + 1,
                                    !.claimedAt = now,
                                    !.claimedBy = claimant]
    IN  /\ FirstDue(id)
        /\ table' = Updated({id}, Claimed)
        /\ UNCHANGED now

(* finish: an UPDATE whose WHERE matches only a running row.                 *)
Finish(id, succeeded) ==
    LET Finished(row) ==
            [row EXCEPT !.status = IF succeeded THEN "succeeded" ELSE "failed"]
        matched == {i \in {id} : HasStatus(i, "running")}
    IN  /\ table' = Updated(matched, Finished)
        /\ UNCHANGED now

(* Variant: retry does not look at max_attempts.                             *)
RetryableAlways(i) == HasStatus(i, "running")

(* The WHERE of retry; its rowcount is the value the method returns.         *)
Retryable(i) == HasStatus(i, "running") /\ table[i].attempts < table[i].limit

(* Variant: requeueing keeps the stamps of the claim.                        *)
RequeuedStamped(row) == [row EXCEPT !.status = "pending"]

Requeued(row) == [row EXCEPT !.status = "pending", !.claimedAt = NULL, !.claimedBy = NULL]

Retry(id, delay) ==
    LET Postponed(row) == [Requeued(row) EXCEPT !.runAt = now + delay]
    IN  /\ Retryable(id)
        /\ table' = Updated({id}, Postponed)
        /\ UNCHANGED now

(* Variant: every running row counts as stale, whatever its age.             *)
StaleAtOnce(i) == HasStatus(i, "running")

Stale(i) == HasStatus(i, "running") /\ table[i].claimedAt < now - StaleSeconds

(* Variant: only the first UPDATE of recover_stale.                          *)
RecoverRetryableOnly ==
    /\ table' = Updated({i \in DOMAIN table : Stale(i) /\ Retryable(i)}, Requeued)
    /\ UNCHANGED now

(* Both UPDATEs of recover_stale, in its one transaction.                    *)
RecoverStale ==
    LET Recovered(row) == IF row.attempts < row.limit
                          THEN Requeued(row)
                          ELSE [row EXCEPT !.status = "failed"]
    IN  /\ table' = Updated({i \in DOMAIN table : Stale(i)}, Recovered)
        /\ UNCHANGED now

-----------------------------------------------------------------------------
(* The clock.  It stands still while no comparison of a row with the clock   *)
(* could come out differently later: every pending row is due and every      *)
(* running row is stale.  The code compares times in no other way, so later  *)
(* clock values add no behaviour, and the clock needs no bound of its own.   *)
ClockMatters ==
    \E i \in DOMAIN table :
        \/ table[i].status = "pending" /\ table[i].runAt > now
        \/ table[i].status = "running" /\ table[i].claimedAt >= now - StaleSeconds

Tick ==
    /\ ClockMatters
    /\ now' = now + 1
    /\ UNCHANGED table

CreateSome ==
    \E id \in Ids, class \in Classes, delay \in StartDelays,
       limit \in AttemptLimits, cancelPending \in BOOLEAN :
        Create(id, class, now + delay, limit, cancelPending)

(* The store under callers that follow no protocol at all.                   *)
StoreNext ==
    \/ Tick
    \/ CreateSome
    \/ RecoverStale
    \/ \E id \in Ids : \/ Cancel(id)
                       \/ \E c \in Claimants : ClaimDue(id, c)
                       \/ \E succeeded \in BOOLEAN : Finish(id, succeeded)
                       \/ \E delay \in RetryDelays : Retry(id, delay)

StoreSpec == StoreInit /\ [][StoreNext]_storeVars

-----------------------------------------------------------------------------
(* No row is started more often than its max_attempts, and a row that waits  *)
(* still has an attempt left, whatever the callers do.  A pending row with   *)
(* no attempt left would be claimed once too often, because claim_due does   *)
(* not look at max_attempts: retry and recover_stale have to keep it out.    *)
AttemptsBounded ==
    \A i \in DOMAIN table :
        /\ table[i].attempts <= table[i].limit
        /\ table[i].status = "pending" => table[i].attempts < table[i].limit

(* A claim stamp is present exactly while it is needed: recover_stale        *)
(* compares claimed_at with the cutoff, and SQL's comparison with NULL would *)
(* leave a running row without a stamp stuck for ever.                       *)
RunningRowsAreStamped ==
    \A i \in DOMAIN table :
        /\ table[i].status = "running" =>
             table[i].claimedAt # NULL /\ table[i].claimedBy # NULL /\ table[i].attempts > 0
        /\ table[i].status = "pending" =>
             table[i].claimedAt = NULL /\ table[i].claimedBy = NULL

(* A settled row never changes again, and no row is ever deleted: a late     *)
(* finish, retry, cancel or recovery finds nothing to update.                *)
SettledIsFinal ==
    [][\A i \in DOMAIN table :
          /\ i \in DOMAIN table'
          /\ table[i].status \in Settled => table'[i] = table[i]]_storeVars
=============================================================================

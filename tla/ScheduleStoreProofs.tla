-------------------------- MODULE ScheduleStoreProofs --------------------------
(***************************************************************************)
(* Proofs about ScheduleStore, for any set of ids, classes and claimants,   *)
(* any attempt limits and delays, and callers in any order.                 *)
(***************************************************************************)
EXTENDS ScheduleStore, TLAPS

(* The rows stay well typed: a partial function from ids to complete rows.   *)
LEMMA StoreTypeStep ==
    StoreTypeOK /\ [StoreNext]_storeVars => StoreTypeOK'
<1> SUFFICES ASSUME StoreTypeOK, [StoreNext]_storeVars PROVE StoreTypeOK'
    OBVIOUS
<1> USE StoreConstants DEF StoreTypeOK, Row, Statuses
<1>1. ASSUME UNCHANGED storeVars PROVE StoreTypeOK'
    BY <1>1 DEF storeVars
<1>2. CASE Tick
    BY <1>2 DEF Tick
<1>3. CASE CreateSome
    <2> PICK id \in Ids, class \in Classes, delay \in StartDelays,
             limit \in AttemptLimits, cancelPending \in BOOLEAN :
                Create(id, class, now + delay, limit, cancelPending)
        BY <1>3 DEF CreateSome
    <2>1. NewRow(class, now + delay, limit) \in Row
        BY DEF NewRow
    <2>2. \A i \in DOMAIN table : Cancelled(table[i]) \in Row
        BY DEF Cancelled
    <2> QED
        BY <2>1, <2>2 DEF Create
<1>4. CASE RecoverStale
    BY <1>4 DEF RecoverStale, Updated, Requeued
<1>5. ASSUME NEW id \in Ids, Cancel(id) PROVE StoreTypeOK'
    BY <1>5 DEF Cancel, Updated, Cancelled
<1>6. ASSUME NEW id \in Ids, NEW c \in Claimants, ClaimDue(id, c) PROVE StoreTypeOK'
    <2> DEFINE Claimed(row) == [row EXCEPT !.status = "running",
                                           !.attempts = row.attempts + 1,
                                           !.claimedAt = now, !.claimedBy = c]
    <2>1. /\ table' = [i \in DOMAIN table |-> IF i \in {id} THEN Claimed(table[i]) ELSE table[i]]
          /\ now' = now
        BY <1>6 DEF ClaimDue, Updated
    <2>2. ASSUME NEW row \in Row PROVE Claimed(row) \in Row
        <3>1. row.attempts + 1 \in Nat
            OBVIOUS
        <3> QED
            BY <3>1
    <2> QED
        BY <2>1, <2>2
<1>7. ASSUME NEW id \in Ids, NEW succeeded \in BOOLEAN, Finish(id, succeeded) PROVE StoreTypeOK'
    BY <1>7 DEF Finish, Updated
<1>8. ASSUME NEW id \in Ids, NEW delay \in RetryDelays, Retry(id, delay) PROVE StoreTypeOK'
    <2> DEFINE Postponed(row) == [Requeued(row) EXCEPT !.runAt = now + delay]
    <2>1. /\ table' = [i \in DOMAIN table |-> IF i \in {id} THEN Postponed(table[i]) ELSE table[i]]
          /\ now' = now
        BY <1>8 DEF Retry, Updated
    <2>2. now + delay \in Int
        OBVIOUS
    <2>3. \A i \in DOMAIN table : Postponed(table[i]) \in Row
        BY <2>2 DEF Requeued
    <2> QED
        BY <2>1, <2>3
<1> QED
    BY <1>1, <1>2, <1>3, <1>4, <1>5, <1>6, <1>7, <1>8 DEF StoreNext

(* For every instance: the table holds only complete, well-typed rows.       *)
THEOREM StoreTypeCorrect == StoreSpec => []StoreTypeOK
<1>1. StoreInit => StoreTypeOK
    BY DEF StoreInit, StoreTypeOK
<1> QED
    BY <1>1, StoreTypeStep, PTL DEF StoreSpec

-----------------------------------------------------------------------------
(* How a step can change a row that is there: each kind of change that the   *)
(* methods make, with the condition under which it is made.                  *)
RowStep(old, new) ==
    \/ new = old
    \/ old.status = "pending" /\ new = Cancelled(old)
    \/ /\ old.status = "pending"
       /\ \E c \in Claimants :
            new = [old EXCEPT !.status = "running", !.attempts = old.attempts + 1,
                              !.claimedAt = now, !.claimedBy = c]
    \/ /\ old.status = "running"
       /\ \E s \in {"succeeded", "failed"} : new = [old EXCEPT !.status = s]
    \/ /\ old.status = "running" /\ old.attempts < old.limit
       /\ \E runAt \in Int : new = [Requeued(old) EXCEPT !.runAt = runAt]

(* Every step of the store keeps every row and changes it by a RowStep; the  *)
(* rows it adds are new ones.                                                *)
LEMMA StepByRows ==
    ASSUME StoreTypeOK, [StoreNext]_storeVars
    PROVE  /\ DOMAIN table \subseteq DOMAIN table'
           /\ \A i \in DOMAIN table : RowStep(table[i], table'[i])
           /\ \A i \in DOMAIN table' \ DOMAIN table :
                \E class \in Classes, runAt \in Int, limit \in AttemptLimits :
                    table'[i] = NewRow(class, runAt, limit)
<1> DEFINE Goal == /\ DOMAIN table \subseteq DOMAIN table'
                   /\ \A i \in DOMAIN table : RowStep(table[i], table'[i])
                   /\ \A i \in DOMAIN table' \ DOMAIN table :
                        \E class \in Classes, runAt \in Int, limit \in AttemptLimits :
                            table'[i] = NewRow(class, runAt, limit)
<1> USE StoreConstants DEF StoreTypeOK, RowStep
<1>1. ASSUME UNCHANGED table PROVE Goal
    BY <1>1
<1>2. CASE CreateSome
    <2> PICK id \in Ids, class \in Classes, delay \in StartDelays,
             limit \in AttemptLimits, cancelPending \in BOOLEAN :
                Create(id, class, now + delay, limit, cancelPending)
        BY <1>2 DEF CreateSome
    <2>1. now + delay \in Int
        OBVIOUS
    <2>2. /\ id \notin DOMAIN table
          /\ DOMAIN table' = DOMAIN table \cup {id}
          /\ table'[id] = NewRow(class, now + delay, limit)
        BY DEF Create
    <2>3. \A i \in DOMAIN table :
             \/ table'[i] = table[i]
             \/ table[i].status = "pending" /\ table'[i] = Cancelled(table[i])
        BY DEF Create, Superseded
    <2> QED
        BY <2>1, <2>2, <2>3
<1>3. CASE RecoverStale
    <2>1. DOMAIN table' = DOMAIN table
        BY <1>3 DEF RecoverStale, Updated
    <2>2. ASSUME NEW i \in DOMAIN table PROVE RowStep(table[i], table'[i])
        <3>1. CASE Stale(i) /\ table[i].attempts < table[i].limit
            <4>1. table'[i] = Requeued(table[i])
                BY <1>3, <3>1 DEF RecoverStale, Updated
            <4>2. /\ table[i] \in Row
                  /\ table'[i] = [Requeued(table[i]) EXCEPT !.runAt = table[i].runAt]
                BY <4>1 DEF Requeued, Row
            <4> QED BY <3>1, <4>2 DEF Stale, HasStatus, Row
        <3>2. CASE Stale(i) /\ ~(table[i].attempts < table[i].limit)
            BY <1>3, <3>2 DEF RecoverStale, Updated, Stale, HasStatus
        <3>3. CASE ~Stale(i)
            BY <1>3, <3>3 DEF RecoverStale, Updated
        <3> QED BY <3>1, <3>2, <3>3
    <2> QED
        BY <2>1, <2>2
<1>4. ASSUME NEW id \in Ids, Cancel(id) PROVE Goal
    BY <1>4 DEF Cancel, Updated, HasStatus
<1>5. ASSUME NEW id \in Ids, NEW c \in Claimants, ClaimDue(id, c) PROVE Goal
    BY <1>5 DEF ClaimDue, Updated, FirstDue, Due, HasStatus
<1>6. ASSUME NEW id \in Ids, NEW succeeded \in BOOLEAN, Finish(id, succeeded) PROVE Goal
    BY <1>6 DEF Finish, Updated, HasStatus
<1>7. ASSUME NEW id \in Ids, NEW delay \in RetryDelays, Retry(id, delay) PROVE Goal
    <2>1. now + delay \in Int
        OBVIOUS
    <2> QED
        BY <1>7, <2>1 DEF Retry, Retryable, Updated, HasStatus
<1> QED
    BY <1>1, <1>2, <1>3, <1>4, <1>5, <1>6, <1>7 DEF StoreNext, Tick, storeVars

-----------------------------------------------------------------------------
(* The fields of a row before and after a RowStep.                           *)
Fields(old, new) ==
    /\ new.limit = old.limit
    /\ \/ new = old
       \/ old.status = "pending" /\ new.status = "cancelled" /\ new.attempts = old.attempts
       \/ /\ old.status = "pending" /\ new.status = "running"
          /\ new.attempts = old.attempts + 1
          /\ new.claimedAt = now /\ new.claimedBy \in Claimants
       \/ /\ old.status = "running" /\ new.status \in {"succeeded", "failed"}
          /\ new.attempts = old.attempts
       \/ /\ old.status = "running" /\ new.status = "pending"
          /\ old.attempts < old.limit /\ new.attempts = old.attempts
          /\ new.claimedAt = NULL /\ new.claimedBy = NULL

LEMMA RowStepFields ==
    ASSUME NEW old \in Row, NEW new, RowStep(old, new)
    PROVE  Fields(old, new)
<1> USE DEF Row, Fields
<1>1. CASE new = old
    BY <1>1
<1>2. CASE old.status = "pending" /\ new = Cancelled(old)
    BY <1>2 DEF Cancelled
<1>3. ASSUME old.status = "pending", NEW c \in Claimants,
             new = [old EXCEPT !.status = "running", !.attempts = old.attempts + 1,
                               !.claimedAt = now, !.claimedBy = c]
      PROVE  Fields(old, new)
    BY <1>3
<1>4. ASSUME old.status = "running", NEW s \in {"succeeded", "failed"},
             new = [old EXCEPT !.status = s]
      PROVE  Fields(old, new)
    BY <1>4
<1>5. ASSUME old.status = "running", old.attempts < old.limit, NEW runAt \in Int,
             new = [Requeued(old) EXCEPT !.runAt = runAt]
      PROVE  Fields(old, new)
    BY <1>5 DEF Requeued
<1> QED
    BY <1>1, <1>2, <1>3, <1>4, <1>5 DEF RowStep

LEMMA AttemptsStep ==
    StoreTypeOK /\ AttemptsBounded /\ [StoreNext]_storeVars => AttemptsBounded'
<1> SUFFICES ASSUME StoreTypeOK, AttemptsBounded, [StoreNext]_storeVars,
                    NEW i \in DOMAIN table'
             PROVE  /\ table'[i].attempts <= table'[i].limit
                    /\ table'[i].status = "pending" => table'[i].attempts < table'[i].limit
    BY DEF AttemptsBounded
<1>1. CASE i \in DOMAIN table
    <2>1. /\ table[i] \in Row
          /\ table[i].attempts <= table[i].limit
          /\ table[i].status = "pending" => table[i].attempts < table[i].limit
        BY <1>1 DEF StoreTypeOK, AttemptsBounded
    <2>2. RowStep(table[i], table'[i])
        BY <1>1, StepByRows
    <2>3. table[i].attempts \in Nat /\ table[i].limit \in Nat
        BY <2>1, StoreConstants DEF Row
    <2>4. Fields(table[i], table'[i])
        BY <2>1, <2>2, RowStepFields
    <2> QED
        BY <2>1, <2>3, <2>4 DEF Fields
<1>2. CASE i \notin DOMAIN table
    <2>1. PICK class \in Classes, runAt \in Int, limit \in AttemptLimits :
                table'[i] = NewRow(class, runAt, limit)
        BY <1>2, StepByRows
    <2> QED
        BY <2>1, StoreConstants DEF NewRow
<1> QED
    BY <1>1, <1>2

(* For every instance: no row is claimed more often than its max_attempts,   *)
(* in whatever order the methods are called.                                 *)
THEOREM AttemptsAreBounded == StoreSpec => []AttemptsBounded
<1>1. StoreInit => AttemptsBounded
    BY DEF StoreInit, AttemptsBounded
<1> QED
    BY <1>1, AttemptsStep, StoreTypeCorrect, PTL DEF StoreSpec

LEMMA StampsStep ==
    StoreTypeOK /\ RunningRowsAreStamped /\ [StoreNext]_storeVars => RunningRowsAreStamped'
<1> DEFINE Stamped(row) ==
              /\ row.status = "running" =>
                    row.claimedAt # NULL /\ row.claimedBy # NULL /\ row.attempts > 0
              /\ row.status = "pending" => row.claimedAt = NULL /\ row.claimedBy = NULL
<1> SUFFICES ASSUME StoreTypeOK, RunningRowsAreStamped, [StoreNext]_storeVars,
                    NEW i \in DOMAIN table'
             PROVE  Stamped(table'[i])
    BY DEF RunningRowsAreStamped
<1>1. CASE i \in DOMAIN table
    <2>1. table[i] \in Row /\ Stamped(table[i]) /\ now \in Nat
        BY <1>1 DEF StoreTypeOK, RunningRowsAreStamped
    <2>2. RowStep(table[i], table'[i])
        BY <1>1, StepByRows
    <2>3. table[i].attempts \in Nat
        BY <2>1 DEF Row
    <2>4. Fields(table[i], table'[i])
        BY <2>1, <2>2, RowStepFields
    <2> QED
        BY <2>1, <2>3, <2>4, StoreConstants DEF Fields
<1>2. CASE i \notin DOMAIN table
    <2>1. PICK class \in Classes, runAt \in Int, limit \in AttemptLimits :
                table'[i] = NewRow(class, runAt, limit)
        BY <1>2, StepByRows
    <2> QED
        BY <2>1 DEF NewRow
<1> QED
    BY <1>1, <1>2

(* For every instance: a running row carries the stamps that recover_stale   *)
(* compares, and a waiting row carries none.                                 *)
THEOREM RunningRowsStayStamped == StoreSpec => []RunningRowsAreStamped
<1>1. StoreInit => RunningRowsAreStamped
    BY DEF StoreInit, RunningRowsAreStamped
<1> QED
    BY <1>1, StampsStep, StoreTypeCorrect, PTL DEF StoreSpec

(* For every instance: no call, however late, changes or deletes a row that  *)
(* succeeded, failed or was cancelled.                                       *)
THEOREM SettledRowsAreFinal == StoreSpec => SettledIsFinal
<1> DEFINE Final == \A i \in DOMAIN table :
                      /\ i \in DOMAIN table'
                      /\ table[i].status \in Settled => table'[i] = table[i]
<1>1. StoreTypeOK /\ [StoreNext]_storeVars => Final
    BY StepByRows DEF RowStep, Settled
<1>2. StoreTypeOK /\ [StoreNext]_storeVars => [Final]_storeVars
    BY <1>1
<1> QED
    BY <1>2, StoreTypeCorrect, PTL DEF StoreSpec, SettledIsFinal
=============================================================================

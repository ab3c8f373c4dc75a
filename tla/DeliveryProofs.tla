--------------------------- MODULE DeliveryProofs ---------------------------
(***************************************************************************)
(* Proofs about Delivery for every number of destinations, batches,        *)
(* attempts, generations and crashes.                                      *)
(***************************************************************************)
EXTENDS Delivery, TLAPS

-----------------------------------------------------------------------------
(* The inductive invariant, by parts *)

(* The ids above lastBatch have never been used.                           *)
FreshIds ==
  \A b \in Batches : b > lastBatch =>
    /\ b \notin pending
    /\ progress[b] = {}
    /\ \A d \in Destinations :
         /\ batchRow[b][d] = 0
         /\ result[b][d] = "none"
         /\ <<b, d>> \notin index
         /\ <<b, d>> \notin retries

(* delivery_progress only marks rows of its batch, and a row with a retry  *)
(* is no longer pending.                                                   *)
ProgressExact ==
  \A b \in Batches :
    /\ progress[b] \subseteq RowsOf(b)
    /\ \A d \in Destinations :
         <<b, d>> \in retries /\ b \in pending => d \in progress[b]

(* A lock is held by exactly the worker that is past its acquisition.      *)
LockExact ==
  \A d \in Destinations :
    /\ \A b \in Batches : lane[b][d] \in HoldingPhases <=> lock[d] = b
    /\ task[d] \in HoldingPhases <=> lock[d] = RetryHolder

(* A lane works on a pending row, and past its head check on the oldest    *)
(* row of its destination.                                                 *)
LaneExact ==
  \A b \in Batches, d \in Destinations :
    /\ lane[b][d] # "none" => b \in started \cap pending /\ d \in PendingRows(b)
    /\ lane[b][d] \in HoldingPhases \ {"blocked"} => IsDestinationHead(b, d)

(* A head that the scan has found stays one until its destination's task   *)
(* is spawned, unless a task it already had is at work on it.              *)
HeadsExact ==
  \A d \in Destinations :
    /\ ~scanning => scan[d] = NoPointer /\ heads[d] = NoPointer
    /\ heads[d] # NoPointer /\ task[d] = "none" => IsRetryHead(heads[d], d)

StoreExact ==
  /\ FreshIds
  /\ IndexExact
  /\ ProgressExact
  /\ BatchRecordExact
  /\ RowsAccountedFor

IInv ==
  /\ TypeOK
  /\ StoreExact
  /\ LockExact
  /\ LaneExact
  /\ HeadsExact
  /\ RetryTaskCurrent

storeVars == <<lastBatch, batchRow, pending, retained, progress, index, retries, result>>

-----------------------------------------------------------------------------
(* Type correctness *)

USE ConstantsAssumption

(* Operators of the model stay in their types. *)
LEMMA NoPointerType == NoPointer \in Pointers
BY DEF NoPointer, Pointers

(* An update of a table of tables; outside its domain it changes nothing. *)
LEMMA UpdateType ==
  ASSUME NEW S, NEW T, NEW V, NEW f \in [S -> [T -> V]], NEW x, NEW y, NEW v,
         x \in S /\ y \in T => v \in V
  PROVE  [f EXCEPT ![x][y] = v] \in [S -> [T -> V]]
<1>1. CASE x \notin S
  BY <1>1
<1>2. CASE x \in S
  <2>1. [f[x] EXCEPT ![y] = v] \in [T -> V]
    BY <1>2
  <2> QED
    BY <1>2, <2>1
<1> QED
  BY <1>1, <1>2

(* The entry the retry scan takes for a destination is a retry or none.   *)
LEMMA FirstRetryType ==
  ASSUME TypeOK, NEW d \in Destinations
  PROVE  FirstRetry(d) \in Pointers
<1>1. CASE \E b \in Batches : IsFirstRetry(b, d)
  <2> DEFINE first == CHOOSE c \in Batches : IsFirstRetry(c, d)
  <2>1. first \in Batches
    BY <1>1
  <2>2. attempts[first][d] \in 0 .. MaxRetryAttempts
    BY <2>1 DEF TypeOK, RetryTypes
  <2>3. first \in 0 .. MaxBatches
    BY <2>1 DEF Batches
  <2>4. FirstRetry(d) = [batch |-> first, attempts |-> attempts[first][d]]
    BY <1>1 DEF FirstRetry
  <2> QED
    BY <2>2, <2>3, <2>4 DEF Pointers
<1>2. CASE ~\E b \in Batches : IsFirstRetry(b, d)
  BY <1>2, NoPointerType DEF FirstRetry
<1> QED
  BY <1>1, <1>2

(* A group of variables left alone keeps its types.                       *)
LEMMA TypesUnchanged ==
  ASSUME TypeOK
  PROVE  /\ UNCHANGED batchVars => BatchTypes'
         /\ UNCHANGED retryVars => RetryTypes'
         /\ UNCHANGED subscriptionVars => SubscriptionTypes'
         /\ UNCHANGED deliveryVars => DeliveryTypes'
         /\ UNCHANGED scanVars => ScanTypes'
         /\ UNCHANGED taskVars => TaskTypes'
         /\ UNCHANGED observed => ObservedTypes'
<1>1. UNCHANGED batchVars => BatchTypes'
  BY DEF TypeOK, BatchTypes, batchVars
<1>2. UNCHANGED retryVars => RetryTypes'
  BY DEF TypeOK, RetryTypes, retryVars
<1>3. UNCHANGED subscriptionVars => SubscriptionTypes'
  BY DEF TypeOK, SubscriptionTypes, subscriptionVars
<1>4. UNCHANGED deliveryVars => DeliveryTypes'
  BY DEF TypeOK, DeliveryTypes, deliveryVars
<1>5. UNCHANGED scanVars => ScanTypes'
  BY DEF TypeOK, ScanTypes, scanVars
<1>6. UNCHANGED taskVars => TaskTypes'
  BY DEF TypeOK, TaskTypes, taskVars
<1>7. UNCHANGED observed => ObservedTypes'
  BY DEF TypeOK, ObservedTypes, observed
<1> QED
  BY <1>1, <1>2, <1>3, <1>4, <1>5, <1>6, <1>7

(* Every step of the engines keeps the types.                              *)
LEMMA TypeStep ==
  ASSUME TypeOK, [Next]_vars
  PROVE  TypeOK'
<1>1. ASSUME NEW d \in Destinations, Subscribe(d) PROVE TypeOK'
  <2>1. SubscriptionTypes'
    BY <1>1 DEF TypeOK, SubscriptionTypes, Generations, Subscribe
  <2> QED
    BY <1>1, <2>1, TypesUnchanged DEF TypeOK, Subscribe
<1>2. ASSUME NEW d \in Destinations, Deactivate(d) PROVE TypeOK'
  <2>1. SubscriptionTypes'
    BY <1>2 DEF TypeOK, SubscriptionTypes, Generations, Deactivate
  <2> QED
    BY <1>2, <2>1, TypesUnchanged DEF TypeOK, Deactivate
<1>3. ASSUME ProcessMatchJob PROVE TypeOK'
  <2>1. matched' \in [Destinations -> Generations]
    BY <1>3 DEF TypeOK, SubscriptionTypes, Generations, ProcessMatchJob
  <2> QED
    BY <1>3, <2>1, TypesUnchanged DEF TypeOK, ProcessMatchJob
<1>4. ASSUME ProcessCancellation PROVE TypeOK'
  <2>1. matched' \in [Destinations -> Generations]
    BY <1>4 DEF TypeOK, BatchTypes, Batches, Generations, ProcessCancellation
  <2> QED
    BY <1>4, <2>1, TypesUnchanged DEF TypeOK, ProcessCancellation
<1>5. ASSUME CommitMatchBatches PROVE TypeOK'
  <2>1. BatchTypes'
    BY <1>5 DEF TypeOK, BatchTypes, Batches, CommitMatchBatches
  <2>2. matched' \in [Destinations -> Generations]
    BY <1>5 DEF TypeOK, Generations, CommitMatchBatches
  <2> QED
    BY <1>5, <2>1, <2>2, TypesUnchanged DEF TypeOK, CommitMatchBatches
<1>6. ASSUME NEW b \in Batches, ProcessDeliveryBatch(b) PROVE TypeOK'
  <2>1. DeliveryTypes'
    BY <1>6 DEF TypeOK, DeliveryTypes, LanePhases, ProcessDeliveryBatch
  <2> QED
    BY <1>6, <2>1, TypesUnchanged DEF TypeOK, ProcessDeliveryBatch
<1>7. ASSUME NEW b \in Batches, FinishDeliveryBatch(b) PROVE TypeOK'
  <2>1. DeliveryTypes'
    BY <1>7 DEF TypeOK, DeliveryTypes, FinishDeliveryBatch
  <2> QED
    BY <1>7, <2>1, TypesUnchanged DEF TypeOK, FinishDeliveryBatch
<1>8. ASSUME NEW b \in Batches, NEW d \in Destinations, LaneAcquire(b, d)
      PROVE  TypeOK'
  <2>1. DeliveryTypes'
    BY <1>8 DEF TypeOK, DeliveryTypes, LanePhases, LaneAcquire
  <2>2. lock' \in [Destinations -> 0 .. MaxBatches + 1]
    BY <1>8 DEF TypeOK, Batches, LaneAcquire
  <2> QED
    BY <1>8, <2>1, <2>2, TypesUnchanged DEF TypeOK, LaneAcquire
<1>9. ASSUME NEW b \in Batches, NEW d \in Destinations,
             LanePrepare(b, d) \/ LaneFails(b, d)
      PROVE  TypeOK'
  <2>1. DeliveryTypes'
    BY <1>9
    DEF TypeOK, DeliveryTypes, LanePhases, Outcomes, LanePrepare, LaneFails,
        UnsentErrors, UnsentPhases
  <2> QED
    BY <1>9, <2>1, TypesUnchanged DEF TypeOK, LanePrepare, LaneFails
<1>10. ASSUME NEW b \in Batches, NEW d \in Destinations, LanePush(b, d)
      PROVE  TypeOK'
  <2>1. DeliveryTypes'
    BY <1>10
    DEF TypeOK, DeliveryTypes, LanePhases, Outcomes, PushedPhases, LanePush
  <2>2. ObservedTypes'
    BY <1>10 DEF TypeOK, ObservedTypes, LanePush
  <2> QED
    BY <1>10, <2>1, <2>2, TypesUnchanged DEF TypeOK, LanePush
<1>11. ASSUME NEW b \in Batches, NEW d \in Destinations, CommitLaneOutcome(b, d)
      PROVE  TypeOK'
  <2>1. BatchTypes'
    BY <1>11 DEF TypeOK, BatchTypes, CommitLaneOutcome
  <2>2. RetryTypes'
    BY <1>11 DEF TypeOK, RetryTypes, CommitLaneOutcome
  <2>3. ledger' \in [Destinations -> 0 .. MaxBatches]
    BY <1>11 DEF TypeOK, Batches, CommitLaneOutcome
  <2>4. DeliveryTypes'
    BY <1>11 DEF TypeOK, DeliveryTypes, LanePhases, CommitLaneOutcome
  <2>5. lock' \in [Destinations -> 0 .. MaxBatches + 1]
    BY <1>11 DEF TypeOK, Free, CommitLaneOutcome
  <2>6. ObservedTypes'
    BY <1>11 DEF TypeOK, ObservedTypes, ResultOf, Results, CommitLaneOutcome
  <2> QED
    BY <1>11, <2>1, <2>2, <2>3, <2>4, <2>5, <2>6, TypesUnchanged
    DEF TypeOK, CommitLaneOutcome
<1>12. ASSUME BeginRetryScan PROVE TypeOK'
  <2>1. ScanTypes'
    BY <1>12, NoPointerType, FirstRetryType
    DEF TypeOK, ScanTypes, BeginRetryScan
  <2>2. TaskTypes'
    BY <1>12, NoPointerType DEF TypeOK, TaskTypes, TaskPhases, BeginRetryScan
  <2> QED
    BY <1>12, <2>1, <2>2, TypesUnchanged DEF TypeOK, BeginRetryScan
<1>13. ASSUME NEW d \in Destinations, NEW isDue \in BOOLEAN, ReadRetry(d, isDue)
      PROVE  TypeOK'
  <2>1. ScanTypes'
    BY <1>13, NoPointerType DEF TypeOK, ScanTypes, ReadRetry
  <2> QED
    BY <1>13, <2>1, TypesUnchanged DEF TypeOK, ReadRetry
<1>14. ASSUME SpawnRetries PROVE TypeOK'
  <2>1. ScanTypes'
    BY <1>14, NoPointerType DEF TypeOK, ScanTypes, SpawnRetries
  <2>2. TaskTypes'
    BY <1>14, NoPointerType
    DEF TypeOK, TaskTypes, ScanTypes, TaskPhases, SpawnRetries
  <2> QED
    BY <1>14, <2>1, <2>2, TypesUnchanged DEF TypeOK, SpawnRetries
<1>15. ASSUME NEW d \in Destinations, LoadRetry(d) PROVE TypeOK'
  <2>1. TaskTypes'
    BY <1>15, NoPointerType
    DEF TypeOK, TaskTypes, TaskPhases, Outcomes, LoadRetry
  <2>2. lock' \in [Destinations -> 0 .. MaxBatches + 1]
    BY <1>15 DEF TypeOK, RetryHolder, LoadRetry
  <2> QED
    BY <1>15, <2>1, <2>2, TypesUnchanged DEF TypeOK, LoadRetry
<1>16. ASSUME NEW d \in Destinations, PrepareRetry(d) \/ RetryFails(d) PROVE TypeOK'
  <2>1. TaskTypes'
    BY <1>16, NoPointerType
    DEF TypeOK, TaskTypes, TaskPhases, Outcomes, PrepareRetry, RetryFails,
        UnsentErrors, UnsentPhases
  <2> QED
    BY <1>16, <2>1, TypesUnchanged DEF TypeOK, PrepareRetry, RetryFails
<1>17. ASSUME NEW d \in Destinations, PushRetry(d) PROVE TypeOK'
  <2>1. TaskTypes'
    BY <1>17, NoPointerType
    DEF TypeOK, TaskTypes, TaskPhases, Outcomes, PushedPhases, PushRetry
  <2>2. ObservedTypes'
    <3> DEFINE b == pointer[d].batch
               n == pushes[b][d] + 1
    <3>1. b \in Batches => n \in Nat
      BY DEF TypeOK, ObservedTypes
    <3>2. [pushes EXCEPT ![b][d] = n] \in [Batches -> [Destinations -> Nat]]
      <4> HIDE DEF b, n
      <4>1. pushes \in [Batches -> [Destinations -> Nat]]
        BY DEF TypeOK, ObservedTypes
      <4> QED
        BY ONLY <4>1, <3>1, UpdateType, Zenon
    <3> QED
      BY <1>17, <3>2 DEF TypeOK, ObservedTypes, PushRetry
  <2> QED
    BY <1>17, <2>1, <2>2, TypesUnchanged DEF TypeOK, PushRetry
<1>18. ASSUME NEW d \in Destinations, RescheduleRetry(d) PROVE TypeOK'
  <2>1. RetryTypes'
    <3> DEFINE b == pointer[d].batch
               n == pointer[d].attempts + 1
    <3>1. n \in 0 .. MaxRetryAttempts
      BY <1>18 DEF TypeOK, TaskTypes, Pointers, RescheduleRetry, MayRetryAgain
    <3>2. [attempts EXCEPT ![b][d] = n] \in [Batches -> [Destinations -> 0 .. MaxRetryAttempts]]
      <4> HIDE DEF b, n
      <4>1. attempts \in [Batches -> [Destinations -> 0 .. MaxRetryAttempts]]
        BY DEF TypeOK, RetryTypes
      <4> QED
        BY ONLY <4>1, <3>1, UpdateType, Zenon
    <3> QED
      BY <1>18, <3>2 DEF TypeOK, RetryTypes, RescheduleRetry
  <2>2. TaskTypes'
    BY <1>18, NoPointerType
    DEF TypeOK, TaskTypes, TaskPhases, RescheduleRetry, EndRetry
  <2>3. lock' \in [Destinations -> 0 .. MaxBatches + 1]
    BY <1>18 DEF TypeOK, Free, RescheduleRetry, EndRetry
  <2> QED
    BY <1>18, <2>1, <2>2, <2>3, TypesUnchanged
    DEF TypeOK, RescheduleRetry, EndRetry
<1>19. ASSUME NEW d \in Destinations, CompleteRetry(d) PROVE TypeOK'
  <2>1. BatchTypes'
    BY <1>19 DEF TypeOK, BatchTypes, CompleteRetry, EndRetry
  <2>2. RetryTypes'
    <3> DEFINE b == pointer[d].batch
    <3>1. 0 \in 0 .. MaxRetryAttempts
      OBVIOUS
    <3>2. [attempts EXCEPT ![b][d] = 0] \in [Batches -> [Destinations -> 0 .. MaxRetryAttempts]]
      <4> HIDE DEF b
      <4>1. attempts \in [Batches -> [Destinations -> 0 .. MaxRetryAttempts]]
        BY DEF TypeOK, RetryTypes
      <4> QED
        BY ONLY <3>1, <4>1, UpdateType, Zenon
    <3> QED
      BY <1>19, <3>2 DEF TypeOK, RetryTypes, CompleteRetry
  <2>3. ledger' \in [Destinations -> 0 .. MaxBatches]
    BY <1>19 DEF TypeOK, TaskTypes, Pointers, CompleteRetry, EndRetry
  <2>4. TaskTypes'
    BY <1>19, NoPointerType
    DEF TypeOK, TaskTypes, TaskPhases, CompleteRetry, EndRetry
  <2>5. lock' \in [Destinations -> 0 .. MaxBatches + 1]
    BY <1>19 DEF TypeOK, Free, CompleteRetry, EndRetry
  <2>6. ObservedTypes'
    BY <1>19
    DEF TypeOK, ObservedTypes, ResultOf, Results, CompleteRetry, EndRetry
  <2> QED
    BY <1>19, <2>1, <2>2, <2>3, <2>4, <2>5, <2>6, TypesUnchanged
    DEF TypeOK, CompleteRetry, EndRetry
<1>20. ASSUME Restart, crashes' \in 0 .. MaxCrashes PROVE TypeOK'
  <2>1. BatchTypes' /\ RetryTypes' /\ SubscriptionTypes'
    BY <1>20, TypesUnchanged DEF Restart
  <2>2. DeliveryTypes' /\ lock' \in [Destinations -> 0 .. MaxBatches + 1]
    BY <1>20 DEF Restart, DeliveryTypes, LanePhases, Free
  <2>3. ScanTypes' /\ TaskTypes'
    BY <1>20, NoPointerType DEF Restart, ScanTypes, TaskTypes, TaskPhases
  <2>4. ObservedTypes'
    BY <1>20 DEF TypeOK, Restart, ObservedTypes
  <2>5. ledger' \in [Destinations -> 0 .. MaxBatches] /\ matched' \in [Destinations -> Generations]
    BY <1>20 DEF TypeOK, Restart, Generations
  <2> QED
    BY <2>1, <2>2, <2>3, <2>4, <2>5 DEF TypeOK
<1>21. CASE Crash
  BY <1>20, <1>21 DEF Crash, TypeOK, ObservedTypes
<1>22. ASSUME NEW d \in Destinations, ReadRetryFails(d) PROVE TypeOK'
  BY <1>20, <1>22 DEF ReadRetryFails, TypeOK, ObservedTypes
<1>23. CASE UNCHANGED vars
  BY <1>23, TypesUnchanged DEF vars, TypeOK
<1> QED
  BY <1>1, <1>2, <1>3, <1>4, <1>5, <1>6, <1>7, <1>8, <1>9, <1>10, <1>11,
     <1>12, <1>13, <1>14, <1>15, <1>16, <1>17, <1>18, <1>19, <1>20, <1>21,
     <1>22, <1>23
  DEF Next, LaneStep, TaskStep, ScanStep

(* The empty store and the idle engines have their types.                  *)
LEMMA TypeInit == Init => TypeOK
<1> SUFFICES ASSUME Init PROVE TypeOK
  OBVIOUS
<1>1. BatchTypes /\ RetryTypes /\ SubscriptionTypes
  BY DEF Init, BatchTypes, RetryTypes, SubscriptionTypes, Generations
<1>2. DeliveryTypes /\ ScanTypes /\ TaskTypes
  BY NoPointerType
  DEF Init, DeliveryTypes, ScanTypes, TaskTypes, LanePhases, TaskPhases
<1>3. ObservedTypes
  BY DEF Init, ObservedTypes, Results
<1> QED
  BY <1>1, <1>2, <1>3 DEF Init, TypeOK, Generations, Free

(* Every variable keeps its type: attempts, generations and batch ids stay *)
(* within their bounds in every behaviour.                                 *)
THEOREM TypeCorrect == Spec => []TypeOK
BY TypeInit, TypeStep, PTL DEF Spec

-----------------------------------------------------------------------------
(* The durable store *)

(* IndexExact, row by row, and its converse for the next state.            *)
IndexByRow ==
  \A b \in Batches, d \in Destinations :
    <<b, d>> \in index <=>
      \/ b \in pending /\ batchRow[b][d] # 0 /\ d \notin progress[b]
      \/ <<b, d>> \in retries

(* IndexExact, stated row by row.                                          *)
LEMMA IndexRows == TypeOK => (IndexExact <=> IndexByRow)
<1> SUFFICES ASSUME TypeOK PROVE IndexExact <=> IndexByRow
  OBVIOUS
<1>1. /\ index \subseteq Batches \X Destinations
      /\ retries \subseteq Batches \X Destinations
  BY DEF TypeOK, BatchTypes, RetryTypes
<1>2. Outstanding \subseteq Batches \X Destinations
  BY <1>1 DEF Outstanding
<1>3. ASSUME NEW b \in Batches, NEW d \in Destinations
      PROVE  <<b, d>> \in Outstanding <=>
               \/ b \in pending /\ batchRow[b][d] # 0 /\ d \notin progress[b]
               \/ <<b, d>> \in retries
  BY DEF Outstanding, PendingRows, RowsOf
<1> QED
  BY <1>1, <1>2, <1>3 DEF IndexExact, IndexByRow

(* The same, of the next state.                                            *)
LEMMA IndexRowsNext == TypeOK' => (IndexExact' <=> IndexByRow')
BY IndexRows, PTL

(* A step that leaves the store and the results alone keeps its            *)
(* invariants.                                                             *)
LEMMA StoreUnchanged ==
  ASSUME StoreExact, UNCHANGED storeVars
  PROVE  StoreExact'
<1> USE DEF StoreExact, storeVars
<1>1. FreshIds'
  BY DEF FreshIds
<1>2. IndexExact'
  BY DEF IndexExact, Outstanding, PendingRows, RowsOf
<1>3. ProgressExact'
  BY DEF ProgressExact, RowsOf
<1>4. BatchRecordExact'
  BY DEF BatchRecordExact, PendingRows, RowsOf, HasRetries
<1>5. RowsAccountedFor'
  BY DEF RowsAccountedFor
<1> QED
  BY <1>1, <1>2, <1>3, <1>4, <1>5

(* A new batch: all its rows are pending, indexed and without a result.    *)
LEMMA StoreCommitMatch ==
  ASSUME IInv, TypeOK', CommitMatchBatches
  PROVE  StoreExact'
<1>0. PICK n \in Batches : n = lastBatch + 1
  BY DEF CommitMatchBatches
<1>1. /\ n > lastBatch /\ lastBatch' = n
      /\ batchRow'[n] = matched
      /\ \A b \in Batches : b # n => batchRow'[b] = batchRow[b]
      /\ pending' = pending \cup {n}
      /\ UNCHANGED <<retained, progress, retries, result>>
  BY <1>0 DEF IInv, TypeOK, BatchTypes, CommitMatchBatches, Batches, retryVars, observed
<1>2. \A b \in Batches, d \in Destinations :
        <<b, d>> \in index' <=> <<b, d>> \in index \/ (b = n /\ matched[d] # 0)
  BY <1>0 DEF CommitMatchBatches
<1>3. /\ n \notin pending /\ n \notin retained /\ progress[n] = {}
      /\ \A d \in Destinations :
           /\ batchRow[n][d] = 0 /\ result[n][d] = "none"
           /\ <<n, d>> \notin index /\ <<n, d>> \notin retries
  BY <1>1 DEF IInv, StoreExact, FreshIds, BatchRecordExact, HasRetries
<1>4. \E d \in Destinations : matched[d] # 0
  BY DEF CommitMatchBatches, NothingMatched
<1>5. FreshIds'
  <2>1. \A b \in Batches : b > lastBatch' => b > lastBatch /\ b # n
    BY <1>1 DEF IInv, TypeOK, BatchTypes, Batches
  <2> QED
    BY <1>1, <1>2, <2>1 DEF IInv, StoreExact, FreshIds
<1>6. IndexExact'
  <2>1. IndexByRow
    BY IndexRows DEF IInv, StoreExact
  <2>2. IndexByRow'
    BY <1>1, <1>2, <1>3, <2>1 DEF IndexByRow
  <2> QED
    BY <2>2, IndexRowsNext
<1>7. ProgressExact'
  BY <1>1, <1>3 DEF IInv, StoreExact, ProgressExact, RowsOf
<1>8. BatchRecordExact'
  <2>1. BatchRecordExact
    BY DEF IInv, StoreExact
  <2>2. \A b \in Batches : b # n => PendingRows(b)' = PendingRows(b)
    BY <1>1 DEF PendingRows, RowsOf
  <2>3. PendingRows(n)' # {}
    <3>1. PICK d \in Destinations : matched[d] # 0
      BY <1>4
    <3>2. batchRow'[n][d] # 0 /\ progress'[n] = {}
      BY <1>1, <1>3, <3>1
    <3>3. d \in PendingRows(n)'
      BY <3>2 DEF PendingRows, RowsOf
    <3> QED
      BY <3>3
  <2>4. \A b \in Batches : HasRetries(b, retries)' <=> HasRetries(b, retries)
    BY <1>1 DEF HasRetries
  <2>5. ~HasRetries(n, retries)
    BY <1>3 DEF HasRetries
  <2>6. pending \subseteq Batches
    BY DEF IInv, TypeOK, BatchTypes
  <2>7. pending' \cap retained' = {}
    BY <1>1, <1>3, <2>1 DEF BatchRecordExact, HasRetries
  <2>8. \A b \in pending' : PendingRows(b)' # {}
    BY <1>1, <2>1, <2>2, <2>3, <2>6 DEF BatchRecordExact, HasRetries
  <2>9. \A b \in Batches :
          b \in retained' <=> b \notin pending' /\ HasRetries(b, retries)'
    BY <1>1, <1>3, <2>1, <2>4, <2>5 DEF BatchRecordExact, HasRetries
  <2> QED
    BY <2>7, <2>8, <2>9 DEF BatchRecordExact, HasRetries, PendingRows, RowsOf
<1>9. RowsAccountedFor'
  <2> SUFFICES ASSUME NEW b \in Batches, NEW d \in Destinations
               PROVE  <<b, d>> \in index' <=> batchRow'[b][d] # 0 /\ result'[b][d] = "none"
    BY DEF RowsAccountedFor
  <2>1. CASE b = n
    BY <1>1, <1>2, <1>3, <2>1
  <2>2. CASE b # n
    BY <1>1, <1>2, <2>2 DEF IInv, StoreExact, RowsAccountedFor
  <2> QED
    BY <2>1, <2>2
<1> QED
  BY <1>5, <1>6, <1>7, <1>8, <1>9 DEF StoreExact

(* A lane's commit: what it does to the row, and to the rest of its batch. *)
LEMMA StoreCommitLane ==
  ASSUME IInv, TypeOK', NEW b \in Batches, NEW d \in Destinations,
         CommitLaneOutcome(b, d)
  PROVE  StoreExact'
<1> DEFINE retried == IsRetried(lane[b][d])
           full == progress[b] \cup {d} = RowsOf(b)
<1>1. /\ lastBatch' = lastBatch /\ batchRow' = batchRow
      /\ pending' = IF full THEN pending \ {b} ELSE pending
      /\ retained' = IF full /\ HasRetries(b, retries')
                      THEN retained \cup {b} ELSE retained
      /\ \A c \in Batches : c # b =>
           /\ progress'[c] = progress[c]
           /\ result'[c] = result[c]
      /\ progress'[b] = IF full THEN {} ELSE progress[b] \cup {d}
  BY DEF CommitLaneOutcome, ReleasedKeys, IInv, TypeOK, BatchTypes, ObservedTypes
<1>2. \A c \in Batches, e \in Destinations :
        /\ <<c, e>> \in retries' <=> <<c, e>> \in retries \/ (retried /\ c = b /\ e = d)
        /\ <<c, e>> \in index' <=> <<c, e>> \in index /\ (retried \/ c # b \/ e # d)
  BY DEF CommitLaneOutcome, ReleasedKeys
<1>3. /\ retried => result' = result
      /\ ~retried => result'[b][d] # "none"
      /\ \A e \in Destinations : e # d => result'[b][e] = result[b][e]
  BY DEF CommitLaneOutcome, ReleasedKeys, IInv, TypeOK, ObservedTypes, ResultOf
<1>4. b \in pending /\ batchRow[b][d] # 0 /\ d \notin progress[b]
  BY DEF CommitLaneOutcome, ReleasedKeys, IInv, LaneExact, Outcomes, PendingRows, RowsOf
<1>5. IndexByRow
  BY IndexRows DEF IInv, StoreExact
<1>6. <<b, d>> \in index /\ <<b, d>> \notin retries /\ b \notin retained /\ b <= lastBatch
  BY <1>4, <1>5
  DEF IInv, TypeOK, BatchTypes, Batches, StoreExact, FreshIds, ProgressExact,
      BatchRecordExact, IndexByRow, HasRetries
<1> HIDE DEF retried
<1>7. FreshIds'
  BY <1>1, <1>2, <1>3, <1>6 DEF IInv, StoreExact, FreshIds
<1>8. \A e \in Destinations : full /\ batchRow[b][e] # 0 => e = d \/ e \in progress[b]
  BY DEF RowsOf
<1> HIDE DEF full
<1>9. IndexExact'
  <2> SUFFICES ASSUME NEW c \in Batches, NEW e \in Destinations
               PROVE  <<c, e>> \in index' <=>
                        \/ c \in pending' /\ batchRow'[c][e] # 0 /\ e \notin progress'[c]
                        \/ <<c, e>> \in retries'
    BY IndexRowsNext DEF IndexByRow
  <2>1. <<c, e>> \in index <=>
          \/ c \in pending /\ batchRow[c][e] # 0 /\ e \notin progress[c]
          \/ <<c, e>> \in retries
    BY <1>5 DEF IndexByRow
  <2>2. CASE c # b
    BY <1>1, <1>2, <2>1, <2>2
  <2>3. CASE c = b /\ e # d
    <3>1. c \in pending' /\ e \notin progress'[c] /\ batchRow[c][e] # 0
          <=> c \in pending /\ e \notin progress[c] /\ batchRow[c][e] # 0
      BY <1>1, <1>4, <1>8, <2>3
    <3> QED
      BY <1>1, <1>2, <2>1, <2>3, <3>1
  <2>4. CASE c = b /\ e = d
    BY <1>1, <1>2, <1>6, <2>1, <2>4
  <2> QED
    BY <2>2, <2>3, <2>4
<1>10. ProgressExact'
  <2>1. ProgressExact
    BY DEF IInv, StoreExact
  <2>2. \A c \in Batches : RowsOf(c)' = RowsOf(c)
    BY <1>1 DEF RowsOf
  <2>3. \A c \in Batches : progress'[c] \subseteq RowsOf(c)
    BY <1>1, <1>4, <2>1 DEF ProgressExact, RowsOf
  <2>4. ASSUME NEW c \in Batches, NEW e \in Destinations, <<c, e>> \in retries', c \in pending'
        PROVE  e \in progress'[c]
    BY <1>1, <1>2, <2>1, <2>4 DEF ProgressExact
  <2> QED
    BY <2>2, <2>3, <2>4 DEF ProgressExact
<1>11. BatchRecordExact'
  <2>1. BatchRecordExact /\ pending \subseteq Batches /\ ProgressExact
    BY DEF IInv, StoreExact, TypeOK, BatchTypes
  <2>2. pending' \cap retained' = {}
    BY <1>1, <1>6, <2>1 DEF BatchRecordExact, HasRetries
  <2>3. \A c \in pending' : PendingRows(c)' # {}
    <3> TAKE c \in pending'
    <3>1. CASE c # b
      <4>1. c \in Batches /\ c \in pending /\ PendingRows(c)' = PendingRows(c)
        BY <1>1, <2>1, <3>1 DEF PendingRows, RowsOf
      <4> QED
        BY <2>1, <4>1 DEF BatchRecordExact, HasRetries
    <3>2. CASE c = b
      <4>1. ~full /\ progress'[b] = progress[b] \cup {d}
        BY <1>1, <3>2
      <4>2. RowsOf(b)' = RowsOf(b) /\ progress[b] \cup {d} \subseteq RowsOf(b)
        BY <1>1, <1>4, <2>1 DEF RowsOf, ProgressExact
      <4> QED
        BY <3>2, <4>1, <4>2 DEF full, PendingRows
    <3> QED
      BY <3>1, <3>2
  <2>4. \A c \in Batches : c # b => (HasRetries(c, retries)' <=> HasRetries(c, retries))
    BY <1>2 DEF HasRetries
  <2>5. \A c \in Batches :
          c \in retained' <=> c \notin pending' /\ HasRetries(c, retries)'
    <3>1. HasRetries(b, retries') <=> HasRetries(b, retries)'
      BY DEF HasRetries
    <3> QED
      BY <1>1, <1>4, <1>6, <2>1, <2>4, <3>1 DEF BatchRecordExact, HasRetries
  <2> QED
    BY <2>2, <2>3, <2>5 DEF BatchRecordExact, HasRetries, PendingRows, RowsOf
<1>12. RowsAccountedFor'
  <2> SUFFICES ASSUME NEW c \in Batches, NEW e \in Destinations
               PROVE  <<c, e>> \in index' <=> batchRow'[c][e] # 0 /\ result'[c][e] = "none"
    BY DEF RowsAccountedFor
  <2>1. <<c, e>> \in index <=> batchRow[c][e] # 0 /\ result[c][e] = "none"
    BY DEF IInv, StoreExact, RowsAccountedFor
  <2>2. CASE c = b /\ e = d
    BY <1>1, <1>2, <1>3, <2>1, <2>2
  <2>3. CASE ~(c = b /\ e = d)
    BY <1>1, <1>2, <1>3, <2>1, <2>3
  <2> QED
    BY <2>2, <2>3
<1> QED
  BY <1>7, <1>9, <1>10, <1>11, <1>12 DEF StoreExact

(* The end of a retry: its row leaves retries and index together.          *)
LEMMA StoreCompleteRetry ==
  ASSUME IInv, TypeOK', NEW d \in Destinations, CompleteRetry(d)
  PROVE  StoreExact'
<1>1. PICK b \in Batches : b = pointer[d].batch /\ <<b, d>> \in retries
  BY DEF CompleteRetry, IInv, RetryTaskCurrent, IsRetryHead, IsCurrent, Outcomes
<1>2. /\ UNCHANGED <<lastBatch, batchRow, pending, progress>>
      /\ retained' = IF HasRetries(b, retries') THEN retained ELSE retained \ {b}
      /\ result'[b][d] # "none"
      /\ \A c \in Batches, e \in Destinations : c # b \/ e # d => result'[c][e] = result[c][e]
  BY <1>1 DEF CompleteRetry, IInv, TypeOK, ObservedTypes, ResultOf
<1>3. \A c \in Batches, e \in Destinations :
        /\ <<c, e>> \in retries' <=> <<c, e>> \in retries /\ (c # b \/ e # d)
        /\ <<c, e>> \in index' <=> <<c, e>> \in index /\ (c # b \/ e # d)
  BY <1>1 DEF CompleteRetry
<1>4. IndexByRow
  BY IndexRows DEF IInv, StoreExact
<1>5. <<b, d>> \in index
  BY <1>1, <1>4 DEF IndexByRow
<1>6. b \in pending => d \in progress[b]
  BY <1>1 DEF IInv, StoreExact, ProgressExact
<1>7. FreshIds'
  BY <1>1, <1>2, <1>3 DEF IInv, StoreExact, FreshIds
<1>8. IndexExact'
  <2>1. IndexByRow'
    BY <1>2, <1>3, <1>4, <1>6 DEF IndexByRow
  <2> QED
    BY <2>1, IndexRowsNext
<1>9. ProgressExact'
  BY <1>2, <1>3 DEF IInv, StoreExact, ProgressExact, RowsOf
<1>10. BatchRecordExact'
  <2>1. BatchRecordExact
    BY DEF IInv, StoreExact
  <2>2. \A c \in Batches : c # b => (HasRetries(c, retries)' <=> HasRetries(c, retries))
    BY <1>3 DEF HasRetries
  <2>3. HasRetries(b, retries)
    BY <1>1 DEF HasRetries
  <2>4. HasRetries(b, retries') <=> HasRetries(b, retries)'
    BY DEF HasRetries
  <2>5. \A c \in Batches :
          c \in retained' <=> c \notin pending' /\ HasRetries(c, retries)'
    BY <1>2, <2>1, <2>2, <2>3, <2>4 DEF BatchRecordExact, HasRetries
  <2>6. pending' \cap retained' = {}
    BY <1>2, <2>1 DEF BatchRecordExact, HasRetries
  <2>7. \A c \in pending' : PendingRows(c)' # {}
    BY <1>2, <2>1 DEF BatchRecordExact, PendingRows, RowsOf, HasRetries
  <2> QED
    BY <2>5, <2>6, <2>7 DEF BatchRecordExact, HasRetries, PendingRows, RowsOf
<1>11. RowsAccountedFor'
  <2> SUFFICES ASSUME NEW c \in Batches, NEW e \in Destinations
               PROVE  <<c, e>> \in index' <=> batchRow'[c][e] # 0 /\ result'[c][e] = "none"
    BY DEF RowsAccountedFor
  <2> QED
    BY <1>2, <1>3 DEF IInv, StoreExact, RowsAccountedFor
<1> QED
  BY <1>7, <1>8, <1>9, <1>10, <1>11 DEF StoreExact

-----------------------------------------------------------------------------
(* Locks and lanes *)

(* Every step keeps the locks exact: an engine that leaves its phases past *)
(* the acquisition frees the lock it took, and a restart frees them all.   *)
LEMMA LockStep ==
  ASSUME IInv, TypeOK', [Next]_vars
  PROVE  LockExact'
<1> USE DEF LockExact
<1>0. LockExact /\ TypeOK
  BY DEF IInv
<1>1. CASE UNCHANGED <<lane, task, lock>>
  BY <1>0, <1>1
<1>2. ASSUME NEW b \in Batches, ProcessDeliveryBatch(b) PROVE LockExact'
  <2>1. \A d \in Destinations : lane[b][d] = "none" /\ lane'[b][d] \in {"none", "waiting"}
    BY <1>2 DEF ProcessDeliveryBatch, IInv, LaneExact, TypeOK, DeliveryTypes
  <2>2. UNCHANGED <<task, lock>> /\ \A c \in Batches : c # b => lane'[c] = lane[c]
    BY <1>0, <1>2 DEF ProcessDeliveryBatch, taskVars, TypeOK, DeliveryTypes
  <2> QED
    BY <1>0, <2>1, <2>2 DEF HoldingPhases, Outcomes
<1>3. ASSUME NEW b \in Batches, NEW d \in Destinations, LaneAcquire(b, d)
      PROVE  LockExact'
  BY <1>0, <1>3
  DEF LaneAcquire, IsUnlocked, taskVars, TypeOK, DeliveryTypes, HoldingPhases, Outcomes,
      Free, Batches, RetryHolder
<1>4. ASSUME NEW b \in Batches, NEW d \in Destinations,
             LanePrepare(b, d) \/ LaneFails(b, d) \/ LanePush(b, d)
      PROVE  LockExact'
  BY <1>0, <1>4
  DEF LanePrepare, LaneFails, UnsentErrors, UnsentPhases, LanePush, taskVars, TypeOK, DeliveryTypes, HoldingPhases, Outcomes,
      PushedPhases
<1>5. ASSUME NEW b \in Batches, NEW d \in Destinations, CommitLaneOutcome(b, d)
      PROVE  LockExact'
  BY <1>0, <1>5
  DEF CommitLaneOutcome, ReleasedKeys, taskVars, TypeOK, DeliveryTypes, HoldingPhases,
      Outcomes, Free, Batches, RetryHolder
<1>6. CASE BeginRetryScan \/ SpawnRetries
  <2>1. UNCHANGED <<lane, lock>>
    BY <1>6 DEF BeginRetryScan, SpawnRetries, deliveryVars
  <2>2. \A d \in Destinations : task'[d] \in HoldingPhases <=> task[d] \in HoldingPhases
    <3>1. CASE BeginRetryScan
      BY <1>0, <3>1 DEF BeginRetryScan, TypeOK, TaskTypes, HoldingPhases, Outcomes
    <3>2. CASE SpawnRetries
      <4>1. \A d \in Destinations :
              task'[d] = task[d] \/ (task[d] = "none" /\ task'[d] = "waiting")
        BY <1>0, <3>2 DEF SpawnRetries, HasTask, ActiveTasks, TypeOK, TaskTypes
      <4> QED
        BY <4>1 DEF HoldingPhases, Outcomes
    <3> QED
      BY <1>6, <3>1, <3>2
  <2> QED
    BY <1>0, <2>1, <2>2
<1>7. ASSUME NEW d \in Destinations, LoadRetry(d) PROVE LockExact'
  BY <1>0, <1>7
  DEF LoadRetry, IsUnlocked, deliveryVars, TypeOK, TaskTypes, HoldingPhases, Outcomes,
      Free, Batches, RetryHolder
<1>8. ASSUME NEW d \in Destinations, PrepareRetry(d) \/ RetryFails(d) \/ PushRetry(d)
      PROVE  LockExact'
  BY <1>0, <1>8
  DEF PrepareRetry, RetryFails, UnsentErrors, UnsentPhases, PushRetry, deliveryVars, TypeOK, TaskTypes, HoldingPhases, Outcomes,
      PushedPhases
<1>9. ASSUME NEW d \in Destinations, RescheduleRetry(d) \/ CompleteRetry(d)
      PROVE  LockExact'
  BY <1>0, <1>9
  DEF RescheduleRetry, IsTransient, CompleteRetry, EndRetry, deliveryVars, TypeOK, TaskTypes,
      HoldingPhases, Outcomes, Free, Batches, RetryHolder
<1>10. CASE Restart
  BY <1>10 DEF Restart, HoldingPhases, Outcomes, Free, Batches, RetryHolder
<1> QED
  BY <1>1, <1>2, <1>3, <1>4, <1>5, <1>6, <1>7, <1>8, <1>9, <1>10
  DEF Next, LaneStep, TaskStep, ScanStep, Crash, ReadRetryFails, ReadRetry,
      FinishDeliveryBatch,
      Subscribe, Deactivate, ProcessMatchJob, ProcessCancellation, CommitMatchBatches,
      vars, deliveryVars, taskVars

(* A head stays the head while no earlier row of its destination appears.  *)
LEMMA HeadKept ==
  ASSUME NEW b \in Batches, NEW d \in Destinations, IsDestinationHead(b, d),
         <<b, d>> \in index',
         \A c \in Batches : <<c, d>> \in index' => <<c, d>> \in index \/ b <= c
  PROVE  IsDestinationHead(b, d)'
BY DEF IsDestinationHead

(* Every step keeps the lanes exact: what a lane has checked under its     *)
(* lock stays true until it commits.                                       *)
LEMMA LaneStepExact ==
  ASSUME IInv, TypeOK', [Next]_vars
  PROVE  LaneExact'
<1>0. LaneExact /\ TypeOK
  BY DEF IInv
<1>1. CASE UNCHANGED <<started, lane, pending, batchRow, progress, index>>
  BY <1>0, <1>1 DEF LaneExact, PendingRows, RowsOf, IsDestinationHead
<1>2. CASE CommitMatchBatches
  <2>1. PICK n \in Batches : n = lastBatch + 1
    BY <1>2 DEF CommitMatchBatches
  <2>2. /\ UNCHANGED <<started, lane, progress>> /\ pending' = pending \cup {n}
        /\ \A c \in Batches : c # n => batchRow'[c] = batchRow[c]
        /\ index \subseteq index'
        /\ \A c \in Batches, e \in Destinations : <<c, e>> \in index' => <<c, e>> \in index \/ c = n
    BY <1>0, <1>2, <2>1 DEF CommitMatchBatches, deliveryVars, TypeOK, BatchTypes
  <2>3. n \notin pending /\ n > lastBatch
    BY <1>0, <2>1 DEF IInv, StoreExact, FreshIds, TypeOK, BatchTypes, Batches
  <2> SUFFICES ASSUME NEW b \in Batches, NEW d \in Destinations, lane[b][d] # "none"
               PROVE  /\ b \in started \cap pending' /\ d \in PendingRows(b)'
                      /\ lane[b][d] \in HoldingPhases \ {"blocked"} => IsDestinationHead(b, d)'
    BY <2>2 DEF LaneExact, HoldingPhases, Outcomes
  <2>4. b \in started \cap pending /\ d \in PendingRows(b) /\ b # n
    BY <1>0, <2>3 DEF LaneExact
  <2>5. d \in PendingRows(b)'
    BY <2>2, <2>4 DEF PendingRows, RowsOf
  <2>6. b <= n
    BY <1>0, <2>1, <2>3, <2>4 DEF IInv, StoreExact, FreshIds, TypeOK, BatchTypes, Batches
  <2>7. IsDestinationHead(b, d) => IsDestinationHead(b, d)'
    <3> SUFFICES ASSUME IsDestinationHead(b, d) PROVE IsDestinationHead(b, d)'
      OBVIOUS
    <3>1. <<b, d>> \in index'
      BY <2>2 DEF IsDestinationHead
    <3> QED
      BY <2>2, <2>6, <3>1, HeadKept
  <2> QED
    BY <1>0, <2>2, <2>4, <2>5, <2>7 DEF LaneExact
<1>3. ASSUME NEW b \in Batches, ProcessDeliveryBatch(b) PROVE LaneExact'
  <2>1. /\ UNCHANGED <<pending, batchRow, progress, index>>
        /\ started' = started \cup {b} /\ b \in pending
        /\ \A c \in Batches : c # b => lane'[c] = lane[c]
        /\ \A d \in Destinations :
             lane'[b][d] = IF d \in PendingRows(b) THEN "waiting" ELSE "none"
    BY <1>0, <1>3 DEF ProcessDeliveryBatch, batchVars, TypeOK, DeliveryTypes
  <2> QED
    BY <1>0, <2>1
    DEF LaneExact, PendingRows, RowsOf, IsDestinationHead, HoldingPhases, Outcomes
<1>4. ASSUME NEW b \in Batches, FinishDeliveryBatch(b) PROVE LaneExact'
  BY <1>0, <1>4
  DEF FinishDeliveryBatch, batchVars, LaneExact, PendingRows, RowsOf, IsDestinationHead
<1>5. ASSUME NEW b \in Batches, NEW d \in Destinations,
             LaneAcquire(b, d) \/ LanePrepare(b, d) \/ LaneFails(b, d) \/ LanePush(b, d)
      PROVE  LaneExact'
  <2>1. /\ UNCHANGED <<started, pending, batchRow, progress, index>>
        /\ lane[b][d] # "none"
        /\ \A c \in Batches, e \in Destinations : c # b \/ e # d => lane'[c][e] = lane[c][e]
        /\ lane'[b][d] \in HoldingPhases \ {"blocked"} =>
             lane[b][d] \in HoldingPhases \ {"blocked"} \/ IsDestinationHead(b, d)
    BY <1>0, <1>5
    DEF LaneAcquire, LanePrepare, LaneFails, UnsentErrors, UnsentPhases, LanePush,
        batchVars, TypeOK, DeliveryTypes, HoldingPhases, Outcomes, PushedPhases
  <2>2. \A c \in Batches, e \in Destinations :
          /\ lane'[c][e] # "none" => lane[c][e] # "none"
          /\ lane'[c][e] \in HoldingPhases \ {"blocked"} => IsDestinationHead(c, e)
    BY <1>0, <2>1 DEF LaneExact
  <2>3. \A c \in Batches, e \in Destinations :
          /\ PendingRows(c)' = PendingRows(c)
          /\ IsDestinationHead(c, e)' <=> IsDestinationHead(c, e)
    BY <2>1 DEF PendingRows, RowsOf, IsDestinationHead
  <2> QED
    BY <1>0, <2>1, <2>2, <2>3 DEF LaneExact
<1>6. ASSUME NEW b \in Batches, NEW d \in Destinations, CommitLaneOutcome(b, d)
      PROVE  LaneExact'
  <2> DEFINE full == progress[b] \cup {d} = RowsOf(b)
  <2>1. /\ UNCHANGED <<started, batchRow>>
        /\ pending' = IF full THEN pending \ {b} ELSE pending
        /\ \A c \in Batches : c # b => progress'[c] = progress[c]
        /\ progress'[b] = IF full THEN {} ELSE progress[b] \cup {d}
        /\ lane'[b][d] = "none" /\ lane[b][d] \in HoldingPhases
        /\ \A c \in Batches, e \in Destinations : c # b \/ e # d => lane'[c][e] = lane[c][e]
        /\ \A c \in Batches, e \in Destinations : e # d => (<<c, e>> \in index' <=> <<c, e>> \in index)
    BY <1>0, <1>6
    DEF CommitLaneOutcome, ReleasedKeys, TypeOK, BatchTypes, DeliveryTypes,
        HoldingPhases, Outcomes
  <2> SUFFICES ASSUME NEW c \in Batches, NEW e \in Destinations, lane'[c][e] # "none"
               PROVE  /\ c \in started' \cap pending' /\ e \in PendingRows(c)'
                      /\ lane'[c][e] \in HoldingPhases \ {"blocked"} => IsDestinationHead(c, e)'
    BY DEF LaneExact, HoldingPhases, Outcomes
  <2>2. lane'[c][e] = lane[c][e] /\ (c # b \/ e # d)
    BY <2>1
  <2>3. c \in started \cap pending /\ e \in PendingRows(c)
    BY <1>0, <2>2 DEF LaneExact
  <2>4. c \in pending' /\ e \in PendingRows(c)'
    <3>1. CASE c # b
      BY <2>1, <2>3, <3>1 DEF PendingRows, RowsOf
    <3>2. CASE c = b
      <4>1. e \notin progress[b] \cup {d} /\ e \in RowsOf(b) /\ ~full
        BY <2>2, <2>3, <3>2 DEF PendingRows
      <4> QED
        BY <2>1, <2>3, <3>2, <4>1 DEF PendingRows, RowsOf
    <3> QED
      BY <3>1, <3>2
  <2>5. ASSUME lane'[c][e] \in HoldingPhases \ {"blocked"}
        PROVE  IsDestinationHead(c, e)'
    <3>1. e # d
      BY <2>1, <2>2, <2>5 DEF IInv, LockExact
    <3> QED
      BY <1>0, <2>1, <2>2, <2>5, <3>1 DEF LaneExact, IsDestinationHead
  <2> QED
    BY <2>1, <2>3, <2>4, <2>5
<1>7. ASSUME NEW d \in Destinations, CompleteRetry(d) PROVE LaneExact'
  <2>1. UNCHANGED <<started, lane, pending, batchRow, progress>> /\ task[d] \in HoldingPhases
        /\ \A c \in Batches, e \in Destinations : e # d => (<<c, e>> \in index' <=> <<c, e>> \in index)
    BY <1>0, <1>7 DEF CompleteRetry, deliveryVars, HoldingPhases
  <2>2. \A c \in Batches : lane[c][d] \notin HoldingPhases
    BY <2>1 DEF IInv, LockExact, RetryHolder, Batches
  <2> QED
    BY <1>0, <2>1, <2>2 DEF LaneExact, PendingRows, RowsOf, IsDestinationHead
<1>8. CASE Restart
  BY <1>8 DEF Restart, LaneExact, HoldingPhases, Outcomes
<1> QED
  BY <1>1, <1>2, <1>3, <1>4, <1>5, <1>6, <1>7, <1>8
  DEF Next, LaneStep, TaskStep, ScanStep, Crash, ReadRetryFails, ReadRetry,
      Subscribe, Deactivate, ProcessMatchJob, ProcessCancellation, BeginRetryScan,
      SpawnRetries,
      LoadRetry, PrepareRetry, RetryFails, PushRetry, RescheduleRetry,
      vars, batchVars, deliveryVars

-----------------------------------------------------------------------------
(* Retries *)

(* What the scan and the task of one destination know of their retry.      *)
RetryAt(d) ==
  /\ heads[d] # NoPointer /\ task[d] = "none" => IsRetryHead(heads[d], d)
  /\ task[d] \notin {"none", "done"} => IsRetryHead(pointer[d], d)

(* A retry stays its destination's head while it is stored unchanged and   *)
(* no earlier row appears.                                                 *)
LEMMA RetryHeadKept ==
  ASSUME NEW p \in Pointers, NEW d \in Destinations, IsRetryHead(p, d),
         <<p.batch, d>> \in index', <<p.batch, d>> \in retries',
         attempts'[p.batch][d] = attempts[p.batch][d],
         \A c \in Batches : <<c, d>> \in index' => <<c, d>> \in index \/ p.batch <= c,
         \A c \in Batches : <<c, d>> \in retries' => <<c, d>> \in retries \/ p.batch <= c
  PROVE  IsRetryHead(p, d)'
BY DEF IsRetryHead, IsCurrent, IsFirstRetry, IsDestinationHead

(* A step that leaves a destination's retries and its two workers alone.   *)
LEMMA RetryFrame ==
  ASSUME NEW d \in Destinations, RetryAt(d),
         heads'[d] = heads[d], task'[d] = task[d], pointer'[d] = pointer[d],
         \A c \in Batches :
           /\ <<c, d>> \in index' <=> <<c, d>> \in index
           /\ <<c, d>> \in retries' <=> <<c, d>> \in retries
           /\ attempts'[c][d] = attempts[c][d]
  PROVE  RetryAt(d)'
BY DEF RetryAt, IsRetryHead, IsCurrent, IsFirstRetry, IsDestinationHead

(* Every step keeps, at each destination, the heads found by the scan and  *)
(* the retry of the running task as they are stored.                       *)
LEMMA RetryStep ==
  ASSUME IInv, TypeOK', [Next]_vars
  PROVE  \A d \in Destinations : RetryAt(d)'
<1>0. TypeOK /\ \A d \in Destinations : RetryAt(d)
  BY DEF IInv, HeadsExact, RetryTaskCurrent, RetryAt
<1>1. CASE UNCHANGED <<index, retryVars, heads, taskVars>>
  BY <1>0, <1>1, RetryFrame DEF retryVars, taskVars
<1>2. CASE CommitMatchBatches
  <2>1. PICK n \in Batches : n = lastBatch + 1
    BY <1>2 DEF CommitMatchBatches
  <2>2. /\ UNCHANGED <<retries, attempts, heads, task, pointer>>
        /\ \A c \in Batches, e \in Destinations :
             /\ <<c, e>> \in index => <<c, e>> \in index'
             /\ <<c, e>> \in index' => <<c, e>> \in index \/ c = n
    BY <1>2, <2>1 DEF CommitMatchBatches, retryVars, scanVars, taskVars
  <2>3. ASSUME NEW p \in Pointers, NEW d \in Destinations, IsRetryHead(p, d)
        PROVE  IsRetryHead(p, d)'
    <3>1. p.batch \in Batches /\ <<p.batch, d>> \in retries /\ <<p.batch, d>> \in index
      BY <2>3 DEF IsRetryHead, IsCurrent, IsDestinationHead
    <3>2. p.batch <= n
      BY <1>0, <2>1, <3>1 DEF IInv, StoreExact, FreshIds, TypeOK, BatchTypes, Batches
    <3> QED
      BY <2>2, <2>3, <3>1, <3>2, RetryHeadKept
  <2> TAKE d \in Destinations
  <2>4. PICK p \in Pointers, q \in Pointers : p = heads[d] /\ q = pointer[d]
    BY <1>0 DEF TypeOK, ScanTypes, TaskTypes
  <2> QED
    BY <1>0, <2>2, <2>3, <2>4 DEF RetryAt
<1>3. ASSUME NEW b \in Batches, NEW d \in Destinations, CommitLaneOutcome(b, d)
      PROVE  \A e \in Destinations : RetryAt(e)'
  <2>1. /\ UNCHANGED <<heads, task, pointer>>
        /\ \A c \in Batches, e \in Destinations : c # b \/ e # d =>
             /\ <<c, e>> \in index' <=> <<c, e>> \in index
             /\ <<c, e>> \in retries' <=> <<c, e>> \in retries
             /\ attempts'[c][e] = attempts[c][e]
        /\ lane[b][d] \in HoldingPhases
        /\ lane[b][d] = "blocked" => index' = index
    BY <1>0, <1>3
    DEF CommitLaneOutcome, IsRetried, IsTransient, ReleasedKeys, scanVars, taskVars, TypeOK,
        RetryTypes, HoldingPhases, Outcomes
  <2>2. ASSUME NEW p \in Pointers, IsRetryHead(p, d) PROVE IsRetryHead(p, d)'
    <3>1. /\ p.batch \in Batches /\ <<p.batch, d>> \in retries
          /\ IsDestinationHead(p.batch, d)
      BY <2>2 DEF IsRetryHead, IsCurrent
    <3>2. b \in pending /\ batchRow[b][d] # 0 /\ d \notin progress[b]
      BY <2>1 DEF IInv, LaneExact, PendingRows, RowsOf, HoldingPhases, Outcomes
    <3>3. <<b, d>> \in index /\ <<b, d>> \notin retries
      BY <1>0, <3>2, IndexRows DEF IInv, StoreExact, ProgressExact, IndexByRow
    <3>4. p.batch # b /\ p.batch <= b
      BY <3>1, <3>3 DEF IsDestinationHead
    <3>5. lane[b][d] = "blocked"
      <4> SUFFICES ASSUME lane[b][d] # "blocked" PROVE FALSE
        OBVIOUS
      <4>1. IsDestinationHead(b, d)
        BY <2>1 DEF IInv, LaneExact
      <4>2. b <= p.batch
        BY <3>1, <4>1 DEF IsDestinationHead
      <4> QED
        BY <3>1, <3>4, <4>2 DEF Batches
    <3> QED
      BY <2>1, <2>2, <3>1, <3>4, <3>5, RetryHeadKept DEF IsDestinationHead
  <2>3. RetryAt(d)'
    <3>1. PICK p \in Pointers, q \in Pointers : p = heads[d] /\ q = pointer[d]
      BY <1>0 DEF TypeOK, ScanTypes, TaskTypes
    <3> QED
      BY <1>0, <2>1, <2>2, <3>1 DEF RetryAt
  <2>4. \A e \in Destinations : e # d => RetryAt(e)'
    BY <1>0, <2>1, RetryFrame
  <2> QED
    BY <2>3, <2>4
<1>4. ASSUME NEW d \in Destinations, CompleteRetry(d) \/ RescheduleRetry(d)
      PROVE  \A e \in Destinations : RetryAt(e)'
  <2>1. /\ heads' = heads /\ task'[d] = "done"
        /\ \A e \in Destinations : e # d =>
             /\ task'[e] = task[e] /\ pointer'[e] = pointer[e]
             /\ \A c \in Batches :
                  /\ <<c, e>> \in index' <=> <<c, e>> \in index
                  /\ <<c, e>> \in retries' <=> <<c, e>> \in retries
                  /\ attempts'[c][e] = attempts[c][e]
    BY <1>0, <1>4
    DEF CompleteRetry, RescheduleRetry, IsTransient, EndRetry, scanVars, batchVars, TypeOK,
        RetryTypes, TaskTypes
  <2>2. RetryAt(d)'
    BY <2>1 DEF RetryAt
  <2> QED
    BY <1>0, <2>1, <2>2, RetryFrame
<1>5. CASE BeginRetryScan
  <2>1. UNCHANGED <<index, retries, attempts, heads, pointer>> /\ heads = [d \in Destinations |-> NoPointer]
    BY <1>0, <1>5
    DEF BeginRetryScan, batchVars, retryVars, IInv, HeadsExact, TypeOK, ScanTypes
  <2> QED
    BY <1>0, <1>5, <2>1
    DEF BeginRetryScan, RetryAt, IsRetryHead, IsCurrent, IsFirstRetry,
        IsDestinationHead, TypeOK, TaskTypes
<1>6. ASSUME NEW d \in Destinations, NEW isDue \in BOOLEAN, ReadRetry(d, isDue)
      PROVE  \A e \in Destinations : RetryAt(e)'
  <2>1. /\ UNCHANGED <<index, retries, attempts, task, pointer>>
        /\ \A e \in Destinations : heads'[e] = heads[e] \/ IsRetryHead(heads'[e], e)
    BY <1>0, <1>6 DEF ReadRetry, batchVars, retryVars, taskVars, TypeOK, ScanTypes
  <2> QED
    BY <1>0, <2>1 DEF RetryAt, IsRetryHead, IsCurrent, IsFirstRetry, IsDestinationHead
<1>7. CASE SpawnRetries
  <2>1. /\ UNCHANGED <<index, retries, attempts>> /\ heads' = [d \in Destinations |-> NoPointer]
        /\ \A d \in Destinations :
             \/ task'[d] = task[d] /\ pointer'[d] = pointer[d]
             \/ heads[d] # NoPointer /\ task[d] = "none" /\ pointer'[d] = heads[d]
    BY <1>0, <1>7
    DEF SpawnRetries, HasTask, ActiveTasks, batchVars, retryVars, TypeOK, TaskTypes
  <2> QED
    BY <1>0, <2>1 DEF RetryAt, IsRetryHead, IsCurrent, IsFirstRetry, IsDestinationHead
<1>8. ASSUME NEW d \in Destinations, LoadRetry(d) \/ PrepareRetry(d) \/ RetryFails(d) \/ PushRetry(d)
      PROVE  \A e \in Destinations : RetryAt(e)'
  <2>1. /\ UNCHANGED <<index, retries, attempts, heads, pointer>>
        /\ task[d] \notin {"none", "done"} /\ task'[d] # "none"
        /\ \A e \in Destinations : e # d => task'[e] = task[e]
    BY <1>0, <1>8
    DEF LoadRetry, PrepareRetry, RetryFails, UnsentErrors, UnsentPhases, PushRetry,
        batchVars, retryVars, scanVars, TypeOK, TaskTypes, PushedPhases
  <2> QED
    BY <1>0, <2>1 DEF RetryAt, IsRetryHead, IsCurrent, IsFirstRetry, IsDestinationHead
<1>9. CASE Restart
  BY <1>9 DEF Restart, RetryAt
<1> QED
  BY <1>1, <1>2, <1>3, <1>4, <1>5, <1>6, <1>7, <1>8, <1>9
  DEF Next, LaneStep, TaskStep, ScanStep, Crash, ReadRetryFails,
      Subscribe, Deactivate, ProcessMatchJob, ProcessCancellation, ProcessDeliveryBatch,
      FinishDeliveryBatch, LaneAcquire, LanePrepare, LaneFails, LanePush,
      vars, batchVars, scanVars

(* The scan's snapshot and heads are only there while it runs.             *)
ScanIdle ==
  \A d \in Destinations :
    ~scanning => scan[d] = NoPointer /\ heads[d] = NoPointer

(* Every step leaves the results of the scan empty outside a scan.         *)
LEMMA ScanIdleStep ==
  ASSUME IInv, [Next]_vars
  PROVE  ScanIdle'
<1>0. TypeOK /\ ScanIdle
  BY DEF IInv, HeadsExact, ScanIdle
<1>1. CASE UNCHANGED scanVars
  BY <1>0, <1>1 DEF scanVars, ScanIdle
<1>2. CASE BeginRetryScan
  BY <1>2 DEF BeginRetryScan, ScanIdle
<1>3. CASE SpawnRetries
  BY <1>3 DEF SpawnRetries, ScanIdle
<1>4. ASSUME NEW d \in Destinations, NEW isDue \in BOOLEAN, ReadRetry(d, isDue)
      PROVE  ScanIdle'
  BY <1>0, <1>4 DEF ReadRetry, ScanIdle, TypeOK, ScanTypes
<1>5. CASE Restart
  BY <1>5 DEF Restart, ScanIdle
<1>6. ASSUME NEW b \in Batches, NEW d \in Destinations, LaneStep(b, d) PROVE ScanIdle'
  BY <1>1, <1>6
  DEF LaneStep, LaneAcquire, LanePrepare, LaneFails, LanePush, CommitLaneOutcome
<1>7. ASSUME NEW d \in Destinations, TaskStep(d) PROVE ScanIdle'
  BY <1>1, <1>7
  DEF TaskStep, LoadRetry, PrepareRetry, RetryFails, PushRetry, RescheduleRetry,
      CompleteRetry
<1> QED
  BY <1>1, <1>2, <1>3, <1>4, <1>5, <1>6, <1>7
  DEF Next, ScanStep, Crash, ReadRetryFails,
      Subscribe, Deactivate, ProcessMatchJob, ProcessCancellation, CommitMatchBatches,
      ProcessDeliveryBatch, FinishDeliveryBatch, vars

-----------------------------------------------------------------------------
(* The inductive invariant *)

(* Every step keeps the store exact.                                       *)
LEMMA StoreStep ==
  ASSUME IInv, TypeOK', [Next]_vars
  PROVE  StoreExact'
<1>0. StoreExact
  BY DEF IInv
<1>1. CASE UNCHANGED storeVars
  BY <1>0, <1>1, StoreUnchanged
<1>2. CASE CommitMatchBatches
  BY <1>2, StoreCommitMatch
<1>3. ASSUME NEW b \in Batches, NEW d \in Destinations, CommitLaneOutcome(b, d)
      PROVE  StoreExact'
  BY <1>3, StoreCommitLane
<1>4. ASSUME NEW d \in Destinations, CompleteRetry(d) PROVE StoreExact'
  BY <1>4, StoreCompleteRetry
<1> QED
  BY <1>1, <1>2, <1>3, <1>4
  DEF Next, LaneStep, TaskStep, ScanStep, Crash, ReadRetryFails, Restart,
      Subscribe, Deactivate, ProcessMatchJob, ProcessCancellation,
      ProcessDeliveryBatch, FinishDeliveryBatch, LaneAcquire, LanePrepare, LaneFails, LanePush,
      BeginRetryScan, ReadRetry, SpawnRetries,
      LoadRetry, PrepareRetry, RetryFails, PushRetry, RescheduleRetry,
      vars, batchVars, retryVars, observed, storeVars

(* The invariant is inductive.                                             *)
LEMMA InvariantStep == IInv /\ [Next]_vars => IInv'
<1> SUFFICES ASSUME IInv, [Next]_vars PROVE IInv'
  OBVIOUS
<1>1. TypeOK'
  BY TypeStep DEF IInv
<1>2. StoreExact'
  BY <1>1, StoreStep
<1>3. LockExact'
  BY <1>1, LockStep
<1>4. LaneExact'
  BY <1>1, LaneStepExact
<1>5. HeadsExact'
  BY <1>1, RetryStep, ScanIdleStep DEF HeadsExact, RetryAt, ScanIdle
<1>6. RetryTaskCurrent'
  BY <1>1, RetryStep DEF RetryTaskCurrent, RetryAt
<1> QED
  BY <1>1, <1>2, <1>3, <1>4, <1>5, <1>6 DEF IInv

(* The invariant holds of the empty store.                                 *)
LEMMA InvariantInit == Init => IInv
<1> SUFFICES ASSUME Init PROVE IInv
  OBVIOUS
<1>1. TypeOK
  BY TypeInit
<1>2. FreshIds /\ ProgressExact
  BY DEF Init, FreshIds, ProgressExact
<1>3. IndexExact
  BY DEF Init, IndexExact, Outstanding
<1>4. BatchRecordExact
  BY DEF Init, BatchRecordExact, HasRetries
<1>5. RowsAccountedFor
  BY DEF Init, RowsAccountedFor
<1>6. LockExact
  BY DEF Init, LockExact, HoldingPhases, Outcomes, Free, RetryHolder, Batches
<1>7. LaneExact /\ HeadsExact /\ RetryTaskCurrent
  BY DEF Init, LaneExact, HeadsExact, RetryTaskCurrent, HoldingPhases, Outcomes
<1> QED
  BY <1>1, <1>2, <1>3, <1>4, <1>5, <1>6, <1>7 DEF IInv, StoreExact

(* The conjunction of all the parts is an invariant.                       *)
THEOREM Invariant == Spec => []IInv
BY InvariantInit, InvariantStep, PTL DEF Spec

(* delivery_by_destination holds exactly the rows still owed, in every     *)
(* reachable state.                                                        *)
THEOREM IndexCorrect == Spec => []IndexExact
<1>1. IInv => IndexExact
  BY DEF IInv, StoreExact
<1> QED
  BY <1>1, Invariant, PTL

(* A batch record exists, under one key, as long as one of its rows is     *)
(* owed.                                                                   *)
THEOREM BatchRecordCorrect == Spec => []BatchRecordExact
<1>1. IInv => BatchRecordExact
  BY DEF IInv, StoreExact
<1> QED
  BY <1>1, Invariant, PTL

(* Every committed row is owed or retired, never both: none is lost.       *)
THEOREM RowsCorrect == Spec => []RowsAccountedFor
<1>1. IInv => RowsAccountedFor
  BY DEF IInv, StoreExact
<1> QED
  BY <1>1, Invariant, PTL

(* The delivery keyspaces agree in every reachable state.                  *)
THEOREM KeyspacesCorrect == Spec => []KeyspacesAgree
<1>1. IInv => KeyspacesAgree
  BY DEF IInv, StoreExact, KeyspacesAgree
<1> QED
  BY <1>1, Invariant, PTL

(* One worker at a time is past its head check for a destination.          *)
THEOREM SerialCorrect == Spec => []SerialPerDestination
<1>1. IInv => SerialPerDestination
  BY DEF IInv, LockExact, SerialPerDestination, RetryHolder, Batches
<1> QED
  BY <1>1, Invariant, PTL

(* A running retry task always works on the retry as it is stored, so that *)
(* the checks of its commit cannot fail.                                   *)
THEOREM RetryTaskCorrect == Spec => []RetryTaskCurrent
<1>1. IInv => RetryTaskCurrent
  BY DEF IInv
<1> QED
  BY <1>1, Invariant, PTL

-----------------------------------------------------------------------------
(* What reaches Bark: the order of the requests, their number and the rows  *)
(* that leave neither delivered nor dead.                                   *)
(* Order *)

(* The head of delivery_by_destination is the oldest row still owed.       *)
LEMMA HeadIsOldest ==
  ASSUME IInv, NEW b \in Batches, NEW d \in Destinations, IsDestinationHead(b, d),
         NEW c \in Batches, c < b, batchRow[c][d] # 0
  PROVE  result[c][d] # "none"
<1>1. <<c, d>> \in index <=> batchRow[c][d] # 0 /\ result[c][d] = "none"
  BY DEF IInv, StoreExact, RowsAccountedFor
<1>2. <<c, d>> \notin index
  BY DEF IsDestinationHead, Batches
<1> QED
  BY <1>1, <1>2

(* A request is made only by a worker that is past its head check, and so  *)
(* for the oldest row owed.                                                *)
LEMMA PushStepInOrder ==
  ASSUME IInv, [Next]_vars, NEW b \in Batches, NEW d \in Destinations,
         pushes'[b][d] # pushes[b][d]
  PROVE  IsDestinationHead(b, d)
<1>0. TypeOK
  BY DEF IInv
<1>1. ASSUME NEW c \in Batches, NEW e \in Destinations, LanePush(c, e)
      PROVE  IsDestinationHead(b, d)
  <2>1. c = b /\ e = d
    BY <1>0, <1>1 DEF LanePush, TypeOK, ObservedTypes
  <2> QED
    BY <1>1, <2>1 DEF LanePush, IInv, LaneExact, HoldingPhases
<1>2. ASSUME NEW e \in Destinations, PushRetry(e)
      PROVE  IsDestinationHead(b, d)
  <2>1. pointer[e].batch = b /\ e = d
    BY <1>0, <1>2 DEF PushRetry, TypeOK, ObservedTypes
  <2> QED
    BY <1>2, <2>1 DEF PushRetry, IInv, RetryTaskCurrent, IsRetryHead
<1>3. CASE UNCHANGED pushes
  BY <1>3
<1> QED
  BY <1>1, <1>2, <1>3
  DEF Next, LaneStep, TaskStep, ScanStep, Crash, ReadRetryFails, Restart,
      Subscribe, Deactivate, ProcessMatchJob, ProcessCancellation, CommitMatchBatches,
      ProcessDeliveryBatch, FinishDeliveryBatch, LaneAcquire, LanePrepare, LaneFails,
      CommitLaneOutcome,
      BeginRetryScan, ReadRetry, SpawnRetries,
      LoadRetry, PrepareRetry, RetryFails, RescheduleRetry, CompleteRetry, EndRetry, vars, observed

(* No alert overtakes an earlier one to the same destination, whichever    *)
(* engine sends it.                                                        *)
THEOREM PushOrderCorrect == Spec => PushesInOrder
<1> DEFINE InOrder ==
      \A b \in Batches, d \in Destinations :
        pushes'[b][d] # pushes[b][d] =>
          \A c \in Batches : c < b /\ batchRow[c][d] # 0 => result[c][d] # "none"
<1>1. IInv /\ [Next]_vars => [InOrder]_vars
  BY HeadIsOldest, PushStepInOrder
<1> QED
  BY <1>1, Invariant, PTL DEF Spec, PushesInOrder

-----------------------------------------------------------------------------
(* Number of requests *)

(* The row has a request whose outcome is not committed.                   *)
Uncommitted(b, d) == IF Interrupted(b, d) THEN 1 ELSE 0

(* The attempts field of a retry counts its committed requests, save those *)
(* a restart interrupted.                                                  *)
CountAt(b, d) ==
  /\ <<b, d>> \notin retries => attempts[b][d] = 0
  /\ result[b][d] = "none" =>
       pushes[b][d] <= aborts[b][d] + attempts[b][d] + Uncommitted(b, d)

PushCount == \A b \in Batches, d \in Destinations : CountAt(b, d)

(* The engines exclude each other on a destination.                        *)
LEMMA LockExclusive ==
  ASSUME LockExact, NEW b \in Batches, NEW d \in Destinations
  PROVE  ~(lane[b][d] \in HoldingPhases /\ task[d] \in HoldingPhases)
<1>1. lane[b][d] \in HoldingPhases => lock[d] = b
  BY DEF LockExact
<1>2. task[d] \in HoldingPhases => lock[d] = MaxBatches + 1
  BY DEF LockExact, RetryHolder
<1>3. b # MaxBatches + 1
  BY DEF Batches
<1> QED
  BY <1>1, <1>2, <1>3

(* The phases of a request are phases in which the lock is held.           *)
LEMMA PhasesHold ==
  /\ PushedPhases \subseteq HoldingPhases
  /\ "ready" \in HoldingPhases /\ "none" \notin HoldingPhases
BY DEF PushedPhases, HoldingPhases, Outcomes

(* A step that leaves a row, its workers and its counts alone keeps its    *)
(* count.                                                                  *)
LEMMA CountFrame ==
  ASSUME PushCount,
         NEW b \in Batches, NEW d \in Destinations,
         pushes'[b][d] = pushes[b][d], aborts'[b][d] = aborts[b][d],
         attempts'[b][d] = attempts[b][d], result'[b][d] = result[b][d],
         <<b, d>> \in retries' <=> <<b, d>> \in retries,
         Interrupted(b, d)' <=> Interrupted(b, d)
  PROVE  CountAt(b, d)'
BY DEF PushCount, CountAt, Uncommitted

(* Every step keeps the count of requests within what attempts,            *)
(* uncommitted outcomes and restarts explain.                              *)
LEMMA PushCountStep ==
  ASSUME IInv, PushCount, TypeOK', [Next]_vars
  PROVE  PushCount'
<1> SUFFICES \A b \in Batches, d \in Destinations : CountAt(b, d)'
  BY DEF PushCount
<1> DEFINE Counts == \A b \in Batches, d \in Destinations : CountAt(b, d)'
<1>0. TypeOK
  BY DEF IInv
<1>1. CASE UNCHANGED <<pushes, aborts, retryVars, result, lane, task, pointer>>
  BY <1>1, CountFrame DEF retryVars, Interrupted
<1>2. ASSUME NEW b \in Batches, ProcessDeliveryBatch(b) PROVE Counts
  <2>1. /\ UNCHANGED <<pushes, aborts, retries, attempts, result, task, pointer>>
        /\ \A c \in Batches, e \in Destinations :
             lane'[c][e] \in PushedPhases <=> lane[c][e] \in PushedPhases
    BY <1>0, <1>2 DEF ProcessDeliveryBatch, observed, retryVars, taskVars, TypeOK,
       DeliveryTypes, IInv, LaneExact, PushedPhases
  <2> QED
    BY <2>1, CountFrame DEF Interrupted
<1>3. ASSUME NEW b \in Batches, NEW d \in Destinations,
             LaneAcquire(b, d) \/ LanePrepare(b, d) \/ LaneFails(b, d)
      PROVE  Counts
  <2>1. /\ UNCHANGED <<pushes, aborts, retries, attempts, result, task, pointer>>
        /\ \A c \in Batches, e \in Destinations :
             lane'[c][e] \in PushedPhases <=> lane[c][e] \in PushedPhases
    BY <1>0, <1>3
    DEF LaneAcquire, LanePrepare, LaneFails, UnsentErrors, UnsentPhases, observed, retryVars, taskVars, TypeOK,
       DeliveryTypes, PushedPhases
  <2> QED
    BY <2>1, CountFrame DEF Interrupted
<1>4. ASSUME NEW b \in Batches, NEW d \in Destinations, LanePush(b, d) PROVE Counts
  <2>1. /\ UNCHANGED <<aborts, retries, attempts, result, task, pointer>>
        /\ lane[b][d] = "ready" /\ lane'[b][d] \in PushedPhases
        /\ pushes'[b][d] = pushes[b][d] + 1
        /\ \A c \in Batches, e \in Destinations : c # b \/ e # d =>
             lane'[c][e] = lane[c][e] /\ pushes'[c][e] = pushes[c][e]
    BY <1>0, <1>4 DEF LanePush, retryVars, taskVars, TypeOK, DeliveryTypes, ObservedTypes
  <2>2. task[d] \notin HoldingPhases /\ lane[b][d] \notin PushedPhases
    BY <2>1, LockExclusive, PhasesHold DEF IInv, PushedPhases
  <2>3. Uncommitted(b, d) = 0 /\ Uncommitted(b, d)' = 1
    BY <2>1, <2>2 DEF Uncommitted, Interrupted, HoldingPhases, Outcomes, PushedPhases
  <2>4. CountAt(b, d)'
    BY <1>0, <2>1, <2>3 DEF PushCount, CountAt, TypeOK, ObservedTypes, RetryTypes
  <2>5. \A c \in Batches, e \in Destinations : c # b \/ e # d => CountAt(c, e)'
    BY <2>1, CountFrame DEF Interrupted
  <2> QED
    BY <2>4, <2>5
<1>5. ASSUME NEW b \in Batches, NEW d \in Destinations, CommitLaneOutcome(b, d)
      PROVE  Counts
  <2>1. /\ UNCHANGED <<pushes, aborts, task, pointer>>
        /\ lane[b][d] \in HoldingPhases /\ lane'[b][d] = "none"
        /\ \A c \in Batches, e \in Destinations : c # b \/ e # d =>
             /\ lane'[c][e] = lane[c][e] /\ attempts'[c][e] = attempts[c][e]
             /\ result'[c][e] = result[c][e]
             /\ <<c, e>> \in retries' <=> <<c, e>> \in retries
    BY <1>0, <1>5
    DEF CommitLaneOutcome, ReleasedKeys, taskVars, TypeOK, DeliveryTypes, ObservedTypes,
       RetryTypes, HoldingPhases, Outcomes
  <2>2. /\ IsRetried(lane[b][d]) => result'[b][d] = result[b][d] /\ <<b, d>> \in retries'
        /\ IsTransient(lane[b][d]) => attempts'[b][d] = 1
        /\ ~IsTransient(lane[b][d]) => attempts'[b][d] = attempts[b][d]
        /\ ~IsRetried(lane[b][d]) => result'[b][d] # "none"
    BY <1>0, <1>5
    DEF CommitLaneOutcome, IsRetried, IsTransient, ReleasedKeys, ResultOf, TypeOK, ObservedTypes,
        RetryTypes
  <2>3. <<b, d>> \notin retries
    <3>1. b \in pending /\ d \notin progress[b]
      BY <2>1 DEF IInv, LaneExact, HoldingPhases, Outcomes, PendingRows
    <3> QED
      BY <3>1 DEF IInv, StoreExact, ProgressExact
  <2>4. task[d] \notin HoldingPhases
    BY <2>1, LockExclusive DEF IInv
  <2>5. Uncommitted(b, d)' = 0
    BY <2>1, <2>4 DEF Uncommitted, Interrupted, HoldingPhases, Outcomes, PushedPhases
  <2>6. lane[b][d] \in {"blocked"} => Uncommitted(b, d) = 0
    BY <2>4 DEF Uncommitted, Interrupted, HoldingPhases, Outcomes, PushedPhases
  <2>7. Uncommitted(b, d) \in {0, 1}
    BY DEF Uncommitted
  <2>8. CountAt(b, d)'
    BY <1>0, <2>1, <2>2, <2>3, <2>5, <2>6, <2>7
    DEF PushCount, CountAt, TypeOK, ObservedTypes, RetryTypes, IsRetried
  <2>9. \A c \in Batches, e \in Destinations : c # b \/ e # d => CountAt(c, e)'
    BY <2>1, CountFrame DEF Interrupted
  <2> QED
    BY <2>8, <2>9
<1>6. CASE BeginRetryScan \/ SpawnRetries
  <2>1. /\ UNCHANGED <<pushes, aborts, retries, attempts, result, lane>>
        /\ \A e \in Destinations :
             \/ task'[e] \notin PushedPhases /\ task[e] \notin PushedPhases
             \/ task'[e] = task[e] /\ pointer'[e] = pointer[e]
    BY <1>0, <1>6
    DEF BeginRetryScan, SpawnRetries, HasTask, ActiveTasks, observed, retryVars,
        deliveryVars, TypeOK,
       TaskTypes, PushedPhases
  <2> QED
    BY <2>1, CountFrame DEF Interrupted
<1>7. ASSUME NEW d \in Destinations, LoadRetry(d) \/ PrepareRetry(d) \/ RetryFails(d)
      PROVE  Counts
  <2>1. /\ UNCHANGED <<pushes, aborts, retries, attempts, result, lane, pointer>>
        /\ \A e \in Destinations :
             \/ task'[e] \notin PushedPhases /\ task[e] \notin PushedPhases
             \/ task'[e] = task[e]
    BY <1>0, <1>7
    DEF LoadRetry, PrepareRetry, RetryFails, UnsentErrors, UnsentPhases, observed,
        retryVars, deliveryVars, TypeOK, TaskTypes, PushedPhases
  <2> QED
    BY <2>1, CountFrame DEF Interrupted
<1>8. ASSUME NEW d \in Destinations, PushRetry(d) PROVE Counts
  <2>1. PICK b \in Batches : b = pointer[d].batch
    BY <1>8 DEF PushRetry, IInv, RetryTaskCurrent, IsRetryHead, IsCurrent
  <2>2. /\ UNCHANGED <<aborts, retries, attempts, result, lane, pointer>>
        /\ task[d] = "ready" /\ task'[d] \in PushedPhases
        /\ \A e \in Destinations : e # d => task'[e] = task[e]
        /\ pushes'[b][d] = pushes[b][d] + 1
        /\ \A c \in Batches, e \in Destinations : c # b \/ e # d => pushes'[c][e] = pushes[c][e]
    BY <1>0, <1>8, <2>1
    DEF PushRetry, retryVars, deliveryVars, TypeOK, TaskTypes, ObservedTypes
  <2>3. lane[b][d] \notin PushedPhases
    BY <2>2, LockExclusive, PhasesHold DEF IInv
  <2>4. Uncommitted(b, d) = 0 /\ Uncommitted(b, d)' = 1
    BY <2>1, <2>2, <2>3 DEF Uncommitted, Interrupted, PushedPhases
  <2>5. CountAt(b, d)'
    BY <1>0, <2>2, <2>4 DEF PushCount, CountAt, TypeOK, ObservedTypes, RetryTypes
  <2>6. \A c \in Batches, e \in Destinations : c # b \/ e # d => CountAt(c, e)'
    BY <2>1, <2>2, CountFrame DEF Interrupted, PushedPhases
  <2> QED
    BY <2>5, <2>6
<1>9. ASSUME NEW d \in Destinations, RescheduleRetry(d) \/ CompleteRetry(d) PROVE Counts
  <2>1. PICK b \in Batches : b = pointer[d].batch /\ attempts[b][d] = pointer[d].attempts /\ <<b, d>> \in retries
    BY <1>9
    DEF RescheduleRetry, IsTransient, CompleteRetry, Outcomes, IInv, RetryTaskCurrent, IsRetryHead,
        IsCurrent
  <2>2. /\ UNCHANGED <<pushes, aborts, lane>>
        /\ task'[d] = "done" /\ task[d] \in HoldingPhases
        /\ \A e \in Destinations : e # d => task'[e] = task[e] /\ pointer'[e] = pointer[e]
        /\ \A c \in Batches, e \in Destinations : c # b \/ e # d =>
             /\ attempts'[c][e] = attempts[c][e]
             /\ result'[c][e] = result[c][e]
             /\ <<c, e>> \in retries' <=> <<c, e>> \in retries
    BY <1>0, <1>9, <2>1
    DEF RescheduleRetry, IsTransient, CompleteRetry, EndRetry, deliveryVars, observed, TypeOK,
       TaskTypes, RetryTypes, ObservedTypes, HoldingPhases, Outcomes
  <2>3. lane[b][d] \notin PushedPhases
    BY <2>2, LockExclusive, PhasesHold DEF IInv
  <2>4. Uncommitted(b, d)' = 0 /\ Uncommitted(b, d) \in {0, 1}
    BY <2>2, <2>3 DEF Uncommitted, Interrupted, PushedPhases
  <2>5. \/ /\ <<b, d>> \in retries' /\ result'[b][d] = result[b][d]
           /\ attempts'[b][d] = attempts[b][d] + 1
        \/ attempts'[b][d] = 0 /\ result'[b][d] # "none"
    BY <1>0, <1>9, <2>1
    DEF RescheduleRetry, CompleteRetry, ResultOf, observed, TypeOK, RetryTypes,
        ObservedTypes
  <2>6. CountAt(b, d)'
    BY <1>0, <2>2, <2>4, <2>5 DEF PushCount, CountAt, TypeOK, ObservedTypes, RetryTypes
  <2>7. \A c \in Batches, e \in Destinations : c # b \/ e # d => CountAt(c, e)'
    <3> SUFFICES ASSUME NEW c \in Batches, NEW e \in Destinations, c # b \/ e # d
                 PROVE  Interrupted(c, e)' <=> Interrupted(c, e)
      BY <2>2, CountFrame
    <3> QED
      BY <2>1, <2>2 DEF Interrupted, PushedPhases
  <2> QED
    BY <2>6, <2>7
<1>10. CASE Restart
  <2>1. /\ UNCHANGED <<pushes, retries, attempts, result>>
        /\ \A c \in Batches, e \in Destinations :
             /\ aborts'[c][e] = aborts[c][e] + Uncommitted(c, e)
             /\ Uncommitted(c, e)' = 0
    BY <1>0, <1>10
    DEF Restart, retryVars, TypeOK, ObservedTypes, Uncommitted, Interrupted,
        PushedPhases
  <2>2. \A c \in Batches, e \in Destinations : Uncommitted(c, e) \in {0, 1}
    BY DEF Uncommitted
  <2> TAKE b \in Batches, d \in Destinations
  <2>3. pushes[b][d] \in Nat /\ aborts[b][d] \in Nat /\ attempts[b][d] \in Nat
    BY <1>0 DEF TypeOK, ObservedTypes, RetryTypes
  <2>4. CountAt(b, d)
    BY DEF PushCount
  <2> QED
    BY <2>1, <2>2, <2>3, <2>4 DEF CountAt
<1> QED
  BY <1>1, <1>2, <1>3, <1>4, <1>5, <1>6, <1>7, <1>8, <1>9, <1>10
  DEF Next, LaneStep, TaskStep, ScanStep, Crash, ReadRetryFails, ReadRetry,
      FinishDeliveryBatch,
      Subscribe, Deactivate, ProcessMatchJob, ProcessCancellation, CommitMatchBatches,
      vars, retryVars, deliveryVars, taskVars, observed

(* A request, its outcome and a restart, each from the row's point of view.*)
LEMMA RowStep ==
  ASSUME IInv, TypeOK', [Next]_vars, NEW b \in Batches, NEW d \in Destinations
  PROVE  /\ pushes'[b][d] # pushes[b][d] => result[b][d] = "none"
         /\ result'[b][d] # result[b][d] =>
              result[b][d] = "none" /\ pushes'[b][d] = pushes[b][d] /\ aborts'[b][d] = aborts[b][d]
         /\ aborts'[b][d] >= aborts[b][d]
<1>0. TypeOK /\ TypeOK'
  BY DEF IInv
<1>1. ASSUME pushes'[b][d] # pushes[b][d] PROVE result[b][d] = "none"
  <2>1. <<b, d>> \in index
    BY <1>1, PushStepInOrder DEF IsDestinationHead
  <2> QED
    BY <2>1 DEF IInv, StoreExact, RowsAccountedFor
<1>2. CASE UNCHANGED <<result, aborts>>
  BY <1>0, <1>1, <1>2 DEF TypeOK, ObservedTypes
<1>3. ASSUME Restart
      PROVE  UNCHANGED <<result, pushes>> /\ aborts'[b][d] >= aborts[b][d]
  <2>1. aborts'[b][d] \in {aborts[b][d], aborts[b][d] + 1}
    BY <1>3 DEF Restart
  <2> QED
    BY <1>0, <1>3, <2>1 DEF Restart, TypeOK, ObservedTypes
<1>4. ASSUME NEW c \in Batches, NEW e \in Destinations, CommitLaneOutcome(c, e),
             result'[b][d] # result[b][d]
      PROVE  result[b][d] = "none" /\ UNCHANGED <<pushes, aborts>>
  <2>1. c = b /\ e = d /\ lane[b][d] \in HoldingPhases
    BY <1>0, <1>4 DEF CommitLaneOutcome, ReleasedKeys, TypeOK, ObservedTypes, HoldingPhases
  <2>2. b \in pending /\ batchRow[b][d] # 0 /\ d \notin progress[b]
    BY <2>1, PhasesHold DEF IInv, LaneExact, PendingRows, RowsOf
  <2>3. <<b, d>> \in index
    BY <1>0, <2>2, IndexRows DEF IInv, StoreExact, IndexByRow
  <2> QED
    BY <1>4, <2>3 DEF CommitLaneOutcome, ReleasedKeys, IInv, StoreExact, RowsAccountedFor
<1>5. ASSUME NEW e \in Destinations, CompleteRetry(e), result'[b][d] # result[b][d]
      PROVE  result[b][d] = "none" /\ UNCHANGED <<pushes, aborts>>
  <2>1. e = d /\ pointer[d].batch = b
    BY <1>0, <1>5 DEF CompleteRetry, TypeOK, ObservedTypes
  <2>2. <<b, d>> \in index
    BY <1>5, <2>1
    DEF CompleteRetry, IInv, RetryTaskCurrent, IsRetryHead, IsDestinationHead, Outcomes
  <2> QED
    BY <1>5, <2>2 DEF CompleteRetry, IInv, StoreExact, RowsAccountedFor
<1>7. CASE \E c \in Batches, e \in Destinations : CommitLaneOutcome(c, e)
  <2>1. UNCHANGED <<pushes, aborts>>
    BY <1>7 DEF CommitLaneOutcome, ReleasedKeys
  <2> QED
    BY <1>0, <1>4, <1>7, <2>1 DEF TypeOK, ObservedTypes
<1>8. CASE \E e \in Destinations : CompleteRetry(e)
  <2>1. UNCHANGED <<pushes, aborts>>
    BY <1>8 DEF CompleteRetry
  <2> QED
    BY <1>0, <1>5, <1>8, <2>1 DEF TypeOK, ObservedTypes
<1>9. CASE Restart
  BY <1>3, <1>9
<1> QED
  BY <1>2, <1>7, <1>8, <1>9
  DEF Next, LaneStep, TaskStep, ScanStep, Crash, ReadRetryFails,
      Subscribe, Deactivate, ProcessMatchJob, ProcessCancellation, CommitMatchBatches,
      ProcessDeliveryBatch, FinishDeliveryBatch, LaneAcquire, LanePrepare, LaneFails, LanePush,
      BeginRetryScan, ReadRetry, SpawnRetries,
      LoadRetry, PrepareRetry, RetryFails, PushRetry, RescheduleRetry, vars, observed

(* A step that retires a row leaves its number of requests within the      *)
(* bound.                                                                  *)
LEMMA PushesBoundedStep ==
  ASSUME IInv, PushCount, PushesBounded, TypeOK', PushCount', [Next]_vars
  PROVE  PushesBounded'
<1> SUFFICES ASSUME NEW b \in Batches, NEW d \in Destinations
             PROVE  pushes'[b][d] <= MaxRetryAttempts + 1 + aborts'[b][d]
  BY DEF PushesBounded
<1>0. /\ pushes[b][d] \in Nat /\ pushes'[b][d] \in Nat
      /\ aborts[b][d] \in Nat /\ aborts'[b][d] \in Nat
      /\ attempts[b][d] \in 0 .. MaxRetryAttempts /\ attempts'[b][d] \in 0 .. MaxRetryAttempts
  BY DEF IInv, TypeOK, ObservedTypes, RetryTypes
<1>1. Uncommitted(b, d) \in {0, 1} /\ Uncommitted(b, d)' \in {0, 1}
  BY DEF Uncommitted
<1>2. CASE result'[b][d] = "none"
  <2>1. pushes'[b][d] <= aborts'[b][d] + attempts'[b][d] + Uncommitted(b, d)'
    BY <1>2 DEF PushCount, CountAt
  <2> QED
    BY <1>0, <1>1, <2>1
<1>3. CASE result'[b][d] # "none" /\ result[b][d] = "none"
  <2>1. pushes[b][d] <= aborts[b][d] + attempts[b][d] + Uncommitted(b, d)
    BY <1>3 DEF PushCount, CountAt
  <2>2. pushes'[b][d] = pushes[b][d] /\ aborts'[b][d] = aborts[b][d]
    BY <1>3, RowStep
  <2> QED
    BY <1>0, <1>1, <2>1, <2>2
<1>4. CASE result[b][d] # "none"
  <2>1. pushes'[b][d] = pushes[b][d] /\ aborts'[b][d] >= aborts[b][d]
    BY <1>4, RowStep
  <2> QED
    BY <1>0, <2>1 DEF PushesBounded
<1> QED
  BY <1>2, <1>3, <1>4

(* At most MaxRetryAttempts + 1 requests for a row, plus one for every     *)
(* restart that came between a request and the commit of its outcome.      *)
THEOREM PushBoundCorrect == Spec => []PushesBounded
<1> DEFINE PInv == IInv /\ PushCount /\ PushesBounded
<1>1. Init => PInv
  <2>1. Init => PushCount
    BY DEF Init, PushCount, CountAt, Uncommitted
  <2>2. Init => PushesBounded
    BY DEF Init, PushesBounded
  <2> QED
    BY <2>1, <2>2, InvariantInit
<1>2. PInv /\ [Next]_vars => PInv'
  <2> SUFFICES ASSUME IInv, PushCount, PushesBounded, [Next]_vars PROVE PInv'
    OBVIOUS
  <2>1. IInv'
    BY InvariantStep
  <2>2. TypeOK'
    BY <2>1 DEF IInv
  <2>3. PushCount'
    BY <2>2, PushCountStep
  <2> QED
    BY <2>1, <2>2, <2>3, PushesBoundedStep
<1> QED
  BY <1>1, <1>2, PTL DEF Spec

-----------------------------------------------------------------------------
(* Rows skipped *)

(* A row carries a generation its subscription had while it was active.    *)
Known(g, d) == g = 0 \/ g < generation[d] \/ (g = generation[d] /\ active[d])

GenerationKnown ==
  \A d \in Destinations :
    /\ Known(matched[d], d)
    /\ \A b \in Batches : Known(batchRow[b][d], d)

LedgerDelivered ==
  \A d \in Destinations : ledger[d] # 0 => result[ledger[d]][d] = "delivered"

(* The subscription has changed since the row was matched.                 *)
Changed(b, d) == batchRow[b][d] < generation[d]

(* Whoever skips, or has skipped, a row did so because its subscription    *)
(* has changed.                                                            *)
SkipJustified ==
  \A b \in Batches, d \in Destinations :
    /\ lane[b][d] = "skip" => Changed(b, d)
    /\ task[d] = "skip" /\ pointer[d].batch = b => Changed(b, d)
    /\ result[b][d] = "skipped" => Changed(b, d)

SInv == IInv /\ GenerationKnown /\ LedgerDelivered /\ SkipJustified

(* Generations only grow, and no row or matched row is ahead of them.      *)
LEMMA GenerationStep ==
  ASSUME TypeOK, TypeOK', GenerationKnown, [Next]_vars
  PROVE  /\ GenerationKnown'
         /\ \A d \in Destinations : generation'[d] >= generation[d]
<1> DEFINE Goal ==
      /\ GenerationKnown'
      /\ \A d \in Destinations : generation'[d] >= generation[d]
<1>1. ASSUME UNCHANGED <<subscriptionVars, matched, batchRow>> PROVE Goal
  BY <1>1
  DEF subscriptionVars, GenerationKnown, Known, TypeOK, SubscriptionTypes, Generations
<1>2. ASSUME NEW e \in Destinations, Subscribe(e) \/ Deactivate(e)
      PROVE  Goal
  <2>1. /\ UNCHANGED <<matched, batchRow>>
        /\ generation'[e] = generation[e] + 1
        /\ \A d \in Destinations : d # e => generation'[d] = generation[d] /\ active'[d] = active[d]
    BY <1>2 DEF Subscribe, Deactivate, batchVars, TypeOK, SubscriptionTypes
  <2>2. \A d \in Destinations :
          /\ generation[d] \in Nat /\ matched[d] \in Nat
          /\ \A b \in Batches : batchRow[b][d] \in Nat
    BY DEF TypeOK, SubscriptionTypes, BatchTypes, Generations
  <2> QED
    BY <2>1, <2>2 DEF GenerationKnown, Known
<1>3. ASSUME ProcessMatchJob \/ ProcessCancellation PROVE Goal
  <2>1. /\ UNCHANGED <<active, generation, batchRow>>
        /\ \A d \in Destinations :
             \/ matched'[d] = 0
             \/ active[d] /\ matched'[d] = generation[d]
             \/ \E b \in Batches : matched'[d] = batchRow[b][d]
    <3>1. \A d \in Destinations : ledger[d] # 0 => ledger[d] \in Batches
      BY DEF TypeOK, Batches
    <3> QED
      BY <1>3, <3>1 DEF ProcessMatchJob, ProcessCancellation, subscriptionVars, batchVars
  <2>2. \A d \in Destinations : generation[d] \in Nat
    BY DEF TypeOK, SubscriptionTypes, Generations
  <2> QED
    BY <2>1, <2>2 DEF GenerationKnown, Known
<1>4. ASSUME CommitMatchBatches PROVE Goal
  <2>1. PICK n \in Batches : n = lastBatch + 1
    BY <1>4 DEF CommitMatchBatches
  <2>2. /\ UNCHANGED <<active, generation>>
        /\ batchRow'[n] = matched
        /\ \A c \in Batches : c # n => batchRow'[c] = batchRow[c]
        /\ \A d \in Destinations : matched'[d] = 0
    BY <1>4, <2>1 DEF CommitMatchBatches, subscriptionVars, TypeOK, BatchTypes
  <2>3. \A d \in Destinations : generation[d] \in Nat
    BY DEF TypeOK, SubscriptionTypes, Generations
  <2> QED
    BY <2>2, <2>3 DEF GenerationKnown, Known
<1>5. ASSUME Restart PROVE Goal
  <2>1. UNCHANGED <<active, generation, batchRow>> /\ \A d \in Destinations : matched'[d] = 0
    BY <1>5 DEF Restart, subscriptionVars, batchVars
  <2>2. \A d \in Destinations : generation[d] \in Nat
    BY DEF TypeOK, SubscriptionTypes, Generations
  <2> QED
    BY <2>1, <2>2 DEF GenerationKnown, Known
<1>6. ASSUME NEW b \in Batches, NEW d \in Destinations, LaneStep(b, d) PROVE Goal
  BY <1>1, <1>6
  DEF LaneStep, LaneAcquire, LanePrepare, LaneFails, LanePush, CommitLaneOutcome, batchVars
<1>7. ASSUME NEW d \in Destinations, TaskStep(d) PROVE Goal
  BY <1>1, <1>7
  DEF TaskStep, LoadRetry, PrepareRetry, RetryFails, PushRetry, RescheduleRetry,
      CompleteRetry, batchVars
<1>8. ASSUME NEW d \in Destinations, ScanStep(d) PROVE Goal
  BY <1>1, <1>5, <1>8 DEF ScanStep, ReadRetry, ReadRetryFails, batchVars
<1>9. ASSUME BeginRetryScan \/ SpawnRetries PROVE Goal
  BY <1>1, <1>9 DEF BeginRetryScan, SpawnRetries, batchVars
<1>10. ASSUME NEW b \in Batches, ProcessDeliveryBatch(b) \/ FinishDeliveryBatch(b)
       PROVE  Goal
  BY <1>1, <1>10 DEF ProcessDeliveryBatch, FinishDeliveryBatch, batchVars
<1>11. ASSUME UNCHANGED vars PROVE Goal
  BY <1>1, <1>11 DEF vars, batchVars
<1> HIDE DEF Goal
<1>12. Goal
  BY <1>2, <1>3, <1>4, <1>5, <1>6, <1>7, <1>8, <1>9, <1>10, <1>11 DEF Next, Crash
<1> QED
  BY <1>12 DEF Goal

(* When a worker decides to skip, the subscription has changed.            *)
LEMMA SkippedChanged ==
  ASSUME SInv, NEW b \in Batches, NEW d \in Destinations, <<b, d>> \in index, IsSkipped(b, d)
  PROVE  Changed(b, d)
<1>1. batchRow[b][d] # 0 /\ result[b][d] = "none"
  BY DEF SInv, IInv, StoreExact, RowsAccountedFor
<1>2. ledger[d] # b
  BY <1>1 DEF SInv, LedgerDelivered, Batches
<1>3. ~active[d] \/ generation[d] # batchRow[b][d]
  BY <1>2 DEF IsSkipped
<1> QED
  BY <1>1, <1>3 DEF SInv, GenerationKnown, Known, Changed

(* A subscription that has changed since the match stays changed.          *)
LEMMA ChangedKept ==
  ASSUME SInv, TypeOK', [Next]_vars, NEW b \in Batches, NEW d \in Destinations, Changed(b, d),
         batchRow[b][d] # 0 \/ result[b][d] # "none"
  PROVE  Changed(b, d)'
<1>1. batchRow'[b][d] = batchRow[b][d]
  <2>1. CASE UNCHANGED batchRow
    BY <2>1
  <2>2. CASE CommitMatchBatches
    <3>1. PICK n \in Batches : n = lastBatch + 1
      BY <2>2 DEF CommitMatchBatches
    <3>2. ~(b > lastBatch)
      BY DEF SInv, IInv, StoreExact, FreshIds
    <3>3. n # b
      BY <3>1, <3>2 DEF SInv, IInv, TypeOK, BatchTypes
    <3> QED
      BY <2>2, <3>1, <3>3 DEF CommitMatchBatches, SInv, IInv, TypeOK, BatchTypes
  <2>3. ASSUME NEW c \in Batches, NEW e \in Destinations, LaneStep(c, e)
        PROVE  UNCHANGED batchRow
    BY <2>3 DEF LaneStep, LaneAcquire, LanePrepare, LaneFails, LanePush, CommitLaneOutcome, batchVars
  <2>4. ASSUME NEW e \in Destinations, TaskStep(e) \/ ScanStep(e)
        PROVE  UNCHANGED batchRow
    BY <2>4
    DEF TaskStep, LoadRetry, PrepareRetry, RetryFails, PushRetry, RescheduleRetry, CompleteRetry,
        ScanStep, ReadRetry, ReadRetryFails, Restart, batchVars
  <2>5. ASSUME NEW c \in Batches, ProcessDeliveryBatch(c) \/ FinishDeliveryBatch(c)
        PROVE  UNCHANGED batchRow
    BY <2>5 DEF ProcessDeliveryBatch, FinishDeliveryBatch, batchVars
  <2>6. ASSUME NEW e \in Destinations, Subscribe(e) \/ Deactivate(e)
        PROVE  UNCHANGED batchRow
    BY <2>6 DEF Subscribe, Deactivate, batchVars
  <2>7. ASSUME \/ ProcessMatchJob \/ ProcessCancellation \/ BeginRetryScan \/ SpawnRetries
               \/ Crash \/ UNCHANGED vars
        PROVE  UNCHANGED batchRow
    BY <2>7
    DEF ProcessMatchJob, ProcessCancellation, BeginRetryScan, SpawnRetries, Crash,
        Restart,
        vars, batchVars
  <2> QED
    BY <2>1, <2>2, <2>3, <2>4, <2>5, <2>6, <2>7 DEF Next
<1>2. generation'[d] >= generation[d]
  BY GenerationStep DEF SInv, IInv
<1>3. batchRow[b][d] \in Nat /\ generation[d] \in Nat /\ generation'[d] \in Nat
  BY DEF SInv, IInv, TypeOK, BatchTypes, SubscriptionTypes, Generations
<1> QED
  BY <1>1, <1>2, <1>3 DEF Changed

(* The ledger names only delivered rows.                                   *)
LEMMA LedgerStep ==
  ASSUME SInv, TypeOK', [Next]_vars
  PROVE  LedgerDelivered'
<1>0. TypeOK /\ LedgerDelivered
  BY DEF SInv, IInv
<1> SUFFICES ASSUME NEW d \in Destinations, ledger'[d] # 0
             PROVE  result'[ledger'[d]][d] = "delivered"
  BY DEF LedgerDelivered
<1>1. PICK b \in Batches : b = ledger'[d]
  BY DEF TypeOK, Batches
<1>2. CASE ledger'[d] = ledger[d]
  <2>1. result[b][d] = "delivered"
    BY <1>0, <1>1, <1>2 DEF LedgerDelivered
  <2> QED
    BY <1>1, <2>1, RowStep DEF SInv
<1>3. ASSUME NEW c \in Batches, NEW e \in Destinations, CommitLaneOutcome(c, e), ledger'[d] # ledger[d]
      PROVE  result'[b][d] = "delivered"
  BY <1>0, <1>1, <1>3
  DEF CommitLaneOutcome, IsRetried, IsTransient, ReleasedKeys, ResultOf, TypeOK, ObservedTypes
<1>4. ASSUME NEW e \in Destinations, CompleteRetry(e), ledger'[d] # ledger[d]
      PROVE  result'[b][d] = "delivered"
  BY <1>0, <1>1, <1>4 DEF CompleteRetry, ResultOf, TypeOK, ObservedTypes
<1>5. \/ UNCHANGED ledger
      \/ \E c \in Batches, e \in Destinations : CommitLaneOutcome(c, e)
      \/ \E e \in Destinations : CompleteRetry(e)
  BY DEF Next, LaneStep, TaskStep, ScanStep, Crash, ReadRetryFails, Restart,
      Subscribe, Deactivate, ProcessMatchJob, ProcessCancellation, CommitMatchBatches,
      ProcessDeliveryBatch, FinishDeliveryBatch, LaneAcquire, LanePrepare, LaneFails, LanePush,
      BeginRetryScan, ReadRetry, SpawnRetries,
      LoadRetry, PrepareRetry, RetryFails, PushRetry, RescheduleRetry, vars
<1> QED
  BY <1>1, <1>2, <1>3, <1>4, <1>5

(* A worker decides to skip, or commits a skip: nothing else makes one.    *)
LEMMA SkipOrigin ==
  ASSUME IInv, TypeOK', [Next]_vars, NEW b \in Batches, NEW d \in Destinations
  PROVE  /\ lane'[b][d] = "skip" => \/ lane[b][d] = "skip"
                                    \/ <<b, d>> \in index /\ IsSkipped(b, d)
         /\ task'[d] = "skip" /\ pointer'[d].batch = b =>
              \/ task[d] = "skip" /\ pointer[d].batch = b
              \/ <<b, d>> \in index /\ IsSkipped(b, d)
         /\ result'[b][d] = "skipped" => \/ result[b][d] = "skipped"
                                         \/ lane[b][d] = "skip"
                                         \/ task[d] = "skip" /\ pointer[d].batch = b
<1> DEFINE Goal ==
         /\ lane'[b][d] = "skip" => \/ lane[b][d] = "skip"
                                    \/ <<b, d>> \in index /\ IsSkipped(b, d)
         /\ task'[d] = "skip" /\ pointer'[d].batch = b =>
              \/ task[d] = "skip" /\ pointer[d].batch = b
              \/ <<b, d>> \in index /\ IsSkipped(b, d)
         /\ result'[b][d] = "skipped" => \/ result[b][d] = "skipped"
                                         \/ lane[b][d] = "skip"
                                         \/ task[d] = "skip" /\ pointer[d].batch = b
<1>0. TypeOK
  BY DEF IInv
<1>1. ASSUME UNCHANGED <<lane, taskVars, result>> PROVE Goal
  BY <1>1 DEF taskVars
<1>2. ASSUME NEW c \in Batches, ProcessDeliveryBatch(c) PROVE Goal
  BY <1>0, <1>2 DEF ProcessDeliveryBatch, taskVars, observed, TypeOK, DeliveryTypes
<1>3. ASSUME NEW c \in Batches, NEW e \in Destinations, 
             LaneAcquire(c, e) \/ LaneFails(c, e) \/ LanePush(c, e)
      PROVE  Goal
  BY <1>0, <1>3
  DEF LaneAcquire, LaneFails, UnsentErrors, UnsentPhases, LanePush, taskVars, observed, TypeOK, DeliveryTypes, PushedPhases
<1>4. ASSUME NEW c \in Batches, NEW e \in Destinations, LanePrepare(c, e) PROVE Goal
  <2>1. IsDestinationHead(c, e)
    BY <1>4 DEF LanePrepare, IInv, LaneExact, HoldingPhases
  <2> QED
    BY <1>0, <1>4, <2>1
    DEF LanePrepare, taskVars, observed, TypeOK, DeliveryTypes, IsDestinationHead
<1>5. ASSUME NEW c \in Batches, NEW e \in Destinations, CommitLaneOutcome(c, e)
      PROVE  Goal
  BY <1>0, <1>5
  DEF CommitLaneOutcome, IsRetried, IsTransient, ReleasedKeys, ResultOf, taskVars, TypeOK,
      DeliveryTypes, ObservedTypes, Outcomes
<1>6. ASSUME BeginRetryScan \/ SpawnRetries PROVE Goal
  BY <1>0, <1>6 DEF BeginRetryScan, SpawnRetries, deliveryVars, observed, TypeOK, TaskTypes
<1>7. ASSUME NEW e \in Destinations, LoadRetry(e) PROVE Goal
  <2>1. IsRetryHead(pointer[e], e)
    BY <1>7 DEF LoadRetry, IInv, RetryTaskCurrent
  <2>2. pointer[e].batch \in pending \cup retained
    <3>1. PICK c \in Batches : c = pointer[e].batch /\ HasRetries(c, retries)
      BY <2>1 DEF IsRetryHead, IsCurrent, HasRetries
    <3> QED
      BY <3>1 DEF IInv, StoreExact, BatchRecordExact, HasRetries
  <2> QED
    BY <1>0, <1>7, <2>1, <2>2 DEF LoadRetry, deliveryVars, observed, TypeOK, TaskTypes
<1>8. ASSUME NEW e \in Destinations, PrepareRetry(e) PROVE Goal
  <2>1. IsRetryHead(pointer[e], e)
    BY <1>8 DEF PrepareRetry, IInv, RetryTaskCurrent
  <2> QED
    BY <1>0, <1>8, <2>1
    DEF PrepareRetry, deliveryVars, observed, TypeOK, TaskTypes, IsRetryHead,
        IsDestinationHead
<1>9. ASSUME NEW e \in Destinations, RetryFails(e) \/ PushRetry(e) PROVE Goal
  BY <1>0, <1>9
  DEF RetryFails, UnsentErrors, UnsentPhases, PushRetry, deliveryVars, observed, TypeOK, TaskTypes, PushedPhases
<1>10. ASSUME NEW e \in Destinations, RescheduleRetry(e) PROVE Goal
  BY <1>0, <1>10 DEF RescheduleRetry, EndRetry, deliveryVars, observed, TypeOK, TaskTypes
<1>11. ASSUME NEW e \in Destinations, CompleteRetry(e) PROVE Goal
  BY <1>0, <1>11
  DEF CompleteRetry, EndRetry, ResultOf, deliveryVars, TypeOK, TaskTypes, ObservedTypes,
      Outcomes
<1>12. ASSUME Restart PROVE Goal
  BY <1>12 DEF Restart
<1> HIDE DEF Goal
<1>13. Goal
  BY <1>1, <1>2, <1>3, <1>4, <1>5, <1>6, <1>7, <1>8, <1>9, <1>10, <1>11, <1>12
  DEF Next, LaneStep, TaskStep, ScanStep, Crash, ReadRetryFails, ReadRetry,
      FinishDeliveryBatch,
      Subscribe, Deactivate, ProcessMatchJob, ProcessCancellation, CommitMatchBatches,
      vars, deliveryVars, observed
<1> QED
  BY <1>13 DEF Goal

(* Every skip that is decided or committed is justified by a change.       *)
LEMMA SkipStep ==
  ASSUME SInv, TypeOK', [Next]_vars
  PROVE  SkipJustified'
<1> SUFFICES ASSUME NEW b \in Batches, NEW d \in Destinations,
                    \/ lane'[b][d] = "skip"
                    \/ task'[d] = "skip" /\ pointer'[d].batch = b
                    \/ result'[b][d] = "skipped"
             PROVE  Changed(b, d)'
  BY DEF SkipJustified
<1>1. \/ lane[b][d] = "skip"
      \/ task[d] = "skip" /\ pointer[d].batch = b
      \/ <<b, d>> \in index /\ IsSkipped(b, d)
      \/ result[b][d] = "skipped"
  BY SkipOrigin DEF SInv
<1>2. Changed(b, d)
  BY <1>1, SkippedChanged DEF SInv, SkipJustified
<1>3. batchRow[b][d] # 0 \/ result[b][d] # "none"
  <2>1. CASE lane[b][d] = "skip"
    BY <2>1 DEF SInv, IInv, LaneExact, PendingRows, RowsOf
  <2>2. CASE task[d] = "skip" /\ pointer[d].batch = b
    BY <2>2
    DEF SInv, IInv, RetryTaskCurrent, IsRetryHead, IsDestinationHead, StoreExact,
        RowsAccountedFor
  <2>3. CASE <<b, d>> \in index
    BY <2>3 DEF SInv, IInv, StoreExact, RowsAccountedFor
  <2>4. CASE result[b][d] = "skipped"
    BY <2>4
  <2> QED
    BY <1>1, <2>1, <2>2, <2>3, <2>4
<1> QED
  BY <1>2, <1>3, ChangedKept

(* A row retired without a delivery and without a dead letter had its      *)
(* subscription changed after the match.                                   *)
THEOREM SkipCorrect == Spec => []SkippedOnlyWhenChanged
<1>1. Init => SInv
  <2> SUFFICES ASSUME Init PROVE SInv
    OBVIOUS
  <2> QED
    BY InvariantInit DEF Init, SInv, GenerationKnown, Known, LedgerDelivered,
    SkipJustified
<1>2. SInv /\ [Next]_vars => SInv'
  <2> SUFFICES ASSUME SInv, [Next]_vars PROVE SInv'
    OBVIOUS
  <2>1. IInv' /\ TypeOK'
    BY InvariantStep DEF SInv, IInv
  <2>2. GenerationKnown'
    BY <2>1, GenerationStep DEF SInv, IInv
  <2> QED
    BY <2>1, <2>2, LedgerStep, SkipStep DEF SInv
<1>3. SInv => SkippedOnlyWhenChanged
  BY DEF SInv, IInv, TypeOK, SubscriptionTypes, BatchTypes, Generations, SkipJustified,
         Changed,
     SkippedOnlyWhenChanged
<1> QED
  BY <1>1, <1>2, <1>3, PTL DEF Spec

-----------------------------------------------------------------------------
(* Delivery implements DeliveryOutbox: the two engines, their locks, the    *)
(* progress of batches, the retries and the restarts are, for each          *)
(* destination, one ordered outbox.                                         *)

(* The refinement mapping for queue.                                       *)
Queue == [d \in Destinations |-> {b \in Batches : <<b, d>> \in index}]

(* A row with an outcome of Bark has had a request; a row with an error    *)
(* before the request need not.                                            *)
OutcomePushed ==
  \A b \in Batches, d \in Destinations : Interrupted(b, d) => pushes[b][d] > 0

(* An outcome of a request exists only after the request.                  *)
LEMMA OutcomePushedStep ==
  ASSUME IInv, OutcomePushed, TypeOK', [Next]_vars
  PROVE  OutcomePushed'
<1>0. TypeOK
  BY DEF IInv
<1> SUFFICES ASSUME NEW b \in Batches, NEW d \in Destinations, Interrupted(b, d)'
             PROVE  pushes'[b][d] > 0
  BY DEF OutcomePushed
<1>1. pushes[b][d] \in Nat /\ pushes'[b][d] \in Nat
  BY <1>0 DEF TypeOK, ObservedTypes
<1>2. pushes'[b][d] >= pushes[b][d]
  <2>1. CASE UNCHANGED pushes
    BY <1>1, <2>1
  <2>2. ASSUME NEW c \in Batches, NEW e \in Destinations, LanePush(c, e)
        PROVE  pushes'[b][d] >= pushes[b][d]
    BY <1>0, <1>1, <2>2 DEF LanePush, TypeOK, ObservedTypes
  <2>3. ASSUME NEW e \in Destinations, PushRetry(e)
        PROVE  pushes'[b][d] >= pushes[b][d]
    BY <1>0, <1>1, <2>3 DEF PushRetry, TypeOK, ObservedTypes
  <2>4. CASE Restart
    BY <1>1, <2>4 DEF Restart
  <2> QED
    BY <2>1, <2>2, <2>3, <2>4
    DEF Next, LaneStep, TaskStep, ScanStep, Crash, ReadRetryFails,
        Subscribe, Deactivate, ProcessMatchJob, ProcessCancellation, CommitMatchBatches,
        ProcessDeliveryBatch, FinishDeliveryBatch, LaneAcquire, LanePrepare, LaneFails,
        CommitLaneOutcome,
        BeginRetryScan, ReadRetry, SpawnRetries,
        LoadRetry, PrepareRetry, RetryFails, RescheduleRetry, CompleteRetry, EndRetry, vars,
        observed
<1>3. CASE Interrupted(b, d)
  BY <1>1, <1>2, <1>3 DEF OutcomePushed
<1>4. CASE ~Interrupted(b, d)
  <2> USE DEF Interrupted
  <2>1. ASSUME NEW c \in Batches, NEW e \in Destinations, LanePush(c, e)
        PROVE  pushes'[b][d] > 0
    <3>1. c = b /\ e = d
      BY <1>0, <1>4, <2>1 DEF LanePush, taskVars, TypeOK, DeliveryTypes
    <3> QED
      BY <1>0, <1>1, <2>1, <3>1 DEF LanePush, TypeOK, ObservedTypes
  <2>2. ASSUME NEW e \in Destinations, PushRetry(e)
        PROVE  pushes'[b][d] > 0
    <3>1. pointer[e].batch = b /\ e = d
      BY <1>0, <1>4, <2>2 DEF PushRetry, deliveryVars, TypeOK, TaskTypes
    <3> QED
      BY <1>0, <1>1, <2>2, <3>1 DEF PushRetry, TypeOK, ObservedTypes
  <2>3. CASE UNCHANGED <<lane, taskVars>>
    BY <1>4, <2>3 DEF taskVars
  <2>4. ASSUME NEW c \in Batches, ProcessDeliveryBatch(c) PROVE FALSE
    BY <1>0, <1>4, <2>4
    DEF ProcessDeliveryBatch, taskVars, TypeOK, DeliveryTypes, PushedPhases
  <2>5. ASSUME NEW c \in Batches, NEW e \in Destinations,
               \/ LaneAcquire(c, e) \/ LanePrepare(c, e) \/ LaneFails(c, e)
               \/ CommitLaneOutcome(c, e)
        PROVE  FALSE
    BY <1>0, <1>4, <2>5
    DEF LaneAcquire, LanePrepare, LaneFails, UnsentErrors, UnsentPhases,
        CommitLaneOutcome, taskVars, TypeOK, DeliveryTypes, PushedPhases
  <2>6. ASSUME BeginRetryScan \/ SpawnRetries PROVE FALSE
    BY <1>0, <1>4, <2>6
    DEF BeginRetryScan, SpawnRetries, deliveryVars, TypeOK, TaskTypes, PushedPhases
  <2>7. ASSUME NEW e \in Destinations,
               \/ LoadRetry(e) \/ PrepareRetry(e) \/ RetryFails(e)
               \/ RescheduleRetry(e) \/ CompleteRetry(e)
        PROVE  FALSE
    BY <1>0, <1>4, <2>7
    DEF LoadRetry, PrepareRetry, RetryFails, UnsentErrors, UnsentPhases,
        RescheduleRetry, CompleteRetry, EndRetry, deliveryVars, TypeOK, TaskTypes, PushedPhases
  <2>8. ASSUME Restart PROVE FALSE
    BY <2>8 DEF Restart, PushedPhases
  <2> QED
    BY <2>1, <2>2, <2>3, <2>4, <2>5, <2>6, <2>7, <2>8
    DEF Next, LaneStep, TaskStep, ScanStep, Crash, ReadRetryFails, ReadRetry,
        FinishDeliveryBatch,
        Subscribe, Deactivate, ProcessMatchJob, ProcessCancellation, CommitMatchBatches,
        vars, deliveryVars
<1> QED
  BY <1>3, <1>4

-----------------------------------------------------------------------------
(* The step simulation *)

(* The head check of the engines is the outbox's choice of the oldest      *)
(* entry.                                                                  *)
LEMMA QueueHead ==
  ASSUME NEW b \in Batches, NEW d \in Destinations
  PROVE  IsDestinationHead(b, d) <=> Outbox!IsOldest(b, d)
BY DEF IsDestinationHead, Outbox!IsOldest

(* The empty store is the empty outbox.                                    *)
LEMMA OutboxInit == Init => Outbox!Init
<1> SUFFICES ASSUME Init PROVE Outbox!Init
  OBVIOUS
<1>1. Queue = [d \in Destinations |-> {}]
  BY DEF Init, Queue
<1> QED
  BY <1>1 DEF Init, Outbox!Init, Outbox!Ids, Batches, Queue

(* A committed match job is an entry in the outbox of each of its rows.    *)
LEMMA EnqueueStep ==
  ASSUME IInv, CommitMatchBatches
  PROVE  Outbox!Enqueue
<1>0. TypeOK
  BY DEF IInv
<1>1. PICK n \in Batches : n = lastBatch + 1
  BY DEF CommitMatchBatches
<1> DEFINE S == {d \in Destinations : matched[d] # 0}
<1>2. S \in (SUBSET Destinations) \ {{}}
  <2>1. \E d \in Destinations : matched[d] # 0
    BY DEF CommitMatchBatches, NothingMatched
  <2>2. S \subseteq Destinations
    OBVIOUS
  <2>3. S # {}
    BY <2>1
  <2> HIDE DEF S
  <2> QED
    BY <2>2, <2>3
<1>3. Queue' = [d \in Destinations |-> IF d \in S THEN Queue[d] \cup {lastBatch + 1} ELSE Queue[d]]
  <2>1. \A c \in Batches, e \in Destinations :
          <<c, e>> \in index' <=> <<c, e>> \in index \/ (c = n /\ matched[e] # 0)
    BY <1>1 DEF CommitMatchBatches
  <2>2. \A d \in Destinations :
          {b \in Batches : <<b, d>> \in index'} =
            IF d \in S THEN {b \in Batches : <<b, d>> \in index} \cup {n}
                       ELSE {b \in Batches : <<b, d>> \in index}
    BY <2>1
  <2> QED
    BY <1>1, <2>2 DEF Queue
<1>4. lastBatch < MaxBatches /\ lastBatch' = lastBatch + 1 /\ UNCHANGED <<result, pushes>>
  BY <1>0, <1>1 DEF CommitMatchBatches, observed, TypeOK, BatchTypes, Batches
<1> QED
  BY <1>2, <1>3, <1>4 DEF Outbox!Enqueue, Queue

(* A request by either engine is a push from the outbox.                   *)
LEMMA PushStep ==
  ASSUME IInv, NEW b \in Batches, NEW d \in Destinations, IsDestinationHead(b, d),
         pushes' = [pushes EXCEPT ![b][d] = @ + 1],
         UNCHANGED <<lastBatch, index, result>>
  PROVE  Outbox!Push(b, d)
BY QueueHead DEF Outbox!Push, Queue

(* A commit that retires a row removes it from the outbox with its result. *)
LEMMA ResolveStep ==
  ASSUME IInv, NEW b \in Batches, NEW d \in Destinations, IsDestinationHead(b, d),
         NEW how \in {"delivered", "skipped", "dead"}, how = "delivered" => pushes[b][d] > 0,
         index' = index \ {<<b, d>>},
         result' = [result EXCEPT ![b][d] = how],
         UNCHANGED <<lastBatch, pushes>>
  PROVE  Outbox!Resolve(b, d, how)
<1>1. Queue' = [Queue EXCEPT ![d] = @ \ {b}]
  <2>1. \A e \in Destinations :
          {c \in Batches : <<c, e>> \in index'} =
            IF e = d THEN {c \in Batches : <<c, e>> \in index} \ {b}
                     ELSE {c \in Batches : <<c, e>> \in index}
    OBVIOUS
  <2> QED
    BY <2>1 DEF Queue
<1>2. result[b][d] = "none"
  BY DEF IInv, StoreExact, RowsAccountedFor, IsDestinationHead
<1> QED
  BY <1>1, <1>2, QueueHead DEF Outbox!Resolve, Queue

(* Every step of the engines is a step of the outbox or leaves it alone.   *)
LEMMA OutboxStep ==
  ASSUME IInv, OutcomePushed, [Next]_vars
  PROVE  [Outbox!Next]_<<lastBatch, Queue, result, pushes>>
<1> DEFINE Goal == [Outbox!Next]_<<lastBatch, Queue, result, pushes>>
<1>0. TypeOK
  BY DEF IInv
<1>1. ASSUME UNCHANGED <<lastBatch, index, result, pushes>> PROVE Goal
  BY <1>1 DEF Queue
<1>2. ASSUME CommitMatchBatches PROVE Goal
  BY <1>2, EnqueueStep DEF Outbox!Next
<1>3. ASSUME NEW b \in Batches, NEW d \in Destinations, LanePush(b, d) PROVE Goal
  <2>1. IsDestinationHead(b, d)
    BY <1>3 DEF LanePush, IInv, LaneExact, HoldingPhases
  <2>2. Outbox!Push(b, d)
    BY <1>3, <2>1, PushStep DEF LanePush, batchVars
  <2> QED
    BY <2>2 DEF Outbox!Next, Outbox!Ids, Batches
<1>4. ASSUME NEW d \in Destinations, PushRetry(d) PROVE Goal
  <2>1. PICK b \in Batches : b = pointer[d].batch /\ IsDestinationHead(b, d)
    BY <1>4 DEF PushRetry, IInv, RetryTaskCurrent, IsRetryHead, IsCurrent
  <2>2. Outbox!Push(b, d)
    BY <1>4, <2>1, PushStep DEF PushRetry, batchVars
  <2> QED
    BY <2>2 DEF Outbox!Next, Outbox!Ids, Batches
<1>5. ASSUME NEW b \in Batches, NEW d \in Destinations, CommitLaneOutcome(b, d)
      PROVE  Goal
  <2>1. CASE IsRetried(lane[b][d])
    BY <1>1, <1>5, <2>1 DEF CommitLaneOutcome, ReleasedKeys
  <2>2. CASE ~IsRetried(lane[b][d])
    <3>1. lane[b][d] \in {"skip", "ok", "permanent", "refused"} /\ IsDestinationHead(b, d)
      BY <1>5, <2>2
      DEF CommitLaneOutcome, IsRetried, IsTransient, ReleasedKeys, Outcomes, IInv, LaneExact,
          HoldingPhases
    <3>2. PICK how \in {"delivered", "skipped", "dead"} : how = ResultOf(lane[b][d])
      BY <3>1 DEF ResultOf
    <3>3. how = "delivered" => pushes[b][d] > 0
      BY <3>1, <3>2 DEF ResultOf, OutcomePushed, Interrupted, PushedPhases
    <3>4. Outbox!Resolve(b, d, how)
      BY <1>5, <2>2, <3>1, <3>2, <3>3, ResolveStep DEF CommitLaneOutcome, ReleasedKeys
    <3> QED
      BY <3>4 DEF Outbox!Next, Outbox!Ids, Outbox!Results, Batches
  <2> QED
    BY <2>1, <2>2
<1>6. ASSUME NEW d \in Destinations, CompleteRetry(d) PROVE Goal
  <2>1. PICK b \in Batches : b = pointer[d].batch /\ IsDestinationHead(b, d)
    BY <1>6 DEF CompleteRetry, Outcomes, IInv, RetryTaskCurrent, IsRetryHead, IsCurrent
  <2>2. PICK how \in {"delivered", "skipped", "dead"} : how = ResultOf(task[d])
    BY DEF ResultOf
  <2>3. how = "delivered" => pushes[b][d] > 0
    BY <1>6, <2>1, <2>2
    DEF CompleteRetry, ResultOf, Outcomes, OutcomePushed, Interrupted, PushedPhases
  <2>4. Outbox!Resolve(b, d, how)
    BY <1>6, <2>1, <2>2, <2>3, ResolveStep DEF CompleteRetry
  <2> QED
    BY <2>4 DEF Outbox!Next, Outbox!Ids, Outbox!Results, Batches
<1>7. ASSUME Restart PROVE Goal
  BY <1>1, <1>7 DEF Restart, batchVars
<1> HIDE DEF Goal
<1>8. Goal
  BY <1>1, <1>2, <1>3, <1>4, <1>5, <1>6, <1>7
  DEF Next, LaneStep, TaskStep, ScanStep, Crash, ReadRetryFails,
      Subscribe, Deactivate, ProcessMatchJob, ProcessCancellation,
      ProcessDeliveryBatch, FinishDeliveryBatch, LaneAcquire, LanePrepare, LaneFails,
      BeginRetryScan, ReadRetry, SpawnRetries,
      LoadRetry, PrepareRetry, RetryFails, RescheduleRetry, vars, batchVars, observed
<1> QED
  BY <1>8 DEF Goal

(* The engines implement the outbox, for every instance.                   *)
THEOREM Refinement == Spec => ImplementsOutbox
<1> DEFINE RInv == IInv /\ OutcomePushed
<1>1. Init => RInv
  <2>1. Init => OutcomePushed
    BY DEF Init, OutcomePushed, Interrupted, PushedPhases
  <2> QED
    BY <2>1, InvariantInit
<1>2. RInv /\ [Next]_vars => RInv'
  <2> SUFFICES ASSUME IInv, OutcomePushed, [Next]_vars PROVE RInv'
    OBVIOUS
  <2>1. IInv' /\ TypeOK'
    BY InvariantStep DEF IInv
  <2> QED
    BY <2>1, OutcomePushedStep
<1>3. RInv /\ [Next]_vars => [Outbox!Next]_(Outbox!outboxVars)
  BY OutboxStep DEF Outbox!outboxVars, Queue
<1> QED
  BY <1>1, <1>2, <1>3, OutboxInit, PTL DEF Spec, ImplementsOutbox, Outbox!Spec
=============================================================================

------------------------------ MODULE Delivery ------------------------------
(***************************************************************************)
(* The delivery subsystem: delivery batches written by the match engine,   *)
(* the delivery engine's per-destination lanes, and the retry engine, all  *)
(* over the durable keyspaces delivery_batches, delivery_progress,         *)
(* delivery_by_destination, retries and ledger                             *)
(* (src/runtime/pipeline.rs, src/storage/fjall.rs).                        *)
(*                                                                         *)
(* A row is a pair <<batch, destination>>: one match job yields at most    *)
(* one row per destination, so a lane of process_destination_lane holds    *)
(* one row.  All batches belong to one incident, the case in which their   *)
(* ledger entries collide.                                                 *)
(***************************************************************************)
EXTENDS Integers, FiniteSets

CONSTANTS
  Destinations,      (* Bark destinations                                  *)
  MaxBatches,        (* bound on the delivery batches ever created         *)
  MaxRetryAttempts,  (* MAX_RETRY_ATTEMPTS                                 *)
  MaxActiveBatches,  (* MAX_ACTIVE_DELIVERY_BATCHES                        *)
  MaxActiveRetries,  (* MAX_ACTIVE_RETRIES                                 *)
  MaxGeneration,     (* bound on the generations of a subscription         *)
  MaxCrashes         (* bound on the crashes                               *)

ASSUME ConstantsAssumption ==
  /\ MaxBatches \in Nat
  /\ MaxRetryAttempts \in Nat \ {0}
  /\ MaxActiveBatches \in Nat \ {0}
  /\ MaxActiveRetries \in Nat \ {0}
  /\ MaxGeneration \in Nat \ {0}
  /\ MaxCrashes \in Nat

VARIABLES
  (* Durable: what survives a restart.                                     *)
  lastBatch,     (* meta: the last delivery_batch id                       *)
  batchRow,      (* batchRow[b][d]: generation of the row for d, 0 if none *)
  pending,       (* batches under delivery_batches key (0, id)             *)
  retained,      (* batches under delivery_batches key (1, id)             *)
  progress,      (* delivery_progress: the committed rows of a batch       *)
  index,         (* delivery_by_destination                                *)
  retries,       (* retries and its two indexes                            *)
  attempts,      (* the attempts field of each retry                       *)
  ledger,        (* the revision last delivered to each destination        *)
  active,        (* subscriptions: the active flag                         *)
  generation,    (* subscriptions: the generation                          *)
  (* Volatile: lost at a restart.                                          *)
  matched,       (* rows the match engine has read and not yet committed   *)
  started,       (* the delivery engine's set of active batches            *)
  lane,          (* lane[b][d]: where process_destination_lane stands      *)
  lock,          (* destination_lock: 0 free, b a lane's, or RetryHolder   *)
  scanning,      (* due_retry_heads is running                             *)
  scan,          (* index entries of its snapshot it has not yet read      *)
  heads,         (* the retries it has found to run                        *)
  task,          (* task[d]: where process_retry stands for d              *)
  pointer,       (* pointer[d]: the RetryItem that process_retry was given *)
  (* Observation.                                                          *)
  pushes,        (* requests made to Bark for a row                        *)
  result,        (* how a row was retired ("dead": in dead_letters)        *)
  crashes,       (* crashes of the process                                 *)
  aborts         (* rows that were between push and commit at a restart    *)

batchVars == <<lastBatch, batchRow, pending, retained, progress, index>>
retryVars == <<retries, attempts>>
subscriptionVars == <<active, generation>>
deliveryVars == <<started, lane>>
scanVars == <<scanning, scan, heads>>
taskVars == <<task, pointer>>
observed == <<pushes, result, crashes, aborts>>
vars == <<batchVars, retryVars, ledger, subscriptionVars, matched, deliveryVars,
          lock, scanVars, taskVars, observed>>

-----------------------------------------------------------------------------
(* Types *)

Batches == 1 .. MaxBatches
Generations == 0 .. MaxGeneration
RetryHolder == MaxBatches + 1
Free == 0

(* "blocked": not the head of its destination; "held": the head, with the  *)
(* lock; "ready": checked, about to push; the others are outcomes.  The    *)
(* pushed ones are those of a request to Bark, the unsent ones errors      *)
(* before any request: "failed" is transient, "refused" permanent.         *)
PushedPhases == {"ok", "transient", "permanent"}
UnsentPhases == {"failed", "refused"}
Outcomes == {"skip", "ok", "transient", "permanent", "failed", "refused"}
LanePhases == {"none", "waiting", "blocked", "held", "ready"} \cup Outcomes
TaskPhases == {"none", "waiting", "held", "ready", "done"} \cup Outcomes
HoldingPhases == {"blocked", "held", "ready"} \cup Outcomes

(* A RetryItem as its key sees it: rescheduling changes due_at_ms, and so  *)
(* the key, exactly when it changes attempts.                              *)
Pointers == [batch : 0 .. MaxBatches, attempts : 0 .. MaxRetryAttempts]
NoPointer == [batch |-> 0, attempts |-> 0]

Results == {"none", "delivered", "skipped", "dead"}

BatchTypes ==
  /\ lastBatch \in 0 .. MaxBatches
  /\ batchRow \in [Batches -> [Destinations -> Generations]]
  /\ pending \in SUBSET Batches
  /\ retained \in SUBSET Batches
  /\ progress \in [Batches -> SUBSET Destinations]
  /\ index \in SUBSET (Batches \X Destinations)

RetryTypes ==
  /\ retries \in SUBSET (Batches \X Destinations)
  /\ attempts \in [Batches -> [Destinations -> 0 .. MaxRetryAttempts]]

SubscriptionTypes ==
  /\ active \in [Destinations -> BOOLEAN]
  /\ generation \in [Destinations -> Generations]

DeliveryTypes ==
  /\ started \in SUBSET Batches
  /\ lane \in [Batches -> [Destinations -> LanePhases]]

ScanTypes ==
  /\ scanning \in BOOLEAN
  /\ scan \in [Destinations -> Pointers]
  /\ heads \in [Destinations -> Pointers]

TaskTypes ==
  /\ task \in [Destinations -> TaskPhases]
  /\ pointer \in [Destinations -> Pointers]

ObservedTypes ==
  /\ pushes \in [Batches -> [Destinations -> Nat]]
  /\ result \in [Batches -> [Destinations -> Results]]
  /\ crashes \in 0 .. MaxCrashes
  /\ aborts \in [Batches -> [Destinations -> Nat]]

(* Every variable keeps its type: no counter passes its bound and no phase *)
(* is one the engines do not know.                                         *)
TypeOK ==
  /\ BatchTypes
  /\ RetryTypes
  /\ ledger \in [Destinations -> 0 .. MaxBatches]
  /\ SubscriptionTypes
  /\ matched \in [Destinations -> Generations]
  /\ DeliveryTypes
  /\ lock \in [Destinations -> 0 .. MaxBatches + 1]
  /\ ScanTypes
  /\ TaskTypes
  /\ ObservedTypes

-----------------------------------------------------------------------------
(* Reading the store *)

RowsOf(b) == {d \in Destinations : batchRow[b][d] # 0}

(* pending_delivery_rows: the rows of a batch not yet in its progress.     *)
PendingRows(b) == RowsOf(b) \ progress[b]

InIndex(b, d) == <<b, d>> \in index   (* mutant: any row may go first       *)

(* delivery_is_destination_head: the first key with the destination.       *)
IsDestinationHead(b, d) ==
  /\ <<b, d>> \in index
  /\ \A c \in Batches : <<c, d>> \in index => b <= c

(* The first key of retries_by_destination with the destination.           *)
IsFirstRetry(b, d) ==
  /\ <<b, d>> \in retries
  /\ \A c \in Batches : <<c, d>> \in retries => b <= c

(* The record under the RetryItem's key is still that RetryItem.           *)
IsCurrent(p, d) ==
  /\ p.batch \in Batches
  /\ <<p.batch, d>> \in retries
  /\ attempts[p.batch][d] = p.attempts

(* retry_is_destination_head.                                              *)
IsRetryHead(p, d) ==
  /\ IsCurrent(p, d)
  /\ IsFirstRetry(p.batch, d)
  /\ IsDestinationHead(p.batch, d)


(* The prefix scan of retries_by_batch.                                    *)
HasRetries(b, rs) == \E d \in Destinations : <<b, d>> \in rs

SkippedAfterAny(b, d) == ledger[d] # 0 (* mutant: the revision is ignored    *)

(* deliver_row_locked returns Ok(None): the ledger has the revision, or    *)
(* the row's subscription is inactive or has another generation.           *)
IsSkipped(b, d) ==
  \/ ledger[d] = b
  \/ ~active[d]
  \/ generation[d] # batchRow[b][d]

-----------------------------------------------------------------------------
Init ==
  /\ lastBatch = 0
  /\ batchRow = [b \in Batches |-> [d \in Destinations |-> 0]]
  /\ pending = {} /\ retained = {}
  /\ progress = [b \in Batches |-> {}]
  /\ index = {}
  /\ retries = {}
  /\ attempts = [b \in Batches |-> [d \in Destinations |-> 0]]
  /\ ledger = [d \in Destinations |-> 0]
  /\ active = [d \in Destinations |-> TRUE]
  /\ generation = [d \in Destinations |-> 1]
  /\ matched = [d \in Destinations |-> 0]
  /\ started = {}
  /\ lane = [b \in Batches |-> [d \in Destinations |-> "none"]]
  /\ lock = [d \in Destinations |-> Free]
  /\ scanning = FALSE
  /\ scan = [d \in Destinations |-> NoPointer]
  /\ heads = [d \in Destinations |-> NoPointer]
  /\ task = [d \in Destinations |-> "none"]
  /\ pointer = [d \in Destinations |-> NoPointer]
  /\ pushes = [b \in Batches |-> [d \in Destinations |-> 0]]
  /\ result = [b \in Batches |-> [d \in Destinations |-> "none"]]
  /\ crashes = 0
  /\ aborts = [b \in Batches |-> [d \in Destinations |-> 0]]

-----------------------------------------------------------------------------
(* Subscriptions, as far as delivery reads them *)

Subscribe(d) ==
  /\ generation[d] < MaxGeneration
  /\ active' = [active EXCEPT ![d] = TRUE]
  /\ generation' = [generation EXCEPT ![d] = @ + 1]
  /\ UNCHANGED <<batchVars, retryVars, ledger, matched, deliveryVars, lock, scanVars,
                 taskVars, observed>>

Deactivate(d) ==
  /\ active[d]
  /\ generation[d] < MaxGeneration
  /\ active' = [active EXCEPT ![d] = FALSE]
  /\ generation' = [generation EXCEPT ![d] = @ + 1]
  /\ UNCHANGED <<batchVars, retryVars, ledger, matched, deliveryVars, lock, scanVars,
                 taskVars, observed>>

-----------------------------------------------------------------------------
(* The match engine: one match job at a time, read first, committed later *)

NothingMatched == \A d \in Destinations : matched[d] = 0

ProcessMatchJob ==
  /\ NothingMatched
  /\ lastBatch < MaxBatches
  /\ \E S \in (SUBSET {d \in Destinations : active[d]}) \ {{}} :
       matched' = [d \in Destinations |-> IF d \in S THEN generation[d] ELSE 0]
  /\ UNCHANGED <<batchVars, retryVars, ledger, subscriptionVars, deliveryVars, lock,
                 scanVars, taskVars, observed>>

(* A cancellation goes to the rows the ledger holds for the incident, with *)
(* the generation each was delivered under.                                *)
ProcessCancellation ==
  /\ NothingMatched
  /\ lastBatch < MaxBatches
  /\ \E d \in Destinations : ledger[d] # 0
  /\ matched' = [d \in Destinations |-> IF ledger[d] = 0 THEN 0 ELSE batchRow[ledger[d]][d]]
  /\ UNCHANGED <<batchVars, retryVars, ledger, subscriptionVars, deliveryVars, lock,
                 scanVars, taskVars, observed>>

CommitMatchBatches ==
  LET b == lastBatch + 1 IN
  /\ ~NothingMatched
  /\ b \in Batches
  /\ lastBatch' = b
  /\ batchRow' = [batchRow EXCEPT ![b] = matched]
  /\ pending' = pending \cup {b}
  /\ index' = index \cup {<<b, d>> : d \in {e \in Destinations : matched[e] # 0}}
  /\ matched' = [d \in Destinations |-> 0]
  /\ UNCHANGED <<retained, progress, retryVars, ledger, subscriptionVars, deliveryVars,
                 lock, scanVars, taskVars, observed>>

-----------------------------------------------------------------------------
(* The delivery engine *)

(* Any pending batch may be next: the ready queue hints at one, the scan   *)
(* falls back to the first.  Its pending rows become lanes.                *)
ProcessDeliveryBatch(b) ==
  /\ b \in pending \ started
  /\ Cardinality(started) < MaxActiveBatches
  /\ started' = started \cup {b}
  /\ lane' = [lane EXCEPT ![b] =
                [d \in Destinations |-> IF d \in PendingRows(b) THEN "waiting" ELSE "none"]]
  /\ UNCHANGED <<batchVars, retryVars, ledger, subscriptionVars, matched, lock, scanVars,
                 taskVars, observed>>

NeverLocked(d) == TRUE                 (* mutant: a lock nobody else shares  *)

(* The owned mutex of the destination can be taken.                        *)
IsUnlocked(d) == lock[d] = Free

(* The head check reads what only the holder of the lock may remove, so it *)
(* is one step with taking the lock.                                       *)
LaneAcquire(b, d) ==
  /\ lane[b][d] = "waiting"
  /\ IsUnlocked(d)
  /\ lock' = [lock EXCEPT ![d] = b]
  /\ lane' = [lane EXCEPT ![b][d] = IF IsDestinationHead(b, d) THEN "held" ELSE "blocked"]
  /\ UNCHANGED <<batchVars, retryVars, ledger, subscriptionVars, matched, started,
                 scanVars, taskVars, observed>>

LanePrepare(b, d) ==
  /\ lane[b][d] = "held"
  /\ lane' = [lane EXCEPT ![b][d] = IF IsSkipped(b, d) THEN "skip" ELSE "ready"]
  /\ UNCHANGED <<batchVars, retryVars, ledger, subscriptionVars, matched, started, lock,
                 scanVars, taskVars, observed>>

(* The errors of deliver_row_locked that leave Bark unasked.  A read of    *)
(* the store, the timing, the link and the push slot fail for now; a       *)
(* target or rule that is missing, a URL that is not allowed and a payload *)
(* that cannot fit fail for good.                                          *)
UnsentErrors(phase) ==
  {e \in UnsentPhases : phase = "ready" \/ (phase = "held" /\ e = "failed")}

LaneFails(b, d) ==
  /\ \E error \in UnsentErrors(lane[b][d]) : lane' = [lane EXCEPT ![b][d] = error]
  /\ UNCHANGED <<batchVars, retryVars, ledger, subscriptionVars, matched, started, lock,
                 scanVars, taskVars, observed>>

LanePush(b, d) ==
  /\ lane[b][d] = "ready"
  /\ \E outcome \in PushedPhases : lane' = [lane EXCEPT ![b][d] = outcome]
  /\ pushes' = [pushes EXCEPT ![b][d] = @ + 1]
  /\ UNCHANGED <<batchVars, retryVars, ledger, subscriptionVars, matched, started, lock,
                 scanVars, taskVars, result, crashes, aborts>>

ResultOf(phase) ==
  CASE phase = "ok" -> "delivered"
    [] phase = "skip" -> "skipped"
    [] OTHER -> "dead"

(* An error that is not permanent, whether or not Bark was asked.          *)
IsTransient(phase) == phase \in {"transient", "failed"}

DropsBlocked(phase) == IsTransient(phase)    (* mutant: blocked rows dropped *)

(* The rows that are committed with a retry.                               *)
IsRetried(phase) == phase = "blocked" \/ IsTransient(phase)

ReleasesAll(b, d, phase) == {<<b, d>>}  (* mutant: retried rows lose their key*)
ReleasesNone(b, d, phase) == {}         (* mutant: no row's key is removed    *)

(* Rows committed with a retry keep their delivery_by_destination key.     *)
ReleasedKeys(b, d, phase) == IF IsRetried(phase) THEN {} ELSE {<<b, d>>}

(* commit_delivery_lane_outcome, then the lock is dropped.                 *)
CommitLaneOutcome(b, d) ==
  LET phase == lane[b][d]
      retried == IsRetried(phase)
      done == progress[b] \cup {d}
      full == done = RowsOf(b)
  IN
  /\ phase \in {"blocked"} \cup Outcomes
  /\ retries' = IF retried THEN retries \cup {<<b, d>>} ELSE retries
  /\ attempts' = IF IsTransient(phase) THEN [attempts EXCEPT ![b][d] = 1] ELSE attempts
  /\ index' = index \ ReleasedKeys(b, d, phase)
  /\ ledger' = IF phase = "ok" THEN [ledger EXCEPT ![d] = b] ELSE ledger
  /\ progress' = [progress EXCEPT ![b] = IF full THEN {} ELSE done]
  /\ pending' = IF full THEN pending \ {b} ELSE pending
  /\ retained' = IF full /\ HasRetries(b, retries') THEN retained \cup {b} ELSE retained
  /\ result' = IF retried THEN result ELSE [result EXCEPT ![b][d] = ResultOf(phase)]
  /\ lane' = [lane EXCEPT ![b][d] = "none"]
  /\ lock' = [lock EXCEPT ![d] = Free]
  /\ UNCHANGED <<lastBatch, batchRow, subscriptionVars, matched, started, scanVars,
                 taskVars, pushes, crashes, aborts>>

FinishDeliveryBatch(b) ==
  /\ b \in started
  /\ \A d \in Destinations : lane[b][d] = "none"
  /\ started' = started \ {b}
  /\ UNCHANGED <<batchVars, retryVars, ledger, subscriptionVars, matched, lane, lock,
                 scanVars, taskVars, observed>>

-----------------------------------------------------------------------------
(* The retry engine *)

(* The destinations with a task in the engine's JoinSet.                   *)
ActiveTasks == {d \in Destinations : task[d] # "none"}
RunningTasks == {d \in Destinations : task[d] \notin {"none", "done"}}

FirstRetry(d) ==
  IF \E b \in Batches : IsFirstRetry(b, d)
  THEN LET b == CHOOSE c \in Batches : IsFirstRetry(c, d)
       IN [batch |-> b, attempts |-> attempts[b][d]]
  ELSE NoPointer

(* One turn of the engine's loop: finished tasks are joined, then          *)
(* due_retry_heads begins.  Its iterator reads a snapshot of               *)
(* retries_by_destination, of which it uses the first entry per            *)
(* destination; it takes no lock.                                          *)
BeginRetryScan ==
  /\ ~scanning
  /\ retries # {}
  /\ Cardinality(RunningTasks) < MaxActiveRetries
  /\ scanning' = TRUE
  /\ scan' = [d \in Destinations |-> FirstRetry(d)]
  /\ task' = [d \in Destinations |-> IF task[d] = "done" THEN "none" ELSE task[d]]
  /\ UNCHANGED <<batchVars, retryVars, ledger, subscriptionVars, matched, deliveryVars,
                 lock, heads, pointer, observed>>

(* The entry's retry is read as it is now.  Whether its due_at_ms has      *)
(* passed is a choice here; a head that is due is one to run.              *)
ReadRetry(d, isDue) ==
  LET p == scan[d] IN
  /\ p # NoPointer
  /\ IsCurrent(p, d)
  /\ scan' = [scan EXCEPT ![d] = NoPointer]
  /\ heads' = IF isDue /\ IsRetryHead(p, d) THEN [heads EXCEPT ![d] = p] ELSE heads
  /\ UNCHANGED <<batchVars, retryVars, ledger, subscriptionVars, matched, deliveryVars,
                 lock, scanning, taskVars, observed>>

HasRunningTask(d) == d \in RunningTasks (* mutant: stale heads are spawned     *)

HasTask(d) == d \in ActiveTasks

(* The heads found are spawned, up to the limit, unless their destination  *)
(* already has a task.                                                     *)
SpawnRetries ==
  LET ready == {d \in Destinations : heads[d] # NoPointer /\ ~HasTask(d)}
      room == MaxActiveRetries - Cardinality(ActiveTasks)
  IN
  /\ scanning
  /\ \A d \in Destinations : scan[d] = NoPointer
  /\ \E S \in SUBSET ready :
       /\ Cardinality(S) <= room
       /\ S = ready \/ Cardinality(S) = room
       /\ task' = [d \in Destinations |-> IF d \in S THEN "waiting" ELSE task[d]]
       /\ pointer' = [d \in Destinations |-> IF d \in S THEN heads[d] ELSE pointer[d]]
  /\ scanning' = FALSE
  /\ heads' = [d \in Destinations |-> NoPointer]
  /\ UNCHANGED <<batchVars, retryVars, ledger, subscriptionVars, matched, deliveryVars,
                 lock, scan, observed>>

(* process_retry takes the lock and reloads: a retry that is no longer the *)
(* head is left alone; one whose batch is gone is completed unsent.        *)
LoadRetry(d) ==
  LET p == pointer[d]
      loaded == CASE ~IsRetryHead(p, d) -> "done"
                  [] p.batch \notin pending \cup retained -> "skip"
                  [] OTHER -> "held"
  IN
  /\ task[d] = "waiting"
  /\ IsUnlocked(d)
  /\ task' = [task EXCEPT ![d] = loaded]
  /\ lock' = IF loaded = "done" THEN lock ELSE [lock EXCEPT ![d] = RetryHolder]
  /\ UNCHANGED <<batchVars, retryVars, ledger, subscriptionVars, matched, deliveryVars,
                 scanVars, pointer, observed>>

PrepareRetry(d) ==
  /\ task[d] = "held"
  /\ task' = [task EXCEPT ![d] = IF IsSkipped(pointer[d].batch, d) THEN "skip" ELSE "ready"]
  /\ UNCHANGED <<batchVars, retryVars, ledger, subscriptionVars, matched, deliveryVars,
                 lock, scanVars, pointer, observed>>

RetryFails(d) ==
  /\ \E error \in UnsentErrors(task[d]) : task' = [task EXCEPT ![d] = error]
  /\ UNCHANGED <<batchVars, retryVars, ledger, subscriptionVars, matched, deliveryVars,
                 lock, scanVars, pointer, observed>>

PushRetry(d) ==
  /\ task[d] = "ready"
  /\ \E outcome \in PushedPhases : task' = [task EXCEPT ![d] = outcome]
  /\ pushes' = [pushes EXCEPT ![pointer[d].batch][d] = @ + 1]
  /\ UNCHANGED <<batchVars, retryVars, ledger, subscriptionVars, matched, deliveryVars,
                 lock, scanVars, pointer, result, crashes, aborts>>

EndRetry(d) ==
  /\ task' = [task EXCEPT ![d] = "done"]
  /\ pointer' = [pointer EXCEPT ![d] = NoPointer]
  /\ lock' = [lock EXCEPT ![d] = Free]

MayRetryOnceMore(p) == p.attempts <= MaxRetryAttempts (* mutant: off by one  *)

MayRetryAgain(p) == p.attempts < MaxRetryAttempts

(* reschedule_retry, while the retry is young enough.                      *)
RescheduleRetry(d) ==
  LET p == pointer[d] IN
  /\ IsTransient(task[d])
  /\ MayRetryAgain(p)
  /\ attempts' = [attempts EXCEPT ![p.batch][d] = p.attempts + 1]
  /\ EndRetry(d)
  /\ UNCHANGED <<batchVars, retries, ledger, subscriptionVars, matched, deliveryVars,
                 scanVars, observed>>

(* complete_retry_with_success, complete_retry and dead_letter_retry.  A   *)
(* transient failure is dead-lettered when the attempts are used up or the *)
(* retry is older than MAX_RETRY_AGE_MS, which may be at any attempt.      *)
CompleteRetry(d) ==
  LET b == pointer[d].batch IN
  /\ task[d] \in Outcomes
  /\ retries' = retries \ {<<b, d>>}
  /\ attempts' = [attempts EXCEPT ![b][d] = 0]
  /\ index' = index \ {<<b, d>>}
  /\ retained' = IF HasRetries(b, retries') THEN retained ELSE retained \ {b}
  /\ ledger' = IF task[d] = "ok" THEN [ledger EXCEPT ![d] = b] ELSE ledger
  /\ result' = [result EXCEPT ![b][d] = ResultOf(task[d])]
  /\ EndRetry(d)
  /\ UNCHANGED <<lastBatch, batchRow, pending, progress, subscriptionVars, matched,
                 deliveryVars, scanVars, pushes, crashes, aborts>>

-----------------------------------------------------------------------------
(* Restarts *)

(* Rows a restart interrupts between the push and its commit.              *)
Interrupted(b, d) ==
  \/ lane[b][d] \in PushedPhases
  \/ task[d] \in PushedPhases /\ pointer[d].batch = b

(* Everything volatile is lost.  recover() only refills the ready queues,  *)
(* which are hints.                                                        *)
Restart ==
  /\ matched' = [d \in Destinations |-> 0]
  /\ started' = {}
  /\ lane' = [b \in Batches |-> [d \in Destinations |-> "none"]]
  /\ lock' = [d \in Destinations |-> Free]
  /\ scanning' = FALSE
  /\ scan' = [d \in Destinations |-> NoPointer]
  /\ heads' = [d \in Destinations |-> NoPointer]
  /\ task' = [d \in Destinations |-> "none"]
  /\ pointer' = [d \in Destinations |-> NoPointer]
  /\ aborts' = [b \in Batches |-> [d \in Destinations |->
                  IF Interrupted(b, d) THEN aborts[b][d] + 1 ELSE aborts[b][d]]]
  /\ UNCHANGED <<batchVars, retryVars, ledger, subscriptionVars, pushes, result>>

Crash ==
  /\ crashes < MaxCrashes
  /\ crashes' = crashes + 1
  /\ Restart

(* due_retry_heads finds no retry under an entry of its snapshot: the      *)
(* error ends the retry engine, run() aborts the other workers, and the    *)
(* process ends and is started again.                                      *)
ReadRetryFails(d) ==
  /\ scan[d] # NoPointer
  /\ ~IsCurrent(scan[d], d)
  /\ Restart
  /\ UNCHANGED crashes

-----------------------------------------------------------------------------
LaneStep(b, d) ==
  \/ LaneAcquire(b, d) \/ LanePrepare(b, d) \/ LaneFails(b, d) \/ LanePush(b, d)
  \/ CommitLaneOutcome(b, d)

TaskStep(d) ==
  \/ LoadRetry(d) \/ PrepareRetry(d) \/ RetryFails(d) \/ PushRetry(d)
  \/ RescheduleRetry(d) \/ CompleteRetry(d)

ScanStep(d) == ReadRetry(d, TRUE) \/ ReadRetry(d, FALSE) \/ ReadRetryFails(d)

Next ==
  \/ \E d \in Destinations : Subscribe(d) \/ Deactivate(d)
  \/ ProcessMatchJob \/ ProcessCancellation \/ CommitMatchBatches
  \/ \E b \in Batches : ProcessDeliveryBatch(b) \/ FinishDeliveryBatch(b)
  \/ \E b \in Batches, d \in Destinations : LaneStep(b, d)
  \/ BeginRetryScan \/ SpawnRetries
  \/ \E d \in Destinations : ScanStep(d) \/ TaskStep(d)
  \/ Crash

Spec == Init /\ [][Next]_vars

(* The workers are tokio tasks that are polled until they return; the      *)
(* clock moves, so a retry read again and again is due at some reading.    *)
(* Nothing obliges users, the match input or a crash.                      *)
Fairness ==
  /\ WF_vars(CommitMatchBatches)
  /\ WF_vars(BeginRetryScan)
  /\ WF_vars(SpawnRetries)
  /\ \A b \in Batches :
       /\ WF_vars(ProcessDeliveryBatch(b))
       /\ WF_vars(FinishDeliveryBatch(b))
  /\ \A b \in Batches, d \in Destinations :
       WF_vars(LaneStep(b, d))
  /\ \A d \in Destinations :
       /\ WF_vars(ScanStep(d))
       /\ SF_vars(ReadRetry(d, TRUE))
       /\ WF_vars(TaskStep(d))

FairSpec == Spec /\ Fairness

-----------------------------------------------------------------------------
(* Properties *)

Outstanding ==
  {r \in Batches \X Destinations : r[1] \in pending /\ r[2] \in PendingRows(r[1])} \cup retries

(* delivery_by_destination holds exactly the rows that are still owed: a   *)
(* missing key lets a later alert overtake, a leftover key is a head that  *)
(* nobody will ever process and blocks its destination for good.           *)
IndexExact == index = Outstanding

(* A batch record lives as long as one of its rows is owed, under exactly  *)
(* one key: a retry whose batch is gone would be completed unsent, and a   *)
(* retained batch without retries would never be deleted.                  *)
BatchRecordExact ==
  /\ pending \cap retained = {}
  /\ \A b \in pending : PendingRows(b) # {}
  /\ \A b \in Batches :
       b \in retained <=> b \notin pending /\ \E d \in Destinations : <<b, d>> \in retries

(* Every row a match job committed is owed or has one result, never both;  *)
(* no row is lost and none is delivered again after it was retired.        *)
RowsAccountedFor ==
  \A b \in Batches, d \in Destinations :
    (<<b, d>> \in index) <=> (batchRow[b][d] # 0 /\ result[b][d] = "none")

(* The delivery keyspaces agree, after every commit of either engine.      *)
KeyspacesAgree == IndexExact /\ BatchRecordExact /\ RowsAccountedFor

(* At most one worker is between its head check and its commit for one     *)
(* destination ("the same Bark target is sent to serially").               *)
SerialPerDestination ==
  \A d \in Destinations :
    /\ \A b, c \in Batches :
         lane[b][d] \in HoldingPhases /\ lane[c][d] \in HoldingPhases => b = c
    /\ task[d] \in HoldingPhases => \A b \in Batches : lane[b][d] \notin HoldingPhases

(* "A Bark failure is retried at most 12 times": a row is requested once   *)
(* and retried MaxRetryAttempts times, plus once per restart that hit it   *)
(* between a request and the commit of its outcome.                        *)
PushesBounded ==
  \A b \in Batches, d \in Destinations :
    pushes[b][d] <= MaxRetryAttempts + 1 + aborts[b][d]

(* A row is retired without a delivery and without a dead letter only for  *)
(* a destination whose subscription changed after the match: as long as it *)
(* is left alone, each of its alerts is delivered or ends in dead_letters, *)
(* also the alerts for which no request to Bark was made.                  *)
SkippedOnlyWhenChanged ==
  \A b \in Batches, d \in Destinations :
    result[b][d] = "skipped" => generation[d] # batchRow[b][d]

(* A spawned retry task works on the retry as stored, so that none of the  *)
(* "retry changed before ..." checks of its commits can stop the runtime.  *)
RetryTaskCurrent ==
  \A d \in Destinations :
    task[d] \notin {"none", "done"} => IsRetryHead(pointer[d], d)

(* A request to Bark is made only for the oldest row the destination is    *)
(* still owed, whichever engine makes it: no later alert overtakes.        *)
PushesInOrder ==
  [][\A b \in Batches, d \in Destinations :
       pushes'[b][d] # pushes[b][d] =>
         \A c \in Batches : c < b /\ batchRow[c][d] # 0 => result[c][d] # "none"]_vars

(* Every row is retired in the end, whatever Bark answers, however the two *)
(* engines interleave, and across restarts.                                *)
EveryRowRetired ==
  \A b \in Batches, d \in Destinations : [](<<b, d>> \in index => <>(result[b][d] # "none"))

(* The retry scan's assertion: an index entry never references a missing   *)
(* retry.                                                                  *)
ScanFindsRetries ==
  \A d \in Destinations : scan[d] # NoPointer => IsCurrent(scan[d], d)

(* The detailed engines implement the per-destination outbox.              *)
Outbox == INSTANCE DeliveryOutbox WITH
            last <- lastBatch,
            queue <- [d \in Destinations |-> {b \in Batches : <<b, d>> \in index}]

ImplementsOutbox == Outbox!Spec
=============================================================================

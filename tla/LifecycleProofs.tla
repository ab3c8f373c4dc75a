---------------------------- MODULE LifecycleProofs ----------------------------
(***************************************************************************)
(* Proofs about Lifecycle: how the process goes down, for any tasks that    *)
(* submit, any number of events, signals and failures.                      *)
(***************************************************************************)
EXTENDS Lifecycle, TLAPS

USE ConstantsAssumption

-----------------------------------------------------------------------------
(* The inductive invariant *)

Typed ==
  /\ phase \in {"running", "ingress", "pipeline", "reap", "flush", "down"}
  /\ task \in [Tasks -> {"live", "ok", "err", "aborted"}]
  /\ completed \subseteq Tasks /\ joins \in [Tasks -> Nat]
  /\ engine \in [Engines -> {"look", "none", "stopped"} \cup Events]
  /\ closing \in BOOLEAN /\ stopped \subseteq Engines
  /\ busy \subseteq Events /\ submitting \in Events \cup {NoEvent}
  /\ stage \in [Events -> Stages] /\ dirty \in BOOLEAN

(* A handle gave its result once it is marked, and only then; only a reap    *)
(* that ran out of time, or a crash, leaves one.                            *)
JoinsExact ==
  /\ phase \in {"running", "ingress", "pipeline", "reap"} =>
       \A t \in Tasks : joins[t] = IF t \in completed THEN 1 ELSE 0
  /\ phase = "running" => completed = {}
  /\ phase \in {"flush", "down"} =>
       /\ \A t \in Tasks : joins[t] <= 1
       /\ errors \cap {"crash", "reap"} = {} => \A t \in Tasks : joins[t] = 1

(* Marked tasks have ended; without an error, all of them well.             *)
CompletedExact ==
  /\ \A t \in completed : task[t] # "live"
  /\ errors = {} => \A t \in completed : task[t] = "ok"
  /\ errors = {} => phase # "reap"
  /\ errors = {} /\ phase \in {"flush", "down"} => completed = Tasks

(* The provider does not end with a submission under way, which is of a new *)
(* event.                                                                   *)
SubmittingExact ==
  /\ task["wolfx"] = "ok" => submitting = NoEvent
  /\ submitting # NoEvent => stage[submitting] = "new"

(* An attempt is under way for batches and retries, and not once the engine *)
(* that began it has stopped.                                               *)
BusyExact ==
  /\ busy \subseteq In("batch") \cup In("retry")
  /\ engine["delivery"] = "stopped" <=> "delivery" \in stopped
  /\ "delivery" \in stopped => In("batch") \cap busy = {}
  /\ engine["retry"] = "stopped" => "delivery" \in stopped /\ busy = {}
  /\ task["runtime"] = "ok" => engine["retry"] = "stopped"

(* A process without errors that is down has synced.                        *)
Synced == phase = "down" /\ errors = {} => ~dirty

(* Whatever closed the runtime, the provider had ended, or it was forced.    *)
ClosingExact ==
  closing => "cleanup" \in errors \/ task["runtime"] = "err" \/ task["wolfx"] # "live"

IInv ==
  /\ Typed /\ JoinsExact /\ CompletedExact /\ SubmittingExact /\ BusyExact
  /\ Synced /\ ClosingExact /\ RefusedOnlyWhenForced

-----------------------------------------------------------------------------
(* The provider and the runtime are two of the tasks.                      *)
LEMMA InTasks == "wolfx" \in Tasks /\ "runtime" \in Tasks /\ "wolfx" # "runtime"
  BY DEF Tasks

(* Without an error a process that is down has nothing in flight.           *)
LEMMA NothingInFlight ==
  ASSUME IInv, errors = {}, phase \in {"flush", "down"}
  PROVE  (\A t \in Tasks : task[t] = "ok") /\ submitting = NoEvent /\ busy = {}
  <1>1. \A t \in Tasks : task[t] = "ok"
    BY DEF IInv, CompletedExact
  <1>2. submitting = NoEvent
    BY <1>1, InTasks DEF IInv, SubmittingExact
  <1>3. busy = {}
    BY <1>1, InTasks DEF IInv, BusyExact
  <1> QED BY <1>1, <1>2, <1>3

(* A process that starts has nothing to account for.                       *)
LEMMA InitInvariant == Init => IInv
  <1> SUFFICES ASSUME Init PROVE IInv
    OBVIOUS
  <1> USE DEF Init
  <1>1. Typed
    BY DEF Typed, Stages
  <1>2. JoinsExact /\ CompletedExact /\ Synced /\ ClosingExact /\ RefusedOnlyWhenForced
    BY DEF JoinsExact, CompletedExact, Synced, ClosingExact, RefusedOnlyWhenForced
  <1>3. SubmittingExact
    BY InTasks DEF SubmittingExact
  <1>4. BusyExact
    BY InTasks DEF BusyExact, Engines
  <1> QED BY <1>1, <1>2, <1>3, <1>4 DEF IInv

-----------------------------------------------------------------------------
(* Steps that leave the supervisor alone leave its parts alone.             *)
LEMMA SupervisorFrame ==
  ASSUME IInv, UNCHANGED supervisor
  PROVE  JoinsExact' /\ CompletedExact'
  BY DEF IInv, JoinsExact, CompletedExact, supervisor

(* A submission is under way from its check to its commit.                  *)
LEMMA ProviderSteps ==
  ASSUME IInv, Ingest \/ IngestFails \/ \E e \in Events : Submit(e)
  PROVE  IInv'
  <1> USE DEF IInv
  <1>1. CASE Ingest
    <2> USE <1>1 DEF Ingest, Write
    <2>1. submitting \in Events /\ stage[submitting] = "new"
      BY DEF Typed, SubmittingExact
    <2>2. ~(errors = {} /\ phase = "down")
      BY NothingInFlight
    <2>3. Typed'
      BY <2>1 DEF Typed, Stages, supervisor, runtime
    <2>4. SubmittingExact'
      BY DEF SubmittingExact, supervisor
    <2>5. BusyExact'
      <3>1. UNCHANGED <<engine, stopped, busy, task>>
        BY DEF supervisor, runtime
      <3>2. submitting \notin busy
        BY <2>1 DEF BusyExact, In
      <3>3. \A e \in busy : stage'[e] = stage[e]
        BY <3>2, <2>1 DEF Typed
      <3>4. /\ busy \cap In("batch")' = busy \cap In("batch")
            /\ busy \cap In("retry")' = busy \cap In("retry")
        BY <3>3 DEF In, Typed
      <3> QED BY <3>1, <3>4 DEF BusyExact
    <2>6. Synced' /\ ClosingExact' /\ RefusedOnlyWhenForced'
      BY <2>2 DEF Synced, ClosingExact, RefusedOnlyWhenForced, supervisor, runtime
    <2> QED BY <2>3, <2>4, <2>5, <2>6, SupervisorFrame
  <1>2. CASE IngestFails
    <2> USE <1>2 DEF IngestFails, supervisor, runtime
    <2>1. Typed' /\ SubmittingExact'
      BY DEF Typed, SubmittingExact
    <2>2. BusyExact' /\ Synced' /\ ClosingExact' /\ RefusedOnlyWhenForced'
      BY DEF BusyExact, Synced, ClosingExact, RefusedOnlyWhenForced, In
    <2> QED BY <2>1, <2>2, SupervisorFrame
  <1>3. ASSUME NEW e \in Events, Submit(e) PROVE IInv'
    <2> USE <1>3 DEF Submit, supervisor, runtime
    <2>1. Typed'
      BY DEF Typed
    <2>2. SubmittingExact'
      BY DEF SubmittingExact, Live
    <2>3. BusyExact' /\ Synced' /\ ClosingExact'
      BY DEF BusyExact, Synced, ClosingExact, In
    <2>4. RefusedOnlyWhenForced'
      BY DEF RefusedOnlyWhenForced, ClosingExact, Live
    <2> QED BY <2>1, <2>2, <2>3, <2>4, SupervisorFrame
  <1> QED BY <1>1, <1>2, <1>3

-----------------------------------------------------------------------------
(* The loops of the engines. An engine moves an event that no attempt is    *)
(* busy with, or none.                                                      *)
LEMMA LoopSteps ==
  ASSUME IInv,
         \/ FindNoInbox \/ StopCoordinator \/ FindNoJob \/ StopMatch
         \/ FindNoBatch \/ StopDelivery \/ StopRetry
         \/ \E e \in Events : PushHint(e)
  PROVE  IInv'
  <1> USE DEF IInv
  <1>1. /\ UNCHANGED supervisor /\ UNCHANGED <<closing, busy, provider, stage, dirty>>
        /\ Works
    BY DEF FindNoInbox, StopCoordinator, FindNoJob, StopMatch, FindNoBatch, StopDelivery,
           StopRetry, PushHint, StopsWith
  <1>2. /\ engine' \in [Engines -> {"look", "none", "stopped"} \cup Events]
        /\ stopped' \subseteq Engines
    <2> USE DEF Goto, Typed, Engines
    <2>1. CASE StopCoordinator \/ StopMatch \/ StopDelivery
      <3>1. \E n \in {"event", "match", "delivery"} :
              \/ engine' = [engine EXCEPT ![n] = "stopped"] /\ stopped' = stopped \cup {n}
              \/ engine' = [engine EXCEPT ![n] = "look"] /\ UNCHANGED stopped
        BY <2>1 DEF StopCoordinator, StopMatch, StopDelivery, StopsWith
      <3>2. PICK n \in {"event", "match", "delivery"}, pc \in {"stopped", "look"} :
              /\ engine' = [engine EXCEPT ![n] = pc]
              /\ stopped' = stopped \cup {n} \/ UNCHANGED stopped
        BY <3>1
      <3>3. n \in Engines /\ pc \in {"look", "none", "stopped"} \cup Events
        OBVIOUS
      <3> QED BY <3>2, <3>3
    <2>2. CASE StopRetry
      BY <2>2 DEF StopRetry
    <2>3. CASE FindNoInbox \/ FindNoJob \/ FindNoBatch
      BY <2>3 DEF FindNoInbox, FindNoJob, FindNoBatch
    <2>4. CASE \E e \in Events : PushHint(e)
      BY <2>4 DEF PushHint
    <2> QED BY <2>1, <2>2, <2>3, <2>4
  <1>3. Typed'
    BY <1>1, <1>2 DEF Typed, supervisor, provider
  <1>4. SubmittingExact' /\ Synced' /\ ClosingExact' /\ RefusedOnlyWhenForced'
    BY <1>1 DEF SubmittingExact, Synced, ClosingExact, RefusedOnlyWhenForced, supervisor, provider
  <1>5. task["runtime"] # "ok" /\ task' = task /\ busy' = busy /\ stage' = stage
    BY <1>1 DEF Works, Live, supervisor
  <1>6. BusyExact'
    <2>1. CASE StopDelivery
      BY <1>5, <2>1 DEF BusyExact, In, StopDelivery, StopsWith, Goto, Typed, Engines
    <2>2. CASE StopRetry
      BY <1>5, <2>2 DEF BusyExact, In, StopRetry, RetryStops, Goto, Typed, Engines
    <2>3. CASE FindNoBatch
      BY <1>5, <2>3 DEF BusyExact, In, FindNoBatch, Goto, Typed, Engines
    <2>4. CASE FindNoInbox \/ FindNoJob \/ \E e \in Events : PushHint(e)
      BY <1>5, <2>4 DEF BusyExact, In, FindNoInbox, FindNoJob, PushHint, Goto, Typed, Engines
    <2>5. CASE StopCoordinator \/ StopMatch
      BY <1>5, <2>5 DEF BusyExact, In, StopCoordinator, StopMatch, StopsWith, Goto, Typed, Engines
    <2> QED BY <2>1, <2>2, <2>3, <2>4, <2>5
  <1> QED BY <1>1, <1>3, <1>4, <1>6, SupervisorFrame

(* The coordinator and the matcher move events that are not in an attempt.  *)
LEMMA WorkSteps ==
  ASSUME IInv, NEW e \in Events, Coordinate(e) \/ Match(e)
  PROVE  IInv'
  <1> USE DEF IInv
  <1>1. /\ UNCHANGED supervisor /\ UNCHANGED <<closing, stopped, busy, provider>>
        /\ Works
    BY DEF Coordinate, Match
  <1>2. \/ UNCHANGED <<stage, dirty>>
        \/ /\ stage[e] \in {"inbox", "job"}
           /\ \E s \in {"job", "batch", "done"} : stage' = [stage EXCEPT ![e] = s]
           /\ dirty' = TRUE
    BY DEF Coordinate, Match, Write
  <1>3. /\ engine' \in [Engines -> {"look", "none", "stopped"} \cup Events]
        /\ engine'["delivery"] = engine["delivery"] /\ engine'["retry"] = engine["retry"]
    <2> USE DEF Goto, Typed, Engines
    <2>1. CASE Coordinate(e)
      BY <2>1 DEF Coordinate, Unhinted
    <2>2. CASE Match(e)
      BY <2>2 DEF Match
    <2> QED BY <2>1, <2>2
  <1>4. Typed'
    <2>1. stage' \in [Events -> Stages] /\ dirty' \in BOOLEAN
      BY <1>2 DEF Typed, Stages
    <2> QED BY <1>1, <1>3, <2>1 DEF Typed, supervisor, provider
  <1>5. SubmittingExact'
    BY <1>1, <1>2 DEF SubmittingExact, Typed, supervisor, provider
  <1>6. phase # "down" /\ phase' = phase
    BY <1>1 DEF Works, supervisor
  <1>7. Synced' /\ ClosingExact' /\ RefusedOnlyWhenForced'
    BY <1>1, <1>6 DEF Synced, ClosingExact, RefusedOnlyWhenForced, supervisor, provider
  <1>8. BusyExact'
    <2>1. task' = task
      BY <1>1 DEF supervisor
    <2>2. \A b \in busy : stage'[b] = stage[b]
      BY <1>2 DEF BusyExact, In, Typed
    <2>3. /\ busy \cap In("batch")' = busy \cap In("batch")
          /\ busy \cap In("retry")' = busy \cap In("retry")
      BY <2>2 DEF In, Typed
    <2> QED BY <1>1, <1>3, <2>1, <2>3 DEF BusyExact
  <1> QED BY <1>1, <1>4, <1>5, <1>7, <1>8, SupervisorFrame

(* Attempts begin while their engine looks for work, and end.               *)
LEMMA AttemptSteps ==
  ASSUME IInv, NEW e \in Events,
         TakeBatch(e) \/ TakeRetry(e) \/ Deliver(e) \/ EndRetry(e)
  PROVE  IInv'
  <1> USE DEF IInv
  <1>1. UNCHANGED supervisor /\ UNCHANGED <<engine, closing, stopped, provider>>
    BY DEF TakeBatch, TakeRetry, Deliver, EndRetry
  <1>2. CASE TakeBatch(e) \/ TakeRetry(e)
    <2>1. /\ busy' = busy \cup {e} /\ UNCHANGED <<stage, dirty>>
          /\ \/ stage[e] = "batch" /\ engine["delivery"] = "look"
             \/ stage[e] = "retry" /\ engine["retry"] = "look"
          /\ Works
      BY <1>2 DEF TakeBatch, TakeRetry
    <2>2. Typed' /\ SubmittingExact' /\ Synced' /\ ClosingExact' /\ RefusedOnlyWhenForced'
      BY <1>1, <2>1 DEF Typed, SubmittingExact, Synced, ClosingExact, RefusedOnlyWhenForced,
                        supervisor, provider
    <2>3. BusyExact'
      <3>1. task' = task /\ (stage[e] = "retry" => engine["retry"] # "stopped")
        BY <1>1, <2>1 DEF BusyExact, supervisor
      <3>2. stage[e] = "batch" => "delivery" \notin stopped /\ engine["retry"] # "stopped"
        BY <2>1 DEF BusyExact
      <3> QED BY <1>1, <2>1, <3>1, <3>2 DEF BusyExact, In
    <2> QED BY <1>1, <2>2, <2>3, SupervisorFrame
  <1>3. CASE Deliver(e) \/ EndRetry(e)
    <2>1. /\ e \in busy /\ busy' = busy \ {e} /\ dirty' = TRUE
          /\ stage[e] \in {"batch", "retry"}
          /\ \E s \in {"retry", "done"} : stage' = [stage EXCEPT ![e] = s]
      BY <1>3 DEF Deliver, EndRetry, Write
    <2>2. Typed'
      BY <1>1, <2>1 DEF Typed, Stages, supervisor, provider
    <2>3. SubmittingExact'
      BY <1>1, <2>1 DEF SubmittingExact, Typed, supervisor, provider
    <2>4. ~(errors = {} /\ phase = "down")
      BY <2>1, NothingInFlight
    <2>5. Synced' /\ ClosingExact' /\ RefusedOnlyWhenForced'
      BY <1>1, <2>4 DEF Synced, ClosingExact, RefusedOnlyWhenForced, supervisor, provider
    <2>6. BusyExact'
      <3>1. task' = task
        BY <1>1 DEF supervisor
      <3>2. \A b \in busy' : b \in busy /\ stage'[b] = stage[b]
        BY <2>1 DEF Typed
      <3>3. /\ busy' \cap In("batch")' \subseteq busy \cap In("batch")
            /\ busy' \subseteq In("batch")' \cup In("retry")'
        BY <3>2 DEF In, Typed, BusyExact
      <3> QED BY <1>1, <2>1, <3>1, <3>3 DEF BusyExact
    <2> QED BY <1>1, <2>2, <2>3, <2>5, <2>6, SupervisorFrame
  <1> QED BY <1>2, <1>3

-----------------------------------------------------------------------------
(* A task that is not marked ends, well or not.                             *)
LEMMA EndSteps ==
  ASSUME IInv, EndRuntime \/ \E t \in Tasks : EndIngress(t) \/ FailTask(t)
  PROVE  IInv'
  <1> USE DEF IInv
  <1>1. ASSUME NEW t \in Tasks, EndIngress(t) PROVE IInv'
    <2> USE <1>1 DEF EndIngress, runtime, provider, Live
    <2>1. t # "runtime" /\ task[t] = "live" /\ task' = [task EXCEPT ![t] = "ok"] /\ t \notin completed
      BY DEF CompletedExact
    <2>2. Typed' /\ JoinsExact' /\ Synced'
      BY <2>1 DEF Typed, JoinsExact, Synced
    <2>3. CompletedExact'
      BY <2>1 DEF Typed, CompletedExact
    <2>4. SubmittingExact'
      BY <2>1 DEF Typed, SubmittingExact
    <2>5. BusyExact' /\ ClosingExact' /\ RefusedOnlyWhenForced'
      BY <2>1, InTasks DEF Typed, BusyExact, ClosingExact, RefusedOnlyWhenForced, In
    <2> QED BY <2>2, <2>3, <2>4, <2>5
  <1>2. CASE EndRuntime
    <2> USE <1>2 DEF EndRuntime, runtime, provider, Works, Live
    <2>1. /\ task["runtime"] = "live" /\ task' = [task EXCEPT !["runtime"] = "ok"]
          /\ "runtime" \notin completed /\ engine["retry"] = "stopped"
      BY DEF CompletedExact, Engines
    <2>2. Typed' /\ JoinsExact' /\ Synced'
      BY <2>1 DEF Typed, JoinsExact, Synced
    <2>3. CompletedExact'
      BY <2>1 DEF Typed, CompletedExact
    <2>4. SubmittingExact'
      BY <2>1, InTasks DEF Typed, SubmittingExact
    <2>5. BusyExact' /\ ClosingExact' /\ RefusedOnlyWhenForced'
      BY <2>1, InTasks DEF Typed, BusyExact, ClosingExact, RefusedOnlyWhenForced, In
    <2> QED BY <2>2, <2>3, <2>4, <2>5
  <1>3. ASSUME NEW t \in Tasks, FailTask(t) PROVE IInv'
    <2> USE <1>3 DEF FailTask, provider, Live
    <2>1. /\ task[t] = "live" /\ task' = [task EXCEPT ![t] = "err"] /\ t \notin completed
          /\ phase # "down"
      BY DEF CompletedExact
    <2>2. /\ busy' \subseteq busy /\ UNCHANGED <<engine, stopped, stage>>
          /\ t # "runtime" => UNCHANGED closing
          /\ closing' \in BOOLEAN
      BY DEF Close, Typed
    <2>3. Typed'
      BY <2>1, <2>2 DEF Typed
    <2>4. JoinsExact' /\ Synced'
      BY <2>1 DEF JoinsExact, Synced
    <2>5. CompletedExact'
      BY <2>1 DEF Typed, CompletedExact
    <2>6. SubmittingExact'
      BY <2>1, <2>2 DEF Typed, SubmittingExact
    <2>7. BusyExact'
      BY <2>1, <2>2, InTasks DEF Typed, BusyExact, In
    <2>8. ClosingExact'
      BY <2>1, <2>2, InTasks DEF Typed, ClosingExact
    <2>9. RefusedOnlyWhenForced'
      BY <2>1, InTasks DEF Typed, RefusedOnlyWhenForced
    <2> QED BY <2>3, <2>4, <2>5, <2>6, <2>7, <2>8, <2>9
  <1> QED BY <1>1, <1>2, <1>3

-----------------------------------------------------------------------------
(* Steps of the supervisor leave the rest alone, except that they close     *)
(* the runtime.                                                             *)
LEMMA RestFrame ==
  ASSUME IInv, UNCHANGED <<task, engine, stopped, busy, submitting, stage>>
  PROVE  SubmittingExact' /\ BusyExact'
  BY DEF IInv, SubmittingExact, BusyExact, In

(* A drain joins a task that ended, once, or is cut with an error.          *)
LEMMA SupervisorSteps ==
  ASSUME IInv,
         \/ Signal \/ DrainedIngress \/ DrainedPipeline \/ Expire \/ SignalAgain
         \/ Flush \/ CutFlush \/ \E t \in Tasks : NoticeEnd(t) \/ Collect(t)
  PROVE  IInv'
  <1> USE DEF IInv
  <1>1. /\ UNCHANGED <<task, engine, stopped, busy, submitting, stage, refused>>
        /\ errors \subseteq errors'
    BY DEF Signal, DrainedIngress, DrainedPipeline, Expire, SignalAgain, Expired, SignalledAgain,
           Cut, Fails, Flush, CutFlush, NoticeEnd, Collect, runtime, provider
  <1>2. RefusedOnlyWhenForced'
    BY <1>1 DEF RefusedOnlyWhenForced
  <1>3. CASE Signal \/ DrainedPipeline \/ Flush \/ CutFlush
    <2> USE <1>3 DEF Signal, DrainedPipeline, Flush, CutFlush, Expired, SignalledAgain, Kind, Fails,
                     runtime, provider, AllCompleted
    <2>1. Typed' /\ ClosingExact'
      <3>1. /\ phase' \in {"ingress", "flush", "down"} /\ dirty' \in BOOLEAN
            /\ UNCHANGED <<completed, joins, closing>>
        BY DEF Typed
      <3> QED BY <1>1, <3>1 DEF Typed, ClosingExact
    <2>2. JoinsExact'
      BY DEF JoinsExact, Typed
    <2>3. CompletedExact' /\ Synced'
      BY DEF CompletedExact, Synced, Typed
    <2> QED BY <1>1, <1>2, <2>1, <2>2, <2>3, RestFrame
  <1>4. CASE DrainedIngress
    <2> USE <1>4 DEF DrainedIngress, IngressCompleted, Close, provider
    <2>1. Typed'
      BY DEF Typed
    <2>2. JoinsExact' /\ CompletedExact' /\ Synced'
      BY DEF JoinsExact, CompletedExact, Synced
    <2>3. ClosingExact'
      BY DEF CompletedExact, ClosingExact
    <2> QED BY <1>1, <1>2, <2>1, <2>2, <2>3, RestFrame
  <1>5. CASE Expire \/ SignalAgain
    <2>1. /\ Cut /\ errors' = errors \cup {"cleanup"}
      BY <1>5 DEF Expire, SignalAgain, Expired, SignalledAgain, Fails, Kind, Cut
    <2> USE <2>1 DEF Cut, Close, provider
    <2>2. Typed'
      BY DEF Typed
    <2>3. JoinsExact' /\ CompletedExact' /\ Synced' /\ ClosingExact'
      BY DEF JoinsExact, CompletedExact, Synced, ClosingExact
    <2> QED BY <1>1, <1>2, <2>2, <2>3, RestFrame
  <1>6. ASSUME NEW t \in Tasks, NoticeEnd(t) \/ Collect(t) PROVE IInv'
    <2>1. /\ joins' = [joins EXCEPT ![t] = @ + 1] /\ completed' = completed \cup {t}
          /\ task[t] \in {"ok", "err"}
          /\ phase \in {"running", "ingress", "pipeline"} /\ phase' \in {"ingress", "pipeline"}
          /\ errors' = {} => errors = {} /\ task[t] = "ok"
          /\ UNCHANGED <<closing, dirty>>
      BY <1>6 DEF NoticeEnd, Collect, Join, Ended, Fails, Draining, runtime
    <2>2. t \notin completed
      BY <1>6 DEF Collect, NoticeEnd, JoinsExact
    <2>3. Typed' /\ Synced' /\ ClosingExact'
      BY <1>1, <2>1 DEF Typed, Synced, ClosingExact
    <2>4. JoinsExact'
      BY <2>1, <2>2 DEF JoinsExact, Typed
    <2>5. CompletedExact'
      BY <1>1, <2>1 DEF CompletedExact
    <2> QED BY <1>1, <1>2, <2>3, <2>4, <2>5, RestFrame
  <1> QED BY <1>3, <1>4, <1>5, <1>6

(* Those that still live are aborted and, if there is time, joined.         *)
LEMMA ReapStep ==
  ASSUME IInv, Reap PROVE IInv'
  <1> USE DEF IInv
  <1>1. PICK left \in {{}, {t \in Tasks : Live(t)}} :
          /\ joins' = [t \in Tasks |-> joins[t] + (IF t \in completed \cup left THEN 0 ELSE 1)]
          /\ errors' = IF left # {} THEN errors \cup {"reap"} ELSE errors
    BY DEF Reap, Fails
  <1>2. /\ phase = "reap" /\ phase' = "flush" /\ completed' = Tasks
        /\ task' = [t \in Tasks |-> IF Live(t) THEN "aborted" ELSE task[t]]
        /\ busy' \subseteq busy
        /\ UNCHANGED <<engine, closing, stopped, submitting, refused, stage, dirty>>
    BY DEF Reap
  <1>3. errors' # {}
    BY <1>1, <1>2 DEF CompletedExact
  <1>4. \A t \in Tasks : joins[t] = IF t \in completed THEN 1 ELSE 0
    BY <1>2 DEF JoinsExact
  <1>5. \A t \in Tasks : /\ joins'[t] \in {0, 1}
                          /\ t \notin left => joins'[t] = 1
    BY <1>1, <1>4
  <1>6. joins' \in [Tasks -> Nat]
    <2>1. \A t \in Tasks : joins[t] + (IF t \in completed \cup left THEN 0 ELSE 1) \in Nat
      BY DEF Typed
    <2> QED BY <1>1, <2>1
  <1>7. JoinsExact'
    BY <1>1, <1>2, <1>5 DEF JoinsExact
  <1>8. CompletedExact' /\ Synced'
    BY <1>2, <1>3 DEF CompletedExact, Synced, Live, Typed
  <1>9. Typed'
    BY <1>2, <1>6 DEF Typed
  <1>10. \A t \in Tasks : task[t] # "live" => task'[t] = task[t]
    BY <1>2 DEF Live
  <1>11. \A t \in Tasks : task'[t] = "ok" => task[t] = "ok"
    BY <1>2 DEF Live
  <1>12. SubmittingExact'
    BY <1>2, <1>11, InTasks DEF SubmittingExact
  <1>13. BusyExact'
    BY <1>2, <1>11, InTasks DEF BusyExact, In
  <1>14. ClosingExact'
    BY <1>1, <1>2, <1>10, InTasks DEF ClosingExact, Typed
  <1>15. RefusedOnlyWhenForced'
    BY <1>1, <1>2, <1>10, InTasks DEF RefusedOnlyWhenForced
  <1> QED BY <1>7, <1>8, <1>9, <1>12, <1>13, <1>14, <1>15

(* A process that died, and one that starts again.                         *)
LEMMA ProcessSteps ==
  ASSUME IInv, Crash \/ Restart
  PROVE  IInv'
  <1> USE DEF IInv
  <1>1. CASE Crash
    <2> USE <1>1 DEF Crash
    <2>1. Typed'
      BY DEF Typed
    <2>2. JoinsExact' /\ CompletedExact' /\ Synced'
      BY DEF JoinsExact, CompletedExact, Synced
    <2>3. SubmittingExact' /\ BusyExact'
      BY InTasks DEF SubmittingExact, BusyExact, Engines
    <2>4. ClosingExact' /\ RefusedOnlyWhenForced'
      BY DEF ClosingExact, RefusedOnlyWhenForced
    <2> QED BY <2>1, <2>2, <2>3, <2>4
  <1>2. CASE Restart
    <2> USE <1>2 DEF Restart, Started
    <2>1. Typed'
      BY DEF Typed
    <2>2. JoinsExact' /\ CompletedExact' /\ Synced'
      BY DEF JoinsExact, CompletedExact, Synced
    <2>3. SubmittingExact' /\ BusyExact'
      BY InTasks DEF SubmittingExact, BusyExact, Engines
    <2>4. ClosingExact' /\ RefusedOnlyWhenForced'
      BY DEF ClosingExact, RefusedOnlyWhenForced
    <2> QED BY <2>1, <2>2, <2>3, <2>4
  <1> QED BY <1>1, <1>2

-----------------------------------------------------------------------------
(* Every step keeps the invariant.                                         *)
LEMMA NextInvariant == IInv /\ [Next]_vars => IInv'
  <1> SUFFICES ASSUME IInv, [Next]_vars PROVE IInv'
    OBVIOUS
  <1>1. CASE UNCHANGED vars
    BY <1>1 DEF vars, supervisor, runtime, provider, IInv, Typed, JoinsExact, CompletedExact,
                SubmittingExact, BusyExact, Synced, ClosingExact, RefusedOnlyWhenForced, In
  <1>2. CASE Ingest \/ IngestFails \/ \E e \in Events : Submit(e)
    BY <1>2, ProviderSteps
  <1>3. CASE CoordinatorStep \/ MatchStep \/ DeliveryStep \/ StopRetry
    BY <1>3, LoopSteps, WorkSteps, AttemptSteps DEF CoordinatorStep, MatchStep, DeliveryStep
  <1>4. CASE \E e \in Events : Deliver(e) \/ TakeRetry(e) \/ EndRetry(e)
    BY <1>4, AttemptSteps
  <1>5. CASE EndRuntime \/ \E t \in Tasks : EndIngress(t) \/ FailTask(t)
    BY <1>5, EndSteps
  <1>6. CASE SupervisorStep \/ Signal \/ SignalAgain
    BY <1>6, SupervisorSteps, ReapStep DEF SupervisorStep
  <1>7. CASE Crash \/ Restart
    BY <1>7, ProcessSteps
  <1> QED BY <1>1, <1>2, <1>3, <1>4, <1>5, <1>6, <1>7 DEF Next

(* IInv holds in every state of the process.                               *)
THEOREM Invariant == Spec => []IInv
  BY InitInvariant, NextInvariant, PTL DEF Spec

(* The result of every task is taken once, and an exit without an error     *)
(* leaves nothing in flight and nothing unsynced (run_until_shutdown).       *)
THEOREM ShutdownCorrect == Spec => []ShutdownOrderly
  <1>1. IInv => ShutdownOrderly
    <2> SUFFICES ASSUME IInv PROVE ShutdownOrderly
      OBVIOUS
    <2>1. \A t \in Tasks : joins[t] <= 1
      BY DEF IInv, Typed, JoinsExact
    <2>2. phase = "down" /\ errors \cap {"crash", "reap"} = {} => \A t \in Tasks : joins[t] = 1
      BY DEF IInv, JoinsExact
    <2>3. CleanExit
      BY NothingInFlight DEF CleanExit, IInv, Synced
    <2> QED BY <2>1, <2>2, <2>3 DEF ShutdownOrderly, JoinedOnce
  <1> QED BY <1>1, Invariant, PTL

(* The process refuses no report unless a drain was cut or the runtime      *)
(* failed (EventRuntime::close after the ingress has ended).                *)
THEOREM RefusalCorrect == Spec => []RefusedOnlyWhenForced
  <1>1. IInv => RefusedOnlyWhenForced
    BY DEF IInv
  <1> QED BY <1>1, Invariant, PTL
=============================================================================

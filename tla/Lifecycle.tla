------------------------------ MODULE Lifecycle ------------------------------
(***************************************************************************)
(* The life of the process: the startup, the provider that submits events,  *)
(* the five engines of the event runtime and how each decides to stop, the  *)
(* supervisor that joins the four tasks of the process phase by phase, and   *)
(* crashes and restarts (src/lifecycle.rs, src/application.rs,               *)
(* src/runtime/pipeline.rs 217-905, src/providers/wolfx.rs).                 *)
(*                                                                           *)
(* The engines are here as stages an event passes through, each with the     *)
(* reads its stopping depends on; what a stage does to an event is in        *)
(* Incidents, Subscriptions, Delivery and Countdown.                         *)
(***************************************************************************)
EXTENDS Integers, FiniteSets

CONSTANTS
  Ingress,         (* the tasks that submit work: all but the runtime      *)
  Events,          (* the reports the provider has, each submitted once    *)
  NoEvent,         (* no submission is under way                           *)
  MaxSignals,      (* bound on the signals ever sent                       *)
  MaxFaults        (* bound on the tasks, engines and processes that fail  *)

ASSUME ConstantsAssumption ==
  /\ "wolfx" \in Ingress /\ "runtime" \notin Ingress
  /\ NoEvent \notin Events /\ Events \cap {"look", "none", "stopped"} = {}
  /\ MaxSignals \in Nat /\ MaxFaults \in Nat

VARIABLES
  phase,           (* where run_until_shutdown is                          *)
  task,            (* what a task's JoinHandle would say                   *)
  completed,       (* ManagedTask::completed                               *)
  joins,           (* observation: how often a handle gave its result      *)
  errors,          (* the kinds of the results that are Err                *)
  engine,          (* where the loop of each engine is                     *)
  closing,         (* closing                                              *)
  stopped,         (* event_stopped, match_stopped, delivery_stopped       *)
  told,            (* the countdown engine's receiver gets the close       *)
  hints,           (* match_ready: jobs that may have been done since      *)
  busy,            (* the events a delivery or retry task works on         *)
  submitting,      (* the event submit_provider_batch_inner has checked in *)
  stage,           (* durable: how far an event has come                   *)
  dirty,           (* the pipeline wrote since the last fsync              *)
  refused,         (* observation: events this process refused: closing    *)
  signals,         (* observation: signals sent                            *)
  faults           (* observation: failures                                *)

supervisor == <<phase, task, completed, joins, errors>>
runtime == <<engine, closing, stopped, told, hints, busy>>
provider == <<submitting, refused>>
vars == <<supervisor, runtime, provider, stage, dirty, signals, faults>>

-----------------------------------------------------------------------------
Tasks == Ingress \cup {"runtime"}    (* server, confirmations, wolfx        *)
Engines == {"event", "match", "delivery", "retry"}
Stages == {"new", "inbox", "job", "batch", "retry", "done"}

In(s) == {e \in Events : stage[e] = s}
Live(t) == task[t] = "live"
Works == Live("runtime") /\ phase # "down"
Draining == phase \in {"ingress", "pipeline"}
(* http_shutdown, provider_shutdown and confirmations.close() were sent.   *)
Asked == phase \notin {"running", "down"}

AllCompleted == completed = Tasks
IngressCompleted == Ingress \subseteq completed

(* What a process starts with, on whatever is durable: recover() pushes     *)
(* hints for match jobs, as many as the ready queue takes.                  *)
Started ==
  /\ phase' = "running"
  /\ task' = [t \in Tasks |-> "live"]
  /\ completed' = {} /\ joins' = [t \in Tasks |-> 0] /\ errors' = {}
  /\ engine' = [n \in Engines |-> "look"]
  /\ closing' = FALSE /\ stopped' = {} /\ told' = FALSE
  /\ hints' \in SUBSET In("job") /\ busy' = {}
  /\ submitting' = NoEvent /\ refused' = {}

Init ==
  /\ phase = "running"
  /\ task = [t \in Tasks |-> "live"]
  /\ completed = {} /\ joins = [t \in Tasks |-> 0] /\ errors = {}
  /\ engine = [n \in Engines |-> "look"]
  /\ closing = FALSE /\ stopped = {} /\ told = FALSE
  /\ hints = {} /\ busy = {}
  /\ submitting = NoEvent /\ refused = {}
  /\ stage = [e \in Events |-> "new"] /\ dirty = FALSE
  /\ signals = 0 /\ faults = 0

Write(e, s) == stage' = [stage EXCEPT ![e] = s] /\ dirty' = TRUE
Goto(n, pc) == engine' = [engine EXCEPT ![n] = pc]

-----------------------------------------------------------------------------
(* WolfxSource connects, loses the connection and connects again; while it *)
(* has one it submits one event after the other.                            *)
(* submit_provider_batch_inner reads closing ...                           *)
Submit(e) ==
  /\ Live("wolfx") /\ phase # "down" /\ submitting = NoEvent
  /\ stage[e] = "new"
  /\ IF closing
     THEN refused' = refused \cup {e} /\ UNCHANGED submitting
     ELSE submitting' = e /\ UNCHANGED refused
  /\ UNCHANGED <<supervisor, runtime, stage, dirty, signals, faults>>

(* ... and commits in a blocking task, which nothing cancels any more; a    *)
(* submission that fails costs the connection.                             *)
Ingest ==
  /\ submitting # NoEvent
  /\ Write(submitting, "inbox")
  /\ submitting' = NoEvent
  /\ UNCHANGED <<supervisor, runtime, refused, signals, faults>>

IngestFails ==
  /\ submitting # NoEvent /\ faults < MaxFaults
  /\ submitting' = NoEvent /\ faults' = faults + 1
  /\ UNCHANGED <<supervisor, runtime, refused, stage, dirty, signals>>

-----------------------------------------------------------------------------
(* run_event_coordinator: process_next, then the hint; a report that needs  *)
(* no match looks like an empty inbox, unless a hint of it led there, ...    *)
Unhinted == IF Asked THEN {"none"} ELSE {}

Coordinate(e) ==
  /\ Works /\ engine["event"] = "look" /\ stage[e] = "inbox"
  /\ \E s \in {"job", "done"} :        (* matched, or not worth a match    *)
       /\ Write(e, s)
       /\ \E pc \in IF s = "job" THEN {e} ELSE {"look"} \cup Unhinted : Goto("event", pc)
  /\ UNCHANGED <<supervisor, closing, stopped, told, hints, busy, provider, signals, faults>>

PushHint(e) ==
  /\ Works /\ engine["event"] = e
  /\ hints' \in {hints, hints \cup {e}}    (* try_push: there may be no room *)
  /\ Goto("event", "look")
  /\ UNCHANGED <<supervisor, closing, stopped, told, busy, provider, stage, dirty, signals, faults>>

(* ... or nothing to do, and only then a look at closing. Before a shutdown *)
(* begins that look only leads back, so that the step is left out there.    *)
FindNoInbox ==
  /\ Works /\ Asked /\ engine["event"] = "look" /\ In("inbox") = {}
  /\ Goto("event", "none")
  /\ UNCHANGED <<supervisor, closing, stopped, told, hints, busy, provider, stage, dirty, signals, faults>>

StopsWith(n, upstream, idle) ==
  /\ Works /\ engine[n] = "none"
  /\ IF closing /\ upstream \subseteq stopped /\ idle
     THEN Goto(n, "stopped") /\ stopped' = stopped \cup {n}
     ELSE Goto(n, "look") /\ UNCHANGED stopped
  /\ UNCHANGED <<supervisor, closing, told, hints, busy, provider, stage, dirty, signals, faults>>

StopCoordinator == StopsWith("event", {}, TRUE)

(* run_match_engine takes the job of a hint, or scans if there is no hint; *)
(* a hint whose job was done by a scan finds nothing, whatever else there is. *)
OnlyHinted(e) ==                       (* mutant: next_match_job left out  *)
  /\ Works /\ engine["match"] = "look" /\ e \in hints
  /\ hints' = hints \ {e}
  /\ IF stage[e] = "job"
     THEN (\E s \in {"batch", "done"} : Write(e, s)) /\ UNCHANGED engine
     ELSE Goto("match", "none") /\ UNCHANGED <<stage, dirty>>
  /\ UNCHANGED <<supervisor, closing, stopped, told, busy, provider, signals, faults>>

Match(e) ==
  /\ Works /\ engine["match"] = "look"
  /\ e \in hints \/ (hints = {} /\ stage[e] = "job")
  /\ hints' = hints \ {e}
  /\ IF stage[e] = "job"
     THEN (\E s \in {"batch", "done"} : Write(e, s)) /\ UNCHANGED engine
     ELSE Goto("match", "none") /\ UNCHANGED <<stage, dirty>>
  /\ UNCHANGED <<supervisor, closing, stopped, told, busy, provider, signals, faults>>

FindNoJob ==
  /\ Works /\ Asked /\ engine["match"] = "look" /\ hints = {} /\ In("job") = {}
  /\ Goto("match", "none")
  /\ UNCHANGED <<supervisor, closing, stopped, told, hints, busy, provider, stage, dirty, signals, faults>>

StopMatch == StopsWith("match", {"event"}, TRUE)

(* run_delivery_engine: a task for every pending batch ...                 *)
TakeBatch(e) ==
  /\ Works /\ engine["delivery"] = "look" /\ stage[e] = "batch" /\ e \notin busy
  /\ busy' = busy \cup {e}
  /\ UNCHANGED <<supervisor, engine, closing, stopped, told, hints, provider, stage, dirty, signals, faults>>

FindNoBatch ==
  /\ Works /\ Asked /\ engine["delivery"] = "look" /\ In("batch") \subseteq busy
  /\ Goto("delivery", "none")
  /\ UNCHANGED <<supervisor, closing, stopped, told, hints, busy, provider, stage, dirty, signals, faults>>

(* ... whose rows end delivered, or in a retry. A task that is aborted     *)
(* stays busy as long as its blocking commit may still land.               *)
Deliver(e) ==
  /\ e \in busy /\ stage[e] = "batch"
  /\ \E s \in {"retry", "done"} : Write(e, s)
  /\ busy' = busy \ {e}
  /\ UNCHANGED <<supervisor, engine, closing, stopped, told, hints, provider, signals, faults>>

StopsBusy == StopsWith("delivery", {"match"}, TRUE)   (* mutant: leaves attempts *)

StopDelivery == StopsWith("delivery", {"match"}, In("batch") \cap busy = {})

(* run_retry_engine.                                                       *)
RetryStops == closing /\ "delivery" \in stopped

TakeRetry(e) ==
  /\ Works /\ engine["retry"] = "look" /\ ~RetryStops
  /\ stage[e] = "retry" /\ e \notin busy
  /\ busy' = busy \cup {e}
  /\ UNCHANGED <<supervisor, engine, closing, stopped, told, hints, provider, stage, dirty, signals, faults>>

EndRetry(e) ==                         (* delivered, given up, or put off  *)
  /\ e \in busy /\ stage[e] = "retry"
  /\ \E s \in {"retry", "done"} : Write(e, s)
  /\ busy' = busy \ {e}
  /\ UNCHANGED <<supervisor, engine, closing, stopped, told, hints, provider, signals, faults>>

StopRetry ==
  /\ Works /\ engine["retry"] = "look" /\ RetryStops /\ In("retry") \cap busy = {}
  /\ Goto("retry", "stopped")
  /\ UNCHANGED <<supervisor, closing, stopped, told, hints, busy, provider, stage, dirty, signals, faults>>

-----------------------------------------------------------------------------
(* The tasks. The server, the confirmations and the provider end after     *)
(* they are asked to, if nothing they wait for hangs; each may fail.       *)
EndIngress(t) ==
  /\ Asked /\ Live(t) /\ t \in Ingress
  /\ t = "wolfx" => submitting = NoEvent
  /\ task' = [task EXCEPT ![t] = "ok"]
  /\ UNCHANGED <<phase, completed, joins, errors, runtime, provider, stage, dirty,
                 signals, faults>>

(* EventRuntime::run joined all: the countdown engine leaves its loop when  *)
(* told. It subscribes when it is first polled; a close before finds no      *)
(* receiver and is not kept, so that it is told of it or, rarely, never.     *)
EndRuntime ==
  /\ Works /\ told /\ \A n \in Engines : engine[n] = "stopped"
  /\ task' = [task EXCEPT !["runtime"] = "ok"]
  /\ UNCHANGED <<phase, completed, joins, errors, runtime, provider, stage, dirty,
                 signals, faults>>

Close ==
  /\ closing' = TRUE
  /\ IF closing THEN UNCHANGED told ELSE told' \in BOOLEAN

(* A worker of the runtime failed: close, abort_all; or a task panicked.   *)
FailTask(t) ==
  /\ phase # "down" /\ Live(t) /\ faults < MaxFaults
  /\ faults' = faults + 1
  /\ task' = [task EXCEPT ![t] = "err"]
  /\ IF t = "runtime" THEN Close /\ busy' \in SUBSET busy
                      ELSE UNCHANGED <<closing, told, busy>>
  /\ UNCHANGED <<phase, completed, joins, errors, engine, stopped, hints, provider,
                 stage, dirty, signals>>

-----------------------------------------------------------------------------
(* run_until_shutdown. Polling a handle that gave its result panics.       *)
Join(t) ==                             (* mark_completed                   *)
  /\ joins' = [joins EXCEPT ![t] = @ + 1]
  /\ completed' = completed \cup {t}

Ended(t) == task[t] \in {"ok", "err"}

Fails(kind, when) == errors' = IF when THEN errors \cup {kind} ELSE errors

Signal ==                              (* the first signal                 *)
  /\ phase = "running" /\ signals < MaxSignals
  /\ phase' = "ingress" /\ signals' = signals + 1
  /\ UNCHANGED <<task, completed, joins, errors, runtime, provider, stage, dirty, faults>>

NoticeEnd(t) ==                        (* unexpected_task_completion       *)
  /\ phase = "running" /\ Ended(t)
  /\ phase' = "ingress" /\ Join(t) /\ Fails("run", TRUE)
  /\ UNCHANGED <<task, runtime, provider, stage, dirty, signals, faults>>

Collect(t) ==                          (* collect_completion, in a drain   *)
  /\ Draining /\ t \notin completed /\ Ended(t)
  /\ IF phase = "ingress" THEN ~IngressCompleted ELSE ~AllCompleted
  /\ Join(t)
  /\ Fails("cleanup", task[t] = "err" \/ (phase = "ingress" /\ t = "runtime"))
  /\ UNCHANGED <<phase, task, runtime, provider, stage, dirty, signals, faults>>

SkipsProvider ==                       (* mutant: the provider is not waited for *)
  /\ phase = "ingress" /\ Ingress \ {"wolfx"} \subseteq completed
  /\ phase' = "pipeline" /\ Close
  /\ UNCHANGED <<task, completed, joins, errors, engine, stopped, hints, busy, provider,
                 stage, dirty, signals, faults>>

DrainedIngress ==
  /\ phase = "ingress" /\ IngressCompleted
  /\ phase' = "pipeline" /\ Close
  /\ UNCHANGED <<task, completed, joins, errors, engine, stopped, hints, busy, provider,
                 stage, dirty, signals, faults>>

DrainedPipeline ==
  /\ phase = "pipeline" /\ AllCompleted
  /\ phase' = "flush"
  /\ UNCHANGED <<task, completed, joins, errors, runtime, provider, stage, dirty,
                 signals, faults>>

(* A deadline or a second signal cuts the drain; the runtime is closed     *)
(* all the same, and gets a deadline of its own.                           *)
Cut ==
  /\ \/ phase = "ingress" /\ ~IngressCompleted /\ phase' = "pipeline" /\ Close
     \/ phase = "pipeline" /\ ~AllCompleted /\ phase' = "reap" /\ UNCHANGED <<closing, told>>
  /\ UNCHANGED <<task, completed, joins, engine, stopped, hints, busy, provider, stage, dirty, faults>>

Kind == IF phase = "flush" THEN "flush" ELSE "cleanup"

Expired == Fails(Kind, TRUE) /\ UNCHANGED signals

SignalledAgain == Fails(Kind, TRUE) /\ signals < MaxSignals /\ signals' = signals + 1

CutsIngressOnly == phase = "ingress" /\ Cut /\ Expired   (* mutant: one deadline *)

Expire == Cut /\ Expired

SignalAgain == Cut /\ SignalledAgain

(* abort_and_reap, under a timeout of its own: if a task does not come to   *)
(* an await in that time, the results of those aborted are not taken.       *)
Reap ==
  /\ phase = "reap"
  /\ phase' = "flush" /\ completed' = Tasks
  /\ task' = [t \in Tasks |-> IF Live(t) THEN "aborted" ELSE task[t]]
  /\ \E left \in {{}, {t \in Tasks : Live(t)}} :
       /\ joins' = [t \in Tasks |-> joins[t] + (IF t \in completed \cup left THEN 0 ELSE 1)]
       /\ Fails("reap", left # {})
  /\ busy' \in SUBSET busy
  /\ UNCHANGED <<engine, closing, stopped, told, hints, submitting, refused, stage,
                 dirty, signals, faults>>

(* flush_storage: persisted, or cut by its deadline or another signal.     *)
Flush ==
  /\ phase = "flush" /\ phase' = "down"
  /\ dirty' = FALSE
  /\ UNCHANGED <<task, completed, joins, errors, runtime, provider, stage, signals, faults>>

CutFlush ==
  /\ phase = "flush" /\ phase' = "down"
  /\ Expired \/ SignalledAgain
  /\ UNCHANGED <<task, completed, joins, runtime, provider, stage, dirty, faults>>

(* The process is killed; it starts again on what is durable.              *)
Crash ==
  /\ phase # "down" /\ faults < MaxFaults /\ faults' = faults + 1
  /\ phase' = "down" /\ errors' = {"crash"}
  /\ task' = [t \in Tasks |-> "aborted"] /\ completed' = {}
  /\ joins' = [t \in Tasks |-> 0]
  /\ engine' = [n \in Engines |-> "look"] /\ closing' = FALSE /\ stopped' = {} /\ told' = FALSE
  /\ hints' = {} /\ busy' = {} /\ submitting' = NoEvent /\ refused' = {}
  /\ UNCHANGED <<stage, dirty, signals>>

Restart ==
  /\ phase = "down" /\ Started
  /\ UNCHANGED <<stage, dirty, signals, faults>>

-----------------------------------------------------------------------------
CoordinatorStep == FindNoInbox \/ StopCoordinator \/ \E e \in Events : Coordinate(e) \/ PushHint(e)
MatchStep == FindNoJob \/ StopMatch \/ \E e \in Events : Match(e)
DeliveryStep == FindNoBatch \/ StopDelivery \/ \E e \in Events : TakeBatch(e)
SupervisorStep ==
  \/ \E t \in Tasks : NoticeEnd(t) \/ Collect(t)
  \/ DrainedIngress \/ DrainedPipeline \/ Expire \/ Reap \/ Flush \/ CutFlush

Next ==
  \/ Ingest \/ IngestFails \/ \E e \in Events : Submit(e)
  \/ CoordinatorStep \/ MatchStep \/ DeliveryStep \/ StopRetry
  \/ \E e \in Events : Deliver(e) \/ TakeRetry(e) \/ EndRetry(e)
  \/ EndRuntime \/ \E t \in Tasks : EndIngress(t) \/ FailTask(t)
  \/ SupervisorStep \/ Signal \/ SignalAgain \/ Crash \/ Restart

(* The engines scan every SCAN_INTERVAL, the deadlines expire, an attempt   *)
(* ends, a retry is given up after MAX_RETRY_ATTEMPTS or MAX_RETRY_AGE_MS,   *)
(* and a process that ended is started again (compose.yaml: restart). No     *)
(* task has to end when it is asked to.                                      *)
RetryIsOver(e) == EndRetry(e) /\ stage'[e] = "done"

Fairness ==
  /\ WF_vars(CoordinatorStep) /\ WF_vars(MatchStep) /\ WF_vars(DeliveryStep)
  /\ WF_vars(SupervisorStep) /\ WF_vars(Restart)
  /\ \A e \in Events :
       WF_vars(Deliver(e)) /\ WF_vars(TakeRetry(e)) /\ WF_vars(EndRetry(e)) /\ SF_vars(RetryIsOver(e))

Spec == Init /\ [][Next]_vars
FairSpec == Spec /\ Fairness

-----------------------------------------------------------------------------
(* The result of every task is taken exactly once: never a second poll of  *)
(* a handle that gave its result, and none forgotten by a process that     *)
(* goes down by itself and could reap them all (lifecycle.rs 61-86, 294-309). *)
JoinedOnce ==
  /\ \A t \in Tasks : joins[t] <= 1
  /\ phase = "down" /\ errors \cap {"crash", "reap"} = {} => \A t \in Tasks : joins[t] = 1

(* A process that exits without an error has stopped in order: every task   *)
(* ended by itself, no submission and no attempt was in flight, and what was *)
(* written is on disk (lifecycle.rs 279-325, pipeline.rs 389-562). What the   *)
(* engines had not seen when they stopped waits there for the next process.   *)
CleanExit ==
  phase = "down" /\ errors = {} =>
    /\ \A t \in Tasks : task[t] = "ok"
    /\ submitting = NoEvent /\ busy = {}
    /\ ~dirty

(* The process goes down in order.                                          *)
ShutdownOrderly == JoinedOnce /\ CleanExit

(* The runtime closes after everything that submits to it has ended: a       *)
(* process that refuses a report has had a drain cut short or its runtime     *)
(* fail (lifecycle.rs 284-288, pipeline.rs 244-246).                         *)
RefusedOnlyWhenForced ==
  refused # {} => "cleanup" \in errors \/ task["runtime"] = "err"

(* Whatever hangs, a shutdown ends (lifecycle.rs 328-439, 482-512).         *)
ShutdownEnds == Draining ~> (phase = "down")

(* An accepted report is carried to its end by this process or the next,     *)
(* though the ready queue loses hints and engines stop, fail and are killed   *)
(* anywhere (pipeline.rs 316-329, 389-562, 781-840).                         *)
EveryEventHandled == \A e \in Events : stage[e] = "inbox" ~> stage[e] = "done"
=============================================================================

----------------------------- MODULE Countdown -----------------------------
(***************************************************************************)
(* The countdown engine: after an earthquake warning was pushed, a push    *)
(* per second replaces it until the S wave arrives                         *)
(* (src/runtime/pipeline.rs).                                              *)
(*                                                                         *)
(* A delivery of a warning calls off the countdown of its key, pushes, and *)
(* schedules a new countdown, all under the lock of the destination; the   *)
(* two commands go through a bounded channel to the engine, which runs one *)
(* task per key.  The countdown of a delivery has the delivery's number.   *)
(* The clock is a choice: when a delay elapses, and when a wave arrives.   *)
(***************************************************************************)
EXTENDS Integers, Sequences

CONSTANTS
  Destinations,    (* Bark destinations                                    *)
  Targets,         (* incidents and target ordinals of a destination       *)
  Capacity,        (* COUNTDOWN_COMMAND_CAPACITY                           *)
  MaxDeliveries,   (* bound on the deliveries of warnings                  *)
  MaxGenerations   (* bound on the changes of a subscription               *)

ASSUME ConstantsAssumption ==
  /\ Capacity \in Nat \ {0}
  /\ MaxDeliveries \in Nat
  /\ MaxGenerations \in Nat

VARIABLES
  phase,       (* phase[d]: where the delivery to d stands                 *)
  current,     (* current[d]: its number, or 0                             *)
  made,        (* deliveries begun                                         *)
  key,         (* key[n]: destination and target of delivery n             *)
  issued,      (* issued[n]: the generation of the subscription it is for  *)
  channel,     (* the commands to the engine                               *)
  engine,      (* "running", "stopping", "ended"                           *)
  active,      (* active[k]: the countdown the engine knows for k, or 0    *)
  task,        (* task[n]: where the countdown of delivery n stands        *)
  cancelled,   (* cancelled[n]: its cancel watch was set                   *)
  seen,        (* seen[n]: it computed its tick after the arrival          *)
  lock,        (* lock[d]: "free", "delivery" or a countdown               *)
  shutdown,    (* countdown_shutdown                                       *)
  generation,  (* generation[d]: of the subscription; it changes only      *)
  arrived,     (* arrived[n]: the S wave of delivery n has arrived         *)
  (* Observation.                                                          *)
  pushed,      (* pushed[k]: the last delivery pushed for k, or 0          *)
  late         (* late[n]: ticks begun after the countdown was called off  *)

deliveryVars == <<phase, current, made, key, issued>>
engineVars == <<engine, active>>
taskVars == <<task, seen>>
world == <<shutdown, generation, arrived>>
vars == <<deliveryVars, channel, engineVars, taskVars, cancelled, lock, world, pushed, late>>

Numbers == 1 .. MaxDeliveries
Keys == Destinations \X Targets
Dest(n) == key[n][1]

Phases == {"idle", "cancelling", "pushing", "scheduling"}
Running == {"new", "waiting", "checking", "locking", "ticking"}
TaskPhases == {"none", "ended", "joined"} \cup Running

Cancel(k) == [op |-> "cancel", key |-> k, number |-> 0]
Schedule(n) == [op |-> "schedule", key |-> key[n], number |-> n]
Commands == [op : {"cancel", "schedule"}, key : Keys, number : 0 .. MaxDeliveries]

(* Every variable keeps its type, and the channel its capacity.            *)
TypeOK ==
  /\ phase \in [Destinations -> Phases]
  /\ current \in [Destinations -> 0 .. MaxDeliveries]
  /\ made \in 0 .. MaxDeliveries
  /\ key \in [Numbers -> Keys]
  /\ issued \in [Numbers -> 0 .. MaxGenerations]
  /\ channel \in Seq(Commands) /\ Len(channel) <= Capacity
  /\ engine \in {"running", "stopping", "ended"}
  /\ active \in [Keys -> 0 .. MaxDeliveries]
  /\ task \in [Numbers -> TaskPhases]
  /\ cancelled \in [Numbers -> BOOLEAN]
  /\ seen \in [Numbers -> BOOLEAN]
  /\ lock \in [Destinations -> {"free", "delivery", "countdown"}]
  /\ shutdown \in BOOLEAN
  /\ generation \in [Destinations -> 0 .. MaxGenerations]
  /\ arrived \in [Numbers -> BOOLEAN]
  /\ pushed \in [Keys -> 0 .. MaxDeliveries]
  /\ late \in [Numbers -> Nat]

Init ==
  /\ phase = [d \in Destinations |-> "idle"]
  /\ current = [d \in Destinations |-> 0]
  /\ made = 0
  /\ key \in [Numbers -> Keys]
  /\ issued = [n \in Numbers |-> 0]
  /\ channel = <<>>
  /\ engine = "running"
  /\ active = [k \in Keys |-> 0]
  /\ task = [n \in Numbers |-> "none"]
  /\ cancelled = [n \in Numbers |-> FALSE]
  /\ seen = [n \in Numbers |-> FALSE]
  /\ lock = [d \in Destinations |-> "free"]
  /\ shutdown = FALSE
  /\ generation = [d \in Destinations |-> 0]
  /\ arrived = [n \in Numbers |-> FALSE]
  /\ pushed = [k \in Keys |-> 0]
  /\ late = [n \in Numbers |-> 0]

-----------------------------------------------------------------------------
(* A delivery of a warning: deliver_row_locked under destination_lock *)

BeginDelivery(d) ==
  LET n == made + 1 IN
  /\ n \in Numbers
  /\ Dest(n) = d
  /\ lock[d] = "free"
  /\ made' = n
  /\ lock' = [lock EXCEPT ![d] = "delivery"]
  /\ current' = [current EXCEPT ![d] = n]
  /\ issued' = [issued EXCEPT ![n] = generation[d]]
  /\ phase' = [phase EXCEPT ![d] = "cancelling"]
  /\ UNCHANGED <<key, channel, engineVars, taskVars, cancelled, world, pushed, late>>

HasRoom == Len(channel) < Capacity

NeverClosed == FALSE                                        (* mutant *)

(* The engine has returned and dropped the receiver: commands are lost.    *)
IsClosed == engine = "ended"

(* mutant: a full channel drops the command                                *)
TrySend(command) == channel' = IF HasRoom THEN Append(channel, command) ELSE channel

(* queue_countdown_command waits for room.                                 *)
Queue(command) ==
  \/ IsClosed /\ UNCHANGED channel
  \/ ~IsClosed /\ HasRoom /\ channel' = Append(channel, command)

QueueCancel(d) ==
  /\ phase[d] = "cancelling"
  /\ Queue(Cancel(key[current[d]]))
  /\ phase' = [phase EXCEPT ![d] = "pushing"]
  /\ UNCHANGED <<current, made, key, issued, engineVars, taskVars, cancelled, lock, world,
                 pushed, late>>

EndDelivery(d) ==
  /\ phase' = [phase EXCEPT ![d] = "idle"]
  /\ current' = [current EXCEPT ![d] = 0]
  /\ lock' = [lock EXCEPT ![d] = "free"]

PushSucceeds(d) ==
  LET n == current[d] IN
  /\ phase[d] = "pushing"
  /\ pushed' = [pushed EXCEPT ![key[n]] = n]
  /\ \/ /\ ~arrived[n]
        /\ phase' = [phase EXCEPT ![d] = "scheduling"]
        /\ UNCHANGED <<current, lock>>
     \/ EndDelivery(d)    (* a cancellation, or nothing left to count down *)
  /\ UNCHANGED <<made, key, issued, channel, engineVars, taskVars, cancelled, world, late>>

PushFails(d) ==
  /\ phase[d] = "pushing"
  /\ EndDelivery(d)
  /\ UNCHANGED <<made, key, issued, channel, engineVars, taskVars, cancelled, world,
                 pushed, late>>

QueueSchedule(d) ==
  /\ phase[d] = "scheduling"
  /\ Queue(Schedule(current[d]))
  /\ EndDelivery(d)
  /\ UNCHANGED <<made, key, issued, engineVars, taskVars, cancelled, world, pushed, late>>

-----------------------------------------------------------------------------
(* run_countdown_engine *)

(* Sets the cancel watch of the countdown known for k.                     *)
CancelCurrent(k) ==
  cancelled' = IF active[k] = 0 THEN cancelled ELSE [cancelled EXCEPT ![active[k]] = TRUE]

HandleSchedule ==
  LET command == Head(channel)
      k == command.key
      n == command.number IN
  /\ engine = "running"
  /\ channel # <<>>
  /\ command.op = "schedule"
  /\ CancelCurrent(k)
  /\ active' = [active EXCEPT ![k] = n]
  /\ task' = [task EXCEPT ![n] = "new"]
  /\ channel' = Tail(channel)
  /\ UNCHANGED <<deliveryVars, engine, seen, lock, world, pushed, late>>

HandleCancel ==
  LET k == Head(channel).key IN
  /\ engine = "running"
  /\ channel # <<>>
  /\ Head(channel).op = "cancel"
  /\ CancelCurrent(k)
  /\ active' = [active EXCEPT ![k] = 0]
  /\ channel' = Tail(channel)
  /\ UNCHANGED <<deliveryVars, engine, taskVars, lock, world, pushed, late>>

AfterAny(n) == [active EXCEPT ![key[n]] = 0]                (* mutant *)

(* The countdowns known after that of n was joined: a newer one stays.     *)
ActiveAfter(n) ==
  IF active[key[n]] = n THEN [active EXCEPT ![key[n]] = 0] ELSE active

Join(n) ==
  /\ engine # "ended"
  /\ task[n] = "ended"
  /\ task' = [task EXCEPT ![n] = "joined"]
  /\ active' = IF engine = "running" THEN ActiveAfter(n) ELSE active
  /\ UNCHANGED <<deliveryVars, channel, engine, seen, cancelled, lock, world, pushed, late>>

(* The engine sees the shutdown and cancels what it knows.                 *)
StopEngine ==
  /\ engine = "running"
  /\ shutdown
  /\ engine' = "stopping"
  /\ cancelled' = [n \in Numbers |-> cancelled[n] \/ \E k \in Keys : active[k] = n]
  /\ active' = [k \in Keys |-> 0]
  /\ UNCHANGED <<deliveryVars, channel, taskVars, lock, world, pushed, late>>

(* All tasks are joined; the engine returns and the receiver is dropped.   *)
EndEngine ==
  /\ engine = "stopping"
  /\ \A n \in Numbers : task[n] \in {"none", "joined"}
  /\ engine' = "ended"
  /\ channel' = <<>>
  /\ UNCHANGED <<deliveryVars, active, taskVars, cancelled, lock, world, pushed, late>>

-----------------------------------------------------------------------------
(* run_earthquake_countdown *)

(* What the two watches tell a countdown.                                  *)
IsStopped(n) == cancelled[n] \/ shutdown

(* The next turn of the loop: the arrival is looked at before the watches. *)
Wait(n) ==
  /\ task' = [task EXCEPT ![n] = IF IsStopped(n) THEN "ended" ELSE "waiting"]
  /\ seen' = [seen EXCEPT ![n] = arrived[n]]

End(n) ==
  /\ task' = [task EXCEPT ![n] = "ended"]
  /\ UNCHANGED seen

Start(n) ==
  /\ task[n] = "new"
  /\ IF arrived[n] THEN End(n) ELSE Wait(n)
  /\ UNCHANGED <<deliveryVars, channel, engineVars, cancelled, lock, world, pushed, late>>

(* The delay elapses, maybe just when a watch is set.                      *)
Elapse(n) ==
  /\ task[n] = "waiting"
  /\ task' = [task EXCEPT ![n] = "checking"]
  /\ UNCHANGED <<deliveryVars, channel, engineVars, seen, cancelled, lock, world, pushed, late>>

IsCurrent(n) == generation[Dest(n)] = issued[n]

(* countdown_subscription_is_current, and the look at the watches that     *)
(* starts send_countdown_tick.  An error of the store ends the countdown.  *)
Check(n) ==
  /\ task[n] = "checking"
  /\ \/ /\ IsCurrent(n) /\ ~IsStopped(n)
        /\ task' = [task EXCEPT ![n] = "locking"]
     \/ task' = [task EXCEPT ![n] = "ended"]
  /\ UNCHANGED <<deliveryVars, channel, engineVars, seen, cancelled, lock, world, pushed, late>>

IsCalledOff(n) == IsStopped(n) \/ arrived[n] \/ ~IsCurrent(n)

(* The lock may be had just when a watch is set.                           *)
BeginTick(n) ==
  /\ task[n] = "locking"
  /\ lock[Dest(n)] = "free"
  /\ lock' = [lock EXCEPT ![Dest(n)] = "countdown"]
  /\ task' = [task EXCEPT ![n] = "ticking"]
  /\ late' = [late EXCEPT ![n] = IF IsCalledOff(n) THEN @ + 1 ELSE @]
  /\ UNCHANGED <<deliveryVars, channel, engineVars, seen, cancelled, world, pushed>>

NeverLast(n) == FALSE                                       (* mutant *)

WasLast(n) == seen[n] \/ arrived[n]

EndTick(n) ==
  /\ task[n] = "ticking"
  /\ lock' = [lock EXCEPT ![Dest(n)] = "free"]
  /\ IF WasLast(n) THEN End(n) ELSE Wait(n)
  /\ UNCHANGED <<deliveryVars, channel, engineVars, cancelled, world, pushed, late>>

(* A watch is set while the countdown waits for its delay, for the lock or *)
(* for Bark, which may have shown the tick or not.                         *)
Stop(n) ==
  /\ IsStopped(n)
  /\ task[n] \in {"waiting", "locking", "ticking"}
  /\ lock' = IF task[n] = "ticking" THEN [lock EXCEPT ![Dest(n)] = "free"] ELSE lock
  /\ End(n)
  /\ UNCHANGED <<deliveryVars, channel, engineVars, cancelled, world, pushed, late>>

-----------------------------------------------------------------------------
(* The world *)

Arrive(n) ==
  /\ ~arrived[n]
  /\ n <= made
  /\ arrived' = [arrived EXCEPT ![n] = TRUE]
  /\ UNCHANGED <<deliveryVars, channel, engineVars, taskVars, cancelled, lock, shutdown,
                 generation, pushed, late>>

ChangeSubscription(d) ==
  /\ generation[d] < MaxGenerations
  /\ generation' = [generation EXCEPT ![d] = @ + 1]
  /\ UNCHANGED <<deliveryVars, channel, engineVars, taskVars, cancelled, lock, shutdown,
                 arrived, pushed, late>>

(* EventRuntime::close; deliveries still run until the work is done.       *)
Close ==
  /\ ~shutdown
  /\ shutdown' = TRUE
  /\ UNCHANGED <<deliveryVars, channel, engineVars, taskVars, cancelled, lock, generation,
                 arrived, pushed, late>>

DeliveryStep(d) == QueueCancel(d) \/ PushSucceeds(d) \/ PushFails(d) \/ QueueSchedule(d)

EngineStep == HandleSchedule \/ HandleCancel \/ StopEngine \/ EndEngine

CountdownStep(n) == Start(n) \/ Elapse(n) \/ Check(n) \/ BeginTick(n) \/ EndTick(n) \/ Stop(n)

Next ==
  \/ \E d \in Destinations : BeginDelivery(d) \/ DeliveryStep(d) \/ ChangeSubscription(d)
  \/ EngineStep
  \/ \E n \in Numbers : Join(n) \/ CountdownStep(n) \/ Arrive(n)
  \/ Close

Spec == Init /\ [][Next]_vars

(* The engine, deliveries and countdowns are tasks that the runtime        *)
(* schedules; the lock is granted in order, so that a countdown waiting    *)
(* for it again and again gets it; waves arrive.                           *)
Fairness ==
  /\ \A d \in Destinations : WF_vars(DeliveryStep(d))
  /\ WF_vars(EngineStep)
  /\ \A n \in Numbers :
       /\ WF_vars(Join(n))
       /\ WF_vars(CountdownStep(n))
       /\ SF_vars(BeginTick(n))
       /\ WF_vars(Arrive(n))

FairSpec == Spec /\ Fairness

-----------------------------------------------------------------------------
(* Properties *)

(* A countdown that runs and was not cancelled is the one the engine knows *)
(* for its key, so that a command finds it and no two of a key go on.      *)
RunningIsKnown ==
  \A n \in Numbers :
    task[n] \in Running /\ ~cancelled[n] => engine = "running" /\ active[key[n]] = n

CancelIsQueued(k) == \E i \in 1 .. Len(channel) : channel[i] = Cancel(k)

(* Once a newer alert of its key was pushed, a countdown is cancelled, or  *)
(* its cancellation is on the way: it never counts on beside the alert.    *)
OutdatedIsCalledOff ==
  \A n \in Numbers :
    task[n] \in Running /\ n < pushed[key[n]] => cancelled[n] \/ CancelIsQueued(key[n])

(* A countdown begins at most one more tick once it is called off: by a    *)
(* newer delivery, the arrival, a subscription change or the shutdown.     *)
LateTicksBounded == \A n \in Numbers : late[n] <= 1

(* Every countdown ends and every delivery gets through, whether the       *)
(* channel is full, the lock is taken or the engine has stopped.           *)
EverythingEnds ==
  /\ \A n \in Numbers : task[n] \in Running ~> task[n] \notin Running
  /\ \A d \in Destinations : phase[d] # "idle" ~> phase[d] = "idle"
=============================================================================

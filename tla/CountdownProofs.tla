---------------------------- MODULE CountdownProofs ----------------------------
(***************************************************************************)
(* Proofs about Countdown: its invariants for any number of destinations,  *)
(* targets and deliveries and any capacity of the channel.                 *)
(***************************************************************************)
EXTENDS Countdown, TLAPS

USE ConstantsAssumption

-----------------------------------------------------------------------------
(* The inductive invariant *)

IsSchedule(i) == i \in 1 .. Len(channel) /\ channel[i].op = "schedule"

(* A delivery in progress is for its destination and has no countdown yet; *)
(* nothing later was pushed there.                                         *)
CurrentExact ==
  \A d \in Destinations :
    /\ phase[d] # "idle" =>
         /\ current[d] \in 1 .. made
         /\ Dest(current[d]) = d
         /\ task[current[d]] = "none"
         /\ \A k \in Keys : k[1] = d => pushed[k] <= current[d]
    /\ phase[d] = "idle" => current[d] = 0

(* A countdown is scheduled once, after its delivery.                      *)
ChannelExact ==
  /\ \A i \in 1 .. Len(channel) : IsSchedule(i) =>
       /\ channel[i].number \in 1 .. made
       /\ channel[i].key = key[channel[i].number]
       /\ task[channel[i].number] = "none"
       /\ \A d \in Destinations : current[d] # channel[i].number
  /\ \A i, j \in 1 .. Len(channel) :
       IsSchedule(i) /\ IsSchedule(j) /\ channel[i].number = channel[j].number => i = j
  /\ \A i \in 1 .. Len(channel) : channel[i].op = "cancel" => channel[i] = Cancel(channel[i].key)
  /\ engine = "ended" => channel = <<>> /\ \A n \in Numbers : task[n] \notin Running

(* Numbers not given out are unused.                                       *)
Fresh ==
  /\ \A n \in Numbers : n > made => task[n] = "none"
  /\ \A n \in Numbers : task[n] = "none" => late[n] = 0
  /\ \A k \in Keys : pushed[k] <= made
  /\ \A n \in Numbers : issued[n] <= generation[Dest(n)]

(* A countdown that made its late tick makes no other.                     *)
LateExact ==
  \A n \in Numbers :
    /\ late[n] <= 1
    /\ late[n] = 1 =>
         \/ task[n] \in {"ended", "joined"}
         \/ task[n] = "ticking" /\ IsCalledOff(n)
         \/ task[n] \in {"waiting", "checking"} /\ ~IsCurrent(n)

(* A newer delivery for the key of n was pushed or is about to be.         *)
Outdated(n) ==
  \/ n < pushed[key[n]]
  \/ \E d \in Destinations :
       /\ phase[d] \in {"pushing", "scheduling"}
       /\ current[d] # n
       /\ key[current[d]] = key[n]

(* An outdated countdown is called off, whether it runs or is queued.      *)
OutdatedExact ==
  \A n \in Numbers : Outdated(n) =>
    /\ task[n] \in Running /\ ~cancelled[n] => CancelIsQueued(key[n])
    /\ \A i \in 1 .. Len(channel) : IsSchedule(i) /\ channel[i].number = n =>
         \E j \in i + 1 .. Len(channel) : channel[j] = Cancel(key[n])

IInv ==
  /\ TypeOK
  /\ RunningIsKnown
  /\ CurrentExact
  /\ ChannelExact
  /\ Fresh
  /\ LateExact
  /\ OutdatedExact

-----------------------------------------------------------------------------
(* Types *)

LEMMA PhaseTypes ==
  /\ "idle" \in Phases /\ "cancelling" \in Phases /\ "pushing" \in Phases
  /\ "scheduling" \in Phases
BY DEF Phases

LEMMA TaskPhaseTypes ==
  /\ "new" \in TaskPhases /\ "waiting" \in TaskPhases /\ "checking" \in TaskPhases
  /\ "locking" \in TaskPhases /\ "ticking" \in TaskPhases /\ "ended" \in TaskPhases
  /\ "joined" \in TaskPhases /\ "none" \in TaskPhases
BY DEF TaskPhases, Running

LEMMA CommandTypes ==
  ASSUME TypeOK
  PROVE  /\ \A k \in Keys : Cancel(k) \in Commands
         /\ \A n \in Numbers : Schedule(n) \in Commands
         /\ \A n \in Numbers : Dest(n) \in Destinations
         /\ \A i \in 1 .. Len(channel) : channel[i] \in Commands
<1>1. \A k \in Keys : Cancel(k) \in Commands
  BY DEF Cancel, Commands
<1>2. \A n \in Numbers : Schedule(n) \in Commands
  BY DEF TypeOK, Schedule, Commands, Numbers
<1>3. \A n \in Numbers : Dest(n) \in Destinations
  BY DEF TypeOK, Keys, Dest
<1>4. \A i \in 1 .. Len(channel) : channel[i] \in Commands
  BY DEF TypeOK
<1> QED
  BY <1>1, <1>2, <1>3, <1>4

LEMMA TaskType ==
  ASSUME TypeOK, NEW n, NEW p \in TaskPhases, task' = [task EXCEPT ![n] = p]
  PROVE  task' \in [Numbers -> TaskPhases]
BY DEF TypeOK

LEMMA WaitType ==
  ASSUME TypeOK, NEW n \in Numbers, Wait(n) \/ End(n)
  PROVE  task' \in [Numbers -> TaskPhases] /\ seen' \in [Numbers -> BOOLEAN]
<1>1. CASE Wait(n)
  BY <1>1, TaskPhaseTypes DEF Wait, TypeOK
<1>2. CASE End(n)
  BY <1>2, TaskPhaseTypes DEF End, TypeOK
<1> QED
  BY <1>1, <1>2

(* The effect of a command on the channel.                                 *)
LEMMA QueueType ==
  ASSUME TypeOK, NEW c \in Commands, Queue(c)
  PROVE  channel' \in Seq(Commands) /\ Len(channel') <= Capacity
<1>1. CASE channel' = channel
  BY <1>1 DEF TypeOK
<1>2. CASE HasRoom /\ channel' = Append(channel, c)
  <2>1. channel' \in Seq(Commands) /\ Len(channel') = Len(channel) + 1
    BY <1>2 DEF TypeOK
  <2> QED
    BY <1>2, <2>1 DEF HasRoom, TypeOK
<1> QED
  BY <1>1, <1>2 DEF Queue

LEMMA EndDeliveryType ==
  ASSUME TypeOK, NEW d \in Destinations, EndDelivery(d)
  PROVE  /\ phase' \in [Destinations -> Phases]
         /\ current' \in [Destinations -> 0 .. MaxDeliveries]
         /\ lock' \in [Destinations -> {"free", "delivery", "countdown"}]
BY PhaseTypes DEF EndDelivery, TypeOK

LEMMA TypeInit == Init => TypeOK
<1> SUFFICES ASSUME Init PROVE TypeOK
  OBVIOUS
<1>1. channel \in Seq(Commands) /\ Len(channel) <= Capacity
  BY DEF Init
<1>2. /\ phase \in [Destinations -> Phases]
      /\ task \in [Numbers -> TaskPhases]
  BY PhaseTypes, TaskPhaseTypes DEF Init
<1>3. /\ key \in [Numbers -> Keys] /\ made \in 0 .. MaxDeliveries
      /\ issued \in [Numbers -> 0 .. MaxGenerations]
      /\ active \in [Keys -> 0 .. MaxDeliveries]
      /\ generation \in [Destinations -> 0 .. MaxGenerations]
  BY DEF Init
<1> QED
  BY <1>1, <1>2, <1>3 DEF Init, TypeOK

LEMMA TypeStep ==
  ASSUME TypeOK, ChannelExact, CurrentExact, [Next]_vars
  PROVE  TypeOK'
<1> USE DEF deliveryVars, engineVars, taskVars, world
<1>1. ASSUME NEW d \in Destinations, BeginDelivery(d)
      PROVE  TypeOK'
  <2>1. made + 1 \in 0 .. MaxDeliveries /\ generation[d] \in 0 .. MaxGenerations
    BY <1>1 DEF BeginDelivery, TypeOK, Numbers
  <2>2. /\ made' \in 0 .. MaxDeliveries
        /\ current' \in [Destinations -> 0 .. MaxDeliveries]
        /\ issued' \in [Numbers -> 0 .. MaxGenerations]
        /\ phase' \in [Destinations -> Phases]
    BY <1>1, <2>1, PhaseTypes DEF BeginDelivery, TypeOK
  <2> QED
    BY <1>1, <2>2 DEF BeginDelivery, TypeOK
<1>2. ASSUME NEW d \in Destinations, QueueCancel(d)
      PROVE  TypeOK'
  <2>1. Cancel(key[current[d]]) \in Commands
    <3>1. current[d] \in Numbers
      BY <1>2 DEF QueueCancel, CurrentExact, TypeOK, Numbers
    <3> QED
      BY <3>1, CommandTypes DEF TypeOK
  <2>2. channel' \in Seq(Commands) /\ Len(channel') <= Capacity
    BY <1>2, <2>1, QueueType DEF QueueCancel
  <2> QED
    BY <1>2, <2>2, PhaseTypes DEF QueueCancel, TypeOK
<1>3. ASSUME NEW d \in Destinations, PushSucceeds(d)
      PROVE  TypeOK'
  <2>1. /\ phase' \in [Destinations -> Phases]
        /\ current' \in [Destinations -> 0 .. MaxDeliveries]
        /\ lock' \in [Destinations -> {"free", "delivery", "countdown"}]
    BY <1>3, EndDeliveryType, PhaseTypes DEF PushSucceeds, TypeOK
  <2>2. pushed' \in [Keys -> 0 .. MaxDeliveries]
    BY <1>3 DEF PushSucceeds, TypeOK
  <2> QED
    BY <1>3, <2>1, <2>2 DEF PushSucceeds, TypeOK
<1>4. ASSUME NEW d \in Destinations, PushFails(d)
      PROVE  TypeOK'
  BY <1>4, EndDeliveryType DEF PushFails, TypeOK
<1>5. ASSUME NEW d \in Destinations, QueueSchedule(d)
      PROVE  TypeOK'
  <2>1. Schedule(current[d]) \in Commands
    <3>1. current[d] \in Numbers
      BY <1>5 DEF QueueSchedule, CurrentExact, TypeOK, Numbers
    <3> QED
      BY <3>1, CommandTypes
  <2>2. channel' \in Seq(Commands) /\ Len(channel') <= Capacity
    BY <1>5, <2>1, QueueType DEF QueueSchedule
  <2> QED
    BY <1>5, <2>2, EndDeliveryType DEF QueueSchedule, TypeOK
<1>6. CASE HandleSchedule \/ HandleCancel
  <2>1. channel # <<>> /\ channel' = Tail(channel)
    BY <1>6 DEF HandleSchedule, HandleCancel
  <2>2. /\ channel' \in Seq(Commands) /\ Len(channel') <= Capacity
        /\ Head(channel) = channel[1] /\ 1 \in 1 .. Len(channel)
    BY <2>1 DEF TypeOK
  <2>3. Head(channel).key \in Keys
    BY <2>2, CommandTypes DEF Commands
  <2>4. HandleSchedule => Head(channel).number \in Numbers
    BY <2>2 DEF HandleSchedule, ChannelExact, IsSchedule, Numbers, TypeOK
  <2>5. cancelled' \in [Numbers -> BOOLEAN]
    BY <1>6 DEF HandleSchedule, HandleCancel, CancelCurrent, TypeOK
  <2>6. task' \in [Numbers -> TaskPhases]
    BY <1>6, TaskType, TaskPhaseTypes DEF HandleSchedule, HandleCancel, TypeOK
  <2>7. active' \in [Keys -> 0 .. MaxDeliveries]
    <3>1. \A n \in Numbers : n \in 0 .. MaxDeliveries
      BY DEF Numbers
    <3> QED
      BY <1>6, <2>4, <3>1 DEF HandleSchedule, HandleCancel, TypeOK
  <2> QED
    BY <1>6, <2>2, <2>5, <2>6, <2>7 DEF HandleSchedule, HandleCancel, TypeOK
<1>7. ASSUME NEW n \in Numbers, Join(n)
      PROVE  TypeOK'
  <2>1. active' \in [Keys -> 0 .. MaxDeliveries]
    BY <1>7 DEF Join, ActiveAfter, TypeOK
  <2> QED
    BY <1>7, <2>1, TaskPhaseTypes, TaskType DEF Join, TypeOK
<1>8. CASE StopEngine
  BY <1>8 DEF StopEngine, TypeOK
<1>9. CASE EndEngine
  <2>1. channel' \in Seq(Commands) /\ Len(channel') <= Capacity
    BY <1>9 DEF EndEngine
  <2> QED
    BY <1>9, <2>1 DEF EndEngine, TypeOK
<1>10. ASSUME NEW n \in Numbers, Start(n) \/ Elapse(n) \/ Check(n)
       PROVE  TypeOK'
  <2>1. task' \in [Numbers -> TaskPhases] /\ seen' \in [Numbers -> BOOLEAN]
    <3>1. CASE Start(n)
      BY <3>1, WaitType DEF Start
    <3>2. CASE Elapse(n) \/ Check(n)
      BY <3>2, TaskType, TaskPhaseTypes DEF Elapse, Check, TypeOK
    <3> QED
      BY <1>10, <3>1, <3>2
  <2> QED
    BY <1>10, <2>1 DEF Start, Elapse, Check, TypeOK
<1>11. ASSUME NEW n \in Numbers, BeginTick(n)
       PROVE  TypeOK'
  <2>1. task' \in [Numbers -> TaskPhases]
    BY <1>11, TaskType, TaskPhaseTypes DEF BeginTick
  <2>2. late' \in [Numbers -> Nat]
    <3>1. late' = [late EXCEPT ![n] = late[n] + 1] \/ late' = [late EXCEPT ![n] = late[n]]
      BY <1>11 DEF BeginTick
    <3>2. late \in [Numbers -> Nat] /\ late[n] \in Nat /\ late[n] + 1 \in Nat
      BY DEF TypeOK
    <3> QED
      BY <3>1, <3>2
  <2>3. lock' \in [Destinations -> {"free", "delivery", "countdown"}]
    BY <1>11 DEF BeginTick, TypeOK
  <2> QED
    BY <1>11, <2>1, <2>2, <2>3 DEF BeginTick, TypeOK
<1>12. ASSUME NEW n \in Numbers, EndTick(n) \/ Stop(n)
       PROVE  TypeOK'
  <2>1. lock' \in [Destinations -> {"free", "delivery", "countdown"}]
    BY <1>12 DEF EndTick, Stop, TypeOK
  <2>2. task' \in [Numbers -> TaskPhases] /\ seen' \in [Numbers -> BOOLEAN]
    BY <1>12, WaitType DEF EndTick, Stop
  <2> QED
    BY <1>12, <2>1, <2>2 DEF EndTick, Stop, TypeOK
<1>13. ASSUME NEW n \in Numbers, Arrive(n)
       PROVE  TypeOK'
  BY <1>13 DEF Arrive, TypeOK
<1>14. ASSUME NEW d \in Destinations, ChangeSubscription(d)
       PROVE  TypeOK'
  BY <1>14 DEF ChangeSubscription, TypeOK
<1>15. CASE Close \/ UNCHANGED vars
  BY <1>15 DEF Close, vars, TypeOK
<1> QED
  BY <1>1, <1>2, <1>3, <1>4, <1>5, <1>6, <1>7, <1>8, <1>9, <1>10, <1>11, <1>12, <1>13, <1>14,
     <1>15 DEF Next, DeliveryStep, EngineStep, CountdownStep

-----------------------------------------------------------------------------
(* What steps do to countdowns, deliveries and the channel *)

LEMMA RunningCases ==
  /\ \A p : p \in Running <=> p \in {"new", "waiting", "checking", "locking", "ticking"}
  /\ "ended" \notin Running /\ "joined" \notin Running /\ "none" \notin Running
BY DEF Running

LEMMA CountdownMoves ==
  ASSUME TypeOK, NEW n \in Numbers, CountdownStep(n)
  PROVE  /\ task[n] \in Running
         /\ \E p \in Running \cup {"ended"} : task' = [task EXCEPT ![n] = p]
         /\ UNCHANGED <<deliveryVars, channel, engineVars, cancelled, world, pushed>>
<1>1. CASE Start(n)
  BY <1>1, RunningCases DEF Start, End, Wait
<1>2. CASE Elapse(n)
  BY <1>2, RunningCases DEF Elapse
<1>3. CASE Check(n)
  BY <1>3, RunningCases DEF Check
<1>4. CASE BeginTick(n)
  BY <1>4, RunningCases DEF BeginTick
<1>5. CASE EndTick(n)
  BY <1>5, RunningCases DEF EndTick, End, Wait
<1>6. CASE Stop(n)
  BY <1>6, RunningCases DEF Stop, End
<1> QED
  BY <1>1, <1>2, <1>3, <1>4, <1>5, <1>6 DEF CountdownStep

(* Only the engine starts or joins countdowns, and only it cancels them.   *)
LEMMA CountdownsKept ==
  ASSUME \/ \E d \in Destinations :
              BeginDelivery(d) \/ DeliveryStep(d) \/ ChangeSubscription(d)
         \/ Close
         \/ \E n \in Numbers : Arrive(n)
         \/ UNCHANGED vars
  PROVE  UNCHANGED <<key, engineVars, taskVars, cancelled, late>>
BY DEF BeginDelivery, DeliveryStep, QueueCancel, PushSucceeds, PushFails, QueueSchedule,
       ChangeSubscription, Close, Arrive, vars, deliveryVars, engineVars, taskVars, world

LEMMA KeyKept == ASSUME [Next]_vars PROVE key' = key
BY DEF Next, BeginDelivery, DeliveryStep, QueueCancel, PushSucceeds, PushFails, QueueSchedule,
       ChangeSubscription, EngineStep, HandleSchedule, HandleCancel, StopEngine, EndEngine, Join,
       CountdownStep, Start, Elapse, Check, BeginTick, EndTick, Stop, Arrive, Close, vars,
       deliveryVars

(* The first command, as the engine takes it.                              *)
LEMMA FirstCommand ==
  ASSUME TypeOK, ChannelExact, channel # <<>>
  PROVE  /\ 1 \in 1 .. Len(channel) /\ Head(channel) = channel[1]
         /\ channel[1].key \in Keys
         /\ Len(Tail(channel)) = Len(channel) - 1
         /\ \A i \in 1 .. Len(channel) - 1 : Tail(channel)[i] = channel[i + 1]
         /\ channel[1].op = "schedule" =>
              /\ channel[1].number \in Numbers
              /\ channel[1].key = key[channel[1].number]
              /\ task[channel[1].number] = "none"
<1>1. 1 \in 1 .. Len(channel) /\ Head(channel) = channel[1]
  BY DEF TypeOK
<1>2. channel[1].key \in Keys
  BY <1>1, CommandTypes DEF Commands
<1>3. /\ Len(Tail(channel)) = Len(channel) - 1
      /\ \A i \in 1 .. Len(channel) - 1 : Tail(channel)[i] = channel[i + 1]
  BY DEF TypeOK
<1>4. channel[1].op = "schedule" =>
        /\ channel[1].number \in Numbers
        /\ channel[1].key = key[channel[1].number]
        /\ task[channel[1].number] = "none"
  BY <1>1 DEF ChannelExact, IsSchedule, TypeOK, Numbers
<1> QED
  BY <1>1, <1>2, <1>3, <1>4

(* Every step keeps the countdowns known.                                  *)
LEMMA KnownStep ==
  ASSUME TypeOK, ChannelExact, RunningIsKnown, [Next]_vars
  PROVE  RunningIsKnown'
<1> SUFFICES ASSUME NEW m \in Numbers, task'[m] \in Running, ~cancelled'[m]
             PROVE  engine' = "running" /\ active'[key[m]] = m
  BY KeyKept DEF RunningIsKnown
<1>0. /\ task[m] \in Running /\ ~cancelled[m] => engine = "running" /\ active[key[m]] = m
      /\ key[m] \in Keys /\ m # 0
  BY DEF RunningIsKnown, TypeOK, Numbers
<1>1. CASE HandleSchedule \/ HandleCancel
  <2> DEFINE k == channel[1].key
             n == channel[1].number
  <2>1. channel # <<>> /\ engine' = engine /\ engine = "running" /\ CancelCurrent(k)
    BY <1>1, FirstCommand DEF HandleSchedule, HandleCancel
  <2>2. cancelled[m] => cancelled'[m]
    BY <2>1 DEF CancelCurrent, TypeOK
  <2>3. ASSUME task[m] \in Running PROVE active[key[m]] = m /\ key[m] # k
    <3>1. active[key[m]] = m
      BY <1>0, <2>2, <2>3
    <3>2. key[m] = k => cancelled'[m]
      BY <1>0, <2>1, <3>1 DEF CancelCurrent, TypeOK
    <3> QED
      BY <3>1, <3>2
  <2>4. CASE HandleCancel
    BY <1>0, <2>1, <2>3, <2>4, FirstCommand DEF HandleCancel, taskVars, TypeOK
  <2>5. CASE HandleSchedule
    <3>1. /\ n \in Numbers /\ k = key[n]
          /\ task' = [task EXCEPT ![n] = "new"] /\ active' = [active EXCEPT ![k] = n]
      BY <2>1, <2>5, FirstCommand DEF HandleSchedule
    <3>2. CASE m = n
      BY <1>0, <2>1, <3>1, <3>2 DEF TypeOK
    <3>3. CASE m # n
      <4>1. task[m] \in Running
        BY <3>1, <3>3 DEF TypeOK
      <4> QED
        BY <1>0, <2>1, <2>3, <3>1, <4>1 DEF TypeOK
    <3> QED
      BY <3>2, <3>3
  <2> QED
    BY <1>1, <2>4, <2>5
<1>2. ASSUME NEW n \in Numbers, Join(n)
      PROVE  engine' = "running" /\ active'[key[m]] = m
  <2>1. m # n /\ task[m] \in Running /\ ~cancelled[m] /\ engine' = engine
    BY <1>2, RunningCases DEF Join, TypeOK
  <2>2. active[key[m]] = m /\ engine = "running"
    BY <1>0, <2>1
  <2>3. \/ active' = active
        \/ active[key[n]] = n /\ active' = [active EXCEPT ![key[n]] = 0]
    BY <1>2, <2>2 DEF Join, ActiveAfter
  <2> QED
    BY <1>0, <2>1, <2>2, <2>3 DEF TypeOK
<1>3. CASE StopEngine
  <2>1. task[m] \in Running /\ ~cancelled[m] /\ ~(\E k \in Keys : active[k] = m)
    BY <1>3 DEF StopEngine, taskVars
  <2> QED
    BY <1>0, <2>1
<1>4. CASE EndEngine
  <2>1. task[m] \in Running /\ task[m] \in {"none", "joined"}
    BY <1>4 DEF EndEngine, taskVars
  <2> QED
    BY <2>1, RunningCases
<1>5. ASSUME NEW n \in Numbers, CountdownStep(n)
      PROVE  engine' = "running" /\ active'[key[m]] = m
  <2>1. task[m] \in Running
    BY <1>5, CountdownMoves DEF TypeOK
  <2>2. engine' = engine /\ active' = active /\ cancelled' = cancelled
    BY <1>5, CountdownMoves DEF engineVars
  <2> QED
    BY <1>0, <2>1, <2>2
<1>6. CASE UNCHANGED <<key, engineVars, taskVars, cancelled, late>>
  BY <1>0, <1>6 DEF engineVars, taskVars
<1> QED
  BY <1>1, <1>2, <1>3, <1>4, <1>5, <1>6, CountdownsKept DEF Next, EngineStep

(* How a delivery goes on: its destination's phase and number.             *)
LEMMA DeliveryMoves ==
  ASSUME TypeOK, CurrentExact, NEW d \in Destinations, DeliveryStep(d)
  PROVE  LET n == current[d] IN
         /\ n \in Numbers /\ n <= made /\ Dest(n) = d /\ key[n] \in Keys
         /\ phase[d] # "idle"
         /\ \/ /\ \E p \in {"pushing", "scheduling"} : phase' = [phase EXCEPT ![d] = p]
               /\ current' = current
            \/ /\ phase' = [phase EXCEPT ![d] = "idle"]
               /\ current' = [current EXCEPT ![d] = 0]
         /\ pushed' = pushed \/ pushed' = [pushed EXCEPT ![key[n]] = n]
         /\ UNCHANGED <<made, key, issued, engineVars, taskVars, cancelled, world, late>>
<1> DEFINE n == current[d]
<1>1. phase[d] # "idle" /\ n \in 1 .. made /\ Dest(n) = d
  BY DEF DeliveryStep, QueueCancel, PushSucceeds, PushFails, QueueSchedule, CurrentExact
<1>2. n \in Numbers /\ n <= made /\ key[n] \in Keys
  BY <1>1 DEF TypeOK, Numbers
<1>3. /\ pushed' = pushed \/ pushed' = [pushed EXCEPT ![key[n]] = n]
      /\ UNCHANGED <<made, key, issued, engineVars, taskVars, cancelled, world, late>>
  BY DEF DeliveryStep, QueueCancel, PushSucceeds, PushFails, QueueSchedule
<1>4. \/ /\ \E p \in {"pushing", "scheduling"} : phase' = [phase EXCEPT ![d] = p]
         /\ current' = current
      \/ /\ phase' = [phase EXCEPT ![d] = "idle"]
         /\ current' = [current EXCEPT ![d] = 0]
  BY DEF DeliveryStep, QueueCancel, PushSucceeds, PushFails, QueueSchedule, EndDelivery
<1> QED
  BY <1>1, <1>2, <1>3, <1>4

LEMMA CurrentStep ==
  ASSUME TypeOK, CurrentExact, ChannelExact, Fresh, [Next]_vars
  PROVE  CurrentExact'
<1> SUFFICES ASSUME NEW e \in Destinations
             PROVE  /\ phase'[e] # "idle" =>
                         /\ current'[e] \in 1 .. made'
                         /\ Dest(current'[e]) = e
                         /\ task'[current'[e]] = "none"
                         /\ \A k \in Keys : k[1] = e => pushed'[k] <= current'[e]
                    /\ phase'[e] = "idle" => current'[e] = 0
  BY KeyKept DEF CurrentExact, Dest
<1>0. /\ phase[e] # "idle" =>
           /\ current[e] \in 1 .. made
           /\ Dest(current[e]) = e
           /\ task[current[e]] = "none"
           /\ \A k \in Keys : k[1] = e => pushed[k] <= current[e]
      /\ phase[e] = "idle" => current[e] = 0
      /\ made \in Nat /\ \A i \in 1 .. made : i \in Numbers
  BY DEF CurrentExact, TypeOK, Numbers
<1>1. ASSUME NEW d \in Destinations, BeginDelivery(d)
      PROVE  /\ phase'[e] # "idle" =>
                  /\ current'[e] \in 1 .. made'
                  /\ Dest(current'[e]) = e
                  /\ task'[current'[e]] = "none"
                  /\ \A k \in Keys : k[1] = e => pushed'[k] <= current'[e]
             /\ phase'[e] = "idle" => current'[e] = 0
  <2>1. /\ made + 1 \in Numbers /\ Dest(made + 1) = d /\ made' = made + 1
        /\ current' = [current EXCEPT ![d] = made + 1]
        /\ phase' = [phase EXCEPT ![d] = "cancelling"]
        /\ task' = task /\ pushed' = pushed
    BY <1>1 DEF BeginDelivery, taskVars
  <2>2. CASE e = d
    <3>1. phase'[e] = "cancelling" /\ current'[e] = made + 1
      BY <2>1, <2>2 DEF TypeOK
    <3>2. task[made + 1] = "none" /\ \A k \in Keys : pushed[k] <= made + 1
      <4>1. \A k \in Keys : pushed[k] \in Nat /\ pushed[k] <= made
        BY DEF Fresh, TypeOK
      <4>2. made + 1 > made
        BY <1>0
      <4> QED
        BY <1>0, <2>1, <4>1, <4>2 DEF Fresh
    <3> QED
      BY <1>0, <2>1, <2>2, <3>1, <3>2
  <2>3. CASE e # d
    <3>1. phase'[e] = phase[e] /\ current'[e] = current[e]
      BY <2>1, <2>3 DEF TypeOK
    <3> QED
      BY <1>0, <2>1, <3>1
  <2> QED
    BY <2>2, <2>3
<1>2. ASSUME NEW d \in Destinations, DeliveryStep(d)
      PROVE  /\ phase'[e] # "idle" =>
                  /\ current'[e] \in 1 .. made'
                  /\ Dest(current'[e]) = e
                  /\ task'[current'[e]] = "none"
                  /\ \A k \in Keys : k[1] = e => pushed'[k] <= current'[e]
             /\ phase'[e] = "idle" => current'[e] = 0
  <2>1. made' = made /\ task' = task
    BY <1>2, DeliveryMoves DEF taskVars
  <2>2. \A k \in Keys : k[1] = e => pushed'[k] = pushed[k] \/ (e = d /\ pushed'[k] = current[d])
    <3>1. \/ pushed' = pushed
          \/ pushed' = [pushed EXCEPT ![key[current[d]]] = current[d]]
      BY <1>2, DeliveryMoves
    <3>2. key[current[d]] \in Keys /\ key[current[d]][1] = d
      BY <1>2, DeliveryMoves DEF Dest
    <3> QED
      BY <3>1, <3>2 DEF TypeOK
  <2>3. \/ phase'[e] # "idle" /\ phase[e] # "idle" /\ current'[e] = current[e]
        \/ phase'[e] = "idle" /\ current'[e] = 0
    BY <1>0, <1>2, DeliveryMoves DEF TypeOK
  <2>4. \A k \in Keys : pushed[k] \in Nat
    BY DEF TypeOK
  <2> QED
    BY <1>0, <2>1, <2>2, <2>3, <2>4
<1>3. ASSUME UNCHANGED <<deliveryVars, pushed>>,
             \A n \in Numbers : task[n] = "none" /\ current[e] = n => task'[n] = "none"
      PROVE  /\ phase'[e] # "idle" =>
                  /\ current'[e] \in 1 .. made'
                  /\ Dest(current'[e]) = e
                  /\ task'[current'[e]] = "none"
                  /\ \A k \in Keys : k[1] = e => pushed'[k] <= current'[e]
             /\ phase'[e] = "idle" => current'[e] = 0
  BY <1>0, <1>3 DEF deliveryVars
<1>4. CASE HandleSchedule
  <2> DEFINE n == channel[1].number
  <2>1. channel # <<>> /\ channel[1].op = "schedule"
    BY <1>4, FirstCommand DEF HandleSchedule
  <2>2. current[e] # n /\ n \in Numbers /\ task' = [task EXCEPT ![n] = "new"]
    BY <1>4, <2>1, FirstCommand DEF HandleSchedule, ChannelExact, IsSchedule
  <2> QED
    BY <1>3, <1>4, <2>2 DEF HandleSchedule, TypeOK
<1>5. ASSUME NEW n \in Numbers, Join(n) \/ CountdownStep(n)
      PROVE  /\ UNCHANGED <<deliveryVars, pushed>>
             /\ \A i \in Numbers : task[i] = "none" /\ current[e] = i => task'[i] = "none"
  <2>1. CASE Join(n)
    BY <2>1 DEF Join, TypeOK
  <2>2. CASE CountdownStep(n)
    BY <2>2, CountdownMoves, RunningCases DEF TypeOK
  <2> QED
    BY <1>5, <2>1, <2>2
<1>6. CASE HandleCancel \/ StopEngine \/ EndEngine \/ Close \/ UNCHANGED vars
  BY <1>3, <1>6 DEF HandleCancel, StopEngine, EndEngine, Close, taskVars, vars
<1>7. ASSUME NEW n \in Numbers, Arrive(n)
      PROVE  UNCHANGED <<deliveryVars, pushed, task>>
  BY <1>7 DEF Arrive, taskVars
<1>8. ASSUME NEW d \in Destinations, ChangeSubscription(d)
      PROVE  UNCHANGED <<deliveryVars, pushed, task>>
  BY <1>8 DEF ChangeSubscription, taskVars
<1> QED
  BY <1>1, <1>2, <1>3, <1>4, <1>5, <1>6, <1>7, <1>8 DEF Next, EngineStep

(* What a delivery step adds to the channel.                               *)
LEMMA DeliveryQueues ==
  ASSUME TypeOK, CurrentExact, NEW d \in Destinations, DeliveryStep(d)
  PROVE  \/ channel' = channel
         \/ channel' = Append(channel, Cancel(key[current[d]])) /\ engine # "ended"
         \/ /\ channel' = Append(channel, Schedule(current[d])) /\ engine # "ended"
            /\ current' = [current EXCEPT ![d] = 0]
BY DEF DeliveryStep, QueueCancel, PushSucceeds, PushFails, QueueSchedule, Queue, IsClosed,
       EndDelivery

LEMMA AppendAt ==
  ASSUME TypeOK, NEW c, channel' = Append(channel, c)
  PROVE  /\ Len(channel') = Len(channel) + 1
         /\ channel'[Len(channel) + 1] = c
         /\ \A i \in 1 .. Len(channel) : channel'[i] = channel[i]
         /\ Len(channel) \in Nat
BY DEF TypeOK

(* A step that takes no command, adds none and starts no countdown keeps   *)
(* the channel exact.                                                      *)
LEMMA ChannelKept ==
  ASSUME TypeOK, ChannelExact, key' = key, channel' = channel, made' = made, engine' = engine,
         \A n \in Numbers : task[n] = "none" => task'[n] = "none",
         \A n \in Numbers : task'[n] \in Running => task[n] \in Running,
         \A d \in Destinations : current'[d] \in {current[d], 0}
  PROVE  ChannelExact'
<1>0. \A m \in 1 .. made : m # 0 /\ m \in Numbers
  BY DEF TypeOK, Numbers
<1>1. \A i \in 1 .. Len(channel) : IsSchedule(i) =>
        /\ channel[i].number \in 1 .. made
        /\ channel[i].key = key[channel[i].number]
        /\ task[channel[i].number] = "none"
        /\ \A d \in Destinations : current[d] # channel[i].number
  BY DEF ChannelExact
<1>2. \A i \in 1 .. Len(channel)' : IsSchedule(i)' <=> IsSchedule(i)
  BY DEF IsSchedule
<1>3. \A i \in 1 .. Len(channel)' : IsSchedule(i)' =>
        /\ channel'[i].number \in 1 .. made'
        /\ channel'[i].key = key'[channel'[i].number]
        /\ task'[channel'[i].number] = "none"
        /\ \A d \in Destinations : current'[d] # channel'[i].number
  BY <1>0, <1>1, <1>2
<1> QED
  BY <1>2, <1>3 DEF ChannelExact, Cancel

LEMMA ChannelTaken ==
  ASSUME TypeOK, ChannelExact, channel # <<>>, channel' = Tail(channel), engine = "running",
         UNCHANGED <<deliveryVars, engine>>,
         \/ task' = task
         \/ channel[1].op = "schedule" /\ task' = [task EXCEPT ![channel[1].number] = "new"]
  PROVE  ChannelExact'
<1>1. /\ Len(channel)' = Len(channel) - 1 /\ Len(channel) \in Nat
      /\ \A i \in 1 .. Len(channel)' : channel'[i] = channel[i + 1] /\ i + 1 \in 1 .. Len(channel)
  BY DEF TypeOK
<1>2. \A i \in 1 .. Len(channel)' : IsSchedule(i)' <=> IsSchedule(i + 1)
  BY <1>1 DEF IsSchedule
<1>3. ASSUME NEW i \in 1 .. Len(channel)', IsSchedule(i)'
      PROVE  /\ channel'[i].number \in 1 .. made'
             /\ channel'[i].key = key'[channel'[i].number]
             /\ task'[channel'[i].number] = "none"
             /\ \A d \in Destinations : current'[d] # channel'[i].number
  <2> DEFINE m == channel[i + 1].number
  <2>1. /\ m \in 1 .. made /\ channel[i + 1].key = key[m] /\ task[m] = "none"
        /\ \A d \in Destinations : current[d] # m
        /\ IsSchedule(i + 1) /\ i + 1 \in 1 .. Len(channel)
    BY <1>1, <1>2, <1>3 DEF ChannelExact
  <2>2. 1 \in 1 .. Len(channel) /\ i + 1 # 1
    BY <1>1, <2>1
  <2>3. IsSchedule(1) => channel[1].number # m
    BY <2>1, <2>2 DEF ChannelExact
  <2>4. task'[m] = "none"
    <3>1. CASE task' = task
      BY <2>1, <3>1
    <3>2. CASE /\ channel[1].op = "schedule"
               /\ task' = [task EXCEPT ![channel[1].number] = "new"]
      <4>1. channel[1].number # m
        BY <2>2, <2>3, <3>2 DEF IsSchedule
      <4>2. m \in Numbers
        BY <2>1 DEF TypeOK, Numbers
      <4> QED
        BY <2>1, <3>2, <4>1, <4>2 DEF TypeOK
    <3> QED
      BY <3>1, <3>2
  <2> QED
    BY <1>1, <2>1, <2>4 DEF deliveryVars
<1>4. ASSUME NEW i \in 1 .. Len(channel)', NEW j \in 1 .. Len(channel)',
             IsSchedule(i)', IsSchedule(j)', channel'[i].number = channel'[j].number
      PROVE  i = j
  <2>1. i + 1 = j + 1
    BY <1>1, <1>2, <1>4 DEF ChannelExact
  <2> QED
    BY <1>1, <2>1
<1>5. \A i \in 1 .. Len(channel)' :
        channel'[i].op = "cancel" => channel'[i] = Cancel(channel'[i].key)
  BY <1>1 DEF ChannelExact
<1> QED
  BY <1>3, <1>4, <1>5 DEF ChannelExact, Cancel

LEMMA ChannelStep ==
  ASSUME TypeOK, CurrentExact, ChannelExact, Fresh, [Next]_vars
  PROVE  ChannelExact'
<1>0. key' = key
  BY KeyKept
<1>1. ASSUME NEW d \in Destinations, BeginDelivery(d)
      PROVE  ChannelExact'
  <2>1. /\ made' = made + 1 /\ made \in Nat /\ channel' = channel /\ task' = task
        /\ engine' = engine /\ current' = [current EXCEPT ![d] = made + 1]
    BY <1>1 DEF BeginDelivery, taskVars, engineVars, TypeOK
  <2>2. \A i \in 1 .. Len(channel) : IsSchedule(i)' <=> IsSchedule(i)
    BY <2>1 DEF IsSchedule
  <2>3. ASSUME NEW i \in 1 .. Len(channel), IsSchedule(i)
        PROVE  /\ channel[i].number \in 1 .. made + 1
               /\ \A e \in Destinations : current'[e] # channel[i].number
    <3>1. /\ channel[i].number \in 1 .. made
          /\ \A e \in Destinations : current[e] # channel[i].number
      BY <2>3 DEF ChannelExact
    <3>2. \A e \in Destinations : current'[e] \in {current[e], made + 1}
      BY <2>1 DEF TypeOK
    <3> QED
      BY <2>1, <3>1, <3>2
  <2>4. \A i \in 1 .. Len(channel) : IsSchedule(i) =>
          /\ channel[i].key = key[channel[i].number]
          /\ task[channel[i].number] = "none"
    BY DEF ChannelExact
  <2>5. /\ \A i, j \in 1 .. Len(channel) :
             IsSchedule(i) /\ IsSchedule(j) /\ channel[i].number = channel[j].number => i = j
        /\ \A i \in 1 .. Len(channel) :
             channel[i].op = "cancel" => channel[i] = Cancel(channel[i].key)
        /\ engine = "ended" => channel = <<>> /\ \A n \in Numbers : task[n] \notin Running
    BY DEF ChannelExact
  <2> QED
    BY <1>0, <2>1, <2>2, <2>3, <2>4, <2>5 DEF ChannelExact, Cancel
<1>2. ASSUME NEW d \in Destinations, DeliveryStep(d)
      PROVE  ChannelExact'
  <2> DEFINE n == current[d]
  <2>1. /\ made' = made /\ task' = task /\ engine' = engine
        /\ n \in Numbers /\ n \in 1 .. made /\ task[n] = "none" /\ Dest(n) = d
        /\ \A e \in Destinations : current'[e] \in {current[e], 0}
    BY <1>2, DeliveryMoves DEF taskVars, engineVars, CurrentExact, TypeOK
  <2>2. CASE channel' = channel
    BY <1>0, <2>1, <2>2, ChannelKept
  <2>3. ASSUME NEW c, channel' = Append(channel, c), engine # "ended",
               \/ c = Cancel(key[n])
               \/ c = Schedule(n) /\ current' = [current EXCEPT ![d] = 0]
        PROVE  ChannelExact'
    <3>0. PICK l \in Nat : l = Len(channel)
      BY DEF TypeOK
    <3>1. /\ Len(channel)' = l + 1 /\ channel'[l + 1] = c /\ l \in Nat
          /\ \A i \in 1 .. l : channel'[i] = channel[i]
      BY <2>3, <3>0, AppendAt
    <3>2. \A i \in 1 .. l : IsSchedule(i)' <=> IsSchedule(i)
      BY <3>0, <3>1 DEF IsSchedule
    <3>3. IsSchedule(l + 1)' =>
            c = Schedule(n) /\ c.number = n /\ c.key = key[n]
            /\ \A e \in Destinations : current'[e] # n
      <4>1. ASSUME c = Schedule(n), current' = [current EXCEPT ![d] = 0]
            PROVE  \A e \in Destinations : current'[e] # n
        <5>1. \A e \in Destinations : e # d => current[e] # n
          BY <2>1 DEF CurrentExact, TypeOK
        <5> QED
          BY <2>1, <4>1, <5>1 DEF TypeOK
      <4> QED
        BY <2>3, <3>1, <4>1 DEF IsSchedule, Cancel, Schedule
    <3>4. \A i \in 1 .. l : IsSchedule(i) =>
            /\ channel[i].number \in 1 .. made
            /\ channel[i].key = key[channel[i].number]
            /\ task[channel[i].number] = "none"
            /\ \A e \in Destinations : current[e] # channel[i].number
            /\ channel[i].number # n
      BY <3>0 DEF ChannelExact
    <3>5. ASSUME NEW i \in 1 .. l + 1, IsSchedule(i)'
          PROVE  /\ channel'[i].number \in 1 .. made'
                 /\ channel'[i].key = key'[channel'[i].number]
                 /\ task'[channel'[i].number] = "none"
                 /\ \A e \in Destinations : current'[e] # channel'[i].number
      <4>1. CASE i \in 1 .. l
        <5>1. /\ channel[i].number \in 1 .. made
              /\ channel[i].key = key[channel[i].number]
              /\ task[channel[i].number] = "none"
              /\ \A e \in Destinations : current[e] # channel[i].number
          BY <3>2, <3>4, <3>5, <4>1
        <5>2. channel[i].number # 0
          BY <5>1 DEF TypeOK
        <5> QED
          BY <1>0, <2>1, <3>1, <4>1, <5>1, <5>2
      <4>2. CASE i = l + 1
        <5>1. /\ c.number = n /\ c.key = key[n]
              /\ \A e \in Destinations : current'[e] # n
          BY <3>3, <3>5, <4>2
        <5>2. channel'[i] = c
          BY <3>1, <4>2
        <5> QED
          BY <1>0, <2>1, <5>1, <5>2
      <4> QED
        BY <3>1, <4>1, <4>2
    <3>6. ASSUME NEW i \in 1 .. l + 1, NEW j \in 1 .. l + 1,
                 IsSchedule(i)', IsSchedule(j)', channel'[i].number = channel'[j].number
          PROVE  i = j
      <4>1. ASSUME NEW a \in 1 .. l, IsSchedule(a)'
            PROVE  IsSchedule(a) /\ channel'[a] = channel[a] /\ channel[a].number # n
        BY <3>1, <3>2, <3>4, <4>1
      <4>2. IsSchedule(l + 1)' => channel'[l + 1].number = n
        BY <3>1, <3>3
      <4>3. CASE i \in 1 .. l /\ j \in 1 .. l
        <5>1. /\ IsSchedule(i) /\ IsSchedule(j) /\ channel[i].number = channel[j].number
          BY <3>6, <4>1, <4>3
        <5> QED
          BY <3>0, <4>3, <5>1 DEF ChannelExact
      <4>4. CASE i \in 1 .. l /\ j = l + 1
        BY <3>6, <4>1, <4>2, <4>4
      <4>5. CASE i = l + 1 /\ j \in 1 .. l
        BY <3>6, <4>1, <4>2, <4>5
      <4> QED
        BY <3>1, <4>3, <4>4, <4>5
    <3>7. \A i \in 1 .. l + 1 :
            channel'[i].op = "cancel" => channel'[i] = Cancel(channel'[i].key)
      <4>1. \A i \in 1 .. l : channel[i].op = "cancel" => channel[i] = Cancel(channel[i].key)
        BY <3>0 DEF ChannelExact
      <4>2. c.op = "cancel" => c = Cancel(c.key)
        BY <2>3 DEF Cancel, Schedule
      <4>3. \A i \in 1 .. l + 1 : i \in 1 .. l \/ i = l + 1
        BY <3>1
      <4> QED
        BY <3>1, <4>1, <4>2, <4>3
    <3> QED
      BY <2>1, <2>3, <3>1, <3>5, <3>6, <3>7 DEF ChannelExact, Cancel
  <2> QED
    BY <1>2, <2>2, <2>3, DeliveryQueues
<1>3. CASE HandleSchedule \/ HandleCancel
  <2>1. channel # <<>> /\ Head(channel) = channel[1]
    BY <1>3, FirstCommand DEF HandleSchedule, HandleCancel
  <2> QED
    BY <1>3, <2>1, ChannelTaken DEF HandleSchedule, HandleCancel, taskVars
<1>4. CASE StopEngine
  <2>1. engine' = "stopping" /\ UNCHANGED <<deliveryVars, channel, task>>
    BY <1>4 DEF StopEngine, taskVars
  <2> QED
    BY <2>1 DEF ChannelExact, IsSchedule, Cancel, deliveryVars
<1>5. CASE EndEngine
  <2>1. channel' = <<>> /\ \A n \in Numbers : task'[n] \in {"none", "joined"}
    BY <1>5 DEF EndEngine, taskVars
  <2>2. Len(channel)' = 0
    BY <2>1
  <2> QED
    BY <2>1, <2>2, RunningCases DEF ChannelExact
<1>6. ASSUME NEW n \in Numbers, Join(n) \/ CountdownStep(n)
      PROVE  ChannelExact'
  <2>1. UNCHANGED <<channel, deliveryVars, engine>>
    BY <1>6, CountdownMoves DEF Join, engineVars
  <2>2. \A m \in Numbers : /\ task[m] = "none" => task'[m] = "none"
                           /\ task'[m] \in Running => task[m] \in Running
    <3>1. CASE Join(n)
      BY <3>1, RunningCases DEF Join, TypeOK
    <3>2. CASE CountdownStep(n)
      BY <3>2, CountdownMoves, RunningCases DEF TypeOK
    <3> QED
      BY <1>6, <3>1, <3>2
  <2> QED
    BY <2>1, <2>2, ChannelKept DEF deliveryVars
<1>7. ASSUME UNCHANGED <<channel, deliveryVars, engine, task>>
      PROVE  ChannelExact'
  BY <1>7, ChannelKept DEF deliveryVars
<1>8. ASSUME NEW n \in Numbers, Arrive(n)
      PROVE  ChannelExact'
  BY <1>7, <1>8 DEF Arrive, taskVars, engineVars
<1>9. ASSUME NEW d \in Destinations, ChangeSubscription(d)
      PROVE  ChannelExact'
  BY <1>7, <1>9 DEF ChangeSubscription, taskVars, engineVars
<1>10. CASE Close \/ UNCHANGED vars
  BY <1>7, <1>10 DEF Close, vars, taskVars, engineVars
<1> QED
  BY <1>1, <1>2, <1>3, <1>4, <1>5, <1>6, <1>8, <1>9, <1>10 DEF Next, EngineStep

-----------------------------------------------------------------------------
(* Late ticks *)

(* How a step moves one countdown.                                         *)
LEMMA TaskMoves ==
  ASSUME TypeOK, CurrentExact, ChannelExact, [Next]_vars, NEW m \in Numbers
  PROVE  \/ task'[m] = task[m] /\ late'[m] = late[m]
         \/ task[m] = "none" /\ task'[m] = "new" /\ m <= made /\ late' = late
         \/ task[m] = "ended" /\ task'[m] = "joined" /\ late' = late
         \/ CountdownStep(m)
<1>1. CASE HandleSchedule
  <2> DEFINE n == channel[1].number
  <2>1. channel # <<>> /\ channel[1].op = "schedule" /\ task' = [task EXCEPT ![n] = "new"]
    BY <1>1, FirstCommand DEF HandleSchedule
  <2>2. n \in 1 .. made /\ n \in Numbers /\ task[n] = "none"
    BY <2>1, FirstCommand DEF ChannelExact, IsSchedule
  <2>3. late' = late /\ made \in Nat
    BY <1>1 DEF HandleSchedule, TypeOK
  <2> QED
    BY <2>1, <2>2, <2>3 DEF TypeOK
<1>2. CASE HandleCancel \/ StopEngine \/ EndEngine
  BY <1>2 DEF HandleCancel, StopEngine, EndEngine, taskVars
<1>3. ASSUME NEW n \in Numbers, Join(n)
      PROVE  \/ task'[m] = task[m] /\ late'[m] = late[m]
             \/ task[m] = "ended" /\ task'[m] = "joined" /\ late' = late
  BY <1>3 DEF Join, TypeOK
<1>4. ASSUME NEW n \in Numbers, CountdownStep(n), n # m
      PROVE  task'[m] = task[m] /\ late'[m] = late[m]
  <2>1. late' = late \/ late' = [late EXCEPT ![n] = IF IsCalledOff(n) THEN @ + 1 ELSE @]
    BY <1>4 DEF CountdownStep, Start, Elapse, Check, BeginTick, EndTick, Stop
  <2>2. late'[m] = late[m]
    BY <1>4, <2>1 DEF TypeOK
  <2> QED
    BY <1>4, <2>2, CountdownMoves DEF TypeOK
<1>5. CASE UNCHANGED <<key, engineVars, taskVars, cancelled, late>>
  BY <1>5 DEF taskVars
<1> QED
  BY <1>1, <1>2, <1>3, <1>4, <1>5, CountdownsKept DEF Next, EngineStep

(* Only a tick is counted, and nothing goes back to the start.             *)
LEMMA StepsTicks ==
  ASSUME TypeOK, NEW m \in Numbers, CountdownStep(m)
  PROVE  /\ task[m] \in Running /\ task'[m] # "none"
         /\ late'[m] = late[m] \/ BeginTick(m)
<1>1. task[m] \in Running /\ task'[m] # "none"
  BY CountdownMoves, RunningCases DEF TypeOK
<1> QED
  BY <1>1 DEF CountdownStep, Start, Elapse, Check, EndTick, Stop

LEMMA FreshStep ==
  ASSUME TypeOK, CurrentExact, ChannelExact, Fresh, [Next]_vars
  PROVE  Fresh'
<1>0. key' = key
  BY KeyKept
<1>1. made' \in Nat /\ made' >= made
  <2>1. made' = made \/ made' = made + 1
    BY DEF Next, BeginDelivery, DeliveryStep, QueueCancel, PushSucceeds, PushFails, QueueSchedule,
           ChangeSubscription, EngineStep, HandleSchedule, HandleCancel, StopEngine, EndEngine,
           Join, CountdownStep, Start, Elapse, Check, BeginTick, EndTick, Stop, Arrive, Close,
           vars, deliveryVars
  <2> QED
    BY <2>1 DEF TypeOK
<1>2. ASSUME NEW m \in Numbers
      PROVE  /\ m > made' => task'[m] = "none"
             /\ task'[m] = "none" => late'[m] = 0
  <2>1. /\ m > made => task[m] = "none"
        /\ task[m] = "none" => late[m] = 0
        /\ m \in Nat /\ made \in Nat
    BY DEF Fresh, TypeOK, Numbers
  <2>2. \/ task'[m] = task[m] /\ late'[m] = late[m]
        \/ task[m] = "none" /\ task'[m] = "new" /\ m <= made
        \/ task[m] # "none" /\ task'[m] # "none"
    BY TaskMoves, StepsTicks, RunningCases
  <2> QED
    BY <1>1, <2>1, <2>2
<1>3. ASSUME NEW k \in Keys
      PROVE  pushed'[k] <= made'
  <2>1. pushed[k] <= made /\ pushed[k] \in Nat /\ made \in Nat
    BY DEF Fresh, TypeOK
  <2>2. ASSUME NEW d \in Destinations, DeliveryStep(d)
        PROVE  pushed'[k] <= made
    BY <2>1, <2>2, DeliveryMoves DEF TypeOK
  <2>3. pushed' = pushed \/ \E d \in Destinations : DeliveryStep(d)
    BY DEF Next, BeginDelivery, ChangeSubscription, EngineStep, HandleSchedule, HandleCancel,
           StopEngine, EndEngine, Join, CountdownStep, Start, Elapse, Check, BeginTick, EndTick,
           Stop, Arrive, Close, vars
  <2>4. made' \in Nat /\ pushed'[k] <= made
    BY <1>1, <2>1, <2>2, <2>3
  <2> QED
    BY <1>1, <2>1, <2>4, TypeStep DEF TypeOK
<1>4. ASSUME NEW n \in Numbers
      PROVE  issued'[n] <= generation'[Dest(n)]
  <2>1. /\ issued[n] <= generation[Dest(n)] /\ Dest(n) \in Destinations
        /\ issued[n] \in Nat /\ \A d \in Destinations : generation[d] \in Nat
    BY CommandTypes DEF Fresh, TypeOK
  <2>2. ASSUME NEW d \in Destinations, BeginDelivery(d)
        PROVE  issued'[n] <= generation'[Dest(n)]
    BY <2>1, <2>2 DEF BeginDelivery, world, TypeOK
  <2>3. ASSUME NEW d \in Destinations, ChangeSubscription(d)
        PROVE  issued'[n] <= generation'[Dest(n)]
    <3>1. generation' = [generation EXCEPT ![d] = generation[d] + 1] /\ issued' = issued
      BY <2>3 DEF ChangeSubscription, deliveryVars
    <3> QED
      BY <2>1, <3>1 DEF TypeOK
  <2>4. \/ issued' = issued /\ generation' = generation
        \/ \E d \in Destinations : BeginDelivery(d) \/ ChangeSubscription(d)
    BY DEF Next, DeliveryStep, QueueCancel, PushSucceeds, PushFails, QueueSchedule, EngineStep,
           HandleSchedule, HandleCancel, StopEngine, EndEngine, Join, CountdownStep, Start, Elapse,
           Check, BeginTick, EndTick, Stop, Arrive, Close, vars, deliveryVars, world
  <2> QED
    BY <2>1, <2>2, <2>3, <2>4
<1> QED
  BY <1>0, <1>2, <1>3, <1>4 DEF Fresh, Dest

(* What calls a countdown off lasts.                                       *)
LEMMA CalledOffLasts ==
  ASSUME TypeOK, CurrentExact, ChannelExact, Fresh, [Next]_vars,
         NEW n \in Numbers, task[n] # "none"
  PROVE  /\ IsCalledOff(n) => IsCalledOff(n)'
         /\ ~IsCurrent(n) => ~IsCurrent(n)'
<1>1. /\ issued[n] <= generation[Dest(n)] /\ Dest(n) \in Destinations
      /\ issued[n] \in Nat /\ \A d \in Destinations : generation[d] \in Nat
      /\ n <= made /\ made \in Nat /\ n \in Nat
  <2>1. made \in Nat /\ n \in Nat /\ ~(n > made)
    BY DEF Fresh, TypeOK, Numbers
  <2>2. n <= made
    BY <2>1
  <2>3. Dest(n) \in Destinations /\ \A d \in Destinations : generation[d] \in Nat
    BY CommandTypes DEF TypeOK
  <2> QED
    BY <2>1, <2>2, <2>3 DEF Fresh, TypeOK
<1>2. issued'[n] = issued[n]
  <2>1. \/ issued' = issued
        \/ issued' = [issued EXCEPT ![made + 1] = generation[Dest(made + 1)]]
    BY DEF Next, BeginDelivery, DeliveryStep, QueueCancel, PushSucceeds, PushFails, QueueSchedule,
           ChangeSubscription, EngineStep, HandleSchedule, HandleCancel, StopEngine, EndEngine,
           Join, CountdownStep, Start, Elapse, Check, BeginTick, EndTick, Stop, Arrive, Close,
           vars, deliveryVars
  <2> QED
    BY <1>1, <2>1 DEF TypeOK
<1>3. \A d \in Destinations : generation'[d] \in Nat /\ generation'[d] >= generation[d]
  <2>1. \/ generation' = generation
        \/ \E d \in Destinations : generation' = [generation EXCEPT ![d] = generation[d] + 1]
    BY DEF Next, BeginDelivery, DeliveryStep, QueueCancel, PushSucceeds, PushFails, QueueSchedule,
           ChangeSubscription, EngineStep, HandleSchedule, HandleCancel, StopEngine, EndEngine,
           Join, CountdownStep, Start, Elapse, Check, BeginTick, EndTick, Stop, Arrive, Close,
           vars, world
  <2>2. ASSUME NEW d \in Destinations, NEW e \in Destinations,
               generation' = [generation EXCEPT ![d] = generation[d] + 1]
        PROVE  generation'[e] \in Nat /\ generation'[e] >= generation[e]
    <3>1. generation'[e] = generation[e] \/ generation'[e] = generation[e] + 1
      BY <2>2 DEF TypeOK
    <3> QED
      BY <1>1, <3>1
  <2>3. \A e \in Destinations : generation[e] >= generation[e]
    BY <1>1
  <2> QED
    BY <1>1, <2>1, <2>2, <2>3
<1>4. Dest(n)' = Dest(n)
  BY KeyKept DEF Dest
<1>5. ~IsCurrent(n) => ~IsCurrent(n)'
  BY <1>1, <1>2, <1>3, <1>4 DEF IsCurrent
<1>6. /\ cancelled[n] => cancelled'[n]
      /\ shutdown => shutdown'
      /\ arrived[n] => arrived'[n]
  <2>1. cancelled[n] => cancelled'[n]
    <3>1. \/ cancelled' = cancelled
          \/ \E a \in Nat : cancelled' = [cancelled EXCEPT ![a] = TRUE]
          \/ StopEngine
      <4>1. ASSUME HandleSchedule \/ HandleCancel
            PROVE  \/ cancelled' = cancelled
                   \/ \E a \in Nat : cancelled' = [cancelled EXCEPT ![a] = TRUE]
        <5>1. channel # <<>> /\ CancelCurrent(channel[1].key) /\ channel[1].key \in Keys
          BY <4>1, FirstCommand DEF HandleSchedule, HandleCancel
        <5>2. active[channel[1].key] \in Nat
          BY <5>1 DEF TypeOK
        <5> QED
          BY <5>1, <5>2 DEF CancelCurrent
      <4> QED
        BY <4>1, CountdownsKept, CountdownMoves DEF Next, EngineStep, EndEngine, Join
    <3> QED
      BY <3>1 DEF StopEngine, TypeOK
  <2>2. shutdown => shutdown'
    BY DEF Next, BeginDelivery, DeliveryStep, QueueCancel, PushSucceeds, PushFails, QueueSchedule,
           ChangeSubscription, EngineStep, HandleSchedule, HandleCancel, StopEngine, EndEngine,
           Join, CountdownStep, Start, Elapse, Check, BeginTick, EndTick, Stop, Arrive, Close,
           vars, world
  <2>3. arrived[n] => arrived'[n]
    <3>1. arrived' = arrived \/ \E a \in Numbers : arrived' = [arrived EXCEPT ![a] = TRUE]
      BY DEF Next, BeginDelivery, DeliveryStep, QueueCancel, PushSucceeds, PushFails,
             QueueSchedule, ChangeSubscription, EngineStep, HandleSchedule, HandleCancel,
             StopEngine, EndEngine, Join, CountdownStep, Start, Elapse, Check, BeginTick, EndTick,
             Stop, Arrive, Close, vars, world
    <3> QED
      BY <3>1 DEF TypeOK
  <2> QED
    BY <2>1, <2>2, <2>3
<1> QED
  BY <1>5, <1>6 DEF IsCalledOff, IsStopped

LEMMA LateStep ==
  ASSUME TypeOK, CurrentExact, ChannelExact, Fresh, LateExact, [Next]_vars
  PROVE  LateExact'
<1> SUFFICES ASSUME NEW n \in Numbers
             PROVE  /\ late'[n] <= 1
                    /\ late'[n] = 1 =>
                         \/ task'[n] \in {"ended", "joined"}
                         \/ (task'[n] = "ticking" /\ IsCalledOff(n)')
                         \/ (task'[n] \in {"waiting", "checking"} /\ ~IsCurrent(n)')
  BY DEF LateExact
<1>0. /\ late[n] \in Nat /\ late[n] <= 1
      /\ late[n] = 1 =>
           \/ task[n] \in {"ended", "joined"}
           \/ (task[n] = "ticking" /\ IsCalledOff(n))
           \/ (task[n] \in {"waiting", "checking"} /\ ~IsCurrent(n))
      /\ task[n] = "none" => late[n] = 0
  BY DEF LateExact, Fresh, TypeOK
<1>1. CASE task'[n] = task[n] /\ late'[n] = late[n]
  BY <1>0, <1>1, CalledOffLasts
<1>2. CASE late' = late /\ (task[n] = "none" \/ task'[n] = "joined")
  BY <1>0, <1>2
<1>3. CASE BeginTick(n)
  <2>1. late[n] = 0 /\ task'[n] = "ticking"
    BY <1>0, <1>3 DEF BeginTick, TypeOK
  <2>2. late'[n] = IF IsCalledOff(n) THEN 1 ELSE 0
    <3>1. late' = [late EXCEPT ![n] = IF IsCalledOff(n) THEN late[n] + 1 ELSE late[n]]
      BY <1>3 DEF BeginTick
    <3> QED
      BY <2>1, <3>1 DEF TypeOK
  <2>3. IsCalledOff(n) => IsCalledOff(n)'
    BY <1>3, CalledOffLasts DEF BeginTick
  <2> QED
    BY <2>1, <2>2, <2>3
<1>4. CASE EndTick(n)
  <2>1. late' = late /\ task[n] = "ticking" /\ UNCHANGED <<key, issued, generation>>
    BY <1>4 DEF EndTick, deliveryVars, world
  <2>2. CASE WasLast(n)
    BY <1>0, <1>4, <2>1, <2>2 DEF EndTick, End, TypeOK
  <2>3. CASE ~WasLast(n)
    <3>1. ~arrived[n] /\ task'[n] = IF IsStopped(n) THEN "ended" ELSE "waiting"
      BY <1>4, <2>3 DEF EndTick, Wait, WasLast, TypeOK
    <3>2. ~IsCurrent(n) => ~IsCurrent(n)'
      BY <2>1 DEF IsCurrent, Dest
    <3>3. late[n] = 1 => IsStopped(n) \/ ~IsCurrent(n)
      BY <1>0, <2>1, <3>1 DEF IsCalledOff
    <3> QED
      BY <1>0, <2>1, <3>1, <3>2, <3>3
  <2> QED
    BY <2>2, <2>3
<1>5. CASE Start(n) \/ Elapse(n) \/ Check(n) \/ Stop(n)
  <2>1. late' = late /\ task[n] \in Running
    BY <1>5, RunningCases DEF Start, Elapse, Check, Stop
  <2>2. CASE Start(n)
    BY <1>0, <2>1, <2>2 DEF Start
  <2>3. CASE Elapse(n)
    <3>1. task[n] = "waiting" /\ task'[n] = "checking"
      BY <2>3 DEF Elapse, TypeOK
    <3>2. ~IsCurrent(n) => ~IsCurrent(n)'
      BY <3>1, CalledOffLasts
    <3> QED
      BY <1>0, <2>1, <3>1, <3>2
  <2>4. CASE Check(n)
    <3>1. task[n] = "checking" /\ (IsCurrent(n) \/ task'[n] = "ended")
      BY <2>4 DEF Check, TypeOK
    <3> QED
      BY <1>0, <2>1, <3>1
  <2>5. CASE Stop(n)
    <3>1. task'[n] = "ended"
      BY <2>5 DEF Stop, End, TypeOK
    <3> QED
      BY <1>0, <2>1, <3>1
  <2> QED
    BY <1>5, <2>2, <2>3, <2>4, <2>5
<1> QED
  BY <1>1, <1>2, <1>3, <1>4, <1>5, TaskMoves DEF CountdownStep

-----------------------------------------------------------------------------
(* Outdated countdowns *)

(* Only the queueing of a cancellation makes countdowns outdated.          *)
LEMMA OutdatedStays ==
  ASSUME TypeOK, CurrentExact, [Next]_vars, NEW n \in Numbers, Outdated(n)'
  PROVE  \/ Outdated(n)
         \/ \E d \in Destinations : QueueCancel(d) /\ key[current[d]] = key[n]
<1>0. key' = key
  BY KeyKept
<1>1. ASSUME NEW d \in Destinations, BeginDelivery(d)
      PROVE  Outdated(n)
  <2>1. /\ pushed' = pushed
        /\ \A e \in Destinations : phase'[e] \in {"pushing", "scheduling"} =>
             phase'[e] = phase[e] /\ current'[e] = current[e]
    BY <1>1 DEF BeginDelivery, TypeOK
  <2> QED
    BY <1>0, <2>1 DEF Outdated
<1>2. ASSUME NEW d \in Destinations, QueueCancel(d), ~Outdated(n)
      PROVE  key[current[d]] = key[n]
  <2>1. /\ pushed' = pushed /\ current' = current
        /\ \A e \in Destinations : e # d => phase'[e] = phase[e]
    BY <1>2 DEF QueueCancel, TypeOK
  <2> QED
    BY <1>0, <1>2, <2>1 DEF Outdated
<1>3. ASSUME NEW d \in Destinations, PushSucceeds(d)
      PROVE  Outdated(n)
  <2> DEFINE c == current[d]
  <2>1. /\ phase[d] = "pushing" /\ pushed' = [pushed EXCEPT ![key[c]] = c] /\ key[n] \in Keys
        /\ n \in Nat
    BY <1>3 DEF PushSucceeds, TypeOK, Numbers
  <2>2. \A e \in Destinations : phase'[e] \in {"pushing", "scheduling"} =>
          phase[e] \in {"pushing", "scheduling"} /\ current'[e] = current[e]
    BY <1>3 DEF PushSucceeds, EndDelivery, TypeOK
  <2>3. CASE n < pushed'[key[n]]
    <3>1. CASE key[n] = key[c]
      <4>1. n < c
        BY <2>1, <2>3, <3>1 DEF TypeOK
      <4>2. c # n
        BY <2>1, <4>1 DEF TypeOK
      <4> QED
        BY <2>1, <3>1, <4>2 DEF Outdated
    <3>2. CASE key[n] # key[c]
      BY <2>1, <2>3, <3>2 DEF Outdated, TypeOK
    <3> QED
      BY <3>1, <3>2
  <2>4. CASE \E e \in Destinations :
               /\ phase'[e] \in {"pushing", "scheduling"}
               /\ current'[e] # n
               /\ key'[current'[e]] = key'[n]
    BY <1>0, <2>2, <2>4 DEF Outdated
  <2> QED
    BY <1>0, <2>3, <2>4 DEF Outdated
<1>4. ASSUME NEW d \in Destinations, PushFails(d) \/ QueueSchedule(d)
      PROVE  Outdated(n)
  <2>1. /\ pushed' = pushed
        /\ \A e \in Destinations : phase'[e] \in {"pushing", "scheduling"} =>
             phase'[e] = phase[e] /\ current'[e] = current[e]
    BY <1>4 DEF PushFails, QueueSchedule, EndDelivery, TypeOK
  <2> QED
    BY <1>0, <2>1 DEF Outdated
<1>5. CASE UNCHANGED <<key, phase, current, pushed>>
  BY <1>5 DEF Outdated
<1>6. \/ UNCHANGED <<key, phase, current, pushed>>
      \/ \E d \in Destinations : BeginDelivery(d) \/ DeliveryStep(d)
  BY CountdownMoves
     DEF Next, ChangeSubscription, EngineStep, HandleSchedule, HandleCancel, StopEngine, EndEngine,
         Join, Arrive, Close, vars, deliveryVars
<1> QED
  BY <1>1, <1>2, <1>3, <1>4, <1>5, <1>6 DEF DeliveryStep

(* A countdown is not outdated when its delivery schedules it.             *)
LEMMA ScheduledIsNew ==
  ASSUME TypeOK, CurrentExact, NEW d \in Destinations, QueueSchedule(d),
         NEW c \in Numbers, c = current[d]
  PROVE  ~Outdated(c)'
<1>1. /\ Dest(c) = d /\ \A k \in Keys : k[1] = d => pushed[k] <= c
      /\ c \in Nat
  BY DEF QueueSchedule, CurrentExact, Numbers
<1>2. key[c] \in Keys /\ pushed[key[c]] <= c /\ pushed[key[c]] \in Nat
  BY <1>1 DEF TypeOK, Dest
<1>3. /\ key' = key /\ pushed' = pushed
      /\ phase' = [phase EXCEPT ![d] = "idle"] /\ current' = [current EXCEPT ![d] = 0]
  BY DEF QueueSchedule, EndDelivery
<1>4. ASSUME NEW e \in Destinations, phase'[e] \in {"pushing", "scheduling"}
      PROVE  key[current'[e]] # key[c]
  <2>1. e # d /\ phase[e] # "idle" /\ current'[e] = current[e]
    BY <1>3, <1>4 DEF TypeOK
  <2>2. Dest(current[e]) = e
    BY <2>1 DEF CurrentExact
  <2> QED
    BY <1>1, <2>1, <2>2 DEF Dest
<1>5. ~(c < pushed'[key[c]])
  BY <1>1, <1>2, <1>3
<1> QED
  BY <1>3, <1>4, <1>5 DEF Outdated

LEMMA OutdatedStep ==
  ASSUME IInv, [Next]_vars
  PROVE  OutdatedExact'
<1> USE DEF IInv
<1> SUFFICES ASSUME NEW n \in Numbers, Outdated(n)'
             PROVE  /\ task'[n] \in Running /\ ~cancelled'[n] =>
                         \E i \in 1 .. Len(channel') : channel'[i] = Cancel(key[n])
                    /\ \A i \in 1 .. Len(channel') :
                         channel'[i].op = "schedule" /\ channel'[i].number = n =>
                           \E j \in i + 1 .. Len(channel') : channel'[j] = Cancel(key[n])
  BY KeyKept DEF OutdatedExact, CancelIsQueued, IsSchedule, Cancel
<1>0. Outdated(n) =>
        /\ task[n] \in Running /\ ~cancelled[n] =>
             \E i \in 1 .. Len(channel) : channel[i] = Cancel(key[n])
        /\ \A i \in 1 .. Len(channel) : channel[i].op = "schedule" /\ channel[i].number = n =>
             \E j \in i + 1 .. Len(channel) : channel[j] = Cancel(key[n])
  BY DEF OutdatedExact, CancelIsQueued, IsSchedule
<1>1. ASSUME channel' = channel, Outdated(n),
             task'[n] \in Running /\ ~cancelled'[n] => task[n] \in Running /\ ~cancelled[n]
      PROVE  /\ task'[n] \in Running /\ ~cancelled'[n] =>
                  \E i \in 1 .. Len(channel') : channel'[i] = Cancel(key[n])
             /\ \A i \in 1 .. Len(channel') :
                  channel'[i].op = "schedule" /\ channel'[i].number = n =>
                    \E j \in i + 1 .. Len(channel') : channel'[j] = Cancel(key[n])
  BY <1>0, <1>1
<1>2. ASSUME NEW d \in Destinations, QueueCancel(d)
      PROVE  /\ task'[n] \in Running /\ ~cancelled'[n] =>
                  \E i \in 1 .. Len(channel') : channel'[i] = Cancel(key[n])
             /\ \A i \in 1 .. Len(channel') :
                  channel'[i].op = "schedule" /\ channel'[i].number = n =>
                    \E j \in i + 1 .. Len(channel') : channel'[j] = Cancel(key[n])
  <2>1. task' = task /\ cancelled' = cancelled
    BY <1>2 DEF QueueCancel, taskVars
  <2>2. CASE engine = "ended"
    <3>1. channel = <<>> /\ task[n] \notin Running
      BY <2>2 DEF ChannelExact
    <3>2. channel' = channel
      BY <1>2, <2>2 DEF QueueCancel, Queue, IsClosed
    <3>3. Len(channel') = 0
      BY <3>1, <3>2
    <3> QED
      BY <2>1, <3>1, <3>3
  <2>3. CASE engine # "ended"
    <3>1. channel' = Append(channel, Cancel(key[current[d]]))
      BY <1>2, <2>3 DEF QueueCancel, Queue, IsClosed
    <3>2. PICK l \in Nat : l = Len(channel)
      BY DEF TypeOK
    <3>3. /\ Len(channel') = l + 1 /\ channel'[l + 1] = Cancel(key[current[d]])
          /\ \A i \in 1 .. l : channel'[i] = channel[i]
      BY <3>1, <3>2, AppendAt
    <3>4. CASE key[current[d]] = key[n]
      <4>1. /\ l + 1 \in 1 .. Len(channel') /\ channel'[l + 1] = Cancel(key[n])
            /\ channel'[l + 1].op # "schedule"
        BY <3>3, <3>4 DEF Cancel
      <4>2. ASSUME NEW i \in 1 .. Len(channel'), channel'[i].op = "schedule"
            PROVE  l + 1 \in i + 1 .. Len(channel')
        BY <3>3, <4>1, <4>2
      <4> QED
        BY <4>1, <4>2
    <3>5. CASE Outdated(n) /\ key[current[d]] # key[n]
      <4>1. ASSUME task[n] \in Running, ~cancelled[n]
            PROVE  \E i \in 1 .. Len(channel') : channel'[i] = Cancel(key[n])
        BY <1>0, <3>2, <3>3, <3>5, <4>1
      <4>2. ASSUME NEW i \in 1 .. Len(channel'), channel'[i].op = "schedule",
                   channel'[i].number = n
            PROVE  \E j \in i + 1 .. Len(channel') : channel'[j] = Cancel(key[n])
        <5>1. i \in 1 .. l
          BY <3>3, <4>2 DEF Cancel
        <5>2. PICK j \in i + 1 .. l : channel[j] = Cancel(key[n])
          BY <1>0, <3>2, <3>3, <3>5, <4>2, <5>1
        <5> QED
          BY <3>3, <5>1, <5>2
      <4> QED
        BY <2>1, <4>1, <4>2
    <3>6. Outdated(n) \/ key[current[d]] = key[n]
      <4>1. CASE \E e \in Destinations : QueueCancel(e) /\ key[current[e]] = key[n]
        <5>1. PICK e \in Destinations : QueueCancel(e) /\ key[current[e]] = key[n]
          BY <4>1
        <5>2. phase[e] = "cancelling" /\ phase'[e] = "pushing"
          BY <5>1 DEF QueueCancel, TypeOK
        <5>3. e = d
          BY <1>2, <5>2 DEF QueueCancel, TypeOK
        <5> QED
          BY <5>1, <5>3
      <4> QED
        BY <4>1, OutdatedStays
    <3> QED
      BY <3>4, <3>5, <3>6
  <2> QED
    BY <2>2, <2>3
<1>3. ASSUME NEW d \in Destinations, QueueSchedule(d), Outdated(n)
      PROVE  /\ task'[n] \in Running /\ ~cancelled'[n] =>
                  \E i \in 1 .. Len(channel') : channel'[i] = Cancel(key[n])
             /\ \A i \in 1 .. Len(channel') :
                  channel'[i].op = "schedule" /\ channel'[i].number = n =>
                    \E j \in i + 1 .. Len(channel') : channel'[j] = Cancel(key[n])
  <2>1. task' = task /\ cancelled' = cancelled
    BY <1>3 DEF QueueSchedule, taskVars
  <2>2. CASE channel' = channel
    BY <1>1, <1>3, <2>1, <2>2
  <2>3. CASE channel' = Append(channel, Schedule(current[d]))
    <3>2. PICK l \in Nat : l = Len(channel)
      BY DEF TypeOK
    <3>3. /\ Len(channel') = l + 1 /\ channel'[l + 1] = Schedule(current[d])
          /\ \A i \in 1 .. l : channel'[i] = channel[i]
      BY <2>3, <3>2, AppendAt
    <3>4. current[d] # n
      BY <1>3, ScheduledIsNew
    <3>5. ASSUME task[n] \in Running, ~cancelled[n]
          PROVE  \E i \in 1 .. Len(channel') : channel'[i] = Cancel(key[n])
      BY <1>0, <1>3, <3>2, <3>3, <3>5
    <3>6. ASSUME NEW i \in 1 .. Len(channel'), channel'[i].op = "schedule",
                 channel'[i].number = n
          PROVE  \E j \in i + 1 .. Len(channel') : channel'[j] = Cancel(key[n])
      <4>1. i \in 1 .. l
        BY <3>3, <3>4, <3>6 DEF Schedule
      <4>2. PICK j \in i + 1 .. l : channel[j] = Cancel(key[n])
        BY <1>0, <1>3, <3>2, <3>3, <3>6, <4>1
      <4> QED
        BY <3>3, <4>1, <4>2
    <3> QED
      BY <2>1, <3>5, <3>6
  <2> QED
    BY <1>3, <2>2, <2>3 DEF QueueSchedule, Queue
<1>4. ASSUME HandleSchedule \/ HandleCancel, Outdated(n)
      PROVE  /\ task'[n] \in Running /\ ~cancelled'[n] =>
                  \E i \in 1 .. Len(channel') : channel'[i] = Cancel(key[n])
             /\ \A i \in 1 .. Len(channel') :
                  channel'[i].op = "schedule" /\ channel'[i].number = n =>
                    \E j \in i + 1 .. Len(channel') : channel'[j] = Cancel(key[n])
  <2>0. PICK l \in Nat : l = Len(channel)
    BY DEF TypeOK
  <2>1. channel # <<>> /\ channel' = Tail(channel) /\ CancelCurrent(channel[1].key)
    BY <1>4, FirstCommand DEF HandleSchedule, HandleCancel
  <2>2. /\ 1 <= l /\ Len(channel') = l - 1
        /\ \A i \in 1 .. l - 1 : channel'[i] = channel[i + 1]
    BY <2>0, <2>1, FirstCommand
  <2>3. ASSUME NEW i \in 2 .. l
        PROVE  i - 1 \in 1 .. Len(channel') /\ channel'[i - 1] = channel[i]
    BY <2>2
  <2>4. cancelled[n] => cancelled'[n]
    BY <2>1 DEF CancelCurrent, TypeOK
  <2>5. ASSUME task[n] \in Running, ~cancelled'[n]
        PROVE  \E i \in 1 .. Len(channel') : channel'[i] = Cancel(key[n])
    <3>1. PICK i \in 1 .. l : channel[i] = Cancel(key[n])
      BY <1>0, <1>4, <2>0, <2>4, <2>5
    <3>2. channel[1].key # key[n]
      <4>1. active[key[n]] = n /\ key[n] \in Keys /\ n # 0
        BY <2>4, <2>5 DEF RunningIsKnown, TypeOK, Numbers
      <4> QED
        BY <2>1, <2>5, <4>1 DEF CancelCurrent, TypeOK
    <3>3. i # 1
      BY <3>1, <3>2 DEF Cancel
    <3>4. i \in 2 .. l
      BY <3>3
    <3> QED
      BY <2>3, <3>1, <3>4
  <2>6. ASSUME task[n] \notin Running, task'[n] \in Running
        PROVE  \E i \in 1 .. Len(channel') : channel'[i] = Cancel(key[n])
    <3>1. channel[1].op = "schedule" /\ channel[1].number = n
      <4>1. CASE HandleCancel
        BY <2>6, <4>1 DEF HandleCancel, taskVars
      <4>2. CASE HandleSchedule
        <5>1. /\ channel[1].op = "schedule" /\ channel[1].number \in Numbers
              /\ task' = [task EXCEPT ![channel[1].number] = "new"]
          BY <2>1, <4>2, FirstCommand DEF HandleSchedule
        <5> QED
          BY <2>6, <5>1 DEF TypeOK
      <4> QED
        BY <1>4, <4>1, <4>2
    <3>2. PICK j \in 2 .. l : channel[j] = Cancel(key[n])
      BY <1>0, <1>4, <2>0, <2>2, <3>1
    <3> QED
      BY <2>3, <3>2
  <2>7. ASSUME NEW i \in 1 .. Len(channel'), channel'[i].op = "schedule",
               channel'[i].number = n
        PROVE  \E j \in i + 1 .. Len(channel') : channel'[j] = Cancel(key[n])
    <3>1. i + 1 \in 1 .. l /\ channel'[i] = channel[i + 1]
      BY <2>2
    <3>2. PICK j \in (i + 1) + 1 .. l : channel[j] = Cancel(key[n])
      BY <1>0, <1>4, <2>0, <2>7, <3>1
    <3>3. j \in 2 .. l /\ j - 1 \in i + 1 .. Len(channel')
      BY <2>2, <3>1, <3>2
    <3> QED
      BY <2>3, <3>2, <3>3
  <2> QED
    BY <2>5, <2>6, <2>7
<1>5. CASE EndEngine
  <2>1. channel' = <<>> /\ task'[n] \in {"none", "joined"}
    BY <1>5 DEF EndEngine, taskVars
  <2>2. Len(channel') = 0
    BY <2>1
  <2> QED
    BY <2>1, <2>2, RunningCases
<1>6. CASE StopEngine
  <2>1. channel' = channel /\ task' = task /\ (~cancelled'[n] => ~cancelled[n])
    BY <1>6 DEF StopEngine, taskVars
  <2>2. Outdated(n)
    BY <1>6, OutdatedStays DEF StopEngine, QueueCancel, deliveryVars, TypeOK
  <2> QED
    BY <1>1, <2>1, <2>2
<1>7. ASSUME NEW m \in Numbers, Join(m) \/ CountdownStep(m)
      PROVE  channel' = channel /\ cancelled' = cancelled
             /\ (task'[n] \in Running => task[n] \in Running)
  <2>1. CASE Join(m)
    BY <2>1, RunningCases DEF Join, TypeOK
  <2>2. CASE CountdownStep(m)
    BY <2>2, CountdownMoves DEF TypeOK
  <2> QED
    BY <1>7, <2>1, <2>2
<1>8. ASSUME NEW d \in Destinations,
             BeginDelivery(d) \/ PushSucceeds(d) \/ PushFails(d) \/ ChangeSubscription(d)
      PROVE  channel' = channel /\ cancelled' = cancelled /\ task' = task
  BY <1>8 DEF BeginDelivery, PushSucceeds, PushFails, ChangeSubscription, taskVars
<1>9. ASSUME Close \/ (\E m \in Numbers : Arrive(m)) \/ UNCHANGED vars
      PROVE  channel' = channel /\ cancelled' = cancelled /\ task' = task
  BY <1>9 DEF Close, Arrive, vars, taskVars
<1>10. CASE Outdated(n)
  BY <1>1, <1>2, <1>3, <1>4, <1>5, <1>6, <1>7, <1>8, <1>9, <1>10
     DEF Next, EngineStep, DeliveryStep
<1>11. CASE ~Outdated(n)
  BY <1>2, <1>11, OutdatedStays
<1> QED
  BY <1>10, <1>11

-----------------------------------------------------------------------------
(* The invariant *)

LEMMA InvariantInit == Init => IInv
<1> SUFFICES ASSUME Init PROVE IInv
  OBVIOUS
<1>1. TypeOK
  BY TypeInit
<1>2. Len(channel) = 0 /\ \A n \in Numbers : task[n] = "none"
  BY DEF Init
<1>3. RunningIsKnown /\ LateExact
  BY <1>2, RunningCases DEF RunningIsKnown, LateExact, Init
<1>4. CurrentExact
  BY DEF CurrentExact, Init
<1>5. ChannelExact
  BY <1>2 DEF ChannelExact, Init
<1>6. Fresh
  BY <1>1, CommandTypes DEF Fresh, Init
<1>7. OutdatedExact
  <2>1. \A n \in Numbers : ~Outdated(n)
    BY <1>1 DEF Outdated, Init, TypeOK, Numbers
  <2> QED
    BY <2>1 DEF OutdatedExact
<1> QED
  BY <1>1, <1>3, <1>4, <1>5, <1>6, <1>7 DEF IInv

(* The strengthening holds in every state of the countdown engine.         *)
THEOREM Invariant == Spec => []IInv
<1>1. Init => IInv
  BY InvariantInit
<1>2. IInv /\ [Next]_vars => IInv'
  <2> SUFFICES ASSUME IInv, [Next]_vars PROVE IInv'
    OBVIOUS
  <2>1. TypeOK' /\ RunningIsKnown' /\ CurrentExact'
    BY TypeStep, KnownStep, CurrentStep DEF IInv
  <2>2. ChannelExact' /\ Fresh' /\ LateExact' /\ OutdatedExact'
    BY ChannelStep, FreshStep, LateStep, OutdatedStep DEF IInv
  <2> QED
    BY <2>1, <2>2 DEF IInv
<1> QED
  BY <1>1, <1>2, PTL DEF Spec

(* Every variable of the countdown engine keeps its type, and its command  *)
(* channel never holds more than COUNTDOWN_COMMAND_CAPACITY commands.      *)
THEOREM TypeCorrect == Spec => []TypeOK
<1>1. IInv => TypeOK
  BY DEF IInv
<1> QED
  BY <1>1, Invariant, PTL

(* The countdown that runs uncancelled for a key is the one that the       *)
(* engine's map names: an alert for the key always finds it.               *)
THEOREM KnownCorrect == Spec => []RunningIsKnown
<1>1. IInv => RunningIsKnown
  BY DEF IInv
<1> QED
  BY <1>1, Invariant, PTL

(* After a newer alert of its key was pushed, the cancellation of a        *)
(* running countdown has been made or waits in the engine's channel.       *)
THEOREM OutdatedCorrect == Spec => []OutdatedIsCalledOff
<1>1. IInv => OutdatedIsCalledOff
  BY DEF IInv, OutdatedExact, Outdated, OutdatedIsCalledOff
<1> QED
  BY <1>1, Invariant, PTL

(* A countdown called off begins at most one more tick, the one that the   *)
(* select of its wait and its watches may have let through.                *)
THEOREM LateCorrect == Spec => []LateTicksBounded
<1>1. IInv => LateTicksBounded
  BY DEF IInv, LateExact, LateTicksBounded
<1> QED
  BY <1>1, Invariant, PTL
=============================================================================

-------------------------------- MODULE Links --------------------------------
(***************************************************************************)
(* The detail links of notifications (src/delivery/context.rs): a snapshot  *)
(* of what was announced is stored under the hash of its bytes, the store   *)
(* is synced, and only then the link, with the signed hash, goes to Bark.   *)
(* Rows of a batch are sent by the delivery and the retry engine            *)
(* (deliver_row_locked), others by the simulation tool, one after the       *)
(* other. Contexts are pruned at startup, by the time they were stored.     *)
(* Only tokens this service signed are presented.                           *)
(***************************************************************************)
EXTENDS Integers, Sequences, Functions

CONSTANTS
  Notices,         (* the rows there are to send: records of to, incident,  *)
                   (* event, target, level, rule and issued                 *)
  Simulated,       (* what a simulate request finds to send: a sequence of  *)
                   (* such records, Nothing where a key has no subscription *)
  Nothing,
  Retention,       (* notification_context_retention_days                   *)
  MaxDays          (* bound on the days that pass                           *)

ASSUME LinksAssumption == Retention \in Nat \ {0} /\ MaxDays \in Nat

VARIABLES
  today,
  serving,         (* the process is up and done with its startup           *)
  contexts,        (* keyspace contexts: snapshot to the day it was stored  *)
  synced,          (* what of it survives a crash                           *)
  incidents,       (* the incidents in the store                            *)
  send,            (* the prepared context of a notice, and how far it is   *)
  todo,            (* what dispatch() has still to send                     *)
  orphans,         (* contexts still being stored for a client that is gone *)
  pushed           (* observation: one of the links that reached a device   *)

linkVars == <<today, serving, contexts, synced, incidents, send, todo, orphans, pushed>>

-----------------------------------------------------------------------------
TextLimit == 1                         (* of 0 none, 1 what fits, 2 more    *)

Truncated(size) == IF size > TextLimit THEN TextLimit ELSE size

EventSnapshot(e) == [e EXCEPT !.size = Truncated(@)]

(* Nothing of it depends on the destination. The estimate of the arrival     *)
(* times follows from the event and the target, except that an event without *)
(* a readable time draws it from the clock, and a retry then stores another  *)
(* context: left out.                                                        *)
Snapshot(n) ==
  [version |-> 1, incident |-> n.incident, issued |-> n.issued,
   event |-> EventSnapshot(n.event), target |-> n.target, level |-> n.level, rule |-> n.rule]

ValidRuleSnapshot(s) == s.rule = s.event.category

ValidSnapshot(s) == s.version = 1 /\ s.event.size <= TextLimit /\ ValidRuleSnapshot(s)

Everyone == Notices \cup (Range(Simulated) \ {Nothing})
Idle == [step |-> "idle"]

InitLinks ==
  /\ today = 0 /\ serving = TRUE
  /\ contexts = <<>> /\ synced = <<>>
  /\ incidents = {n.incident : n \in Notices}
  /\ send = [n \in Everyone |-> Idle]
  /\ todo = <<>>
  /\ orphans = {}
  /\ pushed = {}

-----------------------------------------------------------------------------
InTurn(n) == n \in Notices \/ (todo # <<>> /\ Head(todo) = n)

(* The send of n is over; dispatch() turns to its next.                     *)
Finish(n) ==
  /\ send' = [send EXCEPT ![n] = Idle]
  /\ todo' = IF n \in Notices THEN todo ELSE Tail(todo)

Prepare(n) ==                          (* prepare_url_for                   *)
  /\ serving /\ send[n] = Idle /\ InTurn(n)
  /\ ValidSnapshot(Snapshot(n))
  /\ send' = [send EXCEPT ![n] = [step |-> "prepared", context |-> Snapshot(n), stored_at |-> today]]
  /\ UNCHANGED <<today, serving, contexts, synced, incidents, todo, orphans, pushed>>

Inserted(s) ==                         (* put_context                       *)
  [c \in DOMAIN contexts \cup {s.context} |->
     IF c = s.context THEN s.stored_at ELSE contexts[c]]

PutPrepared(n) ==                      (* the insert of put_prepared        *)
  /\ send[n].step = "prepared"
  /\ contexts' = Inserted(send[n])
  /\ send' = [send EXCEPT ![n].step = "put"]
  /\ UNCHANGED <<today, serving, synced, incidents, todo, orphans, pushed>>

SkipsSync(n) ==                        (* mutant: no persist                *)
  /\ send[n].step = "put"
  /\ send' = [send EXCEPT ![n].step = "persisted"]
  /\ UNCHANGED <<today, serving, contexts, synced, incidents, todo, orphans, pushed>>

Persist(n) ==                          (* its persist                       *)
  /\ send[n].step = "put"
  /\ synced' = contexts
  /\ send' = [send EXCEPT ![n].step = "persisted"]
  /\ UNCHANGED <<today, serving, contexts, incidents, todo, orphans, pushed>>

(* Bark takes the notification; its answer may get lost, and the row is     *)
(* tried again.                                                             *)
Push(n) ==
  /\ send[n].step = "persisted"
  /\ pushed' \in {pushed, {[context |-> send[n].context, stored_at |-> send[n].stored_at]}}
  /\ Finish(n)
  /\ UNCHANGED <<today, serving, contexts, synced, incidents, orphans>>

GiveUp(n) ==                           (* an error: the row is retried, a simulated one skipped *)
  /\ send[n] # Idle
  /\ Finish(n)
  /\ UNCHANGED <<today, serving, contexts, synced, incidents, orphans, pushed>>

Simulate ==                            (* dispatch                          *)
  /\ serving /\ todo = <<>>
  /\ todo' = Simulated
  /\ UNCHANGED <<today, serving, contexts, synced, incidents, send, orphans, pushed>>

SkipKey ==                             (* no subscription for the key       *)
  /\ todo # <<>> /\ Head(todo) = Nothing
  /\ todo' = Tail(todo)
  /\ UNCHANGED <<today, serving, contexts, synced, incidents, send, orphans, pushed>>

Storing(s) == s.step \in {"prepared", "put"}

(* The client is gone and the rest is not sent. The blocking task that       *)
(* stores a context runs on, with nobody to push its link.                   *)
HangUpSimulate ==
  /\ todo # <<>>
  /\ todo' = <<>>
  /\ send' = [n \in Everyone |-> IF n \in Notices THEN send[n] ELSE Idle]
  /\ orphans' = orphans \cup {s \in {send[n] : n \in Everyone \ Notices} : Storing(s)}
  /\ UNCHANGED <<today, serving, contexts, synced, incidents, pushed>>

PutOrphan(s) ==
  /\ s.step = "prepared"
  /\ contexts' = Inserted(s)
  /\ orphans' = (orphans \ {s}) \cup {[s EXCEPT !.step = "put"]}
  /\ UNCHANGED <<today, serving, synced, incidents, send, todo, pushed>>

PersistOrphan(s) ==
  /\ s.step = "put"
  /\ synced' = contexts
  /\ orphans' = orphans \ {s}
  /\ UNCHANGED <<today, serving, contexts, incidents, send, todo, pushed>>

FailOrphan(s) ==
  /\ orphans' = orphans \ {s}
  /\ UNCHANGED <<today, serving, contexts, synced, incidents, send, todo, pushed>>

-----------------------------------------------------------------------------
(* What was not synced may be lost.                                         *)
Crash ==
  /\ serving
  /\ serving' = FALSE
  /\ contexts' \in {contexts, synced}
  /\ send' = [n \in Everyone |-> Idle] /\ todo' = <<>> /\ orphans' = {}
  /\ UNCHANGED <<today, synced, incidents, pushed>>

Retained(c) == contexts[c] > today - Retention

(* prune_retained_data of the incidents, whose retention is another, and    *)
(* prune_retained.                                                          *)
Startup ==
  /\ ~serving
  /\ serving' = TRUE
  /\ incidents' \in SUBSET incidents
  /\ contexts' = [c \in {d \in DOMAIN contexts : Retained(d)} |-> contexts[c]]
  /\ UNCHANGED <<today, synced, send, todo, orphans, pushed>>

(* No day passes between the preparation of a context and its push, or the  *)
(* end of its storing.                                                      *)
NextDay ==
  /\ today < MaxDays /\ orphans = {} /\ \A n \in Everyone : send[n] = Idle
  /\ today' = today + 1
  /\ UNCHANGED <<serving, contexts, synced, incidents, send, todo, orphans, pushed>>

NextLinks ==
  \/ \E n \in Everyone : Prepare(n) \/ PutPrepared(n) \/ Persist(n) \/ Push(n) \/ GiveUp(n)
  \/ Simulate \/ SkipKey \/ HangUpSimulate
  \/ \E s \in orphans : PutOrphan(s) \/ PersistOrphan(s) \/ FailOrphan(s)
  \/ Crash \/ Startup \/ NextDay

LinksSpec == InitLinks /\ [][NextLinks]_linkVars

-----------------------------------------------------------------------------
(* The detail handler: what the page for an incident and a token shows.     *)
Got(c) == c \in DOMAIN contexts        (* and the key is the hash of it     *)

Verified(i, c) == Got(c) /\ ValidSnapshot(c) /\ c.incident = i

Public(c) == [f \in DOMAIN c \ {"version"} |-> c[f]]

NotFound == [status |-> 404]

Detail(i, c) ==
  IF Verified(i, c)
  THEN [status |-> 200, snapshot |-> Public(c), recorded |-> i \in incidents]
  ELSE NotFound

(* A link that reached a device opens for the whole retention time, whatever *)
(* crashed or was pruned since, and shows the incident of its own path only  *)
(* (put_prepared, prune and verify, context.rs 98-157, 435-467; the persist   *)
(* before the push, pipeline.rs 1193-1211, simulate/mod.rs 487-500). A link   *)
(* whose context another notice shares lasts no less.                         *)
LinkOpens ==
  \A p \in pushed : serving /\ today - p.stored_at < Retention =>
    /\ Detail(p.context.incident, p.context).status = 200
    /\ \A n \in Everyone : n.incident # p.context.incident =>
         Detail(n.incident, p.context) = NotFound
=============================================================================

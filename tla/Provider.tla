------------------------------ MODULE Provider ------------------------------
(***************************************************************************)
(* WolfxSource (src/providers): the WebSocket client that connects, reads    *)
(* one message after the other, submits the reports, answers the            *)
(* heartbeats, backs off when a connection is lost, and ends when it is      *)
(* asked to. The select! of a step is biased: where two things are ready,    *)
(* the first that is listed is taken, and for the reads that is the feed.    *)
(*                                                                           *)
(* What the store does with a report is in Incidents; here it takes it or    *)
(* fails.                                                                    *)
(***************************************************************************)
EXTENDS Integers, Sequences

CONSTANTS
  Feed,            (* the texts the server may send, any number of times    *)
  Registry,        (* provider_key to category: source_registry::SOURCES    *)
  DelayMin,        (* reconnect_min_seconds                                 *)
  DelayMax,        (* reconnect_max_seconds                                 *)
  MaxUnread        (* bound on the messages sent and not read               *)

ASSUME DelayAssumption == DelayMin \in Nat \ {0} /\ DelayMax \in Nat /\ DelayMin <= DelayMax

VARIABLES
  asked,           (* provider_shutdown was sent                           *)
  source,          (* where run() and connect_once() are                   *)
  reading,         (* the text in hand                                     *)
  unread,          (* what the server sent on this connection              *)
  healthy,         (* connected for HEALTHY_CONNECTION_UPTIME              *)
  delay            (* what the next reconnect waits                        *)

providerVars == <<asked, source, reading, unread, healthy, delay>>

-----------------------------------------------------------------------------
NoText == [type |-> "none"]

(* find_provider: no pong, no heartbeat and no text without a type.        *)
Supported(m) == m.type \in DOMAIN Registry

(* parse: the fields that its type must have are there.                    *)
Parses(m) == m.complete

(* normalize: the category of the registry, a warning if it has none.      *)
Normalize(m) ==
  [source |-> m.type, fits |-> m.fits,
   category |-> IF Supported(m) THEN Registry[m.type] ELSE "warning"]

(* sanitize_event.                                                         *)
Fits(e) == e.fits

(* The check of ingest_with_cursor.                                        *)
Agrees(e) == e.source \in DOMAIN Registry /\ Registry[e.source] = e.category

-----------------------------------------------------------------------------
InitProvider ==
  /\ asked = FALSE
  /\ source = "made" /\ reading = NoText /\ unread = <<>>
  /\ healthy = FALSE /\ delay = DelayMin

Turn(s) == source' = s
Connected == source \in {"open", "reading", "ponging", "submitting"}

Spawn ==                               (* as the process starts            *)
  /\ source = "made" /\ Turn("top")
  /\ UNCHANGED <<asked, reading, unread, healthy, delay>>

Shutdown ==
  /\ source # "made" /\ ~asked /\ asked' = TRUE
  /\ UNCHANGED <<source, reading, unread, healthy, delay>>

BeginConnect ==
  /\ source = "top"
  /\ Turn(IF asked THEN "ended" ELSE "connecting")
  /\ UNCHANGED <<asked, reading, unread, healthy, delay>>

(* The shutdown first; else connected, or an error, or the timeout of 10 s. *)
Connect ==
  /\ source = "connecting"
  /\ IF asked THEN Turn("ended") ELSE \E s \in {"open", "lost"} : Turn(s)
  /\ unread' = <<>> /\ healthy' = FALSE
  /\ UNCHANGED <<asked, reading, delay>>

GoesOn == Turn("reading")                (* mutant: the loop does not look   *)

LooksAgain == Turn(IF asked THEN "ended" ELSE "reading")

LoopTop ==                             (* the look at shutdown in the loop *)
  /\ source = "open"
  /\ LooksAgain
  /\ UNCHANGED <<asked, reading, unread, healthy, delay>>

(* A message, or none for 90 s, before the shutdown.                       *)
ReadMessage ==
  /\ source = "reading" /\ unread # <<>>
  /\ LET m == Head(unread) IN
       /\ reading' = IF Supported(m) THEN m ELSE NoText
       /\ Turn(IF m.type = "close" THEN "lost"
             ELSE IF m.type = "heartbeat" THEN "ponging"
             ELSE IF ~Supported(m) \/ ~Parses(m) THEN "open"
             ELSE "submitting")
  /\ unread' = Tail(unread)
  /\ UNCHANGED <<asked, healthy, delay>>

ReadNothing ==
  /\ source = "reading" /\ unread = <<>>
  /\ Turn("lost") \/ (asked /\ Turn("ended"))
  /\ UNCHANGED <<asked, reading, unread, healthy, delay>>

(* The shutdown first; else sent, or an error, or the timeout of 10 s.     *)
Pong ==
  /\ source = "ponging"
  /\ IF asked THEN Turn("ended") ELSE \E s \in {"open", "lost"} : Turn(s)
  /\ UNCHANGED <<asked, reading, unread, healthy, delay>>

(* submit_nonblocking: a report that is refused, or that the store did not *)
(* take, costs the connection.                                             *)
SubmitReport ==
  /\ source = "submitting"
  /\ LET e == Normalize(reading) IN
       \/ Fits(e) /\ Agrees(e) /\ Turn("open")
       \/ Turn("lost")                   (* refused, closing, or a failure   *)
  /\ reading' = NoText
  /\ UNCHANGED <<asked, unread, healthy, delay>>

(* reset_after_healthy_uptime, whose last call counts.                     *)
DelayAfter == IF healthy THEN DelayMin ELSE delay

Lose ==
  /\ source = "lost"
  /\ Turn("sleeping")
  /\ delay' = DelayAfter
  /\ healthy' = FALSE /\ reading' = NoText /\ unread' = <<>>
  /\ UNCHANGED asked

(* The shutdown first; else the delay has passed.                          *)
Sleep ==
  /\ source = "sleeping"
  /\ Turn(IF asked THEN "ended" ELSE "top")
  /\ delay' = IF asked THEN delay ELSE IF 2 * delay < DelayMax THEN 2 * delay ELSE DelayMax
  /\ UNCHANGED <<asked, reading, unread, healthy>>

(* The server, and the time a connection lasts.                            *)
Send(m) ==
  /\ Connected /\ Len(unread) < MaxUnread
  /\ unread' = Append(unread, m)
  /\ UNCHANGED <<asked, source, reading, healthy, delay>>

Uptime ==
  /\ Connected /\ ~healthy
  /\ healthy' = TRUE
  /\ UNCHANGED <<asked, source, reading, unread, delay>>

-----------------------------------------------------------------------------
SourceStep ==
  \/ BeginConnect \/ Connect \/ LoopTop \/ ReadMessage \/ ReadNothing \/ Pong
  \/ SubmitReport \/ Lose \/ Sleep

NextProvider == Spawn \/ SourceStep \/ Shutdown \/ Uptime \/ \E m \in Feed : Send(m)

(* Every wait has a timeout, and the store answers.                        *)
FairProvider == WF_providerVars(SourceStep)

-----------------------------------------------------------------------------
(* Asked to end, the provider ends: also while the server never stops      *)
(* sending, which the select! of the loop prefers to the shutdown, never    *)
(* answers, or loses every connection (wolfx.rs 42-72, 101-116).            *)
ProviderEnds == asked ~> source = "ended"
=============================================================================

-------------------------------- MODULE Bark --------------------------------
(***************************************************************************)
(* BarkNotifier (src/delivery/bark.rs): one push after the other is fitted  *)
(* into the size Bark takes, by cutting the body, then the subtitle, then   *)
(* the title, each as little as possible, found by bisection; it is sent    *)
(* under a permit, and the answer says whether it is done, to be tried      *)
(* again, or never to be tried again.                                       *)
(***************************************************************************)
EXTENDS Integers, FiniteSets, Sequences

CONSTANTS
  Messages,        (* records of body, subtitle, title and overhead         *)
  MaxPayload       (* MAX_BARK_PAYLOAD_BYTES                                *)

(* A text is a sequence of characters. A character has its bytes in UTF-8   *)
(* and its bytes in JSON, which escapes quotes and controls: <<1, 1>> is a   *)
(* letter, <<1, 2>> a quote, <<3, 3>> a Chinese character or the ellipsis.   *)
Characters == {c \in (1 .. 4) \X Nat : c[1] <= c[2]}
Ellipsis == <<3, 3>>

ASSUME BarkAssumption ==
  /\ MaxPayload \in Nat
  /\ \A m \in Messages :
       m.overhead \in Nat /\ \A f \in {"body", "subtitle", "title"} : m[f] \in Seq(Characters)

VARIABLES
  push,            (* where send_notification_with_permit is               *)
  message,         (* what it was asked to send                            *)
  payload,         (* the texts in the payload                             *)
  uncut            (* the fields that may still be cut, in their order      *)

barkVars == <<push, message, payload, uncut>>

-----------------------------------------------------------------------------
Blank == [body |-> <<>>, subtitle |-> <<>>, title |-> <<>>]
Fields == <<"body", "subtitle", "title">>

(* The characters' bytes (k = 1), or their bytes in JSON, added up.          *)
Total(text, k) ==
  LET sum[n \in 0 .. Len(text)] == IF n = 0 THEN 0 ELSE sum[n - 1] + text[n][k]
  IN sum[Len(text)]

Bytes(text) == Total(text, 1)
Json(text) == Total(text, 2)

SizeOf(m, texts) ==
  m.overhead + Json(texts.body) + Json(texts.subtitle) + Json(texts.title)

FitsIn(m, texts) == SizeOf(m, texts) <= MaxPayload

(* truncate_utf8_bytes_with_ellipsis, never in the middle of a character.   *)
Cut(text, max) ==
  LET ends == {n \in 0 .. Len(text) : Bytes(SubSeq(text, 1, n)) <= max - Ellipsis[1]} IN
  IF Bytes(text) <= max THEN text
  ELSE IF max < Ellipsis[1] THEN <<>>
  ELSE Append(SubSeq(text, 1, CHOOSE n \in ends : \A k \in ends : k <= n), Ellipsis)

-----------------------------------------------------------------------------
(* fit_payload_field: the lengths from low to high are left to be tried, and *)
(* best is the longest cut that fits. The loop ends when there are fewer     *)
(* lengths left than least, after as many turns as there are lengths at most. *)
Tried(loop, m, texts, field, least) ==
  LET middle == (loop.low + loop.high) \div 2
      cut == Cut(m[field], middle)
  IN IF loop.high - loop.low + 1 < least THEN loop
     ELSE IF FitsIn(m, [texts EXCEPT ![field] = cut])
     THEN [loop EXCEPT !.low = middle + 1, !.best = cut]
     ELSE [loop EXCEPT !.high = middle - 1]

Bisected(m, texts, field, least) ==
  LET turns == Bytes(m[field]) + 1
      loop[n \in 0 .. turns] ==
        IF n = 0 THEN [low |-> 0, high |-> Bytes(m[field]), best |-> <<>>]
        ELSE Tried(loop[n - 1], m, texts, field, least)
  IN loop[turns].best

StopsEarly(m, texts, field) ==         (* mutant: < for <= in the loop     *)
  Bisected(m, texts, field, 2)

Fitted(m, texts, field) == Bisected(m, texts, field, 1)

-----------------------------------------------------------------------------
InitBark == push = "idle" /\ message = Blank /\ payload = Blank /\ uncut = <<>>

Compose(m) ==                          (* bark_payload                     *)
  /\ push = "idle"
  /\ push' = "fitting" /\ message' = m /\ uncut' = Fields
  /\ payload' = [f \in DOMAIN Blank |-> m[f]]

(* One turn of the loop of fitted_bark_payload.                             *)
CutField ==
  /\ push = "fitting" /\ ~FitsIn(message, payload) /\ uncut # <<>>
  /\ payload' = [payload EXCEPT ![Head(uncut)] = Fitted(message, payload, Head(uncut))]
  /\ uncut' = Tail(uncut)
  /\ UNCHANGED <<push, message>>

LeavesNoRoom ==                        (* its bail!: permanent             *)
  /\ push = "fitting" /\ ~FitsIn(message, payload) /\ uncut = <<>>
  /\ push' = "permanent"
  /\ UNCHANGED <<message, payload, uncut>>

(* The URL may be one that is not allowed any more; the permit is waited    *)
(* for, or there.                                                           *)
BeginPost ==
  /\ push = "fitting" /\ FitsIn(message, payload)
  /\ push' \in {"permanent", "posting"}
  /\ UNCHANGED <<message, payload, uncut>>

-----------------------------------------------------------------------------
(* An answer is a status and the code and success of its body, where None   *)
(* stands for what is missing; a body is also blank or not JSON.            *)
Statuses == {"success", "server_error", "timeout", "too_many", "client_error"}
Codes == {"200", "429", "5xx", "4xx", "other", "none"}
Bodies ==
  [code : Codes, success : {"true", "false", "none"}] \cup {[code |-> "blank"], [code |-> "invalid"]}

BarkFailureIsTransient(status) == status \in {"server_error", "timeout", "too_many"}

ClassifyBarkResponse(status, body) ==
  CASE status # "success" -> IF BarkFailureIsTransient(status) THEN "transient" ELSE "permanent"
    [] body.code = "blank" -> "sent"
    [] body.code = "invalid" -> "transient"
    [] body.code = "200" /\ body.success # "false" -> "sent"
    [] body.code = "none" /\ body.success = "true" -> "sent"
    [] body.code = "4xx" \/ (body.code = "none" /\ body.success = "false") -> "permanent"
    [] OTHER -> "transient"

Answer ==
  /\ push = "posting"
  /\ \/ push' = "transient"                                    (* no answer *)
     \/ \E status \in Statuses, body \in Bodies : push' = ClassifyBarkResponse(status, body)
  /\ UNCHANGED <<message, payload, uncut>>

Return ==
  /\ push \in {"sent", "transient", "permanent"}
  /\ push' = "idle" /\ message' = Blank /\ payload' = Blank /\ uncut' = <<>>

NextBark ==
  \/ \E m \in Messages : Compose(m)
  \/ CutField \/ LeavesNoRoom \/ BeginPost \/ Answer \/ Return

BarkSpec == InitBark /\ [][NextBark]_barkVars

-----------------------------------------------------------------------------
AtTurn(i) ==                           (* those after field i still whole  *)
  [f \in DOMAIN payload |->
     IF \E k \in i + 1 .. 3 : Fields[k] = f THEN message[f] ELSE payload[f]]

Longest(i) ==
  \A max \in 0 .. Bytes(message[Fields[i]]) :
    LET cut == Cut(message[Fields[i]], max) IN
    FitsIn(message, [AtTurn(i) EXCEPT ![Fields[i]] = cut])
      => Bytes(cut) <= Bytes(payload[Fields[i]])

(* What is posted fits, and no more of it is cut than has to be: a field is  *)
(* cut only where those before it were emptied, and as little as possible,   *)
(* whatever its characters and the ellipsis cost in JSON; a push is given up *)
(* only when it does not fit without any text (bark.rs 440-500).             *)
PayloadFits ==
  /\ push = "posting" =>
       /\ FitsIn(message, payload)
       /\ \A i \in 1 .. 3 : payload[Fields[i]] # message[Fields[i]] =>
            Longest(i) /\ \A k \in 1 .. i - 1 : payload[Fields[k]] = <<>>
  /\ push = "fitting" /\ uncut = <<>> /\ ~FitsIn(message, payload) => ~FitsIn(message, Blank)
=============================================================================

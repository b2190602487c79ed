-------------------------- MODULE NotificationRequest --------------------------
(***************************************************************************)
(* The payload of an event as POST /notifications and the RabbitMQ message *)
(* carry it, the channels an event fans out to, and the validation that    *)
(* NotificationCreate does before the manager sees the payload.            *)
(***************************************************************************)
EXTENDS NotificationTypes, Sequences

EventType ==
  {"ORDER_CREATED", "ORDER_CANCELLED", "PAYMENT_CONFIRMED", "PAYMENT_FAILED",
   "PAYMENT_OTP_REQUESTED", "SHIPMENT_DISPATCHED", "SHIPMENT_DELIVERED",
   "SHIPMENT_DELAYED"}

EVENT_CHANNEL_MAP ==
  [e \in EventType |->
     CASE e = "PAYMENT_FAILED"        -> <<"EMAIL", "SMS", "PUSH">>
       [] e = "PAYMENT_OTP_REQUESTED" -> <<"SMS">>
       [] e = "SHIPMENT_DELAYED"      -> <<"EMAIL", "SMS">>
       [] OTHER                       -> <<"EMAIL", "PUSH">>]

Channels(e) == {EVENT_CHANNEL_MAP[e][i] : i \in DOMAIN EVENT_CHANNEL_MAP[e]}

RecipientField == {"email", "phone", "device_token"}

CHANNEL_RECIPIENT_FIELD ==
  [ch \in NotificationChannel |-> CASE ch = "EMAIL" -> "email"
                                    [] ch = "SMS"   -> "phone"
                                    [] ch = "PUSH"  -> "device_token"]

\* What the code looks at in a body.  complete: it parses and has the keys the
\* consumer needs; named: source_service, event_type and priority are names of
\* members of their enumerations; recipient: the fields that are present and not
\* empty; content: the channels whose key the content dictionary has.
Payload == [complete  : BOOLEAN,
            named     : BOOLEAN,
            event     : EventType,
            recipient : SUBSET RecipientField,
            content   : SUBSET NotificationChannel]

HasRecipient(p, ch) == CHANNEL_RECIPIENT_FIELD[ch] \in p.recipient

\* Mutant: the recipient is checked for the first channel only.
ValidatesFirst(p) ==
  /\ p.named
  /\ HasRecipient(p, Head(EVENT_CHANNEL_MAP[p.event]))
  /\ Channels(p.event) \subseteq p.content

\* The validators of NotificationCreate.
Validates(p) ==
  /\ p.named
  /\ \A ch \in Channels(p.event) : HasRecipient(p, ch) /\ ch \in p.content
=============================================================================

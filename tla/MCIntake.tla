------------------------------- MODULE MCIntake -------------------------------
(* Instances of Intake for TLC.                                            *)
EXTENDS Intake, TLC

CONSTANTS m1, m2, m3, r1, r2, k1, k2

\* A payload with all the event needs.
Full(e) == [complete |-> TRUE, named |-> TRUE, event |-> e,
            recipient |-> RecipientField, content |-> Channels(e)]
NoPhone == [Full("SHIPMENT_DELAYED") EXCEPT !.recipient = {"email"}]

\* One event, sent three times: twice by its producer, once by a REST client.
MCOneKey == [c \in {m1, m2, r1} |-> k1]
MCOneBody == [c \in {m1, m2, r1} |-> Full("SHIPMENT_DELAYED")]

\* Bodies of every kind, beside a good message with the key of one of them.
MCMixedKey == (m1 :> k1) @@ (m2 :> k1) @@ (m3 :> k2) @@ (r1 :> k1) @@ (r2 :> k2)
MCMixedBody == (m1 :> Full("PAYMENT_OTP_REQUESTED")) @@ (m2 :> NoPhone)
                 @@ (m3 :> [Full("ORDER_CREATED") EXCEPT !.complete = FALSE]) @@ (r1 :> NoPhone)
                 @@ (r2 :> Full("ORDER_CREATED"))

\* One message, good or refused by the validators.
MCLoneKey == [c \in {m1} |-> k1]
MCLoneBody == [c \in {m1} |-> Full("PAYMENT_OTP_REQUESTED")]
MCPoisonBody == [c \in {m1} |-> NoPhone]
MCMessages == Permutations({m1, m2})
=============================================================================

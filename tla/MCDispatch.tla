------------------------------ MODULE MCDispatch ------------------------------
(* Instances of Dispatch for TLC.                                          *)
EXTENDS Dispatch, TLC

CONSTANTS n1, n2, w1, w2, c1

\* payment_failed: one event, one notification per channel.
MCNotification == {n1, n2}
MCChannelOf == (n1 :> "SMS") @@ (n2 :> "EMAIL")
MCOne == {n1}
MCOneChannelOf == (n1 :> "SMS")
MCWorkers == Permutations({w1, w2})
Sms == {"SMS"}
=============================================================================

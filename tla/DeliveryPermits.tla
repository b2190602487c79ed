---------------------------- MODULE DeliveryPermits ----------------------------
(***************************************************************************)
(* What the engine promises about sending, whatever queues, workers and    *)
(* messages it is built from: a notification is sent only by using up a    *)
(* chance to send it, and every chance was handed out against a permit -   *)
(* its creation, a manual retry, or a copy of it that RabbitMQ or Redis    *)
(* brought back.  Nothing is promised to be sent.                          *)
(***************************************************************************)
EXTENDS Naturals

CONSTANT Notification

VARIABLES
  permits,    \* what has entitled each notification to be sent so far
  chances,    \* sends of it that may still come
  delivered   \* sends of it that a provider has accepted

vars == <<permits, chances, delivered>>

Init ==
  /\ permits = [n \in Notification |-> 0]
  /\ chances = [n \in Notification |-> 0]
  /\ delivered = [n \in Notification |-> 0]

Grant(n) ==
  /\ permits' = [permits EXCEPT ![n] = @ + 1]
  /\ chances' = [chances EXCEPT ![n] = @ + 1]
  /\ UNCHANGED delivered

Deliver(n) ==
  /\ chances[n] > 0
  /\ chances' = [chances EXCEPT ![n] = @ - 1]
  /\ delivered' = [delivered EXCEPT ![n] = @ + 1]
  /\ UNCHANGED permits

Lapse(n) ==
  /\ chances[n] > 0
  /\ chances' = [chances EXCEPT ![n] = @ - 1]
  /\ UNCHANGED <<permits, delivered>>

\* The service or Redis goes down and comes back: chances lapse, and each that
\* comes into being is permitted.
Restart ==
  /\ permits' \in [Notification -> Nat] /\ chances' \in [Notification -> Nat]
  /\ \A n \in Notification : /\ permits[n] <= permits'[n]
                             /\ chances'[n] + permits[n] <= chances[n] + permits'[n]
  /\ UNCHANGED delivered

Next ==
  \/ \E n \in Notification : Grant(n) \/ Deliver(n) \/ Lapse(n)
  \/ Restart

Spec == Init /\ [][Next]_vars
=============================================================================

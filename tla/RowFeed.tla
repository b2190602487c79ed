-------------------------------- MODULE RowFeed --------------------------------
(***************************************************************************)
(* What the intake promises the dispatch path: the row of a notification   *)
(* is committed once, and from then on the notification has one chance to  *)
(* get onto the Redis queue, which the next step about it takes or wastes. *)
(* What was wasted never comes back, however often the event is repeated.  *)
(* Dispatch takes its notifications from these steps: InsertRow,           *)
(* EnqueueNew, EnqueueNewFails and what Crash does to creating.            *)
(***************************************************************************)
CONSTANT Notification

VARIABLES
  present,   \* notifications that have a row
  creating,  \* those whose row is committed and whose enqueue is next
  fed        \* those that were put on the Redis queue

vars == <<present, creating, fed>>

Init == present = {} /\ creating = {} /\ fed = {}

InsertRow(n) ==
  /\ n \notin present
  /\ present' = present \cup {n}
  /\ creating' = creating \cup {n}
  /\ UNCHANGED fed

\* The reply to the commit is lost: as if the enqueue had failed at once.
InsertRowLost(n) ==
  /\ n \notin present
  /\ present' = present \cup {n}
  /\ UNCHANGED <<creating, fed>>

EnqueueNew(n) ==
  /\ n \in creating
  /\ creating' = creating \ {n}
  /\ fed' = fed \cup {n}
  /\ UNCHANGED present

EnqueueNewFails(n) ==
  /\ n \in creating
  /\ creating' = creating \ {n}
  /\ UNCHANGED <<present, fed>>

Crash == creating' = {} /\ UNCHANGED <<present, fed>>

Next ==
  \/ \E n \in Notification : \/ InsertRow(n) \/ InsertRowLost(n)
                             \/ EnqueueNew(n) \/ EnqueueNewFails(n)
  \/ Crash

Spec == Init /\ [][Next]_vars
=============================================================================

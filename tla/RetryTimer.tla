------------------------------ MODULE RetryTimer ------------------------------
(***************************************************************************)
(* How long a retry waits: the delay dispatch chooses, and the RabbitMQ    *)
(* queue notification.retry, which is FIFO and whose messages carry their  *)
(* own TTL.  RabbitMQ looks at the head only: a message whose TTL is over  *)
(* stays until those before it have gone.                                  *)
(***************************************************************************)
EXTENDS NotificationRequest, Integers

CONSTANTS
  Event,      \* event types whose notifications fail
  Unit,       \* seconds a step of the clock takes
  MaxQueued   \* bound: messages in notification.retry at a time

ASSUME RetryTimerAssumption ==
  Event \subseteq EventType /\ Unit \in {1, 5} /\ MaxQueued \in Nat

DEFAULT_RETRY_CONFIG ==
  [max_retries |-> 3, base_delay |-> 15, max_delay |-> 3600, use_jitter |-> TRUE]

RETRY_CONFIG ==
  [e \in EventType |->
     IF e = "PAYMENT_OTP_REQUESTED"
       THEN [max_retries |-> 3, base_delay |-> 5, max_delay |-> 30, use_jitter |-> FALSE]
       ELSE DEFAULT_RETRY_CONFIG]

PowersOfTwo == [n \in 0 .. 3 |-> <<1, 2, 4, 8>>[n + 1]]

Capped(d, max_delay) == IF d < max_delay THEN d ELSE max_delay

Low(c, n) == Capped(c.base_delay * PowersOfTwo[n - 1], c.max_delay)

\* Mutant: the levels are counted from 0.
HighFromZero(c, n) == Capped(c.base_delay * PowersOfTwo[n] * 2, c.max_delay)

High(c, n) == Capped(c.base_delay * PowersOfTwo[n], c.max_delay)

\* Mutant: jitter over everything up to the upper end.
FullJitter(e, n) ==
  LET c == RETRY_CONFIG[e]
  IN  {d \in 0 .. High(c, n) : d % Unit = 0}

\* The values get_retry_delay may return, in steps of Unit.
RetryDelays(e, n) ==
  LET c == RETRY_CONFIG[e]
  IN  {d \in Low(c, n) .. (IF c.use_jitter THEN High(c, n) ELSE Low(c, n)) : d % Unit = 0}

-----------------------------------------------------------------------------
VARIABLE queue   \* notification.retry: what was published, and since when

vars == <<queue>>

\* A message carries the TTL; event and level are those of the row behind it.
Retry == [event : EventType, retry_count : 1 .. 3, ttl : Nat, age : Nat]

TypeOK == queue \in Seq(Retry) /\ Len(queue) <= MaxQueued

Init == queue = <<>>

\* Mutant: the number of seconds is sent as one of milliseconds.
PublishMillis(e, n) ==
  /\ Len(queue) < MaxQueued
  /\ n <= RETRY_CONFIG[e].max_retries
  /\ \E d \in RetryDelays(e, n) :
       queue' = Append(queue, [event |-> e, retry_count |-> n, ttl |-> d \div 1000, age |-> 0])

\* Mutant: the level is read before it is raised.
PublishOldCount(e, n) ==
  /\ Len(queue) < MaxQueued
  /\ n <= RETRY_CONFIG[e].max_retries
  /\ \E d \in RetryDelays(e, n) :
       queue' = Append(queue, [event |-> e, retry_count |-> n - 1, ttl |-> d, age |-> 0])

\* _schedule_retry and publish_retry, for any notification at any moment.
PublishRetry(e, n) ==
  /\ Len(queue) < MaxQueued
  /\ n <= RETRY_CONFIG[e].max_retries
  /\ \E d \in RetryDelays(e, n) :
       queue' = Append(queue, [event |-> e, retry_count |-> n, ttl |-> d, age |-> 0])

Due == queue # <<>> /\ Head(queue).ttl <= Head(queue).age

\* RabbitMQ dead-letters the head as soon as it is due.
Expire == Due /\ queue' = Tail(queue)

\* Time passes for all of them, but not past the moment the head is due.
Tick ==
  /\ queue # <<>> /\ ~ Due
  /\ queue' = [i \in DOMAIN queue |-> [queue[i] EXCEPT !.age = @ + Unit]]

Next ==
  \/ \E e \in Event, n \in 1 .. 3 : PublishRetry(e, n)
  \/ Expire
  \/ Tick

Spec == Init /\ [][Next]_vars

-----------------------------------------------------------------------------
\* The windows the comment on get_retry_delay and RETRY_CONFIG promise.
Earliest(r) ==
  IF r.event = "PAYMENT_OTP_REQUESTED"
    THEN <<5, 10, 20>>[r.retry_count]
    ELSE <<15, 30, 60>>[r.retry_count]
Latest == 120

\* The head leaves.
Leaves == queue # <<>> /\ queue' = Tail(queue)

\* A provider that failed is left alone for at least the promised time.
WaitedOut == [][Leaves => Head(queue).age >= Earliest(Head(queue))]_vars

\* Whatever else is in the queue, no retry waits longer than the longest window
\* does: being blocked adds nothing to the worst case.
NotHeldUp == [][Leaves => Head(queue).age <= Latest]_vars

\* Each level backs off at least as far as the one below it, for whichever
\* notifications of an event type are waiting side by side.
LevelsOrdered ==
  \A i, j \in DOMAIN queue :
    queue[i].event = queue[j].event /\ queue[i].retry_count < queue[j].retry_count
      => queue[i].ttl <= queue[j].ttl
=============================================================================

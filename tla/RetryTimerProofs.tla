--------------------------- MODULE RetryTimerProofs ---------------------------
(* Theorems about RetryTimer, for a retry queue of any length.             *)
EXTENDS RetryTimer, TLAPS

EarliestOf(e, n) ==
  IF e = "PAYMENT_OTP_REQUESTED" THEN <<5, 10, 20>>[n] ELSE <<15, 30, 60>>[n]

LatestOf(e, n) ==
  IF e = "PAYMENT_OTP_REQUESTED" THEN <<5, 10, 20>>[n] ELSE <<30, 60, 120>>[n]

\* get_retry_delay keeps to the windows its comment promises: max_delay never
\* cuts one short.
LEMMA Windows ==
  ASSUME NEW e \in EventType, NEW n \in 1 .. 3, NEW d \in RetryDelays(e, n)
  PROVE  /\ d \in Nat /\ d % Unit = 0
         /\ EarliestOf(e, n) <= d /\ d <= LatestOf(e, n)
<1> DEFINE c == RETRY_CONFIG[e]
<1>1. PowersOfTwo[0] = 1 /\ PowersOfTwo[1] = 2 /\ PowersOfTwo[2] = 4 /\ PowersOfTwo[3] = 8
  BY DEF PowersOfTwo
<1>2. CASE e = "PAYMENT_OTP_REQUESTED"
  <2>1. c = [max_retries |-> 3, base_delay |-> 5, max_delay |-> 30, use_jitter |-> FALSE]
    BY <1>2 DEF RETRY_CONFIG
  <2>2. d \in Low(c, n) .. Low(c, n) /\ d % Unit = 0
    <3>1. c.use_jitter = FALSE BY <2>1
    <3> QED BY <3>1, Zenon DEF RetryDelays
  <2>3. Low(c, n) = <<5, 10, 20>>[n]
    <3>1. CASE n = 1 BY <2>1, <1>1, <3>1 DEF Low, Capped
    <3>2. CASE n = 2 BY <2>1, <1>1, <3>2 DEF Low, Capped
    <3>3. CASE n = 3 BY <2>1, <1>1, <3>3 DEF Low, Capped
    <3> QED BY <3>1, <3>2, <3>3
  <2>4. <<5, 10, 20>>[n] \in 5 .. 20 OBVIOUS
  <2> QED BY <1>2, <2>2, <2>3, <2>4 DEF EarliestOf, LatestOf
<1>3. CASE e # "PAYMENT_OTP_REQUESTED"
  <2>1. c = [max_retries |-> 3, base_delay |-> 15, max_delay |-> 3600, use_jitter |-> TRUE]
    BY <1>3 DEF RETRY_CONFIG, DEFAULT_RETRY_CONFIG
  <2>2. d \in Low(c, n) .. High(c, n) /\ d % Unit = 0 BY <2>1 DEF RetryDelays
  <2>3. Low(c, n) = <<15, 30, 60>>[n] /\ High(c, n) = <<30, 60, 120>>[n]
    <3>1. CASE n = 1 BY <2>1, <1>1, <3>1 DEF Low, High, Capped
    <3>2. CASE n = 2 BY <2>1, <1>1, <3>2 DEF Low, High, Capped
    <3>3. CASE n = 3 BY <2>1, <1>1, <3>3 DEF Low, High, Capped
    <3> QED BY <3>1, <3>2, <3>3
  <2>4. <<15, 30, 60>>[n] \in 15 .. 60 /\ <<30, 60, 120>>[n] \in 30 .. 120 OBVIOUS
  <2> QED BY <1>3, <2>2, <2>3, <2>4 DEF EarliestOf, LatestOf
<1> QED BY <1>2, <1>3

\* The longest delay of a level is no longer than the shortest of the next.
LEMMA LevelsApart ==
  ASSUME NEW e \in EventType, NEW m \in 1 .. 3, NEW n \in 1 .. 3
  PROVE  /\ EarliestOf(e, n) \in Nat /\ LatestOf(e, n) \in Nat /\ LatestOf(e, n) <= Latest
         /\ m < n => LatestOf(e, m) <= EarliestOf(e, n)
<1>1. CASE e = "PAYMENT_OTP_REQUESTED"
  BY <1>1 DEF EarliestOf, LatestOf, Latest
<1>2. CASE e # "PAYMENT_OTP_REQUESTED"
  BY <1>2 DEF EarliestOf, LatestOf, Latest
<1> QED BY <1>1, <1>2

-----------------------------------------------------------------------------
\* A message carries a TTL of its window, in whole steps of the clock.
InWindow(r) ==
  /\ r.age % Unit = 0 /\ r.ttl % Unit = 0
  /\ Earliest(r) <= r.ttl /\ r.ttl <= LatestOf(r.event, r.retry_count)

\* The queue is in order of age, so a bound for the head is one for all.
WaitInv ==
  /\ queue \in Seq(Retry)
  /\ \A i \in 1 .. Len(queue) : InWindow(queue[i])
  /\ \A i, j \in 1 .. Len(queue) : i < j => queue[j].age <= queue[i].age
  /\ queue # <<>> => queue[1].age <= Latest

LEMMA Published ==
  ASSUME WaitInv, NEW e \in EventType, NEW n \in 1 .. 3, PublishRetry(e, n)
  PROVE  WaitInv'
<1>1. PICK d \in RetryDelays(e, n) :
        queue' = Append(queue, [event |-> e, retry_count |-> n, ttl |-> d, age |-> 0])
  BY DEF PublishRetry
<1> DEFINE r == [event |-> e, retry_count |-> n, ttl |-> d, age |-> 0]
<1>2. d \in Nat /\ EarliestOf(e, n) <= d /\ d <= LatestOf(e, n) /\ d % Unit = 0 BY Windows
<1>3. r \in Retry BY <1>2 DEF Retry
<1>4. InWindow(r)
  <2>1. 0 % Unit = 0 BY RetryTimerAssumption
  <2>2. Earliest(r) = EarliestOf(e, n) BY DEF Earliest, EarliestOf
  <2> QED BY <1>2, <2>1, <2>2 DEF InWindow
<1>5. r.age = 0 OBVIOUS
<1> HIDE DEF r
<1>6. queue' = Append(queue, r) BY <1>1 DEF r
<1>7. /\ queue' \in Seq(Retry) /\ Len(queue') = Len(queue) + 1
      /\ \A i \in 1 .. Len(queue) : queue'[i] = queue[i]
      /\ queue'[Len(queue) + 1] = r /\ Len(queue) \in Nat
  BY <1>3, <1>6 DEF WaitInv
<1>8. \A i \in 1 .. Len(queue) : queue[i].age \in Nat
  <2>1. \A i \in 1 .. Len(queue) : queue[i] \in Retry BY DEF WaitInv
  <2> QED BY <2>1 DEF Retry
<1>9. \A i \in 1 .. Len(queue') : i \in 1 .. Len(queue) \/ i = Len(queue) + 1 BY <1>7
<1>10. \A i \in 1 .. Len(queue') : InWindow(queue'[i]) BY <1>4, <1>7, <1>9 DEF WaitInv
<1>11. \A i, j \in 1 .. Len(queue') : i < j => queue'[j].age <= queue'[i].age
  <2> SUFFICES ASSUME NEW i \in 1 .. Len(queue'), NEW j \in 1 .. Len(queue'), i < j
               PROVE  queue'[j].age <= queue'[i].age
    OBVIOUS
  <2>1. i \in 1 .. Len(queue) BY <1>7
  <2>2. CASE j \in 1 .. Len(queue) BY <2>1, <2>2, <1>7 DEF WaitInv
  <2>3. CASE j = Len(queue) + 1 BY <2>1, <2>3, <1>5, <1>7, <1>8
  <2> QED BY <2>2, <2>3, <1>9
<1>12. queue'[1].age <= Latest
  <2>1. CASE queue = <<>> BY <2>1, <1>5, <1>7 DEF Latest
  <2>2. CASE queue # <<>>
    <3>1. 1 \in 1 .. Len(queue) BY <2>2 DEF WaitInv
    <3> QED BY <2>2, <3>1, <1>7 DEF WaitInv
  <2> QED BY <2>1, <2>2
<1>13. \A i \in 1 .. Len(queue') : InWindow(queue[i])' BY <1>10 DEF InWindow, Earliest, LatestOf
<1> QED BY <1>7, <1>11, <1>12, <1>13 DEF WaitInv

LEMMA Expired ==
  ASSUME WaitInv, Expire
  PROVE  WaitInv'
<1>1. queue # <<>> /\ queue' = Tail(queue) BY DEF Expire, Due
<1>2. /\ queue' \in Seq(Retry) /\ Len(queue) \in Nat /\ Len(queue') = Len(queue) - 1
      /\ \A i \in 1 .. Len(queue') : queue'[i] = queue[i + 1] /\ i + 1 \in 1 .. Len(queue)
  BY <1>1 DEF WaitInv
<1>3. \A i \in 1 .. Len(queue') : InWindow(queue[i])'
  <2>1. \A i \in 1 .. Len(queue') : InWindow(queue'[i]) BY <1>2 DEF WaitInv
  <2> QED BY <2>1 DEF InWindow, Earliest, LatestOf
<1>4. ASSUME NEW i \in 1 .. Len(queue'), NEW j \in 1 .. Len(queue'), i < j
      PROVE  queue'[j].age <= queue'[i].age
  <2>1. i + 1 < j + 1 /\ i + 1 \in 1 .. Len(queue) /\ j + 1 \in 1 .. Len(queue)
    BY <1>2, <1>4
  <2>2. queue[j + 1].age <= queue[i + 1].age BY <2>1 DEF WaitInv
  <2> QED BY <2>2, <1>2
<1>5. ASSUME queue' # <<>> PROVE queue'[1].age <= Latest
  <2>1. 1 \in 1 .. Len(queue') BY <1>2, <1>5
  <2>2. queue'[1] = queue[2] /\ 2 \in 1 .. Len(queue) /\ 1 \in 1 .. Len(queue) BY <2>1, <1>2
  <2>3. queue[2].age <= queue[1].age /\ queue[1].age <= Latest BY <2>2, <1>1 DEF WaitInv
  <2>4. queue[1] \in Retry /\ queue[2] \in Retry BY <2>2 DEF WaitInv
  <2> QED BY <2>2, <2>3, <2>4 DEF Latest, Retry
<1> QED BY <1>2, <1>3, <1>4, <1>5 DEF WaitInv

\* Whole steps do not jump over the moment a message is due.
LEMMA WholeSteps ==
  ASSUME NEW a \in Nat, NEW b \in Nat, a % Unit = 0, b % Unit = 0, a < b
  PROVE  a + Unit <= b /\ (a + Unit) % Unit = 0
<1>1. CASE Unit = 1 BY <1>1
<1>2. CASE Unit = 5 BY <1>2
<1> QED BY <1>1, <1>2, RetryTimerAssumption

LEMMA Ticked ==
  ASSUME WaitInv, Tick
  PROVE  WaitInv'
<1> DEFINE n == Len(queue)
<1>1. /\ queue # <<>> /\ queue[1].age < queue[1].ttl
      /\ queue' = [i \in 1 .. n |-> [queue[i] EXCEPT !.age = @ + Unit]]
      /\ n \in Nat /\ 1 \in 1 .. n
  <2>1. queue # <<>> /\ n \in Nat /\ 1 \in 1 .. n /\ queue[1] \in Retry BY DEF Tick, WaitInv
  <2> QED BY <2>1 DEF Tick, Due, WaitInv, Retry
<1>2. \A i \in 1 .. n : queue[i] \in Retry BY DEF WaitInv
<1>3. Unit \in Nat BY RetryTimerAssumption
<1>4. ASSUME NEW i \in 1 .. n
      PROVE  /\ queue'[i] \in Retry
             /\ queue'[i].age = queue[i].age + Unit
             /\ queue'[i].ttl = queue[i].ttl
             /\ queue'[i].event = queue[i].event
             /\ queue'[i].retry_count = queue[i].retry_count
  <2>1. queue'[i] = [queue[i] EXCEPT !.age = queue[i].age + Unit] BY <1>1
  <2>2. queue[i] \in Retry BY <1>2
  <2>3. queue[i].age + Unit \in Nat BY <2>2, <1>3 DEF Retry
  <2> QED BY <2>1, <2>2, <2>3 DEF Retry
<1>5. queue' \in Seq(Retry) /\ Len(queue') = n
  <2>1. queue' \in [1 .. n -> Retry] BY <1>1, <1>4
  <2> QED BY <2>1, <1>1
<1>6. ASSUME NEW i \in 1 .. n PROVE InWindow(queue[i])'
  <2>1. InWindow(queue[i]) /\ queue[i].age \in Nat BY <1>2 DEF WaitInv, Retry
  <2>2. (queue[i].age + Unit) % Unit = 0
    <3>1. CASE Unit = 1 BY <2>1, <3>1
    <3>2. CASE Unit = 5 BY <2>1, <3>2 DEF InWindow
    <3> QED BY <3>1, <3>2, RetryTimerAssumption
  <2>3. Earliest(queue[i])' = Earliest(queue[i]) BY <1>4 DEF Earliest
  <2>4. LatestOf(queue[i].event, queue[i].retry_count)'
          = LatestOf(queue[i].event, queue[i].retry_count)
    BY <1>4 DEF LatestOf
  <2> QED BY <2>1, <2>2, <2>3, <2>4, <1>4 DEF InWindow
<1>7. \A i, j \in 1 .. n : i < j => queue'[j].age <= queue'[i].age
  <2>1. \A i \in 1 .. n : queue[i].age \in Nat BY <1>2 DEF Retry
  <2> QED BY <2>1, <1>3, <1>4 DEF WaitInv
<1>8. queue'[1].age <= Latest
  <2>1. InWindow(queue[1]) /\ queue[1].age \in Nat /\ queue[1].ttl \in Nat
    BY <1>1, <1>2 DEF WaitInv, Retry
  <2>2. queue[1].age + Unit <= queue[1].ttl BY <2>1, <1>1, WholeSteps DEF InWindow
  <2>3. queue[1].event \in EventType /\ queue[1].retry_count \in 1 .. 3
    BY <1>1, <1>2 DEF Retry
  <2>4. LatestOf(queue[1].event, queue[1].retry_count) \in Nat
        /\ LatestOf(queue[1].event, queue[1].retry_count) <= Latest
    BY <2>3, LevelsApart
  <2>5. queue[1].ttl <= LatestOf(queue[1].event, queue[1].retry_count) BY <2>1 DEF InWindow
  <2> QED BY <2>1, <2>2, <2>4, <2>5, <1>1, <1>3, <1>4 DEF Latest
<1> HIDE DEF n
<1> QED BY <1>5, <1>6, <1>7, <1>8 DEF WaitInv

LEMMA WaitInvariant == Spec => []WaitInv
<1>1. Init => WaitInv BY DEF Init, WaitInv
<1>2. WaitInv /\ [Next]_vars => WaitInv'
  <2>1. ASSUME WaitInv, UNCHANGED vars PROVE WaitInv'
    BY <2>1 DEF vars, WaitInv, InWindow, Earliest, LatestOf
  <2> QED BY <2>1, Published, Expired, Ticked, RetryTimerAssumption DEF Next
<1> QED BY <1>1, <1>2, PTL DEF Spec

\* The retry queue holds messages with a TTL, no more of them than the bound.
THEOREM TypeCorrect == Spec => []TypeOK
<1>1. Init => TypeOK BY RetryTimerAssumption DEF Init, TypeOK
<1>2. WaitInv /\ WaitInv' /\ TypeOK /\ [Next]_vars => TypeOK'
  <2> SUFFICES ASSUME WaitInv, WaitInv', TypeOK, [Next]_vars
               PROVE  Len(queue') <= MaxQueued
    BY DEF TypeOK, WaitInv
  <2>1. Len(queue) \in Nat /\ Len(queue) <= MaxQueued /\ MaxQueued \in Nat
    BY RetryTimerAssumption DEF TypeOK
  <2>2. ASSUME NEW e \in EventType, NEW n \in 1 .. 3, PublishRetry(e, n)
        PROVE  Len(queue') <= MaxQueued
    <3>1. Len(queue) < MaxQueued /\ \E x : queue' = Append(queue, x) BY <2>2 DEF PublishRetry
    <3>2. Len(queue') = Len(queue) + 1 BY <3>1 DEF TypeOK
    <3> QED BY <2>1, <3>1, <3>2
  <2>3. ASSUME Expire PROVE Len(queue') <= MaxQueued
    <3>1. Len(queue') = Len(queue) - 1 BY <2>3 DEF Expire, Due, TypeOK
    <3> QED BY <2>1, <3>1
  <2>4. ASSUME Tick PROVE Len(queue') <= MaxQueued
    <3>1. queue' = [i \in 1 .. Len(queue) |-> [queue[i] EXCEPT !.age = @ + Unit]]
      BY <2>4 DEF Tick, TypeOK
    <3>2. Len(queue') = Len(queue) BY <2>1, <3>1
    <3> QED BY <2>1, <3>2
  <2>5. CASE UNCHANGED vars BY <2>1, <2>5 DEF vars
  <2> QED BY <2>2, <2>3, <2>4, <2>5, RetryTimerAssumption DEF Next
<1> QED BY <1>1, <1>2, WaitInvariant, PTL DEF Spec

\* Whatever jitter adds, a retry of a higher level of the same event type is
\* never given less time than one of a lower level that waits beside it.
THEOREM LevelsOrderedHolds == Spec => []LevelsOrdered
<1>1. WaitInv => LevelsOrdered
  <2> SUFFICES ASSUME WaitInv, NEW i \in DOMAIN queue, NEW j \in DOMAIN queue,
                      queue[i].event = queue[j].event,
                      queue[i].retry_count < queue[j].retry_count
               PROVE  queue[i].ttl <= queue[j].ttl
    BY DEF LevelsOrdered
  <2>1. i \in 1 .. Len(queue) /\ j \in 1 .. Len(queue) BY DEF WaitInv
  <2>2. queue[i] \in Retry /\ queue[j] \in Retry BY <2>1 DEF WaitInv
  <2> DEFINE e == queue[i].event
             m == queue[i].retry_count
             n == queue[j].retry_count
  <2>3. e \in EventType /\ m \in 1 .. 3 /\ n \in 1 .. 3 /\ m < n
        /\ queue[i].ttl \in Nat /\ queue[j].ttl \in Nat
    BY <2>2 DEF Retry
  <2>4. queue[i].ttl <= LatestOf(e, m) BY <2>1 DEF WaitInv, InWindow
  <2>5. EarliestOf(e, n) <= queue[j].ttl
    BY <2>1 DEF WaitInv, InWindow, Earliest, EarliestOf
  <2> HIDE DEF e, m, n
  <2>6. /\ LatestOf(e, m) \in Nat /\ EarliestOf(e, n) \in Nat
        /\ LatestOf(e, m) <= EarliestOf(e, n)
    BY <2>3, LevelsApart
  <2> QED BY <2>3, <2>4, <2>5, <2>6
<1> QED BY <1>1, WaitInvariant, PTL

-----------------------------------------------------------------------------
\* Only what is due leaves.
LEMMA OnlyExpireLeaves ==
  ASSUME WaitInv, [Next]_vars, Leaves
  PROVE  Expire
<1>1. Len(queue) \in Nat /\ Len(queue') = Len(queue) - 1 BY DEF WaitInv, Leaves
<1>2. ASSUME NEW e \in EventType, NEW n \in 1 .. 3, PublishRetry(e, n) PROVE FALSE
  BY <1>1, <1>2 DEF PublishRetry, WaitInv
<1>3. ASSUME Tick PROVE FALSE
  <2>1. queue' = [i \in 1 .. Len(queue) |-> [queue[i] EXCEPT !.age = @ + Unit]]
    BY <1>3 DEF Tick, WaitInv
  <2>2. Len(queue') = Len(queue) BY <2>1, <1>1
  <2> QED BY <1>1, <2>2
<1>4. CASE UNCHANGED vars BY <1>1, <1>4 DEF vars
<1> QED BY <1>2, <1>3, <1>4, RetryTimerAssumption DEF Next

\* A provider that failed is left alone for the promised time.
THEOREM WaitedOutHolds == Spec => WaitedOut
<1>1. WaitInv /\ [Next]_vars => [Leaves => Head(queue).age >= Earliest(Head(queue))]_vars
  <2> SUFFICES ASSUME WaitInv, [Next]_vars, Leaves
               PROVE  Head(queue).age >= Earliest(Head(queue))
    OBVIOUS
  <2>1. Expire BY OnlyExpireLeaves
  <2>2. 1 \in 1 .. Len(queue) /\ Head(queue) = queue[1] /\ queue[1] \in Retry
    BY DEF Leaves, WaitInv
  <2>3. queue[1].ttl <= queue[1].age /\ Earliest(queue[1]) <= queue[1].ttl
    BY <2>1, <2>2 DEF Expire, Due, WaitInv, InWindow
  <2>4. Earliest(queue[1]) \in Nat BY <2>2 DEF Earliest, Retry
  <2> QED BY <2>2, <2>3, <2>4 DEF Retry
<1> QED BY <1>1, WaitInvariant, PTL DEF Spec, WaitedOut

\* However many retries block each other, none waits longer than 120 seconds.
THEOREM NotHeldUpHolds == Spec => NotHeldUp
<1>1. WaitInv /\ [Next]_vars => [Leaves => Head(queue).age <= Latest]_vars
  <2> SUFFICES ASSUME WaitInv, Leaves PROVE Head(queue).age <= Latest OBVIOUS
  <2> QED BY DEF Leaves, WaitInv
<1> QED BY <1>1, WaitInvariant, PTL DEF Spec, NotHeldUp
=============================================================================

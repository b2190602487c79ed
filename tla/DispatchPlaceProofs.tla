-------------------------- MODULE DispatchPlaceProofs --------------------------
(***************************************************************************)
(* Proofs about a notification nobody has retried by hand and no broker    *)
(* delivered a second time: it is in one place at a time, that place agrees *)
(* with the status its row shows, and the status only moves along the       *)
(* lifecycle.  For every number of notifications, workers and callers, and  *)
(* every value of the bounds.                                               *)
(***************************************************************************)
EXTENDS DispatchOwedProofs

-----------------------------------------------------------------------------
(* The inductive invariant.                                                *)

\* Where n is while no worker has it: about to be enqueued by create_notification,
\* on the Redis queue, or so many times in each queue of the broker.
In(n, new, queued, retries, results, dead) ==
  /\ n \in creating <=> new
  /\ n \in queue <=> queued
  /\ retry[n] = retries /\ result[n] = results /\ dlq[n] = dead

Nowhere(n) == In(n, FALSE, FALSE, 0, 0, 0)

InOnePlace(n) ==
  \/ In(n, TRUE,  FALSE, 0, 0, 0)
  \/ In(n, FALSE, TRUE,  0, 0, 0)
  \/ In(n, FALSE, FALSE, 1, 0, 0)
  \/ In(n, FALSE, FALSE, 0, 1, 0)
  \/ In(n, FALSE, FALSE, 0, 0, 1)

\* n is in one place at most: in one queue, once, or with one worker.
Alone(n) ==
  /\ Nowhere(n) \/ InOnePlace(n)
  /\ \A w \in Worker : held[w] = n => /\ Nowhere(n)
                                      /\ \A v \in Worker : held[v] = n => v = w
  /\ \A c \in Client : ~(request[c] = "enqueue" /\ asked[c] = n)

\* What the row of n shows while worker w has it, and that the worker's copy of
\* the row is the row itself wherever it is about to be written back.
HeldShows(w, n) ==
  LET status == row[n].status IN
    /\ pc[w] # "dequeue"
    /\ pc[w] \in {"get_by_id", "update_queued"} => status \in {"PENDING", "RETRYING"}
    /\ pc[w] \in {"health_check", "send", "mark_sent", "schedule_retry"} =>
         status = "QUEUED"
    /\ pc[w] = "mark_failed" => status \in {"PENDING", "QUEUED"}
    /\ pc[w] = "publish_retry" => status = "RETRYING"
    /\ pc[w] = "send_to_dlq" => status = "FAILED" /\ row[n].retry_count = MaxRetries
    /\ pc[w] \in {"update_queued", "send", "mark_sent", "mark_failed",
                  "schedule_retry"} => snap[w] = row[n]
    /\ pc[w] \in {"update_queued", "health_check", "send", "schedule_retry"} =>
         HasProvider(n)

Shows(n) ==
  LET status == row[n].status IN
    /\ n \in creating => status = "PENDING"
    /\ n \in queue => status \in {"PENDING", "RETRYING"}
    /\ retry[n] > 0 \/ result[n] > 0 => status = "RETRYING"
    /\ dlq[n] > 0 => status = "FAILED" /\ row[n].retry_count = MaxRetries
    /\ status = "RETRYING" => HasProvider(n)
    /\ status = ABSENT => row[n].retry_count = 0
    /\ \A w \in Worker : held[w] = n => HeldShows(w, n)

Place(n) == Alone(n) /\ Shows(n)

\* What Lifecycle says of one step and one notification.
Moved(n) ==
  /\ LifecycleStep(n)
  /\ row'[n].retry_count = row[n].retry_count
       + OneIf(row'[n].status = "RETRYING" /\ row[n].status # "RETRYING")

-----------------------------------------------------------------------------
(* Numbers.                                                                *)

LEMMA Amounts ==
  ASSUME TypeOK, NEW n \in Notification
  PROVE  /\ row[n] \in NotificationRow /\ row[n].retry_count \in Nat
         /\ retry[n] \in Nat /\ result[n] \in Nat /\ dlq[n] \in Nat
         /\ manual[n] \in Nat /\ redelivered[n] \in Nat /\ acking[n] \in Nat
         /\ Extra(n) \in Nat
         /\ Extra(n) = 0 <=> manual[n] = 0 /\ redelivered[n] = 0
BY DEF TypeOK, NotificationRow, Extra

\* The history of what entitles n to more sends is never forgotten.
LEMMA ExtraGrows ==
  ASSUME TypeOK, [Next]_vars, NEW n \in Notification, Extra(n)' = 0
  PROVE  Extra(n) = 0 /\ UNCHANGED <<manual[n], redelivered[n]>>
<1>1. manual'[n] >= manual[n] /\ redelivered'[n] >= redelivered[n]
  <2> USE DEF TypeOK
  <2>1. ASSUME NEW m \in Notification,
               \/ InsertRow(m) \/ EnqueueNew(m) \/ EnqueueNewFails(m)
               \/ ExpireRetry(m) \/ OnRetryEvent(m) \/ AckRetry(m)
               \/ AckRetryFails(m) \/ RetryEventFails(m)
        PROVE  manual'[n] >= manual[n] /\ redelivered'[n] >= redelivered[n]
    BY <2>1 DEF InsertRow, EnqueueNew, EnqueueNewFails, ExpireRetry, OnRetryEvent,
                AckRetry, AckRetryFails, RetryEventFails, Put, history
  <2>2. ASSUME NEW w \in Worker,
               WorkerProgress(w) \/ Lost(w) \/ DequeueLost(w)
        PROVE  UNCHANGED <<manual, redelivered>>
    BY <2>2 DEF WorkerProgress, Lost, Dequeue, DequeueLost, GetById, UpdateQueued,
         HealthCheck, SendSucceeds, SendFails, MarkSent, MarkFailed, ScheduleRetry,
         ExhaustRetries, PublishRetry, PublishRetryFails, SendToDlq,
         SendToDlqFails, WorkerError, history
  <2>3. ASSUME NEW c \in Client,
               \/ ReadForRetry(c) \/ UpdatePending(c) \/ RetryEnqueue(c)
               \/ RequestError(c)
        PROVE  manual'[n] >= manual[n] /\ redelivered'[n] >= redelivered[n]
    BY <2>3 DEF ReadForRetry, UpdatePending, RetryEnqueue, RequestError, Put, history
  <2>4. CASE Crash \/ RedisRestarts
    BY <2>4 DEF Crash, RedisRestarts, OneIf
  <2>5. CASE UNCHANGED vars \/ \E ch \in Providers :
                                  SimulateDowntime(ch) \/ SimulateRecovery(ch)
    BY <2>5 DEF SimulateDowntime, SimulateRecovery, vars, history
  <2> QED BY <2>1, <2>2, <2>3, <2>4, <2>5 DEF Next, Lost
<1>2. TypeOK'
  BY TypeStep
<1>3. /\ manual[n] \in Nat /\ redelivered[n] \in Nat
      /\ manual'[n] \in Nat /\ redelivered'[n] \in Nat
  BY <1>2 DEF TypeOK
<1> QED BY <1>1, <1>3 DEF Extra

LEMMA UntouchedPlace ==
  ASSUME NEW n \in Notification, Untouched(n), Place(n), TypeOK
  PROVE  Place(n)' /\ Moved(n)
<1>2. Alone(n)'
  BY DEF Untouched, Place, Alone, Nowhere, InOnePlace, In
<1>3. \A w \in Worker : held'[w] = n => HeldShows(w, n)'
  BY DEF Untouched, Place, Shows, HeldShows
<1>4. Shows(n)'
  BY <1>3 DEF Untouched, Place, Shows
<1>5. row[n].retry_count \in Nat
  BY Amounts
<1> QED BY <1>2, <1>4, <1>5 DEF Place, Moved, LifecycleStep, OneIf, Untouched

-----------------------------------------------------------------------------
(* The workers.                                                            *)

\* A worker's step is about the notification it holds, or takes.
LEMMA WorkerAbout ==
  ASSUME TypeOK, NEW w \in Worker, WorkerProgress(w) \/ Lost(w),
         NEW n \in Notification
  PROVE  \/ Untouched(n)
         \/ Dequeue(w) /\ held'[w] = n
         \/ ~Dequeue(w) /\ held[w] = n
         \/ pc[w] = "dequeue" /\ held[w] = n
<1>1. CASE held[w] # n /\ held'[w] # n
  BY <1>1, WorkerApart
<1>2. held'[w] = n => held[w] = n \/ Dequeue(w)
  BY DispatchAssumption
  DEF WorkerProgress, Lost, GetById, UpdateQueued, HealthCheck,
      SendSucceeds, SendFails, MarkSent, MarkFailed, ScheduleRetry,
      ExhaustRetries, PublishRetry, PublishRetryFails, SendToDlq,
      SendToDlqFails, WorkerError, Release, TypeOK, workers
<1> QED BY <1>1, <1>2 DEF Dequeue

\* ... and leaves everything else where it was.
LEMMA WorkerScope ==
  ASSUME TypeOK, NEW w \in Worker, WorkerProgress(w) \/ Lost(w)
  PROVE  /\ UNCHANGED <<creating, result, clients>>
         /\ \A v \in Worker \ {w} : held'[v] = held[v]
<1> QED
  BY DEF WorkerProgress, Lost, Dequeue, GetById, UpdateQueued, HealthCheck,
         SendSucceeds, SendFails, MarkSent, MarkFailed, ScheduleRetry,
         ExhaustRetries, PublishRetry, PublishRetryFails, SendToDlq,
         SendToDlqFails, WorkerError, Release, Goto, workers, TypeOK, store,
         broker

\* n stays with worker w, or goes to it, or leaves the engine.
LEMMA StaysPlaced ==
  ASSUME TypeOK, TypeOK', NEW n \in Notification, NEW w \in Worker,
         Nowhere(n)', UNCHANGED clients,
         \A c \in Client : ~(request[c] = "enqueue" /\ asked[c] = n),
         \A v \in Worker \ {w} : held'[v] # n,
         row'[n].status = "RETRYING" => HasProvider(n), row'[n].status # ABSENT,
         held'[w] = n => HeldShows(w, n)'
  PROVE  Place(n)'
<1>2. Alone(n)'
  BY DEF Alone, clients
<1>3. \A v \in Worker : held'[v] = n => HeldShows(v, n)'
  OBVIOUS
<1>4. Shows(n)'
  BY <1>3 DEF Shows, HasProvider, Nowhere, In
<1> QED BY <1>2, <1>4 DEF Place

\* What a commit of the row a session holds makes of that row: exactly what the
\* session wrote, when its copy was the row itself.
LEMMA CommitFresh ==
  ASSUME TypeOK, NEW n \in Notification, NEW new \in NotificationRow,
         Update(n, row[n], new)
  PROVE  /\ row'[n].status = new.status
         /\ row'[n].retry_count = new.retry_count
<1>1. row \in [Notification -> NotificationRow] /\ row[n] \in NotificationRow
  BY DEF TypeOK
<1> QED BY <1>1, Commit

LEMMA WorkerPlace ==
  ASSUME TypeOK, TypeOK', RetryBudgetInv, NEW w \in Worker,
         WorkerProgress(w) \/ Lost(w),
         NEW n \in Notification, Extra(n) = 0, Place(n)
  PROVE  Place(n)' /\ Moved(n)
<1>1. CASE Untouched(n)
  BY <1>1, UntouchedPlace
<1>2. /\ UNCHANGED <<creating, result, clients>>
      /\ \A v \in Worker \ {w} : held'[v] = held[v]
  BY WorkerScope
<1>3. /\ row[n].retry_count \in Nat /\ manual[n] = 0
      /\ row[n].retry_count <= MaxRetries
      /\ row[n] \in NotificationRow
  BY Amounts, DispatchAssumption DEF RetryBudgetInv, RetryBudget
<1>4. ASSUME row'[n] = row[n] PROVE Moved(n)
  BY <1>3, <1>4 DEF Moved, LifecycleStep, OneIf
<1>5. CASE pc[w] = "dequeue" /\ held[w] = n
  BY <1>5 DEF Place, Shows, HeldShows
<1>6. CASE Dequeue(w) /\ held'[w] = n
  <2>1. /\ n \in queue /\ queue' = queue \ {n} /\ pc'[w] = "get_by_id"
        /\ UNCHANGED <<row, retry, dlq>>
    BY <1>6 DEF Dequeue, Goto, broker, TypeOK
  <2>2. In(n, FALSE, TRUE, 0, 0, 0) /\ \A v \in Worker : held[v] # n
    BY <2>1 DEF Place, Alone, InOnePlace, Nowhere, In
  <2>3. Nowhere(n)'
    BY <1>2, <2>1, <2>2 DEF Nowhere, In
  <2>4. HeldShows(w, n)'
    BY <2>1, <2>2 DEF Place, Shows, HeldShows, In
  <2>5. (row[n].status = "RETRYING" => HasProvider(n)) /\ row[n].status # ABSENT
    BY <2>2 DEF Place, Shows, In, ABSENT
  <2> QED BY <1>2, <1>4, <2>1, <2>2, <2>3, <2>4, <2>5, StaysPlaced DEF Place, Alone
<1>7. CASE ~Dequeue(w) /\ held[w] = n
  <2>1. /\ Nowhere(n) /\ \A v \in Worker \ {w} : held'[v] # n
        /\ \A c \in Client : ~(request[c] = "enqueue" /\ asked[c] = n)
        /\ HeldShows(w, n)
        /\ row[n].status = "RETRYING" => HasProvider(n)
    BY <1>2, <1>7 DEF Place, Alone, Shows
  <2>2. held[w] = n /\ pc[w] # "dequeue"
    BY <1>7, <2>1 DEF HeldShows
  <2>3. ASSUME UNCHANGED <<queue, retry, dlq>>,
               row'[n].status = "RETRYING" => HasProvider(n),
               row'[n].status = row[n].status \/ row'[n].status # ABSENT,
               held'[w] = n => HeldShows(w, n)'
        PROVE  Place(n)'
    <3>1. Nowhere(n)'
      BY <1>2, <2>1, <2>3 DEF Nowhere, In
    <3>2. row[n].status # ABSENT
      BY <2>1 DEF HeldShows, WorkerStep, TypeOK, ABSENT
    <3> QED BY <1>2, <2>1, <2>3, <3>1, <3>2, StaysPlaced
  <2>4. CASE GetById(w)
    <3>1. UNCHANGED <<row, queue, retry, dlq>>
      BY <2>4 DEF GetById, store, broker
    <3>2. HeldShows(w, n)'
      BY <2>1, <2>2, <2>4, <3>1 DEF GetById, Goto, HeldShows, HasProvider, TypeOK
    <3> QED BY <1>4, <2>1, <2>3, <3>1, <3>2
  <2>5. CASE UpdateQueued(w)
    <3>1. snap[w] = row[n] /\ row[n].status \in {"PENDING", "RETRYING"}
      BY <2>1, <2>5 DEF HeldShows, UpdateQueued
    <3>2. row'[n].status = "QUEUED" /\ row'[n].retry_count = row[n].retry_count
      BY <1>3, <2>2, <2>5, <3>1, CommitFresh, QueuedFields DEF UpdateQueued
    <3>3. HeldShows(w, n)'
      BY <2>1, <2>2, <2>5, <3>2 DEF UpdateQueued, Goto, HeldShows, HasProvider, TypeOK
    <3>4. UNCHANGED <<queue, retry, dlq>>
      BY <2>5 DEF UpdateQueued, broker
    <3> QED BY <1>3, <2>3, <3>1, <3>2, <3>3, <3>4 DEF Moved, LifecycleStep, OneIf,
                                                    ABSENT
  <2>6. CASE HealthCheck(w)
    <3>1. UNCHANGED <<row, queue, retry, dlq>>
      BY <2>6 DEF HealthCheck, store, broker
    <3>2. HeldShows(w, n)'
      BY <2>1, <2>2, <2>6, <3>1 DEF HealthCheck, Goto, HeldShows, HasProvider, TypeOK
    <3> QED BY <1>4, <2>1, <2>3, <3>1, <3>2
  <2>7. CASE SendSucceeds(w) \/ SendFails(w)
    <3>1. UNCHANGED <<row, queue, retry, dlq>>
      BY <2>7 DEF SendSucceeds, SendFails, store, broker
    <3>2. HeldShows(w, n)'
      BY <2>1, <2>2, <2>7, <3>1
      DEF SendSucceeds, SendFails, Goto, HeldShows, HasProvider, TypeOK
    <3> QED BY <1>4, <2>1, <2>3, <3>1, <3>2
  <2>8. CASE MarkSent(w)
    <3>1. snap[w] = row[n] /\ row[n].status = "QUEUED"
      BY <2>1, <2>8 DEF HeldShows, MarkSent
    <3>2. row'[n].status = "SENT" /\ row'[n].retry_count = row[n].retry_count
      BY <1>3, <2>2, <2>8, <3>1, CommitFresh, SentFields DEF MarkSent
    <3>3. held'[w] # n /\ UNCHANGED <<queue, retry, dlq>>
      BY <2>8, DispatchAssumption DEF MarkSent, Release, broker, TypeOK
    <3> QED BY <1>3, <2>3, <3>1, <3>2, <3>3 DEF Moved, LifecycleStep, Settled, OneIf,
                                               ABSENT
  <2>9. CASE MarkFailed(w) \/ ExhaustRetries(w)
    <3>1. snap[w] = row[n] /\ row[n].status \in {"PENDING", "QUEUED"}
      BY <2>1, <2>9 DEF HeldShows, MarkFailed, ExhaustRetries
    <3>2. row'[n].status = "FAILED" /\ row'[n].retry_count = row[n].retry_count
      <4>1. code[w] \in NotificationErrorCode \cup {NULL}
        BY <2>2, Holding
      <4> QED BY <1>3, <2>2, <2>9, <3>1, <4>1, CommitFresh, FailedFields
              DEF MarkFailed, ExhaustRetries, CommitFailed
    <3>3. UNCHANGED <<queue, retry, dlq>>
      BY <2>9 DEF MarkFailed, ExhaustRetries, broker
    <3>4. held'[w] = n => HeldShows(w, n)'
      <4>1. CASE MarkFailed(w)
        BY <4>1, DispatchAssumption DEF MarkFailed, Release, TypeOK
      <4>2. CASE ExhaustRetries(w)
        <5>1. row[n].retry_count = MaxRetries
          BY <1>3, <3>1, <4>2, DispatchAssumption
          DEF ExhaustRetries, RetriesLeft, NewRetryCount
        <5> QED BY <3>2, <4>2, <5>1 DEF ExhaustRetries, Goto, HeldShows, TypeOK
      <4> QED BY <2>9, <4>1, <4>2
    <3>5. row[n].status = "PENDING" \/ row[n].status = "QUEUED"
      BY <3>1
    <3> QED BY <1>3, <2>3, <3>2, <3>3, <3>4, <3>5
            DEF Moved, LifecycleStep, Settled, OneIf, ABSENT
  <2>10. CASE ScheduleRetry(w)
    <3>1. /\ snap[w] = row[n] /\ row[n].status = "QUEUED" /\ HasProvider(n)
      BY <2>1, <2>10 DEF HeldShows, ScheduleRetry
    <3>2. /\ row'[n].status = "RETRYING"
          /\ row'[n].retry_count = row[n].retry_count + 1
      <4>1. /\ code[w] \in NotificationErrorCode \cup {NULL}
            /\ NewRetryCount(w) \in Nat /\ NewRetryCount(w) = row[n].retry_count + 1
        BY <2>2, <3>1, Holding DEF NewRetryCount
      <4> QED BY <1>3, <2>2, <2>10, <3>1, <4>1, CommitFresh, RetryingFields
              DEF ScheduleRetry
    <3>3. HeldShows(w, n)' /\ UNCHANGED <<queue, retry, dlq>>
      BY <3>2, <2>10 DEF ScheduleRetry, Goto, HeldShows, TypeOK, broker
    <3> QED BY <1>3, <2>3, <3>1, <3>2, <3>3
            DEF Moved, LifecycleStep, Settled, OneIf, ABSENT
  <2>11. CASE PublishRetryFails(w) \/ SendToDlqFails(w) \/ WorkerError(w)
    <3>1. held'[w] # n /\ UNCHANGED <<row, queue, retry, dlq>>
      BY <2>11, DispatchAssumption
      DEF PublishRetryFails, SendToDlqFails, WorkerError, Release, store, broker, TypeOK
    <3> QED BY <1>4, <2>1, <2>3, <3>1
  <2>12. CASE PublishRetry(w) \/ SendToDlq(w)
    <3>1. /\ UNCHANGED <<row, queue>>
          /\ \A v \in Worker : held'[v] # n
      BY <2>1, <2>12, DispatchAssumption
      DEF PublishRetry, SendToDlq, Release, store, TypeOK
    <3>2. InOnePlace(n)'
      BY <1>2, <2>1, <2>2, <2>12, <3>1
      DEF PublishRetry, SendToDlq, Put, Nowhere, InOnePlace, In, TypeOK
    <3>3. Alone(n)'
      BY <1>2, <2>1, <3>1, <3>2 DEF Alone, clients
    <3>4. Shows(n)'
      BY <1>2, <2>1, <2>2, <2>12, <3>1
      DEF PublishRetry, SendToDlq, Put, Nowhere, In, Shows, HeldShows, HasProvider,
          TypeOK, ABSENT
    <3> QED BY <1>4, <3>1, <3>3, <3>4 DEF Place
  <2> QED BY <1>7, <2>4, <2>5, <2>6, <2>7, <2>8, <2>9, <2>10, <2>11, <2>12
          DEF WorkerProgress, Lost
<1> QED BY <1>1, <1>5, <1>6, <1>7, WorkerAbout

-----------------------------------------------------------------------------
(* The other parts of the engine.                                          *)

\* A step by which no worker, no caller and no commit is moved.
LEMMA StaysShown ==
  ASSUME NEW n \in Notification, Place(n), UNCHANGED <<workers, clients>>,
         row'[n] = row[n], TypeOK,
         Nowhere(n)' \/ InOnePlace(n)',
         (\E w \in Worker : held[w] = n) => Nowhere(n)',
         n \in creating' => row[n].status = "PENDING",
         n \in queue' => row[n].status \in {"PENDING", "RETRYING"},
         retry'[n] > 0 \/ result'[n] > 0 => row[n].status = "RETRYING",
         dlq'[n] = dlq[n]
  PROVE  Place(n)' /\ Moved(n)
<1>1. Alone(n)'
  BY DEF Place, Alone, workers, clients
<1>2. Shows(n)'
  BY DEF Place, Shows, HeldShows, workers, HasProvider
<1>3. row[n].retry_count \in Nat
  BY Amounts
<1> QED BY <1>1, <1>2, <1>3 DEF Place, Moved, LifecycleStep, OneIf

LEMMA PartPlace ==
  ASSUME TypeOK, KnownId, NEW m \in Notification,
         \/ InsertRow(m) \/ EnqueueNew(m) \/ EnqueueNewFails(m)
         \/ ExpireRetry(m) \/ OnRetryEvent(m) \/ AckRetry(m)
         \/ AckRetryFails(m) \/ RetryEventFails(m),
         NEW n \in Notification, Place(n), redelivered'[n] = redelivered[n]
  PROVE  Place(n)' /\ Moved(n)
<1>1. UNCHANGED <<workers, clients>>
  BY DEF InsertRow, EnqueueNew, EnqueueNewFails, ExpireRetry, OnRetryEvent,
         AckRetry, AckRetryFails, RetryEventFails
<1>2. /\ Nowhere(n) \/ InOnePlace(n)
      /\ \A w \in Worker : held[w] = n => Nowhere(n)
      /\ n \in creating => row[n].status = "PENDING"
      /\ n \in queue => row[n].status \in {"PENDING", "RETRYING"}
      /\ retry[n] > 0 \/ result[n] > 0 => row[n].status = "RETRYING"
  BY DEF Place, Alone, Shows
<1>3. CASE m # n
  <2>1. Untouched(n)
    <3> USE DEF Untouched, TypeOK
    <3>1. CASE InsertRow(m)
      BY <1>1, <1>3, <3>1 DEF InsertRow, broker, history, workers, clients
    <3>2. CASE EnqueueNew(m) \/ EnqueueNewFails(m)
      BY <1>1, <1>3, <3>2 DEF EnqueueNew, EnqueueNewFails, Drop, broker, history,
                              workers, clients
    <3>3. CASE ExpireRetry(m)
      BY <1>1, <1>3, <3>3 DEF ExpireRetry, Put, Take, store, history, workers, clients
    <3>4. CASE OnRetryEvent(m)
      BY <1>1, <1>3, <3>4 DEF OnRetryEvent, Put, Take, Regain, workers, clients
    <3>5. CASE AckRetry(m) \/ AckRetryFails(m)
      BY <1>1, <1>3, <3>5 DEF AckRetry, AckRetryFails, Put, Take, store, history,
                              workers, clients
    <3>6. CASE RetryEventFails(m)
      BY <1>1, <1>3, <3>6 DEF RetryEventFails, Take, Drop, store, workers, clients
    <3> QED BY <3>1, <3>2, <3>3, <3>4, <3>5, <3>6
  <2> QED BY <2>1, UntouchedPlace
<1>4. CASE m = n
  <2> USE DEF Nowhere, InOnePlace, In
  <2>1. CASE InsertRow(n)
    <3>1. row[n].status = ABSENT
      BY <2>1 DEF InsertRow
    <3>2. /\ Nowhere(n)
          /\ \A w \in Worker : held[w] # n
          /\ \A c \in Client : asked[c] # n
      BY <3>1, Amounts DEF KnownId
    <3>3. /\ row'[n] = NewRow /\ creating' = creating \cup {n}
          /\ UNCHANGED <<queue, retry, result, dlq>>
      BY <2>1 DEF InsertRow, TypeOK, broker
    <3>4. Alone(n)'
      BY <1>1, <3>2, <3>3 DEF Alone, workers, clients
    <3>5. Shows(n)'
      BY <1>1, <3>2, <3>3, RowTypes DEF Shows, workers
    <3>6. row[n].retry_count = 0
      BY <3>1 DEF Place, Shows
    <3> QED BY <3>1, <3>3, <3>4, <3>5, <3>6, RowTypes DEF Place, Moved, LifecycleStep, OneIf
  <2>2. CASE EnqueueNew(n) \/ EnqueueNewFails(n)
    <3>1. UNCHANGED <<row, retry, result, dlq>> /\ n \in creating
      BY <2>2 DEF EnqueueNew, EnqueueNewFails, broker
    <3> QED BY <1>1, <1>2, <2>2, <3>1, StaysShown DEF EnqueueNew, EnqueueNewFails
  <2>3. CASE ExpireRetry(n)
    <3>1. UNCHANGED <<row, creating, queue, dlq>> /\ retry[n] > 0
          /\ retry'[n] = retry[n] - 1 /\ result'[n] = result[n] + 1
      BY <2>3 DEF ExpireRetry, Put, Take, store, TypeOK
    <3> QED BY <1>1, <1>2, <3>1, StaysShown
  <2>4. CASE OnRetryEvent(n)
    <3>1. UNCHANGED <<row, creating, retry, dlq>> /\ result[n] > 0
          /\ result'[n] = result[n] - 1 /\ queue' = queue \cup {n}
      BY <2>4 DEF OnRetryEvent, Put, Take, TypeOK
    <3> QED BY <1>1, <1>2, <3>1, StaysShown
  <2>5. CASE AckRetry(n)
    <3>1. UNCHANGED <<row, creating, queue, retry, result, dlq>>
      BY <2>5 DEF AckRetry, store
    <3> QED BY <1>1, <1>2, <3>1, StaysShown
  <2>6. CASE AckRetryFails(n)
    BY <2>6, Amounts DEF AckRetryFails, Put, TypeOK
  <2>7. CASE RetryEventFails(n)
    <3>1. UNCHANGED <<row, creating, queue, retry, dlq>> /\ result[n] > 0
          /\ result'[n] = result[n] - 1
      BY <2>7 DEF RetryEventFails, Take, store, TypeOK
    <3> QED BY <1>1, <1>2, <3>1, StaysShown
  <2> QED BY <1>4, <2>1, <2>2, <2>3, <2>4, <2>5, <2>6, <2>7
<1> QED BY <1>3, <1>4

LEMMA ClientPlace ==
  ASSUME TypeOK, NEW c \in Client,
         ReadForRetry(c) \/ UpdatePending(c) \/ RetryEnqueue(c) \/ RequestError(c),
         NEW n \in Notification, Place(n), manual'[n] = manual[n]
  PROVE  Place(n)' /\ Moved(n)
<1>1. Untouched(n)
  <2> USE DEF Untouched, TypeOK, workers, broker
  <2>1. ~(request[c] = "enqueue" /\ asked[c] = n)
    BY DEF Place, Alone
  <2>2. CASE ReadForRetry(c)
    BY <2>1, <2>2 DEF ReadForRetry, store, history
  <2>3. CASE UpdatePending(c)
    <3>1. /\ asked[c] \in Notification
          /\ \A m \in Notification : m # asked[c] => row'[m] = row[m]
      BY <2>3, CommitPending
    <3>2. asked[c] # n
      BY <2>3, Amounts DEF UpdatePending, Put
    <3> QED BY <2>1, <2>3, <3>1, <3>2 DEF UpdatePending, Put
  <2>4. CASE RetryEnqueue(c)
    BY <2>1, <2>4 DEF RetryEnqueue, Regain, Close
  <2>5. CASE RequestError(c)
    BY <2>1, <2>5 DEF RequestError, Drop, Close, store
  <2> QED BY <2>2, <2>3, <2>4, <2>5
<1> QED BY <1>1, UntouchedPlace

LEMMA PlaceStep ==
  ASSUME TypeOK, KnownId, RetryBudgetInv, [Next]_vars,
         NEW n \in Notification, Extra(n)' = 0, Extra(n) = 0 => Place(n)
  PROVE  Place(n)' /\ Moved(n)
<1>1. TypeOK'
  BY TypeStep
<1>2. /\ Extra(n) = 0 /\ Place(n)
      /\ manual'[n] = manual[n] /\ redelivered'[n] = redelivered[n]
  BY ExtraGrows
<1>3. /\ Nowhere(n) \/ InOnePlace(n)
      /\ \A w \in Worker : held[w] = n => Nowhere(n)
      /\ n \in creating => row[n].status = "PENDING"
      /\ n \in queue => row[n].status \in {"PENDING", "RETRYING"}
      /\ retry[n] > 0 \/ result[n] > 0 => row[n].status = "RETRYING"
  BY <1>2 DEF Place, Alone, Shows
<1>4. ASSUME NEW w \in Worker, DequeueLost(w) PROVE Place(n)' /\ Moved(n)
  <2>1. /\ UNCHANGED <<row, creating, retry, result, dlq, workers, clients>>
        /\ queue' \in {queue, queue \ {n}} \/ (n \in queue' <=> n \in queue)
    BY <1>4 DEF DequeueLost, broker
  <2>2. Nowhere(n)' \/ InOnePlace(n)'
    BY <1>3, <2>1 DEF Nowhere, InOnePlace, In
  <2>3. (\E v \in Worker : held[v] = n) => Nowhere(n)'
    BY <1>3, <2>1 DEF Nowhere, In
  <2> QED BY <1>2, <1>3, <2>1, <2>2, <2>3, StaysShown
<1>5. ASSUME NEW ch \in Providers, SimulateDowntime(ch) \/ SimulateRecovery(ch)
      PROVE  Place(n)' /\ Moved(n)
  <2>1. Untouched(n)
    BY <1>5 DEF SimulateDowntime, SimulateRecovery, Untouched, store, broker,
                workers, clients, history
  <2> QED BY <1>2, <2>1, UntouchedPlace
<1>6. CASE Crash
  <2>1. /\ UNCHANGED <<row, queue, retry, dlq>> /\ creating' = {}
        /\ \A w \in Worker : held'[w] = None
        /\ \A c \in Client : request'[c] = "idle"
    BY <1>6 DEF Crash
  <2>2. acking[n] = 0 /\ result'[n] = result[n]
    BY <1>2, <1>6, Amounts DEF Crash
  <2>3. Nowhere(n)' \/ InOnePlace(n)'
    BY <1>3, <2>1, <2>2 DEF Nowhere, InOnePlace, In
  <2>4. Alone(n)'
    BY <2>1, <2>3, DispatchAssumption DEF Alone
  <2>5. Shows(n)'
    BY <1>2, <2>1, <2>2, DispatchAssumption DEF Place, Shows, HasProvider
  <2>6. row[n].retry_count \in Nat
    BY Amounts
  <2> QED BY <2>1, <2>4, <2>5, <2>6 DEF Place, Moved, LifecycleStep, OneIf
<1>7. CASE RedisRestarts
  <2>1. UNCHANGED <<row, creating, retry, result, dlq, workers, clients>>
    BY <1>7 DEF RedisRestarts, broker
  <2>2. n \in queue' => n \in queue
    BY <1>2, <1>7, Amounts DEF RedisRestarts, OneIf
  <2>3. Nowhere(n)' \/ InOnePlace(n)'
    BY <1>3, <2>1, <2>2 DEF Nowhere, InOnePlace, In
  <2>4. (\E v \in Worker : held[v] = n) => Nowhere(n)'
    BY <1>3, <2>1, <2>2 DEF Nowhere, In
  <2> QED BY <1>2, <1>3, <2>1, <2>2, <2>3, <2>4, StaysShown
<1>8. CASE UNCHANGED vars
  <2>1. Untouched(n)
    BY <1>8 DEF vars, Untouched, store, broker, workers, clients, history
  <2> QED BY <1>2, <2>1, UntouchedPlace
<1> QED BY <1>1, <1>2, <1>4, <1>5, <1>6, <1>7, <1>8, WorkerPlace, PartPlace, ClientPlace
        DEF Next, Lost

\* In every reachable state, of every notification that nobody has retried by
\* hand and no broker brought back.
Placed == \A n \in Notification : Extra(n) = 0 => Place(n)

LEMMA PlacedStep ==
  TypeOK /\ KnownId /\ RetryBudgetInv /\ Placed /\ [Next]_vars => Placed'
BY PlaceStep DEF Placed

LEMMA PlacedHolds == Spec => []Placed
<1>1. Init => Placed
  BY DispatchAssumption, RowTypes
  DEF Init, Placed, Place, Alone, Nowhere, In, Shows, ABSENT
<1> QED BY <1>1, PlacedStep, TypeCorrect, KnownIdHolds, RetryBudgetInvHolds, PTL
        DEF Spec

\* Place and status agree: nothing waits out a TTL unless its row says
\* RETRYING, nothing is on the Redis queue whose row says anything but PENDING
\* or RETRYING, and a message is in the dead letter queue once, with its row
\* FAILED and exactly max_retries retries counted.  The argument is that the
\* notification is in one place only, so the worker that holds it writes back
\* the row as it is and not the copy another session has overtaken.
THEOREM PlaceAgreesHolds == Spec => []PlaceAgreesWithStatus
<1>1. TypeOK /\ Placed => PlaceAgreesWithStatus
  <2> SUFFICES ASSUME TypeOK, NEW n \in Notification, Place(n)
               PROVE  /\ retry[n] + result[n] > 0 => row[n].status = "RETRYING"
                      /\ n \in queue => row[n].status \in {"PENDING", "RETRYING"}
                      /\ dlq[n] > 0 => /\ dlq[n] = 1
                                       /\ row[n].status = "FAILED"
                                       /\ row[n].retry_count = MaxRetries
    BY DEF Placed, PlaceAgreesWithStatus
  <2>1. retry[n] \in Nat /\ result[n] \in Nat /\ dlq[n] \in Nat
    BY Amounts
  <2>2. dlq[n] = 0 \/ dlq[n] = 1
    BY DEF Place, Alone, Nowhere, InOnePlace, In
  <2> QED BY <2>1, <2>2 DEF Place, Shows
<1> QED BY <1>1, TypeCorrect, PlacedHolds, PTL

\* The status lifecycle: a row nobody intervenes in moves only along PENDING,
\* QUEUED, RETRYING and a final SENT or FAILED, and counts a retry exactly when
\* it becomes RETRYING, whichever worker, consumer or crash takes the step.
THEOREM LifecycleHolds == Spec => Lifecycle
<1>1. TypeOK /\ KnownId /\ RetryBudgetInv /\ Placed /\ [Next]_vars =>
        [\A n \in Notification : Extra(n)' = 0 =>
           /\ LifecycleStep(n)
           /\ row'[n].retry_count = row[n].retry_count
                + OneIf(row'[n].status = "RETRYING" /\ row[n].status # "RETRYING")]_vars
  BY PlaceStep DEF Placed, Moved
<1> QED BY <1>1, TypeCorrect, KnownIdHolds, RetryBudgetInvHolds, PlacedHolds, PTL
        DEF Spec, Lifecycle
=============================================================================

-------------------------- MODULE DispatchOwedProofs --------------------------
(***************************************************************************)
(* Proofs that nothing is forgotten: while a notification is not settled   *)
(* and no fault has dropped it, it is on a queue or somebody has it.  For  *)
(* every number of notifications, workers and callers, and every value of  *)
(* the bounds.                                                             *)
(***************************************************************************)
EXTENDS DispatchProofs

-----------------------------------------------------------------------------
(* Steps that are not about a notification.                                *)

\* Whatever the engine has of n is as it was.
Untouched(n) ==
  /\ row'[n] = row[n]
  /\ (n \in creating') = (n \in creating) /\ (n \in queue') = (n \in queue)
  /\ (n \in dropped') = (n \in dropped)
  /\ retry'[n] = retry[n] /\ result'[n] = result[n] /\ dlq'[n] = dlq[n]
  /\ manual'[n] = manual[n] /\ redelivered'[n] = redelivered[n]
  /\ \A w \in Worker : (held'[w] = n) = (held[w] = n)
  /\ \A w \in Worker : held[w] = n => pc'[w] = pc[w] /\ snap'[w] = snap[w]
  /\ \A c \in Client : (request'[c] = "enqueue" /\ asked'[c] = n)
                         = (request[c] = "enqueue" /\ asked[c] = n)

Lost(w) == PublishRetryFails(w) \/ SendToDlqFails(w) \/ WorkerError(w)

\* A worker touches only the notification it holds, or takes.
LEMMA WorkerApart ==
  ASSUME TypeOK, NEW w \in Worker, WorkerProgress(w) \/ Lost(w),
         NEW n \in Notification, held[w] # n, held'[w] # n
  PROVE  Untouched(n)
<1> USE DEF TypeOK
<1>1. UNCHANGED <<creating, result, manual, redelivered, clients>>
  BY DEF WorkerProgress, Lost, Dequeue, GetById, UpdateQueued, HealthCheck,
         SendSucceeds, SendFails, MarkSent, MarkFailed, ScheduleRetry,
         ExhaustRetries, PublishRetry, PublishRetryFails, SendToDlq,
         SendToDlqFails, WorkerError, store, broker, history
<1>2. \A v \in Worker \ {w} : pc'[v] = pc[v] /\ held'[v] = held[v] /\ snap'[v] = snap[v]
  BY DEF WorkerProgress, Lost, Dequeue, GetById, UpdateQueued, HealthCheck,
         SendSucceeds, SendFails, MarkSent, MarkFailed, ScheduleRetry,
         ExhaustRetries, PublishRetry, PublishRetryFails, SendToDlq,
         SendToDlqFails, WorkerError, Release, Goto, workers
<1>3. row'[n] = row[n]
  BY DEF WorkerProgress, Lost, Dequeue, GetById, UpdateQueued, HealthCheck,
         SendSucceeds, SendFails, MarkSent, MarkFailed, ScheduleRetry,
         ExhaustRetries, PublishRetry, PublishRetryFails, SendToDlq,
         SendToDlqFails, WorkerError, CommitFailed, Update, store
<1>4. (n \in queue') = (n \in queue)
  BY DEF WorkerProgress, Lost, Dequeue, GetById, UpdateQueued, HealthCheck,
         SendSucceeds, SendFails, MarkSent, MarkFailed, ScheduleRetry,
         ExhaustRetries, PublishRetry, PublishRetryFails, SendToDlq,
         SendToDlqFails, WorkerError, store
<1>5. (n \in dropped') = (n \in dropped)
  BY DEF WorkerProgress, Lost, Dequeue, GetById, UpdateQueued, HealthCheck,
         SendSucceeds, SendFails, MarkSent, MarkFailed, ScheduleRetry,
         ExhaustRetries, PublishRetry, PublishRetryFails, SendToDlq,
         SendToDlqFails, WorkerError, Drop, history
<1>6. retry'[n] = retry[n] /\ dlq'[n] = dlq[n]
  BY DEF WorkerProgress, Lost, Dequeue, GetById, UpdateQueued, HealthCheck,
         SendSucceeds, SendFails, MarkSent, MarkFailed, ScheduleRetry,
         ExhaustRetries, PublishRetry, PublishRetryFails, SendToDlq,
         SendToDlqFails, WorkerError, Put, broker
<1> QED BY <1>1, <1>2, <1>3, <1>4, <1>5, <1>6 DEF Untouched, clients

\* A commit by a session that has not seen the row settled may settle it; one
\* by a session that has changes no status that is not settled.
LEMMA CommitSettles ==
  ASSUME TypeOK, NEW w \in Worker,
         MarkSent(w) \/ MarkFailed(w) \/ ExhaustRetries(w)
  PROVE  /\ row'[held[w]].status = row[held[w]].status
              \/ row'[held[w]].status \in Settled
         /\ snap[w].status \in Live => row'[held[w]].status \in Settled
<1>1. pc[w] # "dequeue" /\ row \in [Notification -> NotificationRow]
  BY DEF TypeOK, MarkSent, MarkFailed, ExhaustRetries
<1>2. held[w] \in Notification /\ snap[w] \in NotificationRow
  BY <1>1, Holding
<1>3. ASSUME NEW new \in NotificationRow, Update(held[w], snap[w], new),
             new.status \in Settled
      PROVE  /\ row'[held[w]].status = row[held[w]].status
                  \/ row'[held[w]].status \in Settled
             /\ snap[w].status \in Live => row'[held[w]].status \in Settled
  <2>1. row'[held[w]].status =
          IF new.status = snap[w].status THEN row[held[w]].status ELSE new.status
    BY <1>1, <1>2, <1>3, Commit
  <2> QED BY <1>3, <2>1 DEF Live, Settled
<1>4. CASE MarkSent(w)
  <2> DEFINE new == SentRow(snap[w])
  <2>1. new \in NotificationRow /\ new.status \in Settled
    BY <1>2, SentFields DEF Settled
  <2>2. Update(held[w], snap[w], new)
    BY <1>4 DEF MarkSent
  <2> HIDE DEF new
  <2> QED BY <1>3, <2>1, <2>2
<1>5. CASE MarkFailed(w) \/ ExhaustRetries(w)
  <2> DEFINE new == FailedRow(snap[w], code[w])
  <2>1. new \in NotificationRow /\ new.status \in Settled
    BY <1>1, <1>2, Holding, FailedFields DEF Settled
  <2>2. Update(held[w], snap[w], new)
    BY <1>5 DEF MarkFailed, ExhaustRetries, CommitFailed
  <2> HIDE DEF new
  <2> QED BY <1>3, <2>1, <2>2
<1> QED BY <1>4, <1>5

-----------------------------------------------------------------------------
(* Nothing is forgotten.                                                   *)

\* A worker owes n a further step: its round will not end without settling the
\* row or handing n on.  One that has seen the row settled owes it nothing.
Owes(w, n) ==
  /\ held[w] = n
  /\ \/ pc[w] \in {"get_by_id", "update_queued", "health_check", "publish_retry"}
     \/ /\ pc[w] \in {"send", "mark_sent", "mark_failed", "schedule_retry"}
        /\ snap[w].status \in Live

Waits(n) ==
  \/ n \in creating \cup queue \cup dropped
  \/ retry[n] > 0 \/ result[n] > 0
  \/ \E c \in Client : request[c] = "enqueue" /\ asked[c] = n

Owed(n) == row[n].status \in Live => Waits(n) \/ \E w \in Worker : Owes(w, n)

LEMMA WorkerOwed ==
  ASSUME TypeOK, NEW w \in Worker, WorkerProgress(w) \/ Lost(w),
         NEW n \in Notification, Owed(n)
  PROVE  Owed(n)'
<1>1. CASE held[w] # n /\ held'[w] # n
  <2>1. Untouched(n)
    BY <1>1, WorkerApart
  <2> QED BY <2>1 DEF Untouched, Owed, Owes, Waits, TypeOK
<1>2. ASSUME NEW v \in Worker, v # w, Owes(v, n) PROVE Owes(v, n)'
  BY <1>2 DEF WorkerProgress, Lost, Dequeue, GetById, UpdateQueued, HealthCheck,
         SendSucceeds, SendFails, MarkSent, MarkFailed, ScheduleRetry,
         ExhaustRetries, PublishRetry, PublishRetryFails, SendToDlq,
         SendToDlqFails, WorkerError, Release, Goto, workers, Owes, TypeOK
<1>3. CASE Dequeue(w)
  <2>1. CASE held'[w] = n
    <3>1. Owes(w, n)'
      BY <1>3, <2>1 DEF Dequeue, Goto, Owes, TypeOK
    <3> QED BY <3>1 DEF Owed
  <2>2. CASE held'[w] # n
    <3>1. /\ ~Owes(w, n)
          /\ row' = row /\ (Waits(n) => Waits(n)')
      BY <1>3, <2>2 DEF Dequeue, Owes, Waits, TypeOK, broker, clients, history
    <3> QED BY <1>2, <3>1 DEF Owed
  <2> QED BY <2>1, <2>2
<1>4. CASE ~Dequeue(w) /\ held[w] = n
  <2> SUFFICES ASSUME row'[n].status \in Live
               PROVE  Waits(n)' \/ Owes(w, n)' \/ \E v \in Worker \ {w} : Owes(v, n)
    BY <1>2 DEF Owed
  <2>1. row[n].status \in Live =>
          Waits(n) \/ Owes(w, n) \/ \E v \in Worker \ {w} : Owes(v, n)
    BY DEF Owed
  <2>3. CASE GetById(w)
    <3>1. /\ Owes(w, n)' \/ row[n].status \notin Live
          /\ row' = row
      BY <1>4, <2>3 DEF GetById, Goto, Owes, TypeOK, store
    <3> QED BY <3>1
  <2>4. CASE UpdateQueued(w)
    <3>1. Owes(w, n)'
      BY <1>4, <2>4 DEF UpdateQueued, Goto, Owes, TypeOK
    <3> QED BY <3>1
  <2>5. CASE HealthCheck(w)
    <3>1. /\ Owes(w, n)' \/ row[n].status \notin Live
          /\ row' = row
      BY <1>4, <2>5 DEF HealthCheck, Goto, Owes, TypeOK, store
    <3> QED BY <3>1
  <2>6. CASE SendSucceeds(w) \/ SendFails(w)
    <3>1. /\ Owes(w, n) => Owes(w, n)'
          /\ row' = row /\ (Waits(n) => Waits(n)')
      BY <1>4, <2>6 DEF SendSucceeds, SendFails, Goto, Owes, Waits, TypeOK, store,
                        broker, clients, history
    <3> QED BY <2>1, <3>1
  <2>7. CASE MarkSent(w) \/ MarkFailed(w) \/ ExhaustRetries(w)
    <3>1. /\ row'[n].status = row[n].status /\ snap[w].status \notin Live
      BY <1>4, <2>7, CommitSettles DEF Live, Settled
    <3>2. ~Owes(w, n) /\ (Waits(n) => Waits(n)')
      BY <2>7, <3>1 DEF MarkSent, MarkFailed, ExhaustRetries, Owes, Waits, TypeOK,
                        broker, clients, history
    <3> QED BY <2>1, <3>1, <3>2
  <2>8. CASE ScheduleRetry(w)
    <3>1. Owes(w, n)'
      BY <1>4, <2>8 DEF ScheduleRetry, Goto, Owes, TypeOK
    <3> QED BY <3>1
  <2>9. CASE PublishRetry(w)
    <3>1. Waits(n)'
      BY <1>4, <2>9 DEF PublishRetry, Put, Waits, TypeOK
    <3> QED BY <3>1
  <2>10. CASE PublishRetryFails(w) \/ WorkerError(w)
    <3>1. Waits(n)'
      BY <1>4, <2>10 DEF PublishRetryFails, WorkerError, Drop, Waits
    <3> QED BY <3>1
  <2>11. CASE SendToDlq(w) \/ SendToDlqFails(w)
    <3>1. /\ ~Owes(w, n)
          /\ row' = row /\ (Waits(n) => Waits(n)')
      BY <2>11 DEF SendToDlq, SendToDlqFails, Owes, Waits, TypeOK, store, broker,
                   clients, history
    <3> QED BY <2>1, <3>1
  <2> QED BY <1>4, <2>3, <2>4, <2>5, <2>6, <2>7, <2>8, <2>9, <2>10, <2>11
          DEF WorkerProgress, Lost
<1>5. ~Dequeue(w) => held[w] = n \/ (held[w] # n /\ held'[w] # n)
  BY DispatchAssumption
  DEF WorkerProgress, Lost, GetById, UpdateQueued, HealthCheck,
      SendSucceeds, SendFails, MarkSent, MarkFailed, ScheduleRetry,
      ExhaustRetries, PublishRetry, PublishRetryFails, SendToDlq,
      SendToDlqFails, WorkerError, Release, TypeOK, workers
<1> QED BY <1>1, <1>3, <1>4, <1>5

\* The steps of the engine's other parts leave the workers alone.
LEMMA OthersOwed ==
  ASSUME TypeOK, NEW n \in Notification, Owed(n), UNCHANGED workers,
         row'[n].status \in Live =>
           Waits(n)' \/ (row[n].status \in Live /\ ~Waits(n))
  PROVE  Owed(n)'
<1>1. \A w \in Worker : Owes(w, n) => Owes(w, n)'
  BY DEF Owes, workers
<1> QED BY <1>1 DEF Owed

LEMMA PartOwed ==
  ASSUME TypeOK, NEW m \in Notification,
         \/ InsertRow(m) \/ EnqueueNew(m) \/ EnqueueNewFails(m)
         \/ ExpireRetry(m) \/ OnRetryEvent(m) \/ AckRetry(m)
         \/ AckRetryFails(m) \/ RetryEventFails(m),
         NEW n \in Notification, Owed(n)
  PROVE  Owed(n)'
<1>1. UNCHANGED workers
  BY DEF InsertRow, EnqueueNew, EnqueueNewFails, ExpireRetry, OnRetryEvent,
         AckRetry, AckRetryFails, RetryEventFails
<1>2. Waits(n)' \/ (row'[n] = row[n] /\ ~Waits(n))
  <2> USE DEF Waits, TypeOK
  <2>1. CASE InsertRow(m)
    BY <2>1 DEF InsertRow, broker, clients, history
  <2>2. CASE EnqueueNew(m) \/ EnqueueNewFails(m)
    BY <2>2 DEF EnqueueNew, EnqueueNewFails, Drop, broker, clients, history
  <2>3. CASE ExpireRetry(m)
    BY <2>3 DEF ExpireRetry, Put, Take, store, clients, history
  <2>4. CASE OnRetryEvent(m)
    BY <2>4 DEF OnRetryEvent, Put, Take, Regain, clients
  <2>5. CASE AckRetry(m) \/ AckRetryFails(m)
    BY <2>5 DEF AckRetry, AckRetryFails, Put, Take, store, clients, history
  <2>6. CASE RetryEventFails(m)
    BY <2>6 DEF RetryEventFails, Take, Drop, store, clients
  <2> QED BY <2>1, <2>2, <2>3, <2>4, <2>5, <2>6
<1> QED BY <1>1, <1>2, OthersOwed

LEMMA ClientOwed ==
  ASSUME TypeOK, NEW c \in Client,
         ReadForRetry(c) \/ UpdatePending(c) \/ RetryEnqueue(c) \/ RequestError(c),
         NEW n \in Notification, Owed(n)
  PROVE  Owed(n)'
<1>1. UNCHANGED workers
  BY DEF ReadForRetry, UpdatePending, RetryEnqueue, RequestError
<1>2. Waits(n)' \/ (row'[n] = row[n] /\ ~Waits(n))
  <2>1. CASE ReadForRetry(c)
    BY <2>1 DEF ReadForRetry, Waits, TypeOK, store, broker, history
  <2>2. CASE UpdatePending(c)
    <3>1. /\ asked[c] \in Notification
          /\ \A m \in Notification : m # asked[c] => row'[m] = row[m]
      BY <2>2, CommitPending
    <3> QED BY <2>2, <3>1 DEF UpdatePending, Waits, TypeOK, broker
  <2>3. CASE RetryEnqueue(c)
    BY <2>3 DEF RetryEnqueue, Regain, Close, Waits, TypeOK, broker
  <2>4. CASE RequestError(c)
    BY <2>4 DEF RequestError, Drop, Close, Waits, TypeOK, store, broker
  <2> QED BY <2>1, <2>2, <2>3, <2>4
<1> QED BY <1>1, <1>2, OthersOwed

LEMMA OwedStep ==
  TypeOK /\ (\A n \in Notification : Owed(n)) /\ [Next]_vars
    => (\A n \in Notification : Owed(n))'
<1> SUFFICES ASSUME TypeOK, [Next]_vars, NEW n \in Notification, Owed(n)
             PROVE  Owed(n)'
  OBVIOUS
<1>1. ASSUME NEW w \in Worker, DequeueLost(w) PROVE Owed(n)'
  <2>1. Waits(n)' \/ (row'[n] = row[n] /\ ~Waits(n))
    BY <1>1 DEF DequeueLost, Drop, Waits, broker, clients, history
  <2> QED BY <1>1, <2>1, OthersOwed DEF DequeueLost
<1>2. ASSUME NEW ch \in Providers, SimulateDowntime(ch) \/ SimulateRecovery(ch)
      PROVE  Owed(n)'
  <2>1. Waits(n)' \/ (row'[n] = row[n] /\ ~Waits(n))
    BY <1>2 DEF SimulateDowntime, SimulateRecovery, Waits, store, broker, clients,
                history
  <2> QED BY <1>2, <2>1, OthersOwed DEF SimulateDowntime, SimulateRecovery
<1>3. CASE Crash
  <2>1. row' = row /\ queue' = queue /\ dropped \subseteq dropped'
        /\ retry' = retry /\ (result[n] > 0 => result'[n] > 0)
    BY <1>3 DEF Crash, Drop, TypeOK
  <2>2. \/ n \in creating
        \/ \E w \in Worker : Owes(w, n)
        \/ \E c \in Client : request[c] = "enqueue" /\ asked[c] = n
        => n \in dropped'
    BY <1>3 DEF Crash, Drop, InMemory, WorkingOn, EnqueueingOf, Owes, Working,
                WorkerStep
  <2> QED BY <2>1, <2>2 DEF Owed, Waits
<1>4. CASE RedisRestarts
  <2>1. Waits(n)' \/ (row'[n] = row[n] /\ ~Waits(n))
    BY <1>4 DEF RedisRestarts, Waits, broker, clients
  <2> QED BY <1>4, <2>1, OthersOwed DEF RedisRestarts
<1>5. CASE UNCHANGED vars
  <2>1. Waits(n)' \/ (row'[n] = row[n] /\ ~Waits(n))
    BY <1>5 DEF vars, Waits, store, broker, clients, history
  <2> QED BY <1>5, <2>1, OthersOwed DEF vars
<1> QED BY <1>1, <1>2, <1>3, <1>4, <1>5, WorkerOwed, PartOwed, ClientOwed
        DEF Next, Lost

\* Nothing is forgotten: a notification that is not settled waits in a queue,
\* in RabbitMQ or with a caller, or a worker that has not seen it settled is
\* still to finish its round, unless a fault dropped it.  However many workers
\* work on copies of the same row at once, one that overwrites what another has
\* committed either settles it or stays responsible for it.
THEOREM NothingForgottenHolds == Spec => []NothingForgotten
<1> DEFINE Inv == \A n \in Notification : Owed(n)
<1>1. Init => Inv
  BY RowTypes DEF Init, Owed, Live, ABSENT
<1>2. TypeOK /\ Inv => NothingForgotten
  <2> SUFFICES ASSUME TypeOK, NEW n \in Notification, Owed(n), row[n].status \in Live
               PROVE  \/ n \in creating \cup queue \cup dropped
                      \/ retry[n] + result[n] > 0
                      \/ WorkingOn(n) # {}
                      \/ EnqueueingOf(n) # {}
    BY DEF NothingForgotten
  <2>1. retry[n] \in Nat /\ result[n] \in Nat
    BY DEF TypeOK
  <2>2. ASSUME NEW w \in Worker, Owes(w, n) PROVE WorkingOn(n) # {}
    BY <2>2 DEF Owes, WorkingOn, Working, WorkerStep
  <2>3. ASSUME NEW c \in Client, request[c] = "enqueue" /\ asked[c] = n
        PROVE  EnqueueingOf(n) # {}
    BY <2>3 DEF EnqueueingOf
  <2> QED BY <2>1, <2>2, <2>3 DEF Owed, Waits
<1>3. TypeOK /\ Inv /\ [Next]_vars => Inv'
  BY OwedStep
<1> HIDE DEF Inv
<1> QED BY <1>1, <1>2, <1>3, TypeCorrect, PTL DEF Spec
=============================================================================

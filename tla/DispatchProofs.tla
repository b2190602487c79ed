---------------------------- MODULE DispatchProofs ----------------------------
(***************************************************************************)
(* Proofs about Dispatch, for every number of notifications, workers and   *)
(* API callers and every value of the bounds.                              *)
(***************************************************************************)
EXTENDS Dispatch, FiniteSetTheorems, TLAPS

-----------------------------------------------------------------------------
(* Rows, and what the callers of update_status make of them.               *)

LEMMA RowTypes ==
  /\ NoRow \in NotificationRow
  /\ NewRow \in NotificationRow
  /\ NoRow.status = ABSENT /\ NoRow.retry_count = 0 /\ NoRow.external_id = FALSE
  /\ NewRow.status = "PENDING" /\ NewRow.retry_count = 0
  /\ NewRow.external_id = FALSE
  /\ ABSENT \notin NotificationStatus
BY DEF NoRow, NewRow, NotificationRow, NotificationStatus, ABSENT

LEMMA QueuedFields ==
  ASSUME NEW r \in NotificationRow
  PROVE  /\ QueuedRow(r) \in NotificationRow
         /\ QueuedRow(r).status = "QUEUED"
         /\ QueuedRow(r).retry_count = r.retry_count
         /\ QueuedRow(r).external_id = r.external_id
BY DEF NotificationRow, NotificationStatus, QueuedRow

LEMMA SentFields ==
  ASSUME NEW r \in NotificationRow
  PROVE  /\ SentRow(r) \in NotificationRow
         /\ SentRow(r).status = "SENT"
         /\ SentRow(r).retry_count = r.retry_count
         /\ SentRow(r).external_id = TRUE
BY DEF NotificationRow, NotificationStatus, SentRow

LEMMA FailedFields ==
  ASSUME NEW r \in NotificationRow, NEW e \in NotificationErrorCode \cup {NULL}
  PROVE  /\ FailedRow(r, e) \in NotificationRow
         /\ FailedRow(r, e).status = "FAILED"
         /\ FailedRow(r, e).retry_count = r.retry_count
         /\ FailedRow(r, e).external_id = r.external_id
BY DEF NotificationRow, NotificationStatus, FailedRow

LEMMA RetryingFields ==
  ASSUME NEW r \in NotificationRow, NEW e \in NotificationErrorCode \cup {NULL},
         NEW k \in Nat
  PROVE  /\ RetryingRow(r, e, k) \in NotificationRow
         /\ RetryingRow(r, e, k).status = "RETRYING"
         /\ RetryingRow(r, e, k).retry_count = k
         /\ RetryingRow(r, e, k).external_id = r.external_id
BY DEF NotificationRow, NotificationStatus, RetryingRow

LEMMA PendingFields ==
  ASSUME NEW r \in NotificationRow
  PROVE  /\ PendingRow(r) \in NotificationRow
         /\ PendingRow(r).status = "PENDING"
         /\ PendingRow(r).retry_count = r.retry_count + 1
         /\ PendingRow(r).external_id = r.external_id
<1> r.retry_count \in Nat /\ r.retry_count + 1 \in Nat
  BY DEF NotificationRow
<1> QED BY DEF NotificationRow, NotificationStatus, PendingRow

\* A commit touches one row, column by column.
LEMMA Commit ==
  ASSUME row \in [Notification -> NotificationRow], NEW n \in Notification,
         NEW old \in NotificationRow, NEW new \in NotificationRow,
         Update(n, old, new)
  PROVE  /\ row' \in [Notification -> NotificationRow]
         /\ \A m \in Notification : m # n => row'[m] = row[m]
         /\ row'[n].status =
              IF new.status = old.status THEN row[n].status ELSE new.status
         /\ row'[n].retry_count =
              IF new.retry_count = old.retry_count
                THEN row[n].retry_count ELSE new.retry_count
         /\ row'[n].external_id =
              IF new.external_id = old.external_id
                THEN row[n].external_id ELSE new.external_id
<1> DEFINE f == Flush(row[n], old, new)
<1>1. f \in NotificationRow
  BY DEF Flush, NotificationRow
<1>2. /\ f.status =
           IF new.status = old.status THEN row[n].status ELSE new.status
      /\ f.retry_count = IF new.retry_count = old.retry_count
                           THEN row[n].retry_count ELSE new.retry_count
      /\ f.external_id = IF new.external_id = old.external_id
                           THEN row[n].external_id ELSE new.external_id
  BY DEF Flush
<1>3. row' = [row EXCEPT ![n] = f]
  BY DEF Update
<1> HIDE DEF f
<1> QED BY <1>1, <1>2, <1>3

\* What holds of a commit that records no delivery ...
RecordsNoDelivery ==
  \A m \in Notification :
    /\ row'[m].external_id = row[m].external_id
    /\ row'[m].status = "SENT" => row[m].status = "SENT"
    /\ row'[m].status = ABSENT => row[m].status = ABSENT

\* ... and of one that does not count a retry.
CountsNoRetry ==
  \A m \in Notification : row'[m].retry_count = row[m].retry_count

LEMMA Holding ==
  ASSUME TypeOK, NEW w \in Worker, pc[w] # "dequeue"
  PROVE  /\ held[w] \in Notification
         /\ snap[w] \in NotificationRow /\ snap[w].retry_count \in Nat
         /\ code[w] \in NotificationErrorCode \cup {NULL}
         /\ NewRetryCount(w) \in Nat
BY DEF TypeOK, NotificationRow, NewRetryCount

LEMMA CommitQueued ==
  ASSUME TypeOK, NEW w \in Worker, UpdateQueued(w)
  PROVE  /\ row' \in [Notification -> NotificationRow]
         /\ RecordsNoDelivery /\ CountsNoRetry
<1>1. /\ row \in [Notification -> NotificationRow] /\ pc[w] # "dequeue"
      /\ Update(held[w], snap[w], QueuedRow(snap[w]))
  BY DEF TypeOK, UpdateQueued
<1>2. held[w] \in Notification /\ snap[w] \in NotificationRow
  BY <1>1, Holding
<1> DEFINE new == QueuedRow(snap[w])
<1>3. /\ new \in NotificationRow /\ new.status = "QUEUED"
      /\ new.retry_count = snap[w].retry_count
      /\ new.external_id = snap[w].external_id
  BY <1>2, QueuedFields
<1> HIDE DEF new
<1> QED BY <1>1, <1>2, <1>3, Commit
        DEF new, RecordsNoDelivery, CountsNoRetry, ABSENT

LEMMA CommitFailedRow ==
  ASSUME TypeOK, NEW w \in Worker, pc[w] # "dequeue", CommitFailed(w)
  PROVE  /\ row' \in [Notification -> NotificationRow]
         /\ RecordsNoDelivery /\ CountsNoRetry
<1> DEFINE new == FailedRow(snap[w], code[w])
<1>1. /\ row \in [Notification -> NotificationRow]
      /\ Update(held[w], snap[w], new)
  BY DEF TypeOK, CommitFailed
<1>2. held[w] \in Notification /\ snap[w] \in NotificationRow
  BY Holding
<1>3. /\ new \in NotificationRow /\ new.status = "FAILED"
      /\ new.retry_count = snap[w].retry_count
      /\ new.external_id = snap[w].external_id
  BY Holding, FailedFields
<1> HIDE DEF new
<1> QED BY <1>1, <1>2, <1>3, Commit DEF RecordsNoDelivery, CountsNoRetry, ABSENT

LEMMA CommitRetrying ==
  ASSUME TypeOK, NEW w \in Worker, ScheduleRetry(w)
  PROVE  /\ row' \in [Notification -> NotificationRow]
         /\ RecordsNoDelivery
         /\ \A m \in Notification :
              row'[m].retry_count \in {row[m].retry_count, NewRetryCount(w)}
<1> DEFINE new == RetryingRow(snap[w], code[w], NewRetryCount(w))
<1>1. /\ row \in [Notification -> NotificationRow] /\ pc[w] # "dequeue"
      /\ Update(held[w], snap[w], new)
  BY DEF TypeOK, ScheduleRetry
<1>2. held[w] \in Notification /\ snap[w] \in NotificationRow
  BY <1>1, Holding
<1>3. /\ new \in NotificationRow /\ new.status = "RETRYING"
      /\ new.retry_count = NewRetryCount(w)
      /\ new.external_id = snap[w].external_id
  BY <1>1, Holding, RetryingFields
<1> HIDE DEF new
<1> QED BY <1>1, <1>2, <1>3, Commit DEF RecordsNoDelivery, ABSENT

LEMMA CommitSent ==
  ASSUME TypeOK, NEW w \in Worker, MarkSent(w)
  PROVE  /\ row' \in [Notification -> NotificationRow]
         /\ CountsNoRetry
         /\ row'[held[w]].status \in {row[held[w]].status, "SENT"}
         /\ \/ row'[held[w]].external_id = TRUE
            \/ /\ row'[held[w]].external_id = row[held[w]].external_id
               /\ snap[w].external_id = TRUE
         /\ \A m \in Notification : m # held[w] => row'[m] = row[m]
<1> DEFINE new == SentRow(snap[w])
<1>1. /\ row \in [Notification -> NotificationRow] /\ pc[w] # "dequeue"
      /\ Update(held[w], snap[w], new)
  BY DEF TypeOK, MarkSent
<1>2. held[w] \in Notification /\ snap[w] \in NotificationRow
  BY <1>1, Holding
<1>3. /\ new \in NotificationRow /\ new.status = "SENT"
      /\ new.retry_count = snap[w].retry_count
      /\ new.external_id = TRUE
  BY <1>2, SentFields
<1> HIDE DEF new
<1> QED BY <1>1, <1>2, <1>3, Commit DEF CountsNoRetry

LEMMA CommitPending ==
  ASSUME TypeOK, NEW c \in Client, UpdatePending(c)
  PROVE  /\ row' \in [Notification -> NotificationRow]
         /\ RecordsNoDelivery
         /\ asked[c] \in Notification
         /\ row'[asked[c]].retry_count = read[c].retry_count + 1
         /\ \A m \in Notification : m # asked[c] => row'[m] = row[m]
<1> DEFINE new == PendingRow(read[c])
<1>1. /\ row \in [Notification -> NotificationRow]
      /\ asked[c] \in Notification /\ read[c] \in NotificationRow
      /\ Update(asked[c], read[c], new)
  BY DEF TypeOK, UpdatePending
<1>2. /\ new \in NotificationRow /\ new.status = "PENDING"
      /\ new.retry_count = read[c].retry_count + 1
      /\ new.external_id = read[c].external_id
  BY <1>1, PendingFields
<1>3. read[c].retry_count \in Nat
  BY <1>1 DEF NotificationRow
<1> HIDE DEF new
<1> QED BY <1>1, <1>2, <1>3, Commit DEF RecordsNoDelivery, ABSENT

LEMMA SendErrorsType ==
  ASSUME NEW ch \in NotificationChannel, NEW h
  PROVE  SendErrors(ch, h) \subseteq NotificationErrorCode
BY DEF SendErrors, NotificationChannel, NotificationErrorCode,
       EmailSendErrors, SmsSendErrors, PushSendErrors

LEMMA PutTake ==
  ASSUME NEW q \in [Notification -> Nat], NEW n \in Notification
  PROVE  /\ Put(q, n) \in [Notification -> Nat]
         /\ q[n] > 0 => Take(q, n) \in [Notification -> Nat]
BY DEF Put, Take

-----------------------------------------------------------------------------
(* Type correctness.                                                       *)

LEMMA TypeStep == TypeOK /\ [Next]_vars => TypeOK'
<1> SUFFICES ASSUME TypeOK, [Next]_vars PROVE TypeOK'
  OBVIOUS
<1> USE DispatchAssumption, RowTypes DEF outside
<1>1. ASSUME NEW n \in Notification, InsertRow(n) PROVE TypeOK'
  BY <1>1 DEF TypeOK, InsertRow, broker, workers, clients, history, budgets
<1>2. ASSUME NEW n \in Notification, EnqueueNew(n) PROVE TypeOK'
  BY <1>2 DEF TypeOK, EnqueueNew, broker, workers, clients, history, budgets
<1>3. ASSUME NEW n \in Notification, EnqueueNewFails(n) PROVE TypeOK'
  BY <1>3 DEF TypeOK, EnqueueNewFails, Fault, Drop, broker, workers, clients
<1>4. ASSUME NEW n \in Notification, ExpireRetry(n) PROVE TypeOK'
  BY <1>4, PutTake DEF TypeOK, ExpireRetry, store, workers, clients, history,
                      budgets
<1>5. ASSUME NEW n \in Notification, OnRetryEvent(n) PROVE TypeOK'
  BY <1>5, PutTake DEF TypeOK, OnRetryEvent, Regain, workers, clients, budgets
<1>6. ASSUME NEW n \in Notification, AckRetry(n) PROVE TypeOK'
  BY <1>6, PutTake DEF TypeOK, AckRetry, store, workers, clients, history,
                      budgets
<1>7. ASSUME NEW n \in Notification, RetryEventFails(n) PROVE TypeOK'
  <2>1. result' \in [Notification -> Nat]
    BY <1>7, PutTake DEF TypeOK, RetryEventFails
  <2> QED BY <1>7, <2>1 DEF TypeOK, RetryEventFails, Fault, Drop, store, workers,
                            clients
<1>8. ASSUME NEW w \in Worker, Dequeue(w) PROVE TypeOK'
  BY <1>8 DEF TypeOK, Dequeue, Goto, WorkerStep, broker, clients, history,
              budgets
<1>9. ASSUME NEW w \in Worker, GetById(w) PROVE TypeOK'
  BY <1>9 DEF TypeOK, GetById, Goto, WorkerStep, NotificationErrorCode, store,
              broker, clients, history, budgets
<1>10. ASSUME NEW w \in Worker, UpdateQueued(w) PROVE TypeOK'
  <2>1. row' \in [Notification -> NotificationRow]
    BY <1>10, CommitQueued
  <2> QED BY <1>10, <2>1 DEF TypeOK, UpdateQueued, Goto, WorkerStep, broker,
                             clients, history, budgets
<1>11. ASSUME NEW w \in Worker, HealthCheck(w) PROVE TypeOK'
  BY <1>11 DEF TypeOK, HealthCheck, Goto, WorkerStep, NotificationErrorCode,
               store, broker, clients, history, budgets
<1>12. ASSUME NEW w \in Worker, SendSucceeds(w) PROVE TypeOK'
  BY <1>12, PutTake DEF TypeOK, SendSucceeds, Goto, WorkerStep, store, broker,
                        clients, budgets
<1>13. ASSUME NEW w \in Worker, SendFails(w) PROVE TypeOK'
  BY <1>13, SendErrorsType DEF TypeOK, SendFails, Goto, WorkerStep, store,
                               broker, clients, history, budgets
<1>14. ASSUME NEW w \in Worker, MarkSent(w) PROVE TypeOK'
  <2>1. row' \in [Notification -> NotificationRow]
    BY <1>14, CommitSent
  <2> QED BY <1>14, <2>1 DEF TypeOK, MarkSent, Release, Goto, WorkerStep, broker,
                             clients, history, budgets
<1>15. ASSUME NEW w \in Worker, MarkFailed(w) PROVE TypeOK'
  <2>1. row' \in [Notification -> NotificationRow]
    BY <1>15, CommitFailedRow DEF MarkFailed
  <2> QED BY <1>15, <2>1 DEF TypeOK, MarkFailed, Release, Goto, WorkerStep,
                             broker, clients, history, budgets
<1>16. ASSUME NEW w \in Worker, ScheduleRetry(w) PROVE TypeOK'
  <2>1. row' \in [Notification -> NotificationRow]
    BY <1>16, CommitRetrying
  <2> QED BY <1>16, <2>1 DEF TypeOK, ScheduleRetry, Goto, WorkerStep, broker,
                             clients, history, budgets
<1>17. ASSUME NEW w \in Worker, ExhaustRetries(w) PROVE TypeOK'
  <2>1. row' \in [Notification -> NotificationRow]
    BY <1>17, CommitFailedRow DEF ExhaustRetries
  <2> QED BY <1>17, <2>1 DEF TypeOK, ExhaustRetries, Goto, WorkerStep, broker,
                             clients, history, budgets
<1>18. ASSUME NEW w \in Worker, PublishRetry(w) PROVE TypeOK'
  BY <1>18, PutTake DEF TypeOK, PublishRetry, Release, Goto, WorkerStep, store,
                        clients, history, budgets
<1>19. ASSUME NEW w \in Worker, PublishRetryFails(w) PROVE TypeOK'
  BY <1>19 DEF TypeOK, PublishRetryFails, Fault, Drop, Release, Goto, WorkerStep,
               store, broker, clients
<1>20. ASSUME NEW w \in Worker, SendToDlq(w) PROVE TypeOK'
  BY <1>20, PutTake DEF TypeOK, SendToDlq, Release, Goto, WorkerStep, store,
                        clients, history, budgets
<1>21. ASSUME NEW w \in Worker, SendToDlqFails(w) PROVE TypeOK'
  BY <1>21 DEF TypeOK, SendToDlqFails, Fault, Release, Goto, WorkerStep, store,
               broker, clients, history
<1>22. ASSUME NEW w \in Worker, WorkerError(w) PROVE TypeOK'
  BY <1>22 DEF TypeOK, WorkerError, Fault, Drop, Release, Goto, WorkerStep,
               store, broker, clients
<1>23. ASSUME NEW c \in Client, ReadForRetry(c) PROVE TypeOK'
  BY <1>23 DEF TypeOK, ReadForRetry, ClientStep, store, broker, workers, history
<1>24. ASSUME NEW c \in Client, UpdatePending(c) PROVE TypeOK'
  <2>1. row' \in [Notification -> NotificationRow]
    BY <1>24, CommitPending
  <2> QED BY <1>24, <2>1, PutTake DEF TypeOK, UpdatePending, ClientStep, broker,
                                      workers, budgets
<1>25. ASSUME NEW c \in Client, RetryEnqueue(c) PROVE TypeOK'
  BY <1>25 DEF TypeOK, RetryEnqueue, Regain, Close, ClientStep, broker, workers,
               budgets
<1>26. ASSUME NEW c \in Client, RequestError(c) PROVE TypeOK'
  BY <1>26 DEF TypeOK, RequestError, Close, Fault, Drop, ClientStep, store,
               broker, workers
<1>27. ASSUME NEW ch \in Providers, SimulateDowntime(ch) \/ SimulateRecovery(ch)
       PROVE  TypeOK'
  BY <1>27 DEF TypeOK, SimulateDowntime, SimulateRecovery, store, broker,
               workers, clients, history, budgets
<1>28. ASSUME Crash PROVE TypeOK'
  BY <1>28 DEF TypeOK, Crash, Drop, InMemory, WorkerStep, ClientStep
<1>29. ASSUME NEW n \in Notification, AckRetryFails(n) PROVE TypeOK'
  <2>1. /\ acking' \in [Notification -> Nat] /\ result' \in [Notification -> Nat]
        /\ redelivered' \in [Notification -> Nat]
    BY <1>29, PutTake DEF TypeOK, AckRetryFails
  <2> QED BY <1>29, <2>1 DEF TypeOK, AckRetryFails, Fault, store, workers, clients
<1>30. ASSUME RedisRestarts \/ \E w \in Worker : DequeueLost(w) PROVE TypeOK'
  BY <1>30 DEF TypeOK, RedisRestarts, DequeueLost, Fault, Drop, OneIf, broker,
               workers, clients
<1>31. CASE UNCHANGED vars
  BY <1>31 DEF TypeOK, vars, store, broker, workers, clients, history, budgets
<1> QED
  BY <1>1, <1>2, <1>3, <1>4, <1>5, <1>6, <1>7, <1>8, <1>9, <1>10, <1>11, <1>12,
     <1>13, <1>14, <1>15, <1>16, <1>17, <1>18, <1>19, <1>20, <1>21, <1>22, <1>23,
     <1>24, <1>25, <1>26, <1>27, <1>28, <1>29, <1>30, <1>31 DEF Next, WorkerProgress

\* Type correctness: whatever the sizes of the pool, the table and the broker's
\* queues, no id, status, counter or error code leaves its domain, and a worker
\* or a caller in the middle of its work always holds a notification.
THEOREM TypeCorrect == Spec => []TypeOK
<1>1. Init => TypeOK
  BY DispatchAssumption, RowTypes DEF Init, TypeOK, WorkerStep, ClientStep
<1> QED BY <1>1, TypeStep, PTL DEF Spec

-----------------------------------------------------------------------------
(* The retry budget.                                                       *)

RetryBudgetInv == RetryBudget /\ CopiesInBudget

LEMMA RetryBudgetStep ==
  TypeOK /\ RetryBudgetInv /\ [Next]_vars => RetryBudgetInv'
<1> SUFFICES ASSUME TypeOK, RetryBudgetInv, [Next]_vars PROVE RetryBudgetInv'
  OBVIOUS
<1> USE DispatchAssumption, RowTypes DEF RetryBudgetInv, RetryBudget, CopiesInBudget,
                               TypeOK
<1>1. ASSUME NEW n \in Notification, InsertRow(n) PROVE RetryBudgetInv'
  BY <1>1 DEF InsertRow, workers, clients, history
<1>2. ASSUME NEW n \in Notification,
             \/ EnqueueNew(n) \/ EnqueueNewFails(n) \/ ExpireRetry(n)
             \/ OnRetryEvent(n) \/ AckRetry(n) \/ AckRetryFails(n)
             \/ RetryEventFails(n)
      PROVE  RetryBudgetInv'
  BY <1>2 DEF EnqueueNew, EnqueueNewFails, ExpireRetry, OnRetryEvent, AckRetry,
              AckRetryFails, RetryEventFails, store, workers, clients, history
<1>3. ASSUME NEW w \in Worker, Dequeue(w) PROVE RetryBudgetInv'
  BY <1>3 DEF Dequeue, Goto, clients, history
<1>4. ASSUME NEW w \in Worker, GetById(w) \/ HealthCheck(w) PROVE RetryBudgetInv'
  BY <1>4 DEF GetById, HealthCheck, Goto, store, clients, history
<1>5. ASSUME NEW w \in Worker, UpdateQueued(w) PROVE RetryBudgetInv'
  <2>1. CountsNoRetry
    BY <1>5, CommitQueued
  <2> QED BY <1>5, <2>1 DEF CountsNoRetry, UpdateQueued, Goto, clients, history
<1>6. ASSUME NEW w \in Worker, SendSucceeds(w) \/ SendFails(w)
      PROVE  RetryBudgetInv'
  BY <1>6 DEF SendSucceeds, SendFails, Goto, store, clients, history
<1>7. ASSUME NEW w \in Worker, MarkSent(w) PROVE RetryBudgetInv'
  <2>1. CountsNoRetry
    BY <1>7, CommitSent
  <2> QED BY <1>7, <2>1 DEF CountsNoRetry, MarkSent, Release, Goto, clients, history
<1>8. ASSUME NEW w \in Worker, MarkFailed(w) PROVE RetryBudgetInv'
  <2>1. CountsNoRetry
    BY <1>8, CommitFailedRow DEF MarkFailed
  <2> QED BY <1>8, <2>1 DEF CountsNoRetry, MarkFailed, Release, Goto, clients, history
<1>9. ASSUME NEW w \in Worker, ScheduleRetry(w) PROVE RetryBudgetInv'
  <2>1. \A m \in Notification :
          row'[m].retry_count \in {row[m].retry_count, NewRetryCount(w)}
    BY <1>9, CommitRetrying
  <2>2. RetryBudget'
    <3>1. /\ NewRetryCount(w) <= MaxRetries /\ NewRetryCount(w) \in Nat
          /\ UNCHANGED manual
      BY <1>9, Holding DEF ScheduleRetry, RetriesLeft, history
    <3> QED BY <2>1, <3>1
  <2>3. CopiesInBudget'
    BY <1>9 DEF ScheduleRetry, Goto, clients, history
  <2> QED BY <2>2, <2>3
<1>10. ASSUME NEW w \in Worker, ExhaustRetries(w) PROVE RetryBudgetInv'
  <2>1. CountsNoRetry
    BY <1>10, CommitFailedRow DEF ExhaustRetries
  <2> QED BY <1>10, <2>1 DEF CountsNoRetry, ExhaustRetries, Goto, clients, history
<1>11. ASSUME NEW w \in Worker,
              \/ PublishRetry(w) \/ PublishRetryFails(w)
              \/ SendToDlq(w) \/ SendToDlqFails(w) \/ WorkerError(w)
       PROVE  RetryBudgetInv'
  BY <1>11 DEF PublishRetry, PublishRetryFails, SendToDlq, SendToDlqFails,
               WorkerError, Release, Goto, store, clients, history
<1>12. ASSUME NEW c \in Client, ReadForRetry(c) PROVE RetryBudgetInv'
  BY <1>12 DEF ReadForRetry, store, workers, history
<1>13. ASSUME NEW c \in Client, UpdatePending(c) PROVE RetryBudgetInv'
  <2>1. \A n \in Notification : manual'[n] = manual[n] + OneIf(n = asked[c])
    BY <1>13 DEF UpdatePending, Put, OneIf, ClientStep
  <2>2. row'[asked[c]].retry_count = read[c].retry_count + 1
    BY <1>13, CommitPending
  <2>3. \A n \in Notification : row'[n].retry_count <= MaxRetries + manual'[n]
    <3>1. /\ asked[c] \in Notification
          /\ \A n \in Notification : n # asked[c] => row'[n] = row[n]
      BY <1>13, CommitPending
    <3>2. read[c].retry_count <= MaxRetries + manual[asked[c]]
      BY <1>13 DEF UpdatePending
    <3>3. \A n \in Notification : row[n].retry_count \in Nat /\ manual[n] \in Nat
      BY DEF NotificationRow
    <3>4. read[c].retry_count \in Nat
      BY DEF NotificationRow
    <3> QED BY <2>1, <2>2, <3>1, <3>2, <3>3, <3>4 DEF OneIf
  <2>4. \A n \in Notification : manual[n] <= manual'[n]
    BY <2>1 DEF OneIf
  <2>5. \A n \in Notification : manual[n] \in Nat /\ manual'[n] \in Nat
    BY <2>1 DEF OneIf
  <2>6. \A w \in Worker : pc'[w] \notin {"dequeue", "get_by_id"} =>
          snap'[w].retry_count <= MaxRetries + manual'[held'[w]]
    <3>1. UNCHANGED workers
      BY <1>13 DEF UpdatePending
    <3>2. \A w \in Worker : pc'[w] \notin {"dequeue", "get_by_id"} =>
            /\ held[w] \in Notification
            /\ snap[w].retry_count <= MaxRetries + manual[held[w]]
      BY <3>1 DEF workers
    <3>3. \A w \in Worker : snap[w].retry_count \in Nat
      BY DEF NotificationRow
    <3> QED BY <2>4, <3>1, <3>2, <3>3, <2>5 DEF workers
  <2>7. \A d \in Client : request'[d] = "update_pending" =>
          read'[d].retry_count <= MaxRetries + manual'[asked'[d]]
    <3>1. /\ request' = [request EXCEPT ![c] = "enqueue"]
          /\ UNCHANGED <<read, asked>>
      BY <1>13 DEF UpdatePending
    <3>2. \A d \in Client : request'[d] = "update_pending" =>
            /\ asked[d] \in Notification
            /\ read[d].retry_count <= MaxRetries + manual[asked[d]]
      BY <3>1
    <3>3. \A d \in Client : read[d].retry_count \in Nat
      BY DEF NotificationRow
    <3> QED BY <2>4, <3>1, <3>2, <3>3, <2>5
  <2> QED BY <2>3, <2>6, <2>7
<1>14. ASSUME NEW c \in Client, RetryEnqueue(c) \/ RequestError(c)
       PROVE  RetryBudgetInv'
  BY <1>14 DEF RetryEnqueue, RequestError, Close, store, workers, history
<1>15. ASSUME NEW ch \in Providers, SimulateDowntime(ch) \/ SimulateRecovery(ch)
       PROVE  RetryBudgetInv'
  BY <1>15 DEF SimulateDowntime, SimulateRecovery, store, workers, clients,
               history
<1>16. ASSUME Crash PROVE RetryBudgetInv'
  BY <1>16 DEF Crash
<1>17. ASSUME RedisRestarts \/ \E w \in Worker : DequeueLost(w)
       PROVE  RetryBudgetInv'
  BY <1>17 DEF RedisRestarts, DequeueLost, workers, clients
<1>18. CASE UNCHANGED vars
  BY <1>18 DEF vars, store, workers, clients, history
<1> QED
  BY <1>1, <1>2, <1>3, <1>4, <1>5, <1>6, <1>7, <1>8, <1>9, <1>10, <1>11, <1>12,
     <1>13, <1>14, <1>15, <1>16, <1>17, <1>18 DEF Next, WorkerProgress

LEMMA RetryBudgetInvHolds == Spec => []RetryBudgetInv
<1>1. Init => RetryBudgetInv
  BY DispatchAssumption
  DEF Init, RetryBudgetInv, RetryBudget, CopiesInBudget, NoRow
<1> QED BY <1>1, TypeCorrect, RetryBudgetStep, PTL DEF Spec

\* Automatic retries never take a row's retry_count beyond max_retries, however
\* many workers and API callers overtake one another on the same row.
THEOREM RetryBudgetHolds == Spec => []RetryBudget
<1>1. RetryBudgetInv => RetryBudget
  BY DEF RetryBudgetInv
<1> QED BY <1>1, RetryBudgetInvHolds, PTL

\* ... and neither does any copy of the row a session still holds: the counter a
\* worker or a caller is about to write back is within the budget too.
THEOREM CopiesInBudgetHolds == Spec => []CopiesInBudget
<1>1. RetryBudgetInv => CopiesInBudget
  BY DEF RetryBudgetInv
<1> QED BY <1>1, RetryBudgetInvHolds, PTL

-----------------------------------------------------------------------------
(* Ids are found in the engine only when their row is in the table.        *)

LEMMA KnownIdStep == TypeOK /\ KnownId /\ [Next]_vars => KnownId'
<1> SUFFICES ASSUME TypeOK, KnownId, [Next]_vars PROVE KnownId'
  OBVIOUS
<1> USE DispatchAssumption DEF KnownId, TypeOK, NotificationRow, ABSENT, outside
<1>1. ASSUME NEW n \in Notification, InsertRow(n) PROVE KnownId'
  BY <1>1 DEF InsertRow, NewRow, NoRow, broker, workers, clients
<1>2. ASSUME NEW n \in Notification, EnqueueNew(n) \/ EnqueueNewFails(n)
      PROVE  KnownId'
  BY <1>2 DEF EnqueueNew, EnqueueNewFails, broker, workers, clients
<1>3. ASSUME NEW n \in Notification, ExpireRetry(n) PROVE KnownId'
  BY <1>3 DEF ExpireRetry, Put, Take, store, workers, clients
<1>4. ASSUME NEW n \in Notification, OnRetryEvent(n) PROVE KnownId'
  BY <1>4 DEF OnRetryEvent, Put, Take, workers, clients
<1>5. ASSUME NEW n \in Notification,
             AckRetry(n) \/ AckRetryFails(n) \/ RetryEventFails(n)
      PROVE  KnownId'
  <2>1. CASE AckRetry(n)
    BY <2>1 DEF AckRetry, Take, store, workers, clients
  <2>2. CASE RetryEventFails(n)
    BY <2>2 DEF RetryEventFails, Take, store, workers, clients
  <2>3. CASE AckRetryFails(n)
    BY <2>3 DEF AckRetryFails, Take, Put, store, workers, clients
  <2> QED BY <1>5, <2>1, <2>2, <2>3
<1>6. ASSUME NEW w \in Worker, Dequeue(w) PROVE KnownId'
  BY <1>6 DEF Dequeue, Goto, broker, clients
<1>7. ASSUME NEW w \in Worker,
             GetById(w) \/ HealthCheck(w) \/ SendSucceeds(w) \/ SendFails(w)
      PROVE  KnownId'
  BY <1>7 DEF GetById, HealthCheck, SendSucceeds, SendFails, store, broker,
              clients
<1>8. ASSUME NEW w \in Worker, UpdateQueued(w) PROVE KnownId'
  <2>1. RecordsNoDelivery
    BY <1>8, CommitQueued
  <2> QED BY <1>8, <2>1 DEF RecordsNoDelivery, UpdateQueued, broker, clients
<1>9. ASSUME NEW w \in Worker, MarkSent(w) PROVE KnownId'
  <2>1. \A m \in Notification : row'[m].status \in {row[m].status, "SENT"}
    BY <1>9, CommitSent
  <2> QED BY <1>9, <2>1 DEF MarkSent, Release, broker, clients
<1>10. ASSUME NEW w \in Worker, MarkFailed(w) PROVE KnownId'
  <2>1. RecordsNoDelivery
    BY <1>10, CommitFailedRow DEF MarkFailed
  <2> QED BY <1>10, <2>1 DEF RecordsNoDelivery, MarkFailed, Release, broker, clients
<1>11. ASSUME NEW w \in Worker, ScheduleRetry(w) PROVE KnownId'
  <2>1. RecordsNoDelivery
    BY <1>11, CommitRetrying
  <2> QED BY <1>11, <2>1 DEF RecordsNoDelivery, ScheduleRetry, broker, clients
<1>12. ASSUME NEW w \in Worker, ExhaustRetries(w) PROVE KnownId'
  <2>1. RecordsNoDelivery
    BY <1>12, CommitFailedRow DEF ExhaustRetries
  <2> QED BY <1>12, <2>1 DEF RecordsNoDelivery, ExhaustRetries, broker, clients
<1>13. ASSUME NEW w \in Worker, PublishRetry(w) PROVE KnownId'
  BY <1>13 DEF PublishRetry, Put, Release, store, clients
<1>14. ASSUME NEW w \in Worker, SendToDlq(w) PROVE KnownId'
  BY <1>14 DEF SendToDlq, Put, Release, store, clients
<1>15. ASSUME NEW w \in Worker,
              PublishRetryFails(w) \/ SendToDlqFails(w) \/ WorkerError(w)
       PROVE  KnownId'
  BY <1>15 DEF PublishRetryFails, SendToDlqFails, WorkerError, Release, store,
               broker, clients
<1>16. ASSUME NEW c \in Client, ReadForRetry(c) PROVE KnownId'
  BY <1>16 DEF ReadForRetry, store, broker, workers
<1>17. ASSUME NEW c \in Client, UpdatePending(c) PROVE KnownId'
  <2>1. RecordsNoDelivery
    BY <1>17, CommitPending
  <2> QED BY <1>17, <2>1 DEF RecordsNoDelivery, UpdatePending, broker, workers
<1>18. ASSUME NEW c \in Client, RetryEnqueue(c) \/ RequestError(c)
       PROVE  KnownId'
  BY <1>18 DEF RetryEnqueue, RequestError, Close, store, broker, workers
<1>19. ASSUME NEW ch \in Providers, SimulateDowntime(ch) \/ SimulateRecovery(ch)
       PROVE  KnownId'
  BY <1>19 DEF SimulateDowntime, SimulateRecovery, store, broker, workers, clients
<1>20. ASSUME Crash PROVE KnownId'
  BY <1>20 DEF Crash
<1>21. ASSUME RedisRestarts \/ \E w \in Worker : DequeueLost(w) PROVE KnownId'
  BY <1>21 DEF RedisRestarts, DequeueLost, broker, workers, clients
<1>22. CASE UNCHANGED vars
  BY <1>22 DEF vars, store, broker, workers, clients
<1> QED
  BY <1>1, <1>2, <1>3, <1>4, <1>5, <1>6, <1>7, <1>8, <1>9, <1>10, <1>11, <1>12,
     <1>13, <1>14, <1>15, <1>16, <1>17, <1>18, <1>19, <1>20, <1>21, <1>22
  DEF Next, WorkerProgress

\* No queue, worker, session or message ever names a notification that is not
\* in the table, crashes and redeliveries included.
THEOREM KnownIdHolds == Spec => []KnownId
<1>1. Init => KnownId
  BY DispatchAssumption DEF Init, KnownId
<1> QED BY <1>1, TypeCorrect, KnownIdStep, PTL DEF Spec

-----------------------------------------------------------------------------
(* A row that says SENT was delivered.                                     *)

SentInv == SentWasDelivered /\ DeliveryRecorded

LEMMA SentStep == TypeOK /\ KnownId /\ SentInv /\ [Next]_vars => SentInv'
<1> SUFFICES ASSUME TypeOK, KnownId, SentInv, [Next]_vars PROVE SentInv'
  OBVIOUS
<1> USE DispatchAssumption DEF SentInv, SentWasDelivered, DeliveryRecorded, TypeOK
<1>a. \A w \in Worker : snap[w].external_id => held[w] \in Notification
  OBVIOUS
<1>b. \A c \in Client : read[c].external_id => asked[c] \in Notification
  BY DEF ClientStep
<1>1. ASSUME NEW n \in Notification, InsertRow(n) PROVE SentInv'
  <2>1. /\ \A w \in Worker : held[w] # n
        /\ \A c \in Client : asked[c] # n
    BY <1>1 DEF InsertRow, KnownId
  <2> QED BY <1>a, <1>b, <1>1, <2>1, RowTypes
          DEF InsertRow, workers, clients, history
<1>2. ASSUME NEW n \in Notification,
             \/ EnqueueNew(n) \/ EnqueueNewFails(n) \/ ExpireRetry(n)
             \/ OnRetryEvent(n) \/ AckRetry(n) \/ AckRetryFails(n)
             \/ RetryEventFails(n)
      PROVE  SentInv'
  <2>1. UNCHANGED <<row, workers, clients, delivered>>
    BY <1>2 DEF EnqueueNew, EnqueueNewFails, ExpireRetry, OnRetryEvent, AckRetry,
                AckRetryFails, RetryEventFails, store, history
  <2> QED BY <2>1 DEF workers, clients
<1>3. ASSUME NEW w \in Worker, Dequeue(w) PROVE SentInv'
  BY <1>3 DEF Dequeue, Goto, clients, history
<1>4. ASSUME NEW w \in Worker, GetById(w) \/ HealthCheck(w) PROVE SentInv'
  <2>1. /\ pc' = [pc EXCEPT ![w] = pc'[w]] /\ pc'[w] # "mark_sent"
        /\ pc'[w] # "dequeue"
        /\ snap' = [snap EXCEPT ![w] = row[held[w]]]
        /\ UNCHANGED <<row, held, clients, delivered>>
    BY <1>4 DEF GetById, HealthCheck, Goto, store, history
  <2> QED BY <2>1 DEF clients
<1>5. ASSUME NEW w \in Worker, UpdateQueued(w) PROVE SentInv'
  <2>1. RecordsNoDelivery
    BY <1>5, CommitQueued
  <2> QED BY <1>a, <1>b, <1>5, <2>1
          DEF RecordsNoDelivery, UpdateQueued, Goto, clients, history
<1>6. ASSUME NEW w \in Worker, SendSucceeds(w) PROVE SentInv'
  BY <1>6 DEF SendSucceeds, Put, Goto, store, clients
<1>7. ASSUME NEW w \in Worker, SendFails(w) PROVE SentInv'
  BY <1>7 DEF SendFails, Goto, store, clients, history
<1>8. ASSUME NEW w \in Worker, MarkSent(w) PROVE SentInv'
  <2>1. /\ row'[held[w]].external_id
        /\ row'[held[w]].status \in {row[held[w]].status, "SENT"}
        /\ \A m \in Notification : m # held[w] => row'[m] = row[m]
    BY <1>8, CommitSent
  <2>2. SentWasDelivered'
    BY <1>8, <2>1 DEF MarkSent, history
  <2>3. DeliveryRecorded'
    <3>1. \A n \in Notification : row[n].external_id => row'[n].external_id
      BY <1>8, <2>1 DEF MarkSent
    <3>2. Release(w) /\ UNCHANGED <<clients, delivered>>
      BY <1>8 DEF MarkSent, history
    <3>3. \A v \in Worker : /\ pc'[v] = "mark_sent" => delivered'[held'[v]] > 0
                            /\ pc'[v] = "dequeue" => ~snap'[v].external_id
                            /\ snap'[v].external_id => row'[held'[v]].external_id
      BY <1>a, <3>1, <3>2 DEF Release, Goto, NoRow
    <3> QED BY <1>b, <3>1, <3>2, <3>3 DEF clients
  <2> QED BY <2>2, <2>3
<1>9. ASSUME NEW w \in Worker, MarkFailed(w) PROVE SentInv'
  <2>1. RecordsNoDelivery
    BY <1>9, CommitFailedRow DEF MarkFailed
  <2>2. Release(w) /\ UNCHANGED <<clients, delivered>>
    BY <1>9 DEF MarkFailed, history
  <2>3. \A v \in Worker : /\ pc'[v] = "mark_sent" => delivered'[held'[v]] > 0
                          /\ pc'[v] = "dequeue" => ~snap'[v].external_id
                          /\ snap'[v].external_id => row'[held'[v]].external_id
    BY <1>a, <2>1, <2>2 DEF RecordsNoDelivery, Release, Goto, NoRow
  <2> QED BY <1>b, <2>1, <2>2, <2>3 DEF RecordsNoDelivery, clients
<1>10. ASSUME NEW w \in Worker, ScheduleRetry(w) PROVE SentInv'
  <2>1. RecordsNoDelivery
    BY <1>10, CommitRetrying
  <2> QED BY <1>a, <1>b, <1>10, <2>1 DEF RecordsNoDelivery, ScheduleRetry, Goto, clients, history
<1>11. ASSUME NEW w \in Worker, ExhaustRetries(w) PROVE SentInv'
  <2>1. RecordsNoDelivery
    BY <1>11, CommitFailedRow DEF ExhaustRetries
  <2> QED BY <1>a, <1>b, <1>11, <2>1 DEF RecordsNoDelivery, ExhaustRetries, Goto, clients, history
<1>12. ASSUME NEW w \in Worker,
              \/ PublishRetry(w) \/ PublishRetryFails(w)
              \/ SendToDlq(w) \/ SendToDlqFails(w) \/ WorkerError(w)
       PROVE  SentInv'
  <2>1. Release(w) /\ UNCHANGED <<row, clients, delivered>>
    BY <1>12 DEF PublishRetry, PublishRetryFails, SendToDlq, SendToDlqFails,
                 WorkerError, store, history
  <2> QED BY <2>1 DEF Release, Goto, NoRow, clients
<1>13. ASSUME NEW c \in Client, ReadForRetry(c) PROVE SentInv'
  BY <1>13 DEF ReadForRetry, store, workers, history
<1>14. ASSUME NEW c \in Client, UpdatePending(c) PROVE SentInv'
  <2>1. RecordsNoDelivery
    BY <1>14, CommitPending
  <2> QED BY <1>a, <1>b, <1>14, <2>1 DEF RecordsNoDelivery, UpdatePending, workers
<1>15. ASSUME NEW c \in Client, RetryEnqueue(c) \/ RequestError(c)
       PROVE  SentInv'
  <2>1. Close(c) /\ UNCHANGED <<row, workers, delivered>>
    BY <1>15 DEF RetryEnqueue, RequestError, store, history
  <2> QED BY <2>1 DEF Close, NoRow, workers
<1>16. ASSUME NEW ch \in Providers, SimulateDowntime(ch) \/ SimulateRecovery(ch)
       PROVE  SentInv'
  BY <1>16 DEF SimulateDowntime, SimulateRecovery, store, workers, clients,
               history
<1>17. ASSUME Crash PROVE SentInv'
  BY <1>17 DEF Crash, NoRow
<1>18. ASSUME RedisRestarts \/ \E w \in Worker : DequeueLost(w) PROVE SentInv'
  BY <1>18 DEF RedisRestarts, DequeueLost, workers, clients
<1>19. CASE UNCHANGED vars
  BY <1>19 DEF vars, store, workers, clients, history
<1> QED
  BY <1>1, <1>2, <1>3, <1>4, <1>5, <1>6, <1>7, <1>8, <1>9, <1>10, <1>11, <1>12,
     <1>13, <1>14, <1>15, <1>16, <1>17, <1>18, <1>19 DEF Next, WorkerProgress

LEMMA SentInvHolds == Spec => []SentInv
<1>1. Init => SentInv
  BY DispatchAssumption
  DEF Init, SentInv, SentWasDelivered, DeliveryRecorded, NoRow, ABSENT
<1> QED BY <1>1, TypeCorrect, KnownIdHolds, SentStep, PTL DEF Spec

\* The audit trail never claims a delivery that did not happen: a row shows SENT
\* or a provider's id only for a notification a provider has accepted.
THEOREM SentWasDeliveredHolds == Spec => []SentWasDelivered
<1>1. SentInv => SentWasDelivered
  BY DEF SentInv
<1> QED BY <1>1, SentInvHolds, PTL

\* A worker is about to mark a row SENT only after a provider has accepted the
\* notification, and no session believes in a delivery the table does not show.
THEOREM DeliveryRecordedHolds == Spec => []DeliveryRecorded
<1>1. SentInv => DeliveryRecorded
  BY DEF SentInv
<1> QED BY <1>1, SentInvHolds, PTL

-----------------------------------------------------------------------------
(* Deliveries are permitted: every send uses up one chance to send.        *)

LEMMA CountsAreNat ==
  ASSUME NEW n PROVE Attempts(n) \in Nat /\ Enqueues(n) \in Nat
<1>1. AttemptingOn(n) \in SUBSET Worker /\ EnqueueingOf(n) \in SUBSET Client
  BY DEF AttemptingOn, EnqueueingOf
<1>2. IsFiniteSet(AttemptingOn(n)) /\ IsFiniteSet(EnqueueingOf(n))
  BY <1>1, DispatchAssumption, FS_Subset
<1> QED BY <1>2, FS_CardinalityType DEF Attempts, Enqueues

\* The same of the next state: the pool and the callers are constants.
LEMMA CountsAreNatNext ==
  ASSUME NEW n PROVE Attempts(n)' \in Nat /\ Enqueues(n)' \in Nat
<1>1. AttemptingOn(n)' \in SUBSET Worker /\ EnqueueingOf(n)' \in SUBSET Client
  BY DEF AttemptingOn, EnqueueingOf
<1>2. IsFiniteSet(AttemptingOn(n)') /\ IsFiniteSet(EnqueueingOf(n)')
  BY <1>1, DispatchAssumption, FS_Subset
<1> QED BY <1>2, FS_CardinalityType DEF Attempts, Enqueues

LEMMA Recount ==
  ASSUME NEW S, NEW T, NEW x, IsFiniteSet(S), T \ {x} = S \ {x}
  PROVE  Cardinality(T) = Cardinality(S) - OneIf(x \in S) + OneIf(x \in T)
<1>1. /\ IsFiniteSet(S \ {x}) /\ Cardinality(S) \in Nat
      /\ Cardinality(S \ {x}) = Cardinality(S) - OneIf(x \in S)
  BY FS_RemoveElement, FS_CardinalityType DEF OneIf
<1>2. CASE x \in T
  <2>1. T = (S \ {x}) \cup {x}
    BY <1>2
  <2>2. Cardinality(T) = Cardinality(S \ {x}) + 1
    BY <1>1, <2>1, FS_AddElement
  <2> QED BY <1>1, <1>2, <2>2 DEF OneIf
<1>3. CASE x \notin T
  <2>1. T = S \ {x}
    BY <1>3
  <2> QED BY <1>1, <1>3, <2>1 DEF OneIf
<1> QED BY <1>2, <1>3

\* A step of one worker moves at most that worker into or out of the count.
LEMMA WorkerMoves ==
  ASSUME NEW w \in Worker, NEW n,
         \A v \in Worker \ {w} : pc'[v] = pc[v] /\ held'[v] = held[v]
  PROVE  Attempts(n)' = Attempts(n) - OneIf(pc[w] \in Attempting /\ held[w] = n)
                          + OneIf(pc'[w] \in Attempting /\ held'[w] = n)
<1>1. IsFiniteSet(AttemptingOn(n))
  BY DispatchAssumption, FS_Subset DEF AttemptingOn
<1>2. AttemptingOn(n)' \ {w} = AttemptingOn(n) \ {w}
  BY DEF AttemptingOn
<1>3. /\ (w \in AttemptingOn(n)) = (pc[w] \in Attempting /\ held[w] = n)
      /\ (w \in AttemptingOn(n)') = (pc'[w] \in Attempting /\ held'[w] = n)
  BY DEF AttemptingOn
<1>4. Cardinality(AttemptingOn(n)') = Cardinality(AttemptingOn(n))
        - OneIf(w \in AttemptingOn(n)) + OneIf(w \in AttemptingOn(n)')
  BY <1>1, <1>2, Recount
<1> QED BY <1>3, <1>4 DEF Attempts

LEMMA ClientMoves ==
  ASSUME NEW c \in Client, NEW n,
         \A d \in Client \ {c} : request'[d] = request[d] /\ asked'[d] = asked[d]
  PROVE  Enqueues(n)' = Enqueues(n) - OneIf(request[c] = "enqueue" /\ asked[c] = n)
                          + OneIf(request'[c] = "enqueue" /\ asked'[c] = n)
<1>1. IsFiniteSet(EnqueueingOf(n))
  BY DispatchAssumption, FS_Subset DEF EnqueueingOf
<1>2. EnqueueingOf(n)' \ {c} = EnqueueingOf(n) \ {c}
  BY DEF EnqueueingOf
<1>3. /\ (c \in EnqueueingOf(n)) = (request[c] = "enqueue" /\ asked[c] = n)
      /\ (c \in EnqueueingOf(n)') = (request'[c] = "enqueue" /\ asked'[c] = n)
  BY DEF EnqueueingOf
<1>4. Cardinality(EnqueueingOf(n)') = Cardinality(EnqueueingOf(n))
        - OneIf(c \in EnqueueingOf(n)) + OneIf(c \in EnqueueingOf(n)')
  BY <1>1, <1>2, Recount
<1> QED BY <1>3, <1>4 DEF Enqueues

LEMMA NobodyMoves ==
  /\ UNCHANGED <<pc, held>> => \A n : Attempts(n)' = Attempts(n)
  /\ UNCHANGED <<request, asked>> => \A n : Enqueues(n)' = Enqueues(n)
BY DEF Attempts, Enqueues, AttemptingOn, EnqueueingOf

\* What a step can do to one notification, in terms of the abstract promise.
Same(n) ==
  Copies(n)' = Copies(n) /\ Permits(n)' = Permits(n) /\ delivered'[n] = delivered[n]
Granted(n) ==
  /\ Copies(n)' = Copies(n) + 1 /\ Permits(n)' = Permits(n) + 1
  /\ delivered'[n] = delivered[n]
Sent(n) ==
  /\ Copies(n)' = Copies(n) - 1 /\ Permits(n)' = Permits(n)
  /\ delivered'[n] = delivered[n] + 1
Lapsed(n) ==
  /\ Copies(n)' = Copies(n) - 1 /\ Permits(n)' = Permits(n)
  /\ delivered'[n] = delivered[n]
Restarted(n) ==
  /\ Permits(n) <= Permits(n)'
  /\ Copies(n)' + Permits(n) <= Copies(n) + Permits(n)'
  /\ delivered'[n] = delivered[n]

\* ... and to all of them: it touches one at most, unless everything restarts.
Moves(m) ==
  /\ Granted(m) \/ Sent(m) \/ Lapsed(m) \/ Same(m)
  /\ \A n \in Notification \ {m} : Same(n)

LEMMA NumbersAreNat ==
  ASSUME TypeOK, NEW n \in Notification
  PROVE  /\ Copies(n) \in Nat /\ Permits(n) \in Nat /\ delivered[n] \in Nat
         /\ retry[n] \in Nat /\ result[n] \in Nat /\ acking[n] \in Nat
         /\ manual[n] \in Nat /\ redelivered[n] \in Nat
         /\ Attempts(n) \in Nat /\ Enqueues(n) \in Nat
<1>1. /\ retry[n] \in Nat /\ result[n] \in Nat /\ acking[n] \in Nat
      /\ manual[n] \in Nat /\ redelivered[n] \in Nat /\ delivered[n] \in Nat
  BY DEF TypeOK
<1>2. Attempts(n) \in Nat /\ Enqueues(n) \in Nat
  BY CountsAreNat
<1> QED BY <1>1, <1>2 DEF Copies, Permits, Extra, OneIf

LEMMA WorkerEffect ==
  ASSUME TypeOK, KnownId, NEW w \in Worker,
         WorkerProgress(w) \/ PublishRetryFails(w) \/ SendToDlqFails(w)
           \/ WorkerError(w)
  PROVE  \E m \in Notification : Moves(m)
<1> DEFINE At(n)  == OneIf(pc[w] \in Attempting /\ held[w] = n)
           At2(n) == OneIf(pc'[w] \in Attempting /\ held'[w] = n)
<1>1. ASSUME NEW n \in Notification
      PROVE  Attempts(n)' = Attempts(n) - At(n) + At2(n)
  <2>1. \A v \in Worker \ {w} : pc'[v] = pc[v] /\ held'[v] = held[v]
    BY DEF WorkerProgress, Dequeue, GetById, UpdateQueued, HealthCheck,
           SendSucceeds, SendFails, MarkSent, MarkFailed, ScheduleRetry,
           ExhaustRetries, PublishRetry, PublishRetryFails, SendToDlq,
           SendToDlqFails, WorkerError, Release, Goto, TypeOK
  <2> QED BY <2>1, WorkerMoves
<1>2. /\ \A n \in Notification : Enqueues(n)' = Enqueues(n)
      /\ UNCHANGED <<creating, result, manual, redelivered>>
  BY NobodyMoves
  DEF WorkerProgress, Dequeue, GetById, UpdateQueued, HealthCheck,
      SendSucceeds, SendFails, MarkSent, MarkFailed, ScheduleRetry,
      ExhaustRetries, PublishRetry, PublishRetryFails, SendToDlq,
      SendToDlqFails, WorkerError, clients, history, store, broker
<1>3. \A n \in Notification : (row'[n].status = ABSENT) = (row[n].status = ABSENT)
  <2>1. CASE UNCHANGED row
    BY <2>1
  <2>2. CASE \/ UpdateQueued(w) \/ MarkSent(w) \/ MarkFailed(w)
             \/ ScheduleRetry(w) \/ ExhaustRetries(w)
    <3>1. /\ pc[w] # "dequeue"
          /\ \A n \in Notification : n # held[w] => row'[n] = row[n]
      BY <2>2 DEF UpdateQueued, MarkSent, MarkFailed, ScheduleRetry, ExhaustRetries,
                  CommitFailed, Update, TypeOK
    <3>2. held[w] \in Notification /\ row[held[w]].status # ABSENT
      BY <3>1, Holding DEF KnownId
    <3>3. row'[held[w]].status # ABSENT
      <4>1. CASE MarkSent(w)
        BY <3>2, <4>1, CommitSent DEF ABSENT
      <4>2. CASE \/ UpdateQueued(w) \/ MarkFailed(w)
                 \/ ScheduleRetry(w) \/ ExhaustRetries(w)
        <5>1. RecordsNoDelivery
          BY <3>1, <4>2, CommitQueued, CommitFailedRow, CommitRetrying
          DEF MarkFailed, ExhaustRetries
        <5> QED BY <3>2, <5>1 DEF RecordsNoDelivery
      <4> QED BY <2>2, <4>1, <4>2
    <3> QED BY <3>1, <3>2, <3>3
  <2> QED BY <2>1, <2>2
    DEF WorkerProgress, Dequeue, GetById, HealthCheck, SendSucceeds, SendFails,
        PublishRetry, PublishRetryFails, SendToDlq, SendToDlqFails, WorkerError,
        store
<1>4. \A n \in Notification : Permits(n)' = Permits(n)
  BY <1>2, <1>3 DEF Permits, Extra
<1>5. CASE Dequeue(w)
  <2>1. PICK m \in queue : queue' = queue \ {m} /\ held' = [held EXCEPT ![w] = m]
    BY <1>5 DEF Dequeue
  <2>2. /\ m \in Notification /\ pc[w] \notin Attempting
        /\ pc'[w] \in Attempting /\ held'[w] = m
        /\ UNCHANGED <<retry, delivered>>
    BY <1>5, <2>1 DEF Dequeue, Goto, TypeOK, Attempting, Working, WorkerStep, broker,
                      history
  <2>3. \A n \in Notification : Same(n)
    BY <1>1, <1>2, <1>4, <2>1, <2>2, NumbersAreNat DEF Same, Copies, OneIf
  <2> QED BY <2>2, <2>3 DEF Moves
<1>6. CASE pc[w] # "dequeue"
  <2>1. PICK m \in Notification : m = held[w]
    BY <1>6, Holding
  <2>2. CASE pc'[w] \in Attempting \/ pc[w] \notin Attempting
    <3>1. /\ pc[w] \in Attempting /\ pc'[w] \in Attempting => held'[w] = held[w]
          /\ (pc'[w] \in Attempting) = (pc[w] \in Attempting)
          /\ UNCHANGED <<queue, retry, delivered>>
      BY <1>6, <2>2
      DEF WorkerProgress, Dequeue, GetById, UpdateQueued, HealthCheck,
          SendSucceeds, SendFails, MarkSent, MarkFailed, ScheduleRetry,
          ExhaustRetries, PublishRetry, PublishRetryFails, SendToDlq,
          SendToDlqFails, WorkerError, Release, Goto, TypeOK, store, broker, history,
          Attempting, Working, WorkerStep
    <3>2. ASSUME NEW n \in Notification PROVE Same(n)
      <4>1. Attempts(n) \in Nat
        BY NumbersAreNat
      <4>2. Attempts(n)' = Attempts(n)
        BY <1>1, <3>1, <4>1 DEF OneIf
      <4> QED BY <1>2, <1>4, <3>1, <4>2 DEF Same, Copies
    <3> QED BY <2>1, <3>2 DEF Moves
  <2>3. CASE pc[w] \in Attempting /\ pc'[w] \notin Attempting
    <3>1. \A n \in Notification : Attempts(n)' = Attempts(n) - OneIf(n = m)
      BY <1>1, <2>1, <2>3, NumbersAreNat DEF OneIf
    <3>2. CASE SendSucceeds(w)
      <4>1. /\ UNCHANGED <<queue, retry>> /\ delivered' = Put(delivered, m)
        BY <2>1, <3>2 DEF SendSucceeds, store, broker
      <4>2. Sent(m)
        <5>1. delivered'[m] = delivered[m] + 1
          BY <2>1, <4>1 DEF Put, TypeOK
        <5> QED BY <1>2, <1>4, <2>1, <3>1, <4>1, <5>1, NumbersAreNat
                DEF Sent, Copies, OneIf
      <4>3. ASSUME NEW n \in Notification \ {m} PROVE Same(n)
        <5>1. delivered'[n] = delivered[n]
          BY <4>1 DEF Put, TypeOK
        <5> QED BY <1>2, <1>4, <3>1, <4>1, <5>1, NumbersAreNat DEF Same, Copies, OneIf
      <4> QED BY <2>1, <4>2, <4>3 DEF Moves
    <3>3. CASE PublishRetry(w)
      <4>1. /\ UNCHANGED <<queue, delivered>> /\ retry' = Put(retry, m)
        BY <2>1, <3>3 DEF PublishRetry, store, history
      <4>2. ASSUME NEW n \in Notification PROVE Same(n)
        <5>1. retry'[n] = retry[n] + OneIf(n = m)
          BY <4>1 DEF Put, TypeOK, OneIf
        <5> QED BY <1>2, <1>4, <3>1, <4>1, <5>1, NumbersAreNat DEF Same, Copies, OneIf
      <4> QED BY <2>1, <4>2 DEF Moves
    <3>4. CASE UNCHANGED <<queue, retry, delivered>>
      <4>1. Lapsed(m)
        BY <1>2, <1>4, <2>1, <3>1, <3>4, NumbersAreNat DEF Lapsed, Copies, OneIf
      <4>2. ASSUME NEW n \in Notification \ {m} PROVE Same(n)
        BY <1>2, <1>4, <3>1, <3>4, NumbersAreNat DEF Same, Copies, OneIf
      <4> QED BY <2>1, <4>1, <4>2 DEF Moves
    <3> QED BY <1>6, <3>2, <3>3, <3>4
      DEF WorkerProgress, Dequeue, GetById, UpdateQueued, HealthCheck, SendFails,
          MarkSent, MarkFailed, ScheduleRetry, ExhaustRetries, PublishRetryFails,
          SendToDlq, SendToDlqFails, WorkerError, store, broker, history
  <2> QED BY <2>2, <2>3
<1> QED BY <1>5, <1>6
  DEF WorkerProgress, GetById, UpdateQueued, HealthCheck, SendSucceeds, SendFails,
      MarkSent, MarkFailed, ScheduleRetry, ExhaustRetries, PublishRetry,
      PublishRetryFails, SendToDlq, SendToDlqFails, WorkerError

LEMMA ClientEffect ==
  ASSUME TypeOK, KnownId, NEW c \in Client,
         ReadForRetry(c) \/ UpdatePending(c) \/ RetryEnqueue(c) \/ RequestError(c)
  PROVE  \E m \in Notification : Moves(m)
<1>1. ASSUME NEW n \in Notification
      PROVE  Enqueues(n)' = Enqueues(n) - OneIf(request[c] = "enqueue" /\ asked[c] = n)
                              + OneIf(request'[c] = "enqueue" /\ asked'[c] = n)
  <2>1. \A d \in Client \ {c} : request'[d] = request[d] /\ asked'[d] = asked[d]
    BY DEF ReadForRetry, UpdatePending, RetryEnqueue, RequestError, Close, TypeOK
  <2> QED BY <2>1, ClientMoves
<1>2. /\ \A n \in Notification : Attempts(n)' = Attempts(n)
      /\ UNCHANGED <<creating, retry, result, delivered, redelivered>>
  BY NobodyMoves DEF ReadForRetry, UpdatePending, RetryEnqueue, RequestError, store,
                     broker, workers, history
<1>3. CASE ReadForRetry(c)
  <2>1. PICK m \in Notification : asked' = [asked EXCEPT ![c] = m]
    BY <1>3 DEF ReadForRetry
  <2>2. /\ request[c] # "enqueue" /\ request'[c] # "enqueue"
        /\ UNCHANGED <<row, queue, manual>>
    BY <1>3 DEF ReadForRetry, TypeOK, store, history
  <2>3. \A n \in Notification : Same(n)
    BY <1>1, <1>2, <2>2, NumbersAreNat DEF Same, Copies, Permits, Extra, OneIf
  <2> QED BY <2>1, <2>3 DEF Moves
<1>4. CASE request[c] # "idle"
  <2>1. PICK m \in Notification : m = asked[c] /\ row[m].status # ABSENT
    BY <1>4 DEF TypeOK, KnownId
  <2>2. CASE UpdatePending(c)
    <3>1. \A n \in Notification : (row'[n].status = ABSENT) = (row[n].status = ABSENT)
      BY <2>1, <2>2, CommitPending DEF RecordsNoDelivery
    <3>2. /\ request[c] # "enqueue" /\ request'[c] = "enqueue" /\ UNCHANGED <<asked, queue>>
          /\ manual' = Put(manual, m)
      BY <2>1, <2>2 DEF UpdatePending, TypeOK
    <3>3. ASSUME NEW n \in Notification
          PROVE  /\ manual'[n] = manual[n] + OneIf(n = m)
                 /\ Enqueues(n)' = Enqueues(n) + OneIf(n = m)
      BY <1>1, <2>1, <3>2, NumbersAreNat DEF Put, TypeOK, OneIf
    <3>4. Granted(m)
      <4>1. manual'[m] = manual[m] + 1 /\ Enqueues(m)' = Enqueues(m) + 1
        BY <3>3 DEF OneIf
      <4>2. Attempts(m)' = Attempts(m) /\ (row'[m].status = ABSENT) = (row[m].status = ABSENT)
        BY <1>2, <3>1
      <4> QED BY <1>2, <3>2, <4>1, <4>2, NumbersAreNat
              DEF Granted, Copies, Permits, Extra, OneIf
    <3>5. ASSUME NEW n \in Notification \ {m} PROVE Same(n)
      BY <1>2, <3>1, <3>2, <3>3, NumbersAreNat
      DEF Same, Copies, Permits, Extra, OneIf
    <3> QED BY <2>1, <3>4, <3>5 DEF Moves
  <2>3. CASE RetryEnqueue(c) \/ RequestError(c)
    <3>1. /\ request'[c] = "idle" /\ UNCHANGED <<row, manual>>
          /\ \/ request[c] = "enqueue" /\ queue' = queue \cup {m}
             \/ queue' = queue
      BY <2>1, <2>3 DEF RetryEnqueue, RequestError, Close, TypeOK, store
    <3>2. ASSUME NEW n \in Notification
          PROVE  Enqueues(n)' = Enqueues(n) - OneIf(request[c] = "enqueue" /\ n = m)
      BY <1>1, <2>1, <3>1, NumbersAreNat DEF OneIf
    <3>3. Lapsed(m) \/ Same(m)
      <4>1. /\ Enqueues(m)' = Enqueues(m) - OneIf(request[c] = "enqueue")
            /\ Permits(m)' = Permits(m) /\ delivered'[m] = delivered[m]
        BY <1>2, <2>1, <3>1, <3>2 DEF Permits, Extra
      <4>2. /\ Attempts(m)' = Attempts(m)
            /\ \/ request[c] = "enqueue" /\ m \in queue'
               \/ (m \in queue') = (m \in queue)
        BY <1>2, <2>1, <3>1
      <4> QED BY <1>2, <4>1, <4>2, NumbersAreNat DEF Lapsed, Same, Copies, OneIf
    <3>4. ASSUME NEW n \in Notification \ {m} PROVE Same(n)
      BY <1>2, <3>1, <3>2, NumbersAreNat DEF Same, Copies, Permits, Extra, OneIf
    <3> QED BY <2>1, <3>3, <3>4 DEF Moves
  <2> QED BY <1>4, <2>2, <2>3 DEF ReadForRetry
<1> QED BY <1>3, <1>4 DEF UpdatePending, RetryEnqueue, RequestError

LEMMA BrokerEffect ==
  ASSUME TypeOK, KnownId, NEW m \in Notification,
         \/ InsertRow(m) \/ EnqueueNew(m) \/ EnqueueNewFails(m)
         \/ ExpireRetry(m) \/ OnRetryEvent(m) \/ AckRetry(m)
         \/ AckRetryFails(m) \/ RetryEventFails(m)
  PROVE  Moves(m)
<1>1. /\ \A n \in Notification : Attempts(n)' = Attempts(n) /\ Enqueues(n)' = Enqueues(n)
      /\ UNCHANGED <<delivered, manual>>
  BY NobodyMoves DEF InsertRow, EnqueueNew, EnqueueNewFails, ExpireRetry, OnRetryEvent,
                     AckRetry, AckRetryFails, RetryEventFails, workers, clients, history
<1> USE <1>1, NumbersAreNat DEF Moves, Granted, Lapsed, Same, Copies, Permits, Extra,
                                OneIf
<1>2. CASE InsertRow(m)
  <2>1. /\ row' = [row EXCEPT ![m] = NewRow] /\ row[m].status = ABSENT
        /\ creating' = creating \cup {m}
        /\ UNCHANGED <<queue, retry, result, redelivered>>
    BY <1>2 DEF InsertRow, broker, history
  <2>2. /\ row'[m].status # ABSENT /\ m \notin creating
        /\ \A n \in Notification \ {m} : row'[n] = row[n]
    BY <2>1, RowTypes DEF TypeOK, KnownId, ABSENT
  <2>3. Granted(m)
    BY <2>1, <2>2
  <2>4. \A n \in Notification \ {m} : Same(n)
    BY <2>1, <2>2
  <2> QED BY <2>3, <2>4
<1>3. CASE EnqueueNew(m) \/ EnqueueNewFails(m)
  <2>1. /\ m \in creating /\ creating' = creating \ {m}
        /\ queue' = queue \cup {m} \/ queue' = queue
        /\ UNCHANGED <<row, retry, result, redelivered>>
    BY <1>3 DEF EnqueueNew, EnqueueNewFails, broker, history
  <2> QED BY <2>1
<1>4. CASE ExpireRetry(m)
  <2>1. /\ retry[m] > 0 /\ retry' = Take(retry, m) /\ result' = Put(result, m)
        /\ UNCHANGED <<row, creating, queue, redelivered>>
    BY <1>4 DEF ExpireRetry, store, history
  <2>2. ASSUME NEW n \in Notification
        PROVE  retry'[n] = retry[n] - OneIf(n = m) /\ result'[n] = result[n] + OneIf(n = m)
    BY <2>1 DEF Put, Take, TypeOK
  <2>3. ASSUME NEW n \in Notification PROVE Same(n)
    BY <2>1, <2>2
  <2> QED BY <2>3
<1>5. CASE OnRetryEvent(m) \/ RetryEventFails(m)
  <2>1. /\ result[m] > 0 /\ result' = Take(result, m)
        /\ queue' = queue \cup {m} \/ queue' = queue
        /\ UNCHANGED <<row, creating, retry, redelivered>>
    BY <1>5 DEF OnRetryEvent, RetryEventFails, store
  <2> QED BY <2>1 DEF Take, TypeOK
<1>6. CASE AckRetry(m)
  BY <1>6 DEF AckRetry, store, history
<1>7. CASE AckRetryFails(m)
  <2>1. /\ result' = Put(result, m) /\ redelivered' = Put(redelivered, m)
        /\ UNCHANGED <<row, creating, queue, retry>>
    BY <1>7 DEF AckRetryFails, store
  <2>2. ASSUME NEW n \in Notification
        PROVE  /\ result'[n] = result[n] + OneIf(n = m)
               /\ redelivered'[n] = redelivered[n] + OneIf(n = m)
    BY <2>1 DEF Put, TypeOK
  <2>3. Granted(m)
    BY <2>1, <2>2
  <2>4. ASSUME NEW n \in Notification \ {m} PROVE Same(n)
    BY <2>1, <2>2
  <2> QED BY <2>3, <2>4
<1> QED BY <1>2, <1>3, <1>4, <1>5, <1>6, <1>7

LEMMA RestartEffect ==
  ASSUME TypeOK, NEW n \in Notification, Crash \/ RedisRestarts
  PROVE  Restarted(n)
<1>1. CASE Crash
  <2>1. Attempts(n)' = 0 /\ Enqueues(n)' = 0
    <3>1. AttemptingOn(n)' = {} /\ EnqueueingOf(n)' = {}
      BY <1>1 DEF Crash, AttemptingOn, EnqueueingOf, Attempting, Working
    <3> QED BY <3>1, FS_EmptySet DEF Attempts, Enqueues
  <2> QED BY <1>1, <2>1, NumbersAreNat
          DEF Crash, Restarted, Copies, Permits, Extra, OneIf
<1>2. CASE RedisRestarts
  <2>1. Attempts(n)' = Attempts(n) /\ Enqueues(n)' = Enqueues(n)
    BY <1>2, NobodyMoves DEF RedisRestarts, workers, clients
  <2>2. PICK saved \in SUBSET enqueued :
          /\ queue' = saved
          /\ redelivered'[n] = redelivered[n] + OneIf(n \in saved \ queue)
    BY <1>2 DEF RedisRestarts
  <2>3. UNCHANGED <<row, creating, retry, result, delivered, manual>>
    BY <1>2 DEF RedisRestarts, broker
  <2> QED BY <2>1, <2>2, <2>3, NumbersAreNat
          DEF Restarted, Copies, Permits, Extra, OneIf
<1> QED BY <1>1, <1>2

\* Every step of the engine is one of the moves above, and changes nothing that
\* the promise is about when it is none of them.
LEMMA EveryEffect ==
  ASSUME TypeOK, KnownId, [Next]_vars
  PROVE  \/ \E m \in Notification : Moves(m)
         \/ \A n \in Notification : Restarted(n)
         \/ \A n \in Notification : Same(n)
<1>1. CASE UNCHANGED <<row, queue, creating, broker, workers, clients, delivered,
                       manual, redelivered>>
  BY <1>1, NobodyMoves DEF Same, Copies, Permits, Extra, broker, workers, clients
<1>2. ASSUME NEW w \in Worker, DequeueLost(w)
      PROVE  \E m \in Notification : Moves(m)
  <2>1. PICK m \in queue : queue' = queue \ {m}
    BY <1>2 DEF DequeueLost
  <2>2. /\ m \in Notification
        /\ \A n \in Notification : Attempts(n)' = Attempts(n) /\ Enqueues(n)' = Enqueues(n)
        /\ UNCHANGED <<row, creating, retry, result, delivered, manual, redelivered>>
    BY <1>2, NobodyMoves DEF DequeueLost, TypeOK, broker, workers, clients
  <2>3. Lapsed(m)
    BY <2>1, <2>2, NumbersAreNat DEF Lapsed, Copies, Permits, Extra, OneIf
  <2>4. \A n \in Notification \ {m} : Same(n)
    BY <2>1, <2>2 DEF Same, Copies, Permits, Extra, OneIf
  <2> QED BY <2>2, <2>3, <2>4 DEF Moves
<1>3. ASSUME NEW ch \in Providers, SimulateDowntime(ch) \/ SimulateRecovery(ch)
      PROVE  UNCHANGED <<row, queue, creating, broker, workers, clients, delivered,
                         manual, redelivered>>
  BY <1>3 DEF SimulateDowntime, SimulateRecovery, store, broker, workers, clients,
              history
<1>4. ASSUME UNCHANGED vars
      PROVE  UNCHANGED <<row, queue, creating, broker, workers, clients, delivered,
                         manual, redelivered>>
  BY <1>4 DEF vars, store, broker, workers, clients, history
<1> QED BY <1>1, <1>2, <1>3, <1>4, BrokerEffect, WorkerEffect, ClientEffect,
           RestartEffect DEF Next

LEMMA PermittedStep ==
  TypeOK /\ KnownId /\ DeliveriesPermitted /\ [Next]_vars => DeliveriesPermitted'
<1> SUFFICES ASSUME TypeOK, KnownId, DeliveriesPermitted, [Next]_vars,
                    NEW n \in Notification
             PROVE  (delivered[n] + Copies(n) <= Permits(n))'
  BY DEF DeliveriesPermitted
<1>1. delivered[n] + Copies(n) <= Permits(n)
  BY DEF DeliveriesPermitted
<1>2. Granted(n) \/ Sent(n) \/ Lapsed(n) \/ Same(n) \/ Restarted(n)
  BY EveryEffect DEF Moves
<1>3. /\ Copies(n) \in Nat /\ Permits(n) \in Nat /\ delivered[n] \in Nat
      /\ Copies(n)' \in Nat /\ Permits(n)' \in Nat /\ delivered'[n] \in Nat
  <2>1. TypeOK'
    BY TypeStep
  <2>2. /\ delivered'[n] \in Nat /\ retry'[n] \in Nat /\ result'[n] \in Nat
        /\ manual'[n] \in Nat /\ redelivered'[n] \in Nat
    BY <2>1 DEF TypeOK
  <2>3. Attempts(n)' \in Nat /\ Enqueues(n)' \in Nat
    BY CountsAreNatNext
  <2> QED BY <2>2, <2>3, NumbersAreNat DEF Copies, Permits, Extra, OneIf
<1> QED BY <1>1, <1>2, <1>3 DEF Granted, Sent, Lapsed, Same, Restarted

\* No notification is ever delivered more often than it was created, retried by
\* hand or redelivered by the broker, for any number of workers and callers that
\* handle it at the same time and any interleaving of crashes and errors.
THEOREM DeliveriesPermittedHolds == Spec => []DeliveriesPermitted
<1>1. Init => DeliveriesPermitted
  <2> SUFFICES ASSUME Init, NEW n \in Notification
               PROVE  delivered[n] + Copies(n) <= Permits(n)
    BY DEF DeliveriesPermitted
  <2>1. AttemptingOn(n) = {} /\ EnqueueingOf(n) = {}
    BY DEF Init, AttemptingOn, EnqueueingOf, Attempting, Working
  <2>2. Attempts(n) = 0 /\ Enqueues(n) = 0
    BY <2>1, FS_EmptySet DEF Attempts, Enqueues
  <2> QED BY <2>2, RowTypes DEF Init, Copies, Permits, Extra, OneIf
<1> QED BY <1>1, TypeCorrect, KnownIdHolds, PermittedStep, PTL DEF Spec

-----------------------------------------------------------------------------
(* The refinement: every step of the engine is a step of DeliveryPermits.  *)

LEMMA PromiseInit == Init => Promise!Init
<1> SUFFICES ASSUME Init, NEW n \in Notification
             PROVE  Permits(n) = 0 /\ Copies(n) = 0 /\ delivered[n] = 0
  BY DEF Init, Promise!Init
<1>1. AttemptingOn(n) = {} /\ EnqueueingOf(n) = {}
  BY DEF Init, AttemptingOn, EnqueueingOf, Attempting, Working
<1>2. Attempts(n) = 0 /\ Enqueues(n) = 0
  BY <1>1, FS_EmptySet DEF Attempts, Enqueues
<1> QED BY <1>2, RowTypes DEF Init, Copies, Permits, Extra, OneIf

LEMMA PromiseStep ==
  TypeOK /\ TypeOK' /\ KnownId /\ [Next]_vars => [Promise!Next]_(Promise!vars)
<1> SUFFICES ASSUME TypeOK, TypeOK', KnownId, [Next]_vars
             PROVE  Promise!Next \/ UNCHANGED Promise!vars
  OBVIOUS
<1> DEFINE p == [n \in Notification |-> Permits(n)]
           c == [n \in Notification |-> Copies(n)]
<1>1. /\ delivered \in [Notification -> Nat] /\ delivered' \in [Notification -> Nat]
  BY DEF TypeOK
<1>2. ASSUME NEW n \in Notification
      PROVE  Copies(n)' \in Nat /\ Permits(n)' \in Nat
  <2>1. /\ retry'[n] \in Nat /\ result'[n] \in Nat /\ manual'[n] \in Nat
        /\ redelivered'[n] \in Nat
    BY DEF TypeOK
  <2> QED BY <2>1, CountsAreNatNext DEF Copies, Permits, Extra, OneIf
<1>0. (\A n \in Notification : delivered'[n] = delivered[n]) => delivered' = delivered
  BY <1>1
<1>3. ASSUME \A n \in Notification : Same(n) PROVE UNCHANGED Promise!vars
  BY <1>1, <1>3 DEF Same, Promise!vars
<1>4. ASSUME \A n \in Notification : Restarted(n) PROVE Promise!Next
  BY <1>1, <1>2, <1>4 DEF Restarted, Promise!Next, Promise!Restart
<1>5. ASSUME NEW m \in Notification, Moves(m)
      PROVE  Promise!Next \/ UNCHANGED Promise!vars
  <2>1. \A n \in Notification \ {m} : Same(n)
    BY <1>5 DEF Moves
  <2>2. Copies(m) \in Nat
    BY NumbersAreNat
  <2>3. CASE Granted(m)
    <3>1. ASSUME NEW n \in Notification
          PROVE  /\ p'[n] = [p EXCEPT ![m] = @ + 1][n]
                 /\ c'[n] = [c EXCEPT ![m] = @ + 1][n]
                 /\ delivered'[n] = delivered[n]
      BY <2>1, <2>3 DEF Granted, Same
    <3>2. p' = [p EXCEPT ![m] = @ + 1] /\ c' = [c EXCEPT ![m] = @ + 1]
      BY <3>1
    <3>3. delivered' = delivered
      BY <1>0, <1>1, <3>1
    <3> QED BY <3>2, <3>3 DEF Promise!Next, Promise!Grant
  <2>4. CASE Sent(m)
    <3>1. ASSUME NEW n \in Notification
          PROVE  /\ p'[n] = p[n] /\ c'[n] = [c EXCEPT ![m] = @ - 1][n]
                 /\ delivered'[n] = [delivered EXCEPT ![m] = @ + 1][n]
      BY <1>1, <2>1, <2>4 DEF Sent, Same
    <3>2. c[m] > 0
      BY <1>2, <2>2, <2>4 DEF Sent
    <3>3. /\ p' = p /\ c' = [c EXCEPT ![m] = @ - 1]
          /\ delivered' = [delivered EXCEPT ![m] = @ + 1]
      BY <1>1, <3>1
    <3> QED BY <3>2, <3>3 DEF Promise!Next, Promise!Deliver
  <2>5. CASE Lapsed(m)
    <3>1. ASSUME NEW n \in Notification
          PROVE  /\ p'[n] = p[n] /\ c'[n] = [c EXCEPT ![m] = @ - 1][n]
                 /\ delivered'[n] = delivered[n]
      BY <2>1, <2>5 DEF Lapsed, Same
    <3>2. c[m] > 0
      BY <1>2, <2>2, <2>5 DEF Lapsed
    <3>3. p' = p /\ c' = [c EXCEPT ![m] = @ - 1]
      BY <3>1
    <3>4. delivered' = delivered
      BY <1>0, <1>1, <3>1
    <3> QED BY <3>2, <3>3, <3>4 DEF Promise!Next, Promise!Lapse
  <2>6. CASE Same(m)
    BY <1>3, <2>1, <2>6
  <2> QED BY <1>5, <2>3, <2>4, <2>5, <2>6 DEF Moves
<1> QED BY <1>3, <1>4, <1>5, EveryEffect

\* The engine implements DeliveryPermits: with any number of workers, callers,
\* crashes and errors, a step that sends uses up exactly one chance, and a chance
\* comes into being only with a permit.
THEOREM DeliveryPromiseHolds == Spec => DeliveryPromise
BY TypeCorrect, KnownIdHolds, PromiseInit, PromiseStep, PTL
DEF Spec, DeliveryPromise, Promise!Spec
=============================================================================

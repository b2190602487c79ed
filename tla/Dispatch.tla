------------------------------- MODULE Dispatch -------------------------------
(***************************************************************************)
(* What happens to a notification between its INSERT and its final status: *)
(* the Redis queue, the worker pool, DispatchService.dispatch, the         *)
(* notification.retry queue and its TTL, the consumer that puts expired    *)
(* retries back on the Redis queue, and the manual retry of the REST API.  *)
(*                                                                         *)
(* Every await of the code is a point where another coroutine may run, so  *)
(* an action is the code between two awaits that touch shared state: a     *)
(* command to Redis, a COMMIT or a SELECT in PostgreSQL, a publish, an ack *)
(* or a provider call.  The order in which the Redis queue hands out its   *)
(* members is left open here.                                              *)
(***************************************************************************)
EXTENDS NotificationTypes, FiniteSets

CONSTANTS
  Notification,   \* ids of the rows of the notifications table
  ChannelOf,      \* the channel column of each row
  Worker,         \* coroutines of the worker pool
  Client,         \* callers of POST /notifications/{id}/retry
  Providers,      \* channels with an entry in the providers dictionary
  MaxRetries,     \* max_retries of RETRY_CONFIG, the same for all events
  MaxRequests,    \* bound: manual retry requests accepted
  MaxCrashes,     \* bound: crashes of the service process and of Redis
  MaxErrors,      \* bound: calls to the database, Redis or RabbitMQ that fail
  None            \* no notification

ASSUME DispatchAssumption ==
  /\ None \notin Notification
  /\ ChannelOf \in [Notification -> NotificationChannel]
  /\ Providers \subseteq NotificationChannel
  /\ IsFiniteSet(Worker) /\ IsFiniteSet(Client)
  /\ MaxRetries \in Nat
  /\ MaxRequests \in Nat /\ MaxCrashes \in Nat /\ MaxErrors \in Nat

VARIABLES
  row,        \* the notifications table
  queue,      \* members of the Redis sorted set notification:queue
  creating,   \* rows committed by create_notification, not yet enqueued
  retry,      \* messages waiting out their TTL in notification.retry
  result,     \* messages in notification.retry.result, not yet handled
  acking,     \* messages handled by _on_retry_event but not yet acked
  dlq,        \* messages in notification.dlq
  healthy,    \* _healthy of each provider
  pc,         \* what each worker does next
  held,       \* the id each worker popped
  snap,       \* the row as the worker's session holds it
  code,       \* error_code of the outcome the worker is about to record
  request,    \* what each API caller does next
  asked,      \* the id it asks to retry
  read,       \* the row as its session holds it
  delivered,  \* history: times a provider accepted the notification
  manual,     \* history: manual retries committed for it
  redelivered,\* history: times RabbitMQ or a restarted Redis brought back a
              \* copy of it that had been taken
  dropped,    \* history: notifications a fault took out of a queue or a
              \* coroutine, and nobody has enqueued since
  enqueued,   \* history: notifications that have been on the Redis queue
  requests, crashes, errors  \* how much of each bound is used up

store   == <<row, queue, creating>>
broker  == <<retry, result, acking, dlq>>
workers == <<pc, held, snap, code>>
clients == <<request, asked, read>>
history == <<delivered, manual, redelivered, dropped>>
budgets == <<requests, crashes, errors>>
outside == <<healthy, enqueued>>
vars == <<store, broker, outside, workers, clients, history, budgets>>

WorkerStep == {"dequeue", "get_by_id", "update_queued", "health_check", "send",
               "mark_sent", "mark_failed", "schedule_retry", "publish_retry",
               "send_to_dlq"}

ClientStep == {"idle", "update_pending", "enqueue"}

TypeOK ==
  /\ row \in [Notification -> NotificationRow]
  /\ queue \subseteq Notification /\ creating \subseteq Notification
  /\ enqueued \subseteq Notification
  /\ retry \in [Notification -> Nat] /\ result \in [Notification -> Nat]
  /\ acking \in [Notification -> Nat] /\ dlq \in [Notification -> Nat]
  /\ healthy \in [Providers -> BOOLEAN]
  /\ pc \in [Worker -> WorkerStep]
  /\ held \in [Worker -> Notification \cup {None}]
  /\ \A w \in Worker : pc[w] # "dequeue" => held[w] \in Notification
  /\ snap \in [Worker -> NotificationRow]
  /\ code \in [Worker -> NotificationErrorCode \cup {NULL}]
  /\ request \in [Client -> ClientStep]
  /\ asked \in [Client -> Notification \cup {None}]
  /\ \A c \in Client : request[c] # "idle" => asked[c] \in Notification
  /\ read \in [Client -> NotificationRow]
  /\ delivered \in [Notification -> Nat] /\ manual \in [Notification -> Nat]
  /\ redelivered \in [Notification -> Nat]
  /\ dropped \subseteq Notification
  /\ requests \in Nat /\ crashes \in Nat /\ errors \in Nat

Init ==
  /\ row = [n \in Notification |-> NoRow]
  /\ queue = {} /\ creating = {} /\ enqueued = {}
  /\ retry = [n \in Notification |-> 0]
  /\ result = [n \in Notification |-> 0]
  /\ acking = [n \in Notification |-> 0]
  /\ dlq = [n \in Notification |-> 0]
  /\ healthy = [ch \in Providers |-> TRUE]
  /\ pc = [w \in Worker |-> "dequeue"]
  /\ held = [w \in Worker |-> None]
  /\ snap = [w \in Worker |-> NoRow]
  /\ code = [w \in Worker |-> NULL]
  /\ request = [c \in Client |-> "idle"]
  /\ asked = [c \in Client |-> None]
  /\ read = [c \in Client |-> NoRow]
  /\ delivered = [n \in Notification |-> 0]
  /\ manual = [n \in Notification |-> 0]
  /\ redelivered = [n \in Notification |-> 0]
  /\ dropped = {}
  /\ requests = 0 /\ crashes = 0 /\ errors = 0

-----------------------------------------------------------------------------
(* Helpers.                                                                *)

Goto(w, step) == pc' = [pc EXCEPT ![w] = step]

\* The end of one round of _worker_loop: the session is closed, the id gone.
Release(w) ==
  /\ Goto(w, "dequeue")
  /\ held' = [held EXCEPT ![w] = None]
  /\ snap' = [snap EXCEPT ![w] = NoRow]
  /\ code' = [code EXCEPT ![w] = NULL]

Close(c) ==
  /\ request' = [request EXCEPT ![c] = "idle"]
  /\ asked' = [asked EXCEPT ![c] = None]
  /\ read' = [read EXCEPT ![c] = NoRow]

\* update_status: commit what the session changed in notification n.
Update(n, old, new) == row' = [row EXCEPT ![n] = Flush(@, old, new)]

\* What the callers of update_status change in the row their session holds.
QueuedRow(r)  == [r EXCEPT !.status = "QUEUED"]
SentRow(r)    == [r EXCEPT !.status = "SENT", !.external_id = TRUE]
FailedRow(r, e)   == [r EXCEPT !.status = "FAILED", !.error_code = e]
RetryingRow(r, e, count) ==
  [r EXCEPT !.status = "RETRYING", !.error_code = e, !.retry_count = count]
PendingRow(r) ==
  [r EXCEPT !.status = "PENDING", !.error_code = NULL, !.retry_count = @ + 1]

OneIf(b) == IF b THEN 1 ELSE 0

Put(q, n)  == [q EXCEPT ![n] = @ + 1]
Take(q, n) == [q EXCEPT ![n] = @ - 1]

Fault == errors < MaxErrors /\ errors' = errors + 1

Drop(ns) == dropped' = dropped \cup ns
Regain(n) == dropped' = dropped \ {n}

-----------------------------------------------------------------------------
(* The end of create_notification for one channel: the row is committed    *)
(* first and enqueued second.  What enqueue returns is not looked at.      *)

\* Mutant: the row is enqueued without ever being committed.
InsertRowUncommitted(n) ==
  /\ row[n].status = ABSENT
  /\ creating' = creating \cup {n}
  /\ UNCHANGED <<row, queue, broker, outside, workers, clients, history, budgets>>

InsertRow(n) ==
  /\ row[n].status = ABSENT
  /\ row' = [row EXCEPT ![n] = NewRow]
  /\ creating' = creating \cup {n}
  /\ UNCHANGED <<queue, broker, outside, workers, clients, history, budgets>>

EnqueueNew(n) ==
  /\ n \in creating
  /\ creating' = creating \ {n}
  /\ queue' = queue \cup {n} /\ enqueued' = enqueued \cup {n}
  /\ UNCHANGED <<row, broker, healthy, workers, clients, history, budgets>>

EnqueueNewFails(n) ==
  /\ n \in creating
  /\ creating' = creating \ {n}
  /\ Fault /\ Drop({n})
  /\ UNCHANGED <<row, queue, broker, outside, workers, clients,
                 delivered, manual, redelivered, requests, crashes>>

-----------------------------------------------------------------------------
(* The workers.                                                            *)

\* Mutant: the smallest member is read but not removed.
DequeuePeeks(w) ==
  /\ pc[w] = "dequeue"
  /\ \E n \in queue : held' = [held EXCEPT ![w] = n]
  /\ Goto(w, "get_by_id")
  /\ UNCHANGED <<row, queue, creating, broker, outside, snap, code, clients,
                 history, budgets>>

Dequeue(w) ==
  /\ pc[w] = "dequeue"
  /\ \E n \in queue : /\ queue' = queue \ {n}
                      /\ held' = [held EXCEPT ![w] = n]
  /\ Goto(w, "get_by_id")
  /\ UNCHANGED <<row, creating, broker, outside, snap, code, clients,
                 history, budgets>>

\* BZPOPMIN took a member and its reply was lost: dequeue returns None.
DequeueLost(w) ==
  /\ pc[w] = "dequeue"
  /\ \E n \in queue : queue' = queue \ {n} /\ Drop({n})
  /\ Fault
  /\ UNCHANGED <<row, creating, broker, outside, workers, clients,
                 delivered, manual, redelivered, requests, crashes>>

HasProvider(n) == ChannelOf[n] \in Providers

\* dispatch reads the row and looks the provider up.  It looks at no other
\* column: a row that is already SENT or FAILED is dispatched like any other.
GetById(w) ==
  /\ pc[w] = "get_by_id"
  /\ snap' = [snap EXCEPT ![w] = row[held[w]]]
  /\ \/ /\ HasProvider(held[w])
        /\ Goto(w, "update_queued")
        /\ UNCHANGED code
     \/ /\ ~HasProvider(held[w])
        /\ Goto(w, "mark_failed")
        /\ code' = [code EXCEPT ![w] = "UNKNOWN"]
  /\ UNCHANGED <<store, broker, outside, held, clients, history, budgets>>

UpdateQueued(w) ==
  /\ pc[w] = "update_queued"
  /\ Update(held[w], snap[w], QueuedRow(snap[w]))
  /\ Goto(w, "health_check")
  /\ UNCHANGED <<queue, creating, broker, outside, held, snap, code, clients,
                 history, budgets>>

\* The refresh that ends update_status reads the row again; health_check
\* answers without an await.
HealthCheck(w) ==
  /\ pc[w] = "health_check"
  /\ snap' = [snap EXCEPT ![w] = row[held[w]]]
  /\ \/ /\ healthy[ChannelOf[held[w]]]
        /\ Goto(w, "send")
        /\ UNCHANGED code
     \/ /\ ~healthy[ChannelOf[held[w]]]
        /\ Goto(w, "schedule_retry")
        /\ code' = [code EXCEPT ![w] = "PROVIDER_DOWN"]
  /\ UNCHANGED <<store, broker, outside, held, clients, history, budgets>>

SendSucceeds(w) ==
  /\ pc[w] = "send"
  /\ healthy[ChannelOf[held[w]]]
  /\ delivered' = Put(delivered, held[w])
  /\ Goto(w, "mark_sent")
  /\ UNCHANGED <<store, broker, outside, held, snap, code, clients,
                 manual, redelivered, dropped, budgets>>

\* Mutant: a failure that cannot be retried is taken for a success.
SendFailsUnchecked(w) ==
  /\ pc[w] = "send"
  /\ \E e \in SendErrors(ChannelOf[held[w]], healthy[ChannelOf[held[w]]]) :
       /\ code' = [code EXCEPT ![w] = e]
       /\ Goto(w, IF e \in RETRYABLE_ERROR_CODES THEN "schedule_retry"
                                               ELSE "mark_sent")
  /\ UNCHANGED <<store, broker, outside, held, snap, clients, history, budgets>>

SendFails(w) ==
  /\ pc[w] = "send"
  /\ \E e \in SendErrors(ChannelOf[held[w]], healthy[ChannelOf[held[w]]]) :
       /\ code' = [code EXCEPT ![w] = e]
       /\ \/ e \in RETRYABLE_ERROR_CODES /\ Goto(w, "schedule_retry")
          \/ e \notin RETRYABLE_ERROR_CODES /\ Goto(w, "mark_failed")
  /\ UNCHANGED <<store, broker, outside, held, snap, clients, history, budgets>>

MarkSent(w) ==
  /\ pc[w] = "mark_sent"
  /\ Update(held[w], snap[w], SentRow(snap[w]))
  /\ Release(w)
  /\ UNCHANGED <<queue, creating, broker, outside, clients, history, budgets>>

\* _mark_failed, from dispatch itself and from an exhausted _schedule_retry.
CommitFailed(w) == Update(held[w], snap[w], FailedRow(snap[w], code[w]))

MarkFailed(w) ==
  /\ pc[w] = "mark_failed"
  /\ CommitFailed(w)
  /\ Release(w)
  /\ UNCHANGED <<queue, creating, broker, outside, clients, history, budgets>>

\* Mutant: the retry is not counted.
NewRetryCountForgotten(w) == snap[w].retry_count

\* _schedule_retry counts on the retry_count its session holds.
NewRetryCount(w) == snap[w].retry_count + 1

\* Mutant: one retry too many.
RetriesLeftOffByOne(w) == NewRetryCount(w) <= MaxRetries + 1

RetriesLeft(w) == NewRetryCount(w) <= MaxRetries

ScheduleRetry(w) ==
  /\ pc[w] = "schedule_retry"
  /\ RetriesLeft(w)
  /\ Update(held[w], snap[w], RetryingRow(snap[w], code[w], NewRetryCount(w)))
  /\ Goto(w, "publish_retry")
  /\ UNCHANGED <<queue, creating, broker, outside, held, snap, code, clients,
                 history, budgets>>

ExhaustRetries(w) ==
  /\ pc[w] = "schedule_retry"
  /\ ~RetriesLeft(w)
  /\ CommitFailed(w)
  /\ Goto(w, "send_to_dlq")
  /\ UNCHANGED <<queue, creating, broker, outside, held, snap, code, clients,
                 history, budgets>>

\* Mutant: the message is published to a queue that is not bound.
PublishRetryUnroutable(w) ==
  /\ pc[w] = "publish_retry"
  /\ Release(w)
  /\ UNCHANGED <<store, broker, outside, clients, history, budgets>>

PublishRetry(w) ==
  /\ pc[w] = "publish_retry"
  /\ retry' = Put(retry, held[w])
  /\ Release(w)
  /\ UNCHANGED <<store, result, acking, dlq, outside, clients, history, budgets>>

\* publish_retry returns FALSE: dispatch logs the row as stuck and returns.
PublishRetryFails(w) ==
  /\ pc[w] = "publish_retry"
  /\ Fault /\ Drop({held[w]})
  /\ Release(w)
  /\ UNCHANGED <<store, broker, outside, clients,
                 delivered, manual, redelivered, requests, crashes>>

\* Mutant: the same for the dead letter queue.
SendToDlqUnroutable(w) ==
  /\ pc[w] = "send_to_dlq"
  /\ Release(w)
  /\ UNCHANGED <<store, broker, outside, clients, history, budgets>>

SendToDlq(w) ==
  /\ pc[w] = "send_to_dlq"
  /\ dlq' = Put(dlq, held[w])
  /\ Release(w)
  /\ UNCHANGED <<store, retry, result, acking, outside, clients, history, budgets>>

\* _send_to_dlq swallows every exception.
SendToDlqFails(w) ==
  /\ pc[w] = "send_to_dlq"
  /\ Fault
  /\ Release(w)
  /\ UNCHANGED <<store, broker, outside, clients, history, requests, crashes>>

\* A call to the database raises: _worker_loop logs it and goes on, and the
\* id it had popped is on no queue any more.
WorkerError(w) ==
  /\ pc[w] \in {"get_by_id", "update_queued", "health_check", "mark_sent",
                "mark_failed", "schedule_retry"}
  /\ Fault /\ Drop({held[w]})
  /\ Release(w)
  /\ UNCHANGED <<store, broker, outside, clients,
                 delivered, manual, redelivered, requests, crashes>>

-----------------------------------------------------------------------------
(* RabbitMQ's TTL and the consumer of notification.retry.result.           *)

ExpireRetry(n) ==
  /\ retry[n] > 0
  /\ retry' = Take(retry, n)
  /\ result' = Put(result, n)
  /\ UNCHANGED <<store, acking, dlq, outside, workers, clients, history, budgets>>

\* _on_retry_event needs only the id and the priority of the row, which never
\* change, and looks at no status.  The message is acked after the enqueue.
OnRetryEvent(n) ==
  /\ result[n] > 0
  /\ result' = Take(result, n)
  /\ acking' = Put(acking, n)
  /\ queue' = queue \cup {n}
  /\ Regain(n)
  /\ UNCHANGED <<row, creating, retry, dlq, outside, workers, clients,
                 delivered, manual, redelivered, budgets>>

AckRetry(n) ==
  /\ acking[n] > 0
  /\ acking' = Take(acking, n)
  /\ UNCHANGED <<store, retry, result, dlq, outside, workers, clients,
                 history, budgets>>

\* The channel closes under the ack, and RabbitMQ delivers the message again.
AckRetryFails(n) ==
  /\ acking[n] > 0
  /\ acking' = Take(acking, n)
  /\ result' = Put(result, n)
  /\ redelivered' = Put(redelivered, n)
  /\ Fault
  /\ UNCHANGED <<store, retry, dlq, outside, workers, clients,
                 delivered, manual, dropped, requests, crashes>>

\* The SELECT raises, and the message is nacked without requeue; or enqueue
\* returns FALSE, which is not looked at, and the message is acked.
RetryEventFails(n) ==
  /\ result[n] > 0
  /\ result' = Take(result, n)
  /\ Fault /\ Drop({n})
  /\ UNCHANGED <<store, retry, acking, dlq, outside, workers, clients,
                 delivered, manual, redelivered, requests, crashes>>

-----------------------------------------------------------------------------
(* retry_notification.  A SENT or QUEUED row is refused, with no effect.   *)

ReadForRetry(c) ==
  /\ request[c] = "idle"
  /\ requests < MaxRequests
  /\ requests' = requests + 1
  /\ \E n \in Notification :
       /\ row[n].status \notin {ABSENT, "SENT", "QUEUED"}
       /\ asked' = [asked EXCEPT ![c] = n]
       /\ read' = [read EXCEPT ![c] = row[n]]
  /\ request' = [request EXCEPT ![c] = "update_pending"]
  /\ UNCHANGED <<store, broker, outside, workers, history, crashes, errors>>

UpdatePending(c) ==
  /\ request[c] = "update_pending"
  /\ Update(asked[c], read[c], PendingRow(read[c]))
  /\ manual' = Put(manual, asked[c])
  /\ request' = [request EXCEPT ![c] = "enqueue"]
  /\ UNCHANGED <<queue, creating, broker, outside, workers, asked, read,
                 delivered, redelivered, dropped, budgets>>

RetryEnqueue(c) ==
  /\ request[c] = "enqueue"
  /\ queue' = queue \cup {asked[c]} /\ enqueued' = enqueued \cup {asked[c]}
  /\ Regain(asked[c])
  /\ Close(c)
  /\ UNCHANGED <<row, creating, broker, healthy, workers,
                 delivered, manual, redelivered, budgets>>

\* A failing UPDATE is reported to the caller; a failing enqueue is not.
RequestError(c) ==
  /\ request[c] # "idle"
  /\ Fault
  /\ Drop(IF request[c] = "enqueue" THEN {asked[c]} ELSE {})
  /\ Close(c)
  /\ UNCHANGED <<store, broker, outside, workers,
                 delivered, manual, redelivered, requests, crashes>>

-----------------------------------------------------------------------------
(* The environment: provider outages, and a crash of the service process   *)
(* followed by a restart.  Redis, PostgreSQL and RabbitMQ keep their       *)
(* state; what the coroutines held is gone; RabbitMQ delivers again what   *)
(* was not acked; the providers start healthy.  Redis may restart as well, *)
(* with what it last saved: docker-compose.yml gives it no append-only     *)
(* file.                                                                   *)

SimulateDowntime(ch) ==
  /\ healthy[ch]
  /\ healthy' = [healthy EXCEPT ![ch] = FALSE]
  /\ UNCHANGED <<store, broker, enqueued, workers, clients, history, budgets>>

SimulateRecovery(ch) ==
  /\ ~healthy[ch]
  /\ healthy' = [healthy EXCEPT ![ch] = TRUE]
  /\ UNCHANGED <<store, broker, enqueued, workers, clients, history, budgets>>

\* The workers that would still change the row of the id they popped, and
\* the API callers about to enqueue the one they asked for.
Working  == WorkerStep \ {"dequeue", "send_to_dlq"}
WorkingOn(n)   == {w \in Worker : pc[w] \in Working /\ held[w] = n}
EnqueueingOf(n) == {c \in Client : request[c] = "enqueue" /\ asked[c] = n}

InMemory == {n \in Notification : \/ n \in creating
                                  \/ WorkingOn(n) # {}
                                  \/ EnqueueingOf(n) # {}}

Crash ==
  /\ crashes < MaxCrashes
  /\ crashes' = crashes + 1
  /\ Drop(InMemory)
  /\ creating' = {}
  /\ pc' = [w \in Worker |-> "dequeue"]
  /\ held' = [w \in Worker |-> None]
  /\ snap' = [w \in Worker |-> NoRow]
  /\ code' = [w \in Worker |-> NULL]
  /\ request' = [c \in Client |-> "idle"]
  /\ asked' = [c \in Client |-> None]
  /\ read' = [c \in Client |-> NoRow]
  /\ result' = [n \in Notification |-> result[n] + acking[n]]
  /\ redelivered' = [n \in Notification |-> redelivered[n] + acking[n]]
  /\ acking' = [n \in Notification |-> 0]
  /\ healthy' = [ch \in Providers |-> TRUE]
  /\ UNCHANGED <<row, queue, enqueued, retry, dlq, delivered, manual,
                 requests, errors>>

\* Redis restarts from its last save to disk, which may be old: what was on the
\* queue then is on it again, whatever has become of it since.
RedisRestarts ==
  /\ \E saved \in SUBSET enqueued :
       /\ queue' = saved
       /\ dropped' = (dropped \cup queue) \ saved
       /\ redelivered' = [n \in Notification |->
                            redelivered[n] + OneIf(n \in saved \ queue)]
  /\ crashes < MaxCrashes
  /\ crashes' = crashes + 1
  /\ UNCHANGED <<row, creating, broker, outside, workers, clients,
                 delivered, manual, requests, errors>>

-----------------------------------------------------------------------------
\* One round of _worker_loop, as far as it goes without a fault.
WorkerProgress(w) ==
  \/ Dequeue(w) \/ GetById(w) \/ UpdateQueued(w) \/ HealthCheck(w)
  \/ SendSucceeds(w) \/ SendFails(w) \/ MarkSent(w) \/ MarkFailed(w)
  \/ ScheduleRetry(w) \/ ExhaustRetries(w) \/ PublishRetry(w) \/ SendToDlq(w)

Next ==
  \/ \E n \in Notification :
       \/ InsertRow(n) \/ EnqueueNew(n) \/ EnqueueNewFails(n)
       \/ ExpireRetry(n) \/ OnRetryEvent(n) \/ AckRetry(n)
       \/ AckRetryFails(n) \/ RetryEventFails(n)
  \/ \E w \in Worker : \/ WorkerProgress(w)
                       \/ DequeueLost(w) \/ PublishRetryFails(w)
                       \/ SendToDlqFails(w) \/ WorkerError(w)
  \/ \E c \in Client : \/ ReadForRetry(c) \/ UpdatePending(c)
                       \/ RetryEnqueue(c) \/ RequestError(c)
  \/ \E ch \in Providers : SimulateDowntime(ch) \/ SimulateRecovery(ch)
  \/ Crash \/ RedisRestarts

Spec == Init /\ [][Next]_vars

\* The event loop runs every coroutine that is ready, RabbitMQ expires every
\* TTL and delivers every message: those steps are weakly fair.  Nothing
\* makes a client call, a provider recover or a fault happen.
Fairness ==
  /\ \A w \in Worker : WF_vars(WorkerProgress(w))
  /\ \A n \in Notification : /\ WF_vars(EnqueueNew(n))
                             /\ WF_vars(ExpireRetry(n))
                             /\ WF_vars(OnRetryEvent(n))
                             /\ WF_vars(AckRetry(n))
  /\ \A c \in Client : /\ WF_vars(UpdatePending(c))
                       /\ WF_vars(RetryEnqueue(c))

FairSpec == Spec /\ Fairness

-----------------------------------------------------------------------------
(* Safety.                                                                 *)

\* The workers whose round may still end in a send, now or after a retry.
Attempting == Working \ {"mark_sent", "mark_failed"}
AttemptingOn(n) == {w \in Worker : pc[w] \in Attempting /\ held[w] = n}

Attempts(n)  == Cardinality(AttemptingOn(n))
Enqueues(n)  == Cardinality(EnqueueingOf(n))

\* The places from which one more send of n can come, counted.
Copies(n) ==
  OneIf(n \in creating) + OneIf(n \in queue) + retry[n] + result[n]
    + Attempts(n) + Enqueues(n)

\* What entitles n to be sent: its creation, each manual retry, and each
\* retry message that RabbitMQ had to deliver a second time.
Extra(n)   == manual[n] + redelivered[n]
Permits(n) == OneIf(row[n].status # ABSENT) + Extra(n)

\* A notification is never delivered more often than it was created, manually
\* retried or redelivered by the broker: whatever the workers, the TTL and the
\* consumers do, a send that was made is a chance to send that is used up.
DeliveriesPermitted ==
  \A n \in Notification : delivered[n] + Copies(n) <= Permits(n)

\* The same step by step, as a refinement: the engine implements the abstract
\* DeliveryPermits.  A step that sends uses up exactly one copy of exactly one
\* notification, and no step makes a copy that was not permitted.
Promise == INSTANCE DeliveryPermits WITH
             permits <- [n \in Notification |-> Permits(n)],
             chances <- [n \in Notification |-> Copies(n)]

DeliveryPromise == Promise!Spec

\* Wherever an id is found in the engine its row is in the table: the branches
\* of dispatch and _on_retry_event for a missing row are dead.
KnownId ==
  \A n \in Notification :
    \/ n \in creating \cup queue \cup enqueued
    \/ retry[n] + result[n] + acking[n] + dlq[n] > 0
    \/ \E w \in Worker : held[w] = n
    \/ \E c \in Client : asked[c] = n
    => row[n].status # ABSENT

\* The audit trail tells the truth: a row that says SENT, or carries the id the
\* provider gave, is a notification that a provider has accepted.
SentWasDelivered ==
  \A n \in Notification :
    /\ row[n].status = "SENT" => row[n].external_id
    /\ row[n].external_id => delivered[n] > 0

\* What SentWasDelivered rests on: a worker records a delivery only after one,
\* and no session believes in a delivery that the table does not show.
DeliveryRecorded ==
  /\ \A w \in Worker : /\ pc[w] = "mark_sent" => delivered[held[w]] > 0
                       /\ pc[w] = "dequeue" => ~snap[w].external_id
                       /\ snap[w].external_id => row[held[w]].external_id
  /\ \A c \in Client : /\ request[c] = "idle" => ~read[c].external_id
                       /\ read[c].external_id => row[asked[c]].external_id

\* Automatic retries never exceed max_retries: the counter only passes it by
\* the attempts that manual retries add, though every worker counts on a copy
\* of the row that another session may have overtaken.
RetryBudget ==
  \A n \in Notification : row[n].retry_count <= MaxRetries + manual[n]

\* ... and so do those copies.  A session holds one from the read that opens
\* its work to the commit that ends it.
CopiesInBudget ==
  /\ \A w \in Worker : pc[w] \notin {"dequeue", "get_by_id"} =>
       snap[w].retry_count <= MaxRetries + manual[held[w]]
  /\ \A c \in Client : request[c] = "update_pending" =>
       read[c].retry_count <= MaxRetries + manual[asked[c]]

\* A notification that is not settled is somewhere in the engine, waiting or
\* being worked on, unless one of the faults dropped it: there is no other way
\* for dispatch, the TTL or the consumers to leave it behind.
NothingForgotten ==
  \A n \in Notification :
    row[n].status \in Live =>
      \/ n \in creating \cup queue \cup dropped
      \/ retry[n] + result[n] > 0
      \/ WorkingOn(n) # {}
      \/ EnqueueingOf(n) # {}

\* As long as nobody intervenes, the place a notification is in and the status
\* its row shows agree: a message waits for its TTL only while the row says
\* RETRYING, and only a row that is FAILED with its retries used up is in the
\* dead letter queue, at most once.
PlaceAgreesWithStatus ==
  \A n \in Notification : Extra(n) = 0 =>
    /\ retry[n] + result[n] > 0 => row[n].status = "RETRYING"
    /\ n \in queue => row[n].status \in {"PENDING", "RETRYING"}
    /\ dlq[n] > 0 => /\ dlq[n] = 1
                     /\ row[n].status = "FAILED"
                     /\ row[n].retry_count = MaxRetries

(* Action properties.                                                      *)

LifecycleStep(n) ==
  LET was == row[n].status  is == row'[n].status IN
    \/ was = is
    \/ was = ABSENT     /\ is = "PENDING"
    \/ was = "PENDING"  /\ is \in {"QUEUED", "FAILED"}
    \/ was = "QUEUED"   /\ is \in Settled \cup {"RETRYING"}
    \/ was = "RETRYING" /\ is = "QUEUED"

\* As long as nobody intervenes, a row moves only along the status lifecycle,
\* never leaves SENT or FAILED, and its retry_count grows by one exactly when
\* it becomes RETRYING.
Lifecycle ==
  [][\A n \in Notification : Extra(n)' = 0 =>
       /\ LifecycleStep(n)
       /\ row'[n].retry_count = row[n].retry_count
            + OneIf(row'[n].status = "RETRYING" /\ row[n].status # "RETRYING")]_vars

(* Liveness.                                                               *)

\* Every notification that is not settled gets settled, or was dropped by a
\* fault; also with a provider that stays down, since the retries run out.
EventuallySettled ==
  \A n \in Notification :
    row[n].status \in Live ~> row[n].status \in Settled \/ n \in dropped

\* A notification whose retries are used up reaches the dead letter queue,
\* unless a fault hits the publish or the process in between.
ExhaustedReachesDlq ==
  \A n \in Notification :
    (\E w \in Worker : pc[w] = "send_to_dlq" /\ held[w] = n)
      ~> dlq[n] > 0 \/ errors + crashes > 0

(* What the documentation promises and the code does not keep.             *)

\* A notification is never sent twice (README.md:45).
NeverSentTwice == \A n \in Notification : delivered[n] <= 1

\* A crash in the middle of processing loses no notification: one that is not
\* settled is on some queue or in some coroutine's hands (README.md:44).
NoneLostByCrash ==
  \A n \in Notification :
    row[n].status \in Live => \/ n \in creating \cup queue
                              \/ retry[n] + result[n] > 0
                              \/ WorkingOn(n) # {} \/ EnqueueingOf(n) # {}

=============================================================================

-------------------------------- MODULE Intake --------------------------------
(***************************************************************************)
(* How an event becomes notifications: the consumer of notification.queue  *)
(* (RabbitMQHandler._on_new_event) and POST /notifications, both of which  *)
(* call NotificationManager.create_notification.  It takes the idempotency *)
(* key in Redis, inserts one row per channel and enqueues each row.        *)
(*                                                                         *)
(* A caller is one RabbitMQ message or one HTTP request.  Up to 100        *)
(* messages are in hand at once, beside any number of requests, and every  *)
(* await is a point where another caller may run, the process may crash,   *)
(* or the call may fail.                                                   *)
(***************************************************************************)
EXTENDS NotificationRequest, FiniteSets

CONSTANTS
  Message,          \* messages producers publish, duplicates included
  Request,          \* calls of POST /notifications
  Key,              \* idempotency keys
  KeyOf,            \* the key in the body of each message and request
  BodyOf,           \* and the rest of the body
  CountsDeliveries, \* whether the broker sends x-delivery-count (a quorum
                    \* queue does, a classic one does not; the code's
                    \* declare_queue leaves the type to the broker)
  MaxExpiries,      \* bound: idempotency keys that reach the end of their TTL
  MaxCrashes,       \* bound: crashes of the service process
  MaxErrors         \* bound: calls to Redis, the database or RabbitMQ that fail

MAX_DELIVERY_ATTEMPTS == 3

Caller == Message \cup Request

ASSUME IntakeAssumption ==
  /\ Message \cap Request = {}
  /\ IsFiniteSet(Message) /\ IsFiniteSet(Request)
  /\ KeyOf \in [Caller -> Key]
  /\ BodyOf \in [Caller -> Payload]
  /\ CountsDeliveries \in BOOLEAN
  /\ MaxExpiries \in Nat /\ MaxCrashes \in Nat /\ MaxErrors \in Nat

VARIABLES
  at,         \* what each caller does next
  todo,       \* channels its loop has still to do, the current one first
  deliveries, \* times the broker has delivered each message, as far as it matters
  key,        \* the idem: keys in Redis
  rows,       \* the notifications table: <<idempotency key, channel>> pairs
  enqueued,   \* history: times each row was put on the Redis queue
  hurt,       \* history: keys one of whose callers met a fault
  expired,    \* history: keys that expired, or that Redis lost or lost the TTL of
  expiries, crashes, errors   \* how much of each bound is used up

history == <<enqueued, hurt, expired>>
vars == <<at, todo, deliveries, key, rows, history, expiries, crashes, errors>>

\* waiting: not sent yet; queued: in notification.queue; done: acked, or
\* answered 201 or 409; refused: nacked for good, or answered 4xx or 500.
Step == {"waiting", "queued", "setnx", "expire", "create", "enqueue", "ack",
         "nack", "done", "refused"}

\* The coroutine of the caller holds the key it has taken.
Creating == {"expire", "create", "enqueue"}

Event(c) == BodyOf[c].event
Row(c)   == <<KeyOf[c], Head(todo[c])>>

TypeOK ==
  /\ at \in [Caller -> Step]
  /\ todo \in [Caller -> Seq(NotificationChannel)]
  /\ \A c \in Caller : at[c] \in {"create", "enqueue"} => todo[c] # <<>>
  /\ deliveries \in [Message -> 0 .. MAX_DELIVERY_ATTEMPTS + 1]
  /\ key \in [Key -> {"absent", "held", "expiring"}]
  /\ rows \subseteq Key \X NotificationChannel
  /\ enqueued \in [Key \X NotificationChannel -> Nat]
  /\ hurt \subseteq Key /\ expired \subseteq Key
  /\ expiries \in Nat /\ crashes \in Nat /\ errors \in Nat

Init ==
  /\ at = [c \in Caller |-> "waiting"]
  /\ todo = [c \in Caller |-> <<>>]
  /\ deliveries = [m \in Message |-> 0]
  /\ key = [k \in Key |-> "absent"]
  /\ rows = {}
  /\ enqueued = [r \in Key \X NotificationChannel |-> 0]
  /\ hurt = {} /\ expired = {}
  /\ expiries = 0 /\ crashes = 0 /\ errors = 0

-----------------------------------------------------------------------------
Goto(c, step) == at' = [at EXCEPT ![c] = step]

Accepted(c) == BodyOf[c].complete /\ Validates(BodyOf[c])

\* A producer publishes the message, or a client posts the request.
Send(c) ==
  /\ at[c] = "waiting"
  /\ \/ c \in Message /\ Goto(c, "queued")
     \/ c \in Request /\ Accepted(c) /\ Goto(c, "setnx")
     \/ c \in Request /\ ~Accepted(c) /\ Goto(c, "refused")
  /\ UNCHANGED <<todo, deliveries, key, rows, history, expiries, crashes, errors>>

\* _on_new_event, up to its first await.  A body that does not parse, or misses a
\* key, is nacked at once; one the validators refuse raises a ValidationError.
Deliver(m) ==
  /\ at[m] = "queued"
  /\ deliveries' = [deliveries EXCEPT
                      ![m] = IF @ > MAX_DELIVERY_ATTEMPTS THEN @ ELSE @ + 1]
  /\ \/ ~BodyOf[m].complete /\ Goto(m, "refused")
     \/ BodyOf[m].complete /\ ~Validates(BodyOf[m]) /\ Goto(m, "nack")
     \/ Accepted(m) /\ Goto(m, "setnx")
  /\ UNCHANGED <<todo, key, rows, history, expiries, crashes, errors>>

\* Mutant: the header is looked up under a name the broker does not send.
DeliveryCountUnread(m) == 0

\* The header counts the deliveries before this one.
DeliveryCount(m) == IF CountsDeliveries THEN deliveries[m] - 1 ELSE 0

Requeue(m) ==
  /\ at[m] = "nack"
  /\ DeliveryCount(m) < MAX_DELIVERY_ATTEMPTS
  /\ Goto(m, "queued")
  /\ UNCHANGED <<todo, deliveries, key, rows, history, expiries, crashes, errors>>

GiveUp(m) ==
  /\ at[m] = "nack"
  /\ DeliveryCount(m) >= MAX_DELIVERY_ATTEMPTS
  /\ Goto(m, "refused")
  /\ UNCHANGED <<todo, deliveries, key, rows, history, expiries, crashes, errors>>

-----------------------------------------------------------------------------
(* create_notification.                                                    *)

\* Mutant: a GET and a SET instead of SETNX, overtaken by another caller.
SetKeyUnchecked(c) ==
  /\ at[c] = "setnx"
  /\ key' = [key EXCEPT ![KeyOf[c]] = "held"]
  /\ Goto(c, "expire")
  /\ UNCHANGED <<todo, deliveries, rows, history, expiries, crashes, errors>>

SetKey(c) ==
  /\ at[c] = "setnx"
  /\ \/ /\ key[KeyOf[c]] = "absent"
        /\ key' = [key EXCEPT ![KeyOf[c]] = "held"]
        /\ Goto(c, "expire")
     \/ /\ key[KeyOf[c]] # "absent"
        /\ Goto(c, "ack")
        /\ UNCHANGED key
  /\ UNCHANGED <<todo, deliveries, rows, history, expiries, crashes, errors>>

\* Mutant: the key is taken and never given a TTL.
NoExpireKey(c) ==
  /\ at[c] = "expire"
  /\ todo' = [todo EXCEPT ![c] = EVENT_CHANNEL_MAP[Event(c)]]
  /\ Goto(c, "create")
  /\ UNCHANGED <<deliveries, key, rows, history, expiries, crashes, errors>>

\* EXPIRE does nothing to a key that is gone.
ExpireKey(c) ==
  /\ at[c] = "expire"
  /\ key' = [key EXCEPT ![KeyOf[c]] = IF @ = "absent" THEN @ ELSE "expiring"]
  /\ todo' = [todo EXCEPT ![c] = EVENT_CHANNEL_MAP[Event(c)]]
  /\ Goto(c, "create")
  /\ UNCHANGED <<deliveries, rows, history, expiries, crashes, errors>>

\* Mutant: the end of the loop is noticed one channel late.
NextChannelLate(c) ==
  /\ todo' = [todo EXCEPT ![c] = Tail(@)]
  /\ Goto(c, IF todo[c] = <<>> THEN "ack" ELSE "create")

\* Mutant: the return statement has slipped into the loop.
NextChannelNever(c) ==
  /\ todo' = [todo EXCEPT ![c] = <<>>]
  /\ Goto(c, "ack")

\* The loop goes on with the next channel, or the caller is answered.
NextChannel(c) ==
  /\ todo' = [todo EXCEPT ![c] = Tail(@)]
  /\ Goto(c, IF Tail(todo[c]) = <<>> THEN "ack" ELSE "create")

\* Mutant: the unique constraint is gone, and a row is upserted.
ViolatesNever(c) == ~HasRecipient(BodyOf[c], Head(todo[c]))

\* The INSERT violates a constraint: UNIQUE(idempotency_key), or NOT NULL of the
\* recipient.  Either is an IntegrityError, and means a duplicate to the code.
Violates(c) == Row(c) \in rows \/ ~HasRecipient(BodyOf[c], Head(todo[c]))

Create(c) ==
  /\ at[c] = "create"
  /\ ~Violates(c)
  /\ rows' = rows \cup {Row(c)}
  /\ Goto(c, "enqueue")
  /\ UNCHANGED <<todo, deliveries, key, history, expiries, crashes, errors>>

CreateViolates(c) ==
  /\ at[c] = "create"
  /\ Violates(c)
  /\ NextChannel(c)
  /\ UNCHANGED <<deliveries, key, rows, history, expiries, crashes, errors>>

Enqueue(c) ==
  /\ at[c] = "enqueue"
  /\ enqueued' = [enqueued EXCEPT ![Row(c)] = @ + 1]
  /\ NextChannel(c)
  /\ UNCHANGED <<deliveries, key, rows, hurt, expired, expiries, crashes, errors>>

\* message.ack(), or the answer to the request.
Finish(c) ==
  /\ at[c] = "ack"
  /\ Goto(c, "done")
  /\ UNCHANGED <<todo, deliveries, key, rows, history, expiries, crashes, errors>>

-----------------------------------------------------------------------------
(* Faults.                                                                 *)

Fault(c) ==
  /\ errors < MaxErrors
  /\ errors' = errors + 1
  /\ hurt' = hurt \cup {KeyOf[c]}

\* enqueue catches the error and returns FALSE, which nobody looks at.
EnqueueFails(c) ==
  /\ at[c] = "enqueue"
  /\ Fault(c)
  /\ NextChannel(c)
  /\ UNCHANGED <<deliveries, key, rows, enqueued, expired, expiries, crashes>>

\* Any other call raises: a message is nacked, a request answered with 500.  When
\* it is the ack that fails, the channel is gone and the broker takes back the
\* message.  What the call was to change may have changed (a lost reply): for
\* SETNX and the INSERT this leaves the key taken, or the row not enqueued.
CallRaises(c) ==
  /\ at[c] \in {"setnx", "expire", "create", "ack"}
  /\ Fault(c)
  /\ todo' = [todo EXCEPT ![c] = <<>>]
  /\ Goto(c, IF c \in Request THEN "refused"
             ELSE IF at[c] = "ack" THEN "queued" ELSE "nack")
  /\ \/ UNCHANGED <<key, rows>>
     \/ /\ at[c] = "setnx" /\ key[KeyOf[c]] = "absent"
        /\ key' = [key EXCEPT ![KeyOf[c]] = "held"]
        /\ UNCHANGED rows
     \/ /\ at[c] = "create" /\ ~Violates(c)
        /\ rows' = rows \cup {Row(c)}
        /\ UNCHANGED key
  /\ UNCHANGED <<deliveries, enqueued, expired, expiries, crashes>>

InHand == {c \in Caller : at[c] \notin {"waiting", "queued", "done", "refused"}}

\* RabbitMQ takes back every message that was not acked.
Crash ==
  /\ crashes < MaxCrashes
  /\ crashes' = crashes + 1
  /\ hurt' = hurt \cup {KeyOf[c] : c \in InHand}
  /\ at' = [c \in Caller |-> IF c \notin InHand THEN at[c]
                             ELSE IF c \in Message THEN "queued" ELSE "refused"]
  /\ todo' = [c \in Caller |-> <<>>]
  /\ UNCHANGED <<deliveries, key, rows, enqueued, expired, expiries, errors>>

\* 24 hours after EXPIRE.
KeyExpires(k) ==
  /\ key[k] = "expiring"
  /\ expiries < MaxExpiries
  /\ expiries' = expiries + 1
  /\ expired' = expired \cup {k}
  /\ key' = [key EXCEPT ![k] = "absent"]
  /\ UNCHANGED <<at, todo, deliveries, rows, enqueued, hurt, crashes, errors>>

\* What a snapshot taken earlier may say of a key: there are no deletions but by
\* the TTL, which goes on while Redis is down.
Saved(value) == CASE value = "absent"   -> {"absent"}
                  [] value = "held"     -> {"absent", "held"}
                  [] value = "expiring" -> {"absent", "held", "expiring"}

\* Redis restarts from its last snapshot, or empty: docker-compose.yml gives it
\* neither a named volume nor an append-only file.  Keys, or their TTL alone, are
\* lost.
RedisRestarts ==
  /\ errors < MaxErrors
  /\ errors' = errors + 1
  /\ key' \in [Key -> {"absent", "held", "expiring"}]
  /\ \A k \in Key : key'[k] \in Saved(key[k])
  /\ expired' = expired \cup {k \in Key : key'[k] # key[k]}
  /\ UNCHANGED <<at, todo, deliveries, rows, enqueued, hurt, expiries, crashes>>

-----------------------------------------------------------------------------
\* What the coroutine of a caller does, as far as it goes without a fault.
Progress(c) ==
  \/ SetKey(c) \/ ExpireKey(c) \/ Create(c) \/ CreateViolates(c) \/ Enqueue(c)
  \/ Finish(c)

Handling(m) == Deliver(m) \/ Requeue(m) \/ GiveUp(m)

Next ==
  \/ \E c \in Caller : \/ Send(c) \/ Progress(c)
                       \/ EnqueueFails(c) \/ CallRaises(c)
  \/ \E m \in Message : Handling(m)
  \/ Crash \/ RedisRestarts
  \/ \E k \in Key : KeyExpires(k)

Spec == Init /\ [][Next]_vars

\* The event loop runs every coroutine that is ready, and RabbitMQ delivers what
\* is in the queue.  Nothing makes a producer publish or a fault happen.
FairSpec ==
  /\ Spec
  /\ \A c \in Caller : WF_vars(Progress(c))
  /\ \A m \in Message : WF_vars(Handling(m))

-----------------------------------------------------------------------------
(* Safety.                                                                 *)

Wanted(c) == {KeyOf[c]} \X Channels(Event(c))

\* Somebody's loop has the row still before it.
Underway(r) ==
  \E c \in Caller : /\ KeyOf[c] = r[1]
                    /\ \/ at[c] = "expire" /\ r \in Wanted(c)
                       \/ \E i \in DOMAIN todo[c] : todo[c][i] = r[2]

\* Whatever is published, posted, redelivered or repeated after the key has
\* expired or Redis has lost it, a notification enters the Redis queue at most once.
EnqueuedOnce == \A r \in Key \X NotificationChannel : enqueued[r] <= 1

\* What EnqueuedOnce rests on: only rows in the table were ever enqueued, and
\* the INSERT gives every row to the one caller that will enqueue it.
RowOwned ==
  /\ \A r \in Key \X NotificationChannel : enqueued[r] > 0 => r \in rows
  /\ \A c \in Caller : at[c] = "enqueue" =>
       /\ Row(c) \in rows /\ enqueued[Row(c)] = 0
       /\ \A d \in Caller \ {c} : at[d] = "enqueue" => Row(d) # Row(c)

\* The first layer alone: as long as a key is not gone, only the caller that
\* took it gets past it, and nobody follows when that one fails.
OneCreator ==
  \A k \in Key \ expired :
    Cardinality({c \in Caller : KeyOf[c] = k /\ at[c] \in Creating}) <= 1

\* An event that was accepted is not lost without a fault: when a caller has
\* been told that it is done, be it as the creator or as a duplicate, each of
\* the event's channels has a row that was enqueued, or will have.
DoneIsDone ==
  \A c \in Caller : at[c] = "done" =>
    \/ KeyOf[c] \in hurt
    \/ \A r \in Wanted(c) : enqueued[r] > 0 \/ Underway(r)

\* A key is not taken for ever: only a fault between SETNX and EXPIRE, or a
\* snapshot of Redis taken there, leaves one without a TTL.
KeysExpire ==
  \A k \in Key : key[k] = "held" =>
    \/ k \in hurt \cup expired
    \/ \E c \in Caller : KeyOf[c] = k /\ at[c] = "expire"

(* Refinement.                                                             *)

Feed == INSTANCE RowFeed WITH
  Notification <- Key \X NotificationChannel,
  present  <- rows,
  creating <- {Row(c) : c \in {d \in Caller : at[d] = "enqueue"}},
  fed      <- {r \in Key \X NotificationChannel : enqueued[r] > 0}

\* The intake implements RowFeed, which is what Dispatch assumes of it: a row is
\* enqueued by the caller that inserted it, next, or never.
FeedsDispatch == Feed!Spec

(* Liveness.                                                               *)

\* Every message leaves notification.queue: it is acked or given up.
MessagesLeave ==
  \A m \in Message : at[m] = "queued" ~> at[m] \in {"done", "refused"}

\* Every row an accepted event asks for gets onto the Redis queue, unless a
\* fault met one of the callers that had its key.
EventsArrive ==
  \A c \in Caller : Accepted(c) =>
    (at[c] # "waiting" ~> \/ KeyOf[c] \in hurt
                          \/ \A r \in Wanted(c) : enqueued[r] > 0)

(* What the code and its documentation promise and the code does not keep. *)

\* No notification is lost: an event whose message was acked has all its rows, or
\* somebody is creating them (README.md:44).
NoEventLost ==
  \A m \in Message : at[m] = "done" =>
    \A r \in Wanted(m) : r \in rows \/ Underway(r)

\* A message that cannot be processed is given up after MAX_DELIVERY_ATTEMPTS
\* deliveries (rabbitmq_handler.py:131-136).
PoisonGivenUp ==
  \A m \in Message : ~Accepted(m) => (at[m] = "queued" ~> at[m] = "refused")
=============================================================================

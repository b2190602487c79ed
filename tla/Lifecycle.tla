------------------------------- MODULE Lifecycle -------------------------------
(***************************************************************************)
(* The service from start-up to shutdown: lifespan, the worker pool and    *)
(* RabbitMQHandler as they are started and stopped around one another,     *)
(* with the workers publishing retries through RetryPublisher.             *)
(*                                                                         *)
(* A notification is reduced to the place it is in, and the places to how  *)
(* many are there: what happens to one of them in detail is in Dispatch.   *)
(* Redis and RabbitMQ keep what they hold while the service is down.       *)
(***************************************************************************)
EXTENDS Integers, FiniteSets

CONSTANTS
  Worker, Callables, MaxCalls, MaxFaults,
  Total,       \* notifications in the Redis queue at the first start
  MaxRestarts  \* bound: starts after the first

ASSUME LifecycleAssumption ==
  /\ IsFiniteSet(Worker)
  /\ Callables \subseteq BOOLEAN
  /\ MaxCalls \in Nat /\ MaxFaults \in Nat
  /\ Total \in Nat /\ MaxRestarts \in Nat

VARIABLES
  callable, connection, channel, connections, channels, made,
  step, mine, hit, calls, failed, faults,  \* those of RetryPublisher
  phase,      \* what lifespan does next
  loop,       \* what each worker's _worker_loop does next
  listening,  \* RabbitMQHandler._running
  consumers,  \* the queues that have a consumer
  bound,      \* the retry exchange and notification.retry.result are declared
  queued,     \* in the Redis queue
  retry,      \* in notification.retry
  result,     \* in notification.retry.result, not delivered
  handling,   \* delivered to _on_retry_event, not yet enqueued and acked
  settled,    \* done with: SENT or FAILED
  stuck,      \* left RETRYING by a publish that failed
  unroutable, \* history: retries that expired before there was a queue for them
  doubled,    \* history: retries enqueued whose message went back to the queue
  restarts

Publisher == INSTANCE RetryPublisher

publisher == <<callable, connection, channel, connections, channels, made,
               step, mine, hit, calls, failed, faults>>
idlePublisher == <<callable, connection, channel, connections, channels, made,
                   step, mine, hit, calls, failed>>
handler  == <<listening, consumers, bound>>
messages == <<queued, retry, result, handling, settled, stuck, unroutable, doubled>>
vars == <<publisher, phase, loop, handler, messages, restarts>>

Starting == {"create_all", "connect", "declare", "consume_new", "consume_retry"}
Stopping == {"gather", "close_handler", "close_publisher", "dispose", "exited"}
Phase    == Starting \cup {"serving"} \cup Stopping
LoopStep == {"no_task", "dequeue", "dispatch", "ended"}

TypeOK ==
  /\ Publisher!TypeOK
  /\ phase \in Phase
  /\ loop \in [Worker -> LoopStep]
  /\ \A w \in Worker : step[w] # "idle" => loop[w] = "dispatch"
  /\ listening \in BOOLEAN /\ consumers \subseteq {"new", "retry"} /\ bound \in BOOLEAN
  /\ queued \in Nat /\ retry \in Nat /\ result \in Nat /\ handling \in Nat
  /\ settled \in Nat /\ stuck \in Nat /\ unroutable \in Nat /\ doubled \in Nat
  /\ restarts \in 0..MaxRestarts

Init ==
  /\ Publisher!Init
  /\ phase = "create_all"
  /\ loop = [w \in Worker |-> "no_task"]
  /\ listening = FALSE /\ consumers = {} /\ bound = FALSE
  /\ queued = Total /\ retry = 0 /\ result = 0 /\ handling = 0
  /\ settled = 0 /\ stuck = 0 /\ unroutable = 0 /\ doubled = 0
  /\ restarts = 0

Fault == Publisher!Fault

-----------------------------------------------------------------------------
(* lifespan up to its yield.                                               *)

\* The tables exist, and worker.start() creates the tasks without an await.
CreateAll ==
  /\ phase = "create_all" /\ phase' = "connect"
  /\ loop' = [w \in Worker |-> "dequeue"]
  /\ UNCHANGED <<publisher, handler, messages, restarts>>

\* create_all raises, and the service does not come up.
CreateAllFails ==
  /\ phase = "create_all" /\ phase' = "exited"
  /\ Fault
  /\ UNCHANGED <<idlePublisher, loop, handler, messages, restarts>>

Connect ==
  /\ phase = "connect" /\ phase' = "declare"
  /\ UNCHANGED <<publisher, loop, handler, messages, restarts>>

\* Exchanges, queues and bindings are durable: they outlive the process.
Declare ==
  /\ phase = "declare" /\ phase' = "consume_new"
  /\ bound' = TRUE
  /\ UNCHANGED <<publisher, loop, listening, consumers, messages, restarts>>

ConsumeNew ==
  /\ phase = "consume_new" /\ phase' = "consume_retry"
  /\ consumers' = consumers \cup {"new"}
  /\ UNCHANGED <<publisher, loop, listening, bound, messages, restarts>>

\* Mutant: the consumer of the retries is never registered.
ConsumeRetryForgotten ==
  /\ phase = "consume_retry" /\ phase' = "serving"
  /\ listening' = TRUE
  /\ UNCHANGED <<publisher, loop, consumers, bound, messages, restarts>>

ConsumeRetry ==
  /\ phase = "consume_retry" /\ phase' = "serving"
  /\ consumers' = consumers \cup {"retry"} /\ listening' = TRUE
  /\ UNCHANGED <<publisher, loop, bound, messages, restarts>>

\* RabbitMQHandler.start swallows every exception: the service goes on with
\* whatever has been set up so far.
StartFails ==
  /\ phase \in Starting \ {"create_all"} /\ phase' = "serving"
  /\ Fault
  /\ UNCHANGED <<idlePublisher, loop, handler, messages, restarts>>

-----------------------------------------------------------------------------
(* lifespan after its yield.                                               *)

\* Mutant: stop() ends the loops, not what they are awaiting.
StopEndsLoops ==
  /\ phase = "serving" /\ phase' = "gather"
  /\ loop' = [w \in Worker |-> "ended"]
  /\ UNCHANGED <<publisher, handler, messages, restarts>>

\* worker.stop() clears _running.
Stop ==
  /\ phase = "serving" /\ phase' = "gather"
  /\ UNCHANGED <<publisher, loop, handler, messages, restarts>>

\* Mutant: stop() does not wait for the tasks.
NotGathered == phase = "gather"

Gathered == phase = "gather" /\ \A w \in Worker : loop[w] = "ended"

StopWorkers ==
  /\ Gathered
  /\ phase' = "close_handler"
  /\ UNCHANGED <<publisher, loop, handler, messages, restarts>>

\* The connection of the consumers is closed, or its close raises, which ends
\* lifespan.  RabbitMQ takes back what was not acked; a handler that still
\* runs may get as far as the enqueue before the process ends.
CloseHandler ==
  /\ phase = "close_handler"
  /\ \/ phase' = "close_publisher" /\ UNCHANGED faults
     \/ phase' = "exited" /\ Fault
  /\ listening' = FALSE /\ consumers' = {}
  /\ result' = result + handling /\ handling' = 0
  /\ \E k \in 0..handling : queued' = queued + k /\ doubled' = doubled + k
  /\ UNCHANGED <<idlePublisher, loop, bound, retry, settled, stuck, unroutable, restarts>>

ClosePublisher ==
  /\ phase = "close_publisher" /\ phase' = "dispose"
  /\ Publisher!Close
  /\ UNCHANGED <<loop, handler, messages, restarts>>

Dispose ==
  /\ phase = "dispose" /\ phase' = "exited"
  /\ UNCHANGED <<publisher, loop, handler, messages, restarts>>

Restart ==
  /\ phase = "exited" /\ phase' = "create_all"
  /\ restarts < MaxRestarts /\ restarts' = restarts + 1
  /\ Publisher!ProcessEnds
  /\ loop' = [w \in Worker |-> "no_task"]
  /\ UNCHANGED <<handler, messages>>

-----------------------------------------------------------------------------
(* The workers.                                                            *)

Running == phase \notin Stopping

\* The end of a round: the loop looks at _running, and dequeues or ends.
NextRound(w) == loop' = [loop EXCEPT ![w] = IF Running THEN "dequeue" ELSE "ended"]

Dequeue(w) ==
  /\ loop[w] = "dequeue" /\ queued > 0
  /\ queued' = queued - 1
  /\ loop' = [loop EXCEPT ![w] = "dispatch"]
  /\ UNCHANGED <<publisher, phase, handler, retry, result, handling, settled, stuck,
                 unroutable, doubled, restarts>>

\* Mutant: BZPOPMIN waits until there is something to pop.
DequeueForEver(w) ==
  /\ loop[w] = "dequeue" /\ Fault
  /\ NextRound(w)
  /\ UNCHANGED <<idlePublisher, phase, handler, messages, restarts>>

\* dequeue() returns None after a second, or at once when Redis fails.
DequeueNothing(w) ==
  /\ loop[w] = "dequeue"
  /\ \/ queued = 0 /\ UNCHANGED faults
     \/ Fault
  /\ NextRound(w)
  /\ UNCHANGED <<idlePublisher, phase, handler, messages, restarts>>

\* A dispatch that ends without a retry.
Settle(w) ==
  /\ loop[w] = "dispatch" /\ step[w] = "idle"
  /\ settled' = settled + 1
  /\ NextRound(w)
  /\ UNCHANGED <<publisher, phase, handler, queued, retry, result, handling, stuck,
                 unroutable, doubled, restarts>>

\* One that schedules a retry.
StartPublish(w) ==
  /\ loop[w] = "dispatch" /\ Publisher!Start(w)
  /\ UNCHANGED <<phase, loop, handler, messages, restarts>>

GetChannel(w) ==
  /\ Publisher!Connected(w) \/ Publisher!Opened(w)
  /\ UNCHANGED <<phase, loop, handler, messages, restarts>>

Publish(w) ==
  /\ Publisher!Publish(w)
  /\ retry' = retry + 1
  /\ NextRound(w)
  /\ UNCHANGED <<phase, handler, queued, result, handling, settled, stuck, unroutable,
                 doubled, restarts>>

PublishFails(w) ==
  /\ loop[w] = "dispatch" /\ Publisher!Failure(w)
  /\ stuck' = stuck + 1
  /\ NextRound(w)
  /\ UNCHANGED <<phase, handler, queued, retry, result, handling, settled, unroutable,
                 doubled, restarts>>

Break ==
  /\ Publisher!Break
  /\ UNCHANGED <<phase, loop, handler, messages, restarts>>

-----------------------------------------------------------------------------
(* RabbitMQ and the consumer of the retries.                               *)

\* A message whose TTL is over goes to the retry exchange, if there is one.
ExpireRetry ==
  /\ retry > 0 /\ retry' = retry - 1
  /\ \/ bound /\ result' = result + 1 /\ UNCHANGED unroutable
     \/ ~bound /\ unroutable' = unroutable + 1 /\ UNCHANGED result
  /\ UNCHANGED <<publisher, phase, loop, handler, queued, handling, settled, stuck,
                 doubled, restarts>>

DeliverRetry ==
  /\ "retry" \in consumers /\ result > 0
  /\ result' = result - 1 /\ handling' = handling + 1
  /\ UNCHANGED <<publisher, phase, loop, handler, queued, retry, settled, stuck,
                 unroutable, doubled, restarts>>

OnRetryEvent ==
  /\ handling > 0
  /\ handling' = handling - 1 /\ queued' = queued + 1
  /\ UNCHANGED <<publisher, phase, loop, handler, retry, result, settled, stuck,
                 unroutable, doubled, restarts>>

-----------------------------------------------------------------------------
Round(w) == \/ Dequeue(w) \/ DequeueNothing(w) \/ Settle(w) \/ StartPublish(w)
            \/ GetChannel(w) \/ Publish(w) \/ PublishFails(w)
Start    == CreateAll \/ Connect \/ Declare \/ ConsumeNew \/ ConsumeRetry
Shutdown == StopWorkers \/ CloseHandler \/ ClosePublisher \/ Dispose
Retries  == ExpireRetry \/ DeliverRetry \/ OnRetryEvent

Next ==
  \/ Start \/ CreateAllFails \/ StartFails
  \/ Stop \/ Shutdown \/ Restart
  \/ \E w \in Worker : Round(w)
  \/ Break \/ Retries

Spec == Init /\ [][Next]_vars

\* Every coroutine that can go on does; RabbitMQ expires and delivers.  Nothing
\* makes the service stop or start again.
Fairness ==
  /\ WF_vars(Start) /\ WF_vars(Shutdown)
  /\ \A w \in Worker : WF_vars(Round(w))
  /\ WF_vars(ExpireRetry) /\ WF_vars(DeliverRetry) /\ WF_vars(OnRetryEvent)

FairSpec == Spec /\ Fairness

-----------------------------------------------------------------------------
InHand == Cardinality({w \in Worker : loop[w] = "dispatch"})

\* A stop and a restart leave nothing behind: the workers finish what they have
\* popped before anything is closed, and a retry whose handler is cut off goes
\* back to its queue.  Every notification is accounted for by the place it is in
\* and the faults met, also when the service is down.
StopLosesNothing ==
  LET there == queued + retry + result + handling + settled + stuck + unroutable
  IN  IF phase = "exited" THEN there = Total + doubled
                          ELSE there + InHand = Total + doubled

\* The shutdown never takes the connection away from a call, nor does another
\* worker: a retry is only lost to a fault, or to is_closed().
FailsOnlyByFault == [][failed' > failed => Publisher!Explained]_vars

\* Workers that meet an empty cache at the same time each make a connection of
\* which all but one are never closed; but that is all: connections are reused,
\* and only a failure or a fault can make the workers connect anew.
ConnectionsBounded ==
  Cardinality(connections) <= Cardinality(Worker) * (1 + failed + faults)

\* A service that is told to stop does stop, with an empty queue or a full one.
StopTerminates == phase = "gather" ~> phase = "exited"

\* Once RabbitMQHandler has started, retries do not stay with RabbitMQ.
RetriesComeBack == <>[]listening => []<>(retry + result + handling = 0)
=============================================================================

----------------------------- MODULE RetryPublisher -----------------------------
(***************************************************************************)
(* publish_retry and the connection to RabbitMQ that all workers share:    *)
(* get_rabbitmq_channel caches one connection and one channel and mends    *)
(* them when it finds them closed.  Every await is a point where another   *)
(* worker may run and change the cache.                                    *)
(*                                                                         *)
(* get_rabbitmq_channel calls is_closed like a method.  Where aio_pika has *)
(* it as a property the call raises a TypeError whenever something is      *)
(* cached; callable says which of the two the installed aio_pika is.       *)
(***************************************************************************)
EXTENDS Integers, FiniteSets

CONSTANTS
  Worker,     \* coroutines that call publish_retry
  Callables,  \* what callable may be
  MaxCalls,   \* bound: calls of publish_retry
  MaxFaults   \* bound: connections, channels and calls that break

VARIABLES
  callable,     \* is_closed can be called
  connection,   \* _rmq_connection, 0 when it is None
  channel,      \* _rmq_channel, <<connection, number>>, NoChannel when it is None
  connections,  \* connections of this process that are open
  channels,     \* channels of this process that are open
  made,         \* history: connections and channels made, to number them
  step,         \* what each worker's publish_retry does next
  mine,         \* the connection or channel its coroutine goes on with
  hit,          \* history: something broke under the call it is in
  calls,        \* history: calls made
  failed,       \* history: calls answered FALSE
  faults        \* how much of MaxFaults is used up

cache   == <<connection, channel, connections, channels, made>>
callers == <<step, mine, hit>>
vars == <<callable, cache, callers, calls, failed, faults>>

NoChannel == <<0, 0>>
PublishStep == {"idle", "connect", "open_channel", "publish"}

TypeOK ==
  /\ callable \in Callables
  /\ connection \in 0..made /\ channel \in (0..made) \X (0..made)
  /\ connections \subseteq 1..made /\ channels \subseteq (1..made) \X (1..made)
  /\ made \in Nat
  /\ step \in [Worker -> PublishStep]
  /\ mine \in [Worker -> (0..made) \X (0..made)]
  /\ hit \in [Worker -> BOOLEAN]
  /\ calls \in 0..MaxCalls /\ failed \in Nat /\ faults \in 0..MaxFaults

Init ==
  /\ callable \in Callables
  /\ connection = 0 /\ channel = NoChannel
  /\ connections = {} /\ channels = {} /\ made = 0
  /\ step = [w \in Worker |-> "idle"]
  /\ mine = [w \in Worker |-> NoChannel]
  /\ hit = [w \in Worker |-> FALSE]
  /\ calls = 0 /\ failed = 0 /\ faults = 0

-----------------------------------------------------------------------------
Fault == faults < MaxFaults /\ faults' = faults + 1

Goto(w, s, m) ==
  /\ step' = [step EXCEPT ![w] = s]
  /\ mine' = [mine EXCEPT ![w] = m]

\* publish_retry returns, and what it held is forgotten.
Return(w) == Goto(w, "idle", NoChannel) /\ hit' = [hit EXCEPT ![w] = FALSE]

\* An exception in get_rabbitmq_channel empties the cache, whoever filled it.
Reset == connection' = 0 /\ channel' = NoChannel

FailGetChannel(w) ==
  /\ Reset /\ Return(w) /\ failed' = failed + 1
  /\ UNCHANGED <<callable, connections, channels, made>>

\* The synchronous look at the cache that opens every call.
Look(w) ==
  \/ /\ connection = 0 \/ (callable /\ connection \notin connections)
     /\ Goto(w, "connect", NoChannel)
  \/ /\ callable /\ connection \in connections
     /\ channel \notin channels
     /\ Goto(w, "open_channel", <<connection, 0>>)
  \/ /\ callable /\ connection \in connections
     /\ channel \in channels
     /\ Goto(w, "publish", channel)

Start(w) ==
  /\ step[w] = "idle" /\ calls < MaxCalls
  /\ calls' = calls + 1
  /\ Look(w)
  /\ UNCHANGED <<callable, cache, hit, failed, faults>>

\* is_closed() raises: nothing is awaited, the call fails at once.
StartRaises(w) ==
  /\ step[w] = "idle" /\ calls < MaxCalls
  /\ calls' = calls + 1
  /\ connection # 0 /\ ~callable
  /\ FailGetChannel(w)
  /\ UNCHANGED faults

\* Mutant: the new connection is not remembered.
ConnectedForgotten(w) ==
  /\ step[w] = "connect"
  /\ made' = made + 1
  /\ connections' = connections \cup {made'}
  /\ Goto(w, "open_channel", <<made', 0>>)
  /\ UNCHANGED <<callable, connection, channel, channels, hit, calls, failed, faults>>

Connected(w) ==
  /\ step[w] = "connect"
  /\ made' = made + 1
  /\ connections' = connections \cup {made'} /\ connection' = made'
  /\ Goto(w, "open_channel", <<made', 0>>)
  /\ UNCHANGED <<callable, channel, channels, hit, calls, failed, faults>>

Opened(w) ==
  /\ step[w] = "open_channel" /\ mine[w][1] \in connections
  /\ made' = made + 1
  /\ channel' = <<mine[w][1], made'>>
  /\ channels' = channels \cup {channel'}
  /\ Goto(w, "publish", channel')
  /\ UNCHANGED <<callable, connection, connections, hit, calls, failed, faults>>

\* connect_robust or channel() raises, the latter also because the connection
\* broke meanwhile.
GetChannelFails(w) ==
  /\ step[w] \in {"connect", "open_channel"}
  /\ FailGetChannel(w)
  /\ \/ Fault
     \/ step[w] = "open_channel" /\ mine[w][1] \notin connections /\ UNCHANGED faults
  /\ UNCHANGED calls

\* Mutant: the cached channel is read again after the await.
UsableNow(w) == channel \in channels

\* The channel that declare_queue and publish go through.
Usable(w) == mine[w] \in channels

Publish(w) ==
  /\ step[w] = "publish" /\ Usable(w)
  /\ Return(w)
  /\ UNCHANGED <<callable, cache, calls, failed, faults>>

\* declare_queue or publish raises; the cache is left as it is.
PublishFails(w) ==
  /\ step[w] = "publish"
  /\ Return(w) /\ failed' = failed + 1
  /\ Fault \/ (~Usable(w) /\ UNCHANGED faults)
  /\ UNCHANGED <<callable, cache, calls>>

\* A connection breaks with all its channels, or one channel does.
Break ==
  /\ Fault
  /\ \/ \E c \in connections :
          /\ connections' = connections \ {c}
          /\ channels' = {h \in channels : h[1] # c}
     \/ \E h \in channels : channels' = channels \ {h} /\ UNCHANGED connections
  /\ hit' = [w \in Worker |->
               \/ hit[w]
               \/ mine[w] \in channels \ channels'
               \/ mine[w][1] \in connections \ connections']
  /\ UNCHANGED <<callable, connection, channel, made, step, mine, calls, failed>>

\* close_rabbitmq at shutdown: nothing is closed when nothing is cached, when
\* the connection is closed already, or when is_closed() raises.
Close ==
  /\ \/ /\ callable /\ connection \in connections
        /\ connections' = connections \ {connection}
        /\ channels' = {h \in channels : h[1] # connection}
        /\ Reset
     \/ /\ ~(callable /\ connection \in connections)
        /\ UNCHANGED <<connection, channel, connections, channels>>
  /\ UNCHANGED <<callable, made, callers, calls, failed, faults>>

\* The process is gone, and with it its connections and its cache.
ProcessEnds ==
  /\ Reset
  /\ connections' = {} /\ channels' = {} /\ made' = 0
  /\ step' = [w \in Worker |-> "idle"]
  /\ mine' = [w \in Worker |-> NoChannel]
  /\ hit' = [w \in Worker |-> FALSE]
  /\ UNCHANGED <<callable, calls, failed, faults>>

Progress(w) == Start(w) \/ Connected(w) \/ Opened(w) \/ Publish(w)
Failure(w)  == StartRaises(w) \/ GetChannelFails(w) \/ PublishFails(w)

Next == Break \/ \E w \in Worker : Progress(w) \/ Failure(w)

Spec == Init /\ [][Next]_vars

-----------------------------------------------------------------------------
\* Something broke under the call, or is_closed cannot be called.
Explained ==
  \/ faults' > faults
  \/ ~callable
  \/ \E w \in Worker : hit[w] /\ step[w] # "idle" /\ step'[w] = "idle"

\* "Reuses connections instead of creating new ones per message"
\* (queue_service.py:43), said of one worker and no fault.
ReusesConnection == Cardinality(connections) <= 1
=============================================================================

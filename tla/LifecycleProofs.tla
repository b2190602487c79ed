---------------------------- MODULE LifecycleProofs ----------------------------
(***************************************************************************)
(* Proofs about Lifecycle, and RetryPublisher within it, for every number  *)
(* of workers, notifications and restarts and every value of the bounds.   *)
(***************************************************************************)
EXTENDS Lifecycle, FiniteSetTheorems, TLAPS

-----------------------------------------------------------------------------
(* Type correctness.                                                       *)

\* What a call of publish_retry does to the cache and to itself keeps the state
\* of RetryPublisher well typed.
LEMMA PublisherTypes ==
  ASSUME Publisher!TypeOK,
         \/ Publisher!Next \/ Publisher!Close \/ Publisher!ProcessEnds
  PROVE  Publisher!TypeOK'
<1> USE LifecycleAssumption
<1> USE DEF Publisher!TypeOK, Publisher!PublishStep, Publisher!NoChannel,
            Publisher!cache, Publisher!callers
<1>1. ASSUME NEW w \in Worker, Publisher!Start(w) PROVE Publisher!TypeOK'
  <2>1. connection' = connection /\ channel' = channel /\ made' = made
        /\ connections' = connections /\ channels' = channels
    BY <1>1 DEF Publisher!Start
  <2>2. \E s \in Publisher!PublishStep, m \in (0..made) \X (0..made) :
          step' = [step EXCEPT ![w] = s] /\ mine' = [mine EXCEPT ![w] = m]
    <3>1. PICK s \in Publisher!PublishStep, m \in (0..made) \X (0..made) : Publisher!Goto(w, s, m)
      BY <1>1 DEF Publisher!Start, Publisher!Look
    <3> QED BY <3>1 DEF Publisher!Goto
  <2> QED BY <1>1, <2>1, <2>2 DEF Publisher!Start
<1>2. ASSUME NEW w \in Worker, Publisher!StartRaises(w) PROVE Publisher!TypeOK'
  BY <1>2 DEF Publisher!StartRaises, Publisher!FailGetChannel, Publisher!Reset,
              Publisher!Return, Publisher!Goto
<1>3. ASSUME NEW w \in Worker, Publisher!Connected(w) PROVE Publisher!TypeOK'
  BY <1>3 DEF Publisher!Connected, Publisher!Goto
<1>4. ASSUME NEW w \in Worker, Publisher!Opened(w) PROVE Publisher!TypeOK'
  <2>1. mine[w][1] \in 1..made
    BY <1>4 DEF Publisher!Opened
  <2>2. channel' \in (1..made') \X (1..made')
    BY <1>4, <2>1 DEF Publisher!Opened
  <2> QED BY <1>4, <2>2 DEF Publisher!Opened, Publisher!Goto
<1>5. ASSUME NEW w \in Worker, Publisher!GetChannelFails(w) PROVE Publisher!TypeOK'
  BY <1>5 DEF Publisher!GetChannelFails, Publisher!FailGetChannel, Publisher!Reset,
              Publisher!Return, Publisher!Goto, Publisher!Fault
<1>6. ASSUME NEW w \in Worker, Publisher!Publish(w) PROVE Publisher!TypeOK'
  BY <1>6 DEF Publisher!Publish, Publisher!Return, Publisher!Goto
<1>7. ASSUME NEW w \in Worker, Publisher!PublishFails(w) PROVE Publisher!TypeOK'
  BY <1>7 DEF Publisher!PublishFails, Publisher!Return, Publisher!Goto, Publisher!Fault
<1>8. CASE Publisher!Break
  <2>1. connections' \subseteq connections /\ channels' \subseteq channels
    BY <1>8 DEF Publisher!Break
  <2>2. hit' \in [Worker -> BOOLEAN]
    BY <1>8 DEF Publisher!Break
  <2>3. faults' \in 0..MaxFaults
    BY <1>8 DEF Publisher!Break, Publisher!Fault
  <2> QED BY <1>8, <2>1, <2>2, <2>3 DEF Publisher!Break
<1>9. CASE Publisher!Close
  <2>1. connections' \subseteq connections /\ channels' \subseteq channels
    BY <1>9 DEF Publisher!Close
  <2>2. connection' \in {0, connection} /\ channel' \in {<<0, 0>>, channel}
    BY <1>9 DEF Publisher!Close, Publisher!Reset
  <2> QED BY <1>9, <2>1, <2>2 DEF Publisher!Close
<1>10. CASE Publisher!ProcessEnds
  BY <1>10 DEF Publisher!ProcessEnds, Publisher!Reset
<1> QED
  BY <1>1, <1>2, <1>3, <1>4, <1>5, <1>6, <1>7, <1>8, <1>9, <1>10
  DEF Publisher!Next, Publisher!Progress, Publisher!Failure

\* Publisher!TypeOK speaks of its own variables only.
LEMMA PublisherIdle ==
  /\ Publisher!TypeOK /\ UNCHANGED publisher => Publisher!TypeOK'
  /\ Publisher!TypeOK /\ UNCHANGED idlePublisher /\ faults' \in 0..MaxFaults
       => Publisher!TypeOK'
BY DEF Publisher!TypeOK, Publisher!PublishStep, publisher, idlePublisher

\* What a fault outside RetryPublisher does to its bound.
LEMMA FaultType ==
  ASSUME Publisher!TypeOK, Publisher!Fault
  PROVE  faults' \in 0..MaxFaults
BY LifecycleAssumption DEF Publisher!TypeOK, Publisher!Fault

\* No task runs before lifespan has started the tasks, or after it has waited
\* for them.
Resting == {"create_all", "close_handler", "close_publisher", "dispose", "exited"}
Quiet   == phase \in Resting => \A w \in Worker : loop[w] \in {"no_task", "ended"}

LEMMA TypeStep == TypeOK /\ Quiet /\ [Next]_vars => TypeOK' /\ Quiet'
<1> SUFFICES ASSUME TypeOK, Quiet, [Next]_vars PROVE TypeOK' /\ Quiet'
  OBVIOUS
<1> USE LifecycleAssumption, FaultType, PublisherIdle, PublisherTypes
<1> USE DEF TypeOK, Quiet, Resting, Phase, Starting, Stopping, LoopStep, handler, messages,
            Fault
<1>1. CASE CreateAll
  <2>1. \A w \in Worker : step[w] = "idle"
    BY <1>1 DEF CreateAll
  <2> QED BY <1>1, <2>1 DEF CreateAll, publisher
<1>2. CASE Connect \/ Declare \/ ConsumeNew \/ ConsumeRetry
  BY <1>2 DEF Connect, Declare, ConsumeNew, ConsumeRetry, publisher
<1>3. CASE CreateAllFails \/ StartFails
  BY <1>3 DEF CreateAllFails, StartFails, idlePublisher
<1>4. CASE Stop \/ StopWorkers \/ Dispose
  BY <1>4 DEF Stop, StopWorkers, Gathered, Dispose, publisher
<1>5. CASE CloseHandler
  <2>1. faults' \in 0..MaxFaults
    BY <1>5 DEF CloseHandler, Publisher!TypeOK
  <2>2. step' = step
    BY <1>5 DEF CloseHandler, idlePublisher
  <2>3. Publisher!TypeOK'
    BY <1>5, <2>1 DEF CloseHandler
  <2>4. \A k \in 0..handling : k \in Nat
    OBVIOUS
  <2>5. queued' \in Nat /\ result' \in Nat /\ handling' \in Nat /\ doubled' \in Nat
    BY <1>5, <2>4 DEF CloseHandler
  <2>6. phase' \in Phase /\ phase' \in Resting /\ phase \in Resting
    BY <1>5 DEF CloseHandler
  <2> QED BY <1>5, <2>2, <2>3, <2>5, <2>6 DEF CloseHandler
<1>6. CASE ClosePublisher
  <2>1. step' = step
    BY <1>6 DEF ClosePublisher, Publisher!Close, Publisher!callers
  <2> QED BY <1>6, <2>1 DEF ClosePublisher
<1>7. CASE Restart
  BY <1>7 DEF Restart, Publisher!ProcessEnds
<1>8. ASSUME NEW w \in Worker, Round(w) PROVE TypeOK' /\ Quiet'
  <2>1. loop[w] \in {"dequeue", "dispatch"} /\ phase' = phase
    BY <1>8 DEF Round, Dequeue, DequeueNothing, Settle, StartPublish, GetChannel, Publish,
                PublishFails, Publisher!Connected, Publisher!Opened, Publisher!Publish
  <2>2. Quiet'
    BY <2>1
  <2>3. \A v \in Worker \ {w} : step'[v] = step[v] /\ loop'[v] = loop[v]
    BY <1>8
    DEF Round, Dequeue, DequeueNothing, Settle, StartPublish, GetChannel, Publish, PublishFails,
        NextRound, publisher, idlePublisher, Publisher!TypeOK, Publisher!Failure,
        Publisher!Start, Publisher!Look, Publisher!StartRaises, Publisher!Connected,
        Publisher!Opened, Publisher!GetChannelFails, Publisher!Publish, Publisher!PublishFails,
        Publisher!FailGetChannel, Publisher!Return, Publisher!Goto
  <2>4. CASE Dequeue(w) \/ DequeueNothing(w) \/ Settle(w)
    <3>1. Publisher!TypeOK' /\ step'[w] = "idle"
      BY <2>4 DEF Dequeue, DequeueNothing, Settle, publisher, idlePublisher, Publisher!TypeOK,
                  Publisher!PublishStep
    <3>2. loop' \in [Worker -> LoopStep]
      BY <2>4 DEF Dequeue, DequeueNothing, Settle, NextRound
    <3>3. queued' \in Nat /\ settled' \in Nat
      BY <2>4 DEF Dequeue, DequeueNothing, Settle
    <3> QED BY <2>1, <2>2, <2>3, <2>4, <3>1, <3>2, <3>3 DEF Dequeue, DequeueNothing, Settle
  <2>5. CASE StartPublish(w) \/ GetChannel(w)
    <3>1. Publisher!TypeOK'
      BY <2>5 DEF StartPublish, GetChannel, Publisher!Next, Publisher!Progress
    <3> QED BY <2>1, <2>2, <2>3, <2>5, <3>1
            DEF StartPublish, GetChannel, Publisher!Connected, Publisher!Opened
  <2>6. CASE Publish(w) \/ PublishFails(w)
    <3>1. Publisher!TypeOK'
      BY <2>6 DEF Publish, PublishFails, Publisher!Next, Publisher!Progress
    <3>2. step'[w] = "idle"
      BY <2>6
      DEF Publish, PublishFails, Publisher!TypeOK, Publisher!Failure, Publisher!StartRaises,
          Publisher!GetChannelFails, Publisher!Publish, Publisher!PublishFails,
          Publisher!FailGetChannel, Publisher!Return, Publisher!Goto
    <3>3. loop' \in [Worker -> LoopStep]
      BY <2>6 DEF Publish, PublishFails, NextRound
    <3>4. retry' \in Nat /\ stuck' \in Nat
      BY <2>6 DEF Publish, PublishFails
    <3> QED BY <2>1, <2>2, <2>3, <2>6, <3>1, <3>2, <3>3, <3>4 DEF Publish, PublishFails
  <2> QED BY <1>8, <2>4, <2>5, <2>6 DEF Round
<1>9. CASE Break
  <2>1. Publisher!TypeOK' /\ step' = step
    BY <1>9 DEF Break, Publisher!Break, Publisher!Next
  <2> QED BY <1>9, <2>1 DEF Break
<1>10. CASE Retries
  <2>1. Publisher!TypeOK' /\ step' = step
    BY <1>10 DEF Retries, ExpireRetry, DeliverRetry, OnRetryEvent, publisher
  <2>2. /\ queued' \in Nat /\ retry' \in Nat /\ result' \in Nat /\ handling' \in Nat
        /\ unroutable' \in Nat
    BY <1>10 DEF Retries, ExpireRetry, DeliverRetry, OnRetryEvent
  <2> QED
    BY <1>10, <2>1, <2>2 DEF Retries, ExpireRetry, DeliverRetry, OnRetryEvent
<1>11. CASE UNCHANGED vars
  BY <1>11 DEF vars, publisher
<1> QED
  BY <1>1, <1>2, <1>3, <1>4, <1>5, <1>6, <1>7, <1>8, <1>9, <1>10, <1>11
  DEF Next, Start, Shutdown

LEMMA TypeInit == Init => TypeOK /\ Quiet
<1> SUFFICES ASSUME Init PROVE TypeOK /\ Quiet
  OBVIOUS
<1>1. Publisher!TypeOK
  BY LifecycleAssumption DEF Init, Publisher!Init, Publisher!TypeOK, Publisher!PublishStep,
                             Publisher!NoChannel
<1>2. \A w \in Worker : step[w] = "idle" /\ loop[w] = "no_task"
  BY DEF Init, Publisher!Init
<1>3. loop \in [Worker -> LoopStep]
  BY DEF Init, LoopStep
<1>4. Quiet
  BY <1>2 DEF Quiet
<1>5. phase \in Phase /\ listening \in BOOLEAN /\ consumers \subseteq {"new", "retry"}
      /\ bound \in BOOLEAN
  BY DEF Init, Phase, Starting
<1>6. /\ queued \in Nat /\ retry \in Nat /\ result \in Nat /\ handling \in Nat
      /\ settled \in Nat /\ stuck \in Nat /\ unroutable \in Nat /\ doubled \in Nat
      /\ restarts \in 0..MaxRestarts
  BY LifecycleAssumption DEF Init
<1> QED BY <1>1, <1>2, <1>3, <1>4, <1>5, <1>6 DEF TypeOK

\* Every step of start-up, work and shutdown keeps the state well typed; in
\* particular a call of publish_retry is only ever made by a worker in dispatch.
THEOREM TypeCorrect == Spec => []TypeOK
<1>1. Spec => [](TypeOK /\ Quiet)
  BY TypeInit, TypeStep, PTL DEF Spec
<1> QED BY <1>1, PTL

-----------------------------------------------------------------------------
(* A publish fails only by a fault.                                        *)

\* What a call goes on with is open, or it has been hit.
Held ==
  \A w \in Worker :
    /\ step[w] = "open_channel" => hit[w] \/ mine[w][1] \in connections
    /\ step[w] = "publish" => hit[w] \/ mine[w] \in channels

\* Steps of RetryPublisher proper.
LEMMA HeldPublisher ==
  ASSUME Publisher!TypeOK, Held, Publisher!Next
  PROVE  Held' /\ (failed' > failed => Publisher!Explained)
<1> USE DEF Publisher!TypeOK, Publisher!PublishStep, Held, Publisher!cache, Publisher!callers
<1>1. ASSUME NEW w \in Worker, Publisher!Start(w) PROVE Held' /\ failed' = failed
  BY <1>1 DEF Publisher!Start, Publisher!Look, Publisher!Goto
<1>2. ASSUME NEW w \in Worker, Publisher!StartRaises(w) PROVE Held' /\ ~callable
  BY <1>2 DEF Publisher!StartRaises, Publisher!FailGetChannel, Publisher!Return,
              Publisher!Goto
<1>3. ASSUME NEW w \in Worker, Publisher!Connected(w) PROVE Held' /\ failed' = failed
  BY <1>3 DEF Publisher!Connected, Publisher!Goto
<1>4. ASSUME NEW w \in Worker, Publisher!Opened(w) PROVE Held' /\ failed' = failed
  BY <1>4 DEF Publisher!Opened, Publisher!Goto
<1>5. ASSUME NEW w \in Worker, Publisher!GetChannelFails(w)
      PROVE  Held' /\ Publisher!Explained
  <2>1. step'[w] = "idle"
    BY <1>5 DEF Publisher!GetChannelFails, Publisher!FailGetChannel, Publisher!Return,
                Publisher!Goto
  <2>2. Held'
    BY <1>5 DEF Publisher!GetChannelFails, Publisher!FailGetChannel, Publisher!Return,
                Publisher!Goto
  <2>3. CASE Publisher!Fault
    BY <2>2, <2>3, LifecycleAssumption DEF Publisher!Fault, Publisher!Explained
  <2>4. CASE ~ Publisher!Fault
    <3>1. step[w] = "open_channel" /\ mine[w][1] \notin connections
      BY <1>5, <2>4 DEF Publisher!GetChannelFails
    <3> QED BY <2>1, <2>2, <3>1 DEF Publisher!Explained
  <2> QED BY <2>2, <2>3, <2>4
<1>6. ASSUME NEW w \in Worker, Publisher!Publish(w) PROVE Held' /\ failed' = failed
  BY <1>6 DEF Publisher!Publish, Publisher!Return, Publisher!Goto
<1>7. ASSUME NEW w \in Worker, Publisher!PublishFails(w)
      PROVE  Held' /\ Publisher!Explained
  <2>1. step'[w] = "idle"
    BY <1>7 DEF Publisher!PublishFails, Publisher!Return, Publisher!Goto
  <2>2. Held'
    BY <1>7 DEF Publisher!PublishFails, Publisher!Return, Publisher!Goto
  <2>3. CASE Publisher!Fault
    BY <2>2, <2>3, LifecycleAssumption DEF Publisher!Fault, Publisher!Explained
  <2>4. CASE ~ Publisher!Fault
    <3>1. step[w] = "publish" /\ mine[w] \notin channels
      BY <1>7, <2>4 DEF Publisher!PublishFails, Publisher!Usable
    <3> QED BY <2>1, <2>2, <3>1 DEF Publisher!Explained
  <2> QED BY <2>2, <2>3, <2>4
<1>8. ASSUME Publisher!Break PROVE Held' /\ failed' = failed
  <2>1. step' = step /\ mine' = mine /\ failed' = failed
    BY <1>8 DEF Publisher!Break
  <2>2. ASSUME NEW w \in Worker
        PROVE  /\ hit[w] => hit'[w]
               /\ mine[w] \in channels \ channels' => hit'[w]
               /\ mine[w][1] \in connections \ connections' => hit'[w]
    BY <1>8 DEF Publisher!Break
  <2> QED BY <2>1, <2>2
<1> QED
  BY <1>1, <1>2, <1>3, <1>4, <1>5, <1>6, <1>7, <1>8
  DEF Publisher!Next, Publisher!Progress, Publisher!Failure, Publisher!Explained

\* A step of Lifecycle is one of RetryPublisher, where calls are only made while
\* the service runs, or leaves RetryPublisher alone but for a fault.
Ending == {"dispose", "exited"}

LEMMA PublisherSteps ==
  ASSUME TypeOK, Quiet, [Next]_vars
  PROVE  \/ Publisher!Next /\ phase' = phase /\ (phase \in Ending => Publisher!Break)
         \/ /\ UNCHANGED idlePublisher /\ (faults' = faults \/ Fault)
            /\ phase \in Ending => phase' \in Ending
         \/ ClosePublisher
         \/ Restart
<1> USE DEF publisher, idlePublisher, Ending, Fault
<1>1. CASE Start \/ CreateAllFails \/ StartFails \/ Stop
  BY <1>1
  DEF Start, CreateAll, Connect, Declare, ConsumeNew, ConsumeRetry, CreateAllFails, StartFails,
      Stop, Starting
<1>2. CASE StopWorkers \/ CloseHandler \/ Dispose \/ Retries \/ UNCHANGED vars
  BY <1>2
  DEF StopWorkers, Gathered, CloseHandler, Dispose, Retries, ExpireRetry, DeliverRetry,
      OnRetryEvent, vars
<1>3. ASSUME NEW w \in Worker, Round(w)
      PROVE  /\ phase' = phase /\ phase \notin Ending
             /\ Publisher!Next \/ (UNCHANGED idlePublisher /\ (faults' = faults \/ Fault))
  <2>1. loop[w] \in {"dequeue", "dispatch"} /\ phase' = phase
    BY <1>3
    DEF Round, Dequeue, DequeueNothing, Settle, StartPublish, GetChannel, Publish,
        PublishFails, TypeOK, Publisher!Connected, Publisher!Opened, Publisher!Publish
  <2>2. Publisher!Next \/ (UNCHANGED idlePublisher /\ (faults' = faults \/ Fault))
    BY <1>3
    DEF Round, Dequeue, DequeueNothing, Settle, StartPublish, GetChannel, Publish,
        PublishFails, Publisher!Next, Publisher!Progress
  <2> QED BY <2>1, <2>2 DEF Quiet, Resting
<1>4. CASE Break
  BY <1>4 DEF Break, Publisher!Next
<1> QED BY <1>1, <1>2, <1>3, <1>4 DEF Next, Shutdown

\* The connection is only closed when no call is under way.
LEMMA HeldStep ==
  ASSUME TypeOK, Quiet, Held, [Next]_vars
  PROVE  Held' /\ (failed' > failed => Publisher!Explained)
<1> USE DEF TypeOK
<1>1. CASE Publisher!Next
  BY <1>1, HeldPublisher
<1>2. CASE UNCHANGED idlePublisher
  BY <1>2 DEF idlePublisher, Held, Publisher!TypeOK
<1>3. CASE ClosePublisher
  <2>1. \A w \in Worker : step[w] = "idle"
    BY <1>3 DEF ClosePublisher, Quiet, Resting
  <2>2. step' = step /\ failed' = failed
    BY <1>3 DEF ClosePublisher, Publisher!Close, Publisher!callers
  <2> QED BY <2>1, <2>2 DEF Held, Publisher!TypeOK
<1>4. CASE Restart
  BY <1>4 DEF Restart, Publisher!ProcessEnds, Held, Publisher!TypeOK
<1> QED BY <1>1, <1>2, <1>3, <1>4, PublisherSteps

\* However calls of publish_retry interleave on the cached connection, and
\* whenever the service is told to stop, a publish only fails by a fault under
\* it, or because is_closed cannot be called.
THEOREM FailsOnlyByFaultHolds == Spec => FailsOnlyByFault
<1>1. Init => Held
  BY DEF Init, Held, Publisher!Init
<1>2. TypeOK /\ Quiet /\ Held /\ [Next]_vars => TypeOK' /\ Quiet' /\ Held'
  BY TypeStep, HeldStep
<1>3. TypeOK /\ Quiet /\ Held /\ [Next]_vars => [failed' > failed => Publisher!Explained]_vars
  BY HeldStep
<1> QED BY <1>1, <1>2, <1>3, TypeInit, PTL DEF Spec, FailsOnlyByFault

-----------------------------------------------------------------------------
(* Nothing is lost.                                                        *)

Dispatching == {w \in Worker : loop[w] = "dispatch"}

\* StopLosesNothing at all times: Quiet says that nobody dispatches at the end.
Balance ==
  queued + retry + result + handling + settled + stuck + unroutable + InHand = Total + doubled

LEMMA InHandType ==
  /\ IsFiniteSet(Dispatching) /\ InHand = Cardinality(Dispatching) /\ InHand \in Nat
  /\ IsFiniteSet(Dispatching') /\ InHand' = Cardinality(Dispatching') /\ InHand' \in Nat
<1>1. IsFiniteSet(Dispatching) /\ IsFiniteSet(Dispatching')
  BY LifecycleAssumption, FS_Subset DEF Dispatching
<1> QED BY <1>1, FS_CardinalityType DEF InHand, Dispatching

LEMMA NobodyInHand ==
  /\ (\A w \in Worker : loop[w] # "dispatch") => InHand = 0
  /\ (\A w \in Worker : loop'[w] # "dispatch") => InHand' = 0
BY FS_EmptySet, InHandType DEF Dispatching

LEMMA HandSame == loop' = loop => InHand' = InHand
BY DEF InHand

\* A worker begins to dispatch, or ends.
LEMMA HandChanges ==
  ASSUME TypeOK, NEW w \in Worker, NEW s, loop' = [loop EXCEPT ![w] = s]
  PROVE  /\ loop[w] # "dispatch" /\ s = "dispatch" => InHand' = InHand + 1
         /\ loop[w] = "dispatch" /\ s # "dispatch" => InHand' = InHand - 1
         /\ loop[w] # "dispatch" /\ s # "dispatch" => InHand' = InHand
<1> USE DEF TypeOK
<1>1. CASE loop[w] # "dispatch" /\ s = "dispatch"
  <2>1. Dispatching' = Dispatching \cup {w} /\ w \notin Dispatching
    BY <1>1 DEF Dispatching
  <2> QED BY <1>1, <2>1, InHandType, FS_AddElement
<1>2. CASE loop[w] = "dispatch" /\ s # "dispatch"
  <2>1. Dispatching' = Dispatching \ {w} /\ w \in Dispatching
    BY <1>2 DEF Dispatching
  <2> QED BY <1>2, <2>1, InHandType, FS_RemoveElement
<1>3. CASE loop[w] # "dispatch" /\ s # "dispatch"
  <2>1. Dispatching' = Dispatching
    BY <1>3 DEF Dispatching
  <2> QED BY <1>3, <2>1, InHandType
<1> QED BY <1>1, <1>2, <1>3

LEMMA BalanceStep ==
  ASSUME TypeOK, Quiet, Balance, [Next]_vars
  PROVE  Balance'
<1> USE InHandType, LifecycleAssumption DEF TypeOK, Balance, messages
<1>1. CASE CreateAll
  BY <1>1, NobodyInHand DEF CreateAll, Quiet, Resting
<1>2. CASE \/ Connect \/ Declare \/ ConsumeNew \/ ConsumeRetry \/ CreateAllFails \/ StartFails
          \/ Stop \/ StopWorkers \/ ClosePublisher \/ Dispose \/ Break
  BY <1>2, HandSame
  DEF Connect, Declare, ConsumeNew, ConsumeRetry, CreateAllFails, StartFails, Stop,
      StopWorkers, ClosePublisher, Dispose, Break
<1>3. CASE CloseHandler
  <2>1. PICK k \in 0..handling : queued' = queued + k /\ doubled' = doubled + k
    BY <1>3 DEF CloseHandler
  <2> QED BY <1>3, <2>1, HandSame DEF CloseHandler
<1>4. CASE Restart
  BY <1>4, NobodyInHand DEF Restart, Quiet, Resting
<1>5. ASSUME NEW w \in Worker, Round(w) PROVE Balance'
  <2>1. CASE Dequeue(w)
    <3>1. InHand' = InHand + 1
      BY <2>1, HandChanges DEF Dequeue
    <3> QED BY <2>1, <3>1 DEF Dequeue
  <2>2. CASE DequeueNothing(w)
    <3>1. PICK s \in {"dequeue", "ended"} : loop' = [loop EXCEPT ![w] = s]
      BY <2>2 DEF DequeueNothing, NextRound
    <3>2. InHand' = InHand
      BY <2>2, <3>1, HandChanges DEF DequeueNothing
    <3> QED BY <2>2, <3>2 DEF DequeueNothing
  <2>3. CASE Settle(w) \/ Publish(w) \/ PublishFails(w)
    <3>1. loop[w] = "dispatch"
      BY <2>3 DEF Settle, Publish, PublishFails, Publisher!Publish
    <3>2. PICK s \in {"dequeue", "ended"} : loop' = [loop EXCEPT ![w] = s]
      BY <2>3 DEF Settle, Publish, PublishFails, NextRound
    <3>3. InHand' = InHand - 1
      BY <3>1, <3>2, HandChanges
    <3> QED BY <2>3, <3>3 DEF Settle, Publish, PublishFails
  <2>4. CASE StartPublish(w) \/ GetChannel(w)
    BY <2>4, HandSame DEF StartPublish, GetChannel
  <2> QED BY <1>5, <2>1, <2>2, <2>3, <2>4 DEF Round
<1>6. CASE Retries
  BY <1>6, HandSame DEF Retries, ExpireRetry, DeliverRetry, OnRetryEvent
<1>7. CASE UNCHANGED vars
  BY <1>7, HandSame DEF vars
<1> QED BY <1>1, <1>2, <1>3, <1>4, <1>5, <1>6, <1>7 DEF Next, Start, Shutdown

\* For any number of workers, notifications, stops and restarts, each
\* notification is somewhere, also when the service has stopped.
THEOREM StopLosesNothingHolds == Spec => []StopLosesNothing
<1>1. Init => Balance
  <2> SUFFICES ASSUME Init PROVE Balance
    OBVIOUS
  <2>1. InHand = 0
    BY NobodyInHand DEF Init
  <2> QED BY <2>1, LifecycleAssumption DEF Init, Balance
<1>2. TypeOK /\ Quiet /\ Balance /\ [Next]_vars => TypeOK' /\ Quiet' /\ Balance'
  BY TypeStep, BalanceStep
<1>3. TypeOK /\ Quiet /\ Balance => StopLosesNothing
  <2> SUFFICES ASSUME TypeOK, Quiet, Balance PROVE StopLosesNothing
    OBVIOUS
  <2>1. phase = "exited" => InHand = 0
    BY NobodyInHand DEF Quiet, Resting
  <2> QED BY <2>1, InHandType DEF Balance, StopLosesNothing, TypeOK
<1> QED BY <1>1, <1>2, <1>3, TypeInit, PTL DEF Spec

-----------------------------------------------------------------------------
(* Connections are reused.                                                 *)

Connecting == {w \in Worker : step[w] = "connect"}
Failures   == failed + faults

\* The connections made and being made stay in budget.  While the service runs,
\* a cache without an open connection leaves a connection for every worker.
InBudget ==
  /\ Cardinality(connections) + Cardinality(Connecting)
       <= Cardinality(Worker) * Failures + Cardinality(Worker)
  /\ connection \notin connections /\ phase \notin {"dispose", "exited"}
       => Cardinality(connections) <= Cardinality(Worker) * Failures

LEMMA Finite ==
  ASSUME NEW m \in Nat, NEW C \in SUBSET (1..m), NEW T \in SUBSET Worker
  PROVE  /\ IsFiniteSet(C) /\ Cardinality(C) \in Nat
         /\ IsFiniteSet(T) /\ Cardinality(T) \in Nat
         /\ Cardinality(T) <= Cardinality(Worker) /\ Cardinality(Worker) \in Nat
<1>1. IsFiniteSet(1..m)
  BY FS_Interval
<1>2. IsFiniteSet(C)
  BY <1>1, FS_Subset
<1>3. IsFiniteSet(T) /\ Cardinality(T) <= Cardinality(Worker)
  BY LifecycleAssumption, FS_Subset
<1> QED BY <1>2, <1>3, LifecycleAssumption, FS_CardinalityType

LEMMA Numbers ==
  ASSUME TypeOK
  PROVE  /\ IsFiniteSet(connections) /\ Cardinality(connections) \in Nat
         /\ IsFiniteSet(Connecting) /\ Cardinality(Connecting) \in Nat
         /\ Cardinality(Connecting) <= Cardinality(Worker)
         /\ Cardinality(Worker) \in Nat /\ Failures \in Nat
<1>1. made \in Nat /\ connections \in SUBSET (1..made) /\ Connecting \in SUBSET Worker
  BY DEF TypeOK, Publisher!TypeOK, Connecting
<1>2. Failures \in Nat
  BY LifecycleAssumption DEF TypeOK, Publisher!TypeOK, Failures
<1> QED BY <1>1, <1>2, Finite

LEMMA NumbersNext ==
  ASSUME TypeOK'
  PROVE  /\ IsFiniteSet(connections') /\ Cardinality(connections') \in Nat
         /\ IsFiniteSet(Connecting') /\ Cardinality(Connecting') \in Nat
         /\ Cardinality(Connecting') <= Cardinality(Worker)
         /\ Failures' \in Nat
<1>1. made' \in Nat /\ connections' \in SUBSET (1..made') /\ Connecting' \in SUBSET Worker
  BY DEF TypeOK, Publisher!TypeOK, Connecting
<1>2. failed' \in Nat /\ faults' \in Nat
  BY LifecycleAssumption DEF TypeOK, Publisher!TypeOK
<1>3. Failures' \in Nat
  <2>1. Failures' = failed' + faults'
    BY DEF Failures
  <2>2. \A a, b \in Nat : a + b \in Nat
    OBVIOUS
  <2> QED BY <1>2, <2>1, <2>2, Zenon
<1> QED BY <1>1, <1>3, Finite

\* One more failure is worth one more connection for every worker.
LEMMA Worth ==
  ASSUME NEW n \in Nat, NEW f \in Nat, NEW g \in Nat, f < g
  PROVE  n * f + n <= n * g
<1>1. PICK d \in Nat : g = f + 1 + d
  <2>1. g - f - 1 \in Nat /\ g = f + 1 + (g - f - 1)
    OBVIOUS
  <2> QED BY <2>1
<1>2. n * g = n * f + n + n * d /\ n * d \in Nat
  BY <1>1
<1> QED BY <1>2

\* The budget after a step, from what the step does to the connections and to
\* the workers that make one.
LEMMA Spent ==
  ASSUME TypeOK, TypeOK', InBudget,
         \/ /\ Cardinality(connections') <= Cardinality(connections)
            /\ Failures < Failures'
         \/ /\ Cardinality(connections') + Cardinality(Connecting')
                 <= Cardinality(connections) + Cardinality(Connecting)
            /\ \/ connection' \in connections'
               \/ phase' \in Ending
               \/ /\ connection \notin connections /\ phase \notin Ending
                  /\ Cardinality(connections') <= Cardinality(connections)
            /\ Failures <= Failures'
  PROVE  InBudget'
<1> DEFINE n == Cardinality(Worker)
<1>1. Failures' \in Nat /\ n \in Nat /\ Failures \in Nat
      /\ Cardinality(connections) \in Nat /\ Cardinality(connections') \in Nat
      /\ Cardinality(Connecting) \in Nat /\ Cardinality(Connecting') \in Nat
      /\ Cardinality(Connecting') <= n
  BY Numbers, NumbersNext
<1>2. Failures < Failures' => n * Failures + n <= n * Failures'
  BY <1>1, Worth
<1>3. Failures <= Failures' => n * Failures <= n * Failures'
  BY <1>1, <1>2
<1>4. n * Failures \in Nat /\ n * Failures' \in Nat
  BY <1>1
<1> HIDE DEF n
<1> QED
  BY <1>1, <1>2, <1>3, <1>4 DEF InBudget, Ending, n

\* The workers about to connect, when one of them takes a step.
LEMMA ConnectingMoves ==
  ASSUME TypeOK, NEW w \in Worker, NEW s, step' = [step EXCEPT ![w] = s]
  PROVE  /\ s # "connect" => Cardinality(Connecting') <= Cardinality(Connecting)
         /\ step[w] = "connect" /\ s # "connect"
              => Cardinality(Connecting') = Cardinality(Connecting) - 1
<1> USE DEF TypeOK, Publisher!TypeOK
<1>1. s # "connect" => Connecting' = Connecting \ {w}
  BY DEF Connecting
<1>2. step[w] = "connect" => w \in Connecting
  BY DEF Connecting
<1> QED BY <1>1, <1>2, Numbers, FS_RemoveElement, FS_Subset

LEMMA InBudgetPublisher ==
  ASSUME TypeOK, TypeOK', InBudget, Publisher!Next, phase' = phase,
         phase \in Ending => Publisher!Break
  PROVE  InBudget'
<1> USE LifecycleAssumption, Numbers, NumbersNext, Spent
<1> USE DEF Failures, Publisher!cache, Publisher!callers
<1>t. /\ failed \in Nat /\ faults \in Nat /\ made \in Nat
      /\ connections \subseteq 1..made /\ 0 \notin connections
      /\ step \in [Worker -> Publisher!PublishStep]
  BY DEF TypeOK, Publisher!TypeOK
<1>1. ASSUME NEW w \in Worker, Publisher!Start(w), phase \notin Ending PROVE InBudget'
  <2>1. connections' = connections /\ connection' = connection /\ failed' = failed
        /\ faults' = faults
    BY <1>1 DEF Publisher!Start
  <2>2. CASE connection \notin connections
    BY <1>1, <2>1, <2>2, Worth DEF InBudget, Ending
  <2>3. CASE connection \in connections
    <3>1. PICK s \in {"open_channel", "publish"} : step' = [step EXCEPT ![w] = s]
      BY <1>1, <1>t, <2>3 DEF Publisher!Start, Publisher!Look, Publisher!Goto
    <3>2. Cardinality(Connecting') <= Cardinality(Connecting)
      BY <3>1, ConnectingMoves
    <3> QED BY <1>t, <2>1, <2>3, <3>2
  <2> QED BY <2>2, <2>3
<1>2. ASSUME NEW w \in Worker, Publisher!StartRaises(w) \/ Publisher!GetChannelFails(w)
      PROVE  InBudget'
  <2>1. connections' = connections /\ failed' = failed + 1
        /\ (faults' = faults \/ faults' = faults + 1)
    BY <1>2 DEF Publisher!StartRaises, Publisher!GetChannelFails, Publisher!FailGetChannel,
                Publisher!Fault
  <2> QED BY <1>t, <2>1
<1>3. ASSUME NEW w \in Worker, Publisher!Connected(w) PROVE InBudget'
  <2>1. /\ step[w] = "connect" /\ step' = [step EXCEPT ![w] = "open_channel"]
        /\ connections' = connections \cup {made + 1} /\ connection' = made + 1
        /\ failed' = failed /\ faults' = faults
    BY <1>3 DEF Publisher!Connected, Publisher!Goto
  <2>2. Cardinality(connections') = Cardinality(connections) + 1
    <3>1. made + 1 \notin connections
      BY <1>t
    <3> QED BY <2>1, <3>1, FS_AddElement
  <2>3. Cardinality(Connecting') = Cardinality(Connecting) - 1
    <3>1. PICK s \in {"open_channel"} : step' = [step EXCEPT ![w] = s]
      BY <2>1
    <3> QED BY <2>1, <3>1, ConnectingMoves
  <2> QED BY <1>t, <2>1, <2>2, <2>3
<1>4. ASSUME NEW w \in Worker, Publisher!Opened(w) \/ Publisher!Publish(w), phase \notin Ending
      PROVE  InBudget'
  <2>1. /\ connections' = connections /\ connection' = connection
        /\ failed' = failed /\ faults' = faults
    BY <1>4 DEF Publisher!Opened, Publisher!Publish
  <2>2. PICK s \in {"publish", "idle"} : step' = [step EXCEPT ![w] = s]
    BY <1>4 DEF Publisher!Opened, Publisher!Publish, Publisher!Return, Publisher!Goto
  <2>3. Cardinality(Connecting') <= Cardinality(Connecting)
    BY <2>2, ConnectingMoves
  <2> QED BY <1>t, <1>4, <2>1, <2>3
<1>5. ASSUME NEW w \in Worker, Publisher!PublishFails(w) PROVE InBudget'
  <2>1. connections' = connections /\ failed' = failed + 1
        /\ (faults' = faults \/ faults' = faults + 1)
    BY <1>5 DEF Publisher!PublishFails, Publisher!Fault
  <2> QED BY <1>t, <2>1
<1>6. CASE Publisher!Break
  <2>1. connections' \subseteq connections /\ failed' = failed /\ faults' = faults + 1
    BY <1>6 DEF Publisher!Break, Publisher!Fault
  <2>2. Cardinality(connections') <= Cardinality(connections)
    BY <2>1, FS_Subset
  <2> QED BY <1>t, <2>1, <2>2
<1> QED
  BY <1>1, <1>2, <1>3, <1>4, <1>5, <1>6
  DEF Publisher!Next, Publisher!Progress, Publisher!Failure

LEMMA InBudgetStep ==
  ASSUME TypeOK, Quiet, InBudget, [Next]_vars
  PROVE  InBudget'
<1> USE TypeStep, Numbers, NumbersNext, Spent, LifecycleAssumption
<1>t. failed \in Nat /\ faults \in Nat
  BY DEF TypeOK, Publisher!TypeOK
<1>1. CASE Publisher!Next /\ phase' = phase /\ (phase \in Ending => Publisher!Break)
  BY <1>1, InBudgetPublisher
<1>2. CASE /\ UNCHANGED idlePublisher /\ (faults' = faults \/ Fault)
           /\ phase \in Ending => phase' \in Ending
  <2>1. connections' = connections /\ connection' = connection /\ Connecting' = Connecting
        /\ failed' = failed /\ (faults' = faults \/ faults' = faults + 1)
    BY <1>2 DEF idlePublisher, Connecting, Fault, Publisher!Fault
  <2> QED BY <1>t, <1>2, <2>1 DEF Failures
<1>3. CASE ClosePublisher
  <2>1. /\ connections' \subseteq connections /\ Connecting' = Connecting
        /\ failed' = failed /\ faults' = faults /\ phase' \in Ending
    BY <1>3 DEF ClosePublisher, Publisher!Close, Publisher!callers, Connecting, Ending
  <2>2. Cardinality(connections') <= Cardinality(connections)
    BY <2>1, FS_Subset
  <2> QED BY <1>t, <2>1, <2>2 DEF Failures
<1>4. CASE Restart
  <2>1. /\ connections' = {} /\ Connecting' = {} /\ failed' = failed /\ faults' = faults
    BY <1>4 DEF Restart, Publisher!ProcessEnds, Connecting
  <2>2. Cardinality(connections') = 0 /\ Cardinality(Connecting') = 0
    BY <2>1, FS_EmptySet
  <2>3. Failures' = Failures /\ Cardinality(Worker) * Failures \in Nat
    BY <2>1 DEF Failures
  <2> QED BY <2>2, <2>3 DEF InBudget
<1> QED BY <1>1, <1>2, <1>3, <1>4, PublisherSteps

\* For any number of workers and calls, the connections open at a time are
\* bounded by what has failed, however often the service is restarted.
THEOREM ConnectionsBoundedHolds == Spec => []ConnectionsBounded
<1>1. Init => InBudget
  <2> SUFFICES ASSUME Init PROVE InBudget
    OBVIOUS
  <2>1. connections = {} /\ Connecting = {} /\ Failures = 0
    BY DEF Init, Publisher!Init, Connecting, Failures
  <2>2. Cardinality(Worker) \in Nat
    BY LifecycleAssumption, FS_CardinalityType
  <2> QED BY <2>1, <2>2, FS_EmptySet DEF InBudget
<1>2. TypeOK /\ Quiet /\ InBudget /\ [Next]_vars => TypeOK' /\ Quiet' /\ InBudget'
  BY TypeStep, InBudgetStep
<1>3. TypeOK /\ InBudget => ConnectionsBounded
  <2> SUFFICES ASSUME TypeOK, InBudget PROVE ConnectionsBounded
    OBVIOUS
  <2>1. Cardinality(Worker) * (1 + failed + faults)
          = Cardinality(Worker) * Failures + Cardinality(Worker)
    BY Numbers, LifecycleAssumption DEF Failures, TypeOK, Publisher!TypeOK
  <2>2. Cardinality(connections) <= Cardinality(Worker) * Failures + Cardinality(Worker)
    <3>1. Cardinality(Worker) * Failures \in Nat
      BY Numbers
    <3> QED BY <3>1, Numbers DEF InBudget
  <2>3. Cardinality(connections) <= Cardinality(Worker) * (1 + failed + faults)
    BY <2>1, <2>2
  <2> QED BY <2>3 DEF ConnectionsBounded
<1> QED BY <1>1, <1>2, <1>3, TypeInit, PTL DEF Spec
=============================================================================

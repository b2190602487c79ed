----------------------------- MODULE IntakeProofs -----------------------------
(***************************************************************************)
(* Proofs about Intake, for every number of messages, requests and keys,   *)
(* every assignment of bodies to them and every value of the bounds.       *)
(***************************************************************************)
EXTENDS Intake, FiniteSetTheorems, TLAPS

-----------------------------------------------------------------------------
(* The channels of an event.                                               *)

LEMMA EventChannels ==
  ASSUME NEW e \in EventType
  PROVE  /\ EVENT_CHANNEL_MAP[e] \in Seq(NotificationChannel)
         /\ EVENT_CHANNEL_MAP[e] # <<>>
<1>1. /\ <<"EMAIL", "SMS", "PUSH">> \in Seq(NotificationChannel)
      /\ <<"SMS">> \in Seq(NotificationChannel)
      /\ <<"EMAIL", "SMS">> \in Seq(NotificationChannel)
      /\ <<"EMAIL", "PUSH">> \in Seq(NotificationChannel)
  BY DEF NotificationChannel
<1>2. /\ <<"EMAIL", "SMS", "PUSH">> # <<>> /\ <<"SMS">> # <<>>
      /\ <<"EMAIL", "SMS">> # <<>> /\ <<"EMAIL", "PUSH">> # <<>>
  OBVIOUS
<1>3. EVENT_CHANNEL_MAP[e] \in
        {<<"EMAIL", "SMS", "PUSH">>, <<"SMS">>, <<"EMAIL", "SMS">>,
         <<"EMAIL", "PUSH">>}
  BY DEF EVENT_CHANNEL_MAP
<1> QED BY <1>1, <1>2, <1>3

LEMMA BodyEvent ==
  ASSUME NEW c \in Caller PROVE Event(c) \in EventType
BY IntakeAssumption DEF Event, Payload

LEMMA RowType ==
  ASSUME TypeOK, NEW c \in Caller, at[c] \in {"create", "enqueue"}
  PROVE  /\ todo[c] \in Seq(NotificationChannel) /\ todo[c] # <<>>
         /\ Row(c) \in Key \X NotificationChannel
<1>1. todo[c] \in Seq(NotificationChannel) /\ todo[c] # <<>>
  BY DEF TypeOK
<1>2. Head(todo[c]) \in NotificationChannel
  BY <1>1
<1> QED BY <1>1, <1>2, IntakeAssumption DEF Row

-----------------------------------------------------------------------------
(* Type correctness.                                                       *)

\* The loop stops exactly when no channel is left.
LEMMA NextChannelType ==
  ASSUME TypeOK, NEW c \in Caller, at[c] \in {"create", "enqueue"}, NextChannel(c)
  PROVE  /\ at' = [at EXCEPT ![c] = at'[c]] /\ at'[c] \in {"ack", "create"}
         /\ todo' \in [Caller -> Seq(NotificationChannel)]
         /\ \A d \in Caller : at'[d] \in {"create", "enqueue"} => todo'[d] # <<>>
<1>1. Tail(todo[c]) \in Seq(NotificationChannel)
  BY RowType
<1>2. /\ todo' = [todo EXCEPT ![c] = Tail(todo[c])]
      /\ at' = [at EXCEPT ![c] = IF Tail(todo[c]) = <<>> THEN "ack" ELSE "create"]
  BY DEF NextChannel, Goto
<1> QED BY <1>1, <1>2 DEF TypeOK

LEMMA TypeStep == TypeOK /\ [Next]_vars => TypeOK'
<1> SUFFICES ASSUME TypeOK, [Next]_vars PROVE TypeOK'
  OBVIOUS
<1> USE IntakeAssumption DEF Caller
<1>1. ASSUME NEW c \in Caller, Send(c) PROVE TypeOK'
  BY <1>1 DEF TypeOK, Send, Goto, Step, history
<1>2. ASSUME NEW m \in Message, Deliver(m) PROVE TypeOK'
  <2>1. deliveries[m] \in 0 .. 4
    BY DEF TypeOK, MAX_DELIVERY_ATTEMPTS
  <2>2. (IF deliveries[m] > 3 THEN deliveries[m] ELSE deliveries[m] + 1) \in 0 .. 4
    BY <2>1
  <2>3. deliveries' \in [Message -> 0 .. MAX_DELIVERY_ATTEMPTS + 1]
    BY <1>2, <2>2 DEF TypeOK, Deliver, MAX_DELIVERY_ATTEMPTS
  <2>4. /\ at' \in [Caller -> Step]
        /\ \A c \in Caller : at'[c] \in {"create", "enqueue"} => at[c] = at'[c]
    BY <1>2 DEF TypeOK, Deliver, Goto, Step
  <2> QED BY <1>2, <2>3, <2>4 DEF TypeOK, Deliver, history
<1>3. ASSUME NEW m \in Message, Requeue(m) \/ GiveUp(m) PROVE TypeOK'
  BY <1>3 DEF TypeOK, Requeue, GiveUp, Goto, Step, history
<1>4. ASSUME NEW c \in Caller, SetKey(c) PROVE TypeOK'
  BY <1>4 DEF TypeOK, SetKey, Goto, Step, history
<1>5. ASSUME NEW c \in Caller, ExpireKey(c) PROVE TypeOK'
  <2>1. /\ EVENT_CHANNEL_MAP[Event(c)] \in Seq(NotificationChannel)
        /\ EVENT_CHANNEL_MAP[Event(c)] # <<>>
    BY EventChannels, BodyEvent
  <2> QED BY <1>5, <2>1 DEF TypeOK, ExpireKey, Goto, Step, history
<1>6. ASSUME NEW c \in Caller, Create(c) PROVE TypeOK'
  <2>1. Row(c) \in Key \X NotificationChannel
    BY <1>6, RowType DEF Create
  <2> QED BY <1>6, <2>1 DEF TypeOK, Create, Goto, Step, history
<1>7. ASSUME NEW c \in Caller, CreateViolates(c) PROVE TypeOK'
  BY <1>7, NextChannelType DEF TypeOK, CreateViolates, Step, history
<1>8. ASSUME NEW c \in Caller, Enqueue(c) PROVE TypeOK'
  <2>1. Row(c) \in Key \X NotificationChannel
    BY <1>8, RowType DEF Enqueue
  <2>2. enqueued' \in [Key \X NotificationChannel -> Nat]
    BY <1>8, <2>1 DEF TypeOK, Enqueue
  <2> QED BY <1>8, <2>2, NextChannelType DEF TypeOK, Enqueue, Step
<1>9. ASSUME NEW c \in Caller, Finish(c) PROVE TypeOK'
  BY <1>9 DEF TypeOK, Finish, Goto, Step, history
<1>10. ASSUME NEW c \in Caller, EnqueueFails(c) PROVE TypeOK'
  <2>1. /\ at' \in [Caller -> Step]
        /\ todo' \in [Caller -> Seq(NotificationChannel)]
        /\ \A d \in Caller : at'[d] \in {"create", "enqueue"} => todo'[d] # <<>>
    BY <1>10, NextChannelType DEF TypeOK, EnqueueFails, Step
  <2>2. hurt' \subseteq Key /\ errors' \in Nat
    BY <1>10 DEF TypeOK, EnqueueFails, Fault
  <2> QED BY <1>10, <2>1, <2>2 DEF TypeOK, EnqueueFails
<1>11. ASSUME NEW c \in Caller, CallRaises(c) PROVE TypeOK'
  <2>1. rows' \subseteq Key \X NotificationChannel
    BY <1>11, RowType DEF TypeOK, CallRaises
  <2>2. key' \in [Key -> {"absent", "held", "expiring"}]
    BY <1>11 DEF TypeOK, CallRaises
  <2>3. /\ at' \in [Caller -> Step]
        /\ at'[c] \notin {"create", "enqueue"}
        /\ \A d \in Caller : d # c => at'[d] = at[d] /\ todo'[d] = todo[d]
        /\ todo' \in [Caller -> Seq(NotificationChannel)]
    BY <1>11 DEF TypeOK, CallRaises, Goto, Step
  <2> QED BY <1>11, <2>1, <2>2, <2>3 DEF TypeOK, CallRaises, Fault
<1>12. ASSUME Crash PROVE TypeOK'
  BY <1>12 DEF TypeOK, Crash, InHand, Step
<1>13. ASSUME NEW k \in Key, KeyExpires(k) PROVE TypeOK'
  BY <1>13 DEF TypeOK, KeyExpires
<1>14. ASSUME RedisRestarts PROVE TypeOK'
  BY <1>14 DEF TypeOK, RedisRestarts
<1>15. CASE UNCHANGED vars
  BY <1>15 DEF TypeOK, vars, history
<1> QED
  BY <1>1, <1>2, <1>3, <1>4, <1>5, <1>6, <1>7, <1>8, <1>9, <1>10, <1>11, <1>12,
     <1>13, <1>14, <1>15 DEF Next, Progress, Handling

\* Type correctness: in particular the loop over the channels never looks at the
\* channel of an empty list, and the delivery counter stays in its range.
THEOREM TypeCorrect == Spec => []TypeOK
<1>1. Init => TypeOK
  BY IntakeAssumption DEF Init, TypeOK, Step, MAX_DELIVERY_ATTEMPTS
<1> QED BY <1>1, TypeStep, PTL DEF Spec

-----------------------------------------------------------------------------
(* A row is enqueued at most once.                                         *)

OwnInv == EnqueuedOnce /\ RowOwned

\* A step that enqueues nothing, and after which nobody is about to enqueue a
\* row who was not before it, leaves every row to its owner.
LEMMA NobodyTakesOver ==
  ASSUME OwnInv, enqueued' = enqueued, rows \subseteq rows',
         \A d \in Caller : at'[d] = "enqueue" =>
                             at[d] = "enqueue" /\ todo'[d] = todo[d]
  PROVE  OwnInv'
<1>1. EnqueuedOnce'
  BY DEF OwnInv, EnqueuedOnce
<1>2. \A r \in Key \X NotificationChannel : enqueued'[r] > 0 => r \in rows'
  BY DEF OwnInv, RowOwned
<1>3. ASSUME NEW d \in Caller, at'[d] = "enqueue" PROVE at[d] = "enqueue" /\ Row(d)' = Row(d)
  BY <1>3 DEF Row
<1> QED BY <1>1, <1>2, <1>3 DEF OwnInv, RowOwned

\* The INSERT succeeds only for a row that is not in the table, so nobody else
\* has enqueued it or is about to.
LEMMA CreateOwns ==
  ASSUME TypeOK, OwnInv, NEW c \in Caller, Create(c)
  PROVE  OwnInv'
<1>1. /\ Row(c) \notin rows /\ Row(c) \in Key \X NotificationChannel
      /\ rows' = rows \cup {Row(c)} /\ todo' = todo /\ enqueued' = enqueued
      /\ at' = [at EXCEPT ![c] = "enqueue"]
  BY RowType DEF Create, Violates, Goto, history
<1>2. enqueued[Row(c)] = 0
  BY <1>1 DEF OwnInv, RowOwned, TypeOK
<1>3. \A d \in Caller : Row(d)' = Row(d)
  BY <1>1 DEF Row
<1>4. \A d \in Caller \ {c} : at'[d] = "enqueue" => at[d] = "enqueue"
  BY <1>1 DEF TypeOK
<1>5. ASSUME NEW d \in Caller, at'[d] = "enqueue"
      PROVE  /\ Row(d) \in rows' /\ enqueued'[Row(d)] = 0
             /\ \A e \in Caller \ {d} : at'[e] = "enqueue" => Row(e) # Row(d)
  BY <1>1, <1>2, <1>4, <1>5 DEF OwnInv, RowOwned
<1>6. RowOwned'
  BY <1>1, <1>3, <1>5 DEF OwnInv, RowOwned
<1>7. EnqueuedOnce'
  BY <1>1 DEF OwnInv, EnqueuedOnce
<1> QED BY <1>6, <1>7 DEF OwnInv

\* The owner enqueues its row for the first time, and then owns it no more.
LEMMA EnqueueOnce ==
  ASSUME TypeOK, OwnInv, NEW c \in Caller, Enqueue(c)
  PROVE  OwnInv'
<1>1. /\ at[c] = "enqueue" /\ rows' = rows
      /\ enqueued' = [enqueued EXCEPT ![Row(c)] = enqueued[Row(c)] + 1]
      /\ Row(c) \in Key \X NotificationChannel
  BY RowType DEF Enqueue
<1>2. /\ at'[c] # "enqueue"
      /\ \A d \in Caller \ {c} : at'[d] = at[d] /\ todo'[d] = todo[d]
  BY NextChannelType DEF Enqueue, NextChannel, TypeOK
<1>3. Row(c) \in rows /\ enqueued[Row(c)] = 0
  BY <1>1 DEF OwnInv, RowOwned
<1>4. \A r \in Key \X NotificationChannel :
        enqueued'[r] = IF r = Row(c) THEN 1 ELSE enqueued[r]
  BY <1>1, <1>3 DEF TypeOK
<1>5. EnqueuedOnce'
  BY <1>4 DEF OwnInv, EnqueuedOnce
<1>6. ASSUME NEW d \in Caller, at'[d] = "enqueue"
      PROVE  /\ d # c /\ at[d] = "enqueue" /\ Row(d)' = Row(d)
             /\ Row(d) # Row(c) /\ Row(d) \in Key \X NotificationChannel
  <2>1. d # c /\ at[d] = "enqueue" /\ Row(d)' = Row(d)
    BY <1>2, <1>6 DEF Row
  <2> QED BY <1>1, <2>1, RowType DEF OwnInv, RowOwned
<1>7. \A r \in Key \X NotificationChannel : enqueued'[r] > 0 => r \in rows'
  BY <1>1, <1>3, <1>4 DEF OwnInv, RowOwned
<1>8. ASSUME NEW d \in Caller, at'[d] = "enqueue"
      PROVE  /\ Row(d)' \in rows' /\ enqueued'[Row(d)'] = 0
             /\ \A e \in Caller \ {d} : at'[e] = "enqueue" => Row(e)' # Row(d)'
  BY <1>1, <1>4, <1>6, <1>8 DEF OwnInv, RowOwned
<1>9. RowOwned'
  BY <1>7, <1>8 DEF RowOwned
<1> QED BY <1>5, <1>9 DEF OwnInv

LEMMA OwnStep == TypeOK /\ OwnInv /\ [Next]_vars => OwnInv'
<1> SUFFICES ASSUME TypeOK, OwnInv, [Next]_vars PROVE OwnInv'
  OBVIOUS
<1> USE DEF TypeOK
<1>1. ASSUME NEW c \in Caller, Send(c) PROVE OwnInv'
  BY <1>1, NobodyTakesOver DEF Send, Goto, history
<1>2. ASSUME NEW m \in Message, Handling(m) PROVE OwnInv'
  BY <1>2, NobodyTakesOver DEF Handling, Deliver, Requeue, GiveUp, Goto, history, Caller
<1>3. ASSUME NEW c \in Caller, SetKey(c) \/ ExpireKey(c) \/ Finish(c) PROVE OwnInv'
  BY <1>3, NobodyTakesOver DEF SetKey, ExpireKey, Finish, Goto, history
<1>4. ASSUME NEW c \in Caller, CreateViolates(c) PROVE OwnInv'
  BY <1>4, NobodyTakesOver DEF CreateViolates, NextChannel, Goto, history
<1>5. ASSUME NEW c \in Caller, EnqueueFails(c) PROVE OwnInv'
  BY <1>5, NobodyTakesOver DEF EnqueueFails, NextChannel, Goto
<1>6. ASSUME NEW c \in Caller, CallRaises(c) PROVE OwnInv'
  BY <1>6, NobodyTakesOver DEF CallRaises, Goto
<1>7. ASSUME Crash PROVE OwnInv'
  BY <1>7, NobodyTakesOver DEF Crash, InHand
<1>8. ASSUME RedisRestarts \/ \E k \in Key : KeyExpires(k) PROVE OwnInv'
  BY <1>8, NobodyTakesOver DEF KeyExpires, RedisRestarts
<1>9. CASE UNCHANGED vars
  BY <1>9, NobodyTakesOver DEF vars, history
<1> QED
  BY <1>1, <1>2, <1>3, <1>4, <1>5, <1>6, <1>7, <1>8, <1>9, CreateOwns, EnqueueOnce
  DEF Next, Progress

LEMMA OwnInvHolds == Spec => []OwnInv
<1>1. Init => OwnInv
  BY DEF Init, OwnInv, EnqueuedOnce, RowOwned
<1> QED BY <1>1, OwnStep, TypeCorrect, PTL DEF Spec

\* A notification is enqueued at most once, whatever is published twice,
\* redelivered, posted again after the key has expired, or cut off by a fault:
\* the unique index makes the caller that inserts a row its only owner.
THEOREM EnqueuedOnceHolds == Spec => []EnqueuedOnce
<1>1. OwnInv => EnqueuedOnce
  BY DEF OwnInv
<1> QED BY <1>1, OwnInvHolds, PTL

\* Nothing is enqueued that is not in the table, and no two callers are ever
\* about to enqueue the same row.
THEOREM RowOwnedHolds == Spec => []RowOwned
<1>1. OwnInv => RowOwned
  BY DEF OwnInv
<1> QED BY <1>1, OwnInvHolds, PTL

-----------------------------------------------------------------------------
(* Intake implements RowFeed.                                              *)

Creators  == {d \in Caller : at[d] = "enqueue"}
Beginning == {Row(c) : c \in Creators}
Enqueued  == {r \in Key \X NotificationChannel : enqueued[r] > 0}

\* Nothing that RowFeed speaks of has changed.
LEMMA FeedStutters ==
  ASSUME rows' = rows, enqueued' = enqueued,
         \A d \in Caller : (at'[d] = "enqueue") = (at[d] = "enqueue"),
         \A d \in Creators : todo'[d] = todo[d]
  PROVE  UNCHANGED Feed!vars
<1>1. Creators' = Creators
  BY DEF Creators
<1>2. \A d \in Creators : Row(d)' = Row(d)
  BY DEF Row
<1>3. {Row(c) : c \in Creators}' = {Row(c) : c \in Creators}
  BY <1>1, <1>2
<1>4. Enqueued' = Enqueued
  BY DEF Enqueued
<1> QED BY <1>3, <1>4 DEF Feed!vars, Creators, Enqueued

\* The owner of a row, and nobody else, has left the step before the enqueue.
LEMMA OwnerLeaves ==
  ASSUME TypeOK, OwnInv, NEW c \in Caller, at[c] = "enqueue", NextChannel(c)
  PROVE  /\ Row(c) \in Beginning /\ Row(c) \in Key \X NotificationChannel
         /\ Beginning' = Beginning \ {Row(c)}
<1>1. /\ at'[c] # "enqueue"
      /\ \A d \in Caller \ {c} : at'[d] = at[d] /\ todo'[d] = todo[d]
  BY NextChannelType DEF NextChannel, TypeOK
<1>2. Creators' = Creators \ {c}
  BY <1>1 DEF Creators
<1>3. \A d \in Creators \ {c} : Row(d)' = Row(d) /\ Row(d) # Row(c)
  BY <1>1 DEF Row, Creators, OwnInv, RowOwned
<1>4. Beginning' = Beginning \ {Row(c)}
  BY <1>2, <1>3 DEF Beginning
<1>5. Row(c) \in Beginning
  BY DEF Beginning, Creators
<1> QED BY <1>4, <1>5, RowType

LEMMA FeedStep == TypeOK /\ OwnInv /\ [Next]_vars => [Feed!Next]_(Feed!vars)
<1> SUFFICES ASSUME TypeOK, OwnInv, [Next]_vars
             PROVE  Feed!Next \/ UNCHANGED Feed!vars
  OBVIOUS
<1>1. ASSUME NEW c \in Caller, Send(c) PROVE UNCHANGED Feed!vars
  BY <1>1, FeedStutters DEF TypeOK, Send, Goto, history
<1>2. ASSUME NEW m \in Message, Handling(m) PROVE UNCHANGED Feed!vars
  BY <1>2, FeedStutters
  DEF TypeOK, Handling, Deliver, Requeue, GiveUp, Goto, history, Caller
<1>3. ASSUME NEW c \in Caller, SetKey(c) \/ ExpireKey(c) \/ Finish(c)
      PROVE  UNCHANGED Feed!vars
  BY <1>3, FeedStutters DEF TypeOK, SetKey, ExpireKey, Finish, Goto, history, Creators
<1>4. ASSUME NEW c \in Caller, CreateViolates(c) PROVE UNCHANGED Feed!vars
  BY <1>4, FeedStutters DEF TypeOK, CreateViolates, NextChannel, Goto, history, Creators
<1>5. ASSUME NEW c \in Caller, Create(c) PROVE Feed!Next
  <2>1. /\ Row(c) \notin rows /\ Row(c) \in Key \X NotificationChannel
        /\ rows' = rows \cup {Row(c)} /\ todo' = todo /\ enqueued' = enqueued
        /\ at' = [at EXCEPT ![c] = "enqueue"]
    BY <1>5, RowType DEF Create, Violates, Goto, history
  <2>2. Creators' = Creators \cup {c}
    BY <2>1 DEF Creators, TypeOK
  <2>3. \A d \in Caller : Row(d)' = Row(d)
    BY <2>1 DEF Row
  <2>4. Beginning' = Beginning \cup {Row(c)}
    BY <2>2, <2>3 DEF Beginning, Creators
  <2>5. Enqueued' = Enqueued
    BY <2>1 DEF Enqueued
  <2>6. PICK r \in Key \X NotificationChannel : r = Row(c)
    BY <2>1
  <2>7. Feed!InsertRow(r)
    BY <2>1, <2>4, <2>5, <2>6 DEF Feed!InsertRow, Beginning, Creators, Enqueued
  <2> QED BY <2>7 DEF Feed!Next
<1>6. ASSUME NEW c \in Caller, Enqueue(c) PROVE Feed!Next
  <2>1. /\ at[c] = "enqueue" /\ rows' = rows
        /\ enqueued' = [enqueued EXCEPT ![Row(c)] = enqueued[Row(c)] + 1]
    BY <1>6 DEF Enqueue
  <2>2. /\ Row(c) \in Beginning /\ Row(c) \in Key \X NotificationChannel
        /\ Beginning' = Beginning \ {Row(c)}
    BY <1>6, <2>1, OwnerLeaves DEF Enqueue
  <2>3. \A r \in Key \X NotificationChannel :
          enqueued'[r] = IF r = Row(c) THEN enqueued[r] + 1 ELSE enqueued[r]
    BY <2>1, <2>2 DEF TypeOK
  <2>4. enqueued[Row(c)] \in Nat
    BY <2>2 DEF TypeOK
  <2>5. enqueued'[Row(c)] > 0
    BY <2>2, <2>3, <2>4
  <2>6. Enqueued' = Enqueued \cup {Row(c)}
    BY <2>2, <2>3, <2>5 DEF Enqueued
  <2>7. PICK r \in Key \X NotificationChannel : r = Row(c)
    BY <2>2
  <2>8. Feed!EnqueueNew(r)
    BY <2>1, <2>2, <2>6, <2>7 DEF Feed!EnqueueNew, Beginning, Creators, Enqueued
  <2> QED BY <2>8 DEF Feed!Next
<1>7. ASSUME NEW c \in Caller, EnqueueFails(c) PROVE Feed!Next
  <2>1. /\ Row(c) \in Beginning /\ Row(c) \in Key \X NotificationChannel
        /\ Beginning' = Beginning \ {Row(c)}
    BY <1>7, OwnerLeaves DEF EnqueueFails
  <2>2. rows' = rows /\ Enqueued' = Enqueued
    BY <1>7 DEF EnqueueFails, Enqueued
  <2>3. PICK r \in Key \X NotificationChannel : r = Row(c)
    BY <2>1
  <2>4. Feed!EnqueueNewFails(r)
    BY <2>1, <2>2, <2>3 DEF Feed!EnqueueNewFails, Beginning, Creators, Enqueued
  <2> QED BY <2>4 DEF Feed!Next
<1>8. ASSUME NEW c \in Caller, CallRaises(c) PROVE Feed!Next \/ UNCHANGED Feed!vars
  <2>1. /\ at[c] # "enqueue" /\ at'[c] # "enqueue" /\ enqueued' = enqueued
        /\ \A d \in Caller : d # c => at'[d] = at[d] /\ todo'[d] = todo[d]
    BY <1>8 DEF TypeOK, CallRaises, Goto
  <2>2. Creators' = Creators /\ \A d \in Creators : Row(d)' = Row(d)
    BY <2>1 DEF Creators, Row
  <2>3. Beginning' = Beginning
    BY <2>2 DEF Beginning
  <2>4. Enqueued' = Enqueued
    BY <2>1 DEF Enqueued
  <2>5. CASE rows' = rows
    BY <2>3, <2>4, <2>5 DEF Feed!vars, Beginning, Creators, Enqueued
  <2>6. CASE rows' # rows
    <3>1. /\ Row(c) \notin rows /\ Row(c) \in Key \X NotificationChannel
          /\ rows' = rows \cup {Row(c)}
      BY <1>8, <2>6, RowType DEF CallRaises, Violates
    <3>2. PICK r \in Key \X NotificationChannel : r = Row(c)
      BY <3>1
    <3>3. Feed!InsertRowLost(r)
      BY <2>3, <2>4, <3>1, <3>2 DEF Feed!InsertRowLost, Beginning, Creators, Enqueued
    <3> QED BY <3>3 DEF Feed!Next
  <2> QED BY <2>5, <2>6
<1>9. ASSUME Crash PROVE Feed!Next
  <2>1. Creators' = {}
    BY <1>9 DEF Crash, InHand, Creators
  <2>2. Beginning' = {}
    BY <2>1 DEF Beginning
  <2>3. rows' = rows /\ Enqueued' = Enqueued
    BY <1>9 DEF Crash, Enqueued
  <2>4. Feed!Crash
    BY <2>2, <2>3 DEF Feed!Crash, Beginning, Creators, Enqueued
  <2> QED BY <2>4 DEF Feed!Next
<1>10. ASSUME RedisRestarts \/ \E k \in Key : KeyExpires(k) PROVE UNCHANGED Feed!vars
  BY <1>10, FeedStutters DEF KeyExpires, RedisRestarts
<1>11. CASE UNCHANGED vars
  BY <1>11, FeedStutters DEF vars, history
<1> QED
  BY <1>1, <1>2, <1>3, <1>4, <1>5, <1>6, <1>7, <1>8, <1>9, <1>10, <1>11
  DEF Next, Progress

\* What the intake hands to dispatch is what Dispatch assumes: every row has one
\* chance to be enqueued, right after its INSERT and by the caller that made it;
\* duplicates, redeliveries and repeats after a fault never add to it.
THEOREM FeedsDispatchHolds == Spec => FeedsDispatch
<1>1. Init => Feed!Init
  BY DEF Init, Feed!Init
<1>2. Init => OwnInv
  BY DEF Init, OwnInv, EnqueuedOnce, RowOwned
<1> QED BY <1>1, <1>2, OwnStep, FeedStep, TypeCorrect, PTL
        DEF Spec, FeedsDispatch, Feed!Spec

-----------------------------------------------------------------------------
(* The idempotency key.                                                    *)

\* While a key is not gone, nobody who has taken it is without it, and nobody
\* else has.
HeldByOne(k) ==
  /\ key[k] = "absent" => \A c \in Caller : KeyOf[c] = k => at[c] \notin Creating
  /\ \A c, d \in Caller : /\ KeyOf[c] = k /\ KeyOf[d] = k
                          /\ at[c] \in Creating /\ at[d] \in Creating
                          => c = d

KeyInv == \A k \in Key \ expired : HeldByOne(k)

\* What most steps do to the keys: nothing, and nobody begins to create.
LEMMA NobodyBegins ==
  ASSUME TypeOK, KeyInv, expired \subseteq expired',
         \A k \in Key \ expired' : key[k] # "absent" => key'[k] # "absent",
         \A c \in Caller : at'[c] \in Creating => at[c] \in Creating
  PROVE  KeyInv'
BY DEF KeyInv, HeldByOne

LEMMA KeyInvStep == TypeOK /\ KeyInv /\ [Next]_vars => KeyInv'
<1> SUFFICES ASSUME TypeOK, KeyInv, [Next]_vars PROVE KeyInv'
  OBVIOUS
<1> USE DEF TypeOK, Creating
<1>1. ASSUME NEW c \in Caller, Send(c) PROVE KeyInv'
  BY <1>1, NobodyBegins DEF Send, Goto, history
<1>2. ASSUME NEW m \in Message, Handling(m) PROVE KeyInv'
  BY <1>2, NobodyBegins DEF Handling, Deliver, Requeue, GiveUp, Goto, history, Caller
<1>3. ASSUME NEW c \in Caller, SetKey(c) PROVE KeyInv'
  <2>1. CASE key[KeyOf[c]] = "absent"
    <3>1. /\ expired' = expired
          /\ at' = [at EXCEPT ![c] = "expire"]
          /\ key' = [key EXCEPT ![KeyOf[c]] = "held"]
      BY <1>3, <2>1 DEF SetKey, Goto, history
    <3> QED BY <2>1, <3>1 DEF KeyInv, HeldByOne
  <2>2. CASE key[KeyOf[c]] # "absent"
    BY <1>3, <2>2, NobodyBegins DEF SetKey, Goto, history
  <2> QED BY <2>1, <2>2
<1>4. ASSUME NEW c \in Caller, ExpireKey(c) PROVE KeyInv'
  BY <1>4, NobodyBegins DEF ExpireKey, Goto, history
<1>5. ASSUME NEW c \in Caller,
             Create(c) \/ CreateViolates(c) \/ Enqueue(c) \/ Finish(c) \/ EnqueueFails(c)
      PROVE  KeyInv'
  BY <1>5, NobodyBegins DEF Create, CreateViolates, Enqueue, Finish, EnqueueFails,
                            NextChannel, Goto, history
<1>6. ASSUME NEW c \in Caller, CallRaises(c) PROVE KeyInv'
  BY <1>6, NobodyBegins DEF CallRaises, Goto
<1>7. ASSUME Crash PROVE KeyInv'
  BY <1>7, NobodyBegins DEF Crash
<1>8. ASSUME RedisRestarts \/ \E k \in Key : KeyExpires(k) PROVE KeyInv'
  BY <1>8, NobodyBegins DEF KeyExpires, RedisRestarts
<1>9. CASE UNCHANGED vars
  BY <1>9, NobodyBegins DEF vars, history
<1> QED
  BY <1>1, <1>2, <1>3, <1>4, <1>5, <1>6, <1>7, <1>8, <1>9 DEF Next, Progress

\* The first layer of duplicate detection: as long as a key has neither expired
\* nor been lost, one caller at most is past its SETNX and before its ack,
\* whatever other callers, faults and crashes do meanwhile.
THEOREM OneCreatorHolds == Spec => []OneCreator
<1>1. Init => KeyInv
  BY DEF Init, KeyInv, HeldByOne, Creating
<1>2. TypeOK /\ KeyInv => OneCreator
  <2> SUFFICES ASSUME KeyInv, NEW k \in Key \ expired
               PROVE  Cardinality({c \in Caller : KeyOf[c] = k /\ at[c] \in Creating}) <= 1
    BY DEF OneCreator
  <2> DEFINE S == {c \in Caller : KeyOf[c] = k /\ at[c] \in Creating}
  <2>1. \A c, d \in S : c = d
    BY DEF KeyInv, HeldByOne
  <2>2. S = {} \/ \E c \in S : S = {c}
    BY <2>1
  <2> HIDE DEF S
  <2>3. CASE S = {}
    BY <2>3, FS_EmptySet DEF S
  <2>4. ASSUME NEW c \in S, S = {c} PROVE Cardinality(S) = 1
    BY <2>4, FS_Singleton
  <2> QED BY <2>2, <2>3, <2>4 DEF S
<1> QED BY <1>1, <1>2, KeyInvStep, TypeCorrect, PTL DEF Spec

LEMMA KeysExpireStep == TypeOK /\ KeysExpire /\ [Next]_vars => KeysExpire'
<1> SUFFICES ASSUME TypeOK, KeysExpire, [Next]_vars, NEW k \in Key, key'[k] = "held",
                    k \notin hurt' \cup expired'
             PROVE  \E c \in Caller : KeyOf[c] = k /\ at'[c] = "expire"
  BY DEF KeysExpire
<1> USE IntakeAssumption DEF KeysExpire, TypeOK
<1>0. ASSUME hurt \subseteq hurt', expired \subseteq expired', key[k] = "held",
             \A c \in Caller : at[c] = "expire" /\ KeyOf[c] = k => at'[c] = "expire"
      PROVE  \E c \in Caller : KeyOf[c] = k /\ at'[c] = "expire"
  BY <1>0
<1>1. ASSUME NEW c \in Caller, Send(c)
      PROVE  \E d \in Caller : KeyOf[d] = k /\ at'[d] = "expire"
  BY <1>0, <1>1 DEF Send, Goto, history
<1>2. ASSUME NEW m \in Message, Handling(m)
      PROVE  \E d \in Caller : KeyOf[d] = k /\ at'[d] = "expire"
  BY <1>0, <1>2 DEF Handling, Deliver, Requeue, GiveUp, Goto, history, Caller
<1>3. ASSUME NEW c \in Caller, SetKey(c)
      PROVE  \E d \in Caller : KeyOf[d] = k /\ at'[d] = "expire"
  <2>1. CASE key[KeyOf[c]] = "absent" /\ KeyOf[c] = k
    BY <1>3, <2>1 DEF SetKey, Goto
  <2>2. CASE key[KeyOf[c]] # "absent" \/ KeyOf[c] # k
    BY <1>0, <1>3, <2>2 DEF SetKey, Goto, history
  <2> QED BY <2>1, <2>2
<1>4. ASSUME NEW c \in Caller, ExpireKey(c)
      PROVE  \E d \in Caller : KeyOf[d] = k /\ at'[d] = "expire"
  <2>1. KeyOf[c] # k /\ key[k] = "held"
    BY <1>4 DEF ExpireKey
  <2> QED BY <1>0, <1>4, <2>1 DEF ExpireKey, Goto, history
<1>5. ASSUME NEW c \in Caller,
             Create(c) \/ CreateViolates(c) \/ Enqueue(c) \/ Finish(c) \/ EnqueueFails(c)
      PROVE  \E d \in Caller : KeyOf[d] = k /\ at'[d] = "expire"
  BY <1>0, <1>5 DEF Create, CreateViolates, Enqueue, Finish, EnqueueFails,
                    NextChannel, Goto, Fault, history
<1>6. ASSUME NEW c \in Caller, CallRaises(c)
      PROVE  \E d \in Caller : KeyOf[d] = k /\ at'[d] = "expire"
  <2>1. /\ KeyOf[c] # k /\ key[k] = "held"
        /\ hurt \subseteq hurt' /\ expired' = expired
    BY <1>6 DEF CallRaises, Fault
  <2> QED BY <1>0, <1>6, <2>1 DEF CallRaises, Goto
<1>7. ASSUME Crash
      PROVE  \E d \in Caller : KeyOf[d] = k /\ at'[d] = "expire"
  BY <1>0, <1>7 DEF Crash, InHand
<1>8. ASSUME RedisRestarts \/ \E j \in Key : KeyExpires(j)
      PROVE  \E d \in Caller : KeyOf[d] = k /\ at'[d] = "expire"
  BY <1>0, <1>8 DEF KeyExpires, RedisRestarts
<1>9. CASE UNCHANGED vars
  BY <1>0, <1>9 DEF vars, history
<1> QED
  BY <1>1, <1>2, <1>3, <1>4, <1>5, <1>6, <1>7, <1>8, <1>9 DEF Next, Progress

\* No key is taken for ever: one without a TTL is about to get it, unless a
\* fault struck between SETNX and EXPIRE or Redis came back without the TTL.
THEOREM KeysExpireHolds == Spec => []KeysExpire
<1>1. Init => KeysExpire
  BY DEF Init, KeysExpire
<1> QED BY <1>1, KeysExpireStep, TypeCorrect, PTL DEF Spec

-----------------------------------------------------------------------------
(* What a caller is told is true.                                          *)

\* A key names one event: the bodies that reach create_notification under one
\* key are of the same event.  The producers see to it, by making the event a
\* part of the key; the service could not tell.
OneEventPerKey ==
  \A c, d \in Caller :
    Accepted(c) /\ Accepted(d) /\ KeyOf[c] = KeyOf[d] => Event(c) = Event(d)

\* The channels a caller's loop has still to do.
Left(c) == {todo[c][i] : i \in DOMAIN todo[c]}

PastKey == Creating \cup {"ack", "done"}
Taken(k) == key[k] # "absent" \/ k \in expired

\* The loop of an accepted caller runs over the channels of its event.
LoopAt(c) ==
  /\ at[c] \in PastKey \cup {"setnx"} => Accepted(c)
  /\ at[c] \in PastKey => Taken(KeyOf[c])
  /\ at[c] \notin {"create", "enqueue"} => Left(c) = {}
  /\ Left(c) \subseteq Channels(Event(c))

LoopInv == \A c \in Caller : LoopAt(c)

\* A row that no fault has hit was enqueued, or is about to be.
RowsGoOn ==
  \A r \in rows : \/ r[1] \in hurt
                  \/ enqueued[r] > 0
                  \/ \E c \in Caller : at[c] = "enqueue" /\ Row(c) = r

\* Once a key has been taken, its event's channels are done, or will be.
Serves(c, r) ==
  /\ KeyOf[c] = r[1]
  /\ (at[c] = "expire" /\ r \in Wanted(c)) \/ r[2] \in Left(c)

Served(r) == enqueued[r] > 0 \/ \E c \in Caller : Serves(c, r)
TakenIsServed ==
  \A c \in Caller : Accepted(c) /\ Taken(KeyOf[c]) /\ KeyOf[c] \notin hurt =>
    \A r \in Wanted(c) : Served(r)

DoneInv == LoopInv /\ RowsGoOn /\ TakenIsServed

LEMMA ServedUnderway ==
  ASSUME NEW r, Served(r)
  PROVE  enqueued[r] > 0 \/ Underway(r)
BY DEF Served, Serves, Underway, Left

\* Taking the head off a sequence leaves the others.
LEMMA HeadAndTail ==
  ASSUME NEW S, NEW s \in Seq(S), s # <<>>
  PROVE  {s[i] : i \in DOMAIN s}
           = {Head(s)} \cup {Tail(s)[i] : i \in DOMAIN Tail(s)}
<1>1. /\ Len(s) \in Nat /\ Len(s) > 0 /\ DOMAIN s = 1 .. Len(s)
      /\ Tail(s) \in Seq(S) /\ DOMAIN Tail(s) = 1 .. (Len(s) - 1)
      /\ Head(s) = s[1] /\ \A i \in 1 .. (Len(s) - 1) : Tail(s)[i] = s[i + 1]
  OBVIOUS
<1>2. ASSUME NEW i \in DOMAIN s
      PROVE  s[i] = Head(s) \/ \E j \in DOMAIN Tail(s) : Tail(s)[j] = s[i]
  <2>1. CASE i # 1
    <3>1. i - 1 \in DOMAIN Tail(s) /\ Tail(s)[i - 1] = s[i]
      BY <1>1, <2>1
    <3> QED BY <3>1
  <2> QED BY <1>1, <2>1
<1>3. ASSUME NEW j \in DOMAIN Tail(s) PROVE \E i \in DOMAIN s : s[i] = Tail(s)[j]
  <2>1. j + 1 \in DOMAIN s /\ s[j + 1] = Tail(s)[j]
    BY <1>1
  <2> QED BY <2>1
<1>4. 1 \in DOMAIN s /\ s[1] = Head(s)
  BY <1>1
<1> QED BY <1>2, <1>3, <1>4

\* The loop goes on with the channels after the current one.
LEMMA LoopGoesOn ==
  ASSUME TypeOK, NEW c \in Caller, at[c] \in {"create", "enqueue"}, NextChannel(c)
  PROVE  /\ Left(c) = {Row(c)[2]} \cup Left(c)' /\ Row(c)[1] = KeyOf[c]
         /\ at'[c] \in {"ack", "create"}
         /\ at'[c] = "ack" => Left(c)' = {}
         /\ \A d \in Caller \ {c} : at'[d] = at[d] /\ Left(d)' = Left(d)
                                    /\ todo'[d] = todo[d]
<1>1. /\ todo[c] \in Seq(NotificationChannel) /\ todo[c] # <<>>
      /\ todo' = [todo EXCEPT ![c] = Tail(todo[c])]
      /\ todo \in [Caller -> Seq(NotificationChannel)]
      /\ at' = [at EXCEPT ![c] = IF Tail(todo[c]) = <<>> THEN "ack" ELSE "create"]
  BY RowType DEF NextChannel, Goto, TypeOK
<1>2. Left(c) = {Head(todo[c])} \cup {Tail(todo[c])[i] : i \in DOMAIN Tail(todo[c])}
  BY <1>1, HeadAndTail DEF Left
<1>3. /\ todo'[c] = Tail(todo[c])
      /\ \A d \in Caller \ {c} : at'[d] = at[d] /\ todo'[d] = todo[d]
  BY <1>1 DEF TypeOK
<1>4. Left(c)' = {Tail(todo[c])[i] : i \in DOMAIN Tail(todo[c])}
  BY <1>3 DEF Left
<1>5. at'[c] \in {"ack", "create"} /\ (at'[c] = "ack" => Tail(todo[c]) = <<>>)
  BY <1>1 DEF TypeOK
<1>6. at'[c] = "ack" => Left(c)' = {}
  BY <1>4, <1>5
<1>7. \A d \in Caller \ {c} : Left(d)' = Left(d)
  BY <1>3 DEF Left
<1> QED BY <1>2, <1>3, <1>4, <1>5, <1>6, <1>7 DEF Row

LEMMA NextOfEach ==
  ASSUME Next
  PROVE  \/ \E c \in Caller : \/ Send(c) \/ SetKey(c) \/ ExpireKey(c) \/ Create(c)
                              \/ CreateViolates(c) \/ Enqueue(c) \/ Finish(c)
                              \/ EnqueueFails(c) \/ CallRaises(c)
         \/ \E m \in Message : Handling(m)
         \/ Crash \/ RedisRestarts
         \/ \E k \in Key : KeyExpires(k)
BY DEF Next, Progress

\* A key that was taken stays so, or is known to have been.
LEMMA TakenStays ==
  ASSUME TypeOK, [Next]_vars, NEW k \in Key, Taken(k)
  PROVE  Taken(k)'
<1> USE IntakeAssumption DEF Taken, TypeOK
<1>1. ASSUME NEW c \in Caller,
             \/ Send(c) \/ SetKey(c) \/ ExpireKey(c) \/ Create(c) \/ CreateViolates(c)
             \/ Enqueue(c) \/ Finish(c) \/ EnqueueFails(c) \/ CallRaises(c)
      PROVE  Taken(k)'
  BY <1>1 DEF Send, SetKey, ExpireKey, Create, CreateViolates, Enqueue, Finish,
              EnqueueFails, CallRaises, history
<1>2. ASSUME NEW m \in Message, Handling(m) PROVE Taken(k)'
  BY <1>2 DEF Handling, Deliver, Requeue, GiveUp, history
<1>3. CASE Crash \/ RedisRestarts \/ \E j \in Key : KeyExpires(j)
  BY <1>3 DEF Crash, RedisRestarts, KeyExpires
<1>4. CASE UNCHANGED vars
  BY <1>4 DEF vars, history
<1> QED BY <1>1, <1>2, <1>3, <1>4, NextOfEach

LEMMA LoopStep ==
  ASSUME TypeOK, LoopInv, [Next]_vars
  PROVE  LoopInv'
<1>1. ASSUME NEW c \in Caller, at'[c] = at[c], todo'[c] = todo[c]
      PROVE  LoopAt(c)'
  <2>1. LoopAt(c) /\ Left(c)' = Left(c)
    BY <1>1 DEF LoopInv, Left
  <2>2. Taken(KeyOf[c]) => Taken(KeyOf[c])'
    BY TakenStays, IntakeAssumption
  <2> QED BY <1>1, <2>1, <2>2 DEF LoopAt, Accepted, Event
<1>2. ASSUME NEW c \in Caller,
             \/ todo'[c] = <<>>
             \/ todo'[c] = todo[c] /\ at[c] \notin {"create", "enqueue"},
             \/ at'[c] \in {"queued", "nack", "refused"}
             \/ at'[c] = "setnx" /\ Accepted(c)
      PROVE  LoopAt(c)'
  <2>1. Left(c)' = {}
    BY <1>2 DEF LoopInv, LoopAt, Left
  <2>2. at'[c] \notin PastKey
    BY <1>2 DEF PastKey, Creating
  <2> QED BY <1>2, <2>1, <2>2 DEF LoopAt, Accepted, Event
<1> USE DEF TypeOK
<1>3. ASSUME NEW c \in Caller,
             \/ Send(c) \/ SetKey(c) \/ ExpireKey(c) \/ Create(c) \/ CreateViolates(c)
             \/ Enqueue(c) \/ Finish(c) \/ EnqueueFails(c) \/ CallRaises(c),
             LoopAt(c)'
      PROVE  LoopInv'
  <2>1. \A d \in Caller \ {c} : at'[d] = at[d] /\ todo'[d] = todo[d]
    BY <1>3 DEF Send, SetKey, ExpireKey, Create, CreateViolates, Enqueue, Finish,
                EnqueueFails, CallRaises, NextChannel, Goto
  <2> QED BY <1>1, <1>3, <2>1 DEF LoopInv
<1>4. ASSUME NEW c \in Caller, Send(c) PROVE LoopInv'
  <2>1. /\ todo' = todo /\ at[c] = "waiting"
        /\ \/ at'[c] \in {"queued", "nack", "refused"}
           \/ at'[c] = "setnx" /\ Accepted(c)
    BY <1>4 DEF Send, Goto
  <2>2. LoopAt(c)'
    BY <1>2, <2>1
  <2> QED BY <1>3, <1>4, <2>2
<1>5. ASSUME NEW m \in Message, Handling(m) PROVE LoopInv'
  <2>1. /\ m \in Caller /\ todo' = todo /\ at[m] \in {"queued", "nack"}
        /\ \/ at'[m] \in {"queued", "nack", "refused"}
           \/ at'[m] = "setnx" /\ Accepted(m)
    BY <1>5 DEF Handling, Deliver, Requeue, GiveUp, Goto, Caller
  <2>2. LoopAt(m)'
    BY <1>2, <2>1
  <2>3. \A d \in Caller \ {m} : at'[d] = at[d] /\ todo'[d] = todo[d]
    BY <1>5 DEF Handling, Deliver, Requeue, GiveUp, Goto
  <2> QED BY <1>1, <2>1, <2>2, <2>3 DEF LoopInv
<1>6. ASSUME NEW c \in Caller, SetKey(c) \/ Finish(c) PROVE LoopInv'
  <2>1. /\ todo' = todo /\ at[c] \in {"setnx", "ack"}
        /\ at'[c] \in PastKey /\ at'[c] \notin {"create", "enqueue"}
    BY <1>6 DEF SetKey, Finish, Goto, PastKey, Creating
  <2>2. Taken(KeyOf[c])'
    <3>1. CASE SetKey(c)
      BY <3>1, IntakeAssumption DEF SetKey, Taken
    <3>2. CASE Finish(c)
      BY <3>2, TakenStays, IntakeAssumption DEF Finish, LoopInv, LoopAt, PastKey
    <3> QED BY <1>6, <3>1, <3>2
  <2>3. LoopAt(c) /\ Left(c)' = Left(c)
    BY <2>1 DEF LoopInv, Left
  <2>4. LoopAt(c)'
    BY <2>1, <2>2, <2>3 DEF LoopAt, PastKey, Creating, Accepted, Event
  <2> QED BY <1>3, <1>6, <2>4
<1>7. ASSUME NEW c \in Caller, ExpireKey(c) PROVE LoopInv'
  <2>1. /\ at[c] = "expire" /\ at'[c] = "create"
        /\ todo'[c] = EVENT_CHANNEL_MAP[Event(c)]
    BY <1>7 DEF ExpireKey, Goto
  <2>2. Left(c)' = Channels(Event(c))
    BY <2>1 DEF Left, Channels
  <2>3. Accepted(c) /\ Taken(KeyOf[c])'
    BY <2>1, TakenStays, IntakeAssumption DEF LoopInv, LoopAt, PastKey, Creating
  <2>4. LoopAt(c)'
    BY <2>1, <2>2, <2>3 DEF LoopAt, Accepted, Event
  <2> QED BY <1>3, <1>7, <2>4
<1>8. ASSUME NEW c \in Caller, Create(c) PROVE LoopInv'
  <2>1. /\ todo' = todo /\ at[c] = "create" /\ at'[c] = "enqueue"
    BY <1>8 DEF Create, Goto
  <2>2. Accepted(c) /\ Taken(KeyOf[c])' /\ Left(c)' = Left(c)
    BY <2>1, TakenStays, IntakeAssumption DEF LoopInv, LoopAt, PastKey, Creating, Left
  <2>3. LoopAt(c)'
    BY <2>1, <2>2 DEF LoopInv, LoopAt, Accepted, Event
  <2> QED BY <1>3, <1>8, <2>3
<1>9. ASSUME NEW c \in Caller, CreateViolates(c) \/ Enqueue(c) \/ EnqueueFails(c)
      PROVE  LoopInv'
  <2>1. at[c] \in {"create", "enqueue"} /\ NextChannel(c)
    BY <1>9 DEF CreateViolates, Enqueue, EnqueueFails
  <2>2. /\ Left(c)' \subseteq Left(c) /\ at'[c] \in {"ack", "create"}
        /\ at'[c] = "ack" => Left(c)' = {}
    BY <2>1, LoopGoesOn
  <2>3. Accepted(c) /\ Taken(KeyOf[c])' /\ Left(c) \subseteq Channels(Event(c))
    BY <2>1, TakenStays, IntakeAssumption DEF LoopInv, LoopAt, PastKey, Creating
  <2>4. LoopAt(c)'
    BY <2>2, <2>3 DEF LoopAt, Accepted, Event
  <2> QED BY <1>3, <1>9, <2>4
<1>10. ASSUME NEW c \in Caller, CallRaises(c) PROVE LoopInv'
  <2>1. todo'[c] = <<>> /\ at'[c] \in {"queued", "nack", "refused"}
    BY <1>10 DEF CallRaises, Goto
  <2>2. LoopAt(c)'
    BY <1>2, <2>1
  <2> QED BY <1>3, <1>10, <2>2
<1>11. CASE Crash
  <2>1. ASSUME NEW c \in InHand PROVE LoopAt(c)'
    <3>1. /\ c \in Caller /\ todo'[c] = <<>>
          /\ at'[c] \in {"queued", "nack", "refused"}
      BY <1>11, <2>1 DEF Crash, InHand
    <3> QED BY <1>2, <3>1
  <2>2. ASSUME NEW c \in Caller \ InHand PROVE LoopAt(c)'
    <3>1. at'[c] = at[c] /\ todo'[c] = <<>> /\ at[c] \notin {"create", "enqueue"}
      BY <1>11, <2>2 DEF Crash, InHand
    <3>2. Left(c)' = {} /\ LoopAt(c)
      BY <3>1 DEF Left, LoopInv
    <3>3. Taken(KeyOf[c]) => Taken(KeyOf[c])'
      BY TakenStays, IntakeAssumption
    <3> QED BY <3>1, <3>2, <3>3 DEF LoopAt, Accepted, Event
  <2> QED BY <2>1, <2>2 DEF LoopInv
<1>12. CASE UNCHANGED vars \/ RedisRestarts \/ \E k \in Key : KeyExpires(k)
  BY <1>1, <1>12 DEF vars, RedisRestarts, KeyExpires, LoopInv
<1> QED
  BY <1>4, <1>5, <1>6, <1>7, <1>8, <1>9, <1>10, <1>11, <1>12, NextOfEach

LEMMA RowsStep ==
  ASSUME TypeOK, OwnInv, RowsGoOn, [Next]_vars
  PROVE  RowsGoOn'
<1> USE DEF TypeOK
<1>1. ASSUME rows' = rows, enqueued' = enqueued, hurt \subseteq hurt',
             \A c \in Caller : KeyOf[c] \notin hurt' /\ at[c] = "enqueue" =>
               at'[c] = "enqueue" /\ todo'[c] = todo[c]
      PROVE  RowsGoOn'
  <2>1. \A c \in Caller : KeyOf[c] \notin hurt' /\ at[c] = "enqueue" =>
          at'[c] = "enqueue" /\ Row(c)' = Row(c)
    BY <1>1 DEF Row
  <2>2. \A c \in Caller : Row(c)[1] = KeyOf[c]
    BY DEF Row
  <2> QED BY <1>1, <2>1, <2>2 DEF RowsGoOn
<1>2. ASSUME NEW c \in Caller, Send(c) \/ SetKey(c) \/ ExpireKey(c) \/ Finish(c)
      PROVE  RowsGoOn'
  BY <1>1, <1>2 DEF Send, SetKey, ExpireKey, Finish, Goto, history
<1>3. ASSUME NEW m \in Message, Handling(m) PROVE RowsGoOn'
  BY <1>1, <1>3 DEF Handling, Deliver, Requeue, GiveUp, Goto, history
<1>4. ASSUME NEW c \in Caller, Create(c) PROVE RowsGoOn'
  <2>1. /\ rows' = rows \cup {Row(c)} /\ at' = [at EXCEPT ![c] = "enqueue"]
        /\ todo' = todo /\ UNCHANGED <<enqueued, hurt>>
    BY <1>4 DEF Create, Goto, history
  <2>2. \A d \in Caller : Row(d)' = Row(d)
    BY <2>1 DEF Row
  <2> QED BY <2>1, <2>2 DEF RowsGoOn
<1>5. ASSUME NEW c \in Caller, CreateViolates(c) PROVE RowsGoOn'
  <2>1. at[c] = "create" /\ UNCHANGED <<rows, enqueued, hurt>>
    BY <1>5 DEF CreateViolates, history
  <2>2. \A d \in Caller \ {c} : at'[d] = at[d] /\ todo'[d] = todo[d]
    BY <1>5, LoopGoesOn DEF CreateViolates
  <2> QED BY <1>1, <2>1, <2>2
<1>6. ASSUME NEW c \in Caller, Enqueue(c) PROVE RowsGoOn'
  <2>1. /\ at[c] = "enqueue" /\ UNCHANGED <<rows, hurt>>
        /\ enqueued' = [enqueued EXCEPT ![Row(c)] = enqueued[Row(c)] + 1]
    BY <1>6 DEF Enqueue
  <2>2. \A d \in Caller \ {c} : at'[d] = at[d] /\ todo'[d] = todo[d]
    BY <1>6, <2>1, LoopGoesOn DEF Enqueue
  <2>3. \A d \in Caller \ {c} : at[d] = "enqueue" =>
          at'[d] = "enqueue" /\ Row(d)' = Row(d)
    BY <2>2 DEF Row
  <2>4. Row(c) \in Key \X NotificationChannel
    BY <2>1, RowType
  <2>5. ASSUME NEW r \in rows, r[1] \notin hurt
        PROVE  enqueued'[r] > 0 \/ \E d \in Caller : at'[d] = "enqueue" /\ Row(d)' = r
    <3>1. r \in Key \X NotificationChannel /\ enqueued[r] \in Nat
      OBVIOUS
    <3>2. CASE r = Row(c)
      BY <2>1, <2>4, <3>1, <3>2
    <3>3. CASE r # Row(c)
      <4>1. enqueued'[r] = enqueued[r]
        BY <2>1, <2>4, <3>1, <3>3
      <4>2. enqueued[r] > 0 \/ \E d \in Caller \ {c} : at[d] = "enqueue" /\ Row(d) = r
        BY <2>5, <3>3 DEF RowsGoOn
      <4> QED BY <2>3, <4>1, <4>2
    <3> QED BY <3>2, <3>3
  <2> QED BY <2>1, <2>5 DEF RowsGoOn
<1>7. ASSUME NEW c \in Caller, EnqueueFails(c) PROVE RowsGoOn'
  <2>1. /\ at[c] = "enqueue" /\ UNCHANGED <<rows, enqueued>>
        /\ hurt' = hurt \cup {KeyOf[c]}
    BY <1>7 DEF EnqueueFails, Fault
  <2>2. \A d \in Caller \ {c} : at'[d] = at[d] /\ todo'[d] = todo[d]
    BY <1>7, <2>1, LoopGoesOn DEF EnqueueFails
  <2> QED BY <1>1, <2>1, <2>2
<1>8. ASSUME NEW c \in Caller, CallRaises(c) PROVE RowsGoOn'
  <2>1. /\ at[c] # "enqueue" /\ enqueued' = enqueued /\ hurt' = hurt \cup {KeyOf[c]}
        /\ \A d \in Caller \ {c} : at'[d] = at[d] /\ todo'[d] = todo[d]
        /\ rows' \subseteq rows \cup {Row(c)}
    BY <1>8 DEF CallRaises, Fault, Goto
  <2>2. \A d \in Caller \ {c} : Row(d)' = Row(d)
    BY <2>1 DEF Row
  <2>3. Row(c)[1] = KeyOf[c]
    BY DEF Row
  <2>4. ASSUME NEW r \in rows', r[1] \notin hurt'
        PROVE  enqueued'[r] > 0 \/ \E d \in Caller : at'[d] = "enqueue" /\ Row(d)' = r
    <3>1. r \in rows /\ r[1] \notin hurt
      BY <2>1, <2>3, <2>4
    <3>2. enqueued[r] > 0 \/ \E d \in Caller \ {c} : at[d] = "enqueue" /\ Row(d) = r
      BY <2>1, <3>1 DEF RowsGoOn
    <3> QED BY <2>1, <2>2, <3>2
  <2> QED BY <2>4 DEF RowsGoOn
<1>9. CASE Crash
  BY <1>1, <1>9 DEF Crash, InHand
<1>10. CASE UNCHANGED vars \/ RedisRestarts \/ \E k \in Key : KeyExpires(k)
  BY <1>1, <1>10 DEF vars, history, RedisRestarts, KeyExpires
<1> QED
  BY <1>2, <1>3, <1>4, <1>5, <1>6, <1>7, <1>8, <1>9, <1>10, NextOfEach

\* The INSERT of an accepted caller fails only because the row is there.
LEMMA ViolatesUnique ==
  ASSUME TypeOK, LoopInv, NEW c \in Caller, at[c] = "create", Violates(c)
  PROVE  Row(c) \in rows
<1>1. Accepted(c) /\ Left(c) \subseteq Channels(Event(c))
  BY DEF LoopInv, LoopAt, PastKey, Creating
<1>2. /\ todo[c] \in Seq(NotificationChannel) /\ todo[c] # <<>>
      /\ Head(todo[c]) \in Left(c)
  BY RowType, HeadAndTail DEF Left
<1>3. HasRecipient(BodyOf[c], Head(todo[c]))
  BY <1>1, <1>2 DEF Accepted, Validates, Event
<1> QED BY <1>3 DEF Violates

\* What was being served still is, or was enqueued, unless a fault has hit it.
LEMMA ServedStays ==
  ASSUME TypeOK, DoneInv, [Next]_vars,
         NEW r \in Key \X NotificationChannel, r[1] \notin hurt', Served(r)
  PROVE  Served(r)'
<1> USE DEF TypeOK
<1>1. LoopInv /\ RowsGoOn
  BY DEF DoneInv
<1>2. \A c \in Caller : Wanted(c)' = Wanted(c)
  BY DEF Wanted, Event
<1>3. ASSUME enqueued'[r] = enqueued[r],
             \A c \in Caller : KeyOf[c] = r[1] =>
               /\ at[c] = "expire" => at'[c] = "expire"
               /\ r[2] \in Left(c) => r[2] \in Left(c)'
      PROVE  Served(r)'
  BY <1>2, <1>3 DEF Served, Serves
<1>4. ASSUME enqueued'[r] = enqueued[r], todo' = todo,
             \A c \in Caller : KeyOf[c] = r[1] /\ at[c] = "expire" => at'[c] = "expire"
      PROVE  Served(r)'
  BY <1>3, <1>4 DEF Left
<1>5. ASSUME NEW c \in Caller, Send(c) \/ SetKey(c) \/ Create(c) \/ Finish(c)
      PROVE  Served(r)'
  BY <1>4, <1>5 DEF Send, SetKey, Create, Finish, Goto, history
<1>6. ASSUME NEW m \in Message, Handling(m) PROVE Served(r)'
  BY <1>4, <1>6 DEF Handling, Deliver, Requeue, GiveUp, Goto, history
<1>7. ASSUME NEW c \in Caller, ExpireKey(c) PROVE Served(r)'
  <2>1. /\ at[c] = "expire" /\ enqueued' = enqueued
        /\ todo'[c] = EVENT_CHANNEL_MAP[Event(c)]
        /\ \A d \in Caller \ {c} : at'[d] = at[d] /\ todo'[d] = todo[d]
    BY <1>7 DEF ExpireKey, Goto, history
  <2>2. Left(c) = {}
    BY <1>1, <2>1 DEF LoopInv, LoopAt
  <2>3. Left(c)' = Channels(Event(c))
    BY <2>1 DEF Left, Channels
  <2>4. Serves(c, r) => Serves(c, r)'
    BY <2>2, <2>3 DEF Serves, Wanted
  <2>5. \A d \in Caller \ {c} : Left(d)' = Left(d)
    BY <2>1 DEF Left
  <2>6. \A d \in Caller \ {c} : Serves(d, r) => Serves(d, r)'
    BY <1>2, <2>1, <2>5 DEF Serves
  <2> QED BY <2>1, <2>4, <2>6 DEF Served
<1>8. ASSUME NEW c \in Caller, CreateViolates(c) PROVE Served(r)'
  <2>1. /\ at[c] = "create" /\ Violates(c) /\ NextChannel(c)
        /\ UNCHANGED <<enqueued, hurt, rows>>
    BY <1>8 DEF CreateViolates, history
  <2>2. /\ Left(c) = {Row(c)[2]} \cup Left(c)' /\ Row(c)[1] = KeyOf[c]
        /\ \A d \in Caller \ {c} : at'[d] = at[d] /\ Left(d)' = Left(d)
    BY <2>1, LoopGoesOn
  <2>3. Row(c) \in Key \X NotificationChannel
    BY <2>1, RowType
  <2>4. CASE r = Row(c)
    <3>1. r \in rows
      BY <1>1, <2>1, <2>4, ViolatesUnique
    <3>2. \/ enqueued[r] > 0
          \/ \E d \in Caller : at[d] = "enqueue" /\ Row(d) = r
      BY <1>1, <2>1, <3>1 DEF RowsGoOn
    <3>3. ASSUME NEW d \in Caller, at[d] = "enqueue", Row(d) = r PROVE Serves(d, r)'
      <4>1. /\ d # c /\ todo[d] \in Seq(NotificationChannel) /\ todo[d] # <<>>
            /\ KeyOf[d] = r[1] /\ r[2] = Head(todo[d])
        BY <2>1, <3>3, RowType DEF Row
      <4>2. r[2] \in Left(d)
        BY <4>1, HeadAndTail DEF Left
      <4> QED BY <2>2, <4>1, <4>2 DEF Serves
    <3> QED BY <2>1, <3>2, <3>3 DEF Served
  <2>5. CASE r # Row(c)
    <3>1. KeyOf[c] = r[1] /\ r[2] \in Left(c) => r[2] \in Left(c)'
      BY <2>2, <2>3, <2>5
    <3> QED BY <1>3, <2>1, <2>2, <3>1
  <2> QED BY <2>4, <2>5
<1>9. ASSUME NEW c \in Caller, Enqueue(c) PROVE Served(r)'
  <2>1. /\ at[c] = "enqueue" /\ NextChannel(c)
        /\ enqueued' = [enqueued EXCEPT ![Row(c)] = enqueued[Row(c)] + 1]
    BY <1>9 DEF Enqueue
  <2>2. /\ Left(c) = {Row(c)[2]} \cup Left(c)' /\ Row(c)[1] = KeyOf[c]
        /\ \A d \in Caller \ {c} : at'[d] = at[d] /\ Left(d)' = Left(d)
    BY <2>1, LoopGoesOn
  <2>3. Row(c) \in Key \X NotificationChannel
    BY <2>1, RowType
  <2>4. CASE r = Row(c)
    <3>1. enqueued[r] \in Nat /\ enqueued'[r] = enqueued[r] + 1
      BY <2>1, <2>4
    <3> QED BY <3>1 DEF Served
  <2>5. CASE r # Row(c)
    <3>1. KeyOf[c] = r[1] /\ r[2] \in Left(c) => r[2] \in Left(c)'
      BY <2>2, <2>3, <2>5
    <3> QED BY <1>3, <2>1, <2>2, <2>5, <3>1
  <2> QED BY <2>4, <2>5
<1>10. ASSUME NEW c \in Caller, EnqueueFails(c) PROVE Served(r)'
  <2>1. /\ at[c] = "enqueue" /\ NextChannel(c) /\ enqueued' = enqueued
        /\ KeyOf[c] # r[1]
    BY <1>10 DEF EnqueueFails, Fault
  <2>2. \A d \in Caller \ {c} : at'[d] = at[d] /\ Left(d)' = Left(d)
    BY <2>1, LoopGoesOn
  <2> QED BY <1>3, <2>1, <2>2
<1>11. ASSUME NEW c \in Caller, CallRaises(c) PROVE Served(r)'
  <2>1. /\ enqueued' = enqueued /\ KeyOf[c] # r[1]
        /\ \A d \in Caller \ {c} : at'[d] = at[d] /\ todo'[d] = todo[d]
    BY <1>11 DEF CallRaises, Fault, Goto
  <2>2. \A d \in Caller \ {c} : Left(d)' = Left(d)
    BY <2>1 DEF Left
  <2> QED BY <1>3, <2>1, <2>2
<1>12. CASE Crash
  <2>1. enqueued' = enqueued /\ \A c \in InHand : KeyOf[c] # r[1]
    BY <1>12 DEF Crash
  <2>2. \A c \in Caller : KeyOf[c] = r[1] => at[c] # "expire" /\ Left(c) = {}
    BY <1>1, <2>1 DEF InHand, LoopInv, LoopAt
  <2> QED BY <1>3, <2>1, <2>2
<1>13. CASE UNCHANGED vars \/ RedisRestarts \/ \E k \in Key : KeyExpires(k)
  BY <1>4, <1>13 DEF vars, history, RedisRestarts, KeyExpires
<1> QED
  BY <1>5, <1>6, <1>7, <1>8, <1>9, <1>10, <1>11, <1>12, <1>13, NextOfEach

\* A key is taken by SETNX: by one whose caller goes on, or by one that raises.
LEMMA TakenBySetKey ==
  ASSUME TypeOK, [Next]_vars, NEW k \in Key, ~Taken(k), Taken(k)', k \notin hurt'
  PROVE  \E c \in Caller : SetKey(c) /\ KeyOf[c] = k /\ at'[c] = "expire"
<1> USE IntakeAssumption DEF Taken, TypeOK
<1>1. ASSUME NEW c \in Caller, SetKey(c)
      PROVE  KeyOf[c] = k /\ at'[c] = "expire"
  BY <1>1 DEF SetKey, Goto, history
<1>2. ASSUME NEW c \in Caller,
             \/ Send(c) \/ ExpireKey(c) \/ Create(c) \/ CreateViolates(c)
             \/ Enqueue(c) \/ Finish(c) \/ EnqueueFails(c) \/ CallRaises(c)
      PROVE  FALSE
  BY <1>2 DEF Send, ExpireKey, Create, CreateViolates, Enqueue, Finish,
              EnqueueFails, CallRaises, Fault, history
<1>3. ASSUME NEW m \in Message, Handling(m) PROVE FALSE
  BY <1>3 DEF Handling, Deliver, Requeue, GiveUp, history
<1>4. CASE Crash \/ RedisRestarts \/ \E j \in Key : KeyExpires(j)
  BY <1>4 DEF Crash, RedisRestarts, KeyExpires, Saved
<1>5. CASE UNCHANGED vars
  BY <1>5 DEF vars, history
<1> QED BY <1>1, <1>2, <1>3, <1>4, <1>5, NextOfEach

LEMMA HurtStays ==
  ASSUME [Next]_vars
  PROVE  hurt \subseteq hurt'
<1>1. ASSUME NEW c \in Caller,
             \/ Send(c) \/ SetKey(c) \/ ExpireKey(c) \/ Create(c) \/ CreateViolates(c)
             \/ Enqueue(c) \/ Finish(c) \/ EnqueueFails(c) \/ CallRaises(c)
      PROVE  hurt \subseteq hurt'
  BY <1>1 DEF Send, SetKey, ExpireKey, Create, CreateViolates, Enqueue, Finish,
              EnqueueFails, CallRaises, Fault, history
<1>2. ASSUME NEW m \in Message, Handling(m) PROVE hurt \subseteq hurt'
  BY <1>2 DEF Handling, Deliver, Requeue, GiveUp, history
<1>3. CASE Crash \/ RedisRestarts \/ \E j \in Key : KeyExpires(j)
  BY <1>3 DEF Crash, RedisRestarts, KeyExpires
<1>4. CASE UNCHANGED vars
  BY <1>4 DEF vars, history
<1> QED BY <1>1, <1>2, <1>3, <1>4, NextOfEach

LEMMA DoneStep ==
  ASSUME OneEventPerKey, TypeOK, OwnInv, DoneInv, [Next]_vars
  PROVE  DoneInv'
<1>1. LoopInv' /\ RowsGoOn'
  BY LoopStep, RowsStep DEF DoneInv
<1>2. ASSUME NEW c \in Caller, Accepted(c), Taken(KeyOf[c])', KeyOf[c] \notin hurt',
             NEW r \in Wanted(c)
      PROVE  Served(r)'
  <2>1. /\ r \in Key \X NotificationChannel /\ r[1] = KeyOf[c]
    <3>1. Event(c) \in EventType /\ KeyOf[c] \in Key
      BY BodyEvent, IntakeAssumption
    <3>2. EVENT_CHANNEL_MAP[Event(c)] \in Seq(NotificationChannel)
      BY <3>1, EventChannels
    <3>3. Channels(Event(c)) \subseteq NotificationChannel
      BY <3>2 DEF Channels
    <3> QED BY <3>1, <3>3 DEF Wanted
  <2>2. KeyOf[c] \in Key /\ KeyOf[c] \notin hurt
    BY <1>2, HurtStays, IntakeAssumption
  <2>3. CASE Taken(KeyOf[c])
    <3>1. Served(r)
      BY <1>2, <2>2, <2>3 DEF DoneInv, TakenIsServed
    <3> QED BY <1>2, <2>1, <3>1, ServedStays
  <2>4. CASE ~Taken(KeyOf[c])
    <3>1. PICK d \in Caller : SetKey(d) /\ KeyOf[d] = KeyOf[c] /\ at'[d] = "expire"
      BY <1>2, <2>2, <2>4, TakenBySetKey
    <3>2. Accepted(d)
      BY <3>1 DEF DoneInv, LoopInv, LoopAt, SetKey
    <3>3. r \in Wanted(d)
      BY <1>2, <3>1, <3>2 DEF OneEventPerKey, Wanted
    <3>4. Serves(d, r)'
      BY <2>1, <3>1, <3>3 DEF Serves, Wanted, Event
    <3> QED BY <3>4 DEF Served
  <2> QED BY <2>3, <2>4
<1>3. TakenIsServed'
  BY <1>2 DEF TakenIsServed, Accepted, Wanted, Event
<1> QED BY <1>1, <1>3 DEF DoneInv

\* A caller that is told "done" can rely on it, whether it created the event's
\* notifications or was taken for a duplicate: if no fault has struck a caller
\* with its key, every channel of its event has a row that was enqueued or that
\* somebody is still on the way to enqueue.  Neither an expired key, nor a lost
\* one, nor a caller that is overtaken between its INSERTs makes it untrue.
THEOREM DoneIsDoneHolds == OneEventPerKey => (Spec => []DoneIsDone)
<1> SUFFICES ASSUME OneEventPerKey PROVE Spec => []DoneIsDone
  OBVIOUS
<1>1. Init => DoneInv
  <2> SUFFICES ASSUME Init PROVE DoneInv
    OBVIOUS
  <2>1. \A c \in Caller : Left(c) = {}
    BY DEF Init, Left
  <2>2. \A c \in Caller : KeyOf[c] \in Key
    BY IntakeAssumption
  <2> QED BY <2>1, <2>2 DEF Init, DoneInv, LoopInv, LoopAt, PastKey, Creating, RowsGoOn,
                            TakenIsServed, Taken
<1>2. DoneInv => DoneIsDone
  <2> SUFFICES ASSUME DoneInv, NEW c \in Caller, at[c] = "done", KeyOf[c] \notin hurt,
                      NEW r \in Wanted(c)
               PROVE  enqueued[r] > 0 \/ Underway(r)
    BY DEF DoneIsDone
  <2>1. Accepted(c) /\ Taken(KeyOf[c])
    BY DEF DoneInv, LoopInv, LoopAt, PastKey
  <2> QED BY <2>1, ServedUnderway DEF DoneInv, TakenIsServed
<1>3. TypeOK /\ OwnInv /\ DoneInv /\ [Next]_vars => DoneInv'
  BY DoneStep
<1> QED BY <1>1, <1>2, <1>3, TypeCorrect, OwnInvHolds, PTL DEF Spec
=============================================================================

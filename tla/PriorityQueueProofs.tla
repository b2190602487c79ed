------------------------- MODULE PriorityQueueProofs -------------------------
(* Theorems about PriorityQueue: the order in which members come out, for  *)
(* any number of notifications, calls and workers, and any time span that  *)
(* stays below the weight of one priority level.                           *)
EXTENDS PriorityQueue, TLAPS

\* A score tells priority and age apart as long as ages stay below Scale.
LEMMA ScoreOrder ==
  ASSUME NEW p \in 1 .. 4, NEW q \in 1 .. 4, NEW s \in 0 .. MaxTime, NEW t \in 0 .. MaxTime,
         p * Scale + s <= q * Scale + t
  PROVE  p <= q
<1>1. Scale \in Nat /\ s < Scale /\ t < Scale BY PriorityQueueAssumption
<1>2. SUFFICES ASSUME q < p PROVE FALSE OBVIOUS
<1>3. /\ q = 1 => p \in 2 .. 4
      /\ q = 2 => p \in 3 .. 4
      /\ q = 3 => p = 4
      /\ q \in 1 .. 3
  BY <1>2
<1> QED BY <1>1, <1>3

-----------------------------------------------------------------------------
\* Every value the queue and its callers hold is of its type.
THEOREM TypeCorrect == Spec => []TypeOK
<1>1. Init => TypeOK
  BY PriorityQueueAssumption DEF Init, TypeOK
<1>2. TypeOK /\ [Next]_vars => TypeOK'
  <2> SUFFICES ASSUME TypeOK, [Next]_vars PROVE TypeOK' OBVIOUS
  <2> USE PriorityQueueAssumption DEF TypeOK
  <2>1. CASE Tick \/ SetBack BY <2>1 DEF Tick, SetBack, ages
  <2>2. CASE \E c \in Call : Stamp(c) BY <2>2 DEF Stamp
  <2>3. CASE \E c \in Call : Zadd(c)
    <3> PICK c \in Call : Zadd(c) BY <2>3
    <3>1. IdOf[c] \in Id /\ stamp[c] \in 0 .. MaxTime OBVIOUS
    <3>2. Score(IdOf[c], stamp[c]) \in Nat
      <4>1. PriorityOf[IdOf[c]] \in Nat /\ Scale \in Nat BY <3>1
      <4> QED BY <3>1, <4>1 DEF Score
    <3>3. CASE IdOf[c] \in queue BY <3>3 DEF Zadd
    <3>4. CASE IdOf[c] \notin queue
      <4>1. score' \in [Id -> Nat] BY <3>1, <3>2, <3>4 DEF Zadd
      <4>2. since' \in [Id -> 0 .. MaxTime] BY <3>1, <3>4 DEF Zadd
      <4>3. ahead' \in [Call \cup Id -> SUBSET Id] BY <3>1, <3>4 DEF Zadd
      <4>4. era' \in [Call \cup Id -> 0 .. MaxSetBacks] BY <3>1, <3>4 DEF Zadd
      <4> QED BY <3>1, <3>4, <4>1, <4>2, <4>3, <4>4 DEF Zadd
    <3> QED BY <3>3, <3>4
  <2>4. CASE \E c \in Call : ZaddFails(c) BY <2>4 DEF ZaddFails, ages
  <2>5. CASE \E m \in Id : Pop(m) BY <2>5 DEF Pop, ages
  <2>6. CASE UNCHANGED vars BY <2>6 DEF vars, ages
  <2> QED BY <2>1, <2>2, <2>3, <2>4, <2>5, <2>6 DEF Next
<1> QED BY <1>1, <1>2, PTL DEF Spec

-----------------------------------------------------------------------------
\* A member's score is the one its stamp gives it.
Scored == \A m \in queue : score[m] = Score(m, since[m])

\* No stamp lies in the future, as long as the clock has not been set back since.
NotAhead ==
  /\ \A m \in queue : era[m] <= setBacks /\ (era[m] = setBacks => since[m] <= clock)
  /\ \A c \in Call : era[c] <= setBacks /\ (era[c] = setBacks => stamp[c] <= clock)

\* Whoever was queued before a call began is still there, and was stamped no
\* later than that call unless the clock was set back in between.
StampedLater ==
  /\ \A c \in Call : \A o \in ahead[c] :
       o \in queue /\ era[o] <= era[c] /\ (era[o] = era[c] => since[o] <= stamp[c])
  /\ \A m \in Id : \A o \in ahead[m] :
       o \in queue /\ era[o] <= era[m] /\ (era[o] = era[m] => since[o] <= since[m])

OrderInv == TypeOK /\ Scored /\ NotAhead /\ StampedLater

LEMMA OrderInvariant == Spec => []OrderInv
<1>1. Init => Scored /\ NotAhead /\ StampedLater
  BY PriorityQueueAssumption DEF Init, Scored, NotAhead, StampedLater
<1>2. OrderInv /\ TypeOK' /\ [Next]_vars => Scored' /\ NotAhead' /\ StampedLater'
  <2> SUFFICES ASSUME OrderInv, TypeOK', [Next]_vars
               PROVE  Scored' /\ NotAhead' /\ StampedLater'
    OBVIOUS
  <2> USE PriorityQueueAssumption DEF OrderInv, TypeOK
  <2>1. CASE Tick BY <2>1 DEF Tick, Scored, NotAhead, StampedLater, Score, ages
  <2>2. CASE SetBack
    <3>1. setBacks \in Nat /\ setBacks' = setBacks + 1 BY <2>2 DEF SetBack
    <3>2. NotAhead'
      <4>1. \A m \in queue : era[m] \in Nat OBVIOUS
      <4>2. \A c \in Call : era[c] \in Nat OBVIOUS
      <4> QED BY <2>2, <3>1, <4>1, <4>2 DEF SetBack, NotAhead
    <3> QED BY <2>2, <3>2 DEF SetBack, Scored, StampedLater, Score
  <2>3. CASE \E c \in Call : Stamp(c)
    <3> PICK c \in Call : Stamp(c) BY <2>3
    <3>1. c \notin Id /\ setBacks \in Nat /\ clock \in Nat OBVIOUS
    <3>2. /\ stamp' = [stamp EXCEPT ![c] = clock] /\ ahead' = [ahead EXCEPT ![c] = queue]
          /\ era' = [era EXCEPT ![c] = setBacks]
          /\ clock' = clock /\ queue' = queue /\ score' = score /\ since' = since
          /\ setBacks' = setBacks
      BY DEF Stamp
    <3>3. Scored' BY <3>2 DEF Scored, Score
    <3>4. \A m \in Id : era'[m] = era[m] /\ ahead'[m] = ahead[m] BY <3>1, <3>2
    <3>5. NotAhead' BY <3>1, <3>2, <3>4 DEF NotAhead
    <3>6. (\A m \in Id : \A o \in ahead[m] :
             o \in queue /\ era[o] <= era[m] /\ (era[o] = era[m] => since[o] <= since[m]))'
      BY <3>2, <3>4 DEF StampedLater
    <3>7. (\A d \in Call : \A o \in ahead[d] :
             o \in queue /\ era[o] <= era[d] /\ (era[o] = era[d] => since[o] <= stamp[d]))'
      <4> SUFFICES ASSUME NEW d \in Call, NEW o \in ahead'[d]
                   PROVE  /\ o \in queue' /\ era'[o] <= era'[d]
                          /\ era'[o] = era'[d] => since'[o] <= stamp'[d]
        OBVIOUS
      <4>1. CASE d = c BY <4>1, <3>2, <3>4 DEF NotAhead
      <4>2. CASE d # c BY <4>2, <3>2, <3>4 DEF StampedLater
      <4> QED BY <4>1, <4>2
    <3> QED BY <3>3, <3>5, <3>6, <3>7 DEF StampedLater
  <2>4. CASE \E c \in Call : Zadd(c)
    <3> PICK c \in Call : Zadd(c) BY <2>4
    <3>1. CASE IdOf[c] \in queue
      BY <3>1 DEF Zadd, Scored, NotAhead, StampedLater, Score
    <3>2. CASE IdOf[c] \notin queue
      <4> DEFINE m == IdOf[c]
      <4>1. m \in Id /\ m \notin Call /\ stamp[c] \in 0 .. MaxTime OBVIOUS
      <4>2. /\ queue' = queue \cup {m} /\ clock' = clock /\ stamp' = stamp
            /\ setBacks' = setBacks
            /\ since' = [since EXCEPT ![m] = stamp[c]]
            /\ score' = [score EXCEPT ![m] = Score(m, stamp[c])]
            /\ ahead' = [ahead EXCEPT ![m] = ahead[c]]
            /\ era' = [era EXCEPT ![m] = era[c]]
        BY <3>2 DEF Zadd
      <4>3. \A o \in queue : since'[o] = since[o] /\ era'[o] = era[o]
        BY <3>2, <4>2
      <4> HIDE DEF m
      <4>4. Scored' BY <4>1, <4>2 DEF Scored, Score
      <4>5. \A d \in Call : ahead'[d] = ahead[d] /\ era'[d] = era[d] BY <4>1, <4>2
      <4>6. (\A d \in Call : \A o \in ahead[d] :
               o \in queue /\ era[o] <= era[d] /\ (era[o] = era[d] => since[o] <= stamp[d]))'
        BY <4>2, <4>3, <4>5 DEF StampedLater
      <4>7. (\A n \in Id : \A o \in ahead[n] :
               o \in queue /\ era[o] <= era[n] /\ (era[o] = era[n] => since[o] <= since[n]))'
        <5> SUFFICES ASSUME NEW n \in Id, NEW o \in ahead'[n]
                     PROVE  /\ o \in queue' /\ era'[o] <= era'[n]
                            /\ era'[o] = era'[n] => since'[o] <= since'[n]
          OBVIOUS
        <5>1. CASE n = m BY <5>1, <4>1, <4>2, <4>3 DEF StampedLater
        <5>2. CASE n # m BY <5>2, <4>1, <4>2, <4>3 DEF StampedLater
        <5> QED BY <5>1, <5>2
      <4>8. era[c] <= setBacks /\ (era[c] = setBacks => stamp[c] <= clock) BY DEF NotAhead
      <4>9. (\A n \in queue : era[n] <= setBacks /\ (era[n] = setBacks => since[n] <= clock))'
        BY <4>1, <4>2, <4>3, <4>8 DEF NotAhead
      <4>10. (\A d \in Call : era[d] <= setBacks /\ (era[d] = setBacks => stamp[d] <= clock))'
        BY <4>2, <4>5 DEF NotAhead
      <4> QED BY <4>4, <4>6, <4>7, <4>9, <4>10 DEF NotAhead, StampedLater
    <3> QED BY <3>1, <3>2
  <2>5. CASE \E c \in Call : ZaddFails(c)
    BY <2>5 DEF ZaddFails, Scored, NotAhead, StampedLater, Score, ages
  <2>6. CASE \E m \in Id : Pop(m)
    BY <2>6 DEF Pop, Scored, NotAhead, StampedLater, Score, ages
  <2>7. CASE UNCHANGED vars BY <2>7 DEF vars, Scored, NotAhead, StampedLater, Score, ages
  <2> QED BY <2>1, <2>2, <2>3, <2>4, <2>5, <2>6, <2>7 DEF Next
<1> QED BY <1>1, <1>2, TypeCorrect, PTL DEF Spec, OrderInv

-----------------------------------------------------------------------------
LEMMA OnlyPopRemoves ==
  ASSUME [Next]_vars, NEW m \in Id, Popped(m)
  PROVE  Pop(m)
<1>1. CASE Tick \/ SetBack BY <1>1 DEF Tick, SetBack, Popped
<1>2. CASE \E c \in Call : Stamp(c) \/ Zadd(c) \/ ZaddFails(c)
  BY <1>2 DEF Stamp, Zadd, ZaddFails, Popped
<1>3. CASE \E o \in Id : Pop(o) BY <1>3 DEF Pop, Popped
<1>4. CASE UNCHANGED vars BY <1>4 DEF vars, Popped
<1> QED BY <1>1, <1>2, <1>3, <1>4 DEF Next

\* What is popped has the least score.
LEMMA PopsLeast ==
  ASSUME OrderInv, NEW m \in Id, Pop(m), NEW o \in queue
  PROVE  /\ PriorityOf[m] <= PriorityOf[o]
         /\ PriorityOf[m] = PriorityOf[o] => since[m] <= since[o]
<1> USE PriorityQueueAssumption DEF OrderInv, TypeOK
<1>1. m \in queue /\ o \in Id BY DEF Pop
<1>2. /\ PriorityOf[m] \in 1 .. 4 /\ PriorityOf[o] \in 1 .. 4
      /\ since[m] \in 0 .. MaxTime /\ since[o] \in 0 .. MaxTime
      /\ score[m] \in Nat /\ score[o] \in Nat
  BY <1>1
<1>3. score[m] <= score[o]
  <2>1. CASE o = m BY <2>1, <1>2
  <2>2. CASE o # m BY <2>2, <1>2 DEF Pop, Before
  <2> QED BY <2>1, <2>2
<1>4. PriorityOf[m] * Scale + since[m] <= PriorityOf[o] * Scale + since[o]
  BY <1>1, <1>3 DEF Scored, Score
<1>5. PriorityOf[m] <= PriorityOf[o] BY <1>2, <1>4, ScoreOrder
<1>6. ASSUME PriorityOf[m] = PriorityOf[o] PROVE since[m] <= since[o]
  <2>1. PICK w \in Int : w = PriorityOf[m] * Scale BY <1>2
  <2> QED BY <1>2, <1>4, <1>6, <2>1
<1> QED BY <1>5, <1>6

\* No less urgent notification is taken while a more urgent one waits: the digits
\* of the time stamp never reach those of the priority.
THEOREM UrgentFirstHolds == Spec => UrgentFirst
<1>1. OrderInv /\ [Next]_vars =>
        [\A m \in Id : Popped(m) => \A o \in queue : PriorityOf[m] <= PriorityOf[o]]_vars
  BY OnlyPopRemoves, PopsLeast
<1> QED BY <1>1, OrderInvariant, PTL DEF Spec, UrgentFirst

\* A notification passes an older one of its priority only within a millisecond or
\* across a correction of the clock, whatever calls overtake each other or are
\* repeated.
THEOREM OvertakenWithinMsHolds == Spec => OvertakenWithinMs
<1>1. OrderInv /\ [Next]_vars =>
        [\A m \in Id : Popped(m) =>
           \A o \in PassedBy(m) : since[o] = since[m] \/ era[o] < era[m]]_vars
  <2> SUFFICES ASSUME OrderInv, [Next]_vars, NEW m \in Id, Popped(m), NEW o \in PassedBy(m)
               PROVE  since[o] = since[m] \/ era[o] < era[m]
    OBVIOUS
  <2>1. Pop(m) BY OnlyPopRemoves
  <2>2. /\ o \in queue /\ PriorityOf[o] = PriorityOf[m]
        /\ era[o] <= era[m] /\ (era[o] = era[m] => since[o] <= since[m])
    BY DEF PassedBy, OrderInv, StampedLater
  <2>3. since[m] <= since[o] BY <2>1, <2>2, PopsLeast
  <2>4. /\ since[m] \in Nat /\ since[o] \in Nat
        /\ era[m] \in Nat /\ era[o] \in Nat
    BY <2>2, PriorityQueueAssumption DEF OrderInv, TypeOK
  <2> QED BY <2>2, <2>3, <2>4
<1> QED BY <1>1, OrderInvariant, PTL DEF Spec, OvertakenWithinMs
=============================================================================

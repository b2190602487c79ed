---------------------------- MODULE PriorityQueue ----------------------------
(***************************************************************************)
(* The order of the Redis queue (QueueService.enqueue and dequeue): a      *)
(* sorted set whose scores put priority before age.  The score is computed *)
(* from a time stamp taken before ZADD is awaited, so calls may overtake   *)
(* each other, and members with equal scores come out in the order of      *)
(* their names, which are decimal numbers compared as strings.  The clock  *)
(* is the host's: when it is corrected it may step back.                   *)
(***************************************************************************)
EXTENDS Integers

CONSTANTS
  Id,          \* ids of notifications
  PriorityOf,  \* the priority column of each
  NameRank,    \* the rank of each id's decimal string among the strings
  Call,        \* calls of enqueue; several may name the same notification
  IdOf,        \* the notification each call names
  Scale,       \* 10 ** 12 in the code: 31 years in milliseconds
  MaxTime,     \* bound: milliseconds between the least time and the last
  MaxSetBacks  \* bound: corrections of the clock that set it back

ASSUME PriorityQueueAssumption ==
  /\ PriorityOf \in [Id -> 1 .. 4]
  /\ NameRank \in [Id -> Nat]
  /\ \A m, o \in Id : NameRank[m] = NameRank[o] => m = o
  /\ IdOf \in [Call -> Id] /\ Call \cap Id = {}
  /\ Scale \in Nat /\ MaxTime \in Nat /\ MaxTime < Scale
  /\ MaxSetBacks \in Nat

VARIABLES
  clock,   \* time.time(), in milliseconds
  at,      \* what each call does next
  stamp,   \* the time stamp each call has taken
  queue,   \* members of the sorted set
  score,   \* their scores
  since,   \* history: the stamp of the call that put each member there
  ahead,   \* history: members there when that call began, and ever since
  setBacks,\* history: times the clock was set back
  era      \* history: setBacks when each call, or each member's, was stamped

ages == <<setBacks, era>>
vars == <<clock, at, stamp, queue, score, since, ahead, ages>>

TypeOK ==
  /\ clock \in 0 .. MaxTime
  /\ at \in [Call -> {"idle", "zadd", "returned"}]
  /\ stamp \in [Call -> 0 .. MaxTime]
  /\ queue \subseteq Id
  /\ score \in [Id -> Nat] /\ since \in [Id -> 0 .. MaxTime]
  /\ ahead \in [Call \cup Id -> SUBSET Id]
  /\ setBacks \in 0 .. MaxSetBacks /\ era \in [Call \cup Id -> 0 .. MaxSetBacks]

Init ==
  /\ clock = 0
  /\ at = [c \in Call |-> "idle"]
  /\ stamp = [c \in Call |-> 0]
  /\ queue = {}
  /\ score = [m \in Id |-> 0]
  /\ since = [m \in Id |-> 0]
  /\ ahead = [x \in Call \cup Id |-> {}]
  /\ setBacks = 0
  /\ era = [x \in Call \cup Id |-> 0]

-----------------------------------------------------------------------------
Tick ==
  /\ clock < MaxTime
  /\ clock' = clock + 1
  /\ UNCHANGED <<at, stamp, queue, score, since, ahead, ages>>

SetBack ==
  /\ setBacks < MaxSetBacks
  /\ setBacks' = setBacks + 1
  /\ \E t \in 0 .. MaxTime : t < clock /\ clock' = t
  /\ UNCHANGED <<at, stamp, queue, score, since, ahead, era>>

\* enqueue, up to its await.
Stamp(c) ==
  /\ at[c] = "idle"
  /\ at' = [at EXCEPT ![c] = "zadd"]
  /\ stamp' = [stamp EXCEPT ![c] = clock]
  /\ ahead' = [ahead EXCEPT ![c] = queue]
  /\ era' = [era EXCEPT ![c] = setBacks]
  /\ UNCHANGED <<clock, queue, score, since, setBacks>>

\* Mutant: the digits of the two parts have been swapped.
ScoreByAge(m, t) == t * Scale + PriorityOf[m]

\* Mutant: urgent ones get the high scores, as if for ZPOPMAX.
ScoreDescending(m, t) == t - PriorityOf[m] * Scale

Score(m, t) == PriorityOf[m] * Scale + t

\* Mutant: ZADD without NX moves a member that is queued already.
ZaddMoves(c) ==
  /\ at[c] = "zadd"
  /\ at' = [at EXCEPT ![c] = "returned"]
  /\ queue' = queue \cup {IdOf[c]}
  /\ score' = [score EXCEPT ![IdOf[c]] = Score(IdOf[c], stamp[c])]
  /\ IF IdOf[c] \in queue
       THEN UNCHANGED <<since, ahead, era>>
       ELSE /\ since' = [since EXCEPT ![IdOf[c]] = stamp[c]]
            /\ ahead' = [ahead EXCEPT ![IdOf[c]] = ahead[c]]
            /\ era' = [era EXCEPT ![IdOf[c]] = era[c]]
  /\ UNCHANGED <<clock, stamp, setBacks>>

\* ZADD NX: a member that is queued already keeps its score.
Zadd(c) ==
  /\ at[c] = "zadd"
  /\ at' = [at EXCEPT ![c] = "returned"]
  /\ \/ IdOf[c] \in queue /\ UNCHANGED <<queue, score, since, ahead, era>>
     \/ /\ IdOf[c] \notin queue
        /\ queue' = queue \cup {IdOf[c]}
        /\ score' = [score EXCEPT ![IdOf[c]] = Score(IdOf[c], stamp[c])]
        /\ since' = [since EXCEPT ![IdOf[c]] = stamp[c]]
        /\ ahead' = [ahead EXCEPT ![IdOf[c]] = ahead[c]]
        /\ era' = [era EXCEPT ![IdOf[c]] = era[c]]
  /\ UNCHANGED <<clock, stamp, setBacks>>

\* enqueue catches every exception and returns FALSE.
ZaddFails(c) ==
  /\ at[c] = "zadd"
  /\ at' = [at EXCEPT ![c] = "returned"]
  /\ UNCHANGED <<clock, stamp, queue, score, since, ahead, ages>>

\* Redis compares scores, and names when the scores are equal.
Before(m, o) ==
  score[m] < score[o] \/ (score[m] = score[o] /\ NameRank[m] < NameRank[o])

\* BZPOPMIN, whichever worker called it.
Pop(m) ==
  /\ m \in queue
  /\ \A o \in queue \ {m} : Before(m, o)
  /\ queue' = queue \ {m}
  /\ ahead' = [x \in Call \cup Id |-> ahead[x] \ {m}]
  /\ UNCHANGED <<clock, at, stamp, score, since, ages>>

Next ==
  \/ Tick \/ SetBack
  \/ \E c \in Call : Stamp(c) \/ Zadd(c) \/ ZaddFails(c)
  \/ \E m \in Id : Pop(m)

Spec == Init /\ [][Next]_vars

-----------------------------------------------------------------------------
Popped(m) == m \in queue /\ m \notin queue'

\* Somebody who was in the queue before m was even asked for, at m's priority.
PassedBy(m) == {o \in ahead[m] : PriorityOf[o] = PriorityOf[m]}

\* A worker never gets a notification while a more urgent one is waiting, however
\* long the less urgent one has waited.
UrgentFirst ==
  [][\A m \in Id : Popped(m) =>
       \A o \in queue : PriorityOf[m] <= PriorityOf[o]]_vars

\* "Within same priority, older notifications process first (FIFO)"
\* (README.md:137), as far as it holds: a notification passes one that was queued
\* before its own enqueue began only if both were stamped in the same millisecond,
\* or the clock was set back between the two stamps.  Enqueueing one again while it
\* waits (a manual retry, a redelivery) does not put it back.
OvertakenWithinMs ==
  [][\A m \in Id : Popped(m) =>
       \A o \in PassedBy(m) : since[o] = since[m] \/ era[o] < era[m]]_vars
=============================================================================

---------------------------- MODULE RequestsProofs ----------------------------
EXTENDS MCRequests, FiniteSetTheorems, FunctionTheorems, TLAPS

-----------------------------------------------------------------------------
(* Sequences. *)

\* The tail of a non-empty sequence is the sequence without its head.
LEMMA TailShifts ==
  ASSUME NEW S, NEW q \in Seq(S), q # <<>>
  PROVE  /\ Tail(q) \in Seq(S)
         /\ DOMAIN Tail(q) = 1..(Len(q) - 1)
         /\ \A i \in 1..(Len(q) - 1) : Tail(q)[i] = q[i + 1] /\ i + 1 \in DOMAIN q
         /\ q[1] \in S /\ 1 \in DOMAIN q /\ Head(q) = q[1]
  OBVIOUS

\* What Append adds.
LEMMA AppendAdds ==
  ASSUME NEW S, NEW q \in Seq(S), NEW x \in S
  PROVE  /\ Append(q, x) \in Seq(S)
         /\ DOMAIN Append(q, x) = DOMAIN q \cup {Len(q) + 1}
         /\ \A i \in DOMAIN q : Append(q, x)[i] = q[i] /\ i < Len(q) + 1
         /\ Append(q, x)[Len(q) + 1] = x
         /\ Len(q) + 1 \notin DOMAIN q
  OBVIOUS

\* The operators of the community modules are the same ones in an instance.
LEMMA SameCardinality == \A S : Bridge!Cardinality(S) = Cardinality(S)
  BY DEF Bridge!Cardinality, Cardinality

\* Number of StreamBridge counts the places that hold the kind.
LEMMA NumberIs == \A q, k : Bridge!Number(q, k) = Cardinality({i \in DOMAIN q : q[i] = k})
  BY SameCardinality DEF Bridge!Number

\* How many elements of a sequence are of a kind is a number.
LEMMA NumberIsNat ==
  ASSUME NEW S, NEW q \in Seq(S), NEW k
  PROVE  /\ IsFiniteSet({i \in DOMAIN q : q[i] = k})
         /\ Bridge!Number(q, k) \in Nat
<1>1. IsFiniteSet(1..Len(q))
  BY FS_Interval
<1>2. {i \in DOMAIN q : q[i] = k} \subseteq 1..Len(q)
  OBVIOUS
<1>3. IsFiniteSet({i \in DOMAIN q : q[i] = k})
  BY <1>1, <1>2, FS_Subset
<1> QED
  BY <1>3, FS_CardinalityType, NumberIs

\* There is none if no element is of that kind.
LEMMA NumberOfNone ==
  ASSUME NEW q, NEW k, \A i \in DOMAIN q : q[i] # k
  PROVE  Bridge!Number(q, k) = 0
<1>1. {i \in DOMAIN q : q[i] = k} = {}
  OBVIOUS
<1> QED
  BY <1>1, FS_EmptySet, NumberIs

\* Append adds one of its kind.
LEMMA NumberOfAppend ==
  ASSUME NEW S, NEW q \in Seq(S), NEW x \in S, NEW k
  PROVE  Bridge!Number(Append(q, x), k) = Bridge!Number(q, k) + (IF x = k THEN 1 ELSE 0)
<1> DEFINE old == {i \in DOMAIN q : q[i] = k}
           new == {i \in DOMAIN Append(q, x) : Append(q, x)[i] = k}
<1>0. /\ Bridge!Number(q, k) = Cardinality(old)
     /\ Bridge!Number(Append(q, x), k) = Cardinality(new)
  BY NumberIs
<1>1. IsFiniteSet(old) /\ Len(q) + 1 \notin old
  BY NumberIsNat, AppendAdds
<1>9. Cardinality(old) \in Nat
  BY <1>1, FS_CardinalityType
<1>2. CASE x = k
  <2>1. new = old \cup {Len(q) + 1}
    BY <1>2, AppendAdds
  <2>2. Cardinality(new) = Cardinality(old) + 1
    BY <1>1, <2>1, FS_AddElement
  <2> QED
    BY <1>0, <1>2, <2>2
<1>3. CASE x # k
  <2>1. new = old
    BY <1>3, AppendAdds
  <2> HIDE DEF old, new
  <2> QED
    BY <1>0, <1>9, <1>3, <2>1
<1> QED
  BY <1>2, <1>3

\* Tail takes one of the kind of the head away.
LEMMA NumberOfTail ==
  ASSUME NEW S, NEW q \in Seq(S), q # <<>>, NEW k
  PROVE  Bridge!Number(q, k) = Bridge!Number(Tail(q), k) + (IF Head(q) = k THEN 1 ELSE 0)
<1> DEFINE old == {i \in DOMAIN q : q[i] = k}
           new == {i \in DOMAIN Tail(q) : Tail(q)[i] = k}
           shifted == old \ {1}
           f == [i \in new |-> i + 1]
<1>0. /\ Bridge!Number(q, k) = Cardinality(old)
     /\ Bridge!Number(Tail(q), k) = Cardinality(new)
  BY NumberIs
<1>1. IsFiniteSet(new) /\ IsFiniteSet(old) /\ Cardinality(new) \in Nat /\ Cardinality(old) \in Nat
  <2>1. Tail(q) \in Seq(S)
    BY TailShifts
  <2>2. IsFiniteSet(new)
    BY <2>1, NumberIsNat
  <2>3. IsFiniteSet(old)
    BY NumberIsNat
  <2> QED
    BY <2>2, <2>3, FS_CardinalityType
<1>2. f \in Bijection(new, shifted)
  <2>1. \A i \in new : i \in Nat /\ i >= 1 /\ f[i] = i + 1 /\ f[i] \in shifted
    BY TailShifts
  <2>2. \A i, j \in new : f[i] = f[j] => i = j
    BY <2>1
  <2>3. \A j \in shifted : \E i \in new : f[i] = j
    <3> SUFFICES ASSUME NEW j \in shifted PROVE \E i \in new : f[i] = j
      OBVIOUS
    <3>1. j - 1 \in 1..(Len(q) - 1) /\ (j - 1) + 1 = j
      OBVIOUS
    <3>2. j - 1 \in new
      BY <3>1, TailShifts
    <3> QED
      BY <3>1, <3>2
  <2> QED
    BY <2>1, <2>2, <2>3, Fun_IsBij
<1>3. Cardinality(shifted) = Cardinality(new)
  BY <1>1, <1>2, FS_Bijection DEF ExistsBijection
<1>4. CASE Head(q) = k
  <2>1. 1 \in old
    BY <1>4, TailShifts
  <2>2. Cardinality(shifted) = Cardinality(old) - 1
    BY <1>1, <2>1, FS_RemoveElement
  <2> HIDE DEF old, new, shifted
  <2> QED
    BY <1>0, <1>1, <1>3, <1>4, <2>2
<1>5. CASE Head(q) # k
  <2>1. shifted = old
    BY <1>5, TailShifts
  <2> HIDE DEF old, new, shifted
  <2> QED
    BY <1>0, <1>1, <1>3, <1>5, <2>1
<1> QED
  BY <1>4, <1>5

-----------------------------------------------------------------------------
(* The two queues of input: the invariant of InputQueue. *)

\* An element of a sequence, and the order number of a queued message.
LEMMA ElementOf ==
  ASSUME NEW S, NEW q \in Seq(S), NEW i \in DOMAIN q
  PROVE  q[i] \in S
  OBVIOUS

\* The number of a queued message is a natural number.
LEMMA OrderIsNat == ASSUME NEW x \in Queued PROVE x.order \in Nat
  BY MaxOrderAssumption DEF Queued

\* The same for every message of the two deques.
LEMMA OrdersAreNat ==
  ASSUME NEW q \in Seq(Queued), NEW i \in DOMAIN q
  PROVE  q[i].order \in Nat
  BY ElementOf, OrderIsNat

\* The types and the order of the deques.
IInv == TypeOK /\ QueuesAscending

\* Nothing is queued at first.
LEMMA InitEstablishes == Init => IInv
<1> SUFFICES ASSUME Init PROVE IInv
  OBVIOUS
<1>1. TypeOK
  <2>1. <<>> \in Seq(Queued)
    OBVIOUS
  <2>2. 0 \in 0..MaxOrder
    BY MaxOrderAssumption
  <2> QED
    BY <2>1, <2>2 DEF Init, TypeOK
<1>2. DOMAIN steering = {} /\ DOMAIN followUps = {}
  BY DEF Init
<1> QED
  BY <1>1, <1>2 DEF IInv, QueuesAscending, Ascending

\* Taking the head of a queue keeps its order and adds no message to it.
LEMMA TailAscends ==
  ASSUME NEW q \in Seq(Queued), q # <<>>, Ascending(q)
  PROVE  /\ Ascending(Tail(q))
         /\ \A i \in DOMAIN Tail(q) : \E j \in DOMAIN q : Tail(q)[i] = q[j]
<1>1. \A i \in DOMAIN Tail(q) : Tail(q)[i] = q[i + 1] /\ i + 1 \in DOMAIN q
  BY TailShifts
<1>2. \A i, j \in DOMAIN Tail(q) : i < j => i + 1 < j + 1
  BY TailShifts
<1> QED
  BY <1>1, <1>2 DEF Ascending

\* Submitting at the end keeps the order.
LEMMA AppendAscends ==
  ASSUME NEW q \in Seq(Queued), Ascending(q), NEW x \in Queued,
         \A i \in DOMAIN q : q[i].order < x.order
  PROVE  Ascending(Append(q, x))
<1> SUFFICES ASSUME NEW i \in DOMAIN Append(q, x), NEW j \in DOMAIN Append(q, x), i < j
             PROVE  Append(q, x)[i].order < Append(q, x)[j].order
  BY DEF Ascending
<1>1. i \in DOMAIN q
  BY AppendAdds
<1>2. CASE j \in DOMAIN q
  BY <1>1, <1>2, AppendAdds DEF Ascending
<1>3. CASE j = Len(q) + 1
  BY <1>1, <1>3, AppendAdds
<1> QED
  BY <1>2, <1>3, AppendAdds

\* Every operation keeps the types and the order.
LEMMA StepPreserves == IInv /\ [Next]_vars => IInv'
<1> SUFFICES ASSUME IInv, [Next]_vars PROVE IInv'
  OBVIOUS
<1> USE MaxOrderAssumption DEF IInv, TypeOK, QueuesAscending
<1>1. ASSUME NEW m \in Messages, Steer(m) PROVE IInv'
  <2>1. NewMessage(m) \in Queued /\ NewMessage(m).order = queueOrder
    BY <1>1 DEF Steer, NewMessage, Queued
  <2>2. steering' \in Seq(Queued) /\ Ascending(steering')
    BY <1>1, <2>1, AppendAdds, AppendAscends DEF Steer
  <2>3. queueOrder' = queueOrder + 1 /\ queueOrder' \in 0..MaxOrder
        /\ UNCHANGED <<followUps, deferSteering>>
    BY <1>1 DEF Steer
  <2>4. \A i \in DOMAIN steering' :
          steering'[i].order = queueOrder \/ \E j \in DOMAIN steering : steering'[i] = steering[j]
    BY <1>1, <2>1, AppendAdds DEF Steer
  <2>5. /\ \A i \in DOMAIN steering' : steering'[i].order < queueOrder'
        /\ \A i \in DOMAIN followUps : followUps[i].order < queueOrder'
    BY <2>3, <2>4, OrdersAreNat
  <2>6. \A i \in DOMAIN steering', j \in DOMAIN followUps : steering'[i].order # followUps[j].order
    BY <2>4, OrdersAreNat
  <2> QED
    BY <2>2, <2>3, <2>5, <2>6
<1>2. ASSUME NEW m \in Messages, FollowUp(m) PROVE IInv'
  <2>1. NewMessage(m) \in Queued /\ NewMessage(m).order = queueOrder
    BY <1>2 DEF FollowUp, NewMessage, Queued
  <2>2. followUps' \in Seq(Queued) /\ Ascending(followUps')
    BY <1>2, <2>1, AppendAdds, AppendAscends DEF FollowUp
  <2>3. queueOrder' = queueOrder + 1 /\ queueOrder' \in 0..MaxOrder
        /\ UNCHANGED <<steering, deferSteering>>
    BY <1>2 DEF FollowUp
  <2>4. \A i \in DOMAIN followUps' :
          followUps'[i].order = queueOrder \/ \E j \in DOMAIN followUps : followUps'[i] = followUps[j]
    BY <1>2, <2>1, AppendAdds DEF FollowUp
  <2>5. /\ \A i \in DOMAIN followUps' : followUps'[i].order < queueOrder'
        /\ \A i \in DOMAIN steering : steering[i].order < queueOrder'
    BY <2>3, <2>4, OrdersAreNat
  <2>6. \A i \in DOMAIN followUps', j \in DOMAIN steering : followUps'[i].order # steering[j].order
    BY <2>4, OrdersAreNat
  <2> QED
    BY <2>2, <2>3, <2>5, <2>6
<1>3. ASSUME NEW late \in BOOLEAN, PopSteering(late) PROVE IInv'
  <2>1. steering # <<>> /\ steering' = Tail(steering)
    BY <1>3 DEF PopSteering, SteeringReady, SteeringIsNext
  <2>2. /\ steering' \in Seq(Queued) /\ Ascending(steering')
        /\ \A i \in DOMAIN steering' : \E j \in DOMAIN steering : steering'[i] = steering[j]
    BY <2>1, TailShifts, TailAscends
  <2> QED
    BY <1>3, <2>2 DEF PopSteering
<1>4. CASE PopFollowUp
  <2>1. /\ followUps' \in Seq(Queued) /\ Ascending(followUps')
        /\ \A i \in DOMAIN followUps' : \E j \in DOMAIN followUps : followUps'[i] = followUps[j]
    BY <1>4, TailShifts, TailAscends DEF PopFollowUp
  <2> QED
    BY <1>4, <2>1 DEF PopFollowUp
<1>5. CASE TakeUnapplied
  BY <1>5 DEF TakeUnapplied, Ascending
<1>6. ASSUME NEW v \in BOOLEAN, SetDeferSteering(v) PROVE IInv'
  BY <1>6 DEF SetDeferSteering
<1>7. CASE UNCHANGED vars
  BY <1>7 DEF vars
<1> QED
  BY <1>1, <1>2, <1>3, <1>4, <1>5, <1>6, <1>7 DEF Next

\* The invariant of the two deques.
THEOREM Invariance == Spec => []IInv
<1> QED
  BY InitEstablishes, StepPreserves, PTL DEF Spec

\* Both deques stay in submission order and share no number.
THEOREM OrderKept == Spec => []QueuesAscending
<1>1. IInv => QueuesAscending
  BY DEF IInv
<1> QED
  BY <1>1, Invariance, PTL

\* A steering message handed out is older than every follow-up that waits:
\* comparing the heads is enough because both deques are in order.
THEOREM SteeringKeepsItsPlace == Spec => NoOvertaking
<1> DEFINE Older == steering # <<>> /\ steering' = Tail(steering) /\ UNCHANGED followUps
                      => \A j \in DOMAIN followUps : steering[1].order < followUps[j].order
<1>1. IInv /\ [Next]_vars => [Older]_vars
  <2> SUFFICES ASSUME IInv, Next, steering # <<>>, steering' = Tail(steering),
                      UNCHANGED followUps, NEW j \in DOMAIN followUps
               PROVE  steering[1].order < followUps[j].order
    OBVIOUS
  <2> USE MaxOrderAssumption DEF IInv, TypeOK
  <2>1. Len(steering') = Len(steering) - 1 /\ Len(steering) \in Nat /\ Len(steering) > 0
    BY TailShifts
  <2>2. \E late \in BOOLEAN : PopSteering(late)
    <3>1. ASSUME NEW m \in Messages, Steer(m) PROVE FALSE
      BY <3>1, <2>1 DEF Steer
    <3>2. ASSUME NEW m \in Messages, FollowUp(m) PROVE FALSE
      BY <3>2, <2>1 DEF FollowUp
    <3>3. CASE PopFollowUp
      BY <3>3, <2>1 DEF PopFollowUp
    <3>4. CASE TakeUnapplied
      BY <3>4 DEF TakeUnapplied
    <3>5. ASSUME NEW v \in BOOLEAN, SetDeferSteering(v) PROVE FALSE
      BY <3>5, <2>1 DEF SetDeferSteering
    <3> QED
      BY <3>1, <3>2, <3>3, <3>4, <3>5 DEF Next
  <2>3. steering[1].order <= followUps[1].order
    <3>1. followUps # <<>>
      OBVIOUS
    <3> QED
      BY <2>2, <3>1 DEF PopSteering, SteeringReady, SteeringIsNext
  <2>4. followUps[1].order <= followUps[j].order
    <3>1. 1 \in DOMAIN followUps /\ j \in Nat /\ (j = 1 \/ 1 < j)
      OBVIOUS
    <3> QED
      BY <3>1, OrdersAreNat DEF QueuesAscending, Ascending
  <2>5. steering[1].order # followUps[j].order
    BY TailShifts DEF QueuesAscending
  <2>6. /\ steering[1].order \in Nat /\ followUps[1].order \in Nat
        /\ followUps[j].order \in Nat
    BY TailShifts, OrdersAreNat
  <2> QED
    BY <2>3, <2>4, <2>5, <2>6
<1> QED
  BY <1>1, Invariance, PTL DEF Spec, NoOvertaking

-----------------------------------------------------------------------------
(* A model request: the invariant of StreamBridge. *)

Callbacks == {"create", "cancel", "release"}

Chunks == Bridge!Number(queue, "CHUNK")
Releases == Bridge!Number(ready, "release")

\* Nothing has happened before the consumer starts.
Fresh ==
  consumer = "new" =>
    /\ state = "new" /\ ~closed /\ pump = "none" /\ ready = <<>>
    /\ \A c \in Bridge!Callers : cancelling[c] \notin {"waking", "scheduling"}

\* Without a task nothing was sent.
NoTask == pump = "none" => sent = 0 /\ received = 0 /\ Chunks = 0 /\ Releases = 0

\* The task is created by the first callback, at most once, and never after a close.
CreateFirst == \A i \in DOMAIN ready : ready[i] = "create" => i = 1 /\ pump = "none" /\ ~closed

\* Slots are free, hold a chunk or are on their way back: never more than there are.
SlotsBounded == pump # "none" => slots + Chunks + Releases <= MaxBuffered

\* While a live request runs none is lost.
SlotsKept ==
  ~cancelRequested /\ loop = "open" /\ pump \in Bridge!Requesting
    => slots + Chunks + Releases = MaxBuffered

\* What was sent is received or in the queue, as long as the consumer goes on.
Arriving ==
  /\ consumer \in {"new", "blocked", "reading", "using"} => received + Chunks = sent
  /\ received <= sent
  /\ pump = "acquiring" => sent < MaxChunks

\* The end comes after the last chunk.
DoneLast ==
  \A i \in DOMAIN queue : queue[i] = "DONE" =>
    pump \in {"ended", "done"} /\ \A j \in DOMAIN queue : i < j => queue[j] # "CHUNK"

\* Completed means all of it was received.
Completed == result = "completed" => received = sent /\ pump \in {"ended", "done"}

\* A closed bridge has no request.
ClosedEnds == closed => pump \notin Bridge!Requesting

BridgeInv ==
  /\ Bridge!TypeOK /\ Fresh /\ NoTask /\ CreateFirst /\ SlotsBounded /\ SlotsKept /\ Arriving
  /\ DoneLast /\ Completed /\ ClosedEnds

\* The two counts are natural numbers.
LEMMA CountsAreNat ==
  ASSUME Bridge!TypeOK
  PROVE  Chunks \in Nat /\ Releases \in Nat
<1>1. queue \in Seq(Bridge!Kinds) /\ ready \in Seq(Callbacks)
  BY DEF Bridge!TypeOK, Callbacks
<1> QED
  BY <1>1, NumberIsNat DEF Chunks, Releases

\* What is not touched is counted alike.
LEMMA QueueKept == UNCHANGED queue => Chunks' = Chunks
  BY DEF Chunks

\* The same for the callbacks of the loop.
LEMMA ReadyKept == UNCHANGED ready => Releases' = Releases
  BY DEF Releases

\* An element put into the queue: the count and where the others are.
LEMMA QueueGrows ==
  ASSUME Bridge!TypeOK, NEW x \in Bridge!Kinds, queue' = Append(queue, x)
  PROVE  /\ queue' \in Seq(Bridge!Kinds)
         /\ Chunks' = Chunks + (IF x = "CHUNK" THEN 1 ELSE 0)
         /\ \A i \in DOMAIN queue' :
              \/ i = Len(queue) + 1 /\ queue'[i] = x
              \/ i \in DOMAIN queue /\ queue'[i] = queue[i] /\ i < Len(queue) + 1
<1>1. queue \in Seq(Bridge!Kinds)
  BY DEF Bridge!TypeOK
<1> QED
  BY <1>1, AppendAdds, NumberOfAppend DEF Chunks

\* An element taken from the queue.
LEMMA QueueShrinks ==
  ASSUME Bridge!TypeOK, queue # <<>>, queue' = Tail(queue)
  PROVE  /\ queue' \in Seq(Bridge!Kinds)
         /\ Chunks = Chunks' + (IF Head(queue) = "CHUNK" THEN 1 ELSE 0)
         /\ Chunks' \in Nat
         /\ \A i \in DOMAIN queue' : queue'[i] = queue[i + 1] /\ i + 1 \in DOMAIN queue
         /\ Head(queue) = queue[1] /\ 1 \in DOMAIN queue
<1>1. queue \in Seq(Bridge!Kinds)
  BY DEF Bridge!TypeOK
<1> QED
  BY <1>1, TailShifts, NumberOfTail, NumberIsNat DEF Chunks

\* A callback scheduled on the loop.
LEMMA ReadyGrows ==
  ASSUME Bridge!TypeOK, NEW x \in Callbacks, ready' = Append(ready, x)
  PROVE  /\ ready' \in Seq(Callbacks)
         /\ Releases' = Releases + (IF x = "release" THEN 1 ELSE 0)
         /\ \A i \in DOMAIN ready' :
              \/ i = Len(ready) + 1 /\ ready'[i] = x
              \/ i \in DOMAIN ready /\ ready'[i] = ready[i]
<1>1. ready \in Seq(Callbacks)
  BY DEF Bridge!TypeOK, Callbacks
<1> QED
  BY <1>1, AppendAdds, NumberOfAppend DEF Releases

\* A callback the loop has run; creating the task is the first of all.
LEMMA ReadyShrinks ==
  ASSUME Bridge!TypeOK, CreateFirst, ready # <<>>, ready' = Tail(ready)
  PROVE  /\ ready' \in Seq(Callbacks)
         /\ Releases = Releases' + (IF Head(ready) = "release" THEN 1 ELSE 0)
         /\ Releases' \in Nat
         /\ \A i \in DOMAIN ready' : ready'[i] # "create"
         /\ Head(ready) = ready[1] /\ 1 \in DOMAIN ready
<1>1. ready \in Seq(Callbacks)
  BY DEF Bridge!TypeOK, Callbacks
<1>2. \A i \in DOMAIN ready' : ready'[i] = ready[i + 1] /\ i + 1 \in DOMAIN ready /\ i + 1 # 1
  BY <1>1, TailShifts
<1>3. \A i \in DOMAIN ready' : ready'[i] # "create"
  BY <1>2 DEF CreateFirst
<1> QED
  BY <1>1, <1>3, TailShifts, NumberOfTail, NumberIsNat DEF Releases

\* A callback scheduled only if the loop is not closed.
LEMMA ReadyMayGrow ==
  ASSUME Bridge!TypeOK, NEW x \in {"cancel", "release"},
         ready' = IF loop = "closed" THEN ready ELSE Append(ready, x)
  PROVE  /\ ready' \in Seq(Callbacks)
         /\ Releases' = Releases + (IF ready' # ready /\ x = "release" THEN 1 ELSE 0)
         /\ loop = "open" => ready' # ready
         /\ \A i \in DOMAIN ready' :
                ready'[i] = "create" => i \in DOMAIN ready /\ ready[i] = "create"
<1>1. ready \in Seq(Callbacks) /\ Releases \in Nat
  BY CountsAreNat DEF Bridge!TypeOK, Callbacks
<1>2. CASE loop = "closed"
  BY <1>1, <1>2, ReadyKept
<1>3. CASE loop # "closed"
  <2>1. x \in Callbacks /\ ready' = Append(ready, x)
    BY <1>3 DEF Callbacks
  <2> QED
    BY <1>3, <2>1, ReadyGrows
<1> QED
  BY <1>2, <1>3

\* The consumer takes a chunk and schedules the release of its slot.
LEMMA GetChunkKeeps ==
  ASSUME BridgeInv, Bridge!GetChunk
  PROVE  BridgeInv'
<1>1. Bridge!TypeOK /\ CreateFirst /\ Fresh /\ NoTask /\ Chunks \in Nat /\ Releases \in Nat
  BY CountsAreNat DEF BridgeInv
<1>2. /\ consumer = "reading"
      /\ ~cancelRequested
      /\ Head(queue) = "CHUNK"
      /\ received' = received + 1
      /\ consumer' = "using"
      /\ UNCHANGED <<state, cancelRequested, closed, loop, pump, cancelled, outcome, slots,
                     sent, result, cancelling>>
  BY DEF Bridge!GetChunk, Bridge!flagVars, Bridge!taskVars, Bridge!ReleaseSlot
<1>3. queue # <<>> /\ queue' = Tail(queue)
  BY DEF Bridge!GetChunk, Bridge!flagVars, Bridge!taskVars, Bridge!ReleaseSlot
<1>4. Chunks = Chunks' + (IF Head(queue) = "CHUNK" THEN 1 ELSE 0) /\ Chunks' \in Nat
  BY <1>1, <1>3, QueueShrinks
<1>5. /\ queue' \in Seq(Bridge!Kinds)
      /\ \A i \in DOMAIN queue' : queue'[i] = queue[i + 1] /\ i + 1 \in DOMAIN queue
      /\ Head(queue) = queue[1] /\ 1 \in DOMAIN queue
  BY <1>1, <1>3, QueueShrinks
<1>6. ready' = IF loop = "closed" THEN ready ELSE Append(ready, "release")
  BY DEF Bridge!GetChunk, Bridge!flagVars, Bridge!taskVars, Bridge!ReleaseSlot
<1>7. Releases' = Releases + (IF loop # "closed" THEN 1 ELSE 0)
  BY <1>1, <1>6, ReadyMayGrow
<1>8. /\ ready' \in Seq(Callbacks)
      /\ \A i \in DOMAIN ready' :
             ready'[i] = "create" => i \in DOMAIN ready /\ ready[i] = "create"
  BY <1>1, <1>6, ReadyMayGrow
<1>9. pump # "none"
  BY <1>1, <1>2, <1>4, <1>7 DEF NoTask, Chunks, Releases
<1>10. slots' \in 0..MaxBuffered /\ sent' \in 0..MaxChunks /\ received' \in 0..MaxChunks
  BY <1>1, <1>2, <1>4, <1>7, <1>9, BridgeConstants DEF BridgeInv, Bridge!TypeOK,
     Bridge!BufferAssumption, Arriving, SlotsBounded, Chunks, Releases
<1>11. Bridge!TypeOK'
  BY <1>1, <1>2, <1>10, <1>5, <1>8 DEF BridgeInv, Bridge!TypeOK, Bridge!Kinds, Bridge!Outcomes,
     Bridge!Requesting, Callbacks
<1>12. Fresh'
  BY <1>1, <1>2, <1>4, <1>7, <1>9 DEF BridgeInv, Fresh, Bridge!TypeOK
<1>13. NoTask'
  BY <1>1, <1>2, <1>4, <1>7, <1>9, BridgeConstants DEF BridgeInv, NoTask, Bridge!TypeOK,
     Bridge!BufferAssumption, Bridge!Requesting, Chunks, Releases
<1>14. CreateFirst'
  BY <1>1, <1>2, <1>4, <1>7, <1>9, <1>5, <1>8 DEF BridgeInv, CreateFirst
<1>15. SlotsBounded'
  BY <1>1, <1>2, <1>4, <1>7, <1>9, BridgeConstants DEF BridgeInv, SlotsBounded, Bridge!TypeOK,
     Bridge!BufferAssumption, Bridge!Requesting, Chunks, Releases
<1>16. SlotsKept'
  BY <1>1, <1>2, <1>4, <1>7, <1>9, BridgeConstants DEF BridgeInv, SlotsKept, Bridge!TypeOK,
     Bridge!BufferAssumption, Bridge!Requesting, Chunks, Releases
<1>17. Arriving'
  BY <1>1, <1>2, <1>4, <1>7, <1>9, BridgeConstants DEF BridgeInv, Arriving, Bridge!TypeOK,
     Bridge!BufferAssumption, Bridge!Requesting, Chunks, Releases
<1>18. DoneLast'
  BY <1>1, <1>2, <1>4, <1>7, <1>9, <1>5, <1>8 DEF BridgeInv, DoneLast, Bridge!Requesting,
     Chunks, Releases
<1>19. Completed'
  BY <1>1, <1>2, <1>4, <1>7, <1>9 DEF BridgeInv, Completed, NoTask, Arriving, Bridge!TypeOK,
     Chunks, Releases
<1>20. ClosedEnds'
  BY <1>1, <1>2, <1>4, <1>7, <1>9, BridgeConstants DEF BridgeInv, ClosedEnds, Bridge!TypeOK,
     Bridge!BufferAssumption, Bridge!Requesting
<1> QED
  BY <1>11, <1>12, <1>13, <1>14, <1>15, <1>16, <1>17, <1>18, <1>19, <1>20 DEF BridgeInv

\* The consumer takes the end, an error, or learns that it is cancelled.
LEMMA GetLastKeeps ==
  ASSUME BridgeInv, Bridge!GetLast
  PROVE  BridgeInv'
<1>1. Bridge!TypeOK /\ CreateFirst /\ Fresh /\ NoTask /\ Chunks \in Nat /\ Releases \in Nat
  BY CountsAreNat DEF BridgeInv
<1>2. /\ consumer = "reading"
      /\ Head(queue) # "CHUNK" \/ cancelRequested
      /\ consumer' = "settling"
      /\ result' \in {"completed", "failed", "cancelled"}
      /\ result' = "completed" => Head(queue) = "DONE"
      /\ UNCHANGED <<state, cancelRequested, closed, loop, pump, cancelled, outcome, slots,
                     sent, received, cancelling>>
  BY DEF Bridge!GetLast, Bridge!Settle, Bridge!ResultOf, Bridge!flagVars, Bridge!loopVars,
     Bridge!taskVars
<1>3. queue # <<>> /\ queue' = Tail(queue)
  BY DEF Bridge!GetLast, Bridge!Settle, Bridge!ResultOf, Bridge!flagVars, Bridge!loopVars,
     Bridge!taskVars
<1>4. Chunks = Chunks' + (IF Head(queue) = "CHUNK" THEN 1 ELSE 0) /\ Chunks' \in Nat
  BY <1>1, <1>3, QueueShrinks
<1>5. /\ queue' \in Seq(Bridge!Kinds)
      /\ \A i \in DOMAIN queue' : queue'[i] = queue[i + 1] /\ i + 1 \in DOMAIN queue
      /\ Head(queue) = queue[1] /\ 1 \in DOMAIN queue
  BY <1>1, <1>3, QueueShrinks
<1>6. UNCHANGED ready /\ Releases' = Releases
  BY ReadyKept DEF Bridge!GetLast, Bridge!Settle, Bridge!ResultOf, Bridge!flagVars,
     Bridge!loopVars, Bridge!taskVars
<1>7. ASSUME Head(queue) = "DONE"
      PROVE  received = sent /\ pump \in {"ended", "done"}
  <2>1. \A i \in DOMAIN queue : i \in Nat /\ i >= 1
    BY <1>1 DEF Bridge!TypeOK
  <2>2. \A i \in DOMAIN queue : queue[i] # "CHUNK"
    BY <1>7, <2>1, <1>5 DEF BridgeInv, DoneLast
  <2>3. Chunks = 0
    BY <2>2, NumberOfNone DEF Chunks
  <2> QED
    BY <1>7, <2>3, <1>1, <1>2, <1>5 DEF BridgeInv, Arriving, DoneLast, Bridge!TypeOK
<1>8. slots' \in 0..MaxBuffered /\ sent' \in 0..MaxChunks /\ received' \in 0..MaxChunks
  BY <1>1, <1>2, <1>4, <1>6, BridgeConstants DEF BridgeInv, Bridge!TypeOK,
     Bridge!BufferAssumption, Arriving, SlotsBounded, Chunks, Releases
<1>9. Bridge!TypeOK'
  BY <1>1, <1>2, <1>8, <1>5, <1>6 DEF BridgeInv, Bridge!TypeOK, Bridge!Kinds, Bridge!Outcomes,
     Bridge!Requesting, Callbacks
<1>10. Fresh'
  BY <1>1, <1>2, <1>4, <1>6, <1>5, <1>6 DEF BridgeInv, Fresh, Bridge!TypeOK
<1>11. NoTask'
  BY <1>1, <1>2, <1>4, <1>6, BridgeConstants DEF BridgeInv, NoTask, Bridge!TypeOK,
     Bridge!BufferAssumption, Bridge!Requesting, Chunks, Releases
<1>12. CreateFirst'
  BY <1>1, <1>2, <1>4, <1>6, <1>5, <1>6 DEF BridgeInv, CreateFirst
<1>13. SlotsBounded'
  BY <1>1, <1>2, <1>4, <1>6, BridgeConstants DEF BridgeInv, SlotsBounded, Bridge!TypeOK,
     Bridge!BufferAssumption, Bridge!Requesting, Chunks, Releases
<1>14. SlotsKept'
  BY <1>1, <1>2, <1>4, <1>6, BridgeConstants DEF BridgeInv, SlotsKept, Bridge!TypeOK,
     Bridge!BufferAssumption, Bridge!Requesting, Chunks, Releases
<1>15. Arriving'
  BY <1>1, <1>2, <1>4, <1>6, BridgeConstants DEF BridgeInv, Arriving, Bridge!TypeOK,
     Bridge!BufferAssumption, Bridge!Requesting, Chunks, Releases
<1>16. DoneLast'
  BY <1>1, <1>2, <1>4, <1>6, <1>5, <1>6 DEF BridgeInv, DoneLast, Bridge!Requesting, Chunks,
     Releases
<1>17. Completed'
  BY <1>2, <1>7 DEF BridgeInv, Completed
<1>18. ClosedEnds'
  BY <1>1, <1>2, <1>4, <1>6, BridgeConstants DEF BridgeInv, ClosedEnds, Bridge!TypeOK,
     Bridge!BufferAssumption, Bridge!Requesting
<1> QED
  BY <1>9, <1>10, <1>11, <1>12, <1>13, <1>14, <1>15, <1>16, <1>17, <1>18 DEF BridgeInv

\* The loop creates the task of the request.
LEMMA CreateTaskKeeps ==
  ASSUME BridgeInv, Bridge!CreateTask
  PROVE  BridgeInv'
<1>1. Bridge!TypeOK /\ CreateFirst /\ Fresh /\ NoTask /\ Chunks \in Nat /\ Releases \in Nat
  BY CountsAreNat DEF BridgeInv
<1>2. /\ Head(ready) = "create"
      /\ loop # "closed"
      /\ ~cancelRequested
      /\ pump' = "created" /\ slots' = MaxBuffered
      /\ UNCHANGED <<state, cancelRequested, closed, loop, cancelled, outcome, sent, received,
                     consumer, result, cancelling>>
  BY DEF Bridge!CreateTask, Bridge!RunCallback, Bridge!flagVars, Bridge!readerVars
<1>3. UNCHANGED queue /\ Chunks' = Chunks
  BY QueueKept DEF Bridge!CreateTask, Bridge!RunCallback, Bridge!flagVars, Bridge!readerVars
<1>4. ready # <<>> /\ ready' = Tail(ready)
  BY DEF Bridge!CreateTask, Bridge!RunCallback, Bridge!flagVars, Bridge!readerVars
<1>5. Releases = Releases' + (IF Head(ready) = "release" THEN 1 ELSE 0) /\ Releases' \in Nat
  BY <1>1, <1>4, ReadyShrinks
<1>6. /\ ready' \in Seq(Callbacks)
      /\ \A i \in DOMAIN ready' : ready'[i] # "create"
  BY <1>1, <1>4, ReadyShrinks
<1>7. ready[1] = Head(ready) /\ 1 \in DOMAIN ready
  BY <1>1, <1>4, ReadyShrinks
<1>8. pump = "none" /\ ~closed /\ sent = 0 /\ received = 0 /\ Chunks = 0 /\ Releases = 0 /\ consumer # "new"
  BY <1>1, <1>2, <1>4, <1>7 DEF CreateFirst, NoTask, Fresh, Chunks, Releases
<1>9. slots' \in 0..MaxBuffered /\ sent' \in 0..MaxChunks /\ received' \in 0..MaxChunks
  BY <1>1, <1>2, <1>3, <1>5, <1>8, BridgeConstants DEF BridgeInv, Bridge!TypeOK,
     Bridge!BufferAssumption, Arriving, SlotsBounded, Chunks, Releases
<1>10. Bridge!TypeOK'
  BY <1>1, <1>2, <1>9, <1>3, <1>6 DEF BridgeInv, Bridge!TypeOK, Bridge!Kinds, Bridge!Outcomes,
     Bridge!Requesting, Callbacks
<1>11. Fresh'
  BY <1>1, <1>2, <1>3, <1>5, <1>8 DEF BridgeInv, Fresh, Bridge!TypeOK
<1>12. NoTask'
  BY <1>1, <1>2, <1>3, <1>5, <1>8, BridgeConstants DEF BridgeInv, NoTask, Bridge!TypeOK,
     Bridge!BufferAssumption, Bridge!Requesting, Chunks, Releases
<1>13. CreateFirst'
  BY <1>1, <1>2, <1>3, <1>5, <1>8, <1>3, <1>6 DEF BridgeInv, CreateFirst
<1>14. SlotsBounded'
  BY <1>1, <1>2, <1>3, <1>5, <1>8, BridgeConstants DEF BridgeInv, SlotsBounded, Bridge!TypeOK,
     Bridge!BufferAssumption, Bridge!Requesting, Chunks, Releases
<1>15. SlotsKept'
  BY <1>1, <1>2, <1>3, <1>5, <1>8, BridgeConstants DEF BridgeInv, SlotsKept, Bridge!TypeOK,
     Bridge!BufferAssumption, Bridge!Requesting, Chunks, Releases
<1>16. Arriving'
  BY <1>1, <1>2, <1>3, <1>5, <1>8, BridgeConstants DEF BridgeInv, Arriving, Bridge!TypeOK,
     Bridge!BufferAssumption, Bridge!Requesting, Chunks, Releases
<1>17. DoneLast'
  BY <1>1, <1>2, <1>3, <1>5, <1>8, <1>3, <1>6 DEF BridgeInv, DoneLast, Bridge!Requesting,
     Chunks, Releases
<1>18. Completed'
  BY <1>1, <1>2, <1>3, <1>5, <1>8 DEF BridgeInv, Completed, NoTask, Arriving, Bridge!TypeOK,
     Chunks, Releases
<1>19. ClosedEnds'
  BY <1>1, <1>2, <1>3, <1>5, <1>8, BridgeConstants DEF BridgeInv, ClosedEnds, Bridge!TypeOK,
     Bridge!BufferAssumption, Bridge!Requesting
<1> QED
  BY <1>10, <1>11, <1>12, <1>13, <1>14, <1>15, <1>16, <1>17, <1>18, <1>19 DEF BridgeInv

\* The loop creates no task for a request that is cancelled already.
LEMMA CreateCancelledKeeps ==
  ASSUME BridgeInv, Bridge!CreateCancelled
  PROVE  BridgeInv'
<1>1. Bridge!TypeOK /\ CreateFirst /\ Fresh /\ NoTask /\ Chunks \in Nat /\ Releases \in Nat
  BY CountsAreNat DEF BridgeInv
<1>2. /\ Head(ready) = "create"
      /\ cancelRequested
      /\ state' = "finished" /\ closed' = TRUE
      /\ UNCHANGED <<cancelRequested, loop, pump, cancelled, outcome, slots, sent, received,
                     consumer, result, cancelling>>
  BY DEF Bridge!CreateCancelled, Bridge!RunCallback, Bridge!Finish, Bridge!readerVars,
     Bridge!taskVars
<1>3. "CANCELLED" \in Bridge!Kinds /\ "CANCELLED" # "CHUNK" /\ queue' = Append(queue, "CANCELLED")
  BY <1>1 DEF Bridge!CreateCancelled, Bridge!RunCallback, Bridge!Finish, Bridge!readerVars,
     Bridge!taskVars, Bridge!TypeOK, Bridge!Kinds, Bridge!Outcomes
<1>4. Chunks' = Chunks
  BY <1>1, <1>3, QueueGrows
<1>5. /\ queue' \in Seq(Bridge!Kinds)
      /\ \A i \in DOMAIN queue' :
           \/ i = Len(queue) + 1 /\ queue'[i] = "CANCELLED" /\ "CANCELLED" # "CHUNK"
           \/ i \in DOMAIN queue /\ queue'[i] = queue[i] /\ i < Len(queue) + 1
  BY <1>1, <1>3, QueueGrows
<1>6. ready # <<>> /\ ready' = Tail(ready)
  BY DEF Bridge!CreateCancelled, Bridge!RunCallback, Bridge!Finish, Bridge!readerVars,
     Bridge!taskVars
<1>7. Releases = Releases' + (IF Head(ready) = "release" THEN 1 ELSE 0) /\ Releases' \in Nat
  BY <1>1, <1>6, ReadyShrinks
<1>8. /\ ready' \in Seq(Callbacks)
      /\ \A i \in DOMAIN ready' : ready'[i] # "create"
  BY <1>1, <1>6, ReadyShrinks
<1>9. ready[1] = Head(ready) /\ 1 \in DOMAIN ready
  BY <1>1, <1>6, ReadyShrinks
<1>10. pump = "none" /\ ~closed /\ sent = 0 /\ received = 0 /\ Chunks = 0 /\ Releases = 0 /\ consumer # "new"
  BY <1>1, <1>2, <1>6, <1>9 DEF CreateFirst, NoTask, Fresh, Chunks, Releases
<1>11. slots' \in 0..MaxBuffered /\ sent' \in 0..MaxChunks /\ received' \in 0..MaxChunks
  BY <1>1, <1>2, <1>4, <1>7, <1>10, BridgeConstants DEF BridgeInv, Bridge!TypeOK,
     Bridge!BufferAssumption, Arriving, SlotsBounded, Chunks, Releases
<1>12. Bridge!TypeOK'
  BY <1>1, <1>2, <1>11, <1>5, <1>8 DEF BridgeInv, Bridge!TypeOK, Bridge!Kinds, Bridge!Outcomes,
     Bridge!Requesting, Callbacks
<1>13. Fresh'
  BY <1>1, <1>2, <1>4, <1>7, <1>10 DEF BridgeInv, Fresh, Bridge!TypeOK
<1>14. NoTask'
  BY <1>1, <1>2, <1>4, <1>7, <1>10, BridgeConstants DEF BridgeInv, NoTask, Bridge!TypeOK,
     Bridge!BufferAssumption, Bridge!Requesting, Chunks, Releases
<1>15. CreateFirst'
  BY <1>1, <1>2, <1>4, <1>7, <1>10, <1>5, <1>8 DEF BridgeInv, CreateFirst
<1>16. SlotsBounded'
  BY <1>1, <1>2, <1>4, <1>7, <1>10, BridgeConstants DEF BridgeInv, SlotsBounded, Bridge!TypeOK,
     Bridge!BufferAssumption, Bridge!Requesting, Chunks, Releases
<1>17. SlotsKept'
  BY <1>1, <1>2, <1>4, <1>7, <1>10, BridgeConstants DEF BridgeInv, SlotsKept, Bridge!TypeOK,
     Bridge!BufferAssumption, Bridge!Requesting, Chunks, Releases
<1>18. Arriving'
  BY <1>1, <1>2, <1>4, <1>7, <1>10, BridgeConstants DEF BridgeInv, Arriving, Bridge!TypeOK,
     Bridge!BufferAssumption, Bridge!Requesting, Chunks, Releases
<1>19. DoneLast'
  BY <1>1, <1>2, <1>4, <1>7, <1>10, <1>5, <1>8 DEF BridgeInv, DoneLast, Bridge!Requesting,
     Chunks, Releases
<1>20. Completed'
  BY <1>1, <1>2, <1>4, <1>7, <1>10 DEF BridgeInv, Completed, NoTask, Arriving, Bridge!TypeOK,
     Chunks, Releases
<1>21. ClosedEnds'
  BY <1>1, <1>2, <1>4, <1>7, <1>10, BridgeConstants DEF BridgeInv, ClosedEnds, Bridge!TypeOK,
     Bridge!BufferAssumption, Bridge!Requesting
<1> QED
  BY <1>12, <1>13, <1>14, <1>15, <1>16, <1>17, <1>18, <1>19, <1>20, <1>21 DEF BridgeInv

\* The loop cancels the task.
LEMMA CancelTaskKeeps ==
  ASSUME BridgeInv, Bridge!CancelTask
  PROVE  BridgeInv'
<1>1. Bridge!TypeOK /\ CreateFirst /\ Fresh /\ NoTask /\ Chunks \in Nat /\ Releases \in Nat
  BY CountsAreNat DEF BridgeInv
<1>2. /\ Head(ready) = "cancel"
      /\ cancelled' = (cancelled \/ pump \in Bridge!Requesting)
      /\ UNCHANGED <<state, cancelRequested, closed, loop, pump, outcome, slots, sent,
                     received, consumer, result, cancelling>>
  BY DEF Bridge!CancelTask, Bridge!RunCallback, Bridge!TaskAlive, Bridge!flagVars,
     Bridge!readerVars
<1>3. UNCHANGED queue /\ Chunks' = Chunks
  BY QueueKept DEF Bridge!CancelTask, Bridge!RunCallback, Bridge!TaskAlive, Bridge!flagVars,
     Bridge!readerVars
<1>4. ready # <<>> /\ ready' = Tail(ready)
  BY DEF Bridge!CancelTask, Bridge!RunCallback, Bridge!TaskAlive, Bridge!flagVars,
     Bridge!readerVars
<1>5. Releases = Releases' + (IF Head(ready) = "release" THEN 1 ELSE 0) /\ Releases' \in Nat
  BY <1>1, <1>4, ReadyShrinks
<1>6. /\ ready' \in Seq(Callbacks)
      /\ \A i \in DOMAIN ready' : ready'[i] # "create"
  BY <1>1, <1>4, ReadyShrinks
<1>7. ready[1] = Head(ready) /\ 1 \in DOMAIN ready
  BY <1>1, <1>4, ReadyShrinks
<1>8. consumer # "new"
  BY <1>1, <1>4 DEF Fresh
<1>9. slots' \in 0..MaxBuffered /\ sent' \in 0..MaxChunks /\ received' \in 0..MaxChunks
  BY <1>1, <1>2, <1>3, <1>5, <1>8, BridgeConstants DEF BridgeInv, Bridge!TypeOK,
     Bridge!BufferAssumption, Arriving, SlotsBounded, Chunks, Releases
<1>10. Bridge!TypeOK'
  BY <1>1, <1>2, <1>9, <1>3, <1>6 DEF BridgeInv, Bridge!TypeOK, Bridge!Kinds, Bridge!Outcomes,
     Bridge!Requesting, Callbacks
<1>11. Fresh'
  BY <1>1, <1>2, <1>3, <1>5, <1>8 DEF BridgeInv, Fresh, Bridge!TypeOK
<1>12. NoTask'
  BY <1>1, <1>2, <1>3, <1>5, <1>8, BridgeConstants DEF BridgeInv, NoTask, Bridge!TypeOK,
     Bridge!BufferAssumption, Bridge!Requesting, Chunks, Releases
<1>13. CreateFirst'
  BY <1>1, <1>2, <1>3, <1>5, <1>8, <1>3, <1>6 DEF BridgeInv, CreateFirst
<1>14. SlotsBounded'
  BY <1>1, <1>2, <1>3, <1>5, <1>8, BridgeConstants DEF BridgeInv, SlotsBounded, Bridge!TypeOK,
     Bridge!BufferAssumption, Bridge!Requesting, Chunks, Releases
<1>15. SlotsKept'
  BY <1>1, <1>2, <1>3, <1>5, <1>8, BridgeConstants DEF BridgeInv, SlotsKept, Bridge!TypeOK,
     Bridge!BufferAssumption, Bridge!Requesting, Chunks, Releases
<1>16. Arriving'
  BY <1>1, <1>2, <1>3, <1>5, <1>8, BridgeConstants DEF BridgeInv, Arriving, Bridge!TypeOK,
     Bridge!BufferAssumption, Bridge!Requesting, Chunks, Releases
<1>17. DoneLast'
  BY <1>1, <1>2, <1>3, <1>5, <1>8, <1>3, <1>6 DEF BridgeInv, DoneLast, Bridge!Requesting,
     Chunks, Releases
<1>18. Completed'
  BY <1>1, <1>2, <1>3, <1>5, <1>8 DEF BridgeInv, Completed, NoTask, Arriving, Bridge!TypeOK,
     Chunks, Releases
<1>19. ClosedEnds'
  BY <1>1, <1>2, <1>3, <1>5, <1>8, BridgeConstants DEF BridgeInv, ClosedEnds, Bridge!TypeOK,
     Bridge!BufferAssumption, Bridge!Requesting
<1> QED
  BY <1>10, <1>11, <1>12, <1>13, <1>14, <1>15, <1>16, <1>17, <1>18, <1>19 DEF BridgeInv

\* The loop releases a slot.
LEMMA ReleaseCallbackKeeps ==
  ASSUME BridgeInv, Bridge!ReleaseCallback
  PROVE  BridgeInv'
<1>1. Bridge!TypeOK /\ CreateFirst /\ Fresh /\ NoTask /\ Chunks \in Nat /\ Releases \in Nat
  BY CountsAreNat DEF BridgeInv
<1>2. /\ Head(ready) = "release"
      /\ slots' = slots + 1
      /\ UNCHANGED <<state, cancelRequested, closed, loop, pump, cancelled, outcome, sent,
                     received, consumer, result, cancelling>>
  BY DEF Bridge!ReleaseCallback, Bridge!RunCallback, Bridge!flagVars, Bridge!readerVars
<1>3. UNCHANGED queue /\ Chunks' = Chunks
  BY QueueKept DEF Bridge!ReleaseCallback, Bridge!RunCallback, Bridge!flagVars,
     Bridge!readerVars
<1>4. ready # <<>> /\ ready' = Tail(ready)
  BY DEF Bridge!ReleaseCallback, Bridge!RunCallback, Bridge!flagVars, Bridge!readerVars
<1>5. Releases = Releases' + (IF Head(ready) = "release" THEN 1 ELSE 0) /\ Releases' \in Nat
  BY <1>1, <1>4, ReadyShrinks
<1>6. /\ ready' \in Seq(Callbacks)
      /\ \A i \in DOMAIN ready' : ready'[i] # "create"
  BY <1>1, <1>4, ReadyShrinks
<1>7. ready[1] = Head(ready) /\ 1 \in DOMAIN ready
  BY <1>1, <1>4, ReadyShrinks
<1>8. pump # "none" /\ consumer # "new"
  BY <1>1, <1>2, <1>4, <1>3, <1>5 DEF NoTask, Fresh, Chunks, Releases
<1>9. slots' \in 0..MaxBuffered /\ sent' \in 0..MaxChunks /\ received' \in 0..MaxChunks
  BY <1>1, <1>2, <1>3, <1>5, <1>8, BridgeConstants DEF BridgeInv, Bridge!TypeOK,
     Bridge!BufferAssumption, Arriving, SlotsBounded, Chunks, Releases
<1>10. Bridge!TypeOK'
  BY <1>1, <1>2, <1>9, <1>3, <1>6 DEF BridgeInv, Bridge!TypeOK, Bridge!Kinds, Bridge!Outcomes,
     Bridge!Requesting, Callbacks
<1>11. Fresh'
  BY <1>1, <1>2, <1>3, <1>5, <1>8 DEF BridgeInv, Fresh, Bridge!TypeOK
<1>12. NoTask'
  BY <1>1, <1>2, <1>3, <1>5, <1>8, BridgeConstants DEF BridgeInv, NoTask, Bridge!TypeOK,
     Bridge!BufferAssumption, Bridge!Requesting, Chunks, Releases
<1>13. CreateFirst'
  BY <1>1, <1>2, <1>3, <1>5, <1>8, <1>3, <1>6 DEF BridgeInv, CreateFirst
<1>14. SlotsBounded'
  BY <1>1, <1>2, <1>3, <1>5, <1>8, BridgeConstants DEF BridgeInv, SlotsBounded, Bridge!TypeOK,
     Bridge!BufferAssumption, Bridge!Requesting, Chunks, Releases
<1>15. SlotsKept'
  BY <1>1, <1>2, <1>3, <1>5, <1>8, BridgeConstants DEF BridgeInv, SlotsKept, Bridge!TypeOK,
     Bridge!BufferAssumption, Bridge!Requesting, Chunks, Releases
<1>16. Arriving'
  BY <1>1, <1>2, <1>3, <1>5, <1>8, BridgeConstants DEF BridgeInv, Arriving, Bridge!TypeOK,
     Bridge!BufferAssumption, Bridge!Requesting, Chunks, Releases
<1>17. DoneLast'
  BY <1>1, <1>2, <1>3, <1>5, <1>8, <1>3, <1>6 DEF BridgeInv, DoneLast, Bridge!Requesting,
     Chunks, Releases
<1>18. Completed'
  BY <1>1, <1>2, <1>3, <1>5, <1>8 DEF BridgeInv, Completed, NoTask, Arriving, Bridge!TypeOK,
     Chunks, Releases
<1>19. ClosedEnds'
  BY <1>1, <1>2, <1>3, <1>5, <1>8, BridgeConstants DEF BridgeInv, ClosedEnds, Bridge!TypeOK,
     Bridge!BufferAssumption, Bridge!Requesting
<1> QED
  BY <1>10, <1>11, <1>12, <1>13, <1>14, <1>15, <1>16, <1>17, <1>18, <1>19 DEF BridgeInv

\* A caller asks for the cancel.
LEMMA CancelKeeps ==
  ASSUME BridgeInv, NEW c \in Bridge!Callers, Bridge!Cancel(c)
  PROVE  BridgeInv'
<1>1. Bridge!TypeOK /\ CreateFirst /\ Fresh /\ NoTask /\ Chunks \in Nat /\ Releases \in Nat
  BY CountsAreNat DEF BridgeInv
<1>2. /\ cancelRequested' = TRUE
      /\ cancelling' \in [Bridge!Callers -> {"idle", "waking", "wakingOnly", "scheduling", "returned"}]
      /\ \A d \in Bridge!Callers : cancelling'[d] # cancelling[d] =>
             cancelling'[d] # "scheduling" /\ (cancelling'[d] = "waking" => state = "running")
      /\ UNCHANGED <<state, closed, loop, pump, cancelled, outcome, slots, sent, received,
                     consumer, result>>
  BY <1>1 DEF Bridge!Cancel, Bridge!CancelSection, Bridge!loopVars, Bridge!readerVars,
     Bridge!taskVars, Bridge!TypeOK, Bridge!Callers
<1>3. UNCHANGED queue /\ Chunks' = Chunks
  BY QueueKept DEF Bridge!Cancel, Bridge!CancelSection, Bridge!loopVars, Bridge!readerVars,
     Bridge!taskVars
<1>4. UNCHANGED ready /\ Releases' = Releases
  BY ReadyKept DEF Bridge!Cancel, Bridge!CancelSection, Bridge!loopVars, Bridge!readerVars,
     Bridge!taskVars
<1>5. slots' \in 0..MaxBuffered /\ sent' \in 0..MaxChunks /\ received' \in 0..MaxChunks
  BY <1>1, <1>2, <1>3, <1>4, BridgeConstants DEF BridgeInv, Bridge!TypeOK,
     Bridge!BufferAssumption, Arriving, SlotsBounded, Chunks, Releases
<1>6. Bridge!TypeOK'
  BY <1>1, <1>2, <1>5, <1>3, <1>4 DEF BridgeInv, Bridge!TypeOK, Bridge!Kinds, Bridge!Outcomes,
     Bridge!Requesting, Callbacks
<1>7. Fresh'
  BY <1>1, <1>2, <1>3, <1>4, <1>3, <1>4 DEF BridgeInv, Fresh, Bridge!TypeOK
<1>8. NoTask'
  BY <1>1, <1>2, <1>3, <1>4, BridgeConstants DEF BridgeInv, NoTask, Bridge!TypeOK,
     Bridge!BufferAssumption, Bridge!Requesting, Chunks, Releases
<1>9. CreateFirst'
  BY <1>1, <1>2, <1>3, <1>4, <1>3, <1>4 DEF BridgeInv, CreateFirst
<1>10. SlotsBounded'
  BY <1>1, <1>2, <1>3, <1>4, BridgeConstants DEF BridgeInv, SlotsBounded, Bridge!TypeOK,
     Bridge!BufferAssumption, Bridge!Requesting, Chunks, Releases
<1>11. SlotsKept'
  BY <1>1, <1>2, <1>3, <1>4, BridgeConstants DEF BridgeInv, SlotsKept, Bridge!TypeOK,
     Bridge!BufferAssumption, Bridge!Requesting, Chunks, Releases
<1>12. Arriving'
  BY <1>1, <1>2, <1>3, <1>4, BridgeConstants DEF BridgeInv, Arriving, Bridge!TypeOK,
     Bridge!BufferAssumption, Bridge!Requesting, Chunks, Releases
<1>13. DoneLast'
  BY <1>1, <1>2, <1>3, <1>4, <1>3, <1>4 DEF BridgeInv, DoneLast, Bridge!Requesting, Chunks,
     Releases
<1>14. Completed'
  BY <1>1, <1>2, <1>3, <1>4 DEF BridgeInv, Completed, NoTask, Arriving, Bridge!TypeOK, Chunks,
     Releases
<1>15. ClosedEnds'
  BY <1>1, <1>2, <1>3, <1>4, BridgeConstants DEF BridgeInv, ClosedEnds, Bridge!TypeOK,
     Bridge!BufferAssumption, Bridge!Requesting
<1> QED
  BY <1>6, <1>7, <1>8, <1>9, <1>10, <1>11, <1>12, <1>13, <1>14, <1>15 DEF BridgeInv

\* The task is cancelled before its first step.
LEMMA PumpNeverStartsKeeps ==
  ASSUME BridgeInv, Bridge!PumpNeverStarts
  PROVE  BridgeInv'
<1>1. Bridge!TypeOK /\ CreateFirst /\ Fresh /\ NoTask /\ Chunks \in Nat /\ Releases \in Nat
  BY CountsAreNat DEF BridgeInv
<1>2. /\ pump = "created"
      /\ pump' = "ended" /\ cancelled' \in BOOLEAN
      /\ UNCHANGED <<state, cancelRequested, closed, loop, outcome, slots, sent, received,
                     consumer, result, cancelling>>
  BY DEF Bridge!PumpNeverStarts, Bridge!MovePump, Bridge!flagVars, Bridge!loopVars,
     Bridge!readerVars
<1>3. UNCHANGED queue /\ Chunks' = Chunks
  BY QueueKept DEF Bridge!PumpNeverStarts, Bridge!MovePump, Bridge!flagVars, Bridge!loopVars,
     Bridge!readerVars
<1>4. UNCHANGED ready /\ Releases' = Releases
  BY ReadyKept DEF Bridge!PumpNeverStarts, Bridge!MovePump, Bridge!flagVars, Bridge!loopVars,
     Bridge!readerVars
<1>5. slots' \in 0..MaxBuffered /\ sent' \in 0..MaxChunks /\ received' \in 0..MaxChunks
  BY <1>1, <1>2, <1>3, <1>4, BridgeConstants DEF BridgeInv, Bridge!TypeOK,
     Bridge!BufferAssumption, Arriving, SlotsBounded, Chunks, Releases
<1>6. Bridge!TypeOK'
  BY <1>1, <1>2, <1>5, <1>3, <1>4 DEF BridgeInv, Bridge!TypeOK, Bridge!Kinds, Bridge!Outcomes,
     Bridge!Requesting, Callbacks
<1>7. Fresh'
  BY <1>1, <1>2, <1>3, <1>4, <1>3, <1>4 DEF BridgeInv, Fresh, Bridge!TypeOK
<1>8. NoTask'
  BY <1>1, <1>2, <1>3, <1>4, BridgeConstants DEF BridgeInv, NoTask, Bridge!TypeOK,
     Bridge!BufferAssumption, Bridge!Requesting, Chunks, Releases
<1>9. CreateFirst'
  BY <1>1, <1>2, <1>3, <1>4, <1>3, <1>4 DEF BridgeInv, CreateFirst
<1>10. SlotsBounded'
  BY <1>1, <1>2, <1>3, <1>4, BridgeConstants DEF BridgeInv, SlotsBounded, Bridge!TypeOK,
     Bridge!BufferAssumption, Bridge!Requesting, Chunks, Releases
<1>11. SlotsKept'
  BY <1>1, <1>2, <1>3, <1>4, BridgeConstants DEF BridgeInv, SlotsKept, Bridge!TypeOK,
     Bridge!BufferAssumption, Bridge!Requesting, Chunks, Releases
<1>12. Arriving'
  BY <1>1, <1>2, <1>3, <1>4, BridgeConstants DEF BridgeInv, Arriving, Bridge!TypeOK,
     Bridge!BufferAssumption, Bridge!Requesting, Chunks, Releases
<1>13. DoneLast'
  BY <1>1, <1>2, <1>3, <1>4, <1>3, <1>4 DEF BridgeInv, DoneLast, Bridge!Requesting, Chunks,
     Releases
<1>14. Completed'
  BY <1>1, <1>2, <1>3, <1>4 DEF BridgeInv, Completed, NoTask, Arriving, Bridge!TypeOK, Chunks,
     Releases
<1>15. ClosedEnds'
  BY <1>1, <1>2, <1>3, <1>4, BridgeConstants DEF BridgeInv, ClosedEnds, Bridge!TypeOK,
     Bridge!BufferAssumption, Bridge!Requesting
<1> QED
  BY <1>6, <1>7, <1>8, <1>9, <1>10, <1>11, <1>12, <1>13, <1>14, <1>15 DEF BridgeInv

\* The task is cancelled while it reads or waits for a slot.
LEMMA PumpCancelledKeeps ==
  ASSUME BridgeInv, Bridge!PumpCancelled
  PROVE  BridgeInv'
<1>1. Bridge!TypeOK /\ CreateFirst /\ Fresh /\ NoTask /\ Chunks \in Nat /\ Releases \in Nat
  BY CountsAreNat DEF BridgeInv
<1>2. /\ pump \in {"reading", "acquiring"}
      /\ pump' = "closing" /\ outcome' = "CANCELLED" /\ cancelled' \in BOOLEAN
      /\ UNCHANGED <<state, cancelRequested, closed, loop, slots, sent, received, consumer,
                     result, cancelling>>
  BY DEF Bridge!PumpCancelled, Bridge!MovePump, Bridge!flagVars, Bridge!loopVars,
     Bridge!readerVars
<1>3. UNCHANGED queue /\ Chunks' = Chunks
  BY QueueKept DEF Bridge!PumpCancelled, Bridge!MovePump, Bridge!flagVars, Bridge!loopVars,
     Bridge!readerVars
<1>4. UNCHANGED ready /\ Releases' = Releases
  BY ReadyKept DEF Bridge!PumpCancelled, Bridge!MovePump, Bridge!flagVars, Bridge!loopVars,
     Bridge!readerVars
<1>5. slots' \in 0..MaxBuffered /\ sent' \in 0..MaxChunks /\ received' \in 0..MaxChunks
  BY <1>1, <1>2, <1>3, <1>4, BridgeConstants DEF BridgeInv, Bridge!TypeOK,
     Bridge!BufferAssumption, Arriving, SlotsBounded, Chunks, Releases
<1>6. Bridge!TypeOK'
  BY <1>1, <1>2, <1>5, <1>3, <1>4 DEF BridgeInv, Bridge!TypeOK, Bridge!Kinds, Bridge!Outcomes,
     Bridge!Requesting, Callbacks
<1>7. Fresh'
  BY <1>1, <1>2, <1>3, <1>4, <1>3, <1>4 DEF BridgeInv, Fresh, Bridge!TypeOK
<1>8. NoTask'
  BY <1>1, <1>2, <1>3, <1>4, BridgeConstants DEF BridgeInv, NoTask, Bridge!TypeOK,
     Bridge!BufferAssumption, Bridge!Requesting, Chunks, Releases
<1>9. CreateFirst'
  BY <1>1, <1>2, <1>3, <1>4, <1>3, <1>4 DEF BridgeInv, CreateFirst
<1>10. SlotsBounded'
  BY <1>1, <1>2, <1>3, <1>4, BridgeConstants DEF BridgeInv, SlotsBounded, Bridge!TypeOK,
     Bridge!BufferAssumption, Bridge!Requesting, Chunks, Releases
<1>11. SlotsKept'
  BY <1>1, <1>2, <1>3, <1>4, BridgeConstants DEF BridgeInv, SlotsKept, Bridge!TypeOK,
     Bridge!BufferAssumption, Bridge!Requesting, Chunks, Releases
<1>12. Arriving'
  BY <1>1, <1>2, <1>3, <1>4, BridgeConstants DEF BridgeInv, Arriving, Bridge!TypeOK,
     Bridge!BufferAssumption, Bridge!Requesting, Chunks, Releases
<1>13. DoneLast'
  BY <1>1, <1>2, <1>3, <1>4, <1>3, <1>4 DEF BridgeInv, DoneLast, Bridge!Requesting, Chunks,
     Releases
<1>14. Completed'
  BY <1>1, <1>2, <1>3, <1>4 DEF BridgeInv, Completed, NoTask, Arriving, Bridge!TypeOK, Chunks,
     Releases
<1>15. ClosedEnds'
  BY <1>1, <1>2, <1>3, <1>4, BridgeConstants DEF BridgeInv, ClosedEnds, Bridge!TypeOK,
     Bridge!BufferAssumption, Bridge!Requesting
<1> QED
  BY <1>6, <1>7, <1>8, <1>9, <1>10, <1>11, <1>12, <1>13, <1>14, <1>15 DEF BridgeInv

\* The task ends and leaves its end in the queue.
LEMMA PumpEndsKeeps ==
  ASSUME BridgeInv, Bridge!PumpEnds
  PROVE  BridgeInv'
<1>1. Bridge!TypeOK /\ CreateFirst /\ Fresh /\ NoTask /\ Chunks \in Nat /\ Releases \in Nat
  BY CountsAreNat DEF BridgeInv
<1>2. /\ pump = "closing"
      /\ pump' = "ended" /\ cancelled' \in BOOLEAN
      /\ UNCHANGED <<state, cancelRequested, closed, loop, outcome, slots, sent, received,
                     consumer, result, cancelling>>
  BY DEF Bridge!PumpEnds, Bridge!MovePump, Bridge!flagVars, Bridge!loopVars, Bridge!readerVars
<1>3. outcome \in Bridge!Kinds /\ outcome # "CHUNK" /\ queue' = Append(queue, outcome)
  BY <1>1 DEF Bridge!PumpEnds, Bridge!MovePump, Bridge!flagVars, Bridge!loopVars,
     Bridge!readerVars, Bridge!TypeOK, Bridge!Kinds, Bridge!Outcomes
<1>4. Chunks' = Chunks
  BY <1>1, <1>3, QueueGrows
<1>5. /\ queue' \in Seq(Bridge!Kinds)
      /\ \A i \in DOMAIN queue' :
           \/ i = Len(queue) + 1 /\ queue'[i] = outcome /\ outcome # "CHUNK"
           \/ i \in DOMAIN queue /\ queue'[i] = queue[i] /\ i < Len(queue) + 1
  BY <1>1, <1>3, QueueGrows
<1>6. UNCHANGED ready /\ Releases' = Releases
  BY ReadyKept DEF Bridge!PumpEnds, Bridge!MovePump, Bridge!flagVars, Bridge!loopVars,
     Bridge!readerVars
<1>7. slots' \in 0..MaxBuffered /\ sent' \in 0..MaxChunks /\ received' \in 0..MaxChunks
  BY <1>1, <1>2, <1>4, <1>6, BridgeConstants DEF BridgeInv, Bridge!TypeOK,
     Bridge!BufferAssumption, Arriving, SlotsBounded, Chunks, Releases
<1>8. Bridge!TypeOK'
  BY <1>1, <1>2, <1>7, <1>5, <1>6 DEF BridgeInv, Bridge!TypeOK, Bridge!Kinds, Bridge!Outcomes,
     Bridge!Requesting, Callbacks
<1>9. Fresh'
  BY <1>1, <1>2, <1>4, <1>6, <1>5, <1>6 DEF BridgeInv, Fresh, Bridge!TypeOK
<1>10. NoTask'
  BY <1>1, <1>2, <1>4, <1>6, BridgeConstants DEF BridgeInv, NoTask, Bridge!TypeOK,
     Bridge!BufferAssumption, Bridge!Requesting, Chunks, Releases
<1>11. CreateFirst'
  BY <1>1, <1>2, <1>4, <1>6, <1>5, <1>6 DEF BridgeInv, CreateFirst
<1>12. SlotsBounded'
  BY <1>1, <1>2, <1>4, <1>6, BridgeConstants DEF BridgeInv, SlotsBounded, Bridge!TypeOK,
     Bridge!BufferAssumption, Bridge!Requesting, Chunks, Releases
<1>13. SlotsKept'
  BY <1>1, <1>2, <1>4, <1>6, BridgeConstants DEF BridgeInv, SlotsKept, Bridge!TypeOK,
     Bridge!BufferAssumption, Bridge!Requesting, Chunks, Releases
<1>14. Arriving'
  BY <1>1, <1>2, <1>4, <1>6, BridgeConstants DEF BridgeInv, Arriving, Bridge!TypeOK,
     Bridge!BufferAssumption, Bridge!Requesting, Chunks, Releases
<1>15. DoneLast'
  BY <1>1, <1>2, <1>4, <1>6, <1>5, <1>6 DEF BridgeInv, DoneLast, Bridge!Requesting, Chunks,
     Releases
<1>16. Completed'
  BY <1>1, <1>2, <1>4, <1>6 DEF BridgeInv, Completed, NoTask, Arriving, Bridge!TypeOK, Chunks,
     Releases
<1>17. ClosedEnds'
  BY <1>1, <1>2, <1>4, <1>6, BridgeConstants DEF BridgeInv, ClosedEnds, Bridge!TypeOK,
     Bridge!BufferAssumption, Bridge!Requesting
<1> QED
  BY <1>8, <1>9, <1>10, <1>11, <1>12, <1>13, <1>14, <1>15, <1>16, <1>17 DEF BridgeInv

\* Every step of the consumer.
LEMMA ConsumerKeeps ==
  ASSUME BridgeInv,
         Bridge!StartCancelled \/ Bridge!StartRunning \/ Bridge!StartBlocked \/ Bridge!GetChunk
         \/ Bridge!GetLast \/ Bridge!Resume \/ Bridge!Abandon \/ Bridge!Settled
         \/ Bridge!SettleTimesOut \/ Bridge!CloseFinished \/ Bridge!CloseUnfinished
         \/ Bridge!CloseCancels \/ Bridge!Closed \/ Bridge!CloseTimesOut
  PROVE  BridgeInv'
<1> USE BridgeConstants DEF Bridge!BufferAssumption, BridgeInv, Bridge!TypeOK, Fresh, NoTask,
   CreateFirst, SlotsBounded, SlotsKept, Arriving,
           DoneLast, Completed, ClosedEnds, Bridge!Requesting, Callbacks, Bridge!Callers, Bridge!Kinds, Bridge!Outcomes
<1>1. CASE Bridge!StartCancelled
  <2>1. "CANCELLED" \in Bridge!Kinds /\ queue' = Append(queue, "CANCELLED")
    BY <1>1 DEF Bridge!StartCancelled, Bridge!loopVars, Bridge!taskVars, Bridge!TypeOK,
       Bridge!Kinds, Bridge!Outcomes
  <2>2. /\ queue' \in Seq(Bridge!Kinds)
        /\ Chunks' = Chunks + (IF "CANCELLED" = "CHUNK" THEN 1 ELSE 0)
        /\ \A i \in DOMAIN queue' :
             \/ i = Len(queue) + 1 /\ queue'[i] = "CANCELLED"
             \/ i \in DOMAIN queue /\ queue'[i] = queue[i] /\ i < Len(queue) + 1
    BY <2>1, QueueGrows
  <2>3. UNCHANGED ready /\ Releases' = Releases
    BY <1>1, ReadyKept DEF Bridge!StartCancelled, Bridge!loopVars, Bridge!taskVars
  <2> QED
    BY <1>1, <2>1, <2>2, <2>3, CountsAreNat DEF Bridge!StartCancelled, Bridge!loopVars,
       Bridge!taskVars
<1>2. CASE Bridge!StartRunning
  <2>1. UNCHANGED queue /\ Chunks' = Chunks
    BY <1>2, QueueKept DEF Bridge!StartRunning, Bridge!taskVars
  <2>2. /\ ready' \in Seq(Callbacks)
        /\ Releases' = Releases
        /\ ready = <<>> /\ ready' = <<"create">>
    BY <1>2, ReadyGrows DEF Bridge!StartRunning, Bridge!taskVars, Fresh, Callbacks
  <2> QED
    BY <1>2, <2>1, <2>2, CountsAreNat DEF Bridge!StartRunning, Bridge!taskVars
<1>3. CASE Bridge!StartBlocked
  <2>1. UNCHANGED queue /\ Chunks' = Chunks
    BY <1>3, QueueKept DEF Bridge!StartBlocked, Bridge!loopVars, Bridge!taskVars
  <2>2. UNCHANGED ready /\ Releases' = Releases
    BY <1>3, ReadyKept DEF Bridge!StartBlocked, Bridge!loopVars, Bridge!taskVars
  <2> QED
    BY <1>3, <2>1, <2>2, CountsAreNat DEF Bridge!StartBlocked, Bridge!loopVars, Bridge!taskVars
<1>4. CASE Bridge!GetChunk
  BY <1>4, GetChunkKeeps
<1>5. CASE Bridge!GetLast
  BY <1>5, GetLastKeeps
<1>6. CASE Bridge!Resume
  <2>1. UNCHANGED queue /\ Chunks' = Chunks
    BY <1>6, QueueKept DEF Bridge!Resume, Bridge!flagVars, Bridge!loopVars, Bridge!taskVars
  <2>2. UNCHANGED ready /\ Releases' = Releases
    BY <1>6, ReadyKept DEF Bridge!Resume, Bridge!flagVars, Bridge!loopVars, Bridge!taskVars
  <2> QED
    BY <1>6, <2>1, <2>2, CountsAreNat DEF Bridge!Resume, Bridge!flagVars, Bridge!loopVars,
       Bridge!taskVars
<1>7. CASE Bridge!Abandon
  <2>1. UNCHANGED queue /\ Chunks' = Chunks
    BY <1>7, QueueKept DEF Bridge!Abandon, Bridge!flagVars, Bridge!loopVars, Bridge!taskVars
  <2>2. UNCHANGED ready /\ Releases' = Releases
    BY <1>7, ReadyKept DEF Bridge!Abandon, Bridge!flagVars, Bridge!loopVars, Bridge!taskVars
  <2> QED
    BY <1>7, <2>1, <2>2, CountsAreNat DEF Bridge!Abandon, Bridge!flagVars, Bridge!loopVars,
       Bridge!taskVars
<1>8. CASE Bridge!Settled
  <2>1. UNCHANGED queue /\ Chunks' = Chunks
    BY <1>8, QueueKept DEF Bridge!Settled, Bridge!WaitClosed, Bridge!flagVars, Bridge!loopVars,
       Bridge!taskVars
  <2>2. UNCHANGED ready /\ Releases' = Releases
    BY <1>8, ReadyKept DEF Bridge!Settled, Bridge!WaitClosed, Bridge!flagVars, Bridge!loopVars,
       Bridge!taskVars
  <2> QED
    BY <1>8, <2>1, <2>2, CountsAreNat DEF Bridge!Settled, Bridge!WaitClosed, Bridge!flagVars,
       Bridge!loopVars, Bridge!taskVars
<1>9. CASE Bridge!SettleTimesOut
  <2>1. UNCHANGED queue /\ Chunks' = Chunks
    BY <1>9, QueueKept DEF Bridge!SettleTimesOut, Bridge!WaitClosed, Bridge!flagVars,
       Bridge!loopVars, Bridge!taskVars
  <2>2. UNCHANGED ready /\ Releases' = Releases
    BY <1>9, ReadyKept DEF Bridge!SettleTimesOut, Bridge!WaitClosed, Bridge!flagVars,
       Bridge!loopVars, Bridge!taskVars
  <2> QED
    BY <1>9, <2>1, <2>2, CountsAreNat DEF Bridge!SettleTimesOut, Bridge!WaitClosed,
       Bridge!flagVars, Bridge!loopVars, Bridge!taskVars
<1>10. CASE Bridge!CloseFinished
  <2>1. UNCHANGED queue /\ Chunks' = Chunks
    BY <1>10, QueueKept DEF Bridge!CloseFinished, Bridge!WaitClosed, Bridge!flagVars,
       Bridge!loopVars, Bridge!taskVars
  <2>2. UNCHANGED ready /\ Releases' = Releases
    BY <1>10, ReadyKept DEF Bridge!CloseFinished, Bridge!WaitClosed, Bridge!flagVars,
       Bridge!loopVars, Bridge!taskVars
  <2> QED
    BY <1>10, <2>1, <2>2, CountsAreNat DEF Bridge!CloseFinished, Bridge!WaitClosed,
       Bridge!flagVars, Bridge!loopVars, Bridge!taskVars
<1>11. CASE Bridge!CloseUnfinished
  <2>1. UNCHANGED queue /\ Chunks' = Chunks
    BY <1>11, QueueKept DEF Bridge!CloseUnfinished, Bridge!WaitClosed, Bridge!flagVars,
       Bridge!loopVars, Bridge!taskVars
  <2>2. UNCHANGED ready /\ Releases' = Releases
    BY <1>11, ReadyKept DEF Bridge!CloseUnfinished, Bridge!WaitClosed, Bridge!flagVars,
       Bridge!loopVars, Bridge!taskVars
  <2> QED
    BY <1>11, <2>1, <2>2, CountsAreNat DEF Bridge!CloseUnfinished, Bridge!WaitClosed,
       Bridge!flagVars, Bridge!loopVars, Bridge!taskVars
<1>12. CASE Bridge!CloseCancels
  <2>1. UNCHANGED queue /\ Chunks' = Chunks
    BY <1>12, QueueKept DEF Bridge!CloseCancels, Bridge!CancelSection, Bridge!loopVars,
       Bridge!taskVars
  <2>2. UNCHANGED ready /\ Releases' = Releases
    BY <1>12, ReadyKept DEF Bridge!CloseCancels, Bridge!CancelSection, Bridge!loopVars,
       Bridge!taskVars
  <2> QED
    BY <1>12, <2>1, <2>2, CountsAreNat DEF Bridge!CloseCancels, Bridge!CancelSection,
       Bridge!loopVars, Bridge!taskVars
<1>13. CASE Bridge!Closed
  <2>1. UNCHANGED queue /\ Chunks' = Chunks
    BY <1>13, QueueKept DEF Bridge!Closed, Bridge!WaitClosed, Bridge!flagVars, Bridge!loopVars,
       Bridge!taskVars
  <2>2. UNCHANGED ready /\ Releases' = Releases
    BY <1>13, ReadyKept DEF Bridge!Closed, Bridge!WaitClosed, Bridge!flagVars, Bridge!loopVars,
       Bridge!taskVars
  <2> QED
    BY <1>13, <2>1, <2>2, CountsAreNat DEF Bridge!Closed, Bridge!WaitClosed, Bridge!flagVars,
       Bridge!loopVars, Bridge!taskVars
<1>14. CASE Bridge!CloseTimesOut
  <2>1. UNCHANGED queue /\ Chunks' = Chunks
    BY <1>14, QueueKept DEF Bridge!CloseTimesOut, Bridge!WaitClosed, Bridge!flagVars,
       Bridge!loopVars, Bridge!taskVars
  <2>2. UNCHANGED ready /\ Releases' = Releases
    BY <1>14, ReadyKept DEF Bridge!CloseTimesOut, Bridge!WaitClosed, Bridge!flagVars,
       Bridge!loopVars, Bridge!taskVars
  <2> QED
    BY <1>14, <2>1, <2>2, CountsAreNat DEF Bridge!CloseTimesOut, Bridge!WaitClosed,
       Bridge!flagVars, Bridge!loopVars, Bridge!taskVars
<1> QED
  BY <1>1, <1>2, <1>3, <1>4, <1>5, <1>6, <1>7, <1>8, <1>9, <1>10, <1>11, <1>12, <1>13, <1>14

\* Every step of a caller that cancels.
LEMMA CancelStepKeeps ==
  ASSUME BridgeInv, NEW c \in Bridge!Callers,
         Bridge!Cancel(c) \/ Bridge!WakeConsumer(c) \/ Bridge!ScheduleCancel(c)
  PROVE  BridgeInv'
<1> USE BridgeConstants DEF Bridge!BufferAssumption, BridgeInv, Bridge!TypeOK, Fresh, NoTask,
   CreateFirst, SlotsBounded, SlotsKept, Arriving,
           DoneLast, Completed, ClosedEnds, Bridge!Requesting, Callbacks, Bridge!Callers, Bridge!Kinds, Bridge!Outcomes
<1>1. CASE Bridge!Cancel(c)
  BY <1>1, CancelKeeps
<1>2. CASE Bridge!WakeConsumer(c)
  <2>1. "WAKE" \in Bridge!Kinds /\ queue' = Append(queue, "WAKE")
    BY <1>2 DEF Bridge!WakeConsumer, Bridge!flagVars, Bridge!loopVars, Bridge!readerVars,
       Bridge!taskVars, Bridge!Wake, Bridge!TypeOK, Bridge!Kinds, Bridge!Outcomes
  <2>2. /\ queue' \in Seq(Bridge!Kinds)
        /\ Chunks' = Chunks + (IF "WAKE" = "CHUNK" THEN 1 ELSE 0)
        /\ \A i \in DOMAIN queue' :
             \/ i = Len(queue) + 1 /\ queue'[i] = "WAKE"
             \/ i \in DOMAIN queue /\ queue'[i] = queue[i] /\ i < Len(queue) + 1
    BY <2>1, QueueGrows
  <2>3. UNCHANGED ready /\ Releases' = Releases
    BY <1>2, ReadyKept DEF Bridge!WakeConsumer, Bridge!flagVars, Bridge!loopVars,
       Bridge!readerVars, Bridge!taskVars, Bridge!Wake
  <2> QED
    BY <1>2, <2>1, <2>2, <2>3, CountsAreNat DEF Bridge!WakeConsumer, Bridge!flagVars,
       Bridge!loopVars, Bridge!readerVars, Bridge!taskVars, Bridge!Wake
<1>3. CASE Bridge!ScheduleCancel(c)
  <2>1. UNCHANGED queue /\ Chunks' = Chunks
    BY <1>3, QueueKept DEF Bridge!ScheduleCancel, Bridge!flagVars, Bridge!readerVars,
       Bridge!taskVars
  <2>2. /\ ready' \in Seq(Callbacks)
        /\ Releases' = Releases + (IF loop # "closed" /\ "cancel" = "release" THEN 1 ELSE 0)
        /\ \A i \in DOMAIN ready' :
               ready'[i] = "create" => i \in DOMAIN ready /\ ready[i] = "create"
    BY <1>3, ReadyMayGrow DEF Bridge!ScheduleCancel, Bridge!flagVars, Bridge!readerVars,
       Bridge!taskVars
  <2> QED
    BY <1>3, <2>1, <2>2, CountsAreNat DEF Bridge!ScheduleCancel, Bridge!flagVars,
       Bridge!readerVars, Bridge!taskVars
<1> QED
  BY <1>1, <1>2, <1>3

\* Every step of the loop and of the task.
LEMMA LoopKeeps ==
  ASSUME BridgeInv,
         Bridge!CreateTask \/ Bridge!CreateCancelled \/ Bridge!CancelTask
         \/ Bridge!ReleaseCallback \/ Bridge!PumpNeverStarts \/ Bridge!PumpStarts
         \/ Bridge!PumpCancelled \/ Bridge!PumpReceives \/ Bridge!PumpStops \/ Bridge!PumpPuts
         \/ Bridge!PumpEnds \/ Bridge!TaskDone \/ Bridge!StopLoop \/ Bridge!LoopCloses
  PROVE  BridgeInv'
<1> USE BridgeConstants DEF Bridge!BufferAssumption, BridgeInv, Bridge!TypeOK, Fresh, NoTask,
   CreateFirst, SlotsBounded, SlotsKept, Arriving,
           DoneLast, Completed, ClosedEnds, Bridge!Requesting, Callbacks, Bridge!Callers, Bridge!Kinds, Bridge!Outcomes
<1>1. CASE Bridge!CreateTask
  BY <1>1, CreateTaskKeeps
<1>2. CASE Bridge!CreateCancelled
  BY <1>2, CreateCancelledKeeps
<1>3. CASE Bridge!CancelTask
  BY <1>3, CancelTaskKeeps
<1>4. CASE Bridge!ReleaseCallback
  BY <1>4, ReleaseCallbackKeeps
<1>5. CASE Bridge!PumpNeverStarts
  BY <1>5, PumpNeverStartsKeeps
<1>6. CASE Bridge!PumpStarts
  <2>1. UNCHANGED queue /\ Chunks' = Chunks
    BY <1>6, QueueKept DEF Bridge!PumpStarts, Bridge!MovePump, Bridge!flagVars,
       Bridge!loopVars, Bridge!readerVars
  <2>2. UNCHANGED ready /\ Releases' = Releases
    BY <1>6, ReadyKept DEF Bridge!PumpStarts, Bridge!MovePump, Bridge!flagVars,
       Bridge!loopVars, Bridge!readerVars
  <2> QED
    BY <1>6, <2>1, <2>2, CountsAreNat DEF Bridge!PumpStarts, Bridge!MovePump, Bridge!flagVars,
       Bridge!loopVars, Bridge!readerVars
<1>7. CASE Bridge!PumpCancelled
  BY <1>7, PumpCancelledKeeps
<1>8. CASE Bridge!PumpReceives
  <2>1. UNCHANGED queue /\ Chunks' = Chunks
    BY <1>8, QueueKept DEF Bridge!PumpReceives, Bridge!MovePump, Bridge!flagVars,
       Bridge!loopVars, Bridge!readerVars
  <2>2. UNCHANGED ready /\ Releases' = Releases
    BY <1>8, ReadyKept DEF Bridge!PumpReceives, Bridge!MovePump, Bridge!flagVars,
       Bridge!loopVars, Bridge!readerVars
  <2> QED
    BY <1>8, <2>1, <2>2, CountsAreNat DEF Bridge!PumpReceives, Bridge!MovePump,
       Bridge!flagVars, Bridge!loopVars, Bridge!readerVars
<1>9. CASE Bridge!PumpStops
  <2>1. UNCHANGED queue /\ Chunks' = Chunks
    BY <1>9, QueueKept DEF Bridge!PumpStops, Bridge!MovePump, Bridge!flagVars, Bridge!loopVars,
       Bridge!readerVars
  <2>2. UNCHANGED ready /\ Releases' = Releases
    BY <1>9, ReadyKept DEF Bridge!PumpStops, Bridge!MovePump, Bridge!flagVars, Bridge!loopVars,
       Bridge!readerVars
  <2> QED
    BY <1>9, <2>1, <2>2, CountsAreNat DEF Bridge!PumpStops, Bridge!MovePump, Bridge!flagVars,
       Bridge!loopVars, Bridge!readerVars
<1>10. CASE Bridge!PumpPuts
  <2>1. "CHUNK" \in Bridge!Kinds /\ queue' = Append(queue, "CHUNK")
    BY <1>10 DEF Bridge!PumpPuts, Bridge!MovePump, Bridge!SlotFree, Bridge!flagVars,
       Bridge!loopVars, Bridge!readerVars, Bridge!TypeOK, Bridge!Kinds, Bridge!Outcomes
  <2>2. /\ queue' \in Seq(Bridge!Kinds)
        /\ Chunks' = Chunks + (IF "CHUNK" = "CHUNK" THEN 1 ELSE 0)
        /\ \A i \in DOMAIN queue' :
             \/ i = Len(queue) + 1 /\ queue'[i] = "CHUNK"
             \/ i \in DOMAIN queue /\ queue'[i] = queue[i] /\ i < Len(queue) + 1
    BY <2>1, QueueGrows
  <2>3. UNCHANGED ready /\ Releases' = Releases
    BY <1>10, ReadyKept DEF Bridge!PumpPuts, Bridge!MovePump, Bridge!SlotFree, Bridge!flagVars,
       Bridge!loopVars, Bridge!readerVars
  <2> QED
    BY <1>10, <2>1, <2>2, <2>3, CountsAreNat DEF Bridge!PumpPuts, Bridge!MovePump,
       Bridge!SlotFree, Bridge!flagVars, Bridge!loopVars, Bridge!readerVars
<1>11. CASE Bridge!PumpEnds
  BY <1>11, PumpEndsKeeps
<1>12. CASE Bridge!TaskDone
  <2>1. UNCHANGED queue /\ Chunks' = Chunks
    BY <1>12, QueueKept DEF Bridge!TaskDone, Bridge!MovePump, Bridge!Finish, Bridge!loopVars,
       Bridge!readerVars
  <2>2. UNCHANGED ready /\ Releases' = Releases
    BY <1>12, ReadyKept DEF Bridge!TaskDone, Bridge!MovePump, Bridge!Finish, Bridge!loopVars,
       Bridge!readerVars
  <2> QED
    BY <1>12, <2>1, <2>2, CountsAreNat DEF Bridge!TaskDone, Bridge!MovePump, Bridge!Finish,
       Bridge!loopVars, Bridge!readerVars
<1>13. CASE Bridge!StopLoop
  <2>1. UNCHANGED queue /\ Chunks' = Chunks
    BY <1>13, QueueKept DEF Bridge!StopLoop, Bridge!TaskAlive, Bridge!flagVars,
       Bridge!readerVars
  <2>2. UNCHANGED ready /\ Releases' = Releases
    BY <1>13, ReadyKept DEF Bridge!StopLoop, Bridge!TaskAlive, Bridge!flagVars,
       Bridge!readerVars
  <2> QED
    BY <1>13, <2>1, <2>2, CountsAreNat DEF Bridge!StopLoop, Bridge!TaskAlive, Bridge!flagVars,
       Bridge!readerVars
<1>14. CASE Bridge!LoopCloses
  <2>1. UNCHANGED queue /\ Chunks' = Chunks
    BY <1>14, QueueKept DEF Bridge!LoopCloses, Bridge!flagVars, Bridge!readerVars,
       Bridge!taskVars
  <2>2. ready' = <<>> /\ Releases' = 0
    BY <1>14, NumberOfNone DEF Bridge!LoopCloses, Bridge!flagVars, Bridge!readerVars,
       Bridge!taskVars, Releases
  <2> QED
    BY <1>14, <2>1, <2>2, CountsAreNat DEF Bridge!LoopCloses, Bridge!flagVars,
       Bridge!readerVars, Bridge!taskVars
<1> QED
  BY <1>1, <1>2, <1>3, <1>4, <1>5, <1>6, <1>7, <1>8, <1>9, <1>10, <1>11, <1>12, <1>13, <1>14

\* The invariant holds at first.
LEMMA BridgeInitHolds == Bridge!Init => BridgeInv
<1> SUFFICES ASSUME Bridge!Init PROVE BridgeInv
  OBVIOUS
<1> USE DEF Bridge!Init
<1>1. Chunks = 0 /\ Releases = 0
  BY NumberOfNone DEF Chunks, Releases
<1>2. /\ slots \in 0..MaxBuffered /\ sent \in 0..MaxChunks /\ received \in 0..MaxChunks
      /\ queue \in Seq(Bridge!Kinds) /\ ready \in Seq(Callbacks)
  BY BridgeConstants DEF Bridge!BufferAssumption
<1>3. Bridge!TypeOK
  BY <1>2 DEF Bridge!TypeOK, Callbacks, Bridge!Outcomes
<1>4. Fresh /\ NoTask /\ CreateFirst
  BY <1>1 DEF Fresh, NoTask, CreateFirst
<1>5. SlotsBounded /\ SlotsKept /\ Completed /\ ClosedEnds /\ DoneLast
  BY DEF SlotsBounded, SlotsKept, Completed, ClosedEnds, DoneLast, Bridge!Requesting
<1>6. Arriving
  BY <1>1 DEF Arriving, Chunks
<1> QED
  BY <1>3, <1>4, <1>5, <1>6 DEF BridgeInv

\* It depends on the variables of the bridge only.
LEMMA BridgeIdle == BridgeInv /\ UNCHANGED bridgeVars => BridgeInv'
<1> SUFFICES ASSUME BridgeInv, UNCHANGED bridgeVars PROVE BridgeInv'
  OBVIOUS
<1>1. UNCHANGED queue /\ UNCHANGED ready
  BY DEF bridgeVars
<1>2. Chunks' = Chunks /\ Releases' = Releases
  BY <1>1, QueueKept, ReadyKept
<1> QED
  BY <1>1, <1>2 DEF bridgeVars, BridgeInv, Bridge!TypeOK, Fresh, NoTask,
     CreateFirst, SlotsBounded, SlotsKept, Arriving, DoneLast, Completed, ClosedEnds

\* Every step of StreamBridge keeps it.
LEMMA BridgePreserves == BridgeInv /\ Bridge!Next => BridgeInv'
<1> SUFFICES ASSUME BridgeInv, Bridge!Next PROVE BridgeInv'
  OBVIOUS
<1>1. CASE Bridge!ConsumerStep \/ Bridge!Resume \/ Bridge!Abandon \/ Bridge!TimeOut
  BY <1>1, ConsumerKeeps DEF Bridge!ConsumerStep, Bridge!TimeOut, Bridge!Start
<1>2. CASE \E c \in Cancellers : Bridge!Cancel(c)
  BY <1>2, CancelStepKeeps DEF Bridge!Callers
<1>3. CASE \E c \in Bridge!Callers : Bridge!CancelStep(c)
  BY <1>3, CancelStepKeeps DEF Bridge!CancelStep
<1>4. CASE Bridge!LoopStep \/ Bridge!PumpReceives \/ Bridge!PumpStops \/ Bridge!StopLoop
  BY <1>4, LoopKeeps DEF Bridge!LoopStep
<1>5. CASE Bridge!Over
  <2>1. UNCHANGED bridgeVars
    BY <1>5 DEF Bridge!Over, Bridge!vars, bridgeVars, Bridge!flagVars, Bridge!loopVars,
       Bridge!taskVars, Bridge!readerVars
  <2> QED
    BY <2>1, BridgeIdle
<1> QED
  BY <1>1, <1>2, <1>3, <1>4, <1>5 DEF Bridge!Next

\* It implies what the runs check.
LEMMA BridgeShows == BridgeInv => ChunksArrive /\ ClosedMeansReleased
<1> SUFFICES ASSUME BridgeInv PROVE ChunksArrive /\ ClosedMeansReleased
  OBVIOUS
<1>1. Chunks \in Nat /\ Releases \in Nat /\ slots \in Nat /\ MaxBuffered \in Nat
  BY BridgeConstants, CountsAreNat DEF BridgeInv, Bridge!TypeOK, Bridge!BufferAssumption
<1>2. Bridge!BufferBounded
  BY <1>1 DEF BridgeInv, NoTask, SlotsBounded, Bridge!BufferBounded, Bridge!Waiting, Chunks,
     Releases
<1>3. Bridge!SlotsConserved
  BY DEF BridgeInv, SlotsKept, Bridge!SlotsConserved, Bridge!Waiting, Chunks, Releases,
     Bridge!Requesting
<1>4. Bridge!CompletedMeansAllReceived
  BY DEF BridgeInv, Completed, Bridge!CompletedMeansAllReceived
<1>5. ASSUME closed PROVE "create" \notin Bridge!ToSet(ready)
  BY <1>5 DEF BridgeInv, CreateFirst, Bridge!ToSet
<1> QED
  BY <1>2, <1>3, <1>4, <1>5 DEF ChunksArrive, ClosedMeansReleased, Bridge!ChunksArrive,
     Bridge!ClosedMeansReleased, BridgeInv, ClosedEnds

-----------------------------------------------------------------------------
(* A call with its retries: the invariant of ModelCall. *)

\* Chunks of one attempt, in order.
ChunksOf(n, a) == [i \in 1..n |-> <<a, i>>]

\* Between attempts nothing of the last one is shown.
NothingShown == pc \in {"begin", "register", "open", "wait", "waiting"} => shown = <<>>
\* What is read and shown are the chunks of this attempt, in order.
ReadInOrder == pc = "read" => gathered = ChunksOf(sentNow, attempt) /\ shown = gathered
\* An answer is the end of a call.
AnsweredIsDone == answer = "answer" => pc = "done"
\* A call waits only if it may try again.
RetriesLeft == pc \in {"wait", "waiting"} => attempt < MaxRetries
\* At most one request per attempt.
RequestsCounted ==
  /\ requests <= attempt + 1
  /\ pc \in {"begin", "register", "open"} => requests <= attempt

\* The types of a call: what it counts, and its flags.
Counted ==
  /\ pc \in {"begin", "register", "open", "read", "retry", "wait", "waiting", "done"}
  /\ attempt \in 0..MaxRetries /\ requests \in 0..(MaxRetries + 1)
  /\ sentNow \in 0..Size /\ answer \in Call!Results
  /\ answer = "failed" => attempt = MaxRetries
Flags ==
  /\ registered \in BOOLEAN /\ stopped \in BOOLEAN
  /\ runCancelled \in BOOLEAN /\ ended \in BOOLEAN

CallInv ==
  /\ Counted /\ Flags /\ NothingShown /\ ReadInOrder /\ AnsweredIsDone /\ RetriesLeft /\ RequestsCounted
  /\ Call!AnswerIsWhole /\ Call!ShownFromOneAttempt

\* The next chunk continues the attempt.
LEMMA WholeGrows ==
  ASSUME NEW n \in Nat, NEW a
  PROVE  Append(ChunksOf(n, a), <<a, n + 1>>) = ChunksOf(n + 1, a)
  BY DEF ChunksOf

\* All of it is of that attempt.
LEMMA WholeIsOfOne ==
  ASSUME NEW n \in Nat, NEW a
  PROVE  /\ \A i \in DOMAIN ChunksOf(n, a) : ChunksOf(n, a)[i][1] = ChunksOf(n, a)[1][1]
         /\ ChunksOf(0, a) = <<>>
  BY DEF ChunksOf

\* Together they are the type invariant of ModelCall.
LEMMA CountedAndFlags == Counted /\ Flags => Call!TypeOK
  BY DEF Counted, Flags, Call!TypeOK

\* The invariant holds at first.
LEMMA CallInitHolds == Call!Init => CallInv
<1> SUFFICES ASSUME Call!Init PROVE CallInv
  OBVIOUS
<1>1. Call!TypeOK
  <2>1. Counted
    BY CallConstants DEF Call!Init, Call!RetryAssumption, Counted, Call!Results
  <2>2. Flags
    BY DEF Call!Init, Flags
  <2> QED
    BY <2>1, <2>2, CountedAndFlags
<1>2. Call!AnswerIsWhole /\ Call!ShownFromOneAttempt
  BY DEF Call!Init, Call!AnswerIsWhole, Call!ShownFromOneAttempt
<1> QED
  BY <1>1, <1>2 DEF Call!Init, CallInv, Call!TypeOK, Counted, Flags, NothingShown, ReadInOrder,
     AnsweredIsDone, RetriesLeft, RequestsCounted

\* Every step of ModelCall keeps it.
LEMMA CallPreserves == CallInv /\ Call!Next => CallInv'
<1> SUFFICES ASSUME CallInv, Call!Next PROVE CallInv'
  OBVIOUS
<1> USE CallConstants DEF CallInv, Call!RetryAssumption, Counted, Call!Results, NothingShown,
   ReadInOrder,
        AnsweredIsDone, RetriesLeft, RequestsCounted, Call!AnswerIsWhole, Call!ShownFromOneAttempt
<1>1. CASE Call!Cancel
  <2>1. Counted'
    BY <1>1 DEF Call!Cancel
  <2>5. Flags'
    BY <1>1 DEF Flags, Call!Cancel
  <2>2. NothingShown' /\ ReadInOrder' /\ AnsweredIsDone' /\ RetriesLeft'
    BY <1>1, WholeIsOfOne DEF Call!Cancel
  <2>3. RequestsCounted'
    BY <1>1 DEF Call!Cancel
  <2>4. Call!AnswerIsWhole' /\ Call!ShownFromOneAttempt'
    BY <1>1, WholeIsOfOne DEF Call!Cancel
  <2> QED
    BY <2>1, <2>2, <2>3, <2>4, <2>5
<1>2. CASE Call!Begin
  <2>1. Counted'
    BY <1>2 DEF Call!Begin
  <2>5. Flags'
    BY <1>2 DEF Flags, Call!Begin
  <2>2. NothingShown' /\ ReadInOrder' /\ AnsweredIsDone' /\ RetriesLeft'
    BY <1>2, WholeIsOfOne DEF Call!Begin
  <2>3. RequestsCounted'
    BY <1>2 DEF Call!Begin
  <2>4. Call!AnswerIsWhole' /\ Call!ShownFromOneAttempt'
    BY <1>2, WholeIsOfOne DEF Call!Begin
  <2> QED
    BY <2>1, <2>2, <2>3, <2>4, <2>5
<1>3. CASE Call!Register
  <2>1. Counted'
    BY <1>3 DEF Call!Register, Call!Admitted, Call!End
  <2>5. Flags'
    BY <1>3 DEF Flags, Call!Register, Call!Admitted, Call!End
  <2>2. NothingShown' /\ ReadInOrder' /\ AnsweredIsDone' /\ RetriesLeft'
    BY <1>3, WholeIsOfOne DEF Call!Register, Call!Admitted, Call!End
  <2>3. RequestsCounted'
    BY <1>3 DEF Call!Register, Call!Admitted, Call!End
  <2>4. Call!AnswerIsWhole' /\ Call!ShownFromOneAttempt'
    BY <1>3, WholeIsOfOne DEF Call!Register, Call!Admitted, Call!End
  <2> QED
    BY <2>1, <2>2, <2>3, <2>4, <2>5
<1>4. CASE Call!Open
  <2>1. Counted'
    BY <1>4 DEF Call!Open, Call!Interrupts, Call!Afresh
  <2>5. Flags'
    BY <1>4 DEF Flags, Call!Open, Call!Interrupts, Call!Afresh
  <2>2. NothingShown' /\ ReadInOrder' /\ AnsweredIsDone' /\ RetriesLeft'
    BY <1>4, WholeIsOfOne DEF Call!Open, Call!Interrupts, Call!Afresh
  <2>3. RequestsCounted'
    BY <1>4 DEF Call!Open, Call!Interrupts, Call!Afresh
  <2>4. Call!AnswerIsWhole' /\ Call!ShownFromOneAttempt'
    BY <1>4, WholeIsOfOne DEF Call!Open, Call!Interrupts, Call!Afresh
  <2> QED
    BY <2>1, <2>2, <2>3, <2>4, <2>5
<1>5. CASE Call!Exhausted
  <2>1. Counted'
    BY <1>5 DEF Call!Exhausted, Call!Interrupts, Call!Unregister, Call!Whole, Call!End
  <2>5. Flags'
    BY <1>5 DEF Flags, Call!Exhausted, Call!Interrupts, Call!Unregister, Call!Whole, Call!End
  <2>2. NothingShown' /\ ReadInOrder' /\ AnsweredIsDone' /\ RetriesLeft'
    BY <1>5, WholeIsOfOne DEF Call!Exhausted, Call!Interrupts, Call!Unregister, Call!Whole,
       Call!End
  <2>3. RequestsCounted'
    BY <1>5 DEF Call!Exhausted, Call!Interrupts, Call!Unregister, Call!Whole, Call!End
  <2>4. Call!AnswerIsWhole' /\ Call!ShownFromOneAttempt'
    BY <1>5, WholeIsOfOne DEF Call!Exhausted, Call!Interrupts, Call!Unregister, Call!Whole,
       Call!End, ChunksOf
  <2> QED
    BY <2>1, <2>2, <2>3, <2>4, <2>5
<1>6. CASE Call!Interrupted
  <2>1. Counted'
    BY <1>6 DEF Call!Interrupted, Call!Interrupts, Call!Unregister
  <2>5. Flags'
    BY <1>6 DEF Flags, Call!Interrupted, Call!Interrupts, Call!Unregister
  <2>2. NothingShown' /\ ReadInOrder' /\ AnsweredIsDone' /\ RetriesLeft'
    BY <1>6, WholeIsOfOne DEF Call!Interrupted, Call!Interrupts, Call!Unregister
  <2>3. RequestsCounted'
    BY <1>6 DEF Call!Interrupted, Call!Interrupts, Call!Unregister
  <2>4. Call!AnswerIsWhole' /\ Call!ShownFromOneAttempt'
    BY <1>6, WholeIsOfOne DEF Call!Interrupted, Call!Interrupts, Call!Unregister
  <2> QED
    BY <2>1, <2>2, <2>3, <2>4, <2>5
<1>7. CASE Call!Refused
  <2>1. Counted'
    BY <1>7 DEF Call!Refused, Call!Interrupts, Call!Unregister, Call!End
  <2>5. Flags'
    BY <1>7 DEF Flags, Call!Refused, Call!Interrupts, Call!Unregister, Call!End
  <2>2. NothingShown' /\ ReadInOrder' /\ AnsweredIsDone' /\ RetriesLeft'
    BY <1>7, WholeIsOfOne DEF Call!Refused, Call!Interrupts, Call!Unregister, Call!End
  <2>3. RequestsCounted'
    BY <1>7 DEF Call!Refused, Call!Interrupts, Call!Unregister, Call!End
  <2>4. Call!AnswerIsWhole' /\ Call!ShownFromOneAttempt'
    BY <1>7, WholeIsOfOne DEF Call!Refused, Call!Interrupts, Call!Unregister, Call!End
  <2> QED
    BY <2>1, <2>2, <2>3, <2>4, <2>5
<1>8. CASE Call!Stops
  <2>1. Counted'
    BY <1>8 DEF Call!Stops, Call!Interrupts, Call!Unregister, Call!End
  <2>5. Flags'
    BY <1>8 DEF Flags, Call!Stops, Call!Interrupts, Call!Unregister, Call!End
  <2>2. NothingShown' /\ ReadInOrder' /\ AnsweredIsDone' /\ RetriesLeft'
    BY <1>8, WholeIsOfOne DEF Call!Stops, Call!Interrupts, Call!Unregister, Call!End
  <2>3. RequestsCounted'
    BY <1>8 DEF Call!Stops, Call!Interrupts, Call!Unregister, Call!End
  <2>4. Call!AnswerIsWhole' /\ Call!ShownFromOneAttempt'
    BY <1>8, WholeIsOfOne DEF Call!Stops, Call!Interrupts, Call!Unregister, Call!End
  <2> QED
    BY <2>1, <2>2, <2>3, <2>4, <2>5
<1>9. CASE Call!Retry
  <2>1. Counted'
    BY <1>9 DEF Call!Retry, Call!Spent, Call!End, Call!Cleared
  <2>5. Flags'
    BY <1>9 DEF Flags, Call!Retry, Call!Spent, Call!End, Call!Cleared
  <2>2. NothingShown' /\ ReadInOrder' /\ AnsweredIsDone' /\ RetriesLeft'
    BY <1>9, WholeIsOfOne DEF Call!Retry, Call!Spent, Call!End, Call!Cleared
  <2>3. RequestsCounted'
    BY <1>9 DEF Call!Retry, Call!Spent, Call!End, Call!Cleared
  <2>4. Call!AnswerIsWhole' /\ Call!ShownFromOneAttempt'
    BY <1>9, WholeIsOfOne DEF Call!Retry, Call!Spent, Call!End, Call!Cleared
  <2> QED
    BY <2>1, <2>2, <2>3, <2>4, <2>5
<1>10. CASE Call!Waited
  <2>1. Counted'
    BY <1>10 DEF Call!Waited, Call!Interrupts, Call!Unregister
  <2>5. Flags'
    BY <1>10 DEF Flags, Call!Waited, Call!Interrupts, Call!Unregister
  <2>2. NothingShown' /\ ReadInOrder' /\ AnsweredIsDone' /\ RetriesLeft'
    BY <1>10, WholeIsOfOne DEF Call!Waited, Call!Interrupts, Call!Unregister
  <2>3. RequestsCounted'
    BY <1>10 DEF Call!Waited, Call!Interrupts, Call!Unregister
  <2>4. Call!AnswerIsWhole' /\ Call!ShownFromOneAttempt'
    BY <1>10, WholeIsOfOne DEF Call!Waited, Call!Interrupts, Call!Unregister
  <2> QED
    BY <2>1, <2>2, <2>3, <2>4, <2>5
<1>11. CASE Call!Done
  <2>1. Counted'
    BY <1>11 DEF Call!Done, Call!vars
  <2>5. Flags'
    BY <1>11 DEF Flags, Call!Done, Call!vars
  <2>2. NothingShown' /\ ReadInOrder' /\ AnsweredIsDone' /\ RetriesLeft'
    BY <1>11, WholeIsOfOne DEF Call!Done, Call!vars
  <2>3. RequestsCounted'
    BY <1>11 DEF Call!Done, Call!vars
  <2>4. Call!AnswerIsWhole' /\ Call!ShownFromOneAttempt'
    BY <1>11, WholeIsOfOne DEF Call!Done, Call!vars
  <2> QED
    BY <2>1, <2>2, <2>3, <2>4, <2>5
<1>12. ASSUME NEW last \in BOOLEAN, Call!Chunk(last) PROVE CallInv'
  <2>1. Counted'
    BY <1>12 DEF Call!Chunk
  <2>5. Flags'
    BY <1>12 DEF Flags, Call!Chunk
  <2>2. gathered' = ChunksOf(sentNow', attempt') /\ shown' = gathered'
    BY <1>12, WholeGrows DEF Call!Chunk
  <2>3. NothingShown' /\ ReadInOrder' /\ AnsweredIsDone' /\ RetriesLeft' /\ RequestsCounted'
    BY <1>12, <2>2 DEF Call!Chunk
  <2>4. Call!AnswerIsWhole' /\ Call!ShownFromOneAttempt'
    BY <1>12, <2>1, <2>2, WholeIsOfOne DEF Call!Chunk
  <2> QED
    BY <2>1, <2>3, <2>4, <2>5
<1> QED
  BY <1>1, <1>2, <1>3, <1>4, <1>5, <1>6, <1>7, <1>8, <1>9, <1>10, <1>11, <1>12 DEF Call!Next
\* A bridge a call waits on is known to the run, so a cancel has told it.
KnownToRun ==
  pc \in {"open", "read", "waiting"} => registered /\ (runCancelled => stopped)

\* No call waits on a bridge at first.
LEMMA KnownInitially == Call!Init => KnownToRun
  BY DEF Call!Init, KnownToRun

\* Every step of ModelCall keeps this.
LEMMA KnownKept == KnownToRun /\ Call!Next => KnownToRun'
<1> SUFFICES ASSUME KnownToRun, Call!Next PROVE KnownToRun'
  OBVIOUS
<1> USE DEF KnownToRun
<1>1. CASE Call!Cancel
  BY <1>1 DEF Call!Cancel
<1>2. CASE Call!Begin
  BY <1>2 DEF Call!Begin
<1>3. CASE Call!Register
  BY <1>3 DEF Call!Register, Call!Admitted, Call!End
<1>4. CASE Call!Open
  BY <1>4 DEF Call!Open
<1>5. CASE Call!Exhausted
  BY <1>5 DEF Call!Exhausted, Call!Unregister, Call!End
<1>6. CASE Call!Interrupted
  BY <1>6 DEF Call!Interrupted, Call!Unregister
<1>7. CASE Call!Refused
  BY <1>7 DEF Call!Refused, Call!Unregister, Call!End
<1>8. CASE Call!Stops
  BY <1>8 DEF Call!Stops, Call!Unregister, Call!End
<1>9. CASE Call!Retry
  BY <1>9 DEF Call!Retry, Call!End
<1>10. CASE Call!Waited
  BY <1>10 DEF Call!Waited, Call!Unregister
<1>11. CASE Call!Done
  BY <1>11 DEF Call!Done, Call!vars
<1>12. CASE \E last \in BOOLEAN : Call!Chunk(last)
  BY <1>12 DEF Call!Chunk
<1> QED
  BY <1>1, <1>2, <1>3, <1>4, <1>5, <1>6, <1>7, <1>8, <1>9, <1>10, <1>11, <1>12 DEF Call!Next

\* A request is opened, or fails to open, only from "open".
LEMMA RequestsNeedTheRun == KnownToRun /\ Call!Next /\ requests' # requests => ~runCancelled
  BY DEF KnownToRun, Call!Next, Call!Cancel, Call!Begin, Call!Register,
     Call!Open, Call!Interrupts, Call!Exhausted, Call!Interrupted, Call!Refused,
     Call!Stops, Call!Retry, Call!Waited, Call!Done, Call!vars, Call!Chunk


-----------------------------------------------------------------------------
(* Leaving the program: the invariant of CliLifecycle. *)

\* What shutdown owes a task: its name if it is alive, its exception if it failed.
Accounted(t) ==
  /\ life[t] = "alive" => t \in unfinished
  /\ life[t] = "failed" => t \in unfinished \/ captured[t] = 1

\* Whether a sequence holds a task.
IsIn(q, t) == \E i \in DOMAIN q : q[i] = t

\* The run at work is alive.
RunsKnown == \A t \in entered : life[t] = "alive" /\ kind[t] = "run"

\* The phase of the life cycle follows from the stage; owners are told only when leaving.
PhaseFollowsStage ==
  /\ stage \in {"draining", "closing", "waiting", "joining", "exited"} => phase # "active"
  /\ phase = "stopped" => stage \in {"closing", "waiting", "joining", "exited", "killed"}
  /\ signalled => phase # "active"

\* Before shutdown drains, every live task is tracked, and every failure recorded or tracked.
LiveIsTracked ==
  stage \in {"starting", "ui", "left"} => \A t \in Tasks :
    /\ life[t] = "alive" => IsIn(tracked, t)
    /\ life[t] = "failed" => IsIn(tracked, t) \/ captured[t] = 1

\* While it drains, every task is still to come or accounted for.
DrainAccounts ==
  /\ stage = "draining" => \A t \in Tasks : IsIn(rest, t) \/ Accounted(t)
  /\ stage = "closing" \/ phase = "stopped" => \A t \in Tasks : Accounted(t)

\* Who was told, and which run is at work.
OwnersKnown == Exit!OwnersTold /\ Exit!ClosingTells /\ RunsKnown

ExitInv == Exit!TypeOK /\ OwnersKnown /\ PhaseFollowsStage /\ LiveIsTracked /\ DrainAccounts

\* What the concatenation of two sequences holds.
LEMMA ConcatIs ==
  ASSUME NEW S, NEW a \in Seq(S), NEW b \in Seq(S)
  PROVE  /\ a \o b \in Seq(S) /\ Len(a \o b) = Len(a) + Len(b)
         /\ \A j \in 1..Len(a) : (a \o b)[j] = a[j]
         /\ \A j \in 1..Len(b) : (a \o b)[Len(a) + j] = b[j]
  OBVIOUS

\* Removing one element keeps the others.
LEMMA RemoveAtKeeps ==
  ASSUME NEW S, NEW q \in Seq(S), NEW i \in DOMAIN q
  PROVE  /\ Exit!RemoveAt(q, i) \in Seq(S)
         /\ \A t : t # q[i] /\ IsIn(q, t) => IsIn(Exit!RemoveAt(q, i), t)
<1> DEFINE r == Exit!RemoveAt(q, i)
<1>1. /\ r \in Seq(S) /\ Len(r) = Len(q) - 1
      /\ \A j \in 1..(Len(q) - 1) : r[j] = IF j < i THEN q[j] ELSE q[j + 1]
  <2> DEFINE a == SubSeq(q, 1, i - 1)
             b == SubSeq(q, i + 1, Len(q))
  <2>1. a \in Seq(S) /\ Len(a) = i - 1 /\ \A j \in 1..(i - 1) : a[j] = q[j]
    OBVIOUS
  <2>2. b \in Seq(S) /\ Len(b) = Len(q) - i /\ \A j \in 1..(Len(q) - i) : b[j] = q[i + j]
    OBVIOUS
  <2>3. r = a \o b
    BY DEF Exit!RemoveAt
  <2> HIDE DEF a, b, r
  <2>4. r \in Seq(S) /\ Len(r) = Len(q) - 1
    BY <2>1, <2>2, <2>3, ConcatIs
  <2>5. ASSUME NEW j \in 1..(Len(q) - 1), j < i PROVE r[j] = q[j]
    BY <2>1, <2>2, <2>3, <2>5, ConcatIs
  <2>6. ASSUME NEW j \in 1..(Len(q) - 1), ~(j < i) PROVE r[j] = q[j + 1]
    <3>1. j - (i - 1) \in 1..Len(b) /\ Len(a) + (j - (i - 1)) = j /\ i + (j - (i - 1)) = j + 1
      BY <2>1, <2>2, <2>6
    <3>0. \A k \in 1..Len(b) : (a \o b)[Len(a) + k] = b[k]
      BY <2>1, <2>2, ConcatIs
    <3>2. \A k \in 1..Len(b) : r[Len(a) + k] = b[k]
      BY <2>3, <3>0
    <3>3. r[j] = b[j - (i - 1)]
      BY <3>1, <3>2
    <3> QED
      BY <2>2, <3>1, <3>3
  <2> QED
    BY <2>4, <2>5, <2>6
<1> HIDE DEF r
<1>2. ASSUME NEW t, t # q[i], NEW j \in DOMAIN q, q[j] = t
      PROVE  \E k \in DOMAIN r : r[k] = t
  <2>1. CASE j < i
    BY <1>1, <1>2, <2>1
  <2>2. CASE j > i
    <3>1. j - 1 \in 1..(Len(q) - 1) /\ ~(j - 1 < i) /\ (j - 1) + 1 = j
      BY <2>2
    <3> QED
      BY <1>1, <1>2, <3>1
  <2> QED
    BY <1>2, <2>1, <2>2
<1> QED
  BY <1>1, <1>2 DEF IsIn, r

\* An element is the first one or in the tail; Append adds one.
LEMMA InTail ==
  ASSUME NEW S, NEW q \in Seq(S), q # <<>>
  PROVE  /\ Tail(q) \in Seq(S) /\ Head(q) \in S
         /\ \A t : IsIn(q, t) => t = Head(q) \/ IsIn(Tail(q), t)
<1>1. ASSUME NEW j \in DOMAIN q, j # 1 PROVE j - 1 \in DOMAIN Tail(q) /\ Tail(q)[j - 1] = q[j]
  <2>1. j - 1 \in 1..(Len(q) - 1) /\ (j - 1) + 1 = j
    BY <1>1
  <2> QED
    BY <2>1, TailShifts
<1> QED
  BY <1>1, TailShifts DEF IsIn

\* Append keeps the elements and adds one.
LEMMA InAppend ==
  ASSUME NEW S, NEW q \in Seq(S), NEW x \in S
  PROVE  /\ Append(q, x) \in Seq(S) /\ IsIn(Append(q, x), x)
         /\ \A t : IsIn(q, t) => IsIn(Append(q, x), t)
  BY AppendAdds DEF IsIn

\* The types of the tasks and of the stages, and the flags.
TasksTyped ==
  /\ stage \in {"starting", "ui", "left", "draining", "closing", "waiting", "joining",
                "exited", "killed"}
  /\ phase \in {"active", "exit_requested", "shutting_down", "stopped"}
  /\ life \in [Tasks -> Exit!Ended \cup {"none", "alive"}]
  /\ kind \in [Tasks -> Exit!Kinds]
  /\ told \subseteq Tasks /\ unfinished \subseteq Tasks /\ missed \subseteq Tasks
  /\ entered \subseteq Tasks /\ orphans \subseteq Tasks
  /\ tracked \in Seq(Tasks) /\ rest \in Seq(Tasks)
  /\ captured \in [Tasks -> 0..1]
  /\ term \in Exit!Signals \cup {"none"}
FlagsTyped ==
  /\ timeUp \in BOOLEAN /\ hung \in BOOLEAN /\ leaving \in BOOLEAN /\ armed \in BOOLEAN
  /\ running \in BOOLEAN /\ signalled \in BOOLEAN /\ crashed \in BOOLEAN

\* Together they are the type invariant of CliLifecycle.
LEMMA ExitTyped ==
  /\ Exit!TypeOK <=> TasksTyped /\ FlagsTyped
  /\ Exit!TypeOK' <=> TasksTyped' /\ FlagsTyped'
  BY DEF Exit!TypeOK, TasksTyped, FlagsTyped

\* What shutdown has to account for does not change with the tasks.
TasksKept == UNCHANGED <<life, kind, tracked, rest, captured, unfinished>>

\* The invariant holds at first.
LEMMA ExitInitHolds == Exit!Init => ExitInv
<1> SUFFICES ASSUME Exit!Init PROVE ExitInv
  OBVIOUS
<1>1. TasksTyped
  BY DEF Exit!Init, TasksTyped, Exit!Kinds, Exit!Signals, Exit!Ended, Exit!NoTasks,
     Exit!Helper, Exit!Never
<1>2. FlagsTyped
  BY DEF Exit!Init, FlagsTyped
<1>3. OwnersKnown /\ PhaseFollowsStage /\ LiveIsTracked /\ DrainAccounts
  BY DEF Exit!Init, Exit!NoTasks, OwnersKnown, Exit!OwnersTold, Exit!ClosingTells, RunsKnown,
     PhaseFollowsStage, LiveIsTracked, DrainAccounts
<1> QED
  BY <1>1, <1>2, <1>3, ExitTyped DEF ExitInv

\* The flags keep their types, whatever happens.
LEMMA FlagsKept == FlagsTyped /\ Exit!Next => FlagsTyped'
<1> SUFFICES ASSUME FlagsTyped, Exit!Next PROVE FlagsTyped'
  OBVIOUS
<1> USE DEF FlagsTyped, Exit!ui, Exit!vars, Exit!owners, Exit!runs, Exit!drain
<1> USE DEF Exit!RequestExit, Exit!SignalOwners
<1>1. CASE \E t \in Tasks, k \in Exit!Kinds : Exit!Spawn(t, k)
  BY <1>1 DEF Exit!Spawn
<1>2. CASE \E b \in BOOLEAN : Exit!RunShown(b)
  BY <1>2 DEF Exit!RunShown
<1>3. CASE \E t \in Tasks, how \in Exit!Ended : Exit!TaskEnds(t, how)
  BY <1>3 DEF Exit!TaskEnds
<1>4. CASE \E t \in Tasks : Exit!RunEnters(t) \/ Exit!RunLeaves(t) \/ Exit!ThreadEnds(t)
                            \/ Exit!Forget(t)
  BY <1>4 DEF Exit!RunEnters, Exit!RunLeaves, Exit!ThreadEnds, Exit!Forget
<1>5. CASE Exit!ExitKey \/ Exit!WindowPasses \/ \E i \in BOOLEAN : Exit!CtrlC(i)
  BY <1>5 DEF Exit!ExitKey, Exit!WindowPasses, Exit!CtrlC
<1>6. CASE \E s \in Exit!Signals : Exit!FirstSignal(s)
  BY <1>6 DEF Exit!FirstSignal, Exit!Raises
<1>7. CASE Exit!BeforeUi
  BY <1>7 DEF Exit!BeforeUi, Exit!Raises
<1>8. CASE Exit!LoopEnds \/ Exit!Shutdown
  BY <1>8 DEF Exit!LoopEnds, Exit!Shutdown
<1>9. CASE Exit!PassEnded \/ Exit!PassTimeout \/ Exit!Stop \/ Exit!CloseRunner
  BY <1>9 DEF Exit!PassEnded, Exit!PassTimeout, Exit!Stop, Exit!CloseRunner
<1>10. CASE Exit!Closed \/ Exit!Join
  BY <1>10 DEF Exit!Closed, Exit!Join
<1>11. CASE Exit!Killed \/ Exit!Deadline \/ Exit!Over
  BY <1>11 DEF Exit!Killed, Exit!Deadline, Exit!Over
<1> QED
  BY <1>1, <1>2, <1>3, <1>4, <1>5, <1>6, <1>7, <1>8, <1>9, <1>10, <1>11
     DEF Exit!Next, Exit!MainStep

\* A step that neither starts a task nor brings a run to work, and that tells nobody
\* less, changes nothing for those who were told.
LEMMA ToldStay ==
  ASSUME OwnersKnown, kind' = kind, entered' \subseteq entered,
         \A t \in Tasks : life'[t] = "alive" => life[t] = "alive",
         \A t \in entered' : life'[t] = "alive",
         told \subseteq told', missed' = missed, signalled' = signalled,
         stage' \in {"waiting", "joining", "exited"} =>
           stage \in {"waiting", "joining", "exited"}
  PROVE  OwnersKnown'
<1>1. Exit!OwnersTold'
  BY DEF OwnersKnown, Exit!OwnersTold, Exit!Alive
<1>2. Exit!ClosingTells'
  BY DEF OwnersKnown, Exit!ClosingTells, Exit!Alive
<1>3. RunsKnown'
  BY DEF OwnersKnown, RunsKnown
<1> QED
  BY <1>1, <1>2, <1>3 DEF OwnersKnown

\* Who is told when the owners are told, and who is not.
LEMMA SignalsTell ==
  ASSUME TasksTyped, Exit!SignalOwners, UNCHANGED <<life, kind, running>>
  PROVE  told' \subseteq Tasks /\ missed' \subseteq Tasks /\ Exit!OwnersTold'
<1>1. Exit!Alive' = Exit!Alive
  BY DEF Exit!Alive
<1> QED
  BY <1>1 DEF TasksTyped, Exit!SignalOwners, Exit!Owners, Exit!OwnersTold, Exit!Alive,
     Exit!Observed

\* Asking to leave tells the owners, unless its first write to the terminal raises.
LEMMA AskingTells ==
  ASSUME TasksTyped, OwnersKnown, PhaseFollowsStage, NEW r \in BOOLEAN, Exit!RequestExit(r),
         UNCHANGED <<life, kind, running, entered, orphans>>,
         stage' \in {"waiting", "joining", "exited"} => stage' = stage
  PROVE  /\ phase' \in {"active", "exit_requested", "shutting_down", "stopped"}
         /\ phase' = "stopped" => phase = "stopped"
         /\ phase' # "active"
         /\ told' \subseteq Tasks /\ missed' \subseteq Tasks
         /\ OwnersKnown'
<1>1. /\ phase' \in {"active", "exit_requested", "shutting_down", "stopped"}
      /\ phase' = "stopped" => phase = "stopped"
      /\ phase' # "active"
  BY DEF TasksTyped, Exit!RequestExit
<1>2. CASE UNCHANGED Exit!owners
  BY <1>1, <1>2, ToldStay DEF Exit!owners, TasksTyped, PhaseFollowsStage, OwnersKnown,
     RunsKnown, Exit!ClosingTells, Exit!Alive, Exit!OwnersTold
<1>3. CASE phase = "active" /\ Exit!SignalOwners
  <2>1. told' \subseteq Tasks /\ missed' \subseteq Tasks /\ Exit!OwnersTold'
    BY <1>3, SignalsTell
  <2>2. Exit!ClosingTells'
    BY <1>3 DEF PhaseFollowsStage, Exit!ClosingTells
  <2>3. RunsKnown'
    BY DEF RunsKnown, OwnersKnown
  <2> QED
    BY <1>1, <2>1, <2>2, <2>3 DEF OwnersKnown
<1> QED
  BY <1>2, <1>3 DEF Exit!RequestExit

\* A step that leaves the tasks alone and asks to leave at most.
LEMMA TasksKeptHelps ==
  ASSUME TasksTyped, PhaseFollowsStage, LiveIsTracked, DrainAccounts, TasksKept,
         stage' = stage, phase' = "stopped" => phase = "stopped",
         phase # "active" => phase' # "active", signalled' => phase' # "active"
  PROVE  PhaseFollowsStage' /\ LiveIsTracked' /\ DrainAccounts'
<1>1. PhaseFollowsStage'
  BY DEF PhaseFollowsStage
<1>2. LiveIsTracked'
  BY DEF LiveIsTracked, TasksKept, IsIn
<1>3. DrainAccounts'
  BY DEF DrainAccounts, TasksKept, IsIn, Accounted
<1> QED
  BY <1>1, <1>2, <1>3

\* Every step of CliLifecycle keeps it.
LEMMA ExitPreserves == ExitInv /\ Exit!Next => ExitInv'
<1> SUFFICES ASSUME ExitInv, Exit!Next PROVE ExitInv'
  OBVIOUS
<1>0. /\ TasksTyped /\ FlagsTyped /\ FlagsTyped'
      /\ OwnersKnown /\ PhaseFollowsStage /\ LiveIsTracked /\ DrainAccounts
  BY ExitTyped, FlagsKept DEF ExitInv
<1> USE <1>0
<1> DEFINE Kept == TasksTyped' /\ OwnersKnown' /\ PhaseFollowsStage' /\ LiveIsTracked' /\ DrainAccounts'
<1> SUFFICES Kept
  BY ExitTyped DEF ExitInv
<1> USE DEF Exit!ui, Exit!owners, Exit!runs, Exit!drain
<1>0a. ASSUME TasksTyped', stage' = stage, phase' = phase, TasksKept,
              UNCHANGED Exit!owners, entered' \subseteq entered
       PROVE  Kept
  <2>1. OwnersKnown'
    BY <1>0a, ToldStay DEF TasksKept, OwnersKnown, RunsKnown
  <2>2. PhaseFollowsStage' /\ LiveIsTracked' /\ DrainAccounts'
    BY <1>0a, TasksKeptHelps DEF PhaseFollowsStage
  <2> QED
    BY <1>0a, <2>1, <2>2
<1>0b. ASSUME NEW r \in BOOLEAN, Exit!RequestExit(r), TasksKept, UNCHANGED Exit!runs,
              stage' = stage, term' \in Exit!Signals \cup {"none"}
       PROVE  Kept
  <2>1. /\ phase' \in {"active", "exit_requested", "shutting_down", "stopped"}
        /\ phase' = "stopped" => phase = "stopped"
        /\ phase' # "active"
        /\ told' \subseteq Tasks /\ missed' \subseteq Tasks
        /\ OwnersKnown'
    BY <1>0b, AskingTells DEF TasksKept
  <2>2. PhaseFollowsStage' /\ LiveIsTracked' /\ DrainAccounts'
    BY <1>0b, <2>1, TasksKeptHelps
  <2>3. TasksTyped'
    BY <1>0b, <2>1 DEF TasksTyped, TasksKept
  <2> QED
    BY <2>1, <2>2, <2>3
<1>1. ASSUME NEW t \in Tasks, NEW k \in Exit!Kinds, Exit!Spawn(t, k)
      PROVE  Kept
  <2> USE <1>1 DEF Exit!Spawn, Exit!Accepts
  <2>1. TasksTyped'
    BY InAppend DEF TasksTyped
  <2>2. /\ \A u \in Tasks : u # t => life'[u] = life[u] /\ kind'[u] = kind[u]
        /\ ~signalled /\ stage \notin {"waiting", "joining", "exited"}
    BY DEF TasksTyped, PhaseFollowsStage
  <2>3. OwnersKnown'
    BY <2>2 DEF OwnersKnown, Exit!OwnersTold, Exit!ClosingTells, RunsKnown, TasksTyped
  <2>4. PhaseFollowsStage'
    BY DEF PhaseFollowsStage
  <2>5. \A u : IsIn(tracked, u) \/ u = t => IsIn(tracked', u)
    BY InAppend DEF TasksTyped
  <2>6. LiveIsTracked'
    BY <2>1, <2>2, <2>5 DEF LiveIsTracked
  <2>7. DrainAccounts'
    BY DEF DrainAccounts, PhaseFollowsStage
  <2> QED
    BY <2>1, <2>3, <2>4, <2>6, <2>7
<1>2. ASSUME NEW b \in BOOLEAN, Exit!RunShown(b)
      PROVE  Kept
  <2> USE <1>2 DEF Exit!RunShown
  <2>1. TasksTyped'
    BY DEF TasksTyped
  <2> QED
    BY <2>1, <1>0a DEF TasksKept
<1>3. ASSUME NEW t \in Tasks, Exit!RunEnters(t)
      PROVE  Kept
  <2> USE <1>3 DEF Exit!RunEnters, Exit!InLoop
  <2>1. TasksTyped'
    BY DEF TasksTyped
  <2>2. OwnersKnown'
    BY DEF OwnersKnown, Exit!OwnersTold, Exit!ClosingTells, RunsKnown, Exit!Alive
  <2>3. PhaseFollowsStage' /\ LiveIsTracked' /\ DrainAccounts'
    BY TasksKeptHelps DEF TasksKept, PhaseFollowsStage
  <2> QED
    BY <2>1, <2>2, <2>3
<1>4. ASSUME NEW t \in Tasks, Exit!RunLeaves(t) \/ Exit!ThreadEnds(t)
      PROVE  Kept
  <2> USE <1>4 DEF Exit!RunLeaves, Exit!ThreadEnds
  <2>1. TasksTyped'
    BY DEF TasksTyped
  <2> QED
    BY <2>1, <1>0a DEF TasksKept
<1>5. ASSUME NEW t \in Tasks, NEW how \in Exit!Ended, Exit!TaskEnds(t, how)
      PROVE  Kept
  <2> USE <1>5 DEF Exit!TaskEnds
  <2>1. TasksTyped'
    BY DEF TasksTyped
  <2>2. /\ \A u \in Tasks : u # t => life'[u] = life[u]
        /\ life'[t] # "alive"
    BY DEF TasksTyped, Exit!Ended
  <2>3. OwnersKnown'
    BY <2>2, ToldStay DEF OwnersKnown, RunsKnown, TasksTyped
  <2>4. PhaseFollowsStage'
    BY DEF PhaseFollowsStage
  <2>5. LiveIsTracked'
    BY <2>2 DEF LiveIsTracked, IsIn
  <2>6. DrainAccounts'
    BY <2>2 DEF DrainAccounts, IsIn, Accounted
  <2> QED
    BY <2>1, <2>3, <2>4, <2>5, <2>6
<1>6. ASSUME NEW t \in Tasks, Exit!Forget(t)
      PROVE  Kept
  <2> USE <1>6 DEF Exit!Forget, Exit!Captured
  <2>1. PICK i \in DOMAIN tracked : tracked[i] = t /\ tracked' = Exit!RemoveAt(tracked, i)
    OBVIOUS
  <2>2. tracked' \in Seq(Tasks) /\ \A u : u # t /\ IsIn(tracked, u) => IsIn(tracked', u)
    BY <2>1, RemoveAtKeeps DEF TasksTyped
  <2>3. /\ captured' \in [Tasks -> 0..1]
        /\ \A u \in Tasks : captured[u] = 1 => captured'[u] = 1
        /\ life[t] = "failed" => captured'[t] = 1
        /\ life[t] # "alive"
    BY DEF TasksTyped, Exit!Ended
  <2>4. TasksTyped'
    BY <2>2, <2>3 DEF TasksTyped
  <2>5. OwnersKnown'
    BY ToldStay DEF OwnersKnown, RunsKnown
  <2>6. PhaseFollowsStage'
    BY DEF PhaseFollowsStage
  <2>7. LiveIsTracked'
    BY <2>2, <2>3 DEF LiveIsTracked
  <2>8. DrainAccounts'
    BY <2>3 DEF DrainAccounts, IsIn, Accounted
  <2> QED
    BY <2>4, <2>5, <2>6, <2>7, <2>8
<1>7. ASSUME Exit!BeforeUi
      PROVE  Kept
  <2> USE <1>7 DEF Exit!BeforeUi
  <2>1. TasksKept
    BY DEF TasksKept
  <2>2. /\ phase' \in {"active", "exit_requested", "shutting_down", "stopped"}
        /\ phase' = "stopped" => phase = "stopped"
        /\ (phase' = phase /\ UNCHANGED signalled) \/ phase' # "active"
        /\ told' \subseteq Tasks /\ missed' \subseteq Tasks /\ OwnersKnown'
    <3>1. ASSUME NEW r \in Exit!Raises(hung), Exit!RequestExit(r)
          PROVE  /\ phase' \in {"active", "exit_requested", "shutting_down", "stopped"}
                 /\ phase' = "stopped" => phase = "stopped"
                 /\ phase' # "active"
                 /\ told' \subseteq Tasks /\ missed' \subseteq Tasks /\ OwnersKnown'
      <4>1. r \in BOOLEAN
        BY DEF Exit!Raises
      <4> QED
        BY <3>1, <4>1, AskingTells
    <3>2. CASE UNCHANGED <<phase, Exit!owners>>
      BY <3>2, ToldStay DEF OwnersKnown, RunsKnown, TasksTyped
    <3> QED
      BY <3>1, <3>2
  <2>3. TasksTyped'
    BY <2>2 DEF TasksTyped
  <2>4. PhaseFollowsStage'
    BY <2>2 DEF PhaseFollowsStage
  <2>5. LiveIsTracked'
    BY <2>1 DEF LiveIsTracked, TasksKept, IsIn
  <2>6. DrainAccounts'
    BY <2>2, <2>4 DEF DrainAccounts, PhaseFollowsStage
  <2> QED
    BY <2>2, <2>3, <2>4, <2>5, <2>6
<1>8. ASSUME Exit!ExitKey
      PROVE  Kept
  BY <1>8, <1>0b DEF Exit!ExitKey, TasksKept, TasksTyped
<1>9. ASSUME Exit!WindowPasses
      PROVE  Kept
  <2> USE <1>9 DEF Exit!WindowPasses
  <2>1. TasksTyped'
    BY DEF TasksTyped
  <2> QED
    BY <2>1, <1>0a DEF TasksKept
<1>10. ASSUME NEW i \in BOOLEAN, Exit!CtrlC(i)
       PROVE  Kept
  <2> USE <1>10 DEF Exit!CtrlC
  <2>1. CASE Exit!RequestExit(FALSE)
    BY <2>1, <1>0b DEF TasksKept, TasksTyped
  <2>2. CASE UNCHANGED <<phase, Exit!owners>>
    <3>1. TasksTyped'
      BY <2>2 DEF TasksTyped
    <3> QED
      BY <2>2, <3>1, <1>0a DEF TasksKept
  <2> QED
    BY <2>1, <2>2
<1>11. ASSUME NEW s \in Exit!Signals, Exit!FirstSignal(s)
       PROVE  Kept
  <2> USE <1>11 DEF Exit!FirstSignal
  <2>1. TasksKept /\ stage' = stage /\ term' \in Exit!Signals \cup {"none"} /\ UNCHANGED Exit!runs
    BY DEF TasksKept
  <2>2. ASSUME NEW r \in Exit!Raises(hung'), Exit!RequestExit(r)
        PROVE  Kept
    <3>1. r \in BOOLEAN
      BY DEF Exit!Raises
    <3> QED
      BY <2>1, <2>2, <3>1, <1>0b
  <2>3. CASE UNCHANGED <<phase, Exit!owners>>
    <3>1. TasksTyped'
      BY <2>1, <2>3 DEF TasksTyped
    <3> QED
      BY <2>1, <2>3, <3>1, <1>0a
  <2> QED
    BY <2>2, <2>3
<1>12. ASSUME Exit!Killed
       PROVE  Kept
  <2> USE <1>12 DEF Exit!Killed, Exit!NoTasks, Exit!Helper, Exit!Never
  <2>1. TasksTyped'
    BY DEF TasksTyped, Exit!Kinds
  <2>2. OwnersKnown'
    BY DEF OwnersKnown, Exit!OwnersTold, Exit!ClosingTells, RunsKnown, Exit!Alive
  <2>3. PhaseFollowsStage'
    BY DEF PhaseFollowsStage
  <2>4. LiveIsTracked'
    BY DEF LiveIsTracked
  <2>5. DrainAccounts'
    BY DEF DrainAccounts, Accounted
  <2> QED
    BY <2>1, <2>2, <2>3, <2>4, <2>5
<1>13. ASSUME Exit!LoopEnds
       PROVE  Kept
  <2> USE <1>13 DEF Exit!LoopEnds
  <2>1. TasksTyped'
    BY DEF TasksTyped
  <2>2. OwnersKnown'
    BY ToldStay DEF OwnersKnown, RunsKnown
  <2>3. PhaseFollowsStage'
    BY DEF PhaseFollowsStage
  <2>4. LiveIsTracked'
    BY DEF LiveIsTracked, IsIn
  <2>5. DrainAccounts'
    BY DEF DrainAccounts, PhaseFollowsStage
  <2> QED
    BY <2>1, <2>2, <2>3, <2>4, <2>5
<1>14. ASSUME Exit!Shutdown
       PROVE  Kept
  <2> USE <1>14 DEF Exit!Shutdown
  <2>1. TasksTyped'
    BY DEF TasksTyped, Exit!Owners, Exit!Helpers, Exit!Alive
  <2>2. OwnersKnown'
    <3>1. CASE phase = "active"
      <4>1. Exit!Alive' = Exit!Alive
        BY DEF Exit!Alive
      <4>2. Exit!OwnersTold'
        BY <3>1, <4>1 DEF Exit!OwnersTold, Exit!Owners, Exit!Alive, Exit!Observed, TasksTyped
      <4> QED
        BY <4>2 DEF OwnersKnown, Exit!ClosingTells, RunsKnown
    <3>2. CASE phase # "active"
      BY <3>2, ToldStay DEF OwnersKnown, RunsKnown
    <3> QED
      BY <3>1, <3>2
  <2>3. PhaseFollowsStage' /\ LiveIsTracked'
    BY DEF PhaseFollowsStage, LiveIsTracked
  <2>4. DrainAccounts'
    BY DEF DrainAccounts, LiveIsTracked, IsIn, Accounted
  <2> QED
    BY <2>1, <2>2, <2>3, <2>4
<1>15. ASSUME Exit!Deadline
       PROVE  Kept
  <2> USE <1>15 DEF Exit!Deadline
  <2>1. TasksTyped'
    BY DEF TasksTyped
  <2> QED
    BY <2>1, <1>0a DEF TasksKept
<1>16. ASSUME Exit!PassEnded
       PROVE  Kept
  <2> USE <1>16 DEF Exit!PassEnded, Exit!Captured
  <2> DEFINE t == Head(rest)
  <2>1. rest' \in Seq(Tasks) /\ t \in Tasks /\ \A u : IsIn(rest, u) => u = t \/ IsIn(rest', u)
    BY InTail DEF TasksTyped
  <2> HIDE DEF t
  <2>2. captured' = [captured EXCEPT ![t] = IF life[t] = "failed" THEN 1 ELSE @]
    BY DEF t
  <2>3. /\ captured' \in [Tasks -> 0..1]
        /\ \A u \in Tasks : captured[u] = 1 => captured'[u] = 1
        /\ life[t] = "failed" => captured'[t] = 1
    BY <2>1, <2>2 DEF TasksTyped
  <2>4. life[t] # "alive"
    BY DEF Exit!Ended, t
  <2>5. TasksTyped'
    BY <2>1, <2>3 DEF TasksTyped
  <2>6. OwnersKnown'
    BY ToldStay DEF OwnersKnown, RunsKnown
  <2>7. PhaseFollowsStage' /\ LiveIsTracked'
    BY DEF PhaseFollowsStage, LiveIsTracked
  <2>8. DrainAccounts'
    BY <2>1, <2>3, <2>4 DEF DrainAccounts, Accounted, PhaseFollowsStage
  <2> QED
    BY <2>5, <2>6, <2>7, <2>8
<1>17. ASSUME Exit!PassTimeout
       PROVE  Kept
  <2> USE <1>17 DEF Exit!PassTimeout, Exit!GivenUp
  <2>1. /\ rest' \in Seq(Tasks) /\ Head(rest) \in Tasks
        /\ \A u : IsIn(rest, u) => u = Head(rest) \/ IsIn(rest', u)
    BY InTail DEF TasksTyped
  <2>2. TasksTyped'
    BY <2>1 DEF TasksTyped
  <2>3. OwnersKnown'
    BY ToldStay DEF OwnersKnown, RunsKnown
  <2>4. PhaseFollowsStage' /\ LiveIsTracked'
    BY DEF PhaseFollowsStage, LiveIsTracked
  <2>5. DrainAccounts'
    BY <2>1 DEF DrainAccounts, Accounted, PhaseFollowsStage
  <2> QED
    BY <2>2, <2>3, <2>4, <2>5
<1>18. ASSUME Exit!Stop
       PROVE  Kept
  <2> USE <1>18 DEF Exit!Stop
  <2>1. TasksTyped'
    BY DEF TasksTyped
  <2>2. OwnersKnown'
    BY ToldStay DEF OwnersKnown, RunsKnown
  <2>3. PhaseFollowsStage'
    BY DEF PhaseFollowsStage
  <2>4. LiveIsTracked'
    BY DEF LiveIsTracked
  <2>5. DrainAccounts'
    BY DEF DrainAccounts, IsIn, Accounted, TasksTyped
  <2> QED
    BY <2>1, <2>2, <2>3, <2>4, <2>5
<1>19. ASSUME Exit!CloseRunner
       PROVE  Kept
  <2> USE <1>19 DEF Exit!CloseRunner
  <2>1. TasksTyped'
    BY DEF TasksTyped, Exit!ToldByClose, Exit!Alive
  <2>2. OwnersKnown'
    <3>1. Exit!Alive' = Exit!Alive
      BY DEF Exit!Alive
    <3>2. Exit!OwnersTold' /\ RunsKnown'
      BY <3>1 DEF OwnersKnown, Exit!OwnersTold, RunsKnown
    <3>3. Exit!ClosingTells'
      BY <3>1 DEF OwnersKnown, Exit!ClosingTells, Exit!ToldByClose, RunsKnown
    <3> QED
      BY <3>2, <3>3 DEF OwnersKnown
  <2>3. PhaseFollowsStage'
    BY DEF PhaseFollowsStage
  <2>4. LiveIsTracked'
    BY DEF LiveIsTracked
  <2>5. DrainAccounts'
    BY DEF DrainAccounts, IsIn, Accounted
  <2> QED
    BY <2>1, <2>2, <2>3, <2>4, <2>5
<1>20. ASSUME Exit!Closed \/ Exit!Join
       PROVE  Kept
  <2> USE <1>20 DEF Exit!Closed, Exit!Join
  <2>1. TasksTyped'
    BY DEF TasksTyped
  <2>2. OwnersKnown'
    BY ToldStay DEF OwnersKnown, RunsKnown
  <2>3. PhaseFollowsStage'
    BY DEF PhaseFollowsStage
  <2>4. LiveIsTracked'
    BY DEF LiveIsTracked
  <2>5. DrainAccounts'
    BY DEF DrainAccounts, IsIn, Accounted
  <2> QED
    BY <2>1, <2>2, <2>3, <2>4, <2>5
<1>21. ASSUME Exit!Over
       PROVE  Kept
  <2> USE <1>21 DEF Exit!Over, Exit!vars
  <2>1. TasksTyped'
    BY DEF TasksTyped
  <2> QED
    BY <2>1, <1>0a DEF TasksKept
<1> QED
  BY <1>1, <1>2, <1>3, <1>4, <1>5, <1>6, <1>7, <1>8, <1>9, <1>10, <1>11, <1>12, <1>13, <1>14,
     <1>15, <1>16, <1>17, <1>18, <1>19, <1>20, <1>21 DEF Exit!Next, Exit!MainStep

\* What the invariant of a call says of its answer.
LEMMA CallShows == CallInv => OneWholeAnswer
  BY DEF CallInv, OneWholeAnswer, Call!OneWholeAnswer

\* What the invariant of leaving says at the end of shutdown.
LEMMA ExitShows == ExitInv => ExitAccounts
  BY DEF ExitInv, DrainAccounts, Accounted, OwnersKnown, Exit!NothingUnaccounted, ExitAccounts,
     Exit!ExitAccounts

-----------------------------------------------------------------------------
(* The composition: each part is left alone by the steps of the others. *)

\* The invariant depends on the variables of the call only.
LEMMA CallIdle == CallInv /\ KnownToRun /\ UNCHANGED callVars => CallInv' /\ KnownToRun'
<1> SUFFICES ASSUME CallInv, KnownToRun, UNCHANGED callVars PROVE CallInv' /\ KnownToRun'
  OBVIOUS
<1>1. Counted' /\ Flags'
  BY DEF CallInv, Counted, Flags, callVars
<1>2. NothingShown' /\ ReadInOrder' /\ AnsweredIsDone' /\ RetriesLeft' /\ RequestsCounted'
  BY DEF CallInv, NothingShown, ReadInOrder, AnsweredIsDone, RetriesLeft, RequestsCounted,
     callVars
<1>3. Call!AnswerIsWhole' /\ Call!ShownFromOneAttempt'
  BY DEF CallInv, Call!AnswerIsWhole, Call!ShownFromOneAttempt, callVars
<1>4. KnownToRun'
  BY DEF KnownToRun, callVars
<1> QED
  BY <1>1, <1>2, <1>3, <1>4 DEF CallInv

\* And this one on those of leaving the program.
LEMMA ExitIdle == ExitInv /\ UNCHANGED exitVars => ExitInv'
<1> SUFFICES ASSUME ExitInv, UNCHANGED exitVars PROVE ExitInv'
  OBVIOUS
<1>1. Exit!TypeOK'
  BY DEF ExitInv, Exit!TypeOK, exitVars
<1>2. OwnersKnown' /\ PhaseFollowsStage'
  BY DEF ExitInv, OwnersKnown, Exit!OwnersTold, Exit!ClosingTells, RunsKnown, Exit!Alive,
     PhaseFollowsStage, exitVars
<1>3. LiveIsTracked' /\ DrainAccounts'
  BY DEF ExitInv, LiveIsTracked, DrainAccounts, Accounted, IsIn, exitVars
<1> QED
  BY <1>1, <1>2, <1>3 DEF ExitInv

\* The invariant of the composition.
RequestsInv == BridgeInv /\ CallInv /\ KnownToRun /\ ExitInv

\* All of it holds at first.
LEMMA RequestsStart == MCInit => RequestsInv
  BY BridgeInitHolds, CallInitHolds, KnownInitially, ExitInitHolds DEF MCInit, RequestsInv

\* Every step of the composition keeps all of it.
LEMMA RequestsStep == RequestsInv /\ [MCNext]_allVars => RequestsInv'
<1> SUFFICES ASSUME RequestsInv, [MCNext]_allVars PROVE RequestsInv'
  OBVIOUS
<1>1. BridgeInv /\ CallInv /\ KnownToRun /\ ExitInv
  BY DEF RequestsInv
<1>2. /\ Bridge!Next \/ UNCHANGED bridgeVars
      /\ Call!Next \/ UNCHANGED callVars
      /\ Exit!Next \/ UNCHANGED exitVars
  BY DEF MCNext, QueueStep, BridgeStep, CallStep, ExitStep, allVars
<1>3. BridgeInv'
  BY <1>1, <1>2, BridgePreserves, BridgeIdle
<1>4. CallInv' /\ KnownToRun'
  BY <1>1, <1>2, CallPreserves, KnownKept, CallIdle
<1>5. ExitInv'
  BY <1>1, <1>2, ExitPreserves, ExitIdle
<1> QED
  BY <1>3, <1>4, <1>5 DEF RequestsInv

\* The invariants of a model request, of a call and of leaving the program hold
\* in every behaviour of the composition.
THEOREM RequestsInvariance == MCSpec => []RequestsInv
<1> QED
  BY RequestsStart, RequestsStep, PTL DEF MCSpec

\* For every number of chunks and slots and any callers that cancel: no chunk
\* is lost, doubled or buffered beyond the slots, every slot is accounted for,
\* and a request that completed has handed out all that was sent
\* (ModelStreamBridge, ModelStreamLoop).
THEOREM EveryChunkArrives == MCSpec => []ChunksArrive
<1>1. RequestsInv => ChunksArrive
  BY BridgeShows DEF RequestsInv
<1> QED
  BY <1>1, RequestsInvariance, PTL

\* A bridge that is closed has no request left in the loop, nor one about to
\* be created (_settle, ModelStreamLoop.run).
THEOREM ClosingReleases == MCSpec => []ClosedMeansReleased
<1>1. RequestsInv => ClosedMeansReleased
  BY BridgeShows DEF RequestsInv
<1> QED
  BY <1>1, RequestsInvariance, PTL

\* However often a call is retried and wherever each attempt breaks off, its
\* answer is the whole of one attempt and the transcript shows that attempt
\* (_generate_with_cache, on_retry).
THEOREM AnswersAreWhole == MCSpec => []OneWholeAnswer
<1>1. RequestsInv => OneWholeAnswer
  BY CallShows DEF RequestsInv
<1> QED
  BY <1>1, RequestsInvariance, PTL

\* Once the run is cancelled no request is sent any more, also not by a retry
\* whose back-off the cancel did not find (register_model_stream).
THEOREM CancelSendsNothing == MCSpec => Call!NoRequestAfterCancel
<1>1. RequestsInv /\ [MCNext]_allVars => [requests' # requests => ~runCancelled]_(Call!vars)
  <2> SUFFICES ASSUME RequestsInv, [MCNext]_allVars, requests' # requests PROVE ~runCancelled
    BY DEF Call!vars
  <2>1. Call!Next \/ UNCHANGED callVars
    BY DEF MCNext, QueueStep, BridgeStep, CallStep, ExitStep, allVars
  <2>2. ~ UNCHANGED callVars
    BY DEF callVars
  <2> QED
    BY <2>1, <2>2, RequestsNeedTheRun DEF RequestsInv
<1> QED
  BY <1>1, RequestsInvariance, PTL DEF MCSpec, Call!NoRequestAfterCancel

\* Whatever the tasks, keys, signals and deadlines do, and also when the write to a
\* terminal that hung up raises: an exit tells every owner of live work, except a run the
\* UI does not show; close() tells every wait and, if a run is at work, every run; and
\* after shutdown every task has ended or is named as unfinished, and every failure by
\* then is on record (request_exit, shutdown, _drain_tasks, close).
THEOREM ExitTellsAndAccounts == MCSpec => []ExitAccounts
<1>1. RequestsInv => ExitAccounts
  BY ExitShows DEF RequestsInv
<1> QED
  BY <1>1, RequestsInvariance, PTL

=============================================================================

------------------------------ MODULE InputQueue ------------------------------
(***************************************************************************)
(* The steering and follow-up queues of RunController (agent/control.py).  *)
(* Each operation is one critical section of the controller's lock.  The   *)
(* queues are two deques; a counter shared by both orders their messages.  *)
(***************************************************************************)
EXTENDS Naturals, Sequences, SequencesExt

CONSTANTS
  Messages, \* texts
  MaxOrder  \* bound on the messages submitted

ASSUME MaxOrderAssumption == MaxOrder \in Nat

VARIABLES
  steering,     \* _steering
  followUps,    \* _follow_ups
  queueOrder,   \* next value of _queue_order
  deferSteering \* _defer_steering

vars == <<steering, followUps, queueOrder, deferSteering>>

Queued == [msg : Messages, order : 0..(MaxOrder - 1)]

TypeOK ==
  /\ steering \in Seq(Queued)
  /\ followUps \in Seq(Queued)
  /\ queueOrder \in 0..MaxOrder
  /\ deferSteering \in BOOLEAN

Init ==
  /\ steering = <<>> /\ followUps = <<>>
  /\ queueOrder = 0
  /\ deferSteering = FALSE

-----------------------------------------------------------------------------

NewMessage(m) == [msg |-> m, order |-> queueOrder]

Steer(m) ==
  /\ queueOrder < MaxOrder
  /\ steering' = Append(steering, NewMessage(m))
  /\ queueOrder' = queueOrder + 1
  /\ UNCHANGED <<followUps, deferSteering>>

FollowUp(m) ==
  /\ queueOrder < MaxOrder
  /\ followUps' = Append(followUps, NewMessage(m))
  /\ queueOrder' = queueOrder + 1
  /\ UNCHANGED <<steering, deferSteering>>

\* Mutant: the age of the waiting follow-ups is not looked at.
SteeringIsNextAlways == steering # <<>>

\* The oldest steering message is older than every follow-up.
SteeringIsNext ==
  /\ steering # <<>>
  /\ followUps # <<>> => steering[1].order <= followUps[1].order

\* pop_steering returns a message; cancelled is cancel_requested.
SteeringReady(cancelled) == ~deferSteering /\ ~cancelled /\ SteeringIsNext

PopSteering(cancelled) ==
  /\ SteeringReady(cancelled)
  /\ steering' = Tail(steering)
  /\ UNCHANGED <<followUps, queueOrder, deferSteering>>

PopFollowUp ==
  /\ followUps # <<>>
  /\ followUps' = Tail(followUps)
  /\ UNCHANGED <<steering, queueOrder, deferSteering>>

ByOrder(a, b) == a.order < b.order

\* pending_message_texts and take_unapplied list both queues by order.
Pending == SortSeq(steering \o followUps, ByOrder)

TakeUnapplied ==
  /\ steering' = <<>> /\ followUps' = <<>>
  /\ UNCHANGED <<queueOrder, deferSteering>>

SetDeferSteering(v) ==
  /\ deferSteering' = v
  /\ UNCHANGED <<steering, followUps, queueOrder>>

Next ==
  \/ \E m \in Messages : Steer(m) \/ FollowUp(m)
  \/ \E cancelled \in BOOLEAN : PopSteering(cancelled)
  \/ PopFollowUp
  \/ TakeUnapplied
  \/ \E v \in BOOLEAN : SetDeferSteering(v)

Spec == Init /\ [][Next]_vars

-----------------------------------------------------------------------------
(* Properties. *)

\* Each deque is in submission order and the counter has not handed out a
\* later number, so comparing the two heads compares the two queues.
Ascending(q) == \A i, j \in DOMAIN q : i < j => q[i].order < q[j].order
QueuesAscending ==
  /\ Ascending(steering) /\ Ascending(followUps)
  /\ \A i \in DOMAIN steering : steering[i].order < queueOrder
  /\ \A i \in DOMAIN followUps : followUps[i].order < queueOrder
  /\ \A i \in DOMAIN steering, j \in DOMAIN followUps :
       steering[i].order # followUps[j].order

\* No follow-up that waits is older than a steering message handed out, not
\* only the first one (pop_steering compares the two heads).
NoOvertaking ==
  [][steering # <<>> /\ steering' = Tail(steering) /\ UNCHANGED followUps
       => \A j \in DOMAIN followUps : steering[1].order < followUps[j].order]_vars

\* The two deques behave as the single line of messages the documentation
\* promises: later input goes to the end, and steering does not overtake a
\* follow-up queued before it (docs/tui.md, input while a run is active).
LineOf(q, mode) ==
  [i \in DOMAIN q |-> [msg |-> q[i].msg, order |-> q[i].order, mode |-> mode]]
Line == LET merged == SortSeq(LineOf(steering, "steer") \o
                              LineOf(followUps, "followUp"), ByOrder)
        IN  [i \in DOMAIN merged |-> [msg |-> merged[i].msg, mode |-> merged[i].mode]]

Promise == INSTANCE MessageQueue WITH line <- Line
OneLineOfMessages == Promise!Spec

=============================================================================

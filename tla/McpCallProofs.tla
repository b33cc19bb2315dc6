---------------------------- MODULE McpCallProofs ----------------------------
(***************************************************************************)
(* Proofs about McpCall for every number of calls of a connection.         *)
(***************************************************************************)
EXTENDS McpCall, FiniteSetTheorems, TLAPS

(***************************************************************************)
(* The inductive invariant. OneAtATime follows from Turns: the calls that  *)
(* use the session are the holder of call_lock. SentOnce needs Unsent:     *)
(* a call that has not had its turn was not sent. JoinedIsUnwound needs to *)
(* know, of a caller that still polls, that its future is done only when   *)
(* its task is, and of a call that never began that it has no task.        *)
(***************************************************************************)
Outside == {"idle", "checked", "joining", "returned"}
Waiting == {"polling", "blocked", "expired"}
BeforeSend == {"none", "submitted", "created", "queued", "connecting"}

Types ==
  /\ caller \in [Calls -> Outside \cup Waiting]
  /\ event \in [Calls -> BOOLEAN] /\ late \in [Calls -> BOOLEAN]
  /\ future \in [Calls -> {"none", "pending"} \cup Ends]
  /\ posted \in [Calls -> BOOLEAN] /\ thrown \in [Calls -> BOOLEAN]
  /\ task \in [Calls -> {"none", "submitted", "done"} \cup Alive]
  /\ outcome \in [Calls -> {"none"} \cup Ends]
  /\ sent \in [Calls -> Nat]
  /\ holder \in Calls \cup {NoCall}
  /\ connected \in BOOLEAN
  /\ bridge \in {"open", "leaving", "closed", "draining", "stopped"}
  /\ result \in [Calls -> {"none", "timeout", "refused", "empty"} \cup Ends]

Turns ==
  /\ \A c \in Calls : task[c] \in Using => holder = c
  /\ holder # NoCall => task[holder] \in Using
Unsent == \A c \in Calls : sent[c] <= 1 /\ (task[c] \in BeforeSend => sent[c] = 0)
NotBegun == \A c \in Calls : caller[c] \in {"idle", "checked"} => task[c] = "none"
PolledIsLive == \A c \in Calls : caller[c] \in Waiting /\ Finished(c) => task[c] = "done"
JoinedRests ==
  \A c \in Calls :
    /\ c \in Async /\ caller[c] = "returned" /\ result[c] \in {"cancelled", "timeout"}
    /\ ~late[c] /\ bridge = "open"
    => task[c] \in {"none", "done"}

IInv == Types /\ Turns /\ Unsent /\ NotBegun /\ PolledIsLive /\ JoinedRests

\* The invariant contains the type invariant of the module.
LEMMA TypesImplyTypeOK == Types /\ Turns => TypeOK
<1> SUFFICES ASSUME Types, Turns PROVE TypeOK
  OBVIOUS
<1>1. {event[c] : c \in Calls} \cup {late[c] : c \in Calls} \subseteq BOOLEAN
  BY DEF Types
<1> QED
  BY <1>1 DEF Types, TypeOK, Turns, Outside, Waiting

\* No call is made yet at the start.
LEMMA InitHolds == Init => IInv
  BY NoCallAssumption DEF Init, IInv, Types, Turns, Unsent, NotBegun, PolledIsLive, JoinedRests,
     Finished, Outside, Waiting, BeforeSend, Ends, Alive, Using

\* A task that ends leaves call_lock if it is the holder, and its future is
\* done: whatever it was doing, the invariant holds after it.
LEMMA EndKeeps ==
  ASSUME IInv, NEW c \in Calls, NEW how \in Ends, task[c] \in Alive, End(c, how),
         UNCHANGED <<ofCaller, posted, sent, bridge>>, connected' \in BOOLEAN
  PROVE  IInv'
<1> USE NoCallAssumption DEF IInv, Types, ofCaller, End, Step, Ends, Alive
<1>1. Types'
  OBVIOUS
<1>2. Turns'
  BY DEF Turns, Using
<1>3. Unsent'
  BY DEF Unsent, BeforeSend
<1>4. NotBegun'
  BY DEF NotBegun
<1>5. PolledIsLive'
  BY DEF PolledIsLive, Finished, Waiting
<1>6. JoinedRests'
  BY DEF JoinedRests
<1> QED
  BY <1>1, <1>2, <1>3, <1>4, <1>5, <1>6

\* The steps of the caller change no task and no lock.
LEMMA CallerKeeps ==
  ASSUME IInv, NEW c \in Calls, CallerStep(c) \/ Begin(c) \/ Cancelled(c) \/ SetEvent(c) \/ TimePasses(c)
  PROVE  IInv'
<1> USE DEF IInv, Types, Turns, Unsent, NotBegun, PolledIsLive, JoinedRests, Finished, Ends, Alive,
            Using, Outside, Waiting, BeforeSend, ofTask
<1>1. CASE Begin(c)
  BY <1>1 DEF Begin, Return, Move
<1>2. CASE Submit(c)
  BY <1>2 DEF Submit, Return, Move
<1>3. CASE PollEvent(c)
  BY <1>3 DEF PollEvent, GiveUp, CancelFuture
<1>4. CASE PollFuture(c)
  BY <1>4 DEF PollFuture, Return
<1>5. CASE PollTime(c)
  BY <1>5 DEF PollTime, GiveUp, CancelFuture
<1>6. CASE PollWaits(c)
  BY <1>6 DEF PollWaits, Move
<1>7. CASE SliceEnds(c)
  BY <1>7 DEF SliceEnds, Move, Return
<1>8. CASE SliceChecked(c)
  BY <1>8 DEF SliceChecked, Return, Move
<1>9. CASE JoinEnds(c)
  BY <1>9 DEF JoinEnds, Joined, Move
<1>10. CASE JoinTimesOut(c)
  BY <1>10 DEF JoinTimesOut, Move
<1>11. CASE Cancelled(c)
  BY <1>11 DEF Cancelled, GiveUp, CancelFuture
<1>12. CASE SetEvent(c)
  BY <1>12 DEF SetEvent
<1>13. CASE TimePasses(c)
  BY <1>13 DEF TimePasses
<1> QED
  BY <1>1, <1>2, <1>3, <1>4, <1>5, <1>6, <1>7, <1>8, <1>9, <1>10, <1>11, <1>12, <1>13 DEF CallerStep

\* The steps of a task, and the callback that cancels it, change no caller.
LEMMA TaskKeeps ==
  ASSUME IInv, NEW c \in Calls, LoopStep(c) \/ Connect(c) \/ Answered(c) \/ Fails(c)
  PROVE  IInv'
<1> USE NoCallAssumption
    DEF IInv, Types, Turns, Unsent, NotBegun, PolledIsLive, JoinedRests, Finished, Ends, Alive,
        Using, Outside, Waiting, BeforeSend, ofCaller, Runs, Step
<1>1. CASE StartTask(c)
  BY <1>1 DEF StartTask
<1>2. CASE CancelTask(c)
  BY <1>2 DEF CancelTask
<1>3. CASE Waits(c)
  BY <1>3 DEF Waits
<1>4. CASE Acquire(c)
  BY <1>4 DEF Acquire, Send, Free
<1>5. CASE Connect(c)
  BY <1>5 DEF Connect, Send
<1>6. CASE ConnectFails(c)
  BY <1>6, EndKeeps DEF ConnectFails
<1>7. CASE Answered(c)
  BY <1>7, EndKeeps DEF Answered
<1>8. CASE Closed(c)
  BY <1>8, EndKeeps DEF Closed
<1>9. CASE Unwound(c)
  BY <1>9, EndKeeps DEF Unwound
<1>10. CASE Fails(c)
  <2>1. CASE connected
    BY <1>10, <2>1, EndKeeps DEF Fails
  <2>2. CASE ~connected
    BY <1>10, <2>2 DEF Fails, AfterFailure
  <2> QED
    BY <2>1, <2>2
<1>11. CASE Thrown(c)
  <2>1. CASE End(c, "cancelled")
    BY <1>11, <2>1, EndKeeps DEF Thrown
  <2>2. CASE task[c] = "remote" /\ Step(c, "unwinding") /\ thrown' = [thrown EXCEPT ![c] = FALSE]
                /\ UNCHANGED <<future, outcome, holder>>
    BY <1>11, <2>2 DEF Thrown
  <2> QED
    BY <1>11, <2>1, <2>2 DEF Thrown
<1> QED
  BY <1>1, <1>2, <1>3, <1>4, <1>5, <1>6, <1>7, <1>8, <1>9, <1>10, <1>11 DEF LoopStep

\* Closing the client, the bridge and its loop ends no call by itself.
LEMMA CloseKeeps ==
  ASSUME IInv, SessionDies \/ CloseClient \/ CloseBridge \/ Drain \/ Stop
  PROVE  IInv'
<1> USE DEF IInv, Types, Turns, Unsent, NotBegun, PolledIsLive, JoinedRests, Finished, ofCaller, ofTask
<1>1. CASE SessionDies
  BY <1>1 DEF SessionDies
<1>2. CASE CloseClient
  BY <1>2 DEF CloseClient
<1>3. CASE CloseBridge
  BY <1>3 DEF CloseBridge
<1>4. CASE Drain
  BY <1>4 DEF Drain
<1>5. CASE Stop
  BY <1>5 DEF Stop
<1> QED
  BY <1>1, <1>2, <1>3, <1>4, <1>5

\* Every step keeps the invariant.
LEMMA StepPreserves == IInv /\ [Next]_vars => IInv'
<1> SUFFICES ASSUME IInv, [Next]_vars PROVE IInv'
  OBVIOUS
<1>1. CASE UNCHANGED vars
  BY <1>1 DEF vars, IInv, Types, Turns, Unsent, NotBegun, PolledIsLive, JoinedRests, Finished
<1>2. CASE Next
  BY <1>1, <1>2, CallerKeeps, TaskKeeps, CloseKeeps DEF Next, Over
<1> QED
  BY <1>1, <1>2

\* Every state the calls, the loop and the shutdown reach satisfies it.
THEOREM Invariance == Spec => []IInv
  BY InitHolds, StepPreserves, PTL DEF Spec

\* The variables of the model keep their types: call_lock in particular is
\* never held by a call whose task is over.
THEOREM TypeCorrect == Spec => []TypeOK
<1>1. IInv => TypeOK
  BY TypesImplyTypeOK DEF IInv
<1> QED
  BY <1>1, Invariance, PTL

\* However many calls wait, at most one is at the session.
LEMMA TurnsImplyOneAtATime == Types /\ Turns => OneAtATime
<1> SUFFICES ASSUME Types, Turns PROVE OneAtATime
  OBVIOUS
<1> DEFINE users == {c \in Calls : task[c] \in Using}
<1>1. users \subseteq {holder}
  BY DEF Turns
<1>2. IsFiniteSet({holder}) /\ Cardinality({holder}) = 1
  BY FS_Singleton
<1>3. IsFiniteSet(users) /\ Cardinality(users) <= 1
  BY <1>1, <1>2, FS_Subset
<1> QED
  BY <1>3 DEF OneAtATime

\* The calls of a connection take turns (call_lock of mcp/adapter.py): the
\* session is used by one at a time, also while the task of a caller that is
\* gone unwinds, no call is sent a second time after a failure, and an acall
\* that was cancelled has returned only when its task has ended.
THEOREM OneCallAtATime == Spec => []CallsTakeTurns
<1>1. IInv => OneAtATime
  BY TurnsImplyOneAtATime DEF IInv
<1>2. IInv => SentOnce
  BY DEF IInv, Unsent, SentOnce
<1>3. IInv => JoinedIsUnwound
  BY DEF IInv, Types, Unsent, JoinedRests, JoinedIsUnwound, BeforeSend
<1> QED
  BY <1>1, <1>2, <1>3, Invariance, PTL DEF CallsTakeTurns
==============================================================================

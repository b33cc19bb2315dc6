------------------------------- MODULE McpCall -------------------------------
(***************************************************************************)
(* Calls of the tools of one MCP connection: SyncAsyncBridge of            *)
(* mcp/bridge.py and the tools _bridge_tool of mcp/adapter.py makes.       *)
(*                                                                         *)
(* The threads and loops that call wait for a future each; the coroutine   *)
(* of a call is a task of the bridge's own loop, and the tasks of a        *)
(* connection take turns under its call_lock. What lies between two awaits *)
(* of a task, two steps of the polling wait, or is one callback of the     *)
(* loop is one action. MCP sessions and asyncio are external.              *)
(***************************************************************************)
EXTENDS Naturals, FiniteSets

CONSTANTS Calls, \* calls of the tools of the connection, by any caller
          Async, \* those by acall
          Cancellable, \* those made with a cancel context
          NoCall

ASSUME NoCallAssumption == NoCall \notin Calls

VARIABLES
  caller,    \* where bridge.call or bridge.acall is
  event,     \* the cancel event of the tool is set
  late,      \* the time of the call is over
  future,    \* the concurrent future
  posted,    \* its cancellation is a callback the loop has not run
  task,      \* the coroutine invoke_remote
  thrown,    \* CancelledError will be thrown into it
  outcome,   \* how it ended
  sent,      \* how often it called the server
  holder,    \* who holds call_lock
  connected, \* client.is_connected()
  bridge,    \* the bridge and its loop
  result     \* what the caller got

vars == <<caller, event, late, future, posted, task, thrown, outcome, sent, holder,
          connected, bridge, result>>
ofCaller == <<caller, event, late, result>>
ofTask   == <<task, thrown, outcome, sent>>

Ends == {"answer", "error", "cancelled"}
Alive == {"created", "queued", "connecting", "remote", "unwinding", "closing"}
\* Steps that use the session of the client.
Using == {"connecting", "remote", "unwinding", "closing"}

TypeOK ==
  /\ caller \in [Calls -> {"idle", "checked", "polling", "blocked", "expired", "joining", "returned"}]
  /\ {event[c] : c \in Calls} \cup {late[c] : c \in Calls} \subseteq BOOLEAN
  /\ future \in [Calls -> {"none", "pending"} \cup Ends]
  /\ posted \in [Calls -> BOOLEAN] /\ thrown \in [Calls -> BOOLEAN]
  /\ task \in [Calls -> {"none", "submitted", "done"} \cup Alive]
  /\ outcome \in [Calls -> {"none"} \cup Ends]
  /\ sent \in [Calls -> Nat]
  /\ holder \in Calls \cup {NoCall}
  /\ holder # NoCall => task[holder] \in Using
  /\ connected \in BOOLEAN
  /\ bridge \in {"open", "leaving", "closed", "draining", "stopped"}
  /\ result \in [Calls -> {"none", "timeout", "refused", "empty"} \cup Ends]

Init ==
  /\ caller = [c \in Calls |-> "idle"]
  /\ event = [c \in Calls |-> FALSE] /\ late = [c \in Calls |-> FALSE]
  /\ future = [c \in Calls |-> "none"] /\ posted = [c \in Calls |-> FALSE]
  /\ task = [c \in Calls |-> "none"] /\ thrown = [c \in Calls |-> FALSE]
  /\ outcome = [c \in Calls |-> "none"] /\ sent = [c \in Calls |-> 0]
  /\ holder = NoCall /\ connected = TRUE /\ bridge = "open"
  /\ result = [c \in Calls |-> "none"]

-----------------------------------------------------------------------------
(* The caller. *)

Move(c, to) == caller' = [caller EXCEPT ![c] = to] /\ UNCHANGED <<event, late, result>>
Return(c, r) ==
  /\ caller' = [caller EXCEPT ![c] = "returned"]
  /\ result' = [result EXCEPT ![c] = r]
  /\ UNCHANGED <<event, late>>

\* A tool that was cancelled before does not call.
Begin(c) ==
  /\ caller[c] = "idle"
  /\ IF event[c] THEN Return(c, "cancelled")
     ELSE IF bridge \in {"open", "leaving"} THEN Move(c, "checked") ELSE Return(c, "refused")
  /\ UNCHANGED <<future, posted, ofTask, holder, connected, bridge>>

\* run_coroutine_threadsafe; a loop that is closed refuses it.
Submit(c) ==
  /\ caller[c] = "checked"
  /\ \/ /\ bridge = "stopped" /\ Return(c, "refused") /\ UNCHANGED <<future, task>>
     \/ /\ bridge # "stopped" /\ Move(c, "polling")
        /\ future' = [future EXCEPT ![c] = "pending"]
        /\ task' = [task EXCEPT ![c] = "submitted"]
  /\ UNCHANGED <<posted, thrown, outcome, sent, holder, connected, bridge>>

Finished(c) == future[c] \in Ends

\* future.cancel() takes effect on the future at once, and on the task by a
\* callback of the loop.
\* Mutant: the task is not told.
CancelFutureOnly(c) ==
  /\ future' = [future EXCEPT ![c] = IF Finished(c) THEN @ ELSE "cancelled"]
  /\ UNCHANGED posted
CancelFuture(c) ==
  /\ future' = [future EXCEPT ![c] = IF Finished(c) THEN @ ELSE "cancelled"]
  /\ posted' = [posted EXCEPT ![c] = @ \/ ~Finished(c)]

\* acall waits until its task has unwound; call gives the future up (its
\* result() is raised at once, the future being cancelled).
GiveUp(c, r) ==
  /\ CancelFuture(c)
  /\ IF c \in Async THEN caller' = [caller EXCEPT ![c] = "joining"]
     ELSE caller' = [caller EXCEPT ![c] = "returned"]
  /\ result' = [result EXCEPT ![c] = r]
  /\ UNCHANGED <<event, late, ofTask, holder, connected, bridge>>

\* The event, then in acall the future, then the time.
PollEvent(c) == caller[c] = "polling" /\ event[c] /\ GiveUp(c, "cancelled")

PollFuture(c) ==
  /\ caller[c] = "polling" /\ c \in Async /\ ~event[c] /\ Finished(c)
  /\ Return(c, future[c])
  /\ UNCHANGED <<future, posted, ofTask, holder, connected, bridge>>

\* Waiting for call_lock counts.
Due(c) == late[c]

PollTime(c) ==
  /\ caller[c] = "polling" /\ ~event[c] /\ (c \in Async => ~Finished(c)) /\ Due(c)
  /\ GiveUp(c, "timeout")

PollWaits(c) ==
  /\ caller[c] = "polling" /\ ~event[c] /\ ~Due(c) /\ (c \in Async => ~Finished(c))
  /\ Move(c, "blocked")
  /\ UNCHANGED <<future, posted, ofTask, holder, connected, bridge>>

\* future.result(slice) returns, or its time is over. In acall it is a sleep,
\* in which the caller's own task may be cancelled.
SliceEnds(c) ==
  /\ caller[c] = "blocked"
  /\ IF c \in Async THEN Move(c, "polling")
     ELSE IF Finished(c) THEN Return(c, future[c]) ELSE Move(c, "expired")
  /\ UNCHANGED <<future, posted, ofTask, holder, connected, bridge>>

Cancelled(c) ==
  /\ caller[c] = "blocked" /\ c \in Async
  /\ GiveUp(c, "cancelled")

\* A future that is done by now is taken for one that raised TimeoutError.
SliceChecked(c) ==
  /\ caller[c] = "expired"
  /\ IF Finished(c) THEN Return(c, "empty") ELSE Move(c, "polling")
  /\ UNCHANGED <<future, posted, ofTask, holder, connected, bridge>>

\* join_request is done, the loop does not take it, or two seconds are over.
Joined(c) == task[c] = "done"
JoinEnds(c) ==
  /\ caller[c] = "joining" /\ (bridge \in {"open", "leaving"} => Joined(c))
  /\ Move(c, "returned")
  /\ UNCHANGED <<future, posted, ofTask, holder, connected, bridge>>
JoinTimesOut(c) ==
  /\ caller[c] = "joining" /\ late[c]
  /\ Move(c, "returned")
  /\ UNCHANGED <<future, posted, ofTask, holder, connected, bridge>>

CallerStep(c) ==
  \/ Submit(c) \/ PollEvent(c) \/ PollFuture(c) \/ PollTime(c) \/ PollWaits(c)
  \/ SliceEnds(c) \/ SliceChecked(c) \/ JoinEnds(c) \/ JoinTimesOut(c)

\* The user cancels the tool; the time of the call, and after a cancel that
\* of its join, is over.
SetEvent(c) ==
  /\ c \in Cancellable /\ ~event[c] /\ caller[c] # "returned" /\ event' = [event EXCEPT ![c] = TRUE]
  /\ UNCHANGED <<caller, late, result, future, posted, ofTask, holder, connected, bridge>>
TimePasses(c) ==
  /\ ~late[c] /\ caller[c] \notin {"idle", "checked", "returned"} /\ late' = [late EXCEPT ![c] = TRUE]
  /\ UNCHANGED <<caller, event, result, future, posted, ofTask, holder, connected, bridge>>

-----------------------------------------------------------------------------
(* The loop of the bridge. *)

Runs == bridge # "stopped"
Step(c, to) == task' = [task EXCEPT ![c] = to]

\* The task of a future that was cancelled meanwhile is cancelled before its
\* first step.
StartTask(c) ==
  /\ Runs /\ task[c] = "submitted" /\ Step(c, "created")
  /\ thrown' = [thrown EXCEPT ![c] = future[c] = "cancelled"]
  /\ posted' = [posted EXCEPT ![c] = FALSE]
  /\ UNCHANGED <<ofCaller, future, outcome, sent, holder, connected, bridge>>

CancelTask(c) ==
  /\ Runs /\ posted[c] /\ task[c] # "submitted"
  /\ posted' = [posted EXCEPT ![c] = FALSE]
  /\ thrown' = [thrown EXCEPT ![c] = task[c] \in Alive]
  /\ UNCHANGED <<ofCaller, future, task, outcome, sent, holder, connected, bridge>>

\* The task ends: its future takes the outcome unless it was cancelled, and
\* call_lock is left.
End(c, how) ==
  /\ Step(c, "done")
  /\ outcome' = [outcome EXCEPT ![c] = how]
  /\ thrown' = [thrown EXCEPT ![c] = FALSE]
  /\ future' = [future EXCEPT ![c] = IF @ = "pending" THEN how ELSE @]
  /\ holder' = IF holder = c THEN NoCall ELSE holder

Waits(c) ==
  /\ Runs /\ task[c] = "created" /\ ~thrown[c] /\ holder # NoCall
  /\ Step(c, "queued")
  /\ UNCHANGED <<ofCaller, future, posted, thrown, outcome, sent, holder, connected, bridge>>

\* Mutant: a holder whose caller is gone does not count.
FreeOfAbandoned == holder # NoCall => caller[holder] = "returned"
Free == holder = NoCall

\* The server is called at once when the session stands.
Send(c) == Step(c, "remote") /\ sent' = [sent EXCEPT ![c] = @ + 1]

Acquire(c) ==
  /\ Runs /\ task[c] \in {"created", "queued"} /\ ~thrown[c] /\ Free
  /\ holder' = c
  /\ IF connected THEN Send(c) ELSE Step(c, "connecting") /\ UNCHANGED sent
  /\ UNCHANGED <<ofCaller, future, posted, thrown, outcome, connected, bridge>>

\* close() and __aenter__ of the client, which may fail.
Connect(c) ==
  /\ Runs /\ task[c] = "connecting" /\ ~thrown[c]
  /\ connected' = TRUE /\ Send(c)
  /\ UNCHANGED <<ofCaller, future, posted, thrown, outcome, holder, bridge>>

ConnectFails(c) ==
  /\ Runs /\ task[c] = "connecting" /\ ~thrown[c]
  /\ connected' = FALSE /\ End(c, "error")
  /\ UNCHANGED <<ofCaller, posted, sent, bridge>>

Answered(c) ==
  /\ Runs /\ task[c] = "remote" /\ ~thrown[c]
  /\ End(c, "answer")
  /\ UNCHANGED <<ofCaller, posted, sent, connected, bridge>>

\* The server refuses, or the session is gone: then the client is closed
\* first. The call is not sent again.
AfterFailure(c) == "closing"

Fails(c) ==
  /\ Runs /\ task[c] = "remote" /\ ~thrown[c]
  /\ IF connected THEN End(c, "error")
     ELSE Step(c, AfterFailure(c)) /\ UNCHANGED <<future, thrown, outcome, holder>>
  /\ UNCHANGED <<ofCaller, posted, sent, connected, bridge>>

Closed(c) ==
  /\ Runs /\ task[c] = "closing" /\ ~thrown[c]
  /\ connected' = FALSE /\ End(c, "error")
  /\ UNCHANGED <<ofCaller, posted, sent, bridge>>

\* CancelledError, at the await the task is in; a call on the server may
\* await once more.
Thrown(c) ==
  /\ Runs /\ thrown[c] /\ task[c] \in Alive
  /\ \/ End(c, "cancelled")
     \/ /\ task[c] = "remote" /\ Step(c, "unwinding")
        /\ thrown' = [thrown EXCEPT ![c] = FALSE] /\ UNCHANGED <<future, outcome, holder>>
  /\ UNCHANGED <<ofCaller, posted, sent, connected, bridge>>

Unwound(c) ==
  /\ Runs /\ task[c] = "unwinding"
  /\ End(c, "cancelled")
  /\ UNCHANGED <<ofCaller, posted, sent, connected, bridge>>

\* What the loop does without hearing from the server.
LoopStep(c) ==
  \/ StartTask(c) \/ CancelTask(c) \/ Waits(c) \/ Acquire(c) \/ ConnectFails(c) \/ Closed(c)
  \/ Thrown(c) \/ Unwound(c)

SessionDies ==
  /\ connected /\ connected' = FALSE
  /\ UNCHANGED <<ofCaller, future, posted, ofTask, holder, bridge>>

-----------------------------------------------------------------------------
(* MCPManager.close and SyncAsyncBridge.shutdown. *)

\* The client is closed without call_lock, in bounded time.
CloseClient ==
  /\ bridge = "open" /\ bridge' = "leaving" /\ connected' = FALSE
  /\ UNCHANGED <<ofCaller, future, posted, ofTask, holder>>

CloseBridge ==
  /\ bridge = "leaving" /\ bridge' = "closed"
  /\ UNCHANGED <<ofCaller, future, posted, ofTask, holder, connected>>

\* _drain: every task of the loop is cancelled, that of the session too.
Drain ==
  /\ bridge = "closed" /\ bridge' = "draining" /\ connected' = FALSE
  /\ thrown' = [c \in Calls |-> thrown[c] \/ task[c] \in Alive]
  /\ UNCHANGED <<ofCaller, future, posted, task, outcome, sent, holder>>

\* They ended, or five seconds are over; the loop stops and is closed.
Stop ==
  /\ bridge = "draining" /\ bridge' = "stopped"
  /\ UNCHANGED <<ofCaller, future, posted, ofTask, holder, connected>>

Over == (\A c \in Calls : caller[c] = "returned") /\ UNCHANGED vars

Next ==
  \/ \E c \in Calls :
       \/ Begin(c) \/ CallerStep(c) \/ Cancelled(c) \/ SetEvent(c) \/ TimePasses(c)
       \/ LoopStep(c) \/ Connect(c) \/ Answered(c) \/ Fails(c)
  \/ SessionDies \/ CloseClient \/ CloseBridge \/ Drain \/ Stop \/ Over

\* Callers poll, timers end, and the loop runs what is ready. Nothing is
\* assumed of the server, except that what unwinds or closes comes to an end.
Fairness ==
  \A c \in Calls :
    WF_vars(CallerStep(c)) /\ WF_vars(TimePasses(c)) /\ WF_vars(LoopStep(c))

Spec == Init /\ [][Next]_vars /\ Fairness

-----------------------------------------------------------------------------
\* A failed or abandoned call is never sent again: what it did at the server
\* is unknown (adapter.py, and docs/configuration.md on MCP).
SentOnce == \A c \in Calls : sent[c] <= 1

\* The calls of a connection use its session one at a time, also when the
\* caller of one is gone and its task still unwinds.
OneAtATime == Cardinality({c \in Calls : task[c] \in Using}) <= 1

\* A cancelled acall returns once its task has unwound, unless that takes
\* too long or the bridge is being closed.
JoinedIsUnwound ==
  \A c \in Calls :
    c \in Async /\ caller[c] = "returned" /\ result[c] \in {"cancelled", "timeout"}
      /\ sent[c] > 0 /\ ~late[c] /\ bridge = "open"
      => task[c] = "done"

\* A call ends for its caller whatever the server does, also when it waits
\* behind another one or the bridge is closed under it.
CallEnds == \A c \in Calls : (caller[c] \notin {"idle"}) ~> (caller[c] = "returned")

\* Once the caller of a call is gone, the connection is free for the next.
GateOpens ==
  \A c \in Calls :
    (caller[c] = "returned" /\ holder = c) ~> (holder # c \/ bridge = "stopped")

\* docs/configuration.md says of the calls that wait for their turn that one
\* cancelled meanwhile is not sent.
QueuedCancelNotSent ==
  [][\A c \in Calls : sent'[c] # sent[c] /\ task[c] = "queued" => ~event[c]]_vars

\* The calls of a connection take turns: none overlaps another, is sent twice,
\* or goes on when its caller was told that it ended.
CallsTakeTurns == OneAtATime /\ SentOnce /\ JoinedIsUnwound

\* And each turn ends, for the caller and for the connection.
CallsEnd == CallEnds /\ GateOpens
=============================================================================

----------------------------- MODULE StreamBridge -----------------------------
(***************************************************************************)
(* CancellableStreamBridge (agent/llm_stream.py): one model request runs   *)
(* as an asyncio task on the stream loop; the thread that makes the model  *)
(* call consumes its chunks from a queue, and any thread may cancel it.    *)
(*                                                                         *)
(* One action is one critical section of the bridge's lock, one callback   *)
(* of the loop, one run of the task between two awaits, or one get of the  *)
(* queue.  In RunScopes the whole of it is one stream that is "open" and   *)
(* then "closed".                                                          *)
(***************************************************************************)
EXTENDS Naturals, Sequences, SequencesExt

CONSTANTS
  Cancellers,  \* threads that call cancel()
  MaxBuffered, \* max_buffered
  MaxChunks,   \* bound on the chunks the model sends
  LoopMayStop  \* whether the stream loop may be shut down

BufferAssumption == MaxBuffered \in Nat \ {0} /\ MaxChunks \in Nat
LoopAssumption == LoopMayStop \in BOOLEAN

\* close() is called by the consumer, and may call cancel() itself.
Consumer == "consumer"
Callers  == Cancellers \cup {Consumer}

VARIABLES
  state,           \* _state
  cancelRequested, \* _cancel_requested
  closed,          \* _closed
  queue,           \* kinds of the items in _queue
  loop,            \* the stream loop
  ready,           \* callbacks handed to the loop, in order
  pump,            \* where the task is
  cancelled,       \* task.cancel() was called and has not been thrown yet
  outcome,         \* outcome of _pump
  slots,           \* free slots of _slots
  sent,            \* chunks put into the queue
  received,        \* chunks handed to the model call
  consumer,        \* where iter_chunks is
  result,          \* how iter_chunks ended
  cancelling       \* where each cancel() call is

loopVars   == <<loop, ready>>
taskVars   == <<pump, cancelled, outcome, slots, sent>>
readerVars == <<received, consumer, result>>
flagVars   == <<state, cancelRequested, closed>>
vars == <<flagVars, queue, loopVars, taskVars, readerVars, cancelling>>

Outcomes == {"DONE", "CANCELLED", "ERROR"}
Kinds    == Outcomes \cup {"CHUNK", "WAKE"}
\* Phases in which the response of the request is, or may be, open.
Requesting == {"created", "reading", "acquiring", "closing"}

TypeOK ==
  /\ state \in {"new", "running", "finished"}
  /\ cancelRequested \in BOOLEAN /\ closed \in BOOLEAN
  /\ queue \in Seq(Kinds)
  /\ loop \in {"open", "stopping", "closed"}
  /\ ready \in Seq({"create", "cancel", "release"})
  /\ pump \in {"none", "ended", "done"} \cup Requesting
  /\ cancelled \in BOOLEAN
  /\ outcome \in Outcomes
  /\ slots \in 0..MaxBuffered
  /\ sent \in 0..MaxChunks /\ received \in 0..MaxChunks
  /\ consumer \in {"new", "blocked", "reading", "using", "settling", "closing",
                   "closeCancels", "closeWaiting", "ended"}
  /\ result \in {"none", "completed", "failed", "cancelled", "abandoned"}
  /\ cancelling \in [Callers -> {"idle", "waking", "wakingOnly", "scheduling",
                                "returned"}]

Init ==
  /\ state = "new" /\ cancelRequested = FALSE /\ closed = FALSE
  /\ queue = <<>> /\ loop = "open" /\ ready = <<>>
  /\ pump = "none" /\ cancelled = FALSE /\ outcome = "DONE"
  /\ slots = 0 /\ sent = 0 /\ received = 0
  /\ consumer = "new" /\ result = "none"
  /\ cancelling = [c \in Callers |-> "idle"]

\* _lock is free.  It is not reentrant, and only _start calls a method that
\* takes it (_finish) while holding it.
LockFree == consumer # "blocked"

\* The critical section of cancel().  Only the first call goes on after it, and
\* hands the loop something to do only if the request was running.
CancelSection(c) ==
  /\ LockFree
  /\ cancelling[c] = "idle"
  /\ cancelRequested' = TRUE
  /\ cancelling' = [cancelling EXCEPT ![c] =
       IF cancelRequested THEN "returned"
       ELSE IF state = "running" THEN "waking" ELSE "wakingOnly"]

-----------------------------------------------------------------------------
(* The consumer: iter_chunks and close. *)

\* _start, in one critical section.
StartCancelled ==
  /\ consumer = "new" /\ cancelRequested
  /\ state' = "finished" /\ closed' = TRUE
  /\ queue' = Append(queue, "CANCELLED")
  /\ consumer' = "reading"
  /\ UNCHANGED <<cancelRequested, loopVars, taskVars, received, result, cancelling>>

StartRunning ==
  /\ consumer = "new" /\ ~cancelRequested
  /\ loop # "closed"
  /\ state' = "running"
  /\ ready' = Append(ready, "create")
  /\ consumer' = "reading"
  /\ UNCHANGED <<cancelRequested, closed, queue, loop, taskVars, received, result,
                 cancelling>>

\* The loop closed after _LOOP.get(): _finish waits for the lock _start holds.
StartBlocked ==
  /\ consumer = "new" /\ ~cancelRequested
  /\ loop = "closed"
  /\ state' = "running"
  /\ consumer' = "blocked"
  /\ UNCHANGED <<cancelRequested, closed, queue, loopVars, taskVars, received,
                 result, cancelling>>

Start == StartCancelled \/ StartRunning \/ StartBlocked

Settle(r) == consumer' = "settling" /\ result' = r /\ UNCHANGED received

\* How iter_chunks ends at an item, when it is not a chunk to hand out.
ResultOf(kind) ==
  IF kind = "DONE" THEN "completed"
  ELSE IF kind = "ERROR" /\ ~cancelRequested THEN "failed"
  ELSE "cancelled"

\* Mutant: the slot is given back as well when the buffer was not used.
ReleaseSlotTwice == ready' = ready \o <<"release", "release">>

\* _release_slot; a closed loop refuses the call.
ReleaseSlot == ready' = IF loop = "closed" THEN ready ELSE Append(ready, "release")

GetChunk ==
  /\ consumer = "reading" /\ queue # <<>>
  /\ Head(queue) = "CHUNK" /\ ~cancelRequested
  /\ queue' = Tail(queue)
  /\ ReleaseSlot
  /\ received' = received + 1
  /\ consumer' = "using"
  /\ UNCHANGED <<flagVars, loop, taskVars, result, cancelling>>

GetLast ==
  /\ consumer = "reading" /\ queue # <<>>
  /\ Head(queue) # "CHUNK" \/ cancelRequested
  /\ queue' = Tail(queue)
  /\ Settle(ResultOf(Head(queue)))
  /\ UNCHANGED <<flagVars, loopVars, taskVars, cancelling>>

\* The model call asks for the next chunk.
Resume ==
  /\ consumer = "using"
  /\ consumer' = "reading"
  /\ UNCHANGED <<flagVars, queue, loopVars, taskVars, received, result, cancelling>>

\* The model call gives the iterator up.
Abandon ==
  /\ consumer = "using"
  /\ consumer' = "closing" /\ result' = "abandoned"
  /\ UNCHANGED <<flagVars, queue, loopVars, taskVars, received, cancelling>>

\* _closed.wait: returns once the request is closed, or when the time is up.
WaitClosed(from, to) ==
  /\ consumer = from
  /\ consumer' = to
  /\ UNCHANGED <<flagVars, queue, loopVars, taskVars, received, result, cancelling>>

Settled == closed /\ WaitClosed("settling", "closing")
SettleTimesOut == ~closed /\ WaitClosed("settling", "closing")

\* close(), from the finally of iter_chunks.
Unfinished == state = "running" /\ ~closed

CloseFinished ==
  /\ LockFree /\ ~Unfinished
  /\ WaitClosed("closing", "closeWaiting")

CloseUnfinished ==
  /\ LockFree /\ Unfinished
  /\ WaitClosed("closing", "closeCancels")

CloseCancels ==
  /\ consumer = "closeCancels" /\ consumer' = "closeWaiting"
  /\ CancelSection(Consumer)
  /\ UNCHANGED <<state, closed, queue, loopVars, taskVars, received, result>>

CloseReturned == cancelling[Consumer] \in {"idle", "returned"}
Closed == CloseReturned /\ closed /\ WaitClosed("closeWaiting", "ended")
CloseTimesOut == CloseReturned /\ ~closed /\ WaitClosed("closeWaiting", "ended")

ConsumerStep ==
  \/ Start \/ GetChunk \/ GetLast \/ Settled \/ CloseFinished \/ CloseUnfinished
  \/ CloseCancels \/ Closed

TimeOut == SettleTimesOut \/ CloseTimesOut

-----------------------------------------------------------------------------
(* cancel(), from other threads. *)

Cancel(c) ==
  /\ CancelSection(c)
  /\ UNCHANGED <<state, closed, queue, loopVars, taskVars, readerVars>>

Wake == queue' = Append(queue, "WAKE")

\* _queue.put((_WAKE, None))
WakeConsumer(c) ==
  /\ cancelling[c] \in {"waking", "wakingOnly"}
  /\ Wake
  /\ cancelling' = [cancelling EXCEPT ![c] =
       IF cancelling[c] = "waking" THEN "scheduling" ELSE "returned"]
  /\ UNCHANGED <<flagVars, loopVars, taskVars, readerVars>>

\* call_soon_threadsafe(self._cancel_task); a closed loop refuses the call.
ScheduleCancel(c) ==
  /\ cancelling[c] = "scheduling"
  /\ ready' = IF loop = "closed" THEN ready ELSE Append(ready, "cancel")
  /\ cancelling' = [cancelling EXCEPT ![c] = "returned"]
  /\ UNCHANGED <<flagVars, queue, loop, taskVars, readerVars>>

CancelStep(c) == WakeConsumer(c) \/ ScheduleCancel(c)

-----------------------------------------------------------------------------
(* The stream loop: its callbacks, the task, and its shutdown. *)

Finish == state' = "finished" /\ closed' = TRUE

RunCallback(name) ==
  /\ loop # "closed" /\ ready # <<>> /\ Head(ready) = name
  /\ ready' = Tail(ready)

\* _create_task
CreateTask ==
  /\ RunCallback("create")
  /\ ~cancelRequested
  /\ pump' = "created" /\ slots' = MaxBuffered
  /\ UNCHANGED <<flagVars, queue, loop, cancelled, outcome, sent, readerVars,
                 cancelling>>

CreateCancelled ==
  /\ RunCallback("create")
  /\ cancelRequested /\ LockFree
  /\ queue' = Append(queue, "CANCELLED")
  /\ Finish
  /\ UNCHANGED <<cancelRequested, loop, taskVars, readerVars, cancelling>>

\* Mutant: a task that has not made its first step is not cancelled.
TaskAliveStarted == pump \in Requesting \ {"created"}

TaskAlive == pump \in Requesting

\* Mutant: the request counts as closed once its task is told to stop.
CancelTaskFinishing ==
  /\ RunCallback("cancel")
  /\ cancelled' = (cancelled \/ TaskAlive)
  /\ Finish
  /\ UNCHANGED <<cancelRequested, queue, loop, pump, outcome, slots, sent, readerVars,
                 cancelling>>

\* _cancel_task
CancelTask ==
  /\ RunCallback("cancel")
  /\ cancelled' = (cancelled \/ TaskAlive)
  /\ UNCHANGED <<flagVars, queue, loop, pump, outcome, slots, sent, readerVars,
                 cancelling>>

ReleaseCallback ==
  /\ RunCallback("release")
  /\ slots' = slots + 1
  /\ UNCHANGED <<flagVars, queue, loop, pump, cancelled, outcome, sent, readerVars,
                 cancelling>>

MovePump(from, to) == loop # "closed" /\ pump = from /\ pump' = to

\* A task cancelled before its first step never enters _pump.
PumpNeverStarts ==
  /\ cancelled
  /\ MovePump("created", "ended")
  /\ cancelled' = FALSE
  /\ UNCHANGED <<flagVars, queue, loopVars, outcome, slots, sent, readerVars,
                 cancelling>>

PumpStarts ==
  /\ ~cancelled
  /\ MovePump("created", "reading")
  /\ UNCHANGED <<flagVars, queue, loopVars, cancelled, outcome, slots, sent,
                 readerVars, cancelling>>

\* CancelledError is thrown at the await the task is suspended in; inside
\* aclose() it is swallowed.
PumpCancelled ==
  /\ cancelled
  /\ MovePump("reading", "closing") \/ MovePump("acquiring", "closing")
  /\ outcome' = "CANCELLED"
  /\ cancelled' = FALSE
  /\ UNCHANGED <<flagVars, queue, loopVars, slots, sent, readerVars, cancelling>>

PumpReceives ==
  /\ ~cancelled
  /\ sent < MaxChunks
  /\ MovePump("reading", "acquiring")
  /\ UNCHANGED <<flagVars, queue, loopVars, cancelled, outcome, slots, sent,
                 readerVars, cancelling>>

\* The response ends, or fails.
PumpStops ==
  /\ ~cancelled
  /\ MovePump("reading", "closing")
  /\ outcome' \in {"DONE", "ERROR"}
  /\ UNCHANGED <<flagVars, queue, loopVars, cancelled, slots, sent, readerVars,
                 cancelling>>

SlotFree == slots > 0

PumpPuts ==
  /\ ~cancelled
  /\ SlotFree
  /\ MovePump("acquiring", "reading")
  /\ slots' = IF slots > 0 THEN slots - 1 ELSE 0
  /\ queue' = Append(queue, "CHUNK")
  /\ sent' = sent + 1
  /\ UNCHANGED <<flagVars, loopVars, cancelled, outcome, readerVars, cancelling>>

\* aclose() returned or raised.
PumpEnds ==
  /\ MovePump("closing", "ended")
  /\ cancelled' = FALSE
  /\ queue' = Append(queue, outcome)
  /\ UNCHANGED <<flagVars, loopVars, outcome, slots, sent, readerVars, cancelling>>

\* The done callback of the task calls _finish.
TaskDone ==
  /\ LockFree
  /\ MovePump("ended", "done")
  /\ Finish
  /\ UNCHANGED <<cancelRequested, queue, loopVars, cancelled, outcome, slots, sent,
                 readerVars, cancelling>>

\* _StreamLoop.shutdown, and the finally of _run.
StopLoop ==
  /\ LoopMayStop /\ loop = "open"
  /\ loop' = "stopping"
  /\ cancelled' = (cancelled \/ TaskAlive)
  /\ UNCHANGED <<flagVars, queue, ready, pump, outcome, slots, sent, readerVars,
                 cancelling>>

\* run() waits for the tasks it cancelled; callbacks that are left and a task
\* they created meanwhile are dropped.
LoopCloses ==
  /\ loop = "stopping"
  /\ pump \in {"none", "done"} \/ (pump \in Requesting \ {"closing"} /\ ~cancelled)
  /\ loop' = "closed" /\ ready' = <<>>
  /\ UNCHANGED <<flagVars, queue, taskVars, readerVars, cancelling>>

\* What the loop does by itself; whether the model sends, ends or fails is its
\* own affair.
LoopStep ==
  \/ CreateTask \/ CreateCancelled \/ CancelTask \/ ReleaseCallback
  \/ PumpNeverStarts \/ PumpStarts \/ PumpCancelled \/ PumpPuts \/ PumpEnds
  \/ TaskDone \/ LoopCloses

-----------------------------------------------------------------------------
\* Nothing is left to do, or the consumer waits for its own lock.
Over ==
  /\ consumer \in {"ended", "blocked"}
  /\ \A c \in Callers : cancelling[c] \in {"idle", "returned"}
  /\ UNCHANGED vars

Next ==
  \/ ConsumerStep \/ Resume \/ Abandon \/ TimeOut
  \/ \E c \in Cancellers : Cancel(c)
  \/ \E c \in Callers : CancelStep(c)
  \/ LoopStep \/ PumpReceives \/ PumpStops \/ StopLoop
  \/ Over

\* The threads and the loop go on, the model call asks for the next chunk or
\* gives the iterator up, a response that is being closed closes, and waits are
\* bounded.  Nothing says that the model sends, or that somebody cancels.
Fairness ==
  /\ WF_vars(ConsumerStep) /\ WF_vars(Resume \/ Abandon) /\ WF_vars(TimeOut) /\ WF_vars(LoopStep)
  /\ \A c \in Callers : WF_vars(CancelStep(c))

Spec == Init /\ [][Next]_vars
FairSpec == Spec /\ Fairness

-----------------------------------------------------------------------------
(* Properties. *)

\* max_buffered bounds the chunks that wait for the consumer, whatever the
\* order of _release_slot, its callback and the task's puts.
Number(q, kind) == Cardinality({i \in DOMAIN q : q[i] = kind})
Waiting(kind) == Number(queue, kind)
BufferBounded == Waiting("CHUNK") <= MaxBuffered

\* Until a cancel, which throws chunks away, slots are neither lost nor
\* duplicated: each is free, holds a chunk that waits, or is being given back.
SlotsConserved ==
  ~cancelRequested /\ loop = "open" /\ pump \in Requesting \ {"created"} =>
    slots + Waiting("CHUNK") + Number(ready, "release") = MaxBuffered

\* closed is said only when the request has no response open and no task can
\* open one any more: RunController.close drops the session lease on it.
ClosedMeansReleased ==
  closed => pump \notin Requesting /\ "create" \notin ToSet(ready)

\* A consumer that ended normally was given every chunk the model sent.
CompletedMeansAllReceived == result = "completed" => received = sent

\* A cancelled consumer stops although the model sends nothing, and also when
\* the loop is shut down under it; the one that waits for its own lock is the
\* business of LockReleased.
CancelledConsumerEnds ==
  (cancelRequested /\ consumer # "new") ~> (consumer \in {"ended", "blocked"})

\* A started request that is cancelled while the loop runs releases its
\* response.
CancelledRequestCloses ==
  (cancelRequested /\ state = "running") ~> (closed \/ loop # "open")

\* runner.py says of request_cancel, which calls cancel() on every stream of
\* the run, that it returns without waiting for the operation: the lock that
\* cancel() takes is always released again.
LockReleased == []<>LockFree

\* What the model sent reaches the consumer: within the bound, each chunk with
\* its slot, and all of it before the stream is said to be complete.
ChunksArrive == BufferBounded /\ SlotsConserved /\ CompletedMeansAllReceived

\* A cancelled request ends on both sides although the model sends nothing.
CancelledRequestEnds == CancelledConsumerEnds /\ CancelledRequestCloses
=============================================================================

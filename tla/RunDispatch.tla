----------------------------- MODULE RunDispatch -----------------------------
(***************************************************************************)
(* Input, runs and cancels across the terminal UI and the runner: the UI   *)
(* thread of agent/cli/app.py dispatches operations to worker threads,     *)
(* each guarded by the runner's operation lock (agent/runner.py); a run    *)
(* reports through events that reach the UI later, and its result later    *)
(* still.  The scopes of RunController are those of RunScopes and its      *)
(* queues those of InputQueue.                                             *)
(*                                                                         *)
(* The handlers of the UI thread do not overlap: uiWork holds the result   *)
(* whose handler is not finished, scopeJob the rest of a cancel().         *)
(***************************************************************************)
EXTENDS Naturals, Sequences, FiniteSets

CONSTANTS
  Messages, \* texts the user may submit
  MaxOps,   \* bound on the operations dispatched
  Cleanups, \* bound on the attachment clean-ups among them
  MaxOrder, \* bound on the messages queued
  MaxGen    \* bound on the generations handed out

VARIABLES
  nextGen, active, reserved, last, cancelEvents, controls, drains,
  beginDrain, scopeJob, streamPhase, streamScope, unclosed, streamCancelled,
  toolPhase, toolEvent, activeTools, ctxCancelled, callbacks, calls, killed,
  children, childGen, childCancelled, pauseRequested, \* RunScopes
  steering, followUps, queueOrder, deferSteering, \* InputQueue
  unsent,       \* messages still in the editor
  interrupted,  \* the checkpoint of the thread holds an interrupt
  ops,          \* the operations dispatched, in order
  lockHolder,   \* operation that holds _operation_lock, or 0
  running,      \* state.running
  interaction,  \* an approval is shown (app.interaction)
  runEpoch,     \* _run_epoch
  cancelSent,   \* _cancel_sent
  events,       \* events on their way to the UI loop
  uiWork,       \* operation whose work() is handling its result, or 0
  startQueued,  \* the handler in progress still has to look at the queue
  escs          \* epochs in which the user cancelled

NoGen == 0

\* The streams, tools and children of a run are the business of RunScopes:
\* here a run only begins, is asked to drain, and ends.
Scopes == INSTANCE RunScopes WITH
  Cancellers <- {"ui"}, Streams <- {}, Tools <- {}, Children <- {}, job <- scopeJob

Queue == INSTANCE InputQueue

emptyVars == <<streamPhase, streamScope, unclosed, streamCancelled, toolPhase,
               toolEvent, activeTools, ctxCancelled, callbacks, calls, killed,
               children, childGen, childCancelled, pauseRequested>>
scopeVars == <<nextGen, active, reserved, last, cancelEvents, controls, drains,
               beginDrain, scopeJob, emptyVars>>
queueVars == <<steering, followUps, queueOrder, deferSteering>>
uiVars    == <<running, interaction, runEpoch, cancelSent, uiWork, startQueued>>
workVars  == <<ops, lockHolder, events, interrupted>>
userVars  == <<unsent, escs>>
vars == <<scopeVars, queueVars, uiVars, workVars, userVars>>

Kinds    == {"run", "resume", "cleanup"}
Phases   == {"waiting", "acquired", "entered", "resuming", "graph", "lastStep", "polling", "pollSteering",
             "pollFollowUp", "continuing", "completing", "ending", "releasing",
             "unlocking", "returned", "handled", "done"}
Outcomes == {"none", "completed", "cancelled", "failed", "interrupted", "raised",
             "rejected"}
EventTypes == {"run_started", "run_completed", "run_cancelled", "run_failed",
               "interaction_requested"}
Op == [kind : Kinds, epoch : Nat, phase : Phases,
       reservation : Nat, entry : Nat, outcome : Outcomes,
       overlaps : BOOLEAN]

TypeOK ==
  /\ Scopes!TypeOK
  /\ Queue!TypeOK
  /\ unsent \subseteq Messages
  /\ escs \subseteq 1..MaxOps
  /\ interrupted \in BOOLEAN
  /\ ops \in Seq(Op) /\ Len(ops) <= MaxOps
  /\ lockHolder \in 0..Len(ops)
  /\ running \in BOOLEAN /\ interaction \in BOOLEAN /\ cancelSent \in BOOLEAN
  /\ runEpoch \in 0..MaxOps
  /\ events \in Seq([op : 1..Len(ops), type : EventTypes])
  /\ uiWork \in 0..Len(ops)
  /\ startQueued \in BOOLEAN

Init ==
  /\ Scopes!Init
  /\ Queue!Init
  /\ unsent = Messages /\ escs = {}
  /\ interrupted = FALSE
  /\ ops = <<>> /\ lockHolder = 0 /\ events = <<>>
  /\ running = FALSE /\ interaction = FALSE /\ cancelSent = FALSE
  /\ runEpoch = 0 /\ uiWork = 0 /\ startQueued = FALSE

-----------------------------------------------------------------------------
(* The worker: _exclusive_operation around invoke, a resume call, or        *)
(* cleanup_attachments.                                                     *)

CancelRequested == Scopes!CancelRequested

Move(i, from, to) ==
  /\ ops[i].phase = from
  /\ ops' = [ops EXCEPT ![i].phase = to]

MoveWith(i, from, to, outcome) ==
  /\ ops[i].phase = from
  /\ ops' = [ops EXCEPT ![i].phase = to, ![i].outcome = outcome]

Emit(i, type) == events' = Append(events, [op |-> i, type |-> type])

\* A busy lock refuses the operation at once.
Acquire(i) ==
  /\ IF lockHolder = 0
     THEN Move(i, "waiting", "acquired") /\ lockHolder' = i
     ELSE MoveWith(i, "waiting", "returned", "rejected") /\ UNCHANGED lockHolder
  /\ UNCHANGED <<scopeVars, queueVars, uiVars, userVars, events, interrupted>>

\* reservation = self.control.reserved_generation
ReadReservation(i) ==
  /\ ops[i].phase = "acquired"
  /\ ops' = [ops EXCEPT ![i].phase = "entered", ![i].entry = reserved]
  /\ UNCHANGED <<scopeVars, queueVars, uiVars, userVars, lockHolder, events,
                 interrupted>>

CleanUp(i) ==
  /\ ops[i].kind = "cleanup"
  /\ MoveWith(i, "entered", "releasing", "completed")
  /\ UNCHANGED <<scopeVars, queueVars, uiVars, userVars, lockHolder, events,
                 interrupted>>

\* A check of the operation fails before it changes anything; resuming without
\* an interrupt always does (_require_interrupt).
Raise(i) ==
  /\ ops[i].kind # "cleanup"
  /\ MoveWith(i, "entered", "releasing", "raised")
  /\ UNCHANGED <<scopeVars, queueVars, uiVars, userVars, lockHolder, events,
                 interrupted>>

\* Mutant: steering stays deferred.
ResumeDeferring(i) ==
  /\ ops[i].kind = "resume" /\ interrupted
  /\ Move(i, "entered", "resuming")
  /\ UNCHANGED <<scopeVars, queueVars, uiVars, userVars, lockHolder, events,
                 interrupted>>

\* _resume
Resume(i) ==
  /\ ops[i].kind = "resume" /\ interrupted
  /\ Move(i, "entered", "resuming")
  /\ Queue!SetDeferSteering(FALSE)
  /\ UNCHANGED <<scopeVars, uiVars, userVars, lockHolder, events, interrupted>>

\* The head of _stream.
BeginRun(i) ==
  /\ Move(i, IF ops[i].kind = "resume" THEN "resuming" ELSE "entered", "graph")
  /\ ops[i].kind # "cleanup"
  /\ Scopes!BeginRun
  /\ Emit(i, "run_started")
  /\ UNCHANGED <<queueVars, uiVars, userVars, lockHolder, interrupted>>

DrainBegun ==
  /\ Scopes!DrainBegun
  /\ UNCHANGED <<queueVars, uiVars, userVars, workVars>>

InGraph(i) == ops[i].phase \in {"graph", "lastStep"} /\ beginDrain = NoGen

\* The first checkpoint of the run supersedes an earlier interrupt.
Checkpointed(i) ==
  /\ InGraph(i)
  /\ interrupted' = FALSE
  /\ UNCHANGED <<scopeVars, queueVars, uiVars, userVars, ops, lockHolder, events>>

\* SteeringMiddleware takes a message between two model calls.
Steered(i) ==
  /\ InGraph(i) /\ ops[i].phase = "graph"
  /\ Queue!PopSteering(CancelRequested)
  /\ UNCHANGED <<scopeVars, uiVars, userVars, workVars>>

\* A graph that was asked to drain starts no further step, but the step it is
\* in may still commit the final answer or an interrupt.
LastStep(i) ==
  /\ beginDrain = NoGen /\ active \notin drains
  /\ Move(i, "graph", "lastStep")
  /\ UNCHANGED <<scopeVars, queueVars, uiVars, userVars, lockHolder, events,
                 interrupted>>

\* _stream_once returns.  An exception counts as the user's cancel when one was
\* requested.
GraphCompletes(i) ==
  /\ Move(i, "lastStep", "polling")
  /\ interrupted' = FALSE
  /\ UNCHANGED <<scopeVars, queueVars, uiVars, userVars, lockHolder, events>>

GraphCancelled(i) ==
  /\ InGraph(i)
  /\ active \in drains \/ CancelRequested
  /\ MoveWith(i, ops[i].phase, "ending", "cancelled")
  /\ Emit(i, "run_cancelled")
  /\ UNCHANGED <<scopeVars, queueVars, uiVars, userVars, lockHolder, interrupted>>

GraphFails(i) ==
  /\ InGraph(i)
  /\ ~CancelRequested
  /\ MoveWith(i, ops[i].phase, "ending", "failed")
  /\ Emit(i, "run_failed")
  /\ UNCHANGED <<scopeVars, queueVars, uiVars, userVars, lockHolder, interrupted>>

GraphInterrupts(i) ==
  /\ MoveWith(i, "lastStep", "ending", "interrupted")
  /\ Emit(i, "interaction_requested")
  /\ interrupted' = TRUE
  /\ Queue!SetDeferSteering(TRUE)
  /\ UNCHANGED <<scopeVars, uiVars, userVars, lockHolder>>

\* The loop of _stream that consumes queued input at the run boundary.
PollCancel(i) ==
  /\ Move(i, "polling", IF CancelRequested THEN "completing" ELSE "pollSteering")
  /\ UNCHANGED <<scopeVars, queueVars, uiVars, userVars, lockHolder, events,
                 interrupted>>

PollSteering(i) ==
  /\ IF Queue!SteeringReady(CancelRequested)
     THEN Move(i, "pollSteering", "continuing") /\ Queue!PopSteering(CancelRequested)
     ELSE Move(i, "pollSteering", "pollFollowUp") /\ UNCHANGED queueVars
  /\ UNCHANGED <<scopeVars, uiVars, userVars, lockHolder, events, interrupted>>

PollFollowUp(i) ==
  /\ IF followUps # <<>>
     THEN Move(i, "pollFollowUp", "continuing") /\ Queue!PopFollowUp
     ELSE Move(i, "pollFollowUp", "completing") /\ UNCHANGED queueVars
  /\ UNCHANGED <<scopeVars, uiVars, userVars, lockHolder, events, interrupted>>

\* begin_run without end_run, for the message just taken.
ContinueRun(i) ==
  /\ Move(i, "continuing", "graph")
  /\ Scopes!BeginRun
  /\ UNCHANGED <<queueVars, uiVars, userVars, lockHolder, events, interrupted>>

Complete(i) ==
  /\ MoveWith(i, "completing", "ending", "completed")
  /\ Emit(i, "run_completed")
  /\ UNCHANGED <<scopeVars, queueVars, uiVars, userVars, lockHolder, interrupted>>

EndRun(i) ==
  /\ Move(i, "ending", "releasing")
  /\ Scopes!EndRun
  /\ UNCHANGED <<queueVars, uiVars, userVars, lockHolder, events, interrupted>>

\* The finally of _exclusive_operation.
Release(i) ==
  /\ Move(i, "releasing", "unlocking")
  /\ IF ops[i].entry # NoGen THEN Scopes!ReleaseReservation(ops[i].entry)
     ELSE UNCHANGED scopeVars
  /\ UNCHANGED <<queueVars, uiVars, userVars, lockHolder, events, interrupted>>

Unlock(i) ==
  /\ Move(i, "unlocking", "returned")
  /\ lockHolder' = 0
  /\ UNCHANGED <<scopeVars, queueVars, uiVars, userVars, events, interrupted>>

GraphReturns(i) ==
  GraphCompletes(i) \/ GraphCancelled(i) \/ GraphFails(i) \/ GraphInterrupts(i)

\* Steps of the thread that depend on nobody else.
WorkerStep(i) ==
  \/ Acquire(i) \/ ReadReservation(i) \/ CleanUp(i) \/ Raise(i)
  \/ Resume(i) \/ BeginRun(i)
  \/ PollCancel(i) \/ PollSteering(i) \/ PollFollowUp(i) \/ ContinueRun(i)
  \/ Complete(i) \/ EndRun(i) \/ Release(i) \/ Unlock(i)

-----------------------------------------------------------------------------
(* The UI thread. *)

CancelInProgress == scopeJob["ui"] # Scopes!NoJob
UIFree == uiWork = 0 /\ ~startQueued /\ ~CancelInProgress

IsRun(i) == ops[i].kind # "cleanup"

\* _run_task is the last run dispatched.
RunTaskDone ==
  \A i \in DOMAIN ops :
    (IsRun(i) /\ \A j \in DOMAIN ops : IsRun(j) => j <= i) => ops[i].phase = "done"

QueuedCount == Len(steering) + Len(followUps)

\* Room for an operation beyond those the messages may still need.
RoomForMore == Len(ops) + Cardinality(unsent) + QueuedCount < MaxOps

\* Operations that have, or may still ask for, the operation lock.
InFlight == {i \in DOMAIN ops : ops[i].phase \notin {"returned", "handled", "done"}}

NewOp(kind, epoch, reservation) ==
  [kind |-> kind, epoch |-> epoch, phase |-> "waiting",
   reservation |-> reservation, entry |-> NoGen, outcome |-> "none",
   overlaps |-> InFlight # {}]

\* _start_run
StartRun(kind) ==
  /\ running' = TRUE
  /\ runEpoch' = runEpoch + 1
  /\ cancelSent' = FALSE
  /\ Scopes!ReserveRun
  /\ ops' = Append(ops, NewOp(kind, runEpoch + 1, reserved'))

\* _start_queued_run
MayStartQueued == ~interaction /\ ~interrupted

StartQueuedSteering ==
  /\ MayStartQueued
  /\ Queue!PopSteering(CancelRequested)
  /\ StartRun("run")

StartQueuedFollowUp ==
  /\ MayStartQueued
  /\ ~Queue!SteeringReady(CancelRequested)
  /\ Queue!PopFollowUp
  /\ StartRun("run")

NothingToStart ==
  /\ MayStartQueued => ~Queue!SteeringReady(CancelRequested) /\ followUps = <<>>
  /\ UNCHANGED <<queueVars, scopeVars, running, runEpoch, cancelSent, ops>>

StartQueuedRun == StartQueuedSteering \/ StartQueuedFollowUp \/ NothingToStart

\* _submit_buffer: queued behind a run, a queue or an interrupt, else run.
SubmitQueues == running \/ QueuedCount > 0 \/ interrupted

Submit(m, mode) ==
  /\ UIFree /\ ~interaction
  /\ m \in unsent
  /\ unsent' = unsent \ {m}
  /\ IF SubmitQueues
     THEN /\ IF mode = "steer" THEN Queue!Steer(m) ELSE Queue!FollowUp(m)
          /\ startQueued' = (~running /\ RunTaskDone)
          /\ UNCHANGED <<scopeVars, running, runEpoch, cancelSent, ops>>
     ELSE /\ StartRun("run")
          /\ UNCHANGED <<queueVars, startQueued>>
  /\ UNCHANGED <<interaction, uiWork, escs, lockHolder, events, interrupted>>

\* The end of _submit_buffer when the message was queued while idle.
SubmitStarts ==
  /\ startQueued
  /\ startQueued' = FALSE
  /\ StartQueuedRun
  /\ UNCHANGED <<interaction, uiWork, userVars, lockHolder, events, interrupted>>

\* _restore_queued_to_editor
QueuedMessages == {(steering \o followUps)[n].msg : n \in 1..QueuedCount}
RestoreQueuedToEditor ==
  /\ Queue!TakeUnapplied
  /\ unsent' = unsent \cup QueuedMessages

\* InputAction.CANCEL_RUN: reclaim the queues, then cancel.
Esc ==
  /\ UIFree /\ ~interaction
  /\ running /\ ~cancelSent
  /\ RestoreQueuedToEditor
  /\ cancelSent' = TRUE
  /\ Scopes!Cancel("ui")
  /\ escs' = escs \cup {runEpoch}
  /\ UNCHANGED <<running, interaction, runEpoch, uiWork, startQueued, workVars>>

CancelRest ==
  /\ Scopes!CancelStep("ui")
  /\ UNCHANGED <<queueVars, uiVars, userVars, workVars>>

Dequeue ==
  /\ UIFree
  /\ QueuedCount > 0
  /\ RestoreQueuedToEditor
  /\ UNCHANGED <<scopeVars, uiVars, escs, workVars>>

\* _apply_run_event drops the events of a run that is not the last dispatched.
EventApplies(e) == ops[e.op].epoch = runEpoch

ApplyEvent ==
  /\ UIFree
  /\ events # <<>>
  /\ events' = Tail(events)
  /\ running' = IF EventApplies(Head(events)) THEN Head(events).type = "run_started"
                ELSE running
  /\ UNCHANGED <<interaction, runEpoch, cancelSent, uiWork, startQueued, userVars,
                 scopeVars, queueVars, ops, lockHolder, interrupted>>

\* work() resumes after the events the operation emitted were delivered.
ResultArrived(i) ==
  /\ UIFree
  /\ ops[i].phase = "returned"
  /\ \A n \in DOMAIN events : events[n].op # i

\* _run_blocking raised: run_failed is applied whatever the epoch.
HandleRefusal(i) ==
  /\ ResultArrived(i)
  /\ IsRun(i) /\ ops[i].outcome \in {"rejected", "raised"}
  /\ running' = FALSE
  /\ uiWork' = i
  /\ ops' = [ops EXCEPT ![i].phase = "handled"]
  /\ UNCHANGED <<interaction, runEpoch, cancelSent, startQueued, userVars,
                 scopeVars, queueVars, lockHolder, events, interrupted>>

\* _handle_result for a run that did not complete.  A draft in the editor
\* keeps an approval from opening.
HandleStop(i) ==
  /\ ResultArrived(i)
  /\ ops[i].outcome \in {"cancelled", "failed", "interrupted"}
  /\ CASE ops[i].outcome = "cancelled" -> running' = FALSE /\ UNCHANGED interaction
       [] ops[i].outcome = "failed" -> UNCHANGED <<running, interaction>>
       [] OTHER -> \/ running' = FALSE /\ UNCHANGED interaction
                   \/ interaction' = (interaction \/ interrupted) /\ UNCHANGED running
  /\ uiWork' = i
  /\ ops' = [ops EXCEPT ![i].phase = "handled"]
  /\ UNCHANGED <<runEpoch, cancelSent, startQueued, userVars, scopeVars, queueVars,
                 lockHolder, events, interrupted>>

\* _handle_result for a completed run starts what was queued meanwhile; the
\* result is marked handled before, so that its operation is left alone.
HandleCompletion(i) ==
  /\ ResultArrived(i)
  /\ IsRun(i) /\ ops[i].outcome = "completed"
  /\ uiWork' = i
  /\ startQueued' = TRUE
  /\ ops' = [ops EXCEPT ![i].phase = "handled"]
  /\ UNCHANGED <<running, interaction, runEpoch, cancelSent, userVars, scopeVars,
                 queueVars, lockHolder, events, interrupted>>

CleanupReported(i) ==
  /\ ResultArrived(i)
  /\ ~IsRun(i)
  /\ ops' = [ops EXCEPT ![i].phase = "done"]
  /\ UNCHANGED <<uiVars, userVars, scopeVars, queueVars, lockHolder, events,
                 interrupted>>

\* The finally of work().
FinishWork(i) ==
  /\ uiWork = i /\ ~startQueued
  /\ Scopes!ReleaseReservation(ops[i].reservation)
  /\ cancelSent' = IF ops[i].epoch = runEpoch THEN FALSE ELSE cancelSent
  /\ ops' = [ops EXCEPT ![i].phase = "done"]
  /\ uiWork' = 0
  /\ UNCHANGED <<running, interaction, runEpoch, startQueued, userVars, queueVars,
                 lockHolder, events, interrupted>>

\* The user approves or rejects (_finish_interaction).
Decide ==
  /\ UIFree /\ interaction /\ RoomForMore
  /\ interaction' = FALSE
  /\ StartRun("resume")
  /\ UNCHANGED <<uiWork, startQueued, userVars, queueVars, lockHolder, events,
                 interrupted>>

\* _dismiss_pending_interrupt
Dismiss ==
  /\ UIFree /\ interaction
  /\ interaction' = FALSE
  /\ running' = FALSE
  /\ UNCHANGED <<runEpoch, cancelSent, uiWork, startQueued, userVars, scopeVars,
                 queueVars, workVars>>

\* F2
ReopenInteraction ==
  /\ UIFree /\ ~interaction /\ interrupted
  /\ interaction' = TRUE
  /\ UNCHANGED <<running, runEpoch, cancelSent, uiWork, startQueued, userVars,
                 scopeVars, queueVars, workVars>>

\* /attachments cleanup
CleanupCommand ==
  /\ UIFree /\ ~interaction /\ RoomForMore
  /\ Cardinality({i \in DOMAIN ops : ~IsRun(i)}) < Cleanups
  /\ ops' = Append(ops, NewOp("cleanup", runEpoch, NoGen))
  /\ UNCHANGED <<uiVars, userVars, scopeVars, queueVars, lockHolder, events,
                 interrupted>>

\* Steps of the UI loop that need no key press.
UIStep ==
  \/ SubmitStarts \/ CancelRest \/ ApplyEvent
  \/ \E i \in DOMAIN ops :
       \/ HandleRefusal(i) \/ HandleStop(i) \/ HandleCompletion(i)
       \/ CleanupReported(i) \/ FinishWork(i)

UserStep ==
  \/ \E m \in Messages, mode \in {"steer", "followUp"} : Submit(m, mode)
  \/ Esc \/ Dequeue \/ Decide \/ Dismiss \/ ReopenInteraction \/ CleanupCommand

Next ==
  \/ UserStep \/ UIStep \/ DrainBegun
  \/ \E i \in DOMAIN ops : Checkpointed(i) \/ Steered(i) \/ LastStep(i) \/ GraphReturns(i) \/ WorkerStep(i)

\* Threads and the UI loop go on; a graph that was asked to drain returns.
Fairness ==
  /\ WF_vars(UIStep) /\ WF_vars(DrainBegun)
  /\ \A i \in 1..MaxOps :
       /\ WF_vars(i \in DOMAIN ops /\ WorkerStep(i))
       /\ WF_vars(i \in DOMAIN ops /\ active \in drains /\ GraphReturns(i))

Spec == Init /\ [][Next]_vars
FairSpec == Spec /\ Fairness

-----------------------------------------------------------------------------
(* Properties. *)

\* The operation is between begin_run and end_run.
Begun(i) ==
  ops[i].phase \in {"graph", "lastStep", "polling", "pollSteering", "pollFollowUp",
                    "continuing", "completing", "ending"}

\* Esc was pressed while the run was the one shown.
EscPressed(i) == ops[i].epoch \in escs

\* An operation was dispatched before another one had returned.
Overlapped == \E i \in DOMAIN ops : ops[i].overlaps

\* Nothing is under way: what is queued now stays queued until the next key.
Quiet == /\ UIFree /\ ~interaction /\ ~interrupted /\ events = <<>>
         /\ \A i \in DOMAIN ops : ops[i].phase = "done"

\* With every run handled no reservation, and no cancel kept on one, is left for
\* a later run, whichever of begin_run, _exclusive_operation and the UI's own
\* finally gets to release it.
NoReservationLeaks ==
  (\A i \in DOMAIN ops : IsRun(i) => ops[i].phase = "done") => reserved = NoGen

\* Where no two operations overlapped, a run is cancelled only by an Esc
\* pressed since it was dispatched: a cancel meant for the run before it is
\* never carried over (reserve_run, begin_run, release_reservation).
CancelledOnlyByUser ==
  ~Overlapped =>
    \A i \in DOMAIN ops :
      ops[i].outcome = "cancelled" => \E e \in escs : e >= ops[i].epoch

\* Where no two operations overlapped, Esc pressed while a run is shown holds
\* for every generation that run begins, also when it was pressed before the
\* first begin_run or between two turns of one run.
CancelKept ==
  ~Overlapped =>
    \A i \in DOMAIN ops : Begun(i) /\ EscPressed(i) => active \in cancelEvents

\* Where no two operations overlapped, steering is held back only while an
\* interrupt waits for the user, so that what was queued behind an approval
\* reaches the run that goes on after it.
DeferredOnlyAtInterrupt == ~Overlapped => (deferSteering => interrupted)

\* A run the user cancelled ends and is reported, however early or late the
\* cancel comes.
CancelSettles ==
  \A i \in 1..MaxOps :
    (i \in DOMAIN ops /\ EscPressed(i)) ~> (i \in DOMAIN ops /\ ops[i].phase = "done")

\* control.py says of reserve_run that a cancel issued before the run reaches
\* begin_run is kept on the reservation, and runner.py that the reservation in
\* force on entry of an operation was made for it; here without excluding that
\* another operation enters in between.
EarlyCancelKept ==
  \A i \in DOMAIN ops :
    ops[i].kind = "run" /\ Begun(i) /\ EscPressed(i) => active \in cancelEvents

\* docs/tui.md says that steering is handed over before the next model call;
\* here also when an approval was reopened with F2 while its resume began, put
\* away, and the next message started as a run beside it.
SteeringReachesNextCall == deferSteering => interrupted

\* docs/tui.md says that messages received while a task hands over at its end
\* are processed as well: the run before does not make the runner refuse one.
NoMessageRefused ==
  \A i \in DOMAIN ops : ops[i].kind = "run" => ops[i].outcome # "rejected"

\* By the same sentence, once a completed run was handed over and nothing else
\* is under way, no message that came in meanwhile is left in the queue.
HandoverContinues ==
  Quiet /\ ops # <<>> /\ ops[Len(ops)].outcome = "completed" => QueuedCount = 0

=============================================================================

--------------------------- MODULE SessionOwnership ---------------------------
(***************************************************************************)
(* Which window may write which session (agent/session_lock.py,            *)
(* session_runtime.py, and the switch, close and input guards of           *)
(* runner.py).  Each window is a process with one AgentRunner; a persisted *)
(* session is owned by an advisory file lock, a draft by the process that  *)
(* made it.  Several threads of a window call the runner; one of them at a *)
(* time is inside an operation.                                            *)
(***************************************************************************)
EXTENDS Naturals

CONSTANTS
  Windows,  \* runners, each in a process of its own
  Callers,  \* threads that call the runner of a window
  Threads,  \* session ids
  Saved,    \* sessions in the catalog when the windows open
  MaxCalls, \* bound: calls of runner operations
  BusyWindows, \* bound: windows with close(), queued input and several callers
  Main,        \* bound: the others call while this one is inside a call
  NoThread, NoWindow, NoCaller

ASSUME BoundAssumption == MaxCalls \in Nat /\ BusyWindows \subseteq Windows /\ Main \in Callers
ASSUME SavedAssumption == Saved \subseteq Threads
ASSUME NoneAssumption ==
  NoThread \notin Threads /\ NoWindow \notin Windows /\ NoCaller \notin Callers

VARIABLES
  rows,          \* sessions in the catalog
  locked,        \* window whose process holds the file lock of a session
  threadId,      \* _thread_id
  lease,         \* thread of _lease, or NoThread
  draft,         \* id of _draft, or NoThread
  pendingSwitch, \* _pending_switch, or NoThread
  config,        \* session whose model and permission the graph was built for
  opLock,        \* caller that holds _operation_lock, or NoCaller
  op,            \* what each caller is doing
  closing,       \* where close() is; _closed is set unless "open"
  inbox,         \* session of the oldest queued input, or NoThread
  calls          \* runner operations called

leaseVars == <<threadId, lease, draft, pendingSwitch>>
callVars  == <<opLock, op>>
vars == <<rows, locked, leaseVars, config, callVars, closing, inbox, calls>>

Kinds  == {"run", "switch", "wait", "new"}
Phases == {"idle", "checked", "entered", "persisting", "creating", "adopting",
           "writing", "switching", "loading", "applied", "waiting", "acquired"}
Closing == {"open", "closing", "draining", "drained", "confirmed", "done"}

MaybeThread == Threads \cup {NoThread}
\* late: the operation took the lock after close() had drained it.
\* cancelled: the user cancelled the wait.
Op == [phase : Phases, kind : Kinds, target : MaybeThread, lease : MaybeThread,
       late : BOOLEAN, cancelled : BOOLEAN]
Idle == [phase |-> "idle", kind |-> "run", target |-> NoThread, lease |-> NoThread,
         late |-> FALSE, cancelled |-> FALSE]

TypeOK ==
  /\ rows \subseteq Threads
  /\ locked \in [Threads -> Windows \cup {NoWindow}]
  /\ threadId \in [Windows -> Threads]
  /\ lease \in [Windows -> MaybeThread]
  /\ draft \in [Windows -> MaybeThread]
  /\ pendingSwitch \in [Windows -> MaybeThread]
  /\ config \in [Windows -> Threads]
  /\ opLock \in [Windows -> Callers \cup {NoCaller}]
  /\ op \in [Windows -> [Callers -> Op]]
  /\ closing \in [Windows -> Closing]
  /\ inbox \in [Windows -> MaybeThread]
  /\ calls \in 0..MaxCalls

\* acquire_initial: each window starts on a draft of its own.
Init ==
  /\ rows = Saved
  /\ locked = [t \in Threads |-> NoWindow]
  /\ threadId \in [Windows -> Threads \ Saved]
  /\ \A v, w \in Windows : threadId[v] = threadId[w] => v = w
  /\ lease = threadId /\ draft = threadId /\ config = threadId
  /\ pendingSwitch = [w \in Windows |-> NoThread]
  /\ opLock = [w \in Windows |-> NoCaller]
  /\ op = [w \in Windows |-> [c \in Callers |-> Idle]]
  /\ closing = [w \in Windows |-> "open"]
  /\ inbox = [w \in Windows |-> NoThread]
  /\ calls = 0

-----------------------------------------------------------------------------
(* Leases. *)

\* Only the process that holds the lock can drop it.
Unlocked(locks, w, t) ==
  [u \in Threads |-> IF u = t /\ locks[u] = w THEN NoWindow ELSE locks[u]]

\* The lease of a draft guards nothing outside its process.
DropLease(locks, w) ==
  IF lease[w] = draft[w] THEN locks ELSE Unlocked(locks, w, lease[w])

\* _require_active_session
RequireActive(w) ==
  /\ lease[w] = threadId[w]
  /\ pendingSwitch[w] = NoThread

-----------------------------------------------------------------------------
(* _exclusive_operation *)

Phase(w, c) == op[w][c].phase
Is(w, c, phase, kind) == Phase(w, c) = phase /\ op[w][c].kind = kind
Go(w, c, phase) == op' = [op EXCEPT ![w][c].phase = phase] /\ UNCHANGED opLock
Leave(w, c) ==
  /\ op' = [op EXCEPT ![w][c] = Idle]
  /\ opLock' = [opLock EXCEPT ![w] = NoCaller]

\* The call finds the runner open.
Call(w, c, kind, target) ==
  /\ c # Main => w \in BusyWindows /\ Phase(w, Main) # "idle"
  /\ closing[w] = "open"
  /\ Phase(w, c) = "idle"
  /\ op' = [op EXCEPT ![w][c] = [Idle EXCEPT !.phase = "checked", !.kind = kind,
                                             !.target = target]]
  /\ calls < MaxCalls /\ calls' = calls + 1
  /\ UNCHANGED <<rows, locked, leaseVars, config, opLock, closing, inbox>>

\* The id of a switch comes from the catalog; any other one is refused (resolve).
Calls(w, c) ==
  \/ \E kind \in {"run", "new"} : Call(w, c, kind, NoThread)
  \/ \E t \in rows : Call(w, c, "switch", t)
  \/ pendingSwitch[w] # NoThread /\ Call(w, c, "wait", pendingSwitch[w])

Enter(w, c) ==
  /\ Phase(w, c) = "checked"
  /\ opLock[w] = NoCaller
  /\ opLock' = [opLock EXCEPT ![w] = c]
  /\ op' = [op EXCEPT ![w][c].phase = "entered",
                      ![w][c].late = closing[w] \in {"drained", "confirmed", "done"}]
  /\ UNCHANGED <<rows, locked, leaseVars, config, closing, inbox, calls>>

CallRefused(w, c) ==
  /\ Phase(w, c) = "checked"
  /\ opLock[w] # NoCaller
  /\ op' = [op EXCEPT ![w][c] = Idle]
  /\ UNCHANGED <<rows, locked, leaseVars, config, opLock, closing, inbox, calls>>

-----------------------------------------------------------------------------
(* A run: invoke or a resume.  A draft is persisted before its first write. *)

RunRefused(w, c) ==
  /\ Is(w, c, "entered", "run")
  /\ ~RequireActive(w)
  /\ Leave(w, c)
  /\ UNCHANGED <<rows, locked, leaseVars, config, closing, inbox, calls>>

RunAccepted(w, c) ==
  /\ Is(w, c, "entered", "run")
  /\ RequireActive(w)
  /\ Go(w, c, IF draft[w] = NoThread THEN "writing" ELSE "persisting")
  /\ UNCHANGED <<rows, locked, leaseVars, config, closing, inbox, calls>>

\* persist_for_message; no other window knows the id of the draft.
PersistAcquire(w, c) ==
  /\ Phase(w, c) = "persisting"
  /\ locked[draft[w]] = NoWindow
  /\ locked' = [locked EXCEPT ![draft[w]] = w]
  /\ op' = [op EXCEPT ![w][c].phase = "creating", ![w][c].lease = draft[w]]
  /\ UNCHANGED <<rows, leaseVars, config, opLock, closing, inbox, calls>>

PersistCreates(w, c) ==
  /\ Phase(w, c) = "creating"
  /\ rows' = rows \cup {draft[w]}
  /\ Go(w, c, "adopting")
  /\ UNCHANGED <<locked, leaseVars, config, closing, inbox, calls>>

PersistFails(w, c) ==
  /\ Phase(w, c) = "creating"
  /\ locked' = Unlocked(locked, w, op[w][c].lease)
  /\ Leave(w, c)
  /\ UNCHANGED <<rows, leaseVars, config, closing, inbox, calls>>

PersistAdopts(w, c) ==
  /\ Phase(w, c) = "adopting"
  /\ threadId' = [threadId EXCEPT ![w] = op[w][c].lease]
  /\ lease' = [lease EXCEPT ![w] = op[w][c].lease]
  /\ draft' = [draft EXCEPT ![w] = NoThread]
  /\ pendingSwitch' = [pendingSwitch EXCEPT ![w] = NoThread]
  /\ op' = [op EXCEPT ![w][c].phase = "writing", ![w][c].lease = NoThread]
  /\ UNCHANGED <<rows, locked, config, opLock, closing, inbox, calls>>

\* The run completed, having taken what was queued, or was stopped.
EndRun(w, c) ==
  /\ Phase(w, c) = "writing"
  /\ Leave(w, c)
  /\ inbox' \in {inbox, [inbox EXCEPT ![w] = NoThread]}
  /\ UNCHANGED <<rows, locked, leaseVars, config, closing, calls>>

-----------------------------------------------------------------------------
(* Switching: _begin_session_switch and _load_and_commit_switch. *)

\* _require_empty_input_queue
InputAllows(w, t) == t # threadId[w] => inbox[w] = NoThread

SwitchRefused(w, c) ==
  /\ Is(w, c, "entered", "switch")
  /\ ~InputAllows(w, op[w][c].target)
  /\ Leave(w, c)
  /\ UNCHANGED <<rows, locked, leaseVars, config, closing, inbox, calls>>

SwitchBegins(w, c) ==
  /\ Is(w, c, "entered", "switch")
  /\ InputAllows(w, op[w][c].target)
  /\ pendingSwitch' = [pendingSwitch EXCEPT ![w] = NoThread]
  /\ Go(w, c, "switching")
  /\ UNCHANGED <<rows, locked, threadId, lease, draft, config, closing,
                 inbox, calls>>

\* A session this runner owns is only loaded again.
SwitchReloads(w, c) ==
  /\ Phase(w, c) = "switching"
  /\ lease[w] = op[w][c].target
  /\ Go(w, c, "loading")
  /\ UNCHANGED <<rows, locked, leaseVars, config, closing, inbox, calls>>

TakeTarget(w, c, phase) ==
  /\ locked[op[w][c].target] = NoWindow
  /\ locked' = [locked EXCEPT ![op[w][c].target] = w]
  /\ op' = [op EXCEPT ![w][c].phase = phase, ![w][c].lease = op[w][c].target]

SwitchAcquires(w, c) ==
  /\ Phase(w, c) = "switching"
  /\ lease[w] # op[w][c].target
  /\ TakeTarget(w, c, "loading")
  /\ UNCHANGED <<rows, leaseVars, config, opLock, closing, inbox, calls>>

TargetBusy(w, c) ==
  /\ Phase(w, c) = "switching"
  /\ lease[w] # op[w][c].target
  /\ locked[op[w][c].target] # NoWindow

\* switch_session raises; begin_session_switch detaches to wait.
SwitchBusy(w, c) ==
  /\ TargetBusy(w, c)
  /\ Leave(w, c)
  /\ UNCHANGED <<rows, locked, leaseVars, config, closing, inbox, calls>>

DetachForWait(w, c) ==
  /\ TargetBusy(w, c)
  /\ locked' = DropLease(locked, w)
  /\ lease' = [lease EXCEPT ![w] = NoThread]
  /\ pendingSwitch' = [pendingSwitch EXCEPT ![w] = op[w][c].target]
  /\ Leave(w, c)
  /\ UNCHANGED <<rows, threadId, draft, config, closing, inbox, calls>>

\* _apply_restore_plan
ApplyPlan(w, c) ==
  /\ Phase(w, c) = "loading"
  /\ config' = [config EXCEPT ![w] = op[w][c].target]
  /\ Go(w, c, "applied")
  /\ UNCHANGED <<rows, locked, leaseVars, closing, inbox, calls>>

\* Mutant: the lease of the target is kept.
SwitchFailsHolding(w, c) ==
  /\ Phase(w, c) \in {"loading", "applied"}
  /\ config' = [config EXCEPT ![w] = threadId[w]]
  /\ Leave(w, c)
  /\ UNCHANGED <<rows, locked, leaseVars, closing, inbox, calls>>

\* Loading, building the graph or touching the row failed.
SwitchFails(w, c) ==
  /\ Phase(w, c) \in {"loading", "applied"}
  /\ config' = [config EXCEPT ![w] = threadId[w]]
  /\ locked' = Unlocked(locked, w, op[w][c].lease)
  /\ Leave(w, c)
  /\ UNCHANGED <<rows, leaseVars, closing, inbox, calls>>

\* adopt: the old lease is dropped after the new one is in place.
SwitchAdopts(w, c) ==
  /\ Phase(w, c) = "applied" /\ op[w][c].lease # NoThread
  /\ threadId' = [threadId EXCEPT ![w] = op[w][c].target]
  /\ lease' = [lease EXCEPT ![w] = op[w][c].lease]
  /\ draft' = [draft EXCEPT ![w] = IF @ = op[w][c].target THEN @ ELSE NoThread]
  /\ pendingSwitch' = [pendingSwitch EXCEPT ![w] = NoThread]
  /\ locked' = DropLease(locked, w)
  /\ Leave(w, c)
  /\ UNCHANGED <<rows, config, closing, inbox, calls>>

\* bind
SwitchBinds(w, c) ==
  /\ Phase(w, c) = "applied" /\ op[w][c].lease = NoThread
  /\ threadId' = [threadId EXCEPT ![w] = op[w][c].target]
  /\ pendingSwitch' = [pendingSwitch EXCEPT ![w] = NoThread]
  /\ Leave(w, c)
  /\ UNCHANGED <<rows, locked, lease, draft, config, closing, inbox, calls>>

-----------------------------------------------------------------------------
(* Waiting for a session another window owns: complete_session_switch. *)

StillPending(w, c) == pendingSwitch[w] = op[w][c].target /\ lease[w] = NoThread

Aborted(w) == closing[w] \notin {"open", "closing"}  \* _abort_wait

\* Mutant: a wait does not hear of close().
WaitStoppedByUser(w, c) == op[w][c].cancelled

\* The combined check of SessionRuntime.wait_acquire.
WaitStopped(w, c) == Aborted(w) \/ op[w][c].cancelled

WaitBegins(w, c) ==
  /\ Is(w, c, "entered", "wait")
  /\ IF StillPending(w, c) THEN Go(w, c, "waiting") ELSE Leave(w, c)
  /\ UNCHANGED <<rows, locked, leaseVars, config, closing, inbox, calls>>

WaitAcquires(w, c) ==
  /\ Phase(w, c) = "waiting"
  /\ ~WaitStopped(w, c)
  /\ TakeTarget(w, c, "acquired")
  /\ UNCHANGED <<rows, leaseVars, config, opLock, closing, inbox, calls>>

WaitGivesUp(w, c) ==
  /\ Phase(w, c) = "waiting"
  /\ WaitStopped(w, c)
  /\ Leave(w, c)
  /\ UNCHANGED <<rows, locked, leaseVars, config, closing, inbox, calls>>

\* A cancel that came between the check and the acquisition wins.
WaitConfirms(w, c) ==
  /\ Phase(w, c) = "acquired"
  /\ IF WaitStopped(w, c) \/ closing[w] # "open" \/ ~StillPending(w, c)
     THEN Leave(w, c) /\ locked' = Unlocked(locked, w, op[w][c].lease)
     ELSE Go(w, c, "loading") /\ UNCHANGED locked
  /\ UNCHANGED <<rows, leaseVars, config, closing, inbox, calls>>

\* Nobody asks after the target is being loaded.
CancelWait(w, c) ==
  /\ op[w][c].kind = "wait"
  /\ Phase(w, c) \in {"checked", "entered", "waiting", "acquired"}
  /\ op' = [op EXCEPT ![w][c].cancelled = TRUE]
  /\ UNCHANGED <<rows, locked, leaseVars, config, opLock, closing, inbox, calls>>

-----------------------------------------------------------------------------
(* new_session, and input that is queued without the operation lock. *)

NewRefused(w, c) ==
  /\ Is(w, c, "entered", "new")
  /\ inbox[w] # NoThread
  /\ Leave(w, c)
  /\ UNCHANGED <<rows, locked, leaseVars, config, closing, inbox, calls>>

\* create_new: a draft with an id nobody has.
NewSession(w, c) ==
  /\ Is(w, c, "entered", "new")
  /\ inbox[w] = NoThread
  /\ \E t \in Threads \ rows :
       /\ \A v \in Windows : t \notin {threadId[v], draft[v]}
       /\ threadId' = [threadId EXCEPT ![w] = t]
       /\ lease' = [lease EXCEPT ![w] = t]
       /\ draft' = [draft EXCEPT ![w] = t]
       /\ config' = [config EXCEPT ![w] = t]
  /\ pendingSwitch' = [pendingSwitch EXCEPT ![w] = NoThread]
  /\ locked' = DropLease(locked, w)
  /\ Leave(w, c)
  /\ UNCHANGED <<rows, closing, inbox, calls>>

\* steer and follow_up: while a run is shown, or the session (which has a
\* checkpoint) waits for the user.
QueueInput(w) ==
  /\ w \in BusyWindows
  /\ closing[w] = "open"
  /\ RequireActive(w)
  /\ threadId[w] \in rows
  /\ inbox' = [inbox EXCEPT ![w] = IF @ = NoThread THEN threadId[w] ELSE @]
  /\ UNCHANGED <<rows, locked, leaseVars, config, callVars, closing, calls>>

\* take_unapplied_messages
ReclaimInput(w) ==
  /\ inbox[w] # NoThread
  /\ inbox' = [inbox EXCEPT ![w] = NoThread]
  /\ UNCHANGED <<rows, locked, leaseVars, config, callVars, closing, calls>>

-----------------------------------------------------------------------------
(* close(), which may be called again after it timed out, and the end of    *)
(* the process.                                                             *)

CloseStep(w, from, to) ==
  /\ closing[w] = from
  /\ closing' = [closing EXCEPT ![w] = to]
  /\ UNCHANGED <<rows, threadId, draft, pendingSwitch, config, callVars, inbox, calls>>

CloseCalled(w) ==
  /\ w \in BusyWindows
  /\ CloseStep(w, "open", "closing")
  /\ UNCHANGED <<locked, lease>>

AbortWait(w) == CloseStep(w, "closing", "draining") /\ UNCHANGED <<locked, lease>>

\* Mutant: the operation in progress is not waited for.
DrainedAnyway(w) == TRUE

Drained(w) == opLock[w] = NoCaller

\* A close() that timed out changed nothing more; the next one drains again.
Drain(w) ==
  /\ Drained(w)
  /\ CloseStep(w, "draining", "drained")
  /\ UNCHANGED <<locked, lease>>

\* The requests of ended runs have closed, or one has not in time.
ConfirmStreams(w) ==
  /\ CloseStep(w, "drained", "confirmed") \/ CloseStep(w, "drained", "draining")
  /\ UNCHANGED <<locked, lease>>

ReleaseLease(w) ==
  /\ CloseStep(w, "confirmed", "done")
  /\ locked' = DropLease(locked, w)
  /\ lease' = [lease EXCEPT ![w] = NoThread]

\* The operating system drops the locks of a process that ends.
ProcessEnds(w) ==
  /\ closing' = [closing EXCEPT ![w] = "done"]
  /\ op' = [op EXCEPT ![w] = [c \in Callers |-> Idle]]
  /\ opLock' = [opLock EXCEPT ![w] = NoCaller]
  /\ locked' = [t \in Threads |-> IF locked[t] = w THEN NoWindow ELSE locked[t]]
  /\ lease' = [lease EXCEPT ![w] = NoThread]
  /\ draft' = [draft EXCEPT ![w] = NoThread]
  /\ pendingSwitch' = [pendingSwitch EXCEPT ![w] = NoThread]
  /\ config' = [config EXCEPT ![w] = threadId[w]]
  /\ inbox' = [inbox EXCEPT ![w] = NoThread]
  /\ UNCHANGED <<rows, threadId, calls>>

-----------------------------------------------------------------------------
OperationStep(w, c) ==
  \/ Enter(w, c) \/ CallRefused(w, c)
  \/ RunRefused(w, c) \/ RunAccepted(w, c) \/ PersistAcquire(w, c)
  \/ PersistCreates(w, c) \/ PersistFails(w, c) \/ PersistAdopts(w, c)
  \/ SwitchRefused(w, c) \/ SwitchBegins(w, c) \/ SwitchReloads(w, c)
  \/ SwitchAcquires(w, c) \/ SwitchBusy(w, c) \/ DetachForWait(w, c)
  \/ ApplyPlan(w, c) \/ SwitchFails(w, c) \/ SwitchAdopts(w, c) \/ SwitchBinds(w, c)
  \/ WaitBegins(w, c) \/ WaitGivesUp(w, c) \/ WaitConfirms(w, c)
  \/ NewRefused(w, c) \/ NewSession(w, c)

CloseSteps(w) ==
  CloseCalled(w) \/ AbortWait(w) \/ Drain(w) \/ ConfirmStreams(w) \/ ReleaseLease(w)

Next ==
  \E w \in Windows :
    \/ \E c \in Callers :
         \/ Calls(w, c) \/ OperationStep(w, c) \/ WaitAcquires(w, c)
         \/ CancelWait(w, c) \/ EndRun(w, c)
    \/ QueueInput(w) \/ ReclaimInput(w)
    \/ CloseSteps(w) \/ ProcessEnds(w)

\* wait_acquire looks again every poll_seconds; nothing says that a run ends.
Fairness == \A w \in Windows, c \in Callers : WF_vars(WaitGivesUp(w, c))

Spec == Init /\ [][Next]_vars
FairSpec == Spec /\ Fairness

-----------------------------------------------------------------------------
(* Properties. *)

\* A run that entered before close() had drained the runner writes a session
\* whose lock its window holds until it ends, through persisting a draft,
\* switches, waits and close() (persist_for_message, _require_active_session).
WriterHoldsLock ==
  \A w \in Windows, c \in Callers :
    Phase(w, c) = "writing" /\ ~op[w][c].late => locked[threadId[w]] = w

\* Between operations a window holds the lock of its persisted session and of
\* no other, whichever step of a switch or a wait failed or was cancelled: the
\* session it did not get stays free for other windows.
NoLockLeaks ==
  \A w \in Windows : opLock[w] = NoCaller =>
    \A t \in Threads : locked[t] = w <=> lease[w] = t /\ draft[w] # t

\* Between operations the graph is built for the session that is current: a
\* switch that fails after it applied the target's model and permission takes
\* them back (_load_and_commit_switch).
ConfigFollowsSession ==
  \A w \in Windows : opLock[w] = NoCaller => config[w] = threadId[w]

\* A wait ends when it is cancelled or the runner closes, although the session
\* it waits for is never released.
StoppedWaitEnds ==
  \A w \in Windows, c \in Callers :
    (Phase(w, c) = "waiting" /\ (op[w][c].cancelled \/ Aborted(w)))
      ~> Phase(w, c) # "waiting"

\* The docstring of close(): "The lease is never released while a run can still
\* write the thread"; here for every run.
LeaseOutlivesRuns ==
  \A w \in Windows, c \in Callers :
    Phase(w, c) = "writing" => locked[threadId[w]] = w

\* The guard of a switch says that unapplied input belongs to the current
\* session.
InputStaysWithSession ==
  \A w \in Windows : inbox[w] \in {threadId[w], NoThread}

\* A step that fails, is refused or is cancelled half way leaves neither a lock
\* nor the graph of another session behind (switch_session, new_session, close).
NothingLeftBehind == NoLockLeaks /\ ConfigFollowsSession
=============================================================================

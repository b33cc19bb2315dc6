------------------------------ MODULE RunnerConfig ------------------------------
(***************************************************************************)
(* What a runner's graph is built from and where that is kept: the model,  *)
(* reasoning effort and permission mode in force, the changes queued while *)
(* a run is active (agent/runner.py), their copies in the session catalog  *)
(* (agent/session.py), the plan to restore them (agent/session_runtime.py) *)
(* and the note on an abnormal end that the next message carries           *)
(* (agent/middleware/recovery.py).  Changes are applied between runs, or   *)
(* before a model call: the gate of agent/middleware/runtime_config.py     *)
(* interrupts the graph there.                                             *)
(***************************************************************************)
EXTENDS Naturals

CONSTANTS
  Models, Active,  \* model profiles, and the one the settings name
  Efforts,         \* [Models -> set of reasoning efforts besides "default"]
  Sessions,        \* rows the catalog may have
  Failing,         \* which steps may fail: "rebuild", "touch", "pending", "rollback"
  Budget,          \* bound: what users, failures and restarts may do
  None, Draft

ActiveAssumption == Active \in Models
DraftAssumption == Draft \notin Sessions
FailingAssumption == Failing \subseteq {"rebuild", "touch", "pending", "rollback"}

VARIABLES
  offered,  \* profiles of the settings this process was started with
  row,      \* session_catalog, with what the checkpointer has of the thread
  session,  \* thread_id, or a draft without a row
  config,   \* _current_model_id, _reasoning_effort, _permission_mode
  pending,  \* _pending_*
  graph,    \* what `prepared` was built from
  toolset,  \* the MCP toolset is dirty
  paused,   \* pause requested
  note,     \* _resume_context
  at,       \* the operation in progress
  budget

vars == <<offered, row, session, config, pending, graph, toolset, paused, note, at, budget>>

Modes   == {"ask", "allow"}
AllEfforts == {"default"} \cup UNION {Efforts[m] : m \in Models}
Config  == [model : Models, effort : AllEfforts, mode : Modes]
Pending == [model : Models \cup {None}, effort : AllEfforts \cup {None}, mode : Modes \cup {None}]
Nothing == [model |-> None, effort |-> None, mode |-> None]
NothingAssumption == None \notin Models \cup AllEfforts \cup Modes
Default == [model |-> Active, effort |-> "default", mode |-> "ask"]
Row     == [exists : BOOLEAN, config : Config, pending : Pending, checkpoint : BOOLEAN,
            status : {"pending", "stop", "error", "aborted", "deferred", "compacted"},
            interrupt : {"none", "approval", "pause", "boundary"}]
NoRow   == [exists |-> FALSE, config |-> Default, pending |-> Nothing, checkpoint |-> FALSE,
            status |-> "pending", interrupt |-> "none"]

TypeOK ==
  /\ offered \in SUBSET Models /\ Active \in offered
  /\ row \in [Sessions -> Row] /\ session \in Sessions \cup {Draft}
  /\ config \in Config /\ pending \in Pending /\ graph \in Config
  /\ toolset \in BOOLEAN /\ paused \in BOOLEAN
  /\ note \in {"none", "text", "armed", "told"}
  /\ at \in {"idle", "starting", "graph"} /\ budget \in 0..Budget

Init ==
  /\ offered = Models /\ row = [s \in Sessions |-> NoRow]
  /\ session = Draft /\ config = Default /\ pending = Nothing /\ graph = Default
  /\ toolset = FALSE /\ paused = FALSE /\ note = "none" /\ at = "idle" /\ budget = Budget

Spend == budget > 0 /\ budget' = budget - 1
Fails(step) == step \in Failing /\ Spend
Persisted == session # Draft
Here == row[session]
Interrupt == IF Persisted THEN Here.interrupt ELSE "none"
\* touch and set_pending_config change nothing while there is no row.
Touch(field, value) ==
  IF Persisted THEN [row EXCEPT ![session] = [@ EXCEPT ![field] = value]] ELSE row
Known(model, effort) == effort = "default" \/ effort \in Efforts[model]

-----------------------------------------------------------------------------
(* Requests, from the user's thread, also while a run is active. *)

EffortFor(model, asked) ==
  IF asked # None THEN asked ELSE IF model = config.model THEN config.effort ELSE "default"

RequestModel(model, asked) ==
  /\ model \in offered /\ Spend
  /\ LET effort == EffortFor(model, asked) IN
     /\ asked = None \/ Known(model, effort)
     /\ pending' = [pending EXCEPT
          !.model = IF model # config.model THEN model ELSE None,
          !.effort = IF model # config.model \/ effort # config.effort THEN effort ELSE None]
     /\ row' = Touch("pending", pending')
  /\ UNCHANGED <<offered, session, config, graph, toolset, paused, note, at>>

RequestPermission(mode) ==
  /\ Spend
  /\ pending' = [pending EXCEPT !.mode = IF mode # config.mode THEN mode ELSE None]
  /\ row' = Touch("pending", pending')
  /\ UNCHANGED <<offered, session, config, graph, toolset, paused, note, at>>

RequestPause ==
  /\ ~paused /\ at = "graph" /\ Spend /\ paused' = TRUE
  /\ UNCHANGED <<offered, row, session, config, pending, graph, toolset, note, at>>

\* A change of the MCP catalog.
ToolsetChanges ==
  /\ ~toolset /\ Spend /\ toolset' = TRUE
  /\ UNCHANGED <<offered, row, session, config, pending, graph, paused, note, at>>

-----------------------------------------------------------------------------
(* _apply_pending_runtime_config. *)

HasPending == pending # Nothing \/ toolset

\* A profile that is gone drops the effort queued with it; an effort that the
\* model does not have becomes the default.
Wanted ==
  LET lost   == pending.model # None /\ pending.model \notin offered
      model  == IF pending.model = None \/ lost THEN config.model ELSE pending.model
      queued == IF lost THEN None
                ELSE IF pending.model # None /\ pending.effort = None THEN "default"
                ELSE pending.effort
  IN [model  |-> model,
      effort |-> IF queued = None THEN config.effort
                 ELSE IF Known(model, queued) THEN queued ELSE "default",
      mode   |-> IF pending.mode # None THEN pending.mode ELSE config.mode]

\* Mutant: a failed touch leaves the new graph in place.
RevertedKeeps(wanted) == wanted
\* `previous` is put back when the rebuild or the touch fails.
Reverted(wanted) == graph

ApplySucceeds ==
  /\ graph' = Wanted /\ config' = Wanted /\ toolset' = FALSE /\ pending' = Nothing
  /\ row' = IF Persisted THEN [row EXCEPT ![session].config = Wanted, ![session].pending = Nothing]
            ELSE row
  /\ UNCHANGED budget

\* Every queued change is given up; the toolset stays dirty unless the graph was built.
ApplyFails ==
  /\ \/ Fails("rebuild") /\ UNCHANGED <<graph, toolset>>
     \/ Fails("touch") /\ Persisted /\ graph' = Reverted(Wanted) /\ toolset' = FALSE
  /\ pending' = Nothing /\ row' = Touch("pending", Nothing)
  /\ UNCHANGED config

Applied == ApplySucceeds \/ ApplyFails

\* Mutant: a waiting interrupt is not looked for.
MayApplyAlways == TRUE
MayApply == Interrupt = "none"

ApplyIfIdle ==
  /\ at = "idle" /\ MayApply /\ HasPending
  /\ Applied
  /\ UNCHANGED <<offered, session, paused, note, at>>

-----------------------------------------------------------------------------
(* Runs. *)

\* _invoke_with_attachment_refs, up to the change of the configuration.
Invoke ==
  /\ at = "idle" /\ Interrupt # "boundary"
  /\ budget > 0
  /\ IF Interrupt = "none" /\ HasPending THEN Applied
     ELSE Spend /\ UNCHANGED <<row, config, pending, graph, toolset>>
  /\ at' = "starting"
  /\ UNCHANGED <<offered, session, paused, note>>

Armed(context) == IF context = "text" THEN "armed" ELSE context

NewRow == config

\* persist_for_message, the touch and the start of the run.
Begin ==
  /\ at = "starting"
  /\ note' = Armed(note)
  /\ \E s \in IF Persisted THEN {session} ELSE {s \in Sessions : ~row[s].exists} :
       /\ session' = s
       /\ row' = [row EXCEPT ![s].exists = TRUE, ![s].config = NewRow,
                             ![s].status = "pending", ![s].interrupt = "none"]
  /\ at' = "graph"
  /\ UNCHANGED <<offered, config, pending, graph, toolset, paused, budget>>

\* Before a model call: the pause gate, then the gate for queued changes.
Pauses ==
  /\ at = "graph" /\ Interrupt = "none" /\ paused
  /\ row' = [row EXCEPT ![session].interrupt = "pause", ![session].status = "deferred",
                        ![session].checkpoint = TRUE]
  /\ at' = "idle" /\ note' = IF note = "told" THEN "none" ELSE note
  /\ UNCHANGED <<offered, session, config, pending, graph, toolset, paused, budget>>

ReachBoundary ==
  /\ at = "graph" /\ Interrupt = "none" /\ ~paused /\ HasPending
  /\ row' = [row EXCEPT ![session].interrupt = "boundary", ![session].checkpoint = TRUE]
  /\ UNCHANGED <<offered, session, config, pending, graph, toolset, paused, note, at, budget>>

\* _resume_config_boundaries, or resume_runtime_config after a restart.
CrossBoundary ==
  /\ Interrupt = "boundary" /\ at \in {"graph", "idle"}
  /\ \E outcome \in BOOLEAN :
       /\ IF ~HasPending THEN outcome /\ UNCHANGED <<config, pending, graph, toolset, budget>>
          ELSE IF outcome THEN /\ graph' = Wanted /\ config' = Wanted /\ toolset' = FALSE
                               /\ pending' = Nothing /\ UNCHANGED budget
          ELSE /\ \/ Fails("rebuild") /\ UNCHANGED <<graph, toolset>>
                  \/ Fails("touch") /\ graph' = Reverted(Wanted) /\ toolset' = FALSE
               /\ pending' = Nothing /\ UNCHANGED config
       /\ row' = [row EXCEPT ![session].interrupt = "none", ![session].status = "pending",
                             ![session].pending = pending', ![session].config = config']
  /\ at' = "graph"
  /\ UNCHANGED <<offered, session, paused, note>>

ToldOnce(context) == IF context = "armed" THEN "told" ELSE context

ModelCall ==
  /\ at = "graph" /\ Interrupt = "none" /\ ~paused /\ ~HasPending
  /\ ~(Here.checkpoint /\ note # "armed")  \* a call that changes nothing is left out
  /\ row' = [row EXCEPT ![session].checkpoint = TRUE]
  /\ note' = ToldOnce(note)
  /\ UNCHANGED <<offered, session, config, pending, graph, toolset, paused, at, budget>>

\* _touch_status and the end of _stream.
AfterRun(status) ==
  IF status \in {"error", "aborted"} THEN "text"
  ELSE IF status = "stop" \/ note = "told" THEN "none" ELSE note

EndRun(status, interrupt) ==
  /\ at = "graph" /\ Interrupt = "none"
  /\ status \in {"stop", "deferred"} => Here.checkpoint /\ note # "armed"
  /\ note' = AfterRun(status)
  /\ row' = [row EXCEPT ![session].status = status, ![session].interrupt = interrupt]
  /\ at' = "idle"
  /\ UNCHANGED <<offered, session, config, pending, graph, toolset, paused, budget>>

\* _resume: continue_run clears the pause.
Resume ==
  /\ at = "idle" /\ Interrupt \in {"approval", "pause"} /\ Spend
  /\ row' = [row EXCEPT ![session].status = "pending", ![session].interrupt = "none"]
  /\ paused' = IF Interrupt = "pause" THEN FALSE ELSE paused
  /\ at' = "graph"
  /\ UNCHANGED <<offered, session, config, pending, graph, toolset, note>>

\* compact_context, when it compacted: the row says STOP, told apart here from the STOP
\* of a run, and the note stays. Whether the graph has a step left is open; when it
\* refuses, finds nothing to do or fails, nothing changes here.
Compact ==
  /\ at = "idle" /\ Persisted /\ Interrupt = "none" /\ Here.checkpoint /\ Spend
  /\ row' = [row EXCEPT ![session].status = "compacted"]
  /\ UNCHANGED <<offered, session, config, pending, graph, toolset, paused, note, at>>

-----------------------------------------------------------------------------
(* Sessions. *)

\* restore_plan: the active model for one that is gone, and then its default effort.
Plan(saved) ==
  LET gone == saved.model \notin offered IN
  [saved EXCEPT !.model = IF gone THEN Active ELSE @,
                !.effort = IF gone \/ ~Known(saved.model, @) THEN "default" ELSE @]

\* _apply_restore_plan: one rebuild, if anything differs.
PlanRebuilds(s) == Plan(row[s].config) # config

\* recovery_context.
Recovery(r) ==
  IF /\ r.status \in {"aborted", "error"} \/ (r.status = "pending" /\ r.checkpoint)
     /\ r.interrupt = "none"
  THEN "text" ELSE "none"

\* A queued model that is gone is dropped, with its effort.
StillOffered(queued) ==
  IF queued.model # None /\ queued.model \notin offered
  THEN [queued EXCEPT !.model = None, !.effort = None] ELSE queued

Switch(s) ==
  /\ at = "idle" /\ row[s].exists /\ Spend
  /\ config' = Plan(row[s].config)
  /\ graph' = IF PlanRebuilds(s) THEN config' ELSE graph
  /\ toolset' = IF PlanRebuilds(s) THEN FALSE ELSE toolset
  /\ session' = s
  /\ pending' = StillOffered(row[s].pending)
  /\ \/ /\ row' = [row EXCEPT ![s].config = config', ![s].pending = pending']
        /\ paused' = FALSE /\ note' = Recovery(row[s])
     \/ /\ "pending" \in Failing
        /\ row' = [row EXCEPT ![s].config = config']
        /\ UNCHANGED <<paused, note>>
  /\ UNCHANGED <<offered, at>>

\* The plan or the touch fails; the graph is built once more.
SwitchFails(s) ==
  /\ at = "idle" /\ row[s].exists /\ Spend
  /\ \/ "rebuild" \in Failing /\ PlanRebuilds(s) /\ graph' = config /\ UNCHANGED config
     \/ "touch" \in Failing /\ graph' = config /\ UNCHANGED config
     \/ "rollback" \in Failing /\ PlanRebuilds(s) /\ config' = Plan(row[s].config) /\ graph' = config'
  /\ toolset' = FALSE
  /\ UNCHANGED <<offered, row, session, pending, paused, note, at>>

NewSession ==
  /\ at = "idle" /\ Persisted /\ Spend
  /\ session' = Draft /\ pending' = Nothing /\ paused' = FALSE /\ note' = "none"
  /\ UNCHANGED <<offered, row, config, graph, toolset, at>>

\* The process ends, at any point, and is started again with a draft.
Restart ==
  /\ Spend
  /\ offered' \in {o \in SUBSET Models : Active \in o}
  /\ session' = Draft /\ config' = Default /\ pending' = Nothing /\ graph' = Default
  /\ toolset' = FALSE /\ paused' = FALSE /\ note' = "none" /\ at' = "idle"
  /\ UNCHANGED row

-----------------------------------------------------------------------------
Next ==
  \/ \E m \in Models, e \in AllEfforts \cup {None} : RequestModel(m, e)
  \/ \E mode \in Modes : RequestPermission(mode)
  \/ RequestPause \/ ToolsetChanges \/ ApplyIfIdle
  \/ Invoke \/ Begin \/ Pauses \/ ReachBoundary \/ CrossBoundary \/ ModelCall \/ Resume
  \/ Compact
  \/ \E status \in {"stop", "error", "aborted"} : EndRun(status, "none")
  \/ EndRun("deferred", "approval")
  \/ \E s \in Sessions : Switch(s) \/ SwitchFails(s)
  \/ NewSession \/ Restart

Spec == Init /\ [][Next]_vars

-----------------------------------------------------------------------------
\* The graph that answers is the one the settings shown to the user describe,
\* whatever rebuild, touch or switch failed on the way.
GraphMatchesConfig == graph = config

\* No model is ever called with a reasoning effort that it does not have, through
\* requests, saved requests, restored sessions and settings that changed.
EffortSupported == Known(graph.model, graph.effort) /\ graph.model \in offered

\* Between runs a restart would restore what is in force.
RowMatchesConfig == at = "idle" /\ Persisted => Here.config = config

\* Between runs the window knows of an abnormal end exactly what it would find in the
\* catalog if it were started again, and nothing of another session. After a /compact it
\* may still know of one that the catalog has forgotten, as only the row is written.
Forgotten == Persisted /\ Here.status = "compacted" /\ note = "text"
NoteMatchesCatalog ==
  at = "idle" /\ Interrupt = "none" =>
    Forgotten \/ note = IF Persisted THEN Recovery(Here) ELSE "none"

\* No change is applied while an approval or a pause waits: the graph that asked is
\* the graph that goes on.
InterruptKeepsGraph ==
  [][at = "idle" /\ Interrupt \in {"approval", "pause"} /\ session' = session
     => graph' = graph]_vars

\* Graph, configuration, stored row and the note for the model agree, also when a rebuild
\* or a touch fails (Failing says which steps do).
ConfigConsistent == GraphMatchesConfig /\ EffortSupported /\ RowMatchesConfig /\ NoteMatchesCatalog
=============================================================================

------------------------------ MODULE RunScopes ------------------------------
(***************************************************************************)
(* The run-scoped half of RunController (agent/control.py): generations,   *)
(* the cancel event of each, the model streams, tool contexts and child    *)
(* controllers a cancel has to reach.  The message queues of the same      *)
(* class are in InputQueue.                                                *)
(*                                                                         *)
(* One action is one critical section of the controller's lock, or one     *)
(* call made after it was released.  cancel() in particular takes a        *)
(* snapshot under the lock and works through it afterwards, while workers  *)
(* go on opening tool contexts and registering streams.                    *)
(***************************************************************************)
EXTENDS Naturals, FiniteSets

CONSTANTS
  Cancellers, \* threads that may be inside cancel() at the same time
  Streams,    \* model streams (bridges); each is registered at most once
  Tools,      \* tool calls; each opens at most one cancel context
  Children,   \* controllers of sub-agents
  MaxGen      \* bound on the generations handed out

ASSUME MaxGenAssumption == MaxGen \in Nat

NoGen == 0
Gens  == 1..MaxGen

VARIABLES
  nextGen,      \* next value of _generations
  active,       \* generation of _active, or NoGen
  reserved,     \* generation of _reserved, or NoGen
  last,         \* generation of _last, or NoGen
  cancelEvents, \* generations whose cancel_event is set
  controls,     \* generations whose run_control exists
  drains,       \* generations whose run_control was asked to drain
  beginDrain,   \* generation begin_run still has to drain, or NoGen
  streamPhase,  \* life of each stream
  streamScope,  \* _stream_scopes: generation a stream is registered under
  unclosed,     \* _unclosed_streams
  streamCancelled, \* streams whose cancel() was called
  toolPhase,    \* where each tool call is in open_tool_context / wrap_tool_call
  toolEvent,    \* generation whose cancel_event the context shares, or NoGen
  activeTools,  \* _active_tools
  ctxCancelled, \* contexts with _cancelled set
  callbacks,    \* contexts that hold the tool's cancel callback
  calls,        \* number of times the tool's cancel callback ran
  killed,       \* tools whose process was killed
  children,     \* _children
  childGen,     \* generation that was active when a child was attached
  childCancelled, \* children whose cancel() was called
  pauseRequested, \* _pause_requested
  job           \* what each running cancel() call still has to do

scopeVars == <<nextGen, active, reserved, last, cancelEvents, controls>>
drainVars == <<drains, beginDrain>>
streamVars == <<streamPhase, streamScope, unclosed>>
toolVars  == <<toolPhase, toolEvent, activeTools, callbacks>>
ctxVars   == <<ctxCancelled, calls, killed>>
childVars == <<children, childGen>>
reachVars == <<streamCancelled, childCancelled, pauseRequested>>
vars == <<scopeVars, drainVars, streamVars, toolVars, ctxVars, childVars,
          reachVars, job>>

Job == [children : SUBSET Children, streams : SUBSET Streams,
        control : Gens \cup {NoGen}, tools : SUBSET Tools]
NoJob == [children |-> {}, streams |-> {}, control |-> NoGen, tools |-> {}]

ToolPhases == {"idle", "opening", "checked", "registered", "armed",
               "running", "spawned", "reaped", "closed"}

TypeOK ==
  /\ nextGen \in 1..(MaxGen + 1)
  /\ active \in Gens \cup {NoGen}
  /\ reserved \in Gens \cup {NoGen}
  /\ last \in Gens \cup {NoGen}
  /\ cancelEvents \in SUBSET Gens
  /\ controls \in SUBSET Gens
  /\ drains \in SUBSET Gens
  /\ beginDrain \in Gens \cup {NoGen}
  /\ streamPhase \in [Streams -> {"fresh", "open", "closed", "refused"}]
  /\ streamScope \in [Streams -> Gens \cup {NoGen}]
  /\ unclosed \in SUBSET Streams
  /\ streamCancelled \in SUBSET Streams
  /\ toolPhase \in [Tools -> ToolPhases]
  /\ toolEvent \in [Tools -> Gens \cup {NoGen}]
  /\ activeTools \in SUBSET Tools
  /\ ctxCancelled \in SUBSET Tools
  /\ callbacks \in SUBSET Tools
  /\ calls \in [Tools -> Nat]
  /\ killed \in SUBSET Tools
  /\ children \in SUBSET Children
  /\ childGen \in [Children -> Gens \cup {NoGen}]
  /\ childCancelled \in SUBSET Children
  /\ pauseRequested \in BOOLEAN
  /\ job \in [Cancellers -> Job]

Init ==
  /\ nextGen = 1
  /\ active = NoGen /\ reserved = NoGen /\ last = NoGen
  /\ cancelEvents = {} /\ controls = {}
  /\ drains = {} /\ beginDrain = NoGen
  /\ streamPhase = [s \in Streams |-> "fresh"]
  /\ streamScope = [s \in Streams |-> NoGen]
  /\ unclosed = {} /\ streamCancelled = {}
  /\ toolPhase = [t \in Tools |-> "idle"]
  /\ toolEvent = [t \in Tools |-> NoGen]
  /\ activeTools = {} /\ ctxCancelled = {} /\ callbacks = {}
  /\ calls = [t \in Tools |-> 0] /\ killed = {}
  /\ children = {} /\ childCancelled = {}
  /\ childGen = [k \in Children |-> NoGen]
  /\ pauseRequested = FALSE
  /\ job = [c \in Cancellers |-> NoJob]

-----------------------------------------------------------------------------
(* Reading the scopes. *)

\* _current_scope: active, else reserved, else last.
CurrentScope ==
  IF active # NoGen THEN active ELSE IF reserved # NoGen THEN reserved ELSE last

CancelRequested == CurrentScope \in cancelEvents

\* The scope cancel() aims at; nextGen stands for the scope an idle
\* controller that never ran creates for the purpose.
CancelTarget ==
  IF reserved # NoGen THEN reserved
  ELSE IF active # NoGen THEN active
  ELSE IF last # NoGen THEN last
  ELSE nextGen

\* graph.stream returns to the runner only after its tool nodes returned.
ToolsReturned == \A t \in Tools : toolPhase[t] \in {"idle", "closed"}

-----------------------------------------------------------------------------
(* Runs: reserve_run, release_reservation, begin_run, end_run. *)

ReserveRun ==
  /\ IF reserved = NoGen
     THEN nextGen <= MaxGen /\ reserved' = nextGen /\ nextGen' = nextGen + 1
     ELSE UNCHANGED <<reserved, nextGen>>
  /\ UNCHANGED <<active, last, cancelEvents, controls, drainVars, streamVars,
                 toolVars, ctxVars, childVars, reachVars, job>>

\* Mutant: the reservation stays.
ReleaseReservationNever(g) ==
  UNCHANGED <<scopeVars, drainVars, streamVars, toolVars, ctxVars, childVars,
              reachVars, job>>

ReleaseReservation(g) ==
  /\ reserved' = IF reserved = g THEN NoGen ELSE reserved
  /\ UNCHANGED <<nextGen, active, last, cancelEvents, controls, drainVars,
                 streamVars, toolVars, ctxVars, childVars, reachVars, job>>

\* Mutant: the streams of the scope are forgotten.
RetireStreamsNever(g) == UNCHANGED streamVars

\* _retire_streams: streams still attached to scope g that did not close are
\* remembered as unclosed.
RetireStreams(g) ==
  LET retired == {s \in Streams : g # NoGen /\ streamScope[s] = g}
  IN  /\ streamScope' = [s \in Streams |->
                           IF s \in retired THEN NoGen ELSE streamScope[s]]
      /\ unclosed' = unclosed \cup {s \in retired : streamPhase[s] # "closed"}
      /\ UNCHANGED streamPhase

BeginScope == IF reserved # NoGen THEN reserved ELSE nextGen

\* Mutants: a generation is drawn although one is reserved; the reservation
\* outlives the run that consumed it.
TakeScopeAgain == reserved' = NoGen /\ nextGen' = nextGen + 1
TakeScopeKept ==
  UNCHANGED reserved /\ nextGen' = IF reserved # NoGen THEN nextGen ELSE nextGen + 1

TakeScope ==
  /\ reserved' = NoGen
  /\ nextGen' = IF reserved # NoGen THEN nextGen ELSE nextGen + 1

\* Mutant: a continued run starts uncancelled.
CancelCarriedNever == FALSE

\* begin_run without end_run continues the same operation, so an accepted
\* cancel carries over.
CancelCarried == active # NoGen /\ active \in cancelEvents

\* Mutant: a cancel kept on the reservation is not looked at.
CancelledAtBeginCarried == CancelCarried

CancelledAtBegin == CancelCarried \/ BeginScope \in cancelEvents

BeginRun ==
  /\ beginDrain = NoGen
  /\ ToolsReturned
  /\ BeginScope <= MaxGen
  /\ TakeScope
  /\ cancelEvents' = IF CancelCarried THEN cancelEvents \cup {BeginScope}
                     ELSE cancelEvents
  /\ RetireStreams(active)
  /\ controls' = controls \cup {BeginScope}
  /\ active' = BeginScope
  /\ last' = BeginScope
  /\ activeTools' = {}
  /\ beginDrain' = IF CancelledAtBegin THEN BeginScope ELSE NoGen
  /\ UNCHANGED <<drains, toolPhase, toolEvent, callbacks, ctxVars,
                 childVars, reachVars, job>>

\* request_drain on the new run, after begin_run released the lock.
DrainBegun ==
  /\ beginDrain # NoGen
  /\ drains' = drains \cup {beginDrain}
  /\ beginDrain' = NoGen
  /\ UNCHANGED <<scopeVars, streamVars, toolVars, ctxVars, childVars,
                 reachVars, job>>

EndRun ==
  /\ beginDrain = NoGen
  /\ ToolsReturned
  /\ active' = NoGen
  /\ activeTools' = {}
  /\ RetireStreams(active)
  /\ UNCHANGED <<nextGen, reserved, last, cancelEvents, controls, drainVars,
                 toolPhase, toolEvent, callbacks, ctxVars, childVars,
                 reachVars, job>>

-----------------------------------------------------------------------------
(* cancel(): the critical section, then the calls made from its snapshot. *)

Cancel(c) ==
  LET g == CancelTarget IN
  /\ job[c] = NoJob
  /\ g <= MaxGen
  /\ IF CurrentScope = NoGen
     THEN last' = g /\ nextGen' = g + 1
     ELSE UNCHANGED <<last, nextGen>>
  /\ pauseRequested' = FALSE
  /\ IF g \in cancelEvents
     THEN UNCHANGED <<cancelEvents, job>>
     ELSE /\ cancelEvents' = cancelEvents \cup {g}
          /\ job' = [job EXCEPT ![c] =
               [children |-> children,
                streams  |-> {s \in Streams : streamScope[s] = g},
                control  |-> IF g \in controls THEN g ELSE NoGen,
                tools    |-> activeTools]]
  /\ UNCHANGED <<active, reserved, controls, drainVars, streamVars, toolVars,
                 ctxVars, childVars, streamCancelled, childCancelled>>

\* child.cancel()
CancelChild(c, k) ==
  /\ k \in job[c].children
  /\ childCancelled' = childCancelled \cup {k}
  /\ job' = [job EXCEPT ![c].children = @ \ {k}]
  /\ UNCHANGED <<scopeVars, drainVars, streamVars, toolVars, ctxVars,
                 childVars, streamCancelled, pauseRequested>>

\* stream.cancel(), once the children are done
CancelStream(c, s) ==
  /\ job[c].children = {}
  /\ s \in job[c].streams
  /\ streamCancelled' = streamCancelled \cup {s}
  /\ job' = [job EXCEPT ![c].streams = @ \ {s}]
  /\ UNCHANGED <<scopeVars, drainVars, streamVars, toolVars, ctxVars,
                 childVars, childCancelled, pauseRequested>>

\* control.request_drain, once the streams are done
RequestDrain(c) ==
  /\ job[c].children = {} /\ job[c].streams = {}
  /\ job[c].control # NoGen
  /\ drains' = drains \cup {job[c].control}
  /\ job' = [job EXCEPT ![c].control = NoGen]
  /\ UNCHANGED <<scopeVars, beginDrain, streamVars, toolVars, ctxVars,
                 childVars, reachVars>>

\* The context holds a process (_process is not None).
HasProcess(t) == toolPhase[t] = "spawned"

\* Mutant: a second request runs the callbacks again.
RequestToolCancelAgain(t) ==
  /\ ctxCancelled' = ctxCancelled \cup {t}
  /\ calls' = IF t \in callbacks THEN [calls EXCEPT ![t] = @ + 1] ELSE calls
  /\ killed' = IF HasProcess(t) THEN killed \cup {t} ELSE killed

\* ToolCancelContext.request_cancel: only the first call runs the callbacks
\* and kills the process.
RequestToolCancel(t) ==
  /\ ctxCancelled' = ctxCancelled \cup {t}
  /\ calls' = IF t \in callbacks \ ctxCancelled
              THEN [calls EXCEPT ![t] = @ + 1] ELSE calls
  /\ killed' = IF t \notin ctxCancelled /\ HasProcess(t)
               THEN killed \cup {t} ELSE killed

\* ctx.request_cancel(), once the graph was asked to drain
CancelTool(c, t) ==
  /\ job[c].children = {} /\ job[c].streams = {} /\ job[c].control = NoGen
  /\ t \in job[c].tools
  /\ RequestToolCancel(t)
  /\ job' = [job EXCEPT ![c].tools = @ \ {t}]
  /\ UNCHANGED <<scopeVars, drainVars, streamVars, toolVars, childVars,
                 reachVars>>

CancelStep(c) ==
  \/ \E k \in Children : CancelChild(c, k)
  \/ \E s \in Streams : CancelStream(c, s)
  \/ RequestDrain(c)
  \/ \E t \in Tools : CancelTool(c, t)

RequestPause ==
  /\ pauseRequested' = TRUE
  /\ UNCHANGED <<scopeVars, drainVars, streamVars, toolVars, ctxVars,
                 childVars, streamCancelled, childCancelled, job>>

ClearPause ==
  /\ pauseRequested' = FALSE
  /\ UNCHANGED <<scopeVars, drainVars, streamVars, toolVars, ctxVars,
                 childVars, streamCancelled, childCancelled, job>>

-----------------------------------------------------------------------------
(* Model streams. *)

\* Mutant: a stream is attached to a run that is already cancelled.
RefusesStreamsWhenIdle == active = NoGen

RefusesStreams == active = NoGen \/ active \in cancelEvents

\* register_model_stream; a refused stream is never iterated.
RegisterStream(s) ==
  /\ streamPhase[s] = "fresh"
  /\ IF RefusesStreams
     THEN /\ streamPhase' = [streamPhase EXCEPT ![s] = "refused"]
          /\ UNCHANGED streamScope
     ELSE /\ streamPhase' = [streamPhase EXCEPT ![s] = "open"]
          /\ streamScope' = [streamScope EXCEPT ![s] = active]
  /\ UNCHANGED <<unclosed, scopeVars, drainVars, toolVars, ctxVars, childVars,
                 reachVars, job>>

\* The bridge finished its request (agent/llm_stream.py _finish).
StreamCloses(s) ==
  /\ streamPhase[s] = "open"
  /\ streamPhase' = [streamPhase EXCEPT ![s] = "closed"]
  /\ UNCHANGED <<streamScope, unclosed, scopeVars, drainVars, toolVars,
                 ctxVars, childVars, reachVars, job>>

\* unregister_model_stream, from the finally of the model call.
UnregisterStream(s) ==
  /\ streamPhase[s] \in {"open", "closed"}
  /\ streamScope' = [streamScope EXCEPT ![s] = NoGen]
  /\ unclosed' = IF streamPhase[s] = "closed" THEN unclosed
                 ELSE unclosed \cup {s}
  /\ UNCHANGED <<streamPhase, scopeVars, drainVars, toolVars, ctxVars,
                 childVars, reachVars, job>>

\* unclosed_model_streams forgets the streams that closed meanwhile.
PruneUnclosed ==
  /\ unclosed' = {s \in unclosed : streamPhase[s] # "closed"}
  /\ UNCHANGED <<streamPhase, streamScope, scopeVars, drainVars, toolVars,
                 ctxVars, childVars, reachVars, job>>

-----------------------------------------------------------------------------
(* Tool contexts: three critical sections of open_tool_context, then the   *)
(* middleware registers the tool's callback and runs or skips the tool.    *)

MoveTool(t, from, to) ==
  /\ toolPhase[t] = from
  /\ toolPhase' = [toolPhase EXCEPT ![t] = to]

\* Tool nodes run inside graph.stream, after begin_run returned.
OpenToolContext(t) ==
  /\ active # NoGen /\ beginDrain = NoGen
  /\ MoveTool(t, "idle", "opening")
  /\ toolEvent' = [toolEvent EXCEPT ![t] = CurrentScope]
  /\ UNCHANGED <<activeTools, callbacks, scopeVars, drainVars, streamVars,
                 ctxVars, childVars, reachVars, job>>

CheckCancelRequested(t) ==
  /\ MoveTool(t, "opening", "checked")
  /\ IF CancelRequested THEN RequestToolCancel(t) ELSE UNCHANGED ctxVars
  /\ UNCHANGED <<toolEvent, activeTools, callbacks, scopeVars, drainVars,
                 streamVars, childVars, reachVars, job>>

RegisterTool(t) ==
  /\ MoveTool(t, "checked", "registered")
  /\ activeTools' = activeTools \cup {t}
  /\ UNCHANGED <<toolEvent, callbacks, scopeVars, drainVars, streamVars,
                 ctxVars, childVars, reachVars, job>>

\* Mutant: the context forgets the event it shares with its generation.
ContextCancelledItself(t) == t \in ctxCancelled

\* ToolCancelContext.cancelled
ContextCancelled(t) == t \in ctxCancelled \/ toolEvent[t] \in cancelEvents

\* register_callback: a cancelled context runs the callback at once.
RegisterCallback(t) ==
  /\ MoveTool(t, "registered", "armed")
  /\ IF ContextCancelled(t)
     THEN calls' = [calls EXCEPT ![t] = @ + 1] /\ UNCHANGED callbacks
     ELSE callbacks' = callbacks \cup {t} /\ UNCHANGED calls
  /\ UNCHANGED <<toolEvent, activeTools, ctxCancelled, killed, scopeVars,
                 drainVars, streamVars, childVars, reachVars, job>>

StartTool(t) ==
  /\ ~ContextCancelled(t)
  /\ MoveTool(t, "armed", "running")
  /\ UNCHANGED <<toolEvent, activeTools, callbacks, scopeVars, drainVars,
                 streamVars, ctxVars, childVars, reachVars, job>>

\* register_process: a process started under a cancelled context is killed.
RegisterProcess(t) ==
  /\ MoveTool(t, "running", "spawned")
  /\ killed' = IF ContextCancelled(t) THEN killed \cup {t} ELSE killed
  /\ UNCHANGED <<toolEvent, activeTools, callbacks, ctxCancelled, calls,
                 scopeVars, drainVars, streamVars, childVars, reachVars, job>>

\* clear_process, once the process ended.
ClearProcess(t) ==
  /\ MoveTool(t, "spawned", "reaped")
  /\ UNCHANGED <<toolEvent, activeTools, callbacks, scopeVars, drainVars,
                 streamVars, ctxVars, childVars, reachVars, job>>

\* close_tool_context: the tool returned, or was skipped as cancelled.
CloseToolContext(t) ==
  /\ \/ MoveTool(t, "running", "closed")
     \/ MoveTool(t, "reaped", "closed")
     \/ ContextCancelled(t) /\ MoveTool(t, "armed", "closed")
  /\ activeTools' = activeTools \ {t}
  /\ UNCHANGED <<toolEvent, callbacks, scopeVars, drainVars, streamVars,
                 ctxVars, childVars, reachVars, job>>

ToolStep(t) ==
  \/ CheckCancelRequested(t) \/ RegisterTool(t) \/ RegisterCallback(t)
  \/ StartTool(t) \/ RegisterProcess(t) \/ ClearProcess(t)
  \/ CloseToolContext(t)

-----------------------------------------------------------------------------
(* Child controllers. *)

TellChild(k) ==
  childCancelled' = IF CancelRequested THEN childCancelled \cup {k}
                    ELSE childCancelled

\* register_child; sub-agents are started by tools of an active run.
RegisterChild(k) ==
  /\ active # NoGen
  /\ k \notin children /\ childGen[k] = NoGen
  /\ children' = children \cup {k}
  /\ childGen' = [childGen EXCEPT ![k] = active]
  /\ TellChild(k)
  /\ UNCHANGED <<scopeVars, drainVars, streamVars, toolVars, ctxVars,
                 streamCancelled, pauseRequested, job>>

UnregisterChild(k) ==
  /\ k \in children
  /\ children' = children \ {k}
  /\ UNCHANGED <<childGen, scopeVars, drainVars, streamVars, toolVars, ctxVars,
                 reachVars, job>>

-----------------------------------------------------------------------------
Next ==
  \/ ReserveRun \/ BeginRun \/ DrainBegun \/ EndRun
  \/ \E g \in Gens : ReleaseReservation(g)
  \/ \E c \in Cancellers : Cancel(c) \/ CancelStep(c)
  \/ RequestPause \/ ClearPause
  \/ \E s \in Streams : RegisterStream(s) \/ StreamCloses(s) \/ UnregisterStream(s)
  \/ PruneUnclosed
  \/ \E t \in Tools : OpenToolContext(t) \/ ToolStep(t)
  \/ \E k \in Children : RegisterChild(k) \/ UnregisterChild(k)

\* A thread inside cancel() or inside the middleware's own steps goes on
\* running, a cancelled request closes its response and a killed process
\* ends.  Nothing says that a tool or a process ends by itself.
Fairness ==
  /\ \A c \in Cancellers : WF_vars(CancelStep(c))
  /\ \A t \in Tools :
       /\ WF_vars(CheckCancelRequested(t) \/ RegisterTool(t) \/ RegisterCallback(t))
       /\ WF_vars(t \in killed /\ ClearProcess(t))
  /\ \A s \in Streams : WF_vars(s \in streamCancelled /\ StreamCloses(s))
  /\ WF_vars(DrainBegun)

Spec == Init /\ [][Next]_vars
FairSpec == Spec /\ Fairness

-----------------------------------------------------------------------------
(* Properties. *)

\* A tool is running under a context whose cancel callback is its business.
Armed(t) == toolPhase[t] \in {"armed", "running", "spawned", "reaped"}

\* A cancel reaches every tool of the run although the snapshot it works from
\* may be older than the tool's registration: once no cancel() call still has
\* the tool on its list, an armed tool of a cancelled generation has had its
\* cancel callback run (open_tool_context, register_callback, cancel).
CancelReachesTools ==
  \A t \in Tools :
    Armed(t) /\ toolEvent[t] \in cancelEvents
      => calls[t] >= 1 \/ \E c \in Cancellers : t \in job[c].tools

\* The process of a tool that is cancelled is killed, whichever of
\* register_process and request_cancel comes first.
CancelKillsProcesses ==
  \A t \in Tools :
    HasProcess(t) /\ toolEvent[t] \in cancelEvents
      => t \in killed \/ \E c \in Cancellers : t \in job[c].tools

\* The callback of a tool runs at most once, however the two ways to run it
\* race (request_cancel and register_callback).
CallbackAtMostOnce == \A t \in Tools : calls[t] <= 1

\* A model stream attached to a cancelled generation has been cancelled, or a
\* cancel() call still has it on its list (register_model_stream, cancel).
CancelReachesStreams ==
  \A s \in Streams :
    streamScope[s] # NoGen /\ streamScope[s] \in cancelEvents
      => s \in streamCancelled \/ \E c \in Cancellers : s \in job[c].streams

\* A sub-agent attached during a cancelled generation has been cancelled, or
\* a cancel() call still has it on its list (register_child, cancel).
CancelReachesChildren ==
  \A k \in children :
    childGen[k] \in cancelEvents
      => k \in childCancelled \/ \E c \in Cancellers : k \in job[c].children

\* The graph of a cancelled generation that is active is told to stop, by
\* cancel() or, when the cancel came first, by begin_run.
CancelDrainsActiveRun ==
  active # NoGen /\ active \in cancelEvents
    => \/ active \in drains \/ beginDrain = active
       \/ \E c \in Cancellers : job[c].control = active

\* With no run active, every request whose response is still open is counted
\* as unclosed: close() may drop the session lease when the count is zero
\* (unregister_model_stream, _retire_streams, unclosed_model_streams).
OpenStreamsAccounted ==
  active = NoGen =>
    \A s \in Streams : streamPhase[s] = "open" => s \in unclosed

\* The reserved generation is the newest and has not begun, so a cancel kept
\* on it can only be seen by the run it was reserved for.
ReservationIsFresh ==
  reserved # NoGen => reserved = nextGen - 1 /\ reserved \notin controls

\* Every tool in flight when its run is cancelled has its callback run, or
\* returns first.
CancelledToolsAreTold ==
  \A t \in Tools :
    (toolPhase[t] # "idle" /\ toolEvent[t] \in cancelEvents)
      ~> (calls[t] = 1 \/ toolPhase[t] = "closed")

\* The process of a cancelled tool ends although nothing else would end it.
CancelledProcessesEnd ==
  \A t \in Tools :
    (HasProcess(t) /\ toolEvent[t] \in cancelEvents) ~> ~HasProcess(t)

\* A stream of a cancelled run closes its request.
CancelledStreamsClose ==
  \A s \in Streams :
    (streamPhase[s] = "open" /\ streamScope[s] \in cancelEvents)
      ~> streamPhase[s] = "closed"

\* A cancel reaches everything its generation owns: tools, processes, model
\* requests, sub-agents and the graph (RunController.cancel).
CancelReachesAll ==
  /\ CancelReachesTools /\ CancelKillsProcesses
  /\ CancelReachesStreams /\ CancelReachesChildren
  /\ CancelDrainsActiveRun

\* And it takes effect on each of them.
CancelTakesEffect == CancelledToolsAreTold /\ CancelledProcessesEnd /\ CancelledStreamsClose
=============================================================================

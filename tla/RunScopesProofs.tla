--------------------------- MODULE RunScopesProofs ---------------------------
(***************************************************************************)
(* Proofs about RunScopes: the type invariant and the safety invariants,   *)
(* for every set of cancellers, streams, tools and children.               *)
(***************************************************************************)
EXTENDS RunScopes, TLAPS

-----------------------------------------------------------------------------
(* The inductive invariant, one part per reason the properties hold. *)

\* Every generation in use was drawn from the counter, and only a generation
\* that began can be active.
GensDrawn ==
  /\ active # NoGen => active \in controls
  /\ \A g \in controls : g < nextGen
  /\ reserved < nextGen
  /\ last < nextGen
  /\ active # NoGen => last # NoGen

\* Children belong to generations that began.
ChildGensBegan == \A k \in Children : childGen[k] # NoGen => childGen[k] \in controls

\* Streams are attached to the active generation only, and one that is open
\* is attached or counted.
StreamsAttached ==
  \A s \in Streams :
    /\ streamScope[s] # NoGen => streamScope[s] = active
    /\ streamPhase[s] = "open" => streamScope[s] # NoGen \/ s \in unclosed

Early == {"idle", "opening", "checked", "registered"}

\* A context is on the list of active tools from its registration to its end.
ToolsListed ==
  \A t \in Tools :
    toolPhase[t] = "registered" \/ Armed(t) => t \in activeTools

\* The callback is run by exactly one of register_callback and
\* request_cancel, and not before it is registered.
CallbackOnce ==
  \A t \in Tools :
    /\ calls[t] <= 1
    /\ toolPhase[t] \in Early => calls[t] = 0 /\ t \notin callbacks
    /\ t \in callbacks /\ t \notin ctxCancelled => calls[t] = 0
    /\ Armed(t) => calls[t] = 1 \/ (t \in callbacks /\ t \notin ctxCancelled)

\* A context that was asked to cancel has killed the process it holds.
KilledIfCancelled ==
  \A t \in Tools : HasProcess(t) /\ t \in ctxCancelled => t \in killed

IInv ==
  /\ TypeOK
  /\ GensDrawn
  /\ ReservationIsFresh
  /\ ChildGensBegan
  /\ StreamsAttached
  /\ ToolsListed
  /\ CallbackOnce
  /\ KilledIfCancelled
  /\ CancelReachesTools
  /\ CancelKillsProcesses
  /\ CancelReachesStreams
  /\ CancelReachesChildren
  /\ CancelDrainsActiveRun

-----------------------------------------------------------------------------
(* Type correctness. *)

\* The initial state satisfies the inductive invariant: nothing was reserved,
\* registered or cancelled.
LEMMA InitEstablishes == Init => IInv
<1> SUFFICES ASSUME Init PROVE IInv
  OBVIOUS
<1> USE DEF Init, NoGen
<1>1. TypeOK
  <2>1. NoJob \in Job
    BY DEF NoJob, Job
  <2>2. toolPhase \in [Tools -> ToolPhases]
    BY DEF ToolPhases
  <2>3. job \in [Cancellers -> Job]
    BY <2>1
  <2>4. /\ streamPhase \in [Streams -> {"fresh", "open", "closed", "refused"}]
        /\ streamScope \in [Streams -> Gens \cup {NoGen}]
        /\ toolEvent \in [Tools -> Gens \cup {NoGen}]
        /\ childGen \in [Children -> Gens \cup {NoGen}]
        /\ calls \in [Tools -> Nat]
    OBVIOUS
  <2>5. nextGen \in 1..(MaxGen + 1)
    BY MaxGenAssumption
  <2> QED
    BY <2>2, <2>3, <2>4, <2>5 DEF TypeOK
<1>2. GensDrawn /\ ReservationIsFresh /\ ChildGensBegan /\ CancelDrainsActiveRun
  BY DEF GensDrawn, ReservationIsFresh, ChildGensBegan, CancelDrainsActiveRun
<1>3. StreamsAttached /\ CancelReachesStreams /\ CancelReachesChildren
  BY DEF StreamsAttached, CancelReachesStreams, CancelReachesChildren
<1>4. ToolsListed /\ CallbackOnce /\ KilledIfCancelled
  BY DEF ToolsListed, CallbackOnce, KilledIfCancelled, Armed, HasProcess
<1>5. CancelReachesTools /\ CancelKillsProcesses
  BY DEF CancelReachesTools, CancelKillsProcesses, Armed, HasProcess
<1> QED
  BY <1>1, <1>2, <1>3, <1>4, <1>5 DEF IInv

\* Every step keeps every variable in its type.
LEMMA TypeStep == TypeOK /\ [Next]_vars => TypeOK'
<1> SUFFICES ASSUME TypeOK, [Next]_vars PROVE TypeOK'
  OBVIOUS
<1> USE MaxGenAssumption DEF TypeOK, Gens, NoGen
<1>1. ASSUME ReserveRun PROVE TypeOK'
  BY <1>1 DEF ReserveRun, drainVars, streamVars, toolVars, ctxVars,
    childVars, reachVars
<1>2. ASSUME BeginRun PROVE TypeOK'
  BY <1>2 DEF BeginRun, TakeScope, BeginScope, RetireStreams, ctxVars,
    childVars, reachVars
<1>3. ASSUME DrainBegun PROVE TypeOK'
  BY <1>3 DEF DrainBegun, scopeVars, streamVars, toolVars, ctxVars,
    childVars, reachVars
<1>4. ASSUME EndRun PROVE TypeOK'
  BY <1>4 DEF EndRun, RetireStreams, drainVars, ctxVars, childVars,
    reachVars
<1>5. ASSUME NEW g \in Gens, ReleaseReservation(g) PROVE TypeOK'
  BY <1>5 DEF ReleaseReservation, drainVars, streamVars, toolVars, ctxVars,
    childVars, reachVars
<1>6. ASSUME NEW c \in Cancellers, Cancel(c) PROVE TypeOK'
  <2>0. CancelTarget \in Gens
    BY <1>6 DEF Cancel, CancelTarget
  <2>1. last' \in Gens \cup {NoGen} /\ nextGen' \in 1..(MaxGen + 1)
    <3>1. \/ last' = CancelTarget /\ nextGen' = CancelTarget + 1
          \/ UNCHANGED <<last, nextGen>>
      BY <1>6 DEF Cancel
    <3> QED
      BY <2>0, <3>1
  <2>4. cancelEvents' \in SUBSET Gens
    <3>1. cancelEvents' = cancelEvents \/ cancelEvents' = cancelEvents \cup {CancelTarget}
      BY <1>6 DEF Cancel
    <3> QED
      BY <2>0, <3>1
  <2>2. job' \in [Cancellers -> Job]
    <3> DEFINE taken == [children |-> children,
                         streams  |-> {s \in Streams : streamScope[s] = CancelTarget},
                         control  |-> IF CancelTarget \in controls THEN CancelTarget ELSE NoGen,
                         tools    |-> activeTools]
    <3>1. taken \in Job
      BY <2>0 DEF Job
    <3>2. job' = job \/ job' = [job EXCEPT ![c] = taken]
      BY <1>6 DEF Cancel
    <3> QED
      BY <3>1, <3>2
  <2>3. UNCHANGED <<active, reserved, controls, drainVars, streamVars, toolVars,
                    ctxVars, childVars, streamCancelled, childCancelled>>
        /\ pauseRequested' = FALSE
    BY <1>6 DEF Cancel
  <2> QED
    BY <2>1, <2>2, <2>3, <2>4 DEF drainVars, streamVars, toolVars, ctxVars, childVars
<1>7. ASSUME NEW c \in Cancellers, NEW k \in Children, CancelChild(c, k) PROVE TypeOK'
  BY <1>7 DEF CancelChild, Job, scopeVars, drainVars, streamVars, toolVars,
    ctxVars, childVars
<1>8. ASSUME NEW c \in Cancellers, NEW s \in Streams, CancelStream(c, s) PROVE TypeOK'
  BY <1>8 DEF CancelStream, Job, scopeVars, drainVars, streamVars,
    toolVars, ctxVars, childVars
<1>9. ASSUME NEW c \in Cancellers, RequestDrain(c) PROVE TypeOK'
  BY <1>9 DEF RequestDrain, Job, scopeVars, streamVars, toolVars, ctxVars,
    childVars, reachVars
<1>10. ASSUME NEW c \in Cancellers, NEW t \in Tools, CancelTool(c, t) PROVE TypeOK'
  BY <1>10 DEF CancelTool, RequestToolCancel, Job, scopeVars, drainVars,
    streamVars, toolVars, childVars, reachVars
<1>11. ASSUME RequestPause PROVE TypeOK'
  BY <1>11 DEF RequestPause, scopeVars, drainVars, streamVars, toolVars,
    ctxVars, childVars
<1>12. ASSUME ClearPause PROVE TypeOK'
  BY <1>12 DEF ClearPause, scopeVars, drainVars, streamVars, toolVars,
    ctxVars, childVars
<1>13. ASSUME NEW s \in Streams, RegisterStream(s) PROVE TypeOK'
  BY <1>13 DEF RegisterStream, scopeVars, drainVars, toolVars, ctxVars,
    childVars, reachVars
<1>14. ASSUME NEW s \in Streams, StreamCloses(s) PROVE TypeOK'
  BY <1>14 DEF StreamCloses, scopeVars, drainVars, toolVars, ctxVars,
    childVars, reachVars
<1>15. ASSUME NEW s \in Streams, UnregisterStream(s) PROVE TypeOK'
  BY <1>15 DEF UnregisterStream, scopeVars, drainVars, toolVars, ctxVars,
    childVars, reachVars
<1>16. ASSUME PruneUnclosed PROVE TypeOK'
  BY <1>16 DEF PruneUnclosed, scopeVars, drainVars, toolVars, ctxVars,
    childVars, reachVars
<1>17. ASSUME NEW t \in Tools, OpenToolContext(t) PROVE TypeOK'
  BY <1>17 DEF OpenToolContext, MoveTool, CurrentScope, ToolPhases,
    scopeVars, drainVars, streamVars, ctxVars, childVars, reachVars
<1>18. ASSUME NEW t \in Tools, CheckCancelRequested(t) PROVE TypeOK'
  BY <1>18 DEF CheckCancelRequested, MoveTool, RequestToolCancel,
    ToolPhases, scopeVars, drainVars, streamVars, ctxVars, childVars,
    reachVars
<1>19. ASSUME NEW t \in Tools, RegisterTool(t) PROVE TypeOK'
  BY <1>19 DEF RegisterTool, MoveTool, ToolPhases, scopeVars, drainVars,
    streamVars, ctxVars, childVars, reachVars
<1>20. ASSUME NEW t \in Tools, RegisterCallback(t) PROVE TypeOK'
  BY <1>20 DEF RegisterCallback, MoveTool, ToolPhases, scopeVars,
    drainVars, streamVars, childVars, reachVars
<1>21. ASSUME NEW t \in Tools, StartTool(t) PROVE TypeOK'
  BY <1>21 DEF StartTool, MoveTool, ToolPhases, scopeVars, drainVars,
    streamVars, ctxVars, childVars, reachVars
<1>22. ASSUME NEW t \in Tools, RegisterProcess(t) PROVE TypeOK'
  BY <1>22 DEF RegisterProcess, MoveTool, ToolPhases, scopeVars, drainVars,
    streamVars, childVars, reachVars
<1>23. ASSUME NEW t \in Tools, ClearProcess(t) PROVE TypeOK'
  BY <1>23 DEF ClearProcess, MoveTool, ToolPhases, scopeVars, drainVars,
    streamVars, ctxVars, childVars, reachVars
<1>24. ASSUME NEW t \in Tools, CloseToolContext(t) PROVE TypeOK'
  BY <1>24 DEF CloseToolContext, MoveTool, ToolPhases, scopeVars,
    drainVars, streamVars, ctxVars, childVars, reachVars
<1>25. ASSUME NEW k \in Children, RegisterChild(k) PROVE TypeOK'
  BY <1>25 DEF RegisterChild, TellChild, scopeVars, drainVars, streamVars,
    toolVars, ctxVars
<1>26. ASSUME NEW k \in Children, UnregisterChild(k) PROVE TypeOK'
  BY <1>26 DEF UnregisterChild, scopeVars, drainVars, streamVars, toolVars,
    ctxVars, reachVars
<1>27. CASE UNCHANGED vars
  BY <1>27 DEF vars, scopeVars, drainVars, streamVars, toolVars, ctxVars, childVars, reachVars
<1> QED
  BY <1>1, <1>2, <1>3, <1>4, <1>5, <1>6, <1>7, <1>8, <1>9, <1>10, <1>11,
    <1>12, <1>13, <1>14, <1>15, <1>16, <1>17, <1>18, <1>19, <1>20, <1>21,
    <1>22, <1>23, <1>24, <1>25, <1>26, <1>27 DEF Next, CancelStep, ToolStep

-----------------------------------------------------------------------------
(* Generations and children.                                               *)

GenVars == <<nextGen, active, reserved, last, controls, childGen>>

\* A generation is drawn once and begins once.
LEMMA GensStep ==
  TypeOK /\ GensDrawn /\ ReservationIsFresh /\ ChildGensBegan /\ [Next]_vars
    => GensDrawn' /\ ReservationIsFresh' /\ ChildGensBegan'
<1> SUFFICES ASSUME TypeOK, GensDrawn, ReservationIsFresh, ChildGensBegan, [Next]_vars
             PROVE  GensDrawn' /\ ReservationIsFresh' /\ ChildGensBegan'
  OBVIOUS
<1> USE DEF TypeOK, Gens, NoGen, GensDrawn, ReservationIsFresh, ChildGensBegan
<1> DEFINE Goal == GensDrawn' /\ ReservationIsFresh' /\ ChildGensBegan'
<1>1. CASE ReserveRun
  BY <1>1, MaxGenAssumption DEF ReserveRun, childVars
<1>2. CASE BeginRun
  BY <1>2, MaxGenAssumption DEF BeginRun, BeginScope, TakeScope, childVars
<1>3. CASE EndRun
  BY <1>3 DEF EndRun, childVars
<1>4. ASSUME NEW g \in Gens, ReleaseReservation(g) PROVE Goal
  BY <1>4 DEF ReleaseReservation, childVars
<1>5. ASSUME NEW c \in Cancellers, Cancel(c) PROVE Goal
  <2>1. \/ CurrentScope = NoGen /\ last' = nextGen /\ nextGen' = nextGen + 1
        \/ UNCHANGED <<last, nextGen>>
    BY <1>5 DEF Cancel, CancelTarget, CurrentScope
  <2>2. UNCHANGED <<active, reserved, controls, childGen>>
    BY <1>5 DEF Cancel, childVars
  <2> QED
    BY <2>1, <2>2 DEF CurrentScope
<1>6. ASSUME NEW k \in Children, RegisterChild(k) PROVE Goal
  BY <1>6 DEF RegisterChild, scopeVars
<1>7. CASE UNCHANGED GenVars
  BY <1>7 DEF GenVars
<1>8. \/ ReserveRun \/ BeginRun \/ EndRun \/ UNCHANGED GenVars
      \/ \E g \in Gens : ReleaseReservation(g)
      \/ \E c \in Cancellers : Cancel(c)
      \/ \E k \in Children : RegisterChild(k)
  BY DEF Next, CancelStep, ToolStep, DrainBegun, CancelChild, CancelStream,
    RequestDrain, CancelTool, RequestPause, ClearPause, RegisterStream,
    StreamCloses, UnregisterStream, PruneUnclosed, OpenToolContext,
    CheckCancelRequested, RegisterTool, RegisterCallback, StartTool,
    RegisterProcess, ClearProcess, CloseToolContext, UnregisterChild,
    vars, scopeVars, childVars, GenVars
<1> QED
  BY <1>1, <1>2, <1>3, <1>4, <1>5, <1>6, <1>7, <1>8

\* A cancel reaches the children that are attached when it comes and the ones
\* that attach afterwards.
LEMMA ChildrenStep ==
  IInv /\ [Next]_vars => CancelReachesChildren'
<1> SUFFICES ASSUME IInv, [Next]_vars PROVE CancelReachesChildren'
  OBVIOUS
<1> USE DEF IInv, TypeOK, Gens, NoGen, CancelReachesChildren
<1>1. CASE BeginRun
  <2>1. BeginScope \notin controls
    BY MaxGenAssumption DEF BeginScope, GensDrawn, ReservationIsFresh
  <2>2. \A k \in Children : childGen[k] \in cancelEvents' => childGen[k] \in cancelEvents
    BY <1>1, <2>1, MaxGenAssumption DEF BeginRun, BeginScope, ChildGensBegan
  <2> QED
    BY <1>1, <2>2 DEF BeginRun, childVars, reachVars
<1>2. ASSUME NEW c \in Cancellers, Cancel(c) PROVE CancelReachesChildren'
  <2>1. CASE CancelTarget \in cancelEvents
    BY <1>2, <2>1 DEF Cancel, childVars
  <2>2. CASE CancelTarget \notin cancelEvents
    <3>1. \A k \in children : k \in job'[c].children
      BY <1>2, <2>2 DEF Cancel
    <3> QED
      BY <1>2, <3>1 DEF Cancel, childVars
  <2> QED
    BY <2>1, <2>2
<1>3. ASSUME NEW c \in Cancellers, NEW j \in Children, CancelChild(c, j)
      PROVE  CancelReachesChildren'
  BY <1>3 DEF CancelChild, Job, childVars, scopeVars
<1>4. ASSUME NEW k \in Children, RegisterChild(k) PROVE CancelReachesChildren'
  BY <1>4 DEF RegisterChild, TellChild, CancelRequested, CurrentScope, scopeVars
<1>5. ASSUME NEW k \in Children, UnregisterChild(k) PROVE CancelReachesChildren'
  BY <1>5 DEF UnregisterChild, scopeVars, reachVars
<1>6. CASE /\ UNCHANGED <<cancelEvents, childVars, childCancelled>>
           /\ \A c \in Cancellers : job'[c].children = job[c].children
  BY <1>6 DEF childVars
<1>7. \/ BeginRun \/ \E c \in Cancellers : Cancel(c)
      \/ \E c \in Cancellers, j \in Children : CancelChild(c, j)
      \/ \E k \in Children : RegisterChild(k) \/ UnregisterChild(k)
      \/ /\ UNCHANGED <<cancelEvents, childVars, childCancelled>>
         /\ \A c \in Cancellers : job'[c].children = job[c].children
  BY DEF Next, CancelStep, ToolStep, ReserveRun, ReleaseReservation, EndRun,
    DrainBegun, CancelStream, RequestDrain, CancelTool, RequestPause, ClearPause,
    RegisterStream, StreamCloses, UnregisterStream, PruneUnclosed,
    OpenToolContext, CheckCancelRequested, RegisterTool, RegisterCallback,
    StartTool, RegisterProcess, ClearProcess, CloseToolContext,
    vars, scopeVars, childVars, reachVars, Job
<1> QED
  BY <1>1, <1>2, <1>3, <1>4, <1>5, <1>6, <1>7

-----------------------------------------------------------------------------
(* Model streams.                                                          *)

\* A stream stays attached to the generation that is active, its request is
\* accounted for when it is detached, and a cancel reaches it.
LEMMA StreamsStep ==
  IInv /\ [Next]_vars => StreamsAttached' /\ CancelReachesStreams'
<1> SUFFICES ASSUME IInv, [Next]_vars
             PROVE  StreamsAttached' /\ CancelReachesStreams'
  OBVIOUS
<1> DEFINE Goal == StreamsAttached' /\ CancelReachesStreams'
<1> USE DEF IInv, TypeOK, NoGen, StreamsAttached, CancelReachesStreams
<1>1. CASE BeginRun
  <2>1. \A s \in Streams : streamScope'[s] = NoGen
    BY <1>1 DEF BeginRun, RetireStreams
  <2>2. \A s \in Streams : streamPhase'[s] = "open" => s \in unclosed'
    BY <1>1 DEF BeginRun, RetireStreams
  <2> QED
    BY <2>1, <2>2
<1>2. CASE EndRun
  <2>1. \A s \in Streams : streamScope'[s] = NoGen
    BY <1>2 DEF EndRun, RetireStreams
  <2>2. \A s \in Streams : streamPhase'[s] = "open" => s \in unclosed'
    BY <1>2 DEF EndRun, RetireStreams
  <2> QED
    BY <2>1, <2>2
<1>3. ASSUME NEW c \in Cancellers, Cancel(c) PROVE Goal
  <2>1. CASE CancelTarget \in cancelEvents
    BY <1>3, <2>1 DEF Cancel, streamVars
  <2>2. CASE CancelTarget \notin cancelEvents
    <3>1. \A s \in Streams : streamScope[s] = CancelTarget => s \in job'[c].streams
      BY <1>3, <2>2 DEF Cancel
    <3>2. \A d \in Cancellers : d # c => job'[d] = job[d]
      BY <1>3, <2>2 DEF Cancel
    <3>3. \A s \in Streams : s \notin job[c].streams
      BY <1>3 DEF Cancel, NoJob
    <3> QED
      BY <1>3, <2>2, <3>1, <3>2, <3>3 DEF Cancel, streamVars
  <2> QED
    BY <2>1, <2>2
<1>4. ASSUME NEW c \in Cancellers, NEW r \in Streams, CancelStream(c, r)
      PROVE  Goal
  BY <1>4 DEF CancelStream, Job, streamVars, scopeVars
<1>5. ASSUME NEW r \in Streams, RegisterStream(r) PROVE Goal
  BY <1>5 DEF RegisterStream, RefusesStreams, scopeVars, reachVars
<1>6. ASSUME NEW r \in Streams, StreamCloses(r) PROVE Goal
  BY <1>6 DEF StreamCloses, scopeVars, reachVars
<1>7. ASSUME NEW r \in Streams, UnregisterStream(r) PROVE Goal
  BY <1>7 DEF UnregisterStream, scopeVars, reachVars
<1>8. CASE PruneUnclosed
  BY <1>8 DEF PruneUnclosed, scopeVars, reachVars
<1>9. CASE /\ UNCHANGED <<active, cancelEvents, streamVars, streamCancelled>>
           /\ \A c \in Cancellers : job'[c].streams = job[c].streams
  BY <1>9 DEF streamVars
<1>10. \/ BeginRun \/ EndRun \/ PruneUnclosed
       \/ \E c \in Cancellers : Cancel(c)
       \/ \E c \in Cancellers, r \in Streams : CancelStream(c, r)
       \/ \E r \in Streams : RegisterStream(r) \/ StreamCloses(r) \/ UnregisterStream(r)
       \/ /\ UNCHANGED <<active, cancelEvents, streamVars, streamCancelled>>
          /\ \A c \in Cancellers : job'[c].streams = job[c].streams
  BY DEF Next, CancelStep, ToolStep, ReserveRun, ReleaseReservation, DrainBegun,
    CancelChild, RequestDrain, CancelTool, RequestPause, ClearPause,
    OpenToolContext, CheckCancelRequested, RegisterTool, RegisterCallback,
    StartTool, RegisterProcess, ClearProcess, CloseToolContext, RegisterChild,
    UnregisterChild, vars, scopeVars, streamVars, reachVars, Job
<1> QED
  BY <1>1, <1>2, <1>3, <1>4, <1>5, <1>6, <1>7, <1>8, <1>9, <1>10

-----------------------------------------------------------------------------
(* The drain request of the active run.                                    *)

\* The graph of a cancelled run is asked to drain, by cancel() for a run that
\* began and by begin_run for one cancelled before.
LEMMA DrainStep == IInv /\ [Next]_vars => CancelDrainsActiveRun'
<1> SUFFICES ASSUME IInv, [Next]_vars PROVE CancelDrainsActiveRun'
  OBVIOUS
<1> USE DEF IInv, TypeOK, Gens, NoGen, CancelDrainsActiveRun
<1>1. CASE BeginRun
  BY <1>1 DEF BeginRun, CancelledAtBegin, CancelCarried
<1>2. CASE DrainBegun
  BY <1>2 DEF DrainBegun, scopeVars
<1>3. CASE EndRun
  BY <1>3 DEF EndRun
<1>4. ASSUME NEW c \in Cancellers, Cancel(c) PROVE CancelDrainsActiveRun'
  <2>1. CASE CancelTarget \in cancelEvents
    BY <1>4, <2>1 DEF Cancel, drainVars
  <2>2. CASE CancelTarget \notin cancelEvents
    <3>1. CancelTarget = active /\ active # NoGen => job'[c].control = active
      BY <1>4, <2>2 DEF Cancel, GensDrawn
    <3>2. \A d \in Cancellers : d # c => job'[d] = job[d]
      BY <1>4, <2>2 DEF Cancel
    <3>3. job[c].control = NoGen
      BY <1>4 DEF Cancel, NoJob
    <3> QED
      BY <1>4, <2>2, <3>1, <3>2, <3>3 DEF Cancel, drainVars
  <2> QED
    BY <2>1, <2>2
<1>5. ASSUME NEW c \in Cancellers, RequestDrain(c) PROVE CancelDrainsActiveRun'
  BY <1>5 DEF RequestDrain, Job, scopeVars
<1>6. CASE /\ UNCHANGED <<active, cancelEvents, drainVars>>
           /\ \A c \in Cancellers : job'[c].control = job[c].control
  BY <1>6 DEF drainVars
<1>7. \/ BeginRun \/ DrainBegun \/ EndRun
      \/ \E c \in Cancellers : Cancel(c) \/ RequestDrain(c)
      \/ /\ UNCHANGED <<active, cancelEvents, drainVars>>
         /\ \A c \in Cancellers : job'[c].control = job[c].control
  BY SMTT(60) DEF Next, CancelStep, ToolStep, ReserveRun, ReleaseReservation,
    CancelChild, CancelStream, CancelTool, RequestPause, ClearPause,
    RegisterStream, StreamCloses, UnregisterStream, PruneUnclosed,
    OpenToolContext, CheckCancelRequested, RegisterTool, RegisterCallback,
    StartTool, RegisterProcess, ClearProcess, CloseToolContext, RegisterChild,
    UnregisterChild, vars, scopeVars, drainVars, Job
<1> QED
  BY <1>1, <1>2, <1>3, <1>4, <1>5, <1>6, <1>7

-----------------------------------------------------------------------------
(* Tool contexts.                                                          *)

ToolParts ==
  /\ ToolsListed
  /\ CallbackOnce
  /\ KilledIfCancelled
  /\ CancelReachesTools
  /\ CancelKillsProcesses

\* What the parts speak of, apart from the lists of running cancels.
ToolView == <<cancelEvents, toolVars, ctxVars>>

JobsKeepTools == \A c \in Cancellers : job'[c].tools = job[c].tools

\* request_cancel keeps the parts for whichever context it is called on, and
\* leaves its callback run and its process killed.
LEMMA RequestToolCancelKeeps ==
  ASSUME TypeOK, CallbackOnce, KilledIfCancelled,
         NEW r \in Tools, RequestToolCancel(r),
         UNCHANGED <<toolPhase, callbacks>>
  PROVE  /\ CallbackOnce' /\ KilledIfCancelled'
         /\ Armed(r) => calls'[r] = 1
         /\ HasProcess(r) => r \in killed'
         /\ \A t \in Tools : calls[t] <= calls'[t]
         /\ \A t \in Tools : t # r => calls'[t] = calls[t]
         /\ killed \subseteq killed'
<1> USE DEF TypeOK, RequestToolCancel, Armed, HasProcess
<1>1. CASE r \in callbacks /\ r \notin ctxCancelled
  <2>1. calls'[r] = 1 /\ \A t \in Tools : t # r => calls'[t] = calls[t]
    BY <1>1 DEF CallbackOnce
  <2> QED
    BY <1>1, <2>1 DEF CallbackOnce, KilledIfCancelled, Early
<1>2. CASE ~(r \in callbacks /\ r \notin ctxCancelled)
  <2>1. UNCHANGED calls
    BY <1>2
  <2> QED
    BY <1>2, <2>1 DEF CallbackOnce, KilledIfCancelled, Early
<1> QED
  BY <1>1, <1>2

\* A cancel and the registration of a tool meet in either order.
LEMMA ToolsStep == IInv /\ [Next]_vars => ToolParts'
<1> SUFFICES ASSUME IInv, [Next]_vars PROVE ToolParts'
  OBVIOUS
<1> USE DEF IInv, TypeOK, ToolParts
<1>1. ASSUME ToolsReturned, UNCHANGED <<toolPhase, toolEvent, callbacks, ctxVars>>
      PROVE  ToolParts'
  BY <1>1 DEF ToolsReturned, ctxVars, ToolsListed, CallbackOnce, Early, Armed,
    KilledIfCancelled, HasProcess, CancelReachesTools, CancelKillsProcesses
<1>2. ASSUME NEW c \in Cancellers, Cancel(c) PROVE ToolParts'
  <2>1. ToolsListed' /\ CallbackOnce' /\ KilledIfCancelled'
    BY <1>2 DEF Cancel, toolVars, ctxVars, ToolsListed, CallbackOnce, Early,
      Armed, KilledIfCancelled, HasProcess
  <2>2. CASE CancelTarget \in cancelEvents
    BY <1>2, <2>1, <2>2 DEF Cancel, toolVars, ctxVars, Armed, HasProcess,
      CancelReachesTools, CancelKillsProcesses
  <2>3. CASE CancelTarget \notin cancelEvents
    <3>1. \A t \in activeTools : t \in job'[c].tools
      BY <1>2, <2>3 DEF Cancel
    <3>2. \A t \in Tools : Armed(t) => t \in activeTools
      BY DEF ToolsListed
    <3>3. \A t \in Tools : HasProcess(t) => Armed(t)
      BY DEF HasProcess, Armed
    <3>4. UNCHANGED <<toolPhase, calls, killed, toolEvent>>
      BY <1>2 DEF Cancel, toolVars, ctxVars
    <3>5. CancelReachesTools' /\ CancelKillsProcesses'
      BY <3>1, <3>2, <3>3, <3>4 DEF CancelReachesTools, CancelKillsProcesses,
        HasProcess, Armed
    <3> QED
      BY <2>1, <3>5
  <2> QED
    BY <2>2, <2>3
<1>3. ASSUME NEW c \in Cancellers, NEW r \in Tools, CancelTool(c, r)
      PROVE  ToolParts'
  <2>1. UNCHANGED <<toolPhase, toolEvent, activeTools, callbacks, cancelEvents>>
    BY <1>3 DEF CancelTool, toolVars, scopeVars
  <2>2. /\ CallbackOnce' /\ KilledIfCancelled'
        /\ Armed(r) => calls'[r] = 1
        /\ HasProcess(r) => r \in killed'
        /\ \A t \in Tools : calls[t] <= calls'[t]
        /\ killed \subseteq killed'
    BY <1>3, <2>1, RequestToolCancelKeeps DEF CancelTool
  <2>3. \A t \in Tools, d \in Cancellers :
           t # r /\ t \in job[d].tools => t \in job'[d].tools
    BY <1>3 DEF CancelTool, Job
  <2>4. \A t \in Tools : calls[t] \in Nat /\ calls'[t] \in Nat
    BY TypeStep
  <2>5. ToolsListed'
    BY <2>1 DEF ToolsListed, Armed
  <2>6. CancelReachesTools'
    BY <2>1, <2>2, <2>3, <2>4 DEF CancelReachesTools, Armed
  <2>7. CancelKillsProcesses'
    BY <2>1, <2>2, <2>3 DEF CancelKillsProcesses, HasProcess
  <2> QED
    BY <2>2, <2>5, <2>6, <2>7
<1>4. ASSUME NEW r \in Tools, OpenToolContext(r) PROVE ToolParts'
  BY <1>4 DEF OpenToolContext, MoveTool, scopeVars, ctxVars, ToolsListed,
    CallbackOnce, Early, Armed, KilledIfCancelled, HasProcess,
    CancelReachesTools, CancelKillsProcesses
<1>5. ASSUME NEW r \in Tools, CheckCancelRequested(r) PROVE ToolParts'
  <2>1. r \notin callbacks
    BY <1>5 DEF CheckCancelRequested, MoveTool, CallbackOnce, Early
  <2>2. UNCHANGED calls /\ UNCHANGED killed
        /\ \A t \in Tools : t # r => (t \in ctxCancelled' <=> t \in ctxCancelled)
    BY <1>5, <2>1 DEF CheckCancelRequested, MoveTool, RequestToolCancel, ctxVars,
      HasProcess
  <2> QED
    BY <1>5, <2>1, <2>2 DEF CheckCancelRequested, MoveTool, scopeVars, ToolsListed,
      CallbackOnce, Early, Armed, KilledIfCancelled, HasProcess,
      CancelReachesTools, CancelKillsProcesses
<1>6. ASSUME NEW r \in Tools, RegisterTool(r) PROVE ToolParts'
  BY <1>6 DEF RegisterTool, MoveTool, scopeVars, ctxVars, ToolsListed,
    CallbackOnce, Early, Armed, KilledIfCancelled, HasProcess,
    CancelReachesTools, CancelKillsProcesses
<1>7. ASSUME NEW r \in Tools, RegisterCallback(r) PROVE ToolParts'
  BY <1>7 DEF RegisterCallback, MoveTool, ContextCancelled, scopeVars,
    ToolsListed, CallbackOnce, Early, Armed, KilledIfCancelled, HasProcess,
    CancelReachesTools, CancelKillsProcesses
<1>8. ASSUME NEW r \in Tools, StartTool(r) \/ ClearProcess(r) PROVE ToolParts'
  BY <1>8 DEF StartTool, ClearProcess, MoveTool, scopeVars, ctxVars, ToolsListed,
    CallbackOnce, Early, Armed, KilledIfCancelled, HasProcess,
    CancelReachesTools, CancelKillsProcesses
<1>9. ASSUME NEW r \in Tools, RegisterProcess(r) PROVE ToolParts'
  BY <1>9 DEF RegisterProcess, MoveTool, ContextCancelled, scopeVars,
    ToolsListed, CallbackOnce, Early, Armed, KilledIfCancelled, HasProcess,
    CancelReachesTools, CancelKillsProcesses
<1>10. ASSUME NEW r \in Tools, CloseToolContext(r) PROVE ToolParts'
  BY <1>10 DEF CloseToolContext, MoveTool, scopeVars, ctxVars, ToolsListed,
    CallbackOnce, Early, Armed, KilledIfCancelled, HasProcess,
    CancelReachesTools, CancelKillsProcesses
<1>11. CASE UNCHANGED ToolView /\ JobsKeepTools
  BY <1>11 DEF ToolView, JobsKeepTools, toolVars, ctxVars, ToolsListed,
    CallbackOnce, Early, Armed, KilledIfCancelled, HasProcess,
    CancelReachesTools, CancelKillsProcesses
<1>12. ASSUME \E c \in Cancellers : CancelStep(c) /\ ~\E r \in Tools : CancelTool(c, r)
       PROVE  UNCHANGED ToolView /\ JobsKeepTools
  BY <1>12 DEF CancelStep, CancelChild, CancelStream, RequestDrain, Job,
    scopeVars, ToolView, JobsKeepTools
<1>13. ASSUME BeginRun \/ EndRun
       PROVE  ToolsReturned /\ UNCHANGED <<toolPhase, toolEvent, callbacks, ctxVars>>
  BY <1>13 DEF BeginRun, EndRun
<1>14. ASSUME \/ ReserveRun \/ DrainBegun \/ RequestPause \/ ClearPause
              \/ PruneUnclosed \/ UNCHANGED vars
              \/ \E g \in Gens : ReleaseReservation(g)
              \/ \E r \in Streams : RegisterStream(r) \/ StreamCloses(r) \/ UnregisterStream(r)
              \/ \E k \in Children : RegisterChild(k) \/ UnregisterChild(k)
       PROVE  UNCHANGED ToolView /\ JobsKeepTools
  BY <1>14 DEF ReserveRun, ReleaseReservation, DrainBegun, RequestPause, ClearPause,
    RegisterStream, StreamCloses, UnregisterStream, PruneUnclosed, RegisterChild,
    UnregisterChild, vars, scopeVars, ToolView, JobsKeepTools
<1> QED
  BY <1>1, <1>2, <1>3, <1>4, <1>5, <1>6, <1>7, <1>8, <1>9, <1>10, <1>11,
    <1>12, <1>13, <1>14 DEF Next, ToolStep, CancelStep

-----------------------------------------------------------------------------
(* The theorems.                                                           *)

\* Every step of the controller preserves the inductive invariant.
LEMMA StepPreserves == IInv /\ [Next]_vars => IInv'
<1> SUFFICES ASSUME IInv, [Next]_vars PROVE IInv'
  OBVIOUS
<1>1. TypeOK'
  BY TypeStep DEF IInv
<1>2. GensDrawn' /\ ReservationIsFresh' /\ ChildGensBegan'
  BY GensStep DEF IInv
<1>3. StreamsAttached' /\ CancelReachesStreams'
  BY StreamsStep
<1>4. ToolParts'
  BY ToolsStep
<1> QED
  BY <1>1, <1>2, <1>3, <1>4, ChildrenStep, DrainStep DEF IInv, ToolParts

\* The inductive invariant holds in every reachable state.
THEOREM Invariance == Spec => []IInv
<1> QED
  BY InitEstablishes, StepPreserves, PTL DEF Spec

\* Type correctness of the run-scoped half of RunController.
THEOREM TypeCorrect == Spec => []TypeOK
<1>1. IInv => TypeOK
  BY DEF IInv
<1> QED
  BY <1>1, Invariance, PTL

\* cancel() reaches the tools, their processes, the model streams and the
\* children of the generation it cancels, however it interleaves with their
\* registration; and the graph of a cancelled run is asked to drain.
THEOREM EveryPartIsReached == Spec => []CancelReachesAll
<1>1. IInv => CancelReachesAll
  BY DEF IInv, CancelReachesAll
<1> QED
  BY <1>1, Invariance, PTL

\* The cancel callback of a tool runs at most once.
THEOREM CallbackRunsOnce == Spec => []CallbackAtMostOnce
<1>1. IInv => CallbackAtMostOnce
  BY DEF IInv, CallbackOnce, CallbackAtMostOnce
<1> QED
  BY <1>1, Invariance, PTL

\* No open request is forgotten when no run is active.
THEOREM NoStreamForgotten == Spec => []OpenStreamsAccounted
<1>1. IInv => OpenStreamsAccounted
  BY DEF IInv, StreamsAttached, OpenStreamsAccounted, NoGen
<1> QED
  BY <1>1, Invariance, PTL

\* A reservation belongs to one run that has not begun.
THEOREM ReservationNotReused == Spec => []ReservationIsFresh
<1>1. IInv => ReservationIsFresh
  BY DEF IInv
<1> QED
  BY <1>1, Invariance, PTL

=============================================================================

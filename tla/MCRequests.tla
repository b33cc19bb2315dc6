------------------------------ MODULE MCRequests ------------------------------
(* What carries a request and what ends it, for TLC: the queues of input     *)
(* (InputQueue), one model request (StreamBridge), a call with its retries   *)
(* (ModelCall), and leaving the program (CliLifecycle).  They share no       *)
(* state; a behaviour is one of the four.                                    *)
EXTENDS InputQueue

CONSTANTS Cancellers, MaxBuffered, MaxChunks, LoopMayStop,
          MaxRetries, Size,
          Tasks

VARIABLES which,
          state, cancelRequested, closed, queue, loop, ready, pump, cancelled, outcome, slots,
          sent, received, consumer, result, cancelling,
          pc, attempt, registered, stopped, runCancelled, sentNow, ended, gathered, shown,
          requests, answer,
          stage, phase, life, kind, told, running, entered, orphans, signalled, missed, tracked,
          rest, timeUp, captured, unfinished, term, hung, leaving, crashed, armed

Bridge == INSTANCE StreamBridge
Call == INSTANCE ModelCall WITH cancelled <- runCancelled, sent <- sentNow, result <- answer
Exit == INSTANCE CliLifecycle

ASSUME BridgeConstants == Bridge!BufferAssumption /\ Bridge!LoopAssumption
ASSUME CallConstants == Call!RetryAssumption

bridgeVars == <<state, cancelRequested, closed, queue, loop, ready, pump, cancelled, outcome,
                slots, sent, received, consumer, result, cancelling>>
callVars == <<pc, attempt, registered, stopped, runCancelled, sentNow, ended, gathered, shown,
              requests, answer>>
exitVars == <<stage, phase, life, kind, told, running, entered, orphans, signalled, missed,
              tracked, rest, timeUp, captured, unfinished, term, hung, leaving, crashed, armed>>
allVars == <<which, vars, bridgeVars, callVars, exitVars>>

MCInit ==
  /\ which \in {"queue", "bridge", "call", "exit"}
  /\ Init /\ Bridge!Init /\ Call!Init /\ Exit!Init

QueueStep == which = "queue" /\ Next /\ UNCHANGED <<which, bridgeVars, callVars, exitVars>>
BridgeStep == which = "bridge" /\ Bridge!Next /\ UNCHANGED <<which, vars, callVars, exitVars>>
CallStep == which = "call" /\ Call!Next /\ UNCHANGED <<which, vars, bridgeVars, exitVars>>
ExitStep == which = "exit" /\ Exit!Next /\ UNCHANGED <<which, vars, bridgeVars, callVars>>
MCNext == QueueStep \/ BridgeStep \/ CallStep \/ ExitStep

\* The fairness each of them states, for the behaviours that are about it.
BridgeFairness ==
  /\ WF_bridgeVars(which = "bridge" /\ Bridge!ConsumerStep)
  /\ WF_bridgeVars(which = "bridge" /\ (Bridge!Resume \/ Bridge!Abandon))
  /\ WF_bridgeVars(which = "bridge" /\ Bridge!TimeOut)
  /\ WF_bridgeVars(which = "bridge" /\ Bridge!LoopStep)
  /\ \A c \in Cancellers \cup {"consumer"} :
       WF_bridgeVars(which = "bridge" /\ Bridge!CancelStep(c))
CallFairness ==
  /\ WF_callVars(which = "call" /\ Call!Begin)
  /\ WF_callVars(which = "call" /\ Call!Register)
  /\ WF_callVars(which = "call" /\ Call!Stops)
  /\ WF_callVars(which = "call" /\ Call!Retry)
ExitFairness ==
  /\ WF_exitVars(which = "exit" /\ Exit!MainStep)
  /\ WF_exitVars(which = "exit" /\ Exit!Deadline)

MCSpec == MCInit /\ [][MCNext]_allVars /\ BridgeFairness /\ CallFairness /\ ExitFairness

\* The properties of the three, under their names there; the one that is not
\* taking part stays in its initial state.
ChunksArrive == Bridge!ChunksArrive
ClosedMeansReleased == Bridge!ClosedMeansReleased
CancelledRequestEnds == Bridge!CancelledRequestEnds
OneWholeAnswer == Call!OneWholeAnswer
CancelStopsCall == Call!CancelStopsCall
ExitAccounts == Exit!ExitAccounts
ExitEnds == Exit!ExitEnds
=============================================================================

------------------------------ MODULE Transcript ------------------------------
(***************************************************************************)
(* What the screen shows of a conversation and what the checkpoint keeps   *)
(* of it.  The runner streams a graph and emits events (agent/runner.py,   *)
(* agent/run_events.py, agent/stream.py); CliState applies them to blocks  *)
(* (agent/cli/state.py); messages_to_transcript and settle_restored_tools  *)
(* rebuild the blocks from the messages (agent/session.py).                *)
(*                                                                         *)
(* A text is the number of chunks it has, 0 is the empty text: the         *)
(* properties compare a text shown with the text saved.  Reasoning is      *)
(* streamed, cleared and rebuilt with the text and is not told apart from  *)
(* it.  Events are applied at once: they reach the UI in the order they    *)
(* are emitted, and what the user does in between commutes with them.      *)
(***************************************************************************)
EXTENDS Naturals, FiniteSets, Sequences, SequencesExt

CONSTANTS
  Calls,          \* identifiers of tool calls
  Humans, Tasks,  \* calls of request_human_input, and of task
  MaxText,        \* bound: chunks of a text
  MaxCalls,       \* bound: tool calls of one model call
  Budget          \* bound: messages, retries, failures and pauses

ASSUME CallsAssumption == Humans \subseteq Calls /\ Tasks \subseteq Calls \ Humans

VARIABLES
  saved,      \* messages of the checkpoint, pending writes of finished tools included
  interrupt,  \* its interrupt
  view,       \* CliState: blocks, active (index, 0 for none), running, compacting
  pc,         \* where the run is
  attempt,    \* model call: chunks sent by this attempt, chunks the callback has
  proposed,   \* tool calls of the model call that ended
  open,       \* tool calls of the superstep that have not finished
  ids,        \* _seen_tool_calls and _subagent_tool_ids
  queued,     \* steering and follow-up messages queued
  cancel,     \* cancel requested
  faithful,   \* nothing on screen came of a run that was cut short
  cleared,    \* /clear hid blocks
  budget

runVars == <<pc, attempt, proposed, open, ids, cancel>>
vars == <<saved, interrupt, view, runVars, queued, faithful, cleared, budget>>

Statuses == {"running", "waiting", "interrupted", "completed", "error", "cancelled"}
Block(kind, text, call, status) == [kind |-> kind, text |-> text, call |-> call, status |-> status]
UserBlock == Block("user", 0, "", "")
Said(text) == Block("assistant", text, "", "")
ToolOf(call, status) == Block("tool", 0, call, status)
Message(kind, text, calls, result) ==
  [kind |-> kind, text |-> text, calls |-> calls, result |-> result, timed |-> FALSE]
Human == Message("human", 0, <<>>, "")
NoInterrupt == [kind |-> "none", calls |-> {}]
Stopped == {"idle", "interrupted"}
Phases == Stopped \cup {"before", "compacting", "model", "ended", "gate", "resumed", "tools", "answer"}

TypeOK ==
  /\ saved \in Seq([kind : {"human", "ai", "tool"}, text : 0..MaxText, calls : Seq(Calls),
                    result : Statuses \cup {""}, timed : BOOLEAN])
  /\ interrupt \in [kind : {"none", "approval", "human", "pause"}, calls : SUBSET Calls]
  /\ view.blocks \in Seq([kind : {"user", "assistant", "tool", "summary", "error"},
                          text : 0..MaxText, call : Calls \cup {""}, status : Statuses \cup {""}])
  /\ view.active \in 0..Len(view.blocks) /\ {view.running, view.compacting} \subseteq BOOLEAN
  /\ pc \in Phases /\ attempt \in [sent : 0..MaxText, heard : 0..MaxText]
  /\ proposed \in Seq(Calls) /\ open \subseteq Calls
  /\ ids \in [seen : SUBSET Calls, tasks : SUBSET Tasks]
  /\ queued \in [steering : Nat, followUp : Nat]
  /\ {cancel, faithful, cleared} \subseteq BOOLEAN /\ budget \in 0..Budget

Init ==
  /\ saved = <<>> /\ interrupt = NoInterrupt
  /\ view = [blocks |-> <<>>, active |-> 0, running |-> FALSE, compacting |-> FALSE]
  /\ pc = "idle" /\ attempt = [sent |-> 0, heard |-> 0] /\ proposed = <<>> /\ open = {}
  /\ ids = [seen |-> {}, tasks |-> {}] /\ queued = [steering |-> 0, followUp |-> 0]
  /\ cancel = FALSE /\ faithful = TRUE /\ cleared = FALSE /\ budget = Budget

Spend == budget > 0 /\ budget' = budget - 1

-----------------------------------------------------------------------------
(* CliState.apply: what each event makes of the view. *)

Put(v, block) == [v EXCEPT !.blocks = Append(@, block)]
AddUser(v) == [Put(v, UserBlock) EXCEPT !.active = 0]
BlocksOf(v, call) == {i \in DOMAIN v.blocks : v.blocks[i].kind = "tool" /\ v.blocks[i].call = call}
HasRunning(v) == \E i \in DOMAIN v.blocks : v.blocks[i].status = "running"
SetStatus(v, call, status) ==
  [v EXCEPT !.blocks = [i \in DOMAIN @ |->
     IF i \in BlocksOf(v, call) THEN [@[i] EXCEPT !.status = status] ELSE @[i]]]

RunStarted(v) == [v EXCEPT !.running = TRUE, !.compacting = FALSE, !.active = 0]
AssistantEnds(v) == [v EXCEPT !.active = 0]
Delta(v, text) ==
  IF v.active # 0 THEN [v EXCEPT !.blocks[v.active].text = text]
  ELSE [Put(v, Said(text)) EXCEPT !.active = Len(v.blocks) + 1]

\* Mutant: a call that already has a block keeps its status.
ToolStartedOnce(v, call) ==
  [IF BlocksOf(v, call) = {} THEN Put(v, ToolOf(call, "running")) ELSE v EXCEPT !.active = 0]
ToolStarted(v, call) ==
  LET known == BlocksOf(v, call)
  IN  [IF known = {} THEN Put(v, ToolOf(call, "running"))
       ELSE IF \E i \in known : v.blocks[i].status \in {"completed", "error"} THEN v
       ELSE SetStatus(v, call, "running") EXCEPT !.active = 0]

\* Output of a call without a block goes to the block of another running tool.
ToolOutput(v, call) ==
  IF BlocksOf(v, call) = {} /\ ~HasRunning(v) THEN Put(v, ToolOf(call, "running")) ELSE v
ToolCompleted(v, call, result) ==
  IF BlocksOf(v, call) = {} THEN Put(v, ToolOf(call, result)) ELSE SetStatus(v, call, result)

SettleAll(v, from, to) ==
  [v EXCEPT !.blocks = [i \in DOMAIN @ |->
     IF @[i].status \in from THEN [@[i] EXCEPT !.status = to] ELSE @[i]]]
InteractionRequested(v, waiting) ==
  LET held == [v EXCEPT !.blocks = [i \in DOMAIN @ |->
                 IF @[i].status = "running" /\ @[i].call \in waiting
                 THEN [@[i] EXCEPT !.status = "waiting"] ELSE @[i]]]
  IN  [SettleAll(held, {"running"}, "interrupted") EXCEPT
         !.running = FALSE, !.compacting = FALSE, !.active = 0]

WithAnswer(v, text) ==
  IF text = 0 \/ \E i \in DOMAIN v.blocks : v.blocks[i] = Said(text) THEN v ELSE Put(v, Said(text))
RunCompleted(v, text) ==
  [WithAnswer(SettleAll(v, {"running", "waiting"}, "interrupted"), text) EXCEPT
     !.running = FALSE, !.compacting = FALSE, !.active = 0]
TurnCompleted(v, text) ==
  [Put(WithAnswer(v, text), Block("summary", 0, "", "")) EXCEPT !.active = 0]
\* A running task is shown cancelled, other running tools failed.
RunCancelled(v) ==
  LET ending == {i \in DOMAIN v.blocks : v.blocks[i].status = "running"}
      ended == [v EXCEPT !.blocks = [i \in DOMAIN @ |->
                  IF i \notin ending THEN @[i]
                  ELSE ToolOf(@[i].call, IF @[i].call \in Tasks THEN "cancelled" ELSE "error")]]
  IN  [Put(ended, Block("error", 0, "", "")) EXCEPT !.running = FALSE, !.compacting = FALSE]
RunFailed(v) ==
  [Put(SettleAll(v, {"running", "waiting"}, "error"), Block("error", 0, "", "")) EXCEPT
     !.running = FALSE, !.compacting = FALSE]

-----------------------------------------------------------------------------
(* messages_to_transcript and settle_restored_tools. *)

ResultOf(call) == {i \in DOMAIN saved : saved[i].kind = "tool" /\ saved[i].calls = <<call>>}
Called == UNION {ToSet(saved[i].calls) : i \in {j \in DOMAIN saved : saved[j].kind = "ai"}}
Unanswered == {c \in Called : ResultOf(c) = {}}
RestoredStatus(call) ==
  IF ResultOf(call) # {} THEN saved[CHOOSE i \in ResultOf(call) : TRUE].result
  ELSE IF call \in interrupt.calls THEN "waiting" ELSE "interrupted"

Restored ==
  LET Blocks(m) ==
        CASE m.kind = "human" -> <<UserBlock>>
          [] m.kind = "ai" ->
               (IF m.text > 0 THEN <<Said(m.text)>> ELSE <<>>)
               \o [i \in DOMAIN m.calls |-> ToolOf(m.calls[i], RestoredStatus(m.calls[i]))]
               \o (IF m.timed THEN <<Block("summary", 0, "", "")>> ELSE <<>>)
          [] OTHER -> <<>>
  IN  FlattenSeq([i \in DOMAIN saved |-> Blocks(saved[i])])

-----------------------------------------------------------------------------
(* The run: runner._stream and _stream_once with the middleware. *)

Save(messages) == saved' = saved \o messages
Waiting(kind) == queued[kind] > 0 /\ ~cancel
Take(kind) == queued' = [queued EXCEPT ![kind] = @ - 1]
LastAnswer == CHOOSE i \in DOMAIN saved :
  saved[i].kind = "ai" /\ \A j \in DOMAIN saved : saved[j].kind = "ai" => j <= i
Timed == [saved EXCEPT ![LastAnswer].timed = TRUE]

TasksSaved == Called \cap Tasks
Begin == cancel' = FALSE /\ ids' = [seen |-> {}, tasks |-> TasksSaved]

\* _start_run with a message, or _start_queued_run with one left in a queue.
StartRun ==
  /\ view' = RunStarted(AddUser(view)) /\ Save(<<Human>>) /\ pc' = "before" /\ Begin
  /\ UNCHANGED <<interrupt, attempt, proposed, open, faithful, cleared>>
Submit == pc = "idle" /\ queued = [steering |-> 0, followUp |-> 0] /\ Spend /\ StartRun /\ UNCHANGED queued
StartQueued ==
  \E kind \in DOMAIN queued : pc = "idle" /\ queued[kind] > 0 /\ Take(kind) /\ StartRun /\ UNCHANGED budget
Enqueue(kind) ==
  /\ pc # "idle" /\ Spend /\ queued' = [queued EXCEPT ![kind] = @ + 1]
  /\ UNCHANGED <<saved, interrupt, view, runVars, faithful, cleared>>

\* Steering's before_model and after_agent.
Steer ==
  /\ pc \in {"before", "answer"} /\ Waiting("steering") /\ Take("steering")
  /\ view' = AddUser(view) /\ Save(<<Human>>) /\ pc' = "before"
  /\ UNCHANGED <<interrupt, attempt, proposed, open, ids, cancel, faithful, cleared, budget>>

CompactionStarts ==
  /\ pc = "before" /\ ~cancel /\ pc' = "compacting" /\ view' = [view EXCEPT !.compacting = TRUE]
  /\ UNCHANGED <<saved, interrupt, attempt, proposed, open, ids, cancel, queued, faithful, cleared, budget>>
SummaryDone(v) == [v EXCEPT !.compacting = FALSE]
CompactionEnds ==
  /\ pc = "compacting" /\ pc' = "before" /\ view' = SummaryDone(view)
  /\ UNCHANGED <<saved, interrupt, attempt, proposed, open, ids, cancel, queued, faithful, cleared, budget>>

ModelStarts ==
  /\ pc = "before" /\ ~cancel /\ pc' = "model" /\ view' = AssistantEnds(view)
  /\ attempt' = [sent |-> 0, heard |-> 0]
  /\ UNCHANGED <<saved, interrupt, proposed, open, ids, cancel, queued, faithful, cleared, budget>>
NewToken ==
  /\ pc = "model" /\ attempt.heard < MaxText
  /\ attempt' = [sent |-> attempt.sent + 1, heard |-> attempt.heard + 1]
  /\ view' = Delta(view, attempt'.heard)
  /\ UNCHANGED <<saved, interrupt, pc, proposed, open, ids, cancel, queued, faithful, cleared, budget>>
\* Mutant: the text heard of the failed attempt is kept.
AfterRetryKeeps(heard) == heard
AfterRetry(heard) == 0
Retry ==
  /\ pc = "model" /\ Spend
  /\ attempt' = [sent |-> 0, heard |-> AfterRetry(attempt.heard)] /\ view' = Delta(view, attempt'.heard)
  /\ UNCHANGED <<saved, interrupt, pc, proposed, open, ids, cancel, queued, faithful, cleared>>

NewCalls == {c \in Calls : c \notin Called /\ c \notin ids.seen}
Proposals == {SetToSeq(calls) : calls \in {asked \in SUBSET NewCalls : Cardinality(asked) <= MaxCalls}}
ModelEnds ==
  /\ pc = "model" /\ pc' = "ended" /\ view' = AssistantEnds(view)
  /\ proposed' \in Proposals /\ (attempt.sent = 0 => proposed' # <<>>)
  /\ UNCHANGED <<saved, interrupt, attempt, open, ids, cancel, queued, faithful, cleared, budget>>

NoAttempt == [sent |-> 0, heard |-> 0]
Used == attempt' = NoAttempt /\ proposed' = <<>>
Started(v, calls) == FoldLeft(ToolStarted, v, calls)
Seen(calls) == [seen |-> ids.seen \cup ToSet(calls), tasks |-> ids.tasks \cup (ToSet(calls) \cap Tasks)]
\* Steering's wrap_model_call drops the calls and plans again; or the answer is
\* committed and its update starts the calls.
CommitSteered ==
  /\ pc = "ended" /\ Waiting("steering") /\ Take("steering") /\ pc' = "before"
  /\ view' = AddUser(view)
  /\ Save(<<Message("ai", attempt.sent, <<>>, ""), Human>>) /\ Used
  /\ UNCHANGED <<interrupt, open, ids, cancel, faithful, cleared, budget>>
Commit ==
  /\ pc = "ended" /\ ~Waiting("steering")
  /\ Save(<<Message("ai", attempt.sent, proposed, "")>>)
  /\ view' = Started(view, proposed) /\ ids' = Seen(proposed)
  /\ pc' = IF proposed = <<>> THEN "answer" ELSE "gate"
  /\ open' = ToSet(proposed) /\ Used
  /\ UNCHANGED <<interrupt, cancel, queued, faithful, cleared, budget>>

Interrupt(kind, calls) ==
  /\ interrupt' = [kind |-> kind, calls |-> calls] /\ pc' = "interrupted"
  /\ view' = InteractionRequested(view, calls) /\ Begin
  /\ UNCHANGED <<saved, attempt, proposed, open, queued, faithful, cleared>>
Pause == pc = "before" /\ ~cancel /\ Spend /\ Interrupt("pause", {})
AskApproval ==
  \E asked \in SUBSET (open \ Humans) \ {{}} :
    pc = "gate" /\ ~cancel /\ Interrupt("approval", asked) /\ UNCHANGED budget
AskHuman ==
  /\ pc = "tools" /\ open # {} /\ open \subseteq Humans /\ interrupt = NoInterrupt
  /\ Interrupt("human", open) /\ UNCHANGED budget
NoApproval ==
  /\ pc = "gate" /\ ~cancel /\ pc' = "tools"
  /\ UNCHANGED <<saved, interrupt, view, attempt, proposed, open, ids, cancel, queued, faithful, cleared, budget>>

\* continue_run, decide_tools, submit_human_input.
Resume ==
  /\ pc = "interrupted" /\ view' = RunStarted(view) /\ Begin
  /\ pc' = IF interrupt.kind = "human" THEN "tools" ELSE "resumed"
  /\ open' = IF interrupt.kind = "human" THEN interrupt.calls ELSE open
  /\ UNCHANGED <<saved, interrupt, attempt, proposed, queued, faithful, cleared, budget>>
ResumedPause ==
  /\ pc = "resumed" /\ ~cancel /\ interrupt.kind = "pause" /\ interrupt' = NoInterrupt /\ pc' = "before"
  /\ UNCHANGED <<saved, view, attempt, proposed, open, ids, cancel, queued, faithful, cleared, budget>>
\* The approval hook replaces the answer, which starts its calls again, and
\* adds a failed result for each call refused.
Decided(refused) ==
  /\ pc = "resumed" /\ ~cancel /\ interrupt.kind = "approval" /\ interrupt' = NoInterrupt
  /\ Save(SetToSeq({Message("tool", 0, <<c>>, "error") : c \in refused}))
  /\ ids' = Seen(SetToSeq(open))
  /\ view' = LET again == Started(view, SetToSeq(open))
             IN  [again EXCEPT !.blocks = [i \in DOMAIN @ |->
                    IF @[i].call \in refused THEN [@[i] EXCEPT !.status = "error"] ELSE @[i]]]
  /\ open' = open \ refused /\ pc' = IF open' = {} THEN "before" ELSE "tools"
  /\ UNCHANGED <<attempt, proposed, cancel, queued, faithful, cleared, budget>>
Decide == \E refused \in SUBSET interrupt.calls : Decided(refused)

ToolWrites ==
  \E c \in open \ Humans : /\ pc = "tools" /\ BlocksOf(view, c) = {} /\ view' = ToolOutput(view, c)
     /\ UNCHANGED <<saved, interrupt, runVars, queued, faithful, cleared, budget>>
\* The result of a task is an unnamed message: only its id tells a cancelled one.
Results(c) == {"completed", "error"} \cup (IF c \in Tasks THEN {"cancelled"} ELSE {})
ShownResult(c, result) == IF result = "cancelled" /\ c \notin ids.tasks THEN "completed" ELSE result
ToolFinishes(c, result) ==
  /\ pc = "tools" /\ c \in open /\ (c \in Humans => interrupt.kind = "human")
  /\ Save(<<Message("tool", 0, <<c>>, result)>>)
  /\ view' = ToolCompleted(view, c, ShownResult(c, result))
  /\ open' = open \ {c} /\ pc' = IF open' = {} THEN "before" ELSE "tools"
  /\ interrupt' = IF c \in Humans THEN NoInterrupt ELSE interrupt
  /\ UNCHANGED <<attempt, proposed, ids, cancel, queued, faithful, cleared, budget>>
Finish == \E c \in open : \E result \in Results(c) : ToolFinishes(c, result)

\* A turn ends: the next queued message starts another in the same run, or the run completes.
NextTurn ==
  \E kind \in DOMAIN queued :
    /\ pc = "answer" /\ Waiting(kind) /\ (kind = "followUp" => ~Waiting("steering")) /\ Take(kind)
    /\ view' = TurnCompleted(AddUser(view), saved[LastAnswer].text)
    /\ saved' = Append(Timed, Human) /\ pc' = "before" /\ Begin
    /\ UNCHANGED <<interrupt, attempt, proposed, open, faithful, cleared, budget>>
Complete ==
  /\ pc = "answer" /\ ~Waiting("steering") /\ ~Waiting("followUp")
  /\ view' = TurnCompleted(RunCompleted(view, saved[LastAnswer].text), saved[LastAnswer].text)
  /\ saved' = Timed /\ pc' = "idle" /\ Begin
  /\ UNCHANGED <<interrupt, attempt, proposed, open, queued, faithful, cleared, budget>>

-----------------------------------------------------------------------------
(* Cancel, failure, restart, /clear. *)

RequestCancel ==
  /\ pc \notin Stopped /\ ~cancel /\ Spend /\ cancel' = TRUE
  /\ queued' = [steering |-> 0, followUp |-> 0]
  /\ UNCHANGED <<saved, interrupt, view, pc, attempt, proposed, open, ids, faithful, cleared>>
Abandon == IF interrupt = NoInterrupt THEN "idle" ELSE "interrupted"
\* A callback hears of the summary's error before the run ends.
CutShort(v) ==
  /\ view' = v /\ pc' = Abandon /\ faithful' = FALSE /\ Begin /\ Used
  /\ open' = IF interrupt.kind = "approval" THEN open ELSE {}
  /\ UNCHANGED <<saved, interrupt, queued, cleared>>
Cancelled ==
  /\ cancel /\ pc \in {"before", "compacting", "model", "gate", "resumed"}
  /\ CutShort(RunCancelled(SummaryDone(view))) /\ UNCHANGED budget
Fail ==
  /\ ~cancel /\ pc \in {"before", "compacting", "model", "gate", "resumed", "tools"} /\ Spend
  /\ CutShort(RunFailed(SummaryDone(view)))

\* The session is loaded again: after a switch, or in a process started after a crash.
Load ==
  /\ view' = [blocks |-> Restored, active |-> 0, running |-> FALSE, compacting |-> FALSE]
  /\ pc' = Abandon /\ cleared' = FALSE /\ Begin /\ Used
  /\ queued' = [steering |-> 0, followUp |-> 0]
  /\ faithful' = (interrupt # NoInterrupt \/ Unanswered = {})
  /\ open' = IF interrupt.kind = "approval" THEN open ELSE {}
  /\ UNCHANGED <<saved, interrupt>>
Reload == pc \in Stopped /\ Load /\ UNCHANGED budget
Crash == pc \notin Stopped /\ Spend /\ Load

Clear ==
  /\ view.blocks # <<>> /\ Spend /\ cleared' = TRUE
  /\ view' = [view EXCEPT !.blocks = <<>>, !.active = 0]
  /\ UNCHANGED <<saved, interrupt, runVars, queued, faithful>>

Next ==
  \/ Submit \/ StartQueued \/ (\E kind \in DOMAIN queued : Enqueue(kind)) \/ Steer
  \/ CompactionStarts \/ CompactionEnds \/ ModelStarts \/ NewToken \/ Retry \/ ModelEnds
  \/ CommitSteered \/ Commit \/ Pause \/ AskApproval \/ AskHuman \/ NoApproval
  \/ Resume \/ ResumedPause \/ Decide \/ ToolWrites \/ Finish \/ NextTurn \/ Complete
  \/ RequestCancel \/ Cancelled \/ Fail \/ Reload \/ Crash \/ Clear

Spec == Init /\ [][Next]_vars

-----------------------------------------------------------------------------

\* No tool card spins, and none is counted as a running sub-agent, once the run
\* has ended in any way, nor after a restart.
SettledWhenStopped == pc \in Stopped => ~HasRunning(view) /\ ~view.running

\* A tool is shown waiting for the user only while the checkpoint waits for an
\* answer about that very call.
WaitingIsAsked ==
  \A i \in DOMAIN view.blocks : view.blocks[i].status = "waiting" => view.blocks[i].call \in interrupt.calls

Comparable(blocks, kinds) ==
  SelectSeq(blocks, LAMBDA b : b.kind \in kinds /\ ~(b.kind = "assistant" /\ b.text = 0))
Faithful == pc \in Stopped /\ faithful /\ ~cleared

\* After a run that ended by itself or waits for the user, leaving the session
\* and coming back shows what was on the screen: the same messages, with the
\* text of the attempt that succeeded only, and the same tools in the same state.
RestoredAsShown ==
  LET kinds == {"user", "assistant", "tool"}
  IN  Faithful => Comparable(view.blocks, kinds) = Comparable(Restored, kinds)

\* Every turn that ended has its line of elapsed time, on screen and restored.
SummariesKept ==
  Faithful => Len(Comparable(view.blocks, {"summary"})) = Len(Comparable(Restored, {"summary"}))

\* "Compacting" is shown only while a summary is being made.
CompactingMeansSummary == view.compacting => pc = "compacting"

\* The line of a turn stands where a restored transcript has it: after its answer.
SummariesInPlace ==
  LET kinds == {"user", "assistant", "tool", "summary"}
  IN  Faithful => Comparable(view.blocks, kinds) = Comparable(Restored, kinds)

\* A tool is shown as running or waiting only while a run, or the user, is
\* still to settle it; the same of a compaction.
TranscriptSettled == SettledWhenStopped /\ WaitingIsAsked /\ CompactingMeansSummary

\* What is shown is what a reload of the session shows.
ReloadShowsTheSame == RestoredAsShown /\ SummariesKept
=============================================================================

------------------------------- MODULE Prompts -------------------------------
(***************************************************************************)
(* The dialogs of the terminal UI and the editor under them                *)
(* (agent/cli/app.py, session_controller.py, commands.py,                  *)
(* input_actions.py): approvals, questions and pauses of a run, the ALLOW  *)
(* confirmation, pickers, and where the user's text is meanwhile.  Key     *)
(* handlers and callbacks run one at a time on the UI loop; runs, skill    *)
(* catalogs, compaction and sessions are worked on by other threads.       *)
(*                                                                         *)
(* A text is a token; editor, stash and queue are sets of them (their      *)
(* order is InputQueue's subject).  The MCP wizard and the tool tables     *)
(* are not here.                                                           *)
(***************************************************************************)
EXTENDS Naturals, FiniteSets

CONSTANTS
  Texts,     \* what the user types
  Workers,   \* names for the workers alive at once
  Hasty,     \* the user acts between the last event of a run and its result, opens an
             \* approval or a picker while something else runs, or takes the queue
             \* back inside an approval or a skill picker
  MayRaise,  \* a run may end by an exception
  NoDraft

HastyAssumption == {Hasty, MayRaise} \subseteq BOOLEAN
WorkersAssumption == Workers # {}
DraftAssumption == NoDraft \notin SUBSET Texts

VARIABLES
  ui,        \* the fields of CliApplication and CliState
  typed, spent, \* texts typed; texts sent, in the history, or cleared with the editor
  queue,     \* steering and follow-up
  run, epoch, \* the workers alive; that of _run_task
  interrupt, \* of the session's checkpoint
  mode, pendingMode, \* permission mode, in force and requested
  switch,    \* the session controller: none, loading, waiting
  compacting, skillLoading

runVars  == <<run, epoch, interrupt>>
modeVars == <<mode, pendingMode>>
bgVars   == <<switch, compacting, skillLoading>>
vars == <<ui, typed, spent, queue, runVars, modeVars, bgVars>>

Interrupts == {"approval", "human", "pause"}
Pickers == {"source", "model", "effort", "permission", "sandbox", "resume", "skill"}
Dialogs == Interrupts \cup Pickers \cup {"none", "confirm"}
Kinds == Interrupts \cup {"message", "boundary"}
Outcomes == Interrupts \cup {"none", "completed", "cancelled", "failed", "raised"}
Draft == (SUBSET Texts) \cup {NoDraft}

TypeOK ==
  /\ ui \in [editor : SUBSET Texts, stash : Draft, skill : Draft, dialog : Dialogs,
             deferred : BOOLEAN, running : BOOLEAN, cancelSent : BOOLEAN]
  /\ typed \subseteq Texts /\ spent \subseteq typed /\ queue \subseteq typed
  /\ run \in [Workers -> [stage : {"none", "starting", "graph", "ended", "told"},
                        kind : Kinds, outcome : Outcomes, cancelled : BOOLEAN]]
  /\ epoch \in Workers
  /\ interrupt \in Interrupts \cup {"none", "boundary"}
  /\ mode \in {"ask", "allow"} /\ pendingMode \in {"none", "ask", "allow"}
  /\ switch \in {"none", "loading", "waiting"}
  /\ {compacting, skillLoading} \subseteq BOOLEAN

NoRun == [stage |-> "none", kind |-> "message", outcome |-> "none", cancelled |-> FALSE]
Init ==
  /\ ui = [editor |-> {}, stash |-> NoDraft, skill |-> NoDraft, dialog |-> "none",
           deferred |-> FALSE, running |-> FALSE, cancelSent |-> FALSE]
  /\ typed = {} /\ spent = {} /\ queue = {}
  /\ run = [w \in Workers |-> NoRun] /\ epoch = (CHOOSE w \in Workers : TRUE) /\ interrupt = "none"
  /\ mode = "ask" /\ pendingMode = "none"
  /\ switch = "none" /\ compacting = FALSE /\ skillLoading = FALSE

Alive(w) == run[w].stage # "none"
Calm == switch = "none" /\ ~\E w \in Workers : Alive(w)
\* Not between a run's interrupt or last event and its result, nor while a session loads.
Patient ==
  \/ Hasty \/ Calm
  \/ interrupt = "none" /\ switch # "loading" /\ ~\E w \in Workers : run[w].stage = "told"
\* The operation lock.
Busy == compacting \/ switch # "none" \/ \E w \in Workers : run[w].stage = "graph"
Shown(d) == [ui EXCEPT !.dialog = d]

-----------------------------------------------------------------------------
(* _start_run and _start_queued_run, from a state u of the UI. *)

Started(u) == [u EXCEPT !.running = TRUE, !.cancelSent = FALSE]
StartIn(w, kind) ==
  /\ run' = [run EXCEPT ![w] = [NoRun EXCEPT !.stage = "starting", !.kind = kind]]
  /\ epoch' = w

Start(u, kind, free) ==
  /\ ui' = Started(u)
  /\ \E w \in free : StartIn(w, kind)
Free == {w \in Workers : ~Alive(w)}

\* rest: the steps when nothing is started; freed: the worker that is ending.
StartQueued(u, waiting, free, rest) ==
  IF u.dialog = "none" /\ interrupt = "none" /\ waiting # {}
  THEN \E t \in waiting :
         /\ Start(u, "message", free)
         /\ queue' = waiting \ {t} /\ spent' = spent \cup {t}
  ELSE ui' = u /\ queue' = waiting /\ UNCHANGED spent /\ rest

-----------------------------------------------------------------------------
(* _reopen_pending_interaction, _dismiss_pending_interrupt. *)

WithApproval(u) ==
  IF u.dialog = "none" /\ ~u.deferred /\ u.stash = NoDraft
  THEN [u EXCEPT !.dialog = "approval", !.stash = u.editor, !.editor = {}]
  ELSE [u EXCEPT !.dialog = "approval"]

Reopens == interrupt # "none"
\* none: what the UI looks like when nothing waits.
Reopened(u, none, free, rest) ==
  IF interrupt = "boundary" THEN Start(u, "boundary", free)
  ELSE /\ ui' = CASE interrupt = "none"     -> none
                  [] interrupt = "approval" -> WithApproval(u)
                  [] OTHER                  -> [u EXCEPT !.dialog = interrupt]
       /\ rest

\* Mutant: what is in the editor stays.
RestoredKeeps(u) == IF u.stash = NoDraft THEN u ELSE [u EXCEPT !.stash = NoDraft]
\* _restore_approval_draft
Restored(u) ==
  IF u.stash = NoDraft THEN u ELSE [u EXCEPT !.editor = u.stash, !.stash = NoDraft]

Dismissed(u) ==
  [u EXCEPT !.dialog = IF u.deferred THEN "confirm" ELSE "none",
            !.deferred = FALSE, !.running = FALSE]

\* _restore_queued_to_editor
TakenBack(u) == [u EXCEPT !.editor = @ \cup queue]

\* reset_session_view: the approval's draft is not looked at.
ResetView(u) == [u EXCEPT !.dialog = "none", !.deferred = FALSE, !.skill = NoDraft]

-----------------------------------------------------------------------------
(* The editor. *)

\* What was sent may be typed again.
Type(t) ==
  /\ ui.dialog = "none" /\ (t \in typed => t \in spent)
  /\ typed' = typed \cup {t} /\ spent' = spent \ {t}
  /\ ui' = [ui EXCEPT !.editor = @ \cup {t}]
  /\ UNCHANGED <<queue, runVars, modeVars, bgVars>>

\* _submit_buffer without a dialog.
Submit ==
  /\ ui.dialog = "none" /\ ui.editor # {} /\ switch # "waiting" /\ ~compacting
  /\ Patient
  /\ LET sent == [ui EXCEPT !.editor = {}] IN
     IF ui.running \/ queue # {} \/ interrupt # "none"
     THEN IF ~ui.running /\ ~Alive(epoch)
          THEN StartQueued(sent, queue \cup ui.editor, Free, UNCHANGED <<run, epoch>>)
          ELSE ui' = sent /\ queue' = queue \cup ui.editor /\ UNCHANGED <<run, epoch, spent>>
     ELSE /\ Start(sent, "message", Free)
          /\ spent' = spent \cup ui.editor /\ UNCHANGED queue
  /\ UNCHANGED <<typed, interrupt, modeVars, bgVars>>

\* Alt+Up
Dequeue ==
  /\ queue # {}
  /\ Hasty \/ ui.dialog \notin {"approval", "skill"}
  /\ ui' = TakenBack(ui) /\ queue' = {}
  /\ UNCHANGED <<typed, spent, runVars, modeVars, bgVars>>

-----------------------------------------------------------------------------
(* Esc and Ctrl+C: InputActionRouter, and apply_input_action. *)

CancelWait ==
  /\ switch = "waiting"
  /\ switch' = "none" /\ ui' = Shown("resume")  \* resume() after the wait
  /\ UNCHANGED <<typed, spent, queue, runVars, modeVars, compacting, skillLoading>>

CancelRun ==
  /\ switch # "waiting" /\ ui.dialog = "none" /\ ~compacting
  /\ ui.running /\ ~ui.cancelSent
  /\ ui' = [TakenBack(ui) EXCEPT !.cancelSent = TRUE] /\ queue' = {}
  /\ run' = [run EXCEPT ![epoch].cancelled = @ \/ Alive(epoch)]
  /\ UNCHANGED <<typed, spent, epoch, interrupt, modeVars, bgVars>>

ClearInput ==
  /\ ui.dialog = "none" /\ ui.editor # {}
  /\ ui' = [ui EXCEPT !.editor = {}] /\ spent' = spent \cup ui.editor
  /\ UNCHANGED <<typed, queue, runVars, modeVars, bgVars>>

\* _finish_interaction(cancelled=True), of a dialog of the run.
EscInterrupt ==
  /\ ui.dialog \in Interrupts
  /\ ui' = Dismissed(IF ui.dialog = "approval" THEN Restored(ui) ELSE ui)
  /\ UNCHANGED <<typed, spent, queue, runVars, modeVars, bgVars>>

\* Of a picker: back to the one before it, where there is one.
Back(d) == CASE d = "effort" -> {"model"} [] d = "model" -> {"source", "none"} [] OTHER -> {"none"}
EscPicker ==
  /\ ui.dialog \in Pickers
  /\ \E d \in Back(ui.dialog) :
       ui' = [ui EXCEPT !.dialog = d, !.skill = IF ui.dialog = "skill" THEN NoDraft ELSE @,
                        !.editor = IF ui.dialog = "skill"
                                   THEN IF ui.skill = NoDraft THEN {} ELSE ui.skill ELSE @]
  /\ UNCHANGED <<typed, spent, queue, runVars, modeVars, bgVars>>

EscConfirm ==
  /\ ui.dialog = "confirm" /\ Patient
  /\ Reopened(Shown("none"), Shown("none"), Free, UNCHANGED <<run, epoch>>)
  /\ UNCHANGED <<typed, spent, queue, interrupt, modeVars, bgVars>>

-----------------------------------------------------------------------------
(* Enter in a dialog: accept, _reset_submitted_buffer, _finish_interaction. *)

\* What the editor held goes to its history.
Accepted == [ui EXCEPT !.editor = {}, !.dialog = "none"]
ToHistory == spent' = spent \cup ui.editor

EnterInterrupt ==
  /\ ui.dialog \in Interrupts
  /\ Start(IF ui.dialog = "approval" THEN Restored(Accepted) ELSE Accepted, ui.dialog, Free)
  /\ ToHistory
  /\ UNCHANGED <<typed, queue, interrupt, modeVars, bgVars>>

StayPaused ==
  /\ ui.dialog = "pause"
  /\ ui' = Dismissed([ui EXCEPT !.editor = {}]) /\ ToHistory
  /\ UNCHANGED <<typed, queue, runVars, modeVars, bgVars>>

\* A text answer of a question that has more of them, or is refused; what the editor
\* held when the question opened goes to the history with it.
AnswerField ==
  /\ ui.dialog = "human"
  /\ ui' = [ui EXCEPT !.editor = {}] /\ ToHistory
  /\ UNCHANGED <<typed, queue, runVars, modeVars, bgVars>>

\* Shift+Tab to the question before, or out of "Other", and Esc out of "Other": the editor
\* is emptied, of a draft too that was there before the question; the history gets nothing.
ClearAnswer ==
  /\ ui.dialog = "human"
  /\ ui' = [ui EXCEPT !.editor = {}] /\ spent' = spent \cup ui.editor
  /\ UNCHANGED <<typed, queue, runVars, modeVars, bgVars>>

\* The next picker; the choice of an effort or of a sandbox mode is RunnerConfig's subject.
Onward(d) == CASE d = "source" -> "model" [] d = "model" -> "effort" [] OTHER -> "none"
EnterPicker ==
  /\ ui.dialog \in {"source", "model", "effort", "sandbox"}
  /\ ui' = [Accepted EXCEPT !.dialog = Onward(ui.dialog)] /\ ToHistory
  /\ UNCHANGED <<typed, queue, runVars, modeVars, bgVars>>

\* The label of the skill is put into the draft.
EnterSkill ==
  /\ ui.dialog = "skill"
  /\ ui' = [ui EXCEPT !.dialog = "none", !.skill = NoDraft,
                      !.editor = IF ui.skill = NoDraft THEN {} ELSE ui.skill]
  /\ UNCHANGED <<typed, spent, queue, runVars, modeVars, bgVars>>

-----------------------------------------------------------------------------
(* Permission modes. *)

\* A command is typed into an empty editor.
Command ==
  /\ ui.dialog = "none" /\ ui.editor = {} /\ ~compacting /\ switch # "waiting"
  /\ Patient

\* runner.request_permission_change, and apply_pending_config_if_idle.
Requested(m) ==
  IF m = mode THEN UNCHANGED mode /\ pendingMode' = "none"
  ELSE IF ~ui.running /\ interrupt = "none" /\ ~Busy
       THEN mode' = m /\ pendingMode' = "none"
  ELSE pendingMode' = m /\ UNCHANGED mode

NeedsConfirm(m) == m = "allow" /\ mode # "allow" /\ pendingMode # "allow"

\* /permission ask|allow
PermissionCommand(m) ==
  /\ Command
  /\ IF NeedsConfirm(m) THEN ui' = Shown("confirm") /\ UNCHANGED modeVars
     ELSE Requested(m) /\ UNCHANGED ui
  /\ UNCHANGED <<typed, spent, queue, runVars, bgVars>>

EnterPermission(m) ==
  /\ ui.dialog = "permission"
  /\ IF NeedsConfirm(m) THEN ui' = [Accepted EXCEPT !.dialog = "confirm"] /\ UNCHANGED modeVars
     ELSE Requested(m) /\ ui' = Accepted
  /\ ToHistory
  /\ UNCHANGED <<typed, queue, runVars, bgVars>>

\* ALLOW is typed.
ConfirmAllow ==
  /\ ui.dialog = "confirm" /\ Patient /\ Requested("allow")
  /\ Reopened(Accepted, Accepted, Free, UNCHANGED <<run, epoch>>)
  /\ ToHistory
  /\ UNCHANGED <<typed, queue, interrupt, bgVars>>

\* Something else is.
RefuseAllow ==
  /\ ui.dialog = "confirm" /\ Patient
  /\ Reopened(Accepted, Accepted, Free, UNCHANGED <<run, epoch>>)
  /\ ToHistory
  /\ UNCHANGED <<typed, queue, interrupt, modeVars, bgVars>>

-----------------------------------------------------------------------------
(* F2: the ALLOW confirmation gives way, and comes back. *)

Behind(u) ==
  IF u.dialog = "confirm" THEN [u EXCEPT !.dialog = "none", !.deferred = TRUE] ELSE u

F2 ==
  /\ Reopens /\ ui.dialog # interrupt
  /\ Hasty \/ (Calm /\ ui.dialog # "skill")
  /\ Reopened(Behind(ui), ui, Free, UNCHANGED <<run, epoch>>)
  /\ UNCHANGED <<typed, spent, queue, interrupt, modeVars, bgVars>>

-----------------------------------------------------------------------------
(* Other commands. *)

\* /model, /permission and /sandbox without an argument.
OpenPicker(d) ==
  /\ Command /\ ~ui.running
  /\ ui' = Shown(d)
  /\ UNCHANGED <<typed, spent, queue, runVars, modeVars, bgVars>>

\* /skill waits for the catalog.
Skill ==
  /\ Command /\ ~skillLoading
  /\ Hasty \/ (Calm /\ interrupt = "none")
  /\ skillLoading' = TRUE
  /\ UNCHANGED <<ui, typed, spent, queue, runVars, modeVars, switch, compacting>>

SkillsRead ==
  /\ skillLoading /\ skillLoading' = FALSE
  /\ ui' = IF switch # "waiting" /\ ui.dialog = "none" /\ ~compacting /\ (Hasty \/ Calm)
           THEN [ui EXCEPT !.dialog = "skill", !.skill = ui.editor, !.editor = {}] ELSE ui
  /\ UNCHANGED <<typed, spent, queue, runVars, modeVars, switch, compacting>>

Compact ==
  /\ Command /\ ~ui.running
  /\ compacting' = TRUE /\ ui' = [ui EXCEPT !.running = TRUE]
  /\ UNCHANGED <<typed, spent, queue, runVars, modeVars, switch, skillLoading>>

Compacted ==
  /\ compacting /\ compacting' = FALSE /\ ui' = [ui EXCEPT !.running = FALSE]
  /\ UNCHANGED <<typed, spent, queue, runVars, modeVars, switch, skillLoading>>

-----------------------------------------------------------------------------
(* Sessions. *)

NewSession ==
  /\ Command /\ ~ui.running
  /\ queue' = {}
  /\ IF Busy THEN ui' = TakenBack(ui) /\ UNCHANGED <<interrupt, pendingMode>>
     ELSE ui' = ResetView(TakenBack(ui)) /\ interrupt' = "none" /\ pendingMode' = "none"
  /\ UNCHANGED <<typed, spent, run, epoch, mode, bgVars>>

\* apply_snapshot: the session has its own interrupt and modes.
ApplySnapshot(u, rest) ==
  /\ interrupt' \in Interrupts \cup {"none", "boundary"}
  /\ mode' \in {"ask", "allow"} /\ pendingMode' = "none"
  /\ IF interrupt' = "boundary" THEN Start(ResetView(u), "boundary", Free)
     ELSE /\ ui' = CASE interrupt' = "none"     -> ResetView(u)
                     [] interrupt' = "approval" -> WithApproval(ResetView(u))
                     [] OTHER                   -> [ResetView(u) EXCEPT !.dialog = interrupt']
          /\ rest

Failed(u)    == ui' = u /\ UNCHANGED <<runVars, modeVars>>
EnterWait(u) == [u EXCEPT !.dialog = "none", !.deferred = FALSE]

\* /resume without an argument: no dialog is looked at.
OpenResume ==
  /\ Command /\ switch = "none" /\ ~ui.running /\ (Hasty \/ Calm)
  /\ ui' = Shown("resume")
  /\ UNCHANGED <<typed, spent, queue, runVars, modeVars, bgVars>>

\* begin_switch, on the UI's own thread: done, busy in another window, or refused.
EnterResume ==
  /\ ui.dialog = "resume" /\ (Hasty \/ Calm)
  /\ ToHistory /\ queue' = {}
  /\ \/ ~Busy /\ ApplySnapshot(TakenBack(Accepted), UNCHANGED <<run, epoch>>) /\ UNCHANGED switch
     \/ /\ ~Busy /\ ui' = EnterWait(TakenBack(Accepted)) /\ switch' = "waiting"
        /\ UNCHANGED <<runVars, modeVars>>
     \/ Failed(TakenBack(Accepted)) /\ UNCHANGED switch
  /\ UNCHANGED <<typed, compacting, skillLoading>>

\* /resume with an id: the switch is another thread's.
ResumeById ==
  /\ Command /\ switch = "none" /\ ~ui.running /\ (Hasty \/ Calm)
  /\ switch' = IF Busy THEN "none" ELSE "loading"
  /\ ui' = TakenBack(ui) /\ queue' = {}
  /\ UNCHANGED <<typed, spent, runVars, modeVars, compacting, skillLoading>>

\* A message queued while it loads goes to the other session.
Loaded ==
  /\ switch = "loading"
  /\ \/ ApplySnapshot(ui, UNCHANGED <<run, epoch>>) /\ switch' = "none"
     \/ ui' = EnterWait(ui) /\ switch' = "waiting" /\ UNCHANGED <<runVars, modeVars>>
     \/ Failed(ui) /\ switch' = "none"
  /\ UNCHANGED <<typed, spent, queue, compacting, skillLoading>>

WaitEnds ==
  /\ switch = "waiting" /\ switch' = "none"
  /\ ApplySnapshot(ui, UNCHANGED <<run, epoch>>) \/ Failed(ui)
  /\ UNCHANGED <<typed, spent, queue, compacting, skillLoading>>

-----------------------------------------------------------------------------
(* Runs, on their threads. *)

Step(w, stage, outcome) == [run EXCEPT ![w].stage = stage, ![w].outcome = outcome]
Current(w) == w = epoch
Fits(w) == IF run[w].kind = "message" THEN interrupt # "boundary" ELSE run[w].kind = interrupt

\* The operation lock, _require_interrupt and the run_started event.
Enter(w) ==
  /\ run[w].stage = "starting"
  /\ IF Busy \/ ~Fits(w)
     THEN run' = Step(w, "told", "raised") /\ UNCHANGED ui
     ELSE /\ run' = Step(w, "graph", "none")
          /\ ui' = IF Current(w) THEN [ui EXCEPT !.running = TRUE] ELSE ui
  /\ UNCHANGED <<typed, spent, queue, epoch, interrupt, modeVars, bgVars>>

\* A step of the graph answers the interrupt, takes what is queued, and applies the modes.
GraphSteps(w) ==
  /\ run[w].stage = "graph"
  /\ interrupt # "none" \/ queue # {} \/ pendingMode # "none"
  /\ interrupt' = "none"
  /\ \E given \in SUBSET queue : queue' = queue \ given /\ spent' = spent \cup given
  /\ mode' = IF pendingMode # "none" THEN pendingMode ELSE mode
  /\ pendingMode' = "none"
  /\ UNCHANGED <<ui, typed, run, epoch, bgVars>>

\* A run that fails or is cancelled may leave the interrupt it was to answer.
MayEnd(w, o) ==
  CASE o \in Interrupts \cup {"completed"} -> interrupt = "none"
    [] o = "cancelled" -> run[w].cancelled
    [] o = "raised"    -> MayRaise
    [] o = "failed"    -> TRUE
    [] OTHER           -> FALSE

Ends(w) ==
  /\ run[w].stage = "graph"
  /\ \E o \in Outcomes :
       /\ MayEnd(w, o)
       /\ run' = Step(w, IF o = "raised" THEN "told" ELSE "ended", o)
       /\ interrupt' = IF o \in Interrupts THEN o ELSE interrupt
  /\ UNCHANGED <<ui, typed, spent, queue, epoch, modeVars, bgVars>>

\* The last event of a run, and the run_failed of _start_run, which has no epoch.
Told(w) ==
  /\ run[w].stage = "ended"
  /\ run' = Step(w, "told", run[w].outcome)
  /\ ui' = IF Current(w) THEN [ui EXCEPT !.running = FALSE] ELSE ui
  /\ UNCHANGED <<typed, spent, queue, epoch, interrupt, modeVars, bgVars>>

-----------------------------------------------------------------------------
(* _handle_result and the end of work(). *)

Gone(w) == run' = [run EXCEPT ![w] = NoRun] /\ UNCHANGED epoch
\* `finally`: the cancel is over, unless another run took the epoch.
After(w, u) == IF Current(w) THEN [u EXCEPT !.cancelSent = FALSE] ELSE u
Leave(w, u) == ui' = u /\ Gone(w) /\ UNCHANGED <<queue, spent>>

\* Mutant: a confirmation gives way to a question.
KeepsConfirmNever(u) == FALSE
KeepsConfirm(u) == u.dialog = "confirm"

BringsBack(o) == o \in {"completed", "cancelled", "failed"}

\* A run started by it takes the place of the worker, which has nothing left to do.
HandleResult(w) ==
  /\ run[w].stage = "told"
  /\ LET o == run[w].outcome
         u == After(w, IF o \in {"cancelled", "pause", "raised"}
                       THEN [ui EXCEPT !.running = FALSE] ELSE ui)
         taken == o = "approval" /\ (u.editor # {} \/ u.dialog # "none")
     IN CASE o \in Interrupts /\ KeepsConfirm(u)             -> Leave(w, u)
          [] o \in Interrupts /\ ~KeepsConfirm(u) /\ taken   -> Leave(w, [u EXCEPT !.running = FALSE])
          [] o \in Interrupts /\ ~KeepsConfirm(u) /\ ~taken  ->
               Reopened(u, u, {w}, Gone(w)) /\ UNCHANGED <<queue, spent>>
          [] BringsBack(o) /\ u.deferred ->
               Leave(w, [u EXCEPT !.dialog = "confirm", !.deferred = FALSE])
          [] o = "completed" /\ ~u.deferred                  -> StartQueued(u, queue, {w}, Gone(w))
          [] OTHER                                           -> Leave(w, u)
  /\ UNCHANGED <<typed, interrupt, modeVars, bgVars>>

-----------------------------------------------------------------------------
Next ==
  \/ \E t \in Texts : Type(t)
  \/ Submit \/ Dequeue \/ CancelWait \/ CancelRun \/ ClearInput
  \/ EscInterrupt \/ EscPicker \/ EscConfirm
  \/ EnterInterrupt \/ StayPaused \/ AnswerField \/ ClearAnswer
  \/ EnterPicker \/ EnterSkill
  \/ \E m \in {"ask", "allow"} : PermissionCommand(m) \/ EnterPermission(m)
  \/ ConfirmAllow \/ RefuseAllow \/ F2
  \/ \E d \in {"source", "model", "effort", "permission", "sandbox"} : OpenPicker(d)
  \/ Skill \/ SkillsRead \/ Compact \/ Compacted
  \/ NewSession \/ OpenResume \/ EnterResume \/ ResumeById \/ Loaded \/ WaitEnds
  \/ \E w \in Workers : Enter(w) \/ GraphSteps(w) \/ Ends(w) \/ Told(w) \/ HandleResult(w)

Spec == Init /\ [][Next]_vars

-----------------------------------------------------------------------------
\* No text of the user is lost but by a key that clears the editor: it is in the editor,
\* put aside, queued, sent, in the editor's history, or was cleared by Ctrl+C or, in a
\* question, by Shift+Tab or by Esc out of "Other", which take a draft from before the
\* question with them (ClearAnswer).  Holds through approvals, questions, cancelled runs
\* and session switches (docs/tui.md: the draft is restored, queued input returns to
\* the editor); what is typed as an answer is no text of this model, and Hasty = FALSE
\* leaves out what a late result does.
Aside(d) == IF d = NoDraft THEN {} ELSE d
TypedKept ==
  typed = ui.editor \cup Aside(ui.stash) \cup Aside(ui.skill) \cup queue \cup spent

\* The draft put aside for an approval comes back as it was.
DraftKept ==
  [][ui.stash # NoDraft => \/ ui'.stash = ui.stash
                           \/ ui'.stash = NoDraft /\ ui'.editor = ui.stash]_vars

\* No way through pickers, commands, queued changes and approvals makes ALLOW the mode
\* of a session without the confirmation.
AllowIsConfirmed ==
  [][/\ mode = "ask" /\ pendingMode # "allow"
     /\ mode' = "allow" \/ pendingMode' = "allow"
     => ui.dialog = "confirm" \/ switch # "none" \/ ui.dialog = "resume"]_vars

\* An ALLOW confirmation that gave way to an approval is brought back: the approval is
\* open, or pending again, or the run that went on is still to end.
ConfirmComesBack ==
  ui.deferred => ui.dialog \in Interrupts \/ interrupt # "none" \/ \E w \in Workers : Alive(w)

\* An open ALLOW confirmation is closed by the user or by a change of session, never by
\* what a run does.
ConfirmStays ==
  [][ui.dialog = "confirm" /\ ui'.dialog # "confirm"
     => \A w \in Workers : run[w].stage = "told" => run'[w] = run[w]]_vars

\* The UI that says it is working has something at work.
WorkingMeansWork == ui.running => compacting \/ \E w \in Workers : Alive(w)

\* What the user typed and did not clear, or was asked, is still there, and "Working" is
\* shown of work only.
InputKept == TypedKept /\ ConfirmComesBack /\ WorkingMeansWork

\* No prompt replaces the draft kept for another, and ALLOW is only taken by
\* its own confirmation, which stays until it is answered.
PromptSteps == DraftKept /\ AllowIsConfirmed /\ ConfirmStays
=============================================================================

------------------------------- MODULE MCTools -------------------------------
(* Three tools of the agent and the prompts of its terminal, for TLC: the    *)
(* file tools beside the commands (FileAccess), delegated runs (Subagents),  *)
(* the form of a question (HumanForm), and the dialogs, the editor and the   *)
(* drafts under them (Prompts).  They share no state; a behaviour is about   *)
(* one of the four.                                                          *)
EXTENDS MCFileAccess

CONSTANTS Calls, NoCall, MaxConcurrent, Limit, Failures, Parts,
          Values, Texts, MaxFields, MaxOptions,
          Workers, Hasty, MayRaise, NoDraft

VARIABLES which,
          parent, told, admitting, attached, active, retired, pc, stop, request, tool,
          log, part, status, answer, failures, dead, page,
          declared, fields, index, option, values, custom, customEntry, done,
          ui, typed, spent, queue, run, epoch, interrupt, permission, pendingMode, switch,
          compacting, skillLoading

Task == INSTANCE Subagents
Form == INSTANCE HumanForm
Prompt == INSTANCE Prompts WITH mode <- permission

ASSUME TaskConstants == NoCall \notin Calls /\ MaxConcurrent \in Nat
ASSUME FormConstants == MaxFields \in Nat /\ MaxOptions \in Nat
ASSUME PromptConstants ==
  Prompt!HastyAssumption /\ Prompt!WorkersAssumption /\ Prompt!DraftAssumption

taskVars == <<parent, told, admitting, attached, active, retired, pc, stop, request, tool,
              log, part, status, answer, failures, dead, page>>
formVars == <<declared, fields, index, option, values, custom, customEntry, done>>
promptVars == <<ui, typed, spent, queue, run, epoch, interrupt, permission, pendingMode,
                switch, compacting, skillLoading>>

\* A part that a behaviour is not about stays in one state.
NoFiles == host = <<>> /\ mounts = <<>> /\ mode = "full" /\ points = {} /\ routes = {}
           /\ sandbox = NoSandbox /\ steps = 0
MCInit ==
  /\ which \in {"files", "task", "form", "prompt"}
  /\ IF which = "files" THEN Init ELSE NoFiles
  /\ Task!Init /\ Form!Init /\ (which # "form" => declared = Form!Default)
  /\ Prompt!Init
FileStep == which = "files" /\ Next /\ UNCHANGED <<which, taskVars, formVars, promptVars>>
TaskStep == which = "task" /\ Task!Next /\ UNCHANGED <<which, vars, formVars, promptVars>>
FormStep == which = "form" /\ Form!Next /\ UNCHANGED <<which, vars, taskVars, promptVars>>
PromptStep == which = "prompt" /\ Prompt!Next /\ UNCHANGED <<which, vars, taskVars, formVars>>
MCNext == FileStep \/ TaskStep \/ FormStep \/ PromptStep
MCSpec == MCInit /\ [][MCNext]_<<which, vars, taskVars, formVars, promptVars>>

\* The calls of the task tool are interchangeable.
Symmetry == Permutations(Calls)

\* A bound of the run only: while the log of one call is read, the other calls
\* have written nothing.  Logs are files of their own, and reading one changes
\* nothing else, so this leaves out interleavings and no content of a log.
LogReadAlone ==
  page.of # NoCall => \A c \in Calls \ {page.of} : log[c] = <<>>

\* The properties of FileAccess hold of the mounts of every behaviour; those
\* of the others are these, under their names there.
ChildrenCancelled == which = "task" => Task!ChildrenCancelled
LogIsTrue == which = "task" => Task!LogIsTrue
FormAnswers == which = "form" => Form!FormAnswers
InputKept == which = "prompt" => Prompt!InputKept
PromptSteps == Prompt!PromptSteps
=============================================================================

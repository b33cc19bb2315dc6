--------------------------- MODULE CliLifecycle ---------------------------
(***************************************************************************)
(* Leaving the terminal program: AppLifecycle of cli/lifecycle.py, the     *)
(* loop and the signal handlers of cli/app.py (run_async,                  *)
(* _on_terminate_signal, _before_ui), the exit keys of                     *)
(* cli/input_actions.py, and the close in cli/main.py.                     *)
(*                                                                         *)
(* The loop runs one callback at a time, so every synchronous method is    *)
(* one step; tasks, signals, keys and the deadline interleave at awaits.   *)
(* A task is a run, a wait for a session or an MCP operation (its owner is *)
(* told to stop, then shutdown only watches it) or a helper of the UI      *)
(* (shutdown cancels it).  Their threads are not the loop's: they outlive  *)
(* it, and the interpreter joins them before the process ends.             *)
(***************************************************************************)
EXTENDS Naturals, Sequences, SequencesExt

CONSTANT Tasks  \* tasks one process may start

Observed == {"run", "wait", "mcp"}
Kinds    == Observed \cup {"helper"}
Ended    == {"done", "failed", "cancelled"}

VARIABLES
  stage,      \* where run_async and main are
  phase,      \* AppLifecycle.phase
  life,       \* task -> "none", "alive" or how it ended
  kind,       \* task -> what it does
  told,       \* tasks whose owner was told to stop, or that were cancelled
  running,    \* state.running: whether the UI shows a run
  entered,    \* the run with the operation lock, in _stream (`_busy`)
  orphans,    \* cancelled helpers whose thread goes on
  signalled,  \* _owners_signalled
  missed,     \* runs alive that the UI did not show when the owners were told
  tracked,    \* _tracked, in the order of creation
  rest,       \* what _drain_tasks has not come to yet
  timeUp,     \* its deadline passed
  captured,   \* task -> how often its exception was recorded
  unfinished, \* names shutdown gave up on
  term,       \* terminated_by
  hung,       \* the terminal is gone
  leaving,    \* application.exit() was called
  crashed,    \* app.run() raises
  armed       \* a Ctrl+C cleared the input less than a second ago

owners == <<told, signalled, missed>>
runs   == <<running, entered, orphans>>
drain  == <<rest, timeUp, captured, unfinished>>
ui     == <<stage, term, hung, crashed, armed>>
vars   == <<ui, phase, life, kind, owners, runs, tracked, drain, leaving>>

Signals == {"TERM", "HUP"}
InLoop  == stage \in {"starting", "ui", "left", "draining"}

\* In particular an exception is recorded once, although the done callback
\* and the drain of shutdown may both see it.
TypeOK ==
  /\ stage \in {"starting", "ui", "left", "draining", "closing", "waiting", "joining",
                "exited", "killed"}
  /\ phase \in {"active", "exit_requested", "shutting_down", "stopped"}
  /\ life \in [Tasks -> Ended \cup {"none", "alive"}]
  /\ kind \in [Tasks -> Kinds]
  /\ told \subseteq Tasks /\ unfinished \subseteq Tasks /\ missed \subseteq Tasks
  /\ entered \subseteq Tasks /\ orphans \subseteq Tasks
  /\ tracked \in Seq(Tasks) /\ rest \in Seq(Tasks)
  /\ captured \in [Tasks -> 0..1]
  /\ term \in Signals \cup {"none"}
  /\ timeUp \in BOOLEAN /\ hung \in BOOLEAN /\ leaving \in BOOLEAN /\ armed \in BOOLEAN
  /\ running \in BOOLEAN /\ signalled \in BOOLEAN /\ crashed \in BOOLEAN

NoTasks == [t \in Tasks |-> "none"]
Helper  == [t \in Tasks |-> "helper"]
Never   == [t \in Tasks |-> 0]

Init ==
  /\ stage = "starting" /\ phase = "active" /\ term = "none"
  /\ life = NoTasks /\ kind = Helper /\ tracked = <<>>
  /\ told = {} /\ signalled = FALSE /\ missed = {}
  /\ running = FALSE /\ entered = {} /\ orphans = {}
  /\ rest = <<>> /\ timeUp = FALSE /\ captured = Never /\ unfinished = {}
  /\ hung = FALSE /\ leaving = FALSE /\ crashed = FALSE /\ armed = FALSE

Alive == {t \in Tasks : life[t] = "alive"}

-----------------------------------------------------------------------------
(* Tasks. *)

\* spawn refuses everything once the program is leaving: a helper gets a
\* finished stand-in, anything else raises.
Accepts == phase = "active"

\* There is one wait at a time; a second run may start beside one that is not shown.
Startable(k) ==
  /\ k = "wait" => \A t \in Alive : kind[t] # k
  /\ k # "helper" => stage = "ui" \/ (stage = "starting" /\ k = "wait")

Spawn(t, k) ==
  /\ InLoop /\ Accepts /\ Startable(k) /\ life[t] = "none"
  /\ life' = [life EXCEPT ![t] = "alive"]
  /\ kind' = [kind EXCEPT ![t] = k]
  /\ tracked' = Append(tracked, t)
  /\ running' = (running \/ k = "run")
  /\ UNCHANGED <<ui, phase, owners, entered, orphans, drain, leaving>>

\* What sets state.running beside _start_run: events, results, /compact, and a dismissed
\* dialog (Prompts has them in detail). Nobody reads it once the program is leaving.
RunShown(shown) ==
  /\ InLoop /\ phase = "active" /\ (shown => Alive # {})
  /\ running' = shown
  /\ UNCHANGED <<ui, phase, life, kind, owners, entered, orphans, tracked, drain, leaving>>

\* _stream sets _busy. A run that comes later than close() is refused, or is the one of
\* SessionOwnership_close.cfg.
RunEnters(t) ==
  /\ InLoop \/ stage = "closing"
  /\ life[t] = "alive" /\ kind[t] = "run" /\ entered = {}
  /\ entered' = {t}
  /\ UNCHANGED <<ui, phase, life, kind, owners, running, orphans, tracked, drain, leaving>>

RunLeaves(t) ==
  /\ t \in entered /\ stage \notin {"exited", "killed"}
  /\ entered' = {}
  /\ UNCHANGED <<ui, phase, life, kind, owners, running, orphans, tracked, drain, leaving>>

\* A cancelled helper may still finish or fail in its own way; after the loop, it is the
\* thread that ends.
TaskEnds(t, how) ==
  /\ stage \notin {"exited", "killed"} /\ life[t] = "alive"
  /\ how = "cancelled" => t \in told /\ kind[t] = "helper"
  /\ t \notin entered
  /\ life' = [life EXCEPT ![t] = how]
  /\ orphans' \in {orphans, orphans \cup (IF how = "cancelled" THEN {t} ELSE {})}
  /\ UNCHANGED <<ui, phase, kind, owners, running, entered, tracked, drain, leaving>>

ThreadEnds(t) ==
  /\ stage \notin {"exited", "killed"}
  /\ t \in orphans /\ orphans' = orphans \ {t}
  /\ UNCHANGED <<ui, phase, life, kind, owners, running, entered, tracked, drain, leaving>>

\* _capture_done: once per task; a cancellation is no failure.
Captured(t) == [captured EXCEPT ![t] = IF life[t] = "failed" THEN 1 ELSE @]

\* The done callback, some time after the task ended.
Forget(t) ==
  /\ InLoop /\ life[t] \in Ended
  /\ captured' = Captured(t)
  /\ \E i \in DOMAIN tracked : tracked[i] = t /\ tracked' = RemoveAt(tracked, i)
  /\ UNCHANGED <<ui, phase, life, kind, owners, runs, rest, timeUp, unfinished, leaving>>

-----------------------------------------------------------------------------
(* Asking to leave. *)

\* _signal_owners: the session wait, the pending connections, and the run if the UI
\* shows one.
Owners == {t \in Alive : kind[t] \in Observed /\ (kind[t] = "run" => running)}
SignalOwners ==
  /\ told' = told \cup Owners /\ signalled' = TRUE
  /\ missed' = {t \in Alive \ Owners : kind[t] = "run"}

\* The write that switches mouse reports off comes first; when the terminal
\* is gone it may raise, and nothing after it happens.
RequestExit(raises) ==
  IF phase # "active" THEN UNCHANGED <<phase, owners, leaving>>
  ELSE /\ phase' = "exit_requested"
       /\ IF raises THEN UNCHANGED <<owners, leaving>>
          ELSE SignalOwners /\ leaving' = TRUE

Raises(gone) == IF gone THEN BOOLEAN ELSE {FALSE}

\* run_async reaches the prompt loop; pre_run leaves again when a signal
\* came before it, otherwise it connects MCP (a Spawn).
BeforeUi ==
  /\ stage = "starting" /\ stage' = "ui"
  /\ IF term = "none" THEN UNCHANGED <<phase, owners, leaving, crashed>>
     ELSE \E r \in Raises(hung) : RequestExit(r) /\ crashed' = r
  /\ UNCHANGED <<life, kind, runs, tracked, drain, term, hung, armed>>

\* Ctrl+D on an empty line, or /exit.
ExitKey ==
  /\ stage = "ui" /\ ~hung /\ RequestExit(FALSE)
  /\ UNCHANGED <<ui, life, kind, runs, tracked, drain>>

\* decide_clear_or_exit: the first Ctrl+C clears and arms, one within the
\* second leaves; with a picker or an approval open it closes that.
CtrlC(interaction) ==
  /\ stage = "ui" /\ ~hung
  /\ IF ~interaction /\ armed THEN RequestExit(FALSE) /\ UNCHANGED armed
     ELSE armed' = (armed \/ ~interaction) /\ UNCHANGED <<phase, owners, leaving>>
  /\ UNCHANGED <<stage, term, hung, crashed, life, kind, runs, tracked, drain>>

WindowPasses ==
  /\ armed /\ armed' = FALSE
  /\ UNCHANGED <<stage, term, hung, crashed, phase, life, kind, owners, runs, tracked, drain,
                 leaving>>

\* _on_terminate_signal while the handlers are installed, the default
\* action after run_async removed them.
FirstSignal(s) ==
  /\ InLoop /\ term = "none" /\ term' = s
  /\ hung' = (hung \/ s = "HUP")
  /\ IF stage = "ui" THEN \E r \in Raises(hung') : RequestExit(r)
     ELSE UNCHANGED <<phase, owners, leaving>>
  /\ UNCHANGED <<stage, crashed, armed, life, kind, runs, tracked, drain>>

\* The memory of the process is gone.
Killed ==
  /\ (InLoop /\ term # "none") \/ stage \in {"closing", "waiting", "joining"}
  /\ stage' = "killed"
  /\ life' = NoTasks /\ kind' = Helper /\ tracked' = <<>>
  /\ told' = {} /\ missed' = {} /\ entered' = {} /\ orphans' = {} /\ rest' = <<>>
  /\ captured' = Never /\ unfinished' = {}
  /\ UNCHANGED <<phase, signalled, running, timeUp, term, hung, leaving, crashed, armed>>

-----------------------------------------------------------------------------
(* shutdown. *)

\* The prompt loop ends after application.exit(), or raises when its input ends
\* with the terminal.
LoopEnds ==
  /\ stage = "ui" /\ (leaving \/ hung) /\ stage' = "left"
  /\ crashed' = ~leaving /\ armed' = FALSE
  /\ UNCHANGED <<phase, life, kind, owners, runs, tracked, drain, term, hung, leaving>>

Helpers == {t \in Alive : kind[t] = "helper"}

\* Owners are told here only when nobody asked to leave before.
Shutdown ==
  /\ stage = "left" /\ stage' = "draining"
  /\ phase' = "shutting_down"
  /\ IF phase = "active"
     THEN told' = told \cup Owners \cup Helpers /\ signalled' = TRUE
          /\ missed' = {t \in Alive \ Owners : kind[t] = "run"}
     ELSE told' = told \cup Helpers /\ UNCHANGED <<signalled, missed>>
  /\ rest' = tracked
  /\ UNCHANGED <<life, kind, runs, tracked, timeUp, captured, unfinished, term, hung, crashed,
                 leaving, armed>>

Deadline ==
  /\ stage = "draining" /\ ~timeUp /\ timeUp' = TRUE
  /\ UNCHANGED <<ui, phase, life, kind, owners, runs, tracked, rest, captured, unfinished,
                 leaving>>

\* One task after the other: seen ended, or given up at the deadline.
PassEnded ==
  /\ stage = "draining" /\ rest # <<>> /\ life[Head(rest)] \in Ended
  /\ captured' = Captured(Head(rest)) /\ rest' = Tail(rest)
  /\ UNCHANGED <<ui, phase, life, kind, owners, runs, tracked, timeUp, unfinished, leaving>>

\* Mutant: the drain waits for a watched task until it ends.
DueHelpers(t) == timeUp /\ kind[t] = "helper"
Due(t) == timeUp

GivenUp(t) == {t}

PassTimeout ==
  /\ stage = "draining" /\ rest # <<>> /\ life[Head(rest)] = "alive" /\ Due(Head(rest))
  /\ unfinished' = unfinished \cup GivenUp(Head(rest)) /\ rest' = Tail(rest)
  /\ UNCHANGED <<ui, phase, life, kind, owners, runs, tracked, timeUp, captured, leaving>>

\* The executor is closed, the handlers are removed and the loop ends.
Stop ==
  /\ stage = "draining" /\ rest = <<>> /\ stage' = "closing" /\ phase' = "stopped"
  /\ UNCHANGED <<life, kind, owners, runs, tracked, drain, term, hung, crashed, leaving, armed>>

-----------------------------------------------------------------------------
(* main, after the loop. *)

\* Mutant: close() cancels the run only if the exit did not.
ToldByCloseOnce == IF signalled THEN {} ELSE {t \in Alive : kind[t] \in {"run", "wait"}}
\* close(): abort_wait, and the cancel of every run if one is at work.
ToldByClose ==
  {t \in Alive : kind[t] = "wait" \/ (kind[t] = "run" /\ entered # {})}

CloseRunner ==
  /\ stage = "closing" /\ stage' = "waiting"
  /\ told' = told \cup ToldByClose
  /\ UNCHANGED <<phase, life, kind, signalled, missed, runs, tracked, drain, term, hung, crashed,
                 leaving, armed>>

\* It returns or raises, both within its own bounds; _exit_by_signal, unless app.run()
\* raised.
Closed ==
  /\ stage = "waiting"
  /\ stage' = IF term # "none" /\ ~crashed THEN "exited" ELSE "joining"
  /\ UNCHANGED <<phase, life, kind, owners, runs, tracked, drain, term, hung, crashed, leaving,
                 armed>>

\* The interpreter joins the threads of the executors.
Join ==
  /\ stage = "joining" /\ Alive \cup orphans = {} /\ stage' = "exited"
  /\ UNCHANGED <<phase, life, kind, owners, runs, tracked, drain, term, hung, crashed, leaving,
                 armed>>

Over == stage \in {"exited", "killed"} /\ UNCHANGED vars

\* The main thread and the loop, from the start to the end of the process.
MainStep ==
  \/ BeforeUi \/ LoopEnds \/ Shutdown \/ PassEnded \/ PassTimeout \/ Stop
  \/ CloseRunner \/ Closed \/ Join

Next ==
  \/ \E t \in Tasks, k \in Kinds : Spawn(t, k)
  \/ \E b \in BOOLEAN : RunShown(b)
  \/ \E t \in Tasks, how \in Ended : TaskEnds(t, how)
  \/ \E t \in Tasks : RunEnters(t) \/ RunLeaves(t) \/ ThreadEnds(t) \/ Forget(t)
  \/ ExitKey \/ WindowPasses
  \/ \E i \in BOOLEAN : CtrlC(i)
  \/ \E s \in Signals : FirstSignal(s)
  \/ Killed
  \/ MainStep \/ Deadline
  \/ Over

\* The loop runs what is ready, the deadline is a timer, and what main does between the
\* loop and the end of runner.close() is bounded. Nothing is assumed of tasks, threads,
\* keys or signals.
Fairness == WF_vars(MainStep) /\ WF_vars(Deadline)

Spec == Init /\ [][Next]_vars /\ Fairness

-----------------------------------------------------------------------------
\* When the owners were told, every wait, MCP operation and run alive was among
\* them, also one started just before, except a run the UI did not show
\* (request_exit tells the runner to cancel only if state.running).
OwnersTold ==
  signalled => \A t \in Alive : kind[t] \in Observed => t \in told \cup missed

\* However the exit began, also with a write that raised before anybody was told or a
\* run that was not shown: in close() the run at work and every wait have been told.
ClosingTells ==
  stage \in {"waiting", "joining", "exited"} =>
    \A t \in Alive : kind[t] = "wait" \/ t \in entered => t \in told

\* After shutdown every task has ended or is named as unfinished, and the
\* exception of every task that had failed by then is on record.
NothingUnaccounted ==
  phase = "stopped" => \A t \in Tasks :
    /\ life[t] = "alive" => t \in unfinished
    /\ life[t] = "failed" => t \in unfinished \/ captured[t] = 1

\* A request to leave ends the process for good, or brings main past close() to where
\* only threads that do not end hold the process up; never after a SIGTERM.
Gone == stage \in {"exited", "killed"}
HeldUp == stage = "joining" /\ Alive \cup orphans # {} /\ term # "TERM"
ExitEnds == (phase # "active" \/ term # "none") ~> [](Gone \/ HeldUp)

\* An exit reaches the owners of the live work it knows of, close() those of the rest,
\* and what shutdown gave up waiting for is named (request_exit, shutdown, close).
ExitAccounts == OwnersTold /\ ClosingTells /\ NothingUnaccounted
=============================================================================

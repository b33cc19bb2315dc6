----------------------------- MODULE McpPanel -----------------------------
(***************************************************************************)
(* The /mcp commands of the terminal: cli/mcp_ui.py with the MCPController *)
(* of cli/mcp_controller.py.                                               *)
(*                                                                         *)
(* Commands and operations are tasks of one event loop: what lies between  *)
(* two awaits is one step. The work of an operation, the write of the      *)
(* switch and the rebuild of the graph run in threads. The catalog is in   *)
(* McpCatalog; here it is what the panel reads of it.                      *)
(***************************************************************************)
EXTENDS Naturals, FiniteSets

CONSTANTS Ops,      \* operations: automatic connects, add, remove, test
          Cmds,     \* /mcp enable and /mcp disable commands
          Budget    \* how many things the user starts, runs of the agent included

Nobody == "none"
Procs == Ops \cup Cmds
ProcAssumption == Ops \cap Cmds = {} /\ Nobody \notin Procs

VARIABLES
  enabled, epoch,   \* MCPManager: the global switch and its generation
  dirty,            \* toolset_dirty: the graph lacks the current revision
  rev,              \* toolset_revision
  notice,           \* a switch not announced yet
  running,          \* state.running
  run,              \* the worker: "idle", "starting", "active", "approval"
  runs,             \* runs started
  news,             \* a published toolset whose event the loop has not seen
  busy, owner,      \* MCPController.busy and operation_id
  at,               \* where a task is
  mine,             \* the switch_epoch it works for
  quiet,            \* operation -> an automatic connect?
  want,             \* command -> enable?
  seen,             \* the revision a publish started with
  out,              \* what the graph build returned to it
  switchLock, publishLock,
  cached,           \* publish_revision and publish_outcome
  status            \* the status line

manager == <<enabled, epoch, dirty, rev, notice>>
agent   == <<running, run, runs, news>>
control == <<busy, owner>>
task    == <<mine, quiet, want, seen, out>>
locks   == <<switchLock, publishLock, cached>>
vars    == <<manager, agent, control, at, task, locks, status>>

Texts  == {"Ready", "Working", "mcp running", "mcp finished", "mcp failed", "mcp queued", "tools updated"}
Switch == {"MCP: Enabled", "MCP: Disabled", "enable queued", "disable queued",
           "update failed", "tool update failed"}

TypeOK ==
  /\ {enabled, dirty, running, news, busy} \subseteq BOOLEAN
  /\ epoch \in Nat /\ rev \in Nat /\ runs \in 0..Budget
  /\ notice \in {Nobody, "enabled", "disabled"}
  /\ run \in {"idle", "starting", "active", "approval"}
  /\ owner \in Ops \cup {Nobody}
  /\ at \in [Procs -> {"new", "working", "worked", "failed", "switch", "writing", "wrote",
                       "refused", "publish", "build", "built", "apply", "applied", "done"}]
  /\ out \in [Procs -> {Nobody, "ok", "same", "failed", "blocked"}]
  /\ quiet \in [Ops -> BOOLEAN] /\ want \in [Cmds -> BOOLEAN]
  /\ mine \in [Procs -> Nat] /\ seen \in [Procs -> Nat]
  /\ switchLock \in Cmds \cup {Nobody} /\ publishLock \in Procs \cup {Nobody}
  /\ switchLock # Nobody => at[switchLock] \in {"writing", "wrote", "refused"}
  /\ publishLock # Nobody => at[publishLock] \in {"build", "built"}
  /\ cached.outcome \in {Nobody, "applied", "queued", "failed"}
  /\ status \in Texts \cup Switch

Init ==
  /\ enabled \in BOOLEAN /\ epoch = 0 /\ dirty = FALSE /\ rev = 0 /\ notice = Nobody
  /\ running = FALSE /\ run = "idle" /\ runs = 0 /\ news = FALSE
  /\ busy = FALSE /\ owner = Nobody
  /\ at = [p \in Procs |-> "new"] /\ mine = [p \in Procs |-> 0]
  /\ quiet = [i \in Ops |-> FALSE] /\ want = [c \in Cmds |-> FALSE]
  /\ seen = [p \in Procs |-> 0] /\ out = [p \in Procs |-> Nobody]
  /\ switchLock = Nobody /\ publishLock = Nobody
  /\ cached = [revision |-> 0, outcome |-> Nobody]
  /\ status = "Ready"

Unspent == Cardinality({p \in Procs : at[p] # "new"}) + runs < Budget
Go(p, where) == at' = [at EXCEPT ![p] = where]

-----------------------------------------------------------------------------
(* What the status line says. *)

\* _show_mcp_status.
Shown ==
  IF enabled THEN "MCP: Enabled" ELSE IF dirty THEN "disable queued" ELSE "MCP: Disabled"

\* consume_switch_notice gives the notice away once the graph is current.
Announced == notice # Nobody /\ ~dirty

Plain(text) == IF status \in Switch THEN status ELSE text

\* _finish_quiet_success: only the newest operation of the newest switch
\* takes its own "running" off the line.
Owns(i) == owner = i
Calm(i) ==
  IF Owns(i) /\ mine[i] = epoch /\ ~running /\ status = "mcp running"
    THEN "Ready" ELSE status

\* MCPController.finish.
\* Mutant: an operation that was overtaken ends the newer one's busy state.
FinishAny(i) == FALSE
Finish(i) == IF Owns(i) THEN FALSE ELSE busy

-----------------------------------------------------------------------------
(* Operations. *)

\* try_begin: one at a time, unless an enable forces its own connect.
Begin(i, isQuiet) ==
  /\ at[i] = "new"
  /\ busy' = TRUE /\ owner' = i
  /\ quiet' = [quiet EXCEPT ![i] = isQuiet]

\* /mcp add, remove and test, and the connect at startup. (Bound: the last
\* of Ops is kept for the connect of an enable.)
StartOperation(i, isQuiet) ==
  /\ \E j \in Ops \ {i} : at[j] = "new"
  /\ enabled /\ ~busy /\ Unspent
  /\ Begin(i, isQuiet) /\ Go(i, "working")
  /\ mine' = [mine EXCEPT ![i] = epoch]
  /\ status' = "mcp running"
  /\ UNCHANGED <<manager, agent, want, seen, out, locks>>

\* The thread: connects and edits the catalog only while the switch is on; it
\* answers with a result once it has changed something.
Work(i, changes, raises) ==
  /\ at[i] = "working" /\ (changes => enabled /\ ~raises)
  /\ rev' = IF changes THEN rev + 1 ELSE rev
  /\ dirty' = (dirty \/ changes)
  /\ Go(i, IF raises THEN "failed" ELSE "worked")
  /\ UNCHANGED <<enabled, epoch, notice, agent, control, task, locks, status>>

\* An exception is reported unless a later switch owns the status.
Failed(i) ==
  /\ at[i] = "failed" /\ Go(i, "done")
  /\ status' = IF mine[i] = epoch THEN "mcp failed" ELSE status
  /\ busy' = Finish(i)
  /\ UNCHANGED <<manager, agent, owner, task, locks>>

\* An automatic connect, or one overtaken by a switch, still publishes.
Publishes(i) == dirty /\ (quiet[i] \/ mine[i] # epoch)

Worked(i) ==
  /\ at[i] = "worked"
  /\ \/ /\ Publishes(i)
        /\ Go(i, "publish") /\ UNCHANGED <<busy, status>>
     \/ /\ ~Publishes(i) /\ (quiet[i] \/ mine[i] # epoch)
        /\ Go(i, "done") /\ busy' = Finish(i)
        /\ status' = IF mine[i] = epoch THEN Calm(i) ELSE status
     \/ /\ ~quiet[i] /\ mine[i] = epoch
        /\ \E text \in {"mcp finished", "mcp failed"} :
             status' = IF dirty /\ running THEN Plain("mcp queued") ELSE Plain(text)
        /\ Go(i, IF dirty /\ ~running THEN "apply" ELSE "done")
        /\ busy' = IF dirty /\ ~running THEN busy ELSE Finish(i)
  /\ UNCHANGED <<manager, agent, owner, task, locks>>

-----------------------------------------------------------------------------
(* The commands /mcp enable and /mcp disable. *)

Switching(c, w) ==
  /\ at[c] = "new" /\ Unspent /\ Go(c, "switch")
  /\ want' = [want EXCEPT ![c] = w]
  /\ UNCHANGED <<manager, agent, control, mine, quiet, seen, out, locks, status>>

\* The switch is read once the lock is held; repeating it shows the status.
TakeSwitch(c) ==
  /\ at[c] = "switch" /\ switchLock = Nobody
  /\ \/ /\ enabled = want[c] /\ Go(c, "done")
        /\ status' = Shown /\ UNCHANGED switchLock
     \/ /\ enabled # want[c] /\ Go(c, "writing")
        /\ switchLock' = c /\ UNCHANGED status
  /\ UNCHANGED <<manager, agent, control, task, publishLock, cached>>

\* set_enabled in a thread; the file may not be writable.
Write(c) ==
  /\ at[c] = "writing"
  /\ \/ /\ enabled' = want[c] /\ epoch' = epoch + 1 /\ rev' = rev + 1 /\ dirty' = TRUE
        /\ notice' = IF want[c] THEN "enabled" ELSE "disabled"
        /\ Go(c, "wrote")
     \/ Go(c, "refused") /\ UNCHANGED manager
  /\ UNCHANGED <<agent, control, task, locks, status>>

Left(c) == Nobody

Refused(c) ==
  /\ at[c] = "refused" /\ Go(c, "done") /\ switchLock' = Left(c)
  /\ status' = "update failed"
  /\ UNCHANGED <<manager, agent, control, task, publishLock, cached>>

\* Enabling starts its own connects before the new toolset is published.
Wrote(c) ==
  /\ at[c] = "wrote" /\ switchLock' = Left(c)
  /\ \/ /\ ~want[c] /\ Go(c, "publish")
        /\ mine' = [mine EXCEPT ![c] = epoch]
        /\ UNCHANGED <<busy, owner, quiet, status>>
     \/ /\ want[c]
        /\ \E i \in Ops :
             /\ Begin(i, TRUE)
             /\ at' = [at EXCEPT ![c] = "publish", ![i] = "working"]
             /\ mine' = [mine EXCEPT ![c] = epoch, ![i] = epoch]
        /\ status' = "mcp running"
  /\ UNCHANGED <<manager, agent, want, seen, out, publishLock, cached>>

-----------------------------------------------------------------------------
(* Publishing a toolset, _coalesced_publish and _publish_mcp_toolset. *)

\* _switch_block_reason.
Blocked == running \/ run = "approval"

\* cached_publish.
Cached ==
  IF cached.revision # rev THEN Nobody
  ELSE IF cached.outcome = "failed" \/ (cached.outcome = "applied" /\ ~dirty)
    THEN cached.outcome ELSE Nobody

\* What the caller does with the outcome, up to its end. A text of the switch
\* is written for the newest switch only.
Current(p) == mine[p] = epoch
Reported(p, outcome, line) ==
  IF p \in Ops
    THEN IF Owns(p) /\ Current(p) /\ ~running /\ line = "mcp running" THEN "Ready" ELSE line
    ELSE IF ~Current(p) THEN line
    ELSE IF outcome = "failed" THEN "tool update failed"
    ELSE IF outcome = "queued" THEN IF want[p] THEN "enable queued" ELSE "disable queued"
    ELSE line

\* The caller announces a switch nobody announced yet.
Announces(p, outcome) ==
  /\ Announced /\ Current(p)
  /\ p \in Ops \/ outcome = "applied"

Return(p, outcome, byEvent) ==
  LET tells == Announced /\ (byEvent \/ Announces(p, outcome))
  IN /\ status' = Reported(p, outcome, IF tells THEN Shown ELSE status)
     /\ notice' = IF tells THEN Nobody ELSE notice
     /\ Go(p, "done")
     /\ busy' = IF p \in Ops THEN Finish(p) ELSE busy

Remember(p, outcome) ==
  cached' = IF seen[p] = rev THEN [revision |-> rev, outcome |-> outcome] ELSE cached

\* The publish lock is taken; a revision already settled is not tried again,
\* and a run or an approval queues it.
Join(p) ==
  /\ at[p] = "publish" /\ publishLock = Nobody
  /\ \/ /\ Cached # Nobody
        /\ Return(p, Cached, FALSE) /\ UNCHANGED <<cached, publishLock, seen>>
     \/ /\ Cached = Nobody /\ Blocked
        /\ Return(p, "queued", FALSE)
        /\ cached' = [revision |-> rev, outcome |-> "queued"] /\ UNCHANGED <<publishLock, seen>>
     \/ /\ Cached = Nobody /\ ~Blocked
        /\ publishLock' = p /\ seen' = [seen EXCEPT ![p] = rev] /\ Go(p, "build")
        /\ UNCHANGED <<cached, busy, notice, status>>
  /\ UNCHANGED <<enabled, epoch, dirty, rev, agent, owner, mine, quiet, want, out, switchLock>>

\* The thread: it waits a while for the operation lock a run may hold, and
\* rebuilds the graph with the revision of that moment.
Build(p) ==
  /\ at[p] \in {"build", "apply"}
  /\ Go(p, IF at[p] = "build" THEN "built" ELSE "applied")
  /\ \E r \in {"ok", "same", "failed", "blocked"} :
       /\ (r = "blocked") = (run # "idle")
       /\ r = "same" <=> run = "idle" /\ ~dirty
       /\ out' = [out EXCEPT ![p] = r]
       /\ dirty' = (dirty /\ r # "ok")
  /\ UNCHANGED <<enabled, epoch, rev, notice, agent, control, mine, quiet, want, seen, locks, status>>

Built(p) ==
  /\ at[p] = "built" /\ publishLock' = Nobody
  /\ LET outcome == CASE out[p] = "failed" -> "failed"
                      [] out[p] = "blocked" \/ dirty -> "queued"
                      [] OTHER -> "applied"
     IN Return(p, outcome, out[p] = "ok") /\ Remember(p, outcome)
  /\ UNCHANGED <<enabled, epoch, dirty, rev, agent, owner, task, switchLock>>

\* _apply_when_idle after an add, a remove or a test: no coalescing.
Applied(i) ==
  /\ at[i] = "applied" /\ Go(i, "done") /\ busy' = Finish(i)
  /\ LET tells == Announced /\ out[i] = "ok"
         text == CASE out[i] = "blocked" -> "mcp queued"
                   [] out[i] = "failed" -> "tool update failed"
                   [] OTHER -> "tools updated"
     IN /\ status' = IF tells THEN Shown ELSE Plain(text)
        /\ notice' = IF tells THEN Nobody ELSE notice
  /\ UNCHANGED <<enabled, epoch, dirty, rev, agent, owner, task, locks>>

-----------------------------------------------------------------------------
(* The agent's runs and the safe points inside them. *)

RunStarts ==
  /\ ~running /\ run = "idle" /\ Unspent
  /\ running' = TRUE /\ run' = "starting" /\ runs' = runs + 1 /\ status' = "Working"
  /\ UNCHANGED <<manager, news, control, at, task, locks>>

\* The worker takes the operation lock when no rebuild holds it.
RunEnters ==
  /\ run = "starting" /\ run' = "active"
  /\ UNCHANGED <<manager, running, runs, news, control, at, task, locks, status>>

\* A safe point: a queued toolset is published; its event follows.
SafePoint ==
  /\ run = "active" /\ dirty
  /\ dirty' = FALSE /\ news' = TRUE
  /\ UNCHANGED <<enabled, epoch, rev, notice, running, run, runs, control, at, task, locks, status>>

\* runtime_config_applied reaches the loop.
News ==
  /\ news /\ news' = FALSE
  /\ status' = IF Announced THEN Shown ELSE status
  /\ notice' = IF Announced THEN Nobody ELSE notice
  /\ UNCHANGED <<enabled, epoch, dirty, rev, running, run, runs, control, at, task, locks>>

RunStops(how) ==
  /\ run = "active" /\ ~news
  /\ running' = FALSE /\ run' = how
  /\ status' = "Ready"
  /\ UNCHANGED <<manager, runs, news, control, at, task, locks>>

Resumed ==
  /\ run = "approval" /\ ~running
  /\ running' = TRUE /\ run' = "starting" /\ status' = "Working"
  /\ UNCHANGED <<manager, runs, news, control, at, task, locks>>

Live(p) == at[p] \notin {"new", "done"}
Resting == (\A p \in Procs : ~Live(p)) /\ run = "idle" /\ ~news

Next ==
  \/ \E i \in Ops :
       \/ \E b \in BOOLEAN : StartOperation(i, b)
       \/ \E b, r \in BOOLEAN : Work(i, b, r)
       \/ Failed(i) \/ Worked(i) \/ Applied(i)
  \/ \E c \in Cmds :
       \/ \E w \in BOOLEAN : Switching(c, w)
       \/ TakeSwitch(c) \/ Write(c) \/ Refused(c) \/ Wrote(c)
  \/ \E p \in Procs : Join(p) \/ Build(p) \/ Built(p)
  \/ RunStarts \/ RunEnters \/ SafePoint \/ News \/ Resumed
  \/ \E how \in {"idle", "approval"} : RunStops(how)
  \/ Resting /\ UNCHANGED vars

Spec == Init /\ [][Next]_vars

-----------------------------------------------------------------------------

\* "busy" is said exactly while the newest operation is alive: an overtaken
\* one neither ends it early nor leaves it on.
BusyIsAlive == busy <=> (owner # Nobody /\ Live(owner))

\* "MCP: Disabled" is shown only when the switch is off and the tools have
\* left the graph.
DisabledMeansGone ==
  [][status' = "MCP: Disabled" /\ status # status' => ~enabled' /\ ~dirty']_vars

\* With nothing under way the status line does not contradict the switch and
\* does not say that work goes on.
StatusIsTrue ==
  Resting =>
    /\ status # "mcp running" /\ status # "Working"
    /\ status = "MCP: Enabled" => enabled
    /\ status = "MCP: Disabled" => ~enabled
    /\ status = "enable queued" => enabled
    /\ status = "disable queued" => ~enabled

\* With nothing under way, and no run since, a toolset that is not in the
\* graph was tried and could not be built.
NothingForgotten ==
  Resting /\ runs = 0 /\ dirty => \E p \in Procs : out[p] = "failed"

\* What the panel shows is so: busy while its operation works, the status of
\* the last operation, and a switch only once it is published.
PanelIsTrue == BusyIsAlive /\ StatusIsTrue /\ NothingForgotten
=============================================================================

# Deep Agent CLI: a TLA+ model

This directory models Deep Agent CLI, a terminal coding agent: how a message
becomes a run, how a run is steered, interrupted and cancelled, how every piece
of work it owns (graph, model requests, tools, processes, MCP calls,
sub-agents) is reached by a cancel, how configuration, connections and sandboxes
change under it, and what the terminal shows of it all.  The models are written
from the Python code under `src/agent/`; each definition names the lines it
translates in `PROJECT.json` ("map").

Modules are checked with TLC on small instances (`*.cfg`) and, where a
`*Proofs` module exists, proved with TLAPS for all values of the constants.

## 1. The system

### Threads

| thread | what it runs |
|---|---|
| UI loop (asyncio, prompt_toolkit) | key handlers, command tasks, delivery of run events, results of runs |
| worker threads (`run_blocking`) | one runner operation each: `invoke`, `resume_*`, clean-ups, switches |
| tool threads | one per tool call of a graph step; sub-agents run in them |
| stream loop (`llm_stream._LOOP`) | every model request, as an asyncio task |
| MCP loop (`mcp/bridge.py`) | MCP clients and calls |
| sandbox readers and the sandbox worker | events of commands; the worker is a process of its own |

### Components, their state and how they interact

| component | source | state | operations | used by |
|---|---|---|---|---|
| run control | `control.py`, `cancel.py`, `middleware/cancel_tools.py` | active, reserved and last scope (generation, cancel event, graph control), streams per scope, unclosed streams, tool contexts, child controllers | reserve/begin/end run, cancel, drain, open/close tool context, (un)register stream and child, pause | runner, UI, tools, sub-agents, model call |
| input queues | `control.py` | two deques, one counter, `defer_steering` | steer, follow_up, pop, list, reclaim | UI, runner, steering middleware |
| runner | `runner.py`, `middleware/steering.py` | `_operation_lock`, `_closed`, prepared graph, pending configuration, session runtime | invoke, resume, switch, clean-ups, configuration changes, close | UI, CLI |
| terminal UI | `cli/app.py`, `cli/state.py`, `cli/interactions.py` | `running`, `interaction`, run epoch, `cancel_sent`, run task | submit, Esc, dequeue, approve/reject/dismiss, apply event, handle result | user |
| stream bridge | `llm_stream.py` | state, cancel flag, closed event, item queue, slots, task | iter_chunks, cancel, close | model call; cancel by run control |
| model call | `llm.py` | attempt, bridge of the attempt | stream, retry with back-off | graph |
| session ownership | `session_lock.py`, `session_runtime.py`, `runner.py` | OS lease per thread, pending switch | acquire, wait, detach, switch, close | runner, session controller |
| runtime configuration | `runner.py`, `middleware/runtime_config.py`, `session.py` | current and pending model, effort, permission; the session's row | request, apply at a safe point, roll back, save, restore | UI, graph |
| MCP catalog | `mcp/manager.py` | servers, epoch and version, published clients, retired clients, snapshots | connect, enable, add, remove, test, snapshot/commit/discard, close | runner, UI |
| MCP calls | `mcp/bridge.py`, `mcp/adapter.py` | a loop, a lock per connection, futures and tasks | call, acall, cancel, reconnect, shutdown | tools |
| MCP panel | `cli/mcp_ui.py`, `cli/mcp_controller.py` | operation and its generation, switch lock, published revision | enable, disable, add, remove, test, publish | UI |
| sandbox | `sandbox.py`, `sandbox_pool.py`, `sandbox_worker.py` | sandboxes, commands, event queues, processes | run, kill, discard, close | execute tool |
| file access | `sandbox.py`, `sandbox_mounts.py` | mounts, routes, filesystem mode, the running sandbox | read, write, delete, change mode | file tools, commands |
| sub-agents | `subagents/*` | running children, their controllers, logs | start, cancel, detach, log, read a page | task tool |
| CLI lifecycle | `cli/lifecycle.py`, `cli/main.py` | exit phase, owned tasks, deadlines | spawn, request exit, shut down | UI |
| prompts and transcript | `cli/app.py`, `cli/state.py`, `cli/interactions.py`, `stream.py`, `run_events.py` | editor, draft put aside, open prompt, deferred confirmation; blocks | open, answer, dismiss, reopen; apply an event, reload | user |
| session store, attachments, settings, other tools, rendering | the rest | files and SQLite, or none | input and output | all |

Interaction in one run: the UI *reserves* a generation and dispatches a worker
(`_start_run`); the worker takes `_operation_lock`, *begins* the run on the
reservation (`begin_run`), and the graph makes model calls (each *registers* a
stream with the run's scope) and tool calls (each *opens* a context on it).
Events go back to the UI loop as callbacks, the result as the end of a task.
Esc runs `RunController.cancel()` on the UI thread while all of that goes on.
Messages typed meanwhile are queued, taken by the graph between two steps
(steering), by the worker at the end of a turn, or by the UI after the result.

### What is hard

* `cancel()` takes a snapshot under the lock and works through it afterwards;
  every registration that misses the snapshot has to find out by itself.
* A cancel can come before the worker began its run, between two turns, after
  the last step, or after the result: it belongs to one run in each case.
* The operation lock, the reservation and the UI's `running` flag change at
  different moments, and messages arrive in between.
* Loop callbacks, tasks that were cancelled before their first step, and
  threads that block on a queue must not leave a request open or a consumer
  waiting.
* Leases, catalogs and configurations are changed by operations that can fail
  half way, while close() or a switch waits for them.

The list at line level is `hazards` in `PROJECT.json`, with the properties
that cover each.

### What makes each component correct

* run control: a cancel reaches everything its generation owns, and nothing of
  another; a tool's callback runs once; no open request is forgotten.
* input queues: one line of messages; steering never overtakes.
* runner and UI: a cancel holds for the run it was meant for; it settles;
  nothing is refused or left behind at a hand-over.
* stream bridge: bounded buffer, no chunk lost, closed means released,
  cancelled means ended.
* session ownership: one owner per thread; no write without the lease.
* model call: one whole answer, of one attempt; nothing is sent after a cancel.
* MCP catalog: what a graph uses is not closed; what is replaced is closed once.
* MCP calls: in turn, at most once, and each comes to an end.
* runtime configuration: graph, configuration and row agree after any failure.
* sandbox: a killed command ends, whichever of start and kill comes first.
* file access: file tools and commands have one view.
* sub-agents: a cancel reaches them; their log tells how they ended.
* prompts: what the user typed, and was asked, is not lost.
* transcript: what is shown is what a reload shows.
* lifecycle: an exit reaches the owners of work, and ends unless a thread does not.

## 2. Modules

| module | models | composed with |
|---|---|---|
| `RunScopes` | run control | the streams are those of `StreamBridge`, seen as open/closed |
| `MessageQueue` | abstract: the one line of messages the queues promise | |
| `InputQueue` | the two deques | implements `MessageQueue` |
| `RunDispatch` | UI thread, worker operations, run loop | INSTANCEs of `RunScopes` and `InputQueue`, whose actions are conjuncts of its own |
| `StreamBridge` | one model request across consumer, loop and cancellers | |
| `ModelCall` | a call of the model with its retries, and what is shown of it | sees a `StreamBridge` as open/closed, a run as cancelled or not |
| `SessionOwnership` | leases, drafts, switches, waits and close of several windows | sees a run only as "writing" and the queues only as "holds input of a session" |
| `RunnerConfig` | configuration changes, their row and the recovery note | sees the MCP toolset as changed or not |
| `McpCatalog` | the catalog of servers, their connections, the graph's snapshot | |
| `McpPanel` | the /mcp commands | sees the catalog as what the panel reads of it |
| `McpCall` | calls over one connection | |
| `SandboxCommand` | pool, sandbox, worker and commands | |
| `FileAccess` | mounts, routes and modes | |
| `Subagents` | delegated runs and their logs | its controllers are `RunController`s, as flags |
| `HumanForm` | the form of a question and the check of its answers | |
| `Prompts` | dialogs and the editor under them | runs, loads and compaction as what other threads do |
| `Transcript` | events, blocks and the checkpoint they are rebuilt from | |
| `CliLifecycle` | leaving the program | tasks by kind |
| `RunScopesProofs`, `RunDispatchProofs`, `SessionOwnershipProofs`, `McpCallProofs`, `RuntimeProofs`, `RequestsProofs`, `SandboxCommandProofs`, `ToolsProofs` | theorems, section 4 | |
| `MCRequests`, `MCRuntime`, `MCTools` | several components that share no state, checked in one run: a variable says which of them a behaviour is about | |
| `MCSandboxCommand`, `MCFileAccess` | values of constants | |

### RunScopes

State: the fields of `RunController` (`active`, `reserved`, `last`,
`streamScope` for `_stream_scopes`, `unclosed`, `activeTools`, `children`) with
a *generation* standing for a `RunScope`; `cancelEvents`, `controls` and
`drains` are the generations whose event is set, whose graph control exists,
and whose graph was asked to drain.  Tools have a context each
(`toolEvent`, `ctxCancelled`, `callbacks`, `calls`, `killed`).

Steps: one action is one critical section of the lock or one call made outside
it.  `Cancel(c)` is the critical section of `cancel()`; what it copied is
`job[c]`, worked off by `CancelChild`, `CancelStream`, `RequestDrain`,
`CancelTool` in the code's order.  `OpenToolContext`, `CheckCancelRequested`,
`RegisterTool` are the three critical sections of `open_tool_context`.
`BeginRun` leaves `beginDrain` for the `request_drain` that `begin_run` makes
after it released the lock.  Order within one list of `cancel()` is left open:
no property depends on it.

Abstracted: the payload of a stream (one `StreamCloses`), the body of a tool
(it may start a process, end, or be skipped), the controller of a sub-agent (a
flag; it is the same class).

### InputQueue and MessageQueue

Messages carry the number `_queue_order` gave them.  `PopSteering(cancelled)`
takes `cancel_requested` as a parameter, so the module does not depend on the
scopes.  The abstract line is the merge of the deques by number; a step of the
deques is a step of the line or a stutter.

### RunDispatch

`ops` are the operations the UI dispatched, each with the place its thread is
in (`phase`): `_exclusive_operation` (waiting, acquired, entered, releasing,
unlocking), `_stream` (graph ... ending), and then the UI's `work()` (returned,
handled, done).  Handlers of the UI thread do not overlap; `uiWork` and
`startQueued` hold a handler that consists of several critical sections, and
`scopeJob` a `cancel()` in progress.  `events` are callbacks on their way to the
UI loop.  The graph itself is external: between `begin_run` and its result it
may take steering, checkpoint, complete, fail, interrupt or drain; after it was
asked to drain it starts no new step but may still commit the one it is in.

### StreamBridge

`ready` are the callbacks handed to the loop (`call_soon_threadsafe`), `queue`
the items between task and consumer, `pump` the task between two awaits,
`cancelled` a `task.cancel()` not yet thrown.  asyncio is external: a task
cancelled before its first step never enters its body; shutting the loop down
cancels and awaits the tasks it knows and drops the rest.

### SessionOwnership

Each *window* is a process with one runner.  `locked` is the file lock of each
session, `rows` the catalog, both shared; the rest is the memory of a window:
`threadId`, `lease`, `draft`, `pendingSwitch` of `SessionRuntime`, `opLock`,
`closing` (how far `close()` came; one that timed out goes on from draining),
and `op`, what each calling thread does.  An action is one call of the lock, the
catalog or the graph, or one group of assignments; a wait is a poll that acquires or stops.  `config` is the session
whose model and permission the graph was built for; `inbox` is the session the
oldest queued message was typed at.  A process may end between any two steps,
which drops its locks and its memory and leaves the catalog.

Abstracted: what a switch loads and which of its steps failed (`SwitchFails`,
before or after the graph was rebuilt); the rebuild of the old graph succeeds;
whether a request of an ended run closes in time (`ConfirmStreams` either way);
the interrupt that lets the user type at an idle session (any session in the
catalog may wait for the user).  A lease object that becomes garbage without
`release()` drops its lock with its file, so an exception that loses one is
not a step of its own.

### ModelCall

`pc` is the calling thread of `_generate_with_cache`, `attempt` its counter.  A
chunk is the attempt it came with and its number, so that the text a callback
gathers (`gathered`) and shows (`shown`) can be compared with what one attempt
sent.  `_stream` and `_astream` are one set of actions: they differ in how they
wait.  The server may send, end, break off or refuse at any time.  The
error paths of the retry loop come down to three (another attempt, given up, raised at
once); an exception of a callback is none of its own.

### RunnerConfig

`config`, `pending` and `graph` are the fields of `AgentRunner`, `row` is the
session's row with what the checkpoint has of the thread.  A rebuild, the write
of the row or of the pending record may fail (`Failing` says which); `at` is the
operation that holds the runner.  A change is applied between runs or at the
boundary the middleware interrupts at, as in `_resume_config_boundaries`.
`Compact` is `/compact`, which writes STOP to the row and nothing else
(`compacted` in the model, to tell it from the STOP of a run).  The instance lets the
rebuild of a change and the write of the row fail (`Failing = {"rebuild", "touch"}`);
the two other failures, of the pending record and of the rebuild of a rollback, are
section 5.

### McpCatalog, McpPanel, McpCall

`McpCatalog` has one action per critical section of `MCPManager._lock` and one
per wait outside it: an attempt to connect opens a client with no lock held and
publishes it only if the server's version, the epoch and the entry are still its
own; the safe point snapshots, builds, and commits or discards.  Counters that
the code only compares are flags.

`McpPanel` is the event loop's side: commands and operations are tasks, a step
is what lies between two awaits, and the catalog is what the panel reads of it.
The wizard that asks for a new server's fields is left out.

`McpCall` follows a call through `_bridge_tool`: the caller polls its future,
the event and the deadline; on the bridge's loop the task waits for the
connection's lock, reconnects if it must, calls, and unwinds.  `future.cancel()`
takes effect on the future at once and on the task by a callback (`posted`,
`thrown`), which is where the races are.  Two things the code does and the model
shows, which no document promises otherwise: an answer that arrives between the
end of a polling slice and the look at `future.done()` is lost as a bare
TimeoutError (`SliceChecked`), and a synchronous caller does not wait for the
unwinding, because the future it waits for is already cancelled.

### SandboxCommand and FileAccess

`SandboxCommand` has the pool, the host side of each sandbox, the pipe and queue
between reader and tool, and the worker inside.  A tool's thread is followed
through `_run_in_sandbox`: acquire, register, start, take events, kill, wait for
the confirmation, give the sandbox up.  The sandbox may end by itself.  When the
shell of a command ends nothing is killed: what it started in the background may live on
(`background`) until it ends, the sandbox does, or a kill reaches the group while the
command is still in `_running` (`docs/sandbox.md:141`).  A kill that arrives later reaches
nobody, as the document says of it (`docs/sandbox.md:144`).  Output is modelled up to
the exit of the shell: what a background process prints after the 100 ms for which the worker
then still reads is not read, and a process that left its group (`setsid`) is not told
apart from one that is in it.  As
`discard()` stops a sandbox outside the lock, a new one of the same mode may
start while the old one ends: "at most one per mode" is not a property.

`FileAccess` builds the mount table and routes from a configuration, resolves
paths as the file tools do, and as a command does in the namespace bwrap made,
and compares the two.  In full access bwrap makes new directories around a mount point
the host does not have, with a mount for each entry the host's directory has at that
moment (`Mirrored`, `sandbox.entries`).  A path that came or went since is `Apart`:
a command sees something of its own there (`Own`), a file tool the host's.  `OneView`
makes an exception of these paths, and `FileAccess_land.cfg` shows them (section 5).

### Subagents

A call of the task tool is admitted under the manager's lock, runs with a
controller of its own, and appends records to its log.  A write that fails, and
a process that dies, leave nothing of a line, a part, or all of it (`Appends`, `Crash`);
the next record is glued to a part (`Torn`), and the page reader, which gives records from
an offset, ends its pages before such a line.  Left out: a part that lacks only the end of
the line, and the record of a clean-up that failed.

### Prompts, HumanForm and Transcript

`Prompts` is the UI loop with everything that takes the editor away from the
user: approvals, questions, pauses, the ALLOW confirmation, pickers.  `ui` holds
the fields of the application, `typed` and `spent` the texts that were typed and
those that were sent or cleared, so that a text that is neither spent nor
anywhere to be seen is one that was lost.  Two keys clear the editor within a question
(`ClearAnswer`): Shift+Tab, to the question before it or out of "Other", and the Esc
that leaves "Other".  A question does not put the draft aside that was in the editor
when it opened, so they clear it too, and, unlike a text answer (`AnswerField`), they do not
leave it in the history; `TypedKept` counts such a text among those the user cleared
(section 5).  The answers themselves are no texts of this module.  A text that was sent may be typed
again, so the instance has no bound on what the user does: two texts and two
workers give a complete and finite space.  A worker that has told its last event
and hands a queued message on is replaced by the run it starts.  The user of
`Hasty = FALSE` waits in four places: between the last event of a run and its
result, with whatever would start another run or move a dialog, and so between an
interrupt and the approval that shows it; with an approval, a picker of sessions
or skills, or F2, while a run or a switch is under way; and, inside an approval or
a skill picker, with Alt+Up.  Section 5 has what happens otherwise.

`HumanForm` follows the fields of a question from the tool's arguments to the
values a resume accepts.  `AnswersAreShown` says that no answer is hidden; the other way
round the code does not keep it (`CheckedIsSelected`, `HumanForm_other.cfg`, section 5).
In a single selection "Other" stays marked after another option was taken, so nothing is
claimed of it there.  In a multiple selection a text that is an option's value as well
is taken away with the option and stays marked; `CheckedUnlessOffered` is what remains.

`Transcript` streams a run of several model and tool steps: events build the
blocks of `CliState`, and the checkpoint keeps the messages
`messages_to_transcript` rebuilds them from.  `faithful` is lost when a run is
cut short: what was on screen then is not in the checkpoint.  A `/compact` adds messages to
the checkpoint without an event (runner.py:641-665); it is between runs and left out.

### CliLifecycle

Every synchronous method of `AppLifecycle` is one step of the loop.  A task is a
run, a wait or an MCP operation (its owner is told, shutdown watches) or a
helper (shutdown cancels it).  Whether the run is told depends on `running`, what the UI
shows (`_signal_owners`, lifecycle.py:161), which may be off while a run is alive; `missed` are
the runs of which that was so.  `entered` is the run in `_stream`: `close()` cancels it in any case
(runner.py:1019).  A write to a terminal that is gone may raise in `request_exit`, and then
nobody is told before `close()`.

`main` goes on after the loop: `close()`, then the end by the signal, or the end of the
interpreter, which joins the threads of the executors.  These are no daemons, and
`shutdown(wait=False)` does not wait for them but does not let go of them either: a run, or
the thread of a cancelled helper (`orphans`), that does not end holds the process up
(`HeldUp`).

## 3. Runs

| run | what it asks | bounds |
|---|---|---|
| `scopes` | a cancel reaches everything its generation owns, and takes effect | 2 cancelling threads, 1 tool, 1 stream, 1 sub-agent, 2 generations |
| `dispatch_queue` | a cancel and a reservation belong to one run; the run ends and is reported | 2 messages, 2 operations, up to 5 generations |
| `dispatch_approval` | approvals, resumes, clean-ups among operations | 1 message, 3 operations, 1 of them a clean-up |
| `ownership` | a run writes under its lock; nothing is left behind by a failed or stopped step; a stopped wait ends | 2 windows, 3 sessions (1 saved), 4 calls; close(), input and a second caller in one window |
| `requests` | the deques are one line; chunks arrive, closed means released, cancelled means ended, with the loop shut down at any moment; retries; leaving the program, also with a terminal that is gone | 2 texts, 4 submissions; 2 cancelling threads, buffer of 2, 3 chunks; 2 retries, answers of 2 chunks; 2 tasks of any kind |
| `mcp_call` | the calls of a connection take turns, and end | a synchronous and an asynchronous call, the first with a cancel event |
| `runtime` | connections match their use, configuration and row agree, the panel tells the truth | 1 server name, 2 entries, 3 clients, 2 threads besides the safe point; 2 models, 2 sessions, 5 steps of the user, of which a `/compact` is one, a rebuild or a write of the row may fail; 2 operations, 2 steps of the panel |
| `sandbox` | shells, background processes and sandboxes are accounted for; the exit is the last event | 2 commands, 2 sandboxes, queue and pipe of 1, 1 piece of output |
| `terminal` | the transcript is settled and is what a reload shows | 2 calls of which one asks the user and one delegates, answers of 1 chunk, 3 messages, retries, failures or pauses |
| `tools` | one view of the files; sub-agents and their logs; forms; input and prompts are kept | 2 operations on a tree with links and nested mounts; 2 calls of which 1 runs at a time, 1 failing write that leaves nothing, a part or all of a line, a log read while the other call has written nothing (`LogReadAlone`); 2 fields of at most 1 option, 2 texts of which one is an option's value; 2 texts and 2 workers, any number of steps of the user |
| `subagents_split`, `mcp_call_queued` | disagreements, section 5 | as in `tools` and `mcp_call` |

The properties a run checks are conjunctions of the named properties of the
component; `CancelReachesAll`, say, has a part for tools, processes, streams,
children and the graph.  `requests`, `runtime` and `tools` each take
components that share no state, one of them in each behaviour: what they say is
what a run for each would say.  Configurations named after one component
(`Prompts_small.cfg`, `CliLifecycle_small.cfg` and so on) check that component
alone, part by part, with its type invariant.

Why the bounds are enough.  The races are between one owner (a tool, a
stream, a sub-agent) and cancels: two cancellers cover two that overlap, and
owners do not interact with each other, so one of each kind is enough; two
generations give a run and the one after it, also as two turns of one run.
Four submissions make every order of heads in two deques, with something
behind each.  Two operations are one run and the one that follows; a third lets
a clean-up run between a run and its resume.  A buffer smaller than the number
of chunks fills, blocks the task and drains.  For sessions, four calls are a
window that takes a session, another that meets it, waits for it, and runs in
it, or any other such history; a lock has one holder and one window that wants
it, so two windows are enough, and three sessions are a draft for each and one
to meet at.  Two retries have an attempt before, between and after.  A
connection has one call in its turn and one that waits.  Servers of the catalog
meet only in the epoch and the switch, so one name with two entries, tried by
two threads while a third builds, has every overtaking; three clients are one in
use, one retired and one being opened.  A queue of one is always full or empty,
and two commands are one that fills it and one that waits behind it.  Two
operations of the panel are one that is overtaken and one that overtakes.  Two
workers are the run of the UI's epoch and one it left behind; one text can be in
the editor while the other is put aside or queued.  A
mount in a mount, a link across and a protected path below are all that
resolution tells apart.  `LogReadAlone` is a state constraint of `tools`: each
sub-agent has a file of its own and a read changes only what its reader has,
so reading one log beside the writing of another adds interleavings and no new
page; the specification and the theorem `LogsAreTrue` are without it.

`runtime`, `sandbox` and `tools` use symmetry (clients; commands and sandboxes; calls
of the task tool), which is sound there because they check no liveness property.  `CHECK_DEADLOCK FALSE` is
used where stopping is right: the generations, operations, calls, steps or
budgets of the instance are used up.  In `requests` and `mcp_call` TLC checks
for deadlocks; `Over` is the step of what is finished, and in `StreamBridge` of
a consumer that waits for its own lock (section 5).

### Fairness

* `RunScopes`: a thread inside `cancel()` or `open_tool_context` is scheduled
  again; a cancelled request closes (that is `CancelledRequestCloses` of `StreamBridge`), a killed process
  ends.  A tool or a process need not end by itself.
* `RunDispatch`: the UI loop goes on, so do worker threads outside the graph;
  a graph that was asked to drain returns.  A graph that was not may run for
  ever, and the user need not press anything.
* `StreamBridge`: the consumer, the loop and cancelling threads go on; the
  model call asks for the next chunk or closes its iterator; a closing
  response closes; bounded waits end.  The model need not send anything and
  nobody need cancel.
* `ModelCall`: the calling thread goes on, and a request that was told to stop
  stops (the bridge's property above).  The server need not answer.
* `CliLifecycle`: the loop runs what is ready, the deadline of shutdown is a timer, and
  what `main` does after the loop comes to the end of `close()`, whose waits are bounded
  (`WF` of `MainStep` and `Deadline`).  No task and no thread need end, and the user need
  not leave; hence `ExitEnds` ends in `Gone` or, without a SIGTERM, in `HeldUp`.
* `McpCall`: callers poll, timers end, the bridge's loop runs what is ready, and
  what unwinds or closes comes to its end (both are bounded in the code).
  Nothing is assumed of the server.
* `SessionOwnership`: a wait polls again (`wait_acquire` sleeps a fixed time).
  No run need end and no window need release anything.

All of it is weak fairness: none of these steps is enabled and disabled again
and again while its thread is ready.

### Preconditions in properties

`CancelKept`, `CancelledOnlyByUser` and `DeferredOnlyAtInterrupt` are stated for histories in
which no operation was dispatched before the one before it had returned
(`~Overlapped`), because the code does not keep them otherwise
(`RunDispatch_early.cfg`, `RunDispatch_deferred.cfg`).  Runs
still follow one another, continue, are resumed and cancelled at any time.
`SlotsConserved` is about a stream that is not cancelled: a cancelled consumer
throws chunks away without their slots, which is all right because the task is
ending.  `WriterHoldsLock` is about runs that entered before `close()` had
drained the runner (`~late`; `SessionOwnership_close.cfg` has the others).  A
liveness property of `StreamBridge` allows for a consumer that is blocked on its
own lock (`StreamBridge_blocked.cfg`).  The prompts in `tools` are checked with
`Hasty` and `MayRaise` off: the user waits where section 2 says, and a resumed run
does not raise (section 5); what holds without either is proved (`PromptsTakeSteps`,
`WorkingIsWork`).  `runtime` is checked
with `StoreFails` off and without a failing write of the pending record or a failing
rollback (section 5); `NoteMatchesCatalog` leaves out a note that the row forgot by a
`/compact` (`Forgotten`).  `OneView` leaves out what is `Apart`, `LogIsTrue` a last line that
is `Torn`, `OwnersTold` the runs in `missed`.
`JoinedIsUnwound` is about joins that did not time out, with the bridge open.

## 4. Theorems

Each `*Proofs` module EXTENDS the module it is about and proves, with TLAPS, what
its runs check on small instances, for every value of the constants.  The
argument is the same throughout: an inductive invariant `IInv`, checked with
TLC before it was proved, `Init => IInv`, `IInv /\ [Next]_vars => IInv'`
with one lemma for each action or each group of actions with the same effect,
and `IInv => P`.

**RunScopesProofs**, from `MaxGenAssumption` only, for every set of cancellers,
streams, tools and children:

* `TypeCorrect`: `[]TypeOK`.
* `EveryPartIsReached`: `[]CancelReachesAll`: tools, processes, streams, children and the
  active graph.
* `CallbackRunsOnce`: `[]CallbackAtMostOnce`.
* `NoStreamForgotten`: `[]OpenStreamsAccounted`.
* `ReservationNotReused`: `[]ReservationIsFresh`.

The properties are not
inductive alone.  That a cancel reaches a tool needs: the context is on
`activeTools` from its registration to its end (`ToolsListed`), so that a
snapshot taken later holds it; and the callback is with exactly one of
`register_callback` and `request_cancel` (`CallbackOnce`), so that a tool
which is armed and was not called is still asked by the snapshot that holds
it.  That the process dies needs `KilledIfCancelled`.  For streams and
children: nothing is attached to a generation that is not active
(`StreamsAttached`), and the generations in use were drawn from the counter
(`GensDrawn`), so a generation that begins is not one whose cancel already
went by.

**RunDispatchProofs**, from no assumption at all: the bounds `MaxOps`, `MaxOrder`, `MaxGen`
only disable steps.

* `ReservationsAreReleased`: `[]NoReservationLeaks`.
* `CancelsAreMeant`: `[]CancelledOnlyByUser`.
* `EscIsKept`: `[]CancelKept`.
* `SteeringIsHeldForInterrupts`: `[]DeferredOnlyAtInterrupt`.

The first needs `ReservationOwned`: whatever is reserved belongs to an operation
the UI has not handled, so the last of the three that may release it does.  The
others are about behaviours in which no operation was dispatched before the one
before it had returned (`~Overlapped`), and rest on `Separate`, which says what
such a behaviour looks like: one operation is under way, the last
(`LastUnderWay`); its reservation is in force until it begins and no other is
(`InForce`, `OnlyInForce`); and the generation reserved or active is cancelled
exactly if Esc was pressed in its epoch (`CancelledByEsc`, `EscHolds`).  That
hypothesis is needed: section 5 lists what happens without it.  Proving
`DeferredOnlyAtInterrupt` showed that it had held without the hypothesis only because the run was too small;
with two messages and three operations TLC finds the behaviour of
`RunDispatch_deferred.cfg`.

**SessionOwnershipProofs**, from `BoundAssumption`, `SavedAssumption` (the rows a
start finds are sessions) and `NoneAssumption` (what stands for
`None` is no session, window or caller), for every number of windows, callers and sessions:

* `OwnershipTypes`: `[]TypeOK`.
* `RunsHoldTheLock`: `[]WriterHoldsLock`.
* `StepsLeaveNothing`: `[]NothingLeftBehind`.

`WindowOK` says for each phase of each operation which locks its window has:
the lease, the one it carries between `try_acquire` and the hand-over, and none
besides (`LocksAccounted`).  `DraftsDiffer` keeps two windows from persisting one
draft.  A step belongs to one window, so the lemmas `OtherWindows` and
`OtherCallers` say once that the rest stays as it was.

**McpCallProofs**, from `NoCallAssumption`, for every number of calls:

* `TypeCorrect`: `[]TypeOK`.
* `OneCallAtATime`: `[]CallsTakeTurns`.

The call that uses the session is the holder of the lock (`Turns`), so there is one;
a call before its turn was not sent (`Unsent`); a caller that polls finds a
future done only when the task is (`PolledIsLive`).

**RequestsProofs** is about `MCRequests`, in which bridge, call, exit and queues take
turns, and so proves about four components: from `BridgeConstants` (a buffer of at least one),
`CallConstants` (natural numbers) and `MaxOrderAssumption`.

* `SteeringKeepsItsPlace`: `NoOvertaking`, an action property, from `OrderKept`
  (`[]QueuesAscending`): both deques ascend, share no number, and lie below the
  counter; then comparing two heads compares the queues.
* `EveryChunkArrives`: `[]ChunksArrive`, and `ClosingReleases`: `[]ClosedMeansReleased`.
  `SlotsKept` and `Arriving` follow slots and chunks through the task, the loop's
  callbacks and the buffer; `CreateFirst` says that the task is created before
  anything else of the request is ready in the loop.
* `AnswersAreWhole`: `[]OneWholeAnswer`, and `CancelSendsNothing`: no request after the cancel, the
  safety part of `CancelStopsCall`, an action property.  `ReadInOrder`: what was gathered is what
  this attempt sent, in order, so a retry starts from nothing.
* `ExitTellsAndAccounts`: `[]ExitAccounts`, for any number of tasks and with every write to
  the terminal allowed to raise.  Its three parts: whoever was alive when the owners were told was told,
  or is a run the UI did not show (`OwnersTold`); in `close()` the run at work and every wait
  have been told whatever happened before (`ClosingTells`); and shutdown names what it did not see
  end (`NothingUnaccounted`).  `RunsKnown` and `LiveIsTracked` follow a task through
  the tracked list and the drain.

**RuntimeProofs** is about `MCRuntime`, in which catalog, settings and panel take turns.
The catalog first, from `ThreadAssumption` (the safe point's thread is one of the threads)
and `NoneAssumption` (what stands for `None` is no name and no client), for any number of
servers, clients, attempts and threads:

* `PinnedAndTracked`: no connection a snapshot holds is closed, none that is open is
  forgotten, and one that was replaced is closed once nothing uses it.
* `ConnectionsAreThoseInUse`: `[]ConnectionsMatchUse` under `StoreFails = FALSE`.
* `CatalogTellsTheTruth`: `[]CatalogIsCurrent`.

A connection is in one place at a time: in the catalog's list (`ListedOnce`),
among the retired ones a snapshot pins, in the hands of the thread that opens it
(`NewUnlisted`) or of the one that closes it (`ClosingUnused`); so a step that
closes one takes it from nobody.  `SnapshotHeld` and `GraphKept` say whose
tools the graph calls between the build of a graph and its commit.  The second
theorem needs its hypothesis: with a `touch` that fails after the commit the graph goes
back to connections that are closed (section 5).  For the third: an attempt in force
has one owner at a step that can end it (`OwnersWork`, `OneEach`), and whoever
waits has such an owner to wait for (`WaitersAreServed`), so nobody waits for an
attempt that was given up.

Then settings and panel, from `ConfigConstants` (the active model is a model, what stands
for `None` and for the draft is no name of anything else, `Failing` names steps) and
`PanelConstants` (operations, commands and "nobody" are different), for any models,
efforts, sessions, operations and commands:

* `SettingsAreInForce`: the graph is the one the settings describe and the effort is one
  the model has, with every step allowed to fail.
* `ConfigurationAgrees`: `[]ConfigConsistent`, and `InterruptedGraphStays`:
  `InterruptKeepsGraph`, an action property; both with `/compact` at any time between runs,
  and under `OnlyBuildsFail`, that neither the
  write of the pending record in a switch nor the rebuild of a rollback fails.  With such
  a failure row and settings do come apart: `MCRuntime_commit.cfg` shows the first,
  section 5 tells of both.  `RowInForce` (the row of the session that is open is the settings in
  force, also in the middle of a run) and `NoteFits` are the invariant.
* `PanelTellsTheTruth`: `[]PanelIsTrue`.  That a status is true when all is quiet needs to
  know who will correct one that is not true yet: `LineIsMinded` names for each text the
  operation, the command or the run that is still to write it, and `WantsTrue` and
  `OneWrites` that only the newest switch does so.

**SandboxCommandProofs**, from `CloserAssumption` (the closing thread is none of the calls,
"nobody" is no thread), `SandboxAssumption` (what stands for `None` is no sandbox) and
`BoundAssumption` (queue and pipe hold at least one message), for any number of calls,
sandboxes and chunks:

* `TypeCorrect`: `[]TypeOK`, with the bound of every queue.
* `CommandsAreAccounted`: `[]CommandsAccounted`.  A shell lives only in a sandbox that is
  up and that its call still has (`LivesRuns`), a call that returned has none (`Places`),
  and one that gives its sandbox back without stopping it was told that its command ended
  (`AtRelease`, which rests on `EndReported`: an end on its way or in a queue has
  happened).  What a command left in the background is in a sandbox that is up, and there
  is none of a command that was lost or whose kill was not confirmed (`BackgroundKnown`).
  `Owned` names, for a sandbox that is up and not the pool's, the thread that
  starts or stops it.
* `ExitIsAfterOutput`: `[]ExitAfterOutput`.  A chunk that was made is in the pipe, in the
  queue or seen (`OutputCounted`), which holds from the send on because the call is
  registered before it sends (`RegisteredIsMine`) and nothing is about it by then
  (`NothingYet`); no chunk comes after the exit (`ExitIsLast`), as a command is started
  once (`RunOnce`).  So when the exit is taken there is nothing left in either channel.

The lemmas about channels (`AppendTo`, `TailOf`, `OutsAre`) say once what a message put at
the end or taken from the front changes; the step of one call leaves the others
`Undisturbed`, whose parts of the invariant then need no argument of their own.

**ToolsProofs** is about `MCTools`, in which files, delegated runs, forms and prompts take
turns, and proves about the last three: from `TaskConstants` (`NoCall` is no call,
`MaxConcurrent` a natural number), `FormConstants` (bounds of the fields are natural
numbers) and `PromptConstants` (there is a worker, what stands for no draft is no set of
texts), for any calls, texts, options, fields and workers:

* `ChildrenAreCancelled`: `[]ChildrenCancelled`.  From the moment the parent is cancelled a
  child that runs is stopped or among those the cancel has still to reach
  (`CancelOnItsWay`); a child is active, attached and has a request only at the places of
  its run that say so (`Lifetimes`).
* `LogsAreTrue`: `[]LogIsTrue` if no crash and no failed write cuts inside a character
  (`"split" \notin Parts`, which cannot be dropped: run `subagents_split`), and
  `LogsTellTheSame`, its part about the
  answer, without that; both with any number of failed writes, each of which leaves
  nothing, a part or all of its line.  `LogOf` says for each place of the run what the log has and the
  caller was told; `Pages` that a reader has the beginning of a log, and all of it, or all up to a
  torn line, when it was told that there is no more, because then nobody writes it.
* `ChildrenAreLimited`: `[]Task!TypeOK`.  The call that passed the checks under the
  manager's lock has a place kept for it (`PlaceKept`).
* `FormsAreAccepted`: `[]FormAnswers`, which claims nothing of a marked "Other" in a single
  selection.  The fields before the one the form shows have what
  they require (`Answered`).  Of the answers to a field at most one was not offered, it is
  the free one, and it is there as long as it is shown (`Sound`); that a second one is
  never typed in a multiple selection is `NoneWhileTyping`.  The lemmas about `Without` say
  what is left when the first or the last of the equal answers is taken out; those about
  `Picked`, that what is selected of a list is a list.

* `WorkingIsWork`: `[](Prompt!TypeOK /\ Prompt!WorkingMeansWork)`, and `PromptsTakeSteps`:
  `PromptSteps`, three action properties, for every user and every end of a run.
  `RunningWorks` is what "Working" needs: it is shown of the run of the epoch, and
  no longer than until its last event unless that run raised.
* `InputIsKept`: `[]InputKept` under `~Hasty` and `~MayRaise`, and `NothingTypedIsLost`, its
  part about texts, for runs that may raise; a text is kept until a key clears the editor,
  Shift+Tab and Esc within a question among them.  `RunsAlone` says that a run is the only
  one, under no dialog of a run and beside no switch, and was started for, or ended
  with, what the session waits for; `DialogsApart` that a text is put aside only under
  the dialog that gives it back, with the editor empty.  So a second text is never put
  aside over the first, and nothing is typed over one that comes back.  The
  hypotheses are needed (section 5).

Two proofs corrected the model.  The forms had been given only texts that no option has;
with a text that is an option's value the free answer need not be selected, which TLC
then showed (`HumanForm_other.cfg`).  The prompts had been checked for three steps of the
user and texts typed once, and `InputKept` is not inductive there for a reason: a fourth
step is enough to lose a text, by the result of a run that comes late (section 5).  The
bound is gone, and the hypothesis says that the user waits for a run's result.

Only model-checked:

* `TranscriptSettled` and `ReloadShowsTheSame` of the transcript: they compare two folds over
  the messages recorded, an induction over data;
* `OneView` of the file access: it depends on the tree of the instance, whose `Virtual`
  paths must be closed under what resolution reaches, and its mounts are selected from a
  list, which the provers know nothing of;
* all liveness: fairness and ENABLED are out of TLAPS' reach;
* that the deques implement `MessageQueue`: the merge is a sort, defined by
  recursion over its length.

## 5. Where the code does not do what is said of it

Two have a run:

1. `mcp_call_queued`: `docs/configuration.md:92` says that a call cancelled
   while it is queued is not sent.  The cancel event is polled by the caller
   every 50 ms and not read after the lock was taken; when the call before it
   ends within the slice, as it does when one Esc cancels both, the next is sent.
2. `subagents_split`: a log line cut inside a UTF-8 character raises
   UnicodeDecodeError while the file is iterated, outside of the handler for the
   "partial final line" a crash may leave; the page fails with all the complete
   records before it.

The others have a configuration each, for TLC to show (`tlc -config X.cfg M`):

3. `RunDispatch_refused.cfg`: `run_completed` is shown, and the UI takes the next
   message as a new run, while the worker still holds the operation lock; the
   run is refused with "Runner already has an active operation".  `docs/tui.md:113` promises
   that input arriving at the hand-over is processed.
4. `RunDispatch_handover.cfg`: an Esc too late for a run that completes stays on the
   scope that is now `_last`; `pop_steering` reads `cancel_requested` from it
   and hands nothing out, so a steering message typed after it is not started.
5. `RunDispatch_early.cfg`: an attachment clean-up that enters the guard between the
   reservation of a run and its `begin_run` takes the reservation for its own
   and releases it, with the cancel kept on it.
6. `StreamBridge_blocked.cfg`: `_start` calls `_finish` with the bridge's lock held when
   the loop was closed in the meantime; the lock is not reentrant.
7. `SessionOwnership_close.cfg`: `_exclusive_operation` reads `_closed` before it takes the
   lock and not again; a run between the two when `close()` drains enters
   afterwards and writes on when the lease is gone.  The docstring of `close()`
   says the lease is never released while a run can still write.
8. `SessionOwnership_input.cfg`: a switch asks once, at its start, whether input is
   queued; a message queued (without the operation lock) before the switch
   commits stays in the queue and goes to the other session.
9. `MCRuntime_commit.cfg`: the docstring of `_load_and_commit_switch`
   (runner.py:888-895) says that `touch` is the only fallible operation left and
   that `adopt` is the commit point.  `_save_pending_config` is called after
   `adopt`; when that write fails the switch is reported as failed although the
   target session is adopted, with the pause and the recovery note of the
   session that was left.
10. `Transcript_summaries.cfg`: the summary line of a turn stands in another place
   after a reload when steering continued the turn (`docs/tui.md:179`).
11. `FileAccess_land.cfg`: in full access bwrap makes a directory of its own, in memory,
    around a mount point the host does not have (sandbox.py:1424-1454), with a mount for each
    entry of that moment.  A command that writes a new file there writes to that directory, while a
    file tool reads and writes the host's at the same path; a file the host removes
    stays for commands.  `docs/sandbox.md:54` says writes land in the environment,
    `docs/sandbox.md:170` that file tools agree with the mounts of the mode.
12. `RunDispatch_deferred.cfg`: F2 opens the approval again while the run it resumed is in
   flight (`_reopen_pending_interaction` has no guard against one).  Dismissing
   it shows the run as idle, so the next message starts a run beside it; when the resume
   interrupts again it defers steering, and the other run goes on from the interrupt
   with steering still deferred: a message typed then does not reach its next
   model call (`docs/tui.md:110`).
13. `HumanForm_other.cfg`: an "Other" that is marked and no answer.  In a single
    selection, going back and taking another option leaves `custom_values` as it was
    (`cli/interactions.py:311-335`), so that "Other" stays marked beside that option
    (359-363).  With `Texts = {"a"}` the configuration shows the same of a multiple
    selection, for a free text equal to an option's value: a toggle of that option
    removes the text from the answers while the free answer stays marked, and the next toggle
    of the free answer looks for it in vain: `index` raises ValueError
    (`cli/interactions.py:274-276`).  `tests/test_cli_interaction.py:68` has a free answer
    that can be removed.

And these, with the constant that lets the step happen, or outside a model:

* `Hasty = TRUE` in `Prompts_small.cfg`: Alt+Up while an approval is open puts
  the queued messages into the approval's editor, and Esc restores the draft
  over them (`docs/tui.md:93`).  `/resume` of a session that is still loading
  and F2 leave a draft put aside behind.  And `_handle_result` (app.py:2631-2661) does
  not ask whether the result is of the run of the epoch: the result of a cancelled run
  that arrives after the next run began sets `running` to False, so that the message
  after it starts a run beside the live one; the result of a completed run starts a
  queued message beside one.  Of two runs one may end at an approval while the other's
  result replaces its dialog: the draft put aside stays behind, and overwrites later
  what was typed in the meantime.
* `MayRaise = TRUE` there: a deferred ALLOW confirmation does not come back when
  the resumed run raises (`docs/tui.md:147`).
* Shift+Tab in a question (app.py:2189-2209) and the Esc that leaves "Other" (app.py:1627-1635)
  reset the editor.  A question does not put a draft aside (app.py:2932-2934, an approval does,
  2925-2929), so a draft that was typed before the question opened is cleared with it, and is not in
  the history; `docs/tui.md:144` promises a draft back of approvals only.
* Leaving the program (`missed` and `HeldUp` in `CliLifecycle`): when the write or flush in
  `request_exit` raises because the terminal is gone, the owners of live work are not told
  before `close()` (lifecycle.py:147-149, app.py:766-770, against the docstring
  of `request_exit`).  A run that is alive while `state.running` is False (after F2 during a resume
  and a dismiss, app.py:2881, or a late result, app.py:2633) is not told by `request_exit` or
  `shutdown` (lifecycle.py:161), only by `close()`, after the 2 s of the drain.  And
  a worker thread of the executor that does not end holds the process up at the
  exit of the interpreter, which joins it; only an exit by a signal ends the process all the same.
* `/compact` writes STOP to the row (runner.py:672-673) and leaves `_resume_context`: the window still
  tells the model of an abnormal end, once, which a restart no longer would (`Forgotten`).
* A write of a log that fails on a full disk (log_store.py:61-63) may leave a part of a line.  The
  next record is appended to it; that line is no JSON, and the pages of the log end before it, also
  when it has the finish of a run that completed (`Torn`).  Errors of the records a tool
  writes are swallowed by the callbacks, so that nothing else tells of it.
* Of a single selection the options that are a part of the answer's text are marked
  (`option.get("value") in selected` is a test of substrings, `cli/interactions.py:359-363`), and
  going back to a boolean field answered True makes that test raise TypeError.
* `StoreFails = TRUE` in `MCRuntime.cfg`: when `touch` fails after a graph with a
  changed MCP toolset was built, the runner takes its old graph back
  (runner.py:513-514), while the catalog has already published the new
  connections and closes those the old graph calls.
* Closing the review of a diff sets the status to "Ready" and so hides
  "Approval still pending" (`docs/tui.md:146`); F2 right after an approval opens
  it again, and Esc then shows the run as idle while it goes on.
* After `/clear` in the middle of a run, output of a call without a block goes to
  the block of another running call (`cli/state.py:207`).
* In a question's form fields with one id share a value; an optional
  choice with nothing but "Other" cannot be skipped.
* A rollback that fails leaves the lease or configuration as the failed step had
  it; a rebuild that fails for ever with a changed MCP toolset keeps
  `_resume_config_boundaries` going.

## 6. Not modelled, and why

* The MCP wizard, completion, mouse, tables and layout of the terminal; previews,
  clipboard, working messages: presentation, with no state that outlives a key.
* Parsing of configuration, OAuth and MCP content, conversion of model
  protocols, building of bwrap arguments as text: pure functions of data in
  which no property here tells two values apart.
* The contents of the session database and of attachments; what appears in the
  models is the row, the transcript and the lock that is around them.
* Bodies of tools (`grep`, web search, what `execute` prints): input and output.
* Listing and searching of files, links outside workspace and skills, user
  mounts inside protected directories (`FileAccess`).
* Start of a window on a given session id, and locks of a runner without a store
  (`SessionOwnership`).
* Generic resumes and state snapshots of the library interface (`RunDispatch`).

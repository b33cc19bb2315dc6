---------------------------- MODULE SandboxCommand ----------------------------
(***************************************************************************)
(* Commands in a persistent sandbox: the pool and the host side of a       *)
(* sandbox (agent/sandbox_pool.py), the worker inside it                   *)
(* (agent/sandbox_worker.py), the tool threads that each wait for one      *)
(* command (sandbox._run_in_sandbox) and the runner that shuts the pool    *)
(* down.  The pool keeps one sandbox for each network mode; the two share  *)
(* nothing but its lock, and one mode is modelled.                         *)
(***************************************************************************)
EXTENDS Naturals, Sequences

CONSTANTS
  Commands,   \* tool threads, each with one command
  Closer,     \* the runner's thread that shuts the pool down
  Sandboxes,  \* sandboxes there may be at a time
  QueueSize,  \* _EVENT_QUEUE_SIZE
  PipeSize,   \* bound: messages the worker's stdout pipe holds
  MaxOutput,  \* bound: chunks of output of a command
  NoSandbox, NoOne

ASSUME CloserAssumption == Closer \notin Commands /\ NoOne \notin Commands \cup {Closer}
ASSUME SandboxAssumption == NoSandbox \notin Sandboxes
ASSUME BoundAssumption == QueueSize \in Nat \ {0} /\ PipeSize \in Nat \ {0} /\ MaxOutput \in Nat

VARIABLES
  pool,     \* _sandboxes of the mode
  poolLock, \* who holds SandboxPool._lock over several steps
  pc, mine, \* where a thread is, and its sandbox
  sandbox,  \* host side and channels of a sandbox
  command,  \* host side of a command
  task      \* the worker's side of a command

vars == <<pool, poolLock, pc, mine, sandbox, command, task>>

Threads == Commands \cup {Closer}
Event   == Commands \X {"out", "exit", "spawn_error", "lost"}
Ready   == <<NoOne, "ready">>
Phases  == {"idle", "acquire", "start", "register", "send", "wait", "discard", "closing",
            "dying", "release", "done"}

\* process: bubblewrap; lost: lost_reason is set; stdin: the control channel is
\* open; control: messages to the worker; pipe: messages from it, the first in the
\* hands of _read_control; registered: _commands; background: commands whose shell
\* ended and whose process group goes on.
Sandbox == [process : {"none", "up", "dead"}, ready : BOOLEAN, lost : BOOLEAN, stdin : BOOLEAN,
            control : Seq(Commands \X {"run", "kill"}), pipe : Seq(Event \cup {Ready}),
            registered : SUBSET Commands, background : SUBSET Commands]
Fresh == [process |-> "up", ready |-> FALSE, lost |-> FALSE, stdin |-> TRUE, control |-> <<>>,
          pipe |-> <<Ready>>, registered |-> {}, background |-> {}]
None  == [Fresh EXCEPT !.process = "none", !.stdin = FALSE, !.pipe = <<>>]

\* queue: the events for the tool; kill: it asked for a kill; seen: chunks it got.
Command == [queue : Seq(Event), kill : BOOLEAN, seen : 0..MaxOutput,
            result : {"none", "exit", "spawn_error", "lost", "unconfirmed", "no_sandbox"}]
Unused == [queue |-> <<>>, kill |-> FALSE, seen |-> 0, result |-> "none"]

\* lives: its shell; early: in _killed_before_start; made: chunks of its output, and of
\* the background's, that the worker read and sent on.
Task == [phase : {"none", "starting", "running", "done"}, lives : BOOLEAN,
         early : BOOLEAN, made : 0..MaxOutput]
NoTask == [phase |-> "none", lives |-> FALSE, early |-> FALSE, made |-> 0]

TypeOK ==
  /\ pool \in Sandboxes \cup {NoSandbox} /\ poolLock \in Threads \cup {NoOne}
  /\ pc \in [Threads -> Phases] /\ mine \in [Threads -> Sandboxes \cup {NoSandbox}]
  /\ sandbox \in [Sandboxes -> Sandbox]
  /\ command \in [Commands -> Command]
  /\ \A c \in Commands : Len(command[c].queue) <= QueueSize
  /\ task \in [Commands -> Task]

Init ==
  /\ pool = NoSandbox /\ poolLock = NoOne
  /\ pc = [t \in Threads |-> "idle"] /\ mine = [t \in Threads |-> NoSandbox]
  /\ sandbox = [s \in Sandboxes |-> None]
  /\ command = [c \in Commands |-> Unused]
  /\ task = [c \in Commands |-> NoTask]

At(t, phase) == pc[t] = phase
Go(t, phase) == pc' = [pc EXCEPT ![t] = phase]
Of(c) == sandbox[mine[c]]
Alive(s) == sandbox[s].process = "up" /\ ~sandbox[s].lost
Report(c, what) == command' = [command EXCEPT ![c].result = what]

Room(c) == Len(command[c].queue) < QueueSize

Put(c, e) == [command[c] EXCEPT !.queue = Append(@, e)]
\* _mark_lost: every command of the sandbox is told, if its queue has room.
MarkLost(s) ==
  /\ sandbox' = [sandbox EXCEPT ![s].lost = TRUE]
  /\ command' = [c \in Commands |->
       IF c \in sandbox[s].registered /\ Room(c) THEN Put(c, <<c, "lost">>) ELSE command[c]]

-----------------------------------------------------------------------------
(* SandboxPool.run and _acquire, under the pool's lock. *)

Acquire(c) ==
  /\ At(c, "idle") /\ poolLock = NoOne
  /\ poolLock' = c
  /\ Go(c, "acquire")
  /\ UNCHANGED <<pool, mine, sandbox, command, task>>

Found(c) ==
  /\ At(c, "acquire") /\ pool # NoSandbox /\ Alive(pool)
  /\ mine' = [mine EXCEPT ![c] = pool] /\ poolLock' = NoOne
  /\ Go(c, "register")
  /\ UNCHANGED <<pool, sandbox, command, task>>

\* An unhealthy sandbox leaves the pool and is stopped, with the lock held.
Unhealthy(c) ==
  /\ At(c, "acquire") /\ pool # NoSandbox /\ ~Alive(pool)
  /\ mine' = [mine EXCEPT ![c] = pool] /\ pool' = NoSandbox
  /\ MarkLost(pool)
  /\ Go(c, "closing")
  /\ UNCHANGED <<poolLock, task>>

\* PersistentSandbox.start: the process, its reader, then the wait for "ready".
StartSandbox(c) ==
  /\ At(c, "acquire") /\ pool = NoSandbox
  /\ \E s \in Sandboxes :
       /\ sandbox[s] = None
       /\ mine' = [mine EXCEPT ![c] = s]
       /\ sandbox' = [sandbox EXCEPT ![s] = Fresh]
  /\ Go(c, "start")
  /\ UNCHANGED <<pool, poolLock, command, task>>

Started(c) ==
  /\ At(c, "start") /\ Of(c).ready /\ ~Of(c).lost
  /\ pool' = mine[c] /\ poolLock' = NoOne
  /\ Go(c, "register")
  /\ UNCHANGED <<mine, sandbox, command, task>>

\* Lost, or not ready in time: it is stopped and never enters the pool.
NotStarted(c) ==
  /\ At(c, "start")
  /\ sandbox' = [sandbox EXCEPT ![mine[c]].lost = TRUE]
  /\ Report(c, "no_sandbox")
  /\ Go(c, "closing")
  /\ UNCHANGED <<pool, poolLock, mine, task>>

-----------------------------------------------------------------------------
(* PersistentSandbox.stop, after _mark_lost. *)

CloseStdin(t) ==
  /\ At(t, "closing")
  /\ sandbox' = [sandbox EXCEPT ![mine[t]].stdin = FALSE]
  /\ Go(t, "dying")
  /\ UNCHANGED <<pool, poolLock, mine, command, task>>

\* The namespace ends with the worker, and every process in it.
Ended(s) ==
  /\ sandbox[s].process = "up"
  /\ sandbox' = [sandbox EXCEPT ![s].process = "dead", ![s].background = {}]
  /\ task' = [c \in Commands |-> IF mine[c] = s THEN [task[c] EXCEPT !.lives = FALSE] ELSE task[c]]
  /\ UNCHANGED <<pool, poolLock, pc, mine, command>>

\* It did not exit by itself in time.
KillSandbox(t) == At(t, "dying") /\ Ended(mine[t])

\* A dead sandbox that nobody refers to is gone.
Forget(t) ==
  /\ mine' = [mine EXCEPT ![t] = NoSandbox]
  /\ sandbox' = IF \/ Of(t).process = "up" \/ pool = mine[t]
                   \/ \E u \in Threads \ {t} : mine[u] = mine[t]
                THEN [sandbox EXCEPT ![mine[t]].registered = @ \ {t}]
                ELSE [sandbox EXCEPT ![mine[t]] = None]

\* stop() returns: to _acquire, which starts another, to a start that failed, to
\* the runner, or to the command that discarded it.
Stopped(t) ==
  /\ At(t, "dying") /\ Of(t).process = "dead"
  /\ IF poolLock = t \/ t = Closer
     THEN Forget(t) /\ Go(t, IF poolLock = t /\ command[t].result = "none" THEN "acquire" ELSE "done")
     ELSE Go(t, "release") /\ UNCHANGED <<mine, sandbox>>
  /\ poolLock' = IF pc'[t] = "done" /\ poolLock = t THEN NoOne ELSE poolLock
  /\ UNCHANGED <<pool, command, task>>

\* discard() removes the sandbox it was called for, not its successor.
Without(s) == IF pool = s THEN NoSandbox ELSE pool

Discard(c) ==
  /\ At(c, "discard") /\ poolLock = NoOne
  /\ pool' = Without(mine[c])
  /\ MarkLost(mine[c])
  /\ Go(c, "closing")
  /\ UNCHANGED <<poolLock, mine, task>>

Shutdown ==
  /\ At(Closer, "idle") /\ poolLock = NoOne
  /\ IF pool = NoSandbox THEN Go(Closer, "done") /\ UNCHANGED <<pool, mine, sandbox, command>>
     ELSE /\ mine' = [mine EXCEPT ![Closer] = pool] /\ pool' = NoSandbox
          /\ MarkLost(pool)
          /\ Go(Closer, "closing")
  /\ UNCHANGED <<poolLock, task>>

-----------------------------------------------------------------------------
(* A command on the host: _start, then the loop of _run_in_sandbox. *)

Register(c) ==
  /\ At(c, "register")
  /\ IF Of(c).lost THEN Report(c, "lost") /\ Go(c, "discard") /\ UNCHANGED sandbox
     ELSE /\ sandbox' = [sandbox EXCEPT ![mine[c]].registered = @ \cup {c}]
          /\ Go(c, "send") /\ UNCHANGED command
  /\ UNCHANGED <<pool, poolLock, mine, task>>

\* _send: refused when lost; a broken channel makes it lost.
Refuses(s) == sandbox[s].lost \/ ~sandbox[s].stdin \/ sandbox[s].process = "dead"
Write(s, message) == sandbox' = [sandbox EXCEPT ![s].control = Append(@, message)]

Send(c) ==
  /\ At(c, "send")
  /\ IF Refuses(mine[c])
     THEN /\ sandbox' = [sandbox EXCEPT ![mine[c]].lost = TRUE, ![mine[c]].registered = @ \ {c}]
          /\ command' = [d \in Commands |->
               IF d = c THEN [Unused EXCEPT !.result = "lost"]
               ELSE IF ~Of(c).lost /\ d \in Of(c).registered /\ Room(d)
               THEN Put(d, <<d, "lost">>) ELSE command[d]]
          /\ Go(c, "discard")
     ELSE Write(mine[c], <<c, "run">>) /\ Go(c, "wait") /\ UNCHANGED command
  /\ UNCHANGED <<pool, poolLock, mine, task>>

\* The loop sees the cancel, or its deadline, and asks the worker for a kill.
Kill(c) ==
  /\ At(c, "wait") /\ ~command[c].kill
  /\ IF Refuses(mine[c])
     THEN /\ sandbox' = [sandbox EXCEPT ![mine[c]].lost = TRUE]
          /\ command' = [d \in Commands |->
               [(IF ~Of(c).lost /\ d \in Of(c).registered /\ Room(d)
                 THEN Put(d, <<d, "lost">>) ELSE command[d]) EXCEPT !.kill = @ \/ d = c]]
     ELSE /\ Write(mine[c], <<c, "kill">>)
          /\ command' = [command EXCEPT ![c].kill = TRUE]
  /\ UNCHANGED <<pool, poolLock, pc, mine, task>>

\* Mutant: the sandbox is left as it is.
UnconfirmedKeeps(c) ==
  /\ At(c, "wait") /\ command[c].kill
  /\ Report(c, "unconfirmed")
  /\ Go(c, "release")
  /\ UNCHANGED <<pool, poolLock, mine, sandbox, task>>

\* The worker did not confirm the kill in time.
Unconfirmed(c) ==
  /\ At(c, "wait") /\ command[c].kill
  /\ Report(c, "unconfirmed")
  /\ Go(c, "discard")
  /\ UNCHANGED <<pool, poolLock, mine, sandbox, task>>

Take(c) ==
  /\ At(c, "wait") /\ command[c].queue # <<>>
  /\ LET kind == Head(command[c].queue)[2]
         rest == [command[c] EXCEPT !.queue = Tail(@)] IN
     /\ command' = [command EXCEPT ![c] = IF kind = "out" THEN [rest EXCEPT !.seen = @ + 1]
                                          ELSE [rest EXCEPT !.result = kind]]
     /\ Go(c, CASE kind = "out" -> "wait" [] kind = "lost" -> "discard" [] OTHER -> "release")
  /\ UNCHANGED <<pool, poolLock, mine, sandbox, task>>

\* next_event: the queue of a lost sandbox had no room for the news.
HearsLoss(c) == command[c].queue = <<>> /\ Of(c).lost

SeeLost(c) ==
  /\ At(c, "wait") /\ HearsLoss(c)
  /\ Report(c, "lost")
  /\ Go(c, "discard")
  /\ UNCHANGED <<pool, poolLock, mine, sandbox, task>>

\* release(); what the call leaves behind is not looked at again.
Release(c) ==
  /\ At(c, "release")
  /\ Forget(c)
  /\ command' = [command EXCEPT ![c] = Unused]
  /\ task' = [task EXCEPT ![c] = [NoTask EXCEPT !.lives = task[c].lives]]
  /\ Go(c, "done")
  /\ UNCHANGED <<pool, poolLock>>

-----------------------------------------------------------------------------
(* The worker. *)

\* Request ids are not used again: one that ended is of no interest.
KillEarly(c) == task[c].phase \in {"none", "starting"}

\* The group that a kill ends, until the exit is sent: _kill_group.
KilledGroup(c) == IF task[c].phase = "running" THEN {c} ELSE {}

\* main: one control message.
ReadControl(s) ==
  /\ sandbox[s].process = "up" /\ sandbox[s].control # <<>>
  /\ LET c    == Head(sandbox[s].control)[1]
         runs == Head(sandbox[s].control)[2] = "run" IN
     /\ sandbox' = [sandbox EXCEPT ![s].control = Tail(@),
          ![s].background = IF mine[c] # s \/ runs THEN @ ELSE @ \ KilledGroup(c)]
     /\ task' = [task EXCEPT ![c] =
          IF mine[c] # s THEN @
          ELSE IF runs THEN [@ EXCEPT !.phase = "starting"]
          ELSE IF @.phase = "running" THEN [@ EXCEPT !.lives = FALSE]
          ELSE [@ EXCEPT !.early = KillEarly(c)]]
  /\ UNCHANGED <<pool, poolLock, pc, mine, command>>

\* End of the control channel: _shutdown.
WorkerExits(s) == ~sandbox[s].stdin /\ sandbox[s].control = <<>> /\ Ended(s)

\* Bubblewrap or the worker dies.
Crash(s) == Ended(s)

Works(c, phase) == task[c].phase = phase /\ mine[c] # NoSandbox /\ Of(c).process = "up"
Tell(c, kind) ==
  /\ Len(Of(c).pipe) < PipeSize
  /\ sandbox' = [sandbox EXCEPT ![mine[c]].pipe = Append(@, <<c, kind>>)]

Spawn(c) ==
  /\ Works(c, "starting")
  /\ task' = [task EXCEPT ![c].phase = "running", ![c].lives = ~task[c].early, ![c].early = FALSE]
  /\ UNCHANGED <<pool, poolLock, pc, mine, sandbox, command>>

SpawnFails(c) ==
  /\ Works(c, "starting") /\ Tell(c, "spawn_error")
  /\ task' = [task EXCEPT ![c].phase = "done"]
  /\ UNCHANGED <<pool, poolLock, pc, mine, command>>

\* A chunk is read and sent, also one that was left in the pipe when the shell ended.
Output(c) ==
  /\ Works(c, "running") /\ task[c].made < MaxOutput
  /\ Tell(c, "out")
  /\ task' = [task EXCEPT ![c].made = @ + 1]
  /\ UNCHANGED <<pool, poolLock, pc, mine, command>>

\* The shell ends by itself; what it started in the background may go on.
Finish(c) ==
  /\ Works(c, "running") /\ task[c].lives
  /\ task' = [task EXCEPT ![c].lives = FALSE]
  /\ \E left \in SUBSET {c} :
       sandbox' = [sandbox EXCEPT ![mine[c]].background = @ \cup left]
  /\ UNCHANGED <<pool, poolLock, pc, mine, command>>

BackgroundEnds(s, c) ==
  /\ c \in sandbox[s].background
  /\ sandbox' = [sandbox EXCEPT ![s].background = @ \ {c}]
  /\ UNCHANGED <<pool, poolLock, pc, mine, command, task>>

\* The pipes are at their end, or 100 ms passed since the shell's; it is waited for,
\* leaves _running and its exit is sent.
SendExit(c) ==
  /\ Works(c, "running") /\ ~task[c].lives /\ Tell(c, "exit")
  /\ task' = [task EXCEPT ![c].phase = "done"]
  /\ UNCHANGED <<pool, poolLock, pc, mine, command>>

-----------------------------------------------------------------------------
(* _read_control: one reader for all commands of a sandbox. *)

\* _deliver waits for room, unless the command was released.
WaitForRoom(c, s) == c \in sandbox[s].registered /\ ~Room(c)

\* Mutant: an event that finds the queue full takes the place of the oldest.
ReadDropsOldest(s) ==
  /\ sandbox[s].pipe # <<>>
  /\ LET e == Head(sandbox[s].pipe) IN
     /\ sandbox' = [sandbox EXCEPT ![s].pipe = Tail(@), ![s].ready = @ \/ e = Ready]
     /\ command' = IF e[1] \notin sandbox[s].registered THEN command
                   ELSE IF Room(e[1]) THEN [command EXCEPT ![e[1]] = Put(e[1], e)]
                   ELSE [command EXCEPT ![e[1]].queue = Append(Tail(@), e)]
  /\ UNCHANGED <<pool, poolLock, pc, mine, task>>

Read(s) ==
  /\ sandbox[s].pipe # <<>>
  /\ LET e == Head(sandbox[s].pipe) IN
     /\ ~WaitForRoom(e[1], s)
     /\ sandbox' = [sandbox EXCEPT ![s].pipe = Tail(@), ![s].ready = @ \/ e = Ready]
     /\ command' = IF e[1] \in sandbox[s].registered /\ Room(e[1])
                   THEN [command EXCEPT ![e[1]] = Put(e[1], e)] ELSE command
  /\ UNCHANGED <<pool, poolLock, pc, mine, task>>

ReaderEnds(s) ==
  /\ sandbox[s].process = "dead" /\ sandbox[s].pipe = <<>>
  /\ ~sandbox[s].lost
  /\ MarkLost(s)
  /\ UNCHANGED <<pool, poolLock, pc, mine, task>>

-----------------------------------------------------------------------------
HostStep(c) ==
  \/ Acquire(c) \/ Found(c) \/ Unhealthy(c) \/ StartSandbox(c) \/ Started(c) \/ NotStarted(c)
  \/ Register(c) \/ Send(c) \/ Kill(c) \/ Unconfirmed(c) \/ Take(c) \/ SeeLost(c)
  \/ Discard(c) \/ Release(c)
StopStep(t) == CloseStdin(t) \/ KillSandbox(t) \/ Stopped(t)
WorkerStep(c) == Spawn(c) \/ SpawnFails(c) \/ Output(c) \/ Finish(c) \/ SendExit(c)
SandboxStep(s) == ReadControl(s) \/ WorkerExits(s) \/ Crash(s) \/ Read(s) \/ ReaderEnds(s)
                  \/ \E c \in Commands : BackgroundEnds(s, c)

Next ==
  \/ \E c \in Commands : HostStep(c) \/ WorkerStep(c)
  \/ \E t \in Threads : StopStep(t)
  \/ \E s \in Sandboxes : SandboxStep(s)
  \/ Shutdown

Spec == Init /\ [][Next]_vars

-----------------------------------------------------------------------------
\* When a tool call is over so is its shell, also when its kill was not confirmed,
\* when it came before the process, and when the sandbox was lost.
NoCommandLeft == \A c \in Commands : At(c, "done") => ~task[c].lives

\* What a command left in the background goes on only in a sandbox that is up, and
\* not for a command that was lost or whose kill was not confirmed.
BackgroundKnown ==
  \A s \in Sandboxes : \A c \in sandbox[s].background :
    /\ sandbox[s].process = "up"
    /\ At(c, "release") => command[c].result \notin {"lost", "unconfirmed"}

\* An exit is reported after every chunk of output that the worker sent, although
\* one reader with a bounded queue serves all commands.
ExitAfterOutput ==
  \A c \in Commands : command[c].result = "exit" => command[c].seen = task[c].made

\* A sandbox that runs is the pool's, or has a thread that starts, uses or stops
\* it: nobody throws out the sandbox that replaced his own.
SandboxesAccounted ==
  \A s \in Sandboxes : sandbox[s].process = "up" => pool = s \/ \E t \in Threads : mine[t] = s

\* No shell runs on for a tool that returned, no background outside a sandbox that is
\* up, and no sandbox without an owner.
CommandsAccounted == NoCommandLeft /\ BackgroundKnown /\ SandboxesAccounted
=============================================================================

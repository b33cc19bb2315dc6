----------------------------- MODULE Subagents -----------------------------
(***************************************************************************)
(* Delegated runs: admission and lifetime (subagents/manager.py), one call *)
(* of the task tool (subagents/runtime.py), and the log each run leaves    *)
(* behind with the pages read from it (subagents/log_store.py,             *)
(* tools/subagent_logs.py).                                                *)
(*                                                                         *)
(* The calls run in threads of their own.  A child has at most one model   *)
(* request at a time and reports one tool call; a record is its event and  *)
(* status.  A write may fail (disk full) and the process may die at any    *)
(* step, leaving a part of a line; the next record is glued to that part.  *)
(* A part is never a whole record that only lacks its newline.             *)
(***************************************************************************)
EXTENDS Naturals, Sequences, FiniteSets, SequencesExt

CONSTANTS Calls,         \* calls of the task tool
          NoCall,        \* the manager's lock is free
          MaxConcurrent, \* subagents.max_concurrent
          Limit,         \* records of a page
          Failures,      \* writes that fail, at most
          Parts          \* what may be left of a line: "cut", or "split" inside a character

VARIABLES
  parent,    \* the parent's run: "running", "cancelling" (told, children not yet), "cancelled"
  told,      \* the children the cancel still has to reach
  admitting, \* the call that holds the manager's lock, past its checks
  attached,  \* children registered with the parent
  active, retired,
  pc,        \* per call
  stop,      \* per child: its run is cancelled
  request,   \* per child: its model request, "open" until it is confirmed closed
  tool,      \* per child: its tool call
  log,       \* per child: the lines of its log, each a record or "glued"
  part,      \* per child: what follows them, without a newline
  status,    \* per call: status of the run
  answer,    \* per call: what the caller gets
  failures, dead,
  page       \* the reader of one log: what it has, and what it was told last

runs == <<parent, told, admitting, attached, active, retired, stop, request>>
files == <<log, part, failures>>
vars == <<runs, files, pc, tool, status, answer, dead, page>>

Statuses == {"failed", "completed", "cancelled"}
Record(event, s) == [event |-> event, status |-> s]

Init ==
  /\ parent = "running" /\ told = {} /\ admitting = NoCall
  /\ attached = {} /\ active = {} /\ retired = {}
  /\ pc = [c \in Calls |-> "idle"] /\ stop = [c \in Calls |-> FALSE]
  /\ request = [c \in Calls |-> "none"] /\ tool = [c \in Calls |-> "none"]
  /\ log = [c \in Calls |-> <<>>] /\ part = [c \in Calls |-> "no"]
  /\ status = [c \in Calls |-> "failed"] /\ answer = [c \in Calls |-> "none"]
  /\ failures = 0 /\ dead = FALSE
  /\ page = [of |-> NoCall, offset |-> 0, seen |-> <<>>, said |-> "more"]

-----------------------------------------------------------------------------
(* Admission.                                                              *)

\* running(): under the manager's lock.
Room == Cardinality(active) < MaxConcurrent

Ask(c) ==
  /\ pc[c] = "idle" /\ admitting = NoCall
  /\ IF parent = "running" /\ Room
       THEN /\ admitting' = c /\ pc' = [pc EXCEPT ![c] = "admitted"] /\ UNCHANGED answer
       ELSE /\ pc' = [pc EXCEPT ![c] = "done"] /\ answer' = [answer EXCEPT ![c] = "failed"]
            /\ UNCHANGED admitting
  /\ UNCHANGED <<parent, told, attached, active, retired, stop, request, files, tool, status, dead, page>>

\* register_child: under the parent's lock, which the manager's does not
\* keep a cancel from taking first.
\* Mutant: only the check of running() looks at the parent.
BornStoppedNever == FALSE
BornStopped == parent # "running"

Admit(c) ==
  /\ admitting = c /\ admitting' = NoCall
  /\ attached' = attached \cup {c} /\ active' = active \cup {c}
  /\ stop' = [stop EXCEPT ![c] = BornStopped]
  /\ pc' = [pc EXCEPT ![c] = "start"]
  /\ UNCHANGED <<parent, told, retired, request, files, tool, status, answer, dead, page>>

\* RunController.cancel of the parent (ainvoke's caller does it too when it is
\* cancelled): the children are those of the moment, told without the lock.
CancelParent ==
  /\ parent = "running" /\ parent' = "cancelling" /\ told' = attached
  /\ UNCHANGED <<admitting, attached, active, retired, stop, request, files, pc, tool, status,
                 answer, dead, page>>

TellChild(c) ==
  /\ parent = "cancelling" /\ c \in told /\ told' = told \ {c}
  /\ stop' = [stop EXCEPT ![c] = TRUE]
  /\ UNCHANGED <<parent, admitting, attached, active, retired, request, files, pc, tool, status,
                 answer, dead, page>>

AllTold ==
  /\ parent = "cancelling" /\ told = {} /\ parent' = "cancelled"
  /\ UNCHANGED <<told, admitting, attached, active, retired, stop, request, files, pc, tool, status,
                 answer, dead, page>>

-----------------------------------------------------------------------------
(* The run of a child.                                                     *)

\* A part that is left stays at the end of the file.  What follows a split
\* character does not mend it.
Leaves(c, p) == part' = [part EXCEPT ![c] = IF @ = "split" THEN @ ELSE p]

\* The line that a record makes: its own, or one with the part before it.
Line(c, record) == IF part[c] = "no" THEN record ELSE Record("glued", part[c])
Torn(line) == line.event = "glued"

\* SubAgentLogStore.append.  An error of the disk (in write, or in the flush,
\* which close repeats) leaves nothing, a part of the line, or all of it.
Appends(c, record, wrote) ==
  /\ \/ /\ log' = [log EXCEPT ![c] = Append(@, Line(c, record))]
        /\ part' = [part EXCEPT ![c] = "no"]
     \/ ~wrote /\ UNCHANGED <<log, part>>
     \/ ~wrote /\ UNCHANGED log /\ \E p \in Parts : Leaves(c, p)
  /\ IF wrote THEN UNCHANGED failures ELSE failures < Failures /\ failures' = failures + 1

Goes(c, place) == pc' = [pc EXCEPT ![c] = place]

\* The first write is outside the try: if it fails, invoke answers.
Start(c) ==
  /\ pc[c] = "start"
  /\ \E wrote \in BOOLEAN :
       /\ Appends(c, Record("start", "running"), wrote)
       /\ IF wrote THEN Goes(c, "prepare") /\ UNCHANGED answer
                   ELSE Goes(c, "leave") /\ answer' = [answer EXCEPT ![c] = "failed"]
  /\ UNCHANGED <<runs, tool, status, dead, page>>

\* prepare(controller), and the look at the cancel behind it.
Prepare(c) ==
  /\ pc[c] = "prepare"
  /\ \E built \in BOOLEAN : Goes(c, IF built /\ ~stop[c] THEN "graph" ELSE "except")
  /\ UNCHANGED <<runs, files, tool, status, answer, dead, page>>

\* A model call of the graph: register_model_stream refuses a cancelled run,
\* unregister_model_stream keeps a request that is not closed.
OpenRequest(c) ==
  /\ pc[c] = "graph" /\ request[c] = "none" /\ ~stop[c]
  /\ request' = [request EXCEPT ![c] = "open"]
  /\ UNCHANGED <<parent, told, admitting, attached, active, retired, stop, files, pc, tool, status,
                 answer, dead, page>>

CloseRequest(c) ==
  /\ request[c] = "open" /\ request' = [request EXCEPT ![c] = "none"]
  /\ UNCHANGED <<parent, told, admitting, attached, active, retired, stop, files, pc, tool, status,
                 answer, dead, page>>

\* LogCallback.on_tool_start, on_tool_end, on_tool_error (one record).  An
\* error of the callback is not the tool's.
Tool(c) ==
  /\ pc[c] = "graph" /\ tool[c] \in {"none", "running"}
  /\ tool' = [tool EXCEPT ![c] = IF @ = "none" THEN "running" ELSE "ended"]
  /\ \E wrote \in BOOLEAN :
       Appends(c, Record(IF tool[c] = "none" THEN "tool_start" ELSE "tool_finish", "none"), wrote)
  /\ UNCHANGED <<runs, pc, status, answer, dead, page>>

\* The stream of the graph ends: with an answer, or it raised, was
\* interrupted, drained, or gave no answer.
GraphEnds(c) ==
  /\ pc[c] = "graph"
  /\ \E answered \in BOOLEAN :
       IF answered /\ ~stop[c]
         THEN /\ Goes(c, "finally") /\ status' = [status EXCEPT ![c] = "completed"]
              /\ answer' = [answer EXCEPT ![c] = "completed"]
         ELSE Goes(c, "except") /\ UNCHANGED <<status, answer>>
  /\ UNCHANGED <<runs, files, tool, dead, page>>

\* except: the status is the run's to tell.  A failing write leaves through
\* finally, with the error of the disk instead of the answer.
Except(c) ==
  /\ pc[c] = "except" /\ Goes(c, "finally")
  /\ LET s == IF stop[c] THEN "cancelled" ELSE "failed" IN
     \E wrote \in BOOLEAN :
       /\ Appends(c, Record("error", s), wrote)
       /\ status' = [status EXCEPT ![c] = s]
       /\ answer' = [answer EXCEPT ![c] = IF wrote THEN s ELSE "failed"]
  /\ UNCHANGED <<runs, tool, dead, page>>

\* finally: the finish record has the status decided above.
\* Mutant: a cancel that came after the answer is recorded as the status.
FinalLate(c) == IF stop[c] THEN "cancelled" ELSE status[c]
Final(c) == status[c]

Finally(c) ==
  /\ pc[c] = "finally" /\ Goes(c, "leave")
  /\ \E wrote \in BOOLEAN :
       /\ Appends(c, Record("finish", Final(c)), wrote)
       /\ answer' = [answer EXCEPT ![c] = IF wrote THEN @ ELSE "failed"]
  /\ UNCHANGED <<runs, tool, status, dead, page>>

\* running(), finally: the child is cancelled and ended, and retired.
Leave(c) ==
  /\ pc[c] = "leave" /\ admitting = NoCall /\ Goes(c, "wait")
  /\ stop' = [stop EXCEPT ![c] = TRUE]
  /\ active' = active \ {c} /\ retired' = retired \cup {c}
  /\ UNCHANGED <<parent, told, admitting, attached, request, files, tool, status, answer, dead, page>>

\* wait_model_streams_closed(5.0): closed, or the time is over.
Detached(c) == request[c] # "open"

Wait(c) ==
  /\ pc[c] = "wait" /\ Goes(c, "done")
  /\ IF Detached(c)
       THEN attached' = attached \ {c} /\ retired' = retired \ {c}
       ELSE UNCHANGED <<attached, retired>>
  /\ UNCHANGED <<parent, told, admitting, active, stop, request, files, tool, status, answer, dead, page>>

\* The process dies while it writes a line, or between two.
Crash ==
  /\ ~dead /\ dead' = TRUE
  /\ \/ UNCHANGED part
     \/ \E c \in Calls, p \in Parts :
          /\ pc[c] \in {"start", "graph", "except", "finally"} /\ Leaves(c, p)
  /\ UNCHANGED <<runs, log, failures, pc, tool, status, answer, page>>

-----------------------------------------------------------------------------
(* read_subagent_log: pages of one log, while it grows and after a crash.  *)

\* A page ends at Limit records or earlier, when it has enough bytes, and
\* before a line that is no JSON.
NextOffset(got) == page.offset + Len(got)
Ends(c, next) == next < Len(log[c]) => Torn(log[c][next + 1])

\* Text that is no UTF-8 fails the page that asks for it; glued in a line, it
\* may fail one that ends before, for the file is decoded ahead of the lines.
Undecoded(line) == line = Record("glued", "split")
Asked(c, next) == IF next = Len(log[c]) THEN part[c] = "split" ELSE Undecoded(log[c][next + 1])
Ahead(c, next) == Asked(c, next) \/ \E i \in (next + 1)..Len(log[c]) : Undecoded(log[c][i])

Read(c) ==
  /\ page.of \in {NoCall, c} /\ page.said = "more"
  /\ \E n \in 0..Limit :
       LET next == page.offset + n
           got == SubSeq(log[c], page.offset + 1, next) IN
       /\ next <= Len(log[c]) /\ \A i \in 1..Len(got) : ~Torn(got[i])
       /\ n > 0 \/ (dead /\ Ends(c, next))  \* a reader of a live log asks again later
       /\ \/ Ahead(c, next) /\ page' = [page EXCEPT !.of = c, !.said = "error"]
          \/ /\ ~Asked(c, next)
             /\ page' = [of |-> c, offset |-> NextOffset(got), seen |-> page.seen \o got,
                         said |-> IF n = 0 THEN "end" ELSE "more"]
  /\ UNCHANGED <<runs, files, pc, tool, status, answer, dead>>

-----------------------------------------------------------------------------
Call(c) ==
  \/ Ask(c) \/ Admit(c) \/ TellChild(c) \/ Start(c) \/ Prepare(c) \/ OpenRequest(c)
  \/ CloseRequest(c) \/ Tool(c) \/ GraphEnds(c) \/ Except(c) \/ Finally(c) \/ Leave(c) \/ Wait(c)

Next ==
  \/ ~dead /\ (CancelParent \/ AllTold \/ \E c \in Calls : Call(c))
  \/ Crash
  \/ \E c \in Calls : Read(c)

Spec == Init /\ [][Next]_vars

-----------------------------------------------------------------------------
(* Properties.                                                             *)

\* No more children run than the configuration allows, and a call's child is
\* active from its admission until its run is over (SubAgentManager.running).
TypeOK ==
  /\ active \subseteq Calls /\ Cardinality(active) <= MaxConcurrent
  /\ active = {c \in Calls : pc[c] \in {"start", "prepare", "graph", "except", "finally", "leave"}}
  /\ retired = {c \in attached : pc[c] \in {"wait", "done"}}
  /\ \A c \in Calls : status[c] \in Statuses

\* Once the parent's cancel has returned, every child that still runs is
\* cancelled, whatever the moment it was admitted at (register_child).
CancelReachesAll == parent = "cancelled" => \A c \in active : stop[c]

\* A child whose HTTP request is not confirmed closed is known to the parent,
\* so that closing the session waits for it (wait_model_streams_closed).
OpenStaysAttached == \A c \in Calls : request[c] = "open" => c \in attached

\* What the caller was told is what the log says, however late a cancel came
\* and whichever write failed: an answer has a completed log, a completed log
\* an answer (or the error of a disk that failed after the whole line), and no
\* log has a record after its finish.  The one exception is a finish glued to
\* the part that a failed record of a tool left: nobody can read it.
LogTellsTheSame ==
  \A c \in Calls : pc[c] \in {"leave", "wait", "done"} =>
    LET last == IF log[c] = <<>> THEN Record("none", "none") ELSE log[c][Len(log[c])] IN
    /\ answer[c] = "completed" => Torn(last) \/ last = Record("finish", "completed")
    /\ last.event = "finish" => last.status \in {answer[c], status[c]}
    /\ \A i \in 1..Len(log[c]) - 1 : log[c][i].event # "finish"

\* A reader gets every record once and in order, also while the log grows;
\* when it is told there is no more, it has all that was written before a
\* crash (read: "A crash may leave a partial final line"), or before the first
\* line that a failed write and the record after it share.
PagesTellAll ==
  page.of # NoCall =>
    LET lines == log[page.of]  got == Len(page.seen) IN
    /\ IsPrefix(page.seen, lines)
    /\ \A i \in 1..got : ~Torn(page.seen[i])
    /\ page.said # "more" => got = Len(lines) \/ Torn(lines[got + 1])

\* A cancelled parent reaches every child, also one admitted meanwhile, and a
\* child whose request is open is waited for.
ChildrenCancelled == CancelReachesAll /\ OpenStaysAttached

\* The log ends as the parent was told, and its pages give every record.
LogIsTrue == LogTellsTheSame /\ PagesTellAll
=============================================================================

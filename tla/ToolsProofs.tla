---------------------------- MODULE ToolsProofs ----------------------------
(***************************************************************************)
(* Proofs about three parts of MCTools: delegated runs (Subagents), the    *)
(* form of a question (HumanForm) and the dialogs of the terminal          *)
(* (Prompts), for any calls, limits, fields, options, texts and workers.   *)
(*                                                                         *)
(* TaskInv, FormInv and PromptSound are the inductive invariants, and      *)
(* PromptQuiet is one for a user who is not hasty.  The first part is      *)
(* about TaskInv, one lemma per part of it; the second about the answers   *)
(* to one field, then the steps of the form; the third has what an action  *)
(* makes of the UI's fields, then one lemma per action; the theorems are   *)
(* at the end.                                                             *)
(***************************************************************************)
EXTENDS MCTools, FiniteSetTheorems, SequenceTheorems, WellFoundedInduction, TLAPS

-----------------------------------------------------------------------------
(* Delegated runs: the invariant.                                           *)

Running == {"start", "prepare", "graph", "except", "finally", "leave"}
Places == Running \cup {"idle", "admitted", "wait", "done"}
Outcomes == {"failed", "completed", "cancelled"}
Records == [event : {"start", "tool_start", "tool_finish", "error", "finish", "glued"},
            status : Outcomes \cup {"running", "none"} \cup Parts]

TaskTypes ==
  /\ parent \in {"running", "cancelling", "cancelled"}
  /\ told \subseteq Calls /\ admitting \in Calls \cup {NoCall}
  /\ attached \subseteq Calls /\ active \subseteq Calls
  /\ pc \in [Calls -> Places] /\ stop \in [Calls -> BOOLEAN]
  /\ request \in [Calls -> {"none", "open"}] /\ tool \in [Calls -> {"none", "running", "ended"}]
  /\ log \in [Calls -> Seq(Records)] /\ part \in [Calls -> Parts \cup {"no"}]
  /\ status \in [Calls -> Outcomes] /\ answer \in [Calls -> Outcomes \cup {"none"}]
  /\ dead \in BOOLEAN
  /\ page \in [of : Calls \cup {NoCall}, offset : Nat, seen : Seq(Records),
               said : {"more", "end", "error"}]

\* A child is active from its admission to the end of its run, and attached
\* for as long; only then can it have opened a request.
Lifetimes ==
  /\ admitting # NoCall => pc[admitting] = "admitted"
  /\ active = {c \in Calls : pc[c] \in Running}
  /\ active \subseteq attached /\ \A c \in attached : pc[c] \notin {"idle", "admitted"}
  /\ retired = {c \in attached : pc[c] \in {"wait", "done"}}
  /\ \A c \in Calls : request[c] = "open" => c \in attached

\* From the moment the parent is cancelled a child that runs is stopped, or
\* is among those the cancel has still to reach.
CancelOnItsWay ==
  /\ parent = "cancelling" => \A c \in active : stop[c] \/ c \in told
  /\ parent = "cancelled" => \A c \in active : stop[c]

\* Until the finally of its run a call has no finish in its log, and no
\* answer before the status that goes with it.
Unfinished == {"idle", "admitted", "start", "prepare", "graph", "except"}
LogOf(c) ==
  /\ pc[c] \in Unfinished \cup {"finally"} =>
       \A i \in 1..Len(log[c]) : log[c][i].event # "finish"
  /\ pc[c] \in Unfinished => answer[c] # "completed"
  /\ pc[c] = "finally" /\ answer[c] = "completed" => status[c] = "completed"
  /\ pc[c] \in {"leave", "wait", "done"} =>
       /\ answer[c] = "completed" =>
            /\ Len(log[c]) > 0
            /\ \/ log[c][Len(log[c])].event = "glued"
               \/ /\ log[c][Len(log[c])].event = "finish"
                  /\ log[c][Len(log[c])].status = "completed"
       /\ Len(log[c]) > 0 /\ log[c][Len(log[c])].event = "finish" =>
            log[c][Len(log[c])].status \in {answer[c], status[c]}
       /\ \A i \in 1..(Len(log[c]) - 1) : log[c][i].event # "finish"
Logs == \A c \in Calls : LogOf(c)

\* What a reader has is the beginning of a log, up to a line that two records
\* share; a reader that was told that it has all of this has it, of a log
\* nobody writes any more.
Pages ==
  /\ page.offset = Len(page.seen)
  /\ page.of = NoCall => page.seen = <<>>
  /\ page.of # NoCall =>
       /\ Len(page.seen) <= Len(log[page.of])
       /\ \A i \in 1..Len(page.seen) : page.seen[i] = log[page.of][i]
  /\ \A i \in 1..Len(page.seen) : page.seen[i].event # "glued"
  /\ page.said # "more" => page.of # NoCall
  /\ page.said = "error" => "split" \in Parts
  /\ page.said = "end" =>
       /\ dead
       /\ \/ Len(page.seen) = Len(log[page.of])
          \/ log[page.of][Len(page.seen) + 1].event = "glued"

\* The manager's lock keeps a place free for the call that passed its checks.
PlaceKept ==
  /\ IsFiniteSet(active)
  /\ Cardinality(active) <= MaxConcurrent
  /\ admitting # NoCall => Cardinality(active) < MaxConcurrent

TaskInv == TaskTypes /\ Lifetimes /\ CancelOnItsWay /\ Logs /\ Pages /\ PlaceKept

-----------------------------------------------------------------------------
(* Delegated runs: what an action does.                                     *)

\* The line that a record makes is the record, or is shared with what was left.
LEMMA LineIs ==
  ASSUME part \in [Calls -> Parts \cup {"no"}], NEW c \in Calls, NEW r \in Records
  PROVE  /\ Task!Line(c, r) \in Records
         /\ Task!Line(c, r) = r \/ Task!Line(c, r).event = "glued"
<1>1. CASE part[c] = "no"
  BY <1>1 DEF Task!Line
<1>2. CASE part[c] # "no"
  BY <1>2 DEF Task!Line, Task!Record, Records
<1> QED
  BY <1>1, <1>2

\* A line is put at the end of one log, or no line is; only a write that
\* failed puts none.
LEMMA AppendsOne ==
  ASSUME log \in [Calls -> Seq(Records)], part \in [Calls -> Parts \cup {"no"}],
         NEW c \in Calls, NEW r \in Records, NEW wrote \in BOOLEAN, Task!Appends(c, r, wrote)
  PROVE  /\ log' \in [Calls -> Seq(Records)] /\ part' \in [Calls -> Parts \cup {"no"}]
         /\ \A e \in Calls : e # c => log'[e] = log[e]
         /\ \/ /\ Len(log'[c]) = Len(log[c]) + 1
               /\ \/ log'[c][Len(log[c]) + 1] = r
                  \/ log'[c][Len(log[c]) + 1].event = "glued"
               /\ \A i \in 1..Len(log[c]) : log'[c][i] = log[c][i]
            \/ ~wrote /\ log' = log
<1> DEFINE line == Task!Line(c, r)
<1>1. line \in Records /\ (line = r \/ line.event = "glued")
  BY LineIs
<1>2. /\ \/ log' = [log EXCEPT ![c] = Append(@, line)]
         \/ ~wrote /\ log' = log
      /\ part' \in [Calls -> Parts \cup {"no"}]
  BY DEF Task!Appends, Task!Leaves
<1> HIDE DEF line
<1>3. CASE log' = [log EXCEPT ![c] = Append(@, line)]
  <2>1. log[c] \in Seq(Records) /\ log'[c] = Append(log[c], line)
    BY <1>3
  <2>2. /\ Append(log[c], line) \in Seq(Records) /\ Len(Append(log[c], line)) = Len(log[c]) + 1
        /\ Append(log[c], line)[Len(log[c]) + 1] = line
        /\ \A i \in 1..Len(log[c]) : Append(log[c], line)[i] = log[c][i]
    BY <1>1, <2>1
  <2> QED
    BY <1>1, <1>2, <1>3, <2>1, <2>2
<1>4. CASE ~wrote /\ log' = log
  BY <1>2, <1>4
<1> QED
  BY <1>2, <1>3, <1>4

-----------------------------------------------------------------------------
(* Delegated runs: each part of the invariant is kept by every step.        *)

\* The types.
LEMMA TypesKept ==
  ASSUME TaskTypes, Lifetimes, Task!Next
  PROVE  TaskTypes'
<1> USE DEF Task!runs, Task!files
<1>1. ASSUME NEW c \in Calls, Task!Call(c), ~dead PROVE TaskTypes'
  <2>1. CASE Task!Ask(c)
    <3>1. CASE parent = "running" /\ Task!Room
      BY <2>1, <3>1 DEF TaskTypes, Places, Running, Outcomes, Task!Ask
    <3>2. CASE ~(parent = "running" /\ Task!Room)
      BY <2>1, <3>2 DEF TaskTypes, Places, Running, Outcomes, Task!Ask
    <3> QED
      BY <3>1, <3>2
  <2>2. CASE Task!Admit(c)
    BY <1>1, <2>2 DEF TaskTypes, Places, Running, Outcomes, Task!Admit, Task!BornStopped
  <2>3. CASE Task!TellChild(c)
    BY <1>1, <2>3 DEF TaskTypes, Places, Running, Outcomes, Task!TellChild
  <2>4. CASE Task!Start(c)
    <3>1. PICK wrote \in BOOLEAN : Task!Appends(c, Task!Record("start", "running"), wrote)
      BY <2>4 DEF Task!Start
    <3>2. Task!Record("start", "running") \in Records
      BY DEF Task!Record, Records, Outcomes
    <3>3. log' \in [Calls -> Seq(Records)] /\ part' \in [Calls -> Parts \cup {"no"}]
      BY <3>1, <3>2, AppendsOne DEF TaskTypes
    <3>4. pc' \in [Calls -> Places] /\ answer' \in [Calls -> Outcomes \cup {"none"}]
      BY <2>4 DEF TaskTypes, Places, Running, Outcomes, Task!Start, Task!Goes
    <3>5. UNCHANGED <<parent, told, admitting, attached, active, retired, stop, request,
                      tool, status, dead, page>>
      BY <2>4 DEF Task!Start
    <3> QED
      BY <3>3, <3>4, <3>5 DEF TaskTypes
  <2>5. CASE Task!Prepare(c)
    BY <1>1, <2>5 DEF TaskTypes, Places, Running, Outcomes, Task!Prepare, Task!Goes
  <2>6. CASE Task!OpenRequest(c)
    BY <1>1, <2>6 DEF TaskTypes, Places, Running, Outcomes, Task!OpenRequest
  <2>7. CASE Task!CloseRequest(c)
    BY <1>1, <2>7 DEF TaskTypes, Places, Running, Outcomes, Task!CloseRequest
  <2>8. CASE Task!Tool(c)
    <3>1. PICK wrote \in BOOLEAN : Task!Appends(c, Task!Record(IF tool[c] = "none" THEN "tool_start" ELSE "tool_finish", "none"), wrote)
      BY <2>8 DEF Task!Tool
    <3>2. Task!Record(IF tool[c] = "none" THEN "tool_start" ELSE "tool_finish", "none") \in Records
      BY DEF Task!Record, Records, Outcomes
    <3>3. log' \in [Calls -> Seq(Records)] /\ part' \in [Calls -> Parts \cup {"no"}]
      BY <3>1, <3>2, AppendsOne DEF TaskTypes
    <3> QED
      BY <2>8, <3>3 DEF TaskTypes, Places, Running, Outcomes, Task!Tool
  <2>9. CASE Task!GraphEnds(c)
    <3>1. \/ /\ pc' = [pc EXCEPT ![c] = "finally"] /\ status' = [status EXCEPT ![c] = "completed"]
             /\ answer' = [answer EXCEPT ![c] = "completed"]
          \/ pc' = [pc EXCEPT ![c] = "except"] /\ status' = status /\ answer' = answer
      BY <2>9 DEF Task!GraphEnds, Task!Goes
    <3>2. UNCHANGED <<Task!runs, Task!files, tool, dead, page>>
      BY <2>9 DEF Task!GraphEnds
    <3> QED
      BY <3>1, <3>2 DEF TaskTypes, Places, Running, Outcomes
  <2>10. CASE Task!Except(c)
    <3>1. PICK wrote \in BOOLEAN : Task!Appends(c, Task!Record("error", IF stop[c] THEN "cancelled" ELSE "failed"), wrote)
      BY <2>10 DEF Task!Except
    <3>2. Task!Record("error", IF stop[c] THEN "cancelled" ELSE "failed") \in Records
      BY DEF Task!Record, Records, Outcomes
    <3>3. log' \in [Calls -> Seq(Records)] /\ part' \in [Calls -> Parts \cup {"no"}]
      BY <3>1, <3>2, AppendsOne DEF TaskTypes
    <3> QED
      BY <2>10, <3>3 DEF TaskTypes, Places, Running, Outcomes, Task!Except, Task!Goes
  <2>11. CASE Task!Finally(c)
    <3>1. PICK wrote \in BOOLEAN : Task!Appends(c, Task!Record("finish", Task!Final(c)), wrote)
      BY <2>11 DEF Task!Finally
    <3>2. Task!Record("finish", Task!Final(c)) \in Records
      BY DEF Task!Record, Records, Outcomes, TaskTypes, Task!Final
    <3>3. log' \in [Calls -> Seq(Records)] /\ part' \in [Calls -> Parts \cup {"no"}]
      BY <3>1, <3>2, AppendsOne DEF TaskTypes
    <3> QED
      BY <2>11, <3>3 DEF TaskTypes, Places, Running, Outcomes, Task!Finally, Task!Goes, Task!Final
  <2>12. CASE Task!Leave(c)
    BY <1>1, <2>12 DEF TaskTypes, Places, Running, Outcomes, Task!Leave, Task!Goes
  <2>13. CASE Task!Wait(c)
    BY <1>1, <2>13 DEF TaskTypes, Places, Running, Outcomes, Task!Wait, Task!Goes, Task!Detached
  <2> QED
    BY <1>1, <2>1, <2>2, <2>3, <2>4, <2>5, <2>6, <2>7, <2>8, <2>9, <2>10, <2>11, <2>12, <2>13 DEF Task!Call
<1>2. CASE Task!CancelParent
  BY <1>2 DEF TaskTypes, Places, Running, Outcomes, Task!CancelParent
<1>3. CASE Task!AllTold
  BY <1>3 DEF TaskTypes, Places, Running, Outcomes, Task!AllTold
<1>4. CASE Task!Crash
  <2>1. part' \in [Calls -> Parts \cup {"no"}]
    BY <1>4 DEF TaskTypes, Task!Crash, Task!Leaves
  <2> QED
    BY <1>4, <2>1 DEF TaskTypes, Places, Running, Outcomes, Task!Crash
<1>5. ASSUME NEW c \in Calls, Task!Read(c) PROVE TaskTypes'
  <2>1. page' \in [of : Calls \cup {NoCall}, offset : Nat, seen : Seq(Records),
                   said : {"more", "end", "error"}]
    <3>1. PICK n \in 0..Limit :
            LET got == SubSeq(log[c], page.offset + 1, page.offset + n) IN
            /\ page.offset + n <= Len(log[c])
            /\ \/ page' = [page EXCEPT !.of = c, !.said = "error"]
               \/ page' = [of |-> c, offset |-> page.offset + Len(got), seen |-> page.seen \o got,
                           said |-> IF n = 0 THEN "end" ELSE "more"]
      BY <1>5 DEF Task!Read, Task!NextOffset
    <3> DEFINE got == SubSeq(log[c], page.offset + 1, page.offset + n)
    <3>2. log[c] \in Seq(Records) /\ page.offset \in Nat /\ n \in Nat
          /\ page.offset + n <= Len(log[c]) /\ page.seen \in Seq(Records)
      BY <3>1 DEF TaskTypes
    <3>3. got \in Seq(Records)
      BY <3>2
    <3>4. Len(got) \in Nat /\ page.seen \o got \in Seq(Records)
      BY <3>2, <3>3
    <3>5. page' = [page EXCEPT !.of = c, !.said = "error"]
          \/ page' = [of |-> c, offset |-> page.offset + Len(got), seen |-> page.seen \o got,
                      said |-> IF n = 0 THEN "end" ELSE "more"]
      BY <3>1
    <3> HIDE DEF got
    <3>6. CASE page' = [page EXCEPT !.of = c, !.said = "error"]
      BY <3>6 DEF TaskTypes
    <3>7. CASE page' = [of |-> c, offset |-> page.offset + Len(got), seen |-> page.seen \o got,
                        said |-> IF n = 0 THEN "end" ELSE "more"]
      BY <3>2, <3>4, <3>7
    <3> QED
      BY <3>5, <3>6, <3>7
  <2> QED
    BY <1>5, <2>1 DEF TaskTypes, Task!Read
<1> QED
  BY <1>1, <1>2, <1>3, <1>4, <1>5 DEF Task!Next

\* A child whose run goes on stays where it is.
LEMMA MovesInRun ==
  ASSUME TaskTypes, Lifetimes, NEW c \in Calls, NEW p \in Running, pc[c] \in Running,
         pc' = [pc EXCEPT ![c] = p],
         UNCHANGED <<admitting, attached, active, retired, request>>
  PROVE  Lifetimes'
<1>1. \A e \in Calls : (pc'[e] \in Running <=> pc[e] \in Running) /\ (e # c => pc'[e] = pc[e])
  BY DEF TaskTypes
<1>2. admitting' # NoCall => pc'[admitting'] = "admitted"
  BY TaskConstants DEF TaskTypes, Lifetimes, Running
<1>3. \A e \in Calls : (pc'[e] \in {"wait", "done"} <=> pc[e] \in {"wait", "done"})
                       /\ (pc'[e] \in {"idle", "admitted"} <=> pc[e] \in {"idle", "admitted"})
  BY DEF TaskTypes, Running
<1>4. active' = {e \in Calls : pc'[e] \in Running}
  BY <1>1 DEF Lifetimes
<1>5. retired' = {e \in attached' : pc'[e] \in {"wait", "done"}}
  BY <1>3 DEF Lifetimes, TaskTypes
<1> QED
  BY <1>2, <1>3, <1>4, <1>5 DEF Lifetimes, TaskTypes

\* The places of a child.
LEMMA LifetimesKept ==
  ASSUME TaskTypes, Lifetimes, Task!Next
  PROVE  Lifetimes'
<1> USE DEF Task!runs, Task!files
<1>1. ASSUME NEW c \in Calls, Task!Call(c), ~dead PROVE Lifetimes'
  <2>1. CASE Task!Ask(c)
    <3>1. /\ UNCHANGED <<attached, active, retired, request>> /\ pc[c] = "idle"
          /\ \/ pc' = [pc EXCEPT ![c] = "admitted"] /\ admitting' = c
             \/ pc' = [pc EXCEPT ![c] = "done"] /\ admitting' = admitting
          /\ admitting = NoCall
      BY <2>1 DEF Task!Ask
    <3>2. c \notin attached /\ \A e \in Calls : e # c => pc'[e] = pc[e]
      BY <3>1 DEF TaskTypes, Lifetimes
    <3>3. pc'[c] \notin Running /\ pc[c] \notin Running /\ (admitting' # NoCall => pc'[admitting'] = "admitted")
      BY <3>1, TaskConstants DEF TaskTypes, Running
    <3>4. active' = {e \in Calls : pc'[e] \in Running}
      BY <3>1, <3>2, <3>3 DEF Lifetimes
    <3>5. retired' = {e \in attached' : pc'[e] \in {"wait", "done"}}
      BY <3>1, <3>2 DEF Lifetimes, TaskTypes
    <3>6. \A e \in attached' : pc'[e] \notin {"idle", "admitted"}
      BY <3>1, <3>2 DEF Lifetimes, TaskTypes
    <3> QED
      BY <3>1, <3>3, <3>4, <3>5, <3>6 DEF Lifetimes
  <2>2. CASE Task!Admit(c)
    BY <1>1, <2>2, TaskConstants DEF TaskTypes, Lifetimes, Places, Running, Task!Admit, Task!BornStopped
  <2>3. CASE Task!TellChild(c)
    BY <1>1, <2>3, TaskConstants DEF TaskTypes, Lifetimes, Places, Running, Task!TellChild
  <2>4. CASE Task!Start(c)
    BY <2>4, MovesInRun DEF TaskTypes, Running, Task!Start, Task!Goes
  <2>5. CASE Task!Prepare(c)
    BY <2>5, MovesInRun DEF TaskTypes, Running, Task!Prepare, Task!Goes
  <2>6. CASE Task!OpenRequest(c)
    BY <1>1, <2>6, TaskConstants DEF TaskTypes, Lifetimes, Places, Running, Task!OpenRequest
  <2>7. CASE Task!CloseRequest(c)
    BY <1>1, <2>7, TaskConstants DEF TaskTypes, Lifetimes, Places, Running, Task!CloseRequest
  <2>8. CASE Task!Tool(c)
    BY <1>1, <2>8, TaskConstants DEF TaskTypes, Lifetimes, Places, Running, Task!Tool
  <2>9. CASE Task!GraphEnds(c)
    BY <2>9, MovesInRun DEF TaskTypes, Running, Task!GraphEnds, Task!Goes
  <2>10. CASE Task!Except(c)
    BY <2>10, MovesInRun DEF TaskTypes, Running, Task!Except, Task!Goes
  <2>11. CASE Task!Finally(c)
    BY <2>11, MovesInRun DEF TaskTypes, Running, Task!Finally, Task!Goes
  <2>12. CASE Task!Leave(c)
    BY <1>1, <2>12, TaskConstants DEF TaskTypes, Lifetimes, Places, Running, Task!Leave, Task!Goes
  <2>13. CASE Task!Wait(c)
    BY <1>1, <2>13, TaskConstants DEF TaskTypes, Lifetimes, Places, Running, Task!Wait, Task!Goes, Task!Detached
  <2> QED
    BY <1>1, <2>1, <2>2, <2>3, <2>4, <2>5, <2>6, <2>7, <2>8, <2>9, <2>10, <2>11, <2>12, <2>13 DEF Task!Call
<1>2. CASE Task!CancelParent
  BY <1>2, TaskConstants DEF TaskTypes, Lifetimes, Places, Running, Task!CancelParent
<1>3. CASE Task!AllTold
  BY <1>3, TaskConstants DEF TaskTypes, Lifetimes, Places, Running, Task!AllTold
<1>4. CASE Task!Crash
  BY <1>4, TaskConstants DEF TaskTypes, Lifetimes, Places, Running, Task!Crash
<1>5. ASSUME NEW c \in Calls, Task!Read(c) PROVE Lifetimes'
  BY <1>5, TaskConstants DEF TaskTypes, Lifetimes, Places, Running, Task!Read
<1> QED
  BY <1>1, <1>2, <1>3, <1>4, <1>5 DEF Task!Next

\* The way of the cancel: a child admitted meanwhile is born stopped.
LEMMA CancelOnItsWayKept ==
  ASSUME TaskTypes, Lifetimes, CancelOnItsWay, Task!Next
  PROVE  CancelOnItsWay'
<1> USE DEF Task!runs, Task!files
<1>1. ASSUME NEW c \in Calls, Task!Call(c), ~dead PROVE CancelOnItsWay'
  <2>1. CASE Task!Ask(c)
    BY <1>1, <2>1 DEF TaskTypes, Lifetimes, CancelOnItsWay, Task!Ask
  <2>2. CASE Task!Admit(c)
    <3>1. active' = active \cup {c} /\ parent' = parent /\ told' = told
          /\ stop' = [stop EXCEPT ![c] = parent # "running"]
      BY <2>2 DEF Task!Admit, Task!BornStopped
    <3>2. \A e \in active : e # c => stop'[e] = stop[e]
      BY <3>1 DEF TaskTypes
    <3>3. parent # "running" => stop'[c]
      BY <3>1 DEF TaskTypes
    <3> QED
      BY <3>1, <3>2, <3>3 DEF CancelOnItsWay
  <2>3. CASE Task!TellChild(c)
    BY <1>1, <2>3 DEF TaskTypes, Lifetimes, CancelOnItsWay, Task!TellChild
  <2>4. CASE Task!Start(c)
    BY <1>1, <2>4 DEF TaskTypes, Lifetimes, CancelOnItsWay, Task!Start, Task!Goes
  <2>5. CASE Task!Prepare(c)
    BY <1>1, <2>5 DEF TaskTypes, Lifetimes, CancelOnItsWay, Task!Prepare, Task!Goes
  <2>6. CASE Task!OpenRequest(c)
    BY <1>1, <2>6 DEF TaskTypes, Lifetimes, CancelOnItsWay, Task!OpenRequest
  <2>7. CASE Task!CloseRequest(c)
    BY <1>1, <2>7 DEF TaskTypes, Lifetimes, CancelOnItsWay, Task!CloseRequest
  <2>8. CASE Task!Tool(c)
    BY <1>1, <2>8 DEF TaskTypes, Lifetimes, CancelOnItsWay, Task!Tool
  <2>9. CASE Task!GraphEnds(c)
    BY <1>1, <2>9 DEF TaskTypes, Lifetimes, CancelOnItsWay, Task!GraphEnds, Task!Goes
  <2>10. CASE Task!Except(c)
    BY <1>1, <2>10 DEF TaskTypes, Lifetimes, CancelOnItsWay, Task!Except, Task!Goes
  <2>11. CASE Task!Finally(c)
    BY <1>1, <2>11 DEF TaskTypes, Lifetimes, CancelOnItsWay, Task!Finally, Task!Goes, Task!Final
  <2>12. CASE Task!Leave(c)
    BY <1>1, <2>12 DEF TaskTypes, Lifetimes, CancelOnItsWay, Task!Leave, Task!Goes
  <2>13. CASE Task!Wait(c)
    BY <1>1, <2>13 DEF TaskTypes, Lifetimes, CancelOnItsWay, Task!Wait, Task!Goes, Task!Detached
  <2> QED
    BY <1>1, <2>1, <2>2, <2>3, <2>4, <2>5, <2>6, <2>7, <2>8, <2>9, <2>10, <2>11, <2>12, <2>13 DEF Task!Call
<1>2. CASE Task!CancelParent
  BY <1>2 DEF TaskTypes, Lifetimes, CancelOnItsWay, Task!CancelParent
<1>3. CASE Task!AllTold
  BY <1>3 DEF TaskTypes, Lifetimes, CancelOnItsWay, Task!AllTold
<1>4. CASE Task!Crash
  BY <1>4 DEF TaskTypes, Lifetimes, CancelOnItsWay, Task!Crash
<1>5. ASSUME NEW c \in Calls, Task!Read(c) PROVE CancelOnItsWay'
  BY <1>5 DEF TaskTypes, Lifetimes, CancelOnItsWay, Task!Read
<1> QED
  BY <1>1, <1>2, <1>3, <1>4, <1>5 DEF Task!Next

\* A step of one call leaves the logs of the others what they are.
LEMMA OtherLogs ==
  ASSUME Logs, NEW c \in Calls, LogOf(c)',
         \A e \in Calls : e # c => /\ log'[e] = log[e] /\ pc'[e] = pc[e]
                                   /\ status'[e] = status[e] /\ answer'[e] = answer[e]
  PROVE  Logs'
  BY DEF Logs, LogOf

\* A log without a finish keeps without it when another record is written.
LEMMA NoFinishYet ==
  ASSUME TaskTypes, NEW c \in Calls, NEW r \in Records, NEW wrote \in BOOLEAN,
         Task!Appends(c, r, wrote), r.event # "finish",
         \A i \in 1..Len(log[c]) : log[c][i].event # "finish"
  PROVE  \A i \in 1..Len(log'[c]) : log'[c][i].event # "finish"
<1>1. /\ log[c] \in Seq(Records)
      /\ \/ /\ Len(log'[c]) = Len(log[c]) + 1
            /\ \/ log'[c][Len(log[c]) + 1] = r
               \/ log'[c][Len(log[c]) + 1].event = "glued"
            /\ \A i \in 1..Len(log[c]) : log'[c][i] = log[c][i]
         \/ log' = log
  BY AppendsOne DEF TaskTypes
<1> QED
  BY <1>1

\* The logs and the answers.
LEMMA LogsKept ==
  ASSUME TaskTypes, Lifetimes, Logs, Task!Next
  PROVE  Logs'
<1> USE DEF Task!runs, Task!files
<1>1. ASSUME NEW c \in Calls, Task!Call(c), ~dead PROVE Logs'
  <2>1. CASE Task!Ask(c)
    <3>1. pc[c] = "idle" /\ UNCHANGED <<log, status>>
          /\ \/ pc' = [pc EXCEPT ![c] = "admitted"] /\ answer' = answer
             \/ pc' = [pc EXCEPT ![c] = "done"] /\ answer' = [answer EXCEPT ![c] = "failed"]
      BY <2>1 DEF Task!Ask
    <3>2. \A e \in Calls : e # c => /\ log'[e] = log[e] /\ pc'[e] = pc[e]
                                        /\ status'[e] = status[e] /\ answer'[e] = answer[e]
      BY <3>1 DEF TaskTypes
    <3>3. LogOf(c)'
      BY <3>1 DEF TaskTypes, Logs, LogOf, Unfinished
    <3> QED
      BY <3>2, <3>3, OtherLogs
  <2>2. CASE Task!Admit(c)
    <3>1. \A e \in Calls : e # c => /\ log'[e] = log[e] /\ pc'[e] = pc[e]
                                        /\ status'[e] = status[e] /\ answer'[e] = answer[e]
      BY <2>2 DEF TaskTypes, Task!Admit, Task!BornStopped
    <3>2. LogOf(c)'
      BY <2>2, TaskConstants DEF Lifetimes, TaskTypes, Logs, LogOf, Unfinished, Task!Admit, Task!BornStopped
    <3> QED
      BY <3>1, <3>2, OtherLogs
  <2>3. CASE Task!TellChild(c)
    <3>1. \A e \in Calls : e # c => /\ log'[e] = log[e] /\ pc'[e] = pc[e]
                                        /\ status'[e] = status[e] /\ answer'[e] = answer[e]
      BY <2>3 DEF TaskTypes, Task!TellChild
    <3>2. LogOf(c)'
      BY <2>3 DEF TaskTypes, Logs, LogOf, Unfinished, Task!TellChild
    <3> QED
      BY <3>1, <3>2, OtherLogs
  <2>4. CASE Task!Start(c)
    <3>1. PICK wrote \in BOOLEAN :
            /\ Task!Appends(c, Task!Record("start", "running"), wrote)
            /\ IF wrote THEN pc' = [pc EXCEPT ![c] = "prepare"] /\ answer' = answer
                        ELSE pc' = [pc EXCEPT ![c] = "leave"] /\ answer' = [answer EXCEPT ![c] = "failed"]
      BY <2>4 DEF Task!Start, Task!Goes
    <3>2. Task!Record("start", "running") \in Records /\ Task!Record("start", "running").event # "finish"
          /\ pc[c] = "start" /\ status' = status
      BY <2>4 DEF Task!Record, Records, Outcomes, Task!Start
    <3>3. \A e \in Calls : e # c => /\ log'[e] = log[e] /\ pc'[e] = pc[e]
                                        /\ status'[e] = status[e] /\ answer'[e] = answer[e]
      BY <3>1, <3>2, AppendsOne DEF TaskTypes
    <3>4. \A i \in 1..Len(log'[c]) : log'[c][i].event # "finish"
      BY <3>1, <3>2, NoFinishYet DEF Logs, LogOf, Unfinished
    <3>6. Len(log'[c]) \in Nat
      BY <3>1, <3>2, AppendsOne DEF TaskTypes
    <3>5. LogOf(c)'
      <4>1. CASE wrote
        BY <3>6, <3>1, <3>2, <3>4, <4>1 DEF TaskTypes, Logs, LogOf, Unfinished
      <4>2. CASE ~wrote
        BY <3>6, <3>1, <3>2, <3>4, <4>2 DEF TaskTypes, Logs, LogOf, Unfinished
      <4> QED
        BY <4>1, <4>2
    <3> QED
      BY <3>3, <3>5, OtherLogs
  <2>5. CASE Task!Prepare(c)
    <3>1. \A e \in Calls : e # c => /\ log'[e] = log[e] /\ pc'[e] = pc[e]
                                        /\ status'[e] = status[e] /\ answer'[e] = answer[e]
      BY <2>5 DEF TaskTypes, Task!Prepare, Task!Goes
    <3>2. LogOf(c)'
      BY <2>5 DEF TaskTypes, Logs, LogOf, Unfinished, Task!Prepare, Task!Goes
    <3> QED
      BY <3>1, <3>2, OtherLogs
  <2>6. CASE Task!OpenRequest(c)
    <3>1. \A e \in Calls : e # c => /\ log'[e] = log[e] /\ pc'[e] = pc[e]
                                        /\ status'[e] = status[e] /\ answer'[e] = answer[e]
      BY <2>6 DEF TaskTypes, Task!OpenRequest
    <3>2. LogOf(c)'
      BY <2>6 DEF TaskTypes, Logs, LogOf, Unfinished, Task!OpenRequest
    <3> QED
      BY <3>1, <3>2, OtherLogs
  <2>7. CASE Task!CloseRequest(c)
    <3>1. \A e \in Calls : e # c => /\ log'[e] = log[e] /\ pc'[e] = pc[e]
                                        /\ status'[e] = status[e] /\ answer'[e] = answer[e]
      BY <2>7 DEF TaskTypes, Task!CloseRequest
    <3>2. LogOf(c)'
      BY <2>7 DEF TaskTypes, Logs, LogOf, Unfinished, Task!CloseRequest
    <3> QED
      BY <3>1, <3>2, OtherLogs
  <2>8. CASE Task!Tool(c)
    <3> DEFINE r == Task!Record(IF tool[c] = "none" THEN "tool_start" ELSE "tool_finish", "none")
    <3>1. PICK wrote \in BOOLEAN : Task!Appends(c, r, wrote)
      BY <2>8 DEF Task!Tool
    <3>2. r \in Records /\ r.event # "finish" /\ pc[c] = "graph" /\ UNCHANGED <<pc, status, answer>>
      BY <2>8 DEF Task!Record, Records, Outcomes, Task!Tool
    <3> HIDE DEF r
    <3>3. \A e \in Calls : e # c => /\ log'[e] = log[e] /\ pc'[e] = pc[e]
                                        /\ status'[e] = status[e] /\ answer'[e] = answer[e]
      BY <3>1, <3>2, AppendsOne DEF TaskTypes
    <3>4. \A i \in 1..Len(log'[c]) : log'[c][i].event # "finish"
      BY <3>1, <3>2, NoFinishYet DEF Logs, LogOf, Unfinished
    <3>5. LogOf(c)'
      BY <3>2, <3>4 DEF TaskTypes, Logs, LogOf, Unfinished
    <3> QED
      BY <3>3, <3>5, OtherLogs
  <2>9. CASE Task!GraphEnds(c)
    <3>1. pc[c] = "graph" /\ log' = log
          /\ \/ /\ pc' = [pc EXCEPT ![c] = "finally"] /\ status' = [status EXCEPT ![c] = "completed"]
                /\ answer' = [answer EXCEPT ![c] = "completed"]
             \/ pc' = [pc EXCEPT ![c] = "except"] /\ status' = status /\ answer' = answer
      BY <2>9 DEF Task!GraphEnds, Task!Goes
    <3>2. \A e \in Calls : e # c => /\ log'[e] = log[e] /\ pc'[e] = pc[e]
                                        /\ status'[e] = status[e] /\ answer'[e] = answer[e]
      BY <3>1 DEF TaskTypes
    <3>3. LogOf(c)'
      BY <3>1 DEF TaskTypes, Logs, LogOf, Unfinished
    <3> QED
      BY <3>2, <3>3, OtherLogs
  <2>10. CASE Task!Except(c)
    <3> DEFINE s == IF stop[c] THEN "cancelled" ELSE "failed"
               r == Task!Record("error", s)
    <3>1. PICK wrote \in BOOLEAN :
            /\ Task!Appends(c, r, wrote) /\ status' = [status EXCEPT ![c] = s]
            /\ answer' = [answer EXCEPT ![c] = IF wrote THEN s ELSE "failed"]
      BY <2>10 DEF Task!Except
    <3>2. r \in Records /\ r.event # "finish" /\ pc[c] = "except" /\ s # "completed"
          /\ pc' = [pc EXCEPT ![c] = "finally"]
      BY <2>10 DEF Task!Record, Records, Outcomes, Task!Except, Task!Goes
    <3> HIDE DEF r, s
    <3>3. \A e \in Calls : e # c => /\ log'[e] = log[e] /\ pc'[e] = pc[e]
                                        /\ status'[e] = status[e] /\ answer'[e] = answer[e]
      BY <3>1, <3>2, AppendsOne DEF TaskTypes
    <3>4. \A i \in 1..Len(log'[c]) : log'[c][i].event # "finish"
      BY <3>1, <3>2, NoFinishYet DEF Logs, LogOf, Unfinished
    <3>5. LogOf(c)'
      BY <3>1, <3>2, <3>4 DEF TaskTypes, Logs, LogOf, Unfinished
    <3> QED
      BY <3>3, <3>5, OtherLogs
  <2>11. CASE Task!Finally(c)
    <3> DEFINE r == Task!Record("finish", status[c])
    <3>1. PICK wrote \in BOOLEAN :
            /\ Task!Appends(c, r, wrote)
            /\ answer' = [answer EXCEPT ![c] = IF wrote THEN answer[c] ELSE "failed"]
      BY <2>11 DEF Task!Finally, Task!Final
    <3>2. r \in Records /\ r.event = "finish" /\ r.status = status[c] /\ pc[c] = "finally"
          /\ pc' = [pc EXCEPT ![c] = "leave"] /\ status' = status
      BY <2>11 DEF Task!Record, Records, Outcomes, Task!Finally, Task!Goes, TaskTypes
    <3> HIDE DEF r
    <3>3. \A e \in Calls : e # c => /\ log'[e] = log[e] /\ pc'[e] = pc[e]
                                        /\ status'[e] = status[e] /\ answer'[e] = answer[e]
      BY <3>1, <3>2, AppendsOne DEF TaskTypes
    <3>4. LogOf(c)'
      <4>1. /\ pc'[c] = "leave" /\ status'[c] = status[c] /\ answer'[c] = IF wrote THEN answer[c] ELSE "failed"
            /\ log[c] \in Seq(Records)
        BY <3>1, <3>2 DEF TaskTypes
      <4>2. /\ answer[c] = "completed" => status[c] = "completed"
            /\ \A i \in 1..Len(log[c]) : log[c][i].event # "finish"
        BY <3>2 DEF Logs, LogOf
      <4>3. \/ /\ Len(log'[c]) = Len(log[c]) + 1
               /\ \/ log'[c][Len(log[c]) + 1] = r
                  \/ log'[c][Len(log[c]) + 1].event = "glued"
               /\ \A i \in 1..Len(log[c]) : log'[c][i] = log[c][i]
            \/ ~wrote /\ log' = log
        BY <3>1, <3>2, AppendsOne DEF TaskTypes
      <4>4. CASE Len(log'[c]) = Len(log[c]) + 1 /\ log'[c][Len(log[c]) + 1] = r
                 /\ \A i \in 1..Len(log[c]) : log'[c][i] = log[c][i]
        BY <3>2, <4>1, <4>2, <4>4 DEF LogOf, Unfinished
      <4>5. CASE /\ Len(log'[c]) = Len(log[c]) + 1
                 /\ log'[c][Len(log[c]) + 1].event = "glued"
                 /\ \A i \in 1..Len(log[c]) : log'[c][i] = log[c][i]
        BY <4>1, <4>2, <4>5 DEF LogOf, Unfinished
      <4>6. CASE ~wrote /\ log' = log
        BY <4>1, <4>2, <4>6 DEF LogOf, Unfinished
      <4> QED
        BY <4>3, <4>4, <4>5, <4>6
    <3> QED
      BY <3>3, <3>4, OtherLogs
  <2>12. CASE Task!Leave(c)
    <3>1. \A e \in Calls : e # c => /\ log'[e] = log[e] /\ pc'[e] = pc[e]
                                        /\ status'[e] = status[e] /\ answer'[e] = answer[e]
      BY <2>12 DEF TaskTypes, Task!Leave, Task!Goes
    <3>2. LogOf(c)'
      BY <2>12 DEF TaskTypes, Logs, LogOf, Unfinished, Task!Leave, Task!Goes
    <3> QED
      BY <3>1, <3>2, OtherLogs
  <2>13. CASE Task!Wait(c)
    <3>1. \A e \in Calls : e # c => /\ log'[e] = log[e] /\ pc'[e] = pc[e]
                                        /\ status'[e] = status[e] /\ answer'[e] = answer[e]
      BY <2>13 DEF TaskTypes, Task!Wait, Task!Goes, Task!Detached
    <3>2. LogOf(c)'
      BY <2>13 DEF TaskTypes, Logs, LogOf, Unfinished, Task!Wait, Task!Goes, Task!Detached
    <3> QED
      BY <3>1, <3>2, OtherLogs
  <2> QED
    BY <1>1, <2>1, <2>2, <2>3, <2>4, <2>5, <2>6, <2>7, <2>8, <2>9, <2>10, <2>11, <2>12, <2>13 DEF Task!Call
<1>2. CASE Task!CancelParent
  BY <1>2 DEF Logs, LogOf, Task!CancelParent
<1>3. CASE Task!AllTold
  BY <1>3 DEF Logs, LogOf, Task!AllTold
<1>4. CASE Task!Crash
  BY <1>4 DEF Logs, LogOf, Task!Crash
<1>5. ASSUME NEW c \in Calls, Task!Read(c) PROVE Logs'
  BY <1>5 DEF Logs, LogOf, Task!Read
<1> QED
  BY <1>1, <1>2, <1>3, <1>4, <1>5 DEF Task!Next

\* A page of a log, put behind the beginning of it that was read.
LEMMA PageOf ==
  ASSUME NEW R, NEW l \in Seq(R), NEW seen \in Seq(R), NEW n \in Nat,
         Len(seen) + n <= Len(l), \A i \in 1..Len(seen) : seen[i] = l[i]
  PROVE  LET got == SubSeq(l, Len(seen) + 1, Len(seen) + n) IN
         /\ got \in Seq(R) /\ Len(got) = n /\ seen \o got \in Seq(R)
         /\ Len(seen \o got) = Len(seen) + n
         /\ \A i \in 1..(Len(seen) + n) : (seen \o got)[i] = l[i]
<1> DEFINE got == SubSeq(l, Len(seen) + 1, Len(seen) + n)
<1>1. \A i \in (Len(seen) + 1)..(Len(seen) + n) : l[i] \in R
  OBVIOUS
<1>2. /\ got \in Seq(R)
      /\ Len(got) = IF Len(seen) + 1 <= Len(seen) + n THEN Len(seen) + n - (Len(seen) + 1) + 1 ELSE 0
      /\ \A i \in 1..(Len(seen) + n - (Len(seen) + 1) + 1) : got[i] = l[Len(seen) + 1 + i - 1]
  <2> DEFINE a == Len(seen) + 1
             b == Len(seen) + n
  <2>1. a \in Int /\ b \in Int
    OBVIOUS
  <2>2. \A i \in a..b : l[i] \in R
    BY <1>1
  <2> HIDE DEF a, b
  <2>3. /\ SubSeq(l, a, b) \in Seq(R)
        /\ Len(SubSeq(l, a, b)) = IF a <= b THEN b - a + 1 ELSE 0
        /\ \A i \in 1..(b - a + 1) : SubSeq(l, a, b)[i] = l[a + i - 1]
    BY <2>1, <2>2, SubSeqProperties
  <2> QED
    BY <2>3 DEF a, b
<1>3. Len(got) = n /\ \A i \in 1..n : got[i] = l[Len(seen) + i]
  BY <1>2
<1> HIDE DEF got
<1>4. /\ seen \o got \in Seq(R) /\ Len(seen \o got) = Len(seen) + Len(got)
      /\ \A i \in 1..(Len(seen) + Len(got)) :
           (seen \o got)[i] = IF i <= Len(seen) THEN seen[i] ELSE got[i - Len(seen)]
  BY <1>2, ConcatProperties
<1>5. \A i \in 1..(Len(seen) + n) : (seen \o got)[i] = l[i]
  BY <1>3, <1>4
<1> QED
  BY <1>2, <1>3, <1>4, <1>5 DEF got

\* What a call does to the logs: each is what it was, with a line more or not;
\* the reader is not touched.
LEMMA LogsGrow ==
  ASSUME TaskTypes, NEW c \in Calls, Task!Call(c)
  PROVE  /\ page' = page
         /\ \A e \in Calls : /\ Len(log'[e]) \in Nat /\ Len(log[e]) <= Len(log'[e])
                             /\ \A i \in 1..Len(log[e]) : log'[e][i] = log[e][i]
<1> DEFINE Grows == \A e \in Calls : /\ Len(log'[e]) \in Nat /\ Len(log[e]) <= Len(log'[e])
                                     /\ \A i \in 1..Len(log[e]) : log'[e][i] = log[e][i]
<1>1. \A e \in Calls : log[e] \in Seq(Records) /\ Len(log[e]) \in Nat
  BY DEF TaskTypes
<1>2. log' = log => Grows
  BY <1>1
<1>3. ASSUME NEW r \in Records, NEW wrote \in BOOLEAN, Task!Appends(c, r, wrote)
      PROVE  Grows
  <2>1. /\ \A e \in Calls : e # c => log'[e] = log[e]
        /\ \/ /\ Len(log'[c]) = Len(log[c]) + 1
              /\ \A i \in 1..Len(log[c]) : log'[c][i] = log[c][i]
           \/ log' = log
    BY <1>3, AppendsOne DEF TaskTypes
  <2> QED
    BY <1>1, <1>2, <2>1
<1> HIDE DEF Grows
<1>4. CASE Task!Ask(c)
  <2>1. UNCHANGED <<log, page>>
    BY <1>4 DEF Task!Ask, Task!runs, Task!files
  <2> QED
    BY <1>2, <2>1 DEF Grows
<1>5. CASE Task!Admit(c)
  <2>1. UNCHANGED <<log, page>>
    BY <1>5 DEF Task!Admit, Task!runs, Task!files
  <2> QED
    BY <1>2, <2>1 DEF Grows
<1>6. CASE Task!TellChild(c)
  <2>1. UNCHANGED <<log, page>>
    BY <1>6 DEF Task!TellChild, Task!runs, Task!files
  <2> QED
    BY <1>2, <2>1 DEF Grows
<1>7. CASE Task!Start(c)
  <2>1. PICK wrote \in BOOLEAN : Task!Appends(c, Task!Record("start", "running"), wrote)
    BY <1>7 DEF Task!Start
  <2>2. Task!Record("start", "running") \in Records /\ page' = page
    BY <1>7 DEF Task!Start, Task!Record, Records, Outcomes, TaskTypes, Task!Final
  <2> QED
    BY <1>3, <2>1, <2>2 DEF Grows
<1>8. CASE Task!Prepare(c)
  <2>1. UNCHANGED <<log, page>>
    BY <1>8 DEF Task!Prepare, Task!runs, Task!files
  <2> QED
    BY <1>2, <2>1 DEF Grows
<1>9. CASE Task!OpenRequest(c)
  <2>1. UNCHANGED <<log, page>>
    BY <1>9 DEF Task!OpenRequest, Task!runs, Task!files
  <2> QED
    BY <1>2, <2>1 DEF Grows
<1>10. CASE Task!CloseRequest(c)
  <2>1. UNCHANGED <<log, page>>
    BY <1>10 DEF Task!CloseRequest, Task!runs, Task!files
  <2> QED
    BY <1>2, <2>1 DEF Grows
<1>11. CASE Task!Tool(c)
  <2>1. PICK wrote \in BOOLEAN : Task!Appends(c, Task!Record(IF tool[c] = "none" THEN "tool_start" ELSE "tool_finish", "none"), wrote)
    BY <1>11 DEF Task!Tool
  <2>2. Task!Record(IF tool[c] = "none" THEN "tool_start" ELSE "tool_finish", "none") \in Records /\ page' = page
    BY <1>11 DEF Task!Tool, Task!Record, Records, Outcomes, TaskTypes, Task!Final
  <2> QED
    BY <1>3, <2>1, <2>2 DEF Grows
<1>12. CASE Task!GraphEnds(c)
  <2>1. UNCHANGED <<log, page>>
    BY <1>12 DEF Task!GraphEnds, Task!runs, Task!files
  <2> QED
    BY <1>2, <2>1 DEF Grows
<1>13. CASE Task!Except(c)
  <2>1. PICK wrote \in BOOLEAN : Task!Appends(c, Task!Record("error", IF stop[c] THEN "cancelled" ELSE "failed"), wrote)
    BY <1>13 DEF Task!Except
  <2>2. Task!Record("error", IF stop[c] THEN "cancelled" ELSE "failed") \in Records /\ page' = page
    BY <1>13 DEF Task!Except, Task!Record, Records, Outcomes, TaskTypes, Task!Final
  <2> QED
    BY <1>3, <2>1, <2>2 DEF Grows
<1>14. CASE Task!Finally(c)
  <2>1. PICK wrote \in BOOLEAN : Task!Appends(c, Task!Record("finish", Task!Final(c)), wrote)
    BY <1>14 DEF Task!Finally
  <2>2. Task!Record("finish", Task!Final(c)) \in Records /\ page' = page
    BY <1>14 DEF Task!Finally, Task!Record, Records, Outcomes, TaskTypes, Task!Final
  <2> QED
    BY <1>3, <2>1, <2>2 DEF Grows
<1>15. CASE Task!Leave(c)
  <2>1. UNCHANGED <<log, page>>
    BY <1>15 DEF Task!Leave, Task!runs, Task!files
  <2> QED
    BY <1>2, <2>1 DEF Grows
<1>16. CASE Task!Wait(c)
  <2>1. UNCHANGED <<log, page>>
    BY <1>16 DEF Task!Wait, Task!runs, Task!files
  <2> QED
    BY <1>2, <2>1 DEF Grows
<1> QED
  BY <1>4, <1>5, <1>6, <1>7, <1>8, <1>9, <1>10, <1>11, <1>12, <1>13, <1>14, <1>15, <1>16 DEF Task!Call

\* The reader.
LEMMA PagesKept ==
  ASSUME TaskTypes, Pages, Task!Next
  PROVE  Pages'
<1> USE DEF Task!runs, Task!files
<1>1. ASSUME NEW c \in Calls, Task!Call(c), ~dead PROVE Pages'
  <2>1. /\ page' = page
        /\ \A e \in Calls : /\ Len(log'[e]) \in Nat /\ Len(log[e]) <= Len(log'[e])
                            /\ \A i \in 1..Len(log[e]) : log'[e][i] = log[e][i]
    BY <1>1, LogsGrow
  <2>2. page.said # "end"
    BY <1>1 DEF Pages
  <2>3. page.of # NoCall => page.of \in Calls /\ Len(page.seen) \in Nat /\ log[page.of] \in Seq(Records)
    BY DEF TaskTypes
  <2>5. page.of # NoCall =>
          /\ Len(page.seen) <= Len(log[page.of]) /\ Len(log[page.of]) <= Len(log'[page.of])
          /\ \A i \in 1..Len(page.seen) : page.seen[i] = log'[page.of][i]
    <3> SUFFICES ASSUME page.of # NoCall
                 PROVE  /\ Len(page.seen) <= Len(log[page.of]) /\ Len(log[page.of]) <= Len(log'[page.of])
                        /\ \A i \in 1..Len(page.seen) : page.seen[i] = log'[page.of][i]
      OBVIOUS
    <3>1. Len(page.seen) <= Len(log[page.of]) /\ \A i \in 1..Len(page.seen) : page.seen[i] = log[page.of][i]
      BY DEF Pages
    <3> QED
      BY <2>1, <2>3, <3>1
  <2>7. page.of # NoCall => Len(page.seen) <= Len(log'[page.of])
    BY <2>1, <2>3, <2>5
  <2> QED
    BY <2>1, <2>2, <2>5, <2>7 DEF Pages
<1>2. CASE Task!CancelParent
  BY <1>2 DEF Pages, Task!CancelParent
<1>3. CASE Task!AllTold
  BY <1>3 DEF Pages, Task!AllTold
<1>4. CASE Task!Crash
  BY <1>4 DEF Pages, Task!Crash
<1>5. ASSUME NEW c \in Calls, Task!Read(c) PROVE Pages'
  <2>1. PICK n \in 0..Limit :
          LET got == SubSeq(log[c], page.offset + 1, page.offset + n) IN
          /\ page.offset + n <= Len(log[c]) /\ \A i \in 1..Len(got) : ~Task!Torn(got[i])
          /\ n > 0 \/ (dead /\ Task!Ends(c, page.offset + n))
          /\ \/ /\ Task!Ahead(c, page.offset + n)
                /\ page' = [page EXCEPT !.of = c, !.said = "error"]
             \/ page' = [of |-> c, offset |-> page.offset + Len(got), seen |-> page.seen \o got,
                         said |-> IF n = 0 THEN "end" ELSE "more"]
    BY <1>5 DEF Task!Read, Task!NextOffset
  <2> DEFINE got == SubSeq(log[c], page.offset + 1, page.offset + n)
  <2>2. /\ log[c] \in Seq(Records) /\ Len(log[c]) \in Nat /\ page.seen \in Seq(Records)
        /\ n \in Nat /\ page.offset = Len(page.seen) /\ page.offset \in Nat
        /\ page.offset + n <= Len(log[c]) /\ (n = 0 => dead)
        /\ UNCHANGED <<log, dead>>
    BY <1>5, <2>1 DEF TaskTypes, Pages, Task!Read
  <2>3. /\ page.of \in {NoCall, c} /\ page.said = "more" 
    BY <1>5 DEF Task!Read
  <2>4. /\ Len(page.seen) <= Len(log[c]) /\ \A i \in 1..Len(page.seen) : page.seen[i] = log[c][i]
    BY <2>2, <2>3 DEF Pages
  <2>5. CASE Task!Ahead(c, page.offset + n) /\ page' = [page EXCEPT !.of = c, !.said = "error"]
    <3>1. "split" \in Parts
      <4>1. part[c] = "split" \/ \E i \in 1..Len(log[c]) : log[c][i] = Task!Record("glued", "split")
        <5> DEFINE m == page.offset + n
        <5>1. m \in Nat /\ m <= Len(log[c]) /\ Len(log[c]) \in Nat /\ Task!Ahead(c, m)
          BY <2>2, <2>5
        <5> HIDE DEF m
        <5>2. \A i \in (m + 1)..Len(log[c]) : i \in 1..Len(log[c])
          BY <5>1
        <5>3. m # Len(log[c]) => m + 1 \in 1..Len(log[c])
          BY <5>1
        <5> QED
          BY <5>1, <5>2, <5>3, Zenon DEF Task!Ahead, Task!Asked, Task!Undecoded
      <4>2. part[c] \in Parts \cup {"no"} /\ \A i \in 1..Len(log[c]) : log[c][i] \in Records
        BY <2>2 DEF TaskTypes
      <4> QED
        BY <4>1, <4>2 DEF Task!Record, Records, Outcomes
    <3>2. /\ page'.of = c /\ page'.said = "error" /\ page'.seen = page.seen /\ page'.offset = page.offset
      BY <2>5 DEF TaskTypes
    <3> QED
      BY <2>2, <2>4, <3>1, <3>2, TaskConstants DEF Pages
  <2>6. CASE page' = [of |-> c, offset |-> page.offset + Len(got), seen |-> page.seen \o got,
                      said |-> IF n = 0 THEN "end" ELSE "more"]
    <3>1. Len(page.seen) + n <= Len(log[c])
      BY <2>2
    <3>2. /\ got \in Seq(Records) /\ Len(got) = n
          /\ Len(page.seen \o got) = Len(page.seen) + n
          /\ \A i \in 1..(Len(page.seen) + n) : (page.seen \o got)[i] = log[c][i]
      <4> DEFINE l == log[c]
                 seen == page.seen
                 record == Records
      <4>1. /\ l \in Seq(record) /\ seen \in Seq(record) /\ Len(seen) + n <= Len(l)
            /\ n \in Nat /\ \A i \in 1..Len(seen) : seen[i] = l[i]
        BY <2>2, <2>4, <3>1
      <4>2. page.offset = Len(seen)
        BY <2>2
      <4> HIDE DEF l, seen, record
      <4>3. LET next == SubSeq(l, Len(seen) + 1, Len(seen) + n) IN
            /\ next \in Seq(record) /\ Len(next) = n /\ Len(seen \o next) = Len(seen) + n
            /\ \A i \in 1..(Len(seen) + n) : (seen \o next)[i] = l[i]
        BY <4>1, PageOf
      <4> QED
        BY <4>2, <4>3 DEF l, seen, record
    <3> HIDE DEF got
    <3>3. /\ page'.of = c /\ page'.seen = page.seen \o got /\ page'.offset = page.offset + n
          /\ page'.said = IF n = 0 THEN "end" ELSE "more"
      BY <2>6, <3>2
    <3>4. n = 0 => \/ Len(page.seen) = Len(log[c])
                   \/ log[c][Len(page.seen) + 1].event = "glued"
      BY <2>1, <2>2 DEF Task!Ends, Task!Torn
    <3>5. \A i \in 1..(Len(page.seen) + n) : (page.seen \o got)[i].event # "glued"
      <4>1. \A i \in 1..Len(page.seen) : (page.seen \o got)[i].event # "glued"
        BY <2>2, <2>4, <3>2 DEF Pages
      <4>2. \A i \in 1..n : got[i].event # "glued"
        BY <2>1, <3>2 DEF got, Task!Torn
      <4>3. /\ Len(got) = n /\ n \in Nat /\ Len(page.seen) \in Nat
            /\ \A i \in 1..(Len(page.seen) + Len(got)) : (page.seen \o got)[i] =
                 IF i <= Len(page.seen) THEN page.seen[i] ELSE got[i - Len(page.seen)]
        <5> DEFINE seen == page.seen
                   record == Records
        <5>1. seen \in Seq(record) /\ got \in Seq(record) /\ Len(got) = n /\ n \in Nat
          BY <2>2, <3>2
        <5> HIDE DEF seen, record
        <5> QED
          BY <5>1, ConcatProperties DEF seen, record
      <4> SUFFICES ASSUME NEW i \in 1..(Len(page.seen) + n)
                   PROVE  (page.seen \o got)[i].event # "glued"
        OBVIOUS
      <4>4. CASE i <= Len(page.seen)
        BY <4>1, <4>3, <4>4
      <4>5. CASE i > Len(page.seen)
        <5>1. i - Len(page.seen) \in 1..n /\ (page.seen \o got)[i] = got[i - Len(page.seen)]
          BY <4>3, <4>5
        <5> QED
          BY <4>2, <5>1
      <4> QED
        BY <4>3, <4>4, <4>5
    <3>6. /\ page'.of = c /\ Len(page'.seen) = Len(page.seen) + n /\ page'.offset = Len(page'.seen)
          /\ Len(page'.seen) <= Len(log'[c])
          /\ \A i \in 1..Len(page'.seen) :
               page'.seen[i] = log'[c][i] /\ page'.seen[i].event # "glued"
      BY <2>2, <3>1, <3>2, <3>3, <3>5
    <3>7. page'.said = "end" =>
            /\ dead'
            /\ \/ Len(page'.seen) = Len(log'[c])
               \/ log'[c][Len(page'.seen) + 1].event = "glued"
      BY <2>2, <3>3, <3>4, <3>6
    <3>8. page'.said # "error" /\ page'.of # NoCall
      BY <3>3, TaskConstants
    <3> QED
      BY <3>6, <3>7, <3>8 DEF Pages
  <2> QED
    BY <2>1, <2>5, <2>6
<1> QED
  BY <1>1, <1>2, <1>3, <1>4, <1>5 DEF Task!Next

\* Cardinality is the same operator in an instance.
LEMMA SameCardinality == \A s : Task!Cardinality(s) = Cardinality(s)
  BY DEF Task!Cardinality, Cardinality

\* The places of the manager.
LEMMA PlaceIsKept ==
  ASSUME PlaceKept, Task!Next
  PROVE  PlaceKept'
<1> USE DEF Task!runs, Task!files
<1>1. ASSUME NEW c \in Calls, Task!Call(c), ~dead PROVE PlaceKept'
  <2>1. CASE Task!Ask(c)
    <3>1. active' = active /\ (admitting' = admitting \/ Cardinality(active) < MaxConcurrent)
      BY <2>1, SameCardinality DEF Task!Ask, Task!Room
    <3> QED
      BY <3>1 DEF PlaceKept
  <2>2. CASE Task!Admit(c)
    <3>1. active' = active \cup {c} /\ admitting' = NoCall /\ Cardinality(active) < MaxConcurrent
      BY <2>2, TaskConstants DEF Task!Admit, PlaceKept
    <3>2. /\ IsFiniteSet(active \cup {c}) /\ Cardinality(active) \in Nat
          /\ Cardinality(active \cup {c}) \in {Cardinality(active), Cardinality(active) + 1}
      BY FS_AddElement, FS_CardinalityType DEF PlaceKept
    <3> QED
      BY <3>1, <3>2, TaskConstants DEF PlaceKept
  <2>3. CASE Task!TellChild(c)
    BY <1>1, <2>3 DEF PlaceKept, Task!TellChild
  <2>4. CASE Task!Start(c)
    BY <1>1, <2>4 DEF PlaceKept, Task!Start, Task!Goes
  <2>5. CASE Task!Prepare(c)
    BY <1>1, <2>5 DEF PlaceKept, Task!Prepare, Task!Goes
  <2>6. CASE Task!OpenRequest(c)
    BY <1>1, <2>6 DEF PlaceKept, Task!OpenRequest
  <2>7. CASE Task!CloseRequest(c)
    BY <1>1, <2>7 DEF PlaceKept, Task!CloseRequest
  <2>8. CASE Task!Tool(c)
    BY <1>1, <2>8 DEF PlaceKept, Task!Tool
  <2>9. CASE Task!GraphEnds(c)
    BY <1>1, <2>9 DEF PlaceKept, Task!GraphEnds, Task!Goes
  <2>10. CASE Task!Except(c)
    BY <1>1, <2>10 DEF PlaceKept, Task!Except, Task!Goes
  <2>11. CASE Task!Finally(c)
    BY <1>1, <2>11 DEF PlaceKept, Task!Finally, Task!Goes, Task!Final
  <2>12. CASE Task!Leave(c)
    <3>1. active' = active \ {c} /\ admitting' = admitting /\ admitting = NoCall
      BY <2>12 DEF Task!Leave
    <3>2. /\ IsFiniteSet(active \ {c}) /\ Cardinality(active) \in Nat
          /\ Cardinality(active \ {c}) \in {Cardinality(active), Cardinality(active) - 1}
      BY FS_RemoveElement, FS_CardinalityType DEF PlaceKept
    <3> QED
      BY <3>1, <3>2, TaskConstants DEF PlaceKept
  <2>13. CASE Task!Wait(c)
    BY <1>1, <2>13 DEF PlaceKept, Task!Wait, Task!Goes, Task!Detached
  <2> QED
    BY <1>1, <2>1, <2>2, <2>3, <2>4, <2>5, <2>6, <2>7, <2>8, <2>9, <2>10, <2>11, <2>12, <2>13 DEF Task!Call
<1>2. CASE Task!CancelParent
  BY <1>2 DEF PlaceKept, Task!CancelParent
<1>3. CASE Task!AllTold
  BY <1>3 DEF PlaceKept, Task!AllTold
<1>4. CASE Task!Crash
  BY <1>4 DEF PlaceKept, Task!Crash
<1>5. ASSUME NEW c \in Calls, Task!Read(c) PROVE PlaceKept'
  BY <1>5 DEF PlaceKept, Task!Read
<1> QED
  BY <1>1, <1>2, <1>3, <1>4, <1>5 DEF Task!Next

\* Sequences that agree up to a place have the same beginning.
LEMMA SamePrefix ==
  ASSUME NEW R, NEW l \in Seq(R), NEW seen \in Seq(R),
         Len(seen) <= Len(l), \A i \in 1..Len(seen) : seen[i] = l[i]
  PROVE  SubSeq(seen, 1, Len(seen)) = SubSeq(l, 1, Len(seen))
<1> DEFINE n == Len(seen)
<1>1. n \in Int /\ (\A i \in 1..n : seen[i] \in R) /\ (\A i \in 1..n : l[i] \in R) /\ 1 \in Int
  OBVIOUS
<1>2. n \in Nat /\ \A i \in 1..n : seen[i] = l[i]
  OBVIOUS
<1> HIDE DEF n
<1>3. /\ SubSeq(seen, 1, n) \in Seq(R) /\ Len(SubSeq(seen, 1, n)) = IF 1 <= n THEN n - 1 + 1 ELSE 0
      /\ \A i \in 1..(n - 1 + 1) : SubSeq(seen, 1, n)[i] = seen[1 + i - 1]
  BY <1>1, SubSeqProperties
<1>4. /\ SubSeq(l, 1, n) \in Seq(R) /\ Len(SubSeq(l, 1, n)) = IF 1 <= n THEN n - 1 + 1 ELSE 0
      /\ \A i \in 1..(n - 1 + 1) : SubSeq(l, 1, n)[i] = l[1 + i - 1]
  BY <1>1, SubSeqProperties
<1>5. Len(SubSeq(seen, 1, n)) = Len(SubSeq(l, 1, n))
      /\ \A i \in 1..Len(SubSeq(l, 1, n)) : SubSeq(seen, 1, n)[i] = SubSeq(l, 1, n)[i]
  BY <1>2, <1>3, <1>4
<1>6. SubSeq(seen, 1, n) = SubSeq(l, 1, n)
  BY <1>3, <1>4, <1>5, SeqEqual
<1> QED
  BY <1>6 DEF n

-----------------------------------------------------------------------------
(* Delegated runs: what the invariant says.                                 *)

\* It holds of a manager that has not been asked anything.
LEMMA TaskInitial ==
  ASSUME Task!Init
  PROVE  TaskInv
<1>1. TaskTypes
  <2>1. <<>> \in Seq(Records)
    OBVIOUS
  <2>2. log \in [Calls -> Seq(Records)]
    BY <2>1 DEF Task!Init
  <2>3. page \in [of : Calls \cup {NoCall}, offset : Nat, seen : Seq(Records),
                 said : {"more", "end", "error"}]
    BY <2>1 DEF Task!Init
  <2> QED
    BY <2>2, <2>3 DEF Task!Init, TaskTypes, Places, Running, Outcomes
<1>2. Lifetimes /\ CancelOnItsWay /\ Logs
  BY DEF Task!Init, Lifetimes, CancelOnItsWay, Logs, LogOf, Running, Unfinished
<1>3. Pages
  BY DEF Task!Init, Pages
<1>4. PlaceKept
  BY FS_EmptySet, TaskConstants DEF Task!Init, PlaceKept
<1> QED
  BY <1>1, <1>2, <1>3, <1>4 DEF TaskInv

\* Every step of a delegated run, and every step that is none, keeps it.
LEMMA TaskKept ==
  ASSUME TaskInv, [Task!Next]_taskVars
  PROVE  TaskInv'
<1>1. CASE Task!Next
  BY <1>1, TypesKept, LifetimesKept, CancelOnItsWayKept, LogsKept, PagesKept, PlaceIsKept DEF TaskInv
<1>2. CASE UNCHANGED taskVars
  <2>1. TaskTypes' /\ Lifetimes' /\ CancelOnItsWay'
    BY <1>2 DEF taskVars, TaskInv, TaskTypes, Lifetimes, CancelOnItsWay
  <2>2. Logs' /\ Pages' /\ PlaceKept'
    BY <1>2 DEF taskVars, TaskInv, Logs, LogOf, Pages, PlaceKept
  <2> QED
    BY <2>1, <2>2 DEF TaskInv
<1> QED
  BY <1>1, <1>2

\* What the invariant says of the calls, of their logs and of the pages read.
LEMMA TaskShows ==
  ASSUME TaskInv
  PROVE  /\ Task!ChildrenCancelled /\ Task!TypeOK /\ Task!LogTellsTheSame
         /\ "split" \notin Parts => Task!PagesTellAll
<1>1. Task!ChildrenCancelled
  BY DEF TaskInv, Task!ChildrenCancelled, Task!CancelReachesAll, Task!OpenStaysAttached,
         CancelOnItsWay, Lifetimes
<1>2. Task!TypeOK
  BY SameCardinality
  DEF TaskInv, TaskTypes, Lifetimes, PlaceKept, Task!TypeOK, Task!Statuses, Outcomes, Running
<1>3. Task!LogTellsTheSame
  <2> SUFFICES ASSUME NEW c \in Calls, pc[c] \in {"leave", "wait", "done"}
               PROVE  LET last == IF log[c] = <<>> THEN Task!Record("none", "none")
                                                   ELSE log[c][Len(log[c])] IN
                      /\ answer[c] = "completed" =>
                           Task!Torn(last) \/ last = Task!Record("finish", "completed")
                      /\ last.event = "finish" => last.status \in {answer[c], status[c]}
                      /\ \A i \in 1..Len(log[c]) - 1 : log[c][i].event # "finish"
    BY DEF Task!LogTellsTheSame
  <2>1. log[c] \in Seq(Records) /\ LogOf(c)
    BY DEF TaskInv, TaskTypes, Logs
  <2>2. log[c] = <<>> <=> ~(Len(log[c]) > 0)
    BY <2>1
  <2>3. CASE log[c] = <<>>
    BY <2>1, <2>2, <2>3 DEF LogOf, Task!Record
  <2>4. CASE log[c] # <<>>
    <3> DEFINE last == log[c][Len(log[c])]
    <3>1. last \in Records
      BY <2>1, <2>4
    <3> HIDE DEF last
    <3>2. last.event = "finish" /\ last.status = "completed" => last = Task!Record("finish", "completed")
      BY <3>1 DEF Records, Task!Record
    <3> QED
      BY <2>1, <2>4, <3>2 DEF LogOf, last, Task!Torn
  <2> QED
    BY <2>3, <2>4
<1>4. ASSUME "split" \notin Parts PROVE Task!PagesTellAll
  <2> SUFFICES ASSUME page.of # NoCall
               PROVE  /\ Task!IsPrefix(page.seen, log[page.of])
                      /\ \A i \in 1..Len(page.seen) : ~Task!Torn(page.seen[i])
                      /\ page.said # "more" => \/ Len(page.seen) = Len(log[page.of])
                                               \/ Task!Torn(log[page.of][Len(page.seen) + 1])
    BY DEF Task!PagesTellAll
  <2>1. /\ page.of \in Calls /\ page.seen \in Seq(Records) /\ log[page.of] \in Seq(Records)
        /\ page.said \in {"more", "end", "error"}
    BY DEF TaskInv, TaskTypes
  <2>2. /\ Len(page.seen) <= Len(log[page.of])
        /\ \A i \in 1..Len(page.seen) : page.seen[i] = log[page.of][i]
    BY <2>1 DEF TaskInv, Pages
  <2>3. /\ \A i \in 1..Len(page.seen) : ~Task!Torn(page.seen[i])
        /\ page.said # "more" => \/ Len(page.seen) = Len(log[page.of])
                                 \/ Task!Torn(log[page.of][Len(page.seen) + 1])
    BY <1>4, <2>1 DEF TaskInv, Pages, Task!Torn
  <2>4. SubSeq(page.seen, 1, Len(page.seen)) = SubSeq(log[page.of], 1, Len(page.seen))
    <3> DEFINE l == log[page.of]
               seen == page.seen
               record == Records
    <3>1. /\ l \in Seq(record) /\ seen \in Seq(record) /\ Len(seen) <= Len(l)
          /\ \A i \in 1..Len(seen) : seen[i] = l[i]
      BY <2>1, <2>2
    <3> HIDE DEF l, seen, record
    <3>2. SubSeq(seen, 1, Len(seen)) = SubSeq(l, 1, Len(seen))
      BY <3>1, SamePrefix
    <3> QED
      BY <3>2 DEF l, seen, record
  <2> QED
    BY <2>2, <2>3, <2>4 DEF Task!IsPrefix
<1> QED
  BY <1>1, <1>2, <1>3, <1>4

-----------------------------------------------------------------------------
(* Forms: the invariant.                                                    *)

Offers(i) == Form!OfferedBy(fields[i])
FreeIn(i, answers) == {j \in DOMAIN answers : answers[j] \notin Offers(i)}
Answers ==
  Texts \cup UNION {{fields[i].options[k].value : k \in DOMAIN fields[i].options} : i \in DOMAIN fields}
Pointable == Form!Selects \cup {"boolean"}

\* The fields of the form are those the run declared, and stay the same.
FormShape ==
  /\ Len(fields) \in Nat /\ DOMAIN fields = 1..Len(fields)
  /\ DOMAIN declared = DOMAIN fields
  /\ \A i \in DOMAIN fields : declared[i].required = fields[i].required
  /\ \A i \in DOMAIN fields :
       /\ fields[i].type \in Form!Types
       /\ Len(fields[i].options) \in Nat /\ DOMAIN fields[i].options = 1..Len(fields[i].options)
       /\ fields[i].type \in Pointable => Len(fields[i].options) > 0

FormTypes ==
  /\ index \in DOMAIN fields /\ option \in Nat
  /\ Len(fields[index].options) > 0 => option < Len(fields[index].options)
  /\ done \in BOOLEAN /\ customEntry \in BOOLEAN
  /\ values \in [DOMAIN fields -> Seq(Answers)] /\ DOMAIN custom = DOMAIN fields
  /\ custom = [i \in DOMAIN fields |-> custom[i]]

\* The free answer is typed when there is none, in a multiple selection.
NoneWhileTyping == customEntry /\ fields[index].type = "multi_select" => custom[index] = ""

\* The fields before the one the form shows have what they require.
Answered ==
  \A i \in DOMAIN fields : (i < index \/ done) /\ fields[i].required => values[i] # <<>>

\* At most one answer was not offered, and it is the free one, which is there
\* as long as it is shown.
Sound(i, answers, free) ==
  /\ \A j \in FreeIn(i, answers) : answers[j] = free /\ free # ""
  /\ \A j, k \in FreeIn(i, answers) : j = k
  /\ fields[i].type = "multi_select" /\ free \notin Offers(i) \cup {""} => FreeIn(i, answers) # {}
AllSound ==
  \A i \in DOMAIN fields : fields[i].type \in Form!Selects => Sound(i, values[i], custom[i])

FormInv == FormShape /\ FormTypes /\ NoneWhileTyping /\ Answered /\ AllSound

-----------------------------------------------------------------------------
(* Sequences: the helpers of the forms.                                     *)

\* A set of numbers that is not empty has a least one.
LEMMA LeastOne ==
  ASSUME NEW numbers, numbers \subseteq Nat, numbers # {}
  PROVE  \E m \in numbers : \A i \in numbers : m <= i
<1> DEFINE less == {pair \in Nat \X Nat : pair[1] < pair[2]}
<1>1. IsWellFoundedOn(less, Nat)
  BY NatLessThanWellFounded, Zenon DEF OpToRel
<1>2. \A i, m \in Nat : i < m <=> <<i, m>> \in less
  OBVIOUS
<1> HIDE DEF less
<1>3. PICK m \in numbers : \A i \in numbers : ~(<<i, m>> \in less)
  BY <1>1, WFMin
<1>4. ASSUME NEW i \in numbers PROVE m <= i
  <2>1. i \in Nat /\ m \in Nat
    OBVIOUS
  <2>2. ~(i < m)
    BY <1>2, <1>3, <2>1
  <2> QED
    BY <2>1, <2>2
<1> QED
  BY <1>4

\* What is left when one place is taken out.
LEMMA WithoutOne ==
  ASSUME NEW R, NEW s \in Seq(R), NEW p \in 1..Len(s)
  PROVE  /\ Form!RemoveAt(s, p) \in Seq(R)
         /\ Len(Form!RemoveAt(s, p)) = Len(s) - 1
         /\ \A k \in 1..(Len(s) - 1) :
              Form!RemoveAt(s, p)[k] = IF k < p THEN s[k] ELSE s[k + 1]
<1> DEFINE n == Len(s)
           front == SubSeq(s, 1, p - 1)
           back == SubSeq(s, p + 1, n)
<1>1. n \in Nat /\ p \in Int /\ 1 <= p /\ p <= n
  OBVIOUS
<1>2. /\ front \in Seq(R) /\ Len(front) = p - 1
      /\ \A k \in 1..(p - 1) : front[k] = s[k]
  <2> DEFINE b == p - 1
  <2>1. b \in Nat /\ 1 \in Int /\ b \in Int /\ \A i \in 1..b : s[i] \in R
    BY <1>1
  <2> HIDE DEF b
  <2>2. /\ SubSeq(s, 1, b) \in Seq(R) /\ Len(SubSeq(s, 1, b)) = IF 1 <= b THEN b - 1 + 1 ELSE 0
        /\ \A i \in 1..(b - 1 + 1) : SubSeq(s, 1, b)[i] = s[1 + i - 1]
    BY <2>1, SubSeqProperties
  <2>3. Len(SubSeq(s, 1, b)) = b /\ \A i \in 1..b : SubSeq(s, 1, b)[i] = s[i]
    BY <2>1, <2>2
  <2> QED
    BY <2>2, <2>3 DEF b
<1>3. /\ back \in Seq(R) /\ Len(back) = n - p
      /\ \A k \in 1..(n - p) : back[k] = s[p + k]
  <2> DEFINE a == p + 1
  <2>1. n \in Int /\ a \in Int /\ \A i \in a..n : s[i] \in R
    BY <1>1
  <2>2. a - 1 = p /\ a <= n + 1
    BY <1>1
  <2> HIDE DEF a, n
  <2>3. /\ SubSeq(s, a, n) \in Seq(R) /\ Len(SubSeq(s, a, n)) = IF a <= n THEN n - a + 1 ELSE 0
        /\ \A i \in 1..(n - a + 1) : SubSeq(s, a, n)[i] = s[a + i - 1]
    BY <2>1, SubSeqProperties
  <2>4. Len(SubSeq(s, a, n)) = n - p /\ \A i \in 1..(n - p) : SubSeq(s, a, n)[i] = s[p + i]
    BY <1>1, <2>1, <2>2, <2>3
  <2> QED
    BY <2>3, <2>4 DEF a
<1>4. Form!RemoveAt(s, p) = front \o back
  BY DEF Form!RemoveAt
<1> HIDE DEF front, back
<1>5. /\ front \o back \in Seq(R) /\ Len(front \o back) = Len(front) + Len(back)
      /\ \A k \in 1..(Len(front) + Len(back)) :
           (front \o back)[k] = IF k <= Len(front) THEN front[k] ELSE back[k - Len(front)]
  BY <1>2, <1>3, ConcatProperties
<1> HIDE DEF n
<1>6. Len(front) + Len(back) = n - 1
  BY <1>1, <1>2, <1>3
<1>7. ASSUME NEW k \in 1..(n - 1)
      PROVE  (front \o back)[k] = IF k < p THEN s[k] ELSE s[k + 1]
  <2>1. CASE k < p
    BY <1>1, <1>2, <1>5, <1>6, <2>1
  <2>2. CASE ~(k < p)
    <3>1. k - (p - 1) \in 1..(n - p) /\ p + (k - (p - 1)) = k + 1
      BY <1>1, <2>2
    <3> QED
      BY <1>1, <1>2, <1>3, <1>5, <1>6, <2>2, <3>1
  <2> QED
    BY <2>1, <2>2
<1> QED
  BY <1>4, <1>5, <1>6, <1>7 DEF n

\* list.remove: the sequence without one element that is v, or as it was.
Without(s, r, v) ==
  \/ r = s /\ \A k \in 1..Len(s) : s[k] # v
  \/ \E p \in 1..Len(s) :
       /\ s[p] = v /\ Len(r) = Len(s) - 1
       /\ \A k \in 1..(Len(s) - 1) : r[k] = IF k < p THEN s[k] ELSE s[k + 1]

\* list.remove: the first of the equal answers is gone, if there is one.
LEMMA RemoveFirstIs ==
  ASSUME NEW R, NEW s \in Seq(R), NEW v
  PROVE  Form!RemoveFirst(s, v) \in Seq(R) /\ Without(s, Form!RemoveFirst(s, v), v)
<1>1. CASE \A k \in 1..Len(s) : s[k] # v
  BY <1>1 DEF Form!RemoveFirst, Without
<1>2. CASE \E k \in 1..Len(s) : s[k] = v
  <2> DEFINE places == {i \in 1..Len(s) : s[i] = v}
             p == CHOOSE x \in places : \A y \in places : x <= y
  <2>1. places # {} /\ places \subseteq Nat /\ places \subseteq 1..Len(s)
    BY <1>2
  <2>2. Form!RemoveFirst(s, v) = Form!RemoveAt(s, p)
    BY <1>2, <2>1 DEF Form!RemoveFirst, Form!SelectInSeq, Form!Min
  <2>3. p \in places
    <3> HIDE DEF places
    <3> QED
      BY <2>1, LeastOne
  <2>4. p \in 1..Len(s) /\ s[p] = v
    BY <2>3
  <2> HIDE DEF p, places
  <2> QED
    BY <2>2, <2>4, WithoutOne DEF Without
<1> QED
  BY <1>1, <1>2

\* Taken out from the end.
LEMMA RemoveLastIs ==
  ASSUME NEW R, NEW s \in Seq(R), NEW v
  PROVE  Form!RemoveLast(s, v) \in Seq(R) /\ Without(s, Form!RemoveLast(s, v), v)
<1> DEFINE n == Len(s)
           back == Form!Reverse(s)
           less == Form!RemoveFirst(back, v)
<1>1. n \in Nat /\ back = [i \in 1..n |-> s[(n - i) + 1]]
  BY DEF Form!Reverse
<1>2. back \in Seq(R) /\ Len(back) = n /\ \A i \in 1..n : back[i] = s[(n - i) + 1]
  <2>1. \A i \in 1..n : s[(n - i) + 1] \in R
    BY <1>1
  <2> QED
    BY <1>1, <2>1
<1>3. less \in Seq(R) /\ Without(back, less, v)
  <2> HIDE DEF back
  <2> QED
    BY <1>2, RemoveFirstIs
<1>4. Form!RemoveLast(s, v) = Form!Reverse(less)
  BY DEF Form!RemoveLast
<1> HIDE DEF less, back, n
<1>5. Form!Reverse(less) = [i \in 1..Len(less) |-> less[(Len(less) - i) + 1]]
  BY DEF Form!Reverse
<1>6. /\ Form!Reverse(less) \in Seq(R) /\ Len(Form!Reverse(less)) = Len(less)
      /\ \A i \in 1..Len(less) : Form!Reverse(less)[i] = less[(Len(less) - i) + 1]
  <2>1. Len(less) \in Nat /\ \A i \in 1..Len(less) : less[(Len(less) - i) + 1] \in R
    BY <1>3
  <2> QED
    BY <1>5, <2>1
<1> DEFINE r == Form!Reverse(less)
<1>7. CASE less = back /\ \A k \in 1..Len(back) : back[k] # v
  <2>1. \A i \in 1..n : r[i] = s[i]
    <3> SUFFICES ASSUME NEW i \in 1..n PROVE r[i] = s[i]
      OBVIOUS
    <3>1. (n - i) + 1 \in 1..n /\ (n - ((n - i) + 1)) + 1 = i
      BY <1>1
    <3> QED
      BY <1>2, <1>6, <1>7, <3>1
  <2>2. r \in Seq(R) /\ Len(r) = n /\ s \in Seq(R) /\ Len(s) = n
    BY <1>2, <1>6, <1>7 DEF n
  <2>3. r = s
    <3> HIDE DEF r
    <3> QED
      BY <2>1, <2>2, SeqEqual
  <2>4. \A k \in 1..n : s[k] # v
    <3> SUFFICES ASSUME NEW k \in 1..n PROVE s[k] # v
      OBVIOUS
    <3>1. (n - k) + 1 \in 1..n /\ (n - ((n - k) + 1)) + 1 = k
      BY <1>1
    <3> QED
      BY <1>2, <1>7, <3>1
  <2> QED
    BY <1>4, <1>6, <2>3, <2>4 DEF Without, n
<1>8. ASSUME NEW q \in 1..Len(back), back[q] = v, Len(less) = Len(back) - 1,
             \A k \in 1..(Len(back) - 1) : less[k] = IF k < q THEN back[k] ELSE back[k + 1]
      PROVE  Without(s, Form!RemoveLast(s, v), v)
  <2> DEFINE p == (n - q) + 1
  <2>1. p \in 1..n /\ s[p] = v /\ q = (n - p) + 1
    BY <1>1, <1>2, <1>8
  <2>2. Len(less) = n - 1 /\ n - 1 \in Nat
    BY <1>1, <1>2, <1>8
  <2> HIDE DEF p
  <2>3. ASSUME NEW k \in 1..(n - 1)
        PROVE  r[k] = IF k < p THEN s[k] ELSE s[k + 1]
    <3> DEFINE j == n - k
    <3>1. j \in 1..(n - 1) /\ r[k] = less[j]
      <4>1. (Len(less) - k) + 1 = n - k /\ n - k \in 1..(n - 1)
        BY <1>1, <2>2
      <4> QED
        BY <1>6, <2>2, <4>1
    <3>2. CASE k < p
      <4>1. ~(j < q) /\ j + 1 \in 1..n /\ (n - (j + 1)) + 1 = k
        BY <1>1, <2>1, <3>2
      <4> QED
        BY <1>2, <1>8, <3>1, <3>2, <4>1
    <3>3. CASE ~(k < p)
      <4>1. j < q /\ j \in 1..n /\ (n - j) + 1 = k + 1
        BY <1>1, <2>1, <3>3
      <4> QED
        BY <1>2, <1>8, <3>1, <3>3, <4>1
    <3> QED
      BY <3>2, <3>3
  <2> QED
    BY <1>4, <1>6, <2>1, <2>2, <2>3 DEF Without, n
<1> QED
  BY <1>3, <1>4, <1>6, <1>7, <1>8 DEF Without

-----------------------------------------------------------------------------
(* Forms: what the answers to one field may be.                             *)

\* What Append adds.
LEMMA AppendAdds ==
  ASSUME NEW R, NEW s \in Seq(R), NEW v \in R
  PROVE  /\ Append(s, v) \in Seq(R)
         /\ DOMAIN Append(s, v) = DOMAIN s \cup {Len(s) + 1} /\ Append(s, v)[Len(s) + 1] = v
         /\ \A k \in DOMAIN s : Append(s, v)[k] = s[k]
  OBVIOUS

\* A list of one answer.
LEMMA OneElement == \A v : DOMAIN <<v>> = {1} /\ <<v>>[1] = v
  OBVIOUS

\* The other places of a sequence without one.
LEMMA OtherPlaces ==
  \A n \in Nat : \A p \in 1..n : \A k \in 1..(n - 1) :
    (k < p => k \in 1..n /\ k # p) /\ (~(k < p) => k + 1 \in 1..n /\ k + 1 # p)
  OBVIOUS

\* The places of a sequence.
LEMMA PlacesAre == \A R : \A s \in Seq(R) : DOMAIN s = 1..Len(s) /\ Len(s) \in Nat
  OBVIOUS

\* Taking away an answer that was offered.
LEMMA SoundWithout ==
  ASSUME NEW i, NEW R, NEW s \in Seq(R), NEW r \in Seq(R), NEW v, NEW free,
         Without(s, r, v), v \in Offers(i), Sound(i, s, free)
  PROVE  Sound(i, r, free)
<1>1. CASE r = s
  BY <1>1
<1>2. ASSUME NEW p \in 1..Len(s), s[p] = v, Len(r) = Len(s) - 1,
             \A k \in 1..(Len(s) - 1) : r[k] = IF k < p THEN s[k] ELSE s[k + 1]
      PROVE  Sound(i, r, free)
  <2> DEFINE from(k) == IF k < p THEN k ELSE k + 1
  <2>1. \A k \in DOMAIN r : from(k) \in DOMAIN s /\ r[k] = s[from(k)] /\ k \in Nat
    BY <1>2
  <2>2. \A j, k \in DOMAIN r : from(j) = from(k) => j = k
    BY <2>1
  <2>3. p \notin FreeIn(i, s)
    BY <1>2 DEF FreeIn
  <2>4. \A k \in FreeIn(i, r) : from(k) \in FreeIn(i, s)
    BY <2>1 DEF FreeIn
  <2>5. \A m \in FreeIn(i, s) : \E k \in FreeIn(i, r) : TRUE
    <3> SUFFICES ASSUME NEW m \in FreeIn(i, s) PROVE \E k \in FreeIn(i, r) : TRUE
      OBVIOUS
    <3>1. m \in 1..Len(s) /\ m # p
      BY <2>3 DEF FreeIn
    <3>2. CASE m < p
      <4>1. m \in DOMAIN r /\ r[m] = s[m]
        BY <1>2, <3>1, <3>2
      <4> QED
        BY <4>1 DEF FreeIn
    <3>3. CASE ~(m < p)
      <4>1. m - 1 \in DOMAIN r /\ r[m - 1] = s[m]
        BY <1>2, <3>1, <3>3
      <4> QED
        BY <4>1 DEF FreeIn
    <3> QED
      BY <3>2, <3>3
  <2>6. \A k \in FreeIn(i, r) : k \in DOMAIN r
    BY DEF FreeIn
  <2> HIDE DEF from
  <2>7. \A k \in FreeIn(i, r) : r[k] = free /\ free # ""
    <3> SUFFICES ASSUME NEW k \in FreeIn(i, r) PROVE r[k] = free /\ free # ""
      OBVIOUS
    <3>1. r[k] = s[from(k)] /\ from(k) \in FreeIn(i, s)
      BY <2>1, <2>4, <2>6
    <3> QED
      BY <3>1 DEF Sound
  <2>8. \A j, k \in FreeIn(i, r) : j = k
    <3> SUFFICES ASSUME NEW j \in FreeIn(i, r), NEW k \in FreeIn(i, r) PROVE j = k
      OBVIOUS
    <3>1. from(j) = from(k)
      BY <2>4 DEF Sound
    <3> QED
      BY <2>2, <2>6, <3>1
  <2>9. FreeIn(i, s) # {} => FreeIn(i, r) # {}
    BY <2>5
  <2> QED
    BY <2>7, <2>8, <2>9 DEF Sound
<1> QED
  BY <1>1, <1>2 DEF Without

\* A text that was typed is not the empty one.
Given(v) == v # ""

\* Taking back the free one.
LEMMA SoundTakenBack ==
  ASSUME NEW i, NEW R, NEW s \in Seq(R), NEW r \in Seq(R), NEW free,
         Without(s, r, free), Sound(i, s, free)
  PROVE  FreeIn(i, r) = {}
<1>1. FreeIn(i, r) = {}
  <2> DOMAIN s = 1..Len(s) /\ Len(s) \in Nat /\ DOMAIN r = 1..Len(r) /\ Len(r) \in Nat
    BY PlacesAre
  <2>1. CASE r = s /\ \A k \in 1..Len(s) : s[k] # free
    BY <2>1 DEF FreeIn, Sound
  <2>2. ASSUME NEW p \in 1..Len(s), s[p] = free, Len(r) = Len(s) - 1,
               \A k \in 1..(Len(s) - 1) : r[k] = IF k < p THEN s[k] ELSE s[k + 1]
        PROVE  FreeIn(i, r) = {}
    <3> SUFFICES ASSUME NEW k \in FreeIn(i, r) PROVE FALSE
      OBVIOUS
    <3>1. PICK m \in DOMAIN s : m # p /\ r[k] = s[m]
      <4>1. k \in 1..(Len(s) - 1)
        BY <2>2 DEF FreeIn
      <4>2. CASE k < p
        <5>1. k \in DOMAIN s /\ k # p
          BY <4>1, <4>2, OtherPlaces, Zenon
        <5> QED
          BY <2>2, <4>1, <4>2, <5>1
      <4>3. CASE ~(k < p)
        <5>1. k + 1 \in DOMAIN s /\ k + 1 # p
          BY <4>1, <4>3, OtherPlaces, Zenon
        <5> QED
          BY <2>2, <4>1, <4>3, <5>1
      <4> QED
        BY <4>2, <4>3
    <3>2. m \in FreeIn(i, s)
      BY <3>1 DEF FreeIn
    <3>3. p \in FreeIn(i, s)
      <4>1. s[m] = free /\ s[m] \notin Offers(i)
        BY <3>2 DEF FreeIn, Sound
      <4> QED
        BY <2>2, <4>1 DEF FreeIn
    <3> QED
      BY <3>1, <3>2, <3>3 DEF Sound
  <2> QED
    BY <2>1, <2>2 DEF Without
<1> QED
  BY <1>1

\* No free answer is shown where there is none.
LEMMA SoundEmpty ==
  ASSUME NEW i, NEW r, FreeIn(i, r) = {}
  PROVE  Sound(i, r, "")
  BY Zenon DEF Sound

\* Another answer that was offered.
LEMMA SoundAppend ==
  ASSUME NEW i, NEW R, NEW s \in Seq(R), NEW v \in R, NEW free, v \in Offers(i), Sound(i, s, free)
  PROVE  Sound(i, Append(s, v), free)
<1>1. DOMAIN Append(s, v) = DOMAIN s \cup {Len(s) + 1} /\ Append(s, v)[Len(s) + 1] = v
      /\ \A k \in DOMAIN s : Append(s, v)[k] = s[k]
  BY AppendAdds
<1>2. FreeIn(i, Append(s, v)) = FreeIn(i, s)
  BY <1>1 DEF FreeIn
<1> QED
  BY <1>1, <1>2 DEF Sound, FreeIn

\* The free answer, where there was none.
LEMMA AppendFree ==
  ASSUME NEW i, NEW R, NEW s \in Seq(R), NEW v \in R, FreeIn(i, s) = {}
  PROVE  /\ \A k \in FreeIn(i, Append(s, v)) : k = Len(s) + 1 /\ Append(s, v)[k] = v
         /\ v \notin Offers(i) => FreeIn(i, Append(s, v)) # {}
<1>1. DOMAIN Append(s, v) = DOMAIN s \cup {Len(s) + 1} /\ Append(s, v)[Len(s) + 1] = v
      /\ \A k \in DOMAIN s : Append(s, v)[k] = s[k]
  BY AppendAdds
<1> QED
  BY <1>1 DEF FreeIn

\* The text that was typed, where there was no free answer.
LEMMA SoundFree ==
  ASSUME NEW i, NEW R, NEW s \in Seq(R), NEW v \in R, Given(v), FreeIn(i, s) = {}
  PROVE  Sound(i, Append(s, v), v)
<1>2. /\ \A k \in FreeIn(i, Append(s, v)) : k = Len(s) + 1 /\ Append(s, v)[k] = v
      /\ v \notin Offers(i) => FreeIn(i, Append(s, v)) # {}
  BY AppendFree
<1> DEFINE longer == Append(s, v)
           at == Len(s) + 1
<1>3. (\A k \in FreeIn(i, longer) : k = at /\ longer[k] = v) /\ (v \notin Offers(i) => FreeIn(i, longer) # {})
  BY <1>2
<1> HIDE DEF longer, at
<1>4. Sound(i, longer, v)
  BY <1>3 DEF Sound, Given
<1> QED
  BY <1>4 DEF longer

\* One answer, offered or free, for a field that takes one.
LEMMA SoundSingle ==
  ASSUME NEW i, NEW v, NEW free, fields[i].type # "multi_select",
         v \in Offers(i) \/ (v = free /\ Given(free))
  PROVE  Sound(i, <<v>>, free)
<1>1. DOMAIN <<v>> = {1} /\ <<v>>[1] = v
  BY OneElement
<1> QED
  BY <1>1 DEF Sound, FreeIn, Given

-----------------------------------------------------------------------------
(* Forms: the fields.                                                       *)

\* The instance counts as its caller does.
LEMMA SameFormCardinality == \A s : Form!Cardinality(s) = Cardinality(s)
  BY DEF Form!Cardinality, Cardinality

\* The options of a field are a list, whatever is picked of them or added.
IsList(s) == \E R : s \in Seq(R)

\* A list given place by place.
LEMMA FunctionIsList ==
  ASSUME NEW R, NEW n \in Nat, NEW f \in [1..n -> R]
  PROVE  f \in Seq(R) /\ Len(f) = n
  OBVIOUS

\* What is picked of a list is a list.
LEMMA PickedIsList ==
  ASSUME NEW options, NEW places, IsFiniteSet(places)
  PROVE  IsList(Form!Picked(options, places))
<1> DEFINE at(k) == options[CHOOSE i \in places : Form!Cardinality({j \in places : j <= i}) = k]
           n == Form!Cardinality(places)
           range == {at(k) : k \in 1..n}
<1>1. n \in Nat
  BY FS_CardinalityType, SameFormCardinality
<1>2. Form!Picked(options, places) = [k \in 1..n |-> at(k)]
  BY DEF Form!Picked
<1>3. [k \in 1..n |-> at(k)] \in [1..n -> range]
  OBVIOUS
<1> HIDE DEF at, n, range
<1>4. [k \in 1..n |-> at(k)] \in Seq(range)
  BY <1>1, <1>3, FunctionIsList
<1> QED
  BY <1>2, <1>4 DEF IsList

\* A selection always ends with the free answer.
LEMMA EnsureOtherIsList ==
  ASSUME NEW options, IsList(options)
  PROVE  IsList(Form!EnsureOther(options)) /\ Len(Form!EnsureOther(options)) > 0
<1> DEFINE places == {i \in DOMAIN options : ~options[i].custom}
           plain == Form!Picked(options, places)
           offer == Form!Offer(Form!Marker({plain[i].value : i \in DOMAIN plain}), TRUE)
<1>1. IsFiniteSet(places)
  <2>1. IsFiniteSet(1..Len(options))
    BY FS_Interval, PlacesAre DEF IsList
  <2>2. places \subseteq 1..Len(options)
    BY PlacesAre DEF IsList
  <2> QED
    BY <2>1, <2>2, FS_Subset
<1>2. PICK R : plain \in Seq(R)
  BY <1>1, PickedIsList DEF IsList
<1>3. Form!EnsureOther(options) = Append(plain, offer)
  BY DEF Form!EnsureOther
<1> HIDE DEF places, plain, offer
<1> DEFINE wider == R \cup {offer}
<1>4. plain \in Seq(wider) /\ offer \in wider
  BY <1>2
<1> HIDE DEF wider
<1>5. Append(plain, offer) \in Seq(wider) /\ Len(Append(plain, offer)) > 0
  BY <1>4
<1> QED
  BY <1>3, <1>5 DEF IsList

\* _normalize_options: what has a value is a list.
LEMMA KeptIsList ==
  ASSUME NEW options, IsList(options)
  PROVE  IsList(Form!Kept(options))
<1> DEFINE places == {i \in DOMAIN options : options[i].value # ""}
<1>1. IsFiniteSet(places)
  <2>1. IsFiniteSet(1..Len(options))
    BY FS_Interval, PlacesAre DEF IsList
  <2>2. places \subseteq 1..Len(options)
    BY PlacesAre DEF IsList
  <2> QED
    BY <2>1, <2>2, FS_Subset
<1>2. Form!Kept(options) = Form!Picked(options, places)
  BY DEF Form!Kept
<1> HIDE DEF places
<1> QED
  BY <1>1, <1>2, PickedIsList

\* A field as the run declares it, and as the form shows it.
IsField(field) ==
  /\ field = [type |-> field.type, required |-> field.required, options |-> field.options]
  /\ field.type \in Form!Types /\ IsList(field.options)

\* A field of the tool's arguments, normalized.
LEMMA DeclaredIsField ==
  ASSUME NEW raw \in Form!RawFields
  PROVE  IsField(Form!Normalized(raw)) /\ Form!Normalized(raw).required = raw.required
<1>1. IsList(raw.options)
  <2> DEFINE set == [value : Values \cup {""}, custom : BOOLEAN]
  <2>1. PICK n \in 0..MaxOptions : raw.options \in [1..n -> set]
    BY DEF Form!RawFields, Form!RawOptions, Form!BoundedSeq, Form!SeqOf
  <2>2. n \in Nat
    BY FormConstants
  <2> HIDE DEF set
  <2> QED
    BY <2>1, <2>2, FunctionIsList DEF IsList
<1>2. IsList(Form!Kept(raw.options)) /\ IsList(Form!EnsureOther(Form!Kept(raw.options)))
  BY <1>1, KeptIsList, EnsureOtherIsList
<1> QED
  BY <1>1, <1>2, KeptIsList DEF Form!Normalized, IsField, Form!Types

\* The same as the form shows it: what is pointed at has options.
LEMMA HumanIsField ==
  ASSUME NEW field, IsField(field)
  PROVE  /\ IsField(Form!Human(field)) /\ Form!Human(field).required = field.required
         /\ Form!Human(field).type \in Pointable => Len(Form!Human(field).options) > 0
<1> DEFINE two == <<Form!Offer("False", FALSE), Form!Offer("True", FALSE)>>
           options == IF field.type = "boolean" /\ field.options = <<>> THEN two
                      ELSE IF field.type \in Form!Selects THEN Form!EnsureOther(field.options)
                      ELSE field.options
<1>1. Form!Human(field) = [field EXCEPT !.options = options]
  BY DEF Form!Human
<1>2. IsList(two) /\ Len(two) > 0
  <2> DEFINE both == {Form!Offer("False", FALSE), Form!Offer("True", FALSE)}
  <2>1. two \in Seq(both) /\ Len(two) = 2
    OBVIOUS
  <2> HIDE DEF two, both
  <2> QED
    BY <2>1 DEF IsList
<1>3. IsList(Form!EnsureOther(field.options)) /\ Len(Form!EnsureOther(field.options)) > 0
  BY EnsureOtherIsList DEF IsField
<1>4. field.options # <<>> => Len(field.options) > 0
  BY DEF IsField, IsList
<1> HIDE DEF two
<1>5. IsList(options) /\ (field.type \in Pointable => Len(options) > 0)
  BY <1>2, <1>3, <1>4 DEF IsField, Pointable, Form!Selects
<1> HIDE DEF options
<1>6. Form!Human(field) = [type |-> field.type, required |-> field.required, options |-> options]
  BY <1>1 DEF IsField
<1> QED
  BY <1>5, <1>6 DEF IsField

-----------------------------------------------------------------------------
(* Forms: the invariant holds of a form that was not touched.               *)

\* An empty list has no places.
LEMMA NoPlaces == DOMAIN <<>> = {}
  OBVIOUS

\* The form as it is opened.
LEMMA FormInitial ==
  ASSUME Form!Init
  PROVE  FormInv
<1>1. PICK raw \in Form!BoundedSeq(Form!RawFields, MaxFields) : declared = Form!Declared(raw)
  BY DEF Form!Init
<1>2. PICK m \in Nat : raw \in [1..m -> Form!RawFields]
  BY <1>1, FormConstants DEF Form!BoundedSeq, Form!SeqOf
<1>3. \E n \in Nat \ {0} : /\ DOMAIN declared = 1..n
                           /\ \A i \in 1..n : IsField(declared[i])
  <2>1. CASE raw = <<>>
    <3>1. declared = Form!Default
      BY <1>1, <2>1 DEF Form!Declared
    <3>2. DOMAIN Form!Default = 1..1 /\ Form!Default[1] = [type |-> "text", required |-> TRUE, options |-> <<>>]
      BY DEF Form!Default
    <3>3. IsField(Form!Default[1])
      <4>1. <<>> \in Seq({})
        OBVIOUS
      <4> QED
        BY <3>2, <4>1 DEF IsField, IsList, Form!Types
    <3>4. \A i \in 1..1 : i = 1
      OBVIOUS
    <3>5. DOMAIN declared = 1..1 /\ \A i \in 1..1 : IsField(declared[i])
      <4>1. DOMAIN declared = 1..1
        BY <3>1, <3>2, Zenon
      <4>2. IsField(declared[1])
        BY <3>1, <3>3, Zenon
      <4> QED
        BY <3>4, <4>1, <4>2, Zenon
    <3>6. 1 \in Nat \ {0}
      OBVIOUS
    <3> QED
      BY <3>5, <3>6
  <2>2. CASE raw # <<>>
    <3>1. declared = [i \in 1..m |-> Form!Normalized(raw[i])]
      BY <1>1, <1>2, <2>2 DEF Form!Declared
    <3>2. m # 0
      BY <1>2, <2>2
    <3>3. \A i \in 1..m : IsField(declared[i])
      BY <1>2, <3>1, DeclaredIsField
    <3> QED
      BY <3>1, <3>2, <3>3
  <2> QED
    BY <2>1, <2>2
<1>4. PICK n \in Nat \ {0} : DOMAIN declared = 1..n /\ \A i \in 1..n : IsField(declared[i])
  BY <1>3
<1>5. fields = [i \in 1..n |-> Form!Human(declared[i])]
  BY <1>4 DEF Form!Init
<1>6. \A i \in 1..n : /\ IsField(fields[i]) /\ fields[i].required = declared[i].required
                      /\ fields[i].type \in Pointable => Len(fields[i].options) > 0
  BY <1>4, <1>5, HumanIsField
<1>7. Len(fields) = n /\ DOMAIN fields = 1..n
  <2> DEFINE range == {fields[i] : i \in 1..n}
  <2>1. fields \in [1..n -> range]
    BY <1>5
  <2>2. n \in Nat
    OBVIOUS
  <2> HIDE DEF range
  <2> QED
    BY <1>5, <2>1, <2>2, FunctionIsList
<1>8. \A i \in 1..n : Len(fields[i].options) \in Nat /\ DOMAIN fields[i].options = 1..Len(fields[i].options)
  BY <1>6, PlacesAre DEF IsField, IsList
<1>9. FormShape
  BY <1>4, <1>6, <1>7, <1>8 DEF FormShape, IsField
<1>10. FormTypes
  <2>1. <<>> \in Seq(Answers)
    OBVIOUS
  <2>2. values = [i \in DOMAIN declared |-> <<>>] /\ custom = [i \in DOMAIN declared |-> ""]
        /\ index = 1 /\ option = 0 /\ customEntry = FALSE /\ done = FALSE
    BY DEF Form!Init
  <2>3. DOMAIN declared = DOMAIN fields
    BY <1>4, <1>7
  <2>4. 1 \in DOMAIN fields
    BY <1>7
  <2>5. values \in [DOMAIN fields -> Seq(Answers)]
    BY <2>1, <2>2, <2>3
  <2> QED
    BY <2>2, <2>3, <2>4, <2>5 DEF FormTypes
<1>11. NoneWhileTyping /\ Answered
  <2>1. index = 1 /\ customEntry = FALSE /\ done = FALSE
    BY DEF Form!Init
  <2>2. \A i \in DOMAIN fields : ~(i < 1)
    BY <1>7
  <2> QED
    BY <2>1, <2>2 DEF NoneWhileTyping, Answered
<1>12. AllSound
  <2> SUFFICES ASSUME NEW i \in DOMAIN fields PROVE Sound(i, values[i], custom[i])
    BY DEF AllSound
  <2>1. values[i] = <<>> /\ custom[i] = ""
    BY <1>4, <1>7 DEF Form!Init
  <2>2. FreeIn(i, <<>>) = {}
    BY NoPlaces DEF FreeIn
  <2> QED
    BY <2>1, <2>2 DEF Sound
<1> QED
  BY <1>9, <1>10, <1>11, <1>12 DEF FormInv

-----------------------------------------------------------------------------
(* Forms: the steps.                                                        *)

\* The option pointed at is one of the field, and not the free answer unless
\* it is marked as such.
LEMMA PointedIsOption ==
  ASSUME FormShape, FormTypes, fields[index].type \in Pointable
  PROVE  /\ option + 1 \in DOMAIN fields[index].options
         /\ Form!Pointed.value \in Answers
         /\ ~Form!OffersText(Form!Pointed) => Form!Pointed.value \in Offers(index)
<1>1. option + 1 \in DOMAIN fields[index].options /\ index \in DOMAIN fields
  BY DEF FormShape, FormTypes
<1>2. Form!Pointed = fields[index].options[option + 1]
  BY DEF Form!Pointed, Form!Options, Form!Field
<1>3. Form!Pointed.value \in Answers
  BY <1>1, <1>2 DEF Answers
<1>4. Form!Pointed \in Form!ToSet(fields[index].options)
  BY <1>1, <1>2 DEF Form!ToSet
<1> QED
  BY <1>1, <1>3, <1>4 DEF Offers, Form!OfferedBy, Form!OffersText

\* The answers that were not offered are the same after a step.
LEMMA SoundSame ==
  ASSUME UNCHANGED fields
  PROVE  /\ \A i : Offers(i)' = Offers(i)
         /\ \A i : FreeIn(i, values[i])' = FreeIn(i, values'[i])
         /\ \A i : Sound(i, values[i], custom[i])' = Sound(i, values'[i], custom'[i])
<1>1. \A i : Offers(i)' = Offers(i)
  BY DEF Offers
<1>2. \A i : FreeIn(i, values[i])' = FreeIn(i, values'[i])
  BY <1>1 DEF FreeIn
<1>3. \A i : Sound(i, values[i], custom[i])' = Sound(i, values'[i], custom'[i])
  BY <1>1, <1>2 DEF Sound
<1> QED
  BY <1>1, <1>2, <1>3

\* One field gets other answers, and perhaps another free one.
LEMMA AnswersOfOne ==
  ASSUME FormShape, FormTypes, AllSound, NEW v \in Seq(Answers), NEW free,
         values' = [values EXCEPT ![index] = v], custom' = [custom EXCEPT ![index] = free],
         UNCHANGED <<declared, fields>>,
         fields[index].type \in Form!Selects => Sound(index, v, free)
  PROVE  /\ AllSound' /\ FormShape' /\ Answers' = Answers
         /\ values' \in [DOMAIN fields -> Seq(Answers)] /\ DOMAIN custom' = DOMAIN fields
         /\ custom' = [i \in DOMAIN fields |-> custom'[i]]
         /\ values'[index] = v /\ \A i \in DOMAIN fields : i # index => values'[i] = values[i]
<1>1. index \in DOMAIN fields /\ values \in [DOMAIN fields -> Seq(Answers)]
      /\ custom = [i \in DOMAIN fields |-> custom[i]]
  BY DEF FormTypes
<1>2. FormShape' /\ Answers' = Answers
  BY DEF FormShape, Answers
<1>3. /\ values'[index] = v /\ \A i \in DOMAIN fields : i # index => values'[i] = values[i]
      /\ values' \in [DOMAIN fields -> Seq(Answers)]
  BY <1>1
<1>4. /\ custom'[index] = free /\ \A i \in DOMAIN fields : i # index => custom'[i] = custom[i]
      /\ DOMAIN custom' = DOMAIN fields /\ custom' = [i \in DOMAIN fields |-> custom'[i]]
  BY <1>1
<1>5. AllSound'
  <2> SUFFICES ASSUME NEW i \in DOMAIN fields, fields[i].type \in Form!Selects
               PROVE  Sound(i, values'[i], custom'[i])
    BY SoundSame DEF AllSound
  <2>1. CASE i = index
    BY <1>3, <1>4, <2>1
  <2>2. CASE i # index
    BY <1>3, <1>4, <2>2 DEF AllSound
  <2> QED
    BY <2>1, <2>2
<1> QED
  BY <1>2, <1>3, <1>4, <1>5

\* accept: the value is refused, or stands and the form goes on or is done.
LEMMA AdvanceKeeps ==
  ASSUME FormInv, ~done, NEW v \in Seq(Answers), NEW free, Form!Advance(v),
         UNCHANGED <<declared, fields>>, ~customEntry', customEntry' \in BOOLEAN,
         custom' = [custom EXCEPT ![index] = free],
         v # <<>> \/ custom' = custom,
         fields[index].type \in Form!Selects => Sound(index, v, free)
  PROVE  FormInv'
<1> USE DEF FormInv
<1>1. CASE Form!Missing(v)
  <2>1. UNCHANGED <<index, option, values, done, custom>>
    BY <1>1 DEF Form!Advance, Form!Missing
  <2>2. FormShape' /\ Answers' = Answers
    BY DEF FormShape, Answers
  <2>3. FormTypes'
    BY <2>1, <2>2 DEF FormTypes
  <2>4. Answered' /\ NoneWhileTyping'
    BY <2>1 DEF Answered, NoneWhileTyping
  <2>5. AllSound'
    BY <2>1, SoundSame DEF AllSound
  <2> QED
    BY <2>2, <2>3, <2>4, <2>5
<1>2. CASE ~Form!Missing(v)
  <2>1. /\ values' = [values EXCEPT ![index] = v]
        /\ IF index < Len(fields) THEN index' = index + 1 /\ option' = 0 /\ done' = done
           ELSE done' = TRUE /\ UNCHANGED <<index, option>>
    BY <1>2 DEF Form!Advance, Form!Set, Form!Pointer
  <2>2. /\ AllSound' /\ FormShape' /\ Answers' = Answers
        /\ values' \in [DOMAIN fields -> Seq(Answers)] /\ DOMAIN custom' = DOMAIN fields
        /\ custom' = [i \in DOMAIN fields |-> custom'[i]]
        /\ values'[index] = v /\ \A i \in DOMAIN fields : i # index => values'[i] = values[i]
    BY <2>1, AnswersOfOne
  <2>3. index \in 1..Len(fields) /\ Len(fields) \in Nat /\ DOMAIN fields = 1..Len(fields)
    BY DEF FormShape, FormTypes
  <2>4. fields[index].required => v # <<>>
    BY <1>2 DEF Form!Missing, Form!Field
  <2>5. FormTypes'
    <3>1. CASE index < Len(fields)
      <4>1. index' \in DOMAIN fields /\ option' = 0 /\ done' = done
        BY <2>1, <2>3, <3>1
      <4> QED
        BY <2>2, <4>1 DEF FormTypes
    <3>2. CASE ~(index < Len(fields))
      BY <2>1, <2>2, <3>2 DEF FormTypes
    <3> QED
      BY <3>1, <3>2
  <2>6. Answered'
    <3> SUFFICES ASSUME NEW i \in DOMAIN fields, i < index' \/ done', fields[i].required
                 PROVE  values'[i] # <<>>
      BY DEF Answered
    <3>1. i < index \/ i = index
      BY <2>1, <2>3
    <3> QED
      BY <2>2, <2>4, <3>1 DEF Answered
  <2> QED
    BY <2>2, <2>5, <2>6 DEF NoneWhileTyping
<1> QED
  BY <1>1, <1>2

\* A list without options has none.
LEMMA NoOptions ==
  ASSUME FormShape, index \in DOMAIN fields, Len(fields[index].options) = 0
  PROVE  fields[index].options = <<>>
  BY DEF FormShape

\* Steps that leave the answers and the fields alone.
LEMMA OnlyPointing ==
  ASSUME FormInv, UNCHANGED <<declared, fields, values, custom, done>>,
         index' \in DOMAIN fields, index' <= index, ~done, FormTypes', NoneWhileTyping'
  PROVE  FormInv'
<1>1. FormShape' /\ \A i \in DOMAIN fields : i < index' => i < index
  BY DEF FormInv, FormShape, FormTypes
<1>2. Answered'
  BY <1>1 DEF FormInv, Answered
<1>3. AllSound'
  BY SoundSame DEF FormInv, AllSound
<1> QED
  BY <1>1, <1>2, <1>3 DEF FormInv

\* Moving past the last option comes to the first.
LEMMA Wraps ==
  ASSUME NEW a \in Nat, NEW n \in Nat, n # 0
  PROVE  (a + 1) % n \in Nat /\ (a + 1) % n < n
  OBVIOUS

\* move: another option of the same field.
LEMMA MoveKeeps ==
  ASSUME FormInv, Form!Move(1)
  PROVE  FormInv'
<1> USE DEF FormInv
<1>1. /\ ~done /\ ~customEntry /\ UNCHANGED <<declared, fields, index, values, custom, customEntry, done>>
      /\ option' = (option + 1) % Len(fields[index].options)
  BY DEF Form!Move, Form!Options, Form!Field
<1>2. index \in DOMAIN fields /\ Len(fields[index].options) \in Nat /\ option \in Nat
      /\ index <= index
  BY DEF FormShape, FormTypes
<1>3. Len(fields[index].options) # 0
  BY <1>2, NoOptions DEF Form!Move, Form!Options, Form!Field, FormShape
<1>4. option' \in Nat /\ option' < Len(fields[index].options)
  <2> DEFINE n == Len(fields[index].options)
  <2>1. n \in Nat /\ n # 0 /\ option \in Nat /\ option' = (option + 1) % n
    BY <1>1, <1>2, <1>3
  <2> HIDE DEF n
  <2>2. option' \in Nat /\ option' < n
    BY <2>1, Wraps
  <2> QED
    BY <2>2 DEF n
<1>5. FormTypes'
  <2>1. Answers' = Answers
    BY <1>1 DEF Answers
  <2> QED
    BY <1>1, <1>4, <2>1 DEF FormTypes
<1>6. NoneWhileTyping'
  BY <1>1 DEF NoneWhileTyping
<1> QED
  BY <1>1, <1>2, <1>5, <1>6, OnlyPointing

\* The answers to the field the form shows change, and it stays there.
LEMMA AnswerStands ==
  ASSUME FormInv, ~done, NEW v \in Seq(Answers), NEW free,
         UNCHANGED <<declared, fields, index, option, done>>, customEntry' = FALSE,
         values' = [values EXCEPT ![index] = v], custom' = [custom EXCEPT ![index] = free],
         Sound(index, v, free)
  PROVE  FormInv'
<1> USE DEF FormInv
<1>1. /\ AllSound' /\ FormShape' /\ Answers' = Answers
      /\ values' \in [DOMAIN fields -> Seq(Answers)] /\ DOMAIN custom' = DOMAIN fields
      /\ custom' = [i \in DOMAIN fields |-> custom'[i]]
      /\ \A i \in DOMAIN fields : i # index => values'[i] = values[i]
  BY AnswersOfOne
<1>2. FormTypes'
  BY <1>1 DEF FormTypes
<1>3. Answered'
  <2> SUFFICES ASSUME NEW i \in DOMAIN fields, i < index, fields[i].required PROVE values'[i] # <<>>
    BY DEF Answered
  <2>1. i # index
    BY DEF FormShape, FormTypes
  <2> QED
    BY <1>1, <2>1 DEF Answered
<1> QED
  BY <1>1, <1>2, <1>3 DEF NoneWhileTyping

\* toggle: an option or the free answer comes or goes, or the editor opens.
LEMMA ToggleKeeps ==
  ASSUME FormInv, Form!Toggle
  PROVE  FormInv'
<1> USE DEF FormInv
<1>1. /\ ~done /\ ~customEntry /\ fields[index].type = "multi_select"
      /\ UNCHANGED <<declared, fields, index, option, done>>
  BY DEF Form!Toggle, Form!Field
<1>2. index \in DOMAIN fields /\ Len(fields) \in Nat /\ DOMAIN fields = 1..Len(fields)
      /\ values[index] \in Seq(Answers)
  BY DEF FormShape, FormTypes
<1>3. fields[index].type \in Form!Selects /\ fields[index].type \in Pointable
  BY <1>1 DEF Form!Selects, Pointable
<1>4. Sound(index, values[index], custom[index])
  BY <1>2, <1>3 DEF AllSound
<1>5. /\ Form!Pointed.value \in Answers
      /\ ~Form!OffersText(Form!Pointed) => Form!Pointed.value \in Offers(index)
  BY <1>3, PointedIsOption
<1>7. CASE Form!OffersText(Form!Pointed) /\ custom[index] = "" /\ customEntry' = TRUE
           /\ UNCHANGED <<values, custom>>
  <2>1. FormTypes'
    <3>1. Answers' = Answers
      BY <1>1 DEF Answers
    <3> QED
      BY <1>1, <1>7, <3>1 DEF FormTypes
  <2>2. NoneWhileTyping'
    BY <1>1, <1>7 DEF NoneWhileTyping
  <2>3. index <= index
    BY <1>2
  <2> QED
    BY <1>1, <1>2, <1>7, <2>1, <2>2, <2>3, OnlyPointing
<1>8. CASE /\ Form!OffersText(Form!Pointed) /\ custom[index] # ""
           /\ values' = [values EXCEPT ![index] = Form!RemoveLast(values[index], custom[index])]
           /\ custom' = [custom EXCEPT ![index] = ""] /\ customEntry' = customEntry
  <2> DEFINE s == values[index]
             r == Form!RemoveLast(s, custom[index])
             free == custom[index]
  <2>1. s \in Seq(Answers)
    BY <1>2
  <2>2. r \in Seq(Answers) /\ Without(s, r, free)
    <3> HIDE DEF s
    <3> QED
      BY <2>1, RemoveLastIs
  <2>3. Sound(index, s, free)
    BY <1>4
  <2>4. values' = [values EXCEPT ![index] = r] /\ custom' = [custom EXCEPT ![index] = ""]
        /\ customEntry' = FALSE
    BY <1>1, <1>8 DEF FormTypes
  <2> HIDE DEF s, r, free
  <2>5. FreeIn(index, r) = {}
    <3> DEFINE answers == Answers
    <3>1. s \in Seq(answers) /\ r \in Seq(answers)
      BY <2>1, <2>2
    <3> HIDE DEF answers
    <3> QED
      BY <2>2, <2>3, <3>1, SoundTakenBack
  <2>6. Sound(index, r, "")
    BY <2>5, SoundEmpty
  <2> QED
    BY <1>1, <2>2, <2>4, <2>6, AnswerStands
<1>9. CASE /\ ~Form!OffersText(Form!Pointed)
           /\ values' = [values EXCEPT ![index] =
                IF Form!Contains(values[index], Form!Pointed.value)
                  THEN Form!RemoveFirst(values[index], Form!Pointed.value)
                  ELSE Append(values[index], Form!Pointed.value)]
           /\ UNCHANGED <<custom, customEntry>>
  <2> DEFINE s == values[index]
             v == Form!Pointed.value
             less == Form!RemoveFirst(s, v)
             more == Append(s, v)
             free == custom[index]
             answers == Answers
  <2>1. s \in Seq(answers) /\ v \in answers /\ v \in Offers(index) /\ Sound(index, s, free)
    BY <1>2, <1>4, <1>5, <1>9
  <2>2. less \in Seq(answers) /\ Without(s, less, v)
    <3> HIDE DEF s, v, answers
    <3> QED
      BY <2>1, RemoveFirstIs
  <2>3. more \in Seq(answers)
    <3> HIDE DEF s, v, answers
    <3> QED
      BY <2>1
  <2>4. custom' = [custom EXCEPT ![index] = free] /\ customEntry' = FALSE
    BY <1>1, <1>9 DEF FormTypes
  <2>5. values' = [values EXCEPT ![index] = less] \/ values' = [values EXCEPT ![index] = more]
    BY <1>9
  <2>6. more = Append(s, v)
    OBVIOUS
  <2> HIDE DEF s, v, less, more, free, answers
  <2>7. Sound(index, less, free)
    BY <2>1, <2>2, SoundWithout
  <2>8. Sound(index, more, free)
    BY <2>1, <2>6, SoundAppend
  <2>9. less \in Seq(Answers) /\ more \in Seq(Answers)
    BY <2>2, <2>3 DEF answers
  <2> QED
    BY <1>1, <2>4, <2>5, <2>7, <2>8, <2>9, AnswerStands
<1> QED
  BY <1>7, <1>8, <1>9 DEF Form!Toggle, Form!Set, Form!TakenBack

\* A text where the form expects one.
LEMMA OneIsSeq == \A R : \A v \in R : <<v>> \in Seq(R) /\ <<v>> # <<>>
  OBVIOUS

\* No answer is a list of answers.
LEMMA NoneIsSeq == \A R : <<>> \in Seq(R)
  OBVIOUS

\* So is a list with one more.
LEMMA LongerIsSeq == \A R : \A s \in Seq(R) : \A v \in R : Append(s, v) \in Seq(R)
  OBVIOUS

\* A list with a length is not the empty one.
LEMMA SomeIsNotNone ==
  ASSUME NEW s, Len(s) > 0
  PROVE  s # <<>>
  OBVIOUS

\* accept with the editor open: the text is the free answer.
LEMMA AcceptCustomKeeps ==
  ASSUME FormInv, NEW text \in Texts \cup {""}, Form!AcceptCustom(text)
  PROVE  FormInv'
<1> USE DEF FormInv
<1>1. /\ ~done /\ customEntry /\ customEntry' = FALSE /\ Given(text)
      /\ custom' = [custom EXCEPT ![index] = text] /\ UNCHANGED <<declared, fields>>
  BY DEF Form!AcceptCustom, Given
<1>2. index \in DOMAIN fields /\ values[index] \in Seq(Answers) /\ text \in Answers
  BY <1>1 DEF FormTypes, Answers, Given
<1>3. CASE fields[index].type = "multi_select"
  <2> DEFINE s == values[index]
             more == Append(s, text)
             answers == Answers
  <2>1. s \in Seq(answers) /\ text \in answers /\ more = Append(s, text)
    BY <1>2
  <2>2. values' = [values EXCEPT ![index] = more] /\ UNCHANGED <<index, option, done>>
    BY <1>3 DEF Form!AcceptCustom, Form!Set, Form!Field
  <2>3. FreeIn(index, s) = {}
    <3>1. Sound(index, s, custom[index])
      BY <1>2, <1>3 DEF AllSound, Form!Selects
    <3>2. custom[index] = ""
      BY <1>1, <1>3 DEF NoneWhileTyping
    <3> HIDE DEF s
    <3> QED
      BY <3>1, <3>2, Zenon DEF Sound
  <2> HIDE DEF s, more, answers
  <2>4. Sound(index, more, text)
    BY <1>1, <2>1, <2>3, SoundFree
  <2>5. more \in Seq(Answers)
    <3>1. more \in Seq(answers)
      BY <2>1, LongerIsSeq, Zenon
    <3> QED
      BY <3>1 DEF answers
  <2> QED
    BY <1>1, <1>3, <2>2, <2>4, <2>5, AnswerStands
<1>4. CASE fields[index].type # "multi_select"
  <2>1. Form!Advance(<<text>>)
    BY <1>4 DEF Form!AcceptCustom, Form!Field
  <2>2. <<text>> \in Seq(Answers) /\ <<text>> # <<>>
    BY <1>2, OneIsSeq
  <2>3. Sound(index, <<text>>, text)
    BY <1>1, <1>4, SoundSingle
  <2> DEFINE one == <<text>>
  <2>4. one \in Seq(Answers) /\ one # <<>> /\ Sound(index, one, text) /\ Form!Advance(one)
    BY <2>1, <2>2, <2>3
  <2> HIDE DEF one
  <2> QED
    BY <1>1, <2>4, AdvanceKeeps
<1> QED
  BY <1>3, <1>4

\* The editor opens where there is no free answer.
LEMMA AcceptOtherKeeps ==
  ASSUME FormInv, Form!AcceptOther
  PROVE  FormInv'
<1> USE DEF FormInv
<1>1. /\ ~done /\ UNCHANGED <<declared, fields, index, option, values, custom, done>>
      /\ customEntry' = TRUE
  BY DEF Form!AcceptOther
<1>2. index \in DOMAIN fields
  BY DEF FormTypes
<1>3. index <= index
  BY <1>2 DEF FormShape
<1>4. FormTypes'
  <2>1. Answers' = Answers
    BY <1>1 DEF Answers
  <2> QED
    BY <1>1, <2>1 DEF FormTypes
<1>5. NoneWhileTyping'
  BY <1>1 DEF NoneWhileTyping, Form!AcceptOther, Form!OpensEditor, Form!Field
<1> QED
  BY <1>1, <1>2, <1>3, <1>4, <1>5, OnlyPointing

\* The editor is left.
LEMMA LeaveCustomKeeps ==
  ASSUME FormInv, Form!LeaveCustom
  PROVE  FormInv'
<1> USE DEF FormInv
<1>1. /\ ~done /\ UNCHANGED <<declared, fields, index, option, values, custom, done>>
      /\ customEntry' = FALSE
  BY DEF Form!LeaveCustom
<1>2. index \in DOMAIN fields
  BY DEF FormTypes
<1>3. index <= index
  BY <1>2 DEF FormShape
<1>4. FormTypes'
  <2>1. Answers' = Answers
    BY <1>1 DEF Answers
  <2> QED
    BY <1>1, <2>1 DEF FormTypes
<1>5. NoneWhileTyping'
  BY <1>1 DEF NoneWhileTyping
<1> QED
  BY <1>1, <1>2, <1>3, <1>4, <1>5, OnlyPointing

\* The field before.
LEMMA BackKeeps ==
  ASSUME FormInv, Form!Back
  PROVE  FormInv'
<1> USE DEF FormInv
<1>1. /\ ~done /\ ~customEntry /\ index > 1 /\ index' = index - 1 /\ option' = 0
      /\ UNCHANGED <<declared, fields, values, custom, customEntry, done>>
  BY DEF Form!Back, Form!Pointer
<1>2. index \in 1..Len(fields) /\ DOMAIN fields = 1..Len(fields) /\ Len(fields) \in Nat
  BY DEF FormShape, FormTypes
<1>3. index' \in DOMAIN fields /\ index' <= index
  <2>1. index' \in 1..Len(fields)
    BY <1>1, <1>2
  <2> QED
    BY <1>1, <1>2, <2>1
<1>4. FormTypes'
  <2>1. Answers' = Answers
    BY <1>1 DEF Answers
  <2> QED
    BY <1>1, <1>3, <2>1 DEF FormTypes
<1>5. NoneWhileTyping'
  BY <1>1 DEF NoneWhileTyping
<1> QED
  BY <1>1, <1>3, <1>4, <1>5, OnlyPointing

\* accept: a text, a selection as it stands, or the option pointed at.
LEMMA AcceptKeeps ==
  ASSUME FormInv, NEW text \in Texts \cup {""}, Form!Accept(text)
  PROVE  FormInv'
<1> USE DEF FormInv
<1> DEFINE free == custom[index]
           type == fields[index].type
           chosen == CASE type \in {"text", "textarea"} -> Form!Typed(text)
                       [] type = "multi_select" -> values[index]
                       [] OTHER -> <<Form!Pointed.value>>
<1>1. /\ ~done /\ ~customEntry /\ ~Form!OpensEditor /\ Form!Advance(chosen)
      /\ UNCHANGED <<declared, fields, custom, customEntry>>
  BY DEF Form!Accept, Form!Field
<1>2. index \in DOMAIN fields /\ values[index] \in Seq(Answers)
      /\ custom = [i \in DOMAIN fields |-> custom[i]]
  BY DEF FormTypes
<1>3. /\ custom' = custom /\ custom' = [custom EXCEPT ![index] = free]
      /\ ~customEntry' /\ customEntry' \in BOOLEAN
  BY <1>1, <1>2 DEF FormTypes
<1>4. type = fields[index].type
  OBVIOUS
<1>5. CASE type \in {"text", "textarea"}
  <2>1. chosen = Form!Typed(text)
    BY <1>5
  <2>2. chosen \in Seq(Answers)
    <3>1. CASE text = ""
      <4>1. chosen = <<>>
        BY <2>1, <3>1, Zenon DEF Form!Typed
      <4> QED
        BY <4>1, NoneIsSeq, Zenon
    <3>2. CASE text # ""
      <4>1. text \in Answers
        BY <3>2 DEF Answers
      <4> QED
        BY <2>1, <3>2, <4>1, OneIsSeq DEF Form!Typed
    <3> QED
      BY <3>1, <3>2
  <2>3. type \notin Form!Selects
    BY <1>5 DEF Form!Selects
  <2> HIDE DEF chosen, free
  <2> QED
    BY <1>1, <1>3, <2>2, <2>3, AdvanceKeeps
<1>6. CASE type = "multi_select"
  <2>1. chosen = values[index]
    BY <1>6
  <2>2. Sound(index, values[index], free)
    BY <1>2, <1>6 DEF AllSound, Form!Selects
  <2>3. chosen \in Seq(Answers) /\ Sound(index, chosen, free)
    BY <1>2, <2>1, <2>2
  <2> HIDE DEF chosen, free
  <2> QED
    BY <1>1, <1>3, <2>3, AdvanceKeeps
<1>7. CASE type \notin {"text", "textarea", "multi_select"}
  <2>1. chosen = <<Form!Pointed.value>>
    BY <1>7
  <2>2. type \in {"single_select", "boolean"}
    BY <1>2, <1>7 DEF FormShape, Form!Types
  <2>3. fields[index].type \in Pointable /\ fields[index].type # "multi_select"
    BY <2>2 DEF Pointable, Form!Selects
  <2>4. /\ Form!Pointed.value \in Answers
        /\ ~Form!OffersText(Form!Pointed) => Form!Pointed.value \in Offers(index)
    BY <2>3, PointedIsOption
  <2>5. chosen \in Seq(Answers) /\ chosen # <<>>
    BY <2>1, <2>4, OneIsSeq
  <2>6. ASSUME fields[index].type \in Form!Selects PROVE Sound(index, chosen, free)
    <3>1. Len(fields[index].options) > 0
      BY <1>2, <2>3 DEF FormShape
    <3>2. fields[index].options # <<>>
      BY <3>1, SomeIsNotNone
    <3>3. ~Form!OffersText(Form!Pointed)
      BY <1>1, <2>3, <2>6, <3>2 DEF Form!OpensEditor, Form!Options, Form!Field
    <3>4. Sound(index, <<Form!Pointed.value>>, free)
      BY <2>3, <2>4, <3>3, SoundSingle
    <3> QED
      BY <2>1, <3>4
  <2> HIDE DEF chosen, free
  <2> QED
    BY <1>1, <1>3, <2>5, <2>6, AdvanceKeeps
<1> QED
  BY <1>5, <1>6, <1>7

\* Every step of the form, and every step that is none, keeps the invariant.
LEMMA FormKept ==
  ASSUME FormInv, [Form!Next]_(Form!vars)
  PROVE  FormInv'
<1>1. CASE UNCHANGED Form!vars
  <2>1. UNCHANGED <<declared, fields, index, option, values, custom, customEntry, done>>
    BY <1>1 DEF Form!vars
  <2>2. FormShape' /\ Answers' = Answers
    BY <2>1 DEF FormInv, FormShape, Answers
  <2>3. FormTypes'
    BY <2>1, <2>2 DEF FormInv, FormTypes
  <2>4. NoneWhileTyping' /\ Answered'
    BY <2>1 DEF FormInv, NoneWhileTyping, Answered
  <2>5. AllSound'
    BY <2>1, SoundSame DEF FormInv, AllSound
  <2> QED
    BY <2>2, <2>3, <2>4, <2>5 DEF FormInv
<1>2. CASE Form!Move(1)
  BY <1>2, MoveKeeps
<1>3. CASE Form!Toggle
  BY <1>3, ToggleKeeps
<1>4. CASE Form!AcceptOther
  BY <1>4, AcceptOtherKeeps
<1>5. CASE Form!LeaveCustom
  BY <1>5, LeaveCustomKeeps
<1>6. CASE Form!Back
  BY <1>6, BackKeeps
<1>7. ASSUME NEW text \in Texts \cup {""}, Form!AcceptCustom(text)
      PROVE  FormInv'
  BY <1>7, AcceptCustomKeeps
<1>8. ASSUME NEW text \in Texts \cup {""}, Form!Accept(text)
      PROVE  FormInv'
  BY <1>8, AcceptKeeps
<1>9. CASE Form!Submitted
  BY <1>1, <1>9 DEF Form!Submitted
<1> QED
  BY <1>1, <1>2, <1>3, <1>4, <1>5, <1>6, <1>7, <1>8, <1>9 DEF Form!Next

\* What the invariant says of a form that is done, and of what is marked.
LEMMA FormShows ==
  ASSUME FormInv
  PROVE  Form!FormAnswers
<1> USE DEF FormInv
<1>1. Form!SubmittedIsAccepted
  BY DEF Form!SubmittedIsAccepted, Form!Accepted, FormShape, Answered
<1>2. Form!AnswersAreShown
  <2> SUFFICES ASSUME NEW i \in DOMAIN fields, fields[i].type \in Form!Selects, NEW j \in DOMAIN values[i]
               PROVE  values[i][j] \in Form!OfferedBy(fields[i]) \cup {custom[i]}
    BY DEF Form!AnswersAreShown
  <2>1. Sound(i, values[i], custom[i])
    BY DEF AllSound
  <2>2. j \in FreeIn(i, values[i]) \/ values[i][j] \in Offers(i)
    BY DEF FreeIn
  <2> QED
    BY <2>1, <2>2 DEF Sound, Offers
<1>3. Form!CheckedUnlessOffered
  <2> SUFFICES ASSUME NEW i \in DOMAIN fields, fields[i].type = "multi_select",
                      custom[i] \notin Offers(i) \cup {""}
               PROVE  Form!Contains(values[i], custom[i])
    BY DEF Form!CheckedUnlessOffered, Offers
  <2>1. Sound(i, values[i], custom[i])
    BY DEF AllSound, Form!Selects
  <2>2. PICK j \in DOMAIN values[i] : values[i][j] = custom[i]
    BY <2>1 DEF Sound, FreeIn
  <2>3. j \in 1..Len(values[i])
    BY <2>2, PlacesAre DEF FormTypes
  <2> QED
    BY <2>2, <2>3 DEF Form!Contains
<1> QED
  BY <1>1, <1>2, <1>3 DEF Form!FormAnswers

-----------------------------------------------------------------------------
(* Dialogs: what an action does to the UI and to the workers.               *)

UIs == [editor : SUBSET Texts, stash : Prompt!Draft, skill : Prompt!Draft,
  dialog : Prompt!Dialogs,
        deferred : BOOLEAN, running : BOOLEAN, cancelSent : BOOLEAN]
Runs == [stage : {"none", "starting", "graph", "ended", "told"}, kind : Prompt!Kinds,
         outcome : Prompt!Outcomes, cancelled : BOOLEAN]

\* What the invariants need of the UI: five of its fields and whether it works.
Ui(u, editor, stash, skill, dialog, deferred, running) ==
  /\ u \in UIs /\ u.editor = editor /\ u.stash = stash /\ u.skill = skill
  /\ u.dialog = dialog /\ u.deferred = deferred /\ u.running = running
EditorOf(u) == IF u.dialog = "none" /\ ~u.deferred /\ u.stash = NoDraft THEN {} ELSE u.editor
StashOf(u) == IF u.dialog = "none" /\ ~u.deferred
  /\ u.stash = NoDraft THEN u.editor ELSE u.stash

LEMMA StartedIs ==
  ASSUME NEW u \in UIs
  PROVE  Ui(Prompt!Started(u), u.editor, u.stash, u.skill, u.dialog, u.deferred, TRUE)
BY DEF UIs, Ui, Prompt!Started

LEMMA WithApprovalIs ==
  ASSUME NEW u \in UIs
  PROVE  Ui(Prompt!WithApproval(u), EditorOf(u), StashOf(u), u.skill, "approval", u.deferred,
    u.running)
<1>1. CASE u.dialog = "none" /\ ~u.deferred /\ u.stash = NoDraft
  BY <1>1 DEF UIs, Ui, Prompt!WithApproval, EditorOf, StashOf, Prompt!Draft, Prompt!Dialogs,
     Prompt!Interrupts
<1>2. CASE ~(u.dialog = "none" /\ ~u.deferred /\ u.stash = NoDraft)
  BY <1>2 DEF UIs, Ui, Prompt!WithApproval, EditorOf, StashOf, Prompt!Draft, Prompt!Dialogs,
     Prompt!Interrupts
<1> QED
  BY <1>1, <1>2

LEMMA ShownIs ==
  ASSUME NEW u \in UIs, NEW d \in Prompt!Dialogs
  PROVE  Ui([u EXCEPT !.dialog = d], u.editor, u.stash, u.skill, d, u.deferred, u.running)
BY DEF UIs, Ui

LEMMA RestoredIs ==
  ASSUME NEW u \in UIs
  PROVE  Ui(Prompt!Restored(u), IF u.stash = NoDraft THEN u.editor ELSE u.stash, NoDraft,
    u.skill,
            u.dialog, u.deferred, u.running)
<1>1. CASE u.stash = NoDraft
  BY <1>1 DEF UIs, Ui, Prompt!Restored, Prompt!Draft
<1>2. CASE u.stash # NoDraft
  <2>1. u.stash \in SUBSET Texts /\ NoDraft \in Prompt!Draft
    BY <1>2 DEF UIs, Prompt!Draft
  <2>2. Prompt!Restored(u) = [u EXCEPT !.editor = u.stash, !.stash = NoDraft]
    BY <1>2 DEF Prompt!Restored
  <2> QED
    BY <1>2, <2>1, <2>2 DEF UIs, Ui
<1> QED
  BY <1>1, <1>2

LEMMA DismissedIs ==
  ASSUME NEW u \in UIs
  PROVE  Ui(Prompt!Dismissed(u), u.editor, u.stash, u.skill,
    IF u.deferred THEN "confirm" ELSE "none",
            FALSE, FALSE)
<1>1. CASE u.deferred
  BY <1>1 DEF UIs, Ui, Prompt!Dismissed, Prompt!Dialogs
<1>2. CASE ~u.deferred
  BY <1>2 DEF UIs, Ui, Prompt!Dismissed, Prompt!Dialogs
<1> QED
  BY <1>1, <1>2

LEMMA TakenBackIs ==
  ASSUME NEW u \in UIs, queue \subseteq Texts
  PROVE  Ui(Prompt!TakenBack(u), u.editor \cup queue, u.stash, u.skill, u.dialog, u.deferred,
    u.running)
BY DEF UIs, Ui, Prompt!TakenBack

LEMMA ResetViewIs ==
  ASSUME NEW u \in UIs
  PROVE  Ui(Prompt!ResetView(u), u.editor, u.stash, NoDraft, "none", FALSE, u.running)
<1>1. NoDraft \in Prompt!Draft /\ "none" \in Prompt!Dialogs
  BY DEF Prompt!Draft, Prompt!Dialogs
<1> QED
  BY <1>1 DEF UIs, Ui, Prompt!ResetView

LEMMA AcceptedIs ==
  ASSUME ui \in UIs
  PROVE  Ui(Prompt!Accepted, {}, ui.stash, ui.skill, "none", ui.deferred, ui.running)
BY DEF UIs, Ui, Prompt!Accepted, Prompt!Dialogs

LEMMA EnterWaitIs ==
  ASSUME NEW u \in UIs
  PROVE  Ui(Prompt!EnterWait(u), u.editor, u.stash, u.skill, "none", FALSE, u.running)
BY DEF UIs, Ui, Prompt!EnterWait, Prompt!Dialogs

LEMMA BehindIs ==
  ASSUME NEW u \in UIs
  PROVE  Ui(Prompt!Behind(u), u.editor, u.stash, u.skill,
    IF u.dialog = "confirm" THEN "none" ELSE u.dialog,
            u.deferred \/ u.dialog = "confirm", u.running)
<1>1. CASE u.dialog = "confirm"
  BY <1>1 DEF UIs, Ui, Prompt!Behind, Prompt!Dialogs
<1>2. CASE u.dialog # "confirm"
  BY <1>2 DEF UIs, Ui, Prompt!Behind, Prompt!Dialogs
<1> QED
  BY <1>1, <1>2

LEMMA RunningIs ==
  ASSUME NEW u \in UIs, NEW r \in BOOLEAN
  PROVE  Ui([u EXCEPT !.running = r], u.editor, u.stash, u.skill, u.dialog, u.deferred, r)
BY DEF UIs, Ui

LEMMA EditorIs ==
  ASSUME NEW u \in UIs, NEW e \in SUBSET Texts
  PROVE  Ui([u EXCEPT !.editor = e], e, u.stash, u.skill, u.dialog, u.deferred, u.running)
BY DEF UIs, Ui

LEMMA SkillIs ==
  ASSUME NEW u \in UIs, NEW e \in SUBSET Texts, NEW k \in Prompt!Draft, NEW d \in Prompt!Dialogs
  PROVE  Ui([u EXCEPT !.dialog = d, !.skill = k, !.editor = e], e, u.stash, k, d, u.deferred,
            u.running)
BY DEF UIs, Ui

LEMMA CancelSentIs ==
  ASSUME NEW u \in UIs, NEW c \in BOOLEAN
  PROVE  Ui([u EXCEPT !.cancelSent = c], u.editor, u.stash, u.skill, u.dialog, u.deferred,
    u.running)
BY DEF UIs, Ui

\* A worker starts; nothing else about the workers changes.
Starts(kind, free) ==
  \E w \in free :
    /\ run' \in [Workers -> Runs] /\ epoch' = w
    /\ run'[w].stage = "starting" /\ run'[w].kind = kind /\ run'[w].outcome = "none"
    /\ \A v \in Workers : v # w => run'[v] = run[v]

LEMMA StartIs ==
  ASSUME run \in [Workers -> Runs], NEW u \in UIs, NEW kind \in Prompt!Kinds,
    NEW free \in SUBSET Workers,
         Prompt!Start(u, kind, free)
  PROVE  /\ Ui(ui', u.editor, u.stash, u.skill, u.dialog, u.deferred, TRUE)
         /\ Starts(kind, free)
<1>1. Ui(ui', u.editor, u.stash, u.skill, u.dialog, u.deferred, TRUE)
  BY StartedIs DEF Prompt!Start
<1>2. PICK w \in free : Prompt!StartIn(w, kind)
  BY DEF Prompt!Start
<1>3. [Prompt!NoRun EXCEPT !.stage = "starting", !.kind = kind] \in Runs
  BY DEF Prompt!NoRun, Runs, Prompt!Outcomes
<1>4. run' = [run EXCEPT ![w] = [Prompt!NoRun EXCEPT !.stage = "starting", !.kind = kind]]
        /\ epoch' = w
  BY <1>2 DEF Prompt!StartIn
<1>5. /\ run' \in [Workers -> Runs]
           /\ run'[w] = [Prompt!NoRun EXCEPT !.stage = "starting", !.kind = kind]
      /\ \A v \in Workers : v # w => run'[v] = run[v]
  BY <1>3, <1>4
<1>6. run'[w].stage = "starting" /\ run'[w].kind = kind /\ run'[w].outcome = "none"
  BY <1>5 DEF Prompt!NoRun
<1> QED
  BY <1>1, <1>4, <1>5, <1>6 DEF Starts

\* One worker moves on; the others stay where they are.
Moves(w, stage, outcome) ==
  /\ run' \in [Workers -> Runs] /\ epoch' = epoch
  /\ run'[w].stage = stage /\ run'[w].outcome = outcome /\ run'[w].kind = run[w].kind
  /\ \A v \in Workers : v # w => run'[v] = run[v]

LEMMA StepIs ==
  ASSUME run \in [Workers -> Runs], NEW w \in Workers, NEW outcome \in Prompt!Outcomes,
         NEW stage \in {"none", "starting", "graph", "ended", "told"},
         run' = Prompt!Step(w, stage, outcome), epoch' = epoch
  PROVE  Moves(w, stage, outcome)
<1>1. [run[w] EXCEPT !.stage = stage, !.outcome = outcome] \in Runs
  BY DEF Runs
<1>2. run' = [run EXCEPT ![w] = [run[w] EXCEPT !.stage = stage, !.outcome = outcome]]
  BY DEF Prompt!Step
<1>3. /\ run' \in [Workers -> Runs]
           /\ run'[w] = [run[w] EXCEPT !.stage = stage, !.outcome = outcome]
      /\ \A v \in Workers : v # w => run'[v] = run[v]
  BY <1>1, <1>2
<1>4. run[w] \in Runs
  OBVIOUS
<1>5. run'[w].stage = stage /\ run'[w].outcome = outcome /\ run'[w].kind = run[w].kind
  BY <1>3, <1>4 DEF Runs
<1> QED
  BY <1>3, <1>5 DEF Moves

Leaves(w) ==
  /\ run' \in [Workers -> Runs] /\ epoch' = epoch /\ run'[w].stage = "none"
  /\ \A v \in Workers : v # w => run'[v] = run[v]

LEMMA GoneIs ==
  ASSUME run \in [Workers -> Runs], NEW w \in Workers, Prompt!Gone(w)
  PROVE  Leaves(w)
<1>1. Prompt!NoRun \in Runs
  BY DEF Prompt!NoRun, Runs, Prompt!Kinds, Prompt!Outcomes
<1>2. run' \in [Workers -> Runs] /\ run'[w] = Prompt!NoRun
        /\ \A v \in Workers : v # w => run'[v] = run[v]
  BY <1>1 DEF Prompt!Gone
<1> QED
  BY <1>2 DEF Leaves, Prompt!Gone, Prompt!NoRun

LEMMA RequestedIs ==
  ASSUME Prompt!TypeOK, NEW m \in {"ask", "allow"}, Prompt!Requested(m)
  PROVE  permission' \in {permission, m} /\ pendingMode' \in {"none", m}
BY DEF Prompt!TypeOK, Prompt!Requested

LEMMA UIType ==
  ASSUME Prompt!TypeOK
  PROVE  ui \in UIs /\ ui.editor \subseteq Texts /\ run \in [Workers -> Runs]
    /\ queue \subseteq Texts
BY DEF Prompt!TypeOK, UIs, Runs

\* The draft is put aside, or both stay as they are.
Put(u) ==
  \/ EditorOf(u) = {} /\ StashOf(u) = u.editor /\ u.stash = NoDraft
  \/ EditorOf(u) = u.editor /\ StashOf(u) = u.stash

LEMMA PutIs ==
  ASSUME NEW u
  PROVE  Put(u)
BY DEF Put, EditorOf, StashOf

\* What waits is shown again, over a UI u; v is the UI when nothing waits.
Shows(u, over) ==
  \/ over = "approval"
       /\ Ui(ui', EditorOf(u), StashOf(u), u.skill, "approval", u.deferred, u.running)
  \/ over \in {"human", "pause"}
     /\ Ui(ui', u.editor, u.stash, u.skill, over, u.deferred, u.running)
Resumes(u, free) ==
  /\ Ui(ui', u.editor, u.stash, u.skill, u.dialog, u.deferred, TRUE)
  /\ Starts("boundary", free)

LEMMA ReopenedIs ==
  ASSUME Prompt!TypeOK, NEW u \in UIs, NEW v \in UIs,
         Prompt!Reopened(u, v, Prompt!Free, UNCHANGED <<run, epoch>>)
  PROVE  \/ interrupt = "boundary" /\ Resumes(u, Prompt!Free)
         \/ interrupt = "none" /\ ui' = v /\ run' = run /\ epoch' = epoch
         \/ Shows(u, interrupt) /\ run' = run /\ epoch' = epoch
<1>1. run \in [Workers -> Runs] /\ interrupt \in Prompt!Interrupts \cup {"none", "boundary"}
  BY UIType DEF Prompt!TypeOK
<1>2. CASE interrupt = "boundary"
  <2>1. Prompt!Start(u, "boundary", Prompt!Free)
    BY <1>2 DEF Prompt!Reopened
  <2>2. "boundary" \in Prompt!Kinds /\ Prompt!Free \in SUBSET Workers
    BY DEF Prompt!Kinds, Prompt!Free
  <2> QED
    BY <1>1, <1>2, <2>1, <2>2, StartIs DEF Resumes
<1>3. CASE interrupt = "none"
  BY <1>3 DEF Prompt!Reopened
<1>4. CASE interrupt = "approval"
  BY <1>4, WithApprovalIs DEF Prompt!Reopened, Shows
<1>5. CASE interrupt \in {"human", "pause"}
  <2>1. ui' = [u EXCEPT !.dialog = interrupt] /\ run' = run /\ epoch' = epoch
    BY <1>5 DEF Prompt!Reopened
  <2>2. interrupt \in Prompt!Dialogs
    BY <1>5 DEF Prompt!Dialogs, Prompt!Interrupts
  <2> QED
    BY <1>5, <2>1, <2>2, ShownIs DEF Shows
<1> QED
  BY <1>1, <1>2, <1>3, <1>4, <1>5 DEF Prompt!Interrupts

LEMMA ReopenedGone ==
  ASSUME Prompt!TypeOK, NEW u \in UIs, NEW w \in Workers,
         Prompt!Reopened(u, u, {w}, Prompt!Gone(w))
  PROVE  \/ interrupt = "boundary" /\ Resumes(u, {w})
         \/ interrupt = "none" /\ ui' = u /\ Leaves(w)
         \/ Shows(u, interrupt) /\ Leaves(w)
<1>1. run \in [Workers -> Runs] /\ interrupt \in Prompt!Interrupts \cup {"none", "boundary"}
  BY UIType DEF Prompt!TypeOK
<1>2. CASE interrupt = "boundary"
  <2>1. Prompt!Start(u, "boundary", {w})
    BY <1>2 DEF Prompt!Reopened
  <2>2. "boundary" \in Prompt!Kinds /\ {w} \in SUBSET Workers
    BY DEF Prompt!Kinds
  <2> QED
    BY <1>1, <1>2, <2>1, <2>2, StartIs DEF Resumes
<1>3. CASE interrupt = "none"
  BY <1>1, <1>3, GoneIs DEF Prompt!Reopened
<1>4. CASE interrupt = "approval"
  BY <1>1, <1>4, GoneIs, WithApprovalIs DEF Prompt!Reopened, Shows
<1>5. CASE interrupt \in {"human", "pause"}
  <2>1. ui' = [u EXCEPT !.dialog = interrupt] /\ Prompt!Gone(w)
    BY <1>5 DEF Prompt!Reopened
  <2>2. interrupt \in Prompt!Dialogs
    BY <1>5 DEF Prompt!Dialogs, Prompt!Interrupts
  <2> QED
    BY <1>1, <1>5, <2>1, <2>2, GoneIs, ShownIs DEF Shows
<1> QED
  BY <1>1, <1>2, <1>3, <1>4, <1>5 DEF Prompt!Interrupts

LEMMA SnapshotIs ==
  ASSUME Prompt!TypeOK, NEW u \in UIs, Prompt!ApplySnapshot(u, UNCHANGED <<run, epoch>>)
  PROVE  /\ permission' \in {"ask", "allow"} /\ pendingMode' = "none"
         /\ interrupt' \in Prompt!Interrupts \cup {"none", "boundary"}
         /\ \/ interrupt' = "boundary" /\ Resumes(Prompt!ResetView(u), Prompt!Free)
            \/ interrupt' = "none" /\ ui' = Prompt!ResetView(u) /\ run' = run /\ epoch' = epoch
            \/ Shows(Prompt!ResetView(u), interrupt') /\ run' = run /\ epoch' = epoch
<1>1. /\ run \in [Workers -> Runs] /\ interrupt' \in Prompt!Interrupts \cup {"none", "boundary"}
      /\ permission' \in {"ask", "allow"} /\ pendingMode' = "none"
  BY UIType DEF Prompt!ApplySnapshot
<1>2. Prompt!ResetView(u) \in UIs
  BY ResetViewIs DEF Ui
<1>3. CASE interrupt' = "boundary"
  <2>1. Prompt!Start(Prompt!ResetView(u), "boundary", Prompt!Free)
    BY <1>3 DEF Prompt!ApplySnapshot
  <2>2. "boundary" \in Prompt!Kinds /\ Prompt!Free \in SUBSET Workers
    BY DEF Prompt!Kinds, Prompt!Free
  <2> QED
    BY <1>2, <1>1, <1>3, <2>1, <2>2, StartIs DEF Resumes
<1>4. CASE interrupt' = "none"
  BY <1>1, <1>4 DEF Prompt!ApplySnapshot
<1>5. CASE interrupt' = "approval"
  BY <1>2, <1>1, <1>5, WithApprovalIs DEF Prompt!ApplySnapshot, Shows
<1>6. CASE interrupt' \in {"human", "pause"}
  <2>1. ui' = [Prompt!ResetView(u) EXCEPT !.dialog = interrupt'] /\ run' = run /\ epoch' = epoch
    BY <1>6 DEF Prompt!ApplySnapshot
  <2>2. interrupt' \in Prompt!Dialogs
    BY <1>6 DEF Prompt!Dialogs, Prompt!Interrupts
  <2>3. Ui([Prompt!ResetView(u) EXCEPT !.dialog = interrupt'], Prompt!ResetView(u).editor,
          Prompt!ResetView(u).stash,
           Prompt!ResetView(u).skill, interrupt', Prompt!ResetView(u).deferred,
             Prompt!ResetView(u).running)
    BY <1>2, <2>2, ShownIs
  <2> QED
    BY <1>1, <1>6, <2>1, <2>3 DEF Shows
<1> QED
  BY <1>1, <1>3, <1>4, <1>5, <1>6 DEF Prompt!Interrupts

\* The UI once the cancel is over, of a run that is handled.
AfterOf(w) ==
  Prompt!After(w, IF run[w].outcome \in {"cancelled", "pause", "raised"}
           THEN [ui EXCEPT !.running = FALSE] ELSE ui)

\* Whether the UI still says that it works.
Works(w) == run[w].outcome \notin {"cancelled", "pause", "raised"} /\ ui.running

LEMMA AfterOfIs ==
  ASSUME Prompt!TypeOK, NEW w \in Workers
  PROVE  Ui(AfterOf(w), ui.editor, ui.stash, ui.skill, ui.dialog, ui.deferred, Works(w))
<1>1. ui \in UIs
  BY UIType
<1>2. CASE run[w].outcome \in {"cancelled", "pause", "raised"}
  <2>1. [ui EXCEPT !.running = FALSE] \in UIs
    BY <1>1, RunningIs DEF Ui
  <2>2. Ui([ui EXCEPT !.running = FALSE], ui.editor, ui.stash, ui.skill, ui.dialog,
          ui.deferred, FALSE)
    BY <1>1, RunningIs
  <2>3. CASE Prompt!Current(w)
    <3>1. AfterOf(w) = [[ui EXCEPT !.running = FALSE] EXCEPT !.cancelSent = FALSE]
      BY <1>2, <2>3 DEF AfterOf, Prompt!After
    <3> QED
      BY <1>2, <2>1, <2>2, <3>1, CancelSentIs DEF Ui, Works
  <2>4. CASE ~Prompt!Current(w)
    BY <1>2, <2>2, <2>4 DEF AfterOf, Prompt!After, Works
  <2> QED
    BY <2>3, <2>4
<1>3. CASE run[w].outcome \notin {"cancelled", "pause", "raised"}
  BY <1>1, <1>3, CancelSentIs DEF AfterOf, Prompt!After, Ui, Works, Prompt!TypeOK, UIs
<1> QED
  BY <1>2, <1>3

-----------------------------------------------------------------------------
(* Dialogs: the invariant.                                                  *)

\* "Working" is shown of a compaction or of the latest run, and no longer
\* than until its last event or, if it raised, until its end.
RunningWorks ==
  ui.running => \/ compacting
                \/ Prompt!Alive(epoch)
                     /\ (run[epoch].stage = "told" => run[epoch].outcome = "raised")

\* Nothing is in the editor or put aside that was not typed.
OnlyTyped == ui.editor \cup Prompt!Aside(ui.stash) \cup Prompt!Aside(ui.skill) \subseteq typed

PromptSound == Prompt!TypeOK /\ OnlyTyped /\ RunningWorks

\* Of a user who lets one thing end before the next: a run is the only one,
\* beside no switch and under no dialog of a run; what it was started for, or
\* has ended with, is what the session waits for.
RunAlone(w) ==
  Prompt!Alive(w) =>
    /\ w = epoch /\ switch = "none" /\ ui.dialog \notin Prompt!Interrupts \cup {"skill"}
    /\ \/ ui.running \/ run[w].stage = "told"
       \/ run[w].stage = "starting" /\ run[w].kind # "message"
    /\ run[w].stage = "starting" /\ run[w].kind # "message" => interrupt = run[w].kind
    /\ run[w].stage \in {"ended", "told"} =>
         run[w].outcome # "none"
           /\ (run[w].outcome \in Prompt!Interrupts => interrupt = run[w].outcome)
    /\ run[w].stage = "ended" => run[w].outcome # "raised"
    /\ run[w].stage = "told" /\ run[w].outcome = "raised" /\ ~MayRaise => interrupt # "none"
    /\ compacting => /\ run[w].kind # "message"
                     /\ run[w].stage = "starting" \/ (run[w].stage = "told"
                          /\ run[w].outcome = "raised")
RunsAlone == \A w \in Workers : RunAlone(w)

\* A text is put aside only under the dialog that gives it back.
DialogsApart ==
  /\ switch # "none" => ui.dialog = "none"
  /\ ui.dialog \in Prompt!Interrupts => interrupt = ui.dialog
  /\ ui.skill # NoDraft => ui.dialog = "skill"
  /\ ui.dialog = "skill" => ui.editor = {}
  /\ ui.stash # NoDraft => ui.dialog = "approval" /\ ui.editor = {}

ConfirmBack == ~MayRaise => Prompt!ConfirmComesBack

PromptQuiet == RunsAlone /\ DialogsApart /\ Prompt!TypedKept /\ ConfirmBack

\* What a step does not do to a draft put aside, to the mode and to a confirmation.
DraftStep ==
  ui.stash # NoDraft => \/ ui'.stash = ui.stash
                        \/ ui'.stash = NoDraft /\ ui'.editor = ui.stash
AllowStep ==
  /\ permission = "ask" /\ pendingMode # "allow"
  /\ permission' = "allow" \/ pendingMode' = "allow"
  => ui.dialog = "confirm" \/ switch # "none" \/ ui.dialog = "resume"
ConfirmStep ==
  ui.dialog = "confirm" /\ ui'.dialog # "confirm"
  => \A w \in Workers : run[w].stage = "told" => run'[w] = run[w]
StepKeeps == DraftStep /\ AllowStep /\ ConfirmStep

-----------------------------------------------------------------------------
(* Dialogs: every action keeps the invariant.                               *)

\* A letter typed.
LEMMA TypeKeeps ==
  ASSUME PromptSound, NEW t \in Texts, Prompt!Type(t)
  PROVE  PromptSound' /\ StepKeeps /\ (~Hasty /\ PromptQuiet => PromptQuiet')
<1> USE DEF PromptSound
<1>1. ui \in UIs /\ ui.editor \subseteq Texts /\ run \in [Workers -> Runs]
        /\ queue \subseteq Texts
  BY DEF Prompt!TypeOK, UIs, Runs
<1>2. Ui(ui', ui.editor \cup {t}, ui.stash, ui.skill, ui.dialog, ui.deferred, ui.running)
  BY <1>1, EditorIs, ui.editor \cup {t} \in SUBSET Texts DEF Prompt!Type
<1>3. ui.dialog = "none" /\ typed' = typed \cup {t} /\ spent' = spent \ {t}
  BY DEF Prompt!Type
<1>4. UNCHANGED <<queue, run, epoch, interrupt, permission, pendingMode, switch, compacting,
        skillLoading>>
  BY DEF Prompt!Type, Prompt!runVars, Prompt!modeVars, Prompt!bgVars
<1>a. PromptSound'
  BY <1>2, <1>3, <1>4 DEF Prompt!TypeOK, OnlyTyped, UIs, Ui, Prompt!Aside, RunningWorks,
     Prompt!Alive
<1>b. StepKeeps
  BY <1>2, <1>4 DEF DraftStep, Ui, AllowStep, Prompt!TypeOK, ConfirmStep, StepKeeps
<1>c. ASSUME ~Hasty, PromptQuiet PROVE PromptQuiet'
  BY <1>2, <1>3, <1>4, <1>c DEF PromptQuiet, RunsAlone, RunAlone, DialogsApart, Prompt!TypeOK,
     Ui, Prompt!Alive, Prompt!Interrupts, Prompt!TypedKept, Prompt!Aside, ConfirmBack,
     Prompt!ConfirmComesBack
<1> QED
  BY <1>a, <1>b, <1>c

\* The queue taken back.
LEMMA DequeueKeeps ==
  ASSUME PromptSound, Prompt!Dequeue
  PROVE  PromptSound' /\ StepKeeps /\ (~Hasty /\ PromptQuiet => PromptQuiet')
<1> USE DEF PromptSound
<1>1. ui \in UIs /\ ui.editor \subseteq Texts /\ run \in [Workers -> Runs]
        /\ queue \subseteq Texts
  BY DEF Prompt!TypeOK, UIs, Runs
<1>2. Ui(ui', ui.editor \cup queue, ui.stash, ui.skill, ui.dialog, ui.deferred, ui.running)
  BY <1>1, TakenBackIs DEF Prompt!Dequeue
<1>3. (Hasty \/ ui.dialog \notin {"approval", "skill"}) /\ queue' = {}
  BY DEF Prompt!Dequeue
<1>4. UNCHANGED <<typed, spent, run, epoch, interrupt, permission, pendingMode, switch,
        compacting, skillLoading>>
  BY DEF Prompt!Dequeue, Prompt!runVars, Prompt!modeVars, Prompt!bgVars
<1>a. PromptSound'
  BY <1>2, <1>3, <1>4 DEF Prompt!TypeOK, OnlyTyped, UIs, Ui, Prompt!Aside, RunningWorks,
     Prompt!Alive
<1>b. StepKeeps
  BY <1>2, <1>4 DEF DraftStep, Ui, AllowStep, Prompt!TypeOK, ConfirmStep, StepKeeps
<1>c. ASSUME ~Hasty, PromptQuiet PROVE PromptQuiet'
  BY <1>2, <1>3, <1>4, <1>c DEF PromptQuiet, RunsAlone, RunAlone, DialogsApart, Prompt!TypeOK,
     Ui, Prompt!Alive, Prompt!Interrupts, Prompt!TypedKept, Prompt!Aside, ConfirmBack,
     Prompt!ConfirmComesBack
<1> QED
  BY <1>a, <1>b, <1>c

\* A wait for a session given up.
LEMMA CancelWaitKeeps ==
  ASSUME PromptSound, Prompt!CancelWait
  PROVE  PromptSound' /\ StepKeeps /\ (~Hasty /\ PromptQuiet => PromptQuiet')
<1> USE DEF PromptSound
<1>1. ui \in UIs /\ ui.editor \subseteq Texts /\ run \in [Workers -> Runs]
        /\ queue \subseteq Texts
  BY DEF Prompt!TypeOK, UIs, Runs
<1>2. Ui(ui', ui.editor, ui.stash, ui.skill, "resume", ui.deferred, ui.running)
  BY <1>1, ShownIs DEF Prompt!CancelWait, Prompt!Shown, Prompt!Dialogs, Prompt!Pickers
<1>3. switch = "waiting" /\ switch' = "none"
  BY DEF Prompt!CancelWait
<1>4. UNCHANGED <<typed, spent, queue, run, epoch, interrupt, permission, pendingMode,
        compacting, skillLoading>>
  BY DEF Prompt!CancelWait, Prompt!runVars, Prompt!modeVars
<1>a. PromptSound'
  BY <1>2, <1>3, <1>4 DEF Prompt!TypeOK, OnlyTyped, UIs, Ui, Prompt!Aside, RunningWorks,
     Prompt!Alive
<1>b. StepKeeps
  BY <1>2, <1>4 DEF DraftStep, Ui, AllowStep, Prompt!TypeOK, ConfirmStep, StepKeeps
<1>c. ASSUME ~Hasty, PromptQuiet PROVE PromptQuiet'
  BY <1>2, <1>3, <1>4, <1>c DEF PromptQuiet, RunsAlone, RunAlone, DialogsApart, Prompt!TypeOK,
     Ui, Prompt!Alive, Prompt!Interrupts, Prompt!TypedKept, Prompt!Aside, ConfirmBack,
     Prompt!ConfirmComesBack
<1> QED
  BY <1>a, <1>b, <1>c

\* The editor cleared.
LEMMA ClearInputKeeps ==
  ASSUME PromptSound, Prompt!ClearInput
  PROVE  PromptSound' /\ StepKeeps /\ (~Hasty /\ PromptQuiet => PromptQuiet')
<1> USE DEF PromptSound
<1>1. ui \in UIs /\ ui.editor \subseteq Texts /\ run \in [Workers -> Runs]
        /\ queue \subseteq Texts
  BY DEF Prompt!TypeOK, UIs, Runs
<1>2. Ui(ui', {}, ui.stash, ui.skill, ui.dialog, ui.deferred, ui.running)
  BY <1>1, EditorIs DEF Prompt!ClearInput
<1>3. ui.dialog = "none" /\ spent' = spent \cup ui.editor
  BY DEF Prompt!ClearInput
<1>4. UNCHANGED <<typed, queue, run, epoch, interrupt, permission, pendingMode, switch,
        compacting, skillLoading>>
  BY DEF Prompt!ClearInput, Prompt!runVars, Prompt!modeVars, Prompt!bgVars
<1>a. PromptSound'
  BY <1>2, <1>3, <1>4 DEF Prompt!TypeOK, OnlyTyped, UIs, Ui, Prompt!Aside, RunningWorks,
     Prompt!Alive
<1>b. StepKeeps
  BY <1>2, <1>4 DEF DraftStep, Ui, AllowStep, Prompt!TypeOK, ConfirmStep, StepKeeps
<1>c. ASSUME ~Hasty, PromptQuiet PROVE PromptQuiet'
  BY <1>2, <1>3, <1>4, <1>c DEF PromptQuiet, RunsAlone, RunAlone, DialogsApart, Prompt!TypeOK,
     Ui, Prompt!Alive, Prompt!Interrupts, Prompt!TypedKept, Prompt!Aside, ConfirmBack,
     Prompt!ConfirmComesBack
<1> QED
  BY <1>a, <1>b, <1>c

\* A picker opened.
LEMMA OpenPickerKeeps ==
  ASSUME PromptSound, NEW d \in {"source", "model", "effort", "permission", "sandbox"},
    Prompt!OpenPicker(d)
  PROVE  PromptSound' /\ StepKeeps /\ (~Hasty /\ PromptQuiet => PromptQuiet')
<1> USE DEF PromptSound
<1>1. ui \in UIs /\ ui.editor \subseteq Texts /\ run \in [Workers -> Runs]
        /\ queue \subseteq Texts
  BY DEF Prompt!TypeOK, UIs, Runs
<1>2. Ui(ui', ui.editor, ui.stash, ui.skill, d, ui.deferred, ui.running)
  BY <1>1, ShownIs DEF Prompt!OpenPicker, Prompt!Shown, Prompt!Dialogs, Prompt!Pickers
<1>3. Prompt!Command /\ ~ui.running
  BY DEF Prompt!OpenPicker
<1>4. UNCHANGED <<typed, spent, queue, run, epoch, interrupt, permission, pendingMode,
        switch, compacting, skillLoading>>
  BY DEF Prompt!OpenPicker, Prompt!runVars, Prompt!modeVars, Prompt!bgVars
<1>a. PromptSound'
  BY <1>2, <1>4 DEF Prompt!TypeOK, OnlyTyped, UIs, Ui, Prompt!Aside, RunningWorks,
     Prompt!Alive
<1>b. StepKeeps
  BY <1>2, <1>4 DEF DraftStep, Ui, AllowStep, Prompt!TypeOK, ConfirmStep, StepKeeps
<1>c. ASSUME ~Hasty, PromptQuiet PROVE PromptQuiet'
  BY <1>2, <1>3, <1>4, <1>c DEF PromptQuiet, RunsAlone, RunAlone, DialogsApart, Prompt!TypeOK,
     Ui, Prompt!Alive, Prompt!Interrupts, Prompt!Command, Prompt!Patient, Prompt!Calm,
     Prompt!TypedKept, Prompt!Aside, ConfirmBack, Prompt!ConfirmComesBack
<1> QED
  BY <1>a, <1>b, <1>c

\* A catalog asked for.
LEMMA SkillKeeps ==
  ASSUME PromptSound, Prompt!Skill
  PROVE  PromptSound' /\ StepKeeps /\ (~Hasty /\ PromptQuiet => PromptQuiet')
<1> USE DEF PromptSound
<1>1. UNCHANGED <<ui, typed, spent, queue, run, epoch, interrupt, permission, pendingMode,
        switch, compacting>>
  BY DEF Prompt!Skill, Prompt!runVars, Prompt!modeVars
<1>2. skillLoading' = TRUE
  BY DEF Prompt!Skill
<1>a. PromptSound'
  BY <1>1, <1>2 DEF Prompt!TypeOK, OnlyTyped, Prompt!Aside, RunningWorks, Prompt!Alive
<1>b. StepKeeps
  BY <1>1 DEF DraftStep, AllowStep, Prompt!TypeOK, ConfirmStep, StepKeeps
<1>c. ASSUME ~Hasty, PromptQuiet PROVE PromptQuiet'
  BY <1>1, <1>c DEF PromptQuiet, RunsAlone, RunAlone, DialogsApart, Prompt!TypeOK,
     Prompt!Alive, Prompt!Interrupts, Prompt!TypedKept, Prompt!Aside, ConfirmBack,
     Prompt!ConfirmComesBack
<1> QED
  BY <1>a, <1>b, <1>c

\* A compaction over.
LEMMA CompactedKeeps ==
  ASSUME PromptSound, Prompt!Compacted
  PROVE  PromptSound' /\ StepKeeps /\ (~Hasty /\ PromptQuiet => PromptQuiet')
<1> USE DEF PromptSound
<1>1. ui \in UIs /\ ui.editor \subseteq Texts /\ run \in [Workers -> Runs]
        /\ queue \subseteq Texts
  BY DEF Prompt!TypeOK, UIs, Runs
<1>2. Ui(ui', ui.editor, ui.stash, ui.skill, ui.dialog, ui.deferred, FALSE)
  BY <1>1, RunningIs DEF Prompt!Compacted
<1>3. compacting /\ compacting' = FALSE
  BY DEF Prompt!Compacted
<1>4. UNCHANGED <<typed, spent, queue, run, epoch, interrupt, permission, pendingMode,
        switch, skillLoading>>
  BY DEF Prompt!Compacted, Prompt!runVars, Prompt!modeVars
<1>a. PromptSound'
  BY <1>2, <1>3, <1>4 DEF Prompt!TypeOK, OnlyTyped, UIs, Ui, Prompt!Aside, RunningWorks,
     Prompt!Alive
<1>b. StepKeeps
  BY <1>2, <1>4 DEF DraftStep, Ui, AllowStep, Prompt!TypeOK, ConfirmStep, StepKeeps
<1>c. ASSUME ~Hasty, PromptQuiet PROVE PromptQuiet'
  BY <1>2, <1>3, <1>4, <1>c DEF PromptQuiet, RunsAlone, RunAlone, DialogsApart, Prompt!TypeOK,
     Ui, Prompt!Alive, Prompt!Interrupts, Prompt!TypedKept, Prompt!Aside, ConfirmBack,
     Prompt!ConfirmComesBack
<1> QED
  BY <1>a, <1>b, <1>c

\* A compaction asked for.
LEMMA CompactKeeps ==
  ASSUME PromptSound, Prompt!Compact
  PROVE  PromptSound' /\ StepKeeps /\ (~Hasty /\ PromptQuiet => PromptQuiet')
<1> USE DEF PromptSound
<1>1. ui \in UIs /\ ui.editor \subseteq Texts /\ run \in [Workers -> Runs]
        /\ queue \subseteq Texts
  BY DEF Prompt!TypeOK, UIs, Runs
<1>2. Ui(ui', ui.editor, ui.stash, ui.skill, ui.dialog, ui.deferred, TRUE)
  BY <1>1, RunningIs DEF Prompt!Compact
<1>3. compacting' = TRUE /\ Prompt!Command /\ ~ui.running
  BY DEF Prompt!Compact
<1>4. UNCHANGED <<typed, spent, queue, run, epoch, interrupt, permission, pendingMode,
        switch, skillLoading>>
  BY DEF Prompt!Compact, Prompt!runVars, Prompt!modeVars
<1>a. PromptSound'
  BY <1>2, <1>3, <1>4 DEF Prompt!TypeOK, OnlyTyped, UIs, Ui, Prompt!Aside, RunningWorks,
     Prompt!Alive
<1>b. StepKeeps
  BY <1>2, <1>4 DEF DraftStep, Ui, AllowStep, Prompt!TypeOK, ConfirmStep, StepKeeps
<1>c. ASSUME ~Hasty, PromptQuiet PROVE PromptQuiet'
  BY <1>2, <1>3, <1>4, <1>c DEF PromptQuiet, RunsAlone, RunAlone, DialogsApart, Prompt!TypeOK,
     Ui, Prompt!Alive, Prompt!Interrupts, Prompt!Command, Prompt!Patient, Prompt!Calm,
     Prompt!TypedKept, Prompt!Aside, ConfirmBack, Prompt!ConfirmComesBack
<1> QED
  BY <1>a, <1>b, <1>c

\* A run's dialog left by Esc: the draft comes back, and so does ALLOW.
LEMMA EscInterruptKeeps ==
  ASSUME PromptSound, Prompt!EscInterrupt
  PROVE  PromptSound' /\ StepKeeps /\ (~Hasty /\ PromptQuiet => PromptQuiet')
<1> USE DEF PromptSound
<1>1. ui \in UIs /\ ui.editor \subseteq Texts /\ run \in [Workers -> Runs]
        /\ queue \subseteq Texts
  BY DEF Prompt!TypeOK, UIs, Runs
<1>2. ui.dialog \in Prompt!Interrupts
  BY DEF Prompt!EscInterrupt
<1>3. UNCHANGED <<typed, spent, queue, run, epoch, interrupt, permission, pendingMode,
        switch, compacting, skillLoading>>
  BY DEF Prompt!EscInterrupt, Prompt!runVars, Prompt!modeVars, Prompt!bgVars
<1>4. CASE ui.dialog = "approval"
  <2>1. Ui(Prompt!Restored(ui), IF ui.stash = NoDraft THEN ui.editor ELSE ui.stash, NoDraft,
          ui.skill, ui.dialog, ui.deferred, ui.running)
    BY <1>1, RestoredIs
  <2>2. Prompt!Restored(ui) \in UIs /\ ui' = Prompt!Dismissed(Prompt!Restored(ui))
    BY <1>4, <2>1 DEF Ui, Prompt!EscInterrupt
  <2>3. Ui(ui', IF ui.stash = NoDraft THEN ui.editor ELSE ui.stash, NoDraft, ui.skill,
          IF ui.deferred THEN "confirm" ELSE "none", FALSE, FALSE)
    BY <2>1, <2>2, DismissedIs DEF Ui
  <2>a. PromptSound'
    BY <1>3, <2>3 DEF Prompt!TypeOK, OnlyTyped, UIs, Ui, Prompt!Aside, RunningWorks,
       Prompt!Alive
  <2>b. StepKeeps
    BY <1>3, <2>3 DEF DraftStep, Ui, AllowStep, Prompt!TypeOK, ConfirmStep, StepKeeps
  <2>c. ASSUME ~Hasty, PromptQuiet PROVE PromptQuiet'
    BY <1>3, <1>4, <2>3, <2>c DEF PromptQuiet, RunsAlone, RunAlone, DialogsApart,
       Prompt!TypeOK, Ui, Prompt!Alive, Prompt!Interrupts, Prompt!TypedKept, Prompt!Aside,
       ConfirmBack, Prompt!ConfirmComesBack
  <2> QED
    BY <2>a, <2>b, <2>c
<1>5. CASE ui.dialog # "approval"
  <2>1. ui' = Prompt!Dismissed(ui)
    BY <1>5 DEF Prompt!EscInterrupt
  <2>2. Ui(ui', ui.editor, ui.stash, ui.skill, IF ui.deferred THEN "confirm" ELSE "none",
          FALSE, FALSE)
    BY <1>1, <2>1, DismissedIs
  <2>a. PromptSound'
    BY <1>3, <2>2 DEF Prompt!TypeOK, OnlyTyped, UIs, Ui, Prompt!Aside, RunningWorks,
       Prompt!Alive
  <2>b. StepKeeps
    BY <1>3, <2>2 DEF DraftStep, Ui, AllowStep, Prompt!TypeOK, ConfirmStep, StepKeeps
  <2>c. ASSUME ~Hasty, PromptQuiet PROVE PromptQuiet'
    BY <1>2, <1>3, <1>5, <2>2, <2>c DEF PromptQuiet, RunsAlone, RunAlone, DialogsApart,
       Prompt!TypeOK, Ui, Prompt!Alive, Prompt!Interrupts, Prompt!TypedKept, Prompt!Aside,
       ConfirmBack, Prompt!ConfirmComesBack
  <2> QED
    BY <2>a, <2>b, <2>c
<1> QED
  BY <1>4, <1>5

\* A picker left by Esc.
LEMMA EscPickerKeeps ==
  ASSUME PromptSound, Prompt!EscPicker
  PROVE  PromptSound' /\ StepKeeps /\ (~Hasty /\ PromptQuiet => PromptQuiet')
<1> USE DEF PromptSound
<1>1. ui \in UIs /\ ui.editor \subseteq Texts /\ run \in [Workers -> Runs]
        /\ queue \subseteq Texts
  BY DEF Prompt!TypeOK, UIs, Runs
<1>2. PICK d \in Prompt!Back(ui.dialog) : ui' = [ui EXCEPT !.dialog = d,
             !.skill = IF ui.dialog = "skill" THEN NoDraft ELSE @,
             !.editor = IF ui.dialog = "skill" THEN IF ui.skill = NoDraft THEN {}
             ELSE ui.skill ELSE @]
  BY DEF Prompt!EscPicker
<1>3. d \in {"model", "source", "none"} /\ d \in Prompt!Dialogs
        /\ (ui.dialog = "skill" => d = "none")
  BY <1>2 DEF Prompt!Back, Prompt!Dialogs, Prompt!Pickers, Prompt!EscPicker
<1>4. Ui(ui', IF ui.dialog # "skill" THEN ui.editor ELSE IF ui.skill = NoDraft THEN {}
        ELSE ui.skill, ui.stash, IF ui.dialog = "skill" THEN NoDraft ELSE ui.skill, d,
        ui.deferred, ui.running)
  BY <1>1, <1>2, <1>3, SkillIs DEF UIs, Prompt!Draft
<1>5. ui.dialog \in Prompt!Pickers
  BY DEF Prompt!EscPicker
<1>6. UNCHANGED <<typed, spent, queue, run, epoch, interrupt, permission, pendingMode,
        switch, compacting, skillLoading>>
  BY DEF Prompt!EscPicker, Prompt!runVars, Prompt!modeVars, Prompt!bgVars
<1>a. PromptSound'
  BY <1>4, <1>6 DEF Prompt!TypeOK, OnlyTyped, UIs, Ui, Prompt!Aside, RunningWorks,
     Prompt!Alive
<1>b. StepKeeps
  BY <1>4, <1>6 DEF DraftStep, Ui, AllowStep, Prompt!TypeOK, ConfirmStep, StepKeeps
<1>c. ASSUME ~Hasty, PromptQuiet PROVE PromptQuiet'
  BY <1>3, <1>4, <1>5, <1>6, <1>c DEF PromptQuiet, RunsAlone, RunAlone, DialogsApart,
     Prompt!TypeOK, Ui, Prompt!Alive, Prompt!Interrupts, Prompt!Pickers, Prompt!TypedKept,
     Prompt!Aside, ConfirmBack, Prompt!ConfirmComesBack
<1> QED
  BY <1>a, <1>b, <1>c

\* A skill chosen.
LEMMA EnterSkillKeeps ==
  ASSUME PromptSound, Prompt!EnterSkill
  PROVE  PromptSound' /\ StepKeeps /\ (~Hasty /\ PromptQuiet => PromptQuiet')
<1> USE DEF PromptSound
<1>1. ui \in UIs /\ ui.editor \subseteq Texts /\ run \in [Workers -> Runs]
        /\ queue \subseteq Texts
  BY DEF Prompt!TypeOK, UIs, Runs
<1>2. Ui(ui', IF ui.skill = NoDraft THEN {} ELSE ui.skill, ui.stash, NoDraft, "none",
        ui.deferred, ui.running)
  BY <1>1, SkillIs DEF Prompt!EnterSkill, UIs, Prompt!Draft, Prompt!Dialogs
<1>3. ui.dialog = "skill"
  BY DEF Prompt!EnterSkill
<1>4. UNCHANGED <<typed, spent, queue, run, epoch, interrupt, permission, pendingMode,
        switch, compacting, skillLoading>>
  BY DEF Prompt!EnterSkill, Prompt!runVars, Prompt!modeVars, Prompt!bgVars
<1>a. PromptSound'
  BY <1>2, <1>4 DEF Prompt!TypeOK, OnlyTyped, UIs, Ui, Prompt!Aside, RunningWorks,
     Prompt!Alive
<1>b. StepKeeps
  BY <1>2, <1>4 DEF DraftStep, Ui, AllowStep, Prompt!TypeOK, ConfirmStep, StepKeeps
<1>c. ASSUME ~Hasty, PromptQuiet PROVE PromptQuiet'
  BY <1>2, <1>3, <1>4, <1>c DEF PromptQuiet, RunsAlone, RunAlone, DialogsApart, Prompt!TypeOK,
     Ui, Prompt!Alive, Prompt!Interrupts, Prompt!TypedKept, Prompt!Aside, ConfirmBack,
     Prompt!ConfirmComesBack
<1> QED
  BY <1>a, <1>b, <1>c

\* A pause that stays.
LEMMA StayPausedKeeps ==
  ASSUME PromptSound, Prompt!StayPaused
  PROVE  PromptSound' /\ StepKeeps /\ (~Hasty /\ PromptQuiet => PromptQuiet')
<1> USE DEF PromptSound
<1>1. ui \in UIs /\ ui.editor \subseteq Texts /\ run \in [Workers -> Runs]
        /\ queue \subseteq Texts
  BY DEF Prompt!TypeOK, UIs, Runs
<1>2. Ui([ui EXCEPT !.editor = {}], {}, ui.stash, ui.skill, ui.dialog, ui.deferred, ui.running)
  BY <1>1, EditorIs
<1>3. [ui EXCEPT !.editor = {}] \in UIs /\ ui' = Prompt!Dismissed([ui EXCEPT !.editor = {}])
  BY <1>2 DEF Prompt!StayPaused, Ui
<1>4. Ui(ui', {}, ui.stash, ui.skill, IF ui.deferred THEN "confirm" ELSE "none", FALSE, FALSE)
  BY <1>2, <1>3, DismissedIs DEF Ui
<1>5. ui.dialog = "pause" /\ spent' = spent \cup ui.editor
  BY DEF Prompt!StayPaused, Prompt!ToHistory
<1>6. UNCHANGED <<typed, queue, run, epoch, interrupt, permission, pendingMode, switch,
        compacting, skillLoading>>
  BY DEF Prompt!StayPaused, Prompt!runVars, Prompt!modeVars, Prompt!bgVars
<1>a. PromptSound'
  BY <1>4, <1>5, <1>6 DEF Prompt!TypeOK, OnlyTyped, UIs, Ui, Prompt!Aside, RunningWorks,
     Prompt!Alive
<1>b. StepKeeps
  BY <1>4, <1>6 DEF DraftStep, Ui, AllowStep, Prompt!TypeOK, ConfirmStep, StepKeeps
<1>c. ASSUME ~Hasty, PromptQuiet PROVE PromptQuiet'
  BY <1>4, <1>5, <1>6, <1>c DEF PromptQuiet, RunsAlone, RunAlone, DialogsApart, Prompt!TypeOK,
     Ui, Prompt!Alive, Prompt!Interrupts, Prompt!TypedKept, Prompt!Aside, ConfirmBack,
     Prompt!ConfirmComesBack
<1> QED
  BY <1>a, <1>b, <1>c

\* A text answer that is not the last, or is refused.
LEMMA AnswerFieldKeeps ==
  ASSUME PromptSound, Prompt!AnswerField
  PROVE  PromptSound' /\ StepKeeps /\ (~Hasty /\ PromptQuiet => PromptQuiet')
<1> USE DEF PromptSound
<1>1. ui \in UIs /\ ui.editor \subseteq Texts /\ run \in [Workers -> Runs]
        /\ queue \subseteq Texts
  BY DEF Prompt!TypeOK, UIs, Runs
<1>2. Ui(ui', {}, ui.stash, ui.skill, ui.dialog, ui.deferred, ui.running)
  BY <1>1, EditorIs DEF Prompt!AnswerField
<1>3. ui.dialog = "human" /\ spent' = spent \cup ui.editor
  BY DEF Prompt!AnswerField, Prompt!ToHistory
<1>4. UNCHANGED <<typed, queue, run, epoch, interrupt, permission, pendingMode, switch,
        compacting, skillLoading>>
  BY DEF Prompt!AnswerField, Prompt!runVars, Prompt!modeVars, Prompt!bgVars
<1>a. PromptSound'
  BY <1>2, <1>3, <1>4 DEF Prompt!TypeOK, OnlyTyped, UIs, Ui, Prompt!Aside, RunningWorks,
     Prompt!Alive
<1>b. StepKeeps
  BY <1>2, <1>4 DEF DraftStep, Ui, AllowStep, Prompt!TypeOK, ConfirmStep, StepKeeps
<1>c. ASSUME ~Hasty, PromptQuiet PROVE PromptQuiet'
  BY <1>2, <1>3, <1>4, <1>c DEF PromptQuiet, RunsAlone, RunAlone, DialogsApart, Prompt!TypeOK,
     Ui, Prompt!Alive, Prompt!Interrupts, Prompt!TypedKept, Prompt!Aside, ConfirmBack,
     Prompt!ConfirmComesBack
<1> QED
  BY <1>a, <1>b, <1>c

\* The editor cleared within a question.
LEMMA ClearAnswerKeeps ==
  ASSUME PromptSound, Prompt!ClearAnswer
  PROVE  PromptSound' /\ StepKeeps /\ (~Hasty /\ PromptQuiet => PromptQuiet')
<1> USE DEF PromptSound
<1>1. ui \in UIs /\ ui.editor \subseteq Texts /\ run \in [Workers -> Runs]
        /\ queue \subseteq Texts
  BY DEF Prompt!TypeOK, UIs, Runs
<1>2. Ui(ui', {}, ui.stash, ui.skill, ui.dialog, ui.deferred, ui.running)
  BY <1>1, EditorIs DEF Prompt!ClearAnswer
<1>3. ui.dialog = "human" /\ spent' = spent \cup ui.editor
  BY DEF Prompt!ClearAnswer
<1>4. UNCHANGED <<typed, queue, run, epoch, interrupt, permission, pendingMode, switch,
        compacting, skillLoading>>
  BY DEF Prompt!ClearAnswer, Prompt!runVars, Prompt!modeVars, Prompt!bgVars
<1>a. PromptSound'
  BY <1>2, <1>3, <1>4 DEF Prompt!TypeOK, OnlyTyped, UIs, Ui, Prompt!Aside, RunningWorks,
     Prompt!Alive
<1>b. StepKeeps
  BY <1>2, <1>4 DEF DraftStep, Ui, AllowStep, Prompt!TypeOK, ConfirmStep, StepKeeps
<1>c. ASSUME ~Hasty, PromptQuiet PROVE PromptQuiet'
  BY <1>2, <1>3, <1>4, <1>c DEF PromptQuiet, RunsAlone, RunAlone, DialogsApart, Prompt!TypeOK,
     Ui, Prompt!Alive, Prompt!Interrupts, Prompt!TypedKept, Prompt!Aside, ConfirmBack,
     Prompt!ConfirmComesBack
<1> QED
  BY <1>a, <1>b, <1>c

\* A choice made in a picker, and the next one.
LEMMA EnterPickerKeeps ==
  ASSUME PromptSound, Prompt!EnterPicker
  PROVE  PromptSound' /\ StepKeeps /\ (~Hasty /\ PromptQuiet => PromptQuiet')
<1> USE DEF PromptSound
<1>1. ui \in UIs /\ ui.editor \subseteq Texts /\ run \in [Workers -> Runs]
        /\ queue \subseteq Texts
  BY DEF Prompt!TypeOK, UIs, Runs
<1>2. ui.dialog \in {"source", "model", "effort", "sandbox"} /\ spent' = spent \cup ui.editor
  BY DEF Prompt!EnterPicker, Prompt!ToHistory
<1>3. Prompt!Onward(ui.dialog) \in {"model", "effort", "none"}
        /\ Prompt!Onward(ui.dialog) \in Prompt!Dialogs
  BY <1>2 DEF Prompt!Onward, Prompt!Dialogs, Prompt!Pickers
<1>4. Ui(ui', {}, ui.stash, ui.skill, Prompt!Onward(ui.dialog), ui.deferred, ui.running)
  BY <1>1, <1>3, AcceptedIs, ShownIs DEF Prompt!EnterPicker, Ui
<1>5. UNCHANGED <<typed, queue, run, epoch, interrupt, permission, pendingMode, switch,
        compacting, skillLoading>>
  BY DEF Prompt!EnterPicker, Prompt!runVars, Prompt!modeVars, Prompt!bgVars
<1>a. PromptSound'
  BY <1>2, <1>4, <1>5 DEF Prompt!TypeOK, OnlyTyped, UIs, Ui, Prompt!Aside, RunningWorks,
     Prompt!Alive
<1>b. StepKeeps
  BY <1>4, <1>5 DEF DraftStep, Ui, AllowStep, Prompt!TypeOK, ConfirmStep, StepKeeps
<1>c. ASSUME ~Hasty, PromptQuiet PROVE PromptQuiet'
  BY <1>2, <1>3, <1>4, <1>5, <1>c DEF PromptQuiet, RunsAlone, RunAlone, DialogsApart,
     Prompt!TypeOK, Ui, Prompt!Alive, Prompt!Interrupts, Prompt!TypedKept, Prompt!Aside,
     ConfirmBack, Prompt!ConfirmComesBack
<1> QED
  BY <1>a, <1>b, <1>c

\* /permission with a mode.
LEMMA PermissionCommandKeeps ==
  ASSUME PromptSound, NEW m \in {"ask", "allow"}, Prompt!PermissionCommand(m)
  PROVE  PromptSound' /\ StepKeeps /\ (~Hasty /\ PromptQuiet => PromptQuiet')
<1> USE DEF PromptSound
<1>1. ui \in UIs /\ ui.editor \subseteq Texts /\ run \in [Workers -> Runs]
        /\ queue \subseteq Texts
  BY DEF Prompt!TypeOK, UIs, Runs
<1>2. Prompt!Command
  BY DEF Prompt!PermissionCommand
<1>3. UNCHANGED <<typed, spent, queue, run, epoch, interrupt, switch, compacting, skillLoading>>
  BY DEF Prompt!PermissionCommand, Prompt!runVars, Prompt!modeVars, Prompt!bgVars
<1>4. CASE Prompt!NeedsConfirm(m)
  <2>1. Ui(ui', ui.editor, ui.stash, ui.skill, "confirm", ui.deferred, ui.running)
    BY <1>1, <1>4, ShownIs DEF Prompt!PermissionCommand, Prompt!Shown, Prompt!Dialogs
  <2>2. UNCHANGED <<permission, pendingMode>>
    BY <1>4 DEF Prompt!PermissionCommand, Prompt!modeVars
  <2>a. PromptSound'
    BY <1>3, <2>1, <2>2 DEF Prompt!TypeOK, OnlyTyped, UIs, Ui, Prompt!Aside, RunningWorks,
       Prompt!Alive
  <2>b. StepKeeps
    BY <2>1, <2>2 DEF DraftStep, Ui, AllowStep, Prompt!TypeOK, ConfirmStep, StepKeeps
  <2>c. ASSUME ~Hasty, PromptQuiet PROVE PromptQuiet'
    BY <1>2, <1>3, <2>1, <2>c DEF PromptQuiet, RunsAlone, RunAlone, DialogsApart,
       Prompt!TypeOK, Ui, Prompt!Alive, Prompt!Interrupts, Prompt!Command, Prompt!Patient,
       Prompt!Calm, Prompt!TypedKept, Prompt!Aside, ConfirmBack, Prompt!ConfirmComesBack
  <2> QED
    BY <2>a, <2>b, <2>c
<1>5. CASE ~Prompt!NeedsConfirm(m)
  <2>1. Ui(ui', ui.editor, ui.stash, ui.skill, ui.dialog, ui.deferred, ui.running)
    BY <1>1, <1>5 DEF Prompt!PermissionCommand, Ui
  <2>2. permission' \in {permission, m} /\ pendingMode' \in {"none", m}
    BY <1>5, RequestedIs DEF Prompt!PermissionCommand
  <2>a. PromptSound'
    BY <1>3, <2>1, <2>2 DEF Prompt!TypeOK, OnlyTyped, UIs, Ui, Prompt!Aside, RunningWorks,
       Prompt!Alive
  <2>b. StepKeeps
    BY <1>5, <2>1, <2>2 DEF DraftStep, Ui, AllowStep, Prompt!TypeOK, Prompt!NeedsConfirm,
       ConfirmStep, StepKeeps
  <2>c. ASSUME ~Hasty, PromptQuiet PROVE PromptQuiet'
    BY <1>3, <2>1, <2>c DEF PromptQuiet, RunsAlone, RunAlone, DialogsApart, Prompt!TypeOK, Ui,
       Prompt!Alive, Prompt!Interrupts, Prompt!TypedKept, Prompt!Aside, ConfirmBack,
       Prompt!ConfirmComesBack
  <2> QED
    BY <2>a, <2>b, <2>c
<1> QED
  BY <1>4, <1>5

\* A mode chosen in the picker.
LEMMA EnterPermissionKeeps ==
  ASSUME PromptSound, NEW m \in {"ask", "allow"}, Prompt!EnterPermission(m)
  PROVE  PromptSound' /\ StepKeeps /\ (~Hasty /\ PromptQuiet => PromptQuiet')
<1> USE DEF PromptSound
<1>1. ui \in UIs /\ ui.editor \subseteq Texts /\ run \in [Workers -> Runs]
        /\ queue \subseteq Texts
  BY DEF Prompt!TypeOK, UIs, Runs
<1>2. Ui(Prompt!Accepted, {}, ui.stash, ui.skill, "none", ui.deferred, ui.running)
  BY <1>1, AcceptedIs
<1>3. Prompt!Accepted \in UIs
  BY <1>2 DEF Ui
<1>4. ui.dialog = "permission" /\ spent' = spent \cup ui.editor
  BY DEF Prompt!EnterPermission, Prompt!ToHistory
<1>5. UNCHANGED <<typed, queue, run, epoch, interrupt, switch, compacting, skillLoading>>
  BY DEF Prompt!EnterPermission, Prompt!runVars, Prompt!modeVars, Prompt!bgVars
<1>6. CASE Prompt!NeedsConfirm(m)
  <2>1. ui' = [Prompt!Accepted EXCEPT !.dialog = "confirm"]
    BY <1>6 DEF Prompt!EnterPermission
  <2>2. Ui(ui', {}, ui.stash, ui.skill, "confirm", ui.deferred, ui.running)
    BY <1>2, <1>3, <2>1, ShownIs DEF Prompt!Dialogs, Ui
  <2>3. UNCHANGED <<permission, pendingMode>>
    BY <1>6 DEF Prompt!EnterPermission, Prompt!modeVars
  <2>a. PromptSound'
    BY <1>4, <1>5, <2>2, <2>3 DEF Prompt!TypeOK, OnlyTyped, UIs, Ui, Prompt!Aside,
       RunningWorks, Prompt!Alive
  <2>b. StepKeeps
    BY <2>2, <2>3 DEF DraftStep, Ui, AllowStep, Prompt!TypeOK, ConfirmStep, StepKeeps
  <2>c. ASSUME ~Hasty, PromptQuiet PROVE PromptQuiet'
    BY <1>4, <1>5, <2>2, <2>c DEF PromptQuiet, RunsAlone, RunAlone, DialogsApart,
       Prompt!TypeOK, Ui, Prompt!Alive, Prompt!Interrupts, Prompt!TypedKept, Prompt!Aside,
       ConfirmBack, Prompt!ConfirmComesBack
  <2> QED
    BY <2>a, <2>b, <2>c
<1>7. CASE ~Prompt!NeedsConfirm(m)
  <2>1. Ui(ui', {}, ui.stash, ui.skill, "none", ui.deferred, ui.running)
    BY <1>2, <1>7 DEF Prompt!EnterPermission, Ui
  <2>2. permission' \in {permission, m} /\ pendingMode' \in {"none", m}
    BY <1>7, RequestedIs DEF Prompt!EnterPermission
  <2>a. PromptSound'
    BY <1>4, <1>5, <2>1, <2>2 DEF Prompt!TypeOK, OnlyTyped, UIs, Ui, Prompt!Aside,
       RunningWorks, Prompt!Alive
  <2>b. StepKeeps
    BY <1>5, <1>7, <2>1, <2>2 DEF DraftStep, Ui, AllowStep, Prompt!TypeOK,
       Prompt!NeedsConfirm, ConfirmStep, StepKeeps
  <2>c. ASSUME ~Hasty, PromptQuiet PROVE PromptQuiet'
    BY <1>4, <1>5, <2>1, <2>c DEF PromptQuiet, RunsAlone, RunAlone, DialogsApart,
       Prompt!TypeOK, Ui, Prompt!Alive, Prompt!Interrupts, Prompt!TypedKept, Prompt!Aside,
       ConfirmBack, Prompt!ConfirmComesBack
  <2> QED
    BY <2>a, <2>b, <2>c
<1> QED
  BY <1>6, <1>7

\* The catalog arrives.
LEMMA SkillsReadKeeps ==
  ASSUME Prompt!DraftAssumption, PromptSound, Prompt!SkillsRead
  PROVE  PromptSound' /\ StepKeeps /\ (~Hasty /\ PromptQuiet => PromptQuiet')
<1> USE DEF PromptSound
<1>1. ui \in UIs /\ ui.editor \subseteq Texts /\ run \in [Workers -> Runs]
        /\ queue \subseteq Texts
  BY DEF Prompt!TypeOK, UIs, Runs
<1>2. skillLoading' = FALSE
  BY DEF Prompt!SkillsRead
<1>3. UNCHANGED <<typed, spent, queue, run, epoch, interrupt, permission, pendingMode,
        switch, compacting>>
  BY DEF Prompt!SkillsRead, Prompt!runVars, Prompt!modeVars
<1>4. CASE switch # "waiting" /\ ui.dialog = "none" /\ ~compacting /\ (Hasty \/ Prompt!Calm)
  <2>1. ui' = [ui EXCEPT !.dialog = "skill", !.skill = ui.editor, !.editor = {}]
    BY <1>4 DEF Prompt!SkillsRead
  <2>2. Ui(ui', {}, ui.stash, ui.editor, "skill", ui.deferred, ui.running)
    BY <1>1, <2>1, SkillIs DEF UIs, Prompt!Draft, Prompt!Dialogs, Prompt!Pickers
  <2>3. ui.editor # NoDraft
    BY <1>1 DEF Prompt!DraftAssumption
  <2>a. PromptSound'
    BY <1>2, <1>3, <2>2 DEF Prompt!TypeOK, OnlyTyped, UIs, Ui, Prompt!Aside, RunningWorks,
       Prompt!Alive
  <2>b. StepKeeps
    BY <1>3, <2>2 DEF DraftStep, Ui, AllowStep, Prompt!TypeOK, ConfirmStep, StepKeeps
  <2>c. ASSUME ~Hasty, PromptQuiet PROVE PromptQuiet'
    BY <1>3, <1>4, <2>2, <2>3, <2>c DEF PromptQuiet, RunsAlone, RunAlone, DialogsApart,
       Prompt!TypeOK, Ui, Prompt!Alive, Prompt!Interrupts, Prompt!Calm, Prompt!TypedKept,
       Prompt!Aside, ConfirmBack, Prompt!ConfirmComesBack
  <2> QED
    BY <2>a, <2>b, <2>c
<1>5. CASE ~(switch # "waiting" /\ ui.dialog = "none" /\ ~compacting /\ (Hasty \/ Prompt!Calm))
  <2>1. Ui(ui', ui.editor, ui.stash, ui.skill, ui.dialog, ui.deferred, ui.running)
    BY <1>1, <1>5 DEF Prompt!SkillsRead, Ui
  <2>a. PromptSound'
    BY <1>2, <1>3, <2>1 DEF Prompt!TypeOK, OnlyTyped, UIs, Ui, Prompt!Aside, RunningWorks,
       Prompt!Alive
  <2>b. StepKeeps
    BY <1>3, <2>1 DEF DraftStep, Ui, AllowStep, Prompt!TypeOK, ConfirmStep, StepKeeps
  <2>c. ASSUME ~Hasty, PromptQuiet PROVE PromptQuiet'
    BY <1>3, <2>1, <2>c DEF PromptQuiet, RunsAlone, RunAlone, DialogsApart, Prompt!TypeOK, Ui,
       Prompt!Alive, Prompt!Interrupts, Prompt!TypedKept, Prompt!Aside, ConfirmBack,
       Prompt!ConfirmComesBack
  <2> QED
    BY <2>a, <2>b, <2>c
<1> QED
  BY <1>4, <1>5

\* The sessions shown.
LEMMA OpenResumeKeeps ==
  ASSUME PromptSound, Prompt!OpenResume
  PROVE  PromptSound' /\ StepKeeps /\ (~Hasty /\ PromptQuiet => PromptQuiet')
<1> USE DEF PromptSound
<1>1. ui \in UIs /\ ui.editor \subseteq Texts /\ run \in [Workers -> Runs]
        /\ queue \subseteq Texts
  BY DEF Prompt!TypeOK, UIs, Runs
<1>2. Ui(ui', ui.editor, ui.stash, ui.skill, "resume", ui.deferred, ui.running)
  BY <1>1, ShownIs DEF Prompt!OpenResume, Prompt!Shown, Prompt!Dialogs, Prompt!Pickers
<1>3. Prompt!Command /\ switch = "none" /\ (Hasty \/ Prompt!Calm)
  BY DEF Prompt!OpenResume
<1>4. UNCHANGED <<typed, spent, queue, run, epoch, interrupt, permission, pendingMode,
        switch, compacting, skillLoading>>
  BY DEF Prompt!OpenResume, Prompt!runVars, Prompt!modeVars, Prompt!bgVars
<1>a. PromptSound'
  BY <1>2, <1>4 DEF Prompt!TypeOK, OnlyTyped, UIs, Ui, Prompt!Aside, RunningWorks,
     Prompt!Alive
<1>b. StepKeeps
  BY <1>2, <1>4 DEF DraftStep, Ui, AllowStep, Prompt!TypeOK, ConfirmStep, StepKeeps
<1>c. ASSUME ~Hasty, PromptQuiet PROVE PromptQuiet'
  BY <1>2, <1>3, <1>4, <1>c DEF PromptQuiet, RunsAlone, RunAlone, DialogsApart, Prompt!TypeOK,
     Ui, Prompt!Alive, Prompt!Interrupts, Prompt!Command, Prompt!Patient, Prompt!Calm,
     Prompt!TypedKept, Prompt!Aside, ConfirmBack, Prompt!ConfirmComesBack
<1> QED
  BY <1>a, <1>b, <1>c

\* A session asked for by its id.
LEMMA ResumeByIdKeeps ==
  ASSUME PromptSound, Prompt!ResumeById
  PROVE  PromptSound' /\ StepKeeps /\ (~Hasty /\ PromptQuiet => PromptQuiet')
<1> USE DEF PromptSound
<1>1. ui \in UIs /\ ui.editor \subseteq Texts /\ run \in [Workers -> Runs]
        /\ queue \subseteq Texts
  BY DEF Prompt!TypeOK, UIs, Runs
<1>2. Ui(ui', ui.editor \cup queue, ui.stash, ui.skill, ui.dialog, ui.deferred, ui.running)
  BY <1>1, TakenBackIs DEF Prompt!ResumeById
<1>3. Prompt!Command /\ (Hasty \/ Prompt!Calm) /\ switch' \in {"none", "loading"} /\ queue' = {}
  BY DEF Prompt!ResumeById
<1>4. UNCHANGED <<typed, spent, run, epoch, interrupt, permission, pendingMode, compacting,
        skillLoading>>
  BY DEF Prompt!ResumeById, Prompt!runVars, Prompt!modeVars
<1>a. PromptSound'
  BY <1>2, <1>3, <1>4 DEF Prompt!TypeOK, OnlyTyped, UIs, Ui, Prompt!Aside, RunningWorks,
     Prompt!Alive
<1>b. StepKeeps
  BY <1>2, <1>4 DEF DraftStep, Ui, AllowStep, Prompt!TypeOK, ConfirmStep, StepKeeps
<1>c. ASSUME ~Hasty, PromptQuiet PROVE PromptQuiet'
  BY <1>2, <1>3, <1>4, <1>c DEF PromptQuiet, RunsAlone, RunAlone, DialogsApart, Prompt!TypeOK,
     Ui, Prompt!Alive, Prompt!Interrupts, Prompt!Command, Prompt!Patient, Prompt!Calm,
     Prompt!TypedKept, Prompt!Aside, ConfirmBack, Prompt!ConfirmComesBack
<1> QED
  BY <1>a, <1>b, <1>c

\* A new session.
LEMMA NewSessionKeeps ==
  ASSUME PromptSound, Prompt!NewSession
  PROVE  PromptSound' /\ StepKeeps /\ (~Hasty /\ PromptQuiet => PromptQuiet')
<1> USE DEF PromptSound
<1>1. ui \in UIs /\ ui.editor \subseteq Texts /\ run \in [Workers -> Runs]
        /\ queue \subseteq Texts
  BY DEF Prompt!TypeOK, UIs, Runs
<1>2. Ui(Prompt!TakenBack(ui), ui.editor \cup queue, ui.stash, ui.skill, ui.dialog,
        ui.deferred, ui.running)
  BY <1>1, TakenBackIs
<1>3. Prompt!TakenBack(ui) \in UIs
  BY <1>2 DEF Ui
<1>4. Prompt!Command /\ queue' = {}
  BY DEF Prompt!NewSession
<1>5. UNCHANGED <<typed, spent, run, epoch, permission, switch, compacting, skillLoading>>
  BY DEF Prompt!NewSession, Prompt!bgVars
<1>6. CASE Prompt!Busy
  <2>1. Ui(ui', ui.editor \cup queue, ui.stash, ui.skill, ui.dialog, ui.deferred, ui.running)
    BY <1>2, <1>6 DEF Prompt!NewSession, Ui
  <2>2. UNCHANGED <<interrupt, pendingMode>>
    BY <1>6 DEF Prompt!NewSession
  <2>a. PromptSound'
    BY <1>4, <1>5, <2>1, <2>2 DEF Prompt!TypeOK, OnlyTyped, UIs, Ui, Prompt!Aside,
       RunningWorks, Prompt!Alive
  <2>b. StepKeeps
    BY <1>5, <2>1, <2>2 DEF DraftStep, Ui, AllowStep, Prompt!TypeOK, ConfirmStep, StepKeeps
  <2>c. ASSUME ~Hasty, PromptQuiet PROVE PromptQuiet'
    BY <1>4, <1>5, <2>1, <2>2, <2>c DEF PromptQuiet, RunsAlone, RunAlone, DialogsApart,
       Prompt!TypeOK, Ui, Prompt!Alive, Prompt!Interrupts, Prompt!Command, Prompt!Patient,
       Prompt!Calm, Prompt!TypedKept, Prompt!Aside, ConfirmBack, Prompt!ConfirmComesBack
  <2> QED
    BY <2>a, <2>b, <2>c
<1>7. CASE ~Prompt!Busy
  <2>1. ui' = Prompt!ResetView(Prompt!TakenBack(ui)) /\ interrupt' = "none"
          /\ pendingMode' = "none" /\ ~compacting
    BY <1>7 DEF Prompt!NewSession, Prompt!Busy
  <2>2. Ui(ui', ui.editor \cup queue, ui.stash, NoDraft, "none", FALSE, ui.running)
    BY <1>2, <1>3, <2>1, ResetViewIs DEF Ui
  <2>a. PromptSound'
    BY <1>4, <1>5, <2>1, <2>2 DEF Prompt!TypeOK, OnlyTyped, UIs, Ui, Prompt!Aside,
       RunningWorks, Prompt!Alive
  <2>b. StepKeeps
    BY <1>5, <2>1, <2>2 DEF DraftStep, Ui, AllowStep, Prompt!TypeOK, ConfirmStep, StepKeeps
  <2>c. ASSUME ~Hasty, PromptQuiet PROVE PromptQuiet'
    BY <1>4, <1>5, <2>1, <2>2, <2>c DEF PromptQuiet, RunsAlone, RunAlone, DialogsApart,
       Prompt!TypeOK, Ui, Prompt!Alive, Prompt!Interrupts, Prompt!Command, Prompt!Patient,
       Prompt!Calm, Prompt!TypedKept, Prompt!Aside, ConfirmBack, Prompt!ConfirmComesBack
  <2> QED
    BY <2>a, <2>b, <2>c
<1> QED
  BY <1>6, <1>7

\* A run cancelled.
LEMMA CancelRunKeeps ==
  ASSUME PromptSound, Prompt!CancelRun
  PROVE  PromptSound' /\ StepKeeps /\ (~Hasty /\ PromptQuiet => PromptQuiet')
<1> USE DEF PromptSound
<1>1. ui \in UIs /\ ui.editor \subseteq Texts /\ run \in [Workers -> Runs]
        /\ queue \subseteq Texts
  BY DEF Prompt!TypeOK, UIs, Runs
<1>2. Ui(Prompt!TakenBack(ui), ui.editor \cup queue, ui.stash, ui.skill, ui.dialog,
        ui.deferred, ui.running)
  BY <1>1, TakenBackIs
<1>3. Prompt!TakenBack(ui) \in UIs /\ ui' = [Prompt!TakenBack(ui) EXCEPT !.cancelSent = TRUE]
  BY <1>2 DEF Prompt!CancelRun, Ui
<1>4. Ui(ui', ui.editor \cup queue, ui.stash, ui.skill, ui.dialog, ui.deferred, ui.running)
  BY <1>2, <1>3, CancelSentIs DEF Ui
<1>5. epoch \in Workers /\ run[epoch] \in Runs /\ Prompt!Alive(epoch) \in BOOLEAN
  BY <1>1 DEF Prompt!TypeOK, Prompt!Alive
<1>6. [run[epoch] EXCEPT !.cancelled = @ \/ Prompt!Alive(epoch)] \in Runs
  BY <1>5 DEF Runs
<1>7. run' = [run EXCEPT ![epoch] = [run[epoch] EXCEPT !.cancelled = @ \/ Prompt!Alive(epoch)]]
  BY DEF Prompt!CancelRun
<1>8. run' \in [Workers -> Runs]
  BY <1>1, <1>6, <1>7
<1>9. \A w \in Workers : run'[w].stage = run[w].stage /\ run'[w].kind = run[w].kind
        /\ run'[w].outcome = run[w].outcome
  BY <1>1, <1>5, <1>7 DEF Runs
<1>10. ui.dialog = "none" /\ queue' = {}
  BY DEF Prompt!CancelRun
<1>11. UNCHANGED <<typed, spent, epoch, interrupt, permission, pendingMode, switch,
         compacting, skillLoading>>
  BY DEF Prompt!CancelRun, Prompt!modeVars, Prompt!bgVars
<1>a. PromptSound'
  BY <1>4, <1>8, <1>9, <1>10, <1>11 DEF Prompt!TypeOK, OnlyTyped, UIs, Runs, Ui, Prompt!Aside,
     RunningWorks, Prompt!Alive
<1>b. StepKeeps
  BY <1>4, <1>11 DEF DraftStep, Ui, AllowStep, Prompt!TypeOK, ConfirmStep, StepKeeps
<1>c. ASSUME ~Hasty, PromptQuiet PROVE PromptQuiet'
  BY <1>4, <1>9, <1>10, <1>11, <1>c DEF PromptQuiet, RunsAlone, RunAlone, DialogsApart,
     Prompt!TypeOK, Ui, Prompt!Alive, Prompt!Interrupts, Prompt!TypedKept, Prompt!Aside,
     ConfirmBack, Prompt!ConfirmComesBack
<1> QED
  BY <1>a, <1>b, <1>c

\* A message sent: it starts a run, or is queued.
LEMMA SubmitKeeps ==
  ASSUME PromptSound, Prompt!Submit
  PROVE  PromptSound' /\ StepKeeps /\ (~Hasty /\ PromptQuiet => PromptQuiet')
<1> USE DEF PromptSound
<1>1. ui \in UIs /\ ui.editor \subseteq Texts /\ run \in [Workers -> Runs]
        /\ queue \subseteq Texts
  BY DEF Prompt!TypeOK, UIs, Runs
<1>2. Ui([ui EXCEPT !.editor = {}], {}, ui.stash, ui.skill, ui.dialog, ui.deferred, ui.running)
  BY <1>1, EditorIs
<1>3. [ui EXCEPT !.editor = {}] \in UIs
  BY <1>2 DEF Ui
<1>4. "message" \in Prompt!Kinds /\ Prompt!Free \in SUBSET Workers
  BY DEF Prompt!Kinds, Prompt!Free
<1>5. ui.dialog = "none" /\ switch # "waiting" /\ ~compacting /\ Prompt!Patient
  BY DEF Prompt!Submit
<1>6. UNCHANGED <<typed, interrupt, permission, pendingMode, switch, compacting, skillLoading>>
  BY DEF Prompt!Submit, Prompt!modeVars, Prompt!bgVars
<1>7. \/ /\ Prompt!Start([ui EXCEPT !.editor = {}], "message", Prompt!Free) /\ ~ui.running
              /\ interrupt = "none"
         /\ queue' \cup spent' = queue \cup ui.editor \cup spent
      \/ /\ ui' = [ui EXCEPT !.editor = {}] /\ run' = run /\ epoch' = epoch
         /\ queue' = queue \cup ui.editor /\ spent' = spent
  BY <1>2 DEF Prompt!Submit, Prompt!StartQueued, Ui
<1>8. CASE /\ Prompt!Start([ui EXCEPT !.editor = {}], "message", Prompt!Free)
                /\ ~ui.running /\ interrupt = "none"
             /\ queue' \cup spent' = queue \cup ui.editor \cup spent
  <2>1. Ui(ui', {}, ui.stash, ui.skill, ui.dialog, ui.deferred, TRUE)
    BY <1>8, <1>1, <1>2, <1>3, <1>4, StartIs DEF Ui
  <2>2. Starts("message", Prompt!Free)
    BY <1>8, <1>1, <1>3, <1>4, StartIs
  <2>3. ~Hasty /\ PromptQuiet => switch = "none" /\ \A v \in Workers : ~Prompt!Alive(v)
    BY <1>8, <1>5 DEF Prompt!Patient, Prompt!Calm, PromptQuiet, RunsAlone, RunAlone,
       Prompt!TypeOK, Prompt!Kinds, Prompt!Interrupts
  <2>a. PromptSound'
    BY <1>6, <1>8, <2>1, <2>2 DEF Prompt!TypeOK, OnlyTyped, UIs, Runs, Ui, Starts,
       Prompt!Free, Prompt!Aside, RunningWorks, Prompt!Alive
  <2>b. StepKeeps
    BY <1>6, <2>1 DEF DraftStep, Ui, AllowStep, Prompt!TypeOK, ConfirmStep, StepKeeps
  <2>c. ASSUME ~Hasty, PromptQuiet PROVE PromptQuiet'
    BY <1>5, <1>6, <1>8, <2>1, <2>2, <2>3, <2>c DEF PromptQuiet, RunsAlone, RunAlone,
       DialogsApart, Prompt!TypeOK, Ui, Prompt!Alive, Starts, Prompt!Interrupts,
       Prompt!Patient, Prompt!Calm, Prompt!Free, Prompt!TypedKept, Prompt!Aside, ConfirmBack,
       Prompt!ConfirmComesBack
  <2> QED
    BY <2>a, <2>b, <2>c
<1>9. CASE /\ ui' = [ui EXCEPT !.editor = {}] /\ run' = run /\ epoch' = epoch
             /\ queue' = queue \cup ui.editor /\ spent' = spent
  <2>1. Ui(ui', {}, ui.stash, ui.skill, ui.dialog, ui.deferred, ui.running)
    BY <1>9, <1>2
  <2>a. PromptSound'
    BY <1>6, <1>9 DEF Prompt!TypeOK, OnlyTyped, Prompt!Aside, RunningWorks, Prompt!Alive
  <2>b. StepKeeps
    BY <1>6, <2>1 DEF DraftStep, Ui, AllowStep, Prompt!TypeOK, ConfirmStep, StepKeeps
  <2>c. ASSUME ~Hasty, PromptQuiet PROVE PromptQuiet'
    BY <1>6, <1>9, <2>c DEF PromptQuiet, RunsAlone, RunAlone, DialogsApart, Prompt!TypeOK,
       Prompt!Alive, Prompt!Interrupts, Prompt!TypedKept, Prompt!Aside, ConfirmBack,
       Prompt!ConfirmComesBack
  <2> QED
    BY <2>a, <2>b, <2>c
<1> QED
  BY <1>7, <1>8, <1>9

\* ALLOW refused by Esc: what waits is shown again.
LEMMA EscConfirmKeeps ==
  ASSUME Prompt!DraftAssumption, PromptSound, Prompt!EscConfirm
  PROVE  PromptSound' /\ StepKeeps /\ (~Hasty /\ PromptQuiet => PromptQuiet')
<1> USE DEF PromptSound
<1>1. ui \in UIs /\ ui.editor \subseteq Texts /\ run \in [Workers -> Runs]
        /\ queue \subseteq Texts
  BY DEF Prompt!TypeOK, UIs, Runs
<1>2. Ui(Prompt!Shown("none"), ui.editor, ui.stash, ui.skill, "none", ui.deferred, ui.running)
  BY <1>1, ShownIs DEF Prompt!Shown, Prompt!Dialogs
<1>3. Prompt!Shown("none") \in UIs /\ Prompt!Shown("none") \in UIs
  BY <1>1, <1>2 DEF Ui
<1>4. Prompt!Reopened(Prompt!Shown("none"), Prompt!Shown("none"), Prompt!Free,
        UNCHANGED <<run, epoch>>)
  BY DEF Prompt!EscConfirm
<1>5. ui.dialog = "confirm" /\ Prompt!Patient
  BY DEF Prompt!EscConfirm
<1>6. UNCHANGED <<typed, spent, queue, interrupt, permission, pendingMode, switch,
        compacting, skillLoading>>
  BY DEF Prompt!EscConfirm, Prompt!modeVars, Prompt!bgVars
<1>7. \/ interrupt = "boundary" /\ Resumes(Prompt!Shown("none"), Prompt!Free)
      \/ interrupt = "none" /\ ui' = Prompt!Shown("none") /\ run' = run /\ epoch' = epoch
      \/ Shows(Prompt!Shown("none"), interrupt) /\ run' = run /\ epoch' = epoch
  BY <1>3, <1>4, ReopenedIs
<1>8. CASE interrupt = "boundary" /\ Resumes(Prompt!Shown("none"), Prompt!Free)
  <2>1. Ui(ui', ui.editor, ui.stash, ui.skill, "none", ui.deferred, TRUE)
          /\ Starts("boundary", Prompt!Free)
    BY <1>8, <1>1, <1>2 DEF Resumes, Ui
  <2>a. PromptSound'
    BY <1>6, <2>1 DEF Prompt!TypeOK, OnlyTyped, UIs, Runs, Ui, Starts, Prompt!Free,
       Prompt!Aside, RunningWorks, Prompt!Alive
  <2>b. StepKeeps
    BY <1>6, <2>1 DEF DraftStep, Ui, AllowStep, Prompt!TypeOK, ConfirmStep, Starts,
       Prompt!Free, Prompt!Alive, StepKeeps
  <2>c. ASSUME ~Hasty, PromptQuiet PROVE PromptQuiet'
    BY <1>5, <1>6, <1>8, <2>1, <2>c DEF PromptQuiet, RunsAlone, RunAlone, DialogsApart,
       Prompt!TypeOK, Ui, Prompt!Alive, Starts, Prompt!Interrupts, Prompt!Patient,
       Prompt!Calm, Prompt!TypedKept, Prompt!Aside, Prompt!DraftAssumption, ConfirmBack,
       Prompt!ConfirmComesBack
  <2> QED
    BY <2>a, <2>b, <2>c
<1>9. CASE interrupt = "none" /\ ui' = Prompt!Shown("none") /\ run' = run /\ epoch' = epoch
  <2>1. Ui(ui', ui.editor, ui.stash, ui.skill, "none", ui.deferred, ui.running)
    BY <1>9, <1>1, <1>2 DEF Ui
  <2>a. PromptSound'
    BY <1>6, <1>9, <2>1 DEF Prompt!TypeOK, OnlyTyped, UIs, Ui, Prompt!Aside, RunningWorks,
       Prompt!Alive
  <2>b. StepKeeps
    BY <1>6, <1>9, <2>1 DEF DraftStep, Ui, AllowStep, Prompt!TypeOK, ConfirmStep, StepKeeps
  <2>c. ASSUME ~Hasty, PromptQuiet PROVE PromptQuiet'
    BY <1>5, <1>6, <1>9, <2>1, <2>c DEF PromptQuiet, RunsAlone, RunAlone, DialogsApart,
       Prompt!TypeOK, Ui, Prompt!Alive, Prompt!Interrupts, Prompt!Patient, Prompt!Calm,
       Prompt!TypedKept, Prompt!Aside, Prompt!DraftAssumption, ConfirmBack,
       Prompt!ConfirmComesBack
  <2> QED
    BY <2>a, <2>b, <2>c
<1>10. CASE interrupt = "approval" /\ Shows(Prompt!Shown("none"), interrupt) /\ run' = run
              /\ epoch' = epoch
  <2>1. Ui(ui', EditorOf(Prompt!Shown("none")), StashOf(Prompt!Shown("none")), ui.skill,
          "approval", ui.deferred, ui.running)
    BY <1>10, <1>1, <1>2 DEF Shows, Ui
  <2>2. Put(Prompt!Shown("none"))
    BY <1>1, <1>2, PutIs
  <2>a. PromptSound'
    BY <1>2, <1>6, <1>10, <2>1, <2>2 DEF Prompt!TypeOK, OnlyTyped, UIs, Ui, Put, Prompt!Aside,
       RunningWorks, Prompt!Alive
  <2>b. StepKeeps
    BY <1>2, <1>6, <1>10, <2>1, <2>2 DEF DraftStep, Ui, Put, AllowStep, Prompt!TypeOK,
       ConfirmStep, StepKeeps
  <2>c. ASSUME ~Hasty, PromptQuiet PROVE PromptQuiet'
    BY <1>2, <1>5, <1>6, <1>10, <2>1, <2>2, <2>c DEF PromptQuiet, RunsAlone, RunAlone,
       DialogsApart, Prompt!TypeOK, Ui, Prompt!Alive, Prompt!Interrupts, Prompt!Patient,
       Prompt!Calm, Put, Prompt!TypedKept, Prompt!Aside, Prompt!DraftAssumption, ConfirmBack,
       Prompt!ConfirmComesBack
  <2> QED
    BY <2>a, <2>b, <2>c
<1>11. CASE interrupt # "approval" /\ Shows(Prompt!Shown("none"), interrupt) /\ run' = run
              /\ epoch' = epoch
  <2>1. Ui(ui', ui.editor, ui.stash, ui.skill, interrupt, ui.deferred, ui.running)
          /\ interrupt \in {"human", "pause"}
    BY <1>11, <1>1, <1>2 DEF Shows, Ui
  <2>a. PromptSound'
    BY <1>6, <1>11, <2>1 DEF Prompt!TypeOK, OnlyTyped, UIs, Ui, Prompt!Aside, RunningWorks,
       Prompt!Alive
  <2>b. StepKeeps
    BY <1>6, <1>11, <2>1 DEF DraftStep, Ui, AllowStep, Prompt!TypeOK, ConfirmStep, StepKeeps
  <2>c. ASSUME ~Hasty, PromptQuiet PROVE PromptQuiet'
    BY <1>5, <1>6, <1>11, <2>1, <2>c DEF PromptQuiet, RunsAlone, RunAlone, DialogsApart,
       Prompt!TypeOK, Ui, Prompt!Alive, Prompt!Interrupts, Prompt!Patient, Prompt!Calm,
       Prompt!TypedKept, Prompt!Aside, Prompt!DraftAssumption, ConfirmBack,
       Prompt!ConfirmComesBack
  <2> QED
    BY <2>a, <2>b, <2>c
<1> QED
  BY <1>7, <1>8, <1>9, <1>10, <1>11

\* ALLOW refused in words.
LEMMA RefuseAllowKeeps ==
  ASSUME Prompt!DraftAssumption, PromptSound, Prompt!RefuseAllow
  PROVE  PromptSound' /\ StepKeeps /\ (~Hasty /\ PromptQuiet => PromptQuiet')
<1> USE DEF PromptSound
<1>1. ui \in UIs /\ ui.editor \subseteq Texts /\ run \in [Workers -> Runs]
        /\ queue \subseteq Texts
  BY DEF Prompt!TypeOK, UIs, Runs
<1>2. Ui(Prompt!Accepted, {}, ui.stash, ui.skill, "none", ui.deferred, ui.running)
  BY <1>1, AcceptedIs
<1>3. Prompt!Accepted \in UIs /\ Prompt!Accepted \in UIs
  BY <1>1, <1>2 DEF Ui
<1>4. Prompt!Reopened(Prompt!Accepted, Prompt!Accepted, Prompt!Free, UNCHANGED <<run, epoch>>)
  BY DEF Prompt!RefuseAllow
<1>5. ui.dialog = "confirm" /\ Prompt!Patient /\ spent' = spent \cup ui.editor
  BY DEF Prompt!RefuseAllow, Prompt!ToHistory
<1>6. UNCHANGED <<typed, queue, interrupt, permission, pendingMode, switch, compacting,
        skillLoading>>
  BY DEF Prompt!RefuseAllow, Prompt!modeVars, Prompt!bgVars
<1>7. \/ interrupt = "boundary" /\ Resumes(Prompt!Accepted, Prompt!Free)
      \/ interrupt = "none" /\ ui' = Prompt!Accepted /\ run' = run /\ epoch' = epoch
      \/ Shows(Prompt!Accepted, interrupt) /\ run' = run /\ epoch' = epoch
  BY <1>3, <1>4, ReopenedIs
<1>8. CASE interrupt = "boundary" /\ Resumes(Prompt!Accepted, Prompt!Free)
  <2>1. Ui(ui', {}, ui.stash, ui.skill, "none", ui.deferred, TRUE)
          /\ Starts("boundary", Prompt!Free)
    BY <1>8, <1>1, <1>2 DEF Resumes, Ui
  <2>a. PromptSound'
    BY <1>5, <1>6, <2>1 DEF Prompt!TypeOK, OnlyTyped, UIs, Runs, Ui, Starts, Prompt!Free,
       Prompt!Aside, RunningWorks, Prompt!Alive
  <2>b. StepKeeps
    BY <1>6, <2>1 DEF DraftStep, Ui, AllowStep, Prompt!TypeOK, ConfirmStep, Starts,
       Prompt!Free, Prompt!Alive, StepKeeps
  <2>c. ASSUME ~Hasty, PromptQuiet PROVE PromptQuiet'
    BY <1>5, <1>6, <1>8, <2>1, <2>c DEF PromptQuiet, RunsAlone, RunAlone, DialogsApart,
       Prompt!TypeOK, Ui, Prompt!Alive, Starts, Prompt!Interrupts, Prompt!Patient,
       Prompt!Calm, Prompt!TypedKept, Prompt!Aside, Prompt!DraftAssumption, ConfirmBack,
       Prompt!ConfirmComesBack
  <2> QED
    BY <2>a, <2>b, <2>c
<1>9. CASE interrupt = "none" /\ ui' = Prompt!Accepted /\ run' = run /\ epoch' = epoch
  <2>1. Ui(ui', {}, ui.stash, ui.skill, "none", ui.deferred, ui.running)
    BY <1>9, <1>1, <1>2 DEF Ui
  <2>a. PromptSound'
    BY <1>5, <1>6, <1>9, <2>1 DEF Prompt!TypeOK, OnlyTyped, UIs, Ui, Prompt!Aside,
       RunningWorks, Prompt!Alive
  <2>b. StepKeeps
    BY <1>6, <1>9, <2>1 DEF DraftStep, Ui, AllowStep, Prompt!TypeOK, ConfirmStep, StepKeeps
  <2>c. ASSUME ~Hasty, PromptQuiet PROVE PromptQuiet'
    BY <1>5, <1>6, <1>9, <2>1, <2>c DEF PromptQuiet, RunsAlone, RunAlone, DialogsApart,
       Prompt!TypeOK, Ui, Prompt!Alive, Prompt!Interrupts, Prompt!Patient, Prompt!Calm,
       Prompt!TypedKept, Prompt!Aside, Prompt!DraftAssumption, ConfirmBack,
       Prompt!ConfirmComesBack
  <2> QED
    BY <2>a, <2>b, <2>c
<1>10. CASE interrupt = "approval" /\ Shows(Prompt!Accepted, interrupt) /\ run' = run
              /\ epoch' = epoch
  <2>1. Ui(ui', EditorOf(Prompt!Accepted), StashOf(Prompt!Accepted), ui.skill, "approval",
          ui.deferred, ui.running)
    BY <1>10, <1>1, <1>2 DEF Shows, Ui
  <2>2. Put(Prompt!Accepted)
    BY <1>1, <1>2, PutIs
  <2>a. PromptSound'
    BY <1>2, <1>5, <1>6, <1>10, <2>1, <2>2 DEF Prompt!TypeOK, OnlyTyped, UIs, Ui, Put,
       Prompt!Aside, RunningWorks, Prompt!Alive
  <2>b. StepKeeps
    BY <1>2, <1>6, <1>10, <2>1, <2>2 DEF DraftStep, Ui, Put, AllowStep, Prompt!TypeOK,
       ConfirmStep, StepKeeps
  <2>c. ASSUME ~Hasty, PromptQuiet PROVE PromptQuiet'
    BY <1>2, <1>5, <1>6, <1>10, <2>1, <2>2, <2>c DEF PromptQuiet, RunsAlone, RunAlone,
       DialogsApart, Prompt!TypeOK, Ui, Prompt!Alive, Prompt!Interrupts, Prompt!Patient,
       Prompt!Calm, Put, Prompt!TypedKept, Prompt!Aside, Prompt!DraftAssumption, ConfirmBack,
       Prompt!ConfirmComesBack
  <2> QED
    BY <2>a, <2>b, <2>c
<1>11. CASE interrupt # "approval" /\ Shows(Prompt!Accepted, interrupt) /\ run' = run
              /\ epoch' = epoch
  <2>1. Ui(ui', {}, ui.stash, ui.skill, interrupt, ui.deferred, ui.running)
          /\ interrupt \in {"human", "pause"}
    BY <1>11, <1>1, <1>2 DEF Shows, Ui
  <2>a. PromptSound'
    BY <1>5, <1>6, <1>11, <2>1 DEF Prompt!TypeOK, OnlyTyped, UIs, Ui, Prompt!Aside,
       RunningWorks, Prompt!Alive
  <2>b. StepKeeps
    BY <1>6, <1>11, <2>1 DEF DraftStep, Ui, AllowStep, Prompt!TypeOK, ConfirmStep, StepKeeps
  <2>c. ASSUME ~Hasty, PromptQuiet PROVE PromptQuiet'
    BY <1>5, <1>6, <1>11, <2>1, <2>c DEF PromptQuiet, RunsAlone, RunAlone, DialogsApart,
       Prompt!TypeOK, Ui, Prompt!Alive, Prompt!Interrupts, Prompt!Patient, Prompt!Calm,
       Prompt!TypedKept, Prompt!Aside, Prompt!DraftAssumption, ConfirmBack,
       Prompt!ConfirmComesBack
  <2> QED
    BY <2>a, <2>b, <2>c
<1> QED
  BY <1>7, <1>8, <1>9, <1>10, <1>11

\* ALLOW confirmed.
LEMMA ConfirmAllowKeeps ==
  ASSUME Prompt!DraftAssumption, PromptSound, Prompt!ConfirmAllow
  PROVE  PromptSound' /\ StepKeeps /\ (~Hasty /\ PromptQuiet => PromptQuiet')
<1> USE DEF PromptSound
<1>1. ui \in UIs /\ ui.editor \subseteq Texts /\ run \in [Workers -> Runs]
        /\ queue \subseteq Texts
  BY DEF Prompt!TypeOK, UIs, Runs
<1>2. Ui(Prompt!Accepted, {}, ui.stash, ui.skill, "none", ui.deferred, ui.running)
  BY <1>1, AcceptedIs
<1>3. Prompt!Accepted \in UIs /\ Prompt!Accepted \in UIs
  BY <1>1, <1>2 DEF Ui
<1>4. Prompt!Reopened(Prompt!Accepted, Prompt!Accepted, Prompt!Free, UNCHANGED <<run, epoch>>)
  BY DEF Prompt!ConfirmAllow
<1>5. ui.dialog = "confirm" /\ Prompt!Patient /\ spent' = spent \cup ui.editor
  BY DEF Prompt!ConfirmAllow, Prompt!ToHistory
<1>6. permission' \in {permission, "allow"} /\ pendingMode' \in {"none", "allow"}
  BY RequestedIs DEF Prompt!ConfirmAllow
<1>7. UNCHANGED <<typed, queue, interrupt, switch, compacting, skillLoading>>
  BY DEF Prompt!ConfirmAllow, Prompt!bgVars
<1>8. \/ interrupt = "boundary" /\ Resumes(Prompt!Accepted, Prompt!Free)
      \/ interrupt = "none" /\ ui' = Prompt!Accepted /\ run' = run /\ epoch' = epoch
      \/ Shows(Prompt!Accepted, interrupt) /\ run' = run /\ epoch' = epoch
  BY <1>3, <1>4, ReopenedIs
<1>9. CASE interrupt = "boundary" /\ Resumes(Prompt!Accepted, Prompt!Free)
  <2>1. Ui(ui', {}, ui.stash, ui.skill, "none", ui.deferred, TRUE)
          /\ Starts("boundary", Prompt!Free)
    BY <1>9, <1>1, <1>2 DEF Resumes, Ui
  <2>a. PromptSound'
    BY <1>5, <1>6, <1>7, <2>1 DEF Prompt!TypeOK, OnlyTyped, UIs, Runs, Ui, Starts,
       Prompt!Free, Prompt!Aside, RunningWorks, Prompt!Alive
  <2>b. StepKeeps
    BY <1>5, <2>1 DEF DraftStep, Ui, AllowStep, Prompt!TypeOK, ConfirmStep, Starts,
       Prompt!Free, Prompt!Alive, StepKeeps
  <2>c. ASSUME ~Hasty, PromptQuiet PROVE PromptQuiet'
    BY <1>5, <1>7, <1>9, <2>1, <2>c DEF PromptQuiet, RunsAlone, RunAlone, DialogsApart,
       Prompt!TypeOK, Ui, Prompt!Alive, Starts, Prompt!Interrupts, Prompt!Patient,
       Prompt!Calm, Prompt!TypedKept, Prompt!Aside, Prompt!DraftAssumption, ConfirmBack,
       Prompt!ConfirmComesBack
  <2> QED
    BY <2>a, <2>b, <2>c
<1>10. CASE interrupt = "none" /\ ui' = Prompt!Accepted /\ run' = run /\ epoch' = epoch
  <2>1. Ui(ui', {}, ui.stash, ui.skill, "none", ui.deferred, ui.running)
    BY <1>10, <1>1, <1>2 DEF Ui
  <2>a. PromptSound'
    BY <1>5, <1>6, <1>7, <1>10, <2>1 DEF Prompt!TypeOK, OnlyTyped, UIs, Ui, Prompt!Aside,
       RunningWorks, Prompt!Alive
  <2>b. StepKeeps
    BY <1>5, <1>10, <2>1 DEF DraftStep, Ui, AllowStep, Prompt!TypeOK, ConfirmStep, StepKeeps
  <2>c. ASSUME ~Hasty, PromptQuiet PROVE PromptQuiet'
    BY <1>5, <1>7, <1>10, <2>1, <2>c DEF PromptQuiet, RunsAlone, RunAlone, DialogsApart,
       Prompt!TypeOK, Ui, Prompt!Alive, Prompt!Interrupts, Prompt!Patient, Prompt!Calm,
       Prompt!TypedKept, Prompt!Aside, Prompt!DraftAssumption, ConfirmBack,
       Prompt!ConfirmComesBack
  <2> QED
    BY <2>a, <2>b, <2>c
<1>11. CASE interrupt = "approval" /\ Shows(Prompt!Accepted, interrupt) /\ run' = run
              /\ epoch' = epoch
  <2>1. Ui(ui', EditorOf(Prompt!Accepted), StashOf(Prompt!Accepted), ui.skill, "approval",
          ui.deferred, ui.running)
    BY <1>11, <1>1, <1>2 DEF Shows, Ui
  <2>2. Put(Prompt!Accepted)
    BY <1>1, <1>2, PutIs
  <2>a. PromptSound'
    BY <1>2, <1>5, <1>6, <1>7, <1>8, <1>11, <2>1, <2>2 DEF Prompt!TypeOK, OnlyTyped, UIs, Ui,
       Prompt!Free, Put, Prompt!Aside, RunningWorks, Prompt!Alive
  <2>b. StepKeeps
    BY <1>2, <1>5, <1>8, <1>11, <2>1, <2>2 DEF DraftStep, Ui, Put, AllowStep, Prompt!TypeOK,
       ConfirmStep, Prompt!Free, Prompt!Alive, StepKeeps
  <2>c. ASSUME ~Hasty, PromptQuiet PROVE PromptQuiet'
    BY <1>2, <1>5, <1>7, <1>8, <1>11, <2>1, <2>2, <2>c DEF PromptQuiet, RunsAlone, RunAlone,
       DialogsApart, Prompt!TypeOK, Ui, Prompt!Alive, Prompt!Interrupts, Prompt!Patient,
       Prompt!Calm, Put, Prompt!TypedKept, Prompt!Aside, Prompt!DraftAssumption, ConfirmBack,
       Prompt!ConfirmComesBack
  <2> QED
    BY <2>a, <2>b, <2>c
<1>12. CASE interrupt # "approval" /\ Shows(Prompt!Accepted, interrupt) /\ run' = run
              /\ epoch' = epoch
  <2>1. Ui(ui', {}, ui.stash, ui.skill, interrupt, ui.deferred, ui.running)
          /\ interrupt \in {"human", "pause"}
    BY <1>12, <1>1, <1>2 DEF Shows, Ui
  <2>a. PromptSound'
    BY <1>5, <1>6, <1>7, <1>12, <2>1 DEF Prompt!TypeOK, OnlyTyped, UIs, Ui, Prompt!Aside,
       RunningWorks, Prompt!Alive
  <2>b. StepKeeps
    BY <1>5, <1>12, <2>1 DEF DraftStep, Ui, AllowStep, Prompt!TypeOK, ConfirmStep, StepKeeps
  <2>c. ASSUME ~Hasty, PromptQuiet PROVE PromptQuiet'
    BY <1>5, <1>7, <1>12, <2>1, <2>c DEF PromptQuiet, RunsAlone, RunAlone, DialogsApart,
       Prompt!TypeOK, Ui, Prompt!Alive, Prompt!Interrupts, Prompt!Patient, Prompt!Calm,
       Prompt!TypedKept, Prompt!Aside, Prompt!DraftAssumption, ConfirmBack,
       Prompt!ConfirmComesBack
  <2> QED
    BY <2>a, <2>b, <2>c
<1> QED
  BY <1>8, <1>9, <1>10, <1>11, <1>12

\* What waits is shown again, in front of a confirmation.
LEMMA F2Keeps ==
  ASSUME Prompt!DraftAssumption, PromptSound, Prompt!F2
  PROVE  PromptSound' /\ StepKeeps /\ (~Hasty /\ PromptQuiet => PromptQuiet')
<1> USE DEF PromptSound
<1>1. ui \in UIs /\ ui.editor \subseteq Texts /\ run \in [Workers -> Runs]
        /\ queue \subseteq Texts
  BY DEF Prompt!TypeOK, UIs, Runs
<1>2. Ui(Prompt!Behind(ui), ui.editor, ui.stash, ui.skill,
        IF ui.dialog = "confirm" THEN "none" ELSE ui.dialog, ui.deferred
        \/ ui.dialog = "confirm", ui.running)
  BY <1>1, BehindIs
<1>3. Prompt!Behind(ui) \in UIs /\ ui \in UIs
  BY <1>1, <1>2 DEF Ui
<1>4. Prompt!Reopened(Prompt!Behind(ui), ui, Prompt!Free, UNCHANGED <<run, epoch>>)
  BY DEF Prompt!F2
<1>5. interrupt # "none" /\ ui.dialog # interrupt /\ (Hasty \/ (Prompt!Calm
        /\ ui.dialog # "skill"))
  BY DEF Prompt!F2, Prompt!Reopens
<1>6. UNCHANGED <<typed, spent, queue, interrupt, permission, pendingMode, switch,
        compacting, skillLoading>>
  BY DEF Prompt!F2, Prompt!modeVars, Prompt!bgVars
<1>7. \/ interrupt = "boundary" /\ Resumes(Prompt!Behind(ui), Prompt!Free)
      \/ interrupt = "none" /\ ui' = ui /\ run' = run /\ epoch' = epoch
      \/ Shows(Prompt!Behind(ui), interrupt) /\ run' = run /\ epoch' = epoch
  BY <1>3, <1>4, ReopenedIs
<1>8. CASE interrupt = "boundary" /\ Resumes(Prompt!Behind(ui), Prompt!Free)
  <2>1. Ui(ui', ui.editor, ui.stash, ui.skill,
          (IF ui.dialog = "confirm" THEN "none" ELSE ui.dialog), (ui.deferred
          \/ ui.dialog = "confirm"), TRUE) /\ Starts("boundary", Prompt!Free)
    BY <1>8, <1>1, <1>2 DEF Resumes, Ui
  <2>a. PromptSound'
    BY <1>6, <2>1 DEF Prompt!TypeOK, OnlyTyped, UIs, Runs, Ui, Starts, Prompt!Free,
       Prompt!Aside, RunningWorks, Prompt!Alive
  <2>b. StepKeeps
    BY <1>6, <2>1 DEF DraftStep, Ui, AllowStep, Prompt!TypeOK, ConfirmStep, Starts,
       Prompt!Free, Prompt!Alive, StepKeeps
  <2>c. ASSUME ~Hasty, PromptQuiet PROVE PromptQuiet'
    BY <1>5, <1>6, <1>8, <2>1, <2>c DEF PromptQuiet, RunsAlone, RunAlone, DialogsApart,
       Prompt!TypeOK, Ui, Prompt!Alive, Starts, Prompt!Interrupts, Prompt!Calm,
       Prompt!TypedKept, Prompt!Aside, Prompt!DraftAssumption, ConfirmBack,
       Prompt!ConfirmComesBack
  <2> QED
    BY <2>a, <2>b, <2>c
<1>9. CASE interrupt = "none" /\ ui' = ui /\ run' = run /\ epoch' = epoch
  <2>1. Ui(ui', ui.editor, ui.stash, ui.skill, ui.dialog, ui.deferred, ui.running)
    BY <1>9, <1>1, <1>2 DEF Ui
  <2>a. PromptSound'
    BY <1>6, <1>9 DEF Prompt!TypeOK, OnlyTyped, Prompt!Aside, RunningWorks, Prompt!Alive
  <2>b. StepKeeps
    BY <1>6, <2>1 DEF DraftStep, Ui, AllowStep, Prompt!TypeOK, ConfirmStep, StepKeeps
  <2>c. ASSUME ~Hasty, PromptQuiet PROVE PromptQuiet'
    BY <1>6, <1>9, <2>c DEF PromptQuiet, RunsAlone, RunAlone, DialogsApart, Prompt!TypeOK,
       Prompt!Alive, Prompt!Interrupts, Prompt!TypedKept, Prompt!Aside,
       Prompt!DraftAssumption, ConfirmBack, Prompt!ConfirmComesBack
  <2> QED
    BY <2>a, <2>b, <2>c
<1>10. CASE interrupt = "approval" /\ Shows(Prompt!Behind(ui), interrupt) /\ run' = run
              /\ epoch' = epoch
  <2>1. Ui(ui', EditorOf(Prompt!Behind(ui)), StashOf(Prompt!Behind(ui)), ui.skill,
          "approval", (ui.deferred \/ ui.dialog = "confirm"), ui.running)
    BY <1>10, <1>1, <1>2 DEF Shows, Ui
  <2>2. Put(Prompt!Behind(ui))
    BY <1>1, <1>2, PutIs
  <2>a. PromptSound'
    BY <1>2, <1>6, <1>10, <2>1, <2>2 DEF Prompt!TypeOK, OnlyTyped, UIs, Ui, Put, Prompt!Aside,
       RunningWorks, Prompt!Alive
  <2>b. StepKeeps
    BY <1>2, <1>6, <1>10, <2>1, <2>2 DEF DraftStep, Ui, Put, AllowStep, Prompt!TypeOK,
       ConfirmStep, StepKeeps
  <2>c. ASSUME ~Hasty, PromptQuiet PROVE PromptQuiet'
    BY <1>2, <1>5, <1>6, <1>10, <2>1, <2>2, <2>c DEF PromptQuiet, RunsAlone, RunAlone,
       DialogsApart, Prompt!TypeOK, Ui, Prompt!Alive, Prompt!Interrupts, Prompt!Calm, Put,
       Prompt!TypedKept, Prompt!Aside, Prompt!DraftAssumption, ConfirmBack,
       Prompt!ConfirmComesBack
  <2> QED
    BY <2>a, <2>b, <2>c
<1>11. CASE interrupt # "approval" /\ Shows(Prompt!Behind(ui), interrupt) /\ run' = run
              /\ epoch' = epoch
  <2>1. Ui(ui', ui.editor, ui.stash, ui.skill, interrupt, (ui.deferred
          \/ ui.dialog = "confirm"), ui.running) /\ interrupt \in {"human", "pause"}
    BY <1>11, <1>1, <1>2 DEF Shows, Ui
  <2>a. PromptSound'
    BY <1>6, <1>11, <2>1 DEF Prompt!TypeOK, OnlyTyped, UIs, Ui, Prompt!Aside, RunningWorks,
       Prompt!Alive
  <2>b. StepKeeps
    BY <1>6, <1>11, <2>1 DEF DraftStep, Ui, AllowStep, Prompt!TypeOK, ConfirmStep, StepKeeps
  <2>c. ASSUME ~Hasty, PromptQuiet PROVE PromptQuiet'
    BY <1>5, <1>6, <1>11, <2>1, <2>c DEF PromptQuiet, RunsAlone, RunAlone, DialogsApart,
       Prompt!TypeOK, Ui, Prompt!Alive, Prompt!Interrupts, Prompt!Calm, Prompt!TypedKept,
       Prompt!Aside, Prompt!DraftAssumption, ConfirmBack, Prompt!ConfirmComesBack
  <2> QED
    BY <2>a, <2>b, <2>c
<1> QED
  BY <1>7, <1>8, <1>9, <1>10, <1>11

\* A run's dialog answered: the draft comes back, and the answer starts a run.
LEMMA EnterInterruptKeeps ==
  ASSUME PromptSound, Prompt!EnterInterrupt
  PROVE  PromptSound' /\ StepKeeps /\ (~Hasty /\ PromptQuiet => PromptQuiet')
<1> USE DEF PromptSound
<1>1. ui \in UIs /\ ui.editor \subseteq Texts /\ run \in [Workers -> Runs]
        /\ queue \subseteq Texts
  BY DEF Prompt!TypeOK, UIs, Runs
<1>2. Ui(Prompt!Accepted, {}, ui.stash, ui.skill, "none", ui.deferred, ui.running)
  BY <1>1, AcceptedIs
<1>3. Prompt!Accepted \in UIs
  BY <1>2 DEF Ui
<1>4. ui.dialog \in Prompt!Interrupts /\ spent' = spent \cup ui.editor
  BY DEF Prompt!EnterInterrupt, Prompt!ToHistory
<1>5. UNCHANGED <<typed, queue, interrupt, permission, pendingMode, switch, compacting,
        skillLoading>>
  BY DEF Prompt!EnterInterrupt, Prompt!modeVars, Prompt!bgVars
<1>6. CASE ui.dialog = "approval"
  <2>1. Ui(Prompt!Restored(Prompt!Accepted), IF ui.stash = NoDraft THEN {} ELSE ui.stash,
          NoDraft, ui.skill, "none", ui.deferred, ui.running)
    BY <1>2, <1>3, RestoredIs DEF Ui
  <2>2. Prompt!Restored(Prompt!Accepted) \in UIs
    BY <2>1 DEF Ui
  <2>3. Prompt!Start(Prompt!Restored(Prompt!Accepted), ui.dialog, Prompt!Free)
          /\ ui.dialog \in Prompt!Kinds /\ Prompt!Free \in SUBSET Workers
    BY <1>6 DEF Prompt!EnterInterrupt, Prompt!Kinds, Prompt!Interrupts, Prompt!Free
  <2>4. Ui(ui', IF ui.stash = NoDraft THEN {} ELSE ui.stash, NoDraft, ui.skill, "none",
          ui.deferred, TRUE) /\ Starts(ui.dialog, Prompt!Free)
    BY <1>6, <1>1, <1>2, <1>3, <2>1, <2>2, <2>3, StartIs DEF Ui
  <2>a. PromptSound'
    BY <1>4, <1>5, <2>4 DEF Prompt!TypeOK, OnlyTyped, UIs, Runs, Ui, Starts, Prompt!Free,
       Prompt!Kinds, Prompt!Aside, RunningWorks, Prompt!Alive
  <2>b. StepKeeps
    BY <1>5, <2>4 DEF DraftStep, Ui, AllowStep, Prompt!TypeOK, ConfirmStep, Starts,
       Prompt!Free, Prompt!Alive, StepKeeps
  <2>c. ASSUME ~Hasty, PromptQuiet PROVE PromptQuiet'
    BY <1>4, <1>5, <2>4, <2>c DEF PromptQuiet, RunsAlone, RunAlone, DialogsApart,
       Prompt!TypeOK, Ui, Prompt!Alive, Starts, Prompt!Interrupts, Prompt!Kinds,
       Prompt!TypedKept, Prompt!Aside, ConfirmBack, Prompt!ConfirmComesBack
  <2> QED
    BY <2>a, <2>b, <2>c
<1>7. CASE ui.dialog # "approval"
  <2>1. Prompt!Start(Prompt!Accepted, ui.dialog, Prompt!Free)
          /\ ui.dialog \in Prompt!Kinds /\ Prompt!Free \in SUBSET Workers
    BY <1>7 DEF Prompt!EnterInterrupt, Prompt!Kinds, Prompt!Interrupts, Prompt!Free
  <2>2. Ui(ui', {}, ui.stash, ui.skill, "none", ui.deferred, TRUE)
          /\ Starts(ui.dialog, Prompt!Free)
    BY <1>7, <1>1, <1>2, <1>3, <2>1, StartIs DEF Ui
  <2>a. PromptSound'
    BY <1>4, <1>5, <2>2 DEF Prompt!TypeOK, OnlyTyped, UIs, Runs, Ui, Starts, Prompt!Free,
       Prompt!Kinds, Prompt!Aside, RunningWorks, Prompt!Alive
  <2>b. StepKeeps
    BY <1>5, <2>2 DEF DraftStep, Ui, AllowStep, Prompt!TypeOK, ConfirmStep, Starts,
       Prompt!Free, Prompt!Alive, StepKeeps
  <2>c. ASSUME ~Hasty, PromptQuiet PROVE PromptQuiet'
    BY <1>4, <1>5, <1>7, <2>2, <2>c DEF PromptQuiet, RunsAlone, RunAlone, DialogsApart,
       Prompt!TypeOK, Ui, Prompt!Alive, Starts, Prompt!Interrupts, Prompt!Kinds,
       Prompt!TypedKept, Prompt!Aside, ConfirmBack, Prompt!ConfirmComesBack
  <2> QED
    BY <2>a, <2>b, <2>c
<1> QED
  BY <1>6, <1>7

\* A session chosen in the picker: shown, waited for or refused.
LEMMA EnterResumeKeeps ==
  ASSUME Prompt!DraftAssumption, PromptSound, Prompt!EnterResume
  PROVE  PromptSound' /\ StepKeeps /\ (~Hasty /\ PromptQuiet => PromptQuiet')
<1> USE DEF PromptSound
<1>1. ui \in UIs /\ ui.editor \subseteq Texts /\ run \in [Workers -> Runs]
        /\ queue \subseteq Texts
  BY DEF Prompt!TypeOK, UIs, Runs
<1>2. Ui(Prompt!Accepted, {}, ui.stash, ui.skill, "none", ui.deferred, ui.running)
  BY <1>1, AcceptedIs
<1>3. Prompt!Accepted \in UIs
  BY <1>2 DEF Ui
<1>4. Ui(Prompt!TakenBack(Prompt!Accepted), queue, ui.stash, ui.skill, "none", ui.deferred,
        ui.running)
  BY <1>1, <1>2, <1>3, TakenBackIs DEF Ui
<1>5. Prompt!TakenBack(Prompt!Accepted) \in UIs
  BY <1>1, <1>2, <1>3, <1>4 DEF Ui
<1>6. Ui(Prompt!ResetView(Prompt!TakenBack(Prompt!Accepted)), queue, ui.stash, NoDraft,
        "none", FALSE, ui.running)
  BY <1>1, <1>2, <1>3, <1>4, <1>5, ResetViewIs DEF Ui
<1>7. ui.dialog = "resume" /\ spent' = spent \cup ui.editor /\ queue' = {}
        /\ (Hasty \/ Prompt!Calm)
  BY DEF Prompt!EnterResume, Prompt!ToHistory
<1>8. UNCHANGED <<typed, compacting, skillLoading>>
  BY DEF Prompt!EnterResume, Prompt!runVars, Prompt!modeVars
<1>9. \/ switch' = switch /\ ~compacting /\ permission' \in {"ask", "allow"}
           /\ pendingMode' = "none"
             /\ interrupt' = "boundary"
                  /\ Resumes(Prompt!ResetView(Prompt!TakenBack(Prompt!Accepted)), Prompt!Free)
      \/ switch' = switch /\ ~compacting /\ permission' \in {"ask", "allow"}
           /\ pendingMode' = "none"
             /\ interrupt' = "none"
                  /\ ui' = Prompt!ResetView(Prompt!TakenBack(Prompt!Accepted))
                  /\ run' = run /\ epoch' = epoch
      \/ switch' = switch /\ ~compacting /\ permission' \in {"ask", "allow"}
           /\ pendingMode' = "none"
             /\ interrupt' \in Prompt!Interrupts
                  /\ Shows(Prompt!ResetView(Prompt!TakenBack(Prompt!Accepted)),
                  interrupt') /\ run' = run /\ epoch' = epoch
      \/ ui' = Prompt!EnterWait(Prompt!TakenBack(Prompt!Accepted)) /\ switch' = "waiting"
             /\ interrupt' = interrupt /\ permission' = permission
                  /\ pendingMode' = pendingMode /\ run' = run /\ epoch' = epoch
      \/ ui' = Prompt!TakenBack(Prompt!Accepted) /\ switch' = switch
             /\ interrupt' = interrupt /\ permission' = permission
                  /\ pendingMode' = pendingMode /\ run' = run /\ epoch' = epoch
  BY <1>5, SnapshotIs DEF Prompt!EnterResume, Shows, Prompt!Interrupts, Prompt!Failed,
     Prompt!runVars, Prompt!modeVars, Prompt!Busy
<1>10. CASE switch' = switch /\ ~compacting /\ permission' \in {"ask", "allow"}
              /\ pendingMode' = "none"
             /\ interrupt' = "boundary"
                  /\ Resumes(Prompt!ResetView(Prompt!TakenBack(Prompt!Accepted)), Prompt!Free)
  <2>1. Ui(ui', queue, ui.stash, NoDraft, "none", FALSE, TRUE)
          /\ Starts("boundary", Prompt!Free)
    BY <1>10, <1>1, <1>2, <1>3, <1>4, <1>6 DEF Resumes, Ui
  <2>a. PromptSound'
    BY <1>7, <1>8, <1>10, <2>1 DEF Prompt!TypeOK, OnlyTyped, UIs, Runs, Ui, Starts,
       Prompt!Free, Prompt!Interrupts, Prompt!Aside, RunningWorks, Prompt!Alive
  <2>b. StepKeeps
    BY <1>7, <2>1 DEF DraftStep, Ui, AllowStep, Prompt!TypeOK, ConfirmStep, Starts,
       Prompt!Free, Prompt!Alive, StepKeeps
  <2>c. ASSUME ~Hasty, PromptQuiet PROVE PromptQuiet'
    BY <1>7, <1>8, <1>10, <2>1, <2>c DEF PromptQuiet, RunsAlone, RunAlone, DialogsApart,
       Prompt!TypeOK, Ui, Prompt!Alive, Starts, Prompt!Interrupts, Prompt!Calm,
       Prompt!TypedKept, Prompt!Aside, Prompt!DraftAssumption, ConfirmBack,
       Prompt!ConfirmComesBack
  <2> QED
    BY <2>a, <2>b, <2>c
<1>11. CASE switch' = switch /\ ~compacting /\ permission' \in {"ask", "allow"}
              /\ pendingMode' = "none"
             /\ interrupt' = "none"
                  /\ ui' = Prompt!ResetView(Prompt!TakenBack(Prompt!Accepted))
                  /\ run' = run /\ epoch' = epoch
  <2>1. Ui(ui', queue, ui.stash, NoDraft, "none", FALSE, ui.running)
    BY <1>11, <1>1, <1>2, <1>3, <1>4, <1>6 DEF Ui
  <2>a. PromptSound'
    BY <1>7, <1>8, <1>11, <2>1 DEF Prompt!TypeOK, OnlyTyped, UIs, Ui, Prompt!Interrupts,
       Prompt!Aside, RunningWorks, Prompt!Alive
  <2>b. StepKeeps
    BY <1>7, <2>1 DEF DraftStep, Ui, AllowStep, Prompt!TypeOK, ConfirmStep, StepKeeps
  <2>c. ASSUME ~Hasty, PromptQuiet PROVE PromptQuiet'
    BY <1>7, <1>8, <1>11, <2>1, <2>c DEF PromptQuiet, RunsAlone, RunAlone, DialogsApart,
       Prompt!TypeOK, Ui, Prompt!Alive, Prompt!Interrupts, Prompt!Calm, Prompt!TypedKept,
       Prompt!Aside, Prompt!DraftAssumption, ConfirmBack, Prompt!ConfirmComesBack
  <2> QED
    BY <2>a, <2>b, <2>c
<1>12. CASE switch' = switch /\ ~compacting /\ permission' \in {"ask", "allow"}
              /\ pendingMode' = "none"
             /\ interrupt' = "approval"
                  /\ Shows(Prompt!ResetView(Prompt!TakenBack(Prompt!Accepted)),
                  interrupt') /\ run' = run /\ epoch' = epoch
  <2>1. Ui(ui', EditorOf(Prompt!ResetView(Prompt!TakenBack(Prompt!Accepted))),
          StashOf(Prompt!ResetView(Prompt!TakenBack(Prompt!Accepted))), NoDraft, "approval",
          FALSE, ui.running)
    BY <1>12, <1>1, <1>2, <1>3, <1>4, <1>6 DEF Shows, Ui
  <2>2. Put(Prompt!ResetView(Prompt!TakenBack(Prompt!Accepted)))
    BY <1>1, <1>2, <1>3, <1>4, <1>6, PutIs
  <2>a. PromptSound'
    BY <1>6, <1>7, <1>8, <1>9, <1>12, <2>1, <2>2 DEF Prompt!TypeOK, OnlyTyped, UIs, Ui,
       Prompt!Free, Put, Shows, Prompt!Interrupts, Prompt!Aside, RunningWorks, Prompt!Alive
  <2>b. StepKeeps
    BY <1>6, <1>7, <1>8, <1>9, <1>12, <2>1, <2>2 DEF DraftStep, Ui, Put, AllowStep,
       Prompt!TypeOK, ConfirmStep, Prompt!Free, Prompt!Alive, StepKeeps
  <2>c. ASSUME ~Hasty, PromptQuiet PROVE PromptQuiet'
    BY <1>6, <1>7, <1>8, <1>9, <1>12, <2>1, <2>2, <2>c DEF PromptQuiet, RunsAlone, RunAlone,
       DialogsApart, Prompt!TypeOK, Ui, Prompt!Alive, Prompt!Interrupts, Prompt!Calm, Put,
       Prompt!TypedKept, Prompt!Aside, Prompt!DraftAssumption, ConfirmBack,
       Prompt!ConfirmComesBack
  <2> QED
    BY <2>a, <2>b, <2>c
<1>13. CASE switch' = switch /\ ~compacting /\ permission' \in {"ask", "allow"}
              /\ pendingMode' = "none"
             /\ interrupt' # "approval"
                  /\ Shows(Prompt!ResetView(Prompt!TakenBack(Prompt!Accepted)),
                  interrupt') /\ run' = run /\ epoch' = epoch
  <2>1. Ui(ui', queue, ui.stash, NoDraft, interrupt', FALSE, ui.running)
          /\ interrupt' \in {"human", "pause"}
    BY <1>13, <1>1, <1>2, <1>3, <1>4, <1>6 DEF Shows, Ui
  <2>a. PromptSound'
    BY <1>7, <1>8, <1>13, <2>1 DEF Prompt!TypeOK, OnlyTyped, UIs, Ui, Shows,
       Prompt!Interrupts, Prompt!Aside, RunningWorks, Prompt!Alive
  <2>b. StepKeeps
    BY <1>7, <2>1 DEF DraftStep, Ui, AllowStep, Prompt!TypeOK, ConfirmStep, StepKeeps
  <2>c. ASSUME ~Hasty, PromptQuiet PROVE PromptQuiet'
    BY <1>7, <1>8, <1>13, <2>1, <2>c DEF PromptQuiet, RunsAlone, RunAlone, DialogsApart,
       Prompt!TypeOK, Ui, Prompt!Alive, Prompt!Interrupts, Prompt!Calm, Prompt!TypedKept,
       Prompt!Aside, Prompt!DraftAssumption, ConfirmBack, Prompt!ConfirmComesBack
  <2> QED
    BY <2>a, <2>b, <2>c
<1>14. CASE ui' = Prompt!EnterWait(Prompt!TakenBack(Prompt!Accepted)) /\ switch' = "waiting"
             /\ interrupt' = interrupt /\ permission' = permission
                  /\ pendingMode' = pendingMode /\ run' = run /\ epoch' = epoch
  <2>1. Ui(ui', queue, ui.stash, ui.skill, "none", FALSE, ui.running)
    BY <1>14, <1>5, <1>1, <1>2, <1>3, <1>4, EnterWaitIs DEF Ui
  <2>a. PromptSound'
    BY <1>7, <1>8, <1>14, <2>1 DEF Prompt!TypeOK, OnlyTyped, UIs, Ui, Prompt!Interrupts,
       Prompt!Aside, RunningWorks, Prompt!Alive
  <2>b. StepKeeps
    BY <1>14, <2>1 DEF DraftStep, Ui, AllowStep, Prompt!TypeOK, ConfirmStep, StepKeeps
  <2>c. ASSUME ~Hasty, PromptQuiet PROVE PromptQuiet'
    BY <1>7, <1>8, <1>14, <2>1, <2>c DEF PromptQuiet, RunsAlone, RunAlone, DialogsApart,
       Prompt!TypeOK, Ui, Prompt!Alive, Prompt!Interrupts, Prompt!Calm, Prompt!TypedKept,
       Prompt!Aside, Prompt!DraftAssumption, ConfirmBack, Prompt!ConfirmComesBack
  <2> QED
    BY <2>a, <2>b, <2>c
<1>15. CASE ui' = Prompt!TakenBack(Prompt!Accepted) /\ switch' = switch
             /\ interrupt' = interrupt /\ permission' = permission
                  /\ pendingMode' = pendingMode /\ run' = run /\ epoch' = epoch
  <2>1. Ui(ui', queue, ui.stash, ui.skill, "none", ui.deferred, ui.running)
    BY <1>15, <1>5, <1>1, <1>2, <1>3, <1>4 DEF Ui
  <2>a. PromptSound'
    BY <1>7, <1>8, <1>15, <2>1 DEF Prompt!TypeOK, OnlyTyped, UIs, Ui, Prompt!Interrupts,
       Prompt!Aside, RunningWorks, Prompt!Alive
  <2>b. StepKeeps
    BY <1>15, <2>1 DEF DraftStep, Ui, AllowStep, Prompt!TypeOK, ConfirmStep, StepKeeps
  <2>c. ASSUME ~Hasty, PromptQuiet PROVE PromptQuiet'
    BY <1>7, <1>8, <1>15, <2>1, <2>c DEF PromptQuiet, RunsAlone, RunAlone, DialogsApart,
       Prompt!TypeOK, Ui, Prompt!Alive, Prompt!Interrupts, Prompt!Calm, Prompt!TypedKept,
       Prompt!Aside, Prompt!DraftAssumption, ConfirmBack, Prompt!ConfirmComesBack
  <2> QED
    BY <2>a, <2>b, <2>c
<1> QED
  BY <1>9, <1>10, <1>11, <1>12, <1>13, <1>14, <1>15

\* The session asked for by its id: shown, waited for or refused.
LEMMA LoadedKeeps ==
  ASSUME Prompt!DraftAssumption, PromptSound, Prompt!Loaded
  PROVE  PromptSound' /\ StepKeeps /\ (~Hasty /\ PromptQuiet => PromptQuiet')
<1> USE DEF PromptSound
<1>1. ui \in UIs /\ ui.editor \subseteq Texts /\ run \in [Workers -> Runs]
        /\ queue \subseteq Texts
  BY DEF Prompt!TypeOK, UIs, Runs
<1>2. ui \in UIs
  BY <1>1
<1>3. Ui(Prompt!ResetView(ui), ui.editor, ui.stash, NoDraft, "none", FALSE, ui.running)
  BY <1>1, <1>2, ResetViewIs DEF Ui
<1>4. switch = "loading"
  BY DEF Prompt!Loaded
<1>5. UNCHANGED <<typed, spent, queue, compacting, skillLoading>>
  BY DEF Prompt!Loaded, Prompt!runVars, Prompt!modeVars
<1>6. \/ switch' = "none" /\ permission' \in {"ask", "allow"} /\ pendingMode' = "none"
             /\ interrupt' = "boundary" /\ Resumes(Prompt!ResetView(ui), Prompt!Free)
      \/ switch' = "none" /\ permission' \in {"ask", "allow"} /\ pendingMode' = "none"
             /\ interrupt' = "none" /\ ui' = Prompt!ResetView(ui) /\ run' = run
                  /\ epoch' = epoch
      \/ switch' = "none" /\ permission' \in {"ask", "allow"} /\ pendingMode' = "none"
             /\ interrupt' \in Prompt!Interrupts
                  /\ Shows(Prompt!ResetView(ui), interrupt') /\ run' = run /\ epoch' = epoch
      \/ ui' = Prompt!EnterWait(ui) /\ switch' = "waiting"
             /\ interrupt' = interrupt /\ permission' = permission
                  /\ pendingMode' = pendingMode /\ run' = run /\ epoch' = epoch
      \/ ui' = ui /\ switch' = "none"
             /\ interrupt' = interrupt /\ permission' = permission
                  /\ pendingMode' = pendingMode /\ run' = run /\ epoch' = epoch
  BY <1>2, SnapshotIs DEF Prompt!Loaded, Shows, Prompt!Interrupts, Prompt!Failed,
     Prompt!runVars, Prompt!modeVars
<1>7. CASE switch' = "none" /\ permission' \in {"ask", "allow"} /\ pendingMode' = "none"
             /\ interrupt' = "boundary" /\ Resumes(Prompt!ResetView(ui), Prompt!Free)
  <2>1. Ui(ui', ui.editor, ui.stash, NoDraft, "none", FALSE, TRUE)
          /\ Starts("boundary", Prompt!Free)
    BY <1>7, <1>1, <1>3 DEF Resumes, Ui
  <2>a. PromptSound'
    BY <1>5, <1>7, <2>1 DEF Prompt!TypeOK, OnlyTyped, UIs, Runs, Ui, Starts, Prompt!Free,
       Prompt!Interrupts, Prompt!Aside, RunningWorks, Prompt!Alive
  <2>b. StepKeeps
    BY <1>4, <2>1 DEF DraftStep, Ui, AllowStep, Prompt!TypeOK, ConfirmStep, Starts,
       Prompt!Free, Prompt!Alive, StepKeeps
  <2>c. ASSUME ~Hasty, PromptQuiet PROVE PromptQuiet'
    BY <1>4, <1>5, <1>7, <2>1, <2>c DEF PromptQuiet, RunsAlone, RunAlone, DialogsApart,
       Prompt!TypeOK, Ui, Prompt!Alive, Starts, Prompt!Interrupts, Prompt!TypedKept,
       Prompt!Aside, Prompt!DraftAssumption, ConfirmBack, Prompt!ConfirmComesBack
  <2> QED
    BY <2>a, <2>b, <2>c
<1>8. CASE switch' = "none" /\ permission' \in {"ask", "allow"} /\ pendingMode' = "none"
             /\ interrupt' = "none" /\ ui' = Prompt!ResetView(ui) /\ run' = run
                  /\ epoch' = epoch
  <2>1. Ui(ui', ui.editor, ui.stash, NoDraft, "none", FALSE, ui.running)
    BY <1>8, <1>1, <1>3 DEF Ui
  <2>a. PromptSound'
    BY <1>5, <1>8, <2>1 DEF Prompt!TypeOK, OnlyTyped, UIs, Ui, Prompt!Interrupts,
       Prompt!Aside, RunningWorks, Prompt!Alive
  <2>b. StepKeeps
    BY <1>4, <1>8, <2>1 DEF DraftStep, Ui, AllowStep, Prompt!TypeOK, ConfirmStep, StepKeeps
  <2>c. ASSUME ~Hasty, PromptQuiet PROVE PromptQuiet'
    BY <1>4, <1>5, <1>8, <2>1, <2>c DEF PromptQuiet, RunsAlone, RunAlone, DialogsApart,
       Prompt!TypeOK, Ui, Prompt!Alive, Prompt!Interrupts, Prompt!TypedKept, Prompt!Aside,
       Prompt!DraftAssumption, ConfirmBack, Prompt!ConfirmComesBack
  <2> QED
    BY <2>a, <2>b, <2>c
<1>9. CASE switch' = "none" /\ permission' \in {"ask", "allow"} /\ pendingMode' = "none"
             /\ interrupt' = "approval" /\ Shows(Prompt!ResetView(ui), interrupt')
                  /\ run' = run /\ epoch' = epoch
  <2>1. Ui(ui', EditorOf(Prompt!ResetView(ui)), StashOf(Prompt!ResetView(ui)), NoDraft,
          "approval", FALSE, ui.running)
    BY <1>9, <1>1, <1>3 DEF Shows, Ui
  <2>2. Put(Prompt!ResetView(ui))
    BY <1>1, <1>3, PutIs
  <2>a. PromptSound'
    BY <1>3, <1>5, <1>9, <2>1, <2>2 DEF Prompt!TypeOK, OnlyTyped, UIs, Ui, Put, Shows,
       Prompt!Interrupts, Prompt!Aside, RunningWorks, Prompt!Alive
  <2>b. StepKeeps
    BY <1>3, <1>4, <1>9, <2>1, <2>2 DEF DraftStep, Ui, Put, AllowStep, Prompt!TypeOK,
       ConfirmStep, StepKeeps
  <2>c. ASSUME ~Hasty, PromptQuiet PROVE PromptQuiet'
    BY <1>3, <1>4, <1>5, <1>9, <2>1, <2>2, <2>c DEF PromptQuiet, RunsAlone, RunAlone,
       DialogsApart, Prompt!TypeOK, Ui, Prompt!Alive, Prompt!Interrupts, Put,
       Prompt!TypedKept, Prompt!Aside, Prompt!DraftAssumption, ConfirmBack,
       Prompt!ConfirmComesBack
  <2> QED
    BY <2>a, <2>b, <2>c
<1>10. CASE switch' = "none" /\ permission' \in {"ask", "allow"} /\ pendingMode' = "none"
             /\ interrupt' # "approval" /\ Shows(Prompt!ResetView(ui), interrupt')
                  /\ run' = run /\ epoch' = epoch
  <2>1. Ui(ui', ui.editor, ui.stash, NoDraft, interrupt', FALSE, ui.running)
          /\ interrupt' \in {"human", "pause"}
    BY <1>10, <1>1, <1>3 DEF Shows, Ui
  <2>a. PromptSound'
    BY <1>5, <1>10, <2>1 DEF Prompt!TypeOK, OnlyTyped, UIs, Ui, Shows, Prompt!Interrupts,
       Prompt!Aside, RunningWorks, Prompt!Alive
  <2>b. StepKeeps
    BY <1>4, <1>10, <2>1 DEF DraftStep, Ui, AllowStep, Prompt!TypeOK, ConfirmStep, StepKeeps
  <2>c. ASSUME ~Hasty, PromptQuiet PROVE PromptQuiet'
    BY <1>4, <1>5, <1>10, <2>1, <2>c DEF PromptQuiet, RunsAlone, RunAlone, DialogsApart,
       Prompt!TypeOK, Ui, Prompt!Alive, Prompt!Interrupts, Prompt!TypedKept, Prompt!Aside,
       Prompt!DraftAssumption, ConfirmBack, Prompt!ConfirmComesBack
  <2> QED
    BY <2>a, <2>b, <2>c
<1>11. CASE ui' = Prompt!EnterWait(ui) /\ switch' = "waiting"
             /\ interrupt' = interrupt /\ permission' = permission
                  /\ pendingMode' = pendingMode /\ run' = run /\ epoch' = epoch
  <2>1. Ui(ui', ui.editor, ui.stash, ui.skill, "none", FALSE, ui.running)
    BY <1>11, <1>2, <1>1, EnterWaitIs DEF Ui
  <2>a. PromptSound'
    BY <1>5, <1>11, <2>1 DEF Prompt!TypeOK, OnlyTyped, UIs, Ui, Prompt!Interrupts,
       Prompt!Aside, RunningWorks, Prompt!Alive
  <2>b. StepKeeps
    BY <1>11, <2>1 DEF DraftStep, Ui, AllowStep, Prompt!TypeOK, ConfirmStep, StepKeeps
  <2>c. ASSUME ~Hasty, PromptQuiet PROVE PromptQuiet'
    BY <1>4, <1>5, <1>11, <2>1, <2>c DEF PromptQuiet, RunsAlone, RunAlone, DialogsApart,
       Prompt!TypeOK, Ui, Prompt!Alive, Prompt!Interrupts, Prompt!TypedKept, Prompt!Aside,
       Prompt!DraftAssumption, ConfirmBack, Prompt!ConfirmComesBack
  <2> QED
    BY <2>a, <2>b, <2>c
<1>12. CASE ui' = ui /\ switch' = "none"
             /\ interrupt' = interrupt /\ permission' = permission
                  /\ pendingMode' = pendingMode /\ run' = run /\ epoch' = epoch
  <2>a. PromptSound'
    BY <1>5, <1>12 DEF Prompt!TypeOK, OnlyTyped, Prompt!Interrupts, Prompt!Aside,
       RunningWorks, Prompt!Alive
  <2>b. StepKeeps
    BY <1>12 DEF DraftStep, AllowStep, Prompt!TypeOK, ConfirmStep, StepKeeps
  <2>c. ASSUME ~Hasty, PromptQuiet PROVE PromptQuiet'
    BY <1>5, <1>12, <2>c DEF PromptQuiet, RunsAlone, RunAlone, DialogsApart, Prompt!TypeOK,
       Prompt!Alive, Prompt!Interrupts, Prompt!TypedKept, Prompt!Aside,
       Prompt!DraftAssumption, ConfirmBack, Prompt!ConfirmComesBack
  <2> QED
    BY <2>a, <2>b, <2>c
<1> QED
  BY <1>6, <1>7, <1>8, <1>9, <1>10, <1>11, <1>12

\* The session waited for is free, or given up.
LEMMA WaitEndsKeeps ==
  ASSUME Prompt!DraftAssumption, PromptSound, Prompt!WaitEnds
  PROVE  PromptSound' /\ StepKeeps /\ (~Hasty /\ PromptQuiet => PromptQuiet')
<1> USE DEF PromptSound
<1>1. ui \in UIs /\ ui.editor \subseteq Texts /\ run \in [Workers -> Runs]
        /\ queue \subseteq Texts
  BY DEF Prompt!TypeOK, UIs, Runs
<1>2. ui \in UIs
  BY <1>1
<1>3. Ui(Prompt!ResetView(ui), ui.editor, ui.stash, NoDraft, "none", FALSE, ui.running)
  BY <1>1, <1>2, ResetViewIs DEF Ui
<1>4. switch = "waiting"
  BY DEF Prompt!WaitEnds
<1>5. UNCHANGED <<typed, spent, queue, compacting, skillLoading>>
  BY DEF Prompt!WaitEnds
<1>6. \/ switch' = "none" /\ permission' \in {"ask", "allow"} /\ pendingMode' = "none"
             /\ interrupt' = "boundary" /\ Resumes(Prompt!ResetView(ui), Prompt!Free)
      \/ switch' = "none" /\ permission' \in {"ask", "allow"} /\ pendingMode' = "none"
             /\ interrupt' = "none" /\ ui' = Prompt!ResetView(ui) /\ run' = run
                  /\ epoch' = epoch
      \/ switch' = "none" /\ permission' \in {"ask", "allow"} /\ pendingMode' = "none"
             /\ interrupt' \in Prompt!Interrupts
                  /\ Shows(Prompt!ResetView(ui), interrupt') /\ run' = run /\ epoch' = epoch
      \/ ui' = ui /\ switch' = "none"
             /\ interrupt' = interrupt /\ permission' = permission
                  /\ pendingMode' = pendingMode /\ run' = run /\ epoch' = epoch
  BY <1>2, SnapshotIs DEF Prompt!WaitEnds, Shows, Prompt!Interrupts, Prompt!Failed,
     Prompt!runVars, Prompt!modeVars
<1>7. CASE switch' = "none" /\ permission' \in {"ask", "allow"} /\ pendingMode' = "none"
             /\ interrupt' = "boundary" /\ Resumes(Prompt!ResetView(ui), Prompt!Free)
  <2>1. Ui(ui', ui.editor, ui.stash, NoDraft, "none", FALSE, TRUE)
          /\ Starts("boundary", Prompt!Free)
    BY <1>7, <1>1, <1>3 DEF Resumes, Ui
  <2>a. PromptSound'
    BY <1>5, <1>7, <2>1 DEF Prompt!TypeOK, OnlyTyped, UIs, Runs, Ui, Starts, Prompt!Free,
       Prompt!Interrupts, Prompt!Aside, RunningWorks, Prompt!Alive
  <2>b. StepKeeps
    BY <1>4, <2>1 DEF DraftStep, Ui, AllowStep, Prompt!TypeOK, ConfirmStep, Starts,
       Prompt!Free, Prompt!Alive, StepKeeps
  <2>c. ASSUME ~Hasty, PromptQuiet PROVE PromptQuiet'
    BY <1>4, <1>5, <1>7, <2>1, <2>c DEF PromptQuiet, RunsAlone, RunAlone, DialogsApart,
       Prompt!TypeOK, Ui, Prompt!Alive, Starts, Prompt!Interrupts, Prompt!TypedKept,
       Prompt!Aside, Prompt!DraftAssumption, ConfirmBack, Prompt!ConfirmComesBack
  <2> QED
    BY <2>a, <2>b, <2>c
<1>8. CASE switch' = "none" /\ permission' \in {"ask", "allow"} /\ pendingMode' = "none"
             /\ interrupt' = "none" /\ ui' = Prompt!ResetView(ui) /\ run' = run
                  /\ epoch' = epoch
  <2>1. Ui(ui', ui.editor, ui.stash, NoDraft, "none", FALSE, ui.running)
    BY <1>8, <1>1, <1>3 DEF Ui
  <2>a. PromptSound'
    BY <1>5, <1>8, <2>1 DEF Prompt!TypeOK, OnlyTyped, UIs, Ui, Prompt!Interrupts,
       Prompt!Aside, RunningWorks, Prompt!Alive
  <2>b. StepKeeps
    BY <1>4, <1>8, <2>1 DEF DraftStep, Ui, AllowStep, Prompt!TypeOK, ConfirmStep, StepKeeps
  <2>c. ASSUME ~Hasty, PromptQuiet PROVE PromptQuiet'
    BY <1>4, <1>5, <1>8, <2>1, <2>c DEF PromptQuiet, RunsAlone, RunAlone, DialogsApart,
       Prompt!TypeOK, Ui, Prompt!Alive, Prompt!Interrupts, Prompt!TypedKept, Prompt!Aside,
       Prompt!DraftAssumption, ConfirmBack, Prompt!ConfirmComesBack
  <2> QED
    BY <2>a, <2>b, <2>c
<1>9. CASE switch' = "none" /\ permission' \in {"ask", "allow"} /\ pendingMode' = "none"
             /\ interrupt' = "approval" /\ Shows(Prompt!ResetView(ui), interrupt')
                  /\ run' = run /\ epoch' = epoch
  <2>1. Ui(ui', EditorOf(Prompt!ResetView(ui)), StashOf(Prompt!ResetView(ui)), NoDraft,
          "approval", FALSE, ui.running)
    BY <1>9, <1>1, <1>3 DEF Shows, Ui
  <2>2. Put(Prompt!ResetView(ui))
    BY <1>1, <1>3, PutIs
  <2>a. PromptSound'
    BY <1>3, <1>5, <1>9, <2>1, <2>2 DEF Prompt!TypeOK, OnlyTyped, UIs, Ui, Put, Shows,
       Prompt!Interrupts, Prompt!Aside, RunningWorks, Prompt!Alive
  <2>b. StepKeeps
    BY <1>3, <1>4, <1>9, <2>1, <2>2 DEF DraftStep, Ui, Put, AllowStep, Prompt!TypeOK,
       ConfirmStep, StepKeeps
  <2>c. ASSUME ~Hasty, PromptQuiet PROVE PromptQuiet'
    BY <1>3, <1>4, <1>5, <1>9, <2>1, <2>2, <2>c DEF PromptQuiet, RunsAlone, RunAlone,
       DialogsApart, Prompt!TypeOK, Ui, Prompt!Alive, Prompt!Interrupts, Put,
       Prompt!TypedKept, Prompt!Aside, Prompt!DraftAssumption, ConfirmBack,
       Prompt!ConfirmComesBack
  <2> QED
    BY <2>a, <2>b, <2>c
<1>10. CASE switch' = "none" /\ permission' \in {"ask", "allow"} /\ pendingMode' = "none"
             /\ interrupt' # "approval" /\ Shows(Prompt!ResetView(ui), interrupt')
                  /\ run' = run /\ epoch' = epoch
  <2>1. Ui(ui', ui.editor, ui.stash, NoDraft, interrupt', FALSE, ui.running)
          /\ interrupt' \in {"human", "pause"}
    BY <1>10, <1>1, <1>3 DEF Shows, Ui
  <2>a. PromptSound'
    BY <1>5, <1>10, <2>1 DEF Prompt!TypeOK, OnlyTyped, UIs, Ui, Shows, Prompt!Interrupts,
       Prompt!Aside, RunningWorks, Prompt!Alive
  <2>b. StepKeeps
    BY <1>4, <1>10, <2>1 DEF DraftStep, Ui, AllowStep, Prompt!TypeOK, ConfirmStep, StepKeeps
  <2>c. ASSUME ~Hasty, PromptQuiet PROVE PromptQuiet'
    BY <1>4, <1>5, <1>10, <2>1, <2>c DEF PromptQuiet, RunsAlone, RunAlone, DialogsApart,
       Prompt!TypeOK, Ui, Prompt!Alive, Prompt!Interrupts, Prompt!TypedKept, Prompt!Aside,
       Prompt!DraftAssumption, ConfirmBack, Prompt!ConfirmComesBack
  <2> QED
    BY <2>a, <2>b, <2>c
<1>11. CASE ui' = ui /\ switch' = "none"
             /\ interrupt' = interrupt /\ permission' = permission
                  /\ pendingMode' = pendingMode /\ run' = run /\ epoch' = epoch
  <2>a. PromptSound'
    BY <1>5, <1>11 DEF Prompt!TypeOK, OnlyTyped, Prompt!Interrupts, Prompt!Aside,
       RunningWorks, Prompt!Alive
  <2>b. StepKeeps
    BY <1>11 DEF DraftStep, AllowStep, Prompt!TypeOK, ConfirmStep, StepKeeps
  <2>c. ASSUME ~Hasty, PromptQuiet PROVE PromptQuiet'
    BY <1>5, <1>11, <2>c DEF PromptQuiet, RunsAlone, RunAlone, DialogsApart, Prompt!TypeOK,
       Prompt!Alive, Prompt!Interrupts, Prompt!TypedKept, Prompt!Aside,
       Prompt!DraftAssumption, ConfirmBack, Prompt!ConfirmComesBack
  <2> QED
    BY <2>a, <2>b, <2>c
<1> QED
  BY <1>6, <1>7, <1>8, <1>9, <1>10, <1>11

\* A run enters the graph, or is refused.
LEMMA EnterKeeps ==
  ASSUME PromptSound, NEW w \in Workers, Prompt!Enter(w)
  PROVE  PromptSound' /\ StepKeeps /\ (~Hasty /\ PromptQuiet => PromptQuiet')
<1> USE DEF PromptSound
<1>1. ui \in UIs /\ ui.editor \subseteq Texts /\ run \in [Workers -> Runs]
        /\ queue \subseteq Texts
  BY DEF Prompt!TypeOK, UIs, Runs
<1>2. w \in Workers /\ run[w] \in Runs
  BY <1>1
<1>3. run[w].stage = "starting" /\ epoch' = epoch
  BY DEF Prompt!Enter
<1>4. UNCHANGED <<typed, spent, queue, epoch, interrupt, permission, pendingMode, switch,
        compacting, skillLoading>>
  BY DEF Prompt!Enter, Prompt!modeVars, Prompt!bgVars
<1>5. CASE Prompt!Busy \/ ~Prompt!Fits(w)
  <2>1. Ui(ui', ui.editor, ui.stash, ui.skill, ui.dialog, ui.deferred, ui.running)
    BY <1>1, <1>5 DEF Prompt!Enter, Ui
  <2>2. run' = Prompt!Step(w, "told", "raised")
    BY <1>5 DEF Prompt!Enter
  <2>3. Moves(w, "told", "raised")
    BY <1>1, <1>3, <2>2, StepIs DEF Prompt!Outcomes
  <2>4. ~Hasty /\ PromptQuiet => interrupt # "none"
    BY <1>5, <1>1, <1>2, <1>3 DEF PromptQuiet, RunsAlone, RunAlone, Prompt!Alive, Prompt!Busy,
       Prompt!Fits, Runs, Prompt!Kinds, Prompt!Interrupts
  <2>a. PromptSound'
    BY <1>4, <2>1, <2>3, <2>4 DEF Prompt!TypeOK, OnlyTyped, UIs, Runs, Ui, Moves,
       Prompt!Aside, RunningWorks, Prompt!Alive
  <2>b. StepKeeps
    BY <1>4, <2>1, <2>4 DEF DraftStep, Ui, AllowStep, Prompt!TypeOK, ConfirmStep, StepKeeps
  <2>c. ASSUME ~Hasty, PromptQuiet PROVE PromptQuiet'
    BY <1>3, <1>4, <2>1, <2>3, <2>4, <2>c DEF PromptQuiet, RunsAlone, RunAlone, DialogsApart,
       Prompt!TypeOK, Ui, Prompt!Alive, Moves, Prompt!Interrupts, Prompt!Kinds,
       Prompt!TypedKept, Prompt!Aside, ConfirmBack, Prompt!ConfirmComesBack
  <2> QED
    BY <2>a, <2>b, <2>c
<1>6. CASE ~Prompt!Busy /\ Prompt!Fits(w) /\ w = epoch
  <2>1. Ui(ui', ui.editor, ui.stash, ui.skill, ui.dialog, ui.deferred, TRUE)
    BY <1>1, <1>6, RunningIs DEF Prompt!Enter, Prompt!Current
  <2>2. run' = Prompt!Step(w, "graph", "none")
    BY <1>6 DEF Prompt!Enter
  <2>3. Moves(w, "graph", "none") /\ ~compacting
    BY <1>6, <1>1, <1>3, <2>2, StepIs DEF Prompt!Outcomes, Prompt!Busy
  <2>a. PromptSound'
    BY <1>4, <1>6, <2>1, <2>3 DEF Prompt!TypeOK, OnlyTyped, UIs, Runs, Ui, Moves,
       Prompt!Aside, RunningWorks, Prompt!Alive
  <2>b. StepKeeps
    BY <1>4, <2>1 DEF DraftStep, Ui, AllowStep, Prompt!TypeOK, ConfirmStep, StepKeeps
  <2>c. ASSUME ~Hasty, PromptQuiet PROVE PromptQuiet'
    BY <1>3, <1>4, <2>1, <2>3, <2>c DEF PromptQuiet, RunsAlone, RunAlone, DialogsApart,
       Prompt!TypeOK, Ui, Prompt!Alive, Moves, Prompt!Interrupts, Prompt!Kinds,
       Prompt!TypedKept, Prompt!Aside, ConfirmBack, Prompt!ConfirmComesBack
  <2> QED
    BY <2>a, <2>b, <2>c
<1>7. CASE ~Prompt!Busy /\ Prompt!Fits(w) /\ w # epoch
  <2>1. Ui(ui', ui.editor, ui.stash, ui.skill, ui.dialog, ui.deferred, ui.running)
    BY <1>1, <1>7 DEF Prompt!Enter, Prompt!Current, Ui
  <2>2. run' = Prompt!Step(w, "graph", "none")
    BY <1>7 DEF Prompt!Enter
  <2>3. Moves(w, "graph", "none") /\ ~compacting
    BY <1>7, <1>1, <1>3, <2>2, StepIs DEF Prompt!Outcomes, Prompt!Busy
  <2>a. PromptSound'
    BY <1>4, <2>1, <2>3 DEF Prompt!TypeOK, OnlyTyped, UIs, Runs, Ui, Moves, Prompt!Aside,
       RunningWorks, Prompt!Alive
  <2>b. StepKeeps
    BY <1>4, <2>1 DEF DraftStep, Ui, AllowStep, Prompt!TypeOK, ConfirmStep, StepKeeps
  <2>c. ASSUME ~Hasty, PromptQuiet PROVE PromptQuiet'
    BY <1>3, <1>7, <2>c DEF PromptQuiet, RunsAlone, RunAlone, DialogsApart, Prompt!TypeOK,
       Prompt!Alive, Prompt!Interrupts, Prompt!Kinds, Prompt!TypedKept, Prompt!Aside,
       ConfirmBack, Prompt!ConfirmComesBack
  <2> QED
    BY <2>a, <2>b, <2>c
<1> QED
  BY <1>5, <1>6, <1>7

\* A step of the graph.
LEMMA GraphStepsKeeps ==
  ASSUME PromptSound, NEW w \in Workers, Prompt!GraphSteps(w)
  PROVE  PromptSound' /\ StepKeeps /\ (~Hasty /\ PromptQuiet => PromptQuiet')
<1> USE DEF PromptSound
<1>1. ui \in UIs /\ ui.editor \subseteq Texts /\ run \in [Workers -> Runs]
        /\ queue \subseteq Texts
  BY DEF Prompt!TypeOK, UIs, Runs
<1>2. PICK given \in SUBSET queue : queue' = queue \ given /\ spent' = spent \cup given
  BY DEF Prompt!GraphSteps
<1>3. run[w].stage = "graph" /\ interrupt' = "none"
        /\ permission' \in {permission, pendingMode} \ {"none"} /\ pendingMode' = "none"
  BY <1>1 DEF Prompt!GraphSteps, Prompt!TypeOK
<1>4. UNCHANGED <<ui, typed, run, epoch, switch, compacting, skillLoading>>
  BY DEF Prompt!GraphSteps, Prompt!bgVars
<1>a. PromptSound'
  BY <1>2, <1>3, <1>4 DEF Prompt!TypeOK, OnlyTyped, Prompt!Aside, RunningWorks, Prompt!Alive
<1>b. StepKeeps
  BY <1>3, <1>4 DEF DraftStep, AllowStep, Prompt!TypeOK, ConfirmStep, StepKeeps
<1>c. ASSUME ~Hasty, PromptQuiet PROVE PromptQuiet'
  BY <1>2, <1>3, <1>4, <1>c DEF PromptQuiet, RunsAlone, RunAlone, DialogsApart, Prompt!TypeOK,
     Prompt!Alive, Prompt!Interrupts, Prompt!TypedKept, Prompt!Aside, ConfirmBack,
     Prompt!ConfirmComesBack
<1> QED
  BY <1>a, <1>b, <1>c

\* The graph ends, or fails.
LEMMA EndsKeeps ==
  ASSUME PromptSound, NEW w \in Workers, Prompt!Ends(w)
  PROVE  PromptSound' /\ StepKeeps /\ (~Hasty /\ PromptQuiet => PromptQuiet')
<1> USE DEF PromptSound
<1>1. ui \in UIs /\ ui.editor \subseteq Texts /\ run \in [Workers -> Runs]
        /\ queue \subseteq Texts
  BY DEF Prompt!TypeOK, UIs, Runs
<1>2. PICK o \in Prompt!Outcomes : /\ Prompt!MayEnd(w, o)
             /\ run' = Prompt!Step(w, IF o = "raised" THEN "told" ELSE "ended", o)
                            /\ interrupt' = (IF o \in Prompt!Interrupts THEN o ELSE interrupt)
  BY DEF Prompt!Ends
<1>3. run[w].stage = "graph"
  BY DEF Prompt!Ends
<1>4. UNCHANGED <<ui, typed, spent, queue, epoch, permission, pendingMode, switch,
        compacting, skillLoading>>
  BY DEF Prompt!Ends, Prompt!modeVars, Prompt!bgVars
<1>5. Moves(w, IF o = "raised" THEN "told" ELSE "ended", o)
  BY <1>1, <1>2, <1>4, StepIs
<1>6. o # "none" /\ (o = "raised" => MayRaise)
  BY <1>2 DEF Prompt!MayEnd, Prompt!Interrupts
<1>a. PromptSound'
  BY <1>2, <1>4, <1>5 DEF Prompt!TypeOK, OnlyTyped, Runs, Moves, Prompt!Aside, RunningWorks,
     Prompt!Alive
<1>b. StepKeeps
  BY <1>4 DEF DraftStep, AllowStep, Prompt!TypeOK, ConfirmStep, StepKeeps
<1>c. ASSUME ~Hasty, PromptQuiet PROVE PromptQuiet'
  BY <1>2, <1>3, <1>4, <1>5, <1>6, <1>c DEF PromptQuiet, RunsAlone, RunAlone, DialogsApart,
     Prompt!TypeOK, Prompt!Alive, Moves, Prompt!Interrupts, Prompt!TypedKept, Prompt!Aside,
     ConfirmBack, Prompt!ConfirmComesBack
<1> QED
  BY <1>a, <1>b, <1>c

\* The last event of a run.
LEMMA ToldKeeps ==
  ASSUME PromptSound, NEW w \in Workers, Prompt!Told(w)
  PROVE  PromptSound' /\ StepKeeps /\ (~Hasty /\ PromptQuiet => PromptQuiet')
<1> USE DEF PromptSound
<1>1. ui \in UIs /\ ui.editor \subseteq Texts /\ run \in [Workers -> Runs]
        /\ queue \subseteq Texts
  BY DEF Prompt!TypeOK, UIs, Runs
<1>2. w \in Workers /\ run[w] \in Runs
  BY <1>1
<1>3. run[w].stage = "ended" /\ run' = Prompt!Step(w, "told", run[w].outcome)
        /\ run[w].outcome \in Prompt!Outcomes
  BY <1>2 DEF Prompt!Told, Runs
<1>4. UNCHANGED <<typed, spent, queue, epoch, interrupt, permission, pendingMode, switch,
        compacting, skillLoading>>
  BY DEF Prompt!Told, Prompt!modeVars, Prompt!bgVars
<1>5. Moves(w, "told", run[w].outcome)
  BY <1>1, <1>3, <1>4, StepIs
<1>6. CASE w = epoch
  <2>1. Ui(ui', ui.editor, ui.stash, ui.skill, ui.dialog, ui.deferred, FALSE)
    BY <1>1, <1>6, RunningIs DEF Prompt!Told, Prompt!Current
  <2>a. PromptSound'
    BY <1>4, <1>5, <2>1 DEF Prompt!TypeOK, OnlyTyped, UIs, Runs, Ui, Moves, Prompt!Aside,
       RunningWorks, Prompt!Alive
  <2>b. StepKeeps
    BY <1>4, <2>1 DEF DraftStep, Ui, AllowStep, Prompt!TypeOK, ConfirmStep, StepKeeps
  <2>c. ASSUME ~Hasty, PromptQuiet PROVE PromptQuiet'
    BY <1>3, <1>4, <1>5, <1>6, <2>1, <2>c DEF PromptQuiet, RunsAlone, RunAlone, DialogsApart,
       Prompt!TypeOK, Ui, Prompt!Alive, Moves, Prompt!Interrupts, Prompt!TypedKept,
       Prompt!Aside, ConfirmBack, Prompt!ConfirmComesBack
  <2> QED
    BY <2>a, <2>b, <2>c
<1>7. CASE w # epoch
  <2>1. Ui(ui', ui.editor, ui.stash, ui.skill, ui.dialog, ui.deferred, ui.running)
    BY <1>1, <1>7 DEF Prompt!Told, Prompt!Current, Ui
  <2>a. PromptSound'
    BY <1>4, <1>5, <1>7, <2>1 DEF Prompt!TypeOK, OnlyTyped, UIs, Runs, Ui, Moves,
       Prompt!Aside, RunningWorks, Prompt!Alive
  <2>b. StepKeeps
    BY <1>4, <2>1 DEF DraftStep, Ui, AllowStep, Prompt!TypeOK, ConfirmStep, StepKeeps
  <2>c. ASSUME ~Hasty, PromptQuiet PROVE PromptQuiet'
    BY <1>3, <1>7, <2>c DEF PromptQuiet, RunsAlone, RunAlone, DialogsApart, Prompt!TypeOK,
       Prompt!Alive, Prompt!Interrupts, Prompt!TypedKept, Prompt!Aside, ConfirmBack,
       Prompt!ConfirmComesBack
  <2> QED
    BY <2>a, <2>b, <2>c
<1> QED
  BY <1>6, <1>7

\* _handle_result: the worker leaves, what waits is shown, the confirmation is
\* brought back, or a queued message follows.
LEMMA HandledIs ==
  ASSUME Prompt!TypeOK, NEW w \in Workers, Prompt!HandleResult(w)
  PROVE  \/ /\ run[w].outcome \in Prompt!Interrupts \cup {"raised", "none"} \/ ~ui.deferred
            /\ ui' = AfterOf(w) /\ Prompt!Gone(w) /\ queue' = queue /\ spent' = spent
         \/ /\ run[w].outcome \in Prompt!Interrupts
                 /\ ui' = [AfterOf(w) EXCEPT !.running = FALSE]
            /\ Prompt!Gone(w) /\ queue' = queue /\ spent' = spent
         \/ /\ run[w].outcome \in Prompt!Interrupts
            /\ (run[w].outcome = "approval" => ui.editor = {} /\ ui.dialog = "none")
            /\ queue' = queue /\ spent' = spent /\ ui.dialog # "confirm"
            /\ Prompt!Reopened(AfterOf(w), AfterOf(w), {w}, Prompt!Gone(w))
         \/ /\ ui' = [AfterOf(w) EXCEPT !.dialog = "confirm", !.deferred = FALSE]
            /\ Prompt!Gone(w) /\ queue' = queue /\ spent' = spent
         \/ /\ run[w].outcome = "completed" /\ ~ui.deferred
            /\ Prompt!StartQueued(AfterOf(w), queue, {w}, Prompt!Gone(w))
<1>1. CASE run[w].outcome \in Prompt!Interrupts /\ AfterOf(w).dialog = "confirm"
  BY <1>1, AfterOfIs DEF Prompt!HandleResult, AfterOf, Prompt!KeepsConfirm, Prompt!Leave, Ui
<1>2. CASE /\ run[w].outcome \in Prompt!Interrupts /\ AfterOf(w).dialog # "confirm"
                /\ run[w].outcome = "approval"
           /\ AfterOf(w).editor # {} \/ AfterOf(w).dialog # "none"
  BY <1>2, AfterOfIs DEF Prompt!HandleResult, AfterOf, Prompt!KeepsConfirm, Prompt!Leave, Ui
<1>3. CASE /\ run[w].outcome \in Prompt!Interrupts /\ AfterOf(w).dialog # "confirm"
           /\ ~(/\ run[w].outcome = "approval"
                /\ AfterOf(w).editor # {} \/ AfterOf(w).dialog # "none")
  BY <1>3, AfterOfIs DEF Prompt!HandleResult, AfterOf, Prompt!KeepsConfirm, Prompt!Leave, Ui
<1>4. CASE run[w].outcome \notin Prompt!Interrupts /\ Prompt!BringsBack(run[w].outcome)
             /\ AfterOf(w).deferred
  BY <1>4, AfterOfIs DEF Prompt!HandleResult, AfterOf, Prompt!Leave, Ui
<1>5. CASE run[w].outcome = "completed" /\ ~AfterOf(w).deferred
  BY <1>5, AfterOfIs DEF Prompt!HandleResult, AfterOf, Prompt!Leave, Ui, Prompt!Interrupts
<1>6. CASE /\ run[w].outcome \notin Prompt!Interrupts
                /\ ~(Prompt!BringsBack(run[w].outcome) /\ AfterOf(w).deferred)
           /\ run[w].outcome # "completed"
  BY <1>6, AfterOfIs DEF Prompt!HandleResult, AfterOf, Prompt!Leave, Ui, Prompt!Outcomes,
     Prompt!BringsBack, Prompt!TypeOK
<1> QED
  BY <1>1, <1>2, <1>3, <1>4, <1>5, <1>6 DEF Prompt!BringsBack

\* The result of a run is handled.
LEMMA HandleResultKeeps ==
  ASSUME Prompt!DraftAssumption, PromptSound, NEW w \in Workers, Prompt!HandleResult(w)
  PROVE  PromptSound' /\ StepKeeps /\ (~Hasty /\ PromptQuiet => PromptQuiet')
<1> USE DEF PromptSound
<1>1. ui \in UIs /\ ui.editor \subseteq Texts /\ run \in [Workers -> Runs]
        /\ queue \subseteq Texts
  BY DEF Prompt!TypeOK, UIs, Runs
<1>2. w \in Workers /\ run[w] \in Runs /\ run[w].stage = "told"
  BY <1>1 DEF Prompt!HandleResult
<1>3. Ui(AfterOf(w), ui.editor, ui.stash, ui.skill, ui.dialog, ui.deferred, Works(w))
  BY AfterOfIs
<1>4. AfterOf(w) \in UIs
  BY <1>3 DEF Ui
<1>5. UNCHANGED <<typed, interrupt, permission, pendingMode, switch, compacting, skillLoading>>
  BY DEF Prompt!HandleResult, Prompt!modeVars, Prompt!bgVars
<1>6. epoch \in Workers /\ (Prompt!Gone(w) => Leaves(w))
  BY <1>1, GoneIs DEF Prompt!TypeOK
<1>7. \/ /\ run[w].outcome \in Prompt!Interrupts \cup {"raised", "none"} \/ ~ui.deferred
         /\ ui' = AfterOf(w) /\ Prompt!Gone(w) /\ queue' = queue /\ spent' = spent
      \/ /\ run[w].outcome \in Prompt!Interrupts /\ ui' = [AfterOf(w) EXCEPT !.running = FALSE]
         /\ Prompt!Gone(w) /\ queue' = queue /\ spent' = spent
      \/ /\ run[w].outcome \in Prompt!Interrupts
         /\ (run[w].outcome = "approval" => ui.editor = {} /\ ui.dialog = "none")
         /\ queue' = queue /\ spent' = spent /\ ui.dialog # "confirm"
         /\ interrupt = "boundary" /\ Resumes(AfterOf(w), {w})
      \/ /\ run[w].outcome \in Prompt!Interrupts
         /\ (run[w].outcome = "approval" => ui.editor = {} /\ ui.dialog = "none")
         /\ queue' = queue /\ spent' = spent /\ ui.dialog # "confirm"
         /\ interrupt = "none" /\ ui' = AfterOf(w) /\ Leaves(w)
      \/ /\ run[w].outcome \in Prompt!Interrupts
         /\ (run[w].outcome = "approval" => ui.editor = {} /\ ui.dialog = "none")
         /\ queue' = queue /\ spent' = spent /\ ui.dialog # "confirm"
         /\ Shows(AfterOf(w), interrupt) /\ Leaves(w)
      \/ /\ ui' = [AfterOf(w) EXCEPT !.dialog = "confirm", !.deferred = FALSE]
         /\ Prompt!Gone(w) /\ queue' = queue /\ spent' = spent
      \/ /\ run[w].outcome = "completed" /\ ~ui.deferred
         /\ Prompt!StartQueued(AfterOf(w), queue, {w}, Prompt!Gone(w))
  BY <1>4, HandledIs, ReopenedGone
<1>8. CASE /\ run[w].outcome \in Prompt!Interrupts \cup {"raised", "none"} \/ ~ui.deferred
           /\ ui' = AfterOf(w) /\ Prompt!Gone(w) /\ queue' = queue /\ spent' = spent
  <2>1. Ui(ui', ui.editor, ui.stash, ui.skill, ui.dialog, ui.deferred, Works(w)) /\ Leaves(w)
    BY <1>8, <1>3, <1>6
  <2>a. PromptSound'
    BY <1>2, <1>5, <1>8, <2>1 DEF Prompt!TypeOK, OnlyTyped, UIs, Runs, Ui, Leaves, Works,
       Prompt!Aside, RunningWorks, Prompt!Alive
  <2>b. StepKeeps
    BY <1>5, <2>1 DEF DraftStep, Ui, AllowStep, Prompt!TypeOK, ConfirmStep, Leaves, StepKeeps
  <2>c. ASSUME ~Hasty, PromptQuiet PROVE PromptQuiet'
    BY <1>2, <1>5, <1>8, <2>1, <2>c DEF PromptQuiet, RunsAlone, RunAlone, DialogsApart,
       Prompt!TypeOK, Ui, Prompt!Alive, Leaves, Prompt!Interrupts, Prompt!Kinds, Runs,
       Prompt!Outcomes, Works, Prompt!TypedKept, Prompt!Aside, Prompt!DraftAssumption,
       ConfirmBack, Prompt!ConfirmComesBack
  <2> QED
    BY <2>a, <2>b, <2>c
<1>9. CASE /\ run[w].outcome \in Prompt!Interrupts
                /\ ui' = [AfterOf(w) EXCEPT !.running = FALSE]
           /\ Prompt!Gone(w) /\ queue' = queue /\ spent' = spent
  <2>1. Ui(ui', ui.editor, ui.stash, ui.skill, ui.dialog, ui.deferred, FALSE) /\ Leaves(w)
    BY <1>9, <1>3, <1>4, <1>6, RunningIs DEF Ui
  <2>a. PromptSound'
    BY <1>5, <1>9, <2>1 DEF Prompt!TypeOK, OnlyTyped, UIs, Runs, Ui, Leaves, Prompt!Aside,
       RunningWorks, Prompt!Alive
  <2>b. StepKeeps
    BY <1>5, <2>1 DEF DraftStep, Ui, AllowStep, Prompt!TypeOK, ConfirmStep, Leaves, StepKeeps
  <2>c. ASSUME ~Hasty, PromptQuiet PROVE PromptQuiet'
    BY <1>2, <1>5, <1>9, <2>1, <2>c DEF PromptQuiet, RunsAlone, RunAlone, DialogsApart,
       Prompt!TypeOK, Ui, Prompt!Alive, Leaves, Prompt!Interrupts, Prompt!Kinds, Runs,
       Prompt!Outcomes, Prompt!TypedKept, Prompt!Aside, Prompt!DraftAssumption, ConfirmBack,
       Prompt!ConfirmComesBack
  <2> QED
    BY <2>a, <2>b, <2>c
<1>10. CASE /\ run[w].outcome \in Prompt!Interrupts
            /\ (run[w].outcome = "approval" => ui.editor = {} /\ ui.dialog = "none")
            /\ queue' = queue /\ spent' = spent /\ ui.dialog # "confirm"
            /\ interrupt = "boundary" /\ Resumes(AfterOf(w), {w})
  <2>1. Ui(ui', ui.editor, ui.stash, ui.skill, ui.dialog, ui.deferred, TRUE)
          /\ Starts("boundary", {w})
    BY <1>10, <1>3 DEF Resumes, Ui
  <2>a. PromptSound'
    BY <1>5, <1>10, <2>1 DEF Prompt!TypeOK, OnlyTyped, UIs, Runs, Ui, Starts, Prompt!Aside,
       RunningWorks, Prompt!Alive
  <2>b. StepKeeps
    BY <1>5, <2>1 DEF DraftStep, Ui, AllowStep, Prompt!TypeOK, ConfirmStep, Starts, StepKeeps
  <2>c. ASSUME ~Hasty, PromptQuiet PROVE PromptQuiet'
    BY <1>2, <1>10, <2>c DEF PromptQuiet, RunsAlone, RunAlone, DialogsApart, Prompt!TypeOK,
       Prompt!Alive, Prompt!Interrupts, Prompt!Kinds, Runs, Prompt!Outcomes, Prompt!TypedKept,
       Prompt!Aside, Prompt!DraftAssumption, ConfirmBack, Prompt!ConfirmComesBack
  <2> QED
    BY <2>a, <2>b, <2>c
<1>11. CASE /\ run[w].outcome \in Prompt!Interrupts
            /\ (run[w].outcome = "approval" => ui.editor = {} /\ ui.dialog = "none")
            /\ queue' = queue /\ spent' = spent /\ ui.dialog # "confirm"
            /\ interrupt = "none" /\ ui' = AfterOf(w) /\ Leaves(w)
  <2>1. Ui(ui', ui.editor, ui.stash, ui.skill, ui.dialog, ui.deferred, Works(w))
    BY <1>11, <1>3
  <2>a. PromptSound'
    BY <1>2, <1>5, <1>11, <2>1 DEF Prompt!TypeOK, OnlyTyped, UIs, Runs, Ui, Leaves, Works,
       Prompt!Aside, RunningWorks, Prompt!Alive
  <2>b. StepKeeps
    BY <1>5, <2>1 DEF DraftStep, Ui, AllowStep, Prompt!TypeOK, ConfirmStep, StepKeeps
  <2>c. ASSUME ~Hasty, PromptQuiet PROVE PromptQuiet'
    BY <1>2, <1>11, <2>c DEF PromptQuiet, RunsAlone, RunAlone, DialogsApart, Prompt!TypeOK,
       Prompt!Alive, Leaves, Prompt!Interrupts, Prompt!Kinds, Runs, Prompt!Outcomes,
       Prompt!TypedKept, Prompt!Aside, Prompt!DraftAssumption, ConfirmBack,
       Prompt!ConfirmComesBack
  <2> QED
    BY <2>a, <2>b, <2>c
<1>12. CASE /\ run[w].outcome \in Prompt!Interrupts
            /\ (run[w].outcome = "approval" => ui.editor = {} /\ ui.dialog = "none")
            /\ queue' = queue /\ spent' = spent /\ ui.dialog # "confirm"
            /\ interrupt = "approval" /\ Shows(AfterOf(w), interrupt) /\ Leaves(w)
  <2>1. Ui(ui', EditorOf(AfterOf(w)), StashOf(AfterOf(w)), ui.skill, "approval", ui.deferred,
          Works(w))
    BY <1>12, <1>3 DEF Shows, Ui
  <2>2. Put(AfterOf(w))
    BY PutIs
  <2>a. PromptSound'
    BY <1>2, <1>3, <1>5, <1>12, <2>1, <2>2 DEF Prompt!TypeOK, OnlyTyped, UIs, Runs, Ui,
       Leaves, Put, Works, Prompt!Aside, RunningWorks, Prompt!Alive
  <2>b. StepKeeps
    BY <1>3, <1>5, <1>12, <2>1, <2>2 DEF DraftStep, Ui, Put, AllowStep, Prompt!TypeOK,
       ConfirmStep, Leaves, StepKeeps
  <2>c. ASSUME ~Hasty, PromptQuiet PROVE PromptQuiet'
    BY <1>2, <1>3, <1>5, <1>12, <2>1, <2>2, <2>c DEF PromptQuiet, RunsAlone, RunAlone,
       DialogsApart, Prompt!TypeOK, Ui, Prompt!Alive, Leaves, Prompt!Interrupts, Prompt!Kinds,
       Runs, Prompt!Outcomes, Works, Put, Prompt!TypedKept, Prompt!Aside,
       Prompt!DraftAssumption, ConfirmBack, Prompt!ConfirmComesBack
  <2> QED
    BY <2>a, <2>b, <2>c
<1>13. CASE /\ run[w].outcome \in Prompt!Interrupts
            /\ (run[w].outcome = "approval" => ui.editor = {} /\ ui.dialog = "none")
            /\ queue' = queue /\ spent' = spent /\ ui.dialog # "confirm"
            /\ interrupt # "approval" /\ Shows(AfterOf(w), interrupt) /\ Leaves(w)
  <2>1. Ui(ui', ui.editor, ui.stash, ui.skill, interrupt, ui.deferred, Works(w))
          /\ interrupt \in {"human", "pause"}
    BY <1>13, <1>3 DEF Shows, Ui
  <2>a. PromptSound'
    BY <1>2, <1>5, <1>13, <2>1 DEF Prompt!TypeOK, OnlyTyped, UIs, Runs, Ui, Leaves, Works,
       Prompt!Aside, RunningWorks, Prompt!Alive
  <2>b. StepKeeps
    BY <1>5, <1>13, <2>1 DEF DraftStep, Ui, AllowStep, Prompt!TypeOK, ConfirmStep, Leaves,
       StepKeeps
  <2>c. ASSUME ~Hasty, PromptQuiet PROVE PromptQuiet'
    BY <1>2, <1>5, <1>13, <2>1, <2>c DEF PromptQuiet, RunsAlone, RunAlone, DialogsApart,
       Prompt!TypeOK, Ui, Prompt!Alive, Leaves, Prompt!Interrupts, Prompt!Kinds, Runs,
       Prompt!Outcomes, Works, Prompt!TypedKept, Prompt!Aside, Prompt!DraftAssumption,
       ConfirmBack, Prompt!ConfirmComesBack
  <2> QED
    BY <2>a, <2>b, <2>c
<1>14. CASE /\ ui' = [AfterOf(w) EXCEPT !.dialog = "confirm", !.deferred = FALSE]
            /\ Prompt!Gone(w) /\ queue' = queue /\ spent' = spent
  <2>1. Ui(ui', ui.editor, ui.stash, ui.skill, "confirm", FALSE, Works(w)) /\ Leaves(w)
    BY <1>14, <1>3, <1>4, <1>6 DEF Ui, UIs, Prompt!Dialogs
  <2>a. PromptSound'
    BY <1>2, <1>5, <1>14, <2>1 DEF Prompt!TypeOK, OnlyTyped, UIs, Runs, Ui, Leaves, Works,
       Prompt!Aside, RunningWorks, Prompt!Alive
  <2>b. StepKeeps
    BY <1>5, <2>1 DEF DraftStep, Ui, AllowStep, Prompt!TypeOK, ConfirmStep, Leaves, StepKeeps
  <2>c. ASSUME ~Hasty, PromptQuiet PROVE PromptQuiet'
    BY <1>2, <1>5, <1>14, <2>1, <2>c DEF PromptQuiet, RunsAlone, RunAlone, DialogsApart,
       Prompt!TypeOK, Ui, Prompt!Alive, Leaves, Prompt!Interrupts, Prompt!Kinds, Runs,
       Prompt!Outcomes, Works, Prompt!TypedKept, Prompt!Aside, Prompt!DraftAssumption,
       ConfirmBack, Prompt!ConfirmComesBack
  <2> QED
    BY <2>a, <2>b, <2>c
<1>15. CASE /\ run[w].outcome = "completed" /\ ~ui.deferred
            /\ Prompt!StartQueued(AfterOf(w), queue, {w}, Prompt!Gone(w))
            /\ AfterOf(w).dialog = "none" /\ interrupt = "none" /\ queue # {}
  <2>1. PICK t \in queue : Prompt!Start(AfterOf(w), "message", {w})
               /\ queue' = queue \ {t} /\ spent' = spent \cup {t}
    BY <1>15 DEF Prompt!StartQueued
  <2>2. "message" \in Prompt!Kinds /\ {w} \in SUBSET Workers
    BY DEF Prompt!Kinds
  <2>3. Ui(ui', ui.editor, ui.stash, ui.skill, ui.dialog, ui.deferred, TRUE)
          /\ Starts("message", {w})
    BY <2>1, <2>2, <1>1, <1>3, <1>4, StartIs DEF Ui
  <2>4. ~Hasty /\ PromptQuiet => switch = "none" /\ ~compacting
          /\ \A v \in Workers : v # w => ~Prompt!Alive(v)
    BY <1>15, <1>2 DEF PromptQuiet, RunsAlone, RunAlone, Prompt!Alive
  <2>5. /\ run'[w].stage = "starting" /\ run'[w].kind = "message" /\ epoch' = w
        /\ \A v \in Workers : v # w => run'[v] = run[v]
    BY <2>3 DEF Starts
  <2>6. ui'.dialog = "none" /\ ui'.running /\ switch' = switch /\ compacting' = compacting
    BY <1>15, <1>3, <1>5, <2>3 DEF Ui
  <2>a. PromptSound'
    BY <1>5, <2>1, <2>3, <2>5, <2>6 DEF Prompt!TypeOK, OnlyTyped, UIs, Runs, Ui, Starts,
       Prompt!Aside, RunningWorks, Prompt!Alive
  <2>b. StepKeeps
    BY <1>5, <2>3, <2>5, <2>6 DEF DraftStep, Ui, AllowStep, Prompt!TypeOK, ConfirmStep,
       Starts, StepKeeps
  <2>c. ASSUME ~Hasty, PromptQuiet PROVE PromptQuiet'
    BY <1>5, <2>1, <2>3, <2>4, <2>5, <2>6, <2>c DEF RunsAlone, RunAlone, Prompt!Alive, Ui,
       Prompt!Interrupts, Prompt!Kinds, PromptQuiet, DialogsApart, Prompt!TypeOK,
       Prompt!TypedKept, Prompt!Aside, Prompt!DraftAssumption, ConfirmBack,
       Prompt!ConfirmComesBack, Starts, Runs, Prompt!Outcomes
  <2> QED
    BY <2>a, <2>b, <2>c
<1>16. CASE /\ run[w].outcome = "completed" /\ ~ui.deferred
            /\ Prompt!StartQueued(AfterOf(w), queue, {w}, Prompt!Gone(w))
            /\ ~(AfterOf(w).dialog = "none" /\ interrupt = "none" /\ queue # {})
  <2>1. ui' = AfterOf(w) /\ queue' = queue /\ spent' = spent /\ Leaves(w)
    BY <1>16, <1>6 DEF Prompt!StartQueued
  <2>2. Ui(ui', ui.editor, ui.stash, ui.skill, ui.dialog, ui.deferred, Works(w))
    BY <1>3, <2>1
  <2>a. PromptSound'
    BY <1>2, <1>5, <2>1, <2>2 DEF Prompt!TypeOK, OnlyTyped, UIs, Runs, Ui, Leaves, Works,
       Prompt!Aside, RunningWorks, Prompt!Alive
  <2>b. StepKeeps
    BY <1>5, <2>2 DEF DraftStep, Ui, AllowStep, Prompt!TypeOK, ConfirmStep, StepKeeps
  <2>c. ASSUME ~Hasty, PromptQuiet PROVE PromptQuiet'
    BY <1>5, <1>16, <2>1, <2>2, <2>c DEF PromptQuiet, RunsAlone, RunAlone, DialogsApart,
       Prompt!TypeOK, Ui, Prompt!Alive, Leaves, Prompt!Interrupts, Prompt!Kinds, Runs,
       Prompt!Outcomes, Works, Prompt!TypedKept, Prompt!Aside, Prompt!DraftAssumption,
       ConfirmBack, Prompt!ConfirmComesBack
  <2> QED
    BY <2>a, <2>b, <2>c
<1> QED
  BY <1>7, <1>8, <1>9, <1>10, <1>11, <1>12, <1>13, <1>14, <1>15, <1>16

-----------------------------------------------------------------------------
(* Dialogs: the invariant holds at first and is kept by every step.         *)

LEMMA PromptInitial ==
  ASSUME Prompt!WorkersAssumption, Prompt!Init
  PROVE  PromptSound /\ PromptQuiet
<1>1. epoch \in Workers
  BY DEF Prompt!WorkersAssumption, Prompt!Init
<1>2. Prompt!NoRun \in Runs /\ NoDraft \in Prompt!Draft /\ "none" \in Prompt!Dialogs
  BY DEF Prompt!NoRun, Runs, Prompt!Kinds, Prompt!Outcomes, Prompt!Draft, Prompt!Dialogs
<1>3. ui \in UIs /\ run \in [Workers -> Runs]
  BY <1>2 DEF Prompt!Init, UIs
<1>4. \A w \in Workers : run[w].stage = "none"
  BY DEF Prompt!Init, Prompt!NoRun
<1>5. Prompt!TypeOK
  BY <1>1, <1>3 DEF Prompt!Init, Prompt!TypeOK, UIs, Runs
<1>6. OnlyTyped /\ RunningWorks /\ DialogsApart /\ Prompt!TypedKept /\ ConfirmBack
  BY DEF Prompt!Init, OnlyTyped, RunningWorks, DialogsApart, Prompt!TypedKept, ConfirmBack,
     Prompt!ConfirmComesBack, Prompt!Aside, Prompt!Interrupts
<1>7. RunsAlone
  BY <1>4 DEF RunsAlone, RunAlone, Prompt!Alive
<1> QED
  BY <1>5, <1>6, <1>7 DEF PromptSound, PromptQuiet

LEMMA PromptKept ==
  ASSUME Prompt!DraftAssumption, PromptSound, [Prompt!Next]_promptVars
  PROVE  PromptSound' /\ StepKeeps /\ (~Hasty /\ PromptQuiet => PromptQuiet')
<1> DEFINE Kept == PromptSound' /\ StepKeeps /\ (~Hasty /\ PromptQuiet => PromptQuiet')
<1>1. CASE UNCHANGED promptVars
  <2>1. UNCHANGED <<ui, typed, spent, queue, run, epoch, interrupt, permission, pendingMode,
          switch,
                    compacting, skillLoading>>
    BY <1>1 DEF promptVars
  <2>2. PromptSound'
    BY <2>1 DEF PromptSound, Prompt!TypeOK, OnlyTyped, RunningWorks, Prompt!Alive
  <2>3. StepKeeps
    BY <2>1 DEF StepKeeps, DraftStep, AllowStep, ConfirmStep
  <2>4. ASSUME PromptQuiet PROVE PromptQuiet'
    BY <2>1, <2>4 DEF PromptQuiet, RunsAlone, RunAlone, DialogsApart, Prompt!TypedKept,
       ConfirmBack, Prompt!ConfirmComesBack, Prompt!Alive
  <2> QED
    BY <2>2, <2>3, <2>4
<1>2. ASSUME NEW t \in Texts, Prompt!Type(t) PROVE Kept
  BY <1>2, TypeKeeps
<1>3. CASE Prompt!Submit \/ Prompt!Dequeue \/ Prompt!CancelWait \/ Prompt!CancelRun
             \/ Prompt!ClearInput
  BY <1>3, SubmitKeeps, DequeueKeeps, CancelWaitKeeps, CancelRunKeeps, ClearInputKeeps
<1>4. CASE Prompt!EscInterrupt \/ Prompt!EscPicker \/ Prompt!EscConfirm
  BY <1>4, EscInterruptKeeps, EscPickerKeeps, EscConfirmKeeps
<1>5. CASE Prompt!EnterInterrupt \/ Prompt!StayPaused \/ Prompt!AnswerField
             \/ Prompt!ClearAnswer \/ Prompt!EnterPicker \/ Prompt!EnterSkill
  BY <1>5, EnterInterruptKeeps, StayPausedKeeps, AnswerFieldKeeps, ClearAnswerKeeps,
     EnterPickerKeeps, EnterSkillKeeps
<1>6. ASSUME NEW m \in {"ask", "allow"}, Prompt!PermissionCommand(m)
               \/ Prompt!EnterPermission(m) PROVE Kept
  BY <1>6, PermissionCommandKeeps, EnterPermissionKeeps
<1>7. CASE Prompt!ConfirmAllow \/ Prompt!RefuseAllow \/ Prompt!F2
  BY <1>7, ConfirmAllowKeeps, RefuseAllowKeeps, F2Keeps
<1>8. ASSUME NEW d \in {"source", "model", "effort", "permission", "sandbox"},
               Prompt!OpenPicker(d)
      PROVE  Kept
  BY <1>8, OpenPickerKeeps
<1>9. CASE Prompt!Skill \/ Prompt!SkillsRead \/ Prompt!Compact \/ Prompt!Compacted
  BY <1>9, SkillKeeps, SkillsReadKeeps, CompactKeeps, CompactedKeeps
<1>10. CASE Prompt!NewSession \/ Prompt!OpenResume \/ Prompt!EnterResume
              \/ Prompt!ResumeById \/ Prompt!Loaded \/ Prompt!WaitEnds
  BY <1>10, NewSessionKeeps, OpenResumeKeeps, EnterResumeKeeps, ResumeByIdKeeps, LoadedKeeps,
     WaitEndsKeeps
<1>11. ASSUME NEW w \in Workers,
              Prompt!Enter(w) \/ Prompt!GraphSteps(w) \/ Prompt!Ends(w) \/ Prompt!Told(w)
                \/ Prompt!HandleResult(w)
       PROVE  Kept
  BY <1>11, EnterKeeps, GraphStepsKeeps, EndsKeeps, ToldKeeps, HandleResultKeeps
<1> QED
  BY <1>1, <1>2, <1>3, <1>4, <1>5, <1>6, <1>7, <1>8, <1>9, <1>10, <1>11 DEF Prompt!Next

-----------------------------------------------------------------------------
(* The theorems.                                                            *)

\* A behaviour is about one of the tools; the others stay as they were.
ToolsInv == TaskInv /\ FormInv /\ PromptSound

\* What a step of a behaviour is to delegated runs, to forms and to dialogs.
LEMMA StepsAre ==
  ASSUME [MCNext]_<<which, vars, taskVars, formVars, promptVars>>
  PROVE  [Task!Next]_taskVars /\ [Form!Next]_(Form!vars) /\ [Prompt!Next]_promptVars
BY DEF MCNext, FileStep, TaskStep, FormStep, PromptStep, formVars, Form!vars

\* The three invariants hold in every behaviour, for any calls, limits, fields,
\* options, texts and workers.
THEOREM ToolsInvariance == MCSpec => []ToolsInv
<1>1. MCInit => ToolsInv
  BY TaskInitial, FormInitial, PromptInitial, PromptConstants DEF MCInit, ToolsInv
<1>2. ToolsInv /\ [MCNext]_<<which, vars, taskVars, formVars, promptVars>> => ToolsInv'
  BY StepsAre, TaskKept, FormKept, PromptKept, PromptConstants DEF ToolsInv
<1> QED
  BY <1>1, <1>2, PTL DEF MCSpec

\* Of a user who waits for a run's result before the next step, and opens nothing over
\* work that goes on: there is one run at a time, beside no switch of session and under no
\* dialog of a run, and nothing that was typed is lost but by a key that clears the editor:
\* Ctrl+C and, in a question, Shift+Tab and the Esc that leaves "Other", which also clear
\* a draft from before the question (app.py, _submit_buffer, _handle_result,
\* _restore_approval_draft, _restore_queued_to_editor, interaction_previous).
THEOREM NothingTypedIsLost ==
  ASSUME ~Hasty
  PROVE  MCSpec => []PromptQuiet
<1>1. MCInit => PromptQuiet
  BY PromptInitial, PromptConstants DEF MCInit
<1>2. ToolsInv /\ PromptQuiet /\ [MCNext]_<<which, vars, taskVars, formVars, promptVars>>
      => PromptQuiet'
  BY StepsAre, PromptKept, PromptConstants DEF ToolsInv
<1> QED
  BY <1>1, <1>2, ToolsInvariance, PTL DEF MCSpec

\* A cancel of the parent run reaches every child, also the one that is being
\* admitted just then, and no child leaves the manager with a request open
\* (run_task, cancel_all and _finish_child of subagents).
THEOREM ChildrenAreCancelled == MCSpec => []ChildrenCancelled
<1>1. ToolsInv => ChildrenCancelled
  BY TaskShows DEF ToolsInv, ChildrenCancelled
<1> QED
  BY <1>1, ToolsInvariance, PTL

\* The log of a call that ended tells what the tool answered, unless its last line
\* is shared with the part of a record that could not be written, and its readers are
\* told all of it up to such a line, unless a part ends inside a character
\* (log_store.py, append and read).
THEOREM LogsAreTrue ==
  ASSUME "split" \notin Parts
  PROVE  MCSpec => []LogIsTrue
<1>1. ToolsInv => LogIsTrue
  BY TaskShows DEF ToolsInv, LogIsTrue, Task!LogIsTrue
<1> QED
  BY <1>1, ToolsInvariance, PTL

\* Whatever parts of a record a crash or a full disk leaves, the log of a call that
\* ended tells what the tool answered, or ends in a line shared with such a part.
THEOREM LogsTellTheSame == MCSpec => []Task!LogTellsTheSame
<1>1. ToolsInv => Task!LogTellsTheSame
  BY TaskShows DEF ToolsInv
<1> QED
  BY <1>1, ToolsInvariance, PTL

\* No more than max_concurrent children run, and every variable of delegated
\* runs keeps its type.
THEOREM ChildrenAreLimited == MCSpec => []Task!TypeOK
<1>1. ToolsInv => Task!TypeOK
  BY TaskShows DEF ToolsInv
<1> QED
  BY <1>1, ToolsInvariance, PTL

\* In whatever order fields were visited, toggled and left again: a form that says it
\* is complete is accepted by the run, no answer to a selection is hidden from the user,
\* and a free answer that a multiple selection shows as checked is one of its answers,
\* unless it is an option too.  In a single selection "Other" stays marked after another
\* option was taken; nothing is claimed of it (interactions.py, accept, toggle, render).
THEOREM FormsAreAccepted == MCSpec => []FormAnswers
<1>1. ToolsInv => FormAnswers
  BY FormShows DEF ToolsInv, FormAnswers
<1> QED
  BY <1>1, ToolsInvariance, PTL

\* Of such a user, and of runs that end by an event: nothing that was typed is lost but by
\* a key that clears the editor (NothingTypedIsLost), an ALLOW confirmation that gave way to an approval is brought back, and "Working" is
\* shown of work only (app.py, _dismiss_pending_interrupt, _handle_result).
THEOREM InputIsKept ==
  ASSUME ~Hasty, ~MayRaise
  PROVE  MCSpec => []InputKept
<1>1. ToolsInv /\ PromptQuiet => InputKept
  BY DEF ToolsInv, PromptSound, PromptQuiet, ConfirmBack, RunningWorks, Prompt!TypeOK,
     InputKept, Prompt!InputKept, Prompt!WorkingMeansWork
<1> QED
  BY <1>1, ToolsInvariance, NothingTypedIsLost, PTL

\* Whatever the user does and however runs end: "Working" is shown of work only, and
\* every field of the dialogs keeps its type.
THEOREM WorkingIsWork == MCSpec => [](Prompt!TypeOK /\ Prompt!WorkingMeansWork)
<1>1. ToolsInv => Prompt!TypeOK /\ Prompt!WorkingMeansWork
  BY DEF ToolsInv, PromptSound, RunningWorks, Prompt!TypeOK, Prompt!WorkingMeansWork
<1> QED
  BY <1>1, ToolsInvariance, PTL

\* Whatever the user does and however runs end: the draft put aside for an approval is
\* replaced by nothing and comes back as it was, ALLOW becomes the mode of a session
\* through its confirmation only, and no run closes an open confirmation.
THEOREM PromptsTakeSteps == MCSpec => PromptSteps
<1>1. ToolsInv /\ [MCNext]_<<which, vars, taskVars, formVars, promptVars>>
      => [DraftStep]_(Prompt!vars) /\ [AllowStep]_(Prompt!vars) /\ [ConfirmStep]_(Prompt!vars)
  BY StepsAre, PromptKept, PromptConstants DEF ToolsInv, StepKeeps
<1> QED
  BY <1>1, ToolsInvariance, PTL DEF MCSpec, PromptSteps, Prompt!PromptSteps, Prompt!DraftKept,
     Prompt!AllowIsConfirmed, Prompt!ConfirmStays, DraftStep, AllowStep, ConfirmStep
=============================================================================

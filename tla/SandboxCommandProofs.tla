------------------------ MODULE SandboxCommandProofs ------------------------
(***************************************************************************)
(* What SandboxCommand promises, for every number of tool calls, sandboxes *)
(* and chunks and every size of the queues and of the pipe.  The           *)
(* invariant follows a command through the channels: registered before it  *)
(* is sent, sent once, read once, its chunks counted in the pipe, in the   *)
(* queue and at the tool, its exit behind them.                            *)
(***************************************************************************)
EXTENDS SandboxCommand, FiniteSetTheorems, FunctionTheorems, TLAPS

-----------------------------------------------------------------------------
(* Sequences. *)

\* The tail of a non-empty sequence is the sequence without its head.
LEMMA TailShifts ==
  ASSUME NEW S, NEW q \in Seq(S), q # <<>>
  PROVE  /\ Tail(q) \in Seq(S)
         /\ DOMAIN Tail(q) = 1..(Len(q) - 1)
         /\ \A i \in 1..(Len(q) - 1) : Tail(q)[i] = q[i + 1] /\ i + 1 \in DOMAIN q
         /\ q[1] \in S /\ 1 \in DOMAIN q /\ Head(q) = q[1]
  OBVIOUS

\* What Append adds.
LEMMA AppendAdds ==
  ASSUME NEW S, NEW q \in Seq(S), NEW x \in S
  PROVE  /\ Append(q, x) \in Seq(S)
         /\ DOMAIN Append(q, x) = DOMAIN q \cup {Len(q) + 1}
         /\ \A i \in DOMAIN q : Append(q, x)[i] = q[i] /\ i < Len(q) + 1
         /\ Append(q, x)[Len(q) + 1] = x
         /\ Len(q) + 1 \notin DOMAIN q
  OBVIOUS

-----------------------------------------------------------------------------
(* Channels. *)

\* Whether a channel holds a message, or one about a command.
Has(q, e) == \E i \in DOMAIN q : q[i] = e
About(q, c) == \E i \in DOMAIN q : q[i][1] = c

\* A message is in it at most once; no output of a command follows its exit.
Once(q, e) == \A i, j \in DOMAIN q : q[i] = e /\ q[j] = e => i = j
ExitLast(q, c) == \A i, j \in DOMAIN q : q[i] = <<c, "exit">> /\ q[j] = <<c, "out">> => j < i

\* How many chunks of a command a channel holds.
Number(q, e) == Cardinality({i \in DOMAIN q : q[i] = e})
Outs(q, c) == Number(q, <<c, "out">>)

\* What a message put at the end of a channel adds.
LEMMA AppendTo ==
  ASSUME NEW S, NEW q \in Seq(S), NEW x \in S
  PROVE  /\ Append(q, x) \in Seq(S) /\ Len(Append(q, x)) = Len(q) + 1
         /\ \A e : Has(Append(q, x), e) <=> Has(q, e) \/ x = e
         /\ \A c : About(Append(q, x), c) <=> About(q, c) \/ x[1] = c
         /\ \A e : Once(q, e) /\ (x = e => ~Has(q, e)) => Once(Append(q, x), e)
         /\ \A c : ExitLast(q, c) /\ (x = <<c, "out">> => ~Has(q, <<c, "exit">>))
                     => ExitLast(Append(q, x), c)
<1> DEFINE r == Append(q, x)
<1>1. r \in Seq(S) /\ Len(r) = Len(q) + 1
  OBVIOUS
<1>2. \A i : i \in DOMAIN r <=> i \in DOMAIN q \/ i = Len(q) + 1
  BY AppendAdds
<1>3. \A i \in DOMAIN q : r[i] = q[i] /\ i < Len(q) + 1
  BY AppendAdds
<1>4. r[Len(q) + 1] = x /\ Len(q) + 1 \notin DOMAIN q
  BY AppendAdds
<1> HIDE DEF r
<1>5. \A e : Has(r, e) <=> Has(q, e) \/ x = e
  BY <1>2, <1>3, <1>4 DEF Has
<1>6. \A c : About(r, c) <=> About(q, c) \/ x[1] = c
  BY <1>2, <1>3, <1>4 DEF About
<1>7. \A e : Once(q, e) /\ (x = e => ~Has(q, e)) => Once(r, e)
  BY <1>2, <1>3, <1>4 DEF Once, Has
<1>8. ASSUME NEW c, ExitLast(q, c), x = <<c, "out">> => ~Has(q, <<c, "exit">>)
      PROVE  ExitLast(r, c)
  <2> SUFFICES ASSUME NEW i \in DOMAIN r, NEW j \in DOMAIN r, r[i] = <<c, "exit">>,
                      r[j] = <<c, "out">>
               PROVE  j < i
    BY DEF ExitLast
  <2>1. CASE j = Len(q) + 1
    <3>1. i # Len(q) + 1
      BY <2>1
    <3>2. i \in DOMAIN q /\ q[i] = <<c, "exit">>
      BY <1>2, <1>3, <3>1
    <3> QED
      BY <1>4, <1>8, <2>1, <3>2 DEF Has
  <2>2. CASE j # Len(q) + 1
    <3>1. j \in DOMAIN q /\ q[j] = <<c, "out">> /\ j < Len(q) + 1
      BY <1>2, <1>3, <2>2
    <3> QED
      BY <1>2, <1>3, <1>8, <3>1 DEF ExitLast
  <2> QED
    BY <2>1, <2>2
<1> QED
  BY <1>1, <1>5, <1>6, <1>7, <1>8 DEF r

\* What is left of a channel when its first message is taken.
LEMMA TailOf ==
  ASSUME NEW S, NEW q \in Seq(S), q # <<>>
  PROVE  /\ Tail(q) \in Seq(S) /\ Head(q) \in S /\ Len(Tail(q)) = Len(q) - 1
         /\ \A e : Has(q, e) <=> Has(Tail(q), e) \/ Head(q) = e
         /\ \A c : About(q, c) <=> About(Tail(q), c) \/ Head(q)[1] = c
         /\ \A e : Once(q, e) => Once(Tail(q), e) /\ (Head(q) = e => ~Has(Tail(q), e))
         /\ \A c : ExitLast(q, c) => /\ ExitLast(Tail(q), c)
                                     /\ Head(q) = <<c, "exit">> => ~Has(Tail(q), <<c, "out">>)
<1> DEFINE r == Tail(q)
<1>1. r \in Seq(S) /\ Len(r) = Len(q) - 1 /\ Head(q) = q[1] /\ q[1] \in S
  BY TailShifts
<1>2. \A i \in DOMAIN r : r[i] = q[i + 1] /\ i + 1 \in DOMAIN q /\ i + 1 # 1
  BY TailShifts
<1>3. 1 \in DOMAIN q /\ \A j \in DOMAIN q : j = 1 \/ (j - 1 \in DOMAIN r /\ r[j - 1] = q[j])
  <2>1. \A j \in DOMAIN q : j = 1 \/ (j - 1 \in 1..(Len(q) - 1) /\ (j - 1) + 1 = j)
    OBVIOUS
  <2> QED
    BY <2>1, TailShifts
<1>4. \A i, j \in DOMAIN r : (i + 1 = j + 1 => i = j) /\ (j + 1 < i + 1 => j < i) /\ i \in Nat
          /\ ~(i + 1 < 1)
  BY TailShifts
<1> HIDE DEF r
<1>5. \A e : Has(q, e) <=> Has(r, e) \/ Head(q) = e
  BY <1>1, <1>2, <1>3 DEF Has
<1>6. \A c : About(q, c) <=> About(r, c) \/ Head(q)[1] = c
  BY <1>1, <1>2, <1>3 DEF About
<1>7. ASSUME NEW e, Once(q, e) PROVE Once(r, e) /\ (Head(q) = e => ~Has(r, e))
  <2>1. Once(r, e)
    BY <1>2, <1>4, <1>7 DEF Once
  <2>2. Head(q) = e => ~Has(r, e)
    BY <1>1, <1>2, <1>3, <1>7 DEF Once, Has
  <2> QED
    BY <2>1, <2>2
<1>8. ASSUME NEW c, ExitLast(q, c)
      PROVE  ExitLast(r, c) /\ (Head(q) = <<c, "exit">> => ~Has(r, <<c, "out">>))
  <2>1. ExitLast(r, c)
    BY <1>2, <1>4, <1>8 DEF ExitLast
  <2>2. ASSUME Head(q) = <<c, "exit">>, NEW j \in DOMAIN r, r[j] = <<c, "out">> PROVE FALSE
    <3>1. q[j + 1] = <<c, "out">> /\ j + 1 \in DOMAIN q /\ ~(j + 1 < 1)
      BY <1>2, <1>4, <2>2
    <3> QED
      BY <1>1, <1>3, <1>8, <2>2, <3>1 DEF ExitLast
  <2> QED
    BY <2>1, <2>2 DEF Has
<1> QED
  BY <1>1, <1>5, <1>6, <1>7, <1>8 DEF r

\* A channel with nothing in it, and one with a message about nobody.
LEMMA NothingIn ==
  /\ \A e : ~Has(<<>>, e) /\ Once(<<>>, e)
  /\ \A c : ~About(<<>>, c) /\ ExitLast(<<>>, c)
  /\ \A c : c # NoOne => ~About(<<Ready>>, c) /\ ExitLast(<<Ready>>, c)
  /\ \A c, k : c # NoOne => ~Has(<<Ready>>, <<c, k>>)
  BY DEF Has, Once, About, ExitLast, Ready

\* A message about a command makes the channel one about it.
LEMMA HasAbout == \A q, c, k : Has(q, <<c, k>>) => About(q, c)
  BY DEF Has, About

\* Without a message none is twice, and no exit is before an output.
LEMMA NotIn ==
  /\ \A q, e : ~Has(q, e) => Once(q, e)
  /\ \A q, c : ~Has(q, <<c, "exit">>) => ExitLast(q, c)
  BY DEF Has, Once, ExitLast

\* The number of messages is a number, zero without any.
LEMMA NumberIsNat ==
  ASSUME NEW S, NEW q \in Seq(S), NEW e
  PROVE  /\ IsFiniteSet({i \in DOMAIN q : q[i] = e})
         /\ Number(q, e) \in Nat
         /\ ~Has(q, e) => Number(q, e) = 0
<1>1. IsFiniteSet(1..Len(q))
  BY FS_Interval
<1>2. {i \in DOMAIN q : q[i] = e} \subseteq 1..Len(q)
  OBVIOUS
<1>3. IsFiniteSet({i \in DOMAIN q : q[i] = e})
  BY <1>1, <1>2, FS_Subset
<1>4. ~Has(q, e) => {i \in DOMAIN q : q[i] = e} = {}
  BY DEF Has
<1> QED
  BY <1>3, <1>4, FS_CardinalityType, FS_EmptySet DEF Number

\* Append adds one of its kind.
LEMMA NumberOfAppend ==
  ASSUME NEW S, NEW q \in Seq(S), NEW x \in S, NEW e
  PROVE  Number(Append(q, x), e) = Number(q, e) + (IF x = e THEN 1 ELSE 0)
<1> DEFINE old == {i \in DOMAIN q : q[i] = e}
           new == {i \in DOMAIN Append(q, x) : Append(q, x)[i] = e}
<1>0. /\ Number(q, e) = Cardinality(old)
     /\ Number(Append(q, x), e) = Cardinality(new)
  BY DEF Number
<1>1. IsFiniteSet(old) /\ Len(q) + 1 \notin old
  <2>1. IsFiniteSet(old)
    BY NumberIsNat
  <2>2. Len(q) + 1 \notin old
    BY AppendAdds
  <2> QED
    BY <2>1, <2>2
<1>9. Cardinality(old) \in Nat
  BY <1>1, FS_CardinalityType
<1>2. CASE x = e
  <2>1. new = old \cup {Len(q) + 1}
    BY <1>2, AppendAdds
  <2>2. Cardinality(new) = Cardinality(old) + 1
    BY <1>1, <2>1, FS_AddElement
  <2> QED
    BY <1>0, <1>2, <2>2
<1>3. CASE x # e
  <2>1. new = old
    BY <1>3, AppendAdds
  <2> HIDE DEF old, new
  <2> QED
    BY <1>0, <1>9, <1>3, <2>1
<1> QED
  BY <1>2, <1>3

\* Tail takes one of the kind of the head away.
LEMMA NumberOfTail ==
  ASSUME NEW S, NEW q \in Seq(S), q # <<>>, NEW e
  PROVE  Number(q, e) = Number(Tail(q), e) + (IF Head(q) = e THEN 1 ELSE 0)
<1> DEFINE old == {i \in DOMAIN q : q[i] = e}
           new == {i \in DOMAIN Tail(q) : Tail(q)[i] = e}
           shifted == old \ {1}
           f == [i \in new |-> i + 1]
<1>0. /\ Number(q, e) = Cardinality(old)
     /\ Number(Tail(q), e) = Cardinality(new)
  BY DEF Number
<1>1. IsFiniteSet(new) /\ IsFiniteSet(old) /\ Cardinality(new) \in Nat
        /\ Cardinality(old) \in Nat
  <2>1. Tail(q) \in Seq(S)
    BY TailShifts
  <2>2. IsFiniteSet(new)
    BY <2>1, NumberIsNat
  <2>3. IsFiniteSet(old)
    BY NumberIsNat
  <2> QED
    BY <2>2, <2>3, FS_CardinalityType
<1>2. f \in Bijection(new, shifted)
  <2>1. \A i \in new : i \in Nat /\ i >= 1 /\ f[i] = i + 1 /\ f[i] \in shifted
    BY TailShifts
  <2>2. \A i, j \in new : f[i] = f[j] => i = j
    BY <2>1
  <2>3. \A j \in shifted : \E i \in new : f[i] = j
    <3> SUFFICES ASSUME NEW j \in shifted PROVE \E i \in new : f[i] = j
      OBVIOUS
    <3>1. j - 1 \in 1..(Len(q) - 1) /\ (j - 1) + 1 = j
      OBVIOUS
    <3>2. j - 1 \in new
      BY <3>1, TailShifts
    <3> QED
      BY <3>1, <3>2
  <2> QED
    BY <2>1, <2>2, <2>3, Fun_IsBij
<1>3. Cardinality(shifted) = Cardinality(new)
  <2> HIDE DEF new, shifted, f
  <2>1. ExistsBijection(new, shifted)
    BY <1>2 DEF ExistsBijection
  <2> QED
    BY <1>1, <2>1, FS_Bijection
<1>4. CASE Head(q) = e
  <2>1. 1 \in old
    BY <1>4, TailShifts
  <2>2. Cardinality(shifted) = Cardinality(old) - 1
    BY <1>1, <2>1, FS_RemoveElement
  <2> HIDE DEF old, new, shifted
  <2> QED
    BY <1>0, <1>1, <1>3, <1>4, <2>2
<1>5. CASE Head(q) # e
  <2>1. shifted = old
    BY <1>5, TailShifts
  <2> HIDE DEF old, new, shifted
  <2> QED
    BY <1>0, <1>1, <1>3, <1>5, <2>1
<1> QED
  BY <1>4, <1>5

\* The same for the chunks.
LEMMA OutsAre ==
  ASSUME NEW S, NEW q \in Seq(S), NEW c
  PROVE  /\ Outs(q, c) \in Nat /\ (~Has(q, <<c, "out">>) => Outs(q, c) = 0)
         /\ \A x \in S : Outs(Append(q, x), c)
                = Outs(q, c) + (IF x = <<c, "out">> THEN 1 ELSE 0)
         /\ q # <<>> =>
              Outs(q, c) = Outs(Tail(q), c) + (IF Head(q) = <<c, "out">> THEN 1 ELSE 0)
<1> DEFINE e == <<c, "out">>
<1>1. Outs(q, c) = Number(q, e) /\ Outs(Tail(q), c) = Number(Tail(q), e)
      /\ \A x : Outs(Append(q, x), c) = Number(Append(q, x), e)
  BY DEF Outs
<1> HIDE DEF e
<1>2. Outs(q, c) \in Nat /\ (~Has(q, e) => Outs(q, c) = 0)
  BY <1>1, NumberIsNat
<1>3. \A x \in S : Outs(Append(q, x), c) = Outs(q, c) + (IF x = e THEN 1 ELSE 0)
  BY <1>1, NumberOfAppend
<1>4. q # <<>> => Outs(q, c) = Outs(Tail(q), c) + (IF Head(q) = e THEN 1 ELSE 0)
  BY <1>1, NumberOfTail
<1> QED
  BY <1>2, <1>3, <1>4 DEF e

\* A chunk put at the end of a channel counts.
LEMMA OutsOfAppend ==
  ASSUME NEW S, NEW q \in Seq(S), NEW x \in S, NEW c
  PROVE  Outs(Append(q, x), c) = Outs(q, c) + (IF x = <<c, "out">> THEN 1 ELSE 0)
  BY NumberOfAppend DEF Outs

\* A chunk taken from a channel no longer does.
LEMMA OutsOfTail ==
  ASSUME NEW S, NEW q \in Seq(S), q # <<>>, NEW c
  PROVE  Outs(q, c) = Outs(Tail(q), c) + (IF Head(q) = <<c, "out">> THEN 1 ELSE 0)
  BY NumberOfTail DEF Outs

-----------------------------------------------------------------------------
(* The invariant. *)

Results == {"none", "exit", "spawn_error", "lost", "unconfirmed", "no_sandbox"}
AnyCommand == [queue : Seq(Event), kill : BOOLEAN, seen : Nat, result : Results]

\* The types, but for how much of the output a call has seen.
Shapes ==
  /\ pool \in Sandboxes \cup {NoSandbox} /\ poolLock \in Threads \cup {NoOne}
  /\ pc \in [Threads -> Phases] /\ mine \in [Threads -> Sandboxes \cup {NoSandbox}]
  /\ sandbox \in [Sandboxes -> Sandbox]
  /\ command \in [Commands -> AnyCommand]
  /\ task \in [Commands -> Task]

\* A queue never holds more than it may.
QueuesFit == \A c \in Commands : Len(command[c].queue) <= QueueSize

\* A thread has a sandbox exactly between its acquiring and its return.
Places ==
  /\ \A t \in Threads : mine[t] = NoSandbox <=> pc[t] \in {"idle", "acquire", "done"}
  /\ pc[Closer] \in {"idle", "closing", "dying", "done"}

\* The lock is held by a command that looks for a sandbox or replaces one.
Locking ==
  /\ \A c \in Commands : pc[c] \in {"acquire", "start"} => poolLock = c
  /\ \A c \in Commands : pc[c] = "start" => pool = NoSandbox
  /\ poolLock # NoOne => /\ poolLock \in Commands
                         /\ pc[poolLock] \in {"acquire", "start", "closing", "dying"}

\* A call that has not sent its command yet.
Unsent(c) ==
  \/ pc[c] \in {"idle", "acquire", "start", "register", "send"}
  \/ pc[c] \in {"closing", "dying"} /\ poolLock = c

\* Nothing has happened to a command that was not sent.
NothingYet ==
  \A c \in Commands : Unsent(c) =>
    /\ task[c].phase = "none" /\ ~task[c].lives
    /\ task[c].made = 0 /\ command[c].seen = 0
    /\ \A k \in {"out", "exit", "spawn_error"} : ~Has(command[c].queue, <<c, k>>)
    /\ \A s \in Sandboxes : ~About(sandbox[s].control, c) /\ ~About(sandbox[s].pipe, c)

\* Events reach a command only from its own sandbox.
RegisteredIsMine ==
  /\ \A s \in Sandboxes : \A c \in sandbox[s].registered : mine[c] = s
  /\ \A c \in Commands : pc[c] \in {"send", "wait"} => c \in sandbox[mine[c]].registered

\* A command is started once.
StartsOnce(c) ==
  mine[c] \in Sandboxes =>
    /\ Once(sandbox[mine[c]].control, <<c, "run">>)
    /\ Has(sandbox[mine[c]].control, <<c, "run">>) => task[c].phase = "none"
RunOnce == \A c \in Commands : StartsOnce(c)

\* A process lives in a sandbox that is up.
LivesRuns ==
  \A c \in Commands : task[c].lives =>
    /\ task[c].phase = "running"
    /\ mine[c] # NoSandbox /\ sandbox[mine[c]].process = "up"

\* An end that is reported, on the way or in the queue, has happened.
EndIn(q, c) == Has(q, <<c, "exit">>) \/ Has(q, <<c, "spawn_error">>)
ReportIsTrue(c) ==
  /\ EndIn(command[c].queue, c) => task[c].phase = "done"
  /\ mine[c] \in Sandboxes /\ EndIn(sandbox[mine[c]].pipe, c) => task[c].phase = "done"
EndReported == \A c \in Commands : ReportIsTrue(c)

\* A call returns when its command ended or its sandbox did.
AtRelease ==
  \A c \in Commands : pc[c] = "release" =>
    task[c].phase = "done" \/ sandbox[mine[c]].process = "dead"

\* A sandbox that is up is the pool's, or somebody starts or stops it.
Owned ==
  \A s \in Sandboxes : sandbox[s].process = "up" =>
    pool = s \/ \E t \in Threads : mine[t] = s /\ pc[t] \in {"start", "closing", "dying"}

\* No output comes after the exit.
ExitComesLast(c) ==
  /\ ExitLast(command[c].queue, c)
  /\ mine[c] \in Sandboxes =>
       /\ ExitLast(sandbox[mine[c]].pipe, c)
       /\ Has(command[c].queue, <<c, "exit">>) => ~Has(sandbox[mine[c]].pipe, <<c, "out">>)
ExitIsLast == \A c \in Commands : ExitComesLast(c)

\* The queue of a command holds its own events.
OwnEvents == \A c \in Commands : \A i \in DOMAIN command[c].queue : command[c].queue[i][1] = c

\* While a call waits nothing of the output is lost on its way.
AllCounted(c) ==
  pc[c] = "wait" =>
    command[c].seen + Outs(command[c].queue, c) + Outs(sandbox[mine[c]].pipe, c) = task[c].made
OutputCounted == \A c \in Commands : AllCounted(c)

\* What a call has seen was made.
SeenWasMade == \A c \in Commands : command[c].seen <= MaxOutput

\* A call that was told of the exit has seen all.
ExitSettled ==
  \A c \in Commands : command[c].result = "exit" =>
    pc[c] = "release" /\ task[c].phase = "done" /\ command[c].seen = task[c].made

IInv ==
  /\ Shapes /\ QueuesFit /\ Places /\ Locking /\ NothingYet /\ RegisteredIsMine /\ RunOnce
  /\ LivesRuns /\ EndReported /\ AtRelease /\ Owned /\ ExitIsLast /\ OwnEvents
  /\ OutputCounted /\ SeenWasMade /\ ExitSettled

-----------------------------------------------------------------------------
(* What a step leaves alone. *)

\* What the invariant says of sandboxes, commands and processes.
SandboxesKept ==
  \A u \in Sandboxes :
    /\ sandbox'[u].process = sandbox[u].process /\ sandbox'[u].control = sandbox[u].control
    /\ sandbox'[u].pipe = sandbox[u].pipe /\ sandbox'[u].registered = sandbox[u].registered
CommandsKept ==
  \A d \in Commands :
    /\ command'[d].queue = command[d].queue
    /\ command'[d].seen = command[d].seen /\ command'[d].result = command[d].result
TasksKept ==
  \A d \in Commands :
    /\ task'[d].phase = task[d].phase /\ task'[d].made = task[d].made
    /\ task'[d].lives => task[d].lives

\* Some commands learn that their sandbox is lost.
NotedBy(d) ==
  \/ command'[d].queue = command[d].queue
  \/ Room(d) /\ command'[d].queue = Append(command[d].queue, <<d, "lost">>)
Noted ==
  \A d \in Commands :
    /\ NotedBy(d)
    /\ command'[d].seen = command[d].seen /\ command'[d].result = command[d].result

\* Which changes nothing of what counts.
QueueTyped(d) ==
  /\ command'[d].queue \in Seq(Event) /\ Len(command'[d].queue) <= QueueSize
  /\ \A i \in DOMAIN command'[d].queue : command'[d].queue[i][1] = d
QueueHas(d) ==
  /\ \A k \in {"out", "exit", "spawn_error"} :
       Has(command'[d].queue, <<d, k>>) <=> Has(command[d].queue, <<d, k>>)
  /\ EndIn(command'[d].queue, d) <=> EndIn(command[d].queue, d)
QueueOuts(d) == Outs(command'[d].queue, d) = Outs(command[d].queue, d)
QueueAlike(d) == QueueTyped(d) /\ QueueHas(d) /\ QueueOuts(d) /\ ExitLast(command'[d].queue, d)
Alike ==
  \A d \in Commands :
    /\ QueueAlike(d)
    /\ command'[d].seen = command[d].seen /\ command'[d].result = command[d].result

\* Threads, commands and sandboxes have different names.
LEMMA Names ==
  /\ \A c \in Commands : c \in Threads /\ c # Closer /\ c # NoOne
  /\ Closer \in Threads /\ NoSandbox \notin Sandboxes /\ NoOne \notin Threads
  /\ \A t \in Threads : t # Closer => t \in Commands
  BY CloserAssumption, SandboxAssumption DEF Threads

\* The fields of a sandbox, a command and a task.
LEMMA Fields ==
  ASSUME Shapes
  PROVE  /\ \A s \in Sandboxes :
              /\ sandbox[s] \in Sandbox
              /\ sandbox[s].control \in Seq(Commands \X {"run", "kill"})
              /\ sandbox[s].pipe \in Seq(Event \cup {Ready})
              /\ sandbox[s].registered \subseteq Commands
              /\ sandbox[s].background \subseteq Commands
         /\ \A c \in Commands :
              /\ command[c].queue \in Seq(Event) /\ command[c].seen \in Nat
              /\ task[c].made \in Nat /\ task[c].made <= MaxOutput /\ task[c].lives \in BOOLEAN
  BY BoundAssumption DEF Shapes, Sandbox, Task, AnyCommand

\* Where the threads are.
LEMMA Homes ==
  ASSUME IInv
  PROVE  /\ \A t \in Threads : /\ mine[t] \in Sandboxes \cup {NoSandbox}
                               /\ mine[t] \in Sandboxes
                                      <=> pc[t] \notin {"idle", "acquire", "done"}
         /\ \A s \in Sandboxes : sandbox[s].registered \subseteq Commands
         /\ \A c \in Commands : task[c].lives \in BOOLEAN
  BY Names, Fields DEF IInv, Shapes, Places

\* There is nothing about a call that has not sent its command.
LEMMA UnsentClean ==
  ASSUME IInv, NEW c \in Commands, Unsent(c), NEW s \in Sandboxes
  PROVE  /\ ~Has(sandbox[s].control, <<c, "run">>) /\ Once(sandbox[s].control, <<c, "run">>)
         /\ ExitLast(sandbox[s].pipe, c) /\ ~EndIn(sandbox[s].pipe, c)
         /\ ~Has(sandbox[s].pipe, <<c, "out">>)
<1>1. ~About(sandbox[s].control, c) /\ ~About(sandbox[s].pipe, c)
  BY DEF IInv, NothingYet
<1>2. /\ ~Has(sandbox[s].control, <<c, "run">>)
      /\ \A k : ~Has(sandbox[s].pipe, <<c, k>>)
  BY <1>1, HasAbout
<1> QED
  BY <1>2, NotIn DEF EndIn

\* A queue that at most got the event "lost" (_mark_lost) holds the same ends and chunks.
LEMMA OneIsAlike ==
  ASSUME Shapes, QueuesFit, OwnEvents, NEW d \in Commands, NotedBy(d),
         ExitLast(command[d].queue, d)
  PROVE  QueueAlike(d)
<1> DEFINE q == command[d].queue
           x == <<d, "lost">>
<1>1. q \in Seq(Event) /\ x \in Event /\ Len(q) <= QueueSize /\ QueueSize \in Nat
  BY Fields, BoundAssumption DEF QueuesFit, Event
<1>2. x[1] = d /\ \A k \in {"out", "exit", "spawn_error"} : x # <<d, k>>
  OBVIOUS
<1>3. ExitLast(q, d) /\ \A i \in DOMAIN q : q[i][1] = d
  BY DEF OwnEvents
<1>4. command'[d].queue = q \/ (Len(q) < QueueSize /\ command'[d].queue = Append(q, x))
  BY DEF NotedBy, Room
<1>5. QueueAlike(d) <=> LET r == command'[d].queue IN
        /\ r \in Seq(Event) /\ Len(r) <= QueueSize
        /\ \A k \in {"out", "exit", "spawn_error"} : Has(r, <<d, k>>) <=> Has(q, <<d, k>>)
        /\ Outs(r, d) = Outs(q, d) /\ ExitLast(r, d)
        /\ \A i \in DOMAIN r : r[i][1] = d
  BY DEF QueueAlike, QueueTyped, QueueHas, QueueOuts, EndIn
<1> HIDE DEF q, x
<1>6. CASE command'[d].queue = q
  BY <1>1, <1>3, <1>5, <1>6
<1>7. CASE Len(q) < QueueSize /\ command'[d].queue = Append(q, x)
  <2>1. /\ Append(q, x) \in Seq(Event) /\ Len(Append(q, x)) = Len(q) + 1
        /\ \A e : Has(Append(q, x), e) <=> Has(q, e) \/ x = e
        /\ ExitLast(Append(q, x), d)
    BY <1>1, <1>2, <1>3, AppendTo
  <2>2. Len(Append(q, x)) <= QueueSize
    BY <1>1, <1>7, <2>1
  <2>3. Outs(Append(q, x), d) = Outs(q, d)
    <3>1. Outs(Append(q, x), d) = Outs(q, d) + (IF x = <<d, "out">> THEN 1 ELSE 0)
      BY <1>1, OutsOfAppend
    <3>2. Outs(q, d) \in Nat
      BY <1>1, OutsAre
    <3> QED
      BY <1>2, <3>1, <3>2
  <2>4. \A i \in DOMAIN Append(q, x) : Append(q, x)[i][1] = d
    BY <1>1, <1>2, <1>3, AppendAdds
  <2>5. \A k \in {"out", "exit", "spawn_error"} : Has(Append(q, x), <<d, k>>)
            <=> Has(q, <<d, k>>)
    BY <1>2, <2>1
  <2> QED
    BY <1>5, <1>7, <2>1, <2>2, <2>3, <2>4, <2>5
<1> QED
  BY <1>4, <1>6, <1>7

\* So do the queues of all commands.
LEMMA NotedIsAlike ==
  ASSUME IInv, Noted \/ CommandsKept
  PROVE  Alike
<1>1. \A d \in Commands :
        /\ NotedBy(d) /\ ExitLast(command[d].queue, d)
        /\ command'[d].seen = command[d].seen /\ command'[d].result = command[d].result
  BY DEF IInv, ExitIsLast, ExitComesLast, Noted, CommandsKept, NotedBy
<1> QED
  BY <1>1, OneIsAlike DEF IInv, Alike

-----------------------------------------------------------------------------
(* How a sandbox, a command or a task changes. *)

\* A sandbox is lost.
LEMMA LostTyped ==
  ASSUME Shapes, NEW s \in Sandboxes, sandbox' = [sandbox EXCEPT ![s].lost = TRUE]
  PROVE  sandbox' \in [Sandboxes -> Sandbox] /\ SandboxesKept
<1> DEFINE r == [sandbox[s] EXCEPT !.lost = TRUE]
<1>1. /\ r \in Sandbox /\ r.process = sandbox[s].process /\ r.control = sandbox[s].control
      /\ r.pipe = sandbox[s].pipe /\ r.registered = sandbox[s].registered
  BY DEF Shapes, Sandbox
<1>2. sandbox' = [sandbox EXCEPT ![s] = r]
  OBVIOUS
<1> HIDE DEF r
<1> QED
  BY <1>1, <1>2 DEF Shapes, SandboxesKept

\* An event goes into a queue.
LEMMA PutDoes ==
  ASSUME Shapes, NEW d \in Commands, NEW e \in Event
  PROVE  /\ Put(d, e) \in AnyCommand /\ Put(d, e).queue = Append(command[d].queue, e)
         /\ Put(d, e).seen = command[d].seen /\ Put(d, e).result = command[d].result
<1>1. command[d] \in AnyCommand /\ Append(command[d].queue, e) \in Seq(Event)
  BY Fields DEF Shapes
<1> QED
  BY <1>1 DEF Put, AnyCommand

\* The commands of a sandbox are told that it is lost.
LEMMA MarkLostDoes ==
  ASSUME Shapes, NEW s \in Sandboxes, MarkLost(s)
  PROVE  /\ sandbox' \in [Sandboxes -> Sandbox] /\ SandboxesKept
         /\ command' \in [Commands -> AnyCommand] /\ Noted
<1>1. sandbox' \in [Sandboxes -> Sandbox] /\ SandboxesKept
  BY LostTyped DEF MarkLost
<1>2. \A d \in Commands :
        \/ command'[d] = command[d]
        \/ Room(d) /\ command'[d] = Put(d, <<d, "lost">>)
  BY DEF MarkLost
<1>3. \A d \in Commands : <<d, "lost">> \in Event
  BY DEF Event
<1>4. \A d \in Commands : command'[d] \in AnyCommand
  BY <1>2, <1>3, PutDoes DEF Shapes
<1>5. Noted
  BY <1>2, <1>3, PutDoes DEF Noted, NotedBy
<1>6. command' = [d \in Commands |-> command'[d]]
  BY DEF MarkLost
<1> QED
  BY <1>1, <1>4, <1>5, <1>6

\* A call gets its result.
LEMMA ReportDoes ==
  ASSUME Shapes, NEW c \in Commands, NEW what \in Results, Report(c, what)
  PROVE  /\ command' \in [Commands -> AnyCommand]
         /\ \A d \in Commands : /\ NotedBy(d) /\ command'[d].seen = command[d].seen
                                /\ command'[d].result =
                                       IF d = c THEN what ELSE command[d].result
<1> DEFINE r == [command[c] EXCEPT !.result = what]
<1>1. r \in AnyCommand /\ r.queue = command[c].queue /\ r.seen = command[c].seen
        /\ r.result = what
  BY DEF Shapes, AnyCommand
<1>2. command' = [command EXCEPT ![c] = r]
  BY DEF Report
<1> HIDE DEF r
<1> QED
  BY <1>1, <1>2 DEF Shapes, NotedBy

\* A task takes a step.
LEMMA TaskTyped ==
  ASSUME Shapes, NEW c \in Commands, NEW r \in Task, task' = [task EXCEPT ![c] = r]
  PROVE  /\ task' \in [Commands -> Task] /\ task'[c] = r
         /\ \A d \in Commands : d # c => task'[d] = task[d]
  BY DEF Shapes

\* The worker sends a message.
LEMMA TellDoes ==
  ASSUME Shapes, NEW c \in Commands, mine[c] \in Sandboxes,
         NEW kind \in {"out", "exit", "spawn_error"},
         Tell(c, kind)
  PROVE  LET q == sandbox[mine[c]].pipe
             r == sandbox'[mine[c]].pipe IN
         /\ sandbox' \in [Sandboxes -> Sandbox]
         /\ \A s \in Sandboxes : s # mine[c] => sandbox'[s] = sandbox[s]
         /\ sandbox'[mine[c]].process = sandbox[mine[c]].process
         /\ sandbox'[mine[c]].control = sandbox[mine[c]].control
         /\ sandbox'[mine[c]].registered = sandbox[mine[c]].registered
         /\ \A d \in Commands :
              /\ \A k \in {"out", "exit", "spawn_error"} :
                   Has(r, <<d, k>>) <=> Has(q, <<d, k>>) \/ (d = c /\ k = kind)
              /\ About(r, d) <=> About(q, d) \/ d = c
              /\ ExitLast(q, d) /\ (kind = "out" /\ d = c => ~Has(q, <<d, "exit">>))
                   => ExitLast(r, d)
              /\ Outs(r, d) = Outs(q, d) + (IF d = c /\ kind = "out" THEN 1 ELSE 0)
<1> DEFINE s == mine[c]
           x == <<c, kind>>
           q == sandbox[s].pipe
           longer == Append(q, x)
           new == [sandbox[s] EXCEPT !.pipe = longer]
<1>1. q \in Seq(Event \cup {Ready}) /\ x \in Event \cup {Ready}
  BY Fields DEF Event
<1>2. longer \in Seq(Event \cup {Ready}) /\ sandbox[s] \in Sandbox
  BY <1>1 DEF Shapes
<1> HIDE DEF longer
<1>3. /\ new \in Sandbox /\ new.process = sandbox[s].process /\ new.control = sandbox[s].control
      /\ new.registered = sandbox[s].registered /\ new.pipe = longer
  BY <1>2 DEF Sandbox
<1>4. sandbox' = [sandbox EXCEPT ![s] = new]
  BY DEF Tell, Of, longer
<1>5. \A d, k : x = <<d, k>> <=> d = c /\ k = kind
  OBVIOUS
<1>6. x[1] = c
  OBVIOUS
<1> HIDE DEF new, q, x
<1> USE DEF longer
<1>7. ASSUME NEW d \in Commands
      PROVE  /\ \A k \in {"out", "exit", "spawn_error"} :
                  Has(Append(q, x), <<d, k>>) <=> Has(q, <<d, k>>) \/ (d = c /\ k = kind)
             /\ About(Append(q, x), d) <=> About(q, d) \/ d = c
             /\ ExitLast(q, d) /\ (kind = "out" /\ d = c => ~Has(q, <<d, "exit">>))
                  => ExitLast(Append(q, x), d)
  <2>1. /\ \A e : Has(Append(q, x), e) <=> Has(q, e) \/ x = e
        /\ About(Append(q, x), d) <=> About(q, d) \/ x[1] = d
        /\ ExitLast(q, d) /\ (x = <<d, "out">> => ~Has(q, <<d, "exit">>))
              => ExitLast(Append(q, x), d)
    BY <1>1, AppendTo
  <2> QED
    BY <2>1, <1>5, <1>6
<1>8. ASSUME NEW d \in Commands
      PROVE  Outs(Append(q, x), d) = Outs(q, d) + (IF d = c /\ kind = "out" THEN 1 ELSE 0)
  <2>1. Outs(Append(q, x), d) = Outs(q, d) + (IF x = <<d, "out">> THEN 1 ELSE 0)
    BY <1>1, OutsOfAppend
  <2> QED
    BY <2>1, <1>5
<1>9. /\ sandbox' \in [Sandboxes -> Sandbox] /\ sandbox'[s] = new
      /\ \A u \in Sandboxes : u # s => sandbox'[u] = sandbox[u]
  BY <1>3, <1>4 DEF Shapes
<1> HIDE DEF s
<1> QED
  BY <1>3, <1>7, <1>8, <1>9 DEF q, s

\* The control channel of a sandbox is closed.
LEMMA StdinTyped ==
  ASSUME Shapes, NEW s \in Sandboxes, sandbox' = [sandbox EXCEPT ![s].stdin = FALSE]
  PROVE  sandbox' \in [Sandboxes -> Sandbox] /\ SandboxesKept
<1> DEFINE r == [sandbox[s] EXCEPT !.stdin = FALSE]
<1>1. /\ r \in Sandbox /\ r.process = sandbox[s].process /\ r.control = sandbox[s].control
      /\ r.pipe = sandbox[s].pipe /\ r.registered = sandbox[s].registered
  BY DEF Shapes, Sandbox
<1>2. sandbox' = [sandbox EXCEPT ![s] = r]
  OBVIOUS
<1> HIDE DEF r
<1> QED
  BY <1>1, <1>2 DEF Shapes, SandboxesKept

-----------------------------------------------------------------------------
(* Commands that a step is not about. *)

\* What the channels of its sandbox hold for a command.
ChannelAlike(e) ==
  LET run == <<e, "run">>
      out == <<e, "out">>
      exit == <<e, "exit">>
      old == sandbox[mine[e]]
      new == sandbox'[mine[e]] IN
  /\ Has(new.control, run) => Has(old.control, run)
  /\ Once(old.control, run) => Once(new.control, run)
  /\ Has(new.pipe, out) => Has(old.pipe, out)
  /\ EndIn(new.pipe, e) => EndIn(old.pipe, e)
  /\ ExitLast(old.pipe, e) => ExitLast(new.pipe, e)
  /\ pc[e] = "wait" => Outs(new.pipe, e) = Outs(old.pipe, e)

\* The call waits on, with the same task, queue and messages.
Undisturbed(e) ==
  /\ mine'[e] = mine[e] /\ pc'[e] = pc[e]
  /\ task'[e].phase = task[e].phase /\ task'[e].made = task[e].made
  /\ QueueAlike(e) /\ command'[e].seen = command[e].seen
  /\ mine[e] \in Sandboxes => ChannelAlike(e)

\* Channels that no message enters or leaves hold the same.
LEMMA ChannelKept ==
  ASSUME SandboxesKept, NEW e \in Commands, mine[e] \in Sandboxes
  PROVE  ChannelAlike(e)
  BY DEF SandboxesKept, ChannelAlike

\* What the invariant says of a command holds as long as a step leaves it alone.
LEMMA UndisturbedKept ==
  ASSUME IInv, NEW e \in Commands, Undisturbed(e)
  PROVE  StartsOnce(e)' /\ ReportIsTrue(e)' /\ ExitComesLast(e)' /\ AllCounted(e)'
<1>1. StartsOnce(e) /\ ReportIsTrue(e) /\ ExitComesLast(e) /\ AllCounted(e)
  BY DEF IInv, RunOnce, EndReported, ExitIsLast, OutputCounted
<1>2. pc[e] = "wait" => mine[e] \in Sandboxes
  BY Homes, Names
<1>3. /\ mine'[e] = mine[e] /\ pc'[e] = pc[e]
      /\ task'[e].phase = task[e].phase /\ task'[e].made = task[e].made
      /\ command'[e].seen = command[e].seen
      /\ mine[e] \in Sandboxes => ChannelAlike(e)
  BY DEF Undisturbed
<1>4. /\ Has(command'[e].queue, <<e, "exit">>) <=> Has(command[e].queue, <<e, "exit">>)
      /\ EndIn(command'[e].queue, e) <=> EndIn(command[e].queue, e)
      /\ ExitLast(command'[e].queue, e)
      /\ Outs(command'[e].queue, e) = Outs(command[e].queue, e)
  BY DEF Undisturbed, QueueAlike, QueueHas, QueueOuts
<1>5. StartsOnce(e)'
  BY <1>1, <1>3 DEF StartsOnce, ChannelAlike
<1>6. ReportIsTrue(e)'
  BY <1>1, <1>3, <1>4 DEF ReportIsTrue, ChannelAlike
<1>7. ExitComesLast(e)'
  BY <1>1, <1>3, <1>4 DEF ExitComesLast, ChannelAlike
<1>8. AllCounted(e)'
  BY <1>1, <1>2, <1>3, <1>4 DEF AllCounted, ChannelAlike
<1> QED
  BY <1>5, <1>6, <1>7, <1>8

\* A report stays true when the call, its task and the messages of the worker stay.
LEMMA ReportKept ==
  ASSUME IInv, NEW e \in Commands, mine'[e] = mine[e], task'[e].phase = task[e].phase,
         QueueHas(e), mine[e] \in Sandboxes => sandbox'[mine[e]].pipe = sandbox[mine[e]].pipe
  PROVE  ReportIsTrue(e)'
<1>1. ReportIsTrue(e)
  BY DEF IInv, EndReported
<1>2. EndIn(command'[e].queue, e) <=> EndIn(command[e].queue, e)
  BY DEF QueueHas
<1> QED
  BY <1>1, <1>2 DEF ReportIsTrue

\* Still nothing has happened to the commands that are not sent.
LEMMA NothingYetKept ==
  ASSUME IInv,
         \A d \in Commands : Unsent(d)' =>
           /\ Unsent(d) /\ QueueHas(d) /\ command'[d].seen = command[d].seen
           /\ task'[d].phase = task[d].phase /\ task'[d].made = task[d].made
           /\ task'[d].lives => task[d].lives
           /\ \A s \in Sandboxes : /\ About(sandbox'[s].control, d)
                                          => About(sandbox[s].control, d)
                                   /\ About(sandbox'[s].pipe, d) => About(sandbox[s].pipe, d)
  PROVE  NothingYet'
<1> SUFFICES ASSUME NEW d \in Commands, Unsent(d)'
             PROVE  /\ task'[d].phase = "none" /\ ~task'[d].lives
                    /\ task'[d].made = 0 /\ command'[d].seen = 0
                    /\ \A k \in {"out", "exit", "spawn_error"} :
                         ~Has(command'[d].queue, <<d, k>>)
                    /\ \A s \in Sandboxes :
                         ~About(sandbox'[s].control, d) /\ ~About(sandbox'[s].pipe, d)
  BY DEF NothingYet
<1>1. /\ task[d].phase = "none" /\ ~task[d].lives
      /\ task[d].made = 0 /\ command[d].seen = 0
      /\ \A k \in {"out", "exit", "spawn_error"} : ~Has(command[d].queue, <<d, k>>)
      /\ \A s \in Sandboxes : ~About(sandbox[s].control, d) /\ ~About(sandbox[s].pipe, d)
  BY DEF IInv, NothingYet
<1>2. QueueHas(d)
  OBVIOUS
<1>3. \A k \in {"out", "exit", "spawn_error"} : ~Has(command'[d].queue, <<d, k>>)
  BY <1>1, <1>2 DEF QueueHas
<1> QED
  BY <1>1, <1>3

-----------------------------------------------------------------------------
(* What else happens to a sandbox. *)

\* A message is written to the worker.
LEMMA WriteTyped ==
  ASSUME Shapes, NEW c \in Commands, NEW s \in Sandboxes, NEW kind \in {"run", "kill"},
         Write(s, <<c, kind>>)
  PROVE  /\ sandbox' \in [Sandboxes -> Sandbox]
         /\ \A u \in Sandboxes : u # s => sandbox'[u] = sandbox[u]
         /\ sandbox'[s].process = sandbox[s].process /\ sandbox'[s].pipe = sandbox[s].pipe
         /\ sandbox'[s].registered = sandbox[s].registered
         /\ sandbox'[s].control = Append(sandbox[s].control, <<c, kind>>)
<1> DEFINE longer == Append(sandbox[s].control, <<c, kind>>)
           r == [sandbox[s] EXCEPT !.control = longer]
<1>1. longer \in Seq(Commands \X {"run", "kill"})
  BY Fields
<1> HIDE DEF longer
<1>2. /\ r \in Sandbox /\ r.process = sandbox[s].process /\ r.pipe = sandbox[s].pipe
      /\ r.registered = sandbox[s].registered /\ r.control = longer
  BY <1>1 DEF Shapes, Sandbox
<1>3. sandbox' = [sandbox EXCEPT ![s] = r]
  BY DEF Write, longer
<1> HIDE DEF r
<1> QED
  BY <1>2, <1>3 DEF Shapes, longer

\* What the control channel then holds.
LEMMA WriteAdds ==
  ASSUME Shapes, NEW c \in Commands, NEW s \in Sandboxes, NEW kind \in {"run", "kill"},
         NEW d \in Commands
  PROVE  LET q == sandbox[s].control
             r == Append(sandbox[s].control, <<c, kind>>) IN
         /\ Has(r, <<d, "run">>) <=> Has(q, <<d, "run">>) \/ (d = c /\ kind = "run")
         /\ About(r, d) <=> About(q, d) \/ d = c
         /\ Once(q, <<d, "run">>) /\ (kind = "run" /\ d = c => ~Has(q, <<d, "run">>))
              => Once(r, <<d, "run">>)
<1> DEFINE x == <<c, kind>>
           q == sandbox[s].control
<1>1. q \in Seq(Commands \X {"run", "kill"}) /\ x \in Commands \X {"run", "kill"}
  BY Fields
<1>2. x[1] = c /\ (x = <<d, "run">> <=> d = c /\ kind = "run")
  OBVIOUS
<1> HIDE DEF q, x
<1>3. /\ \A e : Has(Append(q, x), e) <=> Has(q, e) \/ x = e
      /\ About(Append(q, x), d) <=> About(q, d) \/ x[1] = d
      /\ Once(q, <<d, "run">>) /\ (x = <<d, "run">> => ~Has(q, <<d, "run">>))
            => Once(Append(q, x), <<d, "run">>)
  BY <1>1, AppendTo
<1>4. /\ Has(Append(q, x), <<d, "run">>) <=> Has(q, <<d, "run">>) \/ (d = c /\ kind = "run")
      /\ About(Append(q, x), d) <=> About(q, d) \/ d = c
      /\ Once(q, <<d, "run">>) /\ (kind = "run" /\ d = c => ~Has(q, <<d, "run">>))
            => Once(Append(q, x), <<d, "run">>)
  BY <1>2, <1>3
<1> QED
  BY <1>4 DEF q, x

\* The worker reads one.
LEMMA ControlTyped ==
  ASSUME Shapes, NEW s \in Sandboxes, sandbox[s].control # <<>>, ReadControl(s)
  PROVE  /\ sandbox' \in [Sandboxes -> Sandbox]
         /\ \A u \in Sandboxes : u # s => sandbox'[u] = sandbox[u]
         /\ sandbox'[s].process = sandbox[s].process /\ sandbox'[s].pipe = sandbox[s].pipe
         /\ sandbox'[s].registered = sandbox[s].registered
         /\ sandbox'[s].control = Tail(sandbox[s].control)
         /\ sandbox'[s].background \subseteq sandbox[s].background
<1> DEFINE shorter == Tail(sandbox[s].control)
           c == Head(sandbox[s].control)[1]
           left == IF mine[c] # s \/ Head(sandbox[s].control)[2] = "run"
                   THEN sandbox[s].background ELSE sandbox[s].background \ KilledGroup(c)
           r == [sandbox[s] EXCEPT !.control = shorter, !.background = left]
<1>1. shorter \in Seq(Commands \X {"run", "kill"})
  BY Fields
<1>2. sandbox' = [sandbox EXCEPT ![s] = r]
  BY DEF ReadControl
<1>3. left \in SUBSET Commands /\ left \subseteq sandbox[s].background
  BY Fields
<1> HIDE DEF shorter, left
<1>4. /\ r \in Sandbox /\ r.process = sandbox[s].process /\ r.pipe = sandbox[s].pipe
      /\ r.registered = sandbox[s].registered /\ r.control = shorter /\ r.background = left
  BY <1>1, <1>3 DEF Shapes, Sandbox
<1> HIDE DEF r
<1> QED
  BY <1>2, <1>3, <1>4 DEF Shapes, shorter

\* What goes on in the background changes.
LEMMA BackgroundTyped ==
  ASSUME Shapes, NEW s \in Sandboxes, NEW b \in SUBSET Commands,
         sandbox' = [sandbox EXCEPT ![s].background = b]
  PROVE  /\ sandbox' \in [Sandboxes -> Sandbox] /\ SandboxesKept
         /\ \A u \in Sandboxes :
              sandbox'[u].background = IF u = s THEN b ELSE sandbox[u].background
<1> DEFINE r == [sandbox[s] EXCEPT !.background = b]
<1>1. /\ r \in Sandbox /\ r.process = sandbox[s].process /\ r.control = sandbox[s].control
      /\ r.pipe = sandbox[s].pipe /\ r.registered = sandbox[s].registered /\ r.background = b
  BY DEF Shapes, Sandbox
<1>2. sandbox' = [sandbox EXCEPT ![s] = r]
  OBVIOUS
<1> HIDE DEF r
<1> QED
  BY <1>1, <1>2 DEF Shapes, SandboxesKept

\* What is left of the control channel.
LEMMA ControlTaken ==
  ASSUME Shapes, NEW s \in Sandboxes, sandbox[s].control # <<>>
  PROVE  LET q == sandbox[s].control
             r == Tail(sandbox[s].control) IN
         /\ Head(q) \in Commands \X {"run", "kill"} /\ About(q, Head(q)[1])
         /\ \A d \in Commands :
              /\ Has(r, <<d, "run">>) => Has(q, <<d, "run">>)
              /\ Head(q) = <<d, "run">> => Has(q, <<d, "run">>)
              /\ About(r, d) => About(q, d)
              /\ Once(q, <<d, "run">>) =>
                   /\ Once(r, <<d, "run">>)
                   /\ Head(q) = <<d, "run">> => ~Has(r, <<d, "run">>)
<1> DEFINE q == sandbox[s].control
<1>1. q \in Seq(Commands \X {"run", "kill"}) /\ q # <<>>
  BY Fields
<1> HIDE DEF q
<1>2. /\ Head(q) \in Commands \X {"run", "kill"}
      /\ \A e : Has(q, e) <=> Has(Tail(q), e) \/ Head(q) = e
      /\ \A c : About(q, c) <=> About(Tail(q), c) \/ Head(q)[1] = c
      /\ \A e : Once(q, e) => Once(Tail(q), e) /\ (Head(q) = e => ~Has(Tail(q), e))
  BY <1>1, TailOf
<1> QED
  BY <1>2 DEF q

\* The reader takes a message from the worker.
LEMMA PipeTyped ==
  ASSUME Shapes, NEW s \in Sandboxes, sandbox[s].pipe # <<>>, NEW b \in BOOLEAN,
         sandbox' = [sandbox EXCEPT ![s].pipe = Tail(@), ![s].ready = b]
  PROVE  /\ sandbox' \in [Sandboxes -> Sandbox]
         /\ \A u \in Sandboxes : u # s => sandbox'[u] = sandbox[u]
         /\ sandbox'[s].process = sandbox[s].process
         /\ sandbox'[s].control = sandbox[s].control
         /\ sandbox'[s].registered = sandbox[s].registered
         /\ sandbox'[s].pipe = Tail(sandbox[s].pipe)
<1> DEFINE shorter == Tail(sandbox[s].pipe)
           r == [sandbox[s] EXCEPT !.pipe = shorter, !.ready = b]
<1>1. shorter \in Seq(Event \cup {Ready})
  BY Fields
<1>2. sandbox' = [sandbox EXCEPT ![s] = r]
  OBVIOUS
<1> HIDE DEF shorter
<1>3. /\ r \in Sandbox /\ r.process = sandbox[s].process /\ r.control = sandbox[s].control
      /\ r.registered = sandbox[s].registered /\ r.pipe = shorter
  BY <1>1 DEF Shapes, Sandbox
<1> HIDE DEF r
<1> QED
  BY <1>2, <1>3 DEF Shapes, shorter

\* What is left of a channel of events.
LEMMA EventTaken ==
  ASSUME NEW S, NEW q \in Seq(S), q # <<>>, NEW d \in Commands
  PROVE  /\ Head(q) \in S /\ Tail(q) \in Seq(S)
         /\ \A k : Has(q, <<d, k>>) <=> Has(Tail(q), <<d, k>>) \/ Head(q) = <<d, k>>
         /\ About(q, d) <=> About(Tail(q), d) \/ Head(q)[1] = d
         /\ ExitLast(q, d) =>
              /\ ExitLast(Tail(q), d)
              /\ Head(q) = <<d, "exit">> => ~Has(Tail(q), <<d, "out">>)
         /\ Outs(Tail(q), d) \in Nat
         /\ Outs(q, d) = Outs(Tail(q), d) + (IF Head(q) = <<d, "out">> THEN 1 ELSE 0)
<1>1. /\ Head(q) \in S /\ Tail(q) \in Seq(S)
      /\ \A e : Has(q, e) <=> Has(Tail(q), e) \/ Head(q) = e
      /\ About(q, d) <=> About(Tail(q), d) \/ Head(q)[1] = d
      /\ ExitLast(q, d) => /\ ExitLast(Tail(q), d)
                           /\ Head(q) = <<d, "exit">> => ~Has(Tail(q), <<d, "out">>)
  BY TailOf
<1>2. Outs(Tail(q), d) \in Nat
  BY <1>1, OutsAre
<1>3. Outs(q, d) = Outs(Tail(q), d) + (IF Head(q) = <<d, "out">> THEN 1 ELSE 0)
  BY OutsOfTail
<1> QED
  BY <1>1, <1>2, <1>3

\* The commands that are registered change.
LEMMA RegisteredTyped ==
  ASSUME Shapes, NEW s \in Sandboxes, NEW R \in SUBSET Commands,
         sandbox' = [sandbox EXCEPT ![s].registered = R]
  PROVE  /\ sandbox' \in [Sandboxes -> Sandbox]
         /\ \A u \in Sandboxes :
              /\ sandbox'[u].process = sandbox[u].process
              /\ sandbox'[u].control = sandbox[u].control /\ sandbox'[u].pipe = sandbox[u].pipe
              /\ sandbox'[u].registered = IF u = s THEN R ELSE sandbox[u].registered
<1> DEFINE r == [sandbox[s] EXCEPT !.registered = R]
<1>1. /\ r \in Sandbox /\ r.process = sandbox[s].process /\ r.control = sandbox[s].control
      /\ r.pipe = sandbox[s].pipe /\ r.registered = R
  BY DEF Shapes, Sandbox
<1>2. sandbox' = [sandbox EXCEPT ![s] = r]
  OBVIOUS
<1> HIDE DEF r
<1> QED
  BY <1>1, <1>2 DEF Shapes

\* They change when the sandbox is found to be lost.
LEMMA LostAndRegisteredTyped ==
  ASSUME Shapes, NEW s \in Sandboxes, NEW R \in SUBSET Commands,
         sandbox' = [sandbox EXCEPT ![s].lost = TRUE, ![s].registered = R]
  PROVE  /\ sandbox' \in [Sandboxes -> Sandbox]
         /\ \A u \in Sandboxes :
              /\ sandbox'[u].process = sandbox[u].process
              /\ sandbox'[u].control = sandbox[u].control /\ sandbox'[u].pipe = sandbox[u].pipe
              /\ sandbox'[u].registered = IF u = s THEN R ELSE sandbox[u].registered
<1> DEFINE r == [sandbox[s] EXCEPT !.lost = TRUE, !.registered = R]
<1>1. /\ r \in Sandbox /\ r.process = sandbox[s].process /\ r.control = sandbox[s].control
      /\ r.pipe = sandbox[s].pipe /\ r.registered = R
  BY DEF Shapes, Sandbox
<1>2. sandbox' = [sandbox EXCEPT ![s] = r]
  OBVIOUS
<1> HIDE DEF r
<1> QED
  BY <1>1, <1>2 DEF Shapes

\* A sandbox that just started, and one that does not exist.
LEMMA FreshTyped ==
  /\ Fresh \in Sandbox /\ Fresh.process = "up" /\ Fresh.registered = {}
  /\ Fresh.control = <<>> /\ Fresh.pipe = <<Ready>> /\ Fresh.background = {}
  /\ None \in Sandbox /\ None.process = "none" /\ None.registered = {}
  /\ None.control = <<>> /\ None.pipe = <<>> /\ None.background = {}
<1> DEFINE C == Seq(Commands \X {"run", "kill"})
           P == Seq(Event \cup {Ready})
<1>1. <<>> \in C /\ <<>> \in P /\ <<Ready>> \in P
  OBVIOUS
<1>2. Sandbox = [process : {"none", "up", "dead"}, ready : BOOLEAN, lost : BOOLEAN,
                 stdin : BOOLEAN, control : C, pipe : P, registered : SUBSET Commands,
                 background : SUBSET Commands]
  BY DEF Sandbox
<1> HIDE DEF C, P
<1>3. /\ Fresh \in Sandbox /\ Fresh.process = "up" /\ Fresh.registered = {}
      /\ Fresh.control = <<>> /\ Fresh.pipe = <<Ready>> /\ Fresh.background = {}
  BY <1>1, <1>2 DEF Fresh
<1> DEFINE r == [Fresh EXCEPT !.process = "none", !.stdin = FALSE, !.pipe = <<>>]
<1>4. /\ r \in Sandbox /\ r.process = "none" /\ r.registered = {}
      /\ r.control = <<>> /\ r.pipe = <<>> /\ r.background = {}
  BY <1>1, <1>2, <1>3
<1> QED
  BY <1>3, <1>4 DEF None

\* A thread gives its sandbox up.
LEMMA ForgetDoes ==
  ASSUME IInv, NEW t \in Threads, mine[t] \in Sandboxes, Forget(t)
  PROVE  /\ sandbox' \in [Sandboxes -> Sandbox]
         /\ mine' \in [Threads -> Sandboxes \cup {NoSandbox}]
         /\ \A u \in Threads : mine'[u] = IF u = t THEN NoSandbox ELSE mine[u]
         /\ t \notin sandbox'[mine[t]].registered
         /\ \A s \in Sandboxes :
              /\ sandbox'[s].process = "up" => sandbox[s].process = "up"
              /\ sandbox'[s].registered \subseteq sandbox[s].registered
              /\ \A c \in Commands : /\ About(sandbox'[s].control, c)
                                            => About(sandbox[s].control, c)
                                     /\ About(sandbox'[s].pipe, c) => About(sandbox[s].pipe, c)
         /\ \A u \in Threads : u # t /\ mine[u] \in Sandboxes =>
              /\ sandbox'[mine[u]].process = sandbox[mine[u]].process
              /\ sandbox'[mine[u]].control = sandbox[mine[u]].control
              /\ sandbox'[mine[u]].pipe = sandbox[mine[u]].pipe
              /\ u \in sandbox[mine[u]].registered => u \in sandbox'[mine[u]].registered
<1> USE DEF IInv
<1> DEFINE s == mine[t]
           R == sandbox[s].registered \ {t}
<1>1. s \in Sandboxes /\ R \in SUBSET Commands
  BY Fields
<1>2. /\ mine' \in [Threads -> Sandboxes \cup {NoSandbox}]
      /\ \A u \in Threads : mine'[u] = IF u = t THEN NoSandbox ELSE mine[u]
  BY DEF Forget, Shapes
<1>3. CASE sandbox' = [sandbox EXCEPT ![s].registered = R]
  <2> HIDE DEF s, R
  <2>1. /\ sandbox' \in [Sandboxes -> Sandbox]
        /\ \A u \in Sandboxes :
             /\ sandbox'[u].process = sandbox[u].process
             /\ sandbox'[u].control = sandbox[u].control /\ sandbox'[u].pipe = sandbox[u].pipe
             /\ sandbox'[u].registered = IF u = s THEN R ELSE sandbox[u].registered
    BY <1>1, <1>3, RegisteredTyped
  <2> USE DEF s, R
  <2> QED
    BY <1>1, <1>2, <2>1
<1>4. CASE sandbox' = [sandbox EXCEPT ![s] = None] /\ \A u \in Threads \ {t} : mine[u] # s
  <2>1. /\ None \in Sandbox /\ None.process = "none" /\ None.registered = {}
        /\ None.control = <<>> /\ None.pipe = <<>>
    BY FreshTyped
  <2>2. /\ sandbox' \in [Sandboxes -> Sandbox] /\ sandbox'[s] = None
        /\ \A u \in Sandboxes : u # s => sandbox'[u] = sandbox[u]
    BY <1>1, <1>4, <2>1 DEF Shapes
  <2>3. \A c : ~About(<<>>, c)
    BY NothingIn
  <2> QED
    BY <1>1, <1>2, <1>4, <2>1, <2>2, <2>3
<1> QED
  BY <1>3, <1>4 DEF Forget, Of

\* A command that was not sent.
LEMMA UnusedTyped ==
  /\ Unused \in AnyCommand /\ Unused.queue = <<>> /\ Unused.seen = 0 /\ Unused.kill = FALSE
  /\ Unused.result = "none"
  /\ [Unused EXCEPT !.result = "lost"] \in AnyCommand
  /\ [Unused EXCEPT !.result = "lost"].queue = <<>>
  /\ [Unused EXCEPT !.result = "lost"].seen = 0
  /\ [Unused EXCEPT !.result = "lost"].result = "lost"
<1>1. <<>> \in Seq(Event)
  OBVIOUS
<1>2. /\ Unused \in AnyCommand /\ Unused.queue = <<>> /\ Unused.seen = 0 /\ Unused.kill = FALSE
      /\ Unused.result = "none"
  BY <1>1 DEF Unused, AnyCommand, Results
<1> QED
  BY <1>1, <1>2 DEF AnyCommand, Results

\* A channel without chunks of a command holds none of them.
LEMMA NoOutsIn ==
  /\ \A c : Outs(<<>>, c) = 0
  /\ \A S : \A q \in Seq(S) : \A c : ~Has(q, <<c, "out">>) => Outs(q, c) = 0
<1>1. \A S : \A q \in Seq(S) : \A c : ~Has(q, <<c, "out">>) => Outs(q, c) = 0
  BY OutsAre
<1>2. <<>> \in Seq({})
  OBVIOUS
<1> QED
  BY <1>1, <1>2, NothingIn

\* A call asks for a kill.
LEMMA KillTyped ==
  ASSUME Shapes, NEW c \in Commands, command' = [command EXCEPT ![c].kill = TRUE]
  PROVE  command' \in [Commands -> AnyCommand] /\ CommandsKept
<1> DEFINE r == [command[c] EXCEPT !.kill = TRUE]
<1>1. r \in AnyCommand /\ r.queue = command[c].queue /\ r.seen = command[c].seen
      /\ r.result = command[c].result
  BY DEF Shapes, AnyCommand
<1>2. command' = [command EXCEPT ![c] = r]
  OBVIOUS
<1> HIDE DEF r
<1> QED
  BY <1>1, <1>2 DEF Shapes, CommandsKept

\* A call takes an event from its queue.
LEMMA TakeDoes ==
  ASSUME IInv, NEW c \in Commands, NEW r \in AnyCommand, command[c].queue # <<>>,
         r.queue = Tail(command[c].queue), command' = [command EXCEPT ![c] = r]
  PROVE  /\ command' \in [Commands -> AnyCommand] /\ command'[c] = r /\ QueueTyped(c)
         /\ \A d \in Commands : d # c => /\ QueueAlike(d) /\ command'[d].seen = command[d].seen
                                         /\ command'[d].result = command[d].result
         /\ \A k : Has(command[c].queue, <<c, k>>)
                     <=> Has(command'[c].queue, <<c, k>>) \/ Head(command[c].queue) = <<c, k>>
         /\ EndIn(command'[c].queue, c) => EndIn(command[c].queue, c)
         /\ ExitLast(command'[c].queue, c)
         /\ Head(command[c].queue) = <<c, "exit">> => ~Has(command'[c].queue, <<c, "out">>)
         /\ Outs(command'[c].queue, c) \in Nat
         /\ Outs(command[c].queue, c)
              = Outs(command'[c].queue, c)
                  + (IF Head(command[c].queue) = <<c, "out">> THEN 1 ELSE 0)
<1> USE DEF IInv
<1> DEFINE q == command[c].queue
<1>1. q \in Seq(Event) /\ q # <<>> /\ ExitLast(q, c) /\ r.queue = Tail(q)
        /\ q = command[c].queue
  BY Fields DEF ExitIsLast, ExitComesLast
<1>2. /\ command' \in [Commands -> AnyCommand] /\ command'[c] = r
      /\ \A d \in Commands : d # c => command'[d] = command[d]
  BY DEF Shapes
<1>3. \A d \in Commands : d # c => /\ QueueAlike(d) /\ command'[d].seen = command[d].seen
                                   /\ command'[d].result = command[d].result
  BY <1>2, OneIsAlike DEF NotedBy, ExitIsLast, ExitComesLast
<1>4. QueueTyped(c)
  <2>1. Len(q) <= QueueSize /\ \A i \in DOMAIN q : q[i][1] = c
    BY DEF QueuesFit, OwnEvents
  <2> HIDE DEF q
  <2>2. Tail(q) \in Seq(Event) /\ Len(Tail(q)) = Len(q) - 1
    BY <1>1, TailOf
  <2>3. Len(Tail(q)) <= QueueSize
    BY <1>1, <2>1, <2>2, BoundAssumption
  <2>4. \A i \in DOMAIN Tail(q) : Tail(q)[i][1] = c
    BY <1>1, <2>1, TailShifts
  <2> QED
    BY <1>1, <1>2, <2>2, <2>3, <2>4 DEF QueueTyped
<1> HIDE DEF q
<1>5. /\ \A k : Has(q, <<c, k>>) <=> Has(Tail(q), <<c, k>>) \/ Head(q) = <<c, k>>
      /\ ExitLast(Tail(q), c)
      /\ Head(q) = <<c, "exit">> => ~Has(Tail(q), <<c, "out">>)
      /\ Outs(Tail(q), c) \in Nat
      /\ Outs(q, c) = Outs(Tail(q), c) + (IF Head(q) = <<c, "out">> THEN 1 ELSE 0)
  BY <1>1, EventTaken
<1>6. EndIn(Tail(q), c) => EndIn(q, c)
  BY <1>5 DEF EndIn
<1> QED
  BY <1>1, <1>2, <1>3, <1>4, <1>5, <1>6

\* The first event of a queue.
LEMMA HeadOfQueue ==
  ASSUME IInv, NEW c \in Commands, command[c].queue # <<>>
  PROVE  \E k \in {"out", "exit", "spawn_error", "lost"} : Head(command[c].queue) = <<c, k>>
<1> DEFINE q == command[c].queue
<1>1. q \in Seq(Event) /\ \A i \in DOMAIN q : q[i][1] = c
  BY Fields DEF IInv, OwnEvents
<1>2. q # <<>>
  OBVIOUS
<1> HIDE DEF q
<1>3. Head(q) \in Event /\ Head(q)[1] = c
  BY <1>1, <1>2, TailShifts
<1>4. \E k \in {"out", "exit", "spawn_error", "lost"} : Head(q) = <<c, k>>
  BY <1>3 DEF Event
<1> QED
  BY <1>4 DEF q

\* A command that the worker does not know.
LEMMA NoTaskTyped ==
  /\ NoTask \in Task /\ NoTask.phase = "none" /\ ~NoTask.lives /\ NoTask.made = 0
  /\ [NoTask EXCEPT !.lives = FALSE] \in Task
  /\ [NoTask EXCEPT !.lives = FALSE].lives = FALSE /\ [NoTask EXCEPT !.lives = FALSE].made = 0
<1>1. 0 \in 0..MaxOutput
  BY BoundAssumption
<1>2. NoTask \in Task /\ NoTask.phase = "none" /\ ~NoTask.lives /\ NoTask.made = 0
  BY <1>1 DEF NoTask, Task
<1> QED
  BY <1>1, <1>2 DEF Task

\* A call gets an event.
LEMMA DeliverDoes ==
  ASSUME IInv, NEW c \in Commands, NEW k \in {"out", "exit", "spawn_error", "lost"}, Room(c),
         command' = [command EXCEPT ![c] = Put(c, <<c, k>>)]
  PROVE  /\ command' \in [Commands -> AnyCommand] /\ QueueTyped(c)
         /\ command'[c].seen = command[c].seen /\ command'[c].result = command[c].result
         /\ \A d \in Commands : d # c => /\ QueueAlike(d) /\ command'[d].seen = command[d].seen
                                         /\ command'[d].result = command[d].result
         /\ \A l : Has(command'[c].queue, <<c, l>>) <=> Has(command[c].queue, <<c, l>>) \/ l = k
         /\ (k = "out" => ~Has(command[c].queue, <<c, "exit">>))
                => ExitLast(command'[c].queue, c)
         /\ Outs(command[c].queue, c) \in Nat
         /\ Outs(command'[c].queue, c)
                = Outs(command[c].queue, c) + (IF k = "out" THEN 1 ELSE 0)
<1> USE DEF IInv
<1> DEFINE q == command[c].queue
           x == <<c, k>>
<1>1. /\ q \in Seq(Event) /\ x \in Event /\ Len(q) < QueueSize /\ QueueSize \in Nat
      /\ ExitLast(q, c) /\ \A i \in DOMAIN q : q[i][1] = c
  BY Fields, BoundAssumption DEF Event, Room, ExitIsLast, ExitComesLast, OwnEvents
<1>2. x[1] = c /\ \A l : x = <<c, l>> <=> l = k
  OBVIOUS
<1>3. /\ command' \in [Commands -> AnyCommand] /\ command'[c] = Put(c, x)
      /\ \A d \in Commands : d # c => command'[d] = command[d]
      /\ Put(c, x).queue = Append(q, x)
      /\ Put(c, x).seen = command[c].seen /\ Put(c, x).result = command[c].result
  <2>1. /\ Put(c, x) \in AnyCommand /\ Put(c, x).queue = Append(q, x)
        /\ Put(c, x).seen = command[c].seen /\ Put(c, x).result = command[c].result
    BY <1>1, PutDoes
  <2> QED
    BY <2>1 DEF Shapes
<1>4. \A d \in Commands : d # c => /\ QueueAlike(d) /\ command'[d].seen = command[d].seen
                                   /\ command'[d].result = command[d].result
  BY <1>3, OneIsAlike DEF NotedBy, ExitIsLast, ExitComesLast
<1> HIDE DEF q, x
<1>5. /\ Append(q, x) \in Seq(Event) /\ Len(Append(q, x)) = Len(q) + 1
      /\ \A e : Has(Append(q, x), e) <=> Has(q, e) \/ x = e
      /\ (x = <<c, "out">> => ~Has(q, <<c, "exit">>)) => ExitLast(Append(q, x), c)
  BY <1>1, AppendTo
<1>6. QueueTyped(c)
  <2>1. \A i \in DOMAIN Append(q, x) : Append(q, x)[i][1] = c
    BY <1>1, <1>2, AppendAdds
  <2>2. Len(Append(q, x)) <= QueueSize
    BY <1>1, <1>5
  <2> QED
    <3>1. command'[c].queue = Append(q, x)
      BY <1>3
    <3> QED
      BY <1>5, <2>1, <2>2, <3>1 DEF QueueTyped
<1>7. /\ Outs(q, c) \in Nat
      /\ Outs(Append(q, x), c) = Outs(q, c) + (IF k = "out" THEN 1 ELSE 0)
  <2>1. Outs(Append(q, x), c) = Outs(q, c) + (IF x = <<c, "out">> THEN 1 ELSE 0)
    BY <1>1, OutsOfAppend
  <2>2. Outs(q, c) \in Nat
    BY <1>1, OutsAre
  <2> QED
    BY <1>2, <2>1, <2>2
<1>8. /\ \A l : Has(Append(q, x), <<c, l>>) <=> Has(q, <<c, l>>) \/ l = k
      /\ (k = "out" => ~Has(q, <<c, "exit">>)) => ExitLast(Append(q, x), c)
  BY <1>2, <1>5
<1>9. command'[c].queue = Append(q, x) /\ command[c].queue = q
  BY <1>3 DEF q
<1> QED
  BY <1>3, <1>4, <1>6, <1>7, <1>8, <1>9

-----------------------------------------------------------------------------
(* Steps of a tool call. *)

\* get_or_start takes the lock of the pool.
LEMMA KeptByAcquire ==
  ASSUME IInv, NEW c \in Commands, Acquire(c)
  PROVE  IInv'
<1> USE Names DEF IInv
<1>1. pc[c] = "idle" /\ poolLock = NoOne
  BY DEF Acquire, At, Go, Of, Shapes, Places
<1>2. poolLock' = c /\ pool' = pool
  BY <1>1 DEF Acquire, At, Go, Of
<1>3. \A u \in Threads : pc'[u] = IF u = c THEN "acquire" ELSE pc[u]
  BY <1>1 DEF Acquire, At, Go, Of, Shapes
<1>4. mine' = mine
  BY <1>1 DEF Acquire, At, Go, Of, Shapes
<1>5. /\ pool' \in Sandboxes \cup {NoSandbox} /\ poolLock' \in Threads \cup {NoOne}
      /\ pc' \in [Threads -> Phases] /\ mine' \in [Threads -> Sandboxes \cup {NoSandbox}]
  BY <1>1 DEF Acquire, At, Go, Of, Shapes, Phases
<1>6. sandbox' \in [Sandboxes -> Sandbox] /\ SandboxesKept
  BY DEF Acquire, At, Go, Of, Shapes, SandboxesKept
<1>7. command' \in [Commands -> AnyCommand] /\ CommandsKept
  BY DEF Acquire, At, Go, Of, Shapes, CommandsKept
<1>8. Alike
  BY <1>7, NotedIsAlike
<1>9. task' \in [Commands -> Task] /\ TasksKept
  BY DEF Acquire, At, Go, Of, Shapes, TasksKept
<1>10. Shapes'
  BY <1>5, <1>6, <1>7, <1>9 DEF Shapes
<1>11. \A e \in Commands : e # c => Undisturbed(e)
  BY <1>3, <1>4, <1>6, <1>8, <1>9, ChannelKept DEF Undisturbed, Alike, TasksKept
<1>12. QueuesFit'
  BY <1>1, <1>8 DEF QueuesFit, Alike, QueueAlike, QueueTyped
<1>13. Places'
  BY <1>1, <1>3, <1>4 DEF Places
<1>14. Locking'
  BY <1>1, <1>3, <1>2 DEF Locking, Places
<1>15. NothingYet'
  BY <1>1, <1>3, <1>2, <1>9, <1>8, <1>6, <1>4
    DEF NothingYet, Unsent, Locking, Places, SandboxesKept, Alike, QueueAlike, QueueHas,
         TasksKept
<1>16. RegisteredIsMine'
  BY <1>1, <1>3, <1>4, <1>6, Homes DEF RegisteredIsMine, Places, SandboxesKept
<1>17. RunOnce'
  <2>1. ASSUME NEW e \in Commands, e # c PROVE StartsOnce(e)'
    BY <2>1, <1>11, UndisturbedKept
  <2>2. StartsOnce(c)'
    BY <1>1, <1>4, <1>6, <1>9, <1>3, Homes DEF RunOnce, SandboxesKept, TasksKept, StartsOnce
  <2> QED
    BY <2>1, <2>2 DEF RunOnce
<1>18. LivesRuns'
  BY <1>1, <1>4, <1>6, <1>9, <1>3, Homes DEF LivesRuns, SandboxesKept, TasksKept
<1>19. EndReported'
  <2>1. ASSUME NEW e \in Commands, e # c PROVE ReportIsTrue(e)'
    BY <2>1, <1>11, UndisturbedKept
  <2>2. ReportIsTrue(c)'
    <3>1. mine'[c] = mine[c] /\ task'[c].phase = task[c].phase /\ QueueHas(c)
      BY <1>1, <1>4, <1>6, <1>9, <1>8, <1>3 DEF Alike, QueueAlike, TasksKept
    <3>2. mine[c] \in Sandboxes => sandbox'[mine[c]].pipe = sandbox[mine[c]].pipe
      BY <1>1, <1>4, <1>6, <1>9, <1>8, <1>3 DEF SandboxesKept
    <3> QED
      BY <3>1, <3>2, ReportKept
  <2> QED
    BY <2>1, <2>2 DEF EndReported
<1>20. AtRelease'
  BY <1>1, <1>3, <1>4, <1>6, <1>9, Homes DEF AtRelease, Places, SandboxesKept, TasksKept
<1>21. Owned'
  BY <1>1, <1>3, <1>4, <1>6, <1>2, Homes DEF Owned, Places, Locking, SandboxesKept
<1>22. ExitIsLast'
  <2>1. ASSUME NEW e \in Commands, e # c PROVE ExitComesLast(e)'
    BY <2>1, <1>11, UndisturbedKept
  <2>2. ExitComesLast(c)'
    BY <1>1, <1>4, <1>6, <1>8, <1>3, Homes
      DEF ExitIsLast, SandboxesKept, Alike, QueueAlike, QueueHas, ExitComesLast
  <2> QED
    BY <2>1, <2>2 DEF ExitIsLast
<1>23. OwnEvents'
  BY <1>1, <1>8 DEF OwnEvents, Alike, QueueAlike, QueueTyped
<1>24. OutputCounted'
  <2>1. ASSUME NEW e \in Commands, e # c PROVE AllCounted(e)'
    BY <2>1, <1>11, UndisturbedKept
  <2>2. AllCounted(c)'
    BY <1>1, <1>3, <1>4, <1>6, <1>8, <1>9, Homes
      DEF OutputCounted, Places, SandboxesKept, Alike, QueueAlike, QueueOuts, TasksKept,
           AllCounted
  <2> QED
    BY <2>1, <2>2 DEF OutputCounted
<1>25. SeenWasMade'
  BY <1>1, <1>8, Fields DEF SeenWasMade, Alike
<1>26. ExitSettled'
  BY <1>1, <1>8, <1>3, <1>9 DEF ExitSettled, Places, Alike, TasksKept
<1> QED
  BY <1>10, <1>12, <1>13, <1>14, <1>15, <1>16, <1>17, <1>18, <1>19, <1>20, <1>21, <1>22, <1>23,
     <1>24, <1>25, <1>26

\* It finds the healthy sandbox of the pool.
LEMMA KeptByFound ==
  ASSUME IInv, NEW c \in Commands, Found(c)
  PROVE  IInv'
<1> USE Names DEF IInv
<1>1. pc[c] = "acquire" /\ pool \in Sandboxes
  BY DEF Found, At, Go, Of, Shapes, Places
<1>2. poolLock' = NoOne /\ pool' = pool
  BY <1>1 DEF Found, At, Go, Of
<1>3. \A u \in Threads : pc'[u] = IF u = c THEN "register" ELSE pc[u]
  BY <1>1 DEF Found, At, Go, Of, Shapes
<1>4. \A u \in Threads : mine'[u] = IF u = c THEN pool ELSE mine[u]
  BY <1>1 DEF Found, At, Go, Of, Shapes
<1>5. /\ pool' \in Sandboxes \cup {NoSandbox} /\ poolLock' \in Threads \cup {NoOne}
      /\ pc' \in [Threads -> Phases] /\ mine' \in [Threads -> Sandboxes \cup {NoSandbox}]
  BY <1>1 DEF Found, At, Go, Of, Shapes, Phases
<1>6. sandbox' \in [Sandboxes -> Sandbox] /\ SandboxesKept
  BY DEF Found, At, Go, Of, Shapes, SandboxesKept
<1>7. command' \in [Commands -> AnyCommand] /\ CommandsKept
  BY DEF Found, At, Go, Of, Shapes, CommandsKept
<1>8. Alike
  BY <1>7, NotedIsAlike
<1>9. task' \in [Commands -> Task] /\ TasksKept
  BY DEF Found, At, Go, Of, Shapes, TasksKept
<1>10. \A s \in Sandboxes :
         /\ ~Has(sandbox[s].control, <<c, "run">>) /\ Once(sandbox[s].control, <<c, "run">>)
         /\ ExitLast(sandbox[s].pipe, c) /\ ~EndIn(sandbox[s].pipe, c)
         /\ ~Has(sandbox[s].pipe, <<c, "out">>)
  BY <1>1, UnsentClean DEF Unsent
<1>11. Shapes'
  BY <1>5, <1>6, <1>7, <1>9 DEF Shapes
<1>12. \A e \in Commands : e # c => Undisturbed(e)
  BY <1>3, <1>4, <1>6, <1>8, <1>9, ChannelKept DEF Undisturbed, Alike, TasksKept
<1>13. QueuesFit'
  BY <1>1, <1>8 DEF QueuesFit, Alike, QueueAlike, QueueTyped
<1>14. Places'
  BY <1>1, <1>3, <1>4 DEF Places
<1>15. Locking'
  BY <1>1, <1>3, <1>2 DEF Locking, Places
<1>16. NothingYet'
  BY <1>1, <1>3, <1>2, <1>9, <1>8, <1>6, <1>4
    DEF NothingYet, Unsent, Locking, Places, SandboxesKept, Alike, QueueAlike, QueueHas,
         TasksKept
<1>17. RegisteredIsMine'
  BY <1>1, <1>3, <1>4, <1>6, Homes DEF RegisteredIsMine, Places, SandboxesKept
<1>18. RunOnce'
  <2>1. ASSUME NEW e \in Commands, e # c PROVE StartsOnce(e)'
    BY <2>1, <1>12, UndisturbedKept
  <2>2. StartsOnce(c)'
    BY <1>1, <1>4, <1>6, <1>9, <1>3, Homes, <1>10
      DEF RunOnce, SandboxesKept, TasksKept, StartsOnce
  <2> QED
    BY <2>1, <2>2 DEF RunOnce
<1>19. LivesRuns'
  BY <1>1, <1>4, <1>6, <1>9, <1>3, Homes DEF LivesRuns, SandboxesKept, TasksKept
<1>20. EndReported'
  <2>1. ASSUME NEW e \in Commands, e # c PROVE ReportIsTrue(e)'
    BY <2>1, <1>12, UndisturbedKept
  <2>2. ReportIsTrue(c)'
    BY <1>1, <1>4, <1>6, <1>9, <1>8, <1>3, Homes, <1>10
      DEF EndReported, SandboxesKept, Alike, QueueAlike, QueueHas, TasksKept, ReportIsTrue
  <2> QED
    BY <2>1, <2>2 DEF EndReported
<1>21. AtRelease'
  BY <1>1, <1>3, <1>4, <1>6, <1>9, Homes DEF AtRelease, Places, SandboxesKept, TasksKept
<1>22. Owned'
  BY <1>1, <1>3, <1>4, <1>6, <1>2, Homes DEF Owned, Places, Locking, SandboxesKept
<1>23. ExitIsLast'
  <2>1. ASSUME NEW e \in Commands, e # c PROVE ExitComesLast(e)'
    BY <2>1, <1>12, UndisturbedKept
  <2>2. ExitComesLast(c)'
    BY <1>1, <1>4, <1>6, <1>8, <1>3, Homes, <1>10
      DEF ExitIsLast, SandboxesKept, Alike, QueueAlike, QueueHas, ExitComesLast
  <2> QED
    BY <2>1, <2>2 DEF ExitIsLast
<1>24. OwnEvents'
  BY <1>1, <1>8 DEF OwnEvents, Alike, QueueAlike, QueueTyped
<1>25. OutputCounted'
  <2>1. ASSUME NEW e \in Commands, e # c PROVE AllCounted(e)'
    BY <2>1, <1>12, UndisturbedKept
  <2>2. AllCounted(c)'
    BY <1>1, <1>3, <1>4, <1>6, <1>8, <1>9, Homes
      DEF OutputCounted, Places, SandboxesKept, Alike, QueueAlike, QueueOuts, TasksKept,
           AllCounted
  <2> QED
    BY <2>1, <2>2 DEF OutputCounted
<1>26. SeenWasMade'
  BY <1>1, <1>8, Fields DEF SeenWasMade, Alike
<1>27. ExitSettled'
  BY <1>1, <1>8, <1>3, <1>9 DEF ExitSettled, Places, Alike, TasksKept
<1> QED
  BY <1>11, <1>13, <1>14, <1>15, <1>16, <1>17, <1>18, <1>19, <1>20, <1>21, <1>22, <1>23, <1>24,
     <1>25, <1>26, <1>27

\* It takes the unhealthy one out of the pool to close it.
LEMMA KeptByUnhealthy ==
  ASSUME IInv, NEW c \in Commands, Unhealthy(c)
  PROVE  IInv'
<1> USE Names DEF IInv
<1>1. pc[c] = "acquire" /\ pool \in Sandboxes
  BY DEF Unhealthy, At, Go, Of, Shapes, Places
<1>2. poolLock' = poolLock /\ pool' = NoSandbox
  BY <1>1 DEF Unhealthy, At, Go, Of
<1>3. \A u \in Threads : pc'[u] = IF u = c THEN "closing" ELSE pc[u]
  BY <1>1 DEF Unhealthy, At, Go, Of, Shapes
<1>4. \A u \in Threads : mine'[u] = IF u = c THEN pool ELSE mine[u]
  BY <1>1 DEF Unhealthy, At, Go, Of, Shapes
<1>5. /\ pool' \in Sandboxes \cup {NoSandbox} /\ poolLock' \in Threads \cup {NoOne}
      /\ pc' \in [Threads -> Phases] /\ mine' \in [Threads -> Sandboxes \cup {NoSandbox}]
  BY <1>1 DEF Unhealthy, At, Go, Of, Shapes, Phases
<1>6. MarkLost(pool)
  BY <1>1 DEF Unhealthy, At, Go, Of
<1>7. /\ sandbox' \in [Sandboxes -> Sandbox] /\ SandboxesKept
      /\ command' \in [Commands -> AnyCommand] /\ Noted
  BY <1>1, <1>6, MarkLostDoes
<1>8. Alike
  BY <1>7, NotedIsAlike
<1>9. task' \in [Commands -> Task] /\ TasksKept
  BY DEF Unhealthy, At, Go, Of, Shapes, TasksKept
<1>10. \A s \in Sandboxes :
         /\ ~Has(sandbox[s].control, <<c, "run">>) /\ Once(sandbox[s].control, <<c, "run">>)
         /\ ExitLast(sandbox[s].pipe, c) /\ ~EndIn(sandbox[s].pipe, c)
         /\ ~Has(sandbox[s].pipe, <<c, "out">>)
  BY <1>1, UnsentClean DEF Unsent
<1>11. Shapes'
  BY <1>5, <1>7, <1>9 DEF Shapes
<1>12. \A e \in Commands : e # c => Undisturbed(e)
  BY <1>3, <1>4, <1>7, <1>8, <1>9, ChannelKept DEF Undisturbed, Alike, TasksKept
<1>13. QueuesFit'
  BY <1>1, <1>8 DEF QueuesFit, Alike, QueueAlike, QueueTyped
<1>14. Places'
  BY <1>1, <1>3, <1>4 DEF Places
<1>15. Locking'
  BY <1>1, <1>3, <1>2 DEF Locking, Places
<1>16. NothingYet'
  BY <1>1, <1>3, <1>2, <1>9, <1>8, <1>7, <1>4
    DEF NothingYet, Unsent, Locking, Places, SandboxesKept, Alike, QueueAlike, QueueHas,
         TasksKept
<1>17. RegisteredIsMine'
  BY <1>1, <1>3, <1>4, <1>7, Homes DEF RegisteredIsMine, Places, SandboxesKept
<1>18. RunOnce'
  <2>1. ASSUME NEW e \in Commands, e # c PROVE StartsOnce(e)'
    BY <2>1, <1>12, UndisturbedKept
  <2>2. StartsOnce(c)'
    BY <1>1, <1>4, <1>7, <1>9, <1>3, Homes, <1>10
      DEF RunOnce, SandboxesKept, TasksKept, StartsOnce
  <2> QED
    BY <2>1, <2>2 DEF RunOnce
<1>19. LivesRuns'
  BY <1>1, <1>4, <1>7, <1>9, <1>3, Homes DEF LivesRuns, SandboxesKept, TasksKept
<1>20. EndReported'
  <2>1. ASSUME NEW e \in Commands, e # c PROVE ReportIsTrue(e)'
    BY <2>1, <1>12, UndisturbedKept
  <2>2. ReportIsTrue(c)'
    BY <1>1, <1>4, <1>7, <1>9, <1>8, <1>3, Homes, <1>10
      DEF EndReported, SandboxesKept, Alike, QueueAlike, QueueHas, TasksKept, ReportIsTrue
  <2> QED
    BY <2>1, <2>2 DEF EndReported
<1>21. AtRelease'
  BY <1>1, <1>3, <1>4, <1>7, <1>9, Homes DEF AtRelease, Places, SandboxesKept, TasksKept
<1>22. Owned'
  BY <1>1, <1>3, <1>4, <1>7, <1>2, Homes DEF Owned, Places, Locking, SandboxesKept
<1>23. ExitIsLast'
  <2>1. ASSUME NEW e \in Commands, e # c PROVE ExitComesLast(e)'
    BY <2>1, <1>12, UndisturbedKept
  <2>2. ExitComesLast(c)'
    BY <1>1, <1>4, <1>7, <1>8, <1>3, Homes, <1>10
      DEF ExitIsLast, SandboxesKept, Alike, QueueAlike, QueueHas, ExitComesLast
  <2> QED
    BY <2>1, <2>2 DEF ExitIsLast
<1>24. OwnEvents'
  BY <1>1, <1>8 DEF OwnEvents, Alike, QueueAlike, QueueTyped
<1>25. OutputCounted'
  <2>1. ASSUME NEW e \in Commands, e # c PROVE AllCounted(e)'
    BY <2>1, <1>12, UndisturbedKept
  <2>2. AllCounted(c)'
    BY <1>1, <1>3, <1>4, <1>7, <1>8, <1>9, Homes
      DEF OutputCounted, Places, SandboxesKept, Alike, QueueAlike, QueueOuts, TasksKept,
           AllCounted
  <2> QED
    BY <2>1, <2>2 DEF OutputCounted
<1>26. SeenWasMade'
  BY <1>1, <1>8, Fields DEF SeenWasMade, Alike
<1>27. ExitSettled'
  BY <1>1, <1>8, <1>3, <1>9 DEF ExitSettled, Places, Alike, TasksKept
<1> QED
  BY <1>11, <1>13, <1>14, <1>15, <1>16, <1>17, <1>18, <1>19, <1>20, <1>21, <1>22, <1>23, <1>24,
     <1>25, <1>26, <1>27

\* It starts a sandbox, with nothing in its channels yet.
LEMMA KeptByStartSandbox ==
  ASSUME IInv, NEW c \in Commands, StartSandbox(c)
  PROVE  IInv'
<1> USE Names DEF IInv
<1>1. pc[c] = "acquire" /\ pool = NoSandbox /\ poolLock = c
  BY DEF StartSandbox, At, Go, Of, Locking, Shapes, Places
<1>2. PICK s \in Sandboxes : /\ sandbox[s] = None /\ mine' = [mine EXCEPT ![c] = s]
                              /\ sandbox' = [sandbox EXCEPT ![s] = Fresh]
  BY DEF StartSandbox
<1>3. poolLock' = poolLock /\ pool' = pool
  BY DEF StartSandbox, At, Go, Of, Locking
<1>4. \A u \in Threads : pc'[u] = IF u = c THEN "start" ELSE pc[u]
  BY <1>1 DEF StartSandbox, At, Go, Of, Locking, Shapes
<1>5. \A u \in Threads : mine'[u] = IF u = c THEN s ELSE mine[u]
  BY <1>2 DEF Shapes
<1>6. /\ pool' \in Sandboxes \cup {NoSandbox} /\ poolLock' \in Threads \cup {NoOne}
      /\ pc' \in [Threads -> Phases] /\ mine' \in [Threads -> Sandboxes \cup {NoSandbox}]
  BY <1>1, <1>2 DEF StartSandbox, At, Go, Of, Locking, Shapes, Phases
<1>7. /\ sandbox' \in [Sandboxes -> Sandbox]
      /\ \A u \in Sandboxes : u # s => sandbox'[u] = sandbox[u]
      /\ sandbox[s].process = "none" /\ sandbox'[s].process = "up"
      /\ sandbox[s].registered = {} /\ sandbox'[s].registered = {}
      /\ sandbox'[s].control = <<>>
  BY <1>2, FreshTyped DEF Shapes
<1>8. sandbox[s].pipe = <<>> /\ sandbox'[s].pipe = <<Ready>> /\ sandbox[s].control = <<>>
  BY <1>2, FreshTyped DEF Shapes
<1>9. \A d \in Commands :
        /\ ~About(sandbox'[s].control, d) /\ ~About(sandbox'[s].pipe, d)
        /\ ExitLast(sandbox'[s].pipe, d) /\ Once(sandbox'[s].control, <<d, "run">>)
        /\ \A k : /\ ~Has(sandbox'[s].control, <<d, k>>) /\ ~Has(sandbox'[s].pipe, <<d, k>>)
  BY <1>7, <1>8, NothingIn
<1>10. command' \in [Commands -> AnyCommand] /\ CommandsKept
  BY DEF StartSandbox, At, Go, Of, Locking, Shapes, CommandsKept
<1>11. Alike
  BY <1>10, NotedIsAlike
<1>12. task' \in [Commands -> Task] /\ TasksKept
  BY DEF StartSandbox, At, Go, Of, Locking, Shapes, TasksKept
<1>13. \A e \in Commands : e # c /\ mine[e] = s => pc[e] # "wait"
  BY <1>7 DEF RegisteredIsMine
<1>14. \A e \in Commands : e # c /\ mine[e] \in Sandboxes => ChannelAlike(e)
  <2> SUFFICES ASSUME NEW e \in Commands, e # c, mine[e] \in Sandboxes PROVE ChannelAlike(e)
    OBVIOUS
  <2>1. CASE mine[e] = s
    BY <2>1, <1>7, <1>9, <1>13 DEF ChannelAlike, EndIn
  <2>2. CASE mine[e] # s
    BY <2>2, <1>7 DEF ChannelAlike
  <2> QED
    BY <2>1, <2>2
<1>15. \A e \in Commands : e # c => Undisturbed(e)
  BY <1>4, <1>5, <1>11, <1>12, <1>14 DEF Undisturbed, Alike, TasksKept
<1>16. \A d \in Commands : ~EndIn(sandbox'[s].pipe, d)
  BY <1>9 DEF EndIn
<1>17. Shapes'
  BY <1>6, <1>7, <1>10, <1>12 DEF Shapes
<1>18. QueuesFit'
  BY <1>1, <1>11 DEF QueuesFit, Alike, QueueAlike, QueueTyped
<1>19. Places'
  BY <1>1, <1>4, <1>5 DEF Places
<1>20. Locking'
  BY <1>1, <1>4, <1>3 DEF Locking, Places
<1>21. \A d \in Commands : Unsent(d)' => Unsent(d)
  BY <1>1, <1>4, <1>3 DEF Unsent, Locking, Places
<1>22. \A d \in Commands : Unsent(d) =>
         \A u \in Sandboxes : /\ About(sandbox'[u].control, d) => About(sandbox[u].control, d)
                              /\ About(sandbox'[u].pipe, d) => About(sandbox[u].pipe, d)
  BY <1>9, <1>7
<1>23. NothingYet'
  <2>1. ASSUME NEW d \in Commands, Unsent(d)'
        PROVE  /\ Unsent(d) /\ QueueHas(d) /\ command'[d].seen = command[d].seen
               /\ task'[d].phase = task[d].phase /\ task'[d].made = task[d].made
               /\ task'[d].lives => task[d].lives
               /\ \A u \in Sandboxes :
                    /\ About(sandbox'[u].control, d) => About(sandbox[u].control, d)
                    /\ About(sandbox'[u].pipe, d) => About(sandbox[u].pipe, d)
    <3>1. Unsent(d)
      BY <2>1, <1>21
    <3>2. QueueHas(d) /\ command'[d].seen = command[d].seen
      BY <3>1, <1>11 DEF Alike, QueueAlike
    <3>3. /\ task'[d].phase = task[d].phase /\ task'[d].made = task[d].made
          /\ task'[d].lives => task[d].lives
      BY <3>1, <1>12 DEF TasksKept
    <3>4. \A u \in Sandboxes :
             /\ About(sandbox'[u].control, d) => About(sandbox[u].control, d)
             /\ About(sandbox'[u].pipe, d) => About(sandbox[u].pipe, d)
      BY <3>1, <1>22
    <3> QED
      BY <3>1, <3>2, <3>3, <3>4
  <2> QED
    BY <2>1, NothingYetKept
<1>24. RegisteredIsMine'
  BY <1>1, <1>4, <1>5, <1>7, <1>9, Homes DEF RegisteredIsMine, Places
<1>25. RunOnce'
  <2>1. ASSUME NEW e \in Commands, e # c PROVE StartsOnce(e)'
    BY <2>1, <1>15, UndisturbedKept
  <2>2. StartsOnce(c)'
    BY <1>1, <1>5, <1>7, <1>9, <1>12, <1>4, Homes DEF RunOnce, TasksKept, StartsOnce
  <2> QED
    BY <2>1, <2>2 DEF RunOnce
<1>26. LivesRuns'
  BY <1>1, <1>5, <1>7, <1>9, <1>12, <1>4, Homes DEF LivesRuns, TasksKept
<1>27. EndReported'
  <2>1. ASSUME NEW e \in Commands, e # c PROVE ReportIsTrue(e)'
    BY <2>1, <1>15, UndisturbedKept
  <2>2. ReportIsTrue(c)'
    <3>1. ~EndIn(sandbox'[mine'[c]].pipe, c)
      BY <1>16, <1>5
    <3>2. EndIn(command'[c].queue, c) <=> EndIn(command[c].queue, c)
      BY <1>11 DEF Alike, QueueAlike, QueueHas
    <3>3. task'[c].phase = task[c].phase
      BY <1>12 DEF TasksKept
    <3> QED
      BY <3>1, <3>2, <3>3 DEF EndReported, ReportIsTrue
  <2> QED
    BY <2>1, <2>2 DEF EndReported
<1>28. AtRelease'
  BY <1>1, <1>4, <1>5, <1>7, <1>9, <1>12, Homes DEF AtRelease, Places, TasksKept
<1>29. Owned'
  BY <1>1, <1>4, <1>5, <1>7, <1>9, <1>3, Homes DEF Owned, Places, Locking
<1>30. ExitIsLast'
  <2>1. ASSUME NEW e \in Commands, e # c PROVE ExitComesLast(e)'
    BY <2>1, <1>15, UndisturbedKept
  <2>2. ExitComesLast(c)'
    BY <1>1, <1>5, <1>7, <1>9, <1>11, <1>4, Homes
      DEF ExitIsLast, Alike, QueueAlike, QueueHas, ExitComesLast
  <2> QED
    BY <2>1, <2>2 DEF ExitIsLast
<1>31. OwnEvents'
  BY <1>1, <1>11 DEF OwnEvents, Alike, QueueAlike, QueueTyped
<1>32. OutputCounted'
  <2>1. ASSUME NEW e \in Commands, e # c PROVE AllCounted(e)'
    BY <2>1, <1>15, UndisturbedKept
  <2>2. AllCounted(c)'
    BY <1>1, <1>4, <1>5, <1>7, <1>9, <1>11, <1>12, Homes
      DEF OutputCounted, Places, Alike, QueueAlike, QueueOuts, TasksKept, AllCounted
  <2> QED
    BY <2>1, <2>2 DEF OutputCounted
<1>33. SeenWasMade'
  BY <1>1, <1>11, Fields DEF SeenWasMade, Alike
<1>34. ExitSettled'
  BY <1>1, <1>11, <1>4, <1>12 DEF ExitSettled, Places, Alike, TasksKept
<1> QED
  BY <1>17, <1>18, <1>19, <1>20, <1>23, <1>24, <1>25, <1>26, <1>27, <1>28, <1>29, <1>30, <1>31,
     <1>32, <1>33, <1>34

\* The sandbox is ready and goes into the pool.
LEMMA KeptByStarted ==
  ASSUME IInv, NEW c \in Commands, Started(c)
  PROVE  IInv'
<1> USE Names DEF IInv
<1>1. pc[c] = "start" /\ mine[c] \in Sandboxes
  BY DEF Started, At, Go, Of, Shapes, Places
<1>2. poolLock' = NoOne /\ pool' = mine[c]
  BY <1>1 DEF Started, At, Go, Of
<1>3. \A u \in Threads : pc'[u] = IF u = c THEN "register" ELSE pc[u]
  BY <1>1 DEF Started, At, Go, Of, Shapes
<1>4. mine' = mine
  BY <1>1 DEF Started, At, Go, Of, Shapes
<1>5. /\ pool' \in Sandboxes \cup {NoSandbox} /\ poolLock' \in Threads \cup {NoOne}
      /\ pc' \in [Threads -> Phases] /\ mine' \in [Threads -> Sandboxes \cup {NoSandbox}]
  BY <1>1 DEF Started, At, Go, Of, Shapes, Phases
<1>6. sandbox' \in [Sandboxes -> Sandbox] /\ SandboxesKept
  BY DEF Started, At, Go, Of, Shapes, SandboxesKept
<1>7. command' \in [Commands -> AnyCommand] /\ CommandsKept
  BY DEF Started, At, Go, Of, Shapes, CommandsKept
<1>8. Alike
  BY <1>7, NotedIsAlike
<1>9. task' \in [Commands -> Task] /\ TasksKept
  BY DEF Started, At, Go, Of, Shapes, TasksKept
<1>10. Shapes'
  BY <1>5, <1>6, <1>7, <1>9 DEF Shapes
<1>11. \A e \in Commands : e # c => Undisturbed(e)
  BY <1>3, <1>4, <1>6, <1>8, <1>9, ChannelKept DEF Undisturbed, Alike, TasksKept
<1>12. QueuesFit'
  BY <1>1, <1>8 DEF QueuesFit, Alike, QueueAlike, QueueTyped
<1>13. Places'
  BY <1>1, <1>3, <1>4 DEF Places
<1>14. Locking'
  BY <1>1, <1>3, <1>2 DEF Locking, Places
<1>15. NothingYet'
  BY <1>1, <1>3, <1>2, <1>9, <1>8, <1>6, <1>4
    DEF NothingYet, Unsent, Locking, Places, SandboxesKept, Alike, QueueAlike, QueueHas,
         TasksKept
<1>16. RegisteredIsMine'
  BY <1>1, <1>3, <1>4, <1>6, Homes DEF RegisteredIsMine, Places, SandboxesKept
<1>17. RunOnce'
  <2>1. ASSUME NEW e \in Commands, e # c PROVE StartsOnce(e)'
    BY <2>1, <1>11, UndisturbedKept
  <2>2. StartsOnce(c)'
    BY <1>1, <1>4, <1>6, <1>9, <1>3, Homes DEF RunOnce, SandboxesKept, TasksKept, StartsOnce
  <2> QED
    BY <2>1, <2>2 DEF RunOnce
<1>18. LivesRuns'
  BY <1>1, <1>4, <1>6, <1>9, <1>3, Homes DEF LivesRuns, SandboxesKept, TasksKept
<1>19. EndReported'
  <2>1. ASSUME NEW e \in Commands, e # c PROVE ReportIsTrue(e)'
    BY <2>1, <1>11, UndisturbedKept
  <2>2. ReportIsTrue(c)'
    <3>1. mine'[c] = mine[c] /\ task'[c].phase = task[c].phase /\ QueueHas(c)
      BY <1>1, <1>4, <1>6, <1>9, <1>8, <1>3 DEF Alike, QueueAlike, TasksKept
    <3>2. mine[c] \in Sandboxes => sandbox'[mine[c]].pipe = sandbox[mine[c]].pipe
      BY <1>1, <1>4, <1>6, <1>9, <1>8, <1>3 DEF SandboxesKept
    <3> QED
      BY <3>1, <3>2, ReportKept
  <2> QED
    BY <2>1, <2>2 DEF EndReported
<1>20. AtRelease'
  BY <1>1, <1>3, <1>4, <1>6, <1>9, Homes DEF AtRelease, Places, SandboxesKept, TasksKept
<1>21. Owned'
  BY <1>1, <1>3, <1>4, <1>6, <1>2, Homes DEF Owned, Places, Locking, SandboxesKept
<1>22. ExitIsLast'
  <2>1. ASSUME NEW e \in Commands, e # c PROVE ExitComesLast(e)'
    BY <2>1, <1>11, UndisturbedKept
  <2>2. ExitComesLast(c)'
    BY <1>1, <1>4, <1>6, <1>8, <1>3, Homes
      DEF ExitIsLast, SandboxesKept, Alike, QueueAlike, QueueHas, ExitComesLast
  <2> QED
    BY <2>1, <2>2 DEF ExitIsLast
<1>23. OwnEvents'
  BY <1>1, <1>8 DEF OwnEvents, Alike, QueueAlike, QueueTyped
<1>24. OutputCounted'
  <2>1. ASSUME NEW e \in Commands, e # c PROVE AllCounted(e)'
    BY <2>1, <1>11, UndisturbedKept
  <2>2. AllCounted(c)'
    BY <1>1, <1>3, <1>4, <1>6, <1>8, <1>9, Homes
      DEF OutputCounted, Places, SandboxesKept, Alike, QueueAlike, QueueOuts, TasksKept,
           AllCounted
  <2> QED
    BY <2>1, <2>2 DEF OutputCounted
<1>25. SeenWasMade'
  BY <1>1, <1>8, Fields DEF SeenWasMade, Alike
<1>26. ExitSettled'
  BY <1>1, <1>8, <1>3, <1>9 DEF ExitSettled, Places, Alike, TasksKept
<1> QED
  BY <1>10, <1>12, <1>13, <1>14, <1>15, <1>16, <1>17, <1>18, <1>19, <1>20, <1>21, <1>22, <1>23,
     <1>24, <1>25, <1>26

\* The sandbox was not ready in time, or it ended.
LEMMA KeptByNotStarted ==
  ASSUME IInv, NEW c \in Commands, NotStarted(c)
  PROVE  IInv'
<1> USE Names DEF IInv
<1>1. pc[c] = "start" /\ mine[c] \in Sandboxes
  BY DEF NotStarted, At, Go, Of, Shapes, Places
<1>2. poolLock' = poolLock /\ pool' = pool
  BY <1>1 DEF NotStarted, At, Go, Of
<1>3. \A u \in Threads : pc'[u] = IF u = c THEN "closing" ELSE pc[u]
  BY <1>1 DEF NotStarted, At, Go, Of, Shapes
<1>4. mine' = mine
  BY <1>1 DEF NotStarted, At, Go, Of, Shapes
<1>5. /\ pool' \in Sandboxes \cup {NoSandbox} /\ poolLock' \in Threads \cup {NoOne}
      /\ pc' \in [Threads -> Phases] /\ mine' \in [Threads -> Sandboxes \cup {NoSandbox}]
  BY <1>1 DEF NotStarted, At, Go, Of, Shapes, Phases
<1>6. sandbox' \in [Sandboxes -> Sandbox] /\ SandboxesKept
  BY <1>1, LostTyped DEF NotStarted, At, Go, Of
<1>7. /\ command' \in [Commands -> AnyCommand]
      /\ \A d \in Commands : /\ NotedBy(d) /\ command'[d].seen = command[d].seen
                             /\ command'[d].result =
                                    IF d = c THEN "no_sandbox" ELSE command[d].result
  BY <1>1, ReportDoes DEF NotStarted, At, Go, Of, Results
<1>8. \A d \in Commands : QueueAlike(d)
  BY <1>7, OneIsAlike DEF ExitIsLast, ExitComesLast
<1>9. task' \in [Commands -> Task] /\ TasksKept
  BY DEF NotStarted, At, Go, Of, Shapes, TasksKept
<1>10. Shapes'
  BY <1>5, <1>6, <1>7, <1>9 DEF Shapes
<1>11. \A e \in Commands : e # c => Undisturbed(e)
  BY <1>3, <1>4, <1>6, <1>7, <1>8, <1>9, ChannelKept DEF Undisturbed, Alike, TasksKept
<1>12. QueuesFit'
  BY <1>1, <1>7, <1>8 DEF QueuesFit, QueueAlike, QueueTyped
<1>13. Places'
  BY <1>1, <1>3, <1>4 DEF Places
<1>14. Locking'
  BY <1>1, <1>3, <1>2 DEF Locking, Places
<1>15. NothingYet'
  BY <1>1, <1>3, <1>2, <1>9, <1>7, <1>8, <1>6, <1>4
    DEF NothingYet, Unsent, Locking, Places, SandboxesKept, QueueAlike, QueueHas, TasksKept
<1>16. RegisteredIsMine'
  BY <1>1, <1>3, <1>4, <1>6, Homes DEF RegisteredIsMine, Places, SandboxesKept
<1>17. RunOnce'
  <2>1. ASSUME NEW e \in Commands, e # c PROVE StartsOnce(e)'
    BY <2>1, <1>11, UndisturbedKept
  <2>2. StartsOnce(c)'
    BY <1>1, <1>4, <1>6, <1>9, <1>3, Homes DEF RunOnce, SandboxesKept, TasksKept, StartsOnce
  <2> QED
    BY <2>1, <2>2 DEF RunOnce
<1>18. LivesRuns'
  BY <1>1, <1>4, <1>6, <1>9, <1>3, Homes DEF LivesRuns, SandboxesKept, TasksKept
<1>19. EndReported'
  <2>1. ASSUME NEW e \in Commands, e # c PROVE ReportIsTrue(e)'
    BY <2>1, <1>11, UndisturbedKept
  <2>2. ReportIsTrue(c)'
    <3>1. mine'[c] = mine[c] /\ task'[c].phase = task[c].phase /\ QueueHas(c)
      BY <1>1, <1>4, <1>6, <1>9, <1>7, <1>8, <1>3 DEF QueueAlike, TasksKept
    <3>2. mine[c] \in Sandboxes => sandbox'[mine[c]].pipe = sandbox[mine[c]].pipe
      BY <1>1, <1>4, <1>6, <1>9, <1>7, <1>8, <1>3 DEF SandboxesKept
    <3> QED
      BY <3>1, <3>2, ReportKept
  <2> QED
    BY <2>1, <2>2 DEF EndReported
<1>20. AtRelease'
  BY <1>1, <1>3, <1>4, <1>6, <1>9, Homes DEF AtRelease, Places, SandboxesKept, TasksKept
<1>21. Owned'
  BY <1>1, <1>3, <1>4, <1>6, <1>2, Homes DEF Owned, Places, Locking, SandboxesKept
<1>22. ExitIsLast'
  <2>1. ASSUME NEW e \in Commands, e # c PROVE ExitComesLast(e)'
    BY <2>1, <1>11, UndisturbedKept
  <2>2. ExitComesLast(c)'
    BY <1>1, <1>4, <1>6, <1>7, <1>8, <1>3, Homes
      DEF ExitIsLast, SandboxesKept, QueueAlike, QueueHas, ExitComesLast
  <2> QED
    BY <2>1, <2>2 DEF ExitIsLast
<1>23. OwnEvents'
  BY <1>1, <1>7, <1>8 DEF OwnEvents, QueueAlike, QueueTyped
<1>24. OutputCounted'
  <2>1. ASSUME NEW e \in Commands, e # c PROVE AllCounted(e)'
    BY <2>1, <1>11, UndisturbedKept
  <2>2. AllCounted(c)'
    BY <1>1, <1>3, <1>4, <1>6, <1>7, <1>8, <1>9, Homes
      DEF OutputCounted, Places, SandboxesKept, QueueAlike, QueueOuts, TasksKept, AllCounted
  <2> QED
    BY <2>1, <2>2 DEF OutputCounted
<1>25. SeenWasMade'
  BY <1>1, <1>7, <1>8, Fields DEF SeenWasMade
<1>26. ExitSettled'
  BY <1>1, <1>7, <1>8, <1>3, <1>9 DEF ExitSettled, Places, TasksKept
<1> QED
  BY <1>10, <1>12, <1>13, <1>14, <1>15, <1>16, <1>17, <1>18, <1>19, <1>20, <1>21, <1>22, <1>23,
     <1>24, <1>25, <1>26

\* A call does not register with a sandbox that is lost.
LEMMA KeptByRegisterLost ==
  ASSUME IInv, NEW c \in Commands, Register(c), Of(c).lost
  PROVE  IInv'
<1> USE Names DEF IInv
<1>1. pc[c] = "register" /\ mine[c] \in Sandboxes
  BY DEF Register, At, Go, Of, Shapes, Places
<1>2. poolLock' = poolLock /\ pool' = pool
  BY <1>1 DEF Register, At, Go, Of
<1>3. \A u \in Threads : pc'[u] = IF u = c THEN "discard" ELSE pc[u]
  BY <1>1 DEF Register, At, Go, Of, Shapes
<1>4. mine' = mine
  BY <1>1 DEF Register, At, Go, Of, Shapes
<1>5. /\ pool' \in Sandboxes \cup {NoSandbox} /\ poolLock' \in Threads \cup {NoOne}
      /\ pc' \in [Threads -> Phases] /\ mine' \in [Threads -> Sandboxes \cup {NoSandbox}]
  BY <1>1 DEF Register, At, Go, Of, Shapes, Phases
<1>6. sandbox' \in [Sandboxes -> Sandbox] /\ SandboxesKept
  BY DEF Register, At, Go, Of, Shapes, SandboxesKept
<1>7. /\ command' \in [Commands -> AnyCommand]
      /\ \A d \in Commands : /\ NotedBy(d) /\ command'[d].seen = command[d].seen
                             /\ command'[d].result = IF d = c THEN "lost" ELSE command[d].result
  BY <1>1, ReportDoes DEF Register, At, Go, Of, Results
<1>8. \A d \in Commands : QueueAlike(d)
  BY <1>7, OneIsAlike DEF ExitIsLast, ExitComesLast
<1>9. task' \in [Commands -> Task] /\ TasksKept
  BY DEF Register, At, Go, Of, Shapes, TasksKept
<1>10. \A s \in Sandboxes :
         /\ ~Has(sandbox[s].control, <<c, "run">>) /\ Once(sandbox[s].control, <<c, "run">>)
         /\ ExitLast(sandbox[s].pipe, c) /\ ~EndIn(sandbox[s].pipe, c)
         /\ ~Has(sandbox[s].pipe, <<c, "out">>)
  BY <1>1, UnsentClean DEF Unsent
<1>11. Shapes'
  BY <1>5, <1>6, <1>7, <1>9 DEF Shapes
<1>12. \A e \in Commands : e # c => Undisturbed(e)
  BY <1>3, <1>4, <1>6, <1>7, <1>8, <1>9, ChannelKept DEF Undisturbed, Alike, TasksKept
<1>13. QueuesFit'
  BY <1>1, <1>7, <1>8 DEF QueuesFit, QueueAlike, QueueTyped
<1>14. Places'
  BY <1>1, <1>3, <1>4 DEF Places
<1>15. Locking'
  BY <1>1, <1>3, <1>2 DEF Locking, Places
<1>16. NothingYet'
  BY <1>1, <1>3, <1>2, <1>9, <1>7, <1>8, <1>6, <1>4
    DEF NothingYet, Unsent, Locking, Places, SandboxesKept, QueueAlike, QueueHas, TasksKept
<1>17. RegisteredIsMine'
  BY <1>1, <1>3, <1>4, <1>6, Homes DEF RegisteredIsMine, Places, SandboxesKept
<1>18. RunOnce'
  <2>1. ASSUME NEW e \in Commands, e # c PROVE StartsOnce(e)'
    BY <2>1, <1>12, UndisturbedKept
  <2>2. StartsOnce(c)'
    BY <1>1, <1>4, <1>6, <1>9, <1>3, Homes, <1>10
      DEF RunOnce, SandboxesKept, TasksKept, StartsOnce
  <2> QED
    BY <2>1, <2>2 DEF RunOnce
<1>19. LivesRuns'
  BY <1>1, <1>4, <1>6, <1>9, <1>3, Homes DEF LivesRuns, SandboxesKept, TasksKept
<1>20. EndReported'
  <2>1. ASSUME NEW e \in Commands, e # c PROVE ReportIsTrue(e)'
    BY <2>1, <1>12, UndisturbedKept
  <2>2. ReportIsTrue(c)'
    <3>1. mine'[c] = mine[c] /\ task'[c].phase = task[c].phase /\ QueueHas(c)
      BY <1>1, <1>4, <1>6, <1>9, <1>7, <1>8, <1>3, <1>10 DEF QueueAlike, TasksKept
    <3>2. mine[c] \in Sandboxes => sandbox'[mine[c]].pipe = sandbox[mine[c]].pipe
      BY <1>1, <1>4, <1>6, <1>9, <1>7, <1>8, <1>3, <1>10 DEF SandboxesKept
    <3> QED
      BY <3>1, <3>2, ReportKept
  <2> QED
    BY <2>1, <2>2 DEF EndReported
<1>21. AtRelease'
  BY <1>1, <1>3, <1>4, <1>6, <1>9, Homes DEF AtRelease, Places, SandboxesKept, TasksKept
<1>22. Owned'
  BY <1>1, <1>3, <1>4, <1>6, <1>2, Homes DEF Owned, Places, Locking, SandboxesKept
<1>23. ExitIsLast'
  <2>1. ASSUME NEW e \in Commands, e # c PROVE ExitComesLast(e)'
    BY <2>1, <1>12, UndisturbedKept
  <2>2. ExitComesLast(c)'
    BY <1>1, <1>4, <1>6, <1>7, <1>8, <1>3, Homes, <1>10
      DEF ExitIsLast, SandboxesKept, QueueAlike, QueueHas, ExitComesLast
  <2> QED
    BY <2>1, <2>2 DEF ExitIsLast
<1>24. OwnEvents'
  BY <1>1, <1>7, <1>8 DEF OwnEvents, QueueAlike, QueueTyped
<1>25. OutputCounted'
  <2>1. ASSUME NEW e \in Commands, e # c PROVE AllCounted(e)'
    BY <2>1, <1>12, UndisturbedKept
  <2>2. AllCounted(c)'
    BY <1>1, <1>3, <1>4, <1>6, <1>7, <1>8, <1>9, Homes
      DEF OutputCounted, Places, SandboxesKept, QueueAlike, QueueOuts, TasksKept, AllCounted
  <2> QED
    BY <2>1, <2>2 DEF OutputCounted
<1>26. SeenWasMade'
  BY <1>1, <1>7, <1>8, Fields DEF SeenWasMade
<1>27. ExitSettled'
  BY <1>1, <1>7, <1>8, <1>3, <1>9 DEF ExitSettled, Places, TasksKept
<1> QED
  BY <1>11, <1>13, <1>14, <1>15, <1>16, <1>17, <1>18, <1>19, <1>20, <1>21, <1>22, <1>23, <1>24,
     <1>25, <1>26, <1>27

\* A call registers with its sandbox, and gets the events of its command from then on.
LEMMA KeptByRegisterUp ==
  ASSUME IInv, NEW c \in Commands, Register(c), ~Of(c).lost
  PROVE  IInv'
<1> USE Names DEF IInv
<1>1. pc[c] = "register" /\ mine[c] \in Sandboxes
  BY DEF Register, At, Go, Of, Shapes, Places
<1>2. poolLock' = poolLock /\ pool' = pool
  BY <1>1 DEF Register, At, Go, Of
<1>3. \A u \in Threads : pc'[u] = IF u = c THEN "send" ELSE pc[u]
  BY <1>1 DEF Register, At, Go, Of, Shapes
<1>4. mine' = mine
  BY <1>1 DEF Register, At, Go, Of, Shapes
<1>5. /\ pool' \in Sandboxes \cup {NoSandbox} /\ poolLock' \in Threads \cup {NoOne}
      /\ pc' \in [Threads -> Phases] /\ mine' \in [Threads -> Sandboxes \cup {NoSandbox}]
  BY <1>1 DEF Register, At, Go, Of, Shapes, Phases
<1>6. sandbox' = [sandbox EXCEPT ![mine[c]].registered = sandbox[mine[c]].registered \cup {c}]
  BY DEF Register, Of
<1>7. sandbox[mine[c]].registered \cup {c} \in SUBSET Commands
  BY <1>1, Homes
<1>8. /\ sandbox' \in [Sandboxes -> Sandbox]
      /\ \A u \in Sandboxes :
           /\ sandbox'[u].process = sandbox[u].process
           /\ sandbox'[u].control = sandbox[u].control /\ sandbox'[u].pipe = sandbox[u].pipe
           /\ sandbox'[u].registered = IF u = mine[c] THEN sandbox[mine[c]].registered \cup {c}
                                       ELSE sandbox[u].registered
  <2> DEFINE t == mine[c]
             R == sandbox[t].registered \cup {c}
  <2>1. /\ t \in Sandboxes /\ R \in SUBSET Commands
        /\ sandbox' = [sandbox EXCEPT ![t].registered = R]
    BY <1>1, <1>6, <1>7
  <2> HIDE DEF t, R
  <2>2. /\ sandbox' \in [Sandboxes -> Sandbox]
        /\ \A u \in Sandboxes :
             /\ sandbox'[u].process = sandbox[u].process
             /\ sandbox'[u].control = sandbox[u].control /\ sandbox'[u].pipe = sandbox[u].pipe
             /\ sandbox'[u].registered = IF u = t THEN R ELSE sandbox[u].registered
    BY <2>1, RegisteredTyped
  <2> QED
    BY <2>2 DEF t, R
<1>9. command' \in [Commands -> AnyCommand] /\ CommandsKept
  BY DEF Register, At, Go, Of, Shapes, CommandsKept
<1>10. Alike
  BY <1>9, NotedIsAlike
<1>11. task' \in [Commands -> Task] /\ TasksKept
  BY DEF Register, At, Go, Of, Shapes, TasksKept
<1>12. \A e \in Commands : mine[e] \in Sandboxes => ChannelAlike(e)
  BY <1>8 DEF ChannelAlike
<1>13. \A e \in Commands : e # c => Undisturbed(e)
  BY <1>3, <1>4, <1>10, <1>11, <1>12 DEF Undisturbed, Alike, TasksKept
<1>14. \A s \in Sandboxes :
         /\ ~Has(sandbox[s].control, <<c, "run">>) /\ Once(sandbox[s].control, <<c, "run">>)
         /\ ExitLast(sandbox[s].pipe, c) /\ ~EndIn(sandbox[s].pipe, c)
         /\ ~Has(sandbox[s].pipe, <<c, "out">>)
  BY <1>1, UnsentClean DEF Unsent
<1>15. Shapes'
  BY <1>5, <1>8, <1>9, <1>11 DEF Shapes
<1>16. QueuesFit'
  BY <1>1, <1>10 DEF QueuesFit, Alike, QueueAlike, QueueTyped
<1>17. Places'
  BY <1>1, <1>3, <1>4 DEF Places
<1>18. Locking'
  BY <1>1, <1>3, <1>2 DEF Locking, Places
<1>19. NothingYet'
  BY <1>1, <1>3, <1>2, <1>11, <1>10, <1>8, <1>4
    DEF NothingYet, Unsent, Locking, Places, Alike, QueueAlike, QueueHas, TasksKept
<1>20. RegisteredIsMine'
  BY <1>1, <1>3, <1>4, <1>8, Homes DEF RegisteredIsMine, Places
<1>21. RunOnce'
  <2>1. ASSUME NEW e \in Commands, e # c PROVE StartsOnce(e)'
    BY <2>1, <1>13, UndisturbedKept
  <2>2. StartsOnce(c)'
    BY <1>1, <1>4, <1>8, <1>11, <1>3, Homes, <1>14 DEF RunOnce, TasksKept, StartsOnce
  <2> QED
    BY <2>1, <2>2 DEF RunOnce
<1>22. LivesRuns'
  BY <1>1, <1>4, <1>8, <1>11, <1>3, Homes DEF LivesRuns, TasksKept
<1>23. EndReported'
  <2>1. ASSUME NEW e \in Commands, e # c PROVE ReportIsTrue(e)'
    BY <2>1, <1>13, UndisturbedKept
  <2>2. ReportIsTrue(c)'
    <3>1. mine'[c] = mine[c] /\ task'[c].phase = task[c].phase /\ QueueHas(c)
      BY <1>1, <1>4, <1>8, <1>11, <1>10, <1>3, <1>14 DEF Alike, QueueAlike, TasksKept
    <3>2. mine[c] \in Sandboxes => sandbox'[mine[c]].pipe = sandbox[mine[c]].pipe
      BY <1>1, <1>4, <1>8, <1>11, <1>10, <1>3, <1>14
    <3> QED
      BY <3>1, <3>2, ReportKept
  <2> QED
    BY <2>1, <2>2 DEF EndReported
<1>24. AtRelease'
  BY <1>1, <1>3, <1>4, <1>8, <1>11, Homes DEF AtRelease, Places, TasksKept
<1>25. Owned'
  BY <1>1, <1>3, <1>4, <1>8, <1>2, Homes DEF Owned, Places, Locking
<1>26. ExitIsLast'
  <2>1. ASSUME NEW e \in Commands, e # c PROVE ExitComesLast(e)'
    BY <2>1, <1>13, UndisturbedKept
  <2>2. ExitComesLast(c)'
    BY <1>1, <1>4, <1>8, <1>10, <1>3, Homes, <1>14
      DEF ExitIsLast, Alike, QueueAlike, QueueHas, ExitComesLast
  <2> QED
    BY <2>1, <2>2 DEF ExitIsLast
<1>27. OwnEvents'
  BY <1>1, <1>10 DEF OwnEvents, Alike, QueueAlike, QueueTyped
<1>28. OutputCounted'
  <2>1. ASSUME NEW e \in Commands, e # c PROVE AllCounted(e)'
    BY <2>1, <1>13, UndisturbedKept
  <2>2. AllCounted(c)'
    BY <1>1, <1>3, <1>4, <1>8, <1>10, <1>11, Homes
      DEF OutputCounted, Places, Alike, QueueAlike, QueueOuts, TasksKept, AllCounted
  <2> QED
    BY <2>1, <2>2 DEF OutputCounted
<1>29. SeenWasMade'
  BY <1>1, <1>10, Fields DEF SeenWasMade, Alike
<1>30. ExitSettled'
  BY <1>1, <1>10, <1>3, <1>11 DEF ExitSettled, Places, Alike, TasksKept
<1> QED
  BY <1>15, <1>16, <1>17, <1>18, <1>19, <1>20, <1>21, <1>22, <1>23, <1>24, <1>25, <1>26, <1>27,
     <1>28, <1>29, <1>30

\* The sandbox does not take the command: every command that is registered learns it.
LEMMA KeptBySendRefused ==
  ASSUME IInv, NEW c \in Commands, Send(c), Refuses(mine[c])
  PROVE  IInv'
<1> USE Names DEF IInv
<1>1. pc[c] = "send" /\ mine[c] \in Sandboxes
  BY DEF Send, At, Go, Of, Shapes, Places
<1>2. poolLock' = poolLock /\ pool' = pool
  BY <1>1 DEF Send, At, Go, Of
<1>3. \A u \in Threads : pc'[u] = IF u = c THEN "discard" ELSE pc[u]
  BY <1>1 DEF Send, At, Go, Of, Shapes
<1>4. mine' = mine
  BY <1>1 DEF Send, At, Go, Of, Shapes
<1>5. /\ pool' \in Sandboxes \cup {NoSandbox} /\ poolLock' \in Threads \cup {NoOne}
      /\ pc' \in [Threads -> Phases] /\ mine' \in [Threads -> Sandboxes \cup {NoSandbox}]
  BY <1>1 DEF Send, At, Go, Of, Shapes, Phases
<1>6. /\ sandbox[mine[c]].registered \ {c} \in SUBSET Commands
      /\ sandbox' = [sandbox EXCEPT ![mine[c]].lost = TRUE,
                        ![mine[c]].registered = sandbox[mine[c]].registered \ {c}]
  BY <1>1, Homes DEF Send
<1>7. /\ sandbox' \in [Sandboxes -> Sandbox]
      /\ \A u \in Sandboxes :
           /\ sandbox'[u].process = sandbox[u].process
           /\ sandbox'[u].control = sandbox[u].control /\ sandbox'[u].pipe = sandbox[u].pipe
           /\ sandbox'[u].registered = IF u = mine[c] THEN sandbox[mine[c]].registered \ {c}
                                       ELSE sandbox[u].registered
  <2> DEFINE t == mine[c]
             R == sandbox[t].registered \ {c}
  <2>1. /\ t \in Sandboxes /\ R \in SUBSET Commands
        /\ sandbox' = [sandbox EXCEPT ![t].lost = TRUE, ![t].registered = R]
    BY <1>1, <1>6
  <2> HIDE DEF t, R
  <2>2. /\ sandbox' \in [Sandboxes -> Sandbox]
        /\ \A u \in Sandboxes :
             /\ sandbox'[u].process = sandbox[u].process
             /\ sandbox'[u].control = sandbox[u].control /\ sandbox'[u].pipe = sandbox[u].pipe
             /\ sandbox'[u].registered = IF u = t THEN R ELSE sandbox[u].registered
    BY <2>1, LostAndRegisteredTyped
  <2> QED
    BY <2>2 DEF t, R
<1>8. /\ Unused.queue = <<>> /\ Unused.seen = 0 /\ Unused.kill = FALSE
      /\ [Unused EXCEPT !.result = "lost"] \in AnyCommand
      /\ [Unused EXCEPT !.result = "lost"].queue = <<>>
      /\ [Unused EXCEPT !.result = "lost"].seen = 0
      /\ [Unused EXCEPT !.result = "lost"].result = "lost"
  BY UnusedTyped
<1>9. command' = [d \in Commands |->
        IF d = c THEN [Unused EXCEPT !.result = "lost"]
        ELSE IF ~Of(c).lost /\ d \in Of(c).registered /\ Room(d)
             THEN Put(d, <<d, "lost">>) ELSE command[d]]
  BY DEF Send
<1>10. /\ command'[c] = [Unused EXCEPT !.result = "lost"]
       /\ \A d \in Commands : d # c =>
            \/ command'[d] = command[d]
            \/ Room(d) /\ command'[d] = Put(d, <<d, "lost">>)
  <2>1. command'[c] = [Unused EXCEPT !.result = "lost"]
    BY <1>9
  <2>2. ASSUME NEW d \in Commands, d # c
        PROVE  \/ command'[d] = command[d]
               \/ Room(d) /\ command'[d] = Put(d, <<d, "lost">>)
    BY <1>9, <2>2
  <2> QED
    BY <2>1, <2>2
<1>11. \A d \in Commands : d # c => /\ command'[d] \in AnyCommand /\ NotedBy(d)
                                      /\ command'[d].seen = command[d].seen
                                      /\ command'[d].result = command[d].result
  <2> SUFFICES ASSUME NEW d \in Commands, d # c
               PROVE  /\ command'[d] \in AnyCommand /\ NotedBy(d)
                      /\ command'[d].seen = command[d].seen
                      /\ command'[d].result = command[d].result
    OBVIOUS
  <2>1. <<d, "lost">> \in Event
    BY DEF Event
  <2> QED
    BY <1>10, <2>1, PutDoes DEF Shapes, NotedBy
<1>12. \A d \in Commands : d # c => QueueAlike(d)
  BY <1>11, OneIsAlike DEF ExitIsLast, ExitComesLast
<1>13. /\ command[c].seen = 0
       /\ \A k \in {"out", "exit", "spawn_error"} : ~Has(command[c].queue, <<c, k>>)
  BY <1>1 DEF NothingYet, Unsent
<1>14. QueueAlike(c)
  <2>1. command'[c].queue = <<>>
    BY <1>8, <1>10
  <2>2. Outs(command[c].queue, c) = 0 /\ Outs(<<>>, c) = 0
    BY <1>13, Fields, NoOutsIn
  <2>3. Len(<<>>) <= QueueSize /\ <<>> \in Seq(Event)
    BY BoundAssumption
  <2>4. QueueTyped(c)
    BY <2>1, <2>3 DEF QueueTyped
  <2>5. QueueHas(c)
    BY <2>1, <1>13, NothingIn DEF QueueHas, EndIn
  <2>6. QueueOuts(c) /\ ExitLast(command'[c].queue, c)
    BY <2>1, <2>2, NothingIn DEF QueueOuts
  <2> QED
    BY <2>4, <2>5, <2>6 DEF QueueAlike
<1>15. /\ command' \in [Commands -> AnyCommand]
       /\ \A d \in Commands : /\ QueueAlike(d) /\ command'[d].seen = command[d].seen
                              /\ command'[d].result =
                                     IF d = c THEN "lost" ELSE command[d].result
  <2>1. command'[c] \in AnyCommand /\ command'[c].seen = 0 /\ command'[c].result = "lost"
    BY <1>8, <1>10
  <2>2. \A d \in Commands : command'[d] \in AnyCommand
    BY <2>1, <1>11
  <2>3. command' \in [Commands -> AnyCommand]
    BY <2>2, <1>9
  <2> QED
    BY <2>1, <2>3, <1>11, <1>12, <1>13, <1>14
<1>16. task' \in [Commands -> Task] /\ TasksKept
  BY DEF Send, At, Go, Of, Shapes, TasksKept
<1>17. \A e \in Commands : mine[e] \in Sandboxes => ChannelAlike(e)
  BY <1>7 DEF ChannelAlike
<1>18. \A e \in Commands : e # c => Undisturbed(e)
  BY <1>3, <1>4, <1>15, <1>16, <1>17 DEF Undisturbed, TasksKept
<1>19. \A s \in Sandboxes :
         /\ ~Has(sandbox[s].control, <<c, "run">>) /\ Once(sandbox[s].control, <<c, "run">>)
         /\ ExitLast(sandbox[s].pipe, c) /\ ~EndIn(sandbox[s].pipe, c)
         /\ ~Has(sandbox[s].pipe, <<c, "out">>)
  BY <1>1, UnsentClean DEF Unsent
<1>20. Shapes'
  BY <1>5, <1>7, <1>15, <1>16 DEF Shapes
<1>21. QueuesFit'
  BY <1>1, <1>15 DEF QueuesFit, QueueAlike, QueueTyped
<1>22. Places'
  BY <1>1, <1>3, <1>4 DEF Places
<1>23. Locking'
  BY <1>1, <1>3, <1>2 DEF Locking, Places
<1>24. NothingYet'
  BY <1>1, <1>3, <1>2, <1>16, <1>15, <1>7, <1>4
    DEF NothingYet, Unsent, Locking, Places, QueueAlike, QueueHas, TasksKept
<1>25. RegisteredIsMine'
  BY <1>1, <1>3, <1>4, <1>7, Homes DEF RegisteredIsMine, Places
<1>26. RunOnce'
  <2>1. ASSUME NEW e \in Commands, e # c PROVE StartsOnce(e)'
    BY <2>1, <1>18, UndisturbedKept
  <2>2. StartsOnce(c)'
    BY <1>1, <1>4, <1>7, <1>16, <1>3, Homes, <1>19 DEF RunOnce, TasksKept, StartsOnce
  <2> QED
    BY <2>1, <2>2 DEF RunOnce
<1>27. LivesRuns'
  BY <1>1, <1>4, <1>7, <1>16, <1>3, Homes DEF LivesRuns, TasksKept
<1>28. EndReported'
  <2>1. ASSUME NEW e \in Commands, e # c PROVE ReportIsTrue(e)'
    BY <2>1, <1>18, UndisturbedKept
  <2>2. ReportIsTrue(c)'
    <3>1. mine'[c] = mine[c] /\ task'[c].phase = task[c].phase /\ QueueHas(c)
      BY <1>1, <1>4, <1>7, <1>16, <1>15, <1>3, <1>19 DEF QueueAlike, TasksKept
    <3>2. mine[c] \in Sandboxes => sandbox'[mine[c]].pipe = sandbox[mine[c]].pipe
      BY <1>1, <1>4, <1>7, <1>16, <1>15, <1>3, <1>19
    <3> QED
      BY <3>1, <3>2, ReportKept
  <2> QED
    BY <2>1, <2>2 DEF EndReported
<1>29. AtRelease'
  BY <1>1, <1>3, <1>4, <1>7, <1>16, Homes DEF AtRelease, Places, TasksKept
<1>30. Owned'
  BY <1>1, <1>3, <1>4, <1>7, <1>2, Homes DEF Owned, Places, Locking
<1>31. ExitIsLast'
  <2>1. ASSUME NEW e \in Commands, e # c PROVE ExitComesLast(e)'
    BY <2>1, <1>18, UndisturbedKept
  <2>2. ExitComesLast(c)'
    BY <1>1, <1>4, <1>7, <1>15, <1>3, Homes, <1>19
      DEF ExitIsLast, QueueAlike, QueueHas, ExitComesLast
  <2> QED
    BY <2>1, <2>2 DEF ExitIsLast
<1>32. OwnEvents'
  BY <1>1, <1>15 DEF OwnEvents, QueueAlike, QueueTyped
<1>33. OutputCounted'
  <2>1. ASSUME NEW e \in Commands, e # c PROVE AllCounted(e)'
    BY <2>1, <1>18, UndisturbedKept
  <2>2. AllCounted(c)'
    BY <1>1, <1>3, <1>4, <1>7, <1>15, <1>16, Homes
      DEF OutputCounted, Places, QueueAlike, QueueOuts, TasksKept, AllCounted
  <2> QED
    BY <2>1, <2>2 DEF OutputCounted
<1>34. SeenWasMade'
  BY <1>1, <1>15, Fields DEF SeenWasMade
<1>35. ExitSettled'
  BY <1>1, <1>15, <1>3, <1>16 DEF ExitSettled, Places, TasksKept
<1> QED
  BY <1>20, <1>21, <1>22, <1>23, <1>24, <1>25, <1>26, <1>27, <1>28, <1>29, <1>30, <1>31, <1>32,
     <1>33, <1>34, <1>35

\* The command is written to the control channel, once.
LEMMA KeptBySendSent ==
  ASSUME IInv, NEW c \in Commands, Send(c), ~Refuses(mine[c])
  PROVE  IInv'
<1> USE Names DEF IInv
<1>1. pc[c] = "send" /\ mine[c] \in Sandboxes
  BY DEF Send, At, Go, Of, Shapes, Places
<1>2. poolLock' = poolLock /\ pool' = pool
  BY <1>1 DEF Send, At, Go, Of
<1>3. \A u \in Threads : pc'[u] = IF u = c THEN "wait" ELSE pc[u]
  BY <1>1 DEF Send, At, Go, Of, Shapes
<1>4. mine' = mine
  BY <1>1 DEF Send, At, Go, Of, Shapes
<1>5. /\ pool' \in Sandboxes \cup {NoSandbox} /\ poolLock' \in Threads \cup {NoOne}
      /\ pc' \in [Threads -> Phases] /\ mine' \in [Threads -> Sandboxes \cup {NoSandbox}]
  BY <1>1 DEF Send, At, Go, Of, Shapes, Phases
<1>6. Write(mine[c], <<c, "run">>)
  BY DEF Send, At, Go, Of
<1>7. /\ sandbox' \in [Sandboxes -> Sandbox]
      /\ \A u \in Sandboxes : u # mine[c] => sandbox'[u] = sandbox[u]
      /\ sandbox'[mine[c]].process = sandbox[mine[c]].process
      /\ sandbox'[mine[c]].pipe = sandbox[mine[c]].pipe
      /\ sandbox'[mine[c]].registered = sandbox[mine[c]].registered
      /\ sandbox'[mine[c]].control = Append(sandbox[mine[c]].control, <<c, "run">>)
  BY <1>1, <1>6, WriteTyped
<1>8. \A d \in Commands :
        LET q == sandbox[mine[c]].control
            r == sandbox'[mine[c]].control IN
        /\ Has(r, <<d, "run">>) <=> Has(q, <<d, "run">>) \/ d = c
        /\ About(r, d) <=> About(q, d) \/ d = c
        /\ Once(q, <<d, "run">>) /\ (d = c => ~Has(q, <<d, "run">>)) => Once(r, <<d, "run">>)
  <2> SUFFICES ASSUME NEW d \in Commands
               PROVE  LET q == sandbox[mine[c]].control
                          r == sandbox'[mine[c]].control IN
                      /\ Has(r, <<d, "run">>) <=> Has(q, <<d, "run">>) \/ d = c
                      /\ About(r, d) <=> About(q, d) \/ d = c
                      /\ Once(q, <<d, "run">>) /\ (d = c => ~Has(q, <<d, "run">>))
                             => Once(r, <<d, "run">>)
    OBVIOUS
  <2> DEFINE q == sandbox[mine[c]].control
             r == Append(q, <<c, "run">>)
  <2>1. /\ Has(r, <<d, "run">>) <=> Has(q, <<d, "run">>) \/ (d = c /\ "run" = "run")
        /\ About(r, d) <=> About(q, d) \/ d = c
        /\ Once(q, <<d, "run">>) /\ ("run" = "run" /\ d = c => ~Has(q, <<d, "run">>))
             => Once(r, <<d, "run">>)
    BY <1>1, WriteAdds, ZenonT(60)
  <2>2. sandbox'[mine[c]].control = r
    BY <1>7
  <2> HIDE DEF r
  <2> QED
    BY <2>1, <2>2
<1>9. command' \in [Commands -> AnyCommand] /\ CommandsKept
  BY DEF Send, At, Go, Of, Shapes, CommandsKept
<1>10. Alike
  BY <1>9, NotedIsAlike
<1>11. task' \in [Commands -> Task] /\ TasksKept
  BY DEF Send, At, Go, Of, Shapes, TasksKept
<1>12. \A e \in Commands : e # c /\ mine[e] \in Sandboxes => ChannelAlike(e)
  <2> SUFFICES ASSUME NEW e \in Commands, e # c, mine[e] \in Sandboxes PROVE ChannelAlike(e)
    OBVIOUS
  <2>1. CASE mine[e] = mine[c]
    BY <2>1, <1>7, <1>8 DEF ChannelAlike
  <2>2. CASE mine[e] # mine[c]
    BY <2>2, <1>7 DEF ChannelAlike
  <2> QED
    BY <2>1, <2>2
<1>13. \A e \in Commands : e # c => Undisturbed(e)
  BY <1>3, <1>4, <1>10, <1>11, <1>12 DEF Undisturbed, Alike, TasksKept
<1>14. \A s \in Sandboxes :
         /\ ~Has(sandbox[s].control, <<c, "run">>) /\ Once(sandbox[s].control, <<c, "run">>)
         /\ ExitLast(sandbox[s].pipe, c) /\ ~EndIn(sandbox[s].pipe, c)
         /\ ~Has(sandbox[s].pipe, <<c, "out">>)
  BY <1>1, UnsentClean DEF Unsent
<1>15. Shapes'
  BY <1>5, <1>7, <1>9, <1>11 DEF Shapes
<1>16. QueuesFit'
  BY <1>1, <1>10 DEF QueuesFit, Alike, QueueAlike, QueueTyped
<1>17. Places'
  BY <1>1, <1>3, <1>4 DEF Places
<1>18. Locking'
  BY <1>1, <1>3, <1>2 DEF Locking, Places
<1>19. \A d \in Commands : Unsent(d)' => Unsent(d) /\ d # c
  BY <1>1, <1>3, <1>2 DEF Unsent, Locking, Places
<1>20. \A d \in Commands : Unsent(d) /\ d # c =>
         \A u \in Sandboxes : /\ About(sandbox'[u].control, d) => About(sandbox[u].control, d)
                              /\ About(sandbox'[u].pipe, d) => About(sandbox[u].pipe, d)
  <2> SUFFICES ASSUME NEW d \in Commands, Unsent(d), d # c, NEW u \in Sandboxes
               PROVE  /\ About(sandbox'[u].control, d) => About(sandbox[u].control, d)
                      /\ About(sandbox'[u].pipe, d) => About(sandbox[u].pipe, d)
    OBVIOUS
  <2>1. CASE u = mine[c]
    BY <1>7, <1>8, <2>1
  <2>2. CASE u # mine[c]
    BY <1>7, <2>2
  <2> QED
    BY <2>1, <2>2
<1>21. NothingYet'
  <2>1. ASSUME NEW d \in Commands, Unsent(d)'
        PROVE  /\ Unsent(d) /\ QueueHas(d) /\ command'[d].seen = command[d].seen
               /\ task'[d].phase = task[d].phase /\ task'[d].made = task[d].made
               /\ task'[d].lives => task[d].lives
               /\ \A u \in Sandboxes :
                    /\ About(sandbox'[u].control, d) => About(sandbox[u].control, d)
                    /\ About(sandbox'[u].pipe, d) => About(sandbox[u].pipe, d)
    <3>1. Unsent(d) /\ d # c
      BY <2>1, <1>19
    <3>2. QueueHas(d) /\ command'[d].seen = command[d].seen
      BY <3>1, <1>10 DEF Alike, QueueAlike
    <3>3. /\ task'[d].phase = task[d].phase /\ task'[d].made = task[d].made
          /\ task'[d].lives => task[d].lives
      BY <3>1, <1>11 DEF TasksKept
    <3>4. \A u \in Sandboxes :
             /\ About(sandbox'[u].control, d) => About(sandbox[u].control, d)
             /\ About(sandbox'[u].pipe, d) => About(sandbox[u].pipe, d)
      BY <3>1, <1>20
    <3> QED
      BY <3>1, <3>2, <3>3, <3>4
  <2> QED
    BY <2>1, NothingYetKept
<1>22. RegisteredIsMine'
  BY <1>1, <1>3, <1>4, <1>7, Homes DEF RegisteredIsMine, Places
<1>23. RunOnce'
  <2>1. ASSUME NEW e \in Commands, e # c PROVE StartsOnce(e)'
    BY <2>1, <1>13, UndisturbedKept
  <2>2. StartsOnce(c)'
    <3>1. /\ ~Has(sandbox[mine[c]].control, <<c, "run">>)
          /\ Once(sandbox[mine[c]].control, <<c, "run">>)
          /\ mine'[c] = mine[c] /\ task'[c].phase = "none"
      BY <1>1, <1>14, <1>4, <1>11 DEF NothingYet, Unsent, TasksKept
    <3>2. Once(sandbox'[mine[c]].control, <<c, "run">>)
      BY <1>8, <3>1
    <3> QED
      BY <3>1, <3>2 DEF StartsOnce
  <2> QED
    BY <2>1, <2>2 DEF RunOnce
<1>24. LivesRuns'
  BY <1>1, <1>4, <1>7, <1>11, <1>3, Homes DEF LivesRuns, TasksKept
<1>25. EndReported'
  <2>1. ASSUME NEW e \in Commands, e # c PROVE ReportIsTrue(e)'
    BY <2>1, <1>13, UndisturbedKept
  <2>2. ReportIsTrue(c)'
    BY <1>1, <1>4, <1>7, <1>11, <1>10, <1>3, Homes, <1>14, <1>8
      DEF EndReported, Alike, QueueAlike, QueueHas, TasksKept, ReportIsTrue
  <2> QED
    BY <2>1, <2>2 DEF EndReported
<1>26. AtRelease'
  BY <1>1, <1>3, <1>4, <1>7, <1>11, Homes DEF AtRelease, Places, TasksKept
<1>27. Owned'
  BY <1>1, <1>3, <1>4, <1>7, <1>2, Homes DEF Owned, Places, Locking
<1>28. ExitIsLast'
  <2>1. ASSUME NEW e \in Commands, e # c PROVE ExitComesLast(e)'
    BY <2>1, <1>13, UndisturbedKept
  <2>2. ExitComesLast(c)'
    BY <1>1, <1>4, <1>7, <1>10, <1>3, Homes, <1>14, <1>8
      DEF ExitIsLast, Alike, QueueAlike, QueueHas, ExitComesLast
  <2> QED
    BY <2>1, <2>2 DEF ExitIsLast
<1>29. OwnEvents'
  BY <1>1, <1>10 DEF OwnEvents, Alike, QueueAlike, QueueTyped
<1>30. OutputCounted'
  <2>1. ASSUME NEW e \in Commands, e # c PROVE AllCounted(e)'
    BY <2>1, <1>13, UndisturbedKept
  <2>2. AllCounted(c)'
    <3>1. /\ command[c].seen = 0 /\ task[c].made = 0
          /\ ~Has(command[c].queue, <<c, "out">>) /\ ~Has(sandbox[mine[c]].pipe, <<c, "out">>)
      BY <1>1, <1>14 DEF NothingYet, Unsent
    <3>2. Outs(command[c].queue, c) = 0 /\ Outs(sandbox[mine[c]].pipe, c) = 0
      BY <1>1, <3>1, Fields, NoOutsIn
    <3>3. /\ command'[c].seen = 0 /\ task'[c].made = 0
          /\ Outs(command'[c].queue, c) = 0 /\ Outs(sandbox'[mine'[c]].pipe, c) = 0
      BY <1>4, <1>10, <1>11, <1>7, <3>1, <3>2 DEF Alike, QueueAlike, QueueOuts, TasksKept
    <3> QED
      BY <3>3 DEF AllCounted
  <2> QED
    BY <2>1, <2>2 DEF OutputCounted
<1>31. SeenWasMade'
  BY <1>1, <1>10, Fields DEF SeenWasMade, Alike
<1>32. ExitSettled'
  BY <1>1, <1>10, <1>3, <1>11 DEF ExitSettled, Places, Alike, TasksKept
<1> QED
  BY <1>15, <1>16, <1>17, <1>18, <1>21, <1>22, <1>23, <1>24, <1>25, <1>26, <1>27, <1>28, <1>29,
     <1>30, <1>31, <1>32

\* The sandbox does not take the kill: every command that is registered learns it.
LEMMA KeptByKillRefused ==
  ASSUME IInv, NEW c \in Commands, Kill(c), Refuses(mine[c])
  PROVE  IInv'
<1> USE Names DEF IInv
<1>1. pc[c] = "wait" /\ mine[c] \in Sandboxes
  BY DEF Kill, At, Go, Of, Shapes, Places
<1>2. poolLock' = poolLock /\ pool' = pool
  BY <1>1 DEF Kill, At, Go, Of
<1>3. pc' = pc
  BY <1>1 DEF Kill, At, Go, Of, Shapes
<1>4. mine' = mine
  BY <1>1 DEF Kill, At, Go, Of, Shapes
<1>5. /\ pool' \in Sandboxes \cup {NoSandbox} /\ poolLock' \in Threads \cup {NoOne}
      /\ pc' \in [Threads -> Phases] /\ mine' \in [Threads -> Sandboxes \cup {NoSandbox}]
  BY <1>1 DEF Kill, At, Go, Of, Shapes, Phases
<1>6. sandbox' \in [Sandboxes -> Sandbox] /\ SandboxesKept
  BY <1>1, LostTyped DEF Kill, At, Go, Of
<1>7. command' = [d \in Commands |->
        [(IF ~Of(c).lost /\ d \in Of(c).registered /\ Room(d)
          THEN Put(d, <<d, "lost">>) ELSE command[d]) EXCEPT !.kill = @ \/ d = c]]
  BY DEF Kill
<1>8. \A d \in Commands : /\ command'[d] \in AnyCommand /\ NotedBy(d)
                            /\ command'[d].seen = command[d].seen
                            /\ command'[d].result = command[d].result
  <2> SUFFICES ASSUME NEW d \in Commands
               PROVE  /\ command'[d] \in AnyCommand /\ NotedBy(d)
                      /\ command'[d].seen = command[d].seen
                      /\ command'[d].result = command[d].result
    OBVIOUS
  <2> DEFINE x == IF ~Of(c).lost /\ d \in Of(c).registered /\ Room(d)
                  THEN Put(d, <<d, "lost">>) ELSE command[d]
  <2>1. <<d, "lost">> \in Event
    BY DEF Event
  <2>2. /\ x \in AnyCommand /\ x.seen = command[d].seen /\ x.result = command[d].result
        /\ \/ x.queue = command[d].queue
           \/ Room(d) /\ x.queue = Append(command[d].queue, <<d, "lost">>)
    BY <2>1, PutDoes DEF Shapes
  <2>3. command'[d] = [x EXCEPT !.kill = x.kill \/ d = c]
    BY <1>7
  <2> HIDE DEF x
  <2>4. /\ command'[d] \in AnyCommand /\ command'[d].queue = x.queue
        /\ command'[d].seen = x.seen /\ command'[d].result = x.result
    BY <2>2, <2>3 DEF AnyCommand
  <2> QED
    BY <2>2, <2>4 DEF NotedBy
<1>9. command' \in [Commands -> AnyCommand] /\ Noted
  BY <1>7, <1>8 DEF Noted
<1>10. Alike
  BY <1>9, NotedIsAlike
<1>11. task' \in [Commands -> Task] /\ TasksKept
  BY DEF Kill, At, Go, Of, Shapes, TasksKept
<1>12. Shapes'
  BY <1>5, <1>6, <1>9, <1>11 DEF Shapes
<1>13. \A e \in Commands : e # c => Undisturbed(e)
  BY <1>3, <1>4, <1>6, <1>10, <1>11, ChannelKept DEF Undisturbed, Alike, TasksKept
<1>14. QueuesFit'
  BY <1>1, <1>10 DEF QueuesFit, Alike, QueueAlike, QueueTyped
<1>15. Places'
  BY <1>1, <1>3, <1>4 DEF Places
<1>16. Locking'
  BY <1>1, <1>3, <1>2 DEF Locking, Places
<1>17. NothingYet'
  BY <1>1, <1>3, <1>2, <1>11, <1>10, <1>6, <1>4
    DEF NothingYet, Unsent, Locking, Places, SandboxesKept, Alike, QueueAlike, QueueHas,
         TasksKept
<1>18. RegisteredIsMine'
  BY <1>1, <1>3, <1>4, <1>6, Homes DEF RegisteredIsMine, Places, SandboxesKept
<1>19. RunOnce'
  <2>1. ASSUME NEW e \in Commands, e # c PROVE StartsOnce(e)'
    BY <2>1, <1>13, UndisturbedKept
  <2>2. StartsOnce(c)'
    BY <1>1, <1>4, <1>6, <1>11, <1>3, Homes DEF RunOnce, SandboxesKept, TasksKept, StartsOnce
  <2> QED
    BY <2>1, <2>2 DEF RunOnce
<1>20. LivesRuns'
  BY <1>1, <1>4, <1>6, <1>11, <1>3, Homes DEF LivesRuns, SandboxesKept, TasksKept
<1>21. EndReported'
  <2>1. ASSUME NEW e \in Commands, e # c PROVE ReportIsTrue(e)'
    BY <2>1, <1>13, UndisturbedKept
  <2>2. ReportIsTrue(c)'
    BY <1>1, <1>4, <1>6, <1>11, <1>10, <1>3, Homes
      DEF EndReported, SandboxesKept, Alike, QueueAlike, QueueHas, TasksKept, ReportIsTrue
  <2> QED
    BY <2>1, <2>2 DEF EndReported
<1>22. AtRelease'
  BY <1>1, <1>3, <1>4, <1>6, <1>11, Homes DEF AtRelease, Places, SandboxesKept, TasksKept
<1>23. Owned'
  BY <1>1, <1>3, <1>4, <1>6, <1>2, Homes DEF Owned, Places, Locking, SandboxesKept
<1>24. ExitIsLast'
  <2>1. ASSUME NEW e \in Commands, e # c PROVE ExitComesLast(e)'
    BY <2>1, <1>13, UndisturbedKept
  <2>2. ExitComesLast(c)'
    BY <1>1, <1>4, <1>6, <1>10, <1>3, Homes
      DEF ExitIsLast, SandboxesKept, Alike, QueueAlike, QueueHas, ExitComesLast
  <2> QED
    BY <2>1, <2>2 DEF ExitIsLast
<1>25. OwnEvents'
  BY <1>1, <1>10 DEF OwnEvents, Alike, QueueAlike, QueueTyped
<1>26. OutputCounted'
  <2>1. ASSUME NEW e \in Commands, e # c PROVE AllCounted(e)'
    BY <2>1, <1>13, UndisturbedKept
  <2>2. AllCounted(c)'
    BY <1>1, <1>3, <1>4, <1>6, <1>10, <1>11, Homes
      DEF OutputCounted, Places, SandboxesKept, Alike, QueueAlike, QueueOuts, TasksKept,
           AllCounted
  <2> QED
    BY <2>1, <2>2 DEF OutputCounted
<1>27. SeenWasMade'
  BY <1>1, <1>10, Fields DEF SeenWasMade, Alike
<1>28. ExitSettled'
  BY <1>1, <1>10, <1>3, <1>11 DEF ExitSettled, Places, Alike, TasksKept
<1> QED
  BY <1>12, <1>14, <1>15, <1>16, <1>17, <1>18, <1>19, <1>20, <1>21, <1>22, <1>23, <1>24, <1>25,
     <1>26, <1>27, <1>28

\* The kill is written to the control channel.
LEMMA KeptByKillSent ==
  ASSUME IInv, NEW c \in Commands, Kill(c), ~Refuses(mine[c])
  PROVE  IInv'
<1> USE Names DEF IInv
<1>1. pc[c] = "wait" /\ mine[c] \in Sandboxes
  BY DEF Kill, At, Go, Of, Shapes, Places
<1>2. poolLock' = poolLock /\ pool' = pool
  BY <1>1 DEF Kill, At, Go, Of
<1>3. pc' = pc
  BY <1>1 DEF Kill, At, Go, Of, Shapes
<1>4. mine' = mine
  BY <1>1 DEF Kill, At, Go, Of, Shapes
<1>5. /\ pool' \in Sandboxes \cup {NoSandbox} /\ poolLock' \in Threads \cup {NoOne}
      /\ pc' \in [Threads -> Phases] /\ mine' \in [Threads -> Sandboxes \cup {NoSandbox}]
  BY <1>1 DEF Kill, At, Go, Of, Shapes, Phases
<1>6. Write(mine[c], <<c, "kill">>)
  BY DEF Kill, At, Go, Of
<1>7. /\ sandbox' \in [Sandboxes -> Sandbox]
      /\ \A u \in Sandboxes : u # mine[c] => sandbox'[u] = sandbox[u]
      /\ sandbox'[mine[c]].process = sandbox[mine[c]].process
      /\ sandbox'[mine[c]].pipe = sandbox[mine[c]].pipe
      /\ sandbox'[mine[c]].registered = sandbox[mine[c]].registered
      /\ sandbox'[mine[c]].control = Append(sandbox[mine[c]].control, <<c, "kill">>)
  BY <1>1, <1>6, WriteTyped
<1>8. \A d \in Commands :
        LET q == sandbox[mine[c]].control
            r == sandbox'[mine[c]].control IN
        /\ Has(r, <<d, "run">>) <=> Has(q, <<d, "run">>)
        /\ About(r, d) <=> About(q, d) \/ d = c
        /\ Once(q, <<d, "run">>) => Once(r, <<d, "run">>)
  <2> SUFFICES ASSUME NEW d \in Commands
               PROVE  LET q == sandbox[mine[c]].control
                          r == sandbox'[mine[c]].control IN
                      /\ Has(r, <<d, "run">>) <=> Has(q, <<d, "run">>)
                      /\ About(r, d) <=> About(q, d) \/ d = c
                      /\ Once(q, <<d, "run">>) => Once(r, <<d, "run">>)
    OBVIOUS
  <2> DEFINE q == sandbox[mine[c]].control
             r == Append(q, <<c, "kill">>)
  <2>1. /\ Has(r, <<d, "run">>) <=> Has(q, <<d, "run">>) \/ (d = c /\ "kill" = "run")
        /\ About(r, d) <=> About(q, d) \/ d = c
        /\ Once(q, <<d, "run">>) /\ ("kill" = "run" /\ d = c => ~Has(q, <<d, "run">>))
             => Once(r, <<d, "run">>)
    BY <1>1, WriteAdds, ZenonT(60)
  <2>2. sandbox'[mine[c]].control = r
    BY <1>7
  <2> HIDE DEF r
  <2> QED
    BY <2>1, <2>2
<1>9. command' = [command EXCEPT ![c].kill = TRUE]
  BY DEF Kill
<1>10. command' \in [Commands -> AnyCommand] /\ CommandsKept
  BY <1>9, KillTyped
<1>11. Alike
  BY <1>10, NotedIsAlike
<1>12. task' \in [Commands -> Task] /\ TasksKept
  BY DEF Kill, At, Go, Of, Shapes, TasksKept
<1>13. \A e \in Commands : mine[e] \in Sandboxes => ChannelAlike(e)
  <2> SUFFICES ASSUME NEW e \in Commands, mine[e] \in Sandboxes PROVE ChannelAlike(e)
    OBVIOUS
  <2>1. CASE mine[e] = mine[c]
    BY <2>1, <1>7, <1>8 DEF ChannelAlike
  <2>2. CASE mine[e] # mine[c]
    BY <2>2, <1>7 DEF ChannelAlike
  <2> QED
    BY <2>1, <2>2
<1>14. \A e \in Commands : Undisturbed(e)
  BY <1>3, <1>4, <1>11, <1>12, <1>13 DEF Undisturbed, Alike, TasksKept
<1>15. Shapes'
  BY <1>5, <1>7, <1>10, <1>12 DEF Shapes
<1>16. QueuesFit'
  BY <1>1, <1>11 DEF QueuesFit, Alike, QueueAlike, QueueTyped
<1>17. Places'
  BY <1>1, <1>3, <1>4 DEF Places
<1>18. Locking'
  BY <1>1, <1>3, <1>2 DEF Locking, Places
<1>19. \A d \in Commands : Unsent(d)' => Unsent(d) /\ d # c
  BY <1>1, <1>3, <1>2 DEF Unsent, Locking, Places
<1>20. \A d \in Commands : Unsent(d) /\ d # c =>
         \A u \in Sandboxes : /\ About(sandbox'[u].control, d) => About(sandbox[u].control, d)
                              /\ About(sandbox'[u].pipe, d) => About(sandbox[u].pipe, d)
  <2> SUFFICES ASSUME NEW d \in Commands, Unsent(d), d # c, NEW u \in Sandboxes
               PROVE  /\ About(sandbox'[u].control, d) => About(sandbox[u].control, d)
                      /\ About(sandbox'[u].pipe, d) => About(sandbox[u].pipe, d)
    OBVIOUS
  <2>1. CASE u = mine[c]
    BY <1>7, <1>8, <2>1
  <2>2. CASE u # mine[c]
    BY <1>7, <2>2
  <2> QED
    BY <2>1, <2>2
<1>21. NothingYet'
  <2>1. ASSUME NEW d \in Commands, Unsent(d)'
        PROVE  /\ Unsent(d) /\ QueueHas(d) /\ command'[d].seen = command[d].seen
               /\ task'[d].phase = task[d].phase /\ task'[d].made = task[d].made
               /\ task'[d].lives => task[d].lives
               /\ \A u \in Sandboxes :
                    /\ About(sandbox'[u].control, d) => About(sandbox[u].control, d)
                    /\ About(sandbox'[u].pipe, d) => About(sandbox[u].pipe, d)
    <3>1. Unsent(d) /\ d # c
      BY <2>1, <1>19
    <3>2. QueueHas(d) /\ command'[d].seen = command[d].seen
      BY <3>1, <1>11 DEF Alike, QueueAlike
    <3>3. /\ task'[d].phase = task[d].phase /\ task'[d].made = task[d].made
          /\ task'[d].lives => task[d].lives
      BY <3>1, <1>12 DEF TasksKept
    <3>4. \A u \in Sandboxes :
             /\ About(sandbox'[u].control, d) => About(sandbox[u].control, d)
             /\ About(sandbox'[u].pipe, d) => About(sandbox[u].pipe, d)
      BY <3>1, <1>20
    <3> QED
      BY <3>1, <3>2, <3>3, <3>4
  <2> QED
    BY <2>1, NothingYetKept
<1>22. RegisteredIsMine'
  BY <1>1, <1>3, <1>4, <1>7, Homes DEF RegisteredIsMine, Places
<1>23. RunOnce'
  BY <1>14, UndisturbedKept DEF RunOnce
<1>24. LivesRuns'
  BY <1>1, <1>4, <1>7, <1>12, <1>3, Homes DEF LivesRuns, TasksKept
<1>25. EndReported'
  BY <1>14, UndisturbedKept DEF EndReported
<1>26. AtRelease'
  BY <1>1, <1>3, <1>4, <1>7, <1>12, Homes DEF AtRelease, Places, TasksKept
<1>27. Owned'
  BY <1>1, <1>3, <1>4, <1>7, <1>2, Homes DEF Owned, Places, Locking
<1>28. ExitIsLast'
  BY <1>14, UndisturbedKept DEF ExitIsLast
<1>29. OwnEvents'
  BY <1>1, <1>11 DEF OwnEvents, Alike, QueueAlike, QueueTyped
<1>30. OutputCounted'
  BY <1>14, UndisturbedKept DEF OutputCounted
<1>31. SeenWasMade'
  BY <1>1, <1>11, Fields DEF SeenWasMade, Alike
<1>32. ExitSettled'
  BY <1>1, <1>11, <1>3, <1>12 DEF ExitSettled, Places, Alike, TasksKept
<1> QED
  BY <1>15, <1>16, <1>17, <1>18, <1>21, <1>22, <1>23, <1>24, <1>25, <1>26, <1>27, <1>28, <1>29,
     <1>30, <1>31, <1>32

\* A call takes a chunk of output from its queue: it is counted where it was.
LEMMA KeptByTakeOut ==
  ASSUME IInv, NEW c \in Commands, Take(c), Head(command[c].queue)[2] = "out"
  PROVE  IInv'
<1> USE Names DEF IInv
<1>1. pc[c] = "wait" /\ mine[c] \in Sandboxes /\ command[c].queue # <<>>
  BY DEF Take, At, Go, Of, Shapes, Places
<1>2. PICK k \in {"out"} : Head(command[c].queue) = <<c, k>>
  BY <1>1, HeadOfQueue
<1>3. poolLock' = poolLock /\ pool' = pool
  BY <1>1 DEF Take, At, Go, Of
<1>4. \A u \in Threads : pc'[u] = IF u = c THEN "wait" ELSE pc[u]
  BY <1>1 DEF Take, At, Go, Of, Shapes
<1>5. mine' = mine
  BY <1>1 DEF Take, At, Go, Of, Shapes
<1>6. /\ pool' \in Sandboxes \cup {NoSandbox} /\ poolLock' \in Threads \cup {NoOne}
      /\ pc' \in [Threads -> Phases] /\ mine' \in [Threads -> Sandboxes \cup {NoSandbox}]
  BY <1>1 DEF Take, At, Go, Of, Shapes, Phases
<1>7. sandbox' \in [Sandboxes -> Sandbox] /\ SandboxesKept
  BY DEF Take, At, Go, Of, Shapes, SandboxesKept
<1>8. task' \in [Commands -> Task] /\ TasksKept
  BY DEF Take, At, Go, Of, Shapes, TasksKept
<1>9. command' = [command EXCEPT ![c] =
        [command[c] EXCEPT !.queue = Tail(command[c].queue), !.seen = command[c].seen + 1]]
  <2>1. Head(command[c].queue)[2] = k /\ k = "out"
    BY <1>2
  <2> QED
    BY <1>2, <2>1 DEF Take
<1>10. Tail(command[c].queue) \in Seq(Event)
  BY <1>1, Fields, TailShifts
<1>11. LET r == [command[c] EXCEPT !.queue = Tail(command[c].queue),
               !.seen = command[c].seen + 1] IN
         /\ r \in AnyCommand /\ r.queue = Tail(command[c].queue)
         /\ r.seen = command[c].seen + 1 /\ r.result = command[c].result
  <2>1. command[c] \in AnyCommand
    BY DEF Shapes
  <2>2. command[c].seen + 1 \in Nat
    BY Fields
  <2> QED
    BY <1>2, <1>10, <2>1, <2>2 DEF AnyCommand, Results
<1>12. /\ command' \in [Commands -> AnyCommand] /\ QueueTyped(c)
       /\ \A d \in Commands : d # c => /\ QueueAlike(d) /\ command'[d].seen = command[d].seen
                                       /\ command'[d].result = command[d].result
       /\ command'[c].seen = command[c].seen + 1 /\ command'[c].result = command[c].result
       /\ EndIn(command'[c].queue, c) => EndIn(command[c].queue, c)
       /\ ExitLast(command'[c].queue, c)
       /\ Has(command'[c].queue, <<c, "exit">>) => Has(command[c].queue, <<c, "exit">>)
       /\ Head(command[c].queue) = <<c, "exit">> =>
            /\ Has(command[c].queue, <<c, "exit">>) /\ ~Has(command'[c].queue, <<c, "out">>)
       /\ Head(command[c].queue) = <<c, "spawn_error">>
              => Has(command[c].queue, <<c, "spawn_error">>)
       /\ Outs(command'[c].queue, c) \in Nat
       /\ Outs(command[c].queue, c) = Outs(command'[c].queue, c)
            + (IF Head(command[c].queue) = <<c, "out">> THEN 1 ELSE 0)
  <2> DEFINE r == [command[c] EXCEPT !.queue = Tail(command[c].queue),
                          !.seen = command[c].seen + 1]
  <2>1. command' = [command EXCEPT ![c] = r]
    BY <1>9
  <2>2. /\ r \in AnyCommand /\ r.queue = Tail(command[c].queue)
        /\ r.seen = command[c].seen + 1 /\ r.result = command[c].result
    BY <1>11
  <2> HIDE DEF r
  <2>3. command'[c].seen = command[c].seen + 1 /\ command'[c].result = command[c].result
    BY <2>1, <2>2 DEF Shapes
  <2>4. r.queue = Tail(command[c].queue) /\ r \in AnyCommand
    BY <2>2
  <2> QED
    BY <2>1, <2>3, <2>4, <1>1, TakeDoes
<1>13. \A e \in Commands : e # c => Undisturbed(e)
  BY <1>4, <1>5, <1>7, <1>12, <1>8, ChannelKept DEF Undisturbed, TasksKept
<1>14. /\ command[c].seen + Outs(command[c].queue, c) + Outs(sandbox[mine[c]].pipe, c)
              = task[c].made
       /\ command[c].seen \in Nat /\ Outs(command[c].queue, c) = Outs(command'[c].queue, c) + 1
       /\ Outs(command'[c].queue, c) \in Nat /\ Outs(sandbox[mine[c]].pipe, c) \in Nat
       /\ task[c].made \in Nat /\ task[c].made <= MaxOutput /\ MaxOutput \in Nat
  <2>1. command[c].seen + Outs(command[c].queue, c) + Outs(sandbox[mine[c]].pipe, c)
            = task[c].made
    BY <1>1 DEF OutputCounted, AllCounted
  <2>2. Outs(sandbox[mine[c]].pipe, c) \in Nat
    BY <1>1, Fields, OutsAre
  <2>3. command[c].seen \in Nat /\ task[c].made \in Nat /\ task[c].made <= MaxOutput
    BY Fields
  <2> QED
    BY <2>1, <2>2, <2>3, <1>2, <1>12, BoundAssumption
<1>15. Shapes'
  BY <1>6, <1>7, <1>8, <1>12 DEF Shapes
<1>16. QueuesFit'
  BY <1>1, <1>12 DEF QueuesFit, QueueAlike, QueueTyped
<1>17. Places'
  BY <1>1, <1>4, <1>5 DEF Places
<1>18. Locking'
  BY <1>1, <1>4, <1>3 DEF Locking, Places
<1>19. \A d \in Commands : Unsent(d)' => Unsent(d) /\ d # c
  BY <1>1, <1>4, <1>3 DEF Unsent, Locking, Places
<1>20. \A d \in Commands : Unsent(d) /\ d # c =>
         \A u \in Sandboxes : /\ About(sandbox'[u].control, d) => About(sandbox[u].control, d)
                              /\ About(sandbox'[u].pipe, d) => About(sandbox[u].pipe, d)
  BY <1>7 DEF SandboxesKept
<1>21. NothingYet'
  <2>1. ASSUME NEW d \in Commands, Unsent(d)'
        PROVE  /\ Unsent(d) /\ QueueHas(d) /\ command'[d].seen = command[d].seen
               /\ task'[d].phase = task[d].phase /\ task'[d].made = task[d].made
               /\ task'[d].lives => task[d].lives
               /\ \A u \in Sandboxes :
                    /\ About(sandbox'[u].control, d) => About(sandbox[u].control, d)
                    /\ About(sandbox'[u].pipe, d) => About(sandbox[u].pipe, d)
    <3>1. Unsent(d) /\ d # c
      BY <2>1, <1>19
    <3>2. QueueHas(d) /\ command'[d].seen = command[d].seen
      BY <3>1, <1>12 DEF QueueAlike
    <3>3. /\ task'[d].phase = task[d].phase /\ task'[d].made = task[d].made
          /\ task'[d].lives => task[d].lives
      BY <3>1, <1>8 DEF TasksKept
    <3>4. \A u \in Sandboxes :
             /\ About(sandbox'[u].control, d) => About(sandbox[u].control, d)
             /\ About(sandbox'[u].pipe, d) => About(sandbox[u].pipe, d)
      BY <3>1, <1>20
    <3> QED
      BY <3>1, <3>2, <3>3, <3>4
  <2> QED
    BY <2>1, NothingYetKept
<1>22. RegisteredIsMine'
  BY <1>1, <1>4, <1>5, <1>7, Homes DEF RegisteredIsMine, Places, SandboxesKept
<1>23. RunOnce'
  <2>1. ASSUME NEW e \in Commands, e # c PROVE StartsOnce(e)'
    BY <2>1, <1>13, UndisturbedKept
  <2>2. StartsOnce(c)'
    BY <1>1, <1>5, <1>7, <1>8, <1>4, Homes DEF RunOnce, SandboxesKept, TasksKept, StartsOnce
  <2> QED
    BY <2>1, <2>2 DEF RunOnce
<1>24. LivesRuns'
  BY <1>1, <1>5, <1>7, <1>8, <1>4, Homes DEF LivesRuns, SandboxesKept, TasksKept
<1>25. EndReported'
  <2>1. ASSUME NEW e \in Commands, e # c PROVE ReportIsTrue(e)'
    BY <2>1, <1>13, UndisturbedKept
  <2>2. ReportIsTrue(c)'
    BY <1>1, <1>5, <1>7, <1>8, <1>12, <1>4, Homes
      DEF EndReported, SandboxesKept, TasksKept, ReportIsTrue
  <2> QED
    BY <2>1, <2>2 DEF EndReported
<1>26. AtRelease'
  BY <1>1, <1>4, <1>5, <1>7, <1>8, Homes DEF AtRelease, Places, SandboxesKept, TasksKept
<1>27. Owned'
  BY <1>1, <1>4, <1>5, <1>7, <1>3, Homes DEF Owned, Places, Locking, SandboxesKept
<1>28. ExitIsLast'
  <2>1. ASSUME NEW e \in Commands, e # c PROVE ExitComesLast(e)'
    BY <2>1, <1>13, UndisturbedKept
  <2>2. ExitComesLast(c)'
    BY <1>1, <1>5, <1>7, <1>12, <1>4, Homes DEF ExitIsLast, SandboxesKept, ExitComesLast
  <2> QED
    BY <2>1, <2>2 DEF ExitIsLast
<1>29. OwnEvents'
  BY <1>1, <1>12 DEF OwnEvents, QueueAlike, QueueTyped
<1>30. OutputCounted'
  <2>1. ASSUME NEW e \in Commands, e # c PROVE AllCounted(e)'
    BY <2>1, <1>13, UndisturbedKept
  <2>2. AllCounted(c)'
    <3>1. /\ command'[c].seen = command[c].seen + 1 /\ mine'[c] = mine[c]
          /\ task'[c].made = task[c].made
          /\ Outs(sandbox'[mine[c]].pipe, c) = Outs(sandbox[mine[c]].pipe, c)
      BY <1>1, <1>5, <1>12, <1>8, <1>7 DEF TasksKept, SandboxesKept
    <3> QED
      BY <3>1, <1>14 DEF AllCounted
  <2> QED
    BY <2>1, <2>2 DEF OutputCounted
<1>31. SeenWasMade'
  <2>1. ASSUME NEW d \in Commands, d # c PROVE command'[d].seen <= MaxOutput
    BY <2>1, <1>12 DEF SeenWasMade
  <2>2. command'[c].seen <= MaxOutput
    BY <1>12, <1>14
  <2> QED
    BY <2>1, <2>2 DEF SeenWasMade
<1>32. ExitSettled'
  BY <1>1, <1>12, <1>4, <1>8 DEF ExitSettled, Places, TasksKept
<1> QED
  BY <1>15, <1>16, <1>17, <1>18, <1>21, <1>22, <1>23, <1>24, <1>25, <1>26, <1>27, <1>28, <1>29,
     <1>30, <1>31, <1>32

\* A call takes the news that its sandbox is lost.
LEMMA KeptByTakeLost ==
  ASSUME IInv, NEW c \in Commands, Take(c), Head(command[c].queue)[2] = "lost"
  PROVE  IInv'
<1> USE Names DEF IInv
<1>1. pc[c] = "wait" /\ mine[c] \in Sandboxes /\ command[c].queue # <<>>
  BY DEF Take, At, Go, Of, Shapes, Places
<1>2. PICK k \in {"lost"} : Head(command[c].queue) = <<c, k>>
  BY <1>1, HeadOfQueue
<1>3. poolLock' = poolLock /\ pool' = pool
  BY <1>1 DEF Take, At, Go, Of
<1>4. \A u \in Threads : pc'[u] = IF u = c THEN "discard" ELSE pc[u]
  BY <1>1 DEF Take, At, Go, Of, Shapes
<1>5. mine' = mine
  BY <1>1 DEF Take, At, Go, Of, Shapes
<1>6. /\ pool' \in Sandboxes \cup {NoSandbox} /\ poolLock' \in Threads \cup {NoOne}
      /\ pc' \in [Threads -> Phases] /\ mine' \in [Threads -> Sandboxes \cup {NoSandbox}]
  BY <1>1 DEF Take, At, Go, Of, Shapes, Phases
<1>7. sandbox' \in [Sandboxes -> Sandbox] /\ SandboxesKept
  BY DEF Take, At, Go, Of, Shapes, SandboxesKept
<1>8. task' \in [Commands -> Task] /\ TasksKept
  BY DEF Take, At, Go, Of, Shapes, TasksKept
<1>9. command' = [command EXCEPT ![c] =
        [command[c] EXCEPT !.queue = Tail(command[c].queue), !.result = "lost"]]
  <2>1. Head(command[c].queue)[2] = k /\ k # "out"
    BY <1>2
  <2> QED
    BY <1>2, <2>1 DEF Take
<1>10. Tail(command[c].queue) \in Seq(Event)
  BY <1>1, Fields, TailShifts
<1>11. LET r == [command[c] EXCEPT !.queue = Tail(command[c].queue), !.result = "lost"] IN
         /\ r \in AnyCommand /\ r.queue = Tail(command[c].queue)
         /\ r.seen = command[c].seen /\ r.result = "lost"
  <2>1. command[c] \in AnyCommand
    BY DEF Shapes
  <2>2. command[c].seen \in Nat
    BY Fields
  <2> QED
    BY <1>2, <1>10, <2>1, <2>2 DEF AnyCommand, Results
<1>12. /\ command' \in [Commands -> AnyCommand] /\ QueueTyped(c)
       /\ \A d \in Commands : d # c => /\ QueueAlike(d) /\ command'[d].seen = command[d].seen
                                       /\ command'[d].result = command[d].result
       /\ command'[c].seen = command[c].seen /\ command'[c].result = "lost"
       /\ EndIn(command'[c].queue, c) => EndIn(command[c].queue, c)
       /\ ExitLast(command'[c].queue, c)
       /\ Has(command'[c].queue, <<c, "exit">>) => Has(command[c].queue, <<c, "exit">>)
       /\ Head(command[c].queue) = <<c, "exit">> =>
            /\ Has(command[c].queue, <<c, "exit">>) /\ ~Has(command'[c].queue, <<c, "out">>)
       /\ Head(command[c].queue) = <<c, "spawn_error">>
              => Has(command[c].queue, <<c, "spawn_error">>)
       /\ Outs(command'[c].queue, c) \in Nat
       /\ Outs(command[c].queue, c) = Outs(command'[c].queue, c)
            + (IF Head(command[c].queue) = <<c, "out">> THEN 1 ELSE 0)
  <2> DEFINE r == [command[c] EXCEPT !.queue = Tail(command[c].queue), !.result = "lost"]
  <2>1. command' = [command EXCEPT ![c] = r]
    BY <1>9
  <2>2. /\ r \in AnyCommand /\ r.queue = Tail(command[c].queue)
        /\ r.seen = command[c].seen /\ r.result = "lost"
    BY <1>11
  <2> HIDE DEF r
  <2>3. command'[c].seen = command[c].seen /\ command'[c].result = "lost"
    BY <2>1, <2>2 DEF Shapes
  <2>4. r.queue = Tail(command[c].queue) /\ r \in AnyCommand
    BY <2>2
  <2> QED
    BY <2>1, <2>3, <2>4, <1>1, TakeDoes
<1>13. \A e \in Commands : e # c => Undisturbed(e)
  BY <1>4, <1>5, <1>7, <1>12, <1>8, ChannelKept DEF Undisturbed, TasksKept
<1>14. Shapes'
  BY <1>6, <1>7, <1>8, <1>12 DEF Shapes
<1>15. QueuesFit'
  BY <1>1, <1>12 DEF QueuesFit, QueueAlike, QueueTyped
<1>16. Places'
  BY <1>1, <1>4, <1>5 DEF Places
<1>17. Locking'
  BY <1>1, <1>4, <1>3 DEF Locking, Places
<1>18. \A d \in Commands : Unsent(d)' => Unsent(d) /\ d # c
  BY <1>1, <1>4, <1>3 DEF Unsent, Locking, Places
<1>19. \A d \in Commands : Unsent(d) /\ d # c =>
         \A u \in Sandboxes : /\ About(sandbox'[u].control, d) => About(sandbox[u].control, d)
                              /\ About(sandbox'[u].pipe, d) => About(sandbox[u].pipe, d)
  BY <1>7 DEF SandboxesKept
<1>20. NothingYet'
  <2>1. ASSUME NEW d \in Commands, Unsent(d)'
        PROVE  /\ Unsent(d) /\ QueueHas(d) /\ command'[d].seen = command[d].seen
               /\ task'[d].phase = task[d].phase /\ task'[d].made = task[d].made
               /\ task'[d].lives => task[d].lives
               /\ \A u \in Sandboxes :
                    /\ About(sandbox'[u].control, d) => About(sandbox[u].control, d)
                    /\ About(sandbox'[u].pipe, d) => About(sandbox[u].pipe, d)
    <3>1. Unsent(d) /\ d # c
      BY <2>1, <1>18
    <3>2. QueueHas(d) /\ command'[d].seen = command[d].seen
      BY <3>1, <1>12 DEF QueueAlike
    <3>3. /\ task'[d].phase = task[d].phase /\ task'[d].made = task[d].made
          /\ task'[d].lives => task[d].lives
      BY <3>1, <1>8 DEF TasksKept
    <3>4. \A u \in Sandboxes :
             /\ About(sandbox'[u].control, d) => About(sandbox[u].control, d)
             /\ About(sandbox'[u].pipe, d) => About(sandbox[u].pipe, d)
      BY <3>1, <1>19
    <3> QED
      BY <3>1, <3>2, <3>3, <3>4
  <2> QED
    BY <2>1, NothingYetKept
<1>21. RegisteredIsMine'
  BY <1>1, <1>4, <1>5, <1>7, Homes DEF RegisteredIsMine, Places, SandboxesKept
<1>22. RunOnce'
  <2>1. ASSUME NEW e \in Commands, e # c PROVE StartsOnce(e)'
    BY <2>1, <1>13, UndisturbedKept
  <2>2. StartsOnce(c)'
    BY <1>1, <1>5, <1>7, <1>8, <1>4, Homes DEF RunOnce, SandboxesKept, TasksKept, StartsOnce
  <2> QED
    BY <2>1, <2>2 DEF RunOnce
<1>23. LivesRuns'
  BY <1>1, <1>5, <1>7, <1>8, <1>4, Homes DEF LivesRuns, SandboxesKept, TasksKept
<1>24. EndReported'
  <2>1. ASSUME NEW e \in Commands, e # c PROVE ReportIsTrue(e)'
    BY <2>1, <1>13, UndisturbedKept
  <2>2. ReportIsTrue(c)'
    BY <1>1, <1>5, <1>7, <1>8, <1>12, <1>4, Homes
      DEF EndReported, SandboxesKept, TasksKept, ReportIsTrue
  <2> QED
    BY <2>1, <2>2 DEF EndReported
<1>25. AtRelease'
  BY <1>1, <1>4, <1>5, <1>7, <1>8, Homes DEF AtRelease, Places, SandboxesKept, TasksKept
<1>26. Owned'
  BY <1>1, <1>4, <1>5, <1>7, <1>3, Homes DEF Owned, Places, Locking, SandboxesKept
<1>27. ExitIsLast'
  <2>1. ASSUME NEW e \in Commands, e # c PROVE ExitComesLast(e)'
    BY <2>1, <1>13, UndisturbedKept
  <2>2. ExitComesLast(c)'
    BY <1>1, <1>5, <1>7, <1>12, <1>4, Homes DEF ExitIsLast, SandboxesKept, ExitComesLast
  <2> QED
    BY <2>1, <2>2 DEF ExitIsLast
<1>28. OwnEvents'
  BY <1>1, <1>12 DEF OwnEvents, QueueAlike, QueueTyped
<1>29. OutputCounted'
  <2>1. ASSUME NEW e \in Commands, e # c PROVE AllCounted(e)'
    BY <2>1, <1>13, UndisturbedKept
  <2>2. AllCounted(c)'
    BY <1>1, <1>4, <1>5, <1>7, <1>12, <1>8, Homes
      DEF OutputCounted, Places, SandboxesKept, TasksKept, AllCounted
  <2> QED
    BY <2>1, <2>2 DEF OutputCounted
<1>30. SeenWasMade'
  BY <1>1, <1>12, Fields DEF SeenWasMade
<1>31. ExitSettled'
  BY <1>1, <1>12, <1>4, <1>8 DEF ExitSettled, Places, TasksKept
<1> QED
  BY <1>14, <1>15, <1>16, <1>17, <1>20, <1>21, <1>22, <1>23, <1>24, <1>25, <1>26, <1>27, <1>28,
     <1>29, <1>30, <1>31

\* A call takes the end of its command: with the exit, all the output is seen.
LEMMA KeptByTakeEnd ==
  ASSUME IInv, NEW c \in Commands, Take(c), Head(command[c].queue)[2] \notin {"out", "lost"}
  PROVE  IInv'
<1> USE Names DEF IInv
<1>1. pc[c] = "wait" /\ mine[c] \in Sandboxes /\ command[c].queue # <<>>
  BY DEF Take, At, Go, Of, Shapes, Places
<1>2. PICK k \in {"exit", "spawn_error"} : Head(command[c].queue) = <<c, k>>
  BY <1>1, HeadOfQueue
<1>3. poolLock' = poolLock /\ pool' = pool
  BY <1>1 DEF Take, At, Go, Of
<1>4. \A u \in Threads : pc'[u] = IF u = c THEN "release" ELSE pc[u]
  BY <1>1 DEF Take, At, Go, Of, Shapes
<1>5. mine' = mine
  BY <1>1 DEF Take, At, Go, Of, Shapes
<1>6. /\ pool' \in Sandboxes \cup {NoSandbox} /\ poolLock' \in Threads \cup {NoOne}
      /\ pc' \in [Threads -> Phases] /\ mine' \in [Threads -> Sandboxes \cup {NoSandbox}]
  BY <1>1 DEF Take, At, Go, Of, Shapes, Phases
<1>7. sandbox' \in [Sandboxes -> Sandbox] /\ SandboxesKept
  BY DEF Take, At, Go, Of, Shapes, SandboxesKept
<1>8. task' \in [Commands -> Task] /\ TasksKept
  BY DEF Take, At, Go, Of, Shapes, TasksKept
<1>9. command' = [command EXCEPT ![c] =
        [command[c] EXCEPT !.queue = Tail(command[c].queue), !.result = k]]
  <2>1. Head(command[c].queue)[2] = k /\ k # "out"
    BY <1>2
  <2> QED
    BY <1>2, <2>1 DEF Take
<1>10. Tail(command[c].queue) \in Seq(Event)
  BY <1>1, Fields, TailShifts
<1>11. LET r == [command[c] EXCEPT !.queue = Tail(command[c].queue), !.result = k] IN
         /\ r \in AnyCommand /\ r.queue = Tail(command[c].queue)
         /\ r.seen = command[c].seen /\ r.result = k
  <2>1. command[c] \in AnyCommand
    BY DEF Shapes
  <2>2. command[c].seen \in Nat
    BY Fields
  <2> QED
    BY <1>2, <1>10, <2>1, <2>2 DEF AnyCommand, Results
<1>12. /\ command' \in [Commands -> AnyCommand] /\ QueueTyped(c)
       /\ \A d \in Commands : d # c => /\ QueueAlike(d) /\ command'[d].seen = command[d].seen
                                       /\ command'[d].result = command[d].result
       /\ command'[c].seen = command[c].seen /\ command'[c].result = k
       /\ EndIn(command'[c].queue, c) => EndIn(command[c].queue, c)
       /\ ExitLast(command'[c].queue, c)
       /\ Has(command'[c].queue, <<c, "exit">>) => Has(command[c].queue, <<c, "exit">>)
       /\ Head(command[c].queue) = <<c, "exit">> =>
            /\ Has(command[c].queue, <<c, "exit">>) /\ ~Has(command'[c].queue, <<c, "out">>)
       /\ Head(command[c].queue) = <<c, "spawn_error">>
              => Has(command[c].queue, <<c, "spawn_error">>)
       /\ Outs(command'[c].queue, c) \in Nat
       /\ Outs(command[c].queue, c) = Outs(command'[c].queue, c)
            + (IF Head(command[c].queue) = <<c, "out">> THEN 1 ELSE 0)
  <2> DEFINE r == [command[c] EXCEPT !.queue = Tail(command[c].queue), !.result = k]
  <2>1. command' = [command EXCEPT ![c] = r]
    BY <1>9
  <2>2. /\ r \in AnyCommand /\ r.queue = Tail(command[c].queue)
        /\ r.seen = command[c].seen /\ r.result = k
    BY <1>11
  <2> HIDE DEF r
  <2>3. command'[c].seen = command[c].seen /\ command'[c].result = k
    BY <2>1, <2>2 DEF Shapes
  <2>4. r.queue = Tail(command[c].queue) /\ r \in AnyCommand
    BY <2>2
  <2> QED
    BY <2>1, <2>3, <2>4, <1>1, TakeDoes
<1>13. \A e \in Commands : e # c => Undisturbed(e)
  BY <1>4, <1>5, <1>7, <1>12, <1>8, ChannelKept DEF Undisturbed, TasksKept
<1>14. task[c].phase = "done"
  BY <1>2, <1>12 DEF EndReported, ReportIsTrue, EndIn
<1>15. k = "exit" => command[c].seen = task[c].made
  <2> SUFFICES ASSUME k = "exit" PROVE command[c].seen = task[c].made
    OBVIOUS
  <2>1. ~Has(command'[c].queue, <<c, "out">>) /\ ~Has(sandbox[mine[c]].pipe, <<c, "out">>)
    BY <1>1, <1>2, <1>12 DEF ExitIsLast, ExitComesLast
  <2>2. command'[c].queue \in Seq(Event) /\ sandbox[mine[c]].pipe \in Seq(Event \cup {Ready})
    BY <1>1, <1>12, Fields DEF QueueTyped
  <2>3. Outs(command'[c].queue, c) = 0 /\ Outs(sandbox[mine[c]].pipe, c) = 0
    BY <2>1, <2>2, NoOutsIn
  <2>4. Outs(command[c].queue, c) = 0
    BY <1>2, <1>12, <2>3
  <2>5. command[c].seen + Outs(command[c].queue, c) + Outs(sandbox[mine[c]].pipe, c)
            = task[c].made
    BY <1>1 DEF OutputCounted, AllCounted
  <2> QED
    BY <2>3, <2>4, <2>5, Fields
<1>16. Shapes'
  BY <1>6, <1>7, <1>8, <1>12 DEF Shapes
<1>17. QueuesFit'
  BY <1>1, <1>12 DEF QueuesFit, QueueAlike, QueueTyped
<1>18. Places'
  BY <1>1, <1>4, <1>5 DEF Places
<1>19. Locking'
  BY <1>1, <1>4, <1>3 DEF Locking, Places
<1>20. \A d \in Commands : Unsent(d)' => Unsent(d) /\ d # c
  BY <1>1, <1>4, <1>3 DEF Unsent, Locking, Places
<1>21. \A d \in Commands : Unsent(d) /\ d # c =>
         \A u \in Sandboxes : /\ About(sandbox'[u].control, d) => About(sandbox[u].control, d)
                              /\ About(sandbox'[u].pipe, d) => About(sandbox[u].pipe, d)
  BY <1>7 DEF SandboxesKept
<1>22. NothingYet'
  <2>1. ASSUME NEW d \in Commands, Unsent(d)'
        PROVE  /\ Unsent(d) /\ QueueHas(d) /\ command'[d].seen = command[d].seen
               /\ task'[d].phase = task[d].phase /\ task'[d].made = task[d].made
               /\ task'[d].lives => task[d].lives
               /\ \A u \in Sandboxes :
                    /\ About(sandbox'[u].control, d) => About(sandbox[u].control, d)
                    /\ About(sandbox'[u].pipe, d) => About(sandbox[u].pipe, d)
    <3>1. Unsent(d) /\ d # c
      BY <2>1, <1>20
    <3>2. QueueHas(d) /\ command'[d].seen = command[d].seen
      BY <3>1, <1>12 DEF QueueAlike
    <3>3. /\ task'[d].phase = task[d].phase /\ task'[d].made = task[d].made
          /\ task'[d].lives => task[d].lives
      BY <3>1, <1>8 DEF TasksKept
    <3>4. \A u \in Sandboxes :
             /\ About(sandbox'[u].control, d) => About(sandbox[u].control, d)
             /\ About(sandbox'[u].pipe, d) => About(sandbox[u].pipe, d)
      BY <3>1, <1>21
    <3> QED
      BY <3>1, <3>2, <3>3, <3>4
  <2> QED
    BY <2>1, NothingYetKept
<1>23. RegisteredIsMine'
  BY <1>1, <1>4, <1>5, <1>7, Homes DEF RegisteredIsMine, Places, SandboxesKept
<1>24. RunOnce'
  <2>1. ASSUME NEW e \in Commands, e # c PROVE StartsOnce(e)'
    BY <2>1, <1>13, UndisturbedKept
  <2>2. StartsOnce(c)'
    BY <1>1, <1>5, <1>7, <1>8, <1>4, Homes DEF RunOnce, SandboxesKept, TasksKept, StartsOnce
  <2> QED
    BY <2>1, <2>2 DEF RunOnce
<1>25. LivesRuns'
  BY <1>1, <1>5, <1>7, <1>8, <1>4, Homes DEF LivesRuns, SandboxesKept, TasksKept
<1>26. EndReported'
  <2>1. ASSUME NEW e \in Commands, e # c PROVE ReportIsTrue(e)'
    BY <2>1, <1>13, UndisturbedKept
  <2>2. ReportIsTrue(c)'
    BY <1>1, <1>5, <1>7, <1>8, <1>12, <1>4, Homes
      DEF EndReported, SandboxesKept, TasksKept, ReportIsTrue
  <2> QED
    BY <2>1, <2>2 DEF EndReported
<1>27. AtRelease'
  BY <1>1, <1>4, <1>5, <1>7, <1>8, Homes, <1>14 DEF AtRelease, Places, SandboxesKept, TasksKept
<1>28. Owned'
  BY <1>1, <1>4, <1>5, <1>7, <1>3, Homes DEF Owned, Places, Locking, SandboxesKept
<1>29. ExitIsLast'
  <2>1. ASSUME NEW e \in Commands, e # c PROVE ExitComesLast(e)'
    BY <2>1, <1>13, UndisturbedKept
  <2>2. ExitComesLast(c)'
    BY <1>1, <1>5, <1>7, <1>12, <1>4, Homes DEF ExitIsLast, SandboxesKept, ExitComesLast
  <2> QED
    BY <2>1, <2>2 DEF ExitIsLast
<1>30. OwnEvents'
  BY <1>1, <1>12 DEF OwnEvents, QueueAlike, QueueTyped
<1>31. OutputCounted'
  <2>1. ASSUME NEW e \in Commands, e # c PROVE AllCounted(e)'
    BY <2>1, <1>13, UndisturbedKept
  <2>2. AllCounted(c)'
    BY <1>1, <1>4, <1>5, <1>7, <1>12, <1>8, Homes
      DEF OutputCounted, Places, SandboxesKept, TasksKept, AllCounted
  <2> QED
    BY <2>1, <2>2 DEF OutputCounted
<1>32. SeenWasMade'
  BY <1>1, <1>12, Fields DEF SeenWasMade
<1>33. ExitSettled'
  BY <1>1, <1>12, <1>4, <1>8, <1>14, <1>15 DEF ExitSettled, Places, TasksKept
<1> QED
  BY <1>16, <1>17, <1>18, <1>19, <1>22, <1>23, <1>24, <1>25, <1>26, <1>27, <1>28, <1>29, <1>30,
     <1>31, <1>32, <1>33

\* The kill is not confirmed in time.
LEMMA KeptByUnconfirmed ==
  ASSUME IInv, NEW c \in Commands, Unconfirmed(c)
  PROVE  IInv'
<1> USE Names DEF IInv
<1>1. pc[c] = "wait" /\ mine[c] \in Sandboxes
  BY DEF Unconfirmed, At, Go, Of, Shapes, Places
<1>2. poolLock' = poolLock /\ pool' = pool
  BY <1>1 DEF Unconfirmed, At, Go, Of
<1>3. \A u \in Threads : pc'[u] = IF u = c THEN "discard" ELSE pc[u]
  BY <1>1 DEF Unconfirmed, At, Go, Of, Shapes
<1>4. mine' = mine
  BY <1>1 DEF Unconfirmed, At, Go, Of, Shapes
<1>5. /\ pool' \in Sandboxes \cup {NoSandbox} /\ poolLock' \in Threads \cup {NoOne}
      /\ pc' \in [Threads -> Phases] /\ mine' \in [Threads -> Sandboxes \cup {NoSandbox}]
  BY <1>1 DEF Unconfirmed, At, Go, Of, Shapes, Phases
<1>6. sandbox' \in [Sandboxes -> Sandbox] /\ SandboxesKept
  BY DEF Unconfirmed, At, Go, Of, Shapes, SandboxesKept
<1>7. /\ command' \in [Commands -> AnyCommand]
      /\ \A d \in Commands : /\ NotedBy(d) /\ command'[d].seen = command[d].seen
                             /\ command'[d].result =
                                    IF d = c THEN "unconfirmed" ELSE command[d].result
  BY <1>1, ReportDoes DEF Unconfirmed, At, Go, Of, Results
<1>8. \A d \in Commands : QueueAlike(d)
  BY <1>7, OneIsAlike DEF ExitIsLast, ExitComesLast
<1>9. task' \in [Commands -> Task] /\ TasksKept
  BY DEF Unconfirmed, At, Go, Of, Shapes, TasksKept
<1>10. Shapes'
  BY <1>5, <1>6, <1>7, <1>9 DEF Shapes
<1>11. \A e \in Commands : e # c => Undisturbed(e)
  BY <1>3, <1>4, <1>6, <1>7, <1>8, <1>9, ChannelKept DEF Undisturbed, Alike, TasksKept
<1>12. QueuesFit'
  BY <1>1, <1>7, <1>8 DEF QueuesFit, QueueAlike, QueueTyped
<1>13. Places'
  BY <1>1, <1>3, <1>4 DEF Places
<1>14. Locking'
  BY <1>1, <1>3, <1>2 DEF Locking, Places
<1>15. NothingYet'
  BY <1>1, <1>3, <1>2, <1>9, <1>7, <1>8, <1>6, <1>4
    DEF NothingYet, Unsent, Locking, Places, SandboxesKept, QueueAlike, QueueHas, TasksKept
<1>16. RegisteredIsMine'
  BY <1>1, <1>3, <1>4, <1>6, Homes DEF RegisteredIsMine, Places, SandboxesKept
<1>17. RunOnce'
  <2>1. ASSUME NEW e \in Commands, e # c PROVE StartsOnce(e)'
    BY <2>1, <1>11, UndisturbedKept
  <2>2. StartsOnce(c)'
    BY <1>1, <1>4, <1>6, <1>9, <1>3, Homes DEF RunOnce, SandboxesKept, TasksKept, StartsOnce
  <2> QED
    BY <2>1, <2>2 DEF RunOnce
<1>18. LivesRuns'
  BY <1>1, <1>4, <1>6, <1>9, <1>3, Homes DEF LivesRuns, SandboxesKept, TasksKept
<1>19. EndReported'
  <2>1. ASSUME NEW e \in Commands, e # c PROVE ReportIsTrue(e)'
    BY <2>1, <1>11, UndisturbedKept
  <2>2. ReportIsTrue(c)'
    <3>1. mine'[c] = mine[c] /\ task'[c].phase = task[c].phase /\ QueueHas(c)
      BY <1>1, <1>4, <1>6, <1>9, <1>7, <1>8, <1>3 DEF QueueAlike, TasksKept
    <3>2. mine[c] \in Sandboxes => sandbox'[mine[c]].pipe = sandbox[mine[c]].pipe
      BY <1>1, <1>4, <1>6, <1>9, <1>7, <1>8, <1>3 DEF SandboxesKept
    <3> QED
      BY <3>1, <3>2, ReportKept
  <2> QED
    BY <2>1, <2>2 DEF EndReported
<1>20. AtRelease'
  BY <1>1, <1>3, <1>4, <1>6, <1>9, Homes DEF AtRelease, Places, SandboxesKept, TasksKept
<1>21. Owned'
  BY <1>1, <1>3, <1>4, <1>6, <1>2, Homes DEF Owned, Places, Locking, SandboxesKept
<1>22. ExitIsLast'
  <2>1. ASSUME NEW e \in Commands, e # c PROVE ExitComesLast(e)'
    BY <2>1, <1>11, UndisturbedKept
  <2>2. ExitComesLast(c)'
    BY <1>1, <1>4, <1>6, <1>7, <1>8, <1>3, Homes
      DEF ExitIsLast, SandboxesKept, QueueAlike, QueueHas, ExitComesLast
  <2> QED
    BY <2>1, <2>2 DEF ExitIsLast
<1>23. OwnEvents'
  BY <1>1, <1>7, <1>8 DEF OwnEvents, QueueAlike, QueueTyped
<1>24. OutputCounted'
  <2>1. ASSUME NEW e \in Commands, e # c PROVE AllCounted(e)'
    BY <2>1, <1>11, UndisturbedKept
  <2>2. AllCounted(c)'
    BY <1>1, <1>3, <1>4, <1>6, <1>7, <1>8, <1>9, Homes
      DEF OutputCounted, Places, SandboxesKept, QueueAlike, QueueOuts, TasksKept, AllCounted
  <2> QED
    BY <2>1, <2>2 DEF OutputCounted
<1>25. SeenWasMade'
  BY <1>1, <1>7, <1>8, Fields DEF SeenWasMade
<1>26. ExitSettled'
  BY <1>1, <1>7, <1>8, <1>3, <1>9 DEF ExitSettled, Places, TasksKept
<1> QED
  BY <1>10, <1>12, <1>13, <1>14, <1>15, <1>16, <1>17, <1>18, <1>19, <1>20, <1>21, <1>22, <1>23,
     <1>24, <1>25, <1>26

\* A call with an empty queue finds its sandbox lost.
LEMMA KeptBySeeLost ==
  ASSUME IInv, NEW c \in Commands, SeeLost(c)
  PROVE  IInv'
<1> USE Names DEF IInv
<1>1. pc[c] = "wait" /\ mine[c] \in Sandboxes
  BY DEF SeeLost, At, Go, Of, Shapes, Places
<1>2. poolLock' = poolLock /\ pool' = pool
  BY <1>1 DEF SeeLost, At, Go, Of
<1>3. \A u \in Threads : pc'[u] = IF u = c THEN "discard" ELSE pc[u]
  BY <1>1 DEF SeeLost, At, Go, Of, Shapes
<1>4. mine' = mine
  BY <1>1 DEF SeeLost, At, Go, Of, Shapes
<1>5. /\ pool' \in Sandboxes \cup {NoSandbox} /\ poolLock' \in Threads \cup {NoOne}
      /\ pc' \in [Threads -> Phases] /\ mine' \in [Threads -> Sandboxes \cup {NoSandbox}]
  BY <1>1 DEF SeeLost, At, Go, Of, Shapes, Phases
<1>6. sandbox' \in [Sandboxes -> Sandbox] /\ SandboxesKept
  BY DEF SeeLost, At, Go, Of, Shapes, SandboxesKept
<1>7. /\ command' \in [Commands -> AnyCommand]
      /\ \A d \in Commands : /\ NotedBy(d) /\ command'[d].seen = command[d].seen
                             /\ command'[d].result = IF d = c THEN "lost" ELSE command[d].result
  BY <1>1, ReportDoes DEF SeeLost, At, Go, Of, Results
<1>8. \A d \in Commands : QueueAlike(d)
  BY <1>7, OneIsAlike DEF ExitIsLast, ExitComesLast
<1>9. task' \in [Commands -> Task] /\ TasksKept
  BY DEF SeeLost, At, Go, Of, Shapes, TasksKept
<1>10. Shapes'
  BY <1>5, <1>6, <1>7, <1>9 DEF Shapes
<1>11. \A e \in Commands : e # c => Undisturbed(e)
  BY <1>3, <1>4, <1>6, <1>7, <1>8, <1>9, ChannelKept DEF Undisturbed, Alike, TasksKept
<1>12. QueuesFit'
  BY <1>1, <1>7, <1>8 DEF QueuesFit, QueueAlike, QueueTyped
<1>13. Places'
  BY <1>1, <1>3, <1>4 DEF Places
<1>14. Locking'
  BY <1>1, <1>3, <1>2 DEF Locking, Places
<1>15. NothingYet'
  BY <1>1, <1>3, <1>2, <1>9, <1>7, <1>8, <1>6, <1>4
    DEF NothingYet, Unsent, Locking, Places, SandboxesKept, QueueAlike, QueueHas, TasksKept
<1>16. RegisteredIsMine'
  BY <1>1, <1>3, <1>4, <1>6, Homes DEF RegisteredIsMine, Places, SandboxesKept
<1>17. RunOnce'
  <2>1. ASSUME NEW e \in Commands, e # c PROVE StartsOnce(e)'
    BY <2>1, <1>11, UndisturbedKept
  <2>2. StartsOnce(c)'
    BY <1>1, <1>4, <1>6, <1>9, <1>3, Homes DEF RunOnce, SandboxesKept, TasksKept, StartsOnce
  <2> QED
    BY <2>1, <2>2 DEF RunOnce
<1>18. LivesRuns'
  BY <1>1, <1>4, <1>6, <1>9, <1>3, Homes DEF LivesRuns, SandboxesKept, TasksKept
<1>19. EndReported'
  <2>1. ASSUME NEW e \in Commands, e # c PROVE ReportIsTrue(e)'
    BY <2>1, <1>11, UndisturbedKept
  <2>2. ReportIsTrue(c)'
    <3>1. mine'[c] = mine[c] /\ task'[c].phase = task[c].phase /\ QueueHas(c)
      BY <1>1, <1>4, <1>6, <1>9, <1>7, <1>8, <1>3 DEF QueueAlike, TasksKept
    <3>2. mine[c] \in Sandboxes => sandbox'[mine[c]].pipe = sandbox[mine[c]].pipe
      BY <1>1, <1>4, <1>6, <1>9, <1>7, <1>8, <1>3 DEF SandboxesKept
    <3> QED
      BY <3>1, <3>2, ReportKept
  <2> QED
    BY <2>1, <2>2 DEF EndReported
<1>20. AtRelease'
  BY <1>1, <1>3, <1>4, <1>6, <1>9, Homes DEF AtRelease, Places, SandboxesKept, TasksKept
<1>21. Owned'
  BY <1>1, <1>3, <1>4, <1>6, <1>2, Homes DEF Owned, Places, Locking, SandboxesKept
<1>22. ExitIsLast'
  <2>1. ASSUME NEW e \in Commands, e # c PROVE ExitComesLast(e)'
    BY <2>1, <1>11, UndisturbedKept
  <2>2. ExitComesLast(c)'
    BY <1>1, <1>4, <1>6, <1>7, <1>8, <1>3, Homes
      DEF ExitIsLast, SandboxesKept, QueueAlike, QueueHas, ExitComesLast
  <2> QED
    BY <2>1, <2>2 DEF ExitIsLast
<1>23. OwnEvents'
  BY <1>1, <1>7, <1>8 DEF OwnEvents, QueueAlike, QueueTyped
<1>24. OutputCounted'
  <2>1. ASSUME NEW e \in Commands, e # c PROVE AllCounted(e)'
    BY <2>1, <1>11, UndisturbedKept
  <2>2. AllCounted(c)'
    BY <1>1, <1>3, <1>4, <1>6, <1>7, <1>8, <1>9, Homes
      DEF OutputCounted, Places, SandboxesKept, QueueAlike, QueueOuts, TasksKept, AllCounted
  <2> QED
    BY <2>1, <2>2 DEF OutputCounted
<1>25. SeenWasMade'
  BY <1>1, <1>7, <1>8, Fields DEF SeenWasMade
<1>26. ExitSettled'
  BY <1>1, <1>7, <1>8, <1>3, <1>9 DEF ExitSettled, Places, TasksKept
<1> QED
  BY <1>10, <1>12, <1>13, <1>14, <1>15, <1>16, <1>17, <1>18, <1>19, <1>20, <1>21, <1>22, <1>23,
     <1>24, <1>25, <1>26

\* A call takes its sandbox out of the pool.
LEMMA KeptByDiscard ==
  ASSUME IInv, NEW c \in Commands, Discard(c)
  PROVE  IInv'
<1> USE Names DEF IInv
<1>1. pc[c] = "discard" /\ poolLock = NoOne /\ mine[c] \in Sandboxes
  BY DEF Discard, At, Go, Of, Shapes, Places
<1>2. poolLock' = poolLock /\ pool' = IF pool = mine[c] THEN NoSandbox ELSE pool
  BY <1>1 DEF Discard, At, Go, Of, Without
<1>3. \A u \in Threads : pc'[u] = IF u = c THEN "closing" ELSE pc[u]
  BY <1>1 DEF Discard, At, Go, Of, Shapes
<1>4. mine' = mine
  BY <1>1 DEF Discard, At, Go, Of, Shapes
<1>5. /\ pool' \in Sandboxes \cup {NoSandbox} /\ poolLock' \in Threads \cup {NoOne}
      /\ pc' \in [Threads -> Phases] /\ mine' \in [Threads -> Sandboxes \cup {NoSandbox}]
  BY <1>1 DEF Discard, At, Go, Of, Without, Shapes, Phases
<1>6. MarkLost(mine[c])
  BY <1>1 DEF Discard, At, Go, Of
<1>7. /\ sandbox' \in [Sandboxes -> Sandbox] /\ SandboxesKept
      /\ command' \in [Commands -> AnyCommand] /\ Noted
  BY <1>1, <1>6, MarkLostDoes
<1>8. Alike
  BY <1>7, NotedIsAlike
<1>9. task' \in [Commands -> Task] /\ TasksKept
  BY DEF Discard, At, Go, Of, Shapes, TasksKept
<1>10. Shapes'
  BY <1>5, <1>7, <1>9 DEF Shapes
<1>11. \A e \in Commands : e # c => Undisturbed(e)
  BY <1>3, <1>4, <1>7, <1>8, <1>9, ChannelKept DEF Undisturbed, Alike, TasksKept
<1>12. QueuesFit'
  BY <1>1, <1>8 DEF QueuesFit, Alike, QueueAlike, QueueTyped
<1>13. Places'
  BY <1>1, <1>3, <1>4 DEF Places
<1>14. Locking'
  BY <1>1, <1>3, <1>2 DEF Locking, Places
<1>15. NothingYet'
  BY <1>1, <1>3, <1>2, <1>9, <1>8, <1>7, <1>4
    DEF NothingYet, Unsent, Locking, Places, SandboxesKept, Alike, QueueAlike, QueueHas,
         TasksKept
<1>16. RegisteredIsMine'
  BY <1>1, <1>3, <1>4, <1>7, Homes DEF RegisteredIsMine, Places, SandboxesKept
<1>17. RunOnce'
  <2>1. ASSUME NEW e \in Commands, e # c PROVE StartsOnce(e)'
    BY <2>1, <1>11, UndisturbedKept
  <2>2. StartsOnce(c)'
    BY <1>1, <1>4, <1>7, <1>9, <1>3, Homes DEF RunOnce, SandboxesKept, TasksKept, StartsOnce
  <2> QED
    BY <2>1, <2>2 DEF RunOnce
<1>18. LivesRuns'
  BY <1>1, <1>4, <1>7, <1>9, <1>3, Homes DEF LivesRuns, SandboxesKept, TasksKept
<1>19. EndReported'
  <2>1. ASSUME NEW e \in Commands, e # c PROVE ReportIsTrue(e)'
    BY <2>1, <1>11, UndisturbedKept
  <2>2. ReportIsTrue(c)'
    <3>1. mine'[c] = mine[c] /\ task'[c].phase = task[c].phase /\ QueueHas(c)
      BY <1>1, <1>4, <1>7, <1>9, <1>8, <1>3 DEF Alike, QueueAlike, TasksKept
    <3>2. mine[c] \in Sandboxes => sandbox'[mine[c]].pipe = sandbox[mine[c]].pipe
      BY <1>1, <1>4, <1>7, <1>9, <1>8, <1>3 DEF SandboxesKept
    <3> QED
      BY <3>1, <3>2, ReportKept
  <2> QED
    BY <2>1, <2>2 DEF EndReported
<1>20. AtRelease'
  BY <1>1, <1>3, <1>4, <1>7, <1>9, Homes DEF AtRelease, Places, SandboxesKept, TasksKept
<1>21. Owned'
  BY <1>1, <1>3, <1>4, <1>7, <1>2, Homes DEF Owned, Places, Locking, SandboxesKept
<1>22. ExitIsLast'
  <2>1. ASSUME NEW e \in Commands, e # c PROVE ExitComesLast(e)'
    BY <2>1, <1>11, UndisturbedKept
  <2>2. ExitComesLast(c)'
    BY <1>1, <1>4, <1>7, <1>8, <1>3, Homes
      DEF ExitIsLast, SandboxesKept, Alike, QueueAlike, QueueHas, ExitComesLast
  <2> QED
    BY <2>1, <2>2 DEF ExitIsLast
<1>23. OwnEvents'
  BY <1>1, <1>8 DEF OwnEvents, Alike, QueueAlike, QueueTyped
<1>24. OutputCounted'
  <2>1. ASSUME NEW e \in Commands, e # c PROVE AllCounted(e)'
    BY <2>1, <1>11, UndisturbedKept
  <2>2. AllCounted(c)'
    BY <1>1, <1>3, <1>4, <1>7, <1>8, <1>9, Homes
      DEF OutputCounted, Places, SandboxesKept, Alike, QueueAlike, QueueOuts, TasksKept,
           AllCounted
  <2> QED
    BY <2>1, <2>2 DEF OutputCounted
<1>25. SeenWasMade'
  BY <1>1, <1>8, Fields DEF SeenWasMade, Alike
<1>26. ExitSettled'
  BY <1>1, <1>8, <1>3, <1>9 DEF ExitSettled, Places, Alike, TasksKept
<1> QED
  BY <1>10, <1>12, <1>13, <1>14, <1>15, <1>16, <1>17, <1>18, <1>19, <1>20, <1>21, <1>22, <1>23,
     <1>24, <1>25, <1>26

\* A call returns: it leaves its sandbox.
LEMMA KeptByRelease ==
  ASSUME IInv, NEW c \in Commands, Release(c)
  PROVE  IInv'
<1> USE Names DEF IInv
<1>1. pc[c] = "release" /\ mine[c] \in Sandboxes
  BY DEF Release, At, Go, Of, Shapes, Places
<1>2. \A u \in Threads : pc'[u] = IF u = c THEN "done" ELSE pc[u]
  BY <1>1 DEF Release, At, Go, Of, Shapes
<1>3. poolLock' = poolLock /\ pool' = pool
  BY <1>1, <1>2 DEF Release, At, Go, Of
<1>4. /\ pool' \in Sandboxes \cup {NoSandbox} /\ poolLock' \in Threads \cup {NoOne}
      /\ pc' \in [Threads -> Phases]
  BY <1>1 DEF Release, At, Go, Of, Shapes, Phases
<1>5. Forget(c)
  BY <1>1 DEF Release, At, Go, Of
<1>6. /\ sandbox' \in [Sandboxes -> Sandbox]
      /\ c \notin sandbox'[mine[c]].registered
      /\ \A u \in Sandboxes :
           /\ sandbox'[u].process = "up" => sandbox[u].process = "up"
           /\ sandbox'[u].registered \subseteq sandbox[u].registered
  BY <1>5, <1>1, ForgetDoes
<1>7. /\ mine' \in [Threads -> Sandboxes \cup {NoSandbox}]
      /\ \A u \in Threads : mine'[u] = IF u = c THEN NoSandbox ELSE mine[u]
  BY <1>5, <1>1, ForgetDoes
<1>8. \A u \in Sandboxes, d \in Commands :
        /\ About(sandbox'[u].control, d) => About(sandbox[u].control, d)
        /\ About(sandbox'[u].pipe, d) => About(sandbox[u].pipe, d)
  BY <1>5, <1>1, ForgetDoes
<1>9. \A u \in Threads : u # c /\ mine[u] \in Sandboxes =>
        /\ sandbox'[mine[u]].process = sandbox[mine[u]].process
        /\ sandbox'[mine[u]].control = sandbox[mine[u]].control
        /\ sandbox'[mine[u]].pipe = sandbox[mine[u]].pipe
        /\ u \in sandbox[mine[u]].registered => u \in sandbox'[mine[u]].registered
  BY <1>5, <1>1, ForgetDoes
<1>10. task[c].lives = FALSE
  <2>1. ~task[c].lives
    BY <1>1 DEF AtRelease, LivesRuns
  <2> QED
    BY <2>1, Fields
<1>11. /\ command' \in [Commands -> AnyCommand]
       /\ command'[c].queue = <<>> /\ command'[c].seen = 0 /\ command'[c].result = "none"
       /\ \A d \in Commands : d # c => command'[d] = command[d]
  <2>1. command' = [command EXCEPT ![c] = Unused]
    BY DEF Release
  <2> QED
    BY <2>1, UnusedTyped DEF Shapes
<1>12. \A d \in Commands : d # c => /\ QueueAlike(d) /\ command'[d].seen = command[d].seen
                                       /\ command'[d].result = command[d].result
  BY <1>11, OneIsAlike DEF NotedBy, ExitIsLast, ExitComesLast
<1>13. /\ QueueTyped(c) /\ ~EndIn(command'[c].queue, c) /\ ExitLast(command'[c].queue, c)
       /\ \A k : ~Has(command'[c].queue, <<c, k>>)
  <2>1. Len(<<>>) <= QueueSize /\ <<>> \in Seq(Event)
    BY BoundAssumption
  <2> QED
    BY <2>1, <1>11, NothingIn DEF QueueTyped, EndIn
<1>14. /\ task' \in [Commands -> Task] /\ task'[c].lives = FALSE /\ task'[c].made = 0
       /\ \A d \in Commands : d # c => task'[d] = task[d]
  <2> DEFINE r == [NoTask EXCEPT !.lives = FALSE]
  <2>1. r \in Task /\ r.lives = FALSE /\ r.made = 0
    BY NoTaskTyped
  <2>2. task' = [task EXCEPT ![c] = r]
    BY <1>10 DEF Release
  <2> HIDE DEF r
  <2> QED
    BY <2>1, <2>2, TaskTyped
<1>15. \A e \in Commands : e # c /\ mine[e] \in Sandboxes => ChannelAlike(e)
  BY <1>9 DEF ChannelAlike
<1>16. \A e \in Commands : e # c => Undisturbed(e)
  BY <1>2, <1>7, <1>11, <1>12, <1>14, <1>15 DEF Undisturbed
<1>17. Shapes'
  BY <1>4, <1>6, <1>7, <1>11, <1>14 DEF Shapes
<1>18. QueuesFit'
  BY <1>1, <1>11, <1>12, <1>13 DEF QueuesFit, QueueAlike, QueueTyped
<1>19. Places'
  BY <1>1, <1>2, <1>7 DEF Places
<1>20. Locking'
  BY <1>1, <1>2, <1>3 DEF Locking, Places
<1>21. \A d \in Commands : Unsent(d)' => Unsent(d) /\ d # c
  BY <1>1, <1>2, <1>3 DEF Unsent, Locking, Places
<1>22. \A d \in Commands : Unsent(d) /\ d # c =>
         \A u \in Sandboxes : /\ About(sandbox'[u].control, d) => About(sandbox[u].control, d)
                              /\ About(sandbox'[u].pipe, d) => About(sandbox[u].pipe, d)
  BY <1>8
<1>23. NothingYet'
  <2>1. ASSUME NEW d \in Commands, Unsent(d)'
        PROVE  /\ Unsent(d) /\ QueueHas(d) /\ command'[d].seen = command[d].seen
               /\ task'[d].phase = task[d].phase /\ task'[d].made = task[d].made
               /\ task'[d].lives => task[d].lives
               /\ \A u \in Sandboxes :
                    /\ About(sandbox'[u].control, d) => About(sandbox[u].control, d)
                    /\ About(sandbox'[u].pipe, d) => About(sandbox[u].pipe, d)
    <3>1. Unsent(d) /\ d # c
      BY <2>1, <1>21
    <3>2. QueueHas(d) /\ command'[d].seen = command[d].seen
      BY <3>1, <1>11, <1>12 DEF QueueAlike
    <3>3. /\ task'[d].phase = task[d].phase /\ task'[d].made = task[d].made
          /\ task'[d].lives => task[d].lives
      BY <3>1, <1>14
    <3>4. \A u \in Sandboxes :
             /\ About(sandbox'[u].control, d) => About(sandbox[u].control, d)
             /\ About(sandbox'[u].pipe, d) => About(sandbox[u].pipe, d)
      BY <3>1, <1>22
    <3> QED
      BY <3>1, <3>2, <3>3, <3>4
  <2> QED
    BY <2>1, NothingYetKept
<1>24. RegisteredIsMine'
  <2>1. ASSUME NEW u \in Sandboxes, NEW d \in sandbox'[u].registered PROVE mine'[d] = u
    <3>1. d \in sandbox[u].registered
      BY <2>1, <1>6
    <3>2. d \in Commands
      BY <3>1, Homes
    <3>3. mine[d] = u
      BY <3>1 DEF RegisteredIsMine
    <3>4. d # c
      BY <2>1, <3>3, <1>6
    <3> QED
      BY <3>2, <3>3, <3>4, <1>7
  <2>2. ASSUME NEW d \in Commands, pc'[d] \in {"send", "wait"}
        PROVE  d \in sandbox'[mine'[d]].registered
    <3>1. d # c /\ pc[d] \in {"send", "wait"}
      BY <2>2, <1>2
    <3>2. mine[d] \in Sandboxes /\ d \in sandbox[mine[d]].registered
      BY <3>1, Homes DEF RegisteredIsMine
    <3> QED
      BY <3>1, <3>2, <1>7, <1>9
  <2> QED
    BY <2>1, <2>2 DEF RegisteredIsMine
<1>25. RunOnce'
  <2>1. ASSUME NEW e \in Commands, e # c PROVE StartsOnce(e)'
    BY <2>1, <1>16, UndisturbedKept
  <2>2. StartsOnce(c)'
    BY <1>1, <1>7, <1>6, <1>9, <1>14, <1>2, Homes DEF RunOnce, StartsOnce
  <2> QED
    BY <2>1, <2>2 DEF RunOnce
<1>26. LivesRuns'
  BY <1>1, <1>7, <1>6, <1>9, <1>14, <1>2, Homes DEF LivesRuns
<1>27. EndReported'
  <2>1. ASSUME NEW e \in Commands, e # c PROVE ReportIsTrue(e)'
    BY <2>1, <1>16, UndisturbedKept
  <2>2. ReportIsTrue(c)'
    BY <1>1, <1>7, <1>6, <1>9, <1>14, <1>11, <1>12, <1>2, Homes, <1>13
      DEF EndReported, ReportIsTrue
  <2> QED
    BY <2>1, <2>2 DEF EndReported
<1>28. AtRelease'
  BY <1>1, <1>2, <1>7, <1>6, <1>9, <1>14, Homes DEF AtRelease, Places
<1>29. Owned'
  BY <1>1, <1>2, <1>7, <1>6, <1>9, <1>3, Homes DEF Owned, Places, Locking
<1>30. ExitIsLast'
  <2>1. ASSUME NEW e \in Commands, e # c PROVE ExitComesLast(e)'
    BY <2>1, <1>16, UndisturbedKept
  <2>2. ExitComesLast(c)'
    BY <1>1, <1>7, <1>6, <1>9, <1>11, <1>12, <1>2, Homes, <1>13 DEF ExitIsLast, ExitComesLast
  <2> QED
    BY <2>1, <2>2 DEF ExitIsLast
<1>31. OwnEvents'
  BY <1>1, <1>11, <1>12, <1>13 DEF OwnEvents, QueueAlike, QueueTyped
<1>32. OutputCounted'
  <2>1. ASSUME NEW e \in Commands, e # c PROVE AllCounted(e)'
    BY <2>1, <1>16, UndisturbedKept
  <2>2. AllCounted(c)'
    BY <1>1, <1>2, <1>7, <1>6, <1>9, <1>11, <1>12, <1>14, Homes
      DEF OutputCounted, Places, AllCounted
  <2> QED
    BY <2>1, <2>2 DEF OutputCounted
<1>33. SeenWasMade'
  BY <1>1, <1>11, <1>12, Fields, BoundAssumption DEF SeenWasMade
<1>34. ExitSettled'
  BY <1>1, <1>11, <1>12, <1>2, <1>14 DEF ExitSettled, Places
<1> QED
  BY <1>17, <1>18, <1>19, <1>20, <1>23, <1>24, <1>25, <1>26, <1>27, <1>28, <1>29, <1>30, <1>31,
     <1>32, <1>33, <1>34

-----------------------------------------------------------------------------
(* Steps of the worker for a command. *)

\* The process of the command starts, or is killed at once.
LEMMA KeptBySpawn ==
  ASSUME IInv, NEW c \in Commands, Spawn(c)
  PROVE  IInv'
<1> USE Names DEF IInv
<1>1. task[c].phase = "starting" /\ mine[c] \in Sandboxes /\ sandbox[mine[c]].process = "up"
  BY DEF Spawn, At, Go, Of, Works, Shapes, Places
<1>2. poolLock' = poolLock /\ pool' = pool
  BY <1>1 DEF Spawn, At, Go, Of, Works
<1>3. pc' = pc
  BY <1>1 DEF Spawn, At, Go, Of, Works, Shapes
<1>4. mine' = mine
  BY <1>1 DEF Spawn, At, Go, Of, Works, Shapes
<1>5. /\ pool' \in Sandboxes \cup {NoSandbox} /\ poolLock' \in Threads \cup {NoOne}
      /\ pc' \in [Threads -> Phases] /\ mine' \in [Threads -> Sandboxes \cup {NoSandbox}]
  BY <1>1 DEF Spawn, At, Go, Of, Works, Shapes, Phases
<1>6. sandbox' \in [Sandboxes -> Sandbox] /\ SandboxesKept
  BY DEF Spawn, At, Go, Of, Works, Shapes, SandboxesKept
<1>7. command' \in [Commands -> AnyCommand] /\ CommandsKept
  BY DEF Spawn, At, Go, Of, Works, Shapes, CommandsKept
<1>8. Alike
  BY <1>7, NotedIsAlike
<1>9. /\ task' \in [Commands -> Task] /\ \A d \in Commands : d # c => task'[d] = task[d]
      /\ task'[c].phase = "running" /\ task'[c].made = task[c].made
  <2> DEFINE r == [task[c] EXCEPT !.phase = "running", !.lives = ~task[c].early,
                          !.early = FALSE]
  <2>1. task' = [task EXCEPT ![c] = r]
    BY DEF Spawn, At, Go, Of, Works
  <2>2. r \in Task /\ r.phase = "running" /\ r.made = task[c].made
    BY <1>1, BoundAssumption DEF Shapes, Task
  <2> HIDE DEF r
  <2> QED
    BY <2>1, <2>2, TaskTyped
<1>10. Shapes'
  BY <1>5, <1>6, <1>7, <1>9 DEF Shapes
<1>11. \A e \in Commands : e # c => Undisturbed(e)
  BY <1>3, <1>4, <1>6, <1>8, <1>9, ChannelKept DEF Undisturbed, Alike, TasksKept
<1>12. QueuesFit'
  BY <1>1, <1>8 DEF QueuesFit, Alike, QueueAlike, QueueTyped
<1>13. Places'
  BY <1>1, <1>3, <1>4 DEF Places
<1>14. Locking'
  BY <1>1, <1>3, <1>2 DEF Locking, Places
<1>15. NothingYet'
  BY <1>1, <1>3, <1>2, <1>9, <1>8, <1>6, <1>4
    DEF NothingYet, Unsent, Locking, Places, SandboxesKept, Alike, QueueAlike, QueueHas
<1>16. RegisteredIsMine'
  BY <1>1, <1>3, <1>4, <1>6, Homes DEF RegisteredIsMine, Places, SandboxesKept
<1>17. RunOnce'
  <2>1. ASSUME NEW e \in Commands, e # c PROVE StartsOnce(e)'
    BY <2>1, <1>11, UndisturbedKept
  <2>2. StartsOnce(c)'
    BY <1>1, <1>4, <1>6, <1>9, <1>3, Homes DEF RunOnce, SandboxesKept, StartsOnce
  <2> QED
    BY <2>1, <2>2 DEF RunOnce
<1>18. LivesRuns'
  BY <1>1, <1>4, <1>6, <1>9, <1>3, Homes DEF LivesRuns, SandboxesKept
<1>19. EndReported'
  <2>1. ASSUME NEW e \in Commands, e # c PROVE ReportIsTrue(e)'
    BY <2>1, <1>11, UndisturbedKept
  <2>2. ReportIsTrue(c)'
    BY <1>1, <1>4, <1>6, <1>9, <1>8, <1>3, Homes
      DEF EndReported, SandboxesKept, Alike, QueueAlike, QueueHas, ReportIsTrue
  <2> QED
    BY <2>1, <2>2 DEF EndReported
<1>20. AtRelease'
  BY <1>1, <1>3, <1>4, <1>6, <1>9, Homes DEF AtRelease, Places, SandboxesKept
<1>21. Owned'
  BY <1>1, <1>3, <1>4, <1>6, <1>2, Homes DEF Owned, Places, Locking, SandboxesKept
<1>22. ExitIsLast'
  <2>1. ASSUME NEW e \in Commands, e # c PROVE ExitComesLast(e)'
    BY <2>1, <1>11, UndisturbedKept
  <2>2. ExitComesLast(c)'
    BY <1>1, <1>4, <1>6, <1>8, <1>3, Homes
      DEF ExitIsLast, SandboxesKept, Alike, QueueAlike, QueueHas, ExitComesLast
  <2> QED
    BY <2>1, <2>2 DEF ExitIsLast
<1>23. OwnEvents'
  BY <1>1, <1>8 DEF OwnEvents, Alike, QueueAlike, QueueTyped
<1>24. OutputCounted'
  <2>1. ASSUME NEW e \in Commands, e # c PROVE AllCounted(e)'
    BY <2>1, <1>11, UndisturbedKept
  <2>2. AllCounted(c)'
    BY <1>1, <1>3, <1>4, <1>6, <1>8, <1>9, Homes
      DEF OutputCounted, Places, SandboxesKept, Alike, QueueAlike, QueueOuts, AllCounted
  <2> QED
    BY <2>1, <2>2 DEF OutputCounted
<1>25. SeenWasMade'
  BY <1>1, <1>8, Fields DEF SeenWasMade, Alike
<1>26. ExitSettled'
  BY <1>1, <1>8, <1>3, <1>9 DEF ExitSettled, Places, Alike
<1> QED
  BY <1>10, <1>12, <1>13, <1>14, <1>15, <1>16, <1>17, <1>18, <1>19, <1>20, <1>21, <1>22, <1>23,
     <1>24, <1>25, <1>26

\* The process cannot be started.
LEMMA KeptBySpawnFails ==
  ASSUME IInv, NEW c \in Commands, SpawnFails(c)
  PROVE  IInv'
<1> USE Names DEF IInv
<1>1. task[c].phase = "starting" /\ mine[c] \in Sandboxes /\ sandbox[mine[c]].process = "up"
  BY DEF SpawnFails, At, Go, Of, Works, Shapes, Places
<1>2. poolLock' = poolLock /\ pool' = pool
  BY <1>1 DEF SpawnFails, At, Go, Of, Works
<1>3. pc' = pc
  BY <1>1 DEF SpawnFails, At, Go, Of, Works, Shapes
<1>4. mine' = mine
  BY <1>1 DEF SpawnFails, At, Go, Of, Works, Shapes
<1>5. /\ pool' \in Sandboxes \cup {NoSandbox} /\ poolLock' \in Threads \cup {NoOne}
      /\ pc' \in [Threads -> Phases] /\ mine' \in [Threads -> Sandboxes \cup {NoSandbox}]
  BY <1>1 DEF SpawnFails, At, Go, Of, Works, Shapes, Phases
<1>6. /\ sandbox' \in [Sandboxes -> Sandbox]
      /\ \A u \in Sandboxes : u # mine[c] => sandbox'[u] = sandbox[u]
      /\ sandbox'[mine[c]].process = sandbox[mine[c]].process
      /\ sandbox'[mine[c]].control = sandbox[mine[c]].control
      /\ sandbox'[mine[c]].registered = sandbox[mine[c]].registered
  BY <1>1, TellDoes DEF SpawnFails, At, Go, Of, Works
<1>7. \A d \in Commands :
        LET q == sandbox[mine[c]].pipe
            r == sandbox'[mine[c]].pipe IN
        /\ \A k \in {"out", "exit", "spawn_error"} :
             Has(r, <<d, k>>) <=> Has(q, <<d, k>>) \/ (d = c /\ k = "spawn_error")
        /\ About(r, d) <=> About(q, d) \/ d = c
        /\ ExitLast(q, d) => ExitLast(r, d)
  BY <1>1, TellDoes DEF SpawnFails, At, Go, Of, Works
<1>8. /\ Outs(sandbox'[mine[c]].pipe, c) = Outs(sandbox[mine[c]].pipe, c)
      /\ \A d \in Commands : d # c =>
           Outs(sandbox'[mine[c]].pipe, d) = Outs(sandbox[mine[c]].pipe, d)
      /\ \A d \in Commands : Outs(sandbox[mine[c]].pipe, d) \in Nat
  <2>1. \A d \in Commands : Outs(sandbox[mine[c]].pipe, d) \in Nat
    BY <1>1, Fields, OutsAre
  <2>2. \A d \in Commands : Outs(sandbox'[mine[c]].pipe, d)
              = Outs(sandbox[mine[c]].pipe, d)
                  + (IF d = c /\ "spawn_error" = "out" THEN 1 ELSE 0)
    BY <1>1, <2>1, TellDoes DEF SpawnFails, At, Go, Of, Works
  <2> QED
    BY <2>1, <2>2
<1>9. command' \in [Commands -> AnyCommand] /\ CommandsKept
  BY DEF SpawnFails, At, Go, Of, Works, Shapes, CommandsKept
<1>10. Alike
  BY <1>9, NotedIsAlike
<1>11. /\ task' \in [Commands -> Task] /\ \A d \in Commands : d # c => task'[d] = task[d]
       /\ task'[c].phase = "done" /\ task'[c].made = task[c].made
       /\ task'[c].lives = task[c].lives
  <2> DEFINE r == [task[c] EXCEPT !.phase = "done"]
  <2>1. task' = [task EXCEPT ![c] = r]
    BY DEF SpawnFails, At, Go, Of, Works
  <2>2. r \in Task /\ r.phase = "done" /\ r.made = task[c].made /\ r.lives = task[c].lives
    BY <1>1, BoundAssumption DEF Shapes, Task
  <2> HIDE DEF r
  <2> QED
    BY <2>1, <2>2, TaskTyped
<1>12. \A e \in Commands : e # c /\ mine[e] \in Sandboxes => ChannelAlike(e)
  <2> SUFFICES ASSUME NEW e \in Commands, e # c, mine[e] \in Sandboxes PROVE ChannelAlike(e)
    OBVIOUS
  <2>1. CASE mine[e] = mine[c]
    BY <2>1, <1>6, <1>7, <1>8 DEF ChannelAlike, EndIn
  <2>2. CASE mine[e] # mine[c]
    BY <2>2, <1>6 DEF ChannelAlike
  <2> QED
    BY <2>1, <2>2
<1>13. \A e \in Commands : e # c => Undisturbed(e)
  BY <1>3, <1>4, <1>10, <1>11, <1>12 DEF Undisturbed, Alike
<1>14. Outs(command[c].queue, c) \in Nat /\ command[c].seen \in Nat /\ task[c].made \in Nat
  BY Fields, OutsAre
<1>15. Shapes'
  BY <1>5, <1>6, <1>9, <1>11 DEF Shapes
<1>16. QueuesFit'
  BY <1>1, <1>10 DEF QueuesFit, Alike, QueueAlike, QueueTyped
<1>17. Places'
  BY <1>1, <1>3, <1>4 DEF Places
<1>18. Locking'
  BY <1>1, <1>3, <1>2 DEF Locking, Places
<1>19. NothingYet'
  BY <1>1, <1>3, <1>2, <1>11, <1>10, <1>6, <1>4, <1>7
    DEF NothingYet, Unsent, Locking, Places, Alike, QueueAlike, QueueHas
<1>20. RegisteredIsMine'
  BY <1>1, <1>3, <1>4, <1>6, Homes DEF RegisteredIsMine, Places
<1>21. RunOnce'
  <2>1. ASSUME NEW e \in Commands, e # c PROVE StartsOnce(e)'
    BY <2>1, <1>13, UndisturbedKept
  <2>2. StartsOnce(c)'
    BY <1>1, <1>4, <1>6, <1>11, <1>3, Homes DEF RunOnce, StartsOnce
  <2> QED
    BY <2>1, <2>2 DEF RunOnce
<1>22. LivesRuns'
  BY <1>1, <1>4, <1>6, <1>11, <1>3, Homes DEF LivesRuns
<1>23. EndReported'
  <2>1. ASSUME NEW e \in Commands, e # c PROVE ReportIsTrue(e)'
    BY <2>1, <1>13, UndisturbedKept
  <2>2. ReportIsTrue(c)'
    BY <1>1, <1>4, <1>6, <1>11, <1>10, <1>3, Homes, <1>7
      DEF EndReported, Alike, QueueAlike, QueueHas, EndIn, ReportIsTrue
  <2> QED
    BY <2>1, <2>2 DEF EndReported
<1>24. AtRelease'
  BY <1>1, <1>3, <1>4, <1>6, <1>11, Homes DEF AtRelease, Places
<1>25. Owned'
  BY <1>1, <1>3, <1>4, <1>6, <1>2, Homes DEF Owned, Places, Locking
<1>26. ExitIsLast'
  <2>1. ASSUME NEW e \in Commands, e # c PROVE ExitComesLast(e)'
    BY <2>1, <1>13, UndisturbedKept
  <2>2. ExitComesLast(c)'
    BY <1>1, <1>4, <1>6, <1>10, <1>3, Homes, <1>7
      DEF ExitIsLast, Alike, QueueAlike, QueueHas, EndIn, EndReported, ReportIsTrue,
           ExitComesLast
  <2> QED
    BY <2>1, <2>2 DEF ExitIsLast
<1>27. OwnEvents'
  BY <1>1, <1>10 DEF OwnEvents, Alike, QueueAlike, QueueTyped
<1>28. OutputCounted'
  <2>1. ASSUME NEW e \in Commands, e # c PROVE AllCounted(e)'
    BY <2>1, <1>13, UndisturbedKept
  <2>2. AllCounted(c)'
    BY <1>1, <1>3, <1>4, <1>6, <1>10, <1>11, Homes, <1>8, <1>14
      DEF OutputCounted, Places, Alike, QueueAlike, QueueOuts, AllCounted
  <2> QED
    BY <2>1, <2>2 DEF OutputCounted
<1>29. SeenWasMade'
  BY <1>1, <1>10, Fields DEF SeenWasMade, Alike
<1>30. ExitSettled'
  BY <1>1, <1>10, <1>3, <1>11 DEF ExitSettled, Places, Alike
<1> QED
  BY <1>15, <1>16, <1>17, <1>18, <1>19, <1>20, <1>21, <1>22, <1>23, <1>24, <1>25, <1>26, <1>27,
     <1>28, <1>29, <1>30

\* The process writes a chunk.
LEMMA KeptByOutput ==
  ASSUME IInv, NEW c \in Commands, Output(c)
  PROVE  IInv'
<1> USE Names DEF IInv
<1>1. task[c].phase = "running" /\ mine[c] \in Sandboxes /\ sandbox[mine[c]].process = "up"
        /\ task[c].made < MaxOutput
  BY DEF Output, At, Go, Of, Works, Shapes, Places
<1>2. poolLock' = poolLock /\ pool' = pool
  BY <1>1 DEF Output, At, Go, Of, Works
<1>3. pc' = pc
  BY <1>1 DEF Output, At, Go, Of, Works, Shapes
<1>4. mine' = mine
  BY <1>1 DEF Output, At, Go, Of, Works, Shapes
<1>5. /\ pool' \in Sandboxes \cup {NoSandbox} /\ poolLock' \in Threads \cup {NoOne}
      /\ pc' \in [Threads -> Phases] /\ mine' \in [Threads -> Sandboxes \cup {NoSandbox}]
  BY <1>1 DEF Output, At, Go, Of, Works, Shapes, Phases
<1>6. /\ sandbox' \in [Sandboxes -> Sandbox]
      /\ \A u \in Sandboxes : u # mine[c] => sandbox'[u] = sandbox[u]
      /\ sandbox'[mine[c]].process = sandbox[mine[c]].process
      /\ sandbox'[mine[c]].control = sandbox[mine[c]].control
      /\ sandbox'[mine[c]].registered = sandbox[mine[c]].registered
  BY <1>1, TellDoes DEF Output, At, Go, Of, Works
<1>7. \A d \in Commands :
        LET q == sandbox[mine[c]].pipe
            r == sandbox'[mine[c]].pipe IN
        /\ \A k \in {"out", "exit", "spawn_error"} :
             Has(r, <<d, k>>) <=> Has(q, <<d, k>>) \/ (d = c /\ k = "out")
        /\ About(r, d) <=> About(q, d) \/ d = c
        /\ ExitLast(q, d) /\ (d = c => ~Has(q, <<d, "exit">>)) => ExitLast(r, d)
  BY <1>1, TellDoes DEF Output, At, Go, Of, Works
<1>8. /\ Outs(sandbox'[mine[c]].pipe, c) = Outs(sandbox[mine[c]].pipe, c) + 1
      /\ \A d \in Commands : d # c =>
           Outs(sandbox'[mine[c]].pipe, d) = Outs(sandbox[mine[c]].pipe, d)
      /\ \A d \in Commands : Outs(sandbox[mine[c]].pipe, d) \in Nat
  <2>1. \A d \in Commands : Outs(sandbox[mine[c]].pipe, d) \in Nat
    BY <1>1, Fields, OutsAre
  <2>2. \A d \in Commands : Outs(sandbox'[mine[c]].pipe, d)
              = Outs(sandbox[mine[c]].pipe, d) + (IF d = c /\ "out" = "out" THEN 1 ELSE 0)
    BY <1>1, <2>1, TellDoes DEF Output, At, Go, Of, Works
  <2> QED
    BY <2>1, <2>2
<1>9. command' \in [Commands -> AnyCommand] /\ CommandsKept
  BY DEF Output, At, Go, Of, Works, Shapes, CommandsKept
<1>10. Alike
  BY <1>9, NotedIsAlike
<1>11. task[c].made + 1 \in 0..MaxOutput
  BY <1>1, Fields, BoundAssumption
<1>12. /\ task' \in [Commands -> Task] /\ \A d \in Commands : d # c => task'[d] = task[d]
       /\ task'[c].phase = "running" /\ task'[c].made = task[c].made + 1
       /\ task'[c].lives = task[c].lives
  <2> DEFINE r == [task[c] EXCEPT !.made = task[c].made + 1]
  <2>1. task' = [task EXCEPT ![c] = r]
    BY DEF Output, At, Go, Of, Works
  <2>2. r \in Task /\ r.phase = "running" /\ r.made = task[c].made + 1
          /\ r.lives = task[c].lives
    BY <1>1, BoundAssumption, <1>11 DEF Shapes, Task
  <2> HIDE DEF r
  <2> QED
    BY <2>1, <2>2, TaskTyped
<1>13. \A e \in Commands : e # c /\ mine[e] \in Sandboxes => ChannelAlike(e)
  <2> SUFFICES ASSUME NEW e \in Commands, e # c, mine[e] \in Sandboxes PROVE ChannelAlike(e)
    OBVIOUS
  <2>1. CASE mine[e] = mine[c]
    BY <2>1, <1>6, <1>7, <1>8 DEF ChannelAlike, EndIn
  <2>2. CASE mine[e] # mine[c]
    BY <2>2, <1>6 DEF ChannelAlike
  <2> QED
    BY <2>1, <2>2
<1>14. \A e \in Commands : e # c => Undisturbed(e)
  BY <1>3, <1>4, <1>10, <1>12, <1>13 DEF Undisturbed, Alike
<1>15. Outs(command[c].queue, c) \in Nat /\ command[c].seen \in Nat /\ task[c].made \in Nat
  BY Fields, OutsAre
<1>16. Shapes'
  BY <1>5, <1>6, <1>9, <1>12 DEF Shapes
<1>17. QueuesFit'
  BY <1>1, <1>10 DEF QueuesFit, Alike, QueueAlike, QueueTyped
<1>18. Places'
  BY <1>1, <1>3, <1>4 DEF Places
<1>19. Locking'
  BY <1>1, <1>3, <1>2 DEF Locking, Places
<1>20. NothingYet'
  BY <1>1, <1>3, <1>2, <1>12, <1>10, <1>6, <1>4, <1>7
    DEF NothingYet, Unsent, Locking, Places, Alike, QueueAlike, QueueHas
<1>21. RegisteredIsMine'
  BY <1>1, <1>3, <1>4, <1>6, Homes DEF RegisteredIsMine, Places
<1>22. RunOnce'
  <2>1. ASSUME NEW e \in Commands, e # c PROVE StartsOnce(e)'
    BY <2>1, <1>14, UndisturbedKept
  <2>2. StartsOnce(c)'
    BY <1>1, <1>4, <1>6, <1>12, <1>3, Homes DEF RunOnce, StartsOnce
  <2> QED
    BY <2>1, <2>2 DEF RunOnce
<1>23. LivesRuns'
  BY <1>1, <1>4, <1>6, <1>12, <1>3, Homes DEF LivesRuns
<1>24. EndReported'
  <2>1. ASSUME NEW e \in Commands, e # c PROVE ReportIsTrue(e)'
    BY <2>1, <1>14, UndisturbedKept
  <2>2. ReportIsTrue(c)'
    BY <1>1, <1>4, <1>6, <1>12, <1>10, <1>3, Homes, <1>7
      DEF EndReported, Alike, QueueAlike, QueueHas, EndIn, ReportIsTrue
  <2> QED
    BY <2>1, <2>2 DEF EndReported
<1>25. AtRelease'
  BY <1>1, <1>3, <1>4, <1>6, <1>12, Homes DEF AtRelease, Places
<1>26. Owned'
  BY <1>1, <1>3, <1>4, <1>6, <1>2, Homes DEF Owned, Places, Locking
<1>27. ExitIsLast'
  <2>1. ASSUME NEW e \in Commands, e # c PROVE ExitComesLast(e)'
    BY <2>1, <1>14, UndisturbedKept
  <2>2. ExitComesLast(c)'
    BY <1>1, <1>4, <1>6, <1>10, <1>3, Homes, <1>7
      DEF ExitIsLast, Alike, QueueAlike, QueueHas, EndIn, EndReported, ReportIsTrue,
           ExitComesLast
  <2> QED
    BY <2>1, <2>2 DEF ExitIsLast
<1>28. OwnEvents'
  BY <1>1, <1>10 DEF OwnEvents, Alike, QueueAlike, QueueTyped
<1>29. OutputCounted'
  <2>1. ASSUME NEW e \in Commands, e # c PROVE AllCounted(e)'
    BY <2>1, <1>14, UndisturbedKept
  <2>2. AllCounted(c)'
    <3> SUFFICES ASSUME pc'[c] = "wait"
                   PROVE  command'[c].seen + Outs(command'[c].queue, c)
                            + Outs(sandbox'[mine'[c]].pipe, c) = task'[c].made
      BY DEF AllCounted
    <3>1. command[c].seen + Outs(command[c].queue, c) + Outs(sandbox[mine[c]].pipe, c)
              = task[c].made
      BY <1>3 DEF OutputCounted, AllCounted
    <3>2. /\ command'[c].seen = command[c].seen /\ mine'[c] = mine[c]
          /\ Outs(command'[c].queue, c) = Outs(command[c].queue, c)
      BY <1>4, <1>10 DEF Alike, QueueAlike, QueueOuts
    <3>3. /\ Outs(sandbox'[mine[c]].pipe, c) = Outs(sandbox[mine[c]].pipe, c) + 1
          /\ task'[c].made = task[c].made + 1 /\ Outs(sandbox[mine[c]].pipe, c) \in Nat
      BY <1>8, <1>12
    <3> QED
      BY <3>1, <3>2, <3>3, <1>15
  <2> QED
    BY <2>1, <2>2 DEF OutputCounted
<1>30. SeenWasMade'
  BY <1>1, <1>10, Fields DEF SeenWasMade, Alike
<1>31. ExitSettled'
  BY <1>1, <1>10, <1>3, <1>12 DEF ExitSettled, Places, Alike
<1> QED
  BY <1>16, <1>17, <1>18, <1>19, <1>20, <1>21, <1>22, <1>23, <1>24, <1>25, <1>26, <1>27, <1>28,
     <1>29, <1>30, <1>31

\* The process ends.
LEMMA KeptByFinish ==
  ASSUME IInv, NEW c \in Commands, Finish(c)
  PROVE  IInv'
<1> USE Names DEF IInv
<1>1. task[c].phase = "running" /\ mine[c] \in Sandboxes /\ sandbox[mine[c]].process = "up"
        /\ task[c].lives
  BY DEF Finish, At, Go, Of, Works, Shapes, Places
<1>2. poolLock' = poolLock /\ pool' = pool
  BY <1>1 DEF Finish, At, Go, Of, Works
<1>3. pc' = pc
  BY <1>1 DEF Finish, At, Go, Of, Works, Shapes
<1>4. mine' = mine
  BY <1>1 DEF Finish, At, Go, Of, Works, Shapes
<1>5. /\ pool' \in Sandboxes \cup {NoSandbox} /\ poolLock' \in Threads \cup {NoOne}
      /\ pc' \in [Threads -> Phases] /\ mine' \in [Threads -> Sandboxes \cup {NoSandbox}]
  BY <1>1 DEF Finish, At, Go, Of, Works, Shapes, Phases
<1>6. sandbox' \in [Sandboxes -> Sandbox] /\ SandboxesKept
  <2>1. PICK left \in SUBSET {c} :
          sandbox' = [sandbox EXCEPT ![mine[c]].background = @ \cup left]
    BY DEF Finish
  <2> DEFINE b == sandbox[mine[c]].background \cup left
  <2>2. b \in SUBSET Commands
    BY <1>1, Fields
  <2>3. sandbox' = [sandbox EXCEPT ![mine[c]].background = b]
    BY <2>1
  <2> HIDE DEF b
  <2> QED
    BY <1>1, <2>2, <2>3, BackgroundTyped
<1>7. command' \in [Commands -> AnyCommand] /\ CommandsKept
  BY DEF Finish, At, Go, Of, Works, Shapes, CommandsKept
<1>8. Alike
  BY <1>7, NotedIsAlike
<1>9. /\ task' \in [Commands -> Task] /\ \A d \in Commands : d # c => task'[d] = task[d]
      /\ task'[c].phase = "running" /\ task'[c].made = task[c].made
      /\ task'[c].lives = FALSE
  <2> DEFINE r == [task[c] EXCEPT !.lives = FALSE]
  <2>1. task' = [task EXCEPT ![c] = r]
    BY DEF Finish, At, Go, Of, Works
  <2>2. r \in Task /\ r.phase = "running" /\ r.made = task[c].made /\ r.lives = FALSE
    BY <1>1, BoundAssumption DEF Shapes, Task
  <2> HIDE DEF r
  <2> QED
    BY <2>1, <2>2, TaskTyped
<1>10. Shapes'
  BY <1>5, <1>6, <1>7, <1>9 DEF Shapes
<1>11. \A e \in Commands : e # c => Undisturbed(e)
  BY <1>3, <1>4, <1>6, <1>8, <1>9, ChannelKept DEF Undisturbed, Alike, TasksKept
<1>12. QueuesFit'
  BY <1>1, <1>8 DEF QueuesFit, Alike, QueueAlike, QueueTyped
<1>13. Places'
  BY <1>1, <1>3, <1>4 DEF Places
<1>14. Locking'
  BY <1>1, <1>3, <1>2 DEF Locking, Places
<1>15. NothingYet'
  BY <1>1, <1>3, <1>2, <1>9, <1>8, <1>6, <1>4
    DEF NothingYet, Unsent, Locking, Places, SandboxesKept, Alike, QueueAlike, QueueHas
<1>16. RegisteredIsMine'
  BY <1>1, <1>3, <1>4, <1>6, Homes DEF RegisteredIsMine, Places, SandboxesKept
<1>17. RunOnce'
  <2>1. ASSUME NEW e \in Commands, e # c PROVE StartsOnce(e)'
    BY <2>1, <1>11, UndisturbedKept
  <2>2. StartsOnce(c)'
    BY <1>1, <1>4, <1>6, <1>9, <1>3, Homes DEF RunOnce, SandboxesKept, StartsOnce
  <2> QED
    BY <2>1, <2>2 DEF RunOnce
<1>18. LivesRuns'
  BY <1>1, <1>4, <1>6, <1>9, <1>3, Homes DEF LivesRuns, SandboxesKept
<1>19. EndReported'
  <2>1. ASSUME NEW e \in Commands, e # c PROVE ReportIsTrue(e)'
    BY <2>1, <1>11, UndisturbedKept
  <2>2. ReportIsTrue(c)'
    BY <1>1, <1>4, <1>6, <1>9, <1>8, <1>3, Homes
      DEF EndReported, SandboxesKept, Alike, QueueAlike, QueueHas, ReportIsTrue
  <2> QED
    BY <2>1, <2>2 DEF EndReported
<1>20. AtRelease'
  BY <1>1, <1>3, <1>4, <1>6, <1>9, Homes DEF AtRelease, Places, SandboxesKept
<1>21. Owned'
  BY <1>1, <1>3, <1>4, <1>6, <1>2, Homes DEF Owned, Places, Locking, SandboxesKept
<1>22. ExitIsLast'
  <2>1. ASSUME NEW e \in Commands, e # c PROVE ExitComesLast(e)'
    BY <2>1, <1>11, UndisturbedKept
  <2>2. ExitComesLast(c)'
    BY <1>1, <1>4, <1>6, <1>8, <1>3, Homes
      DEF ExitIsLast, SandboxesKept, Alike, QueueAlike, QueueHas, ExitComesLast
  <2> QED
    BY <2>1, <2>2 DEF ExitIsLast
<1>23. OwnEvents'
  BY <1>1, <1>8 DEF OwnEvents, Alike, QueueAlike, QueueTyped
<1>24. OutputCounted'
  <2>1. ASSUME NEW e \in Commands, e # c PROVE AllCounted(e)'
    BY <2>1, <1>11, UndisturbedKept
  <2>2. AllCounted(c)'
    BY <1>1, <1>3, <1>4, <1>6, <1>8, <1>9, Homes
      DEF OutputCounted, Places, SandboxesKept, Alike, QueueAlike, QueueOuts, AllCounted
  <2> QED
    BY <2>1, <2>2 DEF OutputCounted
<1>25. SeenWasMade'
  BY <1>1, <1>8, Fields DEF SeenWasMade, Alike
<1>26. ExitSettled'
  BY <1>1, <1>8, <1>3, <1>9 DEF ExitSettled, Places, Alike
<1> QED
  BY <1>10, <1>12, <1>13, <1>14, <1>15, <1>16, <1>17, <1>18, <1>19, <1>20, <1>21, <1>22, <1>23,
     <1>24, <1>25, <1>26

\* Its exit is sent after its output.
LEMMA KeptBySendExit ==
  ASSUME IInv, NEW c \in Commands, SendExit(c)
  PROVE  IInv'
<1> USE Names DEF IInv
<1>1. task[c].phase = "running" /\ mine[c] \in Sandboxes /\ sandbox[mine[c]].process = "up"
        /\ ~task[c].lives
  BY DEF SendExit, At, Go, Of, Works, Shapes, Places
<1>2. poolLock' = poolLock /\ pool' = pool
  BY <1>1 DEF SendExit, At, Go, Of, Works
<1>3. pc' = pc
  BY <1>1 DEF SendExit, At, Go, Of, Works, Shapes
<1>4. mine' = mine
  BY <1>1 DEF SendExit, At, Go, Of, Works, Shapes
<1>5. /\ pool' \in Sandboxes \cup {NoSandbox} /\ poolLock' \in Threads \cup {NoOne}
      /\ pc' \in [Threads -> Phases] /\ mine' \in [Threads -> Sandboxes \cup {NoSandbox}]
  BY <1>1 DEF SendExit, At, Go, Of, Works, Shapes, Phases
<1>6. /\ sandbox' \in [Sandboxes -> Sandbox]
      /\ \A u \in Sandboxes : u # mine[c] => sandbox'[u] = sandbox[u]
      /\ sandbox'[mine[c]].process = sandbox[mine[c]].process
      /\ sandbox'[mine[c]].control = sandbox[mine[c]].control
      /\ sandbox'[mine[c]].registered = sandbox[mine[c]].registered
  BY <1>1, TellDoes DEF SendExit, At, Go, Of, Works
<1>7. \A d \in Commands :
        LET q == sandbox[mine[c]].pipe
            r == sandbox'[mine[c]].pipe IN
        /\ \A k \in {"out", "exit", "spawn_error"} :
             Has(r, <<d, k>>) <=> Has(q, <<d, k>>) \/ (d = c /\ k = "exit")
        /\ About(r, d) <=> About(q, d) \/ d = c
        /\ ExitLast(q, d) => ExitLast(r, d)
  BY <1>1, TellDoes DEF SendExit, At, Go, Of, Works
<1>8. /\ Outs(sandbox'[mine[c]].pipe, c) = Outs(sandbox[mine[c]].pipe, c)
      /\ \A d \in Commands : d # c =>
           Outs(sandbox'[mine[c]].pipe, d) = Outs(sandbox[mine[c]].pipe, d)
      /\ \A d \in Commands : Outs(sandbox[mine[c]].pipe, d) \in Nat
  <2>1. \A d \in Commands : Outs(sandbox[mine[c]].pipe, d) \in Nat
    BY <1>1, Fields, OutsAre
  <2>2. \A d \in Commands : Outs(sandbox'[mine[c]].pipe, d)
              = Outs(sandbox[mine[c]].pipe, d) + (IF d = c /\ "exit" = "out" THEN 1 ELSE 0)
    BY <1>1, <2>1, TellDoes DEF SendExit, At, Go, Of, Works
  <2> QED
    BY <2>1, <2>2
<1>9. command' \in [Commands -> AnyCommand] /\ CommandsKept
  BY DEF SendExit, At, Go, Of, Works, Shapes, CommandsKept
<1>10. Alike
  BY <1>9, NotedIsAlike
<1>11. /\ task' \in [Commands -> Task] /\ \A d \in Commands : d # c => task'[d] = task[d]
       /\ task'[c].phase = "done" /\ task'[c].made = task[c].made
       /\ task'[c].lives = task[c].lives
  <2> DEFINE r == [task[c] EXCEPT !.phase = "done"]
  <2>1. task' = [task EXCEPT ![c] = r]
    BY DEF SendExit, At, Go, Of, Works
  <2>2. r \in Task /\ r.phase = "done" /\ r.made = task[c].made /\ r.lives = task[c].lives
    BY <1>1, BoundAssumption DEF Shapes, Task
  <2> HIDE DEF r
  <2> QED
    BY <2>1, <2>2, TaskTyped
<1>12. \A e \in Commands : e # c /\ mine[e] \in Sandboxes => ChannelAlike(e)
  <2> SUFFICES ASSUME NEW e \in Commands, e # c, mine[e] \in Sandboxes PROVE ChannelAlike(e)
    OBVIOUS
  <2>1. CASE mine[e] = mine[c]
    BY <2>1, <1>6, <1>7, <1>8 DEF ChannelAlike, EndIn
  <2>2. CASE mine[e] # mine[c]
    BY <2>2, <1>6 DEF ChannelAlike
  <2> QED
    BY <2>1, <2>2
<1>13. \A e \in Commands : e # c => Undisturbed(e)
  BY <1>3, <1>4, <1>10, <1>11, <1>12 DEF Undisturbed, Alike
<1>14. Outs(command[c].queue, c) \in Nat /\ command[c].seen \in Nat /\ task[c].made \in Nat
  BY Fields, OutsAre
<1>15. Shapes'
  BY <1>5, <1>6, <1>9, <1>11 DEF Shapes
<1>16. QueuesFit'
  BY <1>1, <1>10 DEF QueuesFit, Alike, QueueAlike, QueueTyped
<1>17. Places'
  BY <1>1, <1>3, <1>4 DEF Places
<1>18. Locking'
  BY <1>1, <1>3, <1>2 DEF Locking, Places
<1>19. NothingYet'
  BY <1>1, <1>3, <1>2, <1>11, <1>10, <1>6, <1>4, <1>7
    DEF NothingYet, Unsent, Locking, Places, Alike, QueueAlike, QueueHas
<1>20. RegisteredIsMine'
  BY <1>1, <1>3, <1>4, <1>6, Homes DEF RegisteredIsMine, Places
<1>21. RunOnce'
  <2>1. ASSUME NEW e \in Commands, e # c PROVE StartsOnce(e)'
    BY <2>1, <1>13, UndisturbedKept
  <2>2. StartsOnce(c)'
    BY <1>1, <1>4, <1>6, <1>11, <1>3, Homes DEF RunOnce, StartsOnce
  <2> QED
    BY <2>1, <2>2 DEF RunOnce
<1>22. LivesRuns'
  BY <1>1, <1>4, <1>6, <1>11, <1>3, Homes DEF LivesRuns
<1>23. EndReported'
  <2>1. ASSUME NEW e \in Commands, e # c PROVE ReportIsTrue(e)'
    BY <2>1, <1>13, UndisturbedKept
  <2>2. ReportIsTrue(c)'
    BY <1>1, <1>4, <1>6, <1>11, <1>10, <1>3, Homes, <1>7
      DEF EndReported, Alike, QueueAlike, QueueHas, EndIn, ReportIsTrue
  <2> QED
    BY <2>1, <2>2 DEF EndReported
<1>24. AtRelease'
  BY <1>1, <1>3, <1>4, <1>6, <1>11, Homes DEF AtRelease, Places
<1>25. Owned'
  BY <1>1, <1>3, <1>4, <1>6, <1>2, Homes DEF Owned, Places, Locking
<1>26. ExitIsLast'
  <2>1. ASSUME NEW e \in Commands, e # c PROVE ExitComesLast(e)'
    BY <2>1, <1>13, UndisturbedKept
  <2>2. ExitComesLast(c)'
    BY <1>1, <1>4, <1>6, <1>10, <1>3, Homes, <1>7
      DEF ExitIsLast, Alike, QueueAlike, QueueHas, EndIn, EndReported, ReportIsTrue,
           ExitComesLast
  <2> QED
    BY <2>1, <2>2 DEF ExitIsLast
<1>27. OwnEvents'
  BY <1>1, <1>10 DEF OwnEvents, Alike, QueueAlike, QueueTyped
<1>28. OutputCounted'
  <2>1. ASSUME NEW e \in Commands, e # c PROVE AllCounted(e)'
    BY <2>1, <1>13, UndisturbedKept
  <2>2. AllCounted(c)'
    BY <1>1, <1>3, <1>4, <1>6, <1>10, <1>11, Homes, <1>8, <1>14
      DEF OutputCounted, Places, Alike, QueueAlike, QueueOuts, AllCounted
  <2> QED
    BY <2>1, <2>2 DEF OutputCounted
<1>29. SeenWasMade'
  BY <1>1, <1>10, Fields DEF SeenWasMade, Alike
<1>30. ExitSettled'
  BY <1>1, <1>10, <1>3, <1>11 DEF ExitSettled, Places, Alike
<1> QED
  BY <1>15, <1>16, <1>17, <1>18, <1>19, <1>20, <1>21, <1>22, <1>23, <1>24, <1>25, <1>26, <1>27,
     <1>28, <1>29, <1>30

-----------------------------------------------------------------------------
(* Steps that stop a sandbox. *)

\* The control channel is closed.
LEMMA KeptByCloseStdin ==
  ASSUME IInv, NEW c \in Threads, CloseStdin(c)
  PROVE  IInv'
<1> USE Names DEF IInv
<1>1. pc[c] = "closing" /\ mine[c] \in Sandboxes
  BY DEF CloseStdin, At, Go, Of, Shapes, Places
<1>2. poolLock' = poolLock /\ pool' = pool
  BY <1>1 DEF CloseStdin, At, Go, Of
<1>3. \A u \in Threads : pc'[u] = IF u = c THEN "dying" ELSE pc[u]
  BY <1>1 DEF CloseStdin, At, Go, Of, Shapes
<1>4. mine' = mine
  BY <1>1 DEF CloseStdin, At, Go, Of, Shapes
<1>5. /\ pool' \in Sandboxes \cup {NoSandbox} /\ poolLock' \in Threads \cup {NoOne}
      /\ pc' \in [Threads -> Phases] /\ mine' \in [Threads -> Sandboxes \cup {NoSandbox}]
  BY <1>1 DEF CloseStdin, At, Go, Of, Shapes, Phases
<1>6. sandbox' \in [Sandboxes -> Sandbox] /\ SandboxesKept
  BY <1>1, StdinTyped DEF CloseStdin, At, Go, Of
<1>7. command' \in [Commands -> AnyCommand] /\ CommandsKept
  BY DEF CloseStdin, At, Go, Of, Shapes, CommandsKept
<1>8. Alike
  BY <1>7, NotedIsAlike
<1>9. task' \in [Commands -> Task] /\ TasksKept
  BY DEF CloseStdin, At, Go, Of, Shapes, TasksKept
<1>10. Shapes'
  BY <1>5, <1>6, <1>7, <1>9 DEF Shapes
<1>11. QueuesFit'
  BY <1>1, <1>8 DEF QueuesFit, Alike, QueueAlike, QueueTyped
<1>12. Places'
  BY <1>1, <1>3, <1>4 DEF Places
<1>13. Locking'
  BY <1>1, <1>3, <1>2 DEF Locking, Places
<1>14. NothingYet'
  BY <1>1, <1>3, <1>2, <1>9, <1>8, <1>6, <1>4
    DEF NothingYet, Unsent, Locking, Places, SandboxesKept, Alike, QueueAlike, QueueHas,
         TasksKept
<1>15. RegisteredIsMine'
  BY <1>1, <1>3, <1>4, <1>6, Homes DEF RegisteredIsMine, Places, SandboxesKept
<1>16. RunOnce'
  BY <1>1, <1>4, <1>6, <1>9, <1>3, Homes DEF RunOnce, SandboxesKept, TasksKept, StartsOnce
<1>17. LivesRuns'
  BY <1>1, <1>4, <1>6, <1>9, <1>3, Homes DEF LivesRuns, SandboxesKept, TasksKept
<1>18. EndReported'
  <2> SUFFICES ASSUME NEW e \in Commands PROVE ReportIsTrue(e)'
    BY DEF EndReported
  <2>1. mine'[e] = mine[e] /\ task'[e].phase = task[e].phase /\ QueueHas(e)
    BY <1>1, <1>4, <1>6, <1>9, <1>8, <1>3 DEF Alike, QueueAlike, TasksKept
  <2>2. mine[e] \in Sandboxes => sandbox'[mine[e]].pipe = sandbox[mine[e]].pipe
    BY <1>1, <1>4, <1>6, <1>9, <1>8, <1>3 DEF SandboxesKept
  <2> QED
    BY <2>1, <2>2, ReportKept
<1>19. AtRelease'
  BY <1>1, <1>3, <1>4, <1>6, <1>9, Homes DEF AtRelease, Places, SandboxesKept, TasksKept
<1>20. Owned'
  BY <1>1, <1>3, <1>4, <1>6, <1>2, Homes DEF Owned, Places, Locking, SandboxesKept
<1>21. ExitIsLast'
  BY <1>1, <1>4, <1>6, <1>8, <1>3, Homes
    DEF ExitIsLast, SandboxesKept, Alike, QueueAlike, QueueHas, ExitComesLast
<1>22. OwnEvents'
  BY <1>1, <1>8 DEF OwnEvents, Alike, QueueAlike, QueueTyped
<1>23. OutputCounted'
  BY <1>1, <1>3, <1>4, <1>6, <1>8, <1>9, Homes
    DEF OutputCounted, Places, SandboxesKept, Alike, QueueAlike, QueueOuts, TasksKept,
         AllCounted
<1>24. SeenWasMade'
  BY <1>1, <1>8, Fields DEF SeenWasMade, Alike
<1>25. ExitSettled'
  BY <1>1, <1>8, <1>3, <1>9 DEF ExitSettled, Places, Alike, TasksKept
<1> QED
  BY <1>10, <1>11, <1>12, <1>13, <1>14, <1>15, <1>16, <1>17, <1>18, <1>19, <1>20, <1>21, <1>22,
     <1>23, <1>24, <1>25

\* An unhealthy sandbox is stopped; the call that stopped it starts another one.
LEMMA KeptByStoppedAgain ==
  ASSUME IInv, NEW c \in Commands, Stopped(c), poolLock = c, command[c].result = "none"
  PROVE  IInv'
<1> USE Names DEF IInv
<1>1. pc[c] = "dying" /\ mine[c] \in Sandboxes /\ sandbox[mine[c]].process = "dead"
  BY DEF Stopped, At, Go, Of, Shapes, Places
<1>2. \A u \in Threads : pc'[u] = IF u = c THEN "acquire" ELSE pc[u]
  BY <1>1 DEF Stopped, At, Go, Of, Shapes
<1>3. poolLock' = poolLock /\ pool' = pool
  BY <1>1, <1>2 DEF Stopped, At, Go, Of
<1>4. /\ pool' \in Sandboxes \cup {NoSandbox} /\ poolLock' \in Threads \cup {NoOne}
      /\ pc' \in [Threads -> Phases]
  BY <1>1 DEF Stopped, At, Go, Of, Shapes, Phases
<1>5. Forget(c)
  BY <1>1 DEF Stopped, At, Go, Of
<1>6. /\ sandbox' \in [Sandboxes -> Sandbox]
      /\ c \notin sandbox'[mine[c]].registered
      /\ \A u \in Sandboxes :
           /\ sandbox'[u].process = "up" => sandbox[u].process = "up"
           /\ sandbox'[u].registered \subseteq sandbox[u].registered
  BY <1>5, <1>1, ForgetDoes
<1>7. /\ mine' \in [Threads -> Sandboxes \cup {NoSandbox}]
      /\ \A u \in Threads : mine'[u] = IF u = c THEN NoSandbox ELSE mine[u]
  BY <1>5, <1>1, ForgetDoes
<1>8. \A u \in Sandboxes, d \in Commands :
        /\ About(sandbox'[u].control, d) => About(sandbox[u].control, d)
        /\ About(sandbox'[u].pipe, d) => About(sandbox[u].pipe, d)
  BY <1>5, <1>1, ForgetDoes
<1>9. \A u \in Threads : u # c /\ mine[u] \in Sandboxes =>
        /\ sandbox'[mine[u]].process = sandbox[mine[u]].process
        /\ sandbox'[mine[u]].control = sandbox[mine[u]].control
        /\ sandbox'[mine[u]].pipe = sandbox[mine[u]].pipe
        /\ u \in sandbox[mine[u]].registered => u \in sandbox'[mine[u]].registered
  BY <1>5, <1>1, ForgetDoes
<1>10. command' \in [Commands -> AnyCommand] /\ CommandsKept
  BY DEF Stopped, At, Go, Of, Shapes, CommandsKept
<1>11. Alike
  BY <1>10, NotedIsAlike
<1>12. task' \in [Commands -> Task] /\ TasksKept
  BY DEF Stopped, At, Go, Of, Shapes, TasksKept
<1>13. \A e \in Commands : e # c /\ mine[e] \in Sandboxes => ChannelAlike(e)
  BY <1>9 DEF ChannelAlike
<1>14. \A e \in Commands : e # c => Undisturbed(e)
  BY <1>2, <1>7, <1>11, <1>12, <1>13 DEF Undisturbed, Alike, TasksKept
<1>15. Shapes'
  BY <1>4, <1>6, <1>7, <1>10, <1>12 DEF Shapes
<1>16. QueuesFit'
  BY <1>1, <1>11 DEF QueuesFit, Alike, QueueAlike, QueueTyped
<1>17. Places'
  BY <1>1, <1>2, <1>7 DEF Places
<1>18. Locking'
  BY <1>1, <1>2, <1>3 DEF Locking, Places
<1>19. \A d \in Commands : Unsent(d)' => Unsent(d)
  BY <1>1, <1>2, <1>3 DEF Unsent, Locking, Places
<1>20. \A d \in Commands : Unsent(d) =>
         \A u \in Sandboxes : /\ About(sandbox'[u].control, d) => About(sandbox[u].control, d)
                              /\ About(sandbox'[u].pipe, d) => About(sandbox[u].pipe, d)
  BY <1>8
<1>21. NothingYet'
  <2>1. ASSUME NEW d \in Commands, Unsent(d)'
        PROVE  /\ Unsent(d) /\ QueueHas(d) /\ command'[d].seen = command[d].seen
               /\ task'[d].phase = task[d].phase /\ task'[d].made = task[d].made
               /\ task'[d].lives => task[d].lives
               /\ \A u \in Sandboxes :
                    /\ About(sandbox'[u].control, d) => About(sandbox[u].control, d)
                    /\ About(sandbox'[u].pipe, d) => About(sandbox[u].pipe, d)
    <3>1. Unsent(d)
      BY <2>1, <1>19
    <3>2. QueueHas(d) /\ command'[d].seen = command[d].seen
      BY <3>1, <1>11 DEF Alike, QueueAlike
    <3>3. /\ task'[d].phase = task[d].phase /\ task'[d].made = task[d].made
          /\ task'[d].lives => task[d].lives
      BY <3>1, <1>12 DEF TasksKept
    <3>4. \A u \in Sandboxes :
             /\ About(sandbox'[u].control, d) => About(sandbox[u].control, d)
             /\ About(sandbox'[u].pipe, d) => About(sandbox[u].pipe, d)
      BY <3>1, <1>20
    <3> QED
      BY <3>1, <3>2, <3>3, <3>4
  <2> QED
    BY <2>1, NothingYetKept
<1>22. RegisteredIsMine'
  <2>1. ASSUME NEW u \in Sandboxes, NEW d \in sandbox'[u].registered PROVE mine'[d] = u
    <3>1. d \in sandbox[u].registered
      BY <2>1, <1>6
    <3>2. d \in Commands
      BY <3>1, Homes
    <3>3. mine[d] = u
      BY <3>1 DEF RegisteredIsMine
    <3>4. d # c
      BY <2>1, <3>3, <1>6
    <3> QED
      BY <3>2, <3>3, <3>4, <1>7
  <2>2. ASSUME NEW d \in Commands, pc'[d] \in {"send", "wait"}
        PROVE  d \in sandbox'[mine'[d]].registered
    <3>1. d # c /\ pc[d] \in {"send", "wait"}
      BY <2>2, <1>2
    <3>2. mine[d] \in Sandboxes /\ d \in sandbox[mine[d]].registered
      BY <3>1, Homes DEF RegisteredIsMine
    <3> QED
      BY <3>1, <3>2, <1>7, <1>9
  <2> QED
    BY <2>1, <2>2 DEF RegisteredIsMine
<1>23. RunOnce'
  <2>1. ASSUME NEW e \in Commands, e # c PROVE StartsOnce(e)'
    BY <2>1, <1>14, UndisturbedKept
  <2>2. StartsOnce(c)'
    BY <1>1, <1>7, <1>6, <1>9, <1>12, <1>2, Homes DEF RunOnce, TasksKept, StartsOnce
  <2> QED
    BY <2>1, <2>2 DEF RunOnce
<1>24. LivesRuns'
  BY <1>1, <1>7, <1>6, <1>9, <1>12, <1>2, Homes DEF LivesRuns, TasksKept
<1>25. EndReported'
  <2>1. ASSUME NEW e \in Commands, e # c PROVE ReportIsTrue(e)'
    BY <2>1, <1>14, UndisturbedKept
  <2>2. ReportIsTrue(c)'
    <3>1. mine'[c] \notin Sandboxes
      BY <1>7
    <3>2. EndIn(command'[c].queue, c) <=> EndIn(command[c].queue, c)
      BY <1>11 DEF Alike, QueueAlike, QueueHas
    <3>3. task'[c].phase = task[c].phase
      BY <1>12 DEF TasksKept
    <3> QED
      BY <3>1, <3>2, <3>3 DEF EndReported, ReportIsTrue
  <2> QED
    BY <2>1, <2>2 DEF EndReported
<1>26. AtRelease'
  BY <1>1, <1>2, <1>7, <1>6, <1>9, <1>12, Homes DEF AtRelease, Places, TasksKept
<1>27. Owned'
  BY <1>1, <1>2, <1>7, <1>6, <1>9, <1>3, Homes DEF Owned, Places, Locking
<1>28. ExitIsLast'
  <2>1. ASSUME NEW e \in Commands, e # c PROVE ExitComesLast(e)'
    BY <2>1, <1>14, UndisturbedKept
  <2>2. ExitComesLast(c)'
    <3>1. mine'[c] \notin Sandboxes
      BY <1>7
    <3>2. ExitLast(command'[c].queue, c)
      BY <1>11 DEF Alike, QueueAlike
    <3> QED
      BY <3>1, <3>2 DEF ExitComesLast
  <2> QED
    BY <2>1, <2>2 DEF ExitIsLast
<1>29. OwnEvents'
  BY <1>1, <1>11 DEF OwnEvents, Alike, QueueAlike, QueueTyped
<1>30. OutputCounted'
  <2>1. ASSUME NEW e \in Commands, e # c PROVE AllCounted(e)'
    BY <2>1, <1>14, UndisturbedKept
  <2>2. AllCounted(c)'
    BY <1>1, <1>2, <1>7, <1>6, <1>9, <1>11, <1>12, Homes
      DEF OutputCounted, Places, Alike, QueueAlike, QueueOuts, TasksKept, AllCounted
  <2> QED
    BY <2>1, <2>2 DEF OutputCounted
<1>31. SeenWasMade'
  BY <1>1, <1>11, Fields DEF SeenWasMade, Alike
<1>32. ExitSettled'
  BY <1>1, <1>11, <1>2, <1>12 DEF ExitSettled, Places, Alike, TasksKept
<1> QED
  BY <1>15, <1>16, <1>17, <1>18, <1>21, <1>22, <1>23, <1>24, <1>25, <1>26, <1>27, <1>28, <1>29,
     <1>30, <1>31, <1>32

\* A sandbox that did not start is stopped; the call returns without one.
LEMMA KeptByStoppedDone ==
  ASSUME IInv, NEW c \in Commands, Stopped(c), poolLock = c, command[c].result # "none"
  PROVE  IInv'
<1> USE Names DEF IInv
<1>1. pc[c] = "dying" /\ mine[c] \in Sandboxes /\ sandbox[mine[c]].process = "dead"
  BY DEF Stopped, At, Go, Of, Shapes, Places
<1>2. \A u \in Threads : pc'[u] = IF u = c THEN "done" ELSE pc[u]
  BY <1>1 DEF Stopped, At, Go, Of, Shapes
<1>3. poolLock' = NoOne /\ pool' = pool
  BY <1>1, <1>2 DEF Stopped, At, Go, Of
<1>4. /\ pool' \in Sandboxes \cup {NoSandbox} /\ poolLock' \in Threads \cup {NoOne}
      /\ pc' \in [Threads -> Phases]
  BY <1>1 DEF Stopped, At, Go, Of, Shapes, Phases
<1>5. Forget(c)
  BY <1>1 DEF Stopped, At, Go, Of
<1>6. /\ sandbox' \in [Sandboxes -> Sandbox]
      /\ c \notin sandbox'[mine[c]].registered
      /\ \A u \in Sandboxes :
           /\ sandbox'[u].process = "up" => sandbox[u].process = "up"
           /\ sandbox'[u].registered \subseteq sandbox[u].registered
  BY <1>5, <1>1, ForgetDoes
<1>7. /\ mine' \in [Threads -> Sandboxes \cup {NoSandbox}]
      /\ \A u \in Threads : mine'[u] = IF u = c THEN NoSandbox ELSE mine[u]
  BY <1>5, <1>1, ForgetDoes
<1>8. \A u \in Sandboxes, d \in Commands :
        /\ About(sandbox'[u].control, d) => About(sandbox[u].control, d)
        /\ About(sandbox'[u].pipe, d) => About(sandbox[u].pipe, d)
  BY <1>5, <1>1, ForgetDoes
<1>9. \A u \in Threads : u # c /\ mine[u] \in Sandboxes =>
        /\ sandbox'[mine[u]].process = sandbox[mine[u]].process
        /\ sandbox'[mine[u]].control = sandbox[mine[u]].control
        /\ sandbox'[mine[u]].pipe = sandbox[mine[u]].pipe
        /\ u \in sandbox[mine[u]].registered => u \in sandbox'[mine[u]].registered
  BY <1>5, <1>1, ForgetDoes
<1>10. command' \in [Commands -> AnyCommand] /\ CommandsKept
  BY DEF Stopped, At, Go, Of, Shapes, CommandsKept
<1>11. Alike
  BY <1>10, NotedIsAlike
<1>12. task' \in [Commands -> Task] /\ TasksKept
  BY DEF Stopped, At, Go, Of, Shapes, TasksKept
<1>13. \A e \in Commands : e # c /\ mine[e] \in Sandboxes => ChannelAlike(e)
  BY <1>9 DEF ChannelAlike
<1>14. \A e \in Commands : e # c => Undisturbed(e)
  BY <1>2, <1>7, <1>11, <1>12, <1>13 DEF Undisturbed, Alike, TasksKept
<1>15. Shapes'
  BY <1>4, <1>6, <1>7, <1>10, <1>12 DEF Shapes
<1>16. QueuesFit'
  BY <1>1, <1>11 DEF QueuesFit, Alike, QueueAlike, QueueTyped
<1>17. Places'
  BY <1>1, <1>2, <1>7 DEF Places
<1>18. Locking'
  BY <1>1, <1>2, <1>3 DEF Locking, Places
<1>19. \A d \in Commands : Unsent(d)' => Unsent(d)
  BY <1>1, <1>2, <1>3 DEF Unsent, Locking, Places
<1>20. \A d \in Commands : Unsent(d) =>
         \A u \in Sandboxes : /\ About(sandbox'[u].control, d) => About(sandbox[u].control, d)
                              /\ About(sandbox'[u].pipe, d) => About(sandbox[u].pipe, d)
  BY <1>8
<1>21. NothingYet'
  <2>1. ASSUME NEW d \in Commands, Unsent(d)'
        PROVE  /\ Unsent(d) /\ QueueHas(d) /\ command'[d].seen = command[d].seen
               /\ task'[d].phase = task[d].phase /\ task'[d].made = task[d].made
               /\ task'[d].lives => task[d].lives
               /\ \A u \in Sandboxes :
                    /\ About(sandbox'[u].control, d) => About(sandbox[u].control, d)
                    /\ About(sandbox'[u].pipe, d) => About(sandbox[u].pipe, d)
    <3>1. Unsent(d)
      BY <2>1, <1>19
    <3>2. QueueHas(d) /\ command'[d].seen = command[d].seen
      BY <3>1, <1>11 DEF Alike, QueueAlike
    <3>3. /\ task'[d].phase = task[d].phase /\ task'[d].made = task[d].made
          /\ task'[d].lives => task[d].lives
      BY <3>1, <1>12 DEF TasksKept
    <3>4. \A u \in Sandboxes :
             /\ About(sandbox'[u].control, d) => About(sandbox[u].control, d)
             /\ About(sandbox'[u].pipe, d) => About(sandbox[u].pipe, d)
      BY <3>1, <1>20
    <3> QED
      BY <3>1, <3>2, <3>3, <3>4
  <2> QED
    BY <2>1, NothingYetKept
<1>22. RegisteredIsMine'
  <2>1. ASSUME NEW u \in Sandboxes, NEW d \in sandbox'[u].registered PROVE mine'[d] = u
    <3>1. d \in sandbox[u].registered
      BY <2>1, <1>6
    <3>2. d \in Commands
      BY <3>1, Homes
    <3>3. mine[d] = u
      BY <3>1 DEF RegisteredIsMine
    <3>4. d # c
      BY <2>1, <3>3, <1>6
    <3> QED
      BY <3>2, <3>3, <3>4, <1>7
  <2>2. ASSUME NEW d \in Commands, pc'[d] \in {"send", "wait"}
        PROVE  d \in sandbox'[mine'[d]].registered
    <3>1. d # c /\ pc[d] \in {"send", "wait"}
      BY <2>2, <1>2
    <3>2. mine[d] \in Sandboxes /\ d \in sandbox[mine[d]].registered
      BY <3>1, Homes DEF RegisteredIsMine
    <3> QED
      BY <3>1, <3>2, <1>7, <1>9
  <2> QED
    BY <2>1, <2>2 DEF RegisteredIsMine
<1>23. RunOnce'
  <2>1. ASSUME NEW e \in Commands, e # c PROVE StartsOnce(e)'
    BY <2>1, <1>14, UndisturbedKept
  <2>2. StartsOnce(c)'
    BY <1>1, <1>7, <1>6, <1>9, <1>12, <1>2, Homes DEF RunOnce, TasksKept, StartsOnce
  <2> QED
    BY <2>1, <2>2 DEF RunOnce
<1>24. LivesRuns'
  BY <1>1, <1>7, <1>6, <1>9, <1>12, <1>2, Homes DEF LivesRuns, TasksKept
<1>25. EndReported'
  <2>1. ASSUME NEW e \in Commands, e # c PROVE ReportIsTrue(e)'
    BY <2>1, <1>14, UndisturbedKept
  <2>2. ReportIsTrue(c)'
    <3>1. mine'[c] \notin Sandboxes
      BY <1>7
    <3>2. EndIn(command'[c].queue, c) <=> EndIn(command[c].queue, c)
      BY <1>11 DEF Alike, QueueAlike, QueueHas
    <3>3. task'[c].phase = task[c].phase
      BY <1>12 DEF TasksKept
    <3> QED
      BY <3>1, <3>2, <3>3 DEF EndReported, ReportIsTrue
  <2> QED
    BY <2>1, <2>2 DEF EndReported
<1>26. AtRelease'
  BY <1>1, <1>2, <1>7, <1>6, <1>9, <1>12, Homes DEF AtRelease, Places, TasksKept
<1>27. Owned'
  BY <1>1, <1>2, <1>7, <1>6, <1>9, <1>3, Homes DEF Owned, Places, Locking
<1>28. ExitIsLast'
  <2>1. ASSUME NEW e \in Commands, e # c PROVE ExitComesLast(e)'
    BY <2>1, <1>14, UndisturbedKept
  <2>2. ExitComesLast(c)'
    <3>1. mine'[c] \notin Sandboxes
      BY <1>7
    <3>2. ExitLast(command'[c].queue, c)
      BY <1>11 DEF Alike, QueueAlike
    <3> QED
      BY <3>1, <3>2 DEF ExitComesLast
  <2> QED
    BY <2>1, <2>2 DEF ExitIsLast
<1>29. OwnEvents'
  BY <1>1, <1>11 DEF OwnEvents, Alike, QueueAlike, QueueTyped
<1>30. OutputCounted'
  <2>1. ASSUME NEW e \in Commands, e # c PROVE AllCounted(e)'
    BY <2>1, <1>14, UndisturbedKept
  <2>2. AllCounted(c)'
    BY <1>1, <1>2, <1>7, <1>6, <1>9, <1>11, <1>12, Homes
      DEF OutputCounted, Places, Alike, QueueAlike, QueueOuts, TasksKept, AllCounted
  <2> QED
    BY <2>1, <2>2 DEF OutputCounted
<1>31. SeenWasMade'
  BY <1>1, <1>11, Fields DEF SeenWasMade, Alike
<1>32. ExitSettled'
  BY <1>1, <1>11, <1>2, <1>12 DEF ExitSettled, Places, Alike, TasksKept
<1> QED
  BY <1>15, <1>16, <1>17, <1>18, <1>21, <1>22, <1>23, <1>24, <1>25, <1>26, <1>27, <1>28, <1>29,
     <1>30, <1>31, <1>32

\* A sandbox that a call took out of the pool is stopped; the call returns.
LEMMA KeptByStoppedDiscarded ==
  ASSUME IInv, NEW c \in Commands, Stopped(c), poolLock # c
  PROVE  IInv'
<1> USE Names DEF IInv
<1>1. pc[c] = "dying" /\ mine[c] \in Sandboxes /\ sandbox[mine[c]].process = "dead"
  BY DEF Stopped, At, Go, Of, Shapes, Places
<1>2. poolLock' = poolLock /\ pool' = pool
  BY <1>1 DEF Stopped, At, Go, Of
<1>3. \A u \in Threads : pc'[u] = IF u = c THEN "release" ELSE pc[u]
  BY <1>1 DEF Stopped, At, Go, Of, Shapes
<1>4. mine' = mine
  BY <1>1 DEF Stopped, At, Go, Of, Shapes
<1>5. /\ pool' \in Sandboxes \cup {NoSandbox} /\ poolLock' \in Threads \cup {NoOne}
      /\ pc' \in [Threads -> Phases] /\ mine' \in [Threads -> Sandboxes \cup {NoSandbox}]
  BY <1>1 DEF Stopped, At, Go, Of, Shapes, Phases
<1>6. sandbox' \in [Sandboxes -> Sandbox] /\ SandboxesKept
  BY DEF Stopped, At, Go, Of, Shapes, SandboxesKept
<1>7. command' \in [Commands -> AnyCommand] /\ CommandsKept
  BY DEF Stopped, At, Go, Of, Shapes, CommandsKept
<1>8. Alike
  BY <1>7, NotedIsAlike
<1>9. task' \in [Commands -> Task] /\ TasksKept
  BY DEF Stopped, At, Go, Of, Shapes, TasksKept
<1>10. Shapes'
  BY <1>5, <1>6, <1>7, <1>9 DEF Shapes
<1>11. \A e \in Commands : e # c => Undisturbed(e)
  BY <1>3, <1>4, <1>6, <1>8, <1>9, ChannelKept DEF Undisturbed, Alike, TasksKept
<1>12. QueuesFit'
  BY <1>1, <1>8 DEF QueuesFit, Alike, QueueAlike, QueueTyped
<1>13. Places'
  BY <1>1, <1>3, <1>4 DEF Places
<1>14. Locking'
  BY <1>1, <1>3, <1>2 DEF Locking, Places
<1>15. NothingYet'
  BY <1>1, <1>3, <1>2, <1>9, <1>8, <1>6, <1>4
    DEF NothingYet, Unsent, Locking, Places, SandboxesKept, Alike, QueueAlike, QueueHas,
         TasksKept
<1>16. RegisteredIsMine'
  BY <1>1, <1>3, <1>4, <1>6, Homes DEF RegisteredIsMine, Places, SandboxesKept
<1>17. RunOnce'
  <2>1. ASSUME NEW e \in Commands, e # c PROVE StartsOnce(e)'
    BY <2>1, <1>11, UndisturbedKept
  <2>2. StartsOnce(c)'
    BY <1>1, <1>4, <1>6, <1>9, <1>3, Homes DEF RunOnce, SandboxesKept, TasksKept, StartsOnce
  <2> QED
    BY <2>1, <2>2 DEF RunOnce
<1>18. LivesRuns'
  BY <1>1, <1>4, <1>6, <1>9, <1>3, Homes DEF LivesRuns, SandboxesKept, TasksKept
<1>19. EndReported'
  <2>1. ASSUME NEW e \in Commands, e # c PROVE ReportIsTrue(e)'
    BY <2>1, <1>11, UndisturbedKept
  <2>2. ReportIsTrue(c)'
    BY <1>1, <1>4, <1>6, <1>9, <1>8, <1>3, Homes
      DEF EndReported, SandboxesKept, Alike, QueueAlike, QueueHas, TasksKept, ReportIsTrue
  <2> QED
    BY <2>1, <2>2 DEF EndReported
<1>20. AtRelease'
  BY <1>1, <1>3, <1>4, <1>6, <1>9, Homes DEF AtRelease, Places, SandboxesKept, TasksKept
<1>21. Owned'
  BY <1>1, <1>3, <1>4, <1>6, <1>2, Homes DEF Owned, Places, Locking, SandboxesKept
<1>22. ExitIsLast'
  <2>1. ASSUME NEW e \in Commands, e # c PROVE ExitComesLast(e)'
    BY <2>1, <1>11, UndisturbedKept
  <2>2. ExitComesLast(c)'
    BY <1>1, <1>4, <1>6, <1>8, <1>3, Homes
      DEF ExitIsLast, SandboxesKept, Alike, QueueAlike, QueueHas, ExitComesLast
  <2> QED
    BY <2>1, <2>2 DEF ExitIsLast
<1>23. OwnEvents'
  BY <1>1, <1>8 DEF OwnEvents, Alike, QueueAlike, QueueTyped
<1>24. OutputCounted'
  <2>1. ASSUME NEW e \in Commands, e # c PROVE AllCounted(e)'
    BY <2>1, <1>11, UndisturbedKept
  <2>2. AllCounted(c)'
    BY <1>1, <1>3, <1>4, <1>6, <1>8, <1>9, Homes
      DEF OutputCounted, Places, SandboxesKept, Alike, QueueAlike, QueueOuts, TasksKept,
           AllCounted
  <2> QED
    BY <2>1, <2>2 DEF OutputCounted
<1>25. SeenWasMade'
  BY <1>1, <1>8, Fields DEF SeenWasMade, Alike
<1>26. ExitSettled'
  BY <1>1, <1>8, <1>3, <1>9 DEF ExitSettled, Places, Alike, TasksKept
<1> QED
  BY <1>10, <1>12, <1>13, <1>14, <1>15, <1>16, <1>17, <1>18, <1>19, <1>20, <1>21, <1>22, <1>23,
     <1>24, <1>25, <1>26

\* The sandbox of the pool is stopped at the shutdown.
LEMMA KeptByStoppedCloser ==
  ASSUME IInv, Stopped(Closer)
  PROVE  IInv'
<1> USE Names DEF IInv
<1>1. /\ pc[Closer] = "dying" /\ mine[Closer] \in Sandboxes
      /\ sandbox[mine[Closer]].process = "dead"
      /\ poolLock # Closer
  BY DEF Stopped, At, Go, Of, Shapes, Places, Locking
<1>2. \A u \in Threads : pc'[u] = IF u = Closer THEN "done" ELSE pc[u]
  BY <1>1 DEF Stopped, At, Go, Of, Shapes
<1>3. poolLock' = poolLock /\ pool' = pool
  BY <1>1, <1>2 DEF Stopped, At, Go, Of
<1>4. /\ pool' \in Sandboxes \cup {NoSandbox} /\ poolLock' \in Threads \cup {NoOne}
      /\ pc' \in [Threads -> Phases]
  BY <1>1 DEF Stopped, At, Go, Of, Shapes, Phases
<1>5. Forget(Closer)
  BY <1>1 DEF Stopped, At, Go, Of
<1>6. /\ sandbox' \in [Sandboxes -> Sandbox]
      /\ Closer \notin sandbox'[mine[Closer]].registered
      /\ \A u \in Sandboxes :
           /\ sandbox'[u].process = "up" => sandbox[u].process = "up"
           /\ sandbox'[u].registered \subseteq sandbox[u].registered
  BY <1>5, <1>1, ForgetDoes
<1>7. /\ mine' \in [Threads -> Sandboxes \cup {NoSandbox}]
      /\ \A u \in Threads : mine'[u] = IF u = Closer THEN NoSandbox ELSE mine[u]
  BY <1>5, <1>1, ForgetDoes
<1>8. \A u \in Sandboxes, d \in Commands :
        /\ About(sandbox'[u].control, d) => About(sandbox[u].control, d)
        /\ About(sandbox'[u].pipe, d) => About(sandbox[u].pipe, d)
  BY <1>5, <1>1, ForgetDoes
<1>9. \A u \in Threads : u # Closer /\ mine[u] \in Sandboxes =>
        /\ sandbox'[mine[u]].process = sandbox[mine[u]].process
        /\ sandbox'[mine[u]].control = sandbox[mine[u]].control
        /\ sandbox'[mine[u]].pipe = sandbox[mine[u]].pipe
        /\ u \in sandbox[mine[u]].registered => u \in sandbox'[mine[u]].registered
  BY <1>5, <1>1, ForgetDoes
<1>10. command' \in [Commands -> AnyCommand] /\ CommandsKept
  BY DEF Stopped, At, Go, Of, Shapes, CommandsKept
<1>11. Alike
  BY <1>10, NotedIsAlike
<1>12. task' \in [Commands -> Task] /\ TasksKept
  BY DEF Stopped, At, Go, Of, Shapes, TasksKept
<1>13. \A e \in Commands : mine[e] \in Sandboxes => ChannelAlike(e)
  BY <1>9 DEF ChannelAlike
<1>14. \A e \in Commands : Undisturbed(e)
  BY <1>2, <1>7, <1>11, <1>12, <1>13 DEF Undisturbed, Alike, TasksKept
<1>15. Shapes'
  BY <1>4, <1>6, <1>7, <1>10, <1>12 DEF Shapes
<1>16. QueuesFit'
  BY <1>1, <1>11 DEF QueuesFit, Alike, QueueAlike, QueueTyped
<1>17. Places'
  BY <1>1, <1>2, <1>7 DEF Places
<1>18. Locking'
  BY <1>1, <1>2, <1>3 DEF Locking, Places
<1>19. \A d \in Commands : Unsent(d)' => Unsent(d)
  BY <1>1, <1>2, <1>3 DEF Unsent, Locking, Places
<1>20. \A d \in Commands : Unsent(d) =>
         \A u \in Sandboxes : /\ About(sandbox'[u].control, d) => About(sandbox[u].control, d)
                              /\ About(sandbox'[u].pipe, d) => About(sandbox[u].pipe, d)
  BY <1>8
<1>21. NothingYet'
  <2>1. ASSUME NEW d \in Commands, Unsent(d)'
        PROVE  /\ Unsent(d) /\ QueueHas(d) /\ command'[d].seen = command[d].seen
               /\ task'[d].phase = task[d].phase /\ task'[d].made = task[d].made
               /\ task'[d].lives => task[d].lives
               /\ \A u \in Sandboxes :
                    /\ About(sandbox'[u].control, d) => About(sandbox[u].control, d)
                    /\ About(sandbox'[u].pipe, d) => About(sandbox[u].pipe, d)
    <3>1. Unsent(d)
      BY <2>1, <1>19
    <3>2. QueueHas(d) /\ command'[d].seen = command[d].seen
      BY <3>1, <1>11 DEF Alike, QueueAlike
    <3>3. /\ task'[d].phase = task[d].phase /\ task'[d].made = task[d].made
          /\ task'[d].lives => task[d].lives
      BY <3>1, <1>12 DEF TasksKept
    <3>4. \A u \in Sandboxes :
             /\ About(sandbox'[u].control, d) => About(sandbox[u].control, d)
             /\ About(sandbox'[u].pipe, d) => About(sandbox[u].pipe, d)
      BY <3>1, <1>20
    <3> QED
      BY <3>1, <3>2, <3>3, <3>4
  <2> QED
    BY <2>1, NothingYetKept
<1>22. RegisteredIsMine'
  <2>1. ASSUME NEW u \in Sandboxes, NEW d \in sandbox'[u].registered PROVE mine'[d] = u
    <3>1. d \in sandbox[u].registered
      BY <2>1, <1>6
    <3>2. d \in Commands
      BY <3>1, Homes
    <3>3. mine[d] = u
      BY <3>1 DEF RegisteredIsMine
    <3>4. d # Closer
      BY <2>1, <3>3, <1>6
    <3> QED
      BY <3>2, <3>3, <3>4, <1>7
  <2>2. ASSUME NEW d \in Commands, pc'[d] \in {"send", "wait"}
        PROVE  d \in sandbox'[mine'[d]].registered
    <3>1. d # Closer /\ pc[d] \in {"send", "wait"}
      BY <2>2, <1>2
    <3>2. mine[d] \in Sandboxes /\ d \in sandbox[mine[d]].registered
      BY <3>1, Homes DEF RegisteredIsMine
    <3> QED
      BY <3>1, <3>2, <1>7, <1>9
  <2> QED
    BY <2>1, <2>2 DEF RegisteredIsMine
<1>23. RunOnce'
  BY <1>14, UndisturbedKept DEF RunOnce
<1>24. LivesRuns'
  BY <1>1, <1>7, <1>6, <1>9, <1>12, <1>2, Homes DEF LivesRuns, TasksKept
<1>25. EndReported'
  BY <1>14, UndisturbedKept DEF EndReported
<1>26. AtRelease'
  BY <1>1, <1>2, <1>7, <1>6, <1>9, <1>12, Homes DEF AtRelease, Places, TasksKept
<1>27. Owned'
  BY <1>1, <1>2, <1>7, <1>6, <1>9, <1>3, Homes DEF Owned, Places, Locking
<1>28. ExitIsLast'
  BY <1>14, UndisturbedKept DEF ExitIsLast
<1>29. OwnEvents'
  BY <1>1, <1>11 DEF OwnEvents, Alike, QueueAlike, QueueTyped
<1>30. OutputCounted'
  BY <1>14, UndisturbedKept DEF OutputCounted
<1>31. SeenWasMade'
  BY <1>1, <1>11, Fields DEF SeenWasMade, Alike
<1>32. ExitSettled'
  BY <1>1, <1>11, <1>2, <1>12 DEF ExitSettled, Places, Alike, TasksKept
<1> QED
  BY <1>15, <1>16, <1>17, <1>18, <1>21, <1>22, <1>23, <1>24, <1>25, <1>26, <1>27, <1>28, <1>29,
     <1>30, <1>31, <1>32

\* The process of a sandbox ends, and every process in it.
LEMMA KeptByEnded ==
  ASSUME IInv, NEW s \in Sandboxes, Ended(s)
  PROVE  IInv'
<1> USE Names DEF IInv
<1>1. sandbox[s].process = "up"
  BY DEF Ended, At, Go, Of, Shapes, Places
<1>2. poolLock' = poolLock /\ pool' = pool
  BY <1>1 DEF Ended, At, Go, Of
<1>3. pc' = pc
  BY <1>1 DEF Ended, At, Go, Of, Shapes
<1>4. mine' = mine
  BY <1>1 DEF Ended, At, Go, Of, Shapes
<1>5. /\ pool' \in Sandboxes \cup {NoSandbox} /\ poolLock' \in Threads \cup {NoOne}
      /\ pc' \in [Threads -> Phases] /\ mine' \in [Threads -> Sandboxes \cup {NoSandbox}]
  BY <1>1 DEF Ended, At, Go, Of, Shapes, Phases
<1>6. /\ sandbox' \in [Sandboxes -> Sandbox] /\ sandbox'[s].process = "dead"
      /\ \A u \in Sandboxes : u # s => sandbox'[u] = sandbox[u]
      /\ \A u \in Sandboxes :
           /\ sandbox'[u].control = sandbox[u].control /\ sandbox'[u].pipe = sandbox[u].pipe
           /\ sandbox'[u].registered = sandbox[u].registered
  <2> DEFINE r == [sandbox[s] EXCEPT !.process = "dead", !.background = {}]
  <2>1. /\ r \in Sandbox /\ r.process = "dead" /\ r.control = sandbox[s].control
        /\ r.pipe = sandbox[s].pipe /\ r.registered = sandbox[s].registered
    BY DEF Shapes, Sandbox
  <2>2. sandbox' = [sandbox EXCEPT ![s] = r]
    BY DEF Ended
  <2> HIDE DEF r
  <2> QED
    BY <2>1, <2>2 DEF Shapes
<1>7. command' \in [Commands -> AnyCommand] /\ CommandsKept
  BY DEF Ended, At, Go, Of, Shapes, CommandsKept
<1>8. Alike
  BY <1>7, NotedIsAlike
<1>9. /\ task' \in [Commands -> Task]
      /\ \A d \in Commands :
           /\ task'[d].phase = task[d].phase /\ task'[d].made = task[d].made
           /\ task'[d].lives => task[d].lives /\ mine[d] # s
  <2>1. task' = [d \in Commands |-> IF mine[d] = s THEN [task[d] EXCEPT !.lives = FALSE]
                ELSE task[d]]
    BY DEF Ended
  <2>2. ASSUME NEW d \in Commands
        PROVE  /\ task'[d] \in Task
               /\ task'[d].phase = task[d].phase /\ task'[d].made = task[d].made
               /\ task'[d].lives => task[d].lives /\ mine[d] # s
    <3> DEFINE r == [task[d] EXCEPT !.lives = FALSE]
    <3>1. r \in Task /\ r.phase = task[d].phase /\ r.made = task[d].made /\ ~r.lives
      BY DEF Shapes, Task
    <3>2. task'[d] = IF mine[d] = s THEN r ELSE task[d]
      BY <2>1
    <3> HIDE DEF r
    <3> QED
      BY <3>1, <3>2 DEF Shapes
  <2> QED
    BY <2>1, <2>2
<1>10. TasksKept
  BY <1>9 DEF TasksKept
<1>11. \A e \in Commands : mine[e] \in Sandboxes => ChannelAlike(e)
  BY <1>6 DEF ChannelAlike
<1>12. \A e \in Commands : Undisturbed(e)
  BY <1>3, <1>4, <1>8, <1>10, <1>11 DEF Undisturbed, Alike, TasksKept
<1>13. Shapes'
  BY <1>5, <1>6, <1>7, <1>9 DEF Shapes
<1>14. QueuesFit'
  BY <1>1, <1>8 DEF QueuesFit, Alike, QueueAlike, QueueTyped
<1>15. Places'
  BY <1>1, <1>3, <1>4 DEF Places
<1>16. Locking'
  BY <1>1, <1>3, <1>2 DEF Locking, Places
<1>17. \A d \in Commands : Unsent(d)' => Unsent(d)
  BY <1>1, <1>3, <1>2 DEF Unsent, Locking, Places
<1>18. \A d \in Commands : Unsent(d) =>
         \A u \in Sandboxes : /\ About(sandbox'[u].control, d) => About(sandbox[u].control, d)
                              /\ About(sandbox'[u].pipe, d) => About(sandbox[u].pipe, d)
  BY <1>6
<1>19. NothingYet'
  <2>1. ASSUME NEW d \in Commands, Unsent(d)'
        PROVE  /\ Unsent(d) /\ QueueHas(d) /\ command'[d].seen = command[d].seen
               /\ task'[d].phase = task[d].phase /\ task'[d].made = task[d].made
               /\ task'[d].lives => task[d].lives
               /\ \A u \in Sandboxes :
                    /\ About(sandbox'[u].control, d) => About(sandbox[u].control, d)
                    /\ About(sandbox'[u].pipe, d) => About(sandbox[u].pipe, d)
    <3>1. Unsent(d)
      BY <2>1, <1>17
    <3>2. QueueHas(d) /\ command'[d].seen = command[d].seen
      BY <3>1, <1>8 DEF Alike, QueueAlike
    <3>3. /\ task'[d].phase = task[d].phase /\ task'[d].made = task[d].made
          /\ task'[d].lives => task[d].lives
      BY <3>1, <1>10 DEF TasksKept
    <3>4. \A u \in Sandboxes :
             /\ About(sandbox'[u].control, d) => About(sandbox[u].control, d)
             /\ About(sandbox'[u].pipe, d) => About(sandbox[u].pipe, d)
      BY <3>1, <1>18
    <3> QED
      BY <3>1, <3>2, <3>3, <3>4
  <2> QED
    BY <2>1, NothingYetKept
<1>20. RegisteredIsMine'
  BY <1>1, <1>3, <1>4, <1>6, Homes DEF RegisteredIsMine, Places
<1>21. RunOnce'
  BY <1>12, UndisturbedKept DEF RunOnce
<1>22. LivesRuns'
  BY <1>1, <1>4, <1>6, <1>10, <1>3, Homes, <1>9 DEF LivesRuns, TasksKept
<1>23. EndReported'
  BY <1>12, UndisturbedKept DEF EndReported
<1>24. AtRelease'
  BY <1>1, <1>3, <1>4, <1>6, <1>10, Homes DEF AtRelease, Places, TasksKept
<1>25. Owned'
  BY <1>1, <1>3, <1>4, <1>6, <1>2, Homes DEF Owned, Places, Locking
<1>26. ExitIsLast'
  BY <1>12, UndisturbedKept DEF ExitIsLast
<1>27. OwnEvents'
  BY <1>1, <1>8 DEF OwnEvents, Alike, QueueAlike, QueueTyped
<1>28. OutputCounted'
  BY <1>12, UndisturbedKept DEF OutputCounted
<1>29. SeenWasMade'
  BY <1>1, <1>8, Fields DEF SeenWasMade, Alike
<1>30. ExitSettled'
  BY <1>1, <1>8, <1>3, <1>10 DEF ExitSettled, Places, Alike, TasksKept
<1> QED
  BY <1>13, <1>14, <1>15, <1>16, <1>19, <1>20, <1>21, <1>22, <1>23, <1>24, <1>25, <1>26, <1>27,
     <1>28, <1>29, <1>30

\* A shutdown that finds no sandbox.
LEMMA KeptByShutdownIdle ==
  ASSUME IInv, Shutdown, pool = NoSandbox
  PROVE  IInv'
<1> USE Names DEF IInv
<1>1. pc[Closer] = "idle" /\ poolLock = NoOne
  BY DEF Shutdown, At, Go, Of, Shapes, Places
<1>2. poolLock' = poolLock /\ pool' = pool
  BY <1>1 DEF Shutdown, At, Go, Of
<1>3. \A u \in Threads : pc'[u] = IF u = Closer THEN "done" ELSE pc[u]
  BY <1>1 DEF Shutdown, At, Go, Of, Shapes
<1>4. mine' = mine
  BY <1>1 DEF Shutdown, At, Go, Of, Shapes
<1>5. /\ pool' \in Sandboxes \cup {NoSandbox} /\ poolLock' \in Threads \cup {NoOne}
      /\ pc' \in [Threads -> Phases] /\ mine' \in [Threads -> Sandboxes \cup {NoSandbox}]
  BY <1>1 DEF Shutdown, At, Go, Of, Shapes, Phases
<1>6. sandbox' \in [Sandboxes -> Sandbox] /\ SandboxesKept
  BY DEF Shutdown, At, Go, Of, Shapes, SandboxesKept
<1>7. command' \in [Commands -> AnyCommand] /\ CommandsKept
  BY DEF Shutdown, At, Go, Of, Shapes, CommandsKept
<1>8. Alike
  BY <1>7, NotedIsAlike
<1>9. task' \in [Commands -> Task] /\ TasksKept
  BY DEF Shutdown, At, Go, Of, Shapes, TasksKept
<1>10. Shapes'
  BY <1>5, <1>6, <1>7, <1>9 DEF Shapes
<1>11. QueuesFit'
  BY <1>1, <1>8 DEF QueuesFit, Alike, QueueAlike, QueueTyped
<1>12. Places'
  BY <1>1, <1>3, <1>4 DEF Places
<1>13. Locking'
  BY <1>1, <1>3, <1>2 DEF Locking, Places
<1>14. NothingYet'
  BY <1>1, <1>3, <1>2, <1>9, <1>8, <1>6, <1>4
    DEF NothingYet, Unsent, Locking, Places, SandboxesKept, Alike, QueueAlike, QueueHas,
         TasksKept
<1>15. RegisteredIsMine'
  BY <1>1, <1>3, <1>4, <1>6, Homes DEF RegisteredIsMine, Places, SandboxesKept
<1>16. RunOnce'
  BY <1>1, <1>4, <1>6, <1>9, <1>3, Homes DEF RunOnce, SandboxesKept, TasksKept, StartsOnce
<1>17. LivesRuns'
  BY <1>1, <1>4, <1>6, <1>9, <1>3, Homes DEF LivesRuns, SandboxesKept, TasksKept
<1>18. EndReported'
  <2> SUFFICES ASSUME NEW e \in Commands PROVE ReportIsTrue(e)'
    BY DEF EndReported
  <2>1. mine'[e] = mine[e] /\ task'[e].phase = task[e].phase /\ QueueHas(e)
    BY <1>1, <1>4, <1>6, <1>9, <1>8, <1>3 DEF Alike, QueueAlike, TasksKept
  <2>2. mine[e] \in Sandboxes => sandbox'[mine[e]].pipe = sandbox[mine[e]].pipe
    BY <1>1, <1>4, <1>6, <1>9, <1>8, <1>3 DEF SandboxesKept
  <2> QED
    BY <2>1, <2>2, ReportKept
<1>19. AtRelease'
  BY <1>1, <1>3, <1>4, <1>6, <1>9, Homes DEF AtRelease, Places, SandboxesKept, TasksKept
<1>20. Owned'
  BY <1>1, <1>3, <1>4, <1>6, <1>2, Homes DEF Owned, Places, Locking, SandboxesKept
<1>21. ExitIsLast'
  BY <1>1, <1>4, <1>6, <1>8, <1>3, Homes
    DEF ExitIsLast, SandboxesKept, Alike, QueueAlike, QueueHas, ExitComesLast
<1>22. OwnEvents'
  BY <1>1, <1>8 DEF OwnEvents, Alike, QueueAlike, QueueTyped
<1>23. OutputCounted'
  BY <1>1, <1>3, <1>4, <1>6, <1>8, <1>9, Homes
    DEF OutputCounted, Places, SandboxesKept, Alike, QueueAlike, QueueOuts, TasksKept,
         AllCounted
<1>24. SeenWasMade'
  BY <1>1, <1>8, Fields DEF SeenWasMade, Alike
<1>25. ExitSettled'
  BY <1>1, <1>8, <1>3, <1>9 DEF ExitSettled, Places, Alike, TasksKept
<1> QED
  BY <1>10, <1>11, <1>12, <1>13, <1>14, <1>15, <1>16, <1>17, <1>18, <1>19, <1>20, <1>21, <1>22,
     <1>23, <1>24, <1>25

\* A shutdown takes the sandbox out of the pool to stop it.
LEMMA KeptByShutdownStops ==
  ASSUME IInv, Shutdown, pool # NoSandbox
  PROVE  IInv'
<1> USE Names DEF IInv
<1>1. pc[Closer] = "idle" /\ poolLock = NoOne /\ pool \in Sandboxes
  BY DEF Shutdown, At, Go, Of, Shapes, Places
<1>2. poolLock' = poolLock /\ pool' = NoSandbox
  BY <1>1 DEF Shutdown, At, Go, Of
<1>3. \A u \in Threads : pc'[u] = IF u = Closer THEN "closing" ELSE pc[u]
  BY <1>1 DEF Shutdown, At, Go, Of, Shapes
<1>4. \A u \in Threads : mine'[u] = IF u = Closer THEN pool ELSE mine[u]
  BY <1>1 DEF Shutdown, At, Go, Of, Shapes
<1>5. /\ pool' \in Sandboxes \cup {NoSandbox} /\ poolLock' \in Threads \cup {NoOne}
      /\ pc' \in [Threads -> Phases] /\ mine' \in [Threads -> Sandboxes \cup {NoSandbox}]
  BY <1>1 DEF Shutdown, At, Go, Of, Shapes, Phases
<1>6. MarkLost(pool)
  BY <1>1 DEF Shutdown, At, Go, Of
<1>7. /\ sandbox' \in [Sandboxes -> Sandbox] /\ SandboxesKept
      /\ command' \in [Commands -> AnyCommand] /\ Noted
  BY <1>1, <1>6, MarkLostDoes
<1>8. Alike
  BY <1>7, NotedIsAlike
<1>9. task' \in [Commands -> Task] /\ TasksKept
  BY DEF Shutdown, At, Go, Of, Shapes, TasksKept
<1>10. \A e \in Commands : mine[e] \in Sandboxes => ChannelAlike(e)
  BY <1>7, ChannelKept
<1>11. \A e \in Commands : Undisturbed(e)
  BY <1>3, <1>4, <1>8, <1>9, <1>10 DEF Undisturbed, Alike, TasksKept
<1>12. Shapes'
  BY <1>5, <1>7, <1>9 DEF Shapes
<1>13. QueuesFit'
  BY <1>1, <1>8 DEF QueuesFit, Alike, QueueAlike, QueueTyped
<1>14. Places'
  BY <1>1, <1>3, <1>4 DEF Places
<1>15. Locking'
  BY <1>1, <1>3, <1>2 DEF Locking, Places
<1>16. NothingYet'
  BY <1>1, <1>3, <1>2, <1>9, <1>8, <1>7, <1>4
    DEF NothingYet, Unsent, Locking, Places, SandboxesKept, Alike, QueueAlike, QueueHas,
         TasksKept
<1>17. RegisteredIsMine'
  BY <1>1, <1>3, <1>4, <1>7, Homes DEF RegisteredIsMine, Places, SandboxesKept
<1>18. RunOnce'
  BY <1>11, UndisturbedKept DEF RunOnce
<1>19. LivesRuns'
  BY <1>1, <1>4, <1>7, <1>9, <1>3, Homes DEF LivesRuns, SandboxesKept, TasksKept
<1>20. EndReported'
  BY <1>11, UndisturbedKept DEF EndReported
<1>21. AtRelease'
  BY <1>1, <1>3, <1>4, <1>7, <1>9, Homes DEF AtRelease, Places, SandboxesKept, TasksKept
<1>22. Owned'
  BY <1>1, <1>3, <1>4, <1>7, <1>2, Homes DEF Owned, Places, Locking, SandboxesKept
<1>23. ExitIsLast'
  BY <1>11, UndisturbedKept DEF ExitIsLast
<1>24. OwnEvents'
  BY <1>1, <1>8 DEF OwnEvents, Alike, QueueAlike, QueueTyped
<1>25. OutputCounted'
  BY <1>11, UndisturbedKept DEF OutputCounted
<1>26. SeenWasMade'
  BY <1>1, <1>8, Fields DEF SeenWasMade, Alike
<1>27. ExitSettled'
  BY <1>1, <1>8, <1>3, <1>9 DEF ExitSettled, Places, Alike, TasksKept
<1> QED
  BY <1>12, <1>13, <1>14, <1>15, <1>16, <1>17, <1>18, <1>19, <1>20, <1>21, <1>22, <1>23, <1>24,
     <1>25, <1>26, <1>27

-----------------------------------------------------------------------------
(* Steps of the sandbox and of its reader. *)

\* The next message that the worker reads starts a command of this sandbox.
Starts(s) ==
  /\ mine[Head(sandbox[s].control)[1]] = s
  /\ Head(sandbox[s].control)[2] = "run"

\* The worker reads a kill, or a command of nobody here.
LEMMA KeptByReadControlOther ==
  ASSUME IInv, NEW s \in Sandboxes, ReadControl(s), ~Starts(s)
  PROVE  IInv'
<1> USE Names DEF IInv
<1>1. sandbox[s].process = "up" /\ sandbox[s].control # <<>>
  BY DEF ReadControl, At, Go, Of, Shapes, Places
<1>2. /\ sandbox' \in [Sandboxes -> Sandbox]
      /\ \A u \in Sandboxes : u # s => sandbox'[u] = sandbox[u]
      /\ sandbox'[s].process = sandbox[s].process /\ sandbox'[s].pipe = sandbox[s].pipe
      /\ sandbox'[s].registered = sandbox[s].registered
      /\ sandbox'[s].control = Tail(sandbox[s].control)
  BY <1>1, ControlTyped
<1>3. /\ Head(sandbox[s].control) \in Commands \X {"run", "kill"}
      /\ About(sandbox[s].control, Head(sandbox[s].control)[1])
  BY <1>1, ControlTaken
<1>4. \A d \in Commands :
        /\ Has(sandbox'[s].control, <<d, "run">>) => Has(sandbox[s].control, <<d, "run">>)
        /\ Head(sandbox[s].control) = <<d, "run">> => Has(sandbox[s].control, <<d, "run">>)
        /\ About(sandbox'[s].control, d) => About(sandbox[s].control, d)
        /\ Once(sandbox[s].control, <<d, "run">>) =>
             /\ Once(sandbox'[s].control, <<d, "run">>)
             /\ Head(sandbox[s].control) = <<d, "run">>
                    => ~Has(sandbox'[s].control, <<d, "run">>)
  <2> DEFINE r == Tail(sandbox[s].control)
  <2>1. sandbox'[s].control = r
    BY <1>2
  <2>2. \A d \in Commands :
          /\ Has(r, <<d, "run">>) => Has(sandbox[s].control, <<d, "run">>)
          /\ Head(sandbox[s].control) = <<d, "run">> => Has(sandbox[s].control, <<d, "run">>)
          /\ About(r, d) => About(sandbox[s].control, d)
          /\ Once(sandbox[s].control, <<d, "run">>) =>
               /\ Once(r, <<d, "run">>)
               /\ Head(sandbox[s].control) = <<d, "run">> => ~Has(r, <<d, "run">>)
    BY <1>1, ControlTaken
  <2> HIDE DEF r
  <2> QED
    BY <2>1, <2>2
<1>5. \A e \in Commands : mine[e] \in Sandboxes => ChannelAlike(e)
  <2> SUFFICES ASSUME NEW e \in Commands, mine[e] \in Sandboxes PROVE ChannelAlike(e)
    OBVIOUS
  <2>1. CASE mine[e] = s
    BY <2>1, <1>2, <1>4 DEF ChannelAlike
  <2>2. CASE mine[e] # s
    BY <2>2, <1>2 DEF ChannelAlike
  <2> QED
    BY <2>1, <2>2
<1>6. poolLock' = poolLock /\ pool' = pool
  BY <1>1 DEF ReadControl, At, Go, Of
<1>7. pc' = pc
  BY <1>1 DEF ReadControl, At, Go, Of, Shapes
<1>8. mine' = mine
  BY <1>1 DEF ReadControl, At, Go, Of, Shapes
<1>9. /\ pool' \in Sandboxes \cup {NoSandbox} /\ poolLock' \in Threads \cup {NoOne}
      /\ pc' \in [Threads -> Phases] /\ mine' \in [Threads -> Sandboxes \cup {NoSandbox}]
  BY <1>1 DEF ReadControl, At, Go, Of, Shapes, Phases
<1>10. command' \in [Commands -> AnyCommand] /\ CommandsKept
  BY DEF ReadControl, At, Go, Of, Shapes, CommandsKept
<1>11. Alike
  BY <1>10, NotedIsAlike
<1>12. PICK c \in Commands, k \in {"run", "kill"} : Head(sandbox[s].control) = <<c, k>>
  BY <1>3
<1>13. mine[c] # s \/ k # "run"
  BY <1>12 DEF Starts
<1>14. task' \in [Commands -> Task] /\ TasksKept
  <2> DEFINE r == IF mine[c] # s THEN task[c]
                  ELSE IF task[c].phase = "running" THEN [task[c] EXCEPT !.lives = FALSE]
                  ELSE [task[c] EXCEPT !.early = KillEarly(c)]
  <2>1. task' = [task EXCEPT ![c] = r]
    <3>1. task' = [task EXCEPT ![c] =
                IF mine[c] # s THEN @
                ELSE IF k = "run" THEN [@ EXCEPT !.phase = "starting"]
                ELSE IF @.phase = "running" THEN [@ EXCEPT !.lives = FALSE]
                ELSE [@ EXCEPT !.early = KillEarly(c)]]
      <4>1. Head(sandbox[s].control)[1] = c /\ Head(sandbox[s].control)[2] = k
        BY <1>12
      <4> QED
        BY <4>1 DEF ReadControl
    <3> QED
      BY <3>1, <1>13
  <2>2. KillEarly(c) \in BOOLEAN
    BY DEF KillEarly
  <2>3. /\ r \in Task /\ r.phase = task[c].phase /\ r.made = task[c].made
        /\ r.lives => task[c].lives
    BY <2>2 DEF Shapes, Task
  <2> HIDE DEF r
  <2>4. /\ task' \in [Commands -> Task] /\ task'[c] = r
        /\ \A d \in Commands : d # c => task'[d] = task[d]
    BY <2>1, <2>3, TaskTyped
  <2> QED
    BY <2>3, <2>4 DEF TasksKept
<1>15. \A e \in Commands : Undisturbed(e)
  BY <1>7, <1>8, <1>11, <1>14, <1>5 DEF Undisturbed, Alike, TasksKept
<1>16. Shapes'
  BY <1>2, <1>9, <1>10, <1>14 DEF Shapes
<1>17. QueuesFit'
  BY <1>1, <1>11 DEF QueuesFit, Alike, QueueAlike, QueueTyped
<1>18. Places'
  BY <1>1, <1>7, <1>8 DEF Places
<1>19. Locking'
  BY <1>1, <1>7, <1>6 DEF Locking, Places
<1>20. \A d \in Commands : Unsent(d)' => Unsent(d)
  BY <1>1, <1>7, <1>6 DEF Unsent, Locking, Places
<1>21. \A d \in Commands : Unsent(d) =>
         \A u \in Sandboxes : /\ About(sandbox'[u].control, d) => About(sandbox[u].control, d)
                              /\ About(sandbox'[u].pipe, d) => About(sandbox[u].pipe, d)
  <2> SUFFICES ASSUME NEW d \in Commands, NEW u \in Sandboxes
               PROVE  /\ About(sandbox'[u].control, d) => About(sandbox[u].control, d)
                      /\ About(sandbox'[u].pipe, d) => About(sandbox[u].pipe, d)
    OBVIOUS
  <2>1. CASE u = s
    BY <1>2, <1>4, <2>1
  <2>2. CASE u # s
    BY <1>2, <2>2
  <2> QED
    BY <2>1, <2>2
<1>22. NothingYet'
  <2>1. ASSUME NEW d \in Commands, Unsent(d)'
        PROVE  /\ Unsent(d) /\ QueueHas(d) /\ command'[d].seen = command[d].seen
               /\ task'[d].phase = task[d].phase /\ task'[d].made = task[d].made
               /\ task'[d].lives => task[d].lives
               /\ \A u \in Sandboxes :
                    /\ About(sandbox'[u].control, d) => About(sandbox[u].control, d)
                    /\ About(sandbox'[u].pipe, d) => About(sandbox[u].pipe, d)
    <3>1. Unsent(d)
      BY <2>1, <1>20
    <3>2. QueueHas(d) /\ command'[d].seen = command[d].seen
      BY <3>1, <1>11 DEF Alike, QueueAlike
    <3>3. /\ task'[d].phase = task[d].phase /\ task'[d].made = task[d].made
          /\ task'[d].lives => task[d].lives
      BY <3>1, <1>14 DEF TasksKept
    <3>4. \A u \in Sandboxes :
             /\ About(sandbox'[u].control, d) => About(sandbox[u].control, d)
             /\ About(sandbox'[u].pipe, d) => About(sandbox[u].pipe, d)
      BY <3>1, <1>21
    <3> QED
      BY <3>1, <3>2, <3>3, <3>4
  <2> QED
    BY <2>1, NothingYetKept
<1>23. RegisteredIsMine'
  BY <1>1, <1>7, <1>8, <1>2, Homes DEF RegisteredIsMine, Places
<1>24. RunOnce'
  BY <1>15, UndisturbedKept DEF RunOnce
<1>25. LivesRuns'
  BY <1>1, <1>8, <1>2, <1>14, <1>7, Homes DEF LivesRuns, TasksKept
<1>26. EndReported'
  BY <1>15, UndisturbedKept DEF EndReported
<1>27. AtRelease'
  BY <1>1, <1>7, <1>8, <1>2, <1>14, Homes DEF AtRelease, Places, TasksKept
<1>28. Owned'
  BY <1>1, <1>7, <1>8, <1>2, <1>6, Homes DEF Owned, Places, Locking
<1>29. ExitIsLast'
  BY <1>15, UndisturbedKept DEF ExitIsLast
<1>30. OwnEvents'
  BY <1>1, <1>11 DEF OwnEvents, Alike, QueueAlike, QueueTyped
<1>31. OutputCounted'
  BY <1>15, UndisturbedKept DEF OutputCounted
<1>32. SeenWasMade'
  BY <1>1, <1>11, Fields DEF SeenWasMade, Alike
<1>33. ExitSettled'
  BY <1>1, <1>11, <1>7, <1>14 DEF ExitSettled, Places, Alike, TasksKept
<1> QED
  BY <1>16, <1>17, <1>18, <1>19, <1>22, <1>23, <1>24, <1>25, <1>26, <1>27, <1>28, <1>29, <1>30,
     <1>31, <1>32, <1>33

\* The worker reads a command: it was not read before.
LEMMA KeptByReadControlRun ==
  ASSUME IInv, NEW s \in Sandboxes, ReadControl(s), Starts(s)
  PROVE  IInv'
<1> USE Names DEF IInv
<1>1. sandbox[s].process = "up" /\ sandbox[s].control # <<>>
  BY DEF ReadControl, At, Go, Of, Shapes, Places
<1>2. /\ sandbox' \in [Sandboxes -> Sandbox]
      /\ \A u \in Sandboxes : u # s => sandbox'[u] = sandbox[u]
      /\ sandbox'[s].process = sandbox[s].process /\ sandbox'[s].pipe = sandbox[s].pipe
      /\ sandbox'[s].registered = sandbox[s].registered
      /\ sandbox'[s].control = Tail(sandbox[s].control)
  BY <1>1, ControlTyped
<1>3. /\ Head(sandbox[s].control) \in Commands \X {"run", "kill"}
      /\ About(sandbox[s].control, Head(sandbox[s].control)[1])
  BY <1>1, ControlTaken
<1>4. \A d \in Commands :
        /\ Has(sandbox'[s].control, <<d, "run">>) => Has(sandbox[s].control, <<d, "run">>)
        /\ Head(sandbox[s].control) = <<d, "run">> => Has(sandbox[s].control, <<d, "run">>)
        /\ About(sandbox'[s].control, d) => About(sandbox[s].control, d)
        /\ Once(sandbox[s].control, <<d, "run">>) =>
             /\ Once(sandbox'[s].control, <<d, "run">>)
             /\ Head(sandbox[s].control) = <<d, "run">>
                    => ~Has(sandbox'[s].control, <<d, "run">>)
  <2> DEFINE r == Tail(sandbox[s].control)
  <2>1. sandbox'[s].control = r
    BY <1>2
  <2>2. \A d \in Commands :
          /\ Has(r, <<d, "run">>) => Has(sandbox[s].control, <<d, "run">>)
          /\ Head(sandbox[s].control) = <<d, "run">> => Has(sandbox[s].control, <<d, "run">>)
          /\ About(r, d) => About(sandbox[s].control, d)
          /\ Once(sandbox[s].control, <<d, "run">>) =>
               /\ Once(r, <<d, "run">>)
               /\ Head(sandbox[s].control) = <<d, "run">> => ~Has(r, <<d, "run">>)
    BY <1>1, ControlTaken
  <2> HIDE DEF r
  <2> QED
    BY <2>1, <2>2
<1>5. \A e \in Commands : mine[e] \in Sandboxes => ChannelAlike(e)
  <2> SUFFICES ASSUME NEW e \in Commands, mine[e] \in Sandboxes PROVE ChannelAlike(e)
    OBVIOUS
  <2>1. CASE mine[e] = s
    BY <2>1, <1>2, <1>4 DEF ChannelAlike
  <2>2. CASE mine[e] # s
    BY <2>2, <1>2 DEF ChannelAlike
  <2> QED
    BY <2>1, <2>2
<1>6. poolLock' = poolLock /\ pool' = pool
  BY <1>1 DEF ReadControl, At, Go, Of
<1>7. pc' = pc
  BY <1>1 DEF ReadControl, At, Go, Of, Shapes
<1>8. mine' = mine
  BY <1>1 DEF ReadControl, At, Go, Of, Shapes
<1>9. /\ pool' \in Sandboxes \cup {NoSandbox} /\ poolLock' \in Threads \cup {NoOne}
      /\ pc' \in [Threads -> Phases] /\ mine' \in [Threads -> Sandboxes \cup {NoSandbox}]
  BY <1>1 DEF ReadControl, At, Go, Of, Shapes, Phases
<1>10. command' \in [Commands -> AnyCommand] /\ CommandsKept
  BY DEF ReadControl, At, Go, Of, Shapes, CommandsKept
<1>11. Alike
  BY <1>10, NotedIsAlike
<1>12. PICK c \in Commands : Head(sandbox[s].control) = <<c, "run">> /\ mine[c] = s
  BY <1>3 DEF Starts
<1>13. /\ Has(sandbox[s].control, <<c, "run">>) /\ ~Has(sandbox'[s].control, <<c, "run">>)
       /\ Once(sandbox'[s].control, <<c, "run">>)
       /\ task[c].phase = "none" /\ ~task[c].lives /\ About(sandbox[s].control, c)
  <2>1. Has(sandbox[s].control, <<c, "run">>)
    BY <1>12, <1>4
  <2>2. task[c].phase = "none" /\ Once(sandbox[s].control, <<c, "run">>)
    BY <1>12, <2>1 DEF RunOnce, StartsOnce
  <2>3. ~task[c].lives
    BY <2>2 DEF LivesRuns
  <2> QED
    BY <1>12, <1>4, <2>1, <2>2, <2>3, HasAbout
<1>14. /\ task' \in [Commands -> Task]
       /\ task'[c].phase = "starting" /\ task'[c].made = task[c].made /\ ~task'[c].lives
       /\ \A d \in Commands : d # c => task'[d] = task[d]
  <2> DEFINE r == [task[c] EXCEPT !.phase = "starting"]
  <2>1. r \in Task /\ r.phase = "starting" /\ r.made = task[c].made /\ ~r.lives
    BY <1>13 DEF Shapes, Task
  <2>2. task' = [task EXCEPT ![c] = r]
    <3>1. Head(sandbox[s].control)[1] = c /\ Head(sandbox[s].control)[2] = "run" /\ mine[c] = s
      BY <1>12
    <3> QED
      BY <3>1 DEF ReadControl
  <2> HIDE DEF r
  <2> QED
    BY <2>1, <2>2, TaskTyped
<1>15. ~Unsent(c)
  BY <1>13 DEF NothingYet
<1>16. \A e \in Commands : e # c => Undisturbed(e)
  BY <1>7, <1>8, <1>11, <1>14, <1>5 DEF Undisturbed, Alike
<1>17. Shapes'
  BY <1>2, <1>9, <1>10, <1>14 DEF Shapes
<1>18. QueuesFit'
  BY <1>1, <1>11 DEF QueuesFit, Alike, QueueAlike, QueueTyped
<1>19. Places'
  BY <1>1, <1>7, <1>8 DEF Places
<1>20. Locking'
  BY <1>1, <1>7, <1>6 DEF Locking, Places
<1>21. \A d \in Commands : Unsent(d)' => Unsent(d) /\ d # c
  BY <1>1, <1>7, <1>6, <1>15 DEF Unsent, Locking, Places
<1>22. \A d \in Commands : Unsent(d) /\ d # c =>
         \A u \in Sandboxes : /\ About(sandbox'[u].control, d) => About(sandbox[u].control, d)
                              /\ About(sandbox'[u].pipe, d) => About(sandbox[u].pipe, d)
  <2> SUFFICES ASSUME NEW d \in Commands, NEW u \in Sandboxes
               PROVE  /\ About(sandbox'[u].control, d) => About(sandbox[u].control, d)
                      /\ About(sandbox'[u].pipe, d) => About(sandbox[u].pipe, d)
    OBVIOUS
  <2>1. CASE u = s
    BY <1>2, <1>4, <2>1
  <2>2. CASE u # s
    BY <1>2, <2>2
  <2> QED
    BY <2>1, <2>2
<1>23. NothingYet'
  <2>1. ASSUME NEW d \in Commands, Unsent(d)'
        PROVE  /\ Unsent(d) /\ QueueHas(d) /\ command'[d].seen = command[d].seen
               /\ task'[d].phase = task[d].phase /\ task'[d].made = task[d].made
               /\ task'[d].lives => task[d].lives
               /\ \A u \in Sandboxes :
                    /\ About(sandbox'[u].control, d) => About(sandbox[u].control, d)
                    /\ About(sandbox'[u].pipe, d) => About(sandbox[u].pipe, d)
    <3>1. Unsent(d) /\ d # c
      BY <2>1, <1>21
    <3>2. QueueHas(d) /\ command'[d].seen = command[d].seen
      BY <3>1, <1>11 DEF Alike, QueueAlike
    <3>3. /\ task'[d].phase = task[d].phase /\ task'[d].made = task[d].made
          /\ task'[d].lives => task[d].lives
      BY <3>1, <1>14
    <3>4. \A u \in Sandboxes :
             /\ About(sandbox'[u].control, d) => About(sandbox[u].control, d)
             /\ About(sandbox'[u].pipe, d) => About(sandbox[u].pipe, d)
      BY <3>1, <1>22
    <3> QED
      BY <3>1, <3>2, <3>3, <3>4
  <2> QED
    BY <2>1, NothingYetKept
<1>24. RegisteredIsMine'
  BY <1>1, <1>7, <1>8, <1>2, Homes DEF RegisteredIsMine, Places
<1>25. RunOnce'
  <2>1. ASSUME NEW e \in Commands, e # c PROVE StartsOnce(e)'
    BY <2>1, <1>16, UndisturbedKept
  <2>2. StartsOnce(c)'
    BY <1>13, <1>12, <1>8 DEF StartsOnce
  <2> QED
    BY <2>1, <2>2 DEF RunOnce
<1>26. LivesRuns'
  BY <1>1, <1>8, <1>2, <1>14, <1>7, Homes, <1>13, <1>12 DEF LivesRuns
<1>27. EndReported'
  <2>1. ASSUME NEW e \in Commands, e # c PROVE ReportIsTrue(e)'
    BY <2>1, <1>16, UndisturbedKept
  <2>2. ReportIsTrue(c)'
    <3>1. ~EndIn(command[c].queue, c) /\ ~EndIn(sandbox[s].pipe, c)
      BY <1>13, <1>12 DEF EndReported, ReportIsTrue
    <3>2. ~EndIn(command'[c].queue, c) /\ ~EndIn(sandbox'[s].pipe, c)
      BY <3>1, <1>11, <1>2 DEF Alike, QueueAlike, QueueHas
    <3> QED
      BY <3>2, <1>12, <1>8 DEF ReportIsTrue
  <2> QED
    BY <2>1, <2>2 DEF EndReported
<1>28. AtRelease'
  BY <1>1, <1>7, <1>8, <1>2, <1>14, Homes, <1>13, <1>12 DEF AtRelease, Places
<1>29. Owned'
  BY <1>1, <1>7, <1>8, <1>2, <1>6, Homes, <1>13, <1>12 DEF Owned, Places, Locking
<1>30. ExitIsLast'
  <2>1. ASSUME NEW e \in Commands, e # c PROVE ExitComesLast(e)'
    BY <2>1, <1>16, UndisturbedKept
  <2>2. ExitComesLast(c)'
    <3>1. /\ Has(command'[c].queue, <<c, "exit">>) <=> Has(command[c].queue, <<c, "exit">>)
          /\ ExitLast(command'[c].queue, c)
      BY <1>11 DEF Alike, QueueAlike, QueueHas
    <3> QED
      BY <3>1, <1>12, <1>2, <1>8 DEF ExitIsLast, ExitComesLast
  <2> QED
    BY <2>1, <2>2 DEF ExitIsLast
<1>31. OwnEvents'
  BY <1>1, <1>11 DEF OwnEvents, Alike, QueueAlike, QueueTyped
<1>32. OutputCounted'
  <2>1. ASSUME NEW e \in Commands, e # c PROVE AllCounted(e)'
    BY <2>1, <1>16, UndisturbedKept
  <2>2. AllCounted(c)'
    <3>1. /\ command'[c].seen = command[c].seen /\ task'[c].made = task[c].made
          /\ Outs(command'[c].queue, c) = Outs(command[c].queue, c)
      BY <1>11, <1>14 DEF Alike, QueueAlike, QueueOuts
    <3> QED
      BY <3>1, <1>12, <1>2, <1>8, <1>7 DEF OutputCounted, AllCounted
  <2> QED
    BY <2>1, <2>2 DEF OutputCounted
<1>33. SeenWasMade'
  BY <1>1, <1>11, Fields DEF SeenWasMade, Alike
<1>34. ExitSettled'
  BY <1>1, <1>11, <1>7, <1>14, <1>13, <1>12 DEF ExitSettled, Places, Alike
<1> QED
  BY <1>17, <1>18, <1>19, <1>20, <1>23, <1>24, <1>25, <1>26, <1>27, <1>28, <1>29, <1>30, <1>31,
     <1>32, <1>33, <1>34

\* The reader drops a message of a command that is not registered.
LEMMA KeptByReadForNobody ==
  ASSUME IInv, NEW s \in Sandboxes, Read(s),
         Head(sandbox[s].pipe)[1] \notin sandbox[s].registered
  PROVE  IInv'
<1> USE Names DEF IInv
<1>1. sandbox[s].pipe # <<>>
  BY DEF Read, At, Go, Of, Shapes, Places
<1>2. /\ sandbox' \in [Sandboxes -> Sandbox]
      /\ \A u \in Sandboxes : u # s => sandbox'[u] = sandbox[u]
      /\ sandbox'[s].process = sandbox[s].process
      /\ sandbox'[s].control = sandbox[s].control
      /\ sandbox'[s].registered = sandbox[s].registered
      /\ sandbox'[s].pipe = Tail(sandbox[s].pipe)
  <2> DEFINE b == sandbox[s].ready \/ Head(sandbox[s].pipe) = Ready
  <2>1. b \in BOOLEAN
    BY DEF Shapes, Sandbox
  <2>2. sandbox' = [sandbox EXCEPT ![s].pipe = Tail(@), ![s].ready = b]
    BY DEF Read
  <2> HIDE DEF b
  <2> QED
    BY <1>1, <2>1, <2>2, PipeTyped
<1>3. \A d \in Commands :
        /\ \A k : Has(sandbox[s].pipe, <<d, k>>)
                  <=> Has(sandbox'[s].pipe, <<d, k>>) \/ Head(sandbox[s].pipe) = <<d, k>>
        /\ About(sandbox[s].pipe, d)
             <=> About(sandbox'[s].pipe, d) \/ Head(sandbox[s].pipe)[1] = d
        /\ ExitLast(sandbox[s].pipe, d) =>
             /\ ExitLast(sandbox'[s].pipe, d)
             /\ Head(sandbox[s].pipe) = <<d, "exit">> => ~Has(sandbox'[s].pipe, <<d, "out">>)
        /\ Outs(sandbox'[s].pipe, d) \in Nat
        /\ Outs(sandbox[s].pipe, d) = Outs(sandbox'[s].pipe, d)
             + (IF Head(sandbox[s].pipe) = <<d, "out">> THEN 1 ELSE 0)
  <2> DEFINE q == sandbox[s].pipe
  <2>1. q \in Seq(Event \cup {Ready}) /\ q # <<>>
    BY <1>1, Fields
  <2>2. sandbox'[s].pipe = Tail(q) /\ sandbox[s].pipe = q
    BY <1>2
  <2> HIDE DEF q
  <2> SUFFICES ASSUME NEW d \in Commands
               PROVE  /\ \A k : Has(q, <<d, k>>)
                             <=> Has(Tail(q), <<d, k>>) \/ Head(q) = <<d, k>>
                      /\ About(q, d) <=> About(Tail(q), d) \/ Head(q)[1] = d
                      /\ ExitLast(q, d) =>
                           /\ ExitLast(Tail(q), d)
                           /\ Head(q) = <<d, "exit">> => ~Has(Tail(q), <<d, "out">>)
                      /\ Outs(Tail(q), d) \in Nat
                      /\ Outs(q, d)
                             = Outs(Tail(q), d) + (IF Head(q) = <<d, "out">> THEN 1 ELSE 0)
    BY <2>2
  <2> QED
    BY <2>1, EventTaken
<1>4. \A d \in Commands :
        /\ Outs(sandbox'[s].pipe, d) \in Nat
        /\ Outs(sandbox[s].pipe, d) = Outs(sandbox'[s].pipe, d)
             + (IF Head(sandbox[s].pipe) = <<d, "out">> THEN 1 ELSE 0)
  BY <1>3
<1>5. poolLock' = poolLock /\ pool' = pool
  BY <1>1 DEF Read, At, Go, Of
<1>6. pc' = pc
  BY <1>1 DEF Read, At, Go, Of, Shapes
<1>7. mine' = mine
  BY <1>1 DEF Read, At, Go, Of, Shapes
<1>8. /\ pool' \in Sandboxes \cup {NoSandbox} /\ poolLock' \in Threads \cup {NoOne}
      /\ pc' \in [Threads -> Phases] /\ mine' \in [Threads -> Sandboxes \cup {NoSandbox}]
  BY <1>1 DEF Read, At, Go, Of, Shapes, Phases
<1>9. command' \in [Commands -> AnyCommand] /\ CommandsKept
  BY DEF Read, At, Go, Of, Shapes, CommandsKept
<1>10. Alike
  BY <1>9, NotedIsAlike
<1>11. task' \in [Commands -> Task] /\ TasksKept
  BY DEF Read, At, Go, Of, Shapes, TasksKept
<1>12. \A e \in Commands : mine[e] = s /\ pc[e] = "wait" => Head(sandbox[s].pipe) # <<e, "out">>
  BY <1>1 DEF RegisteredIsMine
<1>13. \A e \in Commands : mine[e] \in Sandboxes => ChannelAlike(e)
  <2> SUFFICES ASSUME NEW e \in Commands, mine[e] \in Sandboxes PROVE ChannelAlike(e)
    OBVIOUS
  <2>1. CASE mine[e] = s
    <3>1. pc[e] = "wait" => Head(sandbox[s].pipe) # <<e, "out">>
      BY <2>1, <1>12
    <3>2. /\ Has(sandbox'[s].pipe, <<e, "out">>) => Has(sandbox[s].pipe, <<e, "out">>)
          /\ EndIn(sandbox'[s].pipe, e) => EndIn(sandbox[s].pipe, e)
          /\ ExitLast(sandbox[s].pipe, e) => ExitLast(sandbox'[s].pipe, e)
      BY <1>3 DEF EndIn
    <3>3. pc[e] = "wait" => Outs(sandbox'[s].pipe, e) = Outs(sandbox[s].pipe, e)
      BY <1>4, <3>1
    <3> QED
      BY <2>1, <1>2, <3>2, <3>3 DEF ChannelAlike
  <2>2. CASE mine[e] # s
    BY <2>2, <1>2 DEF ChannelAlike
  <2> QED
    BY <2>1, <2>2
<1>14. \A e \in Commands : Undisturbed(e)
  BY <1>6, <1>7, <1>10, <1>11, <1>13 DEF Undisturbed, Alike, TasksKept
<1>15. Shapes'
  BY <1>2, <1>8, <1>9, <1>11 DEF Shapes
<1>16. QueuesFit'
  BY <1>1, <1>10 DEF QueuesFit, Alike, QueueAlike, QueueTyped
<1>17. Places'
  BY <1>1, <1>6, <1>7 DEF Places
<1>18. Locking'
  BY <1>1, <1>6, <1>5 DEF Locking, Places
<1>19. \A d \in Commands : Unsent(d)' => Unsent(d)
  BY <1>1, <1>6, <1>5 DEF Unsent, Locking, Places
<1>20. \A d \in Commands : Unsent(d) =>
         \A u \in Sandboxes : /\ About(sandbox'[u].control, d) => About(sandbox[u].control, d)
                              /\ About(sandbox'[u].pipe, d) => About(sandbox[u].pipe, d)
  <2> SUFFICES ASSUME NEW d \in Commands, NEW u \in Sandboxes
               PROVE  /\ About(sandbox'[u].control, d) => About(sandbox[u].control, d)
                      /\ About(sandbox'[u].pipe, d) => About(sandbox[u].pipe, d)
    OBVIOUS
  <2>1. CASE u = s
    BY <1>2, <1>3, <2>1
  <2>2. CASE u # s
    BY <1>2, <2>2
  <2> QED
    BY <2>1, <2>2
<1>21. NothingYet'
  <2>1. ASSUME NEW d \in Commands, Unsent(d)'
        PROVE  /\ Unsent(d) /\ QueueHas(d) /\ command'[d].seen = command[d].seen
               /\ task'[d].phase = task[d].phase /\ task'[d].made = task[d].made
               /\ task'[d].lives => task[d].lives
               /\ \A u \in Sandboxes :
                    /\ About(sandbox'[u].control, d) => About(sandbox[u].control, d)
                    /\ About(sandbox'[u].pipe, d) => About(sandbox[u].pipe, d)
    <3>1. Unsent(d)
      BY <2>1, <1>19
    <3>2. QueueHas(d) /\ command'[d].seen = command[d].seen
      BY <3>1, <1>10 DEF Alike, QueueAlike
    <3>3. /\ task'[d].phase = task[d].phase /\ task'[d].made = task[d].made
          /\ task'[d].lives => task[d].lives
      BY <3>1, <1>11 DEF TasksKept
    <3>4. \A u \in Sandboxes :
             /\ About(sandbox'[u].control, d) => About(sandbox[u].control, d)
             /\ About(sandbox'[u].pipe, d) => About(sandbox[u].pipe, d)
      BY <3>1, <1>20
    <3> QED
      BY <3>1, <3>2, <3>3, <3>4
  <2> QED
    BY <2>1, NothingYetKept
<1>22. RegisteredIsMine'
  BY <1>1, <1>6, <1>7, <1>2, Homes DEF RegisteredIsMine, Places
<1>23. RunOnce'
  BY <1>14, UndisturbedKept DEF RunOnce
<1>24. LivesRuns'
  BY <1>1, <1>7, <1>2, <1>11, <1>6, Homes DEF LivesRuns, TasksKept
<1>25. EndReported'
  BY <1>14, UndisturbedKept DEF EndReported
<1>26. AtRelease'
  BY <1>1, <1>6, <1>7, <1>2, <1>11, Homes DEF AtRelease, Places, TasksKept
<1>27. Owned'
  BY <1>1, <1>6, <1>7, <1>2, <1>5, Homes DEF Owned, Places, Locking
<1>28. ExitIsLast'
  BY <1>14, UndisturbedKept DEF ExitIsLast
<1>29. OwnEvents'
  BY <1>1, <1>10 DEF OwnEvents, Alike, QueueAlike, QueueTyped
<1>30. OutputCounted'
  BY <1>14, UndisturbedKept DEF OutputCounted
<1>31. SeenWasMade'
  BY <1>1, <1>10, Fields DEF SeenWasMade, Alike
<1>32. ExitSettled'
  BY <1>1, <1>10, <1>6, <1>11 DEF ExitSettled, Places, Alike, TasksKept
<1> QED
  BY <1>15, <1>16, <1>17, <1>18, <1>21, <1>22, <1>23, <1>24, <1>25, <1>26, <1>27, <1>28, <1>29,
     <1>30, <1>31, <1>32

\* The reader puts a message into the queue of its command.
LEMMA KeptByReadFor ==
  ASSUME IInv, NEW s \in Sandboxes, Read(s), Head(sandbox[s].pipe)[1] \in sandbox[s].registered
  PROVE  IInv'
<1> USE Names DEF IInv
<1>1. sandbox[s].pipe # <<>>
  BY DEF Read, At, Go, Of, Shapes, Places
<1>2. /\ sandbox' \in [Sandboxes -> Sandbox]
      /\ \A u \in Sandboxes : u # s => sandbox'[u] = sandbox[u]
      /\ sandbox'[s].process = sandbox[s].process
      /\ sandbox'[s].control = sandbox[s].control
      /\ sandbox'[s].registered = sandbox[s].registered
      /\ sandbox'[s].pipe = Tail(sandbox[s].pipe)
  <2> DEFINE b == sandbox[s].ready \/ Head(sandbox[s].pipe) = Ready
  <2>1. b \in BOOLEAN
    BY DEF Shapes, Sandbox
  <2>2. sandbox' = [sandbox EXCEPT ![s].pipe = Tail(@), ![s].ready = b]
    BY DEF Read
  <2> HIDE DEF b
  <2> QED
    BY <1>1, <2>1, <2>2, PipeTyped
<1>3. \A d \in Commands :
        /\ \A k : Has(sandbox[s].pipe, <<d, k>>)
                  <=> Has(sandbox'[s].pipe, <<d, k>>) \/ Head(sandbox[s].pipe) = <<d, k>>
        /\ About(sandbox[s].pipe, d)
             <=> About(sandbox'[s].pipe, d) \/ Head(sandbox[s].pipe)[1] = d
        /\ ExitLast(sandbox[s].pipe, d) =>
             /\ ExitLast(sandbox'[s].pipe, d)
             /\ Head(sandbox[s].pipe) = <<d, "exit">> => ~Has(sandbox'[s].pipe, <<d, "out">>)
        /\ Outs(sandbox'[s].pipe, d) \in Nat
        /\ Outs(sandbox[s].pipe, d) = Outs(sandbox'[s].pipe, d)
             + (IF Head(sandbox[s].pipe) = <<d, "out">> THEN 1 ELSE 0)
  <2> DEFINE q == sandbox[s].pipe
  <2>1. q \in Seq(Event \cup {Ready}) /\ q # <<>>
    BY <1>1, Fields
  <2>2. sandbox'[s].pipe = Tail(q) /\ sandbox[s].pipe = q
    BY <1>2
  <2> HIDE DEF q
  <2> SUFFICES ASSUME NEW d \in Commands
               PROVE  /\ \A k : Has(q, <<d, k>>)
                             <=> Has(Tail(q), <<d, k>>) \/ Head(q) = <<d, k>>
                      /\ About(q, d) <=> About(Tail(q), d) \/ Head(q)[1] = d
                      /\ ExitLast(q, d) =>
                           /\ ExitLast(Tail(q), d)
                           /\ Head(q) = <<d, "exit">> => ~Has(Tail(q), <<d, "out">>)
                      /\ Outs(Tail(q), d) \in Nat
                      /\ Outs(q, d)
                             = Outs(Tail(q), d) + (IF Head(q) = <<d, "out">> THEN 1 ELSE 0)
    BY <2>2
  <2> QED
    BY <2>1, EventTaken
<1>4. \A d \in Commands :
        /\ Outs(sandbox'[s].pipe, d) \in Nat
        /\ Outs(sandbox[s].pipe, d) = Outs(sandbox'[s].pipe, d)
             + (IF Head(sandbox[s].pipe) = <<d, "out">> THEN 1 ELSE 0)
  BY <1>3
<1>5. poolLock' = poolLock /\ pool' = pool
  BY <1>1 DEF Read, At, Go, Of
<1>6. pc' = pc
  BY <1>1 DEF Read, At, Go, Of, Shapes
<1>7. mine' = mine
  BY <1>1 DEF Read, At, Go, Of, Shapes
<1>8. /\ pool' \in Sandboxes \cup {NoSandbox} /\ poolLock' \in Threads \cup {NoOne}
      /\ pc' \in [Threads -> Phases] /\ mine' \in [Threads -> Sandboxes \cup {NoSandbox}]
  BY <1>1 DEF Read, At, Go, Of, Shapes, Phases
<1>9. task' \in [Commands -> Task] /\ TasksKept
  BY DEF Read, At, Go, Of, Shapes, TasksKept
<1>10. PICK c \in Commands, k \in {"out", "exit", "spawn_error", "lost"} :
         Head(sandbox[s].pipe) = <<c, k>> /\ mine[c] = s /\ c \in sandbox[s].registered
  <2>1. Head(sandbox[s].pipe) \in Event \cup {Ready}
    BY <1>1, Fields, TailShifts
  <2>2. Head(sandbox[s].pipe)[1] \in Commands
    BY Homes
  <2>3. Head(sandbox[s].pipe) \in Event
    BY <2>1, <2>2, Names DEF Ready
  <2> QED
    BY <2>3 DEF Event, RegisteredIsMine
<1>11. Room(c) /\ command' = [command EXCEPT ![c] = Put(c, <<c, k>>)]
  <2>1. Head(sandbox[s].pipe)[1] = c
    BY <1>10
  <2>2. Room(c)
    BY <1>10, <2>1 DEF Read, WaitForRoom
  <2> QED
    BY <1>10, <2>1, <2>2 DEF Read
<1>12. /\ command' \in [Commands -> AnyCommand] /\ QueueTyped(c)
       /\ command'[c].seen = command[c].seen /\ command'[c].result = command[c].result
       /\ \A d \in Commands : d # c => /\ QueueAlike(d) /\ command'[d].seen = command[d].seen
                                       /\ command'[d].result = command[d].result
       /\ \A l : Has(command'[c].queue, <<c, l>>) <=> Has(command[c].queue, <<c, l>>) \/ l = k
       /\ (k = "out" => ~Has(command[c].queue, <<c, "exit">>)) => ExitLast(command'[c].queue, c)
       /\ Outs(command[c].queue, c) \in Nat
       /\ Outs(command'[c].queue, c) = Outs(command[c].queue, c) + (IF k = "out" THEN 1 ELSE 0)
  BY <1>11, DeliverDoes
<1>13. ~Unsent(c)
  <2>1. Head(sandbox[s].pipe)[1] = c
    BY <1>10
  <2>2. About(sandbox[s].pipe, c)
    BY <2>1, <1>3
  <2> QED
    BY <2>2 DEF NothingYet
<1>14. \A e \in Commands : e # c => Head(sandbox[s].pipe) # <<e, "out">>
  BY <1>10
<1>15. \A e \in Commands : e # c /\ mine[e] \in Sandboxes => ChannelAlike(e)
  <2> SUFFICES ASSUME NEW e \in Commands, e # c, mine[e] \in Sandboxes PROVE ChannelAlike(e)
    OBVIOUS
  <2>1. CASE mine[e] = s
    <3>1. pc[e] = "wait" => Head(sandbox[s].pipe) # <<e, "out">>
      BY <2>1, <1>14
    <3>2. /\ Has(sandbox'[s].pipe, <<e, "out">>) => Has(sandbox[s].pipe, <<e, "out">>)
          /\ EndIn(sandbox'[s].pipe, e) => EndIn(sandbox[s].pipe, e)
          /\ ExitLast(sandbox[s].pipe, e) => ExitLast(sandbox'[s].pipe, e)
      BY <1>3 DEF EndIn
    <3>3. pc[e] = "wait" => Outs(sandbox'[s].pipe, e) = Outs(sandbox[s].pipe, e)
      BY <1>4, <3>1
    <3> QED
      BY <2>1, <1>2, <3>2, <3>3 DEF ChannelAlike
  <2>2. CASE mine[e] # s
    BY <2>2, <1>2 DEF ChannelAlike
  <2> QED
    BY <2>1, <2>2
<1>16. \A e \in Commands : e # c => Undisturbed(e)
  BY <1>6, <1>7, <1>12, <1>9, <1>15 DEF Undisturbed, TasksKept
<1>17. Shapes'
  BY <1>2, <1>8, <1>9, <1>12 DEF Shapes
<1>18. QueuesFit'
  BY <1>1, <1>12 DEF QueuesFit, QueueAlike, QueueTyped
<1>19. Places'
  BY <1>1, <1>6, <1>7 DEF Places
<1>20. Locking'
  BY <1>1, <1>6, <1>5 DEF Locking, Places
<1>21. \A d \in Commands : Unsent(d)' => Unsent(d) /\ d # c
  BY <1>1, <1>6, <1>5, <1>13 DEF Unsent, Locking, Places
<1>22. \A d \in Commands : Unsent(d) /\ d # c =>
         \A u \in Sandboxes : /\ About(sandbox'[u].control, d) => About(sandbox[u].control, d)
                              /\ About(sandbox'[u].pipe, d) => About(sandbox[u].pipe, d)
  <2> SUFFICES ASSUME NEW d \in Commands, NEW u \in Sandboxes
               PROVE  /\ About(sandbox'[u].control, d) => About(sandbox[u].control, d)
                      /\ About(sandbox'[u].pipe, d) => About(sandbox[u].pipe, d)
    OBVIOUS
  <2>1. CASE u = s
    BY <1>2, <1>3, <2>1
  <2>2. CASE u # s
    BY <1>2, <2>2
  <2> QED
    BY <2>1, <2>2
<1>23. NothingYet'
  <2>1. ASSUME NEW d \in Commands, Unsent(d)'
        PROVE  /\ Unsent(d) /\ QueueHas(d) /\ command'[d].seen = command[d].seen
               /\ task'[d].phase = task[d].phase /\ task'[d].made = task[d].made
               /\ task'[d].lives => task[d].lives
               /\ \A u \in Sandboxes :
                    /\ About(sandbox'[u].control, d) => About(sandbox[u].control, d)
                    /\ About(sandbox'[u].pipe, d) => About(sandbox[u].pipe, d)
    <3>1. Unsent(d) /\ d # c
      BY <2>1, <1>21
    <3>2. QueueHas(d) /\ command'[d].seen = command[d].seen
      BY <3>1, <1>12 DEF QueueAlike
    <3>3. /\ task'[d].phase = task[d].phase /\ task'[d].made = task[d].made
          /\ task'[d].lives => task[d].lives
      BY <3>1, <1>9 DEF TasksKept
    <3>4. \A u \in Sandboxes :
             /\ About(sandbox'[u].control, d) => About(sandbox[u].control, d)
             /\ About(sandbox'[u].pipe, d) => About(sandbox[u].pipe, d)
      BY <3>1, <1>22
    <3> QED
      BY <3>1, <3>2, <3>3, <3>4
  <2> QED
    BY <2>1, NothingYetKept
<1>24. RegisteredIsMine'
  BY <1>1, <1>6, <1>7, <1>2, Homes DEF RegisteredIsMine, Places
<1>25. RunOnce'
  <2>1. ASSUME NEW e \in Commands, e # c PROVE StartsOnce(e)'
    BY <2>1, <1>16, UndisturbedKept
  <2>2. StartsOnce(c)'
    BY <1>10, <1>2, <1>7, <1>9 DEF RunOnce, StartsOnce, TasksKept
  <2> QED
    BY <2>1, <2>2 DEF RunOnce
<1>26. LivesRuns'
  BY <1>1, <1>7, <1>2, <1>9, <1>6, Homes DEF LivesRuns, TasksKept
<1>27. EndReported'
  <2>1. ASSUME NEW e \in Commands, e # c PROVE ReportIsTrue(e)'
    BY <2>1, <1>16, UndisturbedKept
  <2>2. ReportIsTrue(c)'
    <3>1. EndIn(sandbox[s].pipe, c) \/ EndIn(command[c].queue, c) => task[c].phase = "done"
      BY <1>10 DEF EndReported, ReportIsTrue
    <3>2. EndIn(command'[c].queue, c) => EndIn(sandbox[s].pipe, c) \/ EndIn(command[c].queue, c)
      BY <1>10, <1>3, <1>12 DEF EndIn
    <3>3. EndIn(sandbox'[s].pipe, c) => EndIn(sandbox[s].pipe, c)
      BY <1>3 DEF EndIn
    <3>4. task'[c].phase = task[c].phase /\ mine'[c] = s
      BY <1>10, <1>7, <1>9 DEF TasksKept
    <3> QED
      BY <3>1, <3>2, <3>3, <3>4 DEF ReportIsTrue
  <2> QED
    BY <2>1, <2>2 DEF EndReported
<1>28. AtRelease'
  BY <1>1, <1>6, <1>7, <1>2, <1>9, Homes DEF AtRelease, Places, TasksKept
<1>29. Owned'
  BY <1>1, <1>6, <1>7, <1>2, <1>5, Homes DEF Owned, Places, Locking
<1>30. ExitIsLast'
  <2>1. ASSUME NEW e \in Commands, e # c PROVE ExitComesLast(e)'
    BY <2>1, <1>16, UndisturbedKept
  <2>2. ExitComesLast(c)'
    <3>1. /\ ExitLast(sandbox[s].pipe, c)
          /\ Has(command[c].queue, <<c, "exit">>) => ~Has(sandbox[s].pipe, <<c, "out">>)
      BY <1>10 DEF ExitIsLast, ExitComesLast
    <3>2. k = "out" => ~Has(command[c].queue, <<c, "exit">>)
      BY <1>10, <1>3, <3>1
    <3>3. ExitLast(command'[c].queue, c) /\ ExitLast(sandbox'[s].pipe, c)
      BY <1>3, <1>12, <3>1, <3>2
    <3>4. Has(command'[c].queue, <<c, "exit">>) => ~Has(sandbox'[s].pipe, <<c, "out">>)
      BY <1>10, <1>3, <1>12, <3>1
    <3>5. mine'[c] = s
      BY <1>10, <1>7
    <3> QED
      BY <3>3, <3>4, <3>5 DEF ExitComesLast
  <2> QED
    BY <2>1, <2>2 DEF ExitIsLast
<1>31. OwnEvents'
  BY <1>1, <1>12 DEF OwnEvents, QueueAlike, QueueTyped
<1>32. OutputCounted'
  <2>1. ASSUME NEW e \in Commands, e # c PROVE AllCounted(e)'
    BY <2>1, <1>16, UndisturbedKept
  <2>2. AllCounted(c)'
    <3> SUFFICES ASSUME pc'[c] = "wait"
                 PROVE  command'[c].seen + Outs(command'[c].queue, c)
                          + Outs(sandbox'[mine'[c]].pipe, c) = task'[c].made
      BY DEF AllCounted
    <3>1. command[c].seen + Outs(command[c].queue, c) + Outs(sandbox[s].pipe, c) = task[c].made
      BY <1>10, <1>6 DEF OutputCounted, AllCounted
    <3>2. /\ Outs(command[c].queue, c) \in Nat
          /\ Outs(command'[c].queue, c)
                 = Outs(command[c].queue, c) + (IF k = "out" THEN 1 ELSE 0)
          /\ command'[c].seen = command[c].seen
      BY <1>12
    <3>3. /\ Outs(sandbox'[s].pipe, c) \in Nat
          /\ Outs(sandbox[s].pipe, c) = Outs(sandbox'[s].pipe, c) + (IF k = "out" THEN 1 ELSE 0)
      BY <1>10, <1>4
    <3>4. mine'[c] = s /\ task'[c].made = task[c].made /\ command[c].seen \in Nat
      BY <1>10, <1>7, <1>9, Fields DEF TasksKept
    <3> QED
      BY <3>1, <3>2, <3>3, <3>4
  <2> QED
    BY <2>1, <2>2 DEF OutputCounted
<1>33. SeenWasMade'
  BY <1>1, <1>12, Fields DEF SeenWasMade
<1>34. ExitSettled'
  BY <1>1, <1>12, <1>6, <1>9 DEF ExitSettled, Places, TasksKept
<1> QED
  BY <1>17, <1>18, <1>19, <1>20, <1>23, <1>24, <1>25, <1>26, <1>27, <1>28, <1>29, <1>30, <1>31,
     <1>32, <1>33, <1>34

\* The reader finds the end of the output: the sandbox is lost.
LEMMA KeptByReaderEnds ==
  ASSUME IInv, NEW s \in Sandboxes, ReaderEnds(s)
  PROVE  IInv'
<1> USE Names DEF IInv
<1>1. sandbox[s].process = "dead"
  BY DEF ReaderEnds, At, Go, Of, Shapes, Places
<1>2. poolLock' = poolLock /\ pool' = pool
  BY <1>1 DEF ReaderEnds, At, Go, Of
<1>3. pc' = pc
  BY <1>1 DEF ReaderEnds, At, Go, Of, Shapes
<1>4. mine' = mine
  BY <1>1 DEF ReaderEnds, At, Go, Of, Shapes
<1>5. /\ pool' \in Sandboxes \cup {NoSandbox} /\ poolLock' \in Threads \cup {NoOne}
      /\ pc' \in [Threads -> Phases] /\ mine' \in [Threads -> Sandboxes \cup {NoSandbox}]
  BY <1>1 DEF ReaderEnds, At, Go, Of, Shapes, Phases
<1>6. MarkLost(s)
  BY <1>1 DEF ReaderEnds, At, Go, Of
<1>7. /\ sandbox' \in [Sandboxes -> Sandbox] /\ SandboxesKept
      /\ command' \in [Commands -> AnyCommand] /\ Noted
  BY <1>1, <1>6, MarkLostDoes
<1>8. Alike
  BY <1>7, NotedIsAlike
<1>9. task' \in [Commands -> Task] /\ TasksKept
  BY DEF ReaderEnds, At, Go, Of, Shapes, TasksKept
<1>10. Shapes'
  BY <1>5, <1>7, <1>9 DEF Shapes
<1>11. QueuesFit'
  BY <1>1, <1>8 DEF QueuesFit, Alike, QueueAlike, QueueTyped
<1>12. Places'
  BY <1>1, <1>3, <1>4 DEF Places
<1>13. Locking'
  BY <1>1, <1>3, <1>2 DEF Locking, Places
<1>14. NothingYet'
  BY <1>1, <1>3, <1>2, <1>9, <1>8, <1>7, <1>4
    DEF NothingYet, Unsent, Locking, Places, SandboxesKept, Alike, QueueAlike, QueueHas,
         TasksKept
<1>15. RegisteredIsMine'
  BY <1>1, <1>3, <1>4, <1>7, Homes DEF RegisteredIsMine, Places, SandboxesKept
<1>16. RunOnce'
  BY <1>1, <1>4, <1>7, <1>9, <1>3, Homes DEF RunOnce, SandboxesKept, TasksKept, StartsOnce
<1>17. LivesRuns'
  BY <1>1, <1>4, <1>7, <1>9, <1>3, Homes DEF LivesRuns, SandboxesKept, TasksKept
<1>18. EndReported'
  <2> SUFFICES ASSUME NEW e \in Commands PROVE ReportIsTrue(e)'
    BY DEF EndReported
  <2>1. mine'[e] = mine[e] /\ task'[e].phase = task[e].phase /\ QueueHas(e)
    BY <1>1, <1>4, <1>7, <1>9, <1>8, <1>3 DEF Alike, QueueAlike, TasksKept
  <2>2. mine[e] \in Sandboxes => sandbox'[mine[e]].pipe = sandbox[mine[e]].pipe
    BY <1>1, <1>4, <1>7, <1>9, <1>8, <1>3 DEF SandboxesKept
  <2> QED
    BY <2>1, <2>2, ReportKept
<1>19. AtRelease'
  BY <1>1, <1>3, <1>4, <1>7, <1>9, Homes DEF AtRelease, Places, SandboxesKept, TasksKept
<1>20. Owned'
  BY <1>1, <1>3, <1>4, <1>7, <1>2, Homes DEF Owned, Places, Locking, SandboxesKept
<1>21. ExitIsLast'
  BY <1>1, <1>4, <1>7, <1>8, <1>3, Homes
    DEF ExitIsLast, SandboxesKept, Alike, QueueAlike, QueueHas, ExitComesLast
<1>22. OwnEvents'
  BY <1>1, <1>8 DEF OwnEvents, Alike, QueueAlike, QueueTyped
<1>23. OutputCounted'
  BY <1>1, <1>3, <1>4, <1>7, <1>8, <1>9, Homes
    DEF OutputCounted, Places, SandboxesKept, Alike, QueueAlike, QueueOuts, TasksKept,
         AllCounted
<1>24. SeenWasMade'
  BY <1>1, <1>8, Fields DEF SeenWasMade, Alike
<1>25. ExitSettled'
  BY <1>1, <1>8, <1>3, <1>9 DEF ExitSettled, Places, Alike, TasksKept
<1> QED
  BY <1>10, <1>11, <1>12, <1>13, <1>14, <1>15, <1>16, <1>17, <1>18, <1>19, <1>20, <1>21, <1>22,
     <1>23, <1>24, <1>25

\* What was left in the background ends.
LEMMA KeptByBackgroundEnds ==
  ASSUME IInv, NEW s \in Sandboxes, NEW c \in Commands, BackgroundEnds(s, c)
  PROVE  IInv'
<1> USE Names DEF IInv
<1>1. c \in sandbox[s].background
  BY DEF BackgroundEnds
<1>2. poolLock' = poolLock /\ pool' = pool
  BY <1>1 DEF BackgroundEnds
<1>3. pc' = pc
  BY <1>1 DEF BackgroundEnds, Shapes
<1>4. mine' = mine
  BY <1>1 DEF BackgroundEnds, Shapes
<1>5. /\ pool' \in Sandboxes \cup {NoSandbox} /\ poolLock' \in Threads \cup {NoOne}
      /\ pc' \in [Threads -> Phases] /\ mine' \in [Threads -> Sandboxes \cup {NoSandbox}]
  BY <1>1 DEF BackgroundEnds, Shapes, Phases
<1>6. command' \in [Commands -> AnyCommand] /\ CommandsKept
  BY DEF BackgroundEnds, Shapes, CommandsKept
<1>7. /\ sandbox' \in [Sandboxes -> Sandbox] /\ SandboxesKept
      /\ command' \in [Commands -> AnyCommand] /\ CommandsKept
  <2> DEFINE b == sandbox[s].background \ {c}
  <2>1. b \in SUBSET Commands
    BY Fields
  <2>2. sandbox' = [sandbox EXCEPT ![s].background = b]
    BY DEF BackgroundEnds
  <2> HIDE DEF b
  <2> QED
    BY <1>6, <2>1, <2>2, BackgroundTyped
<1>8. Alike
  BY <1>7, NotedIsAlike
<1>9. task' \in [Commands -> Task] /\ TasksKept
  BY DEF BackgroundEnds, Shapes, TasksKept
<1>10. Shapes'
  BY <1>5, <1>7, <1>9 DEF Shapes
<1>11. QueuesFit'
  BY <1>1, <1>8 DEF QueuesFit, Alike, QueueAlike, QueueTyped
<1>12. Places'
  BY <1>1, <1>3, <1>4 DEF Places
<1>13. Locking'
  BY <1>1, <1>3, <1>2 DEF Locking, Places
<1>14. NothingYet'
  BY <1>1, <1>3, <1>2, <1>9, <1>8, <1>7, <1>4
    DEF NothingYet, Unsent, Locking, Places, SandboxesKept, Alike, QueueAlike, QueueHas,
         TasksKept
<1>15. RegisteredIsMine'
  BY <1>1, <1>3, <1>4, <1>7, Homes DEF RegisteredIsMine, Places, SandboxesKept
<1>16. RunOnce'
  BY <1>1, <1>4, <1>7, <1>9, <1>3, Homes DEF RunOnce, SandboxesKept, TasksKept, StartsOnce
<1>17. LivesRuns'
  BY <1>1, <1>4, <1>7, <1>9, <1>3, Homes DEF LivesRuns, SandboxesKept, TasksKept
<1>18. EndReported'
  <2> SUFFICES ASSUME NEW e \in Commands PROVE ReportIsTrue(e)'
    BY DEF EndReported
  <2>1. mine'[e] = mine[e] /\ task'[e].phase = task[e].phase /\ QueueHas(e)
    BY <1>1, <1>4, <1>7, <1>9, <1>8, <1>3 DEF Alike, QueueAlike, TasksKept
  <2>2. mine[e] \in Sandboxes => sandbox'[mine[e]].pipe = sandbox[mine[e]].pipe
    BY <1>1, <1>4, <1>7, <1>9, <1>8, <1>3 DEF SandboxesKept
  <2> QED
    BY <2>1, <2>2, ReportKept
<1>19. AtRelease'
  BY <1>1, <1>3, <1>4, <1>7, <1>9, Homes DEF AtRelease, Places, SandboxesKept, TasksKept
<1>20. Owned'
  BY <1>1, <1>3, <1>4, <1>7, <1>2, Homes DEF Owned, Places, Locking, SandboxesKept
<1>21. ExitIsLast'
  BY <1>1, <1>4, <1>7, <1>8, <1>3, Homes
    DEF ExitIsLast, SandboxesKept, Alike, QueueAlike, QueueHas, ExitComesLast
<1>22. OwnEvents'
  BY <1>1, <1>8 DEF OwnEvents, Alike, QueueAlike, QueueTyped
<1>23. OutputCounted'
  BY <1>1, <1>3, <1>4, <1>7, <1>8, <1>9, Homes
    DEF OutputCounted, Places, SandboxesKept, Alike, QueueAlike, QueueOuts, TasksKept,
         AllCounted
<1>24. SeenWasMade'
  BY <1>1, <1>8, Fields DEF SeenWasMade, Alike
<1>25. ExitSettled'
  BY <1>1, <1>8, <1>3, <1>9 DEF ExitSettled, Places, Alike, TasksKept
<1> QED
  BY <1>10, <1>11, <1>12, <1>13, <1>14, <1>15, <1>16, <1>17, <1>18, <1>19, <1>20, <1>21, <1>22,
     <1>23, <1>24, <1>25

-----------------------------------------------------------------------------
(* The theorems. *)

\* Nothing has happened in the beginning.
LEMMA InitHolds == Init => IInv
<1> SUFFICES ASSUME Init PROVE IInv
  OBVIOUS
<1> USE Names
<1>1. /\ pool = NoSandbox /\ poolLock = NoOne
      /\ \A t \in Threads : pc[t] = "idle" /\ mine[t] = NoSandbox
      /\ pc \in [Threads -> Phases] /\ mine \in [Threads -> Sandboxes \cup {NoSandbox}]
  BY DEF Init, Phases
<1>2. /\ sandbox \in [Sandboxes -> Sandbox]
      /\ \A s \in Sandboxes : /\ sandbox[s].process = "none" /\ sandbox[s].registered = {}
                              /\ sandbox[s].control = <<>> /\ sandbox[s].pipe = <<>>
  BY FreshTyped DEF Init
<1>3. /\ command \in [Commands -> AnyCommand]
      /\ \A c \in Commands : /\ command[c].queue = <<>> /\ command[c].seen = 0
                             /\ command[c].result = "none"
  BY UnusedTyped DEF Init
<1>4. /\ task \in [Commands -> Task]
      /\ \A c \in Commands : task[c].phase = "none" /\ ~task[c].lives /\ task[c].made = 0
  BY NoTaskTyped DEF Init
<1>5. /\ \A e : ~Has(<<>>, e)
      /\ \A c : ~About(<<>>, c) /\ ExitLast(<<>>, c) /\ ~EndIn(<<>>, c)
  BY NothingIn DEF EndIn
<1>6. Shapes
  BY <1>1, <1>2, <1>3, <1>4 DEF Shapes
<1>7. QueuesFit /\ OwnEvents
  <2>1. Len(<<>>) <= QueueSize /\ DOMAIN <<>> = {}
    BY BoundAssumption
  <2> QED
    BY <1>3, <2>1 DEF QueuesFit, OwnEvents
<1>8. Places /\ Locking
  BY <1>1 DEF Places, Locking
<1>9. NothingYet
  BY <1>2, <1>3, <1>4, <1>5 DEF NothingYet
<1>10. RegisteredIsMine /\ RunOnce
  BY <1>1, <1>2 DEF RegisteredIsMine, RunOnce, StartsOnce
<1>11. LivesRuns /\ Owned /\ AtRelease
  BY <1>1, <1>2, <1>4 DEF LivesRuns, Owned, AtRelease
<1>12. EndReported
  BY <1>1, <1>3, <1>5 DEF EndReported, ReportIsTrue
<1>13. ExitIsLast
  BY <1>1, <1>3, <1>5 DEF ExitIsLast, ExitComesLast
<1>14. OutputCounted
  BY <1>1 DEF OutputCounted, AllCounted
<1>15. SeenWasMade /\ ExitSettled
  BY <1>3, BoundAssumption DEF SeenWasMade, ExitSettled
<1> QED
  BY <1>6, <1>7, <1>8, <1>9, <1>10, <1>11, <1>12, <1>13, <1>14, <1>15 DEF IInv

\* A step that changes nothing.
LEMMA StutterKeeps ==
  ASSUME IInv, UNCHANGED vars
  PROVE  IInv'
<1> USE DEF IInv
<1>1. /\ pool' = pool /\ poolLock' = poolLock /\ pc' = pc /\ mine' = mine
      /\ sandbox' = sandbox /\ command' = command /\ task' = task
  BY DEF vars
<1>2. Shapes' /\ QueuesFit' /\ Places' /\ Locking'
  BY <1>1 DEF Shapes, QueuesFit, Places, Locking
<1>3. NothingYet' /\ RegisteredIsMine'
  BY <1>1 DEF NothingYet, Unsent, RegisteredIsMine
<1>4. RunOnce' /\ LivesRuns' /\ EndReported'
  BY <1>1 DEF RunOnce, StartsOnce, LivesRuns, EndReported, ReportIsTrue
<1>5. AtRelease' /\ Owned' /\ ExitIsLast'
  BY <1>1 DEF AtRelease, Owned, ExitIsLast, ExitComesLast
<1>6. OwnEvents' /\ OutputCounted' /\ SeenWasMade' /\ ExitSettled'
  BY <1>1 DEF OwnEvents, OutputCounted, AllCounted, SeenWasMade, ExitSettled
<1> QED
  BY <1>2, <1>3, <1>4, <1>5, <1>6

\* Every step of a call keeps the invariant.
LEMMA HostKeeps ==
  ASSUME IInv, NEW c \in Commands, HostStep(c)
  PROVE  IInv'
<1>1. CASE Acquire(c) \/ Found(c) \/ Unhealthy(c)
  BY <1>1, KeptByAcquire, KeptByFound, KeptByUnhealthy
<1>2. CASE StartSandbox(c) \/ Started(c) \/ NotStarted(c)
  BY <1>2, KeptByStartSandbox, KeptByStarted, KeptByNotStarted
<1>3. CASE Register(c)
  BY <1>3, KeptByRegisterLost, KeptByRegisterUp
<1>4. CASE Send(c)
  BY <1>4, KeptBySendRefused, KeptBySendSent
<1>5. CASE Kill(c)
  BY <1>5, KeptByKillRefused, KeptByKillSent
<1>6. CASE Take(c)
  BY <1>6, KeptByTakeOut, KeptByTakeLost, KeptByTakeEnd
<1>7. CASE Unconfirmed(c) \/ SeeLost(c) \/ Discard(c) \/ Release(c)
  BY <1>7, KeptByUnconfirmed, KeptBySeeLost, KeptByDiscard, KeptByRelease
<1> QED
  BY <1>1, <1>2, <1>3, <1>4, <1>5, <1>6, <1>7 DEF HostStep

\* Every step of the worker for a command keeps it.
LEMMA WorkerKeeps ==
  ASSUME IInv, NEW c \in Commands, WorkerStep(c)
  PROVE  IInv'
  BY KeptBySpawn, KeptBySpawnFails, KeptByOutput, KeptByFinish, KeptBySendExit DEF WorkerStep

\* Every step that stops a sandbox keeps it.
LEMMA StopKeeps ==
  ASSUME IInv, NEW t \in Threads, StopStep(t)
  PROVE  IInv'
<1>1. CASE CloseStdin(t)
  BY <1>1, KeptByCloseStdin
<1>2. CASE KillSandbox(t)
  <2>1. mine[t] \in Sandboxes
    BY <1>2, Homes DEF KillSandbox, At
  <2> QED
    BY <1>2, <2>1, KeptByEnded DEF KillSandbox
<1>3. CASE Stopped(t)
  <2>1. CASE t = Closer
    BY <1>3, <2>1, KeptByStoppedCloser
  <2>2. CASE t # Closer
    <3>1. t \in Commands
      BY <2>2, Names
    <3> QED
      BY <1>3, <3>1, KeptByStoppedAgain, KeptByStoppedDone, KeptByStoppedDiscarded
  <2> QED
    BY <2>1, <2>2
<1> QED
  BY <1>1, <1>2, <1>3 DEF StopStep

\* Every step of a sandbox and its reader keeps it.
LEMMA SandboxKeeps ==
  ASSUME IInv, NEW s \in Sandboxes, SandboxStep(s)
  PROVE  IInv'
<1>1. CASE ReadControl(s)
  BY <1>1, KeptByReadControlOther, KeptByReadControlRun
<1>2. CASE WorkerExits(s) \/ Crash(s)
  BY <1>2, KeptByEnded DEF WorkerExits, Crash
<1>3. CASE Read(s)
  BY <1>3, KeptByReadForNobody, KeptByReadFor
<1>4. CASE ReaderEnds(s) \/ \E c \in Commands : BackgroundEnds(s, c)
  BY <1>4, KeptByReaderEnds, KeptByBackgroundEnds
<1> QED
  BY <1>1, <1>2, <1>3, <1>4 DEF SandboxStep

\* The invariant is inductive.
LEMMA StepKeeps ==
  ASSUME IInv, [Next]_vars
  PROVE  IInv'
<1>1. CASE Shutdown
  BY <1>1, KeptByShutdownIdle, KeptByShutdownStops
<1> QED
  BY <1>1, HostKeeps, WorkerKeeps, StopKeeps, SandboxKeeps, StutterKeeps DEF Next

-----------------------------------------------------------------------------
(* What is left in the background. *)

\* It goes on in a sandbox that is up, for the command that started it.
BackgroundIsMine ==
  \A s \in Sandboxes : \A c \in sandbox[s].background :
    sandbox[s].process = "up" /\ (mine[c] = s \/ pc[c] = "done")

\* A call that was told of a loss, or of no kill, returns when its sandbox is dead.
GivenUp(c) == pc[c] = "release" /\ command[c].result \in {"lost", "unconfirmed"}
LostIsDead == \A c \in Commands : GivenUp(c) => sandbox[mine[c]].process = "dead"

BInv == BackgroundIsMine /\ LostIsDead

\* A step that ends no sandbox, leaves nothing new in the background and sends no call
\* home with bad news.
SandboxSteady(u) ==
  /\ sandbox'[u].process = sandbox[u].process
  /\ sandbox'[u].background \subseteq sandbox[u].background
CallSteady(c) ==
  /\ mine[c] \in Sandboxes => mine'[c] = mine[c]
  /\ pc[c] = "done" => pc'[c] = "done"
  /\ GivenUp(c)' => GivenUp(c)
Steady == /\ \A u \in Sandboxes : SandboxSteady(u)
          /\ \A c \in Commands : CallSteady(c)

\* It keeps this.
LEMMA SteadyKeeps ==
  ASSUME IInv, BInv, Steady
  PROVE  BInv'
<1>1. BackgroundIsMine'
  <2> SUFFICES ASSUME NEW s \in Sandboxes, NEW c \in sandbox'[s].background
               PROVE  sandbox'[s].process = "up" /\ (mine'[c] = s \/ pc'[c] = "done")
    BY DEF BackgroundIsMine
  <2>1. SandboxSteady(s) /\ c \in sandbox[s].background
    BY DEF Steady, SandboxSteady
  <2>2. sandbox[s].process = "up" /\ (mine[c] = s \/ pc[c] = "done")
    BY <2>1 DEF BInv, BackgroundIsMine
  <2>3. CallSteady(c)
    BY <2>1, Fields DEF Steady, IInv
  <2> QED
    BY <2>1, <2>2, <2>3 DEF SandboxSteady, CallSteady
<1>2. LostIsDead'
  <2> SUFFICES ASSUME NEW c \in Commands, GivenUp(c)'
               PROVE  sandbox'[mine'[c]].process = "dead"
    BY DEF LostIsDead
  <2>1. GivenUp(c) /\ (mine[c] \in Sandboxes => mine'[c] = mine[c])
    BY DEF Steady, CallSteady
  <2>2. mine[c] \in Sandboxes /\ sandbox[mine[c]].process = "dead"
    BY <2>1, Homes, Names DEF BInv, LostIsDead, GivenUp
  <2> QED
    BY <2>1, <2>2 DEF Steady, SandboxSteady
<1> QED
  BY <1>1, <1>2 DEF BInv

\* Another field of a sandbox changes.
LEMMA FieldSteady ==
  ASSUME IInv, NEW s \in Sandboxes, NEW r,
         r.process = sandbox[s].process, r.background \subseteq sandbox[s].background,
         sandbox' = [sandbox EXCEPT ![s] = r]
  PROVE  \A u \in Sandboxes : SandboxSteady(u)
  BY DEF IInv, Shapes, SandboxSteady

\* Which field a step changes.
LEMMA OtherFields ==
  ASSUME IInv, NEW s \in Sandboxes
  PROVE  \A x :
    LET old(r) == r.process = sandbox[s].process /\ r.background = sandbox[s].background IN
    /\ old([sandbox[s] EXCEPT !.lost = TRUE]) /\ old([sandbox[s] EXCEPT !.stdin = FALSE])
    /\ old([sandbox[s] EXCEPT !.registered = x]) /\ old([sandbox[s] EXCEPT !.control = x])
    /\ old([sandbox[s] EXCEPT !.pipe = x])
    /\ old([sandbox[s] EXCEPT !.lost = TRUE, !.registered = x])
    /\ \A y : old([sandbox[s] EXCEPT !.pipe = x, !.ready = y])
  BY DEF IInv, Shapes, Sandbox

\* MarkLost and Report leave what was reported to the others.
LEMMA MarkLostSteady ==
  ASSUME IInv, NEW s \in Sandboxes, MarkLost(s)
  PROVE  /\ \A u \in Sandboxes : SandboxSteady(u)
         /\ \A c \in Commands : command'[c].result = command[c].result
<1>1. \A u \in Sandboxes : SandboxSteady(u)
  <2> DEFINE r == [sandbox[s] EXCEPT !.lost = TRUE]
  <2>1. r.process = sandbox[s].process /\ r.background = sandbox[s].background
    BY OtherFields
  <2>2. sandbox' = [sandbox EXCEPT ![s] = r]
    BY DEF MarkLost
  <2> HIDE DEF r
  <2> QED
    BY <2>1, <2>2, FieldSteady
<1> QED
  BY <1>1, MarkLostDoes DEF IInv, Noted

\* The steps of a call that waits for a sandbox or is registered in it.
LEMMA CallSteps ==
  ASSUME IInv, BInv, NEW c \in Commands,
         \/ Acquire(c) \/ Started(c) \/ NotStarted(c) \/ Register(c) \/ Send(c)
         \/ Unconfirmed(c) \/ SeeLost(c)
  PROVE  BInv'
<1> USE Names DEF IInv
<1>1. pc \in [Threads -> Phases] /\ mine' = mine /\ sandbox \in [Sandboxes -> Sandbox]
  BY DEF Shapes, Acquire, Started, NotStarted, Register, Send, Unconfirmed, SeeLost
<1>2. \A d \in Commands : CallSteady(d)
  <2>1. \A d \in Commands : d # c => command'[d].result = command[d].result
    <3>1. CASE command' = command
      BY <3>1
    <3>2. CASE \E what \in Results : Report(c, what)
      BY <3>2, ReportDoes
    <3>3. CASE Send(c) /\ Refuses(mine[c])
      <4> SUFFICES ASSUME NEW d \in Commands, d # c
                   PROVE  command'[d].result = command[d].result
        OBVIOUS
      <4>1. command'[d] \in {Put(d, <<d, "lost">>), command[d]}
        BY <3>3 DEF Send
      <4>2. <<d, "lost">> \in Event
        BY DEF Event
      <4>3. Put(d, <<d, "lost">>).result = command[d].result
        BY <4>2, PutDoes
      <4> QED
        BY <4>1, <4>3
    <3> QED
      BY <3>1, <3>2, <3>3
        DEF Acquire, Started, NotStarted, Register, Send, Unconfirmed, SeeLost, Results
  <2>2. \A d \in Threads : pc'[d] = pc[d] \/ (d = c /\ pc'[d] # "release" /\ pc[d] # "done")
    BY <1>1 DEF Acquire, Started, NotStarted, Register, Send, Unconfirmed, SeeLost, At, Go
  <2>3. pc'[c] # "release"
    BY <1>1 DEF Acquire, Started, NotStarted, Register, Send, Unconfirmed, SeeLost, At, Go
  <2> QED
    BY <1>1, <2>1, <2>2, <2>3 DEF CallSteady, GivenUp
<1>3. \A u \in Sandboxes : SandboxSteady(u)
  <2>1. CASE sandbox' = sandbox
    BY <2>1 DEF SandboxSteady
  <2>2. CASE mine[c] \in Sandboxes /\ sandbox' = [sandbox EXCEPT ![mine[c]].lost = TRUE]
    <3>1. sandbox' = [sandbox EXCEPT ![mine[c]] = [sandbox[mine[c]] EXCEPT !.lost = TRUE]]
      BY <2>2
    <3> QED
      BY <2>2, <3>1, OtherFields, FieldSteady
  <2>3. ASSUME mine[c] \in Sandboxes, NEW R,
               sandbox' = [sandbox EXCEPT ![mine[c]].registered = R]
        PROVE  \A u \in Sandboxes : SandboxSteady(u)
    <3>1. sandbox' = [sandbox EXCEPT ![mine[c]] = [sandbox[mine[c]] EXCEPT !.registered = R]]
      BY <2>3
    <3> QED
      BY <2>3, <3>1, OtherFields, FieldSteady
  <2>4. ASSUME mine[c] \in Sandboxes, NEW R,
               sandbox' = [sandbox EXCEPT ![mine[c]].lost = TRUE, ![mine[c]].registered = R]
        PROVE  \A u \in Sandboxes : SandboxSteady(u)
    <3>1. sandbox' = [sandbox EXCEPT ![mine[c]] =
                        [sandbox[mine[c]] EXCEPT !.lost = TRUE, !.registered = R]]
      BY <2>4
    <3> QED
      BY <2>4, <3>1, OtherFields, FieldSteady
  <2>5. ASSUME mine[c] \in Sandboxes, NEW x,
               sandbox' = [sandbox EXCEPT ![mine[c]].control = x]
        PROVE  \A u \in Sandboxes : SandboxSteady(u)
    <3>1. sandbox' = [sandbox EXCEPT ![mine[c]] = [sandbox[mine[c]] EXCEPT !.control = x]]
      BY <2>5
    <3> QED
      BY <2>5, <3>1, OtherFields, FieldSteady
  <2>6. CASE Register(c)
    <3>1. mine[c] \in Sandboxes
      BY <2>6, Homes DEF Register, At
    <3> QED
      BY <2>6, <3>1, <2>1, <2>3 DEF Register
  <2>7. CASE Send(c)
    <3>1. mine[c] \in Sandboxes
      BY <2>7, Homes DEF Send, At
    <3> QED
      BY <2>7, <3>1, <2>4, <2>5 DEF Send, Write
  <2>8. CASE NotStarted(c)
    <3>1. mine[c] \in Sandboxes
      BY <2>8, Homes DEF NotStarted, At
    <3> QED
      BY <2>8, <3>1, <2>2 DEF NotStarted
  <2> QED
    BY <2>1, <2>6, <2>7, <2>8 DEF Acquire, Started, Unconfirmed, SeeLost
<1> QED
  BY <1>2, <1>3, SteadyKeeps DEF Steady

\* A call that asks for a kill.
LEMMA KillStep ==
  ASSUME IInv, BInv, NEW c \in Commands, Kill(c)
  PROVE  BInv'
<1> USE Names DEF IInv
<1>1. pc' = pc /\ mine' = mine /\ mine[c] \in Sandboxes
  BY Homes DEF Kill, At
<1>2. \A d \in Commands : command'[d].result = command[d].result
  <2>1. CASE Refuses(mine[c])
    <3> SUFFICES ASSUME NEW d \in Commands PROVE command'[d].result = command[d].result
      OBVIOUS
    <3> DEFINE r == IF ~Of(c).lost /\ d \in Of(c).registered /\ Room(d)
                    THEN Put(d, <<d, "lost">>) ELSE command[d]
    <3>1. r \in AnyCommand /\ r.result = command[d].result
      BY PutDoes DEF Shapes, Event
    <3>2. command'[d] = [r EXCEPT !.kill = @ \/ d = c]
      BY <2>1 DEF Kill
    <3> HIDE DEF r
    <3> QED
      BY <3>1, <3>2 DEF AnyCommand
  <2>2. CASE ~Refuses(mine[c])
    BY <2>2, KillTyped DEF Kill, CommandsKept
  <2> QED
    BY <2>1, <2>2
<1>3. \A u \in Sandboxes : SandboxSteady(u)
  <2>1. CASE Refuses(mine[c])
    <3>1. sandbox' = [sandbox EXCEPT ![mine[c]] = [sandbox[mine[c]] EXCEPT !.lost = TRUE]]
      BY <2>1 DEF Kill
    <3> QED
      BY <1>1, <3>1, OtherFields, FieldSteady
  <2>2. CASE ~Refuses(mine[c])
    <3>1. PICK x : sandbox' = [sandbox EXCEPT ![mine[c]].control = x]
      BY <2>2 DEF Kill, Write
    <3>2. sandbox' = [sandbox EXCEPT ![mine[c]] = [sandbox[mine[c]] EXCEPT !.control = x]]
      BY <3>1
    <3> QED
      BY <1>1, <3>2, OtherFields, FieldSteady
  <2> QED
    BY <2>1, <2>2
<1> QED
  BY <1>1, <1>2, <1>3, SteadyKeeps DEF Steady, CallSteady, GivenUp

\* A call that takes an event returns only with the end of its command.
LEMMA TakeStep ==
  ASSUME IInv, BInv, NEW c \in Commands, Take(c)
  PROVE  BInv'
<1> USE Names DEF IInv
<1>1. mine' = mine /\ sandbox' = sandbox /\ pc[c] = "wait"
  BY DEF Take, At
<1> DEFINE kind == Head(command[c].queue)[2]
           rest == [command[c] EXCEPT !.queue = Tail(@)]
           r == IF kind = "out" THEN [rest EXCEPT !.seen = @ + 1] ELSE [rest EXCEPT !.result = kind]
<1>2. command' = [command EXCEPT ![c] = r]
  BY DEF Take
<1>3. kind # "out" => r.result = kind
  BY DEF Shapes, AnyCommand
<1>4. /\ \A d \in Threads : d # c => pc'[d] = pc[d]
      /\ pc'[c] = "release" => kind \notin {"out", "lost"}
  BY DEF Take, At, Go, Shapes
<1>5. kind # "unconfirmed"
  BY HeadOfQueue DEF Take
<1>6. /\ command'[c] = r /\ \A d \in Commands : d # c => command'[d] = command[d]
  BY <1>2 DEF Shapes
<1> HIDE DEF r, kind
<1>7. \A d \in Commands : CallSteady(d)
  BY <1>1, <1>3, <1>4, <1>5, <1>6 DEF CallSteady, GivenUp
<1>8. \A u \in Sandboxes : SandboxSteady(u)
  BY <1>1 DEF SandboxSteady
<1> QED
  BY <1>7, <1>8, SteadyKeeps DEF Steady

\* The steps that say that a sandbox is lost, and those that take one that is there.
LEMMA LosingSteps ==
  ASSUME IInv, BInv,
         \/ \E c \in Commands : Discard(c) \/ Unhealthy(c) \/ Found(c)
         \/ Shutdown \/ \E s \in Sandboxes : ReaderEnds(s)
  PROVE  BInv'
<1> USE Names DEF IInv
<1>1. ASSUME NEW c \in Commands, Found(c) PROVE BInv'
  <2>1. mine[c] = NoSandbox /\ sandbox' = sandbox /\ command' = command
    BY <1>1 DEF Found, At, Places
  <2>2. \A d \in Threads : d # c => pc'[d] = pc[d] /\ mine'[d] = mine[d]
    BY <1>1 DEF Found, At, Go, Shapes
  <2>3. pc[c] = "acquire" /\ pc'[c] = "register"
    BY <1>1 DEF Found, At, Go, Shapes
  <2> QED
    BY <2>1, <2>2, <2>3, SteadyKeeps DEF Steady, CallSteady, SandboxSteady, GivenUp
<1>2. ASSUME NEW c \in Commands, Unhealthy(c) PROVE BInv'
  <2>1. mine[c] = NoSandbox /\ pool \in Sandboxes /\ MarkLost(pool)
    BY <1>2 DEF Unhealthy, At, Places, Shapes
  <2>2. \A d \in Threads : d # c => pc'[d] = pc[d] /\ mine'[d] = mine[d]
    BY <1>2 DEF Unhealthy, At, Go, Shapes
  <2>3. pc[c] = "acquire" /\ pc'[c] = "closing"
    BY <1>2 DEF Unhealthy, At, Go, Shapes
  <2> QED
    BY <2>1, <2>2, <2>3, MarkLostSteady, SteadyKeeps DEF Steady, CallSteady, GivenUp
<1>3. ASSUME NEW c \in Commands, Discard(c) PROVE BInv'
  <2>1. mine[c] \in Sandboxes /\ MarkLost(mine[c]) /\ mine' = mine
    BY <1>3, Homes DEF Discard, At
  <2>2. \A d \in Threads : d # c => pc'[d] = pc[d]
    BY <1>3 DEF Discard, At, Go, Shapes
  <2>3. pc[c] = "discard" /\ pc'[c] = "closing"
    BY <1>3 DEF Discard, At, Go, Shapes
  <2> QED
    BY <2>1, <2>2, <2>3, MarkLostSteady, SteadyKeeps DEF Steady, CallSteady, GivenUp
<1>4. ASSUME Shutdown PROVE BInv'
  <2>1. \A d \in Commands : pc'[d] = pc[d] /\ mine'[d] = mine[d]
    BY <1>4 DEF Shutdown, At, Go, Shapes
  <2>2. CASE pool = NoSandbox
    <3>1. sandbox' = sandbox /\ command' = command
      BY <1>4, <2>2 DEF Shutdown
    <3> QED
      BY <2>1, <3>1, SteadyKeeps DEF Steady, CallSteady, SandboxSteady, GivenUp
  <2>3. CASE pool # NoSandbox
    <3>1. pool \in Sandboxes /\ MarkLost(pool)
      BY <1>4, <2>3 DEF Shutdown, Shapes
    <3> QED
      BY <2>1, <3>1, MarkLostSteady, SteadyKeeps DEF Steady, CallSteady, GivenUp
  <2> QED
    BY <2>2, <2>3
<1>5. ASSUME NEW s \in Sandboxes, ReaderEnds(s) PROVE BInv'
  <2>1. MarkLost(s) /\ pc' = pc /\ mine' = mine
    BY <1>5 DEF ReaderEnds
  <2> QED
    BY <2>1, MarkLostSteady, SteadyKeeps DEF Steady, CallSteady, GivenUp
<1> QED
  BY <1>1, <1>2, <1>3, <1>4, <1>5

\* A new sandbox has nothing in the background.
LEMMA StartStep ==
  ASSUME IInv, BInv, NEW c \in Commands, StartSandbox(c)
  PROVE  BInv'
<1> USE Names DEF IInv
<1>1. PICK s \in Sandboxes : /\ sandbox[s] = None /\ mine' = [mine EXCEPT ![c] = s]
                              /\ sandbox' = [sandbox EXCEPT ![s] = Fresh]
  BY DEF StartSandbox
<1>2. pc[c] = "acquire" /\ mine[c] = NoSandbox /\ command' = command
  BY DEF StartSandbox, At, Places
<1>3. /\ pc'[c] = "start" /\ \A d \in Threads : d # c => pc'[d] = pc[d] /\ mine'[d] = mine[d]
  BY <1>1 DEF StartSandbox, At, Go, Shapes
<1>4. /\ sandbox'[s] = Fresh /\ sandbox[s].process = "none" /\ Fresh.background = {}
      /\ \A u \in Sandboxes : u # s => sandbox'[u] = sandbox[u]
  BY <1>1, FreshTyped DEF Shapes
<1>5. BackgroundIsMine'
  <2> SUFFICES ASSUME NEW u \in Sandboxes, NEW d \in sandbox'[u].background
               PROVE  sandbox'[u].process = "up" /\ (mine'[d] = u \/ pc'[d] = "done")
    BY DEF BackgroundIsMine
  <2>1. u # s /\ d \in Commands
    BY <1>4, Fields
  <2>2. sandbox[u].process = "up" /\ (mine[d] = u \/ pc[d] = "done")
    BY <1>4, <2>1 DEF BInv, BackgroundIsMine
  <2> QED
    BY <1>2, <1>3, <1>4, <2>1, <2>2
<1>6. LostIsDead'
  <2> SUFFICES ASSUME NEW d \in Commands, GivenUp(d)' PROVE sandbox'[mine'[d]].process = "dead"
    BY DEF LostIsDead
  <2>1. d # c /\ GivenUp(d)
    BY <1>2, <1>3 DEF GivenUp
  <2>2. mine[d] \in Sandboxes /\ sandbox[mine[d]].process = "dead"
    BY <2>1, Homes DEF BInv, LostIsDead, GivenUp
  <2> QED
    BY <1>3, <1>4, <2>1, <2>2
<1> QED
  BY <1>5, <1>6 DEF BInv

\* Who gives a sandbox up has nothing left in it, or is done.
LEMMA ForgetKeeps ==
  ASSUME IInv, BInv, NEW t \in Threads, mine[t] \in Sandboxes, Forget(t),
         \A d \in Threads : d # t => pc'[d] = pc[d],
         \A d \in Commands : d # t => command'[d].result = command[d].result,
         pc'[t] = "done" \/ sandbox[mine[t]].process = "dead", pc'[t] # "release"
  PROVE  BInv'
<1> USE Names DEF IInv
<1>1. \A u \in Threads : mine'[u] = IF u = t THEN NoSandbox ELSE mine[u]
  BY DEF Forget, Shapes
<1>2. \A u \in Sandboxes :
        \/ SandboxSteady(u)
        \/ /\ u = mine[t] /\ sandbox'[u].background = {}
           /\ \A d \in Threads \ {t} : mine[d] # u
  <2> DEFINE R == sandbox[mine[t]].registered \ {t}
  <2>1. CASE sandbox' = [sandbox EXCEPT ![mine[t]].registered = R]
    <3> HIDE DEF R
    <3>1. sandbox' = [sandbox EXCEPT ![mine[t]] = [sandbox[mine[t]] EXCEPT !.registered = R]]
      BY <2>1
    <3> QED
      BY <3>1, OtherFields, FieldSteady
  <2>2. CASE /\ sandbox' = [sandbox EXCEPT ![mine[t]] = None]
             /\ \A u \in Threads \ {t} : mine[u] # mine[t]
    BY <2>2, FreshTyped DEF Shapes, SandboxSteady
  <2> QED
    BY <2>1, <2>2 DEF Forget, Of
<1>3. BackgroundIsMine'
  <2> SUFFICES ASSUME NEW u \in Sandboxes, NEW d \in sandbox'[u].background
               PROVE  sandbox'[u].process = "up" /\ (mine'[d] = u \/ pc'[d] = "done")
    BY DEF BackgroundIsMine
  <2>1. SandboxSteady(u) /\ d \in sandbox[u].background
    BY <1>2 DEF SandboxSteady
  <2>2. sandbox[u].process = "up" /\ (mine[d] = u \/ pc[d] = "done") /\ d \in Commands
    BY <2>1, Fields DEF BInv, BackgroundIsMine
  <2>3. CASE d = t
    <3>1. mine[t] = u
      BY <2>2, <2>3, Homes
    <3> QED
      BY <2>1, <2>2, <2>3, <3>1 DEF SandboxSteady
  <2>4. CASE d # t
    BY <1>1, <2>1, <2>2, <2>4 DEF SandboxSteady
  <2> QED
    BY <2>3, <2>4
<1>4. LostIsDead'
  <2> SUFFICES ASSUME NEW d \in Commands, GivenUp(d)' PROVE sandbox'[mine'[d]].process = "dead"
    BY DEF LostIsDead
  <2>1. d # t /\ GivenUp(d)
    BY DEF GivenUp
  <2>2. mine[d] \in Sandboxes /\ sandbox[mine[d]].process = "dead"
    BY <2>1, Homes DEF BInv, LostIsDead, GivenUp
  <2> QED
    BY <1>1, <1>2, <2>1, <2>2 DEF SandboxSteady
<1> QED
  BY <1>3, <1>4 DEF BInv

\* A call that returns, and stop().
LEMMA LeavingSteps ==
  ASSUME IInv, BInv,
         \/ \E c \in Commands : Release(c)
         \/ \E t \in Threads : CloseStdin(t) \/ Stopped(t)
  PROVE  BInv'
<1> USE Names DEF IInv
<1>1. ASSUME NEW c \in Commands, Release(c) PROVE BInv'
  <2>1. mine[c] \in Sandboxes /\ Forget(c)
    BY <1>1, Homes DEF Release, At
  <2>2. pc'[c] = "done" /\ \A d \in Threads : d # c => pc'[d] = pc[d]
    BY <1>1 DEF Release, At, Go, Shapes
  <2>3. \A d \in Commands : d # c => command'[d].result = command[d].result
    BY <1>1 DEF Release, Shapes
  <2> QED
    BY <2>1, <2>2, <2>3, ForgetKeeps
<1>2. ASSUME NEW t \in Threads, CloseStdin(t) PROVE BInv'
  <2>1. mine[t] \in Sandboxes /\ mine' = mine /\ command' = command
    BY <1>2, Homes DEF CloseStdin, At
  <2>2. pc[t] = "closing" /\ pc'[t] = "dying" /\ \A d \in Threads : d # t => pc'[d] = pc[d]
    BY <1>2 DEF CloseStdin, At, Go, Shapes
  <2>3. sandbox' = [sandbox EXCEPT ![mine[t]] = [sandbox[mine[t]] EXCEPT !.stdin = FALSE]]
    BY <1>2 DEF CloseStdin
  <2>4. \A u \in Sandboxes : SandboxSteady(u)
    BY <2>1, <2>3, OtherFields, FieldSteady
  <2> QED
    BY <2>1, <2>2, <2>4, SteadyKeeps DEF Steady, CallSteady, GivenUp
<1>3. ASSUME NEW t \in Threads, Stopped(t) PROVE BInv'
  <2>1. /\ pc[t] = "dying" /\ mine[t] \in Sandboxes /\ command' = command
        /\ sandbox[mine[t]].process = "dead"
    BY <1>3, Homes DEF Stopped, At, Of
  <2>2. CASE poolLock = t \/ t = Closer
    <3>1. /\ Forget(t) /\ pc'[t] # "release" /\ \A d \in Threads : d # t => pc'[d] = pc[d]
      BY <1>3, <2>1, <2>2 DEF Stopped, Go, Shapes
    <3> QED
      BY <2>1, <3>1, ForgetKeeps
  <2>3. CASE ~(poolLock = t \/ t = Closer)
    <3>1. /\ mine' = mine /\ sandbox' = sandbox
          /\ \A d \in Threads : d # t => pc'[d] = pc[d]
          /\ pc'[t] = "release"
      BY <1>3, <2>1, <2>3 DEF Stopped, Go, Shapes
    <3>2. BackgroundIsMine'
      BY <2>1, <3>1, Fields DEF BInv, BackgroundIsMine
    <3>3. LostIsDead'
      BY <2>1, <3>1 DEF BInv, LostIsDead, GivenUp
    <3> QED
      BY <3>2, <3>3 DEF BInv
  <2> QED
    BY <2>2, <2>3
<1> QED
  BY <1>1, <1>2, <1>3

\* Steps of the worker that move no process.
LEMMA MessageSteps ==
  ASSUME IInv, BInv,
         \/ \E c \in Commands : Spawn(c) \/ SpawnFails(c) \/ Output(c) \/ SendExit(c)
         \/ \E s \in Sandboxes : Read(s) \/ ReadControl(s)
         \/ \E s \in Sandboxes, c \in Commands : BackgroundEnds(s, c)
         \/ UNCHANGED vars
  PROVE  BInv'
<1> USE Names DEF IInv
<1>1. /\ pc' = pc /\ mine' = mine
      /\ \A d \in Commands : command'[d].result = command[d].result
  <2>1. ASSUME NEW s \in Sandboxes, Read(s)
        PROVE  \A d \in Commands : command'[d].result = command[d].result
    <3> DEFINE e == Head(sandbox[s].pipe)
    <3>1. CASE e[1] \in sandbox[s].registered /\ Room(e[1])
      <4>1. e \in Event /\ e[1] \in Commands
        <5>1. e[1] \in Commands
          BY <3>1, Fields
        <5>2. e \in Event \cup {Ready}
          BY <2>1, Fields DEF Read
        <5> QED
          BY <5>1, <5>2 DEF Ready
      <4>2. command' = [command EXCEPT ![e[1]] = Put(e[1], e)]
        BY <2>1, <3>1 DEF Read
      <4> HIDE DEF e
      <4>3. Put(e[1], e).result = command[e[1]].result
        BY <4>1, PutDoes
      <4> QED
        BY <4>1, <4>2, <4>3 DEF Shapes
    <3>2. CASE ~(e[1] \in sandbox[s].registered /\ Room(e[1]))
      BY <2>1, <3>2 DEF Read
    <3> QED
      BY <3>1, <3>2
  <2>2. pc' = pc /\ mine' = mine /\ (command' = command \/ \E s \in Sandboxes : Read(s))
    BY DEF Spawn, SpawnFails, Output, SendExit, Read, ReadControl, BackgroundEnds, vars
  <2> QED
    BY <2>1, <2>2
<1>2. \A u \in Sandboxes : SandboxSteady(u)
  <2>1. CASE sandbox' = sandbox
    BY <2>1 DEF SandboxSteady
  <2>2. ASSUME NEW c \in Commands, SpawnFails(c) \/ Output(c) \/ SendExit(c)
        PROVE  \A u \in Sandboxes : SandboxSteady(u)
    <3>1. mine[c] \in Sandboxes
      BY <2>2 DEF SpawnFails, Output, SendExit, Works, Shapes
    <3>2. PICK x : sandbox' = [sandbox EXCEPT ![mine[c]].pipe = x]
      BY <2>2 DEF SpawnFails, Output, SendExit, Tell
    <3>3. sandbox' = [sandbox EXCEPT ![mine[c]] = [sandbox[mine[c]] EXCEPT !.pipe = x]]
      BY <3>2
    <3> QED
      BY <3>1, <3>3, OtherFields, FieldSteady
  <2>3. ASSUME NEW s \in Sandboxes, Read(s) PROVE \A u \in Sandboxes : SandboxSteady(u)
    <3>1. PICK x, y : sandbox' = [sandbox EXCEPT ![s].pipe = x, ![s].ready = y]
      BY <2>3 DEF Read
    <3> DEFINE r == [sandbox[s] EXCEPT !.pipe = x, !.ready = y]
    <3>2. sandbox' = [sandbox EXCEPT ![s] = r]
      BY <3>1
    <3>3. r.process = sandbox[s].process /\ r.background = sandbox[s].background
      BY OtherFields
    <3> HIDE DEF r
    <3> QED
      BY <3>2, <3>3, FieldSteady
  <2>4. ASSUME NEW s \in Sandboxes, ReadControl(s) PROVE \A u \in Sandboxes : SandboxSteady(u)
    BY <2>4, ControlTyped DEF ReadControl, SandboxSteady
  <2>5. ASSUME NEW s \in Sandboxes, NEW c \in Commands, BackgroundEnds(s, c)
        PROVE  \A u \in Sandboxes : SandboxSteady(u)
    <3> DEFINE b == sandbox[s].background \ {c}
    <3>1. b \in SUBSET Commands /\ b \subseteq sandbox[s].background
      BY Fields
    <3>2. sandbox' = [sandbox EXCEPT ![s].background = b]
      BY <2>5 DEF BackgroundEnds
    <3> HIDE DEF b
    <3> QED
      BY <3>1, <3>2, BackgroundTyped DEF SandboxSteady, SandboxesKept
  <2> QED
    BY <2>1, <2>2, <2>3, <2>4, <2>5 DEF Spawn, vars
<1> QED
  BY <1>1, <1>2, SteadyKeeps DEF Steady, CallSteady, GivenUp

\* A shell that ends leaves its group only where it ran.
LEMMA FinishStep ==
  ASSUME IInv, BInv, NEW c \in Commands, Finish(c)
  PROVE  BInv'
<1> USE Names DEF IInv
<1>1. /\ mine[c] \in Sandboxes /\ sandbox[mine[c]].process = "up"
      /\ pc' = pc /\ mine' = mine /\ command' = command
  BY DEF Finish, Works, Of, Shapes
<1>2. PICK left \in SUBSET {c} :
        sandbox' = [sandbox EXCEPT ![mine[c]].background = @ \cup left]
  BY DEF Finish
<1>3. /\ \A u \in Sandboxes : sandbox'[u].process = sandbox[u].process
      /\ \A u \in Sandboxes : u # mine[c] => sandbox'[u].background = sandbox[u].background
      /\ sandbox'[mine[c]].background \subseteq sandbox[mine[c]].background \cup {c}
  <2> DEFINE s == mine[c]
             b == sandbox[s].background \cup left
  <2>1. b \in SUBSET Commands /\ b \subseteq sandbox[s].background \cup {c}
    BY <1>1, Fields
  <2>2. s \in Sandboxes /\ sandbox' = [sandbox EXCEPT ![s].background = b]
    BY <1>1, <1>2
  <2> HIDE DEF b, s
  <2>3. /\ \A u \in Sandboxes : sandbox'[u].process = sandbox[u].process
        /\ \A u \in Sandboxes : sandbox'[u].background = IF u = s THEN b ELSE sandbox[u].background
    BY <2>1, <2>2, BackgroundTyped DEF SandboxesKept
  <2> QED
    BY <2>1, <2>2, <2>3 DEF s
<1>4. BackgroundIsMine'
  <2> SUFFICES ASSUME NEW u \in Sandboxes, NEW d \in sandbox'[u].background
               PROVE  sandbox'[u].process = "up" /\ (mine'[d] = u \/ pc'[d] = "done")
    BY DEF BackgroundIsMine
  <2>1. CASE d \in sandbox[u].background
    BY <1>1, <1>3, <2>1 DEF BInv, BackgroundIsMine
  <2>2. CASE d \notin sandbox[u].background
    BY <1>1, <1>3, <2>2
  <2> QED
    BY <2>1, <2>2
<1>5. LostIsDead'
  <2> SUFFICES ASSUME NEW d \in Commands, GivenUp(d)' PROVE sandbox'[mine'[d]].process = "dead"
    BY DEF LostIsDead
  <2>1. GivenUp(d) /\ mine[d] \in Sandboxes /\ sandbox[mine[d]].process = "dead"
    BY <1>1, Homes DEF BInv, LostIsDead, GivenUp
  <2> QED
    BY <1>1, <1>3, <2>1
<1> QED
  BY <1>4, <1>5 DEF BInv

\* A sandbox that ends takes everything in it along.
LEMMA EndedStep ==
  ASSUME IInv, BInv, NEW s \in Sandboxes, Ended(s)
  PROVE  BInv'
<1> USE Names DEF IInv
<1>1. pc' = pc /\ mine' = mine /\ command' = command
  BY DEF Ended
<1>2. /\ sandbox'[s].process = "dead" /\ sandbox'[s].background = {}
      /\ \A u \in Sandboxes : u # s => sandbox'[u] = sandbox[u]
  <2> DEFINE r == [sandbox[s] EXCEPT !.process = "dead", !.background = {}]
  <2>1. r.process = "dead" /\ r.background = {}
    BY DEF Shapes, Sandbox
  <2>2. sandbox' = [sandbox EXCEPT ![s] = r]
    BY DEF Ended
  <2> HIDE DEF r
  <2> QED
    BY <2>1, <2>2 DEF Shapes
<1>3. BackgroundIsMine'
  BY <1>1, <1>2 DEF BInv, BackgroundIsMine
<1>4. LostIsDead'
  <2> SUFFICES ASSUME NEW d \in Commands, GivenUp(d)' PROVE sandbox'[mine'[d]].process = "dead"
    BY DEF LostIsDead
  <2>1. GivenUp(d) /\ mine[d] \in Sandboxes /\ sandbox[mine[d]].process = "dead"
    BY <1>1, Homes DEF BInv, LostIsDead, GivenUp
  <2> QED
    BY <1>1, <1>2, <2>1
<1> QED
  BY <1>3, <1>4 DEF BInv

\* Every step keeps what is said of the background.
LEMMA BackgroundKept ==
  ASSUME IInv, BInv, [Next]_vars
  PROVE  BInv'
<1>1. ASSUME NEW c \in Commands, HostStep(c) PROVE BInv'
  <2>1. CASE \/ Acquire(c) \/ Started(c) \/ NotStarted(c) \/ Register(c) \/ Send(c)
             \/ Unconfirmed(c) \/ SeeLost(c)
    BY <2>1, CallSteps
  <2>2. CASE Kill(c) \/ Take(c) \/ StartSandbox(c)
    BY <2>2, KillStep, TakeStep, StartStep
  <2>3. CASE Discard(c) \/ Unhealthy(c) \/ Found(c)
    BY <2>3, LosingSteps
  <2>4. CASE Release(c)
    BY <2>4, LeavingSteps
  <2> QED
    BY <1>1, <2>1, <2>2, <2>3, <2>4 DEF HostStep
<1>2. ASSUME NEW c \in Commands, WorkerStep(c) PROVE BInv'
  BY <1>2, MessageSteps, FinishStep DEF WorkerStep
<1>3. ASSUME NEW t \in Threads, StopStep(t) PROVE BInv'
  <2>1. CASE CloseStdin(t) \/ Stopped(t)
    BY <2>1, LeavingSteps
  <2>2. CASE KillSandbox(t)
    <3>1. mine[t] \in Sandboxes
      BY <2>2, Homes DEF KillSandbox, At
    <3> QED
      BY <2>2, <3>1, EndedStep DEF KillSandbox
  <2> QED
    BY <1>3, <2>1, <2>2 DEF StopStep
<1>4. ASSUME NEW s \in Sandboxes, SandboxStep(s) PROVE BInv'
  <2>1. CASE WorkerExits(s) \/ Crash(s)
    BY <2>1, EndedStep DEF WorkerExits, Crash
  <2>2. CASE ReaderEnds(s)
    BY <2>2, LosingSteps
  <2>3. CASE ReadControl(s) \/ Read(s) \/ \E c \in Commands : BackgroundEnds(s, c)
    BY <2>3, MessageSteps
  <2> QED
    BY <1>4, <2>1, <2>2, <2>3 DEF SandboxStep
<1>5. ASSUME Shutdown PROVE BInv'
  BY <1>5, LosingSteps
<1> QED
  BY <1>1, <1>2, <1>3, <1>4, <1>5, MessageSteps DEF Next

\* The invariant holds in every state of every behaviour.
THEOREM Invariance == Spec => []IInv
<1>1. IInv /\ [Next]_vars => IInv'
  BY StepKeeps
<1> QED
  BY InitHolds, <1>1, PTL DEF Spec

\* The types of the variables, and that the queue of a command (next_event) never holds
\* more than _EVENT_QUEUE_SIZE events.
THEOREM TypeCorrect == Spec => []TypeOK
<1>1. IInv => TypeOK
  <2> SUFFICES ASSUME IInv PROVE TypeOK
    OBVIOUS
  <2>1. ASSUME NEW c \in Commands PROVE command[c] \in Command
    <3>1. command[c] \in AnyCommand /\ command[c].seen \in 0..MaxOutput
      BY BoundAssumption, Fields DEF IInv, Shapes, SeenWasMade
    <3> QED
      BY <3>1 DEF AnyCommand, Command, Results
  <2>2. command \in [Commands -> Command]
    BY <2>1 DEF IInv, Shapes
  <2> QED
    BY <2>2 DEF IInv, Shapes, QueuesFit, TypeOK
<1> QED
  BY <1>1, Invariance, PTL

\* The background is accounted for in every state of every behaviour.
LEMMA BackgroundHolds == Spec => []BInv
<1>1. Init => BInv
  BY FreshTyped, Names DEF Init, BInv, BackgroundIsMine, LostIsDead, GivenUp
<1>2. IInv /\ BInv /\ [Next]_vars => BInv'
  BY BackgroundKept
<1> QED
  BY Invariance, <1>1, <1>2, PTL DEF Spec

\* A tool call returns only when its shell ended.  What the shell left in the background
\* goes on in a sandbox that is up (sandbox_worker, _run), but not for a call that was told
\* that its sandbox is lost or its kill not confirmed.  No sandbox runs that the pool does
\* not hold and nobody starts, uses or stops.
THEOREM CommandsAreAccounted == Spec => []CommandsAccounted
<1>1. IInv /\ BInv => CommandsAccounted
  <2> SUFFICES ASSUME IInv, BInv PROVE CommandsAccounted
    OBVIOUS
  <2>1. NoCommandLeft
    BY Names DEF IInv, Places, LivesRuns, NoCommandLeft, At
  <2>2. SandboxesAccounted
    BY DEF IInv, Owned, SandboxesAccounted
  <2>3. BackgroundKnown
    <3> SUFFICES ASSUME NEW s \in Sandboxes, NEW c \in sandbox[s].background
                 PROVE  sandbox[s].process = "up" /\ ~GivenUp(c)
      BY DEF BackgroundKnown, GivenUp, At
    <3>1. c \in Commands /\ sandbox[s].process = "up" /\ (mine[c] = s \/ pc[c] = "done")
      BY Fields DEF IInv, BInv, BackgroundIsMine
    <3> QED
      BY <3>1 DEF BInv, LostIsDead, GivenUp
  <2> QED
    BY <2>1, <2>2, <2>3 DEF CommandsAccounted
<1> QED
  BY <1>1, Invariance, BackgroundHolds, PTL

\* A tool that is told the exit of its command has got every chunk of its output.
THEOREM ExitIsAfterOutput == Spec => []ExitAfterOutput
<1>1. IInv => ExitAfterOutput
  BY DEF IInv, ExitSettled, ExitAfterOutput
<1> QED
  BY <1>1, Invariance, PTL

=============================================================================

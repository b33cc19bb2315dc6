----------------------- MODULE SessionOwnershipProofs -----------------------
(***************************************************************************)
(* Proofs about SessionOwnership: who holds the lock of a session, for any *)
(* number of windows, callers and sessions.                                *)
(*                                                                         *)
(* A step belongs to one window, and in it to one caller.  OtherWindows    *)
(* and OtherCallers say once that the rest is not disturbed; what is left  *)
(* of an action is what is true of its window when the operation has ended *)
(* (LeavingKeeps), goes on (StayingKeeps), or is not in the runner         *)
(* (OutsideKeeps).                                                         *)
(***************************************************************************)
EXTENDS SessionOwnership, TLAPS

-----------------------------------------------------------------------------
(* The inductive invariant. *)

Persisting == {"persisting", "creating", "adopting"}
\* Phases in which the operation may hold a lease it has not handed over.
Carrying   == {"creating", "adopting", "acquired", "loading", "applied"}
\* Phases of a switch or a wait that go on to its target.
Targeting  == {"switching", "waiting", "acquired", "loading", "applied"}

\* What is true of a call in each of its phases.
CallerIsInside(w, c) == Phase(w, c) \notin {"idle", "checked"} <=> opLock[w] = c

HasTarget(w, c) ==
  \/ Phase(w, c) \in Targeting
  \/ Phase(w, c) \in {"checked", "entered"} /\ op[w][c].kind \in {"switch", "wait"}
TargetIsSaved(w, c) == HasTarget(w, c) => op[w][c].target \in rows

LeaseIsCarried(w, c) ==
  /\ Phase(w, c) \notin Carrying => op[w][c].lease = NoThread
  /\ Phase(w, c) \in {"creating", "adopting"} => op[w][c].lease = draft[w]
  /\ Phase(w, c) = "acquired" => op[w][c].lease # NoThread
  /\ Phase(w, c) \in {"acquired", "loading", "applied"} /\ op[w][c].lease # NoThread
       => op[w][c].lease = op[w][c].target /\ op[w][c].lease # lease[w]

PersistsItsDraft(w, c) == Phase(w, c) \in Persisting => draft[w] = threadId[w]

\* After close() has drained the runner only late operations are inside it.
LateIsKnown(w, c) ==
  closing[w] \in {"drained", "confirmed", "done"} /\ opLock[w] = c => op[w][c].late

WritesItsLease(w, c) ==
  Phase(w, c) = "writing" /\ ~op[w][c].late => lease[w] = threadId[w] /\ draft[w] = NoThread

CallOK(w, c) ==
  /\ CallerIsInside(w, c)
  /\ TargetIsSaved(w, c)
  /\ LeaseIsCarried(w, c)
  /\ PersistsItsDraft(w, c)
  /\ LateIsKnown(w, c)
  /\ WritesItsLease(w, c)

\* The lease the operation in progress carries.
Carried(w) == IF opLock[w] = NoCaller THEN NoThread ELSE op[w][opLock[w]].lease
\* The phase of the operation in progress.
Stage(w) == IF opLock[w] = NoCaller THEN "idle" ELSE Phase(w, opLock[w])

\* A window holds the lock of the session it has the lease of, unless that is
\* its draft, and of the one its operation carries.
LocksAccounted(w) ==
  \A t \in Threads : locked[t] = w <=> (lease[w] = t /\ draft[w] # t) \/ Carried(w) = t

DraftIsOwn(w) ==
  /\ draft[w] # NoThread => lease[w] \in {draft[w], NoThread}
  /\ draft[w] \in rows => Stage(w) = "adopting"

GraphIsCurrent(w) ==
  config[w] = IF Stage(w) = "applied" THEN op[w][opLock[w]].target ELSE threadId[w]

WindowOK(w) ==
  /\ \A c \in Callers : CallOK(w, c)
  /\ LocksAccounted(w)
  /\ DraftIsOwn(w)
  /\ GraphIsCurrent(w)
  /\ pendingSwitch[w] \in rows \cup {NoThread}

DraftsDiffer ==
  \A v, w \in Windows : draft[v] = draft[w] /\ draft[v] # NoThread => v = w

IInv == TypeOK /\ DraftsDiffer /\ \A w \in Windows : WindowOK(w)

-----------------------------------------------------------------------------
(* Type correctness. *)

\* Idle is the record of a caller that is not in the runner.
LEMMA IdleIsOp == Idle \in Op
  BY DEF Idle, Op, Phases, Kinds, MaybeThread

\* Letting a lease go leaves a function from threads to windows.
LEMMA UnlockedType ==
  ASSUME NEW locks \in [Threads -> Windows \cup {NoWindow}], NEW w, NEW t
  PROVE  Unlocked(locks, w, t) \in [Threads -> Windows \cup {NoWindow}]
  BY DEF Unlocked

\* What a step does to the calls of other callers, and to its own.
OnlyCall(w, c) ==
  /\ op' \in [Windows -> [Callers -> Op]]
  /\ \A v \in Windows, d \in Callers : v # w \/ d # c => op'[v][d] = op[v][d]

Becomes(w, c, phase, carried, late) ==
  /\ op'[w][c].phase = phase /\ op'[w][c].lease = carried /\ op'[w][c].late = late
  /\ op'[w][c].kind = op[w][c].kind /\ op'[w][c].target = op[w][c].target

\* One caller's record is replaced.
LEMMA CallReplaced ==
  ASSUME op \in [Windows -> [Callers -> Op]], NEW w \in Windows, NEW c \in Callers,
         NEW r \in Op, op' = [op EXCEPT ![w][c] = r]
  PROVE  OnlyCall(w, c) /\ op'[w][c] = r
  BY DEF OnlyCall

\* The call goes on to another phase.
LEMMA CallMoves ==
  ASSUME op \in [Windows -> [Callers -> Op]], NEW w \in Windows, NEW c \in Callers,
         NEW p \in Phases
  PROVE  op' = [op EXCEPT ![w][c].phase = p]
           => OnlyCall(w, c) /\ Becomes(w, c, p, op[w][c].lease, op[w][c].late)
<1> DEFINE r == [op[w][c] EXCEPT !.phase = p]
<1>1. r \in Op
  <2>1. op[w][c] \in Op
    OBVIOUS
  <2> QED
    BY <2>1 DEF Op
<1>2. r.phase = p /\ r.lease = op[w][c].lease /\ r.late = op[w][c].late
      /\ r.kind = op[w][c].kind /\ r.target = op[w][c].target
  BY DEF Op
<1>3. ASSUME op' = [op EXCEPT ![w][c].phase = p]
      PROVE  op' = [op EXCEPT ![w][c] = r]
  BY <1>3
<1> HIDE DEF r
<1>4. ASSUME op' = [op EXCEPT ![w][c] = r]
      PROVE  OnlyCall(w, c) /\ Becomes(w, c, p, op[w][c].lease, op[w][c].late)
  <2>1. OnlyCall(w, c) /\ op'[w][c] = r
    BY <1>1, <1>4 DEF OnlyCall
  <2> QED
    BY <1>2, <2>1 DEF Becomes
<1> QED
  BY <1>3, <1>4

\* It takes a lease, or gives one away.
LEMMA CallTakes ==
  ASSUME op \in [Windows -> [Callers -> Op]], NEW w \in Windows, NEW c \in Callers,
         NEW p \in Phases, NEW t \in MaybeThread
  PROVE  op' = [op EXCEPT ![w][c].phase = p, ![w][c].lease = t]
           => OnlyCall(w, c) /\ Becomes(w, c, p, t, op[w][c].late)
<1> DEFINE r == [op[w][c] EXCEPT !.phase = p, !.lease = t]
<1>1. r \in Op
  <2>1. op[w][c] \in Op
    OBVIOUS
  <2> QED
    BY <2>1 DEF Op
<1>2. r.phase = p /\ r.lease = t /\ r.late = op[w][c].late
      /\ r.kind = op[w][c].kind /\ r.target = op[w][c].target
  BY DEF Op
<1>3. ASSUME op' = [op EXCEPT ![w][c].phase = p, ![w][c].lease = t]
      PROVE  op' = [op EXCEPT ![w][c] = r]
  BY <1>3
<1> HIDE DEF r
<1>4. ASSUME op' = [op EXCEPT ![w][c] = r]
      PROVE  OnlyCall(w, c) /\ Becomes(w, c, p, t, op[w][c].late)
  <2>1. OnlyCall(w, c) /\ op'[w][c] = r
    BY <1>1, <1>4 DEF OnlyCall
  <2> QED
    BY <1>2, <2>1 DEF Becomes
<1> QED
  BY <1>3, <1>4

\* It enters the runner.
LEMMA CallEnters ==
  ASSUME op \in [Windows -> [Callers -> Op]], NEW w \in Windows, NEW c \in Callers,
         NEW p \in Phases, NEW b \in BOOLEAN
  PROVE  op' = [op EXCEPT ![w][c].phase = p, ![w][c].late = b]
           => OnlyCall(w, c) /\ Becomes(w, c, p, op[w][c].lease, b)
<1> DEFINE r == [op[w][c] EXCEPT !.phase = p, !.late = b]
<1>1. r \in Op
  <2>1. op[w][c] \in Op
    OBVIOUS
  <2> QED
    BY <2>1 DEF Op
<1>2. r.phase = p /\ r.lease = op[w][c].lease /\ r.late = b
      /\ r.kind = op[w][c].kind /\ r.target = op[w][c].target
  BY DEF Op
<1>3. ASSUME op' = [op EXCEPT ![w][c].phase = p, ![w][c].late = b]
      PROVE  op' = [op EXCEPT ![w][c] = r]
  BY <1>3
<1> HIDE DEF r
<1>4. ASSUME op' = [op EXCEPT ![w][c] = r]
      PROVE  OnlyCall(w, c) /\ Becomes(w, c, p, op[w][c].lease, b)
  <2>1. OnlyCall(w, c) /\ op'[w][c] = r
    BY <1>1, <1>4 DEF OnlyCall
  <2> QED
    BY <1>2, <2>1 DEF Becomes
<1> QED
  BY <1>3, <1>4

\* It is told to stop waiting.
LEMMA CallCancelled ==
  ASSUME op \in [Windows -> [Callers -> Op]], NEW w \in Windows, NEW c \in Callers
  PROVE  op' = [op EXCEPT ![w][c].cancelled = TRUE]
           => OnlyCall(w, c) /\ Becomes(w, c, op[w][c].phase, op[w][c].lease, op[w][c].late)
<1> DEFINE r == [op[w][c] EXCEPT !.cancelled = TRUE]
<1>1. r \in Op
  <2>1. op[w][c] \in Op
    OBVIOUS
  <2> QED
    BY <2>1 DEF Op
<1>2. r.phase = op[w][c].phase /\ r.lease = op[w][c].lease /\ r.late = op[w][c].late
      /\ r.kind = op[w][c].kind /\ r.target = op[w][c].target
  BY DEF Op
<1>3. ASSUME op' = [op EXCEPT ![w][c].cancelled = TRUE]
      PROVE  op' = [op EXCEPT ![w][c] = r]
  BY <1>3
<1> HIDE DEF r
<1>4. ASSUME op' = [op EXCEPT ![w][c] = r]
      PROVE  OnlyCall(w, c) /\ Becomes(w, c, op[w][c].phase, op[w][c].lease, op[w][c].late)
  <2>1. OnlyCall(w, c) /\ op'[w][c] = r
    BY <1>1, <1>4 DEF OnlyCall
  <2> QED
    BY <1>2, <2>1 DEF Becomes
<1> QED
  BY <1>3, <1>4

\* A caller leaves the runner.
LEMMA LeaveTypes ==
  ASSUME TypeOK, NEW w \in Windows, NEW c \in Callers
  PROVE  Leave(w, c) => /\ OnlyCall(w, c) /\ op'[w][c] = Idle
                        /\ opLock' \in [Windows -> Callers \cup {NoCaller}]
                        /\ opLock' = [opLock EXCEPT ![w] = NoCaller]
<1>1. op' = [op EXCEPT ![w][c] = Idle] => OnlyCall(w, c) /\ op'[w][c] = Idle
  BY IdleIsOp, CallReplaced DEF TypeOK
<1> QED
  BY <1>1 DEF Leave, TypeOK

\* It goes on.
LEMMA GoTypes ==
  ASSUME TypeOK, NEW w \in Windows, NEW c \in Callers, NEW p \in Phases
  PROVE  Go(w, c, p) => /\ OnlyCall(w, c) /\ Becomes(w, c, p, op[w][c].lease, op[w][c].late)
                        /\ UNCHANGED opLock
  BY CallMoves DEF Go, TypeOK

-----------------------------------------------------------------------------
(* What a step of one window cannot disturb. *)

\* The memory of the other windows.
Alone(w) ==
  \A v \in Windows : v # w =>
    /\ threadId'[v] = threadId[v] /\ lease'[v] = lease[v] /\ draft'[v] = draft[v]
    /\ pendingSwitch'[v] = pendingSwitch[v] /\ config'[v] = config[v]
    /\ opLock'[v] = opLock[v] /\ closing'[v] = closing[v]
    /\ \A d \in Callers : op'[v][d] = op[v][d]
    /\ \A t \in Threads : locked'[t] = v <=> locked[t] = v

\* The catalog gains a window's draft at most, and no two drafts become one.
Grows(w) ==
  /\ rows \subseteq rows' /\ \A t \in rows' : t \in rows \/ t = draft[w]
  /\ draft'[w] # NoThread => \A v \in Windows : v # w => draft[v] # draft'[w]

\* A step of window w keeps the invariant when it keeps it for w.
LEMMA OtherWindows ==
  ASSUME IInv, TypeOK', NEW w \in Windows, Alone(w), Grows(w), WindowOK(w)'
  PROVE  IInv'
<1>1. DraftsDiffer'
  BY DEF IInv, DraftsDiffer, Alone, Grows
<1>2. ASSUME NEW v \in Windows, v # w
      PROVE  WindowOK(v)'
  <2>1. WindowOK(v)
    BY DEF IInv
  <2>2. /\ threadId'[v] = threadId[v] /\ lease'[v] = lease[v] /\ draft'[v] = draft[v]
        /\ pendingSwitch'[v] = pendingSwitch[v] /\ config'[v] = config[v]
        /\ opLock'[v] = opLock[v] /\ closing'[v] = closing[v]
        /\ \A d \in Callers : op'[v][d] = op[v][d]
        /\ \A t \in Threads : locked'[t] = v <=> locked[t] = v
    BY <1>2 DEF Alone
  <2>3. rows \subseteq rows'
    BY DEF Grows
  <2>4. ASSUME NEW d \in Callers PROVE CallOK(v, d)'
    <3>1. CallOK(v, d)
      BY <2>1 DEF WindowOK
    <3> QED
      BY <2>2, <2>3, <3>1 DEF CallOK, CallerIsInside, TargetIsSaved, HasTarget, LeaseIsCarried,
         PersistsItsDraft, LateIsKnown, WritesItsLease, Phase
  <2>5. opLock[v] \in Callers \cup {NoCaller}
    BY DEF IInv, TypeOK
  <2>6. Carried(v)' = Carried(v) /\ Stage(v)' = Stage(v)
    BY <2>2, <2>5 DEF Carried, Stage, Phase
  <2>7. LocksAccounted(v)'
    <3>1. LocksAccounted(v)
      BY <2>1 DEF WindowOK
    <3> QED
      BY <2>2, <2>6, <3>1 DEF LocksAccounted
  <2>8. DraftIsOwn(v)'
    <3>1. DraftIsOwn(v)
      BY <2>1 DEF WindowOK
    <3>2. draft[v] \in rows' => draft[v] \in rows
      <4>1. draft[v] = draft[w] => draft[v] = NoThread
        BY <1>2 DEF IInv, DraftsDiffer
      <4>2. rows' \subseteq Threads
        BY DEF TypeOK
      <4> QED
        BY <4>1, <4>2, NoneAssumption DEF Grows
    <3> QED
      BY <2>2, <2>6, <3>1, <3>2 DEF DraftIsOwn
  <2>9. GraphIsCurrent(v)'
    <3>1. GraphIsCurrent(v)
      BY <2>1 DEF WindowOK
    <3>2. opLock[v] \in Callers => op'[v][opLock[v]] = op[v][opLock[v]]
      BY <2>2
    <3>3. Stage(v) = "applied" => opLock[v] \in Callers
      BY <2>5 DEF Stage
    <3> QED
      BY <2>2, <2>6, <3>1, <3>2, <3>3 DEF GraphIsCurrent
  <2>10. pendingSwitch'[v] \in rows' \cup {NoThread}
    BY <2>1, <2>2, <2>3 DEF WindowOK
  <2> QED
    BY <2>4, <2>7, <2>8, <2>9, <2>10 DEF WindowOK
<1> QED
  BY <1>1, <1>2 DEF IInv

\* A step of the caller inside the runner keeps what is true of the others.
LEMMA OtherCallers ==
  ASSUME IInv, NEW w \in Windows, NEW c \in Callers, OnlyCall(w, c), rows \subseteq rows',
         opLock[w] \in {c, NoCaller}, opLock'[w] \in {c, NoCaller},
         NEW d \in Callers, d # c
  PROVE  CallOK(w, d)'
<1>1. CallOK(w, d)
  BY DEF IInv, WindowOK
<1>2. op'[w][d] = op[w][d]
  BY DEF OnlyCall
<1>3. Phase(w, d) \in {"idle", "checked"}
  BY <1>1, NoneAssumption DEF CallOK, CallerIsInside
<1> QED
  BY <1>1, <1>2, <1>3, NoneAssumption DEF CallOK, CallerIsInside, TargetIsSaved, HasTarget,
     LeaseIsCarried, PersistsItsDraft, LateIsKnown, WritesItsLease, Phase, Targeting, Carrying,
     Persisting

\* What is true of a window between two operations.
Settled(w) ==
  /\ \A t \in Threads : locked[t] = w <=> lease[w] = t /\ draft[w] # t
  /\ draft[w] # NoThread => lease[w] \in {draft[w], NoThread}
  /\ draft[w] \notin rows
  /\ config[w] = threadId[w]
  /\ pendingSwitch[w] \in rows \cup {NoThread}

\* An operation ends.
LEMMA LeavingKeeps ==
  ASSUME IInv, TypeOK', NEW w \in Windows, NEW c \in Callers, Leave(w, c), opLock[w] = c,
         Alone(w), Grows(w), Settled(w)'
  PROVE  IInv'
<1>1. OnlyCall(w, c) /\ op'[w][c] = Idle /\ opLock'[w] = NoCaller
  BY LeaveTypes DEF IInv, TypeOK
<1>2. CallOK(w, c)'
  BY <1>1, NoneAssumption DEF CallOK, CallerIsInside, TargetIsSaved, HasTarget, LeaseIsCarried,
     PersistsItsDraft, LateIsKnown, WritesItsLease, Phase, Idle, Targeting, Carrying,
     Persisting
<1>3. \A d \in Callers : CallOK(w, d)'
  BY <1>1, <1>2, OtherCallers DEF Grows
<1>4. Carried(w)' = NoThread /\ Stage(w)' = "idle"
  BY <1>1 DEF Carried, Stage
<1>5. LocksAccounted(w)' /\ DraftIsOwn(w)' /\ GraphIsCurrent(w)'
  BY <1>4, NoneAssumption DEF Settled, LocksAccounted, DraftIsOwn, GraphIsCurrent
<1>6. WindowOK(w)'
  BY <1>3, <1>5 DEF WindowOK, Settled
<1> QED
  BY <1>6, OtherWindows

\* What is true of a window whose caller c is inside.
Within(w, c) ==
  /\ CallOK(w, c)
  /\ \A t \in Threads :
       locked[t] = w <=> (lease[w] = t /\ draft[w] # t) \/ op[w][c].lease = t
  /\ draft[w] # NoThread => lease[w] \in {draft[w], NoThread}
  /\ draft[w] \in rows => Phase(w, c) = "adopting"
  /\ config[w] = IF Phase(w, c) = "applied" THEN op[w][c].target ELSE threadId[w]
  /\ pendingSwitch[w] \in rows \cup {NoThread}

\* An operation is in progress.
LEMMA InsideIs ==
  ASSUME NEW w \in Windows, NEW c \in Callers, opLock[w] = c, WindowOK(w)
  PROVE  Within(w, c)
<1>1. Carried(w) = op[w][c].lease /\ Stage(w) = Phase(w, c)
  BY NoneAssumption DEF Carried, Stage
<1> QED
  BY <1>1 DEF WindowOK, LocksAccounted, DraftIsOwn, GraphIsCurrent, Within

\* No operation is in progress.
LEMMA SettledIs ==
  ASSUME NEW w \in Windows, opLock[w] = NoCaller, WindowOK(w), TypeOK
  PROVE  Settled(w)
<1>1. Carried(w) = NoThread /\ Stage(w) = "idle"
  BY DEF Carried, Stage
<1> QED
  BY <1>1, NoneAssumption DEF WindowOK, LocksAccounted, DraftIsOwn, GraphIsCurrent, Settled

\* It goes on, or enters.
LEMMA StayingKeeps ==
  ASSUME IInv, TypeOK', NEW w \in Windows, NEW c \in Callers, OnlyCall(w, c),
         opLock[w] \in {c, NoCaller}, opLock'[w] = c, Alone(w), Grows(w), Within(w, c)'
  PROVE  IInv'
<1>1. \A d \in Callers : CallOK(w, d)'
  BY OtherCallers DEF Grows, Within
<1>2. Carried(w)' = op'[w][c].lease /\ Stage(w)' = Phase(w, c)'
  BY NoneAssumption DEF Carried, Stage
<1>3. LocksAccounted(w)' /\ DraftIsOwn(w)' /\ GraphIsCurrent(w)'
  BY <1>2 DEF Within, LocksAccounted, DraftIsOwn, GraphIsCurrent
<1>4. WindowOK(w)'
  BY <1>1, <1>3 DEF WindowOK, Within
<1> QED
  BY <1>4, OtherWindows

\* A caller outside the runner, or the wait it makes, changes.
LEMMA OutsideKeeps ==
  ASSUME IInv, TypeOK', NEW w \in Windows, NEW c \in Callers, OnlyCall(w, c),
         UNCHANGED <<rows, locked, leaseVars, config, opLock, closing>>, CallOK(w, c)',
         opLock[w] = c => /\ op'[w][c].phase = op[w][c].phase
                          /\ op'[w][c].lease = op[w][c].lease
                          /\ op'[w][c].target = op[w][c].target
  PROVE  IInv'
<1>1. WindowOK(w) /\ opLock[w] \in Callers \cup {NoCaller}
  BY DEF IInv, TypeOK
<1>2. ASSUME NEW d \in Callers, d # c PROVE CallOK(w, d)'
  <2>1. CallOK(w, d) /\ op'[w][d] = op[w][d]
    BY <1>1, <1>2 DEF WindowOK, OnlyCall
  <2> QED
    BY <2>1 DEF CallOK, CallerIsInside, TargetIsSaved, HasTarget, LeaseIsCarried,
       PersistsItsDraft, LateIsKnown, WritesItsLease, Phase, leaseVars
<1>3. Carried(w)' = Carried(w) /\ Stage(w)' = Stage(w)
  BY <1>1 DEF Carried, Stage, Phase, OnlyCall
<1>4. Stage(w) = "applied" => op'[w][opLock[w]].target = op[w][opLock[w]].target
  BY <1>1 DEF Stage, OnlyCall
<1>5. LocksAccounted(w)' /\ DraftIsOwn(w)' /\ GraphIsCurrent(w)'
  BY <1>1, <1>3, <1>4 DEF WindowOK, LocksAccounted, DraftIsOwn, GraphIsCurrent, leaseVars
<1>6. WindowOK(w)'
  BY <1>1, <1>2, <1>5 DEF WindowOK, leaseVars
<1>7. Alone(w) /\ Grows(w)
  BY DEF Alone, Grows, OnlyCall, leaseVars, IInv, DraftsDiffer
<1> QED
  BY <1>6, <1>7, OtherWindows

\* What letting a lease go does to each lock.
LEMMA UnlockedIs ==
  ASSUME locked \in [Threads -> Windows \cup {NoWindow}], NEW w \in Windows, NEW t
  PROVE  /\ Unlocked(locked, w, t) \in [Threads -> Windows \cup {NoWindow}]
         /\ \A u \in Threads, v \in Windows :
              Unlocked(locked, w, t)[u] = v <=> locked[u] = v /\ ~(v = w /\ u = t)
  BY NoneAssumption DEF Unlocked

\* The lease of a draft has no lock.
LEMMA DropLeaseIs ==
  ASSUME locked \in [Threads -> Windows \cup {NoWindow}], NEW w \in Windows
  PROVE  /\ DropLease(locked, w) \in [Threads -> Windows \cup {NoWindow}]
         /\ \A u \in Threads, v \in Windows :
              DropLease(locked, w)[u] = v
              <=> locked[u] = v /\ ~(v = w /\ u = lease[w] /\ lease[w] # draft[w])
  BY UnlockedIs DEF DropLease

\* A run is refused.
LEMMA RunRefusedKeeps ==
  ASSUME IInv, NEW w \in Windows, NEW c \in Callers, RunRefused(w, c)
  PROVE  IInv'
<1>1. TypeOK /\ WindowOK(w) /\ CallOK(w, c) /\ op[w][c] \in Op
  BY DEF IInv, WindowOK, TypeOK
<1>2. Leave(w, c) /\ opLock[w] = c
  BY <1>1 DEF RunRefused, TargetBusy, Is, CallOK, CallerIsInside
<1>3. Within(w, c)
  BY <1>1, <1>2, InsideIs
<1>4. /\ OnlyCall(w, c) /\ opLock' = [opLock EXCEPT ![w] = NoCaller]
      /\ op' \in [Windows -> [Callers -> Op]] /\ opLock' \in [Windows -> Callers \cup {NoCaller}]
  BY <1>1, <1>2, LeaveTypes DEF OnlyCall
<1>5. TypeOK'
  BY <1>1, <1>4 DEF RunRefused, TypeOK, Op, MaybeThread, leaseVars
<1>6. Alone(w)
  BY <1>1, <1>4 DEF RunRefused, Alone, OnlyCall, TypeOK, leaseVars
<1>7. Grows(w)
  BY <1>1, <1>4 DEF RunRefused, Grows, TypeOK, IInv, DraftsDiffer, leaseVars
<1>8. Settled(w)'
  BY <1>1, <1>4, <1>3, NoneAssumption DEF RunRefused, Settled, Within, TypeOK, Is, leaseVars,
     CallOK, LeaseIsCarried, TargetIsSaved, HasTarget, PersistsItsDraft, Carrying, Targeting,
     Persisting
<1> QED
  BY <1>2, <1>5, <1>6, <1>7, <1>8, LeavingKeeps

\* A switch is refused.
LEMMA SwitchRefusedKeeps ==
  ASSUME IInv, NEW w \in Windows, NEW c \in Callers, SwitchRefused(w, c)
  PROVE  IInv'
<1>1. TypeOK /\ WindowOK(w) /\ CallOK(w, c) /\ op[w][c] \in Op
  BY DEF IInv, WindowOK, TypeOK
<1>2. Leave(w, c) /\ opLock[w] = c
  BY <1>1 DEF SwitchRefused, TargetBusy, Is, CallOK, CallerIsInside
<1>3. Within(w, c)
  BY <1>1, <1>2, InsideIs
<1>4. /\ OnlyCall(w, c) /\ opLock' = [opLock EXCEPT ![w] = NoCaller]
      /\ op' \in [Windows -> [Callers -> Op]] /\ opLock' \in [Windows -> Callers \cup {NoCaller}]
  BY <1>1, <1>2, LeaveTypes DEF OnlyCall
<1>5. TypeOK'
  BY <1>1, <1>4 DEF SwitchRefused, TypeOK, Op, MaybeThread, leaseVars
<1>6. Alone(w)
  BY <1>1, <1>4 DEF SwitchRefused, Alone, OnlyCall, TypeOK, leaseVars
<1>7. Grows(w)
  BY <1>1, <1>4 DEF SwitchRefused, Grows, TypeOK, IInv, DraftsDiffer, leaseVars
<1>8. Settled(w)'
  BY <1>1, <1>4, <1>3, NoneAssumption DEF SwitchRefused, Settled, Within, TypeOK, Is, leaseVars,
     CallOK, LeaseIsCarried, TargetIsSaved, HasTarget, PersistsItsDraft, Carrying, Targeting,
     Persisting
<1> QED
  BY <1>2, <1>5, <1>6, <1>7, <1>8, LeavingKeeps

\* A new session is refused.
LEMMA NewRefusedKeeps ==
  ASSUME IInv, NEW w \in Windows, NEW c \in Callers, NewRefused(w, c)
  PROVE  IInv'
<1>1. TypeOK /\ WindowOK(w) /\ CallOK(w, c) /\ op[w][c] \in Op
  BY DEF IInv, WindowOK, TypeOK
<1>2. Leave(w, c) /\ opLock[w] = c
  BY <1>1 DEF NewRefused, TargetBusy, Is, CallOK, CallerIsInside
<1>3. Within(w, c)
  BY <1>1, <1>2, InsideIs
<1>4. /\ OnlyCall(w, c) /\ opLock' = [opLock EXCEPT ![w] = NoCaller]
      /\ op' \in [Windows -> [Callers -> Op]] /\ opLock' \in [Windows -> Callers \cup {NoCaller}]
  BY <1>1, <1>2, LeaveTypes DEF OnlyCall
<1>5. TypeOK'
  BY <1>1, <1>4 DEF NewRefused, TypeOK, Op, MaybeThread, leaseVars
<1>6. Alone(w)
  BY <1>1, <1>4 DEF NewRefused, Alone, OnlyCall, TypeOK, leaseVars
<1>7. Grows(w)
  BY <1>1, <1>4 DEF NewRefused, Grows, TypeOK, IInv, DraftsDiffer, leaseVars
<1>8. Settled(w)'
  BY <1>1, <1>4, <1>3, NoneAssumption DEF NewRefused, Settled, Within, TypeOK, Is, leaseVars,
     CallOK, LeaseIsCarried, TargetIsSaved, HasTarget, PersistsItsDraft, Carrying, Targeting,
     Persisting
<1> QED
  BY <1>2, <1>5, <1>6, <1>7, <1>8, LeavingKeeps

\* A run ends.
LEMMA EndRunKeeps ==
  ASSUME IInv, NEW w \in Windows, NEW c \in Callers, EndRun(w, c)
  PROVE  IInv'
<1>1. TypeOK /\ WindowOK(w) /\ CallOK(w, c) /\ op[w][c] \in Op
  BY DEF IInv, WindowOK, TypeOK
<1>2. Leave(w, c) /\ opLock[w] = c
  BY <1>1 DEF EndRun, TargetBusy, Is, CallOK, CallerIsInside
<1>3. Within(w, c)
  BY <1>1, <1>2, InsideIs
<1>4. /\ OnlyCall(w, c) /\ opLock' = [opLock EXCEPT ![w] = NoCaller]
      /\ op' \in [Windows -> [Callers -> Op]] /\ opLock' \in [Windows -> Callers \cup {NoCaller}]
  BY <1>1, <1>2, LeaveTypes DEF OnlyCall
<1>5. TypeOK'
  BY <1>1, <1>4 DEF EndRun, TypeOK, Op, MaybeThread, leaseVars
<1>6. Alone(w)
  BY <1>1, <1>4 DEF EndRun, Alone, OnlyCall, TypeOK, leaseVars
<1>7. Grows(w)
  BY <1>1, <1>4 DEF EndRun, Grows, TypeOK, IInv, DraftsDiffer, leaseVars
<1>8. Settled(w)'
  BY <1>1, <1>4, <1>3, NoneAssumption DEF EndRun, Settled, Within, TypeOK, Is, leaseVars,
     CallOK, LeaseIsCarried, TargetIsSaved, HasTarget, PersistsItsDraft, Carrying, Targeting,
     Persisting
<1> QED
  BY <1>2, <1>5, <1>6, <1>7, <1>8, LeavingKeeps

\* A wait gives up.
LEMMA WaitGivesUpKeeps ==
  ASSUME IInv, NEW w \in Windows, NEW c \in Callers, WaitGivesUp(w, c)
  PROVE  IInv'
<1>1. TypeOK /\ WindowOK(w) /\ CallOK(w, c) /\ op[w][c] \in Op
  BY DEF IInv, WindowOK, TypeOK
<1>2. Leave(w, c) /\ opLock[w] = c
  BY <1>1 DEF WaitGivesUp, TargetBusy, Is, CallOK, CallerIsInside
<1>3. Within(w, c)
  BY <1>1, <1>2, InsideIs
<1>4. /\ OnlyCall(w, c) /\ opLock' = [opLock EXCEPT ![w] = NoCaller]
      /\ op' \in [Windows -> [Callers -> Op]] /\ opLock' \in [Windows -> Callers \cup {NoCaller}]
  BY <1>1, <1>2, LeaveTypes DEF OnlyCall
<1>5. TypeOK'
  BY <1>1, <1>4 DEF WaitGivesUp, TypeOK, Op, MaybeThread, leaseVars
<1>6. Alone(w)
  BY <1>1, <1>4 DEF WaitGivesUp, Alone, OnlyCall, TypeOK, leaseVars
<1>7. Grows(w)
  BY <1>1, <1>4 DEF WaitGivesUp, Grows, TypeOK, IInv, DraftsDiffer, leaseVars
<1>8. Settled(w)'
  BY <1>1, <1>4, <1>3, NoneAssumption DEF WaitGivesUp, Settled, Within, TypeOK, Is, leaseVars,
     CallOK, LeaseIsCarried, TargetIsSaved, HasTarget, PersistsItsDraft, Carrying, Targeting,
     Persisting
<1> QED
  BY <1>2, <1>5, <1>6, <1>7, <1>8, LeavingKeeps

\* The row of a draft cannot be made.
LEMMA PersistFailsKeeps ==
  ASSUME IInv, NEW w \in Windows, NEW c \in Callers, PersistFails(w, c)
  PROVE  IInv'
<1>1. TypeOK /\ WindowOK(w) /\ CallOK(w, c) /\ op[w][c] \in Op
  BY DEF IInv, WindowOK, TypeOK
<1>2. Leave(w, c) /\ opLock[w] = c
  BY <1>1 DEF PersistFails, TargetBusy, Is, CallOK, CallerIsInside
<1>3. Within(w, c)
  BY <1>1, <1>2, InsideIs
<1>4. /\ OnlyCall(w, c) /\ opLock' = [opLock EXCEPT ![w] = NoCaller]
      /\ op' \in [Windows -> [Callers -> Op]] /\ opLock' \in [Windows -> Callers \cup {NoCaller}]
  BY <1>1, <1>2, LeaveTypes DEF OnlyCall
<1>5. /\ locked' \in [Threads -> Windows \cup {NoWindow}]
      /\ \A u \in Threads, v \in Windows :
           locked'[u] = v <=> locked[u] = v /\ ~(v = w /\ u = op[w][c].lease)
  BY <1>1, UnlockedIs DEF PersistFails, TypeOK
<1>6. TypeOK'
  BY <1>1, <1>4, <1>5 DEF PersistFails, TypeOK, Op, MaybeThread, leaseVars
<1>7. Alone(w)
  BY <1>1, <1>4, <1>5 DEF PersistFails, Alone, OnlyCall, TypeOK, leaseVars
<1>8. Grows(w)
  BY <1>1, <1>4, <1>5 DEF PersistFails, Grows, TypeOK, IInv, DraftsDiffer, leaseVars
<1>9. Settled(w)'
  BY <1>1, <1>4, <1>5, <1>3, NoneAssumption DEF PersistFails, Settled, Within, TypeOK, Is,
     leaseVars, CallOK, LeaseIsCarried, TargetIsSaved, HasTarget, PersistsItsDraft, Carrying,
     Targeting, Persisting
<1> QED
  BY <1>2, <1>6, <1>7, <1>8, <1>9, LeavingKeeps

\* The target is busy.
LEMMA SwitchBusyKeeps ==
  ASSUME IInv, NEW w \in Windows, NEW c \in Callers, SwitchBusy(w, c)
  PROVE  IInv'
<1>1. TypeOK /\ WindowOK(w) /\ CallOK(w, c) /\ op[w][c] \in Op
  BY DEF IInv, WindowOK, TypeOK
<1>2. Leave(w, c) /\ opLock[w] = c
  BY <1>1 DEF SwitchBusy, TargetBusy, Is, CallOK, CallerIsInside
<1>3. Within(w, c)
  BY <1>1, <1>2, InsideIs
<1>4. /\ OnlyCall(w, c) /\ opLock' = [opLock EXCEPT ![w] = NoCaller]
      /\ op' \in [Windows -> [Callers -> Op]] /\ opLock' \in [Windows -> Callers \cup {NoCaller}]
  BY <1>1, <1>2, LeaveTypes DEF OnlyCall
<1>5. TypeOK'
  BY <1>1, <1>4 DEF SwitchBusy, TypeOK, Op, MaybeThread, leaseVars, TargetBusy
<1>6. Alone(w)
  BY <1>1, <1>4 DEF SwitchBusy, Alone, OnlyCall, TypeOK, leaseVars, TargetBusy
<1>7. Grows(w)
  BY <1>1, <1>4 DEF SwitchBusy, Grows, TypeOK, IInv, DraftsDiffer, leaseVars, TargetBusy
<1>8. Settled(w)'
  BY <1>1, <1>4, <1>3, NoneAssumption DEF SwitchBusy, Settled, Within, TypeOK, Is, leaseVars,
     CallOK, LeaseIsCarried, TargetIsSaved, HasTarget, PersistsItsDraft, Carrying, Targeting,
     Persisting, TargetBusy
<1> QED
  BY <1>2, <1>5, <1>6, <1>7, <1>8, LeavingKeeps

\* The window detaches to wait.
LEMMA DetachForWaitKeeps ==
  ASSUME IInv, NEW w \in Windows, NEW c \in Callers, DetachForWait(w, c)
  PROVE  IInv'
<1>1. TypeOK /\ WindowOK(w) /\ CallOK(w, c) /\ op[w][c] \in Op
  BY DEF IInv, WindowOK, TypeOK
<1>2. Leave(w, c) /\ opLock[w] = c
  BY <1>1 DEF DetachForWait, TargetBusy, Is, CallOK, CallerIsInside
<1>3. Within(w, c)
  BY <1>1, <1>2, InsideIs
<1>4. /\ OnlyCall(w, c) /\ opLock' = [opLock EXCEPT ![w] = NoCaller]
      /\ op' \in [Windows -> [Callers -> Op]] /\ opLock' \in [Windows -> Callers \cup {NoCaller}]
  BY <1>1, <1>2, LeaveTypes DEF OnlyCall
<1>5. op[w][c].target \in Threads
  BY <1>1 DEF DetachForWait, TypeOK, CallOK, TargetIsSaved, HasTarget, Targeting, TargetBusy
<1>6. /\ locked' \in [Threads -> Windows \cup {NoWindow}]
      /\ \A u \in Threads, v \in Windows :
           locked'[u] = v <=> locked[u] = v /\ ~(v = w /\ u = lease[w] /\ lease[w] # draft[w])
  BY <1>1, DropLeaseIs DEF DetachForWait, TypeOK
<1>7. TypeOK'
  BY <1>1, <1>4, <1>5, <1>6 DEF DetachForWait, TypeOK, Op, MaybeThread, leaseVars, TargetBusy
<1>8. Alone(w)
  BY <1>1, <1>4, <1>5, <1>6 DEF DetachForWait, Alone, OnlyCall, TypeOK, leaseVars, TargetBusy
<1>9. Grows(w)
  BY <1>1, <1>4, <1>5, <1>6 DEF DetachForWait, Grows, TypeOK, IInv, DraftsDiffer, leaseVars,
     TargetBusy
<1>10. Settled(w)'
  BY <1>1, <1>4, <1>5, <1>6, <1>3, NoneAssumption DEF DetachForWait, Settled, Within, TypeOK,
     Is, leaseVars, CallOK, LeaseIsCarried, TargetIsSaved, HasTarget, PersistsItsDraft,
     Carrying, Targeting, Persisting, TargetBusy
<1> QED
  BY <1>2, <1>7, <1>8, <1>9, <1>10, LeavingKeeps

\* A switch fails and is taken back.
LEMMA SwitchFailsKeeps ==
  ASSUME IInv, NEW w \in Windows, NEW c \in Callers, SwitchFails(w, c)
  PROVE  IInv'
<1>1. TypeOK /\ WindowOK(w) /\ CallOK(w, c) /\ op[w][c] \in Op
  BY DEF IInv, WindowOK, TypeOK
<1>2. Leave(w, c) /\ opLock[w] = c
  BY <1>1 DEF SwitchFails, TargetBusy, Is, CallOK, CallerIsInside
<1>3. Within(w, c)
  BY <1>1, <1>2, InsideIs
<1>4. /\ OnlyCall(w, c) /\ opLock' = [opLock EXCEPT ![w] = NoCaller]
      /\ op' \in [Windows -> [Callers -> Op]] /\ opLock' \in [Windows -> Callers \cup {NoCaller}]
  BY <1>1, <1>2, LeaveTypes DEF OnlyCall
<1>5. /\ locked' \in [Threads -> Windows \cup {NoWindow}]
      /\ \A u \in Threads, v \in Windows :
           locked'[u] = v <=> locked[u] = v /\ ~(v = w /\ u = op[w][c].lease)
  BY <1>1, UnlockedIs DEF SwitchFails, TypeOK
<1>6. TypeOK'
  BY <1>1, <1>4, <1>5 DEF SwitchFails, TypeOK, Op, MaybeThread, leaseVars
<1>7. Alone(w)
  BY <1>1, <1>4, <1>5 DEF SwitchFails, Alone, OnlyCall, TypeOK, leaseVars
<1>8. Grows(w)
  BY <1>1, <1>4, <1>5 DEF SwitchFails, Grows, TypeOK, IInv, DraftsDiffer, leaseVars
<1>9. Settled(w)'
  BY <1>1, <1>4, <1>5, <1>3, NoneAssumption DEF SwitchFails, Settled, Within, TypeOK, Is,
     leaseVars, CallOK, LeaseIsCarried, TargetIsSaved, HasTarget, PersistsItsDraft, Carrying,
     Targeting, Persisting
<1> QED
  BY <1>2, <1>6, <1>7, <1>8, <1>9, LeavingKeeps

\* The target's lease is adopted.
LEMMA SwitchAdoptsKeeps ==
  ASSUME IInv, NEW w \in Windows, NEW c \in Callers, SwitchAdopts(w, c)
  PROVE  IInv'
<1>1. TypeOK /\ WindowOK(w) /\ CallOK(w, c) /\ op[w][c] \in Op
  BY DEF IInv, WindowOK, TypeOK
<1>2. Leave(w, c) /\ opLock[w] = c
  BY <1>1 DEF SwitchAdopts, TargetBusy, Is, CallOK, CallerIsInside
<1>3. Within(w, c)
  BY <1>1, <1>2, InsideIs
<1>4. /\ OnlyCall(w, c) /\ opLock' = [opLock EXCEPT ![w] = NoCaller]
      /\ op' \in [Windows -> [Callers -> Op]] /\ opLock' \in [Windows -> Callers \cup {NoCaller}]
  BY <1>1, <1>2, LeaveTypes DEF OnlyCall
<1>5. op[w][c].target \in Threads
  BY <1>1 DEF SwitchAdopts, TypeOK, CallOK, TargetIsSaved, HasTarget, Targeting
<1>6. /\ locked' \in [Threads -> Windows \cup {NoWindow}]
      /\ \A u \in Threads, v \in Windows :
           locked'[u] = v <=> locked[u] = v /\ ~(v = w /\ u = lease[w] /\ lease[w] # draft[w])
  BY <1>1, DropLeaseIs DEF SwitchAdopts, TypeOK
<1>7. TypeOK'
  BY <1>1, <1>4, <1>5, <1>6 DEF SwitchAdopts, TypeOK, Op, MaybeThread, leaseVars
<1>8. Alone(w)
  BY <1>1, <1>4, <1>5, <1>6 DEF SwitchAdopts, Alone, OnlyCall, TypeOK, leaseVars
<1>9. Grows(w)
  BY <1>1, <1>4, <1>5, <1>6 DEF SwitchAdopts, Grows, TypeOK, IInv, DraftsDiffer, leaseVars
<1>10. Settled(w)'
  BY <1>1, <1>4, <1>5, <1>6, <1>3, NoneAssumption DEF SwitchAdopts, Settled, Within, TypeOK, Is,
     leaseVars, CallOK, LeaseIsCarried, TargetIsSaved, HasTarget, PersistsItsDraft, Carrying,
     Targeting, Persisting
<1> QED
  BY <1>2, <1>7, <1>8, <1>9, <1>10, LeavingKeeps

\* The session is loaded again.
LEMMA SwitchBindsKeeps ==
  ASSUME IInv, NEW w \in Windows, NEW c \in Callers, SwitchBinds(w, c)
  PROVE  IInv'
<1>1. TypeOK /\ WindowOK(w) /\ CallOK(w, c) /\ op[w][c] \in Op
  BY DEF IInv, WindowOK, TypeOK
<1>2. Leave(w, c) /\ opLock[w] = c
  BY <1>1 DEF SwitchBinds, TargetBusy, Is, CallOK, CallerIsInside
<1>3. Within(w, c)
  BY <1>1, <1>2, InsideIs
<1>4. /\ OnlyCall(w, c) /\ opLock' = [opLock EXCEPT ![w] = NoCaller]
      /\ op' \in [Windows -> [Callers -> Op]] /\ opLock' \in [Windows -> Callers \cup {NoCaller}]
  BY <1>1, <1>2, LeaveTypes DEF OnlyCall
<1>5. op[w][c].target \in Threads
  BY <1>1 DEF SwitchBinds, TypeOK, CallOK, TargetIsSaved, HasTarget, Targeting
<1>6. TypeOK'
  BY <1>1, <1>4, <1>5 DEF SwitchBinds, TypeOK, Op, MaybeThread, leaseVars
<1>7. Alone(w)
  BY <1>1, <1>4, <1>5 DEF SwitchBinds, Alone, OnlyCall, TypeOK, leaseVars
<1>8. Grows(w)
  BY <1>1, <1>4, <1>5 DEF SwitchBinds, Grows, TypeOK, IInv, DraftsDiffer, leaseVars
<1>9. Settled(w)'
  BY <1>1, <1>4, <1>5, <1>3, NoneAssumption DEF SwitchBinds, Settled, Within, TypeOK, Is,
     leaseVars, CallOK, LeaseIsCarried, TargetIsSaved, HasTarget, PersistsItsDraft, Carrying,
     Targeting, Persisting
<1> QED
  BY <1>2, <1>6, <1>7, <1>8, <1>9, LeavingKeeps

\* A new draft.
LEMMA NewSessionKeeps ==
  ASSUME IInv, NEW w \in Windows, NEW c \in Callers, NewSession(w, c)
  PROVE  IInv'
<1>1. TypeOK /\ WindowOK(w) /\ CallOK(w, c) /\ op[w][c] \in Op
  BY DEF IInv, WindowOK, TypeOK
<1>2. Leave(w, c) /\ opLock[w] = c
  BY <1>1 DEF NewSession, TargetBusy, Is, CallOK, CallerIsInside
<1>3. Within(w, c)
  BY <1>1, <1>2, InsideIs
<1>4. /\ OnlyCall(w, c) /\ opLock' = [opLock EXCEPT ![w] = NoCaller]
      /\ op' \in [Windows -> [Callers -> Op]] /\ opLock' \in [Windows -> Callers \cup {NoCaller}]
  BY <1>1, <1>2, LeaveTypes DEF OnlyCall
<1>5. /\ locked' \in [Threads -> Windows \cup {NoWindow}]
      /\ \A u \in Threads, v \in Windows :
           locked'[u] = v <=> locked[u] = v /\ ~(v = w /\ u = lease[w] /\ lease[w] # draft[w])
  BY <1>1, DropLeaseIs DEF NewSession, TypeOK
<1>6. TypeOK'
  BY <1>1, <1>4, <1>5 DEF NewSession, TypeOK, Op, MaybeThread, leaseVars
<1>7. Alone(w)
  BY <1>1, <1>4, <1>5 DEF NewSession, Alone, OnlyCall, TypeOK, leaseVars
<1>8. Grows(w)
  BY <1>1, <1>4, <1>5 DEF NewSession, Grows, TypeOK, IInv, DraftsDiffer, leaseVars
<1>9. Settled(w)'
  BY <1>1, <1>4, <1>5, <1>3, NoneAssumption DEF NewSession, Settled, Within, TypeOK, Is,
     leaseVars, CallOK, LeaseIsCarried, TargetIsSaved, HasTarget, PersistsItsDraft, Carrying,
     Targeting, Persisting
<1> QED
  BY <1>2, <1>6, <1>7, <1>8, <1>9, LeavingKeeps

\* A run is accepted.
LEMMA RunAcceptedKeeps ==
  ASSUME IInv, NEW w \in Windows, NEW c \in Callers, RunAccepted(w, c)
  PROVE  IInv'
<1>1. TypeOK /\ WindowOK(w) /\ CallOK(w, c) /\ op[w][c] \in Op
  BY DEF IInv, WindowOK, TypeOK
<1>2. opLock[w] = c /\ opLock'[w] = c
  BY <1>1 DEF RunAccepted, Go, Is, CallOK, CallerIsInside, TypeOK, RequireActive
<1>3. Within(w, c)
  BY <1>1, <1>2, InsideIs
<1>4. OnlyCall(w, c) /\ Becomes(w, c, IF draft[w] = NoThread THEN "writing" ELSE "persisting", op[w][c].lease, op[w][c].late)
  BY <1>1, GoTypes DEF RunAccepted, TypeOK, Phases, MaybeThread, RequireActive
<1>5. TypeOK'
  BY <1>1, <1>4, <1>3 DEF RunAccepted, Go, Is, leaseVars, RequireActive, OnlyCall, TypeOK, Op,
     MaybeThread
<1>6. Alone(w)
  BY <1>1, <1>4 DEF RunAccepted, Go, Is, leaseVars, RequireActive, Alone, OnlyCall, TypeOK
<1>7. Grows(w)
  BY <1>1, <1>4 DEF RunAccepted, Go, Is, leaseVars, RequireActive, Grows, TypeOK, IInv,
     DraftsDiffer
<1>8. CallOK(w, c)'
  BY <1>1, <1>4, <1>2, <1>3, NoneAssumption DEF RunAccepted, Go, Is, leaseVars, RequireActive,
     Within, Settled, TypeOK, Becomes, Phase, CallOK, CallerIsInside, TargetIsSaved, HasTarget,
     LeaseIsCarried, PersistsItsDraft, LateIsKnown, WritesItsLease, Carrying, Targeting,
     Persisting
<1>9. Within(w, c)'
  BY <1>1, <1>4, <1>2, <1>3, <1>8, NoneAssumption DEF RunAccepted, Go, Is, leaseVars,
     RequireActive, Within, Settled, TypeOK, Becomes, Phase, CallOK, CallerIsInside,
     TargetIsSaved, HasTarget, LeaseIsCarried, PersistsItsDraft, LateIsKnown, WritesItsLease,
     Carrying, Targeting, Persisting
<1> QED
  BY <1>4, <1>2, <1>5, <1>6, <1>7, <1>9, StayingKeeps

\* The lock of the draft is taken.
LEMMA PersistAcquireKeeps ==
  ASSUME IInv, NEW w \in Windows, NEW c \in Callers, PersistAcquire(w, c)
  PROVE  IInv'
<1>1. TypeOK /\ WindowOK(w) /\ CallOK(w, c) /\ op[w][c] \in Op
  BY DEF IInv, WindowOK, TypeOK
<1>2. opLock[w] = c /\ opLock'[w] = c
  BY <1>1 DEF PersistAcquire, Go, Is, CallOK, CallerIsInside, TypeOK
<1>3. Within(w, c)
  BY <1>1, <1>2, InsideIs
<1>4. draft[w] \in MaybeThread
  BY <1>1 DEF TypeOK, Op, MaybeThread
<1>5. OnlyCall(w, c) /\ Becomes(w, c, "creating", draft[w], op[w][c].late)
  BY <1>1, <1>4, CallTakes DEF PersistAcquire, TypeOK, Phases, MaybeThread
<1>6. /\ draft[w] \in Threads /\ locked[draft[w]] = NoWindow
      /\ locked' = [locked EXCEPT ![draft[w]] = w]
  BY <1>1, <1>3 DEF PersistAcquire, Within, TypeOK, MaybeThread, CallOK, CallerIsInside,
     TargetIsSaved, HasTarget, LeaseIsCarried, PersistsItsDraft, LateIsKnown, WritesItsLease,
     Carrying, Targeting, Persisting, Phase
<1>7. /\ locked' \in [Threads -> Windows \cup {NoWindow}]
      /\ \A u \in Threads, v \in Windows :
           locked'[u] = v <=> locked[u] = v \/ (v = w /\ u = draft[w])
  BY <1>1, <1>6, NoneAssumption DEF TypeOK
<1>8. TypeOK'
  BY <1>1, <1>5, <1>6, <1>7, <1>3 DEF PersistAcquire, Go, Is, leaseVars, OnlyCall, TypeOK, Op,
     MaybeThread
<1>9. Alone(w)
  BY <1>1, <1>5, <1>6, <1>7 DEF PersistAcquire, Go, Is, leaseVars, Alone, OnlyCall, TypeOK
<1>10. Grows(w)
  BY <1>1, <1>5, <1>6, <1>7 DEF PersistAcquire, Go, Is, leaseVars, Grows, TypeOK, IInv,
     DraftsDiffer
<1>11. CallOK(w, c)'
  BY <1>1, <1>5, <1>6, <1>7, <1>2, <1>3, NoneAssumption DEF PersistAcquire, Go, Is, leaseVars,
     Within, Settled, TypeOK, Becomes, Phase, CallOK, CallerIsInside, TargetIsSaved, HasTarget,
     LeaseIsCarried, PersistsItsDraft, LateIsKnown, WritesItsLease, Carrying, Targeting,
     Persisting
<1>12. Within(w, c)'
  BY <1>1, <1>5, <1>6, <1>7, <1>2, <1>3, <1>11, NoneAssumption DEF PersistAcquire, Go, Is,
     leaseVars, Within, Settled, TypeOK, Becomes, Phase, CallOK, CallerIsInside, TargetIsSaved,
     HasTarget, LeaseIsCarried, PersistsItsDraft, LateIsKnown, WritesItsLease, Carrying,
     Targeting, Persisting
<1> QED
  BY <1>5, <1>2, <1>8, <1>9, <1>10, <1>12, StayingKeeps

\* The row of the draft is made.
LEMMA PersistCreatesKeeps ==
  ASSUME IInv, NEW w \in Windows, NEW c \in Callers, PersistCreates(w, c)
  PROVE  IInv'
<1>1. TypeOK /\ WindowOK(w) /\ CallOK(w, c) /\ op[w][c] \in Op
  BY DEF IInv, WindowOK, TypeOK
<1>2. opLock[w] = c /\ opLock'[w] = c
  BY <1>1 DEF PersistCreates, Go, Is, CallOK, CallerIsInside, TypeOK
<1>3. Within(w, c)
  BY <1>1, <1>2, InsideIs
<1>4. OnlyCall(w, c) /\ Becomes(w, c, "adopting", op[w][c].lease, op[w][c].late)
  BY <1>1, GoTypes DEF PersistCreates, TypeOK, Phases, MaybeThread
<1>5. draft[w] \in Threads
  BY <1>1 DEF PersistCreates, Phase, TypeOK, CallOK, CallerIsInside, TargetIsSaved, HasTarget,
     LeaseIsCarried, PersistsItsDraft, LateIsKnown, WritesItsLease, Carrying, Targeting,
     Persisting
<1>6. TypeOK'
  BY <1>1, <1>4, <1>5, <1>3 DEF PersistCreates, Go, Is, leaseVars, OnlyCall, TypeOK, Op,
     MaybeThread
<1>7. Alone(w)
  BY <1>1, <1>4, <1>5 DEF PersistCreates, Go, Is, leaseVars, Alone, OnlyCall, TypeOK
<1>8. Grows(w)
  BY <1>1, <1>4, <1>5 DEF PersistCreates, Go, Is, leaseVars, Grows, TypeOK, IInv, DraftsDiffer
<1>9. CallOK(w, c)'
  BY <1>1, <1>4, <1>5, <1>2, <1>3, NoneAssumption DEF PersistCreates, Go, Is, leaseVars, Within,
     Settled, TypeOK, Becomes, Phase, CallOK, CallerIsInside, TargetIsSaved, HasTarget,
     LeaseIsCarried, PersistsItsDraft, LateIsKnown, WritesItsLease, Carrying, Targeting,
     Persisting
<1>10. Within(w, c)'
  BY <1>1, <1>4, <1>5, <1>2, <1>3, <1>9, NoneAssumption DEF PersistCreates, Go, Is, leaseVars,
     Within, Settled, TypeOK, Becomes, Phase, CallOK, CallerIsInside, TargetIsSaved, HasTarget,
     LeaseIsCarried, PersistsItsDraft, LateIsKnown, WritesItsLease, Carrying, Targeting,
     Persisting
<1> QED
  BY <1>4, <1>2, <1>6, <1>7, <1>8, <1>10, StayingKeeps

\* The draft becomes a session.
LEMMA PersistAdoptsKeeps ==
  ASSUME IInv, NEW w \in Windows, NEW c \in Callers, PersistAdopts(w, c)
  PROVE  IInv'
<1>1. TypeOK /\ WindowOK(w) /\ CallOK(w, c) /\ op[w][c] \in Op
  BY DEF IInv, WindowOK, TypeOK
<1>2. opLock[w] = c /\ opLock'[w] = c
  BY <1>1 DEF PersistAdopts, Go, Is, CallOK, CallerIsInside, TypeOK
<1>3. Within(w, c)
  BY <1>1, <1>2, InsideIs
<1>4. NoThread \in MaybeThread
  BY <1>1 DEF TypeOK, Op, MaybeThread
<1>5. OnlyCall(w, c) /\ Becomes(w, c, "writing", NoThread, op[w][c].late)
  BY <1>1, <1>4, CallTakes DEF PersistAdopts, TypeOK, Phases, MaybeThread
<1>6. op[w][c].lease \in Threads
  BY <1>1 DEF PersistAdopts, Phase, TypeOK, CallOK, CallerIsInside, TargetIsSaved, HasTarget,
     LeaseIsCarried, PersistsItsDraft, LateIsKnown, WritesItsLease, Carrying, Targeting,
     Persisting
<1>7. TypeOK'
  BY <1>1, <1>5, <1>6, <1>3 DEF PersistAdopts, Go, Is, leaseVars, OnlyCall, TypeOK, Op,
     MaybeThread
<1>8. Alone(w)
  BY <1>1, <1>5, <1>6 DEF PersistAdopts, Go, Is, leaseVars, Alone, OnlyCall, TypeOK
<1>9. Grows(w)
  BY <1>1, <1>5, <1>6 DEF PersistAdopts, Go, Is, leaseVars, Grows, TypeOK, IInv, DraftsDiffer
<1>10. CallOK(w, c)'
  BY <1>1, <1>5, <1>6, <1>2, <1>3, NoneAssumption DEF PersistAdopts, Go, Is, leaseVars, Within,
     Settled, TypeOK, Becomes, Phase, CallOK, CallerIsInside, TargetIsSaved, HasTarget,
     LeaseIsCarried, PersistsItsDraft, LateIsKnown, WritesItsLease, Carrying, Targeting,
     Persisting
<1>11. Within(w, c)'
  BY <1>1, <1>5, <1>6, <1>2, <1>3, <1>10, NoneAssumption DEF PersistAdopts, Go, Is, leaseVars,
     Within, Settled, TypeOK, Becomes, Phase, CallOK, CallerIsInside, TargetIsSaved, HasTarget,
     LeaseIsCarried, PersistsItsDraft, LateIsKnown, WritesItsLease, Carrying, Targeting,
     Persisting
<1> QED
  BY <1>5, <1>2, <1>7, <1>8, <1>9, <1>11, StayingKeeps

\* A switch begins.
LEMMA SwitchBeginsKeeps ==
  ASSUME IInv, NEW w \in Windows, NEW c \in Callers, SwitchBegins(w, c)
  PROVE  IInv'
<1>1. TypeOK /\ WindowOK(w) /\ CallOK(w, c) /\ op[w][c] \in Op
  BY DEF IInv, WindowOK, TypeOK
<1>2. opLock[w] = c /\ opLock'[w] = c
  BY <1>1 DEF SwitchBegins, Go, Is, CallOK, CallerIsInside, TypeOK, InputAllows
<1>3. Within(w, c)
  BY <1>1, <1>2, InsideIs
<1>4. OnlyCall(w, c) /\ Becomes(w, c, "switching", op[w][c].lease, op[w][c].late)
  BY <1>1, GoTypes DEF SwitchBegins, TypeOK, Phases, MaybeThread, InputAllows
<1>5. TypeOK'
  BY <1>1, <1>4, <1>3 DEF SwitchBegins, Go, Is, leaseVars, InputAllows, OnlyCall, TypeOK, Op,
     MaybeThread
<1>6. Alone(w)
  BY <1>1, <1>4 DEF SwitchBegins, Go, Is, leaseVars, InputAllows, Alone, OnlyCall, TypeOK
<1>7. Grows(w)
  BY <1>1, <1>4 DEF SwitchBegins, Go, Is, leaseVars, InputAllows, Grows, TypeOK, IInv,
     DraftsDiffer
<1>8. CallOK(w, c)'
  BY <1>1, <1>4, <1>2, <1>3, NoneAssumption DEF SwitchBegins, Go, Is, leaseVars, InputAllows,
     Within, Settled, TypeOK, Becomes, Phase, CallOK, CallerIsInside, TargetIsSaved, HasTarget,
     LeaseIsCarried, PersistsItsDraft, LateIsKnown, WritesItsLease, Carrying, Targeting,
     Persisting
<1>9. Within(w, c)'
  BY <1>1, <1>4, <1>2, <1>3, <1>8, NoneAssumption DEF SwitchBegins, Go, Is, leaseVars,
     InputAllows, Within, Settled, TypeOK, Becomes, Phase, CallOK, CallerIsInside,
     TargetIsSaved, HasTarget, LeaseIsCarried, PersistsItsDraft, LateIsKnown, WritesItsLease,
     Carrying, Targeting, Persisting
<1> QED
  BY <1>4, <1>2, <1>5, <1>6, <1>7, <1>9, StayingKeeps

\* The session is loaded again.
LEMMA SwitchReloadsKeeps ==
  ASSUME IInv, NEW w \in Windows, NEW c \in Callers, SwitchReloads(w, c)
  PROVE  IInv'
<1>1. TypeOK /\ WindowOK(w) /\ CallOK(w, c) /\ op[w][c] \in Op
  BY DEF IInv, WindowOK, TypeOK
<1>2. opLock[w] = c /\ opLock'[w] = c
  BY <1>1 DEF SwitchReloads, Go, Is, CallOK, CallerIsInside, TypeOK
<1>3. Within(w, c)
  BY <1>1, <1>2, InsideIs
<1>4. OnlyCall(w, c) /\ Becomes(w, c, "loading", op[w][c].lease, op[w][c].late)
  BY <1>1, GoTypes DEF SwitchReloads, TypeOK, Phases, MaybeThread
<1>5. TypeOK'
  BY <1>1, <1>4, <1>3 DEF SwitchReloads, Go, Is, leaseVars, OnlyCall, TypeOK, Op, MaybeThread
<1>6. Alone(w)
  BY <1>1, <1>4 DEF SwitchReloads, Go, Is, leaseVars, Alone, OnlyCall, TypeOK
<1>7. Grows(w)
  BY <1>1, <1>4 DEF SwitchReloads, Go, Is, leaseVars, Grows, TypeOK, IInv, DraftsDiffer
<1>8. CallOK(w, c)'
  BY <1>1, <1>4, <1>2, <1>3, NoneAssumption DEF SwitchReloads, Go, Is, leaseVars, Within,
     Settled, TypeOK, Becomes, Phase, CallOK, CallerIsInside, TargetIsSaved, HasTarget,
     LeaseIsCarried, PersistsItsDraft, LateIsKnown, WritesItsLease, Carrying, Targeting,
     Persisting
<1>9. Within(w, c)'
  BY <1>1, <1>4, <1>2, <1>3, <1>8, NoneAssumption DEF SwitchReloads, Go, Is, leaseVars, Within,
     Settled, TypeOK, Becomes, Phase, CallOK, CallerIsInside, TargetIsSaved, HasTarget,
     LeaseIsCarried, PersistsItsDraft, LateIsKnown, WritesItsLease, Carrying, Targeting,
     Persisting
<1> QED
  BY <1>4, <1>2, <1>5, <1>6, <1>7, <1>9, StayingKeeps

\* The lock of the target is taken.
LEMMA SwitchAcquiresKeeps ==
  ASSUME IInv, NEW w \in Windows, NEW c \in Callers, SwitchAcquires(w, c)
  PROVE  IInv'
<1>1. TypeOK /\ WindowOK(w) /\ CallOK(w, c) /\ op[w][c] \in Op
  BY DEF IInv, WindowOK, TypeOK
<1>2. opLock[w] = c /\ opLock'[w] = c
  BY <1>1 DEF SwitchAcquires, Go, Is, CallOK, CallerIsInside, TypeOK, TakeTarget
<1>3. Within(w, c)
  BY <1>1, <1>2, InsideIs
<1>4. op[w][c].target \in MaybeThread
  BY <1>1 DEF TypeOK, Op, MaybeThread
<1>5. OnlyCall(w, c) /\ Becomes(w, c, "loading", op[w][c].target, op[w][c].late)
  BY <1>1, <1>4, CallTakes DEF SwitchAcquires, TypeOK, Phases, MaybeThread, TakeTarget
<1>6. /\ op[w][c].target \in Threads /\ locked[op[w][c].target] = NoWindow
      /\ locked' = [locked EXCEPT ![op[w][c].target] = w]
  BY <1>1, <1>3 DEF SwitchAcquires, Within, TypeOK, MaybeThread, CallOK, CallerIsInside,
     TargetIsSaved, HasTarget, LeaseIsCarried, PersistsItsDraft, LateIsKnown, WritesItsLease,
     Carrying, Targeting, Persisting, Phase, TakeTarget
<1>7. /\ locked' \in [Threads -> Windows \cup {NoWindow}]
      /\ \A u \in Threads, v \in Windows :
           locked'[u] = v <=> locked[u] = v \/ (v = w /\ u = op[w][c].target)
  BY <1>1, <1>6, NoneAssumption DEF TypeOK
<1>8. TypeOK'
  BY <1>1, <1>5, <1>6, <1>7, <1>3 DEF SwitchAcquires, Go, Is, leaseVars, TakeTarget, OnlyCall,
     TypeOK, Op, MaybeThread
<1>9. Alone(w)
  BY <1>1, <1>5, <1>6, <1>7 DEF SwitchAcquires, Go, Is, leaseVars, TakeTarget, Alone, OnlyCall,
     TypeOK
<1>10. Grows(w)
  BY <1>1, <1>5, <1>6, <1>7 DEF SwitchAcquires, Go, Is, leaseVars, TakeTarget, Grows, TypeOK,
     IInv, DraftsDiffer
<1>11. CallOK(w, c)'
  BY <1>1, <1>5, <1>6, <1>7, <1>2, <1>3, NoneAssumption DEF SwitchAcquires, Go, Is, leaseVars,
     TakeTarget, Within, Settled, TypeOK, Becomes, Phase, CallOK, CallerIsInside, TargetIsSaved,
     HasTarget, LeaseIsCarried, PersistsItsDraft, LateIsKnown, WritesItsLease, Carrying,
     Targeting, Persisting
<1>12. Within(w, c)'
  BY <1>1, <1>5, <1>6, <1>7, <1>2, <1>3, <1>11, NoneAssumption DEF SwitchAcquires, Go, Is,
     leaseVars, TakeTarget, Within, Settled, TypeOK, Becomes, Phase, CallOK, CallerIsInside,
     TargetIsSaved, HasTarget, LeaseIsCarried, PersistsItsDraft, LateIsKnown, WritesItsLease,
     Carrying, Targeting, Persisting
<1> QED
  BY <1>5, <1>2, <1>8, <1>9, <1>10, <1>12, StayingKeeps

\* The graph is built for the target.
LEMMA ApplyPlanKeeps ==
  ASSUME IInv, NEW w \in Windows, NEW c \in Callers, ApplyPlan(w, c)
  PROVE  IInv'
<1>1. TypeOK /\ WindowOK(w) /\ CallOK(w, c) /\ op[w][c] \in Op
  BY DEF IInv, WindowOK, TypeOK
<1>2. opLock[w] = c /\ opLock'[w] = c
  BY <1>1 DEF ApplyPlan, Go, Is, CallOK, CallerIsInside, TypeOK
<1>3. Within(w, c)
  BY <1>1, <1>2, InsideIs
<1>4. OnlyCall(w, c) /\ Becomes(w, c, "applied", op[w][c].lease, op[w][c].late)
  BY <1>1, GoTypes DEF ApplyPlan, TypeOK, Phases, MaybeThread
<1>5. op[w][c].target \in Threads
  BY <1>1 DEF ApplyPlan, Phase, TypeOK, CallOK, CallerIsInside, TargetIsSaved, HasTarget,
     LeaseIsCarried, PersistsItsDraft, LateIsKnown, WritesItsLease, Carrying, Targeting,
     Persisting
<1>6. TypeOK'
  BY <1>1, <1>4, <1>5, <1>3 DEF ApplyPlan, Go, Is, leaseVars, OnlyCall, TypeOK, Op, MaybeThread
<1>7. Alone(w)
  BY <1>1, <1>4, <1>5 DEF ApplyPlan, Go, Is, leaseVars, Alone, OnlyCall, TypeOK
<1>8. Grows(w)
  BY <1>1, <1>4, <1>5 DEF ApplyPlan, Go, Is, leaseVars, Grows, TypeOK, IInv, DraftsDiffer
<1>9. CallOK(w, c)'
  BY <1>1, <1>4, <1>5, <1>2, <1>3, NoneAssumption DEF ApplyPlan, Go, Is, leaseVars, Within,
     Settled, TypeOK, Becomes, Phase, CallOK, CallerIsInside, TargetIsSaved, HasTarget,
     LeaseIsCarried, PersistsItsDraft, LateIsKnown, WritesItsLease, Carrying, Targeting,
     Persisting
<1>10. Within(w, c)'
  BY <1>1, <1>4, <1>5, <1>2, <1>3, <1>9, NoneAssumption DEF ApplyPlan, Go, Is, leaseVars,
     Within, Settled, TypeOK, Becomes, Phase, CallOK, CallerIsInside, TargetIsSaved, HasTarget,
     LeaseIsCarried, PersistsItsDraft, LateIsKnown, WritesItsLease, Carrying, Targeting,
     Persisting
<1> QED
  BY <1>4, <1>2, <1>6, <1>7, <1>8, <1>10, StayingKeeps

\* A wait gets the lock.
LEMMA WaitAcquiresKeeps ==
  ASSUME IInv, NEW w \in Windows, NEW c \in Callers, WaitAcquires(w, c)
  PROVE  IInv'
<1>1. TypeOK /\ WindowOK(w) /\ CallOK(w, c) /\ op[w][c] \in Op
  BY DEF IInv, WindowOK, TypeOK
<1>2. opLock[w] = c /\ opLock'[w] = c
  BY <1>1 DEF WaitAcquires, Go, Is, CallOK, CallerIsInside, TypeOK, TakeTarget
<1>3. Within(w, c)
  BY <1>1, <1>2, InsideIs
<1>4. op[w][c].target \in MaybeThread
  BY <1>1 DEF TypeOK, Op, MaybeThread
<1>5. OnlyCall(w, c) /\ Becomes(w, c, "acquired", op[w][c].target, op[w][c].late)
  BY <1>1, <1>4, CallTakes DEF WaitAcquires, TypeOK, Phases, MaybeThread, TakeTarget
<1>6. /\ op[w][c].target \in Threads /\ locked[op[w][c].target] = NoWindow
      /\ locked' = [locked EXCEPT ![op[w][c].target] = w]
  BY <1>1, <1>3 DEF WaitAcquires, Within, TypeOK, MaybeThread, CallOK, CallerIsInside,
     TargetIsSaved, HasTarget, LeaseIsCarried, PersistsItsDraft, LateIsKnown, WritesItsLease,
     Carrying, Targeting, Persisting, Phase, TakeTarget
<1>7. /\ locked' \in [Threads -> Windows \cup {NoWindow}]
      /\ \A u \in Threads, v \in Windows :
           locked'[u] = v <=> locked[u] = v \/ (v = w /\ u = op[w][c].target)
  BY <1>1, <1>6, NoneAssumption DEF TypeOK
<1>8. TypeOK'
  BY <1>1, <1>5, <1>6, <1>7, <1>3 DEF WaitAcquires, Go, Is, leaseVars, TakeTarget, OnlyCall,
     TypeOK, Op, MaybeThread
<1>9. Alone(w)
  BY <1>1, <1>5, <1>6, <1>7 DEF WaitAcquires, Go, Is, leaseVars, TakeTarget, Alone, OnlyCall,
     TypeOK
<1>10. Grows(w)
  BY <1>1, <1>5, <1>6, <1>7 DEF WaitAcquires, Go, Is, leaseVars, TakeTarget, Grows, TypeOK,
     IInv, DraftsDiffer
<1>11. CallOK(w, c)'
  BY <1>1, <1>5, <1>6, <1>7, <1>2, <1>3, NoneAssumption DEF WaitAcquires, Go, Is, leaseVars,
     TakeTarget, Within, Settled, TypeOK, Becomes, Phase, CallOK, CallerIsInside, TargetIsSaved,
     HasTarget, LeaseIsCarried, PersistsItsDraft, LateIsKnown, WritesItsLease, Carrying,
     Targeting, Persisting
<1>12. Within(w, c)'
  BY <1>1, <1>5, <1>6, <1>7, <1>2, <1>3, <1>11, NoneAssumption DEF WaitAcquires, Go, Is,
     leaseVars, TakeTarget, Within, Settled, TypeOK, Becomes, Phase, CallOK, CallerIsInside,
     TargetIsSaved, HasTarget, LeaseIsCarried, PersistsItsDraft, LateIsKnown, WritesItsLease,
     Carrying, Targeting, Persisting
<1> QED
  BY <1>5, <1>2, <1>8, <1>9, <1>10, <1>12, StayingKeeps

\* A caller enters the runner.
LEMMA EnterKeeps ==
  ASSUME IInv, NEW w \in Windows, NEW c \in Callers, Enter(w, c)
  PROVE  IInv'
<1>1. TypeOK /\ WindowOK(w) /\ CallOK(w, c) /\ op[w][c] \in Op
  BY DEF IInv, WindowOK, TypeOK
<1>2. opLock[w] = NoCaller /\ opLock'[w] = c
  BY <1>1 DEF Enter, TypeOK
<1>3. Settled(w)
  BY <1>1, <1>2, SettledIs
<1> DEFINE b == closing[w] \in {"drained", "confirmed", "done"}
<1>4. op' = [op EXCEPT ![w][c].phase = "entered", ![w][c].late = b]
  BY DEF Enter
<1>5. b \in BOOLEAN /\ (closing[w] \in {"drained", "confirmed", "done"} => b = TRUE)
  OBVIOUS
<1> HIDE DEF b
<1>6. OnlyCall(w, c) /\ Becomes(w, c, "entered", op[w][c].lease, b)
  BY <1>1, <1>4, <1>5, CallEnters DEF TypeOK, Phases, MaybeThread
<1>7. TypeOK'
  BY <1>1, <1>5, <1>6, <1>3 DEF Enter, Go, Is, leaseVars, OnlyCall, TypeOK, Op, MaybeThread
<1>8. Alone(w)
  BY <1>1, <1>5, <1>6 DEF Enter, Go, Is, leaseVars, Alone, OnlyCall, TypeOK
<1>9. Grows(w)
  BY <1>1, <1>5, <1>6 DEF Enter, Go, Is, leaseVars, Grows, TypeOK, IInv, DraftsDiffer
<1>10. CallOK(w, c)'
  BY <1>1, <1>5, <1>6, <1>2, <1>3, NoneAssumption DEF Enter, Go, Is, leaseVars, Within, Settled,
     TypeOK, Becomes, Phase, CallOK, CallerIsInside, TargetIsSaved, HasTarget, LeaseIsCarried,
     PersistsItsDraft, LateIsKnown, WritesItsLease, Carrying, Targeting, Persisting
<1>11. Within(w, c)'
  BY <1>1, <1>5, <1>6, <1>2, <1>3, <1>10, NoneAssumption DEF Enter, Go, Is, leaseVars, Within,
     Settled, TypeOK, Becomes, Phase, CallOK, CallerIsInside, TargetIsSaved, HasTarget,
     LeaseIsCarried, PersistsItsDraft, LateIsKnown, WritesItsLease, Carrying, Targeting,
     Persisting
<1> QED
  BY <1>6, <1>2, <1>7, <1>8, <1>9, <1>11, StayingKeeps

\* A wait begins, unless the switch it belongs to is no longer pending.
LEMMA WaitBeginsKeeps ==
  ASSUME IInv, NEW w \in Windows, NEW c \in Callers, WaitBegins(w, c)
  PROVE  IInv'
<1>1. TypeOK /\ WindowOK(w) /\ CallOK(w, c) /\ op[w][c] \in Op
  BY DEF IInv, WindowOK, TypeOK
<1>2. opLock[w] = c
  BY <1>1 DEF WaitBegins, Is, CallOK, CallerIsInside
<1>3. Within(w, c)
  BY <1>1, <1>2, InsideIs
<1>4. CASE Go(w, c, "waiting")
  <2>1. OnlyCall(w, c) /\ Becomes(w, c, "waiting", op[w][c].lease, op[w][c].late)
    BY <1>1, <1>4, GoTypes DEF Phases
  <2>2. TypeOK'
    BY <1>1, <1>4, <2>1 DEF WaitBegins, Go, OnlyCall, TypeOK, leaseVars
  <2>3. Alone(w) /\ Grows(w)
    BY <1>1, <1>4, <2>1 DEF WaitBegins, Go, Alone, Grows, OnlyCall, TypeOK, IInv, DraftsDiffer,
       leaseVars
  <2>4. CallOK(w, c)'
    BY <1>1, <1>2, <1>3, <1>4, <2>1, NoneAssumption DEF WaitBegins, Go, Is, Becomes, Phase,
       leaseVars, CallOK, CallerIsInside, TargetIsSaved, HasTarget, LeaseIsCarried,
       PersistsItsDraft, LateIsKnown, WritesItsLease, Carrying, Targeting, Persisting
  <2>5. Within(w, c)'
    BY <1>1, <1>2, <1>3, <1>4, <2>1, <2>4 DEF WaitBegins, Go, Is, Within, Becomes, Phase,
       leaseVars
  <2>6. opLock'[w] = c
    BY <1>2, <1>4 DEF Go
  <2> QED
    BY <1>2, <2>1, <2>2, <2>3, <2>5, <2>6, StayingKeeps
<1>5. CASE Leave(w, c)
  <2>1. OnlyCall(w, c) /\ opLock' = [opLock EXCEPT ![w] = NoCaller]
        /\ opLock' \in [Windows -> Callers \cup {NoCaller}]
    BY <1>1, <1>5, LeaveTypes
  <2>2. TypeOK'
    BY <1>1, <2>1 DEF WaitBegins, OnlyCall, TypeOK, leaseVars
  <2>3. Alone(w) /\ Grows(w)
    BY <1>1, <2>1 DEF WaitBegins, Alone, Grows, OnlyCall, TypeOK, IInv, DraftsDiffer, leaseVars
  <2>4. Settled(w)'
    BY <1>1, <1>3, NoneAssumption DEF WaitBegins, Is, Settled, Within, CallOK, LeaseIsCarried,
       leaseVars, Carrying, Targeting, Persisting
  <2> QED
    BY <1>2, <1>5, <2>2, <2>3, <2>4, LeavingKeeps
<1> QED
  BY <1>4, <1>5 DEF WaitBegins

\* What a wait acquired is kept or let go.
LEMMA WaitConfirmsKeeps ==
  ASSUME IInv, NEW w \in Windows, NEW c \in Callers, WaitConfirms(w, c)
  PROVE  IInv'
<1>1. TypeOK /\ WindowOK(w) /\ CallOK(w, c) /\ op[w][c] \in Op
  BY DEF IInv, WindowOK, TypeOK
<1>2. opLock[w] = c
  BY <1>1 DEF WaitConfirms, CallOK, CallerIsInside
<1>3. Within(w, c)
  BY <1>1, <1>2, InsideIs
<1>4. CASE Go(w, c, "loading") /\ UNCHANGED locked
  <2>1. OnlyCall(w, c) /\ Becomes(w, c, "loading", op[w][c].lease, op[w][c].late)
    BY <1>1, <1>4, GoTypes DEF Phases
  <2>2. TypeOK'
    BY <1>1, <1>4, <2>1 DEF WaitConfirms, Go, OnlyCall, TypeOK, leaseVars
  <2>3. Alone(w) /\ Grows(w)
    BY <1>1, <1>4, <2>1 DEF WaitConfirms, Go, Alone, Grows, OnlyCall, TypeOK, IInv,
       DraftsDiffer, leaseVars
  <2>4. CallOK(w, c)'
    BY <1>1, <1>2, <1>3, <1>4, <2>1, NoneAssumption DEF WaitConfirms, Go, Becomes, Phase,
       leaseVars, CallOK, CallerIsInside, TargetIsSaved, HasTarget, LeaseIsCarried,
       PersistsItsDraft, LateIsKnown, WritesItsLease, Carrying, Targeting, Persisting
  <2>5. Within(w, c)'
    BY <1>1, <1>2, <1>3, <1>4, <2>1, <2>4 DEF WaitConfirms, Go, Within, Becomes, Phase,
       leaseVars
  <2>6. opLock'[w] = c
    BY <1>2, <1>4 DEF Go
  <2> QED
    BY <1>2, <2>1, <2>2, <2>3, <2>5, <2>6, StayingKeeps
<1>5. CASE Leave(w, c) /\ locked' = Unlocked(locked, w, op[w][c].lease)
  <2>1. OnlyCall(w, c) /\ opLock' = [opLock EXCEPT ![w] = NoCaller]
        /\ opLock' \in [Windows -> Callers \cup {NoCaller}]
    BY <1>1, <1>5, LeaveTypes
  <2>2. /\ locked' \in [Threads -> Windows \cup {NoWindow}]
        /\ \A u \in Threads, v \in Windows :
             locked'[u] = v <=> locked[u] = v /\ ~(v = w /\ u = op[w][c].lease)
    BY <1>1, <1>5, UnlockedIs DEF TypeOK
  <2>3. TypeOK'
    BY <1>1, <2>1, <2>2 DEF WaitConfirms, OnlyCall, TypeOK, leaseVars
  <2>4. Alone(w) /\ Grows(w)
    BY <1>1, <2>1, <2>2 DEF WaitConfirms, Alone, Grows, OnlyCall, TypeOK, IInv, DraftsDiffer,
       leaseVars
  <2>5. Settled(w)'
    BY <1>1, <1>3, <2>2, NoneAssumption DEF WaitConfirms, Settled, Within, CallOK,
       LeaseIsCarried, leaseVars, Carrying, Targeting, Persisting
  <2> QED
    BY <1>2, <1>5, <2>3, <2>4, <2>5, LeavingKeeps
<1> QED
  BY <1>4, <1>5 DEF WaitConfirms

\* An operation is called: outside of the runner.
LEMMA CallKeeps ==
  ASSUME IInv, NEW w \in Windows, NEW c \in Callers, NEW kind \in Kinds, NEW target \in MaybeThread,
         Call(w, c, kind, target), kind \in {"switch", "wait"} => target \in rows
  PROVE  IInv'
<1> DEFINE r == [Idle EXCEPT !.phase = "checked", !.kind = kind, !.target = target]
<1>1. TypeOK /\ WindowOK(w) /\ CallOK(w, c) /\ calls < MaxCalls /\ calls' = calls + 1
  BY DEF IInv, WindowOK, Call
<1>2. r \in Op /\ r.phase = "checked" /\ r.kind = kind /\ r.target = target
      /\ r.lease = NoThread /\ r.late = FALSE
  BY DEF Idle, Op, Phases, MaybeThread
<1>3. op' = [op EXCEPT ![w][c] = r]
  BY DEF Call
<1>4. opLock[w] # c
  BY <1>1 DEF Call, CallOK, CallerIsInside
<1> HIDE DEF r
<1>5. OnlyCall(w, c) /\ op'[w][c] = r
  BY <1>1, <1>2, <1>3, CallReplaced DEF TypeOK
<1>6. UNCHANGED <<rows, locked, leaseVars, config, opLock, closing, inbox>>
  BY DEF Call
<1>7. TypeOK'
  <2>1. calls' \in 0..MaxCalls
    BY <1>1, BoundAssumption DEF TypeOK
  <2> QED
    BY <1>1, <1>5, <1>6, <2>1 DEF TypeOK, OnlyCall, leaseVars
<1>8. CallOK(w, c)'
  BY <1>2, <1>4, <1>5, <1>6, NoneAssumption DEF Phase, leaseVars, CallOK, CallerIsInside,
     TargetIsSaved, HasTarget, LeaseIsCarried, PersistsItsDraft, LateIsKnown, WritesItsLease,
     Carrying, Targeting, Persisting
<1> QED
  BY <1>4, <1>5, <1>6, <1>7, <1>8, OutsideKeeps

\* What may be called: a target is in the catalog.
LEMMA CallsKeeps ==
  ASSUME IInv, NEW w \in Windows, NEW c \in Callers, Calls(w, c)
  PROVE  IInv'
<1>1. TypeOK /\ WindowOK(w)
  BY DEF IInv
<1>2. CASE \E kind \in {"run", "new"} : Call(w, c, kind, NoThread)
  BY <1>2, CallKeeps DEF Kinds, MaybeThread
<1>3. CASE \E t \in rows : Call(w, c, "switch", t)
  BY <1>1, <1>3, CallKeeps DEF Kinds, MaybeThread, TypeOK
<1>4. CASE pendingSwitch[w] # NoThread /\ Call(w, c, "wait", pendingSwitch[w])
  <2>1. pendingSwitch[w] \in rows /\ pendingSwitch[w] \in MaybeThread
    BY <1>1, <1>4 DEF WindowOK, TypeOK
  <2> QED
    BY <1>4, <2>1, CallKeeps DEF Kinds
<1> QED
  BY <1>2, <1>3, <1>4 DEF Calls

\* A call that finds the runner busy is refused.
LEMMA CallRefusedKeeps ==
  ASSUME IInv, NEW w \in Windows, NEW c \in Callers, CallRefused(w, c)
  PROVE  IInv'
<1>1. TypeOK /\ WindowOK(w) /\ CallOK(w, c)
  BY DEF IInv, WindowOK
<1>2. OnlyCall(w, c) /\ op'[w][c] = Idle
  BY <1>1, IdleIsOp, CallReplaced DEF CallRefused, TypeOK
<1>3. opLock[w] # c
  BY <1>1 DEF CallRefused, CallOK, CallerIsInside
<1>4. TypeOK'
  BY <1>1, <1>2 DEF CallRefused, TypeOK, OnlyCall, leaseVars
<1>5. CallOK(w, c)'
  BY <1>2, <1>3, NoneAssumption DEF CallRefused, Idle, Phase, leaseVars, CallOK, CallerIsInside,
     TargetIsSaved, HasTarget, LeaseIsCarried, PersistsItsDraft, LateIsKnown, WritesItsLease,
     Carrying, Targeting, Persisting
<1> QED
  BY <1>2, <1>3, <1>4, <1>5, OutsideKeeps DEF CallRefused

\* A wait is cancelled.
LEMMA CancelWaitKeeps ==
  ASSUME IInv, NEW w \in Windows, NEW c \in Callers, CancelWait(w, c)
  PROVE  IInv'
<1>1. TypeOK /\ WindowOK(w) /\ CallOK(w, c)
  BY DEF IInv, WindowOK
<1>2. OnlyCall(w, c) /\ Becomes(w, c, op[w][c].phase, op[w][c].lease, op[w][c].late)
  BY <1>1, CallCancelled DEF CancelWait, TypeOK
<1>3. TypeOK'
  BY <1>1, <1>2 DEF CancelWait, TypeOK, OnlyCall, leaseVars
<1>4. CallOK(w, c)'
  BY <1>1, <1>2 DEF CancelWait, Becomes, Phase, leaseVars, CallOK, CallerIsInside,
     TargetIsSaved, HasTarget, LeaseIsCarried, PersistsItsDraft, LateIsKnown, WritesItsLease
<1> QED
  BY <1>2, <1>3, <1>4, OutsideKeeps DEF CancelWait, Becomes

\* Input is queued or taken back.
LEMMA InputKeeps ==
  ASSUME IInv, inbox' \in [Windows -> MaybeThread],
         UNCHANGED <<rows, locked, leaseVars, config, callVars, closing, calls>>
  PROVE  IInv'
<1>1. TypeOK'
  BY DEF IInv, TypeOK, leaseVars, callVars
<1>2. ASSUME NEW w \in Windows PROVE WindowOK(w)'
  <2>1. WindowOK(w)
    BY DEF IInv
  <2> QED
    BY <2>1 DEF WindowOK, LocksAccounted, DraftIsOwn, GraphIsCurrent, Carried, Stage, Phase,
       leaseVars, callVars, CallOK, CallerIsInside, TargetIsSaved, HasTarget, LeaseIsCarried,
       PersistsItsDraft, LateIsKnown, WritesItsLease
<1> QED
  BY <1>1, <1>2 DEF IInv, DraftsDiffer, leaseVars

\* A message is queued.
LEMMA QueueInputKeeps ==
  ASSUME IInv, NEW w \in Windows, QueueInput(w)
  PROVE  IInv'
<1>1. inbox' \in [Windows -> MaybeThread]
  BY DEF IInv, TypeOK, QueueInput, MaybeThread
<1> QED
  BY <1>1, InputKeeps DEF QueueInput

\* What is queued is taken back.
LEMMA ReclaimInputKeeps ==
  ASSUME IInv, NEW w \in Windows, ReclaimInput(w)
  PROVE  IInv'
<1>1. inbox' \in [Windows -> MaybeThread]
  BY DEF IInv, TypeOK, ReclaimInput, MaybeThread
<1> QED
  BY <1>1, InputKeeps DEF ReclaimInput

\* A step of close(): past the drain, an operation inside the runner is late.
LEMMA ClosingKeeps ==
  ASSUME IInv, NEW w \in Windows, NEW to \in Closing,
         closing' = [closing EXCEPT ![w] = to],
         UNCHANGED <<rows, threadId, draft, pendingSwitch, config, callVars, inbox, calls>>,
         \A c \in Callers :
           to \in {"drained", "confirmed", "done"} /\ opLock[w] = c => op[w][c].late,
         \/ UNCHANGED <<locked, lease>>
         \/ /\ locked' = DropLease(locked, w) /\ lease' = [lease EXCEPT ![w] = NoThread]
            /\ to = "done"
  PROVE  IInv'
<1>1. TypeOK /\ WindowOK(w)
  BY DEF IInv
<1>2. /\ locked' \in [Threads -> Windows \cup {NoWindow}]
      /\ \A u \in Threads, v \in Windows :
           v # w \/ UNCHANGED locked => (locked'[u] = v <=> locked[u] = v)
      /\ locked' = DropLease(locked, w) =>
           \A u \in Threads :
             locked'[u] = w <=> locked[u] = w /\ ~(u = lease[w] /\ lease[w] # draft[w])
  BY <1>1, DropLeaseIs DEF TypeOK
<1>3. TypeOK'
  BY <1>1, <1>2 DEF TypeOK, callVars, MaybeThread
<1>4. Alone(w) /\ Grows(w)
  BY <1>1, <1>2 DEF Alone, Grows, TypeOK, IInv, DraftsDiffer, callVars
<1>5. closing'[w] = to /\ lease'[w] \in {lease[w], NoThread}
      /\ (lease'[w] # lease[w] => to = "done")
  BY <1>1 DEF TypeOK
<1>6. ASSUME NEW c \in Callers PROVE CallOK(w, c)'
  <2>1. CallOK(w, c)
    BY <1>1 DEF WindowOK
  <2> QED
    BY <1>5, <2>1 DEF Phase, callVars, CallOK, CallerIsInside, TargetIsSaved, HasTarget,
       LeaseIsCarried, PersistsItsDraft, LateIsKnown, WritesItsLease
<1>7. Carried(w)' = Carried(w) /\ Stage(w)' = Stage(w)
  BY DEF Carried, Stage, Phase, callVars
<1>8. LocksAccounted(w)'
  <2>1. LocksAccounted(w)
    BY <1>1 DEF WindowOK
  <2>2. CASE UNCHANGED <<locked, lease>>
    BY <1>7, <2>1, <2>2 DEF LocksAccounted
  <2>3. CASE locked' = DropLease(locked, w) /\ lease' = [lease EXCEPT ![w] = NoThread]
    <3>1. lease'[w] = NoThread
      BY <1>1, <2>3 DEF TypeOK
    <3>2. \A u \in Threads : Carried(w) = u /\ lease[w] # draft[w] => u # lease[w]
      <4>1. ASSUME NEW c \in Callers, opLock[w] = c
            PROVE  op[w][c].lease \in {NoThread, draft[w]} \/ op[w][c].lease # lease[w]
        <5>1. CallOK(w, c) /\ op[w][c] \in Op
          BY <1>1 DEF WindowOK, TypeOK
        <5> QED
          BY <5>1 DEF CallOK, LeaseIsCarried, Carrying
      <4> QED
        BY <1>1, <4>1, NoneAssumption DEF Carried, TypeOK
    <3> QED
      BY <1>2, <1>7, <2>1, <2>3, <3>1, <3>2, NoneAssumption DEF LocksAccounted
  <2> QED
    BY <2>2, <2>3
<1>9. DraftIsOwn(w)' /\ GraphIsCurrent(w)'
  BY <1>1, <1>5, <1>7 DEF WindowOK, DraftIsOwn, GraphIsCurrent, callVars
<1>10. WindowOK(w)'
  BY <1>1, <1>6, <1>8, <1>9 DEF WindowOK
<1> QED
  BY <1>3, <1>4, <1>10, OtherWindows

\* The steps of close(), in order.
LEMMA CloseKeeps ==
  ASSUME IInv, NEW w \in Windows, CloseSteps(w)
  PROVE  IInv'
<1>1. TypeOK /\ WindowOK(w)
  BY DEF IInv
<1>2. \A c \in Callers :
        closing[w] \in {"drained", "confirmed", "done"} /\ opLock[w] = c => op[w][c].late
  BY <1>1 DEF WindowOK, CallOK, LateIsKnown
<1>3. CASE CloseCalled(w)
  BY <1>3, ClosingKeeps DEF CloseCalled, CloseStep, Closing
<1>4. CASE AbortWait(w)
  BY <1>4, ClosingKeeps DEF AbortWait, CloseStep, Closing
<1>5. CASE Drain(w)
  BY <1>5, ClosingKeeps, NoneAssumption DEF Drain, Drained, CloseStep, Closing
<1>6. CASE ConfirmStreams(w)
  BY <1>2, <1>6, ClosingKeeps DEF ConfirmStreams, CloseStep, Closing
<1>7. CASE ReleaseLease(w)
  BY <1>2, <1>7, ClosingKeeps DEF ReleaseLease, CloseStep, Closing
<1> QED
  BY <1>3, <1>4, <1>5, <1>6, <1>7 DEF CloseSteps

\* The process of a window ends.
LEMMA ProcessEndsKeeps ==
  ASSUME IInv, NEW w \in Windows, ProcessEnds(w)
  PROVE  IInv'
<1>1. TypeOK
  BY DEF IInv
<1>2. \A c \in Callers : op'[w][c] = Idle
  BY <1>1 DEF ProcessEnds, TypeOK
<1>3. opLock'[w] = NoCaller /\ lease'[w] = NoThread /\ draft'[w] = NoThread
      /\ pendingSwitch'[w] = NoThread /\ config'[w] = threadId'[w]
  BY <1>1 DEF ProcessEnds, TypeOK
<1>4. /\ locked' \in [Threads -> Windows \cup {NoWindow}]
      /\ \A u \in Threads, v \in Windows : locked'[u] = v <=> locked[u] = v /\ v # w
  BY <1>1, NoneAssumption DEF ProcessEnds, TypeOK
<1>5. TypeOK'
  BY <1>1, <1>4, IdleIsOp DEF ProcessEnds, TypeOK, MaybeThread, Closing
<1>6. Alone(w) /\ Grows(w)
  BY <1>1, <1>3, <1>4 DEF ProcessEnds, Alone, Grows, TypeOK
<1>7. \A c \in Callers : CallOK(w, c)'
  BY <1>2, <1>3, NoneAssumption DEF Idle, Phase, CallOK, CallerIsInside, TargetIsSaved,
     HasTarget, LeaseIsCarried, PersistsItsDraft, LateIsKnown, WritesItsLease, Carrying,
     Targeting, Persisting
<1>8. Carried(w)' = NoThread /\ Stage(w)' = "idle"
  BY <1>3 DEF Carried, Stage
<1>9. rows' \subseteq Threads
  BY <1>5 DEF TypeOK
<1>10. LocksAccounted(w)' /\ DraftIsOwn(w)' /\ GraphIsCurrent(w)'
  BY <1>3, <1>4, <1>8, <1>9, NoneAssumption DEF LocksAccounted, DraftIsOwn, GraphIsCurrent
<1>11. WindowOK(w)'
  BY <1>3, <1>7, <1>10 DEF WindowOK
<1> QED
  BY <1>5, <1>6, <1>11, OtherWindows

-----------------------------------------------------------------------------
(* The invariant. *)

\* Each window starts on a draft of its own, and nobody holds a lock.
LEMMA InitHolds == Init => IInv
<1> SUFFICES ASSUME Init PROVE IInv
  OBVIOUS
<1>1. TypeOK
  BY BoundAssumption, SavedAssumption, IdleIsOp DEF Init, TypeOK, MaybeThread, Closing
<1>2. DraftsDiffer
  BY DEF Init, DraftsDiffer
<1>3. ASSUME NEW w \in Windows PROVE WindowOK(w)
  <2>1. \A c \in Callers : op[w][c] = Idle
    BY DEF Init
  <2>2. opLock[w] = NoCaller /\ closing[w] = "open" /\ pendingSwitch[w] = NoThread
    BY DEF Init
  <2>3. \A c \in Callers : CallOK(w, c)
    BY <2>1, <2>2, NoneAssumption DEF Idle, Phase, CallOK, CallerIsInside, TargetIsSaved,
       HasTarget, LeaseIsCarried, PersistsItsDraft, LateIsKnown, WritesItsLease, Carrying,
       Targeting, Persisting
  <2>4. Carried(w) = NoThread /\ Stage(w) = "idle"
    BY <2>2 DEF Carried, Stage
  <2>5. LocksAccounted(w) /\ DraftIsOwn(w) /\ GraphIsCurrent(w)
    BY <2>4, NoneAssumption DEF Init, LocksAccounted, DraftIsOwn, GraphIsCurrent
  <2> QED
    BY <2>2, <2>3, <2>5 DEF WindowOK
<1> QED
  BY <1>1, <1>2, <1>3 DEF IInv

\* Every step keeps the invariant.
LEMMA StepKeeps == IInv /\ [Next]_vars => IInv'
<1> SUFFICES ASSUME IInv, [Next]_vars PROVE IInv'
  OBVIOUS
<1>1. ASSUME NEW w \in Windows, NEW c \in Callers, OperationStep(w, c) PROVE IInv'
  BY <1>1, EnterKeeps, CallRefusedKeeps, RunRefusedKeeps, RunAcceptedKeeps, PersistAcquireKeeps,
     PersistCreatesKeeps, PersistFailsKeeps, PersistAdoptsKeeps, SwitchRefusedKeeps,
     SwitchBeginsKeeps, SwitchReloadsKeeps, SwitchAcquiresKeeps, SwitchBusyKeeps,
     DetachForWaitKeeps, ApplyPlanKeeps, SwitchFailsKeeps, SwitchAdoptsKeeps, SwitchBindsKeeps,
     WaitBeginsKeeps, WaitGivesUpKeeps, WaitConfirmsKeeps, NewRefusedKeeps,
     NewSessionKeeps DEF OperationStep
<1>2. ASSUME NEW w \in Windows, NEW c \in Callers,
             Calls(w, c) \/ WaitAcquires(w, c) \/ CancelWait(w, c) \/ EndRun(w, c)
      PROVE  IInv'
  BY <1>2, CallsKeeps, WaitAcquiresKeeps, CancelWaitKeeps, EndRunKeeps
<1>3. ASSUME NEW w \in Windows,
             QueueInput(w) \/ ReclaimInput(w) \/ CloseSteps(w) \/ ProcessEnds(w)
      PROVE  IInv'
  BY <1>3, QueueInputKeeps, ReclaimInputKeeps, CloseKeeps, ProcessEndsKeeps
<1>4. CASE UNCHANGED vars
  <2>1. inbox' \in [Windows -> MaybeThread]
    BY <1>4 DEF vars, IInv, TypeOK
  <2> QED
    BY <1>4, <2>1, InputKeeps DEF vars
<1> QED
  BY <1>1, <1>2, <1>3, <1>4 DEF Next

\* The invariant holds throughout.
THEOREM Invariance == Spec => []IInv
  BY InitHolds, StepKeeps, PTL DEF Spec

-----------------------------------------------------------------------------
(* The properties. *)

\* Every variable has its type, whatever the number of windows, callers and sessions.
THEOREM OwnershipTypes == Spec => []TypeOK
<1>1. IInv => TypeOK
  BY DEF IInv
<1> QED
  BY <1>1, Invariance, PTL

\* A run that entered before close() had drained the runner writes a session whose lock
\* its window holds, through persisting a draft, switches, waits and close().
THEOREM RunsHoldTheLock == Spec => []WriterHoldsLock
<1>1. IInv => WriterHoldsLock
  <2> SUFFICES ASSUME IInv, NEW w \in Windows, NEW c \in Callers,
                      Phase(w, c) = "writing", ~op[w][c].late
               PROVE  locked[threadId[w]] = w
    BY DEF WriterHoldsLock
  <2>1. WindowOK(w) /\ CallOK(w, c) /\ threadId[w] \in Threads
    BY DEF IInv, WindowOK, TypeOK
  <2>2. lease[w] = threadId[w] /\ draft[w] = NoThread
    BY <2>1 DEF CallOK, WritesItsLease
  <2> QED
    BY <2>1, <2>2, NoneAssumption DEF WindowOK, LocksAccounted
<1> QED
  BY <1>1, Invariance, PTL

\* Between operations a window holds the lock of its persisted session and of no other,
\* and its graph is that session's, whichever step failed, was refused or cancelled.
THEOREM StepsLeaveNothing == Spec => []NothingLeftBehind
<1>1. IInv => NothingLeftBehind
  <2> SUFFICES ASSUME IInv, NEW w \in Windows, opLock[w] = NoCaller
               PROVE  /\ \A t \in Threads : locked[t] = w <=> lease[w] = t /\ draft[w] # t
                      /\ config[w] = threadId[w]
    BY DEF NothingLeftBehind, NoLockLeaks, ConfigFollowsSession
  <2>1. Settled(w)
    BY SettledIs DEF IInv
  <2> QED
    BY <2>1 DEF Settled
<1> QED
  BY <1>1, Invariance, PTL

=============================================================================

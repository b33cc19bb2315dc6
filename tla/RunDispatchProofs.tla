-------------------------- MODULE RunDispatchProofs --------------------------
(***************************************************************************)
(* Proofs about RunDispatch: reservations, cancels and deferred steering   *)
(* between the terminal UI and the runner, for any number of messages,     *)
(* operations and generations.                                             *)
(*                                                                         *)
(* An operation only ever moves on (Moved) or is dispatched (Dispatched).  *)
(* Each way of moving on is a lemma about the invariant; OperationStep and *)
(* OtherStep say which actions of the code are which.                      *)
(***************************************************************************)
EXTENDS RunDispatch, TLAPS

-----------------------------------------------------------------------------
\* The phases in which an operation holds the operation lock, those before its
\* begin_run, and those between begin_run and end_run.
Locked == {"acquired", "entered", "resuming", "graph", "lastStep", "polling", "pollSteering",
           "pollFollowUp", "continuing", "completing", "ending", "releasing", "unlocking"}
Before == {"waiting", "acquired", "entered", "resuming"}
Inside == {"graph", "lastStep", "polling", "pollSteering", "pollFollowUp", "continuing",
           "completing", "ending"}
Finished == {"returned", "handled", "done"}

-----------------------------------------------------------------------------
(* The invariant. *)

UIJob == [children : SUBSET {}, streams : SUBSET {}, control : Nat, tools : SUBSET {}]

\* What the invariant needs of the types.
Types ==
  /\ nextGen \in Nat \ {0} /\ active \in Nat /\ reserved \in Nat /\ last \in Nat
  /\ cancelEvents \in SUBSET Nat /\ drains \in SUBSET Nat /\ beginDrain \in Nat
  /\ scopeJob \in [{"ui"} -> UIJob]
  /\ ops \in Seq(Op) /\ lockHolder \in 0..Len(ops) /\ uiWork \in 0..Len(ops)
  /\ runEpoch \in Nat /\ escs \in SUBSET Nat
  /\ interrupted \in BOOLEAN /\ deferSteering \in BOOLEAN
  /\ children = {} /\ activeTools = {}

\* Generations are handed out in order, and what drains was cancelled.
Generations ==
  /\ active < nextGen /\ reserved < nextGen /\ last < nextGen
  /\ \A g \in cancelEvents : 0 < g /\ g < nextGen
  /\ drains \subseteq cancelEvents
  /\ beginDrain # NoGen => beginDrain \in cancelEvents
  /\ scopeJob["ui"].control # NoGen => scopeJob["ui"].control \in cancelEvents

\* The operation lock is held by the operation that is in its guarded part.
LockHeld == \A i \in DOMAIN ops : ops[i].phase \in Locked <=> lockHolder = i

\* A run is active exactly while an operation is between begin_run and end_run.
ActiveInside == active # NoGen <=> \E i \in DOMAIN ops : ops[i].phase \in Inside

\* A cleanup neither runs nor resumes; what runs was dispatched with a reservation.
KindsFit ==
  \A i \in DOMAIN ops :
    /\ ops[i].kind = "cleanup" =>
         ops[i].phase \in {"waiting", "acquired", "entered", "releasing", "unlocking",
                           "returned", "done"}
    /\ ops[i].phase = "resuming" => ops[i].kind = "resume"

\* A cleanup is refused or completes.
CleanupsComplete ==
  \A i \in DOMAIN ops :
    ops[i].kind = "cleanup" => ops[i].outcome \in {"none", "completed", "rejected"}

\* Every operation has a reservation that was handed out and an epoch that has begun.
NumbersFit ==
  \A i \in DOMAIN ops :
    /\ ops[i].kind # "cleanup" => 0 < ops[i].reservation
    /\ ops[i].kind = "cleanup" => ops[i].reservation = NoGen
    /\ ops[i].reservation < nextGen /\ ops[i].epoch <= runEpoch

\* The UI handles the result of an operation that has returned.
WorkReturned == uiWork # 0 => ops[uiWork].phase = "handled"

\* A reservation belongs to a run that is not handled yet.
ReservationOwned ==
  reserved # NoGen =>
    \E i \in DOMAIN ops :
      ops[i].kind # "cleanup" /\ ops[i].reservation = reserved /\ ops[i].phase # "done"

\* Esc is pressed in an epoch that has begun.
EscsPast == \A e \in escs : e <= runEpoch

\* Where no two operations overlapped:
\* only the last one may be under way, and it is the one shown;
LastUnderWay ==
  \A i \in DOMAIN ops :
    ops[i].phase \notin Finished =>
      i = Len(ops) /\ (ops[i].kind # "cleanup" => ops[i].epoch = runEpoch)

\* each run has a reservation of its own;
OwnReservation ==
  \A i, j \in DOMAIN ops :
    ops[i].kind # "cleanup" /\ ops[i].reservation = ops[j].reservation => i = j

\* it is in force until the run begins, and gone once the operation has returned;
InForce ==
  \A i \in DOMAIN ops :
    ops[i].kind # "cleanup" /\ ops[i].phase \in Before => reserved = ops[i].reservation

\* no other reservation is;
OnlyInForce ==
  reserved # NoGen =>
    /\ 0 < Len(ops) /\ ops[Len(ops)].kind # "cleanup"
    /\ ops[Len(ops)].phase \in Before \cup {"releasing"}
    /\ ops[Len(ops)].phase \in {"entered", "resuming", "releasing"} =>
         ops[Len(ops)].entry = reserved

\* a generation that is reserved or active is cancelled exactly by Esc;
CancelledByEsc ==
  /\ reserved # NoGen /\ reserved \in cancelEvents => runEpoch \in escs
  /\ active # NoGen /\ active \in cancelEvents => runEpoch \in escs

\* so is every run that was cancelled;
OutcomeByEsc == \A i \in DOMAIN ops : ops[i].outcome = "cancelled" => ops[i].epoch \in escs

\* Esc holds for the reservation and for every generation of the run;
EscHolds ==
  \A i \in DOMAIN ops :
    ops[i].kind # "cleanup" /\ ops[i].epoch \in escs =>
      /\ ops[i].phase \in Before => reserved \in cancelEvents
      /\ ops[i].phase \in Inside => active \in cancelEvents

\* and steering is held back only by the interrupt the user has to decide on.
Deferred ==
  /\ deferSteering => interrupted
  /\ \A i \in DOMAIN ops :
       /\ ops[i].kind = "run" /\ ops[i].phase \in Before => ~interrupted
       /\ ops[i].phase = "resuming" \/ ops[i].phase \in Inside \ {"ending"} => ~deferSteering

\* All of that.
Separate ==
  /\ LastUnderWay /\ OwnReservation /\ InForce /\ OnlyInForce
  /\ CancelledByEsc /\ OutcomeByEsc /\ EscHolds /\ Deferred

\* The inductive invariant.
IInv ==
  /\ Types /\ Generations /\ LockHeld /\ ActiveInside /\ KindsFit /\ WorkReturned
  /\ ReservationOwned /\ EscsPast /\ NumbersFit /\ CleanupsComplete
  /\ ~Overlapped => Separate


-----------------------------------------------------------------------------
(* What the steps do to the operations. *)

\* Operation i moves on, and nothing else about the operations changes.
Moved(i, phase, entry, outcome) ==
  /\ ops' \in Seq(Op) /\ Len(ops') = Len(ops) /\ DOMAIN ops' = DOMAIN ops
  /\ \A j \in DOMAIN ops :
       /\ ops'[j].kind = ops[j].kind /\ ops'[j].epoch = ops[j].epoch
       /\ ops'[j].reservation = ops[j].reservation /\ ops'[j].overlaps = ops[j].overlaps
       /\ ops'[j].phase = IF j = i THEN phase ELSE ops[j].phase
       /\ ops'[j].entry = IF j = i THEN entry ELSE ops[j].entry
       /\ ops'[j].outcome = IF j = i THEN outcome ELSE ops[j].outcome

\* An operation is dispatched.
Dispatched(kind, epoch, reservation) ==
  /\ ops' \in Seq(Op) /\ Len(ops') = Len(ops) + 1
  /\ DOMAIN ops = 1..Len(ops) /\ DOMAIN ops' = 1..Len(ops) + 1
  /\ \A j \in DOMAIN ops : ops'[j] = ops[j]
  /\ LET new == ops'[Len(ops) + 1] IN
       /\ new.kind = kind /\ new.epoch = epoch /\ new.reservation = reservation
       /\ new.phase = "waiting" /\ new.entry = NoGen /\ new.outcome = "none"
       /\ new.overlaps <=> InFlight # {}

\* A step that sets the phase, the entry and the outcome of one operation.
LEMMA MovedBy ==
  ASSUME ops \in Seq(Op), NEW i \in DOMAIN ops,
         NEW phase \in Phases, NEW entry \in Nat, NEW outcome \in Outcomes,
         ops' = [ops EXCEPT ![i] = [@ EXCEPT !.phase = phase, !.entry = entry,
                                             !.outcome = outcome]]
  PROVE  Moved(i, phase, entry, outcome)
PROOF
  <1>1. ops[i] \in Op
    OBVIOUS
  <1>2. [ops[i] EXCEPT !.phase = phase, !.entry = entry, !.outcome = outcome] \in Op
    BY <1>1 DEF Op
  <1>3. ops' \in Seq(Op) /\ Len(ops') = Len(ops) /\ DOMAIN ops' = DOMAIN ops
    BY <1>2
  <1>4. ASSUME NEW j \in DOMAIN ops
        PROVE  /\ ops'[j].kind = ops[j].kind /\ ops'[j].epoch = ops[j].epoch
               /\ ops'[j].reservation = ops[j].reservation
               /\ ops'[j].overlaps = ops[j].overlaps
               /\ ops'[j].phase = IF j = i THEN phase ELSE ops[j].phase
               /\ ops'[j].entry = IF j = i THEN entry ELSE ops[j].entry
               /\ ops'[j].outcome = IF j = i THEN outcome ELSE ops[j].outcome
    <2>1. ops[j] \in Op
      OBVIOUS
    <2>2. ops'[j] = IF j = i THEN [ops[i] EXCEPT !.phase = phase, !.entry = entry,
                                                 !.outcome = outcome]
                    ELSE ops[j]
      OBVIOUS
    <2> QED BY <1>1, <2>1, <2>2 DEF Op
  <1> QED BY <1>3, <1>4 DEF Moved

\* One that sets its phase.
LEMMA MoveIs ==
  ASSUME ops \in Seq(Op), NEW i \in DOMAIN ops, NEW phase \in Phases,
         ops' = [ops EXCEPT ![i].phase = phase]
  PROVE  Moved(i, phase, ops[i].entry, ops[i].outcome)
PROOF
  <1>1. ops[i] \in Op
    OBVIOUS
  <1>2. ops[i].entry \in Nat /\ ops[i].outcome \in Outcomes
    BY <1>1 DEF Op
  <1>3. [ops[i] EXCEPT !.phase = phase]
          = [ops[i] EXCEPT !.phase = phase, !.entry = ops[i].entry, !.outcome = ops[i].outcome]
    BY <1>1 DEF Op
  <1> QED BY <1>2, <1>3, MovedBy

\* One that sets its phase and its outcome.
LEMMA MoveWithIs ==
  ASSUME ops \in Seq(Op), NEW i \in DOMAIN ops, NEW phase \in Phases,
         NEW outcome \in Outcomes,
         ops' = [ops EXCEPT ![i].phase = phase, ![i].outcome = outcome]
  PROVE  Moved(i, phase, ops[i].entry, outcome)
PROOF
  <1>1. ops[i] \in Op
    OBVIOUS
  <1>2. ops[i].entry \in Nat
    BY <1>1 DEF Op
  <1>3. [[ops[i] EXCEPT !.phase = phase] EXCEPT !.outcome = outcome]
          = [ops[i] EXCEPT !.phase = phase, !.entry = ops[i].entry, !.outcome = outcome]
    BY <1>1 DEF Op
  <1>4. ops' = [ops EXCEPT ![i] = [[ops[i] EXCEPT !.phase = phase] EXCEPT !.outcome = outcome]]
    OBVIOUS
  <1> QED BY <1>2, <1>3, <1>4, MovedBy

\* One that reads the reservation.
LEMMA ReadIs ==
  ASSUME ops \in Seq(Op), NEW i \in DOMAIN ops, NEW entry \in Nat,
         ops' = [ops EXCEPT ![i].phase = "entered", ![i].entry = entry]
  PROVE  Moved(i, "entered", entry, ops[i].outcome)
PROOF
  <1>1. ops[i] \in Op
    OBVIOUS
  <1>2. ops[i].outcome \in Outcomes /\ "entered" \in Phases
    BY <1>1 DEF Op, Phases
  <1>3. [[ops[i] EXCEPT !.phase = "entered"] EXCEPT !.entry = entry]
          = [ops[i] EXCEPT !.phase = "entered", !.entry = entry, !.outcome = ops[i].outcome]
    BY <1>1 DEF Op
  <1>4. ops' = [ops EXCEPT ![i] = [[ops[i] EXCEPT !.phase = "entered"] EXCEPT !.entry = entry]]
    OBVIOUS
  <1> QED BY <1>2, <1>3, <1>4, MovedBy

\* A new operation at the end of the list.
LEMMA DispatchIs ==
  ASSUME ops \in Seq(Op), NEW kind \in Kinds, NEW epoch \in Nat, NEW reservation \in Nat,
         ops' = Append(ops, NewOp(kind, epoch, reservation))
  PROVE  Dispatched(kind, epoch, reservation)
PROOF
  <1> DEFINE new == NewOp(kind, epoch, reservation)
  <1>1. new \in Op
    BY DEF NewOp, Op, Phases, Outcomes, NoGen
  <1>2. /\ ops' \in Seq(Op) /\ Len(ops') = Len(ops) + 1
        /\ DOMAIN ops = 1..Len(ops) /\ DOMAIN ops' = 1..Len(ops) + 1
        /\ \A j \in DOMAIN ops : ops'[j] = ops[j]
        /\ ops'[Len(ops) + 1] = new
    BY <1>1
  <1>3. /\ new.kind = kind /\ new.epoch = epoch /\ new.reservation = reservation
        /\ new.phase = "waiting" /\ new.entry = NoGen /\ new.outcome = "none"
        /\ new.overlaps = (InFlight # {})
    BY DEF NewOp
  <1> QED BY <1>2, <1>3 DEF Dispatched

\* An operation takes the lock.
LEMMA Acquiring ==
  ASSUME IInv,
         NEW i \in DOMAIN ops,
         ops[i].phase = "waiting",
         lockHolder = 0,
         lockHolder' = i,
         Moved(i, "acquired", ops[i].entry, ops[i].outcome),
         UNCHANGED <<nextGen, active, reserved, last, cancelEvents, drains, beginDrain,
                     scopeJob, uiWork, runEpoch, escs, interrupted, deferSteering, children,
                     activeTools>>
  PROVE  IInv'
PROOF
  <1>1. /\ Types /\ Generations /\ LockHeld /\ ActiveInside /\ KindsFit /\ WorkReturned
        /\ ReservationOwned /\ EscsPast /\ NumbersFit /\ CleanupsComplete
        /\ \A j \in DOMAIN ops : ops[j] \in Op
    BY DEF IInv, Types
  <1>2. Types'
    BY <1>1 DEF Types, Moved, NoGen
  <1>3. Generations'
    BY <1>1 DEF Generations, Moved, NoGen
  <1>4. LockHeld'
    BY <1>1 DEF LockHeld, Moved, Locked
  <1>5. ActiveInside'
    BY <1>1 DEF ActiveInside, Moved, Inside, NoGen
  <1>6. KindsFit'
    BY <1>1 DEF KindsFit, Moved, NoGen
  <1>7. WorkReturned'
    BY <1>1 DEF WorkReturned, Moved, Types
  <1>8. ReservationOwned'
    BY <1>1 DEF ReservationOwned, Moved, NoGen
  <1>9. EscsPast'
    BY <1>1 DEF EscsPast, Moved
  <1>10. NumbersFit'
    BY <1>1 DEF NumbersFit, Moved, NoGen
  <1>11. CleanupsComplete'
    BY <1>1 DEF CleanupsComplete, Moved, KindsFit
  <1>12. ~Overlapped' => ~Overlapped
    BY <1>1 DEF Overlapped, Moved
  <1>13. ASSUME ~Overlapped' PROVE Separate'
    <2>1. /\ LastUnderWay /\ OwnReservation /\ InForce /\ OnlyInForce
          /\ CancelledByEsc /\ OutcomeByEsc /\ EscHolds /\ Deferred
      BY <1>12, <1>13 DEF IInv, Separate
    <2>2. i = Len(ops) /\ \A j \in DOMAIN ops : j # i => ops[j].phase \in Finished
      BY <2>1, <1>1 DEF LastUnderWay, Inside, Finished
    <2>3. LastUnderWay'
      BY <2>1, <2>2, <1>1 DEF LastUnderWay, Moved, Finished
    <2>4. OwnReservation'
      BY <2>1, <2>2, <1>1 DEF OwnReservation, Moved
    <2>5. InForce'
      BY <2>1, <2>2, <1>1 DEF InForce, Moved, Before, NoGen
    <2>6. OnlyInForce'
      BY <2>1, <2>2, <1>1 DEF OnlyInForce, Moved, Before, NoGen
    <2>7. CancelledByEsc'
      BY <2>1, <2>2, <1>1 DEF CancelledByEsc, Moved, NoGen
    <2>8. OutcomeByEsc'
      BY <2>1, <2>2, <1>1 DEF OutcomeByEsc, Moved
    <2>9. EscHolds'
      BY <2>1, <2>2, <1>1 DEF EscHolds, Moved, Before, Inside, NoGen
    <2>10. Deferred'
      BY <2>1, <2>2, <1>1 DEF Deferred, Moved, Before, Inside
    <2> QED BY <2>3, <2>4, <2>5, <2>6, <2>7, <2>8, <2>9, <2>10 DEF Separate
  <1> QED BY <1>2, <1>3, <1>4, <1>5, <1>6, <1>7, <1>8, <1>9, <1>10, <1>11, <1>13 DEF IInv

\* A busy lock refuses an operation.
LEMMA Refusing ==
  ASSUME IInv,
         NEW i \in DOMAIN ops,
         ops[i].phase = "waiting",
         lockHolder # 0,
         Moved(i, "returned", ops[i].entry, "rejected"),
         UNCHANGED <<nextGen, active, reserved, last, cancelEvents, drains, beginDrain,
                     scopeJob, lockHolder, uiWork, runEpoch, escs, interrupted, deferSteering,
                     children, activeTools>>
  PROVE  IInv'
PROOF
  <1>1. /\ Types /\ Generations /\ LockHeld /\ ActiveInside /\ KindsFit /\ WorkReturned
        /\ ReservationOwned /\ EscsPast /\ NumbersFit /\ CleanupsComplete
        /\ \A j \in DOMAIN ops : ops[j] \in Op
    BY DEF IInv, Types
  <1>2. Types'
    BY <1>1 DEF Types, Moved, NoGen
  <1>3. Generations'
    BY <1>1 DEF Generations, Moved, NoGen
  <1>4. LockHeld'
    BY <1>1 DEF LockHeld, Moved, Locked
  <1>5. ActiveInside'
    BY <1>1 DEF ActiveInside, Moved, Inside, NoGen
  <1>6. KindsFit'
    BY <1>1 DEF KindsFit, Moved, NoGen
  <1>7. WorkReturned'
    BY <1>1 DEF WorkReturned, Moved, Types
  <1>8. ReservationOwned'
    BY <1>1 DEF ReservationOwned, Moved, NoGen
  <1>9. EscsPast'
    BY <1>1 DEF EscsPast, Moved
  <1>10. NumbersFit'
    BY <1>1 DEF NumbersFit, Moved, NoGen
  <1>11. CleanupsComplete'
    BY <1>1 DEF CleanupsComplete, Moved, KindsFit
  <1>12. ~Overlapped' => ~Overlapped
    BY <1>1 DEF Overlapped, Moved
  <1>13. ASSUME ~Overlapped' PROVE Separate'
    <2>1. /\ LastUnderWay /\ OwnReservation /\ InForce /\ OnlyInForce
          /\ CancelledByEsc /\ OutcomeByEsc /\ EscHolds /\ Deferred
      BY <1>12, <1>13 DEF IInv, Separate
    <2>2. i = Len(ops) /\ \A j \in DOMAIN ops : j # i => ops[j].phase \in Finished
      BY <2>1, <1>1 DEF LastUnderWay, Inside, Finished
    <2>3. LastUnderWay'
      BY <2>1, <2>2, <1>1 DEF LastUnderWay, Moved, Finished
    <2>4. OwnReservation'
      BY <2>1, <2>2, <1>1 DEF OwnReservation, Moved
    <2>5. InForce'
      BY <2>1, <2>2, <1>1 DEF InForce, Moved, Before, NoGen
    <2>6. OnlyInForce'
      <3>1. FALSE
        BY <2>1, <2>2, <1>1 DEF LockHeld, LastUnderWay, Types, Locked, Finished
      <3> QED BY <2>1, <2>2, <3>1, <1>1 DEF OnlyInForce
    <2>7. CancelledByEsc'
      BY <2>1, <2>2, <1>1 DEF CancelledByEsc, Moved, NoGen
    <2>8. OutcomeByEsc'
      BY <2>1, <2>2, <1>1 DEF OutcomeByEsc, Moved
    <2>9. EscHolds'
      BY <2>1, <2>2, <1>1 DEF EscHolds, Moved, Before, Inside, NoGen
    <2>10. Deferred'
      BY <2>1, <2>2, <1>1 DEF Deferred, Moved, Before, Inside
    <2> QED BY <2>3, <2>4, <2>5, <2>6, <2>7, <2>8, <2>9, <2>10 DEF Separate
  <1> QED BY <1>2, <1>3, <1>4, <1>5, <1>6, <1>7, <1>8, <1>9, <1>10, <1>11, <1>13 DEF IInv

\* An operation reads the reservation.
LEMMA Reading ==
  ASSUME IInv,
         NEW i \in DOMAIN ops,
         ops[i].phase = "acquired",
         Moved(i, "entered", reserved, ops[i].outcome),
         UNCHANGED <<nextGen, active, reserved, last, cancelEvents, drains, beginDrain,
                     scopeJob, lockHolder, uiWork, runEpoch, escs, interrupted, deferSteering,
                     children, activeTools>>
  PROVE  IInv'
PROOF
  <1>1. /\ Types /\ Generations /\ LockHeld /\ ActiveInside /\ KindsFit /\ WorkReturned
        /\ ReservationOwned /\ EscsPast /\ NumbersFit /\ CleanupsComplete
        /\ \A j \in DOMAIN ops : ops[j] \in Op
    BY DEF IInv, Types
  <1>2. Types'
    BY <1>1 DEF Types, Moved, NoGen
  <1>3. Generations'
    BY <1>1 DEF Generations, Moved, NoGen
  <1>4. LockHeld'
    BY <1>1 DEF LockHeld, Moved, Locked
  <1>5. ActiveInside'
    BY <1>1 DEF ActiveInside, Moved, Inside, NoGen
  <1>6. KindsFit'
    BY <1>1 DEF KindsFit, Moved, NoGen
  <1>7. WorkReturned'
    BY <1>1 DEF WorkReturned, Moved, Types
  <1>8. ReservationOwned'
    BY <1>1 DEF ReservationOwned, Moved, NoGen
  <1>9. EscsPast'
    BY <1>1 DEF EscsPast, Moved
  <1>10. NumbersFit'
    BY <1>1 DEF NumbersFit, Moved, NoGen
  <1>11. CleanupsComplete'
    BY <1>1 DEF CleanupsComplete, Moved, KindsFit
  <1>12. ~Overlapped' => ~Overlapped
    BY <1>1 DEF Overlapped, Moved
  <1>13. ASSUME ~Overlapped' PROVE Separate'
    <2>1. /\ LastUnderWay /\ OwnReservation /\ InForce /\ OnlyInForce
          /\ CancelledByEsc /\ OutcomeByEsc /\ EscHolds /\ Deferred
      BY <1>12, <1>13 DEF IInv, Separate
    <2>2. i = Len(ops) /\ \A j \in DOMAIN ops : j # i => ops[j].phase \in Finished
      BY <2>1, <1>1 DEF LastUnderWay, Inside, Finished
    <2>3. LastUnderWay'
      BY <2>1, <2>2, <1>1 DEF LastUnderWay, Moved, Finished
    <2>4. OwnReservation'
      BY <2>1, <2>2, <1>1 DEF OwnReservation, Moved
    <2>5. InForce'
      BY <2>1, <2>2, <1>1 DEF InForce, Moved, Before, NoGen
    <2>6. OnlyInForce'
      BY <2>1, <2>2, <1>1 DEF OnlyInForce, Moved, Before, NoGen
    <2>7. CancelledByEsc'
      BY <2>1, <2>2, <1>1 DEF CancelledByEsc, Moved, NoGen
    <2>8. OutcomeByEsc'
      BY <2>1, <2>2, <1>1 DEF OutcomeByEsc, Moved
    <2>9. EscHolds'
      BY <2>1, <2>2, <1>1 DEF EscHolds, Moved, Before, Inside, NoGen
    <2>10. Deferred'
      BY <2>1, <2>2, <1>1 DEF Deferred, Moved, Before, Inside
    <2> QED BY <2>3, <2>4, <2>5, <2>6, <2>7, <2>8, <2>9, <2>10 DEF Separate
  <1> QED BY <1>2, <1>3, <1>4, <1>5, <1>6, <1>7, <1>8, <1>9, <1>10, <1>11, <1>13 DEF IInv

\* A cleanup ends, or an operation fails before it began.
LEMMA Leaving ==
  ASSUME IInv,
         NEW i \in DOMAIN ops,
         ops[i].phase = "entered",
         NEW outcome \in {"completed", "raised"},
         outcome = "raised" => ops[i].kind # "cleanup",
         Moved(i, "releasing", ops[i].entry, outcome),
         UNCHANGED <<nextGen, active, reserved, last, cancelEvents, drains, beginDrain,
                     scopeJob, lockHolder, uiWork, runEpoch, escs, interrupted, deferSteering,
                     children, activeTools>>
  PROVE  IInv'
PROOF
  <1>1. /\ Types /\ Generations /\ LockHeld /\ ActiveInside /\ KindsFit /\ WorkReturned
        /\ ReservationOwned /\ EscsPast /\ NumbersFit /\ CleanupsComplete
        /\ \A j \in DOMAIN ops : ops[j] \in Op
    BY DEF IInv, Types
  <1>2. Types'
    BY <1>1 DEF Types, Moved, NoGen
  <1>3. Generations'
    BY <1>1 DEF Generations, Moved, NoGen
  <1>4. LockHeld'
    BY <1>1 DEF LockHeld, Moved, Locked
  <1>5. ActiveInside'
    BY <1>1 DEF ActiveInside, Moved, Inside, NoGen
  <1>6. KindsFit'
    BY <1>1 DEF KindsFit, Moved, NoGen
  <1>7. WorkReturned'
    BY <1>1 DEF WorkReturned, Moved, Types
  <1>8. ReservationOwned'
    BY <1>1 DEF ReservationOwned, Moved, NoGen
  <1>9. EscsPast'
    BY <1>1 DEF EscsPast, Moved
  <1>10. NumbersFit'
    BY <1>1 DEF NumbersFit, Moved, NoGen
  <1>11. CleanupsComplete'
    BY <1>1 DEF CleanupsComplete, Moved, KindsFit
  <1>12. ~Overlapped' => ~Overlapped
    BY <1>1 DEF Overlapped, Moved
  <1>13. ASSUME ~Overlapped' PROVE Separate'
    <2>1. /\ LastUnderWay /\ OwnReservation /\ InForce /\ OnlyInForce
          /\ CancelledByEsc /\ OutcomeByEsc /\ EscHolds /\ Deferred
      BY <1>12, <1>13 DEF IInv, Separate
    <2>2. i = Len(ops) /\ \A j \in DOMAIN ops : j # i => ops[j].phase \in Finished
      BY <2>1, <1>1 DEF LastUnderWay, Inside, Finished
    <2>3. LastUnderWay'
      BY <2>1, <2>2, <1>1 DEF LastUnderWay, Moved, Finished
    <2>4. OwnReservation'
      BY <2>1, <2>2, <1>1 DEF OwnReservation, Moved
    <2>5. InForce'
      BY <2>1, <2>2, <1>1 DEF InForce, Moved, Before, NoGen
    <2>6. OnlyInForce'
      BY <2>1, <2>2, <1>1 DEF OnlyInForce, Moved, NoGen
    <2>7. CancelledByEsc'
      BY <2>1, <2>2, <1>1 DEF CancelledByEsc, Moved, NoGen
    <2>8. OutcomeByEsc'
      BY <2>1, <2>2, <1>1 DEF OutcomeByEsc, Moved
    <2>9. EscHolds'
      BY <2>1, <2>2, <1>1 DEF EscHolds, Moved, Before, Inside, NoGen
    <2>10. Deferred'
      BY <2>1, <2>2, <1>1 DEF Deferred, Moved, Before, Inside
    <2> QED BY <2>3, <2>4, <2>5, <2>6, <2>7, <2>8, <2>9, <2>10 DEF Separate
  <1> QED BY <1>2, <1>3, <1>4, <1>5, <1>6, <1>7, <1>8, <1>9, <1>10, <1>11, <1>13 DEF IInv

\* A resume stops holding steering back.
LEMMA Resuming ==
  ASSUME IInv,
         NEW i \in DOMAIN ops,
         ops[i].phase = "entered",
         ops[i].kind = "resume",
         deferSteering' = FALSE,
         Moved(i, "resuming", ops[i].entry, ops[i].outcome),
         UNCHANGED <<nextGen, active, reserved, last, cancelEvents, drains, beginDrain,
                     scopeJob, lockHolder, uiWork, runEpoch, escs, interrupted, children,
                     activeTools>>
  PROVE  IInv'
PROOF
  <1>1. /\ Types /\ Generations /\ LockHeld /\ ActiveInside /\ KindsFit /\ WorkReturned
        /\ ReservationOwned /\ EscsPast /\ NumbersFit /\ CleanupsComplete
        /\ \A j \in DOMAIN ops : ops[j] \in Op
    BY DEF IInv, Types
  <1>2. Types'
    BY <1>1 DEF Types, Moved, NoGen
  <1>3. Generations'
    BY <1>1 DEF Generations, Moved, NoGen
  <1>4. LockHeld'
    BY <1>1 DEF LockHeld, Moved, Locked
  <1>5. ActiveInside'
    BY <1>1 DEF ActiveInside, Moved, Inside, NoGen
  <1>6. KindsFit'
    BY <1>1 DEF KindsFit, Moved, NoGen
  <1>7. WorkReturned'
    BY <1>1 DEF WorkReturned, Moved, Types
  <1>8. ReservationOwned'
    BY <1>1 DEF ReservationOwned, Moved, NoGen
  <1>9. EscsPast'
    BY <1>1 DEF EscsPast, Moved
  <1>10. NumbersFit'
    BY <1>1 DEF NumbersFit, Moved, NoGen
  <1>11. CleanupsComplete'
    BY <1>1 DEF CleanupsComplete, Moved, KindsFit
  <1>12. ~Overlapped' => ~Overlapped
    BY <1>1 DEF Overlapped, Moved
  <1>13. ASSUME ~Overlapped' PROVE Separate'
    <2>1. /\ LastUnderWay /\ OwnReservation /\ InForce /\ OnlyInForce
          /\ CancelledByEsc /\ OutcomeByEsc /\ EscHolds /\ Deferred
      BY <1>12, <1>13 DEF IInv, Separate
    <2>2. i = Len(ops) /\ \A j \in DOMAIN ops : j # i => ops[j].phase \in Finished
      BY <2>1, <1>1 DEF LastUnderWay, Inside, Finished
    <2>3. LastUnderWay'
      <3> QED BY <2>1, <2>2, <1>1 DEF LastUnderWay, Moved, Finished
    <2>4. OwnReservation'
      <3> QED BY <2>1, <2>2, <1>1 DEF OwnReservation, Moved
    <2>5. InForce'
      BY <2>1, <2>2, <1>1 DEF InForce, Moved, Before, NoGen
    <2>6. OnlyInForce'
      BY <2>1, <2>2, <1>1 DEF OnlyInForce, Moved, Before, NoGen
    <2>7. CancelledByEsc'
      BY <2>1, <2>2, <1>1 DEF CancelledByEsc, Moved, NoGen
    <2>8. OutcomeByEsc'
      BY <2>1, <2>2, <1>1 DEF OutcomeByEsc, Moved
    <2>9. EscHolds'
      BY <2>1, <2>2, <1>1 DEF EscHolds, Moved, Before, Inside, NoGen
    <2>10. Deferred'
      BY <2>1, <2>2, <1>1 DEF Deferred, Moved
    <2> QED BY <2>3, <2>4, <2>5, <2>6, <2>7, <2>8, <2>9, <2>10 DEF Separate
  <1> QED BY <1>2, <1>3, <1>4, <1>5, <1>6, <1>7, <1>8, <1>9, <1>10, <1>11, <1>13 DEF IInv

\* A run takes its reservation, or goes on in a new generation.
LEMMA Beginning ==
  ASSUME IInv,
         NEW i \in DOMAIN ops,
         ops[i].phase \in {"entered", "resuming", "continuing"},
         ops[i].kind # "cleanup",
         ops[i].phase = "entered" => ops[i].kind = "run",
         activeTools' = {},
         reserved' = NoGen,
         active' = Scopes!BeginScope,
         last' = Scopes!BeginScope,
         nextGen' = IF reserved # NoGen THEN nextGen ELSE nextGen + 1,
         cancelEvents' = IF Scopes!CancelCarried THEN cancelEvents \cup {Scopes!BeginScope}
                         ELSE cancelEvents,
         beginDrain' = IF Scopes!CancelledAtBegin THEN Scopes!BeginScope ELSE NoGen,
         Moved(i, "graph", ops[i].entry, ops[i].outcome),
         UNCHANGED <<drains, scopeJob, lockHolder, uiWork, runEpoch, escs, interrupted,
                     deferSteering, children>>
  PROVE  IInv'
PROOF
  <1>1. /\ Types /\ Generations /\ LockHeld /\ ActiveInside /\ KindsFit /\ WorkReturned
        /\ ReservationOwned /\ EscsPast /\ NumbersFit /\ CleanupsComplete
        /\ \A j \in DOMAIN ops : ops[j] \in Op
    BY DEF IInv, Types
  <1>2. Types'
    <2>1. Scopes!BeginScope \in Nat
      BY <1>1 DEF Types, Scopes!BeginScope, Scopes!NoGen
    <2>2. nextGen' \in Nat \ {0} /\ active' \in Nat /\ reserved' \in Nat /\ last' \in Nat
      BY <2>1, <1>1 DEF Types, NoGen
    <2>3. cancelEvents' \in SUBSET Nat /\ beginDrain' \in Nat
      BY <2>1, <2>2, <1>1 DEF Types, NoGen
    <2> QED BY <2>1, <2>2, <2>3, <1>1 DEF Types, Moved
  <1>3. Generations'
    BY <1>1
      DEF Generations, Moved, Scopes!BeginScope, Scopes!CancelCarried, Scopes!CancelledAtBegin,
           Scopes!NoGen, Types, NoGen
  <1>4. LockHeld'
    BY <1>1
      DEF LockHeld, Moved, Scopes!BeginScope, Scopes!CancelCarried, Scopes!CancelledAtBegin,
           Scopes!NoGen, Locked
  <1>5. ActiveInside'
    BY <1>1
      DEF ActiveInside, LockHeld, LastUnderWay, InForce, OnlyInForce, Generations, Types,
           Moved, Scopes!BeginScope, Scopes!CancelCarried, Scopes!CancelledAtBegin,
           Scopes!NoGen, Inside, NoGen
  <1>6. KindsFit'
    BY <1>1
      DEF KindsFit, Moved, Scopes!BeginScope, Scopes!CancelCarried, Scopes!CancelledAtBegin,
           Scopes!NoGen, NoGen
  <1>7. WorkReturned'
    BY <1>1
      DEF WorkReturned, Moved, Scopes!BeginScope, Scopes!CancelCarried,
           Scopes!CancelledAtBegin, Scopes!NoGen, Types
  <1>8. ReservationOwned'
    BY <1>1
      DEF ReservationOwned, Moved, Scopes!BeginScope, Scopes!CancelCarried,
           Scopes!CancelledAtBegin, Scopes!NoGen, NoGen
  <1>9. EscsPast'
    BY <1>1
      DEF EscsPast, Moved, Scopes!BeginScope, Scopes!CancelCarried, Scopes!CancelledAtBegin,
           Scopes!NoGen
  <1>10. NumbersFit'
    <2>1. runEpoch \in Nat /\ nextGen \in Nat /\ nextGen' \in Nat /\ nextGen <= nextGen'
      BY <1>1
        DEF Types, Generations, NoGen, Scopes!NoGen, Scopes!CancelTarget, Scopes!CurrentScope
    <2>2. \A j \in DOMAIN ops : ops[j].epoch \in Nat /\ ops[j].reservation \in Nat
      BY <2>1, <1>1 DEF Op
    <2> QED BY <2>1, <2>2, <1>1 DEF NumbersFit, NoGen, Scopes!NoGen, Scopes!BeginScope, Moved
  <1>11. CleanupsComplete'
    BY <1>1
      DEF CleanupsComplete, Moved, Scopes!BeginScope, Scopes!CancelCarried,
           Scopes!CancelledAtBegin, Scopes!NoGen, KindsFit
  <1>12. ~Overlapped' => ~Overlapped
    BY <1>1
      DEF Overlapped, Moved, Scopes!BeginScope, Scopes!CancelCarried, Scopes!CancelledAtBegin,
           Scopes!NoGen
  <1>13. ASSUME ~Overlapped' PROVE Separate'
    <2>1. /\ LastUnderWay /\ OwnReservation /\ InForce /\ OnlyInForce
          /\ CancelledByEsc /\ OutcomeByEsc /\ EscHolds /\ Deferred
      BY <1>12, <1>13 DEF IInv, Separate
    <2>2. i = Len(ops) /\ \A j \in DOMAIN ops : j # i => ops[j].phase \in Finished
      BY <2>1, <1>1 DEF LastUnderWay, Inside, Finished
    <2>3. LastUnderWay'
      BY <2>1, <2>2, <1>1
        DEF LastUnderWay, Moved, Scopes!BeginScope, Scopes!CancelCarried,
             Scopes!CancelledAtBegin, Scopes!NoGen, Finished
    <2>4. OwnReservation'
      BY <2>1, <2>2, <1>1
        DEF OwnReservation, Moved, Scopes!BeginScope, Scopes!CancelCarried,
             Scopes!CancelledAtBegin, Scopes!NoGen
    <2>5. InForce'
      <3>1. \A j \in DOMAIN ops' : ops'[j].phase \notin Before
        BY <2>1, <2>2, <1>1 DEF Moved, Before, Finished
      <3> QED BY <2>1, <2>2, <3>1, <1>1 DEF InForce
    <2>6. OnlyInForce'
      BY <2>1, <2>2, <1>1
        DEF OnlyInForce, Moved, Scopes!BeginScope, Scopes!CancelCarried,
             Scopes!CancelledAtBegin, Scopes!NoGen, NoGen
    <2>7. CancelledByEsc'
      BY <2>1, <2>2, <1>1
        DEF CancelledByEsc, LockHeld, LastUnderWay, InForce, OnlyInForce, Generations,
             ActiveInside, Types, Moved, Scopes!BeginScope, Scopes!CancelCarried,
             Scopes!CancelledAtBegin, Scopes!NoGen, Finished, NoGen
    <2>8. OutcomeByEsc'
      BY <2>1, <2>2, <1>1
        DEF OutcomeByEsc, Moved, Scopes!BeginScope, Scopes!CancelCarried,
             Scopes!CancelledAtBegin, Scopes!NoGen
    <2>9. EscHolds'
      <3>1. ops[i].phase \in {"entered", "resuming"} =>
            reserved # NoGen /\ (ops[i].epoch \in escs => reserved \in cancelEvents)
        BY <2>1, <2>2, <1>1 DEF InForce, EscHolds, NumbersFit, Before, NoGen
      <3>2. ops[i].phase = "continuing" =>
            active # NoGen /\ (ops[i].epoch \in escs => active \in cancelEvents)
        BY <2>1, <2>2, <3>1, <1>1 DEF EscHolds, ActiveInside, Inside
      <3>3. ops[i].epoch \in escs => active' \in cancelEvents'
        BY <2>1, <2>2, <3>1, <3>2, <1>1
          DEF Scopes!BeginScope, Scopes!CancelCarried, Scopes!NoGen, NoGen
      <3> QED BY <2>1, <2>2, <3>1, <3>2, <3>3, <1>1
                DEF EscHolds, Moved, Before, Inside, Finished
    <2>10. Deferred'
      BY <2>1, <2>2, <1>1
        DEF Deferred, Moved, Scopes!BeginScope, Scopes!CancelCarried, Scopes!CancelledAtBegin,
             Scopes!NoGen, Before, Inside
    <2> QED BY <2>3, <2>4, <2>5, <2>6, <2>7, <2>8, <2>9, <2>10 DEF Separate
  <1> QED BY <1>2, <1>3, <1>4, <1>5, <1>6, <1>7, <1>8, <1>9, <1>10, <1>11, <1>13 DEF IInv

\* A step between begin_run and end_run.
LEMMA WhileInside ==
  ASSUME IInv,
         NEW i \in DOMAIN ops,
         ops[i].phase \in Inside,
         NEW phase \in Inside,
         NEW outcome \in Outcomes,
         outcome = "cancelled" => ops[i].outcome = "cancelled" \/ active \in cancelEvents,
         interrupted' \in BOOLEAN,
         deferSteering' \in BOOLEAN,
         \/ /\ ops[i].phase # "ending" /\ deferSteering' = deferSteering
            /\ (interrupted' => interrupted)
         \/ phase = "ending" /\ interrupted',
         Moved(i, phase, ops[i].entry, outcome),
         UNCHANGED <<nextGen, active, reserved, last, cancelEvents, drains, beginDrain,
                     scopeJob, lockHolder, uiWork, runEpoch, escs, children, activeTools>>
  PROVE  IInv'
PROOF
  <1>1. /\ Types /\ Generations /\ LockHeld /\ ActiveInside /\ KindsFit /\ WorkReturned
        /\ ReservationOwned /\ EscsPast /\ NumbersFit /\ CleanupsComplete
        /\ \A j \in DOMAIN ops : ops[j] \in Op
    BY DEF IInv, Types
  <1>2. Types'
    BY <1>1 DEF Types, Moved, NoGen
  <1>3. Generations'
    BY <1>1 DEF Generations, Moved, NoGen
  <1>4. LockHeld'
    BY <1>1 DEF LockHeld, Moved, Locked, Inside, Finished
  <1>5. ActiveInside'
    BY <1>1 DEF ActiveInside, Moved, NoGen
  <1>6. KindsFit'
    BY <1>1 DEF KindsFit, Moved, Types, Inside, Finished, NoGen
  <1>7. WorkReturned'
    BY <1>1 DEF WorkReturned, Moved, Types, Inside, Finished
  <1>8. ReservationOwned'
    BY <1>1 DEF ReservationOwned, Moved, Types, Inside, Finished, NoGen
  <1>9. EscsPast'
    BY <1>1 DEF EscsPast, Moved
  <1>10. NumbersFit'
    BY <1>1 DEF NumbersFit, Moved, NoGen
  <1>11. CleanupsComplete'
    BY <1>1 DEF CleanupsComplete, Moved, Types, Inside, Finished, KindsFit
  <1>12. ~Overlapped' => ~Overlapped
    BY <1>1 DEF Overlapped, Moved
  <1>13. ASSUME ~Overlapped' PROVE Separate'
    <2>1. /\ LastUnderWay /\ OwnReservation /\ InForce /\ OnlyInForce
          /\ CancelledByEsc /\ OutcomeByEsc /\ EscHolds /\ Deferred
      BY <1>12, <1>13 DEF IInv, Separate
    <2>2. i = Len(ops) /\ \A j \in DOMAIN ops : j # i => ops[j].phase \in Finished
      BY <2>1, <1>1 DEF LastUnderWay, Inside, Finished
    <2>3. LastUnderWay'
      BY <2>1, <2>2, <1>1 DEF LastUnderWay, Moved, Finished, Inside
    <2>4. OwnReservation'
      BY <2>1, <2>2, <1>1 DEF OwnReservation, Moved
    <2>5. InForce'
      BY <2>1, <2>2, <1>1 DEF InForce, Moved, Before, Inside, Finished, NoGen
    <2>6. OnlyInForce'
      BY <2>1, <2>2, <1>1 DEF OnlyInForce, Moved, Before, Inside, Finished, NoGen
    <2>7. CancelledByEsc'
      BY <2>1, <2>2, <1>1 DEF CancelledByEsc, Moved, NoGen
    <2>8. OutcomeByEsc'
      <3>1. active # NoGen /\ ops[i].epoch = runEpoch
        BY <2>1, <2>2, <1>1 DEF ActiveInside, LastUnderWay, KindsFit, Inside, Finished
      <3>2. outcome = "cancelled" => ops[i].epoch \in escs
        BY <2>1, <2>2, <3>1, <1>1 DEF CancelledByEsc, OutcomeByEsc
      <3> QED BY <2>1, <2>2, <3>1, <3>2, <1>1 DEF OutcomeByEsc, Moved
    <2>9. EscHolds'
      BY <2>1, <2>2, <1>1 DEF EscHolds, Moved, Before, Inside, Finished, NoGen
    <2>10. Deferred'
      <3>1. deferSteering' => interrupted'
        BY <2>1, <2>2, <1>1 DEF Deferred, Inside
      <3>2. phase # "ending" => ~deferSteering'
        BY <2>1, <2>2, <3>1, <1>1 DEF Deferred, Inside
      <3> QED BY <2>1, <2>2, <3>1, <3>2, <1>1 DEF Deferred, Moved, Inside, Before, Finished
    <2> QED BY <2>3, <2>4, <2>5, <2>6, <2>7, <2>8, <2>9, <2>10 DEF Separate
  <1> QED BY <1>2, <1>3, <1>4, <1>5, <1>6, <1>7, <1>8, <1>9, <1>10, <1>11, <1>13 DEF IInv

\* end_run.
LEMMA Ending ==
  ASSUME IInv,
         NEW i \in DOMAIN ops,
         ops[i].phase = "ending",
         active' = NoGen,
         activeTools' = {},
         Moved(i, "releasing", ops[i].entry, ops[i].outcome),
         UNCHANGED <<nextGen, reserved, last, cancelEvents, drains, beginDrain, scopeJob,
                     lockHolder, uiWork, runEpoch, escs, interrupted, deferSteering, children>>
  PROVE  IInv'
PROOF
  <1>1. /\ Types /\ Generations /\ LockHeld /\ ActiveInside /\ KindsFit /\ WorkReturned
        /\ ReservationOwned /\ EscsPast /\ NumbersFit /\ CleanupsComplete
        /\ \A j \in DOMAIN ops : ops[j] \in Op
    BY DEF IInv, Types
  <1>2. Types'
    BY <1>1 DEF Types, Moved, NoGen
  <1>3. Generations'
    BY <1>1 DEF Generations, Moved, Types, NoGen
  <1>4. LockHeld'
    BY <1>1 DEF LockHeld, Moved, Locked
  <1>5. ActiveInside'
    BY <1>1 DEF ActiveInside, LockHeld, Types, Moved, Locked, Before, Inside, Finished, NoGen
  <1>6. KindsFit'
    BY <1>1 DEF KindsFit, Moved, NoGen
  <1>7. WorkReturned'
    BY <1>1 DEF WorkReturned, Moved, Types
  <1>8. ReservationOwned'
    BY <1>1 DEF ReservationOwned, Moved, NoGen
  <1>9. EscsPast'
    BY <1>1 DEF EscsPast, Moved
  <1>10. NumbersFit'
    BY <1>1 DEF NumbersFit, Moved, NoGen
  <1>11. CleanupsComplete'
    BY <1>1 DEF CleanupsComplete, Moved, KindsFit
  <1>12. ~Overlapped' => ~Overlapped
    BY <1>1 DEF Overlapped, Moved
  <1>13. ASSUME ~Overlapped' PROVE Separate'
    <2>1. /\ LastUnderWay /\ OwnReservation /\ InForce /\ OnlyInForce
          /\ CancelledByEsc /\ OutcomeByEsc /\ EscHolds /\ Deferred
      BY <1>12, <1>13 DEF IInv, Separate
    <2>2. i = Len(ops) /\ \A j \in DOMAIN ops : j # i => ops[j].phase \in Finished
      BY <2>1, <1>1 DEF LastUnderWay, Inside, Finished
    <2>3. LastUnderWay'
      BY <2>1, <2>2, <1>1 DEF LastUnderWay, Moved, Finished
    <2>4. OwnReservation'
      BY <2>1, <2>2, <1>1 DEF OwnReservation, Moved
    <2>5. InForce'
      BY <2>1, <2>2, <1>1 DEF InForce, Moved, Before, NoGen
    <2>6. OnlyInForce'
      BY <2>1, <2>2, <1>1 DEF OnlyInForce, Moved, Before, NoGen
    <2>7. CancelledByEsc'
      BY <2>1, <2>2, <1>1 DEF CancelledByEsc, Moved, NoGen
    <2>8. OutcomeByEsc'
      BY <2>1, <2>2, <1>1 DEF OutcomeByEsc, Moved
    <2>9. EscHolds'
      BY <2>1, <2>2, <1>1
        DEF EscHolds, LockHeld, LastUnderWay, InForce, OnlyInForce, ActiveInside, Types, Moved,
             Before, Inside, Finished, NoGen
    <2>10. Deferred'
      BY <2>1, <2>2, <1>1 DEF Deferred, Moved, Before, Inside
    <2> QED BY <2>3, <2>4, <2>5, <2>6, <2>7, <2>8, <2>9, <2>10 DEF Separate
  <1> QED BY <1>2, <1>3, <1>4, <1>5, <1>6, <1>7, <1>8, <1>9, <1>10, <1>11, <1>13 DEF IInv

\* The finally of the guard drops the reservation of its entry.
LEMMA Releasing ==
  ASSUME IInv,
         NEW i \in DOMAIN ops,
         ops[i].phase = "releasing",
         reserved' = IF ops[i].entry # NoGen /\ reserved = ops[i].entry THEN NoGen
                     ELSE reserved,
         Moved(i, "unlocking", ops[i].entry, ops[i].outcome),
         UNCHANGED <<nextGen, active, last, cancelEvents, drains, beginDrain, scopeJob,
                     lockHolder, uiWork, runEpoch, escs, interrupted, deferSteering, children,
                     activeTools>>
  PROVE  IInv'
PROOF
  <1>1. /\ Types /\ Generations /\ LockHeld /\ ActiveInside /\ KindsFit /\ WorkReturned
        /\ ReservationOwned /\ EscsPast /\ NumbersFit /\ CleanupsComplete
        /\ \A j \in DOMAIN ops : ops[j] \in Op
    BY DEF IInv, Types
  <1>2. Types'
    BY <1>1 DEF Types, Moved, NoGen
  <1>3. Generations'
    BY <1>1 DEF Generations, Moved, Types, NoGen
  <1>4. LockHeld'
    BY <1>1 DEF LockHeld, Moved, Locked
  <1>5. ActiveInside'
    BY <1>1 DEF ActiveInside, Moved, Inside, NoGen
  <1>6. KindsFit'
    BY <1>1 DEF KindsFit, Moved, NoGen
  <1>7. WorkReturned'
    BY <1>1 DEF WorkReturned, Moved, Types
  <1>8. ReservationOwned'
    BY <1>1 DEF ReservationOwned, Moved, NoGen
  <1>9. EscsPast'
    BY <1>1 DEF EscsPast, Moved
  <1>10. NumbersFit'
    BY <1>1 DEF NumbersFit, Moved, NoGen
  <1>11. CleanupsComplete'
    BY <1>1 DEF CleanupsComplete, Moved, KindsFit
  <1>12. ~Overlapped' => ~Overlapped
    BY <1>1 DEF Overlapped, Moved
  <1>13. ASSUME ~Overlapped' PROVE Separate'
    <2>1. /\ LastUnderWay /\ OwnReservation /\ InForce /\ OnlyInForce
          /\ CancelledByEsc /\ OutcomeByEsc /\ EscHolds /\ Deferred
      BY <1>12, <1>13 DEF IInv, Separate
    <2>2. i = Len(ops) /\ \A j \in DOMAIN ops : j # i => ops[j].phase \in Finished
      BY <2>1, <1>1 DEF LastUnderWay, Inside, Finished
    <2>3. LastUnderWay'
      BY <2>1, <2>2, <1>1 DEF LastUnderWay, Moved, Finished
    <2>4. OwnReservation'
      BY <2>1, <2>2, <1>1 DEF OwnReservation, Moved
    <2>5. InForce'
      BY <2>1, <2>2, <1>1
        DEF InForce, LockHeld, LastUnderWay, OnlyInForce, Types, Moved, Before, Finished, NoGen
    <2>6. OnlyInForce'
      BY <2>1, <2>2, <1>1 DEF OnlyInForce, Moved, NoGen
    <2>7. CancelledByEsc'
      BY <2>1, <2>2, <1>1 DEF CancelledByEsc, Moved, NoGen
    <2>8. OutcomeByEsc'
      BY <2>1, <2>2, <1>1 DEF OutcomeByEsc, Moved
    <2>9. EscHolds'
      BY <2>1, <2>2, <1>1
        DEF EscHolds, LockHeld, LastUnderWay, InForce, OnlyInForce, Types, Moved, Before,
             Inside, Finished, NoGen
    <2>10. Deferred'
      BY <2>1, <2>2, <1>1 DEF Deferred, Moved, Before, Inside
    <2> QED BY <2>3, <2>4, <2>5, <2>6, <2>7, <2>8, <2>9, <2>10 DEF Separate
  <1> QED BY <1>2, <1>3, <1>4, <1>5, <1>6, <1>7, <1>8, <1>9, <1>10, <1>11, <1>13 DEF IInv

\* The guard gives the lock back.
LEMMA Unlocking ==
  ASSUME IInv,
         NEW i \in DOMAIN ops,
         ops[i].phase = "unlocking",
         lockHolder' = 0,
         Moved(i, "returned", ops[i].entry, ops[i].outcome),
         UNCHANGED <<nextGen, active, reserved, last, cancelEvents, drains, beginDrain,
                     scopeJob, uiWork, runEpoch, escs, interrupted, deferSteering, children,
                     activeTools>>
  PROVE  IInv'
PROOF
  <1>1. /\ Types /\ Generations /\ LockHeld /\ ActiveInside /\ KindsFit /\ WorkReturned
        /\ ReservationOwned /\ EscsPast /\ NumbersFit /\ CleanupsComplete
        /\ \A j \in DOMAIN ops : ops[j] \in Op
    BY DEF IInv, Types
  <1>2. Types'
    BY <1>1 DEF Types, Moved, NoGen
  <1>3. Generations'
    BY <1>1 DEF Generations, Moved, NoGen
  <1>4. LockHeld'
    BY <1>1 DEF LockHeld, Moved, Locked
  <1>5. ActiveInside'
    BY <1>1 DEF ActiveInside, Moved, Inside, NoGen
  <1>6. KindsFit'
    BY <1>1 DEF KindsFit, Moved, NoGen
  <1>7. WorkReturned'
    BY <1>1 DEF WorkReturned, Moved, Types
  <1>8. ReservationOwned'
    BY <1>1 DEF ReservationOwned, Moved, NoGen
  <1>9. EscsPast'
    BY <1>1 DEF EscsPast, Moved
  <1>10. NumbersFit'
    BY <1>1 DEF NumbersFit, Moved, NoGen
  <1>11. CleanupsComplete'
    BY <1>1 DEF CleanupsComplete, Moved, KindsFit
  <1>12. ~Overlapped' => ~Overlapped
    BY <1>1 DEF Overlapped, Moved
  <1>13. ASSUME ~Overlapped' PROVE Separate'
    <2>1. /\ LastUnderWay /\ OwnReservation /\ InForce /\ OnlyInForce
          /\ CancelledByEsc /\ OutcomeByEsc /\ EscHolds /\ Deferred
      BY <1>12, <1>13 DEF IInv, Separate
    <2>2. i = Len(ops) /\ \A j \in DOMAIN ops : j # i => ops[j].phase \in Finished
      BY <2>1, <1>1 DEF LastUnderWay, Inside, Finished
    <2>3. LastUnderWay'
      BY <2>1, <2>2, <1>1 DEF LastUnderWay, Moved, Finished
    <2>4. OwnReservation'
      BY <2>1, <2>2, <1>1 DEF OwnReservation, Moved
    <2>5. InForce'
      BY <2>1, <2>2, <1>1 DEF InForce, Moved, Before, NoGen
    <2>6. OnlyInForce'
      BY <2>1, <2>2, <1>1 DEF OnlyInForce, Moved, Before, NoGen
    <2>7. CancelledByEsc'
      BY <2>1, <2>2, <1>1 DEF CancelledByEsc, Moved, NoGen
    <2>8. OutcomeByEsc'
      BY <2>1, <2>2, <1>1 DEF OutcomeByEsc, Moved
    <2>9. EscHolds'
      BY <2>1, <2>2, <1>1 DEF EscHolds, Moved, Before, Inside, NoGen
    <2>10. Deferred'
      BY <2>1, <2>2, <1>1 DEF Deferred, Moved, Before, Inside
    <2> QED BY <2>3, <2>4, <2>5, <2>6, <2>7, <2>8, <2>9, <2>10 DEF Separate
  <1> QED BY <1>2, <1>3, <1>4, <1>5, <1>6, <1>7, <1>8, <1>9, <1>10, <1>11, <1>13 DEF IInv

\* The UI takes the result of a run.
LEMMA Handling ==
  ASSUME IInv,
         NEW i \in DOMAIN ops,
         ops[i].phase = "returned",
         uiWork = 0,
         uiWork' = i,
         ops[i].kind # "cleanup",
         Moved(i, "handled", ops[i].entry, ops[i].outcome),
         UNCHANGED <<nextGen, active, reserved, last, cancelEvents, drains, beginDrain,
                     scopeJob, lockHolder, runEpoch, escs, interrupted, deferSteering,
                     children, activeTools>>
  PROVE  IInv'
PROOF
  <1>1. /\ Types /\ Generations /\ LockHeld /\ ActiveInside /\ KindsFit /\ WorkReturned
        /\ ReservationOwned /\ EscsPast /\ NumbersFit /\ CleanupsComplete
        /\ \A j \in DOMAIN ops : ops[j] \in Op
    BY DEF IInv, Types
  <1>2. Types'
    BY <1>1 DEF Types, Moved, NoGen
  <1>3. Generations'
    BY <1>1 DEF Generations, Moved, NoGen
  <1>4. LockHeld'
    BY <1>1 DEF LockHeld, Moved, Locked
  <1>5. ActiveInside'
    BY <1>1 DEF ActiveInside, Moved, Inside, NoGen
  <1>6. KindsFit'
    BY <1>1 DEF KindsFit, Moved, NoGen
  <1>7. WorkReturned'
    BY <1>1 DEF WorkReturned, Moved
  <1>8. ReservationOwned'
    BY <1>1 DEF ReservationOwned, Moved, NoGen
  <1>9. EscsPast'
    BY <1>1 DEF EscsPast, Moved
  <1>10. NumbersFit'
    BY <1>1 DEF NumbersFit, Moved, NoGen
  <1>11. CleanupsComplete'
    BY <1>1 DEF CleanupsComplete, Moved, KindsFit
  <1>12. ~Overlapped' => ~Overlapped
    BY <1>1 DEF Overlapped, Moved
  <1>13. ASSUME ~Overlapped' PROVE Separate'
    <2>1. /\ LastUnderWay /\ OwnReservation /\ InForce /\ OnlyInForce
          /\ CancelledByEsc /\ OutcomeByEsc /\ EscHolds /\ Deferred
      BY <1>12, <1>13 DEF IInv, Separate
    <2>2. LastUnderWay'
      BY <2>1, <1>1 DEF LastUnderWay, Moved, Finished
    <2>3. OwnReservation'
      BY <2>1, <1>1 DEF OwnReservation, Moved
    <2>4. InForce'
      BY <2>1, <1>1 DEF InForce, Moved, Before, NoGen
    <2>5. OnlyInForce'
      BY <2>1, <1>1 DEF OnlyInForce, Moved, Before, NoGen
    <2>6. CancelledByEsc'
      BY <2>1, <1>1 DEF CancelledByEsc, Moved, NoGen
    <2>7. OutcomeByEsc'
      BY <2>1, <1>1 DEF OutcomeByEsc, Moved
    <2>8. EscHolds'
      BY <2>1, <1>1 DEF EscHolds, Moved, Before, Inside, NoGen
    <2>9. Deferred'
      BY <2>1, <1>1 DEF Deferred, Moved, Before, Inside
    <2> QED BY <2>2, <2>3, <2>4, <2>5, <2>6, <2>7, <2>8, <2>9 DEF Separate
  <1> QED BY <1>2, <1>3, <1>4, <1>5, <1>6, <1>7, <1>8, <1>9, <1>10, <1>11, <1>13 DEF IInv

\* The UI takes the result of a cleanup.
LEMMA Reporting ==
  ASSUME IInv,
         NEW i \in DOMAIN ops,
         ops[i].phase = "returned",
         uiWork = 0,
         ops[i].kind = "cleanup",
         Moved(i, "done", ops[i].entry, ops[i].outcome),
         UNCHANGED <<nextGen, active, reserved, last, cancelEvents, drains, beginDrain,
                     scopeJob, lockHolder, uiWork, runEpoch, escs, interrupted, deferSteering,
                     children, activeTools>>
  PROVE  IInv'
PROOF
  <1>1. /\ Types /\ Generations /\ LockHeld /\ ActiveInside /\ KindsFit /\ WorkReturned
        /\ ReservationOwned /\ EscsPast /\ NumbersFit /\ CleanupsComplete
        /\ \A j \in DOMAIN ops : ops[j] \in Op
    BY DEF IInv, Types
  <1>2. Types'
    BY <1>1 DEF Types, Moved, NoGen
  <1>3. Generations'
    BY <1>1 DEF Generations, Moved, NoGen
  <1>4. LockHeld'
    BY <1>1 DEF LockHeld, Moved, Locked
  <1>5. ActiveInside'
    BY <1>1 DEF ActiveInside, Moved, Inside, NoGen
  <1>6. KindsFit'
    BY <1>1 DEF KindsFit, Moved, NoGen
  <1>7. WorkReturned'
    BY <1>1 DEF WorkReturned, Moved
  <1>8. ReservationOwned'
    BY <1>1 DEF ReservationOwned, Moved, NoGen
  <1>9. EscsPast'
    BY <1>1 DEF EscsPast, Moved
  <1>10. NumbersFit'
    BY <1>1 DEF NumbersFit, Moved, NoGen
  <1>11. CleanupsComplete'
    BY <1>1 DEF CleanupsComplete, Moved, KindsFit
  <1>12. ~Overlapped' => ~Overlapped
    BY <1>1 DEF Overlapped, Moved
  <1>13. ASSUME ~Overlapped' PROVE Separate'
    <2>1. /\ LastUnderWay /\ OwnReservation /\ InForce /\ OnlyInForce
          /\ CancelledByEsc /\ OutcomeByEsc /\ EscHolds /\ Deferred
      BY <1>12, <1>13 DEF IInv, Separate
    <2>2. LastUnderWay'
      BY <2>1, <1>1 DEF LastUnderWay, Moved, Finished
    <2>3. OwnReservation'
      BY <2>1, <1>1 DEF OwnReservation, Moved
    <2>4. InForce'
      BY <2>1, <1>1 DEF InForce, Moved, NoGen
    <2>5. OnlyInForce'
      BY <2>1, <1>1 DEF OnlyInForce, Moved, NoGen
    <2>6. CancelledByEsc'
      BY <2>1, <1>1 DEF CancelledByEsc, Moved, NoGen
    <2>7. OutcomeByEsc'
      BY <2>1, <1>1 DEF OutcomeByEsc, Moved
    <2>8. EscHolds'
      BY <2>1, <1>1 DEF EscHolds, Moved, NoGen
    <2>9. Deferred'
      BY <2>1, <1>1 DEF Deferred, Moved, Before, Inside
    <2> QED BY <2>2, <2>3, <2>4, <2>5, <2>6, <2>7, <2>8, <2>9 DEF Separate
  <1> QED BY <1>2, <1>3, <1>4, <1>5, <1>6, <1>7, <1>8, <1>9, <1>10, <1>11, <1>13 DEF IInv

\* The finally of work() drops the reservation of the run.
LEMMA Finishing ==
  ASSUME IInv,
         NEW i \in DOMAIN ops,
         uiWork = i,
         uiWork' = 0,
         reserved' = IF reserved = ops[i].reservation THEN NoGen ELSE reserved,
         Moved(i, "done", ops[i].entry, ops[i].outcome),
         UNCHANGED <<nextGen, active, last, cancelEvents, drains, beginDrain, scopeJob,
                     lockHolder, runEpoch, escs, interrupted, deferSteering, children,
                     activeTools>>
  PROVE  IInv'
PROOF
  <1>1. /\ Types /\ Generations /\ LockHeld /\ ActiveInside /\ KindsFit /\ WorkReturned
        /\ ReservationOwned /\ EscsPast /\ NumbersFit /\ CleanupsComplete
        /\ \A j \in DOMAIN ops : ops[j] \in Op
    BY DEF IInv, Types
  <1>2. Types'
    BY <1>1 DEF Types, Moved, NoGen
  <1>3. Generations'
    BY <1>1 DEF Generations, Moved, Types, NoGen
  <1>4. LockHeld'
    BY <1>1 DEF LockHeld, WorkReturned, Types, Moved, Locked
  <1>5. ActiveInside'
    <2>1. ops[i].phase = "handled"
      BY <1>1 DEF WorkReturned, NoGen, Types
    <2>2. \A j \in DOMAIN ops : ops'[j].phase \in Inside <=> ops[j].phase \in Inside
      BY <2>1, <1>1 DEF Moved, Inside
    <2> QED BY <2>1, <2>2, <1>1 DEF ActiveInside, Moved
  <1>6. KindsFit'
    BY <1>1 DEF KindsFit, Moved, NoGen
  <1>7. WorkReturned'
    BY <1>1 DEF WorkReturned, Moved
  <1>8. ReservationOwned'
    BY <1>1 DEF ReservationOwned, Moved, NoGen
  <1>9. EscsPast'
    BY <1>1 DEF EscsPast, Moved
  <1>10. NumbersFit'
    BY <1>1 DEF NumbersFit, Moved, NoGen
  <1>11. CleanupsComplete'
    BY <1>1 DEF CleanupsComplete, Moved, KindsFit
  <1>12. ~Overlapped' => ~Overlapped
    BY <1>1 DEF Overlapped, Moved
  <1>13. ASSUME ~Overlapped' PROVE Separate'
    <2>1. /\ LastUnderWay /\ OwnReservation /\ InForce /\ OnlyInForce
          /\ CancelledByEsc /\ OutcomeByEsc /\ EscHolds /\ Deferred
      BY <1>12, <1>13 DEF IInv, Separate
    <2>2. LastUnderWay'
      BY <2>1, <1>1 DEF LastUnderWay, Moved, Finished
    <2>3. OwnReservation'
      BY <2>1, <1>1 DEF OwnReservation, Moved
    <2>4. InForce'
      BY <2>1, <1>1
        DEF InForce, LastUnderWay, OnlyInForce, WorkReturned, OwnReservation, Types, Moved,
             Before, Finished, NoGen
    <2>5. OnlyInForce'
      BY <2>1, <1>1
        DEF OnlyInForce, LastUnderWay, InForce, WorkReturned, OwnReservation, Types, Moved,
             Before, Finished, NoGen
    <2>6. CancelledByEsc'
      BY <2>1, <1>1 DEF CancelledByEsc, Moved, NoGen
    <2>7. OutcomeByEsc'
      BY <2>1, <1>1 DEF OutcomeByEsc, Moved
    <2>8. EscHolds'
      BY <2>1, <1>1
        DEF EscHolds, LastUnderWay, InForce, OnlyInForce, WorkReturned, OwnReservation, Types,
             Moved, Before, Inside, Finished, NoGen
    <2>9. Deferred'
      BY <2>1, <1>1 DEF Deferred, Moved, Before, Inside
    <2> QED BY <2>2, <2>3, <2>4, <2>5, <2>6, <2>7, <2>8, <2>9 DEF Separate
  <1> QED BY <1>2, <1>3, <1>4, <1>5, <1>6, <1>7, <1>8, <1>9, <1>10, <1>11, <1>13 DEF IInv

\* A run is dispatched with a reservation.
LEMMA Starting ==
  ASSUME IInv,
         NEW kind \in {"run", "resume"},
         kind = "run" => ~interrupted,
         runEpoch' = runEpoch + 1,
         IF reserved = NoGen THEN reserved' = nextGen /\ nextGen' = nextGen + 1
                           ELSE UNCHANGED <<reserved, nextGen>>,
         Dispatched(kind, runEpoch + 1, reserved'),
         UNCHANGED <<active, last, cancelEvents, drains, beginDrain, scopeJob, lockHolder,
                     uiWork, escs, interrupted, deferSteering, children, activeTools>>
  PROVE  IInv'
PROOF
  <1>1. /\ Types /\ Generations /\ LockHeld /\ ActiveInside /\ KindsFit /\ WorkReturned
        /\ ReservationOwned /\ EscsPast /\ NumbersFit /\ CleanupsComplete
        /\ \A j \in DOMAIN ops : ops[j] \in Op
    BY DEF IInv, Types
  <1>2. Types'
    BY <1>1 DEF Types, Dispatched, NoGen
  <1>3. Generations'
    BY <1>1 DEF Generations, Dispatched, Types, NoGen
  <1>4. LockHeld'
    BY <1>1 DEF LockHeld, Types, Dispatched, Locked
  <1>5. ActiveInside'
    BY <1>1 DEF ActiveInside, Dispatched, Inside, NoGen
  <1>6. KindsFit'
    BY <1>1 DEF KindsFit, Dispatched, NoGen
  <1>7. WorkReturned'
    <2>1. uiWork # 0 => uiWork \in DOMAIN ops
      BY <1>1 DEF Types
    <2> QED BY <1>1, <2>1 DEF WorkReturned, Dispatched
  <1>8. ReservationOwned'
    BY <1>1 DEF ReservationOwned, Dispatched, NoGen
  <1>9. EscsPast'
    BY <1>1 DEF EscsPast, Dispatched, Types
  <1>10. NumbersFit'
    <2>1. /\ runEpoch \in Nat /\ nextGen \in Nat /\ nextGen' \in Nat /\ nextGen <= nextGen'
          /\ 0 < reserved' /\ reserved' < nextGen'
      BY <1>1
        DEF Types, Generations, NoGen, Scopes!NoGen, Scopes!CancelTarget, Scopes!CurrentScope
    <2>2. \A j \in DOMAIN ops : ops[j].epoch \in Nat /\ ops[j].reservation \in Nat
      BY <2>1, <1>1 DEF Op
    <2> QED BY <2>1, <2>2, <1>1
              DEF NumbersFit, NoGen, Scopes!NoGen, Scopes!BeginScope, Dispatched
  <1>11. CleanupsComplete'
    BY <1>1 DEF CleanupsComplete, Dispatched, KindsFit
  <1>12. ~Overlapped' => ~Overlapped /\ \A j \in DOMAIN ops : ops[j].phase \in Finished
    BY <1>1 DEF Overlapped, Dispatched, InFlight, Finished
  <1>13. ASSUME ~Overlapped' PROVE Separate'
    <2>1. /\ LastUnderWay /\ OwnReservation /\ InForce /\ OnlyInForce
          /\ CancelledByEsc /\ OutcomeByEsc /\ EscHolds /\ Deferred
          /\ \A j \in DOMAIN ops : ops[j].phase \in Finished
      BY <1>12, <1>13 DEF IInv, Separate
    <2>2. LastUnderWay'
      BY <2>1, <1>1 DEF LastUnderWay, Dispatched
    <2>3. OwnReservation'
      <3>1. 0 < Len(ops) => ops[Len(ops)].phase \in Finished
        BY <2>1, <1>1 DEF Types
      <3>2. 0 < Len(ops) => ops[Len(ops)].phase \notin Before \cup {"releasing"}
        BY <2>1, <3>1, <1>1 DEF Before, Finished
      <3>3. reserved = NoGen
        BY <2>1, <3>1, <3>2, <1>1 DEF OnlyInForce, NoGen
      <3>4. reserved' = nextGen
        BY <2>1, <3>1, <3>2, <3>3, <1>1 DEF NoGen
      <3>5. \A j \in DOMAIN ops' : ops'[j].reservation = nextGen <=> j = Len(ops) + 1
        BY <2>1, <3>1, <3>2, <3>3, <3>4, <1>1 DEF NumbersFit, Types, Dispatched
      <3> QED BY <2>1, <3>1, <3>2, <3>3, <3>4, <3>5, <1>1 DEF OwnReservation, Dispatched
    <2>4. InForce'
      BY <2>1, <1>1
        DEF InForce, LastUnderWay, OnlyInForce, Generations, EscsPast, Types, Dispatched,
             Before, Finished, NoGen
    <2>5. OnlyInForce'
      BY <2>1, <1>1 DEF OnlyInForce, Dispatched, Before, NoGen
    <2>6. CancelledByEsc'
      <3>1. 0 < Len(ops) => ops[Len(ops)].phase \in Finished
        BY <2>1, <1>1 DEF Types
      <3>2. 0 < Len(ops) => ops[Len(ops)].phase \notin Before \cup {"releasing"}
        BY <2>1, <3>1, <1>1 DEF Before, Finished
      <3>3. reserved = NoGen
        BY <2>1, <3>1, <3>2, <1>1 DEF OnlyInForce, NoGen
      <3>4. active = NoGen
        BY <2>1, <3>1, <3>2, <3>3, <1>1 DEF ActiveInside, Inside, Finished
      <3>5. reserved' = nextGen /\ nextGen \notin cancelEvents
        BY <2>1, <3>1, <3>2, <3>3, <3>4, <1>1 DEF NoGen, Generations, Types
      <3> QED BY <2>1, <3>1, <3>2, <3>3, <3>4, <3>5, <1>1 DEF CancelledByEsc
    <2>7. OutcomeByEsc'
      BY <2>1, <1>1 DEF OutcomeByEsc, Dispatched
    <2>8. EscHolds'
      BY <2>1, <1>1
        DEF EscHolds, LastUnderWay, InForce, OnlyInForce, Generations, EscsPast, Types,
             KindsFit, NumbersFit, Dispatched, Locked, Before, Inside, Finished, NoGen
    <2>9. Deferred'
      BY <2>1, <1>1 DEF Deferred, Dispatched, Before, Inside
    <2> QED BY <2>2, <2>3, <2>4, <2>5, <2>6, <2>7, <2>8, <2>9 DEF Separate
  <1> QED BY <1>2, <1>3, <1>4, <1>5, <1>6, <1>7, <1>8, <1>9, <1>10, <1>11, <1>13 DEF IInv

\* A cleanup is dispatched.
LEMMA Cleaning ==
  ASSUME IInv,
         Dispatched("cleanup", runEpoch, NoGen),
         UNCHANGED <<nextGen, active, reserved, last, cancelEvents, drains, beginDrain,
                     scopeJob, lockHolder, uiWork, runEpoch, escs, interrupted, deferSteering,
                     children, activeTools>>
  PROVE  IInv'
PROOF
  <1>1. /\ Types /\ Generations /\ LockHeld /\ ActiveInside /\ KindsFit /\ WorkReturned
        /\ ReservationOwned /\ EscsPast /\ NumbersFit /\ CleanupsComplete
        /\ \A j \in DOMAIN ops : ops[j] \in Op
    BY DEF IInv, Types
  <1>2. Types'
    BY <1>1 DEF Types, Dispatched, NoGen
  <1>3. Generations'
    BY <1>1 DEF Generations, Dispatched, NoGen
  <1>4. LockHeld'
    BY <1>1 DEF LockHeld, Types, Dispatched, Locked
  <1>5. ActiveInside'
    BY <1>1 DEF ActiveInside, Dispatched, Inside, NoGen
  <1>6. KindsFit'
    BY <1>1 DEF KindsFit, Dispatched, NoGen
  <1>7. WorkReturned'
    BY <1>1 DEF WorkReturned, Dispatched, Types
  <1>8. ReservationOwned'
    BY <1>1 DEF ReservationOwned, Dispatched, NoGen
  <1>9. EscsPast'
    BY <1>1 DEF EscsPast, Dispatched
  <1>10. NumbersFit'
    BY <1>1 DEF NumbersFit, Dispatched, Types, NoGen
  <1>11. CleanupsComplete'
    BY <1>1 DEF CleanupsComplete, Dispatched, KindsFit
  <1>12. ~Overlapped' => ~Overlapped /\ \A j \in DOMAIN ops : ops[j].phase \in Finished
    BY <1>1 DEF Overlapped, Dispatched, InFlight, Finished
  <1>13. ASSUME ~Overlapped' PROVE Separate'
    <2>1. /\ LastUnderWay /\ OwnReservation /\ InForce /\ OnlyInForce
          /\ CancelledByEsc /\ OutcomeByEsc /\ EscHolds /\ Deferred
          /\ \A j \in DOMAIN ops : ops[j].phase \in Finished
      BY <1>12, <1>13 DEF IInv, Separate
    <2>2. LastUnderWay'
      BY <2>1, <1>1 DEF LastUnderWay, Dispatched
    <2>3. OwnReservation'
      <3>1. \A j \in DOMAIN ops' : 
              ops'[j].kind # "cleanup" => ops'[j].reservation # NoGen /\ j \in DOMAIN ops
        BY <2>1, <1>1 DEF NumbersFit, Types, Dispatched, NoGen
      <3>2. \A j \in DOMAIN ops' : j \in DOMAIN ops \/ ops'[j].reservation = NoGen
        BY <2>1, <3>1, <1>1 DEF Dispatched
      <3> QED BY <2>1, <3>1, <3>2, <1>1 DEF OwnReservation, Dispatched
    <2>4. InForce'
      BY <2>1, <1>1 DEF InForce, Dispatched, NoGen
    <2>5. OnlyInForce'
      BY <2>1, <1>1
        DEF OnlyInForce, LastUnderWay, InForce, Types, Dispatched, Before, Finished, NoGen
    <2>6. CancelledByEsc'
      BY <2>1, <1>1 DEF CancelledByEsc, Dispatched, NoGen
    <2>7. OutcomeByEsc'
      BY <2>1, <1>1 DEF OutcomeByEsc, Dispatched
    <2>8. EscHolds'
      BY <2>1, <1>1 DEF EscHolds, Dispatched, NoGen
    <2>9. Deferred'
      BY <2>1, <1>1 DEF Deferred, Dispatched, Before, Inside
    <2> QED BY <2>2, <2>3, <2>4, <2>5, <2>6, <2>7, <2>8, <2>9 DEF Separate
  <1> QED BY <1>2, <1>3, <1>4, <1>5, <1>6, <1>7, <1>8, <1>9, <1>10, <1>11, <1>13 DEF IInv

\* Esc cancels the generation that is reserved, active or last.
LEMMA Cancelling ==
  ASSUME IInv,
         escs' = escs \cup {runEpoch},
         NEW g \in Nat,
         g = Scopes!CancelTarget,
         IF Scopes!CurrentScope = NoGen THEN last' = g /\ nextGen' = g + 1
                                        ELSE UNCHANGED <<last, nextGen>>,
         cancelEvents' = cancelEvents \cup {g},
         scopeJob' \in [{"ui"} -> UIJob],
         scopeJob'["ui"].control \in {scopeJob["ui"].control, g, NoGen},
         UNCHANGED <<active, reserved, drains, beginDrain, ops, lockHolder, uiWork, runEpoch,
                     interrupted, deferSteering, children, activeTools>>
  PROVE  IInv'
PROOF
  <1>1. /\ Types /\ Generations /\ LockHeld /\ ActiveInside /\ KindsFit /\ WorkReturned
        /\ ReservationOwned /\ EscsPast /\ NumbersFit /\ CleanupsComplete
        /\ \A j \in DOMAIN ops : ops[j] \in Op
    BY DEF IInv, Types
  <1>2. Types'
    BY <1>1 DEF Types, Scopes!CancelTarget, Scopes!CurrentScope, Scopes!NoGen, NoGen
  <1>3. Generations'
    BY <1>1
      DEF Generations, Scopes!CancelTarget, Scopes!CurrentScope, Scopes!NoGen, Types, NoGen
  <1>4. LockHeld'
    BY <1>1 DEF LockHeld, Scopes!CancelTarget, Scopes!CurrentScope, Scopes!NoGen
  <1>5. ActiveInside'
    BY <1>1 DEF ActiveInside, Scopes!CancelTarget, Scopes!CurrentScope, Scopes!NoGen, NoGen
  <1>6. KindsFit'
    BY <1>1 DEF KindsFit, Scopes!CancelTarget, Scopes!CurrentScope, Scopes!NoGen, NoGen
  <1>7. WorkReturned'
    BY <1>1 DEF WorkReturned, Scopes!CancelTarget, Scopes!CurrentScope, Scopes!NoGen
  <1>8. ReservationOwned'
    BY <1>1 DEF ReservationOwned, Scopes!CancelTarget, Scopes!CurrentScope, Scopes!NoGen, NoGen
  <1>9. EscsPast'
    BY <1>1 DEF EscsPast, Scopes!CancelTarget, Scopes!CurrentScope, Scopes!NoGen, Types
  <1>10. NumbersFit'
    <2>1. runEpoch \in Nat /\ nextGen \in Nat /\ nextGen' \in Nat /\ nextGen <= nextGen'
      BY <1>1
        DEF Types, Generations, NoGen, Scopes!NoGen, Scopes!CancelTarget, Scopes!CurrentScope
    <2>2. \A j \in DOMAIN ops : ops[j].epoch \in Nat /\ ops[j].reservation \in Nat
      BY <2>1, <1>1 DEF Op
    <2> QED BY <2>1, <2>2, <1>1 DEF NumbersFit, NoGen, Scopes!NoGen, Scopes!BeginScope, Moved
  <1>11. CleanupsComplete'
    BY <1>1
      DEF CleanupsComplete, Scopes!CancelTarget, Scopes!CurrentScope, Scopes!NoGen, KindsFit
  <1>12. ~Overlapped' => ~Overlapped
    BY <1>1 DEF Overlapped, Scopes!CancelTarget, Scopes!CurrentScope, Scopes!NoGen
  <1>13. ASSUME ~Overlapped' PROVE Separate'
    <2>1. /\ LastUnderWay /\ OwnReservation /\ InForce /\ OnlyInForce
          /\ CancelledByEsc /\ OutcomeByEsc /\ EscHolds /\ Deferred
      BY <1>12, <1>13 DEF IInv, Separate
    <2>2. LastUnderWay'
      BY <2>1, <1>1 DEF LastUnderWay, Scopes!CancelTarget, Scopes!CurrentScope, Scopes!NoGen
    <2>3. OwnReservation'
      BY <2>1, <1>1 DEF OwnReservation, Scopes!CancelTarget, Scopes!CurrentScope, Scopes!NoGen
    <2>4. InForce'
      BY <2>1, <1>1 DEF InForce, Scopes!CancelTarget, Scopes!CurrentScope, Scopes!NoGen, NoGen
    <2>5. OnlyInForce'
      BY <2>1, <1>1
        DEF OnlyInForce, Scopes!CancelTarget, Scopes!CurrentScope, Scopes!NoGen, NoGen
    <2>6. CancelledByEsc'
      BY <2>1, <1>1
        DEF CancelledByEsc, Scopes!CancelTarget, Scopes!CurrentScope, Scopes!NoGen, NoGen
    <2>7. OutcomeByEsc'
      BY <2>1, <1>1 DEF OutcomeByEsc, Scopes!CancelTarget, Scopes!CurrentScope, Scopes!NoGen
    <2>8. EscHolds'
      <3>1. \A i \in DOMAIN ops :
              ops[i].kind # "cleanup" /\ ops[i].phase \in Before => reserved # NoGen
        BY <2>1, <1>1 DEF InForce, NumbersFit, NoGen
      <3>2. \A i \in DOMAIN ops : ops[i].phase \in Inside => active # NoGen
        BY <2>1, <3>1, <1>1 DEF ActiveInside
      <3>3. \A i \in DOMAIN ops : ops[i].phase \in Inside => i = Len(ops)
        BY <2>1, <3>1, <3>2, <1>1 DEF LastUnderWay, Inside, Finished
      <3>4. \A i \in DOMAIN ops : ops[i].phase \in Inside => reserved = NoGen
        BY <2>1, <3>1, <3>2, <3>3, <1>1 DEF OnlyInForce, Inside, Before
      <3>5. reserved # NoGen => g = reserved
        BY <2>1, <3>1, <3>2, <3>3, <3>4, <1>1 DEF Scopes!CancelTarget, Scopes!NoGen, NoGen
      <3>6. reserved = NoGen /\ active # NoGen => g = active
        BY <2>1, <3>1, <3>2, <3>3, <3>4, <3>5, <1>1
          DEF Scopes!CancelTarget, Scopes!NoGen, NoGen
      <3> QED BY <2>1, <3>1, <3>2, <3>3, <3>4, <3>5, <3>6, <1>1 DEF EscHolds
    <2>9. Deferred'
      BY <2>1, <1>1 DEF Deferred, Scopes!CancelTarget, Scopes!CurrentScope, Scopes!NoGen
    <2> QED BY <2>2, <2>3, <2>4, <2>5, <2>6, <2>7, <2>8, <2>9 DEF Separate
  <1> QED BY <1>2, <1>3, <1>4, <1>5, <1>6, <1>7, <1>8, <1>9, <1>10, <1>11, <1>13 DEF IInv

\* Any other step; the graph of a cancelled run may be asked to drain.
LEMMA Draining ==
  ASSUME IInv,
         drains' \in SUBSET cancelEvents,
         beginDrain' \in {beginDrain, NoGen},
         scopeJob' \in [{"ui"} -> UIJob],
         scopeJob'["ui"].control \in {scopeJob["ui"].control, NoGen},
         UNCHANGED <<nextGen, active, reserved, last, cancelEvents, ops, lockHolder, uiWork,
                     runEpoch, escs, interrupted, deferSteering, children, activeTools>>
  PROVE  IInv'
PROOF
  <1>1. /\ Types /\ Generations /\ LockHeld /\ ActiveInside /\ KindsFit /\ WorkReturned
        /\ ReservationOwned /\ EscsPast /\ NumbersFit /\ CleanupsComplete
        /\ \A j \in DOMAIN ops : ops[j] \in Op
    BY DEF IInv, Types
  <1>2. Types'
    BY <1>1 DEF Types, NoGen
  <1>3. Generations'
    BY <1>1 DEF Generations, NoGen
  <1>4. LockHeld'
    BY <1>1 DEF LockHeld
  <1>5. ActiveInside'
    BY <1>1 DEF ActiveInside, NoGen
  <1>6. KindsFit'
    BY <1>1 DEF KindsFit, NoGen
  <1>7. WorkReturned'
    BY <1>1 DEF WorkReturned
  <1>8. ReservationOwned'
    BY <1>1 DEF ReservationOwned, NoGen
  <1>9. EscsPast'
    BY <1>1 DEF EscsPast
  <1>10. NumbersFit'
    BY <1>1 DEF NumbersFit, NoGen
  <1>11. CleanupsComplete'
    BY <1>1 DEF CleanupsComplete, KindsFit
  <1>12. ~Overlapped' => ~Overlapped
    BY <1>1 DEF Overlapped
  <1>13. ASSUME ~Overlapped' PROVE Separate'
    <2>1. /\ LastUnderWay /\ OwnReservation /\ InForce /\ OnlyInForce
          /\ CancelledByEsc /\ OutcomeByEsc /\ EscHolds /\ Deferred
      BY <1>12, <1>13 DEF IInv, Separate
    <2>2. LastUnderWay'
      BY <2>1, <1>1 DEF LastUnderWay
    <2>3. OwnReservation'
      BY <2>1, <1>1 DEF OwnReservation
    <2>4. InForce'
      BY <2>1, <1>1 DEF InForce, NoGen
    <2>5. OnlyInForce'
      BY <2>1, <1>1 DEF OnlyInForce, NoGen
    <2>6. CancelledByEsc'
      BY <2>1, <1>1 DEF CancelledByEsc, NoGen
    <2>7. OutcomeByEsc'
      BY <2>1, <1>1 DEF OutcomeByEsc
    <2>8. EscHolds'
      BY <2>1, <1>1 DEF EscHolds, NoGen
    <2>9. Deferred'
      BY <2>1, <1>1 DEF Deferred
    <2> QED BY <2>2, <2>3, <2>4, <2>5, <2>6, <2>7, <2>8, <2>9 DEF Separate
  <1> QED BY <1>2, <1>3, <1>4, <1>5, <1>6, <1>7, <1>8, <1>9, <1>10, <1>11, <1>13 DEF IInv


\* A step of an operation, on its thread or when the UI takes its result.
LEMMA OperationStep ==
  ASSUME IInv, NEW i \in DOMAIN ops,
         \/ Checkpointed(i) \/ LastStep(i) \/ GraphReturns(i) \/ WorkerStep(i)
         \/ HandleRefusal(i) \/ HandleStop(i) \/ HandleCompletion(i)
         \/ CleanupReported(i) \/ FinishWork(i)
  PROVE  IInv'
PROOF
  <1>0. /\ ops \in Seq(Op) /\ ops[i] \in Op /\ reserved \in Nat /\ uiWork \in Nat
        /\ interrupted \in BOOLEAN /\ deferSteering \in BOOLEAN
        /\ Generations /\ KindsFit /\ ActiveInside /\ Types /\ CleanupsComplete
    BY DEF IInv, Types
  <1>1. ASSUME Acquire(i) PROVE IInv'
    <2>1. CASE lockHolder = 0
      <3>1. /\ ops[i].phase = "waiting"
            /\ ops' = [ops EXCEPT ![i].phase = "acquired"] /\ lockHolder' = i
            /\ UNCHANGED <<nextGen, active, reserved, last, cancelEvents, drains, beginDrain,
                           scopeJob, uiWork, runEpoch, escs, interrupted, deferSteering,
                           children, activeTools>>
        BY <1>1, <2>1
          DEF Acquire, Move, scopeVars, emptyVars, queueVars, uiVars, workVars, userVars
      <3>2. Moved(i, "acquired", ops[i].entry, ops[i].outcome)
        BY <1>0, <3>1, MoveIs DEF Phases
      <3> QED BY <1>0, <2>1, <3>1, <3>2, Acquiring
    <2>2. CASE lockHolder # 0
      <3>1. /\ ops[i].phase = "waiting"
            /\ ops' = [ops EXCEPT ![i].phase = "returned", ![i].outcome = "rejected"]
            /\ UNCHANGED <<nextGen, active, reserved, last, cancelEvents, drains, beginDrain,
                           scopeJob, lockHolder, uiWork, runEpoch, escs, interrupted,
                           deferSteering, children, activeTools>>
        BY <1>1, <2>2
          DEF Acquire, MoveWith, scopeVars, emptyVars, queueVars, uiVars, workVars, userVars
      <3>2. Moved(i, "returned", ops[i].entry, "rejected")
        BY <1>0, <3>1, MoveWithIs DEF Phases, Outcomes
      <3> QED BY <1>0, <2>2, <3>1, <3>2, Refusing
    <2> QED BY <2>1, <2>2
  <1>2. ASSUME ReadReservation(i) PROVE IInv'
    <2>1. /\ ops[i].phase = "acquired"
          /\ ops' = [ops EXCEPT ![i].phase = "entered", ![i].entry = reserved]
          /\ UNCHANGED <<nextGen, active, reserved, last, cancelEvents, drains, beginDrain,
                         scopeJob, lockHolder, uiWork, runEpoch, escs, interrupted,
                         deferSteering, children, activeTools>>
      BY <1>0, <1>2
        DEF ReadReservation, scopeVars, emptyVars, queueVars, uiVars, workVars, userVars
    <2>2. Moved(i, "entered", reserved, ops[i].outcome)
      BY <1>0, <2>1, ReadIs DEF Phases, Outcomes
    <2> QED BY <1>0, <2>1, <2>2, Reading
  <1>3. ASSUME CleanUp(i) PROVE IInv'
    <2>1. /\ ops[i].phase = "entered"
          /\ ops' = [ops EXCEPT ![i].phase = "releasing", ![i].outcome = "completed"]
          /\ UNCHANGED <<nextGen, active, reserved, last, cancelEvents, drains, beginDrain,
                         scopeJob, lockHolder, uiWork, runEpoch, escs, interrupted,
                         deferSteering, children, activeTools>>
      BY <1>0, <1>3
        DEF CleanUp, scopeVars, emptyVars, queueVars, uiVars, workVars, userVars, MoveWith
    <2>2. Moved(i, "releasing", ops[i].entry, "completed")
      BY <1>0, <2>1, MoveWithIs DEF Phases, Outcomes
    <2> QED BY <1>0, <2>1, <2>2, Leaving
  <1>4. ASSUME Raise(i) PROVE IInv'
    <2>1. /\ ops[i].phase = "entered"
          /\ ops' = [ops EXCEPT ![i].phase = "releasing", ![i].outcome = "raised"]
          /\ ops[i].kind # "cleanup"
          /\ UNCHANGED <<nextGen, active, reserved, last, cancelEvents, drains, beginDrain,
                         scopeJob, lockHolder, uiWork, runEpoch, escs, interrupted,
                         deferSteering, children, activeTools>>
      BY <1>0, <1>4
        DEF Raise, scopeVars, emptyVars, queueVars, uiVars, workVars, userVars, MoveWith
    <2>2. Moved(i, "releasing", ops[i].entry, "raised")
      BY <1>0, <2>1, MoveWithIs DEF Phases, Outcomes
    <2> QED BY <1>0, <2>1, <2>2, Leaving
  <1>5. ASSUME Resume(i) PROVE IInv'
    <2>1. /\ ops[i].phase = "entered"
          /\ ops' = [ops EXCEPT ![i].phase = "resuming"]
          /\ ops[i].kind = "resume"
          /\ deferSteering' = FALSE
          /\ UNCHANGED <<nextGen, active, reserved, last, cancelEvents, drains, beginDrain,
                         scopeJob, lockHolder, uiWork, runEpoch, escs, interrupted, children,
                         activeTools>>
      BY <1>0, <1>5
        DEF Resume, scopeVars, emptyVars, queueVars, uiVars, workVars, userVars, Move,
             Queue!SetDeferSteering
    <2>2. Moved(i, "resuming", ops[i].entry, ops[i].outcome)
      BY <1>0, <2>1, MoveIs DEF Phases, Outcomes
    <2> QED BY <1>0, <2>1, <2>2, Resuming
  <1>6. ASSUME BeginRun(i) PROVE IInv'
    <2>1. /\ ops[i].phase \in {"entered", "resuming", "continuing"}
          /\ ops[i].kind # "cleanup"
          /\ ops[i].phase = "entered" => ops[i].kind = "run"
          /\ ops' = [ops EXCEPT ![i].phase = "graph"]
          /\ activeTools' = {}
          /\ reserved' = NoGen
          /\ active' = Scopes!BeginScope
          /\ last' = Scopes!BeginScope
          /\ nextGen' = IF reserved # NoGen THEN nextGen ELSE nextGen + 1
          /\ cancelEvents' = IF Scopes!CancelCarried THEN cancelEvents \cup {Scopes!BeginScope}
             ELSE cancelEvents
          /\ beginDrain' = IF Scopes!CancelledAtBegin THEN Scopes!BeginScope ELSE NoGen
          /\ UNCHANGED <<drains, scopeJob, lockHolder, uiWork, runEpoch, escs, interrupted,
                         deferSteering, children>>
      BY <1>0, <1>6
        DEF BeginRun, scopeVars, emptyVars, queueVars, uiVars, workVars, userVars, Move, Op,
             Kinds, Scopes!BeginRun, Scopes!TakeScope, Scopes!RetireStreams, Scopes!NoGen,
             NoGen, Scopes!ctxVars, Scopes!childVars, Scopes!reachVars
    <2>2. Moved(i, "graph", ops[i].entry, ops[i].outcome)
      BY <1>0, <2>1, MoveIs DEF Phases, Outcomes
    <2> QED BY <1>0, <2>1, <2>2, Beginning
  <1>7. ASSUME ContinueRun(i) PROVE IInv'
    <2>1. /\ ops[i].phase \in {"entered", "resuming", "continuing"}
          /\ ops[i].kind # "cleanup"
          /\ ops[i].phase = "entered" => ops[i].kind = "run"
          /\ ops' = [ops EXCEPT ![i].phase = "graph"]
          /\ activeTools' = {}
          /\ reserved' = NoGen
          /\ active' = Scopes!BeginScope
          /\ last' = Scopes!BeginScope
          /\ nextGen' = IF reserved # NoGen THEN nextGen ELSE nextGen + 1
          /\ cancelEvents' = IF Scopes!CancelCarried THEN cancelEvents \cup {Scopes!BeginScope}
             ELSE cancelEvents
          /\ beginDrain' = IF Scopes!CancelledAtBegin THEN Scopes!BeginScope ELSE NoGen
          /\ UNCHANGED <<drains, scopeJob, lockHolder, uiWork, runEpoch, escs, interrupted,
                         deferSteering, children>>
      BY <1>0, <1>7
        DEF ContinueRun, scopeVars, emptyVars, queueVars, uiVars, workVars, userVars, Move,
             KindsFit, Scopes!BeginRun, Scopes!TakeScope, Scopes!RetireStreams, Scopes!NoGen,
             NoGen, Scopes!ctxVars, Scopes!childVars, Scopes!reachVars
    <2>2. Moved(i, "graph", ops[i].entry, ops[i].outcome)
      BY <1>0, <2>1, MoveIs DEF Phases, Outcomes
    <2> QED BY <1>0, <2>1, <2>2, Beginning
  <1>8. ASSUME LastStep(i) PROVE IInv'
    <2>1. /\ ops[i].phase \in Inside /\ ops[i].phase # "ending"
          /\ ops' = [ops EXCEPT ![i].phase = "lastStep"]
          /\ deferSteering' = deferSteering
          /\ interrupted' = interrupted
          /\ UNCHANGED <<nextGen, active, reserved, last, cancelEvents, drains, beginDrain,
                         scopeJob, lockHolder, uiWork, runEpoch, escs, children, activeTools>>
      BY <1>0, <1>8
        DEF LastStep, Move, Inside, InGraph, scopeVars, emptyVars, queueVars, uiVars, workVars,
             userVars
    <2>2. Moved(i, "lastStep", ops[i].entry, ops[i].outcome)
      BY <1>0, <2>1, MoveIs DEF Phases, Outcomes
    <2>3. "lastStep" \in Inside /\ ops[i].outcome \in Outcomes
      BY <1>0, <2>1 DEF Inside, Outcomes, Op
    <2> QED BY <1>0, <2>1, <2>2, <2>3, WhileInside DEF Types
  <1>9. ASSUME GraphCompletes(i) PROVE IInv'
    <2>1. /\ ops[i].phase \in Inside /\ ops[i].phase # "ending"
          /\ ops' = [ops EXCEPT ![i].phase = "polling"]
          /\ deferSteering' = deferSteering
          /\ interrupted' = FALSE
          /\ UNCHANGED <<nextGen, active, reserved, last, cancelEvents, drains, beginDrain,
                         scopeJob, lockHolder, uiWork, runEpoch, escs, children, activeTools>>
      BY <1>0, <1>9
        DEF GraphCompletes, Move, Inside, InGraph, scopeVars, emptyVars, queueVars, uiVars,
             workVars, userVars
    <2>2. Moved(i, "polling", ops[i].entry, ops[i].outcome)
      BY <1>0, <2>1, MoveIs DEF Phases, Outcomes
    <2>3. "polling" \in Inside /\ ops[i].outcome \in Outcomes
      BY <1>0, <2>1 DEF Inside, Outcomes, Op
    <2> QED BY <1>0, <2>1, <2>2, <2>3, WhileInside DEF Types
  <1>10. ASSUME GraphCancelled(i) PROVE IInv'
    <2>1. /\ ops[i].phase \in Inside /\ ops[i].phase # "ending"
          /\ ops' = [ops EXCEPT ![i].phase = "ending", ![i].outcome = "cancelled"]
          /\ deferSteering' = deferSteering
          /\ interrupted' = interrupted
          /\ active \in cancelEvents
          /\ UNCHANGED <<nextGen, active, reserved, last, cancelEvents, drains, beginDrain,
                         scopeJob, lockHolder, uiWork, runEpoch, escs, children, activeTools>>
      BY <1>0, <1>10
        DEF GraphCancelled, MoveWith, Inside, InGraph, scopeVars, emptyVars, queueVars, uiVars,
             workVars, userVars, Scopes!NoGen, NoGen, CancelRequested, Scopes!CancelRequested,
             Scopes!CurrentScope, Generations, ActiveInside
    <2>2. Moved(i, "ending", ops[i].entry, "cancelled")
      BY <1>0, <2>1, MoveWithIs DEF Phases, Outcomes
    <2>3. "ending" \in Inside /\ "cancelled" \in Outcomes
      BY <1>0, <2>1 DEF Inside, Outcomes, Op
    <2> QED BY <1>0, <2>1, <2>2, <2>3, WhileInside DEF Types
  <1>11. ASSUME GraphFails(i) PROVE IInv'
    <2>1. /\ ops[i].phase \in Inside /\ ops[i].phase # "ending"
          /\ ops' = [ops EXCEPT ![i].phase = "ending", ![i].outcome = "failed"]
          /\ deferSteering' = deferSteering
          /\ interrupted' = interrupted
          /\ UNCHANGED <<nextGen, active, reserved, last, cancelEvents, drains, beginDrain,
                         scopeJob, lockHolder, uiWork, runEpoch, escs, children, activeTools>>
      BY <1>0, <1>11
        DEF GraphFails, MoveWith, Inside, InGraph, scopeVars, emptyVars, queueVars, uiVars,
             workVars, userVars
    <2>2. Moved(i, "ending", ops[i].entry, "failed")
      BY <1>0, <2>1, MoveWithIs DEF Phases, Outcomes
    <2>3. "ending" \in Inside /\ "failed" \in Outcomes
      BY <1>0, <2>1 DEF Inside, Outcomes, Op
    <2> QED BY <1>0, <2>1, <2>2, <2>3, WhileInside DEF Types
  <1>12. ASSUME GraphInterrupts(i) PROVE IInv'
    <2>1. /\ ops[i].phase \in Inside /\ ops[i].phase # "ending"
          /\ ops' = [ops EXCEPT ![i].phase = "ending", ![i].outcome = "interrupted"]
          /\ deferSteering' = TRUE
          /\ interrupted' = TRUE
          /\ UNCHANGED <<nextGen, active, reserved, last, cancelEvents, drains, beginDrain,
                         scopeJob, lockHolder, uiWork, runEpoch, escs, children, activeTools>>
      BY <1>0, <1>12
        DEF GraphInterrupts, MoveWith, Inside, InGraph, scopeVars, emptyVars, queueVars,
             uiVars, workVars, userVars, Queue!SetDeferSteering
    <2>2. Moved(i, "ending", ops[i].entry, "interrupted")
      BY <1>0, <2>1, MoveWithIs DEF Phases, Outcomes
    <2>3. "ending" \in Inside /\ "interrupted" \in Outcomes
      BY <1>0, <2>1 DEF Inside, Outcomes, Op
    <2> QED BY <1>0, <2>1, <2>2, <2>3, WhileInside DEF Types
  <1>13. ASSUME PollCancel(i) PROVE IInv'
    <2>1. PICK phase \in {"completing", "pollSteering"} :
        /\ ops[i].phase \in Inside /\ ops[i].phase # "ending"
        /\ ops' = [ops EXCEPT ![i].phase = phase]
        /\ deferSteering' = deferSteering
        /\ interrupted' = interrupted
        /\ UNCHANGED <<nextGen, active, reserved, last, cancelEvents, drains, beginDrain,
                       scopeJob, lockHolder, uiWork, runEpoch, escs, children, activeTools>>
      BY <1>0, <1>13
        DEF PollCancel, Move, Inside, InGraph, scopeVars, emptyVars, queueVars, uiVars,
             workVars, userVars
    <2>2. Moved(i, phase, ops[i].entry, ops[i].outcome)
      BY <1>0, <2>1, MoveIs DEF Phases, Outcomes
    <2>3. phase \in Inside /\ ops[i].outcome \in Outcomes
      BY <1>0, <2>1 DEF Inside, Outcomes, Op
    <2> QED BY <1>0, <2>1, <2>2, <2>3, WhileInside DEF Types
  <1>14. ASSUME PollSteering(i) PROVE IInv'
    <2>1. PICK phase \in {"continuing", "pollFollowUp"} :
        /\ ops[i].phase \in Inside /\ ops[i].phase # "ending"
        /\ ops' = [ops EXCEPT ![i].phase = phase]
        /\ deferSteering' = deferSteering
        /\ interrupted' = interrupted
        /\ UNCHANGED <<nextGen, active, reserved, last, cancelEvents, drains, beginDrain,
                       scopeJob, lockHolder, uiWork, runEpoch, escs, children, activeTools>>
      BY <1>0, <1>14
        DEF PollSteering, Move, Inside, InGraph, scopeVars, emptyVars, queueVars, uiVars,
             workVars, userVars, Queue!PopSteering
    <2>2. Moved(i, phase, ops[i].entry, ops[i].outcome)
      BY <1>0, <2>1, MoveIs DEF Phases, Outcomes
    <2>3. phase \in Inside /\ ops[i].outcome \in Outcomes
      BY <1>0, <2>1 DEF Inside, Outcomes, Op
    <2> QED BY <1>0, <2>1, <2>2, <2>3, WhileInside DEF Types
  <1>15. ASSUME PollFollowUp(i) PROVE IInv'
    <2>1. PICK phase \in {"continuing", "completing"} :
        /\ ops[i].phase \in Inside /\ ops[i].phase # "ending"
        /\ ops' = [ops EXCEPT ![i].phase = phase]
        /\ deferSteering' = deferSteering
        /\ interrupted' = interrupted
        /\ UNCHANGED <<nextGen, active, reserved, last, cancelEvents, drains, beginDrain,
                       scopeJob, lockHolder, uiWork, runEpoch, escs, children, activeTools>>
      BY <1>0, <1>15
        DEF PollFollowUp, Move, Inside, InGraph, scopeVars, emptyVars, queueVars, uiVars,
             workVars, userVars, Queue!PopFollowUp
    <2>2. Moved(i, phase, ops[i].entry, ops[i].outcome)
      BY <1>0, <2>1, MoveIs DEF Phases, Outcomes
    <2>3. phase \in Inside /\ ops[i].outcome \in Outcomes
      BY <1>0, <2>1 DEF Inside, Outcomes, Op
    <2> QED BY <1>0, <2>1, <2>2, <2>3, WhileInside DEF Types
  <1>16. ASSUME Complete(i) PROVE IInv'
    <2>1. /\ ops[i].phase \in Inside /\ ops[i].phase # "ending"
          /\ ops' = [ops EXCEPT ![i].phase = "ending", ![i].outcome = "completed"]
          /\ deferSteering' = deferSteering
          /\ interrupted' = interrupted
          /\ UNCHANGED <<nextGen, active, reserved, last, cancelEvents, drains, beginDrain,
                         scopeJob, lockHolder, uiWork, runEpoch, escs, children, activeTools>>
      BY <1>0, <1>16
        DEF Complete, MoveWith, Inside, InGraph, scopeVars, emptyVars, queueVars, uiVars,
             workVars, userVars
    <2>2. Moved(i, "ending", ops[i].entry, "completed")
      BY <1>0, <2>1, MoveWithIs DEF Phases, Outcomes
    <2>3. "ending" \in Inside /\ "completed" \in Outcomes
      BY <1>0, <2>1 DEF Inside, Outcomes, Op
    <2> QED BY <1>0, <2>1, <2>2, <2>3, WhileInside DEF Types
  <1>17. ASSUME EndRun(i) PROVE IInv'
    <2>1. /\ ops[i].phase = "ending"
          /\ ops' = [ops EXCEPT ![i].phase = "releasing"]
          /\ active' = NoGen
          /\ activeTools' = {}
          /\ UNCHANGED <<nextGen, reserved, last, cancelEvents, drains, beginDrain, scopeJob,
                         lockHolder, uiWork, runEpoch, escs, interrupted, deferSteering,
                         children>>
      BY <1>0, <1>17
        DEF EndRun, scopeVars, emptyVars, queueVars, uiVars, workVars, userVars, Move,
             Scopes!EndRun, Scopes!RetireStreams, Scopes!NoGen, NoGen, Scopes!drainVars,
             Scopes!ctxVars, Scopes!childVars, Scopes!reachVars
    <2>2. Moved(i, "releasing", ops[i].entry, ops[i].outcome)
      BY <1>0, <2>1, MoveIs DEF Phases, Outcomes
    <2> QED BY <1>0, <2>1, <2>2, Ending
  <1>18. ASSUME Release(i) PROVE IInv'
    <2>1. /\ ops[i].phase = "releasing"
          /\ ops' = [ops EXCEPT ![i].phase = "unlocking"]
          /\ reserved' = IF ops[i].entry # NoGen /\ reserved = ops[i].entry THEN NoGen
                     ELSE reserved
          /\ UNCHANGED <<nextGen, active, last, cancelEvents, drains, beginDrain, scopeJob,
                         lockHolder, uiWork, runEpoch, escs, interrupted, deferSteering,
                         children, activeTools>>
      BY <1>0, <1>18
        DEF Release, scopeVars, emptyVars, queueVars, uiVars, workVars, userVars, Move,
             Scopes!ReleaseReservation, Scopes!NoGen, NoGen, Scopes!drainVars,
             Scopes!streamVars, Scopes!toolVars, Scopes!ctxVars, Scopes!childVars,
             Scopes!reachVars
    <2>2. Moved(i, "unlocking", ops[i].entry, ops[i].outcome)
      BY <1>0, <2>1, MoveIs DEF Phases, Outcomes
    <2> QED BY <1>0, <2>1, <2>2, Releasing
  <1>19. ASSUME Unlock(i) PROVE IInv'
    <2>1. /\ ops[i].phase = "unlocking"
          /\ ops' = [ops EXCEPT ![i].phase = "returned"]
          /\ lockHolder' = 0
          /\ UNCHANGED <<nextGen, active, reserved, last, cancelEvents, drains, beginDrain,
                         scopeJob, uiWork, runEpoch, escs, interrupted, deferSteering,
                         children, activeTools>>
      BY <1>0, <1>19
        DEF Unlock, scopeVars, emptyVars, queueVars, uiVars, workVars, userVars, Move
    <2>2. Moved(i, "returned", ops[i].entry, ops[i].outcome)
      BY <1>0, <2>1, MoveIs DEF Phases, Outcomes
    <2> QED BY <1>0, <2>1, <2>2, Unlocking
  <1>20. ASSUME HandleRefusal(i) PROVE IInv'
    <2>1. /\ ops[i].phase = "returned"
          /\ uiWork = 0
          /\ uiWork' = i
          /\ ops[i].kind # "cleanup"
          /\ ops' = [ops EXCEPT ![i].phase = "handled"]
          /\ UNCHANGED <<nextGen, active, reserved, last, cancelEvents, drains, beginDrain,
                         scopeJob, lockHolder, runEpoch, escs, interrupted, deferSteering,
                         children, activeTools>>
      BY <1>0, <1>20
        DEF HandleRefusal, scopeVars, emptyVars, queueVars, uiVars, workVars, userVars,
             ResultArrived, UIFree, IsRun
    <2>2. Moved(i, "handled", ops[i].entry, ops[i].outcome)
      BY <1>0, <2>1, MoveIs DEF Phases, Outcomes
    <2> QED BY <1>0, <2>1, <2>2, Handling
  <1>21. ASSUME HandleStop(i) PROVE IInv'
    <2>1. /\ ops[i].phase = "returned"
          /\ uiWork = 0
          /\ uiWork' = i
          /\ ops[i].kind # "cleanup"
          /\ ops' = [ops EXCEPT ![i].phase = "handled"]
          /\ UNCHANGED <<nextGen, active, reserved, last, cancelEvents, drains, beginDrain,
                         scopeJob, lockHolder, runEpoch, escs, interrupted, deferSteering,
                         children, activeTools>>
      BY <1>0, <1>21
        DEF HandleStop, scopeVars, emptyVars, queueVars, uiVars, workVars, userVars,
             ResultArrived, UIFree, IsRun, CleanupsComplete
    <2>2. Moved(i, "handled", ops[i].entry, ops[i].outcome)
      BY <1>0, <2>1, MoveIs DEF Phases, Outcomes
    <2> QED BY <1>0, <2>1, <2>2, Handling
  <1>22. ASSUME HandleCompletion(i) PROVE IInv'
    <2>1. /\ ops[i].phase = "returned"
          /\ uiWork = 0
          /\ uiWork' = i
          /\ ops[i].kind # "cleanup"
          /\ ops' = [ops EXCEPT ![i].phase = "handled"]
          /\ UNCHANGED <<nextGen, active, reserved, last, cancelEvents, drains, beginDrain,
                         scopeJob, lockHolder, runEpoch, escs, interrupted, deferSteering,
                         children, activeTools>>
      BY <1>0, <1>22
        DEF HandleCompletion, scopeVars, emptyVars, queueVars, uiVars, workVars, userVars,
             ResultArrived, UIFree, IsRun
    <2>2. Moved(i, "handled", ops[i].entry, ops[i].outcome)
      BY <1>0, <2>1, MoveIs DEF Phases, Outcomes
    <2> QED BY <1>0, <2>1, <2>2, Handling
  <1>23. ASSUME CleanupReported(i) PROVE IInv'
    <2>1. /\ ops[i].phase = "returned"
          /\ uiWork = 0
          /\ ops[i].kind = "cleanup"
          /\ ops' = [ops EXCEPT ![i].phase = "done"]
          /\ UNCHANGED <<nextGen, active, reserved, last, cancelEvents, drains, beginDrain,
                         scopeJob, lockHolder, uiWork, runEpoch, escs, interrupted,
                         deferSteering, children, activeTools>>
      BY <1>0, <1>23
        DEF CleanupReported, scopeVars, emptyVars, queueVars, uiVars, workVars, userVars,
             ResultArrived, UIFree, IsRun
    <2>2. Moved(i, "done", ops[i].entry, ops[i].outcome)
      BY <1>0, <2>1, MoveIs DEF Phases, Outcomes
    <2> QED BY <1>0, <2>1, <2>2, Reporting
  <1>24. ASSUME FinishWork(i) PROVE IInv'
    <2>1. /\ uiWork = i
          /\ uiWork' = 0
          /\ reserved' = IF reserved = ops[i].reservation THEN NoGen ELSE reserved
          /\ ops' = [ops EXCEPT ![i].phase = "done"]
          /\ UNCHANGED <<nextGen, active, last, cancelEvents, drains, beginDrain, scopeJob,
                         lockHolder, runEpoch, escs, interrupted, deferSteering, children,
                         activeTools>>
      BY <1>0, <1>24
        DEF FinishWork, scopeVars, emptyVars, queueVars, uiVars, workVars, userVars,
             Scopes!ReleaseReservation, Scopes!NoGen, NoGen, Scopes!drainVars,
             Scopes!streamVars, Scopes!toolVars, Scopes!ctxVars, Scopes!childVars,
             Scopes!reachVars
    <2>2. Moved(i, "done", ops[i].entry, ops[i].outcome)
      BY <1>0, <2>1, MoveIs DEF Phases, Outcomes
    <2> QED BY <1>0, <2>1, <2>2, Finishing
  <1>25. ASSUME Checkpointed(i) PROVE IInv'
    <2>1. /\ ops[i].phase \in Inside /\ ops[i].phase # "ending"
              /\ ops' = ops
              /\ deferSteering' = deferSteering
              /\ interrupted' = FALSE
              /\ UNCHANGED <<nextGen, active, reserved, last, cancelEvents, drains, beginDrain,
                             scopeJob, lockHolder, uiWork, runEpoch, escs, children,
                             activeTools>>
      BY <1>25
        DEF Checkpointed, InGraph, Inside, scopeVars, emptyVars, queueVars, uiVars, workVars,
             userVars
    <2>2. Moved(i, ops[i].phase, ops[i].entry, ops[i].outcome)
      BY <1>0, <2>1 DEF Moved
    <2>3. ops[i].outcome \in Outcomes
      BY <1>0 DEF Op
    <2> QED BY <1>0, <2>1, <2>2, <2>3, WhileInside
  <1> QED BY <1>1, <1>2, <1>3, <1>4, <1>5, <1>6, <1>7, <1>8, <1>9, <1>10, <1>11, <1>12, <1>13,
             <1>14, <1>15, <1>16, <1>17, <1>18, <1>19, <1>20, <1>21, <1>22, <1>23, <1>24, <1>25
            DEF GraphReturns, WorkerStep

\* What _start_run does.
LEMMA StartRunKeeps ==
  ASSUME IInv, NEW kind \in {"run", "resume"}, kind = "run" => ~interrupted, StartRun(kind),
         UNCHANGED <<lockHolder, uiWork, escs, interrupted, deferSteering>>
  PROVE  IInv'
PROOF
  <1>1. /\ runEpoch' = runEpoch + 1
        /\ IF reserved = NoGen THEN reserved' = nextGen /\ nextGen' = nextGen + 1
           ELSE UNCHANGED <<reserved, nextGen>>
        /\ ops' = Append(ops, NewOp(kind, runEpoch + 1, reserved'))
        /\ UNCHANGED <<active, last, cancelEvents, drains, beginDrain, scopeJob, lockHolder,
                       uiWork, escs, interrupted, deferSteering, children, activeTools>>
    BY DEF StartRun, Scopes!ReserveRun, Scopes!NoGen, NoGen, Scopes!drainVars, Scopes!toolVars,
           Scopes!childVars
  <1>2. ops \in Seq(Op) /\ kind \in Kinds /\ runEpoch + 1 \in Nat /\ reserved' \in Nat
    BY <1>1 DEF IInv, Types, Kinds
  <1>3. Dispatched(kind, runEpoch + 1, reserved')
    BY <1>1, <1>2, DispatchIs
  <1> QED BY <1>1, <1>3, Starting

\* A step that leaves alone all the invariant speaks of.
LEMMA AsideKeeps ==
  ASSUME IInv, UNCHANGED <<nextGen, active, reserved, last, cancelEvents, drains, beginDrain,
                           scopeJob, ops, lockHolder, uiWork, runEpoch, escs, interrupted,
                           deferSteering, children, activeTools>>
  PROVE  IInv'
PROOF
  <1>1. /\ drains' \in SUBSET cancelEvents /\ beginDrain' \in {beginDrain, NoGen}
        /\ scopeJob' \in [{"ui"} -> UIJob]
        /\ scopeJob'["ui"].control \in {scopeJob["ui"].control, NoGen}
    BY DEF IInv, Types, Generations
  <1> QED BY <1>1, Draining

\* The rest of a cancel() call.
LEMMA CancelRestKeeps ==
  ASSUME IInv, CancelRest
  PROVE  IInv'
PROOF
  <1> USE DEF scopeVars, emptyVars, queueVars, uiVars, workVars, userVars
  <1>1. Types /\ Generations /\ scopeJob["ui"] \in UIJob
    BY DEF IInv, Types
  <1>2. Scopes!RequestDrain("ui")
    BY <1>1
      DEF CancelRest, Scopes!CancelStep, Scopes!CancelChild, Scopes!CancelStream,
           Scopes!CancelTool, UIJob
  <1>3. /\ drains' = drains \cup {scopeJob["ui"].control} /\ scopeJob["ui"].control # NoGen
        /\ scopeJob' = [scopeJob EXCEPT !["ui"].control = NoGen]
        /\ UNCHANGED <<nextGen, active, reserved, last, cancelEvents, beginDrain, ops,
                       lockHolder, uiWork, runEpoch, escs, interrupted, deferSteering,
                       children, activeTools>>
    BY <1>2
      DEF CancelRest, Scopes!RequestDrain, Scopes!scopeVars, Scopes!NoGen, NoGen,
           Scopes!toolVars, Scopes!childVars
  <1>4. [scopeJob["ui"] EXCEPT !.control = NoGen] \in UIJob
    BY <1>1 DEF NoGen, UIJob
  <1>5. /\ scopeJob' \in [{"ui"} -> UIJob]
        /\ scopeJob'["ui"].control = NoGen
    BY <1>1, <1>3, <1>4 DEF Types, UIJob
  <1>6. drains' \in SUBSET cancelEvents
    BY <1>1, <1>3 DEF Generations
  <1> QED BY <1>3, <1>5, <1>6, Draining

\* Esc: the critical section of cancel().
LEMMA EscKeeps ==
  ASSUME IInv, Esc
  PROVE  IInv'
PROOF
  <1> USE DEF scopeVars, emptyVars, queueVars, uiVars, workVars, userVars
  <1> DEFINE g == Scopes!CancelTarget
  <1>1. Types /\ Generations
    BY DEF IInv
  <1>2. g \in Nat
    BY <1>1 DEF Types, Scopes!CancelTarget, Scopes!NoGen
  <1>3. /\ escs' = escs \cup {runEpoch}
        /\ IF Scopes!CurrentScope = NoGen THEN last' = g /\ nextGen' = g + 1
           ELSE UNCHANGED <<last, nextGen>>
        /\ cancelEvents' = cancelEvents \cup {g}
        /\ scopeJob' = scopeJob \/ \E control \in {g, NoGen} :
             scopeJob' = [scopeJob EXCEPT !["ui"] =
               [children |-> children, streams |-> {}, control |-> control,
                tools |-> activeTools]]
        /\ UNCHANGED <<active, reserved, drains, beginDrain, ops, lockHolder, uiWork, runEpoch,
                       interrupted, deferSteering, children, activeTools>>
    BY DEF Esc, RestoreQueuedToEditor, Queue!TakeUnapplied, Scopes!Cancel, Scopes!NoGen, NoGen,
           Scopes!drainVars, Scopes!streamVars, Scopes!toolVars, Scopes!ctxVars,
           Scopes!childVars
  <1>4. /\ scopeJob' \in [{"ui"} -> UIJob]
        /\ scopeJob'["ui"].control \in {scopeJob["ui"].control, g, NoGen}
    <2>1. CASE scopeJob' = scopeJob
      BY <2>1, <1>1 DEF Types
    <2>2. ASSUME NEW control \in {g, NoGen},
                 scopeJob' = [scopeJob EXCEPT !["ui"] =
               [children |-> children, streams |-> {}, control |-> control,
                tools |-> activeTools]]
          PROVE  <1>4
      <3>1. [children |-> children, streams |-> {}, control |-> control,
             tools |-> activeTools] \in UIJob
        BY <1>1, <1>2 DEF Types, NoGen, UIJob
      <3> QED BY <3>1, <2>2, <1>1 DEF Types
    <2> QED BY <2>1, <2>2, <1>3
  <1> HIDE DEF g
  <1> QED BY <1>2, <1>3, <1>4, Cancelling DEF g

\* A step of the user or the UI that is not the rest of cancel() or a result.
LEMMA OtherStep ==
  ASSUME IInv,
         \/ SubmitStarts \/ ApplyEvent \/ UserStep \/ DrainBegun
         \/ (\E i \in DOMAIN ops : Steered(i))
  PROVE  IInv'
PROOF
  <1> USE DEF scopeVars, emptyVars, queueVars, uiVars, workVars, userVars
  <1>1. CASE SubmitStarts
    <2>1. CASE NothingToStart
      BY <1>1, <2>1, AsideKeeps DEF SubmitStarts, NothingToStart
    <2>2. CASE StartQueuedSteering \/ StartQueuedFollowUp
      <3>1. StartRun("run") /\ ~interrupted /\ UNCHANGED <<lockHolder, uiWork, escs,
                                                           interrupted, deferSteering>>
        BY <1>1, <2>2
          DEF SubmitStarts, StartQueuedSteering, StartQueuedFollowUp, MayStartQueued,
               Queue!PopSteering, Queue!PopFollowUp
      <3> QED BY <3>1, StartRunKeeps
    <2> QED BY <1>1, <2>1, <2>2 DEF SubmitStarts, StartQueuedRun
  <1>2. CASE ApplyEvent
    BY <1>2, AsideKeeps DEF ApplyEvent
  <1>3. ASSUME NEW m \in Messages, NEW mode \in {"steer", "followUp"}, Submit(m, mode)
        PROVE  IInv'
    <2>1. CASE SubmitQueues
      <3>1. UNCHANGED <<nextGen, active, reserved, last, cancelEvents, drains, beginDrain,
                        scopeJob, ops, lockHolder, uiWork, runEpoch, escs, interrupted,
                        deferSteering, children, activeTools>>
        BY <1>3, <2>1 DEF Submit, Queue!Steer, Queue!FollowUp
      <3> QED BY <3>1, AsideKeeps
    <2>2. CASE ~SubmitQueues
      <3>1. StartRun("run") /\ ~interrupted /\ UNCHANGED <<lockHolder, uiWork, escs,
                                                           interrupted, deferSteering>>
        BY <1>3, <2>2 DEF Submit, SubmitQueues
      <3> QED BY <3>1, StartRunKeeps
    <2> QED BY <2>1, <2>2
  <1>4. CASE Esc
    BY <1>4, EscKeeps
  <1>5. CASE Dequeue
    BY <1>5, AsideKeeps DEF Dequeue, RestoreQueuedToEditor, Queue!TakeUnapplied
  <1>6. CASE Decide
    <2>1. StartRun("resume") /\ UNCHANGED <<lockHolder, uiWork, escs, interrupted,
                                            deferSteering>>
      BY <1>6 DEF Decide
    <2> QED BY <2>1, StartRunKeeps
  <1>7. CASE Dismiss
    BY <1>7, AsideKeeps DEF Dismiss
  <1>8. CASE ReopenInteraction
    BY <1>8, AsideKeeps DEF ReopenInteraction
  <1>9. CASE CleanupCommand
    <2>1. ops' = Append(ops, NewOp("cleanup", runEpoch, NoGen)) /\ UNCHANGED <<nextGen, active,
                                                                               reserved, last,
                                                                               cancelEvents,
                                                                               drains,
                                                                               beginDrain,
                                                                               scopeJob,
                                                                               lockHolder,
                                                                               uiWork,
                                                                               runEpoch, escs,
                                                                               interrupted,
                                                                               deferSteering,
                                                                               children,
                                                                               activeTools>>
      BY <1>9 DEF CleanupCommand
    <2>2. Dispatched("cleanup", runEpoch, NoGen)
      BY <2>1, DispatchIs DEF IInv, Types, Kinds, NoGen
    <2> QED BY <2>1, <2>2, Cleaning
  <1>10. CASE DrainBegun
    <2>1. /\ beginDrain # NoGen /\ drains' = drains \cup {beginDrain} /\ beginDrain' = NoGen
          /\ UNCHANGED <<nextGen, active, reserved, last, cancelEvents, scopeJob, ops,
                         lockHolder, uiWork, runEpoch, escs, interrupted, deferSteering,
                         children, activeTools>>
      BY <1>10
        DEF DrainBegun, Scopes!DrainBegun, Scopes!scopeVars, Scopes!NoGen, NoGen,
             Scopes!toolVars, Scopes!childVars
    <2>2. /\ drains' \in SUBSET cancelEvents
          /\ scopeJob' \in [{"ui"} -> UIJob]
      BY <2>1 DEF IInv, Types, Generations
    <2> QED BY <2>1, <2>2, Draining
  <1>11. ASSUME NEW i \in DOMAIN ops, Steered(i) PROVE IInv'
    <2>1. UNCHANGED <<nextGen, active, reserved, last, cancelEvents, drains, beginDrain,
                      scopeJob, ops, lockHolder, uiWork, runEpoch, escs, interrupted,
                      deferSteering, children, activeTools>>
      BY <1>11 DEF Steered, Queue!PopSteering
    <2> QED BY <2>1, AsideKeeps
  <1> QED BY <1>1, <1>2, <1>3, <1>4, <1>5, <1>6, <1>7, <1>8, <1>9, <1>10, <1>11 DEF UserStep

-----------------------------------------------------------------------------
(* The theorems. *)

\* The invariant holds at first.
LEMMA InitHolds == Init => IInv
PROOF
  <1> SUFFICES ASSUME Init PROVE IInv
    OBVIOUS
  <1>1. /\ nextGen = 1 /\ active = 0 /\ reserved = 0 /\ last = 0 /\ cancelEvents = {}
        /\ drains = {} /\ beginDrain = 0 /\ children = {} /\ activeTools = {}
        /\ scopeJob = [c \in {"ui"} |->
             [children |-> {}, streams |-> {}, control |-> 0, tools |-> {}]]
        /\ ops = <<>> /\ lockHolder = 0 /\ uiWork = 0 /\ runEpoch = 0 /\ escs = {}
        /\ interrupted = FALSE /\ deferSteering = FALSE
    BY DEF Init, Scopes!Init, Scopes!NoGen, Scopes!NoJob, Queue!Init
  <1>2. ops \in Seq(Op) /\ Len(ops) = 0 /\ DOMAIN ops = {}
    BY <1>1
  <1>3. scopeJob \in [{"ui"} -> UIJob] /\ scopeJob["ui"].control = 0
    BY <1>1 DEF UIJob
  <1>4. Types
    <2>1. /\ nextGen \in Nat \ {0} /\ active \in Nat /\ reserved \in Nat /\ last \in Nat
          /\ cancelEvents \in SUBSET Nat /\ drains \in SUBSET Nat /\ beginDrain \in Nat
          /\ runEpoch \in Nat /\ escs \in SUBSET Nat
      BY <1>1
    <2>2. lockHolder \in 0..Len(ops) /\ uiWork \in 0..Len(ops)
      BY <1>1, <1>2
    <2> QED BY <1>1, <1>2, <1>3, <2>1, <2>2 DEF Types
  <1>5. /\ Generations /\ LockHeld /\ ActiveInside /\ KindsFit /\ WorkReturned
        /\ ReservationOwned /\ EscsPast /\ NumbersFit /\ CleanupsComplete
    BY <1>1, <1>2, <1>3
      DEF Generations, LockHeld, ActiveInside, KindsFit, WorkReturned, ReservationOwned,
           EscsPast, NumbersFit, CleanupsComplete, NoGen
  <1>6. Separate
    BY <1>1, <1>2
      DEF Separate, LastUnderWay, OwnReservation, InForce, OnlyInForce, CancelledByEsc,
           OutcomeByEsc, EscHolds, Deferred, NoGen
  <1> QED BY <1>4, <1>5, <1>6 DEF IInv

\* Every step keeps it.
LEMMA StepKeeps == IInv /\ [Next]_vars => IInv'
PROOF
  <1> SUFFICES ASSUME IInv, [Next]_vars PROVE IInv'
    OBVIOUS
  <1>1. CASE UNCHANGED vars
    BY <1>1, AsideKeeps DEF vars, scopeVars, emptyVars, queueVars, uiVars, workVars, userVars
  <1>2. CASE Next
    BY <1>2, OperationStep, OtherStep, CancelRestKeeps DEF Next, UIStep
  <1> QED BY <1>1, <1>2

\* The invariant holds in every state.
THEOREM Invariance == Spec => []IInv
PROOF
  BY InitHolds, StepKeeps, PTL DEF Spec

\* No reservation, and no cancel kept on one, is left for a later run.
THEOREM ReservationsAreReleased == Spec => []NoReservationLeaks
PROOF
  <1>1. IInv => NoReservationLeaks
    BY DEF IInv, ReservationOwned, NoReservationLeaks, IsRun
  <1> QED BY <1>1, Invariance, PTL

\* A run is cancelled by an Esc pressed since it was dispatched.
THEOREM CancelsAreMeant == Spec => []CancelledOnlyByUser
PROOF
  <1>1. ASSUME IInv PROVE CancelledOnlyByUser
    <2>1. ASSUME ~Overlapped, NEW i \in DOMAIN ops, ops[i].outcome = "cancelled"
          PROVE  \E e \in escs : e >= ops[i].epoch
      <3>1. ops[i].epoch \in escs
        BY <1>1, <2>1 DEF IInv, Separate, OutcomeByEsc
      <3>2. ops[i] \in Op
        BY <1>1 DEF IInv, Types
      <3>3. ops[i].epoch \in Nat
        BY <3>2 DEF Op
      <3> QED BY <3>1, <3>3
    <2> QED BY <2>1 DEF CancelledOnlyByUser
  <1> QED BY <1>1, Invariance, PTL

\* Esc holds for every generation of the run that was shown.
THEOREM EscIsKept == Spec => []CancelKept
PROOF
  <1>1. ASSUME IInv PROVE CancelKept
    <2>1. ASSUME ~Overlapped, NEW i \in DOMAIN ops, Begun(i), EscPressed(i)
          PROVE  active \in cancelEvents
      <3>1. EscHolds /\ KindsFit
        BY <1>1, <2>1 DEF IInv, Separate
      <3> QED BY <3>1, <2>1 DEF EscHolds, KindsFit, Begun, EscPressed, Inside
    <2> QED BY <2>1 DEF CancelKept
  <1> QED BY <1>1, Invariance, PTL

\* Steering is held back only while an interrupt waits for the user.
THEOREM SteeringIsHeldForInterrupts == Spec => []DeferredOnlyAtInterrupt
PROOF
  <1>1. IInv => DeferredOnlyAtInterrupt
    BY DEF IInv, Separate, Deferred, DeferredOnlyAtInterrupt
  <1> QED BY <1>1, Invariance, PTL

==============================================================================

----------------------------- MODULE MessageQueue -----------------------------
(***************************************************************************)
(* What the two input queues of RunController promise together             *)
(* (docs/tui.md, input while a run is active): one line of messages in the *)
(* order they were submitted.  A steering message is handed out only from  *)
(* the front of the line; a follow-up may be handed out once every message *)
(* before it is steering; all of it can be reclaimed at once.              *)
(***************************************************************************)
EXTENDS Sequences, Naturals, SequencesExt

CONSTANT Messages

VARIABLE line

Modes == {"steer", "followUp"}

Init == line = <<>>

Submit(m, mode) == line' = Append(line, [msg |-> m, mode |-> mode])

HandSteering ==
  /\ line # <<>>
  /\ Head(line).mode = "steer"
  /\ line' = Tail(line)

HandFollowUp ==
  \E i \in DOMAIN line :
    /\ line[i].mode = "followUp"
    /\ \A j \in 1..(i - 1) : line[j].mode = "steer"
    /\ line' = RemoveAt(line, i)

Reclaim == line' = <<>>

Next ==
  \/ \E m \in Messages, mode \in Modes : Submit(m, mode)
  \/ HandSteering \/ HandFollowUp \/ Reclaim

Spec == Init /\ [][Next]_line

=============================================================================

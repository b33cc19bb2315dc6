----------------------------- MODULE ModelCall -----------------------------
(***************************************************************************)
(* One call of the model with its retries: ProtocolChatOpenAI of llm.py    *)
(* (_stream, _astream, _generate_with_cache), the back-off of              *)
(* llm_stream.py, and what the callback of stream.py shows meanwhile.      *)
(*                                                                         *)
(* The bridge that carries the chunks is modelled in StreamBridge; here it *)
(* is a request that is registered with the run, opened, read and closed.  *)
(* A chunk is the attempt it came with and its number.                     *)
(***************************************************************************)
EXTENDS Naturals, Sequences

CONSTANTS MaxRetries, \* max_retries of the model
          Size        \* chunks of an answer, at most

RetryAssumption == MaxRetries \in Nat /\ Size \in Nat

VARIABLES
  pc,         \* the calling thread
  attempt,    \* counts from 0
  registered, \* the bridge is known to the run
  stopped,    \* the bridge was told to stop
  cancelled,  \* the run was cancelled
  sent,       \* chunks the server sent in this attempt
  ended,      \* the completion event or [DONE] was seen
  gathered,   \* what LangChain accumulates
  shown,      \* what the transcript shows of this call
  requests,   \* requests opened
  result

vars == <<pc, attempt, registered, stopped, cancelled, sent, ended, gathered, shown, requests, result>>

Results == {"none", "answer", "cancelled", "failed", "refused"}

\* The attempts stay within the budget, and a call that gave up has used it.
TypeOK ==
  /\ pc \in {"begin", "register", "open", "read", "retry", "wait", "waiting", "done"}
  /\ attempt \in 0..MaxRetries /\ requests \in 0..(MaxRetries + 1)
  /\ registered \in BOOLEAN /\ stopped \in BOOLEAN /\ cancelled \in BOOLEAN /\ ended \in BOOLEAN
  /\ sent \in 0..Size /\ result \in Results
  /\ result = "failed" => attempt = MaxRetries

Init ==
  /\ pc = "begin" /\ attempt = 0 /\ requests = 0 /\ result = "none"
  /\ registered = FALSE /\ stopped = FALSE /\ cancelled = FALSE
  /\ sent = 0 /\ ended = FALSE /\ gathered = <<>> /\ shown = <<>>

End(r) == pc' = "done" /\ result' = r

\* A bridge is told to stop only while the run knows it.
Cancel ==
  /\ ~cancelled /\ pc # "done" /\ cancelled' = TRUE
  /\ stopped' = (stopped \/ registered)
  /\ UNCHANGED <<pc, attempt, registered, sent, ended, gathered, shown, requests, result>>

\* on_llm_start.
Begin ==
  /\ pc = "begin" /\ pc' = "register" /\ shown' = <<>>
  /\ UNCHANGED <<attempt, registered, stopped, cancelled, sent, ended, gathered, requests, result>>

\* register_model_stream refuses a cancelled run; both the request and the
\* back-off register a bridge of their own.
\* Mutant: the bridge is registered whatever the run says.
AdmittedAlways == TRUE
Admitted == ~cancelled

Register ==
  /\ pc \in {"register", "wait"}
  /\ IF Admitted
       THEN /\ registered' = TRUE /\ stopped' = FALSE
            /\ pc' = IF pc = "register" THEN "open" ELSE "waiting"
            /\ UNCHANGED result
       ELSE End("cancelled") /\ UNCHANGED <<registered, stopped>>
  /\ UNCHANGED <<attempt, cancelled, sent, ended, gathered, shown, requests>>

\* A bridge told to stop raises in its consumer, in a request and in the
\* back-off alike.
Interrupts == stopped /\ pc \in {"open", "read", "waiting"}

Unregister == registered' = FALSE /\ UNCHANGED stopped

\* The accumulator starts afresh with every request.
Afresh == <<>>

Open ==
  /\ pc = "open" /\ ~Interrupts
  /\ pc' = "read" /\ requests' = requests + 1
  /\ sent' = 0 /\ ended' = FALSE /\ gathered' = Afresh
  /\ UNCHANGED <<attempt, registered, stopped, cancelled, shown, result>>

\* A chunk; the last one, or [DONE], marks the answer complete.
Chunk(last) ==
  /\ pc = "read" /\ ~Interrupts /\ ~ended /\ sent < Size
  /\ sent' = sent + 1 /\ ended' = last
  /\ gathered' = Append(gathered, <<attempt, sent + 1>>)
  /\ shown' = Append(shown, <<attempt, sent + 1>>)
  /\ UNCHANGED <<pc, attempt, registered, stopped, cancelled, requests, result>>

\* The stream ends: complete, or an end of the connection that looks alike.
Whole == ended

Exhausted ==
  /\ pc = "read" /\ ~Interrupts
  /\ Unregister
  /\ IF Whole THEN End("answer") ELSE pc' = "retry" /\ UNCHANGED result
  /\ UNCHANGED <<attempt, cancelled, sent, ended, gathered, shown, requests>>

\* A transport error, an idle timeout, or a status worth a retry, when the
\* request is opened and while it is read.
Interrupted ==
  /\ pc \in {"open", "read"} /\ ~Interrupts
  /\ Unregister /\ pc' = "retry"
  /\ requests' = IF pc = "open" THEN requests + 1 ELSE requests
  /\ UNCHANGED <<attempt, cancelled, sent, ended, gathered, shown, result>>

\* Any other status is the caller's to see.
Refused ==
  /\ pc = "open" /\ ~Interrupts
  /\ Unregister /\ End("refused") /\ requests' = requests + 1
  /\ UNCHANGED <<attempt, cancelled, sent, ended, gathered, shown>>

Stops ==
  /\ Interrupts
  /\ Unregister /\ End("cancelled")
  /\ UNCHANGED <<attempt, cancelled, sent, ended, gathered, shown, requests>>

\* on_retry clears what the failed attempt has shown.
\* Mutant: the callback learns of a retry after the first token only.
ClearedLate == IF sent > 1 THEN <<>> ELSE shown
Cleared == <<>>

Spent == attempt >= MaxRetries

Retry ==
  /\ pc = "retry"
  /\ IF Spent THEN End("failed") /\ UNCHANGED shown
     ELSE pc' = "wait" /\ shown' = Cleared /\ UNCHANGED result
  /\ UNCHANGED <<attempt, registered, stopped, cancelled, sent, ended, gathered, requests>>

Waited ==
  /\ pc = "waiting" /\ ~Interrupts
  /\ Unregister /\ pc' = "register" /\ attempt' = attempt + 1
  /\ UNCHANGED <<cancelled, sent, ended, gathered, shown, requests, result>>

Done == pc = "done" /\ UNCHANGED vars

Next ==
  \/ Cancel \/ Begin \/ Register \/ Open \/ Exhausted \/ Interrupted \/ Refused
  \/ Stops \/ Retry \/ Waited \/ Done
  \/ \E last \in BOOLEAN : Chunk(last)

\* The calling thread goes on, and a bridge told to stop wakes its consumer
\* (CancelledConsumerEnds of StreamBridge). Nothing is assumed of the server.
Fairness == WF_vars(Begin) /\ WF_vars(Register) /\ WF_vars(Stops) /\ WF_vars(Retry)

Spec == Init /\ [][Next]_vars /\ Fairness

-----------------------------------------------------------------------------
\* An answer is the whole of one attempt: nothing of a failed one is in it
\* and the end of the connection is not taken for the end of the answer.
AnswerIsWhole ==
  result = "answer" => ended /\ gathered = [i \in 1..sent |-> <<attempt, i>>]

\* What the transcript shows never mixes two attempts, and is the answer in
\* the end.
ShownFromOneAttempt ==
  /\ \A i \in DOMAIN shown : shown[i][1] = shown[1][1]
  /\ result = "answer" => shown = gathered

\* Once the run is cancelled no request is opened, also not by a retry whose
\* back-off the cancel did not find.
NoRequestAfterCancel == [][requests' # requests => ~cancelled]_vars

\* A cancelled call ends although the server sends nothing and however long
\* the back-off is.
CancelEnds == cancelled ~> pc = "done"

\* The answer of a call is one whole answer, and what is shown is of the
\* attempt it came from (_generate_with_cache, on_retry).
OneWholeAnswer == AnswerIsWhole /\ ShownFromOneAttempt

\* A cancelled call sends nothing more, and ends.
CancelStopsCall == NoRequestAfterCancel /\ CancelEnds
=============================================================================

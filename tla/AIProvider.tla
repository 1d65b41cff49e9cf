----------------------------- MODULE AIProvider -----------------------------
(***************************************************************************)
(* One call of an AI provider: AITypeMapper.CallAI and the requests        *)
(* retryableHTTPDo sends for it.                                           *)
(*                                                                         *)
(* What the provider's API answers is abstracted to what CallAI makes of   *)
(* it: "answer", a text; "transient", an error of the network or a status  *)
(* that isRetryableError accepts; "fatal", anything else, a response       *)
(* without a text included.  The mapper of the monitor has one caller, so  *)
(* that requestsMu is free.                                                *)
(***************************************************************************)
EXTENDS Naturals

CONSTANT MaxRetries             \* defaultMaxRetries: 3

ASSUME RetriesAssumption == MaxRetries \in Nat

VARIABLES
  request,                      \* where the call is
  ctxDone                       \* the context of the call is cancelled

providerVars == <<request, ctxDone>>

NoRequest == [phase |-> "idle", attempt |-> 0, result |-> "none"]
NewRequest == [NoRequest EXCEPT !.phase = "attempt"]
Ended(result) == [request EXCEPT !.phase = "ended", !.result = result]

Requests ==
  [phase : {"idle", "attempt", "sent", "backoff", "ended"}, attempt : 0 .. MaxRetries + 1,
   result : {"none", "answer", "error"}]

\* An attempt begins, unless there have been enough of them or the context is done.
Send ==
  /\ request.phase = "attempt"
  /\ request' = IF ctxDone \/ request.attempt > MaxRetries THEN Ended("error")
                ELSE [request EXCEPT !.phase = "sent"]
  /\ UNCHANGED ctxDone

Answer ==
  /\ request.phase = "sent"
  /\ request' = Ended("answer")
  /\ UNCHANGED ctxDone

\* A cancelled request is no error to retry.
FailForGood ==
  /\ request.phase = "sent"
  /\ request' = Ended("error")
  /\ UNCHANGED ctxDone

\* There is no delay after the last attempt.
FailForNow ==
  /\ request.phase = "sent"
  /\ request' = IF request.attempt < MaxRetries THEN [request EXCEPT !.phase = "backoff"]
                ELSE [request EXCEPT !.phase = "attempt", !.attempt = @ + 1]
  /\ UNCHANGED ctxDone

BackoffEnds ==
  /\ request.phase = "backoff"
  /\ request' = [request EXCEPT !.phase = "attempt", !.attempt = @ + 1]
  /\ UNCHANGED ctxDone

BackoffCancelled ==
  /\ request.phase = "backoff" /\ ctxDone
  /\ request' = Ended("error")
  /\ UNCHANGED ctxDone

Provider ==
  Send \/ Answer \/ FailForGood \/ FailForNow \/ BackoffEnds \/ BackoffCancelled
=============================================================================

-------------------------- MODULE AIAdjusterProofs --------------------------
(***************************************************************************)
(* Theorems about AIAdjuster, for every provider, every number of retries  *)
(* and every sequence of samples and answers.                              *)
(***************************************************************************)
EXTENDS AIAdjuster, TLAPS

-----------------------------------------------------------------------------
(* The breaker. *)

\* The mutex is held from the request to the end of it, and no goroutine that closes the
\* breaker sleeps then; where one sleeps it is the only one, and the breaker is open.
BreakerInv ==
  /\ resets \in Seq(Nat)
  /\ request.phase # "idle" <=> Locked
  /\ request = [phase |-> request.phase, attempt |-> request.attempt, result |-> request.result]
  /\ Locked => resets = << >>
  /\ resets # << >> => Len(resets) = 1 /\ circuitOpen
  /\ failureCount \in Nat

\* A goroutine that measures keeps the index that its adjustment has in the history.
OwnMeasure(m) ==
  /\ m = [index |-> m.index, of |-> m.of, left |-> m.left]
  /\ m.index = m.of /\ m.of \in 1 .. QueueCap

\* The pipeline's channel holds as many updates as there were adjustments: nothing takes
\* one.  The history has them all, up to the one that is applied right now.
HistoryInv ==
  /\ queued \in 0 .. QueueCap /\ count = queued
  /\ pc \in {"record", "persist"} => count > 0
  /\ history \in Seq(Nat)
  /\ Len(history) = IF pc = "record" THEN count - 1 ELSE count
  /\ \A i \in 1 .. Len(history) : history[i] = i
  /\ \A m \in measures : OwnMeasure(m)
  /\ rows \in [1 .. QueueCap -> Int]
  /\ EffectOfOwnAdjustment


-----------------------------------------------------------------------------

LEMMA BreakerInit == Init => BreakerInv
BY DEF Init, BreakerInv, NoRequest, Locked

\* The only goroutine that sleeps is gone when it has closed the breaker.
LEMMA RemoveOnly ==
  ASSUME NEW s \in Seq(Nat), Len(s) = 1, NEW i \in DOMAIN s
  PROVE  RemoveAt(s, i) = << >>
<1>1. i = 1
  OBVIOUS
<1> QED BY <1>1 DEF RemoveAt

LEMMA BreakerStep == BreakerInv /\ [Next]_vars => BreakerInv'
<1> SUFFICES ASSUME BreakerInv, [Next]_vars PROVE BreakerInv'
  OBVIOUS
<1> USE DEF Locked
<1>1. CASE \/ EvaluateRefused \/ EvaluateCached \/ ApplyDecision \/ Tick
           \/ (\E s \in Samples : Collect(s)) \/ (\E m \in measures : MeasureEffect(m))
           \/ CancelMonitor \/ StopLoop
  <2>1. CASE ~Tick
    BY <1>1, <2>1 DEF BreakerInv, EvaluateRefused, EvaluateCached, ApplyDecision,
       TakeTick, ApplyNothing, UpdateConfig, RecordAdjustment, PersistAdjustment, Collect,
       MeasureEffect, CancelMonitor, StopLoop, providerVars, breakerVars, loopVars
  <2>2. CASE Tick
    <3>1. UNCHANGED <<pc, request, circuitOpen, failureCount>>
      BY <2>2 DEF Tick, providerVars
    <3>2. resets' \in Seq(Nat) /\ Len(resets') = Len(resets)
      BY <2>2 DEF Tick, BreakerInv, Sleep
    <3>3. resets = << >> => resets' = << >>
      BY <3>2
    <3>4. resets' # << >> => resets # << >>
      BY <3>3
    <3> QED BY <3>1, <3>2, <3>3, <3>4 DEF BreakerInv
  <2> QED BY <2>1, <2>2
<1>2. CASE EvaluateAsks
  <2>1. /\ ~circuitOpen /\ pc' = "calling" /\ request' = NewRequest
        /\ UNCHANGED breakerVars
    BY <1>2 DEF EvaluateAsks
  <2>2. resets = << >>
    BY <2>1 DEF BreakerInv
  <2> QED BY <2>1, <2>2 DEF BreakerInv, NewRequest, NoRequest, breakerVars
<1>3. CASE ProviderStep
  <2>1. request'.phase # "idle" /\ request.phase # "idle"
    BY <1>3 DEF ProviderStep, Provider, Send, Answer, FailForGood, FailForNow, BackoffEnds,
       BackoffCancelled, Ended, BreakerInv
  <2>2. request' = [phase |-> request'.phase, attempt |-> request'.attempt,
                    result |-> request'.result]
    BY <1>3 DEF ProviderStep, Provider, Send, Answer, FailForGood, FailForNow, BackoffEnds,
       BackoffCancelled, Ended, BreakerInv
  <2> QED BY <1>3, <2>1, <2>2 DEF ProviderStep, breakerVars, loopVars, BreakerInv
<1>4. CASE EvaluateFails
  <2>1. resets = << >> /\ failureCount' \in Nat
    BY <1>4 DEF EvaluateFails, RecordFailure, BreakerInv
  <2>2. pc' = "apply" /\ request' = NoRequest
    BY <1>4 DEF EvaluateFails
  <2>3. \/ resets' = Append(resets, ResetTimeout) /\ circuitOpen'
        \/ resets' = resets
    BY <1>4 DEF EvaluateFails, RecordFailure
  <2>4. ResetTimeout \in Nat
    BY AdjusterAssumption
  <2>5. Append(resets, ResetTimeout) \in Seq(Nat) /\ Len(Append(resets, ResetTimeout)) = 1
    BY <2>1, <2>4
  <2> QED BY <2>1, <2>2, <2>3, <2>5 DEF BreakerInv, NoRequest
<1>5. CASE \E d \in Answers : EvaluateAnswered(d)
  BY <1>5 DEF EvaluateAnswered, BreakerInv, NoRequest
<1>6. CASE \E i \in DOMAIN resets : ResetBreaker(i)
  <2>1. PICK i \in DOMAIN resets : ResetBreaker(i)
    BY <1>6
  <2>2. resets # << >> /\ resets \in Seq(Nat)
    BY <2>1 DEF BreakerInv
  <2>3. resets' = << >>
    BY <2>1, <2>2, RemoveOnly DEF ResetBreaker, BreakerInv
  <2> QED BY <2>1, <2>3 DEF ResetBreaker, BreakerInv, providerVars, loopVars
<1>7. CASE UNCHANGED vars
  BY <1>7 DEF vars, BreakerInv, providerVars, breakerVars, loopVars
<1> QED BY <1>1, <1>2, <1>3, <1>4, <1>5, <1>6, <1>7 DEF Next, Evaluate

\* After the failure that opens the breaker (ai_adjuster.go recordFailure), the language
\* model is not asked before the breaker's timeout has passed: while a request is under way,
\* retries included, no goroutine that would close the breaker sleeps.
THEOREM BreakerTimeoutWhole == Spec => []AskedWithoutTimer
<1>1. BreakerInv => AskedWithoutTimer
  BY DEF BreakerInv, AskedWithoutTimer
<1> QED BY <1>1, BreakerInit, BreakerStep, PTL DEF Spec

-----------------------------------------------------------------------------
(* The history. *)

LEMMA HistoryInit == Init => HistoryInv
BY AdjusterAssumption
   DEF Init, HistoryInv, EffectOfOwnAdjustment, NoRow, None

\* The array of the history is never trimmed while it has room for all that the channel
\* of the pipeline takes: what is measured is stored with its own adjustment.
LEMMA HistoryStep ==
  ASSUME QueueCap <= MaxHistory
  PROVE  HistoryInv /\ [Next]_vars => HistoryInv'
<1> SUFFICES ASSUME HistoryInv, [Next]_vars PROVE HistoryInv'
  OBVIOUS
<1>c. QueueCap \in Nat /\ MaxHistory \in Nat
  BY AdjusterAssumption
<1>1. CASE \/ Evaluate \/ ProviderStep \/ (\E s \in Samples : Collect(s)) \/ CancelMonitor
           \/ StopLoop \/ ApplyNothing \/ (\E i \in DOMAIN resets : ResetBreaker(i))
           \/ UNCHANGED vars
  <2>1. UNCHANGED historyVars
    BY <1>1 DEF Evaluate, EvaluateRefused, EvaluateCached, EvaluateAsks, EvaluateFails,
       EvaluateAnswered, ProviderStep, Collect, CancelMonitor, StopLoop, ApplyNothing,
       ResetBreaker, vars
  <2>2. /\ pc' = pc \/ pc' \in {"select", "apply", "calling", "stopped"}
        /\ pc' = pc \/ pc # "record"
    BY <1>1 DEF Evaluate, EvaluateRefused, EvaluateCached, EvaluateAsks, EvaluateFails,
       EvaluateAnswered, ProviderStep, Collect, CancelMonitor, StopLoop, ApplyNothing,
       ResetBreaker, TakeTick, vars, loopVars
  <2> QED BY <2>1, <2>2 DEF HistoryInv, historyVars, EffectOfOwnAdjustment
<1>2. CASE UpdateConfig
  BY <1>2, <1>c DEF UpdateConfig, HistoryInv, EffectOfOwnAdjustment
<1>3. CASE RecordAdjustment
  <2>1. /\ pc = "record" /\ pc' = "persist"
        /\ UNCHANGED <<rows, queued, count, measures>>
        /\ history' = IF Len(Append(history, count)) > MaxHistory
                      THEN Tail(Append(history, count)) ELSE Append(history, count)
    BY <1>3 DEF RecordAdjustment, AppendToHistory
  <2>2. count \in Nat /\ count <= QueueCap /\ count > 0
    BY <1>c, <2>1 DEF HistoryInv
  <2>3. /\ Append(history, count) \in Seq(Nat)
        /\ Len(Append(history, count)) = count
        /\ \A i \in 1 .. count : Append(history, count)[i] = i
    BY <2>1, <2>2 DEF HistoryInv
  <2>4. history' = Append(history, count)
    BY <1>c, <2>1, <2>2, <2>3
  <2> QED BY <2>1, <2>2, <2>3, <2>4 DEF HistoryInv, EffectOfOwnAdjustment
<1>4. CASE PersistAdjustment
  <2>1. /\ pc = "persist" /\ pc' = "select"
        /\ UNCHANGED <<queued, count, history>>
        /\ rows' = [rows EXCEPT ![count] = None]
        /\ measures' = measures \cup {[index |-> Len(history), of |-> count, left |-> MeasureDelay]}
    BY <1>4 DEF PersistAdjustment, SaveAIAdjustment
  <2>2. count \in 1 .. QueueCap /\ Len(history) = count
    BY <1>c, <2>1 DEF HistoryInv
  <2>3. \A m \in measures' : OwnMeasure(m)
    BY <2>1, <2>2 DEF HistoryInv, OwnMeasure
  <2>4. rows' \in [1 .. QueueCap -> Int] /\ EffectOfOwnAdjustment'
    BY <2>1, <2>2 DEF HistoryInv, EffectOfOwnAdjustment, None
  <2> QED BY <2>1, <2>2, <2>3, <2>4 DEF HistoryInv
<1>5. CASE \E m \in measures : MeasureEffect(m)
  <2>1. PICK m \in measures : MeasureEffect(m)
    BY <1>5
  <2>2. /\ UNCHANGED <<pc, queued, count, history>>
        /\ measures' = measures \ {m}
        /\ \/ rows' = rows
           \/ m.index \in DOMAIN history /\ rows' = [rows EXCEPT ![history[m.index]] = m.of]
    BY <2>1 DEF MeasureEffect, SaveAIAdjustment, loopVars
  <2>3. m.index = m.of /\ m.of \in 1 .. QueueCap
    BY DEF HistoryInv, OwnMeasure
  <2>4. m.index \in DOMAIN history => history[m.index] = m.of
    BY <2>3 DEF HistoryInv
  <2>5. rows' = rows \/ rows' = [rows EXCEPT ![m.of] = m.of]
    BY <2>2, <2>4
  <2>6. rows' \in [1 .. QueueCap -> Int] /\ EffectOfOwnAdjustment'
    <3>1. rows \in [1 .. QueueCap -> Int] /\ \A n \in 1 .. QueueCap : rows[n] \in {NoRow, None, n}
      BY DEF HistoryInv, EffectOfOwnAdjustment
    <3>2. rows' \in [1 .. QueueCap -> Int]
      BY <2>3, <2>5, <3>1
    <3>3. \A n \in 1 .. QueueCap : rows'[n] = rows[n] \/ rows'[n] = n
      BY <2>3, <2>5, <3>1
    <3> QED BY <3>1, <3>2, <3>3 DEF EffectOfOwnAdjustment
  <2> QED BY <2>2, <2>6 DEF HistoryInv
<1>6. CASE Tick
  <2>1. /\ UNCHANGED <<rows, pc, queued, count, history>>
        /\ measures' = {[m EXCEPT !.left = Sleep(@)] : m \in measures}
    BY <1>6 DEF Tick
  <2>2. \A m \in measures' : OwnMeasure(m)
    BY <2>1 DEF HistoryInv, OwnMeasure
  <2> QED BY <2>1, <2>2 DEF HistoryInv, EffectOfOwnAdjustment
<1> QED BY <1>1, <1>2, <1>3, <1>4, <1>5, <1>6 DEF Next, ApplyDecision

\* What the goroutine of ApplyDecision (ai_adjuster.go measureAdjustmentEffect) stores is kept
\* with the adjustment that it measured, for the index that it keeps is still its own. That
\* is so because the history, of 10 records, has room for all the updates that the
\* pipeline's channel, of 10 as well, ever takes.
THEOREM EffectKeptWithItsOwn ==
  ASSUME QueueCap <= MaxHistory
  PROVE  Spec => []EffectOfOwnAdjustment
<1>1. HistoryInv => EffectOfOwnAdjustment
  BY DEF HistoryInv
<1>2. HistoryInv /\ [Next]_vars => HistoryInv'
  BY HistoryStep
<1> QED BY <1>1, <1>2, HistoryInit, PTL DEF Spec
=============================================================================

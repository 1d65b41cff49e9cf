----------------------------- MODULE AIAdjuster -----------------------------
(***************************************************************************)
(* The AI monitor of a migration: the loops of AIMonitor and of its        *)
(* MetricsCollector, AIAdjuster with its circuit breaker, its cache of     *)
(* decisions and its history, and the table ai_adjustments.                *)
(*                                                                         *)
(* Time goes in steps of the evaluation interval.  The pipeline is the     *)
(* placeholder that TransferRunner.Run makes, which no job executes:       *)
(* nothing takes its updates, of which only the number matters, and its    *)
(* configuration stays as it is.  An adjustment is its number in the       *)
(* process; of what is recorded of it, the model keeps which one it is     *)
(* from.  The monitor is that of one process.                              *)
(*                                                                         *)
(* The slice of the history is read by one goroutine while another appends *)
(* to it without the mutex; it is made with room for MaxHistory records,   *)
(* so that its array stays and a reader finds its record.                  *)
(***************************************************************************)
EXTENDS AIProvider, Integers, Sequences, SequencesExt, FiniteSets

CONSTANTS
  Answers,                      \* the decisions the AI gives
  Samples,                      \* what collectSnapshot measures
  CPUCores, MaxSource, MaxTarget,
  FailureThreshold,             \* 3
  MaxHistory, QueueCap,         \* maxHistorySize and the capacity of configUpdates: 10
  CallInterval, CacheDuration,  \* 30 and 60 seconds
  ResetTimeout, MeasureDelay    \* 5 minutes and 30 seconds

ASSUME AdjusterAssumption ==
  /\ \A c \in {FailureThreshold, MaxHistory, QueueCap, ResetTimeout, MeasureDelay} :
       c \in Nat \ {0}
  /\ CallInterval \in Nat /\ CacheDuration \in Nat /\ CallInterval <= CacheDuration

VARIABLES
  rows,                         \* ai_adjustments of the run: whose effect each row has
  pc, decision,                 \* where evaluateAndAdjust is, and what it applies
  ticked,                       \* the channel of the monitor's ticker
  metrics, baseline,            \* the last samples; the sum of three throughputs
  failureCount, circuitOpen,
  resets,                       \* the goroutines that close the breaker: what they have to sleep
  cached, sinceCall,            \* cachedDecision, and the age of lastAICall
  queued,                       \* how many updates the pipeline's channel holds
  count, history,               \* adjustmentCount, adjustmentHistory
  measures                      \* the goroutines that measure an effect

breakerVars == <<failureCount, circuitOpen, resets>>
metricVars == <<metrics, baseline>>
cacheVars == <<cached, sinceCall>>
historyVars == <<rows, queued, count, history, measures>>
loopVars == <<pc, decision, ticked>>
vars == <<providerVars, breakerVars, metricVars, cacheVars, historyVars, loopVars>>

None == 0                       \* no adjustment
NoBaseline == -1
Continue == [action |-> "continue", adjustments |-> << >>]
NoRow == -1
NoDecision == [action |-> "", adjustments |-> << >>]

\* The configuration of pipeline.New(nil, nil, pipeline.Config{}).
Config == [chunkSize |-> 10000, writeAheadWriters |-> 1]

MinOf(a, b) == IF a < b THEN a ELSE b
Locked == pc = "calling"        \* adjustmentsMu is held while the AI is asked

(***************************************************************************)
(* The rules.                                                              *)
(***************************************************************************)

MaxWorkers ==
  LET cores == IF MaxTarget > 0 THEN MinOf(CPUCores, MaxTarget) ELSE CPUCores
  IN IF cores < 1 THEN 16 ELSE cores

SafeRange(param) ==
  CASE param = "chunk_size" -> 1000 .. 500000
    [] param = "workers" -> 1 .. MaxWorkers
    [] param = "parallel_readers" -> 1 .. (IF MaxSource > 0 THEN MinOf(4, MaxSource) ELSE 4)
    [] param = "read_ahead_buffers" -> 2 .. 32
    [] param = "checkpoint_frequency" -> 1 .. 100
    [] param = "upsert_merge_chunk_size" -> 1000 .. 50000
    [] OTHER -> {}

Valid(d) == \A p \in DOMAIN d.adjustments : d.adjustments[p] \in SafeRange(p)

Latest == metrics[Len(metrics)]
Trends ==
  [declining |-> /\ metrics[1].throughput > 0 /\ Latest.throughput > 0
                 /\ 5 * (metrics[1].throughput - Latest.throughput) > metrics[1].throughput,
   cpu |-> Latest.cpu > 90,
   memory |-> Latest.memory > 85]

\* Within 10% of the baseline, which is a third of a sum.
NearBaseline(sum) ==
  sum > 0 /\ 30 * Latest.throughput >= 9 * sum /\ 30 * Latest.throughput <= 11 * sum

Adjust(action, param, value) == [action |-> action, adjustments |-> [p \in {param} |-> value]]

FallbackRules ==
  IF Len(metrics) < 3 \/ NearBaseline(baseline) THEN Continue
  ELSE IF Trends.memory
  THEN LET smaller == IF Config.chunkSize \div 2 < 5000 THEN 5000 ELSE Config.chunkSize \div 2
       IN IF smaller = Config.chunkSize THEN Continue
          ELSE Adjust("reduce_chunk", "chunk_size", smaller)
  ELSE IF Trends.cpu
  THEN IF Config.writeAheadWriters <= 1 THEN Continue
       ELSE Adjust("scale_down", "workers", Config.writeAheadWriters - 1)
  ELSE IF Trends.declining /\ Config.writeAheadWriters < (IF CPUCores < 1 THEN 16 ELSE CPUCores)
  THEN Adjust("scale_up", "workers", Config.writeAheadWriters + 1)
  ELSE Continue

(***************************************************************************)
(* MetricsCollector.                                                       *)
(***************************************************************************)

\* The collector's own ticker is not modelled: a sample may come early, late or not at all.
Collect(s) ==
  /\ ~ctxDone
  /\ metrics' = IF Len(metrics) = 3 THEN Append(Tail(metrics), s) ELSE Append(metrics, s)
  /\ UNCHANGED <<baseline, providerVars, breakerVars, cacheVars, historyVars, loopVars>>

CaptureBaseline ==
  baseline' = IF baseline = NoBaseline /\ Len(metrics) = 3
              THEN metrics[1].throughput + metrics[2].throughput + metrics[3].throughput
              ELSE baseline

(***************************************************************************)
(* Evaluate.                                                               *)
(***************************************************************************)

TakeTick ==
  /\ pc = "select" /\ ticked
  /\ ticked' = FALSE
  /\ CaptureBaseline

UseCache == cached # NoDecision /\ sinceCall < CacheDuration

EvaluateRefused ==
  /\ TakeTick
  /\ circuitOpen \/ (~UseCache /\ sinceCall < CallInterval)
  /\ UNCHANGED <<pc, decision, metrics, providerVars, breakerVars, cacheVars,
                 historyVars>>

EvaluateCached ==
  /\ TakeTick
  /\ ~circuitOpen /\ UseCache
  /\ pc' = "apply"
  /\ decision' = cached
  /\ UNCHANGED <<metrics, providerVars, breakerVars, cacheVars, historyVars>>

EvaluateAsks ==
  /\ TakeTick
  /\ ~circuitOpen /\ ~UseCache /\ sinceCall >= CallInterval
  /\ pc' = "calling"
  /\ request' = NewRequest
  /\ UNCHANGED <<decision, metrics, ctxDone, breakerVars, cacheVars, historyVars>>

ProviderStep ==
  /\ Provider
  /\ UNCHANGED <<metricVars, breakerVars, cacheVars, historyVars, loopVars>>

\* Each failure starts a goroutine that closes the breaker.
RecordFailureAlwaysSchedules ==
  /\ failureCount' = failureCount + 1
  /\ circuitOpen' = (failureCount' >= FailureThreshold)
  /\ resets' = Append(resets, ResetTimeout)

\* The goroutine is started only by the failure after the one that opens the breaker.
RecordFailureSchedulesLate ==
  /\ failureCount' = failureCount + 1
  /\ circuitOpen' = (failureCount' >= FailureThreshold)
  /\ resets' = IF failureCount' > FailureThreshold THEN Append(resets, ResetTimeout) ELSE resets

RecordFailure ==
  /\ failureCount' = failureCount + 1
  /\ IF failureCount' >= FailureThreshold
     THEN circuitOpen' = TRUE /\ resets' = Append(resets, ResetTimeout)
     ELSE UNCHANGED <<circuitOpen, resets>>

\* No answer, or one that parseDecision refuses.
EvaluateFails ==
  /\ pc = "calling" /\ request.phase = "ended"
  /\ request' = NoRequest
  /\ RecordFailure
  /\ pc' = "apply"
  /\ decision' = FallbackRules
  /\ UNCHANGED <<ticked, ctxDone, metricVars, cacheVars, historyVars>>

EvaluateAnswered(d) ==
  /\ pc = "calling" /\ request.phase = "ended" /\ request.result = "answer"
  /\ request' = NoRequest
  /\ failureCount' = 0
  /\ cached' = d
  /\ sinceCall' = 0
  /\ pc' = "apply"
  /\ decision' = d
  /\ UNCHANGED <<ticked, ctxDone, circuitOpen, resets, metricVars, historyVars>>

\* The goroutine that RecordFailure starts.
ResetBreaker(i) ==
  /\ ~Locked /\ resets[i] = 0
  /\ resets' = RemoveAt(resets, i)
  /\ circuitOpen' = FALSE
  /\ failureCount' = 0
  /\ cached' = NoDecision
  /\ UNCHANGED <<sinceCall, providerVars, metricVars, historyVars, loopVars>>

(***************************************************************************)
(* ApplyDecision, which takes no mutex.                                    *)
(***************************************************************************)

AppliesNothing ==
  decision.action = "continue" \/ DOMAIN decision.adjustments = {} \/ ~Valid(decision)

ApplyNothing ==
  /\ pc = "apply"
  /\ AppliesNothing \/ queued = QueueCap
  /\ pc' = "select"
  /\ decision' = NoDecision
  /\ UNCHANGED <<ticked, providerVars, breakerVars, metricVars, cacheVars, historyVars>>

UpdateConfig ==
  /\ pc = "apply" /\ ~AppliesNothing /\ queued < QueueCap
  /\ queued' = queued + 1
  /\ count' = count + 1
  /\ pc' = "record"
  /\ UNCHANGED <<decision, ticked, rows, history, measures, providerVars, breakerVars,
                 metricVars, cacheVars>>

\* The history is trimmed when it is full, rather than when it is longer than that.
AppendToFullHistory ==
  history' = IF Len(history) + 1 >= MaxHistory THEN Tail(Append(history, count))
             ELSE Append(history, count)

AppendToHistory ==
  history' = LET longer == Append(history, count)
             IN IF Len(longer) > MaxHistory THEN Tail(longer) ELSE longer

RecordAdjustment ==
  /\ pc = "record"
  /\ AppendToHistory
  /\ pc' = "persist"
  /\ UNCHANGED <<decision, ticked, rows, queued, count, measures, providerVars, breakerVars,
                 metricVars, cacheVars>>

\* INSERT ... ON CONFLICT(run_id, adjustment_number) DO UPDATE SET throughput_after = ...
SaveAIAdjustment(id, effectOf) ==
  rows' = [rows EXCEPT ![id] = effectOf]

PersistAdjustment ==
  /\ pc = "persist"
  /\ SaveAIAdjustment(count, None)
  /\ measures' = measures \cup {[index |-> Len(history), of |-> count, left |-> MeasureDelay]}
  /\ pc' = "select"
  /\ decision' = NoDecision
  /\ UNCHANGED <<ticked, queued, count, history, providerVars, breakerVars, metricVars,
                 cacheVars>>

MeasureEffect(m) ==
  /\ ~Locked /\ m.left = 0
  /\ measures' = measures \ {m}
  /\ IF m.index \in DOMAIN history /\ metrics # << >>
     THEN SaveAIAdjustment(history[m.index], m.of)
     ELSE UNCHANGED rows
  /\ UNCHANGED <<queued, count, history, providerVars, breakerVars, metricVars, cacheVars,
                 loopVars>>

(***************************************************************************)
(* The monitor, time and the process.                                      *)
(***************************************************************************)

Sleep(left) == IF left = 0 THEN 0 ELSE left - 1

\* A ticker drops a tick that nobody has taken.  Time goes on while a goroutine is late.
Tick ==
  /\ ticked' = (pc # "stopped")
  /\ sinceCall' = MinOf(sinceCall + 1, CacheDuration)
  /\ resets' = [i \in DOMAIN resets |-> Sleep(resets[i])]
  /\ measures' = {[m EXCEPT !.left = Sleep(@)] : m \in measures}
  /\ UNCHANGED <<rows, pc, decision, metrics, baseline, failureCount, circuitOpen,
                 cached, queued, count, history, providerVars>>

\* The transfer ends or is interrupted: cancelMonitor.
CancelMonitor ==
  /\ ~ctxDone
  /\ ctxDone' = TRUE
  /\ UNCHANGED <<request, breakerVars, metricVars, cacheVars, historyVars, loopVars>>

\* A break that leaves the select and not the loop.
StopLoopBreaks ==
  /\ pc = "select" /\ ctxDone
  /\ UNCHANGED vars

StopLoop ==
  /\ pc = "select" /\ ctxDone
  /\ pc' = "stopped"
  /\ UNCHANGED <<decision, ticked, providerVars, breakerVars, metricVars, cacheVars,
                 historyVars>>

Init ==
  /\ rows = [n \in 1 .. QueueCap |-> NoRow]
  /\ pc = "select" /\ decision = NoDecision
  /\ ticked = FALSE
  /\ metrics = << >> /\ baseline = NoBaseline
  /\ failureCount = 0 /\ circuitOpen = FALSE /\ resets = << >>
  /\ cached = NoDecision /\ sinceCall = CacheDuration
  /\ queued = 0 /\ count = 0 /\ history = << >> /\ measures = {}
  /\ request = NoRequest /\ ctxDone = FALSE

Evaluate ==
  \/ EvaluateRefused \/ EvaluateCached \/ EvaluateAsks
  \/ EvaluateFails \/ (\E d \in Answers : EvaluateAnswered(d))

ApplyDecision == ApplyNothing \/ UpdateConfig \/ RecordAdjustment \/ PersistAdjustment

Next ==
  \/ Evaluate \/ ProviderStep \/ ApplyDecision
  \/ \E s \in Samples : Collect(s)
  \/ \E i \in DOMAIN resets : ResetBreaker(i)
  \/ \E m \in measures : MeasureEffect(m)
  \/ Tick \/ CancelMonitor \/ StopLoop

Spec == Init /\ [][Next]_vars

\* A request ends by the client's timeout, a sleep ends, and the goroutines that wait for
\* the mutex get it; the select that finds a tick and the end of the context takes the
\* latter some time.
Fairness ==
  /\ WF_vars(Tick) /\ WF_vars(Evaluate) /\ WF_vars(ProviderStep) /\ WF_vars(ApplyDecision)
  /\ SF_vars(\E i \in DOMAIN resets : ResetBreaker(i))
  /\ SF_vars(\E m \in measures : MeasureEffect(m))
  /\ SF_vars(StopLoop)

FairSpec == Spec /\ Fairness

(***************************************************************************)
(* Properties.                                                             *)
(***************************************************************************)

\* The AI is asked only when no goroutine that closes the breaker sleeps: after the last
\* failure the breaker stays open for the whole of its timeout.
AskedWithoutTimer == request.phase # "idle" => resets = << >>

\* An open breaker closes, whatever else goes on: a monitor is never left without the AI.
BreakerCloses == circuitOpen ~> ~circuitOpen

\* The effect stored with an adjustment is the one measured for it: the index that the
\* measuring goroutine keeps has not become another record's.
EffectOfOwnAdjustment == \A n \in DOMAIN rows : rows[n] \in {NoRow, None, n}

\* The monitor ends when the transfer does, from whatever it is doing.
MonitorStops == ctxDone ~> (pc = "stopped")
=============================================================================

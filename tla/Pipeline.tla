------------------------------ MODULE Pipeline ------------------------------
(***************************************************************************)
(* One job of pipeline.Pipeline: Execute with keyset pagination over       *)
(* driver.Reader and driver.Writer, and the configuration updates that it  *)
(* takes while it runs.                                                    *)
(*                                                                         *)
(* A chunk has its rows, its last key, its reader and its place among the  *)
(* chunks of that reader.  The batches of a reader are those of            *)
(* PostgresReader; the writers are those of WriterPool, which Execute      *)
(* scales between two chunks.                                              *)
(***************************************************************************)
EXTENDS WriterPool, PKRange

CONSTANTS
  SourcePKs,        \* the keys of the source table, unchanged during the job
  Partitioned,      \* whether the job is one partition of the table
  MinPK, MaxPK,     \* its bounds, or those of the table
  Upsert,           \* TargetMode is "upsert"
  ParallelReaders, ChunkSize, CheckpointFrequency, ReadAheadBuffers,
  Updates,          \* the values of WriteAheadWriters in updates; 0 for nil
  QueueCap,         \* the capacity of configUpdates: 10
  MaxAttempts,      \* bound on the number of times Execute runs
  MaxUpdates,       \* bound on the number of updates
  Faults            \* what the environment may do, a subset of FaultKinds

FaultKinds == {"load", "cleanup", "minmax", "read", "write", "save", "cancel", "crash"}

ASSUME JobAssumption ==
  /\ SourcePKs \subseteq Int64 /\ IsFiniteSet(SourcePKs)
  /\ MinPK \in SourcePKs /\ MaxPK \in SourcePKs /\ MinPK <= MaxPK
  /\ MinPK - 1 \in Int64 /\ MaxPK - MinPK < HalfWidth
  /\ Partitioned \in BOOLEAN /\ Upsert \in BOOLEAN
  /\ ParallelReaders \in Nat \ {0} /\ ChunkSize \in Nat \ {0}
  /\ CheckpointFrequency \in Nat \ {0} /\ ReadAheadBuffers \in Nat \ {0}
  /\ Updates \subseteq Nat /\ QueueCap \in Nat \ {0}
  /\ Faults \subseteq FaultKinds

VARIABLES
  target,           \* the keys in the target
  saved,            \* the key of the task's row of transfer_progress, or NoCheckpoint
  attempt, pc,
  ranges,           \* pkRanges
  left,             \* left[r]: what reader r has yet to send
  chunkChan, inHand, gotChunk, loopErr,
  states,           \* the coordinator's states: one readerCheckpointState for each reader
  draining,         \* the reader whose pending acknowledgements onAck is at, or 0
  completedChunks,
  ctxDone,          \* the caller's context is cancelled
  configUpdates,    \* the queue of updates
  updates           \* how many there have been

durable == <<target, saved, attempt>>
readVars == <<ranges, left, chunkChan>>
ackVars == <<states, draining, completedChunks>>
queueVars == <<configUpdates, updates>>
consVars == <<pc, inHand, gotChunk, loopErr>>
jobVars == <<durable, readVars, ackVars, queueVars, consVars, ctxDone>>
vars == <<jobVars, poolVars>>

R == INSTANCE PostgresReader

NoCheckpoint == -HalfWidth - 1  \* nil, which no key is
NoChunk == [rows |-> {}, lastPK |-> NoCheckpoint, reader |-> 0, seq |-> 0]
ReadError == NoChunk            \* chunkResult.err

Running == {"loop", "submit", "update", "wait"}
Stopped == {"idle", "ok", "failed", "crashed"}
Readers == DOMAIN ranges
JobRows == {k \in SourcePKs : MinPK <= k /\ k <= MaxPK}

-----------------------------------------------------------------------------
(***************************************************************************)
(* Execute, up to the start of its goroutines.                             *)
(***************************************************************************)

\* What GetProgress gives Execute: its error is only logged.
Loaded == {saved} \cup (IF "load" \in Faults THEN {NoCheckpoint} ELSE {})

\* cleanupPartitionData and cleanupPartialData remove nothing.
CleanTarget(loaded) == IF ~Upsert /\ loaded = NoCheckpoint /\ ~Partitioned THEN {} ELSE target

\* A resumed key has lost its integer type in the JSON of the checkpoint.
JobRanges(loaded) ==
  SplitPKRange([isInt |-> loaded = NoCheckpoint,
                val   |-> IF loaded = NoCheckpoint THEN MinPK ELSE loaded],
               [isInt |-> TRUE, val |-> MaxPK], ParallelReaders)

Table == [keys |-> SourcePKs, heap |-> <<>>, changed |-> SourcePKs, kind |-> "int64"]
Key(k) == [kind |-> "int64", val |-> k]

\* The chunks that the goroutine of reader r makes of the batches of ReadTable.
ChunksOf(rs, r) ==
  LET part == [minPK |-> Key(rs[r].minPK), maxPK |-> Key(rs[r].maxPK), startRow |-> 0, endRow |-> 0]
      batches == R!ReadTable(Table, part, FALSE, ChunkSize, Cardinality(SourcePKs)).batches
  IN [i \in DOMAIN batches |->
        [rows |-> {batches[i][j] : j \in DOMAIN batches[i]},
         lastPK |-> batches[i][Len(batches[i])], reader |-> r, seq |-> i - 1]]

\* newKeysetCheckpointCoordinator
NewStates(rs) ==
  [r \in DOMAIN rs |-> [lastPK |-> rs[r].minPK, complete |-> rs[r].minPK >= rs[r].maxPK,
                        nextSeq |-> 0, pending |-> {}]]

StartJob(rs, chunks, p) ==
  /\ ranges' = rs /\ left' = chunks
  /\ chunkChan' = <<>> /\ inHand' = NoChunk /\ gotChunk' = FALSE /\ loopErr' = FALSE
  /\ states' = NewStates(rs) /\ draining' = 0 /\ completedChunks' = 0
  /\ ctxDone' = FALSE
  /\ StartPool(p)

StartReaders(rs) ==
  pc' = "loop" /\ StartJob(rs, [r \in DOMAIN rs |-> ChunksOf(rs, r)], NewPool)

\* GetPartitionBoundaries fails: Execute takes the table for empty, and returns nil.
TakenForEmpty ==
  /\ "minmax" \in Faults /\ ~Partitioned
  /\ pc' = "ok" /\ StartJob(<<>>, <<>>, NoPool)

\* The error of the truncation is ignored as well.
Execute ==
  /\ pc \in Stopped /\ attempt < MaxAttempts
  /\ attempt' = attempt + 1
  /\ \E loaded \in Loaded :
       /\ \/ target' = CleanTarget(loaded)
          \/ "cleanup" \in Faults /\ UNCHANGED target
       /\ StartReaders(JobRanges(loaded)) \/ TakenForEmpty
  /\ UNCHANGED <<saved, queueVars>>

-----------------------------------------------------------------------------
(***************************************************************************)
(* Readers and consumer.                                                   *)
(***************************************************************************)

ReadFails(r) ==
  /\ left[r] \notin {<<>>, <<ReadError>>}
  /\ ctxDone \/ "read" \in Faults
  /\ left' = [left EXCEPT ![r] = <<ReadError>>]
  /\ UNCHANGED <<durable, ranges, chunkChan, ackVars, queueVars, consVars, ctxDone, poolVars>>

\* Sends block until the channel has room, whatever becomes of the context.
Send(r) ==
  /\ left[r] # <<>> /\ Len(chunkChan) < ReadAheadBuffers
  /\ chunkChan' = Append(chunkChan, Head(left[r]))
  /\ left' = [left EXCEPT ![r] = Tail(@)]
  /\ UNCHANGED <<durable, ranges, ackVars, queueVars, consVars, ctxDone, poolVars>>

ReaderStep(r) == ReadFails(r) \/ Send(r)

Receive ==
  /\ pc = "loop" /\ chunkChan # <<>>
  /\ chunkChan' = Tail(chunkChan)
  /\ IF Head(chunkChan) = ReadError
     THEN pc' = "wait" /\ loopErr' = TRUE /\ UNCHANGED <<inHand, gotChunk>> /\ CancelPool
     ELSE pc' = "submit" /\ inHand' = Head(chunkChan) /\ gotChunk' = TRUE
          /\ UNCHANGED <<loopErr, poolVars>>
  /\ UNCHANGED <<durable, ranges, left, ackVars, queueVars, ctxDone>>

\* chunkChan is closed when every reader is done.
ChunksEnd ==
  /\ pc = "loop" /\ chunkChan = <<>> /\ \A r \in Readers : left[r] = <<>>
  /\ pc' = "wait"
  /\ UNCHANGED <<durable, readVars, ackVars, queueVars, inHand, gotChunk, loopErr, ctxDone, poolVars>>

Submit ==
  /\ pc = "submit"
  /\ \/ SubmitTaken(inHand) /\ pc' = "update" /\ UNCHANGED loopErr
     \/ SubmitRefused /\ pc' = "wait" /\ loopErr' = (writeErr \/ ctxDone)
  /\ inHand' = NoChunk
  /\ UNCHANGED <<durable, readVars, ackVars, queueVars, gotChunk, ctxDone>>

\* At most one update is taken after a chunk; of its fields only WriteAheadWriters counts.
TakeUpdate ==
  /\ pc = "update" /\ pc' = "loop"
  /\ IF configUpdates = <<>> THEN UNCHANGED <<configUpdates, poolVars>>
     ELSE /\ configUpdates' = Tail(configUpdates)
          /\ \/ ScaleWorkers(Head(configUpdates))
             \/ ScaleWorkersRefused(Head(configUpdates)) /\ UNCHANGED poolVars
  /\ UNCHANGED <<durable, readVars, ackVars, updates, inHand, gotChunk, loopErr, ctxDone>>

\* Faulty: the reader with the highest keys.
SafeReaderLast(c) == Len(ranges)

\* The first reader that is not complete, or the last one.
SafeReader(c) ==
  CHOOSE i \in Readers : /\ i = Len(ranges) \/ ~c[i].complete
                         /\ \A j \in 1 .. i - 1 : c[j].complete

SaveProgress(c) ==
  \/ saved' = c[SafeReader(c)].lastPK
  \/ "save" \in Faults /\ UNCHANGED saved

Wait ==
  /\ pc = "wait" /\ CloseJobs
  /\ UNCHANGED jobVars

Return ==
  /\ pc = "wait" /\ Drained /\ draining = 0
  /\ IF loopErr \/ writeErr THEN pc' = "failed" /\ UNCHANGED saved
     ELSE pc' = "ok" /\ (IF gotChunk THEN SaveProgress(states) ELSE UNCHANGED saved)
  /\ UNCHANGED <<target, attempt, readVars, ackVars, queueVars, inHand, gotChunk, loopErr,
                 ctxDone, poolVars>>

ConsumerStep == Receive \/ ChunksEnd \/ Submit \/ TakeUpdate \/ Wait \/ Return

-----------------------------------------------------------------------------
(***************************************************************************)
(* Workers, and the checkpoint coordinator in the ack processor.           *)
(***************************************************************************)

DuplicateKey(rows) == ~Upsert /\ rows \cap target # {}

\* executeWrite; an upsert in several calls of UpsertBatch.
Write(g) ==
  /\ worker[g].st = "write" /\ ~DuplicateKey(worker[g].job.rows)
  /\ target' = target \cup worker[g].job.rows
  /\ WriteReturns(g)
  /\ UNCHANGED <<saved, attempt, readVars, ackVars, queueVars, consVars, ctxDone>>

TornPrefixes(rows) == {{n \in rows : n <= k} : k \in rows \cup {MinPK - 1}}

WriteFails(g) ==
  /\ worker[g].st = "write"
  /\ "write" \in Faults \/ poolDone \/ DuplicateKey(worker[g].job.rows)
  /\ \E torn \in TornPrefixes(worker[g].job.rows) : target' = target \cup torn
  /\ WriteReturnsError(g)
  /\ UNCHANGED <<saved, attempt, readVars, ackVars, queueVars, consVars, ctxDone>>

WorkerStep(g) ==
  \/ Write(g) \/ WriteFails(g)
  \/ (TakeJob(g) \/ JobsEnd(g) \/ SendAck(g)) /\ UNCHANGED jobVars

\* applyAck
Applied(a) ==
  [states EXCEPT ![a.reader].lastPK = a.lastPK,
                 ![a.reader].complete = @ \/ a.lastPK >= ranges[a.reader].maxPK]

\* One round of onAck's loop, for the acknowledgement that its reader is due.
AckRound(a) ==
  /\ completedChunks' = completedChunks + 1
  /\ IF completedChunks' % CheckpointFrequency = 0 THEN SaveProgress(Applied(a)) ELSE UNCHANGED saved
  /\ states' = [Applied(a) EXCEPT ![a.reader].nextSeq = a.seq + 1, ![a.reader].pending = @ \ {a}]
  /\ draining' = IF \E b \in states[a.reader].pending : b.seq = a.seq + 1 THEN a.reader ELSE 0

ReceiveAck ==
  /\ draining = 0 /\ TakeAck
  /\ LET a == Head(ackChan)
     IN IF a.seq = states[a.reader].nextSeq THEN AckRound(a)
        ELSE /\ states' = [states EXCEPT ![a.reader].pending = @ \cup {a}]
             /\ UNCHANGED <<saved, draining, completedChunks>>
  /\ UNCHANGED <<target, attempt, readVars, queueVars, consVars, ctxDone>>

DrainPending ==
  /\ draining # 0
  /\ \E a \in states[draining].pending : a.seq = states[draining].nextSeq /\ AckRound(a)
  /\ UNCHANGED <<target, attempt, readVars, queueVars, consVars, ctxDone, poolVars>>

AckStep == ReceiveAck \/ DrainPending

-----------------------------------------------------------------------------
(***************************************************************************)
(* The environment, and the specification.                                 *)
(***************************************************************************)

\* UpdateConfig, when it returns no error; it may come before Execute.
UpdateConfig ==
  /\ updates < MaxUpdates /\ Len(configUpdates) < QueueCap
  /\ \E n \in Updates : configUpdates' = Append(configUpdates, n)
  /\ updates' = updates + 1
  /\ UNCHANGED <<durable, readVars, ackVars, consVars, ctxDone, poolVars>>

Cancel ==
  /\ "cancel" \in Faults /\ pc \in Running /\ ~ctxDone
  /\ ctxDone' = TRUE /\ CancelPool
  /\ UNCHANGED <<durable, readVars, ackVars, queueVars, consVars>>

Crash ==
  /\ "crash" \in Faults /\ pc \in Running
  /\ \E torn \in [{g \in Goroutines : worker[g].st = "write"} -> SUBSET JobRows] :
       /\ \A g \in DOMAIN torn : torn[g] \in TornPrefixes(worker[g].job.rows)
       /\ target' = target \cup UNION {torn[g] : g \in DOMAIN torn}
  /\ pc' = "crashed" /\ configUpdates' = <<>>
  /\ StartJob(<<>>, <<>>, NoPool)
  /\ UNCHANGED <<saved, attempt, updates>>

Terminated == pc \in Stopped /\ attempt = MaxAttempts /\ UNCHANGED vars

Init ==
  /\ target = {} /\ saved = NoCheckpoint /\ attempt = 0 /\ pc = "idle"
  /\ ranges = <<>> /\ left = <<>> /\ chunkChan = <<>>
  /\ inHand = NoChunk /\ gotChunk = FALSE /\ loopErr = FALSE
  /\ states = <<>> /\ draining = 0 /\ completedChunks = 0
  /\ ctxDone = FALSE /\ configUpdates = <<>> /\ updates = 0
  /\ PoolInit

Next ==
  \/ Execute
  \/ \E r \in Readers : ReaderStep(r)
  \/ ConsumerStep
  \/ \E g \in Goroutines : WorkerStep(g)
  \/ AckStep
  \/ UpdateConfig
  \/ Cancel \/ Crash
  \/ Terminated

\* Every goroutine keeps running, and every database call returns.
Spec ==
  /\ Init /\ [][Next]_vars
  /\ \A r \in 1 .. ParallelReaders : WF_vars(r \in Readers /\ ReaderStep(r))
  /\ WF_vars(ConsumerStep) /\ WF_vars(AckStep)
  /\ \A g \in 1 .. MaxGoroutines : WF_vars(g \in Goroutines /\ WorkerStep(g))

-----------------------------------------------------------------------------

\* No table is truncated whose checkpoint could not be loaded.
NoBlindTruncation == "load" \notin Faults \/ Upsert \/ Partitioned

\* However the readers and writers overtake each other, and however the writers are
\* scaled, each row of the job up to the saved key is in the target.  It needs
\* NoBlindTruncation: otherwise the table is emptied, and the checkpoint stays.
CheckpointSafe == saved # NoCheckpoint => \A k \in JobRows : k <= saved => k \in target

\* Execute has taken the table for empty, and read nothing.
ReadNothing == ranges = <<>>

\* When Execute returns no error, all the rows of the job are in the target, unless it read
\* nothing, was cancelled, or one of its workers was taken away: three ways in which the
\* code loses rows.  It needs NoBlindTruncation, too.
SuccessUnlessShrunk ==
  pc = "ok" /\ ~ReadNothing /\ ~ctxDone /\ (\A g \in Goroutines : ~worker[g].cancelled)
    => JobRows \subseteq target

\* Execute returns, though readers, acknowledgements and workers may be left behind.
ExecuteReturns == pc \in Running ~> pc \in Stopped
=============================================================================

--------------------------- MODULE KeysetTransfer ---------------------------
(***************************************************************************)
(* One transfer job of dmt: transfer.Execute with keyset pagination.       *)
(*                                                                         *)
(* Parallel readers page through disjoint key ranges of the source and     *)
(* send chunks to a consumer, which submits them to a pool of writers.     *)
(* Writers acknowledge what they wrote to a checkpoint coordinator, which  *)
(* saves the key up to which the target is known to be complete.  A failed *)
(* attempt is retried, and a crashed or cancelled one resumed, by running  *)
(* Execute again from that checkpoint.                                     *)
(*                                                                         *)
(* A row is identified by its key.  A chunk is identified by the reader    *)
(* that read it and its sequence number: cuts[r] holds the lastPK of every *)
(* chunk reader r has produced, so a chunk's rows and lastPK follow.       *)
(***************************************************************************)
EXTENDS PKRange, FiniteSets

CONSTANTS
  SourcePKs,        \* the keys of the source table, unchanged during the job
  Partitioned,      \* whether the job is one partition of the table
  MinPK, MaxPK,     \* the partition's bounds, or SELECT MIN(pk), MAX(pk)
  Upsert,           \* target_mode: upsert, rather than drop_recreate
  ParallelReaders,  \* parallel_readers, at least 1 after defaulting
  Workers,          \* the writers: write_ahead_writers of them
  ChunkSize,        \* chunk_size
  CheckpointFreq,   \* checkpoint_frequency, after defaulting
  ChunkBuf, JobBuf, AckBuf,  \* capacities of chunkChan, jobChan and ackChan
  NoCheckpoint,     \* no transfer_progress for the task
  MaxAttempts,      \* bound on the number of times Execute runs
  Faults            \* what the environment may do, a subset of FaultKinds

FaultKinds == {"minmax", "load", "cleanup", "read", "write", "save", "cancel", "crash"}

Checkpoint == [lastPK : Int64, rowsDone : Nat]

ASSUME RowsAssumption ==
  /\ SourcePKs \subseteq Int64 /\ IsFiniteSet(SourcePKs)
  /\ MinPK \in SourcePKs /\ MaxPK \in SourcePKs
  /\ MinPK <= MaxPK /\ Wrap(MinPK - 1) = MinPK - 1
  /\ MaxPK - MinPK < HalfWidth
  /\ ~Partitioned => \A p \in SourcePKs : MinPK <= p /\ p <= MaxPK

ASSUME ConfigAssumption ==
  /\ Partitioned \in BOOLEAN /\ Upsert \in BOOLEAN
  /\ ParallelReaders \in Nat \ {0} /\ Workers # {}
  /\ ChunkSize \in Nat \ {0} /\ CheckpointFreq \in Nat \ {0}
  /\ ChunkBuf \in Nat \ {0} /\ JobBuf \in Nat \ {0} /\ AckBuf \in Nat \ {0}
  /\ NoCheckpoint \notin Checkpoint \cup Int
  /\ MaxAttempts \in Nat /\ Faults \subseteq FaultKinds

VARIABLES
  target,           \* keys of the target's rows (upsert: of its up-to-date rows)
  saved,            \* the task's row of transfer_progress
  attempt,          \* how many times Execute has started
  pc,               \* where Execute's goroutine is
  ranges,           \* pkRanges of this attempt, one per reader
  cuts,             \* cuts[r]: lastPK of each chunk reader r has read
  reader,           \* reader[r]: where the reader goroutine is
  chunkChan,        \* chunks and errors, from readers to the consumer
  inHand,           \* the chunk the consumer has received and must submit
  jobChan,          \* from the consumer to the writers
  worker,           \* worker[w]: where the writer is, and its job
  ackChan,          \* from the writers to the ack processor
  ck,               \* ck[r]: readerCheckpointState of reader r
  draining,         \* the reader whose pending acks onAck is applying, or 0
  completedChunks,
  totalWritten,
  resumeRowsDone,
  ctxDone,          \* the caller's context is cancelled
  wpCancelled,      \* the writer pool cancelled its own context
  writeErr, loopErr,
  gotChunk          \* the consumer's lastPK is not nil

durable == <<target, saved>>
execVars == <<attempt, resumeRowsDone, ranges>>
readVars == <<cuts, reader>>
consVars == <<pc, inHand, loopErr, gotChunk>>
ackVars == <<ck, draining, completedChunks>>
poolVars == <<totalWritten, wpCancelled, writeErr>>
vars == <<durable, execVars, readVars, consVars, ackVars, poolVars,
          chunkChan, jobChan, worker, ackChan, ctxDone>>

Running == {"loop", "submit", "wait"}
Stopped == {"idle", "ok", "failed", "crashed"}

Readers == 1 .. Len(ranges)

JobRows == {p \in SourcePKs : MinPK <= p /\ p <= MaxPK}

\* No chunk; on chunkChan it stands for a chunkResult that carries an error.
NoChunk == [reader |-> 0, seq |-> 0]

\* Where reader r's k-th chunk ends; its range starts after Cut(r, 0).
Cut(r, k) == IF k = 0 THEN ranges[r].minPK ELSE cuts[r][k]

\* The key after which chunk c starts, its last key, and its rows.
PrevPK(c) == Cut(c.reader, c.seq)
LastPK(c) == Cut(c.reader, c.seq + 1)
Rows(c) == {p \in SourcePKs : PrevPK(c) < p /\ p <= LastPK(c)}

\* The rows of chunk c that a failed write leaves behind: the drivers write in
\* row order, some of them in several batches without a transaction.
Torn(c, k) == {p \in Rows(c) : p <= k}
TornPoints == JobRows \cup {MinPK - 1}

WpDone == ctxDone \/ wpCancelled

-----------------------------------------------------------------------------
(***************************************************************************)
(* Checkpoints.                                                            *)
(***************************************************************************)

\* Faulty: the coordinator waits for a sequence number before the first one.
InitialCkBehind(rs) ==
  [r \in 1 .. Len(rs) |-> [lastPK |-> rs[r].minPK, nextSeq |-> -1, pending |-> {},
                           complete |-> rs[r].minPK >= rs[r].maxPK]]

\* newKeysetCheckpointCoordinator
InitialCk(rs) ==
  [r \in 1 .. Len(rs) |-> [lastPK |-> rs[r].minPK, nextSeq |-> 0, pending |-> {},
                           complete |-> rs[r].minPK >= rs[r].maxPK]]

\* The first of n readers that is not complete, or the last one.
SafeReader(n, c) ==
  CHOOSE i \in 1 .. n : /\ i = n \/ ~c[i].complete
                        /\ \A j \in 1 .. i - 1 : c[j].complete

SafeCheckpoint(c) == c[SafeReader(Len(ranges), c)].lastPK

\* A failed save is only logged.
SaveProgress(pk) ==
  \/ saved' = [lastPK |-> pk, rowsDone |-> resumeRowsDone + totalWritten]
  \/ "save" \in Faults /\ saved' = saved

\* applyAck
ApplyAck(ack) ==
  [ck EXCEPT ![ack.reader].lastPK = LastPK(ack),
             ![ack.reader].complete = @ \/ LastPK(ack) >= ranges[ack.reader].maxPK]

\* One round of onAck's loop, for the acknowledgement its reader is due.
OnAckRound(ack) ==
  LET r == ack.reader
      applied == ApplyAck(ack)
  IN /\ completedChunks' = completedChunks + 1
     /\ IF completedChunks' % CheckpointFreq = 0
        THEN SaveProgress(SafeCheckpoint(applied))
        ELSE UNCHANGED saved
     /\ ck' = [applied EXCEPT ![r].nextSeq = ack.seq + 1,
                              ![r].pending = @ \ {ack.seq}]
     /\ draining' = IF ack.seq + 1 \in ck[r].pending THEN r ELSE 0

\* onAck, for an acknowledgement that is early: it waits in pending.
OnEarlyAck(ack) ==
  /\ ck' = [ck EXCEPT ![ack.reader].pending = @ \cup {ack.seq}]
  /\ UNCHANGED <<saved, draining, completedChunks>>

-----------------------------------------------------------------------------
(***************************************************************************)
(* Execute, up to the start of its goroutines.                             *)
(***************************************************************************)

\* Faulty: the partition's upper bound is left out of the resume's DELETE.
CleanTargetUnbounded(ckpt) ==
  IF ckpt = NoCheckpoint THEN target \ JobRows
  ELSE {p \in target : p <= ckpt.lastPK}

\* What Execute leaves in the target before it reads: truncate, delete the
\* partition, or delete what lies beyond the checkpoint.
CleanTarget(ckpt) ==
  CASE Upsert -> target
    [] ~Upsert /\ ckpt = NoCheckpoint /\ ~Partitioned -> {}
    [] ~Upsert /\ ckpt = NoCheckpoint /\ Partitioned ->
         {p \in target : p < MinPK \/ p > MaxPK}
    [] ~Upsert /\ ckpt # NoCheckpoint ->
         {p \in target : p <= ckpt.lastPK \/ (Partitioned /\ p > MaxPK)}

\* Faulty: a resumed key is an integer like any other, and is decremented.
JobRangesTyped(ckpt) ==
  SplitPKRange([isInt |-> TRUE,
                val |-> IF ckpt = NoCheckpoint THEN MinPK ELSE ckpt.lastPK],
               [isInt |-> TRUE, val |-> MaxPK], ParallelReaders)

\* Faulty: the checkpoint is not used.
JobRangesRestart(ckpt) ==
  SplitPKRange([isInt |-> TRUE, val |-> MinPK], [isInt |-> TRUE, val |-> MaxPK],
               ParallelReaders)

\* A resumed key has lost its integer type in the JSON of the checkpoint.
JobRanges(ckpt) ==
  SplitPKRange([isInt |-> ckpt = NoCheckpoint,
                val |-> IF ckpt = NoCheckpoint THEN MinPK ELSE ckpt.lastPK],
               [isInt |-> TRUE, val |-> MaxPK], ParallelReaders)

\* Faulty: a resume counts its rows from zero.
ResumeRowsZero(ckpt) == 0

ResumeRows(ckpt) == IF ckpt = NoCheckpoint THEN 0 ELSE ckpt.rowsDone

\* The goroutines' state for an attempt that reads the ranges rs.
ResetAttempt(rs, workerState) ==
  /\ ranges' = rs
  /\ cuts' = [r \in 1 .. Len(rs) |-> <<>>]
  /\ reader' = [r \in 1 .. Len(rs) |-> "read"]
  /\ ck' = InitialCk(rs)
  /\ worker' = [w \in Workers |-> [st |-> workerState, job |-> NoChunk]]
  /\ chunkChan' = <<>> /\ jobChan' = <<>> /\ ackChan' = <<>>
  /\ inHand' = NoChunk
  /\ draining' = 0 /\ completedChunks' = 0 /\ totalWritten' = 0
  /\ ctxDone' = FALSE /\ wpCancelled' = FALSE
  /\ writeErr' = FALSE /\ loopErr' = FALSE /\ gotChunk' = FALSE

\* A retry after an error, a resume in a new process, or a second transfer of
\* a job that succeeded in a run that did not.
Execute ==
  /\ pc \in Stopped /\ attempt < MaxAttempts
  /\ attempt' = attempt + 1
  /\ UNCHANGED saved
  /\ \E ckpt \in {saved} \cup (IF "load" \in Faults THEN {NoCheckpoint} ELSE {}) :
       /\ resumeRowsDone' = ResumeRows(ckpt)
       /\ \/ target' = CleanTarget(ckpt)
          \/ "cleanup" \in Faults /\ target' = target
       /\ \/ pc' = "loop" /\ ResetAttempt(JobRanges(ckpt), "idle")
          \/ \* SELECT MIN, MAX failed: taken for an empty table
             /\ "minmax" \in Faults /\ ~Partitioned
             /\ pc' = "ok" /\ ResetAttempt(<<>>, "exited")

-----------------------------------------------------------------------------
(***************************************************************************)
(* A reader goroutine.                                                     *)
(***************************************************************************)

ReaderPos(r) == Cut(r, Len(cuts[r]))
Remaining(r) == Scanned([minPK |-> ReaderPos(r), maxPK |-> ranges[r].maxPK], SourcePKs)

\* The keyset query: the next ChunkSize rows in key order, or all that remain.
ReadChunk(r) ==
  /\ reader[r] = "read" /\ ~ctxDone
  /\ \E last \in Remaining(r) :
       LET page == {p \in Remaining(r) : p <= last}
       IN /\ Cardinality(page) <= ChunkSize
          /\ Cardinality(page) = ChunkSize \/ page = Remaining(r)
          /\ cuts' = [cuts EXCEPT ![r] = Append(@, last)]
  /\ reader' = [reader EXCEPT ![r] = "send"]
  /\ UNCHANGED <<durable, execVars, consVars, ackVars, poolVars,
                 chunkChan, jobChan, worker, ackChan, ctxDone>>

ReadNothing(r) ==
  /\ reader[r] = "read" /\ ~ctxDone
  /\ Remaining(r) = {}
  /\ reader' = [reader EXCEPT ![r] = "done"]
  /\ UNCHANGED <<durable, execVars, cuts, consVars, ackVars, poolVars,
                 chunkChan, jobChan, worker, ackChan, ctxDone>>

ReadFails(r) ==
  /\ reader[r] = "read"
  /\ ctxDone \/ "read" \in Faults
  /\ reader' = [reader EXCEPT ![r] = "fail"]
  /\ UNCHANGED <<durable, execVars, cuts, consVars, ackVars, poolVars,
                 chunkChan, jobChan, worker, ackChan, ctxDone>>

\* Sends block until the channel has room, whatever becomes of the context.
SendChunk(r) ==
  /\ reader[r] = "send" /\ Len(chunkChan) < ChunkBuf
  /\ LET c == [reader |-> r, seq |-> Len(cuts[r]) - 1]
     IN /\ chunkChan' = Append(chunkChan, c)
        /\ reader' = [reader EXCEPT
             ![r] = IF Cardinality(Rows(c)) < ChunkSize THEN "done" ELSE "read"]
  /\ UNCHANGED <<durable, execVars, cuts, consVars, ackVars, poolVars,
                 jobChan, worker, ackChan, ctxDone>>

SendError(r) ==
  /\ reader[r] = "fail" /\ Len(chunkChan) < ChunkBuf
  /\ chunkChan' = Append(chunkChan, NoChunk)
  /\ reader' = [reader EXCEPT ![r] = "done"]
  /\ UNCHANGED <<durable, execVars, cuts, consVars, ackVars, poolVars,
                 jobChan, worker, ackChan, ctxDone>>

ReaderStep(r) ==
  ReadChunk(r) \/ ReadNothing(r) \/ ReadFails(r) \/ SendChunk(r) \/ SendError(r)

-----------------------------------------------------------------------------
(***************************************************************************)
(* The consumer: Execute's own goroutine.                                  *)
(***************************************************************************)

ReceiveChunk ==
  /\ pc = "loop" /\ chunkChan # <<>> /\ Head(chunkChan) # NoChunk
  /\ inHand' = Head(chunkChan)
  /\ chunkChan' = Tail(chunkChan)
  /\ gotChunk' = TRUE
  /\ pc' = "submit"
  /\ UNCHANGED <<durable, execVars, readVars, loopErr, ackVars, poolVars,
                 jobChan, worker, ackChan, ctxDone>>

ReceiveError ==
  /\ pc = "loop" /\ chunkChan # <<>> /\ Head(chunkChan) = NoChunk
  /\ chunkChan' = Tail(chunkChan)
  /\ loopErr' = TRUE
  /\ wpCancelled' = TRUE
  /\ pc' = "wait"
  /\ UNCHANGED <<durable, execVars, readVars, inHand, gotChunk, ackVars,
                 totalWritten, writeErr, jobChan, worker, ackChan, ctxDone>>

\* The closer goroutine closes chunkChan when every reader is done.
ChunksClosed ==
  /\ pc = "loop" /\ chunkChan = <<>>
  /\ \A r \in Readers : reader[r] = "done"
  /\ pc' = "wait"
  /\ UNCHANGED <<durable, execVars, readVars, inHand, loopErr, gotChunk, ackVars,
                 poolVars, chunkChan, jobChan, worker, ackChan, ctxDone>>

\* Submit's select takes either branch when both are ready.
Submit ==
  /\ pc = "submit" /\ Len(jobChan) < JobBuf
  /\ jobChan' = Append(jobChan, inHand)
  /\ inHand' = NoChunk
  /\ pc' = "loop"
  /\ UNCHANGED <<durable, execVars, readVars, loopErr, gotChunk, ackVars, poolVars,
                 chunkChan, worker, ackChan, ctxDone>>

SubmitCancelled ==
  /\ pc = "submit" /\ WpDone
  /\ loopErr' = (writeErr \/ ctxDone)
  /\ inHand' = NoChunk
  /\ pc' = "wait"
  /\ UNCHANGED <<durable, execVars, readVars, gotChunk, ackVars, poolVars,
                 chunkChan, jobChan, worker, ackChan, ctxDone>>

\* wp.wait has returned: every writer has exited and every ack is processed.
PoolDrained ==
  /\ pc = "wait"
  /\ \A w \in Workers : worker[w].st = "exited"
  /\ ackChan = <<>> /\ draining = 0

Fail ==
  /\ PoolDrained /\ (loopErr \/ writeErr)
  /\ pc' = "failed"
  /\ UNCHANGED <<durable, execVars, readVars, inHand, loopErr, gotChunk, ackVars,
                 poolVars, chunkChan, jobChan, worker, ackChan, ctxDone>>

Succeed ==
  /\ PoolDrained /\ ~loopErr /\ ~writeErr
  /\ pc' = "ok"
  /\ IF gotChunk THEN SaveProgress(SafeCheckpoint(ck)) ELSE UNCHANGED saved
  /\ UNCHANGED <<target, execVars, readVars, inHand, loopErr, gotChunk, ackVars,
                 poolVars, chunkChan, jobChan, worker, ackChan, ctxDone>>

ConsumerStep ==
  \/ ReceiveChunk \/ ReceiveError \/ ChunksClosed
  \/ Submit \/ SubmitCancelled
  \/ Fail \/ Succeed

-----------------------------------------------------------------------------
(***************************************************************************)
(* A writer of the pool.                                                   *)
(***************************************************************************)

SetWorker(w, st, job) == worker' = [worker EXCEPT ![w] = [st |-> st, job |-> job]]

TakeJob(w) ==
  /\ worker[w].st = "idle" /\ jobChan # <<>> /\ ~WpDone
  /\ SetWorker(w, "write", Head(jobChan))
  /\ jobChan' = Tail(jobChan)
  /\ UNCHANGED <<durable, execVars, readVars, consVars, ackVars, poolVars,
                 chunkChan, ackChan, ctxDone>>

\* The context is looked at after the job was taken, and the job is dropped.
DropJob(w) ==
  /\ worker[w].st = "idle" /\ jobChan # <<>> /\ WpDone
  /\ SetWorker(w, "exited", NoChunk)
  /\ jobChan' = Tail(jobChan)
  /\ UNCHANGED <<durable, execVars, readVars, consVars, ackVars, poolVars,
                 chunkChan, ackChan, ctxDone>>

\* jobChan is closed, by wp.wait, and empty.
JobsClosed(w) ==
  /\ worker[w].st = "idle" /\ jobChan = <<>> /\ pc = "wait"
  /\ SetWorker(w, "exited", NoChunk)
  /\ UNCHANGED <<durable, execVars, readVars, consVars, ackVars, poolVars,
                 chunkChan, jobChan, ackChan, ctxDone>>

\* In drop_recreate the target rejects a key it already has.
DuplicateKey(c) == ~Upsert /\ Rows(c) \cap target # {}

Write(w) ==
  /\ worker[w].st = "write" /\ ~DuplicateKey(worker[w].job)
  /\ target' = target \cup Rows(worker[w].job)
  /\ SetWorker(w, "count", worker[w].job)
  /\ UNCHANGED <<saved, execVars, readVars, consVars, ackVars, poolVars,
                 chunkChan, jobChan, ackChan, ctxDone>>

CountRows(w) ==
  /\ worker[w].st = "count"
  /\ totalWritten' = totalWritten + Cardinality(Rows(worker[w].job))
  /\ SetWorker(w, "ack", worker[w].job)
  /\ UNCHANGED <<durable, execVars, readVars, consVars, ackVars, wpCancelled, writeErr,
                 chunkChan, jobChan, ackChan, ctxDone>>

\* Faulty: the pool goes on after a write error.
WriteFailsNoCancel(w) ==
  /\ worker[w].st = "write" /\ "write" \in Faults
  /\ \E k \in TornPoints : target' = target \cup Torn(worker[w].job, k)
  /\ writeErr' = TRUE
  /\ SetWorker(w, "exited", NoChunk)
  /\ UNCHANGED <<saved, execVars, readVars, consVars, ackVars, totalWritten,
                 wpCancelled, chunkChan, jobChan, ackChan, ctxDone>>

\* Faulty: the write error is not kept for Execute to return.
WriteFailsUnreported(w) ==
  /\ worker[w].st = "write" /\ "write" \in Faults
  /\ \E k \in TornPoints : target' = target \cup Torn(worker[w].job, k)
  /\ wpCancelled' = TRUE
  /\ SetWorker(w, "exited", NoChunk)
  /\ UNCHANGED <<saved, execVars, readVars, consVars, ackVars, totalWritten,
                 writeErr, chunkChan, jobChan, ackChan, ctxDone>>

WriteFails(w) ==
  /\ worker[w].st = "write"
  /\ "write" \in Faults \/ WpDone \/ DuplicateKey(worker[w].job)
  /\ \E k \in TornPoints : target' = target \cup Torn(worker[w].job, k)
  /\ writeErr' = TRUE
  /\ wpCancelled' = TRUE
  /\ SetWorker(w, "exited", NoChunk)
  /\ UNCHANGED <<saved, execVars, readVars, consVars, ackVars, totalWritten,
                 chunkChan, jobChan, ackChan, ctxDone>>

SendAck(w) ==
  /\ worker[w].st = "ack" /\ Len(ackChan) < AckBuf
  /\ ackChan' = Append(ackChan, worker[w].job)
  /\ SetWorker(w, "idle", NoChunk)
  /\ UNCHANGED <<durable, execVars, readVars, consVars, ackVars, poolVars,
                 chunkChan, jobChan, ctxDone>>

\* ackChan is full: the acknowledgement is lost, or the writer exits.
SkipAck(w) ==
  /\ worker[w].st = "ack" /\ Len(ackChan) = AckBuf /\ ~WpDone
  /\ SetWorker(w, "idle", NoChunk)
  /\ UNCHANGED <<durable, execVars, readVars, consVars, ackVars, poolVars,
                 chunkChan, jobChan, ackChan, ctxDone>>

AckCancelled(w) ==
  /\ worker[w].st = "ack" /\ WpDone
  /\ SetWorker(w, "exited", NoChunk)
  /\ UNCHANGED <<durable, execVars, readVars, consVars, ackVars, poolVars,
                 chunkChan, jobChan, ackChan, ctxDone>>

WorkerStep(w) ==
  \/ TakeJob(w) \/ DropJob(w) \/ JobsClosed(w)
  \/ Write(w) \/ WriteFails(w) \/ CountRows(w)
  \/ SendAck(w) \/ SkipAck(w) \/ AckCancelled(w)

-----------------------------------------------------------------------------
(***************************************************************************)
(* The ack processor.                                                      *)
(***************************************************************************)

\* Faulty: an acknowledgement is applied as it comes.
ReceiveAckAnyOrder ==
  /\ draining = 0 /\ ackChan # <<>>
  /\ ackChan' = Tail(ackChan)
  /\ OnAckRound(Head(ackChan))
  /\ UNCHANGED <<target, execVars, readVars, consVars, poolVars,
                 chunkChan, jobChan, worker, ctxDone>>

ReceiveAck ==
  /\ draining = 0 /\ ackChan # <<>>
  /\ ackChan' = Tail(ackChan)
  /\ LET ack == Head(ackChan)
     IN IF ack.seq = ck[ack.reader].nextSeq THEN OnAckRound(ack) ELSE OnEarlyAck(ack)
  /\ UNCHANGED <<target, execVars, readVars, consVars, poolVars,
                 chunkChan, jobChan, worker, ctxDone>>

DrainPending ==
  /\ draining # 0
  /\ OnAckRound([reader |-> draining, seq |-> ck[draining].nextSeq])
  /\ UNCHANGED <<target, execVars, readVars, consVars, poolVars,
                 chunkChan, jobChan, worker, ackChan, ctxDone>>

AckStep == ReceiveAck \/ DrainPending

-----------------------------------------------------------------------------
(***************************************************************************)
(* The environment: Ctrl+C, and the death of the process.                  *)
(***************************************************************************)

Cancel ==
  /\ "cancel" \in Faults /\ pc \in Running /\ ~ctxDone
  /\ ctxDone' = TRUE
  /\ UNCHANGED <<durable, execVars, readVars, consVars, ackVars, poolVars,
                 chunkChan, jobChan, worker, ackChan>>

\* Each write in progress reaches the target in part, or not, or entirely.
Crash ==
  /\ "crash" \in Faults /\ pc \in Running
  /\ LET writing == {w \in Workers : worker[w].st = "write"}
     IN \E torn \in [writing -> TornPoints] :
          target' = target \cup UNION {Torn(worker[w].job, torn[w]) : w \in writing}
  /\ pc' = "crashed"
  /\ ResetAttempt(<<>>, "exited")
  /\ UNCHANGED <<saved, attempt, resumeRowsDone>>

\* The job is not executed again.
Terminated == pc \in Stopped /\ attempt = MaxAttempts /\ UNCHANGED vars

-----------------------------------------------------------------------------

Init ==
  /\ target \in SUBSET (IF Upsert THEN SourcePKs ELSE SourcePKs \ JobRows)
  /\ saved = NoCheckpoint
  /\ attempt = 0 /\ pc = "idle" /\ resumeRowsDone = 0
  /\ ranges = <<>> /\ cuts = <<>> /\ reader = <<>> /\ ck = <<>>
  /\ worker = [w \in Workers |-> [st |-> "exited", job |-> NoChunk]]
  /\ chunkChan = <<>> /\ jobChan = <<>> /\ ackChan = <<>>
  /\ inHand = NoChunk
  /\ draining = 0 /\ completedChunks = 0 /\ totalWritten = 0
  /\ ctxDone = FALSE /\ wpCancelled = FALSE
  /\ writeErr = FALSE /\ loopErr = FALSE /\ gotChunk = FALSE

Next ==
  \/ Execute
  \/ \E r \in Readers : ReaderStep(r)
  \/ ConsumerStep
  \/ \E w \in Workers : WorkerStep(w)
  \/ AckStep
  \/ Cancel \/ Crash
  \/ Terminated

Spec == Init /\ [][Next]_vars

\* Every goroutine keeps running, and every database call returns.
Fairness ==
  /\ \A r \in 1 .. ParallelReaders : WF_vars(r \in Readers /\ ReaderStep(r))
  /\ WF_vars(ConsumerStep)
  /\ \A w \in Workers : WF_vars(WorkerStep(w))
  /\ WF_vars(AckStep)

FairSpec == Spec /\ Fairness
-----------------------------------------------------------------------------
(***************************************************************************)
(* What a job promises.                                                    *)
(***************************************************************************)

Chunks == [reader : Nat, seq : Nat]
WorkerStates == {"idle", "write", "count", "ack", "exited"}
CkState == [lastPK : Int64, nextSeq : Nat, pending : SUBSET Nat, complete : BOOLEAN]

\* The types of the state of an attempt and of what survives it.
TypeOK ==
  /\ target \subseteq SourcePKs
  /\ saved \in Checkpoint \cup {NoCheckpoint}
  /\ attempt \in Nat /\ resumeRowsDone \in Nat
  /\ pc \in Running \cup Stopped
  /\ ranges \in Seq(PKRangeRec)
  /\ cuts \in [Readers -> Seq(SourcePKs)]
  /\ reader \in [Readers -> {"read", "send", "fail", "done"}]
  /\ chunkChan \in Seq(Chunks) /\ jobChan \in Seq(Chunks) /\ ackChan \in Seq(Chunks)
  /\ inHand \in Chunks
  /\ worker \in [Workers -> [st : WorkerStates, job : Chunks]]
  /\ ck \in [Readers -> CkState]
  /\ draining \in Readers \cup {0}
  /\ completedChunks \in Nat /\ totalWritten \in Nat
  /\ ctxDone \in BOOLEAN /\ wpCancelled \in BOOLEAN
  /\ writeErr \in BOOLEAN /\ loopErr \in BOOLEAN /\ gotChunk \in BOOLEAN

\* Whatever crashes, fails or is reordered, every row of the job up to the saved
\* key is in the target: a resume, which starts after that key, skips no row.
CheckpointSafe ==
  saved # NoCheckpoint =>
    \A p \in JobRows : p <= saved.lastPK => p \in target

\* The rows that the checkpoint claims are at least those it covers, so that a
\* target which lost one of them has fewer rows than Resume expects.
RowsDoneCoversCheckpoint ==
  saved # NoCheckpoint =>
    saved.rowsDone >= Cardinality({p \in JobRows : p <= saved.lastPK})

\* No writer inserts a row that is already there: the ranges do not overlap,
\* and Execute has removed what earlier attempts wrote after the checkpoint.
NoDuplicateInsert ==
  \A w \in Workers : worker[w].st = "write" => ~DuplicateKey(worker[w].job)

\* When Execute returns no error, all the rows of the job are in the target.
SuccessMeansAllWritten == pc = "ok" => JobRows \subseteq target

\* The saved key never moves back, in an attempt or from one to the next.
CheckpointNeverRegresses ==
  [][saved # NoCheckpoint => saved'.lastPK >= saved.lastPK]_vars

\* A job removes no row of the table's other partitions.
OtherPartitionsKept == [][target \ JobRows \subseteq target']_vars

\* Every attempt comes to an end: no goroutine that Execute waits for is stuck.
AttemptEnds == pc \in Running ~> pc \in Stopped

Job == INSTANCE TransferJob WITH
         SourceRows <- SourcePKs,
         NoKey <- NoCheckpoint,
         savedKey <- IF saved = NoCheckpoint THEN NoCheckpoint ELSE saved.lastPK,
         phase <- IF pc \in Running THEN "running" ELSE IF pc = "ok" THEN "ok" ELSE "stopped"

\* All of this is an implementation of TransferJob: no order of reads, writes,
\* acknowledgements, errors and crashes can be told apart from it.
ImplementsTransferJob == Job!Spec

-----------------------------------------------------------------------------
(***************************************************************************)
(* The inductive invariant behind CheckpointSafe and SuccessMeansAllWritten *)
(***************************************************************************)

ValidChunk(c) == c.reader \in Readers /\ c.seq < Len(cuts[c.reader])
Written(c) == Rows(c) \subseteq target

\* Every chunk that is under way was read in this attempt.
RefsOK ==
  /\ \A i \in 1 .. Len(chunkChan) : chunkChan[i] # NoChunk => ValidChunk(chunkChan[i])
  /\ pc = "submit" => ValidChunk(inHand)
  /\ \A i \in 1 .. Len(jobChan) : ValidChunk(jobChan[i])
  /\ \A w \in Workers : worker[w].st \in {"write", "count", "ack"} => ValidChunk(worker[w].job)
  /\ \A i \in 1 .. Len(ackChan) : ValidChunk(ackChan[i])
  /\ \A r \in Readers : \A q \in ck[r].pending : q < Len(cuts[r])
  /\ draining # 0 => ck[draining].nextSeq \in ck[draining].pending
  /\ gotChunk => \E r \in Readers : cuts[r] # <<>>
  /\ \A r \in Readers : reader[r] = "send" => cuts[r] # <<>>

\* What is acknowledged, or about to be, is in the target.
AcksWritten ==
  /\ \A w \in Workers : worker[w].st \in {"count", "ack"} => Written(worker[w].job)
  /\ \A i \in 1 .. Len(ackChan) : Written(ackChan[i])
  /\ \A r \in Readers : \A q \in ck[r].pending : Written([reader |-> r, seq |-> q])

\* The chunks of a reader follow each other inside its range.
CutsOrdered ==
  \A r \in Readers : \A k \in 1 .. Len(cuts[r]) :
    Cut(r, k - 1) < Cut(r, k) /\ Cut(r, k) <= ranges[r].maxPK

\* What the coordinator knows of a reader: a prefix of its chunks, all written.
PrefixWritten ==
  \A r \in Readers :
    /\ ck[r].nextSeq <= Len(cuts[r])
    /\ ck[r].lastPK = Cut(r, ck[r].nextSeq)
    /\ ck[r].complete => ck[r].lastPK >= ranges[r].maxPK
    /\ \A p \in JobRows : ranges[r].minPK < p /\ p <= ck[r].lastPK => p \in target

\* The ranges leave no gap, and the rows before the first one are in the target;
\* or there is a single range, and it is empty.
BaseWritten ==
  ranges # <<>> =>
    /\ ranges[Len(ranges)].maxPK = MaxPK
    /\ \A i \in 1 .. Len(ranges) - 1 : ranges[i + 1].minPK = ranges[i].maxPK
    /\ \/ \A p \in JobRows : p <= ranges[1].minPK => p \in target
       \/ Len(ranges) = 1 /\ ranges[1].minPK >= ranges[1].maxPK

SafeInv == /\ TypeOK /\ RefsOK /\ AcksWritten /\ CutsOrdered
           /\ PrefixWritten /\ BaseWritten /\ CheckpointSafe

-----------------------------------------------------------------------------
(***************************************************************************)
(* What else is inductive, for the properties of several attempts.         *)
(***************************************************************************)

\* No range, chunk or checkpoint begins before the job does.
KeysInJob ==
  /\ saved # NoCheckpoint => MinPK - 1 <= saved.lastPK
  /\ \A r \in Readers :
       /\ MinPK - 1 <= ranges[r].minPK /\ MinPK - 1 <= ck[r].lastPK
       /\ \A k \in 1 .. Len(cuts[r]) : MinPK - 1 <= cuts[r][k]

\* The ranges lie inside the job, and the later ones begin where others ended.
RangesOrdered ==
  /\ \A r \in Readers : MinPK - 1 <= ranges[r].minPK /\ ranges[r].maxPK <= MaxPK
  /\ \A i, j \in Readers : i < j =>
       ranges[i].minPK <= ranges[i].maxPK /\ ranges[i].maxPK <= ranges[j].minPK

\* The coordinator's key never falls behind the saved one.
SavedBehind ==
  saved # NoCheckpoint =>
    /\ MinPK - 1 <= saved.lastPK
    /\ ranges # <<>> => saved.lastPK <= SafeCheckpoint(ck)

\* Nothing is written or acknowledged once Execute has returned.
StoppedQuiet ==
  pc \in Stopped => /\ \A w \in Workers : worker[w].st = "exited"
                   /\ ackChan = <<>> /\ draining = 0

OrderInv == SafeInv /\ RangesOrdered /\ SavedBehind /\ StoppedQuiet

\* What makes an attempt transfer every row or fail: a context that is cancelled
\* may drop chunks without an error, an error of SELECT MIN, MAX passes for an empty
\* table, one of the checkpoint's loading for a first attempt, and several readers
\* have nothing to split in a job of a single key.
Completable ==
  /\ {"minmax", "load", "cancel"} \cap Faults = {}
  /\ ParallelReaders = 1 \/ MinPK # MaxPK

\* A chunk between the reader and the target.
InFlight(c) ==
  \/ reader[c.reader] = "send" /\ c.seq = Len(cuts[c.reader]) - 1
  \/ \E i \in 1 .. Len(chunkChan) : chunkChan[i] = c
  \/ pc = "submit" /\ inHand = c
  \/ \E i \in 1 .. Len(jobChan) : jobChan[i] = c
  \/ \E w \in Workers : worker[w].st = "write" /\ worker[w].job = c

\* An error of a reader that has not reached the consumer.
ErrorInFlight == \E i \in 1 .. Len(chunkChan) : chunkChan[i] = NoChunk

\* While nothing is cancelled no chunk gets lost, and no writer leaves its queue.
NoneLost ==
  ~WpDone =>
    /\ \A r \in Readers : \A q \in 0 .. Len(cuts[r]) - 1 :
         LET c == [reader |-> r, seq |-> q] IN InFlight(c) \/ Written(c)
    /\ \A w \in Workers : worker[w].st = "exited" /\ pc \in Running =>
         pc = "wait" /\ jobChan = <<>>

\* A reader stops at the end of its range, or after an error that Execute will see.
ReadersFinish ==
  /\ \A r \in Readers :
       /\ reader[r] = "send" /\ Cardinality(Rows([reader |-> r, seq |-> Len(cuts[r]) - 1])) < ChunkSize
            => Remaining(r) = {}
       /\ reader[r] = "done" => Remaining(r) = {} \/ ErrorInFlight \/ loopErr
  /\ pc = "wait" /\ ~WpDone => chunkChan = <<>> /\ \A r \in Readers : reader[r] = "done"

\* Nothing is cancelled but by an error that Execute returns, and no chunk is received
\* after an error.
ErrorsKept ==
  /\ ~ctxDone
  /\ wpCancelled => writeErr \/ loopErr
  /\ pc \in {"loop", "submit"} => ~loopErr

\* An attempt has ranges, and the rows before the first one are in the target.
BaseCovered ==
  /\ pc \in Running => ranges # <<>>
  /\ ranges # <<>> => \A p \in JobRows : p <= ranges[1].minPK => p \in target

CompleteInv == /\ OrderInv /\ NoneLost /\ ReadersFinish /\ ErrorsKept /\ BaseCovered
               /\ SuccessMeansAllWritten

-----------------------------------------------------------------------------
(***************************************************************************)
(* What is inductive whatever fails, for the properties of the rows.       *)
(***************************************************************************)

RangesAdjacent ==
  ranges # <<>> => /\ ranges[Len(ranges)].maxPK = MaxPK
                   /\ \A i \in 1 .. Len(ranges) - 1 : ranges[i + 1].minPK = ranges[i].maxPK

\* The coordinator's key of a reader is the end of one of its chunks.
CoordinatorOrdered ==
  \A r \in Readers : /\ ck[r].nextSeq <= Len(cuts[r])
                     /\ ck[r].lastPK = Cut(r, ck[r].nextSeq)
                     /\ ck[r].complete => ck[r].lastPK >= ranges[r].maxPK

RowsInv == /\ TypeOK /\ RefsOK /\ KeysInJob /\ RangesOrdered /\ RangesAdjacent
           /\ CutsOrdered /\ CoordinatorOrdered

\* The rows of the chunks that were acknowledged, or are about to be.
AckedRows ==
  {p \in JobRows :
     \/ \E w \in Workers : worker[w].st = "ack" /\ p \in Rows(worker[w].job)
     \/ \E i \in 1 .. Len(ackChan) : p \in Rows(ackChan[i])
     \/ \E r \in Readers :
          \/ \E q \in ck[r].pending : p \in Rows([reader |-> r, seq |-> q])
          \/ ranges[r].minPK < p /\ p <= ck[r].lastPK}

BaseRows == {p \in JobRows : p <= ranges[1].minPK}

\* They are counted, and so are those before the first range; or there is a single
\* range, and it is empty.
RowsCounted ==
  /\ Cardinality(AckedRows) <= totalWritten
  /\ ranges # <<>> => \/ Cardinality(BaseRows) <= resumeRowsDone
                      \/ Len(ranges) = 1 /\ ranges[1].minPK >= ranges[1].maxPK

CountInv == RowsInv /\ RowsCounted /\ RowsDoneCoversCheckpoint

\* Where a chunk can be that is not written yet, and the chunk that is there.
Places ==
  {<<"reader", r>> : r \in {x \in Readers : reader[x] = "send"}}
    \cup {<<"chunkChan", i>> : i \in {j \in 1 .. Len(chunkChan) : chunkChan[j] # NoChunk}}
    \cup (IF pc = "submit" THEN {<<"inHand", 0>>} ELSE {})
    \cup {<<"jobChan", i>> : i \in 1 .. Len(jobChan)}
    \cup {<<"worker", w>> : w \in {v \in Workers : worker[v].st = "write"}}

ChunkAt(place) ==
  CASE place[1] = "reader" -> [reader |-> place[2], seq |-> Len(cuts[place[2]]) - 1]
    [] place[1] = "chunkChan" -> chunkChan[place[2]]
    [] place[1] = "inHand" -> inHand
    [] place[1] = "jobChan" -> jobChan[place[2]]
    [] place[1] = "worker" -> worker[place[2]].job

\* A chunk is in one place, and none of its rows is in the target, nor is any row
\* that is still to be read.
ChunksFresh ==
  /\ \A x, y \in Places : ChunkAt(x) = ChunkAt(y) => x = y
  /\ ~Upsert => /\ \A x \in Places : Rows(ChunkAt(x)) \cap target = {}
                /\ \A r \in Readers : Remaining(r) \cap target = {}

FreshInv == RowsInv /\ ChunksFresh
=============================================================================

------------------------- MODULE RowNumberTransfer -------------------------
(***************************************************************************)
(* One transfer job of a table without a single integer key:               *)
(* transfer.executeRowNumberPagination, in an Execute that is retried and  *)
(* resumed.                                                                *)
(*                                                                         *)
(* A row is its number in the order of the primary key, from 1; the source *)
(* does not change.  Chunk rowNum ends at that row.  The writers are those *)
(* of WriterPool.                                                          *)
(***************************************************************************)
EXTENDS WriterPool

CONSTANTS
  SourceRows,       \* how many rows the source table has
  RowCount,         \* Table.RowCount, an estimate
  Partitioned,      \* whether the job is one partition of the table
  StartRow, EndRow, \* the partition
  Upsert,           \* target_mode: upsert, rather than drop_recreate
  ChunkSize, CheckpointFreq, ChunkBuf,
  MaxAttempts,      \* bound on the number of times Execute runs
  Faults            \* what the environment may do, a subset of FaultKinds

FaultKinds == {"load", "cleanup", "read", "write", "save", "cancel", "crash"}

ASSUME JobAssumption ==
  /\ SourceRows \in Nat /\ RowCount \in Nat /\ StartRow \in Nat /\ EndRow \in Nat
  /\ Partitioned \in BOOLEAN /\ Upsert \in BOOLEAN
  /\ ChunkSize \in Nat \ {0} /\ CheckpointFreq \in Nat \ {0} /\ ChunkBuf \in Nat \ {0}
  /\ Faults \subseteq FaultKinds

VARIABLES
  target,           \* the rows in the target
  saved,            \* rowNum of the task's row of transfer_progress, or NoProgress
  attempt, pc,
  reader,           \* the reader goroutine: where it is, rowNum and seq
  chunkChan, inHand, loopErr,
  ack,              \* the ack processor: expectedSeq, pending, lastCheckpointRowNum, ...
  ctxDone           \* the caller's context is cancelled

jobVars == <<target, saved, attempt, pc, reader, chunkChan, inHand, loopErr, ack, ctxDone>>
vars == <<jobVars, poolVars>>

NoProgress == -1
NoChunk == [rows |-> {}, rowNum |-> 0, seq |-> 0]

\* What the reader sends last: chunkResult.err and chunkResult.done.
ReadError == [NoChunk EXCEPT !.seq = -1]
ReadDone == [NoChunk EXCEPT !.seq = -2]

Running == {"loop", "submit", "wait"}
Stopped == {"idle", "ok", "failed", "crashed"}

\* The range of the job.
FirstRow == IF Partitioned /\ EndRow > 0 THEN StartRow ELSE 0
LastRow == IF Partitioned /\ EndRow > 0 THEN EndRow ELSE RowCount
JobRows == {n \in 1 .. SourceRows : FirstRow < n /\ n <= LastRow}

Clamp(row) == IF row < FirstRow THEN FirstRow ELSE IF row > LastRow THEN LastRow ELSE row

\* What GetProgress gives Execute: its error is only logged.
Loaded == {saved} \cup (IF "load" \in Faults THEN {NoProgress} ELSE {})

\* Faulty: a resume starts behind the row it was saved at.
InitialRowNumSkips(loaded) == IF loaded = NoProgress THEN FirstRow ELSE Clamp(loaded + 1)

InitialRowNum(loaded) == IF loaded = NoProgress THEN FirstRow ELSE Clamp(loaded)

-----------------------------------------------------------------------------
(***************************************************************************)
(* Execute, up to the start of its goroutines.                             *)
(***************************************************************************)

\* Nothing of a partition is removed before it is read again, nor is what was written
\* after the checkpoint.
CleanTarget(loaded) == IF ~Upsert /\ loaded = NoProgress /\ ~Partitioned THEN {} ELSE target

StartJob(row, st, p) ==
  /\ reader' = [st |-> st, rowNum |-> row, seq |-> 0, msg |-> NoChunk]
  /\ chunkChan' = <<>> /\ inHand' = NoChunk /\ loopErr' = FALSE /\ ctxDone' = FALSE
  /\ ack' = [expected |-> 0, pending |-> {}, rowNum |-> row, completed |-> 0, draining |-> FALSE]
  /\ StartPool(p)

\* The error of the truncation is ignored as well.
Execute ==
  /\ pc \in Stopped /\ attempt < MaxAttempts
  /\ attempt' = attempt + 1 /\ pc' = "loop"
  /\ \E loaded \in Loaded :
       /\ \/ target' = CleanTarget(loaded)
          \/ "cleanup" \in Faults /\ UNCHANGED target
       /\ StartJob(InitialRowNum(loaded), "read", NewPool)
  /\ UNCHANGED saved

-----------------------------------------------------------------------------
(***************************************************************************)
(* The reader goroutine.                                                   *)
(***************************************************************************)

PageSize == IF reader.rowNum + ChunkSize > LastRow THEN LastRow - reader.rowNum ELSE ChunkSize
Page == {n \in 1 .. SourceRows : reader.rowNum < n /\ n <= reader.rowNum + PageSize}

Sending(msg, next) == reader' = [next EXCEPT !.st = "send", !.msg = msg]

ReadPage ==
  /\ reader.st = "read" /\ reader.rowNum < LastRow /\ ~ctxDone
  /\ IF Page = {} THEN Sending(ReadDone, reader)
     ELSE LET rowNum == reader.rowNum + Cardinality(Page)
          IN Sending([rows |-> Page, rowNum |-> rowNum, seq |-> reader.seq],
                     [reader EXCEPT !.rowNum = rowNum, !.seq = @ + 1])
  /\ UNCHANGED <<target, saved, attempt, pc, chunkChan, inHand, loopErr, ack, ctxDone, poolVars>>

ReadFails ==
  /\ reader.st = "read" /\ reader.rowNum < LastRow
  /\ ctxDone \/ "read" \in Faults
  /\ Sending(ReadError, reader)
  /\ UNCHANGED <<target, saved, attempt, pc, chunkChan, inHand, loopErr, ack, ctxDone, poolVars>>

ReadEnds ==
  /\ reader.st = "read" /\ reader.rowNum >= LastRow
  /\ Sending(ReadDone, reader)
  /\ UNCHANGED <<target, saved, attempt, pc, chunkChan, inHand, loopErr, ack, ctxDone, poolVars>>

\* A page that is not full is the last one.
Send ==
  /\ reader.st = "send" /\ Len(chunkChan) < ChunkBuf
  /\ chunkChan' = Append(chunkChan, reader.msg)
  /\ IF reader.msg \in {ReadError, ReadDone} THEN reader' = [reader EXCEPT !.st = "closed"]
     ELSE IF Cardinality(reader.msg.rows) < ChunkSize /\ reader.rowNum < LastRow
     THEN Sending(ReadDone, reader)
     ELSE reader' = [reader EXCEPT !.st = "read"]
  /\ UNCHANGED <<target, saved, attempt, pc, inHand, loopErr, ack, ctxDone, poolVars>>

ReaderStep == ReadPage \/ ReadFails \/ ReadEnds \/ Send

-----------------------------------------------------------------------------
(***************************************************************************)
(* The consumer: Execute's own goroutine.                                  *)
(***************************************************************************)

Receive ==
  /\ pc = "loop" /\ chunkChan # <<>>
  /\ chunkChan' = Tail(chunkChan)
  /\ CASE Head(chunkChan) = ReadError ->
            pc' = "wait" /\ loopErr' = TRUE /\ UNCHANGED inHand /\ CancelPool
       [] Head(chunkChan) = ReadDone ->
            pc' = "wait" /\ UNCHANGED <<inHand, loopErr, poolVars>>
       [] OTHER ->
            pc' = "submit" /\ inHand' = Head(chunkChan) /\ UNCHANGED <<loopErr, poolVars>>
  /\ UNCHANGED <<target, saved, attempt, reader, ack, ctxDone>>

Submit ==
  /\ pc = "submit"
  /\ \/ SubmitTaken(inHand) /\ pc' = "loop" /\ UNCHANGED loopErr
     \/ SubmitRefused /\ pc' = "wait" /\ loopErr' = (writeErr \/ ctxDone)
  /\ inHand' = NoChunk
  /\ UNCHANGED <<target, saved, attempt, reader, chunkChan, ack, ctxDone>>

Wait ==
  /\ pc = "wait" /\ CloseJobs
  /\ UNCHANGED jobVars

SaveProgress(rowNum) ==
  \/ saved' = rowNum
  \/ "save" \in Faults /\ UNCHANGED saved

Return ==
  /\ pc = "wait" /\ Drained /\ ~ack.draining
  /\ IF loopErr \/ writeErr THEN pc' = "failed" /\ UNCHANGED saved
     ELSE pc' = "ok" /\ SaveProgress(ack.rowNum)
  /\ UNCHANGED <<target, attempt, reader, chunkChan, inHand, loopErr, ack, ctxDone, poolVars>>

ConsumerStep == Receive \/ Submit \/ Wait \/ Return

-----------------------------------------------------------------------------
(***************************************************************************)
(* The workers' write function, and the ack processor.                     *)
(***************************************************************************)

DuplicateKey(rows) == ~Upsert /\ rows \cap target # {}

Write(g) ==
  /\ worker[g].st = "write" /\ ~DuplicateKey(worker[g].job.rows)
  /\ target' = target \cup worker[g].job.rows
  /\ WriteReturns(g)
  /\ UNCHANGED <<saved, attempt, pc, reader, chunkChan, inHand, loopErr, ack, ctxDone>>

\* The rows of a job that an unfinished write leaves in the target.
Prefixes(rows) == {{n \in rows : n <= k} : k \in rows \cup {0}}

WriteFails(g) ==
  /\ worker[g].st = "write"
  /\ "write" \in Faults \/ poolDone \/ DuplicateKey(worker[g].job.rows)
  /\ \E torn \in Prefixes(worker[g].job.rows) : target' = target \cup torn
  /\ WriteReturnsError(g)
  /\ UNCHANGED <<saved, attempt, pc, reader, chunkChan, inHand, loopErr, ack, ctxDone>>

WorkerStep(g) ==
  \/ Write(g) \/ WriteFails(g)
  \/ (TakeJob(g) \/ JobsEnd(g) \/ SendAck(g)) /\ UNCHANGED jobVars

\* Faulty: what was acknowledged last is saved, whatever lies before it.
AckRoundUnordered(a) ==
  /\ ack' = [ack EXCEPT !.rowNum = a.rowNum, !.completed = @ + 1]
  /\ SaveProgress(a.rowNum)

\* One round of the handler's loop, for the acknowledgement that is due.
AckRound(a) ==
  /\ ack' = [expected  |-> ack.expected + 1, pending |-> ack.pending \ {a}, rowNum |-> a.rowNum,
             completed |-> ack.completed + 1,
             draining  |-> \E b \in ack.pending : b.seq = ack.expected + 1]
  /\ IF (ack.completed + 1) % CheckpointFreq = 0 THEN SaveProgress(a.rowNum) ELSE UNCHANGED saved

\* Faulty: an acknowledgement is handled when it comes.
ReceiveAckAtOnce ==
  /\ ~ack.draining /\ TakeAck
  /\ AckRoundUnordered(Head(ackChan))
  /\ UNCHANGED <<target, attempt, pc, reader, chunkChan, inHand, loopErr, ctxDone>>

ReceiveAck ==
  /\ ~ack.draining /\ TakeAck
  /\ LET a == Head(ackChan)
     IN IF a.seq = ack.expected THEN AckRound(a)
        ELSE ack' = [ack EXCEPT !.pending = @ \cup {a}] /\ UNCHANGED saved
  /\ UNCHANGED <<target, attempt, pc, reader, chunkChan, inHand, loopErr, ctxDone>>

DrainPending ==
  /\ ack.draining
  /\ \E a \in ack.pending : a.seq = ack.expected /\ AckRound(a)
  /\ UNCHANGED <<target, attempt, pc, reader, chunkChan, inHand, loopErr, ctxDone, poolVars>>

AckStep == ReceiveAck \/ DrainPending

-----------------------------------------------------------------------------
(***************************************************************************)
(* The environment, and the specification.                                 *)
(***************************************************************************)

Cancel ==
  /\ "cancel" \in Faults /\ pc \in Running /\ ~ctxDone
  /\ ctxDone' = TRUE /\ CancelPool
  /\ UNCHANGED <<target, saved, attempt, pc, reader, chunkChan, inHand, loopErr, ack>>

Crash ==
  /\ "crash" \in Faults /\ pc \in Running
  /\ \E torn \in [{g \in Goroutines : worker[g].st = "write"} -> SUBSET JobRows] :
       /\ \A g \in DOMAIN torn : torn[g] \in Prefixes(worker[g].job.rows)
       /\ target' = target \cup UNION {torn[g] : g \in DOMAIN torn}
  /\ pc' = "crashed"
  /\ StartJob(FirstRow, "closed", NoPool)
  /\ UNCHANGED <<saved, attempt>>

Terminated == pc \in Stopped /\ attempt = MaxAttempts /\ UNCHANGED vars

Init ==
  /\ target = {} /\ saved = NoProgress /\ attempt = 0 /\ pc = "idle"
  /\ reader = [st |-> "closed", rowNum |-> 0, seq |-> 0, msg |-> NoChunk]
  /\ chunkChan = <<>> /\ inHand = NoChunk /\ loopErr = FALSE /\ ctxDone = FALSE
  /\ ack = [expected |-> 0, pending |-> {}, rowNum |-> 0, completed |-> 0, draining |-> FALSE]
  /\ PoolInit

Next ==
  \/ Execute
  \/ ReaderStep \/ ConsumerStep
  \/ \E g \in Goroutines : WorkerStep(g)
  \/ AckStep
  \/ Cancel \/ Crash
  \/ Terminated

\* Every goroutine keeps running, and every database call returns.
Spec ==
  /\ Init /\ [][Next]_vars
  /\ WF_vars(ReaderStep) /\ WF_vars(ConsumerStep) /\ WF_vars(AckStep)
  /\ \A g \in 1 .. MaxGoroutines : WF_vars(g \in Goroutines /\ WorkerStep(g))

-----------------------------------------------------------------------------

Chunk == [rows : SUBSET (1 .. SourceRows), rowNum : Nat, seq : Nat]
ChunkResult == Chunk \cup {ReadError, ReadDone}

\* The types of the job's state.
TypeOK ==
  /\ target \subseteq 1 .. SourceRows
  /\ saved \in Nat \cup {NoProgress} /\ attempt \in Nat /\ pc \in Running \cup Stopped
  /\ reader \in [st : {"read", "send", "closed"}, rowNum : Nat, seq : Nat, msg : ChunkResult]
  /\ chunkChan \in Seq(ChunkResult) /\ inHand \in Chunk /\ loopErr \in BOOLEAN
  /\ ack \in [expected : Nat, pending : SUBSET Chunk, rowNum : Nat, completed : Nat,
              draining : BOOLEAN]
  /\ ctxDone \in BOOLEAN
  /\ jobChan \in Seq(Chunk) /\ jobsClosed \in BOOLEAN /\ ackChan \in Seq(Chunk)
  /\ worker \in [Goroutines -> [st : {"idle", "write", "ack", "gone"}, job : Chunk \cup {NoJob},
                                cancelled : {FALSE}]]
  /\ \A g \in Goroutines : worker[g].st \in {"write", "ack"} => worker[g].job \in Chunk
  /\ poolDone \in BOOLEAN /\ writeErr \in BOOLEAN /\ totalWritten \in Nat

\* No table is truncated whose checkpoint could not be loaded.
NoBlindTruncation == "load" \notin Faults \/ Upsert \/ Partitioned

\* A resume skips no row: those up to the row number of the checkpoint are in the target,
\* whatever crashes or is reordered.  It needs NoBlindTruncation: otherwise the table is
\* emptied, and the checkpoint stays.
CheckpointSafe == \A n \in JobRows : n <= saved => n \in target

\* When Execute returns no error, and nobody cancelled it, the rows of the job are in the
\* target, up to the estimate of their number at which it ends: no attempt goes on from a
\* row number whose rows have gone.  It needs NoBlindTruncation, too.
SuccessMeansAllWritten == pc = "ok" /\ ~ctxDone => JobRows \subseteq target

\* Execute returns, whatever becomes of its goroutines, its chunks and its pool.
ExecuteReturns == pc \in Running ~> pc \in Stopped

-----------------------------------------------------------------------------
(***************************************************************************)
(* What is inductive.                                                      *)
(***************************************************************************)

InChan(chan) == {chan[i] : i \in 1 .. Len(chan)}
JobsAt(st) == {worker[g].job : g \in {x \in Goroutines : worker[x].st = st}}

\* The chunks of this attempt that are on their way to the target, and those that have
\* been written and whose acknowledgement is on its way to the checkpoint.
Unwritten ==
  {m \in {reader.msg} : reader.st = "send"} \cup InChan(chunkChan)
  \cup {c \in {inHand} : pc = "submit"} \cup InChan(jobChan) \cup JobsAt("write")
Written == JobsAt("ack") \cup InChan(ackChan) \cup ack.pending

AcksWritten == \A c \in Written : c.rows \subseteq target

\* The ack processor has acknowledgements without a gap up to its row number.
PrefixWritten == \A n \in JobRows : n <= ack.rowNum => n \in target

\* Chunk s reaches from row cut[s] up to cut[s + 1].
Consecutive(cut) ==
  /\ cut[reader.seq] = reader.rowNum
  /\ ack.expected \in 0 .. reader.seq /\ ack.rowNum = cut[ack.expected]
  /\ \A c \in (Unwritten \cup Written) \ {ReadError, ReadDone} :
       /\ c.seq < reader.seq /\ c.rowNum = cut[c.seq + 1]
       /\ \A n \in JobRows : cut[c.seq] < n /\ n <= c.rowNum => n \in c.rows
ChunksConsecutive == \E cut \in [0 .. reader.seq -> 0 .. reader.rowNum] : Consecutive(cut)

SafeInv == TypeOK /\ AcksWritten /\ PrefixWritten /\ ChunksConsecutive /\ CheckpointSafe

\* An attempt that has gone well so far.
Healthy == ~loopErr /\ ~writeErr /\ ~ctxDone

\* What the reader has passed is in the target or on its way, and the pool works on.
NothingLost ==
  pc \in Running /\ Healthy =>
    /\ ~poolDone
    /\ \A n \in JobRows : n <= reader.rowNum => n \in target \/ \E c \in Unwritten : n \in c.rows
    /\ \A g \in Goroutines : Gone(g) => jobsClosed /\ jobChan = <<>>

\* An end, or an error, is the last thing that the reader sends.
EndIsLast ==
  \A i \in 1 .. Len(chunkChan) :
    chunkChan[i] \in {ReadError, ReadDone} => i = Len(chunkChan) /\ reader.st = "closed"

EndIsEnd ==
  /\ pc \in Running /\ ReadDone \in Unwritten => \A n \in JobRows : n <= reader.rowNum
  /\ pc = "wait" /\ Healthy => reader.st = "closed" /\ chunkChan = <<>>
                              /\ \A n \in JobRows : n <= reader.rowNum
  /\ reader.st = "send" /\ reader.msg \in Chunk /\ Cardinality(reader.msg.rows) < ChunkSize
     /\ reader.rowNum < LastRow => \A n \in JobRows : n <= reader.rowNum

JobsOpen ==
  /\ pc \in {"loop", "submit"} => ~jobsClosed /\ ~loopErr
  /\ pc \in Running => Goroutines # {}

SuccessInv == NothingLost /\ EndIsLast /\ EndIsEnd /\ JobsOpen /\ SuccessMeansAllWritten
=============================================================================

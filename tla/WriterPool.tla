---------------------------- MODULE WriterPool ----------------------------
(***************************************************************************)
(* pool.WriterPool: write workers that take jobs from a channel and send   *)
(* an acknowledgement for each job they have written.  Its users are       *)
(* transfer.Execute and pipeline.Execute, whose write function, and what   *)
(* it does to the target, is in their modules.                             *)
(*                                                                         *)
(* A job is a record; the pool looks at none of its fields but rows, the   *)
(* set of its rows.  The goroutines are numbered as they start; workers is *)
(* wp.workers, the list of those that count.                               *)
(***************************************************************************)
EXTENDS Integers, Sequences, FiniteSets

CONSTANTS
  NumWriters,       \* NumWriters of the WriterPoolConfig
  JobBuf, AckBuf,   \* the capacities of jobChan and ackChan
  EnableAck,        \* whether there is an ackChan
  MaxWorkers,       \* the most that ScaleWorkers accepts: 128
  MaxGoroutines     \* bound on the goroutines that a pool starts

ASSUME PoolAssumption ==
  /\ NumWriters \in 1 .. MaxWorkers
  /\ JobBuf \in Nat \ {0} /\ AckBuf \in Nat \ {0}
  /\ EnableAck \in BOOLEAN
  /\ NumWriters <= MaxGoroutines

VARIABLES
  jobChan, jobsClosed,
  ackChan,
  worker,           \* worker[g]: where goroutine g is, its job, and workerCtx
  workers,          \* wp.workers, by goroutine
  poolDone,         \* wp.ctx is cancelled
  writeErr,
  totalWritten

poolVars == <<jobChan, jobsClosed, ackChan, worker, workers, poolDone, writeErr, totalWritten>>

NoJob == [rows |-> {}]
Idle == [st |-> "idle", job |-> NoJob, cancelled |-> FALSE]

Goroutines == DOMAIN worker
Gone(g) == worker[g].st = "gone"
SetWorker(g, st, job) ==
  worker' = [worker EXCEPT ![g].st = st, ![g].job = job]

\* NewWriterPool and Start, for the pool's users to begin with.
NewPool ==
  [worker |-> [g \in 1 .. NumWriters |-> Idle], workers |-> [i \in 1 .. NumWriters |-> i]]

StartPool(p) ==
  /\ jobChan' = <<>> /\ jobsClosed' = FALSE /\ ackChan' = <<>>
  /\ worker' = p.worker /\ workers' = p.workers
  /\ poolDone' = FALSE /\ writeErr' = FALSE /\ totalWritten' = 0

NoPool == [worker |-> <<>>, workers |-> <<>>]

PoolInit ==
  /\ jobChan = <<>> /\ jobsClosed = FALSE /\ ackChan = <<>>
  /\ worker = <<>> /\ workers = <<>>
  /\ poolDone = FALSE /\ writeErr = FALSE /\ totalWritten = 0

-----------------------------------------------------------------------------
(***************************************************************************)
(* The loop of a worker.                                                   *)
(***************************************************************************)

\* The worker looks at its context only after it has taken a job, which is then gone.
TakeJob(g) ==
  /\ worker[g].st = "idle" /\ jobChan # <<>>
  /\ jobChan' = Tail(jobChan)
  /\ IF worker[g].cancelled \/ poolDone THEN SetWorker(g, "gone", NoJob)
     ELSE SetWorker(g, "write", Head(jobChan))
  /\ UNCHANGED <<jobsClosed, ackChan, workers, poolDone, writeErr, totalWritten>>

JobsEnd(g) ==
  /\ worker[g].st = "idle" /\ jobChan = <<>> /\ jobsClosed
  /\ SetWorker(g, "gone", NoJob)
  /\ UNCHANGED <<jobChan, jobsClosed, ackChan, workers, poolDone, writeErr, totalWritten>>

WriteReturns(g) ==
  /\ worker[g].st = "write"
  /\ totalWritten' = totalWritten + Cardinality(worker[g].job.rows)
  /\ IF EnableAck THEN SetWorker(g, "ack", worker[g].job) ELSE SetWorker(g, "idle", NoJob)
  /\ UNCHANGED <<jobChan, jobsClosed, ackChan, workers, poolDone, writeErr>>

\* Faulty: a pool whose context is cancelled keeps no error.
WriteReturnsErrorUnkept(g) ==
  /\ worker[g].st = "write"
  /\ poolDone' = TRUE
  /\ SetWorker(g, "gone", NoJob)
  /\ UNCHANGED <<jobChan, jobsClosed, ackChan, workers, writeErr, totalWritten>>

WriteReturnsError(g) ==
  /\ worker[g].st = "write"
  /\ writeErr' = TRUE /\ poolDone' = TRUE
  /\ SetWorker(g, "gone", NoJob)
  /\ UNCHANGED <<jobChan, jobsClosed, ackChan, workers, totalWritten>>

\* A select with a default: it is taken only when ackChan is full and the context is
\* not done, and loses the acknowledgement.
SendAck(g) ==
  /\ worker[g].st = "ack"
  /\ \/ /\ Len(ackChan) < AckBuf
        /\ ackChan' = Append(ackChan, worker[g].job)
        /\ SetWorker(g, "idle", NoJob)
     \/ /\ poolDone
        /\ SetWorker(g, "gone", NoJob)
        /\ UNCHANGED ackChan
     \/ /\ Len(ackChan) = AckBuf /\ ~poolDone
        /\ SetWorker(g, "idle", NoJob)
        /\ UNCHANGED ackChan
  /\ UNCHANGED <<jobChan, jobsClosed, workers, poolDone, writeErr, totalWritten>>

-----------------------------------------------------------------------------
(***************************************************************************)
(* The operations of the pool.                                             *)
(***************************************************************************)

\* Submit, when it returns true, and when it returns false: with room in jobChan and
\* a context that is done, either.
SubmitTaken(job) ==
  /\ Len(jobChan) < JobBuf
  /\ jobChan' = Append(jobChan, job)
  /\ UNCHANGED <<jobsClosed, ackChan, worker, workers, poolDone, writeErr, totalWritten>>

SubmitRefused == poolDone /\ UNCHANGED poolVars

CancelPool ==
  /\ poolDone' = TRUE
  /\ UNCHANGED <<jobChan, jobsClosed, ackChan, worker, workers, writeErr, totalWritten>>

\* Faulty: the channel of a cancelled pool stays open.
CloseJobsUnlessDone ==
  /\ ~jobsClosed /\ ~poolDone /\ jobsClosed' = TRUE
  /\ UNCHANGED <<jobChan, ackChan, worker, workers, poolDone, writeErr, totalWritten>>

\* Wait: it closes jobChan, and returns when the workers are gone and the ack
\* processor has handled every acknowledgement.
CloseJobs ==
  /\ ~jobsClosed /\ jobsClosed' = TRUE
  /\ UNCHANGED <<jobChan, ackChan, worker, workers, poolDone, writeErr, totalWritten>>

Drained == jobsClosed /\ ackChan = <<>> /\ \A g \in Goroutines : Gone(g)

\* Acks: the ack processor receives the next one.
TakeAck ==
  /\ ackChan # <<>> /\ ackChan' = Tail(ackChan)
  /\ UNCHANGED <<jobChan, jobsClosed, worker, workers, poolDone, writeErr, totalWritten>>

\* ScaleWorkers, when it returns no error.  A worker that is cancelled may be waiting
\* for a job.
ScaleWorkers(n) ==
  LET count == Len(workers)
      added == [i \in 1 .. n - count |-> Len(worker) + i]
  IN /\ n \in 1 .. MaxWorkers /\ n # count
     /\ n > count => Len(worker) + n - count <= MaxGoroutines
     /\ IF n > count
        THEN /\ worker' = worker \o [i \in 1 .. n - count |-> Idle]
             /\ workers' = workers \o added
        ELSE /\ worker' = [g \in Goroutines |->
                  [worker[g] EXCEPT !.cancelled = @ \/ \E i \in n + 1 .. count : workers[i] = g]]
             /\ workers' = SubSeq(workers, 1, n)
     /\ UNCHANGED <<jobChan, jobsClosed, ackChan, poolDone, writeErr, totalWritten>>

ScaleWorkersRefused(n) == n \notin 1 .. MaxWorkers \/ n = Len(workers)
=============================================================================

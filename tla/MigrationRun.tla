---------------------------- MODULE MigrationRun ----------------------------
(***************************************************************************)
(* A migration of dmt, from run to resume: the orchestrator, the builder   *)
(* of the jobs and the runner that executes them, over the state backend.  *)
(*                                                                         *)
(* A run prepares the target's tables, cuts the large ones up into         *)
(* partitions, executes the jobs on a pool of workers in two batches,      *)
(* validates the row counts and records how it ended.  A run that a crash  *)
(* or Ctrl+C interrupted is resumed by another process, which decides for  *)
(* each table what the target and the saved progress still say.            *)
(*                                                                         *)
(* A row is identified by its table and its position in key order, and     *)
(* every table has a primary key.  What a job does inside transfer.Execute *)
(* is what TransferJob says of it, plus the count of rows it saves.        *)
(***************************************************************************)
EXTENDS Integers, Sequences, FiniteSets

CONSTANTS
  Tables,           \* the tables of the source, after filtering
  RowCount,         \* RowCount[t]: the rows of t, none of which changes
  Keyset,           \* the tables with a single integer key
  Foreign,          \* rows <<t, n>> the source does not have
  Before,           \* rows that earlier migrations left in the target
  Upsert,           \* target_mode: upsert, rather than drop_recreate
  LargeTableThreshold, ChunkSize, MaxPartitions, Workers,
  MaxRetries,       \* max_retries, after defaulting
  NoProgress,       \* no row of transfer_progress
  MaxRuns,          \* bound on the runs created
  MaxStarts,        \* bound on the processes started
  MaxFaults,        \* bound on the crashes, cancellations and errors
  Faults            \* what may go wrong, a subset of FaultKinds

\* The process dies; Ctrl+C; a statement fails; one runs into a deadline; a cancelled
\* job loses rows and succeeds; counts are stale; counting at the end is too slow.  And
\* errors that are ignored: of the count of a complete table, of loading or clearing a
\* job's progress, of its clean-up, of its last save (which also lags when a cancelled
\* job's acks are dropped).
FaultKinds == {"crash", "cancel", "error", "deadline", "lost", "stats", "slow",
               "count", "load", "cleanup", "save"}

ASSUME MigrationAssumption ==
  /\ RowCount \in [Tables -> Nat \ {0}] /\ Keyset \subseteq Tables
  /\ Foreign \subseteq Tables \X Int /\ Before \subseteq Tables \X Int
  /\ \A row \in Foreign : row[2] \notin 1 .. RowCount[row[1]]
  /\ \A row \in Before : row \in Foreign \/ row[2] \in 1 .. RowCount[row[1]]
  /\ Upsert \in BOOLEAN
  /\ NoProgress \notin [last : Nat, rows : Nat]
  /\ LargeTableThreshold \in Nat /\ ChunkSize \in Nat \ {0}
  /\ MaxPartitions \in Nat \ {0} /\ Workers \in Nat \ {0} /\ MaxRetries \in Nat \ {0}
  /\ MaxRuns \in Nat /\ MaxStarts \in Nat /\ MaxFaults \in Nat /\ Faults \subseteq FaultKinds

VARIABLES
  target,           \* rows <<t, n>> in the target
  exists,           \* tables that exist in the target
  runs,             \* the runs, and their tasks and progress, in the state backend
  starts,           \* how many processes have been started
  pc,               \* where Run or Resume is; "down" when there is no process
  cur,              \* the run that the process works on
  toTransfer,       \* the tables whose jobs are built
  toPrepare,        \* the tables that Resume has not yet prepared
  job,              \* job[k]: the goroutine of the job with task key k
  ctxDone,          \* the context is cancelled
  faults            \* how many faults there have been

durable == <<target, exists, runs>>
process == <<starts, pc, cur, toTransfer, toPrepare>>
env == <<ctxDone, faults>>
vars == <<durable, process, job, env>>

RowsOf(t) == {<<t, n>> : n \in 1 .. RowCount[t]}
AllRows == UNION {RowsOf(t) : t \in Tables}
InTarget(t) == {row \in target : row[1] = t}

-----------------------------------------------------------------------------
(***************************************************************************)
(* Jobs.                                                                   *)
(***************************************************************************)

IsLarge(t) == RowCount[t] > LargeTableThreshold

NumPartitions(t) ==
  LET n == RowCount[t] \div ChunkSize + 1
  IN IF n <= MaxPartitions THEN n ELSE MaxPartitions

\* Part 0 is the table's own task, and the whole table's job if it has one.
TableKey(t) == [table |-> t, part |-> 0]
PartKeys(t) == {[table |-> t, part |-> p] : p \in 1 .. NumPartitions(t)}
Jobs(t) == IF IsLarge(t) THEN PartKeys(t) ELSE {TableKey(t)}
TaskKeys == UNION {{TableKey(t)} \cup Jobs(t) : t \in Tables}

\* The positions of job k's rows are those after First(k), up to Last(k).  The
\* boundaries of keyset partitions are the database's, and as even as these.
PartSize(t) == RowCount[t] \div NumPartitions(t)
First(k) == IF k.part = 0 THEN 0 ELSE (k.part - 1) * PartSize(k.table)

\* Faulty: the last partition ends where its size says.
LastShort(k) ==
  IF k.part = 0 THEN RowCount[k.table] ELSE k.part * PartSize(k.table)

Last(k) ==
  IF k.part \in {0, NumPartitions(k.table)} THEN RowCount[k.table]
  ELSE k.part * PartSize(k.table)

\* Rows of job k's table after position a, up to position b.
Span(k, a, b) == {<<k.table, n>> : n \in a + 1 .. b}

Covered(k, progress) ==
  IF progress = NoProgress THEN {} ELSE Span(k, First(k), progress.last)

NoJob == [st |-> "none", attempt |-> 0, from |-> 0, base |-> 0, wrote |-> {}]
In(k, states) == job[k].st \in states
Move(k, st) == job' = [job EXCEPT ![k].st = st]
EndJob(k, st) == job' = [job EXCEPT ![k] = [NoJob EXCEPT !.st = st]]

Ended == {"done", "failed", "canceled"}
Active == {"launched", "ready", "copy", "retry", "ok", "marked"}

\* Jobs of the first batch: whole tables and first partitions.
Batch(n) ==
  {k \in UNION {Jobs(t) : t \in toTransfer} : (k.part <= 1) = (n = 1)}
BatchOf == [batch1 |-> Batch(1), batch2 |-> Batch(2)]
Batches == {"batch1", "batch2"}

FailedTables == {k.table : k \in {x \in TaskKeys : In(x, {"failed", "canceled"})}}

-----------------------------------------------------------------------------
(***************************************************************************)
(* The state backend.                                                      *)
(***************************************************************************)

NewRun == [status   |-> "running",
           task     |-> [k \in TaskKeys |-> "none"],
           progress |-> [k \in TaskKeys |-> NoProgress]]

Progress(k) == runs[cur].progress[k]

\* What loading the progress of a job finds, and what clearing it leaves.
Loaded(k) == {Progress(k)} \cup (IF "load" \in Faults THEN {NoProgress} ELSE {})
Cleared(k) == {NoProgress} \cup (IF "load" \in Faults THEN {Progress(k)} ELSE {})

SetTask(k, status) == runs' = [runs EXCEPT ![cur].task[k] = status]
SaveProgress(k, last, rows) ==
  runs' = [runs EXCEPT ![cur].progress[k] = [last |-> last, rows |-> rows]]

\* Nothing reads the tasks of a run that has ended, so they are forgotten.
CompleteRun(i, status) == runs' = [runs EXCEPT ![i] = [NewRun EXCEPT !.status = status]]

\* MarkRunAsResumed: running tasks are pending again.
Reset(task) == [k \in TaskKeys |-> IF task[k] = "running" THEN "pending" ELSE task[k]]

Incomplete == {i \in 1 .. Len(runs) : runs[i].status = "running"}
IsLastIncomplete(i) == i \in Incomplete /\ \A j \in Incomplete : j <= i

\* Faulty: looks for a success before the run instead of after it.
SupersededByEarlier(i) == \E j \in 1 .. i - 1 : runs[j].status = "success"

Superseded(i) == \E j \in i + 1 .. Len(runs) : runs[j].status = "success"

Fault(f) == f \in Faults /\ faults < MaxFaults /\ faults' = faults + 1

\* What GetRowCount may answer: the databases estimate it from statistics.
Counts(t) ==
  {Cardinality(InTarget(t))} \cup (IF "stats" \in Faults THEN 1 .. RowCount[t] ELSE {})

-----------------------------------------------------------------------------
(***************************************************************************)
(* The process.                                                            *)
(***************************************************************************)

\* The process ends, and its goroutines with it.
ProcessEnds ==
  /\ pc' = "down" /\ cur' = 0 /\ toTransfer' = {} /\ toPrepare' = {}
  /\ job' = [k \in TaskKeys |-> NoJob]
  /\ ctxDone' = FALSE
  /\ UNCHANGED starts

Goto(label) == pc' = label /\ UNCHANGED <<starts, cur, toTransfer, toPrepare>>

\* Run or Resume returns, and the run has ended.
Return(status) ==
  /\ CompleteRun(cur, status)
  /\ UNCHANGED <<target, exists>>
  /\ ProcessEnds

\* Run, up to PrepareTables.
Run ==
  /\ pc = "down" /\ starts < MaxStarts /\ Len(runs) < MaxRuns
  /\ starts' = starts + 1
  /\ runs' = Append(runs, NewRun)
  /\ cur' = Len(runs) + 1
  /\ toTransfer' = Tables /\ toPrepare' = {}
  /\ pc' = IF Upsert THEN "check" ELSE "drop"
  /\ UNCHANGED <<target, exists, job, env>>

DropTable(t) ==
  /\ pc = "drop" /\ t \in exists
  /\ exists' = exists \ {t}
  /\ target' = target \ InTarget(t)
  /\ UNCHANGED <<runs, process, job, env>>

\* Faulty: the second phase of PrepareTables is skipped.
TablesDroppedOnly ==
  /\ pc = "drop" /\ exists = {}
  /\ Goto("build")
  /\ UNCHANGED <<durable, job, env>>

TablesDropped ==
  /\ pc = "drop" /\ exists = {}
  /\ Goto("create")
  /\ UNCHANGED <<durable, job, env>>

CreateTable(t) ==
  /\ pc = "create" /\ t \notin exists
  /\ exists' = exists \cup {t}
  /\ UNCHANGED <<target, runs, process, job, env>>

\* PrepareTables of upsert only checks that the tables are there.
TablesReady ==
  /\ pc \in {"create", "check"} /\ exists = Tables
  /\ Goto("build")
  /\ UNCHANGED <<durable, job, env>>

\* A statement fails while the tables are prepared, by Run or by Resume.
PrepareFails ==
  /\ pc \in {"drop", "create", "check", "prepare"}
  /\ \/ Fault("error")
     \/ UNCHANGED faults /\ (ctxDone \/ (pc = "check" /\ exists # Tables))
  /\ Return("failed")

\* The tables that Resume skips: marked complete, and counted with the right count.
CompleteTables(i) == {t \in Tables : runs[i].task[TableKey(t)] = "success"}
CanSkip(i, t) == t \in CompleteTables(i) /\ RowCount[t] \in Counts(t)
MustSkip(i, t) ==
  t \in CompleteTables(i) /\ Counts(t) = {RowCount[t]} /\ "count" \notin Faults

\* Resume, up to the preparation of the tables.
Resume ==
  /\ pc = "down" /\ starts < MaxStarts
  /\ starts' = starts + 1
  /\ \E i \in 1 .. Len(runs) :
       /\ IsLastIncomplete(i)
       /\ IF Superseded(i)
          THEN /\ CompleteRun(i, "failed")
               /\ UNCHANGED <<pc, cur, toTransfer, toPrepare>>
          ELSE /\ runs' = [runs EXCEPT ![i].task = Reset(@)]
               /\ cur' = i
               /\ toTransfer' \in SUBSET {t \in Tables : ~MustSkip(i, t)}
               /\ \A t \in Tables \ toTransfer' : CanSkip(i, t)
               /\ toPrepare' = toTransfer'
               /\ pc' = IF toTransfer' = {} THEN "finish" ELSE "prepare"
  /\ UNCHANGED <<target, exists, job, env>>

\* Faulty: tables with partitions are truncated like the others.
TruncatesOnResumeAll(t) == TRUE

\* A table without progress is truncated, unless its partitions clean up.
TruncatesOnResume(t) == ~(IsLarge(t) /\ t \in Keyset)

\* Resume's preparation of one table.  A crash between its statements leaves a
\* state from which the next Resume does the rest.
ResumeTable(t) ==
  LET key == TableKey(t)
      task == IF runs[cur].task[key] = "none" THEN "pending" ELSE runs[cur].task[key]
      With(progress) == runs' = [runs EXCEPT ![cur].task[key] = task,
                                             ![cur].progress[key] = progress]
  IN /\ pc = "prepare" /\ t \in toPrepare
     /\ toPrepare' = toPrepare \ {t}
     /\ exists' = exists \cup {t}
     /\ \E loaded \in Loaded(key), cleared \in Cleared(key) :
          \/ t \notin exists /\ With(cleared) /\ UNCHANGED target
          \/ /\ t \in exists /\ loaded = NoProgress
             /\ With(Progress(key))
             /\ target' = IF TruncatesOnResume(t) THEN target \ InTarget(t) ELSE target
          \/ /\ t \in exists /\ loaded # NoProgress
             /\ \E count \in Counts(t) :
                  IF count < loaded.rows
                  THEN With(cleared) /\ target' = target \ InTarget(t)
                  ELSE With(Progress(key)) /\ UNCHANGED target
     /\ UNCHANGED <<starts, pc, cur, toTransfer, job, env>>

ResumePrepared ==
  /\ pc = "prepare" /\ toPrepare = {}
  /\ Goto("build")
  /\ UNCHANGED <<durable, job, env>>

\* JobBuilder.Build: the jobs and their tasks, which may exist already.
Build ==
  /\ pc = "build"
  /\ LET keys == UNION {Jobs(t) : t \in toTransfer}
     IN /\ runs' = [runs EXCEPT ![cur].task = [k \in TaskKeys |->
                      IF k \in keys /\ @[k] = "none" THEN "pending" ELSE @[k]]]
        /\ job' = [k \in TaskKeys |-> [NoJob EXCEPT !.st = IF k \in keys THEN "new" ELSE "none"]]
  /\ Goto("batch1")
  /\ UNCHANGED <<target, exists, env>>

\* The boundaries of a partition cannot be queried.
BuildFails ==
  /\ pc = "build" /\ \E t \in toTransfer : IsLarge(t) /\ t \in Keyset
  /\ \/ Fault("error") /\ Return("failed")
     \/ /\ ctxDone /\ Goto("interrupted")
        /\ UNCHANGED <<durable, job, env>>

\* executeJobBatch starts a job when the semaphore has room.
Launch(k) ==
  /\ pc \in Batches /\ k \in BatchOf[pc] /\ In(k, {"new"})
  /\ Cardinality({x \in TaskKeys : In(x, Active)}) < Workers
  /\ Move(k, "launched")
  /\ UNCHANGED <<durable, process, env>>

FirstBatchDone ==
  /\ pc = "batch1" /\ \A k \in Batch(1) : In(k, Ended)
  /\ Goto("batch2")
  /\ UNCHANGED <<durable, job, env>>

\* collectFailures: one cancelled job interrupts the run.
BatchesDone ==
  /\ pc = "batch2" /\ \A k \in Batch(2) : In(k, Ended)
  /\ Goto(IF \E k \in TaskKeys : In(k, {"canceled"}) THEN "interrupted" ELSE "finish")
  /\ UNCHANGED <<durable, job, env>>

\* It returns when the context is done, without waiting for the jobs it started.
BatchCancelled ==
  /\ pc \in Batches /\ ctxDone /\ \E k \in BatchOf[pc] : In(k, {"new"})
  /\ Goto("interrupted")
  /\ UNCHANGED <<durable, job, env>>

\* The run stays "running", for resume to find, and its running tasks are reset.
Interrupted ==
  /\ pc = "interrupted"
  /\ runs' = [runs EXCEPT ![cur].task = Reset(@)]
  /\ Goto("returned")
  /\ UNCHANGED <<target, exists, job, env>>

Exit ==
  /\ pc = "returned"
  /\ ProcessEnds
  /\ UNCHANGED <<durable, faults>>

\* Faulty: a table with too few rows passes.
SameCountAtMost(t) == Cardinality(InTarget(t)) <= RowCount[t]

\* Validate compares exact counts.
SameCount(t) == Cardinality(InTarget(t)) = RowCount[t]

\* A table whose exact count takes too long is not compared, or its estimates are,
\* for a warning.
Compared == {Tables \ FailedTables} \cup
            IF "slow" \in Faults THEN SUBSET (Tables \ FailedTables) ELSE {}

\* Finalize and Validate, of the tables that did not fail.
Finish ==
  /\ pc = "finish"
  /\ \/ Fault("error") /\ Return("failed")
     \/ /\ UNCHANGED faults
        /\ \E compared \in Compared :
             Return(IF ctxDone \/ \E t \in compared : ~SameCount(t) THEN "failed"
                    ELSE IF FailedTables # {} THEN "partial" ELSE "success")

OrchestratorStep ==
  \/ \E t \in Tables : DropTable(t) \/ CreateTable(t) \/ ResumeTable(t)
  \/ TablesDropped \/ TablesReady \/ PrepareFails
  \/ ResumePrepared \/ Build \/ BuildFails
  \/ \E k \in TaskKeys : Launch(k)
  \/ FirstBatchDone \/ BatchesDone \/ BatchCancelled
  \/ Interrupted \/ Exit \/ Finish

-----------------------------------------------------------------------------
(***************************************************************************)
(* The goroutine of a job: executeJob.                                     *)
(***************************************************************************)

\* What Execute removes from the target before it reads.
CleanTarget(k, progress) ==
  LET partition == k.part # 0
      keyset == k.table \in Keyset
  IN CASE Upsert -> target
       [] ~Upsert /\ progress = NoProgress /\ ~partition -> target \ InTarget(k.table)
       [] ~Upsert /\ progress = NoProgress /\ partition ->
            IF keyset THEN target \ Span(k, First(k), Last(k)) ELSE target
       [] ~Upsert /\ progress # NoProgress ->
            IF ~keyset THEN target
            ELSE {row \in target : \/ row[1] # k.table \/ row[2] <= progress.last
                                   \/ partition /\ row[2] > Last(k)}

MarkRunning(k) ==
  /\ In(k, {"launched"})
  /\ SetTask(k, "running")
  /\ Move(k, "ready")
  /\ UNCHANGED <<target, exists, process, env>>

\* Execute loads the progress and cleans the target.
Execute(k) ==
  /\ In(k, {"ready"})
  /\ \E loaded \in Loaded(k) :
       /\ target' = CleanTarget(k, loaded) \/ ("cleanup" \in Faults /\ target' = target)
       /\ job' = [job EXCEPT ![k] =
            [st |-> "copy", attempt |-> job[k].attempt, wrote |-> {},
             from |-> IF loaded = NoProgress THEN First(k) ELSE loaded.last,
             base |-> IF loaded = NoProgress THEN 0 ELSE loaded.rows]]
  /\ UNCHANGED <<exists, runs, process, env>>

Left(k) == (job[k].from + 1 .. Last(k)) \ job[k].wrote
Inserts(k, n) == Upsert \/ <<k.table, n>> \notin target

\* Rows are written in any order.
WriteRow(k, n) ==
  /\ In(k, {"copy"}) /\ n \in Left(k) /\ Inserts(k, n)
  /\ target' = target \cup {<<k.table, n>>}
  /\ job' = [job EXCEPT ![k].wrote = @ \cup {n}]
  /\ UNCHANGED <<exists, runs, process, env>>

\* What may be saved: a position before which the job has nothing left, with the
\* number of rows written so far, those after that position included.
RowsDone(k) == job[k].base + Cardinality(job[k].wrote)
SafePositions(k) ==
  {n \in job[k].from .. Last(k) : \A x \in Left(k) : n < x}

\* A checkpoint during the transfer.
Save(k) ==
  /\ In(k, {"copy"}) /\ job[k].wrote # {}
  /\ \E n \in SafePositions(k) :
       /\ Progress(k) # NoProgress => n >= Progress(k).last
       /\ SaveProgress(k, n, RowsDone(k))
  /\ UNCHANGED <<target, exists, process, job, env>>

\* Faulty: the last checkpoint may lag behind, whatever has been acknowledged.
LastPositionsAny(k) == SafePositions(k)

LastPositions(k) ==
  IF Left(k) = {} /\ "save" \notin Faults THEN {Last(k)} ELSE SafePositions(k)

\* Execute returns without an error, after a last checkpoint if it wrote anything.
\* With "lost" and a cancelled context, its writers may have dropped rows.
ExecuteOk(k) ==
  /\ In(k, {"copy"})
  /\ Left(k) = {} \/ (ctxDone /\ "lost" \in Faults)
  /\ \/ (job[k].wrote = {} \/ "save" \in Faults) /\ UNCHANGED runs
     \/ /\ job[k].wrote # {}
        /\ \E n \in LastPositions(k) :
             /\ Progress(k) # NoProgress => n >= Progress(k).last
             /\ SaveProgress(k, n, RowsDone(k))
  /\ EndJob(k, "ok")
  /\ UNCHANGED <<target, exists, process, env>>

\* Execute returns an error that will be tried again.
ExecuteRetried(k) ==
  /\ In(k, {"copy"}) /\ \E f \in {"error", "deadline"} : Fault(f)
  /\ job[k].attempt < MaxRetries
  /\ job' = [job EXCEPT ![k] = [NoJob EXCEPT !.st = "retry", !.attempt = job[k].attempt + 1]]
  /\ UNCHANGED <<durable, process, ctxDone>>

Backoff(k) ==
  /\ In(k, {"retry"})
  /\ Move(k, "ready")
  /\ UNCHANGED <<durable, process, env>>

\* An attempt ends with an error of its own or, "canceled", with one of a context.
\* A row that is in the target cannot be inserted.
Fails(k, st) ==
  \/ /\ In(k, {"copy"})
     /\ \/ Fault(IF st = "failed" THEN "error" ELSE "deadline")
        \/ /\ ctxDone \/ (st = "failed" /\ \E n \in Left(k) : ~Inserts(k, n))
           /\ UNCHANGED faults
  \/ In(k, {"retry"}) /\ ctxDone /\ st = "canceled" /\ UNCHANGED faults

\* Faulty: every error is tried again, whatever the number of attempts.
JobRetriesForever(k) ==
  /\ \E st \in {"failed", "canceled"} : Fails(k, st)
  /\ EndJob(k, "ready")
  /\ UNCHANGED <<durable, process, ctxDone>>

\* The job fails for good.  errCh is closed once the batch has been cancelled: the
\* send panics, and the process dies.
JobFails(k) ==
  /\ \E st \in {"failed", "canceled"} :
       /\ Fails(k, st)
       /\ IF pc \in Batches THEN EndJob(k, st) /\ UNCHANGED <<process, ctxDone>>
          ELSE ProcessEnds
  /\ SetTask(k, "failed")
  /\ UNCHANGED <<target, exists>>

\* Once the task is marked, the table's counters decide.
MarkSuccess(k) ==
  /\ In(k, {"ok"})
  /\ SetTask(k, "success")
  /\ Move(k, "marked")
  /\ UNCHANGED <<target, exists, process, env>>

JobsComplete(t) == Cardinality({k \in Jobs(t) : In(k, {"done"})})

\* Faulty: the first job of a table that succeeds completes it.
TableCompleteEarly(k) == \A x \in Jobs(k.table) : ~In(x, {"failed", "canceled"})

\* jobsComplete, with this job, is the table's job count, and none failed.
TableComplete(k) ==
  /\ JobsComplete(k.table) + 1 = Cardinality(Jobs(k.table))
  /\ \A x \in Jobs(k.table) : ~In(x, {"failed", "canceled"})

CountJob(k) ==
  /\ In(k, {"marked"})
  /\ IF TableComplete(k) THEN SetTask(TableKey(k.table), "success") ELSE UNCHANGED runs
  /\ EndJob(k, "done")
  /\ UNCHANGED <<target, exists, process, env>>

JobStep(k) ==
  \/ MarkRunning(k) \/ Execute(k)
  \/ \E n \in 1 .. RowCount[k.table] : WriteRow(k, n)
  \/ Save(k) \/ ExecuteOk(k) \/ ExecuteRetried(k) \/ Backoff(k)
  \/ JobFails(k) \/ MarkSuccess(k) \/ CountJob(k)

-----------------------------------------------------------------------------
(***************************************************************************)
(* The environment.                                                        *)
(***************************************************************************)

Cancel ==
  /\ pc # "down" /\ ~ctxDone
  /\ Fault("cancel")
  /\ ctxDone' = TRUE
  /\ UNCHANGED <<durable, process, job>>

Crash ==
  /\ pc # "down"
  /\ Fault("crash")
  /\ ProcessEnds
  /\ UNCHANGED durable

\* No process can be started, or there is nothing to resume.
Terminated ==
  /\ pc = "down"
  /\ starts = MaxStarts \/ (Len(runs) = MaxRuns /\ Incomplete = {})
  /\ UNCHANGED vars

-----------------------------------------------------------------------------

\* Some of the tables are there, with what earlier migrations left in them.
Init ==
  /\ exists \in SUBSET Tables
  /\ target = {row \in Before : row[1] \in exists}
  /\ runs = <<>> /\ starts = 0
  /\ pc = "down" /\ cur = 0 /\ toTransfer = {} /\ toPrepare = {}
  /\ job = [k \in TaskKeys |-> NoJob]
  /\ ctxDone = FALSE /\ faults = 0

Next ==
  \/ Run \/ Resume
  \/ OrchestratorStep
  \/ \E k \in TaskKeys : JobStep(k)
  \/ Cancel \/ Crash
  \/ Terminated

Spec == Init /\ [][Next]_vars

\* The process keeps running, and every database call returns.
Fairness == WF_vars(OrchestratorStep) /\ \A k \in TaskKeys : WF_vars(JobStep(k))

FairSpec == Spec /\ Fairness

-----------------------------------------------------------------------------
(***************************************************************************)
(* What a migration promises.                                              *)
(***************************************************************************)

Labels == {"down", "drop", "create", "check", "prepare", "build", "batch1", "batch2",
           "interrupted", "returned", "finish"}
TaskStatus == {"none", "pending", "running", "success", "failed"}
ProgressType == {NoProgress} \cup [last : Nat, rows : Nat]
RunType == [status   : {"running", "failed", "partial", "success"},
            task     : [TaskKeys -> TaskStatus],
            progress : [TaskKeys -> ProgressType]]
JobType == [st : {"none", "new"} \cup Active \cup Ended,
            attempt : 0 .. MaxRetries, from : Nat, base : Nat, wrote : SUBSET Nat]

TypeOK ==
  /\ target \subseteq AllRows \cup Foreign
  /\ exists \subseteq Tables /\ \A row \in target : row[1] \in exists
  /\ runs \in Seq(RunType)
  /\ starts \in Nat /\ pc \in Labels
  /\ cur \in 0 .. Len(runs) /\ (cur = 0 <=> pc = "down")
  /\ toTransfer \subseteq Tables /\ toPrepare \subseteq toTransfer
  /\ job \in [TaskKeys -> JobType]
  /\ \A k \in TaskKeys : job[k].wrote \subseteq 1 .. RowCount[k.table]
  /\ ctxDone \in BOOLEAN /\ faults \in 0 .. MaxFaults

Newest == Len(runs)

\* Whenever the process dies, the rows that the saved progress of a job covers are in the
\* target: no preparation of a table removes them and leaves the progress.  (It takes a
\* state backend that answers: see "load".)
ProgressCovered ==
  runs # <<>> =>
    \A k \in TaskKeys : Covered(k, runs[Newest].progress[k]) \subseteq target

\* A table is only marked complete when all the rows of all its jobs are there.
CompleteMeansTransferred ==
  runs # <<>> =>
    \A t \in CompleteTables(Newest) : RowsOf(t) \subseteq target

\* Validation finds nothing missing, and in drop_recreate mode nothing else, but for the
\* partitioned tables: Resume takes over what is in them, and a partition cleans up only
\* between its own keys.
ValidationFindsNothing ==
  pc = "finish" =>
    \A t \in Tables \ FailedTables :
      /\ RowsOf(t) \subseteq target
      /\ Upsert \/ (IsLarge(t) /\ t \in Keyset) \/ InTarget(t) \subseteq RowsOf(t)

\* A partitioned table has been "already truncated in orchestrator" (transfer.go), like
\* the others: drop_recreate leaves no row that the source does not have.  The code does
\* not do so when it resumes a run that died before all tables were dropped: one crash
\* refutes this (see the known divergences in README.md).
RecreatedAfresh ==
  pc = "finish" /\ ~Upsert => \A t \in Tables \ FailedTables : InTarget(t) \subseteq RowsOf(t)

\* While its run can be resumed, no step removes a row of a complete table.
CompleteTablesKept ==
  [][runs # <<>> /\ Len(runs') = Len(runs) =>
       \A t \in CompleteTables(Newest) : RowsOf(t) \cap target \subseteq target']_vars

\* A run that is recorded as a success has transferred every row.
SuccessMeansComplete ==
  [][\A i \in 1 .. Len(runs) :
       runs[i].status = "running" /\ runs'[i].status = "success" => AllRows \subseteq target']_vars

\* Once a run has succeeded, only a later run removes rows from the target, and not the
\* resume of one that was interrupted long ago (HasSuccessfulRunAfter in
\* checkpoint/state.go) nor a goroutine that an earlier process has left behind.
LaterSuccessKept ==
  [][\A i \in 1 .. Len(runs) :
       runs[i].status = "success" /\ ~(target \subseteq target') => cur > i]_vars

\* Run and Resume return.
RunEnds == pc # "down" ~> pc = "down"

-----------------------------------------------------------------------------
(***************************************************************************)
(* What is inductive, whatever fails.                                      *)
(***************************************************************************)

Working == {"batch1", "batch2", "interrupted", "returned", "finish"}

\* A job belongs to a table of the run, and is gone when its process is.
JobsBelong ==
  \A k \in TaskKeys : ~In(k, {"none"}) =>
    pc \in Working /\ k.table \in toTransfer /\ k \in Jobs(k.table)

\* No job starts before its table is there.
TablesThere ==
  /\ pc = "prepare" => toTransfer \ toPrepare \subseteq exists
  /\ pc \in Working \cup {"build"} => toTransfer \subseteq exists

\* The process works on a run that has not ended, and on an older one only when the
\* newest has.  Nothing has been done for a new run while its tables are prepared.
RunsOrdered ==
  /\ \A i \in 1 .. Len(runs) :
       runs[i].status # "running" => runs[i] = [NewRun EXCEPT !.status = runs[i].status]
  /\ cur # 0 => /\ runs[cur].status = "running"
                /\ cur = Newest \/ runs[Newest].status # "running"
  /\ pc \in {"drop", "create", "check"} => cur = Newest /\ runs[cur] = NewRun

\* A batch is over when all its jobs have ended.
BatchesWaited ==
  /\ pc = "batch2" => \A k \in Batch(1) : In(k, Ended)
  /\ pc = "finish" => \A t \in toTransfer : \A k \in Jobs(t) : In(k, {"done", "failed"})

RunInv == TypeOK /\ JobsBelong /\ TablesThere /\ RunsOrdered

-----------------------------------------------------------------------------
(***************************************************************************)
(* What is inductive when tables are partitioned by their keys only.       *)
(***************************************************************************)

Saved(k) == runs[Newest].progress[k]

SavedWithin ==
  runs # <<>> =>
    \A k \in TaskKeys :
      Saved(k) # NoProgress => k \in Jobs(k.table) /\ Saved(k).last \in First(k) .. Last(k)

\* What a job starts from and what it has written is in the target.
CopiedRows ==
  cur = Newest =>
    \A k \in TaskKeys : In(k, {"copy"}) =>
      /\ job[k].from \in First(k) .. Last(k)
      /\ job[k].wrote \subseteq job[k].from + 1 .. Last(k)
      /\ Span(k, First(k), job[k].from) \subseteq target
      /\ \A n \in job[k].wrote : <<k.table, n>> \in target
      /\ job[k].from # First(k) => Saved(k) # NoProgress /\ job[k].from <= Saved(k).last

RowsInv == SavedWithin /\ CopiedRows /\ ProgressCovered

-----------------------------------------------------------------------------
(***************************************************************************)
(* What is inductive when, besides, tables are recreated, counts are exact *)
(* and writers lose nothing.  A complete table may be taken up again if it *)
(* has rows that the source does not have: then its partitions have saved  *)
(* that they are finished, and clean up nothing.  The other tables have no *)
(* such rows.                                                              *)
(***************************************************************************)

Finished(k) == First(k) = Last(k) \/ (Saved(k) # NoProgress /\ Saved(k).last = Last(k))

\* The tables whose jobs do not clean up once they have succeeded.
Settled(t) == IsLarge(t) /\ "save" \notin Faults
Clean(t) == Settled(t) \/ InTarget(t) \subseteq RowsOf(t)

\* A job that has succeeded has transferred its rows.
DoneRows ==
  cur = Newest =>
    \A k \in TaskKeys : In(k, {"ok", "marked", "done"}) =>
      /\ Span(k, First(k), Last(k)) \subseteq target
      /\ Settled(k.table) => Finished(k)

\* Rows that the source does not have are gone before anything is transferred.
JobsClean ==
  cur = Newest =>
    \A k \in TaskKeys : In(k, {"copy", "ok", "marked", "done"}) => Clean(k.table)

SavedClean ==
  runs # <<>> => \A k \in TaskKeys : Saved(k) # NoProgress => Clean(k.table)

\* A complete table has its rows, and either no others or nothing to clean up.
CompleteExact ==
  runs # <<>> =>
    \A t \in CompleteTables(Newest) :
      /\ RowsOf(t) \subseteq target /\ Clean(t)
      /\ Settled(t) => \A k \in Jobs(t) : Finished(k)

\* It is then left alone.
CompleteIdle ==
  cur # 0 /\ cur = Newest =>
    \A t \in CompleteTables(cur) \cap toTransfer :
      Settled(t) \/ (pc \in Working /\ \A k \in Jobs(t) : In(k, {"marked", "done"}))

\* A table is left out when it is complete.
NoneForgotten ==
  cur # 0 /\ cur = Newest => Tables \ toTransfer \subseteq CompleteTables(cur)

CompleteInv ==
  /\ DoneRows /\ JobsClean /\ SavedClean
  /\ CompleteExact /\ CompleteIdle /\ NoneForgotten

\* The process works on the newest run: an older one may have been resumed otherwise,
\* whose progress is of a target that has been recreated since.
OnNewest == cur \in {0, Newest}
=============================================================================

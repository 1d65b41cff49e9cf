# A verification of dmt's data transfer

`dmt` copies the tables of a source database into a target database, in chunks,
with parallel readers and writers, and can resume after a failure. This
directory holds TLA+ modules that model it, the TLC configurations that check
them on small instances, and proofs for every value of their constants.

Paths below are relative to the repository's `internal/`.

## Inventory

| Component | State it keeps | Operations | Hard because | Correct when |
|---|---|---|---|---|
| Keyset transfer (`transfer/transfer.go`) | key ranges, `chunkChan`, loop error, last key | `Execute`: load the checkpoint, truncate or clean, split, read, submit, wait, save | readers, consumer, writers and ack processor run concurrently; errors and Ctrl+C at any point; re-executed after a failure | every row exactly once, no error swallowed, always returns |
| Checkpoint coordinator (`transfer/checkpoint_coordinator.go`) | per reader: `lastPK`, `nextSeq`, `pending`, `complete` | `onAck`, `safeCheckpoint`, `finalCheckpoint` | acknowledgements out of order or lost; readers at different speeds | the saved key has no unwritten row behind it |
| ROW_NUMBER transfer (`transfer/transfer.go`) | row windows, `chunkChan` | the same, for tables without a single integer key | rows have no key to clean up by | every row at least once |
| Writer pool (`pool/writer_pool.go`, `transfer/writers.go`) | `jobChan`, `ackChan`, workers, write error, counters | `Submit`, `Wait`, `Cancel`, `ScaleWorkers`, worker loop | non-blocking acks, first error wins, scaling while jobs are queued | a submitted job is written or an error is kept |
| Transfer runner (`orchestrator/transfer_runner.go`, `job_builder.go`) | semaphore, `errCh`, per-table counts, task statuses | pre-truncation, two phases of jobs, retries, collection of failures | partitions of one table in parallel; cancellation between jobs | a table is complete only if all its jobs are |
| Orchestrator (`orchestrator/orchestrator.go`) | run and task records | `Run`, `Resume`, finalisation, validation | crash and resume between any two phases | a run is `success` only with its data; resume repeats no destructive step |
| State backends (`checkpoint/state.go`, `filestate.go`) | runs, tasks, transfer progress, sync times | create, update, save, clear, look up | SQLite rows and a YAML file must mean the same | what was saved is what is loaded, by the next process |
| Target modes (`orchestrator/target_mode.go`) | which phase, goroutines per table or object | `PrepareTables`, `Finalize` of drop_recreate and upsert | statements in parallel that may fail or lose their answer; tables of an earlier migration | prepared means recreated, or a reported error |
| Writers of the drivers (`driver/*/writer.go`) | tables, staging tables, identities | create, drop, `WriteBatch`, `UpsertBatch`, sequences, constraints | several statements per call, deadlocks, two workers on one table | nil means written; a failed copy leaves what the next attempt removes |
| Readers of the drivers (`driver/*/reader.go`) | keys of the last batch | `ReadTable`, `GetPartitionBoundaries` | boundaries, short batches, a lost connection | each row of a range once |
| Generated DDL (`driver/ai_typemapper.go`) | cache, cache file | `GenerateTableDDL`, `GenerateDropTableDDL`, load, save | concurrent saves of one file; answers outlive the process | a statement from the cache makes the table that is needed |
| AI adjuster (`monitor/*.go`) | circuit breaker, cached decision, history | `Evaluate`, `ApplyDecision`, effect measurement, the monitor's loop | sleeping goroutines against the evaluation loop | an open breaker closes, and only after its timeout; effects with their adjustments; the monitor ends |
| Pipeline (`pipeline/*.go`) | configuration queue, a second transfer engine | `Execute`, updates that scale the writers | workers come and go while jobs are queued | every row, or an error |
| Configuration, command line (`config/config.go`, `cmd/migrate/main.go`) | settings, their hash | defaults, validation, flags, hash | derived from the machine; a resume must get the same | a resume continues only what it can |
| Incremental loads (`job_builder.go`, `state.go`) | sync time per table | date filter, `UpdateSyncTimestamp` | clients change the source meanwhile | no change before the sync time is missed |
| Progress, notifications, tuning, identifiers, UI | counters, text | | | |

The orchestrator builds jobs (a table, or a partition of a large one) and hands
them to the transfer runner, which calls `transfer.Execute` for each. `Execute`
reads with goroutines of its own and writes through a writer pool; the writers
tell the checkpoint coordinator what they have written, and it saves progress
in the state backend. On resume, the orchestrator and `Execute` read that
progress to decide what to truncate, clean and read again.

## Modules

| Module | Models | Used by |
|---|---|---|
| `PKRange` | `splitPKRange`, `decrementPK`: how a key range is cut up for the readers, in `2 * HalfWidth`-valued wrapping integers | `KeysetTransfer`, `Pipeline`, `MCReads` |
| `KeysetTransfer` | one job with an integer key: `Execute`, readers, consumer, writers, coordinator, crashes | `keyset_crash`, `keyset_live` |
| `TransferJob` | what a job promises to those who execute it again until it succeeds: rows, a covered prefix, three phases | `KeysetTransfer` implements it |
| `KeysetTransferProofs` | proofs about `PKRange` and `KeysetTransfer` | |
| `WriterPool` | `pool.WriterPool` with `ScaleWorkers`: channels, goroutines, contexts, the first error | `RowNumberTransfer`, `Pipeline` |
| `RowNumberTransfer` | one job without an integer key: `executeRowNumberPagination` | `row_number` |
| `RowNumberProofs` | proofs about `RowNumberTransfer` and its writer pool | |
| `Pipeline` | `pipeline.Execute` with keyset pagination and its updates | `pipeline` |
| `MigrationRun` | a migration from run to resume: `Run`, `Resume`, job builder, transfer runner, state backend, crashes, Ctrl+C | `migration_crash`, `migration_lost` |
| `MigrationRunProofs` | proofs about `MigrationRun` | |
| `SQLiteState`, `FileState` | the two state backends, one operator per statement or method | `StateBackends` |
| `StateBackends` | both backends under one caller, process after process | `state_same` |
| `StateBackendsProofs` | proofs about `StateBackends`, `SQLiteState` and `FileState` | |
| `TargetDatabase`, `PostgresWriter`, `MySQLWriter`, `MSSQLWriter`, `OracleWriter` | the target's tables, and what each driver's statements do to them | `TargetMode` |
| `DDLAnswers` | the DDL that a language model writes, its cache and cache file | `TargetMode` |
| `TargetMode` | `PrepareTables`, loading workers, `Finalize`, and the next run | `target_mode`, `upsert_staging` |
| `TargetModeProofs` | proofs about `TargetMode` and the four writers | |
| `TableReads`, `PostgresReader`, `MySQLReader`, `MSSQLReader`, `OracleReader` | `ReadTable` with its three paginations, and the partition boundaries | `MCReads`; `Pipeline` reads with PostgreSQL's |
| `PipelineProofs` | proofs about the four readers, `PKRange` as `MCReads` states it, and `Pipeline` | |
| `AIProvider`, `AIAdjuster` | a call of the provider with its retries; the monitor and the adjuster | `ai_adjuster` |
| `RunConfig` | from a file and a machine to the settings that the hash covers; validation, flags | `SyncRun` |
| `SyncRun` | first and incremental loads under clients that change the source | `sync` |
| `AIAdjusterProofs`, `SyncRunProofs` | proofs about `AIAdjuster` and `SyncRun` | |
| `MC*` | small instances for TLC; `MCReads` has every small input as an initial state | `reads` |

### KeysetTransfer

`target` and `saved` are what survives a crash: the keys in the target table
and the task's row of `transfer_progress`. Everything else is the memory of one
execution. A chunk is a reader and a sequence number; `cuts[r]` keeps the last
key of each chunk a reader produced, so that a chunk's rows are the source's keys
between two cuts. Each goroutine has its actions:

| Goroutine | Actions |
|---|---|
| caller (`executeJob`'s retry, or a resume) | `Execute` |
| reader | `ReadChunk`, `ReadNothing`, `ReadFails`, `SendChunk`, `SendError` |
| consumer | `ReceiveChunk`, `ReceiveError`, `ChunksClosed`, `Submit`, `SubmitCancelled`, `Fail`, `Succeed` |
| writer | `TakeJob`, `DropJob`, `JobsClosed`, `Write`, `WriteFails`, `CountRows`, `SendAck`, `SkipAck`, `AckCancelled` |
| ack processor | `ReceiveAck`, `DrainPending` |
| environment | `Cancel`, `Crash` |

The channels are sequences with a capacity. A reader's send blocks whatever
becomes of the context; the consumer's submit and the writer's acknowledgement
are `select`s, whose ready cases are alternatives. The commit in the target, the
counter and the acknowledgement are three steps of a writer; each round of
`onAck`'s loop is a step, and reads the counter when it saves.

`Faults` names what the environment may do: `minmax` (the MIN, MAX query fails),
`load` (the checkpoint cannot be read), `cleanup` (a truncation or deletion
fails, which the code only logs), `read`, `write` (a write fails and leaves any
prefix of its rows, as the drivers that write in batches do), `save` (logged
only), `cancel` (Ctrl+C) and `crash`.

Modelled as one step: `Execute` up to the start of its goroutines, since nothing
else runs in the job then and a crash between its two effects leaves what a crash
after one of them leaves. Assumed: a state backend is configured (acknowledgements
are enabled); `chunkChan` has room for at least one chunk (with one reader and
`read_ahead_buffers: 0` the code uses an unbuffered channel); keys are integers,
the source's rows do not change during the job, and the range of keys does not
overflow (`RowsAssumption`). A reader that was left behind by an earlier attempt
can only block on its own channel, and is forgotten.

### MigrationRun

One level above: the rows of `KeysetTransfer`'s job become positions of a table,
and `Execute` the few steps that `TransferJob` allows, with the number of rows it
saves. `target` and `exists` are the target database, `runs` the state backend (per
run a status, the tasks' statuses, the jobs' progress); these survive the process.
`pc` is where `Run` or `Resume` is, `job[k]` the goroutine of the job whose task key
is `k` (part 0 is the task of the table itself, which is also the job of a table
that has no partitions).

| Code | Actions |
|---|---|
| `Orchestrator.Run` | `Run`, `Finish`, `Interrupted`, `Exit` |
| `PrepareTables` of the two target modes | `DropTable`, `TablesDropped`, `CreateTable`, `TablesReady`, `PrepareFails` |
| `Orchestrator.Resume` | `Resume` (with the superseded run and the tables it skips), `ResumeTable`, `ResumePrepared` |
| `JobBuilder.Build` | `Build`, `BuildFails` |
| `executeJobs`, `executeJobBatch`, `collectFailures` | `Launch`, `FirstBatchDone`, `BatchesDone`, `BatchCancelled` |
| `executeJob` | `MarkRunning`, `ExecuteRetried`, `Backoff`, `JobFails`, `MarkSuccess`, `CountJob` |
| `transfer.Execute` | `Execute`, `WriteRow`, `Save`, `ExecuteOk` |
| environment | `Cancel`, `Crash` |

`executeJobBatch` returns on cancellation without waiting for the jobs it has started:
`Interrupted` and `Exit` run beside them, and one that fails then sends on the closed
`errCh` and takes the process down. `Execute` keeps the promise of `TransferJob` unless
`lost` is among the faults: then a cancelled job may succeed without all its rows, as
described under the known divergences. `stats` makes the counts `Resume` looks at stale,
with `count` they fail: then it cannot skip a complete table (`MaySkip`), and prepares it
for another transfer. `load` is a `GetProgress` that fails, in `Resume` (which then
truncates the table and keeps its progress) and in `Execute` (which cleans up as if there
were none); `cleanup` and `save` are deletions and checkpoints that fail and are only
logged; `slow` lets the exact counts at the end run into their timeout. The partitions of a
keyset table are the database's (`GetPartitionBoundaries`); the model has them as even as
those of the job builder. The source does not change. Left out: tables without a primary
key, date filters, the fallback to one job when the boundaries take too long, schema
extraction, indexes and constraints.

### WriterPool, RowNumberTransfer, Pipeline

`WriterPool` has one action per step of a worker goroutine (`TakeJob`, the write,
the counter, the acknowledgement), and `Submit`, `Cancel`, `CloseJobs` and
`ScaleWorkers` for its users. Goroutines are numbered as they start; `workers` is
the list `wp.workers`, from which `ScaleWorkers` removes those at its end. A
worker looks at its own context only when it has received a job, as in the code.
What the write does to the target is up to the module that uses the pool.

In both users of the pool a `GetProgress` that fails is the fault `load`: `Execute` logs it,
goes on as if nothing were saved and truncates a table that is not partitioned, while the
checkpoint stays (`Loaded`). `cleanup` is a truncation that fails and is only logged.

`RowNumberTransfer` is the job of a table without a single integer key: one
reader, chunks by row number, an ack processor that keeps acknowledgements until
those before them have come. On a resume nothing is deleted, so that in
drop_recreate mode a plain insert of rows that are there is rejected: the code
documents that, and `DuplicateKey` has it.

`Pipeline` is the second engine. Nothing in the program executes one, it is only
the queue to which the AI adjuster sends updates. The module has its `Execute`
with several readers, the batches of `PostgresReader`, and the updates that scale
the writers between two chunks. An empty table, or boundaries that cannot be queried
(`minmax`), end it after the truncation with nil (`TakenForEmpty`). Left out: its ROW_NUMBER
pagination.

### SQLiteState, FileState, StateBackends

`SQLiteState` keeps the tables `runs`, `tasks` and `transfer_progress` as functions
from keys to rows; a statement is a transaction, `CleanupOldRuns` is three.
`FileState` has the memory `mem` of the process and the file `disk`; each operation
rewrites the file, and a process that dies meanwhile leaves it empty, not YAML,
or cut after some of the tables. `StateBackends` is the caller, `Run` or `Resume`
with its jobs, that does every step on both; so what one backend answers is the
abstract specification of the other. As in `Resume`, a task that is complete may have its
progress cleared, and be run again. The file then takes the completion back and the database
does not: one caller cannot do as both answer, and it skips a table only if both call it
complete. `Faults` may hold `newtask`: a resume creates a task that the file does not have.

### TargetMode and the writers

`TargetDatabase` has the tables (rows `absent`, `old` or `new`, a key, the next
identity value, references), a staging table per worker, and the calls of the
workers with the statement each is at. A module per driver says what its
statements do, and which of them share a transaction: PostgreSQL and SQL Server
copy a batch in one, MySQL and Oracle write it in pieces. A statement that fails
may have taken effect. An upsert updates a row only if it sees a change: the rows of
`Undetected` have changed where the comparison does not look (spatial columns, a difference
that the collation ignores), and `Merged` leaves them old. A table with none but spatial
columns beside its key (`spatialOnly`) gets a MERGE from SQL Server's writer that the server
rejects, and PostgreSQL's updates without comparing. Oracle's staging table, which exists
when the name is taken (ORA-00955), is truncated and used again; that names of two workers
collide is left out. `TargetMode` has the strategies: each phase starts a
goroutine for each table or object and waits for all of them. `DDLAnswers` is what
the goroutines ask for the text of a statement: the model's answer makes the table,
makes it without its key, or is rejected; it is cached before it is executed, saved
by a truncation and a write beside those of other goroutines, and loaded by the
next run.

### Readers

`MCReads` takes each input of `splitPKRange`, of the drivers' `ReadTable` and of
`GetPartitionBoundaries` as an initial state, and its invariants compare the result
with the set of rows that should be read. Loops are recursive functions by the
position they have reached. A key has a kind, since `CompareKeys` answers 0 for kinds that
differ: an int64 with three drivers, with Oracle a `godror.Number`, which is what the last
key of a batch still is when it is compared with `maxPK`.

### AIAdjuster

Time goes in steps of the evaluation interval (`Tick`), and may pass before any other
step: goroutines that could run, a call to the provider and the loop are overtaken by it.
The monitor's loop is `pc`: a call of `Evaluate` may be
refused by the breaker, answered by the cache, or wait in `AIProvider` for a
request that is answered, retried or fails. `resets` holds the goroutines that
close the breaker, `measures` those that store the effect of an adjustment; they
wait for the mutex. The pipeline is the placeholder that the program makes, whose
queue nobody empties.

### RunConfig, SyncRun

`RunConfig` computes the settings in the code's order: the file, the global defaults, the
drivers' and the machine's. Of those that only tune a transfer, the workers stand for all:
they differ between machines, and the hash covers them. `SyncRun` has clients that insert
and change rows with the clock's date, and processes that run or resume with one of several
files: the hash decides, unless forced, whether a resume goes on. The load reads chunks of
one row, behind which clients change what has been read.

## Runs

| Run | Instance | Shows |
|---|---|---|
| `keyset_crash` | a partition of 5 of 7 keys, drop_recreate, 2 readers, 2 writers, chunks of 2, 3 executions, failed reads, torn writes, failed saves and crashes | `CheckpointSafe`, `NoDuplicateInsert`, `SuccessMeansAllWritten`, `RowsDoneCoversCheckpoint`, `CheckpointNeverRegresses`, `OtherPartitionsKept`, `ImplementsTransferJob` |
| `keyset_live` | a table of 4 keys, 2 readers, 1 writer, lost acknowledgements, every fault but a crash | `AttemptEnds` |
| `row_number` | 3 rows, 2 writers, 2 executions, every fault but `load` | `CheckpointSafe`, `SuccessMeansAllWritten`, `ExecuteReturns` |
| `pipeline` | 3 keys, 2 readers, 1 or 2 writers, two updates, failing truncations and boundaries, cancellation and crashes | `CheckpointSafe`, `SuccessUnlessShrunk`, `ExecuteReturns` |
| `migration_crash` | two tables (3 rows in two partitions, 2 rows), drop_recreate, two workers, some rows already there, 1 run and 2 resumes, up to 2 crashes or cancellations | `ProgressCovered`, `CompleteMeansTransferred`, `ValidationFindsNothing`, `CompleteTablesKept` |
| `migration_lost` | tables of 2 rows and 1 row, 2 runs and 3 processes, one counted fault, and lost rows, stale or failing counts, failing loads, saves and clean-ups | `SuccessMeansComplete`, `LaterSuccessKept`, `RunEnds` |
| `state_same` | 2 tasks, 3 processes, crashes between operations, in a cleanup and in a write of the file | `SameRun`, `SameGranularity`, `ApartByClearing`, `FileNeverAhead`, `NoOrphans`, `ResumableKept` |
| `target_mode` | the 4 drivers with their options, both modes, 2 tables with a foreign key, 2 workers with a batch each, 2 runs, 2 failing statements | `PreparedMeansRecreated`, `NilMeansWritten`, `TornIsPrefix`, `NextIdentityFree` |
| `upsert_staging` (violation) | the same | PostgreSQL's `UpsertBatch` returns nil and has written nothing |
| `reads` | all 4-bit keys and 1 to 6 readers; tables of up to 4 rows (8 for partitions), batches of 1 to 3, any lost connection | `EachKeyReadOnce`, `KeysetReadsItsRange`, `RowNumberReadsItsRows`, `PartitionsCoverTable` |
| `ai_adjuster` | a threshold of 2 failures, one retry, a history and a queue of 2 | `AskedWithoutTimer`, `EffectOfOwnAdjustment`, `BreakerCloses`, `MonitorStops` |
| `sync` | 2 rows with 2 versions, 3 moments, 3 runs, 3 files | `SuccessMeansSynced` |

The bounds. Two readers are the least with a `safeCheckpoint` that differs from
the last key; two writers the least that acknowledge out of order. Chunks of two
rows allow torn writes. In `keyset_crash` the first range holds two chunks, the
second of them short, so that acknowledgements of one reader can overtake each
other; three executions allow a resume of a resume. Channels of one slot make
every send block. In `keyset_live` the job has one chunk more than the writer,
`jobChan` and `chunkChan` hold together, so that the writer can fail while the
consumer and the readers are blocked; with one writer the run stays small, and
the other runs check two for deadlock. `HalfWidth` is large enough that no sum
wraps, which `RowsAssumption` demands.

In `migration_*`, a table of two partitions, the second of two rows, and a small one are the
least with both batches, progress inside a partition and inside a whole table, and two
tables in different states. `MaxStarts` counts the processes, `MaxRuns` those that `run`
starts, and `MaxFaults` the crashes, cancellations and errors: two in `migration_crash`, so
that a resume may be interrupted too. With two runs, `migration_lost` resumes an older run,
unless a later one superseded it. The faults of `migration_lost` that are choices (`lost`,
`stats`, `count`, `load`, `cleanup`, `save`) are not counted by `MaxFaults`, they may always
happen. `migration_crash` is without `count` and without `error` and its like; what a count
that fails does is under the known divergences. Rows that the source does not have
(`Foreign`) are in both tables of `migration_crash`, so that partitions clean up around
them.

In `row_number` three rows in three chunks let an acknowledgement come before one it has to
wait for. In `pipeline` two updates take the pool of one writer to two and back. In
`state_same`, `RetentionPeriod` is 0 and the clock has two moments, so that a run is old as
soon as time passes; two tasks, of which a torn file may hold one, and five operations reach
a task that is complete beside one that is half done, and the clearing of a complete one. In
`target_mode` a batch of two rows at `ChunkSize` 1 is the least that can be torn, and a
second batch the least that can meet it; of the rows that `Undetected` has, one is in a
batch with another that is seen to have changed, one is alone; two statements that fail
allow a retry that fails as well, two calls a retry by the caller, and the second run has
the tables, keys, references and cached statements of the first. In `sync` the third moment
lets a change come between the sync time and the end of the load, and three runs are a first
load and two incremental ones. In `ai_adjuster` the durations (`CallInterval` 1,
`CacheDuration` 2, `ResetTimeout` 2, `MeasureDelay` 1) keep the order of the code's;
`MaxHistory` and `QueueCap` are equal, as they are in the code (10 each), which is why
`EffectOfOwnAdjustment` holds: the queue, which nobody empties, is full before the history
is trimmed. `CHECK_DEADLOCK FALSE` stands where the model ends because a bound is reached
(`MaxRuns`, `MaxStarts`).

The type invariants are in no run: they are proved (`TypeCorrect`, `RowNumberTypes`,
`MigrationTypes`, `StateTypes`, `SyncTypesHold`), or part of the inductive invariants of
`AIAdjusterProofs`, `TargetModeProofs` and `PipelineProofs`.

Fairness. Every goroutine that can take a step eventually does, and every database
call and request returns, with or without success. The Go scheduler gives the
first; the second is the drivers' and the HTTP client's timeouts, and cancelled
contexts. Strong fairness is assumed in `ai_adjuster` only: of goroutines that wait
for a mutex, which Go's does not starve, and of a `select` that finds a tick and
the end of its context ready, which chooses at random. No fairness is assumed of
the environment: `Cancel`, `Crash` and the next `Execute` may never come.

### Known divergences

`upsert_staging`: the staging table of PostgreSQL's `UpsertBatch` is created with ON
COMMIT DELETE ROWS, on a connection without a transaction (`postgres/writer.go:696`);
the COPY commits and the INSERT that follows finds no row. The call returns nil.
Oracle's staging table (`oracle/writer.go:862`) does the same.

The models have the following too. Passing runs state their properties beside them, as their
comments say, or bound the case away; a changed instance shows those of the first list.

* `transfer/transfer.go:213`: `Execute` logs a `GetProgress` that fails, truncates the table and
  keeps the checkpoint (the keyset transfer and `pipeline/pipeline.go:201` too). If that attempt
  ends before it saves, the next starts behind rows that are gone, and succeeds (against
  `README.md:1409`). `NoBlindTruncation`, no `load` where a table is truncated, is the
  hypothesis of what follows from a checkpoint. `Resume` does the same to the table.
  `row_number.cfg` with `MaxAttempts = 3` and `Faults = {"load", "read"}` violates
  `SuccessMeansAllWritten`.
* `orchestrator/orchestrator.go:787`: a `GetRowCount` that fails keeps `Resume` from
  skipping a complete table (against `README.md:1398`), and its progress may then look like
  that of a table which has lost rows: it is truncated. `migration_crash.cfg` with `Faults =
  {"crash", "count"}`, `Foreign <- MCNone` and `Before <- MCNone` violates
  `CompleteTablesKept`.
* `transfer/transfer.go:231`: "Partitioned table: already truncated in orchestrator", but
  `Resume` does not empty partitioned tables, and their partitions remove only what lies
  between their own keys: if a crash came before all tables were dropped, rows of an earlier
  migration stay. `ValidationFindsNothing` therefore asks for no other rows only in tables
  that are not partitioned. `migration_crash.cfg` violates `RecreatedAfresh`, which asks for
  all.
* `checkpoint/filestate.go:338`: `ClearTransferProgress` of the state file takes the
  completion of a task back, that of the database does not (`state.go:641`, against
  `README.md:415`). `SameGranularity` has that difference and no other, `ApartByClearing`
  its cause. `state_same.cfg` violates `CompletedAlike`, which allows none.
* `driver/mssql/writer.go:921`: SQL Server's MERGE updates a row only where it sees a
  change: not in spatial columns, and under the collation. A row that has changed elsewhere
  stays as it was behind a nil (against `README.md:91`). `NilMeansWritten` says so
  (`Unnoticed`); `upsert_staging.cfg` with `Undetected <- MCUndetected` and the settings of
  "mssql" alone violates `UpsertWritesAll`.
* `driver/oracle/reader.go:419`: Oracle's keyset `ReadTable` compares a `godror.Number` with
  `maxPK`, which `CompareKeys` calls equal: the read ends after its first full batch, without an
  error. `KeysetReadsItsRange` leaves these reads out; `reads.cfg` violates
  `OracleReachesTheEnd`, which does not.

And without an instance of their own:

* `transfer/transfer.go:151`: `splitPKRange` does not decrement the key of a job
  whose smallest and largest key are equal when `parallel_readers > 1`: its row
  is read by nobody. `EachKeyReadOnce` excludes it.
* `pool/writer_pool.go:184`: writers that see the cancelled context drop the
  jobs they take without an error. If every reader was done, `Execute` returns
  nil and the task becomes `success`. `keyset_crash` has no `cancel` for that.
* `transfer/transfer.go:503`, `pipeline/pipeline.go:310`: a failed MIN, MAX query, or one of the
  boundaries, is taken for an empty table, after the target has been truncated (the fault
  `minmax`, in `keyset_live` and `pipeline`). `SuccessUnlessShrunk` leaves out attempts that end
  so (`ReadNothing`).
* `transfer/transfer.go:796`: without partitions, ROW_NUMBER pagination ends at
  the estimate `RowCount`; rows beyond it are never read.
* `orchestrator/orchestrator.go:870`: `rows_done` counts rows beyond the saved
  key, which the next execution deletes first. If that one is interrupted too,
  `Resume` finds fewer rows than `rows_done`, takes it for data loss (against
  `README.md:1403`) and starts the table again. For a complete table see above.
* `orchestrator/orchestrator.go:858`: `Resume` spares partitioned tables from
  truncation only if they have an integer key. The partitions of the others go on
  from their row numbers in a table that has just been emptied. Nor does the
  truncation look at the target mode: an upsert loses the rows that only the target
  has (against `README.md:91`), an incremental load those before its date filter.
* `orchestrator/orchestrator.go:847`: `Resume` clears the progress of the table it
  has to create, but not that of its partitions: a run dies, the next one fails
  after dropping the table, and the first is resumed.
* `orchestrator/job_builder.go:129`: a resume takes its own time as the sync time,
  although it goes on behind rows that the interrupted load has read: a change in
  between is lost. `SuccessMeansSynced` leaves out loads that went on (`continued`).
* `checkpoint/filestate.go:191`: task ids start at 1000 in every process, so that the
  first task a resume creates gets the id of another (against `README.md:414`).
  `state_same` is without the fault `newtask`, and two theorems exclude it.
* `pool/writer_pool.go:352`: a worker that `ScaleWorkers` takes away drops the next
  job it receives (against the comment at 353). Only `Pipeline` scales, and the
  program executes none.
* `orchestrator/target_mode.go:78`: "no FK dependencies since we're dropping", but
  the tables of an earlier migration have foreign keys, and SQL Server and Oracle
  reject the drop of a table that is referenced: `PrepareTables` may fail without
  a fault, by the order of its goroutines.
* `driver/oracle/reader.go:437`: Oracle takes `StartRow` as 1-based, the other drivers
  and `driver/types.go:145` as 0-based. `RowNumberReadsItsRows` leaves it out.
* `driver/mssql/writer.go:921`: if spatial columns are the only ones beside the key, the MERGE
  is `WHEN MATCHED AND ()`, and the server rejects every upsert of the table.
* `driver/oracle/writer.go:557`: identity sequences that the database made are not
  set after the load. `NextIdentityFree` leaves them out.
* `config/config.go`, `cmd/migrate/main.go`: the hash that `Resume` compares covers
  settings derived from the machine and `--workers`, a flag that `resume` does not
  have: such a run is resumed only by force. `RunConfig` has both; no property does.

### TransferJob

`TransferJob` knows the target, the saved key and whether the job runs, stopped or
succeeded. `Start` may remove rows of the job beyond the saved key, `Transfer` and
`Stop` may add rows of the job, `Save` moves the key forwards to one whose rows are
all there, `Succeed` needs every row. `ImplementsTransferJob` maps `saved` to its
key and `pc` to the phase; that no goroutine order, error or crash can be told
apart from these five actions is what the orchestrator relies on when it executes
a job again.

## Proofs

`KeysetTransferProofs`:

* `SplitConsecutive`, about `PKRange`: the ranges of a split follow each other
  without a gap from the smallest key minus one up to the largest; `SplitOther` and
  `SplitSingle` give the unsplit cases. They need the assumption that the
  difference of the keys does not overflow.
* `TypeCorrect`: `Spec => []TypeOK`.
* `CheckpointSafety`: `Spec => []CheckpointSafe`, when `load` is not among the
  faults. `CheckpointSafe` alone is not inductive: that the key saved next is safe
  follows from what the coordinator knows (`PrefixWritten`: the key of each
  reader is that of a prefix of its chunks, all written), from the ranges' order
  (`BaseWritten`), from what is acknowledged being written (`AcksWritten`), and
  from the chunks of a reader following each other (`CutsOrdered`). Their
  conjunction with the type invariant and `RefsOK` (chunks under way were read in
  this attempt) is `SafeInv`; `SafeInit` and `SafeStep` show it inductive, with
  `SaveSafe` for the key that is saved, `OnAckRoundSafe` for a round of `onAck`,
  and `SafeReset` for the start of an attempt. `load` is excluded because an
  attempt that could not read its checkpoint truncates the target while the
  checkpoint stays: see the hazards in `PROJECT.json`.

and from one attempt to the next:

* `CheckpointForwardOnly`: `CheckpointNeverRegresses`, without `load` again. The key
  that is saved next is compared with one of an earlier attempt, so `OrderInv` adds
  to `SafeInv` that the ranges of the readers are in order, that what is saved is
  not beyond the coordinator's key (`SavedBehind`), and that nothing is written or
  acknowledged once an attempt has stopped (`StoppedQuiet`).
* `PartitionsKept`: `OtherPartitionsKept`, whatever fails. What it needs is `KeysInJob`: no
  key of the coordinator, and so none that is saved, lies before the partition.
* `SuccessComplete`: `SuccessMeansAllWritten` under `Completable`, which excludes the
  four cases in which the code is known to lose rows (`minmax`, `load`, `cancel`, and
  a single key split for several readers: see the known divergences). The invariant
  is `CompleteInv`: a row that a reader has passed is in the target or in a chunk
  between the reader and a writer, or an error is kept (`NoneLost`); readers stop
  only at the end of their range or with an error (`ReadersFinish`); an error
  stays until the attempt fails (`ErrorsKept`); and what is before the first
  range is written (`BaseCovered`).
* `TransferJobImplemented`: `ImplementsTransferJob` under the same hypothesis. `JobStep`
  maps each action to one of `TransferJob` or to a stuttering step.

and counting rows and finding duplicates:

* `RowsDoneCovers`: `RowsDoneCoversCheckpoint`, whatever fails. `CountInv` says that the
  counter is at least the number of rows that are acknowledged or about to be,
  with what the attempt resumed from, and that the rows before the saved key are
  among them; it is the theorem about cardinalities.
* `InsertsFresh`: `NoDuplicateInsert`, when `cleanup` is not among the faults: the code
  only logs a failed deletion, and inserts what the deletion left. `ChunksFresh`
  says that the chunks that are not written are each in one place, pairwise
  disjoint, and that their rows and those that are still to be read are not in
  the target.

`RowNumberProofs`, for every number of writers, every capacity of the channels and both
target modes. The last two assume `NoBlindTruncation`, without which both are false
(see the known divergences), and hold whatever else fails:

* `RowNumberTypes`: `Spec => []TypeOK`.
* `RowNumberCheckpointSafe`: `CheckpointSafe`. `SafeInv` has the row number at which each
  chunk of the attempt ends (`ChunksConsecutive`): the chunks that are under way,
  in whatever order, follow each other without a gap, so that an acknowledgement
  that is due reaches exactly as far as its predecessor's successor.
* `RowNumberSuccess`: `SuccessMeansAllWritten`. In an attempt without an error so far,
  every row that the reader has passed is in the target or on its way
  (`NothingLost`), and the end that the reader sends is the last message and means
  that all rows were read (`EndIsLast`, `EndIsEnd`). The job ends at the estimate
  `RowCount`: for a table with more rows the theorem says nothing of the others.

`MigrationRunProofs`, over any number of tables, partitions,
workers, runs, resumes and crashes:

* `MigrationTypes`: `TypeOK`, whatever fails. Its invariant `RunInv` adds that jobs belong
  to the tables of the run (`JobsBelong`), that none starts before its table is there
  (`TablesThere`), and that the process works on a run that has not ended, on an
  older one only when the newest has (`RunsOrdered`).
* `SuccessMeansEveryRow`: `SuccessMeansComplete`, without `slow` (the counts at the end run
  into their timeout and the run is a success) and without foreign rows, one of
  which may stand for a missing one in a count.
* `SuccessIsLeftAlone`: `LaterSuccessKept`, whatever fails. `NotSuperseded` says that the
  process never works on a run that a later success has superseded; what removes rows is a
  step of the process, and `RunInv` has it that goroutines end with it.
* `SavedCovered`: `ProgressCovered` in both target modes, with every other fault, when large
  tables are partitioned by their keys and progress can be loaded (`KeysetRuns`): `Resume`
  truncates a table with row-number partitions, or whose progress it cannot load, and keeps
  what is saved. `RowsInv` says of a
  running job that its rows up to its position are in the target.
* `CompleteTransferred`, `CompleteKept`, `NothingToFind`: `CompleteMeansTransferred`,
  `CompleteTablesKept` and `ValidationFindsNothing` under `ExactRuns`, of which
  `migration_crash` is an instance: drop_recreate (in upsert mode a resume
  truncates), `KeysetRuns`, none of `lost`, `stats`, `count` and `cleanup` among the faults, and
  `save` only where no partitioned table has foreign rows. Such rows may be in any table
  otherwise: with one, `Resume` counts more rows than the source has and takes a complete
  table up again, and it is `Settled` (its partitions have saved their last positions) that
  keeps them from removing anything. With `count`, `CompleteKept` is false.
  `NothingToFind` says of partitioned tables only that the source's rows are
  there, and is about a process that works on the newest run: the
  progress of an older one is of a target that has been recreated since (see the
  known divergences). `CompleteInv` relates the status of each table in the newest
  run, the state of the jobs, the progress and the rows; that a table is
  completed only after all its jobs needs `BatchesWaited`, which says that a batch is
  left when its jobs have ended.

`StateBackendsProofs`, over any number of task keys, processes, runs, crashes and
cleanups, and any retention:

* `StateTypes`: `TypeOK`. `CleanupLeavesNoOrphans`: `NoOrphans`. `CleanupKeepsResumable`:
  `ResumableKept`. `BackendsHoldSameRun`: `SameRun`. All whatever fails, `newtask`
  included. `StateInv` says that a process has in memory what the file holds and
  works on a run that is in both backends (`ProcessInv`), that the run of the file
  is the newest in the database, and gone from it only when it has ended
  (`FileRunInv`), that after each statement of a cleanup nothing is left that
  refers to what the next one deletes (`CleanupInv`), and that a task which the
  process names by an id is there (`NamedInv`).
* `FileResumesLikeDatabase`: `SameGranularity`, and `TornFileNeverAhead`: `FileNeverAhead`,
  when `newtask` is not among the faults (see the known divergences: with it both are
  false). `SameGranularity` has one exception, a complete task whose progress was cleared,
  and then says what each backend answers. Both backends find a task by an id of their own,
  so `ResumeInv` adds to `StateInv` that the ids in the file are those of a prefix of the
  tables' order, one each, however the file has been cut (`FileIdsInv`), that a key of a run
  is one task of the database and a job holds the ids of its own task (`TaskInv`), and that
  each table of the file has come as far as its task, or not as far if the file was torn
  (`GranularityInv`). `SameCount` carries this over to the numbers that status shows.

The assumptions of `StateBackends` on its constants are what the code gives: finitely
many tables, each once in the order in which the file has them, and a file that is
not YAML differs from every file that is.

`SyncRunProofs`, over any finite set of rows, any number of clients' changes, of
runs and of faults:

* `SyncTypesHold`: `TypeOK`.
* `SuccessSynced`: `SuccessMeansSynced`, whatever fails. `FreshInv` says of each row whose
  date is before the load's start (or before the last sync time) that the target has
  it as the source does: when a reader has passed it or does not want it
  (`PassedRowsFresh`, unless it is in the chunk, `ChunkFresh`), after the load
  (`LoadedRowsFresh`), and between the runs (`SyncedRowsFresh`). Clients may change any
  row meanwhile, but then its date is later. That no row is in the target that the
  source does not have (`NothingInvented`) is what turns the equal counts of the
  validation into equal sets of rows, for finite sets.

`AIAdjusterProofs`:

* `BreakerTimeoutWhole`: `AskedWithoutTimer`, whatever the provider answers and however the
  two goroutines interleave. `BreakerInv` says that there is at most one sleeping
  goroutine, that the breaker is open while it sleeps, and that the mutex is held
  from the check of the breaker to its opening.
* `EffectKeptWithItsOwn`: `EffectOfOwnAdjustment`, when the queue of effects is not longer
  than the history (both are 10 in the code): each applied adjustment keeps a place in the
  pipeline's queue, which nothing empties, so that the history is never trimmed and an index
  into it stays that of its adjustment (`HistoryInv`).

`TargetModeProofs`, over the four drivers with every option, any number of tables,
foreign keys, workers, batches and chunks, of faults, of runs, and any answers of
the language model:

* `NilWritten`: `NilMeansWritten`, in both target modes; rows that are there and whose
  change escapes SQL Server's comparison (`Undetected`) are only claimed to be there, and a
  call whose staging table lost its rows is left out, as under the known divergences.
  `WorkerInv` says how far a call has come: the rows of the batch before its position are in
  the target, or in the staging table, which has all of them when it is merged; and a call
  that is done without an error has written its batch. The other workers and later calls
  only add new rows (`NewStay`). `PhaseInv` says that tables are dropped and created before
  the first statement of a worker, and `JobsBelong` that a phase has no goroutines but its
  own, so that those of `Finalize` leave the rows (`JobContents`).
* `PreparedRecreated`: `PreparedMeansRecreated`. While tables are created, `CreateInv` says of
  each that its goroutine is still there, or that the table is there, empty and with its
  key, or with PostgreSQL that the goroutine which adds the key is. What lacks its key
  for good is a table whose kept `CREATE TABLE` lacks it, and an answer that is kept
  stays (`JobFacts`).
* `TornWriteIsPrefix`: `TornIsPrefix`, when no row is in two batches or twice in one
  (`BatchesApart`), which is what the readers' properties say of the jobs. `TornInv`: the
  rows of a batch in the target are exactly those before the position of its call,
  and none before the first call. `NilWritten` needs only that they are there; this
  one also that nobody else has written the others.
* `FinalizedNextFree`: `NextIdentityFree`. `NextInv`: once the sequences are reset, a table
  whose goroutine has ended has its next value beyond its keys, as `MaxKey` finds
  them, and the later phases change neither.

They assume of the constants that there are finitely many keys, numbered from 1, and that
batches are sequences of keys.

`PipelineProofs`, first about the readers, for tables and batches of any size:

* `KeysetReadsTheRange`: `KeysetReadsItsRange`, for Oracle without a `maxPK` only (with one
  it is false). `RowNumberReadsTheRows`: `RowNumberReadsItsRows`. `PartitionsCoverTheTable`:
  `PartitionsCoverTable`. The readers loop by recursive functions, and what these compute is
  shown without an induction rule: a function with the closed form satisfies the recursive
  equation, so that one exists (`CHOOSE`), and two that satisfy it do not differ at a least
  argument (`LeastNat`). So `RowsOfIs` (the rows of batches), `KeysetLoop` (the batches
  after a key are those of the rows after it), `RowNumberLoop` and `NtileIs`. Each driver's
  loop is one of these, with its own query and its own test for the end.
* `EachKeyIsReadOnce`: `EachKeyReadOnce`, for all 64-bit keys and any number of readers,
  from `SplitConsecutive`: ranges that follow each other share out what lies between
  the ends of the first and the last. Like the property, it leaves out one key
  split for several readers and a difference of keys that overflows.

and about `Pipeline`, for any numbers of readers, workers, keys and updates:

* `PipelineCheckpointSafe`: `CheckpointSafe` under `NoBlindTruncation`, whatever else fails
  and however the writers are scaled. `CheckpointInv` says where chunks are (`JobType`,
  `PoolType`: all of them are chunks that the job's ranges give, `ChunksOf`), that what is
  acknowledged is written (`Acknowledged`), and that the coordinator claims for each reader
  only rows that are in the target (`Claims`). `AppliedClaims` keeps the claims through a
  round of acknowledgements, by what the readers' theorems say of the rows of a chunk
  (`RowsBetween` its key and the one before), and `SaveSafe` gives the key that is saved.
* `PipelineSuccess`: `SuccessUnlessShrunk`, where a job of one key has one reader (the
  hypothesis is `ParallelReaders > 1 => MinPK < MaxPK`: otherwise its range is empty, see
  the known divergences), and under `NoBlindTruncation`. An attempt that took a failed query
  for an empty table is not claimed to have read anything. `SuccessInv` adds that a chunk
  which is not written is on its way, unless there is an error, a cancellation or a worker
  taken away (`NoneLost`), and what each phase of `Execute` has left behind it (`JobOrder`).

Of the constants they assume `InputsAssumption` (natural bounds) and `JobAssumption`:
finitely many rows with 64-bit keys, the smallest not the smallest integer, and a
difference of keys that does not overflow.

The theorems on `KeysetTransfer`, `RowNumberTransfer`, `MigrationRun` and `SyncRun` are about
every source, both target modes unless said otherwise, and any number of executions;
the runs check drop_recreate on small instances. The inductive invariants are at the
end of the modules they are about, those of `TargetMode` and `Pipeline` in their proof
modules, and were checked by TLC on the runs' instances before they were proved.

Only model-checked: liveness (`AttemptEnds`, `ExecuteReturns`, `RunEnds`, `BreakerCloses`,
`MonitorStops`), which is out of the prover's reach. Every other property of a run
that passes is stated by a theorem above.

## Not modelled

The list of components in `PROJECT.json` has the parts that are left out and why.
In short: text (prompts and their parsing, SQL beyond its effect, names, types and
values of columns), presentation (terminal UI, progress, notifications, logging),
the extraction of schemas, sample validation, which only warns, and statistics.
Within what is modelled:

* The source's rows change only in `SyncRun`. Partition boundaries that a resume
  computes anew from a changed source (`job_builder.go:185`) are not covered.
* `MigrationRun` and `KeysetTransfer` have both target modes, their runs only
  drop_recreate: in upsert mode a resume truncates (see the known divergences). Upserts
  are checked statement by statement in `target_mode` and over changing rows in `sync`.
* Keys are exact; the float64 that a saved key goes through is not modelled.
* Clocks agree, and a change is visible as soon as it has its date.
* `AIAdjuster` has one process; a resumed one counts its adjustments from 1 again
  under the same run.
* Staging tables of two workers, whose names Oracle's writer makes from the time, are apart.
* A DDL answer is right, lacks the key, or is rejected; that a cached one may be for
  another identity or type is left out.

## Plan

No proof is left of what the runs check, but liveness. The model could be extended to
the rounding of a saved key (`state.go:728`), to partitions that a resume computes anew
from a changed source (`job_builder.go:185`), and to the terminal interface.

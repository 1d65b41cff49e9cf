------------------------------ MODULE SyncRun ------------------------------
(***************************************************************************)
(* Incremental loads: runs of dmt over a source that clients change while  *)
(* it is read.                                                             *)
(*                                                                         *)
(* A table with a date column is loaded whole once; later runs in upsert   *)
(* mode read only the rows whose date is not before the sync time of the   *)
(* last successful load.  That sync time is taken when the jobs are built, *)
(* and kept when the last job of the table has succeeded.  Runs may be     *)
(* interrupted at any step, and resumed, with a configuration whose hash   *)
(* is that of the run, or by force.                                        *)
(*                                                                         *)
(* There is one table, read whole by one reader in chunks of one row       *)
(* (KeysetTransfer and MigrationRun have the rest), whose rows are never   *)
(* deleted.  Databases and processes have the same clock, a client's       *)
(* change is visible at once, and a changed row has the time of its change *)
(* as its date.  Only the newest run is resumed.                           *)
(***************************************************************************)
EXTENDS RunConfig, FiniteSets

CONSTANTS
  Rows,             \* the keys of the table, 1 .. n
  Files,            \* the configuration files in use
  Machines,         \* the machines that dmt is started on
  Workers,          \* the values of --workers, 0 for no flag
  MaxClock,         \* bound on the clock
  MaxVersion,       \* bound on the changes of a row
  MaxRuns           \* bound on the runs

ASSUME SyncAssumption ==
  /\ IsFiniteSet(Rows) /\ Rows = 1 .. Cardinality(Rows)
  /\ MaxClock \in Nat /\ MaxVersion \in Nat /\ MaxRuns \in Nat

VARIABLES
  source,           \* source[r]: the version of row r, and its date
  target,           \* target[r]: the version of row r in the target
  clock,
  lastSync,         \* table_sync_timestamps: the table's last sync time
  run,              \* the newest run: its hash, its task and its progress
  runs,             \* how many runs there have been
  pc,               \* where Run or Resume is; "down" when there is no process
  cfg,              \* the configuration of the process
  job,              \* the table's job
  continued         \* history: a load has gone on from another's progress

vars == <<source, target, clock, lastSync, run, runs, pc, cfg, job, continued>>
database == <<source, clock>>

Missing == 0                                          \* the version of a row that is not there
NoDate == -1                                          \* NULL
NoSync == -1
NoKey == 0
NoConfig == [mode |-> ""]
NoRow == [key |-> NoKey, version |-> Missing]
NoJob == [start |-> NoSync, from |-> NoSync, last |-> NoKey, upTo |-> NoKey, chunk |-> NoRow, rows |-> 0]
NoRun == [status |-> "none", hash |-> NoConfig, task |-> "pending", last |-> NoKey, rows |-> 0]

Present(versions) == {r \in Rows : versions[r] # Missing}
InSource == {r \in Rows : source[r].version # Missing}
SameCount == Cardinality(Present(target)) = Cardinality(InSource)

-----------------------------------------------------------------------------
(***************************************************************************)
(* The clients of the source.                                              *)
(***************************************************************************)

ClientUpdate(r) ==
  /\ source[r].version \in 1 .. MaxVersion - 1
  /\ source' = [source EXCEPT ![r] = [version |-> @.version + 1, date |-> clock]]
  /\ UNCHANGED <<target, clock, lastSync, run, runs, pc, cfg, job, continued>>

ClientInsert(r, date) ==
  /\ source[r].version = Missing
  /\ source' = [source EXCEPT ![r] = [version |-> 1, date |-> date]]
  /\ UNCHANGED <<target, clock, lastSync, run, runs, pc, cfg, job, continued>>

Tick ==
  /\ clock < MaxClock
  /\ clock' = clock + 1
  /\ UNCHANGED <<source, target, lastSync, run, runs, pc, cfg, job, continued>>

-----------------------------------------------------------------------------
(***************************************************************************)
(* The start of a process.                                                 *)
(***************************************************************************)

\* buildDateFilter: the sync time of this load, and the date it reads from.
NewJob(config, last, rows) ==
  [NoJob EXCEPT !.start = IF config.dateColumns THEN clock ELSE NoSync,
                !.from = IF config.dateColumns /\ config.mode = "upsert" THEN lastSync ELSE NoSync,
                !.last = last, !.rows = rows]

NoRows == [r \in Rows |-> Missing]

\* Run: in drop_recreate mode the target's table is a new one.
Run(file, machine, flags) ==
  LET loaded == ApplyDefaults(file, machine)
      config == WithFlags(loaded, flags)
  IN /\ pc = "down" /\ runs < MaxRuns /\ Valid(loaded)
     /\ runs' = runs + 1
     /\ run' = [NoRun EXCEPT !.status = "running", !.hash = ComputeConfigHash(config)]
     /\ cfg' = config
     /\ target' = IF config.mode = "upsert" THEN target ELSE NoRows
     /\ job' = NewJob(config, NoKey, 0)
     /\ pc' = "clean"
     /\ UNCHANGED <<database, lastSync, continued>>

ConfigChanged(config, force) == ~force /\ run.hash # ComputeConfigHash(config)

\* Resume truncates a table without progress, or with fewer rows than were saved.
StartsOver == run.last = NoKey \/ Cardinality(Present(target)) < run.rows

Resume(file, machine, force) ==
  LET config == ApplyDefaults(file, machine)
  IN /\ pc = "down" /\ run.status = "running" /\ Valid(config)
     /\ ~ConfigChanged(config, force)
     /\ cfg' = config
     /\ IF run.task = "success" /\ SameCount
        THEN pc' = "validate" /\ UNCHANGED <<target, run, job, continued>>
        ELSE /\ pc' = "clean"
             /\ IF StartsOver
                THEN /\ target' = NoRows
                     /\ run' = [run EXCEPT !.last = NoKey, !.rows = 0]
                     /\ job' = NewJob(config, NoKey, 0)
                     /\ UNCHANGED continued
                ELSE /\ job' = NewJob(config, run.last, run.rows)
                     /\ continued' = TRUE
                     /\ UNCHANGED <<target, run>>
     /\ UNCHANGED <<database, lastSync, runs>>

-----------------------------------------------------------------------------
(***************************************************************************)
(* The job.                                                                *)
(***************************************************************************)

\* Execute removes what is beyond the progress, except in upsert mode, and asks for
\* the largest key.
Execute ==
  /\ pc = "clean"
  /\ target' = IF cfg.mode = "upsert" THEN target
               ELSE [r \in Rows |-> IF r <= job.last THEN target[r] ELSE Missing]
  /\ job' = [job EXCEPT !.upTo = IF InSource = {} THEN NoKey
                                 ELSE CHOOSE r \in InSource : \A x \in InSource : x <= r]
  /\ pc' = "copy"
  /\ UNCHANGED <<database, lastSync, run, runs, cfg, continued>>

\* The WHERE clause of a keyset query: NULL is not >= anything.
Filtered(r) == job.from = NoSync \/ source[r].date >= job.from

RowsLeft == {r \in InSource : job.last < r /\ r <= job.upTo /\ Filtered(r)}

ReadChunk ==
  /\ pc = "copy" /\ job.chunk = NoRow /\ RowsLeft # {}
  /\ LET r == CHOOSE x \in RowsLeft : \A y \in RowsLeft : x <= y
     IN job' = [job EXCEPT !.last = r, !.chunk = [key |-> r, version |-> source[r].version]]
  /\ UNCHANGED <<database, target, lastSync, run, runs, pc, cfg, continued>>

WriteChunk ==
  /\ pc = "copy" /\ job.chunk # NoRow
  /\ target' = [target EXCEPT ![job.chunk.key] = job.chunk.version]
  /\ job' = [job EXCEPT !.chunk = NoRow, !.rows = @ + 1]
  /\ UNCHANGED <<database, lastSync, run, runs, pc, cfg, continued>>

SaveProgress ==
  /\ pc = "copy" /\ job.chunk = NoRow /\ job.last # run.last
  /\ run' = [run EXCEPT !.last = job.last, !.rows = job.rows]
  /\ UNCHANGED <<database, target, lastSync, runs, pc, cfg, job, continued>>

\* The last checkpoint is saved, unless that fails.
JobSucceeds ==
  /\ pc = "copy" /\ job.chunk = NoRow /\ RowsLeft = {}
  /\ run' \in {run, [run EXCEPT !.last = job.last, !.rows = job.rows]}
  /\ pc' = "complete"
  /\ UNCHANGED <<database, target, lastSync, runs, cfg, job, continued>>

-----------------------------------------------------------------------------
(***************************************************************************)
(* The end of a run.                                                       *)
(***************************************************************************)

MarkTaskComplete ==
  /\ pc = "complete"
  /\ run' = [run EXCEPT !.task = "success"]
  /\ pc' = "sync"
  /\ UNCHANGED <<database, target, lastSync, runs, cfg, job, continued>>

\* Faulty: the sync time is the end of the load.
UpdateSyncTimestampAtEnd ==
  /\ pc = "sync"
  /\ lastSync' = IF job.start = NoSync THEN lastSync ELSE clock
  /\ pc' = "validate"
  /\ UNCHANGED <<database, target, run, runs, cfg, job, continued>>

UpdateSyncTimestamp ==
  /\ pc = "sync"
  /\ lastSync' = IF job.start = NoSync THEN lastSync ELSE job.start
  /\ pc' = "validate"
  /\ UNCHANGED <<database, target, run, runs, cfg, job, continued>>

ProcessEnds == pc' = "down" /\ cfg' = NoConfig /\ job' = NoJob

\* Validate compares the counts; nothing reads the progress of a run that has ended.
CompleteRun ==
  /\ pc = "validate"
  /\ run' = [NoRun EXCEPT !.status = IF SameCount THEN "success" ELSE "failed"]
  /\ ProcessEnds
  /\ UNCHANGED <<database, target, lastSync, runs, continued>>

\* The process dies, or Ctrl+C stops it; the run stays "running".
Interrupt ==
  /\ pc # "down"
  /\ ProcessEnds
  /\ UNCHANGED <<database, target, lastSync, run, runs, continued>>

\* Every run has ended, and no other is started.
Quiet ==
  /\ pc = "down" /\ runs = MaxRuns
  /\ UNCHANGED vars

-----------------------------------------------------------------------------

\* Nothing has been transferred; some rows are there, with or without a date.
Init ==
  /\ source \in [Rows -> {[version |-> Missing, date |-> NoDate],
                          [version |-> 1, date |-> NoDate], [version |-> 1, date |-> 0]}]
  /\ target = NoRows
  /\ clock = 0 /\ lastSync = NoSync
  /\ run = NoRun /\ runs = 0
  /\ pc = "down" /\ cfg = NoConfig /\ job = NoJob
  /\ continued = FALSE

Client ==
  \/ \E r \in Rows : ClientUpdate(r) \/ ClientInsert(r, clock) \/ ClientInsert(r, NoDate)
  \/ Tick

Start ==
  \E file \in Files, machine \in Machines :
    \/ \E n \in Workers : Run(file, machine, [workers |-> n])
    \/ \E force \in BOOLEAN : Resume(file, machine, force)

Process ==
  \/ Execute \/ ReadChunk \/ WriteChunk \/ SaveProgress \/ JobSucceeds
  \/ MarkTaskComplete \/ UpdateSyncTimestamp \/ CompleteRun
  \/ Interrupt

Next == Client \/ Start \/ Process \/ Quiet

Spec == Init /\ [][Next]_vars

-----------------------------------------------------------------------------
(***************************************************************************)
(* What incremental loads promise.                                         *)
(***************************************************************************)

\* No row whose last change is before the sync time is behind in the target: it is
\* not read again.
Synced(r) ==
  source[r].version # Missing /\ source[r].date < lastSync => target[r] = source[r].version

\* When a run is recorded as a success, every change before the sync time is in the
\* target, for a client may change rows before, behind and after the reader; this
\* as long as no load has gone on from the progress of an interrupted one.
SuccessMeansSynced ==
  [][run.status = "running" /\ run'.status = "success" /\ ~continued => \A r \in Rows : Synced(r)]_vars

=============================================================================

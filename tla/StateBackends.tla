---------------------------- MODULE StateBackends ----------------------------
(***************************************************************************)
(* The two state backends of dmt under the same caller.  The orchestrator  *)
(* sees only the interface checkpoint.StateBackend, so what one backend    *)
(* answers must be what the other one would.  Every step of the caller is  *)
(* done on both: SQL is SQLiteState, File is FileState.                    *)
(*                                                                         *)
(* The caller is the one of orchestrator.Run and Resume, one process after *)
(* another, with the jobs of a run as independent threads of operations.   *)
(***************************************************************************)
EXTENDS Integers, Sequences, FiniteSets

CONSTANTS
  TaskKeys, KeyOrder, NoPK, NoRun, Corrupt, RetentionPeriod,
  LastPK,           \* the keys of a job go from 1 to LastPK
  MaxStarts, MaxNow, MaxOps, \* bounds: processes started, the clock, operations on tasks
  Faults            \* what may go wrong, a subset of {"crash", "torn", "newtask"}

\* What the backends hold.
Statuses == {"pending", "running", "success", "failed"}
RunStatuses == {"running", "success", "failed", "partial"}
RunRow == [status : RunStatuses, phase : {"initializing", "transferring"},
           started : Nat, completed : Nat]
TaskRow == [run : 1 .. MaxStarts, key : TaskKeys, status : Statuses]
ProgressRow == [pk : 1 .. LastPK, rows : Nat, total : Nat]
FileRow == [status : Statuses, pk : {NoPK} \cup 1 .. LastPK, rows : Nat, total : Nat, id : Nat]
IsContents(m) ==
  \E S \in SUBSET TaskKeys :
    m \in [run : {NoRun} \cup 1 .. MaxStarts, status : {""} \cup RunStatuses,
           phase : {"", "transferring"}, tables : [S -> FileRow]]

ASSUME StateAssumption ==
  /\ IsFiniteSet(TaskKeys) /\ KeyOrder \in Seq(TaskKeys)
  /\ Len(KeyOrder) = Cardinality(TaskKeys) /\ {KeyOrder[i] : i \in DOMAIN KeyOrder} = TaskKeys
  /\ ~IsContents(Corrupt)
  /\ RetentionPeriod \in Nat /\ LastPK \in Nat
  /\ NoPK \notin 1 .. LastPK /\ NoRun \notin 1 .. MaxStarts
  /\ MaxStarts \in Nat /\ MaxNow \in Nat \ {0} /\ MaxOps \in Nat
  /\ Faults \subseteq {"crash", "torn", "newtask"}

VARIABLES
  runs, tasks, nextTask, progress,     \* migrate.db
  mem, disk, taskIDCounter,            \* the state file
  proc,             \* "down", a step of CleanupOldRuns, "ready", "prepare" or "jobs"
  cur,              \* the run of the process
  id,               \* id[k]: the ids of the task with key k, in the process' memory
  st,               \* st[k]: where the job with key k is
  now, starts, ops,
  cutoff,           \* of CleanupOldRuns
  torn              \* the state file has been torn by a crash

SQL == INSTANCE SQLiteState
File == INSTANCE FileState

sqlVars == <<runs, tasks, nextTask, progress>>
fileVars == <<mem, disk, taskIDCounter>>
process == <<proc, cur, id, st, starts, cutoff>>
env == <<now, ops, torn>>
vars == <<sqlVars, fileVars, process, env>>

NoID == [sql |-> 0, file |-> 0]

Init ==
  /\ SQL!SQLInit /\ File!FileInit
  /\ proc = "down" /\ cur = NoRun /\ starts = 0 /\ cutoff = 0
  /\ id = [k \in TaskKeys |-> NoID] /\ st = [k \in TaskKeys |-> "none"]
  /\ now = 1 /\ ops = 0 /\ torn = FALSE

-----------------------------------------------------------------------------
(***************************************************************************)
(* Processes.                                                              *)
(***************************************************************************)

\* What is in memory goes with the process.
Forget ==
  /\ mem' = File!Empty /\ taskIDCounter' = File!FirstTaskID
  /\ proc' = "down" /\ cur' = NoRun /\ cutoff' = 0
  /\ id' = [k \in TaskKeys |-> NoID] /\ st' = [k \in TaskKeys |-> "none"]
  /\ UNCHANGED starts

Goto(label) == proc' = label /\ UNCHANGED <<cur, id, st, starts, cutoff>>
\* An operation on a task.
TaskOp == ops < MaxOps /\ ops' = ops + 1 /\ UNCHANGED <<now, torn>>

Keep == UNCHANGED <<proc, cur, id, st, starts, cutoff>>

\* The state file is written after every operation, the last one of a process included.
Write(m) == File!Saved(m)
WriteLast(m) == disk' = m
SameCounter == UNCHANGED taskIDCounter

\* A new process opens both backends, and cleans up the history.
Start ==
  /\ proc = "down" /\ starts < MaxStarts
  /\ File!Load
  /\ starts' = starts + 1 /\ cutoff' = SQL!Cutoff(now) /\ proc' = "clean progress"
  /\ UNCHANGED <<sqlVars, cur, id, st, env>>

CleanProgress ==
  /\ proc = "clean progress" /\ SQL!DeleteOldProgress(cutoff) /\ Goto("clean tasks")
  /\ UNCHANGED <<fileVars, env>>

CleanTasks ==
  /\ proc = "clean tasks" /\ SQL!DeleteOldTasks(cutoff) /\ Goto("clean runs")
  /\ UNCHANGED <<fileVars, env>>

CleanRuns ==
  /\ proc = "clean runs" /\ SQL!DeleteOldRuns(cutoff) /\ Goto("ready")
  /\ UNCHANGED <<fileVars, env>>

\* Run: a new run, known by its process, replaces what the state file held.
CreateRun ==
  /\ proc = "ready"
  /\ SQL!CreateRun(starts, now)
  /\ Write(File!CreateRun(starts)) /\ SameCounter
  /\ proc' = "prepare" /\ cur' = starts
  /\ UNCHANGED <<id, st, starts, cutoff, env>>

\* Resume: a superseded run is given up, any other one goes on.
Resume(r) ==
  /\ proc = "ready" /\ r \in SQL!LastIncompleteRuns
  /\ IF SQL!HasSuccessfulRunAfter(r)
     THEN /\ SQL!CompleteRun(r, "failed", now)
          /\ Forget
          /\ UNCHANGED disk
     ELSE /\ r \in File!LastIncompleteRuns
          /\ SQL!MarkRunAsResumed(r)
          /\ Write(File!MarkRunAsResumed) /\ SameCounter
          /\ proc' = "prepare" /\ cur' = r
          /\ UNCHANGED <<id, st, starts, cutoff>>
  /\ UNCHANGED env

\* A run that ended is not resumed; an interrupted one is left as "running".
CompleteRun(status) ==
  /\ proc \in {"prepare", "jobs"} /\ status \in {"success", "failed", "partial"}
  /\ status # "failed" => proc = "jobs" /\ \A k \in TaskKeys : st[k] \in {"success", "failed"}
  /\ SQL!CompleteRun(cur, status, now)
  /\ WriteLast(File!CompleteRun(status))
  /\ Forget
  /\ UNCHANGED env

Interrupted ==
  /\ proc = "jobs"
  /\ SQL!MarkRunAsResumed(cur)
  /\ WriteLast(File!MarkRunAsResumed)
  /\ Forget
  /\ UNCHANGED env

-----------------------------------------------------------------------------
(***************************************************************************)
(* Tasks.  The caller names a task by the id that CreateTask has returned. *)
(***************************************************************************)

\* Unless tasks may be new to a resume, a process that resumes finds its tasks there.
MayCreate(k) ==
  "newtask" \in Faults \/ k \in File!Keys \/ taskIDCounter - File!FirstTaskID = Cardinality(File!Keys)

\* Tasks are created in the order of the tables.
NextTask(k) ==
  \E i \in DOMAIN KeyOrder : /\ KeyOrder[i] = k /\ st[k] = "none"
                            /\ \A j \in 1 .. i - 1 : st[KeyOrder[j]] # "none"

\* A table is skipped only as a complete one, and taken up again when the target does not
\* have the rows of its source; the caller here skips none that only one backend calls
\* complete.
MaySkip(k) == k \in SQL!GetCompletedTables(cur) \cap File!GetCompletedTables

CreateTask(k) ==
  /\ proc = "prepare" /\ NextTask(k) /\ MayCreate(k)
  /\ SQL!CreateTask(cur, k)
  /\ Write(File!CreateTask(k)) /\ File!CountsTask(k)
  /\ id' = [id EXCEPT ![k] = [sql  |-> CHOOSE t \in DOMAIN tasks' :
                                        tasks'[t].run = cur /\ tasks'[t].key = k,
                              file |-> mem'.tables[k].id]]
  /\ \E s \in {"success", "new"} :
       /\ s = "success" => MaySkip(k)
       /\ st' = [st EXCEPT ![k] = s]
  /\ UNCHANGED <<proc, cur, starts, cutoff, env>>

\* Resume starts a table afresh, a complete one too that the target has lost.
ClearTransferProgress(k) ==
  /\ proc = "prepare" /\ st[k] = "new"
  /\ SQL!ClearTransferProgress(id[k].sql)
  /\ \E key \in File!KeysWithID(id[k].file) : Write(File!ClearTransferProgress(key))
  /\ SameCounter /\ Keep /\ TaskOp

UpdatePhase ==
  /\ proc = "prepare" /\ \A k \in TaskKeys : st[k] # "none"
  /\ SQL!UpdatePhase(cur, "transferring")
  /\ Write(File!UpdatePhase("transferring")) /\ SameCounter
  /\ Goto("jobs")
  /\ UNCHANGED env

UpdateTaskStatus(k, from, to) ==
  /\ proc = "jobs" /\ st[k] = from
  /\ SQL!UpdateTaskStatus(id[k].sql, to)
  /\ \E key \in File!KeysWithID(id[k].file) : Write(File!UpdateTaskStatus(key, to))
  /\ SameCounter
  /\ st' = [st EXCEPT ![k] = to]
  /\ TaskOp /\ UNCHANGED <<proc, cur, id, starts, cutoff>>

StartJob(k) == UpdateTaskStatus(k, "new", "running")
EndJob(k, status) == UpdateTaskStatus(k, "running", status)

\* A job goes on from the key it has found.
SaveProgress(k, pk) ==
  /\ proc = "jobs" /\ st[k] = "running"
  /\ SQL!GetProgress(id[k].sql).pk \notin pk .. LastPK
  /\ SQL!SaveTransferProgress(id[k].sql, pk, pk, LastPK)
  /\ \E key \in File!KeysWithID(id[k].file) : Write(File!SaveTransferProgress(key, pk, pk, LastPK))
  /\ SameCounter /\ Keep /\ TaskOp

\* The task of a table is complete with its last partition.
MarkTaskComplete(k) ==
  /\ proc = "jobs" /\ st[k] = "new" /\ \E other \in TaskKeys : st[other] = "success"
  /\ SQL!MarkTaskComplete(cur, k)
  /\ Write(File!MarkTaskComplete(k)) /\ File!CountsTask(k)
  /\ st' = [st EXCEPT ![k] = "success"]
  /\ TaskOp /\ UNCHANGED <<proc, cur, id, starts, cutoff>>

-----------------------------------------------------------------------------

\* Times are only compared between runs: a process may take no time.
Tick ==
  /\ proc = "down" /\ now < MaxNow /\ now' = now + 1
  /\ UNCHANGED <<sqlVars, fileVars, process, ops, torn>>

\* The process dies between two operations, or while the last one writes the file.  That
\* of the last process is left out: no other would find what it leaves.
Crash ==
  /\ proc # "down" /\ starts < MaxStarts /\ "crash" \in Faults
  /\ Forget
  /\ UNCHANGED <<sqlVars, disk, env>>

CrashInSave ==
  /\ proc \in {"prepare", "jobs"} /\ starts < MaxStarts /\ ~torn /\ "torn" \in Faults
  /\ File!SaveTorn(mem) /\ torn' = TRUE
  /\ Forget
  /\ UNCHANGED <<sqlVars, now, ops>>

Next ==
  \/ Start \/ CleanProgress \/ CleanTasks \/ CleanRuns
  \/ CreateRun \/ (\E r \in 1 .. MaxStarts : Resume(r))
  \/ \E status \in {"success", "failed", "partial"} : CompleteRun(status)
  \/ Interrupted \/ UpdatePhase
  \/ \E k \in TaskKeys :
       \/ CreateTask(k) \/ ClearTransferProgress(k) \/ StartJob(k) \/ MarkTaskComplete(k)
       \/ \E status \in {"success", "failed"} : EndJob(k, status)
       \/ \E pk \in 1 .. LastPK : SaveProgress(k, pk)
  \/ Tick \/ Crash \/ CrashInSave

Spec == Init /\ [][Next]_vars

-----------------------------------------------------------------------------
(***************************************************************************)
(* Properties.                                                             *)
(***************************************************************************)

OnDisk == INSTANCE FileState WITH mem <- disk

SQLTypeOK ==
  /\ runs \in [DOMAIN runs -> RunRow] /\ DOMAIN runs \subseteq 1 .. starts
  /\ tasks \in [DOMAIN tasks -> TaskRow] /\ DOMAIN tasks \subseteq 1 .. nextTask - 1
  /\ nextTask \in Nat \ {0}
  /\ progress \in [DOMAIN progress -> ProgressRow]

FileTypeOK ==
  /\ IsContents(mem) /\ taskIDCounter \in Nat
  /\ disk = Corrupt \/ IsContents(disk)

ProcessTypeOK ==
  /\ proc \in {"down", "clean progress", "clean tasks", "clean runs", "ready", "prepare", "jobs"}
  /\ cur \in {NoRun} \cup 1 .. MaxStarts
  /\ id \in [TaskKeys -> [sql : Nat, file : Nat]]
  /\ st \in [TaskKeys -> {"none", "new", "running", "success", "failed"}]
  /\ now \in 1 .. MaxNow /\ starts \in 0 .. MaxStarts /\ ops \in 0 .. MaxOps
  /\ cutoff \in Int /\ torn \in BOOLEAN

\* The rows of both backends, and what the process remembers.
TypeOK == SQLTypeOK /\ FileTypeOK /\ ProcessTypeOK

\* The run in the state file, as long as the file is whole and the run may be resumed.
FileRuns == IF disk = Corrupt THEN {} ELSE OnDisk!LastIncompleteRuns

\* The state file and the database agree on what became of a run, on whether it can be
\* resumed, and where it was; history shows the same of it.
SameRun ==
  ~torn /\ disk.run \in DOMAIN runs =>
    /\ OnDisk!GetAllRuns \subseteq SQL!GetAllRuns
    /\ OnDisk!GetRunByID(disk.run) = SQL!GetRunByID(disk.run)
    /\ disk.run \in FileRuns <=> disk.run \in SQL!Running
    /\ disk.run \in FileRuns =>
         runs[disk.run].phase = IF disk.phase = "" THEN "initializing" ELSE disk.phase

\* What the backends answer about task k of run r: complete or not, and how far.
SQLAnswers(r, k) == {<<k \in SQL!GetCompletedTables(r), SQL!GetProgress(t)>> : t \in SQL!TaskIDs(r, k)}
FileAnswers(k) ==
  IF k \in OnDisk!Keys
  THEN {<<k \in OnDisk!GetCompletedTables, p>> : p \in OnDisk!GetProgress(disk.tables[k].id)}
  ELSE {}

\* What status and history show of each task.
Shown(list) == {<<t.key, t.rows>> : t \in list}

\* The tables that only one of the backends calls complete.
Apart ==
  {k \in TaskKeys : /\ ~torn
                    /\ \E r \in FileRuns :
                         (k \in SQL!GetCompletedTables(r)) # (k \in OnDisk!GetCompletedTables)}

\* A resume finds in the state file exactly what it would find in the database: the same
\* tasks, complete or not, with the same progress, and status shows the same of them.  The
\* one exception is a complete task without progress, which the file may call incomplete.
SameGranularity ==
  ~torn => \A r \in FileRuns :
    /\ \A k \in TaskKeys \ Apart : SQLAnswers(r, k) = FileAnswers(k)
    /\ \A k \in Apart : /\ SQLAnswers(r, k) = {<<TRUE, SQL!NoProgress>>}
                        /\ FileAnswers(k) = {<<FALSE, File!NoProgress>>}
    /\ Shown(SQL!TasksWithProgress(r)) = Shown(OnDisk!TasksWithProgress)
    /\ SQL!GetRunStats(r).total = OnDisk!GetRunStats.total
    /\ SQL!GetRunStats(r).of["success"] = OnDisk!GetRunStats.of["success"] + Cardinality(Apart)

\* The backends part over a table only where a resume clears the progress of its complete
\* task: the file takes the completion back (ts.Status = "pending"), the database does not.
ApartByClearing == [][\A k \in Apart' \ Apart : ClearTransferProgress(k)]_vars

\* The state file has the "same resume granularity as SQLite backend" (README.md): the
\* same tables are complete.  The code does not do so after ClearTransferProgress: see the
\* known divergences in README.md.
CompletedAlike == Apart = {}

\* A torn state file may forget, but never claims a table that is not complete or rows
\* that were not transferred.
FileNeverAhead ==
  \A r \in FileRuns : \A k \in OnDisk!Keys :
    \E answer \in SQLAnswers(r, k) : \A claim \in FileAnswers(k) :
      /\ claim[1] => answer[1]
      /\ claim[2].pk = NoPK \/ (answer[2].pk # NoPK /\ claim[2].pk <= answer[2].pk)

\* Wherever CleanupOldRuns is interrupted, no task is left without its run and no progress
\* without its task.
NoOrphans ==
  /\ \A t \in DOMAIN tasks : tasks[t].run \in DOMAIN runs
  /\ DOMAIN progress \subseteq DOMAIN tasks

\* CleanupOldRuns takes nothing from a run that can still be resumed.
KeepsResumable ==
  \A r \in SQL!Running :
    /\ r \in DOMAIN runs' /\ SQL!TasksOf(r) \subseteq DOMAIN tasks'
    /\ SQL!TasksOf(r) \cap DOMAIN progress \subseteq DOMAIN progress'
ResumableKept ==
  [][(proc \in {"clean progress", "clean tasks", "clean runs"}) => KeepsResumable]_vars

(***************************************************************************)
(* What is inductive.                                                      *)
(***************************************************************************)

InRun == proc \in {"prepare", "jobs"}

\* The memory of a process is what the file holds; a run that goes on is in both backends.
ProcessInv ==
  /\ proc # "down" => mem = disk /\ starts >= 1
  /\ InRun => cur \in DOMAIN runs /\ mem.run = cur /\ mem.status = "running"
  /\ ~InRun => \A k \in TaskKeys : st[k] = "none"
  /\ disk = Corrupt => torn

\* The run of the file is the latest, and says of itself what the database does; it is
\* gone from the database only when it has ended.
FileRunInv ==
  /\ \A r \in DOMAIN runs : runs[r].started <= now
  /\ (disk # Corrupt /\ disk.run \notin DOMAIN runs) => disk.status # "running"
  /\ (disk # Corrupt /\ disk.run \in DOMAIN runs) =>
       /\ runs[disk.run].status = disk.status
       /\ runs[disk.run].phase = IF disk.phase = "" THEN "initializing" ELSE disk.phase
       /\ \A r \in DOMAIN runs : runs[r].started <= runs[disk.run].started

\* Between the statements of CleanupOldRuns nothing refers to what the next one deletes.
CleanupInv ==
  /\ proc = "clean tasks" => DOMAIN progress \cap SQL!OldTasks(cutoff) = {}
  /\ proc = "clean runs" => SQL!OldTasks(cutoff) = {}

\* The task that a process names is there, in both backends.
NamedInv ==
  \A k \in TaskKeys : st[k] # "none" =>
    /\ id[k].sql \in DOMAIN tasks /\ k \in File!Keys
    /\ tasks[id[k].sql].run = cur /\ tasks[id[k].sql].key = k

StateInv == TypeOK /\ NoOrphans /\ ProcessInv /\ FileRunInv /\ CleanupInv /\ NamedInv

\* The file holds the first tables of the order, with the ids in the order of their creation.
FirstKeys(n) == {KeyOrder[i] : i \in 1 .. n}
FileIdsInv ==
  disk # Corrupt =>
    \E n \in 0 .. Len(KeyOrder) :
      /\ DOMAIN disk.tables = FirstKeys(n)
      /\ \A i \in 1 .. n : disk.tables[KeyOrder[i]].id = File!FirstTaskID + i

\* A key of a run is one task; a job has the ids of its task, which is not complete as
\* long as the job may save progress.
TaskInv ==
  /\ \A t, u \in DOMAIN tasks : tasks[t].run = tasks[u].run /\ tasks[t].key = tasks[u].key
                             => t = u
  /\ \A k \in TaskKeys : st[k] # "none" =>
       /\ mem.tables[k].id = id[k].file
       /\ st[k] = "running" => tasks[id[k].sql].status # "success"

\* A table of the file is a task of its run that has come at least as far, and with a
\* whole file every task of the run is such a table and has come just as far, but for a
\* complete task that has been cleared.
Behind(row, t) ==
  /\ row.status = "success" => tasks[t].status = "success"
  /\ row.pk = NoPK \/ (t \in DOMAIN progress /\ row.pk <= progress[t].pk)
Level(row, t) ==
  /\ row.status = "success" => tasks[t].status = "success"
  /\ (tasks[t].status = "success" /\ row.status # "success") => t \notin DOMAIN progress
  /\ t \in DOMAIN progress => row.pk = progress[t].pk /\ row.rows = progress[t].rows
  /\ t \notin DOMAIN progress => row.pk = NoPK /\ row.rows = 0

GranularityInv ==
  disk # Corrupt /\ disk.status = "running" =>
    /\ \A k \in DOMAIN disk.tables :
         \E t \in DOMAIN tasks :
           tasks[t].run = disk.run /\ tasks[t].key = k /\ Behind(disk.tables[k], t)
    /\ ~torn =>
         \A t \in DOMAIN tasks : tasks[t].run = disk.run =>
           tasks[t].key \in DOMAIN disk.tables /\ Level(disk.tables[tasks[t].key], t)

ResumeInv == FileIdsInv /\ TaskInv /\ GranularityInv

=============================================================================

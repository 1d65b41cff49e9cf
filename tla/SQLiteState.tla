----------------------------- MODULE SQLiteState -----------------------------
(***************************************************************************)
(* The SQLite state backend of dmt (checkpoint/state.go): the runs, their  *)
(* tasks and the progress of the tasks, with one operator per statement.   *)
(* Each is atomic, for SQLite runs each statement as a transaction;        *)
(* CleanupOldRuns is several of them.                                      *)
(*                                                                         *)
(* Tables are functions from their keys to rows.  Times are in seconds, as *)
(* datetime('now') gives them.                                             *)
(***************************************************************************)
EXTENDS Integers, FiniteSets

CONSTANTS
  NoPK,             \* the JSON text null
  RetentionPeriod   \* history_retention_days

VARIABLES
  runs,             \* runs[id]
  tasks,            \* tasks[id]; ids are never used again (AUTOINCREMENT)
  nextTask,         \* the next id of a task
  progress          \* progress[task id]: transfer_progress

sqlVars == <<runs, tasks, nextTask, progress>>

Never == 0

With(f, x, y) == [z \in DOMAIN f \cup {x} |-> IF z = x THEN y ELSE f[z]]
Without(f, S) == [z \in DOMAIN f \ S |-> f[z]]

SQLInit ==
  /\ runs = << >> /\ tasks = << >> /\ nextTask = 1 /\ progress = << >>

-----------------------------------------------------------------------------
(***************************************************************************)
(* Runs.                                                                   *)
(***************************************************************************)

\* The statement fails if the id is taken.
CreateRun(id, now) ==
  /\ id \notin DOMAIN runs
  /\ runs' = With(runs, id, [status |-> "running", phase |-> "initializing",
                             started |-> now, completed |-> Never])
  /\ UNCHANGED <<tasks, nextTask, progress>>

CompleteRun(id, status, now) ==
  /\ runs' = [runs EXCEPT ![id].status = status, ![id].completed = now]
  /\ UNCHANGED <<tasks, nextTask, progress>>

UpdatePhase(id, phase) ==
  /\ runs' = [runs EXCEPT ![id].phase = phase]
  /\ UNCHANGED <<tasks, nextTask, progress>>

Running == {r \in DOMAIN runs : runs[r].status = "running"}

\* The answers of ORDER BY started_at DESC LIMIT 1: any of the latest, if several.
LastIncompleteRuns ==
  {r \in Running : \A other \in Running : runs[other].started <= runs[r].started}

HistoryLimit == 20

\* The runs that history lists, the latest first.
GetAllRuns ==
  {[id |-> r, status |-> runs[r].status] :
     r \in {x \in DOMAIN runs :
            Cardinality({y \in DOMAIN runs : runs[y].started > runs[x].started}) < HistoryLimit}}

GetRunByID(id) == {[id |-> r, status |-> runs[r].status] : r \in DOMAIN runs \cap {id}}

\* Every run here is of the same source and target schema.
HasSuccessfulRunAfter(r) ==
  \E other \in DOMAIN runs :
    runs[other].status = "success" /\ runs[other].started > runs[r].started

-----------------------------------------------------------------------------
(***************************************************************************)
(* Tasks.                                                                  *)
(***************************************************************************)

TasksOf(r) == {t \in DOMAIN tasks : tasks[t].run = r}
TaskIDs(r, key) == {t \in TasksOf(r) : tasks[t].key = key}

\* Faulty: a task that exists is not looked for.
CreateTaskAnew(r, key) ==
  /\ tasks' = With(tasks, nextTask, [run |-> r, key |-> key, status |-> "pending"])
  /\ nextTask' = nextTask + 1
  /\ UNCHANGED <<runs, progress>>

\* ON CONFLICT(run_id, task_key) DO NOTHING.  The task is TaskIDs(r, key)'.
CreateTask(r, key) ==
  /\ IF TaskIDs(r, key) # {}
     THEN UNCHANGED <<tasks, nextTask>>
     ELSE /\ tasks' = With(tasks, nextTask, [run |-> r, key |-> key, status |-> "pending"])
          /\ nextTask' = nextTask + 1
  /\ UNCHANGED <<runs, progress>>

\* An UPDATE of no row is no error.
UpdateTaskStatus(t, status) ==
  /\ tasks' = IF t \in DOMAIN tasks THEN [tasks EXCEPT ![t].status = status] ELSE tasks
  /\ UNCHANGED <<runs, nextTask, progress>>

MarkRunAsResumed(r) ==
  /\ tasks' = [t \in DOMAIN tasks |->
       IF t \in TasksOf(r) /\ tasks[t].status = "running"
       THEN [tasks[t] EXCEPT !.status = "pending"] ELSE tasks[t]]
  /\ UNCHANGED <<runs, nextTask, progress>>

MarkTaskComplete(r, key) ==
  /\ IF TaskIDs(r, key) # {}
     THEN /\ tasks' = [t \in DOMAIN tasks |->
               IF t \in TaskIDs(r, key) THEN [tasks[t] EXCEPT !.status = "success"] ELSE tasks[t]]
          /\ UNCHANGED nextTask
     ELSE /\ tasks' = With(tasks, nextTask, [run |-> r, key |-> key, status |-> "success"])
          /\ nextTask' = nextTask + 1
  /\ UNCHANGED <<runs, progress>>

GetCompletedTables(r) == {tasks[t].key : t \in {x \in TasksOf(r) : tasks[x].status = "success"}}

\* GetRunStats: how many tasks, and how many of each status.
GetRunStats(r) ==
  [total |-> Cardinality(TasksOf(r)),
   of    |-> [s \in {"pending", "running", "success", "failed"} |->
                Cardinality({t \in TasksOf(r) : tasks[t].status = s})]]

-----------------------------------------------------------------------------
(***************************************************************************)
(* Progress.                                                               *)
(***************************************************************************)

\* The total is that of the first save.
SaveTransferProgress(t, pk, rowsDone, rowsTotal) ==
  /\ progress' = With(progress, t,
       [pk |-> pk, rows |-> rowsDone,
        total |-> IF t \in DOMAIN progress THEN progress[t].total ELSE rowsTotal])
  /\ UNCHANGED <<runs, tasks, nextTask>>

NoProgress == [pk |-> NoPK, rows |-> 0]

\* ProgressSaver.GetProgress over GetTransferProgress.
GetProgress(t) ==
  IF t \in DOMAIN progress THEN [pk |-> progress[t].pk, rows |-> progress[t].rows]
  ELSE NoProgress

ClearTransferProgress(t) ==
  /\ progress' = Without(progress, {t})
  /\ UNCHANGED <<runs, tasks, nextTask>>

\* GetTasksWithProgress, as status and history show it.
TasksWithProgress(r) ==
  {[key |-> tasks[t].key, status |-> tasks[t].status, rows |-> GetProgress(t).rows] :
     t \in TasksOf(r)}

-----------------------------------------------------------------------------
(***************************************************************************)
(* CleanupOldRuns deletes what belongs to old runs, table by table and the *)
(* runs last, with a cutoff taken at its start.                            *)
(***************************************************************************)

\* Faulty: a run is old by its start.
OldRunsStarted(cutoff) == {r \in DOMAIN runs : runs[r].started < cutoff}

OldRuns(cutoff) ==
  {r \in DOMAIN runs : /\ runs[r].status \in {"success", "failed"}
                       /\ runs[r].completed # Never /\ runs[r].completed < cutoff}
OldTasks(cutoff) == {t \in DOMAIN tasks : tasks[t].run \in OldRuns(cutoff)}

Cutoff(now) == now - RetentionPeriod

\* Faulty: there is no such statement.
DeleteOldProgressNever(cutoff) == UNCHANGED <<runs, tasks, nextTask, progress>>

DeleteOldProgress(cutoff) ==
  /\ progress' = Without(progress, OldTasks(cutoff))
  /\ UNCHANGED <<runs, tasks, nextTask>>

DeleteOldTasks(cutoff) ==
  /\ tasks' = Without(tasks, OldTasks(cutoff))
  /\ UNCHANGED <<runs, nextTask, progress>>

DeleteOldRuns(cutoff) ==
  /\ runs' = Without(runs, OldRuns(cutoff))
  /\ UNCHANGED <<tasks, nextTask, progress>>

=============================================================================

------------------------------ MODULE FileState ------------------------------
(***************************************************************************)
(* The YAML state file of dmt (checkpoint/filestate.go), an alternative to *)
(* SQLite: one run and its tasks, kept in memory and written to the file   *)
(* as a whole by every operation that changes them.                        *)
(*                                                                         *)
(* Every operation here gives the new contents of the memory; Saved(m)     *)
(* writes them, and SaveTorn(m) is a process that dies while it does.      *)
(***************************************************************************)
EXTENDS Integers, Sequences, FiniteSets

CONSTANTS
  NoPK,             \* a key that is nil
  NoRun,            \* the run id of an empty file
  Corrupt,          \* a file that is not YAML
  KeyOrder          \* the task keys in the order in which they are written

VARIABLES
  mem,              \* fs.state of the process
  disk,             \* the state file
  taskIDCounter     \* synthetic task ids

fileVars == <<mem, disk, taskIDCounter>>

FirstTaskID == 1000
Empty == [run |-> NoRun, status |-> "", phase |-> "", tables |-> << >>]

FileInit == mem = Empty /\ disk = Empty /\ taskIDCounter = FirstTaskID

PutTable(m, key, row) ==
  [m EXCEPT !.tables = [k \in DOMAIN m.tables \cup {key} |->
                          IF k = key THEN row ELSE m.tables[k]]]

\* save: the file is what the memory is.
Saved(m) == mem' = m /\ disk' = m

\* The file holds the run's fields first, then the tables, sorted by key.
Cut(m, n) ==
  LET written == {KeyOrder[i] : i \in 1 .. n}
  IN [m EXCEPT !.tables = [k \in DOMAIN m.tables \cap written |-> m.tables[k]]]

\* os.WriteFile truncates the file before it writes.
SaveTorn(m) == disk' \in {Empty, Corrupt} \cup {Cut(m, n) : n \in 0 .. Len(KeyOrder) - 1}

\* NewFileState, in a process of its own.
Load ==
  /\ disk # Corrupt
  /\ mem' = disk /\ taskIDCounter' = FirstTaskID
  /\ UNCHANGED disk

-----------------------------------------------------------------------------
(***************************************************************************)
(* Runs.  Only CompleteRun and UpdatePhase look at the id.                 *)
(***************************************************************************)

CreateRun(id) ==
  [run |-> id, status |-> "running", phase |-> "", tables |-> << >>]

\* Faulty: the phase is not kept.
UpdatePhaseNothing(phase) == mem

CompleteRun(status) == [mem EXCEPT !.status = status]
UpdatePhase(phase) == [mem EXCEPT !.phase = phase]

LastIncompleteRuns == IF mem.run # NoRun /\ mem.status = "running" THEN {mem.run} ELSE {}

GetRunByID(id) ==
  IF mem.run = id THEN {[id |-> mem.run, status |-> mem.status]} ELSE {}
GetAllRuns == IF mem.run = NoRun THEN {} ELSE GetRunByID(mem.run)

\* Faulty: every task is reset.
MarkRunAsResumedAll ==
  [mem EXCEPT !.tables = [k \in DOMAIN @ |-> [@[k] EXCEPT !.status = "pending"]]]

MarkRunAsResumed ==
  [mem EXCEPT !.tables = [k \in DOMAIN @ |->
     IF @[k].status = "running" THEN [@[k] EXCEPT !.status = "pending"] ELSE @[k]]]

-----------------------------------------------------------------------------
(***************************************************************************)
(* Tasks and their progress.  A task is looked up by its id in a map,      *)
(* whose order is random: of several with the same id, any may be found.   *)
(***************************************************************************)

Keys == DOMAIN mem.tables
KeysWithID(id) == {k \in Keys : mem.tables[k].id = id}

NewTable(status, id) == [status |-> status, pk |-> NoPK, rows |-> 0, total |-> 0, id |-> id]

\* CreateTask and MarkTaskComplete take the next id for a task they have to create.
Created(key, status) == PutTable(mem, key, NewTable(status, taskIDCounter + 1))

CreateTask(key) == IF key \in Keys THEN mem ELSE Created(key, "pending")

MarkTaskComplete(key) ==
  IF key \in Keys THEN [mem EXCEPT !.tables[key].status = "success"]
  ELSE Created(key, "success")

CountsTask(key) == taskIDCounter' = IF key \in Keys THEN taskIDCounter ELSE taskIDCounter + 1

\* The contents of the memory after an update of the task with some id.
UpdateTaskStatus(key, status) == [mem EXCEPT !.tables[key].status = status]

\* A task with progress is a running one.
SaveTransferProgress(key, pk, rowsDone, rowsTotal) ==
  [mem EXCEPT !.tables[key] = [@ EXCEPT !.pk = pk, !.rows = rowsDone, !.total = rowsTotal,
                                        !.status = "running"]]

\* Faulty: the count is reset, the key is not.
ClearTransferProgressRowsOnly(key) ==
  [mem EXCEPT !.tables[key] = [@ EXCEPT !.rows = 0, !.total = 0, !.status = "pending"]]

ClearTransferProgress(key) ==
  [mem EXCEPT !.tables[key] = [@ EXCEPT !.pk = NoPK, !.rows = 0, !.total = 0,
                                        !.status = "pending"]]

NoProgress == [pk |-> NoPK, rows |-> 0]

\* The answers of ProgressSaver.GetProgress.
GetProgress(id) ==
  LET found == {k \in KeysWithID(id) : mem.tables[k].pk # NoPK}
  IN IF found = {} THEN {NoProgress}
     ELSE {[pk |-> mem.tables[k].pk, rows |-> mem.tables[k].rows] : k \in found}

GetCompletedTables == {k \in Keys : mem.tables[k].status = "success"}

TasksWithProgress ==
  {[key |-> k, status |-> mem.tables[k].status, rows |-> mem.tables[k].rows] : k \in Keys}

GetRunStats ==
  [total |-> Cardinality(Keys),
   of    |-> [s \in {"pending", "running", "success", "failed"} |->
                Cardinality({k \in Keys : mem.tables[k].status = s})]]

=============================================================================

------------------------ MODULE StateBackendsProofs ------------------------
(***************************************************************************)
(* Theorems about the two state backends, for every set of task keys and   *)
(* every number of processes, runs and crashes.                            *)
(***************************************************************************)
EXTENDS StateBackends, TLAPS, FiniteSetTheorems

(***************************************************************************)
(* What the state file may hold, and what its operations make of it.       *)
(***************************************************************************)

LEMMA ContentsFields ==
  ASSUME NEW m, IsContents(m)
  PROVE  /\ m.run \in {NoRun} \cup 1 .. MaxStarts
         /\ m.status \in {""} \cup RunStatuses
         /\ m.phase \in {"", "transferring"}
         /\ DOMAIN m.tables \subseteq TaskKeys
         /\ m.tables \in [DOMAIN m.tables -> FileRow]
         /\ m = [run |-> m.run, status |-> m.status, phase |-> m.phase, tables |-> m.tables]
BY DEF IsContents

LEMMA ContentsOf ==
  ASSUME NEW r \in {NoRun} \cup 1 .. MaxStarts, NEW s \in {""} \cup RunStatuses,
         NEW p \in {"", "transferring"}, NEW S \in SUBSET TaskKeys, NEW t \in [S -> FileRow]
  PROVE  IsContents([run |-> r, status |-> s, phase |-> p, tables |-> t])
BY DEF IsContents

LEMMA WithTables ==
  ASSUME NEW m, IsContents(m), NEW t, NEW key, NEW row, NEW s, NEW p
  PROVE  /\ [m EXCEPT !.tables = t]
              = [run |-> m.run, status |-> m.status, phase |-> m.phase, tables |-> t]
         /\ [m EXCEPT !.tables[key] = row]
              = [run |-> m.run, status |-> m.status, phase |-> m.phase,
                 tables |-> [m.tables EXCEPT ![key] = row]]
         /\ [m EXCEPT !.status = s]
              = [run |-> m.run, status |-> s, phase |-> m.phase, tables |-> m.tables]
         /\ [m EXCEPT !.phase = p]
              = [run |-> m.run, status |-> m.status, phase |-> p, tables |-> m.tables]
<1>1. PICK r, x, y, u : m = [run |-> r, status |-> x, phase |-> y, tables |-> u]
  BY DEF IsContents
<1> QED BY <1>1

LEMMA PutTableFacts ==
  ASSUME NEW m, IsContents(m), NEW key \in TaskKeys, NEW row \in FileRow
  PROVE  /\ IsContents(File!PutTable(m, key, row))
         /\ File!PutTable(m, key, row).run = m.run
         /\ File!PutTable(m, key, row).status = m.status
         /\ File!PutTable(m, key, row).phase = m.phase
         /\ DOMAIN File!PutTable(m, key, row).tables = DOMAIN m.tables \cup {key}
         /\ File!PutTable(m, key, row).tables[key] = row
         /\ \A k \in DOMAIN m.tables \ {key} : File!PutTable(m, key, row).tables[k] = m.tables[k]
<1> DEFINE t == [k \in DOMAIN m.tables \cup {key} |-> IF k = key THEN row ELSE m.tables[k]]
<1>1. File!PutTable(m, key, row)
        = [run |-> m.run, status |-> m.status, phase |-> m.phase, tables |-> t]
  BY WithTables DEF File!PutTable
<1>2. t \in [DOMAIN m.tables \cup {key} -> FileRow]
  BY ContentsFields
<1>3. DOMAIN m.tables \cup {key} \in SUBSET TaskKeys
  BY ContentsFields
<1>4. IsContents([run |-> m.run, status |-> m.status, phase |-> m.phase, tables |-> t])
  <2> HIDE DEF t
  <2> QED BY <1>2, <1>3, ContentsOf, ContentsFields
<1> QED BY <1>1, <1>4

\* An update of the row of one key.
LEMMA TableUpdated ==
  ASSUME NEW m, IsContents(m), NEW key \in DOMAIN m.tables, NEW row \in FileRow
  PROVE  /\ IsContents([m EXCEPT !.tables[key] = row])
         /\ [m EXCEPT !.tables[key] = row].run = m.run
         /\ [m EXCEPT !.tables[key] = row].status = m.status
         /\ [m EXCEPT !.tables[key] = row].phase = m.phase
         /\ DOMAIN [m EXCEPT !.tables[key] = row].tables = DOMAIN m.tables
         /\ [m EXCEPT !.tables[key] = row].tables[key] = row
         /\ \A k \in DOMAIN m.tables \ {key} :
              [m EXCEPT !.tables[key] = row].tables[k] = m.tables[k]
<1> DEFINE t == [m.tables EXCEPT ![key] = row]
<1>1. [m EXCEPT !.tables[key] = row]
        = [run |-> m.run, status |-> m.status, phase |-> m.phase, tables |-> t]
  BY WithTables
<1>2. t \in [DOMAIN m.tables -> FileRow]
  BY ContentsFields
<1>3. DOMAIN m.tables \in SUBSET TaskKeys
  BY ContentsFields
<1>4. IsContents([run |-> m.run, status |-> m.status, phase |-> m.phase, tables |-> t])
  <2> HIDE DEF t
  <2> QED BY <1>2, <1>3, ContentsOf, ContentsFields
<1>5. /\ DOMAIN t = DOMAIN m.tables
      /\ t[key] = row
      /\ \A k \in DOMAIN m.tables \ {key} : t[k] = m.tables[k]
  BY ContentsFields
<1> HIDE DEF t
<1> QED BY <1>1, <1>4, <1>5

\* The contents u are those of the memory but for the row of one key.
RowIs(u, key, row) ==
  /\ IsContents(u)
  /\ u.run = mem.run /\ u.status = mem.status /\ u.phase = mem.phase
  /\ DOMAIN u.tables = File!Keys \cup {key}
  /\ u.tables[key] = row
  /\ \A k \in File!Keys \ {key} : u.tables[k] = mem.tables[k]

LEMMA CreatedFacts ==
  ASSUME IsContents(mem), taskIDCounter \in Nat, NEW key \in TaskKeys, NEW status \in Statuses
  PROVE  RowIs(File!Created(key, status), key,
               [status |-> status, pk |-> NoPK, rows |-> 0, total |-> 0, id |-> taskIDCounter + 1])
<1> DEFINE row == [status |-> status, pk |-> NoPK, rows |-> 0, total |-> 0,
                   id |-> taskIDCounter + 1]
<1>1. row \in FileRow
  BY DEF FileRow
<1>2. File!Created(key, status) = File!PutTable(mem, key, row)
  BY DEF File!Created, File!NewTable
<1>3. RowIs(File!Created(key, status), key, row)
  <2> HIDE DEF row
  <2> QED BY <1>1, <1>2, PutTableFacts DEF RowIs, File!Keys
<1> QED BY <1>3

LEMMA RowUpdated ==
  ASSUME IsContents(mem), NEW key \in File!Keys, NEW row \in FileRow
  PROVE  RowIs([mem EXCEPT !.tables[key] = row], key, row)
<1>1. DOMAIN mem.tables \cup {key} = DOMAIN mem.tables
  BY DEF File!Keys
<1> QED BY <1>1, TableUpdated DEF RowIs, File!Keys

LEMMA RowOfKey ==
  ASSUME IsContents(mem), NEW key \in File!Keys
  PROVE  mem.tables[key] \in FileRow /\ key \in TaskKeys
BY ContentsFields DEF File!Keys

LEMMA StatusUpdated ==
  ASSUME IsContents(mem), NEW key \in File!Keys, NEW status \in Statuses
  PROVE  RowIs(File!UpdateTaskStatus(key, status), key, [mem.tables[key] EXCEPT !.status = status])
<1>1. mem.tables[key] \in FileRow
  BY RowOfKey
<1>2. [mem.tables[key] EXCEPT !.status = status] \in FileRow
  BY <1>1 DEF FileRow
<1>3. File!UpdateTaskStatus(key, status)
        = [mem EXCEPT !.tables[key] = [mem.tables[key] EXCEPT !.status = status]]
  BY DEF File!UpdateTaskStatus
<1> QED BY <1>2, <1>3, RowUpdated

LEMMA ProgressSaved ==
  ASSUME IsContents(mem), NEW key \in File!Keys, NEW pk \in 1 .. LastPK, LastPK \in Nat
  PROVE  RowIs(File!SaveTransferProgress(key, pk, pk, LastPK), key,
               [mem.tables[key] EXCEPT !.pk = pk, !.rows = pk, !.total = LastPK,
                                       !.status = "running"])
<1> DEFINE row == [mem.tables[key] EXCEPT !.pk = pk, !.rows = pk, !.total = LastPK,
                                          !.status = "running"]
<1>1. mem.tables[key] \in FileRow
  BY RowOfKey
<1>2. row \in FileRow
  <2>1. pk \in Nat /\ "running" \in Statuses
    BY DEF Statuses
  <2> QED BY <1>1, <2>1 DEF FileRow
<1>3. File!SaveTransferProgress(key, pk, pk, LastPK) = [mem EXCEPT !.tables[key] = row]
  BY DEF File!SaveTransferProgress
<1>4. RowIs(File!SaveTransferProgress(key, pk, pk, LastPK), key, row)
  <2> HIDE DEF row
  <2> QED BY <1>2, <1>3, RowUpdated
<1> QED BY <1>4

LEMMA ProgressCleared ==
  ASSUME IsContents(mem), NEW key \in File!Keys
  PROVE  RowIs(File!ClearTransferProgress(key), key,
               [mem.tables[key] EXCEPT !.pk = NoPK, !.rows = 0, !.total = 0,
                                       !.status = "pending"])
<1> DEFINE row == [mem.tables[key] EXCEPT !.pk = NoPK, !.rows = 0, !.total = 0,
                                          !.status = "pending"]
<1>1. mem.tables[key] \in FileRow
  BY RowOfKey
<1>2. row \in FileRow
  BY <1>1 DEF FileRow, Statuses
<1>3. File!ClearTransferProgress(key) = [mem EXCEPT !.tables[key] = row]
  BY DEF File!ClearTransferProgress
<1>4. RowIs(File!ClearTransferProgress(key), key, row)
  <2> HIDE DEF row
  <2> QED BY <1>2, <1>3, RowUpdated
<1> QED BY <1>4

LEMMA TaskCompleted ==
  ASSUME IsContents(mem), NEW key \in File!Keys
  PROVE  RowIs(File!MarkTaskComplete(key), key, [mem.tables[key] EXCEPT !.status = "success"])
<1>1. File!MarkTaskComplete(key) = File!UpdateTaskStatus(key, "success")
  BY DEF File!MarkTaskComplete, File!UpdateTaskStatus
<1>2. "success" \in Statuses
  BY DEF Statuses
<1> QED BY <1>1, <1>2, StatusUpdated

\* MarkRunAsResumed changes the status of running tables only.
LEMMA ResumedFacts ==
  ASSUME IsContents(mem)
  PROVE  LET u == File!MarkRunAsResumed
         IN /\ IsContents(u)
            /\ u.run = mem.run /\ u.status = mem.status /\ u.phase = mem.phase
            /\ DOMAIN u.tables = File!Keys
            /\ \A k \in File!Keys :
                 /\ u.tables[k].status = IF mem.tables[k].status = "running" THEN "pending"
                                         ELSE mem.tables[k].status
                 /\ u.tables[k].pk = mem.tables[k].pk /\ u.tables[k].rows = mem.tables[k].rows
                 /\ u.tables[k].id = mem.tables[k].id
<1> DEFINE row(k) == IF mem.tables[k].status = "running"
                     THEN [mem.tables[k] EXCEPT !.status = "pending"] ELSE mem.tables[k]
           t == [k \in File!Keys |-> row(k)]
<1>1. File!MarkRunAsResumed
        = [run |-> mem.run, status |-> mem.status, phase |-> mem.phase, tables |-> t]
  BY WithTables DEF File!MarkRunAsResumed, File!Keys
<1>2. ASSUME NEW k \in File!Keys
      PROVE  /\ row(k) \in FileRow
             /\ row(k).status = IF mem.tables[k].status = "running" THEN "pending"
                                ELSE mem.tables[k].status
             /\ row(k).pk = mem.tables[k].pk /\ row(k).rows = mem.tables[k].rows
             /\ row(k).id = mem.tables[k].id
  <2>1. mem.tables[k] \in FileRow
    BY RowOfKey
  <2> QED BY <2>1 DEF FileRow, Statuses
<1>3. t \in [File!Keys -> FileRow] /\ \A k \in File!Keys : t[k] = row(k)
  BY <1>2
<1>4. DOMAIN t = File!Keys /\ File!Keys \in SUBSET TaskKeys
  BY RowOfKey
<1>5. IsContents([run |-> mem.run, status |-> mem.status, phase |-> mem.phase, tables |-> t])
  <2> HIDE DEF t
  <2> QED BY <1>3, <1>4, ContentsOf, ContentsFields
<1> HIDE DEF t, row
<1> QED BY <1>1, <1>2, <1>3, <1>4, <1>5

LEMMA RunFieldsFacts ==
  ASSUME IsContents(mem), NEW status \in RunStatuses
  PROVE  /\ IsContents(File!CompleteRun(status))
         /\ File!CompleteRun(status).run = mem.run
         /\ File!CompleteRun(status).status = status
         /\ File!CompleteRun(status).phase = mem.phase
         /\ File!CompleteRun(status).tables = mem.tables
         /\ IsContents(File!UpdatePhase("transferring"))
         /\ File!UpdatePhase("transferring").run = mem.run
         /\ File!UpdatePhase("transferring").status = mem.status
         /\ File!UpdatePhase("transferring").phase = "transferring"
         /\ File!UpdatePhase("transferring").tables = mem.tables
<1>1. /\ File!CompleteRun(status)
           = [run |-> mem.run, status |-> status, phase |-> mem.phase, tables |-> mem.tables]
      /\ File!UpdatePhase("transferring")
           = [run |-> mem.run, status |-> mem.status, phase |-> "transferring",
              tables |-> mem.tables]
  BY WithTables DEF File!CompleteRun, File!UpdatePhase
<1>2. /\ IsContents([run |-> mem.run, status |-> status, phase |-> mem.phase,
                     tables |-> mem.tables])
      /\ IsContents([run |-> mem.run, status |-> mem.status, phase |-> "transferring",
                     tables |-> mem.tables])
  BY ContentsOf, ContentsFields
<1> QED BY <1>1, <1>2

LEMMA CutFacts ==
  ASSUME IsContents(mem), NEW n
  PROVE  LET u == File!Cut(mem, n)
         IN /\ IsContents(u)
            /\ u.run = mem.run /\ u.status = mem.status /\ u.phase = mem.phase
            /\ DOMAIN u.tables = File!Keys \cap FirstKeys(n)
            /\ \A k \in DOMAIN u.tables : u.tables[k] = mem.tables[k]
<1> DEFINE S == File!Keys \cap FirstKeys(n)
           t == [k \in S |-> mem.tables[k]]
<1>1. File!Cut(mem, n)
        = [run |-> mem.run, status |-> mem.status, phase |-> mem.phase, tables |-> t]
  BY WithTables DEF File!Cut, File!Keys, FirstKeys
<1>2. S \in SUBSET TaskKeys /\ t \in [S -> FileRow]
  BY RowOfKey
<1>3. IsContents([run |-> mem.run, status |-> mem.status, phase |-> mem.phase, tables |-> t])
  <2> HIDE DEF t, S
  <2> QED BY <1>2, ContentsOf, ContentsFields
<1>4. DOMAIN t = S /\ \A k \in S : t[k] = mem.tables[k]
  OBVIOUS
<1> HIDE DEF t
<1> QED BY <1>1, <1>3, <1>4

LEMMA EmptyFacts ==
  ASSUME NEW r \in {NoRun} \cup 1 .. MaxStarts
  PROVE  /\ IsContents(File!Empty) /\ File!Empty.run = NoRun /\ File!Empty.status = ""
         /\ File!Empty.tables = << >> /\ DOMAIN File!Empty.tables = {}
         /\ IsContents(File!CreateRun(r)) /\ File!CreateRun(r).run = r
         /\ File!CreateRun(r).status = "running" /\ File!CreateRun(r).phase = ""
         /\ DOMAIN File!CreateRun(r).tables = {}
<1>1. << >> \in [{} -> FileRow] /\ {} \in SUBSET TaskKeys /\ DOMAIN << >> = {}
  OBVIOUS
<1>2. IsContents([run |-> NoRun, status |-> "", phase |-> "", tables |-> << >>])
  BY <1>1, ContentsOf
<1>3. "running" \in RunStatuses
  BY DEF RunStatuses
<1>4. IsContents([run |-> r, status |-> "running", phase |-> "", tables |-> << >>])
  BY <1>1, <1>3, ContentsOf
<1> QED BY <1>1, <1>2, <1>4 DEF File!Empty, File!CreateRun

(***************************************************************************)
(* The statements of the database.                                         *)
(***************************************************************************)

LEMMA WithFacts ==
  ASSUME NEW f, NEW x, NEW y
  PROVE  /\ DOMAIN SQL!With(f, x, y) = DOMAIN f \cup {x}
         /\ SQL!With(f, x, y)[x] = y
         /\ \A z \in DOMAIN f \ {x} : SQL!With(f, x, y)[z] = f[z]
BY DEF SQL!With

LEMMA WithType ==
  ASSUME NEW S, NEW f, f \in [DOMAIN f -> S], NEW x, NEW y \in S
  PROVE  SQL!With(f, x, y) \in [DOMAIN f \cup {x} -> S]
BY DEF SQL!With

LEMMA WithoutFacts ==
  ASSUME NEW f, NEW S
  PROVE  /\ DOMAIN SQL!Without(f, S) = DOMAIN f \ S
         /\ \A z \in DOMAIN f \ S : SQL!Without(f, S)[z] = f[z]
         /\ \A R : f \in [DOMAIN f -> R] => SQL!Without(f, S) \in [DOMAIN f \ S -> R]
BY DEF SQL!Without

\* The task of a key, made if it is not there.
LEMMA SQLCreateTask ==
  ASSUME SQLTypeOK, NEW r \in 1 .. MaxStarts, NEW k \in TaskKeys, SQL!CreateTask(r, k)
  PROVE  /\ tasks' \in [DOMAIN tasks' -> TaskRow] /\ DOMAIN tasks' \subseteq 1 .. nextTask' - 1
         /\ nextTask' \in Nat \ {0}
         /\ runs' = runs /\ progress' = progress
         /\ DOMAIN tasks \subseteq DOMAIN tasks'
         /\ \A t \in DOMAIN tasks : tasks'[t] = tasks[t]
         /\ SQL!TaskIDs(r, k) # {} => tasks' = tasks
         /\ SQL!TaskIDs(r, k) = {} =>
              /\ DOMAIN tasks' = DOMAIN tasks \cup {nextTask} /\ nextTask \notin DOMAIN tasks
              /\ tasks'[nextTask] = [run |-> r, key |-> k, status |-> "pending"]
<1> DEFINE row == [run |-> r, key |-> k, status |-> "pending"]
<1>1. row \in TaskRow
  BY DEF TaskRow, Statuses
<1>2. nextTask \in Nat /\ nextTask \notin DOMAIN tasks
  BY DEF SQLTypeOK
<1>3. CASE SQL!TaskIDs(r, k) # {}
  BY <1>3 DEF SQLTypeOK, SQL!CreateTask
<1>4. CASE SQL!TaskIDs(r, k) = {}
  <2>1. tasks' = SQL!With(tasks, nextTask, row) /\ nextTask' = nextTask + 1
        /\ runs' = runs /\ progress' = progress
    BY <1>4 DEF SQL!CreateTask
  <2>2. tasks' \in [DOMAIN tasks \cup {nextTask} -> TaskRow]
    <3> HIDE DEF row
    <3> QED BY <1>1, <2>1, WithType DEF SQLTypeOK
  <2>3. /\ DOMAIN tasks' = DOMAIN tasks \cup {nextTask}
        /\ tasks'[nextTask] = row
        /\ \A t \in DOMAIN tasks : tasks'[t] = tasks[t]
    <3> HIDE DEF row
    <3> QED BY <1>2, <2>1 DEF SQL!With
  <2>4. DOMAIN tasks' \subseteq 1 .. nextTask' - 1
    BY <1>2, <2>1, <2>3 DEF SQLTypeOK
  <2> QED BY <1>2, <1>4, <2>1, <2>2, <2>3, <2>4
<1> QED BY <1>3, <1>4

\* The statements that only change the status of tasks.
StatusOnly ==
  /\ tasks' \in [DOMAIN tasks -> TaskRow] /\ DOMAIN tasks' = DOMAIN tasks
  /\ \A t \in DOMAIN tasks : tasks'[t].run = tasks[t].run /\ tasks'[t].key = tasks[t].key
  /\ UNCHANGED <<runs, nextTask, progress>>

LEMMA SQLUpdateTaskStatus ==
  ASSUME SQLTypeOK, NEW t, NEW status \in Statuses, SQL!UpdateTaskStatus(t, status)
  PROVE  /\ StatusOnly
         /\ t \in DOMAIN tasks => tasks'[t].status = status
         /\ \A u \in DOMAIN tasks \ {t} : tasks'[u] = tasks[u]
<1>1. CASE t \notin DOMAIN tasks
  BY <1>1 DEF SQLTypeOK, SQL!UpdateTaskStatus, StatusOnly
<1>2. CASE t \in DOMAIN tasks
  <2>1. tasks[t] \in TaskRow
    BY <1>2 DEF SQLTypeOK
  <2>2. [tasks[t] EXCEPT !.status = status] \in TaskRow
        /\ [tasks[t] EXCEPT !.status = status].run = tasks[t].run
        /\ [tasks[t] EXCEPT !.status = status].key = tasks[t].key
        /\ [tasks[t] EXCEPT !.status = status].status = status
    BY <2>1 DEF TaskRow
  <2>3. tasks' = [tasks EXCEPT ![t] = [tasks[t] EXCEPT !.status = status]]
        /\ UNCHANGED <<runs, nextTask, progress>>
    BY <1>2 DEF SQL!UpdateTaskStatus
  <2> DEFINE row == [tasks[t] EXCEPT !.status = status]
  <2>4. tasks' = [tasks EXCEPT ![t] = row] /\ row \in TaskRow
    BY <2>2, <2>3
  <2>5. row.run = tasks[t].run /\ row.key = tasks[t].key /\ row.status = status
    BY <2>2
  <2> HIDE DEF row
  <2>6. /\ tasks' \in [DOMAIN tasks -> TaskRow] /\ DOMAIN tasks' = DOMAIN tasks
        /\ tasks'[t] = row
        /\ \A u \in DOMAIN tasks \ {t} : tasks'[u] = tasks[u]
    BY <1>2, <2>4 DEF SQLTypeOK
  <2> QED BY <1>2, <2>3, <2>5, <2>6 DEF StatusOnly
<1> QED BY <1>1, <1>2

LEMMA SQLMarkRunAsResumed ==
  ASSUME SQLTypeOK, NEW r, SQL!MarkRunAsResumed(r)
  PROVE  /\ StatusOnly
         /\ \A t \in DOMAIN tasks : tasks'[t].status = "success" <=> tasks[t].status = "success"
<1>1. ASSUME NEW t \in DOMAIN tasks
      PROVE  /\ tasks[t] \in TaskRow
             /\ [tasks[t] EXCEPT !.status = "pending"] \in TaskRow
             /\ [tasks[t] EXCEPT !.status = "pending"].run = tasks[t].run
             /\ [tasks[t] EXCEPT !.status = "pending"].key = tasks[t].key
             /\ [tasks[t] EXCEPT !.status = "pending"].status = "pending"
  <2>1. tasks[t] \in TaskRow
    BY DEF SQLTypeOK
  <2> QED BY <2>1 DEF TaskRow, Statuses
<1> DEFINE row(t) == IF t \in SQL!TasksOf(r) /\ tasks[t].status = "running"
                     THEN [tasks[t] EXCEPT !.status = "pending"] ELSE tasks[t]
<1>2. \A t \in DOMAIN tasks :
        /\ row(t) \in TaskRow /\ row(t).run = tasks[t].run /\ row(t).key = tasks[t].key
        /\ row(t).status = "success" <=> tasks[t].status = "success"
  BY <1>1
<1>3. tasks' = [t \in DOMAIN tasks |-> row(t)] /\ UNCHANGED <<runs, nextTask, progress>>
  BY DEF SQL!MarkRunAsResumed
<1> HIDE DEF row
<1> QED BY <1>2, <1>3 DEF StatusOnly

LEMMA SQLMarkTaskComplete ==
  ASSUME SQLTypeOK, NEW r, NEW k, SQL!TaskIDs(r, k) # {}, SQL!MarkTaskComplete(r, k)
  PROVE  /\ StatusOnly
         /\ \A t \in SQL!TaskIDs(r, k) : tasks'[t].status = "success"
         /\ \A t \in DOMAIN tasks \ SQL!TaskIDs(r, k) : tasks'[t] = tasks[t]
<1>1. ASSUME NEW t \in DOMAIN tasks
      PROVE  /\ tasks[t] \in TaskRow
             /\ [tasks[t] EXCEPT !.status = "success"] \in TaskRow
             /\ [tasks[t] EXCEPT !.status = "success"].run = tasks[t].run
             /\ [tasks[t] EXCEPT !.status = "success"].key = tasks[t].key
             /\ [tasks[t] EXCEPT !.status = "success"].status = "success"
  <2>1. tasks[t] \in TaskRow
    BY DEF SQLTypeOK
  <2> QED BY <2>1 DEF TaskRow, Statuses
<1> DEFINE row(t) == IF t \in SQL!TaskIDs(r, k)
                     THEN [tasks[t] EXCEPT !.status = "success"] ELSE tasks[t]
<1>2. \A t \in DOMAIN tasks :
        /\ row(t) \in TaskRow /\ row(t).run = tasks[t].run /\ row(t).key = tasks[t].key
        /\ t \in SQL!TaskIDs(r, k) => row(t).status = "success"
        /\ t \notin SQL!TaskIDs(r, k) => row(t) = tasks[t]
  BY <1>1
<1>3. tasks' = [t \in DOMAIN tasks |-> row(t)] /\ UNCHANGED <<runs, nextTask, progress>>
  BY DEF SQL!MarkTaskComplete
<1>4. SQL!TaskIDs(r, k) \subseteq DOMAIN tasks
  BY DEF SQL!TaskIDs, SQL!TasksOf
<1> HIDE DEF row
<1> QED BY <1>2, <1>3, <1>4 DEF StatusOnly

(***************************************************************************)
(* The invariant of the runs: no orphans, and the same run in both.        *)
(***************************************************************************)

LEMMA NotCorrupt ==
  ASSUME NEW m, IsContents(m)
  PROVE  m # Corrupt
BY StateAssumption DEF StateAssumption

LEMMA Numbers ==
  ASSUME ProcessTypeOK
  PROVE  /\ starts \in Nat /\ starts <= MaxStarts /\ now \in Nat /\ now >= 1 /\ now <= MaxNow
         /\ ops \in Nat /\ ops <= MaxOps
         /\ MaxStarts \in Nat /\ MaxNow \in Nat /\ MaxOps \in Nat
         /\ RetentionPeriod \in Nat /\ LastPK \in Nat
<1>1. /\ MaxStarts \in Nat /\ MaxNow \in Nat /\ MaxOps \in Nat
      /\ RetentionPeriod \in Nat /\ LastPK \in Nat
  BY StateAssumption DEF StateAssumption
<1>2. now \in 1 .. MaxNow /\ starts \in 0 .. MaxStarts /\ ops \in 0 .. MaxOps
  BY DEF ProcessTypeOK
<1> QED BY <1>1, <1>2

LEMMA MemoryIsFile ==
  ASSUME StateInv, proc # "down"
  PROVE  mem = disk /\ disk # Corrupt /\ IsContents(mem) /\ starts \in 1 .. MaxStarts
<1>1. mem = disk /\ IsContents(mem) /\ starts >= 1
  BY DEF StateInv, TypeOK, FileTypeOK, ProcessInv
<1>2. starts \in 1 .. MaxStarts
  BY <1>1, Numbers DEF StateInv, TypeOK
<1> QED BY <1>1, <1>2, NotCorrupt

\* A step of a job or of the preparation: the file keeps its run, and what the database
\* gains or loses leaves no orphan.
LEMMA RunStepInv ==
  ASSUME StateInv, InRun, InRun', SQLTypeOK', ProcessTypeOK', taskIDCounter' \in Nat,
         runs' = runs, cur' = cur, starts' = starts, now' = now, torn' = torn,
         NEW u, IsContents(u), u.run = mem.run, u.status = mem.status, u.phase = mem.phase,
         mem' = u, disk' = u,
         \A t \in DOMAIN tasks' : tasks'[t].run \in DOMAIN runs,
         DOMAIN progress' \subseteq DOMAIN tasks',
         NamedInv'
  PROVE  StateInv'
<1>1. mem = disk /\ disk # Corrupt /\ u # Corrupt
  BY MemoryIsFile, NotCorrupt DEF InRun
<1>2. TypeOK'
  BY DEF TypeOK, FileTypeOK
<1>3. NoOrphans'
  BY DEF NoOrphans
<1>4. ProcessInv'
  BY <1>1 DEF StateInv, ProcessInv, InRun
<1>5. FileRunInv'
  BY <1>1 DEF StateInv, FileRunInv
<1>6. CleanupInv'
  BY DEF CleanupInv, InRun
<1> QED BY <1>2, <1>3, <1>4, <1>5, <1>6 DEF StateInv

LEMMA StateInit ==
  ASSUME Init
  PROVE  StateInv
<1>2. IsContents(File!Empty) /\ File!Empty.run = NoRun /\ File!Empty.status = ""
  BY EmptyFacts
<1>3. mem = File!Empty /\ disk = File!Empty /\ taskIDCounter = 1000
  BY DEF Init, File!FileInit, File!FirstTaskID
<1>4. DOMAIN << >> = {} /\ \A S : << >> \in [{} -> S]
  OBVIOUS
<1>5. runs = << >> /\ tasks = << >> /\ progress = << >> /\ nextTask = 1
  BY DEF Init, SQL!SQLInit
<1>6. SQLTypeOK
  BY <1>4, <1>5 DEF SQLTypeOK
<1>7. FileTypeOK
  <2>1. IsContents(mem) /\ IsContents(disk)
    BY <1>2, <1>3
  <2>2. taskIDCounter \in Nat
    BY <1>3
  <2> QED BY <2>1, <2>2 DEF FileTypeOK
<1>8. ProcessTypeOK
  <2>1. id \in [TaskKeys -> [sql : Nat, file : Nat]]
    BY DEF Init, NoID
  <2>2. /\ now \in 1 .. MaxNow /\ starts \in 0 .. MaxStarts /\ ops \in 0 .. MaxOps
        /\ cutoff \in Int
    BY StateAssumption DEF StateAssumption, Init
  <2>3. /\ proc = "down" /\ cur = NoRun /\ torn \in BOOLEAN
        /\ st \in [TaskKeys -> {"none", "new", "running", "success", "failed"}]
    BY DEF Init
  <2> QED BY <2>1, <2>2, <2>3 DEF ProcessTypeOK
<1>9. NoOrphans
  BY <1>4, <1>5 DEF NoOrphans
<1>10. ProcessInv
  BY <1>2, <1>3, NotCorrupt DEF ProcessInv, Init, InRun
<1>11. FileRunInv
  BY <1>2, <1>3, <1>4, <1>5 DEF FileRunInv
<1>12. CleanupInv /\ NamedInv
  BY DEF CleanupInv, NamedInv, Init
<1> QED BY <1>6, <1>7, <1>8, <1>9, <1>10, <1>11, <1>12 DEF StateInv, TypeOK

LEMMA StartInv ==
  ASSUME StateInv, Start
  PROVE  StateInv'
<1>0. taskIDCounter' = 1000 /\ starts' = starts + 1 /\ starts < MaxStarts
      /\ cutoff' = now - RetentionPeriod
  BY DEF Start, File!Load, File!FirstTaskID, SQL!Cutoff
<1>1. /\ disk # Corrupt /\ mem' = disk /\ disk' = disk
      /\ proc = "down" /\ proc' = "clean progress"
      /\ UNCHANGED <<runs, tasks, nextTask, progress, cur, id, st, now, ops, torn>>
  BY DEF Start, File!Load, sqlVars, env
<1>2. SQLTypeOK'
  <2>1. 1 .. starts \subseteq 1 .. starts'
    BY <1>0, Numbers DEF StateInv, TypeOK
  <2> QED BY <1>1, <2>1 DEF StateInv, TypeOK, SQLTypeOK
<1>3. FileTypeOK'
  <2>1. IsContents(mem')
    BY <1>1 DEF StateInv, TypeOK, FileTypeOK
  <2>2. taskIDCounter' \in Nat
    BY <1>0
  <2> QED BY <1>1, <2>1, <2>2 DEF StateInv, TypeOK, FileTypeOK
<1>4. ProcessTypeOK'
  <2>1. starts' \in 0 .. MaxStarts /\ cutoff' \in Int
    BY <1>0, Numbers DEF StateInv, TypeOK
  <2> QED BY <1>1, <2>1 DEF StateInv, TypeOK, ProcessTypeOK
<1>5. NoOrphans'
  BY <1>1 DEF StateInv, NoOrphans
<1>6. ProcessInv' /\ CleanupInv' /\ NamedInv'
  <2>1. starts' >= 1
    BY <1>0, Numbers DEF StateInv, TypeOK
  <2>2. \A k \in TaskKeys : st[k] = "none"
    BY <1>1 DEF StateInv, ProcessInv, InRun
  <2> QED BY <1>1, <2>1, <2>2 DEF StateInv, ProcessInv, CleanupInv, NamedInv, InRun
<1>7. FileRunInv'
  BY <1>1 DEF StateInv, FileRunInv
<1> QED BY <1>2, <1>3, <1>4, <1>5, <1>6, <1>7 DEF StateInv, TypeOK

LEMMA CleanProgressInv ==
  ASSUME StateInv, CleanProgress
  PROVE  StateInv'
<1>1. /\ proc = "clean progress" /\ proc' = "clean tasks"
      /\ progress' = SQL!Without(progress, SQL!OldTasks(cutoff))
      /\ UNCHANGED <<runs, tasks, nextTask, mem, disk, taskIDCounter, cur, id, st, starts,
                     cutoff, now, ops, torn>>
  BY DEF CleanProgress, SQL!DeleteOldProgress, Goto, fileVars, env
<1>2. /\ DOMAIN progress' = DOMAIN progress \ SQL!OldTasks(cutoff)
      /\ progress' \in [DOMAIN progress' -> ProgressRow]
  BY <1>1 DEF StateInv, TypeOK, SQLTypeOK, SQL!Without
<1>3. SQLTypeOK'
  BY <1>1, <1>2 DEF StateInv, TypeOK, SQLTypeOK
<1>4. FileTypeOK' /\ ProcessTypeOK'
  BY <1>1 DEF StateInv, TypeOK, FileTypeOK, ProcessTypeOK
<1>5. NoOrphans'
  BY <1>1, <1>2 DEF StateInv, NoOrphans
<1>6. ProcessInv'
  BY <1>1 DEF StateInv, ProcessInv, InRun
<1>7. FileRunInv'
  BY <1>1 DEF StateInv, FileRunInv
<1>8. CleanupInv'
  <2>1. SQL!OldTasks(cutoff)' = SQL!OldTasks(cutoff)
    BY <1>1 DEF SQL!OldTasks, SQL!OldRuns
  <2> QED BY <1>1, <1>2, <2>1 DEF StateInv, CleanupInv
<1>9. NamedInv'
  <2>1. \A k \in TaskKeys : st[k] = "none"
    BY <1>1 DEF StateInv, ProcessInv, InRun
  <2> QED BY <1>1, <2>1 DEF NamedInv
<1> QED BY <1>3, <1>4, <1>5, <1>6, <1>7, <1>8, <1>9 DEF StateInv, TypeOK

LEMMA CleanTasksInv ==
  ASSUME StateInv, CleanTasks
  PROVE  StateInv'
<1>1. /\ proc = "clean tasks" /\ proc' = "clean runs"
      /\ tasks' = SQL!Without(tasks, SQL!OldTasks(cutoff))
      /\ UNCHANGED <<runs, progress, nextTask, mem, disk, taskIDCounter, cur, id, st, starts,
                     cutoff, now, ops, torn>>
  BY DEF CleanTasks, SQL!DeleteOldTasks, Goto, fileVars, env
<1>2. /\ DOMAIN tasks' = DOMAIN tasks \ SQL!OldTasks(cutoff)
      /\ tasks' \in [DOMAIN tasks' -> TaskRow]
      /\ \A t \in DOMAIN tasks' : tasks'[t] = tasks[t]
  BY <1>1 DEF StateInv, TypeOK, SQLTypeOK, SQL!Without
<1>3. SQLTypeOK'
  BY <1>1, <1>2 DEF StateInv, TypeOK, SQLTypeOK
<1>4. FileTypeOK' /\ ProcessTypeOK'
  BY <1>1 DEF StateInv, TypeOK, FileTypeOK, ProcessTypeOK
<1>5. NoOrphans'
  BY <1>1, <1>2 DEF StateInv, NoOrphans, CleanupInv
<1>6. ProcessInv'
  BY <1>1 DEF StateInv, ProcessInv, InRun
<1>7. FileRunInv'
  BY <1>1 DEF StateInv, FileRunInv
<1>8. CleanupInv'
  <2>1. SQL!OldTasks(cutoff)' = {}
    BY <1>1, <1>2 DEF SQL!OldTasks, SQL!OldRuns
  <2> QED BY <1>1, <2>1 DEF CleanupInv
<1>9. NamedInv'
  <2>1. \A k \in TaskKeys : st[k] = "none"
    BY <1>1 DEF StateInv, ProcessInv, InRun
  <2> QED BY <1>1, <2>1 DEF NamedInv
<1> QED BY <1>3, <1>4, <1>5, <1>6, <1>7, <1>8, <1>9 DEF StateInv, TypeOK

LEMMA CleanRunsInv ==
  ASSUME StateInv, CleanRuns
  PROVE  StateInv'
<1>1. /\ proc = "clean runs" /\ proc' = "ready"
      /\ runs' = SQL!Without(runs, SQL!OldRuns(cutoff))
      /\ UNCHANGED <<tasks, progress, nextTask, mem, disk, taskIDCounter, cur, id, st, starts,
                     cutoff, now, ops, torn>>
  BY DEF CleanRuns, SQL!DeleteOldRuns, Goto, fileVars, env
<1>2. /\ DOMAIN runs' = DOMAIN runs \ SQL!OldRuns(cutoff)
      /\ runs' \in [DOMAIN runs' -> RunRow]
      /\ \A r \in DOMAIN runs' : runs'[r] = runs[r]
  BY <1>1 DEF StateInv, TypeOK, SQLTypeOK, SQL!Without
<1>3. SQLTypeOK'
  BY <1>1, <1>2 DEF StateInv, TypeOK, SQLTypeOK
<1>4. FileTypeOK' /\ ProcessTypeOK'
  BY <1>1 DEF StateInv, TypeOK, FileTypeOK, ProcessTypeOK
<1>5. NoOrphans'
  <2>1. \A t \in DOMAIN tasks : tasks[t].run \notin SQL!OldRuns(cutoff)
    BY <1>1 DEF StateInv, CleanupInv, SQL!OldTasks
  <2> QED BY <1>1, <1>2, <2>1 DEF StateInv, NoOrphans
<1>6. ProcessInv'
  BY <1>1 DEF StateInv, ProcessInv, InRun
<1>7. FileRunInv'
  <2>1. \A r \in SQL!OldRuns(cutoff) : r \in DOMAIN runs /\ runs[r].status # "running"
    BY DEF SQL!OldRuns
  <2> QED BY <1>1, <1>2, <2>1 DEF StateInv, FileRunInv
<1>8. CleanupInv'
  BY <1>1 DEF StateInv, CleanupInv
<1>9. NamedInv'
  <2>1. \A k \in TaskKeys : st[k] = "none"
    BY <1>1 DEF StateInv, ProcessInv, InRun
  <2> QED BY <1>1, <2>1 DEF NamedInv
<1> QED BY <1>3, <1>4, <1>5, <1>6, <1>7, <1>8, <1>9 DEF StateInv, TypeOK

LEMMA CreateRunInv ==
  ASSUME StateInv, CreateRun
  PROVE  StateInv'
<1> DEFINE row == [status |-> "running", phase |-> "initializing",
                   started |-> now, completed |-> 0]
           u == File!CreateRun(starts)
<1>1. /\ proc = "ready" /\ proc' = "prepare" /\ cur' = starts
      /\ starts \notin DOMAIN runs
      /\ mem' = u /\ disk' = u
      /\ UNCHANGED <<tasks, progress, nextTask, taskIDCounter, id, st, starts, cutoff,
                     now, ops, torn>>
  BY DEF CreateRun, SQL!CreateRun, Write, File!Saved, SameCounter, env
<1>2. runs' = SQL!With(runs, starts, row)
  BY DEF CreateRun, SQL!CreateRun, SQL!Never
<1>3. starts \in 1 .. MaxStarts
  BY <1>1, MemoryIsFile
<1>4. /\ IsContents(u) /\ u.run = starts /\ u.status = "running" /\ u.phase = ""
      /\ u # Corrupt
  BY <1>3, EmptyFacts, NotCorrupt
<1>5. row \in RunRow /\ row.status = "running" /\ row.phase = "initializing" /\ row.started = now
  BY Numbers DEF StateInv, TypeOK, RunRow, RunStatuses
<1> HIDE DEF row, u
<1>6. /\ DOMAIN runs' = DOMAIN runs \cup {starts}
      /\ runs'[starts] = row
      /\ \A r \in DOMAIN runs : runs'[r] = runs[r]
      /\ runs' \in [DOMAIN runs' -> RunRow]
  BY <1>1, <1>2, <1>5 DEF StateInv, TypeOK, SQLTypeOK, SQL!With
<1>7. SQLTypeOK'
  BY <1>1, <1>3, <1>6 DEF StateInv, TypeOK, SQLTypeOK
<1>8. FileTypeOK'
  BY <1>1, <1>4 DEF StateInv, TypeOK, FileTypeOK
<1>9. ProcessTypeOK'
  BY <1>1, <1>3 DEF StateInv, TypeOK, ProcessTypeOK
<1>10. NoOrphans'
  BY <1>1, <1>6 DEF StateInv, NoOrphans
<1>11. ProcessInv'
  <2>1. \A k \in TaskKeys : st[k] = "none"
    BY <1>1 DEF StateInv, ProcessInv, InRun
  <2> QED BY <1>1, <1>4, <1>6, <2>1 DEF StateInv, ProcessInv, InRun
<1>12. FileRunInv'
  <2>1. \A r \in DOMAIN runs' : runs'[r].started <= now
    <3>1. now <= now
      BY Numbers DEF StateInv, TypeOK
    <3>2. \A r \in DOMAIN runs : runs[r].started <= now
      BY DEF StateInv, FileRunInv
    <3> QED BY <1>5, <1>6, <3>1, <3>2
  <2> QED BY <1>1, <1>4, <1>5, <1>6, <2>1 DEF FileRunInv
<1>13. CleanupInv' /\ NamedInv'
  <2>1. \A k \in TaskKeys : st[k] = "none"
    BY <1>1 DEF StateInv, ProcessInv, InRun
  <2> QED BY <1>1, <2>1 DEF CleanupInv, NamedInv
<1> QED BY <1>7, <1>8, <1>9, <1>10, <1>11, <1>12, <1>13 DEF StateInv, TypeOK

\* The process is gone.
LEMMA ForgetInv ==
  ASSUME StateInv, SQLTypeOK', Forget, NoOrphans', FileRunInv',
         disk' = Corrupt \/ IsContents(disk'), disk' = Corrupt => torn', torn' \in BOOLEAN,
         starts' = starts, now' = now, ops' = ops
  PROVE  StateInv'
<1>1. /\ mem' = File!Empty /\ proc' = "down" /\ cur' = NoRun
      /\ st' = [k \in TaskKeys |-> "none"]
  BY DEF Forget
<1>2. taskIDCounter' = 1000 /\ cutoff' = 0
  BY DEF Forget, File!FirstTaskID
<1>3. id' \in [TaskKeys -> [sql : Nat, file : Nat]]
  BY DEF Forget, NoID
<1>4. FileTypeOK'
  <2>1. IsContents(mem')
    BY <1>1, EmptyFacts
  <2>2. taskIDCounter' \in Nat
    BY <1>2
  <2> QED BY <2>1, <2>2 DEF FileTypeOK
<1>5. ProcessTypeOK'
  <2>1. cutoff' \in Int
    BY <1>2
  <2> QED BY <1>1, <1>3, <2>1 DEF StateInv, TypeOK, ProcessTypeOK
<1>6. ProcessInv' /\ CleanupInv' /\ NamedInv'
  BY <1>1 DEF ProcessInv, CleanupInv, NamedInv, InRun
<1> QED BY <1>4, <1>5, <1>6 DEF StateInv, TypeOK

\* A run of the database ends.
LEMMA SQLCompleteRun ==
  ASSUME SQLTypeOK, ProcessTypeOK, starts' = starts, NEW r, NEW status \in RunStatuses,
         SQL!CompleteRun(r, status, now)
  PROVE  /\ SQLTypeOK' /\ DOMAIN runs' = DOMAIN runs
         /\ tasks' = tasks /\ progress' = progress
         /\ \A x \in DOMAIN runs : /\ runs'[x].started = runs[x].started
                                   /\ runs'[x].phase = runs[x].phase
                                   /\ x # r => runs'[x] = runs[x]
         /\ r \in DOMAIN runs => runs'[r].status = status
<1>1. now \in Nat
  BY Numbers
<1>2. UNCHANGED <<tasks, nextTask, progress>>
  BY DEF SQL!CompleteRun
<1>3. CASE r \notin DOMAIN runs
  <2>1. runs' = runs
    BY <1>3 DEF SQL!CompleteRun, SQLTypeOK
  <2> QED BY <1>2, <1>3, <2>1 DEF SQLTypeOK
<1>4. CASE r \in DOMAIN runs
  <2> DEFINE row == [runs[r] EXCEPT !.status = status, !.completed = now]
  <2>1. runs[r] \in RunRow
    BY <1>4 DEF SQLTypeOK
  <2>2. /\ row \in RunRow /\ row.status = status
        /\ row.phase = runs[r].phase /\ row.started = runs[r].started
    BY <1>1, <2>1 DEF RunRow
  <2>3. runs' = [runs EXCEPT ![r] = row]
    BY <1>4 DEF SQL!CompleteRun
  <2> HIDE DEF row
  <2>4. /\ runs' \in [DOMAIN runs -> RunRow] /\ DOMAIN runs' = DOMAIN runs
        /\ runs'[r] = row /\ \A x \in DOMAIN runs \ {r} : runs'[x] = runs[x]
    BY <1>4, <2>2, <2>3 DEF SQLTypeOK
  <2>5. SQLTypeOK'
    BY <1>2, <2>4 DEF SQLTypeOK
  <2> QED BY <1>2, <1>4, <2>2, <2>4, <2>5
<1> QED BY <1>3, <1>4

LEMMA ResumeStepInv ==
  ASSUME StateInv, NEW r \in 1 .. MaxStarts, Resume(r)
  PROVE  StateInv'
<1>1. /\ proc = "ready" /\ r \in DOMAIN runs
      /\ UNCHANGED <<now, ops, torn>>
  BY DEF Resume, SQL!LastIncompleteRuns, SQL!Running, env
<1>2. mem = disk /\ disk # Corrupt /\ IsContents(mem)
  BY <1>1, MemoryIsFile
<1>3. CASE SQL!HasSuccessfulRunAfter(r)
  <2>1. /\ SQL!CompleteRun(r, "failed", now) /\ Forget /\ disk' = disk /\ starts' = starts
    BY <1>3 DEF Resume, Forget
  <2>2. "failed" \in RunStatuses
    BY DEF RunStatuses
  <2>3. /\ SQLTypeOK' /\ DOMAIN runs' = DOMAIN runs /\ tasks' = tasks /\ progress' = progress
        /\ \A x \in DOMAIN runs : /\ runs'[x].started = runs[x].started
                                  /\ runs'[x].phase = runs[x].phase
                                  /\ x # r => runs'[x] = runs[x]
    BY <2>1, <2>2, SQLCompleteRun DEF StateInv, TypeOK
  \* The run that superseded r is later than r, so r is not that of the file.
  <2>4. disk.run \in DOMAIN runs => disk.run # r
    <3> SUFFICES ASSUME disk.run = r PROVE FALSE
      OBVIOUS
    <3>1. PICK other \in DOMAIN runs : runs[other].started > runs[r].started
      BY <1>3 DEF SQL!HasSuccessfulRunAfter
    <3>2. runs[other].started <= runs[r].started
      BY <1>1, <1>2 DEF StateInv, FileRunInv
    <3>3. runs[other] \in RunRow /\ runs[r] \in RunRow
      BY <1>1 DEF StateInv, TypeOK, SQLTypeOK
    <3>4. runs[other].started \in Nat /\ runs[r].started \in Nat
      BY <3>3 DEF RunRow
    <3> QED BY <3>1, <3>2, <3>4
  <2>5. FileRunInv'
    <3>1. \A x \in DOMAIN runs' : runs'[x].started <= now'
      BY <1>1, <2>3 DEF StateInv, FileRunInv
    <3>2. disk'.run \notin DOMAIN runs' => disk'.status # "running"
      BY <1>2, <2>1, <2>3 DEF StateInv, FileRunInv
    <3>3. ASSUME disk'.run \in DOMAIN runs'
          PROVE  /\ runs'[disk'.run].status = disk'.status
                 /\ runs'[disk'.run].phase
                      = IF disk'.phase = "" THEN "initializing" ELSE disk'.phase
                 /\ \A x \in DOMAIN runs' : runs'[x].started <= runs'[disk'.run].started
      <4>1. runs'[disk.run] = runs[disk.run] /\ disk' = disk /\ disk.run \in DOMAIN runs
        BY <2>1, <2>3, <2>4, <3>3
      <4> QED BY <1>2, <2>3, <4>1 DEF StateInv, FileRunInv
    <3> QED BY <3>1, <3>2, <3>3 DEF FileRunInv
  <2>6. NoOrphans'
    BY <2>3 DEF StateInv, NoOrphans
  <2>7. disk' = Corrupt \/ IsContents(disk')
    BY <1>2, <2>1
  <2>8. disk' = Corrupt => torn'
    BY <1>2, <2>1
  <2>9. torn' \in BOOLEAN
    BY <1>1 DEF StateInv, TypeOK, ProcessTypeOK
  <2> QED BY <1>1, <2>1, <2>3, <2>5, <2>6, <2>7, <2>8, <2>9, ForgetInv
<1>4. CASE ~SQL!HasSuccessfulRunAfter(r)
  <2> DEFINE u == File!MarkRunAsResumed
  <2>1. /\ r \in File!LastIncompleteRuns /\ SQL!MarkRunAsResumed(r)
        /\ mem' = u /\ disk' = u
        /\ proc' = "prepare" /\ cur' = r
        /\ UNCHANGED <<taskIDCounter, id, st, starts, cutoff>>
    BY <1>4 DEF Resume, Write, File!Saved, SameCounter
  <2>2. StatusOnly
    BY <2>1, SQLMarkRunAsResumed DEF StateInv, TypeOK
  <2>3. /\ IsContents(u) /\ u.run = mem.run /\ u.status = mem.status /\ u.phase = mem.phase
    BY <1>2, ResumedFacts
  <2>4. mem.run = r /\ mem.status = "running"
    BY <2>1 DEF File!LastIncompleteRuns
  <2> HIDE DEF u
  <2>5. u # Corrupt
    BY <2>3, NotCorrupt
  <2>6. SQLTypeOK'
    BY <2>1, <2>2 DEF StatusOnly, StateInv, TypeOK, SQLTypeOK
  <2>7. FileTypeOK'
    BY <2>1, <2>3 DEF StateInv, TypeOK, FileTypeOK
  <2>8. ProcessTypeOK'
    BY <1>1, <2>1 DEF StateInv, TypeOK, ProcessTypeOK
  <2>9. NoOrphans'
    BY <2>2 DEF StatusOnly, StateInv, NoOrphans
  <2>10. \A k \in TaskKeys : st[k] = "none"
    BY <1>1 DEF StateInv, ProcessInv, InRun
  <2>11. ProcessInv' /\ CleanupInv' /\ NamedInv'
    BY <1>1, <2>1, <2>2, <2>3, <2>4, <2>5, <2>10
    DEF StatusOnly, StateInv, ProcessInv, CleanupInv, NamedInv, InRun
  <2>12. FileRunInv'
    BY <1>1, <1>2, <2>1, <2>2, <2>3 DEF StatusOnly, StateInv, FileRunInv
  <2> QED BY <2>6, <2>7, <2>8, <2>9, <2>11, <2>12 DEF StateInv, TypeOK
<1> QED BY <1>3, <1>4

LEMMA CompleteRunInv ==
  ASSUME StateInv, NEW status \in {"success", "failed", "partial"}, CompleteRun(status)
  PROVE  StateInv'
<1> DEFINE u == File!CompleteRun(status)
<1>1. /\ InRun /\ SQL!CompleteRun(cur, status, now) /\ disk' = u /\ Forget
      /\ starts' = starts /\ UNCHANGED <<now, ops, torn>>
  BY DEF CompleteRun, InRun, WriteLast, Forget, env
<1>2. status \in RunStatuses /\ status # "running"
  BY DEF RunStatuses
<1>3. mem = disk /\ disk # Corrupt /\ IsContents(mem)
  BY <1>1, MemoryIsFile DEF InRun
<1>4. cur \in DOMAIN runs /\ mem.run = cur
  BY <1>1 DEF StateInv, ProcessInv
<1>5. /\ IsContents(u) /\ u.run = cur /\ u.status = status /\ u.phase = mem.phase
  BY <1>2, <1>3, <1>4, RunFieldsFacts
<1> HIDE DEF u
<1>6. /\ SQLTypeOK' /\ DOMAIN runs' = DOMAIN runs /\ tasks' = tasks /\ progress' = progress
      /\ \A x \in DOMAIN runs : /\ runs'[x].started = runs[x].started
                                /\ runs'[x].phase = runs[x].phase
      /\ runs'[cur].status = status
  BY <1>1, <1>2, <1>4, SQLCompleteRun DEF StateInv, TypeOK
<1>7. NoOrphans'
  BY <1>6 DEF StateInv, NoOrphans
<1>8. FileRunInv'
  BY <1>1, <1>3, <1>4, <1>5, <1>6 DEF StateInv, FileRunInv
<1>9. disk' = Corrupt \/ IsContents(disk')
  BY <1>1, <1>5
<1>10. disk' = Corrupt => torn'
  BY <1>1, <1>5, NotCorrupt
<1>11. torn' \in BOOLEAN
  BY <1>1 DEF StateInv, TypeOK, ProcessTypeOK
<1> QED BY <1>1, <1>6, <1>7, <1>8, <1>9, <1>10, <1>11, ForgetInv

LEMMA InterruptedInv ==
  ASSUME StateInv, Interrupted
  PROVE  StateInv'
<1> DEFINE u == File!MarkRunAsResumed
<1>1. /\ InRun /\ SQL!MarkRunAsResumed(cur) /\ disk' = u /\ Forget
      /\ starts' = starts /\ UNCHANGED <<now, ops, torn>>
  BY DEF Interrupted, InRun, WriteLast, Forget, env
<1>2. mem = disk /\ disk # Corrupt /\ IsContents(mem)
  BY <1>1, MemoryIsFile DEF InRun
<1>3. /\ IsContents(u) /\ u.run = mem.run /\ u.status = mem.status /\ u.phase = mem.phase
  BY <1>2, ResumedFacts
<1> HIDE DEF u
<1>4. StatusOnly
  BY <1>1, SQLMarkRunAsResumed DEF StateInv, TypeOK
<1>5. SQLTypeOK'
  BY <1>1, <1>4 DEF StatusOnly, StateInv, TypeOK, SQLTypeOK
<1>6. NoOrphans'
  BY <1>4 DEF StatusOnly, StateInv, NoOrphans
<1>7. FileRunInv'
  BY <1>1, <1>2, <1>3, <1>4 DEF StatusOnly, StateInv, FileRunInv
<1>8. disk' = Corrupt \/ IsContents(disk')
  BY <1>1, <1>3
<1>9. disk' = Corrupt => torn'
  BY <1>1, <1>3, NotCorrupt
<1>10. torn' \in BOOLEAN
  BY <1>1 DEF StateInv, TypeOK, ProcessTypeOK
<1> QED BY <1>1, <1>5, <1>6, <1>7, <1>8, <1>9, <1>10, ForgetInv

LEMMA CurFacts ==
  ASSUME StateInv, InRun
  PROVE  /\ cur \in DOMAIN runs /\ cur \in 1 .. MaxStarts /\ mem.run = cur /\ mem.status = "running"
         /\ IsContents(mem) /\ taskIDCounter \in Nat /\ mem = disk /\ disk # Corrupt
         /\ starts \in 1 .. MaxStarts
<1>1. proc # "down"
  BY DEF InRun
<1>2. cur \in DOMAIN runs /\ mem.run = cur /\ mem.status = "running"
  BY DEF StateInv, ProcessInv
<1>3. IsContents(mem) /\ mem = disk /\ disk # Corrupt /\ starts \in 1 .. MaxStarts
  BY <1>1, MemoryIsFile
<1>4. taskIDCounter \in Nat
  BY DEF StateInv, TypeOK, FileTypeOK
<1>5. cur \in 1 .. MaxStarts
  <2>1. cur \in 1 .. starts
    BY <1>2 DEF StateInv, TypeOK, SQLTypeOK
  <2>2. starts \in Nat /\ MaxStarts \in Nat
    BY Numbers DEF StateInv, TypeOK
  <2> QED BY <1>3, <2>1, <2>2
<1> QED BY <1>2, <1>3, <1>4, <1>5

\* What CreateTask does, in both backends, and the ids that the process gets.
LEMMA CreateTaskFacts ==
  ASSUME StateInv, NEW k \in TaskKeys, CreateTask(k)
  PROVE  /\ InRun /\ InRun' /\ SQL!CreateTask(cur, k)
         /\ mem' = File!CreateTask(k) /\ disk' = mem'
         /\ IsContents(mem')
         /\ mem'.run = mem.run /\ mem'.status = mem.status /\ mem'.phase = mem.phase
         /\ DOMAIN mem'.tables = File!Keys \cup {k}
         /\ \A x \in File!Keys : mem'.tables[x] = mem.tables[x]
         /\ k \notin File!Keys =>
              mem'.tables[k] = [status |-> "pending", pk |-> NoPK, rows |-> 0, total |-> 0,
                                id |-> taskIDCounter + 1]
         /\ id'[k].sql \in DOMAIN tasks' /\ id'[k].file = mem'.tables[k].id
         /\ tasks'[id'[k].sql].run = cur /\ tasks'[id'[k].sql].key = k
         /\ \A x \in TaskKeys \ {k} : id'[x] = id[x] /\ st'[x] = st[x]
         /\ st'[k] \in {"success", "new"}
         /\ id' \in [TaskKeys -> [sql : Nat, file : Nat]]
         /\ st' \in [TaskKeys -> {"none", "new", "running", "success", "failed"}]
         /\ UNCHANGED <<proc, cur, starts, cutoff, now, ops, torn>>
         /\ taskIDCounter' \in Nat
<1> DEFINE t0 == CHOOSE t \in DOMAIN tasks' : tasks'[t].run = cur /\ tasks'[t].key = k
           u == File!CreateTask(k)
<1>1. /\ proc = "prepare" /\ SQL!CreateTask(cur, k)
      /\ mem' = u /\ disk' = u
      /\ UNCHANGED <<proc, cur, starts, cutoff, now, ops, torn>>
  BY DEF CreateTask, Write, File!Saved, env
<1>2. taskIDCounter' = IF k \in File!Keys THEN taskIDCounter ELSE taskIDCounter + 1
  BY DEF CreateTask, File!CountsTask
<1>3. id' = [id EXCEPT ![k] = [sql |-> t0, file |-> mem'.tables[k].id]]
  BY DEF CreateTask
<1>4. PICK s0 \in {"success", "new"} : st' = [st EXCEPT ![k] = s0]
  BY DEF CreateTask
<1>5. InRun /\ InRun'
  BY <1>1 DEF InRun
<1>6. /\ cur \in 1 .. MaxStarts /\ IsContents(mem) /\ taskIDCounter \in Nat
  BY <1>5, CurFacts
<1>7. /\ IsContents(u)
      /\ u.run = mem.run /\ u.status = mem.status /\ u.phase = mem.phase
      /\ DOMAIN u.tables = File!Keys \cup {k}
      /\ \A x \in File!Keys : u.tables[x] = mem.tables[x]
      /\ k \notin File!Keys =>
           u.tables[k] = [status |-> "pending", pk |-> NoPK, rows |-> 0, total |-> 0,
                          id |-> taskIDCounter + 1]
  <2>1. CASE k \in File!Keys
    <3>1. u = mem /\ File!Keys \cup {k} = File!Keys
      BY <2>1 DEF File!CreateTask
    <3> QED BY <1>6, <2>1, <3>1 DEF File!Keys
  <2>2. CASE k \notin File!Keys
    <3>1. u = File!Created(k, "pending") /\ "pending" \in Statuses
      BY <2>2 DEF File!CreateTask, Statuses
    <3>2. RowIs(u, k, [status |-> "pending", pk |-> NoPK, rows |-> 0, total |-> 0,
                       id |-> taskIDCounter + 1])
      BY <1>6, <3>1, CreatedFacts
    <3> QED BY <2>2, <3>2 DEF RowIs
  <2> QED BY <2>1, <2>2
<1>8. \E t \in DOMAIN tasks' : tasks'[t].run = cur /\ tasks'[t].key = k
  <2>1. CASE SQL!TaskIDs(cur, k) # {}
    BY <1>1, <1>6, <2>1, SQLCreateTask DEF StateInv, TypeOK, SQL!TaskIDs, SQL!TasksOf
  <2>2. CASE SQL!TaskIDs(cur, k) = {}
    <3>1. /\ nextTask \in DOMAIN tasks'
          /\ tasks'[nextTask] = [run |-> cur, key |-> k, status |-> "pending"]
      BY <1>1, <1>6, <2>2, SQLCreateTask DEF StateInv, TypeOK
    <3> QED BY <3>1
  <2> QED BY <2>1, <2>2
<1>9. t0 \in DOMAIN tasks' /\ tasks'[t0].run = cur /\ tasks'[t0].key = k
  BY <1>8
<1>10. t0 \in Nat /\ mem'.tables[k].id \in Nat
  <2>1. DOMAIN tasks' \subseteq 1 .. nextTask' - 1 /\ nextTask' \in Nat
    BY <1>1, <1>6, SQLCreateTask DEF StateInv, TypeOK
  <2>2. t0 \in Nat
    <3> HIDE DEF t0
    <3> QED BY <1>9, <2>1
  <2>3. u.tables[k] \in FileRow
    BY <1>7, ContentsFields
  <2> HIDE DEF u, t0
  <2> QED BY <1>1, <2>2, <2>3 DEF FileRow
<1> HIDE DEF t0, u
<1>11. /\ id' \in [TaskKeys -> [sql : Nat, file : Nat]]
       /\ id'[k].sql = t0 /\ id'[k].file = mem'.tables[k].id
       /\ \A x \in TaskKeys \ {k} : id'[x] = id[x]
  BY <1>3, <1>10 DEF StateInv, TypeOK, ProcessTypeOK
<1>13. /\ st' \in [TaskKeys -> {"none", "new", "running", "success", "failed"}]
       /\ st'[k] = s0 /\ \A x \in TaskKeys \ {k} : st'[x] = st[x]
  BY <1>4 DEF StateInv, TypeOK, ProcessTypeOK
<1>14. taskIDCounter' \in Nat
  BY <1>2, <1>6
<1>15. /\ IsContents(mem')
       /\ mem'.run = mem.run /\ mem'.status = mem.status /\ mem'.phase = mem.phase
       /\ DOMAIN mem'.tables = File!Keys \cup {k}
       /\ \A x \in File!Keys : mem'.tables[x] = mem.tables[x]
       /\ k \notin File!Keys =>
            mem'.tables[k] = [status |-> "pending", pk |-> NoPK, rows |-> 0, total |-> 0,
                              id |-> taskIDCounter + 1]
  BY <1>1, <1>7
<1>16. mem' = File!CreateTask(k) /\ disk' = mem'
  BY <1>1 DEF u
<1>17. st'[k] \in {"success", "new"}
  BY <1>13
<1>18. UNCHANGED <<proc, cur, starts, cutoff, now, ops, torn>> /\ SQL!CreateTask(cur, k)
  BY <1>1
<1>19. \A x \in TaskKeys \ {k} : id'[x] = id[x] /\ st'[x] = st[x]
  BY <1>11, <1>13
<1>20. id'[k].sql \in DOMAIN tasks' /\ tasks'[id'[k].sql].run = cur /\ tasks'[id'[k].sql].key = k
  BY <1>9, <1>11
<1>21. id'[k].file = mem'.tables[k].id /\ id' \in [TaskKeys -> [sql : Nat, file : Nat]]
  BY <1>11
<1>22. st' \in [TaskKeys -> {"none", "new", "running", "success", "failed"}]
  BY <1>13
<1> QED BY <1>5, <1>14, <1>15, <1>16, <1>17, <1>18, <1>19, <1>20, <1>21, <1>22

LEMMA CreateTaskInv ==
  ASSUME StateInv, NEW k \in TaskKeys, CreateTask(k)
  PROVE  StateInv'
<1>1. /\ InRun /\ InRun' /\ SQL!CreateTask(cur, k)
      /\ UNCHANGED <<proc, cur, starts, cutoff, now, ops, torn>>
      /\ taskIDCounter' \in Nat
  BY CreateTaskFacts
<1>2. /\ disk' = mem' /\ IsContents(mem')
      /\ mem'.run = mem.run /\ mem'.status = mem.status /\ mem'.phase = mem.phase
      /\ DOMAIN mem'.tables = File!Keys \cup {k}
  BY CreateTaskFacts
<1>3. /\ id'[k].sql \in DOMAIN tasks'
      /\ tasks'[id'[k].sql].run = cur /\ tasks'[id'[k].sql].key = k
      /\ \A x \in TaskKeys \ {k} : id'[x] = id[x] /\ st'[x] = st[x]
  BY CreateTaskFacts
<1>4. cur \in DOMAIN runs /\ cur \in 1 .. MaxStarts
  BY <1>1, CurFacts
<1>5. /\ tasks' \in [DOMAIN tasks' -> TaskRow] /\ DOMAIN tasks' \subseteq 1 .. nextTask' - 1
      /\ nextTask' \in Nat \ {0}
      /\ runs' = runs /\ progress' = progress
      /\ DOMAIN tasks \subseteq DOMAIN tasks'
      /\ \A t \in DOMAIN tasks : tasks'[t] = tasks[t]
  BY <1>1, <1>4, SQLCreateTask DEF StateInv, TypeOK
<1>6. \A t \in DOMAIN tasks' : t \in DOMAIN tasks \/ tasks'[t].run = cur
  <2>1. SQL!TaskIDs(cur, k) # {} => tasks' = tasks
    BY <1>1, <1>4, SQLCreateTask DEF StateInv, TypeOK
  <2>2. SQL!TaskIDs(cur, k) = {} =>
          /\ DOMAIN tasks' = DOMAIN tasks \cup {nextTask}
          /\ tasks'[nextTask] = [run |-> cur, key |-> k, status |-> "pending"]
    BY <1>1, <1>4, SQLCreateTask DEF StateInv, TypeOK
  <2>3. [run |-> cur, key |-> k, status |-> "pending"].run = cur
    OBVIOUS
  <2> QED BY <2>1, <2>2, <2>3
<1>7. SQLTypeOK'
  BY <1>1, <1>5 DEF StateInv, TypeOK, SQLTypeOK
<1>8. ProcessTypeOK'
  <2>1. /\ id' \in [TaskKeys -> [sql : Nat, file : Nat]]
        /\ st' \in [TaskKeys -> {"none", "new", "running", "success", "failed"}]
    BY CreateTaskFacts
  <2> QED BY <1>1, <2>1 DEF StateInv, TypeOK, ProcessTypeOK
<1>9. \A t \in DOMAIN tasks' : tasks'[t].run \in DOMAIN runs
  BY <1>4, <1>5, <1>6 DEF StateInv, NoOrphans
<1>10. DOMAIN progress' \subseteq DOMAIN tasks'
  BY <1>5 DEF StateInv, NoOrphans
<1>11. NamedInv'
  BY <1>1, <1>2, <1>3, <1>5 DEF StateInv, NamedInv, File!Keys
<1> QED BY <1>1, <1>2, <1>5, <1>7, <1>8, <1>9, <1>10, <1>11, RunStepInv

\* A step that keeps the tasks' keys, and the row of one table, keeps what is named.
LEMMA NamedKept ==
  ASSUME StateInv, StatusOnly \/ UNCHANGED tasks, cur' = cur, id' = id,
         \A k \in TaskKeys : st[k] = "none" => st'[k] = "none",
         File!Keys \subseteq DOMAIN mem'.tables
  PROVE  NamedInv'
BY DEF StateInv, NamedInv, StatusOnly, File!Keys

LEMMA TaskOpInv ==
  ASSUME StateInv, InRun, SQLTypeOK', runs' = runs, TaskOp,
         StatusOnly \/ UNCHANGED tasks, DOMAIN progress' \subseteq DOMAIN tasks,
         UNCHANGED <<proc, cur, id, starts, cutoff, taskIDCounter>>,
         st' \in [TaskKeys -> {"none", "new", "running", "success", "failed"}],
         \A k \in TaskKeys : st[k] = "none" => st'[k] = "none",
         NEW key, NEW row, RowIs(mem', key, row), disk' = mem'
  PROVE  StateInv'
<1>1. InRun' /\ now' = now /\ torn' = torn
  BY DEF InRun, TaskOp
<1>2. ops' \in 0 .. MaxOps
  <2>1. ops < MaxOps /\ ops' = ops + 1
    BY DEF TaskOp
  <2> QED BY <2>1, Numbers DEF StateInv, TypeOK
<1>3. ProcessTypeOK'
  BY <1>1, <1>2 DEF StateInv, TypeOK, ProcessTypeOK
<1>4. taskIDCounter' \in Nat
  BY DEF StateInv, TypeOK, FileTypeOK
<1>5. /\ IsContents(mem') /\ mem'.run = mem.run /\ mem'.status = mem.status
      /\ mem'.phase = mem.phase /\ File!Keys \subseteq DOMAIN mem'.tables
  BY DEF RowIs
<1>6. NamedInv'
  BY <1>5, NamedKept
<1>7. \A t \in DOMAIN tasks' : tasks'[t].run \in DOMAIN runs
  BY DEF StateInv, NoOrphans, StatusOnly
<1>8. DOMAIN progress' \subseteq DOMAIN tasks'
  BY DEF StatusOnly
<1> QED BY <1>1, <1>3, <1>4, <1>5, <1>6, <1>7, <1>8, RunStepInv

\* The parts of an operation on a task, with the key that the file finds by the task's id.
LEMMA ClearParts ==
  ASSUME StateInv, NEW k \in TaskKeys, ClearTransferProgress(k)
  PROVE  /\ proc = "prepare" /\ InRun /\ st[k] = "new" /\ TaskOp
         /\ progress' = SQL!Without(progress, {id[k].sql})
         /\ UNCHANGED <<runs, tasks, nextTask, taskIDCounter, proc, cur, id, st, starts, cutoff>>
         /\ \E key \in File!KeysWithID(id[k].file) :
              /\ RowIs(mem', key, [mem.tables[key] EXCEPT !.pk = NoPK, !.rows = 0, !.total = 0,
                                                          !.status = "pending"])
              /\ disk' = mem'
<1>1. /\ proc = "prepare" /\ st[k] = "new" /\ TaskOp
      /\ progress' = SQL!Without(progress, {id[k].sql})
      /\ UNCHANGED <<runs, tasks, nextTask, taskIDCounter, proc, cur, id, st, starts, cutoff>>
  BY DEF ClearTransferProgress, SQL!ClearTransferProgress, SameCounter, Keep
<1>2. PICK key \in File!KeysWithID(id[k].file) :
        mem' = File!ClearTransferProgress(key) /\ disk' = mem'
  BY DEF ClearTransferProgress, Write, File!Saved
<1>3. InRun /\ key \in File!Keys
  BY <1>1, <1>2 DEF InRun, File!KeysWithID
<1>4. RowIs(mem', key, [mem.tables[key] EXCEPT !.pk = NoPK, !.rows = 0, !.total = 0,
                                               !.status = "pending"])
  BY <1>2, <1>3, CurFacts, ProgressCleared
<1> QED BY <1>1, <1>2, <1>3, <1>4

LEMMA UpdateParts ==
  ASSUME StateInv, NEW k \in TaskKeys, NEW from \in {"new", "running"},
         NEW to \in {"running", "success", "failed"}, UpdateTaskStatus(k, from, to)
  PROVE  /\ proc = "jobs" /\ InRun /\ st[k] = from /\ TaskOp
         /\ SQL!UpdateTaskStatus(id[k].sql, to)
         /\ st' = [st EXCEPT ![k] = to]
         /\ UNCHANGED <<taskIDCounter, proc, cur, id, starts, cutoff>>
         /\ \E key \in File!KeysWithID(id[k].file) :
              RowIs(mem', key, [mem.tables[key] EXCEPT !.status = to]) /\ disk' = mem'
<1>1. /\ proc = "jobs" /\ st[k] = from /\ TaskOp
      /\ SQL!UpdateTaskStatus(id[k].sql, to) /\ st' = [st EXCEPT ![k] = to]
      /\ UNCHANGED <<taskIDCounter, proc, cur, id, starts, cutoff>>
  BY DEF UpdateTaskStatus, SameCounter
<1>2. PICK key \in File!KeysWithID(id[k].file) :
        mem' = File!UpdateTaskStatus(key, to) /\ disk' = mem'
  BY DEF UpdateTaskStatus, Write, File!Saved
<1>3. InRun /\ key \in File!Keys /\ to \in Statuses
  BY <1>1, <1>2 DEF InRun, File!KeysWithID, Statuses
<1>4. RowIs(mem', key, [mem.tables[key] EXCEPT !.status = to])
  BY <1>2, <1>3, CurFacts, StatusUpdated
<1> QED BY <1>1, <1>2, <1>3, <1>4

LEMMA SaveParts ==
  ASSUME StateInv, NEW k \in TaskKeys, NEW pk \in 1 .. LastPK, SaveProgress(k, pk)
  PROVE  /\ proc = "jobs" /\ InRun /\ st[k] = "running" /\ TaskOp
         /\ SQL!SaveTransferProgress(id[k].sql, pk, pk, LastPK)
         /\ UNCHANGED <<taskIDCounter, proc, cur, id, st, starts, cutoff>>
         /\ \E key \in File!KeysWithID(id[k].file) :
              /\ RowIs(mem', key, [mem.tables[key] EXCEPT !.pk = pk, !.rows = pk,
                                                          !.total = LastPK, !.status = "running"])
              /\ disk' = mem'
<1>1. /\ proc = "jobs" /\ st[k] = "running" /\ TaskOp
      /\ SQL!SaveTransferProgress(id[k].sql, pk, pk, LastPK)
      /\ UNCHANGED <<taskIDCounter, proc, cur, id, st, starts, cutoff>>
  BY DEF SaveProgress, SameCounter, Keep
<1>2. PICK key \in File!KeysWithID(id[k].file) :
        mem' = File!SaveTransferProgress(key, pk, pk, LastPK) /\ disk' = mem'
  BY DEF SaveProgress, Write, File!Saved
<1>3. InRun /\ key \in File!Keys
  BY <1>1, <1>2 DEF InRun, File!KeysWithID
<1>4. RowIs(mem', key, [mem.tables[key] EXCEPT !.pk = pk, !.rows = pk,
                                               !.total = LastPK, !.status = "running"])
  BY <1>2, <1>3, CurFacts, ProgressSaved, Numbers DEF StateInv, TypeOK
<1> QED BY <1>1, <1>2, <1>3, <1>4

LEMMA MarkParts ==
  ASSUME StateInv, NEW k \in TaskKeys, MarkTaskComplete(k)
  PROVE  /\ proc = "jobs" /\ InRun /\ st[k] = "new" /\ TaskOp
         /\ SQL!MarkTaskComplete(cur, k) /\ SQL!TaskIDs(cur, k) # {}
         /\ st' = [st EXCEPT ![k] = "success"]
         /\ UNCHANGED <<taskIDCounter, proc, cur, id, starts, cutoff>>
         /\ k \in File!Keys
         /\ RowIs(mem', k, [mem.tables[k] EXCEPT !.status = "success"]) /\ disk' = mem'
<1>1. /\ proc = "jobs" /\ st[k] = "new" /\ TaskOp
      /\ SQL!MarkTaskComplete(cur, k) /\ st' = [st EXCEPT ![k] = "success"]
      /\ UNCHANGED <<proc, cur, id, starts, cutoff>>
      /\ mem' = File!MarkTaskComplete(k) /\ disk' = mem'
  BY DEF MarkTaskComplete, Write, File!Saved
<1>2. taskIDCounter' = IF k \in File!Keys THEN taskIDCounter ELSE taskIDCounter + 1
  BY DEF MarkTaskComplete, File!CountsTask
<1>3. InRun
  BY <1>1 DEF InRun
<1>4. k \in File!Keys /\ id[k].sql \in DOMAIN tasks
      /\ tasks[id[k].sql].run = cur /\ tasks[id[k].sql].key = k
  BY <1>1 DEF StateInv, NamedInv
<1>5. SQL!TaskIDs(cur, k) # {}
  BY <1>4 DEF SQL!TaskIDs, SQL!TasksOf
<1>6. RowIs(mem', k, [mem.tables[k] EXCEPT !.status = "success"])
  BY <1>1, <1>3, <1>4, CurFacts, TaskCompleted
<1> QED BY <1>1, <1>2, <1>3, <1>4, <1>5, <1>6

LEMMA ClearInv ==
  ASSUME StateInv, NEW k \in TaskKeys, ClearTransferProgress(k)
  PROVE  StateInv'
<1>1. /\ InRun /\ TaskOp /\ progress' = SQL!Without(progress, {id[k].sql})
      /\ UNCHANGED <<runs, tasks, nextTask, taskIDCounter, proc, cur, id, st, starts, cutoff>>
  BY ClearParts
<1>2. PICK key \in File!KeysWithID(id[k].file) :
        /\ RowIs(mem', key, [mem.tables[key] EXCEPT !.pk = NoPK, !.rows = 0, !.total = 0,
                                                    !.status = "pending"])
        /\ disk' = mem'
  BY ClearParts
<1>3. DOMAIN progress' \subseteq DOMAIN progress /\ progress' \in [DOMAIN progress' -> ProgressRow]
  BY <1>1 DEF StateInv, TypeOK, SQLTypeOK, SQL!Without
<1>4. SQLTypeOK' /\ DOMAIN progress' \subseteq DOMAIN tasks
  BY <1>1, <1>3 DEF StateInv, TypeOK, SQLTypeOK, NoOrphans
<1>5. /\ st' \in [TaskKeys -> {"none", "new", "running", "success", "failed"}]
      /\ \A x \in TaskKeys : st[x] = "none" => st'[x] = "none"
  BY <1>1 DEF StateInv, TypeOK, ProcessTypeOK
<1> QED BY <1>1, <1>2, <1>4, <1>5, TaskOpInv

LEMMA UpdateInv ==
  ASSUME StateInv, NEW k \in TaskKeys, NEW from \in {"new", "running"},
         NEW to \in {"running", "success", "failed"}, UpdateTaskStatus(k, from, to)
  PROVE  StateInv'
<1>1. /\ InRun /\ TaskOp /\ SQL!UpdateTaskStatus(id[k].sql, to) /\ st[k] = from
      /\ st' = [st EXCEPT ![k] = to]
      /\ UNCHANGED <<taskIDCounter, proc, cur, id, starts, cutoff>>
  BY UpdateParts
<1>2. PICK key \in File!KeysWithID(id[k].file) :
        RowIs(mem', key, [mem.tables[key] EXCEPT !.status = to]) /\ disk' = mem'
  BY UpdateParts
<1>3. StatusOnly
  BY <1>1, SQLUpdateTaskStatus DEF StateInv, TypeOK, Statuses
<1>4. SQLTypeOK' /\ DOMAIN progress' \subseteq DOMAIN tasks /\ runs' = runs
  BY <1>1, <1>3 DEF StatusOnly, StateInv, TypeOK, SQLTypeOK, NoOrphans
<1>5. /\ st' \in [TaskKeys -> {"none", "new", "running", "success", "failed"}]
      /\ \A x \in TaskKeys : st[x] = "none" => st'[x] = "none"
  BY <1>1 DEF StateInv, TypeOK, ProcessTypeOK
<1> QED BY <1>1, <1>2, <1>3, <1>4, <1>5, TaskOpInv

LEMMA SaveInv ==
  ASSUME StateInv, NEW k \in TaskKeys, NEW pk \in 1 .. LastPK, SaveProgress(k, pk)
  PROVE  StateInv'
<1>1. /\ InRun /\ TaskOp /\ SQL!SaveTransferProgress(id[k].sql, pk, pk, LastPK)
      /\ st[k] = "running"
      /\ UNCHANGED <<taskIDCounter, proc, cur, id, st, starts, cutoff>>
  BY SaveParts
<1>2. PICK key \in File!KeysWithID(id[k].file) :
        /\ RowIs(mem', key, [mem.tables[key] EXCEPT !.pk = pk, !.rows = pk,
                                                    !.total = LastPK, !.status = "running"])
        /\ disk' = mem'
  BY SaveParts
<1>3. id[k].sql \in DOMAIN tasks
  BY <1>1 DEF StateInv, NamedInv
<1> DEFINE t == id[k].sql
           row == [pk |-> pk, rows |-> pk,
                   total |-> IF t \in DOMAIN progress THEN progress[t].total ELSE LastPK]
<1>4. progress' = SQL!With(progress, t, row) /\ UNCHANGED <<runs, tasks, nextTask>>
  BY <1>1 DEF SQL!SaveTransferProgress
<1>5. row \in ProgressRow
  <2>1. pk \in Nat /\ LastPK \in Nat
    BY Numbers DEF StateInv, TypeOK
  <2>2. t \in DOMAIN progress => progress[t] \in ProgressRow
    BY DEF StateInv, TypeOK, SQLTypeOK
  <2> QED BY <2>1, <2>2 DEF ProgressRow
<1> HIDE DEF row, t
<1>6. DOMAIN progress' = DOMAIN progress \cup {t} /\ progress' \in [DOMAIN progress' -> ProgressRow]
  BY <1>4, <1>5 DEF StateInv, TypeOK, SQLTypeOK, SQL!With
<1>7. SQLTypeOK' /\ DOMAIN progress' \subseteq DOMAIN tasks
  BY <1>1, <1>3, <1>4, <1>6 DEF StateInv, TypeOK, SQLTypeOK, NoOrphans, t
<1>8. /\ st' \in [TaskKeys -> {"none", "new", "running", "success", "failed"}]
      /\ \A x \in TaskKeys : st[x] = "none" => st'[x] = "none"
  BY <1>1 DEF StateInv, TypeOK, ProcessTypeOK
<1> QED BY <1>1, <1>2, <1>4, <1>7, <1>8, TaskOpInv

LEMMA MarkInv ==
  ASSUME StateInv, NEW k \in TaskKeys, MarkTaskComplete(k)
  PROVE  StateInv'
<1>1. /\ InRun /\ TaskOp /\ SQL!MarkTaskComplete(cur, k) /\ SQL!TaskIDs(cur, k) # {}
      /\ st[k] = "new" /\ st' = [st EXCEPT ![k] = "success"]
      /\ UNCHANGED <<taskIDCounter, proc, cur, id, starts, cutoff>>
      /\ RowIs(mem', k, [mem.tables[k] EXCEPT !.status = "success"]) /\ disk' = mem'
  BY MarkParts
<1>2. StatusOnly
  BY <1>1, SQLMarkTaskComplete DEF StateInv, TypeOK
<1>3. SQLTypeOK' /\ DOMAIN progress' \subseteq DOMAIN tasks /\ runs' = runs
  BY <1>1, <1>2 DEF StatusOnly, StateInv, TypeOK, SQLTypeOK, NoOrphans
<1>4. /\ st' \in [TaskKeys -> {"none", "new", "running", "success", "failed"}]
      /\ \A x \in TaskKeys : st[x] = "none" => st'[x] = "none"
  BY <1>1 DEF StateInv, TypeOK, ProcessTypeOK
<1> QED BY <1>1, <1>2, <1>3, <1>4, TaskOpInv

LEMMA UpdatePhaseInv ==
  ASSUME StateInv, UpdatePhase
  PROVE  StateInv'
<1> DEFINE u == File!UpdatePhase("transferring")
           row == [runs[cur] EXCEPT !.phase = "transferring"]
<1>1. /\ proc = "prepare" /\ proc' = "jobs" /\ InRun /\ InRun'
      /\ SQL!UpdatePhase(cur, "transferring") /\ mem' = u /\ disk' = u
      /\ UNCHANGED <<taskIDCounter, cur, id, st, starts, cutoff, now, ops, torn>>
  BY DEF UpdatePhase, Write, File!Saved, SameCounter, Goto, env, InRun
<1>2. cur \in DOMAIN runs /\ IsContents(mem) /\ mem.run = cur /\ mem = disk /\ disk # Corrupt
      /\ mem.status = "running"
  BY <1>1, CurFacts
<1>3. "running" \in RunStatuses
  BY DEF RunStatuses
<1>4. /\ IsContents(u) /\ u.run = cur /\ u.status = mem.status /\ u.phase = "transferring"
      /\ u.tables = mem.tables
  BY <1>2, <1>3, RunFieldsFacts
<1>5. runs[cur] \in RunRow
  BY <1>2 DEF StateInv, TypeOK, SQLTypeOK
<1>6. /\ row \in RunRow /\ row.status = runs[cur].status /\ row.phase = "transferring"
      /\ row.started = runs[cur].started
  BY <1>5 DEF RunRow
<1>7. runs' = [runs EXCEPT ![cur] = row] /\ UNCHANGED <<tasks, nextTask, progress>>
  BY <1>1 DEF SQL!UpdatePhase
<1> HIDE DEF u, row
<1>8. /\ runs' \in [DOMAIN runs -> RunRow] /\ DOMAIN runs' = DOMAIN runs
      /\ runs'[cur] = row
      /\ \A r \in DOMAIN runs : runs'[r].started = runs[r].started
  <2>1. /\ runs' \in [DOMAIN runs -> RunRow] /\ DOMAIN runs' = DOMAIN runs
        /\ runs'[cur] = row
        /\ \A r \in DOMAIN runs \ {cur} : runs'[r] = runs[r]
    BY <1>2, <1>6, <1>7 DEF StateInv, TypeOK, SQLTypeOK
  <2> QED BY <1>6, <2>1
<1>9. SQLTypeOK'
  BY <1>1, <1>7, <1>8 DEF StateInv, TypeOK, SQLTypeOK
<1>10. FileTypeOK'
  BY <1>1, <1>4 DEF StateInv, TypeOK, FileTypeOK
<1>11. ProcessTypeOK'
  BY <1>1 DEF StateInv, TypeOK, ProcessTypeOK
<1>12. NoOrphans'
  BY <1>7, <1>8 DEF StateInv, NoOrphans
<1>13. ProcessInv'
  BY <1>1, <1>2, <1>4, <1>8, NotCorrupt DEF StateInv, ProcessInv, InRun
<1>14. FileRunInv'
  <2>1. u # Corrupt
    BY <1>4, NotCorrupt
  <2>2. \A r \in DOMAIN runs' : runs'[r].started <= now'
    BY <1>1, <1>8 DEF StateInv, FileRunInv
  <2>3. runs[cur].status = mem.status /\ \A r \in DOMAIN runs : runs[r].started <= runs[cur].started
    BY <1>2 DEF StateInv, FileRunInv
  <2>4. \A r \in DOMAIN runs' : runs'[r].started <= runs'[cur].started
    BY <1>2, <1>8, <2>3
  <2> QED BY <1>1, <1>2, <1>4, <1>6, <1>8, <2>2, <2>3, <2>4 DEF FileRunInv
<1>15. CleanupInv' /\ NamedInv'
  BY <1>1, <1>4, <1>7 DEF StateInv, CleanupInv, NamedInv, File!Keys
<1> QED BY <1>9, <1>10, <1>11, <1>12, <1>13, <1>14, <1>15 DEF StateInv, TypeOK

LEMMA TickInv ==
  ASSUME StateInv, Tick
  PROVE  StateInv'
<1>1. /\ UNCHANGED <<runs, tasks, nextTask, progress, mem, disk, taskIDCounter, proc, cur, id, st,
                     starts, cutoff, ops, torn>>
  BY DEF Tick, sqlVars, fileVars, process
<1>2. now' = now + 1 /\ now < MaxNow
  BY DEF Tick
<1>3. now' \in 1 .. MaxNow
  BY <1>2, Numbers DEF StateInv, TypeOK
<1>4. SQLTypeOK' /\ FileTypeOK' /\ ProcessTypeOK'
  BY <1>1, <1>3 DEF StateInv, TypeOK, SQLTypeOK, FileTypeOK, ProcessTypeOK
<1>5. NoOrphans' /\ ProcessInv' /\ CleanupInv' /\ NamedInv'
  BY <1>1 DEF StateInv, NoOrphans, ProcessInv, CleanupInv, NamedInv, InRun, SQL!OldTasks,
              SQL!OldRuns, File!Keys
<1>6. FileRunInv'
  <2>1. \A r \in DOMAIN runs : runs[r].started <= now'
    <3> TAKE r \in DOMAIN runs
    <3>1. runs[r] \in RunRow /\ runs[r].started <= now
      BY DEF StateInv, TypeOK, SQLTypeOK, FileRunInv
    <3>2. runs[r].started \in Nat
      BY <3>1 DEF RunRow
    <3> QED BY <1>2, <3>1, <3>2, Numbers DEF StateInv, TypeOK
  <2> QED BY <1>1, <2>1 DEF StateInv, FileRunInv
<1> QED BY <1>4, <1>5, <1>6 DEF StateInv, TypeOK

LEMMA CrashInv ==
  ASSUME StateInv, Crash
  PROVE  StateInv'
<1>1. /\ Forget /\ starts' = starts
      /\ UNCHANGED <<runs, tasks, nextTask, progress, disk, now, ops, torn>>
  BY DEF Crash, Forget, sqlVars, env
<1>2. SQLTypeOK'
  BY <1>1 DEF StateInv, TypeOK, SQLTypeOK
<1>3. NoOrphans' /\ FileRunInv'
  BY <1>1 DEF StateInv, NoOrphans, FileRunInv
<1>4. disk' = Corrupt \/ IsContents(disk')
  BY <1>1 DEF StateInv, TypeOK, FileTypeOK
<1>5. disk' = Corrupt => torn'
  BY <1>1 DEF StateInv, ProcessInv
<1>6. torn' \in BOOLEAN
  BY <1>1 DEF StateInv, TypeOK, ProcessTypeOK
<1> QED BY <1>1, <1>2, <1>3, <1>4, <1>5, <1>6, ForgetInv

\* What a torn write leaves: a file that cannot be read, an empty one, or the first tables.
LEMMA TornFacts ==
  ASSUME StateInv, CrashInSave
  PROVE  \/ disk' = Corrupt
         \/ disk' = File!Empty
         \/ /\ IsContents(disk') /\ disk'.run = disk.run /\ disk'.status = disk.status
            /\ disk'.phase = disk.phase
            /\ \E n \in 0 .. Len(KeyOrder) - 1 :
                 DOMAIN disk'.tables = DOMAIN disk.tables \cap FirstKeys(n)
            /\ \A k \in DOMAIN disk'.tables : disk'.tables[k] = disk.tables[k]
<1>1. disk' \in {File!Empty, Corrupt} \cup {File!Cut(mem, n) : n \in 0 .. Len(KeyOrder) - 1}
  BY DEF CrashInSave, File!SaveTorn
<1>2. proc # "down"
  BY DEF CrashInSave
<1>3. mem = disk /\ IsContents(mem)
  BY <1>2, MemoryIsFile
<1>4. CASE \E n \in 0 .. Len(KeyOrder) - 1 : disk' = File!Cut(mem, n)
  <2>1. PICK n \in 0 .. Len(KeyOrder) - 1 : disk' = File!Cut(mem, n)
    BY <1>4
  <2>2. /\ IsContents(disk')
        /\ disk'.run = mem.run /\ disk'.status = mem.status /\ disk'.phase = mem.phase
        /\ DOMAIN disk'.tables = File!Keys \cap FirstKeys(n)
        /\ \A k \in DOMAIN disk'.tables : disk'.tables[k] = mem.tables[k]
    BY <1>3, <2>1, CutFacts
  <2> QED BY <1>3, <2>2 DEF File!Keys
<1> QED BY <1>1, <1>4

LEMMA CrashInSaveInv ==
  ASSUME StateInv, CrashInSave
  PROVE  StateInv'
<1>1. /\ Forget /\ starts' = starts /\ torn' = TRUE /\ proc # "down"
      /\ UNCHANGED <<runs, tasks, nextTask, progress, now, ops>>
  BY DEF CrashInSave, Forget, sqlVars
<1>2. SQLTypeOK'
  BY <1>1 DEF StateInv, TypeOK, SQLTypeOK
<1>3. NoOrphans'
  BY <1>1 DEF StateInv, NoOrphans
<1>4. disk' = Corrupt \/ IsContents(disk')
  BY TornFacts, EmptyFacts
<1>5. FileRunInv'
  <2>1. CASE disk' = Corrupt
    BY <1>1, <2>1 DEF StateInv, FileRunInv
  <2>2. CASE disk' = File!Empty
    <3>1. File!Empty.run = NoRun /\ File!Empty.status = "" /\ NoRun \notin DOMAIN runs
      <4>1. NoRun \notin 1 .. MaxStarts
        BY StateAssumption DEF StateAssumption
      <4>2. 1 .. starts \subseteq 1 .. MaxStarts
        BY Numbers DEF StateInv, TypeOK
      <4> QED BY <4>1, <4>2, EmptyFacts DEF StateInv, TypeOK, SQLTypeOK
    <3> QED BY <1>1, <2>2, <3>1 DEF StateInv, FileRunInv
  <2>3. CASE disk'.run = disk.run /\ disk'.status = disk.status /\ disk'.phase = disk.phase
    <3>1. disk # Corrupt
      BY <1>1, MemoryIsFile
    <3> QED BY <1>1, <2>3, <3>1 DEF StateInv, FileRunInv
  <2> QED BY <2>1, <2>2, <2>3, TornFacts
<1> QED BY <1>1, <1>2, <1>3, <1>4, <1>5, ForgetInv

LEMMA StateNext ==
  ASSUME StateInv, [Next]_vars
  PROVE  StateInv'
<1>1. ASSUME NEW k \in TaskKeys, NEW status \in {"success", "failed"}, EndJob(k, status)
      PROVE  StateInv'
  BY <1>1, UpdateInv DEF EndJob
<1>2. ASSUME NEW k \in TaskKeys, StartJob(k)
      PROVE  StateInv'
  BY <1>2, UpdateInv DEF StartJob
<1>3. CASE UNCHANGED vars
  <2>1. UNCHANGED <<runs, tasks, nextTask, progress, mem, disk, taskIDCounter, proc, cur, id, st,
                    starts, cutoff, now, ops, torn>>
    BY <1>3 DEF vars, sqlVars, fileVars, process, env
  <2>2. TypeOK'
    BY <2>1 DEF StateInv, TypeOK, SQLTypeOK, FileTypeOK, ProcessTypeOK
  <2> QED BY <2>1, <2>2 DEF StateInv, NoOrphans, ProcessInv, FileRunInv, CleanupInv, NamedInv,
                           InRun, SQL!OldTasks, SQL!OldRuns, File!Keys
<1>4. CASE Next
  BY <1>1, <1>2, <1>4, StartInv, CleanProgressInv, CleanTasksInv, CleanRunsInv, CreateRunInv,
     ResumeStepInv, CompleteRunInv, InterruptedInv, UpdatePhaseInv, CreateTaskInv, ClearInv,
     MarkInv, SaveInv, TickInv, CrashInv, CrashInSaveInv
  DEF Next
<1> QED BY <1>3, <1>4

LEMMA StateInvariant == Spec => []StateInv
<1>1. Init => StateInv
  BY StateInit
<1>2. StateInv /\ [Next]_vars => StateInv'
  BY StateNext
<1> QED BY <1>1, <1>2, PTL DEF Spec

\* The rows of the database and of the state file, and the memory of a process, have their
\* types, whatever is interrupted.
THEOREM StateTypes == Spec => []TypeOK
BY StateInvariant, PTL DEF StateInv

\* Wherever the statements of CleanupOldRuns (checkpoint/state.go) are interrupted, no task
\* is left without its run and no progress without its task.
THEOREM CleanupLeavesNoOrphans == Spec => []NoOrphans
BY StateInvariant, PTL DEF StateInv

\* CleanupOldRuns takes nothing from a run that can still be resumed.
THEOREM CleanupKeepsResumable == Spec => ResumableKept
<1> DEFINE A == proc \in {"clean progress", "clean tasks", "clean runs"} => KeepsResumable
<1>1. ASSUME StateInv, [Next]_vars
      PROVE  [A]_vars
  <2> SUFFICES ASSUME Next, proc \in {"clean progress", "clean tasks", "clean runs"}
               PROVE  KeepsResumable
    BY <1>1
  <2>1. \A r \in SQL!OldRuns(cutoff) : r \notin SQL!Running
    BY DEF SQL!OldRuns, SQL!Running
  <2>2. \A t \in SQL!OldTasks(cutoff) : t \in DOMAIN tasks /\ tasks[t].run \notin SQL!Running
    BY <2>1 DEF SQL!OldTasks
  <2>3. CASE CleanProgress
    <3>1. /\ DOMAIN progress' = DOMAIN progress \ SQL!OldTasks(cutoff)
          /\ runs' = runs /\ tasks' = tasks
      BY <2>3 DEF CleanProgress, SQL!DeleteOldProgress, SQL!Without
    <3> QED BY <2>2, <3>1 DEF KeepsResumable, SQL!Running, SQL!TasksOf
  <2>4. CASE CleanTasks
    <3>1. /\ DOMAIN tasks' = DOMAIN tasks \ SQL!OldTasks(cutoff)
          /\ runs' = runs /\ progress' = progress
      BY <2>4 DEF CleanTasks, SQL!DeleteOldTasks, SQL!Without
    <3> QED BY <2>2, <3>1 DEF KeepsResumable, SQL!Running, SQL!TasksOf
  <2>5. CASE CleanRuns
    <3>1. /\ DOMAIN runs' = DOMAIN runs \ SQL!OldRuns(cutoff)
          /\ tasks' = tasks /\ progress' = progress
      BY <2>5 DEF CleanRuns, SQL!DeleteOldRuns, SQL!Without
    <3> QED BY <2>1, <3>1 DEF KeepsResumable, SQL!Running, SQL!TasksOf
  <2>6. CASE Crash
    <3>1. UNCHANGED <<runs, tasks, progress>>
      BY <2>6 DEF Crash, sqlVars
    <3> QED BY <3>1 DEF KeepsResumable, SQL!Running, SQL!TasksOf
  <2>7. CleanProgress \/ CleanTasks \/ CleanRuns \/ Crash
    BY DEF Next, Start, CreateRun, Resume, CompleteRun, Interrupted, UpdatePhase, CreateTask,
           ClearTransferProgress, StartJob, EndJob, UpdateTaskStatus, MarkTaskComplete,
           SaveProgress, Tick, CrashInSave
  <2> QED BY <2>3, <2>4, <2>5, <2>6, <2>7
<1>2. Spec => [][A]_vars
  BY <1>1, StateInvariant, PTL DEF Spec
<1> QED BY <1>2 DEF ResumableKept

LEMMA SameCardinality ==
  ASSUME NEW S
  PROVE  /\ SQL!Cardinality(S) = Cardinality(S)
         /\ OnDisk!Cardinality(S) = Cardinality(S)
         /\ File!Cardinality(S) = Cardinality(S)
BY DEF SQL!Cardinality, OnDisk!Cardinality, File!Cardinality, Cardinality

\* The latest run is listed by history: no run is later.
LEMMA LatestListed ==
  ASSUME NEW r \in DOMAIN runs, \A x \in DOMAIN runs : runs[x].started <= runs[r].started,
         \A x \in DOMAIN runs : runs[x].started \in Nat
  PROVE  [id |-> r, status |-> runs[r].status] \in SQL!GetAllRuns
<1>1. {y \in DOMAIN runs : runs[y].started > runs[r].started} = {}
  OBVIOUS
<1>2. Cardinality({y \in DOMAIN runs : runs[y].started > runs[r].started}) = 0
  BY <1>1, FS_EmptySet
<1>3. SQL!Cardinality({y \in DOMAIN runs : runs[y].started > runs[r].started}) < SQL!HistoryLimit
  BY <1>2, SameCardinality DEF SQL!HistoryLimit
<1> QED BY <1>3 DEF SQL!GetAllRuns

LEMMA SameRunOf ==
  ASSUME StateInv
  PROVE  SameRun
<1> SUFFICES ASSUME ~torn, disk.run \in DOMAIN runs
             PROVE  /\ OnDisk!GetAllRuns \subseteq SQL!GetAllRuns
                    /\ OnDisk!GetRunByID(disk.run) = SQL!GetRunByID(disk.run)
                    /\ disk.run \in FileRuns <=> disk.run \in SQL!Running
                    /\ disk.run \in FileRuns =>
                         runs[disk.run].phase = IF disk.phase = "" THEN "initializing"
                                                ELSE disk.phase
  BY DEF SameRun
<1> DEFINE r == disk.run
<1>1. disk # Corrupt
  BY DEF StateInv, ProcessInv
<1>2. /\ runs[r].status = disk.status
      /\ runs[r].phase = IF disk.phase = "" THEN "initializing" ELSE disk.phase
      /\ \A x \in DOMAIN runs : runs[x].started <= runs[r].started
  BY <1>1 DEF StateInv, FileRunInv
<1>3. \A x \in DOMAIN runs : runs[x].started \in Nat
  <2> TAKE x \in DOMAIN runs
  <2>1. runs[x] \in RunRow
    BY DEF StateInv, TypeOK, SQLTypeOK
  <2> QED BY <2>1 DEF RunRow
<1>4. [id |-> r, status |-> disk.status] \in SQL!GetAllRuns
  BY <1>2, <1>3, LatestListed
<1>5. r # NoRun
  <2>1. NoRun \notin 1 .. MaxStarts
    BY StateAssumption DEF StateAssumption
  <2>2. DOMAIN runs \subseteq 1 .. starts /\ 1 .. starts \subseteq 1 .. MaxStarts
    BY Numbers DEF StateInv, TypeOK, SQLTypeOK
  <2> QED BY <2>1, <2>2
<1>6. OnDisk!GetRunByID(r) = {[id |-> r, status |-> disk.status]}
  BY DEF OnDisk!GetRunByID
<1>7. OnDisk!GetAllRuns \subseteq SQL!GetAllRuns
  BY <1>4, <1>5, <1>6 DEF OnDisk!GetAllRuns
<1>8. SQL!GetRunByID(r) = {[id |-> r, status |-> disk.status]}
  BY <1>2 DEF SQL!GetRunByID
<1>9. r \in FileRuns <=> disk.status = "running"
  BY <1>1, <1>5 DEF FileRuns, OnDisk!LastIncompleteRuns
<1>10. r \in SQL!Running <=> disk.status = "running"
  BY <1>2 DEF SQL!Running
<1> QED BY <1>2, <1>6, <1>7, <1>8, <1>9, <1>10

\* A whole state file (checkpoint/filestate.go) and the database agree on what became of the
\* run, on whether it can be resumed and in which phase it is, and history shows the same of
\* it, whichever operations of which processes a crash has come between.
THEOREM BackendsHoldSameRun == Spec => []SameRun
<1>1. StateInv => SameRun
  BY SameRunOf
<1> QED BY <1>1, StateInvariant, PTL

(***************************************************************************)
(* The state file holds the first keys of the order.                       *)
(***************************************************************************)

LEMMA KeyOrderFacts ==
  /\ KeyOrder \in [1 .. Len(KeyOrder) -> TaskKeys] /\ Len(KeyOrder) \in Nat
  /\ \A k \in TaskKeys : \E i \in 1 .. Len(KeyOrder) : KeyOrder[i] = k
  /\ \A i, j \in 1 .. Len(KeyOrder) : KeyOrder[i] = KeyOrder[j] => i = j
<1> DEFINE n == Len(KeyOrder)
<1>1. /\ IsFiniteSet(TaskKeys) /\ KeyOrder \in Seq(TaskKeys)
      /\ n = Cardinality(TaskKeys) /\ {KeyOrder[i] : i \in DOMAIN KeyOrder} = TaskKeys
  BY StateAssumption DEF StateAssumption
<1>2. n \in Nat /\ DOMAIN KeyOrder = 1 .. n /\ KeyOrder \in [1 .. n -> TaskKeys]
  BY <1>1
<1> HIDE DEF n
<1>3. \A k \in TaskKeys : \E i \in 1 .. n : KeyOrder[i] = k
  BY <1>1, <1>2
<1>4. KeyOrder \in Surjection(1 .. n, TaskKeys)
  BY <1>2, <1>3 DEF Surjection
<1>5. IsFiniteSet(1 .. n) /\ Cardinality(1 .. n) = n
  <2>1. \A b \in Int : IsFiniteSet(1 .. b) /\ Cardinality(1 .. b) = IF 1 > b THEN 0 ELSE b - 1 + 1
    BY FS_Interval
  <2> QED BY <1>2, <2>1
<1>6. KeyOrder \in Injection(1 .. n, TaskKeys)
  BY <1>1, <1>4, <1>5, FS_Surjection
<1>7. \A i, j \in 1 .. n : KeyOrder[i] = KeyOrder[j] => i = j
  BY <1>2, <1>6 DEF Injection, IsInjective
<1> QED BY <1>2, <1>3, <1>7 DEF n

LEMMA FirstKeysFacts ==
  ASSUME NEW n \in 0 .. Len(KeyOrder)
  PROVE  /\ IsFiniteSet(FirstKeys(n)) /\ Cardinality(FirstKeys(n)) = n
         /\ FirstKeys(n) \subseteq TaskKeys
         /\ \A i \in 1 .. Len(KeyOrder) : KeyOrder[i] \in FirstKeys(n) <=> i <= n
<1>1. n \in Nat /\ 1 .. n \subseteq 1 .. Len(KeyOrder)
  BY KeyOrderFacts
<1>2. \A i \in 1 .. n : i \in 1 .. Len(KeyOrder) /\ KeyOrder[i] \in TaskKeys
  BY <1>1, KeyOrderFacts
<1>3. \A i, j \in 1 .. n : KeyOrder[i] = KeyOrder[j] => i = j
  BY <1>1, KeyOrderFacts
<1> DEFINE f == [i \in 1 .. n |-> KeyOrder[i]]
<1>4. /\ f \in [1 .. n -> FirstKeys(n)]
      /\ \A k \in FirstKeys(n) : \E i \in 1 .. n : f[i] = k
      /\ \A i, j \in 1 .. n : f[i] = f[j] => i = j
  BY <1>3 DEF FirstKeys
<1> HIDE DEF f
<1>5. ExistsBijection(1 .. n, FirstKeys(n))
  BY <1>4 DEF ExistsBijection, Bijection, Injection, IsInjective, Surjection
<1>6. IsFiniteSet(FirstKeys(n)) /\ Cardinality(FirstKeys(n)) = n
  BY <1>1, <1>5, FS_NatBijection, FS_CountingElements
<1>7. FirstKeys(n) \subseteq TaskKeys
  BY <1>2 DEF FirstKeys
<1>8. ASSUME NEW i \in 1 .. Len(KeyOrder)
      PROVE  KeyOrder[i] \in FirstKeys(n) <=> i <= n
  <2>1. ASSUME i <= n PROVE KeyOrder[i] \in FirstKeys(n)
    <3>1. i \in 1 .. n
      BY <1>1, <2>1
    <3> QED BY <3>1 DEF FirstKeys
  <2>2. ASSUME KeyOrder[i] \in FirstKeys(n) PROVE i <= n
    <3>1. PICK j \in 1 .. n : KeyOrder[i] = KeyOrder[j]
      BY <2>2 DEF FirstKeys
    <3>2. j \in 1 .. Len(KeyOrder)
      BY <1>2
    <3>3. i = j
      BY <3>1, <3>2, KeyOrderFacts
    <3> QED BY <1>1, <3>3
  <2> QED BY <2>1, <2>2
<1> QED BY <1>6, <1>7, <1>8

LEMMA IdsKept ==
  ASSUME FileIdsInv, disk # Corrupt, DOMAIN disk'.tables = DOMAIN disk.tables,
         \A k \in DOMAIN disk.tables : disk'.tables[k].id = disk.tables[k].id
  PROVE  FileIdsInv'
<1>1. PICK n \in 0 .. Len(KeyOrder) :
        /\ DOMAIN disk.tables = FirstKeys(n)
        /\ \A i \in 1 .. n : disk.tables[KeyOrder[i]].id = File!FirstTaskID + i
  BY DEF FileIdsInv
<1>2. \A i \in 1 .. n : KeyOrder[i] \in FirstKeys(n)
  BY DEF FirstKeys
<1>3. \A i \in 1 .. n : disk'.tables[KeyOrder[i]].id = File!FirstTaskID + i
  BY <1>1, <1>2
<1>4. DOMAIN disk'.tables = FirstKeys(n)
  BY <1>1
<1> QED BY <1>3, <1>4 DEF FileIdsInv, File!FirstTaskID

\* No two tables of the file have the same id.
LEMMA OneTableOfId ==
  ASSUME FileIdsInv, disk # Corrupt, NEW k \in DOMAIN disk.tables, NEW x \in DOMAIN disk.tables,
         disk.tables[x].id = disk.tables[k].id
  PROVE  x = k
<1>1. PICK n \in 0 .. Len(KeyOrder) :
        /\ DOMAIN disk.tables = FirstKeys(n)
        /\ \A i \in 1 .. n : disk.tables[KeyOrder[i]].id = 1000 + i
  BY DEF FileIdsInv, File!FirstTaskID
<1>2. PICK i \in 1 .. n : k = KeyOrder[i]
  BY <1>1 DEF FirstKeys
<1>3. PICK j \in 1 .. n : x = KeyOrder[j]
  BY <1>1 DEF FirstKeys
<1>4. 1000 + i = 1000 + j
  BY <1>1, <1>2, <1>3
<1>5. i = j
  BY <1>4
<1> QED BY <1>2, <1>3, <1>5

\* The file finds by the id of a task the table of the task, and no other.
LEMMA FoundTable ==
  ASSUME StateInv, ResumeInv, InRun, NEW k \in TaskKeys, st[k] # "none"
  PROVE  /\ \A key \in File!KeysWithID(id[k].file) : key = k
         /\ k \in File!Keys /\ File!Keys = DOMAIN disk.tables
         /\ id[k].sql \in DOMAIN tasks
         /\ tasks[id[k].sql].run = cur /\ tasks[id[k].sql].key = k
         /\ mem = disk /\ disk # Corrupt /\ disk.run = cur /\ disk.status = "running"
<1>1. /\ k \in File!Keys /\ id[k].sql \in DOMAIN tasks
      /\ tasks[id[k].sql].run = cur /\ tasks[id[k].sql].key = k
  BY DEF StateInv, NamedInv
<1>2. mem = disk /\ disk # Corrupt /\ mem.run = cur /\ mem.status = "running"
  BY CurFacts
<1>3. mem.tables[k].id = id[k].file
  BY DEF ResumeInv, TaskInv
<1>4. \A key \in File!KeysWithID(id[k].file) :
        key \in DOMAIN disk.tables /\ disk.tables[key].id = disk.tables[k].id
  BY <1>2, <1>3 DEF File!KeysWithID, File!Keys
<1>5. \A key \in File!KeysWithID(id[k].file) : key = k
  BY <1>1, <1>2, <1>4, OneTableOfId DEF ResumeInv, File!Keys
<1> QED BY <1>1, <1>2, <1>5 DEF File!Keys

LEMMA GranularityNext ==
  ASSUME (disk' # Corrupt /\ disk'.status = "running") =>
           /\ \A k \in DOMAIN disk'.tables :
                \E t \in DOMAIN tasks' :
                  /\ tasks'[t].run = disk'.run /\ tasks'[t].key = k
                  /\ disk'.tables[k].status = "success" => tasks'[t].status = "success"
                  /\ \/ disk'.tables[k].pk = NoPK
                     \/ t \in DOMAIN progress' /\ disk'.tables[k].pk <= progress'[t].pk
           /\ ~torn' =>
                \A t \in DOMAIN tasks' : tasks'[t].run = disk'.run =>
                  /\ tasks'[t].key \in DOMAIN disk'.tables
                  /\ disk'.tables[tasks'[t].key].status = "success" => tasks'[t].status = "success"
                  /\ (tasks'[t].status = "success" /\ disk'.tables[tasks'[t].key].status # "success")
                       => t \notin DOMAIN progress'
                  /\ t \in DOMAIN progress' =>
                       /\ disk'.tables[tasks'[t].key].pk = progress'[t].pk
                       /\ disk'.tables[tasks'[t].key].rows = progress'[t].rows
                  /\ t \notin DOMAIN progress' =>
                       /\ disk'.tables[tasks'[t].key].pk = NoPK
                       /\ disk'.tables[tasks'[t].key].rows = 0
  PROVE  GranularityInv'
BY DEF GranularityInv, Behind, Level

\* What is level stays so when neither the file nor the tasks of its run change.
LEMMA GranularityKept ==
  ASSUME GranularityInv, disk' = disk, torn' = torn,
         (disk # Corrupt /\ disk.status = "running") =>
           /\ \A t \in DOMAIN tasks : tasks[t].run = disk.run =>
                /\ t \in DOMAIN tasks' /\ tasks'[t] = tasks[t]
                /\ t \in DOMAIN progress' <=> t \in DOMAIN progress
                /\ t \in DOMAIN progress => progress'[t] = progress[t]
           /\ \A t \in DOMAIN tasks' :
                tasks'[t].run = disk.run => t \in DOMAIN tasks /\ tasks[t].run = disk.run
  PROVE  GranularityInv'
<1> SUFFICES ASSUME disk # Corrupt, disk.status = "running"
             PROVE  /\ \A k \in DOMAIN disk.tables :
                         \E t \in DOMAIN tasks' :
                           /\ tasks'[t].run = disk.run /\ tasks'[t].key = k
                           /\ disk.tables[k].status = "success" => tasks'[t].status = "success"
                           /\ \/ disk.tables[k].pk = NoPK
                              \/ t \in DOMAIN progress' /\ disk.tables[k].pk <= progress'[t].pk
                    /\ ~torn =>
                         \A t \in DOMAIN tasks' : tasks'[t].run = disk.run =>
                           /\ tasks'[t].key \in DOMAIN disk.tables
                           /\ disk.tables[tasks'[t].key].status = "success"
                                => tasks'[t].status = "success"
                           /\ /\ tasks'[t].status = "success"
                              /\ disk.tables[tasks'[t].key].status # "success"
                              => t \notin DOMAIN progress'
                           /\ t \in DOMAIN progress' =>
                                /\ disk.tables[tasks'[t].key].pk = progress'[t].pk
                                /\ disk.tables[tasks'[t].key].rows = progress'[t].rows
                           /\ t \notin DOMAIN progress' =>
                                /\ disk.tables[tasks'[t].key].pk = NoPK
                                /\ disk.tables[tasks'[t].key].rows = 0
  BY DEF GranularityInv, Behind, Level
<1>1. ASSUME NEW k \in DOMAIN disk.tables
      PROVE  \E t \in DOMAIN tasks' :
               /\ tasks'[t].run = disk.run /\ tasks'[t].key = k
               /\ disk.tables[k].status = "success" => tasks'[t].status = "success"
               /\ \/ disk.tables[k].pk = NoPK
                  \/ t \in DOMAIN progress' /\ disk.tables[k].pk <= progress'[t].pk
  <2>1. PICK t \in DOMAIN tasks : /\ tasks[t].run = disk.run /\ tasks[t].key = k
                                  /\ Behind(disk.tables[k], t)
    BY DEF GranularityInv
  <2>2. /\ t \in DOMAIN tasks' /\ tasks'[t] = tasks[t]
        /\ t \in DOMAIN progress' <=> t \in DOMAIN progress
        /\ t \in DOMAIN progress => progress'[t] = progress[t]
    BY <2>1
  <2> QED BY <2>1, <2>2 DEF Behind
<1>2. ASSUME ~torn, NEW t \in DOMAIN tasks', tasks'[t].run = disk.run
      PROVE  /\ tasks'[t].key \in DOMAIN disk.tables
             /\ disk.tables[tasks'[t].key].status = "success" => tasks'[t].status = "success"
             /\ (tasks'[t].status = "success" /\ disk.tables[tasks'[t].key].status # "success")
                  => t \notin DOMAIN progress'
             /\ t \in DOMAIN progress' =>
                  /\ disk.tables[tasks'[t].key].pk = progress'[t].pk
                  /\ disk.tables[tasks'[t].key].rows = progress'[t].rows
             /\ t \notin DOMAIN progress' =>
                  disk.tables[tasks'[t].key].pk = NoPK /\ disk.tables[tasks'[t].key].rows = 0
  <2>1. t \in DOMAIN tasks /\ tasks[t].run = disk.run
    BY <1>2
  <2>3. \A u \in DOMAIN tasks : tasks[u].run = disk.run =>
          /\ tasks'[u] = tasks[u]
          /\ u \in DOMAIN progress' <=> u \in DOMAIN progress
          /\ u \in DOMAIN progress => progress'[u] = progress[u]
    OBVIOUS
  <2>4. /\ tasks[t].key \in DOMAIN disk.tables
        /\ Level(disk.tables[tasks[t].key], t)
    BY <1>2, <2>1 DEF GranularityInv
  <2> QED BY <2>1, <2>3, <2>4 DEF Level
<1> QED BY <1>1, <1>2

\* MarkRunAsResumed in both backends.
LEMMA GranularityResumed ==
  ASSUME GranularityInv, mem = disk, disk # Corrupt, IsContents(mem),
         disk' = File!MarkRunAsResumed, torn' = torn, StatusOnly,
         \A t \in DOMAIN tasks : tasks'[t].status = "success" <=> tasks[t].status = "success"
  PROVE  GranularityInv'
<1>1. /\ disk'.run = disk.run /\ disk'.status = disk.status
      /\ DOMAIN disk'.tables = DOMAIN disk.tables
      /\ \A k \in DOMAIN disk.tables :
           /\ disk'.tables[k].status = "success" <=> disk.tables[k].status = "success"
           /\ disk'.tables[k].pk = disk.tables[k].pk /\ disk'.tables[k].rows = disk.tables[k].rows
  BY ResumedFacts DEF File!Keys
<1>2. /\ DOMAIN tasks' = DOMAIN tasks /\ progress' = progress
      /\ \A t \in DOMAIN tasks : tasks'[t].run = tasks[t].run /\ tasks'[t].key = tasks[t].key
  BY DEF StatusOnly
<1>3. ASSUME disk.status = "running", NEW k \in DOMAIN disk.tables
      PROVE  \E t \in DOMAIN tasks' :
               /\ tasks'[t].run = disk'.run /\ tasks'[t].key = k
               /\ disk'.tables[k].status = "success" => tasks'[t].status = "success"
               /\ \/ disk'.tables[k].pk = NoPK
                  \/ t \in DOMAIN progress' /\ disk'.tables[k].pk <= progress'[t].pk
  <2>1. PICK t \in DOMAIN tasks : /\ tasks[t].run = disk.run /\ tasks[t].key = k
                                  /\ Behind(disk.tables[k], t)
    BY <1>3 DEF GranularityInv
  <2> QED BY <1>1, <1>2, <2>1 DEF Behind
<1>4. ASSUME disk.status = "running", ~torn, NEW t \in DOMAIN tasks, tasks[t].run = disk.run
      PROVE  /\ tasks[t].key \in DOMAIN disk.tables
             /\ disk'.tables[tasks[t].key].status = "success" => tasks'[t].status = "success"
             /\ (tasks'[t].status = "success" /\ disk'.tables[tasks[t].key].status # "success")
                  => t \notin DOMAIN progress
             /\ t \in DOMAIN progress =>
                  /\ disk'.tables[tasks[t].key].pk = progress[t].pk
                  /\ disk'.tables[tasks[t].key].rows = progress[t].rows
             /\ t \notin DOMAIN progress =>
                  disk'.tables[tasks[t].key].pk = NoPK /\ disk'.tables[tasks[t].key].rows = 0
  <2>1. tasks[t].key \in DOMAIN disk.tables /\ Level(disk.tables[tasks[t].key], t)
    BY <1>4 DEF GranularityInv
  <2> QED BY <1>1, <2>1 DEF Level
<1> QED BY <1>1, <1>2, <1>3, <1>4, GranularityNext

\* A step that changes the row of one table and what the database has of its task.
LEMMA GranularityOneRow ==
  ASSUME StateInv, ResumeInv, NEW k, NEW t \in DOMAIN tasks, NEW row,
         mem = disk, disk # Corrupt, tasks[t].run = disk.run, tasks[t].key = k,
         k \in File!Keys,
         RowIs(mem', k, row), disk' = mem', torn' = torn,
         StatusOnly \/ UNCHANGED tasks,
         \A u \in DOMAIN tasks \ {t} : tasks'[u].status = tasks[u].status,
         \A u \in DOMAIN tasks \ {t} :
           /\ u \in DOMAIN progress' <=> u \in DOMAIN progress
           /\ u \in DOMAIN progress => progress'[u] = progress[u],
         row.status = "success" => tasks'[t].status = "success",
         row.pk = NoPK \/ (t \in DOMAIN progress' /\ row.pk <= progress'[t].pk),
         (disk.status = "running" /\ ~torn) =>
           /\ (tasks'[t].status = "success" /\ row.status # "success") => t \notin DOMAIN progress'
           /\ t \in DOMAIN progress' => row.pk = progress'[t].pk /\ row.rows = progress'[t].rows
           /\ t \notin DOMAIN progress' => row.pk = NoPK /\ row.rows = 0
  PROVE  GranularityInv'
<1>1. /\ disk'.run = disk.run /\ disk'.status = disk.status
      /\ DOMAIN disk'.tables = DOMAIN disk.tables
      /\ disk'.tables[k] = row
      /\ \A x \in DOMAIN disk.tables \ {k} : disk'.tables[x] = disk.tables[x]
  <2>1. DOMAIN mem'.tables = File!Keys
    BY DEF RowIs
  <2> QED BY <2>1 DEF RowIs, File!Keys
<1>2. /\ DOMAIN tasks' = DOMAIN tasks
      /\ \A u \in DOMAIN tasks : tasks'[u].run = tasks[u].run /\ tasks'[u].key = tasks[u].key
  BY DEF StatusOnly
<1>3. \A u \in DOMAIN tasks : tasks[u].run = disk.run /\ tasks[u].key = k => u = t
  BY DEF ResumeInv, TaskInv
<1>4. ASSUME disk.status = "running", NEW x \in DOMAIN disk.tables
      PROVE  \E u \in DOMAIN tasks' :
               /\ tasks'[u].run = disk'.run /\ tasks'[u].key = x
               /\ disk'.tables[x].status = "success" => tasks'[u].status = "success"
               /\ \/ disk'.tables[x].pk = NoPK
                  \/ u \in DOMAIN progress' /\ disk'.tables[x].pk <= progress'[u].pk
  <2>1. CASE x = k
    BY <1>1, <1>2, <2>1
  <2>2. CASE x # k
    <3>1. PICK u \in DOMAIN tasks : /\ tasks[u].run = disk.run /\ tasks[u].key = x
                                    /\ Behind(disk.tables[x], u)
      BY <1>4 DEF ResumeInv, GranularityInv
    <3>2. u # t /\ disk'.tables[x] = disk.tables[x]
      BY <1>1, <2>2, <3>1
    <3> QED BY <1>1, <1>2, <3>1, <3>2 DEF Behind
  <2> QED BY <2>1, <2>2
<1>5. ASSUME disk.status = "running", ~torn, NEW u \in DOMAIN tasks, tasks[u].run = disk.run
      PROVE  /\ tasks[u].key \in DOMAIN disk.tables
             /\ disk'.tables[tasks[u].key].status = "success" => tasks'[u].status = "success"
             /\ (tasks'[u].status = "success" /\ disk'.tables[tasks[u].key].status # "success")
                  => u \notin DOMAIN progress'
             /\ u \in DOMAIN progress' =>
                  /\ disk'.tables[tasks[u].key].pk = progress'[u].pk
                  /\ disk'.tables[tasks[u].key].rows = progress'[u].rows
             /\ u \notin DOMAIN progress' =>
                  disk'.tables[tasks[u].key].pk = NoPK /\ disk'.tables[tasks[u].key].rows = 0
  <2>1. CASE u = t
    BY <1>1, <1>5, <2>1 DEF File!Keys
  <2>2. CASE u # t
    <3>1. tasks[u].key \in DOMAIN disk.tables /\ Level(disk.tables[tasks[u].key], u)
      BY <1>5 DEF ResumeInv, GranularityInv
    <3>2. tasks[u].key # k
      BY <1>3, <1>5, <2>2
    <3>3. disk'.tables[tasks[u].key] = disk.tables[tasks[u].key]
      BY <1>1, <3>1, <3>2
    <3> QED BY <2>2, <3>1, <3>3 DEF Level
  <2> QED BY <2>1, <2>2
<1> QED BY <1>1, <1>2, <1>4, <1>5, GranularityNext

\* Between two runs, a step that changes neither the file nor the tasks of its run.
LEMMA IdleKeepsResume ==
  ASSUME StateInv, ResumeInv, disk' = disk, torn' = torn,
         \A t \in DOMAIN tasks' : t \in DOMAIN tasks /\ tasks'[t] = tasks[t],
         (disk # Corrupt /\ disk.status = "running") =>
           \A t \in DOMAIN tasks : tasks[t].run = disk.run =>
             /\ t \in DOMAIN tasks'
             /\ t \in DOMAIN progress' <=> t \in DOMAIN progress
             /\ t \in DOMAIN progress => progress'[t] = progress[t],
         \A k \in TaskKeys : st'[k] = "none"
  PROVE  ResumeInv'
<1>1. FileIdsInv'
  BY DEF ResumeInv, FileIdsInv, File!FirstTaskID
<1>2. TaskInv'
  BY DEF ResumeInv, TaskInv
<1>3. GranularityInv'
  <2>1. GranularityInv
    BY DEF ResumeInv
  <2>2. \A t \in DOMAIN tasks' : tasks'[t].run = disk.run => t \in DOMAIN tasks /\ tasks[t].run = disk.run
    OBVIOUS
  <2>3. (disk # Corrupt /\ disk.status = "running") =>
          \A t \in DOMAIN tasks : tasks[t].run = disk.run =>
            /\ t \in DOMAIN tasks' /\ tasks'[t] = tasks[t]
            /\ t \in DOMAIN progress' <=> t \in DOMAIN progress
            /\ t \in DOMAIN progress => progress'[t] = progress[t]
    OBVIOUS
  <2> QED BY <2>1, <2>2, <2>3, GranularityKept
<1> QED BY <1>1, <1>2, <1>3 DEF ResumeInv

\* The run of the file is not old as long as it may be resumed, nor are its tasks.
LEMMA NotOld ==
  ASSUME StateInv, disk # Corrupt, disk.status = "running",
         NEW t \in DOMAIN tasks, tasks[t].run = disk.run
  PROVE  t \notin SQL!OldTasks(cutoff)
<1>1. disk.run \in DOMAIN runs /\ runs[disk.run].status = "running"
  BY DEF StateInv, FileRunInv
<1>2. disk.run \notin SQL!OldRuns(cutoff)
  BY <1>1 DEF SQL!OldRuns
<1> QED BY <1>2 DEF SQL!OldTasks

LEMMA IdleResume ==
  ASSUME StateInv, ResumeInv,
         Start \/ CleanProgress \/ CleanTasks \/ CleanRuns \/ Tick \/ Crash
  PROVE  ResumeInv'
<1>1. CASE Start \/ CleanRuns \/ Tick \/ Crash
  <2>1. UNCHANGED <<disk, tasks, progress, torn>>
    BY <1>1 DEF Start, File!Load, CleanRuns, SQL!DeleteOldRuns, Tick, Crash, sqlVars, fileVars, env
  <2>2. \A k \in TaskKeys : st'[k] = "none"
    <3>1. CASE Crash
      BY <3>1 DEF Crash, Forget
    <3>2. CASE ~Crash
      <4>1. ~InRun /\ st' = st
        BY <1>1, <3>2 DEF Start, CleanRuns, Goto, Tick, process, InRun
      <4> QED BY <4>1 DEF StateInv, ProcessInv
    <3> QED BY <3>1, <3>2
  <2> QED BY <2>1, <2>2, IdleKeepsResume
<1>2. CASE CleanProgress
  <2>1. /\ progress' = SQL!Without(progress, SQL!OldTasks(cutoff))
        /\ UNCHANGED <<disk, tasks, torn, st>> /\ ~InRun
    BY <1>2 DEF CleanProgress, SQL!DeleteOldProgress, Goto, fileVars, env, InRun
  <2>2. /\ DOMAIN progress' = DOMAIN progress \ SQL!OldTasks(cutoff)
        /\ \A t \in DOMAIN progress' : progress'[t] = progress[t]
    BY <2>1 DEF SQL!Without
  <2>3. \A k \in TaskKeys : st'[k] = "none"
    BY <2>1 DEF StateInv, ProcessInv
  <2>4. (disk # Corrupt /\ disk.status = "running") =>
          \A t \in DOMAIN tasks : tasks[t].run = disk.run => t \notin SQL!OldTasks(cutoff)
    BY NotOld
  <2> QED BY <2>1, <2>2, <2>3, <2>4, IdleKeepsResume
<1>3. CASE CleanTasks
  <2>1. /\ tasks' = SQL!Without(tasks, SQL!OldTasks(cutoff))
        /\ UNCHANGED <<disk, progress, torn, st>> /\ ~InRun
    BY <1>3 DEF CleanTasks, SQL!DeleteOldTasks, Goto, fileVars, env, InRun
  <2>2. /\ DOMAIN tasks' = DOMAIN tasks \ SQL!OldTasks(cutoff)
        /\ \A t \in DOMAIN tasks' : tasks'[t] = tasks[t]
    BY <2>1 DEF SQL!Without
  <2>3. \A k \in TaskKeys : st'[k] = "none"
    BY <2>1 DEF StateInv, ProcessInv
  <2>4. (disk # Corrupt /\ disk.status = "running") =>
          \A t \in DOMAIN tasks : tasks[t].run = disk.run => t \notin SQL!OldTasks(cutoff)
    BY NotOld
  <2> QED BY <2>1, <2>2, <2>3, <2>4, IdleKeepsResume
<1> QED BY <1>1, <1>2, <1>3

LEMMA CreateRunResume ==
  ASSUME StateInv, ResumeInv, CreateRun
  PROVE  ResumeInv'
<1>1. /\ proc = "ready" /\ starts \notin DOMAIN runs
      /\ disk' = File!CreateRun(starts)
      /\ UNCHANGED <<tasks, progress, st, torn>>
  BY DEF CreateRun, SQL!CreateRun, Write, File!Saved, env
<1>2. starts \in 1 .. MaxStarts
  BY <1>1, MemoryIsFile
<1>3. disk'.run = starts /\ DOMAIN disk'.tables = {}
  BY <1>1, <1>2, EmptyFacts
<1>4. \A t \in DOMAIN tasks : tasks[t].run # starts
  BY <1>1 DEF StateInv, NoOrphans
<1>5. FileIdsInv'
  <2>1. 0 \in 0 .. Len(KeyOrder) /\ FirstKeys(0) = {} /\ \A i \in 1 .. 0 : FALSE
    BY KeyOrderFacts DEF FirstKeys
  <2> QED BY <1>3, <2>1 DEF FileIdsInv
<1>6. TaskInv'
  <2>1. \A k \in TaskKeys : st[k] = "none"
    BY <1>1 DEF StateInv, ProcessInv, InRun
  <2> QED BY <1>1, <2>1 DEF ResumeInv, TaskInv
<1>7. GranularityInv'
  BY <1>1, <1>3, <1>4, GranularityNext
<1> QED BY <1>5, <1>6, <1>7 DEF ResumeInv

LEMMA ResumedIds ==
  ASSUME FileIdsInv, mem = disk, disk # Corrupt, IsContents(mem), disk' = File!MarkRunAsResumed
  PROVE  FileIdsInv'
BY ResumedFacts, IdsKept DEF File!Keys

LEMMA ResumeResume ==
  ASSUME StateInv, ResumeInv, NEW r \in 1 .. MaxStarts, Resume(r)
  PROVE  ResumeInv'
<1>1. proc = "ready" /\ torn' = torn
  BY DEF Resume, env
<1>2. mem = disk /\ disk # Corrupt /\ IsContents(mem)
  BY <1>1, MemoryIsFile
<1>3. \A k \in TaskKeys : st[k] = "none"
  BY <1>1 DEF StateInv, ProcessInv, InRun
<1>4. CASE SQL!HasSuccessfulRunAfter(r)
  <2>1. UNCHANGED <<disk, tasks, progress>> /\ st' = [k \in TaskKeys |-> "none"]
    BY <1>4 DEF Resume, SQL!CompleteRun, Forget
  <2> QED BY <1>1, <2>1, IdleKeepsResume
<1>5. CASE ~SQL!HasSuccessfulRunAfter(r)
  <2>1. disk' = File!MarkRunAsResumed /\ SQL!MarkRunAsResumed(r) /\ st' = st
    BY <1>5 DEF Resume, Write, File!Saved
  <2>2. /\ StatusOnly
        /\ \A t \in DOMAIN tasks : tasks'[t].status = "success" <=> tasks[t].status = "success"
    BY <2>1, SQLMarkRunAsResumed DEF StateInv, TypeOK
  <2>3. FileIdsInv'
    BY <1>2, <2>1, ResumedIds DEF ResumeInv
  <2>4. TaskInv'
    BY <1>3, <2>1, <2>2 DEF StatusOnly, ResumeInv, TaskInv
  <2>5. GranularityInv'
    BY <1>1, <1>2, <2>1, <2>2, GranularityResumed DEF ResumeInv
  <2> QED BY <2>3, <2>4, <2>5 DEF ResumeInv
<1> QED BY <1>4, <1>5

LEMMA EndRunResume ==
  ASSUME StateInv, ResumeInv,
         Interrupted \/ \E status \in {"success", "failed", "partial"} : CompleteRun(status)
  PROVE  ResumeInv'
<1>1. InRun /\ st' = [k \in TaskKeys |-> "none"] /\ torn' = torn
  BY DEF Interrupted, CompleteRun, Forget, InRun, env
<1>2. mem = disk /\ disk # Corrupt /\ IsContents(mem)
  BY <1>1, CurFacts
<1>3. CASE Interrupted
  <2>1. disk' = File!MarkRunAsResumed /\ SQL!MarkRunAsResumed(cur)
    BY <1>3 DEF Interrupted, WriteLast
  <2>2. /\ StatusOnly
        /\ \A t \in DOMAIN tasks : tasks'[t].status = "success" <=> tasks[t].status = "success"
    BY <2>1, SQLMarkRunAsResumed DEF StateInv, TypeOK
  <2>3. FileIdsInv'
    BY <1>2, <2>1, ResumedIds DEF ResumeInv
  <2>4. TaskInv'
    BY <1>1, <2>2 DEF StatusOnly, ResumeInv, TaskInv
  <2>5. GranularityInv'
    BY <1>1, <1>2, <2>1, <2>2, GranularityResumed DEF ResumeInv
  <2> QED BY <2>3, <2>4, <2>5 DEF ResumeInv
<1>4. ASSUME NEW status \in {"success", "failed", "partial"}, CompleteRun(status)
      PROVE  ResumeInv'
  <2>1. disk' = File!CompleteRun(status) /\ UNCHANGED <<tasks, progress>>
    BY <1>4 DEF CompleteRun, WriteLast, SQL!CompleteRun
  <2>2. status \in RunStatuses /\ status # "running"
    BY DEF RunStatuses
  <2>3. disk'.status = status /\ disk'.tables = disk.tables
    BY <1>2, <2>1, <2>2, RunFieldsFacts
  <2>4. FileIdsInv'
    BY <1>2, <2>3, IdsKept DEF ResumeInv
  <2>5. TaskInv'
    BY <1>1, <2>1 DEF ResumeInv, TaskInv
  <2>6. GranularityInv'
    BY <2>2, <2>3, GranularityNext
  <2> QED BY <2>4, <2>5, <2>6 DEF ResumeInv
<1> QED BY <1>3, <1>4

\* An operation on a task keeps the keys and the ids.
LEMMA OneRowIds ==
  ASSUME StateInv, ResumeInv, InRun, StatusOnly \/ UNCHANGED tasks, id' = id,
         NEW k \in File!Keys, NEW row, RowIs(mem', k, row), disk' = mem',
         row.id = mem.tables[k].id,
         \A x \in TaskKeys : st[x] = "none" => st'[x] = "none",
         \A x \in TaskKeys : st'[x] = "running" => tasks'[id[x].sql].status # "success"
  PROVE  FileIdsInv' /\ TaskInv'
<1>1. mem = disk /\ disk # Corrupt
  BY CurFacts
<1>2. /\ DOMAIN mem'.tables = DOMAIN mem.tables
      /\ \A x \in DOMAIN mem.tables : mem'.tables[x].id = mem.tables[x].id
  <2>1. DOMAIN mem'.tables = File!Keys
    BY DEF RowIs
  <2>2. /\ mem'.tables[k] = row
        /\ \A x \in File!Keys \ {k} : mem'.tables[x] = mem.tables[x]
    BY DEF RowIs
  <2> QED BY <2>1, <2>2 DEF File!Keys
<1>3. FileIdsInv'
  BY <1>1, <1>2, IdsKept DEF ResumeInv
<1>4. \A t, u \in DOMAIN tasks' :
        tasks'[t].run = tasks'[u].run /\ tasks'[t].key = tasks'[u].key => t = u
  <2>1. /\ DOMAIN tasks' = DOMAIN tasks
        /\ \A t \in DOMAIN tasks : tasks'[t].run = tasks[t].run /\ tasks'[t].key = tasks[t].key
    BY DEF StatusOnly
  <2> QED BY <2>1 DEF ResumeInv, TaskInv
<1>5. ASSUME NEW x \in TaskKeys, st'[x] # "none"
      PROVE  mem'.tables[x].id = id'[x].file
  <2>1. st[x] # "none"
    BY <1>5
  <2>2. mem.tables[x].id = id[x].file /\ x \in DOMAIN mem.tables
    BY <2>1 DEF ResumeInv, TaskInv, StateInv, NamedInv, File!Keys
  <2> QED BY <1>2, <2>2
<1>6. TaskInv'
  BY <1>4, <1>5 DEF TaskInv
<1> QED BY <1>3, <1>6

\* The tasks of two keys are two.
LEMMA TwoTasks ==
  ASSUME StateInv, NEW k \in TaskKeys, NEW x \in TaskKeys, st[k] # "none", st[x] # "none",
         id[x].sql = id[k].sql
  PROVE  x = k
BY DEF StateInv, NamedInv

LEMMA ClearResume ==
  ASSUME StateInv, ResumeInv, NEW k \in TaskKeys, ClearTransferProgress(k)
  PROVE  ResumeInv'
<1> DEFINE row == [mem.tables[k] EXCEPT !.pk = NoPK, !.rows = 0, !.total = 0, !.status = "pending"]
           t == id[k].sql
<1>1. /\ InRun /\ st[k] = "new" /\ TaskOp
      /\ progress' = SQL!Without(progress, {t})
      /\ UNCHANGED <<runs, tasks, nextTask, id, st>>
  BY ClearParts
<1>2. /\ \A key \in File!KeysWithID(id[k].file) : key = k
      /\ k \in File!Keys /\ t \in DOMAIN tasks /\ tasks[t].run = disk.run /\ tasks[t].key = k
      /\ mem = disk /\ disk # Corrupt
  BY <1>1, FoundTable
<1>3. RowIs(mem', k, row) /\ disk' = mem'
  <2>1. PICK key \in File!KeysWithID(id[k].file) :
          /\ RowIs(mem', key, [mem.tables[key] EXCEPT !.pk = NoPK, !.rows = 0, !.total = 0,
                                                      !.status = "pending"])
          /\ disk' = mem'
    BY ClearParts
  <2> QED BY <1>2, <2>1
<1>4. row.id = mem.tables[k].id /\ row.pk = NoPK /\ row.rows = 0 /\ row.status = "pending"
  <2>1. mem.tables[k] \in FileRow
    BY <1>1, <1>2, RowOfKey, CurFacts
  <2> QED BY <2>1 DEF FileRow
<1>5. torn' = torn
  BY <1>1 DEF TaskOp
<1>6. /\ t \notin DOMAIN progress'
      /\ \A u \in DOMAIN tasks \ {t} :
           /\ u \in DOMAIN progress' <=> u \in DOMAIN progress
           /\ u \in DOMAIN progress => progress'[u] = progress[u]
  BY <1>1 DEF SQL!Without
<1> HIDE DEF row, t
<1>8. GranularityInv'
  BY <1>1, <1>2, <1>3, <1>4, <1>5, <1>6, GranularityOneRow
<1>9. \A x \in TaskKeys : st'[x] = "running" => tasks'[id[x].sql].status # "success"
  BY <1>1 DEF ResumeInv, TaskInv
<1>10. FileIdsInv' /\ TaskInv'
  BY <1>1, <1>2, <1>3, <1>4, <1>9, OneRowIds
<1> QED BY <1>8, <1>10 DEF ResumeInv

LEMMA UpdateResume ==
  ASSUME StateInv, ResumeInv, NEW k \in TaskKeys, NEW from \in {"new", "running"},
         NEW to \in {"running", "success", "failed"}, UpdateTaskStatus(k, from, to)
  PROVE  ResumeInv'
<1> DEFINE row == [mem.tables[k] EXCEPT !.status = to]
           t == id[k].sql
<1>1. /\ InRun /\ st[k] = from /\ TaskOp
      /\ SQL!UpdateTaskStatus(t, to)
      /\ st' = [st EXCEPT ![k] = to] /\ id' = id
  BY UpdateParts
<1>2. /\ \A key \in File!KeysWithID(id[k].file) : key = k
      /\ k \in File!Keys /\ t \in DOMAIN tasks /\ tasks[t].run = disk.run /\ tasks[t].key = k
      /\ mem = disk /\ disk # Corrupt /\ disk.status = "running"
  BY <1>1, FoundTable
<1>3. RowIs(mem', k, row) /\ disk' = mem'
  <2>1. PICK key \in File!KeysWithID(id[k].file) :
          RowIs(mem', key, [mem.tables[key] EXCEPT !.status = to]) /\ disk' = mem'
    BY UpdateParts
  <2> QED BY <1>2, <2>1
<1>4. /\ row.id = mem.tables[k].id /\ row.status = to
      /\ row.pk = mem.tables[k].pk /\ row.rows = mem.tables[k].rows
  <2>1. mem.tables[k] \in FileRow
    BY <1>1, <1>2, RowOfKey, CurFacts
  <2> QED BY <2>1 DEF FileRow
<1>5. torn' = torn
  BY <1>1 DEF TaskOp
<1>6. /\ StatusOnly /\ tasks'[t].status = to
      /\ \A u \in DOMAIN tasks \ {t} : tasks'[u] = tasks[u]
  BY <1>1, <1>2, SQLUpdateTaskStatus DEF StateInv, TypeOK, Statuses
<1>7. progress' = progress
  BY <1>6 DEF StatusOnly
<1>8. row.pk = NoPK \/ (t \in DOMAIN progress /\ row.pk <= progress[t].pk)
  <2>1. PICK u \in DOMAIN tasks : /\ tasks[u].run = disk.run /\ tasks[u].key = k
                                  /\ Behind(disk.tables[k], u)
    BY <1>2 DEF ResumeInv, GranularityInv, File!Keys
  <2>2. u = t
    BY <1>2, <2>1 DEF ResumeInv, TaskInv
  <2> QED BY <1>2, <1>4, <2>1, <2>2 DEF Behind
<1>9. ~torn =>
        /\ t \in DOMAIN progress => row.pk = progress[t].pk /\ row.rows = progress[t].rows
        /\ t \notin DOMAIN progress => row.pk = NoPK /\ row.rows = 0
  <2>1. ~torn => Level(disk.tables[k], t)
    BY <1>2 DEF ResumeInv, GranularityInv
  <2> QED BY <1>2, <1>4, <2>1 DEF Level
<1> HIDE DEF row
<1>10. GranularityInv'
  <2> HIDE DEF t
  <2>1. \A u \in DOMAIN tasks \ {t} : tasks'[u].status = tasks[u].status
    BY <1>6
  <2>2. row.status = tasks'[t].status
    BY <1>4, <1>6
  <2> QED BY <1>2, <1>3, <1>5, <1>6, <1>7, <1>8, <1>9, <2>1, <2>2, GranularityOneRow
<1>11. ASSUME NEW x \in TaskKeys
       PROVE  /\ st[x] = "none" => st'[x] = "none"
              /\ st'[x] = "running" => tasks'[id[x].sql].status # "success"
  <2>1. CASE x = k
    BY <1>1, <1>6, <2>1 DEF StateInv, TypeOK, ProcessTypeOK
  <2>2. CASE x # k
    <3>1. st'[x] = st[x]
      BY <1>1, <2>2 DEF StateInv, TypeOK, ProcessTypeOK
    <3>2. ASSUME st[x] = "running"
          PROVE  tasks'[id[x].sql].status # "success"
      <4>1. id[x].sql \in DOMAIN tasks /\ tasks[id[x].sql].status # "success"
        BY <3>2 DEF StateInv, NamedInv, ResumeInv, TaskInv
      <4>2. id[x].sql # t
        BY <1>1, <2>2, <3>2, TwoTasks
      <4> QED BY <1>6, <4>1, <4>2
    <3> QED BY <3>1, <3>2
  <2> QED BY <2>1, <2>2
<1>12. FileIdsInv' /\ TaskInv'
  BY <1>1, <1>2, <1>3, <1>4, <1>6, <1>11, OneRowIds
<1> QED BY <1>10, <1>12 DEF ResumeInv

LEMMA SaveResume ==
  ASSUME StateInv, ResumeInv, NEW k \in TaskKeys, NEW pk \in 1 .. LastPK, SaveProgress(k, pk)
  PROVE  ResumeInv'
<1> DEFINE row == [mem.tables[k] EXCEPT !.pk = pk, !.rows = pk, !.total = LastPK,
                                        !.status = "running"]
           t == id[k].sql
           saved == [pk |-> pk, rows |-> pk,
                     total |-> IF t \in DOMAIN progress THEN progress[t].total ELSE LastPK]
<1>1. /\ InRun /\ st[k] = "running" /\ TaskOp
      /\ SQL!SaveTransferProgress(t, pk, pk, LastPK)
      /\ id' = id /\ st' = st
  BY SaveParts
<1>2. /\ \A key \in File!KeysWithID(id[k].file) : key = k
      /\ k \in File!Keys /\ t \in DOMAIN tasks /\ tasks[t].run = disk.run /\ tasks[t].key = k
      /\ mem = disk /\ disk # Corrupt /\ disk.status = "running"
  BY <1>1, FoundTable
<1>3. RowIs(mem', k, row) /\ disk' = mem'
  <2>1. PICK key \in File!KeysWithID(id[k].file) :
          /\ RowIs(mem', key, [mem.tables[key] EXCEPT !.pk = pk, !.rows = pk, !.total = LastPK,
                                                      !.status = "running"])
          /\ disk' = mem'
    BY SaveParts
  <2> QED BY <1>2, <2>1
<1>4. row.id = mem.tables[k].id /\ row.pk = pk /\ row.rows = pk /\ row.status = "running"
  <2>1. mem.tables[k] \in FileRow
    BY <1>1, <1>2, RowOfKey, CurFacts
  <2> QED BY <2>1 DEF FileRow
<1>5. torn' = torn
  BY <1>1 DEF TaskOp
<1>6. progress' = SQL!With(progress, t, saved) /\ UNCHANGED tasks
  BY <1>1 DEF SQL!SaveTransferProgress
<1>7. /\ t \in DOMAIN progress' /\ progress'[t].pk = pk /\ progress'[t].rows = pk
      /\ \A u \in DOMAIN tasks \ {t} :
           /\ u \in DOMAIN progress' <=> u \in DOMAIN progress
           /\ u \in DOMAIN progress => progress'[u] = progress[u]
  <2>1. saved.pk = pk /\ saved.rows = pk
    OBVIOUS
  <2> HIDE DEF saved, t
  <2> QED BY <1>6, <2>1 DEF SQL!With
<1>8. tasks[t].status # "success"
  BY <1>1 DEF ResumeInv, TaskInv
<1>9. pk <= pk
  BY Numbers DEF StateInv, TypeOK
<1> HIDE DEF row, t, saved
<1>10. GranularityInv'
  BY <1>2, <1>3, <1>4, <1>5, <1>6, <1>7, <1>8, <1>9, GranularityOneRow
<1>11. \A x \in TaskKeys : st'[x] = "running" => tasks'[id[x].sql].status # "success"
  BY <1>1, <1>6 DEF ResumeInv, TaskInv
<1>12. FileIdsInv' /\ TaskInv'
  BY <1>1, <1>2, <1>3, <1>4, <1>6, <1>11, OneRowIds
<1> QED BY <1>10, <1>12 DEF ResumeInv

LEMMA MarkResume ==
  ASSUME StateInv, ResumeInv, NEW k \in TaskKeys, MarkTaskComplete(k)
  PROVE  ResumeInv'
<1> DEFINE row == [mem.tables[k] EXCEPT !.status = "success"]
           t == id[k].sql
<1>1. /\ InRun /\ st[k] = "new" /\ TaskOp
      /\ SQL!MarkTaskComplete(cur, k) /\ SQL!TaskIDs(cur, k) # {}
      /\ st' = [st EXCEPT ![k] = "success"] /\ id' = id
      /\ RowIs(mem', k, row) /\ disk' = mem'
  BY MarkParts
<1>2. /\ k \in File!Keys /\ t \in DOMAIN tasks /\ tasks[t].run = disk.run /\ tasks[t].key = k
      /\ mem = disk /\ disk # Corrupt /\ disk.status = "running" /\ disk.run = cur
  BY <1>1, FoundTable
<1>3. /\ row.id = mem.tables[k].id /\ row.status = "success"
      /\ row.pk = mem.tables[k].pk /\ row.rows = mem.tables[k].rows
  <2>1. mem.tables[k] \in FileRow
    BY <1>1, <1>2, RowOfKey, CurFacts
  <2> QED BY <2>1 DEF FileRow
<1>4. torn' = torn
  BY <1>1 DEF TaskOp
<1>5. SQL!TaskIDs(cur, k) = {t}
  <2>1. t \in SQL!TaskIDs(cur, k)
    BY <1>2 DEF SQL!TaskIDs, SQL!TasksOf
  <2>2. ASSUME NEW u \in SQL!TaskIDs(cur, k) PROVE u = t
    <3>1. u \in DOMAIN tasks /\ tasks[u].run = cur /\ tasks[u].key = k
      BY <2>2 DEF SQL!TaskIDs, SQL!TasksOf
    <3> HIDE DEF t
    <3> QED BY <1>2, <3>1 DEF ResumeInv, TaskInv
  <2> QED BY <2>1, <2>2
<1>6. /\ StatusOnly /\ tasks'[t].status = "success"
      /\ \A u \in DOMAIN tasks \ {t} : tasks'[u] = tasks[u]
  BY <1>1, <1>5, SQLMarkTaskComplete DEF StateInv, TypeOK
<1>7. progress' = progress
  BY <1>6 DEF StatusOnly
<1>8. row.pk = NoPK \/ (t \in DOMAIN progress /\ row.pk <= progress[t].pk)
  <2>1. PICK u \in DOMAIN tasks : /\ tasks[u].run = disk.run /\ tasks[u].key = k
                                  /\ Behind(disk.tables[k], u)
    BY <1>2 DEF ResumeInv, GranularityInv, File!Keys
  <2>2. u = t
    BY <1>2, <2>1 DEF ResumeInv, TaskInv
  <2> QED BY <1>2, <1>3, <2>1, <2>2 DEF Behind
<1>9. ~torn =>
        /\ t \in DOMAIN progress => row.pk = progress[t].pk /\ row.rows = progress[t].rows
        /\ t \notin DOMAIN progress => row.pk = NoPK /\ row.rows = 0
  <2>1. ~torn => Level(disk.tables[k], t)
    BY <1>2 DEF ResumeInv, GranularityInv
  <2> QED BY <1>2, <1>3, <2>1 DEF Level
<1> HIDE DEF row
<1>10. GranularityInv'
  <2> HIDE DEF t
  <2>1. \A u \in DOMAIN tasks \ {t} : tasks'[u].status = tasks[u].status
    BY <1>6
  <2> QED BY <1>1, <1>2, <1>3, <1>4, <1>6, <1>7, <1>8, <1>9, <2>1, GranularityOneRow
<1>11. ASSUME NEW x \in TaskKeys
       PROVE  /\ st[x] = "none" => st'[x] = "none"
              /\ st'[x] = "running" => tasks'[id[x].sql].status # "success"
  <2>1. CASE x = k
    BY <1>1, <2>1 DEF StateInv, TypeOK, ProcessTypeOK
  <2>2. CASE x # k
    <3>1. st'[x] = st[x]
      BY <1>1, <2>2 DEF StateInv, TypeOK, ProcessTypeOK
    <3>2. ASSUME st[x] = "running"
          PROVE  tasks'[id[x].sql].status # "success"
      <4>1. id[x].sql \in DOMAIN tasks /\ tasks[id[x].sql].status # "success"
        BY <3>2 DEF StateInv, NamedInv, ResumeInv, TaskInv
      <4>2. id[x].sql # t
        BY <1>1, <2>2, <3>2, TwoTasks
      <4> QED BY <1>6, <4>1, <4>2
    <3> QED BY <3>1, <3>2
  <2> QED BY <2>1, <2>2
<1>12. FileIdsInv' /\ TaskInv'
  BY <1>1, <1>2, <1>3, <1>6, <1>11, OneRowIds
<1> QED BY <1>10, <1>12 DEF ResumeInv

LEMMA UpdatePhaseResume ==
  ASSUME StateInv, ResumeInv, UpdatePhase
  PROVE  ResumeInv'
<1>1. /\ InRun /\ mem' = File!UpdatePhase("transferring") /\ disk' = mem'
      /\ UNCHANGED <<tasks, progress, id, st, torn>>
  BY DEF UpdatePhase, SQL!UpdatePhase, Write, File!Saved, Goto, env, InRun
<1>2. IsContents(mem) /\ mem = disk /\ disk # Corrupt
  BY <1>1, CurFacts
<1>3. "running" \in RunStatuses
  BY DEF RunStatuses
<1>4. mem'.run = mem.run /\ mem'.status = mem.status /\ mem'.tables = mem.tables
  BY <1>1, <1>2, <1>3, RunFieldsFacts
<1>5. FileIdsInv'
  BY <1>1, <1>2, <1>4, IdsKept DEF ResumeInv
<1>6. TaskInv'
  BY <1>1, <1>4 DEF ResumeInv, TaskInv
<1>7. GranularityInv'
  BY <1>1, <1>2, <1>4, GranularityNext DEF ResumeInv, GranularityInv, Behind, Level
<1> QED BY <1>5, <1>6, <1>7 DEF ResumeInv

\* A crash in a save leaves some of the first tables in the file, as they were.
LEMMA CrashInSaveResume ==
  ASSUME StateInv, ResumeInv, CrashInSave
  PROVE  ResumeInv'
<1>1. /\ proc # "down" /\ torn' = TRUE /\ st' = [k \in TaskKeys |-> "none"]
      /\ UNCHANGED <<tasks, progress>>
  BY DEF CrashInSave, Forget, sqlVars
<1>2. disk # Corrupt
  BY <1>1, MemoryIsFile
<1>3. TaskInv'
  BY <1>1 DEF ResumeInv, TaskInv
<1>4. CASE disk' = Corrupt
  <2>1. FileIdsInv' /\ GranularityInv'
    BY <1>4 DEF FileIdsInv, GranularityInv
  <2> QED BY <1>3, <2>1 DEF ResumeInv
<1>5. CASE disk' = File!Empty
  <2>1. DOMAIN disk'.tables = {} /\ disk'.status # "running"
    BY <1>5, EmptyFacts
  <2>2. 0 \in 0 .. Len(KeyOrder) /\ FirstKeys(0) = {} /\ \A i \in 1 .. 0 : FALSE
    BY KeyOrderFacts DEF FirstKeys
  <2>3. FileIdsInv'
    BY <2>1, <2>2 DEF FileIdsInv
  <2>4. GranularityInv'
    BY <2>1, GranularityNext
  <2> QED BY <1>3, <2>3, <2>4 DEF ResumeInv
<1>6. ASSUME disk'.run = disk.run, disk'.status = disk.status,
             NEW n \in 0 .. Len(KeyOrder) - 1,
             DOMAIN disk'.tables = DOMAIN disk.tables \cap FirstKeys(n),
             \A k \in DOMAIN disk'.tables : disk'.tables[k] = disk.tables[k]
      PROVE  ResumeInv'
  <2>1. PICK m \in 0 .. Len(KeyOrder) :
          /\ DOMAIN disk.tables = FirstKeys(m)
          /\ \A i \in 1 .. m : disk.tables[KeyOrder[i]].id = File!FirstTaskID + i
    BY <1>2 DEF ResumeInv, FileIdsInv
  <2>2. PICK l \in 0 .. Len(KeyOrder) : l <= n /\ l <= m /\ (l = n \/ l = m)
    BY KeyOrderFacts
  <2>3. FirstKeys(m) \cap FirstKeys(n) = FirstKeys(l)
    <3>1. n \in 0 .. Len(KeyOrder)
      BY KeyOrderFacts
    <3>2. ASSUME NEW a \in 0 .. Len(KeyOrder), NEW b \in 0 .. Len(KeyOrder), a <= b
          PROVE  FirstKeys(a) \subseteq FirstKeys(b)
      <4>1. 1 .. a \subseteq 1 .. b
        BY <3>2, KeyOrderFacts
      <4> QED BY <4>1 DEF FirstKeys
    <3> QED BY <2>2, <3>1, <3>2
  <2>4. FileIdsInv'
    <3>1. DOMAIN disk'.tables = FirstKeys(l)
      BY <1>6, <2>1, <2>3
    <3>2. ASSUME NEW i \in 1 .. l
          PROVE  disk'.tables[KeyOrder[i]].id = File!FirstTaskID + i
      <4>1. i \in 1 .. m /\ KeyOrder[i] \in FirstKeys(l)
        BY <2>2, KeyOrderFacts DEF FirstKeys
      <4> QED BY <1>6, <2>1, <3>1, <4>1
    <3> QED BY <3>1, <3>2 DEF FileIdsInv, File!FirstTaskID
  <2>5. GranularityInv'
    <3>1. ASSUME disk.status = "running", NEW k \in DOMAIN disk'.tables
          PROVE  \E t \in DOMAIN tasks' :
                   /\ tasks'[t].run = disk'.run /\ tasks'[t].key = k
                   /\ disk'.tables[k].status = "success" => tasks'[t].status = "success"
                   /\ \/ disk'.tables[k].pk = NoPK
                      \/ t \in DOMAIN progress' /\ disk'.tables[k].pk <= progress'[t].pk
      <4>1. k \in DOMAIN disk.tables /\ disk'.tables[k] = disk.tables[k]
        BY <1>6, <3>1
      <4>2. PICK t \in DOMAIN tasks : /\ tasks[t].run = disk.run /\ tasks[t].key = k
                                      /\ Behind(disk.tables[k], t)
        BY <1>2, <3>1, <4>1 DEF ResumeInv, GranularityInv
      <4> QED BY <1>1, <1>6, <4>1, <4>2 DEF Behind
    <3> QED BY <1>1, <1>6, <3>1, GranularityNext
  <2> QED BY <1>3, <2>4, <2>5 DEF ResumeInv
<1> QED BY <1>4, <1>5, <1>6, TornFacts

\* A task that is new to the file is the next of the order, and gets the next id.
LEMMA NewTaskIsNext ==
  ASSUME StateInv, FileIdsInv, "newtask" \notin Faults, NEW k \in TaskKeys, CreateTask(k),
         k \notin File!Keys
  PROVE  FileIdsInv'
<1>1. /\ InRun /\ disk' = mem' /\ DOMAIN mem'.tables = File!Keys \cup {k}
      /\ \A x \in File!Keys : mem'.tables[x] = mem.tables[x]
      /\ mem'.tables[k].id = taskIDCounter + 1
  <2>1. mem'.tables[k] = [status |-> "pending", pk |-> NoPK, rows |-> 0, total |-> 0,
                          id |-> taskIDCounter + 1]
    BY CreateTaskFacts
  <2> QED BY <2>1, CreateTaskFacts
<1>2. mem = disk /\ disk # Corrupt /\ taskIDCounter \in Nat
  BY <1>1, CurFacts
<1>3. PICK n \in 0 .. Len(KeyOrder) :
        /\ DOMAIN disk.tables = FirstKeys(n)
        /\ \A i \in 1 .. n : disk.tables[KeyOrder[i]].id = 1000 + i
  BY <1>2 DEF FileIdsInv, File!FirstTaskID
<1>4. taskIDCounter - 1000 = n
  <2>1. taskIDCounter - 1000 = Cardinality(File!Keys)
    BY DEF CreateTask, MayCreate, File!FirstTaskID
  <2>2. File!Keys = FirstKeys(n)
    BY <1>2, <1>3 DEF File!Keys
  <2>3. Cardinality(File!Keys) = n
    BY <2>2, FirstKeysFacts
  <2> QED BY <2>1, <2>3
<1>5. PICK i \in DOMAIN KeyOrder : /\ KeyOrder[i] = k
                                   /\ \A j \in 1 .. i - 1 : st[KeyOrder[j]] # "none"
  BY DEF CreateTask, NextTask
<1>6. n \in Nat /\ Len(KeyOrder) \in Nat /\ i \in 1 .. Len(KeyOrder)
  BY <1>5, KeyOrderFacts
<1>7. i > n
  <2>1. KeyOrder[i] \notin FirstKeys(n)
    BY <1>2, <1>3, <1>5 DEF File!Keys
  <2>2. ~(i <= n)
    BY <1>6, <2>1, FirstKeysFacts
  <2> QED BY <1>6, <2>2
<1>8. i <= n + 1
  <2>1. CASE i = 1
    BY <1>6, <2>1
  <2>2. CASE i # 1
    <3>1. i - 1 \in 1 .. i - 1 /\ i - 1 \in 1 .. Len(KeyOrder)
      BY <1>6, <2>2
    <3>2. KeyOrder[i - 1] \in TaskKeys /\ st[KeyOrder[i - 1]] # "none"
      BY <1>5, <3>1, KeyOrderFacts
    <3>3. KeyOrder[i - 1] \in FirstKeys(n)
      BY <1>2, <1>3, <3>2 DEF StateInv, NamedInv, File!Keys
    <3>4. i - 1 <= n
      BY <3>1, <3>3, FirstKeysFacts
    <3> QED BY <1>6, <3>4
  <2> QED BY <2>1, <2>2
<1>9. i = n + 1 /\ n + 1 \in 0 .. Len(KeyOrder)
  BY <1>6, <1>7, <1>8
<1>10. FirstKeys(n + 1) = FirstKeys(n) \cup {k}
  <2>1. 1 .. n + 1 = (1 .. n) \cup {n + 1}
    BY <1>6
  <2> QED BY <1>5, <1>9, <2>1 DEF FirstKeys
<1>11. DOMAIN disk'.tables = FirstKeys(n + 1)
  BY <1>1, <1>2, <1>3, <1>10 DEF File!Keys
<1>12. ASSUME NEW j \in 1 .. n + 1
       PROVE  disk'.tables[KeyOrder[j]].id = 1000 + j
  <2>1. CASE j = n + 1
    <3>1. KeyOrder[j] = k
      BY <1>5, <1>9, <2>1
    <3>2. disk'.tables[KeyOrder[j]].id = taskIDCounter + 1
      BY <1>1, <3>1
    <3> QED BY <1>2, <1>4, <1>6, <2>1, <3>2
  <2>2. CASE j # n + 1
    <3>1. j \in 1 .. n
      BY <1>6, <2>2
    <3>2. KeyOrder[j] \in File!Keys
      BY <1>2, <1>3, <3>1 DEF File!Keys, FirstKeys
    <3> QED BY <1>1, <1>2, <1>3, <3>1, <3>2
  <2> QED BY <2>1, <2>2
<1> QED BY <1>9, <1>11, <1>12 DEF FileIdsInv, File!FirstTaskID

LEMMA CreateTaskResume ==
  ASSUME StateInv, ResumeInv, "newtask" \notin Faults, NEW k \in TaskKeys, CreateTask(k)
  PROVE  ResumeInv'
<1> DEFINE t0 == id'[k].sql
<1>1. /\ InRun /\ SQL!CreateTask(cur, k) /\ disk' = mem' /\ torn' = torn /\ cur' = cur
      /\ mem'.run = mem.run /\ mem'.status = mem.status
      /\ DOMAIN mem'.tables = File!Keys \cup {k}
      /\ \A x \in File!Keys : mem'.tables[x] = mem.tables[x]
      /\ t0 \in DOMAIN tasks' /\ id'[k].file = mem'.tables[k].id
      /\ tasks'[t0].run = cur /\ tasks'[t0].key = k
      /\ \A x \in TaskKeys \ {k} : id'[x] = id[x] /\ st'[x] = st[x]
      /\ st'[k] \in {"success", "new"}
  BY CreateTaskFacts
<1>2. k \notin File!Keys =>
        /\ mem'.tables[k].status = "pending" /\ mem'.tables[k].pk = NoPK
        /\ mem'.tables[k].rows = 0
  <2>1. k \notin File!Keys =>
          mem'.tables[k] = [status |-> "pending", pk |-> NoPK, rows |-> 0, total |-> 0,
                            id |-> taskIDCounter + 1]
    BY CreateTaskFacts
  <2> QED BY <2>1
<1>3. mem = disk /\ disk # Corrupt /\ disk.run = cur /\ disk.status = "running"
      /\ cur \in 1 .. MaxStarts /\ File!Keys = DOMAIN disk.tables
  BY <1>1, CurFacts DEF File!Keys
<1>4. /\ progress' = progress
      /\ DOMAIN tasks \subseteq DOMAIN tasks'
      /\ \A t \in DOMAIN tasks : tasks'[t] = tasks[t]
      /\ SQL!TaskIDs(cur, k) # {} => tasks' = tasks
      /\ SQL!TaskIDs(cur, k) = {} =>
           /\ DOMAIN tasks' = DOMAIN tasks \cup {nextTask} /\ nextTask \notin DOMAIN tasks
           /\ tasks'[nextTask] = [run |-> cur, key |-> k, status |-> "pending"]
  BY <1>1, <1>3, SQLCreateTask DEF StateInv, TypeOK
\* A new task is of a key that the run had no task of.
<1>5. ASSUME NEW t \in DOMAIN tasks', t \notin DOMAIN tasks
      PROVE  /\ tasks'[t].run = cur /\ tasks'[t].key = k /\ tasks'[t].status = "pending"
             /\ \A u \in DOMAIN tasks : ~(tasks[u].run = cur /\ tasks[u].key = k)
             /\ \A u \in DOMAIN tasks' : u \notin DOMAIN tasks => u = t
             /\ t \notin DOMAIN progress
  <2>1. SQL!TaskIDs(cur, k) = {}
    BY <1>4, <1>5
  <2>2. t = nextTask
    BY <1>4, <1>5, <2>1
  <2>3. \A u \in DOMAIN tasks : ~(tasks[u].run = cur /\ tasks[u].key = k)
    BY <2>1 DEF SQL!TaskIDs, SQL!TasksOf
  <2>4. t \notin DOMAIN progress
    BY <1>5 DEF StateInv, NoOrphans
  <2>5. tasks'[t] = [run |-> cur, key |-> k, status |-> "pending"]
    BY <1>4, <2>1, <2>2
  <2>6. tasks'[t].run = cur /\ tasks'[t].key = k /\ tasks'[t].status = "pending"
    BY <2>5
  <2>7. \A u \in DOMAIN tasks' : u \notin DOMAIN tasks => u = t
    BY <1>4, <2>1, <2>2
  <2> QED BY <2>3, <2>4, <2>6, <2>7
<1> HIDE DEF t0
<1>6. FileIdsInv'
  <2>1. FileIdsInv
    BY DEF ResumeInv
  <2>2. CASE k \in File!Keys
    <3>1. DOMAIN disk'.tables = DOMAIN disk.tables
      BY <1>1, <1>3, <2>2
    <3> QED BY <1>1, <1>3, <2>1, <3>1, IdsKept
  <2>3. CASE k \notin File!Keys
    BY <2>1, <2>3, NewTaskIsNext
  <2> QED BY <2>2, <2>3
<1>7. TaskInv'
  <2>1. ASSUME NEW t \in DOMAIN tasks', NEW u \in DOMAIN tasks',
               tasks'[t].run = tasks'[u].run, tasks'[t].key = tasks'[u].key
        PROVE  t = u
    <3>1. CASE t \in DOMAIN tasks /\ u \in DOMAIN tasks
      BY <1>4, <2>1, <3>1 DEF ResumeInv, TaskInv
    <3>2. CASE t \notin DOMAIN tasks
      BY <1>4, <1>5, <2>1, <3>2
    <3>3. CASE u \notin DOMAIN tasks
      BY <1>4, <1>5, <2>1, <3>3
    <3> QED BY <3>1, <3>2, <3>3
  <2>2. ASSUME NEW x \in TaskKeys, st'[x] # "none"
        PROVE  /\ mem'.tables[x].id = id'[x].file
               /\ st'[x] = "running" => tasks'[id'[x].sql].status # "success"
    <3>1. CASE x # k
      <4>1. st'[x] = st[x] /\ id'[x] = id[x]
        BY <1>1, <3>1
      <4>2. x \in File!Keys /\ id[x].sql \in DOMAIN tasks
        BY <2>2, <4>1 DEF StateInv, NamedInv
      <4>3. mem.tables[x].id = id[x].file
            /\ (st[x] = "running" => tasks[id[x].sql].status # "success")
        BY <2>2, <4>1 DEF ResumeInv, TaskInv
      <4> QED BY <1>1, <1>4, <4>1, <4>2, <4>3
    <3>2. CASE x = k
      BY <1>1, <3>2
    <3> QED BY <3>1, <3>2
  <2> QED BY <2>1, <2>2 DEF TaskInv
<1>8. GranularityInv'
  <2>1. ASSUME NEW x \in DOMAIN disk'.tables
        PROVE  \E t \in DOMAIN tasks' :
                 /\ tasks'[t].run = disk'.run /\ tasks'[t].key = x
                 /\ disk'.tables[x].status = "success" => tasks'[t].status = "success"
                 /\ \/ disk'.tables[x].pk = NoPK
                    \/ t \in DOMAIN progress' /\ disk'.tables[x].pk <= progress'[t].pk
    <3>1. CASE x \in DOMAIN disk.tables
      <4>1. PICK t \in DOMAIN tasks : /\ tasks[t].run = disk.run /\ tasks[t].key = x
                                      /\ Behind(disk.tables[x], t)
        BY <1>3, <3>1 DEF ResumeInv, GranularityInv
      <4>2. /\ t \in DOMAIN tasks' /\ tasks'[t] = tasks[t] /\ progress' = progress
            /\ disk'.tables[x] = disk.tables[x] /\ disk'.run = disk.run
        BY <1>1, <1>3, <1>4, <3>1
      <4> QED BY <4>1, <4>2 DEF Behind
    <3>2. CASE x \notin DOMAIN disk.tables
      <4>1. x = k /\ disk'.run = cur
        BY <1>1, <1>3, <2>1, <3>2
      <4>2. disk'.tables[k].pk = NoPK /\ disk'.tables[k].status = "pending"
        BY <1>1, <1>2, <1>3, <3>2, <4>1
      <4> QED BY <1>1, <4>1, <4>2
    <3> QED BY <3>1, <3>2
  <2>2. ASSUME ~torn, NEW t \in DOMAIN tasks', tasks'[t].run = disk'.run
        PROVE  /\ tasks'[t].key \in DOMAIN disk'.tables
               /\ disk'.tables[tasks'[t].key].status = "success" => tasks'[t].status = "success"
               /\ (tasks'[t].status = "success" /\ disk'.tables[tasks'[t].key].status # "success")
                    => t \notin DOMAIN progress'
               /\ t \in DOMAIN progress' =>
                    /\ disk'.tables[tasks'[t].key].pk = progress'[t].pk
                    /\ disk'.tables[tasks'[t].key].rows = progress'[t].rows
               /\ t \notin DOMAIN progress' =>
                    /\ disk'.tables[tasks'[t].key].pk = NoPK
                    /\ disk'.tables[tasks'[t].key].rows = 0
    <3>1. CASE t \in DOMAIN tasks
      <4>1. tasks'[t] = tasks[t] /\ tasks[t].run = disk.run
        BY <1>1, <1>3, <1>4, <2>2, <3>1
      <4>2. tasks[t].key \in DOMAIN disk.tables /\ Level(disk.tables[tasks[t].key], t)
        BY <1>3, <2>2, <3>1, <4>1 DEF ResumeInv, GranularityInv
      <4>3. /\ disk'.tables[tasks[t].key] = disk.tables[tasks[t].key]
            /\ tasks[t].key \in DOMAIN disk'.tables
        BY <1>1, <1>3, <4>2
      <4> QED BY <1>4, <4>1, <4>2, <4>3 DEF Level
    <3>2. CASE t \notin DOMAIN tasks
      <4>1. /\ tasks'[t].key = k /\ tasks'[t].status = "pending" /\ t \notin DOMAIN progress
            /\ \A u \in DOMAIN tasks : ~(tasks[u].run = cur /\ tasks[u].key = k)
        BY <1>5, <3>2
      <4>2. k \notin File!Keys
        BY <1>3, <4>1 DEF ResumeInv, GranularityInv
      <4> QED BY <1>1, <1>2, <1>4, <4>1, <4>2
    <3> QED BY <3>1, <3>2
  <2> QED BY <1>1, <2>1, <2>2, GranularityNext
<1> QED BY <1>6, <1>7, <1>8 DEF ResumeInv

LEMMA ResumeInit == Init => ResumeInv
<1> SUFFICES ASSUME Init PROVE ResumeInv
  OBVIOUS
<1>1. /\ disk = File!Empty /\ DOMAIN tasks = {} /\ st = [k \in TaskKeys |-> "none"]
  BY DEF Init, SQL!SQLInit, File!FileInit
<1>2. DOMAIN disk.tables = {} /\ disk.status # "running"
  BY <1>1, EmptyFacts
<1>3. 0 \in 0 .. Len(KeyOrder) /\ FirstKeys(0) = {} /\ \A i \in 1 .. 0 : FALSE
  BY KeyOrderFacts DEF FirstKeys
<1>4. FileIdsInv
  BY <1>2, <1>3 DEF FileIdsInv
<1>5. TaskInv /\ GranularityInv
  BY <1>1, <1>2 DEF TaskInv, GranularityInv
<1> QED BY <1>4, <1>5 DEF ResumeInv

LEMMA ResumeNext ==
  ASSUME StateInv, ResumeInv, "newtask" \notin Faults, [Next]_vars
  PROVE  ResumeInv'
<1>1. ASSUME NEW k \in TaskKeys, NEW status \in {"success", "failed"}, EndJob(k, status)
      PROVE  ResumeInv'
  BY <1>1, UpdateResume DEF EndJob
<1>2. ASSUME NEW k \in TaskKeys, StartJob(k)
      PROVE  ResumeInv'
  BY <1>2, UpdateResume DEF StartJob
<1>3. CASE UNCHANGED vars
  BY <1>3 DEF vars, sqlVars, fileVars, process, env, ResumeInv, FileIdsInv, TaskInv,
              GranularityInv, Behind, Level, File!FirstTaskID
<1>4. CASE Next
  BY <1>1, <1>2, <1>4, IdleResume, CreateRunResume, ResumeResume, EndRunResume,
     UpdatePhaseResume, CreateTaskResume, ClearResume, MarkResume, SaveResume, CrashInSaveResume
  DEF Next
<1> QED BY <1>3, <1>4

LEMMA ResumeInvariant ==
  ASSUME "newtask" \notin Faults
  PROVE  Spec => []ResumeInv
<1>1. Init => ResumeInv
  BY ResumeInit
<1>2. StateInv /\ ResumeInv /\ [Next]_vars => ResumeInv'
  BY ResumeNext
<1> QED BY <1>1, <1>2, StateInvariant, PTL DEF Spec

(***************************************************************************)
(* What a resume finds, and what status shows.                             *)
(***************************************************************************)

LEMMA SameCount ==
  ASSUME NEW S, NEW T, IsFiniteSet(T), NEW f \in [S -> T],
         \A t \in T : \E s \in S : f[s] = t,
         \A s, u \in S : f[s] = f[u] => s = u
  PROVE  Cardinality(S) = Cardinality(T)
<1> DEFINE g == [t \in T |-> CHOOSE s \in S : f[s] = t]
<1>1. \A t \in T : g[t] \in S /\ f[g[t]] = t
  OBVIOUS
<1>2. g \in [T -> S]
  BY <1>1
<1> HIDE DEF g
<1>3. \A s \in S : g[f[s]] = s
  BY <1>1
<1>4. g \in Bijection(T, S)
  BY <1>1, <1>2, <1>3 DEF Bijection, Injection, IsInjective, Surjection
<1>5. ExistsBijection(T, S)
  BY <1>4 DEF ExistsBijection
<1> QED BY <1>5, FS_Bijection

LEMMA FileRunFacts ==
  ASSUME NEW r \in FileRuns
  PROVE  disk # Corrupt /\ disk.status = "running" /\ r = disk.run
BY DEF FileRuns, OnDisk!LastIncompleteRuns

\* The file answers for the row of a table, and for no other.
LEMMA FileAnswer ==
  ASSUME FileIdsInv, disk # Corrupt, NEW k \in OnDisk!Keys
  PROVE  /\ disk.tables[k].pk = NoPK => FileAnswers(k) =
              {<<disk.tables[k].status = "success", [pk |-> NoPK, rows |-> 0]>>}
         /\ disk.tables[k].pk # NoPK => FileAnswers(k) =
              {<<disk.tables[k].status = "success",
                 [pk |-> disk.tables[k].pk, rows |-> disk.tables[k].rows]>>}
<1> DEFINE i == disk.tables[k].id
           found == {x \in OnDisk!KeysWithID(i) : disk.tables[x].pk # NoPK}
<1>1. OnDisk!KeysWithID(i) = {k}
  <2>1. k \in OnDisk!KeysWithID(i)
    BY DEF OnDisk!KeysWithID
  <2>2. ASSUME NEW x \in OnDisk!KeysWithID(i) PROVE x = k
    <3>1. x \in DOMAIN disk.tables /\ disk.tables[x].id = disk.tables[k].id
      BY <2>2 DEF OnDisk!KeysWithID, OnDisk!Keys
    <3> QED BY <3>1, OneTableOfId DEF OnDisk!Keys
  <2> QED BY <2>1, <2>2
<1>2. k \in OnDisk!GetCompletedTables <=> disk.tables[k].status = "success"
  BY DEF OnDisk!GetCompletedTables
<1>3. FileAnswers(k) = {<<disk.tables[k].status = "success", p>> : p \in OnDisk!GetProgress(i)}
  BY <1>2 DEF FileAnswers
<1>4. OnDisk!GetProgress(i)
        = IF found = {} THEN {[pk |-> NoPK, rows |-> 0]}
          ELSE {[pk |-> disk.tables[x].pk, rows |-> disk.tables[x].rows] : x \in found}
  BY DEF OnDisk!GetProgress, OnDisk!NoProgress
<1>5. /\ disk.tables[k].pk = NoPK => found = {}
      /\ disk.tables[k].pk # NoPK => found = {k}
  BY <1>1
<1> HIDE DEF found, i
<1>6. ASSUME disk.tables[k].pk = NoPK
      PROVE  OnDisk!GetProgress(i) = {[pk |-> NoPK, rows |-> 0]}
  BY <1>4, <1>5, <1>6
<1>7. ASSUME disk.tables[k].pk # NoPK
      PROVE  OnDisk!GetProgress(i)
               = {[pk |-> disk.tables[k].pk, rows |-> disk.tables[k].rows]}
  BY <1>4, <1>5, <1>7
<1> QED BY <1>3, <1>6, <1>7

\* The database answers for the one task of the key.
LEMMA SQLAnswer ==
  ASSUME TaskInv, NEW t \in DOMAIN tasks, NEW r, NEW k, tasks[t].run = r, tasks[t].key = k
  PROVE  /\ SQL!TaskIDs(r, k) = {t}
         /\ SQLAnswers(r, k) = {<<tasks[t].status = "success", SQL!GetProgress(t)>>}
<1>1. SQL!TaskIDs(r, k) = {t}
  BY DEF SQL!TaskIDs, SQL!TasksOf, TaskInv
<1>2. k \in SQL!GetCompletedTables(r) <=> tasks[t].status = "success"
  <2>1. ASSUME tasks[t].status = "success" PROVE k \in SQL!GetCompletedTables(r)
    BY <2>1 DEF SQL!GetCompletedTables, SQL!TasksOf
  <2>2. ASSUME k \in SQL!GetCompletedTables(r) PROVE tasks[t].status = "success"
    <3>1. PICK u \in DOMAIN tasks : tasks[u].run = r /\ tasks[u].key = k
                                    /\ tasks[u].status = "success"
      BY <2>2 DEF SQL!GetCompletedTables, SQL!TasksOf
    <3>2. u = t
      BY <3>1 DEF TaskInv
    <3> QED BY <3>1, <3>2
  <2> QED BY <2>1, <2>2
<1> QED BY <1>1, <1>2 DEF SQLAnswers

LEMMA ProgressKey ==
  ASSUME StateInv, NEW t \in DOMAIN progress
  PROVE  progress[t].pk # NoPK
<1>1. progress[t].pk \in 1 .. LastPK
  BY DEF StateInv, TypeOK, SQLTypeOK, ProgressRow
<1> QED BY <1>1, StateAssumption DEF StateAssumption

LEMMA NeverAheadOf ==
  ASSUME StateInv, ResumeInv
  PROVE  FileNeverAhead
<1> SUFFICES ASSUME NEW r \in FileRuns, NEW k \in OnDisk!Keys
             PROVE  \E answer \in SQLAnswers(r, k) : \A claim \in FileAnswers(k) :
                      /\ claim[1] => answer[1]
                      /\ \/ claim[2].pk = NoPK
                         \/ answer[2].pk # NoPK /\ claim[2].pk <= answer[2].pk
  BY DEF FileNeverAhead
<1>1. disk # Corrupt /\ disk.status = "running" /\ r = disk.run
  BY FileRunFacts
<1>2. PICK t \in DOMAIN tasks : /\ tasks[t].run = disk.run /\ tasks[t].key = k
                                /\ Behind(disk.tables[k], t)
  BY <1>1 DEF ResumeInv, GranularityInv, OnDisk!Keys
<1> DEFINE answer == <<tasks[t].status = "success", SQL!GetProgress(t)>>
<1>3. answer \in SQLAnswers(r, k)
  BY <1>1, <1>2, SQLAnswer DEF ResumeInv
<1>4. ASSUME NEW claim \in FileAnswers(k)
      PROVE  /\ claim[1] => answer[1]
             /\ \/ claim[2].pk = NoPK
                \/ answer[2].pk # NoPK /\ claim[2].pk <= answer[2].pk
  <2>1. CASE disk.tables[k].pk = NoPK
    <3>1. claim = <<disk.tables[k].status = "success", [pk |-> NoPK, rows |-> 0]>>
      BY <1>1, <2>1, FileAnswer DEF ResumeInv
    <3>2. claim[2].pk = NoPK
      BY <3>1
    <3>3. claim[1] => answer[1]
      BY <1>2, <3>1 DEF Behind
    <3> QED BY <3>2, <3>3
  <2>2. CASE disk.tables[k].pk # NoPK
    <3>1. claim = <<disk.tables[k].status = "success",
                    [pk |-> disk.tables[k].pk, rows |-> disk.tables[k].rows]>>
      BY <1>1, <2>2, FileAnswer DEF ResumeInv
    <3>2. t \in DOMAIN progress /\ disk.tables[k].pk <= progress[t].pk
      BY <1>2, <2>2 DEF Behind
    <3>3. answer[2].pk = progress[t].pk
      BY <3>2 DEF SQL!GetProgress
    <3>4. progress[t].pk # NoPK
      BY <3>2, ProgressKey
    <3>5. claim[1] => answer[1]
      BY <1>2, <3>1 DEF Behind
    <3>6. claim[2].pk = disk.tables[k].pk
      BY <3>1
    <3> HIDE DEF answer
    <3> QED BY <3>2, <3>3, <3>4, <3>5, <3>6
  <2> QED BY <2>1, <2>2
<1> QED BY <1>3, <1>4

\* With a whole file, the tasks of the run are the tables of the file.
LEMMA TasksAreTables ==
  ASSUME StateInv, ResumeInv, ~torn, disk # Corrupt, disk.status = "running"
  PROVE  /\ \A k \in DOMAIN disk.tables :
              \E t \in SQL!TasksOf(disk.run) : tasks[t].key = k
         /\ \A t \in SQL!TasksOf(disk.run) :
              /\ t \in DOMAIN tasks /\ tasks[t].run = disk.run
              /\ tasks[t].key \in DOMAIN disk.tables
              /\ Level(disk.tables[tasks[t].key], t)
              /\ SQL!GetProgress(t) = [pk   |-> disk.tables[tasks[t].key].pk,
                                       rows |-> disk.tables[tasks[t].key].rows]
         /\ \A t, u \in SQL!TasksOf(disk.run) : tasks[t].key = tasks[u].key => t = u
<1>1. ASSUME NEW k \in DOMAIN disk.tables
      PROVE  \E t \in SQL!TasksOf(disk.run) : tasks[t].key = k
  BY DEF ResumeInv, GranularityInv, SQL!TasksOf
<1>2. ASSUME NEW t \in SQL!TasksOf(disk.run)
      PROVE  /\ t \in DOMAIN tasks /\ tasks[t].run = disk.run
             /\ tasks[t].key \in DOMAIN disk.tables
             /\ Level(disk.tables[tasks[t].key], t)
             /\ SQL!GetProgress(t) = [pk   |-> disk.tables[tasks[t].key].pk,
                                      rows |-> disk.tables[tasks[t].key].rows]
  <2>1. t \in DOMAIN tasks /\ tasks[t].run = disk.run
    BY <1>2 DEF SQL!TasksOf
  <2>2. tasks[t].key \in DOMAIN disk.tables /\ Level(disk.tables[tasks[t].key], t)
    BY <2>1 DEF ResumeInv, GranularityInv
  <2>3. SQL!GetProgress(t) = [pk   |-> disk.tables[tasks[t].key].pk,
                              rows |-> disk.tables[tasks[t].key].rows]
    BY <2>2 DEF Level, SQL!GetProgress, SQL!NoProgress
  <2> QED BY <2>1, <2>2, <2>3
<1>3. \A t, u \in SQL!TasksOf(disk.run) : tasks[t].key = tasks[u].key => t = u
  BY DEF ResumeInv, TaskInv, SQL!TasksOf
<1> QED BY <1>1, <1>2, <1>3

\* The tables that the backends part over are complete in the database alone, and neither
\* has any progress of them.
LEMMA ApartFacts ==
  ASSUME StateInv, ResumeInv, ~torn, NEW r \in FileRuns
  PROVE  /\ \A t \in SQL!TasksOf(disk.run) :
              tasks[t].key \in Apart <=> /\ tasks[t].status = "success"
                                         /\ disk.tables[tasks[t].key].status # "success"
         /\ \A k \in Apart : \E t \in SQL!TasksOf(disk.run) : tasks[t].key = k
<1>1. /\ disk # Corrupt /\ disk.status = "running" /\ r = disk.run
      /\ \A x \in FileRuns : x = disk.run
  BY FileRunFacts
<1>2. Apart = {k \in TaskKeys : (k \in SQL!GetCompletedTables(disk.run))
                                  # (k \in OnDisk!GetCompletedTables)}
  BY <1>1 DEF Apart
<1>3. ASSUME NEW t \in SQL!TasksOf(disk.run)
      PROVE  tasks[t].key \in Apart <=> /\ tasks[t].status = "success"
                                        /\ disk.tables[tasks[t].key].status # "success"
  <2>1. /\ t \in DOMAIN tasks /\ tasks[t].key \in DOMAIN disk.tables
        /\ disk.tables[tasks[t].key].status = "success" => tasks[t].status = "success"
        /\ \A u \in SQL!TasksOf(disk.run) : tasks[t].key = tasks[u].key => t = u
    BY <1>1, TasksAreTables DEF Level
  <2>2. tasks[t].key \in TaskKeys
    BY <2>1 DEF StateInv, TypeOK, SQLTypeOK, TaskRow
  <2>3. tasks[t].key \in SQL!GetCompletedTables(disk.run) <=> tasks[t].status = "success"
    BY <2>1 DEF SQL!GetCompletedTables
  <2>4. tasks[t].key \in OnDisk!GetCompletedTables
          <=> disk.tables[tasks[t].key].status = "success"
    BY <2>1 DEF OnDisk!GetCompletedTables, OnDisk!Keys
  <2> QED BY <1>2, <2>1, <2>2, <2>3, <2>4
<1>4. ASSUME NEW k \in Apart
      PROVE  \E t \in SQL!TasksOf(disk.run) : tasks[t].key = k
  <2>1. CASE k \in SQL!GetCompletedTables(disk.run)
    BY <2>1 DEF SQL!GetCompletedTables
  <2>2. CASE k \notin SQL!GetCompletedTables(disk.run)
    <3>1. k \in DOMAIN disk.tables
      BY <1>2, <2>2 DEF OnDisk!GetCompletedTables, OnDisk!Keys
    <3> QED BY <1>1, <3>1, TasksAreTables
  <2> QED BY <2>1, <2>2
<1> QED BY <1>3, <1>4

LEMMA SameAnswers ==
  ASSUME StateInv, ResumeInv, ~torn, NEW r \in FileRuns, NEW k \in TaskKeys
  PROVE  /\ k \notin Apart => SQLAnswers(r, k) = FileAnswers(k)
         /\ k \in Apart => /\ SQLAnswers(r, k) = {<<TRUE, [pk |-> NoPK, rows |-> 0]>>}
                           /\ FileAnswers(k) = {<<FALSE, [pk |-> NoPK, rows |-> 0]>>}
<1>0. disk # Corrupt /\ disk.status = "running" /\ r = disk.run
  BY FileRunFacts
<1>1. CASE k \notin DOMAIN disk.tables
  <2>1. FileAnswers(k) = {}
    BY <1>1 DEF FileAnswers, OnDisk!Keys
  <2>2. SQL!TaskIDs(disk.run, k) = {}
    BY <1>0, <1>1, TasksAreTables DEF SQL!TaskIDs
  <2>3. k \notin Apart
    BY <1>0, <1>1, ApartFacts, TasksAreTables
  <2> QED BY <1>0, <2>1, <2>2, <2>3 DEF SQLAnswers
<1>2. CASE k \in DOMAIN disk.tables
  <2>1. PICK t \in SQL!TasksOf(disk.run) : tasks[t].key = k
    BY <1>0, <1>2, TasksAreTables
  <2>2. /\ t \in DOMAIN tasks /\ tasks[t].run = disk.run /\ Level(disk.tables[k], t)
        /\ SQL!GetProgress(t) = [pk |-> disk.tables[k].pk, rows |-> disk.tables[k].rows]
    BY <1>0, <2>1, TasksAreTables
  <2>3. SQLAnswers(r, k)
          = {<<tasks[t].status = "success",
               [pk |-> disk.tables[k].pk, rows |-> disk.tables[k].rows]>>}
    BY <1>0, <2>1, <2>2, SQLAnswer DEF ResumeInv
  <2>4. k \in Apart <=> tasks[t].status = "success" /\ disk.tables[k].status # "success"
    BY <2>1, ApartFacts
  <2>5. k \in OnDisk!Keys /\ FileIdsInv
    BY <1>2 DEF OnDisk!Keys, ResumeInv
  <2>6. disk.tables[k].pk = NoPK => disk.tables[k].rows = 0
    <3>1. t \in DOMAIN progress => progress[t].pk # NoPK
      BY ProgressKey
    <3> QED BY <2>2, <3>1 DEF Level
  <2>7. FileAnswers(k)
          = {<<disk.tables[k].status = "success",
               [pk |-> disk.tables[k].pk, rows |-> disk.tables[k].rows]>>}
    <3>1. CASE disk.tables[k].pk # NoPK
      BY <1>0, <2>5, <3>1, FileAnswer
    <3>2. CASE disk.tables[k].pk = NoPK
      BY <1>0, <2>5, <2>6, <3>2, FileAnswer
    <3> QED BY <3>1, <3>2
  <2>8. ASSUME k \notin Apart
        PROVE  SQLAnswers(r, k) = FileAnswers(k)
    <3>1. (tasks[t].status = "success") = (disk.tables[k].status = "success")
      BY <2>2, <2>4, <2>8 DEF Level
    <3> QED BY <2>3, <2>7, <3>1
  <2>9. ASSUME k \in Apart
        PROVE  /\ SQLAnswers(r, k) = {<<TRUE, [pk |-> NoPK, rows |-> 0]>>}
               /\ FileAnswers(k) = {<<FALSE, [pk |-> NoPK, rows |-> 0]>>}
    <3>1. /\ (tasks[t].status = "success") = TRUE
          /\ (disk.tables[k].status = "success") = FALSE
      BY <2>4, <2>9
    <3>2. disk.tables[k].pk = NoPK /\ disk.tables[k].rows = 0
      BY <2>2, <3>1 DEF Level
    <3> QED BY <2>3, <2>7, <3>1, <3>2
  <2> QED BY <2>8, <2>9
<1> QED BY <1>1, <1>2

LEMMA SameShown ==
  ASSUME StateInv, ResumeInv, ~torn, disk # Corrupt, disk.status = "running"
  PROVE  Shown(SQL!TasksWithProgress(disk.run)) = Shown(OnDisk!TasksWithProgress)
<1> DEFINE inDatabase(t) == [key |-> tasks[t].key, status |-> tasks[t].status,
                             rows |-> SQL!GetProgress(t).rows]
           inFile(k) == [key |-> k, status |-> disk.tables[k].status, rows |-> disk.tables[k].rows]
<1>1. /\ \A t : inDatabase(t).key = tasks[t].key /\ inDatabase(t).rows = SQL!GetProgress(t).rows
      /\ \A k : inFile(k).key = k /\ inFile(k).rows = disk.tables[k].rows
  OBVIOUS
<1>2. /\ SQL!TasksWithProgress(disk.run) = {inDatabase(t) : t \in SQL!TasksOf(disk.run)}
      /\ OnDisk!TasksWithProgress = {inFile(k) : k \in DOMAIN disk.tables}
  BY DEF SQL!TasksWithProgress, OnDisk!TasksWithProgress, OnDisk!Keys
<1> HIDE DEF inDatabase, inFile
<1>3. Shown(SQL!TasksWithProgress(disk.run))
        = {<<tasks[t].key, SQL!GetProgress(t).rows>> : t \in SQL!TasksOf(disk.run)}
  BY <1>1, <1>2 DEF Shown
<1>4. Shown(OnDisk!TasksWithProgress)
        = {<<k, disk.tables[k].rows>> : k \in DOMAIN disk.tables}
  BY <1>1, <1>2 DEF Shown
<1>5. \A t \in SQL!TasksOf(disk.run) :
        /\ tasks[t].key \in DOMAIN disk.tables
        /\ SQL!GetProgress(t).rows = disk.tables[tasks[t].key].rows
  BY TasksAreTables
<1>6. \A k \in DOMAIN disk.tables : \E t \in SQL!TasksOf(disk.run) : tasks[t].key = k
  BY TasksAreTables
<1> QED BY <1>3, <1>4, <1>5, <1>6

\* The tasks that the database calls complete are those of the file and the ones apart.
LEMMA SameCounted ==
  ASSUME StateInv, ResumeInv, ~torn, NEW r \in FileRuns
  PROVE  /\ SQL!GetRunStats(r).total = OnDisk!GetRunStats.total
         /\ SQL!GetRunStats(r).of["success"]
              = OnDisk!GetRunStats.of["success"] + Cardinality(Apart)
<1> DEFINE S == SQL!TasksOf(disk.run)
           T == DOMAIN disk.tables
           SS == {t \in S : tasks[t].status = "success"}
           TT == {k \in T : disk.tables[k].status = "success"}
<1>0. disk # Corrupt /\ disk.status = "running" /\ r = disk.run
  BY FileRunFacts
<1>1. IsFiniteSet(T)
  <2>1. PICK n \in 0 .. Len(KeyOrder) : T = FirstKeys(n)
    BY <1>0 DEF ResumeInv, FileIdsInv
  <2> QED BY <2>1, FirstKeysFacts
<1>3. /\ \A k \in T : \E t \in S : tasks[t].key = k
      /\ \A t \in S : /\ tasks[t].key \in T
                      /\ disk.tables[tasks[t].key].status = "success" => tasks[t].status = "success"
                      /\ tasks[t].key \in Apart <=>
                           /\ tasks[t].status = "success"
                           /\ disk.tables[tasks[t].key].status # "success"
      /\ \A t, u \in S : tasks[t].key = tasks[u].key => t = u
      /\ \A k \in Apart : \E t \in S : tasks[t].key = k
  BY <1>0, TasksAreTables, ApartFacts DEF Level
<1>4. Cardinality(S) = Cardinality(T)
  <2> DEFINE f == [t \in S |-> tasks[t].key]
  <2> HIDE DEF S, T
  <2>1. /\ f \in [S -> T]
        /\ \A k \in T : \E t \in S : f[t] = k
        /\ \A t, u \in S : f[t] = f[u] => t = u
    BY <1>3
  <2> HIDE DEF f
  <2> QED BY <1>1, <2>1, SameCount
<1>5. Apart \subseteq T /\ Apart \cap TT = {}
  <2> HIDE DEF S, T
  <2> QED BY <1>3
<1>6. IsFiniteSet(TT) /\ IsFiniteSet(Apart)
  BY <1>1, <1>5, FS_Subset
<1>7. Cardinality(SS) = Cardinality(TT \cup Apart)
  <2> DEFINE f == [t \in SS |-> tasks[t].key]
  <2> HIDE DEF S, T
  <2>1. f \in [SS -> TT \cup Apart]
    BY <1>3
  <2>2. \A k \in TT \cup Apart : \E t \in SS : f[t] = k
    BY <1>3
  <2>3. \A t, u \in SS : f[t] = f[u] => t = u
    BY <1>3
  <2>4. IsFiniteSet(TT \cup Apart)
    BY <1>6, FS_Union
  <2> HIDE DEF f, SS, TT
  <2> QED BY <2>1, <2>2, <2>3, <2>4, SameCount
<1>8. Cardinality(TT \cup Apart) = Cardinality(TT) + Cardinality(Apart)
  <2>1. /\ Cardinality(TT \cup Apart)
             = Cardinality(TT) + Cardinality(Apart) - Cardinality(TT \cap Apart)
        /\ TT \cap Apart = {}
    BY <1>5, <1>6, FS_Union
  <2>2. Cardinality(TT) \in Nat /\ Cardinality(Apart) \in Nat
    BY <1>6, FS_CardinalityType
  <2>3. Cardinality(TT \cap Apart) = 0
    BY <2>1, FS_EmptySet
  <2> QED BY <2>1, <2>2, <2>3
<1>9. /\ SQL!GetRunStats(disk.run).total = SQL!Cardinality(S)
      /\ SQL!GetRunStats(disk.run).of["success"] = SQL!Cardinality(SS)
  BY DEF SQL!GetRunStats
<1>10. /\ OnDisk!GetRunStats.total = OnDisk!Cardinality(T)
       /\ OnDisk!GetRunStats.of["success"] = OnDisk!Cardinality(TT)
  BY DEF OnDisk!GetRunStats, OnDisk!Keys
<1> HIDE DEF S, T, SS, TT
<1>11. /\ SQL!Cardinality(S) = OnDisk!Cardinality(T)
       /\ SQL!Cardinality(SS) = Cardinality(SS) /\ OnDisk!Cardinality(TT) = Cardinality(TT)
  BY <1>4, SameCardinality
<1> QED BY <1>0, <1>7, <1>8, <1>9, <1>10, <1>11

LEMMA SameGranularityOf ==
  ASSUME StateInv, ResumeInv
  PROVE  SameGranularity
<1> SUFFICES ASSUME ~torn, NEW r \in FileRuns
             PROVE  /\ \A k \in TaskKeys \ Apart : SQLAnswers(r, k) = FileAnswers(k)
                    /\ \A k \in Apart : /\ SQLAnswers(r, k) = {<<TRUE, SQL!NoProgress>>}
                                        /\ FileAnswers(k) = {<<FALSE, File!NoProgress>>}
                    /\ Shown(SQL!TasksWithProgress(r)) = Shown(OnDisk!TasksWithProgress)
                    /\ SQL!GetRunStats(r).total = OnDisk!GetRunStats.total
                    /\ SQL!GetRunStats(r).of["success"]
                         = OnDisk!GetRunStats.of["success"] + Cardinality(Apart)
  BY DEF SameGranularity
<1>1. disk # Corrupt /\ disk.status = "running" /\ r = disk.run
  BY FileRunFacts
<1>2. \A k \in TaskKeys \ Apart : SQLAnswers(r, k) = FileAnswers(k)
  BY SameAnswers
<1>3. \A k \in Apart : /\ SQLAnswers(r, k) = {<<TRUE, SQL!NoProgress>>}
                       /\ FileAnswers(k) = {<<FALSE, File!NoProgress>>}
  <2>1. Apart \subseteq TaskKeys
    BY DEF Apart
  <2> QED BY <2>1, SameAnswers DEF SQL!NoProgress, File!NoProgress
<1>4. Shown(SQL!TasksWithProgress(r)) = Shown(OnDisk!TasksWithProgress)
  BY <1>1, SameShown
<1> QED BY <1>2, <1>3, <1>4, SameCounted

\* When a resume finds its tasks in the file (it meets no table that the run did not have),
\* GetCompletedTables, GetProgress and GetRunStats of a whole state file
\* (checkpoint/filestate.go) answer what those of the database (checkpoint/state.go) answer,
\* after any operations, crashes, restarts and cleanups: a resume goes on from the same key.
\* They part only over a complete task that has no progress, which the file may call
\* incomplete: ClearTransferProgress of the file takes the completion back as well.
THEOREM FileResumesLikeDatabase ==
  ASSUME "newtask" \notin Faults
  PROVE  Spec => []SameGranularity
<1>1. StateInv /\ ResumeInv => SameGranularity
  BY SameGranularityOf
<1> QED BY <1>1, StateInvariant, ResumeInvariant, PTL

\* Under the same condition, a state file that crashes have torn while it was written
\* (filestate.go save) claims no table and no key that the database does not: it may repeat
\* work, never skip it.
THEOREM TornFileNeverAhead ==
  ASSUME "newtask" \notin Faults
  PROVE  Spec => []FileNeverAhead
<1>1. StateInv /\ ResumeInv => FileNeverAhead
  BY NeverAheadOf
<1> QED BY <1>1, StateInvariant, ResumeInvariant, PTL
=============================================================================

----------------------------- MODULE TargetMode -----------------------------
(***************************************************************************)
(* The two TargetModeStrategies (orchestrator/target_mode.go) around the   *)
(* load of a table: PrepareTables, the calls of WriteBatch or UpsertBatch  *)
(* by concurrent workers, Finalize; over the Writer of any driver.  A run  *)
(* that ends, or is killed, may be followed by another.                    *)
(*                                                                         *)
(* A phase of dropRecreateStrategy starts a goroutine for each table or    *)
(* object, todo, and waits for all of them.  A goroutine goes on at step:  *)
(* "ask" for a statement, "save" the answer, "saving", "exec".             *)
(***************************************************************************)
EXTENDS DDLAnswers

CONSTANT MaxRuns     \* bound on the runs

PG == INSTANCE PostgresWriter
MY == INSTANCE MySQLWriter
MS == INSTANCE MSSQLWriter
ORA == INSTANCE OracleWriter

Driver == setting.driver

\* The goroutines of a phase.  The statement of "create", and of MySQL's "drop", is kept.
Job(t, what) ==
  [table |-> t, what |-> what,
   step |-> IF what = "create" \/ (what = "drop" /\ Driver = "mysql") THEN "ask" ELSE "exec"]
JobsFor(phase) ==
  CASE phase = "drop" -> {Job(t, "drop") : t \in Tables}
    [] phase = "create" -> {Job(t, "create") : t \in Tables}
    [] phase = "sequences" -> {Job(t, "sequence") : t \in Tables}
    [] phase = "indexes" -> {Job(t, "index") : t \in Tables}
    [] phase = "foreignKeys" -> {Job(r[1], "foreignKey") : r \in Refs}
    [] phase = "checks" -> {Job(t, "check") : t \in Tables}
    [] OTHER -> {}

StartPhase(phase) == [run EXCEPT !.phase = phase, !.todo = JobsFor(phase), !.failed = FALSE]

\* The goroutine of job j ends, or goes on as job k.
Ends(j, err) == run' = [run EXCEPT !.todo = @ \ {j}, !.failed = @ \/ err]
GoesOn(j, k) == run' = [run EXCEPT !.todo = (@ \ {j}) \cup {k}]
AtStep(j, step) == GoesOn(j, [j EXCEPT !.step = step])

\* A DDL statement of job j: it makes the tables newTable, or fails, with or without
\* having taken effect; the goroutine ends unless it goes on as another job.
DDL(j, newTable, follows) ==
  /\ \/ /\ table' = newTable
        /\ IF follows = {} THEN Ends(j, FALSE) ELSE \E k \in follows : GoesOn(j, k)
        /\ UNCHANGED faults
     \/ /\ Fault
        /\ table' \in {table, newTable}
        /\ Ends(j, TRUE)
  /\ UNCHANGED <<setting, staging, call, ddlVars>>

DDLRejected(j) == Ends(j, TRUE) /\ UNCHANGED <<setting, table, staging, call, faults, ddlVars>>

(***************************************************************************)
(* GenerateTableDDL and GenerateDropTableDDL.                              *)
(***************************************************************************)

KeyOf(j) == <<j.table, j.what>>

\* An error of the language model, or an answer that is no such statement, ends a
\* goroutine of "create"; DropTable falls back on its own statement.
AskModel(j) ==
  /\ j.step = "ask"
  /\ \/ /\ cache[KeyOf(j)] # NoAnswer
        /\ AtStep(j, "exec")
        /\ UNCHANGED ddlVars
     \/ /\ cache[KeyOf(j)] = NoAnswer
        /\ GenerateDDL(KeyOf(j))
        /\ AtStep(j, "save")
        /\ UNCHANGED <<cacheFile, saving>>
     \/ /\ cache[KeyOf(j)] = NoAnswer
        /\ IF j.what = "drop" THEN AtStep(j, "exec") ELSE Ends(j, TRUE)
        /\ UNCHANGED ddlVars
  /\ UNCHANGED <<setting, table, staging, call, faults>>

SaveAnswer(j) ==
  /\ \/ j.step = "save" /\ SaveBegins(KeyOf(j)) /\ AtStep(j, "saving")
     \/ j.step = "saving" /\ SaveEnds(KeyOf(j)) /\ AtStep(j, "exec")
  /\ UNCHANGED <<setting, table, staging, call, faults>>

(***************************************************************************)
(* dropRecreateStrategy.                                                   *)
(***************************************************************************)

DropRejected(t) ==
  CASE Driver = "postgres" -> PG!DropRejected(t) [] Driver = "mysql" -> MY!DropRejected(t)
    [] Driver = "mssql" -> MS!DropRejected(t) [] Driver = "oracle" -> ORA!DropRejected(t)
DropTable(t) ==
  CASE Driver = "postgres" -> PG!DropTable(t) [] Driver = "mysql" -> MY!DropTable(t)
    [] Driver = "mssql" -> MS!DropTable(t) [] Driver = "oracle" -> ORA!DropTable(t)
CreateTable(t, withKey) ==
  CASE Driver = "postgres" -> PG!CreateTable(t, withKey) [] Driver = "mysql" -> MY!CreateTable(t, withKey)
    [] Driver = "mssql" -> MS!CreateTable(t, withKey) [] Driver = "oracle" -> ORA!CreateTable(t, withKey)
CreatePrimaryKey(t) ==
  CASE Driver = "postgres" -> PG!CreatePrimaryKey(t) [] Driver = "mysql" -> MY!CreatePrimaryKey(t)
    [] Driver = "mssql" -> MS!CreatePrimaryKey(t) [] Driver = "oracle" -> ORA!CreatePrimaryKey(t)
ResetSequence(t) ==
  CASE Driver = "postgres" -> PG!ResetSequence(t) [] Driver = "mysql" -> MY!ResetSequence(t)
    [] Driver = "mssql" -> MS!ResetSequence(t) [] Driver = "oracle" -> ORA!ResetSequence(t)

TableExists(t) ==
  CASE Driver = "postgres" -> PG!TableExists(t) [] Driver = "mysql" -> MY!TableExists(t)
    [] Driver = "mssql" -> MS!TableExists(t) [] Driver = "oracle" -> ORA!TableExists(t)
HasPrimaryKey(t) ==
  CASE Driver = "postgres" -> PG!HasPrimaryKey(t) [] Driver = "mysql" -> MY!HasPrimaryKey(t)
    [] Driver = "mssql" -> MS!HasPrimaryKey(t) [] Driver = "oracle" -> ORA!HasPrimaryKey(t)
CreateObject(t, what) ==
  CASE Driver = "postgres" -> PG!CreateObject(t, what) [] Driver = "mysql" -> MY!CreateObject(t, what)
    [] Driver = "mssql" -> MS!CreateObject(t, what) [] Driver = "oracle" -> ORA!CreateObject(t, what)

\* The answer for MySQL's DROP may be a statement that the database rejects, or one that
\* drops something else.
Drop(j) ==
  /\ j.what = "drop" /\ j.step = "exec"
  /\ LET answer == cache[KeyOf(j)]
     IN IF DropRejected(j.table) \/ answer = "rejected" THEN DDLRejected(j)
        ELSE DDL(j, IF answer = "other" THEN table ELSE DropTable(j.table), {})

\* CREATE TABLE is rejected as well if there is such a table.
CreateTableAndPK(j) ==
  \/ /\ j.what = "create" /\ j.step = "exec"
     /\ LET answer == cache[KeyOf(j)]
        IN IF answer = "rejected" \/ table[j.table].exists THEN DDLRejected(j)
           ELSE DDL(j, CreateTable(j.table, answer = "right"), {Job(j.table, "primaryKey")})
  \/ j.what = "primaryKey" /\ DDL(j, CreatePrimaryKey(j.table), {})

\* Faulty: the errors of the goroutines are read before all of them are done.
PrepareEndsEarly ==
  /\ run.phase \in {"drop", "create"}
  /\ run.phase = "drop" => run.todo = {}
  /\ run' = IF run.failed THEN StartPhase("aborted")
            ELSE IF run.phase = "drop" THEN StartPhase("create") ELSE StartPhase("load")
  /\ UNCHANGED <<setting, table, staging, call, faults, ddlVars>>

\* A failure of the first two phases is an error of PrepareTables; Finalize only warns.
PrepareEnds ==
  /\ run.todo = {} /\ run.phase \in {"drop", "create"}
  /\ run' = IF run.failed THEN StartPhase("aborted")
            ELSE IF run.phase = "drop" THEN StartPhase("create") ELSE StartPhase("load")
  /\ UNCHANGED <<setting, table, staging, call, faults, ddlVars>>

\* GenerateFinalizationDDL asks for each object again: the language model may fail, answer
\* something else, or what the database rejects.
GenerateFinalizationDDL(j) == DDL(j, CreateObject(j.table, j.what), {}) \/ DDLRejected(j)

Finalize(j) ==
  \/ j.what = "sequence" /\ DDL(j, ResetSequence(j.table), {})
  \/ j.what \in {"index", "foreignKey", "check"} /\ GenerateFinalizationDDL(j)

FinalizeNext ==
  CASE run.phase = "sequences" -> "indexes" [] run.phase = "indexes" -> "foreignKeys"
    [] run.phase = "foreignKeys" -> "checks" [] run.phase = "checks" -> "finished"

FinalizePhaseEnds ==
  /\ run.todo = {} /\ run.phase \in {"sequences", "indexes", "foreignKeys", "checks"}
  /\ run' = StartPhase(FinalizeNext)
  /\ UNCHANGED <<setting, table, staging, call, faults, ddlVars>>

(***************************************************************************)
(* upsertStrategy: the tables one after the other; an error of a query     *)
(* ends the validation, what is missing is collected and reported.         *)
(***************************************************************************)
Validate ==
  /\ run.phase = "validate"
  /\ \/ /\ run' = StartPhase(IF \A t \in Tables : TableExists(t) /\ HasPrimaryKey(t) THEN "load" ELSE "aborted")
        /\ UNCHANGED faults
     \/ Fault /\ run' = StartPhase("aborted")
  /\ UNCHANGED <<setting, table, staging, call, ddlVars>>

(***************************************************************************)
(* The load: the workers' calls, and a second call after one that failed.  *)
(* A WriteBatch is not repeated here: the next attempt of its job removes  *)
(* the rows first (KeysetTransfer).                                        *)
(***************************************************************************)
Write(w) ==
  /\ run.phase = "load" /\ ~Returned(w)
  /\ \/ Driver = "postgres" /\ PG!Step(w)
     \/ Driver = "mysql" /\ MY!Step(w)
     \/ Driver = "mssql" /\ MS!Step(w)
     \/ Driver = "oracle" /\ ORA!Step(w)
  /\ UNCHANGED ddlVars

Retry(w) ==
  /\ run.phase = "load" /\ Returned(w) /\ call[w].err /\ setting.upsert
  /\ call[w].calls < MaxCalls
  /\ call' = [call EXCEPT ![w] = [NewCall EXCEPT !.calls = call[w].calls + 1]]
  /\ UNCHANGED <<setting, table, staging, faults, run, ddlVars>>

LoadEnds ==
  /\ run.phase = "load" /\ \A w \in Workers : Returned(w)
  /\ run' = IF \E w \in Workers : call[w].err THEN StartPhase("aborted")
            ELSE IF setting.upsert THEN StartPhase("finished") ELSE StartPhase("sequences")
  /\ UNCHANGED <<setting, table, staging, call, faults, ddlVars>>

\* The process is gone, whatever its goroutines were doing, and a new one begins: the
\* rows that are there are old ones, and temporary tables are gone.
AfterRun(t) == [table[t] EXCEPT !.rows = [k \in Keys |-> IF @[k] = "new" THEN "old" ELSE @[k]]]

StartRun(number) ==
  [number |-> number, phase |-> IF setting.upsert THEN "validate" ELSE "drop",
   todo |-> IF setting.upsert THEN {} ELSE JobsFor("drop"), failed |-> FALSE]

RunAgain ==
  /\ run.number < MaxRuns
  /\ table' = [t \in Tables |-> AfterRun(t)]
  /\ staging' = [w \in Workers |-> NoStaging]
  /\ call' = [w \in Workers |-> NewCall]
  /\ run' = StartRun(run.number + 1)
  /\ LoadCache
  /\ UNCHANGED <<setting, faults>>

InitialTables ==
  LET old == [k \in Keys |-> "old"]
      kept(t, exists, pk, rows, refs) ==
        [exists |-> exists, pk |-> pk, rows |-> rows, next |-> 1, refs |-> refs]
      earlier == [exists : BOOLEAN, pk : BOOLEAN, full : BOOLEAN, linked : BOOLEAN]
  IN {[t \in Tables |-> IF ~e[t].exists THEN NoTable
                        ELSE kept(t, TRUE, e[t].pk, IF e[t].full THEN old ELSE NoTable.rows,
                                  IF e[t].linked THEN {u \in Tables : <<t, u>> \in Refs /\ e[u].exists}
                                  ELSE {})] : e \in [Tables -> earlier]}

Init ==
  /\ setting \in Settings
  /\ table \in InitialTables
  /\ staging = [w \in Workers |-> NoStaging]
  /\ call = [w \in Workers |-> NewCall]
  /\ faults = 0
  /\ run = StartRun(1)
  /\ InitAnswers

Next ==
  \/ \E j \in run.todo : AskModel(j) \/ SaveAnswer(j) \/ Drop(j) \/ CreateTableAndPK(j) \/ Finalize(j)
  \/ PrepareEnds \/ FinalizePhaseEnds \/ Validate \/ LoadEnds
  \/ \E w \in Workers : Write(w) \/ Retry(w)
  \/ RunAgain

Spec == Init /\ [][Next]_<<targetVars, ddlVars>>

(***************************************************************************)
(* Properties.                                                             *)
(***************************************************************************)

Loading == run.phase \in {"load", "sequences", "indexes", "foreignKeys", "checks", "finished"}

\* PrepareTables returns nil in drop_recreate mode only when each table is there with its
\* key, unless CREATE TABLE left it out and the driver does not add it, and none of its
\* old rows: whatever the goroutines' order and failures, and whatever answers of the
\* language model this run and the ones before have kept.
PreparedMeansRecreated ==
  Loading /\ ~setting.upsert =>
    \A t \in Tables :
      /\ table[t].exists
      /\ table[t].pk \/ (Driver # "postgres" /\ cache[t, "create"] = "noKey")
      /\ \A k \in Keys : table[t].rows[k] # "old"

\* The staging table loses its rows as the statement that fills it commits.
StagingForgets == setting.upsert /\ (Driver = "postgres" \/ (Driver = "oracle" /\ setting.gtt))

\* UpsertBatch updates the rows that have changed and inserts the new ones: when it returns
\* nil, each row of the batch is in the target as the batch carries it.
UpsertWritesAll ==
  \A w \in Workers :
    setting.upsert /\ Returned(w) /\ ~call[w].err =>
      \A k \in BatchKeys(w) : table[Loaded].rows[k] = "new"

\* The row that was there when its change escapes the MERGE of SQL Server.
Unnoticed(k) ==
  Driver = "mssql" /\ setting.upsert /\ k \in Undetected /\ table[Loaded].rows[k] = "old"

\* WriteBatch or UpsertBatch returns nil only when each row of the batch is in the target,
\* and as the batch carries it unless its change escapes the MERGE of SQL Server: after
\* deadlocks that are retried, lost answers, earlier calls that failed half-way, and beside
\* another worker.  Staging tables that forget are left out; of them, and of changes that
\* escape, UpsertWritesAll is about.
NilMeansWritten ==
  \A w \in Workers :
    Returned(w) /\ ~call[w].err /\ ~StagingForgets =>
      \A k \in BatchKeys(w) : table[Loaded].rows[k] = "new" \/ Unnoticed(k)

\* A WriteBatch that fails leaves all or nothing with the drivers that copy in one
\* transaction, the first rows of the batch with the others: what the removal of rows
\* before the next attempt relies on.
TornIsPrefix ==
  \A w \in Workers :
    ~setting.upsert /\ Returned(w) /\ call[w].err =>
      LET written == {i \in DOMAIN BatchOf[w] : table[Loaded].rows[BatchOf[w][i]] = "new"}
      IN /\ \A i \in written : 1 .. i \subseteq written
         /\ Driver \in {"postgres", "mssql"} => written \in {{}, DOMAIN BatchOf[w]}

\* When Finalize has met no error, the next identity value of each table is one that no
\* row has, empty tables included.  Oracle's identity sequences, which cannot be altered,
\* are left out.
NextIdentityFree ==
  run.phase = "finished" /\ ~setting.upsert /\ faults = 0
    /\ (Driver = "oracle" => setting.ownSequence) =>
      \A t \in Tables : table[t].next \notin KeysOf(t) /\ table[t].next > MaxKeyOf(t)

=============================================================================

---------------------------- MODULE MSSQLWriter ---------------------------
(***************************************************************************)
(* The Writer of the SQL Server driver (mssql/writer.go).  See             *)
(* TargetDatabase for the terms.                                           *)
(***************************************************************************)
EXTENDS TargetDatabase

\* DROP TABLE IF EXISTS, rejected while another table references the table.
DropTable(t) == [table EXCEPT ![t] = NoTable]
DropRejected(t) == \E u \in Tables \ {t} : t \in table[u].refs

\* Whether the table has its key is up to the CREATE TABLE of the language model;
\* CreatePrimaryKey does nothing.
CreateTable(t, withKey) == [table EXCEPT ![t] = EmptyTable(withKey)]
CreatePrimaryKey(t) == table

\* What the catalog says of a table.
TableExists(t) == table[t].exists
HasPrimaryKey(t) == table[t].pk

\* The statements of CreateIndex, CreateForeignKey and CreateCheckConstraint.
CreateObject(t, what) ==
  IF what = "foreignKey" THEN [table EXCEPT ![t].refs = References(t)] ELSE table

\* DBCC CHECKIDENT RESEED with the largest key; an empty table keeps its own.
ResetSequence(t) ==
  IF KeysOf(t) = {} THEN table ELSE [table EXCEPT ![t].next = MaxKeyOf(t) + 1]

\* Faulty: the rows are copied without a transaction.
WriteBatchUntransacted(w) ==
  /\ call[w].pc = "start" /\ ~setting.upsert
  /\ IF Rejects(BatchKeys(w)) THEN Rejected(w, "returned")
     ELSE \/ Statement(w, WithRows(BatchKeys(w)), staging, "returned", "returned")
          \/ Fault /\ Fails(w, "returned") /\ table' = WithRows({BatchOf[w][1]})
             /\ UNCHANGED <<setting, staging, run>>

\* A bulk copy, its count of rows checked, and the commit, in one transaction.
WriteBatch(w) ==
  /\ call[w].pc = "start" /\ ~setting.upsert
  /\ IF Rejects(BatchKeys(w)) THEN Rejected(w, "returned")
     ELSE Statement(w, WithRows(BatchKeys(w)), staging, "returned", "returned")

\* SELECT TOP 0 * INTO #stg_..., which goes when the session ends; then the columns and
\* their types, which getSpatialColumns and getStagingTableColumns only read.
CreateStaging(w) ==
  /\ call[w].pc = "start" /\ setting.upsert
  /\ Statement(w, table, [staging EXCEPT ![w] = [exists |-> TRUE, rows |-> {}]], "bulk", "close")

\* bulkInsertToTemp, a transaction.
BulkInsertToTemp(w) ==
  /\ call[w].pc = "bulk"
  /\ Statement(w, table, [staging EXCEPT ![w].rows = BatchKeys(w)], "merge", "close")

\* Faulty: the rows of the staging table are not merged after a deadlock.
MergeDeadlockIgnored(w) ==
  /\ call[w].pc = "merge"
  /\ \/ Statement(w, WithRows(Merged(staging[w].rows)), staging, "close", "close")
     \/ /\ Fault
        /\ Goto(w, "close")
        /\ UNCHANGED <<setting, table, staging, run>>

\* executeMergeWithRetry: a MERGE that the database chose as the victim of a deadlock is
\* sent again.  IDENTITY_INSERT is switched on and off around it.  Without a column to
\* compare, its WHEN MATCHED AND () is no SQL.
Merge(w) ==
  /\ call[w].pc = "merge"
  /\ \/ setting.spatialOnly /\ Rejected(w, "close")
     \/ ~setting.spatialOnly /\ Statement(w, WithRows(Merged(staging[w].rows)), staging, "close", "close")
     \/ /\ Fault
        /\ IF call[w].tries = MaxTries THEN Fails(w, "close")
           ELSE call' = [call EXCEPT ![w].tries = @ + 1]
        /\ UNCHANGED <<setting, table, staging, run>>

\* conn.Close: the session's staging table is gone before the next call.
CloseSession(w) ==
  /\ call[w].pc = "close"
  /\ staging' = [staging EXCEPT ![w] = NoStaging]
  /\ Goto(w, "returned")
  /\ UNCHANGED <<setting, table, faults, run>>

Step(w) == WriteBatch(w) \/ CreateStaging(w) \/ BulkInsertToTemp(w) \/ Merge(w) \/ CloseSession(w)
=============================================================================

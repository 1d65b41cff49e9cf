---------------------------- MODULE OracleWriter --------------------------
(***************************************************************************)
(* The Writer of the Oracle driver (oracle/writer.go).  See TargetDatabase *)
(* for the terms.  Each statement is sent on whatever session the pool     *)
(* gives, and commits.                                                     *)
(***************************************************************************)
EXTENDS TargetDatabase

\* DROP TABLE ... PURGE, rejected while another table references the table; a table that
\* does not exist (ORA-00942) is no error.
DropTable(t) == [table EXCEPT ![t] = NoTable]
DropRejected(t) == \E u \in Tables \ {t} : t \in table[u].refs

\* Whether the table has its key is up to the CREATE TABLE of the language model;
\* CreatePrimaryKey does nothing.
CreateTable(t, withKey) == [table EXCEPT ![t] = EmptyTable(withKey)]
CreatePrimaryKey(t) == table

\* What the catalog says of a table.
TableExists(t) == table[t].exists
HasPrimaryKey(t) == table[t].pk

\* The statements of CreateIndex, CreateForeignKey and CreateCheckConstraint.
CreateObject(t, what) ==
  IF what = "foreignKey" THEN [table EXCEPT ![t].refs = References(t)] ELSE table

\* A sequence SEQ_<table>_<column> starts again after the largest key; that of an identity
\* column (ISEQ$$_...) cannot be altered and is skipped.
ResetSequence(t) ==
  IF KeysOf(t) = {} \/ ~setting.ownSequence THEN table
  ELSE [table EXCEPT ![t].next = MaxKeyOf(t) + 1]

\* On to the next batch of rows, or to the end of the call.
AfterChunk(w, end) ==
  call' = [call EXCEPT ![w].pos = LastRowOfChunk(w, @) + 1,
                       ![w].pc = IF LastRowOfChunk(w, call[w].pos) = Len(BatchOf[w])
                                 THEN end ELSE @]

\* WriteBatch: insertBatch sends each batch of rows as one statement.
InsertChunk(w) ==
  LET chunk == Chunk(w, call[w].pos)
  IN /\ call[w].pc = "start" /\ ~setting.upsert
     /\ IF Rejects(chunk) THEN Rejected(w, "returned")
        ELSE \/ /\ table' = WithRows(chunk)
                /\ AfterChunk(w, "returned")
                /\ UNCHANGED <<setting, staging, faults, run>>
             \/ /\ Fault
                /\ table' \in {table, WithRows(chunk)}
                /\ Fails(w, "returned")
                /\ UNCHANGED <<setting, staging, run>>

\* upsertWithStagingTable: a global temporary table, or if it cannot be created a table.  If
\* there is a table of that name (ORA-00955), left by an earlier call, it is truncated and
\* used; only an earlier call of the same worker is considered.
CreateGlobalTemporary(w) ==
  /\ call[w].pc = "start" /\ setting.upsert
  /\ \/ /\ setting.gtt
        /\ staging' = [staging EXCEPT ![w] = [exists |-> TRUE, rows |-> {}]]
        /\ Goto(w, "bulkTemporary")
        /\ UNCHANGED <<setting, table, faults, run>>
     \/ /\ staging[w].exists
        /\ staging' = [staging EXCEPT ![w].rows = {}]
        /\ (Goto(w, "bulk") \/ (setting.gtt /\ Goto(w, "bulkTemporary")))
        /\ UNCHANGED <<setting, table, faults, run>>
     \/ /\ \/ ~setting.gtt /\ UNCHANGED faults
           \/ Fault
        /\ Goto(w, "create")
        /\ UNCHANGED <<setting, table, staging, run>>

\* bulkInsertToStaging: ON COMMIT DELETE ROWS, and each batch of rows commits.
BulkInsertTemporary(w) ==
  /\ call[w].pc = "bulkTemporary"
  /\ Statement(w, table, [staging EXCEPT ![w].rows = {}], "merge", "drop")

\* upsertWithRegularStagingTable; the answer of the CREATE may be lost.
CreateRegular(w) ==
  /\ call[w].pc = "create"
  /\ Statement(w, table, [staging EXCEPT ![w] = [exists |-> TRUE, rows |-> {}]], "bulk", "returned")

\* bulkInsertToStaging: each batch of rows is a statement.
BulkInsert(w) ==
  LET filled == [staging EXCEPT ![w].rows = @ \cup Chunk(w, call[w].pos)]
  IN /\ call[w].pc = "bulk"
     /\ \/ /\ staging' = filled
           /\ AfterChunk(w, "merge")
           /\ UNCHANGED <<setting, table, faults, run>>
        \/ /\ Fault
           /\ staging' \in {staging, filled}
           /\ Fails(w, "drop")
           /\ UNCHANGED <<setting, table, run>>

\* MERGE INTO the target USING the staging table.
Merge(w) ==
  /\ call[w].pc = "merge"
  /\ Statement(w, WithRows(staging[w].rows), staging, "drop", "drop")

\* The deferred DROP TABLE, with a context of its own, of a table that the call has created;
\* its error is logged, which counts as no fault.
DropStaging(w) ==
  /\ call[w].pc = "drop"
  /\ staging' \in {staging, [staging EXCEPT ![w] = NoStaging]}
  /\ Goto(w, "returned")
  /\ UNCHANGED <<setting, table, faults, run>>

Step(w) ==
  \/ InsertChunk(w) \/ CreateGlobalTemporary(w) \/ BulkInsertTemporary(w) \/ CreateRegular(w)
  \/ BulkInsert(w) \/ Merge(w) \/ DropStaging(w)
=============================================================================

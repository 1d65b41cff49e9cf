-------------------------- MODULE PostgresWriter --------------------------
(***************************************************************************)
(* The Writer of the PostgreSQL driver (postgres/writer.go).  See          *)
(* TargetDatabase for the terms.                                           *)
(***************************************************************************)
EXTENDS TargetDatabase

\* DROP TABLE IF EXISTS ... CASCADE, which drops the foreign keys that reference it.
DropTable(t) ==
  [u \in Tables |-> IF u = t THEN NoTable ELSE [table[u] EXCEPT !.refs = @ \ {t}]]
DropRejected(t) == FALSE

\* The CREATE TABLE of the language model, which may hold the primary key.
CreateTable(t, withKey) == [table EXCEPT ![t] = EmptyTable(withKey)]

\* ADD CONSTRAINT ... PRIMARY KEY, unless HasPrimaryKey.
CreatePrimaryKey(t) == [table EXCEPT ![t].pk = TRUE]

\* What the catalog says of a table.
TableExists(t) == table[t].exists
HasPrimaryKey(t) == table[t].pk

\* The statements of CreateIndex, CreateForeignKey and CreateCheckConstraint, with the lower
\* case names that the table was created with.
CreateObject(t, what) ==
  IF what = "foreignKey" THEN [table EXCEPT ![t].refs = References(t)] ELSE table

\* setval of the largest key, or 1: the next value is one more.  An error is logged.
ResetSequence(t) == [table EXCEPT ![t].next = IF KeysOf(t) = {} THEN 2 ELSE MaxKeyOf(t) + 1]

\* COPY into the target is one statement.
WriteBatch(w) ==
  /\ call[w].pc = "start" /\ ~setting.upsert
  /\ IF Rejects(BatchKeys(w)) THEN Rejected(w, "returned")
     ELSE Statement(w, WithRows(BatchKeys(w)), staging, "returned", "returned")

\* CREATE TEMP TABLE IF NOT EXISTS ... ON COMMIT DELETE ROWS, in a session that the
\* worker keeps for the call.
CreateStaging(w) ==
  /\ call[w].pc = "start" /\ setting.upsert
  /\ Statement(w, table, [staging EXCEPT ![w].exists = TRUE], "copy", "returned")

\* COPY into the staging table: its transaction commits at the end of the statement,
\* and with it go the rows.
CopyToStaging(w) ==
  /\ call[w].pc = "copy"
  /\ Statement(w, table, [staging EXCEPT ![w].rows = {}], "upsert", "returned")

\* INSERT ... SELECT ... ON CONFLICT DO UPDATE SET, whose list of columns must not be empty,
\* WHERE a column IS DISTINCT FROM what is there, or of all rows if it has no column but
\* spatial ones to compare.
UpsertFromStaging(w) ==
  /\ call[w].pc = "upsert"
  /\ IF setting.pkOnly THEN Rejected(w, "returned")
     ELSE Statement(w, WithRows(IF setting.spatialOnly THEN staging[w].rows ELSE Merged(staging[w].rows)),
                    staging, "truncate", "returned")

\* TRUNCATE of the staging table; an error is ignored.
TruncateStaging(w) ==
  /\ call[w].pc = "truncate"
  /\ staging' = [staging EXCEPT ![w].rows = {}]
  /\ Goto(w, "returned")
  /\ UNCHANGED <<setting, table, faults, run>>

Step(w) == WriteBatch(w) \/ CreateStaging(w) \/ CopyToStaging(w) \/ UpsertFromStaging(w) \/ TruncateStaging(w)
=============================================================================

---------------------------- MODULE MySQLWriter ---------------------------
(***************************************************************************)
(* The Writer of the MySQL driver (mysql/writer.go).  See TargetDatabase   *)
(* for the terms.                                                          *)
(***************************************************************************)
EXTENDS TargetDatabase

\* DROP TABLE IF EXISTS with FOREIGN_KEY_CHECKS = 0; who references the table still does.
DropTable(t) == [table EXCEPT ![t] = NoTable]
DropRejected(t) == FALSE

\* Whether the table has its key is up to the CREATE TABLE of the language model;
\* CreatePrimaryKey does nothing.
CreateTable(t, withKey) == [table EXCEPT ![t] = EmptyTable(withKey)]
CreatePrimaryKey(t) == table

\* What the catalog says of a table.
TableExists(t) == table[t].exists
HasPrimaryKey(t) == table[t].pk

\* The statements of CreateIndex, CreateForeignKey and CreateCheckConstraint.
CreateObject(t, what) ==
  IF what = "foreignKey" THEN [table EXCEPT ![t].refs = References(t)] ELSE table

\* Faulty: the sequence starts at the largest key.
ResetSequenceToMax(t) ==
  IF KeysOf(t) = {} THEN table ELSE [table EXCEPT ![t].next = MaxKeyOf(t)]

\* AUTO_INCREMENT = the largest key + 1; an empty table keeps its own.
ResetSequence(t) ==
  IF KeysOf(t) = {} THEN table ELSE [table EXCEPT ![t].next = MaxKeyOf(t) + 1]

\* On to the next chunk of the batch, or back to the caller.
AfterChunk(w) ==
  call' = [call EXCEPT ![w].pos = LastRowOfChunk(w, @) + 1,
                       ![w].pc = IF LastRowOfChunk(w, call[w].pos) = Len(BatchOf[w])
                                 THEN "returned" ELSE @]

(***************************************************************************)
(* insertBatch or upsertBatch: one INSERT with the rows of a chunk, each a *)
(* transaction.  There is an ON DUPLICATE KEY UPDATE if there is a column  *)
(* to update.                                                              *)
(***************************************************************************)
WriteChunk(w) ==
  LET chunk == Chunk(w, call[w].pos)
      rejected == (setting.upsert => setting.pkOnly) /\ Rejects(chunk)
  IN /\ call[w].pc = "start"
     /\ IF rejected THEN Rejected(w, "returned")
        ELSE \/ /\ table' = WithRows(chunk)
                /\ AfterChunk(w)
                /\ UNCHANGED <<setting, staging, faults, run>>
             \/ /\ Fault
                /\ table' \in {table, WithRows(chunk)}
                /\ Fails(w, "returned")
                /\ UNCHANGED <<setting, staging, run>>

Step(w) == WriteChunk(w)
=============================================================================

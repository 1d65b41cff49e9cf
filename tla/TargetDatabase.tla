-------------------------- MODULE TargetDatabase --------------------------
(***************************************************************************)
(* The target database as the driver.Writers see it: tables, the staging   *)
(* tables of upserts, statements that may fail, and the calls of the write *)
(* workers that send them.  The Writer of each driver is a module of its   *)
(* own: PostgresWriter, MySQLWriter, MSSQLWriter and OracleWriter.         *)
(*                                                                         *)
(* A table maps its keys to versions of a row: Absent, "old" for what the  *)
(* target had, "new" for what a batch carries.  Each statement is a        *)
(* transaction of its own unless its module says otherwise.                *)
(***************************************************************************)
EXTENDS Integers, Sequences, FiniteSets

CONSTANTS
  Tables,
  Loaded,            \* the table that the workers write
  Refs,              \* the foreign keys: pairs of a table and the table it references
  Workers,
  BatchOf,           \* BatchOf[w]: the keys of the rows of worker w
  Keys,              \* the keys of rows, 1 .. n
  ChunkSize,         \* the rows of one statement of MySQL, of one batch of Oracle
  MaxFaults,         \* bound on the statements that fail
  MaxTries,          \* executeMergeWithRetry: 5
  MaxCalls,          \* bound on the calls of a worker
  Undetected,        \* the rows that have changed where an upsert does not compare them
  Settings           \* [driver, upsert, gtt, pkOnly, spatialOnly, ownSequence]

ASSUME TargetAssumption ==
  /\ Loaded \in Tables /\ Refs \subseteq Tables \X Tables
  /\ IsFiniteSet(Keys) /\ Keys = 1 .. Cardinality(Keys)
  /\ \A w \in Workers : BatchOf[w] \in Seq(Keys)
  /\ Undetected \subseteq Keys
  /\ ChunkSize \in Nat \ {0} /\ MaxTries \in Nat \ {0} /\ MaxCalls \in Nat \ {0}
  /\ \A s \in Settings : s.driver \in {"postgres", "mysql", "mssql", "oracle"}

VARIABLES
  setting,           \* the driver and the mode of this behaviour
  table,             \* table[t]: a table or NoTable
  staging,           \* staging[w]: the keys in the staging table of w, or NoStaging
  call,              \* call[w]: the call of worker w
  faults,
  run                \* the progress of the strategy, see TargetMode

targetVars == <<setting, table, staging, call, faults, run>>

NoTable == [exists |-> FALSE, pk |-> FALSE, rows |-> [k \in Keys |-> "absent"], next |-> 1, refs |-> {}]
EmptyTable(pk) == [NoTable EXCEPT !.exists = TRUE, !.pk = pk]
NoStaging == [exists |-> FALSE, rows |-> {}]

KeysOf(t) == {k \in Keys : table[t].rows[k] # "absent"}
MaxKeyOf(t) == IF KeysOf(t) = {} THEN 0 ELSE CHOOSE k \in KeysOf(t) : \A j \in KeysOf(t) : j <= k
BatchKeys(w) == {BatchOf[w][i] : i \in DOMAIN BatchOf[w]}

\* The tables that t references once its foreign keys are there.
References(t) == {r[2] : r \in {s \in Refs : s[1] = t}}

\* The keys of the chunk that starts at row pos of the batch.
LastRowOfChunk(w, pos) ==
  IF pos + ChunkSize > Len(BatchOf[w]) THEN Len(BatchOf[w]) ELSE pos + ChunkSize - 1
Chunk(w, pos) == {BatchOf[w][i] : i \in pos .. LastRowOfChunk(w, pos)}

\* The target after its rows ks have been set to what a batch carries.
WithRows(ks) ==
  [table EXCEPT ![Loaded].rows = [k \in Keys |-> IF k \in ks THEN "new" ELSE @[k]]]

\* The rows that an upsert of ks writes where it compares them with those that are there:
\* the comparison leaves out spatial columns, and that of SQL Server follows the collation.
Merged(ks) == {k \in ks : table[Loaded].rows[k] = "old" => k \notin Undetected}

\* An INSERT of ks without a clause for conflicts fails on a key that is there.
Rejects(ks) == table[Loaded].pk /\ ks \cap KeysOf(Loaded) # {}

NewCall == [pc |-> "start", pos |-> 1, tries |-> 1, err |-> FALSE, calls |-> 1]
Goto(w, pc) == call' = [call EXCEPT ![w].pc = pc]
Fails(w, pc) == call' = [call EXCEPT ![w].pc = pc, ![w].err = TRUE]

Fault == faults < MaxFaults /\ faults' = faults + 1

(***************************************************************************)
(* A statement of worker w that makes the tables newTable and newStaging.  *)
(* It may fail, or take effect and lose its answer; w goes on at next, or  *)
(* at onError with an error to return.                                     *)
(***************************************************************************)
Statement(w, newTable, newStaging, next, onError) ==
  \/ /\ table' = newTable /\ staging' = newStaging
     /\ Goto(w, next)
     /\ UNCHANGED <<setting, faults, run>>
  \/ /\ Fault
     /\ \E done \in BOOLEAN :
          /\ table' = IF done THEN newTable ELSE table
          /\ staging' = IF done THEN newStaging ELSE staging
     /\ Fails(w, onError)
     /\ UNCHANGED <<setting, run>>

\* A statement that the database rejects.
Rejected(w, onError) == Fails(w, onError) /\ UNCHANGED <<setting, table, staging, faults, run>>

Returned(w) == call[w].pc = "returned"
=============================================================================

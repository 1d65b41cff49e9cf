----------------------------- MODULE MCSyncRun -----------------------------
(* Instances of SyncRun for TLC. *)
EXTENDS SyncRun

Side(type, host, port, db) ==
  [type |-> type, host |-> host, port |-> port, database |-> db, schema |-> "", password |-> "p"]

\* The first load and the incremental ones have a file each; a third names one
\* database in two ways.
File(mode, to) ==
  [source |-> Side("", "db1", 0, "sales"), target |-> to, mode |-> mode, dateColumns |-> TRUE,
   workers |-> 0]

MCFiles == {File("", Side("", "db2", 0, "sales")),
            File("upsert", Side("", "db2", 0, "sales")),
            File("upsert", Side("sqlserver", "DB1", 1433, "sales"))}

MCMachines == {[cores |-> 8, defaults |-> [workers |-> 0]]}
=============================================================================

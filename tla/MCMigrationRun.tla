--------------------------- MODULE MCMigrationRun ---------------------------
(* Instances of MigrationRun for TLC. *)
EXTENDS MigrationRun

CONSTANTS big, small

MCTables == {big, small}
MCRowCount == [t \in MCTables |-> IF t = big THEN 3 ELSE 2]
MCFewRows == [t \in MCTables |-> IF t = big THEN 2 ELSE 1]
MCBefore == {<<small, 0>>, <<small, 2>>, <<big, 0>>, <<big, 2>>}
MCForeign == {<<small, 0>>, <<big, 0>>}
MCNone == {}
MCCrashFaults == {"crash", "cancel", "slow"}
MCLostFaults == FaultKinds \ {"slow"}
=============================================================================

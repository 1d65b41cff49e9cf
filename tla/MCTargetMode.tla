---------------------------- MODULE MCTargetMode ----------------------------
(***************************************************************************)
(* The constants of TargetMode for TLC: two tables, one of them empty and  *)
(* referencing the other, two workers with a batch each, and every driver  *)
(* with every option.                                                      *)
(***************************************************************************)
EXTENDS TargetMode, TLC

CONSTANTS t1, t2, w1, w2

MCTables == {t1, t2}
MCRefs == {<<t2, t1>>}
MCWorkers == {w1, w2}
MCBatchOf == (w1 :> <<1, 2>>) @@ (w2 :> <<3>>)
MCKeys == 1 .. 3
MCUndetected == {1, 3}
MCAllDetected == {}

AllSettings ==
  [driver : {"postgres", "mysql", "mssql"}, upsert : BOOLEAN, pkOnly : BOOLEAN,
   spatialOnly : {FALSE}, gtt : {FALSE}, ownSequence : {TRUE}]
    \cup [driver : {"mssql", "postgres"}, upsert : {TRUE}, pkOnly : {FALSE},
          spatialOnly : {TRUE}, gtt : {FALSE}, ownSequence : {TRUE}]
    \cup [driver : {"oracle"}, upsert : BOOLEAN, pkOnly : {FALSE},
          spatialOnly : {FALSE}, gtt : BOOLEAN, ownSequence : BOOLEAN]
=============================================================================

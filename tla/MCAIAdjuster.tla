---------------------------- MODULE MCAIAdjuster ----------------------------
(***************************************************************************)
(* The constants of AIAdjuster for TLC: an AI that always proposes the     *)
(* same adjustment, and samples of a calm machine and of one that is       *)
(* slower and short of memory.                                             *)
(***************************************************************************)
EXTENDS AIAdjuster

MCAnswers == {Adjust("scale_up", "workers", 2)}

MCSamples ==
  {[throughput |-> 100, cpu |-> 50, memory |-> 50], [throughput |-> 70, cpu |-> 50, memory |-> 90]}
=============================================================================

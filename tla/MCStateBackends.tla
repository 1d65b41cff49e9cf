--------------------------- MODULE MCStateBackends ---------------------------
(* Two tasks for TLC, in the order in which the state file holds them. *)
EXTENDS StateBackends

CONSTANTS k1, k2

TwoKeys == {k1, k2}
TwoKeyOrder == <<k1, k2>>
=============================================================================

----------------------------- MODULE TransferJob -----------------------------
(***************************************************************************)
(* What transfer.Execute promises to those who call it again and again     *)
(* until it succeeds: the orchestrator, and the user who resumes.          *)
(*                                                                         *)
(* Nothing is said of readers, chunks or writers.  The job has rows, some  *)
(* of them are in the target, and a checkpoint covers rows that need not   *)
(* be transferred again.                                                   *)
(***************************************************************************)
EXTENDS Integers

CONSTANTS
  SourceRows,       \* the keys of the source table
  JobRows,          \* those that the job transfers
  NoKey             \* there is no checkpoint

VARIABLES
  target,           \* the keys in the target table
  savedKey,         \* the key of the checkpoint, or NoKey
  phase             \* "stopped", "running" or "ok"

vars == <<target, savedKey, phase>>

\* The rows that a job resumed from key k does not transfer again.
Covered(k) == IF k = NoKey THEN {} ELSE {p \in JobRows : p <= k}

Init ==
  /\ target \subseteq SourceRows
  /\ savedKey = NoKey
  /\ phase = "stopped"

\* Rows beyond the checkpoint may be removed, and no other row of the table.
Start ==
  /\ phase # "running"
  /\ phase' = "running"
  /\ target' \subseteq target
  /\ target \ target' \subseteq JobRows \ Covered(savedKey)
  /\ UNCHANGED savedKey

\* Rows of the job are written, in any order and number.
Transfer ==
  /\ phase = "running"
  /\ target \subseteq target' /\ target' \subseteq target \cup JobRows
  /\ UNCHANGED <<savedKey, phase>>

\* The checkpoint moves to k, forwards only, and covers only rows that are there.
CanSave(k) ==
  /\ k \in Int
  /\ savedKey = NoKey \/ savedKey <= k
  /\ Covered(k) \subseteq target

Save ==
  /\ phase = "running"
  /\ CanSave(savedKey')
  /\ UNCHANGED <<target, phase>>

\* The job has been transferred; its last checkpoint may get lost.
Succeed ==
  /\ phase = "running"
  /\ JobRows \subseteq target
  /\ savedKey' = savedKey \/ CanSave(savedKey')
  /\ phase' = "ok"
  /\ UNCHANGED target

\* An error, or the death of the process, with writes in progress.
Stop ==
  /\ phase = "running"
  /\ target \subseteq target' /\ target' \subseteq target \cup JobRows
  /\ phase' = "stopped"
  /\ UNCHANGED savedKey

Next == Start \/ Transfer \/ Save \/ Succeed \/ Stop

Spec == Init /\ [][Next]_vars
=============================================================================

-------------------------- MODULE MCKeysetTransfer --------------------------
(* Instances of KeysetTransfer for TLC. *)
EXTENDS KeysetTransfer, TLC

CONSTANTS w1, w2

MCWorkers == {w1, w2}
MCSymmetry == Permutations(MCWorkers)

\* A table of which the job is the partition 2 .. 7.  With two readers and chunks
\* of two rows: {2, 3} and {4} in the range up to 4, {6, 7} in the other.
MCPartKeys == {1, 2, 3, 4, 6, 7, 8}

\* With one writer, one chunk more than the writer, jobChan and chunkChan hold.
MCLiveKeys == {1, 2, 3, 4}

MCCrashFaults == {"read", "write", "crash", "save"}
MCLiveFaults == {"minmax", "load", "cleanup", "read", "write", "save", "cancel"}
=============================================================================

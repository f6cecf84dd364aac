---------------------------- MODULE MCBoardLock -----------------------------
(* BoardLock for TLC. *)
EXTENDS BoardLock, TLC

\* The processes are interchangeable; used by the runs without liveness.
ProcSymmetry == Permutations(Procs)
=============================================================================

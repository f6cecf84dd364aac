-------------------------- MODULE MCBoardCommands ---------------------------
(* BoardCommands for TLC.                                                  *)
EXTENDS BoardCommands, TLC

ProcSymmetry == Permutations(Procs)
=============================================================================

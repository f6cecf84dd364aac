----------------------------- MODULE MCSchedule -----------------------------
(* Schedule for TLC: every dependency graph over three items, and all ways *)
(* to give the four items of a wave their files.                           *)
EXTENDS Schedule

Flat == {"f1", "f2", "f3"}
=============================================================================

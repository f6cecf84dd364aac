----------------------------- MODULE MCEventLog -----------------------------
(* EventLog for TLC: tasks, whose relation is a list, and captures, whose *)
(* relation is a single id, stand for the seven entities.                 *)
EXTENDS EventLog, TLC

MCKinds == {"task", "capture"}
MCShape == [k \in MCKinds |-> IF k = "task" THEN "many" ELSE "one"]

\* The migration brings one task.
MCSeed == [k \in MCKinds |-> IF k = "task" THEN {1} ELSE {}]

TaskOnly == {"task"}
TaskShape == [k \in TaskOnly |-> "many"]
TaskSeed == [k \in TaskOnly |-> {1}]

ProcSymmetry == Permutations(Procs)
=============================================================================

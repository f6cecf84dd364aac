--------------------------- MODULE MCPlanDispatch ---------------------------
(* PlanDispatch for TLC.                                                   *)
EXTENDS PlanDispatch, TLC

\* The whole plan, whatever its status; or only what is still to do.
AnyStatus == {Statuses}
TodoToo == {Statuses, {"todo"}}
Everything == {Tasks}

\* The report may name none or any one of the tasks; or none is ever written.
OneShipped == {{}} \cup {{t} : t \in Tasks}
NoReports == {}

TaskSymmetry == Permutations(Tasks)
=============================================================================

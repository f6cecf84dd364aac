---------------------------- MODULE MCPlanBridge ----------------------------
(* PlanBridge for TLC: the small plan of the one and the small board of    *)
(* the other.                                                              *)
EXTENDS PlanBridge, MCPlanImport, MCPlanDispatch
=============================================================================

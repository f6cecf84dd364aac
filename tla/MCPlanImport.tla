---------------------------- MODULE MCPlanImport ----------------------------
(* PlanImport for TLC: a plan of three items of which one is dropped and a *)
(* dependency moved in its second version.                                *)
EXTENDS PlanImport

Version(order, deps, brief) ==
  [order |-> order, deps |-> deps, tags |-> [r \in Refs |-> IF r = 1 THEN {"role"} ELSE {}],
   brief |-> brief]

ThreeItems == {1, 2, 3}
First == Version(<<2, 1, 3>>, [r \in Refs |-> CASE r = 1 -> {} [] r = 2 -> {1} [] r = 3 -> {1, 2}], 1)
Second == Version(<<1, 2>>, [r \in Refs |-> IF r = 1 THEN {2, 3} ELSE {}], 2)
Versions == {First, Second}

MCTags == {"role", "security"}
=============================================================================

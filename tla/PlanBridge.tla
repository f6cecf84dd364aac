----------------------------- MODULE PlanBridge -----------------------------
(***************************************************************************)
(* The two halves of the bridge between plans and the board: what comes    *)
(* from a plan (PlanImport) and what goes out to a dispatch folder and     *)
(* comes back as shipped (PlanDispatch).                                   *)
(*                                                                         *)
(* They meet on the board alone, and PlanDispatch takes any board, those   *)
(* that an import leaves among them.  A behaviour is therefore a scene of  *)
(* one of them while the other rests.  The dispatch has two: mark-shipped  *)
(* reads no links, an export reads no report, and what mark-shipped does   *)
(* to the board the operator can do as well.  So one has the links, and    *)
(* the other the reports and mark-shipped.                                 *)
(***************************************************************************)
EXTENDS PlanImport, PlanDispatch

VARIABLE side      \* who acts

bridgeVars == <<side, importVars, dispatchVars>>

BridgeInit ==
  /\ side \in {"import", "export", "ship"}
  /\ ImportInit /\ (side # "import" => features = <<>>)
  /\ DispatchInit

BridgeNext ==
  /\ UNCHANGED side
  /\ \/ side = "import" /\ UNCHANGED dispatchVars /\ ImportNext
     \/ side = "export" /\ UNCHANGED <<importVars, reported, sweep>> /\ DispatchNext
     \/ side = "ship" /\ UNCHANGED <<importVars, blocked_by>> /\ DispatchNext

BridgeSpec == BridgeInit /\ [][BridgeNext]_bridgeVars
=============================================================================

----------------------------- MODULE MCToolSync -----------------------------
(* ToolSync for TLC: two tools of which one has a file of its own and a    *)
(* newer version of a shared one, or whose directories are linked, missing *)
(* or another repository's.  Three runs with one kill, or two with one     *)
(* edit and one kill.                                                      *)
EXTENDS ToolSync

CONSTANTS claude, cursor, agent, notes

MCTool == <<claude, cursor>>

Shared == [f \in Asset |-> IF f = agent THEN 0 ELSE NoFile]
Own == [f \in Asset |-> IF f = agent THEN 1 ELSE 0]
MCFirsts ==
  [repo : {Shared},
   place : {[p \in Place |-> IF p = claude THEN dirs[1] ELSE dirs[2]] :
              dirs \in {<<Own, Shared>>, <<Link, Own>>, <<Foreign, Missing>>}}]

\* A behaviour begins with the edits, or with a run, used up.
MCBilled == {[runs |-> 0, touches |-> MaxTouches, stops |-> 0], [runs |-> 1, touches |-> 0, stops |-> 0]}

Unbilled == {[runs |-> 0, touches |-> 0, stops |-> MaxStops]}
=============================================================================

------------------------------ MODULE Schedule ------------------------------
(***************************************************************************)
(* taskman/plan.py: the two functions that make a schedule of a plan,      *)
(* recompute_waves and pack_lanes.  They share no variable, and one call   *)
(* ends before another begins, so a behaviour is a call of one of them     *)
(* while the other rests.                                                  *)
(***************************************************************************)
EXTENDS Waves, Lanes

VARIABLE called   \* the function that is called

scheduleVars == <<called, wavesVars, lanesVars>>

ScheduleTypeOK == WavesTypeOK /\ LanesTypeOK

ScheduleInit ==
  \/ /\ called = "recompute_waves"
     /\ files = [i \in Members |-> {}]
     /\ deps \in [Items -> SUBSET (Items \cup Outside)]
     /\ WavesInit /\ LanesInit
  \/ /\ called = "pack_lanes"
     /\ deps = [i \in Items |-> {}]
     /\ files \in [Members -> SUBSET Files]
     /\ WavesInit /\ LanesInit

ScheduleNext ==
  \/ called = "recompute_waves" /\ WavesNext /\ UNCHANGED <<called, lanesVars>>
  \/ called = "pack_lanes" /\ LanesNext /\ UNCHANGED <<called, wavesVars>>

ScheduleSpec == ScheduleInit /\ [][ScheduleNext]_scheduleVars

\* A function that is called is run until it returns or raises.
FairScheduleSpec == ScheduleSpec /\ WF_scheduleVars(ScheduleNext)
-----------------------------------------------------------------------------
(* Properties *)

(* Each returns or raises, whatever the plan: the recursion and its memo   *)
(* look at each item once, and no call of find follows a cycle of parents. *)
Terminates ==
  /\ called = "recompute_waves" ~> outcome # "running"
  /\ called = "pack_lanes" ~> pc \in {"packed", "refused"}
=============================================================================

------------------------------ MODULE Registry ------------------------------
(***************************************************************************)
(* taskman/mow/set_registry_status.py: the table of plans,                 *)
(* docs/plans/INDEX.md, and the flip of one row's status.                  *)
(*                                                                         *)
(* A flip reads the table, changes the row and writes the table whole.     *)
(* Nothing is locked.  A desk is one place from which the scripts of       *)
(* taskman/mow are run; CloseOut and Preflight give it more to do.         *)
(***************************************************************************)
EXTENDS Naturals, FiniteSets

CONSTANTS
  Desk,        \* places from which scripts are run
  Stem,        \* plans
  None,        \* no row, no file, no field
  MaxFlips     \* bound: flips

ASSUME RegistryAssumption == MaxFlips \in Nat

VARIABLES
  rows,        \* the Status cell of each plan's row
  desk,        \* what each desk is doing
  flips        \* flips so far

registryVars == <<rows, desk, flips>>

Status == {"planned", "running", "shipped", "paused"}
NoRows == [s \in Stem |-> None]
Idle == [at |-> "idle"]

\* What is common to all jobs of a desk.
RegistryTypeOK ==
  /\ rows \in [Stem -> Status \cup {None}]
  /\ desk = [d \in Desk |-> desk[d]]
  /\ \A d \in Desk :
       /\ desk[d].at \in {"rows", "flip"} => desk[d].stem \in Stem /\ desk[d].status \in Status
       /\ desk[d].at = "flip" => desk[d].rows \in [Stem -> Status \cup {None}]
  /\ flips \in Nat

At(d, step) == desk[d].at = step
Go(d, job) == desk' = [desk EXCEPT ![d] = job]

\* Others are between open, which truncates the table, and the write.
Writing(d) == \E e \in Desk \ {d} : At(e, "flip")

RowsRead(d) == {rows} \cup (IF Writing(d) THEN {NoRows} ELSE {})

\* main, for a status that no gate guards.
Flip(d, s, status) ==
  /\ desk[d] = Idle
  /\ status # "shipped"
  /\ flips < MaxFlips
  /\ flips' = flips + 1
  /\ Go(d, [at |-> "rows", stem |-> s, status |-> status])
  /\ UNCHANGED rows

\* set_status, up to the row: without one nothing is written.
ReadRows(d) ==
  /\ At(d, "rows")
  /\ \E seen \in RowsRead(d) :
       Go(d, IF seen[desk[d].stem] = None THEN Idle
             ELSE [at |-> "flip", stem |-> desk[d].stem, status |-> desk[d].status, rows |-> seen])
  /\ UNCHANGED <<rows, flips>>

\* set_status, the write: all rows as they were read, but one.
WriteRow(d) ==
  /\ At(d, "flip")
  /\ rows' = [desk[d].rows EXCEPT ![desk[d].stem] = desk[d].status]
  /\ Go(d, Idle)
  /\ UNCHANGED flips
=============================================================================

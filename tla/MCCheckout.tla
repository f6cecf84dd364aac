----------------------------- MODULE MCCheckout -----------------------------
(* Checkout for TLC: a small cast for each scene.                          *)
EXTENDS Checkout, MCToolSync

CONSTANTS
  run1, laneA, laneB,                  \* Stamps
  v1, v2, b1, b2, p1, q1, q2, f1,      \* CloseOut
  s1, s2, A, B, C, d1, r1,             \* Preflight, and the plans
  w1, w2, w3, w4, repo1, repo2         \* TrackerPort

-----------------------------------------------------------------------------
(* Stamps: two calls of one run in two lanes, the first in the background; *)
(* the orchestrator writes once, or a hook is killed.                      *)
MCSpent == {[strokes |-> MaxStrokes, kills |-> 0], [strokes |-> 0, kills |-> MaxKills]}
MCLaneOf == <<laneA, laneB>>
MCRunOf == <<run1, run1>>
MCMentions == <<{run1}, {run1}>>
MCFits == <<{1, 2}, {1, 2}>>
MCInput == <<1, 2>>
-----------------------------------------------------------------------------
(* CloseOut: a plan of two briefs that is in order, and what can become of *)
(* each of its files.                                                      *)

Whole == [form |-> "whole", review |-> [plan |-> v1, misses |-> 1], waiver |-> "reasoned",
          na |-> FALSE, outcome |-> [b \in Brief |-> "shipped"], triage |-> TRUE]

\* One thing of a report is otherwise.
Reports ==
  {[Whole EXCEPT !.form = x] : x \in {"whole", "lacking", "poor"}}
  \cup {[Whole EXCEPT !.review = x] : x \in {None} \cup [plan : {v1, v2}, misses : 0..1]}
  \cup {[Whole EXCEPT !.waiver = x] : x \in {"none", "hollow"}}
  \cup {[Whole EXCEPT !.na = TRUE], [Whole EXCEPT !.triage = FALSE]}
  \cup {[Whole EXCEPT !.outcome = x] : x \in [Brief -> {"shipped", "deferred", "unnamed"}]}

MCDrafts == [
  plan    |-> {v1, v2, None},
  report  |-> Reports \cup {None},
  index   |-> [linked : BOOLEAN, points : {[b \in {b1} |-> {}], [b \in Brief |-> IF b = b1 THEN {p1} ELSE {}]}] \cup {None},
  briefs  |-> {[b \in {} |-> {}], [b \in {b1} |-> {q1, q2}], [b \in Brief |-> IF b = b1 THEN {q1, q2} ELSE {}]},
  records |-> {[b \in Brief |-> IF b = b1 THEN r ELSE [filled |-> TRUE, honors |-> {}, answers |-> {}]] :
                 r \in {None} \cup [filled : BOOLEAN, honors : {{}, {p1}}, answers : {{}, {q1}}]},
  tracker |-> [status : {"running", "shipped"}, settled : BOOLEAN, findings : {{}, {f1}}] \cup {None, Torn},
  board   |-> [tasks : {[b \in Brief |-> IF b = b1 THEN t ELSE "done"] : t \in {None, "open", "done", "decision"}},
               filed : {{}, {f1}}] \cup {None, NoDir}]

InOrder == [
  plan    |-> v1,
  report  |-> Whole,
  index   |-> [linked |-> TRUE, points |-> [b \in Brief |-> IF b = b1 THEN {p1} ELSE {}]],
  briefs  |-> [b \in Brief |-> IF b = b1 THEN {q1, q2} ELSE {}],
  records |-> [b \in Brief |-> [filled |-> TRUE, honors |-> IF b = b1 THEN {p1} ELSE {},
                                answers |-> IF b = b1 THEN {q1} ELSE {}]],
  tracker |-> [status |-> "shipped", settled |-> TRUE, findings |-> {f1}],
  board   |-> [tasks |-> [b \in Brief |-> "done"], filed |-> {f1}]]

MCFresh == {InOrder}

\* Records that differ from a good one in n fields at most.
Near(S, good, n) == {x \in S : Cardinality({k \in DOMAIN good : x[k] # good[k]}) <= n}
-----------------------------------------------------------------------------
(* Preflight: two small plans side by side; one plan of three lanes with   *)
(* every way to place them in waves; one plan with pointers.               *)
Dir == <<"a">>
File == <<"a", "b">>
Other == <<"c">>

Row(fs) == [files |-> fs, points |-> {}, waived |-> {}, plain |-> TRUE]
Unplaced(fs) == [wave |-> None, scope |-> fs, cites |-> {}, full |-> TRUE]

\* One lane that owns some paths, ready to go.
Small(fs) == [grilled |-> TRUE, rows |-> [l \in {A} |-> Row(fs)], waves |-> [w \in Wave |-> {}],
              briefs |-> [l \in {A} |-> Unplaced(fs)]]
Smalls == {Small({p}) : p \in {Dir, File, Other}}

\* Three lanes, the first of which owns a directory and the second a file in
\* it, with every bullet and every wave in a brief.
Placed ==
  LET own(l) == CASE l = A -> {Dir} [] l = B -> {File} [] l = C -> {Other} IN
  {[grilled |-> TRUE, rows |-> [l \in Lane |-> Row(own(l))], waves |-> prose,
    briefs |-> [l \in Lane |-> [Unplaced(own(l)) EXCEPT !.wave = at[l]]]] :
   prose \in [Wave -> SUBSET Lane], at \in [Lane -> Wave \cup {None}]}

\* Two lanes, with two things out of order at most.
Pointing ==
  LET good == [grilled |-> TRUE, points |-> {d1}, waived |-> {}, plain |-> TRUE, brief |-> TRUE,
               scope |-> {File}, cites |-> {d1}, full |-> TRUE]
  IN {[grilled |-> x.grilled,
       rows |-> [l \in {A, B} |-> IF l = A THEN [files |-> {File}, points |-> x.points, waived |-> x.waived, plain |-> x.plain]
                                  ELSE [Row({Other}) EXCEPT !.waived = {d1}]],
       waves |-> [w \in Wave |-> {}],
       briefs |-> [l \in IF x.brief THEN {A, B} ELSE {A} |->
                     IF l = A THEN [wave |-> None, scope |-> x.scope, cites |-> x.cites, full |-> x.full]
                              ELSE Unplaced({Other})]] :
      x \in Near([grilled : BOOLEAN, points : SUBSET Pointer, waived : SUBSET {d1}, plain : BOOLEAN, brief : BOOLEAN,
                   scope : {{File}, {Other}}, cites : SUBSET Pointer, full : BOOLEAN], good, 2)}

Alone(f) == [s \in Stem |-> IF s = s1 THEN f ELSE None]

Planned == [s \in Stem |-> "planned"]

\* One desk's one preflight of one plan.
Single(fs, status, boards, e) ==
  [folder : {Alone(f) : f \in fs}, rows : {[Planned EXCEPT ![s1] = x] : x \in status}, board : boards,
   flips : {MaxFlips - 1}, edits : {e}]

MCSetups ==
  Single(Placed, {"planned"}, {{}}, MaxEdits)
  \cup Single(Pointing, {"planned", "shipped"}, SUBSET Pointer, MaxEdits - 1)
  \cup [folder : {[s \in Stem |-> IF s = s1 THEN Small({p}) ELSE Small({File})] : p \in {Dir, Other}},
         rows : [Stem -> {"planned", None}], board : {{}}, flips : {0}, edits : {0}]

MCRedrafts == {Small({File})}
MCTouches == [c \in Decision |-> {File}]
-----------------------------------------------------------------------------
(* TrackerPort: three runs of one repository and one of another, which     *)
(* have the same home port.                                                *)
MCRepoOf == [r \in Picker |-> IF r = w4 THEN repo2 ELSE repo1]
MCHome == [x \in Repo |-> 0]
=============================================================================

------------------------------- MODULE Waves --------------------------------
(***************************************************************************)
(* taskman/plan.py, recompute_waves: the wave of each item of a plan from  *)
(* depends_on, by a depth-first search with a memo.                        *)
(*                                                                         *)
(* The calls of wave_of that are in progress are the stack; `visiting` of  *)
(* the code is the set of their items.  The order in which items and       *)
(* dependencies are listed is left open.                                   *)
(***************************************************************************)
EXTENDS Integers, Sequences

CONSTANTS
  Items,      \* the items, by id
  Outside     \* ids that depends_on may name and that are not items

ASSUME WavesAssumption == Items \cap Outside = {}

VARIABLES
  deps,       \* depends_on
  waves,      \* the memo: item -> wave
  stack,      \* the calls in progress: item, dependencies not yet looked at, max so far
  outcome     \* "running", "waves" or "cycle": the ValueError

wavesVars == <<deps, waves, stack, outcome>>

\* Dependencies that are not items are ignored.
InSet(i) == deps[i] \cap Items

Frame == [item : Items, left : SUBSET Items, high : Nat]

WavesTypeOK ==
  /\ deps \in [Items -> SUBSET (Items \cup Outside)]
  /\ DOMAIN waves \subseteq Items /\ waves = [i \in DOMAIN waves |-> waves[i]]
  /\ \A i \in DOMAIN waves : waves[i] \in Nat \ {0}
  /\ stack \in Seq(Frame)
  /\ outcome \in {"running", "waves", "cycle"}

WavesInit ==
  /\ deps \in [Items -> SUBSET (Items \cup Outside)]
  /\ waves = [i \in {} |-> 0]
  /\ stack = <<>>
  /\ outcome = "running"

Depth == Len(stack)
Top == stack[Depth]

\* Mutant: dependencies count before they are called.
VisitingQueued == {stack[n].item : n \in 1..Depth} \cup UNION {stack[n].left : n \in 1..Depth - 1}

Visiting == {stack[n].item : n \in 1..Depth}

Call(i) == Append(stack, [item |-> i, left |-> InSet(i), high |-> 0])

\* Mutant: d is looked at for ever.
LookedKeeping(s, d, w) == [s EXCEPT ![Len(s)].high = IF @ < w THEN w ELSE @]

\* The top frame has looked at d, whose wave is w.
Looked(s, d, w) ==
  [s EXCEPT ![Len(s)] = [item |-> @.item, left |-> @.left \ {d}, high |-> IF @.high < w THEN w ELSE @.high]]
-----------------------------------------------------------------------------
\* The loop over the items; those in the memo return at once.
Visit ==
  /\ outcome = "running"
  /\ stack = <<>>
  /\ \E i \in Items \ DOMAIN waves : stack' = Call(i)
  /\ UNCHANGED <<deps, waves, outcome>>

\* wave_of(d) of a dependency: in the memo, on the stack, or a call.
Look ==
  /\ outcome = "running"
  /\ stack # <<>>
  /\ \E d \in Top.left :
       IF d \in DOMAIN waves
       THEN stack' = Looked(stack, d, waves[d]) /\ UNCHANGED outcome
       ELSE IF d \in Visiting
       THEN outcome' = "cycle" /\ UNCHANGED stack
       ELSE stack' = Call(d) /\ UNCHANGED outcome
  /\ UNCHANGED <<deps, waves>>

\* Mutant: an item shares the highest wave it depends on.
WaveShared(frame) == IF frame.high = 0 THEN 1 ELSE frame.high

\* 1 without in-set dependencies, else one more than the highest of theirs.
Wave(frame) == 1 + frame.high

\* wave_of returns; the caller, if there is one, has its answer.
Return ==
  /\ outcome = "running"
  /\ stack # <<>>
  /\ Top.left = {}
  /\ LET i == Top.item
         w == Wave(Top)
         below == SubSeq(stack, 1, Depth - 1)
     IN /\ waves' = [j \in DOMAIN waves \cup {i} |-> IF j = i THEN w ELSE waves[j]]
        /\ stack' = IF below = <<>> THEN below ELSE Looked(below, i, w)
  /\ UNCHANGED <<deps, outcome>>

Done ==
  /\ outcome = "running"
  /\ stack = <<>>
  /\ DOMAIN waves = Items
  /\ outcome' = "waves"
  /\ UNCHANGED <<deps, waves, stack>>

WavesNext == Visit \/ Look \/ Return \/ Done
-----------------------------------------------------------------------------
(* Properties *)

\* The items that i depends on, directly or not: the least set that holds its
\* dependencies and is closed.
Needs(i) == deps[i] \cap Items
Closed(S) == \A j \in S : Needs(j) \subseteq S
OnCycle(i) == \A S \in SUBSET Items : Needs(i) \subseteq S /\ Closed(S) => i \in S

\* Whatever the memo holds is final: each wave in it is one more than the
\* highest wave of the item's dependencies, all of which are in it.
MemoIsLevelled ==
  \A i \in DOMAIN waves :
    /\ Needs(i) \subseteq DOMAIN waves
    /\ \A d \in Needs(i) : waves[d] < waves[i]
    /\ waves[i] = 1 \/ \E d \in Needs(i) : waves[i] = waves[d] + 1

(* The function refuses only a plan that has a cycle, and returns waves    *)
(* only for one that has none.                                             *)
CyclesAreRefused ==
  /\ outcome = "cycle" => \E i \in Items : OnCycle(i)
  /\ outcome = "waves" => \A i \in Items : ~OnCycle(i)
=============================================================================

------------------------------- MODULE Lanes --------------------------------
(***************************************************************************)
(* taskman/plan.py, pack_lanes: the items of one wave are packed into      *)
(* lanes that can run at the same time, merged by union-find where they    *)
(* name a common file.                                                     *)
(*                                                                         *)
(* Every iteration of the loops of `find` and of the loops around it is a  *)
(* step.  Waves are packed one after the other and share nothing, and no   *)
(* item depends on one of its own wave (Waves), so the dependency order    *)
(* inside a lane is the input order and is left out.                       *)
(***************************************************************************)
EXTENDS Naturals, FiniteSets

CONSTANTS
  N,        \* the wave's items, 1..N in input order
  Files     \* paths

ASSUME LanesAssumption == N \in Nat

Members == 1..N

VARIABLES
  files,     \* dispatch.files of each item
  parent,    \* the union-find forest over the items with files
  left,      \* pairs still to be compared
  ungrouped, \* items still to be grouped
  pc,        \* "compare", "find_a", "find_b", "group", "find_group", "packed" or "refused"
  pair,      \* the pair that is compared
  at,        \* x of find
  root,      \* ra of union
  groups     \* groups: the items filed under each root

finding == <<pair, at, root>>
lanesVars == <<files, parent, left, ungrouped, pc, finding, groups>>

Known(fs) == {i \in Members : fs[i] # {}}
Pairs(S) == {q \in S \X S : q[1] < q[2]}

LanesTypeOK ==
  /\ files \in [Members -> SUBSET Files]
  /\ parent \in [Known(files) -> Known(files)]
  /\ left \subseteq Pairs(Known(files))
  /\ ungrouped \subseteq Known(files)
  /\ pc \in {"compare", "find_a", "find_b", "group", "find_group", "packed", "refused"}
  /\ pair \in (Members \cup {0}) \X (Members \cup {0})
  /\ at \in Members \cup {0} /\ root \in Members \cup {0}
  /\ pc \in {"find_a", "find_b", "find_group"} => at \in Known(files)
  /\ groups \in [Members -> SUBSET Members]

LanesInit ==
  /\ files \in [Members -> SUBSET Files]
  /\ parent = [i \in Known(files) |-> i]
  /\ left = Pairs(Known(files))
  /\ ungrouped = Known(files)
  /\ pc = "compare"
  /\ pair = <<0, 0>>
  /\ at = 0
  /\ root = 0
  /\ groups = [i \in Members |-> {}]

\* _files_overlap
Overlap(i, j) == files[i] \cap files[j] # {}

Earlier(q, r) == q[1] < r[1] \/ (q[1] = r[1] /\ q[2] < r[2])

Remaining(q) == left \ {q}

\* The loops over pairs: an overlap starts union(a, b).
Compare ==
  /\ pc = "compare"
  /\ \E q \in left :
       /\ \A r \in left : r = q \/ Earlier(q, r)
       /\ left' = Remaining(q)
       /\ IF Overlap(q[1], q[2])
          THEN pc' = "find_a" /\ pair' = q /\ at' = q[1]
          ELSE UNCHANGED <<pc, pair, at>>
  /\ UNCHANGED <<files, parent, ungrouped, root, groups>>

Finding == pc \in {"find_a", "find_b", "find_group"}

\* find: x and its grandparent, which x is hung under, until x is a root.
Halve ==
  /\ Finding
  /\ parent[at] # at
  /\ parent' = [parent EXCEPT ![at] = parent[parent[at]]]
  /\ at' = parent'[at]
  /\ UNCHANGED <<files, left, ungrouped, pc, pair, root, groups>>

\* find(a) has returned.
FoundA ==
  /\ pc = "find_a"
  /\ parent[at] = at
  /\ root' = at
  /\ at' = pair[2]
  /\ pc' = "find_b"
  /\ UNCHANGED <<files, parent, left, ungrouped, pair, groups>>

\* Mutant: the item is hung up, not its root.
HungItem == [parent EXCEPT ![pair[2]] = root]

\* union: the second root goes under the first.
Hung == [parent EXCEPT ![at] = root]

FoundB ==
  /\ pc = "find_b"
  /\ parent[at] = at
  /\ parent' = Hung
  /\ pc' = "compare"
  /\ UNCHANGED <<files, left, ungrouped, finding, groups>>

StartGroups ==
  /\ pc = "compare"
  /\ left = {}
  /\ pc' = "group"
  /\ UNCHANGED <<files, parent, left, ungrouped, finding, groups>>

\* The loop that files each item under its root, in input order.
Group ==
  /\ pc = "group"
  /\ \E i \in ungrouped :
       /\ \A j \in ungrouped : i <= j
       /\ at' = i
       /\ pair' = <<i, i>>
       /\ ungrouped' = ungrouped \ {i}
  /\ pc' = "find_group"
  /\ UNCHANGED <<files, parent, left, root, groups>>

\* groups.setdefault(find(i), []).append(i)
FoundGroup ==
  /\ pc = "find_group"
  /\ parent[at] = at
  /\ groups' = [groups EXCEPT ![at] = @ \cup {pair[1]}]
  /\ pc' = "group"
  /\ UNCHANGED <<files, parent, left, ungrouped, finding>>

\* One lane for each group, and one for each item without files.
Lanes == {groups[r] : r \in {q \in Members : groups[q] # {}}} \cup {{i} : i \in Members \ Known(files)}

\* verify_lane_file_disjoint, which raises if two lanes own a file.
LaneFiles(g) == UNION {files[i] : i \in g}
Disjoint == \A g, h \in Lanes : g # h => LaneFiles(g) \cap LaneFiles(h) = {}

Verify ==
  /\ pc = "group"
  /\ ungrouped = {}
  /\ pc' = IF Disjoint THEN "packed" ELSE "refused"
  /\ UNCHANGED <<files, parent, left, ungrouped, finding, groups>>

LanesNext ==
  Compare \/ Halve \/ FoundA \/ FoundB \/ StartGroups \/ Group \/ FoundGroup \/ Verify
-----------------------------------------------------------------------------
(* Properties *)

Share(i, j) == files[i] \cap files[j] # {}

\* i and j are connected by a chain of items that overlap: every set that
\* holds i and all that overlap its members holds j.
Connected(i, j) ==
  \A S \in SUBSET Known(files) :
    i \in S /\ (\A a \in S, b \in Known(files) : Share(a, b) => b \in S) => j \in S

(* Two items end in one lane exactly when they are connected, an item      *)
(* without files is alone in its lane, and the packing passes its own      *)
(* check.                                                                  *)
LanesAreComponents ==
  /\ pc # "refused"
  /\ pc = "packed" =>
    /\ UNION Lanes = Members
    /\ \A g, h \in Lanes : g # h => g \cap h = {}
    /\ \A i, j \in Known(files) : Connected(i, j) <=> \E g \in Lanes : {i, j} \subseteq g
    /\ \A i \in Members \ Known(files) : {i} \in Lanes
=============================================================================

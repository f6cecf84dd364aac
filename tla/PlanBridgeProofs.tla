--------------------------- MODULE PlanBridgeProofs ---------------------------
(***************************************************************************)
(* Proofs about the bridge between plans and the board, for any plans,     *)
(* versions of them, boards and bounds: an import that nobody disturbs     *)
(* leaves the board as the plan has it, no import loses what the operator  *)
(* set, and an export and mark-shipped touch only what they may.           *)
(***************************************************************************)
EXTENDS PlanBridge, FiniteSetTheorems, WellFoundedInduction, TLAPS

-----------------------------------------------------------------------------
(* Sets of numbers                                                         *)

\* The highest of a set is found by being it.
LEMMA MaxIs ==
  ASSUME NEW T \in SUBSET Nat, NEW n \in T, \A x \in T : x <= n
  PROVE  Max(T) = n
<1>1. \A x \in T : n >= x
  OBVIOUS
<1>2. Max(T) \in T /\ \A x \in T : Max(T) >= x
  BY <1>1 DEF Max
<1>3. \A m \in T : (\A x \in T : m >= x) => m = n
  BY <1>1
<1> QED BY <1>2, <1>3

\* The positions of an interval that are taken have a last and a first.
LEMMA Bounds ==
  ASSUME NEW n \in Nat, NEW T \in SUBSET (1 .. n), T # {}
  PROVE  /\ Max(T) \in T /\ \A x \in T : x <= Max(T)
         /\ Min(T) \in T
<1>0. IsWellFoundedOn(OpToRel(<, Nat), Nat)
  BY NatLessThanWellFounded, Zenon
<1>1. Max(T) \in T /\ \A x \in T : x <= Max(T)
  <2> DEFINE U == {m \in Nat : \A x \in T : x <= m}
  <2>1. U \subseteq Nat /\ n \in U
    OBVIOUS
  <2>2. PICK m \in U : \A u \in U : ~ (<<u, m>> \in OpToRel(<, Nat))
    <3> HIDE DEF U
    <3> QED BY <1>0, <2>1, WFMin, Zenon
  <2>3. \A u \in U : ~(u < m)
    BY <2>1, <2>2, Zenon DEF OpToRel
  <2>4. m \in T
    <3> SUFFICES ASSUME m \notin T PROVE FALSE
      OBVIOUS
    <3>0. PICK x \in T : x <= m
      OBVIOUS
    <3>1. m # 0 /\ m \in Nat
      BY <3>0
    <3>2. m - 1 \in U
      BY <3>1
    <3> QED BY <2>3, <3>1, <3>2
  <2>5. Max(T) = m
    BY <2>4, MaxIs
  <2> QED BY <2>4, <2>5
<1>2. Min(T) \in T
  <2>1. T \subseteq Nat
    OBVIOUS
  <2>2. PICK m \in T : \A u \in T : ~ (<<u, m>> \in OpToRel(<, Nat))
    BY <1>0, <2>1, WFMin, Zenon
  <2>3. \A u \in T : ~(u < m)
    BY <2>1, <2>2, Zenon DEF OpToRel
  <2>4. \A u \in T : m <= u
    BY <2>1, <2>3
  <2> QED BY <2>4 DEF Min
<1> QED BY <1>1, <1>2

-----------------------------------------------------------------------------
(* The import: what holds at each step                                     *)

\* One process at most imports.
OneImporter == \A p, q \in Procs : p = q

\* The blockers that the plan of p wants for item r.
Wanted(p, r) == {made[p][s] : s \in doc[p].deps[r] \cap DOMAIN made[p]}

\* The blockers that a task had, and whether it was under the PBI, when p read the board.
Had(p, i)   == IF i \in DOMAIN seen[p].tasks THEN seen[p].tasks[i].blocked_by ELSE {}
Under(p, i) == i \in DOMAIN seen[p].tasks /\ seen[p].tasks[i].pbi

\* The items before the one p is at; the one itself, if there is one.
Passed(p) == {doc[p].order[k] : k \in 1 .. at[p] - 1}
IsAt(p, r) == at[p] <= Len(doc[p].order) /\ r = doc[p].order[at[p]]

Importing == {"feature", "items", "links", "sync", "write_sync"}

Shape ==
  /\ \E n \in Nat : DOMAIN tasks = 1 .. n
  /\ tasks = [i \in DOMAIN tasks |-> tasks[i]] /\ \A i \in DOMAIN tasks : tasks[i] \in Task
  /\ features \in Seq(Feature)
  /\ acceptance \subseteq Nat
  /\ pc \in [Procs -> Importing \cup {"idle"}]
  /\ doc \in [Procs -> Docs \cup {NoDoc}]
  /\ seen = [p \in Procs |-> seen[p]] /\ made = [p \in Procs |-> made[p]]
  /\ under \in [Procs -> Nat] /\ at \in [Procs -> Nat]
  /\ moved \in [Procs -> SUBSET Ids] /\ read \in [Procs -> SUBSET Nat]
  /\ quiet \in [Procs -> BOOLEAN]
  /\ settled \in Docs \cup {NoDoc}
  /\ used \in [{"edits", "deaths"} -> Nat]

\* What an import has read is an older board: rows and features only come, and
\* a task keeps its item.
Remembers(p) ==
  /\ doc[p] \in Docs /\ at[p] \in 1 .. Len(doc[p].order) + 1
  /\ \E m \in Nat : DOMAIN seen[p].tasks = 1 .. m
  /\ \A i \in DOMAIN seen[p].tasks :
       i \in DOMAIN tasks /\ seen[p].tasks[i] \in Task /\ seen[p].tasks[i].ref = tasks[i].ref
  /\ seen[p].features \in Seq(Feature) /\ Len(seen[p].features) <= Len(features)
  /\ under[p] <= Len(features)

\* What it has made are tasks of the items it has been at.
Brings(p) ==
  /\ made[p] = [r \in DOMAIN made[p] |-> made[p][r]]
  /\ \A r \in DOMAIN made[p] : made[p][r] \in DOMAIN tasks /\ tasks[made[p][r]].ref = r
  /\ pc[p] = "feature" => at[p] = 1 /\ DOMAIN made[p] = {}
  /\ pc[p] = "items" => DOMAIN made[p] = Passed(p)
  /\ pc[p] \in {"links", "sync", "write_sync"} => DOMAIN made[p] = ToSet(doc[p].order)

\* An import beside which no other has run: tasks and features it has not seen
\* are its own.
Alone(p) ==
  /\ \A q \in Procs \ {p} : pc[q] = "idle"
  /\ pc[p] = "feature" => features = seen[p].features
  /\ \A i \in DOMAIN tasks \ DOMAIN seen[p].tasks :
       tasks[i].ref \in DOMAIN made[p] /\ made[p][tasks[i].ref] = i

\* An import that nobody has disturbed: what it has not brought is as it was,
\* and what it has brought is as the plan has it, but for the blockers.
Untouched(p) ==
  \A i \in DOMAIN seen[p].tasks :
    (\A r \in DOMAIN made[p] : made[p][r] # i) => tasks[i] = seen[p].tasks[i]

Refreshes(p) ==
  \A r \in DOMAIN made[p] :
    /\ \A i \in Existing(tasks, r) : i <= made[p][r]
    /\ tasks[made[p][r]].brief = doc[p].brief
    /\ doc[p].tags[r] \subseteq tasks[made[p][r]].tags
    /\ tasks[made[p][r]].pbi <=> Under(p, made[p][r])

\* The blockers are those the plan wants for the items that are done, and as
\* they were for those that are not.
Links(p) ==
  \A r \in DOMAIN made[p] :
    tasks[made[p][r]].blocked_by =
      IF pc[p] \in {"sync", "write_sync"} \/ (pc[p] = "links" /\ r \in Passed(p)) THEN Wanted(p, r)
      ELSE IF pc[p] = "links" /\ IsAt(p, r)
        THEN (Had(p, made[p][r]) \ moved[p]) \cup (moved[p] \cap Wanted(p, r))
      ELSE Had(p, made[p][r])

Reads(p) ==
  pc[p] = "write_sync" =>
    /\ read[p] = {tasks[i].brief : i \in {j \in DOMAIN tasks : tasks[j].pbi}}
    /\ \E r \in DOMAIN made[p] : tasks[made[p][r]].pbi

Undisputed(p) == Alone(p) /\ Untouched(p) /\ Refreshes(p) /\ Links(p) /\ Reads(p)

Runs(p) ==
  /\ Remembers(p) /\ Brings(p)
  /\ OneImporter \/ quiet[p] => Alone(p)
  /\ quiet[p] => Undisputed(p)

ImportInv ==
  /\ Shape
  /\ \A p \in Procs : IF pc[p] = "idle" THEN DOMAIN made[p] = {} ELSE Runs(p)
  /\ \A p \in Procs : pc[p] # "links" => moved[p] = {}
  /\ settled # NoDoc => PlanApplied /\ \A p \in Procs : pc[p] = "idle"
  /\ OneImporter => OneTaskPerItem

-----------------------------------------------------------------------------
(* The import: what its steps have in common                               *)

\* The items of a plan are each at one position.
LEMMA Orders ==
  ASSUME NEW d \in Docs
  PROVE  /\ DOMAIN d.order = 1 .. Len(d.order) /\ Len(d.order) \in Nat
         /\ \A k \in 1 .. Len(d.order) : d.order[k] \in Refs
         /\ \A j, k \in 1 .. Len(d.order) : d.order[j] = d.order[k] => j = k
         /\ d.deps \in [Refs -> SUBSET Refs] /\ d.tags \in [Refs -> SUBSET Tags] /\ d.brief \in Nat
BY ImportAssumption DEF IsInjective

\* Ids are handed out in order, so the next is no task's.
LEMMA Next1 ==
  ASSUME NEW n \in Nat, DOMAIN tasks = 1 .. n
  PROVE  NextTask = n + 1
<1>1. Cardinality(1 .. n) = n
  BY FS_Interval
<1> QED BY <1>1 DEF NextTask

\* Rows and features only come, and a task keeps its item.
Grows ==
  /\ \A i \in DOMAIN tasks : i \in DOMAIN tasks' /\ tasks'[i].ref = tasks[i].ref
  /\ Len(features) <= Len(features')

\* The locals of an importer stay.
Stands(q) ==
  /\ pc'[q] = pc[q] /\ doc'[q] = doc[q] /\ seen'[q] = seen[q] /\ under'[q] = under[q]
  /\ at'[q] = at[q] /\ made'[q] = made[q] /\ moved'[q] = moved[q] /\ read'[q] = read[q]

\* What an import has read and made is good as long as the board only grows.
LEMMA StillRemembers ==
  ASSUME Shape, Shape', Grows, NEW p \in Procs, Stands(p), Remembers(p), Brings(p)
  PROVE  Remembers(p)' /\ Brings(p)'
<1>1. Remembers(p)'
  <2>1. Len(features) \in Nat /\ Len(features') \in Nat /\ under[p] \in Nat
    BY DEF Shape
  <2>2. Len(seen[p].features) \in Nat
    BY DEF Remembers
  <2> QED BY <2>1, <2>2 DEF Remembers, Grows, Stands
<1>2. Brings(p)'
  BY DEF Brings, Grows, Stands, Passed
<1> QED BY <1>1, <1>2

\* A step of an import under way: it is right for the others, if it is right
\* for itself.
LEMMA StepOfOne ==
  ASSUME ImportInv, NEW p \in Procs, pc[p] # "idle", Shape', Grows, UNCHANGED quiet,
         \A q \in Procs \ {p} : Stands(q),
         IF pc'[p] = "idle" THEN DOMAIN made'[p] = {} ELSE Runs(p)',
         pc'[p] # "links" => moved'[p] = {},
         settled' # NoDoc => pc'[p] = "idle" /\ quiet[p] /\ PlanApplied',
         OneImporter => OneTaskPerItem'
  PROVE  ImportInv'
<1>1. ASSUME NEW q \in Procs \ {p}, pc'[q] # "idle"
      PROVE  Runs(q)'
  <2>1. pc[q] # "idle" /\ Runs(q)
    BY <1>1 DEF ImportInv, Stands
  <2>2. ~quiet[q] /\ ~OneImporter
    BY <2>1 DEF Runs, Alone
  <2>3. Remembers(q)' /\ Brings(q)'
    BY <2>1, StillRemembers DEF ImportInv, Runs
  <2> QED BY <2>2, <2>3 DEF Runs, OneImporter
<1>2. ASSUME NEW q \in Procs \ {p}, pc'[q] = "idle"
      PROVE  DOMAIN made'[q] = {}
  BY <1>2 DEF ImportInv, Stands
<1>3. ASSUME NEW q \in Procs \ {p}, pc'[q] # "links"
      PROVE  moved'[q] = {}
  BY <1>3 DEF ImportInv, Stands
<1>4. ASSUME quiet[p], NEW q \in Procs \ {p}
      PROVE  pc'[q] = "idle"
  <2>1. Alone(p)
    BY <1>4 DEF ImportInv, Runs
  <2> QED BY <2>1 DEF Alone, Stands
<1>5. \A q \in Procs : IF pc'[q] = "idle" THEN DOMAIN made'[q] = {} ELSE Runs(q)'
  BY <1>1, <1>2
<1>6. \A q \in Procs : pc'[q] # "links" => moved'[q] = {}
  BY <1>3
<1>7. settled' # NoDoc => PlanApplied' /\ \A q \in Procs : pc'[q] = "idle"
  BY <1>4
<1> QED BY <1>5, <1>6, <1>7 DEF ImportInv

\* While one imports, nothing counts as imported.
LEMMA Unsettled ==
  ASSUME ImportInv, NEW p \in Procs, pc[p] # "idle"
  PROVE  settled = NoDoc /\ Shape /\ Runs(p)
BY DEF ImportInv

\* What has been read stays good as long as the board only grows.
LEMMA BoardGrows ==
  ASSUME Shape, Shape', Grows, NEW p \in Procs, Remembers(p),
         doc'[p] = doc[p], seen'[p] = seen[p], under'[p] = under[p],
         at'[p] \in 1 .. Len(doc[p].order) + 1
  PROVE  Remembers(p)'
<1>1. Len(features) \in Nat /\ Len(features') \in Nat /\ under[p] \in Nat
  BY DEF Shape
<1>2. Len(seen[p].features) \in Nat
  BY DEF Remembers
<1> QED BY <1>1, <1>2 DEF Remembers, Grows

-----------------------------------------------------------------------------
(* The import: its steps                                                   *)

\* A step of UpsertFeature keeps ImportInv.
LEMMA UpsertFeatureKeeps ==
  ASSUME ImportInv, NEW p \in Procs, UpsertFeature(p)
  PROVE  ImportInv'
<1>1. pc[p] = "feature" /\ pc[p] # "idle" /\ Shape /\ Runs(p) /\ settled = NoDoc
  BY Unsettled DEF UpsertFeature, ImportInv
<1>2. /\ pc' = [pc EXCEPT ![p] = "items"]
      /\ UNCHANGED <<tasks, acceptance, doc, seen, under, at, made, moved, read, quiet, settled, used>>
  BY DEF UpsertFeature, Goto, locals
<1>3. pc'[p] = "items" /\ \A q \in Procs \ {p} : pc'[q] = pc[q]
  BY <1>1, <1>2 DEF Shape
<1>4. features' \in Seq(Feature) /\ Len(features') >= Len(features)
  <2>1. features \in Seq(Feature) /\ Len(features) \in Nat /\ under[p] \in Nat /\ under[p] <= Len(features)
    BY <1>1 DEF Shape, Runs, Remembers
  <2>2. CASE under[p] # 0
    <3>1. under[p] \in DOMAIN features /\ features[under[p]] \in Feature
      BY <2>1, <2>2
    <3>2. PICK k : k = [features[under[p]] EXCEPT !.tagged = TRUE]
      OBVIOUS
    <3>3. k \in Feature
      BY <3>1, <3>2 DEF Feature
    <3>4. features' = [features EXCEPT ![under[p]] = k]
      BY <2>2, <3>2 DEF UpsertFeature
    <3> QED BY <2>1, <3>1, <3>3, <3>4
  <2>3. CASE under[p] = 0 /\ PlanFeature(seen[p].features) = {}
    <3>1. features' = Append(features, [tagged |-> TRUE, titled |-> TRUE])
      BY <2>3 DEF UpsertFeature
    <3>2. [tagged |-> TRUE, titled |-> TRUE] \in Feature
      BY DEF Feature
    <3> QED BY <2>1, <3>1, <3>2
  <2>4. CASE under[p] = 0 /\ PlanFeature(seen[p].features) # {}
    <3>1. features' = [features EXCEPT ![Min(PlanFeature(seen[p].features))] = [tagged |-> TRUE, titled |-> TRUE]]
      BY <2>4 DEF UpsertFeature
    <3>2. [tagged |-> TRUE, titled |-> TRUE] \in Feature
      BY DEF Feature
    <3>3. PICK f : f = Min(PlanFeature(seen[p].features))
      OBVIOUS
    <3>4. f \in DOMAIN features
      <4>1. /\ PlanFeature(seen[p].features) \subseteq 1 .. Len(seen[p].features)
            /\ Len(seen[p].features) \in Nat /\ Len(seen[p].features) <= Len(features)
        BY <1>1 DEF Runs, Remembers, PlanFeature
      <4>2. f \in PlanFeature(seen[p].features)
        BY <2>4, <3>3, <4>1, Bounds
      <4>3. f \in 1 .. Len(seen[p].features)
        BY <4>1, <4>2
      <4>4. f \in 1 .. Len(features)
        BY <2>1, <4>1, <4>3
      <4> QED BY <2>1, <4>4
    <3> QED BY <2>1, <3>1, <3>2, <3>3, <3>4
  <2> QED BY <2>2, <2>3, <2>4
<1>5. Shape' /\ Grows
  BY <1>1, <1>2, <1>4 DEF Shape, Grows, Importing
<1>6. Runs(p)'
  <2>1. Remembers(p)'
    BY <1>1, <1>2, <1>5, BoardGrows DEF Runs, Remembers
  <2>2. Brings(p)'
    <3>1. at[p] = 1 /\ DOMAIN made[p] = {}
      BY <1>1 DEF Runs, Brings
    <3>2. Passed(p)' = {}
      BY <3>1, <1>2 DEF Passed
    <3> QED BY <3>1, <3>2, <1>1, <1>2, <1>3 DEF Brings, Runs
  <2>3. Alone(p) => Alone(p)'
    BY <1>2, <1>3 DEF Alone
  <2>4. Undisputed(p) => Undisputed(p)'
    <3>1. DOMAIN made[p] = {}
      BY <1>1 DEF Runs, Brings
    <3> QED BY <3>1, <2>3, <1>2, <1>3 DEF Undisputed, Untouched, Refreshes, Links, Reads
  <2> QED BY <2>1, <2>2, <2>3, <2>4, <1>1, <1>2 DEF Runs
<1>7. moved'[p] = {}
  BY <1>1, <1>2 DEF ImportInv
<1>8. \A q \in Procs \ {p} : Stands(q)
  BY <1>2, <1>3 DEF Stands
<1>9. OneImporter => OneTaskPerItem'
  BY <1>2 DEF ImportInv, OneTaskPerItem
<1>10. UNCHANGED quiet /\ settled' = NoDoc /\ pc'[p] # "idle"
  BY <1>1, <1>2, <1>3
<1> QED
  <2>1. IF pc'[p] = "idle" THEN DOMAIN made'[p] = {} ELSE Runs(p)'
    BY <1>6, <1>10
  <2> QED BY <1>1, <1>5, <2>1, <1>7, <1>8, <1>9, <1>10, StepOfOne

\* A step of Start keeps ImportInv.
LEMMA StartKeeps ==
  ASSUME ImportInv, NEW p \in Procs, Start(p)
  PROVE  ImportInv'
<1>1. pc[p] = "idle" /\ Shape
  BY DEF Start, ImportInv
<1>2. PICK d \in Docs, f \in {0} \cup DOMAIN features :
        doc' = [doc EXCEPT ![p] = d] /\ under' = [under EXCEPT ![p] = f]
  BY DEF Start
<1>3. /\ seen' = [seen EXCEPT ![p] = [tasks |-> tasks, features |-> features]]
      /\ at' = [at EXCEPT ![p] = 1] /\ made' = [made EXCEPT ![p] = NoTasks]
      /\ pc' = [pc EXCEPT ![p] = "feature"]
      /\ quiet' = [q \in Procs |-> q = p /\ \A o \in Procs : o = p \/ pc[o] = "idle"]
      /\ settled' = NoDoc
      /\ UNCHANGED <<tasks, features, acceptance, moved, read, used>>
  BY DEF Start, Goto, board
<1>4. /\ doc'[p] = d /\ under'[p] = f /\ at'[p] = 1 /\ made'[p] = NoTasks /\ pc'[p] = "feature"
      /\ seen'[p].tasks = tasks /\ seen'[p].features = features
  BY <1>1, <1>2, <1>3 DEF Shape
<1>5. \A q \in Procs \ {p} : Stands(q) /\ ~quiet'[q]
  BY <1>1, <1>2, <1>3 DEF Shape, Stands
<1>6. f \in Nat /\ f <= Len(features)
  BY <1>1, <1>2 DEF Shape
<1>7. Shape' /\ Grows
  <2>1. Grows
    BY <1>1, <1>3 DEF Grows, Shape
  <2>2. made' = [q \in Procs |-> made'[q]] /\ seen' = [q \in Procs |-> seen'[q]]
    BY <1>1, <1>3 DEF Shape
  <2> QED BY <1>1, <1>2, <1>3, <1>6, <2>1, <2>2 DEF Shape, Importing
<1>8. DOMAIN made'[p] = {}
  BY <1>4 DEF NoTasks
<1>9. Runs(p)'
  <2>1. Remembers(p)'
    <3>1. Len(d.order) \in Nat
      BY Orders
    <3>2. 1 \in 1 .. Len(d.order) + 1
      BY <3>1
    <3> QED BY <3>2, <1>1, <1>2, <1>3, <1>4, <1>6 DEF Remembers, Shape
  <2>2. Brings(p)'
    BY <1>4, <1>8 DEF Brings, NoTasks
  <2>3. (OneImporter \/ quiet'[p]) => Alone(p)'
    <3>1. (OneImporter \/ quiet'[p]) => \A q \in Procs \ {p} : pc'[q] = "idle"
      BY <1>1, <1>3, <1>5 DEF OneImporter, Stands
    <3> QED BY <3>1, <1>3, <1>4 DEF Alone
  <2>4. Untouched(p)' /\ Refreshes(p)' /\ Links(p)' /\ Reads(p)'
    BY <1>3, <1>4, <1>8 DEF Untouched, Refreshes, Links, Reads
  <2> QED BY <2>1, <2>2, <2>3, <2>4 DEF Runs, Undisputed, OneImporter
<1>10. ASSUME NEW q \in Procs \ {p}
       PROVE  IF pc'[q] = "idle" THEN DOMAIN made'[q] = {} ELSE Runs(q)'
  <2>1. CASE pc[q] = "idle"
    BY <1>5, <2>1 DEF ImportInv, Stands
  <2>2. CASE pc[q] # "idle"
    <3>1. Runs(q)
      BY <2>2 DEF ImportInv
    <3>2. Remembers(q)' /\ Brings(q)'
      BY <3>1, <1>1, <1>5, <1>7, StillRemembers DEF Runs
    <3> QED BY <3>2, <1>5, <2>2 DEF Runs, OneImporter, Stands
  <2> QED BY <2>1, <2>2
<1>11. \A q \in Procs : pc'[q] # "links" => moved'[q] = {}
  <2>1. moved'[p] = {}
    BY <1>1, <1>3 DEF ImportInv
  <2> QED BY <2>1, <1>5 DEF ImportInv, Stands
<1>12. OneImporter => OneTaskPerItem'
  BY <1>3 DEF ImportInv, OneTaskPerItem
<1> QED
  <2>1. \A q \in Procs : IF pc'[q] = "idle" THEN DOMAIN made'[q] = {} ELSE Runs(q)'
    BY <1>4, <1>9, <1>10
  <2>2. settled' = NoDoc
    BY <1>3
  <2> QED BY <1>7, <2>1, <2>2, <1>11, <1>12 DEF ImportInv

\* The item that p is at in the first loop: none of the tasks it has made so
\* far is of this item, and what it finds are tasks that it has read.
LEMMA ItemAt ==
  ASSUME Shape, NEW p \in Procs, pc[p] = "items", Runs(p), at[p] <= Len(doc[p].order),
         NEW r, r = doc[p].order[at[p]]
  PROVE  /\ r \in Refs /\ r \notin DOMAIN made[p] /\ DOMAIN made[p] = Passed(p)
         /\ at[p] \in 1 .. Len(doc[p].order) /\ Len(doc[p].order) \in Nat
         /\ {doc[p].order[k] : k \in 1 .. at[p]} = Passed(p) \cup {r}
         /\ \A s \in DOMAIN made[p] : made[p][s] \in DOMAIN tasks /\ tasks[made[p][s]].ref # r
<1>1. /\ DOMAIN made[p] = Passed(p) /\ doc[p] \in Docs /\ at[p] \in 1 .. Len(doc[p].order) + 1
      /\ \A s \in DOMAIN made[p] : made[p][s] \in DOMAIN tasks /\ tasks[made[p][s]].ref = s
  BY DEF Runs, Remembers, Brings
<1>2. /\ Len(doc[p].order) \in Nat
      /\ \A k \in 1 .. Len(doc[p].order) : doc[p].order[k] \in Refs
      /\ \A j, k \in 1 .. Len(doc[p].order) : doc[p].order[j] = doc[p].order[k] => j = k
  BY <1>1, Orders
<1>3. at[p] \in 1 .. Len(doc[p].order)
  BY <1>1, <1>2
<1>4. r \notin Passed(p)
  BY <1>2, <1>3 DEF Passed
<1>5. {doc[p].order[k] : k \in 1 .. at[p]} = Passed(p) \cup {r}
  BY <1>3 DEF Passed
<1> QED BY <1>1, <1>2, <1>3, <1>4, <1>5

\* What the first loop does for an item, whether it finds a task or adds one.
ItemBrought(p, r, i) ==
  /\ r = doc[p].order[at[p]]
  /\ i \in Ids /\ DOMAIN tasks' = DOMAIN tasks \cup {i}
  /\ tasks' = [j \in DOMAIN tasks' |-> tasks'[j]]
  /\ \A j \in DOMAIN tasks \ {i} : tasks'[j] = tasks[j]
  /\ tasks'[i] \in Task /\ tasks'[i].ref = r
  /\ tasks'[i].brief = doc[p].brief /\ doc[p].tags[r] \subseteq tasks'[i].tags
  /\ i \in DOMAIN tasks =>
       /\ i \in DOMAIN seen[p].tasks /\ seen[p].tasks[i].ref = r
       /\ \A j \in Existing(seen[p].tasks, r) : j <= i
       /\ tasks[i].ref = r /\ tasks'[i].status = tasks[i].status
       /\ tasks'[i].tags = seen[p].tasks[i].tags \cup doc[p].tags[r]
       /\ tasks'[i].pbi = tasks[i].pbi /\ tasks'[i].blocked_by = tasks[i].blocked_by
  /\ i \notin DOMAIN tasks =>
       /\ Existing(seen[p].tasks, r) = {} /\ i = NextTask /\ \A j \in DOMAIN tasks : j < i
       /\ ~tasks'[i].pbi /\ tasks'[i].blocked_by = {}

\* What importing one item does: it finds or adds one task and records it for the item.
LEMMA UpsertItemBrings ==
  ASSUME Shape, NEW p \in Procs, Runs(p), UpsertItem(p)
  PROVE  \E r \in Refs, i \in Ids :
           /\ ItemBrought(p, r, i)
           /\ made' = [made EXCEPT ![p] = [s \in DOMAIN made[p] \cup {r} |-> IF s = r THEN i ELSE made[p][s]]]
<1> DEFINE d == doc[p]
           r == d.order[at[p]]
           found == Existing(seen[p].tasks, r)
<1>0. pc[p] = "items" /\ at[p] <= Len(d.order)
  BY DEF UpsertItem
<1>1. r \in Refs
  BY <1>0, ItemAt
<1>2. PICK n \in Nat : DOMAIN tasks = 1 .. n
  BY DEF Shape
<1>3. NextTask = n + 1
  BY <1>2, Next1
<1>4. d \in Docs /\ d.tags[r] \in SUBSET Tags /\ d.brief \in Nat
  BY <1>1, Orders DEF Runs, Remembers
<1>5. CASE found = {}
  <2>1. PICK k : k = NewTask(d, r)
    OBVIOUS
  <2>2. /\ k \in Task /\ k.ref = r /\ k.brief = d.brief /\ k.tags = d.tags[r]
        /\ ~k.pbi /\ k.blocked_by = {}
    BY <1>1, <1>4, <2>1 DEF NewTask, Task
  <2>3. tasks' = [j \in DOMAIN tasks \cup {n + 1} |-> IF j # n + 1 THEN tasks[j] ELSE k]
    BY <1>3, <1>5, <2>1 DEF UpsertItem
  <2>4. made' = [made EXCEPT ![p] = [s \in DOMAIN made[p] \cup {r} |-> IF s = r THEN n + 1 ELSE made[p][s]]]
    BY <1>3, <1>5 DEF UpsertItem
  <2>5. n + 1 \notin DOMAIN tasks /\ n + 1 \in Ids /\ \A j \in DOMAIN tasks : j < n + 1
    BY <1>2 DEF Ids
  <2>6. ItemBrought(p, r, n + 1)
    BY <1>3, <1>5, <2>2, <2>3, <2>5 DEF ItemBrought
  <2> QED BY <1>1, <2>4, <2>5, <2>6
<1>6. CASE found # {}
  <2>1. PICK i : i = Max(found)
    OBVIOUS
  <2>2. i \in found /\ \A j \in found : j <= i
    <3>1. PICK m \in Nat : DOMAIN seen[p].tasks = 1 .. m
      BY DEF Runs, Remembers
    <3>2. found \in SUBSET (1 .. m)
      BY <3>1 DEF Existing
    <3> HIDE DEF found
    <3> QED BY <1>6, <2>1, <3>2, Bounds
  <2>3. /\ i \in DOMAIN seen[p].tasks /\ seen[p].tasks[i].ref = r /\ i \in DOMAIN tasks
        /\ tasks[i].ref = r /\ tasks[i] \in Task /\ seen[p].tasks[i] \in Task
    BY <2>2 DEF Existing, Runs, Remembers, Shape
  <2>4. PICK k : k = Refreshed(tasks[i], seen[p].tasks[i], d, r)
    OBVIOUS
  <2>5. /\ k \in Task /\ k.ref = r /\ k.brief = d.brief /\ k.tags = seen[p].tasks[i].tags \cup d.tags[r]
        /\ k.status = tasks[i].status /\ k.pbi = tasks[i].pbi /\ k.blocked_by = tasks[i].blocked_by
    BY <1>4, <2>3, <2>4 DEF Refreshed, Task
  <2>6. tasks' = [j \in DOMAIN tasks \cup {i} |-> IF j # i THEN tasks[j] ELSE k]
    BY <1>6, <2>1, <2>4 DEF UpsertItem
  <2>7. made' = [made EXCEPT ![p] = [s \in DOMAIN made[p] \cup {r} |-> IF s = r THEN i ELSE made[p][s]]]
    BY <1>6, <2>1 DEF UpsertItem
  <2>8. i \in Ids
    BY <1>2, <2>3 DEF Ids
  <2>9. ItemBrought(p, r, i)
    BY <2>2, <2>3, <2>5, <2>6, <2>8 DEF ItemBrought
  <2> QED BY <1>1, <2>7, <2>8, <2>9
<1> QED BY <1>5, <1>6

\* A step of UpsertItem keeps ImportInv.
LEMMA UpsertItemKeeps ==
  ASSUME ImportInv, NEW p \in Procs, UpsertItem(p)
  PROVE  ImportInv'
<1>1. pc[p] = "items" /\ pc[p] # "idle" /\ Shape /\ Runs(p) /\ settled = NoDoc /\ at[p] <= Len(doc[p].order)
  BY Unsettled DEF UpsertItem, ImportInv
<1>2. /\ at' = [at EXCEPT ![p] = @ + 1]
      /\ UNCHANGED <<features, acceptance, pc, doc, seen, under, moved, read, quiet, settled, used>>
  BY DEF UpsertItem
<1>3. PICK r \in Refs, i \in Ids :
        /\ ItemBrought(p, r, i)
        /\ made' = [made EXCEPT ![p] = [s \in DOMAIN made[p] \cup {r} |-> IF s = r THEN i ELSE made[p][s]]]
  BY <1>1, UpsertItemBrings
<1>4. /\ DOMAIN made'[p] = DOMAIN made[p] \cup {r} /\ made'[p][r] = i
      /\ \A s \in DOMAIN made[p] : s # r => made'[p][s] = made[p][s]
      /\ made'[p] = [s \in DOMAIN made'[p] |-> made'[p][s]]
  BY <1>1, <1>3 DEF Shape
<1>5. at'[p] = at[p] + 1 /\ at[p] \in Nat
  BY <1>1, <1>2 DEF Shape
<1>6. /\ r \notin DOMAIN made[p] /\ DOMAIN made[p] = Passed(p)
      /\ at[p] \in 1 .. Len(doc[p].order) /\ Len(doc[p].order) \in Nat
      /\ {doc[p].order[k] : k \in 1 .. at[p]} = Passed(p) \cup {r}
      /\ \A s \in DOMAIN made[p] : made[p][s] \in DOMAIN tasks /\ tasks[made[p][s]].ref # r
  BY <1>1, <1>3, ItemAt DEF ItemBrought
<1>7. \A s \in DOMAIN made[p] : made[p][s] # i
  BY <1>3, <1>6 DEF ItemBrought
<1>8. Grows
  <2>1. \A j \in DOMAIN tasks : tasks'[j].ref = tasks[j].ref
    BY <1>3 DEF ItemBrought
  <2> QED BY <2>1, <1>1, <1>2, <1>3 DEF Grows, ItemBrought, Shape
<1>9. Shape'
  <2>1. PICK n \in Nat : DOMAIN tasks = 1 .. n
    BY <1>1 DEF Shape
  <2>2. i \in DOMAIN tasks \/ i = n + 1
    BY <1>3, <2>1, Next1 DEF ItemBrought
  <2>3. \E m \in Nat : DOMAIN tasks' = 1 .. m
    <3>1. CASE i \in DOMAIN tasks
      BY <2>1, <3>1, <1>3 DEF ItemBrought
    <3>2. CASE i = n + 1
      <4>1. DOMAIN tasks' = 1 .. n + 1
        BY <2>1, <3>2, <1>3 DEF ItemBrought
      <4> QED BY <4>1
    <3> QED BY <2>2, <3>1, <3>2
  <2>4. tasks' = [j \in DOMAIN tasks' |-> tasks'[j]] /\ \A j \in DOMAIN tasks' : tasks'[j] \in Task
    BY <1>1, <1>3 DEF ItemBrought, Shape
  <2>5. made' = [q \in Procs |-> made'[q]] /\ at' \in [Procs -> Nat]
    <3>1. PICK m : m = [s \in DOMAIN made[p] \cup {r} |-> IF s = r THEN i ELSE made[p][s]]
      OBVIOUS
    <3>2. made' = [made EXCEPT ![p] = m]
      BY <3>1, <1>3
    <3>3. made = [q \in Procs |-> made[q]] /\ at \in [Procs -> Nat]
      BY <1>1 DEF Shape
    <3>4. made' = [q \in Procs |-> made'[q]]
      BY <3>2, <3>3
    <3> QED BY <3>3, <3>4, <1>2
  <2> QED BY <1>1, <1>2, <2>3, <2>4, <2>5 DEF Shape
<1>10. Remembers(p)' /\ Brings(p)'
  <2>1. at'[p] \in 1 .. Len(doc[p].order) + 1
    BY <1>5, <1>6
  <2>2. Remembers(p)'
    BY <2>1, <1>1, <1>2, <1>8, <1>9, BoardGrows DEF Runs
  <2>3. Passed(p)' = DOMAIN made'[p]
    <3>1. at'[p] - 1 = at[p]
      BY <1>5
    <3>2. Passed(p)' = {doc[p].order[k] : k \in 1 .. at'[p] - 1}
      BY <1>2 DEF Passed
    <3> QED BY <3>1, <3>2, <1>4, <1>6
  <2>4. ASSUME NEW s \in DOMAIN made'[p]
        PROVE  made'[p][s] \in DOMAIN tasks' /\ tasks'[made'[p][s]].ref = s
    <3>1. CASE s = r
      BY <3>1, <1>3, <1>4 DEF ItemBrought
    <3>2. CASE s \in DOMAIN made[p]
      <4>1. made[p][s] \in DOMAIN tasks /\ tasks[made[p][s]].ref = s /\ made'[p][s] = made[p][s]
        BY <3>2, <1>1, <1>4, <1>6 DEF Runs, Brings
      <4> QED BY <4>1, <1>8 DEF Grows
    <3> QED BY <2>4, <3>1, <3>2, <1>4
  <2>5. Brings(p)'
    BY <2>3, <2>4, <1>1, <1>2, <1>4 DEF Brings
  <2> QED BY <2>2, <2>5
<1>11. ASSUME Alone(p)
       PROVE  Alone(p)'
  <2>1. ASSUME NEW j \in DOMAIN tasks' \ DOMAIN seen[p].tasks
        PROVE  tasks'[j].ref \in DOMAIN made'[p] /\ made'[p][tasks'[j].ref] = j
    <3>1. CASE j = i
      BY <3>1, <1>3, <1>4 DEF ItemBrought
    <3>2. CASE j # i
      <4>1. j \in DOMAIN tasks /\ tasks'[j] = tasks[j]
        BY <2>1, <3>2, <1>3 DEF ItemBrought
      <4>2. tasks[j].ref \in DOMAIN made[p] /\ made[p][tasks[j].ref] = j
        BY <1>11, <2>1, <4>1 DEF Alone
      <4> QED BY <4>1, <4>2, <1>4, <1>6
    <3> QED BY <3>1, <3>2
  <2> QED BY <1>11, <2>1, <1>1, <1>2 DEF Alone
<1>12. ASSUME Undisputed(p)
       PROVE  Undisputed(p)'
  <2>1. Alone(p)'
    BY <1>11, <1>12 DEF Undisputed
  <2>2. Untouched(p)'
    <3>1. ASSUME NEW j \in DOMAIN seen[p].tasks, \A s \in DOMAIN made'[p] : made'[p][s] # j
          PROVE  tasks'[j] = seen[p].tasks[j]
      <4>1. j # i /\ \A s \in DOMAIN made[p] : made[p][s] # j
        BY <3>1, <1>4, <1>6
      <4>2. tasks[j] = seen[p].tasks[j] /\ j \in DOMAIN tasks
        BY <4>1, <1>1, <1>12 DEF Undisputed, Untouched, Runs, Remembers
      <4> QED BY <4>1, <4>2, <1>3 DEF ItemBrought
    <3> QED BY <3>1, <1>2 DEF Untouched
  <2>3. i \in DOMAIN tasks => tasks[i] = seen[p].tasks[i]
    BY <1>3, <1>7, <1>12 DEF Undisputed, Untouched, ItemBrought
  <2>4. i \notin DOMAIN tasks => i \notin DOMAIN seen[p].tasks
    BY <1>1 DEF Runs, Remembers
  <2>5. ASSUME NEW s \in DOMAIN made[p]
        PROVE  s # r /\ made'[p][s] = made[p][s] /\ tasks'[made[p][s]] = tasks[made[p][s]]
    BY <1>3, <1>4, <1>6, <1>7 DEF ItemBrought
  <2>6. Refreshes(p)'
    <3>1. ASSUME NEW s \in DOMAIN made[p]
          PROVE  /\ \A j \in Existing(tasks', s) : j <= made'[p][s]
                 /\ tasks'[made'[p][s]].brief = doc[p].brief
                 /\ doc[p].tags[s] \subseteq tasks'[made'[p][s]].tags
                 /\ tasks'[made'[p][s]].pbi <=> Under(p, made'[p][s])
      <4>1. Existing(tasks', s) \subseteq Existing(tasks, s)
        BY <2>5, <1>3 DEF ItemBrought, Existing
      <4> QED BY <4>1, <2>5, <1>12 DEF Undisputed, Refreshes
    <3>2. \A j \in Existing(tasks', r) : j <= i
      <4>1. CASE i \notin DOMAIN tasks
        <5>1. \A j \in DOMAIN tasks : j < i /\ j \in Nat
          BY <4>1, <1>1, <1>3 DEF ItemBrought, Shape
        <5> QED BY <5>1, <1>3 DEF ItemBrought, Existing, Ids
      <4>2. CASE i \in DOMAIN tasks
        <5>1. ASSUME NEW j \in DOMAIN tasks, tasks[j].ref = r
              PROVE  j \in Existing(seen[p].tasks, r)
          <6>1. j \in DOMAIN seen[p].tasks
            BY <5>1, <1>6, <1>12 DEF Undisputed, Alone
          <6> QED BY <5>1, <6>1, <1>1 DEF Existing, Runs, Remembers
        <5>2. Existing(tasks', r) \subseteq Existing(seen[p].tasks, r)
          BY <5>1, <4>2, <1>3 DEF ItemBrought, Existing
        <5> QED BY <5>2, <4>2, <1>3 DEF ItemBrought
      <4> QED BY <4>1, <4>2
    <3>3. tasks'[i].pbi <=> Under(p, i)
      BY <2>3, <2>4, <1>3 DEF ItemBrought, Under
    <3>4. tasks'[i].brief = doc[p].brief /\ doc[p].tags[r] \subseteq tasks'[i].tags
      BY <1>3 DEF ItemBrought
    <3> QED BY <3>1, <3>2, <3>3, <3>4, <2>5, <1>2, <1>4 DEF Refreshes, Under
  <2>7. Links(p)'
    <3>1. ASSUME NEW s \in DOMAIN made[p]
          PROVE  tasks'[made'[p][s]].blocked_by = Had(p, made'[p][s])
      BY <2>5, <1>1, <1>12 DEF Undisputed, Links
    <3>2. tasks'[i].blocked_by = Had(p, i)
      BY <2>3, <2>4, <1>3 DEF ItemBrought, Had
    <3> QED BY <3>1, <3>2, <1>1, <1>2, <1>4 DEF Links, Had
  <2>8. Reads(p)'
    BY <1>1, <1>2 DEF Reads
  <2> QED BY <2>1, <2>2, <2>6, <2>7, <2>8 DEF Undisputed
<1>13. Runs(p)'
  BY <1>1, <1>2, <1>10, <1>11, <1>12 DEF Runs, OneImporter
<1>14. ASSUME OneImporter
       PROVE  OneTaskPerItem'
  <2>1. Alone(p) /\ OneTaskPerItem
    BY <1>1, <1>14 DEF Runs, ImportInv
  <2>2. ASSUME NEW j \in DOMAIN tasks, j # i
        PROVE  tasks[j].ref # r
    <3>1. CASE i \in DOMAIN tasks
      BY <2>1, <2>2, <3>1, <1>3 DEF OneTaskPerItem, ItemBrought
    <3>2. CASE i \notin DOMAIN tasks
      <4>1. CASE j \in DOMAIN seen[p].tasks
        BY <3>2, <4>1, <1>1, <1>3 DEF ItemBrought, Existing, Runs, Remembers
      <4>2. CASE j \notin DOMAIN seen[p].tasks
        BY <2>1, <4>2, <1>6 DEF Alone
      <4> QED BY <4>1, <4>2
    <3> QED BY <3>1, <3>2
  <2> QED BY <2>1, <2>2, <1>3 DEF OneTaskPerItem, ItemBrought
<1> QED
  <2>1. \A q \in Procs \ {p} : Stands(q)
    BY <1>1, <1>2, <1>3 DEF Stands, Shape
  <2>2. moved'[p] = {}
    BY <1>1, <1>2 DEF ImportInv
  <2>3. IF pc'[p] = "idle" THEN DOMAIN made'[p] = {} ELSE Runs(p)'
    BY <1>1, <1>2, <1>13
  <2>4. settled' = NoDoc /\ UNCHANGED quiet
    BY <1>1, <1>2
  <2> QED BY <1>1, <1>8, <1>9, <1>14, <2>1, <2>2, <2>3, <2>4, StepOfOne

\* Past the last position, all items are passed.
LEMMA AllPassed ==
  ASSUME Shape, NEW p \in Procs, Remembers(p), ~(at[p] <= Len(doc[p].order))
  PROVE  Passed(p) = ToSet(doc[p].order)
<1>1. Len(doc[p].order) \in Nat /\ DOMAIN doc[p].order = 1 .. Len(doc[p].order) /\ at[p] \in 1 .. Len(doc[p].order) + 1
  BY Orders DEF Remembers
<1>2. at[p] - 1 = Len(doc[p].order)
  BY <1>1
<1> QED BY <1>1, <1>2 DEF Passed, ToSet

\* A step of ItemsDone keeps ImportInv.
LEMMA ItemsDoneKeeps ==
  ASSUME ImportInv, NEW p \in Procs, ItemsDone(p)
  PROVE  ImportInv'
<1>1. pc[p] = "items" /\ pc[p] # "idle" /\ Shape /\ Runs(p) /\ settled = NoDoc
      /\ ~(at[p] <= Len(doc[p].order)) /\ moved[p] = {}
  <2>1. Len(doc[p].order) \in Nat /\ at[p] \in Nat
    BY Orders DEF ItemsDone, ImportInv, Runs, Remembers, Shape
  <2> QED BY <2>1, Unsettled DEF ItemsDone, ImportInv
<1>2. /\ at' = [at EXCEPT ![p] = 1] /\ pc' = [pc EXCEPT ![p] = "links"]
      /\ UNCHANGED <<tasks, features, acceptance, doc, seen, under, made, moved, read, quiet, settled, used>>
  BY DEF ItemsDone, Goto, board
<1>3. at'[p] = 1 /\ pc'[p] = "links"
  BY <1>1, <1>2 DEF Shape
<1>4. DOMAIN made[p] = ToSet(doc[p].order)
  BY <1>1, AllPassed DEF Runs, Brings
<1>5. Shape' /\ Grows
  <2>1. Grows
    BY <1>1, <1>2 DEF Grows, Shape
  <2> QED BY <2>1, <1>1, <1>2 DEF Shape, Importing
<1>6. Passed(p)' = {}
  BY <1>3 DEF Passed
<1>7. Runs(p)'
  <2>1. Remembers(p)'
    <3>1. 1 \in 1 .. Len(doc[p].order) + 1
      BY Orders, <1>1 DEF Runs, Remembers
    <3> QED BY <3>1, <1>1, <1>2, <1>3, <1>5, BoardGrows DEF Runs
  <2>2. Brings(p)'
    BY <1>1, <1>2, <1>3, <1>4 DEF Runs, Brings
  <2>3. Alone(p) => Alone(p)'
    BY <1>1, <1>2, <1>3 DEF Alone
  <2>4. Undisputed(p) => Links(p)'
    BY <1>1, <1>2, <1>3, <1>6 DEF Undisputed, Links, Had
  <2>5. Undisputed(p) => Undisputed(p)'
    BY <2>3, <2>4, <1>2, <1>3 DEF Undisputed, Untouched, Refreshes, Under, Reads
  <2> QED BY <2>1, <2>2, <2>3, <2>5, <1>1, <1>2 DEF Runs
<1> QED
  <2>1. \A q \in Procs \ {p} : Stands(q)
    BY <1>1, <1>2 DEF Stands, Shape
  <2>2. OneImporter => OneTaskPerItem'
    BY <1>2 DEF ImportInv, OneTaskPerItem
  <2>3. IF pc'[p] = "idle" THEN DOMAIN made'[p] = {} ELSE Runs(p)'
    BY <1>3, <1>7
  <2>4. settled' = NoDoc /\ UNCHANGED quiet
    BY <1>1, <1>2
  <2>5. pc'[p] # "links" => moved'[p] = {}
    BY <1>3
  <2> QED BY <1>1, <1>5, <2>1, <2>2, <2>3, <2>4, <2>5, StepOfOne

\* The item that p is at in the second loop.
LEMMA LinkAt ==
  ASSUME Shape, NEW p \in Procs, pc[p] = "links", Runs(p), at[p] <= Len(doc[p].order),
         NEW r, r = doc[p].order[at[p]]
  PROVE  /\ r \in DOMAIN made[p] /\ r \notin Passed(p) /\ IsAt(p, r)
         /\ at[p] \in 1 .. Len(doc[p].order) /\ Len(doc[p].order) \in Nat
         /\ TaskAt(p) = made[p][r] /\ TaskAt(p) \in DOMAIN tasks /\ tasks[TaskAt(p)] \in Task
         /\ \A s \in DOMAIN made[p] : made[p][s] = TaskAt(p) => s = r
         /\ Desired(p) = Wanted(p, r) /\ Current(p) = Had(p, TaskAt(p))
         /\ Desired(p) \subseteq Ids /\ Current(p) \subseteq Ids
         /\ \A s \in DOMAIN made[p] \ {r} : ~IsAt(p, s)
<1>1. /\ DOMAIN made[p] = ToSet(doc[p].order) /\ doc[p] \in Docs /\ at[p] \in 1 .. Len(doc[p].order) + 1
      /\ \A s \in DOMAIN made[p] : made[p][s] \in DOMAIN tasks /\ tasks[made[p][s]].ref = s
  BY DEF Runs, Remembers, Brings
<1>2. /\ Len(doc[p].order) \in Nat /\ DOMAIN doc[p].order = 1 .. Len(doc[p].order)
      /\ \A j, k \in 1 .. Len(doc[p].order) : doc[p].order[j] = doc[p].order[k] => j = k
  BY <1>1, Orders
<1>3. at[p] \in 1 .. Len(doc[p].order)
  BY <1>1, <1>2
<1>4. r \in DOMAIN made[p] /\ r \notin Passed(p) /\ IsAt(p, r)
  <2>1. r \in DOMAIN made[p]
    BY <1>1, <1>2, <1>3 DEF ToSet
  <2>2. \A k \in 1 .. at[p] - 1 : k \in 1 .. Len(doc[p].order) /\ k # at[p]
    BY <1>2, <1>3
  <2>3. r \notin Passed(p)
    BY <2>2, <1>2, <1>3 DEF Passed
  <2> QED BY <2>1, <2>3 DEF IsAt
<1>5. TaskAt(p) = made[p][r]
  BY DEF TaskAt
<1>6. Desired(p) = Wanted(p, r) /\ Current(p) = Had(p, TaskAt(p))
  BY DEF Desired, Wanted, Current, Had
<1>7. DOMAIN tasks \subseteq Ids
  BY DEF Shape, Ids
<1>8. Desired(p) \subseteq Ids
  BY <1>1, <1>7 DEF Desired
<1>9. Current(p) \subseteq Ids
  BY DEF Current, Runs, Remembers, Task
<1>10. TaskAt(p) \in DOMAIN tasks /\ tasks[TaskAt(p)] \in Task
  BY <1>1, <1>4, <1>5 DEF Shape
<1>11. \A s \in DOMAIN made[p] : made[p][s] = TaskAt(p) => s = r
  BY <1>1, <1>4, <1>5
<1>12. \A s \in DOMAIN made[p] \ {r} : ~IsAt(p, s)
  BY DEF IsAt
<1> QED BY <1>2, <1>3, <1>4, <1>5, <1>6, <1>8, <1>9, <1>10, <1>11, <1>12

\* A step of LinkItem keeps ImportInv.
LEMMA LinkItemKeeps ==
  ASSUME ImportInv, NEW p \in Procs, LinkItem(p)
  PROVE  ImportInv'
<1>1. pc[p] = "links" /\ pc[p] # "idle" /\ Shape /\ Runs(p) /\ settled = NoDoc /\ at[p] <= Len(doc[p].order)
  BY Unsettled DEF LinkItem, ImportInv
<1>2. UNCHANGED <<features, acceptance, pc, doc, seen, under, at, made, read, quiet, settled, used>>
  BY DEF LinkItem
<1>3. PICK r : r = doc[p].order[at[p]]
  OBVIOUS
<1>4. PICK i : i = TaskAt(p)
  OBVIOUS
<1>5. /\ r \in DOMAIN made[p] /\ r \notin Passed(p) /\ IsAt(p, r)
      /\ i = made[p][r] /\ i \in DOMAIN tasks /\ tasks[i] \in Task
      /\ \A s \in DOMAIN made[p] : made[p][s] = i => s = r
      /\ Desired(p) = Wanted(p, r) /\ Current(p) = Had(p, i)
      /\ Desired(p) \subseteq Ids /\ Current(p) \subseteq Ids
      /\ \A s \in DOMAIN made[p] \ {r} : ~IsAt(p, s)
  BY <1>1, <1>3, <1>4, LinkAt
<1>6. PICK n \in Ids :
        /\ n \in (Wanted(p, r) \ Had(p, i)) \cup (Had(p, i) \ Wanted(p, r)) /\ n \notin moved[p]
        /\ tasks' = [tasks EXCEPT ![i].blocked_by = IF n \in Wanted(p, r) THEN @ \cup {n} ELSE @ \ {n}]
        /\ moved' = [moved EXCEPT ![p] = @ \cup {n}]
  BY <1>4, <1>5 DEF LinkItem, Missing, Unwanted
<1>7. PICK k : k = [tasks[i] EXCEPT !.blocked_by = IF n \in Wanted(p, r) THEN @ \cup {n} ELSE @ \ {n}]
  OBVIOUS
<1>8. /\ k \in Task /\ k.ref = tasks[i].ref /\ k.brief = tasks[i].brief /\ k.tags = tasks[i].tags
      /\ k.pbi = tasks[i].pbi
      /\ k.blocked_by = IF n \in Wanted(p, r) THEN tasks[i].blocked_by \cup {n} ELSE tasks[i].blocked_by \ {n}
  BY <1>5, <1>7 DEF Task
<1>9. tasks' = [tasks EXCEPT ![i] = k]
  BY <1>6, <1>7
<1>10. /\ DOMAIN tasks' = DOMAIN tasks /\ tasks'[i] = k
       /\ \A j \in DOMAIN tasks \ {i} : tasks'[j] = tasks[j]
       /\ \A j \in DOMAIN tasks : /\ tasks'[j].ref = tasks[j].ref /\ tasks'[j].brief = tasks[j].brief
                                  /\ tasks'[j].tags = tasks[j].tags /\ tasks'[j].pbi = tasks[j].pbi
  BY <1>1, <1>5, <1>8, <1>9 DEF Shape
<1>11. moved'[p] = moved[p] \cup {n} /\ \A q \in Procs \ {p} : moved'[q] = moved[q]
  BY <1>1, <1>6 DEF Shape
<1>12. Shape' /\ Grows
  <2>1. Grows
    BY <1>1, <1>2, <1>10 DEF Grows, Shape
  <2>2. tasks' = [j \in DOMAIN tasks' |-> tasks'[j]] /\ \A j \in DOMAIN tasks' : tasks'[j] \in Task
    <3>1. tasks = [j \in DOMAIN tasks |-> tasks[j]] /\ \A j \in DOMAIN tasks : tasks[j] \in Task
      BY <1>1 DEF Shape
    <3>2. tasks' = [j \in DOMAIN tasks' |-> tasks'[j]]
      BY <3>1, <1>9
    <3> QED BY <3>1, <3>2, <1>8, <1>10
  <2>3. moved' \in [Procs -> SUBSET Ids]
    BY <1>1, <1>6 DEF Shape
  <2> QED BY <2>1, <2>2, <2>3, <1>1, <1>2, <1>10 DEF Shape
<1>13. Remembers(p)' /\ Brings(p)'
  <2>1. Remembers(p)'
    BY <1>1, <1>2, <1>12, BoardGrows DEF Runs, Remembers
  <2> QED BY <2>1, <1>1, <1>2, <1>10 DEF Runs, Brings, Passed
<1>14. Alone(p) => Alone(p)'
  BY <1>1, <1>2, <1>10 DEF Alone
<1>15. ASSUME Undisputed(p)
       PROVE  Undisputed(p)'
  <2>1. Untouched(p)'
    BY <1>1, <1>2, <1>5, <1>10, <1>15 DEF Undisputed, Untouched, Runs, Remembers
  <2>2. Refreshes(p)'
    <3>1. \A s \in DOMAIN made[p] : made[p][s] \in DOMAIN tasks /\ Existing(tasks', s) = Existing(tasks, s)
      BY <1>1, <1>10 DEF Runs, Brings, Existing
    <3> QED BY <3>1, <1>2, <1>10, <1>15 DEF Undisputed, Refreshes, Under
  <2>3. Links(p)'
    <3>1. tasks[i].blocked_by = (Had(p, i) \ moved[p]) \cup (moved[p] \cap Wanted(p, r))
      BY <1>1, <1>5, <1>15 DEF Undisputed, Links
    <3>2. tasks'[i].blocked_by = (Had(p, i) \ moved'[p]) \cup (moved'[p] \cap Wanted(p, r))
      BY <3>1, <1>6, <1>8, <1>10, <1>11
    <3>3. ASSUME NEW s \in DOMAIN made[p], s # r
          PROVE  tasks'[made[p][s]].blocked_by = IF s \in Passed(p) THEN Wanted(p, s) ELSE Had(p, made[p][s])
      <4>1. tasks'[made[p][s]] = tasks[made[p][s]]
        BY <3>3, <1>1, <1>5, <1>10 DEF Runs, Brings
      <4> QED BY <3>3, <4>1, <1>1, <1>5, <1>15 DEF Undisputed, Links
    <3>4. /\ Passed(p)' = Passed(p)
          /\ \A s : Wanted(p, s)' = Wanted(p, s) /\ (IsAt(p, s)' <=> IsAt(p, s))
          /\ \A s : Had(p, made[p][s])' = Had(p, made'[p][s])
      BY <1>2 DEF Passed, Wanted, IsAt, Had
    <3>5. ASSUME NEW s \in DOMAIN made'[p]
          PROVE  tasks'[made'[p][s]].blocked_by =
                   IF s \in Passed(p) THEN Wanted(p, s)
                   ELSE IF IsAt(p, s) THEN (Had(p, made'[p][s]) \ moved'[p]) \cup (moved'[p] \cap Wanted(p, s))
                   ELSE Had(p, made'[p][s])
      BY <3>2, <3>3, <1>2, <1>5
    <3>6. ASSUME NEW s \in DOMAIN made'[p]
          PROVE  tasks'[made'[p][s]].blocked_by =
                   IF s \in Passed(p)' THEN Wanted(p, s)'
                   ELSE IF IsAt(p, s)' THEN (Had(p, made[p][s])' \ moved'[p]) \cup (moved'[p] \cap Wanted(p, s)')
                   ELSE Had(p, made[p][s])'
      BY <3>4, <3>5, Zenon
    <3>7. pc'[p] = "links"
      BY <1>1, <1>2
    <3> QED BY <3>6, <3>7 DEF Links
  <2> QED BY <2>1, <2>2, <2>3, <1>1, <1>2, <1>14, <1>15 DEF Undisputed, Reads
<1>16. Runs(p)'
  BY <1>1, <1>2, <1>13, <1>14, <1>15 DEF Runs, OneImporter
<1> QED
  <2>1. \A q \in Procs \ {p} : Stands(q)
    BY <1>1, <1>2, <1>11 DEF Stands
  <2>2. OneImporter => OneTaskPerItem'
    BY <1>10 DEF ImportInv, OneTaskPerItem
  <2>3. IF pc'[p] = "idle" THEN DOMAIN made'[p] = {} ELSE Runs(p)'
    BY <1>1, <1>2, <1>16
  <2>4. settled' = NoDoc /\ UNCHANGED quiet /\ pc'[p] = "links"
    BY <1>1, <1>2
  <2> QED BY <1>1, <1>12, <2>1, <2>2, <2>3, <2>4, StepOfOne

\* A step of ItemLinked keeps ImportInv.
LEMMA ItemLinkedKeeps ==
  ASSUME ImportInv, NEW p \in Procs, ItemLinked(p)
  PROVE  ImportInv'
<1>1. pc[p] = "links" /\ pc[p] # "idle" /\ Shape /\ Runs(p) /\ settled = NoDoc
  BY Unsettled DEF ItemLinked, ImportInv
<1>2. /\ moved' = [moved EXCEPT ![p] = {}]
      /\ UNCHANGED <<tasks, features, acceptance, doc, seen, under, made, read, quiet, settled, used>>
  BY DEF ItemLinked, board
<1>3. moved'[p] = {} /\ \A q \in Procs \ {p} : moved'[q] = moved[q]
  BY <1>1, <1>2 DEF Shape
<1>4. \/ /\ at[p] <= Len(doc[p].order) /\ Missing(p) \cup Unwanted(p) = {}
         /\ at' = [at EXCEPT ![p] = @ + 1] /\ UNCHANGED pc
      \/ /\ ~(at[p] <= Len(doc[p].order))
         /\ pc' = [pc EXCEPT ![p] = "sync"] /\ UNCHANGED at
  BY DEF ItemLinked, Goto
<1>5. /\ pc'[p] \in {"links", "sync"} /\ pc' \in [Procs -> Importing \cup {"idle"}]
      /\ at' \in [Procs -> Nat]
      /\ \A q \in Procs \ {p} : pc'[q] = pc[q] /\ at'[q] = at[q]
  <2>1. at[p] \in Nat /\ at \in [Procs -> Nat] /\ pc \in [Procs -> Importing \cup {"idle"}]
    BY <1>1 DEF Shape
  <2>2. "links" \in Importing /\ "sync" \in Importing
    BY DEF Importing
  <2>3. CASE at' = [at EXCEPT ![p] = @ + 1] /\ UNCHANGED pc
    BY <2>1, <2>2, <2>3, <1>1
  <2>4. CASE pc' = [pc EXCEPT ![p] = "sync"] /\ UNCHANGED at
    BY <2>1, <2>2, <2>4, <1>1
  <2> QED BY <2>3, <2>4, <1>4
<1>6. Shape' /\ Grows
  <2>1. Grows
    BY <1>1, <1>2 DEF Grows, Shape
  <2> QED BY <2>1, <1>1, <1>2, <1>5 DEF Shape
<1>7. Remembers(p)' /\ Brings(p)'
  <2>1. at'[p] \in 1 .. Len(doc[p].order) + 1
    <3>1. Len(doc[p].order) \in Nat /\ at[p] \in 1 .. Len(doc[p].order) + 1 /\ at[p] \in Nat
      BY <1>1, Orders DEF Runs, Remembers
    <3> QED BY <3>1, <1>1, <1>4 DEF Shape
  <2>2. Remembers(p)'
    BY <2>1, <1>1, <1>2, <1>6, BoardGrows DEF Runs
  <2> QED BY <2>2, <1>1, <1>2, <1>5 DEF Runs, Brings
<1>8. Alone(p) => Alone(p)'
  BY <1>1, <1>2, <1>5 DEF Alone
<1>9. ASSUME Undisputed(p)
      PROVE  Links(p)'
  <2>1. /\ \A s : Wanted(p, s)' = Wanted(p, s)
        /\ \A s : Had(p, made[p][s])' = Had(p, made[p][s])
    BY <1>2 DEF Wanted, Had
  <2>2. CASE at[p] <= Len(doc[p].order)
    <3>1. PICK r : r = doc[p].order[at[p]]
      OBVIOUS
    <3>2. PICK i : i = TaskAt(p)
      OBVIOUS
    <3>3. /\ r \in DOMAIN made[p] /\ r \notin Passed(p) /\ IsAt(p, r) /\ i = made[p][r]
          /\ at[p] \in 1 .. Len(doc[p].order) /\ Len(doc[p].order) \in Nat
          /\ Desired(p) = Wanted(p, r) /\ Current(p) = Had(p, i)
          /\ \A s \in DOMAIN made[p] \ {r} : ~IsAt(p, s)
      BY <2>2, <3>1, <3>2, <1>1, LinkAt
    <3>4. /\ Missing(p) \cup Unwanted(p) = {} /\ pc'[p] = "links" /\ at'[p] = at[p] + 1
      BY <2>2, <1>1, <1>4 DEF Shape
    <3>5. Passed(p)' = Passed(p) \cup {r}
      <4>1. at'[p] - 1 = at[p]
        BY <3>3, <3>4
      <4>2. Passed(p)' = {doc[p].order[k] : k \in 1 .. at'[p] - 1}
        BY <1>2 DEF Passed
      <4>3. Passed(p)' = {doc[p].order[k] : k \in 1 .. at[p]}
        BY <4>1, <4>2
      <4>4. 1 .. at[p] = (1 .. at[p] - 1) \cup {at[p]}
        BY <3>3
      <4>5. Passed(p)' = {doc[p].order[k] : k \in 1 .. at[p] - 1} \cup {doc[p].order[at[p]]}
        BY <4>3, <4>4
      <4> QED BY <4>5, <3>1 DEF Passed
    <3>6. tasks[i].blocked_by = Wanted(p, r)
      <4>1. tasks[i].blocked_by = (Had(p, i) \ moved[p]) \cup (moved[p] \cap Wanted(p, r))
        BY <3>3, <1>1, <1>9 DEF Undisputed, Links
      <4>2. Wanted(p, r) \ Had(p, i) \subseteq moved[p] /\ Had(p, i) \ Wanted(p, r) \subseteq moved[p]
        BY <3>3, <3>4 DEF Missing, Unwanted
      <4> QED BY <4>1, <4>2
    <3>7. ASSUME NEW s \in DOMAIN made[p]
          PROVE  tasks[made[p][s]].blocked_by = IF s \in Passed(p) \cup {r} THEN Wanted(p, s) ELSE Had(p, made[p][s])
      BY <3>3, <3>6, <1>1, <1>9 DEF Undisputed, Links
    <3>8. ASSUME NEW s \in DOMAIN made'[p]
          PROVE  tasks'[made'[p][s]].blocked_by =
                   IF s \in Passed(p)' THEN Wanted(p, s)'
                   ELSE IF IsAt(p, s)' THEN (Had(p, made[p][s])' \ moved'[p]) \cup (moved'[p] \cap Wanted(p, s)')
                   ELSE Had(p, made[p][s])'
      BY <2>1, <3>5, <3>7, <1>2, <1>3
    <3> QED BY <3>4, <3>8 DEF Links
  <2>3. CASE ~(at[p] <= Len(doc[p].order))
    <3>1. pc'[p] = "sync"
      BY <2>3, <1>1, <1>4 DEF Shape
    <3>2. DOMAIN made[p] = Passed(p)
      BY <2>3, <1>1, AllPassed DEF Runs, Brings
    <3>3. \A s \in DOMAIN made[p] : tasks[made[p][s]].blocked_by = Wanted(p, s)
      BY <3>2, <1>1, <1>9 DEF Undisputed, Links
    <3>4. \A s \in DOMAIN made'[p] : tasks'[made'[p][s]].blocked_by = Wanted(p, s)'
      BY <2>1, <3>3, <1>2
    <3> QED BY <3>1, <3>4 DEF Links
  <2> QED BY <2>2, <2>3
<1>10. Undisputed(p) => Undisputed(p)'
  BY <1>2, <1>5, <1>8, <1>9 DEF Undisputed, Untouched, Refreshes, Under, Reads
<1>11. Runs(p)'
  BY <1>1, <1>2, <1>7, <1>8, <1>10 DEF Runs, OneImporter
<1> QED
  <2>1. \A q \in Procs \ {p} : Stands(q)
    BY <1>1, <1>2, <1>3, <1>5 DEF Stands
  <2>2. OneImporter => OneTaskPerItem'
    BY <1>2 DEF ImportInv, OneTaskPerItem
  <2>3. IF pc'[p] = "idle" THEN DOMAIN made'[p] = {} ELSE Runs(p)'
    BY <1>5, <1>11
  <2>4. settled' = NoDoc /\ UNCHANGED quiet
    BY <1>1, <1>2
  <2> QED BY <1>1, <1>3, <1>6, <2>1, <2>2, <2>3, <2>4, StepOfOne

\* The end of an import that nobody has disturbed: the task of each item is
\* the one it has made, and is as the plan has it.
LEMMA AsPlanned ==
  ASSUME Shape, NEW p \in Procs, pc[p] \in {"sync", "write_sync"}, Runs(p), Undisputed(p),
         NEW r \in ToSet(doc[p].order)
  PROVE  /\ r \in DOMAIN made[p] /\ made[p][r] \in Existing(tasks, r)
         /\ Max(Existing(tasks, r)) = made[p][r]
         /\ tasks[made[p][r]].brief = doc[p].brief
         /\ doc[p].tags[r] \subseteq tasks[made[p][r]].tags
         /\ tasks[made[p][r]].blocked_by = {made[p][s] : s \in doc[p].deps[r] \cap ToSet(doc[p].order)}
         /\ tasks[made[p][r]].pbi <=> Under(p, made[p][r])
<1>1. DOMAIN made[p] = ToSet(doc[p].order)
  BY DEF Runs, Brings
<1>2. made[p][r] \in Existing(tasks, r)
  BY <1>1 DEF Runs, Brings, Existing
<1>3. Existing(tasks, r) \subseteq Nat
  BY DEF Shape, Existing
<1>4. Max(Existing(tasks, r)) = made[p][r]
  BY <1>1, <1>2, <1>3, MaxIs DEF Undisputed, Refreshes
<1>5. tasks[made[p][r]].blocked_by = {made[p][s] : s \in doc[p].deps[r] \cap ToSet(doc[p].order)}
  <2>1. tasks[made[p][r]].blocked_by = Wanted(p, r)
    BY <1>1 DEF Undisputed, Links
  <2> QED BY <2>1, <1>1 DEF Wanted
<1> QED BY <1>1, <1>2, <1>4, <1>5 DEF Undisputed, Refreshes

\* An import ends: what it has settled is as the plan has it.
LEMMA Finishes ==
  ASSUME ImportInv, NEW p \in Procs, pc[p] \in {"sync", "write_sync"}, Finish(p),
         UNCHANGED <<tasks, features, under, at, moved, quiet, used>>, acceptance' \subseteq Nat,
         quiet[p] /\ (\E r \in DOMAIN made[p] : tasks[made[p][r]].pbi)
           => acceptance' = {tasks[i].brief : i \in {j \in DOMAIN tasks : tasks[j].pbi}}
  PROVE  ImportInv'
<1>1. pc[p] # "idle" /\ Shape /\ Runs(p) /\ moved[p] = {}
  BY Unsettled DEF ImportInv
<1>2. /\ pc' = [pc EXCEPT ![p] = "idle"] /\ settled' = IF quiet[p] THEN doc[p] ELSE NoDoc
      /\ seen' = [seen EXCEPT ![p] = NothingSeen] /\ doc' = [doc EXCEPT ![p] = NoDoc]
      /\ read' = [read EXCEPT ![p] = {}] /\ made' = [made EXCEPT ![p] = NoTasks]
  BY DEF Finish, Goto
<1>3. pc'[p] = "idle" /\ DOMAIN made'[p] = {} /\ moved'[p] = {}
  BY <1>1, <1>2 DEF Shape, NoTasks
<1>4. \A q \in Procs \ {p} : Stands(q)
  BY <1>1, <1>2 DEF Stands, Shape
<1>5. Shape' /\ Grows
  <2>1. Grows
    BY <1>1 DEF Grows, Shape
  <2>2. settled' \in Docs \cup {NoDoc}
    BY <1>1, <1>2 DEF Runs, Remembers
  <2> QED BY <2>1, <2>2, <1>1, <1>2 DEF Shape
<1>6. ASSUME settled' # NoDoc
      PROVE  quiet[p] /\ PlanApplied'
  <2>1. quiet[p] /\ settled' = doc[p] /\ Undisputed(p)
    BY <1>1, <1>2, <1>6 DEF Runs
  <2>2. PICK D : D = doc[p]
    OBVIOUS
  <2>3. PICK m : m = made[p]
    OBVIOUS
  <2>4. \A r \in ToSet(D.order) :
          /\ r \in DOMAIN m /\ m[r] \in Existing(tasks, r) /\ Max(Existing(tasks, r)) = m[r]
          /\ tasks[m[r]].brief = D.brief /\ D.tags[r] \subseteq tasks[m[r]].tags
          /\ tasks[m[r]].blocked_by = {m[s] : s \in D.deps[r] \cap ToSet(D.order)}
    BY <2>1, <2>2, <2>3, <1>1, AsPlanned
  <2>5. \A r \in ToSet(D.order) :
          {m[s] : s \in D.deps[r] \cap ToSet(D.order)}
            = {Max(Existing(tasks, s)) : s \in D.deps[r] \cap ToSet(D.order)}
    BY <2>4
  <2>6. (\E r \in ToSet(D.order) : tasks[Max(Existing(tasks, r))].pbi)
          => acceptance' = {tasks[i].brief : i \in {j \in DOMAIN tasks : tasks[j].pbi}}
    BY <2>1, <2>3, <2>4
  <2>7. \A r \in ToSet(D.order) :
          /\ Existing(tasks, r) # {}
          /\ tasks[Max(Existing(tasks, r))].brief = D.brief
          /\ D.tags[r] \subseteq tasks[Max(Existing(tasks, r))].tags
          /\ tasks[Max(Existing(tasks, r))].blocked_by = {Max(Existing(tasks, s)) : s \in D.deps[r] \cap ToSet(D.order)}
    BY <2>4, <2>5
  <2>8. tasks' = tasks /\ settled' = D
    BY <2>1, <2>2
  <2> QED BY <2>1, <2>6, <2>7, <2>8 DEF PlanApplied
<1>7. OneImporter => OneTaskPerItem'
  BY DEF ImportInv, OneTaskPerItem
<1> QED
  <2>1. IF pc'[p] = "idle" THEN DOMAIN made'[p] = {} ELSE Runs(p)'
    BY <1>3
  <2> QED BY <1>1, <1>3, <1>4, <1>5, <1>6, <1>7, <2>1, StepOfOne

\* A step of ReadBriefs keeps ImportInv.
LEMMA ReadBriefsKeeps ==
  ASSUME ImportInv, NEW p \in Procs, ReadBriefs(p)
  PROVE  ImportInv'
<1>1. pc[p] = "sync" /\ pc[p] # "idle" /\ Shape /\ Runs(p) /\ settled = NoDoc /\ moved[p] = {}
  BY Unsettled DEF ReadBriefs, ImportInv
<1>2. UNCHANGED <<tasks, features, acceptance, under, at, moved, quiet, used>>
  BY DEF ReadBriefs, board
<1>3. (\E r \in DOMAIN made[p] : made[p][r] \in DOMAIN seen[p].tasks /\ seen[p].tasks[made[p][r]].pbi)
        <=> \E r \in DOMAIN made[p] : Under(p, made[p][r])
  BY DEF Under
<1>4. CASE \E r \in DOMAIN made[p] : Under(p, made[p][r])
  <2>1. /\ pc' = [pc EXCEPT ![p] = "write_sync"] /\ read' = [read EXCEPT ![p] = BriefsNow(p)]
        /\ UNCHANGED <<doc, seen, made, settled>>
    BY <1>3, <1>4 DEF ReadBriefs, Goto
  <2>2. pc'[p] = "write_sync" /\ read'[p] = BriefsNow(p)
    BY <2>1, <1>1 DEF Shape
  <2>3. BriefsNow(p) \subseteq Nat
    BY <1>1 DEF BriefsNow, Shape, Task
  <2>4. Shape' /\ Grows
    <3>1. Grows
      BY <1>1, <1>2 DEF Grows, Shape
    <3> QED BY <2>1, <2>3, <3>1, <1>1, <1>2 DEF Shape, Importing
  <2>5. Remembers(p)' /\ Brings(p)'
    <3>1. Remembers(p)'
      BY <2>1, <2>4, <1>1, <1>2, BoardGrows DEF Runs, Remembers
    <3> QED BY <2>1, <2>2, <3>1, <1>1, <1>2 DEF Runs, Brings
  <2>6. Alone(p) => Alone(p)'
    BY <2>1, <2>2, <1>1, <1>2 DEF Alone, Shape
  <2>7. ASSUME Undisputed(p)
        PROVE  Undisputed(p)'
    <3>1. Untouched(p)' /\ Refreshes(p)'
      BY <2>1, <2>7, <1>2 DEF Undisputed, Untouched, Refreshes, Under
    <3>2. Links(p)'
      <4>1. \A s : Wanted(p, s)' = Wanted(p, s)
        BY <2>1, <1>2 DEF Wanted
      <4>2. \A s \in DOMAIN made'[p] : tasks'[made'[p][s]].blocked_by = Wanted(p, s)'
        BY <2>1, <2>7, <4>1, <1>1, <1>2 DEF Undisputed, Links
      <4> QED BY <2>2, <4>2 DEF Links
    <3>3. \E r \in DOMAIN made[p] : tasks[made[p][r]].pbi
      BY <2>7, <1>4 DEF Undisputed, Refreshes
    <3>4. Reads(p)'
      BY <2>1, <2>2, <3>3, <1>2 DEF Reads, BriefsNow
    <3> QED BY <2>6, <2>7, <3>1, <3>2, <3>4 DEF Undisputed
  <2>8. Runs(p)'
    BY <2>5, <2>6, <2>7, <1>1, <1>2 DEF Runs, OneImporter
  <2>9. \A q \in Procs \ {p} : Stands(q)
    BY <2>1, <1>1, <1>2 DEF Stands, Shape
  <2>10. OneImporter => OneTaskPerItem'
    BY <1>2 DEF ImportInv, OneTaskPerItem
  <2>11. IF pc'[p] = "idle" THEN DOMAIN made'[p] = {} ELSE Runs(p)'
    BY <2>2, <2>8
  <2>12. settled' = NoDoc /\ moved'[p] = {} /\ UNCHANGED quiet
    BY <2>1, <1>1, <1>2
  <2> QED BY <2>4, <2>9, <2>10, <2>11, <2>12, <1>1, StepOfOne
<1>5. CASE ~ \E r \in DOMAIN made[p] : Under(p, made[p][r])
  <2>1. Finish(p)
    BY <1>3, <1>5 DEF ReadBriefs
  <2>2. ~(quiet[p] /\ \E r \in DOMAIN made[p] : tasks[made[p][r]].pbi)
    BY <1>1, <1>5 DEF Runs, Undisputed, Refreshes
  <2>3. acceptance' \subseteq Nat
    BY <1>1, <1>2 DEF Shape
  <2> QED BY <2>1, <2>2, <2>3, <1>1, <1>2, Finishes
<1> QED BY <1>4, <1>5

\* A step of WriteBriefs keeps ImportInv.
LEMMA WriteBriefsKeeps ==
  ASSUME ImportInv, NEW p \in Procs, WriteBriefs(p)
  PROVE  ImportInv'
<1>1. pc[p] = "write_sync" /\ pc[p] # "idle" /\ Shape /\ Runs(p) /\ settled = NoDoc
  BY Unsettled DEF WriteBriefs, ImportInv
<1>2. /\ acceptance' = IF read[p] = {} THEN acceptance ELSE read[p]
      /\ Finish(p) /\ UNCHANGED <<tasks, features, under, at, moved, quiet, used>>
  BY DEF WriteBriefs
<1>3. acceptance' \subseteq Nat
  BY <1>1, <1>2 DEF Shape
<1>4. ASSUME quiet[p]
      PROVE  acceptance' = {tasks[i].brief : i \in {j \in DOMAIN tasks : tasks[j].pbi}}
  <2>1. /\ read[p] = {tasks[i].brief : i \in {j \in DOMAIN tasks : tasks[j].pbi}}
        /\ \E r \in DOMAIN made[p] : tasks[made[p][r]].pbi
    BY <1>1, <1>4 DEF Runs, Undisputed, Reads
  <2>2. read[p] # {}
    BY <2>1, <1>1 DEF Runs, Brings
  <2> QED BY <2>1, <2>2, <1>2
<1> QED BY <1>1, <1>2, <1>3, <1>4, Finishes

\* A step of CutShort keeps ImportInv.
LEMMA CutShortKeeps ==
  ASSUME ImportInv, NEW p \in Procs, CutShort(p)
  PROVE  ImportInv'
<1>1. pc[p] # "idle" /\ Shape /\ settled = NoDoc
  BY Unsettled DEF CutShort
<1>2. /\ pc' = [pc EXCEPT ![p] = "idle"] /\ doc' = [doc EXCEPT ![p] = NoDoc]
      /\ seen' = [seen EXCEPT ![p] = NothingSeen] /\ made' = [made EXCEPT ![p] = NoTasks]
      /\ moved' = [moved EXCEPT ![p] = {}] /\ read' = [read EXCEPT ![p] = {}]
      /\ used' = [used EXCEPT !["deaths"] = @ + 1]
      /\ UNCHANGED <<tasks, features, acceptance, under, at, quiet, settled>>
  BY DEF CutShort, Goto, Uses, board
<1>3. pc'[p] = "idle" /\ DOMAIN made'[p] = {} /\ moved'[p] = {}
  BY <1>1, <1>2 DEF Shape, NoTasks
<1>4. \A q \in Procs \ {p} : Stands(q)
  BY <1>1, <1>2 DEF Stands, Shape
<1>5. Shape' /\ Grows
  <2>1. Grows
    BY <1>1, <1>2 DEF Grows, Shape
  <2>2. used' \in [{"edits", "deaths"} -> Nat]
    BY <1>1, <1>2 DEF Shape
  <2>3. seen' = [q \in Procs |-> seen'[q]] /\ made' = [q \in Procs |-> made'[q]]
    BY <1>1, <1>2 DEF Shape
  <2>4. /\ pc' \in [Procs -> Importing \cup {"idle"}] /\ doc' \in [Procs -> Docs \cup {NoDoc}]
        /\ moved' \in [Procs -> SUBSET Ids] /\ read' \in [Procs -> SUBSET Nat]
    BY <1>1, <1>2 DEF Shape
  <2> QED BY <2>1, <2>2, <2>3, <2>4, <1>1, <1>2 DEF Shape
<1>6. OneImporter => OneTaskPerItem'
  BY <1>2 DEF ImportInv, OneTaskPerItem
<1>7. IF pc'[p] = "idle" THEN DOMAIN made'[p] = {} ELSE Runs(p)'
  BY <1>3
<1>8. settled' = NoDoc /\ UNCHANGED quiet
  BY <1>1, <1>2
<1> QED BY <1>1, <1>3, <1>4, <1>5, <1>6, <1>7, <1>8, StepOfOne

\* The operator changes one task, and takes no tag and no done away.
LEMMA EditIs ==
  ASSUME Shape, Edit
  PROVE  \E i \in DOMAIN tasks, k \in Task :
           /\ tasks' = [tasks EXCEPT ![i] = k] /\ k.ref = tasks[i].ref
           /\ tasks[i].status = "done" => k.status = "done"
           /\ tasks[i].tags \subseteq k.tags
<1>1. PICK i \in DOMAIN tasks :
        \/ \E t \in Tags : tasks' = [tasks EXCEPT ![i].tags = @ \cup {t}]
        \/ tasks' = [tasks EXCEPT ![i].status = "done"]
        \/ tasks' = [tasks EXCEPT ![i].pbi = TRUE]
        \/ \E n \in DOMAIN tasks \ {i} : tasks' = [tasks EXCEPT ![i].blocked_by = @ \cup {n}]
  BY DEF Edit
<1>2. tasks[i] \in Task /\ DOMAIN tasks \subseteq Ids
  BY DEF Shape, Ids
<1>3. CASE \E t \in Tags : tasks' = [tasks EXCEPT ![i].tags = @ \cup {t}]
  <2>1. PICK t \in Tags : tasks' = [tasks EXCEPT ![i].tags = @ \cup {t}]
    BY <1>3
  <2>2. PICK k : k = [tasks[i] EXCEPT !.tags = @ \cup {t}]
    OBVIOUS
  <2>3. k \in Task /\ k.ref = tasks[i].ref /\ k.status = tasks[i].status /\ k.tags = tasks[i].tags \cup {t}
    BY <2>2, <1>2 DEF Task
  <2>4. tasks' = [tasks EXCEPT ![i] = k]
    BY <2>1, <2>2
  <2> QED BY <2>3, <2>4
<1>4. CASE tasks' = [tasks EXCEPT ![i].status = "done"]
  <2>1. PICK k : k = [tasks[i] EXCEPT !.status = "done"]
    OBVIOUS
  <2>2. k \in Task /\ k.ref = tasks[i].ref /\ k.status = "done" /\ k.tags = tasks[i].tags
    BY <2>1, <1>2 DEF Task
  <2>3. tasks' = [tasks EXCEPT ![i] = k]
    BY <2>1, <1>4
  <2> QED BY <2>2, <2>3
<1>5. CASE tasks' = [tasks EXCEPT ![i].pbi = TRUE]
  <2>1. PICK k : k = [tasks[i] EXCEPT !.pbi = TRUE]
    OBVIOUS
  <2>2. k \in Task /\ k.ref = tasks[i].ref /\ k.status = tasks[i].status /\ k.tags = tasks[i].tags
    BY <2>1, <1>2 DEF Task
  <2>3. tasks' = [tasks EXCEPT ![i] = k]
    BY <2>1, <1>5
  <2> QED BY <2>2, <2>3
<1>6. CASE \E n \in DOMAIN tasks \ {i} : tasks' = [tasks EXCEPT ![i].blocked_by = @ \cup {n}]
  <2>1. PICK n \in DOMAIN tasks \ {i} : tasks' = [tasks EXCEPT ![i].blocked_by = @ \cup {n}]
    BY <1>6
  <2>2. PICK k : k = [tasks[i] EXCEPT !.blocked_by = @ \cup {n}]
    OBVIOUS
  <2>3. k \in Task /\ k.ref = tasks[i].ref /\ k.status = tasks[i].status /\ k.tags = tasks[i].tags
    BY <2>2, <1>2 DEF Task
  <2>4. tasks' = [tasks EXCEPT ![i] = k]
    BY <2>1, <2>2
  <2> QED BY <2>3, <2>4
<1> QED BY <1>1, <1>3, <1>4, <1>5, <1>6

\* A step of Edit keeps ImportInv.
LEMMA EditKeeps ==
  ASSUME ImportInv, Edit
  PROVE  ImportInv'
<1>1. Shape
  BY DEF ImportInv
<1>2. PICK i \in DOMAIN tasks, k \in Task : tasks' = [tasks EXCEPT ![i] = k] /\ k.ref = tasks[i].ref
  BY <1>1, EditIs
<1>3. /\ quiet' = [p \in Procs |-> FALSE] /\ settled' = NoDoc /\ used' = [used EXCEPT !["edits"] = @ + 1]
      /\ UNCHANGED <<features, acceptance, pc, doc, seen, under, at, made, moved, read>>
  BY DEF Edit, Uses, locals
<1>4. tasks = [j \in DOMAIN tasks |-> tasks[j]] /\ \A j \in DOMAIN tasks : tasks[j] \in Task
  BY <1>1 DEF Shape
<1>5. /\ DOMAIN tasks' = DOMAIN tasks /\ tasks' = [j \in DOMAIN tasks' |-> tasks'[j]]
      /\ \A j \in DOMAIN tasks : tasks'[j] \in Task /\ tasks'[j].ref = tasks[j].ref
  BY <1>2, <1>4
<1>6. Shape' /\ Grows
  <2>1. Grows
    BY <1>1, <1>3, <1>5 DEF Grows, Shape
  <2> QED BY <2>1, <1>1, <1>3, <1>5 DEF Shape
<1>7. \A p \in Procs : Stands(p) /\ ~quiet'[p]
  BY <1>3 DEF Stands
<1>8. ASSUME NEW p \in Procs, pc[p] # "idle"
      PROVE  Runs(p)'
  <2>1. Runs(p)
    BY <1>8 DEF ImportInv
  <2>2. Remembers(p)' /\ Brings(p)'
    BY <2>1, <1>1, <1>6, <1>7, StillRemembers DEF Runs
  <2>3. Alone(p) => Alone(p)'
    BY <1>3, <1>5 DEF Alone
  <2> QED BY <2>1, <2>2, <2>3, <1>7 DEF Runs, OneImporter
<1>9. \A p \in Procs : IF pc'[p] = "idle" THEN DOMAIN made'[p] = {} ELSE Runs(p)'
  BY <1>3, <1>8 DEF ImportInv
<1>10. OneImporter => OneTaskPerItem'
  BY <1>5 DEF ImportInv, OneTaskPerItem
<1>11. \A p \in Procs : pc'[p] # "links" => moved'[p] = {}
  BY <1>3 DEF ImportInv
<1> QED BY <1>3, <1>6, <1>9, <1>10, <1>11 DEF ImportInv

\* Before any import the import invariant holds.
LEMMA InitImport == ImportInit => ImportInv
<1> SUFFICES ASSUME ImportInit PROVE ImportInv
  OBVIOUS
<1>1. Shape
  <2>1. features \in Seq(Feature)
    <3>1. [tagged |-> FALSE, titled |-> FALSE] \in Feature /\ [tagged |-> FALSE, titled |-> TRUE] \in Feature
      BY DEF Feature
    <3>2. PICK f \in Feature : features = <<>> \/ features = <<f>>
      BY <3>1 DEF ImportInit
    <3>3. <<>> \in Seq(Feature)
      OBVIOUS
    <3>4. <<f>> \in Seq(Feature)
      <4> HIDE DEF Feature
      <4> QED OBVIOUS
    <3> QED BY <3>2, <3>3, <3>4
  <2>2. DOMAIN tasks = 1 .. 0 /\ tasks = [i \in DOMAIN tasks |-> tasks[i]] /\ DOMAIN tasks = {}
    BY DEF ImportInit, NoTasks
  <2> QED BY <2>1, <2>2 DEF ImportInit, Shape, Importing
<1>2. \A p \in Procs : pc[p] = "idle" /\ DOMAIN made[p] = {} /\ moved[p] = {}
  BY DEF ImportInit, NoTasks
<1>3. settled = NoDoc /\ OneTaskPerItem
  BY DEF ImportInit, NoTasks, OneTaskPerItem
<1> QED BY <1>1, <1>2, <1>3 DEF ImportInv

\* Every import step keeps the import invariant.
LEMMA StepImport == ImportInv /\ [ImportNext]_importVars => ImportInv'
<1> SUFFICES ASSUME ImportInv, [ImportNext]_importVars PROVE ImportInv'
  OBVIOUS
<1>1. ASSUME NEW p \in Procs,
             \/ Start(p) \/ UpsertFeature(p) \/ UpsertItem(p) \/ ItemsDone(p) \/ LinkItem(p)
             \/ ItemLinked(p) \/ ReadBriefs(p) \/ WriteBriefs(p) \/ CutShort(p)
      PROVE  ImportInv'
  BY <1>1, StartKeeps, UpsertFeatureKeeps, UpsertItemKeeps, ItemsDoneKeeps, LinkItemKeeps,
     ItemLinkedKeeps, ReadBriefsKeeps, WriteBriefsKeeps, CutShortKeeps
<1>2. CASE UNCHANGED importVars
  <2>1. UNCHANGED <<tasks, features, acceptance, pc, doc, seen, under, at, made, moved, read, quiet, settled, used>>
    BY <1>2 DEF importVars, board, locals
  <2>2. Shape' /\ Grows
    <3>1. Grows
      BY <2>1 DEF Grows, ImportInv, Shape
    <3> QED BY <2>1, <3>1 DEF ImportInv, Shape
  <2>3. \A p \in Procs : Stands(p)
    BY <2>1 DEF Stands
  <2>4. ASSUME NEW p \in Procs, pc[p] # "idle"
        PROVE  Runs(p)'
    <3>1. Runs(p) /\ Shape
      BY <2>4 DEF ImportInv
    <3>2. Remembers(p)' /\ Brings(p)'
      BY <2>2, <2>3, <3>1, StillRemembers DEF Runs
    <3>3. Alone(p) => Alone(p)'
      BY <2>1 DEF Alone
    <3>4. Undisputed(p) => Untouched(p)' /\ Refreshes(p)' /\ Reads(p)'
      BY <2>1 DEF Undisputed, Untouched, Refreshes, Under, Reads
    <3>5. Undisputed(p) => Links(p)'
      <4>1. /\ Passed(p)' = Passed(p)
            /\ \A s : Wanted(p, s)' = Wanted(p, s) /\ (IsAt(p, s)' <=> IsAt(p, s))
            /\ \A s : Had(p, made[p][s])' = Had(p, made[p][s])
        BY <2>1 DEF Passed, Wanted, IsAt, Had
      <4>2. ASSUME Links(p), NEW s \in DOMAIN made'[p]
            PROVE  tasks'[made'[p][s]].blocked_by =
                     IF pc'[p] \in {"sync", "write_sync"} \/ (pc'[p] = "links" /\ s \in Passed(p)') THEN Wanted(p, s)'
                     ELSE IF pc'[p] = "links" /\ IsAt(p, s)'
                       THEN (Had(p, made[p][s])' \ moved'[p]) \cup (moved'[p] \cap Wanted(p, s)')
                     ELSE Had(p, made[p][s])'
        BY <2>1, <4>1, <4>2 DEF Links
      <4>3. Links(p) => Links(p)'
        BY <4>2 DEF Links
      <4> QED BY <4>3 DEF Undisputed
    <3> QED BY <2>1, <3>1, <3>2, <3>3, <3>4, <3>5 DEF Runs, OneImporter, Undisputed
  <2>5. settled' # NoDoc => PlanApplied'
    BY <2>1 DEF ImportInv, PlanApplied
  <2>6. OneImporter => OneTaskPerItem'
    BY <2>1 DEF ImportInv, OneTaskPerItem
  <2>7. \A p \in Procs : IF pc'[p] = "idle" THEN DOMAIN made'[p] = {} ELSE Runs(p)'
    BY <2>1, <2>4 DEF ImportInv
  <2> QED BY <2>1, <2>2, <2>5, <2>6, <2>7 DEF ImportInv
<1> QED BY <1>1, <1>2, EditKeeps DEF ImportNext

\* The import invariant holds in every reachable state.
LEMMA ImportInvariant == ImportSpec => []ImportInv
<1> QED BY InitImport, StepImport, PTL DEF ImportSpec

\* What a step does to the tasks there are: no done is taken away, and no tag,
\* as long as nobody disturbs an import.
LEMMA TasksStep ==
  ASSUME ImportInv, [ImportNext]_importVars, NEW j \in DOMAIN tasks
  PROVE  /\ tasks[j].status = "done" => tasks'[j].status = "done"
         /\ Undisturbed => tasks[j].tags \subseteq tasks'[j].tags
<1>1. Shape /\ tasks[j] \in Task
  BY DEF ImportInv, Shape
<1>2. CASE UNCHANGED tasks
  BY <1>2
<1>3. ASSUME NEW p \in Procs, UpsertItem(p)
      PROVE  /\ tasks[j].status = "done" => tasks'[j].status = "done"
             /\ Undisturbed => tasks[j].tags \subseteq tasks'[j].tags
  <2>1. pc[p] = "items" /\ pc[p] # "idle" /\ Runs(p) /\ at[p] <= Len(doc[p].order)
    BY <1>3 DEF UpsertItem, ImportInv
  <2>2. PICK r \in Refs, i \in Ids : ItemBrought(p, r, i)
    BY <1>1, <1>3, <2>1, UpsertItemBrings
  <2>3. CASE j # i
    BY <2>2, <2>3 DEF ItemBrought
  <2>4. CASE j = i
    <3>1. /\ tasks'[i].status = tasks[i].status /\ i \in DOMAIN seen[p].tasks /\ tasks[i].ref = r
          /\ tasks'[i].tags = seen[p].tasks[i].tags \cup doc[p].tags[r]
      BY <2>2, <2>4 DEF ItemBrought
    <3>2. ASSUME Undisturbed
          PROVE  tasks[i] = seen[p].tasks[i]
      <4>1. Untouched(p)
        BY <2>1, <3>2 DEF Undisturbed, Runs, Undisputed
      <4>2. \A s \in DOMAIN made[p] : made[p][s] # i
        BY <1>1, <2>1, <2>2, <3>1, ItemAt DEF ItemBrought
      <4> QED BY <3>1, <4>1, <4>2 DEF Untouched
    <3> QED BY <2>4, <3>1, <3>2
  <2> QED BY <2>3, <2>4
<1>4. ASSUME NEW p \in Procs, LinkItem(p)
      PROVE  /\ tasks[j].status = "done" => tasks'[j].status = "done"
             /\ Undisturbed => tasks[j].tags \subseteq tasks'[j].tags
  <2>1. PICK i, n : tasks' = [tasks EXCEPT ![i].blocked_by = IF n \in Desired(p) THEN @ \cup {n} ELSE @ \ {n}]
    BY <1>4 DEF LinkItem
  <2>2. PICK k : k = [tasks[i] EXCEPT !.blocked_by = IF n \in Desired(p) THEN @ \cup {n} ELSE @ \ {n}]
    OBVIOUS
  <2>3. tasks' = [tasks EXCEPT ![i] = k]
    BY <2>1, <2>2
  <2>4. i = j => k.status = tasks[j].status /\ k.tags = tasks[j].tags
    BY <2>2, <1>1 DEF Task
  <2>5. tasks'[j] = IF j = i THEN k ELSE tasks[j]
    BY <2>3
  <2> QED BY <2>4, <2>5
<1>5. ASSUME Edit
      PROVE  /\ tasks[j].status = "done" => tasks'[j].status = "done"
             /\ tasks[j].tags \subseteq tasks'[j].tags
  <2>1. PICK i \in DOMAIN tasks, k \in Task :
          /\ tasks' = [tasks EXCEPT ![i] = k]
          /\ tasks[i].status = "done" => k.status = "done"
          /\ tasks[i].tags \subseteq k.tags
    BY <1>1, <1>5, EditIs
  <2>2. tasks'[j] = IF j = i THEN k ELSE tasks[j]
    BY <2>1
  <2> QED BY <2>1, <2>2
<1>6. ASSUME NEW p \in Procs,
             \/ Start(p) \/ UpsertFeature(p) \/ ItemsDone(p) \/ ItemLinked(p)
             \/ ReadBriefs(p) \/ WriteBriefs(p) \/ CutShort(p)
      PROVE  UNCHANGED tasks
  BY <1>6 DEF Start, UpsertFeature, ItemsDone, ItemLinked, ReadBriefs, WriteBriefs, CutShort, board
<1>7. CASE UNCHANGED importVars
  BY <1>2, <1>7 DEF importVars, board
<1> QED BY <1>2, <1>3, <1>4, <1>5, <1>6, <1>7 DEF ImportNext

\* A feature is added for the plan of an import, which is the only one, while
\* none carries its tag.
LEMMA FeaturesStep ==
  ASSUME OneImporter, ImportInv, [ImportNext]_importVars, Len(features') > Len(features), NEW f \in DOMAIN features
  PROVE  ~features[f].tagged
<1>1. features \in Seq(Feature)
  BY DEF ImportInv, Shape
<1>2. ASSUME NEW p \in Procs,
             \/ Start(p) \/ UpsertItem(p) \/ ItemsDone(p) \/ LinkItem(p) \/ ItemLinked(p)
             \/ ReadBriefs(p) \/ WriteBriefs(p) \/ CutShort(p)
      PROVE  UNCHANGED features
  BY <1>2 DEF Start, UpsertItem, ItemsDone, LinkItem, ItemLinked, ReadBriefs, WriteBriefs, CutShort, board
<1>3. Edit \/ UNCHANGED importVars => UNCHANGED features
  BY DEF Edit, importVars, board
<1>4. features' # features
  BY <1>1
<1>5. PICK p \in Procs : UpsertFeature(p)
  BY <1>2, <1>3, <1>4 DEF ImportNext
<1>6. features = seen[p].features
  BY <1>5 DEF UpsertFeature, ImportInv, Runs, Alone
<1>7. CASE PlanFeature(features) = {}
  BY <1>7 DEF PlanFeature
<1>8. CASE under[p] # 0 \/ PlanFeature(features) # {}
  <2>1. \E g, k : features' = [features EXCEPT ![g] = k]
    BY <1>5, <1>6, <1>8 DEF UpsertFeature
  <2>2. Len(features') = Len(features)
    BY <2>1, <1>1
  <2> QED BY <1>1, <2>2
<1> QED BY <1>7, <1>8

-----------------------------------------------------------------------------
(* The dispatch: what holds at each step, and theorems                     *)

\* An export takes all that is not done, whatever else it is asked for.
WholeBoard == Scopes \subseteq {Tasks} /\ \A f \in Filters : {"todo", "blocked"} \subseteq f

\* What a running mark-shipped has read still holds of the tasks nobody touched:
\* the briefs, then what the report names; then what is to be closed is build
\* work, named, and blocked only with --force, and no other such task is open.
SweepInv ==
  \A t \in Tasks \ touched :
    /\ sweep.at \in {"report", "board"} => (t \in sweep.listed <=> t \in briefs)
    /\ sweep.at = "board" => (t \in sweep.named <=> Names(reported, t))
    /\ sweep.at = "move" =>
         (t \in sweep.left <=> /\ t \in briefs \ questions
                               /\ Names(reported, t)
                               /\ status[t] # "done"
                               /\ status[t] = "blocked" => sweep.force)

DispatchInv == DispatchTypeOK /\ SweepInv

\* Before any dispatch the dispatch invariant holds.
LEMMA InitDispatch == DispatchInit => DispatchInv
BY DEF DispatchInit, DispatchInv, DispatchTypeOK, SweepInv, Resting, Statuses

\* What a running mark-shipped has read, by what it is at.
LEMMA SweepKinds ==
  ASSUME DispatchTypeOK
  PROVE  /\ sweep.at = "list" => sweep \in ListJob
         /\ sweep.at = "report" => sweep \in ReportJob
         /\ sweep.at = "board" => sweep \in BoardJob
         /\ sweep.at = "move" => sweep \in MoveJob
         /\ Resting.at = "rest"
BY DEF DispatchTypeOK, Resting, ListJob, ReportJob, BoardJob, MoveJob

\* Every dispatch step keeps the dispatch types.
LEMMA DispatchStepTyped == DispatchTypeOK /\ [DispatchNext]_dispatchVars => DispatchTypeOK'
<1> SUFFICES ASSUME DispatchTypeOK, [DispatchNext]_dispatchVars PROVE DispatchTypeOK'
  OBVIOUS
<1>1. \A ts \in SUBSET Tasks : Touch(ts) => touched' \subseteq Tasks
  BY DEF Touch, DispatchTypeOK
<1>2. CASE Operate
  <2>1. PICK t \in Tasks :
          \/ /\ \E s \in Statuses \ {status[t]} : status' = [status EXCEPT ![t] = s]
             /\ Touch({t})
             /\ UNCHANGED <<questions, blocked_by>>
          \/ /\ \/ \E b \in Tasks \ {t} : blocked_by' = [blocked_by EXCEPT ![t] = @ \cup {b}]
                \/ \E b \in blocked_by[t] : blocked_by' = [blocked_by EXCEPT ![t] = @ \ {b}]
             /\ UNCHANGED <<status, questions, touched>>
          \/ /\ questions' = IF t \in questions THEN questions \ {t} ELSE questions \cup {t}
             /\ Touch({t})
             /\ UNCHANGED <<status, blocked_by>>
    BY <1>2 DEF Operate
  <2>2. UNCHANGED <<index, briefs, reported, sweep>>
    BY <1>2 DEF Operate, folderVars
  <2>3. status' \in [Tasks -> Statuses] /\ questions' \subseteq Tasks
    BY <2>1 DEF DispatchTypeOK
  <2>4. blocked_by' \in [Tasks -> SUBSET Tasks] /\ \A u \in Tasks : u \notin blocked_by'[u]
    BY <2>1 DEF DispatchTypeOK
  <2>5. touched' \subseteq Tasks
    BY <1>1, <2>1 DEF DispatchTypeOK
  <2> QED BY <2>2, <2>3, <2>4, <2>5 DEF DispatchTypeOK
<1>3. CASE Report
  <2>1. touched' \subseteq Tasks
    BY <1>1, <1>3 DEF Report
  <2> QED BY <1>3, <2>1 DEF Report, boardVars, DispatchTypeOK
<1>4. CASE Export \/ ExportCut
  <2>1. \A slice \in Slices : slice \subseteq Tasks
    BY DEF Slices
  <2>2. briefs' \subseteq Tasks /\ index' \in {Absent} \cup SUBSET Tasks
    BY <2>1, <1>4 DEF Export, ExportCut, DispatchTypeOK
  <2>3. touched' \subseteq Tasks
    BY <1>1, <1>4, <2>1 DEF Export, ExportCut
  <2>4. UNCHANGED <<status, questions, blocked_by, reported, sweep>>
    BY <1>4 DEF Export, ExportCut, boardVars
  <2> QED BY <2>2, <2>3, <2>4 DEF DispatchTypeOK
<1>5. CASE MarkShipped
  BY <1>5 DEF MarkShipped, ListJob, boardVars, folderVars, DispatchTypeOK
<1>6. CASE ListBriefs
  <2>1. sweep' \in {Resting} \cup ReportJob /\ touched' \subseteq Tasks
    BY <1>6 DEF ListBriefs, Briefs, ReportJob, DispatchTypeOK
  <2> QED BY <1>6, <2>1 DEF ListBriefs, boardVars, folderVars, DispatchTypeOK
<1>7. CASE ReadReport
  <2>1. sweep' \in BoardJob
    BY <1>7, SweepKinds DEF ReadReport, ReportJob, BoardJob
  <2> QED BY <1>7, <2>1 DEF ReadReport, boardVars, folderVars, DispatchTypeOK
<1>8. CASE ReadBoard
  <2>1. sweep' \in MoveJob
    BY <1>8, SweepKinds DEF ReadBoard, BoardJob, MoveJob, Swept
  <2> QED BY <1>8, <2>1 DEF ReadBoard, boardVars, folderVars, DispatchTypeOK
<1>9. CASE Sweep
  <2>1. PICK t \in sweep.left : /\ status' = [status EXCEPT ![t] = "done"]
                                /\ sweep' = [sweep EXCEPT !.left = @ \ {t}]
    BY <1>9 DEF Sweep
  <2>2. sweep' \in MoveJob
    BY <1>9, <2>1, SweepKinds DEF Sweep, MoveJob
  <2>3. status' \in [Tasks -> Statuses]
    BY <2>1 DEF DispatchTypeOK, Statuses
  <2> QED BY <1>9, <2>2, <2>3 DEF Sweep, folderVars, DispatchTypeOK
<1>10. CASE EndSweep \/ SweepCut
  BY <1>10 DEF EndSweep, SweepCut, boardVars, folderVars, DispatchTypeOK
<1>11. CASE UNCHANGED dispatchVars
  BY <1>11 DEF dispatchVars, boardVars, folderVars, DispatchTypeOK
<1> QED BY <1>2, <1>3, <1>4, <1>5, <1>6, <1>7, <1>8, <1>9, <1>10, <1>11 DEF DispatchNext

\* What others do to the board and the folder concerns the tasks they touch.
LEMMA OthersTouch ==
  ASSUME DispatchTypeOK, SweepInv, UNCHANGED sweep, touched \subseteq touched',
         \A t \in Tasks \ touched' :
           /\ status'[t] = status[t]
           /\ t \in questions' <=> t \in questions
           /\ t \in briefs' <=> t \in briefs
           /\ Names(reported', t) <=> Names(reported, t)
  PROVE  SweepInv'
BY DEF SweepInv

\* A touched task stays so while mark-shipped runs; before, nothing is claimed.
LEMMA Touching ==
  ASSUME NEW ts, Touch(ts), UNCHANGED sweep, sweep # Resting
  PROVE  touched \cup ts \subseteq touched'
BY DEF Touch

\* Every dispatch step keeps what mark-shipped has read.
LEMMA DispatchStepRead ==
  DispatchTypeOK /\ SweepInv /\ [DispatchNext]_dispatchVars => SweepInv'
<1> SUFFICES ASSUME DispatchTypeOK, SweepInv, [DispatchNext]_dispatchVars PROVE SweepInv'
  OBVIOUS
<1>1. ASSUME sweep' = Resting PROVE SweepInv'
  BY <1>1, SweepKinds DEF SweepInv
<1>2. CASE Operate
  <2>1. UNCHANGED <<index, briefs, reported, sweep>>
    BY <1>2 DEF Operate, folderVars
  <2>2. ASSUME sweep # Resting PROVE SweepInv'
    <3>1. PICK t \in Tasks :
            \/ /\ \E s \in Statuses \ {status[t]} : status' = [status EXCEPT ![t] = s]
               /\ Touch({t})
               /\ UNCHANGED <<questions, blocked_by>>
            \/ UNCHANGED <<status, questions, touched>>
            \/ /\ questions' = IF t \in questions THEN questions \ {t} ELSE questions \cup {t}
               /\ Touch({t})
               /\ UNCHANGED <<status, blocked_by>>
      BY <1>2 DEF Operate
    <3>2. CASE UNCHANGED <<status, questions, touched>>
      BY <2>1, <3>2, OthersTouch
    <3>3. CASE Touch({t}) /\ UNCHANGED questions /\ \E s \in Statuses : status' = [status EXCEPT ![t] = s]
      <4>1. touched \cup {t} \subseteq touched'
        BY <2>1, <2>2, <3>3, Touching
      <4>2. \A u \in Tasks : u # t => status'[u] = status[u]
        BY <3>3 DEF DispatchTypeOK
      <4> QED BY <2>1, <3>3, <4>1, <4>2, OthersTouch
    <3>4. CASE /\ Touch({t}) /\ UNCHANGED status
               /\ questions' = IF t \in questions THEN questions \ {t} ELSE questions \cup {t}
      <4>1. touched \cup {t} \subseteq touched'
        BY <2>1, <2>2, <3>4, Touching
      <4> QED BY <2>1, <3>4, <4>1, OthersTouch
    <3> QED BY <3>1, <3>2, <3>3, <3>4
  <2> QED BY <1>1, <2>1, <2>2
<1>3. CASE Report
  <2> DEFINE named == {t \in Tasks : Names(reported, t) \/ t \in reported'}
  <2>1. UNCHANGED <<status, questions, briefs, sweep>> /\ reported' \in Reports /\ Touch(named)
    BY <1>3 DEF Report, boardVars
  <2>2. CASE sweep # Resting
    <3>1. touched \cup named \subseteq touched'
      BY <2>1, <2>2, Touching
    <3>2. ASSUME NEW t \in Tasks \ touched'
          PROVE  Names(reported', t) <=> Names(reported, t)
      <4>1. ~Names(reported, t) /\ t \notin reported'
        BY <3>1
      <4>2. reported' # Absent
        BY <2>1, DispatchAssumption
      <4> QED BY <2>1, <4>1, <4>2 DEF Names
    <3> QED BY <2>1, <3>1, <3>2, OthersTouch
  <2> QED BY <1>1, <2>1, <2>2
<1>4. CASE Export \/ ExportCut
  <2>1. PICK slice \in Slices : /\ Touch(slice)
                                /\ briefs \ slice \subseteq briefs' /\ briefs' \subseteq briefs \cup slice
    BY <1>4 DEF Export, ExportCut
  <2>2. UNCHANGED <<status, questions, reported, sweep>>
    BY <1>4 DEF Export, ExportCut, boardVars
  <2>3. CASE sweep # Resting
    <3>1. touched \cup slice \subseteq touched'
      BY <2>1, <2>2, <2>3, Touching
    <3> QED BY <2>1, <2>2, <3>1, OthersTouch
  <2> QED BY <1>1, <2>2, <2>3
<1>5. CASE MarkShipped
  BY <1>5 DEF MarkShipped, SweepInv
<1>6. CASE ListBriefs
  <2>1. CASE sweep' = Resting
    BY <1>1, <2>1
  <2>2. CASE sweep' = [at |-> "report", listed |-> briefs]
    BY <1>6, <2>2 DEF ListBriefs, folderVars, SweepInv
  <2> QED BY <1>6, <2>1, <2>2 DEF ListBriefs, Briefs
<1>7. CASE ReadReport
  BY <1>7 DEF ReadReport, folderVars, SweepInv
<1>8. CASE ReadBoard
  <2>1. PICK force \in BOOLEAN :
          sweep' = [at |-> "move", left |-> Swept(sweep.listed \cap sweep.named, force), force |-> force]
    BY <1>8 DEF ReadBoard
  <2>2. UNCHANGED <<status, questions, briefs, reported, touched>> /\ sweep.at = "board"
    BY <1>8 DEF ReadBoard, boardVars, folderVars
  <2> QED BY <2>1, <2>2 DEF SweepInv, Swept
<1>9. CASE Sweep
  <2>1. PICK t \in sweep.left : /\ status' = [status EXCEPT ![t] = "done"]
                                /\ sweep' = [sweep EXCEPT !.left = @ \ {t}]
    BY <1>9 DEF Sweep
  <2>2. sweep \in MoveJob /\ sweep.at = "move" /\ UNCHANGED <<questions, briefs, reported, touched>>
    BY <1>9, SweepKinds DEF Sweep, folderVars
  <2>3. sweep'.at = "move" /\ sweep'.left = sweep.left \ {t} /\ sweep'.force = sweep.force
    BY <2>1, <2>2 DEF MoveJob
  <2>4. \A u \in Tasks : status'[u] = IF u = t THEN "done" ELSE status[u]
    BY <2>1 DEF DispatchTypeOK
  <2> QED BY <2>2, <2>3, <2>4 DEF SweepInv
<1>10. CASE EndSweep \/ SweepCut
  BY <1>1, <1>10 DEF EndSweep, SweepCut
<1>11. CASE UNCHANGED dispatchVars
  BY <1>11 DEF dispatchVars, boardVars, folderVars, SweepInv
<1> QED BY <1>2, <1>3, <1>4, <1>5, <1>6, <1>7, <1>8, <1>9, <1>10, <1>11 DEF DispatchNext

\* The dispatch invariant holds in every reachable state.
LEMMA DispatchInvariant == DispatchSpec => []DispatchInv
<1>1. DispatchInv /\ [DispatchNext]_dispatchVars => DispatchInv'
  BY DispatchStepTyped, DispatchStepRead DEF DispatchInv
<1> QED BY <1>1, InitDispatch, PTL DEF DispatchSpec

\* What is exported is closed under what its tasks wait for: an open blocker
\* that is a question gates the task, and any other is exported with it.
LEMMA ExportStep ==
  ASSUME WholeBoard, DispatchInv, Export, NEW t \in index'
  PROVE  WaitsFor(t) \cap OpenQuestions \subseteq index'
<1>1. PICK slice \in Slices : index' = slice
  BY DEF Export
<1>2. PICK scope \in Scopes, filter \in Filters, include \in BOOLEAN :
        LET selected == Selected(scope, filter)
            dropped  == Dropped(selected, include)
        IN slice = selected \ dropped /\ Exportable(slice, dropped)
  BY DEF Slices
<1>3. PICK selected : selected = Selected(scope, filter)
  OBVIOUS
<1>4. PICK dropped : dropped = Dropped(selected, include)
  OBVIOUS
<1>5. slice = selected \ dropped /\ Gated(slice, dropped) = {}
  BY <1>2, <1>3, <1>4 DEF Exportable
<1>6. \A u \in Tasks : status[u] # "done" => u \in selected
  BY <1>3 DEF Selected, WholeBoard, DispatchInv, DispatchTypeOK, Statuses
<1>7. selected \subseteq Tasks
  BY <1>3 DEF Selected, WholeBoard
<1>8. PICK S : S = slice \cup {u \in Tasks : status[u] = "done"}
  OBVIOUS
<1>9. ASSUME NEW u \in slice
      PROVE  blocked_by[u] \subseteq S
  <2>1. blocked_by[u] \subseteq Tasks /\ blocked_by[u] \cap dropped = {}
    BY <1>5, <1>7, <1>9 DEF Gated, DispatchInv, DispatchTypeOK
  <2> QED BY <2>1, <1>5, <1>6, <1>8
<1>10. WaitsFor(t) \subseteq S
  <2>1. S \in SUBSET Tasks /\ t \in slice
    BY <1>1, <1>5, <1>7, <1>8
  <2>2. blocked_by[t] \subseteq S /\ \A u \in S : status[u] # "done" => blocked_by[u] \subseteq S
    BY <2>1, <1>8, <1>9
  <2> QED BY <2>1, <2>2 DEF WaitsFor
<1> QED BY <1>1, <1>8, <1>10 DEF OpenQuestions

-----------------------------------------------------------------------------
(* The bridge                                                              *)

\* Each scene of the bridge is a behaviour of the one while the other rests.
LEMMA BridgeIsBoth == BridgeSpec => ImportSpec /\ DispatchSpec
<1>1. BridgeInit => ImportInit /\ DispatchInit
  BY DEF BridgeInit
<1>2. [BridgeNext]_bridgeVars => [ImportNext]_importVars /\ [DispatchNext]_dispatchVars
  BY DEF BridgeNext, bridgeVars
<1> QED BY <1>1, <1>2, PTL DEF BridgeSpec, ImportSpec, DispatchSpec

\* What is proved implies the type invariant of the import.
LEMMA ImportTyped == ImportInv => ImportTypeOK
<1> SUFFICES ASSUME ImportInv PROVE ImportTypeOK
  OBVIOUS
<1>1. Shape
  BY DEF ImportInv
<1>2. DOMAIN tasks \subseteq Ids
  BY <1>1 DEF Shape, Ids
<1>3. ASSUME NEW p \in Procs
      PROVE  /\ pc[p] # "idle" => doc[p] \in Docs /\ at[p] \in 1 .. Len(doc[p].order) + 1
             /\ \A r \in DOMAIN made[p] : made[p][r] \in DOMAIN tasks
  <2>1. CASE pc[p] = "idle"
    BY <2>1 DEF ImportInv
  <2>2. CASE pc[p] # "idle"
    BY <2>2 DEF ImportInv, Runs, Remembers, Brings
  <2> QED BY <2>1, <2>2
<1>4. pc \in [Procs -> {"idle", "feature", "items", "links", "sync", "write_sync"}]
  BY <1>1 DEF Shape, Importing
<1> QED BY <1>1, <1>2, <1>3, <1>4 DEF Shape, ImportTypeOK

\* Rows, documents and folders are what they are taken for, on both sides of
\* the bridge and for any number of importers: an import knows the row of each
\* item it has made, and no task blocks itself.
THEOREM BridgeTypes == BridgeSpec => []ImportTypeOK /\ []DispatchTypeOK
<1>1. DispatchInv => DispatchTypeOK
  BY DEF DispatchInv
<1> QED BY <1>1, DispatchInvariant, BridgeIsBoth, ImportInvariant, ImportTyped, PTL

\* Of any plan in any versions, with imports cut short wherever it happens and
\* the operator's edits in between, an item has one task, as long as one
\* process imports (import_work_item_doc looks tasks up before it adds).
THEOREM OneTaskEach ==
  ASSUME OneImporter
  PROVE  BridgeSpec => []OneTaskPerItem
<1>1. ImportInv => OneTaskPerItem
  BY DEF ImportInv
<1> QED BY <1>1, BridgeIsBoth, ImportInvariant, PTL

\* For any number of importers: an import that nobody disturbed leaves each
\* item of the plan with its task, blocked by the tasks of the items it
\* depends on and by nothing else, and the PBI with the acceptance of all
\* tasks under it.
THEOREM AppliesThePlan == BridgeSpec => []PlanApplied
<1>1. ImportInv => PlanApplied
  BY DEF ImportInv, PlanApplied
<1> QED BY <1>1, BridgeIsBoth, ImportInvariant, PTL

\* No import and no edit takes a done away, for any number of importers and
\* however they interleave (the board owns the status).
THEOREM KeepsStatus == BridgeSpec => StatusKept
<1>1. ImportInv /\ [ImportNext]_importVars
      => [\A i \in DOMAIN tasks : tasks[i].status = "done" => tasks'[i].status = "done"]_importVars
  BY TasksStep
<1> QED BY <1>1, BridgeIsBoth, ImportInvariant, PTL DEF ImportSpec, StatusKept

\* As long as nobody disturbs an import, no task loses a tag: the set of
\* import_work_item_doc writes the tags that were read and the plan's.
THEOREM KeepsTags == BridgeSpec => TagsKept
<1>1. ImportInv /\ [ImportNext]_importVars
      => [Undisturbed => \A i \in DOMAIN tasks : tasks[i].tags \subseteq tasks'[i].tags]_importVars
  BY TasksStep
<1> QED BY <1>1, BridgeIsBoth, ImportInvariant, PTL DEF ImportSpec, TagsKept

\* A feature is minted for the plan only while none carries its tag, as long
\* as one process imports (_upsert_feature_for_plan).
THEOREM MintsOnce ==
  ASSUME OneImporter
  PROVE  BridgeSpec => FeatureMintedOnce
<1>1. ImportInv /\ [ImportNext]_importVars
      => [Len(features') > Len(features) => \A f \in DOMAIN features : ~features[f].tagged]_importVars
  BY FeaturesStep
<1> QED BY <1>1, BridgeIsBoth, ImportInvariant, PTL DEF ImportSpec, FeatureMintedOnce

\* Whatever the operator, the builders and exports do between any two steps of
\* mark-shipped, and wherever it is cut short: of the tasks that none of them
\* touches meanwhile, it closes only build work with a brief that the report
\* names, blocked ones with --force alone, and all of those before it ends.
THEOREM SweepsExactly == BridgeSpec => SweepIsExact
<1> DEFINE Due(t) == t \in briefs \ questions /\ Names(reported, t)
           Kept(t) == status[t] = "blocked" /\ ~sweep.force
           Exact ==
             /\ Sweep => \A t \in Tasks \ touched : status'[t] # status[t] => Due(t) /\ ~Kept(t)
             /\ EndSweep => \A t \in Tasks \ touched : Due(t) => status[t] = "done" \/ Kept(t)
<1>1. ASSUME DispatchInv, Sweep, NEW t \in Tasks \ touched, status'[t] # status[t]
      PROVE  Due(t) /\ ~Kept(t)
  <2>1. PICK u \in sweep.left : status' = [status EXCEPT ![u] = "done"]
    BY <1>1 DEF Sweep
  <2>2. t = u /\ sweep.at = "move"
    BY <1>1, <2>1 DEF DispatchInv, DispatchTypeOK, Sweep
  <2> QED BY <1>1, <2>2 DEF DispatchInv, SweepInv
<1>2. ASSUME DispatchInv, EndSweep, NEW t \in Tasks \ touched, Due(t)
      PROVE  status[t] = "done" \/ Kept(t)
  BY <1>2 DEF DispatchInv, SweepInv, EndSweep
<1>3. DispatchInv /\ [DispatchNext]_dispatchVars => [Exact]_dispatchVars
  BY <1>1, <1>2
<1> QED BY <1>3, BridgeIsBoth, DispatchInvariant, PTL DEF DispatchSpec, SweepIsExact

\* An export of all that is not done hands nothing to a builder that waits, at
\* any distance, for an open question that is not handed out with it, for any
\* number of tasks and any blockers between them.
THEOREM NothingDownstream ==
  ASSUME WholeBoard
  PROVE  BridgeSpec => NothingDownstreamOfAQuestion
<1>1. DispatchInv /\ [DispatchNext]_dispatchVars
      => [dispatchVars' # dispatchVars /\ Export
            => \A t \in index' : WaitsFor(t) \cap OpenQuestions \subseteq index']_dispatchVars
  BY ExportStep
<1> QED BY <1>1, BridgeIsBoth, DispatchInvariant, PTL DEF DispatchSpec, NothingDownstreamOfAQuestion
=============================================================================

----------------------------- MODULE PlanImport -----------------------------
(***************************************************************************)
(* taskman/cli.py, import_work_item_doc: `plan from-decisions` turns the   *)
(* items of a plan into tasks, and the items' dependencies into            *)
(* blocked_by.                                                             *)
(*                                                                         *)
(* An import replays the board once and then makes one store call after    *)
(* the other, for each item in the plan's order.  Between two calls other  *)
(* imports and the operator's own commands change the board, and a kill    *)
(* leaves the rest undone.  One plan is imported, in the versions that     *)
(* Docs gives; an item is named by its source_ref.                         *)
(***************************************************************************)
EXTENDS Naturals, Sequences, FiniteSets, FiniteSetsExt, SequencesExt

CONSTANTS
  Procs,       \* processes that import
  Refs,        \* source_refs
  Tags,
  Docs,        \* the versions of the plan: [order, deps, tags, brief]
  NoDoc,
  Meddling,    \* TRUE: the operator also edits while an import runs
  MaxEdits,    \* bound: the operator's edits
  MaxDeaths    \* bound: imports cut short

ASSUME ImportAssumption ==
  /\ \A d \in Docs : /\ d.order \in Seq(Refs) /\ IsInjective(d.order)
                     /\ d.deps \in [Refs -> SUBSET Refs]
                     /\ d.tags \in [Refs -> SUBSET Tags]
                     /\ d.brief \in Nat
  /\ NoDoc \notin Docs
  /\ Meddling \in BOOLEAN
  /\ MaxEdits \in Nat /\ MaxDeaths \in Nat

Ids == Nat \ {0}

\* pbi: whether the task hangs under the one PBI of the model.
Task == [ref : Refs, tags : SUBSET Tags, status : {"backlog", "done"}, brief : Nat,
         blocked_by : SUBSET Ids, pbi : BOOLEAN]

\* A feature: whether it carries the tag plan:<slug>, and the plan's title.
Feature == [tagged : BOOLEAN, titled : BOOLEAN]

VARIABLES
  tasks,       \* id -> task
  features,    \* the features, by id
  acceptance,  \* the PBI's acceptance_criteria: the briefs it was made from
  pc,          \* per process: "idle", "feature", "items", "links", "sync" or "write_sync"
  doc,         \* per process: the plan it imports
  seen,        \* per process: the board as it replayed it: [tasks, features]
  under,       \* per process: the feature given with --feature, 0 without
  at,          \* per process: the position of the item it is at
  made,        \* per process: item_id_to_task, for the items before
  moved,       \* per process: the targets linked and unlinked for this item
  read,        \* per process: the briefs it read for the PBI
  quiet,       \* history, per process: nobody else has acted since its import began
  settled,     \* history: the plan of the last import, if it was quiet and so is the board since
  used         \* history: bounded events so far

board    == <<tasks, features, acceptance>>
locals   == <<doc, seen, under, at, made, moved, read>>
importVars     == <<board, pc, locals, quiet, settled, used>>

NoTasks == [i \in {} |-> 0]
NothingSeen == [tasks |-> NoTasks, features |-> <<>>]

ImportTypeOK ==
  /\ DOMAIN tasks \subseteq Ids /\ \A i \in DOMAIN tasks : tasks[i] \in Task
  /\ features \in Seq(Feature)
  /\ acceptance \subseteq Nat
  /\ pc \in [Procs -> {"idle", "feature", "items", "links", "sync", "write_sync"}]
  /\ doc \in [Procs -> Docs \cup {NoDoc}]
  /\ \A p \in Procs : pc[p] # "idle" => doc[p] \in Docs /\ at[p] \in 1..Len(doc[p].order) + 1
  /\ under \in [Procs -> Nat]
  /\ \A p \in Procs : \A r \in DOMAIN made[p] : made[p][r] \in DOMAIN tasks
  /\ moved \in [Procs -> SUBSET Ids]
  /\ quiet \in [Procs -> BOOLEAN]
  /\ settled \in Docs \cup {NoDoc}
  /\ used \in [{"edits", "deaths"} -> Nat]

\* Two features exist that no import made: one has the plan's title.
ImportInit ==
  /\ tasks = NoTasks
  /\ features \in {<<>>, <<[tagged |-> FALSE, titled |-> FALSE]>>, <<[tagged |-> FALSE, titled |-> TRUE]>>}
  /\ acceptance = {}
  /\ pc = [p \in Procs |-> "idle"]
  /\ doc = [p \in Procs |-> NoDoc]
  /\ seen = [p \in Procs |-> NothingSeen]
  /\ under = [p \in Procs |-> 0]
  /\ at = [p \in Procs |-> 1]
  /\ made = [p \in Procs |-> NoTasks]
  /\ moved = [p \in Procs |-> {}]
  /\ read = [p \in Procs |-> {}]
  /\ quiet = [p \in Procs |-> FALSE]
  /\ settled = NoDoc
  /\ used = [what \in {"edits", "deaths"} |-> 0]

Goto(p, label) == pc' = [pc EXCEPT ![p] = label]
Uses(what, max) == used[what] < max /\ used' = [used EXCEPT ![what] = @ + 1]
-----------------------------------------------------------------------------
(* the import *)

\* validate has passed; the board is replayed, once.
Start(p) ==
  /\ pc[p] = "idle"
  /\ \E d \in Docs, f \in {0} \cup DOMAIN features :
       /\ doc' = [doc EXCEPT ![p] = d]
       /\ under' = [under EXCEPT ![p] = f]
  /\ seen' = [seen EXCEPT ![p] = [tasks |-> tasks, features |-> features]]
  /\ at' = [at EXCEPT ![p] = 1]
  /\ made' = [made EXCEPT ![p] = NoTasks]
  /\ Goto(p, "feature")
  /\ quiet' = [q \in Procs |-> q = p /\ \A o \in Procs : o = p \/ pc[o] = "idle"]
  /\ settled' = NoDoc
  /\ UNCHANGED <<board, moved, read, used>>

\* Mutant: the plan's feature is looked for by its title only.
PlanFeatureByTitle(fs) == {f \in DOMAIN fs : fs[f].titled /\ ~fs[f].tagged}

\* The features an import without --feature may take over: by tag, else by title.
PlanFeature(fs) ==
  LET tagged == {f \in DOMAIN fs : fs[f].tagged} IN
  IF tagged # {} THEN tagged ELSE {f \in DOMAIN fs : fs[f].titled}

\* _upsert_feature_for_plan, or the tag for the feature given with --feature.
UpsertFeature(p) ==
  LET found == PlanFeature(seen[p].features) IN
  /\ pc[p] = "feature"
  /\ features' =
       IF under[p] # 0 THEN [features EXCEPT ![under[p]].tagged = TRUE]
       ELSE IF found = {} THEN Append(features, [tagged |-> TRUE, titled |-> TRUE])
       ELSE [features EXCEPT ![Min(found)] = [tagged |-> TRUE, titled |-> TRUE]]
  /\ Goto(p, "items")
  /\ UNCHANGED <<tasks, acceptance, locals, quiet, settled, used>>

\* Mutant: only tasks that are not done are looked for.
ExistingOpen(ts, r) == {i \in DOMAIN ts : ts[i].ref = r /\ ts[i].status # "done"}

\* existing_by_ref, of which the last one counts.
Existing(ts, r) == {i \in DOMAIN ts : ts[i].ref = r}

\* Mutant: the status goes back to what the markdown says.
RefreshedFromPlan(now, old, d, r) ==
  [now EXCEPT !.tags = old.tags \cup d.tags[r], !.brief = d.brief, !.status = "backlog"]

\* Mutant: the tags are the plan's.
RefreshedReplacing(now, old, d, r) == [now EXCEPT !.tags = d.tags[r], !.brief = d.brief]

\* The set of an existing task: tags merged with those that were read; status,
\* PBI and blockers stay as they are on the board.
Refreshed(now, old, d, r) == [now EXCEPT !.tags = old.tags \cup d.tags[r], !.brief = d.brief]

NewTask(d, r) == [ref |-> r, tags |-> d.tags[r], status |-> "backlog", brief |-> d.brief,
                  blocked_by |-> {}, pbi |-> FALSE]

\* The id of an added task.
NextTask == Cardinality(DOMAIN tasks) + 1

\* The first loop: the task of one item is added or refreshed.
UpsertItem(p) ==
  LET d == doc[p]
      r == d.order[at[p]]
      found == Existing(seen[p].tasks, r)
      i == IF found = {} THEN NextTask ELSE Max(found)
  IN /\ pc[p] = "items"
     /\ at[p] <= Len(d.order)
     /\ tasks' = [j \in DOMAIN tasks \cup {i} |->
                    IF j # i THEN tasks[j]
                    ELSE IF found = {} THEN NewTask(d, r)
                    ELSE Refreshed(tasks[i], seen[p].tasks[i], d, r)]
     /\ made' = [made EXCEPT ![p] = [s \in DOMAIN @ \cup {r} |-> IF s = r THEN i ELSE @[s]]]
     /\ at' = [at EXCEPT ![p] = @ + 1]
     /\ UNCHANGED <<features, acceptance, pc, doc, seen, under, moved, read, quiet, settled, used>>

ItemsDone(p) ==
  /\ pc[p] = "items"
  /\ at[p] > Len(doc[p].order)
  /\ at' = [at EXCEPT ![p] = 1]
  /\ Goto(p, "links")
  /\ UNCHANGED <<board, doc, seen, under, made, moved, read, quiet, settled, used>>

\* Of the item p is at: its task, the blockers the plan wants (of the items it
\* brings) and those the task had when the board was read.
TaskAt(p) == made[p][doc[p].order[at[p]]]
Desired(p) == {made[p][r] : r \in doc[p].deps[doc[p].order[at[p]]] \cap DOMAIN made[p]}
Current(p) == IF TaskAt(p) \in DOMAIN seen[p].tasks THEN seen[p].tasks[TaskAt(p)].blocked_by ELSE {}

\* Mutant: a task that this import has added gets no blockers.
MissingOfKnown(p) == IF TaskAt(p) \in DOMAIN seen[p].tasks THEN (Desired(p) \ Current(p)) \ moved[p] ELSE {}

Missing(p)  == (Desired(p) \ Current(p)) \ moved[p]
Unwanted(p) == (Current(p) \ Desired(p)) \ moved[p]

\* The second loop: first the links of an item, then its unlinks.
LinkItem(p) ==
  /\ pc[p] = "links"
  /\ at[p] <= Len(doc[p].order)
  /\ \E n \in IF Missing(p) # {} THEN Missing(p) ELSE Unwanted(p) :
       /\ tasks' = [tasks EXCEPT ![TaskAt(p)].blocked_by = IF n \in Desired(p) THEN @ \cup {n} ELSE @ \ {n}]
       /\ moved' = [moved EXCEPT ![p] = @ \cup {n}]
  /\ UNCHANGED <<features, acceptance, pc, doc, seen, under, at, made, read, quiet, settled, used>>

ItemLinked(p) ==
  /\ pc[p] = "links"
  /\ IF at[p] <= Len(doc[p].order)
     THEN /\ Missing(p) \cup Unwanted(p) = {}
          /\ at' = [at EXCEPT ![p] = @ + 1]
          /\ UNCHANGED pc
     ELSE Goto(p, "sync") /\ UNCHANGED at
  /\ moved' = [moved EXCEPT ![p] = {}]
  /\ UNCHANGED <<board, doc, seen, under, made, read, quiet, settled, used>>

Finish(p) ==
  /\ Goto(p, "idle")
  /\ settled' = IF quiet[p] THEN doc[p] ELSE NoDoc
  /\ seen' = [seen EXCEPT ![p] = NothingSeen]
  /\ doc' = [doc EXCEPT ![p] = NoDoc]
  /\ read' = [read EXCEPT ![p] = {}]
  /\ made' = [made EXCEPT ![p] = NoTasks]

\* The briefs of all tasks under the PBI, of a new replay.
BriefsNow(p) == {tasks[i].brief : i \in {j \in DOMAIN tasks : tasks[j].pbi}}

\* _sync_pbi_acceptance_from_tasks: only when a task of the plan was under the
\* PBI when the board was first read, and some task still is.
ReadBriefs(p) ==
  /\ pc[p] = "sync"
  /\ IF \E r \in DOMAIN made[p] : made[p][r] \in DOMAIN seen[p].tasks /\ seen[p].tasks[made[p][r]].pbi
     THEN /\ Goto(p, "write_sync")
          /\ read' = [read EXCEPT ![p] = BriefsNow(p)]
          /\ UNCHANGED <<doc, seen, made, settled>>
     ELSE Finish(p)
  /\ UNCHANGED <<board, under, at, moved, quiet, used>>

WriteBriefs(p) ==
  /\ pc[p] = "write_sync"
  /\ acceptance' = IF read[p] = {} THEN acceptance ELSE read[p]
  /\ Finish(p)
  /\ UNCHANGED <<tasks, features, under, at, moved, quiet, used>>
-----------------------------------------------------------------------------
(* the environment *)

\* The operator tags, moves, relates a task or puts it under the PBI.
Edit ==
  /\ Meddling \/ \A p \in Procs : pc[p] = "idle"
  /\ Uses("edits", MaxEdits)
  /\ quiet' = [p \in Procs |-> FALSE]
  /\ settled' = NoDoc
  /\ \E i \in DOMAIN tasks :
       \/ \E t \in Tags : tasks' = [tasks EXCEPT ![i].tags = @ \cup {t}]
       \/ tasks' = [tasks EXCEPT ![i].status = "done"]
       \/ tasks' = [tasks EXCEPT ![i].pbi = TRUE]
       \/ \E n \in DOMAIN tasks \ {i} : tasks' = [tasks EXCEPT ![i].blocked_by = @ \cup {n}]
  /\ UNCHANGED <<features, acceptance, pc, locals>>

\* A kill, or LockTimeout out of a store call.
CutShort(p) ==
  /\ pc[p] # "idle"
  /\ Uses("deaths", MaxDeaths)
  /\ Goto(p, "idle")
  /\ doc' = [doc EXCEPT ![p] = NoDoc]
  /\ seen' = [seen EXCEPT ![p] = NothingSeen]
  /\ made' = [made EXCEPT ![p] = NoTasks]
  /\ moved' = [moved EXCEPT ![p] = {}]
  /\ read' = [read EXCEPT ![p] = {}]
  /\ UNCHANGED <<board, under, at, quiet, settled>>
-----------------------------------------------------------------------------
ImportNext ==
  \/ \E p \in Procs :
       \/ Start(p) \/ UpsertFeature(p)
       \/ UpsertItem(p) \/ ItemsDone(p) \/ LinkItem(p) \/ ItemLinked(p)
       \/ ReadBriefs(p) \/ WriteBriefs(p)
       \/ CutShort(p)
  \/ Edit

ImportSpec == ImportInit /\ [][ImportNext]_importVars

-----------------------------------------------------------------------------
(* Properties *)

\* No item has two tasks: an import finds the tasks of earlier imports, those
\* that were cut short included.
OneTaskPerItem == \A i, j \in DOMAIN tasks : tasks[i].ref = tasks[j].ref => i = j

\* A feature is minted for the plan only while none carries its tag.
FeatureMintedOnce ==
  [][Len(features') > Len(features) => \A f \in DOMAIN features : ~features[f].tagged]_importVars

\* The board owns the status: what was done stays done, when the operator said
\* so in the middle of an import, too.
StatusKept ==
  [][\A i \in DOMAIN tasks : tasks[i].status = "done" => tasks'[i].status = "done"]_importVars

\* As long as nobody disturbs an import, the tags of a task are merged with
\* the plan's, never taken away.
Undisturbed == \A p \in Procs : pc[p] = "idle" \/ quiet[p]
TagsKept == [][Undisturbed => \A i \in DOMAIN tasks : tasks[i].tags \subseteq tasks'[i].tags]_importVars

\* After an import that nobody disturbed, whatever the board held before and
\* wherever earlier imports were cut short, each item of the plan has its
\* task, blocked by the tasks of the items it depends on and by nothing else,
\* and the PBI of such a task has the acceptance of all tasks under it.
PlanApplied ==
  settled # NoDoc =>
    LET items     == ToSet(settled.order)
        taskOf(r) == Max(Existing(tasks, r))
    IN /\ \A r \in items :
            /\ Existing(tasks, r) # {}
            /\ tasks[taskOf(r)].brief = settled.brief
            /\ settled.tags[r] \subseteq tasks[taskOf(r)].tags
            /\ tasks[taskOf(r)].blocked_by = {taskOf(s) : s \in settled.deps[r] \cap items}
       /\ (\E r \in items : tasks[taskOf(r)].pbi)
          => acceptance = {tasks[i].brief : i \in {j \in DOMAIN tasks : tasks[j].pbi}}
=============================================================================

---------------------------- MODULE PlanDispatch ----------------------------
(***************************************************************************)
(* taskman/cli.py: `plan to-dispatch` hands a slice of the board to        *)
(* builders that work without asking, `plan mark-shipped` closes the tasks *)
(* they report.  mark-shipped looks at the folder, at the report and at    *)
(* the board one after the other, with no lock, and closes one task at a   *)
(* time, while the operator, the builders and exports go on.               *)
(*                                                                         *)
(* A task tagged kind:decision is an open question, not build work.  Which *)
(* tasks the feature, lane and tag selectors pick is left open; --status   *)
(* is kept, because it reads what the operator changes.                    *)
(***************************************************************************)
EXTENDS Naturals, FiniteSets

CONSTANTS
  Tasks,
  Filters,     \* the --status selectors in use: sets of statuses
  Scopes,      \* what the other selectors pick: sets of tasks
  Reports,     \* what an action report may name as shipped: sets of tasks
  Absent,      \* the file is not there
  MaxTouched   \* bound: tasks that others touch while mark-shipped runs

Statuses == {"todo", "blocked", "done"}   \* backlog, in_progress and disabled behave like todo here

ASSUME DispatchAssumption ==
  /\ Filters \subseteq SUBSET Statuses
  /\ Scopes \subseteq SUBSET Tasks
  /\ Reports \subseteq SUBSET Tasks /\ Absent \notin Reports
  /\ MaxTouched \in Nat

VARIABLES
  status,
  questions,   \* tasks tagged kind:decision
  blocked_by,
  index,       \* the tasks that the folder's INDEX.md lists
  briefs,      \* the tasks that an NN-*.md in the folder names: no export removes one
  reported,    \* the tasks that the action report's Outcome names as shipped
  sweep,       \* mark-shipped: what it is at, and its locals
  touched      \* history: since it began, tasks that were moved or tagged, whose
               \* brief was written, or that a report written meanwhile concerns

boardVars == <<status, questions, blocked_by>>
folderVars == <<index, briefs, reported>>
dispatchVars == <<boardVars, folderVars, sweep, touched>>

Resting == [at |-> "rest"]
ListJob == [at : {"list"}]
ReportJob == [at : {"report"}, listed : SUBSET Tasks]
BoardJob == [at : {"board"}, listed : SUBSET Tasks, named : SUBSET Tasks]
MoveJob == [at : {"move"}, left : SUBSET Tasks, force : BOOLEAN]

DispatchTypeOK ==
  /\ status \in [Tasks -> Statuses]
  /\ questions \subseteq Tasks
  /\ blocked_by \in [Tasks -> SUBSET Tasks]
  /\ \A t \in Tasks : t \notin blocked_by[t]
  /\ briefs \subseteq Tasks
  /\ index \in {Absent} \cup SUBSET Tasks
  /\ reported \in {Absent} \cup Reports
  /\ sweep \in {Resting} \cup ListJob \cup ReportJob \cup BoardJob \cup MoveJob
  /\ touched \subseteq Tasks

DispatchInit ==
  /\ status = [t \in Tasks |-> "todo"]
  /\ questions = {}
  /\ blocked_by = [t \in Tasks |-> {}]
  /\ index = Absent
  /\ briefs = {}
  /\ reported = Absent
  /\ sweep = Resting
  /\ touched = {}
-----------------------------------------------------------------------------
(* the operator and the builders *)

\* A report names a task, or there is none, and every task counts as shipped.
Names(report, t) == report = Absent \/ t \in report

\* History: a step that concerns some tasks, while mark-shipped runs or not.
Touch(ts) ==
  /\ touched' = IF sweep = Resting THEN {} ELSE touched \cup ts
  /\ Cardinality(touched') <= MaxTouched

\* task move, task link, a link that an import takes away, and the tag.
Operate ==
  /\ \E t \in Tasks :
       \/ /\ \E s \in Statuses \ {status[t]} : status' = [status EXCEPT ![t] = s]
          /\ Touch({t})
          /\ UNCHANGED <<questions, blocked_by>>
       \/ /\ \/ \E b \in Tasks \ {t} : blocked_by' = [blocked_by EXCEPT ![t] = @ \cup {b}]
             \/ \E b \in blocked_by[t] : blocked_by' = [blocked_by EXCEPT ![t] = @ \ {b}]
          /\ UNCHANGED <<status, questions, touched>>
       \/ /\ questions' = IF t \in questions THEN questions \ {t} ELSE questions \cup {t}
          /\ Touch({t})
          /\ UNCHANGED <<status, blocked_by>>
  /\ UNCHANGED <<folderVars, sweep>>

\* The action report names some tasks as shipped, of this dispatch or not.
\* Whoever reads it while it is written may miss what both versions name.
Report ==
  /\ briefs # {}
  /\ reported' \in Reports
  /\ Touch({t \in Tasks : Names(reported, t) \/ t \in reported'})
  /\ UNCHANGED <<boardVars, index, briefs, sweep>>
-----------------------------------------------------------------------------
(* plan to-dispatch *)

Selected(scope, filter) == {t \in scope : status[t] \in filter}

\* The questions that the selectors matched and that are not handed out:
\* neither --include-decisions nor --tag kind:decision was given.
Dropped(selected, include) == IF include THEN {} ELSE selected \cap questions

\* Mutant: only the tasks waiting for a question that has not been begun.
GatedUnbegun(tasks, dropped) == {t \in tasks : \E b \in blocked_by[t] \cap dropped : status[b] = "todo"}

\* The tasks that would lose a blocker that is one of the dropped.
Gated(tasks, dropped) == {t \in tasks : blocked_by[t] \cap dropped # {}}

\* A set of tasks that is closed under its in-set dependencies and has one
\* for each: recompute_waves raises (module Waves).
Cyclic(tasks) == \E S \in SUBSET tasks : S # {} /\ \A t \in S : blocked_by[t] \cap S # {}

\* One gated task, or no task, or a cycle, and nothing is exported.
Exportable(tasks, dropped) == Gated(tasks, dropped) = {} /\ tasks # {} /\ ~Cyclic(tasks)

\* The slices that can be exported; a refused export writes nothing and is no step.
Slices ==
  {tasks \in SUBSET Tasks : \E scope \in Scopes, filter \in Filters, include \in BOOLEAN :
     LET selected == Selected(scope, filter)
         dropped  == Dropped(selected, include)
     IN tasks = selected \ dropped /\ Exportable(tasks, dropped)}

\* Lanes are packed before the first file is written, INDEX.md comes last.
\* The report beside the folder is left.
Export ==
  /\ \E tasks \in Slices : /\ index' = tasks
                           /\ briefs' = briefs \cup tasks
                           /\ Touch(tasks)
  /\ UNCHANGED <<boardVars, reported, sweep>>

\* A kill leaves a part of the briefs, and the file that was being written may
\* name its task no longer, or not list all of them.
ExportCut ==
  /\ \E tasks \in Slices :
       /\ \/ \E some \in SUBSET tasks : \E torn \in {{}} \cup {{t} : t \in tasks \ some} :
               briefs' = (briefs \cup some) \ torn /\ index' = index
          \/ briefs' = briefs \cup tasks /\ index' \in SUBSET tasks
       /\ Touch(tasks)
  /\ UNCHANGED <<boardVars, reported, sweep>>
-----------------------------------------------------------------------------
(* plan mark-shipped *)

\* INDEX.md is there.
MarkShipped ==
  /\ sweep = Resting
  /\ index # Absent
  /\ sweep' = [at |-> "list"]
  /\ UNCHANGED <<boardVars, folderVars, touched>>

\* Mutant: the briefs that INDEX.md lists.
BriefsInIndex == IF index = Absent THEN {} ELSE briefs \cap index

\* _dispatch_brief_filenames: every brief on disk, listed or not.
Briefs == briefs

\* Without a brief the command ends.
ListBriefs ==
  /\ sweep.at = "list"
  /\ IF Briefs = {}
       THEN sweep' = Resting /\ touched' = {}
       ELSE sweep' = [at |-> "report", listed |-> Briefs] /\ UNCHANGED touched
  /\ UNCHANGED <<boardVars, folderVars>>

ReadReport ==
  /\ sweep.at = "report"
  /\ sweep' = [at |-> "board", listed |-> sweep.listed, named |-> {t \in Tasks : Names(reported, t)}]
  /\ UNCHANGED <<boardVars, folderVars, touched>>

\* The tasks to close, of one replay: no questions, blocked ones only with --force.
Swept(ts, force) ==
  {t \in ts \ questions : status[t] # "done" /\ (status[t] = "blocked" => force)}

ReadBoard ==
  /\ sweep.at = "board"
  /\ \E force \in BOOLEAN :
       sweep' = [at |-> "move", left |-> Swept(sweep.listed \cap sweep.named, force), force |-> force]
  /\ UNCHANGED <<boardVars, folderVars, touched>>

\* One store.update; it does not look again.
Sweep ==
  /\ sweep.at = "move"
  /\ \E t \in sweep.left :
       /\ status' = [status EXCEPT ![t] = "done"]
       /\ sweep' = [sweep EXCEPT !.left = @ \ {t}]
  /\ UNCHANGED <<questions, blocked_by, folderVars, touched>>

EndSweep ==
  /\ sweep.at = "move" /\ sweep.left = {}
  /\ sweep' = Resting
  /\ touched' = {}
  /\ UNCHANGED <<boardVars, folderVars>>

\* It is killed, or does not get the board's lock in time.
SweepCut ==
  /\ sweep # Resting
  /\ sweep' = Resting
  /\ touched' = {}
  /\ UNCHANGED <<boardVars, folderVars>>

DispatchNext ==
  \/ Operate \/ Report \/ Export \/ ExportCut
  \/ MarkShipped \/ ListBriefs \/ ReadReport \/ ReadBoard \/ Sweep \/ EndSweep \/ SweepCut

DispatchSpec == DispatchInit /\ [][DispatchNext]_dispatchVars
-----------------------------------------------------------------------------
(* Properties *)

OpenQuestions == {t \in questions : status[t] # "done"}

\* Everything that t waits for through tasks that are not done: the least set
\* with its blockers that is closed under theirs.
WaitsFor(t) ==
  {b \in Tasks : \A S \in SUBSET Tasks :
     /\ blocked_by[t] \subseteq S
     /\ \A s \in S : status[s] # "done" => blocked_by[s] \subseteq S
     => b \in S}

\* Nothing is handed to a builder that waits, at any distance, for an open
\* question which is not handed out with it.
NothingDownstreamOfAQuestion ==
  [][dispatchVars' # dispatchVars /\ Export => \A t \in index' : WaitsFor(t) \cap OpenQuestions \subseteq index']_dispatchVars

\* mark-shipped closes what it should and nothing else, whatever the operator,
\* the builders and exports do while it looks at the folder, the report and the
\* board: of the tasks that none of them touches meanwhile it closes only build
\* work with a brief that the report, if there is one, names, blocked ones with
\* --force alone; and when it ends none such is left, listed in INDEX.md or not.
SweepIsExact ==
  [][LET Due(t) == t \in briefs \ questions /\ Names(reported, t)
         Kept(t) == status[t] = "blocked" /\ ~sweep.force
     IN
     /\ Sweep => \A t \in Tasks \ touched : status'[t] # status[t] => Due(t) /\ ~Kept(t)
     /\ EndSweep => \A t \in Tasks \ touched : Due(t) => status[t] = "done" \/ Kept(t)]_dispatchVars
=============================================================================

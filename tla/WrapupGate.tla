----------------------------- MODULE WrapupGate -----------------------------
(***************************************************************************)
(* taskman/wrapup.py and `taskman wrapup open | gate | record`.            *)
(*                                                                         *)
(* The gate compares what has changed since the session's anchor with what *)
(* the open tasks claim, lists the tasks the session has left in progress, *)
(* and takes off both lists what the session's receipt clears.  It asks    *)
(* git twice for the changes, by three commands each time, and reads the   *)
(* board twice and the receipt once, with no lock, while people and peers  *)
(* edit, add, commit and move tasks.                                       *)
(*                                                                         *)
(* Paths are whole files, so "claimed" is membership.  A change that is    *)
(* undone still counts as one, and no path leaves the index.  Options that *)
(* name a marker, a session or a commit by hand (--marker, --session-id,   *)
(* --since of gate) are left out.                                          *)
(***************************************************************************)
EXTENDS Sessions

CONSTANTS
  Path,       \* files of the checkout that the gate does not ignore
  Task,
  Claims,     \* brief.files of each task
  Proofed,    \* tasks with a verify command or an operator to ask
  Told,       \* sessions whose shell has WRAPUP_SESSION_MARKER
  MaxHead     \* bound: commits

ASSUME WrapupAssumption ==
  /\ Claims \in [Task -> SUBSET Path]
  /\ Proofed \subseteq Task
  /\ Told \subseteq Session
  /\ Clearable = Path \cup Task
  /\ MaxHead \in Nat

VARIABLES
  committed,  \* the last commit that changed each path, 0 for none
  tracked,    \* paths in git's index
  dirty,      \* paths changed and not committed, untracked ones included
  task,       \* per task its status, and when it was last claimed or updated
  stirred     \* history: since the gate of a runner began, tasks moved, and
              \* files added to the index between the last two git commands of a list

treeVars == <<committed, tracked, dirty>>
wrapupVars == <<treeVars, task, stirred>>
vars == <<sessionVars, wrapupVars>>

\* "todo" stands for backlog, todo and blocked.
Statuses == {"todo", "in_progress", "done"}
OPEN_STATUSES == {"todo", "in_progress"}

\* The locals of run_gate.  again: in the second call of changed_paths.  due:
\* history, what had changed since the anchor the session asked for when the
\* gate began.
GatePhases == {"head", "tree", "untracked", "claims", "stale", "receipt"}

GateJob ==
  [at : GatePhases, again : BOOLEAN,
   whose : Session, anchor : Anchor, changed : SUBSET Clearable, left : SUBSET Clearable,
   due : SUBSET Path]

Gating(r) == job[r].at \in GatePhases

\* record: about to truncate, then to fill, the receipt of a session.
RecordJob == [at : {"save", "saved"}, whose : Session, cleared : SUBSET Clearable]

Job == HookJob \cup GateJob \cup RecordJob

TypeOK ==
  /\ SessionsTypeOK(Job)
  /\ committed \in [Path -> Nat]
  /\ tracked \subseteq Path /\ dirty \subseteq Path
  /\ task \in [Task -> [status : Statuses, touched : Nat]]
  /\ stirred \in [Runner -> SUBSET Clearable]

Init ==
  /\ SessionsInit
  /\ committed = [p \in Path |-> 0]
  /\ tracked \in SUBSET Path /\ dirty = {}
  /\ task = [t \in Task |-> [status |-> "todo", touched |-> 0]]
  /\ stirred = [r \in Runner |-> {}]
-----------------------------------------------------------------------------
(* load_marker *)

Present == {q \in Session : marker[q] # Absent}

\* The marker a shell of s uses: its own if it was told of it, else the newest.
MarkersFor(s) ==
  IF s \in Told THEN {s} \cap Present
  ELSE {q \in Present : \A o \in Present : marker[o].updated <= marker[q].updated}

Shells == Runner \ Hosts

\* Steps that read or work on the runner's locals.
Local == UNCHANGED <<now, head, marker, receipt, calls, kills, beat, root, astray>>
-----------------------------------------------------------------------------
(* wrapup open *)

\* cmd_wrapup_open, with the session's own id: a new anchor, HEAD unless given.
Open(r, sha) ==
  LET s == Owner[r]
      anchor == [sha |-> sha, started |-> now]
  IN
  /\ r \in Shells
  /\ Begin(r)
  /\ job' = [job EXCEPT ![r] = Rewriting([sha |-> sha, started |-> now, updated |-> now],
                                        "open", "idle")]
  /\ astray' = IF Races(s, r, anchor) THEN astray \cup {s} ELSE astray
  /\ UNCHANGED <<now, head, marker, receipt, kills, beat, root, wrapupVars>>
-----------------------------------------------------------------------------
(* wrapup gate *)

\* git diff sha..HEAD
CommittedSince(sha) == {p \in Path : committed[p] > sha}

\* git diff sha: tracked paths whose file differs from the commit's.
TrackedSince(sha) == {p \in tracked : p \in dirty \/ committed[p] > sha}

\* git ls-files --others
Untracked == dirty \ tracked

\* History: what has changed since a commit.
ChangedSince(sha) == CommittedSince(sha) \cup dirty

\* run_gate loads the marker.  A torn or missing one ends the command with exit 2.
Gate(r) ==
  /\ r \in Shells
  /\ Begin(r)
  /\ \E q \in MarkersFor(Owner[r]) :
       /\ Whole(q)
       /\ job' = [job EXCEPT ![r] =
            [at |-> "head", again |-> FALSE, whose |-> q, anchor |-> AnchorOf(marker[q]),
             changed |-> {}, left |-> {}, due |-> ChangedSince(root[Owner[r]].sha)]]
  /\ stirred' = [stirred EXCEPT ![r] = {}]
  /\ UNCHANGED <<now, head, marker, receipt, kills, beat, root, astray, treeVars, task>>

\* changed_paths asks git three times: for what was committed, ...
DiffHead(r) ==
  /\ job[r].at = "head"
  /\ job' = [job EXCEPT ![r].left = CommittedSince(job[r].anchor.sha), ![r].at = "tree"]
  /\ Local
  /\ UNCHANGED wrapupVars

\* ... for what differs in the working tree, ...
DiffTree(r) ==
  /\ job[r].at = "tree"
  /\ job' = [job EXCEPT ![r].left = @ \cup TrackedSince(job[r].anchor.sha), ![r].at = "untracked"]
  /\ Local
  /\ UNCHANGED wrapupVars

\* ... and for the untracked files.  This is run_gate's own list.
ListChanged(r) ==
  /\ job[r].at = "untracked" /\ ~job[r].again
  /\ job' = [job EXCEPT ![r].changed = job[r].left \cup Untracked, ![r].left = {},
                        ![r].again = TRUE, ![r].at = "head"]
  /\ Local
  /\ UNCHANGED wrapupVars

\* unattributed_paths calls changed_paths again ...
RelistChanged(r) ==
  /\ job[r].at = "untracked" /\ job[r].again
  /\ job' = [job EXCEPT ![r].left = @ \cup Untracked, ![r].at = "claims"]
  /\ Local
  /\ UNCHANGED wrapupVars

\* Mutant: every task's claims count.
ClaimedByAny == UNION {Claims[t] : t \in Task}

\* open_task_claims
Claimed == UNION {Claims[t] : t \in {u \in Task : task[u].status \in OPEN_STATUSES}}

\* ... and takes off what open tasks claim.
Attribute(r) ==
  /\ job[r].at = "claims"
  /\ job' = [job EXCEPT ![r].left = @ \ Claimed, ![r].at = "stale"]
  /\ Local
  /\ UNCHANGED wrapupVars

\* task_touched_this_session
TouchedThisSession(t, started, changed) ==
  task[t].touched >= started \/ Claims[t] \cap changed # {}

\* stale_candidates replays the board once more.
FindStale(r) ==
  /\ job[r].at = "stale"
  /\ job' = [job EXCEPT
       ![r].left = @ \cup {t \in Task : /\ task[t].status = "in_progress"
                                        /\ TouchedThisSession(t, job[r].anchor.started, job[r].changed)},
       ![r].at = "receipt"]
  /\ Local
  /\ UNCHANGED wrapupVars

\* apply_receipt: what is left on the two lists.
Remaining(r) == job[r].left \ receipt[job[r].whose]

\* exit 0
GatePasses(r) ==
  /\ job[r].at = "receipt"
  /\ Remaining(r) = {}
  /\ job' = [job EXCEPT ![r] = Idle]
  /\ stirred' = [stirred EXCEPT ![r] = {}]
  /\ Local
  /\ UNCHANGED <<treeVars, task>>

\* exit 1
GateBlocks(r) ==
  /\ job[r].at = "receipt"
  /\ Remaining(r) # {}
  /\ job' = [job EXCEPT ![r] = Idle]
  /\ stirred' = [stirred EXCEPT ![r] = {}]
  /\ Local
  /\ UNCHANGED <<treeVars, task>>
-----------------------------------------------------------------------------
(* wrapup record *)

\* The receipt with one entry set.  A verdict "done" without the proof the task
\* needs replaces what was there and clears nothing.
Entered(s, x, clears) == IF clears THEN receipt[s] \cup {x} ELSE receipt[s] \ {x}

\* cmd_wrapup_record reads the marker and the receipt.
Record(r, x, clears) ==
  /\ r \in Shells
  /\ Begin(r)
  /\ clears \/ x \in Proofed
  /\ \E q \in MarkersFor(Owner[r]) :
       /\ Whole(q)
       /\ job' = [job EXCEPT ![r] =
            [at |-> "save", whose |-> q, cleared |-> Entered(q, x, clears)]]
  /\ UNCHANGED <<now, head, marker, receipt, kills, beat, root, astray>>
  /\ UNCHANGED wrapupVars

\* save_receipt truncates the file ...
OpenReceipt(r) ==
  /\ job[r].at = "save"
  /\ receipt' = [receipt EXCEPT ![job[r].whose] = {}]
  /\ job' = [job EXCEPT ![r].at = "saved"]
  /\ UNCHANGED <<now, head, marker, calls, kills, beat, root, astray, wrapupVars>>

\* ... and fills it.
WriteReceipt(r) ==
  /\ job[r].at = "saved"
  /\ receipt' = [receipt EXCEPT ![job[r].whose] = job[r].cleared]
  /\ job' = [job EXCEPT ![r] = Idle]
  /\ UNCHANGED <<now, head, marker, calls, kills, beat, root, astray, wrapupVars>>
-----------------------------------------------------------------------------
(* the checkout and the board, changed by anyone *)

Edit(p) ==
  /\ dirty' = dirty \cup {p}
  /\ UNCHANGED <<sessionVars, committed, tracked, task, stirred>>

\* git add of a new file.
Add(p) ==
  /\ p \in Untracked
  /\ tracked' = tracked \cup {p}
  /\ stirred' = [r \in Runner |-> IF job[r].at = "untracked" THEN stirred[r] \cup {p} ELSE stirred[r]]
  /\ UNCHANGED <<sessionVars, committed, dirty, task>>

\* A commit of changed paths; one of ignored paths only moves HEAD.
Commit(ps) ==
  /\ head < MaxHead
  /\ ps \subseteq dirty \cap tracked
  /\ head' = head + 1
  /\ committed' = [p \in Path |-> IF p \in ps THEN head + 1 ELSE committed[p]]
  /\ dirty' = dirty \ ps
  /\ UNCHANGED <<now, marker, receipt, job, calls, kills, beat, root, astray, tracked, task, stirred>>

\* A task is claimed, moved or edited.
Move(t, status) ==
  /\ task' = [task EXCEPT ![t] = [status |-> status, touched |-> now]]
  /\ stirred' = [r \in Runner |-> IF Gating(r) THEN stirred[r] \cup {t} ELSE {}]
  /\ UNCHANGED <<sessionVars, treeVars>>

WrapupStep(r) ==
  \/ \E sha \in 0 .. head : Open(r, sha)
  \/ Gate(r)
  \/ DiffHead(r) \/ DiffTree(r) \/ ListChanged(r) \/ RelistChanged(r)
  \/ Attribute(r) \/ FindStale(r)
  \/ GatePasses(r) \/ GateBlocks(r)
  \/ \E x \in Clearable, clears \in BOOLEAN : Record(r, x, clears)
  \/ OpenReceipt(r) \/ WriteReceipt(r)

Next ==
  \/ \E r \in Runner : \/ HookStep(r) /\ UNCHANGED wrapupVars
                       \/ WrapupStep(r)
  \/ Tick /\ UNCHANGED wrapupVars
  \/ \E p \in Path : Edit(p) \/ Add(p)
  \/ \E ps \in SUBSET Path : Commit(ps)
  \/ \E t \in Task, status \in Statuses : Move(t, status)

Spec == Init /\ [][Next]_vars
-----------------------------------------------------------------------------
(* A guard or a notice never takes for dead a peer that has run a command  *)
(* within the window, less the time a heartbeat may be skipped, and whose  *)
(* marker it can read.                                                     *)
PeersAreSeen ==
  [][\A r \in Runner, q \in Session :
       (/\ job[r].at = "look" /\ q \in job[r].todo
        /\ job'[r].at = "look" /\ q \notin job'[r].todo
        /\ Whole(q)
        /\ now <= beat[q] + PeerLive - Heartbeat)
       => q \in job'[r].peers]_vars

(* Heartbeats, resumes, compactions, sweeps by others and wrap-up commands *)
(* never move a session's anchor past the one it last asked for, unless    *)
(* two rewrites with different anchors overlap or a resume cannot read the *)
(* marker.                                                                 *)
AnchorHolds ==
  \A s \in Session \ astray :
    Whole(s) => marker[s].sha <= root[s].sha /\ marker[s].started <= root[s].started

(* When the gate passes, everything that had changed since the session's   *)
(* anchor when the gate began is cleared by the receipt or claimed by an   *)
(* open task, and every task the session has left in progress is cleared,  *)
(* whatever was edited, added, committed or recorded meanwhile.  Excepted  *)
(* are tasks moved while the gate was reading, and new files added to the  *)
(* index between the diff of the working tree and the list of untracked    *)
(* files, which neither of the two shows.                                  *)
PassMeansSettled ==
  [][\A r \in Runner :
       LET s == Owner[r]
           cleared == receipt[s] \cup stirred[r]
       IN
       (job[r].at = "receipt" /\ job'[r] = Idle /\ Remaining(r) = {} /\ s \in Told \ astray)
       => /\ \A p \in job[r].due :
               \/ p \in cleared
               \/ \E t \in Task : p \in Claims[t] /\ (task[t].status \in OPEN_STATUSES \/ t \in cleared)
          /\ \A t \in Task :
               (/\ task[t].status = "in_progress"
                /\ task[t].touched >= root[s].started \/ Claims[t] \cap (job[r].due \ stirred[r]) # {})
               => t \in cleared]_vars
=============================================================================

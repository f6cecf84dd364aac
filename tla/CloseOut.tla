------------------------------ MODULE CloseOut ------------------------------
(***************************************************************************)
(* taskman/mow/closeout.py and the five checks it runs: the gate before    *)
(* the row of a plan becomes `shipped`.                                    *)
(*                                                                         *)
(* The checks read the files of the plan one after the other, some of them *)
(* several times, while agents, hooks and the operator go on writing them. *)
(* A step is one reading.  Every error is collected; one is enough to      *)
(* refuse.  Errors about the form of a file are one flag of its content.   *)
(***************************************************************************)
EXTENDS Registry

CONSTANTS
  Closing,     \* the plan that is closed
  Closer,      \* the desks that close it
  Brief,       \* its briefs, each with one lane and one task on the board
  Torn,        \* a file that does not parse
  NoDir,       \* a repository with .taskman.toml and without a board
  Drafts,      \* for each file, the contents that are written
  Fresh,       \* the contents to begin with
  MaxWrites    \* bound: writes of the files

Files == {"plan", "report", "index", "briefs", "records", "tracker", "board"}

ASSUME CloseOutAssumption ==
  /\ Closing \in Stem /\ Closer \subseteq Desk
  /\ MaxWrites \in Nat
  /\ \A content \in Fresh : DOMAIN content = Files /\ \A f \in Files : content[f] \in Drafts[f]

VARIABLES
  doc,         \* the content of each file
  writes,      \* writes so far
  touched      \* history: the files written since the gate at a desk began

closeOutVars == <<registryVars, doc, writes, touched>>

\* The steps of the gate, in their order.
Steps == {"report", "linked", "verdict", "digest", "tracker", "resolve", "lanes", "records", "briefs", "na",
          "tasks", "outcome", "findings", "triage", "gate"}

CloseOutTypeOK ==
  /\ RegistryTypeOK
  /\ \A d \in Closer : desk[d].at \in Steps => desk[d].stem \in Stem /\ desk[d].ok \in BOOLEAN
  /\ DOMAIN doc = Files
  /\ LET drafts == Drafts IN \A f \in Files : doc[f] \in drafts[f] \cup {None}
  /\ writes \in Nat
  /\ touched \in [Desk -> SUBSET Files]

(* plan.md        a version, or None                                       *)
(* action-report  None, or [form, review, waiver, na, outcome, triage]     *)
(* INDEX.md       None, or [linked, points]: what each lane's row points at*)
(* briefs         what the QA contract of each brief asks for              *)
(* records        for each lane None or [filled, honors, answers]          *)
(* tracker.json   None, Torn, or [status, settled, findings]               *)
(* board          None, NoDir, or [tasks, filed]                           *)
CloseOutInit ==
  /\ rows = [s \in Stem |-> "running"]
  /\ desk = [d \in Desk |-> Idle]
  /\ flips = 0
  /\ doc \in Fresh
  /\ writes = 0
  /\ touched = [d \in Desk |-> {}]
-----------------------------------------------------------------------------
(* what the checks look for *)

\* check_action_report: frontmatter, sections, the lines of Verify, diffstats.
Written(report) == report # None /\ report.form = "whole"

Linked(index) == index # None /\ index.linked

\* Mutant: a waiver without a reason counts.
WaivedAny(report) == report.waiver # "none"

\* One waiver for the critical finding, with a reason.
Waived(report) == report.waiver = "reasoned"

\* check_ship_check, on the report and the plan it finds.
Verdict(report, plan) ==
  /\ plan # None
  /\ report # None
  /\ report.review # None
  /\ report.review.plan = plan
  /\ report.review.misses = 0 \/ Waived(report)

\* check_tracker._walk, and run_status; no tracker is no run.
Finished(tracker) ==
  \/ tracker = None
  \/ tracker # Torn /\ tracker.status = "shipped" /\ tracker.settled

Findings(tracker) == IF tracker \in {None, Torn} THEN {} ELSE tracker.findings

\* _unresolved_findings: without a board nothing is looked up.
Resolved(cited, board) == board \in {None, NoDir} \/ cited \subseteq board.filed

\* check_record: all pointers of the row are honored, and of what the brief
\* asks for something is answered.
Recorded(record, points, asked) ==
  /\ record # None
  /\ record.filled
  /\ points \subseteq record.honors
  /\ asked = {} \/ asked \cap record.answers # {}

\* Only what the Outcome defers is left out.
Excused(b, report) == report # None /\ report.outcome[b] = "deferred"

\* check_board_sync, on the briefs, the first and the second reading of the
\* report, and the board.
Delivered(briefs, na, board, report) ==
  \/ board = None
  \/ DOMAIN briefs = {}
  \/ /\ ~na
     /\ board # NoDir
     /\ \A b \in DOMAIN briefs :
          /\ board.tasks[b] # None
          /\ board.tasks[b] \in {"done", "decision"} \/ Excused(b, report)
-----------------------------------------------------------------------------
(* the gate *)

Job(d) == desk[d]

\* The gate goes on to the next reading, with what it has to remember.
Then(d, step, ok, kept) ==
  /\ Go(d, [at |-> step, stem |-> Closing, status |-> "shipped", ok |-> Job(d).ok /\ ok, kept |-> kept])
  /\ UNCHANGED <<rows, flips, doc, writes, touched>>

\* main: the row is to become `shipped`.
Ship(d) ==
  /\ desk[d] = Idle
  /\ Go(d, [at |-> "report", stem |-> Closing, status |-> "shipped", ok |-> TRUE, kept |-> None])
  /\ touched' = [touched EXCEPT ![d] = {}]
  /\ UNCHANGED <<rows, flips, doc, writes>>

\* check_action_report.  Without a report it returns.
CheckReport(d) ==
  /\ At(d, "report")
  /\ Then(d, IF doc["report"] = None THEN "tracker" ELSE "linked", Written(doc["report"]), doc["report"])

\* The verdict is not sought if an error says "missing" of the report: a part
\* of it is, or the line in INDEX that links it.
CheckLink(d) ==
  LET skip == Job(d).kept.form = "lacking" \/ (doc["index"] # None /\ ~Linked(doc["index"])) IN
  At(d, "linked") /\ Then(d, IF skip THEN "tracker" ELSE "verdict", Linked(doc["index"]), None)

\* check_ship_check: the report, then the digest of the plan.
ReadVerdict(d) == At(d, "verdict") /\ Then(d, "digest", TRUE, doc["report"])
CheckVerdict(d) == At(d, "digest") /\ Then(d, "tracker", Verdict(Job(d).kept, doc["plan"]), None)

\* check_tracker: the board page, then the ids of its findings.
CheckTracker(d) ==
  /\ At(d, "tracker")
  /\ Then(d, IF Findings(doc["tracker"]) = {} THEN "lanes" ELSE "resolve",
          Finished(doc["tracker"]), Findings(doc["tracker"]))
CheckFindings(d) == At(d, "resolve") /\ Then(d, "lanes", Resolved(Job(d).kept, doc["board"]), None)

\* check_verification: INDEX, then brief and record of lane after lane.
ReadLanes(d) ==
  /\ At(d, "lanes")
  /\ IF doc["index"] = None THEN Then(d, "briefs", FALSE, None)
                            ELSE Then(d, "records", TRUE, doc["index"].points)
CheckRecord(d) ==
  LET points == Job(d).kept
      Asked(b) == IF b \in DOMAIN doc["briefs"] THEN doc["briefs"][b] ELSE {}
  IN
  /\ At(d, "records")
  /\ IF DOMAIN points = {}
       THEN Then(d, "briefs", TRUE, None)
       ELSE \E b \in DOMAIN points :
              Then(d, "records", Recorded(doc["records"][b], points[b], Asked(b)),
                   [c \in DOMAIN points \ {b} |-> points[c]])

\* check_board_sync: the briefs, the report, the board and the report again.
ReadBriefs(d) == At(d, "briefs") /\ Then(d, "na", TRUE, [briefs |-> doc["briefs"]])
ReadNa(d) ==
  /\ At(d, "na")
  /\ Then(d, "tasks", TRUE, [briefs |-> Job(d).kept.briefs,
                             na |-> doc["report"] # None /\ doc["report"].na])
ReadTasks(d) ==
  /\ At(d, "tasks")
  /\ Then(d, "outcome", TRUE, [briefs |-> Job(d).kept.briefs, na |-> Job(d).kept.na,
                               board |-> doc["board"]])
CheckBoardSync(d) ==
  LET k == Job(d).kept IN
  At(d, "outcome") /\ Then(d, "findings", Delivered(k.briefs, k.na, k.board, doc["report"]), None)

\* run_closeout: the findings are read again, and their triage must be told.
ReadFindings(d) ==
  /\ At(d, "findings")
  /\ Then(d, IF Findings(doc["tracker"]) = {} THEN "gate" ELSE "triage", TRUE, None)
CheckTriage(d) ==
  At(d, "triage") /\ Then(d, "gate", doc["report"] # None /\ doc["report"].triage, None)

\* main: any error refuses the flip.
DecideFlip(d) ==
  /\ At(d, "gate")
  /\ Go(d, IF Job(d).ok THEN [at |-> "rows", stem |-> Closing, status |-> "shipped"] ELSE Idle)
  /\ UNCHANGED <<rows, flips, doc, writes, touched>>

\* What can be written, and where.
Revision == UNION {{<<f, content>> : content \in Drafts[f]} : f \in Files}

\* Agents, hooks, board commands and the operator write the files.
Write(f, content) ==
  /\ writes' = writes + 1
  /\ content # doc[f]
  /\ doc' = [doc EXCEPT ![f] = content]
  /\ touched' = [d \in Desk |-> IF desk[d] = Idle THEN {} ELSE touched[d] \cup {f}]
  /\ UNCHANGED registryVars

Gate(d) ==
  \/ Ship(d) \/ CheckReport(d) \/ CheckLink(d) \/ ReadVerdict(d) \/ CheckVerdict(d)
  \/ CheckTracker(d) \/ CheckFindings(d) \/ ReadLanes(d) \/ CheckRecord(d)
  \/ ReadBriefs(d) \/ ReadNa(d) \/ ReadTasks(d) \/ CheckBoardSync(d)
  \/ ReadFindings(d) \/ CheckTriage(d) \/ DecideFlip(d)

CloseOutNext ==
  \/ \E d \in Closer :
       \/ Gate(d)
       \/ (ReadRows(d) \/ WriteRow(d)) /\ UNCHANGED <<doc, writes, touched>>
  \/ writes < MaxWrites /\ \E r \in Revision : Write(r[1], r[2])

CloseOutSpec == CloseOutInit /\ [][CloseOutNext]_closeOutVars
-----------------------------------------------------------------------------
(* Properties *)

\* What a plan that has shipped promises, each with the files it is about.
Promises == {
  [name |-> "reported",  on |-> {"report", "index"}],
  [name |-> "reviewed",  on |-> {"report", "plan"}],
  [name |-> "finished",  on |-> {"tracker"}],
  [name |-> "filed",     on |-> {"tracker", "board"}],
  [name |-> "triaged",   on |-> {"tracker", "report"}],
  [name |-> "verified",  on |-> {"index", "briefs", "records"}],
  [name |-> "delivered", on |-> {"briefs", "board", "report"}]}

Ran == doc["tracker"] \notin {None, Torn}
HasBoard == doc["board"] \notin {None, NoDir}

\* The promise is kept by the files as they are.
Kept(name) ==
  LET report == doc["report"] IN
  CASE name = "reported"  -> report # None /\ report.form = "whole" /\ doc["index"].linked
    [] name = "reviewed"  -> /\ report.review.plan = doc["plan"]
                             /\ report.review.misses > 0 => report.waiver = "reasoned"
    [] name = "finished"  -> Ran => doc["tracker"].status = "shipped" /\ doc["tracker"].settled
    [] name = "filed"     -> Ran /\ HasBoard => doc["tracker"].findings \subseteq doc["board"].filed
    [] name = "triaged"   -> Ran /\ doc["tracker"].findings # {} => report.triage
    [] name = "verified"  ->
         \A b \in DOMAIN doc["index"].points :
           /\ doc["index"].points[b] \subseteq doc["records"][b].honors
           /\ b \in DOMAIN doc["briefs"] /\ doc["briefs"][b] # {}
                => doc["briefs"][b] \cap doc["records"][b].answers # {}
    [] name = "delivered" ->
         HasBoard => \A b \in DOMAIN doc["briefs"] :
           doc["board"].tasks[b] \in {"done", "decision"} \/ report.outcome[b] = "deferred"

(* When the flip that passed the gate writes `shipped`, whatever the plan  *)
(* promises of files that nobody has written since the gate began is so:   *)
(* the gate does not mistake a plan that is not finished for one that is,  *)
(* however its many readings fall between the writes of others.            *)
ShippedMeansFit ==
  [][\A d \in Desk : At(d, "flip") /\ desk'[d] = Idle /\ desk[d].status = "shipped" =>
       \A p \in Promises : p.on \cap touched[d] = {} => Kept(p.name)]_closeOutVars
=============================================================================

----------------------------- MODULE Preflight ------------------------------
(***************************************************************************)
(* taskman/mow/preflight.py, with hydrate_specs.py and                     *)
(* check_grill_writeback.py: the gate before the lanes of a plan are sent  *)
(* out.                                                                    *)
(*                                                                         *)
(* Several plans are prepared and run in one checkout.  The gate reads the *)
(* plan's own INDEX and briefs, the table of plans and the INDEX of each   *)
(* other plan that is under way, one file after the other, while other     *)
(* desks write them.  Errors are collected; one is enough to refuse.       *)
(* What is only warned of, and the form of markdown, is left out.          *)
(***************************************************************************)
EXTENDS Registry, SequencesExt

CONSTANTS
  Lane,        \* lanes, each with one brief
  Wave,        \* waves
  Pointer,     \* rows of the board that an INDEX can point at
  Decision,    \* those that are decisions
  Touches,     \* decisions_touching: the paths that the tags of a decision match
  Setups,      \* what the files hold to begin with, and what is used up of the bounds
  Redrafts,    \* what a folder is rewritten to
  MaxEdits     \* bound: writes of the folders and of the board

Active == {"planned", "running", "paused"}

\* A path is a sequence of names; what the table of lanes owns are paths.  A
\* brief names a wave or none.
FolderOK(f) ==
  f # None =>
    /\ \A l \in DOMAIN f.rows : f.rows[l].files \subseteq Seq(STRING)
    /\ \A l \in DOMAIN f.briefs : f.briefs[l].wave \in Wave \cup {None}

ASSUME PreflightAssumption ==
  /\ Decision \subseteq Pointer
  /\ MaxEdits \in Nat
  /\ None \notin Wave /\ None \notin Status
  /\ \A start \in Setups :
       /\ start.rows \in [Stem -> Status \cup {None}]
       /\ start.folder = [s \in Stem |-> start.folder[s]]
       /\ \A s \in Stem : FolderOK(start.folder[s])
       /\ start.board \subseteq Pointer
       /\ start.flips \in Nat /\ start.edits \in Nat
  /\ \A f \in Redrafts : FolderOK(f)

VARIABLES
  folder,      \* each plan's dispatch folder, or None: [grilled, rows, waves, briefs]
  hydrated,    \* each plan's hydrated-specs.md: the pointers of each lane, or None
  board,       \* the rows the board has
  edits,       \* writes so far
  passed,      \* plans whose last preflight has passed
  loose,       \* history: plans rewritten, not under way or not seen since their checks began
  known        \* history: the board when each plan passed

preflightVars == <<registryVars, folder, hydrated, board, edits, passed, loose, known>>

(* rows    lane -> [files, points, waived, plain]: the table of lanes      *)
(* waves   wave -> lanes: the bullets                                      *)
(* briefs  lane -> [wave, scope, cites, full]                              *)

\* The steps of the gate, in their order.
Checking == {"row", "grill", "hydrate", "briefs", "plans", "others"}

PreflightTypeOK ==
  /\ RegistryTypeOK
  /\ \A d \in Desk :
       /\ desk[d].at \in Checking => desk[d].stem \in Stem /\ desk[d].ok \in BOOLEAN
       /\ desk[d].at = "others" => desk[d].others \subseteq Stem \ {desk[d].stem}
  /\ folder = [s \in Stem |-> folder[s]] /\ \A s \in Stem : FolderOK(folder[s])
  /\ hydrated = [s \in Stem |-> hydrated[s]]
  /\ board \subseteq Pointer
  /\ edits \in Nat
  /\ passed \subseteq Stem /\ loose \subseteq Stem
  /\ known \in [Stem -> SUBSET Pointer]

PreflightInit ==
  /\ \E start \in Setups :
       /\ rows = start.rows /\ folder = start.folder /\ board = start.board
       /\ flips = start.flips /\ edits = start.edits
  /\ desk = [d \in Desk |-> Idle]
  /\ hydrated = [s \in Stem |-> None]
  /\ passed = {}
  /\ loose = {}
  /\ known = [s \in Stem |-> {}]
-----------------------------------------------------------------------------
(* what the checks look for *)

\* paths_overlap: the same path, or one is a directory that holds the other.
PathsOverlap(a, b) == IsPrefix(a, b) \/ IsPrefix(b, a)

Overlap(A, B) == \E a \in A, b \in B : PathsOverlap(a, b)

\* _split_lanes_table, parse_files_owned: what the rows of an INDEX own.
Owned(index) == UNION {index.rows[l].files : l \in DOMAIN index.rows}

\* parse_wave_bullets
Bullets(index, w) == index.waves[w]

\* wave_lanes_from_briefs
FromBriefs(index, briefs, w) == {l \in DOMAIN index.rows \cap DOMAIN briefs : briefs[l].wave = w}

\* check_same_wave_overlap: the brief's wave, and the bullets for lanes whose
\* brief has none.
Effective(index, briefs, w) ==
  FromBriefs(index, briefs, w) \cup
    {l \in Bullets(index, w) : \A v \in Wave : l \notin FromBriefs(index, briefs, v)}

\* The lanes that are compared: wave by wave, or all if no wave can be read.
Compared(index, briefs) ==
  LET groups == {Effective(index, briefs, w) : w \in Wave} \ {{}}
  IN IF groups = {} THEN {DOMAIN index.rows} ELSE groups

SameWaveOverlap(index, briefs) ==
  \E g \in Compared(index, briefs) : \E l, m \in g \cap DOMAIN index.rows :
    l # m /\ Overlap(index.rows[l].files, index.rows[m].files)

\* check_thin_brief: a section is lacking or empty.
Thin(brief) == ~brief.full

\* No brief, a thin one, or check_brief_index_drift.
Drifted(index, briefs) ==
  \/ DOMAIN briefs = {}
  \/ \E l \in DOMAIN briefs : Thin(briefs[l])
  \/ \E l \in DOMAIN index.rows : l \notin DOMAIN briefs \/ briefs[l].scope # index.rows[l].files

\* all_decisions_specs_dash
Dashes(index) ==
  \A l \in DOMAIN index.rows :
    index.rows[l].points = {} /\ index.rows[l].waived = {} /\ index.rows[l].plain

\* check_index_decisions_pointer_only: no text, no id without its kind.
Plain(index) == \A l \in DOMAIN index.rows : index.rows[l].plain

\* resolve_entries: each pointer is a row of the board.
Resolves(index, has) == \A l \in DOMAIN index.rows : index.rows[l].points \subseteq has

\* check_pointer_citations, for a lane whose brief is there
Cited(index, briefs) ==
  \A l \in DOMAIN index.rows \cap DOMAIN briefs : index.rows[l].points \subseteq briefs[l].cites

\* Mutant: a decision that is pointed at anywhere in the plan is handled.
HandledAnywhere(index, l) == UNION {index.rows[m].points \cup index.rows[m].waived : m \in DOMAIN index.rows}

\* check_decision_candidates: accepted (parse_pointer_cell) or waived
\* (parse_waived) in the lane's own cell.
Accepted(index, l) == index.rows[l].points
WaivedOff(index, l) == index.rows[l].waived
Handled(index, l) == Accepted(index, l) \cup WaivedOff(index, l)

Scope(index, briefs, l) ==
  IF l \in DOMAIN briefs /\ briefs[l].scope # {} THEN briefs[l].scope ELSE index.rows[l].files

Candidates(index, briefs, l, has) ==
  {c \in has \cap Decision : Touches[c] \cap Scope(index, briefs, l) # {}}
-----------------------------------------------------------------------------
(* the gate *)

Index(s) == [grilled |-> folder[s].grilled, rows |-> folder[s].rows, waves |-> folder[s].waves]

Unwritten == <<rows, flips, folder, board, edits, loose>>
Verdicts == <<passed, known>>

\* The desks at which plan s is being checked.
CheckedAt(s) == {d \in Desk : desk[d].at \in Checking /\ desk[d].stem = s}

\* The gate goes on with the INDEX it has read first, and then with the briefs
\* too.
Onward(d, step, ok) ==
  Go(d, [at |-> step, stem |-> desk[d].stem, ok |-> desk[d].ok /\ ok, index |-> desk[d].index])

Abroad(d, ok, others) ==
  Go(d, [at |-> "others", stem |-> desk[d].stem, index |-> desk[d].index, briefs |-> desk[d].briefs,
         ok |-> desk[d].ok /\ ok, others |-> others])

\* run_preflight reads INDEX; without one it refuses at once.
Start(d, s) ==
  /\ desk[d] = Idle
  /\ flips < MaxFlips
  /\ flips' = flips + 1
  /\ passed' = passed \ {s}
  /\ loose' = IF rows[s] \notin Active THEN loose \cup {s}
              ELSE IF CheckedAt(s) = {} THEN loose \ {s} ELSE loose
  /\ Go(d, IF folder[s] = None THEN Idle
           ELSE [at |-> "row", stem |-> s, ok |-> TRUE, index |-> Index(s)])
  /\ UNCHANGED <<rows, folder, hydrated, board, edits, known>>

\* registry_status: only a row that says `shipped` skips the grill gate.
ReadOwnRow(d) ==
  /\ At(d, "row")
  /\ \E seen \in RowsRead(d) :
       Onward(d, IF seen[desk[d].stem] = "shipped" THEN "hydrate" ELSE "grill", TRUE)
  /\ UNCHANGED <<Unwritten, hydrated, Verdicts>>

\* check_grill_writeback reads INDEX again.
CheckGrill(d) ==
  LET f == folder[desk[d].stem] IN
  /\ At(d, "grill")
  /\ Onward(d, "hydrate", f # None /\ f.grilled)
  /\ UNCHANGED <<Unwritten, hydrated, Verdicts>>

\* hydrate_stem, if there is a pointer: INDEX again, the board, and what the
\* lanes are to read.  Of what is not plain it refuses an id without its kind
\* and lets other text pass.
Hydrate(d) ==
  LET s == desk[d].stem
      f == folder[s]
  IN
  /\ At(d, "hydrate")
  /\ IF Dashes(desk[d].index)
       THEN Onward(d, "briefs", TRUE) /\ UNCHANGED hydrated
     ELSE \/ /\ f # None /\ Resolves(f, board)
             /\ hydrated' = [hydrated EXCEPT ![s] = [l \in DOMAIN f.rows |-> f.rows[l].points]]
             /\ Onward(d, "briefs", TRUE)
          \/ /\ f # None => ~(Resolves(f, board) /\ Plain(f))
             /\ Onward(d, "briefs", FALSE)
             /\ UNCHANGED hydrated
  /\ UNCHANGED <<Unwritten, Verdicts>>

\* The briefs, and what follows from them and INDEX alone.
CheckBriefs(d) ==
  LET j == desk[d]
      briefs == IF folder[j.stem] = None THEN [l \in {} |-> None] ELSE folder[j.stem].briefs
  IN
  /\ At(d, "briefs")
  /\ Go(d, [at |-> "plans", stem |-> j.stem, index |-> j.index, briefs |-> briefs,
            ok |-> /\ j.ok
                   /\ ~Drifted(j.index, briefs)
                   /\ ~SameWaveOverlap(j.index, briefs)
                   /\ Plain(j.index) /\ Cited(j.index, briefs)])
  /\ UNCHANGED <<Unwritten, hydrated, Verdicts>>

\* Mutants: a plan is among the others; only plans that are running count.
UnderWayAll(seen, s) == {t \in Stem : seen[t] \in Active}
UnderWayRunning(seen, s) == {t \in Stem \ {s} : seen[t] = "running"}

\* The other plans that are under way, by the table as it was read.
UnderWay(seen, s) == {t \in Stem \ {s} : seen[t] \in Active}

\* check_cross_plan_overlap: the table of plans.  Read while a flip has it
\* truncated it names no plan.
ReadPlans(d) ==
  /\ At(d, "plans")
  /\ \E seen \in RowsRead(d) :
       /\ Abroad(d, TRUE, UnderWay(seen, desk[d].stem))
       /\ loose' = IF seen = rows THEN loose ELSE loose \cup {desk[d].stem}
  /\ UNCHANGED <<rows, flips, folder, hydrated, board, edits, Verdicts>>

\* The INDEX of one of them.
ReadOther(d) ==
  /\ At(d, "others")
  /\ \E t \in desk[d].others :
       Abroad(d, folder[t] = None \/ ~Overlap(Owned(desk[d].index), Owned(folder[t])), desk[d].others \ {t})
  /\ UNCHANGED <<Unwritten, hydrated, Verdicts>>

\* check_decision_candidates, on the board; then the verdict.
CheckDecisions(d) ==
  LET j == desk[d]
      handled == \A l \in DOMAIN j.index.rows :
                   Candidates(j.index, j.briefs, l, board) \subseteq Handled(j.index, l)
  IN
  /\ At(d, "others")
  /\ j.others = {}
  /\ IF j.ok /\ handled
       THEN passed' = passed \cup {j.stem} /\ known' = [known EXCEPT ![j.stem] = board]
       ELSE UNCHANGED Verdicts
  /\ Go(d, Idle)
  /\ UNCHANGED <<Unwritten, hydrated>>

Preflight(d) ==
  \/ \E s \in Stem : Start(d, s)
  \/ ReadOwnRow(d) \/ CheckGrill(d) \/ Hydrate(d) \/ CheckBriefs(d)
  \/ ReadPlans(d) \/ ReadOther(d) \/ CheckDecisions(d)

\* A plan pass writes a folder: what was checked before no longer counts.
Redraft(s, f) ==
  /\ edits < MaxEdits
  /\ f # folder[s]
  /\ edits' = edits + 1
  /\ folder' = [folder EXCEPT ![s] = f]
  /\ loose' = loose \cup {s}
  /\ UNCHANGED <<registryVars, hydrated, board, Verdicts>>

\* A plan pass adds the plan's row.
Register(s) ==
  /\ edits < MaxEdits
  /\ rows[s] = None
  /\ edits' = edits + 1
  /\ rows' = [rows EXCEPT ![s] = "planned"]
  /\ UNCHANGED <<desk, flips, folder, hydrated, board, Verdicts, loose>>

\* The board gets another row.
Decide(p) ==
  /\ edits < MaxEdits
  /\ p \notin board
  /\ edits' = edits + 1
  /\ board' = board \cup {p}
  /\ UNCHANGED <<registryVars, folder, hydrated, Verdicts, loose>>

\* A flip; a plan whose row then says that it is not under way is not seen.
FlipRow(d) ==
  /\ \/ ReadRows(d) \/ WriteRow(d)
     \/ \E s \in Stem, status \in Status : Flip(d, s, status)
  /\ loose' = loose \cup {s \in Stem : rows'[s] \notin Active}
  /\ UNCHANGED <<folder, hydrated, board, edits, Verdicts>>

PreflightNext ==
  \/ \E d \in Desk : Preflight(d) \/ FlipRow(d)
  \/ \E s \in Stem : Register(s) \/ \E f \in Redrafts : Redraft(s, f)
  \/ \E p \in Pointer : Decide(p)

PreflightSpec == PreflightInit /\ [][PreflightNext]_preflightVars
-----------------------------------------------------------------------------
(* Properties *)

(* Two plans that have passed own no common path, if neither was written   *)
(* since its preflight began and both were under way in the table: of two  *)
(* that are checked at the same time, at least one sees the other.         *)
RunsAreDisjoint ==
  \A s, t \in passed \ loose : s # t =>
    \A p \in Owned(folder[s]), q \in Owned(folder[t]) : ~PathsOverlap(p, q)

\* The waves in which a lane goes out.
WavesOf(f, l) ==
  IF f.briefs[l].wave # None THEN {f.briefs[l].wave} ELSE {w \in Wave : l \in f.waves[w]}

\* Two lanes go out together: in a wave, or because no wave is named at all.
Together(f, l, m) ==
  \/ WavesOf(f, l) \cap WavesOf(f, m) # {}
  \/ \A w \in Wave : f.waves[w] = {} /\ \A k \in DOMAIN f.rows : f.briefs[k].wave # w

(* A plan that has passed and was not written since is sound: it was       *)
(* grilled, lanes that go out together write no common path, each lane has *)
(* its brief with the same paths, what it must honor is a row of the board,*)
(* cited there and in the file its agent reads, and no decision that the   *)
(* board had and that is about its paths has gone unanswered.              *)
PassMeansSound ==
  \A s \in passed \ loose :
    LET f == folder[s] IN
    f.grilled /\ \A l \in DOMAIN f.rows :
      /\ f.briefs[l].scope = f.rows[l].files
      /\ \A m \in DOMAIN f.rows \ {l} : Together(f, l, m) =>
           \A p \in f.briefs[l].scope, q \in f.briefs[m].scope : p # q /\ ~IsStrictPrefix(p, q)
      /\ f.rows[l].points \subseteq board \cap f.briefs[l].cites
      /\ f.rows[l].points # {} => hydrated[s][l] = f.rows[l].points
      /\ \A c \in known[s] \cap Decision : Touches[c] \cap f.rows[l].files # {} =>
           c \in f.rows[l].points \cup f.rows[l].waived
=============================================================================

------------------------------- MODULE Lessons ------------------------------
(***************************************************************************)
(* skills/wrap-up/scripts/log_lesson.py: lessons are staged, counted and   *)
(* routed in one markdown file.                                            *)
(*                                                                         *)
(* A run of the script reads the file, changes what it has read, truncates *)
(* the file and writes it whole; nothing is locked, and a run can be       *)
(* killed at any point.  Who reads a truncated file finds no heading and   *)
(* writes nothing.  The operator deletes by hand.                          *)
(***************************************************************************)
EXTENDS Naturals, FiniteSets, FiniteSetsExt

CONSTANTS
  Scribe,      \* places from which the script is run
  MaxLessons,  \* bound: lessons
  MaxActs,     \* bound: recurrences, routes, deletions by hand and kills
  Empty        \* the file is truncated

VARIABLES
  file,        \* LESSONS.md: the staged entries, the rows of the ledger
  scribe,      \* what each run of the script has to write, and whether it has truncated the file
  told,        \* lessons given to the script so far
  acts,        \* recurrences, routes, deletions and kills so far
  crossed,     \* history: lessons written while a run had the older file in hand, or repeated
  pruned,      \* history: the highest id was deleted by hand
  killed,      \* history: a run was killed between truncation and write
  kept         \* history: what the runs have said of each lesson

lessonsVars == <<file, scribe, told, acts, crossed, pruned, killed, kept>>

Lesson == 1 .. MaxLessons

\* tail: the entry stands in what is left of a longer text at the end of the
\* file.  Rows of a ledger and pieces of entries there are plain text and left
\* out, with the ids in them that next_id would still count.
StagedEntry == [id : Nat \ {0}, lesson : Lesson, seen : Nat \ {0}, tail : BOOLEAN]
LessonsFile == [staged : SUBSET StagedEntry, ledger : SUBSET [id : Nat \ {0}, lesson : Lesson]]
Saying == [id : Nat \ {0}, lesson : Lesson, seen : Nat \ {0}, place : {"staged", "ledger", "deleted"}]

\* What a run has in hand: the text it will write, and what it says.
Hand == [after : LessonsFile, said : Saying, open : BOOLEAN]

ASSUME LessonsAssumption == MaxLessons \in Nat /\ MaxActs \in Nat /\ Empty \notin LessonsFile

LessonsTypeOK ==
  /\ file \in LessonsFile \cup {Empty}
  /\ scribe \in [Scribe -> SUBSET Hand]
  /\ told \in 0 .. MaxLessons /\ acts \in Nat
  /\ crossed \subseteq Lesson
  /\ pruned \in BOOLEAN /\ killed \in BOOLEAN
  /\ kept \subseteq Saying

LessonsInit ==
  /\ file = [staged |-> {}, ledger |-> {}]
  /\ scribe = [w \in Scribe |-> {}]
  /\ told = 0 /\ acts = 0
  /\ crossed = {}
  /\ pruned = FALSE /\ killed = FALSE
  /\ kept = {}

\* ANY_ID_RE
Ids(f) == {e.id : e \in f.staged} \cup {r.id : r \in f.ledger}

\* Mutant: only the staged entries are looked at.
NextIdStaged(f) == 1 + (IF f.staged = {} THEN 0 ELSE Max({e.id : e \in f.staged}))

\* next_id
NextId(f) == 1 + (IF Ids(f) = {} THEN 0 ELSE Max(Ids(f)))

\* A run has read the file, will write `after` and say `said`.
Hold(w, after, said) ==
  /\ file # Empty
  /\ scribe[w] = {}
  /\ scribe' = [scribe EXCEPT ![w] = {[after |-> after, said |-> said, open |-> FALSE]}]
  /\ UNCHANGED <<file, crossed, pruned, killed, kept>>

\* new_entry
Stage(w) ==
  /\ file # Empty
  /\ told < MaxLessons
  /\ told' = told + 1
  /\ LET id == NextId(file)
         entry == [id |-> id, lesson |-> told + 1, seen |-> 1, tail |-> FALSE]
     IN Hold(w, [file EXCEPT !.staged = @ \cup {entry}],
             [id |-> id, lesson |-> told + 1, seen |-> 1, place |-> "staged"])
  /\ UNCHANGED acts

\* A lesson with a destination goes to the ledger at once.
LedgerRow(w) ==
  /\ file # Empty
  /\ told < MaxLessons
  /\ told' = told + 1
  /\ LET id == NextId(file)
     IN Hold(w, [file EXCEPT !.ledger = @ \cup {[id |-> id, lesson |-> told + 1]}],
             [id |-> id, lesson |-> told + 1, seen |-> 1, place |-> "ledger"])
  /\ UNCHANGED acts

\* What an id can find: the first entry that has it.
FirstWithId == {e \in file.staged : e.tail => \A g \in file.staged : g.id = e.id => g.tail}

\* bump
Bump(w) ==
  /\ file # Empty
  /\ acts < MaxActs
  /\ acts' = acts + 1
  /\ \E e \in FirstWithId :
       Hold(w, [file EXCEPT !.staged = (@ \ {e}) \cup {[e EXCEPT !.seen = @ + 1]}],
            [id |-> e.id, lesson |-> e.lesson, seen |-> e.seen + 1, place |-> "staged"])
  /\ UNCHANGED told

\* route
Route(w) ==
  /\ file # Empty
  /\ acts < MaxActs
  /\ acts' = acts + 1
  /\ \E e \in FirstWithId :
       Hold(w, [staged |-> file.staged \ {e},
                ledger |-> file.ledger \cup {[id |-> e.id, lesson |-> e.lesson]}],
            [id |-> e.id, lesson |-> e.lesson, seen |-> e.seen, place |-> "ledger"])
  /\ UNCHANGED told

\* write_text truncates the file ...
OpenLessons(w) ==
  /\ \E h \in scribe[w] : ~h.open /\ scribe' = [scribe EXCEPT ![w] = {[h EXCEPT !.open = TRUE]}]
  /\ file' = Empty
  /\ UNCHANGED <<told, acts, crossed, pruned, killed, kept>>

\* What can be left of a text when a shorter one is written over it: entries
\* at its end, where the older ones are.
Ends(f) ==
  {end \in SUBSET f.staged :
     \A e \in end, g \in f.staged : ~e.tail /\ (g.tail \/ g.id <= e.id) => g \in end}

\* ... and writes at its start.  If another run has written since, the end of
\* that text may stay.  Whoever else has the file in hand will undo the lesson.
WriteLessons(w) ==
  /\ \E h \in scribe[w] : \E end \in IF file = Empty THEN {{}} ELSE Ends(file) :
       /\ h.open
       /\ file' = [h.after EXCEPT !.staged = @ \cup {[e EXCEPT !.tail = TRUE] : e \in end}]
       /\ kept' = {k \in kept : k.lesson # h.said.lesson} \cup {h.said}
       /\ crossed' = crossed \cup {e.lesson : e \in end}
                      \cup {n \in {h.said.lesson} : \E v \in Scribe \ {w} : scribe[v] # {}}
  /\ scribe' = [scribe EXCEPT ![w] = {}]
  /\ UNCHANGED <<told, acts, pruned, killed>>

\* A run is killed.
KillScribe(w) ==
  /\ acts < MaxActs
  /\ acts' = acts + 1
  /\ scribe[w] # {}
  /\ killed' = (killed \/ \E h \in scribe[w] : h.open)
  /\ scribe' = [scribe EXCEPT ![w] = {}]
  /\ UNCHANGED <<file, told, crossed, pruned, kept>>

\* A staged entry that was never general enough is deleted by hand.
Prune ==
  /\ file # Empty
  /\ acts < MaxActs
  /\ acts' = acts + 1
  /\ \E e \in file.staged :
       /\ file' = [file EXCEPT !.staged = @ \ {e}]
       /\ kept' = {IF k.lesson = e.lesson THEN [k EXCEPT !.place = "deleted"] ELSE k : k \in kept}
       /\ pruned' = (pruned \/ e.id = Max(Ids(file)))
       /\ crossed' = IF \E v \in Scribe : scribe[v] # {} THEN crossed \cup {e.lesson} ELSE crossed
  /\ UNCHANGED <<scribe, told, killed>>

LessonsNext ==
  \/ \E w \in Scribe : \/ Stage(w) \/ LedgerRow(w) \/ Bump(w) \/ Route(w)
                        \/ OpenLessons(w) \/ WriteLessons(w) \/ KillScribe(w)
  \/ Prune

LessonsSpec == LessonsInit /\ [][LessonsNext]_lessonsVars
-----------------------------------------------------------------------------
(* Properties *)

\* The rows of the file that are about lesson n.
About(S, n) == {x \in S : x.lesson = n}

(* What a run has said of a lesson stays in the file, whatever other runs  *)
(* write: the lesson is there once, under its id, with the times it was    *)
(* seen until it is routed and in the ledger from then on.  Excepted are a *)
(* lesson written while another run had the older file in hand, and one    *)
(* that is repeated because a longer text was written between another      *)
(* run's truncation and its write.  No two lessons kept so get one id,     *)
(* unless the newest entry was deleted by hand.  The file is empty only    *)
(* while a run is writing it or after a run was killed doing so.           *)
LessonsAreKept ==
  /\ file = Empty => killed \/ \E w \in Scribe : \E h \in scribe[w] : h.open
  /\ file # Empty =>
       \A k \in kept : k.lesson \notin crossed =>
         /\ About(file.staged, k.lesson) =
              IF k.place = "staged" THEN {[id |-> k.id, lesson |-> k.lesson, seen |-> k.seen, tail |-> FALSE]} ELSE {}
         /\ About(file.ledger, k.lesson) =
              IF k.place = "ledger" THEN {[id |-> k.id, lesson |-> k.lesson]} ELSE {}
         /\ pruned \/ \A j \in kept : j.lesson \notin crossed /\ j.id = k.id => j.lesson = k.lesson
=============================================================================

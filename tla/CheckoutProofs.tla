--------------------------- MODULE CheckoutProofs ---------------------------
(***************************************************************************)
(* Proofs about the scenes of a checkout, for any cast: the lessons, the   *)
(* ports of the boards, the close-out gate, the gate before a plan's lanes *)
(* are sent out, the directories of the tools; and, with what StampsProofs *)
(* shows of the trackers, of the checkout in which all of them go on.      *)
(***************************************************************************)
EXTENDS Checkout, StampsProofs, FiniteSetTheorems, WellFoundedInduction, TLAPS

(* The lessons                                                             *)

\* A set of numbers with a bound has a highest.
LEMMA MaxFacts ==
  ASSUME NEW T \in SUBSET Nat, T # {}, NEW b \in Nat, \A x \in T : x <= b
  PROVE  Max(T) \in T /\ \A x \in T : x <= Max(T)
<1> DEFINE U == {n \in Nat : \A x \in T : x <= n}
<1>1. U \subseteq Nat /\ b \in U
  OBVIOUS
<1>2. PICK n \in U : \A m \in U : ~ (<<m, n>> \in OpToRel(<, Nat))
  <2>1. IsWellFoundedOn(OpToRel(<, Nat), Nat)
    BY NatLessThanWellFounded, Zenon
  <2> HIDE DEF U
  <2> QED BY <1>1, <2>1, WFMin, Zenon
<1>3. \A m \in U : ~(m < n)
  BY <1>1, <1>2, Zenon DEF OpToRel
<1>4. n \in T
  <2> SUFFICES ASSUME n \notin T PROVE FALSE
    OBVIOUS
  <2>0. PICK x \in T : x <= n
    OBVIOUS
  <2>1. n # 0 /\ n \in Nat
    BY <2>0
  <2>2. n - 1 \in U
    BY <2>1
  <2> QED BY <1>3, <2>1, <2>2
<1>5. \A x \in T : x <= n
  OBVIOUS
<1> HIDE DEF U
<1>6. \A x \in T : n >= x
  BY <1>1, <1>5
<1>7. Max(T) \in T /\ \A x \in T : Max(T) >= x
  BY <1>4, <1>6 DEF Max
<1> QED BY <1>1, <1>7

Rowsof(f) == f.staged \cup f.ledger

\* No row of a file is from the future.
Past(f, n) == \A e \in Rowsof(f) : e.lesson <= n /\ e.id <= n

\* What saying k tells stands in file f.
Matches(f, k) ==
  /\ About(f.staged, k.lesson) =
       IF k.place = "staged" THEN {[id |-> k.id, lesson |-> k.lesson, seen |-> k.seen, tail |-> FALSE]} ELSE {}
  /\ About(f.ledger, k.lesson) =
       IF k.place = "ledger" THEN {[id |-> k.id, lesson |-> k.lesson]} ELSE {}

\* No row of f has the id of a lesson other than its own, crossed ones aside,
\* and the next id will be nobody's.
Apart(f, k) ==
  /\ \A e \in Rowsof(f) : e.id = k.id => e.lesson = k.lesson \/ e.lesson \in crossed
  /\ \E e \in Rowsof(f) : k.id <= e.id

\* The sayings that the property is about.
Sure == {k \in kept : k.lesson \notin crossed}

\* Lessons of which a row can stand in the file.
Spoken == crossed \cup {k.lesson : k \in kept}

\* What a run has in hand holds everything that is sure, with its own lesson,
\* if that is not crossed, as it will say.  n: the lessons given so far.
InHand(h, n) ==
  /\ Past(h.after, n)
  /\ h.said.place \in {"staged", "ledger"}
  /\ \A e \in Rowsof(h.after) : e.lesson \in Spoken \/ e.lesson = h.said.lesson
  /\ \A k \in Sure : k.lesson # h.said.lesson => Matches(h.after, k)
  /\ pruned \/ \A k \in Sure : Apart(h.after, k)
  /\ h.said.lesson \notin crossed => Matches(h.after, h.said) /\ (pruned \/ Apart(h.after, h.said))

\* The file, when it is not truncated, holds everything that is sure.
FileInv ==
  /\ Past(file, told)
  /\ \A e \in Rowsof(file) : e.lesson \in Spoken
  /\ \A k \in Sure : Matches(file, k)
  /\ pruned \/ \A k \in Sure : Apart(file, k)

LessonsInv ==
  /\ LessonsTypeOK
  /\ file = Empty => killed \/ \E w \in Scribe : \E h \in scribe[w] : h.open
  /\ file # Empty => FileInv
  /\ \A w \in Scribe : \A h \in scribe[w] : InHand(h, told)
  /\ pruned \/ \A j, k \in Sure : j.id = k.id => j.lesson = k.lesson

\* The empty lessons file satisfies the lessons invariant.
LEMMA LessonsInitOK == LessonsInit => LessonsInv
<1> SUFFICES ASSUME LessonsInit PROVE LessonsInv
  OBVIOUS
<1>1. LessonsTypeOK /\ file # Empty
  <2>1. file \in LessonsFile
    BY DEF LessonsInit, LessonsFile
  <2>2. told \in 0 .. MaxLessons /\ acts \in Nat
    BY LessonsAssumption DEF LessonsInit
  <2> QED BY <2>1, <2>2, LessonsAssumption DEF LessonsInit, LessonsTypeOK
<1>2. Rowsof(file) = {} /\ Sure = {} /\ \A w \in Scribe : scribe[w] = {}
  BY DEF LessonsInit, Rowsof, Sure
<1> QED BY <1>1, <1>2 DEF LessonsInv, FileInv, Past

\* The types the lessons proofs read off the invariant.
LEMMA TypedHands ==
  ASSUME LessonsInv
  PROVE  /\ told \in Nat /\ acts \in Nat /\ Lesson \subseteq Nat /\ kept \subseteq Saying /\ scribe \in [Scribe -> SUBSET Hand]
         /\ crossed \subseteq Lesson
         /\ file # Empty => /\ file \in LessonsFile /\ file.staged \subseteq StagedEntry
                            /\ file.ledger \subseteq [id : Nat \ {0}, lesson : Lesson]
                            /\ \A e \in Rowsof(file) : e.id \in Nat /\ e.lesson \in Nat
BY LessonsAssumption DEF LessonsInv, LessonsTypeOK, LessonsFile, Lesson, StagedEntry, Rowsof

\* The next id is past every id of the file.
LEMMA NextIdFacts ==
  ASSUME LessonsInv, file # Empty
  PROVE  /\ NextId(file) \in Nat \ {0} /\ NextId(file) <= told + 1
         /\ \A e \in Rowsof(file) : e.id < NextId(file)
<1> DEFINE T == Ids(file)
<1>1. T \subseteq Nat /\ told \in Nat /\ (\A x \in T : x <= told) /\ \A e \in Rowsof(file) : e.id \in T
  BY TypedHands DEF LessonsInv, FileInv, Past, Rowsof, Ids
<1>2. NextId(file) = 1 + (IF T = {} THEN 0 ELSE Max(T))
  BY DEF NextId
<1> HIDE DEF T
<1>3. CASE T = {}
  BY <1>1, <1>2, <1>3
<1>4. CASE T # {}
  <2>1. Max(T) \in T /\ \A x \in T : x <= Max(T)
    BY <1>1, <1>4, MaxFacts
  <2>2. NextId(file) = 1 + Max(T) /\ Max(T) \in Nat /\ Max(T) <= told
    BY <1>1, <1>2, <1>4, <2>1
  <2>3. ASSUME NEW e \in Rowsof(file) PROVE e.id < NextId(file)
    <3>1. e.id \in T /\ e.id \in Nat /\ e.id <= Max(T)
      BY <1>1, <2>1
    <3> QED BY <2>2, <3>1
  <2> QED BY <1>1, <2>2, <2>3
<1> QED BY <1>3, <1>4

\* More lessons given do not bring a row into the future.
LEMMA StaysPast ==
  ASSUME NEW f \in LessonsFile, NEW n \in Nat, NEW m \in Nat, n <= m, Past(f, n)
  PROVE  Past(f, m)
<1> SUFFICES ASSUME NEW e \in Rowsof(f) PROVE e.lesson <= m /\ e.id <= m
  BY DEF Past
<1>1. e.lesson \in Nat /\ e.id \in Nat
  BY LessonsAssumption DEF LessonsFile, StagedEntry, Lesson, Rowsof
<1>2. e.lesson <= n /\ e.id <= n
  BY DEF Past
<1> QED BY <1>1, <1>2

\* A run takes the file in hand.
LEMMA HoldKeeps ==
  ASSUME LessonsInv, NEW w \in Scribe, NEW after \in LessonsFile, NEW word \in Saying, Hold(w, after, word),
         told' \in 0 .. MaxLessons, acts' \in Nat, told <= told',
         InHand([after |-> after, said |-> word, open |-> FALSE], told')
  PROVE  LessonsInv'
<1> DEFINE new == [after |-> after, said |-> word, open |-> FALSE]
<1>0. new \in Hand
  BY DEF Hand
<1>1. scribe' = [scribe EXCEPT ![w] = {new}] /\ UNCHANGED <<file, crossed, pruned, killed, kept>> /\ file # Empty
  BY DEF Hold
<1>2. new.after = after /\ new.said = word /\ new.open = FALSE /\ InHand(new, told')
  OBVIOUS
<1> HIDE DEF new
<1>3. scribe'[w] = {new} /\ (\A v \in Scribe : v # w => scribe'[v] = scribe[v]) /\ scribe' \in [Scribe -> SUBSET Hand]
  BY <1>0, <1>1, TypedHands
<1>4. Sure' = Sure /\ Spoken' = Spoken
  BY <1>1 DEF Sure, Spoken
<1>5. told \in Nat /\ told' \in Nat
  BY TypedHands, LessonsAssumption
<1>6. \A f \in LessonsFile : Past(f, told) => Past(f, told')
  BY <1>5, StaysPast
<1>7. ASSUME NEW v \in Scribe, NEW h \in scribe'[v]
      PROVE  InHand(h, told)'
  <2>1. InHand(h, told')
    <3>1. CASE v = w
      BY <1>2, <1>3, <3>1
    <3>2. CASE v # w
      <4>1. InHand(h, told) /\ h.after \in LessonsFile
        BY <1>3, <3>2, TypedHands DEF LessonsInv, Hand
      <4> QED BY <1>6, <4>1 DEF InHand
    <3> QED BY <3>1, <3>2
  <2>2. \A f, k : Apart(f, k)' <=> Apart(f, k)
    BY <1>1 DEF Apart
  <2> QED BY <1>1, <1>4, <2>1, <2>2 DEF InHand
<1>8. LessonsTypeOK'
  BY <1>1, <1>3 DEF LessonsInv, LessonsTypeOK
<1>9. FileInv'
  <2>1. Past(file, told')
    BY <1>1, <1>6, TypedHands DEF LessonsInv, FileInv
  <2> QED BY <1>1, <1>4, <2>1 DEF LessonsInv, FileInv, Apart
<1> QED BY <1>1, <1>4, <1>7, <1>8, <1>9 DEF LessonsInv

\* A new row leaves what the file says of the other lessons as it was.
LEMMA AboutAdded ==
  ASSUME NEW S, NEW e, NEW m, m # e.lesson
  PROVE  About(S \cup {e}, m) = About(S, m) /\ About(S \ {e}, m) = About(S, m)
BY DEF About

\* Nobody else's id, and at least as high as every id that is known.
LEMMA NewIdApart ==
  ASSUME LessonsInv, file # Empty, NEW after \in LessonsFile, NEW e, e.id = NextId(file),
         Rowsof(after) = Rowsof(file) \cup {e}
  PROVE  /\ pruned \/ \A k \in Sure : Apart(after, k)
         /\ \A k : k.id = e.id /\ k.lesson = e.lesson => Apart(after, k)
<1>1. ASSUME ~pruned, NEW k \in Sure PROVE Apart(after, k)
  <2>1. Apart(file, k)
    BY <1>1 DEF LessonsInv, FileInv
  <2>2. PICK g \in Rowsof(file) : k.id <= g.id
    BY <2>1 DEF Apart
  <2>3. k.id \in Nat /\ g.id \in Nat /\ g.id < NextId(file) /\ NextId(file) \in Nat
    BY NextIdFacts, TypedHands DEF Sure, Saying
  <2>4. e.id # k.id
    BY <2>2, <2>3
  <2> QED BY <2>1, <2>2, <2>4 DEF Apart
<1>2. ASSUME NEW k, k.id = e.id, k.lesson = e.lesson PROVE Apart(after, k)
  <2>1. ASSUME NEW g \in Rowsof(file) PROVE g.id # k.id
    <3>1. g.id \in Nat /\ g.id < NextId(file) /\ NextId(file) \in Nat
      BY NextIdFacts, TypedHands
    <3> QED BY <1>2, <3>1
  <2>2. e \in Rowsof(after) /\ k.id <= e.id
    BY <1>2, NextIdFacts
  <2> QED BY <1>2, <2>1, <2>2 DEF Apart
<1> QED BY <1>1, <1>2

\* A step of Stage keeps LessonsInv.
LEMMA StageKeeps == ASSUME LessonsInv, NEW w \in Scribe, Stage(w) PROVE LessonsInv'
<1>1. PICK id : id = NextId(file)
  OBVIOUS
<1> DEFINE n == told + 1
           e == [id |-> id, lesson |-> n, seen |-> 1, tail |-> FALSE]
           after == [file EXCEPT !.staged = file.staged \cup {e}]
           word == [id |-> id, lesson |-> n, seen |-> 1, place |-> "staged"]
           h == [after |-> after, said |-> word, open |-> FALSE]
<1>2. file # Empty /\ told < MaxLessons /\ told' = told + 1 /\ Hold(w, after, word) /\ acts' = acts
  BY <1>1 DEF Stage
<1>3. id \in Nat \ {0} /\ id <= n /\ n \in Lesson /\ n \in Nat /\ n \in 0 .. MaxLessons
  BY <1>1, <1>2, NextIdFacts, TypedHands, LessonsAssumption DEF Lesson
<1>4. /\ after \in LessonsFile /\ word \in Saying
      /\ after.staged = file.staged \cup {e} /\ after.ledger = file.ledger
  <2>1. e \in StagedEntry /\ word \in Saying
    BY <1>3 DEF StagedEntry, Saying
  <2> HIDE DEF e, word
  <2> QED BY <1>2, <2>1, TypedHands DEF LessonsFile
<1>5. /\ e.id = id /\ e.lesson = n /\ word.id = id /\ word.lesson = n /\ word.seen = 1 /\ word.place = "staged"
      /\ e = [id |-> word.id, lesson |-> word.lesson, seen |-> word.seen, tail |-> FALSE]
      /\ h.after = after /\ h.said = word
  OBVIOUS
<1> HIDE DEF after, e, word
<1>6. \A g \in Rowsof(file) : g.lesson # n /\ g.lesson <= n /\ g.id <= n
  <2> SUFFICES ASSUME NEW g \in Rowsof(file) PROVE g.lesson # n /\ g.lesson <= n /\ g.id <= n
    OBVIOUS
  <2>1. g.id \in Nat /\ g.lesson \in Nat /\ g.lesson <= told /\ g.id <= told /\ told \in Nat
    BY <1>2, TypedHands DEF LessonsInv, FileInv, Past
  <2> QED BY <2>1
<1>7. Rowsof(after) = Rowsof(file) \cup {e}
  BY <1>4 DEF Rowsof
<1>8. Past(after, n) /\ \A g \in Rowsof(after) : g.lesson \in Spoken \/ g.lesson = word.lesson
  BY <1>2, <1>3, <1>5, <1>6, <1>7 DEF LessonsInv, FileInv, Past
<1>9. Matches(after, word)
  BY <1>4, <1>5, <1>6 DEF Matches, About, Rowsof
<1>10. \A k \in Sure : k.lesson # n => Matches(after, k)
  <2> SUFFICES ASSUME NEW k \in Sure, k.lesson # e.lesson PROVE Matches(after, k)
    BY <1>5
  <2>1. About(after.staged, k.lesson) = About(file.staged, k.lesson) /\ About(after.ledger, k.lesson) = About(file.ledger, k.lesson)
    BY <1>4, AboutAdded
  <2> QED BY <1>2, <2>1 DEF LessonsInv, FileInv, Matches
<1>11. (pruned \/ \A k \in Sure : Apart(after, k)) /\ Apart(after, word)
  BY <1>1, <1>2, <1>4, <1>5, <1>7, NewIdApart
<1>12. told' = n /\ told <= n /\ acts' \in Nat
  BY <1>2, TypedHands
<1> HIDE DEF n, h
<1>13. InHand(h, n)
  BY <1>5, <1>8, <1>9, <1>10, <1>11 DEF InHand
<1> QED BY <1>2, <1>3, <1>4, <1>12, <1>13, HoldKeeps DEF h

\* A step of LedgerRow keeps LessonsInv.
LEMMA LedgerRowKeeps == ASSUME LessonsInv, NEW w \in Scribe, LedgerRow(w) PROVE LessonsInv'
<1>1. PICK id : id = NextId(file)
  OBVIOUS
<1> DEFINE n == told + 1
           e == [id |-> id, lesson |-> n]
           after == [file EXCEPT !.ledger = file.ledger \cup {e}]
           word == [id |-> id, lesson |-> n, seen |-> 1, place |-> "ledger"]
           h == [after |-> after, said |-> word, open |-> FALSE]
<1>2. file # Empty /\ told < MaxLessons /\ told' = told + 1 /\ Hold(w, after, word) /\ acts' = acts
  BY <1>1 DEF LedgerRow
<1>3. id \in Nat \ {0} /\ id <= n /\ n \in Lesson /\ n \in Nat /\ n \in 0 .. MaxLessons
  BY <1>1, <1>2, NextIdFacts, TypedHands, LessonsAssumption DEF Lesson
<1>4. /\ after \in LessonsFile /\ word \in Saying
      /\ after.staged = file.staged /\ after.ledger = file.ledger \cup {e}
  BY <1>2, <1>3, TypedHands DEF LessonsFile, Saying
<1>5. /\ e.id = id /\ e.lesson = n /\ word.id = id /\ word.lesson = n /\ word.seen = 1 /\ word.place = "ledger"
      /\ e = [id |-> word.id, lesson |-> word.lesson]
      /\ h.after = after /\ h.said = word
  OBVIOUS
<1> HIDE DEF after, e, word
<1>6. \A g \in Rowsof(file) : g.lesson # n /\ g.lesson <= n /\ g.id <= n
  <2> SUFFICES ASSUME NEW g \in Rowsof(file) PROVE g.lesson # n /\ g.lesson <= n /\ g.id <= n
    OBVIOUS
  <2>1. g.id \in Nat /\ g.lesson \in Nat /\ g.lesson <= told /\ g.id <= told /\ told \in Nat
    BY <1>2, TypedHands DEF LessonsInv, FileInv, Past
  <2> QED BY <2>1
<1>7. Rowsof(after) = Rowsof(file) \cup {e}
  BY <1>4 DEF Rowsof
<1>8. Past(after, n) /\ \A g \in Rowsof(after) : g.lesson \in Spoken \/ g.lesson = word.lesson
  BY <1>2, <1>3, <1>5, <1>6, <1>7 DEF LessonsInv, FileInv, Past
<1>9. Matches(after, word)
  BY <1>4, <1>5, <1>6 DEF Matches, About, Rowsof
<1>10. \A k \in Sure : k.lesson # n => Matches(after, k)
  <2> SUFFICES ASSUME NEW k \in Sure, k.lesson # e.lesson PROVE Matches(after, k)
    BY <1>5
  <2>1. About(after.staged, k.lesson) = About(file.staged, k.lesson) /\ About(after.ledger, k.lesson) = About(file.ledger, k.lesson)
    BY <1>4, AboutAdded
  <2> QED BY <1>2, <2>1 DEF LessonsInv, FileInv, Matches
<1>11. (pruned \/ \A k \in Sure : Apart(after, k)) /\ Apart(after, word)
  BY <1>1, <1>2, <1>4, <1>5, <1>7, NewIdApart
<1>12. told' = n /\ told <= n /\ acts' \in Nat
  BY <1>2, TypedHands
<1> HIDE DEF n, h
<1>13. InHand(h, n)
  BY <1>5, <1>8, <1>9, <1>10, <1>11 DEF InHand
<1> QED BY <1>2, <1>3, <1>4, <1>12, <1>13, HoldKeeps DEF h

\* A row that is rewritten under its id leaves the ids as they were.
LEMMA SameIdsApart ==
  ASSUME LessonsInv, file # Empty, NEW after, NEW e \in Rowsof(file), NEW g, g.id = e.id, g.lesson = e.lesson,
         Rowsof(after) \subseteq Rowsof(file) \cup {g}, Rowsof(file) \subseteq Rowsof(after) \cup {e}, g \in Rowsof(after)
  PROVE  pruned \/ \A k \in Sure : Apart(after, k)
<1> SUFFICES ASSUME ~pruned, NEW k \in Sure PROVE Apart(after, k)
  OBVIOUS
<1>1. Apart(file, k)
  BY DEF LessonsInv, FileInv
<1> QED BY <1>1 DEF Apart

\* An entry that is not crossed is what has been said of its lesson.
LEMMA SureEntry ==
  ASSUME LessonsInv, file # Empty, NEW e \in file.staged, e.lesson \notin crossed
  PROVE  \E k \in Sure : /\ k.id = e.id /\ k.lesson = e.lesson /\ k.place = "staged"
                         /\ About(file.staged, e.lesson) = {e} /\ About(file.ledger, e.lesson) = {}
                         /\ e.tail = FALSE
<1>1. PICK k \in kept : k.lesson = e.lesson
  BY DEF LessonsInv, FileInv, Spoken, Rowsof
<1>2. k \in Sure /\ Matches(file, k) /\ e \in About(file.staged, k.lesson)
  BY <1>1 DEF LessonsInv, FileInv, Sure, About
<1>3. k.place = "staged"
  BY <1>2 DEF Matches
<1>4. PICK x : x = [id |-> k.id, lesson |-> k.lesson, seen |-> k.seen, tail |-> FALSE]
  OBVIOUS
<1>5. About(file.staged, k.lesson) = {x} /\ About(file.ledger, k.lesson) = {}
  BY <1>2, <1>3, <1>4 DEF Matches
<1>6. e = x /\ x.id = k.id /\ x.tail = FALSE
  BY <1>2, <1>4, <1>5
<1> QED BY <1>1, <1>2, <1>3, <1>5, <1>6

\* A run has an entry in hand, rewritten or moved to the ledger under its id.
LEMMA RewriteKeeps ==
  ASSUME LessonsInv, file # Empty, NEW w \in Scribe, NEW e \in file.staged,
         NEW g, g.id = e.id, g.lesson = e.lesson,
         NEW after \in LessonsFile, NEW word \in Saying, Hold(w, after, word),
         told' = told, acts' = acts + 1,
         word.id = e.id, word.lesson = e.lesson, word.place \in {"staged", "ledger"},
         \/ /\ after.staged = (file.staged \ {e}) \cup {g} /\ after.ledger = file.ledger
            /\ word.place = "staged"
            /\ e.tail = FALSE => g = [id |-> word.id, lesson |-> word.lesson, seen |-> word.seen, tail |-> FALSE]
         \/ /\ after.staged = file.staged \ {e} /\ after.ledger = file.ledger \cup {g}
            /\ word.place = "ledger" /\ g = [id |-> word.id, lesson |-> word.lesson]
  PROVE  LessonsInv'
<1> DEFINE h == [after |-> after, said |-> word, open |-> FALSE]
<1>1. h.after = after /\ h.said = word
  OBVIOUS
<1>2. /\ Rowsof(after) \subseteq Rowsof(file) \cup {g} /\ Rowsof(file) \subseteq Rowsof(after) \cup {e}
      /\ g \in Rowsof(after) /\ e \in Rowsof(file)
  BY DEF Rowsof
<1>3. Past(after, told) /\ \A x \in Rowsof(after) : x.lesson \in Spoken
  BY <1>2 DEF LessonsInv, FileInv, Past
<1>4. \A k \in Sure : k.lesson # e.lesson => Matches(after, k)
  <2> SUFFICES ASSUME NEW k \in Sure, k.lesson # e.lesson PROVE Matches(after, k)
    OBVIOUS
  <2>1. About(after.staged, k.lesson) = About(file.staged, k.lesson) /\ About(after.ledger, k.lesson) = About(file.ledger, k.lesson)
    BY DEF About
  <2> QED BY <2>1 DEF LessonsInv, FileInv, Matches
<1>5. pruned \/ \A k \in Sure : Apart(after, k)
  BY <1>2, SameIdsApart
<1>6. ASSUME word.lesson \notin crossed PROVE Matches(after, word) /\ (pruned \/ Apart(after, word))
  <2>1. PICK k \in Sure : /\ k.id = e.id /\ k.lesson = e.lesson
                          /\ About(file.staged, e.lesson) = {e} /\ About(file.ledger, e.lesson) = {} /\ e.tail = FALSE
    BY <1>6, SureEntry
  <2>2. Matches(after, word)
    BY <2>1 DEF About, Matches
  <2>3. pruned \/ Apart(after, k)
    BY <1>5
  <2> QED BY <2>1, <2>2, <2>3 DEF Apart
<1> HIDE DEF h
<1>7. InHand(h, told)
  BY <1>1, <1>3, <1>4, <1>5, <1>6 DEF InHand
<1>8. told' \in 0 .. MaxLessons /\ acts' \in Nat /\ told <= told'
  BY TypedHands DEF LessonsInv, LessonsTypeOK
<1> QED BY <1>7, <1>8, HoldKeeps DEF h

\* A step of Bump keeps LessonsInv.
LEMMA BumpKeeps == ASSUME LessonsInv, NEW w \in Scribe, Bump(w) PROVE LessonsInv'
<1>1. PICK e \in FirstWithId :
        Hold(w, [file EXCEPT !.staged = (file.staged \ {e}) \cup {[e EXCEPT !.seen = e.seen + 1]}],
             [id |-> e.id, lesson |-> e.lesson, seen |-> e.seen + 1, place |-> "staged"])
  BY DEF Bump
<1> DEFINE g == [e EXCEPT !.seen = e.seen + 1]
           after == [file EXCEPT !.staged = (file.staged \ {e}) \cup {g}]
           word == [id |-> e.id, lesson |-> e.lesson, seen |-> e.seen + 1, place |-> "staged"]
<1>2. file # Empty /\ acts' = acts + 1 /\ told' = told
  BY DEF Bump
<1>3. e \in file.staged /\ e \in StagedEntry
  BY <1>2, TypedHands DEF FirstWithId
<1>4. /\ g = [id |-> e.id, lesson |-> e.lesson, seen |-> e.seen + 1, tail |-> e.tail] /\ g.id = e.id /\ g.lesson = e.lesson
      /\ g \in StagedEntry
      /\ word.id = e.id /\ word.lesson = e.lesson /\ word.place = "staged" /\ word.seen = e.seen + 1 /\ word \in Saying
  BY <1>3 DEF Saying, StagedEntry
<1> HIDE DEF g, word
<1>5. /\ after \in LessonsFile /\ after.staged = (file.staged \ {e}) \cup {g} /\ after.ledger = file.ledger
  BY <1>2, <1>4, TypedHands DEF LessonsFile
<1>6. Hold(w, after, word)
  BY <1>1 DEF g, word
<1> HIDE DEF after
<1> QED BY <1>2, <1>3, <1>4, <1>5, <1>6, RewriteKeeps

\* A step of Route keeps LessonsInv.
LEMMA RouteKeeps == ASSUME LessonsInv, NEW w \in Scribe, Route(w) PROVE LessonsInv'
<1>1. PICK e \in FirstWithId :
        Hold(w, [staged |-> file.staged \ {e},
                 ledger |-> file.ledger \cup {[id |-> e.id, lesson |-> e.lesson]}],
             [id |-> e.id, lesson |-> e.lesson, seen |-> e.seen, place |-> "ledger"])
  BY DEF Route
<1> DEFINE g == [id |-> e.id, lesson |-> e.lesson]
           after == [staged |-> file.staged \ {e}, ledger |-> file.ledger \cup {g}]
           word == [id |-> e.id, lesson |-> e.lesson, seen |-> e.seen, place |-> "ledger"]
<1>2. file # Empty /\ acts' = acts + 1 /\ told' = told
  BY DEF Route
<1>3. e \in file.staged /\ e \in StagedEntry
  BY <1>2, TypedHands DEF FirstWithId
<1>4. /\ g.id = e.id /\ g.lesson = e.lesson /\ g \in [id : Nat \ {0}, lesson : Lesson]
      /\ word.id = e.id /\ word.lesson = e.lesson /\ word.place = "ledger" /\ word \in Saying
      /\ g = [id |-> word.id, lesson |-> word.lesson]
  BY <1>3 DEF Saying, StagedEntry
<1> HIDE DEF g, word
<1>5. /\ after \in LessonsFile /\ after.staged = file.staged \ {e} /\ after.ledger = file.ledger \cup {g}
  BY <1>2, <1>4, TypedHands DEF LessonsFile
<1>6. Hold(w, after, word)
  BY <1>1 DEF g, word
<1> HIDE DEF after
<1> QED BY <1>2, <1>3, <1>4, <1>5, <1>6, RewriteKeeps

\* A step of OpenLessons keeps LessonsInv: what the runs have in hand stays.
LEMMA OpenKeeps == ASSUME LessonsInv, NEW w \in Scribe, OpenLessons(w) PROVE LessonsInv'
<1>1. PICK h \in scribe[w] : scribe' = [scribe EXCEPT ![w] = {[h EXCEPT !.open = TRUE]}]
  BY DEF OpenLessons
<1>2. file' = Empty /\ UNCHANGED <<told, acts, crossed, pruned, killed, kept>>
  BY DEF OpenLessons
<1>3. Sure' = Sure /\ Spoken' = Spoken
  BY <1>2 DEF Sure, Spoken
<1>5. PICK x : x = [h EXCEPT !.open = TRUE]
  OBVIOUS
<1>0. h \in Hand /\ x \in Hand /\ x.after = h.after /\ x.said = h.said /\ x.open = TRUE
  <2>1. h \in Hand
    BY TypedHands
  <2> QED BY <1>5, <2>1 DEF Hand
<1>4. scribe'[w] = {x} /\ (\A v \in Scribe \ {w} : scribe'[v] = scribe[v]) /\ scribe' \in [Scribe -> SUBSET Hand]
  BY <1>0, <1>1, <1>5, TypedHands
<1>6. ASSUME NEW v \in Scribe, NEW g \in scribe'[v]
      PROVE  \E i \in scribe[v] : i.after = g.after /\ i.said = g.said
  BY <1>0, <1>4
<1>7. ASSUME NEW v \in Scribe, NEW g \in scribe'[v]
      PROVE  InHand(g, told)'
  <2>1. PICK i \in scribe[v] : i.after = g.after /\ i.said = g.said
    BY <1>6
  <2>2. InHand(i, told)
    BY DEF LessonsInv
  <2>3. \A f, k : Apart(f, k)' <=> Apart(f, k)
    BY <1>2 DEF Apart
  <2> QED BY <1>2, <1>3, <2>1, <2>2, <2>3 DEF InHand
<1>8. LessonsTypeOK'
  BY <1>2, <1>4 DEF LessonsInv, LessonsTypeOK
<1>9. \E v \in Scribe : \E g \in scribe'[v] : g.open
  BY <1>0, <1>4
<1> QED BY <1>2, <1>3, <1>7, <1>8, <1>9 DEF LessonsInv

\* What a run says it has written stands in what it has in hand.
LEMMA SaidIsThere ==
  ASSUME NEW f, NEW k, k.place \in {"staged", "ledger"}, Matches(f, k)
  PROVE  \E e \in Rowsof(f) : e.id = k.id /\ e.lesson = k.lesson
<1>1. CASE k.place = "staged"
  <2>1. PICK x : x = [id |-> k.id, lesson |-> k.lesson, seen |-> k.seen, tail |-> FALSE]
    OBVIOUS
  <2>2. x \in About(f.staged, k.lesson) /\ x.id = k.id /\ x.lesson = k.lesson
    BY <1>1, <2>1 DEF Matches
  <2> QED BY <2>2 DEF About, Rowsof
<1>2. CASE k.place = "ledger"
  <2>1. PICK x : x = [id |-> k.id, lesson |-> k.lesson]
    OBVIOUS
  <2>2. x \in About(f.ledger, k.lesson) /\ x.id = k.id /\ x.lesson = k.lesson
    BY <1>2, <2>1 DEF Matches
  <2> QED BY <2>2 DEF About, Rowsof
<1> QED BY <1>1, <1>2

\* A run writes the file it has in hand, perhaps before the end of another's
\* text; whoever else holds the file finds the lesson among the crossed ones.
LEMMA WriteLessonsKeeps == ASSUME LessonsInv, NEW w \in Scribe, WriteLessons(w) PROVE LessonsInv'
<1>1. PICK h \in scribe[w], end \in IF file = Empty THEN {{}} ELSE Ends(file) :
        /\ file' = [h.after EXCEPT !.staged = h.after.staged \cup {[e EXCEPT !.tail = TRUE] : e \in end}]
        /\ kept' = {k \in kept : k.lesson # h.said.lesson} \cup {h.said}
        /\ crossed' = crossed \cup {e.lesson : e \in end}
                       \cup {n \in {h.said.lesson} : \E v \in Scribe \ {w} : scribe[v] # {}}
  BY DEF WriteLessons
<1>2. PICK after, word : after = h.after /\ word = h.said
  OBVIOUS
<1>3. PICK tails : tails = {[e EXCEPT !.tail = TRUE] : e \in end}
  OBVIOUS
<1>4. h \in Hand /\ InHand(h, told) /\ after \in LessonsFile /\ word \in Saying
      /\ after.staged \subseteq StagedEntry /\ after.ledger \subseteq [id : Nat \ {0}, lesson : Lesson]
  <2>1. h \in Hand /\ InHand(h, told)
    BY TypedHands DEF LessonsInv
  <2> QED BY <1>2, <2>1 DEF Hand, LessonsFile
<1>5. /\ scribe' = [scribe EXCEPT ![w] = {}] /\ UNCHANGED <<told, acts, pruned, killed>>
      /\ scribe'[w] = {} /\ (\A v \in Scribe \ {w} : scribe'[v] = scribe[v]) /\ scribe' \in [Scribe -> SUBSET Hand]
  BY TypedHands DEF WriteLessons
\* What stays of the other text.
<1>6. ASSUME NEW x \in tails
      PROVE  /\ file # Empty /\ x \in StagedEntry /\ x.lesson \in crossed'
             /\ \E e \in file.staged : x.id = e.id /\ x.lesson = e.lesson
  <2>1. PICK e \in end : x = [e EXCEPT !.tail = TRUE]
    BY <1>3
  <2>2. file # Empty /\ e \in file.staged
    BY <2>1 DEF Ends
  <2>3. e \in StagedEntry
    BY <2>2, TypedHands
  <2>4. x \in StagedEntry /\ x.id = e.id /\ x.lesson = e.lesson
    BY <2>1, <2>3 DEF StagedEntry
  <2>5. e.lesson \in crossed'
    BY <1>1
  <2> QED BY <2>2, <2>4, <2>5
<1>7. /\ file' \in LessonsFile /\ file'.staged = after.staged \cup tails /\ file'.ledger = after.ledger
      /\ Rowsof(file') = Rowsof(after) \cup tails /\ file' # Empty
  <2>1. tails \subseteq StagedEntry
    BY <1>6
  <2>2. /\ file' \in LessonsFile /\ file'.staged = after.staged \cup tails /\ file'.ledger = after.ledger
    BY <1>1, <1>2, <1>3, <1>4, <2>1 DEF LessonsFile
  <2> QED BY <2>2, LessonsAssumption DEF Rowsof
<1>8. /\ crossed \subseteq crossed' /\ crossed' \subseteq Lesson
      /\ \A v \in Scribe \ {w} : scribe[v] # {} => word.lesson \in crossed'
  <2>1. ASSUME NEW n \in {e.lesson : e \in end} PROVE n \in Lesson
    <3>1. PICK e \in end : n = e.lesson
      OBVIOUS
    <3>2. file # Empty /\ e \in file.staged
      BY DEF Ends
    <3> QED BY <3>1, <3>2, TypedHands DEF StagedEntry
  <2>2. word.lesson \in Lesson /\ crossed \subseteq Lesson
    BY <1>4, TypedHands DEF Saying
  <2> QED BY <1>1, <1>2, <2>1, <2>2
<1>9. ASSUME NEW k \in Sure', k # word
      PROVE  k \in Sure /\ k.lesson # word.lesson /\ k \in Saying
  BY <1>1, <1>2, <1>8, <1>9, TypedHands DEF Sure
<1>10. Spoken \subseteq Spoken' /\ word.lesson \in Spoken'
  BY <1>1, <1>2, <1>8 DEF Spoken
<1>11. \A f, k : Apart(f, k) => Apart(f, k)'
  BY <1>8 DEF Apart
<1>12. ASSUME NEW v \in Scribe, NEW g \in scribe'[v] PROVE InHand(g, told)'
  <2>1. v # w /\ g \in scribe[v] /\ word.lesson \in crossed'
    BY <1>5, <1>8
  <2>2. InHand(g, told)
    BY <2>1 DEF LessonsInv
  <2>3. \A k \in Sure' : k \in Sure
    BY <1>9, <2>1 DEF Sure
  <2>4. g.said.lesson \notin crossed' => g.said.lesson \notin crossed
    BY <1>8
  <2> QED BY <1>5, <1>10, <1>11, <2>2, <2>3, <2>4 DEF InHand
<1>13. LessonsTypeOK'
  <2>1. kept' \subseteq Saying
    BY <1>1, <1>2, <1>4, TypedHands
  <2> QED BY <1>5, <1>7, <1>8, <2>1 DEF LessonsInv, LessonsTypeOK
<1>14. Past(file', told')
  <2>1. ASSUME NEW x \in tails PROVE x.lesson <= told /\ x.id <= told
    <3>1. file # Empty /\ \E e \in file.staged : x.id = e.id /\ x.lesson = e.lesson
      BY <1>6
    <3> QED BY <3>1 DEF LessonsInv, FileInv, Past, Rowsof
  <2> QED BY <1>2, <1>4, <1>5, <1>7, <2>1 DEF InHand, Past
<1>15. \A e \in Rowsof(file') : e.lesson \in Spoken'
  <2>1. \A x \in tails : x.lesson \in Spoken'
    BY <1>6 DEF Spoken
  <2> QED BY <1>2, <1>4, <1>7, <1>10, <2>1 DEF InHand
<1>16. ASSUME NEW k \in Sure' PROVE Matches(file', k) /\ (pruned \/ Apart(file, k)')
  <2>1. k.lesson \notin crossed' /\ k.lesson \notin crossed
    BY <1>8 DEF Sure
  <2>2. Matches(after, k) /\ (pruned \/ Apart(after, k))
    <3>1. CASE k = word
      BY <1>2, <1>4, <2>1, <3>1 DEF InHand
    <3>2. CASE k # word
      BY <1>2, <1>4, <1>9, <3>2 DEF InHand
    <3> QED BY <3>1, <3>2
  <2>3. About(file'.staged, k.lesson) = About(after.staged, k.lesson) /\ file'.ledger = after.ledger
    BY <1>6, <1>7, <2>1 DEF About
  <2>4. Matches(file', k)
    BY <2>2, <2>3 DEF Matches
  <2>5. ASSUME ~pruned PROVE Apart(file, k)'
    BY <1>6, <1>7, <1>11, <2>2, <2>5 DEF Apart
  <2> QED BY <2>4, <2>5
<1>17. FileInv'
  <2>1. pruned' \/ \A k \in Sure' : Apart(file, k)'
    BY <1>5, <1>16
  <2> QED BY <1>14, <1>15, <1>16, <2>1 DEF FileInv, Matches
<1>18. ASSUME ~pruned, NEW j \in Sure', NEW k \in Sure', j.id = k.id PROVE j.lesson = k.lesson
  <2>1. ASSUME NEW i \in Sure, i.lesson # word.lesson, i.id = word.id, word.lesson \notin crossed PROVE FALSE
    <3>1. Apart(after, i) /\ Matches(after, word) /\ word.place \in {"staged", "ledger"}
      BY <1>2, <1>4, <1>18, <2>1 DEF InHand
    <3>2. PICK e \in Rowsof(after) : e.id = word.id /\ e.lesson = word.lesson
      BY <3>1, SaidIsThere
    <3> QED BY <2>1, <3>1, <3>2 DEF Apart
  <2>2. j.lesson \notin crossed /\ k.lesson \notin crossed
    BY <1>8 DEF Sure
  <2>3. CASE j = word
    <3>1. CASE k = word
      BY <2>3, <3>1
    <3>2. CASE k # word
      BY <1>9, <1>18, <2>1, <2>2, <2>3, <3>2
    <3> QED BY <3>1, <3>2
  <2>4. CASE j # word
    <3>1. CASE k = word
      BY <1>9, <1>18, <2>1, <2>2, <2>4, <3>1
    <3>2. CASE k # word
      BY <1>9, <1>18, <2>4, <3>2 DEF LessonsInv
    <3> QED BY <3>1, <3>2
  <2> QED BY <2>3, <2>4
<1> QED BY <1>5, <1>7, <1>12, <1>13, <1>17, <1>18 DEF LessonsInv

\* A killed run leaves what it has done.
LEMMA KillKeeps == ASSUME LessonsInv, NEW w \in Scribe, KillScribe(w) PROVE LessonsInv'
<1>1. killed' = (killed \/ \E h \in scribe[w] : h.open) /\ killed' \in BOOLEAN
  BY DEF KillScribe, LessonsInv, LessonsTypeOK
<1>2. /\ scribe' = [scribe EXCEPT ![w] = {}] /\ UNCHANGED <<file, told, crossed, pruned, kept>>
      /\ acts' = acts + 1
  BY DEF KillScribe
<1>3. /\ scribe'[w] = {} /\ (\A v \in Scribe \ {w} : scribe'[v] = scribe[v]) /\ scribe' \in [Scribe -> SUBSET Hand]
  BY <1>2, TypedHands
<1>4. Sure' = Sure /\ Spoken' = Spoken
  BY <1>2 DEF Sure, Spoken
<1>5. \A f, k : Apart(f, k)' <=> Apart(f, k)
  BY <1>2 DEF Apart
<1>6. LessonsTypeOK'
  <2>1. acts' \in Nat
    BY <1>2, TypedHands
  <2> QED BY <1>1, <1>2, <1>3, <2>1 DEF LessonsInv, LessonsTypeOK
<1>7. ASSUME NEW v \in Scribe, NEW g \in scribe'[v] PROVE InHand(g, told)'
  <2>1. InHand(g, told)
    BY <1>3 DEF LessonsInv
  <2> QED BY <1>2, <1>4, <1>5, <2>1 DEF InHand
<1>8. file # Empty => FileInv'
  BY <1>2, <1>4, <1>5 DEF LessonsInv, FileInv
<1>9. ASSUME file = Empty, ~killed' PROVE \E v \in Scribe : \E g \in scribe'[v] : g.open
  <2>1. PICK v \in Scribe : \E g \in scribe[v] : g.open
    BY <1>1, <1>9 DEF LessonsInv
  <2>2. v # w
    BY <1>1, <1>9, <2>1
  <2> QED BY <1>3, <2>1, <2>2
<1> QED BY <1>2, <1>4, <1>6, <1>7, <1>8, <1>9 DEF LessonsInv

\* An entry is deleted by hand: if it is not the newest, a row as high as every
\* id that is known remains.
LEMMA PruneKeeps == ASSUME LessonsInv, Prune PROVE LessonsInv'
<1>0. file # Empty
  BY DEF Prune
<1>1. PICK e \in file.staged :
        /\ file' = [file EXCEPT !.staged = file.staged \ {e}]
        /\ kept' = {IF k.lesson = e.lesson THEN [k EXCEPT !.place = "deleted"] ELSE k : k \in kept}
        /\ pruned' = (pruned \/ e.id = Max(Ids(file)))
        /\ crossed' = IF \E v \in Scribe : scribe[v] # {} THEN crossed \cup {e.lesson} ELSE crossed
  BY DEF Prune
<1>2. acts' = acts + 1 /\ UNCHANGED <<scribe, told, killed>> /\ e \in StagedEntry /\ e.lesson \in Lesson
  BY <1>0, TypedHands DEF Prune, StagedEntry
<1>3. file' \in LessonsFile /\ file'.staged = file.staged \ {e} /\ file'.ledger = file.ledger
      /\ Rowsof(file') \subseteq Rowsof(file) /\ Rowsof(file) \subseteq Rowsof(file') \cup {e} /\ file' # Empty
  <2>1. file' \in LessonsFile /\ file'.staged = file.staged \ {e} /\ file'.ledger = file.ledger
    BY <1>0, <1>1, TypedHands DEF LessonsFile
  <2> QED BY <2>1, LessonsAssumption DEF Rowsof
<1>4. /\ crossed \subseteq crossed' /\ crossed' \subseteq Lesson
      /\ \A v \in Scribe : scribe[v] # {} => e.lesson \in crossed'
  BY <1>1, <1>2, TypedHands
\* Each saying stands for one of before.
<1>5. ASSUME NEW k \in kept'
      PROVE  /\ k \in Saying
             /\ \E i \in kept : /\ i.id = k.id /\ i.lesson = k.lesson
                                /\ IF k.lesson = e.lesson THEN k.place = "deleted" ELSE i = k
  <2>1. PICK i \in kept : k = IF i.lesson = e.lesson THEN [i EXCEPT !.place = "deleted"] ELSE i
    BY <1>1
  <2>2. i \in Saying
    BY TypedHands
  <2> QED BY <2>1, <2>2 DEF Saying
<1>6. ASSUME NEW k \in kept PROVE \E i \in kept' : i.lesson = k.lesson
  <2>1. PICK i : i = IF k.lesson = e.lesson THEN [k EXCEPT !.place = "deleted"] ELSE k
    OBVIOUS
  <2>2. k \in Saying
    BY TypedHands
  <2>3. i.lesson = k.lesson
    BY <2>1, <2>2 DEF Saying
  <2> QED BY <1>1, <2>1, <2>3
<1>7. Spoken \subseteq Spoken'
  BY <1>4, <1>6 DEF Spoken
<1>8. ASSUME NEW k \in Sure', k.lesson # e.lesson PROVE k \in Sure
  BY <1>4, <1>5, <1>8 DEF Sure
<1>9. ASSUME NEW k \in Sure' PROVE \E i \in Sure : i.id = k.id /\ i.lesson = k.lesson
  BY <1>4, <1>5 DEF Sure
<1>10. \A f, k : Apart(f, k) => Apart(f, k)'
  BY <1>4 DEF Apart
<1>11. Past(file', told') /\ \A x \in Rowsof(file') : x.lesson \in Spoken'
  BY <1>0, <1>2, <1>3, <1>7 DEF LessonsInv, FileInv, Past
<1>12. ASSUME NEW k \in Sure' PROVE Matches(file', k)
  <2>1. CASE k.lesson = e.lesson
    <3>1. k.place = "deleted" /\ k.lesson \notin crossed
      BY <1>4, <1>5, <2>1 DEF Sure
    <3>2. About(file.staged, e.lesson) = {e} /\ About(file.ledger, e.lesson) = {}
      BY <1>0, <2>1, <3>1, SureEntry
    <3>3. About(file'.staged, e.lesson) = {} /\ About(file'.ledger, e.lesson) = {}
      BY <1>3, <3>2 DEF About
    <3> QED BY <2>1, <3>1, <3>3 DEF Matches
  <2>2. CASE k.lesson # e.lesson
    <3>1. Matches(file, k)
      BY <1>0, <1>8, <2>2 DEF LessonsInv, FileInv
    <3>2. About(file'.staged, k.lesson) = About(file.staged, k.lesson) /\ file'.ledger = file.ledger
      BY <1>3, <2>2, AboutAdded
    <3> QED BY <3>1, <3>2 DEF Matches
  <2> QED BY <2>1, <2>2
<1>13. ASSUME ~pruned', NEW k \in Sure'
       PROVE  Apart(file, k)' /\ \A j \in Sure' : j.id = k.id => j.lesson = k.lesson
  <2>1. \A j \in Sure' : \E i \in Sure : i.id = j.id /\ i.lesson = j.lesson
    BY <1>9
  <2>2. PICK i \in Sure : i.id = k.id /\ i.lesson = k.lesson
    BY <2>1
  <2>3. ~pruned /\ e.id # Max(Ids(file))
    BY <1>1, <1>13
  <2>4. Apart(file, i)
    BY <1>0, <2>3 DEF LessonsInv, FileInv
  <2>5. Ids(file) \in SUBSET Nat /\ e.id \in Ids(file) /\ (\A x \in Ids(file) : x <= told)
        /\ \A g \in Rowsof(file) : g.id \in Ids(file)
    BY <1>0, TypedHands DEF LessonsInv, FileInv, Past, Rowsof, Ids
  <2>6. Max(Ids(file)) \in Ids(file) /\ \A x \in Ids(file) : x <= Max(Ids(file))
    <3>1. Ids(file) # {} /\ told \in Nat
      BY <2>5, TypedHands
    <3> QED BY <2>5, <3>1, MaxFacts
  <2>7. PICK g \in Rowsof(file) : g.id = Max(Ids(file))
    BY <2>6 DEF Ids, Rowsof
  <2>8. g \in Rowsof(file')
    BY <1>3, <2>3, <2>7
  <2>9. PICK x \in Rowsof(file) : i.id <= x.id
    BY <2>4 DEF Apart
  <2>10. x.id \in Nat /\ g.id \in Nat /\ i.id \in Nat /\ x.id <= g.id
    BY <1>0, <2>5, <2>6, <2>7, TypedHands DEF Sure, Saying
  <2>11. k.id <= g.id
    BY <2>2, <2>9, <2>10
  <2>12. Apart(file, k)'
    BY <1>3, <1>4, <2>2, <2>4, <2>8, <2>11 DEF Apart
  <2>13. \A a, b \in Sure : a.id = b.id => a.lesson = b.lesson
    BY <2>3 DEF LessonsInv
  <2> QED BY <2>1, <2>12, <2>13
<1>14. ASSUME NEW v \in Scribe, NEW h \in scribe'[v] PROVE InHand(h, told)'
  <2>1. h \in scribe[v] /\ e.lesson \in crossed'
    BY <1>2, <1>4
  <2>2. InHand(h, told)
    BY <2>1 DEF LessonsInv
  <2>3. \A k \in Sure' : k \in Sure
    BY <1>8, <2>1 DEF Sure
  <2>4. h.said.lesson \notin crossed' => h.said.lesson \notin crossed
    BY <1>4
  <2>5. pruned => pruned'
    BY <1>1
  <2> QED BY <1>2, <1>7, <1>10, <2>2, <2>3, <2>4, <2>5 DEF InHand
<1>15. LessonsTypeOK'
  <2>1. pruned' \in BOOLEAN
    BY <1>1 DEF LessonsInv, LessonsTypeOK
  <2>2. kept' \subseteq Saying /\ acts' \in Nat
    BY <1>2, <1>5, TypedHands
  <2> QED BY <1>2, <1>3, <1>4, <2>1, <2>2 DEF LessonsInv, LessonsTypeOK
<1>16. FileInv'
  <2>1. pruned' \/ \A k \in Sure' : Apart(file, k)'
    BY <1>13
  <2> QED BY <1>11, <1>12, <2>1 DEF FileInv, Matches
<1> QED BY <1>3, <1>13, <1>14, <1>15, <1>16 DEF LessonsInv

\* Every lessons step keeps the lessons invariant.
LEMMA LessonsStep == LessonsInv /\ [LessonsNext]_lessonsVars => LessonsInv'
<1> SUFFICES ASSUME LessonsInv, [LessonsNext]_lessonsVars PROVE LessonsInv'
  OBVIOUS
<1>1. CASE \E w \in Scribe : \/ Stage(w) \/ LedgerRow(w) \/ Bump(w) \/ Route(w)
                            \/ OpenLessons(w) \/ WriteLessons(w) \/ KillScribe(w)
  BY <1>1, StageKeeps, LedgerRowKeeps, BumpKeeps, RouteKeeps, OpenKeeps, WriteLessonsKeeps, KillKeeps
<1>2. CASE Prune
  BY <1>2, PruneKeeps
<1>3. CASE UNCHANGED lessonsVars
  BY <1>3 DEF lessonsVars, LessonsInv, LessonsTypeOK, FileInv, InHand, Sure, Spoken, Apart
<1> QED BY <1>1, <1>2, <1>3 DEF LessonsNext

\* The lessons invariant gives the property the run checks.
LEMMA LessonsMean == LessonsInv => LessonsAreKept
BY DEF LessonsInv, FileInv, LessonsAreKept, Sure, Matches

\* What a run of log_lesson.py has said of a lesson stays in LESSONS.md,
\* whatever other runs write, unless it was written across another run or
\* repeated by the end of a longer text; no two lessons kept so get one id,
\* unless the newest entry was deleted by hand; the file is empty only while a
\* run writes it or after a kill there.
THEOREM LessonsStay == LessonsSpec => []LessonsAreKept
BY LessonsMean, LessonsInitOK, LessonsStep, PTL DEF LessonsSpec
-----------------------------------------------------------------------------
(* The ports of the boards                                                 *)

\* The port at a step of the walk of a repository, and the step at which the
\* walk comes to a port.
Door(repo, step) == (Home[repo] + step) % Span

\* A repository's probe sequence visits every port of the span exactly once.
LEMMA DoorFacts ==
  ASSUME NEW repo \in Repo
  PROVE  /\ \A t \in 0 .. Span - 1 : Door(repo, t) \in Port
         /\ \A t, u \in 0 .. Span - 1 : Door(repo, t) = Door(repo, u) => t = u
         /\ \A p \in Port : \E t \in 0 .. Span - 1 : p = Door(repo, t)
<1>1. Home[repo] \in 0 .. Span - 1 /\ Span \in Nat \ {0}
  BY PortAssumption DEF Port
<1>2. PICK h \in 0 .. Span - 1 : h = Home[repo]
  BY <1>1
<1>3. \A t \in 0 .. Span - 1 : Door(repo, t) = IF h + t < Span THEN h + t ELSE h + t - Span
  BY <1>1, <1>2 DEF Door
<1>4. ASSUME NEW p \in Port PROVE \E t \in 0 .. Span - 1 : p = Door(repo, t)
  <2>1. CASE p >= h
    BY <1>1, <1>3, <2>1 DEF Port
  <2>2. CASE p < h
    <3>1. p - h + Span \in 0 .. Span - 1 /\ h + (p - h + Span) - Span = p /\ ~(h + (p - h + Span) < Span)
      BY <1>1, <2>2 DEF Port
    <3>2. Door(repo, p - h + Span) = p
      BY <1>3, <3>1
    <3> QED BY <3>1, <3>2
  <2> QED BY <1>1, <2>1, <2>2 DEF Port
<1>5. \A t \in 0 .. Span - 1 : Door(repo, t) \in Port
  BY <1>1, <1>3 DEF Port
<1>6. \A t, u \in 0 .. Span - 1 : Door(repo, t) = Door(repo, u) => t = u
  BY <1>1, <1>3
<1> QED BY <1>4, <1>5, <1>6

\* The first n ports of the walk are taken by the boards of others.
Beyond(srv, repo, n) == \A t \in 0 .. Span - 1 : t < n => srv[Door(repo, t)] \notin {repo, Nobody}

\* A run that still walks has only others behind it, and so has the one that
\* is about to serve; the board of a repository is at the first port that is
\* not another's.
FirstOfItsOwn(repo) ==
  /\ \A r \in Picker : RepoOf[r] = repo =>
       /\ picker[r].at = "walk" => Beyond(server, repo, picker[r].step)
       /\ picker[r].at \in {"mark", "serve"} => Beyond(server, repo, picker[r].took)
       /\ picker[r].at = "live" => server[Door(repo, picker[r].took)] = repo
  /\ \A t \in 0 .. Span - 1 : server[Door(repo, t)] = repo => Beyond(server, repo, t)

PortInv ==
  /\ PortTypeOK
  /\ deaths = 0 => \A repo \in Repo \ unheard : FirstOfItsOwn(repo)

\* Before any server starts the port invariant holds.
LEMMA PortInitOK == PortInit => PortInv
<1> SUFFICES ASSUME PortInit PROVE PortInv
  OBVIOUS
<1>1. PortTypeOK
  BY PortAssumption DEF PortInit, PortTypeOK, Port
<1>2. ASSUME NEW repo \in Repo PROVE FirstOfItsOwn(repo)
  <2>1. \A t \in 0 .. Span - 1 : server[Door(repo, t)] = Nobody /\ Nobody # repo
    BY DoorFacts, PortAssumption DEF PortInit
  <2>2. \A r \in Picker : picker[r].at = "walk" /\ picker[r].step = 0
    BY DEF PortInit
  <2>3. Beyond(server, repo, 0)
    BY DEF Beyond
  <2> QED BY <2>1, <2>2, <2>3 DEF FirstOfItsOwn
<1> QED BY <1>1, <1>2 DEF PortInv

\* At most one port can be the first.
LEMMA OneFirst ==
  ASSUME NEW repo \in Repo, FirstOfItsOwn(repo)
  PROVE  Cardinality({p \in Port : server[p] = repo}) <= 1
<1> DEFINE S == {p \in Port : server[p] = repo}
<1>1. ASSUME NEW p \in S, NEW q \in S PROVE p = q
  <2>1. PICK t \in 0 .. Span - 1 : p = Door(repo, t)
    BY DoorFacts
  <2>2. PICK u \in 0 .. Span - 1 : q = Door(repo, u)
    BY DoorFacts
  <2>3. ~(t < u) /\ ~(u < t)
    BY <2>1, <2>2 DEF FirstOfItsOwn, Beyond
  <2>4. t = u
    BY <2>3, PortAssumption
  <2> QED BY <2>1, <2>2, <2>4
<1> HIDE DEF S
<1>2. CASE S = {}
  <2>1. Cardinality(S) = 0
    BY <1>2, FS_EmptySet, Zenon
  <2> QED BY <2>1 DEF S
<1>3. CASE S # {}
  <2>1. PICK p \in S : S = {p}
    BY <1>1, <1>3
  <2>2. Cardinality(S) = 1
    BY <2>1, FS_Singleton, Zenon
  <2> QED BY <2>2 DEF S
<1> QED BY <1>2, <1>3

Stand == [at : {"walk", "mark", "serve", "prove", "live", "down"}, step : 0 .. Span, took : Port]

\* A run moves; no server starts or dies.
LEMMA MoveKeeps ==
  ASSUME PortInv, NEW r \in Picker, NEW m \in Stand, picker' = [picker EXCEPT ![r] = m],
         UNCHANGED <<server, deaths>>, marker' \subseteq Repo, unheard \subseteq unheard', unheard' \subseteq Repo,
         deaths = 0 /\ RepoOf[r] \notin unheard' =>
           /\ m.at = "walk" => Beyond(server, RepoOf[r], m.step)
           /\ m.at \in {"mark", "serve"} => Beyond(server, RepoOf[r], m.took)
           /\ m.at = "live" => server[Door(RepoOf[r], m.took)] = RepoOf[r]
  PROVE  PortInv'
<1>1. picker'[r] = m /\ (\A q \in Picker : q # r => picker'[q] = picker[q]) /\ picker' \in [Picker -> Stand]
  BY DEF PortInv, PortTypeOK, Stand
<1>2. PortTypeOK'
  BY <1>1 DEF PortInv, PortTypeOK, Stand
<1>3. \A repo, n : Beyond(server, repo, n) <=> Beyond(server', repo, n)
  BY DEF Beyond, Door
<1>4. ASSUME deaths' = 0, NEW repo \in Repo \ unheard' PROVE FirstOfItsOwn(repo)'
  <2>1. FirstOfItsOwn(repo) /\ deaths = 0
    BY <1>4 DEF PortInv
  <2>2. ASSUME NEW q \in Picker, RepoOf[q] = repo
        PROVE  /\ picker'[q].at = "walk" => Beyond(server, repo, picker'[q].step)
               /\ picker'[q].at \in {"mark", "serve"} => Beyond(server, repo, picker'[q].took)
               /\ picker'[q].at = "live" => server[Door(repo, picker'[q].took)] = repo
    <3>1. CASE q = r
      BY <1>1, <1>4, <2>1, <2>2, <3>1
    <3>2. CASE q # r
      BY <1>1, <2>1, <2>2, <3>2 DEF FirstOfItsOwn
    <3> QED BY <3>1, <3>2
  <2> QED BY <1>3, <2>1, <2>2 DEF FirstOfItsOwn, Beyond, Door
<1> QED BY <1>2, <1>4 DEF PortInv

\* Who is asked and is not heard is remembered.
LEMMA AskedFacts ==
  ASSUME PortInv, NEW r \in Picker, NEW yes, NEW no, Asked(r, yes, no), ~Free(r), Here(r) \in Port
  PROVE  /\ unheard \subseteq unheard' /\ unheard' \subseteq Repo
         /\ \/ yes /\ server[Here(r)] = RepoOf[r]
            \/ no /\ (server[Here(r)] = RepoOf[r] => RepoOf[r] \in unheard')
<1>1. PICK answer \in Answers(Here(r)) :
        /\ IF answer = RepoOf[r] THEN yes ELSE no
        /\ unheard' = IF answer = server[Here(r)] THEN unheard ELSE unheard \cup {server[Here(r)]}
  BY DEF Asked
<1>2. server[Here(r)] \in Repo /\ RepoOf[r] \in Repo /\ Nobody \notin Repo /\ unheard \subseteq Repo
  BY PortAssumption DEF Free, PortInv, PortTypeOK
<1>3. answer \in {server[Here(r)], Nobody}
  BY DEF Answers
<1>4. unheard \subseteq unheard' /\ unheard' \subseteq Repo
  BY <1>1, <1>2
<1>5. CASE answer = RepoOf[r]
  BY <1>1, <1>2, <1>3, <1>4, <1>5
<1>6. CASE answer # RepoOf[r]
  BY <1>1, <1>4, <1>6
<1> QED BY <1>5, <1>6

\* Where a server that is picking a port stands, and which ports it means.
LEMMA PickerFacts ==
  ASSUME PortInv, NEW r \in Picker
  PROVE  /\ picker[r] \in Stand /\ RepoOf[r] \in Repo /\ Span \in Nat \ {0}
         /\ (picker[r].step # Span => picker[r].step \in 0 .. Span - 1)
         /\ Here(r) = Door(RepoOf[r], picker[r].step) /\ Taken(r) = Door(RepoOf[r], picker[r].took)
         /\ picker[r].took \in 0 .. Span - 1 /\ Taken(r) \in Port
         /\ (picker[r].step # Span => Here(r) \in Port)
         /\ unheard \subseteq Repo /\ marker \subseteq Repo
<1>1. picker[r] \in Stand /\ RepoOf[r] \in Repo /\ Span \in Nat \ {0} /\ unheard \subseteq Repo /\ marker \subseteq Repo
  BY PortAssumption DEF PortInv, PortTypeOK, Stand
<1>2. picker[r].took \in 0 .. Span - 1 /\ (picker[r].step # Span => picker[r].step \in 0 .. Span - 1)
  BY <1>1 DEF Stand, Port
<1>3. Here(r) = Door(RepoOf[r], picker[r].step) /\ Taken(r) = Door(RepoOf[r], picker[r].took)
  BY DEF Here, Taken, PortAt, Door
<1> QED BY <1>1, <1>2, <1>3, DoorFacts

\* A step of Probe keeps PortInv.
LEMMA ProbeKeeps == ASSUME PortInv, NEW r \in Picker, Probe(r) PROVE PortInv'
<1> DEFINE m == picker[r]
<1>1. m.at = "walk" /\ UNCHANGED <<server, marker, deaths>>
  BY DEF Probe
<1>2. deaths = 0 /\ RepoOf[r] \notin unheard => Beyond(server, RepoOf[r], m.step)
  BY <1>1, PickerFacts DEF PortInv, FirstOfItsOwn
<1>3. CASE m.step = Span
  <2>1. Walk(r, "down", 0) /\ UNCHANGED unheard
    BY <1>3 DEF Probe
  <2>2. PICK n : n = [at |-> "down", step |-> 0, took |-> m.took]
    OBVIOUS
  <2>3. n \in Stand /\ n.at = "down" /\ picker' = [picker EXCEPT ![r] = n]
    BY <2>1, <2>2, PickerFacts DEF Walk, Stand
  <2> QED BY <1>1, <2>1, <2>3, PickerFacts, MoveKeeps
<1>4. CASE m.step # Span /\ Free(r)
  <2>1. Take(r, "mark") /\ UNCHANGED unheard
    BY <1>4 DEF Probe
  <2>2. PICK n : n = [at |-> "mark", step |-> 0, took |-> m.step]
    OBVIOUS
  <2>3. n \in Stand /\ n.at = "mark" /\ n.took = m.step /\ picker' = [picker EXCEPT ![r] = n]
    BY <1>4, <2>1, <2>2, PickerFacts DEF Take, Stand, Port
  <2> QED BY <1>1, <1>2, <2>1, <2>3, PickerFacts, MoveKeeps
<1>5. CASE m.step # Span /\ ~Free(r)
  <2>1. Asked(r, Take(r, "prove"), Walk(r, "walk", m.step + 1))
    BY <1>1, <1>5 DEF Probe
  <2>2. /\ unheard \subseteq unheard' /\ unheard' \subseteq Repo
        /\ \/ Take(r, "prove")
           \/ Walk(r, "walk", m.step + 1) /\ (server[Here(r)] = RepoOf[r] => RepoOf[r] \in unheard')
    BY <1>5, <2>1, PickerFacts, AskedFacts
  <2>3. CASE Take(r, "prove")
    <3>1. PICK n : n = [at |-> "prove", step |-> 0, took |-> m.step]
      OBVIOUS
    <3>2. n \in Stand /\ n.at = "prove" /\ picker' = [picker EXCEPT ![r] = n]
      BY <1>5, <2>3, <3>1, PickerFacts DEF Take, Stand, Port
    <3> QED BY <1>1, <2>2, <3>2, PickerFacts, MoveKeeps
  <2>4. CASE Walk(r, "walk", m.step + 1) /\ (server[Here(r)] = RepoOf[r] => RepoOf[r] \in unheard')
    <3>1. PICK n : n = [at |-> "walk", step |-> m.step + 1, took |-> m.took]
      OBVIOUS
    <3>2. n \in Stand /\ n.at = "walk" /\ n.step = m.step + 1 /\ picker' = [picker EXCEPT ![r] = n]
      BY <1>5, <2>4, <3>1, PickerFacts DEF Walk, Stand
    <3>3. ASSUME deaths = 0, RepoOf[r] \notin unheard' PROVE Beyond(server, RepoOf[r], m.step + 1)
      <4>1. server[Here(r)] \notin {RepoOf[r], Nobody}
        BY <1>5, <2>4, <3>3 DEF Free
      <4>2. Beyond(server, RepoOf[r], m.step)
        BY <1>2, <2>2, <3>3
      <4>3. ASSUME NEW t \in 0 .. Span - 1, t < m.step + 1 PROVE server[Door(RepoOf[r], t)] \notin {RepoOf[r], Nobody}
        <5>1. t < m.step \/ t = m.step
          BY <1>5, <4>3, PickerFacts
        <5> QED BY <4>1, <4>2, <5>1, PickerFacts DEF Beyond
      <4> QED BY <4>3 DEF Beyond
    <3> QED BY <1>1, <2>2, <3>2, <3>3, PickerFacts, MoveKeeps
  <2> QED BY <2>2, <2>3, <2>4
<1> QED BY <1>3, <1>4, <1>5

\* A step of Mark keeps PortInv.
LEMMA MarkKeeps == ASSUME PortInv, NEW r \in Picker, Mark(r) PROVE PortInv'
<1>1. /\ picker[r].at = "mark" /\ marker' = marker \cup {RepoOf[r]} /\ UNCHANGED <<server, deaths, unheard>>
      /\ Walk(r, "serve", 0)
  BY DEF Mark
<1>2. PICK n : n = [at |-> "serve", step |-> 0, took |-> picker[r].took]
  OBVIOUS
<1>3. n \in Stand /\ n.at = "serve" /\ n.took = picker[r].took /\ picker' = [picker EXCEPT ![r] = n]
  BY <1>1, <1>2, PickerFacts DEF Walk, Stand
<1>4. deaths = 0 /\ RepoOf[r] \notin unheard => Beyond(server, RepoOf[r], picker[r].took)
  BY <1>1, PickerFacts DEF PortInv, FirstOfItsOwn
<1> QED BY <1>1, <1>3, <1>4, PickerFacts, MoveKeeps

\* The first of the walk that is not another's becomes the repository's own.
LEMMA ServeKeeps == ASSUME PortInv, NEW r \in Picker, Serve(r) PROVE PortInv'
<1> DEFINE door == Taken(r)
<1>1. /\ picker[r].at = "serve" /\ UNCHANGED <<marker, deaths, unheard>> /\ Walk(r, "prove", 0)
      /\ server' = IF server[door] = Nobody THEN [server EXCEPT ![door] = RepoOf[r]] ELSE server
  BY DEF Serve
<1>2. PICK n : n = [at |-> "prove", step |-> 0, took |-> picker[r].took]
  OBVIOUS
<1>3. n \in Stand /\ n.at = "prove" /\ picker' = [picker EXCEPT ![r] = n]
  BY <1>1, <1>2, PickerFacts DEF Walk, Stand
<1>4. CASE server[door] # Nobody
  <2>1. server' = server
    BY <1>1, <1>4
  <2> QED BY <1>1, <1>3, <2>1, PickerFacts, MoveKeeps
<1>5. CASE server[door] = Nobody
  <2>1. server' = [server EXCEPT ![door] = RepoOf[r]] /\ door \in Port /\ door = Door(RepoOf[r], picker[r].took)
    BY <1>1, <1>5, PickerFacts
  <2>2. /\ server' \in [Port -> Repo \cup {Nobody}] /\ server'[door] = RepoOf[r]
        /\ \A p \in Port : p # door => server'[p] = server[p]
    BY <2>1, PickerFacts DEF PortInv, PortTypeOK
  <2>3. picker'[r] = n /\ (\A q \in Picker : q # r => picker'[q] = picker[q]) /\ picker' \in [Picker -> Stand]
    BY <1>3 DEF PortInv, PortTypeOK, Stand
  <2>4. PortTypeOK'
    BY <1>1, <2>2, <2>3 DEF PortInv, PortTypeOK, Stand
  <2> HIDE DEF door
  <2>5. ASSUME deaths = 0, NEW repo \in Repo \ unheard PROVE FirstOfItsOwn(repo)'
    <3>1. FirstOfItsOwn(repo) /\ repo # Nobody
      BY <2>5, PortAssumption DEF PortInv
    <3>2. ASSUME NEW k, Beyond(server, repo, k) PROVE Beyond(server', repo, k)
      <4>1. ASSUME NEW t \in 0 .. Span - 1, t < k PROVE server'[Door(repo, t)] \notin {repo, Nobody}
        <5>1. server[Door(repo, t)] \notin {repo, Nobody} /\ Door(repo, t) \in Port
          BY <3>2, <4>1, DoorFacts DEF Beyond
        <5> QED BY <1>5, <2>2, <5>1
      <4> QED BY <4>1 DEF Beyond, Door
    <3>3. ASSUME NEW q \in Picker, RepoOf[q] = repo
          PROVE  /\ picker'[q].at = "walk" => Beyond(server', repo, picker'[q].step)
                 /\ picker'[q].at \in {"mark", "serve"} => Beyond(server', repo, picker'[q].took)
                 /\ picker'[q].at = "live" => server'[Door(repo, picker'[q].took)] = repo
      <4>1. CASE q = r
        BY <1>3, <2>3, <4>1
      <4>2. CASE q # r
        <5>1. picker'[q] = picker[q]
          BY <2>3, <4>2
        <5>2. picker[q].at = "walk" => Beyond(server', repo, picker'[q].step)
          BY <3>1, <3>2, <3>3, <5>1 DEF FirstOfItsOwn
        <5>3. picker[q].at \in {"mark", "serve"} => Beyond(server', repo, picker'[q].took)
          BY <3>1, <3>2, <3>3, <5>1 DEF FirstOfItsOwn
        <5>4. picker[q].at = "live" => server'[Door(repo, picker'[q].took)] = repo
          <6>1. picker[q].at = "live" => server[Door(repo, picker[q].took)] = repo
            BY <3>1, <3>3 DEF FirstOfItsOwn
          <6>2. Door(repo, picker[q].took) \in Port
            BY <3>3, PickerFacts
          <6> QED BY <1>5, <2>2, <3>1, <5>1, <6>1, <6>2
        <5> QED BY <5>1, <5>2, <5>3, <5>4
      <4> QED BY <4>1, <4>2
    <3>4. ASSUME NEW t \in 0 .. Span - 1, server'[Door(repo, t)] = repo PROVE Beyond(server', repo, t)
      <4>1. CASE Door(repo, t) # door
        <5>1. server[Door(repo, t)] = repo
          BY <2>2, <3>4, <4>1, DoorFacts
        <5> QED BY <3>1, <3>2, <5>1 DEF FirstOfItsOwn
      <4>2. CASE Door(repo, t) = door
        <5>1. repo = RepoOf[r]
          BY <2>2, <3>4, <4>2
        <5>2. t = picker[r].took
          BY <2>1, <4>2, <5>1, PickerFacts, DoorFacts
        <5>3. Beyond(server, repo, t)
          BY <1>1, <3>1, <5>1, <5>2 DEF FirstOfItsOwn
        <5> QED BY <3>2, <5>3
      <4> QED BY <4>1, <4>2
    <3> QED BY <3>3, <3>4 DEF FirstOfItsOwn, Door
  <2> QED BY <1>1, <2>4, <2>5 DEF PortInv
<1> QED BY <1>4, <1>5

\* The board that is proved is the one that was taken, and serves the repository.
LEMMA ProveKeeps == ASSUME PortInv, NEW r \in Picker, Prove(r) PROVE PortInv'
<1> DEFINE m == picker[r]
           Now(at, step) == [at |-> at, step |-> step, took |-> m.took]
<1>1. m.at = "prove" /\ UNCHANGED <<server, marker, deaths>>
  BY DEF Prove
<1>2. ASSUME NEW at \in {"prove", "down"}, NEW step \in 0 .. Span, Walk(r, at, step),
             unheard \subseteq unheard', unheard' \subseteq Repo
      PROVE  PortInv'
  <2>1. PICK n : n = Now(at, step)
    OBVIOUS
  <2>2. n \in Stand /\ n.at \in {"prove", "down"} /\ picker' = [picker EXCEPT ![r] = n]
    BY <1>2, <2>1, PickerFacts DEF Walk, Stand
  <2> QED BY <1>1, <1>2, <2>2, PickerFacts, MoveKeeps
<1>3. CASE m.step = Span
  BY <1>2, <1>3, PickerFacts DEF Prove
<1>4. CASE m.step # Span /\ Free(r)
  <2>1. Walk(r, "prove", m.step + 1) /\ UNCHANGED unheard /\ m.step + 1 \in 0 .. Span
    BY <1>4, PickerFacts DEF Prove
  <2> QED BY <1>2, <2>1, PickerFacts
<1>5. CASE m.step # Span /\ ~Free(r)
  <2>1. Asked(r, Walk(r, IF m.step = m.took THEN "live" ELSE "down", 0), Walk(r, "prove", m.step + 1))
    BY <1>1, <1>5 DEF Prove
  <2>2. /\ unheard \subseteq unheard' /\ unheard' \subseteq Repo
        /\ \/ Walk(r, IF m.step = m.took THEN "live" ELSE "down", 0) /\ server[Here(r)] = RepoOf[r]
           \/ Walk(r, "prove", m.step + 1)
    BY <1>5, <2>1, PickerFacts, AskedFacts
  <2>3. CASE Walk(r, "prove", m.step + 1)
    <3>1. m.step + 1 \in 0 .. Span
      BY <1>5, PickerFacts
    <3> QED BY <1>2, <2>2, <2>3, <3>1
  <2>4. CASE m.step # m.took /\ Walk(r, "down", 0)
    BY <1>2, <2>2, <2>4, PickerFacts
  <2>5. CASE m.step = m.took /\ Walk(r, "live", 0) /\ server[Here(r)] = RepoOf[r]
    <3>1. PICK n : n = Now("live", 0)
      OBVIOUS
    <3>2. n \in Stand /\ n.at = "live" /\ n.took = m.took /\ picker' = [picker EXCEPT ![r] = n]
      BY <2>5, <3>1, PickerFacts DEF Walk, Stand
    <3>3. server[Door(RepoOf[r], m.took)] = RepoOf[r]
      BY <2>5, PickerFacts
    <3> QED BY <1>1, <2>2, <3>2, <3>3, PickerFacts, MoveKeeps
  <2> QED BY <2>2, <2>3, <2>4, <2>5
<1> QED BY <1>3, <1>4, <1>5

\* Every step of a server picking its port keeps the port invariant.
LEMMA PortStep == PortInv /\ [PortNext]_portVars => PortInv'
<1> SUFFICES ASSUME PortInv, [PortNext]_portVars PROVE PortInv'
  OBVIOUS
<1>1. CASE \E r \in Picker : Probe(r) \/ Mark(r) \/ Serve(r) \/ Prove(r)
  BY <1>1, ProbeKeeps, MarkKeeps, ServeKeeps, ProveKeeps
<1>2. ASSUME NEW p \in Port, Die(p) PROVE PortInv'
  <2>1. PortTypeOK'
    BY <1>2 DEF Die, PortInv, PortTypeOK
  <2>2. deaths' = deaths + 1 /\ deaths \in Nat
    BY <1>2 DEF Die, PortInv, PortTypeOK
  <2>3. deaths' # 0
    BY <2>2
  <2> QED BY <2>1, <2>3 DEF PortInv
<1>3. CASE UNCHANGED portVars
  BY <1>3 DEF portVars, PortInv, PortTypeOK, FirstOfItsOwn, Beyond, Door
<1> QED BY <1>1, <1>2, <1>3 DEF PortNext

\* The port invariant gives one board per repository.
LEMMA PortMeans == PortInv => OneBoardPerRepo
<1> SUFFICES ASSUME PortInv, NEW repo \in Repo \ unheard, deaths = 0
             PROVE  /\ Cardinality({p \in Port : server[p] = repo}) <= 1
                    /\ \A r \in Picker : RepoOf[r] = repo /\ picker[r].at = "live" => server[Taken(r)] = repo
  BY DEF OneBoardPerRepo
<1>1. FirstOfItsOwn(repo)
  BY DEF PortInv
<1> QED BY <1>1, OneFirst, PickerFacts DEF FirstOfItsOwn

\* tracker_port.pick and owned: the runs of a repository share one board, and
\* who is told that its board is live was told that one, for any number of runs,
\* repositories and ports, until a server dies or does not answer.
THEOREM OneBoard == PortSpec => []OneBoardPerRepo
BY PortMeans, PortInitOK, PortStep, PTL DEF PortSpec
-----------------------------------------------------------------------------
(* The close-out gate                                                      *)

\* The steps at which a promise has still to be looked at.
Ahead(name) ==
  LET first == {"report", "linked"}
      second == first \cup {"verdict", "digest"}
      third == second \cup {"tracker"}
      fourth == third \cup {"resolve"}
      fifth == fourth \cup {"lanes", "records"}
      sixth == fifth \cup {"briefs", "na", "tasks", "outcome"}
  IN CASE name = "reported" -> first
       [] name = "reviewed" -> second
       [] name = "finished" -> third
       [] name = "filed" -> fourth
       [] name = "verified" -> fifth
       [] name = "delivered" -> sixth
       [] name = "triaged" -> sixth \cup {"findings", "triage"}

\* What the promise "verified" says of one lane.
LaneVerified(files, b) ==
  /\ files["index"].points[b] \subseteq files["records"][b].honors
  /\ b \in DOMAIN files["briefs"] /\ files["briefs"][b] # {}
       => files["briefs"][b] \cap files["records"][b].answers # {}

\* What the gate remembers is what the files hold, of those nobody has written
\* since it began; of the lanes behind it the records are in order.
Recalls(job, T, files) ==
  /\ job.at = "linked" => /\ job.ok => Written(job.kept)
                          /\ "report" \notin T => job.kept = files["report"]
  /\ job.at = "digest" => ("report" \notin T => job.kept = files["report"])
  /\ job.at = "resolve" => ("tracker" \notin T => job.kept = Findings(files["tracker"]))
  /\ job.at = "records" => (job.ok /\ {"index", "briefs", "records"} \cap T = {} =>
       \A b \in DOMAIN files["index"].points :
         IF b \in DOMAIN job.kept THEN job.kept[b] = files["index"].points[b] ELSE LaneVerified(files, b))
  /\ job.at \in {"na", "tasks", "outcome"} => ("briefs" \notin T => job.kept.briefs = files["briefs"])
  /\ job.at = "outcome" => ("board" \notin T => job.kept.board = files["board"])

\* A gate with no error so far, and a flip that has passed it.
Passing(job) == (job.at \in Steps /\ job.ok) \/ job.at \in {"rows", "flip"}

\* No error so far means that what has been looked at and not written since is so.
KeptSoFar(d) ==
  Passing(desk[d]) =>
    \A p \in Promises : p.on \cap touched[d] = {} /\ desk[d].at \notin Ahead(p.name) => Kept(p.name)

CloseOutInv ==
  /\ desk = [d \in Desk |-> desk[d]]
  /\ touched \in [Desk -> SUBSET Files]
  /\ DOMAIN doc = Files
  /\ \A d \in Desk \ Closer : desk[d] = Idle
  /\ \A d \in Closer :
       /\ desk[d].at \in Steps \cup {"rows", "flip", "idle"}
       /\ desk[d].at = "idle" => desk[d] = Idle
       /\ desk[d].at \in Steps => desk[d].ok \in BOOLEAN
       /\ Recalls(desk[d], touched[d], doc)
       /\ KeptSoFar(d)

\* Before any close-out the close-out invariant holds.
LEMMA CloseOutInitOK == CloseOutInit => CloseOutInv
<1> SUFFICES ASSUME CloseOutInit PROVE CloseOutInv
  OBVIOUS
<1>1. desk = [d \in Desk |-> Idle] /\ (\A d \in Desk : desk[d] = Idle /\ desk[d].at = "idle") /\ Closer \subseteq Desk
  BY CloseOutAssumption DEF CloseOutInit, Idle
<1>2. touched \in [Desk -> SUBSET Files] /\ DOMAIN doc = Files
  BY CloseOutAssumption DEF CloseOutInit
<1>3. "idle" \notin Steps
  BY DEF Steps
<1>4. ASSUME NEW d \in Closer PROVE Recalls(desk[d], touched[d], doc) /\ KeptSoFar(d)
  BY <1>1, <1>3 DEF Recalls, KeptSoFar, Passing
<1> QED BY <1>1, <1>2, <1>3, <1>4 DEF CloseOutInv

\* A desk moves on, and the files stay: what it remembers and what it has looked
\* at must be so.
LEMMA MovesOn ==
  ASSUME CloseOutInv, NEW d \in Closer, NEW job, Go(d, job), UNCHANGED <<doc, touched>>,
         job.at \in Steps \cup {"rows", "flip", "idle"}, job.at = "idle" => job = Idle,
         job.at \in Steps => job.ok \in BOOLEAN,
         Recalls(job, touched[d], doc),
         Passing(job) => /\ Passing(desk[d])
                         /\ \A p \in Promises : p.on \cap touched[d] = {} /\ job.at \notin Ahead(p.name)
                                                  /\ desk[d].at \in Ahead(p.name) => Kept(p.name)
  PROVE  CloseOutInv'
<1>1. Closer \subseteq Desk /\ desk' = [desk EXCEPT ![d] = job]
  BY CloseOutAssumption DEF Go
<1>2. desk'[d] = job /\ (\A e \in Desk : e # d => desk'[e] = desk[e]) /\ desk' = [e \in Desk |-> desk'[e]]
  BY <1>1 DEF CloseOutInv
<1>3. \A name : Kept(name)' <=> Kept(name)
  BY DEF Kept, Ran, HasBoard
<1>4. ASSUME NEW e \in Closer
      PROVE  /\ desk'[e].at \in Steps \cup {"rows", "flip", "idle"}
             /\ desk'[e].at = "idle" => desk'[e] = Idle
             /\ desk'[e].at \in Steps => desk'[e].ok \in BOOLEAN
             /\ Recalls(desk'[e], touched'[e], doc')
             /\ KeptSoFar(e)'
  <2>1. CASE e = d
    <3>1. ASSUME Passing(job), NEW p \in Promises, p.on \cap touched[d] = {}, job.at \notin Ahead(p.name)
          PROVE  Kept(p.name)
      BY <3>1 DEF CloseOutInv, KeptSoFar
    <3>2. KeptSoFar(d)'
      BY <1>2, <1>3, <3>1 DEF KeptSoFar
    <3> QED BY <1>2, <2>1, <3>2
  <2>2. CASE e # d
    <3>1. desk'[e] = desk[e] /\ touched'[e] = touched[e] /\ doc' = doc
      BY <1>1, <1>2, <2>2
    <3>2. KeptSoFar(e)'
      BY <1>3, <3>1 DEF CloseOutInv, KeptSoFar
    <3> QED BY <3>1, <3>2 DEF CloseOutInv
  <2> QED BY <2>1, <2>2
<1> QED BY <1>1, <1>2, <1>4 DEF CloseOutInv

\* The same for the gate's own way of going on.
LEMMA ThenKeeps ==
  ASSUME CloseOutInv, NEW d \in Closer, desk[d].at \in Steps, NEW step \in Steps, NEW ok \in BOOLEAN, NEW kept1,
         Then(d, step, ok, kept1),
         \A job : job.at = step /\ job.ok = (desk[d].ok /\ ok) /\ job.kept = kept1 => Recalls(job, touched[d], doc),
         desk[d].ok /\ ok => \A p \in Promises : p.on \cap touched[d] = {} /\ step \notin Ahead(p.name)
                                                   /\ desk[d].at \in Ahead(p.name) => Kept(p.name)
  PROVE  CloseOutInv'
<1>1. desk[d].ok \in BOOLEAN /\ Job(d) = desk[d]
  BY DEF CloseOutInv, Job
<1>2. PICK yes \in BOOLEAN : yes = (desk[d].ok /\ ok)
  BY <1>1
<1>3. PICK job : job = [at |-> step, stem |-> Closing, status |-> "shipped", ok |-> yes, kept |-> kept1]
  OBVIOUS
<1>4. job.at = step /\ job.ok = yes /\ job.kept = kept1
  BY <1>3
<1>5. Go(d, job) /\ UNCHANGED <<doc, touched>>
  BY <1>1, <1>2, <1>3 DEF Then
<1>6. Recalls(job, touched[d], doc) /\ job.at # "idle"
  BY <1>2, <1>4 DEF Steps
<1>7. Passing(job) => desk[d].ok /\ ok /\ Passing(desk[d])
  BY <1>1, <1>2, <1>4 DEF Passing, Steps
<1> QED BY <1>2, <1>4, <1>5, <1>6, <1>7, MovesOn

\* A promise is kept by what the gate has seen, by name.
LEMMA PromiseOf ==
  ASSUME NEW p \in Promises
  PROVE  \/ p.name = "reported" /\ p.on = {"report", "index"}
         \/ p.name = "reviewed" /\ p.on = {"report", "plan"}
         \/ p.name = "finished" /\ p.on = {"tracker"}
         \/ p.name = "filed" /\ p.on = {"tracker", "board"}
         \/ p.name = "triaged" /\ p.on = {"tracker", "report"}
         \/ p.name = "verified" /\ p.on = {"index", "briefs", "records"}
         \/ p.name = "delivered" /\ p.on = {"briefs", "board", "report"}
BY DEF Promises

\* A gate in progress remembers only what the plan's folder said since it looked.
LEMMA JobFacts ==
  ASSUME CloseOutInv, NEW d \in Closer, desk[d].at \in Steps
  PROVE  Job(d) = desk[d] /\ desk[d].ok \in BOOLEAN /\ Recalls(desk[d], touched[d], doc)
BY DEF CloseOutInv, Job

\* A step of Ship keeps CloseOutInv.
LEMMA ShipKeeps == ASSUME CloseOutInv, NEW d \in Closer, Ship(d) PROVE CloseOutInv'
<1>1. PICK job : job = [at |-> "report", stem |-> Closing, status |-> "shipped", ok |-> TRUE, kept |-> None]
  OBVIOUS
<1>2. /\ desk' = [desk EXCEPT ![d] = job] /\ touched' = [touched EXCEPT ![d] = {}] /\ doc' = doc
      /\ job.at = "report" /\ job.ok = TRUE
  BY <1>1 DEF Ship, Go
<1>3. Closer \subseteq Desk
  BY CloseOutAssumption
<1>4. /\ desk'[d] = job /\ (\A e \in Desk : e # d => desk'[e] = desk[e] /\ touched'[e] = touched[e])
      /\ desk' = [e \in Desk |-> desk'[e]] /\ touched' \in [Desk -> SUBSET Files]
  BY <1>2, <1>3 DEF CloseOutInv
<1>5. \A name : Kept(name)' <=> Kept(name)
  BY <1>2 DEF Kept, Ran, HasBoard
<1>6. \A p \in Promises : "report" \in Ahead(p.name)
  BY PromiseOf DEF Ahead
<1>7. ASSUME NEW e \in Closer
      PROVE  /\ desk'[e].at \in Steps \cup {"rows", "flip", "idle"}
             /\ desk'[e].at = "idle" => desk'[e] = Idle
             /\ desk'[e].at \in Steps => desk'[e].ok \in BOOLEAN
             /\ Recalls(desk'[e], touched'[e], doc')
             /\ KeptSoFar(e)'
  <2>1. CASE e = d
    <3>1. Recalls(desk'[e], touched'[e], doc')
      BY <1>2, <1>4, <2>1 DEF Recalls
    <3>2. KeptSoFar(e)'
      BY <1>2, <1>4, <1>6, <2>1 DEF KeptSoFar
    <3> QED BY <1>2, <1>4, <2>1, <3>1, <3>2 DEF Steps
  <2>2. CASE e # d
    <3>1. KeptSoFar(e)'
      BY <1>3, <1>4, <1>5, <2>2 DEF CloseOutInv, KeptSoFar
    <3> QED BY <1>2, <1>3, <1>4, <2>2, <3>1 DEF CloseOutInv
  <2> QED BY <2>1, <2>2
<1> QED BY <1>2, <1>3, <1>4, <1>7 DEF CloseOutInv

\* A step of CheckReport keeps CloseOutInv.
LEMMA CheckReportKeeps == ASSUME CloseOutInv, NEW d \in Closer, CheckReport(d) PROVE CloseOutInv'
<1>1. desk[d].at = "report" /\ desk[d].at \in Steps
  BY DEF CheckReport, At, Steps
<1>2. PICK report : report = doc["report"]
  OBVIOUS
<1>3. PICK step \in Steps : step = IF report = None THEN "tracker" ELSE "linked"
  BY DEF Steps
<1>4. PICK ok \in BOOLEAN : ok = Written(report)
  BY DEF Written
<1>5. Then(d, step, ok, report)
  BY <1>2, <1>3, <1>4 DEF CheckReport
<1>6. step = "tracker" => ~ok
  BY <1>3, <1>4 DEF Written
<1>7. \A job : job.at = step /\ job.ok = (desk[d].ok /\ ok) /\ job.kept = report => Recalls(job, touched[d], doc)
  BY <1>2, <1>3, <1>4 DEF Recalls
<1>8. ASSUME ok, NEW p \in Promises PROVE step \in Ahead(p.name)
  <2>1. step = "linked"
    BY <1>3, <1>6, <1>8
  <2> QED BY <2>1, PromiseOf DEF Ahead
<1> QED BY <1>1, <1>5, <1>7, <1>8, ThenKeeps

\* A step of CheckLink keeps CloseOutInv.
LEMMA CheckLinkKeeps == ASSUME CloseOutInv, NEW d \in Closer, CheckLink(d) PROVE CloseOutInv'
<1>1. desk[d].at = "linked" /\ desk[d].at \in Steps
  BY DEF CheckLink, At, Steps
<1>2. PICK index, report : index = doc["index"] /\ report = desk[d].kept
  OBVIOUS
<1>3. PICK skip \in BOOLEAN : skip = (report.form = "lacking" \/ (index # None /\ ~Linked(index)))
  OBVIOUS
<1>4. PICK step \in Steps : step = IF skip THEN "tracker" ELSE "verdict"
  BY DEF Steps
<1>5. PICK ok \in BOOLEAN : ok = Linked(index)
  BY DEF Linked
<1>6. Then(d, step, ok, None)
  BY <1>1, <1>2, <1>3, <1>4, <1>5, JobFacts DEF CheckLink
<1>7. desk[d].ok => Written(report)
  BY <1>1, <1>2, JobFacts DEF Recalls
<1>8. desk[d].ok /\ ok => step = "verdict"
  BY <1>3, <1>4, <1>5, <1>7 DEF Written
<1>9. \A job : job.at = step /\ job.ok = (desk[d].ok /\ ok) /\ job.kept = None => Recalls(job, touched[d], doc)
  BY <1>4 DEF Recalls
<1>10. ASSUME desk[d].ok, ok, NEW p \in Promises, p.on \cap touched[d] = {}, step \notin Ahead(p.name)
       PROVE  Kept(p.name)
  <2>1. p.name = "reported" /\ p.on = {"report", "index"}
    BY <1>8, <1>10, PromiseOf DEF Ahead
  <2>2. report = doc["report"]
    BY <1>1, <1>2, <1>10, <2>1, JobFacts DEF Recalls
  <2>3. doc["report"] # None /\ doc["report"].form = "whole" /\ doc["index"].linked
    BY <1>2, <1>5, <1>7, <1>10, <2>2 DEF Written, Linked
  <2> QED BY <2>1, <2>3 DEF Kept
<1> QED BY <1>1, <1>6, <1>9, <1>10, ThenKeeps

\* A step of ReadVerdict keeps CloseOutInv.
LEMMA ReadVerdictKeeps == ASSUME CloseOutInv, NEW d \in Closer, ReadVerdict(d) PROVE CloseOutInv'
<1>1. desk[d].at = "verdict" /\ desk[d].at \in Steps /\ "digest" \in Steps
  BY DEF ReadVerdict, At, Steps
<1>2. PICK report : report = doc["report"]
  OBVIOUS
<1>3. Then(d, "digest", TRUE, report)
  BY <1>2 DEF ReadVerdict
<1>4. \A job : job.at = "digest" /\ job.ok = (desk[d].ok /\ TRUE) /\ job.kept = report => Recalls(job, touched[d], doc)
  BY <1>2 DEF Recalls
<1>5. \A p \in Promises : desk[d].at \in Ahead(p.name) => "digest" \in Ahead(p.name)
  BY <1>1, PromiseOf DEF Ahead
<1> QED BY <1>1, <1>3, <1>4, <1>5, ThenKeeps

\* A step of CheckVerdict keeps CloseOutInv.
LEMMA CheckVerdictKeeps == ASSUME CloseOutInv, NEW d \in Closer, CheckVerdict(d) PROVE CloseOutInv'
<1>1. desk[d].at = "digest" /\ desk[d].at \in Steps /\ "tracker" \in Steps
  BY DEF CheckVerdict, At, Steps
<1>2. PICK report, plan : report = desk[d].kept /\ plan = doc["plan"]
  OBVIOUS
<1>3. PICK ok \in BOOLEAN : ok = Verdict(report, plan)
  BY DEF Verdict
<1>4. Then(d, "tracker", ok, None)
  BY <1>1, <1>2, <1>3, JobFacts DEF CheckVerdict
<1>5. \A job : job.at = "tracker" /\ job.ok = (desk[d].ok /\ ok) /\ job.kept = None => Recalls(job, touched[d], doc)
  BY DEF Recalls
<1>6. ASSUME ok, NEW p \in Promises, p.on \cap touched[d] = {}, "tracker" \notin Ahead(p.name), desk[d].at \in Ahead(p.name)
      PROVE  Kept(p.name)
  <2>1. p.name = "reviewed" /\ p.on = {"report", "plan"}
    BY <1>1, <1>6, PromiseOf DEF Ahead
  <2>2. report = doc["report"]
    BY <1>1, <1>2, <1>6, <2>1, JobFacts DEF Recalls
  <2>3. report.review.plan = plan /\ (report.review.misses = 0 \/ report.waiver = "reasoned")
    BY <1>3, <1>6 DEF Verdict, Waived
  <2> QED BY <1>2, <2>1, <2>2, <2>3 DEF Kept
<1> QED BY <1>1, <1>4, <1>5, <1>6, ThenKeeps

\* A step of CheckTracker keeps CloseOutInv.
LEMMA CheckTrackerKeeps == ASSUME CloseOutInv, NEW d \in Closer, CheckTracker(d) PROVE CloseOutInv'
<1>1. desk[d].at = "tracker" /\ desk[d].at \in Steps
  BY DEF CheckTracker, At, Steps
<1>2. PICK page : page = doc["tracker"]
  OBVIOUS
<1>3. PICK cited : cited = Findings(page)
  OBVIOUS
<1>4. PICK step \in Steps : step = IF cited = {} THEN "lanes" ELSE "resolve"
  BY DEF Steps
<1>5. PICK ok \in BOOLEAN : ok = Finished(page)
  BY DEF Finished
<1>6. Then(d, step, ok, cited)
  BY <1>2, <1>3, <1>4, <1>5 DEF CheckTracker
<1>7. \A job : job.at = step /\ job.ok = (desk[d].ok /\ ok) /\ job.kept = cited => Recalls(job, touched[d], doc)
  BY <1>2, <1>3, <1>4 DEF Recalls
<1>8. ASSUME ok, NEW p \in Promises, step \notin Ahead(p.name), desk[d].at \in Ahead(p.name)
      PROVE  Kept(p.name)
  <2>1. p.name = "finished" \/ (p.name = "filed" /\ cited = {})
    BY <1>1, <1>4, <1>8, PromiseOf DEF Ahead
  <2>2. CASE p.name = "finished"
    BY <1>2, <1>5, <1>8, <2>2 DEF Kept, Ran, Finished
  <2>3. CASE p.name = "filed" /\ cited = {}
    BY <1>2, <1>3, <2>3 DEF Kept, Ran, Findings
  <2> QED BY <2>1, <2>2, <2>3
<1> QED BY <1>1, <1>6, <1>7, <1>8, ThenKeeps

\* A step of CheckFindings keeps CloseOutInv.
LEMMA CheckFindingsKeeps == ASSUME CloseOutInv, NEW d \in Closer, CheckFindings(d) PROVE CloseOutInv'
<1>1. desk[d].at = "resolve" /\ desk[d].at \in Steps /\ "lanes" \in Steps
  BY DEF CheckFindings, At, Steps
<1>2. PICK cited, page : cited = desk[d].kept /\ page = doc["board"]
  OBVIOUS
<1>3. PICK ok \in BOOLEAN : ok = Resolved(cited, page)
  BY DEF Resolved
<1>4. Then(d, "lanes", ok, None)
  BY <1>1, <1>2, <1>3, JobFacts DEF CheckFindings
<1>5. \A job : job.at = "lanes" /\ job.ok = (desk[d].ok /\ ok) /\ job.kept = None => Recalls(job, touched[d], doc)
  BY DEF Recalls
<1>6. ASSUME ok, NEW p \in Promises, p.on \cap touched[d] = {}, "lanes" \notin Ahead(p.name), desk[d].at \in Ahead(p.name)
      PROVE  Kept(p.name)
  <2>1. p.name = "filed" /\ p.on = {"tracker", "board"}
    BY <1>1, <1>6, PromiseOf DEF Ahead
  <2>2. cited = Findings(doc["tracker"])
    BY <1>1, <1>2, <1>6, <2>1, JobFacts DEF Recalls
  <2> QED BY <1>2, <1>3, <1>6, <2>1, <2>2 DEF Kept, Ran, HasBoard, Findings, Resolved
<1> QED BY <1>1, <1>4, <1>5, <1>6, ThenKeeps

\* A step of ReadLanes keeps CloseOutInv.
LEMMA ReadLanesKeeps == ASSUME CloseOutInv, NEW d \in Closer, ReadLanes(d) PROVE CloseOutInv'
<1>1. desk[d].at = "lanes" /\ desk[d].at \in Steps /\ {"briefs", "records"} \subseteq Steps
  BY DEF ReadLanes, At, Steps
<1>2. CASE doc["index"] = None
  <2>1. Then(d, "briefs", FALSE, None)
    BY <1>2 DEF ReadLanes
  <2>2. \A job : job.at = "briefs" /\ job.ok = (desk[d].ok /\ FALSE) /\ job.kept = None => Recalls(job, touched[d], doc)
    BY DEF Recalls
  <2> QED BY <1>1, <2>1, <2>2, ThenKeeps
<1>3. CASE doc["index"] # None
  <2>1. PICK points : points = doc["index"].points
    OBVIOUS
  <2>2. Then(d, "records", TRUE, points)
    BY <1>3, <2>1 DEF ReadLanes
  <2>3. \A job : job.at = "records" /\ job.ok = (desk[d].ok /\ TRUE) /\ job.kept = points => Recalls(job, touched[d], doc)
    BY <2>1 DEF Recalls
  <2>4. \A p \in Promises : desk[d].at \in Ahead(p.name) => "records" \in Ahead(p.name)
    BY <1>1, PromiseOf DEF Ahead
  <2> QED BY <1>1, <2>2, <2>3, <2>4, ThenKeeps
<1> QED BY <1>2, <1>3

\* Lane after lane joins those whose records are in order.
LEMMA CheckRecordKeeps == ASSUME CloseOutInv, NEW d \in Closer, CheckRecord(d) PROVE CloseOutInv'
<1>1. desk[d].at = "records" /\ desk[d].at \in Steps /\ {"briefs", "records"} \subseteq Steps
  BY DEF CheckRecord, At, Steps
<1>2. PICK points : points = desk[d].kept
  OBVIOUS
<1>3. ASSUME desk[d].ok, {"index", "briefs", "records"} \cap touched[d] = {}, NEW b \in DOMAIN doc["index"].points
      PROVE  IF b \in DOMAIN points THEN points[b] = doc["index"].points[b] ELSE LaneVerified(doc, b)
  BY <1>1, <1>2, <1>3, JobFacts DEF Recalls
<1>4. CASE DOMAIN points = {}
  <2>1. Then(d, "briefs", TRUE, None)
    BY <1>1, <1>2, <1>4, JobFacts DEF CheckRecord
  <2>2. \A job : job.at = "briefs" /\ job.ok = (desk[d].ok /\ TRUE) /\ job.kept = None => Recalls(job, touched[d], doc)
    BY DEF Recalls
  <2>3. ASSUME desk[d].ok, NEW p \in Promises, p.on \cap touched[d] = {}, "briefs" \notin Ahead(p.name), desk[d].at \in Ahead(p.name)
        PROVE  Kept(p.name)
    <3>1. p.name = "verified" /\ p.on = {"index", "briefs", "records"}
      BY <1>1, <2>3, PromiseOf DEF Ahead
    <3>2. \A b \in DOMAIN doc["index"].points : LaneVerified(doc, b)
      BY <1>3, <1>4, <2>3, <3>1
    <3> QED BY <3>1, <3>2 DEF Kept, LaneVerified
  <2> QED BY <1>1, <2>1, <2>2, <2>3, ThenKeeps
<1>5. CASE DOMAIN points # {}
  <2>1. PICK b \in DOMAIN points :
          Then(d, "records",
               Recorded(doc["records"][b], points[b], IF b \in DOMAIN doc["briefs"] THEN doc["briefs"][b] ELSE {}),
               [c \in DOMAIN points \ {b} |-> points[c]])
    BY <1>1, <1>2, <1>5, JobFacts DEF CheckRecord
  <2>2. PICK asked : asked = IF b \in DOMAIN doc["briefs"] THEN doc["briefs"][b] ELSE {}
    OBVIOUS
  <2>3. PICK ok \in BOOLEAN : ok = Recorded(doc["records"][b], points[b], asked)
    BY DEF Recorded
  <2>4. PICK rest : rest = [c \in DOMAIN points \ {b} |-> points[c]]
    OBVIOUS
  <2>5. Then(d, "records", ok, rest)
    BY <2>1, <2>2, <2>3, <2>4
  <2>6. ASSUME desk[d].ok, ok, {"index", "briefs", "records"} \cap touched[d] = {}, NEW c \in DOMAIN doc["index"].points
        PROVE  IF c \in DOMAIN rest THEN rest[c] = doc["index"].points[c] ELSE LaneVerified(doc, c)
    <3>1. CASE c = b
      <4>1. points[b] = doc["index"].points[b] /\ c \notin DOMAIN rest
        BY <1>3, <2>4, <2>6, <3>1
      <4>2. points[b] \subseteq doc["records"][b].honors /\ (asked = {} \/ asked \cap doc["records"][b].answers # {})
        BY <2>3, <2>6 DEF Recorded
      <4> QED BY <2>2, <3>1, <4>1, <4>2 DEF LaneVerified
    <3>2. CASE c # b
      BY <1>3, <2>4, <2>6, <3>2
    <3> QED BY <3>1, <3>2
  <2>7. \A job : job.at = "records" /\ job.ok = (desk[d].ok /\ ok) /\ job.kept = rest => Recalls(job, touched[d], doc)
    BY <2>6 DEF Recalls
  <2> QED BY <1>1, <2>5, <2>7, ThenKeeps
<1> QED BY <1>4, <1>5

\* A step of ReadBriefs keeps CloseOutInv.
LEMMA ReadBriefsKeeps == ASSUME CloseOutInv, NEW d \in Closer, ReadBriefs(d) PROVE CloseOutInv'
<1>1. desk[d].at = "briefs" /\ desk[d].at \in Steps /\ "na" \in Steps
  BY DEF ReadBriefs, At, Steps
<1>2. PICK memo : memo = [briefs |-> doc["briefs"]]
  OBVIOUS
<1>3. Then(d, "na", TRUE, memo) /\ memo.briefs = doc["briefs"]
  BY <1>2 DEF ReadBriefs
<1>4. \A job : job.at = "na" /\ job.ok = (desk[d].ok /\ TRUE) /\ job.kept = memo => Recalls(job, touched[d], doc)
  BY <1>3 DEF Recalls
<1>5. \A p \in Promises : desk[d].at \in Ahead(p.name) => "na" \in Ahead(p.name)
  BY <1>1, PromiseOf DEF Ahead
<1> QED BY <1>1, <1>3, <1>4, <1>5, ThenKeeps

\* A step of ReadNa keeps CloseOutInv.
LEMMA ReadNaKeeps == ASSUME CloseOutInv, NEW d \in Closer, ReadNa(d) PROVE CloseOutInv'
<1>1. desk[d].at = "na" /\ desk[d].at \in Steps /\ "tasks" \in Steps
  BY DEF ReadNa, At, Steps
<1>2. PICK memo : memo = [briefs |-> desk[d].kept.briefs, na |-> doc["report"] # None /\ doc["report"].na]
  OBVIOUS
<1>3. Then(d, "tasks", TRUE, memo)
  BY <1>1, <1>2, JobFacts, Zenon DEF ReadNa
<1>4. memo.briefs = desk[d].kept.briefs
  BY <1>2, Zenon
<1>5. "briefs" \notin touched[d] => memo.briefs = doc["briefs"]
  BY <1>1, <1>4, JobFacts DEF Recalls
<1>6. \A job : job.at = "tasks" /\ job.ok = (desk[d].ok /\ TRUE) /\ job.kept = memo => Recalls(job, touched[d], doc)
  BY <1>5 DEF Recalls
<1>7. \A p \in Promises : desk[d].at \in Ahead(p.name) => "tasks" \in Ahead(p.name)
  BY <1>1, PromiseOf DEF Ahead
<1> QED BY <1>1, <1>3, <1>6, <1>7, ThenKeeps

\* A step of ReadTasks keeps CloseOutInv.
LEMMA ReadTasksKeeps == ASSUME CloseOutInv, NEW d \in Closer, ReadTasks(d) PROVE CloseOutInv'
<1>1. desk[d].at = "tasks" /\ desk[d].at \in Steps /\ "outcome" \in Steps
  BY DEF ReadTasks, At, Steps
<1>2. PICK memo : memo = [briefs |-> desk[d].kept.briefs, na |-> desk[d].kept.na, board |-> doc["board"]]
  OBVIOUS
<1>3. Then(d, "outcome", TRUE, memo) /\ memo.briefs = desk[d].kept.briefs /\ memo.board = doc["board"]
  BY <1>1, <1>2, JobFacts DEF ReadTasks
<1>4. "briefs" \notin touched[d] => memo.briefs = doc["briefs"]
  BY <1>1, <1>3, JobFacts DEF Recalls
<1>5. \A job : job.at = "outcome" /\ job.ok = (desk[d].ok /\ TRUE) /\ job.kept = memo => Recalls(job, touched[d], doc)
  BY <1>3, <1>4 DEF Recalls
<1>6. \A p \in Promises : desk[d].at \in Ahead(p.name) => "outcome" \in Ahead(p.name)
  BY <1>1, PromiseOf DEF Ahead
<1> QED BY <1>1, <1>3, <1>5, <1>6, ThenKeeps

\* A step of CheckBoardSync keeps CloseOutInv.
LEMMA CheckBoardSyncKeeps == ASSUME CloseOutInv, NEW d \in Closer, CheckBoardSync(d) PROVE CloseOutInv'
<1>1. desk[d].at = "outcome" /\ desk[d].at \in Steps /\ "findings" \in Steps
  BY DEF CheckBoardSync, At, Steps
<1>2. PICK briefs, na, page, report :
        briefs = desk[d].kept.briefs /\ na = desk[d].kept.na /\ page = desk[d].kept.board /\ report = doc["report"]
  OBVIOUS
<1>3. PICK ok \in BOOLEAN : ok = Delivered(briefs, na, page, report)
  BY DEF Delivered
<1>4. Then(d, "findings", ok, None)
  BY <1>1, <1>2, <1>3, JobFacts DEF CheckBoardSync
<1>5. \A job : job.at = "findings" /\ job.ok = (desk[d].ok /\ ok) /\ job.kept = None => Recalls(job, touched[d], doc)
  BY DEF Recalls
<1>6. ASSUME ok, NEW p \in Promises, p.on \cap touched[d] = {}, "findings" \notin Ahead(p.name), desk[d].at \in Ahead(p.name)
      PROVE  Kept(p.name)
  <2>1. p.name = "delivered" /\ p.on = {"briefs", "board", "report"}
    BY <1>1, <1>6, PromiseOf DEF Ahead
  <2>2. briefs = doc["briefs"] /\ page = doc["board"]
    BY <1>1, <1>2, <1>6, <2>1, JobFacts DEF Recalls
  <2>3. ASSUME HasBoard, NEW b \in DOMAIN doc["briefs"]
        PROVE  doc["board"].tasks[b] \in {"done", "decision"} \/ doc["report"].outcome[b] = "deferred"
    BY <1>2, <1>3, <1>6, <2>2, <2>3 DEF HasBoard, Delivered, Excused
  <2> QED BY <2>1, <2>3 DEF Kept
<1> QED BY <1>1, <1>4, <1>5, <1>6, ThenKeeps

\* A step of ReadFindings keeps CloseOutInv.
LEMMA ReadFindingsKeeps == ASSUME CloseOutInv, NEW d \in Closer, ReadFindings(d) PROVE CloseOutInv'
<1>1. desk[d].at = "findings" /\ desk[d].at \in Steps
  BY DEF ReadFindings, At, Steps
<1>2. PICK step \in Steps : step = IF Findings(doc["tracker"]) = {} THEN "gate" ELSE "triage"
  BY DEF Steps
<1>3. Then(d, step, TRUE, None)
  BY <1>2 DEF ReadFindings
<1>4. \A job : job.at = step /\ job.ok = (desk[d].ok /\ TRUE) /\ job.kept = None => Recalls(job, touched[d], doc)
  BY <1>2 DEF Recalls
<1>5. ASSUME NEW p \in Promises, step \notin Ahead(p.name), desk[d].at \in Ahead(p.name) PROVE Kept(p.name)
  <2>1. p.name = "triaged" /\ Findings(doc["tracker"]) = {}
    BY <1>1, <1>2, <1>5, PromiseOf DEF Ahead
  <2> QED BY <2>1 DEF Kept, Ran, Findings
<1> QED BY <1>1, <1>3, <1>4, <1>5, ThenKeeps

\* A step of CheckTriage keeps CloseOutInv.
LEMMA CheckTriageKeeps == ASSUME CloseOutInv, NEW d \in Closer, CheckTriage(d) PROVE CloseOutInv'
<1>1. desk[d].at = "triage" /\ desk[d].at \in Steps /\ "gate" \in Steps
  BY DEF CheckTriage, At, Steps
<1>2. PICK ok \in BOOLEAN : ok = (doc["report"] # None /\ doc["report"].triage)
  OBVIOUS
<1>3. Then(d, "gate", ok, None)
  BY <1>2 DEF CheckTriage
<1>4. \A job : job.at = "gate" /\ job.ok = (desk[d].ok /\ ok) /\ job.kept = None => Recalls(job, touched[d], doc)
  BY DEF Recalls
<1>5. ASSUME ok, NEW p \in Promises, desk[d].at \in Ahead(p.name) PROVE Kept(p.name)
  <2>1. p.name = "triaged"
    BY <1>1, <1>5, PromiseOf DEF Ahead
  <2> QED BY <1>2, <1>5, <2>1 DEF Kept
<1> QED BY <1>1, <1>3, <1>4, <1>5, ThenKeeps

\* An idle desk passes no verdict and remembers nothing.
LEMMA IdleFacts == Idle.at = "idle" /\ ~Passing(Idle) /\ \A T, files : Recalls(Idle, T, files)
BY DEF Idle, Passing, Recalls, Steps

\* Past the gate nothing is ahead.
LEMMA NothingAhead ==
  ASSUME NEW p \in Promises
  PROVE  "gate" \notin Ahead(p.name) /\ "rows" \notin Ahead(p.name) /\ "flip" \notin Ahead(p.name)
BY PromiseOf DEF Ahead

\* A step of DecideFlip keeps CloseOutInv.
LEMMA DecideFlipKeeps == ASSUME CloseOutInv, NEW d \in Closer, DecideFlip(d) PROVE CloseOutInv'
<1>1. desk[d].at = "gate" /\ desk[d].at \in Steps /\ UNCHANGED <<doc, touched>>
  BY DEF DecideFlip, At, Steps
<1>2. CASE desk[d].ok
  <2>1. PICK job : job = [at |-> "rows", stem |-> Closing, status |-> "shipped"]
    OBVIOUS
  <2>2. Go(d, job) /\ job.at = "rows"
    BY <1>1, <1>2, <2>1, JobFacts DEF DecideFlip
  <2>3. "rows" \notin Steps /\ Recalls(job, touched[d], doc)
    BY <2>2 DEF Recalls, Steps
  <2>4. Passing(desk[d])
    BY <1>1, <1>2 DEF Passing
  <2> QED BY <1>1, <2>2, <2>3, <2>4, NothingAhead, MovesOn
<1>3. CASE ~desk[d].ok
  <2>1. Go(d, Idle)
    BY <1>1, <1>3, JobFacts DEF DecideFlip
  <2>2. "idle" \notin Steps
    BY DEF Steps
  <2> QED BY <1>1, <2>1, <2>2, IdleFacts, MovesOn
<1> QED BY <1>2, <1>3

\* A step of ReadRows keeps CloseOutInv.
LEMMA ReadRowsKeeps == ASSUME CloseOutInv, NEW d \in Closer, ReadRows(d), UNCHANGED <<doc, touched>> PROVE CloseOutInv'
<1>1. PICK seen \in RowsRead(d) :
        Go(d, IF seen[desk[d].stem] = None THEN Idle
              ELSE [at |-> "flip", stem |-> desk[d].stem, status |-> desk[d].status, rows |-> seen])
  BY DEF ReadRows
<1>2. PICK job : job = IF seen[desk[d].stem] = None THEN Idle
                       ELSE [at |-> "flip", stem |-> desk[d].stem, status |-> desk[d].status, rows |-> seen]
  OBVIOUS
<1>3. desk[d].at = "rows" /\ Go(d, job) /\ "idle" \notin Steps /\ "flip" \notin Steps
  BY <1>1, <1>2 DEF ReadRows, At, Steps
<1>4. job = Idle \/ job.at = "flip"
  BY <1>2
<1>5. CASE job = Idle
  BY <1>3, <1>5, IdleFacts, MovesOn
<1>6. CASE job.at = "flip"
  <2>1. Recalls(job, touched[d], doc)
    BY <1>6 DEF Recalls
  <2>2. Passing(desk[d])
    BY <1>3 DEF Passing
  <2> QED BY <1>3, <1>6, <2>1, <2>2, NothingAhead, MovesOn
<1> QED BY <1>4, <1>5, <1>6

\* A step of WriteRow keeps CloseOutInv.
LEMMA WriteRowKeeps == ASSUME CloseOutInv, NEW d \in Closer, WriteRow(d), UNCHANGED <<doc, touched>> PROVE CloseOutInv'
<1>1. Go(d, Idle) /\ "idle" \notin Steps
  BY DEF WriteRow, Steps
<1> QED BY <1>1, IdleFacts, MovesOn

\* What is written is touched at every desk that is at the gate.
LEMMA WriteKeeps == ASSUME CloseOutInv, NEW f \in Files, NEW content, Write(f, content) PROVE CloseOutInv'
<1>1. /\ doc' = [doc EXCEPT ![f] = content] /\ desk' = desk
      /\ touched' = [d \in Desk |-> IF desk[d] = Idle THEN {} ELSE touched[d] \cup {f}]
  BY DEF Write, registryVars
<1>2. touched' \in [Desk -> SUBSET Files] /\ DOMAIN doc' = Files /\ \A g \in Files \ {f} : doc'[g] = doc[g]
  BY <1>1 DEF CloseOutInv
<1>3. ASSUME NEW d \in Closer PROVE Recalls(desk[d], touched'[d], doc') /\ KeptSoFar(d)'
  <2>1. CASE desk[d] = Idle
    BY <1>1, <2>1, IdleFacts DEF KeptSoFar
  <2>2. CASE desk[d] # Idle
    <3>1. touched'[d] = touched[d] \cup {f}
      BY <1>1, <2>2, CloseOutAssumption
    <3>2. PICK T, U : T = touched[d] /\ U = touched'[d]
      OBVIOUS
    <3>3. U = T \cup {f} /\ \A g \in Files : g \notin U => g \notin T /\ doc'[g] = doc[g]
      BY <1>2, <3>1, <3>2
    <3>4. {"plan", "report", "index", "briefs", "records", "tracker", "board"} \subseteq Files
      BY DEF Files
    <3>5. Recalls(desk[d], U, doc')
      <4>1. Recalls(desk[d], T, doc)
        BY <3>2 DEF CloseOutInv
      <4>2. desk[d].at = "records" => (desk[d].ok /\ {"index", "briefs", "records"} \cap U = {} =>
              \A b \in DOMAIN doc'["index"].points :
                IF b \in DOMAIN desk[d].kept THEN desk[d].kept[b] = doc'["index"].points[b] ELSE LaneVerified(doc', b))
        BY <3>3, <3>4, <4>1 DEF Recalls, LaneVerified
      <4> QED BY <3>3, <3>4, <4>1, <4>2 DEF Recalls
    <3>6. ASSUME NEW p \in Promises, p.on \cap U = {}, Kept(p.name) PROVE Kept(p.name)'
      <4>1. p.on \cap T = {} /\ \A g \in p.on : doc'[g] = doc[g]
        BY <3>3, <3>4, <3>6, PromiseOf
      <4>2. CASE p.name = "reported"
        <5>1. doc'["report"] = doc["report"] /\ doc'["index"] = doc["index"]
          BY <4>1, <4>2, PromiseOf
        <5> QED BY <3>6, <4>2, <5>1 DEF Kept, Ran, HasBoard
      <4>3. CASE p.name = "reviewed"
        <5>1. doc'["report"] = doc["report"] /\ doc'["plan"] = doc["plan"]
          BY <4>1, <4>3, PromiseOf
        <5> QED BY <3>6, <4>3, <5>1 DEF Kept, Ran, HasBoard
      <4>4. CASE p.name = "finished"
        <5>1. doc'["tracker"] = doc["tracker"]
          BY <4>1, <4>4, PromiseOf
        <5> QED BY <3>6, <4>4, <5>1 DEF Kept, Ran, HasBoard
      <4>5. CASE p.name = "filed"
        <5>1. doc'["tracker"] = doc["tracker"] /\ doc'["board"] = doc["board"]
          BY <4>1, <4>5, PromiseOf
        <5> QED BY <3>6, <4>5, <5>1 DEF Kept, Ran, HasBoard
      <4>6. CASE p.name = "triaged"
        <5>1. doc'["tracker"] = doc["tracker"] /\ doc'["report"] = doc["report"]
          BY <4>1, <4>6, PromiseOf
        <5> QED BY <3>6, <4>6, <5>1 DEF Kept, Ran, HasBoard
      <4>7. CASE p.name = "verified"
        <5>1. doc'["index"] = doc["index"] /\ doc'["briefs"] = doc["briefs"] /\ doc'["records"] = doc["records"]
          BY <4>1, <4>7, PromiseOf
        <5> QED BY <3>6, <4>7, <5>1 DEF Kept, Ran, HasBoard
      <4>8. CASE p.name = "delivered"
        <5>1. doc'["briefs"] = doc["briefs"] /\ doc'["board"] = doc["board"] /\ doc'["report"] = doc["report"]
          BY <4>1, <4>8, PromiseOf
        <5> QED BY <3>6, <4>8, <5>1 DEF Kept, Ran, HasBoard
      <4> QED BY <4>2, <4>3, <4>4, <4>5, <4>6, <4>7, <4>8, PromiseOf
    <3>7. KeptSoFar(d)
      BY DEF CloseOutInv
    <3>8. KeptSoFar(d)'
      BY <1>1, <3>2, <3>3, <3>6, <3>7 DEF KeptSoFar
    <3> QED BY <3>2, <3>5, <3>8
  <2> QED BY <2>1, <2>2
<1> QED BY <1>1, <1>2, <1>3 DEF CloseOutInv

\* Every close-out step keeps the close-out invariant.
LEMMA CloseOutStep == CloseOutInv /\ [CloseOutNext]_closeOutVars => CloseOutInv'
<1> SUFFICES ASSUME CloseOutInv, [CloseOutNext]_closeOutVars PROVE CloseOutInv'
  OBVIOUS
<1>1. ASSUME NEW d \in Closer, Gate(d) PROVE CloseOutInv'
  BY <1>1, ShipKeeps, CheckReportKeeps, CheckLinkKeeps, ReadVerdictKeeps, CheckVerdictKeeps, CheckTrackerKeeps,
     CheckFindingsKeeps, ReadLanesKeeps, CheckRecordKeeps, ReadBriefsKeeps, ReadNaKeeps, ReadTasksKeeps,
     CheckBoardSyncKeeps, ReadFindingsKeeps, CheckTriageKeeps, DecideFlipKeeps DEF Gate
<1>2. ASSUME NEW d \in Closer, (ReadRows(d) \/ WriteRow(d)) /\ UNCHANGED <<doc, writes, touched>> PROVE CloseOutInv'
  BY <1>2, ReadRowsKeeps, WriteRowKeeps
<1>3. ASSUME NEW r \in Revision, Write(r[1], r[2]) PROVE CloseOutInv'
  <2>1. r[1] \in Files
    BY DEF Revision
  <2> QED BY <1>3, <2>1, WriteKeeps
<1>4. CASE UNCHANGED closeOutVars
  <2>1. UNCHANGED <<desk, doc, touched>>
    BY <1>4 DEF closeOutVars, registryVars
  <2> QED BY <2>1 DEF CloseOutInv, KeptSoFar, Kept, Ran, HasBoard
<1> QED BY <1>1, <1>2, <1>3, <1>4 DEF CloseOutNext

\* Where the gate has found no error, the promises are kept as the row is written.
LEMMA FlipFits ==
  ASSUME CloseOutInv, NEW d \in Desk, At(d, "flip"), NEW p \in Promises, p.on \cap touched[d] = {}
  PROVE  Kept(p.name)
<1>1. d \in Closer
  BY IdleFacts DEF CloseOutInv, At
<1>2. Passing(desk[d]) /\ KeptSoFar(d) /\ desk[d].at = "flip"
  BY <1>1 DEF CloseOutInv, At, Passing
<1> QED BY <1>2, NothingAhead DEF KeptSoFar

\* closeout.run_closeout, set_registry_status: when `shipped` is written, what the
\* plan promises of files nobody has written since the gate began is so, for any
\* number of desks, briefs and contents of the files.
THEOREM ShippedFit == CloseOutSpec => ShippedMeansFit
<1>1. CloseOutInv => \A d \in Desk : At(d, "flip") /\ desk'[d] = Idle /\ desk[d].status = "shipped" =>
                       \A p \in Promises : p.on \cap touched[d] = {} => Kept(p.name)
  BY FlipFits
<1> QED BY <1>1, CloseOutInitOK, CloseOutStep, PTL DEF CloseOutSpec, ShippedMeansFit
\* The jobs of a desk: a flip, and at those at which a plan is closed the gate.
RowsJob(j) ==
  /\ j = [at |-> "rows", stem |-> j.stem, status |-> j.status]
  /\ j.stem \in Stem /\ j.status \in Status

FlipJob(j) ==
  /\ j = [at |-> "flip", stem |-> j.stem, status |-> j.status, rows |-> j.rows]
  /\ j.stem \in Stem /\ j.status \in Status /\ j.rows \in [Stem -> Status \cup {None}]

GateJob(j) ==
  /\ j = [at |-> j.at, stem |-> Closing, status |-> "shipped", ok |-> j.ok, kept |-> j.kept]
  /\ j.at \in Steps /\ j.ok \in BOOLEAN

CloserJob(j) == j = Idle \/ RowsJob(j) \/ FlipJob(j) \/ GateJob(j)

\* The step a close-out job stands at decides which fields it has.
LEMMA CloserKinds ==
  ASSUME NEW j, CloserJob(j)
  PROVE  /\ j.at = "rows" => RowsJob(j)
         /\ j.at = "flip" => FlipJob(j)
         /\ j.at \in Steps => GateJob(j)
<1>1. /\ j = Idle => j.at = "idle"
      /\ RowsJob(j) => j.at = "rows"
      /\ FlipJob(j) => j.at = "flip"
      /\ GateJob(j) => j.at \in Steps
  BY DEF Idle, RowsJob, FlipJob, GateJob
<1>2. "idle" \notin Steps /\ "rows" \notin Steps /\ "flip" \notin Steps
  BY DEF Steps
<1> QED BY <1>1, <1>2 DEF CloserJob

CloseOutTyped ==
  /\ desk = [d \in Desk |-> desk[d]] /\ \A d \in Desk : CloserJob(desk[d])
  /\ rows \in [Stem -> Status \cup {None}]
  /\ flips \in Nat /\ writes \in Nat
  /\ DOMAIN doc = Files /\ \A f \in Files : doc[f] \in Drafts[f]
  /\ touched \in [Desk -> SUBSET Files]

\* The typing used here gives the type invariant the run checks.
LEMMA CloseOutTypedMeansTypeOK == CloseOutTyped => CloseOutTypeOK
<1> SUFFICES ASSUME CloseOutTyped PROVE CloseOutTypeOK
  OBVIOUS
<1>1. ASSUME NEW d \in Desk
      PROVE  /\ desk[d].at \in {"rows", "flip"} => desk[d].stem \in Stem /\ desk[d].status \in Status
             /\ desk[d].at = "flip" => desk[d].rows \in [Stem -> Status \cup {None}]
             /\ desk[d].at \in Steps => desk[d].stem \in Stem /\ desk[d].ok \in BOOLEAN
  <2>1. CloserJob(desk[d])
    BY DEF CloseOutTyped
  <2>2. GateJob(desk[d]) => desk[d].stem = Closing /\ desk[d].ok \in BOOLEAN
    BY DEF GateJob
  <2> QED BY <2>1, <2>2, CloserKinds, CloseOutAssumption DEF RowsJob, FlipJob
<1>2. RegistryTypeOK
  BY <1>1 DEF CloseOutTyped, RegistryTypeOK
<1>3. \A f \in Files : doc[f] \in Drafts[f] \cup {None}
  BY DEF CloseOutTyped
<1> QED BY <1>1, <1>2, <1>3, CloseOutAssumption DEF CloseOutTyped, CloseOutTypeOK

\* The initial close-out state is typed.
LEMMA CloseOutInitTyped == CloseOutInit => CloseOutTyped
<1> SUFFICES ASSUME CloseOutInit PROVE CloseOutTyped
  OBVIOUS
<1>1. DOMAIN doc = Files /\ \A f \in Files : doc[f] \in Drafts[f]
  BY CloseOutAssumption DEF CloseOutInit
<1>2. rows \in [Stem -> Status \cup {None}]
  BY DEF CloseOutInit, Status
<1>3. desk = [d \in Desk |-> desk[d]] /\ \A d \in Desk : CloserJob(desk[d])
  BY DEF CloseOutInit, CloserJob
<1> QED BY <1>1, <1>2, <1>3 DEF CloseOutInit, CloseOutTyped

\* A desk goes on, and neither the table nor a file is written.
LEMMA CloserGoes ==
  ASSUME CloseOutTyped, NEW d \in Desk, NEW job, Go(d, job), CloserJob(job),
         UNCHANGED <<rows, flips, doc, writes>>, touched' \in [Desk -> SUBSET Files]
  PROVE  CloseOutTyped'
<1>1. desk' = [desk EXCEPT ![d] = job]
  BY DEF Go
<1>2. desk' = [e \in Desk |-> desk'[e]] /\ \A e \in Desk : CloserJob(desk'[e])
  BY <1>1 DEF CloseOutTyped
<1> QED BY <1>2 DEF CloseOutTyped

\* What the gate does at each of its steps, but for the first and the last.
LEMMA GateGoes ==
  ASSUME NEW d \in Closer, Gate(d)
  PROVE  \/ Ship(d)
         \/ DecideFlip(d)
         \/ \E step \in Steps, ok \in BOOLEAN : \E kept1 : Then(d, step, ok, kept1)
<1>1. /\ CheckReport(d) => \E step \in Steps, ok \in BOOLEAN : \E kept1 : Then(d, step, ok, kept1)
      /\ CheckLink(d) => \E step \in Steps, ok \in BOOLEAN : \E kept1 : Then(d, step, ok, kept1)
  BY DEF CheckReport, CheckLink, Steps, Written, Linked
<1>2. /\ ReadVerdict(d) => \E step \in Steps, ok \in BOOLEAN : \E kept1 : Then(d, step, ok, kept1)
      /\ CheckVerdict(d) => \E step \in Steps, ok \in BOOLEAN : \E kept1 : Then(d, step, ok, kept1)
  BY DEF ReadVerdict, CheckVerdict, Steps, Verdict
<1>3. /\ CheckTracker(d) => \E step \in Steps, ok \in BOOLEAN : \E kept1 : Then(d, step, ok, kept1)
      /\ CheckFindings(d) => \E step \in Steps, ok \in BOOLEAN : \E kept1 : Then(d, step, ok, kept1)
  BY DEF CheckTracker, CheckFindings, Steps, Finished, Resolved
<1>4. ReadLanes(d) => \E step \in Steps, ok \in BOOLEAN : \E kept1 : Then(d, step, ok, kept1)
  BY DEF ReadLanes, Steps
<1>5. CheckRecord(d) => \E step \in Steps, ok \in BOOLEAN : \E kept1 : Then(d, step, ok, kept1)
  BY DEF CheckRecord, Steps, Recorded
<1>6. /\ ReadBriefs(d) => \E step \in Steps, ok \in BOOLEAN : \E kept1 : Then(d, step, ok, kept1)
      /\ ReadNa(d) => \E step \in Steps, ok \in BOOLEAN : \E kept1 : Then(d, step, ok, kept1)
      /\ ReadTasks(d) => \E step \in Steps, ok \in BOOLEAN : \E kept1 : Then(d, step, ok, kept1)
  BY DEF ReadBriefs, ReadNa, ReadTasks, Steps
<1>7. CheckBoardSync(d) => \E step \in Steps, ok \in BOOLEAN : \E kept1 : Then(d, step, ok, kept1)
  BY DEF CheckBoardSync, Steps, Delivered
<1>8. /\ ReadFindings(d) => \E step \in Steps, ok \in BOOLEAN : \E kept1 : Then(d, step, ok, kept1)
      /\ CheckTriage(d) => \E step \in Steps, ok \in BOOLEAN : \E kept1 : Then(d, step, ok, kept1)
  BY DEF ReadFindings, CheckTriage, Steps
<1> QED BY <1>1, <1>2, <1>3, <1>4, <1>5, <1>6, <1>7, <1>8 DEF Gate

\* A step of the gate keeps the close-out types.
LEMMA GateTyped == ASSUME CloseOutTyped, NEW d \in Closer, Gate(d) PROVE CloseOutTyped'
<1>0. d \in Desk /\ Closing \in Stem
  BY CloseOutAssumption
<1>1. CASE Ship(d)
  <2>1. PICK job : job = [at |-> "report", stem |-> Closing, status |-> "shipped", ok |-> TRUE, kept |-> None]
    OBVIOUS
  <2>2. Go(d, job) /\ UNCHANGED <<rows, flips, doc, writes>> /\ touched' = [touched EXCEPT ![d] = {}]
    BY <1>1, <2>1 DEF Ship
  <2>3. CloserJob(job)
    BY <2>1 DEF CloserJob, GateJob, Steps
  <2>4. touched' \in [Desk -> SUBSET Files]
    BY <1>0, <2>2 DEF CloseOutTyped
  <2> QED BY <1>0, <2>2, <2>3, <2>4, CloserGoes
<1>2. CASE DecideFlip(d)
  <2>1. PICK job : job = IF Job(d).ok THEN [at |-> "rows", stem |-> Closing, status |-> "shipped"] ELSE Idle
    OBVIOUS
  <2>2. Go(d, job) /\ UNCHANGED <<rows, flips, doc, writes, touched>>
    BY <1>2, <2>1 DEF DecideFlip
  <2>3. CloserJob(job)
    BY <1>0, <2>1 DEF CloserJob, RowsJob, Status
  <2> QED BY <1>0, <2>2, <2>3, CloserGoes DEF CloseOutTyped
<1>3. ASSUME NEW step \in Steps, NEW ok \in BOOLEAN, NEW kept1, Then(d, step, ok, kept1) PROVE CloseOutTyped'
  <2>1. PICK yes \in BOOLEAN : yes = (Job(d).ok /\ ok)
    OBVIOUS
  <2>2. PICK job : job = [at |-> step, stem |-> Closing, status |-> "shipped", ok |-> yes, kept |-> kept1]
    OBVIOUS
  <2>3. Go(d, job) /\ UNCHANGED <<rows, flips, doc, writes, touched>>
    BY <1>3, <2>1, <2>2 DEF Then
  <2>4. GateJob(job)
    BY <2>1, <2>2 DEF GateJob
  <2> QED BY <1>0, <2>3, <2>4, CloserGoes DEF CloseOutTyped, CloserJob
<1> QED BY <1>1, <1>2, <1>3, GateGoes

\* Flipping a plan's row keeps the close-out types.
LEMMA FlipTyped ==
  ASSUME CloseOutTyped, NEW d \in Closer, ReadRows(d) \/ WriteRow(d), UNCHANGED <<doc, writes, touched>>
  PROVE  CloseOutTyped'
<1>0. d \in Desk /\ CloserJob(desk[d])
  BY CloseOutAssumption DEF CloseOutTyped
<1>1. CASE ReadRows(d)
  <2>1. PICK seen \in RowsRead(d) :
          Go(d, IF seen[desk[d].stem] = None THEN Idle
                ELSE [at |-> "flip", stem |-> desk[d].stem, status |-> desk[d].status, rows |-> seen])
    BY <1>1 DEF ReadRows
  <2>2. RowsJob(desk[d]) /\ UNCHANGED <<rows, flips>>
    BY <1>0, <1>1, CloserKinds DEF ReadRows, At
  <2>3. seen \in [Stem -> Status \cup {None}]
    BY <2>1 DEF RowsRead, NoRows, CloseOutTyped
  <2>4. PICK job : job = IF seen[desk[d].stem] = None THEN Idle
                ELSE [at |-> "flip", stem |-> desk[d].stem, status |-> desk[d].status, rows |-> seen]
    OBVIOUS
  <2>5. CloserJob(job)
    BY <2>2, <2>3, <2>4 DEF CloserJob, RowsJob, FlipJob
  <2>6. Go(d, job)
    BY <2>1, <2>4
  <2> QED BY <1>0, <2>2, <2>5, <2>6, CloserGoes DEF CloseOutTyped
<1>2. CASE WriteRow(d)
  <2>1. FlipJob(desk[d])
    BY <1>0, <1>2, CloserKinds DEF WriteRow, At
  <2>2. rows' \in [Stem -> Status \cup {None}]
    BY <1>2, <2>1 DEF WriteRow, FlipJob
  <2>3. desk' = [desk EXCEPT ![d] = Idle] /\ UNCHANGED flips
    BY <1>2 DEF WriteRow, Go
  <2>4. desk' = [e \in Desk |-> desk'[e]] /\ \A e \in Desk : CloserJob(desk'[e])
    BY <2>3 DEF CloseOutTyped, CloserJob
  <2> QED BY <2>2, <2>3, <2>4 DEF CloseOutTyped
<1> QED BY <1>1, <1>2

\* Every close-out step keeps the close-out types.
LEMMA CloseOutStepTyped == CloseOutTyped /\ [CloseOutNext]_closeOutVars => CloseOutTyped'
<1> SUFFICES ASSUME CloseOutTyped, [CloseOutNext]_closeOutVars PROVE CloseOutTyped'
  OBVIOUS
<1>1. ASSUME NEW r \in Revision, Write(r[1], r[2]) PROVE CloseOutTyped'
  <2>1. PICK f \in Files : \E content \in Drafts[f] : r = <<f, content>>
    BY DEF Revision
  <2>2. PICK content \in Drafts[f] : r = <<f, content>>
    BY <2>1
  <2>3. /\ doc' = [doc EXCEPT ![f] = content] /\ writes' = writes + 1
        /\ touched' = [d \in Desk |-> IF desk[d] = Idle THEN {} ELSE touched[d] \cup {f}]
        /\ UNCHANGED <<rows, desk, flips>>
    BY <1>1, <2>2 DEF Write, registryVars
  <2>4. DOMAIN doc' = Files /\ \A g \in Files : doc'[g] \in Drafts[g]
    BY <2>1, <2>2, <2>3 DEF CloseOutTyped
  <2>5. touched' \in [Desk -> SUBSET Files]
    BY <2>1, <2>3 DEF CloseOutTyped
  <2> QED BY <2>3, <2>4, <2>5 DEF CloseOutTyped
<1>2. CASE UNCHANGED closeOutVars
  BY <1>2 DEF closeOutVars, registryVars, CloseOutTyped
<1> QED BY <1>1, <1>2, GateTyped, FlipTyped DEF CloseOutNext

\* A desk that closes a plan is at a step with what that step has to remember,
\* and each file holds something that somebody writes to it.
THEOREM CloseOutTypes == CloseOutSpec => []CloseOutTypeOK
BY CloseOutInitTyped, CloseOutStepTyped, CloseOutTypedMeansTypeOK, PTL DEF CloseOutSpec

-----------------------------------------------------------------------------
(* Preflight: types                                                        *)

EarlyJob(j) ==
  /\ j = [at |-> j.at, stem |-> j.stem, ok |-> j.ok, index |-> j.index]
  /\ j.at \in {"row", "grill", "hydrate", "briefs"}
  /\ j.stem \in Stem /\ j.ok \in BOOLEAN

PlansJob(j) ==
  /\ j = [at |-> "plans", stem |-> j.stem, index |-> j.index, briefs |-> j.briefs, ok |-> j.ok]
  /\ j.stem \in Stem /\ j.ok \in BOOLEAN

OthersJob(j) ==
  /\ j = [at |-> "others", stem |-> j.stem, index |-> j.index, briefs |-> j.briefs, ok |-> j.ok,
          others |-> j.others]
  /\ j.stem \in Stem /\ j.ok \in BOOLEAN
  /\ j.others \subseteq Stem \ {j.stem}

JobOK(j) == j = Idle \/ RowsJob(j) \/ FlipJob(j) \/ EarlyJob(j) \/ PlansJob(j) \/ OthersJob(j)

\* What a desk is at says which kind of job it has.
LEMMA JobKinds ==
  ASSUME NEW j, JobOK(j)
  PROVE  /\ j.at = "idle" => j = Idle
         /\ j.at = "rows" => RowsJob(j)
         /\ j.at = "flip" => FlipJob(j)
         /\ j.at \in {"row", "grill", "hydrate", "briefs"} => EarlyJob(j)
         /\ j.at = "plans" => PlansJob(j)
         /\ j.at = "others" => OthersJob(j)
         /\ j.at \in {"idle", "rows", "flip"} \cup Checking
<1>1. /\ j = Idle => j.at = "idle"
      /\ RowsJob(j) => j.at = "rows"
      /\ FlipJob(j) => j.at = "flip"
      /\ PlansJob(j) => j.at = "plans"
      /\ OthersJob(j) => j.at = "others"
      /\ EarlyJob(j) => j.at \in {"row", "grill", "hydrate", "briefs"}
  BY DEF Idle, RowsJob, FlipJob, PlansJob, OthersJob, EarlyJob
<1> QED BY <1>1 DEF JobOK, Checking

Desks == desk = [d \in Desk |-> desk[d]] /\ \A d \in Desk : JobOK(desk[d])

RestTyped ==
  /\ rows \in [Stem -> Status \cup {None}]
  /\ flips \in Nat
  /\ folder = [s \in Stem |-> folder[s]] /\ \A s \in Stem : FolderOK(folder[s])
  /\ hydrated = [s \in Stem |-> hydrated[s]]
  /\ board \subseteq Pointer
  /\ edits \in Nat
  /\ passed \subseteq Stem /\ loose \subseteq Stem
  /\ known \in [Stem -> SUBSET Pointer]

Typed == Desks /\ RestTyped

\* What is proved implies the type invariant that the runs check.
LEMMA TypedMeansTypeOK == Typed => PreflightTypeOK
<1>1. ASSUME Typed, NEW d \in Desk
      PROVE  /\ desk[d].at \in {"rows", "flip"} => desk[d].stem \in Stem /\ desk[d].status \in Status
             /\ desk[d].at = "flip" => desk[d].rows \in [Stem -> Status \cup {None}]
             /\ desk[d].at \in Checking => desk[d].stem \in Stem /\ desk[d].ok \in BOOLEAN
             /\ desk[d].at = "others" => desk[d].others \subseteq Stem \ {desk[d].stem}
  <2>1. JobOK(desk[d])
    BY <1>1 DEF Typed, Desks
  <2> QED BY <2>1, JobKinds DEF RowsJob, FlipJob, EarlyJob, PlansJob, OthersJob, Checking
<1> QED BY <1>1 DEF Typed, Desks, RestTyped, PreflightTypeOK, RegistryTypeOK

\* A desk goes on to a job of some kind.
LEMMA Moves ==
  ASSUME Desks, NEW d \in Desk, NEW j, JobOK(j), Go(d, j)
  PROVE  /\ Desks'
         /\ desk'[d] = j
         /\ \A e \in Desk \ {d} : desk'[e] = desk[e]
<1>1. /\ desk' = [e \in Desk |-> desk'[e]]
      /\ desk'[d] = j
      /\ \A e \in Desk \ {d} : desk'[e] = desk[e]
  BY DEF Desks, Go
<1> QED BY <1>1 DEF Desks

\* The gate goes on.
LEMMA GoesOn ==
  ASSUME Typed, NEW d \in Desk, EarlyJob(desk[d]),
         NEW step \in {"grill", "hydrate", "briefs"}, NEW ok \in BOOLEAN, Onward(d, step, ok)
  PROVE  /\ Desks'
         /\ desk'[d] = [at |-> step, stem |-> desk[d].stem, ok |-> desk[d].ok /\ ok, index |-> desk[d].index]
         /\ \A e \in Desk \ {d} : desk'[e] = desk[e]
<1> DEFINE j == [at |-> step, stem |-> desk[d].stem, ok |-> desk[d].ok /\ ok, index |-> desk[d].index]
<1>1. JobOK(j)
  BY DEF JobOK, EarlyJob
<1> QED BY <1>1, Moves DEF Typed, Onward

\* What a desk reads of the table is a table.
LEMMA Tables ==
  ASSUME RestTyped, NEW d \in Desk, NEW seen \in RowsRead(d)
  PROVE  seen \in [Stem -> Status \cup {None}]
BY DEF RestTyped, RowsRead, NoRows

\* What the gate at a desk leaves alone.
Quiet(d) ==
  /\ UNCHANGED <<rows, folder, board, edits>>
  /\ \A e \in Desk \ {d} : desk'[e] = desk[e]

\* What starting a preflight does: it loads the plan's folder, or stops when there is none.
LEMMA StartStep ==
  ASSUME Typed, NEW d \in Desk, NEW s \in Stem, Start(d, s)
  PROVE  /\ Typed' /\ Quiet(d)
         /\ desk[d] = Idle
         /\ desk'[d] = IF folder[s] = None THEN Idle ELSE [at |-> "row", stem |-> s, ok |-> TRUE, index |-> Index(s)]
<1> DEFINE j == IF folder[s] = None THEN Idle ELSE [at |-> "row", stem |-> s, ok |-> TRUE, index |-> Index(s)]
<1>1. JobOK(j)
  BY DEF JobOK, EarlyJob
<1>2. Go(d, j)
  BY DEF Start
<1> HIDE DEF j
<1>3. /\ Desks' /\ desk'[d] = j /\ \A e \in Desk \ {d} : desk'[e] = desk[e]
  BY <1>1, <1>2, Moves DEF Typed
<1>4. RestTyped' /\ desk[d] = Idle /\ UNCHANGED <<rows, folder, board, edits>>
  BY DEF Start, Typed, RestTyped
<1> QED BY <1>3, <1>4 DEF Typed, Quiet, j

\* What reading the plan's own row does: a shipped plan skips the grill check.
LEMMA ReadOwnRowStep ==
  ASSUME Typed, NEW d \in Desk, ReadOwnRow(d)
  PROVE  /\ Typed' /\ Quiet(d) /\ UNCHANGED <<passed, loose, known, hydrated>>
         /\ EarlyJob(desk[d]) /\ desk[d].at = "row"
         /\ \E seen \in RowsRead(d) :
              desk'[d] = [at |-> IF seen[desk[d].stem] = "shipped" THEN "hydrate" ELSE "grill",
                          stem |-> desk[d].stem, ok |-> desk[d].ok /\ TRUE, index |-> desk[d].index]
<1>1. PICK seen \in RowsRead(d) :
        Onward(d, IF seen[desk[d].stem] = "shipped" THEN "hydrate" ELSE "grill", TRUE)
  BY DEF ReadOwnRow
<1>2. desk[d].at = "row" /\ JobOK(desk[d])
  BY DEF ReadOwnRow, At, Typed, Desks
<1>3. EarlyJob(desk[d])
  BY <1>2, JobKinds
<1> DEFINE step == IF seen[desk[d].stem] = "shipped" THEN "hydrate" ELSE "grill"
<1>4. step \in {"grill", "hydrate", "briefs"}
  OBVIOUS
<1>5. Onward(d, step, TRUE)
  BY <1>1
<1> HIDE DEF step
<1>6. /\ Desks'
      /\ desk'[d] = [at |-> step, stem |-> desk[d].stem, ok |-> desk[d].ok /\ TRUE, index |-> desk[d].index]
      /\ \A e \in Desk \ {d} : desk'[e] = desk[e]
  BY <1>3, <1>4, <1>5, GoesOn
<1>7. RestTyped' /\ UNCHANGED <<rows, folder, board, edits, passed, loose, known, hydrated>>
  BY DEF ReadOwnRow, Unwritten, Verdicts, Typed, RestTyped
<1> QED BY <1>2, <1>3, <1>6, <1>7 DEF Typed, Quiet, step

\* What the grill check does: it fails a plan that was not grilled.
LEMMA CheckGrillStep ==
  ASSUME Typed, NEW d \in Desk, CheckGrill(d)
  PROVE  /\ Typed' /\ Quiet(d) /\ UNCHANGED <<passed, loose, known, hydrated>>
         /\ EarlyJob(desk[d]) /\ desk[d].at = "grill"
         /\ desk'[d] = [at |-> "hydrate", stem |-> desk[d].stem,
                        ok |-> desk[d].ok /\ (folder[desk[d].stem] # None /\ folder[desk[d].stem].grilled),
                        index |-> desk[d].index]
<1> DEFINE ok == folder[desk[d].stem] # None /\ folder[desk[d].stem].grilled
<1>1. desk[d].at = "grill" /\ JobOK(desk[d])
  BY DEF CheckGrill, At, Typed, Desks
<1>2. EarlyJob(desk[d])
  BY <1>1, JobKinds
<1>3. ok \in BOOLEAN /\ Onward(d, "hydrate", ok)
  BY DEF CheckGrill
<1> HIDE DEF ok
<1>4. /\ Desks'
      /\ desk'[d] = [at |-> "hydrate", stem |-> desk[d].stem, ok |-> desk[d].ok /\ ok, index |-> desk[d].index]
      /\ \A e \in Desk \ {d} : desk'[e] = desk[e]
  BY <1>2, <1>3, GoesOn
<1>5. RestTyped' /\ UNCHANGED <<rows, folder, board, edits, passed, loose, known, hydrated>>
  BY DEF CheckGrill, Unwritten, Verdicts, Typed, RestTyped
<1> QED BY <1>1, <1>2, <1>4, <1>5 DEF Typed, Quiet, ok

\* What a desk at the last step of the early ones, or beyond it, makes.
LEMMA GoesAbroad ==
  ASSUME Typed, NEW d \in Desk, PlansJob(desk[d]) \/ OthersJob(desk[d]),
         NEW ok \in BOOLEAN, NEW others \in SUBSET (Stem \ {desk[d].stem}), Abroad(d, ok, others)
  PROVE  /\ Desks'
         /\ desk'[d] = [at |-> "others", stem |-> desk[d].stem, index |-> desk[d].index, briefs |-> desk[d].briefs,
                        ok |-> desk[d].ok /\ ok, others |-> others]
         /\ \A e \in Desk \ {d} : desk'[e] = desk[e]
<1> DEFINE j == [at |-> "others", stem |-> desk[d].stem, index |-> desk[d].index, briefs |-> desk[d].briefs,
                 ok |-> desk[d].ok /\ ok, others |-> others]
<1>1. desk[d].stem \in Stem /\ desk[d].ok \in BOOLEAN
  BY DEF PlansJob, OthersJob
<1>2. OthersJob(j)
  BY <1>1 DEF OthersJob
<1> QED BY <1>2, Moves DEF Typed, Abroad, JobOK

\* Hydrating gives each lane its pointers, once they are found on the board.
WrittenPoints(s) == [l \in DOMAIN folder[s].rows |-> folder[s].rows[l].points]

\* What hydration does: it writes the points of the plan's lanes when they resolve on the board.
LEMMA HydrateStep ==
  ASSUME Typed, NEW d \in Desk, Hydrate(d)
  PROVE  /\ Typed' /\ Quiet(d) /\ UNCHANGED <<passed, loose, known>>
         /\ EarlyJob(desk[d]) /\ desk[d].at = "hydrate"
         /\ \E ok \in BOOLEAN :
              /\ desk'[d] = [at |-> "briefs", stem |-> desk[d].stem, ok |-> desk[d].ok /\ ok, index |-> desk[d].index]
              /\ \/ Dashes(desk[d].index) /\ UNCHANGED hydrated
                 \/ /\ folder[desk[d].stem] # None
                    /\ Resolves(folder[desk[d].stem], board)
                    /\ hydrated' = [hydrated EXCEPT ![desk[d].stem] = WrittenPoints(desk[d].stem)]
                 \/ ~ok /\ UNCHANGED hydrated
<1>1. desk[d].at = "hydrate" /\ JobOK(desk[d])
  BY DEF Hydrate, At, Typed, Desks
<1>2. EarlyJob(desk[d])
  BY <1>1, JobKinds
<1>3. PICK ok \in BOOLEAN :
        /\ Onward(d, "briefs", ok)
        /\ \/ Dashes(desk[d].index) /\ UNCHANGED hydrated
           \/ /\ folder[desk[d].stem] # None
              /\ Resolves(folder[desk[d].stem], board)
              /\ hydrated' = [hydrated EXCEPT ![desk[d].stem] = WrittenPoints(desk[d].stem)]
           \/ ~ok /\ UNCHANGED hydrated
  BY Zenon DEF Hydrate, WrittenPoints
<1>4. /\ Desks'
      /\ desk'[d] = [at |-> "briefs", stem |-> desk[d].stem, ok |-> desk[d].ok /\ ok, index |-> desk[d].index]
      /\ \A e \in Desk \ {d} : desk'[e] = desk[e]
  BY <1>2, <1>3, GoesOn
<1>5. UNCHANGED <<rows, flips, folder, board, edits, passed, loose, known>>
  BY DEF Hydrate, Unwritten, Verdicts
<1>6. hydrated' = [s \in Stem |-> hydrated'[s]]
  BY <1>3 DEF Typed, RestTyped
<1>7. RestTyped'
  BY <1>5, <1>6 DEF Typed, RestTyped
<1> QED BY <1>1, <1>2, <1>3, <1>4, <1>5, <1>7 DEF Typed, Quiet

\* What the briefs check does: it reads the briefs and compares them with the index it holds.
LEMMA CheckBriefsStep ==
  ASSUME Typed, NEW d \in Desk, CheckBriefs(d)
  PROVE  /\ Typed' /\ Quiet(d) /\ UNCHANGED <<passed, loose, known, hydrated>>
         /\ EarlyJob(desk[d]) /\ desk[d].at = "briefs"
         /\ \E briefs :
              /\ folder[desk[d].stem] # None => briefs = folder[desk[d].stem].briefs
              /\ desk'[d] = [at |-> "plans", stem |-> desk[d].stem, index |-> desk[d].index, briefs |-> briefs,
                             ok |-> /\ desk[d].ok
                                    /\ ~Drifted(desk[d].index, briefs)
                                    /\ ~SameWaveOverlap(desk[d].index, briefs)
                                    /\ Plain(desk[d].index) /\ Cited(desk[d].index, briefs)]
<1> DEFINE briefs == IF folder[desk[d].stem] = None THEN [l \in {} |-> None] ELSE folder[desk[d].stem].briefs
           ok == /\ desk[d].ok
                 /\ ~Drifted(desk[d].index, briefs)
                 /\ ~SameWaveOverlap(desk[d].index, briefs)
                 /\ Plain(desk[d].index) /\ Cited(desk[d].index, briefs)
           j == [at |-> "plans", stem |-> desk[d].stem, index |-> desk[d].index, briefs |-> briefs, ok |-> ok]
<1>1. desk[d].at = "briefs" /\ JobOK(desk[d])
  BY DEF CheckBriefs, At, Typed, Desks
<1>2. EarlyJob(desk[d])
  BY <1>1, JobKinds
<1>3. Go(d, j) /\ ok \in BOOLEAN
  BY DEF CheckBriefs
<1>4. folder[desk[d].stem] # None => briefs = folder[desk[d].stem].briefs
  OBVIOUS
<1>5. j = [at |-> "plans", stem |-> desk[d].stem, index |-> desk[d].index, briefs |-> briefs,
           ok |-> /\ desk[d].ok
                  /\ ~Drifted(desk[d].index, briefs)
                  /\ ~SameWaveOverlap(desk[d].index, briefs)
                  /\ Plain(desk[d].index) /\ Cited(desk[d].index, briefs)]
  OBVIOUS
<1> HIDE DEF briefs, ok
<1>6. PlansJob(j)
  BY <1>2, <1>3 DEF EarlyJob, PlansJob
<1> HIDE DEF j
<1>7. /\ Desks' /\ desk'[d] = j /\ \A e \in Desk \ {d} : desk'[e] = desk[e]
  BY <1>3, <1>6, Moves DEF Typed, JobOK
<1>8. RestTyped' /\ UNCHANGED <<rows, folder, board, edits, passed, loose, known, hydrated>>
  BY DEF CheckBriefs, Unwritten, Verdicts, Typed, RestTyped
<1> QED BY <1>1, <1>2, <1>4, <1>5, <1>7, <1>8 DEF Typed, Quiet

\* What reading the registry does: it lists the other plans under way.
LEMMA ReadPlansStep ==
  ASSUME Typed, NEW d \in Desk, ReadPlans(d)
  PROVE  /\ Typed' /\ Quiet(d) /\ UNCHANGED <<passed, known, hydrated>>
         /\ PlansJob(desk[d])
         /\ \E seen \in RowsRead(d) :
              /\ desk'[d] = [at |-> "others", stem |-> desk[d].stem, index |-> desk[d].index, briefs |-> desk[d].briefs,
                             ok |-> desk[d].ok /\ TRUE, others |-> UnderWay(seen, desk[d].stem)]
              /\ loose' = IF seen = rows THEN loose ELSE loose \cup {desk[d].stem}
<1>1. desk[d].at = "plans" /\ JobOK(desk[d])
  BY DEF ReadPlans, At, Typed, Desks
<1>2. PlansJob(desk[d])
  BY <1>1, JobKinds
<1>3. PICK seen \in RowsRead(d) :
        /\ Abroad(d, TRUE, UnderWay(seen, desk[d].stem))
        /\ loose' = IF seen = rows THEN loose ELSE loose \cup {desk[d].stem}
  BY DEF ReadPlans
<1>4. UnderWay(seen, desk[d].stem) \in SUBSET (Stem \ {desk[d].stem})
  BY DEF UnderWay
<1>5. /\ Desks'
      /\ desk'[d] = [at |-> "others", stem |-> desk[d].stem, index |-> desk[d].index, briefs |-> desk[d].briefs,
                     ok |-> desk[d].ok /\ TRUE, others |-> UnderWay(seen, desk[d].stem)]
      /\ \A e \in Desk \ {d} : desk'[e] = desk[e]
  BY <1>2, <1>3, <1>4, GoesAbroad
<1>6. UNCHANGED <<rows, flips, folder, board, edits, passed, known, hydrated>>
  BY DEF ReadPlans, Verdicts
<1>7. RestTyped'
  BY <1>2, <1>3, <1>6 DEF Typed, RestTyped, PlansJob
<1> QED BY <1>2, <1>3, <1>5, <1>6, <1>7 DEF Typed, Quiet

\* What comparing with one other plan does: it fails when the two own overlapping paths.
LEMMA ReadOtherStep ==
  ASSUME Typed, NEW d \in Desk, ReadOther(d)
  PROVE  /\ Typed' /\ Quiet(d) /\ UNCHANGED <<passed, loose, known, hydrated>>
         /\ OthersJob(desk[d])
         /\ \E t \in desk[d].others, ok \in BOOLEAN :
              /\ ok => folder[t] = None \/ ~Overlap(Owned(desk[d].index), Owned(folder[t]))
              /\ desk'[d] = [at |-> "others", stem |-> desk[d].stem, index |-> desk[d].index, briefs |-> desk[d].briefs,
                             ok |-> desk[d].ok /\ ok, others |-> desk[d].others \ {t}]
<1>1. desk[d].at = "others" /\ JobOK(desk[d])
  BY DEF ReadOther, At, Typed, Desks
<1>2. OthersJob(desk[d])
  BY <1>1, JobKinds
<1>3. PICK t \in desk[d].others :
        Abroad(d, folder[t] = None \/ ~Overlap(Owned(desk[d].index), Owned(folder[t])), desk[d].others \ {t})
  BY DEF ReadOther
<1> DEFINE ok == folder[t] = None \/ ~Overlap(Owned(desk[d].index), Owned(folder[t]))
<1>4. /\ ok \in BOOLEAN /\ Abroad(d, ok, desk[d].others \ {t})
      /\ ok => folder[t] = None \/ ~Overlap(Owned(desk[d].index), Owned(folder[t]))
  BY <1>3
<1>5. desk[d].others \ {t} \in SUBSET (Stem \ {desk[d].stem})
  BY <1>2 DEF OthersJob
<1> HIDE DEF ok
<1>6. /\ Desks'
      /\ desk'[d] = [at |-> "others", stem |-> desk[d].stem, index |-> desk[d].index, briefs |-> desk[d].briefs,
                     ok |-> desk[d].ok /\ ok, others |-> desk[d].others \ {t}]
      /\ \A e \in Desk \ {d} : desk'[e] = desk[e]
  BY <1>2, <1>4, <1>5, GoesAbroad
<1>7. RestTyped' /\ UNCHANGED <<rows, folder, board, edits, passed, loose, known, hydrated>>
  BY DEF ReadOther, Unwritten, Verdicts, Typed, RestTyped
<1> QED BY <1>2, <1>4, <1>6, <1>7 DEF Typed, Quiet

\* Every lane has an answer for the decisions that are about its paths.
AnswersAll(index, briefs, has) ==
  \A l \in DOMAIN index.rows : Candidates(index, briefs, l, has) \subseteq Handled(index, l)

\* What the last check does: a passing verdict means every decision is answered on the board.
LEMMA CheckDecisionsStep ==
  ASSUME Typed, NEW d \in Desk, CheckDecisions(d)
  PROVE  /\ Typed' /\ Quiet(d) /\ UNCHANGED <<loose, hydrated>>
         /\ OthersJob(desk[d]) /\ desk[d].others = {}
         /\ desk'[d] = Idle
         /\ \/ UNCHANGED <<passed, known>>
            \/ /\ desk[d].ok /\ AnswersAll(desk[d].index, desk[d].briefs, board)
               /\ passed' = passed \cup {desk[d].stem}
               /\ known' = [known EXCEPT ![desk[d].stem] = board]
<1>1. desk[d].at = "others" /\ JobOK(desk[d])
  BY DEF CheckDecisions, At, Typed, Desks
<1>2. OthersJob(desk[d])
  BY <1>1, JobKinds
<1>3. /\ Desks' /\ desk'[d] = Idle /\ \A e \in Desk \ {d} : desk'[e] = desk[e]
  BY Moves DEF CheckDecisions, JobOK, Typed
<1>4. \/ UNCHANGED <<passed, known>>
      \/ /\ desk[d].ok /\ AnswersAll(desk[d].index, desk[d].briefs, board)
         /\ passed' = passed \cup {desk[d].stem}
         /\ known' = [known EXCEPT ![desk[d].stem] = board]
  BY DEF CheckDecisions, AnswersAll, Verdicts
<1>5. desk[d].others = {} /\ UNCHANGED <<rows, flips, folder, board, edits, loose, hydrated>>
  BY DEF CheckDecisions, Unwritten
<1>6. passed' \subseteq Stem /\ known' \in [Stem -> SUBSET Pointer]
  BY <1>2, <1>4 DEF Typed, RestTyped, OthersJob
<1>7. RestTyped'
  BY <1>5, <1>6 DEF Typed, RestTyped
<1> QED BY <1>2, <1>3, <1>4, <1>5, <1>7 DEF Typed, Quiet

\* What redrafting a plan does: it changes that folder and loosens what was checked of it.
LEMMA RedraftStep ==
  ASSUME Typed, NEW s \in Stem, NEW f \in Redrafts, Redraft(s, f)
  PROVE  /\ Typed'
         /\ UNCHANGED <<rows, desk, board, hydrated, passed, known>>
         /\ \A t \in Stem \ {s} : folder'[t] = folder[t]
         /\ loose' = loose \cup {s}
<1>1. UNCHANGED <<rows, desk, flips, board, hydrated, passed, known>> /\ loose' = loose \cup {s} /\ edits' = edits + 1
  BY DEF Redraft, registryVars, Verdicts
<1>2. /\ folder' = [t \in Stem |-> folder'[t]]
      /\ \A t \in Stem \ {s} : folder'[t] = folder[t]
      /\ folder'[s] = f
  BY DEF Redraft, Typed, RestTyped
<1>3. \A t \in Stem : FolderOK(folder'[t])
  BY <1>2, PreflightAssumption DEF Typed, RestTyped
<1>4. RestTyped'
  BY <1>1, <1>2, <1>3 DEF Typed, RestTyped
<1>5. Desks'
  BY <1>1 DEF Typed, Desks
<1> QED BY <1>1, <1>2, <1>4, <1>5 DEF Typed

\* What registering a plan does: its row becomes active.
LEMMA RegisterStep ==
  ASSUME Typed, NEW s \in Stem, Register(s)
  PROVE  /\ Typed'
         /\ UNCHANGED <<desk, folder, board, hydrated, passed, known, loose>>
         /\ \A t \in Stem : rows'[t] = rows[t] \/ rows'[t] \in Active
<1>1. UNCHANGED <<desk, flips, folder, board, hydrated, passed, known, loose>> /\ edits' = edits + 1
  BY DEF Register, Verdicts
<1>2. /\ rows' \in [Stem -> Status \cup {None}]
      /\ \A t \in Stem : rows'[t] = rows[t] \/ rows'[t] \in Active
  BY DEF Register, Typed, RestTyped, Status, Active
<1>3. RestTyped'
  BY <1>1, <1>2 DEF Typed, RestTyped
<1>4. Desks'
  BY <1>1 DEF Typed, Desks
<1> QED BY <1>1, <1>2, <1>3, <1>4 DEF Typed

\* What recording a decision does: the board only gains answers.
LEMMA DecideStep ==
  ASSUME Typed, NEW p \in Pointer, Decide(p)
  PROVE  /\ Typed'
         /\ UNCHANGED <<rows, desk, folder, hydrated, passed, known, loose>>
         /\ board \subseteq board'
<1>1. UNCHANGED <<rows, desk, flips, folder, hydrated, passed, known, loose>> /\ edits' = edits + 1 /\ board' = board \cup {p}
  BY DEF Decide, registryVars, Verdicts
<1>2. RestTyped'
  BY <1>1 DEF Typed, RestTyped
<1>3. Desks'
  BY <1>1 DEF Typed, Desks
<1> QED BY <1>1, <1>2, <1>3 DEF Typed

\* A flip touches desks that run no gate, and the table.
LEMMA FlipRowStep ==
  ASSUME Typed, NEW d \in Desk, FlipRow(d)
  PROVE  /\ Typed'
         /\ UNCHANGED <<folder, board, hydrated, passed, known>>
         /\ loose' = loose \cup {s \in Stem : rows'[s] \notin Active}
         /\ desk[d].at \notin Checking /\ desk'[d].at \notin Checking
         /\ \A e \in Desk \ {d} : desk'[e] = desk[e]
<1>1. /\ UNCHANGED <<folder, board, hydrated, edits, passed, known>>
      /\ loose' = loose \cup {s \in Stem : rows'[s] \notin Active}
  BY DEF FlipRow, Verdicts
<1>2. loose' \subseteq Stem /\ JobOK(desk[d])
  BY <1>1 DEF Typed, RestTyped, Desks
<1>3. CASE ReadRows(d)
  <2>1. PICK seen \in RowsRead(d) :
          Go(d, IF seen[desk[d].stem] = None THEN Idle
                ELSE [at |-> "flip", stem |-> desk[d].stem, status |-> desk[d].status, rows |-> seen])
    BY <1>3 DEF ReadRows
  <2>2. desk[d].at = "rows" /\ UNCHANGED <<rows, flips>>
    BY <1>3 DEF ReadRows, At
  <2>3. desk[d].stem \in Stem /\ desk[d].status \in Status
    BY <1>2, <2>2, JobKinds DEF RowsJob
  <2> DEFINE j == IF seen[desk[d].stem] = None THEN Idle
                  ELSE [at |-> "flip", stem |-> desk[d].stem, status |-> desk[d].status, rows |-> seen]
  <2>4. seen \in [Stem -> Status \cup {None}]
    BY Tables DEF Typed
  <2>5. JobOK(j) /\ j.at \notin Checking
    BY <2>3, <2>4 DEF JobOK, FlipJob, Idle, Checking
  <2> HIDE DEF j
  <2>6. Go(d, j)
    BY <2>1 DEF j
  <2>7. /\ Desks' /\ desk'[d] = j /\ \A e \in Desk \ {d} : desk'[e] = desk[e]
    BY <2>5, <2>6, Moves DEF Typed
  <2>8. RestTyped'
    BY <1>1, <1>2, <2>2 DEF Typed, RestTyped
  <2> QED BY <1>1, <2>2, <2>5, <2>7, <2>8 DEF Typed, Checking
<1>4. CASE WriteRow(d)
  <2>1. desk[d].at = "flip" /\ Go(d, Idle) /\ UNCHANGED flips
        /\ rows' = [desk[d].rows EXCEPT ![desk[d].stem] = desk[d].status]
    BY <1>4 DEF WriteRow, At
  <2>2. FlipJob(desk[d])
    BY <1>2, <2>1, JobKinds
  <2>3. rows' \in [Stem -> Status \cup {None}]
    BY <2>1, <2>2 DEF FlipJob
  <2>4. /\ Desks' /\ desk'[d] = Idle /\ \A e \in Desk \ {d} : desk'[e] = desk[e]
    BY <2>1, Moves DEF Typed, JobOK
  <2>5. RestTyped'
    BY <1>1, <1>2, <2>1, <2>3 DEF Typed, RestTyped
  <2> QED BY <1>1, <2>1, <2>4, <2>5 DEF Typed, Checking, Idle
<1>5. CASE \E s \in Stem, status \in Status : Flip(d, s, status)
  <2>1. PICK s \in Stem, status \in Status : Flip(d, s, status)
    BY <1>5
  <2>2. desk[d] = Idle /\ flips' = flips + 1 /\ UNCHANGED rows /\ Go(d, [at |-> "rows", stem |-> s, status |-> status])
    BY <2>1 DEF Flip
  <2>3. JobOK([at |-> "rows", stem |-> s, status |-> status])
    BY DEF JobOK, RowsJob
  <2>4. /\ Desks' /\ desk'[d] = [at |-> "rows", stem |-> s, status |-> status]
        /\ \A e \in Desk \ {d} : desk'[e] = desk[e]
    BY <2>2, <2>3, Moves DEF Typed
  <2>5. RestTyped'
    BY <1>1, <1>2, <2>2 DEF Typed, RestTyped
  <2> QED BY <1>1, <2>2, <2>4, <2>5 DEF Typed, Checking, Idle
<1> QED BY <1>3, <1>4, <1>5 DEF FlipRow

\* The initial preflight state is typed.
LEMMA InitTyped == PreflightInit => Typed
<1> SUFFICES ASSUME PreflightInit PROVE Typed
  OBVIOUS
<1>1. PICK start \in Setups :
        /\ rows = start.rows /\ folder = start.folder /\ board = start.board
        /\ flips = start.flips /\ edits = start.edits
  BY DEF PreflightInit
<1>2. /\ start.rows \in [Stem -> Status \cup {None}]
      /\ start.folder = [s \in Stem |-> start.folder[s]]
      /\ \A s \in Stem : FolderOK(start.folder[s])
      /\ start.board \subseteq Pointer
      /\ start.flips \in Nat /\ start.edits \in Nat
  BY PreflightAssumption
<1>3. /\ desk = [d \in Desk |-> Idle]
      /\ hydrated = [s \in Stem |-> None]
      /\ passed = {} /\ loose = {}
      /\ known = [s \in Stem |-> {}]
  BY DEF PreflightInit
<1>4. Desks
  BY <1>3 DEF Desks, JobOK
<1>5. RestTyped
  BY <1>1, <1>2, <1>3 DEF RestTyped
<1> QED BY <1>4, <1>5 DEF Typed

\* A stuttering step keeps the preflight types.
LEMMA StutterTyped ==
  ASSUME Typed, UNCHANGED preflightVars
  PROVE  Typed'
BY DEF Typed, Desks, RestTyped, preflightVars, registryVars

\* Every preflight step keeps the preflight types.
LEMMA StepTyped == Typed /\ [PreflightNext]_preflightVars => Typed'
<1> SUFFICES ASSUME Typed, [PreflightNext]_preflightVars PROVE Typed'
  OBVIOUS
<1>1. ASSUME NEW d \in Desk, Preflight(d) PROVE Typed'
  BY <1>1, StartStep, ReadOwnRowStep, CheckGrillStep, HydrateStep, CheckBriefsStep, ReadPlansStep, ReadOtherStep,
     CheckDecisionsStep DEF Preflight
<1>2. ASSUME NEW d \in Desk, FlipRow(d) PROVE Typed'
  BY <1>2, FlipRowStep
<1>3. ASSUME NEW s \in Stem, Register(s) PROVE Typed'
  BY <1>3, RegisterStep
<1>4. ASSUME NEW s \in Stem, NEW f \in Redrafts, Redraft(s, f) PROVE Typed'
  BY <1>4, RedraftStep
<1>5. ASSUME NEW p \in Pointer, Decide(p) PROVE Typed'
  BY <1>5, DecideStep
<1>6. CASE UNCHANGED preflightVars
  BY <1>6, StutterTyped
<1> QED BY <1>1, <1>2, <1>3, <1>4, <1>5, <1>6 DEF PreflightNext

(* Every reachable state is well typed: a desk is at a step with what that *)
(* step has to remember, and no plan is among those it is compared with.   *)
THEOREM PreflightTypes == PreflightSpec => []PreflightTypeOK
<1>1. PreflightSpec => []Typed
  BY InitTyped, StepTyped, PTL DEF PreflightSpec
<1> QED BY <1>1, TypedMeansTypeOK, PTL

-----------------------------------------------------------------------------
(* Preflight: plans that run side by side                                  *)

\* The check at desk d is of a plan that was not written since it began.
Counts(d) == desk[d].at \in Checking /\ desk[d].stem \notin loose

\* A plan whose checks count, or have counted.
Standing(s) == s \notin loose /\ (s \in passed \/ \E d \in Desk : desk[d].at \in Checking /\ desk[d].stem = s)

\* Some check of s has nothing more to ask of t, or had none.
Done(s, t) ==
  s \in passed \/ \E d \in Desk : /\ desk[d].at = "others" /\ desk[d].stem = s
                                  /\ desk[d].ok /\ t \notin desk[d].others

OwnApart(s, t) == ~Overlap(Owned(folder[s]), Owned(folder[t]))

InvFresh == \A s \in Stem : Standing(s) => rows[s] \in Active /\ folder[s] # None
InvIndex == \A d \in Desk : Counts(d) => desk[d].index = Index(desk[d].stem)
InvApart ==
  \A s, t \in Stem : s # t /\ Standing(s) /\ Standing(t) /\ Done(s, t) /\ Done(t, s) => OwnApart(s, t)

Sides == InvFresh /\ InvIndex /\ InvApart

\* A step that lets the check at desk d go on: no other plan begins to count.
Continues(d) ==
  /\ Quiet(d)
  /\ desk[d].at \in Checking /\ desk[d].stem \in Stem
  /\ desk'[d].at \in Checking => desk'[d].stem = desk[d].stem /\ desk'[d].index = desk[d].index
  /\ passed' \subseteq passed \cup {desk[d].stem}
  /\ loose \subseteq loose'

\* Owning apart is symmetric.
LEMMA ApartIsMutual == \A s, t \in Stem : OwnApart(s, t) => OwnApart(t, s)
BY DEF OwnApart, Overlap, PathsOverlap

\* A plan's index owns the same paths as the folder it was read from.
LEMMA IndexOwns ==
  ASSUME NEW s \in Stem
  PROVE  Owned(Index(s)) = Owned(folder[s])
BY DEF Owned, Index

\* What was read first is what is there, as long as the plan is not written.
LEMMA ContinuesKeeps ==
  ASSUME Typed, InvFresh, InvIndex, NEW d \in Desk, Continues(d)
  PROVE  /\ \A s \in Stem : Standing(s)' => Standing(s)
         /\ InvFresh' /\ InvIndex'
         /\ \A s, t \in Stem : OwnApart(s, t)' <=> OwnApart(s, t)
<1>1. \A s \in Stem : Standing(s)' => Standing(s)
  BY DEF Continues, Quiet, Standing
<1>2. \A s \in Stem : Index(s)' = Index(s)
  BY DEF Continues, Quiet, Index
<1>3. InvIndex'
  <2> SUFFICES ASSUME NEW e \in Desk, Counts(e)' PROVE (desk[e].index = Index(desk[e].stem))'
    BY DEF InvIndex
  <2>1. Counts(e) /\ desk'[e].stem = desk[e].stem /\ desk'[e].index = desk[e].index
    BY DEF Counts, Continues, Quiet
  <2>2. JobOK(desk[e])
    BY DEF Typed, Desks
  <2>3. desk[e].stem \in Stem
    BY <2>1, <2>2, JobKinds DEF Counts, Checking, EarlyJob, PlansJob, OthersJob
  <2> QED BY <1>2, <2>1, <2>3 DEF InvIndex
<1>4. InvFresh'
  BY <1>1 DEF InvFresh, Continues, Quiet
<1>5. \A s, t \in Stem : OwnApart(s, t)' <=> OwnApart(s, t)
  BY DEF OwnApart, Continues, Quiet
<1> QED BY <1>1, <1>3, <1>4, <1>5

\* A step after which no check has anything less to ask.
LEMMA NothingNewDone ==
  ASSUME Typed, Sides, NEW d \in Desk, Continues(d),
         \A s, t \in Stem : Done(s, t)' => Done(s, t)
  PROVE  Sides'
BY ContinuesKeeps DEF Sides, InvApart

\* The checks before the registry is read keep passed plans apart.
LEMMA EarlySides ==
  ASSUME Typed, Sides, NEW d \in Desk,
         ReadOwnRow(d) \/ CheckGrill(d) \/ Hydrate(d) \/ CheckBriefs(d)
  PROVE  Sides'
<1>1. /\ Quiet(d) /\ UNCHANGED <<passed, loose>> /\ EarlyJob(desk[d])
      /\ desk'[d].at \in {"grill", "hydrate", "briefs", "plans"}
      /\ desk'[d].stem = desk[d].stem /\ desk'[d].index = desk[d].index
  <2>1. CASE ReadOwnRow(d)
    <3>1. Quiet(d) /\ UNCHANGED <<passed, loose>> /\ EarlyJob(desk[d])
      BY <2>1, ReadOwnRowStep
    <3>2. PICK seen \in RowsRead(d) :
            desk'[d] = [at |-> IF seen[desk[d].stem] = "shipped" THEN "hydrate" ELSE "grill",
                        stem |-> desk[d].stem, ok |-> desk[d].ok /\ TRUE, index |-> desk[d].index]
      BY <2>1, ReadOwnRowStep
    <3> QED BY <3>1, <3>2
  <2>2. CASE CheckGrill(d)
    <3>1. Quiet(d) /\ UNCHANGED <<passed, loose>> /\ EarlyJob(desk[d])
      BY <2>2, CheckGrillStep
    <3>2. desk'[d] = [at |-> "hydrate", stem |-> desk[d].stem,
                       ok |-> desk[d].ok /\ (folder[desk[d].stem] # None /\ folder[desk[d].stem].grilled),
                       index |-> desk[d].index]
      BY <2>2, CheckGrillStep
    <3> QED BY <3>1, <3>2
  <2>3. CASE Hydrate(d)
    <3>1. Quiet(d) /\ UNCHANGED <<passed, loose>> /\ EarlyJob(desk[d])
      BY <2>3, HydrateStep
    <3>2. PICK ok \in BOOLEAN :
            desk'[d] = [at |-> "briefs", stem |-> desk[d].stem, ok |-> desk[d].ok /\ ok, index |-> desk[d].index]
      BY <2>3, HydrateStep
    <3> QED BY <3>1, <3>2
  <2>4. CASE CheckBriefs(d)
    <3>1. Quiet(d) /\ UNCHANGED <<passed, loose>> /\ EarlyJob(desk[d])
      BY <2>4, CheckBriefsStep
    <3>2. PICK briefs :
            desk'[d] = [at |-> "plans", stem |-> desk[d].stem, index |-> desk[d].index, briefs |-> briefs,
                        ok |-> /\ desk[d].ok
                               /\ ~Drifted(desk[d].index, briefs)
                               /\ ~SameWaveOverlap(desk[d].index, briefs)
                               /\ Plain(desk[d].index) /\ Cited(desk[d].index, briefs)]
      BY <2>4, CheckBriefsStep
    <3> QED BY <3>1, <3>2
  <2> QED BY <2>1, <2>2, <2>3, <2>4
<1>2. Continues(d)
  BY <1>1 DEF Continues, EarlyJob, Checking
<1>3. \A s, t \in Stem : Done(s, t)' => Done(s, t)
  BY <1>1 DEF Quiet, Done
<1> QED BY <1>2, <1>3, NothingNewDone

\* A plan that is not among the others when the table is read does not count.
LEMMA ReadPlansSides ==
  ASSUME Typed, Sides, NEW d \in Desk, ReadPlans(d)
  PROVE  Sides'
<1>1. PICK seen \in RowsRead(d) :
        /\ desk'[d] = [at |-> "others", stem |-> desk[d].stem, index |-> desk[d].index, briefs |-> desk[d].briefs,
                       ok |-> desk[d].ok /\ TRUE, others |-> UnderWay(seen, desk[d].stem)]
        /\ loose' = IF seen = rows THEN loose ELSE loose \cup {desk[d].stem}
  BY ReadPlansStep
<1>2. Quiet(d) /\ UNCHANGED passed /\ PlansJob(desk[d])
  BY ReadPlansStep
<1>3. Continues(d)
  BY <1>1, <1>2 DEF Continues, PlansJob, Checking
<1>4. \A s \in Stem : Standing(s)' => Standing(s)
  BY <1>3, ContinuesKeeps DEF Sides
<1>5. ASSUME NEW s \in Stem, NEW t \in Stem, s # t, Standing(s)', Standing(t)', Done(s, t)'
      PROVE  Done(s, t)
  <2>1. CASE s \in passed
    BY <2>1 DEF Done
  <2>2. CASE s \notin passed
    <3>1. PICK e \in Desk : desk'[e].at = "others" /\ desk'[e].stem = s /\ desk'[e].ok /\ t \notin desk'[e].others
      BY <1>2, <1>5, <2>2 DEF Done
    <3>2. CASE e # d
      BY <1>2, <3>1, <3>2 DEF Done, Quiet
    <3>3. CASE e = d
      <4>1. s = desk[d].stem /\ t \notin UnderWay(seen, s)
        BY <1>1, <3>1, <3>3
      <4>2. seen = rows
        BY <1>1, <1>5, <4>1 DEF Standing
      <4>3. rows[t] \notin Active
        BY <1>5, <4>1, <4>2 DEF UnderWay
      <4> QED BY <1>4, <1>5, <4>3 DEF Sides, InvFresh
    <3> QED BY <3>2, <3>3
  <2> QED BY <2>1, <2>2
<1>6. InvApart'
  <2> SUFFICES ASSUME NEW s \in Stem, NEW t \in Stem, s # t, Standing(s)', Standing(t)', Done(s, t)', Done(t, s)'
               PROVE  OwnApart(s, t)'
    BY DEF InvApart
  <2>1. OwnApart(s, t)
    BY <1>4, <1>5 DEF Sides, InvApart
  <2> QED BY <1>3, <2>1, ContinuesKeeps DEF Sides
<1> QED BY <1>3, <1>6, ContinuesKeeps DEF Sides

\* A plan that is read and overlaps ends the check.
LEMMA ReadOtherSides ==
  ASSUME Typed, Sides, NEW d \in Desk, ReadOther(d)
  PROVE  Sides'
<1>1. PICK u \in desk[d].others, ok \in BOOLEAN :
        /\ ok => folder[u] = None \/ ~Overlap(Owned(desk[d].index), Owned(folder[u]))
        /\ desk'[d] = [at |-> "others", stem |-> desk[d].stem, index |-> desk[d].index, briefs |-> desk[d].briefs,
                       ok |-> desk[d].ok /\ ok, others |-> desk[d].others \ {u}]
  BY ReadOtherStep
<1>2. Quiet(d) /\ UNCHANGED <<passed, loose>> /\ OthersJob(desk[d])
  BY ReadOtherStep
<1>3. Continues(d)
  BY <1>1, <1>2 DEF Continues, OthersJob, Checking
<1>4. \A s \in Stem : Standing(s)' => Standing(s)
  BY <1>3, ContinuesKeeps DEF Sides
<1>5. ASSUME NEW s \in Stem, NEW t \in Stem, s # t, Standing(s)', Standing(t)', Done(s, t)'
      PROVE  Done(s, t) \/ OwnApart(s, t)
  <2>1. CASE s \in passed
    BY <2>1 DEF Done
  <2>2. CASE s \notin passed
    <3>1. PICK e \in Desk : desk'[e].at = "others" /\ desk'[e].stem = s /\ desk'[e].ok /\ t \notin desk'[e].others
      BY <1>2, <1>5, <2>2 DEF Done
    <3>2. CASE e # d
      BY <1>2, <3>1, <3>2 DEF Done, Quiet
    <3>3. CASE e = d
      <4>1. s = desk[d].stem /\ desk[d].ok /\ ok /\ t \notin desk[d].others \ {u}
        BY <1>1, <1>2, <3>1, <3>3 DEF OthersJob
      <4>2. CASE t # u
        BY <1>2, <4>1, <4>2 DEF Done, OthersJob
      <4>3. CASE t = u
        <5>1. folder[t] # None
          BY <1>4, <1>5 DEF Sides, InvFresh
        <5>2. Counts(d)
          BY <1>2, <1>4, <1>5, <4>1 DEF Counts, Standing, OthersJob, Checking
        <5>3. desk[d].index = Index(s)
          BY <4>1, <5>2 DEF Sides, InvIndex
        <5>4. ~Overlap(Owned(Index(s)), Owned(folder[t]))
          BY <1>1, <4>1, <4>3, <5>1, <5>3
        <5> QED BY <5>4, IndexOwns DEF OwnApart
      <4> QED BY <4>2, <4>3
    <3> QED BY <3>2, <3>3
  <2> QED BY <2>1, <2>2
<1>6. InvApart'
  <2> SUFFICES ASSUME NEW s \in Stem, NEW t \in Stem, s # t, Standing(s)', Standing(t)', Done(s, t)', Done(t, s)'
               PROVE  OwnApart(s, t)'
    BY DEF InvApart
  <2>1. OwnApart(s, t)
    BY <1>4, <1>5, ApartIsMutual DEF Sides, InvApart
  <2> QED BY <1>3, <2>1, ContinuesKeeps DEF Sides
<1> QED BY <1>3, <1>6, ContinuesKeeps DEF Sides

\* A verdict keeps passed plans apart from each other.
LEMMA CheckDecisionsSides ==
  ASSUME Typed, Sides, NEW d \in Desk, CheckDecisions(d)
  PROVE  Sides'
<1>1. /\ Quiet(d) /\ UNCHANGED loose /\ OthersJob(desk[d]) /\ desk[d].others = {}
      /\ desk'[d] = Idle
      /\ (passed' = passed \/ (desk[d].ok /\ passed' = passed \cup {desk[d].stem}))
  BY CheckDecisionsStep
<1>2. Continues(d)
  BY <1>1 DEF Continues, OthersJob, Checking, Idle
<1>3. \A s, t \in Stem : Done(s, t)' => Done(s, t)
  BY <1>1 DEF Quiet, Done, Idle, OthersJob
<1> QED BY <1>2, <1>3, NothingNewDone

\* A preflight that begins makes its plan count, unless it was written while
\* another one checks it.
LEMMA StartSides ==
  ASSUME Typed, Sides, NEW d \in Desk, NEW s \in Stem, Start(d, s)
  PROVE  Sides'
<1>1. /\ Quiet(d) /\ desk[d] = Idle
      /\ desk'[d] = IF folder[s] = None THEN Idle ELSE [at |-> "row", stem |-> s, ok |-> TRUE, index |-> Index(s)]
  BY StartStep
<1>2. /\ passed' = passed \ {s}
      /\ loose' = IF rows[s] \notin Active THEN loose \cup {s}
                  ELSE IF CheckedAt(s) = {} THEN loose \ {s} ELSE loose
  BY DEF Start
<1>3. \A t \in Stem : Index(t)' = Index(t)
  BY <1>1 DEF Quiet, Index
<1>4. ASSUME NEW t \in Stem, Standing(t)'
      PROVE  Standing(t) \/ (t = s /\ rows[s] \in Active /\ folder[s] # None /\ CheckedAt(s) = {})
  <2>1. CASE t # s
    BY <1>1, <1>2, <1>4, <2>1 DEF Standing, Quiet, Idle, Checking
  <2>2. CASE t = s
    <3>1. rows[s] \in Active /\ s \notin passed'
      BY <1>2, <1>4, <2>2 DEF Standing
    <3>2. PICK e \in Desk : desk'[e].at \in Checking /\ desk'[e].stem = s
      BY <1>4, <2>2, <3>1 DEF Standing
    <3>3. CASE CheckedAt(s) = {}
      <4>1. e = d
        BY <1>1, <3>2, <3>3 DEF Quiet, CheckedAt
      <4> QED BY <1>1, <2>2, <3>1, <3>2, <3>3, <4>1 DEF Idle, Checking
    <3>4. CASE CheckedAt(s) # {}
      BY <1>2, <1>4, <2>2, <3>1, <3>4 DEF Standing, CheckedAt
    <3> QED BY <3>3, <3>4
  <2> QED BY <2>1, <2>2
<1>5. InvFresh'
  BY <1>1, <1>4 DEF Sides, InvFresh, Quiet
<1>6. InvIndex'
  <2> SUFFICES ASSUME NEW e \in Desk, Counts(e)' PROVE (desk[e].index = Index(desk[e].stem))'
    BY DEF InvIndex
  <2>1. CASE e = d
    BY <1>1, <1>3, <2>1 DEF Counts, Idle, Checking
  <2>2. CASE e # d
    <3>1. desk'[e] = desk[e] /\ JobOK(desk[e]) /\ desk[e].at \in Checking
      BY <1>1, <2>2 DEF Quiet, Counts, Typed, Desks
    <3>2. desk[e].stem \in Stem
      BY <3>1, JobKinds DEF Checking, EarlyJob, PlansJob, OthersJob
    <3>3. desk[e].stem \notin loose
      BY <1>2, <3>1 DEF Counts, CheckedAt
    <3> QED BY <1>3, <3>1, <3>2, <3>3 DEF Sides, InvIndex, Counts
  <2> QED BY <2>1, <2>2
<1>7. \A t, u \in Stem : Done(t, u)' => Done(t, u) /\ (t # s \/ CheckedAt(s) # {})
  BY <1>1, <1>2 DEF Done, Quiet, Idle, CheckedAt, Checking
<1>8. \A t, u \in Stem : OwnApart(t, u)' <=> OwnApart(t, u)
  BY <1>1 DEF OwnApart, Quiet
<1>9. InvApart'
  BY <1>4, <1>7, <1>8 DEF Sides, InvApart
<1> QED BY <1>5, <1>6, <1>9 DEF Sides

\* A step of no check, after which no plan counts that did not.
LEMMA OtherSides ==
  ASSUME Typed, Sides,
         UNCHANGED passed, loose \subseteq loose',
         \A d \in Desk : desk'[d] = desk[d] \/ (desk[d].at \notin Checking /\ desk'[d].at \notin Checking),
         \A s \in Stem : s \notin loose' => /\ folder'[s] = folder[s]
                                            /\ (rows'[s] = rows[s] \/ rows'[s] \in Active)
  PROVE  Sides'
<1>1. \A s \in Stem : Standing(s)' => Standing(s) /\ s \notin loose'
  BY DEF Standing
<1>2. \A s \in Stem : s \notin loose' => Index(s)' = Index(s)
  BY DEF Index
<1>3. \A s, t \in Stem : Done(s, t)' => Done(s, t)
  BY DEF Done, Checking
<1>4. \A s, t \in Stem : s \notin loose' /\ t \notin loose' /\ OwnApart(s, t) => OwnApart(s, t)'
  BY DEF OwnApart
<1>5. InvFresh'
  BY <1>1 DEF Sides, InvFresh
<1>6. InvIndex'
  <2> SUFFICES ASSUME NEW e \in Desk, Counts(e)' PROVE (desk[e].index = Index(desk[e].stem))'
    BY DEF InvIndex
  <2>1. desk'[e] = desk[e] /\ JobOK(desk[e]) /\ desk[e].at \in Checking /\ desk[e].stem \notin loose'
    BY DEF Counts, Typed, Desks
  <2>2. desk[e].stem \in Stem
    BY <2>1, JobKinds DEF Checking, EarlyJob, PlansJob, OthersJob
  <2> QED BY <1>2, <2>1, <2>2 DEF Sides, InvIndex, Counts
<1>7. InvApart'
  BY <1>1, <1>3, <1>4 DEF Sides, InvApart
<1> QED BY <1>5, <1>6, <1>7 DEF Sides

\* Before any preflight no two plans passed.
LEMMA InitSides == PreflightInit => Sides
<1> SUFFICES ASSUME PreflightInit PROVE Sides
  OBVIOUS
<1>1. passed = {} /\ desk = [d \in Desk |-> Idle]
  BY DEF PreflightInit
<1>2. \A d \in Desk : desk[d].at \notin Checking
  BY <1>1 DEF Idle, Checking
<1>3. \A s \in Stem : ~Standing(s)
  BY <1>1, <1>2 DEF Standing
<1> QED BY <1>2, <1>3 DEF Sides, InvFresh, InvIndex, InvApart, Counts

\* Every preflight step keeps passed plans apart.
LEMMA StepSides == Typed /\ Sides /\ [PreflightNext]_preflightVars => Sides'
<1> SUFFICES ASSUME Typed, Sides, [PreflightNext]_preflightVars PROVE Sides'
  OBVIOUS
<1>1. ASSUME NEW d \in Desk, Preflight(d) PROVE Sides'
  BY <1>1, StartSides, EarlySides, ReadPlansSides, ReadOtherSides, CheckDecisionsSides DEF Preflight
<1>2. ASSUME NEW d \in Desk, FlipRow(d) PROVE Sides'
  BY <1>2, FlipRowStep, OtherSides
<1>3. ASSUME NEW s \in Stem, Register(s) PROVE Sides'
  BY <1>3, RegisterStep, OtherSides
<1>4. ASSUME NEW s \in Stem, NEW f \in Redrafts, Redraft(s, f) PROVE Sides'
  BY <1>4, RedraftStep, OtherSides
<1>5. ASSUME NEW p \in Pointer, Decide(p) PROVE Sides'
  BY <1>5, DecideStep, OtherSides
<1>6. CASE UNCHANGED preflightVars
  BY <1>6, OtherSides DEF preflightVars, registryVars
<1> QED BY <1>1, <1>2, <1>3, <1>4, <1>5, <1>6 DEF PreflightNext

\* Plans kept apart own disjoint files.
LEMMA SidesMeanDisjoint == Typed /\ Sides => RunsAreDisjoint
<1> SUFFICES ASSUME Typed, Sides, NEW s \in passed \ loose, NEW t \in passed \ loose, s # t,
                    NEW p \in Owned(folder[s]), NEW q \in Owned(folder[t])
             PROVE  ~PathsOverlap(p, q)
  BY DEF RunsAreDisjoint
<1>1. s \in Stem /\ t \in Stem
  BY DEF Typed, RestTyped
<1>2. OwnApart(s, t)
  BY <1>1 DEF Sides, InvApart, Standing, Done
<1> QED BY <1>2 DEF OwnApart, Overlap

(* Two plans that have passed own no common path, however their preflights *)
(* interleave, with each other and with flips of the table: of two plans   *)
(* that count, the one that reads the table last finds the other in it.    *)
THEOREM RunsDisjoint == PreflightSpec => []RunsAreDisjoint
<1>1. PreflightSpec => [](Typed /\ Sides)
  BY InitTyped, StepTyped, InitSides, StepSides, PTL DEF PreflightSpec
<1> QED BY <1>1, SidesMeanDisjoint, PTL
-----------------------------------------------------------------------------
(* Preflight: what a plan that passes is good for                          *)

HydratedOK(s) == Dashes(Index(s)) \/ (Resolves(Index(s), board) /\ hydrated[s] = WrittenPoints(s))

BriefsOK(s) ==
  /\ ~Drifted(Index(s), folder[s].briefs)
  /\ ~SameWaveOverlap(Index(s), folder[s].briefs)
  /\ Plain(Index(s)) /\ Cited(Index(s), folder[s].briefs)

\* What a check that has found no error so far has seen to.
GrillSeen(d) == desk[d].at \notin {"row", "grill"} => folder[desk[d].stem].grilled
HydrateSeen(d) == desk[d].at \in {"briefs", "plans", "others"} => HydratedOK(desk[d].stem)
BriefsSeen(d) ==
  desk[d].at \in {"plans", "others"} =>
    desk[d].briefs = folder[desk[d].stem].briefs /\ BriefsOK(desk[d].stem)

Seen(d) == Counts(d) /\ desk[d].ok => GrillSeen(d) /\ HydrateSeen(d) /\ BriefsSeen(d)

SoundPlan(s) ==
  folder[s].grilled /\ HydratedOK(s) /\ BriefsOK(s) /\ AnswersAll(Index(s), folder[s].briefs, known[s])

SeenSoFar == (\A d \in Desk : Seen(d)) /\ (\A s \in passed \ loose : SoundPlan(s))

\* A desk at work is checking one of the plans.
LEMMA CheckedStem ==
  ASSUME Typed, NEW d \in Desk, desk[d].at \in Checking
  PROVE  desk[d].stem \in Stem
<1>1. JobOK(desk[d])
  BY DEF Typed, Desks
<1> QED BY <1>1, JobKinds DEF Checking, EarlyJob, PlansJob, OthersJob

\* A plan that counts keeps what was seen of it, when its folder stays, rows of
\* the board stay, and what is hydrated stays or is hydrated again.
Stays ==
  /\ Typed
  /\ board \subseteq board'
  /\ \A s \in Stem : s \notin loose' => folder'[s] = folder[s]
  /\ \A s \in Stem : s \notin loose' =>
       hydrated'[s] = hydrated[s] \/ (Resolves(Index(s), board) /\ hydrated'[s] = WrittenPoints(s))

\* A step that leaves a checked plan alone keeps its briefs and what it was hydrated with.
LEMMA StaysKeeps ==
  ASSUME Stays, NEW s \in Stem, s \notin loose'
  PROVE  /\ folder'[s] = folder[s]
         /\ HydratedOK(s) => HydratedOK(s)'
         /\ BriefsOK(s) => BriefsOK(s)'
<1>1. folder'[s] = folder[s]
  BY DEF Stays
<1>2. Index(s)' = Index(s) /\ WrittenPoints(s)' = WrittenPoints(s)
  BY <1>1 DEF Index, WrittenPoints
<1>3. BriefsOK(s) => BriefsOK(s)'
  BY <1>1, <1>2 DEF BriefsOK
<1>4. Resolves(Index(s), board) => Resolves(Index(s), board)'
  BY <1>2 DEF Stays, Resolves
<1>5. HydratedOK(s) => HydratedOK(s)'
  BY <1>2, <1>4 DEF HydratedOK, Stays
<1> QED BY <1>1, <1>3, <1>5

\* The check at another desk keeps what it has seen.
LEMMA OthersSeen ==
  ASSUME Stays, NEW d \in Desk, desk'[d] = desk[d], Seen(d),
         desk[d].at \in Checking /\ desk[d].stem \notin loose' => desk[d].stem \notin loose
  PROVE  Seen(d)'
<1> SUFFICES ASSUME Counts(d)', desk'[d].ok PROVE (GrillSeen(d) /\ HydrateSeen(d) /\ BriefsSeen(d))'
  BY DEF Seen
<1>1. desk[d].at \in Checking /\ desk[d].stem \notin loose'
  BY DEF Counts
<1>2. desk[d].stem \in Stem
  BY <1>1, CheckedStem DEF Stays
<1>3. GrillSeen(d) /\ HydrateSeen(d) /\ BriefsSeen(d)
  BY <1>1 DEF Seen, Counts
<1> DEFINE s == desk[d].stem
<1>4. /\ folder'[s] = folder[s]
      /\ HydratedOK(s) => HydratedOK(s)'
      /\ BriefsOK(s) => BriefsOK(s)'
  BY <1>1, <1>2, StaysKeeps
<1> QED BY <1>3, <1>4 DEF GrillSeen, HydrateSeen, BriefsSeen

\* A plan that has passed stays sound.
LEMMA PassedStays ==
  ASSUME Stays, NEW s \in Stem, s \notin loose', SoundPlan(s), known'[s] = known[s]
  PROVE  SoundPlan(s)'
<1>1. /\ folder'[s] = folder[s]
      /\ HydratedOK(s) => HydratedOK(s)'
      /\ BriefsOK(s) => BriefsOK(s)'
  BY StaysKeeps
<1>2. Index(s)' = Index(s)
  BY <1>1 DEF Index
<1>3. AnswersAll(Index(s), folder[s].briefs, known[s]) => AnswersAll(Index(s), folder[s].briefs, known[s])'
  BY <1>1, <1>2
<1> QED BY <1>1, <1>3 DEF SoundPlan

\* After a step at desk d that lets no plan begin to pass, only d is of interest.
LEMMA OneDesk ==
  ASSUME Stays, SeenSoFar, NEW d \in Desk,
         \A e \in Desk \ {d} : desk'[e] = desk[e],
         passed' \subseteq passed, UNCHANGED known, loose \subseteq loose',
         Seen(d)'
  PROVE  SeenSoFar'
<1>1. ASSUME NEW e \in Desk PROVE Seen(e)'
  <2>1. CASE e = d
    BY <2>1
  <2>2. CASE e # d
    BY <2>2, OthersSeen DEF SeenSoFar
  <2> QED BY <2>1, <2>2
<1>2. ASSUME NEW s \in passed', s \notin loose' PROVE SoundPlan(s)'
  <2>1. s \in Stem /\ s \in passed \ loose
    BY <1>2 DEF Stays, Typed, RestTyped
  <2> QED BY <1>2, <2>1, PassedStays DEF SeenSoFar
<1> QED BY <1>1, <1>2 DEF SeenSoFar

\* Starting a preflight keeps what a verdict so far has seen.
LEMMA StartVerdict ==
  ASSUME Typed, SeenSoFar, NEW d \in Desk, NEW s \in Stem, Start(d, s)
  PROVE  SeenSoFar'
<1>1. /\ Quiet(d) /\ desk[d] = Idle
      /\ desk'[d] = IF folder[s] = None THEN Idle ELSE [at |-> "row", stem |-> s, ok |-> TRUE, index |-> Index(s)]
  BY StartStep
<1>2. /\ passed' = passed \ {s}
      /\ loose' = IF rows[s] \notin Active THEN loose \cup {s}
                  ELSE IF CheckedAt(s) = {} THEN loose \ {s} ELSE loose
      /\ UNCHANGED <<hydrated, known>>
  BY DEF Start
<1>3. Stays
  BY <1>1, <1>2 DEF Quiet, Stays
<1>4. ASSUME NEW e \in Desk PROVE Seen(e)'
  <2>1. CASE e = d
    <3>1. desk'[e].at \in {"idle", "row"}
      BY <1>1, <2>1 DEF Idle
    <3> QED BY <3>1 DEF Seen, GrillSeen, HydrateSeen, BriefsSeen, Counts, Checking
  <2>2. CASE e # d
    <3>1. desk'[e] = desk[e] /\ Seen(e)
      BY <1>1, <2>2 DEF Quiet, SeenSoFar
    <3>2. desk[e].at \in Checking /\ desk[e].stem \notin loose' => desk[e].stem \notin loose
      BY <1>2 DEF CheckedAt
    <3> QED BY <1>3, <3>1, <3>2, OthersSeen
  <2> QED BY <2>1, <2>2
<1>5. ASSUME NEW t \in passed', t \notin loose' PROVE SoundPlan(t)'
  <2>1. t \in Stem /\ t \in passed \ loose
    BY <1>2, <1>5 DEF Typed, RestTyped
  <2> QED BY <1>2, <1>3, <1>5, <2>1, PassedStays DEF SeenSoFar
<1> QED BY <1>4, <1>5 DEF SeenSoFar

\* Only a plan that is not under way gets past the grilling.
LEMMA ReadOwnRowVerdict ==
  ASSUME Typed, Sides, SeenSoFar, NEW d \in Desk, ReadOwnRow(d)
  PROVE  SeenSoFar'
<1>1. PICK seen \in RowsRead(d) :
        desk'[d] = [at |-> IF seen[desk[d].stem] = "shipped" THEN "hydrate" ELSE "grill",
                    stem |-> desk[d].stem, ok |-> desk[d].ok /\ TRUE, index |-> desk[d].index]
  BY ReadOwnRowStep
<1>2. /\ Quiet(d) /\ UNCHANGED <<passed, loose, known, hydrated>>
      /\ EarlyJob(desk[d]) /\ desk[d].at = "row"
  BY ReadOwnRowStep
<1>3. Stays
  BY <1>2 DEF Quiet, Stays
<1>4. Counts(d)' => desk'[d].at = "grill"
  <2> SUFFICES ASSUME Counts(d)', seen[desk[d].stem] = "shipped" PROVE FALSE
    BY <1>1
  <2>1. Standing(desk[d].stem) /\ desk[d].stem \in Stem
    BY <1>1, <1>2 DEF Counts, Standing, Checking, EarlyJob
  <2>2. rows[desk[d].stem] \in Active
    BY <2>1 DEF Sides, InvFresh
  <2>3. seen # rows
    BY <2>2 DEF Active
  <2>4. seen[desk[d].stem] = None
    BY <2>1, <2>3 DEF RowsRead, NoRows
  <2> QED BY <2>4, PreflightAssumption DEF Status
<1>5. Seen(d)'
  BY <1>4 DEF Seen, GrillSeen, HydrateSeen, BriefsSeen
<1> QED BY <1>2, <1>3, <1>5, OneDesk DEF Quiet

\* The grill check keeps what a verdict so far has seen.
LEMMA CheckGrillVerdict ==
  ASSUME Typed, SeenSoFar, NEW d \in Desk, CheckGrill(d)
  PROVE  SeenSoFar'
<1>1. /\ Quiet(d) /\ UNCHANGED <<passed, loose, known, hydrated>>
      /\ EarlyJob(desk[d]) /\ desk[d].at = "grill"
  BY CheckGrillStep
<1>2. desk'[d] = [at |-> "hydrate", stem |-> desk[d].stem,
                  ok |-> desk[d].ok /\ (folder[desk[d].stem] # None /\ folder[desk[d].stem].grilled),
                  index |-> desk[d].index]
  BY CheckGrillStep
<1>3. desk'[d].at = "hydrate" /\ desk'[d].stem = desk[d].stem
  BY <1>2
<1>4. desk'[d].ok => folder[desk[d].stem].grilled
  <2> DEFINE ok == folder[desk[d].stem] # None /\ folder[desk[d].stem].grilled
  <2>1. ok \in BOOLEAN /\ desk[d].ok \in BOOLEAN /\ (ok => folder[desk[d].stem].grilled)
    BY <1>1 DEF EarlyJob
  <2>2. desk'[d] = [at |-> "hydrate", stem |-> desk[d].stem, ok |-> desk[d].ok /\ ok, index |-> desk[d].index]
    BY <1>2
  <2> HIDE DEF ok
  <2>3. desk'[d].ok => ok
    BY <2>1, <2>2
  <2> QED BY <2>1, <2>3
<1>5. Stays
  BY <1>1 DEF Quiet, Stays
<1>6. Seen(d)'
  BY <1>1, <1>3, <1>4 DEF Quiet, Seen, GrillSeen, HydrateSeen, BriefsSeen
<1> QED BY <1>1, <1>5, <1>6, OneDesk DEF Quiet

\* Hydration keeps what a verdict so far has seen.
LEMMA HydrateVerdict ==
  ASSUME Typed, Sides, SeenSoFar, NEW d \in Desk, Hydrate(d)
  PROVE  SeenSoFar'
<1> DEFINE s == desk[d].stem
<1>1. /\ Quiet(d) /\ UNCHANGED <<passed, loose, known>>
      /\ EarlyJob(desk[d]) /\ desk[d].at = "hydrate"
  BY HydrateStep
<1>2. PICK ok \in BOOLEAN :
        /\ desk'[d] = [at |-> "briefs", stem |-> desk[d].stem, ok |-> desk[d].ok /\ ok, index |-> desk[d].index]
        /\ \/ Dashes(desk[d].index) /\ UNCHANGED hydrated
           \/ /\ folder[desk[d].stem] # None
              /\ Resolves(folder[desk[d].stem], board)
              /\ hydrated' = [hydrated EXCEPT ![desk[d].stem] = WrittenPoints(desk[d].stem)]
           \/ ~ok /\ UNCHANGED hydrated
  BY HydrateStep
<1>3. desk'[d].at = "briefs" /\ desk'[d].stem = desk[d].stem /\ (desk'[d].ok => desk[d].ok /\ ok)
  BY <1>1, <1>2 DEF EarlyJob
<1>4. s \in Stem
  BY <1>1 DEF EarlyJob
<1>5. Resolves(folder[s], board) => Resolves(Index(s), board)
  BY DEF Resolves, Index
<1>6. \A t \in Stem : hydrated'[t] = hydrated[t] \/ (t = s /\ Resolves(folder[s], board) /\ hydrated'[s] = WrittenPoints(s))
  BY <1>2, <1>4 DEF Typed, RestTyped
<1>7. Stays
  BY <1>1, <1>5, <1>6 DEF Quiet, Stays
<1>8. ASSUME Counts(d)', desk'[d].ok PROVE HydratedOK(s)'
  <2>1. Counts(d) /\ desk[d].ok /\ ok /\ s \notin loose'
    BY <1>1, <1>3, <1>8 DEF Counts, Checking
  <2>2. desk[d].index = Index(s)
    BY <2>1 DEF Sides, InvIndex
  <2>3. \/ Dashes(Index(s))
        \/ Resolves(Index(s), board) /\ hydrated'[s] = WrittenPoints(s)
    BY <1>2, <1>4, <1>5, <2>1, <2>2 DEF Typed, RestTyped
  <2>4. Index(s)' = Index(s) /\ WrittenPoints(s)' = WrittenPoints(s) /\ board' = board
    BY <1>1, <1>3 DEF Quiet, Index, WrittenPoints
  <2> QED BY <1>3, <2>3, <2>4 DEF HydratedOK
<1>9. ASSUME Counts(d)', desk'[d].ok PROVE folder'[s].grilled
  <2>1. Counts(d) /\ desk[d].ok
    BY <1>1, <1>3, <1>9 DEF Counts, Checking
  <2> QED BY <1>1, <2>1 DEF SeenSoFar, Seen, GrillSeen, Quiet
<1>10. Seen(d)'
  BY <1>3, <1>8, <1>9 DEF Seen, GrillSeen, HydrateSeen, BriefsSeen
<1> QED BY <1>1, <1>7, <1>10, OneDesk DEF Quiet

\* The briefs check keeps what a verdict so far has seen.
LEMMA CheckBriefsVerdict ==
  ASSUME Typed, Sides, SeenSoFar, NEW d \in Desk, CheckBriefs(d)
  PROVE  SeenSoFar'
<1>1. /\ Quiet(d) /\ UNCHANGED <<passed, loose, known, hydrated>>
      /\ EarlyJob(desk[d]) /\ desk[d].at = "briefs"
  BY CheckBriefsStep
<1>2. PICK briefs :
        /\ folder[desk[d].stem] # None => briefs = folder[desk[d].stem].briefs
        /\ desk'[d] = [at |-> "plans", stem |-> desk[d].stem, index |-> desk[d].index, briefs |-> briefs,
                       ok |-> /\ desk[d].ok
                              /\ ~Drifted(desk[d].index, briefs)
                              /\ ~SameWaveOverlap(desk[d].index, briefs)
                              /\ Plain(desk[d].index) /\ Cited(desk[d].index, briefs)]
  BY CheckBriefsStep
<1>3. PICK s \in Stem : s = desk[d].stem
  BY <1>1 DEF EarlyJob
<1>4. desk'[d].at = "plans" /\ desk'[d].stem = s /\ desk'[d].briefs = briefs
  BY <1>2, <1>3
<1>5. desk'[d].ok => /\ desk[d].ok
                     /\ ~Drifted(desk[d].index, briefs)
                     /\ ~SameWaveOverlap(desk[d].index, briefs)
                     /\ Plain(desk[d].index) /\ Cited(desk[d].index, briefs)
  <2> DEFINE ok == /\ desk[d].ok
                   /\ ~Drifted(desk[d].index, briefs)
                   /\ ~SameWaveOverlap(desk[d].index, briefs)
                   /\ Plain(desk[d].index) /\ Cited(desk[d].index, briefs)
  <2>1. desk'[d] = [at |-> "plans", stem |-> desk[d].stem, index |-> desk[d].index, briefs |-> briefs, ok |-> ok]
    BY <1>2
  <2>2. ok \in BOOLEAN
    OBVIOUS
  <2>3. desk'[d].ok = ok
    <3> HIDE DEF ok
    <3> QED BY <2>1, <2>2
  <2> QED BY <2>3, Zenon
<1>6. Stays
  BY <1>1 DEF Quiet, Stays
<1>7. ASSUME Counts(d)', desk'[d].ok
      PROVE  folder[s].grilled /\ HydratedOK(s) /\ briefs = folder[s].briefs /\ BriefsOK(s)
  <2>1. Counts(d) /\ desk[d].ok /\ s \notin loose
    BY <1>1, <1>4, <1>5, <1>3, <1>7 DEF Counts, Checking
  <2>2. desk[d].index = Index(s)
    BY <1>3, <2>1 DEF Sides, InvIndex
  <2>3. folder[s].grilled /\ HydratedOK(s)
    BY <1>1, <1>3, <2>1 DEF SeenSoFar, Seen, GrillSeen, HydrateSeen
  <2>4. folder[s] # None
    BY <1>1, <1>3, <2>1 DEF Sides, InvFresh, Standing, Counts
  <2>5. briefs = folder[s].briefs
    BY <1>2, <1>3, <2>4
  <2>6. BriefsOK(s)
    BY <1>5, <1>7, <2>2, <2>5 DEF BriefsOK
  <2> QED BY <2>3, <2>5, <2>6
<1>8. s \notin loose' => /\ folder'[s] = folder[s]
                         /\ HydratedOK(s) => HydratedOK(s)'
                         /\ BriefsOK(s) => BriefsOK(s)'
  BY <1>6, StaysKeeps
<1>9. Seen(d)'
  <2> SUFFICES ASSUME Counts(d)', desk'[d].ok PROVE (GrillSeen(d) /\ HydrateSeen(d) /\ BriefsSeen(d))'
    BY DEF Seen
  <2>1. s \notin loose'
    BY <1>4 DEF Counts
  <2>2. folder'[s].grilled /\ HydratedOK(s)' /\ briefs = folder'[s].briefs /\ BriefsOK(s)'
    BY <1>7, <1>8, <2>1
  <2>3. BriefsOK(desk[d].stem)' /\ HydratedOK(desk[d].stem)'
    BY <1>1, <1>4, <2>2 DEF Quiet, BriefsOK, HydratedOK, WrittenPoints, Index
  <2> QED BY <1>4, <2>2, <2>3 DEF GrillSeen, HydrateSeen, BriefsSeen
<1> QED BY <1>1, <1>6, <1>9, OneDesk DEF Quiet

\* The reading of the other plans asks nothing more of this one.
LEMMA AbroadVerdict ==
  ASSUME Typed, SeenSoFar, NEW d \in Desk, ReadPlans(d) \/ ReadOther(d)
  PROVE  SeenSoFar'
<1>1. /\ Quiet(d) /\ UNCHANGED <<passed, known, hydrated>> /\ loose \subseteq loose'
      /\ PlansJob(desk[d]) \/ OthersJob(desk[d])
      /\ \E ok \in BOOLEAN : \E others :
           desk'[d] = [at |-> "others", stem |-> desk[d].stem, index |-> desk[d].index, briefs |-> desk[d].briefs,
                       ok |-> desk[d].ok /\ ok, others |-> others]
  <2>1. CASE ReadPlans(d)
    <3>1. PICK seen \in RowsRead(d) :
            /\ desk'[d] = [at |-> "others", stem |-> desk[d].stem, index |-> desk[d].index,
                           briefs |-> desk[d].briefs, ok |-> desk[d].ok /\ TRUE,
                           others |-> UnderWay(seen, desk[d].stem)]
            /\ loose' = IF seen = rows THEN loose ELSE loose \cup {desk[d].stem}
      BY <2>1, ReadPlansStep
    <3>2. Quiet(d) /\ UNCHANGED <<passed, known, hydrated>> /\ PlansJob(desk[d])
      BY <2>1, ReadPlansStep
    <3>3. loose \subseteq loose'
      BY <3>1
    <3>4. \E ok \in BOOLEAN : \E others :
             desk'[d] = [at |-> "others", stem |-> desk[d].stem, index |-> desk[d].index, briefs |-> desk[d].briefs,
                         ok |-> desk[d].ok /\ ok, others |-> others]
      BY <3>1, Zenon
    <3> QED BY <3>2, <3>3, <3>4
  <2>2. CASE ReadOther(d)
    <3>1. Quiet(d) /\ UNCHANGED <<passed, loose, known, hydrated>> /\ OthersJob(desk[d])
      BY <2>2, ReadOtherStep
    <3>2. \E ok \in BOOLEAN : \E others :
             desk'[d] = [at |-> "others", stem |-> desk[d].stem, index |-> desk[d].index, briefs |-> desk[d].briefs,
                         ok |-> desk[d].ok /\ ok, others |-> others]
      BY <2>2, ReadOtherStep, Zenon
    <3> QED BY <3>1, <3>2
  <2> QED BY <2>1, <2>2
<1>2. PICK ok \in BOOLEAN : \E others :
        desk'[d] = [at |-> "others", stem |-> desk[d].stem, index |-> desk[d].index, briefs |-> desk[d].briefs,
                    ok |-> desk[d].ok /\ ok, others |-> others]
  BY <1>1
<1>3. /\ desk'[d].at = "others" /\ desk'[d].stem = desk[d].stem /\ desk'[d].briefs = desk[d].briefs
      /\ desk'[d].ok => desk[d].ok
      /\ desk[d].at \in {"plans", "others"} /\ desk[d].stem \in Stem
  BY <1>1, <1>2 DEF PlansJob, OthersJob
<1>4. Stays
  BY <1>1 DEF Quiet, Stays
<1>5. Seen(d)'
  <2> SUFFICES ASSUME Counts(d)', desk'[d].ok PROVE (GrillSeen(d) /\ HydrateSeen(d) /\ BriefsSeen(d))'
    BY DEF Seen
  <2> DEFINE s == desk[d].stem
  <2>1. s \notin loose' /\ Counts(d) /\ desk[d].ok
    BY <1>1, <1>3 DEF Counts, Checking
  <2>2. folder[s].grilled /\ HydratedOK(s) /\ desk[d].briefs = folder[s].briefs /\ BriefsOK(s)
    BY <1>3, <2>1 DEF SeenSoFar, Seen, GrillSeen, HydrateSeen, BriefsSeen
  <2>3. folder'[s] = folder[s] /\ HydratedOK(s)' /\ BriefsOK(s)'
    BY <1>3, <1>4, <2>1, <2>2, StaysKeeps
  <2>4. BriefsOK(desk[d].stem)' /\ HydratedOK(desk[d].stem)'
    BY <1>3, <2>3 DEF BriefsOK, HydratedOK, WrittenPoints, Index
  <2> QED BY <1>3, <2>2, <2>3, <2>4 DEF GrillSeen, HydrateSeen, BriefsSeen
<1> QED BY <1>1, <1>4, <1>5, OneDesk DEF Quiet

\* The last step, the verdict.
LEMMA CheckDecisionsVerdict ==
  ASSUME Typed, Sides, SeenSoFar, NEW d \in Desk, CheckDecisions(d)
  PROVE  SeenSoFar'
<1>1. /\ Quiet(d) /\ UNCHANGED <<loose, hydrated>>
      /\ OthersJob(desk[d]) /\ desk[d].others = {}
      /\ desk'[d] = Idle
  BY CheckDecisionsStep
<1>2. \/ UNCHANGED <<passed, known>>
      \/ /\ desk[d].ok /\ AnswersAll(desk[d].index, desk[d].briefs, board)
         /\ passed' = passed \cup {desk[d].stem}
         /\ known' = [known EXCEPT ![desk[d].stem] = board]
  BY CheckDecisionsStep
<1>3. Stays
  BY <1>1 DEF Quiet, Stays
<1>4. Seen(d)'
  BY <1>1 DEF Seen, Counts, Idle, Checking
<1>5. CASE UNCHANGED <<passed, known>>
  BY <1>1, <1>3, <1>4, <1>5, OneDesk DEF Quiet
<1>6. CASE /\ desk[d].ok /\ AnswersAll(desk[d].index, desk[d].briefs, board)
           /\ passed' = passed \cup {desk[d].stem}
           /\ known' = [known EXCEPT ![desk[d].stem] = board]
  <2>1. PICK s \in Stem : s = desk[d].stem
    BY <1>1 DEF OthersJob
  <2>2. \A e \in Desk : Seen(e)'
    <3>1. ASSUME NEW e \in Desk, e # d PROVE Seen(e)'
      BY <1>1, <1>3, <3>1, OthersSeen DEF SeenSoFar, Quiet
    <3> QED BY <1>4, <3>1
  <2>3. known'[s] = board /\ \A t \in Stem \ {s} : known'[t] = known[t]
    BY <1>6, <2>1 DEF Typed, RestTyped
  <2>4. ASSUME NEW t \in passed', t \notin loose', t # s PROVE SoundPlan(t)'
    <3>1. t \in Stem /\ t \in passed \ loose
      BY <1>1, <1>6, <2>1, <2>4 DEF Typed, RestTyped
    <3> QED BY <1>3, <2>3, <2>4, <3>1, PassedStays DEF SeenSoFar
  <2>5. ASSUME s \notin loose' PROVE SoundPlan(s)'
    <3>1. Counts(d) /\ desk[d].at = "others" /\ Standing(s)
      BY <1>1, <2>1, <2>5 DEF Counts, OthersJob, Checking, Standing
    <3>2. folder[s].grilled /\ HydratedOK(s) /\ desk[d].briefs = folder[s].briefs /\ BriefsOK(s)
      BY <1>6, <2>1, <3>1 DEF SeenSoFar, Seen, GrillSeen, HydrateSeen, BriefsSeen
    <3>3. desk[d].index = Index(s)
      BY <2>1, <3>1 DEF Sides, InvIndex
    <3>4. AnswersAll(Index(s), folder[s].briefs, board)
      BY <1>6, <3>2, <3>3
    <3>5. folder'[s] = folder[s] /\ HydratedOK(s)' /\ BriefsOK(s)'
      BY <1>3, <2>5, <3>2, StaysKeeps
    <3>6. Index(s)' = Index(s)
      BY <3>5 DEF Index
    <3>7. AnswersAll(Index(s), folder[s].briefs, known[s])'
      BY <2>3, <3>4, <3>5, <3>6
    <3> QED BY <3>2, <3>5, <3>7 DEF SoundPlan
  <2> QED BY <2>2, <2>4, <2>5 DEF SeenSoFar
<1> QED BY <1>2, <1>5, <1>6

\* Steps of no check.
LEMMA OtherVerdict ==
  ASSUME Stays, SeenSoFar, UNCHANGED <<passed, known>>, loose \subseteq loose',
         \A d \in Desk : desk'[d] = desk[d] \/ desk'[d].at \notin Checking
  PROVE  SeenSoFar'
<1>1. ASSUME NEW e \in Desk PROVE Seen(e)'
  <2>1. CASE desk'[e] = desk[e]
    BY <2>1, OthersSeen DEF SeenSoFar
  <2>2. CASE desk'[e].at \notin Checking
    BY <2>2 DEF Seen, Counts
  <2> QED BY <2>1, <2>2
<1>2. ASSUME NEW s \in passed', s \notin loose' PROVE SoundPlan(s)'
  <2>1. s \in Stem /\ s \in passed \ loose
    BY <1>2 DEF Stays, Typed, RestTyped
  <2> QED BY <1>2, <2>1, PassedStays DEF SeenSoFar
<1> QED BY <1>1, <1>2 DEF SeenSoFar

\* Before any preflight there is no verdict to account for.
LEMMA InitVerdict == PreflightInit => SeenSoFar
<1> SUFFICES ASSUME PreflightInit PROVE SeenSoFar
  OBVIOUS
<1>1. passed = {} /\ desk = [d \in Desk |-> Idle]
  BY DEF PreflightInit
<1> QED BY <1>1 DEF SeenSoFar, Seen, Counts, Idle, Checking

\* Every preflight step keeps what a verdict so far has seen.
LEMMA StepVerdict == Typed /\ Sides /\ SeenSoFar /\ [PreflightNext]_preflightVars => SeenSoFar'
<1> SUFFICES ASSUME Typed, Sides, SeenSoFar, [PreflightNext]_preflightVars PROVE SeenSoFar'
  OBVIOUS
<1>1. ASSUME NEW d \in Desk, Preflight(d) PROVE SeenSoFar'
  BY <1>1, StartVerdict, ReadOwnRowVerdict, CheckGrillVerdict, HydrateVerdict, CheckBriefsVerdict, AbroadVerdict,
     CheckDecisionsVerdict DEF Preflight
<1>2. ASSUME NEW d \in Desk, FlipRow(d) PROVE SeenSoFar'
  <2>1. /\ UNCHANGED <<folder, board, hydrated, passed, known>>
        /\ loose \subseteq loose'
        /\ \A e \in Desk : desk'[e] = desk[e] \/ desk'[e].at \notin Checking
    BY <1>2, FlipRowStep
  <2>2. Stays
    BY <2>1 DEF Stays
  <2> QED BY <2>1, <2>2, OtherVerdict
<1>3. ASSUME NEW s \in Stem, Register(s) PROVE SeenSoFar'
  <2>1. UNCHANGED <<desk, folder, board, hydrated, passed, known, loose>>
    BY <1>3, RegisterStep
  <2>2. Stays
    BY <2>1 DEF Stays
  <2> QED BY <2>1, <2>2, OtherVerdict
<1>4. ASSUME NEW s \in Stem, NEW f \in Redrafts, Redraft(s, f) PROVE SeenSoFar'
  <2>1. /\ UNCHANGED <<rows, desk, board, hydrated, passed, known>>
        /\ \A t \in Stem \ {s} : folder'[t] = folder[t]
        /\ loose' = loose \cup {s}
    BY <1>4, RedraftStep
  <2>2. Stays
    BY <2>1 DEF Stays
  <2> QED BY <2>1, <2>2, OtherVerdict
<1>5. ASSUME NEW p \in Pointer, Decide(p) PROVE SeenSoFar'
  <2>1. UNCHANGED <<rows, desk, folder, hydrated, passed, known, loose>> /\ board \subseteq board'
    BY <1>5, DecideStep
  <2>2. Stays
    BY <2>1 DEF Stays
  <2> QED BY <2>1, <2>2, OtherVerdict
<1>6. CASE UNCHANGED preflightVars
  <2>1. UNCHANGED <<rows, desk, folder, board, hydrated, passed, known, loose>>
    BY <1>6 DEF preflightVars, registryVars
  <2>2. Stays
    BY <2>1 DEF Stays
  <2> QED BY <2>1, <2>2, OtherVerdict
<1> QED BY <1>1, <1>2, <1>3, <1>4, <1>5, <1>6 DEF PreflightNext

\* Lanes that go out together are in a group that is compared.
LEMMA TogetherIsCompared ==
  ASSUME NEW s \in Stem, folder[s] # None, FolderOK(folder[s]),
         DOMAIN folder[s].rows \subseteq DOMAIN folder[s].briefs,
         NEW l \in DOMAIN folder[s].rows, NEW m \in DOMAIN folder[s].rows, Together(folder[s], l, m)
  PROVE  \E g \in Compared(Index(s), folder[s].briefs) : l \in g /\ m \in g
<1> DEFINE f == folder[s]
           F(w) == Effective(Index(s), f.briefs, w)
<1>1. Index(s).rows = f.rows /\ Index(s).waves = f.waves
  BY DEF Index
<1>2. \A w \in Wave, k \in DOMAIN f.rows : f.briefs[k].wave = w => k \in F(w)
  BY <1>1 DEF Effective, FromBriefs
<1>3. \A w \in Wave, k \in DOMAIN f.rows : f.briefs[k].wave = None /\ k \in f.waves[w] => k \in F(w)
  BY <1>1, PreflightAssumption DEF Effective, FromBriefs, Bullets
<1>4. \A k \in DOMAIN f.rows : f.briefs[k].wave \in Wave \cup {None}
  BY DEF FolderOK
<1>5. \A k \in DOMAIN f.rows : \A w \in WavesOf(f, k) : w \in Wave /\ k \in F(w)
  BY <1>2, <1>3, <1>4 DEF WavesOf
<1>6. CASE WavesOf(f, l) \cap WavesOf(f, m) # {}
  <2>1. PICK w \in Wave : l \in F(w) /\ m \in F(w)
    BY <1>5, <1>6
  <2> HIDE DEF F
  <2>2. F(w) \in {F(v) : v \in Wave} \ {{}}
    BY <2>1
  <2>3. Compared(Index(s), f.briefs) = {F(v) : v \in Wave} \ {{}}
    BY <2>2 DEF Compared, F
  <2> QED BY <2>1, <2>2, <2>3
<1>7. CASE \A w \in Wave : f.waves[w] = {} /\ \A k \in DOMAIN f.rows : f.briefs[k].wave # w
  <2>1. \A w \in Wave : F(w) = {}
    BY <1>1, <1>7 DEF Effective, FromBriefs, Bullets
  <2> HIDE DEF F
  <2>2. {F(v) : v \in Wave} \ {{}} = {}
    BY <2>1
  <2>3. Compared(Index(s), f.briefs) = {DOMAIN f.rows}
    BY <1>1, <2>2 DEF Compared, F
  <2> QED BY <2>3
<1> QED BY <1>6, <1>7 DEF Together

\* Two paths that do not overlap differ, and neither contains the other.
LEMMA PathsApart ==
  ASSUME NEW p \in Seq(STRING), NEW q \in Seq(STRING), ~PathsOverlap(p, q)
  PROVE  p # q /\ ~IsStrictPrefix(p, q)
BY DEF PathsOverlap, IsPrefix, IsStrictPrefix

\* What a verdict has seen gives the soundness of a pass.
LEMMA VerdictMeansSound == Typed /\ Sides /\ SeenSoFar => PassMeansSound
<1> SUFFICES ASSUME Typed, Sides, SeenSoFar, NEW s \in passed \ loose
             PROVE  LET f == folder[s] IN
                    f.grilled /\ \A l \in DOMAIN f.rows :
                      /\ f.briefs[l].scope = f.rows[l].files
                      /\ \A m \in DOMAIN f.rows \ {l} : Together(f, l, m) =>
                           \A p \in f.briefs[l].scope, q \in f.briefs[m].scope : p # q /\ ~IsStrictPrefix(p, q)
                      /\ f.rows[l].points \subseteq board \cap f.briefs[l].cites
                      /\ f.rows[l].points # {} => hydrated[s][l] = f.rows[l].points
                      /\ \A c \in known[s] \cap Decision : Touches[c] \cap f.rows[l].files # {} =>
                           c \in f.rows[l].points \cup f.rows[l].waived
  BY DEF PassMeansSound
<1> DEFINE f == folder[s]
<1>1. s \in Stem /\ SoundPlan(s)
  BY DEF Typed, RestTyped, SeenSoFar
<1>2. f # None /\ FolderOK(f)
  BY <1>1 DEF Sides, InvFresh, Standing, Typed, RestTyped
<1>3. Index(s).rows = f.rows
  BY DEF Index
<1>4. \A l \in DOMAIN f.rows : l \in DOMAIN f.briefs /\ f.briefs[l].scope = f.rows[l].files
  BY <1>1, <1>3 DEF SoundPlan, BriefsOK, Drifted
<1>5. ASSUME NEW l \in DOMAIN f.rows, NEW m \in DOMAIN f.rows \ {l}, Together(f, l, m),
             NEW p \in f.briefs[l].scope, NEW q \in f.briefs[m].scope
      PROVE  p # q /\ ~IsStrictPrefix(p, q)
  <2>1. PICK g \in Compared(Index(s), f.briefs) : l \in g /\ m \in g
    BY <1>1, <1>2, <1>4, <1>5, TogetherIsCompared
  <2>2. ~Overlap(f.rows[l].files, f.rows[m].files)
    BY <1>1, <1>3, <1>5, <2>1 DEF SoundPlan, BriefsOK, SameWaveOverlap
  <2>3. p \in f.rows[l].files /\ q \in f.rows[m].files
    BY <1>4, <1>5
  <2>4. p \in Seq(STRING) /\ q \in Seq(STRING) /\ ~PathsOverlap(p, q)
    BY <1>2, <1>5, <2>2, <2>3 DEF FolderOK, Overlap
  <2> QED BY <2>4, PathsApart
<1>6. ASSUME NEW l \in DOMAIN f.rows
      PROVE  /\ f.rows[l].points \subseteq board \cap f.briefs[l].cites
             /\ f.rows[l].points # {} => hydrated[s][l] = f.rows[l].points
  <2>1. f.rows[l].points \subseteq f.briefs[l].cites
    BY <1>1, <1>3, <1>4, <1>6 DEF SoundPlan, BriefsOK, Cited
  <2>2. CASE Dashes(Index(s))
    BY <1>3, <1>6, <2>1, <2>2 DEF Dashes
  <2>3. CASE Resolves(Index(s), board) /\ hydrated[s] = WrittenPoints(s)
    BY <1>3, <1>6, <2>1, <2>3 DEF Resolves, WrittenPoints
  <2> QED BY <1>1, <2>2, <2>3 DEF SoundPlan, HydratedOK
<1>7. ASSUME NEW l \in DOMAIN f.rows, NEW c \in known[s] \cap Decision, Touches[c] \cap f.rows[l].files # {}
      PROVE  c \in f.rows[l].points \cup f.rows[l].waived
  <2>1. Scope(Index(s), f.briefs, l) = f.rows[l].files
    BY <1>3, <1>4, <1>7 DEF Scope
  <2>2. c \in Candidates(Index(s), f.briefs, l, known[s])
    BY <1>7, <2>1 DEF Candidates
  <2>3. c \in Handled(Index(s), l)
    BY <1>1, <1>3, <1>7, <2>2 DEF SoundPlan, AnswersAll
  <2> QED BY <1>3, <2>3 DEF Handled, Accepted, WaivedOff
<1>8. f.grilled
  BY <1>1 DEF SoundPlan
<1> QED BY <1>4, <1>5, <1>6, <1>7, <1>8

(* A plan that has passed and was not written since is sound, whatever     *)
(* other desks write between its steps, for any plans, lanes and paths:    *)
(* each step that has found no error holds of the folder as it is, and the *)
(* lanes that go out together are always in one group of those compared.   *)
THEOREM PassSound == PreflightSpec => []PassMeansSound
<1>1. PreflightSpec => [](Typed /\ Sides /\ SeenSoFar)
  BY InitTyped, StepTyped, InitSides, StepSides, InitVerdict, StepVerdict, PTL DEF PreflightSpec
<1> QED BY <1>1, VerdictMeansSound, PTL
-----------------------------------------------------------------------------
(* The directories of the tools: types                                     *)

\* The tools are visited in a finite order of places.
LEMMA ToolOrder ==
  /\ Len(Tool) \in Nat /\ DOMAIN Tool = 1..Len(Tool)
  /\ 1 \in DOMAIN Tool
  /\ \A n \in DOMAIN Tool : Tool[n] \in Place
BY SyncAssumption

\* A run is at a step and in a directory.
LEMMA Underway ==
  ASSUME SyncTypeOK, NEW s \in Syncer, Under(s)
  PROVE  sync[s] \in Errand /\ Spot(s) \in Place
BY ToolOrder DEF SyncTypeOK, Under, Away, Errand, Spot

\* Moving an errand to a phase, a tool and its work left keeps it typed.
LEMMA GoesTyped ==
  ASSUME SyncTypeOK, NEW s \in Syncer, Under(s),
         NEW at \in Phase, NEW nth \in DOMAIN Tool, NEW left \in SUBSET Asset, Goes(s, at, nth, left)
  PROVE  sync' \in [Syncer -> {Away} \cup Errand] /\ alone' \subseteq Syncer
<1> DEFINE job == [at |-> at, mode |-> sync[s].mode, nth |-> nth, left |-> left]
<1>1. job \in Errand
  BY Underway DEF Errand
<1>2. sync' = [sync EXCEPT ![s] = job] /\ alone' = alone
  BY DEF Goes
<1> QED BY <1>1, <1>2 DEF SyncTypeOK

\* Moving an errand to a phase of the same tool keeps it typed.
LEMMA TurnsTyped ==
  ASSUME SyncTypeOK, NEW s \in Syncer, Under(s),
         NEW at \in Phase, NEW left \in SUBSET Asset, Turns(s, at, left)
  PROVE  sync' \in [Syncer -> {Away} \cup Errand] /\ alone' \subseteq Syncer
<1>1. sync[s].nth \in DOMAIN Tool
  BY Underway DEF Errand
<1> QED BY <1>1, GoesTyped DEF Turns

\* Turning to the next tool, or to what follows the last one, keeps an errand typed.
LEMMA OntoTyped ==
  ASSUME SyncTypeOK, NEW s \in Syncer, Under(s),
         NEW loop \in Phase, NEW next \in Phase, Onto(s, loop, next)
  PROVE  sync' \in [Syncer -> {Away} \cup Errand] /\ alone' \subseteq Syncer
<1>1. sync[s].nth \in DOMAIN Tool
  BY Underway DEF Errand
<1>2. CASE sync[s].nth < Len(Tool)
  <2>1. sync[s].nth + 1 \in DOMAIN Tool
    BY <1>1, <1>2, ToolOrder
  <2>2. Goes(s, loop, sync[s].nth + 1, {})
    BY <1>2 DEF Onto
  <2> QED BY <2>1, <2>2, GoesTyped
<1>3. CASE ~(sync[s].nth < Len(Tool))
  <2>1. Goes(s, next, 1, {})
    BY <1>3 DEF Onto
  <2> QED BY <2>1, ToolOrder, GoesTyped
<1> QED BY <1>2, <1>3

\* Leaving the run keeps the runs typed.
LEMMA LeavesTyped ==
  ASSUME SyncTypeOK, NEW s \in Syncer, Leaves(s)
  PROVE  sync' \in [Syncer -> {Away} \cup Errand] /\ alone' \subseteq Syncer
BY DEF SyncTypeOK, Leaves

\* Counting a run, an edit or a stop keeps the counters typed.
LEMMA SpendTyped ==
  ASSUME SyncTypeOK, NEW what \in {"runs", "touches", "stops"}, NEW max, Spend(what, max)
  PROVE  bill' \in Bill
BY DEF SyncTypeOK, Bill, Spend

\* What one file's change makes of a directory.
LEMMA PlaceTyped ==
  ASSUME SyncTypeOK, NEW p \in Trees, NEW f \in Asset, NEW v \in Content,
         place' = [place EXCEPT ![p][f] = v]
  PROVE  /\ place' \in [Place -> Tree \cup {Link, Foreign, Missing}]
         /\ Trees' = Trees
         /\ place'[p] \in Tree
<1>1. p \in Place /\ place[p] \in Tree
  BY DEF SyncTypeOK, Trees
<1>2. place' = [place EXCEPT ![p] = [place[p] EXCEPT ![f] = v]]
  OBVIOUS
<1>3. [place[p] EXCEPT ![f] = v] \in Tree
  BY <1>1 DEF Tree
<1>4. /\ place' \in [Place -> Tree \cup {Link, Foreign, Missing}]
      /\ place'[p] \in Tree
      /\ \A q \in Place \ {p} : place'[q] = place[q]
  BY <1>1, <1>2, <1>3 DEF SyncTypeOK
<1>5. Trees' = Trees
  BY <1>1, <1>4, SyncAssumption DEF Trees
<1> QED BY <1>4, <1>5

\* The initial tool-sync state is typed.
LEMMA SyncInitTyped ==
  ASSUME SyncInit
  PROVE  SyncTypeOK
<1>1. Given \subseteq Tree
  BY DEF Given, Tree, Content
<1>2. PICK f \in Firsts : canon = f.repo /\ place = f.place
  BY DEF SyncInit
<1>3. canon \in Tree /\ place \in [Place -> Tree \cup {Link, Foreign, Missing}]
  <2>1. f.repo \in Given /\ f.place \in [Place -> Given \cup {Link, Foreign, Missing}]
    BY SyncAssumption
  <2> QED BY <1>1, <1>2, <2>1
<1>4. bill \in Bill
  BY SyncAssumption DEF SyncInit
<1> QED BY <1>3, <1>4 DEF SyncInit, SyncTypeOK

\* A step of StartRun keeps SyncTypeOK.
LEMMA StartTyped ==
  ASSUME SyncTypeOK, NEW s \in Syncer, StartRun(s)
  PROVE  SyncTypeOK'
<1>1. bill' \in Bill
  BY SpendTyped DEF StartRun
<1>2. PICK mode \in Modes :
        /\ sync' = [sync EXCEPT ![s] = [at |-> "list", mode |-> mode, nth |-> 1, left |-> {}]]
        /\ settled' = IF mode = settled THEN settled ELSE "no"
  BY DEF StartRun
<1>3. [at |-> "list", mode |-> mode, nth |-> 1, left |-> {}] \in Errand
  BY ToolOrder DEF Errand, Phase
<1>4. sync' \in [Syncer -> {Away} \cup Errand]
  BY <1>2, <1>3 DEF SyncTypeOK
<1>5. settled' \in Modes \cup {"no"}
  BY <1>2 DEF SyncTypeOK
<1> QED BY <1>1, <1>4, <1>5 DEF SyncTypeOK, StartRun

\* A step of ListPlace keeps SyncTypeOK.
LEMMA ListTyped ==
  ASSUME SyncTypeOK, NEW s \in Syncer, ListPlace(s)
  PROVE  SyncTypeOK'
<1>1. Under(s) /\ {f \in Markdown : place[Spot(s)][f] # NoFile} \in SUBSET Asset
  BY SyncAssumption DEF ListPlace
<1>2. "import" \in Phase /\ "list" \in Phase /\ "link" \in Phase
  BY DEF Phase
<1>3. sync' \in [Syncer -> {Away} \cup Errand] /\ alone' \subseteq Syncer
  BY <1>1, <1>2, TurnsTyped, OntoTyped DEF ListPlace
<1> QED BY <1>3 DEF SyncTypeOK, ListPlace

\* A step of ImportFile keeps SyncTypeOK.
LEMMA ImportTyped ==
  ASSUME SyncTypeOK, NEW s \in Syncer, ImportFile(s)
  PROVE  SyncTypeOK'
<1>1. Under(s) /\ sync[s] \in Errand /\ Spot(s) \in Place
  BY Underway DEF ImportFile
<1>2. "import" \in Phase /\ "list" \in Phase /\ "link" \in Phase
  BY DEF Phase
<1>3. CASE sync[s].left = {}
  <2>1. Onto(s, "list", "link") /\ UNCHANGED canon
    BY <1>3 DEF ImportFile
  <2>2. sync' \in [Syncer -> {Away} \cup Errand] /\ alone' \subseteq Syncer
    BY <1>1, <1>2, <2>1, OntoTyped
  <2> QED BY <2>1, <2>2 DEF SyncTypeOK, ImportFile
<1>4. CASE sync[s].left # {}
  <2>1. PICK f \in sync[s].left :
          IF Spot(s) \in Trees \cup {p \in Place : place[p] = Link} /\ Reached(Spot(s))[f] # NoFile
          THEN /\ canon' = [canon EXCEPT ![f] = Reached(Spot(s))[f]]
               /\ Turns(s, "import", sync[s].left \ {f})
          ELSE Leaves(s) /\ UNCHANGED canon
    BY <1>4 DEF ImportFile
  <2>2. f \in Asset /\ sync[s].left \ {f} \in SUBSET Asset
    BY <1>1 DEF Errand
  <2>3. CASE Spot(s) \in Trees \cup {p \in Place : place[p] = Link} /\ Reached(Spot(s))[f] # NoFile
    <3>1. Reached(Spot(s)) \in Tree
      BY <2>3 DEF SyncTypeOK, Reached, Trees
    <3>2. canon' \in Tree
      BY <2>1, <2>2, <2>3, <3>1 DEF SyncTypeOK, Tree
    <3>3. sync' \in [Syncer -> {Away} \cup Errand] /\ alone' \subseteq Syncer
      BY <1>1, <1>2, <2>1, <2>2, <2>3, TurnsTyped
    <3> QED BY <3>2, <3>3 DEF SyncTypeOK, ImportFile
  <2>4. CASE ~(Spot(s) \in Trees \cup {p \in Place : place[p] = Link} /\ Reached(Spot(s))[f] # NoFile)
    <3>1. Leaves(s) /\ UNCHANGED canon
      BY <2>1, <2>4
    <3>2. sync' \in [Syncer -> {Away} \cup Errand] /\ alone' \subseteq Syncer
      BY <3>1, LeavesTyped
    <3> QED BY <3>1, <3>2 DEF SyncTypeOK, ImportFile
  <2> QED BY <2>3, <2>4
<1> QED BY <1>3, <1>4

\* A step of LookAt keeps SyncTypeOK.
LEMMA LookTyped ==
  ASSUME SyncTypeOK, NEW s \in Syncer, LookAt(s)
  PROVE  SyncTypeOK'
<1> DEFINE p == Spot(s)
<1>1. Under(s) /\ {"link", "commit", "backup", "make"} \subseteq Phase
  BY DEF LookAt, Phase
<1>2. /\ Onto(s, "link", "commit") \/ Turns(s, "backup", {}) \/ Turns(s, "make", {})
      /\ place' = place \/ place' = [place EXCEPT ![p] = Missing]
  BY DEF LookAt
<1>3. sync' \in [Syncer -> {Away} \cup Errand] /\ alone' \subseteq Syncer
  BY <1>1, <1>2, TurnsTyped, OntoTyped
<1>4. place' \in [Place -> Tree \cup {Link, Foreign, Missing}]
  BY <1>2 DEF SyncTypeOK
<1> QED BY <1>3, <1>4 DEF SyncTypeOK, LookAt

\* A step of Backup keeps SyncTypeOK.
LEMMA BackupTyped ==
  ASSUME SyncTypeOK, NEW s \in Syncer, Backup(s)
  PROVE  SyncTypeOK'
<1>1. Under(s) /\ "remove" \in Phase /\ Turns(s, "remove", {})
  BY DEF Backup, Phase
<1>2. sync' \in [Syncer -> {Away} \cup Errand] /\ alone' \subseteq Syncer
  BY <1>1, TurnsTyped
<1>3. shelf' \subseteq Asset \X Content
  <2>1. Spot(s) \in Trees => Saved(Spot(s)) \subseteq Asset \X Content
    BY DEF SyncTypeOK, Saved, Pairs, Trees, Tree
  <2> QED BY <2>1 DEF SyncTypeOK, Backup
<1> QED BY <1>2, <1>3 DEF SyncTypeOK, Backup

\* A step of RemoveTree keeps SyncTypeOK.
LEMMA RemoveTyped ==
  ASSUME SyncTypeOK, NEW s \in Syncer, RemoveTree(s)
  PROVE  SyncTypeOK'
<1> DEFINE p == Spot(s)
<1>1. Under(s) /\ "make" \in Phase
  BY DEF RemoveTree, Phase
<1>2. CASE p \in Trees /\ place' = [place EXCEPT ![p] = Missing] /\ Turns(s, "make", {})
  <2>1. sync' \in [Syncer -> {Away} \cup Errand] /\ alone' \subseteq Syncer
    BY <1>1, <1>2, TurnsTyped
  <2>2. place' \in [Place -> Tree \cup {Link, Foreign, Missing}]
    BY <1>2 DEF SyncTypeOK
  <2> QED BY <2>1, <2>2 DEF SyncTypeOK, RemoveTree
<1>3. CASE /\ p \in Trees
           /\ \E f \in Asset : place[p][f] # NoFile /\ place' = [place EXCEPT ![p][f] = NoFile]
           /\ UNCHANGED <<sync, alone>>
  <2>1. PICK f \in Asset : place' = [place EXCEPT ![p][f] = NoFile]
    BY <1>3
  <2>2. NoFile \in Content
    BY DEF Content
  <2>3. place' \in [Place -> Tree \cup {Link, Foreign, Missing}]
    BY <1>3, <2>1, <2>2, PlaceTyped
  <2> QED BY <1>3, <2>3 DEF SyncTypeOK, RemoveTree
<1>4. CASE Leaves(s) /\ UNCHANGED place
  <2>1. sync' \in [Syncer -> {Away} \cup Errand] /\ alone' \subseteq Syncer
    BY <1>4, LeavesTyped
  <2> QED BY <1>4, <2>1 DEF SyncTypeOK, RemoveTree
<1> QED BY <1>2, <1>3, <1>4 DEF RemoveTree

\* A step of MakeTree keeps SyncTypeOK.
LEMMA MakeTyped ==
  ASSUME SyncTypeOK, NEW s \in Syncer, MakeTree(s)
  PROVE  SyncTypeOK'
<1> DEFINE p == Spot(s)
<1>1. Under(s) /\ {"link", "commit", "copy"} \subseteq Phase
  BY DEF MakeTree, Phase
<1>2. CASE Leaves(s) /\ UNCHANGED place
  <2>1. sync' \in [Syncer -> {Away} \cup Errand] /\ alone' \subseteq Syncer
    BY <1>2, LeavesTyped
  <2> QED BY <1>2, <2>1 DEF SyncTypeOK, MakeTree
<1>3. CASE place' = [place EXCEPT ![p] = Link] /\ Onto(s, "link", "commit")
  <2>1. sync' \in [Syncer -> {Away} \cup Errand] /\ alone' \subseteq Syncer
    BY <1>1, <1>3, OntoTyped
  <2>2. place' \in [Place -> Tree \cup {Link, Foreign, Missing}]
    BY <1>3 DEF SyncTypeOK
  <2> QED BY <2>1, <2>2 DEF SyncTypeOK, MakeTree
<1>4. CASE /\ place' = [place EXCEPT ![p] = [f \in Asset |-> NoFile]]
           /\ Turns(s, "copy", {f \in Asset : canon[f] # NoFile})
  <2>1. sync' \in [Syncer -> {Away} \cup Errand] /\ alone' \subseteq Syncer
    BY <1>1, <1>4, TurnsTyped
  <2>2. [f \in Asset |-> NoFile] \in Tree
    BY DEF Tree, Content
  <2>3. place' \in [Place -> Tree \cup {Link, Foreign, Missing}]
    BY <1>4, <2>2 DEF SyncTypeOK
  <2> QED BY <2>1, <2>3 DEF SyncTypeOK, MakeTree
<1> QED BY <1>2, <1>3, <1>4 DEF MakeTree

\* A step of CopyFile keeps SyncTypeOK.
LEMMA CopyTyped ==
  ASSUME SyncTypeOK, NEW s \in Syncer, CopyFile(s)
  PROVE  SyncTypeOK'
<1> DEFINE p == Spot(s)
<1>1. Under(s) /\ {"link", "commit", "copy"} \subseteq Phase /\ sync[s] \in Errand
  BY Underway DEF CopyFile, Phase
<1>2. CASE Onto(s, "link", "commit") /\ UNCHANGED place
  <2>1. sync' \in [Syncer -> {Away} \cup Errand] /\ alone' \subseteq Syncer
    BY <1>1, <1>2, OntoTyped
  <2> QED BY <1>2, <2>1 DEF SyncTypeOK, CopyFile
<1>3. CASE Leaves(s) /\ UNCHANGED place
  <2>1. sync' \in [Syncer -> {Away} \cup Errand] /\ alone' \subseteq Syncer
    BY <1>3, LeavesTyped
  <2> QED BY <1>3, <2>1 DEF SyncTypeOK, CopyFile
<1>4. CASE /\ p \in Trees
           /\ \E f \in sync[s].left : /\ place' = [place EXCEPT ![p][f] = canon[f]]
                                      /\ Turns(s, "copy", sync[s].left \ {f})
  <2>1. PICK f \in sync[s].left : /\ place' = [place EXCEPT ![p][f] = canon[f]]
                                  /\ Turns(s, "copy", sync[s].left \ {f})
    BY <1>4
  <2>2. f \in Asset /\ sync[s].left \ {f} \in SUBSET Asset
    BY <1>1 DEF Errand
  <2>3. canon[f] \in Content
    BY <2>2 DEF SyncTypeOK, Tree
  <2>4. sync' \in [Syncer -> {Away} \cup Errand] /\ alone' \subseteq Syncer
    BY <1>1, <2>1, <2>2, TurnsTyped
  <2>5. place' \in [Place -> Tree \cup {Link, Foreign, Missing}]
    BY <1>4, <2>1, <2>2, <2>3, PlaceTyped
  <2> QED BY <2>4, <2>5 DEF SyncTypeOK, CopyFile
<1> QED BY <1>2, <1>3, <1>4 DEF CopyFile

\* A step of CommitAll keeps SyncTypeOK.
LEMMA CommitTyped ==
  ASSUME SyncTypeOK, NEW s \in Syncer, CommitAll(s)
  PROVE  SyncTypeOK'
<1>1. sync' \in [Syncer -> {Away} \cup Errand] /\ alone' \subseteq Syncer
  BY LeavesTyped DEF CommitAll
<1>2. settled' \in Modes \cup {"no"}
  BY Underway DEF CommitAll, SyncTypeOK, Errand
<1> QED BY <1>1, <1>2 DEF SyncTypeOK, CommitAll

\* A step of StopRun keeps SyncTypeOK.
LEMMA StopTyped ==
  ASSUME SyncTypeOK, NEW s \in Syncer, StopRun(s)
  PROVE  SyncTypeOK'
<1> DEFINE p == Spot(s)
<1>1. bill' \in Bill
  BY SpendTyped DEF StopRun
<1>2. sync' \in [Syncer -> {Away} \cup Errand] /\ alone' \subseteq Syncer
  BY LeavesTyped DEF StopRun
<1>3. Partial \in Content /\ sync[s].left \subseteq Asset
  BY Underway DEF StopRun, Content, Errand
<1>4. canon' \in Tree /\ place' \in [Place -> Tree \cup {Link, Foreign, Missing}]
  <2>1. CASE UNCHANGED <<canon, place>>
    BY <2>1 DEF SyncTypeOK
  <2>2. CASE /\ sync[s].at = "copy" /\ p \in Trees
             /\ \E f \in sync[s].left : place' = [place EXCEPT ![p][f] = Partial]
             /\ UNCHANGED canon
    <3>1. PICK f \in sync[s].left : place' = [place EXCEPT ![p][f] = Partial]
      BY <2>2
    <3> QED BY <1>3, <2>2, <3>1, PlaceTyped DEF SyncTypeOK
  <2>3. CASE /\ sync[s].at = "import" /\ p \in Trees
             /\ \E f \in sync[s].left : /\ place[p][f] \notin {NoFile, canon[f]}
                                        /\ canon' = [canon EXCEPT ![f] = Partial]
             /\ UNCHANGED place
    BY <1>3, <2>3 DEF SyncTypeOK, Tree
  <2> QED BY <2>1, <2>2, <2>3 DEF StopRun
<1> QED BY <1>1, <1>2, <1>4 DEF SyncTypeOK, StopRun

\* What a user may write into a file is a content.
LEMMA EditedTyped ==
  ASSUME SyncTypeOK
  PROVE  Edited \subseteq Content
BY DEF SyncTypeOK, Bill, Edited, Content

\* Counting a user's edit keeps the counters typed.
LEMMA TouchTyped ==
  ASSUME SyncTypeOK, Touch
  PROVE  bill' \in Bill
BY SpendTyped DEF Touch

\* A user's edit of a tool's copy keeps the types.
LEMMA EditPlaceTyped ==
  ASSUME SyncTypeOK, EditPlace
  PROVE  SyncTypeOK'
<1>1. PICK p \in Trees, f \in Asset : \E v \in Edited \ {place[p][f]} :
        /\ place' = [place EXCEPT ![p][f] = v]
        /\ owed' = (owed \ {<<f, place[p][f]>>}) \cup (IF Rest /\ v # NoFile THEN {<<f, v>>} ELSE {})
  BY DEF EditPlace
<1>2. PICK v \in Edited \ {place[p][f]} :
        /\ place' = [place EXCEPT ![p][f] = v]
        /\ owed' = (owed \ {<<f, place[p][f]>>}) \cup (IF Rest /\ v # NoFile THEN {<<f, v>>} ELSE {})
  BY <1>1
<1>3. v \in Content
  BY EditedTyped
<1>4. place' \in [Place -> Tree \cup {Link, Foreign, Missing}]
  BY <1>2, <1>3, PlaceTyped
<1>5. owed' \subseteq Asset \X Content
  BY <1>2, <1>3 DEF SyncTypeOK
<1> QED BY <1>4, <1>5, TouchTyped DEF SyncTypeOK, EditPlace, Touch

\* A user's edit of the canonical copy keeps the types.
LEMMA EditCanonTyped ==
  ASSUME SyncTypeOK, EditCanon
  PROVE  SyncTypeOK'
<1>1. PICK f \in Asset : \E v \in Edited \ {canon[f]} :
        /\ canon' = [canon EXCEPT ![f] = v]
        /\ owed' = owed \ {<<f, canon[f]>>}
        /\ sent' = IF Rest /\ v # NoFile /\ (settled # "no" \/ sent # {})
                   THEN {pair \in sent : pair[1] # f} \cup {<<f, v>>} ELSE {}
  BY DEF EditCanon
<1>2. PICK v \in Edited \ {canon[f]} :
        /\ canon' = [canon EXCEPT ![f] = v]
        /\ owed' = owed \ {<<f, canon[f]>>}
        /\ sent' = IF Rest /\ v # NoFile /\ (settled # "no" \/ sent # {})
                   THEN {pair \in sent : pair[1] # f} \cup {<<f, v>>} ELSE {}
  BY <1>1
<1>3. v \in Content
  BY EditedTyped
<1>4. canon' \in Tree
  BY <1>2, <1>3 DEF SyncTypeOK, Tree
<1>5. sent' \subseteq Asset \X Content
  BY <1>2, <1>3 DEF SyncTypeOK
<1> QED BY <1>2, <1>4, <1>5, TouchTyped DEF SyncTypeOK, EditCanon, Touch

\* Every tool-sync step keeps the types.
LEMMA SyncStepTyped ==
  ASSUME SyncTypeOK, [SyncNext]_syncVars
  PROVE  SyncTypeOK'
<1>1. ASSUME NEW s \in Syncer,
             \/ StartRun(s)
             \/ ListPlace(s) \/ ImportFile(s)
             \/ LookAt(s) \/ Backup(s) \/ RemoveTree(s) \/ MakeTree(s) \/ CopyFile(s)
             \/ CommitAll(s)
             \/ StopRun(s)
      PROVE  SyncTypeOK'
  BY <1>1, StartTyped, ListTyped, ImportTyped, LookTyped, BackupTyped, RemoveTyped, MakeTyped,
     CopyTyped, CommitTyped, StopTyped
<1>2. CASE UNCHANGED syncVars
  BY <1>2 DEF SyncTypeOK, syncVars
<1> QED BY <1>1, <1>2, EditPlaceTyped, EditCanonTyped DEF SyncNext

\* Whatever the installation, and however many runs overlap or are cut short,
\* every part of it is what ai-sync takes it for.
THEOREM SyncTypes == SyncSpec => []SyncTypeOK
<1>1. SyncInit => SyncTypeOK
  BY SyncInitTyped
<1>2. SyncTypeOK /\ [SyncNext]_syncVars => SyncTypeOK'
  BY SyncStepTyped
<1> QED BY <1>1, <1>2, PTL DEF SyncSpec
-----------------------------------------------------------------------------
(* The directories of the tools: edits                                     *)

\* A file is safe in a directory: it is there, and nobody is about to remove
\* it or to write it again.
Firm(pair, p) ==
  /\ p \in Trees /\ pair \in Pairs(place[p])
  /\ \A s \in Syncer : Under(s) /\ Spot(s) = p =>
       /\ sync[s].at # "remove"
       /\ sync[s].at = "copy" => pair[1] \notin sync[s].left

\* EditsAreKept is not inductive: a pair may be in a directory that a run is
\* removing.  A run backs the directory up first, so from then on the pair is
\* on the shelf.
OwedInv == \A pair \in owed : pair \in shelf \/ \E p \in Place : Firm(pair, p)

\* What a step makes of s's job: it goes on in the directory, or in the next
\* one, or ends.
LEMMA TurnsAfter ==
  ASSUME SyncTypeOK, NEW s \in Syncer, NEW at, NEW left, Turns(s, at, left)
  PROVE  sync'[s].at = at /\ \A r \in Syncer \ {s} : sync'[r] = sync[r]
BY DEF SyncTypeOK, Turns, Goes

\* Turning to the next tool moves one run, to that tool or past the last one.
LEMMA OntoAfter ==
  ASSUME SyncTypeOK, NEW s \in Syncer, NEW loop, NEW next, Onto(s, loop, next)
  PROVE  sync'[s].at \in {loop, next} /\ \A r \in Syncer \ {s} : sync'[r] = sync[r]
BY DEF SyncTypeOK, Onto, Goes

\* Leaving ends one run and no other.
LEMMA LeavesAfter ==
  ASSUME SyncTypeOK, NEW s \in Syncer, Leaves(s)
  PROVE  sync'[s].at = "away" /\ \A r \in Syncer \ {s} : sync'[r] = sync[r]
BY DEF SyncTypeOK, Leaves, Away

\* A pair stays safe where it is if the step leaves it there and s is not
\* about to disturb it.
LEMMA FirmStays ==
  ASSUME SyncTypeOK, NEW pair, NEW q \in Place, Firm(pair, q),
         q \in Trees', pair \in Pairs(place'[q]),
         NEW s \in Syncer, \A r \in Syncer \ {s} : sync'[r] = sync[r],
         (Under(s) /\ Spot(s) = q)' =>
           sync'[s].at # "remove" /\ (sync'[s].at = "copy" => pair[1] \notin sync'[s].left)
  PROVE  Firm(pair, q)'
BY DEF Firm, Under, Spot

\* A change of one file leaves the others where they are.
LEMMA OtherFile ==
  ASSUME SyncTypeOK, NEW p, NEW f, NEW v, place' = [place EXCEPT ![p][f] = v],
         NEW q \in Place, NEW pair, Firm(pair, q), q = p => pair[1] # f
  PROVE  pair \in Pairs(place'[q])
<1>1. q \in Trees /\ place[q] \in Tree
  BY DEF Firm, Trees, SyncTypeOK
<1>2. PICK g \in Asset : place[q][g] # NoFile /\ pair = <<g, place[q][g]>>
  BY DEF Firm, Pairs
<1>3. place'[q][g] = place[q][g]
  BY <1>1, <1>2 DEF SyncTypeOK, Tree
<1> QED BY <1>2, <1>3 DEF Pairs

\* A step of a run that leaves the trees and goes on to neither removing nor
\* copying.
LEMMA HarmlessStep ==
  ASSUME SyncTypeOK, OwedInv,
         owed' \subseteq owed, shelf \subseteq shelf',
         \A q \in Trees : q \in Trees' /\ place'[q] = place[q],
         NEW s \in Syncer, \A r \in Syncer \ {s} : sync'[r] = sync[r],
         sync'[s].at \notin {"remove", "copy"}
  PROVE  OwedInv'
<1> SUFFICES ASSUME NEW pair \in owed', pair \notin shelf'
             PROVE  \E p \in Place : Firm(pair, p)'
  BY DEF OwedInv
<1>1. PICK q \in Place : Firm(pair, q)
  BY DEF OwedInv
<1>2. q \in Trees' /\ pair \in Pairs(place'[q])
  BY <1>1 DEF Firm
<1>3. Firm(pair, q)'
  BY <1>1, <1>2, FirmStays
<1> QED BY <1>3

\* A step of StartRun keeps OwedInv.
LEMMA StartKeeps ==
  ASSUME SyncTypeOK, OwedInv, NEW s \in Syncer, StartRun(s)
  PROVE  OwedInv'
<1>1. sync'[s].at = "list" /\ \A r \in Syncer \ {s} : sync'[r] = sync[r]
  BY DEF StartRun, SyncTypeOK
<1> QED BY <1>1, HarmlessStep DEF StartRun, Trees

\* A step of ListPlace keeps OwedInv.
LEMMA ListKeeps ==
  ASSUME SyncTypeOK, OwedInv, NEW s \in Syncer, ListPlace(s)
  PROVE  OwedInv'
<1>1. \/ Turns(s, "import", {f \in Markdown : place[Spot(s)][f] # NoFile})
      \/ Onto(s, "list", "link")
  BY DEF ListPlace
<1>2. sync'[s].at \notin {"remove", "copy"} /\ \A r \in Syncer \ {s} : sync'[r] = sync[r]
  BY <1>1, TurnsAfter, OntoAfter, LeavesAfter
<1> QED BY <1>2, HarmlessStep DEF ListPlace, Trees

\* A step of ImportFile keeps OwedInv.
LEMMA ImportKeeps ==
  ASSUME SyncTypeOK, OwedInv, NEW s \in Syncer, ImportFile(s)
  PROVE  OwedInv'
<1>1. \/ \E f \in sync[s].left : Turns(s, "import", sync[s].left \ {f})
      \/ Onto(s, "list", "link") \/ Leaves(s)
  BY DEF ImportFile
<1>2. sync'[s].at \notin {"remove", "copy"} /\ \A r \in Syncer \ {s} : sync'[r] = sync[r]
  <2>1. CASE \E f \in sync[s].left : Turns(s, "import", sync[s].left \ {f})
    <3>1. PICK f \in sync[s].left : Turns(s, "import", sync[s].left \ {f})
      BY <2>1
    <3> QED BY <3>1, TurnsAfter
  <2>2. CASE Onto(s, "list", "link") \/ Leaves(s)
    BY <2>2, OntoAfter, LeavesAfter
  <2> QED BY <1>1, <2>1, <2>2
<1> QED BY <1>2, HarmlessStep DEF ImportFile, Trees

\* A step of LookAt keeps OwedInv.
LEMMA LookKeeps ==
  ASSUME SyncTypeOK, OwedInv, NEW s \in Syncer, LookAt(s)
  PROVE  OwedInv'
<1>1. \/ Onto(s, "link", "commit")
      \/ Turns(s, "backup", {}) \/ Turns(s, "make", {})
  BY DEF LookAt
<1>2. sync'[s].at \notin {"remove", "copy"} /\ \A r \in Syncer \ {s} : sync'[r] = sync[r]
  BY <1>1, TurnsAfter, OntoAfter, LeavesAfter
<1>3. place' = place \/ (place[Spot(s)] = Link /\ place' = [place EXCEPT ![Spot(s)] = Missing])
  BY DEF LookAt
<1>4. \A q \in Trees : q \in Trees' /\ place'[q] = place[q]
  BY <1>3 DEF Trees, SyncTypeOK
<1> QED BY <1>2, <1>4, HarmlessStep DEF LookAt

\* What the run is about to remove goes on the shelf.
LEMMA BackupKeeps ==
  ASSUME SyncTypeOK, OwedInv, NEW s \in Syncer, Backup(s)
  PROVE  OwedInv'
<1>1. Turns(s, "remove", {}) /\ Under(s)
  BY DEF Backup
<1>2. /\ \A r \in Syncer \ {s} : sync'[r] = sync[r]
      /\ Spot(s)' = Spot(s)
  BY <1>1 DEF Turns, Goes, SyncTypeOK, Spot
<1> SUFFICES ASSUME NEW pair \in owed, pair \notin shelf'
             PROVE  \E p \in Place : Firm(pair, p)'
  BY DEF OwedInv, Backup
<1>3. PICK q \in Place : Firm(pair, q)
  BY DEF OwedInv, Backup
<1>4. q # Spot(s)
  BY <1>3 DEF Firm, Backup, Saved
<1>5. q \in Trees' /\ pair \in Pairs(place'[q])
  BY <1>3 DEF Firm, Backup, Trees
<1>6. Firm(pair, q)'
  BY <1>2, <1>3, <1>4, <1>5, FirmStays
<1> QED BY <1>6

\* A directory that is being removed holds nothing that is not on the shelf.
LEMMA RemoveKeeps ==
  ASSUME SyncTypeOK, OwedInv, NEW s \in Syncer, RemoveTree(s)
  PROVE  OwedInv'
<1> DEFINE p == Spot(s)
<1>1. Under(s) /\ sync[s].at = "remove"
  BY DEF RemoveTree
<1> SUFFICES ASSUME NEW pair \in owed, pair \notin shelf
             PROVE  \E q \in Place : Firm(pair, q)'
  BY DEF OwedInv, RemoveTree
<1>2. PICK q \in Place : Firm(pair, q)
  BY DEF OwedInv
<1>3. q # p
  BY <1>1, <1>2 DEF Firm
<1>4. place'[q] = place[q]
  BY <1>3 DEF RemoveTree, SyncTypeOK
<1>5. q \in Trees' /\ pair \in Pairs(place'[q])
  BY <1>2, <1>4 DEF Firm, Trees
<1>6. CASE UNCHANGED <<sync, alone>>
  <2>1. Under(s)' => Spot(s)' = p
    BY <1>6 DEF Spot
  <2> QED BY <1>2, <1>3, <1>5, <1>6, <2>1, FirmStays
<1>7. CASE Turns(s, "make", {}) \/ Leaves(s)
  <2>1. sync'[s].at \in {"make", "away"} /\ \A r \in Syncer \ {s} : sync'[r] = sync[r]
    BY <1>7, TurnsAfter, LeavesAfter
  <2> QED BY <1>2, <1>5, <2>1, FirmStays
<1> QED BY <1>6, <1>7 DEF RemoveTree

\* A run copies into a directory that was missing.
LEMMA MakeKeeps ==
  ASSUME SyncTypeOK, OwedInv, NEW s \in Syncer, MakeTree(s)
  PROVE  OwedInv'
<1> DEFINE p == Spot(s)
<1> SUFFICES ASSUME NEW pair \in owed, pair \notin shelf
             PROVE  \E q \in Place : Firm(pair, q)'
  BY DEF OwedInv, MakeTree
<1>1. PICK q \in Place : Firm(pair, q)
  BY DEF OwedInv
<1>2. CASE Leaves(s) /\ UNCHANGED place
  <2>1. sync'[s].at = "away" /\ \A r \in Syncer \ {s} : sync'[r] = sync[r]
    BY <1>2, LeavesAfter
  <2>2. q \in Trees' /\ pair \in Pairs(place'[q])
    BY <1>1, <1>2 DEF Firm, Trees
  <2> QED BY <1>1, <2>1, <2>2, FirmStays
<1>3. CASE place[p] = Missing
  <2>1. q # p
    BY <1>1, <1>3 DEF Firm, Trees
  <2>2. place'[q] = place[q]
    BY <2>1 DEF MakeTree, SyncTypeOK
  <2>3. q \in Trees' /\ pair \in Pairs(place'[q])
    BY <1>1, <2>2 DEF Firm, Trees
  <2>4. CASE Onto(s, "link", "commit")
    <3>1. sync'[s].at \in {"link", "commit"} /\ \A r \in Syncer \ {s} : sync'[r] = sync[r]
      BY <2>4, OntoAfter
    <3> QED BY <1>1, <2>3, <3>1, FirmStays
  <2>5. CASE Turns(s, "copy", {f \in Asset : canon[f] # NoFile})
    <3>1. (\A r \in Syncer \ {s} : sync'[r] = sync[r]) /\ Spot(s)' = p
      BY <2>5 DEF Turns, Goes, SyncTypeOK, Spot
    <3> QED BY <1>1, <2>1, <2>3, <3>1, FirmStays
  <2> QED BY <1>3, <2>4, <2>5 DEF MakeTree
<1> QED BY <1>2, <1>3 DEF MakeTree

\* A run that copies disturbs none but the files it has left to copy.
LEMMA CopyKeeps ==
  ASSUME SyncTypeOK, OwedInv, NEW s \in Syncer, CopyFile(s)
  PROVE  OwedInv'
<1> DEFINE p == Spot(s)
<1>1. Under(s) /\ sync[s].at = "copy" /\ sync[s] \in Errand
  BY Underway DEF CopyFile
<1>2. CASE (Onto(s, "link", "commit") \/ Leaves(s)) /\ UNCHANGED place
  <2>1. sync'[s].at \notin {"remove", "copy"} /\ \A r \in Syncer \ {s} : sync'[r] = sync[r]
    BY <1>2, OntoAfter, LeavesAfter
  <2> QED BY <1>2, <2>1, HarmlessStep DEF CopyFile, Trees
<1>3. CASE /\ p \in Trees
           /\ \E f \in sync[s].left : /\ place' = [place EXCEPT ![p][f] = canon[f]]
                                      /\ Turns(s, "copy", sync[s].left \ {f})
  <2>1. PICK f \in sync[s].left : /\ place' = [place EXCEPT ![p][f] = canon[f]]
                                  /\ Turns(s, "copy", sync[s].left \ {f})
    BY <1>3
  <2>2. f \in Asset /\ canon[f] \in Content
    BY <1>1, <2>1 DEF Errand, SyncTypeOK, Tree
  <2>3. Trees' = Trees
    BY <1>3, <2>1, <2>2, PlaceTyped
  <2>4. /\ \A r \in Syncer \ {s} : sync'[r] = sync[r]
        /\ sync'[s].left = sync[s].left \ {f} /\ Spot(s)' = p
    BY <2>1 DEF Turns, Goes, SyncTypeOK, Spot
  <2> SUFFICES ASSUME NEW pair \in owed, pair \notin shelf
               PROVE  \E q \in Place : Firm(pair, q)'
    BY DEF OwedInv, CopyFile
  <2>5. PICK q \in Place : Firm(pair, q)
    BY DEF OwedInv
  <2>6. q = p => pair[1] \notin sync[s].left
    BY <1>1, <2>5 DEF Firm
  <2>7. pair \in Pairs(place'[q])
    BY <2>1, <2>5, <2>6, OtherFile
  <2>8. Firm(pair, q)'
    <3>1. q \in Trees'
      BY <2>3, <2>5 DEF Firm
    <3>2. (Under(s) /\ Spot(s) = q)' =>
            sync'[s].at # "remove" /\ (sync'[s].at = "copy" => pair[1] \notin sync'[s].left)
      BY <2>1, <2>4, <2>6, TurnsAfter
    <3> QED BY <2>4, <2>5, <2>7, <3>1, <3>2, FirmStays
  <2> QED BY <2>8
<1> QED BY <1>2, <1>3 DEF CopyFile

\* A step of CommitAll keeps OwedInv.
LEMMA CommitKeeps ==
  ASSUME SyncTypeOK, OwedInv, NEW s \in Syncer, CommitAll(s)
  PROVE  OwedInv'
<1>1. sync'[s].at = "away" /\ \A r \in Syncer \ {s} : sync'[r] = sync[r]
  BY LeavesAfter DEF CommitAll
<1> QED BY <1>1, HarmlessStep DEF CommitAll, Trees

\* Nor does one that is cut short.
LEMMA StopKeeps ==
  ASSUME SyncTypeOK, OwedInv, NEW s \in Syncer, StopRun(s)
  PROVE  OwedInv'
<1> DEFINE p == Spot(s)
<1>1. sync'[s].at = "away" /\ \A r \in Syncer \ {s} : sync'[r] = sync[r]
  BY LeavesAfter DEF StopRun
<1>2. CASE UNCHANGED place
  BY <1>1, <1>2, HarmlessStep DEF StopRun, Trees
<1>3. CASE /\ sync[s].at = "copy" /\ p \in Trees
           /\ \E f \in sync[s].left : place' = [place EXCEPT ![p][f] = Partial]
           /\ UNCHANGED canon
  <2>1. PICK f \in sync[s].left : place' = [place EXCEPT ![p][f] = Partial]
    BY <1>3
  <2>2. f \in Asset /\ Partial \in Content
    BY <2>1, Underway DEF StopRun, Errand, Content
  <2>3. Trees' = Trees
    BY <1>3, <2>1, <2>2, PlaceTyped
  <2> SUFFICES ASSUME NEW pair \in owed, pair \notin shelf
               PROVE  \E q \in Place : Firm(pair, q)'
    BY DEF OwedInv, StopRun
  <2>4. PICK q \in Place : Firm(pair, q)
    BY DEF OwedInv
  <2>5. q = p => pair[1] \notin sync[s].left
    BY <1>3, <2>4 DEF Firm, StopRun
  <2>6. pair \in Pairs(place'[q]) /\ q \in Trees'
    BY <2>1, <2>3, <2>4, <2>5, OtherFile DEF Firm
  <2>7. Firm(pair, q)'
    BY <1>1, <2>4, <2>6, FirmStays
  <2> QED BY <2>7
<1> QED BY <1>2, <1>3 DEF StopRun

\* An edit overwrites what is owed of its own file alone; what it writes while
\* no run is under way is safe.
LEMMA EditPlaceKeeps ==
  ASSUME SyncTypeOK, OwedInv, EditPlace
  PROVE  OwedInv'
<1>1. PICK p \in Trees, f \in Asset : \E v \in Edited \ {place[p][f]} :
        /\ place' = [place EXCEPT ![p][f] = v]
        /\ owed' = (owed \ {<<f, place[p][f]>>}) \cup (IF Rest /\ v # NoFile THEN {<<f, v>>} ELSE {})
  BY DEF EditPlace
<1>2. PICK v \in Edited \ {place[p][f]} :
        /\ place' = [place EXCEPT ![p][f] = v]
        /\ owed' = (owed \ {<<f, place[p][f]>>}) \cup (IF Rest /\ v # NoFile THEN {<<f, v>>} ELSE {})
  BY <1>1
<1>3. v \in Content /\ p \in Place
  BY EditedTyped DEF Trees
<1>4. Trees' = Trees
  BY <1>2, <1>3, PlaceTyped
<1>5. UNCHANGED <<sync, shelf>>
  BY DEF EditPlace, Touch
<1> SUFFICES ASSUME NEW pair \in owed', pair \notin shelf
             PROVE  \E q \in Place : Firm(pair, q)'
  BY <1>5 DEF OwedInv
<1>6. CASE pair \in owed /\ pair # <<f, place[p][f]>>
  <2>1. PICK q \in Place : Firm(pair, q)
    BY <1>6 DEF OwedInv
  <2>2. q = p => pair[1] # f
    BY <1>6, <2>1 DEF Firm, Pairs
  <2>3. pair \in Pairs(place'[q])
    BY <1>2, <2>1, <2>2, OtherFile
  <2>4. Firm(pair, q)'
    BY <1>4, <1>5, <2>1, <2>3 DEF Firm, Under, Spot
  <2> QED BY <2>4
<1>7. CASE Rest /\ v # NoFile /\ pair = <<f, v>>
  <2>1. place'[p][f] = v
    BY <1>2, <1>3 DEF SyncTypeOK, Trees, Tree
  <2>2. pair \in Pairs(place'[p])
    BY <1>7, <2>1 DEF Pairs
  <2>3. Firm(pair, p)'
    BY <1>3, <1>4, <1>5, <1>7, <2>2 DEF Firm, Rest, Under
  <2> QED BY <1>3, <2>3
<1> QED BY <1>2, <1>6, <1>7

\* A step of EditCanon keeps OwedInv.
LEMMA EditCanonKeeps ==
  ASSUME SyncTypeOK, OwedInv, EditCanon
  PROVE  OwedInv'
<1>1. UNCHANGED <<sync, shelf, place>> /\ owed' \subseteq owed
  BY DEF EditCanon, Touch
<1> QED BY <1>1 DEF OwedInv, Firm, Trees, Under, Spot

\* Every tool-sync step keeps OwedInv.
LEMMA StepKeeps ==
  ASSUME SyncTypeOK, OwedInv, [SyncNext]_syncVars
  PROVE  OwedInv'
<1>1. ASSUME NEW s \in Syncer,
             \/ StartRun(s)
             \/ ListPlace(s) \/ ImportFile(s)
             \/ LookAt(s) \/ Backup(s) \/ RemoveTree(s) \/ MakeTree(s) \/ CopyFile(s)
             \/ CommitAll(s)
             \/ StopRun(s)
      PROVE  OwedInv'
  BY <1>1, StartKeeps, ListKeeps, ImportKeeps, LookKeeps, BackupKeeps, RemoveKeeps, MakeKeeps,
     CopyKeeps, CommitKeeps, StopKeeps
<1>2. CASE UNCHANGED syncVars
  BY <1>2 DEF OwedInv, Firm, Trees, Under, Spot, syncVars
<1> QED BY <1>1, <1>2, EditPlaceKeeps, EditCanonKeeps DEF SyncNext

\* However many runs follow an edit of a tool's directory, in either mode,
\* overlapping or cut short, and whatever else is edited: what was written is
\* in the directory of a tool or in a backup, until the operator takes it back.
THEOREM EditsStay == SyncSpec => []EditsAreKept
<1>1. SyncInit => OwedInv
  BY DEF SyncInit, OwedInv
<1>2. SyncTypeOK /\ OwedInv /\ [SyncNext]_syncVars => OwedInv'
  BY StepKeeps
<1>3. OwedInv => EditsAreKept
  BY DEF OwedInv, Firm, EditsAreKept
<1> QED BY <1>1, <1>2, <1>3, SyncTypes, PTL DEF SyncSpec
-----------------------------------------------------------------------------
(* The directories of the tools: the installation                          *)

\* A directory is as a run in this mode leaves it.
Fine(dirs, repo, p, mode) ==
  \/ dirs[p] = Foreign
  \/ mode = "link" /\ dirs[p] = Link
  \/ mode = "copy" /\ dirs[p] = repo

\* The directories that a run is past are fine; of the one it copies to, the
\* files it has left behind.
Ordered(job, dirs, repo) ==
  /\ job.at \in {"link", "backup", "remove", "make", "copy"} =>
       \A n \in DOMAIN Tool : n < job.nth => Fine(dirs, repo, Tool[n], job.mode)
  /\ job.at = "commit" => \A p \in Place : Fine(dirs, repo, p, job.mode)
  /\ job.at = "copy" => /\ job.mode = "copy" /\ dirs[Tool[job.nth]] \in Tree
                        /\ \A f \in Asset \ job.left : dirs[Tool[job.nth]][f] = repo[f]

\* The phases of a run that finds everything in place.
Calm == {"list", "import", "link", "commit"}

\* RunsSettle is not inductive: what a run does next depends on its mode and on
\* where it is; and a run that has the files for itself settles them bit by bit.
SettleInv ==
  /\ settled # "no" =>
       /\ \A p \in Place : Fine(place, canon, p, settled)
       /\ head = canon
       /\ \A s \in Syncer : Under(s) => sync[s].mode = settled /\ sync[s].at \in Calm
  /\ \A s \in alone :
       /\ Under(s) /\ \A r \in Syncer \ {s} : ~Under(r)
       /\ Ordered(sync[s], place, canon)

\* A run goes on: if it is alone, in order; if all is settled, and stays so.
LEMMA RunGoesOn ==
  ASSUME SyncTypeOK, SettleInv, NEW s \in Syncer, Under(s), NEW job, sync' = [sync EXCEPT ![s] = job],
         job.mode = sync[s].mode, UNCHANGED <<alone, head, settled>>,
         job.at # "away", s \in alone => Ordered(job, place', canon'),
         settled # "no" => UNCHANGED <<place, canon>> /\ job.at \in Calm
  PROVE  SettleInv'
<1>1. sync'[s] = job /\ \A r \in Syncer \ {s} : sync'[r] = sync[r]
  BY DEF SyncTypeOK
<1>2. \A r \in alone : r = s /\ \A q \in Syncer \ {s} : ~Under(q)
  BY DEF SettleInv, SyncTypeOK
<1>3. ASSUME settled # "no"
      PROVE  /\ \A p \in Place : Fine(place', canon', p, settled)
             /\ head' = canon'
             /\ \A r \in Syncer : sync'[r].at # "away" => sync'[r].mode = settled /\ sync'[r].at \in Calm
  BY <1>1, <1>3 DEF SettleInv, Under
<1>4. ASSUME NEW r \in alone
      PROVE  /\ sync'[r].at # "away" /\ \A q \in Syncer \ {r} : sync'[q].at = "away"
             /\ Ordered(sync'[r], place', canon')
  BY <1>1, <1>2 DEF Under
<1> QED BY <1>3, <1>4 DEF SettleInv, Under

\* A run ends.
LEMMA GoesAway ==
  ASSUME SyncTypeOK, SettleInv, NEW s \in Syncer, Under(s), Leaves(s), UNCHANGED <<head, settled>>,
         settled # "no" => UNCHANGED <<place, canon>>
  PROVE  SettleInv'
<1>1. sync'[s].at = "away" /\ \A r \in Syncer \ {s} : sync'[r] = sync[r]
  BY LeavesAfter
<1>2. alone' = {}
  BY DEF Leaves, SettleInv, SyncTypeOK
<1>3. ASSUME settled # "no"
      PROVE  /\ \A p \in Place : Fine(place', canon', p, settled)
             /\ head' = canon'
             /\ \A r \in Syncer : sync'[r].at # "away" => sync'[r].mode = settled /\ sync'[r].at \in Calm
  BY <1>1, <1>3 DEF SettleInv, Under
<1> QED BY <1>2, <1>3 DEF SettleInv, Under

\* In the same directory, with what there is to know of the next step.
LEMMA TurnsOn ==
  ASSUME SyncTypeOK, SettleInv, NEW s \in Syncer, Under(s), NEW at \in Phase, NEW left, Turns(s, at, left),
         UNCHANGED <<head, settled>>,
         s \in alone => \A job : /\ job.at = at /\ job.mode = sync[s].mode /\ job.nth = sync[s].nth /\ job.left = left
                                 => Ordered(job, place', canon'),
         settled # "no" => UNCHANGED <<place, canon>> /\ at \in Calm
  PROVE  SettleInv'
<1>1. PICK job : job = [at |-> at, mode |-> sync[s].mode, nth |-> sync[s].nth, left |-> left]
  OBVIOUS
<1>2. sync' = [sync EXCEPT ![s] = job] /\ UNCHANGED alone
  BY <1>1 DEF Turns, Goes
<1>3. job.at = at /\ job.mode = sync[s].mode /\ job.nth = sync[s].nth /\ job.left = left /\ at # "away"
  BY <1>1 DEF Phase
<1>4. s \in alone => Ordered(job, place', canon')
  BY <1>3
<1> QED BY <1>2, <1>3, <1>4, RunGoesOn

\* Moving an errand sets its phase, tool and work left and keeps its mode.
LEMMA GoesAfter ==
  ASSUME NEW s \in Syncer, NEW at, NEW nth, NEW left, Goes(s, at, nth, left)
  PROVE  \E job : /\ sync' = [sync EXCEPT ![s] = job]
                  /\ job.at = at /\ job.mode = sync[s].mode /\ job.nth = nth /\ job.left = left
<1>1. PICK job : job = [at |-> at, mode |-> sync[s].mode, nth |-> nth, left |-> left]
  OBVIOUS
<1>2. sync' = [sync EXCEPT ![s] = job]
  BY <1>1 DEF Goes
<1>3. job.at = at /\ job.mode = sync[s].mode /\ job.nth = nth /\ job.left = left
  BY <1>1
<1> QED BY <1>2, <1>3

\* From the listing of the directories to their making.
LEMMA OntoLinking ==
  ASSUME SyncTypeOK, SettleInv, NEW s \in Syncer, Under(s), Onto(s, "list", "link"), UNCHANGED <<place, canon, head, settled>>
  PROVE  SettleInv'
<1>1. PICK job : /\ sync' = [sync EXCEPT ![s] = job] /\ job.mode = sync[s].mode
                 /\ job.at = "list" \/ (job.at = "link" /\ job.nth = 1)
  <2>1. Goes(s, "list", sync[s].nth + 1, {}) \/ Goes(s, "link", 1, {})
    BY DEF Onto
  <2> QED BY <2>1, GoesAfter
<1>2. \A n \in DOMAIN Tool : ~(n < 1)
  BY ToolOrder
<1>3. Ordered(job, place', canon') /\ job.at \in Calm /\ job.at # "away"
  BY <1>1, <1>2 DEF Ordered, Calm
<1>4. UNCHANGED alone
  BY DEF Onto, Goes
<1> QED BY <1>1, <1>3, <1>4, RunGoesOn

\* Past a directory that is fine; past the last, all are.
LEMMA OntoCommit ==
  ASSUME SyncTypeOK, SettleInv, NEW s \in Syncer, Under(s), Onto(s, "link", "commit"), UNCHANGED <<head, settled>>,
         s \in alone => \A n \in DOMAIN Tool : n <= sync[s].nth => Fine(place', canon', Tool[n], sync[s].mode),
         settled # "no" => UNCHANGED <<place, canon>>
  PROVE  SettleInv'
<1>1. sync[s].nth \in DOMAIN Tool /\ DOMAIN Tool \subseteq Nat
  BY Underway, ToolOrder DEF Errand
<1>2. UNCHANGED alone
  BY DEF Onto, Goes
<1>3. CASE sync[s].nth < Len(Tool)
  <2>1. PICK job : /\ sync' = [sync EXCEPT ![s] = job] /\ job.mode = sync[s].mode
                   /\ job.at = "link" /\ job.nth = sync[s].nth + 1
    BY <1>3, GoesAfter DEF Onto
  <2>2. \A n \in DOMAIN Tool : n < job.nth => n <= sync[s].nth
    BY <1>1, <2>1
  <2>3. s \in alone => Ordered(job, place', canon')
    BY <2>1, <2>2 DEF Ordered
  <2> QED BY <1>2, <2>1, <2>3, RunGoesOn DEF Calm
<1>4. CASE ~(sync[s].nth < Len(Tool))
  <2>1. PICK job : sync' = [sync EXCEPT ![s] = job] /\ job.mode = sync[s].mode /\ job.at = "commit"
    BY <1>4, GoesAfter DEF Onto
  <2>2. \A p \in Place : \E n \in DOMAIN Tool : p = Tool[n] /\ n <= sync[s].nth
    BY <1>1, <1>4, ToolOrder DEF Place, ToSet
  <2>3. s \in alone => Ordered(job, place', canon')
    BY <2>1, <2>2 DEF Ordered
  <2> QED BY <1>2, <2>1, <2>3, RunGoesOn DEF Calm
<1> QED BY <1>3, <1>4

\* A step of StartRun keeps SettleInv.
LEMMA StartSettles == ASSUME SyncTypeOK, SettleInv, NEW s \in Syncer, StartRun(s) PROVE SettleInv'
<1>1. PICK mode \in Modes :
        /\ sync' = [sync EXCEPT ![s] = [at |-> "list", mode |-> mode, nth |-> 1, left |-> {}]]
        /\ settled' = IF mode = settled THEN settled ELSE "no"
  BY DEF StartRun
<1>2. /\ sync'[s].at = "list" /\ sync'[s].mode = mode /\ \A r \in Syncer \ {s} : sync'[r] = sync[r]
  BY <1>1 DEF SyncTypeOK
<1>3. alone' = (IF Rest THEN {s} ELSE {}) /\ UNCHANGED <<canon, place, head>>
  BY DEF StartRun
<1>4. Ordered(sync'[s], place', canon')
  BY <1>2 DEF Ordered
<1>5. ASSUME NEW r \in alone'
      PROVE  /\ sync'[r].at # "away" /\ \A q \in Syncer \ {r} : sync'[q].at = "away"
             /\ Ordered(sync'[r], place', canon')
  BY <1>2, <1>3, <1>4 DEF Rest, Under
<1>6. ASSUME settled' # "no"
      PROVE  /\ \A p \in Place : Fine(place', canon', p, settled')
             /\ head' = canon'
             /\ \A r \in Syncer : sync'[r].at # "away" => sync'[r].mode = settled' /\ sync'[r].at \in Calm
  <2>1. settled # "no" /\ mode = settled /\ settled' = settled
    BY <1>1, <1>6
  <2> QED BY <1>2, <1>3, <2>1 DEF SettleInv, Under, Calm
<1> QED BY <1>5, <1>6 DEF SettleInv, Under

\* A step of ListPlace keeps SettleInv.
LEMMA ListSettles == ASSUME SyncTypeOK, SettleInv, NEW s \in Syncer, ListPlace(s) PROVE SettleInv'
<1>1. Under(s) /\ UNCHANGED <<place, canon, head, settled>>
  BY DEF ListPlace
<1>2. PICK left : Turns(s, "import", left) \/ Onto(s, "list", "link")
  BY DEF ListPlace
<1>3. CASE Turns(s, "import", left)
  <2>1. \A job : job.at = "import" => Ordered(job, place', canon')
    BY DEF Ordered
  <2>2. "import" \in Phase /\ "import" \in Calm
    BY DEF Phase, Calm
  <2> QED BY <1>1, <1>3, <2>1, <2>2, TurnsOn
<1> QED BY <1>1, <1>2, <1>3, OntoLinking

\* What is taken from a directory that is fine is what the repository holds.
LEMMA TakesNothing ==
  ASSUME SyncTypeOK, SettleInv, settled # "no", NEW p \in Place, p \in Trees \cup {q \in Place : place[q] = Link}
  PROVE  Reached(p) = canon /\ (p \in Trees => place[p] = canon)
<1>1. Fine(place, canon, p, settled)
  BY DEF SettleInv
<1> QED BY <1>1 DEF Fine, Reached, Trees

\* A step of ImportFile keeps SettleInv.
LEMMA ImportSettles == ASSUME SyncTypeOK, SettleInv, NEW s \in Syncer, ImportFile(s) PROVE SettleInv'
<1>1. Under(s) /\ sync[s].at = "import" /\ UNCHANGED <<place, head, settled>> /\ Spot(s) \in Place
  BY Underway DEF ImportFile
<1>2. CASE sync[s].left = {}
  <2>1. Onto(s, "list", "link") /\ UNCHANGED canon
    BY <1>2 DEF ImportFile
  <2> QED BY <1>1, <2>1, OntoLinking
<1>3. CASE sync[s].left # {} /\ Leaves(s) /\ UNCHANGED canon
  BY <1>1, <1>3, GoesAway
<1>4. ASSUME NEW f \in sync[s].left, Spot(s) \in Trees \cup {p \in Place : place[p] = Link},
             canon' = [canon EXCEPT ![f] = Reached(Spot(s))[f]], Turns(s, "import", sync[s].left \ {f})
      PROVE  SettleInv'
  <2>1. settled # "no" => canon' = canon
    BY <1>1, <1>4, TakesNothing DEF SyncTypeOK, Tree
  <2>2. \A job : job.at = "import" => Ordered(job, place', canon')
    BY DEF Ordered
  <2>3. "import" \in Phase /\ "import" \in Calm
    BY DEF Phase, Calm
  <2> QED BY <1>1, <1>4, <2>1, <2>2, <2>3, TurnsOn
<1> QED BY <1>2, <1>3, <1>4 DEF ImportFile

\* A step that changes no directory but the one the run is at leaves those it
\* is past as they were.
LEMMA PastStays ==
  ASSUME SyncTypeOK, SettleInv, NEW s \in alone, sync[s].at \in {"link", "backup", "remove", "make", "copy"},
         UNCHANGED canon, \A q \in Place \ {Spot(s)} : place'[q] = place[q]
  PROVE  \A n \in DOMAIN Tool : n < sync[s].nth => Fine(place', canon', Tool[n], sync[s].mode)
<1>1. s \in Syncer /\ Under(s) /\ Ordered(sync[s], place, canon)
  BY DEF SettleInv, SyncTypeOK
<1>2. sync[s].nth \in DOMAIN Tool
  BY <1>1, Underway DEF Errand
<1> SUFFICES ASSUME NEW n \in DOMAIN Tool, n < sync[s].nth PROVE Fine(place', canon', Tool[n], sync[s].mode)
  OBVIOUS
<1>3. Tool[n] # Spot(s)
  <2>1. n # sync[s].nth
    BY <1>2, ToolOrder
  <2> QED BY <1>2, <2>1, SyncAssumption DEF IsInjective, Spot
<1>4. Tool[n] \in Place /\ place'[Tool[n]] = place[Tool[n]] /\ Fine(place, canon, Tool[n], sync[s].mode)
  BY <1>1, <1>3, ToolOrder DEF Ordered
<1> QED BY <1>4 DEF Fine

\* A run that is not to find everything in place finds nothing settled.
LEMMA NotCalm ==
  ASSUME SettleInv, NEW s \in Syncer, Under(s), sync[s].at \notin Calm
  PROVE  settled = "no"
BY DEF SettleInv

\* A step of LookAt keeps SettleInv.
LEMMA LookSettles == ASSUME SyncTypeOK, SettleInv, NEW s \in Syncer, LookAt(s) PROVE SettleInv'
<1>1. /\ Under(s) /\ sync[s].at = "link" /\ UNCHANGED <<canon, head, settled>>
      /\ Spot(s) \in Place /\ sync[s].nth \in DOMAIN Tool /\ DOMAIN Tool \subseteq Nat
  BY Underway, ToolOrder DEF LookAt, Errand
<1>2. \A q \in Place \ {Spot(s)} : place'[q] = place[q]
  BY DEF LookAt, SyncTypeOK
<1>3. s \in alone => \A n \in DOMAIN Tool : n < sync[s].nth => Fine(place', canon', Tool[n], sync[s].mode)
  BY <1>1, <1>2, PastStays
<1>4. CASE InPlace(Spot(s), sync[s].mode)
  <2>1. Onto(s, "link", "commit") /\ UNCHANGED place
    BY <1>4 DEF LookAt
  <2>2. Fine(place', canon', Tool[sync[s].nth], sync[s].mode)
    BY <1>1, <1>4, <2>1 DEF InPlace, Fine, Same, Spot
  <2>3. \A n \in DOMAIN Tool : n <= sync[s].nth => n < sync[s].nth \/ n = sync[s].nth
    BY <1>1
  <2>4. s \in alone => \A n \in DOMAIN Tool : n <= sync[s].nth => Fine(place', canon', Tool[n], sync[s].mode)
    BY <1>3, <2>2, <2>3
  <2> QED BY <1>1, <2>1, <2>4, OntoCommit
<1>5. CASE ~InPlace(Spot(s), sync[s].mode)
  <2>1. PICK at \in {"backup", "make"} : Turns(s, at, {})
    BY <1>5 DEF LookAt
  <2>2. settled = "no"
    <3>1. canon \notin {Link, Foreign, Missing}
      BY SyncAssumption DEF SyncTypeOK
    <3>2. settled # "no" => Fine(place, canon, Spot(s), sync[s].mode)
      BY <1>1 DEF SettleInv
    <3> QED BY <1>1, <1>5, <3>1, <3>2 DEF Fine, InPlace, Same, Trees
  <2>3. s \in alone => \A job : /\ job.at = at /\ job.mode = sync[s].mode /\ job.nth = sync[s].nth /\ job.left = {}
                                => Ordered(job, place', canon')
    BY <1>3, <2>1 DEF Ordered
  <2> QED BY <1>1, <2>1, <2>2, <2>3, TurnsOn DEF Phase
<1> QED BY <1>4, <1>5

\* A step of Backup keeps SettleInv.
LEMMA BackupSettles == ASSUME SyncTypeOK, SettleInv, NEW s \in Syncer, Backup(s) PROVE SettleInv'
<1>1. Under(s) /\ sync[s].at = "backup" /\ UNCHANGED <<place, canon, head, settled>> /\ Turns(s, "remove", {})
  BY DEF Backup
<1>2. settled = "no"
  BY <1>1, NotCalm DEF Calm
<1>3. s \in alone => \A job : /\ job.at = "remove" /\ job.mode = sync[s].mode /\ job.nth = sync[s].nth /\ job.left = {}
                              => Ordered(job, place', canon')
  BY <1>1, PastStays DEF Ordered
<1> QED BY <1>1, <1>2, <1>3, TurnsOn DEF Phase

\* A step of RemoveTree keeps SettleInv.
LEMMA RemoveSettles == ASSUME SyncTypeOK, SettleInv, NEW s \in Syncer, RemoveTree(s) PROVE SettleInv'
<1>1. Under(s) /\ sync[s].at = "remove" /\ UNCHANGED <<canon, head, settled>>
  BY DEF RemoveTree
<1>2. settled = "no"
  BY <1>1, NotCalm DEF Calm
<1>3. \A q \in Place \ {Spot(s)} : place'[q] = place[q]
  BY DEF RemoveTree, SyncTypeOK
<1>4. s \in alone => \A n \in DOMAIN Tool : n < sync[s].nth => Fine(place', canon', Tool[n], sync[s].mode)
  BY <1>1, <1>3, PastStays
<1>5. CASE Turns(s, "make", {})
  <2>1. s \in alone => \A job : /\ job.at = "make" /\ job.mode = sync[s].mode /\ job.nth = sync[s].nth /\ job.left = {}
                                => Ordered(job, place', canon')
    BY <1>4 DEF Ordered
  <2> QED BY <1>1, <1>2, <1>5, <2>1, TurnsOn DEF Phase
<1>6. CASE UNCHANGED <<sync, alone>>
  <2>1. sync' = [sync EXCEPT ![s] = sync[s]]
    BY <1>6 DEF SyncTypeOK
  <2>2. s \in alone => Ordered(sync[s], place', canon')
    BY <1>1, <1>4 DEF Ordered
  <2> QED BY <1>1, <1>2, <1>6, <2>1, <2>2, RunGoesOn
<1>7. CASE Leaves(s)
  BY <1>1, <1>2, <1>7, GoesAway
<1> QED BY <1>5, <1>6, <1>7 DEF RemoveTree

\* A step of MakeTree keeps SettleInv.
LEMMA MakeSettles == ASSUME SyncTypeOK, SettleInv, NEW s \in Syncer, MakeTree(s) PROVE SettleInv'
<1> DEFINE p == Spot(s)
<1>1. /\ Under(s) /\ sync[s].at = "make" /\ UNCHANGED <<canon, head, settled>>
      /\ p \in Place /\ sync[s].nth \in DOMAIN Tool /\ p = Tool[sync[s].nth] /\ DOMAIN Tool \subseteq Nat
      /\ sync[s].mode \in {"link", "copy"}
  <2>1. Modes \subseteq {"link", "copy"}
    BY SyncAssumption
  <2>2. Under(s) /\ sync[s].at = "make" /\ UNCHANGED <<canon, head, settled>>
    BY DEF MakeTree
  <2>3. sync[s] \in Errand /\ p \in Place
    BY <2>2, Underway
  <2>4. sync[s].mode \in Modes /\ sync[s].nth \in DOMAIN Tool
    BY <2>3 DEF Errand
  <2>5. p = Tool[sync[s].nth] /\ DOMAIN Tool \subseteq Nat
    BY ToolOrder DEF Spot
  <2> HIDE DEF p
  <2> QED BY <2>1, <2>2, <2>3, <2>4, <2>5
<1>2. settled = "no"
  BY <1>1, NotCalm DEF Calm
<1>3. \A q \in Place \ {p} : place'[q] = place[q]
  BY DEF MakeTree, SyncTypeOK
<1>4. s \in alone => \A n \in DOMAIN Tool : n < sync[s].nth => Fine(place', canon', Tool[n], sync[s].mode)
  BY <1>1, <1>3, PastStays
<1>5. CASE Leaves(s)
  BY <1>1, <1>2, <1>5, GoesAway
<1>6. CASE sync[s].mode = "link" /\ place' = [place EXCEPT ![p] = Link] /\ Onto(s, "link", "commit")
  <2>1. place'[p] = Link
    BY <1>1, <1>6 DEF SyncTypeOK
  <2>2. Fine(place', canon', Tool[sync[s].nth], sync[s].mode)
    BY <1>1, <1>6, <2>1 DEF Fine
  <2>3. \A n \in DOMAIN Tool : n <= sync[s].nth => n < sync[s].nth \/ n = sync[s].nth
    BY <1>1
  <2>4. s \in alone => \A n \in DOMAIN Tool : n <= sync[s].nth => Fine(place', canon', Tool[n], sync[s].mode)
    BY <1>4, <2>2, <2>3
  <2> QED BY <1>1, <1>2, <1>6, <2>4, OntoCommit
<1>7. CASE /\ sync[s].mode # "link" /\ place' = [place EXCEPT ![p] = [f \in Asset |-> NoFile]]
           /\ Turns(s, "copy", {f \in Asset : canon[f] # NoFile})
  <2>1. PICK left : left = {f \in Asset : canon[f] # NoFile}
    OBVIOUS
  <2>2. place'[p] = [f \in Asset |-> NoFile]
    BY <1>1, <1>7 DEF SyncTypeOK
  <2>3. place'[p] \in Tree /\ \A f \in Asset \ left : place'[p][f] = canon'[f]
    BY <1>1, <2>1, <2>2 DEF Tree, Content
  <2>4. s \in alone => \A job : /\ job.at = "copy" /\ job.mode = sync[s].mode /\ job.nth = sync[s].nth /\ job.left = left
                                => Ordered(job, place', canon')
    BY <1>1, <1>4, <1>7, <2>3 DEF Ordered
  <2> QED BY <1>1, <1>2, <1>7, <2>1, <2>4, TurnsOn DEF Phase
<1> QED BY <1>5, <1>6, <1>7 DEF MakeTree

\* A step of CopyFile keeps SettleInv.
LEMMA CopySettles == ASSUME SyncTypeOK, SettleInv, NEW s \in Syncer, CopyFile(s) PROVE SettleInv'
<1> DEFINE p == Spot(s)
<1>1. /\ Under(s) /\ sync[s].at = "copy" /\ UNCHANGED <<canon, head, settled>>
      /\ p \in Place /\ sync[s].nth \in DOMAIN Tool /\ p = Tool[sync[s].nth] /\ DOMAIN Tool \subseteq Nat
      /\ sync[s].left \subseteq Asset
  BY Underway, ToolOrder DEF CopyFile, Errand, Spot
<1>2. settled = "no"
  BY <1>1, NotCalm DEF Calm
<1>3. \A q \in Place \ {p} : place'[q] = place[q]
  BY DEF CopyFile, SyncTypeOK
<1>4. s \in alone => \A n \in DOMAIN Tool : n < sync[s].nth => Fine(place', canon', Tool[n], sync[s].mode)
  BY <1>1, <1>3, PastStays
<1>5. s \in alone => sync[s].mode = "copy" /\ place[p] \in Tree /\ \A f \in Asset \ sync[s].left : place[p][f] = canon[f]
  BY <1>1 DEF SettleInv, Ordered
<1>6. CASE sync[s].left = {}
  <2>1. Onto(s, "link", "commit") /\ UNCHANGED place
    BY <1>6 DEF CopyFile
  <2>2. s \in alone => Fine(place', canon', Tool[sync[s].nth], sync[s].mode)
    <3>1. ASSUME s \in alone PROVE place[p] = canon
      BY <1>5, <1>6, <3>1 DEF SyncTypeOK, Tree
    <3> QED BY <1>1, <1>5, <2>1, <3>1 DEF Fine
  <2>3. \A n \in DOMAIN Tool : n <= sync[s].nth => n < sync[s].nth \/ n = sync[s].nth
    BY <1>1
  <2>4. s \in alone => \A n \in DOMAIN Tool : n <= sync[s].nth => Fine(place', canon', Tool[n], sync[s].mode)
    BY <1>4, <2>2, <2>3
  <2> QED BY <1>1, <1>2, <2>1, <2>4, OntoCommit
<1>7. CASE sync[s].left # {} /\ Leaves(s)
  BY <1>1, <1>2, <1>7, GoesAway
<1>8. ASSUME p \in Trees, NEW f \in sync[s].left, place' = [place EXCEPT ![p][f] = canon[f]],
             Turns(s, "copy", sync[s].left \ {f})
      PROVE  SettleInv'
  <2>1. PICK left : left = sync[s].left \ {f}
    OBVIOUS
  <2>2. f \in Asset /\ canon[f] \in Content /\ place[p] \in Tree
    BY <1>1, <1>8 DEF SyncTypeOK, Tree, Trees
  <2>3. place'[p] \in Tree
    BY <1>8, <2>2, PlaceTyped
  <2>4. place'[p] = [place[p] EXCEPT ![f] = canon[f]]
    BY <1>1, <1>8, <2>2 DEF SyncTypeOK, Tree
  <2>5. s \in alone => \A g \in Asset \ left : place'[p][g] = canon'[g]
    BY <1>1, <1>5, <2>1, <2>2, <2>4 DEF Tree
  <2>6. s \in alone => \A job : /\ job.at = "copy" /\ job.mode = sync[s].mode /\ job.nth = sync[s].nth /\ job.left = left
                                => Ordered(job, place', canon')
    BY <1>1, <1>4, <1>5, <2>3, <2>5 DEF Ordered
  <2> QED BY <1>1, <1>2, <1>8, <2>1, <2>6, TurnsOn DEF Phase
<1> QED BY <1>6, <1>7, <1>8 DEF CopyFile

\* A run that was alone has settled everything when it commits.
LEMMA CommitSettles == ASSUME SyncTypeOK, SettleInv, NEW s \in Syncer, CommitAll(s) PROVE SettleInv'
<1>1. Under(s) /\ sync[s].at = "commit" /\ UNCHANGED <<canon, place>> /\ head' = canon /\ Leaves(s)
  BY DEF CommitAll
<1>2. sync'[s].at = "away" /\ \A r \in Syncer \ {s} : sync'[r] = sync[r]
  BY <1>1, LeavesAfter
<1>3. alone' = {}
  BY <1>1 DEF Leaves, SettleInv, SyncTypeOK
<1>4. CASE s \in alone
  <2>1. settled' = sync[s].mode
    BY <1>4 DEF CommitAll
  <2>2. \A r \in Syncer : sync'[r].at = "away"
    BY <1>2, <1>4 DEF SettleInv, Under
  <2>3. \A p \in Place : Fine(place', canon', p, settled')
    BY <1>1, <1>4, <2>1 DEF SettleInv, Ordered
  <2> QED BY <1>1, <1>3, <2>2, <2>3 DEF SettleInv, Under
<1>5. CASE s \notin alone
  <2>1. settled' = settled
    BY <1>5 DEF CommitAll
  <2>2. ASSUME settled # "no"
        PROVE  /\ \A p \in Place : Fine(place', canon', p, settled)
               /\ \A r \in Syncer : sync'[r].at # "away" => sync'[r].mode = settled /\ sync'[r].at \in Calm
    BY <1>1, <1>2, <2>2 DEF SettleInv, Under
  <2> QED BY <1>1, <1>3, <2>1, <2>2 DEF SettleInv, Under
<1> QED BY <1>4, <1>5

\* A step of StopRun keeps SettleInv.
LEMMA StopSettles == ASSUME SyncTypeOK, SettleInv, NEW s \in Syncer, StopRun(s) PROVE SettleInv'
<1>1. Under(s) /\ Leaves(s) /\ UNCHANGED <<head, settled>> /\ Spot(s) \in Place
  BY Underway DEF StopRun
<1>2. CASE UNCHANGED <<canon, place>>
  BY <1>1, <1>2, GoesAway
<1>3. CASE sync[s].at = "copy"
  <2>1. settled = "no"
    BY <1>1, <1>3, NotCalm DEF Calm
  <2> QED BY <1>1, <2>1, GoesAway
<1>4. ASSUME Spot(s) \in Trees, NEW f \in sync[s].left, place[Spot(s)][f] \notin {NoFile, canon[f]} PROVE SettleInv'
  <2>1. settled = "no"
    BY <1>1, <1>4, TakesNothing
  <2> QED BY <1>1, <2>1, GoesAway
<1> QED BY <1>2, <1>3, <1>4 DEF StopRun

\* Every tool-sync step keeps SettleInv.
LEMMA StepSettles == ASSUME SyncTypeOK, SettleInv, [SyncNext]_syncVars PROVE SettleInv'
<1>1. ASSUME NEW s \in Syncer,
             \/ StartRun(s)
             \/ ListPlace(s) \/ ImportFile(s)
             \/ LookAt(s) \/ Backup(s) \/ RemoveTree(s) \/ MakeTree(s) \/ CopyFile(s)
             \/ CommitAll(s)
             \/ StopRun(s)
      PROVE  SettleInv'
  BY <1>1, StartSettles, ListSettles, ImportSettles, LookSettles, BackupSettles, RemoveSettles, MakeSettles,
     CopySettles, CommitSettles, StopSettles
<1>2. CASE EditPlace \/ EditCanon
  BY <1>2 DEF EditPlace, EditCanon, Touch, SettleInv
<1>3. CASE UNCHANGED syncVars
  BY <1>3 DEF syncVars, SettleInv, Under
<1> QED BY <1>1, <1>2, <1>3 DEF SyncNext

\* A run of ai-sync that has the files for itself puts everything right, whatever
\* runs that were cut short have left, and runs in the same mode, overlapping or
\* cut short, leave it so: for any number of tools, files and runs.
THEOREM RunsStaySettled == SyncSpec => []RunsSettle
<1>1. SyncInit => SettleInv
  BY DEF SyncInit, SettleInv
<1>2. SyncTypeOK /\ SettleInv /\ [SyncNext]_syncVars => SettleInv'
  BY StepSettles
<1>3. SettleInv => RunsSettle
  BY DEF SettleInv, RunsSettle, Fine
<1> QED BY <1>1, <1>2, <1>3, SyncTypes, PTL DEF SyncSpec

-----------------------------------------------------------------------------
(* The scenes                                                              *)

\* No desk is about to write `shipped`.
NoneShips ==
  /\ desk = [d \in Desk |-> desk[d]]
  /\ \A d \in Desk : desk[d].at \in {"rows", "flip"} => desk[d].status # "shipped"

\* A desk sent anywhere but to ship a row leaves nobody shipping.
LEMMA NoneShipsGoes ==
  ASSUME NoneShips, NEW d \in Desk, NEW job, Go(d, job), job.at \in {"rows", "flip"} => job.status # "shipped"
  PROVE  NoneShips'
<1>1. desk' = [desk EXCEPT ![d] = job]
  BY DEF Go
<1> QED BY <1>1 DEF NoneShips

\* The gate before the lanes writes no row.
LEMMA PreflightGoes ==
  ASSUME NEW d \in Desk, Preflight(d)
  PROVE  \E job : Go(d, job) /\ job.at \in {"idle"} \cup Checking
<1>1. (\E s \in Stem : Start(d, s)) => \E job : Go(d, job) /\ job.at \in {"idle"} \cup Checking
  BY DEF Start, Checking, Idle
<1>2. ReadOwnRow(d) => \E job : Go(d, job) /\ job.at \in {"idle"} \cup Checking
  <2> SUFFICES ASSUME ReadOwnRow(d) PROVE \E job : Go(d, job) /\ job.at \in {"idle"} \cup Checking
    OBVIOUS
  <2>1. PICK seen \in RowsRead(d) :
          Onward(d, IF seen[desk[d].stem] = "shipped" THEN "hydrate" ELSE "grill", TRUE)
    BY DEF ReadOwnRow
  <2> QED BY <2>1 DEF Onward, Checking
<1>7. CheckGrill(d) => \E job : Go(d, job) /\ job.at \in {"idle"} \cup Checking
  BY DEF CheckGrill, Onward, Checking
<1>3. Hydrate(d) => \E job : Go(d, job) /\ job.at \in {"idle"} \cup Checking
  BY DEF Hydrate, Onward, Checking
<1>4. CheckBriefs(d) => \E job : Go(d, job) /\ job.at \in {"idle"} \cup Checking
  BY DEF CheckBriefs, Checking
<1>5. ReadPlans(d) => \E job : Go(d, job) /\ job.at \in {"idle"} \cup Checking
  BY DEF ReadPlans, Abroad, Checking
<1>8. ReadOther(d) => \E job : Go(d, job) /\ job.at \in {"idle"} \cup Checking
  BY DEF ReadOther, Abroad, Checking
<1>6. CheckDecisions(d) => \E job : Go(d, job) /\ job.at \in {"idle"} \cup Checking
  BY DEF CheckDecisions, Idle
<1> QED BY <1>1, <1>2, <1>3, <1>4, <1>5, <1>6, <1>7, <1>8 DEF Preflight

\* A preflight that flips its row never ships it.
LEMMA FlipGoes ==
  ASSUME NoneShips, NEW d \in Desk, FlipRow(d)
  PROVE  \E job : Go(d, job) /\ (job.at \in {"rows", "flip"} => job.status # "shipped")
<1>1. CASE \E s \in Stem, status \in Status : Flip(d, s, status)
  <2>1. PICK s \in Stem, status \in Status : Flip(d, s, status)
    BY <1>1
  <2>2. PICK job : job = [at |-> "rows", stem |-> s, status |-> status]
    OBVIOUS
  <2> QED BY <2>1, <2>2 DEF Flip
<1>2. CASE ReadRows(d)
  <2>1. PICK seen \in RowsRead(d) :
          Go(d, IF seen[desk[d].stem] = None THEN Idle
                ELSE [at |-> "flip", stem |-> desk[d].stem, status |-> desk[d].status, rows |-> seen])
    BY <1>2 DEF ReadRows
  <2>2. PICK job : job = IF seen[desk[d].stem] = None THEN Idle
                ELSE [at |-> "flip", stem |-> desk[d].stem, status |-> desk[d].status, rows |-> seen]
    OBVIOUS
  <2>3. Go(d, job) /\ desk[d].status # "shipped"
    BY <1>2, <2>1, <2>2 DEF ReadRows, At, NoneShips
  <2> QED BY <2>2, <2>3 DEF Idle
<1>3. CASE WriteRow(d)
  BY <1>3 DEF WriteRow, Idle
<1> QED BY <1>1, <1>2, <1>3 DEF FlipRow

\* No preflight step ships a plan.
LEMMA NoneShipsStep == NoneShips /\ [PreflightNext]_preflightVars => NoneShips'
<1> SUFFICES ASSUME NoneShips, [PreflightNext]_preflightVars PROVE NoneShips'
  OBVIOUS
<1>1. ASSUME NEW d \in Desk, Preflight(d) PROVE NoneShips'
  <2>1. PICK job : Go(d, job) /\ job.at \in {"idle"} \cup Checking
    BY <1>1, PreflightGoes
  <2>2. job.at \notin {"rows", "flip"}
    BY <2>1 DEF Checking
  <2> QED BY <2>1, <2>2, NoneShipsGoes
<1>2. ASSUME NEW d \in Desk, FlipRow(d) PROVE NoneShips'
  BY <1>2, FlipGoes, NoneShipsGoes
<1>3. CASE UNCHANGED desk
  BY <1>3 DEF NoneShips
<1>4. /\ \A s \in Stem : (\E f \in Redrafts : Redraft(s, f)) \/ Register(s) => UNCHANGED desk
      /\ \A p \in Pointer : Decide(p) => UNCHANGED desk
      /\ UNCHANGED preflightVars => UNCHANGED desk
  BY DEF Redraft, Register, Decide, preflightVars, registryVars
<1> QED BY <1>1, <1>2, <1>3, <1>4 DEF PreflightNext

\* Where a component acts its own invariant holds; the trackers, the lessons and
\* the ports keep theirs at rest too, and of what rests nothing is promised.
CheckoutInv ==
  /\ StampsInv /\ LessonsInv /\ PortInv
  /\ IF scene = "closeout" THEN CloseOutTyped /\ CloseOutInv ELSE NoneShips
  /\ IF scene = "preflight" THEN Typed /\ Sides /\ SeenSoFar ELSE passed = {}
  /\ IF scene = "sync" THEN SyncTypeOK /\ OwedInv /\ SettleInv ELSE owed = {} /\ settled = "no"

\* The composed initial state satisfies the composed invariant.
LEMMA CheckoutStart == CheckoutInit => CheckoutInv
<1> SUFFICES ASSUME CheckoutInit PROVE CheckoutInv
  OBVIOUS
<1>1. StampsInit /\ LessonsInit /\ PortInit
  BY DEF CheckoutInit, StampsRest
<1>2. StampsInv /\ LessonsInv /\ PortInv
  BY <1>1, StampsInvInit, LessonsInitOK, PortInitOK
<1>3. IF scene = "closeout" THEN CloseOutTyped /\ CloseOutInv ELSE NoneShips
  <2>1. IF scene = "closeout" THEN CloseOutInit ELSE desk = [d \in Desk |-> Idle]
    BY DEF CheckoutInit, RegistryRest, PreflightInit
  <2>2. desk = [d \in Desk |-> Idle] => NoneShips
    BY DEF NoneShips, Idle
  <2> QED BY <2>1, <2>2, CloseOutInitTyped, CloseOutInitOK
<1>4. IF scene = "preflight" THEN Typed /\ Sides /\ SeenSoFar ELSE passed = {}
  <2>1. IF scene = "preflight" THEN PreflightInit ELSE GateRest
    BY DEF CheckoutInit
  <2> QED BY <2>1, InitTyped, InitSides, InitVerdict DEF GateRest
<1>5. IF scene = "sync" THEN SyncTypeOK /\ OwedInv /\ SettleInv ELSE owed = {} /\ settled = "no"
  <2>1. IF scene = "sync" THEN SyncInit ELSE SyncRest
    BY DEF CheckoutInit
  <2>2. SyncInit => OwedInv /\ SettleInv
    BY DEF SyncInit, OwedInv, SettleInv
  <2> QED BY <2>1, <2>2, SyncInitTyped DEF SyncRest
<1> QED BY <1>2, <1>3, <1>4, <1>5 DEF CheckoutInv

\* The components beside the one that acts rest.
LEMMA EachItsOwn ==
  ASSUME [CheckoutNext]_checkoutVars
  PROVE  /\ scene' = scene
         /\ [StampsNext]_stampsVars /\ [LessonsNext]_lessonsVars /\ [PortNext]_portVars
         /\ scene = "closeout" => [CloseOutNext]_closeOutVars
         /\ scene \notin {"closeout", "preflight"} => desk' = desk
         /\ IF scene = "preflight" THEN [PreflightNext]_preflightVars ELSE passed' = passed
         /\ IF scene = "sync" THEN [SyncNext]_syncVars ELSE owed' = owed /\ settled' = settled
<1>1. scene' = scene
  BY DEF CheckoutNext, checkoutVars
<1>2. [StampsNext]_stampsVars
  BY DEF CheckoutNext, checkoutVars
<1>3. [LessonsNext]_lessonsVars
  BY DEF CheckoutNext, checkoutVars
<1>4. [PortNext]_portVars
  BY DEF CheckoutNext, checkoutVars
<1>5. scene = "closeout" => [CloseOutNext]_closeOutVars
  BY DEF CheckoutNext, checkoutVars, closeOutVars, filesVars
<1>6. scene = "preflight" => [PreflightNext]_preflightVars
  BY DEF CheckoutNext, checkoutVars, preflightVars, gateVars
<1>7. scene # "preflight" => passed' = passed
  BY DEF CheckoutNext, checkoutVars, gateVars
<1>8. scene = "sync" => [SyncNext]_syncVars
  BY DEF CheckoutNext, checkoutVars
<1>9. scene # "sync" => owed' = owed /\ settled' = settled
  BY DEF CheckoutNext, checkoutVars, syncVars
<1>10. scene \notin {"closeout", "preflight"} => desk' = desk
  BY DEF CheckoutNext, checkoutVars, registryVars
<1> QED BY <1>1, <1>2, <1>3, <1>4, <1>5, <1>6, <1>7, <1>8, <1>9, <1>10

\* Every step of a checkout keeps the composed invariant.
LEMMA CheckoutStep == CheckoutInv /\ [CheckoutNext]_checkoutVars => CheckoutInv'
<1> SUFFICES ASSUME CheckoutInv, [CheckoutNext]_checkoutVars PROVE CheckoutInv'
  OBVIOUS
<1>1. StampsInv' /\ LessonsInv' /\ PortInv'
  BY EachItsOwn, StampsInvStep, LessonsStep, PortStep DEF CheckoutInv
<1>2. IF scene = "closeout" THEN CloseOutTyped' /\ CloseOutInv' ELSE NoneShips'
  <2>1. CASE scene = "closeout"
    BY <2>1, EachItsOwn, CloseOutStepTyped, CloseOutStep DEF CheckoutInv
  <2>2. CASE scene = "preflight"
    BY <2>2, EachItsOwn, NoneShipsStep DEF CheckoutInv
  <2>3. CASE scene \notin {"closeout", "preflight"}
    BY <2>3, EachItsOwn DEF CheckoutInv, NoneShips
  <2> QED BY <2>1, <2>2, <2>3
<1>3. IF scene = "preflight" THEN Typed' /\ Sides' /\ SeenSoFar' ELSE passed' = {}
  BY EachItsOwn, StepTyped, StepSides, StepVerdict DEF CheckoutInv
<1>4. IF scene = "sync" THEN SyncTypeOK' /\ OwedInv' /\ SettleInv' ELSE owed' = {} /\ settled' = "no"
  <2>1. SyncTypeOK /\ OwedInv /\ [SyncNext]_syncVars => OwedInv'
    BY StepKeeps
  <2>2. SyncTypeOK /\ SettleInv /\ [SyncNext]_syncVars => SettleInv'
    BY StepSettles
  <2> QED BY <2>1, <2>2, EachItsOwn, SyncStepTyped DEF CheckoutInv
<1>5. scene' = scene
  BY EachItsOwn
<1> QED BY <1>1, <1>2, <1>3, <1>4, <1>5 DEF CheckoutInv

\* The composed invariant holds in every reachable state of the checkout.
LEMMA CheckoutHolds == CheckoutSpec => []CheckoutInv
BY CheckoutStart, CheckoutStep, PTL DEF CheckoutSpec

\* Whoever acts in a checkout, its part of it is well typed.
THEOREM CheckoutTypes == CheckoutSpec => []CheckoutTypeOK
<1>1. LessonsInv => LessonsTypeOK
  BY DEF LessonsInv
<1>2. PortInv => PortTypeOK
  BY DEF PortInv
<1>3. CheckoutInv => CheckoutTypeOK
  BY <1>1, <1>2, StampsInvTypes, CloseOutTypedMeansTypeOK, TypedMeansTypeOK DEF CheckoutInv, CheckoutTypeOK
<1> QED BY <1>3, CheckoutHolds, PTL

\* In a checkout in which any of it goes on, what the components promise holds:
\* of the stamps, the preflights, the lessons, the ports and the tools.
THEOREM CheckoutKeepsAll ==
  CheckoutSpec => [](/\ OneEntryPerCall /\ SpansAreKept /\ HandWins
                     /\ RunsAreDisjoint /\ PassMeansSound
                     /\ LessonsAreKept /\ OneBoardPerRepo
                     /\ EditsAreKept /\ RunsSettle)
<1>1. StampsInv => OneEntryPerCall /\ SpansAreKept /\ HandWins
  <2>1. StampsInv => HandWins
    BY DEF StampsInv, SaidStands
  <2> QED BY <2>1, StampsInvOne, StampsInvKept
<1>2. Typed /\ Sides /\ SeenSoFar => RunsAreDisjoint /\ PassMeansSound
  BY SidesMeanDisjoint, VerdictMeansSound
<1>3. passed = {} => RunsAreDisjoint /\ PassMeansSound
  BY DEF RunsAreDisjoint, PassMeansSound
<1>4. LessonsInv => LessonsAreKept
  BY LessonsMean
<1>5. PortInv => OneBoardPerRepo
  BY PortMeans
<1>6. OwedInv => EditsAreKept
  BY DEF OwedInv, Firm, EditsAreKept
<1>7. SettleInv => RunsSettle
  BY DEF SettleInv, RunsSettle, Fine
<1>8. owed = {} /\ settled = "no" => EditsAreKept /\ RunsSettle
  BY DEF EditsAreKept, RunsSettle
<1>9. CheckoutInv => /\ OneEntryPerCall /\ SpansAreKept /\ HandWins
                     /\ RunsAreDisjoint /\ PassMeansSound
                     /\ LessonsAreKept /\ OneBoardPerRepo
                     /\ EditsAreKept /\ RunsSettle
  BY <1>1, <1>2, <1>3, <1>4, <1>5, <1>6, <1>7, <1>8 DEF CheckoutInv
<1> QED BY <1>9, CheckoutHolds, PTL

\* The flip of the close-out is the only one in a checkout that writes `shipped`,
\* and it writes it of a plan that is finished.
THEOREM CheckoutShipsFit == CheckoutSpec => ShippedMeansFit
<1>1. CheckoutInv => \A d \in Desk : At(d, "flip") /\ desk'[d] = Idle /\ desk[d].status = "shipped" =>
                       \A p \in Promises : p.on \cap touched[d] = {} => Kept(p.name)
  BY FlipFits DEF CheckoutInv, NoneShips, At
<1> QED BY <1>1, CheckoutHolds, PTL DEF ShippedMeansFit
=============================================================================

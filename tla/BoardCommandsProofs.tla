------------------------ MODULE BoardCommandsProofs -------------------------
(***************************************************************************)
(* Proofs about the commands that change the board, for any number of      *)
(* processes, rows and commands cut short.                                 *)
(***************************************************************************)
EXTENDS BoardCommands, FiniteSetTheorems, WellFoundedInduction, TLAPS

\* A nonempty set of numbers holds its own minimum.
LEMMA MinFacts ==
  ASSUME NEW T \in SUBSET Nat, T # {}
  PROVE  Min(T) \in T
<1>1. IsWellFoundedOn(OpToRel(<, Nat), Nat)
  BY NatLessThanWellFounded, Zenon
<1>2. PICK x \in T : \A y \in T : ~ (<<y, x>> \in OpToRel(<, Nat))
  BY <1>1, WFMin, Zenon
<1>3. \A y \in T : ~(y < x)
  BY <1>2, Zenon DEF OpToRel
<1>4. \A y \in T : x =< y
  BY <1>3
<1> QED BY <1>2, <1>4 DEF Min
-----------------------------------------------------------------------------
(* The parts of the invariant.  They are stated for a board and the calls  *)
(* that wait on it, so that a step can be reasoned about as a change of    *)
(* either.                                                                 *)

\* Ids are given out from 1 on and no row goes away.
Dense(b) == \A k \in Kinds : \E n \in Nat : DOMAIN b[k] = 1..n

\* What `of` of a row of kind k may be.
MayName(b, k, n) ==
  /\ k \in {"task", "requirement"} => n \in {0} \cup DOMAIN b["pbi"]
  /\ k \in {"capture", "decision"} => n \in {0} \cup DOMAIN b["task"]

\* Every row of the board names rows of the board.
Sound(b) ==
  /\ \A k \in Kinds : \A i \in DOMAIN b[k] : MayName(b, k, b[k][i].of)
  /\ \A i \in DOMAIN b["task"] : b["task"][i].blocked_by \subseteq DOMAIN b["task"] \ {i}

LiveIn(b) == {n \in DOMAIN b["pbi"] : b["pbi"][n].status = "live"}

\* Row i of kind k is of PBI n.
Holds(b, n, k, i) == k \in {"task", "requirement"} /\ i \in DOMAIN b[k] /\ b[k][i].of = n

\* A removed PBI holds nothing.
Emptied(b) == \A n \in DOMAIN b["pbi"] \ LiveIn(b) : \A k \in Kinds : \A i \in DOMAIN b[k] : ~Holds(b, n, k, i)

\* No two session rows are of one transcript.
Single(b) == \A i, j \in DOMAIN b["session"] : b["session"][i].key = b["session"][j].key => i = j

\* The set that detaches row i of kind k from its PBI.
Detaches(v, k, i) == v.verb = "set" /\ v.kind = k /\ v.id = i /\ v.fields = {"of"} /\ v.row.of = 0

\* Call w, one of the calls ws of command nm: whatever it is given was on the
\* board when the command read it.
CallOK(b, nm, ws, w) ==
  /\ w.verb = "upsert" => w.kind = "session" /\ w.row.blocked_by = {} /\ w.row.status = "live" /\ ws = {w}
  /\ w.verb = "add" =>
       /\ MayName(b, w.kind, w.row.of) /\ w.row.blocked_by = {} /\ w.row.status = "live"
       /\ w.promotes \subseteq DOMAIN b["capture"] /\ (w.promotes # {} => w.kind = "task") /\ ws = {w}
  /\ w.verb = "set" =>
       /\ "of" \in w.fields => MayName(b, w.kind, w.row.of)
       /\ w.kind = "task" => w.fields = {"of"} /\ (w.row.of = 0 => nm = "pbi_remove_force")
       /\ w.kind = "session" => w.fields = {"key"} /\ ws = {w}
       /\ w.kind = "pbi" =>
            /\ w.id \in DOMAIN b["pbi"] /\ w.fields = {"status"} /\ w.row.status = "removed"
            /\ \A v \in ws : v = w \/ \E k \in {"task", "requirement"} : Detaches(v, k, v.id)
       /\ w.kind \in {"requirement", "task", "session", "pbi"}
  /\ w.verb = "link" =>
       /\ w.kind \in {"task", "capture", "decision"}
       /\ w.row.of \in DOMAIN b["task"] /\ (w.kind = "task" => w.row.of # w.id)
  /\ w.verb = "unlink" => w.kind = "capture"

\* What holds of it, too, while no other command has changed the board.
FreshCall(b, ws, w) ==
  /\ w.verb \in {"add", "set"} /\ w.kind \in {"task", "requirement"} /\ (w.verb = "set" => "of" \in w.fields)
     => w.row.of \in {0} \cup LiveIn(b)
  /\ w.verb = "add" /\ w.kind = "session"
     => \A i \in DOMAIN b["session"] : b["session"][i].key # w.row.key
  /\ w.verb = "set" /\ w.kind = "session"
     => w.id \in DOMAIN b["session"] /\ b["session"][w.id].key = w.row.key
  /\ w.verb = "set" /\ w.kind = "pbi"
     => \A k \in Kinds : \A i \in DOMAIN b[k] : Holds(b, w.id, k, i) => \E v \in ws : Detaches(v, k, i)

Calls == \A p \in Procs : \A w \in todo[p] : CallOK(board, command[p], todo[p], w)

\* While no command has begun in another, one process at most has calls to
\* make, and they fit the board.
Undisturbed ==
  alone =>
    /\ \A p, q \in Procs : p = q \/ todo[p] = {} \/ todo[q] = {}
    /\ \A p \in Procs : \A w \in todo[p] : FreshCall(board, todo[p], w)
    /\ Emptied(board)
    /\ Single(board)

IdleIsDone == \A p \in Procs : Idle(p) => todo[p] = {}

Inv == TypeOK /\ Dense(board) /\ Sound(board) /\ Calls /\ Undisturbed /\ IdleIsDone

\* The id a command hands out is unused and keeps a kind's ids dense from 1.
LEMMA FreshFacts ==
  ASSUME Dense(board), NEW k \in Kinds
  PROVE  Fresh(k) \in Ids /\ Fresh(k) \notin Rows(k) /\ Rows(k) \cup {Fresh(k)} = 1..Fresh(k)
<1>1. PICK n \in Nat : Rows(k) = 1..n
  BY DEF Dense, Rows
<1>2. Cardinality(1..n) = n
  BY FS_Interval
<1>3. Fresh(k) = n + 1
  BY <1>1, <1>2 DEF Fresh
<1> QED BY <1>1, <1>3 DEF Ids

\* A row after a call that changes it.
LEMMA ChangedFacts ==
  ASSUME NEW row \in Row, NEW w \in Write, w.verb \in {"set", "link", "unlink"},
         w.verb = "link" => w.row.of \in Ids
  PROVE  /\ Changed(row, w) \in Row
         /\ w.verb = "set" => Changed(row, w) = Overwritten(row, w)
         /\ w.verb = "link" /\ w.kind = "task" =>
              Changed(row, w) = [of |-> row.of, blocked_by |-> row.blocked_by \cup {w.row.of},
                                 status |-> row.status, key |-> row.key]
         /\ w.verb = "link" /\ w.kind # "task" =>
              Changed(row, w) = [of |-> w.row.of, blocked_by |-> row.blocked_by,
                                 status |-> row.status, key |-> row.key]
         /\ w.verb = "unlink" =>
              Changed(row, w) = [of |-> IF row.of = w.row.of THEN 0 ELSE row.of, blocked_by |-> row.blocked_by,
                                 status |-> row.status, key |-> row.key]
<1>1. w.row \in Row /\ w.kind \in Kinds
  BY DEF Write
<1>2. CASE w.verb = "set"
  <2>1. Overwritten(row, w) \in Row
    BY <1>1 DEF Overwritten, Row
  <2> QED BY <1>2, <2>1 DEF Changed
<1>3. CASE w.verb = "link"
  <2>1. Changed(row, w) = Linked(row, w.kind, w.row.of)
    BY <1>3 DEF Changed
  <2> QED BY <1>1, <1>3, <2>1 DEF Linked, Row
<1>4. CASE w.verb = "unlink"
  <2>1. Changed(row, w) = Unlinked(row, w.row.of)
    BY <1>4 DEF Changed
  <2> QED BY <1>1, <1>4, <2>1 DEF Unlinked, Row
<1> QED BY <1>2, <1>3, <1>4

\* The empty board satisfies the invariant.
LEMMA InitInv == Init => Inv
<1> SUFFICES ASSUME Init PROVE Inv
  OBVIOUS
<1>1. TypeOK
  BY DEF Init, TypeOK, Names
<1>2. Dense(board)
  <2>1. \A k \in Kinds : DOMAIN board[k] = 1..0 /\ 0 \in Nat
    BY DEF Init
  <2> QED BY <2>1 DEF Dense
<1>3. Sound(board) /\ Emptied(board) /\ Single(board)
  BY DEF Init, Sound, Emptied, LiveIn, Single, Kinds
<1>4. Calls /\ Undisturbed /\ IdleIsDone
  BY <1>3 DEF Init, Calls, Undisturbed, IdleIsDone
<1> QED BY <1>1, <1>2, <1>3, <1>4 DEF Inv

\* A step that changes nothing keeps the invariant.
LEMMA StutterInv ==
  ASSUME Inv, UNCHANGED vars
  PROVE  Inv'
BY DEF vars, Inv, TypeOK, Calls, Undisturbed, IdleIsDone, Idle

\* A command begins with calls that fit the board it has read.
LEMMA BeginKeeps ==
  ASSUME Inv, NEW p \in Procs, NEW nm \in Names, NEW ws, nm # "none",
         Begin(p, nm, ws),
         \A w \in ws : w \in Write /\ CallOK(board, nm, ws, w) /\ FreshCall(board, ws, w)
  PROVE  Inv'
<1>1. /\ Idle(p) /\ command' = [command EXCEPT ![p] = nm] /\ todo' = [todo EXCEPT ![p] = ws]
      /\ UNCHANGED <<board, deaths>>
  BY DEF Begin
<1>2. alone' \in BOOLEAN /\ (alone' => alone /\ \A q \in Procs : Idle(q))
  BY DEF Begin
<1>3. /\ command \in [Procs -> Names] /\ DOMAIN todo = Procs
  BY DEF Inv, TypeOK
<1>4. /\ command'[p] = nm /\ todo'[p] = ws
      /\ \A q \in Procs : q # p => command'[q] = command[q] /\ todo'[q] = todo[q]
      /\ command' \in [Procs -> Names] /\ DOMAIN todo' = Procs
  BY <1>1, <1>3
<1>5. TypeOK'
  BY <1>1, <1>2, <1>4 DEF Inv, TypeOK
<1>6. Calls'
  BY <1>1, <1>4 DEF Inv, Calls
<1>7. Undisturbed'
  <2> SUFFICES ASSUME alone'
               PROVE  /\ \A q, r \in Procs : q = r \/ todo'[q] = {} \/ todo'[r] = {}
                      /\ \A q \in Procs : \A w \in todo'[q] : FreshCall(board', todo'[q], w)
                      /\ Emptied(board')
                      /\ Single(board')
    BY DEF Undisturbed
  <2>1. alone /\ \A q \in Procs : q # p => todo'[q] = {}
    BY <1>2, <1>4 DEF Inv, IdleIsDone
  <2> QED BY <1>1, <1>4, <2>1 DEF Inv, Undisturbed
<1>8. IdleIsDone'
  BY <1>4 DEF Inv, IdleIsDone, Idle
<1> QED BY <1>1, <1>5, <1>6, <1>7, <1>8 DEF Inv
-----------------------------------------------------------------------------
(* the commands *)

\* A row on the board is well formed and names only rows it may name.
LEMMA RowFacts ==
  ASSUME Inv, NEW k \in Kinds, NEW i \in Rows(k)
  PROVE  board[k][i] \in Row /\ i \in Ids /\ MayName(board, k, board[k][i].of)
BY DEF Inv, TypeOK, Sound, Rows

\* The rows of a kind are numbered by ids.
LEMMA RowsAreIds == ASSUME Inv, NEW k \in Kinds PROVE Rows(k) \subseteq Ids /\ Rows(k) \subseteq Nat
BY DEF Inv, TypeOK, Rows, Ids

\* The live PBIs are rows of the board that are not removed.
LEMMA LiveFacts == LivePbis = LiveIn(board) /\ LivePbis \subseteq DOMAIN board["pbi"]
BY DEF LivePbis, LiveIn, Rows

\* A blank row with one field filled in is a row with just that field set.
LEMMA BlankFacts ==
  /\ Blank \in Row /\ Blank.of = 0 /\ Blank.blocked_by = {} /\ Blank.status = "live" /\ Blank.key = NoKey
  /\ \A n \in Nat : LET r == [Blank EXCEPT !.of = n] IN
       r \in Row /\ r.of = n /\ r.blocked_by = {} /\ r.status = "live" /\ r.key = NoKey
  /\ \A t \in Transcripts : LET r == [Blank EXCEPT !.key = t] IN
       r \in Row /\ r.of = 0 /\ r.blocked_by = {} /\ r.status = "live" /\ r.key = t
BY DEF Blank, Row

\* Relinking or removing a row changes that field alone.
LEMMA EditedFacts ==
  ASSUME NEW row \in Row
  PROVE  /\ \A n \in Nat : LET r == [row EXCEPT !.of = n] IN r \in Row /\ r.of = n
         /\ LET r == [row EXCEPT !.status = "removed"] IN r \in Row /\ r.status = "removed" /\ r.of = row.of
BY DEF Row

\* What an add command hands to the log is an add write of that row.
LEMMA AddFacts ==
  ASSUME NEW k \in Kinds, NEW row \in Row, NEW caps \in SUBSET Ids
  PROVE  LET w == AddOf(k, row, caps) IN
           /\ w \in Write /\ w.verb = "add" /\ w.kind = k /\ w.row = row /\ w.promotes = caps
BY DEF AddOf, Write

\* What a set command hands to the log is a set write of those fields.
LEMMA SetFacts ==
  ASSUME NEW k \in Kinds, NEW i \in Nat, NEW fs \in SUBSET {"of", "status", "key"}, NEW row \in Row
  PROVE  LET w == SetOf(k, i, fs, row) IN
           /\ w \in Write /\ w.verb = "set" /\ w.kind = k /\ w.id = i /\ w.fields = fs /\ w.row = row
BY DEF SetOf, Write

\* What a link or unlink command hands to the log is that write of one reference.
LEMMA RelinkFacts ==
  ASSUME NEW verb \in {"link", "unlink"}, NEW k \in Kinds, NEW i \in Nat, NEW n \in Nat
  PROVE  LET w == Relink(verb, k, i, n) IN
           /\ w \in Write /\ w.verb = verb /\ w.kind = k /\ w.id = i /\ w.row.of = n
BY BlankFacts DEF Relink, Write

\* A step of PbiAdd keeps Inv.
LEMMA PbiAddKeeps == ASSUME Inv, NEW p \in Procs, PbiAdd(p) PROVE Inv'
<1> DEFINE w == AddOf("pbi", Blank, {})
<1>1. Begin(p, "pbi_add", {w}) /\ "pbi_add" \in Names /\ "pbi" \in Kinds
  BY DEF PbiAdd, Names, Kinds
<1>2. w \in Write /\ w.verb = "add" /\ w.kind = "pbi" /\ w.row = Blank /\ w.promotes = {}
  BY <1>1, AddFacts, BlankFacts
<1> HIDE DEF w
<1>3. CallOK(board, "pbi_add", {w}, w)
  BY <1>2, BlankFacts DEF CallOK, MayName
<1>4. FreshCall(board, {w}, w)
  BY <1>2 DEF FreshCall
<1> QED BY <1>1, <1>2, <1>3, <1>4, BeginKeeps

\* A step of TaskAdd keeps Inv.
LEMMA TaskAddKeeps == ASSUME Inv, NEW p \in Procs, TaskAdd(p) PROVE Inv'
<1>1. PICK n \in OptionalPbis, caps \in {{}} \cup {{c} : c \in Rows("capture")} :
        Begin(p, "task_add", {AddOf("task", [Blank EXCEPT !.of = n], caps)})
  BY DEF TaskAdd
<1> DEFINE row == [Blank EXCEPT !.of = n]
           w == AddOf("task", row, caps)
<1>2. "task_add" \in Names /\ {"task", "capture", "pbi"} \subseteq Kinds
  BY DEF Names, Kinds
<1>3. n \in Nat /\ n \in {0} \cup LivePbis /\ caps \subseteq Rows("capture") /\ caps \subseteq Ids
  BY <1>2, RowsAreIds, LiveFacts DEF OptionalPbis, Rows
<1>4. row \in Row /\ row.of = n /\ row.blocked_by = {} /\ row.status = "live"
  BY <1>3, BlankFacts
<1> HIDE DEF row
<1>5. w \in Write /\ w.verb = "add" /\ w.kind = "task" /\ w.row = row /\ w.promotes = caps
  BY <1>2, <1>3, <1>4, AddFacts
<1>6. Begin(p, "task_add", {w})
  BY <1>1 DEF row
<1> HIDE DEF w
<1>7. CallOK(board, "task_add", {w}, w)
  BY <1>3, <1>4, <1>5, LiveFacts DEF CallOK, MayName, Rows
<1>8. FreshCall(board, {w}, w)
  BY <1>3, <1>4, <1>5, LiveFacts DEF FreshCall
<1> QED BY <1>2, <1>5, <1>6, <1>7, <1>8, BeginKeeps

\* A step of TaskSet keeps Inv.
LEMMA TaskSetKeeps == ASSUME Inv, NEW p \in Procs, TaskSet(p) PROVE Inv'
<1>1. PICK i \in Rows("task"), n \in LivePbis :
        Begin(p, "task_set", {SetOf("task", i, {"of"}, [board["task"][i] EXCEPT !.of = n])})
  BY DEF TaskSet
<1> DEFINE row == [board["task"][i] EXCEPT !.of = n]
           w == SetOf("task", i, {"of"}, row)
<1>2. "task_set" \in Names /\ {"task", "pbi"} \subseteq Kinds
  BY DEF Names, Kinds
<1>3. n \in Ids /\ n \in Nat /\ n # 0 /\ i \in Nat
  BY <1>2, RowsAreIds, LiveFacts DEF Rows, Ids
<1>4. row \in Row /\ row.of = n
  BY <1>2, <1>3, RowFacts, EditedFacts
<1> HIDE DEF row
<1>5. w \in Write /\ w.verb = "set" /\ w.kind = "task" /\ w.id = i /\ w.row = row /\ w.fields = {"of"}
  <2>1. {"of"} \in SUBSET {"of", "status", "key"}
    OBVIOUS
  <2> HIDE DEF w
  <2> QED BY <1>2, <1>3, <1>4, <2>1, SetFacts DEF w
<1>6. Begin(p, "task_set", {w})
  BY <1>1 DEF row
<1> HIDE DEF w
<1>7. CallOK(board, "task_set", {w}, w)
  BY <1>3, <1>4, <1>5, LiveFacts DEF CallOK, MayName
<1>8. FreshCall(board, {w}, w)
  BY <1>4, <1>5, LiveFacts DEF FreshCall
<1> QED BY <1>2, <1>5, <1>6, <1>7, <1>8, BeginKeeps

\* A step of TaskLink keeps Inv.
LEMMA TaskLinkKeeps == ASSUME Inv, NEW p \in Procs, TaskLink(p) PROVE Inv'
<1>1. PICK i \in Rows("task") : \E n \in Blockers(i) : Begin(p, "task_link", {Relink("link", "task", i, n)})
  BY DEF TaskLink
<1>2. PICK n \in Blockers(i) : Begin(p, "task_link", {Relink("link", "task", i, n)})
  BY <1>1
<1> DEFINE w == Relink("link", "task", i, n)
<1>3. "task_link" \in Names /\ "task" \in Kinds
  BY DEF Names, Kinds
<1>4. i \in Nat /\ n \in Nat /\ n \in Rows("task") /\ n # i
  BY <1>3, RowsAreIds DEF Blockers
<1>5. w \in Write /\ w.verb = "link" /\ w.kind = "task" /\ w.id = i /\ w.row.of = n
  BY <1>3, <1>4, RelinkFacts
<1>6. Begin(p, "task_link", {w})
  BY <1>2
<1> HIDE DEF w
<1>7. CallOK(board, "task_link", {w}, w)
  BY <1>4, <1>5 DEF CallOK, Rows
<1>8. FreshCall(board, {w}, w)
  BY <1>5 DEF FreshCall
<1> QED BY <1>3, <1>5, <1>6, <1>7, <1>8, BeginKeeps

\* A step of NoteAdd keeps Inv.
LEMMA NoteAddKeeps == ASSUME Inv, NEW p \in Procs, NoteAdd(p) PROVE Inv'
<1>1. PICK k \in {"capture", "decision"}, n \in {0} \cup Rows("task") :
        Begin(p, "note_add", {AddOf(k, [Blank EXCEPT !.of = n], {})})
  BY DEF NoteAdd
<1> DEFINE row == [Blank EXCEPT !.of = n]
           w == AddOf(k, row, {})
<1>2. "note_add" \in Names /\ "task" \in Kinds /\ k \in Kinds
  BY DEF Names, Kinds
<1>3. n \in Nat
  BY <1>2, RowsAreIds
<1>4. row \in Row /\ row.of = n /\ row.blocked_by = {} /\ row.status = "live"
  BY <1>3, BlankFacts
<1> HIDE DEF row
<1>5. w \in Write /\ w.verb = "add" /\ w.kind = k /\ w.row = row /\ w.promotes = {}
  BY <1>2, <1>4, AddFacts
<1>6. Begin(p, "note_add", {w})
  BY <1>1 DEF row
<1> HIDE DEF w
<1>7. CallOK(board, "note_add", {w}, w)
  BY <1>4, <1>5 DEF CallOK, MayName, Rows
<1>8. FreshCall(board, {w}, w)
  BY <1>5 DEF FreshCall
<1> QED BY <1>2, <1>5, <1>6, <1>7, <1>8, BeginKeeps

\* A step of NoteLink keeps Inv.
LEMMA NoteLinkKeeps == ASSUME Inv, NEW p \in Procs, NoteLink(p) PROVE Inv'
<1>1. PICK k \in {"capture", "decision"} :
        \E i \in Rows(k), n \in Rows("task") : Begin(p, "note_link", {Relink("link", k, i, n)})
  BY DEF NoteLink
<1>2. PICK i \in Rows(k), n \in Rows("task") : Begin(p, "note_link", {Relink("link", k, i, n)})
  BY <1>1
<1> DEFINE w == Relink("link", k, i, n)
<1>3. "note_link" \in Names /\ "task" \in Kinds /\ k \in Kinds
  BY DEF Names, Kinds
<1>4. i \in Nat /\ n \in Nat
  BY <1>3, RowsAreIds
<1>5. w \in Write /\ w.verb = "link" /\ w.kind = k /\ w.id = i /\ w.row.of = n
  BY <1>3, <1>4, RelinkFacts
<1>6. Begin(p, "note_link", {w})
  BY <1>2
<1> HIDE DEF w
<1>7. CallOK(board, "note_link", {w}, w)
  BY <1>5 DEF CallOK, Rows
<1>8. FreshCall(board, {w}, w)
  BY <1>5 DEF FreshCall
<1> QED BY <1>3, <1>5, <1>6, <1>7, <1>8, BeginKeeps

\* A step of CaptureUnlink keeps Inv.
LEMMA CaptureUnlinkKeeps == ASSUME Inv, NEW p \in Procs, CaptureUnlink(p) PROVE Inv'
<1>1. PICK i \in Rows("capture") :
        Begin(p, "capture_unlink", {Relink("unlink", "capture", i, board["capture"][i].of)})
  BY DEF CaptureUnlink
<1> DEFINE n == board["capture"][i].of
           w == Relink("unlink", "capture", i, n)
<1>2. "capture_unlink" \in Names /\ "capture" \in Kinds
  BY DEF Names, Kinds
<1>3. i \in Nat /\ n \in Nat
  BY <1>2, RowsAreIds, RowFacts DEF Row
<1> HIDE DEF n
<1>4. w \in Write /\ w.verb = "unlink" /\ w.kind = "capture"
  BY <1>2, <1>3, RelinkFacts
<1>5. Begin(p, "capture_unlink", {w})
  BY <1>1 DEF n
<1> HIDE DEF w
<1>6. CallOK(board, "capture_unlink", {w}, w)
  BY <1>4 DEF CallOK
<1>7. FreshCall(board, {w}, w)
  BY <1>4 DEF FreshCall
<1> QED BY <1>2, <1>4, <1>5, <1>6, <1>7, BeginKeeps

\* A step of RequirementAdd keeps Inv.
LEMMA RequirementAddKeeps == ASSUME Inv, NEW p \in Procs, RequirementAdd(p) PROVE Inv'
<1>1. PICK n \in OptionalPbis :
        Begin(p, "requirement_add", {AddOf("requirement", [Blank EXCEPT !.of = n], {})})
  BY DEF RequirementAdd
<1> DEFINE row == [Blank EXCEPT !.of = n]
           w == AddOf("requirement", row, {})
<1>2. "requirement_add" \in Names /\ {"requirement", "pbi"} \subseteq Kinds
  BY DEF Names, Kinds
<1>3. n \in Nat /\ n \in {0} \cup LivePbis
  BY <1>2, RowsAreIds, LiveFacts DEF OptionalPbis, Rows
<1>4. row \in Row /\ row.of = n /\ row.blocked_by = {} /\ row.status = "live"
  BY <1>3, BlankFacts
<1> HIDE DEF row
<1>5. w \in Write /\ w.verb = "add" /\ w.kind = "requirement" /\ w.row = row /\ w.promotes = {}
  BY <1>2, <1>4, AddFacts
<1>6. Begin(p, "requirement_add", {w})
  BY <1>1 DEF row
<1> HIDE DEF w
<1>7. CallOK(board, "requirement_add", {w}, w)
  BY <1>3, <1>4, <1>5, LiveFacts DEF CallOK, MayName, Rows
<1>8. FreshCall(board, {w}, w)
  BY <1>3, <1>4, <1>5, LiveFacts DEF FreshCall
<1> QED BY <1>2, <1>5, <1>6, <1>7, <1>8, BeginKeeps

\* A step of RequirementModify keeps Inv.
LEMMA RequirementModifyKeeps == ASSUME Inv, NEW p \in Procs, RequirementModify(p) PROVE Inv'
<1>1. PICK i \in Rows("requirement"), n \in LivePbis :
        Begin(p, "requirement_modify",
            {SetOf("requirement", i, {"of"}, [board["requirement"][i] EXCEPT !.of = n])})
  BY DEF RequirementModify
<1> DEFINE row == [board["requirement"][i] EXCEPT !.of = n]
           w == SetOf("requirement", i, {"of"}, row)
<1>2. "requirement_modify" \in Names /\ {"requirement", "pbi"} \subseteq Kinds
  BY DEF Names, Kinds
<1>3. n \in Nat /\ i \in Nat
  BY <1>2, RowsAreIds, LiveFacts DEF Rows
<1>4. row \in Row /\ row.of = n
  BY <1>2, <1>3, RowFacts, EditedFacts
<1> HIDE DEF row
<1>5. w \in Write /\ w.verb = "set" /\ w.kind = "requirement" /\ w.id = i /\ w.row = row /\ w.fields = {"of"}
  <2>1. {"of"} \in SUBSET {"of", "status", "key"}
    OBVIOUS
  <2>2. "requirement" \in Kinds
    BY <1>2
  <2> QED BY <1>3, <1>4, <2>1, <2>2 DEF SetOf, Write
<1>6. Begin(p, "requirement_modify", {w})
  BY <1>1 DEF row
<1> HIDE DEF w
<1>7. CallOK(board, "requirement_modify", {w}, w)
  BY <1>3, <1>4, <1>5, LiveFacts DEF CallOK, MayName
<1>8. FreshCall(board, {w}, w)
  BY <1>4, <1>5, LiveFacts DEF FreshCall
<1> QED BY <1>2, <1>5, <1>6, <1>7, <1>8, BeginKeeps

\* A step of RequirementRemove keeps Inv.
LEMMA RequirementRemoveKeeps == ASSUME Inv, NEW p \in Procs, RequirementRemove(p) PROVE Inv'
<1>1. PICK i \in Rows("requirement") :
        Begin(p, "requirement_remove",
            {SetOf("requirement", i, {"status"}, [board["requirement"][i] EXCEPT !.status = "removed"])})
  BY DEF RequirementRemove
<1> DEFINE row == [board["requirement"][i] EXCEPT !.status = "removed"]
           w == SetOf("requirement", i, {"status"}, row)
<1>2. "requirement_remove" \in Names /\ "requirement" \in Kinds
  BY DEF Names, Kinds
<1>3. i \in Nat /\ row \in Row
  BY <1>2, RowsAreIds, RowFacts, EditedFacts
<1> HIDE DEF row
<1>4. w \in Write /\ w.verb = "set" /\ w.kind = "requirement" /\ w.id = i /\ w.row = row /\ w.fields = {"status"}
  <2>1. {"status"} \in SUBSET {"of", "status", "key"}
    OBVIOUS
  <2> HIDE DEF w
  <2> QED BY <1>2, <1>3, <2>1, SetFacts DEF w
<1>5. Begin(p, "requirement_remove", {w})
  BY <1>1 DEF row
<1> HIDE DEF w
<1>6. CallOK(board, "requirement_remove", {w}, w)
  BY <1>4 DEF CallOK
<1>7. FreshCall(board, {w}, w)
  BY <1>4 DEF FreshCall
<1> QED BY <1>2, <1>4, <1>5, <1>6, <1>7, BeginKeeps

\* A step of SessionRecord keeps Inv.
LEMMA SessionRecordKeeps == ASSUME Inv, NEW p \in Procs, SessionRecord(p) PROVE Inv'
<1>1. PICK t \in Transcripts :
        Begin(p, "session_record",
              {[verb |-> "upsert", kind |-> "session", id |-> 0, fields |-> {},
                row |-> [Blank EXCEPT !.key = t], promotes |-> {}]})
  BY DEF SessionRecord
<1> DEFINE w == [verb |-> "upsert", kind |-> "session", id |-> 0, fields |-> {},
                 row |-> [Blank EXCEPT !.key = t], promotes |-> {}]
<1>2. "session_record" \in Names
  BY DEF Names
<1>3. w \in Write /\ w.verb = "upsert" /\ w.kind = "session" /\ w.row.blocked_by = {} /\ w.row.status = "live"
  BY BlankFacts DEF Write, Kinds
<1>4. Begin(p, "session_record", {w})
  BY <1>1
<1> HIDE DEF w
<1>5. CallOK(board, "session_record", {w}, w)
  BY <1>3 DEF CallOK
<1>6. FreshCall(board, {w}, w)
  BY <1>3 DEF FreshCall
<1> QED BY <1>2, <1>3, <1>4, <1>5, <1>6, BeginKeeps

\* Held lists exactly the tasks and requirements that hold on to a PBI.
LEMMA HeldFacts ==
  ASSUME NEW n
  PROVE  /\ \A x \in Held(n) : x[1] \in {"task", "requirement"} /\ Holds(board, n, x[1], x[2])
         /\ \A k, i : Holds(board, n, k, i) => <<k, i>> \in Held(n)
BY DEF Held, Holds, Rows

\* A step of PbiRemove keeps Inv.
LEMMA PbiRemoveKeeps == ASSUME Inv, NEW p \in Procs, PbiRemove(p) PROVE Inv'
<1> DEFINE Freed(x) == [board[x[1]][x[2]] EXCEPT !.of = 0]
           Detach(x) == SetOf(x[1], x[2], {"of"}, Freed(x))
<1>1. PICK n \in LivePbis, force \in BOOLEAN :
        /\ ~Refuses({x \in Held(n) : x[1] = "task"}, force)
        /\ Begin(p, IF force THEN "pbi_remove_force" ELSE "pbi_remove",
               {Detach(x) : x \in Held(n)}
               \cup {SetOf("pbi", n, {"status"}, [board["pbi"][n] EXCEPT !.status = "removed"])})
  BY DEF PbiRemove
<1> DEFINE nm == IF force THEN "pbi_remove_force" ELSE "pbi_remove"
           row == [board["pbi"][n] EXCEPT !.status = "removed"]
           r == SetOf("pbi", n, {"status"}, row)
           ws == {Detach(x) : x \in Held(n)} \cup {r}
<1>2. nm \in Names /\ nm # "none" /\ (force => nm = "pbi_remove_force") /\ {"task", "requirement", "pbi"} \subseteq Kinds
  BY DEF Names, Kinds
<1>3. n \in Nat /\ n \in Rows("pbi")
  BY <1>2, RowsAreIds, LiveFacts DEF Rows
<1>4. row \in Row /\ row.status = "removed"
  BY <1>2, <1>3, RowFacts, EditedFacts
<1>5. ASSUME NEW x \in Held(n)
      PROVE  /\ Detach(x) \in Write /\ Detaches(Detach(x), x[1], x[2]) /\ x[1] \in {"task", "requirement"}
             /\ x[1] = "task" => force
  <2>1. x[1] \in {"task", "requirement"} /\ x[2] \in Rows(x[1])
    BY <1>5, HeldFacts DEF Holds, Rows
  <2>2. x[1] \in Kinds /\ x[2] \in Nat /\ board[x[1]][x[2]] \in Row
    BY <1>2, <2>1, RowsAreIds, RowFacts
  <2>3. Freed(x) \in Row /\ Freed(x).of = 0
    BY <2>2, EditedFacts
  <2> HIDE DEF Freed
  <2>4. Detach(x) \in Write /\ Detaches(Detach(x), x[1], x[2])
    BY <2>2, <2>3, SetFacts DEF Detaches
  <2>5. x[1] = "task" => force
    BY <1>1, <1>5 DEF Refuses
  <2> QED BY <2>1, <2>4, <2>5
<1> HIDE DEF row
<1>6. r \in Write /\ r.verb = "set" /\ r.kind = "pbi" /\ r.id = n /\ r.row = row /\ r.fields = {"status"}
  BY <1>2, <1>3, <1>4, SetFacts
<1>7. Begin(p, nm, ws)
  BY <1>1 DEF row
<1> HIDE DEF r, nm, Detach
<1>8. \A x \in Held(n) : CallOK(board, nm, ws, Detach(x)) /\ FreshCall(board, ws, Detach(x))
  BY <1>2, <1>5 DEF CallOK, FreshCall, MayName, Detaches
<1>9. CallOK(board, nm, ws, r)
  <2>1. \A v \in ws : v = r \/ \E k \in {"task", "requirement"} : Detaches(v, k, v.id)
    BY <1>5 DEF Detaches
  <2> QED BY <1>3, <1>4, <1>6, <2>1 DEF CallOK, Rows
<1>10. FreshCall(board, ws, r)
  <2>1. ASSUME NEW k, NEW i, Holds(board, n, k, i) PROVE \E v \in ws : Detaches(v, k, i)
    <3>1. <<k, i>> \in Held(n)
      BY <2>1, HeldFacts
    <3> QED BY <1>5, <3>1
  <2> QED BY <1>6, <2>1 DEF FreshCall
<1>11. \A w \in ws : w \in Write /\ CallOK(board, nm, ws, w) /\ FreshCall(board, ws, w)
  BY <1>5, <1>6, <1>8, <1>9, <1>10
<1> QED BY <1>2, <1>7, <1>11, BeginKeeps
-----------------------------------------------------------------------------
(* the store calls *)

\* What is left of a command's calls is kept by its process alone.
LEMMA ProceedFacts ==
  ASSUME Inv, NEW p \in Procs, todo[p] # {}, NEW ws, Proceed(p, ws), \A w \in ws : w \in Write
  PROVE  /\ todo'[p] = ws /\ \A q \in Procs : q # p => todo'[q] = todo[q] /\ command'[q] = command[q]
         /\ ws # {} => command'[p] = command[p]
         /\ command' \in [Procs -> Names] /\ DOMAIN todo' = Procs /\ \A q \in Procs : \A w \in todo'[q] : w \in Write
         /\ deaths' = deaths /\ alone' = alone /\ IdleIsDone'
<1>1. /\ todo' = [todo EXCEPT ![p] = ws]
      /\ command' = [command EXCEPT ![p] = IF ws = {} THEN "none" ELSE command[p]]
      /\ deaths' = deaths /\ alone' = alone
  BY DEF Proceed
<1>2. command \in [Procs -> Names] /\ DOMAIN todo = Procs /\ \A q \in Procs : \A w \in todo[q] : w \in Write
  BY DEF Inv, TypeOK
<1>3. "none" \in Names
  BY DEF Names
<1>4. /\ todo'[p] = ws /\ \A q \in Procs : q # p => todo'[q] = todo[q] /\ command'[q] = command[q]
      /\ command'[p] = IF ws = {} THEN "none" ELSE command[p]
      /\ command' \in [Procs -> Names] /\ DOMAIN todo' = Procs
  BY <1>1, <1>2, <1>3
<1>5. IdleIsDone'
  <2> SUFFICES ASSUME NEW q \in Procs, command'[q] = "none" PROVE todo'[q] = {}
    BY DEF IdleIsDone, Idle
  <2>1. CASE q = p
    <3>1. command[p] # "none"
      BY DEF Inv, IdleIsDone, Idle
    <3> QED BY <1>4, <2>1, <3>1
  <2>2. CASE q # p
    BY <1>4, <2>2 DEF Inv, IdleIsDone, Idle
  <2> QED BY <2>1, <2>2
<1> QED BY <1>1, <1>2, <1>4, <1>5

\* No row of b is missing in c.
Grown(b, c) == \A k \in Kinds : DOMAIN b[k] \subseteq DOMAIN c[k]

\* A call that fits a board fits a board that has grown.
LEMMA GrownCalls ==
  ASSUME NEW b, NEW c, Grown(b, c), NEW nm, NEW ws, NEW w, CallOK(b, nm, ws, w)
  PROVE  CallOK(c, nm, ws, w)
<1>1. \A k, n : MayName(b, k, n) => MayName(c, k, n)
  BY DEF Grown, MayName, Kinds
<1>2. \A k \in {"capture", "task", "pbi"} : DOMAIN b[k] \subseteq DOMAIN c[k]
  BY DEF Grown, Kinds
<1> QED BY <1>1, <1>2 DEF CallOK

\* A process whose calls are not those of p makes no difference while commands
\* do not overlap.
LEMMA OthersIdle ==
  ASSUME Inv, alone, NEW p \in Procs, todo[p] # {}, NEW q \in Procs, q # p
  PROVE  todo[q] = {}
BY DEF Inv, Undisturbed

\* A step of Upsert keeps Inv.
LEMMA UpsertKeeps == ASSUME Inv, NEW p \in Procs, Upsert(p) PROVE Inv'
<1>1. PICK w \in todo[p] :
        /\ w.verb = "upsert"
        /\ todo' = [todo EXCEPT ![p] =
             {IF Known(w.row.key) = {} THEN AddOf("session", w.row, {})
              ELSE SetOf("session", Min(Known(w.row.key)), {"key"}, w.row)}]
        /\ UNCHANGED <<board, command, deaths, alone>>
  BY DEF Upsert
<1> DEFINE T == Known(w.row.key)
           v == IF T = {} THEN AddOf("session", w.row, {}) ELSE SetOf("session", Min(T), {"key"}, w.row)
<1>2. w \in Write /\ w.row \in Row /\ CallOK(board, command[p], todo[p], w) /\ todo[p] # {}
  BY DEF Inv, TypeOK, Calls, Write
<1>3. "session" \in Kinds
  BY DEF Kinds
<1>4. T \subseteq Nat /\ T \subseteq DOMAIN board["session"] /\ \A i \in T : board["session"][i].key = w.row.key
  BY <1>3, RowsAreIds DEF Known, Rows
<1>5. /\ v \in Write /\ v.kind = "session" /\ v.row = w.row
      /\ \/ v.verb = "add" /\ v.promotes = {} /\ T = {}
         \/ v.verb = "set" /\ v.fields = {"key"} /\ v.id \in T
  <2>1. CASE T = {}
    <3>1. v = AddOf("session", w.row, {})
      BY <2>1
    <3> QED BY <1>2, <1>3, <2>1, <3>1, AddFacts
  <2>2. CASE T # {}
    <3>1. Min(T) \in T /\ Min(T) \in Nat
      BY <1>4, <2>2, MinFacts
    <3>2. v = SetOf("session", Min(T), {"key"}, w.row)
      BY <2>2
    <3> HIDE DEF T
    <3> QED BY <1>2, <1>3, <3>1, <3>2, SetFacts
  <2> QED BY <2>1, <2>2
<1>6. todo' = [todo EXCEPT ![p] = {v}]
  BY <1>1
<1> HIDE DEF v
<1>7. CallOK(board, command[p], {v}, v) /\ FreshCall(board, {v}, v)
  <2>1. w.row.blocked_by = {} /\ w.row.status = "live"
    BY <1>1, <1>2 DEF CallOK
  <2>2. T = {} => \A i \in DOMAIN board["session"] : board["session"][i].key # w.row.key
    BY DEF Known, Rows
  <2> HIDE DEF T
  <2>3. CASE T = {} /\ v.verb = "add" /\ v.promotes = {}
    BY <1>5, <2>1, <2>2, <2>3 DEF CallOK, FreshCall, MayName
  <2>4. CASE v.verb = "set" /\ v.fields = {"key"} /\ v.id \in T
    BY <1>4, <1>5, <2>4 DEF CallOK, FreshCall, MayName, T
  <2> QED BY <1>5, <2>3, <2>4
<1>8. command \in [Procs -> Names] /\ DOMAIN todo = Procs
  BY DEF Inv, TypeOK
<1>9. todo'[p] = {v} /\ (\A q \in Procs : q # p => todo'[q] = todo[q]) /\ DOMAIN todo' = Procs
  BY <1>6, <1>8
<1>10. TypeOK'
  BY <1>1, <1>5, <1>9 DEF Inv, TypeOK
<1>11. Calls'
  BY <1>1, <1>7, <1>9 DEF Inv, Calls
<1>12. Undisturbed'
  <2> SUFFICES ASSUME alone
               PROVE  /\ \A q, r \in Procs : q = r \/ todo'[q] = {} \/ todo'[r] = {}
                      /\ \A q \in Procs : \A u \in todo'[q] : FreshCall(board', todo'[q], u)
                      /\ Emptied(board')
                      /\ Single(board')
    BY <1>1 DEF Undisturbed
  <2>1. \A q \in Procs : q # p => todo'[q] = {}
    BY <1>2, <1>9, OthersIdle
  <2> QED BY <1>1, <1>7, <1>9, <2>1 DEF Inv, Undisturbed
<1>13. IdleIsDone'
  <2>1. command[p] # "none"
    BY <1>2 DEF Inv, IdleIsDone, Idle
  <2> QED BY <1>1, <1>9, <2>1 DEF Inv, IdleIsDone, Idle
<1> QED BY <1>1, <1>10, <1>11, <1>12, <1>13 DEF Inv

\* A row is added.
LEMMA InsertFacts ==
  ASSUME Inv, NEW p \in Procs, NEW w \in todo[p], w.verb = "add",
         board' = [board EXCEPT ![w.kind] =
                    [j \in DOMAIN board[w.kind] \cup {Fresh(w.kind)} |-> IF j = Fresh(w.kind) THEN w.row ELSE board[w.kind][j]]]
  PROVE  /\ w \in Write /\ w.kind \in Kinds /\ w.row \in Row /\ Fresh(w.kind) \in Ids /\ Fresh(w.kind) \notin DOMAIN board[w.kind]
         /\ DOMAIN board' = Kinds
         /\ \A k \in Kinds : k # w.kind => board'[k] = board[k]
         /\ DOMAIN board'[w.kind] = DOMAIN board[w.kind] \cup {Fresh(w.kind)} /\ board'[w.kind][Fresh(w.kind)] = w.row
         /\ board'[w.kind] = [j \in DOMAIN board'[w.kind] |-> board'[w.kind][j]]
         /\ \A j \in DOMAIN board[w.kind] : board'[w.kind][j] = board[w.kind][j]
         /\ Dense(board') /\ Grown(board, board')
<1>0. PICK i : i = Fresh(w.kind)
  OBVIOUS
<1> DEFINE k == w.kind
           t == [j \in DOMAIN board[k] \cup {i} |-> IF j = i THEN w.row ELSE board[k][j]]
<1>1. w \in Write /\ k \in Kinds /\ w.row \in Row
  BY DEF Inv, TypeOK, Write
<1>2. i \in Ids /\ i \notin DOMAIN board[k] /\ DOMAIN board[k] \cup {i} = 1..i
  BY <1>0, <1>1, FreshFacts DEF Inv, Rows
<1>3. DOMAIN board = Kinds
  BY DEF Inv, TypeOK
<1>4. board' = [board EXCEPT ![k] = t]
  BY <1>0
<1>5. DOMAIN board' = Kinds /\ board'[k] = t /\ \A l \in Kinds : l # k => board'[l] = board[l]
  <2> HIDE DEF t
  <2> QED BY <1>1, <1>3, <1>4
<1>6. DOMAIN t = 1..i /\ t = [j \in DOMAIN t |-> t[j]] /\ t[i] = w.row /\ \A j \in DOMAIN board[k] : t[j] = board[k][j]
  BY <1>2
<1>7. Dense(board')
  BY <1>2, <1>5, <1>6 DEF Inv, Dense, Ids
<1>8. Grown(board, board')
  BY <1>2, <1>5, <1>6 DEF Grown
<1> HIDE DEF t
<1>9. DOMAIN t = DOMAIN board[k] \cup {i}
  BY <1>2, <1>6
<1>10. board'[k] = [j \in DOMAIN board'[k] |-> board'[k][j]]
  BY <1>5 DEF t
<1> QED BY <1>0, <1>1, <1>2, <1>5, <1>6, <1>7, <1>8, <1>9, <1>10

\* A step of Insert keeps Inv.
LEMMA InsertKeeps == ASSUME Inv, NEW p \in Procs, Insert(p) PROVE Inv'
<1>1. PICK w \in todo[p] :
        LET i == Fresh(w.kind) IN
        /\ w.verb = "add"
        /\ board' = [board EXCEPT ![w.kind] = [j \in DOMAIN @ \cup {i} |-> IF j = i THEN w.row ELSE @[j]]]
        /\ Proceed(p, {Relink("link", "capture", c, i) : c \in w.promotes})
  BY DEF Insert
<1>2. PICK i : i = Fresh(w.kind)
  OBVIOUS
<1> DEFINE k == w.kind
           ws == {Relink("link", "capture", c, i) : c \in w.promotes}
<1>3. w.verb = "add" /\ Proceed(p, ws) /\ todo[p] # {}
  BY <1>1, <1>2
<1>4. /\ w \in Write /\ k \in Kinds /\ w.row \in Row /\ i \in Ids /\ i \notin DOMAIN board[k]
      /\ DOMAIN board' = Kinds
      /\ \A l \in Kinds : l # k => board'[l] = board[l]
      /\ DOMAIN board'[k] = DOMAIN board[k] \cup {i} /\ board'[k][i] = w.row
      /\ board'[k] = [j \in DOMAIN board'[k] |-> board'[k][j]]
      /\ \A j \in DOMAIN board[k] : board'[k][j] = board[k][j]
      /\ Dense(board') /\ Grown(board, board')
  <2>1. board' = [board EXCEPT ![w.kind] =
                   [j \in DOMAIN board[w.kind] \cup {Fresh(w.kind)} |->
                      IF j = Fresh(w.kind) THEN w.row ELSE board[w.kind][j]]]
    BY <1>1
  <2>2. w.verb = "add"
    BY <1>3
  <2>3. /\ w \in Write /\ w.kind \in Kinds /\ w.row \in Row /\ Fresh(w.kind) \in Ids /\ Fresh(w.kind) \notin DOMAIN board[w.kind]
        /\ DOMAIN board' = Kinds
        /\ \A l \in Kinds : l # w.kind => board'[l] = board[l]
        /\ DOMAIN board'[w.kind] = DOMAIN board[w.kind] \cup {Fresh(w.kind)} /\ board'[w.kind][Fresh(w.kind)] = w.row
        /\ board'[w.kind] = [j \in DOMAIN board'[w.kind] |-> board'[w.kind][j]]
        /\ \A j \in DOMAIN board[w.kind] : board'[w.kind][j] = board[w.kind][j]
        /\ Dense(board') /\ Grown(board, board')
    BY <2>1, <2>2, InsertFacts, Zenon
  <2> HIDE DEF ws
  <2> QED BY <1>2, <2>3
<1>5. CallOK(board, command[p], todo[p], w)
  BY DEF Inv, Calls
<1>6. /\ MayName(board, k, w.row.of) /\ w.row.blocked_by = {} /\ w.row.status = "live"
      /\ w.promotes \subseteq DOMAIN board["capture"] /\ (w.promotes # {} => k = "task") /\ todo[p] = {w}
  BY <1>3, <1>5 DEF CallOK
<1>7. ASSUME NEW v \in ws
      PROVE  /\ v \in Write /\ v.verb = "link" /\ v.kind = "capture" /\ v.row.of = i
             /\ CallOK(board', command[p], ws, v) /\ FreshCall(board', ws, v)
  <2>1. PICK c \in w.promotes : v = Relink("link", "capture", c, i)
    OBVIOUS
  <2>2. c \in Nat /\ i \in Nat /\ "capture" \in Kinds
    BY <1>4, <1>6, RowsAreIds DEF Rows, Kinds, Ids
  <2>3. v \in Write /\ v.verb = "link" /\ v.kind = "capture" /\ v.row.of = i
    BY <2>1, <2>2, RelinkFacts
  <2>4. i \in DOMAIN board'["task"]
    BY <1>4, <1>6, <2>1
  <2> QED BY <2>3, <2>4 DEF CallOK, FreshCall
<1> HIDE DEF ws
<1>8. /\ todo'[p] = ws /\ \A q \in Procs : q # p => todo'[q] = todo[q] /\ command'[q] = command[q]
      /\ ws # {} => command'[p] = command[p]
      /\ command' \in [Procs -> Names] /\ DOMAIN todo' = Procs /\ \A q \in Procs : \A v \in todo'[q] : v \in Write
      /\ deaths' = deaths /\ alone' = alone /\ IdleIsDone'
  BY <1>3, <1>7, ProceedFacts
<1>9. TypeOK'
  <2>1. \A l \in Kinds : DOMAIN board[l] \subseteq Ids /\ \A j \in DOMAIN board[l] : board[l][j] \in Row
    BY DEF Inv, TypeOK
  <2>2. ASSUME NEW l \in Kinds
        PROVE  /\ DOMAIN board'[l] \subseteq Ids
               /\ board'[l] = [j \in DOMAIN board'[l] |-> board'[l][j]]
               /\ \A j \in DOMAIN board'[l] : board'[l][j] \in Row
    <3>1. CASE l = k
      BY <1>4, <2>1, <3>1
    <3>2. CASE l # k
      BY <1>4, <2>1, <3>2 DEF Inv, TypeOK
    <3> QED BY <3>1, <3>2
  <2>3. deaths' \in Nat /\ alone' \in BOOLEAN
    BY <1>8 DEF Inv, TypeOK
  <2> QED BY <1>4, <1>8, <2>2, <2>3 DEF TypeOK
<1>10. Sound(board')
  <2>1. \A l, n : MayName(board, l, n) => MayName(board', l, n)
    BY <1>4 DEF Grown, MayName, Kinds
  <2>2. Sound(board)
    BY DEF Inv
  <2>3. ASSUME NEW l \in Kinds, NEW j \in DOMAIN board'[l] PROVE MayName(board', l, board'[l][j].of)
    <3>1. CASE l = k /\ j = i
      BY <1>4, <1>6, <2>1, <3>1
    <3>2. CASE ~(l = k /\ j = i)
      BY <1>4, <2>1, <2>2, <3>2 DEF Sound
    <3> QED BY <3>1, <3>2
  <2>4. ASSUME NEW j \in DOMAIN board'["task"] PROVE board'["task"][j].blocked_by \subseteq DOMAIN board'["task"] \ {j}
    <3>1. CASE k = "task" /\ j = i
      BY <1>4, <1>6, <3>1
    <3>2. CASE ~(k = "task" /\ j = i)
      BY <1>4, <2>2, <3>2 DEF Sound, Grown, Kinds
    <3> QED BY <3>1, <3>2
  <2> QED BY <2>3, <2>4 DEF Sound
<1>11. Calls'
  BY <1>4, <1>7, <1>8, GrownCalls DEF Inv, Calls
<1>12. Undisturbed'
  <2> SUFFICES ASSUME alone
               PROVE  /\ \A q, r \in Procs : q = r \/ todo'[q] = {} \/ todo'[r] = {}
                      /\ \A q \in Procs : \A v \in todo'[q] : FreshCall(board', todo'[q], v)
                      /\ Emptied(board')
                      /\ Single(board')
    BY <1>8 DEF Undisturbed
  <2>1. \A q \in Procs : q # p => todo'[q] = {}
    BY <1>3, <1>8, OthersIdle
  <2>2. FreshCall(board, todo[p], w) /\ Emptied(board) /\ Single(board)
    BY DEF Inv, Undisturbed
  <2>3. Single(board')
    <3>1. CASE k = "session"
      <4>1. \A j \in DOMAIN board["session"] : board["session"][j].key # w.row.key
        BY <1>3, <2>2, <3>1 DEF FreshCall
      <4> QED BY <1>4, <2>2, <3>1, <4>1 DEF Single
    <3>2. CASE k # "session"
      BY <1>4, <2>2, <3>2 DEF Single, Kinds
    <3> QED BY <3>1, <3>2
  <2>4. Emptied(board')
    <3> SUFFICES ASSUME NEW n \in DOMAIN board'["pbi"] \ LiveIn(board'), NEW l \in {"task", "requirement"},
                        NEW j \in DOMAIN board'[l], board'[l][j].of = n
                 PROVE  FALSE
      BY DEF Emptied, Holds
    <3>1. n \in DOMAIN board["pbi"] /\ n \notin LiveIn(board)
      BY <1>4, <1>6 DEF LiveIn, Kinds
    <3>2. n # 0
      BY <3>1, RowsAreIds DEF Rows, Kinds, Ids
    <3>3. CASE l = k /\ j = i
      <4>1. w.row.of \in {0} \cup LiveIn(board)
        BY <1>3, <2>2, <3>3 DEF FreshCall
      <4> QED BY <1>4, <3>1, <3>2, <3>3, <4>1
    <3>4. CASE ~(l = k /\ j = i)
      <4>1. j \in DOMAIN board[l] /\ board[l][j].of = n
        BY <1>4, <3>4 DEF Kinds
      <4> QED BY <2>2, <3>1, <4>1 DEF Emptied, Holds, Kinds
    <3> QED BY <3>3, <3>4
  <2> QED BY <1>7, <1>8, <2>1, <2>3, <2>4
<1> QED BY <1>4, <1>8, <1>9, <1>10, <1>11, <1>12 DEF Inv

\* A step of CutShort keeps Inv.
LEMMA CutShortKeeps == ASSUME Inv, NEW p \in Procs, CutShort(p) PROVE Inv'
<1>1. /\ deaths' = deaths + 1 /\ command' = [command EXCEPT ![p] = "none"] /\ todo' = [todo EXCEPT ![p] = {}]
      /\ UNCHANGED <<board, alone>>
  BY DEF CutShort
<1>2. command \in [Procs -> Names] /\ DOMAIN todo = Procs /\ "none" \in Names
  BY DEF Inv, TypeOK, Names
<1>3. /\ todo'[p] = {} /\ \A q \in Procs : q # p => todo'[q] = todo[q] /\ command'[q] = command[q]
      /\ command' \in [Procs -> Names] /\ DOMAIN todo' = Procs
  BY <1>1, <1>2
<1>4. TypeOK'
  BY <1>1, <1>3 DEF Inv, TypeOK
<1>5. Calls'
  BY <1>1, <1>3 DEF Inv, Calls
<1>6. Undisturbed'
  BY <1>1, <1>3 DEF Inv, Undisturbed
<1>7. IdleIsDone'
  BY <1>3 DEF Inv, IdleIsDone, Idle
<1> QED BY <1>1, <1>4, <1>5, <1>6, <1>7 DEF Inv

\* A row is changed.
LEMMA ChangeFacts ==
  ASSUME Inv, NEW p \in Procs, NEW w \in todo[p], w.verb \in {"set", "link", "unlink"},
         board' = [board EXCEPT ![w.kind] =
                    [j \in DOMAIN board[w.kind] |-> IF j = w.id THEN Changed(board[w.kind][j], w) ELSE board[w.kind][j]]]
  PROVE  /\ w \in Write /\ w.kind \in Kinds /\ w.row \in Row
         /\ w.verb = "link" => w.row.of \in Ids
         /\ DOMAIN board' = Kinds
         /\ \A k \in Kinds : DOMAIN board'[k] = DOMAIN board[k]
         /\ \A k \in Kinds : k # w.kind => board'[k] = board[k]
         /\ board'[w.kind] = [j \in DOMAIN board'[w.kind] |-> board'[w.kind][j]]
         /\ \A j \in DOMAIN board[w.kind] : j # w.id => board'[w.kind][j] = board[w.kind][j]
         /\ w.id \in DOMAIN board[w.kind] => board'[w.kind][w.id] = Changed(board[w.kind][w.id], w)
         /\ Dense(board') /\ Grown(board, board')
<1> DEFINE k == w.kind
           t == [j \in DOMAIN board[k] |-> IF j = w.id THEN Changed(board[k][j], w) ELSE board[k][j]]
<1>1. w \in Write /\ k \in Kinds /\ w.row \in Row
  BY DEF Inv, TypeOK, Write
<1>2. DOMAIN board = Kinds
  BY DEF Inv, TypeOK
<1>3. DOMAIN board' = Kinds /\ board'[k] = t /\ \A l \in Kinds : l # k => board'[l] = board[l]
  <2>1. board' = [board EXCEPT ![k] = t]
    OBVIOUS
  <2> HIDE DEF t
  <2> QED BY <1>1, <1>2, <2>1
<1>4. board'[k] = [j \in DOMAIN board'[k] |-> board'[k][j]]
  BY <1>3
<1>5. /\ DOMAIN t = DOMAIN board[k]
      /\ \A j \in DOMAIN board[k] : j # w.id => t[j] = board[k][j]
      /\ w.id \in DOMAIN board[k] => t[w.id] = Changed(board[k][w.id], w)
  OBVIOUS
<1> HIDE DEF t
<1>6. \A l \in Kinds : DOMAIN board'[l] = DOMAIN board[l]
  BY <1>3, <1>5
<1>7. Dense(board') /\ Grown(board, board')
  BY <1>6 DEF Inv, Dense, Grown
<1>8. w.verb = "link" => w.row.of \in Ids
  <2>1. w.verb = "link" => w.row.of \in DOMAIN board["task"] /\ "task" \in Kinds
    BY DEF Inv, Calls, CallOK, Kinds
  <2> QED BY <2>1, RowsAreIds DEF Rows
<1> QED BY <1>1, <1>3, <1>4, <1>5, <1>6, <1>7, <1>8

\* A step of Change keeps Inv.
LEMMA ChangeKeeps == ASSUME Inv, NEW p \in Procs, Change(p) PROVE Inv'
<1>1. PICK w \in todo[p] :
        /\ w.verb \in {"set", "link", "unlink"}
        /\ \A v \in todo[p] : v = w \/ Precedes(w, v)
        /\ board' = [board EXCEPT ![w.kind] =
             [j \in DOMAIN @ |-> IF j = w.id THEN Changed(@[j], w) ELSE @[j]]]
        /\ Proceed(p, todo[p] \ {w})
  BY DEF Change
<1> DEFINE k == w.kind
           ws == todo[p] \ {w}
<1>2. /\ w \in Write /\ k \in Kinds /\ w.row \in Row
      /\ w.verb = "link" => w.row.of \in Ids
      /\ DOMAIN board' = Kinds
      /\ \A l \in Kinds : DOMAIN board'[l] = DOMAIN board[l]
      /\ \A l \in Kinds : l # k => board'[l] = board[l]
      /\ board'[k] = [j \in DOMAIN board'[k] |-> board'[k][j]]
      /\ \A j \in DOMAIN board[k] : j # w.id => board'[k][j] = board[k][j]
      /\ w.id \in DOMAIN board[k] => board'[k][w.id] = Changed(board[k][w.id], w)
      /\ Dense(board') /\ Grown(board, board')
  <2>1. board' = [board EXCEPT ![k] = [j \in DOMAIN board[k] |-> IF j = w.id THEN Changed(board[k][j], w) ELSE board[k][j]]]
    BY <1>1
  <2> QED BY <1>1, <2>1, ChangeFacts, Zenon
<1>3. CallOK(board, command[p], todo[p], w) /\ \A v \in todo[p] : v \in Write /\ CallOK(board, command[p], todo[p], v)
  BY DEF Inv, Calls, TypeOK
<1>4. /\ todo'[p] = ws /\ \A q \in Procs : q # p => todo'[q] = todo[q] /\ command'[q] = command[q]
      /\ ws # {} => command'[p] = command[p]
      /\ command' \in [Procs -> Names] /\ DOMAIN todo' = Procs /\ \A q \in Procs : \A v \in todo'[q] : v \in Write
      /\ deaths' = deaths /\ alone' = alone /\ IdleIsDone'
  <2>1. Proceed(p, ws) /\ todo[p] # {}
    BY <1>1
  <2> HIDE DEF ws
  <2>2. \A v \in ws : v \in Write
    BY <1>3 DEF ws
  <2> QED BY <2>1, <2>2, ProceedFacts
\* The row that is changed, before and after.
<1> DEFINE old == board[k][w.id]
           new == board'[k][w.id]
<1>5. ASSUME w.id \in DOMAIN board[k]
      PROVE  /\ old \in Row /\ new \in Row
             /\ w.verb = "set" => new = Overwritten(old, w)
             /\ w.verb = "link" /\ k = "task" => new.of = old.of /\ new.blocked_by = old.blocked_by \cup {w.row.of} /\ new.status = old.status
             /\ w.verb = "link" /\ k # "task" => new.of = w.row.of /\ new.blocked_by = old.blocked_by /\ new.status = old.status
             /\ w.verb = "unlink" => new.of \in {0, old.of} /\ new.blocked_by = old.blocked_by /\ new.status = old.status
  <2>1. old \in Row
    BY <1>2, <1>5 DEF Inv, TypeOK
  <2>2. new = Changed(old, w)
    BY <1>2, <1>5
  <2> HIDE DEF old, new
  <2> QED BY <1>1, <1>2, <2>1, <2>2, ChangedFacts
<1>6. TypeOK'
  <2>1. ASSUME NEW l \in Kinds
        PROVE  /\ DOMAIN board'[l] \subseteq Ids
               /\ board'[l] = [j \in DOMAIN board'[l] |-> board'[l][j]]
               /\ \A j \in DOMAIN board'[l] : board'[l][j] \in Row
    <3>1. CASE l = k
      BY <1>2, <1>5, <3>1 DEF Inv, TypeOK
    <3>2. CASE l # k
      BY <1>2, <3>2 DEF Inv, TypeOK
    <3> QED BY <3>1, <3>2
  <2>2. deaths' \in Nat /\ alone' \in BOOLEAN
    BY <1>4 DEF Inv, TypeOK
  <2> QED BY <1>2, <1>4, <2>1, <2>2 DEF TypeOK
<1>7. Sound(board')
  <2>1. Sound(board) /\ \A l, n : MayName(board, l, n) => MayName(board', l, n)
    BY <1>2 DEF Inv, MayName, Kinds
  <2>2. ASSUME w.id \in DOMAIN board[k] PROVE MayName(board, k, new.of)
    <3>1. MayName(board, k, old.of) /\ MayName(board, k, 0)
      BY <1>2, <2>1, <2>2 DEF Sound, MayName
    <3>2. CASE w.verb = "set"
      <4>1. new.of = IF "of" \in w.fields THEN w.row.of ELSE old.of
        BY <1>5, <2>2, <3>2 DEF Overwritten
      <4> QED BY <1>3, <3>1, <3>2, <4>1 DEF CallOK
    <3>3. CASE w.verb = "link"
      BY <1>3, <1>5, <2>2, <3>1, <3>3 DEF CallOK, MayName
    <3>4. CASE w.verb = "unlink"
      BY <1>5, <2>2, <3>1, <3>4
    <3> QED BY <1>1, <3>2, <3>3, <3>4
  <2>3. ASSUME w.id \in DOMAIN board[k], k = "task" PROVE new.blocked_by \subseteq DOMAIN board["task"] \ {w.id}
    <3>1. old.blocked_by \subseteq DOMAIN board["task"] \ {w.id}
      BY <2>1, <2>3 DEF Sound
    <3>2. w.verb = "set" => new.blocked_by = old.blocked_by
      BY <1>5, <2>3 DEF Overwritten
    <3> QED BY <1>1, <1>3, <1>5, <2>3, <3>1, <3>2 DEF CallOK
  <2>4. ASSUME NEW l \in Kinds, NEW j \in DOMAIN board'[l] PROVE MayName(board', l, board'[l][j].of)
    <3>1. CASE l = k /\ j = w.id
      BY <1>2, <2>1, <2>2, <3>1
    <3>2. CASE ~(l = k /\ j = w.id)
      BY <1>2, <2>1, <3>2 DEF Sound
    <3> QED BY <3>1, <3>2
  <2>5. ASSUME NEW j \in DOMAIN board'["task"] PROVE board'["task"][j].blocked_by \subseteq DOMAIN board'["task"] \ {j}
    <3>1. CASE k = "task" /\ j = w.id
      BY <1>2, <2>3, <3>1
    <3>2. CASE ~(k = "task" /\ j = w.id)
      BY <1>2, <2>1, <3>2 DEF Sound, Kinds
    <3> QED BY <3>1, <3>2
  <2> QED BY <2>4, <2>5 DEF Sound
<1>8. Calls'
  <2>1. ASSUME NEW v \in ws PROVE CallOK(board', command[p], ws, v)
    <3>1. CallOK(board', command[p], todo[p], v)
      BY <1>2, <1>3, GrownCalls
    <3>2. todo[p] = {v} => ws = {}
      OBVIOUS
    <3> QED BY <3>1, <3>2 DEF CallOK
  <2>2. ASSUME NEW q \in Procs, q # p, NEW v \in todo[q] PROVE CallOK(board', command[q], todo[q], v)
    BY <1>2, <2>2, GrownCalls DEF Inv, Calls
  <2> HIDE DEF ws
  <2> QED BY <1>4, <2>1, <2>2 DEF Calls
<1>9. Undisturbed'
  <2> SUFFICES ASSUME alone
               PROVE  /\ \A q, r \in Procs : q = r \/ todo'[q] = {} \/ todo'[r] = {}
                      /\ \A q \in Procs : \A v \in todo'[q] : FreshCall(board', todo'[q], v)
                      /\ Emptied(board')
                      /\ Single(board')
    BY <1>4 DEF Undisturbed
  <2>1. \A q \in Procs : q # p => todo'[q] = {}
    BY <1>1, <1>4, OthersIdle
  <2>2. Emptied(board) /\ Single(board) /\ \A v \in todo[p] : FreshCall(board, todo[p], v)
    BY DEF Inv, Undisturbed
  <2>3. Single(board')
    <3>1. CASE k = "session"
      <4>1. w.verb = "set" /\ w.fields = {"key"} /\ w.id \in DOMAIN board[k] /\ old.key = w.row.key
        BY <1>1, <1>3, <2>2, <3>1 DEF CallOK, FreshCall
      <4>2. new.key = old.key
        BY <1>5, <4>1 DEF Overwritten
      <4>3. \A j \in DOMAIN board["session"] : board'["session"][j].key = board["session"][j].key
        BY <1>2, <3>1, <4>2
      <4> QED BY <1>2, <2>2, <3>1, <4>3 DEF Single
    <3>2. CASE k # "session"
      BY <1>2, <2>2, <3>2 DEF Single, Kinds
    <3> QED BY <3>1, <3>2
\* A PBI is retired by the last call of its command.
  <2>4. CASE k = "pbi"
    <3>1. w.verb = "set" /\ w.fields = {"status"} /\ w.row.status = "removed"
      BY <1>1, <1>3, <2>4 DEF CallOK
    <3>2. ws = {}
      <4> SUFFICES ASSUME NEW v \in todo[p], v # w PROVE FALSE
        OBVIOUS
      <4>1. v.kind \in {"task", "requirement"}
        BY <1>3, <2>4, <3>1 DEF CallOK, Detaches
      <4>2. Precedes(w, v)
        BY <1>1
      <4> QED BY <2>4, <4>1, <4>2 DEF Precedes
    <3>3. ASSUME NEW l \in Kinds, NEW i \in DOMAIN board[l] PROVE ~Holds(board, w.id, l, i)
      <4>1. \A v \in todo[p] : ~Detaches(v, l, i)
        <5>1. todo[p] = {w}
          BY <3>2
        <5> QED BY <3>1, <5>1 DEF Detaches
      <4> QED BY <2>2, <2>4, <3>1, <4>1 DEF FreshCall
    <3>4. Emptied(board')
      <4> SUFFICES ASSUME NEW n \in DOMAIN board'["pbi"] \ LiveIn(board'), NEW l \in {"task", "requirement"},
                          NEW i \in DOMAIN board'[l], board'[l][i].of = n
                   PROVE  FALSE
        BY DEF Emptied, Holds
      <4>1. l \in Kinds /\ board'[l] = board[l] /\ "pbi" \in Kinds
        BY <1>2, <2>4 DEF Kinds
      <4>2. Holds(board, n, l, i)
        BY <4>1 DEF Holds
      <4>3. n # w.id
        BY <3>3, <4>1, <4>2
      <4>4. n \in DOMAIN board["pbi"] /\ n \notin LiveIn(board)
        BY <1>2, <2>4, <4>1, <4>3 DEF LiveIn
      <4> QED BY <2>2, <4>1, <4>2, <4>4 DEF Emptied
    <3> QED BY <1>4, <2>1, <2>3, <3>2, <3>4
  <2>5. CASE k # "pbi"
    <3>1. board'["pbi"] = board["pbi"] /\ LiveIn(board') = LiveIn(board)
      BY <1>2, <2>5 DEF LiveIn, Kinds
\* The row that is changed is put under a PBI that is there, or under none.
    <3>2. ASSUME w.id \in DOMAIN board[k], k \in {"task", "requirement"}
          PROVE  new.of = old.of \/ new.of \in {0} \cup LiveIn(board)
      <4>1. w.verb \in {"set", "link"} /\ (w.verb = "link" => k = "task")
        BY <1>1, <1>3, <3>2 DEF CallOK
      <4>2. CASE w.verb = "set"
        <5>1. new.of = IF "of" \in w.fields THEN w.row.of ELSE old.of
          BY <1>5, <3>2, <4>2 DEF Overwritten
        <5> QED BY <2>2, <3>2, <4>2, <5>1 DEF FreshCall
      <4>3. CASE w.verb = "link"
        BY <1>5, <3>2, <4>1, <4>3
      <4> QED BY <4>1, <4>2, <4>3
    <3>3. Emptied(board')
      <4> SUFFICES ASSUME NEW n \in DOMAIN board'["pbi"] \ LiveIn(board'), NEW l \in {"task", "requirement"},
                          NEW i \in DOMAIN board'[l], board'[l][i].of = n
                   PROVE  FALSE
        BY DEF Emptied, Holds
      <4>1. l \in Kinds /\ n \in DOMAIN board["pbi"] \ LiveIn(board) /\ i \in DOMAIN board[l]
        BY <1>2, <3>1 DEF Kinds
      <4>2. n # 0
        BY <4>1, RowsAreIds DEF Rows, Kinds, Ids
      <4>3. board[l][i].of = n
        BY <1>2, <3>2, <4>1, <4>2
      <4> QED BY <2>2, <4>1, <4>3 DEF Emptied, Holds
    <3>4. ASSUME NEW v \in ws PROVE FreshCall(board', ws, v)
      <4>1. v \in todo[p] /\ FreshCall(board, todo[p], v) /\ CallOK(board, command[p], todo[p], v)
        BY <1>3, <2>2
      <4>2. v.verb = "add" => todo[p] = {v}
        BY <4>1 DEF CallOK
      <4>3. v.verb = "set" /\ v.kind = "session" => todo[p] = {v}
        BY <4>1 DEF CallOK
      <4>4. v.verb # "add" /\ ~(v.verb = "set" /\ v.kind = "session")
        BY <4>2, <4>3
\* What is left of a pbi remove detaches all that the PBI still holds.
      <4>5. ASSUME v.verb = "set", v.kind = "pbi", NEW l \in Kinds, NEW i \in DOMAIN board'[l], Holds(board', v.id, l, i)
            PROVE  \E u \in ws : Detaches(u, l, i)
        <5>1. v.id \in DOMAIN board["pbi"] /\ v.id # 0
          BY <4>1, <4>5, RowsAreIds DEF CallOK, Rows, Kinds, Ids
        <5>2. w.verb = "set" /\ k \in {"task", "requirement"} /\ w.fields = {"of"} /\ w.row.of = 0
          BY <4>1, <4>5 DEF CallOK, Detaches
        <5>3. w.id \in DOMAIN board[k] => new.of = 0
          BY <1>5, <5>2 DEF Overwritten
        <5>4. l \in Kinds /\ i \in DOMAIN board[l] /\ board'[l][i].of = v.id /\ l \in {"task", "requirement"}
          BY <1>2, <4>5 DEF Holds
        <5>5. ~(l = k /\ i = w.id)
          BY <5>1, <5>3, <5>4
        <5>6. Holds(board, v.id, l, i)
          BY <1>2, <5>4, <5>5 DEF Holds
        <5>7. PICK u \in todo[p] : Detaches(u, l, i)
          BY <4>1, <4>5, <5>4, <5>6 DEF FreshCall
        <5>8. u # w
          BY <5>5, <5>7 DEF Detaches
        <5> QED BY <5>7, <5>8
      <4> QED BY <3>1, <4>1, <4>4, <4>5 DEF FreshCall
    <3> HIDE DEF ws
    <3> QED BY <1>4, <2>1, <2>3, <3>3, <3>4
  <2> QED BY <2>4, <2>5
<1> QED BY <1>2, <1>4, <1>6, <1>7, <1>8, <1>9 DEF Inv
-----------------------------------------------------------------------------
\* Every step of a command, or of the log under it, keeps the invariant.
LEMMA StepInv == Inv /\ [Next]_vars => Inv'
<1> SUFFICES ASSUME Inv, [Next]_vars PROVE Inv'
  OBVIOUS
<1>1. CASE UNCHANGED vars
  BY <1>1, StutterInv
<1>2. ASSUME NEW p \in Procs,
             \/ PbiAdd(p) \/ PbiRemove(p)
             \/ TaskAdd(p) \/ TaskSet(p) \/ TaskLink(p)
             \/ NoteAdd(p) \/ NoteLink(p) \/ CaptureUnlink(p)
             \/ RequirementAdd(p) \/ RequirementModify(p) \/ RequirementRemove(p)
             \/ SessionRecord(p)
             \/ Upsert(p) \/ Insert(p) \/ Change(p)
             \/ CutShort(p)
      PROVE  Inv'
  BY <1>2, PbiAddKeeps, PbiRemoveKeeps, TaskAddKeeps, TaskSetKeeps, TaskLinkKeeps, NoteAddKeeps, NoteLinkKeeps,
     CaptureUnlinkKeeps, RequirementAddKeeps, RequirementModifyKeeps, RequirementRemoveKeeps, SessionRecordKeeps,
     UpsertKeeps, InsertKeeps, ChangeKeeps, CutShortKeeps, Zenon
<1> QED BY <1>1, <1>2, Zenon DEF Next

\* The inductive invariant holds in every reachable state.
LEMMA Invariant == Spec => []Inv
BY InitInv, StepInv, PTL DEF Spec

\* Rows, and the calls that commands have still to make, are what they are taken for.
THEOREM TypeCorrect == Spec => []TypeOK
<1>1. Inv => TypeOK
  BY DEF Inv
<1> QED BY <1>1, Invariant, PTL

\* Whatever commands run at once and wherever they are cut short, no row names
\* a row that is not there.
THEOREM NothingDangles == Spec => []NoDanglingReference
<1>1. Inv => NoDanglingReference
  BY DEF Inv, Sound, MayName, NoDanglingReference, References, Rows, Kinds
<1> QED BY <1>1, Invariant, PTL

\* While commands run one at a time no row names a removed PBI, also after a
\* pbi remove that was cut short.
THEOREM RetiredAreEmpty == Spec => []RetiredPbisAreEmpty
<1>1. Inv => RetiredPbisAreEmpty
  <2> SUFFICES ASSUME Inv, alone, NEW n \in Rows("pbi") \ LivePbis, NEW x \in Held(n) PROVE FALSE
    BY DEF RetiredPbisAreEmpty
  <2>1. Emptied(board)
    BY DEF Inv, Undisturbed
  <2>2. n \in DOMAIN board["pbi"] \ LiveIn(board)
    BY LiveFacts DEF Rows
  <2>3. Holds(board, n, x[1], x[2])
    BY HeldFacts
  <2> QED BY <2>1, <2>2, <2>3 DEF Emptied, Holds, Kinds
<1> QED BY <1>1, Invariant, PTL

\* While commands run one at a time no transcript gets a second session row.
THEOREM TranscriptsOnce == Spec => []OneSessionPerTranscript
<1>1. Inv => OneSessionPerTranscript
  BY DEF Inv, Undisturbed, Single, OneSessionPerTranscript, Rows
<1> QED BY <1>1, Invariant, PTL

\* A step that takes its PBI from a task is a call of pbi remove --force.
LEMMA DetachingStep ==
  ASSUME Inv, [Next]_vars, NEW i \in Rows("task"), board["task"][i].of # 0, board'["task"][i].of = 0
  PROVE  \E p \in Procs : command[p] = "pbi_remove_force" /\ todo'[p] # todo[p]
<1>1. ASSUME board' = board PROVE FALSE
  BY <1>1
<1>2. PICK p \in Procs : Insert(p) \/ Change(p)
  BY <1>1 DEF Next, vars, PbiAdd, PbiRemove, TaskAdd, TaskSet, TaskLink, NoteAdd, NoteLink, CaptureUnlink,
     RequirementAdd, RequirementModify, RequirementRemove, SessionRecord, Begin, Upsert, CutShort
<1>3. "task" \in Kinds /\ i \in DOMAIN board["task"]
  BY DEF Rows, Kinds
<1>4. ASSUME Insert(p) PROVE FALSE
  <2>1. PICK w \in todo[p] :
          /\ w.verb = "add"
          /\ board' = [board EXCEPT ![w.kind] =
                        [j \in DOMAIN board[w.kind] \cup {Fresh(w.kind)} |->
                           IF j = Fresh(w.kind) THEN w.row ELSE board[w.kind][j]]]
    BY <1>4 DEF Insert
  <2>2. /\ \A l \in Kinds : l # w.kind => board'[l] = board[l]
        /\ \A j \in DOMAIN board[w.kind] : board'[w.kind][j] = board[w.kind][j]
    BY <2>1, InsertFacts, Zenon
  <2> QED BY <1>3, <2>2
<1>5. ASSUME Change(p) PROVE command[p] = "pbi_remove_force" /\ todo'[p] # todo[p]
  <2>1. PICK w \in todo[p] :
          /\ w.verb \in {"set", "link", "unlink"}
          /\ board' = [board EXCEPT ![w.kind] =
                        [j \in DOMAIN board[w.kind] |-> IF j = w.id THEN Changed(board[w.kind][j], w) ELSE board[w.kind][j]]]
          /\ Proceed(p, todo[p] \ {w})
    BY <1>5 DEF Change
  <2>2. /\ w \in Write
        /\ w.verb = "link" => w.row.of \in Ids
        /\ \A k \in Kinds : k # w.kind => board'[k] = board[k]
        /\ \A j \in DOMAIN board[w.kind] : j # w.id => board'[w.kind][j] = board[w.kind][j]
        /\ w.id \in DOMAIN board[w.kind] => board'[w.kind][w.id] = Changed(board[w.kind][w.id], w)
    BY <2>1, ChangeFacts, Zenon
  <2>3. w.kind = "task" /\ w.id = i
    BY <1>3, <2>2
  <2>4. board["task"][i] \in Row /\ board'["task"][i] = Changed(board["task"][i], w)
    BY <1>3, <2>2, <2>3, RowFacts
  <2>5. CallOK(board, command[p], todo[p], w)
    BY DEF Inv, Calls
  <2>6. w.verb = "set" /\ w.fields = {"of"}
    <3>1. w.verb # "unlink"
      BY <2>3, <2>5 DEF CallOK
    <3>2. w.verb # "link"
      BY <2>2, <2>3, <2>4, ChangedFacts
    <3> QED BY <2>1, <2>3, <2>5, <3>1, <3>2 DEF CallOK
  <2>7. w.row.of = 0
    BY <2>2, <2>4, <2>6, ChangedFacts DEF Overwritten
  <2>8. todo'[p] = todo[p] \ {w}
    BY <2>1 DEF Proceed, Inv, TypeOK
  <2> QED BY <2>3, <2>5, <2>6, <2>7, <2>8 DEF CallOK
<1> QED BY <1>2, <1>4, <1>5

\* Whatever was read before and written since, a task loses its PBI only to a
\* pbi remove --force.
THEOREM DetachedOnlyByForce == Spec => TasksDetachedOnlyByForce
<1>1. Inv /\ [Next]_vars =>
        [\A i \in Rows("task") :
           board["task"][i].of # 0 /\ board'["task"][i].of = 0
           => \E p \in Procs : command[p] = "pbi_remove_force" /\ todo'[p] # todo[p]]_vars
  BY DetachingStep
<1> QED BY <1>1, Invariant, PTL DEF Spec, TasksDetachedOnlyByForce
=============================================================================

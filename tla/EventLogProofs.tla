--------------------------- MODULE EventLogProofs ---------------------------
(***************************************************************************)
(* Proofs about the event log, for any number of processes, entities, ids  *)
(* and kills.  Typing, the use of the lock, and that no row of the log is  *)
(* lost and no id of the log given out again need no assumption.  That the *)
(* log stays readable, that claims are won once and that the store         *)
(* implements Board is proved for a board that no git operation rolls back,*)
(* no write tears and no migration runs against; LogTorn shows that a torn *)
(* write does break the first.                                             *)
(***************************************************************************)
EXTENDS EventLog, TLAPS

\* The phases in which a process is between the two ends of `with exclusive`.
InLock == {"read_ids", "put_ids", "got_id", "read", "write", "writing", "leave",
           "boot_check", "boot_log", "boot_ids", "boot_leave"}
-----------------------------------------------------------------------------
(* Rows and events *)

\* Whatever an event does to a row, it is a row.
LEMMA ChangedType ==
  ASSUME NEW row \in Row, NEW e \in Event
  PROVE  Changed(row, e) \in Row
<1> USE DEF Row, Event, Verbs
<1>1. CASE e.verb = "set"
  BY <1>1 DEF Changed
<1>2. CASE e.verb = "link"
  BY <1>2 DEF Changed, Relinked
<1>3. CASE e.verb = "unlink"
  BY <1>3 DEF Changed, Relinked
<1>4. CASE e.verb = "claim"
  BY <1>4 DEF Changed
<1>5. CASE e.verb = "release"
  BY <1>5 DEF Changed
<1>6. CASE e.verb = "add"
  BY <1>6 DEF Changed
<1> QED BY <1>1, <1>2, <1>3, <1>4, <1>5, <1>6

\* Putting a row in a table gives a table.
LEMMA PutType ==
  ASSUME NEW t, IsTable(t), NEW i \in Ids, NEW row \in Row
  PROVE  IsTable(Put(t, i, row))
  BY DEF IsTable, Put

\* Folding an event into a board gives a board.
LEMMA ApplyType ==
  ASSUME NEW b, IsBoard(b), NEW e \in Event, e.id \in Ids
  PROVE  IsBoard(Apply(b, e))
<1>1. e.kind \in Kinds /\ e.data \in Data /\ e.initial \in SUBSET Ids /\ e.verb \in Verbs
  BY DEF Event
<1>2. IsTable(b[e.kind])
  BY <1>1 DEF IsBoard
<1> DEFINE row == IF e.verb = "add" THEN NewRow(e.data, e.initial) ELSE Changed(b[e.kind][e.id], e)
<1>3. NewRow(e.data, e.initial) \in Row
  BY <1>1 DEF NewRow, Row
<1>4. CASE e.verb = "add" \/ e.id \in DOMAIN b[e.kind]
  <2>1. row \in Row
    BY <1>2, <1>3, <1>4, ChangedType DEF IsTable
  <2>2. IsTable(Put(b[e.kind], e.id, row))
    BY <1>2, <2>1, PutType
  <2>3. Apply(b, e) = [b EXCEPT ![e.kind] = Put(b[e.kind], e.id, row)]
    BY <1>4 DEF Apply
  <2> HIDE DEF row
  <2> QED BY <1>1, <2>2, <2>3 DEF IsBoard
<1>5. CASE ~(e.verb = "add" \/ e.id \in DOMAIN b[e.kind])
  BY <1>5 DEF Apply
<1> QED BY <1>4, <1>5

\* Only a create adds an id, and it adds its own.
LEMMA ApplyDomain ==
  ASSUME NEW b, IsBoard(b), NEW e \in Event, NEW k \in Kinds
  PROVE  DOMAIN Apply(b, e)[k] =
           IF e.verb = "add" /\ k = e.kind THEN DOMAIN b[k] \cup {e.id} ELSE DOMAIN b[k]
  BY DEF Apply, Put, IsBoard, Event

\* Only an event about it changes a row.
LEMMA ApplyOther ==
  ASSUME NEW b, IsBoard(b), NEW e \in Event, NEW k \in Kinds, NEW i \in DOMAIN b[k],
         k # e.kind \/ i # e.id
  PROVE  Apply(b, e)[k][i] = b[k][i]
  BY DEF Apply, Put, IsBoard, Event

\* What an event does to its own row.
LEMMA ApplySame ==
  ASSUME NEW b, IsBoard(b), NEW e \in Event, e.verb # "add", e.id \in DOMAIN b[e.kind]
  PROVE  Apply(b, e)[e.kind][e.id] = Changed(b[e.kind][e.id], e)
  BY DEF Apply, Put, IsBoard, Event
-----------------------------------------------------------------------------
(* Typing *)

\* The empty board is a board.
LEMMA EmptyBoardType == IsBoard(EmptyBoard)
  BY DEF EmptyBoard, EmptyTable, IsBoard, IsTable

\* A seeded table is a table and its floor is a number.
LEMMA SeededType ==
  ASSUME NEW k \in Kinds
  PROVE  IsTable(Seeded(k)) /\ SeedFloor(k) \in Nat
<1>1. \E h \in {0} \cup Seed[k] : \A i \in Seed[k] : i <= h
  BY LogAssumption
<1>2. SeedFloor(k) \in {0} \cup Seed[k]
  BY <1>1 DEF SeedFloor
<1>3. Seed[k] \subseteq Ids
  BY LogAssumption
<1>4. (CHOOSE d \in Data : TRUE) \in Data
  BY RowsAssumption
<1>5. IsTable(Seeded(k))
  BY <1>3, <1>4 DEF IsTable, Seeded, NewRow, Row
<1> QED BY <1>2, <1>3, <1>5 DEF Ids

\* The parts of TypeOK that a step of a call, but not the append, touches.
LEMMA CallStepType ==
  ASSUME TypeOK, NEW p \in Procs,
         \/ Call(p) \/ Enter(p) \/ GiveUp(p) \/ Leave(p) \/ Read(p)
         \/ BootCall(p) \/ BootCheck(p)
  PROVE  TypeOK'
<1> USE LogAssumption DEF TypeOK, Goto, logVars, callVars, Calling, Booting
<1>1. CASE Call(p)
  <2> PICK verb \in Verbs, k \in Kinds, d \in Data, i \in Targets, n \in Targets, links \in SUBSET Targets :
        /\ Valid(verb, k)
        /\ verb \in {"link", "unlink"} \/ n = i
        /\ links # {} => verb = "add" /\ Shape[k] = "one" /\ links = {n}
        /\ op' = [op EXCEPT ![p] = [verb |-> verb, kind |-> k, id |-> IF verb = "add" THEN 0 ELSE i,
                                    data |-> d, initial |-> links, target |-> n, agent |-> p]]
        /\ Goto(p, IF verb = "add" THEN "want_id" ELSE "want")
        /\ IF verb = "add" THEN Uses("adds", MaxAdds) ELSE UNCHANGED used
    BY <1>1 DEF Call
  <2>1. [verb |-> verb, kind |-> k, id |-> IF verb = "add" THEN 0 ELSE i,
         data |-> d, initial |-> links, target |-> n, agent |-> p] \in Event
    BY DEF Event, Ids
  <2>2. used' \in [Bounded -> Nat]
    BY DEF Uses, Bounded
  <2>3. UNCHANGED <<inside, next, issued, logVars, counts>>
    BY <1>1 DEF Call
  <2> QED BY <2>1, <2>2, <2>3
<1>2. CASE Enter(p)
  BY <1>2 DEF Enter, Mutex!Enter
<1>3. CASE GiveUp(p)
  BY <1>3 DEF GiveUp
<1>4. CASE Leave(p)
  BY <1>4 DEF Leave, Mutex!Leave
<1>5. CASE Read(p)
  BY <1>5 DEF Read
<1>6. CASE BootCall(p) \/ BootCheck(p)
  BY <1>6 DEF BootCall, BootCheck
<1> QED BY <1>1, <1>2, <1>3, <1>4, <1>5, <1>6

\* An allocated id is one more than the highest in the log, or the counter's.
LEMMA ReadIdsType ==
  ASSUME TypeOK, NEW p \in Procs, ReadIds(p)
  PROVE  TypeOK' /\ (pc'[p] = "put_ids" => op'[p].id \in Ids)
<1> USE DEF TypeOK, Goto, logVars, Calling, Booting
<1>1. pc[p] = "read_ids" /\ op[p] \in Event /\ op[p].kind \in Kinds
  BY DEF ReadIds, Event
<1>2. CASE corrupt
  BY <1>2 DEF ReadIds
<1>3. CASE ~corrupt
  <2> DEFINE k == op[p].kind
  <2>1. PICK highest \in {0} \cup DOMAIN board[k] :
          /\ \A i \in DOMAIN board[k] : i <= highest
          /\ op' = [op EXCEPT ![p].id = Allocated(next[k], highest)]
          /\ counts' = [counts EXCEPT ![p] = next]
          /\ Goto(p, "put_ids")
    BY <1>3 DEF ReadIds
  <2>2. highest \in Nat /\ next[k] \in Nat
    BY <1>1 DEF IsBoard, IsTable, Ids
  <2> DEFINE id == IF next[k] <= highest THEN highest + 1 ELSE next[k]
  <2>3. id \in Ids
    BY <2>2 DEF Ids
  <2> HIDE DEF id
  <2>4. [op[p] EXCEPT !.id = id] \in Event
    BY <1>1, <2>3 DEF Event, Ids
  <2>5. op' = [op EXCEPT ![p] = [op[p] EXCEPT !.id = id]]
    BY <2>1 DEF id, Allocated
  <2>6. op'[p].id = id
    BY <1>1, <2>5 DEF Event
  <2>7. UNCHANGED <<inside, next, issued, used, logVars>>
    BY DEF ReadIds
  <2>8. /\ op' \in [Procs -> Event \cup {NoEvent}]
        /\ \A q \in Procs : op[q] \in Event => op'[q] \in Event
    BY <2>4, <2>5
  <2>9. counts' = [counts EXCEPT ![p] = next] /\ pc' = [pc EXCEPT ![p] = "put_ids"]
    BY <2>1
  <2>10. /\ pc' \in [Procs -> {"idle"} \cup Calling \cup Booting]
         /\ counts' \in [Procs -> [Kinds -> Nat]]
         /\ \A q \in Procs : pc'[q] \notin {"idle"} \cup Booting => op'[q] \in Event
    BY <1>1, <2>8, <2>9
  <2> QED BY <2>3, <2>6, <2>7, <2>8, <2>10
<1> QED BY <1>2, <1>3

\* Writing the id counters keeps the types.
LEMMA PutIdsType ==
  ASSUME TypeOK, NEW p \in Procs, PutIds(p)
  PROVE  TypeOK'
<1> USE DEF TypeOK, Goto, logVars, Calling, Booting, NoCounts
<1>1. op[p] \in Event /\ op[p].kind \in Kinds /\ op[p].id \in Nat
  BY DEF PutIds, Event
<1> QED BY <1>1 DEF PutIds

\* An append needs the id to be one: BeginAppend and EndAppend.
LEMMA AppendType ==
  ASSUME TypeOK, NEW p \in Procs, op[p].id \in Ids, BeginAppend(p) \/ EndAppend(p)
  PROVE  TypeOK'
<1> USE DEF TypeOK, Goto, logVars, callVars, Calling, Booting
<1>1. CASE BeginAppend(p)
  BY <1>1 DEF BeginAppend
<1>2. CASE EndAppend(p)
  <2>1. op[p] \in Event /\ op[p].agent \in Procs /\ op[p].id \in Nat
    BY <1>2 DEF EndAppend, Event
  <2>2. IsBoard(board')
    BY <1>2, <2>1, ApplyType DEF EndAppend
  <2>3. corrupt' \in BOOLEAN
    BY <1>2, Zenon DEF EndAppend
  <2>4. told' \subseteq Procs \X Nat
    BY <1>2, <2>1 DEF EndAppend
  <2>5. /\ tail' = "none"
        /\ pc' = [pc EXCEPT ![p] = "leave"]
        /\ UNCHANGED <<inside, next, issued, used, exists, op, counts>>
    BY <1>2, Zenon DEF EndAppend
  <2> QED BY <2>1, <2>2, <2>3, <2>4, <2>5
<1> QED BY <1>1, <1>2

\* The bootstrap steps keep the types.
LEMMA BootType ==
  ASSUME TypeOK, NEW p \in Procs, BootLog(p) \/ BootIds(p)
  PROVE  TypeOK'
<1> USE DEF TypeOK, Goto, logVars, callVars, Calling, Booting
<1>1. CASE BootLog(p)
  <2>1. IsBoard(board')
    BY <1>1, SeededType DEF BootLog, IsBoard
  <2> QED BY <1>1, <2>1 DEF BootLog
<1>2. CASE BootIds(p)
  <2>1. next' \in [Kinds -> Nat]
    BY <1>2, SeededType DEF BootIds
  <2> QED BY <1>2, <2>1 DEF BootIds
<1> QED BY <1>1, <1>2

\* A crash and a rollback of the working tree keep the types.
LEMMA EnvironmentType ==
  ASSUME TypeOK, (\E p \in Procs : Crash(p)) \/ Rollback
  PROVE  TypeOK'
<1> USE DEF TypeOK, Goto, logVars, callVars, Calling, Booting, NoCounts
<1>1. ASSUME NEW p \in Procs, Crash(p) PROVE TypeOK'
  <2>1. used' \in [Bounded -> Nat]
    BY <1>1 DEF Crash, Uses, Bounded
  <2> QED BY <1>1, <2>1 DEF Crash
<1>2. CASE Rollback
  <2>1. used' \in [Bounded -> Nat]
    BY <1>2 DEF Rollback, Uses, Bounded
  <2>2. next' \in [Kinds -> Nat]
    BY <1>2 DEF Rollback
  <2> QED BY <1>2, <2>1, <2>2 DEF Rollback
<1> QED BY <1>1, <1>2
-----------------------------------------------------------------------------
\* A call keeps to what it was called for, and has an id once it needs one.
CallInv ==
  \A p \in Procs : pc[p] \in Calling =>
    /\ Valid(op[p].verb, op[p].kind)
    /\ pc[p] \in {"want_id", "read_ids", "put_ids", "got_id"} => op[p].verb = "add"
    /\ pc[p] \in {"put_ids", "got_id", "want", "read", "write", "writing"} => op[p].id \in Ids

\* A process in a critical section is alone in it.
LockInv == \A p \in Procs : pc[p] \in InLock => inside = {p}

\* Every step keeps what a call in progress knows.
LEMMA CallInvStep ==
  ASSUME TypeOK, CallInv, [Next]_vars
  PROVE  CallInv'
<1> USE DEF TypeOK, CallInv, Goto, callVars, Calling, Booting
<1>1. ASSUME NEW p \in Procs, Call(p) PROVE CallInv'
  <2> PICK verb \in Verbs, k \in Kinds, d \in Data, i \in Targets, n \in Targets, links \in SUBSET Targets :
        /\ Valid(verb, k)
        /\ verb \in {"link", "unlink"} \/ n = i
        /\ links # {} => verb = "add" /\ Shape[k] = "one" /\ links = {n}
        /\ op' = [op EXCEPT ![p] = [verb |-> verb, kind |-> k, id |-> IF verb = "add" THEN 0 ELSE i,
                                    data |-> d, initial |-> links, target |-> n, agent |-> p]]
        /\ Goto(p, IF verb = "add" THEN "want_id" ELSE "want")
        /\ IF verb = "add" THEN Uses("adds", MaxAdds) ELSE UNCHANGED used
    BY <1>1 DEF Call
  <2>1. i \in Ids
    BY LogAssumption
  <2>2. op'[p].verb = verb /\ op'[p].kind = k /\ (verb # "add" => op'[p].id = i)
    OBVIOUS
  <2>3. pc'[p] = IF verb = "add" THEN "want_id" ELSE "want"
    OBVIOUS
  <2>4. \A q \in Procs : q # p => pc'[q] = pc[q] /\ op'[q] = op[q]
    OBVIOUS
  <2>5. Valid(op'[p].verb, op'[p].kind)
    BY <2>2
  <2> QED BY <2>1, <2>2, <2>3, <2>4, <2>5
<1>2. ASSUME NEW p \in Procs, Enter(p) \/ Leave(p) PROVE CallInv'
  BY <1>2 DEF Enter, Leave
<1>3. ASSUME NEW p \in Procs, ReadIds(p) PROVE CallInv'
  <2>1. pc[p] = "read_ids" /\ op[p] \in Event
    BY <1>3 DEF ReadIds
  <2>2. pc'[p] = "put_ids" => op'[p].id \in Ids
    BY <1>3, ReadIdsType
  <2>3. /\ op'[p].verb = op[p].verb /\ op'[p].kind = op[p].kind
        /\ \A q \in Procs : q # p => op'[q] = op[q]
        /\ pc' = [pc EXCEPT ![p] = "put_ids"] \/ pc' = [pc EXCEPT ![p] = "leave"]
    BY <1>3, <2>1 DEF ReadIds, Event
  <2> QED BY <2>1, <2>2, <2>3
<1>4. ASSUME NEW p \in Procs, PutIds(p) \/ Read(p) \/ BeginAppend(p) \/ EndAppend(p)
      PROVE  CallInv'
  <2>1. UNCHANGED op
    BY <1>4 DEF PutIds, Read, BeginAppend, EndAppend
  <2>2. \/ pc[p] = "put_ids" /\ pc' = [pc EXCEPT ![p] = "got_id"]
        \/ pc[p] = "read" /\ pc' = [pc EXCEPT ![p] = "write"]
        \/ pc[p] = "write" /\ pc' = [pc EXCEPT ![p] = "writing"]
        \/ pc[p] \in {"read", "writing"} /\ pc' = [pc EXCEPT ![p] = "leave"]
    BY <1>4, Zenon DEF PutIds, Read, BeginAppend, EndAppend
  <2> QED BY <2>1, <2>2
<1>5. ASSUME NEW p \in Procs,
             BootCall(p) \/ BootCheck(p) \/ BootLog(p) \/ BootIds(p) \/ GiveUp(p) \/ Crash(p)
      PROVE  CallInv'
  BY <1>5 DEF BootCall, BootCheck, BootLog, BootIds, GiveUp, Crash
<1>6. CASE Rollback \/ UNCHANGED vars
  BY <1>6 DEF Rollback, vars
<1> QED BY <1>1, <1>2, <1>3, <1>4, <1>5, <1>6 DEF Next

\* Every variable keeps its type; in particular the log only ever replays to
\* a board.
THEOREM TypeCorrect == Spec => [](TypeOK /\ CallInv)
<1>1. Init => TypeOK /\ CallInv
  <2> SUFFICES ASSUME Init PROVE TypeOK /\ CallInv
    OBVIOUS
  <2>1. CallInv
    BY DEF Init, CallInv, Calling
  <2>2. exists \in BOOLEAN /\ corrupt \in BOOLEAN
    BY Zenon DEF Init
  <2>3. next \in [Kinds -> Nat] /\ used \in [Bounded -> Nat]
    BY DEF Init, NoCounts
  <2>4. pc \in [Procs -> {"idle"} \cup Calling \cup Booting]
        /\ \A p \in Procs : pc[p] \notin {"idle"} \cup Booting => op[p] \in Event
    BY DEF Init
  <2>5. counts \in [Procs -> [Kinds -> Nat]]
    BY DEF Init, NoCounts
  <2>6. /\ inside \subseteq Procs /\ tail \in {"none", "partial", "merged"}
        /\ issued \subseteq Kinds \X Nat /\ told \subseteq Procs \X Nat
        /\ op \in [Procs -> Event \cup {NoEvent}]
    BY DEF Init, Mutex!MutexInit
  <2> QED BY <2>1, <2>2, <2>3, <2>4, <2>5, <2>6, EmptyBoardType DEF TypeOK, Init
<1>2. TypeOK /\ CallInv /\ [Next]_vars => TypeOK'
  <2> SUFFICES ASSUME TypeOK, CallInv, [Next]_vars PROVE TypeOK'
    OBVIOUS
  <2>1. ASSUME NEW p \in Procs,
               \/ Call(p) \/ Enter(p) \/ GiveUp(p) \/ Leave(p) \/ Read(p)
               \/ BootCall(p) \/ BootCheck(p)
        PROVE  TypeOK'
    BY <2>1, CallStepType
  <2>2. ASSUME NEW p \in Procs, BeginAppend(p) \/ EndAppend(p) PROVE TypeOK'
    <3>1. op[p].id \in Ids
      BY <2>2 DEF CallInv, BeginAppend, EndAppend, Calling
    <3> QED BY <2>2, <3>1, AppendType
  <2>3. CASE UNCHANGED vars
    BY <2>3 DEF vars, logVars, callVars, TypeOK
  <2> QED
    BY <2>1, <2>2, <2>3, ReadIdsType, PutIdsType, BootType, EnvironmentType DEF Next
<1> QED
  BY <1>1, <1>2, CallInvStep, PTL DEF Spec

\* Every step keeps the lock's holder the only one inside.
LEMMA LockStep ==
  ASSUME TypeOK, LockInv, [Next]_vars
  PROVE  LockInv'
<1> USE DEF TypeOK, LockInv, InLock, Goto, callVars, Calling, Booting
<1>1. ASSUME NEW p \in Procs, Enter(p) PROVE LockInv'
  BY <1>1 DEF Enter, Mutex!Enter
<1>2. ASSUME NEW p \in Procs, Leave(p) PROVE LockInv'
  BY <1>2 DEF Leave, Mutex!Leave
<1>3. ASSUME NEW p \in Procs, Crash(p) PROVE LockInv'
  BY <1>3 DEF Crash
<1>4. ASSUME NEW p \in Procs, Call(p) \/ GiveUp(p) \/ BootCall(p) PROVE LockInv'
  BY <1>4 DEF Call, GiveUp, BootCall
<1>5. ASSUME NEW p \in Procs,
             \/ ReadIds(p) \/ PutIds(p) \/ Read(p) \/ BeginAppend(p) \/ EndAppend(p)
             \/ BootCheck(p) \/ BootLog(p) \/ BootIds(p)
      PROVE  LockInv'
  BY <1>5 DEF ReadIds, PutIds, Read, BeginAppend, EndAppend, BootCheck, BootLog, BootIds
<1>6. CASE Rollback \/ UNCHANGED vars
  BY <1>6 DEF Rollback, vars
<1> QED BY <1>1, <1>2, <1>3, <1>4, <1>5, <1>6 DEF Next

\* Every read-check-append section runs alone: the lock is held from before
\* the replay until after the append.
THEOREM SectionsExclude == Spec => []LockInv
<1>1. Init => LockInv
  BY DEF Init, LockInv, InLock
<1>2. TypeOK /\ LockInv /\ [Next]_vars => LockInv'
  BY LockStep
<1> QED
  BY <1>1, <1>2, TypeCorrect, PTL DEF Spec
-----------------------------------------------------------------------------
(* A log that nobody rolls back, tears or migrates *)

Quiet == ~Migrating /\ ~TornWrites /\ MaxRollbacks = 0

\* An add that has its id and has not appended yet.
Pending(p) ==
  /\ pc[p] \in {"got_id", "want", "read", "write", "writing"}
  /\ op[p].verb = "add"

\* Why ids are fresh: every id in the log, and every id taken by an add that
\* has not appended yet, is below the counter, and no two adds took the same.
\* An id about to be written down is not below the counter.
FreshInv ==
  /\ \A k \in Kinds : \A i \in DOMAIN board[k] : i < next[k]
  /\ \A c \in issued : c[2] < next[c[1]]
  /\ \A p \in Procs : Pending(p) => /\ op[p].id < next[op[p].kind]
                                    /\ op[p].id \notin DOMAIN board[op[p].kind]
  /\ \A p, q \in Procs :
       Pending(p) /\ Pending(q) /\ op[p].kind = op[q].kind /\ op[p].id = op[q].id => p = q
  /\ \A p \in Procs : pc[p] = "put_ids" => /\ counts[p] = next
                                           /\ next[op[p].kind] <= op[p].id

\* Why the log stays readable: only the process that is writing has a line
\* without its newline at the end, and it found none there.
WholeInv ==
  /\ ~corrupt
  /\ tail = "none" \/ \E p \in Procs : pc[p] = "writing"
  /\ \A p \in Procs : pc[p] = "writing" => tail = "partial"

\* What a call found under the lock still holds when it appends.
AdmitInv == \A p \in Procs : pc[p] \in {"write", "writing"} => Admits(op[p])

NoBoot == \A p \in Procs : pc[p] \notin Booting

LogInv == FreshInv /\ WholeInv /\ AdmitInv /\ NoBoot

\* What the append of a call does to the log: one event folded in.
LEMMA AppendsOne ==
  ASSUME TypeOK, CallInv, LogInv, NEW p \in Procs, EndAppend(p)
  PROVE  /\ op[p] \in Event /\ op[p].id \in Ids
         /\ Valid(op[p].verb, op[p].kind)
         /\ Admits(op[p])
         /\ ~DuplicateCreate(board, op[p])
         /\ ~corrupt'
         /\ tail' = "none"
         /\ board' = Apply(board, op[p])
         /\ \A k \in Kinds : DOMAIN board'[k] =
              IF op[p].verb = "add" /\ k = op[p].kind THEN DOMAIN board[k] \cup {op[p].id}
                                                     ELSE DOMAIN board[k]
<1>1. pc[p] = "writing"
  BY DEF EndAppend
<1>2. op[p] \in Event /\ op[p].id \in Ids /\ Valid(op[p].verb, op[p].kind) /\ Admits(op[p])
  BY <1>1 DEF TypeOK, CallInv, LogInv, AdmitInv, Calling, Booting
<1>3. ~DuplicateCreate(board, op[p])
  BY <1>1 DEF LogInv, FreshInv, Pending, DuplicateCreate
<1>4. ~corrupt /\ tail # "merged"
  BY <1>1 DEF LogInv, WholeInv
<1>5. ~corrupt' /\ tail' = "none"
  BY <1>3, <1>4, Zenon DEF EndAppend
<1>6. board' = Apply(board, op[p])
  BY <1>5, Zenon DEF EndAppend
<1>7. IsBoard(board)
  BY DEF TypeOK
<1>8. \A k \in Kinds : DOMAIN Apply(board, op[p])[k] =
        IF op[p].verb = "add" /\ k = op[p].kind THEN DOMAIN board[k] \cup {op[p].id}
                                               ELSE DOMAIN board[k]
  BY <1>2, <1>7, ApplyDomain
<1> QED BY <1>2, <1>3, <1>5, <1>6, <1>8

\* A step that takes no id, appends nothing and leaves the adds as they are.
LEMMA FreshFrame ==
  ASSUME FreshInv,
         UNCHANGED <<next, issued, board>>,
         \A q \in Procs : Pending(q)' => Pending(q) /\ op'[q] = op[q],
         \A q \in Procs : pc'[q] = "put_ids"
            => pc[q] = "put_ids" /\ op'[q] = op[q] /\ counts'[q] = counts[q]
  PROVE  FreshInv'
<1> USE DEF FreshInv
<1>1. /\ \A k \in Kinds : \A i \in DOMAIN board'[k] : i < next'[k]
      /\ \A c \in issued' : c[2] < next'[c[1]]
  OBVIOUS
<1>2. \A p \in Procs : Pending(p)' => /\ op'[p].id < next'[op'[p].kind]
                                      /\ op'[p].id \notin DOMAIN board'[op'[p].kind]
  OBVIOUS
<1>3. \A p, q \in Procs :
        Pending(p)' /\ Pending(q)' /\ op'[p].kind = op'[q].kind /\ op'[p].id = op'[q].id => p = q
  OBVIOUS
<1>4. \A p \in Procs : pc'[p] = "put_ids" => /\ counts'[p] = next'
                                              /\ next'[op'[p].kind] <= op'[p].id
  OBVIOUS
<1> QED BY <1>1, <1>2, <1>3, <1>4

\* Every step keeps ids fresh, when nothing external disturbs the log.
LEMMA FreshStep ==
  ASSUME Quiet, TypeOK, CallInv, LockInv, LogInv, [Next]_vars
  PROVE  FreshInv'
<1> USE DEF TypeOK, FreshInv, LogInv, Pending, Goto, callVars, logVars
<1>1. ASSUME NEW p \in Procs, Call(p) PROVE FreshInv'
  <2>1. /\ pc[p] = "idle" /\ pc'[p] \in {"want_id", "want"}
        /\ pc'[p] = "want" => op'[p].verb # "add"
        /\ \A q \in Procs : q # p => pc'[q] = pc[q] /\ op'[q] = op[q]
        /\ UNCHANGED <<next, issued, board, counts>>
    BY <1>1 DEF Call
  <2>2. /\ \A q \in Procs : Pending(q)' => Pending(q) /\ op'[q] = op[q]
        /\ \A q \in Procs : pc'[q] = "put_ids"
              => pc[q] = "put_ids" /\ op'[q] = op[q] /\ counts'[q] = counts[q]
    BY <2>1
  <2> QED BY <2>1, <2>2, FreshFrame
<1>2. ASSUME NEW p \in Procs, Enter(p) PROVE FreshInv'
  <2>1. /\ \/ pc[p] = "want" /\ pc' = [pc EXCEPT ![p] = "read"]
           \/ pc[p] = "want_id" /\ pc' = [pc EXCEPT ![p] = "read_ids"]
           \/ pc[p] = "boot_want" /\ pc' = [pc EXCEPT ![p] = "boot_check"]
        /\ UNCHANGED <<next, issued, board, counts, op>>
    BY <1>2 DEF Enter
  <2>2. /\ \A q \in Procs : Pending(q)' => Pending(q) /\ op'[q] = op[q]
        /\ \A q \in Procs : pc'[q] = "put_ids"
              => pc[q] = "put_ids" /\ op'[q] = op[q] /\ counts'[q] = counts[q]
    BY <2>1
  <2> QED BY <2>1, <2>2, FreshFrame
<1>3. ASSUME NEW p \in Procs, Leave(p) PROVE FreshInv'
  <2>1. /\ \/ pc[p] = "got_id" /\ pc' = [pc EXCEPT ![p] = "want"] /\ op' = op
           \/ pc' = [pc EXCEPT ![p] = "idle"] /\ op' = [op EXCEPT ![p] = NoEvent]
        /\ UNCHANGED <<next, issued, board, counts>>
    BY <1>3 DEF Leave
  <2>2. /\ \A q \in Procs : Pending(q)' => Pending(q) /\ op'[q] = op[q]
        /\ \A q \in Procs : pc'[q] = "put_ids"
              => pc[q] = "put_ids" /\ op'[q] = op[q] /\ counts'[q] = counts[q]
    BY <2>1
  <2> QED BY <2>1, <2>2, FreshFrame
<1>4. ASSUME NEW p \in Procs, GiveUp(p) \/ Crash(p) PROVE FreshInv'
  <2>1. /\ pc' = [pc EXCEPT ![p] = "idle"] /\ op' = [op EXCEPT ![p] = NoEvent]
        /\ \A q \in Procs : q # p => counts'[q] = counts[q]
        /\ UNCHANGED <<next, issued, board>>
    BY <1>4 DEF GiveUp, Crash
  <2>2. /\ \A q \in Procs : Pending(q)' => Pending(q) /\ op'[q] = op[q]
        /\ \A q \in Procs : pc'[q] = "put_ids"
              => pc[q] = "put_ids" /\ op'[q] = op[q] /\ counts'[q] = counts[q]
    BY <2>1
  <2> QED BY <2>1, <2>2, FreshFrame
<1>5. ASSUME NEW p \in Procs, ReadIds(p) PROVE FreshInv'
  <2>1. pc[p] = "read_ids" /\ op[p] \in Event /\ op[p].kind \in Kinds /\ ~corrupt
    BY <1>5 DEF ReadIds, Event, WholeInv, Booting
  <2> DEFINE k == op[p].kind
  <2>2. PICK highest \in {0} \cup DOMAIN board[k] :
          /\ \A i \in DOMAIN board[k] : i <= highest
          /\ op' = [op EXCEPT ![p].id = Allocated(next[k], highest)]
          /\ counts' = [counts EXCEPT ![p] = next]
          /\ Goto(p, "put_ids")
    BY <1>5, <2>1 DEF ReadIds
  <2>3. highest \in Nat /\ next[k] \in Nat
    BY <2>1 DEF IsBoard, IsTable, Ids
  <2>4. /\ op'[p].id = IF next[k] <= highest THEN highest + 1 ELSE next[k]
        /\ op'[p].kind = k
    BY <2>1, <2>2 DEF Event, Allocated
  <2>5. next[k] <= op'[p].id
    BY <2>3, <2>4
  <2>6. /\ counts'[p] = next /\ pc'[p] = "put_ids"
        /\ \A q \in Procs : q # p => pc'[q] = pc[q] /\ op'[q] = op[q] /\ counts'[q] = counts[q]
        /\ UNCHANGED <<next, issued, board>>
    BY <1>5, <2>2 DEF ReadIds
  <2>7. \A q \in Procs : Pending(q)' => Pending(q) /\ op'[q] = op[q]
    BY <2>6
  <2>8. \A q \in Procs : pc'[q] = "put_ids" => /\ counts'[q] = next'
                                               /\ next'[op'[q].kind] <= op'[q].id
    BY <2>4, <2>5, <2>6
  <2>9. /\ \A j \in Kinds : \A i \in DOMAIN board'[j] : i < next'[j]
        /\ \A c \in issued' : c[2] < next'[c[1]]
    BY <2>6
  <2>10. \A q \in Procs : Pending(q)' => /\ op'[q].id < next'[op'[q].kind]
                                         /\ op'[q].id \notin DOMAIN board'[op'[q].kind]
    BY <2>6, <2>7
  <2>11. \A q, r \in Procs : Pending(q)' /\ Pending(r)' /\ op'[q].kind = op'[r].kind
            /\ op'[q].id = op'[r].id => q = r
    BY <2>7
  <2> QED BY <2>8, <2>9, <2>10, <2>11
<1>6. ASSUME NEW p \in Procs, PutIds(p) PROVE FreshInv'
  <2>1. /\ pc[p] = "put_ids" /\ op[p] \in Event /\ op[p].kind \in Kinds /\ op[p].id \in Ids
        /\ op[p].verb = "add" /\ counts[p] = next /\ next[op[p].kind] <= op[p].id
    BY <1>6 DEF PutIds, Event, CallInv, Calling, Booting
  <2>2. /\ next' = [next EXCEPT ![op[p].kind] = op[p].id + 1]
        /\ issued' = issued \cup {<<op[p].kind, op[p].id>>}
        /\ pc' = [pc EXCEPT ![p] = "got_id"]
        /\ \A q \in Procs : q # p => counts'[q] = counts[q]
        /\ UNCHANGED <<board, op>>
    BY <1>6, <2>1 DEF PutIds
  <2>3. \A k \in Kinds : next[k] <= next'[k] /\ next[k] \in Nat /\ next'[k] \in Nat
    BY <2>1, <2>2 DEF Ids
  <2>4. op[p].id < next'[op[p].kind]
    BY <2>1, <2>2 DEF Ids
  <2>5. \A k \in Kinds : \A i \in DOMAIN board[k] : i \in Nat /\ i < next[k]
    BY DEF IsBoard, IsTable, Ids
  <2>6. op[p].id \notin DOMAIN board[op[p].kind]
    BY <2>1, <2>3, <2>5 DEF Ids
  <2>7. \A q \in Procs : Pending(q) => q # p /\ op[q].id \in Nat /\ op[q].kind \in Kinds
    BY <2>1 DEF Event, Booting
  <2>8. \A q \in Procs : pc[q] = "put_ids" => q = p
    BY <2>1 DEF LockInv, InLock
  <2>9. \A k \in Kinds : \A i \in DOMAIN board'[k] : i < next'[k]
    BY <2>2, <2>3, <2>5
  <2>10. \A c \in issued' : c[2] < next'[c[1]]
    <3>1. \A c \in issued : c[1] \in Kinds /\ c[2] \in Nat
      OBVIOUS
    <3> QED BY <2>2, <2>3, <2>4, <3>1
  <2>11. \A q \in Procs : Pending(q)' => /\ op'[q].id < next'[op'[q].kind]
                                         /\ op'[q].id \notin DOMAIN board'[op'[q].kind]
    BY <2>2, <2>3, <2>4, <2>6, <2>7
  <2>12. \A q \in Procs : Pending(q) => op[q].kind # op[p].kind \/ op[q].id # op[p].id
    BY <2>1, <2>7 DEF Ids
  <2>13. \A q, r \in Procs : Pending(q)' /\ Pending(r)' /\ op'[q].kind = op'[r].kind
            /\ op'[q].id = op'[r].id => q = r
    BY <2>2, <2>12
  <2>14. \A q \in Procs : pc'[q] = "put_ids" => FALSE
    BY <2>2, <2>8
  <2> QED BY <2>9, <2>10, <2>11, <2>13, <2>14
<1>7. ASSUME NEW p \in Procs, Read(p) \/ BeginAppend(p) PROVE FreshInv'
  <2>1. /\ \/ pc[p] = "read" /\ pc' = [pc EXCEPT ![p] = "write"]
           \/ pc[p] = "read" /\ pc' = [pc EXCEPT ![p] = "leave"]
           \/ pc[p] = "write" /\ pc' = [pc EXCEPT ![p] = "writing"]
        /\ UNCHANGED <<next, issued, board, counts, op>>
    BY <1>7 DEF Read, BeginAppend
  <2>2. /\ \A q \in Procs : Pending(q)' => Pending(q) /\ op'[q] = op[q]
        /\ \A q \in Procs : pc'[q] = "put_ids" => pc[q] = "put_ids"
    BY <2>1
  <2> QED BY <2>1, <2>2, FreshFrame
<1>8. ASSUME NEW p \in Procs, EndAppend(p) PROVE FreshInv'
  <2>1. /\ op[p] \in Event /\ op[p].kind \in Kinds /\ op[p].id \in Ids
        /\ board' = Apply(board, op[p])
    BY <1>8, AppendsOne DEF Event
  <2>2. /\ pc[p] = "writing" /\ pc' = [pc EXCEPT ![p] = "leave"]
        /\ UNCHANGED <<next, issued, op, counts>>
    BY <1>8 DEF EndAppend
  <2>3. \A k \in Kinds : DOMAIN board'[k] =
          IF op[p].verb = "add" /\ k = op[p].kind THEN DOMAIN board[k] \cup {op[p].id}
                                                 ELSE DOMAIN board[k]
    BY <1>8, AppendsOne
  <2>4. op[p].verb = "add" => Pending(p)
    BY <2>2
  <2>5. \A q \in Procs : Pending(q)' => Pending(q) /\ q # p /\ op[q].kind \in Kinds
    BY <2>2 DEF Event, Booting
  <2>6. \A k \in Kinds : \A i \in DOMAIN board'[k] : i < next'[k]
    <3> TAKE k \in Kinds
    <3>1. CASE op[p].verb = "add" /\ k = op[p].kind
      BY <2>2, <2>3, <2>4, <3>1
    <3>2. CASE ~(op[p].verb = "add" /\ k = op[p].kind)
      BY <2>2, <2>3, <3>2
    <3> QED BY <3>1, <3>2
  <2>7. \A q \in Procs : Pending(q)' => /\ op'[q].id < next'[op'[q].kind]
                                        /\ op'[q].id \notin DOMAIN board'[op'[q].kind]
    BY <2>2, <2>3, <2>4, <2>5
  <2> QED BY <2>2, <2>5, <2>6, <2>7
<1>9. ASSUME NEW p \in Procs, BootCall(p) \/ BootCheck(p) \/ BootLog(p) \/ BootIds(p)
      PROVE  FreshInv'
  BY <1>9 DEF Quiet, NoBoot, Booting, BootCall, BootCheck, BootLog, BootIds
<1>10. CASE Rollback
  BY <1>10, LogAssumption DEF Rollback, Uses, Quiet, Bounded
<1>11. CASE UNCHANGED vars
  BY <1>11 DEF vars
<1> QED BY <1>1, <1>2, <1>3, <1>4, <1>5, <1>6, <1>7, <1>8, <1>9, <1>10, <1>11 DEF Next

\* Every step keeps each write whole in the log, when nothing external disturbs it.
LEMMA WholeStep ==
  ASSUME Quiet, TypeOK, CallInv, LockInv, LogInv, [Next]_vars
  PROVE  WholeInv'
<1> USE DEF TypeOK, WholeInv, LogInv, Goto, callVars, logVars
<1>1. ASSUME NEW p \in Procs, BeginAppend(p) PROVE WholeInv'
  <2>1. pc[p] = "write" /\ pc' = [pc EXCEPT ![p] = "writing"] /\ UNCHANGED corrupt
        /\ tail' = IF tail = "none" THEN "partial" ELSE "merged"
    BY <1>1 DEF BeginAppend
  <2>2. \A q \in Procs : pc[q] # "writing"
    BY <2>1 DEF LockInv, InLock
  <2> QED BY <2>1, <2>2
<1>2. ASSUME NEW p \in Procs, EndAppend(p) PROVE WholeInv'
  <2>1. pc[p] = "writing" /\ pc' = [pc EXCEPT ![p] = "leave"]
    BY <1>2, Zenon DEF EndAppend
  <2>2. \A q \in Procs : pc[q] = "writing" => q = p
    BY <2>1 DEF LockInv, InLock
  <2>3. ~corrupt' /\ tail' = "none"
    BY <1>2, AppendsOne
  <2> QED BY <2>1, <2>2, <2>3
<1>3. ASSUME NEW p \in Procs,
             \/ Call(p) \/ Enter(p) \/ GiveUp(p) \/ Leave(p)
             \/ ReadIds(p) \/ PutIds(p) \/ Read(p) \/ Crash(p)
      PROVE  WholeInv'
  <2>1. UNCHANGED <<corrupt, tail>>
    BY <1>3, Zenon DEF Call, Enter, GiveUp, Leave, ReadIds, PutIds, Read, Crash
  <2>2. \A q \in Procs : pc'[q] = "writing" <=> pc[q] = "writing"
    BY <1>3 DEF Call, Enter, GiveUp, Leave, ReadIds, PutIds, Read, Crash, Quiet
  <2> QED BY <2>1, <2>2
<1>4. ASSUME NEW p \in Procs, BootCall(p) \/ BootCheck(p) \/ BootLog(p) \/ BootIds(p)
      PROVE  WholeInv'
  BY <1>4 DEF Quiet, NoBoot, Booting, BootCall, BootCheck, BootLog, BootIds
<1>5. CASE Rollback \/ UNCHANGED vars
  BY <1>5 DEF Rollback, vars
<1> QED BY <1>1, <1>2, <1>3, <1>4, <1>5 DEF Next

\* Every step keeps what the admission checks let through, when nothing external disturbs the log.
LEMMA AdmitStep ==
  ASSUME Quiet, TypeOK, CallInv, LockInv, LogInv, [Next]_vars
  PROVE  AdmitInv'
<1> USE DEF TypeOK, AdmitInv, LogInv, Goto, callVars, logVars
<1>1. ASSUME NEW p \in Procs, EndAppend(p) PROVE AdmitInv'
  <2>1. pc[p] = "writing" /\ pc' = [pc EXCEPT ![p] = "leave"]
    BY <1>1, Zenon DEF EndAppend
  <2>2. \A q \in Procs : pc[q] \in {"write", "writing"} => q = p
    BY <2>1 DEF LockInv, InLock
  <2> QED BY <2>1, <2>2
<1>2. ASSUME NEW p \in Procs, Read(p) PROVE AdmitInv'
  <2>1. pc' = [pc EXCEPT ![p] = IF Admits(op[p]) THEN "write" ELSE "leave"]
        /\ UNCHANGED <<op, corrupt, board>>
    BY <1>2 DEF Read
  <2>2. \A e : Admits(e)' <=> Admits(e)
    BY <2>1 DEF Admits
  <2> QED BY <2>1, <2>2
<1>3. ASSUME NEW p \in Procs, BeginAppend(p) PROVE AdmitInv'
  <2>1. pc[p] = "write" /\ pc' = [pc EXCEPT ![p] = "writing"]
        /\ UNCHANGED <<op, corrupt, board>>
    BY <1>3 DEF BeginAppend
  <2>2. \A q \in Procs : Admits(op[q])' <=> Admits(op[q])
    BY <2>1 DEF Admits
  <2> QED BY <2>1, <2>2
<1>4. ASSUME NEW p \in Procs,
             \/ Call(p) \/ Enter(p) \/ GiveUp(p) \/ Leave(p)
             \/ ReadIds(p) \/ PutIds(p) \/ Crash(p)
      PROVE  AdmitInv'
  <2>1. UNCHANGED <<corrupt, board>>
    BY <1>4, Zenon DEF Call, Enter, GiveUp, Leave, ReadIds, PutIds, Crash
  <2>2. \A q \in Procs : pc'[q] \in {"write", "writing"}
           => pc[q] \in {"write", "writing"} /\ op'[q] = op[q]
    BY <1>4 DEF Call, Enter, GiveUp, Leave, ReadIds, PutIds, Crash
  <2>3. \A q \in Procs : op'[q] = op[q] => (Admits(op[q])' <=> Admits(op[q]))
    BY <2>1 DEF Admits
  <2> QED BY <2>2, <2>3
<1>5. ASSUME NEW p \in Procs, BootCall(p) \/ BootCheck(p) \/ BootLog(p) \/ BootIds(p)
      PROVE  AdmitInv'
  BY <1>5 DEF Quiet, NoBoot, Booting, BootCall, BootCheck, BootLog, BootIds
<1>6. CASE Rollback \/ UNCHANGED vars
  <2>1. UNCHANGED <<corrupt, board, pc, op>>
    BY <1>6, Zenon DEF Rollback, vars
  <2>2. \A q \in Procs : Admits(op[q])' <=> Admits(op[q])
    BY <2>1 DEF Admits
  <2> QED BY <2>1, <2>2
<1> QED BY <1>1, <1>2, <1>3, <1>4, <1>5, <1>6 DEF Next

\* Without a rollback nobody bootstraps the log again.
LEMMA NoBootStep ==
  ASSUME Quiet, TypeOK, NoBoot, [Next]_vars
  PROVE  NoBoot'
<1> USE DEF TypeOK, NoBoot, Booting, Goto, callVars
<1>1. ASSUME NEW p \in Procs,
             \/ Call(p) \/ Enter(p) \/ GiveUp(p) \/ Leave(p) \/ ReadIds(p) \/ PutIds(p)
             \/ Read(p) \/ BeginAppend(p) \/ EndAppend(p) \/ Crash(p)
      PROVE  NoBoot'
  <2>1. \/ pc' = [pc EXCEPT ![p] = "idle"]
        \/ \E c \in Calling : pc' = [pc EXCEPT ![p] = c]
    BY <1>1 DEF Call, Enter, GiveUp, Leave, ReadIds, PutIds, Read, BeginAppend, EndAppend,
               Crash, Calling
  <2> QED BY <2>1 DEF Calling
<1>2. ASSUME NEW p \in Procs, BootCall(p) \/ BootCheck(p) \/ BootLog(p) \/ BootIds(p)
      PROVE  NoBoot'
  BY <1>2 DEF Quiet, BootCall, BootCheck, BootLog, BootIds
<1>3. CASE Rollback \/ UNCHANGED vars
  BY <1>3 DEF Rollback, vars
<1> QED BY <1>1, <1>2, <1>3 DEF Next

\* The log's inductive invariant holds in every reachable state of a quiet store.
LEMMA LogInvHolds ==
  ASSUME Quiet
  PROVE  Spec => [](TypeOK /\ CallInv /\ LockInv /\ LogInv)
<1>1. Init => LogInv
  <2> SUFFICES ASSUME Init PROVE LogInv
    OBVIOUS
  <2>1. FreshInv
    BY DEF Init, FreshInv, Pending, EmptyBoard, EmptyTable
  <2>2. WholeInv /\ AdmitInv /\ NoBoot
    BY DEF Init, WholeInv, AdmitInv, NoBoot, Booting
  <2> QED BY <2>1, <2>2 DEF LogInv
<1>2. TypeOK /\ CallInv /\ LockInv /\ LogInv /\ [Next]_vars => LogInv'
  BY FreshStep, WholeStep, AdmitStep, NoBootStep DEF LogInv
<1> QED
  BY <1>1, <1>2, TypeCorrect, SectionsExclude, PTL DEF Spec

\* The log never becomes one that replay refuses: no command can lock the
\* others out of the board.
THEOREM LogStaysReadable ==
  ASSUME Quiet
  PROVE  Spec => []Replayable
<1>1. LogInv => Replayable
  BY DEF LogInv, WholeInv, Replayable
<1> QED BY <1>1, LogInvHolds, PTL

\* An id that was written down as taken is never written down again, however
\* many adds are killed or give up before they append.
THEOREM IdsAreFresh ==
  ASSUME Quiet
  PROVE  Spec => IdsNeverReissued
<1>1. TypeOK /\ CallInv /\ LogInv /\ [Next]_vars
        => [\A p \in Procs : Allocates(p) => <<op[p].kind, op[p].id>> \notin issued]_vars
  <2> SUFFICES ASSUME TypeOK, CallInv, LogInv, [Next]_vars, NEW p \in Procs, Allocates(p)
               PROVE  <<op[p].kind, op[p].id>> \notin issued
    OBVIOUS
  <2>1. pc[p] = "put_ids" /\ op[p] \in Event
    BY DEF Allocates, TypeOK, Booting
  <2>2. op[p].kind \in Kinds /\ op[p].id \in Ids /\ next[op[p].kind] <= op[p].id
    BY <2>1 DEF Event, CallInv, Calling, LogInv, FreshInv
  <2>3. next[op[p].kind] \in Nat
    BY <2>2 DEF TypeOK
  <2>4. \A c \in issued : c[2] < next[c[1]]
    BY DEF LogInv, FreshInv
  <2>5. CASE <<op[p].kind, op[p].id>> \in issued
    <3>1. op[p].id < next[op[p].kind]
      BY <2>4, <2>5
    <3> QED BY <2>2, <2>3, <3>1 DEF Ids
  <2> QED BY <2>5
<1> QED BY <1>1, LogInvHolds, PTL DEF Spec, IdsNeverReissued

\* No create is ever appended for an id that has one.
THEOREM CreatesAreUnique ==
  ASSUME Quiet
  PROVE  Spec => NoDuplicateCreate
<1>1. TypeOK /\ CallInv /\ LogInv /\ [Next]_vars
        => [\A p \in Procs : Appends(p) => ~DuplicateCreate(board, op[p])]_vars
  <2> SUFFICES ASSUME LogInv, NEW p \in Procs, Appends(p)
               PROVE  ~DuplicateCreate(board, op[p])
    OBVIOUS
  <2> QED BY DEF Appends, LogInv, FreshInv, Pending, DuplicateCreate
<1> QED BY <1>1, LogInvHolds, PTL DEF Spec, NoDuplicateCreate
-----------------------------------------------------------------------------
(* Claims *)

Told ==
  \A c \in told : c[2] \in DOMAIN board["task"] /\ board["task"][c[2]].claimed_by = c[1]

\* An append keeps true what successful claimers were told.
LEMMA ToldAppend ==
  ASSUME TypeOK, CallInv, LogInv, Told, NEW p \in Procs, EndAppend(p)
  PROVE  Told'
<1> DEFINE e == op[p]
<1>1. /\ e \in Event /\ e.id \in Ids /\ Valid(e.verb, e.kind) /\ Admits(e)
      /\ ~DuplicateCreate(board, e) /\ board' = Apply(board, e)
      /\ \A k \in Kinds : DOMAIN board'[k] =
              IF e.verb = "add" /\ k = e.kind THEN DOMAIN board[k] \cup {e.id} ELSE DOMAIN board[k]
  BY AppendsOne
<1>2. told' = CASE e.verb = "claim"   -> told \cup {<<e.agent, e.id>>}
                [] e.verb = "release" -> {c \in told : c[2] # e.id}
                [] OTHER              -> told
  BY Zenon DEF EndAppend
<1>3. IsBoard(board) /\ "task" \in Kinds /\ told \subseteq Procs \X Nat
  BY RowsAssumption DEF TypeOK
<1>4. e.verb \in Verbs /\ e.agent \in Procs /\ NoAgent \notin Procs
  BY <1>1, RowsAssumption DEF Event
<1> HIDE DEF e
<1>5. \A c \in told : c[2] \in DOMAIN board'["task"]
  BY <1>1, <1>3 DEF Told
<1>6. \A c \in told : c[2] # e.id \/ e.kind # "task" => board'["task"][c[2]].claimed_by = c[1]
  BY <1>1, <1>3, ApplyOther DEF Told
<1>7. e.verb # "add" /\ e.id \in DOMAIN board[e.kind]
        => board'[e.kind][e.id] = Changed(board[e.kind][e.id], e)
  BY <1>1, <1>3, ApplySame
<1>8. e.kind \in Kinds
  BY <1>1 DEF Event
<1>9. \A i \in DOMAIN board[e.kind] : board[e.kind][i] \in Row
  BY <1>3, <1>8 DEF IsBoard, IsTable
<1>10. CASE e.verb = "claim"
  <2>1. e.kind = "task" /\ e.id \in DOMAIN board["task"]
        /\ board["task"][e.id].claimed_by = NoAgent
    BY <1>1, <1>10 DEF Valid, Admits
  <2>2. board'["task"][e.id].claimed_by = e.agent
    BY <1>7, <1>9, <1>10, <2>1 DEF Changed, Row
  <2>3. \A c \in told : c[2] # e.id
    BY <1>3, <1>4, <2>1 DEF Told
  <2>4. told' = told \cup {<<e.agent, e.id>>}
    BY <1>2, <1>10
  <2>5. e.id \in DOMAIN board'["task"]
    BY <1>1, <1>3, <1>10, <2>1
  <2> QED BY <1>5, <1>6, <2>2, <2>3, <2>4, <2>5 DEF Told
<1>11. CASE e.verb = "release"
  <2>1. told' = {c \in told : c[2] # e.id}
    BY <1>2, <1>11
  <2> QED BY <1>5, <1>6, <2>1 DEF Told
<1>12. CASE e.verb \notin {"claim", "release"}
  <2>1. told' = told
    BY <1>2, <1>12
  <2>2. ASSUME NEW c \in told, c[2] = e.id, e.kind = "task"
        PROVE  board'["task"][c[2]].claimed_by = c[1]
    <3>1. e.id \in DOMAIN board[e.kind] /\ e.verb # "add"
      BY <1>1, <2>2 DEF Told, DuplicateCreate
    <3>2. e.verb \in {"set", "link", "unlink"}
      BY <1>4, <1>12, <3>1 DEF Verbs
    <3>3. Changed(board[e.kind][e.id], e).claimed_by = board[e.kind][e.id].claimed_by
      BY <1>9, <3>1, <3>2 DEF Changed, Row
    <3> QED BY <1>7, <2>2, <3>1, <3>3 DEF Told
  <2> QED BY <1>5, <1>6, <2>1, <2>2 DEF Told
<1> QED BY <1>10, <1>11, <1>12

\* Whoever was told that its claim won is the claimant that every later
\* replay shows, until a release.
THEOREM ClaimsAreWonOnce ==
  ASSUME Quiet
  PROVE  Spec => []ClaimWinnerAgrees
<1>1. Init => Told
  BY DEF Init, Told
<1>2. TypeOK /\ CallInv /\ LogInv /\ Told /\ [Next]_vars => Told'
  <2> SUFFICES ASSUME TypeOK, CallInv, LogInv, Told, [Next]_vars PROVE Told'
    OBVIOUS
  <2>1. ASSUME NEW p \in Procs, EndAppend(p) PROVE Told'
    BY <2>1, ToldAppend
  <2>2. ASSUME UNCHANGED <<told, board>> PROVE Told'
    BY <2>2 DEF Told
  <2>3. ASSUME NEW p \in Procs, BootLog(p) PROVE Told'
    BY <2>3 DEF BootLog, LogInv, NoBoot, Booting
  <2>4. ASSUME NEW p \in Procs,
               \/ Call(p) \/ Enter(p) \/ GiveUp(p) \/ Leave(p) \/ ReadIds(p) \/ PutIds(p)
               \/ Read(p) \/ BeginAppend(p) \/ BootCall(p) \/ BootCheck(p) \/ BootIds(p)
               \/ Crash(p)
        PROVE  UNCHANGED <<told, board>>
    BY <2>4, Zenon DEF Call, Enter, GiveUp, Leave, ReadIds, PutIds, Read, BeginAppend,
                       BootCall, BootCheck, BootIds, Crash, logVars
  <2>5. CASE Rollback \/ UNCHANGED vars
    BY <2>2, <2>5, Zenon DEF Rollback, vars, logVars
  <2> QED BY <2>1, <2>2, <2>3, <2>4, <2>5 DEF Next
<1>3. Told => ClaimWinnerAgrees
  BY DEF Told, ClaimWinnerAgrees
<1> QED BY <1>1, <1>2, <1>3, LogInvHolds, PTL DEF Spec
-----------------------------------------------------------------------------
(* The store implements Board *)

\* The append of a call is one of Board's operations, or changes nothing.
LEMMA AppendImplements ==
  ASSUME TypeOK, CallInv, LogInv, NEW p \in Procs, EndAppend(p)
  PROVE  Store!BoardNext \/ UNCHANGED board
<1> DEFINE e == op[p]
           t == board[e.kind]
<1>1. /\ e \in Event /\ e.id \in Ids /\ Valid(e.verb, e.kind) /\ Admits(e)
      /\ ~DuplicateCreate(board, e) /\ board' = Apply(board, e)
  BY AppendsOne
<1>2. e.kind \in Kinds /\ e.verb \in Verbs /\ e.agent \in Procs /\ e.target \in Ids
      /\ e.data \in Data
  BY <1>1 DEF Event
<1>3. IsBoard(board)
  BY DEF TypeOK
<1> HIDE DEF e
<1>4. CASE e.verb = "add"
  <2>1. board' = [board EXCEPT ![e.kind] = Put(t, e.id, NewRow(e.data, e.initial))]
    BY <1>1, <1>4 DEF Apply
  <2>2. board'[e.kind] = Put(t, e.id, NewRow(e.data, e.initial))
    BY <1>2, <1>3, <2>1 DEF IsBoard
  <2>3. board'[e.kind][e.id] = NewRow(e.data, e.initial) /\ e.id \in DOMAIN board'[e.kind]
    BY <2>2 DEF Put
  <2>4. e.id \notin DOMAIN t
    BY <1>1, <1>4 DEF DuplicateCreate
  <2>5. NewRow(board'[e.kind][e.id].data, board'[e.kind][e.id].links) = NewRow(e.data, e.initial)
    BY <2>3 DEF NewRow
  <2>6. Store!Becomes(e.kind, e.id, NewRow(e.data, e.initial))
    BY <2>1 DEF Store!Becomes, Store!Put, Put
  <2>7. Store!NewRow(board'[e.kind][e.id].data, board'[e.kind][e.id].links) = NewRow(e.data, e.initial)
    BY <2>5 DEF Store!NewRow, NewRow
  <2>8. Store!Becomes(e.kind, e.id, Store!NewRow(board'[e.kind][e.id].data, board'[e.kind][e.id].links))
    BY <2>6, <2>7
  <2>9. e.id \in Store!Ids /\ e.id \in DOMAIN board'[e.kind] \ DOMAIN board[e.kind]
    BY <1>1, <2>3, <2>4 DEF Store!Ids, Ids
  <2>10. Store!Add(e.kind)
    BY <2>8, <2>9 DEF Store!Add
  <2> QED BY <1>2, <2>10 DEF Store!BoardNext
<1>5. CASE e.verb # "add" /\ e.id \notin DOMAIN t
  BY <1>1, <1>5 DEF Apply
<1>6. CASE e.verb # "add" /\ e.id \in DOMAIN t
  <2> DEFINE old == t[e.id]
             new == board'[e.kind][e.id]
  <2>1. board' = [board EXCEPT ![e.kind] = Put(t, e.id, Changed(old, e))]
    BY <1>1, <1>6 DEF Apply
  <2>2. board'[e.kind] = Put(t, e.id, Changed(old, e))
    BY <1>2, <1>3, <2>1 DEF IsBoard
  <2>3. new = Changed(old, e)
    BY <2>2 DEF Put
  <2>4. old \in Row
    BY <1>2, <1>3, <1>6 DEF IsBoard, IsTable
  <2>5. \A r : Changed(old, e) = r => Store!Becomes(e.kind, e.id, r)
    BY <2>1 DEF Store!Becomes, Store!Put, Put
  <2>6. CASE e.verb \in {"set", "link", "unlink"}
    <3>1. Changed(old, e) = [old EXCEPT !.data = new.data, !.links = new.links]
      BY <2>3, <2>4, <2>6 DEF Changed, Row
    <3>2. CASE e.verb = "set"
      <4>1. new.links = old.links
        BY <2>3, <2>4, <3>2 DEF Changed, Row
      <4> QED BY <1>2, <1>6, <2>5, <3>1, <4>1 DEF Store!BoardNext, Store!Edit
    <3>3. CASE e.verb = "link"
      <4>1. Shape[e.kind] # "none" /\ Shape[e.kind] \in {"many", "one", "none"}
        BY <1>1, <1>2, <3>3, RowsAssumption DEF Valid
      <4>2. new.data = old.data
            /\ new.links = IF Shape[e.kind] = "many" THEN old.links \cup {e.target} ELSE {e.target}
        BY <2>3, <2>4, <3>3 DEF Changed, Relinked, Row
      <4>3. \/ Shape[e.kind] = "many" /\ \E n \in new.links : new.links = old.links \cup {n}
            \/ Shape[e.kind] = "one"  /\ \E n \in new.links : new.links = {n}
        BY <4>1, <4>2
      <4> QED BY <1>2, <1>6, <2>5, <3>1, <4>2, <4>3 DEF Store!BoardNext, Store!Edit
    <3>4. CASE e.verb = "unlink"
      <4>0. Relinked(old.links, e) = old.links \ {e.target}
        BY <3>4 DEF Relinked
      <4>1. new.data = old.data /\ new.links = old.links \ {e.target}
        BY <2>3, <2>4, <3>4, <4>0 DEF Changed, Row
      <4>2. new.links = old.links \/ \E n \in old.links : new.links = old.links \ {n}
        BY <4>1
      <4> QED BY <1>2, <1>6, <2>5, <3>1, <4>1, <4>2 DEF Store!BoardNext, Store!Edit
    <3> QED BY <2>6, <3>2, <3>3, <3>4
  <2>7. CASE e.verb = "claim"
    <3>1. e.kind = "task" /\ old.claimed_by = NoAgent
      BY <1>1, <1>6, <2>7 DEF Valid, Admits
    <3>2. Changed(old, e) = [old EXCEPT !.claimed_by = e.agent]
      BY <2>4, <2>7, <3>1 DEF Changed, Row
    <3>3. Store!Claim(e.agent)
      BY <1>6, <2>5, <3>1, <3>2 DEF Store!Claim
    <3> QED BY <1>2, <3>3 DEF Store!BoardNext
  <2>8. CASE e.verb = "release"
    <3>1. e.kind = "task"
      BY <1>1, <2>8 DEF Valid
    <3>2. Changed(old, e) = [old EXCEPT !.claimed_by = NoAgent]
      BY <2>8 DEF Changed
    <3>3. Store!Release
      BY <1>6, <2>5, <3>1, <3>2 DEF Store!Release
    <3> QED BY <3>3 DEF Store!BoardNext
  <2> QED BY <1>2, <1>6, <2>6, <2>7, <2>8 DEF Verbs
<1> QED BY <1>4, <1>5, <1>6

\* The events under the lock, the two lock holds of an add and the counters
\* implement a board whose operations are atomic.
THEOREM StoreImplementsBoard ==
  ASSUME Quiet
  PROVE  Spec => ImplementsBoard
<1>1. Init => Store!BoardInit
  BY DEF Init, Store!BoardInit, EmptyBoard, Store!EmptyBoard, EmptyTable, Store!EmptyTable
<1>2. TypeOK /\ CallInv /\ LogInv /\ [Next]_vars => [Store!BoardNext]_board
  <2> SUFFICES ASSUME TypeOK, CallInv, LogInv, [Next]_vars
               PROVE  Store!BoardNext \/ UNCHANGED board
    OBVIOUS
  <2>1. ASSUME NEW p \in Procs, EndAppend(p) PROVE Store!BoardNext \/ UNCHANGED board
    BY <2>1, AppendImplements
  <2>2. ASSUME NEW p \in Procs, BootLog(p) PROVE UNCHANGED board
    BY <2>2 DEF BootLog, LogInv, NoBoot, Booting
  <2>3. ASSUME NEW p \in Procs,
               \/ Call(p) \/ Enter(p) \/ GiveUp(p) \/ Leave(p) \/ ReadIds(p) \/ PutIds(p)
               \/ Read(p) \/ BeginAppend(p) \/ BootCall(p) \/ BootCheck(p) \/ BootIds(p)
               \/ Crash(p)
        PROVE  UNCHANGED board
    BY <2>3, Zenon DEF Call, Enter, GiveUp, Leave, ReadIds, PutIds, Read, BeginAppend,
                       BootCall, BootCheck, BootIds, Crash, logVars
  <2>4. CASE Rollback \/ UNCHANGED vars
    BY <2>4, Zenon DEF Rollback, vars, logVars
  <2> QED BY <2>1, <2>2, <2>3, <2>4 DEF Next
<1> QED BY <1>1, <1>2, LogInvHolds, PTL DEF Spec, ImplementsBoard, Store!BoardSpec
-----------------------------------------------------------------------------
(* What rollbacks, torn writes and migrations cannot break *)

\* The id about to be written down is not in the log.
UnloggedInv ==
  \A p \in Procs : pc[p] = "put_ids" => op[p].id \notin DOMAIN board[op[p].kind]

\* A log that does not exist replays to no rows; a bootstrap that is about to
\* write one still finds none.
AbsentInv ==
  /\ ~exists => board = EmptyBoard
  /\ \A p \in Procs : pc[p] = "writing" => exists
  /\ \A p \in Procs : pc[p] = "boot_log" => ~exists

\* Every step keeps the id about to be written down out of the log.
LEMMA UnloggedStep ==
  ASSUME TypeOK, CallInv, LockInv, UnloggedInv, [Next]_vars
  PROVE  UnloggedInv'
<1> USE DEF TypeOK, UnloggedInv, Goto, callVars, logVars
<1>1. ASSUME NEW p \in Procs, ReadIds(p) PROVE UnloggedInv'
  <2>1. pc[p] = "read_ids" /\ op[p] \in Event /\ op[p].kind \in Kinds
    BY <1>1 DEF ReadIds, Event, Calling, Booting
  <2>2. \A q \in Procs : pc[q] # "put_ids"
    BY <2>1 DEF LockInv, InLock
  <2>3. CASE corrupt
    BY <1>1, <2>2, <2>3 DEF ReadIds
  <2>4. CASE ~corrupt
    <3> DEFINE k == op[p].kind
    <3>1. PICK highest \in {0} \cup DOMAIN board[k] :
            /\ \A i \in DOMAIN board[k] : i <= highest
            /\ op' = [op EXCEPT ![p].id = Allocated(next[k], highest)]
            /\ counts' = [counts EXCEPT ![p] = next]
            /\ Goto(p, "put_ids")
      BY <1>1, <2>4 DEF ReadIds
    <3>2. highest \in Nat /\ next[k] \in Nat /\ \A i \in DOMAIN board[k] : i \in Nat
      BY <2>1 DEF IsBoard, IsTable, Ids
    <3>3. /\ op'[p].id = IF next[k] <= highest THEN highest + 1 ELSE next[k]
          /\ op'[p].kind = k
      BY <2>1, <3>1 DEF Event, Allocated
    <3>4. op'[p].id \notin DOMAIN board[k]
      <4> HIDE DEF k
      <4>1. highest < op'[p].id /\ op'[p].id \in Nat
        BY <3>2, <3>3
      <4>2. \A i \in DOMAIN board[k] : i <= highest
        BY <3>1 DEF k
      <4> QED BY <3>2, <4>1, <4>2
    <3>5. \A q \in Procs : pc'[q] = "put_ids" => q = p
      BY <2>2, <3>1
    <3>6. UNCHANGED board
      BY <1>1 DEF ReadIds
    <3> QED BY <3>3, <3>4, <3>5, <3>6
  <2> QED BY <2>3, <2>4
<1>2. ASSUME NEW p \in Procs, EndAppend(p) \/ BootLog(p) PROVE UnloggedInv'
  <2>1. pc[p] \in {"writing", "boot_log"} /\ pc' = [pc EXCEPT ![p] = IF pc[p] = "writing" THEN "leave" ELSE "boot_ids"]
    BY <1>2, Zenon DEF EndAppend, BootLog
  <2>2. \A q \in Procs : pc[q] # "put_ids"
    BY <2>1 DEF LockInv, InLock
  <2> QED BY <2>1, <2>2
<1>3. ASSUME NEW p \in Procs,
             \/ Call(p) \/ Enter(p) \/ GiveUp(p) \/ Leave(p) \/ PutIds(p) \/ Read(p)
             \/ BeginAppend(p) \/ BootCall(p) \/ BootCheck(p) \/ BootIds(p) \/ Crash(p)
      PROVE  UnloggedInv'
  <2>1. UNCHANGED board
    BY <1>3, Zenon DEF Call, Enter, GiveUp, Leave, PutIds, Read, BeginAppend, BootCall,
                       BootCheck, BootIds, Crash
  <2>2. \A q \in Procs : pc'[q] = "put_ids" => pc[q] = "put_ids" /\ op'[q] = op[q]
    BY <1>3 DEF Call, Enter, GiveUp, Leave, PutIds, Read, BeginAppend, BootCall, BootCheck,
                BootIds, Crash
  <2> QED BY <2>1, <2>2
<1>4. CASE Rollback \/ UNCHANGED vars
  BY <1>4 DEF Rollback, vars
<1> QED BY <1>1, <1>2, <1>3, <1>4 DEF Next

\* Whatever git does to the counter file, and whatever is killed or migrated,
\* no id that the log holds is handed out again.
THEOREM LoggedIdsStayTaken == Spec => LoggedIdsNeverReissued
<1>1. Init => UnloggedInv
  BY DEF Init, UnloggedInv
<1>2. UnloggedInv => \A p \in Procs : Allocates(p) => op[p].id \notin DOMAIN board[op[p].kind]
  BY DEF UnloggedInv, Allocates
<1> QED
  BY <1>1, <1>2, UnloggedStep, TypeCorrect, SectionsExclude, PTL DEF Spec, LoggedIdsNeverReissued

\* A log that does not exist has no rows after any step.
LEMMA AbsentStep ==
  ASSUME TypeOK, LockInv, AbsentInv, [Next]_vars
  PROVE  AbsentInv'
<1> USE DEF TypeOK, AbsentInv, Goto, callVars, logVars
<1>1. ASSUME NEW p \in Procs, BeginAppend(p) PROVE AbsentInv'
  <2>1. pc[p] = "write" /\ pc' = [pc EXCEPT ![p] = "writing"] /\ exists'
    BY <1>1, Zenon DEF BeginAppend
  <2>2. \A q \in Procs : pc[q] # "boot_log"
    BY <2>1 DEF LockInv, InLock
  <2> QED BY <2>1, <2>2
<1>2. ASSUME NEW p \in Procs, EndAppend(p) PROVE AbsentInv'
  <2>1. pc[p] = "writing" /\ pc' = [pc EXCEPT ![p] = "leave"] /\ UNCHANGED exists
    BY <1>2, Zenon DEF EndAppend
  <2> QED BY <2>1
<1>3. ASSUME NEW p \in Procs, BootLog(p) PROVE AbsentInv'
  <2>1. pc[p] = "boot_log" /\ pc' = [pc EXCEPT ![p] = "boot_ids"] /\ exists'
    BY <1>3, Zenon DEF BootLog
  <2>2. \A q \in Procs : pc[q] = "boot_log" => q = p
    BY <2>1 DEF LockInv, InLock
  <2> QED BY <2>1, <2>2
<1>4. ASSUME NEW p \in Procs, BootCheck(p) PROVE AbsentInv'
  <2>1. pc' = [pc EXCEPT ![p] = IF exists THEN "boot_leave" ELSE "boot_log"]
        /\ UNCHANGED <<exists, board>>
    BY <1>4 DEF BootCheck
  <2> QED BY <2>1
<1>5. ASSUME NEW p \in Procs,
             \/ Call(p) \/ Enter(p) \/ GiveUp(p) \/ Leave(p) \/ ReadIds(p) \/ PutIds(p)
             \/ Read(p) \/ BootCall(p) \/ BootIds(p) \/ Crash(p)
      PROVE  AbsentInv'
  <2>1. UNCHANGED <<board, exists>>
    BY <1>5, Zenon DEF Call, Enter, GiveUp, Leave, ReadIds, PutIds, Read, BootCall, BootIds, Crash
  <2>2. \A q \in Procs : pc'[q] \in {"writing", "boot_log"} => pc'[q] = pc[q]
    BY <1>5 DEF Call, Enter, GiveUp, Leave, ReadIds, PutIds, Read, BootCall, BootIds, Crash
  <2> QED BY <2>1, <2>2
<1>6. CASE Rollback \/ UNCHANGED vars
  BY <1>6 DEF Rollback, vars
<1> QED BY <1>1, <1>2, <1>3, <1>4, <1>5, <1>6 DEF Next

\* No row ever leaves the log: appends only add, and a bootstrap overwrites
\* only a log that is not there.
THEOREM RowsStay == Spec => RowsNeverLost
<1>1. Init => AbsentInv
  BY DEF Init, AbsentInv
<1>2. TypeOK /\ CallInv /\ LockInv /\ AbsentInv /\ [Next]_vars
        => [\A k \in Kinds : DOMAIN board[k] \subseteq DOMAIN board'[k]]_vars
  <2> SUFFICES ASSUME TypeOK, CallInv, AbsentInv, [Next]_vars
               PROVE  \A k \in Kinds : DOMAIN board[k] \subseteq DOMAIN board'[k]
    OBVIOUS
  <2>1. ASSUME NEW p \in Procs, EndAppend(p)
        PROVE  \A k \in Kinds : DOMAIN board[k] \subseteq DOMAIN board'[k]
    <3>1. board' = board \/ board' = Apply(board, op[p])
      BY <2>1, Zenon DEF EndAppend
    <3>2. op[p] \in Event /\ IsBoard(board)
      BY <2>1 DEF EndAppend, TypeOK, Booting
    <3>3. \A k \in Kinds : DOMAIN board[k] \subseteq DOMAIN Apply(board, op[p])[k]
      BY <3>2, ApplyDomain
    <3> QED BY <3>1, <3>3
  <2>2. ASSUME NEW p \in Procs, BootLog(p)
        PROVE  \A k \in Kinds : DOMAIN board[k] \subseteq DOMAIN board'[k]
    <3>1. board = EmptyBoard
      BY <2>2 DEF BootLog, AbsentInv
    <3> QED BY <3>1 DEF EmptyBoard, EmptyTable
  <2>3. ASSUME NEW p \in Procs,
               \/ Call(p) \/ Enter(p) \/ GiveUp(p) \/ Leave(p) \/ ReadIds(p) \/ PutIds(p)
               \/ Read(p) \/ BeginAppend(p) \/ BootCall(p) \/ BootCheck(p) \/ BootIds(p)
               \/ Crash(p)
        PROVE  UNCHANGED board
    BY <2>3, Zenon DEF Call, Enter, GiveUp, Leave, ReadIds, PutIds, Read, BeginAppend,
                       BootCall, BootCheck, BootIds, Crash, logVars
  <2>4. CASE Rollback \/ UNCHANGED vars
    BY <2>4, Zenon DEF Rollback, vars, logVars
  <2> QED BY <2>1, <2>2, <2>3, <2>4 DEF Next
<1> QED
  BY <1>1, <1>2, AbsentStep, TypeCorrect, SectionsExclude, PTL DEF Spec, RowsNeverLost
=============================================================================

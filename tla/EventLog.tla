------------------------------ MODULE EventLog ------------------------------
(***************************************************************************)
(* taskman/eventlog/log.py and store.py: the append-only event log, the id *)
(* counters, and the operations on them, run by concurrent processes.      *)
(*                                                                         *)
(* The log is represented by the board it replays to: appending an event   *)
(* folds it in.  `tail` says whether the last line lacks its newline,      *)
(* `corrupt` that replay refuses the log.  Everything between acquiring    *)
(* and releasing the lock is split where another process, a kill or a      *)
(* lockless reader could come between.                                     *)
(***************************************************************************)
EXTENDS BoardRows

CONSTANTS
  NoEvent,        \* a process that is not in a call
  Targets,        \* ids that callers pass to link and unlink
  Seed,           \* the migration's rows: [Kinds -> SUBSET Ids]
  Migrating,      \* TRUE: log.bootstrap is among the calls
  TornWrites,     \* TRUE: a kill in the middle of a write leaves part of the line
  MaxAdds,        \* bound: add calls in a behaviour
  MaxCrashes,     \* bound: kills in a behaviour
  MaxRollbacks    \* bound: `git reset --hard` of the counter file in a behaviour

ASSUME LogAssumption ==
  /\ NoEvent \notin Event
  /\ Targets \subseteq Ids
  /\ Seed \in [Kinds -> SUBSET Ids]
  /\ \A k \in Kinds : \E h \in {0} \cup Seed[k] : \A i \in Seed[k] : i <= h
  /\ Migrating \in BOOLEAN
  /\ TornWrites \in BOOLEAN
  /\ MaxAdds \in Nat /\ MaxCrashes \in Nat /\ MaxRollbacks \in Nat

VARIABLES
  inside,     \* the board lock (BoardMutex)
  exists,     \* events.jsonl exists
  board,      \* what the whole lines of events.jsonl replay to
  tail,       \* the text after its last newline: "none", "partial" or "merged"
  corrupt,    \* replay raises
  next,       \* next_ids: the next id per entity, 0 when the file has none
  pc,         \* per process: where in its call it is
  op,         \* per process: the event its call is to append
  counts,     \* per process: next_ids as it read it
  issued,     \* history: the <<entity, id>> that next_id has written down as taken
  told,       \* history: <<agent, task>> told that its claim won, until a release
  used        \* history: bounded events so far

logVars  == <<exists, board, tail, corrupt, told>>
callVars == <<pc, op, counts>>
vars     == <<inside, next, issued, used, logVars, callVars>>

Mutex == INSTANCE BoardMutex

Booting == {"boot_want", "boot_check", "boot_log", "boot_ids", "boot_leave"}
Calling == {"want_id", "read_ids", "put_ids", "got_id", "want", "read", "write", "writing", "leave"}

Bounded == {"adds", "crashes", "rollbacks"}

NoCounts == [k \in Kinds |-> 0]

TypeOK ==
  /\ inside \subseteq Procs
  /\ exists \in BOOLEAN
  /\ IsBoard(board)
  /\ tail \in {"none", "partial", "merged"}
  /\ corrupt \in BOOLEAN
  /\ next \in [Kinds -> Nat]
  /\ pc \in [Procs -> {"idle"} \cup Calling \cup Booting]
  /\ op \in [Procs -> Event \cup {NoEvent}]
  /\ \A p \in Procs : pc[p] \notin {"idle"} \cup Booting => op[p] \in Event
  /\ counts \in [Procs -> [Kinds -> Nat]]
  /\ issued \subseteq Kinds \X Nat
  /\ told \subseteq Procs \X Nat
  /\ used \in [Bounded -> Nat]

Init ==
  /\ Mutex!MutexInit
  /\ exists = FALSE
  /\ board = EmptyBoard
  /\ tail = "none"
  /\ corrupt = FALSE
  /\ next = NoCounts
  /\ pc = [p \in Procs |-> "idle"]
  /\ op = [p \in Procs |-> NoEvent]
  /\ counts = [p \in Procs |-> NoCounts]
  /\ issued = {}
  /\ told = {}
  /\ used = [what \in Bounded |-> 0]

Goto(p, label) == pc' = [pc EXCEPT ![p] = label]
Uses(what, max) == used[what] < max /\ used' = [used EXCEPT ![what] = @ + 1]
-----------------------------------------------------------------------------
(* the board lock *)

\* Mutant: the section is entered whether or not the lock is free.
EnterUnlocked(p) ==
  /\ pc[p] \in {"want_id", "want"}
  /\ inside' = inside \cup {p}
  /\ Goto(p, IF pc[p] = "want_id" THEN "read_ids" ELSE "read")
  /\ UNCHANGED <<next, issued, used, logVars, op, counts>>

\* The call waiting for the lock gets it.
Enter(p) ==
  /\ pc[p] \in {"want_id", "want", "boot_want"}
  /\ Mutex!Enter(p)
  /\ Goto(p, CASE pc[p] = "want_id" -> "read_ids"
               [] pc[p] = "want" -> "read"
               [] pc[p] = "boot_want" -> "boot_check")
  /\ UNCHANGED <<next, issued, used, logVars, op, counts>>

\* LockTimeout: the call raises.  An add may have its id by now.
GiveUp(p) ==
  /\ pc[p] \in {"want_id", "want", "boot_want"}
  /\ Goto(p, "idle")
  /\ op' = [op EXCEPT ![p] = NoEvent]
  /\ UNCHANGED <<inside, next, issued, used, logVars, counts>>

\* The lock is released: next_id returns to add, any other call to its caller.
Leave(p) ==
  /\ pc[p] \in {"got_id", "leave", "boot_leave"}
  /\ Mutex!Leave(p)
  /\ Goto(p, IF pc[p] = "got_id" THEN "want" ELSE "idle")
  /\ op' = IF pc[p] = "got_id" THEN op ELSE [op EXCEPT ![p] = NoEvent]
  /\ UNCHANGED <<next, issued, used, logVars, counts>>
-----------------------------------------------------------------------------
(* store: add, update, link, unlink, claim, release *)

\* A call.  add asks for an id first, the others bring theirs; a capture or a
\* decision may be created with its task_id.  Only link and unlink have a target.
Call(p) ==
  /\ pc[p] = "idle"
  /\ \E verb \in Verbs, k \in Kinds, d \in Data, i \in Targets, n \in Targets, links \in SUBSET Targets :
       /\ Valid(verb, k)
       /\ verb \in {"link", "unlink"} \/ n = i
       /\ links # {} => verb = "add" /\ Shape[k] = "one" /\ links = {n}
       /\ op' = [op EXCEPT ![p] = [verb |-> verb, kind |-> k, id |-> IF verb = "add" THEN 0 ELSE i,
                                   data |-> d, initial |-> links, target |-> n, agent |-> p]]
       /\ Goto(p, IF verb = "add" THEN "want_id" ELSE "want")
       /\ IF verb = "add" THEN Uses("adds", MaxAdds) ELSE UNCHANGED used
  /\ UNCHANGED <<inside, next, issued, logVars, counts>>

\* Mutants: any counter that is present is believed, as it was before
\* 2026-09-22; the log alone decides.
AllocatedByCounter(count, highest)  == IF count = 0 THEN highest + 1 ELSE count
AllocatedByLog(count, highest)      == highest + 1

\* The counter is believed only when it is ahead of the log.
Allocated(count, highest) == IF count <= highest THEN highest + 1 ELSE count

\* _next_id_locked, first half: the counter file and a replay of the log give
\* the id.
ReadIds(p) ==
  /\ pc[p] = "read_ids"
  /\ LET k == op[p].kind IN
     IF corrupt
     THEN Goto(p, "leave") /\ UNCHANGED <<op, counts>>
     ELSE \E highest \in {0} \cup DOMAIN board[k] :
            /\ \A i \in DOMAIN board[k] : i <= highest
            /\ op' = [op EXCEPT ![p].id = Allocated(next[k], highest)]
            /\ counts' = [counts EXCEPT ![p] = next]
            /\ Goto(p, "put_ids")
  /\ UNCHANGED <<inside, next, issued, used, logVars>>

\* Second half: the whole counter file is replaced.
PutIds(p) ==
  /\ pc[p] = "put_ids"
  /\ next' = [counts[p] EXCEPT ![op[p].kind] = op[p].id + 1]
  /\ counts' = [counts EXCEPT ![p] = NoCounts]
  /\ issued' = issued \cup {<<op[p].kind, op[p].id>>}
  /\ Goto(p, "got_id")
  /\ UNCHANGED <<inside, used, logVars, op>>

\* Mutant: claim does not look at claimed_by.
AdmitsAnyClaim(e) ==
  e.verb \in {"add", "release"} \/ (~corrupt /\ e.id \in DOMAIN board[e.kind])

\* What a call checks under the lock before it appends; add and release
\* check nothing and do not replay.
Admits(e) ==
  \/ e.verb \in {"add", "release"}
  \/ /\ ~corrupt
     /\ e.id \in DOMAIN board[e.kind]
     /\ e.verb = "claim" => board[e.kind][e.id].claimed_by = NoAgent

\* The replay inside the transaction; False or an exception leaves.
Read(p) ==
  /\ pc[p] = "read"
  /\ Goto(p, IF Admits(op[p]) THEN "write" ELSE "leave")
  /\ UNCHANGED <<inside, next, issued, used, logVars, op, counts>>

\* The line goes to the end of the file, whatever the file ends with.
BeginAppend(p) ==
  /\ pc[p] = "write"
  /\ exists' = TRUE
  /\ tail' = IF tail = "none" THEN "partial" ELSE "merged"
  /\ Goto(p, "writing")
  /\ UNCHANGED <<inside, next, issued, used, board, corrupt, told, op, counts>>

\* The newline is written.  Replay refuses a line that is two run together,
\* and a second create of an id; claim and the others tell their caller True.
EndAppend(p) ==
  /\ pc[p] = "writing"
  /\ LET e == op[p] IN
     /\ tail' = "none"
     /\ corrupt' = (corrupt \/ tail = "merged" \/ DuplicateCreate(board, e))
     /\ board' = IF corrupt' THEN board ELSE Apply(board, e)
     /\ told' = CASE e.verb = "claim"   -> told \cup {<<e.agent, e.id>>}
                  [] e.verb = "release" -> {c \in told : c[2] # e.id}
                  [] OTHER              -> told
  /\ Goto(p, "leave")
  /\ UNCHANGED <<inside, next, issued, used, exists, op, counts>>
-----------------------------------------------------------------------------
(* log.bootstrap: the migration into an empty board directory *)

Seeded(k) == [i \in Seed[k] |-> NewRow(CHOOSE d \in Data : TRUE, {})]

SeedFloor(k) == CHOOSE h \in {0} \cup Seed[k] : \A i \in Seed[k] : i <= h

BootCall(p) ==
  /\ Migrating
  /\ pc[p] = "idle"
  /\ ~exists
  /\ Goto(p, "boot_want")
  /\ UNCHANGED <<inside, next, issued, used, logVars, op, counts>>

\* Mutant: the log is looked for only before the lock.
BootCheckOnce(p) ==
  /\ pc[p] = "boot_check"
  /\ Goto(p, "boot_log")
  /\ UNCHANGED <<inside, next, issued, used, logVars, op, counts>>

\* Under the lock the log is looked for again.
BootCheck(p) ==
  /\ pc[p] = "boot_check"
  /\ Goto(p, IF exists THEN "boot_leave" ELSE "boot_log")
  /\ UNCHANGED <<inside, next, issued, used, logVars, op, counts>>

\* os.replace: the log appears whole.
BootLog(p) ==
  /\ pc[p] = "boot_log"
  /\ exists' = TRUE
  /\ board' = [k \in Kinds |-> Seeded(k)]
  /\ tail' = "none"
  /\ Goto(p, "boot_ids")
  /\ UNCHANGED <<inside, next, issued, used, corrupt, told, op, counts>>

\* os.replace: the counters, each past the seeded ids.
BootIds(p) ==
  /\ pc[p] = "boot_ids"
  /\ next' = [k \in Kinds |-> SeedFloor(k) + 1]
  /\ Goto(p, "boot_leave")
  /\ UNCHANGED <<inside, issued, used, logVars, op, counts>>
-----------------------------------------------------------------------------
(* the environment *)

\* A process is killed and, the lock being judged stale, loses it.  In the
\* middle of a write it leaves a partial line, if writes can tear.
Crash(p) ==
  /\ pc[p] # "idle"
  /\ pc[p] = "writing" => TornWrites
  /\ Uses("crashes", MaxCrashes)
  /\ inside' = inside \ {p}
  /\ Goto(p, "idle")
  /\ op' = [op EXCEPT ![p] = NoEvent]
  /\ counts' = [counts EXCEPT ![p] = NoCounts]
  /\ UNCHANGED <<next, issued, logVars>>

\* git puts back the counter file of an earlier commit, or none; the log,
\* with its later events, stays.
Rollback ==
  /\ Uses("rollbacks", MaxRollbacks)
  /\ \E old \in [Kinds -> UNION {0..next[k] : k \in Kinds}] :
       /\ \A k \in Kinds : old[k] <= next[k]
       /\ next' = old
  /\ UNCHANGED <<inside, issued, logVars, callVars>>
-----------------------------------------------------------------------------
Next ==
  \/ \E p \in Procs :
       \/ Call(p) \/ Enter(p) \/ GiveUp(p) \/ Leave(p)
       \/ ReadIds(p) \/ PutIds(p) \/ Read(p) \/ BeginAppend(p) \/ EndAppend(p)
       \/ BootCall(p) \/ BootCheck(p) \/ BootLog(p) \/ BootIds(p)
       \/ Crash(p)
  \/ Rollback

Spec == Init /\ [][Next]_vars
-----------------------------------------------------------------------------
(* Properties *)

\* Every whole line of the log can be folded: no command is locked out of its
\* own board, and a torn tail is dropped by replay, not fatal.
Replayable == ~corrupt

\* next_id writes down op[p].id; the line of op[p] is complete.
Allocates(p) == pc[p] = "put_ids" /\ pc'[p] = "got_id"
Appends(p) == pc[p] = "writing" /\ pc'[p] = "leave"

\* An id written down as taken is never written down again for the same
\* entity, even when the add it was for was lost to a kill or a timeout.
IdsNeverReissued ==
  [][\A p \in Procs : Allocates(p) => <<op[p].kind, op[p].id>> \notin issued]_vars

\* No id that the log already holds is handed out again, whatever git did to
\* the counter file.
LoggedIdsNeverReissued ==
  [][\A p \in Procs : Allocates(p) => op[p].id \notin DOMAIN board[op[p].kind]]_vars

\* A create is appended for an id that has none: the duplicate that _apply
\* refuses is unreachable on a healthy log.
NoDuplicateCreate ==
  [][\A p \in Procs : Appends(p) => ~DuplicateCreate(board, op[p])]_vars

\* Whoever was told that its claim won is the claimant every replay shows,
\* until the task is released; so no two agents are told.
ClaimWinnerAgrees ==
  ~corrupt => \A c \in told : /\ c[2] \in DOMAIN board["task"]
                              /\ board["task"][c[2]].claimed_by = c[1]

\* No row is ever lost: neither an append nor a bootstrap that lost the race
\* for the empty directory overwrites what a writer got in.
RowsNeverLost == [][\A k \in Kinds : DOMAIN board[k] \subseteq DOMAIN board'[k]]_vars

\* The operations are atomic changes of the board.
Store == INSTANCE Board
ImplementsBoard == Store!BoardSpec
=============================================================================

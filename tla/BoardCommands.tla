--------------------------- MODULE BoardCommands ----------------------------
(***************************************************************************)
(* taskman/cli.py: the commands that change the board.                     *)
(*                                                                         *)
(* A command replays the log once, decides on that snapshot, and then      *)
(* makes its store calls one by one.  Each call is atomic (module Board);  *)
(* a command is not: other commands come between its calls, and a kill or  *)
(* a LockTimeout drops the calls it has not made.                          *)
(*                                                                         *)
(* A row keeps the fields that relate it to other rows.  Claims are        *)
(* EventLog's.  Features, which nothing removes, and the text, tags, status *)
(* and priority of rows, which no other row depends on, are left out, and   *)
(* with them the commands that change nothing else.                        *)
(***************************************************************************)
EXTENDS Naturals, FiniteSets, FiniteSetsExt

CONSTANTS
  Procs,         \* processes that run taskman
  Transcripts,   \* session transcripts, by (session_id, portable path)
  NoKey,         \* a row that is not a session's
  MaxRows,       \* bound: rows, sessions aside, when an add begins
  MaxRaced,      \* bound: rows, sessions aside, when a command begins while another runs
  MaxDeaths      \* bound: commands cut short

Kinds == {"pbi", "task", "requirement", "capture", "decision", "session"}

ASSUME CommandsAssumption ==
  /\ NoKey \notin Transcripts
  /\ MaxRows \in Nat
  /\ MaxRaced \in Nat
  /\ MaxDeaths \in Nat

VARIABLES
  board,      \* per kind: id -> row
  command,    \* per process: the command it runs, "none" between commands
  todo,       \* per process: the store calls still to be made
  deaths,     \* commands cut short so far
  alone       \* history: no command has begun while another ran

vars == <<board, command, todo, deaths, alone>>

Ids == Nat \ {0}

\* of: pbi_id of a task, source_pbi_id of a requirement, task_id of a capture
\* or decision, 0 for null.  status: "removed" is `deleted: true` of a PBI and
\* `status: removed` of a requirement.
Row == [of : Nat, blocked_by : SUBSET Ids,
        status : {"live", "removed"}, key : Transcripts \cup {NoKey}]

Blank == [of |-> 0, blocked_by |-> {}, status |-> "live", key |-> NoKey]

\* A store call.  `fields` are the names a set brings, with their values in
\* `row`; the target of a link or unlink is row.of; `promotes` is the capture
\* that `task add --from-capture` links once its task has an id.
Write == [verb : {"upsert", "add", "set", "link", "unlink"}, kind : Kinds, id : Nat,
          fields : SUBSET {"of", "status", "key"}, row : Row, promotes : SUBSET Ids]

Names == {"none", "pbi_add", "pbi_remove", "pbi_remove_force", "task_add", "task_set", "task_link",
          "note_add", "note_link", "capture_unlink", "requirement_add", "requirement_modify",
          "requirement_remove", "session_record"}

TypeOK ==
  /\ DOMAIN board = Kinds
  /\ \A k \in Kinds : /\ DOMAIN board[k] \subseteq Ids
                      /\ board[k] = [i \in DOMAIN board[k] |-> board[k][i]]
                      /\ \A i \in DOMAIN board[k] : board[k][i] \in Row
  /\ command \in [Procs -> Names]
  /\ DOMAIN todo = Procs
  /\ \A p \in Procs : \A w \in todo[p] : w \in Write
  /\ deaths \in Nat
  /\ alone \in BOOLEAN

Init ==
  /\ board = [k \in Kinds |-> [i \in {} |-> Blank]]
  /\ command = [p \in Procs |-> "none"]
  /\ todo = [p \in Procs |-> {}]
  /\ deaths = 0
  /\ alone = TRUE
-----------------------------------------------------------------------------
(* what a command reads: one snapshot of the board *)

Rows(k) == DOMAIN board[k]

\* _get_pbi, _live_pbis: a removed PBI is not found.
LivePbis == {i \in Rows("pbi") : board["pbi"][i].status = "live"}

\* The PBIs a command may be given for an optional --pbi: 0 is no flag.
OptionalPbis == {0} \cup LivePbis

\* The tasks and requirements that name a PBI.
Held(n) == {x \in UNION {{k} \X Rows(k) : k \in {"task", "requirement"}} : board[x[1]][x[2]].of = n}
-----------------------------------------------------------------------------
(* what it writes *)

AddOf(k, row, promotes) ==
  [verb |-> "add", kind |-> k, id |-> 0, fields |-> {}, row |-> row, promotes |-> promotes]
SetOf(k, i, fields, row) ==
  [verb |-> "set", kind |-> k, id |-> i, fields |-> fields, row |-> row, promotes |-> {}]
Relink(verb, k, i, target) ==
  [verb |-> verb, kind |-> k, id |-> i, fields |-> {}, row |-> [Blank EXCEPT !.of = target],
   promotes |-> {}]

\* set: only the fields it brings.
Overwritten(row, w) ==
  [of         |-> IF "of" \in w.fields THEN w.row.of ELSE row.of,
   blocked_by |-> row.blocked_by,
   status     |-> IF "status" \in w.fields THEN w.row.status ELSE row.status,
   key        |-> IF "key" \in w.fields THEN w.row.key ELSE row.key]

\* link and unlink: blocked_by of a task is a list, the others are single.
Linked(row, k, target) ==
  IF k = "task" THEN [row EXCEPT !.blocked_by = @ \cup {target}] ELSE [row EXCEPT !.of = target]
Unlinked(row, target) ==
  [row EXCEPT !.of = IF @ = target THEN 0 ELSE @]

Changed(row, w) ==
  CASE w.verb = "set"    -> Overwritten(row, w)
    [] w.verb = "link"   -> Linked(row, w.kind, w.row.of)
    [] w.verb = "unlink" -> Unlinked(row, w.row.of)

\* The next id of a kind: one past the highest.
Fresh(k) == Cardinality(Rows(k)) + 1

\* Mutant: the PBI is retired before its tasks are detached.
RetireFirst(v, w) ==
  \/ v.kind = "pbi" /\ w.kind # "pbi"
  \/ v.kind = "task" /\ w.kind = "requirement"
  \/ v.kind = w.kind /\ v.id < w.id

\* The order of a command's calls: pbi remove detaches tasks, then
\* requirements, each by id, and retires the PBI last.
Precedes(v, w) ==
  \/ v.kind # "pbi" /\ w.kind = "pbi"
  \/ v.kind = "task" /\ w.kind = "requirement"
  \/ v.kind = w.kind /\ v.id < w.id

Idle(p) == command[p] = "none"

Size == Cardinality(UNION {{k} \X Rows(k) : k \in Kinds \ {"session"}})
Room == Size < MaxRows

Begin(p, name, writes) ==
  /\ Idle(p)
  /\ command' = [command EXCEPT ![p] = name]
  /\ todo' = [todo EXCEPT ![p] = writes]
  /\ LET first == \A q \in Procs : Idle(q) IN
       /\ first \/ Size <= MaxRaced
       /\ alone' = (alone /\ first)
  /\ UNCHANGED <<board, deaths>>
-----------------------------------------------------------------------------
(* the commands; one that is refused writes nothing and is no step *)

PbiAdd(p) == Room /\ Begin(p, "pbi_add", {AddOf("pbi", Blank, {})})

\* Mutant: --force changes nothing.
RefusesNever(tasks, force) == FALSE

\* Without --force a PBI with tasks is not removed; requirements do not count.
Refuses(tasks, force) == tasks # {} /\ ~force

PbiRemove(p) ==
  \E n \in LivePbis, force \in BOOLEAN :
    /\ ~Refuses({x \in Held(n) : x[1] = "task"}, force)
    /\ Begin(p, IF force THEN "pbi_remove_force" ELSE "pbi_remove",
           {SetOf(x[1], x[2], {"of"}, [board[x[1]][x[2]] EXCEPT !.of = 0]) : x \in Held(n)}
           \cup {SetOf("pbi", n, {"status"}, [board["pbi"][n] EXCEPT !.status = "removed"])})

\* With --from-capture the capture is linked in a second call; it may have
\* been promoted before.
TaskAdd(p) ==
  /\ Room
  /\ \E n \in OptionalPbis, caps \in {{}} \cup {{c} : c \in Rows("capture")} :
       Begin(p, "task_add", {AddOf("task", [Blank EXCEPT !.of = n], caps)})

\* task set --pbi moves the task.
TaskSet(p) ==
  \E i \in Rows("task"), n \in LivePbis :
    Begin(p, "task_set", {SetOf("task", i, {"of"}, [board["task"][i] EXCEPT !.of = n])})

\* Mutant: a task may block itself.
BlockersOfAny(i) == Rows("task") \ board["task"][i].blocked_by

\* The tasks that `task link` can still make a blocker of task i.
Blockers(i) == Rows("task") \ (board["task"][i].blocked_by \cup {i})

TaskLink(p) ==
  \E i \in Rows("task") : \E n \in Blockers(i) :
    Begin(p, "task_link", {Relink("link", "task", i, n)})

\* capture add and decision add, with --task or a `#123:` summary or without.
NoteAdd(p) ==
  \E k \in {"capture", "decision"}, n \in {0} \cup Rows("task") :
    Room /\ Begin(p, "note_add", {AddOf(k, [Blank EXCEPT !.of = n], {})})

NoteLink(p) ==
  \E k \in {"capture", "decision"} : \E i \in Rows(k), n \in Rows("task") :
    Begin(p, "note_link", {Relink("link", k, i, n)})

\* The task that was read is the one taken away.
CaptureUnlink(p) ==
  \E i \in Rows("capture") :
    /\ board["capture"][i].of # 0
    /\ Begin(p, "capture_unlink", {Relink("unlink", "capture", i, board["capture"][i].of)})

RequirementAdd(p) ==
  \E n \in OptionalPbis :
    /\ Room
    /\ Begin(p, "requirement_add", {AddOf("requirement", [Blank EXCEPT !.of = n], {})})

\* A removed requirement can be modified, too.
RequirementModify(p) ==
  \E i \in Rows("requirement"), n \in LivePbis :
    Begin(p, "requirement_modify",
        {SetOf("requirement", i, {"of"}, [board["requirement"][i] EXCEPT !.of = n])})

RequirementRemove(p) ==
  \E i \in Rows("requirement") :
    Begin(p, "requirement_remove",
        {SetOf("requirement", i, {"status"}, [board["requirement"][i] EXCEPT !.status = "removed"])})

\* session record, and each transcript of session backfill.
SessionRecord(p) ==
  \E t \in Transcripts :
    Begin(p, "session_record",
          {[verb |-> "upsert", kind |-> "session", id |-> 0, fields |-> {},
            row |-> [Blank EXCEPT !.key = t], promotes |-> {}]})
-----------------------------------------------------------------------------
(* their store calls *)

\* Mutant: a transcript is never found again.
KnownNever(t) == {}

\* The session rows of a transcript.
Known(t) == {i \in Rows("session") : board["session"][i].key = t}

\* _upsert_session replays and decides between an add and a set.
Upsert(p) ==
  \E w \in todo[p] :
    /\ w.verb = "upsert"
    /\ todo' = [todo EXCEPT ![p] =
         {IF Known(w.row.key) = {} THEN AddOf("session", w.row, {})
          ELSE SetOf("session", Min(Known(w.row.key)), {"key"}, w.row)}]
    /\ UNCHANGED <<board, command, deaths, alone>>

\* The command ends with its last call.
Proceed(p, left) ==
  /\ todo' = [todo EXCEPT ![p] = left]
  /\ command' = [command EXCEPT ![p] = IF left = {} THEN "none" ELSE @]
  /\ UNCHANGED <<deaths, alone>>

Insert(p) ==
  \E w \in todo[p] :
    LET i == Fresh(w.kind) IN
    /\ w.verb = "add"
    /\ board' = [board EXCEPT ![w.kind] =
         [j \in DOMAIN @ \cup {i} |-> IF j = i THEN w.row ELSE @[j]]]
    /\ Proceed(p, {Relink("link", "capture", c, i) : c \in w.promotes})

Change(p) ==
  \E w \in todo[p] :
    /\ w.verb \in {"set", "link", "unlink"}
    /\ \A v \in todo[p] : v = w \/ Precedes(w, v)
    /\ board' = [board EXCEPT ![w.kind] =
         [j \in DOMAIN @ |-> IF j = w.id THEN Changed(@[j], w) ELSE @[j]]]
    /\ Proceed(p, todo[p] \ {w})

\* A kill, or LockTimeout out of a store call.
CutShort(p) ==
  /\ ~Idle(p)
  /\ deaths < MaxDeaths
  /\ deaths' = deaths + 1
  /\ command' = [command EXCEPT ![p] = "none"]
  /\ todo' = [todo EXCEPT ![p] = {}]
  /\ UNCHANGED <<board, alone>>
-----------------------------------------------------------------------------
Next ==
  \E p \in Procs :
    \/ PbiAdd(p) \/ PbiRemove(p)
    \/ TaskAdd(p) \/ TaskSet(p) \/ TaskLink(p)
    \/ NoteAdd(p) \/ NoteLink(p) \/ CaptureUnlink(p)
    \/ RequirementAdd(p) \/ RequirementModify(p) \/ RequirementRemove(p)
    \/ SessionRecord(p)
    \/ Upsert(p) \/ Insert(p) \/ Change(p)
    \/ CutShort(p)

Spec == Init /\ [][Next]_vars
-----------------------------------------------------------------------------
(* Properties *)

\* Every id kept in a row is the id of a row: what a command checked on its
\* snapshot is still there when its calls are made.
References == {<<"task", "pbi">>, <<"requirement", "pbi">>, <<"capture", "task">>, <<"decision", "task">>}
NoDanglingReference ==
  /\ \A r \in References : \A i \in Rows(r[1]) : board[r[1]][i].of \in {0} \cup Rows(r[2])
  /\ \A i \in Rows("task") : board["task"][i].blocked_by \subseteq Rows("task") \ {i}

\* While commands run one at a time no task and no requirement names a PBI
\* that has been removed, even when a pbi remove is killed between its calls.
RetiredPbisAreEmpty ==
  alone => \A n \in Rows("pbi") \ LivePbis : Held(n) = {}

\* While commands run one at a time there is one session row per transcript,
\* however often it is recorded and wherever a record is cut short.
OneSessionPerTranscript ==
  alone => \A i, j \in Rows("session") :
             board["session"][i].key = board["session"][j].key => i = j

\* A task loses its PBI only when somebody removes a PBI with --force,
\* whatever was read before and written since.
TasksDetachedOnlyByForce ==
  [][\A i \in Rows("task") :
       board["task"][i].of # 0 /\ board'["task"][i].of = 0
       => \E p \in Procs : command[p] = "pbi_remove_force" /\ todo'[p] # todo[p]]_vars
=============================================================================

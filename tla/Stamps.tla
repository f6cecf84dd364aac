------------------------------- MODULE Stamps -------------------------------
(***************************************************************************)
(* hooks/stamp-tracker.py: the times of a run's subagents.                 *)
(*                                                                         *)
(* Before a subagent is spawned a hook notes the start in a ledger beside  *)
(* the run's board; when the call returns another pairs it with the return *)
(* and moves the span to the board, or leaves it in the ledger for a later *)
(* hook.  The orchestrator writes the same board.  Nothing is locked, a    *)
(* file is truncated and then filled, and every step of a hook reads or    *)
(* writes one file.                                                        *)
(*                                                                         *)
(* A time is the call it was taken of.  The board's entries stand in the   *)
(* order of their waves, lanes and calls, which is the order of Calls.     *)
(***************************************************************************)
EXTENDS Naturals, FiniteSets, SequencesExt

CONSTANTS
  Hook,        \* places where a hook can run
  Run,         \* runs, each with its board and its ledger
  LastCall,    \* calls of the subagent tool are 1 .. LastCall
  LaneOf,      \* the lane whose entry a call gets
  RunOf,       \* the run that spawns a call
  Briefed,     \* calls whose prompt holds the brief of their lane
  Mentions,    \* the runs that the prompt of a call names
  Fits,        \* the calls whose entry's name begins with a call's subagent_type
  Input,       \* _task_key: calls with the same input share it
  AtLaunch,    \* _returns_at_launch: calls in the background
  Unset,       \* an empty field
  ByHand,      \* a value that the orchestrator has written
  Truncated,   \* a file that has been truncated and not yet filled
  MaxStrokes,  \* bound: writes of the orchestrator
  MaxKills,    \* bound: hooks cut short
  Spent        \* what is used up of the two bounds to begin with

Calls == 1 .. LastCall

ASSUME StampsAssumption ==
  /\ LastCall \in Nat
  /\ RunOf \in [Calls -> Run]
  /\ Briefed \subseteq Calls
  /\ Mentions \in [Calls -> SUBSET Run]
  /\ Fits \in [Calls -> SUBSET Calls]
  /\ AtLaunch \subseteq Calls
  /\ MaxStrokes \in Nat /\ MaxKills \in Nat
  /\ Spent \subseteq [strokes : 0 .. MaxStrokes, kills : 0 .. MaxKills]

VARIABLES
  tracker,     \* tracker.json: run_status, and the entries by call
  ledger,      \* .agent-times.json: open calls by input, spans in their order
  hook,        \* the call each hook handles, the step it is at and its locals
  spawned,     \* calls whose PreToolUse has fired
  returned,    \* calls whose PostToolUse has fired
  strokes,     \* writes of the orchestrator so far, and those an editing tool's hook may yet follow
  kills,       \* hooks cut short so far
  overlapped,  \* history: runs at which two hooks were at work at once
  cut,         \* history: runs at which a hook was killed
  said,        \* history: what the orchestrator wrote while no hook held an older board
  recorded     \* history: calls whose span a hook has put into a run's ledger

calls == <<spawned, returned>>
stampsHistory == <<kills, cut, said, recorded>>
stampsVars == <<tracker, ledger, hook, calls, strokes, overlapped, stampsHistory>>

Inputs == {Input[c] : c \in Calls}
Value == Calls \cup {Unset, ByHand}
Blank == [started |-> Unset, ended |-> Unset]
Entry == [started : Value, ended : Value]
Board == [status : {"running", "shipped"}, agents : UNION {[D -> Entry] : D \in SUBSET Calls}]

\* A span of call c, with its lane if the board told it.
SpanRow == [call : Calls, lane : {LaneOf[c] : c \in Calls} \cup {Unset}, started : Calls \cup {Unset},
         ended : Calls \cup {Unset}]

Ledger == [open : [Inputs -> Calls \cup {Unset}], spans : Seq(SpanRow)]

\* What marks a field or a file is none of what it can hold.
ASSUME StampsValues ==
  /\ Unset # ByHand /\ {Unset, ByHand} \cap Calls = {}
  /\ Truncated \notin Board /\ Truncated \notin Ledger

NoLedger == [open |-> [k \in Inputs |-> Unset], spans |-> <<>>]

\* What the orchestrator can write: an entry, a field of it, the end of the run.
Fact == (Calls \X {"entry", "started", "ended"}) \cup {<<"shipped">>}

Resting == [at |-> "idle"]

StampsTypeOK ==
  /\ \A r \in Run : tracker[r] = Truncated \/
       /\ tracker[r] \in Board
       /\ \A c \in DOMAIN tracker[r].agents : RunOf[c] = r
  /\ \A r \in Run : ledger[r] \in {Truncated} \cup Ledger
  /\ spawned \subseteq Calls /\ returned \subseteq spawned
  /\ strokes \in [made : Nat, open : Nat]
  /\ kills \in Nat
  /\ overlapped \cup cut \subseteq Run
  /\ said \in [Run -> SUBSET Fact]
  /\ recorded \in [Run -> SUBSET Calls]

StampsInit ==
  \* A run's board may be set up with entries, or still be without.
  /\ \E s \in [Run -> {"running", "shipped"}], E \in SUBSET Calls :
       tracker = [r \in Run |-> [status |-> s[r], agents |-> [c \in {d \in E : RunOf[d] = r} |-> Blank]]]
  /\ ledger = [r \in Run |-> NoLedger]
  /\ hook = [h \in Hook |-> Resting]
  /\ spawned = {} /\ returned = {}
  /\ \E spent \in Spent : strokes = [made |-> spent.strokes, open |-> 0] /\ kills = spent.kills
  /\ overlapped = {} /\ cut = {}
  /\ said = [r \in Run |-> {}]
  /\ recorded = [r \in Run |-> {}]
-----------------------------------------------------------------------------
(* the board in a hook's hands *)

\* The entry still lacks something the span has.
Lacks(e, s) == \E f \in {"started", "ended"} : e[f] = Unset /\ s[f] # Unset

\* Entries that apply_span may fill.
Wanting(agents, s) == {c \in DOMAIN agents : c \in Fits[s.call] /\ Lacks(agents[c], s)}

\* The first pass looks in the span's lane, the second everywhere.
Landing(agents, s) ==
  LET near == {c \in Wanting(agents, s) : LaneOf[c] = s.lane} IN
  IF near # {} THEN {Min(near)}
  ELSE IF Wanting(agents, s) # {} THEN {Min(Wanting(agents, s))} ELSE {}

\* Mutant: a value that is there is replaced.
FilledOver(v, s, f) == IF s[f] # Unset THEN s[f] ELSE v

Filled(v, s, f) == IF v = Unset THEN s[f] ELSE v

\* apply_span
ApplySpan(agents, s) ==
  [c \in DOMAIN agents |->
    IF c \in Landing(agents, s)
      THEN [started |-> Filled(agents[c].started, s, "started"),
            ended   |-> Filled(agents[c].ended, s, "ended")]
      ELSE agents[c]]

\* ledger["spans"]: those that found no entry.
LeftIn(left, s, landed) == IF landed THEN left ELSE Append(left, s)

\* drain, on what it has read: the entries and the spans left, after each span.
DrainedUpTo(agents, spans) ==
  LET upTo[n \in 0 .. Len(spans)] ==
        IF n = 0 THEN [agents |-> agents, left |-> <<>>]
        ELSE [agents |-> ApplySpan(upTo[n - 1].agents, spans[n]),
              left   |-> LeftIn(upTo[n - 1].left, spans[n], Landing(upTo[n - 1].agents, spans[n]) # {})]
  IN upTo

Drained(agents, spans) == DrainedUpTo(agents, spans)[Len(spans)]

\* _lane_hint: a lane is seen once it has an entry.
LaneHint(agents, c) ==
  IF c \in Briefed /\ \E d \in DOMAIN agents : LaneOf[d] = LaneOf[c] THEN LaneOf[c] ELSE Unset

\* _find_board: a running run that the prompt names; of several the one last
\* written, which is left open.
Found(c) == {r \in Mentions[c] : tracker[r] # Truncated /\ tracker[r].status = "running"}
-----------------------------------------------------------------------------
(* steps of a hook *)

HookAt(h, step) == hook[h].at = step

AtWork(r) == {h \in Hook : hook[h] # Resting /\ hook[h].run = r}

\* A hook sets to work at a run.
Begin(h, job) ==
  /\ hook' = [hook EXCEPT ![h] = job]
  /\ overlapped' = IF AtWork(job.run) # {} THEN overlapped \cup {job.run} ELSE overlapped

Proceed(h, job) == hook' = [hook EXCEPT ![h] = job] /\ UNCHANGED overlapped

\* on_task, up to _find_board, which does not see a board that is being
\* written: without a board the hook is done.
OnTask(h, c, event) ==
  /\ hook[h] = Resting
  /\ \E torn \in SUBSET {r \in Run : \E g \in AtWork(r) : HookAt(g, "stamp")} :
       IF Found(c) \subseteq torn
         THEN UNCHANGED <<hook, overlapped>>
         ELSE \E r \in Found(c) \ torn : Begin(h, [at |-> "ledger", event |-> event, call |-> c, run |-> r])
  /\ UNCHANGED <<tracker, ledger, strokes, stampsHistory>>

PreToolUse(h, c) ==
  /\ c \notin spawned
  /\ spawned' = spawned \cup {c}
  /\ UNCHANGED returned
  /\ OnTask(h, c, "pre")

PostToolUse(h, c) ==
  /\ c \in spawned \ returned
  /\ \A g \in Hook : hook[g] # Resting => hook[g].event = "file" \/ hook[g].call # c
  /\ returned' = returned \cup {c}
  /\ UNCHANGED spawned
  /\ OnTask(h, c, "post")

\* Mutant: the spans that wait are not written back.
NotedAlone(l, c) == [open |-> [l.open EXCEPT ![Input[c]] = c], spans |-> <<>>]

\* What PreToolUse writes: the call is open.
Noted(l, c) == [l EXCEPT !.open[Input[c]] = c]

\* What PostToolUse writes: the call is no longer open, and its span waits.
Returned(l, agents, c) ==
  [open  |-> [l.open EXCEPT ![Input[c]] = Unset],
   spans |-> Append(l.spans, [call |-> c, lane |-> LaneHint(agents, c),
                              started |-> l.open[Input[c]],
                              ended |-> IF c \in AtLaunch THEN Unset ELSE c])]

\* _write_json truncates a file and then fills it: who reads in between finds
\* it torn.
LedgerRead(h) ==
  LET r == hook[h].run IN
  {ledger[r]} \cup (IF \E g \in AtWork(r) \ {h} : HookAt(g, "save") \/ HookAt(g, "trim") THEN {Truncated} ELSE {})

BoardRead(r) == {tracker[r]} \cup (IF \E g \in AtWork(r) : HookAt(g, "stamp") THEN {Truncated} ELSE {})

\* What a hook makes of the ledger it finds.
Usable(l) == IF l = Truncated THEN NoLedger ELSE l

ReadLedger(h) ==
  LET job == hook[h] IN
  /\ HookAt(h, "ledger")
  /\ \E l \in {Usable(x) : x \in LedgerRead(h)} :
       Proceed(h, IF job.event = "pre"
               THEN [at |-> "save", event |-> "pre", call |-> job.call, run |-> job.run,
                     ledger |-> Noted(l, job.call)]
               ELSE [at |-> "board", event |-> "post", call |-> job.call, run |-> job.run,
                     ledger |-> l])
  /\ UNCHANGED <<tracker, ledger, calls, strokes, stampsHistory>>

\* The board is read: before the ledger is saved on the way back, after it on
\* the way in.  A torn one ends the hook.
ReadBoard(h) ==
  LET job == hook[h] IN
  /\ HookAt(h, "board")
  /\ \E b \in BoardRead(job.run) :
       Proceed(h, IF b = Truncated THEN Resting
             ELSE IF job.event = "post"
               THEN [at |-> "save", event |-> "post", call |-> job.call, run |-> job.run, board |-> b,
                     ledger |-> Returned(job.ledger, b.agents, job.call)]
               ELSE [at |-> "drain", event |-> "pre", call |-> job.call, run |-> job.run, board |-> b])
  /\ UNCHANGED <<tracker, ledger, calls, strokes, stampsHistory>>

\* on_task saves the ledger.
SaveLedger(h) ==
  LET job == hook[h] IN
  /\ HookAt(h, "save")
  /\ ledger' = [ledger EXCEPT ![job.run] = job.ledger]
  /\ Proceed(h, IF job.event = "pre"
             THEN [at |-> "board", event |-> "pre", call |-> job.call, run |-> job.run]
             ELSE [at |-> "drain", event |-> "post", call |-> job.call, run |-> job.run, board |-> job.board])
  /\ recorded' = IF job.event = "post" THEN [recorded EXCEPT ![job.run] = @ \cup {job.call}]
                                      ELSE recorded
  /\ UNCHANGED <<tracker, calls, strokes, kills, cut, said>>

\* drain reads the ledger again.  When nothing lands the ledger is left, and
\* the board too, unless the hook follows a write of the board and the second
\* has passed.
ReadSpans(h) ==
  LET job == hook[h] IN
  /\ HookAt(h, "drain")
  /\ \E l \in LedgerRead(h) :
       LET spans == Usable(l).spans
           d == Drained(job.board.agents, spans)
       IN
       IF Len(d.left) # Len(spans)
         THEN Proceed(h, [at |-> "trim", event |-> job.event, call |-> job.call, run |-> job.run,
                     board |-> [job.board EXCEPT !.agents = d.agents],
                     ledger |-> [l EXCEPT !.spans = d.left]])
         ELSE \/ Proceed(h, Resting)
              \/ /\ job.event = "file"
                 /\ Proceed(h, [at |-> "stamp", event |-> "file", call |-> job.call, run |-> job.run,
                               board |-> job.board])
  /\ UNCHANGED <<tracker, ledger, calls, strokes, stampsHistory>>

\* Mutant: what has landed is not taken out of the ledger.
TrimNothing(h) ==
  LET job == hook[h] IN
  /\ HookAt(h, "trim")
  /\ Proceed(h, [at |-> "stamp", event |-> job.event, call |-> job.call, run |-> job.run, board |-> job.board])
  /\ UNCHANGED <<ledger, tracker, calls, strokes, stampsHistory>>

\* drain writes the ledger without what has landed ...
TrimLedger(h) ==
  LET job == hook[h] IN
  /\ HookAt(h, "trim")
  /\ ledger' = [ledger EXCEPT ![job.run] = job.ledger]
  /\ Proceed(h, [at |-> "stamp", event |-> job.event, call |-> job.call, run |-> job.run, board |-> job.board])
  /\ UNCHANGED <<tracker, calls, strokes, stampsHistory>>

\* ... and the board, as it was read and with what has landed, comes after.
WriteBoard(h) ==
  /\ HookAt(h, "stamp")
  /\ tracker' = [tracker EXCEPT ![hook[h].run] = hook[h].board]
  /\ Proceed(h, Resting)
  /\ UNCHANGED <<ledger, calls, strokes, stampsHistory>>

\* on_file_write: an editing tool has written the board.
OnFileWrite(h, r) ==
  /\ hook[h] = Resting
  /\ strokes.open > 0
  /\ strokes' = [strokes EXCEPT !.open = @ - 1]
  /\ \E b \in BoardRead(r) \ {Truncated} :
       Begin(h, [at |-> "drain", event |-> "file", call |-> 0, run |-> r, board |-> b])
  /\ UNCHANGED <<tracker, ledger, calls, stampsHistory>>

\* A hook is killed: what it has written stays, a file it was writing is torn.
Kill(h) ==
  LET job == hook[h] IN
  /\ hook[h] # Resting
  /\ kills < MaxKills
  /\ kills' = kills + 1
  /\ cut' = cut \cup {job.run}
  /\ tracker' \in {tracker, IF HookAt(h, "stamp") THEN [tracker EXCEPT ![job.run] = Truncated] ELSE tracker}
  /\ ledger' \in {ledger, IF job.at \in {"save", "trim"} THEN [ledger EXCEPT ![job.run] = Truncated] ELSE ledger}
  /\ Proceed(h, Resting)
  /\ UNCHANGED <<calls, strokes, said, recorded>>
-----------------------------------------------------------------------------
(* the orchestrator *)

\* It replaces the board it can read in one step (a renamed temporary file).
Orchestrate(r, b, fact) ==
  /\ strokes.made < MaxStrokes
  /\ strokes' = [made |-> strokes.made + 1, open |-> strokes.open + 1]
  /\ tracker' = [tracker EXCEPT ![r] = b]
  /\ said' = IF \E h \in AtWork(r) : "board" \in DOMAIN hook[h]
               THEN said ELSE [said EXCEPT ![r] = @ \cup {fact}]
  /\ UNCHANGED <<ledger, hook, calls, overlapped, kills, cut, recorded>>

\* It appends an entry for a call, fills a field by hand, or ends the run.
AppendAgent(c) ==
  LET b == tracker[RunOf[c]] IN
  /\ b # Truncated
  /\ c \notin DOMAIN b.agents
  /\ Orchestrate(RunOf[c], [b EXCEPT !.agents =
       [d \in DOMAIN @ \cup {c} |-> IF d = c THEN Blank ELSE @[d]]],
                 <<c, "entry">>)

StampByHand(c, f) ==
  LET b == tracker[RunOf[c]] IN
  /\ b # Truncated
  /\ c \in DOMAIN b.agents
  /\ b.agents[c][f] = Unset
  /\ Orchestrate(RunOf[c], [b EXCEPT !.agents[c][f] = ByHand], <<c, f>>)

ShipRun(r) ==
  /\ tracker[r] # Truncated
  /\ tracker[r].status = "running"
  /\ Orchestrate(r, [tracker[r] EXCEPT !.status = "shipped"], <<"shipped">>)

StampsNext ==
  \/ \E h \in Hook :
       \/ \E c \in Calls : PreToolUse(h, c) \/ PostToolUse(h, c)
       \/ ReadLedger(h) \/ ReadBoard(h) \/ SaveLedger(h)
       \/ ReadSpans(h) \/ TrimLedger(h) \/ WriteBoard(h)
       \/ \E r \in Run : OnFileWrite(h, r)
       \/ Kill(h)
  \/ \E c \in Calls : AppendAgent(c) \/ \E f \in {"started", "ended"} : StampByHand(c, f)
  \/ \E r \in Run : ShipRun(r)

StampsSpec == StampsInit /\ [][StampsNext]_stampsVars
-----------------------------------------------------------------------------
(* Properties *)

\* The entries with a time of call c, on any board.
EntriesWith(c) ==
  UNION {{<<r, d>> : d \in {x \in DOMAIN tracker[r].agents :
                              c \in {tracker[r].agents[x].started, tracker[r].agents[x].ended}}} :
         r \in {y \in Run : tracker[y] # Truncated}}

(* The start and the end that the tool call of a subagent had stand on one *)
(* entry at most, of one board, wherever hooks are killed, unless two      *)
(* hooks worked at the run at once or two calls had the same input.        *)
OneEntryPerCall ==
  \A c \in Calls :
    \/ Mentions[c] \cap overlapped # {}
    \/ \E d \in Calls \ {c} : Input[d] = Input[c]
    \/ Cardinality(EntriesWith(c)) <= 1

(* A call whose return was recorded is not forgotten: once the hooks at    *)
(* its run are done, its span waits in the ledger or stands on the board,  *)
(* if no two hooks worked there at once and none was killed.               *)
SpansAreKept ==
  \A r \in Run : AtWork(r) = {} /\ r \notin overlapped \cup cut =>
    \A c \in recorded[r] :
      \/ \E i \in DOMAIN ledger[r].spans : ledger[r].spans[i].call = c
      \/ \E d \in DOMAIN tracker[r].agents : c \in {tracker[r].agents[d].started, tracker[r].agents[d].ended}
      \/ \E d \in Calls \ {c} : Input[d] = Input[c]

\* The fact still stands on a board.
Stands(fact, b) ==
  IF fact = <<"shipped">>
    THEN b.status = "shipped"
    ELSE /\ fact[1] \in DOMAIN b.agents
         /\ fact[2] # "entry" => b.agents[fact[1]][fact[2]] = ByHand

(* What the orchestrator writes by hand stays: entries, fields and the end *)
(* of the run, whatever hooks do at once and wherever they are killed,     *)
(* unless a hook had read the board before and not yet written it.         *)
HandWins ==
  \A r \in Run : tracker[r] # Truncated => \A fact \in said[r] : Stands(fact, tracker[r])
=============================================================================

------------------------------ MODULE Sessions ------------------------------
(***************************************************************************)
(* hooks/session-start-marker.py, peer-session-guard.py and                *)
(* peer-session-notice.py: sessions that share one checkout.               *)
(*                                                                         *)
(* A session is known to its peers by its marker, a file it writes when it *)
(* starts and touches before its Bash commands.  Nothing locks these       *)
(* files: a write truncates the file and then fills it, and what it fills  *)
(* it with was read before.  A session starts hooks and commands from      *)
(* several places (its own loop, its subagents, its shell): the runners.   *)
(* Every step of a runner reads or writes one file.                        *)
(*                                                                         *)
(* All sessions are in one worktree, so `worktree` of a marker is left out, *)
(* with branch, runtime and source, which only messages use.               *)
(***************************************************************************)
EXTENDS Naturals, FiniteSets

CONSTANTS
  Session,
  Runner,       \* places a session starts hooks and commands from
  Owner,        \* the session of each runner
  Hosts,        \* the runners the tool starts hooks on; the others run wrap-up
  Clearable,    \* what a receipt can clear
  Absent,       \* no such file
  Heartbeat,    \* HEARTBEAT_SECONDS, in ticks
  PeerLive,     \* PEER_LIVE_SECONDS
  Retention,    \* MARKER_RETENTION_SECONDS
  MaxNow,       \* bound: ticks of the clock
  MaxCalls,     \* bound: hooks and commands begun
  MaxKills      \* bound: hooks and commands cut short

ASSUME SessionsAssumption ==
  /\ Owner \in [Runner -> Session]
  /\ Hosts \subseteq Runner
  /\ {Heartbeat, PeerLive, Retention, MaxNow, MaxCalls, MaxKills} \subseteq Nat
  /\ Heartbeat <= PeerLive

VARIABLES
  now,       \* the clock
  head,      \* commits so far: HEAD
  marker,    \* <session>.json; updated is also its mtime
  receipt,   \* what <session>.receipt.json clears
  job,       \* per runner: the step its hook or command is at, and its locals
  calls,     \* hooks and commands begun so far
  kills,     \* hooks and commands cut short so far
  beat,      \* history: when a command of the session last left a marker behind
  root,      \* history: the anchor the session last asked for
  astray     \* history: sessions whose anchor a race or a lost marker has replaced

sessionVars == <<now, head, marker, receipt, job, calls, kills, beat, root, astray>>

Anchor == [sha : Nat, started : Nat]
Contents == [sha : Nat, started : Nat, updated : Nat]
Marker == [text : {"whole", "torn"}, sha : Nat, started : Nat, updated : Nat]

Idle == [at |-> "idle"]

\* open: about to truncate the marker; write: about to fill it; `by` is who
\* writes it, `then` what follows.
MarkerJob == [at : {"open", "write"}, new : Contents, by : {"start", "resume", "guard", "open"},
              then : {"idle", "look", "sweep"}]
SweepJob == [at : {"sweep"}, todo : SUBSET Session]
UnlinkJob == [at : {"unlink", "unlinkReceipt"}, victim : Session, todo : SUBSET Session]
LookJob == [at : {"look"}, todo : SUBSET Session, peers : SUBSET Session]

HookJob == {Idle} \cup MarkerJob \cup SweepJob \cup UnlinkJob \cup LookJob

SessionsTypeOK(Jobs) ==
  /\ now \in Nat
  /\ head \in Nat
  /\ marker \in [Session -> {Absent} \cup Marker]
  /\ receipt \in [Session -> SUBSET Clearable]
  /\ job \in [Runner -> Jobs]
  /\ \A r \in Runner : job[r] \in SweepJob \cup UnlinkJob \cup LookJob => Owner[r] \notin job[r].todo
  /\ calls \in Nat
  /\ kills \in Nat
  /\ beat \in [Session -> Nat]
  /\ root \in [Session -> Anchor]
  /\ astray \subseteq Session

SessionsInit ==
  /\ now = 0
  /\ head = 0
  /\ marker = [s \in Session |-> Absent]
  /\ receipt = [s \in Session |-> {}]
  /\ job = [r \in Runner |-> Idle]
  /\ calls = 0
  /\ kills = 0
  /\ beat = [s \in Session |-> 0]
  /\ root = [s \in Session |-> [sha |-> 0, started |-> 0]]
  /\ astray = {}
-----------------------------------------------------------------------------
(* reading and writing a marker *)

\* json.loads succeeds.
Whole(s) == marker[s] # Absent /\ marker[s].text = "whole"

AnchorOf(c) == [sha |-> c.sha, started |-> c.started]

\* _parse(updated_at), as an age.
Age(s) == now - marker[s].updated

Others(s) == Session \ {s}

Sweeping(todo) == IF todo = {} THEN Idle ELSE [at |-> "sweep", todo |-> todo]

\* What a hook does once its marker is written: nothing, the sweep, or the peers.
After(s, then) ==
  CASE then = "idle"  -> Idle
    [] then = "sweep" -> Sweeping(Others(s))
    [] then = "look"  -> [at |-> "look", todo |-> Others(s), peers |-> {}]

\* A runner begins a hook or a command.
Begin(r) ==
  /\ job[r] = Idle
  /\ calls < MaxCalls
  /\ calls' = calls + 1

Rewriting(c, by, then) == [at |-> "open", new |-> c, by |-> by, then |-> then]

\* A start and `wrapup open` ask for a new anchor; a resume and a heartbeat do not.
Asks(j) == j.by \in {"start", "open"}

\* Rewrites of the marker of s under way, this runner's aside.
Rewrites(s, r) == {q \in Runner \ {r} : Owner[q] = s /\ job[q].at \in {"open", "write"}}

\* Another rewrite is under way that would put another anchor.
Races(s, r, anchor) == \E q \in Rewrites(s, r) : AnchorOf(job[q].new) # anchor

\* path.write_text: the file is truncated when it is opened ...
OpenMarker(r) ==
  LET s == Owner[r] IN
  /\ job[r].at = "open"
  /\ marker' = [marker EXCEPT ![s] = [text |-> "torn", sha |-> 0, started |-> 0, updated |-> now]]
  /\ job' = [job EXCEPT ![r].at = "write"]
  /\ UNCHANGED <<now, head, receipt, calls, kills, beat, root, astray>>

\* ... and filled afterwards.
WriteMarker(r) ==
  LET s == Owner[r]
      c == job[r].new
  IN
  /\ job[r].at = "write"
  /\ marker' = [marker EXCEPT ![s] = [text |-> "whole", sha |-> c.sha, started |-> c.started,
                                      updated |-> c.updated]]
  /\ job' = [job EXCEPT ![r] = After(s, job[r].then)]
  /\ beat' = [beat EXCEPT ![s] = now]
  /\ root' = IF Asks(job[r]) THEN [root EXCEPT ![s] = AnchorOf(c)] ELSE root
  /\ UNCHANGED <<now, head, receipt, calls, kills, astray>>
-----------------------------------------------------------------------------
(* session-start-marker.py *)

\* Mutant: the anchor moves on when the session is resumed.
StartedAnew(s, keeps) == [sha |-> head, started |-> now, updated |-> now]

\* write_marker: a resumed or compacted session keeps the anchor it can read.
Started(s, keeps) ==
  IF keeps /\ Whole(s)
    THEN [sha |-> marker[s].sha, started |-> marker[s].started, updated |-> now]
    ELSE [sha |-> head, started |-> now, updated |-> now]

\* The hook starts: HEAD, the clock and the marker are read.  A resume that
\* cannot read its marker loses the anchor; any other start asks for a new one.
Start(r, keeps) ==
  LET s == Owner[r]
      c == Started(s, keeps)
  IN
  /\ r \in Hosts
  /\ Begin(r)
  /\ job' = [job EXCEPT ![r] = Rewriting(c, IF keeps THEN "resume" ELSE "start", "sweep")]
  /\ astray' = IF (keeps /\ ~Whole(s)) \/ Races(s, r, AnchorOf(c)) THEN astray \cup {s} ELSE astray
  /\ UNCHANGED <<now, head, marker, receipt, kills, beat, root>>

\* _sweep_stale reads the next marker and judges it.
Judge(r, q) ==
  /\ job[r].at = "sweep"
  /\ q \in job[r].todo
  /\ LET rest == job[r].todo \ {q} IN
     job' = [job EXCEPT ![r] =
       IF Whole(q) /\ Age(q) > Retention
         THEN [at |-> "unlink", victim |-> q, todo |-> rest]
         ELSE Sweeping(rest)]
  /\ UNCHANGED <<now, head, marker, receipt, calls, kills, beat, root, astray>>

\* victim.unlink(): whatever is there by now.
UnlinkMarker(r) ==
  /\ job[r].at = "unlink"
  /\ marker' = [marker EXCEPT ![job[r].victim] = Absent]
  /\ job' = [job EXCEPT ![r].at = "unlinkReceipt"]
  /\ UNCHANGED <<now, head, receipt, calls, kills, beat, root, astray>>

UnlinkReceipt(r) ==
  /\ job[r].at = "unlinkReceipt"
  /\ receipt' = [receipt EXCEPT ![job[r].victim] = {}]
  /\ job' = [job EXCEPT ![r] = Sweeping(job[r].todo)]
  /\ UNCHANGED <<now, head, marker, calls, kills, beat, root, astray>>
-----------------------------------------------------------------------------
(* peer-session-guard.py, before a Bash command; peer-session-notice.py *)

\* _heartbeat: own marker is read; an unreadable, missing or young one is left alone.
Due(s) == Whole(s) /\ Age(s) >= Heartbeat

\* The guard of a command.  Only a command on the whole checkout looks for peers.
Guard(r, global) ==
  LET s == Owner[r]
      then == IF global THEN "look" ELSE "idle"
  IN
  /\ r \in Hosts
  /\ Begin(r)
  /\ IF Due(s)
       THEN /\ job' = [job EXCEPT ![r] =
                 Rewriting([sha |-> marker[s].sha, started |-> marker[s].started, updated |-> now],
                           "guard", then)]
            /\ astray' = IF Races(s, r, AnchorOf(marker[s])) THEN astray \cup {s} ELSE astray
            /\ UNCHANGED beat
       ELSE /\ job' = [job EXCEPT ![r] = After(s, then)]
            /\ beat' = IF Whole(s) THEN [beat EXCEPT ![s] = now] ELSE beat
            /\ UNCHANGED astray
  /\ UNCHANGED <<now, head, marker, receipt, kills, root>>

\* The notice of a session that has started.
Notice(r) ==
  /\ r \in Hosts
  /\ Begin(r)
  /\ job' = [job EXCEPT ![r] = After(Owner[r], "look")]
  /\ UNCHANGED <<now, head, marker, receipt, kills, beat, root, astray>>

\* stamp-tracker.py sweeps in the middle of a session, too: after a tool call,
\* once an hour at most (that it is not more often is left out).
SweepMarkers(r) ==
  /\ r \in Hosts
  /\ Begin(r)
  /\ job' = [job EXCEPT ![r] = After(Owner[r], "sweep")]
  /\ UNCHANGED <<now, head, marker, receipt, kills, beat, root, astray>>

\* Mutant: started_at is tried first.
WarmSinceStart(q) == Whole(q) /\ now - marker[q].started <= PeerLive

\* live_peers: a readable marker, touched within the window.
Warm(q) == Whole(q) /\ Age(q) <= PeerLive

Look(r, q) ==
  /\ job[r].at = "look"
  /\ q \in job[r].todo
  /\ job' = [job EXCEPT ![r].todo = @ \ {q}, ![r].peers = IF Warm(q) THEN @ \cup {q} ELSE @]
  /\ UNCHANGED <<now, head, marker, receipt, calls, kills, beat, root, astray>>

\* Every marker has been read: the guard asks or stays silent.
Decide(r) ==
  /\ job[r].at = "look"
  /\ job[r].todo = {}
  /\ job' = [job EXCEPT ![r] = Idle]
  /\ UNCHANGED <<now, head, marker, receipt, calls, kills, beat, root, astray>>
-----------------------------------------------------------------------------
(* what happens around them *)

\* A hook or a command is killed: what it has written stays.
Kill(r) ==
  /\ job[r] # Idle
  /\ kills < MaxKills
  /\ kills' = kills + 1
  /\ job' = [job EXCEPT ![r] = Idle]
  /\ UNCHANGED <<now, head, marker, receipt, calls, beat, root, astray>>

\* Time passes.  A hook or a command takes seconds, a tick is a minute.
Tick ==
  /\ now < MaxNow
  /\ \A r \in Runner : job[r] = Idle
  /\ now' = now + 1
  /\ UNCHANGED <<head, marker, receipt, job, calls, kills, beat, root, astray>>

HookStep(r) ==
  \/ \E keeps \in BOOLEAN : Start(r, keeps)
  \/ \E global \in BOOLEAN : Guard(r, global)
  \/ Notice(r) \/ SweepMarkers(r)
  \/ OpenMarker(r) \/ WriteMarker(r)
  \/ \E q \in Session : Judge(r, q) \/ Look(r, q)
  \/ UnlinkMarker(r) \/ UnlinkReceipt(r)
  \/ Decide(r)
  \/ Kill(r)
=============================================================================

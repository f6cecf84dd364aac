----------------------------- MODULE TrackerPort ----------------------------
(***************************************************************************)
(* skills/mow/tracker_port.py: the port on which the boards of a           *)
(* repository's runs are served, one board for all of them.                *)
(*                                                                         *)
(* A run walks the ports from the repository's home port, asks who is      *)
(* there, and takes the first that is free or serves this repository; it   *)
(* walks again to prove that its board is up.  Every probe is a step;      *)
(* other runs pick, and servers start, in between.  A server shows the     *)
(* marker that is in the folder it serves.                                 *)
(***************************************************************************)
EXTENDS Naturals, FiniteSets

CONSTANTS
  Picker,      \* runs of a board
  Repo,        \* repositories
  RepoOf,      \* the repository of a run
  Span,        \* ports are 0 .. Span - 1
  Home,        \* derive: the home port of a repository
  Nobody,      \* no server
  MaxDeaths    \* bound: servers that die

Port == 0 .. Span - 1

ASSUME PortAssumption ==
  /\ Span \in Nat \ {0}
  /\ RepoOf \in [Picker -> Repo] /\ Home \in [Repo -> Port]
  /\ Nobody \notin Repo
  /\ MaxDeaths \in Nat

VARIABLES
  server,      \* the repository whose folder each port serves
  marker,      \* repositories whose .board names them
  picker,      \* what each run is at, the step of its walk, and the step it took
  deaths,      \* servers that have died
  unheard      \* history: repositories whose server did not answer as such when it was asked

portVars == <<server, marker, picker, deaths, unheard>>

PortTypeOK ==
  /\ server \in [Port -> Repo \cup {Nobody}]
  /\ marker \subseteq Repo
  /\ picker \in [Picker -> [at : {"walk", "mark", "serve", "prove", "live", "down"}, step : 0 .. Span, took : Port]]
  /\ deaths \in Nat
  /\ unheard \subseteq Repo

PortInit ==
  /\ server = [p \in Port |-> Nobody]
  /\ marker = {}
  /\ picker = [r \in Picker |-> [at |-> "walk", step |-> 0, took |-> 0]]
  /\ deaths = 0
  /\ unheard = {}

\* The port of a run's walk.
PortAt(r, step) == (Home[RepoOf[r]] + step) % Span
Here(r) == PortAt(r, picker[r].step)
Taken(r) == PortAt(r, picker[r].took)

Walk(r, at, step) == picker' = [picker EXCEPT ![r] = [at |-> at, step |-> step, took |-> @.took]]
Take(r, at) == picker' = [picker EXCEPT ![r] = [at |-> at, step |-> 0, took |-> @.step]]

\* mark truncates the marker and fills it.
Marking(repo) == \E r \in Picker : RepoOf[r] = repo /\ picker[r].at = "mark"

\* What the server at a port can answer: its marker, or nothing in time.
Answers(p) ==
  {server[p]} \cup (IF Marking(server[p]) \/ server[p] \notin marker THEN {Nobody} ELSE {})

\* listening
Free(r) == server[Here(r)] = Nobody

\* Mutant: any board will do.
AskedAnyone(r, yes, no) ==
  \E answer \in Answers(Here(r)) : (IF answer # Nobody THEN yes ELSE no) /\ UNCHANGED unheard

\* serves, of a server that is there.
Asked(r, yes, no) ==
  \E answer \in Answers(Here(r)) :
    /\ IF answer = RepoOf[r] THEN yes ELSE no
    /\ unheard' = IF answer = server[Here(r)] THEN unheard ELSE unheard \cup {server[Here(r)]}

\* pick, one port: it is free, it is this repository's, or the walk goes on.
\* After the last one the run has no board.
Probe(r) ==
  /\ picker[r].at = "walk"
  /\ IF picker[r].step = Span THEN Walk(r, "down", 0) /\ UNCHANGED unheard
     ELSE IF Free(r) THEN Take(r, "mark") /\ UNCHANGED unheard
     ELSE Asked(r, Take(r, "prove"), Walk(r, "walk", picker[r].step + 1))
  /\ UNCHANGED <<server, marker, deaths>>

\* mark: `serve` writes the marker.
Mark(r) ==
  /\ picker[r].at = "mark"
  /\ marker' = marker \cup {RepoOf[r]}
  /\ Walk(r, "serve", 0)
  /\ UNCHANGED <<server, deaths, unheard>>

\* The run starts a server, which cannot bind a port that is taken.
Serve(r) ==
  /\ picker[r].at = "serve"
  /\ server' = IF server[Taken(r)] = Nobody THEN [server EXCEPT ![Taken(r)] = RepoOf[r]] ELSE server
  /\ Walk(r, "prove", 0)
  /\ UNCHANGED <<marker, deaths, unheard>>

\* owned, one port: the first that serves this repository must be the one
\* that was taken.  After the last the walk begins again until time is up.
Prove(r) ==
  /\ picker[r].at = "prove"
  /\ IF picker[r].step = Span
       THEN (Walk(r, "prove", 0) \/ Walk(r, "down", 0)) /\ UNCHANGED unheard
     ELSE IF Free(r) THEN Walk(r, "prove", picker[r].step + 1) /\ UNCHANGED unheard
     ELSE Asked(r, Walk(r, IF picker[r].step = picker[r].took THEN "live" ELSE "down", 0),
                   Walk(r, "prove", picker[r].step + 1))
  /\ UNCHANGED <<server, marker, deaths>>

Die(p) ==
  /\ server[p] # Nobody
  /\ deaths < MaxDeaths
  /\ deaths' = deaths + 1
  /\ server' = [server EXCEPT ![p] = Nobody]
  /\ UNCHANGED <<marker, picker, unheard>>

PortNext ==
  \/ \E r \in Picker : Probe(r) \/ Mark(r) \/ Serve(r) \/ Prove(r)
  \/ \E p \in Port : Die(p)

PortSpec == PortInit /\ [][PortNext]_portVars
-----------------------------------------------------------------------------
(* Properties *)

(* Runs of a repository share one board: however they pick at the same     *)
(* time as others, at most one server serves it and those that are told    *)
(* their board is live were told the same one, unless a server has died or *)
(* one did not answer with its marker when it was asked.                   *)
OneBoardPerRepo ==
  \A repo \in Repo \ unheard : deaths = 0 =>
    /\ Cardinality({p \in Port : server[p] = repo}) <= 1
    /\ \A r \in Picker : RepoOf[r] = repo /\ picker[r].at = "live" => server[Taken(r)] = repo
=============================================================================

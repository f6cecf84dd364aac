----------------------------- MODULE BoardRows ------------------------------
(***************************************************************************)
(* The rows of the taskman board and what one event does to them:          *)
(* taskman/eventlog/schema.py and `_apply` of log.py.                      *)
(*                                                                         *)
(* A board is what replay returns: for each entity a table from ids to     *)
(* rows.  A row keeps one field that stands for all plain fields, the      *)
(* targets of its one relation, and its claimant.  A list of targets is    *)
(* kept as a set: the code appends only what is not there.                 *)
(***************************************************************************)
EXTENDS Naturals

CONSTANTS
  Kinds,       \* ENTITIES
  Shape,       \* RELATIONS: the shape of each entity's relation, "none" without one
  Procs,       \* processes, each the agent it claims for
  NoAgent,     \* claimed_by is null
  Data         \* values of the plain fields

ASSUME RowsAssumption ==
  /\ "task" \in Kinds
  /\ Shape \in [Kinds -> {"many", "one", "none"}]
  /\ NoAgent \notin Procs
  /\ Data # {}

Ids == Nat \ {0}

Row == [data : Data, links : SUBSET Ids, claimed_by : Procs \cup {NoAgent}]

\* A table is a function from the ids created so far.
IsTable(t) == t = [i \in DOMAIN t |-> t[i]] /\ DOMAIN t \subseteq Ids
              /\ \A i \in DOMAIN t : t[i] \in Row

IsBoard(b) == b = [k \in Kinds |-> b[k]] /\ \A k \in Kinds : IsTable(b[k])

EmptyTable == [i \in {} |-> 0]
EmptyBoard == [k \in Kinds |-> EmptyTable]

NewRow(d, links) == [data |-> d, links |-> links, claimed_by |-> NoAgent]

Put(t, i, row) == [j \in DOMAIN t \cup {i} |-> IF j = i THEN row ELSE t[j]]
-----------------------------------------------------------------------------
\* An event: the verb, the entity and id it is about, and its payload; a
\* create may bring its initial relation.
Verbs == {"add", "set", "link", "unlink", "claim", "release"}

Event == [verb : Verbs, kind : Kinds, id : Nat, data : Data, initial : SUBSET Ids,
          target : Ids, agent : Procs]

\* What validate_event and the callers' own checks let through: links only
\* for an entity with a relation, claims and releases only for tasks.
Valid(verb, kind) ==
  /\ verb \in {"link", "unlink"} => Shape[kind] # "none"
  /\ verb \in {"claim", "release"} => kind = "task"

\* Mutant: link ignores the shape of the relation.
RelinkedAsOne(links, e) == IF e.verb = "unlink" THEN links \ {e.target} ELSE {e.target}

\* A relation after link or unlink: a list grows and shrinks, a single target
\* is replaced.
Relinked(links, e) ==
  IF e.verb = "unlink" THEN links \ {e.target}
  ELSE {e.target} \cup (IF Shape[e.kind] = "many" THEN links ELSE {})

\* What an event other than a create makes of its row.
Changed(row, e) ==
  CASE e.verb = "set"     -> [row EXCEPT !.data = e.data]
    [] e.verb \in {"link", "unlink"} -> [row EXCEPT !.links = Relinked(@, e)]
    [] e.verb = "claim"   -> [row EXCEPT !.claimed_by = IF @ = NoAgent THEN e.agent ELSE @]
    [] e.verb = "release" -> [row EXCEPT !.claimed_by = NoAgent]
    [] OTHER              -> row

\* A second create of one id makes the whole log unreadable.
DuplicateCreate(b, e) == e.verb = "add" /\ e.id \in DOMAIN b[e.kind]

\* One event folded into the board.  An event about an id that was never
\* created changes nothing.
Apply(b, e) ==
  LET t   == b[e.kind]
      row == IF e.verb = "add" THEN NewRow(e.data, e.initial) ELSE Changed(t[e.id], e)
  IN IF e.verb = "add" \/ e.id \in DOMAIN t
     THEN [b EXCEPT ![e.kind] = Put(t, e.id, row)]
     ELSE b
=============================================================================

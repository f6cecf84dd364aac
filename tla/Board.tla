------------------------------- MODULE Board --------------------------------
(***************************************************************************)
(* What the store promises its callers: each operation that reports        *)
(* success is one atomic change of the board, ids are fresh, a claim is    *)
(* won only by the agent that found the task unclaimed.  The events, the   *)
(* lock and the counters of EventLog implement it.                         *)
(***************************************************************************)
EXTENDS BoardRows

VARIABLE board

BoardInit == board = EmptyBoard

\* Only row i of entity k changes, to `row`.
Becomes(k, i, row) == board' = [board EXCEPT ![k] = Put(@, i, row)]

\* add: an id no row of the entity has; nobody has claimed the new row.
Add(k) ==
  \E i \in DOMAIN board'[k] \ DOMAIN board[k] :
    i \in Ids /\ Becomes(k, i, NewRow(board'[k][i].data, board'[k][i].links))

\* update, link and unlink: of a row that exists, its claimant untouched.
Edit(k) ==
  \E i \in DOMAIN board[k] :
    LET old == board[k][i]
        new == board'[k][i]
    IN /\ Becomes(k, i, [old EXCEPT !.data = new.data, !.links = new.links])
       /\ \/ new.links = old.links
          \/ /\ new.data = old.data
             /\ \/ Shape[k] = "many" /\ \E n \in new.links : new.links = old.links \cup {n}
                \/ Shape[k] = "one"  /\ \E n \in new.links : new.links = {n}
                \/ \E n \in old.links : new.links = old.links \ {n}

\* claim: succeeds only on an unclaimed task.
Claim(p) ==
  \E i \in DOMAIN board["task"] :
    /\ board["task"][i].claimed_by = NoAgent
    /\ Becomes("task", i, [board["task"][i] EXCEPT !.claimed_by = p])

\* release: by anybody.
Release ==
  \E i \in DOMAIN board["task"] :
    Becomes("task", i, [board["task"][i] EXCEPT !.claimed_by = NoAgent])

BoardNext ==
  \/ \E k \in Kinds : Add(k) \/ Edit(k)
  \/ \E p \in Procs : Claim(p)
  \/ Release

BoardSpec == BoardInit /\ [][BoardNext]_board
=============================================================================

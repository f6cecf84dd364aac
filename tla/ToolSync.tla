------------------------------ MODULE ToolSync ------------------------------
(***************************************************************************)
(* bin/ai-sync: a run takes what the tools' directories hold into the      *)
(* repository (do_import), then makes each of them a symlink to it, or a   *)
(* copy of it where links are not to be had (do_link), and commits.        *)
(*                                                                         *)
(* One category of files is modelled, LINK_DIRS' "agents".  Runs are       *)
(* started by hand and by every session that ends: two may overlap, and    *)
(* one may be cut short.  An edit of a linked directory is an edit of the  *)
(* repository.                                                             *)
(***************************************************************************)
EXTENDS Naturals, Sequences, SequencesExt

CONSTANTS
  Syncer,      \* runs at one time
  Tool,        \* the tools, in do_import's and do_link's order: a sequence
  Asset,       \* files of the category
  Markdown,    \* those among them that _copy_md takes
  Link,      \* a tool's directory is a symlink to the repository's
  Foreign,     \* it is one into another repository
  Missing,     \* it is not there
  NoFile,
  Partial,     \* what a copy that was cut short leaves of a file
  Modes,       \* the modes a run may have: "link", "copy"
  Firsts,      \* the installations a behaviour may begin with: [repo, place]
  MaxRuns,     \* bound: runs
  MaxTouches,  \* bound: the operator's edits
  MaxStops,    \* bound: runs cut short
  Billed       \* what of these bounds a behaviour has used up when it begins

Place == ToSet(Tool)
Content == Nat \cup {NoFile, Partial}
Tree == [Asset -> Content]
Bill == [{"runs", "touches", "stops"} -> Nat]
Given == [Asset -> {0, 1, NoFile}]

ASSUME SyncAssumption ==
  /\ Tool \in Seq(Place) /\ IsInjective(Tool) /\ Tool # <<>>
  /\ \A x \in {Link, Foreign, Missing} : x \notin Tree
  /\ Markdown \subseteq Asset
  /\ Modes \subseteq {"link", "copy"}
  /\ \A f \in Firsts : /\ f.repo \in Given /\ f.place \in [Place -> Given \cup {Link, Foreign, Missing}]
  /\ {MaxRuns, MaxTouches, MaxStops} \subseteq Nat
  /\ Billed \subseteq Bill

VARIABLES
  canon,       \* the repository's directory
  place,       \* per tool: its directory
  shelf,       \* .backups: pairs of a file and a content
  head,        \* what the last commit holds
  sync,        \* per run: what it is at, in which directory, and the files left there
  bill,        \* bounded events so far
  alone,       \* history: runs that have had the files for themselves
  owed,        \* history: edits of a tool's directory while no run was under way, that nobody took back
  sent,        \* history: the edits of the repository since all was in sync, if nothing else was touched
  settled      \* history: the mode of the last run, if it had the files for itself and so do they since

syncVars == <<canon, place, shelf, head, sync, bill, alone, owed, sent, settled>>

Away == [at |-> "away"]
Phase == {"list", "import", "link", "backup", "remove", "make", "copy", "commit"}
Errand == [at : Phase, mode : Modes, nth : DOMAIN Tool, left : SUBSET Asset]
Under(s) == sync[s].at # "away"
Rest == \A s \in Syncer : ~Under(s)
Trees == {p \in Place : place[p] \notin {Link, Foreign, Missing}}
Pairs(tree) == {<<f, tree[f]>> : f \in {g \in Asset : tree[g] # NoFile}}

SyncTypeOK ==
  /\ canon \in Tree /\ head \in Tree
  /\ place \in [Place -> Tree \cup {Link, Foreign, Missing}]
  /\ shelf \subseteq Asset \X Content
  /\ sync \in [Syncer -> {Away} \cup Errand]
  /\ bill \in Bill
  /\ alone \subseteq Syncer
  /\ owed \cup sent \subseteq Asset \X Content
  /\ settled \in Modes \cup {"no"}

SyncInit ==
  /\ \E f \in Firsts : canon = f.repo /\ place = f.place
  /\ shelf = {} /\ head = canon
  /\ sync = [s \in Syncer |-> Away]
  /\ bill \in Billed
  /\ alone = {} /\ owed = {} /\ sent = {} /\ settled = "no"

Spend(what, max) == bill[what] < max /\ bill' = [bill EXCEPT ![what] = @ + 1]
Spot(s) == Tool[sync[s].nth]

Goes(s, at, nth, left) ==
  /\ sync' = [sync EXCEPT ![s] = [at |-> at, mode |-> sync[s].mode, nth |-> nth, left |-> left]]
  /\ UNCHANGED alone

\* In the same directory, or in the next one of the loop that s is in, if any.
Turns(s, at, left) == Goes(s, at, sync[s].nth, left)
Onto(s, loop, next) ==
  IF sync[s].nth < Len(Tool) THEN Goes(s, loop, sync[s].nth + 1, {}) ELSE Goes(s, next, 1, {})

\* The run ends, with the commit or without.
Leaves(s) == sync' = [sync EXCEPT ![s] = Away] /\ alone' = alone \ {s}
-----------------------------------------------------------------------------
(* a run *)

StartRun(s) ==
  /\ ~Under(s)
  /\ Spend("runs", MaxRuns)
  /\ \E mode \in Modes :
       /\ sync' = [sync EXCEPT ![s] = [at |-> "list", mode |-> mode, nth |-> 1, left |-> {}]]
       /\ settled' = IF mode = settled THEN settled ELSE "no"
  /\ alone' = IF Rest THEN {s} ELSE {}
  /\ sent' = IF Rest THEN sent ELSE {}
  /\ UNCHANGED <<canon, place, shelf, head, owed>>

\* _copy_md: nothing comes from a directory that is missing or a symlink.
ListPlace(s) ==
  /\ Under(s) /\ sync[s].at = "list"
  /\ IF Spot(s) \in Trees
     THEN Turns(s, "import", {f \in Markdown : place[Spot(s)][f] # NoFile})
     ELSE Onto(s, "list", "link")
  /\ UNCHANGED <<canon, place, shelf, head, bill, owed, sent, settled>>

\* What is read under a tool's path now.
Reached(p) == IF place[p] = Link THEN canon ELSE place[p]

\* One file of the listing: copied if it is not the repository's.
ImportFile(s) ==
  /\ Under(s) /\ sync[s].at = "import"
  /\ IF sync[s].left = {} THEN Onto(s, "list", "link") /\ UNCHANGED canon
     ELSE \E f \in sync[s].left :
            IF Spot(s) \in Trees \cup {p \in Place : place[p] = Link} /\ Reached(Spot(s))[f] # NoFile
            THEN /\ canon' = [canon EXCEPT ![f] = Reached(Spot(s))[f]]
                 /\ Turns(s, "import", sync[s].left \ {f})
            ELSE Leaves(s) /\ UNCHANGED canon
  /\ UNCHANGED <<place, shelf, head, bill, owed, sent, settled>>

\* Mutant: only what an import would take is compared.
SameMarkdown(tree, other) == \A f \in Markdown : tree[f] = other[f]

\* _trees_equal, of all files.
Same(tree, other) == tree = other

\* ensure_symlink and ensure_copy: whether the directory is as it should be.
InPlace(p, mode) ==
  \/ place[p] = Foreign
  \/ mode = "link" /\ place[p] = Link
  \/ mode = "copy" /\ p \in Trees /\ Same(place[p], canon)

\* The directory is left as it is, or goes: a symlink at once, a tree after
\* its backup.
LookAt(s) ==
  LET p == Spot(s) IN
  /\ Under(s) /\ sync[s].at = "link"
  /\ IF InPlace(p, sync[s].mode) THEN Onto(s, "link", "commit") /\ UNCHANGED place
     ELSE /\ Turns(s, IF p \in Trees THEN "backup" ELSE "make", {})
          /\ place' = IF place[p] = Link THEN [place EXCEPT ![p] = Missing] ELSE place
  /\ UNCHANGED <<canon, shelf, head, bill, owed, sent, settled>>

\* Mutant: what an import would take is not backed up, since it was taken.
SavedAssets(p) == {pair \in Pairs(place[p]) : pair[1] \notin Markdown}

\* backup
Saved(p) == Pairs(place[p])

Backup(s) ==
  /\ Under(s) /\ sync[s].at = "backup"
  /\ shelf' = IF Spot(s) \in Trees THEN shelf \cup Saved(Spot(s)) ELSE shelf
  /\ Turns(s, "remove", {})
  /\ UNCHANGED <<canon, place, head, bill, owed, sent, settled>>

\* rmtree, file by file.  It raises at what is no directory, and may when
\* another run removes the same one.
RemoveTree(s) ==
  LET p == Spot(s)
      others == {r \in Syncer \ {s} : Under(r) /\ sync[r].at = "remove" /\ Spot(r) = p}
  IN
  /\ Under(s) /\ sync[s].at = "remove"
  /\ \/ /\ p \in Trees
        /\ \/ /\ Pairs(place[p]) = {}
              /\ place' = [place EXCEPT ![p] = Missing]
              /\ Turns(s, "make", {})
           \/ /\ \E f \in Asset : place[p][f] # NoFile /\ place' = [place EXCEPT ![p][f] = NoFile]
              /\ UNCHANGED <<sync, alone>>
     \/ /\ p \notin Trees \/ others # {}
        /\ Leaves(s)
        /\ UNCHANGED place
  /\ UNCHANGED <<canon, shelf, head, bill, owed, sent, settled>>

\* symlink, or the directory of copytree: both raise at what is there.
MakeTree(s) ==
  LET p == Spot(s) IN
  /\ Under(s) /\ sync[s].at = "make"
  /\ IF place[p] # Missing THEN Leaves(s) /\ UNCHANGED place
     ELSE IF sync[s].mode = "link"
     THEN place' = [place EXCEPT ![p] = Link] /\ Onto(s, "link", "commit")
     ELSE /\ place' = [place EXCEPT ![p] = [f \in Asset |-> NoFile]]
          /\ Turns(s, "copy", {f \in Asset : canon[f] # NoFile})
  /\ UNCHANGED <<canon, shelf, head, bill, owed, sent, settled>>

\* copytree, file by file.
CopyFile(s) ==
  LET p == Spot(s) IN
  /\ Under(s) /\ sync[s].at = "copy"
  /\ IF sync[s].left = {} THEN Onto(s, "link", "commit") /\ UNCHANGED place
     ELSE IF p \notin Trees THEN Leaves(s) /\ UNCHANGED place
     ELSE \E f \in sync[s].left : /\ place' = [place EXCEPT ![p][f] = canon[f]]
                                  /\ Turns(s, "copy", sync[s].left \ {f})
  /\ UNCHANGED <<canon, shelf, head, bill, owed, sent, settled>>

\* do_commit, of the managed paths.
CommitAll(s) ==
  /\ Under(s) /\ sync[s].at = "commit"
  /\ head' = canon
  /\ settled' = IF s \in alone THEN sync[s].mode ELSE settled
  /\ sent' = IF s \in alone THEN {} ELSE sent
  /\ Leaves(s)
  /\ UNCHANGED <<canon, place, shelf, bill, owed>>
-----------------------------------------------------------------------------
(* a run that is cut short, and the operator *)

\* A kill.  It may leave a part of the file that was being copied.
StopRun(s) ==
  LET p == Spot(s) IN
  /\ Under(s)
  /\ Spend("stops", MaxStops)
  /\ \/ UNCHANGED <<canon, place>>
     \/ /\ sync[s].at = "copy" /\ p \in Trees
        /\ \E f \in sync[s].left : place' = [place EXCEPT ![p][f] = Partial]
        /\ UNCHANGED canon
     \/ /\ sync[s].at = "import" /\ p \in Trees
        /\ \E f \in sync[s].left : /\ place[p][f] \notin {NoFile, canon[f]}
                                   /\ canon' = [canon EXCEPT ![f] = Partial]
        /\ UNCHANGED place
  /\ Leaves(s)
  /\ sent' = {}
  /\ UNCHANGED <<shelf, head, owed, settled>>

\* What an edit makes of a file: a content it never had, or no file.
Edited == {bill["touches"] + 2, NoFile}

\* Nobody has the files for himself after an edit.
Touch ==
  /\ Spend("touches", MaxTouches)
  /\ alone' = {}
  /\ settled' = "no"
  /\ UNCHANGED <<shelf, head, sync>>

EditPlace ==
  /\ Touch
  /\ \E p \in Trees, f \in Asset : \E v \in Edited \ {place[p][f]} :
       /\ place' = [place EXCEPT ![p][f] = v]
       /\ owed' = (owed \ {<<f, place[p][f]>>}) \cup (IF Rest /\ v # NoFile THEN {<<f, v>>} ELSE {})
  /\ sent' = {}
  /\ UNCHANGED canon

EditCanon ==
  /\ Touch
  /\ \E f \in Asset : \E v \in Edited \ {canon[f]} :
       /\ canon' = [canon EXCEPT ![f] = v]
       /\ owed' = owed \ {<<f, canon[f]>>}
       /\ sent' = IF Rest /\ v # NoFile /\ (settled # "no" \/ sent # {})
                  THEN {pair \in sent : pair[1] # f} \cup {<<f, v>>} ELSE {}
  /\ UNCHANGED place
-----------------------------------------------------------------------------
SyncNext ==
  \/ \E s \in Syncer :
       \/ StartRun(s)
       \/ ListPlace(s) \/ ImportFile(s)
       \/ LookAt(s) \/ Backup(s) \/ RemoveTree(s) \/ MakeTree(s) \/ CopyFile(s)
       \/ CommitAll(s)
       \/ StopRun(s)
  \/ EditPlace \/ EditCanon

SyncSpec == SyncInit /\ [][SyncNext]_syncVars
-----------------------------------------------------------------------------
(* Properties *)

\* What the operator wrote in a tool's directory while no run was under way
\* is not lost: however many runs follow, in either mode, overlapping or cut
\* short, it is in the directory of a tool or in a backup.
EditsAreKept == \A pair \in owed : pair \in shelf \/ \E p \in Trees : pair \in Pairs(place[p])

\* A run that has the files for itself puts everything right, whatever runs
\* that were cut short have left: each directory shows what the repository
\* holds, and that is committed.  More runs in the same mode, overlapping or
\* cut short, leave it so.
RunsSettle ==
  settled # "no" =>
    /\ \A p \in Place : \/ place[p] = Foreign
                        \/ settled = "link" /\ place[p] = Link
                        \/ settled = "copy" /\ place[p] = canon
    /\ head = canon

\* An edit of the repository, made when all was in sync and followed by
\* nothing but runs, one after the other, is still there when they commit.
RepoEditsGoOut == \A pair \in sent : canon[pair[1]] = pair[2]
=============================================================================

----------------------------- MODULE BoardLock ------------------------------
(***************************************************************************)
(* taskman/eventlog/locking.py: the O_EXCL lockfile board.lock.            *)
(*                                                                         *)
(* The existence of the file is the lock.  A process that finds it there   *)
(* judges it by its age alone, and renames a stale one out of the way.     *)
(* Each file system call is one action, so that every interleaving of two  *)
(* breakers, of a breaker and a release, and of a breaker and a new        *)
(* acquirer is a behaviour.                                                *)
(*                                                                         *)
(* Time is kept as ages, not as a clock: `age` is that of the file at the  *)
(* lock path, `timer[p]` how long p has waited or, once it has opened the  *)
(* file, how long ago it did.  Both saturate, at the only values the code  *)
(* compares them with, so the model needs no bound on time.                *)
(*                                                                         *)
(* Files renamed to board.lock.stale.* have left the lock path and are     *)
(* never read again; their removal, by the breaker or by                   *)
(* log.sweep_stale_debris, is left out.                                    *)
(***************************************************************************)
EXTENDS Naturals

CONSTANTS
  Procs,        \* processes running taskman commands
  NoOwner,      \* the lock path names no file
  Windows,      \* TRUE: a file with an open handle can be neither renamed nor unlinked
  StaleAfter,   \* STALE_AFTER, in ticks
  Timeout,      \* TIMEOUT, in ticks
  MaxHold,      \* ticks a process keeps the lock; no bound when >= Timeout
  Prompt,       \* TRUE: no process stalls for a tick in the middle of a poll
  MaxCrashes    \* bound: processes killed in a behaviour

ASSUME LockAssumption ==
  /\ NoOwner \notin Procs
  /\ Windows \in BOOLEAN
  /\ Prompt \in BOOLEAN
  /\ StaleAfter \in Nat \ {0}
  /\ Timeout \in Nat
  /\ StaleAfter < Timeout    \* "default acquire deadline; must exceed STALE_AFTER"
  /\ MaxHold \in Nat
  /\ MaxCrashes \in Nat

VARIABLES
  pc,        \* where each process is in exclusive() or _break_if_stale()
  owner,     \* the process that created the file at the lock path, or NoOwner
  age,       \* time since that file's mtime
  timer,     \* per process, see above
  pending,   \* Windows: the name is still reserved by a delete in progress
  crashes    \* processes killed so far

vars == <<pc, owner, age, timer, pending, crashes>>

Inside  == {"opened", "hold"}                     \* fd open
Polling == {"try", "stat", "restat", "rename", "deadline"}
Waiting == Polling \cup {"sleep"}
Holding == Inside \cup {"closed"}                 \* between os.open and os.unlink

TypeOK ==
  /\ pc \in [Procs -> {"idle"} \cup Waiting \cup Holding]
  /\ owner \in Procs \cup {NoOwner}
  /\ age \in 0..StaleAfter
  /\ timer \in [Procs -> 0..Timeout]
  /\ pending \in BOOLEAN
  /\ crashes \in 0..MaxCrashes

Init ==
  /\ pc = [p \in Procs |-> "idle"]
  /\ owner = NoOwner
  /\ age = 0
  /\ timer = [p \in Procs |-> 0]
  /\ pending = FALSE
  /\ crashes = 0

Goto(p, label) == pc' = [pc EXCEPT ![p] = label]

\* Mutant: the descriptor is closed as soon as the pid is written.
HandleOpenBriefly == owner # NoOwner /\ pc[owner] = "opened"

\* A process has one descriptor at a time, so the file at the lock path is
\* open exactly when the process that created it is inside.
HandleOpen == owner # NoOwner /\ pc[owner] \in Inside

\* What Windows refuses while a handle is open: os.rename and os.unlink.
Unbreakable == Windows /\ HandleOpen

Stale == owner # NoOwner /\ age = StaleAfter
-----------------------------------------------------------------------------
(* exclusive(): the acquire loop *)

\* The call: the deadline is set.
Start(p) ==
  /\ pc[p] = "idle"
  /\ Goto(p, "try")
  /\ timer' = [timer EXCEPT ![p] = 0]
  /\ UNCHANGED <<owner, age, pending, crashes>>

\* os.open(O_CREAT|O_EXCL) succeeds.
OpenNew(p) ==
  /\ pc[p] = "try"
  /\ owner = NoOwner
  /\ ~pending
  /\ owner' = p
  /\ age' = 0
  /\ timer' = [timer EXCEPT ![p] = 0]
  /\ Goto(p, "opened")
  /\ UNCHANGED <<pending, crashes>>

\* FileExistsError, or PermissionError on a name whose delete is pending.
OpenHeld(p) ==
  /\ pc[p] = "try"
  /\ owner # NoOwner \/ pending
  /\ Goto(p, "stat")
  /\ UNCHANGED <<owner, age, timer, pending, crashes>>

\* Mutant: every poll sets the deadline anew.
CheckDeadlineNever(p) ==
  /\ pc[p] = "deadline"
  /\ Goto(p, "sleep")
  /\ UNCHANGED <<owner, age, timer, pending, crashes>>

\* monotonic() >= deadline raises LockTimeout, even when this very poll has
\* just broken the lock; otherwise time.sleep(_POLL).
CheckDeadline(p) ==
  /\ pc[p] = "deadline"
  /\ Goto(p, IF timer[p] = Timeout THEN "idle" ELSE "sleep")
  /\ UNCHANGED <<owner, age, timer, pending, crashes>>

Wake(p) ==
  /\ pc[p] = "sleep"
  /\ Goto(p, "try")
  /\ UNCHANGED <<owner, age, timer, pending, crashes>>
-----------------------------------------------------------------------------
(* _break_if_stale(): two looks at the age, then the rename *)

\* os.stat: gone or fresh returns, stale goes on to the second look.
Stat(p) ==
  /\ pc[p] = "stat"
  /\ Goto(p, IF Stale THEN "restat" ELSE "deadline")
  /\ UNCHANGED <<owner, age, timer, pending, crashes>>

\* Mutant: the second look gives up on what is still stale.
RestatInverted(p) ==
  /\ pc[p] = "restat"
  /\ Goto(p, IF Stale THEN "deadline" ELSE "rename")
  /\ UNCHANGED <<owner, age, timer, pending, crashes>>

Restat(p) ==
  /\ pc[p] = "restat"
  /\ Goto(p, IF Stale THEN "rename" ELSE "deadline")
  /\ UNCHANGED <<owner, age, timer, pending, crashes>>

\* os.rename(lock_path, doomed) takes whatever file is there by now.  Nothing
\* there, or on Windows a live holder's handle, is an OSError.
Rename(p) ==
  /\ pc[p] = "rename"
  /\ owner' = IF Unbreakable THEN owner ELSE NoOwner
  /\ age' = IF Unbreakable THEN age ELSE 0
  /\ Goto(p, "deadline")
  /\ UNCHANGED <<timer, pending, crashes>>
-----------------------------------------------------------------------------
(* exclusive(): the hold and the release *)

\* os.write of the pid line: the file's mtime is now, wherever the file is.
WritePid(p) ==
  /\ pc[p] = "opened"
  /\ age' = IF owner = p THEN 0 ELSE age
  /\ Goto(p, "hold")
  /\ UNCHANGED <<owner, timer, pending, crashes>>

\* The body has returned or raised: os.close(fd).
Close(p) ==
  /\ pc[p] = "hold"
  /\ Goto(p, "closed")
  /\ UNCHANGED <<owner, age, timer, pending, crashes>>

\* os.unlink(lock_path), whoever's file that is; an OSError is ignored.  On
\* Windows the name may outlive the file until other handles on it close.
Unlink(p) ==
  /\ pc[p] = "closed"
  /\ IF owner = NoOwner \/ Unbreakable
     THEN UNCHANGED <<owner, age, pending>>
     ELSE /\ owner' = NoOwner
          /\ age' = 0
          /\ \/ pending' = FALSE
             \/ Windows /\ pending' = TRUE
  /\ Goto(p, "idle")
  /\ UNCHANGED <<timer, crashes>>
-----------------------------------------------------------------------------
(* the environment *)

\* The process is killed; the operating system closes its descriptor, the
\* file stays.  Its slot may run another command later.
Crash(p) ==
  /\ pc[p] # "idle"
  /\ crashes < MaxCrashes
  /\ crashes' = crashes + 1
  /\ Goto(p, "idle")
  /\ UNCHANGED <<owner, age, timer, pending>>

\* The last handle on a deleted file closes and frees the name.
DeleteCompletes ==
  /\ pending
  /\ pending' = FALSE
  /\ UNCHANGED <<pc, owner, age, timer, crashes>>

Older(n, limit) == IF n < limit THEN n + 1 ELSE limit

HoldsAreShort ==
  MaxHold < Timeout => \A p \in Procs : pc[p] \in Holding => timer[p] < MaxHold

\* One unit of time, many polls long, passes: every sleeper wakes in it.
Tick ==
  /\ HoldsAreShort
  /\ Prompt => \A p \in Procs : pc[p] \notin Polling
  /\ age' = IF owner = NoOwner THEN 0 ELSE Older(age, StaleAfter)
  /\ timer' = [p \in Procs |-> IF pc[p] = "idle" THEN timer[p] ELSE Older(timer[p], Timeout)]
  /\ pc' = [p \in Procs |-> IF pc[p] = "sleep" THEN "try" ELSE pc[p]]
  /\ UNCHANGED <<owner, pending, crashes>>
-----------------------------------------------------------------------------
\* A call once made runs on.
Step(p) ==
  \/ OpenNew(p) \/ OpenHeld(p) \/ CheckDeadline(p) \/ Wake(p)
  \/ Stat(p) \/ Restat(p) \/ Rename(p)
  \/ WritePid(p) \/ Close(p) \/ Unlink(p)

Next ==
  \/ \E p \in Procs : Start(p) \/ Step(p) \/ Crash(p)
  \/ DeleteCompletes
  \/ Tick

Spec == Init /\ [][Next]_vars

\* The operating system schedules every process that can run, lets time pass
\* and finishes its deletes.  Nobody has to call exclusive(), nobody has to
\* be killed.
Fairness ==
  /\ \A p \in Procs : WF_vars(Step(p))
  /\ WF_vars(DeleteCompletes)
  /\ WF_vars(Tick)

FairSpec == Spec /\ Fairness

\* ... and agents keep running commands.
BusySpec == FairSpec /\ \A p \in Procs : WF_vars(Start(p))
-----------------------------------------------------------------------------
(* Properties *)

\* At most one process is between os.open and os.close of the lock file: the
\* critical section every board write relies on.
MutualExclusion ==
  \A p, q \in Procs : pc[p] \in Inside /\ pc[q] \in Inside => p = q

\* While a process is inside, the file at the lock path is the one it
\* created: neither a breaker's rename nor an earlier holder's late
\* os.unlink has taken it away.
HolderOwnsFile == \A p \in Procs : pc[p] \in Inside => owner = p

\* The lockfile implements the mutual exclusion that EventLog is written
\* against: BoardMutex, with those inside read off the open descriptors.
Mutex == INSTANCE BoardMutex WITH inside <- {p \in Procs : pc[p] \in Inside}
ImplementsMutex == Mutex!MutexSpec

\* Every exclusive() call ends: with the lock, or with LockTimeout.
CallReturns ==
  \A p \in Procs : pc[p] \in Waiting ~> pc[p] \in Inside \cup {"idle"}

\* A file whose creator is gone does not wedge the board for good: as long as
\* commands are run, the lock path is again and again free or held by a
\* process that is alive.
NeverWedged == []<>(owner = NoOwner \/ pc[owner] \in Holding)
=============================================================================

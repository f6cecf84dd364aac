----------------------------- MODULE BoardMutex -----------------------------
(***************************************************************************)
(* What taskman's board lock promises: `with exclusive(lock_path)` admits  *)
(* at most one process to the critical section at a time.  A process       *)
(* leaves by returning, by raising, or by being killed; the specification  *)
(* makes no difference between them.  BoardLock is the lockfile that       *)
(* implements this on Windows; EventLog is written against it.             *)
(***************************************************************************)
CONSTANT Procs      \* the processes that run taskman commands
VARIABLE inside     \* those between the two ends of a `with exclusive()`

MutexTypeOK == inside \subseteq Procs

MutexInit == inside = {}

Enter(p) == /\ inside = {}
            /\ inside' = {p}

Leave(p) == /\ p \in inside
            /\ inside' = inside \ {p}

MutexNext == \E p \in Procs : Enter(p) \/ Leave(p)

MutexSpec == MutexInit /\ [][MutexNext]_inside
=============================================================================

-------------------------- MODULE BoardLockProofs ---------------------------
(***************************************************************************)
(* Proofs about the lockfile for any set of processes and any timing:      *)
(*   - on Windows mutual exclusion holds whatever stalls or crashes;       *)
(*   - on POSIX it holds when nobody is killed and every hold ends before  *)
(*     the file can be judged stale.                                       *)
(***************************************************************************)
EXTENDS BoardLock, TLAPS

\* Every variable keeps its type: in particular the saturating ages stay
\* within the values the code compares them with.
THEOREM TypeCorrect == Spec => []TypeOK
<1> USE LockAssumption
<1>1. Init => TypeOK
  <2> SUFFICES ASSUME Init PROVE TypeOK
    OBVIOUS
  <2>1. pending \in BOOLEAN
    BY Zenon DEF Init
  <2>2. /\ age \in 0..StaleAfter
        /\ timer \in [Procs -> 0..Timeout]
        /\ crashes \in 0..MaxCrashes
    BY DEF Init
  <2>3. /\ pc \in [Procs -> {"idle"} \cup Waiting \cup Holding]
        /\ owner \in Procs \cup {NoOwner}
    BY DEF Init
  <2> QED
    BY <2>1, <2>2, <2>3 DEF TypeOK
<1>2. TypeOK /\ [Next]_vars => TypeOK'
  <2> SUFFICES ASSUME TypeOK, [Next]_vars PROVE TypeOK'
    OBVIOUS
  <2> USE DEF TypeOK, Goto, Waiting, Polling, Holding, Inside
  <2>1. ASSUME NEW p \in Procs, Start(p) PROVE TypeOK'
    BY <2>1 DEF Start
  <2>2. ASSUME NEW p \in Procs, OpenNew(p) PROVE TypeOK'
    BY <2>2 DEF OpenNew
  <2>3. ASSUME NEW p \in Procs,
               OpenHeld(p) \/ CheckDeadline(p) \/ Wake(p) \/ Stat(p) \/ Restat(p)
        PROVE  TypeOK'
    BY <2>3 DEF OpenHeld, CheckDeadline, Wake, Stat, Restat
  <2>4. ASSUME NEW p \in Procs, Rename(p) PROVE TypeOK'
    BY <2>4 DEF Rename
  <2>5. ASSUME NEW p \in Procs, WritePid(p) \/ Close(p) PROVE TypeOK'
    BY <2>5 DEF WritePid, Close
  <2>6. ASSUME NEW p \in Procs, Unlink(p) PROVE TypeOK'
    <3>1. pending' \in BOOLEAN
      BY <2>6, Zenon DEF Unlink
    <3>2. owner' \in Procs \cup {NoOwner} /\ age' \in 0..StaleAfter
      BY <2>6 DEF Unlink
    <3>3. pc' = [pc EXCEPT ![p] = "idle"] /\ timer' = timer /\ crashes' = crashes
      BY <2>6 DEF Unlink
    <3> QED BY <3>1, <3>2, <3>3
  <2>7. ASSUME NEW p \in Procs, Crash(p) PROVE TypeOK'
    BY <2>7 DEF Crash
  <2>8. CASE DeleteCompletes
    BY <2>8 DEF DeleteCompletes
  <2>9. CASE Tick
    BY <2>9 DEF Tick, Older
  <2>10. CASE UNCHANGED vars
    BY <2>10 DEF vars
  <2> QED
    BY <2>1, <2>2, <2>3, <2>4, <2>5, <2>6, <2>7, <2>8, <2>9, <2>10 DEF Next, Step
<1> QED
  BY <1>1, <1>2, PTL DEF Spec

\* The process inside owns the file at the lock path, so no two are inside.
LEMMA OwnerIsAlone == HolderOwnsFile => MutualExclusion
  BY DEF HolderOwnsFile, MutualExclusion
-----------------------------------------------------------------------------
(* Windows *)

\* One step on Windows: what could take the file from under the process
\* inside, a rename or an unlink, is refused as long as its handle is open.
LEMMA WindowsStep ==
  ASSUME Windows, TypeOK, HolderOwnsFile, [Next]_vars
  PROVE  HolderOwnsFile'
<1> USE LockAssumption DEF TypeOK, HolderOwnsFile, Goto, Inside, Waiting, Polling, Holding
<1>1. ASSUME NEW p \in Procs, Start(p) \/ Crash(p) PROVE HolderOwnsFile'
  BY <1>1 DEF Start, Crash
<1>2. ASSUME NEW p \in Procs, OpenNew(p) PROVE HolderOwnsFile'
  BY <1>2 DEF OpenNew
<1>3. ASSUME NEW p \in Procs,
             OpenHeld(p) \/ CheckDeadline(p) \/ Wake(p) \/ Stat(p) \/ Restat(p)
      PROVE  HolderOwnsFile'
  BY <1>3 DEF OpenHeld, CheckDeadline, Wake, Stat, Restat
<1>4. ASSUME NEW p \in Procs, Rename(p) PROVE HolderOwnsFile'
  BY <1>4 DEF Rename, Unbreakable, HandleOpen
<1>5. ASSUME NEW p \in Procs, WritePid(p) \/ Close(p) PROVE HolderOwnsFile'
  BY <1>5 DEF WritePid, Close
<1>6. ASSUME NEW p \in Procs, Unlink(p) PROVE HolderOwnsFile'
  BY <1>6 DEF Unlink, Unbreakable, HandleOpen
<1>7. CASE DeleteCompletes \/ Tick
  BY <1>7 DEF DeleteCompletes, Tick
<1>8. CASE UNCHANGED vars
  BY <1>8 DEF vars
<1> QED
  BY <1>1, <1>2, <1>3, <1>4, <1>5, <1>6, <1>7, <1>8 DEF Next, Step

\* On Windows a process inside is never robbed of its file, however long it
\* stays there and whoever crashes.
THEOREM WindowsHolderOwnsFile ==
  ASSUME Windows PROVE Spec => []HolderOwnsFile
<1>1. Init => HolderOwnsFile
  BY DEF Init, HolderOwnsFile, Inside
<1>2. TypeOK /\ HolderOwnsFile /\ [Next]_vars => HolderOwnsFile'
  BY WindowsStep
<1> QED
  BY <1>1, <1>2, TypeCorrect, PTL DEF Spec

\* On Windows the stale break never lets two processes in.
THEOREM WindowsMutualExclusion ==
  ASSUME Windows PROVE Spec => []MutualExclusion
BY WindowsHolderOwnsFile, OwnerIsAlone, PTL

\* On Windows the lockfile implements BoardMutex: opening the file enters,
\* closing it or being killed leaves, and every other step stutters.
THEOREM WindowsImplementsMutex ==
  ASSUME Windows PROVE Spec => ImplementsMutex
<1> USE LockAssumption
<1>1. Init => Mutex!MutexInit
  BY DEF Init, Mutex!MutexInit, Inside
<1>2. TypeOK /\ HolderOwnsFile /\ [Next]_vars
        => [Mutex!MutexNext]_({p \in Procs : pc[p] \in Inside})
  <2> SUFFICES ASSUME TypeOK, HolderOwnsFile, [Next]_vars
               PROVE  [Mutex!MutexNext]_({p \in Procs : pc[p] \in Inside})
    OBVIOUS
  <2> DEFINE in == {p \in Procs : pc[p] \in Inside}
  <2> USE DEF TypeOK, Goto, Inside, Waiting, Polling, Holding
  <2>1. ASSUME NEW p \in Procs, OpenNew(p) PROVE Mutex!Enter(p)
    BY <2>1 DEF OpenNew, HolderOwnsFile, Mutex!Enter
  <2>2. ASSUME NEW p \in Procs, Close(p) PROVE Mutex!Leave(p)
    BY <2>2 DEF Close, Mutex!Leave
  <2>3. ASSUME NEW p \in Procs, Crash(p) PROVE Mutex!Leave(p) \/ in' = in
    <3>1. CASE pc[p] \in Inside
      BY <2>3, <3>1 DEF Crash, Mutex!Leave
    <3>2. CASE pc[p] \notin Inside
      BY <2>3, <3>2 DEF Crash
    <3> QED BY <3>1, <3>2
  <2>4. ASSUME NEW p \in Procs,
               \/ Start(p) \/ OpenHeld(p) \/ CheckDeadline(p) \/ Wake(p) \/ Stat(p)
               \/ Restat(p) \/ Rename(p) \/ WritePid(p) \/ Unlink(p)
        PROVE  in' = in
    BY <2>4 DEF Start, OpenHeld, CheckDeadline, Wake, Stat, Restat, Rename, WritePid, Unlink
  <2>5. CASE DeleteCompletes \/ Tick \/ UNCHANGED vars
    BY <2>5 DEF DeleteCompletes, Tick, vars
  <2> QED
    BY <2>1, <2>2, <2>3, <2>4, <2>5 DEF Next, Step, Mutex!MutexNext
<1> QED
  BY <1>1, <1>2, TypeCorrect, WindowsHolderOwnsFile, PTL
     DEF Spec, ImplementsMutex, Mutex!MutexSpec
-----------------------------------------------------------------------------
(* POSIX, nobody killed, short holds *)

\* Why nobody breaks a live lock on POSIX: every file at the lock path has
\* its creator at work on it, is no older than that hold, and the hold is too
\* short for the file to go stale, so no breaker gets past its first look.
TimedInv ==
  /\ \A p \in Procs : pc[p] \in Holding
        => owner = p /\ age <= timer[p] /\ timer[p] <= MaxHold
  /\ owner # NoOwner => pc[owner] \in Holding
  /\ \A p \in Procs : pc[p] \notin {"restat", "rename"}

\* While no holder outlives the stale age, no lock in place is stale.
LEMMA TimedNeverStale ==
  ASSUME MaxHold < StaleAfter, TypeOK, TimedInv
  PROVE  ~Stale
  BY LockAssumption DEF TypeOK, TimedInv, Stale

\* Every step keeps the bound on the age of a held lock.
LEMMA TimedStep ==
  ASSUME MaxCrashes = 0, MaxHold < StaleAfter, TypeOK, TimedInv, [Next]_vars
  PROVE  TimedInv'
<1> USE LockAssumption DEF TypeOK, TimedInv, Goto, Inside, Waiting, Polling, Holding
<1>1. ASSUME NEW p \in Procs, Start(p) PROVE TimedInv'
  BY <1>1 DEF Start
<1>2. ASSUME NEW p \in Procs, OpenNew(p) PROVE TimedInv'
  BY <1>2 DEF OpenNew
<1>3. ASSUME NEW p \in Procs, OpenHeld(p) \/ CheckDeadline(p) \/ Wake(p) PROVE TimedInv'
  BY <1>3 DEF OpenHeld, CheckDeadline, Wake
<1>4. ASSUME NEW p \in Procs, Stat(p) PROVE TimedInv'
  BY <1>4, TimedNeverStale DEF Stat
<1>5. ASSUME NEW p \in Procs, Restat(p) \/ Rename(p) PROVE TimedInv'
  BY <1>5 DEF Restat, Rename
<1>6. ASSUME NEW p \in Procs, WritePid(p) PROVE TimedInv'
  BY <1>6 DEF WritePid
<1>7. ASSUME NEW p \in Procs, Close(p) PROVE TimedInv'
  BY <1>7 DEF Close
<1>8. ASSUME NEW p \in Procs, Unlink(p) PROVE TimedInv'
  BY <1>8 DEF Unlink, Unbreakable, HandleOpen
<1>9. ASSUME NEW p \in Procs, Crash(p) PROVE TimedInv'
  BY <1>9 DEF Crash
<1>10. CASE DeleteCompletes
  BY <1>10 DEF DeleteCompletes
<1>11. CASE Tick
  <2>1. \A p \in Procs : pc[p] \in Holding => timer[p] < MaxHold
    BY <1>11 DEF Tick, HoldsAreShort
  <2>2. \A p \in Procs : pc'[p] \in Holding => pc[p] \in Holding /\ pc'[p] = pc[p]
    BY <1>11 DEF Tick
  <2>3. \A p \in Procs : pc[p] \in Holding
          => /\ owner' = p
             /\ timer'[p] = timer[p] + 1
             /\ age' <= age + 1
    BY <1>11, <2>1 DEF Tick, Older
  <2>4. \A p \in Procs : pc'[p] \in Holding
          => owner' = p /\ age' <= timer'[p] /\ timer'[p] <= MaxHold
    <3> SUFFICES ASSUME NEW p \in Procs, pc'[p] \in Holding
                 PROVE  owner' = p /\ age' <= timer'[p] /\ timer'[p] <= MaxHold
      OBVIOUS
    <3>1. age' \in Nat
      BY <1>11 DEF Tick, Older
    <3> QED BY <2>1, <2>2, <2>3, <3>1
  <2>5. /\ owner' # NoOwner => pc'[owner'] \in Holding
        /\ \A p \in Procs : pc'[p] \notin {"restat", "rename"}
    BY <1>11 DEF Tick
  <2> QED BY <2>4, <2>5
<1>12. CASE UNCHANGED vars
  BY <1>12 DEF vars
<1> QED
  BY <1>1, <1>2, <1>3, <1>4, <1>5, <1>6, <1>7, <1>8, <1>9, <1>10, <1>11, <1>12 DEF Next, Step

\* On POSIX the lock excludes as long as no process is killed and every hold
\* is shorter than STALE_AFTER: the assumption behind "hold times here are
\* one JSON line's worth of I/O".
THEOREM TimedMutualExclusion ==
  ASSUME MaxCrashes = 0, MaxHold < StaleAfter
  PROVE  Spec => []MutualExclusion
<1>1. Init => TimedInv
  BY DEF Init, TimedInv, Holding, Inside
<1>2. TypeOK /\ TimedInv /\ [Next]_vars => TimedInv'
  BY TimedStep
<1>3. TimedInv => MutualExclusion
  BY DEF TimedInv, MutualExclusion, Holding
<1> QED
  BY <1>1, <1>2, <1>3, TypeCorrect, PTL DEF Spec
=============================================================================

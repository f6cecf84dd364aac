---------------------------- MODULE SessionProofs ---------------------------
(***************************************************************************)
(* Proofs about sessions and the wrap-up gate, for any sessions, runners,  *)
(* window lengths, files and tasks: hooks and commands that interleave at  *)
(* every file system call, and kills, never move a session's anchor past   *)
(* the one it last asked for, but for the two cases that `astray` records; *)
(* a peer at work is seen; a gate that passes has seen to what was due.    *)
(***************************************************************************)
EXTENDS WrapupGate, TLAPS

-----------------------------------------------------------------------------
(* types *)

\* What a runner is at says which kind of job it has.
LEMMA JobKinds ==
  ASSUME NEW j \in Job
  PROVE  /\ j.at = "idle" => j = Idle
         /\ j.at \in {"open", "write"} => j \in MarkerJob
         /\ j.at = "sweep" => j \in SweepJob
         /\ j.at \in {"unlink", "unlinkReceipt"} => j \in UnlinkJob
         /\ j.at = "look" => j \in LookJob
         /\ j.at \in GatePhases => j \in GateJob
         /\ j.at \in {"save", "saved"} => j \in RecordJob
<1>1. /\ Idle.at = "idle"
      /\ j \in MarkerJob => j.at \in {"open", "write"}
      /\ j \in SweepJob => j.at = "sweep"
      /\ j \in UnlinkJob => j.at \in {"unlink", "unlinkReceipt"}
      /\ j \in LookJob => j.at = "look"
      /\ j \in GateJob => j.at \in GatePhases
      /\ j \in RecordJob => j.at \in {"save", "saved"}
  BY DEF Idle, MarkerJob, SweepJob, UnlinkJob, LookJob, GateJob, RecordJob
<1>2. \/ j = Idle \/ j \in MarkerJob \/ j \in SweepJob \/ j \in UnlinkJob \/ j \in LookJob
      \/ j \in GateJob \/ j \in RecordJob
  BY DEF Job, HookJob
<1> QED BY <1>1, <1>2 DEF GatePhases

\* A job with a list of other sessions.
Listing == SweepJob \cup UnlinkJob \cup LookJob

OthersOnly(j, s) == j \in Listing => s \notin j.todo

\* A job that has no list of sessions, by what it is at.
LEMMA NoList ==
  ASSUME NEW j, NEW s, j.at \notin {"sweep", "unlink", "unlinkReceipt", "look"}
  PROVE  OthersOnly(j, s)
<1>1. /\ j \in SweepJob => j.at = "sweep"
      /\ j \in UnlinkJob => j.at \in {"unlink", "unlinkReceipt"}
      /\ j \in LookJob => j.at = "look"
  BY DEF SweepJob, UnlinkJob, LookJob
<1> QED BY <1>1 DEF OthersOnly, Listing

\* A runner between two hooks has a job, and no list.
LEMMA Idling == Idle \in Job /\ (\A s : OthersOnly(Idle, s))
<1>1. Idle.at = "idle"
  BY DEF Idle
<1> QED BY <1>1, NoList DEF Job, HookJob

\* A sweep goes on with a list without its own session, or ends.
LEMMA SweepsOn ==
  ASSUME NEW s \in Session, NEW todo \in SUBSET Session, s \notin todo
  PROVE  Sweeping(todo) \in Job /\ OthersOnly(Sweeping(todo), s)
<1>1. CASE todo = {}
  BY <1>1, Idling DEF Sweeping
<1>2. CASE todo # {}
  <2>1. Sweeping(todo) = [at |-> "sweep", todo |-> todo]
    BY <1>2 DEF Sweeping
  <2>2. [at |-> "sweep", todo |-> todo] \in SweepJob
    BY DEF SweepJob
  <2> QED BY <2>1, <2>2 DEF Job, HookJob, OthersOnly
<1> QED BY <1>1, <1>2

\* What follows a write of the marker is a job about other sessions only.
LEMMA Continues ==
  ASSUME NEW s \in Session, NEW then \in {"idle", "look", "sweep"}
  PROVE  After(s, then) \in Job /\ OthersOnly(After(s, then), s)
<1>1. CASE then = "idle"
  <2>1. After(s, then) = Idle
    BY <1>1 DEF After
  <2> QED BY <2>1, Idling
<1>2. CASE then = "sweep"
  <2>1. After(s, then) = Sweeping(Others(s))
    BY <1>2 DEF After
  <2>2. Others(s) \in SUBSET Session /\ s \notin Others(s)
    BY DEF Others
  <2> QED BY <2>1, <2>2, SweepsOn
<1>3. CASE then = "look"
  <2>1. After(s, then) = [at |-> "look", todo |-> Others(s), peers |-> {}]
    BY <1>3 DEF After
  <2>2. [at |-> "look", todo |-> Others(s), peers |-> {}] \in LookJob
    BY DEF LookJob, Others
  <2> QED BY <2>1, <2>2 DEF Job, HookJob, OthersOnly, Others
<1> QED BY <1>1, <1>2, <1>3

\* The types of everything but the jobs.
Rest ==
  /\ now \in Nat
  /\ head \in Nat
  /\ marker \in [Session -> {Absent} \cup Marker]
  /\ receipt \in [Session -> SUBSET Clearable]
  /\ calls \in Nat
  /\ kills \in Nat
  /\ beat \in [Session -> Nat]
  /\ root \in [Session -> Anchor]
  /\ astray \subseteq Session
  /\ committed \in [Path -> Nat]
  /\ tracked \subseteq Path /\ dirty \subseteq Path
  /\ task \in [Task -> [status : Statuses, touched : Nat]]
  /\ stirred \in [Runner -> SUBSET Clearable]

\* TypeOK, with the jobs apart.
LEMMA TypesSplit ==
  TypeOK <=> Rest /\ job \in [Runner -> Job] /\ \A r \in Runner : OthersOnly(job[r], Owner[r])
BY DEF TypeOK, SessionsTypeOK, Rest, OthersOnly, Listing

\* A step of one runner keeps TypeOK if its new job is one, and the rest is typed.
LEMMA JobChange ==
  ASSUME TypeOK, NEW r \in Runner, NEW j \in Job, OthersOnly(j, Owner[r]),
         job' = [job EXCEPT ![r] = j], Rest'
  PROVE  TypeOK'
<1>1. /\ job' \in [Runner -> Job]
      /\ \A q \in Runner : OthersOnly(job'[q], Owner[q])
  BY TypesSplit
<1> QED
  BY <1>1 DEF TypeOK, SessionsTypeOK, Rest, OthersOnly, Listing

\* Every step of a hook, and its being killed, keeps the types.
LEMMA HooksKeepTypes ==
  ASSUME TypeOK, NEW r \in Runner, HookStep(r), UNCHANGED wrapupVars
  PROVE  TypeOK'
<1> USE SessionsAssumption
<1> DEFINE s == Owner[r]
           j == job[r]
<1>1. /\ s \in Session /\ j \in Job /\ OthersOnly(j, s)
      /\ Rest
  BY TypesSplit
<1>2. UNCHANGED <<committed, tracked, dirty, task, stirred>>
  BY DEF wrapupVars, treeVars
<1>3. ASSUME NEW c \in Contents, NEW by \in {"start", "resume", "guard", "open"},
             NEW then \in {"idle", "look", "sweep"}
      PROVE  Rewriting(c, by, then) \in Job /\ OthersOnly(Rewriting(c, by, then), s)
  <2>1. Rewriting(c, by, then) \in MarkerJob /\ Rewriting(c, by, then).at = "open"
    BY DEF Rewriting, MarkerJob
  <2> QED BY <2>1, NoList DEF Job, HookJob
<1>4. Idle \in Job /\ OthersOnly(Idle, s)
  BY Idling
<1>5. \A x \in Session : Whole(x) => marker[x] \in Marker
  BY <1>1 DEF Rest, Whole
<1>6. ASSUME NEW keeps \in BOOLEAN, Start(r, keeps) PROVE TypeOK'
  <2> DEFINE c == Started(s, keeps)
             by == IF keeps THEN "resume" ELSE "start"
  <2>1. c \in Contents
    BY <1>1, <1>5 DEF Started, Contents, Marker, Rest
  <2>2. job' = [job EXCEPT ![r] = Rewriting(c, by, "sweep")]
    BY <1>6 DEF Start
  <2>3. Rest'
    BY <1>1, <1>2, <1>6 DEF Start, Begin, Rest
  <2>4. by \in {"start", "resume", "guard", "open"}
    OBVIOUS
  <2> HIDE DEF c, by
  <2> QED BY <1>3, <2>1, <2>2, <2>3, <2>4, JobChange DEF s
<1>7. ASSUME NEW global \in BOOLEAN, Guard(r, global) PROVE TypeOK'
  <2> DEFINE then == IF global THEN "look" ELSE "idle"
             c == [sha |-> marker[s].sha, started |-> marker[s].started, updated |-> now]
  <2>1. then \in {"idle", "look", "sweep"}
    OBVIOUS
  <2>2. Rest'
    BY <1>1, <1>2, <1>7 DEF Guard, Begin, Rest
  <2>3. CASE Due(s)
    <3>1. c \in Contents
      BY <1>1, <1>5, <2>3 DEF Due, Contents, Marker, Rest
    <3>2. job' = [job EXCEPT ![r] = Rewriting(c, "guard", then)]
      BY <1>7, <2>3 DEF Guard
    <3> HIDE DEF c, then
    <3> QED BY <1>3, <2>1, <2>2, <3>1, <3>2, JobChange DEF s
  <2>4. CASE ~Due(s)
    <3>1. job' = [job EXCEPT ![r] = After(s, then)]
      BY <1>7, <2>4 DEF Guard
    <3> HIDE DEF then
    <3> QED BY <1>1, <2>1, <2>2, <3>1, Continues, JobChange DEF s
  <2> QED BY <2>3, <2>4
<1>8. CASE Notice(r) \/ SweepMarkers(r)
  <2>1. Rest'
    BY <1>1, <1>2, <1>8 DEF Notice, SweepMarkers, Begin, Rest
  <2> QED BY <1>1, <1>8, <2>1, Continues, JobChange DEF Notice, SweepMarkers
<1>9. CASE OpenMarker(r)
  <2> DEFINE k == [j EXCEPT !.at = "write"]
  <2>1. j \in MarkerJob
    BY <1>1, <1>9, JobKinds DEF OpenMarker
  <2>2. k \in Job /\ k.at = "write"
    BY <2>1 DEF MarkerJob, Job, HookJob
  <2>3. Rest'
    BY <1>1, <1>2, <1>9 DEF OpenMarker, Rest, Marker
  <2>4. job' = [job EXCEPT ![r] = k]
    BY <1>9 DEF OpenMarker
  <2> HIDE DEF k
  <2> QED BY <2>2, <2>3, <2>4, JobChange, NoList
<1>10. CASE WriteMarker(r)
  <2>1. j.new \in Contents /\ j.then \in {"idle", "look", "sweep"}
    BY <1>1, <1>10, JobKinds DEF WriteMarker, MarkerJob
  <2>2. Rest'
    BY <1>1, <1>2, <1>10, <2>1 DEF WriteMarker, Rest, Marker, Contents, Anchor, AnchorOf
  <2>3. job' = [job EXCEPT ![r] = After(s, j.then)]
    BY <1>10 DEF WriteMarker
  <2> QED BY <1>1, <2>1, <2>2, <2>3, Continues, JobChange
<1>11. ASSUME NEW q \in Session, Judge(r, q) PROVE TypeOK'
  <2>1. j \in SweepJob /\ j.todo \in SUBSET Session /\ s \notin j.todo
    BY <1>1, <1>11, JobKinds DEF Judge, SweepJob, OthersOnly, Listing
  <2> DEFINE rest == j.todo \ {q}
             k == [at |-> "unlink", victim |-> q, todo |-> rest]
  <2>2. k \in UnlinkJob /\ k.todo = rest
    BY <2>1 DEF UnlinkJob
  <2>3. k \in Job /\ OthersOnly(k, s)
    BY <2>1, <2>2 DEF Job, HookJob, OthersOnly
  <2>4. Sweeping(rest) \in Job /\ OthersOnly(Sweeping(rest), s)
    BY <1>1, <2>1, SweepsOn
  <2>5. Rest'
    BY <1>1, <1>2, <1>11 DEF Judge, Rest
  <2>6. job' = [job EXCEPT ![r] = k] \/ job' = [job EXCEPT ![r] = Sweeping(rest)]
    BY <1>11 DEF Judge
  <2> HIDE DEF k, rest
  <2> QED BY <2>3, <2>4, <2>5, <2>6, JobChange
<1>12. CASE UnlinkMarker(r)
  <2> DEFINE k == [j EXCEPT !.at = "unlinkReceipt"]
  <2>1. j \in UnlinkJob /\ s \notin j.todo
    BY <1>1, <1>12, JobKinds DEF UnlinkMarker, OthersOnly, Listing
  <2>2. k \in UnlinkJob /\ k.todo = j.todo
    BY <2>1 DEF UnlinkJob
  <2>3. Rest'
    BY <1>1, <1>2, <1>12 DEF UnlinkMarker, Rest
  <2>4. job' = [job EXCEPT ![r] = k]
    BY <1>12 DEF UnlinkMarker
  <2> HIDE DEF k
  <2> QED BY <2>1, <2>2, <2>3, <2>4, JobChange DEF Job, HookJob, OthersOnly
<1>13. CASE UnlinkReceipt(r)
  <2>1. j \in UnlinkJob /\ j.todo \in SUBSET Session /\ s \notin j.todo
    BY <1>1, <1>13, JobKinds DEF UnlinkReceipt, UnlinkJob, OthersOnly, Listing
  <2>2. Rest'
    BY <1>1, <1>2, <1>13 DEF UnlinkReceipt, Rest
  <2>3. job' = [job EXCEPT ![r] = Sweeping(j.todo)]
    BY <1>13 DEF UnlinkReceipt
  <2> QED BY <1>1, <2>1, <2>2, <2>3, SweepsOn, JobChange
<1>14. ASSUME NEW q \in Session, Look(r, q) PROVE TypeOK'
  <2>1. j \in LookJob /\ s \notin j.todo
    BY <1>1, <1>14, JobKinds DEF Look, OthersOnly, Listing
  <2> DEFINE k == [j EXCEPT !.todo = @ \ {q}, !.peers = IF Warm(q) THEN @ \cup {q} ELSE @]
  <2>3. k \in LookJob /\ s \notin k.todo
    BY <2>1 DEF LookJob
  <2>4. Rest'
    BY <1>1, <1>2, <1>14 DEF Look, Rest
  <2>5. job' = [job EXCEPT ![r] = k]
    BY <1>14 DEF Look
  <2> HIDE DEF k
  <2> QED BY <2>3, <2>4, <2>5, JobChange DEF Job, HookJob, OthersOnly
<1>15. CASE Decide(r) \/ Kill(r)
  <2>1. Rest'
    BY <1>1, <1>2, <1>15 DEF Decide, Kill, Rest
  <2>2. job' = [job EXCEPT ![r] = Idle]
    BY <1>15 DEF Decide, Kill
  <2> QED BY <1>4, <2>1, <2>2, JobChange
<1> QED
  BY <1>6, <1>7, <1>8, <1>9, <1>10, <1>11, <1>12, <1>13, <1>14, <1>15 DEF HookStep

\* Every step of `wrapup open | gate | record` keeps the types.
LEMMA WrapupKeepsTypes ==
  ASSUME TypeOK, NEW r \in Runner, WrapupStep(r)
  PROVE  TypeOK'
<1> USE SessionsAssumption, WrapupAssumption
<1> DEFINE s == Owner[r]
           j == job[r]
<1>1. s \in Session /\ j \in Job /\ Rest
  BY TypesSplit
<1>2. ASSUME NEW k \in GateJob \cup RecordJob, job' = [job EXCEPT ![r] = k], Rest'
      PROVE  TypeOK'
  <2>1. k \in Job /\ k.at \notin {"sweep", "unlink", "unlinkReceipt", "look"}
    BY DEF Job, GateJob, RecordJob, GatePhases
  <2> QED BY <1>2, <2>1, NoList, JobChange
<1>3. ASSUME job' = [job EXCEPT ![r] = Idle], Rest' PROVE TypeOK'
  BY <1>3, Idling, JobChange
<1>4. /\ \A sha \in Nat : /\ CommittedSince(sha) \subseteq Path /\ TrackedSince(sha) \subseteq Path
                           /\ ChangedSince(sha) \subseteq Path
      /\ Untracked \subseteq Path
  BY <1>1 DEF CommittedSince, TrackedSince, ChangedSince, Untracked, Rest
<1>5. \A q \in MarkersFor(s) : q \in Session
  BY <1>1 DEF MarkersFor, Present
<1>6. ASSUME Local, UNCHANGED wrapupVars PROVE Rest'
  BY <1>1, <1>6 DEF Local, wrapupVars, treeVars, Rest
<1>7. ASSUME NEW sha \in 0 .. head, Open(r, sha) PROVE TypeOK'
  <2> DEFINE c == [sha |-> sha, started |-> now, updated |-> now]
             k == Rewriting(c, "open", "idle")
  <2>1. c \in Contents
    BY <1>1 DEF Contents, Rest
  <2>2. k \in MarkerJob /\ k.at = "open"
    BY <2>1 DEF Rewriting, MarkerJob
  <2>3. Rest'
    BY <1>1, <1>7 DEF Open, Begin, wrapupVars, treeVars, Rest
  <2>4. job' = [job EXCEPT ![r] = k]
    BY <1>7 DEF Open
  <2> HIDE DEF k
  <2> QED BY <2>2, <2>3, <2>4, NoList, JobChange DEF Job, HookJob
<1>8. CASE Gate(r)
  <2>1. PICK q \in MarkersFor(s) :
          /\ Whole(q)
          /\ job' = [job EXCEPT ![r] =
               [at |-> "head", again |-> FALSE, whose |-> q, anchor |-> AnchorOf(marker[q]),
                changed |-> {}, left |-> {}, due |-> ChangedSince(root[s].sha)]]
    BY <1>8 DEF Gate
  <2>2. AnchorOf(marker[q]) \in Anchor
    BY <1>1, <1>5, <2>1 DEF Whole, Rest, Marker, AnchorOf, Anchor
  <2>3. ChangedSince(root[s].sha) \subseteq Path
    BY <1>1, <1>4 DEF Rest, Anchor
  <2> DEFINE k == [at |-> "head", again |-> FALSE, whose |-> q, anchor |-> AnchorOf(marker[q]),
                   changed |-> {}, left |-> {}, due |-> ChangedSince(root[s].sha)]
  <2>4. k \in GateJob
    BY <1>5, <2>2, <2>3 DEF GateJob, GatePhases
  <2>5. Rest'
    <3>1. /\ UNCHANGED <<now, head, marker, receipt, kills, beat, root, astray, committed, tracked, dirty, task>>
          /\ calls' = calls + 1 /\ stirred' = [stirred EXCEPT ![r] = {}]
      BY <1>8 DEF Gate, Begin, treeVars
    <3> QED BY <1>1, <3>1 DEF Rest
  <2> HIDE DEF k
  <2> QED BY <1>2, <2>1, <2>4, <2>5 DEF k
<1>9. CASE \/ DiffHead(r) \/ DiffTree(r) \/ ListChanged(r) \/ RelistChanged(r)
           \/ Attribute(r) \/ FindStale(r)
  <2> DEFINE sha == j.anchor.sha
             left == j.left \cup {t \in Task : /\ task[t].status = "in_progress"
                                  /\ TouchedThisSession(t, j.anchor.started, j.changed)}
             k1 == [j EXCEPT !.left = CommittedSince(sha), !.at = "tree"]
             k2 == [j EXCEPT !.left = @ \cup TrackedSince(sha), !.at = "untracked"]
             k3 == [j EXCEPT !.changed = j.left \cup Untracked, !.left = {}, !.again = TRUE, !.at = "head"]
             k4 == [j EXCEPT !.left = @ \cup Untracked, !.at = "claims"]
             k5 == [j EXCEPT !.left = @ \ Claimed, !.at = "stale"]
             k6 == [j EXCEPT !.left = left, !.at = "receipt"]
  <2>1. j \in GateJob
    BY <1>1, <1>9, JobKinds
       DEF DiffHead, DiffTree, ListChanged, RelistChanged, Attribute, FindStale, GatePhases
  <2>2. CommittedSince(sha) \subseteq Path /\ TrackedSince(sha) \subseteq Path
    BY <1>4, <2>1 DEF GateJob, Anchor
  <2>3. left \subseteq Clearable
    BY <2>1 DEF GateJob
  <2> HIDE DEF left
  <2>4. k1 \in GateJob /\ k2 \in GateJob
    BY <2>1, <2>2 DEF GateJob, GatePhases
  <2>5. k3 \in GateJob
    BY <1>4, <2>1 DEF GateJob, GatePhases
  <2>6. k4 \in GateJob /\ k5 \in GateJob /\ k6 \in GateJob
    BY <1>4, <2>1, <2>3 DEF GateJob, GatePhases
  <2>7. \/ job' = [job EXCEPT ![r] = k1] \/ job' = [job EXCEPT ![r] = k2]
        \/ job' = [job EXCEPT ![r] = k3] \/ job' = [job EXCEPT ![r] = k4]
        \/ job' = [job EXCEPT ![r] = k5] \/ job' = [job EXCEPT ![r] = k6]
    BY <1>9 DEF DiffHead, DiffTree, ListChanged, RelistChanged, Attribute, FindStale, left
  <2>8. Rest'
    BY <1>6, <1>9 DEF DiffHead, DiffTree, ListChanged, RelistChanged, Attribute, FindStale
  <2> HIDE DEF k1, k2, k3, k4, k5, k6
  <2> QED BY <1>2, <2>4, <2>5, <2>6, <2>7, <2>8
<1>10. CASE GatePasses(r) \/ GateBlocks(r)
  <2>1. Rest'
    BY <1>1, <1>10 DEF GatePasses, GateBlocks, Local, treeVars, Rest
  <2> QED BY <1>3, <1>10, <2>1 DEF GatePasses, GateBlocks
<1>11. ASSUME NEW x \in Clearable, NEW clears \in BOOLEAN, Record(r, x, clears) PROVE TypeOK'
  <2>1. PICK q \in MarkersFor(s) :
          /\ Whole(q)
          /\ job' = [job EXCEPT ![r] = [at |-> "save", whose |-> q, cleared |-> Entered(q, x, clears)]]
    BY <1>11 DEF Record
  <2> DEFINE k == [at |-> "save", whose |-> q, cleared |-> Entered(q, x, clears)]
  <2>2. Entered(q, x, clears) \subseteq Clearable
    BY <1>1, <1>5 DEF Entered, Rest
  <2>3. k \in RecordJob
    BY <1>5, <2>2 DEF RecordJob
  <2>4. Rest'
    BY <1>1, <1>11 DEF Record, Begin, wrapupVars, treeVars, Rest
  <2> HIDE DEF k
  <2> QED BY <1>2, <2>1, <2>3, <2>4 DEF k
<1>12. CASE OpenReceipt(r)
  <2> DEFINE k == [j EXCEPT !.at = "saved"]
  <2>1. j \in RecordJob
    BY <1>1, <1>12, JobKinds DEF OpenReceipt
  <2>2. k \in RecordJob
    BY <2>1 DEF RecordJob
  <2>3. Rest'
    BY <1>1, <1>12 DEF OpenReceipt, wrapupVars, treeVars, Rest
  <2>4. job' = [job EXCEPT ![r] = k]
    BY <1>12 DEF OpenReceipt
  <2> HIDE DEF k
  <2> QED BY <1>2, <2>2, <2>3, <2>4
<1>13. CASE WriteReceipt(r)
  <2>1. j \in RecordJob
    BY <1>1, <1>13, JobKinds DEF WriteReceipt
  <2>2. Rest'
    BY <1>1, <1>13, <2>1 DEF WriteReceipt, wrapupVars, treeVars, Rest, RecordJob
  <2> QED BY <1>3, <1>13, <2>2 DEF WriteReceipt
<1> QED
  BY <1>7, <1>8, <1>9, <1>10, <1>11, <1>12, <1>13 DEF WrapupStep

\* Types of the hooks', the commands' and the checkout's state.
THEOREM TypeCorrect == Spec => []TypeOK
<1>1. Init => TypeOK
  <2> SUFFICES ASSUME Init PROVE TypeOK
    OBVIOUS
  <2>1. Rest
    BY DEF Init, SessionsInit, Rest, Anchor, Statuses
  <2>2. \A r \in Runner : job[r] = Idle
    BY DEF Init, SessionsInit
  <2>3. job \in [Runner -> Job]
    BY Idling DEF Init, SessionsInit
  <2> QED BY <2>1, <2>2, <2>3, Idling, TypesSplit
<1>2. TypeOK /\ [Next]_vars => TypeOK'
  <2> SUFFICES ASSUME TypeOK, [Next]_vars PROVE TypeOK'
    OBVIOUS
  <2>1. ASSUME NEW r \in Runner, HookStep(r), UNCHANGED wrapupVars PROVE TypeOK'
    BY <2>1, HooksKeepTypes
  <2>2. ASSUME NEW r \in Runner, WrapupStep(r) PROVE TypeOK'
    BY <2>2, WrapupKeepsTypes
  <2>3. /\ Rest /\ job \in [Runner -> Job] /\ \A r \in Runner : OthersOnly(job[r], Owner[r])
    BY TypesSplit
  <2>4. ASSUME Rest', UNCHANGED job PROVE TypeOK'
    BY <2>3, <2>4 DEF TypeOK, SessionsTypeOK, Rest, OthersOnly, Listing
  <2>5. CASE Tick /\ UNCHANGED wrapupVars
    BY <2>3, <2>4, <2>5 DEF Tick, wrapupVars, treeVars, Rest
  <2>6. ASSUME NEW p \in Path, Edit(p) PROVE TypeOK'
    BY <2>3, <2>4, <2>6 DEF Edit, sessionVars, Rest
  <2>10. ASSUME NEW p \in Path, Add(p) PROVE TypeOK'
    BY <2>3, <2>4, <2>10, WrapupAssumption DEF Add, Untracked, sessionVars, Rest
  <2>7. ASSUME NEW ps \in SUBSET Path, Commit(ps) PROVE TypeOK'
    BY <2>3, <2>4, <2>7 DEF Commit, Rest
  <2>8. ASSUME NEW t \in Task, NEW status \in Statuses, Move(t, status) PROVE TypeOK'
    BY <2>3, <2>4, <2>8, WrapupAssumption DEF Move, sessionVars, treeVars, Rest
  <2>9. CASE UNCHANGED vars
    BY <2>3, <2>4, <2>9 DEF vars, sessionVars, wrapupVars, treeVars, Rest
  <2> QED
    BY <2>1, <2>2, <2>5, <2>6, <2>7, <2>8, <2>9, <2>10 DEF Next
<1> QED
  BY <1>1, <1>2, PTL DEF Spec
-----------------------------------------------------------------------------
(* anchors *)

\* A runner that has read a marker, or chosen an anchor, and not written it.
InRewrite(r) == job[r].at \in {"open", "write"}

Behind(a, b) == a.sha <= b.sha /\ a.started <= b.started

IsAnchor(a) == a.sha \in Nat /\ a.started \in Nat

\* The part of the types the argument needs.
AnchorTypes ==
  /\ now \in Nat /\ head \in Nat
  /\ job = [r \in Runner |-> job[r]]
  /\ marker = [s \in Session |-> marker[s]]
  /\ root = [s \in Session |-> root[s]]
  /\ \A s \in Session : Whole(s) => IsAnchor(marker[s])
  /\ \A r \in Runner :
       InRewrite(r) => IsAnchor(job[r].new) /\ job[r].then \in {"idle", "look", "sweep"}

\* What a rewrite will put is no further on than the anchor asked for, unless
\* it is the rewrite that asks.
RewritesAreBehind ==
  \A r \in Runner :
    InRewrite(r) /\ Owner[r] \notin astray /\ ~Asks(job[r]) => Behind(job[r].new, root[Owner[r]])

\* Rewrites of one marker that overlap put the same anchor.
RewritesAgree ==
  \A r, q \in Runner :
    InRewrite(r) /\ InRewrite(q) /\ Owner[r] = Owner[q] /\ Owner[r] \notin astray
      => AnchorOf(job[r].new) = AnchorOf(job[q].new)

MarkersAreBehind ==
  \A s \in Session \ astray : Whole(s) => Behind(marker[s], root[s])

AnchorInv == AnchorTypes /\ RewritesAreBehind /\ RewritesAgree /\ MarkersAreBehind

\* A step that writes no marker, asks for nothing and begins no rewrite.
LEMMA Frame ==
  ASSUME AnchorInv, now' \in Nat, head' \in Nat,
         job' = [r \in Runner |-> job'[r]],
         \A r \in Runner : InRewrite(r)' => /\ InRewrite(r) /\ job'[r].new = job[r].new
                                             /\ job'[r].by = job[r].by /\ job'[r].then = job[r].then,
         marker' = [s \in Session |-> marker'[s]],
         \A s \in Session : Whole(s)' => Whole(s) /\ marker'[s] = marker[s],
         root' = root, astray' = astray
  PROVE  AnchorInv'
<1> USE DEF AnchorInv
<1>1. AnchorTypes'
  BY DEF AnchorTypes
<1>2. RewritesAreBehind'
  BY DEF RewritesAreBehind, Asks
<1>3. RewritesAgree'
  BY DEF RewritesAgree
<1>4. MarkersAreBehind'
  BY DEF MarkersAreBehind
<1> QED BY <1>1, <1>2, <1>3, <1>4

\* A step that begins a rewrite by runner r with the contents c: it asks for a
\* new anchor, or puts one that is behind the old, or the session goes astray.
LEMMA Beginning ==
  ASSUME AnchorInv, NEW r \in Runner, NEW c, NEW by, NEW then \in {"idle", "look", "sweep"},
         c.sha \in Nat, c.started \in Nat, ~InRewrite(r),
         job' = [job EXCEPT ![r] = Rewriting(c, by, then)],
         UNCHANGED <<now, head, marker, root>>,
         astray \subseteq astray',
         Owner[r] \notin astray' => by \in {"start", "open"} \/ Behind(c, root[Owner[r]]),
         Owner[r] \notin astray' => ~Races(Owner[r], r, AnchorOf(c))
  PROVE  AnchorInv'
<1> USE DEF AnchorInv
<1>1. /\ job'[r].new = c /\ job'[r].by = by /\ job'[r].then = then
      /\ \A q \in Runner \ {r} : job'[q] = job[q]
  BY DEF Rewriting, AnchorTypes
<1>2. AnchorTypes'
  BY <1>1 DEF AnchorTypes, IsAnchor, InRewrite, Whole
<1>3. RewritesAreBehind'
  BY <1>1 DEF RewritesAreBehind, Asks, InRewrite
<1>4. RewritesAgree'
  <2>1. ASSUME NEW q \in Runner \ {r}, InRewrite(q), Owner[q] = Owner[r], Owner[r] \notin astray'
        PROVE  AnchorOf(job[q].new) = AnchorOf(c)
    BY <2>1 DEF Races, Rewrites, InRewrite
  <2> QED BY <1>1, <2>1 DEF RewritesAgree, InRewrite
<1>5. MarkersAreBehind'
  BY DEF MarkersAreBehind, Whole
<1> QED BY <1>2, <1>3, <1>4, <1>5

\* The step that fills a marker: the anchor asked for becomes the one to keep.
LEMMA Filling ==
  ASSUME AnchorInv, NEW r \in Runner, WriteMarker(r)
  PROVE  AnchorInv'
<1> USE SessionsAssumption DEF AnchorInv
<1> DEFINE s == Owner[r]
           c == job[r].new
<1>1. s \in Session /\ InRewrite(r) /\ IsAnchor(c)
  BY DEF WriteMarker, InRewrite, AnchorTypes
<1>2. /\ marker' = [marker EXCEPT ![s] = [text |-> "whole", sha |-> c.sha, started |-> c.started,
                                          updated |-> c.updated]]
      /\ job' = [job EXCEPT ![r] = After(s, job[r].then)]
      /\ root' = IF Asks(job[r]) THEN [root EXCEPT ![s] = AnchorOf(c)] ELSE root
      /\ UNCHANGED <<now, head, astray>>
  BY DEF WriteMarker
<1>3. After(s, job[r].then).at \notin {"open", "write"}
  <2>1. job[r].then \in {"idle", "look", "sweep"}
    BY <1>1 DEF AnchorTypes
  <2> QED BY <2>1 DEF After, Sweeping, Idle
<1>4. \A q \in Runner : InRewrite(q)' => q # r /\ InRewrite(q) /\ job'[q] = job[q]
  BY <1>2, <1>3 DEF InRewrite, AnchorTypes
<1>5. \A x \in Session : x # s => marker'[x] = marker[x] /\ root'[x] = root[x]
  BY <1>2 DEF AnchorTypes
<1>6. marker'[s].sha = c.sha /\ marker'[s].started = c.started
  BY <1>1, <1>2 DEF AnchorTypes
<1>7. Asks(job[r]) => root'[s] = AnchorOf(c)
  BY <1>1, <1>2 DEF AnchorTypes
<1> HIDE DEF s, c
<1>8. AnchorTypes'
  BY <1>1, <1>2, <1>4, <1>5, <1>6 DEF AnchorTypes, IsAnchor, Whole
<1>9. MarkersAreBehind'
  <2>1. s \notin astray => Behind(c, root'[s])
    BY <1>1, <1>2, <1>7 DEF RewritesAreBehind, Behind, AnchorOf, IsAnchor, s, c
  <2> QED BY <1>2, <1>5, <1>6, <2>1 DEF MarkersAreBehind, Behind, Whole
<1>10. RewritesAreBehind'
  <2>1. ASSUME NEW q \in Runner, InRewrite(q)', Owner[q] = s, s \notin astray, Asks(job[r])
        PROVE  Behind(job[q].new, root'[s])
    <3>1. AnchorOf(job[q].new) = AnchorOf(c)
      BY <1>1, <1>4, <2>1 DEF RewritesAgree, s, c
    <3> QED BY <1>1, <1>7, <2>1, <3>1 DEF Behind, AnchorOf, IsAnchor
  <2> QED BY <1>2, <1>4, <1>5, <2>1 DEF RewritesAreBehind, Asks
<1>11. RewritesAgree'
  BY <1>2, <1>4 DEF RewritesAgree
<1> QED BY <1>8, <1>9, <1>10, <1>11

\* The steps of hooks.
LEMMA HookSteps ==
  ASSUME AnchorInv, NEW r \in Runner, HookStep(r)
  PROVE  AnchorInv'
<1> USE SessionsAssumption
<1>1. /\ Owner[r] \in Session
      /\ AnchorTypes
  BY DEF AnchorInv
<1>2. ASSUME NEW keeps \in BOOLEAN, Start(r, keeps) PROVE AnchorInv'
  <2> DEFINE s == Owner[r]
             c == Started(s, keeps)
             by == IF keeps THEN "resume" ELSE "start"
  <2>1. /\ job[r] = Idle
        /\ job' = [job EXCEPT ![r] = Rewriting(c, by, "sweep")]
        /\ astray' = IF (keeps /\ ~Whole(s)) \/ Races(s, r, AnchorOf(c)) THEN astray \cup {s} ELSE astray
        /\ UNCHANGED <<now, head, marker, root>>
    BY <1>2 DEF Start, Begin
  <2>2. c.sha \in Nat /\ c.started \in Nat
    BY <1>1 DEF Started, AnchorTypes, IsAnchor
  <2>3. ~InRewrite(r)
    BY <2>1 DEF InRewrite, Idle
  <2>4. astray \subseteq astray' /\ (s \notin astray' => ~Races(s, r, AnchorOf(c)))
    BY <2>1
  <2>5. s \notin astray' => by \in {"start", "open"} \/ Behind(c, root[s])
    <3>1. CASE ~keeps
      BY <3>1
    <3>2. CASE keeps /\ s \notin astray'
      <4>1. Whole(s) /\ s \notin astray
        BY <2>1, <3>2
      <4> QED BY <1>1, <3>2, <4>1 DEF Started, AnchorInv, MarkersAreBehind, Behind
    <3> QED BY <3>1, <3>2
  <2> HIDE DEF c, by
  <2> QED BY <2>1, <2>2, <2>3, <2>4, <2>5, Beginning DEF s
<1>3. ASSUME NEW global \in BOOLEAN, Guard(r, global), Due(Owner[r]) PROVE AnchorInv'
  <2> DEFINE s == Owner[r]
             then == IF global THEN "look" ELSE "idle"
             c == [sha |-> marker[s].sha, started |-> marker[s].started, updated |-> now]
  <2>1. /\ job[r] = Idle
        /\ job' = [job EXCEPT ![r] = Rewriting(c, "guard", then)]
        /\ astray' = IF Races(s, r, AnchorOf(marker[s])) THEN astray \cup {s} ELSE astray
        /\ UNCHANGED <<now, head, marker, root>>
    BY <1>3 DEF Guard, Begin
  <2>2. c.sha \in Nat /\ c.started \in Nat /\ AnchorOf(c) = AnchorOf(marker[s])
    BY <1>1, <1>3 DEF Due, AnchorTypes, IsAnchor, AnchorOf
  <2>3. ~InRewrite(r)
    BY <2>1 DEF InRewrite, Idle
  <2>4. astray \subseteq astray' /\ (s \notin astray' => ~Races(s, r, AnchorOf(c)))
    BY <2>1, <2>2
  <2>5. s \notin astray' => Behind(c, root[s])
    BY <1>1, <1>3, <2>4 DEF Due, AnchorInv, MarkersAreBehind, Behind
  <2>6. then \in {"idle", "look", "sweep"}
    OBVIOUS
  <2> HIDE DEF c, then
  <2> QED BY <2>1, <2>2, <2>3, <2>4, <2>5, <2>6, Beginning DEF s
<1>4. ASSUME NEW then \in {"idle", "look", "sweep"}
      PROVE  After(Owner[r], then).at \notin {"open", "write"}
  BY DEF After, Sweeping, Idle
<1>5. ASSUME NEW j, j.at \notin {"open", "write"}, job' = [job EXCEPT ![r] = j],
             UNCHANGED <<now, head, root, astray>>, marker' = [s \in Session |-> marker'[s]],
             \A s \in Session : Whole(s)' => Whole(s) /\ marker'[s] = marker[s]
      PROVE  AnchorInv'
  BY <1>1, <1>5, Frame DEF AnchorTypes, InRewrite
<1>6. ASSUME NEW global \in BOOLEAN, Guard(r, global), ~Due(Owner[r]) PROVE AnchorInv'
  BY <1>1, <1>4, <1>5, <1>6 DEF Guard, AnchorTypes, Whole
<1>7. CASE Notice(r) \/ SweepMarkers(r)
  BY <1>1, <1>4, <1>5, <1>7 DEF Notice, SweepMarkers, AnchorTypes, Whole
<1>8. CASE OpenMarker(r)
  <2>1. \A s \in Session : Whole(s)' => Whole(s) /\ marker'[s] = marker[s]
    BY <1>1, <1>8 DEF OpenMarker, Whole, AnchorTypes
  <2>2. \A q \in Runner : InRewrite(q)' => /\ InRewrite(q) /\ job'[q].new = job[q].new
                                          /\ job'[q].by = job[q].by /\ job'[q].then = job[q].then
    BY <1>1, <1>8 DEF OpenMarker, InRewrite, AnchorTypes
  <2> QED BY <1>1, <1>8, <2>1, <2>2, Frame DEF OpenMarker, AnchorTypes
<1>9. CASE WriteMarker(r)
  BY <1>9, Filling
<1>10. ASSUME NEW q \in Session, Judge(r, q) \/ Look(r, q) PROVE AnchorInv'
  <2>1. CASE Judge(r, q)
    BY <1>1, <1>5, <2>1 DEF Judge, Sweeping, Idle, AnchorTypes, Whole
  <2>2. CASE Look(r, q)
    BY <1>1, <2>2, Frame DEF Look, AnchorTypes, Whole, InRewrite
  <2> QED BY <1>10, <2>1, <2>2
<1>11. CASE UnlinkMarker(r)
  <2>1. \A s \in Session : Whole(s)' => Whole(s) /\ marker'[s] = marker[s]
    BY <1>1, <1>11 DEF UnlinkMarker, Whole, AnchorTypes
  <2>2. \A q \in Runner : InRewrite(q)' => InRewrite(q) /\ job'[q] = job[q]
    BY <1>1, <1>11 DEF UnlinkMarker, InRewrite, AnchorTypes
  <2> QED BY <1>1, <1>11, <2>1, <2>2, Frame DEF UnlinkMarker, AnchorTypes
<1>12. CASE UnlinkReceipt(r)
  BY <1>1, <1>5, <1>12 DEF UnlinkReceipt, Sweeping, Idle, AnchorTypes, Whole
<1>13. CASE Decide(r) \/ Kill(r)
  BY <1>1, <1>5, <1>13 DEF Decide, Kill, Idle, AnchorTypes, Whole
<1> QED
  BY <1>2, <1>3, <1>6, <1>7, <1>8, <1>9, <1>10, <1>11, <1>12, <1>13 DEF HookStep

\* The steps of wrap-up: only `open` begins a rewrite.
LEMMA WrapupSteps ==
  ASSUME AnchorInv, TypeOK, NEW r \in Runner, WrapupStep(r)
  PROVE  AnchorInv'
<1> USE SessionsAssumption
<1>1. Owner[r] \in Session /\ AnchorTypes
  BY DEF AnchorInv
<1>2. ASSUME NEW sha \in 0 .. head, Open(r, sha) PROVE AnchorInv'
  <2> DEFINE s == Owner[r]
             c == [sha |-> sha, started |-> now, updated |-> now]
  <2>1. /\ job[r] = Idle
        /\ job' = [job EXCEPT ![r] = Rewriting(c, "open", "idle")]
        /\ astray' = IF Races(s, r, AnchorOf(c)) THEN astray \cup {s} ELSE astray
        /\ UNCHANGED <<now, head, marker, root>>
    BY <1>2 DEF Open, Begin, AnchorOf
  <2>2. c.sha \in Nat /\ c.started \in Nat
    BY <1>1, <1>2 DEF AnchorTypes
  <2>3. ~InRewrite(r)
    BY <2>1 DEF InRewrite, Idle
  <2>4. astray \subseteq astray' /\ (s \notin astray' => ~Races(s, r, AnchorOf(c)))
    BY <2>1
  <2> HIDE DEF c
  <2> QED BY <2>1, <2>2, <2>3, <2>4, Beginning DEF s
<1>3. ASSUME NEW k, k.at \notin {"open", "write"}, job' = [job EXCEPT ![r] = k],
             UNCHANGED <<now, head, marker, root, astray>>
      PROVE  AnchorInv'
  BY <1>1, <1>3, Frame DEF AnchorTypes, InRewrite, Whole
<1>4. ASSUME Gate(r) PROVE AnchorInv'
  <2>1. PICK q \in MarkersFor(Owner[r]) :
          /\ Whole(q)
          /\ job' = [job EXCEPT ![r] =
               [at |-> "head", again |-> FALSE, whose |-> q, anchor |-> AnchorOf(marker[q]),
                changed |-> {}, left |-> {}, due |-> ChangedSince(root[Owner[r]].sha)]]
    BY <1>4 DEF Gate
  <2> QED BY <1>3, <1>4, <2>1 DEF Gate
<1>5. ASSUME NEW x \in Clearable, NEW clears \in BOOLEAN, Record(r, x, clears) PROVE AnchorInv'
  <2>1. PICK q \in MarkersFor(Owner[r]) :
          /\ Whole(q)
          /\ job' = [job EXCEPT ![r] = [at |-> "save", whose |-> q, cleared |-> Entered(q, x, clears)]]
    BY <1>5 DEF Record
  <2> QED BY <1>3, <1>5, <2>1 DEF Record
<1>6. CASE \/ DiffHead(r) \/ DiffTree(r) \/ ListChanged(r) \/ RelistChanged(r)
           \/ Attribute(r) \/ FindStale(r)
  <2>1. job[r] \in GateJob
    BY <1>6, JobKinds, TypesSplit
       DEF DiffHead, DiffTree, ListChanged, RelistChanged, Attribute, FindStale, GatePhases
  <2>2. UNCHANGED <<now, head, marker, root, astray>>
    BY <1>6 DEF DiffHead, DiffTree, ListChanged, RelistChanged, Attribute, FindStale, Local
  <2>3. CASE DiffHead(r)
    BY <1>3, <2>1, <2>2, <2>3 DEF DiffHead, GateJob
  <2>4. CASE DiffTree(r)
    BY <1>3, <2>1, <2>2, <2>4 DEF DiffTree, GateJob
  <2>5. CASE ListChanged(r)
    BY <1>3, <2>1, <2>2, <2>5 DEF ListChanged, GateJob
  <2>6. CASE RelistChanged(r)
    BY <1>3, <2>1, <2>2, <2>6 DEF RelistChanged, GateJob
  <2>7. CASE Attribute(r)
    BY <1>3, <2>1, <2>2, <2>7 DEF Attribute, GateJob
  <2>8. CASE FindStale(r)
    BY <1>3, <2>1, <2>2, <2>8 DEF FindStale, GateJob
  <2> QED BY <1>6, <2>3, <2>4, <2>5, <2>6, <2>7, <2>8
<1>7. CASE GatePasses(r) \/ GateBlocks(r)
  BY <1>3, <1>7 DEF GatePasses, GateBlocks, Local, Idle
<1>8. CASE OpenReceipt(r)
  <2>1. job[r] \in RecordJob
    BY <1>8, JobKinds, TypesSplit DEF OpenReceipt
  <2> QED BY <1>3, <1>8, <2>1 DEF OpenReceipt, RecordJob
<1>9. CASE WriteReceipt(r)
  BY <1>3, <1>9 DEF WriteReceipt, Idle
<1> QED
  BY <1>2, <1>4, <1>5, <1>6, <1>7, <1>8, <1>9 DEF WrapupStep

\* No step of anyone disturbs what the argument needs.
LEMMA AnchorInvariant == Spec => []AnchorInv
<1>1. Init => AnchorInv
  BY DEF Init, SessionsInit, AnchorInv, AnchorTypes, RewritesAreBehind, RewritesAgree, MarkersAreBehind,
         InRewrite, Whole, Idle
<1>2. TypeOK /\ AnchorInv /\ [Next]_vars => AnchorInv'
  <2> SUFFICES ASSUME TypeOK, AnchorInv, [Next]_vars PROVE AnchorInv'
    OBVIOUS
  <2>1. ASSUME NEW r \in Runner, HookStep(r) PROVE AnchorInv'
    BY <2>1, HookSteps
  <2>2. ASSUME NEW r \in Runner, WrapupStep(r) PROVE AnchorInv'
    BY <2>2, WrapupSteps
  <2>3. ASSUME now' \in Nat, head' \in Nat, UNCHANGED <<job, marker, root, astray>> PROVE AnchorInv'
    BY <2>3, Frame DEF AnchorInv, AnchorTypes, InRewrite, Whole
  <2>4. now \in Nat /\ head \in Nat
    BY DEF AnchorInv, AnchorTypes
  <2>5. CASE Tick
    BY <2>3, <2>4, <2>5 DEF Tick
  <2>6. ASSUME NEW p \in Path, Edit(p) PROVE AnchorInv'
    BY <2>3, <2>4, <2>6 DEF Edit, sessionVars
  <2>10. ASSUME NEW p \in Path, Add(p) PROVE AnchorInv'
    BY <2>3, <2>4, <2>10 DEF Add, sessionVars
  <2>7. ASSUME NEW ps \in SUBSET Path, Commit(ps) PROVE AnchorInv'
    BY <2>3, <2>4, <2>7 DEF Commit
  <2>8. ASSUME NEW t \in Task, NEW status \in Statuses, Move(t, status) PROVE AnchorInv'
    BY <2>3, <2>4, <2>8 DEF Move, sessionVars
  <2>9. CASE UNCHANGED vars
    BY <2>3, <2>4, <2>9 DEF vars, sessionVars
  <2> QED
    BY <2>1, <2>2, <2>5, <2>6, <2>7, <2>8, <2>9, <2>10 DEF Next
<1> QED
  BY <1>1, <1>2, TypeCorrect, PTL DEF Spec

\* Whatever hooks, wrap-up commands, edits and kills interleave, the anchor in
\* a marker that can be read is no further on than the one the session last
\* asked for, unless two rewrites with different anchors have overlapped or a
\* resume could not read the marker.
THEOREM AnchorsHold == Spec => []AnchorHolds
<1>1. AnchorInv => AnchorHolds
  BY DEF AnchorInv, MarkersAreBehind, Behind, AnchorHolds
<1> QED
  BY <1>1, AnchorInvariant, PTL
-----------------------------------------------------------------------------
(* peers *)

\* A marker is as young as its session's last command, but for the heartbeats
\* skipped, and what is about to be written in one is of now: time stands
\* still during a hook.
BeatInv ==
  /\ \A s \in Session : beat[s] <= now
  /\ \A s \in Session : Whole(s) => beat[s] <= marker[s].updated + Heartbeat
  /\ \A r \in Runner : InRewrite(r) => job[r].new.updated = now

\* A step that reads neither clock nor markers into a rewrite, and writes none.
LEMMA BeatFrame ==
  ASSUME BeatInv, UNCHANGED <<now, beat>>,
         \A r \in Runner : InRewrite(r)' => InRewrite(r) /\ job'[r].new = job[r].new,
         \A s \in Session : Whole(s)' => Whole(s) /\ marker'[s].updated = marker[s].updated
  PROVE  BeatInv'
BY DEF BeatInv

\* A step that moves one runner to a job that is no rewrite.
LEMMA BeatKept ==
  ASSUME TypeOK, BeatInv, NEW r \in Runner, NEW k, k.at \notin {"open", "write"},
         job' = [job EXCEPT ![r] = k], UNCHANGED <<now, beat, marker>>
  PROVE  BeatInv'
<1>1. \A q \in Runner : InRewrite(q)' => InRewrite(q) /\ job'[q] = job[q]
  BY TypesSplit DEF InRewrite
<1> QED BY <1>1, BeatFrame DEF Whole

\* A step that begins a rewrite puts the time it begins at.
LEMMA BeatBegins ==
  ASSUME TypeOK, BeatInv, NEW r \in Runner, NEW c, NEW by, NEW then, c.updated = now,
         job' = [job EXCEPT ![r] = Rewriting(c, by, then)], UNCHANGED <<now, beat, marker>>
  PROVE  BeatInv'
<1>1. \A q \in Runner : IF q = r THEN job'[q].new = c ELSE job'[q] = job[q]
  BY TypesSplit DEF Rewriting
<1> QED BY <1>1 DEF BeatInv, InRewrite, Whole

\* Every step of a hook keeps markers as young as their sessions.
LEMMA HooksKeepBeats ==
  ASSUME TypeOK, BeatInv, NEW r \in Runner, HookStep(r)
  PROVE  BeatInv'
<1> USE SessionsAssumption
<1> DEFINE s == Owner[r]
           j == job[r]
<1>1. s \in Session /\ j \in Job /\ Rest
  BY TypesSplit
<1>2. ASSUME NEW then \in {"idle", "look", "sweep"}
      PROVE  After(s, then).at \notin {"open", "write"}
  BY DEF After, Sweeping, Idle
<1>3. ASSUME NEW keeps \in BOOLEAN, Start(r, keeps) PROVE BeatInv'
  <2>1. Started(s, keeps).updated = now
    BY DEF Started
  <2> QED BY <1>3, <2>1, BeatBegins DEF Start, Begin
<1>4. ASSUME NEW global \in BOOLEAN, Guard(r, global) PROVE BeatInv'
  <2> DEFINE then == IF global THEN "look" ELSE "idle"
  <2>1. then \in {"idle", "look", "sweep"}
    OBVIOUS
  <2>2. CASE Due(s)
    BY <1>4, <2>2, BeatBegins DEF Guard, Begin
  <2>3. CASE ~Due(s)
    <3>1. /\ job' = [job EXCEPT ![r] = After(s, then)]
          /\ beat' = IF Whole(s) THEN [beat EXCEPT ![s] = now] ELSE beat
          /\ UNCHANGED <<now, marker>>
      BY <1>4, <2>3 DEF Guard
    <3>2. \A q \in Runner : InRewrite(q)' => InRewrite(q) /\ job'[q] = job[q]
      BY <1>2, <2>1, <3>1, TypesSplit DEF InRewrite
    <3>3. Whole(s) => now <= marker[s].updated + Heartbeat
      BY <1>1, <2>3 DEF Due, Age, Whole, Rest, Marker
    <3>4. \A x \in Session : beat'[x] = beat[x] \/ (x = s /\ Whole(s) /\ beat'[x] = now)
      BY <1>1, <3>1 DEF Rest
    <3>5. now \in Nat
      BY <1>1 DEF Rest
    <3> QED BY <3>1, <3>2, <3>3, <3>4, <3>5 DEF BeatInv, Whole
  <2> QED BY <2>2, <2>3
<1>5. CASE Notice(r) \/ SweepMarkers(r)
  BY <1>2, <1>5, BeatKept DEF Notice, SweepMarkers
<1>6. CASE OpenMarker(r)
  <2>1. j \in MarkerJob
    BY <1>1, <1>6, JobKinds DEF OpenMarker
  <2>2. \A q \in Runner : InRewrite(q)' => InRewrite(q) /\ job'[q].new = job[q].new
    BY <1>1, <1>6, <2>1, TypesSplit DEF OpenMarker, InRewrite, MarkerJob
  <2>3. \A x \in Session : Whole(x)' => Whole(x) /\ marker'[x] = marker[x]
    BY <1>1, <1>6 DEF OpenMarker, Whole, Rest
  <2> QED BY <1>6, <2>2, <2>3, BeatFrame DEF OpenMarker
<1>7. CASE WriteMarker(r)
  <2>1. j \in MarkerJob
    BY <1>1, <1>7, JobKinds DEF WriteMarker
  <2>2. j.new.updated = now /\ j.then \in {"idle", "look", "sweep"}
    BY <1>7, <2>1 DEF WriteMarker, BeatInv, InRewrite, MarkerJob
  <2>3. \A q \in Runner : InRewrite(q)' => InRewrite(q) /\ job'[q] = job[q]
    BY <1>2, <1>7, <2>2, TypesSplit DEF WriteMarker, InRewrite
  <2>4. \A x \in Session :
          IF x = s THEN marker'[x].updated = now /\ beat'[x] = now
          ELSE marker'[x] = marker[x] /\ beat'[x] = beat[x]
    BY <1>1, <1>7, <2>2 DEF WriteMarker, Rest
  <2>5. now' = now /\ now \in Nat
    BY <1>1, <1>7 DEF WriteMarker, Rest
  <2> QED BY <2>3, <2>4, <2>5 DEF BeatInv, Whole
<1>8. ASSUME NEW q \in Session, Judge(r, q) \/ Look(r, q) PROVE BeatInv'
  <2>1. CASE Judge(r, q)
    BY <2>1, BeatKept DEF Judge, Sweeping, Idle
  <2>2. CASE Look(r, q)
    <3>1. j \in LookJob
      BY <1>1, <2>2, JobKinds DEF Look
    <3> DEFINE k == [j EXCEPT !.todo = @ \ {q}, !.peers = IF Warm(q) THEN @ \cup {q} ELSE @]
    <3>2. k.at = "look"
      BY <3>1 DEF LookJob
    <3>3. job' = [job EXCEPT ![r] = k] /\ UNCHANGED <<now, beat, marker>>
      BY <2>2 DEF Look
    <3> HIDE DEF k
    <3> QED BY <3>2, <3>3, BeatKept
  <2> QED BY <1>8, <2>1, <2>2
<1>9. CASE UnlinkMarker(r)
  <2>1. j \in UnlinkJob
    BY <1>1, <1>9, JobKinds DEF UnlinkMarker
  <2>2. \A q \in Runner : InRewrite(q)' => InRewrite(q) /\ job'[q] = job[q]
    BY <1>1, <1>9, <2>1, TypesSplit DEF UnlinkMarker, InRewrite, UnlinkJob
  <2>3. \A x \in Session : Whole(x)' => Whole(x) /\ marker'[x] = marker[x]
    BY <1>1, <1>9 DEF UnlinkMarker, Whole, Rest
  <2> QED BY <1>9, <2>2, <2>3, BeatFrame DEF UnlinkMarker
<1>10. CASE UnlinkReceipt(r)
  BY <1>10, BeatKept DEF UnlinkReceipt, Sweeping, Idle
<1>11. CASE Decide(r) \/ Kill(r)
  BY <1>11, BeatKept DEF Decide, Kill, Idle
<1> QED
  BY <1>3, <1>4, <1>5, <1>6, <1>7, <1>8, <1>9, <1>10, <1>11 DEF HookStep

\* Every step of wrap-up does.
LEMMA WrapupKeepsBeats ==
  ASSUME TypeOK, BeatInv, NEW r \in Runner, WrapupStep(r)
  PROVE  BeatInv'
<1> USE SessionsAssumption
<1>1. ASSUME NEW sha \in 0 .. head, Open(r, sha) PROVE BeatInv'
  <2> DEFINE c == [sha |-> sha, started |-> now, updated |-> now]
  <2>1. /\ job' = [job EXCEPT ![r] = Rewriting(c, "open", "idle")]
        /\ UNCHANGED <<now, beat, marker>>
    BY <1>1 DEF Open
  <2>2. c.updated = now
    OBVIOUS
  <2> HIDE DEF c
  <2> QED BY <2>1, <2>2, BeatBegins
<1>2. ASSUME Gate(r) PROVE BeatInv'
  <2>1. PICK q \in MarkersFor(Owner[r]) :
          /\ Whole(q)
          /\ job' = [job EXCEPT ![r] =
               [at |-> "head", again |-> FALSE, whose |-> q, anchor |-> AnchorOf(marker[q]),
                changed |-> {}, left |-> {}, due |-> ChangedSince(root[Owner[r]].sha)]]
    BY <1>2 DEF Gate
  <2> QED BY <1>2, <2>1, BeatKept DEF Gate
<1>3. ASSUME NEW x \in Clearable, NEW clears \in BOOLEAN, Record(r, x, clears) PROVE BeatInv'
  <2>1. PICK q \in MarkersFor(Owner[r]) :
          /\ Whole(q)
          /\ job' = [job EXCEPT ![r] = [at |-> "save", whose |-> q, cleared |-> Entered(q, x, clears)]]
    BY <1>3 DEF Record
  <2> QED BY <1>3, <2>1, BeatKept DEF Record
<1>4. CASE \/ DiffHead(r) \/ DiffTree(r) \/ ListChanged(r) \/ RelistChanged(r)
           \/ Attribute(r) \/ FindStale(r)
  <2>1. job[r] \in GateJob
    BY <1>4, JobKinds, TypesSplit
       DEF DiffHead, DiffTree, ListChanged, RelistChanged, Attribute, FindStale, GatePhases
  <2>2. UNCHANGED <<now, beat, marker>>
    BY <1>4 DEF DiffHead, DiffTree, ListChanged, RelistChanged, Attribute, FindStale, Local
  <2>3. CASE DiffHead(r)
    <3> DEFINE k == [job[r] EXCEPT !.left = CommittedSince(job[r].anchor.sha), !.at = "tree"]
    <3>1. k.at \notin {"open", "write"}
      BY <2>1 DEF GateJob
    <3>2. job' = [job EXCEPT ![r] = k]
      BY <2>3 DEF DiffHead
    <3> HIDE DEF k
    <3> QED BY <2>2, <3>1, <3>2, BeatKept
  <2>4. CASE DiffTree(r)
    <3> DEFINE k == [job[r] EXCEPT !.left = @ \cup TrackedSince(job[r].anchor.sha), !.at = "untracked"]
    <3>1. k.at \notin {"open", "write"}
      BY <2>1 DEF GateJob
    <3>2. job' = [job EXCEPT ![r] = k]
      BY <2>4 DEF DiffTree
    <3> HIDE DEF k
    <3> QED BY <2>2, <3>1, <3>2, BeatKept
  <2>5. CASE ListChanged(r)
    <3> DEFINE k == [job[r] EXCEPT !.changed = job[r].left \cup Untracked, !.left = {}, !.again = TRUE, !.at = "head"]
    <3>1. k.at \notin {"open", "write"}
      BY <2>1 DEF GateJob
    <3>2. job' = [job EXCEPT ![r] = k]
      BY <2>5 DEF ListChanged
    <3> HIDE DEF k
    <3> QED BY <2>2, <3>1, <3>2, BeatKept
  <2>6. CASE RelistChanged(r)
    <3> DEFINE k == [job[r] EXCEPT !.left = @ \cup Untracked, !.at = "claims"]
    <3>1. k.at \notin {"open", "write"}
      BY <2>1 DEF GateJob
    <3>2. job' = [job EXCEPT ![r] = k]
      BY <2>6 DEF RelistChanged
    <3> HIDE DEF k
    <3> QED BY <2>2, <3>1, <3>2, BeatKept
  <2>7. CASE Attribute(r)
    <3> DEFINE k == [job[r] EXCEPT !.left = @ \ Claimed, !.at = "stale"]
    <3>1. k.at \notin {"open", "write"}
      BY <2>1 DEF GateJob
    <3>2. job' = [job EXCEPT ![r] = k]
      BY <2>7 DEF Attribute
    <3> HIDE DEF k
    <3> QED BY <2>2, <3>1, <3>2, BeatKept
  <2>8. CASE FindStale(r)
    BY <2>1, <2>2, <2>8, BeatKept DEF FindStale, GateJob
  <2> QED BY <1>4, <2>3, <2>4, <2>5, <2>6, <2>7, <2>8
<1>5. CASE GatePasses(r) \/ GateBlocks(r)
  BY <1>5, BeatKept DEF GatePasses, GateBlocks, Local, Idle
<1>6. CASE OpenReceipt(r)
  <2>1. job[r] \in RecordJob
    BY <1>6, JobKinds, TypesSplit DEF OpenReceipt
  <2> QED BY <1>6, <2>1, BeatKept DEF OpenReceipt, RecordJob
<1>7. CASE WriteReceipt(r)
  BY <1>7, BeatKept DEF WriteReceipt, Idle
<1> QED
  BY <1>1, <1>2, <1>3, <1>4, <1>5, <1>6, <1>7 DEF WrapupStep

\* Whatever interleaves, a guard or a notice that reads a marker lists its
\* session as live if that has run a command within the window, less the time
\* a heartbeat may be skipped.
THEOREM PeersSeen == Spec => PeersAreSeen
<1> USE SessionsAssumption
<1> DEFINE Seen == \A r \in Runner, q \in Session :
             (/\ job[r].at = "look" /\ q \in job[r].todo
              /\ job'[r].at = "look" /\ q \notin job'[r].todo
              /\ Whole(q)
              /\ now <= beat[q] + PeerLive - Heartbeat)
             => q \in job'[r].peers
<1>1. Init => BeatInv
  BY DEF Init, SessionsInit, BeatInv, InRewrite, Whole, Idle
<1>2. TypeOK /\ BeatInv /\ [Next]_vars => BeatInv'
  <2> SUFFICES ASSUME TypeOK, BeatInv, [Next]_vars PROVE BeatInv'
    OBVIOUS
  <2>1. ASSUME NEW r \in Runner, HookStep(r) PROVE BeatInv'
    BY <2>1, HooksKeepBeats
  <2>2. ASSUME NEW r \in Runner, WrapupStep(r) PROVE BeatInv'
    BY <2>2, WrapupKeepsBeats
  <2>3. ASSUME UNCHANGED <<now, beat, marker, job>> PROVE BeatInv'
    BY <2>3, BeatFrame DEF InRewrite, Whole
  <2>4. CASE Tick
    <3>1. \A r \in Runner : ~InRewrite(r)'
      BY <2>4 DEF Tick, InRewrite, Idle
    <3> QED BY <2>4, <3>1, TypesSplit DEF Tick, BeatInv, Whole, Rest
  <2>5. ASSUME NEW p \in Path, Edit(p) PROVE BeatInv'
    BY <2>3, <2>5 DEF Edit, sessionVars
  <2>9. ASSUME NEW p \in Path, Add(p) PROVE BeatInv'
    BY <2>3, <2>9 DEF Add, sessionVars
  <2>6. ASSUME NEW ps \in SUBSET Path, Commit(ps) PROVE BeatInv'
    BY <2>3, <2>6 DEF Commit
  <2>7. ASSUME NEW t \in Task, NEW status \in Statuses, Move(t, status) PROVE BeatInv'
    BY <2>3, <2>7 DEF Move, sessionVars
  <2>8. CASE UNCHANGED vars
    BY <2>3, <2>8 DEF vars, sessionVars
  <2> QED
    BY <2>1, <2>2, <2>4, <2>5, <2>6, <2>7, <2>8, <2>9 DEF Next
<1>3. TypeOK /\ BeatInv /\ [Next]_vars => [Seen]_vars
  <2> SUFFICES ASSUME TypeOK, BeatInv, Next, NEW r \in Runner, NEW q \in Session,
                      job[r].at = "look", q \in job[r].todo,
                      job'[r].at = "look", q \notin job'[r].todo,
                      Whole(q), now <= beat[q] + PeerLive - Heartbeat
               PROVE  q \in job'[r].peers
    OBVIOUS
  <2>1. Warm(q)
    <3>1. now \in Nat /\ beat[q] \in Nat /\ marker[q].updated \in Nat
      BY TypesSplit DEF Rest, Whole, Marker
    <3>2. beat[q] <= marker[q].updated + Heartbeat
      BY DEF BeatInv
    <3> QED BY <3>1, <3>2 DEF Warm, Age
  <2>2. job[r] \in LookJob
    BY JobKinds, TypesSplit
  <2>3. PICK x \in Runner : HookStep(x) \/ WrapupStep(x)
    BY DEF Next, Tick, Edit, Add, Commit, Move, sessionVars
  <2>4. \A y \in Runner \ {x} : job'[y] = job[y]
    <3>1. job = [y \in Runner |-> job[y]]
      BY TypesSplit
    <3>2. CASE HookStep(x)
      <4>1. CASE \/ \E keeps \in BOOLEAN : Start(x, keeps)
                 \/ \E global \in BOOLEAN : Guard(x, global)
                 \/ Notice(x) \/ SweepMarkers(x)
        BY <3>1, <4>1 DEF Start, Guard, Notice, SweepMarkers
      <4>2. CASE \E p \in Session : Judge(x, p) \/ Look(x, p)
        <5>1. PICK p \in Session : Judge(x, p) \/ Look(x, p)
          BY <4>2
        <5>2. CASE Judge(x, p)
          BY <3>1, <5>2 DEF Judge
        <5>3. CASE Look(x, p)
          BY <3>1, <5>3 DEF Look
        <5> QED BY <5>1, <5>2, <5>3
      <4>3. CASE \/ OpenMarker(x) \/ WriteMarker(x) \/ UnlinkMarker(x) \/ UnlinkReceipt(x)
                 \/ Decide(x) \/ Kill(x)
        BY <3>1, <4>3 DEF OpenMarker, WriteMarker, UnlinkMarker, UnlinkReceipt, Decide, Kill
      <4> QED BY <3>2, <4>1, <4>2, <4>3 DEF HookStep
    <3>3. CASE WrapupStep(x)
      BY <3>1, <3>3 DEF WrapupStep, Open, Gate, DiffHead, DiffTree, ListChanged, RelistChanged, Attribute, FindStale,
                        GatePasses, GateBlocks, Record, OpenReceipt, WriteReceipt
    <3> QED BY <2>3, <3>2, <3>3
  <2>5. x = r
    BY <2>4
  <2>6. Idle.at = "idle"
    BY DEF Idle
  <2>7. ~WrapupStep(r)
    BY <2>6 DEF WrapupStep, Open, Gate, DiffHead, DiffTree, ListChanged, RelistChanged, Attribute, FindStale,
                GatePasses, GateBlocks, Record, OpenReceipt, WriteReceipt, Begin
  <2>8. \/ \E p \in Session : Look(r, p)
        \/ Decide(r) \/ Kill(r)
    BY <2>3, <2>5, <2>6, <2>7 DEF HookStep, Start, Guard, Notice, SweepMarkers, OpenMarker, WriteMarker, Judge,
                                 UnlinkMarker, UnlinkReceipt, Begin
  <2>9. ~Decide(r) /\ ~Kill(r)
    BY <2>6, TypesSplit DEF Decide, Kill
  <2>10. PICK p \in Session : Look(r, p)
    BY <2>8, <2>9
  <2>11. job'[r] = [job[r] EXCEPT !.todo = @ \ {p}, !.peers = IF Warm(p) THEN @ \cup {p} ELSE @]
    BY <2>10, TypesSplit DEF Look
  <2>12. p = q
    BY <2>2, <2>11 DEF LookJob
  <2> QED BY <2>1, <2>2, <2>11, <2>12 DEF LookJob
<1> QED
  BY <1>1, <1>2, <1>3, TypeCorrect, PTL DEF Spec, PeersAreSeen
-----------------------------------------------------------------------------
(* what a gate that passes has settled *)

\* An anchor that is asked for is a commit that is there and the present: time
\* stands still while a command runs.
AskedNow(j) ==
  j.at \in {"open", "write"} /\ Asks(j) => j.new.sha <= head /\ j.new.started = now

Clocked ==
  /\ \A s \in Session : root[s].sha <= head /\ root[s].started <= now
  /\ \A r \in Runner : AskedNow(job[r])

\* What the working tree still shows of the changes since a commit.
Shown(sha) == dirty \cup TrackedSince(sha)

Listings == {"head", "tree", "untracked"}

\* Its anchor is the session's own, or an older one: what was due when the gate
\* began is among the changes since that anchor, as often as it asks, and on the
\* gate's own list once it has that.
Anchored(j, s, apart) ==
  /\ j.whose = s
  /\ j.anchor.sha <= head /\ j.anchor.started <= root[s].started
  /\ j.at \in Listings => j.due \subseteq ChangedSince(j.anchor.sha)
  /\ j.again \/ j.at \notin Listings => j.due \ apart \subseteq j.changed

\* Between two commands of git, what is due is on the list so far or still to be
\* shown by the next: a commit in between takes tracked files only, which the
\* second command compares with the anchor; a new file is to be added before.
Underway(j, apart) ==
  /\ j.at = "tree" => j.due \subseteq j.left \cup Shown(j.anchor.sha)
  /\ j.at = "untracked" => j.due \subseteq j.left \cup Untracked \cup apart

\* What is due is on the gate's list, or an open task has claimed it, which is
\* open still or was moved.
Attributed(j, apart) ==
  /\ j.at = "claims" => j.due \ apart \subseteq j.left
  /\ j.at \in {"stale", "receipt"} =>
       \A p \in j.due \ apart :
         \/ p \in j.left
         \/ \E t \in Task : p \in Claims[t] /\ (task[t].status \in OPEN_STATUSES \/ t \in apart)

\* So is a task that the session has left in progress, or it was moved since.
Listed(j, apart) ==
  j.at = "receipt" =>
    \A t \in Task \ apart :
      task[t].status = "in_progress" /\ TouchedThisSession(t, j.anchor.started, j.changed) => t \in j.left

SeenTo(j, s, apart) ==
  Anchored(j, s, apart) /\ Underway(j, apart) /\ Attributed(j, apart) /\ Listed(j, apart)

Sees(r) == SeenTo(job[r], Owner[r], stirred[r])

GateInv ==
  /\ Clocked
  /\ \A r \in Runner : Gating(r) /\ Owner[r] \in Told \ astray => Sees(r)

\* A step that undoes no change, notes files that are added, and tasks that move.
Adds(r) ==
  /\ \A sha \in Nat : sha <= head => /\ ChangedSince(sha) \subseteq ChangedSince(sha)'
                                     /\ Shown(sha) \subseteq Shown(sha)'
  /\ job[r].at = "untracked" => Untracked \subseteq Untracked' \cup stirred'[r]
  /\ stirred[r] \subseteq stirred'[r]
  /\ \A t \in Task : t \in stirred'[r] \/ task'[t] = task[t]

\* Nothing that anyone does to the checkout or the board, and no command of the
\* session, takes from a gate under way what it has seen.
LEMMA GateFrame ==
  ASSUME TypeOK, NEW r \in Runner, Gating(r), Sees(r), job'[r] = job[r],
         head' \in Nat, head <= head', Adds(r),
         root'[Owner[r]].started \in Nat, root[Owner[r]].started <= root'[Owner[r]].started
  PROVE  Sees(r)'
<1> USE SessionsAssumption
<1> DEFINE s == Owner[r]
<1>1. job[r] \in GateJob /\ s \in Session /\ head \in Nat
  BY JobKinds, TypesSplit DEF Gating, Rest
<1>2. PICK j \in GateJob : j = job[r]
  BY <1>1
<1>3. /\ j.anchor.sha \in Nat /\ j.anchor.started \in Nat /\ root[s].started \in Nat
      /\ j.due \subseteq Path
  BY <1>1, TypesSplit DEF GateJob, Anchor, Rest
<1>4. SeenTo(j, s, stirred[r])
  BY <1>2 DEF Sees
<1>5. stirred[r] \subseteq stirred'[r]
  BY DEF Adds
<1>6. Anchored(j, s, stirred[r])'
  BY <1>1, <1>3, <1>4, <1>5 DEF SeenTo, Anchored, Adds
<1>7. Underway(j, stirred[r])'
  <2>1. CASE j.at = "tree"
    <3>1. j.due \subseteq j.left \cup Shown(j.anchor.sha) /\ j.anchor.sha <= head
      BY <1>4, <2>1 DEF SeenTo, Underway, Anchored
    <3>2. Shown(j.anchor.sha) \subseteq Shown(j.anchor.sha)'
      BY <1>3, <3>1 DEF Adds
    <3> QED BY <2>1, <3>1, <3>2 DEF Underway
  <2>2. CASE j.at = "untracked"
    BY <1>2, <1>4, <1>5, <2>2 DEF SeenTo, Underway, Adds
  <2> QED BY <2>1, <2>2 DEF Underway
<1>8. Attributed(j, stirred[r])'
  <2>1. ASSUME NEW p, NEW t \in Task, p \in Claims[t],
               task[t].status \in OPEN_STATUSES \/ t \in stirred[r]
        PROVE  task'[t].status \in OPEN_STATUSES \/ t \in stirred'[r]
    BY <1>5, <2>1 DEF Adds
  <2> QED BY <1>4, <1>5, <2>1 DEF SeenTo, Attributed
<1>9. Listed(j, stirred[r])'
  <2>1. ASSUME NEW t \in Task \ stirred'[r]
        PROVE  t \notin stirred[r] /\ task'[t] = task[t]
    BY <1>5, <2>1 DEF Adds
  <2> QED BY <1>4, <2>1 DEF SeenTo, Listed, TouchedThisSession
<1> QED BY <1>2, <1>6, <1>7, <1>8, <1>9 DEF Sees, SeenTo

\* A step of one runner: the other gates have seen what they have seen.
LEMMA GateTurn ==
  ASSUME TypeOK, TypeOK', GateInv, NEW r \in Runner, NEW k,
         job' = [job EXCEPT ![r] = k], AskedNow(k),
         UNCHANGED <<now, head, treeVars, task>>, astray \subseteq astray',
         \A x \in Session : root'[x] = root[x] \/ (root'[x].sha <= head /\ root'[x].started = now),
         \A q \in Runner \ {r} : stirred'[q] = stirred[q],
         k.at \in GatePhases /\ Owner[r] \in Told \ astray' => Sees(r)'
  PROVE  GateInv'
<1> USE SessionsAssumption
<1>1. /\ job'[r] = k
      /\ \A q \in Runner \ {r} : job'[q] = job[q]
  BY TypesSplit
<1>2. Clocked'
  <2>1. \A q \in Runner : AskedNow(job[q])'
    BY <1>1 DEF GateInv, Clocked, AskedNow, Asks
  <2>2. \A x \in Session : root'[x].sha <= head /\ root'[x].started <= now
    BY TypesSplit DEF GateInv, Clocked, Rest
  <2> QED BY <2>1, <2>2 DEF Clocked
<1>3. ASSUME NEW q \in Runner \ {r}, Gating(q)', Owner[q] \in Told \ astray'
      PROVE  Sees(q)'
  <2>1. Gating(q) /\ Sees(q)
    BY <1>1, <1>3 DEF GateInv, Gating
  <2>2. /\ head \in Nat /\ root[Owner[q]].started \in Nat /\ root'[Owner[q]].started \in Nat
        /\ root[Owner[q]].started <= root'[Owner[q]].started
    <3>1. Owner[q] \in Session
      OBVIOUS
    <3>2. Rest /\ Rest'
      BY DEF TypeOK, SessionsTypeOK, Rest
    <3> QED BY <3>1, <3>2 DEF Rest, Anchor, GateInv, Clocked
  <2>3. Adds(q)
    BY <1>3 DEF Adds, ChangedSince, CommittedSince, Shown, TrackedSince, Untracked, treeVars
  <2> QED BY <1>1, <1>3, <2>1, <2>2, <2>3, GateFrame
<1>4. Gating(r)' => k.at \in GatePhases
  BY <1>1 DEF Gating
<1> QED BY <1>2, <1>3, <1>4 DEF GateInv

\* What a hook does after a rewrite is no gate, and asks for nothing.
LEMMA GoesOnWithout ==
  ASSUME NEW s, NEW then \in {"idle", "look", "sweep"}
  PROVE  After(s, then).at \notin GatePhases \cup {"open", "write"}
BY DEF After, Sweeping, Idle, GatePhases

\* A step of a runner that begins and continues no gate.
Gateless(r) ==
  \E k : /\ job' = [job EXCEPT ![r] = k] /\ AskedNow(k) /\ k.at \notin GatePhases
         /\ UNCHANGED <<now, head>> /\ astray \subseteq astray'
         /\ \A x \in Session : root'[x] = root[x] \/ (root'[x].sha <= head /\ root'[x].started = now)

\* A hook's step begins no gate, and the anchor it asks for is of now.
LEMMA HooksGateless ==
  ASSUME TypeOK, Clocked, NEW r \in Runner, HookStep(r)
  PROVE  Gateless(r)
<1> USE SessionsAssumption
<1> DEFINE s == Owner[r]
           j == job[r]
<1>1. s \in Session /\ j \in Job /\ Rest /\ AskedNow(j)
  BY TypesSplit DEF Clocked
<1>2. ASSUME NEW k, job' = [job EXCEPT ![r] = k], k.at \notin GatePhases \cup {"open", "write"},
             UNCHANGED <<now, head, astray, root>>
      PROVE  Gateless(r)
  BY <1>2 DEF Gateless, AskedNow
<1>3. ASSUME NEW keeps \in BOOLEAN, Start(r, keeps) PROVE Gateless(r)
  <2> DEFINE c == Started(s, keeps)
             k == Rewriting(c, IF keeps THEN "resume" ELSE "start", "sweep")
  <2>1. /\ job' = [job EXCEPT ![r] = k] /\ UNCHANGED <<now, head, root>> /\ astray \subseteq astray'
    BY <1>3 DEF Start, Begin
  <2>2. k.at = "open" /\ k.new = c /\ k.by = IF keeps THEN "resume" ELSE "start"
    BY DEF Rewriting
  <2>3. ~keeps => c.sha <= head /\ c.started = now
    BY <1>1 DEF Started, Rest
  <2>4. AskedNow(k)
    BY <2>2, <2>3 DEF AskedNow, Asks
  <2>5. k.at \notin GatePhases
    BY <2>2 DEF GatePhases
  <2> HIDE DEF k
  <2> QED BY <2>1, <2>4, <2>5 DEF Gateless
<1>4. ASSUME NEW global \in BOOLEAN, Guard(r, global) PROVE Gateless(r)
  <2> DEFINE then == IF global THEN "look" ELSE "idle"
             c == [sha |-> marker[s].sha, started |-> marker[s].started, updated |-> now]
             k == Rewriting(c, "guard", then)
  <2>1. UNCHANGED <<now, head, root>> /\ astray \subseteq astray'
    BY <1>4 DEF Guard, Begin
  <2>2. CASE Due(s)
    <3>1. job' = [job EXCEPT ![r] = k]
      BY <1>4, <2>2 DEF Guard
    <3>2. k.at = "open" /\ k.by = "guard"
      BY DEF Rewriting
    <3>3. AskedNow(k) /\ k.at \notin GatePhases
      BY <3>2 DEF AskedNow, Asks, GatePhases
    <3> HIDE DEF k
    <3> QED BY <2>1, <3>1, <3>3 DEF Gateless
  <2>3. CASE ~Due(s)
    <3>1. job' = [job EXCEPT ![r] = After(s, then)] /\ UNCHANGED astray
      BY <1>4, <2>3 DEF Guard
    <3>2. then \in {"idle", "look", "sweep"}
      OBVIOUS
    <3> HIDE DEF then
    <3> QED BY <1>2, <2>1, <3>1, <3>2, GoesOnWithout
  <2> QED BY <2>2, <2>3
<1>5. CASE Notice(r) \/ SweepMarkers(r)
  <2> QED BY <1>2, <1>5, GoesOnWithout DEF Notice, SweepMarkers
<1>6. CASE OpenMarker(r)
  <2> DEFINE k == [j EXCEPT !.at = "write"]
  <2>1. j \in MarkerJob /\ j.at = "open"
    BY <1>1, <1>6, JobKinds DEF OpenMarker
  <2>2. k.at = "write" /\ k.by = j.by /\ k.new = j.new
    BY <2>1 DEF MarkerJob
  <2>3. job' = [job EXCEPT ![r] = k] /\ UNCHANGED <<now, head, astray, root>>
    BY <1>6 DEF OpenMarker
  <2>4. AskedNow(k) /\ k.at \notin GatePhases
    BY <1>1, <2>1, <2>2 DEF AskedNow, Asks, GatePhases
  <2> HIDE DEF k
  <2> QED BY <2>3, <2>4 DEF Gateless
<1>7. CASE WriteMarker(r)
  <2>1. j \in MarkerJob /\ j.at = "write"
    BY <1>1, <1>7, JobKinds DEF WriteMarker
  <2>2. j.then \in {"idle", "look", "sweep"}
    BY <2>1 DEF MarkerJob
  <2>3. /\ job' = [job EXCEPT ![r] = After(s, j.then)] /\ UNCHANGED <<now, head, astray>>
        /\ root' = IF Asks(j) THEN [root EXCEPT ![s] = AnchorOf(j.new)] ELSE root
    BY <1>7 DEF WriteMarker
  <2>4. Asks(j) => j.new.sha <= head /\ j.new.started = now
    BY <1>1, <2>1 DEF AskedNow
  <2>5. \A x \in Session : root'[x] = root[x] \/ (root'[x].sha <= head /\ root'[x].started = now)
    BY <1>1, <2>3, <2>4 DEF Rest, AnchorOf
  <2>6. PICK k : k = After(s, j.then)
    OBVIOUS
  <2>7. AskedNow(k) /\ k.at \notin GatePhases
    BY <2>2, <2>6, GoesOnWithout DEF AskedNow
  <2>8. job' = [job EXCEPT ![r] = k] /\ UNCHANGED <<now, head>> /\ astray \subseteq astray'
    BY <2>3, <2>6
  <2> HIDE DEF s, j
  <2> QED BY <2>5, <2>7, <2>8, Zenon DEF Gateless
<1>8. ASSUME NEW q \in Session, Judge(r, q) PROVE Gateless(r)
  <2> DEFINE rest == j.todo \ {q}
  <2>1. PICK k : k = IF Whole(q) /\ Age(q) > Retention
                       THEN [at |-> "unlink", victim |-> q, todo |-> rest] ELSE Sweeping(rest)
    OBVIOUS
  <2>2. job' = [job EXCEPT ![r] = k]
    BY <1>8, <2>1, Zenon DEF Judge
  <2>3. k.at \notin GatePhases \cup {"open", "write"}
    BY <2>1 DEF Sweeping, Idle, GatePhases
  <2> QED BY <1>2, <1>8, <2>2, <2>3 DEF Judge
<1>9. ASSUME NEW q \in Session, Look(r, q) PROVE Gateless(r)
  <2> DEFINE k == [j EXCEPT !.todo = @ \ {q}, !.peers = IF Warm(q) THEN @ \cup {q} ELSE @]
  <2>1. j \in LookJob
    BY <1>1, <1>9, JobKinds DEF Look
  <2>2. k.at = "look"
    BY <2>1 DEF LookJob
  <2>3. job' = [job EXCEPT ![r] = k] /\ UNCHANGED <<now, head, astray, root>>
    BY <1>9 DEF Look
  <2> HIDE DEF k
  <2> QED BY <1>2, <2>2, <2>3 DEF GatePhases
<1>10. CASE UnlinkMarker(r)
  <2> DEFINE k == [j EXCEPT !.at = "unlinkReceipt"]
  <2>1. j \in UnlinkJob
    BY <1>1, <1>10, JobKinds DEF UnlinkMarker
  <2>2. k.at = "unlinkReceipt"
    BY <2>1 DEF UnlinkJob
  <2>3. job' = [job EXCEPT ![r] = k] /\ UNCHANGED <<now, head, astray, root>>
    BY <1>10 DEF UnlinkMarker
  <2> HIDE DEF k
  <2> QED BY <1>2, <2>2, <2>3 DEF GatePhases
<1>11. CASE UnlinkReceipt(r)
  <2> DEFINE k == Sweeping(j.todo)
  <2>1. k.at \notin GatePhases \cup {"open", "write"}
    BY DEF Sweeping, Idle, GatePhases
  <2>2. job' = [job EXCEPT ![r] = k] /\ UNCHANGED <<now, head, astray, root>>
    BY <1>11 DEF UnlinkReceipt
  <2> HIDE DEF k
  <2> QED BY <1>2, <2>1, <2>2
<1>12. CASE Decide(r) \/ Kill(r)
  <2>1. Idle.at = "idle"
    BY DEF Idle
  <2>2. job' = [job EXCEPT ![r] = Idle] /\ UNCHANGED <<now, head, astray, root>>
    BY <1>12 DEF Decide, Kill
  <2> QED BY <1>2, <2>1, <2>2 DEF GatePhases
<1> QED
  BY <1>3, <1>4, <1>5, <1>6, <1>7, <1>8, <1>9, <1>10, <1>11, <1>12 DEF HookStep

\* Only the gate itself moves a gate on, and what it moves on with it has seen.
LEMMA WrapupSees ==
  ASSUME TypeOK, TypeOK', AnchorInv, GateInv, NEW r \in Runner, WrapupStep(r)
  PROVE  GateInv'
<1> USE SessionsAssumption, WrapupAssumption
<1> DEFINE s == Owner[r]
           j == job[r]
<1>1. s \in Session /\ j \in Job /\ Rest /\ Clocked
  BY TypesSplit DEF GateInv
<1>2. ASSUME NEW k, job' = [job EXCEPT ![r] = k], k.at \notin GatePhases \cup {"open", "write"},
             UNCHANGED <<now, head, astray, root, treeVars, task>>,
             \A q \in Runner \ {r} : stirred'[q] = stirred[q]
      PROVE  GateInv'
  BY <1>2, GateTurn DEF AskedNow
<1>3. ASSUME NEW sha \in 0 .. head, Open(r, sha) PROVE GateInv'
  <2> DEFINE c == [sha |-> sha, started |-> now, updated |-> now]
             k == Rewriting(c, "open", "idle")
  <2>1. /\ job' = [job EXCEPT ![r] = k] /\ UNCHANGED <<now, head, root, wrapupVars>>
        /\ astray \subseteq astray'
    BY <1>3 DEF Open, Begin
  <2>2. k.at = "open" /\ k.new.sha = sha /\ k.new.started = now
    BY DEF Rewriting
  <2>3. AskedNow(k) /\ k.at \notin GatePhases
    BY <1>1, <2>2 DEF AskedNow, GatePhases, Rest
  <2> HIDE DEF k
  <2> QED BY <2>1, <2>3, GateTurn DEF wrapupVars, treeVars
<1>4. CASE Gate(r)
  <2>1. PICK q \in MarkersFor(s) :
          /\ Whole(q)
          /\ job' = [job EXCEPT ![r] =
               [at |-> "head", again |-> FALSE, whose |-> q, anchor |-> AnchorOf(marker[q]),
                changed |-> {}, left |-> {}, due |-> ChangedSince(root[s].sha)]]
    BY <1>4 DEF Gate
  <2>2. PICK k : k = [at |-> "head", again |-> FALSE, whose |-> q, anchor |-> AnchorOf(marker[q]),
                      changed |-> {}, left |-> {}, due |-> ChangedSince(root[s].sha)]
    OBVIOUS
  <2>3. job' = [job EXCEPT ![r] = k] /\ job'[r] = k
    BY <2>1, <2>2, TypesSplit
  <2>4. /\ UNCHANGED <<now, head, root, astray, treeVars, task>>
        /\ stirred' = [stirred EXCEPT ![r] = {}]
    BY <1>4 DEF Gate
  <2>5. AskedNow(k)
    BY <2>2 DEF AskedNow
  <2>6. ASSUME s \in Told \ astray PROVE Sees(r)'
    <3>1. q = s /\ Whole(s)
      BY <2>1, <2>6 DEF MarkersFor
    <3>2. /\ marker[s].sha \in Nat /\ marker[s].started \in Nat /\ root[s].sha \in Nat
          /\ root[s].started \in Nat /\ head \in Nat
      BY <1>1, <3>1 DEF Rest, Whole, Marker, Anchor
    <3>3. /\ marker[s].sha <= root[s].sha /\ marker[s].started <= root[s].started /\ root[s].sha <= head
      BY <1>1, <2>6, <3>1 DEF AnchorInv, MarkersAreBehind, Behind, Clocked
    <3>4. ChangedSince(root[s].sha) \subseteq ChangedSince(marker[s].sha)
      BY <1>1, <3>2, <3>3 DEF ChangedSince, CommittedSince, Rest
    <3>5. /\ k.at = "head" /\ k.again = FALSE /\ k.whose = s /\ k.anchor.sha = marker[s].sha
          /\ k.anchor.started = marker[s].started /\ k.due = ChangedSince(root[s].sha)
      BY <2>2, <3>1 DEF AnchorOf
    <3>6. Anchored(k, s, stirred[r])'
      BY <2>4, <3>2, <3>3, <3>4, <3>5
         DEF Anchored, ChangedSince, CommittedSince, Listings, treeVars
    <3>7. Underway(k, stirred[r])' /\ Attributed(k, stirred[r])' /\ Listed(k, stirred[r])'
      BY <3>5 DEF Underway, Attributed, Listed
    <3> QED BY <2>3, <3>6, <3>7 DEF Sees, SeenTo
  <2>7. \A x \in Runner \ {r} : stirred'[x] = stirred[x]
    BY <1>1, <2>4 DEF Rest
  <2> QED BY <2>3, <2>4, <2>5, <2>6, <2>7, GateTurn
<1>5. ASSUME j.at \in GatePhases, NEW k, job' = [job EXCEPT ![r] = k], k.at \in GatePhases,
             Local, UNCHANGED wrapupVars,
             s \in Told \ astray /\ Sees(r) => SeenTo(k, s, stirred[r])
      PROVE  GateInv'
  <2>1. UNCHANGED <<now, head, root, astray, treeVars, task, stirred>>
    BY <1>5 DEF Local, wrapupVars
  <2>2. AskedNow(k) /\ job'[r] = k
    BY <1>5, TypesSplit DEF AskedNow, GatePhases
  <2>3. ASSUME s \in Told \ astray PROVE Sees(r)'
    <3>1. Sees(r)
      BY <1>5, <2>3 DEF GateInv, Gating
    <3>2. SeenTo(k, s, stirred[r])
      BY <1>5, <2>3, <3>1
    <3>3. Anchored(k, s, stirred[r])'
      BY <2>1, <3>2 DEF SeenTo, Anchored, ChangedSince, CommittedSince, treeVars
    <3>4. Underway(k, stirred[r])'
      BY <2>1, <3>2 DEF SeenTo, Underway, Shown, TrackedSince, Untracked, treeVars
    <3>5. Attributed(k, stirred[r])'
      BY <2>1, <3>2 DEF SeenTo, Attributed
    <3>6. Listed(k, stirred[r])'
      BY <2>1, <3>2 DEF SeenTo, Listed, TouchedThisSession
    <3> QED BY <2>2, <3>3, <3>4, <3>5, <3>6 DEF Sees, SeenTo
  <2> QED BY <1>5, <2>1, <2>2, <2>3, GateTurn
<1>6. CASE DiffHead(r)
  <2>1. j \in GateJob /\ j.at = "head"
    BY <1>1, <1>6, JobKinds DEF DiffHead, GatePhases
  <2>2. PICK k : k = [j EXCEPT !.left = CommittedSince(j.anchor.sha), !.at = "tree"]
    OBVIOUS
  <2>3. /\ k.whose = j.whose /\ k.anchor = j.anchor /\ k.due = j.due
        /\ k.at = "tree" /\ k.again = j.again /\ k.changed = j.changed /\ k.left = CommittedSince(j.anchor.sha)
    BY <1>6, <2>1, <2>2 DEF GateJob, DiffHead
  <2>5. ASSUME Sees(r) PROVE SeenTo(k, s, stirred[r])
    BY <2>1, <2>3, <2>5 DEF Sees, SeenTo, Anchored, Underway, Attributed, Listed, Listings, ChangedSince, Shown
  <2>6. job' = [job EXCEPT ![r] = k] /\ Local /\ UNCHANGED wrapupVars
    BY <1>6, <2>2 DEF DiffHead
  <2> QED BY <1>5, <2>1, <2>3, <2>5, <2>6 DEF GatePhases
<1>7. CASE DiffTree(r)
  <2>1. j \in GateJob /\ j.at = "tree"
    BY <1>1, <1>7, JobKinds DEF DiffTree, GatePhases
  <2>2. PICK k : k = [j EXCEPT !.left = @ \cup TrackedSince(j.anchor.sha), !.at = "untracked"]
    OBVIOUS
  <2>3. /\ k.whose = j.whose /\ k.anchor = j.anchor /\ k.due = j.due
        /\ k.at = "untracked" /\ k.again = j.again /\ k.changed = j.changed
        /\ k.left = j.left \cup TrackedSince(j.anchor.sha)
    BY <1>7, <2>1, <2>2 DEF GateJob, DiffTree
  <2>4. Shown(j.anchor.sha) \subseteq TrackedSince(j.anchor.sha) \cup Untracked
    BY DEF Shown, TrackedSince, Untracked
  <2>5. ASSUME Sees(r) PROVE SeenTo(k, s, stirred[r])
    BY <2>1, <2>3, <2>5, <2>4 DEF Sees, SeenTo, Anchored, Underway, Attributed, Listed, Listings
  <2>6. job' = [job EXCEPT ![r] = k] /\ Local /\ UNCHANGED wrapupVars
    BY <1>7, <2>2 DEF DiffTree
  <2> QED BY <1>5, <2>1, <2>3, <2>5, <2>6 DEF GatePhases
<1>8. CASE ListChanged(r)
  <2>1. j \in GateJob /\ j.at = "untracked"
    BY <1>1, <1>8, JobKinds DEF ListChanged, GatePhases
  <2>2. PICK k : k = [j EXCEPT !.changed = j.left \cup Untracked, !.left = {}, !.again = TRUE, !.at = "head"]
    OBVIOUS
  <2>3. /\ k.whose = j.whose /\ k.anchor = j.anchor /\ k.due = j.due
        /\ k.at = "head" /\ k.again = TRUE /\ k.changed = j.left \cup Untracked
    BY <1>8, <2>1, <2>2 DEF GateJob, ListChanged
  <2>5. ASSUME Sees(r) PROVE SeenTo(k, s, stirred[r])
    BY <2>1, <2>3, <2>5 DEF Sees, SeenTo, Anchored, Underway, Attributed, Listed, Listings
  <2>6. job' = [job EXCEPT ![r] = k] /\ Local /\ UNCHANGED wrapupVars
    BY <1>8, <2>2 DEF ListChanged
  <2> QED BY <1>5, <2>1, <2>3, <2>5, <2>6 DEF GatePhases
<1>9. CASE RelistChanged(r)
  <2>1. j \in GateJob /\ j.at = "untracked"
    BY <1>1, <1>9, JobKinds DEF RelistChanged, GatePhases
  <2>2. PICK k : k = [j EXCEPT !.left = @ \cup Untracked, !.at = "claims"]
    OBVIOUS
  <2>3. /\ k.whose = j.whose /\ k.anchor = j.anchor /\ k.due = j.due
        /\ k.at = "claims" /\ j.again /\ k.changed = j.changed /\ k.left = j.left \cup Untracked
    BY <1>9, <2>1, <2>2 DEF GateJob, RelistChanged
  <2>5. ASSUME Sees(r) PROVE SeenTo(k, s, stirred[r])
    BY <2>1, <2>3, <2>5 DEF Sees, SeenTo, Anchored, Underway, Attributed, Listed, Listings
  <2>6. job' = [job EXCEPT ![r] = k] /\ Local /\ UNCHANGED wrapupVars
    BY <1>9, <2>2 DEF RelistChanged
  <2> QED BY <1>5, <2>1, <2>3, <2>5, <2>6 DEF GatePhases
<1>14. CASE Attribute(r)
  <2>1. j \in GateJob /\ j.at = "claims"
    BY <1>1, <1>14, JobKinds DEF Attribute, GatePhases
  <2>2. PICK k : k = [j EXCEPT !.left = @ \ Claimed, !.at = "stale"]
    OBVIOUS
  <2>3. /\ k.whose = j.whose /\ k.anchor = j.anchor /\ k.due = j.due
        /\ k.at = "stale" /\ k.changed = j.changed /\ k.left = j.left \ Claimed
    BY <1>14, <2>1, <2>2 DEF GateJob, Attribute
  <2>4. \A p \in Claimed : \E t \in Task : p \in Claims[t] /\ task[t].status \in OPEN_STATUSES
    BY DEF Claimed
  <2>5. ASSUME Sees(r) PROVE SeenTo(k, s, stirred[r])
    BY <2>1, <2>3, <2>5, <2>4 DEF Sees, SeenTo, Anchored, Underway, Attributed, Listed, Listings
  <2>6. job' = [job EXCEPT ![r] = k] /\ Local /\ UNCHANGED wrapupVars
    BY <1>14, <2>2 DEF Attribute
  <2> QED BY <1>5, <2>1, <2>3, <2>5, <2>6 DEF GatePhases
<1>15. CASE FindStale(r)
  <2> DEFINE stale == {t \in Task : /\ task[t].status = "in_progress"
                                    /\ TouchedThisSession(t, j.anchor.started, j.changed)}
  <2>1. j \in GateJob /\ j.at = "stale"
    BY <1>1, <1>15, JobKinds DEF FindStale, GatePhases
  <2>2. PICK k : k = [j EXCEPT !.left = @ \cup stale, !.at = "receipt"]
    OBVIOUS
  <2>3. /\ k.whose = j.whose /\ k.anchor = j.anchor /\ k.due = j.due
        /\ k.at = "receipt" /\ k.changed = j.changed /\ k.left = j.left \cup stale
    BY <1>15, <2>1, <2>2 DEF GateJob, FindStale
  <2>5. ASSUME Sees(r) PROVE SeenTo(k, s, stirred[r])
    BY <2>1, <2>3, <2>5 DEF Sees, SeenTo, Anchored, Underway, Attributed, Listed, Listings
  <2>6. job' = [job EXCEPT ![r] = k] /\ Local /\ UNCHANGED wrapupVars
    BY <1>15, <2>2 DEF FindStale
  <2> QED BY <1>5, <2>1, <2>3, <2>5, <2>6 DEF GatePhases
<1>10. CASE GatePasses(r) \/ GateBlocks(r)
  <2>1. /\ job' = [job EXCEPT ![r] = Idle] /\ stirred' = [stirred EXCEPT ![r] = {}]
        /\ UNCHANGED <<now, head, astray, root, treeVars, task>>
    BY <1>10 DEF GatePasses, GateBlocks, Local
  <2>2. \A x \in Runner \ {r} : stirred'[x] = stirred[x]
    BY <1>1, <2>1 DEF Rest
  <2>3. Idle.at \notin GatePhases \cup {"open", "write"}
    BY DEF Idle, GatePhases
  <2> QED BY <1>2, <2>1, <2>2, <2>3
<1>11. ASSUME NEW x \in Clearable, NEW clears \in BOOLEAN, Record(r, x, clears) PROVE GateInv'
  <2>1. PICK q \in MarkersFor(s) :
          /\ Whole(q)
          /\ job' = [job EXCEPT ![r] = [at |-> "save", whose |-> q, cleared |-> Entered(q, x, clears)]]
    BY <1>11 DEF Record
  <2>2. [at |-> "save", whose |-> q, cleared |-> Entered(q, x, clears)].at \notin GatePhases \cup {"open", "write"}
    BY DEF GatePhases
  <2> QED BY <1>2, <1>11, <2>1, <2>2 DEF Record, wrapupVars, treeVars
<1>12. CASE OpenReceipt(r)
  <2>1. j \in RecordJob
    BY <1>1, <1>12, JobKinds DEF OpenReceipt
  <2>2. PICK k : k = [j EXCEPT !.at = "saved"]
    OBVIOUS
  <2>3. k.at \notin GatePhases \cup {"open", "write"}
    BY <2>1, <2>2 DEF RecordJob, GatePhases
  <2> QED BY <1>2, <1>12, <2>2, <2>3 DEF OpenReceipt, wrapupVars, treeVars
<1>13. CASE WriteReceipt(r)
  <2>1. Idle.at \notin GatePhases \cup {"open", "write"}
    BY DEF Idle, GatePhases
  <2> QED BY <1>2, <1>13, <2>1 DEF WriteReceipt, wrapupVars, treeVars
<1> QED
  BY <1>3, <1>4, <1>6, <1>7, <1>8, <1>9, <1>10, <1>11, <1>12, <1>13, <1>14, <1>15 DEF WrapupStep

\* Nor does anything done outside of hooks and commands spoil what gates have seen.
LEMMA OutsideKeeps ==
  ASSUME TypeOK, TypeOK', GateInv, UNCHANGED <<job, root, astray>>, now <= now', head <= head',
         \A r \in Runner : AskedNow(job[r]) => AskedNow(job[r])',
         \A r \in Runner : Gating(r) => Adds(r)
  PROVE  GateInv'
<1> USE SessionsAssumption
<1>1. Rest /\ Rest'
  BY DEF TypeOK, SessionsTypeOK, Rest
<1>2. Clocked'
  BY <1>1 DEF GateInv, Clocked, Rest, Anchor
<1>3. ASSUME NEW r \in Runner, Gating(r)', Owner[r] \in Told \ astray'
      PROVE  Sees(r)'
  <2>1. Gating(r) /\ Sees(r)
    BY <1>3 DEF GateInv, Gating
  <2>2. root[Owner[r]].started \in Nat /\ head' \in Nat
    <3>1. Owner[r] \in Session
      OBVIOUS
    <3> QED BY <1>1, <3>1 DEF Rest, Anchor
  <2> QED BY <2>1, <2>2, GateFrame
<1> QED BY <1>2, <1>3 DEF GateInv

\* Whatever others edit, add, commit, record and move while it reads, a gate that
\* passes has seen to every change that was there when it began, and to every
\* task the session has left in progress; excepted are tasks moved meanwhile and
\* new files added to the index between the last two commands of a list.
THEOREM PassSettles == Spec => PassMeansSettled
<1> USE SessionsAssumption, WrapupAssumption
<1> DEFINE Settled == \A r \in Runner :
       LET s == Owner[r]
           cleared == receipt[s] \cup stirred[r]
       IN
       (job[r].at = "receipt" /\ job'[r] = Idle /\ Remaining(r) = {} /\ s \in Told \ astray)
       => /\ \A p \in job[r].due :
               \/ p \in cleared
               \/ \E t \in Task : p \in Claims[t] /\ (task[t].status \in OPEN_STATUSES \/ t \in cleared)
          /\ \A t \in Task :
               (/\ task[t].status = "in_progress"
                /\ task[t].touched >= root[s].started \/ Claims[t] \cap (job[r].due \ stirred[r]) # {})
               => t \in cleared
<1>1. Init => GateInv
  BY DEF Init, SessionsInit, GateInv, Clocked, AskedNow, Gating, Idle, GatePhases
<1>2. TypeOK /\ TypeOK' /\ AnchorInv /\ GateInv /\ [Next]_vars => GateInv'
  <2> SUFFICES ASSUME TypeOK, TypeOK', AnchorInv, GateInv, [Next]_vars PROVE GateInv'
    OBVIOUS
  <2>0. now \in Nat /\ head \in Nat /\ Rest
    BY TypesSplit DEF Rest
  <2>1. ASSUME NEW r \in Runner, HookStep(r), UNCHANGED wrapupVars PROVE GateInv'
    <3>1. PICK k : /\ job' = [job EXCEPT ![r] = k] /\ AskedNow(k) /\ k.at \notin GatePhases
                   /\ UNCHANGED <<now, head>> /\ astray \subseteq astray'
                   /\ \A x \in Session : root'[x] = root[x] \/ (root'[x].sha <= head /\ root'[x].started = now)
      BY <2>1, HooksGateless, Zenon DEF Gateless, GateInv
    <3> QED BY <2>1, <3>1, GateTurn DEF wrapupVars, treeVars
  <2>2. ASSUME NEW r \in Runner, WrapupStep(r) PROVE GateInv'
    BY <2>2, WrapupSees
  <2>3. CASE Tick /\ UNCHANGED wrapupVars
    <3>1. \A r \in Runner : ~Gating(r) /\ AskedNow(job[r])'
      BY <2>3 DEF Tick, Gating, AskedNow, Idle, GatePhases
    <3>2. UNCHANGED <<job, root, astray, head>> /\ now' = now + 1
      BY <2>3 DEF Tick
    <3> QED BY <2>0, <3>1, <3>2, OutsideKeeps
  <2>4. ASSUME NEW p \in Path, Edit(p) PROVE GateInv'
    <3>1. dirty' = dirty \cup {p} /\ UNCHANGED <<job, root, astray, now, head, committed, tracked, task, stirred>>
      BY <2>4 DEF Edit, sessionVars
    <3>2. \A r \in Runner : Adds(r)
      BY <3>1 DEF Adds, ChangedSince, CommittedSince, Shown, TrackedSince, Untracked
    <3> QED BY <2>0, <3>1, <3>2, OutsideKeeps DEF AskedNow, Asks
  <2>5. ASSUME NEW p \in Path, Add(p) PROVE GateInv'
    <3>1. /\ tracked' = tracked \cup {p}
          /\ UNCHANGED <<job, root, astray, now, head, committed, dirty, task>>
          /\ \A r \in Runner : stirred[r] \subseteq stirred'[r]
          /\ \A r \in Runner : job[r].at = "untracked" => p \in stirred'[r]
      BY <2>5 DEF Add, sessionVars
    <3>2. \A r \in Runner : Adds(r)
      BY <3>1 DEF Adds, ChangedSince, CommittedSince, Shown, TrackedSince, Untracked
    <3> QED BY <2>0, <3>1, <3>2, OutsideKeeps DEF AskedNow, Asks
  <2>6. ASSUME NEW ps \in SUBSET Path, Commit(ps) PROVE GateInv'
    <3>1. /\ head' = head + 1 /\ ps \subseteq dirty \cap tracked /\ dirty' = dirty \ ps
          /\ committed' = [p \in Path |-> IF p \in ps THEN head + 1 ELSE committed[p]]
          /\ UNCHANGED <<job, root, astray, now, tracked, task, stirred>>
      BY <2>6 DEF Commit
    <3>2. \A p \in tracked : p \in Path
      BY <2>0 DEF Rest
    <3>3. ASSUME NEW sha \in Nat, sha <= head
          PROVE  /\ ChangedSince(sha) \subseteq ChangedSince(sha)'
                 /\ Shown(sha) \subseteq Shown(sha)'
      BY <2>0, <3>1, <3>2, <3>3 DEF ChangedSince, CommittedSince, Shown, TrackedSince, Rest
    <3>4. Untracked' = Untracked
      BY <3>1 DEF Untracked
    <3>5. \A r \in Runner : Adds(r)
      BY <3>1, <3>3, <3>4 DEF Adds
    <3>6. \A r \in Runner : AskedNow(job[r]) => AskedNow(job[r])'
      <4>1. \A r \in Runner : job[r].at \in {"open", "write"} => job[r].new.sha \in Nat
        BY TypesSplit, JobKinds DEF MarkerJob, Contents
      <4> QED BY <2>0, <3>1, <4>1 DEF AskedNow, Asks
    <3> QED BY <2>0, <3>1, <3>5, <3>6, OutsideKeeps
  <2>7. ASSUME NEW t \in Task, NEW status \in Statuses, Move(t, status) PROVE GateInv'
    <3>1. \A r \in Runner : Gating(r) => stirred'[r] = stirred[r] \cup {t}
      BY <2>7 DEF Move
    <3>2. \A u \in Task : u = t \/ task'[u] = task[u]
      BY <2>0, <2>7 DEF Move, Rest
    <3>3. UNCHANGED <<now, head, job, root, astray, committed, tracked, dirty>>
      BY <2>7 DEF Move, sessionVars, treeVars
    <3>4. \A r \in Runner : Gating(r) => Adds(r)
      BY <3>1, <3>2, <3>3 DEF Adds, ChangedSince, CommittedSince, Shown, TrackedSince, Untracked
    <3> QED BY <2>0, <3>3, <3>4, OutsideKeeps DEF AskedNow, Asks
  <2>8. CASE UNCHANGED vars
    <3>1. UNCHANGED <<now, head, job, root, astray, committed, tracked, dirty, task, stirred>>
      BY <2>8 DEF vars, sessionVars, wrapupVars, treeVars
    <3>2. \A r \in Runner : Adds(r)
      BY <3>1 DEF Adds, ChangedSince, CommittedSince, Shown, TrackedSince, Untracked
    <3> QED BY <2>0, <3>1, <3>2, OutsideKeeps DEF AskedNow, Asks
  <2> QED
    BY <2>1, <2>2, <2>3, <2>4, <2>5, <2>6, <2>7, <2>8 DEF Next
<1>3. TypeOK /\ GateInv => [Settled]_vars
  <2> SUFFICES ASSUME TypeOK, GateInv, NEW r \in Runner,
                      job[r].at = "receipt", Remaining(r) = {}, Owner[r] \in Told \ astray
               PROVE  /\ \A p \in job[r].due :
                           \/ p \in receipt[Owner[r]] \cup stirred[r]
                           \/ \E t \in Task : /\ p \in Claims[t]
                                              /\ \/ task[t].status \in OPEN_STATUSES
                                                 \/ t \in receipt[Owner[r]] \cup stirred[r]
                      /\ \A t \in Task :
                           (/\ task[t].status = "in_progress"
                            /\ task[t].touched >= root[Owner[r]].started \/ Claims[t] \cap (job[r].due \ stirred[r]) # {})
                           => t \in receipt[Owner[r]] \cup stirred[r]
    OBVIOUS
  <2> DEFINE s == Owner[r]
             j == job[r]
  <2>1. Anchored(j, s, stirred[r]) /\ Attributed(j, stirred[r]) /\ Listed(j, stirred[r])
    BY DEF GateInv, Gating, Sees, SeenTo, GatePhases
  <2>2. j.left \subseteq receipt[s]
    BY <2>1 DEF Anchored, Remaining
  <2>3. \A p \in j.due \ stirred[r] :
          \/ p \in j.left
          \/ \E t \in Task : p \in Claims[t] /\ (task[t].status \in OPEN_STATUSES \/ t \in stirred[r])
    BY <2>1 DEF Attributed
  <2>4. ASSUME NEW t \in Task \ stirred[r], task[t].status = "in_progress",
               task[t].touched >= root[s].started \/ Claims[t] \cap (j.due \ stirred[r]) # {}
        PROVE  t \in j.left
    <3>1. j \in GateJob /\ s \in Session /\ Rest
      BY JobKinds, TypesSplit DEF GatePhases
    <3>2. j.anchor.started \in Nat /\ root[s].started \in Nat /\ task[t].touched \in Nat
      BY <3>1 DEF GateJob, Anchor, Rest
    <3>3. j.anchor.started <= root[s].started /\ j.due \ stirred[r] \subseteq j.changed
      BY <2>1 DEF Anchored, Listings
    <3>4. TouchedThisSession(t, j.anchor.started, j.changed)
      BY <2>4, <3>2, <3>3 DEF TouchedThisSession
    <3> QED BY <2>1, <2>4, <3>4 DEF Listed
  <2> QED BY <2>2, <2>3, <2>4
<1> QED
  BY <1>1, <1>2, <1>3, AnchorInvariant, TypeCorrect, PTL DEF Spec, PassMeansSettled
=============================================================================

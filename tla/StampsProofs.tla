---------------------------- MODULE StampsProofs ----------------------------
(***************************************************************************)
(* Proofs about the trackers and the hooks that stamp them, for any runs,  *)
(* calls and hooks: a call is stamped on one entry, what was recorded of   *)
(* it is not forgotten, and what the orchestrator wrote stays.             *)
(***************************************************************************)
EXTENDS Stamps, FiniteSetTheorems, WellFoundedInduction, TLAPS

(* The times of the subagents                                              *)

\* Numbers up to n, one after the other.
LEMMA OneByOne ==
  ASSUME NEW n \in Nat, NEW T, 0 \in T, \A k \in 0 .. n : k < n /\ k \in T => k + 1 \in T
  PROVE  0 .. n \subseteq T
<1>1. IsWellFoundedOn(OpToRel(<, Nat), Nat)
  BY NatLessThanWellFounded, Zenon
<1> DEFINE U == (0 .. n) \ T
<1> SUFFICES ASSUME U # {} PROVE FALSE
  OBVIOUS
<1>2. U \subseteq Nat
  OBVIOUS
<1>3. PICK m \in U : \A u \in U : ~ (<<u, m>> \in OpToRel(<, Nat))
  <2> HIDE DEF U
  <2> QED BY <1>1, <1>2, WFMin, Zenon
<1>4. \A u \in U : ~(u < m)
  BY <1>2, <1>3, Zenon DEF OpToRel
<1>5. m # 0
  OBVIOUS
<1>6. m - 1 \in 0 .. n /\ m - 1 < n /\ (m - 1) + 1 = m
  BY <1>5
<1>7. m - 1 \notin T
  BY <1>6
<1> QED BY <1>4, <1>6, <1>7

\* The least of a set of numbers is in it.
LEMMA LeastIn ==
  ASSUME NEW T \in SUBSET Nat, T # {}
  PROVE  Min(T) \in T
<1>1. IsWellFoundedOn(OpToRel(<, Nat), Nat)
  BY NatLessThanWellFounded, Zenon
<1>2. PICK m \in T : \A u \in T : ~ (<<u, m>> \in OpToRel(<, Nat))
  BY <1>1, WFMin, Zenon
<1>3. \A u \in T : ~(u < m)
  BY <1>2, Zenon DEF OpToRel
<1>4. \A u \in T : m <= u
  BY <1>3
<1> QED BY <1>4 DEF Min

\* One span of the drain.
Drain1(acc, s) == [agents |-> ApplySpan(acc.agents, s),
                   left   |-> LeftIn(acc.left, s, Landing(acc.agents, s) # {})]

\* The drain takes the spans one after the other.
LEMMA DrainsInOrder ==
  ASSUME NEW agents, NEW spans, Len(spans) \in Nat, NEW u, u = DrainedUpTo(agents, spans)
  PROVE  /\ u[0] = [agents |-> agents, left |-> <<>>]
         /\ \A n \in 1 .. Len(spans) : u[n] = Drain1(u[n - 1], spans[n])
<1> DEFINE L == Len(spans)
           none == [agents |-> agents, left |-> <<>>]
           Up(v, k) == v = [n \in 0 .. k |-> IF n = 0 THEN none ELSE Drain1(v[n - 1], spans[n])]
           T == {k \in 0 .. L : \E v : Up(v, k)}
<1>1. 0 \in T
  <2>1. PICK v : v = [n \in 0 .. 0 |-> none]
    OBVIOUS
  <2>2. v = [n \in 0 .. 0 |-> IF n = 0 THEN none ELSE Drain1(v[n - 1], spans[n])]
    BY <2>1
  <2> QED BY <2>2
<1>2. ASSUME NEW k \in 0 .. L, k < L, k \in T
      PROVE  k + 1 \in T
  <2>1. PICK v : Up(v, k)
    BY <1>2
  <2>2. PICK w : w = [n \in 0 .. k + 1 |-> IF n <= k THEN v[n] ELSE Drain1(v[k], spans[k + 1])]
    OBVIOUS
  <2>3. \A n \in 0 .. k : w[n] = v[n] /\ v[n] = IF n = 0 THEN none ELSE Drain1(v[n - 1], spans[n])
    BY <2>1, <2>2
  <2>4. \A n \in 0 .. k + 1 : w[n] = IF n = 0 THEN none ELSE Drain1(w[n - 1], spans[n])
    <3> HIDE DEF none
    <3> TAKE n \in 0 .. k + 1
    <3>1. CASE n = k + 1
      <4>1. w[n] = Drain1(v[k], spans[k + 1]) /\ n - 1 = k /\ n # 0
        BY <2>2, <3>1
      <4>2. w[k] = v[k]
        BY <2>3
      <4> QED BY <3>1, <4>1, <4>2
    <3>2. CASE n \in 0 .. k /\ n # 0
      <4>1. n - 1 \in 0 .. k
        BY <3>2
      <4> QED BY <2>3, <3>2, <4>1
    <3>3. CASE n = 0
      BY <2>3, <3>3
    <3> QED BY <3>1, <3>2, <3>3
  <2>5. Up(w, k + 1)
    BY <2>2, <2>4
  <2>6. k + 1 \in 0 .. L
    BY <1>2
  <2> QED BY <2>5, <2>6
<1>3. \E v : Up(v, L)
  <2> HIDE DEF T
  <2>1. 0 .. L \subseteq T
    BY <1>1, <1>2, OneByOne
  <2>2. L \in 0 .. L
    OBVIOUS
  <2> QED BY <2>1, <2>2 DEF T
<1>4. u = CHOOSE v : Up(v, L)
  BY DEF DrainedUpTo, Drain1
<1>5. Up(u, L)
  <2> HIDE DEF Up
  <2> QED BY <1>3, <1>4, Zenon
<1> HIDE DEF none
<1> QED BY <1>5 DEF none

Fields == {"started", "ended"}

\* Entries of a board.
Entries(agents) ==
  /\ agents = [d \in DOMAIN agents |-> agents[d]]
  /\ DOMAIN agents \subseteq Calls
  /\ \A d \in DOMAIN agents : agents[d] \in Entry

\* What was written on the entries stays.
WrittenStays(agents, later) ==
  /\ DOMAIN later = DOMAIN agents
  /\ \A d \in DOMAIN agents, f \in Fields : agents[d][f] # Unset => later[d][f] = agents[d][f]

\* A span lands on one entry or none, fills what it lacks, and leaves the rest.
LEMMA SpanLands ==
  ASSUME NEW agents, Entries(agents), NEW s \in SpanRow, NEW later, later = ApplySpan(agents, s)
  PROVE  /\ Entries(later) /\ WrittenStays(agents, later)
         /\ Landing(agents, s) \subseteq DOMAIN agents
         /\ \A d, e \in Landing(agents, s) : d = e
         /\ \A d \in DOMAIN agents \ Landing(agents, s) : later[d] = agents[d]
         /\ \A d \in Landing(agents, s) :
              /\ \A f \in Fields : later[d][f] \in {agents[d][f], s[f]}
              /\ \E f \in Fields : s[f] # Unset /\ later[d][f] = s[f]
<1>1. Wanting(agents, s) \subseteq DOMAIN agents /\ DOMAIN agents \subseteq Nat
  BY DEF Wanting, Entries, Calls
<1>2. PICK near : near = {c \in Wanting(agents, s) : LaneOf[c] = s.lane}
  OBVIOUS
<1>3. \/ near # {} /\ Landing(agents, s) = {Min(near)}
      \/ Wanting(agents, s) # {} /\ Landing(agents, s) = {Min(Wanting(agents, s))}
      \/ Landing(agents, s) = {}
  BY <1>2 DEF Landing
<1>4. near \subseteq Wanting(agents, s)
  BY <1>2
<1>5. near # {} => Min(near) \in Wanting(agents, s)
  BY <1>1, <1>4, LeastIn
<1>6. Wanting(agents, s) # {} => Min(Wanting(agents, s)) \in Wanting(agents, s)
  BY <1>1, LeastIn
<1>7. Landing(agents, s) \subseteq Wanting(agents, s) /\ \A d, e \in Landing(agents, s) : d = e
  BY <1>3, <1>5, <1>6
<1>8. later = [d \in DOMAIN agents |->
                 IF d \in Landing(agents, s)
                   THEN [started |-> Filled(agents[d].started, s, "started"),
                         ended   |-> Filled(agents[d].ended, s, "ended")]
                   ELSE agents[d]]
  BY DEF ApplySpan
<1>9. /\ DOMAIN later = DOMAIN agents
      /\ \A d \in DOMAIN agents \ Landing(agents, s) : later[d] = agents[d]
      /\ \A d \in Landing(agents, s) :
           /\ later[d].started = Filled(agents[d].started, s, "started")
           /\ later[d].ended = Filled(agents[d].ended, s, "ended")
           /\ later[d] = [started |-> later[d].started, ended |-> later[d].ended]
  BY <1>1, <1>7, <1>8
<1>10. \A d \in Landing(agents, s), f \in Fields :
         later[d][f] = IF agents[d][f] = Unset THEN s[f] ELSE agents[d][f]
  BY <1>9 DEF Filled, Fields
<1>11. ASSUME NEW d \in Landing(agents, s)
       PROVE  later[d] \in Entry
  <2>1. agents[d].started \in Value /\ agents[d].ended \in Value
    BY <1>1, <1>7 DEF Entries, Entry
  <2>2. s.started \in Value /\ s.ended \in Value
    BY DEF SpanRow, Value
  <2>3. later[d].started \in Value /\ later[d].ended \in Value
    BY <2>1, <2>2, <1>9 DEF Filled
  <2>4. PICK x \in Value, y \in Value : x = later[d].started /\ y = later[d].ended
    BY <2>3
  <2>5. later[d] = [started |-> x, ended |-> y]
    BY <2>4, <1>9
  <2> QED BY <2>5 DEF Entry
<1>12. Entries(later)
  BY <1>8, <1>9, <1>11 DEF Entries
<1>13. WrittenStays(agents, later)
  BY <1>9, <1>10 DEF WrittenStays
<1>14. ASSUME NEW d \in Landing(agents, s)
       PROVE  \E f \in Fields : s[f] # Unset /\ later[d][f] = s[f]
  <2>1. Lacks(agents[d], s)
    BY <1>7 DEF Wanting
  <2> QED BY <2>1, <1>10 DEF Lacks, Fields
<1> QED BY <1>1, <1>7, <1>9, <1>10, <1>12, <1>13, <1>14

\* After n of the spans: nothing that was written is lost, what is written is
\* of these spans, and each of them has left something or waits.
DrainGoes(agents, spans, acc, n) ==
  /\ Entries(acc.agents) /\ acc.left \in Seq(SpanRow)
  /\ WrittenStays(agents, acc.agents)
  /\ \A d \in DOMAIN agents, f \in Fields :
       acc.agents[d][f] = agents[d][f] \/ \E i \in 1 .. n : acc.agents[d][f] = spans[i][f]
  /\ \A j \in DOMAIN acc.left : \E i \in 1 .. n : acc.left[j] = spans[i]
  /\ \A i \in 1 .. n :
       \/ \E j \in DOMAIN acc.left : acc.left[j] = spans[i]
       \/ \E d \in DOMAIN agents, f \in Fields : spans[i][f] # Unset /\ acc.agents[d][f] = spans[i][f]

\* Draining one more span keeps what the drain has promised so far.
LEMMA DrainStep ==
  ASSUME NEW agents, NEW spans \in Seq(SpanRow), NEW acc, NEW n \in Nat, n + 1 \in DOMAIN spans,
         DrainGoes(agents, spans, acc, n), NEW next, next = Drain1(acc, spans[n + 1])
  PROVE  DrainGoes(agents, spans, next, n + 1)
<1>1. PICK s \in SpanRow : s = spans[n + 1]
  OBVIOUS
<1>2. PICK on : on = Landing(acc.agents, s)
  OBVIOUS
<1>3. next.agents = ApplySpan(acc.agents, s) /\ next.left = IF on # {} THEN acc.left ELSE Append(acc.left, s)
  BY <1>1, <1>2 DEF Drain1, LeftIn
<1>4. /\ Entries(next.agents) /\ WrittenStays(acc.agents, next.agents)
      /\ on \subseteq DOMAIN acc.agents
      /\ \A d \in DOMAIN acc.agents \ on : next.agents[d] = acc.agents[d]
      /\ \A d \in on : /\ \A f \in Fields : next.agents[d][f] \in {acc.agents[d][f], s[f]}
                       /\ \E f \in Fields : s[f] # Unset /\ next.agents[d][f] = s[f]
  <2>1. Entries(acc.agents)
    BY DEF DrainGoes
  <2>2. PICK later : later = next.agents
    OBVIOUS
  <2>3. PICK early : early = acc.agents
    OBVIOUS
  <2>4. later = ApplySpan(early, s) /\ Entries(early) /\ on = Landing(early, s)
    BY <2>1, <2>2, <2>3, <1>2, <1>3
  <2>5. /\ Entries(later) /\ WrittenStays(early, later)
        /\ Landing(early, s) \subseteq DOMAIN early
        /\ \A d \in DOMAIN early \ Landing(early, s) : later[d] = early[d]
        /\ \A d \in Landing(early, s) : /\ \A f \in Fields : later[d][f] \in {early[d][f], s[f]}
                         /\ \E f \in Fields : s[f] # Unset /\ later[d][f] = s[f]
    BY <1>1, <2>4, SpanLands
  <2> QED BY <2>2, <2>3, <2>4, <2>5
<1>5. next.left \in Seq(SpanRow) /\ \A j \in DOMAIN acc.left : j \in DOMAIN next.left /\ next.left[j] = acc.left[j]
  BY <1>3 DEF DrainGoes
<1>6. \A j \in DOMAIN next.left : j \in DOMAIN acc.left \/ next.left[j] = s
  <2>1. PICK a \in Seq(SpanRow) : a = acc.left
    BY DEF DrainGoes
  <2>2. \A j \in DOMAIN Append(a, s) : j \in DOMAIN a \/ Append(a, s)[j] = s
    BY <2>1, <1>1
  <2> QED BY <2>1, <2>2, <1>3
<1>7. on = {} => \E j \in DOMAIN next.left : next.left[j] = s
  <2>1. on = {} => Len(acc.left) + 1 \in DOMAIN next.left /\ next.left[Len(acc.left) + 1] = s
    BY <1>3 DEF DrainGoes
  <2> QED BY <2>1
<1>8. 1 .. n + 1 = (1 .. n) \cup {n + 1}
  OBVIOUS
<1>9. DOMAIN acc.agents = DOMAIN agents
  BY DEF DrainGoes, WrittenStays
<1>10. WrittenStays(agents, next.agents)
  BY <1>4 DEF DrainGoes, WrittenStays
<1>11. ASSUME NEW d \in DOMAIN agents, NEW f \in Fields
       PROVE  next.agents[d][f] = agents[d][f] \/ \E i \in 1 .. n + 1 : next.agents[d][f] = spans[i][f]
  <2>1. next.agents[d][f] = acc.agents[d][f] \/ next.agents[d][f] = s[f]
    BY <1>4, <1>9
  <2> QED BY <2>1, <1>1, <1>8 DEF DrainGoes
<1>12. \A j \in DOMAIN next.left : \E i \in 1 .. n + 1 : next.left[j] = spans[i]
  BY <1>1, <1>5, <1>6, <1>8 DEF DrainGoes
<1>13. ASSUME NEW i \in 1 .. n + 1
       PROVE  \/ \E j \in DOMAIN next.left : next.left[j] = spans[i]
              \/ \E d \in DOMAIN agents, f \in Fields : spans[i][f] # Unset /\ next.agents[d][f] = spans[i][f]
  <2>1. CASE i \in 1 .. n
    <3>1. CASE \E j \in DOMAIN acc.left : acc.left[j] = spans[i]
      BY <3>1, <1>5
    <3>2. CASE \E d \in DOMAIN agents, f \in Fields : spans[i][f] # Unset /\ acc.agents[d][f] = spans[i][f]
      BY <3>2, <1>4, <1>9 DEF WrittenStays
    <3> QED BY <2>1, <3>1, <3>2 DEF DrainGoes
  <2>2. CASE i = n + 1
    BY <2>2, <1>1, <1>4, <1>7, <1>9
  <2> QED BY <2>1, <2>2, <1>8
<1> QED BY <1>4, <1>5, <1>10, <1>11, <1>12, <1>13 DEF DrainGoes

\* What the drain of all spans comes to.
LEMMA DrainComesTo ==
  ASSUME NEW agents, Entries(agents), NEW spans \in Seq(SpanRow)
  PROVE  DrainGoes(agents, spans, Drained(agents, spans), Len(spans))
<1> DEFINE L == Len(spans)
<1>1. L \in Nat /\ DOMAIN spans = 1 .. L
  OBVIOUS
<1>2. PICK u : u = DrainedUpTo(agents, spans)
  OBVIOUS
<1>3. /\ u[0] = [agents |-> agents, left |-> <<>>]
      /\ \A n \in 1 .. L : u[n] = Drain1(u[n - 1], spans[n])
  BY <1>1, <1>2, DrainsInOrder
<1> DEFINE T == {n \in 0 .. L : DrainGoes(agents, spans, u[n], n)}
<1>4. 0 \in T
  <2>1. DrainGoes(agents, spans, u[0], 0)
    BY <1>3 DEF DrainGoes, WrittenStays
  <2> QED BY <1>1, <2>1
<1>5. ASSUME NEW k \in 0 .. L, k < L, k \in T
      PROVE  k + 1 \in T
  <2>1. k \in Nat /\ k + 1 \in 1 .. L /\ (k + 1) - 1 = k /\ k + 1 \in 0 .. L
    BY <1>1, <1>5
  <2>2. u[k + 1] = Drain1(u[k], spans[k + 1])
    BY <1>3, <2>1
  <2>3. DrainGoes(agents, spans, u[k + 1], k + 1)
    BY <1>1, <1>5, <2>1, <2>2, DrainStep
  <2> QED BY <2>1, <2>3
<1>6. L \in T
  <2> HIDE DEF T
  <2>1. 0 .. L \subseteq T
    BY <1>1, <1>4, <1>5, OneByOne
  <2>2. L \in 0 .. L
    BY <1>1
  <2> QED BY <2>1, <2>2
<1> QED BY <1>2, <1>6 DEF Drained
(* Stamping: what holds at each step                                       *)

\* No other call has the input of c.
Sole(c) == \A d \in Calls \ {c} : Input[d] # Input[c]

\* A board of run r.
BoardOf(b, r) == b \in Board /\ \A d \in DOMAIN b.agents : RunOf[d] = r

\* A ledger: open calls stand at their input, and the times of a span are of
\* calls with the input of its own.
LedgerOf(l) ==
  /\ l \in Ledger
  /\ \A k \in Inputs : l.open[k] # Unset => Input[l.open[k]] = k
  /\ \A i \in DOMAIN l.spans, f \in Fields :
       l.spans[i][f] # Unset => Input[l.spans[i][f]] = Input[l.spans[i].call]

Holds(j) == "board" \in DOMAIN j
Carries(j) == j.at \in {"save", "trim"} \/ (j.at = "board" /\ j.event = "post")

JobOf(j) ==
  /\ j.run \in Run /\ j.event \in {"pre", "post", "file"}
  /\ j.event # "file" => j.call \in Calls
  /\ j.at \in {"ledger", "board", "save", "drain", "trim", "stamp"}
  /\ j.at \in {"ledger", "board", "save"} => j.event # "file"
  /\ Holds(j) <=> j.at \in {"drain", "trim", "stamp"} \/ (j.at = "save" /\ j.event = "post")
  /\ Holds(j) => BoardOf(j.board, j.run)
  /\ Carries(j) => LedgerOf(j.ledger)

FilesTyped ==
  /\ tracker = [r \in Run |-> tracker[r]] /\ ledger = [r \in Run |-> ledger[r]]
  /\ \A r \in Run : (r \in cut /\ tracker[r] = Truncated) \/ BoardOf(tracker[r], r)
  /\ \A r \in Run : (r \in cut /\ ledger[r] = Truncated) \/ LedgerOf(ledger[r])

HooksTyped ==
  /\ hook = [h \in Hook |-> hook[h]]
  /\ \A h \in Hook : hook[h] = Resting \/ JobOf(hook[h])

CountsTyped ==
  /\ spawned \subseteq Calls /\ returned \subseteq spawned
  /\ strokes \in [made : Nat, open : Nat] /\ kills \in Nat
  /\ overlapped \subseteq Run /\ cut \subseteq Run
  /\ said \in [Run -> SUBSET Fact] /\ recorded \in [Run -> SUBSET Calls]

StampsTyped == FilesTyped /\ HooksTyped /\ CountsTyped

\* One hook at most is at work at a run that is not among the overlapped.
OneAtWork == \A r \in Run \ overlapped : \A g, h \in AtWork(r) : g = h

\* What the orchestrator said while no hook held the board stands on the board
\* and on those that hooks hold.
SaidStands ==
  /\ HandWins
  /\ \A h \in Hook : hook[h] # Resting /\ Holds(hook[h]) =>
       \A fact \in said[hook[h].run] : Stands(fact, hook[h].board)

\* A time of call c is on the board; a span of it waits in the ledger.
On(b, c)  == b # Truncated /\ \E d \in DOMAIN b.agents : c \in {b.agents[d].started, b.agents[d].ended}
Has(l, c) == l # Truncated /\ \E i \in DOMAIN l.spans : l.spans[i].call = c

StillThere(l, b, c) == Has(l, c) \/ On(b, c)

\* A recorded call is in the files l and b, and in those that hook's job j has in
\* hand and is to write.
JobFollows(l, b, j, c) ==
  /\ j.at # "stamp" => StillThere(l, b, c)
  /\ j.at \in {"drain", "stamp"} => StillThere(l, j.board, c)
  /\ Carries(j) /\ j.at # "trim" => StillThere(j.ledger, b, c)
  /\ Carries(j) /\ Holds(j) => StillThere(j.ledger, j.board, c)

Followed(r, c) ==
  /\ AtWork(r) = {} => StillThere(ledger[r], tracker[r], c)
  /\ \A h \in AtWork(r) : JobFollows(ledger[r], tracker[r], hook[h], c)

\* So it is at runs at which hooks have worked one at a time and to their ends.
RecordedFollowed ==
  /\ \A r \in Run \ (overlapped \cup cut) : \A c \in recorded[r] : Sole(c) => Followed(r, c)
  /\ \A h \in Hook : hook[h] # Resting /\ hook[h].at = "save" /\ hook[h].event = "post"
       => Has(hook[h].ledger, hook[h].call)

\* The hook handles the return of c and has not made its span yet.
Returning(j, c) == j.event = "post" /\ j.call = c /\ j.at \in {"ledger", "board"}

\* A time or a span of c is in the files of run r, in a hook's hands, or to come.
TracedIn(j, c) ==
  \/ Holds(j) /\ On(j.board, c)
  \/ Carries(j) /\ Has(j.ledger, c)
  \/ Returning(j, c)

Traced(c, r) ==
  \/ On(tracker[r], c) \/ Has(ledger[r], c)
  \/ \E h \in AtWork(r) : TracedIn(hook[h], c)

LedgerOnce(l, c) ==
  l # Truncated => \A i, k \in DOMAIN l.spans : l.spans[i].call = c /\ l.spans[k].call = c => i = k
BoardOnce(b, c) ==
  b # Truncated => \A d, e \in DOMAIN b.agents :
    c \in {b.agents[d].started, b.agents[d].ended} /\ c \in {b.agents[e].started, b.agents[e].ended} => d = e

Not2(l, b, c) == ~(Has(l, c) /\ On(b, c))

\* A span of c waits or its time is on the board, of what is in the files and
\* of what the hook has in hand; only the board that waits for the ledger to
\* be trimmed has what the ledger still has.
OnceIn(l, b, j, c) ==
  /\ Holds(j) => BoardOnce(j.board, c) /\ (j.at # "trim" => Not2(l, j.board, c))
  /\ Carries(j) => LedgerOnce(j.ledger, c) /\ Not2(j.ledger, b, c)
  /\ Carries(j) /\ Holds(j) => Not2(j.ledger, j.board, c)
  /\ Returning(j, c) => /\ ~Has(l, c) /\ ~On(b, c)
                        /\ Carries(j) => ~Has(j.ledger, c)

OnceAt(r, c) ==
  /\ BoardOnce(tracker[r], c) /\ LedgerOnce(ledger[r], c) /\ Not2(ledger[r], tracker[r], c)
  /\ \A h \in AtWork(r) : OnceIn(ledger[r], tracker[r], hook[h], c)

\* A call leaves traces at one run, once it has returned, and one trace there.
Single(c) ==
  /\ \A r \in Run : Traced(c, r) => c \in returned /\ r \in Mentions[c]
  /\ \A r, x \in Run : Traced(c, r) /\ Traced(c, x) => r = x
  /\ \A r \in Run \ overlapped : OnceAt(r, c)

StampsInv == StampsTyped /\ OneAtWork /\ SaidStands /\ RecordedFollowed /\ \A c \in Calls : Sole(c) => Single(c)

\* Of what it has in hand a hook has the board, or a ledger that it is to write.
LEMMA BoardFields ==
  ASSUME NEW b \in Board
  PROVE  /\ b.status \in {"running", "shipped"} /\ Entries(b.agents)
         /\ b # Truncated
<1>1. PICK D \in SUBSET Calls : b.agents \in [D -> Entry]
  BY DEF Board
<1>2. b # Truncated
  BY StampsValues
<1> QED BY <1>1, <1>2 DEF Entries, Board

\* A status and a set of agent entries make a tracker board.
LEMMA BoardMakes ==
  ASSUME NEW s \in {"running", "shipped"}, NEW agents, Entries(agents), NEW b, b = [status |-> s, agents |-> agents]
  PROVE  b \in Board
<1>1. agents \in [DOMAIN agents -> Entry] /\ DOMAIN agents \in SUBSET Calls
  BY DEF Entries
<1> QED BY <1>1 DEF Board

\* A hook takes a job up, goes on with it, or rests.
LEMMA HookMoves ==
  ASSUME HooksTyped, NEW h \in Hook, NEW j, j = Resting \/ JobOf(j), hook' = [hook EXCEPT ![h] = j]
  PROVE  /\ HooksTyped'
         /\ hook'[h] = j /\ \A g \in Hook \ {h} : hook'[g] = hook[g]
         /\ \A r \in Run : AtWork(r)' = IF j # Resting /\ j.run = r THEN AtWork(r) \cup {h} ELSE AtWork(r) \ {h}
<1>1. hook'[h] = j /\ \A g \in Hook \ {h} : hook'[g] = hook[g]
  BY DEF HooksTyped
<1>2. hook' = [g \in Hook |-> hook'[g]]
  BY DEF HooksTyped
<1>3. HooksTyped'
  BY <1>1, <1>2 DEF HooksTyped
<1>4. \A r \in Run : AtWork(r)' = IF j # Resting /\ j.run = r THEN AtWork(r) \cup {h} ELSE AtWork(r) \ {h}
  BY <1>1 DEF AtWork
<1> QED BY <1>1, <1>3, <1>4

\* What is at hand for the steps of a hook at work.
LEMMA AtHand ==
  ASSUME StampsTyped, NEW h \in Hook, hook[h] # Resting
  PROVE  /\ JobOf(hook[h]) /\ hook[h].run \in Run /\ h \in AtWork(hook[h].run)
         /\ \A x \in LedgerRead(h) : x = ledger[hook[h].run] \/ x = Truncated
         /\ \A x \in LedgerRead(h) : LedgerOf(Usable(x))
         /\ \A x \in BoardRead(hook[h].run) : x = tracker[hook[h].run] \/ x = Truncated
         /\ \A x \in BoardRead(hook[h].run) : x = Truncated \/ BoardOf(x, hook[h].run)
<1>1. JobOf(hook[h]) /\ hook[h].run \in Run /\ h \in AtWork(hook[h].run)
  BY DEF StampsTyped, HooksTyped, JobOf, AtWork
<1>2. PICK r \in Run : r = hook[h].run
  BY <1>1
<1>3. \A x \in LedgerRead(h) : x = ledger[r] \/ x = Truncated
  BY <1>2 DEF LedgerRead
<1>4. \A x \in BoardRead(r) : x = tracker[r] \/ x = Truncated
  BY DEF BoardRead
<1>5. LedgerOf(NoLedger)
  BY DEF LedgerOf, NoLedger, Ledger
<1>6. ledger[r] # Truncated => LedgerOf(ledger[r])
  BY DEF StampsTyped, FilesTyped
<1>7. \A x \in LedgerRead(h) : LedgerOf(Usable(x))
  BY <1>3, <1>5, <1>6 DEF Usable
<1>8. \A x \in BoardRead(r) : x = Truncated \/ BoardOf(x, r)
  BY <1>4 DEF StampsTyped, FilesTyped
<1> QED BY <1>1, <1>2, <1>3, <1>4, <1>7, <1>8

\* A subagent call is spawned or comes back: a hook sets to work or not.
LEMMA OnTaskDoes ==
  ASSUME StampsTyped, NEW h \in Hook, NEW c \in Calls, NEW event \in {"pre", "post"}, OnTask(h, c, event)
  PROVE  /\ hook[h] = Resting
         /\ \/ UNCHANGED <<hook, overlapped>>
            \/ \E j : /\ JobOf(j) /\ j.at = "ledger" /\ j.event = event /\ j.call = c
                      /\ j.run \in Mentions[c] /\ j # Resting /\ Begin(h, j)
<1>1. hook[h] = Resting
  BY DEF OnTask
<1>2. CASE UNCHANGED <<hook, overlapped>>
  BY <1>1, <1>2
<1>3. CASE \E r \in Found(c) : Begin(h, [at |-> "ledger", event |-> event, call |-> c, run |-> r])
  <2>1. PICK r \in Found(c) : Begin(h, [at |-> "ledger", event |-> event, call |-> c, run |-> r])
    BY <1>3
  <2>2. r \in Mentions[c] /\ r \in Run
    BY <2>1, StampsAssumption DEF Found
  <2>3. PICK j : j = [at |-> "ledger", event |-> event, call |-> c, run |-> r]
    OBVIOUS
  <2>4. /\ j.at = "ledger" /\ j.event = event /\ j.call = c /\ j.run = r /\ "board" \notin DOMAIN j
    BY <2>3
  <2>5. j # Resting
    BY <2>4 DEF Resting
  <2>6. JobOf(j)
    BY <2>2, <2>4 DEF JobOf, Holds, Carries
  <2> QED BY <1>1, <2>1, <2>2, <2>3, <2>4, <2>5, <2>6
<1> QED BY <1>2, <1>3 DEF OnTask

\* What a file-write hook does first: it reads a whole tracker and starts to drain.
LEMMA OnFileWriteDoes ==
  ASSUME StampsTyped, NEW h \in Hook, NEW r \in Run, OnFileWrite(h, r)
  PROVE  /\ hook[h] = Resting /\ tracker[r] # Truncated
         /\ \E j : /\ JobOf(j) /\ j.at = "drain" /\ j.event = "file" /\ j.run = r
                   /\ j.board = tracker[r] /\ Holds(j) /\ j # Resting /\ Begin(h, j)
<1>1. PICK b \in BoardRead(r) \ {Truncated} :
        Begin(h, [at |-> "drain", event |-> "file", call |-> 0, run |-> r, board |-> b])
  BY DEF OnFileWrite
<1>2. b = tracker[r] /\ tracker[r] # Truncated
  BY <1>1 DEF BoardRead
<1>3. PICK j : j = [at |-> "drain", event |-> "file", call |-> 0, run |-> r, board |-> b]
  OBVIOUS
<1>4. j.at = "drain" /\ j.event = "file" /\ j.run = r /\ j.board = b /\ "board" \in DOMAIN j
  BY <1>3
<1>5. JobOf(j) /\ j # Resting
  BY <1>2, <1>4 DEF JobOf, Holds, Carries, Resting, StampsTyped, FilesTyped
<1> QED BY <1>1, <1>2, <1>3, <1>4, <1>5 DEF OnFileWrite, Holds

\* A ledger in which a call is open.
LEMMA NotedFacts ==
  ASSUME NEW l, LedgerOf(l), NEW c \in Calls
  PROVE  LedgerOf(Noted(l, c)) /\ Noted(l, c).spans = l.spans
<1>1. PICK k \in Inputs : k = Input[c]
  BY DEF Inputs
<1>2. PICK n : n = Noted(l, c)
  OBVIOUS
<1>3. l.open \in [Inputs -> Calls \cup {Unset}] /\ l.spans \in Seq(SpanRow) /\ DOMAIN l = {"open", "spans"}
  BY DEF LedgerOf, Ledger
<1>4. n = [open |-> [l.open EXCEPT ![k] = c], spans |-> l.spans]
  BY <1>1, <1>2, <1>3 DEF Noted, LedgerOf, Ledger
<1>5. n \in Ledger /\ n.spans = l.spans /\ n.open = [l.open EXCEPT ![k] = c]
  BY <1>3, <1>4 DEF Ledger
<1>6. \A i \in Inputs : n.open[i] # Unset => Input[n.open[i]] = i
  BY <1>1, <1>3, <1>5 DEF LedgerOf
<1> QED BY <1>2, <1>5, <1>6 DEF LedgerOf

\* A ledger in which the span of a call waits.
LEMMA ReturnedFacts ==
  ASSUME NEW l, LedgerOf(l), NEW c \in Calls, NEW agents, NEW n, n = Returned(l, agents, c)
  PROVE  /\ LedgerOf(n) /\ Len(l.spans) \in Nat /\ DOMAIN l.spans = 1 .. Len(l.spans)
         /\ DOMAIN n.spans = 1 .. Len(l.spans) + 1
         /\ \A i \in DOMAIN l.spans : n.spans[i] = l.spans[i]
         /\ n.spans[Len(l.spans) + 1].call = c
<1>1. PICK k \in Inputs : k = Input[c]
  BY DEF Inputs
<1>2. l.open \in [Inputs -> Calls \cup {Unset}] /\ l.spans \in Seq(SpanRow)
  BY DEF LedgerOf, Ledger
<1>3. PICK s : s = [call |-> c, lane |-> LaneHint(agents, c), started |-> l.open[k],
                    ended |-> IF c \in AtLaunch THEN Unset ELSE c]
  OBVIOUS
<1>4. LaneHint(agents, c) \in {LaneOf[d] : d \in Calls} \cup {Unset}
  BY DEF LaneHint
<1>5. s \in SpanRow
  BY <1>2, <1>3, <1>4 DEF SpanRow
<1>6. n = [open |-> [l.open EXCEPT ![k] = Unset], spans |-> Append(l.spans, s)]
  BY <1>1, <1>3 DEF Returned
<1>7. n.open = [l.open EXCEPT ![k] = Unset] /\ n.spans = Append(l.spans, s)
  BY <1>6
<1>8. n \in Ledger
  BY <1>2, <1>5, <1>6 DEF Ledger
<1>9. \A i \in Inputs : n.open[i] # Unset => Input[n.open[i]] = i
  BY <1>1, <1>2, <1>7 DEF LedgerOf
<1>10. /\ Len(l.spans) \in Nat /\ DOMAIN l.spans = 1 .. Len(l.spans)
       /\ DOMAIN n.spans = 1 .. Len(l.spans) + 1
       /\ \A i \in DOMAIN l.spans : n.spans[i] = l.spans[i]
       /\ n.spans[Len(l.spans) + 1] = s
  BY <1>2, <1>5, <1>7
<1>11. \A f \in Fields : s[f] # Unset => Input[s[f]] = Input[s.call]
  BY <1>1, <1>2, <1>3 DEF LedgerOf, Fields
<1>12. \A i \in DOMAIN n.spans, f \in Fields : n.spans[i][f] # Unset => Input[n.spans[i][f]] = Input[n.spans[i].call]
  <2> TAKE i \in DOMAIN n.spans, f \in Fields
  <2>1. CASE i \in DOMAIN l.spans
    BY <2>1, <1>10 DEF LedgerOf
  <2>2. CASE i = Len(l.spans) + 1
    BY <2>2, <1>10, <1>11
  <2> QED BY <2>1, <2>2, <1>10
<1> QED BY <1>3, <1>8, <1>9, <1>10, <1>12 DEF LedgerOf

\* What reading the ledger does: the hook carries a ledger on to saving it or to the board.
LEMMA ReadLedgerDoes ==
  ASSUME StampsTyped, NEW h \in Hook, ReadLedger(h), NEW job, job = hook[h]
  PROVE  \E l, j :
           /\ l \in LedgerRead(h)
           /\ job.at = "ledger" /\ job # Resting
           /\ JobOf(j) /\ Proceed(h, j) /\ j # Resting
           /\ j.event = job.event /\ j.run = job.run /\ j.call = job.call
           /\ Carries(j) /\ ~Holds(j)
           /\ j.at = (IF job.event = "pre" THEN "save" ELSE "board")
           /\ LedgerOf(Usable(l)) /\ j.ledger.spans = Usable(l).spans
<1>1. job.at = "ledger" /\ job # Resting
  BY DEF ReadLedger, HookAt, Resting
<1>2. /\ JobOf(job) /\ \A x \in LedgerRead(h) : LedgerOf(Usable(x))
  BY <1>1, AtHand
<1>3. PICK l \in LedgerRead(h) :
        Proceed(h, IF job.event = "pre"
               THEN [at |-> "save", event |-> "pre", call |-> job.call, run |-> job.run,
                     ledger |-> Noted(Usable(l), job.call)]
               ELSE [at |-> "board", event |-> "post", call |-> job.call, run |-> job.run,
                     ledger |-> Usable(l)])
  BY DEF ReadLedger
<1>4. job.call \in Calls /\ job.event \in {"pre", "post"} /\ job.run \in Run
  BY <1>1, <1>2 DEF JobOf
<1>5. LedgerOf(Usable(l)) /\ LedgerOf(Noted(Usable(l), job.call)) /\ Noted(Usable(l), job.call).spans = Usable(l).spans
  BY <1>2, <1>4, NotedFacts
<1>6. PICK n : n = IF job.event = "pre" THEN Noted(Usable(l), job.call) ELSE Usable(l)
  OBVIOUS
<1>7. LedgerOf(n) /\ n.spans = Usable(l).spans
  BY <1>5, <1>6
<1>8. PICK j : j = IF job.event = "pre"
               THEN [at |-> "save", event |-> "pre", call |-> job.call, run |-> job.run,
                     ledger |-> Noted(Usable(l), job.call)]
               ELSE [at |-> "board", event |-> "post", call |-> job.call, run |-> job.run,
                     ledger |-> Usable(l)]
  OBVIOUS
<1>9. /\ j.event = job.event /\ j.run = job.run /\ j.call = job.call /\ j.ledger = n
      /\ j.at = (IF job.event = "pre" THEN "save" ELSE "board") /\ "board" \notin DOMAIN j
  BY <1>4, <1>6, <1>8
<1>10. JobOf(j) /\ j # Resting /\ Carries(j) /\ ~Holds(j)
  BY <1>4, <1>7, <1>9 DEF JobOf, Holds, Carries, Resting
<1> QED BY <1>1, <1>3, <1>5, <1>7, <1>8, <1>9, <1>10

\* What reading the board does: the hook gives up on a truncated one and else holds it.
LEMMA ReadBoardDoes ==
  ASSUME StampsTyped, NEW h \in Hook, ReadBoard(h), NEW job, job = hook[h]
  PROVE  \E b, j :
           /\ b \in BoardRead(job.run)
           /\ job.at = "board" /\ job # Resting /\ ~Holds(job) /\ Proceed(h, j)
           /\ \/ b = Truncated /\ j = Resting
              \/ /\ b # Truncated /\ j # Resting /\ JobOf(j)
                 /\ j.event = job.event /\ j.run = job.run /\ j.call = job.call
                 /\ Holds(j) /\ j.board = b
                 /\ job.event = "post" => /\ Carries(job) /\ Carries(j) /\ j.at = "save"
                                          /\ j.ledger = Returned(job.ledger, b.agents, job.call)
                 /\ job.event # "post" => j.at = "drain"
<1>1. job.at = "board" /\ job # Resting
  BY DEF ReadBoard, HookAt, Resting
<1>2. JobOf(job) /\ \A x \in BoardRead(job.run) : x = Truncated \/ BoardOf(x, job.run)
  BY <1>1, AtHand
<1>3. PICK b \in BoardRead(job.run) :
        Proceed(h, IF b = Truncated THEN Resting
             ELSE IF job.event = "post"
               THEN [at |-> "save", event |-> "post", call |-> job.call, run |-> job.run, board |-> b,
                     ledger |-> Returned(job.ledger, b.agents, job.call)]
               ELSE [at |-> "drain", event |-> "pre", call |-> job.call, run |-> job.run, board |-> b])
  BY DEF ReadBoard
<1>4. job.call \in Calls /\ job.event \in {"pre", "post"} /\ job.run \in Run /\ ~Holds(job)
  BY <1>1, <1>2 DEF JobOf
<1>5. CASE b = Truncated
  BY <1>1, <1>3, <1>4, <1>5
<1>6. CASE b # Truncated /\ job.event = "post"
  <2>1. Carries(job) /\ LedgerOf(job.ledger)
    BY <1>1, <1>2, <1>6 DEF Carries, JobOf
  <2>2. PICK n : n = Returned(job.ledger, b.agents, job.call)
    OBVIOUS
  <2>3. LedgerOf(n)
    BY <1>4, <2>1, <2>2, ReturnedFacts
  <2>4. PICK j : j = [at |-> "save", event |-> "post", call |-> job.call, run |-> job.run, board |-> b,
                      ledger |-> n]
    OBVIOUS
  <2>5. /\ j.event = job.event /\ j.run = job.run /\ j.call = job.call /\ j.ledger = n
        /\ j.at = "save" /\ "board" \in DOMAIN j /\ j.board = b
    BY <1>6, <2>4
  <2>6. JobOf(j) /\ j # Resting /\ Carries(j) /\ Holds(j)
    BY <1>2, <1>4, <1>6, <2>3, <2>5 DEF JobOf, Holds, Carries, Resting
  <2> QED BY <1>1, <1>3, <1>4, <1>6, <2>1, <2>2, <2>4, <2>5, <2>6
<1>7. CASE b # Truncated /\ job.event # "post"
  <2>1. PICK j : j = [at |-> "drain", event |-> "pre", call |-> job.call, run |-> job.run, board |-> b]
    OBVIOUS
  <2>2. /\ j.event = job.event /\ j.run = job.run /\ j.call = job.call
        /\ j.at = "drain" /\ "board" \in DOMAIN j /\ j.board = b
    BY <1>4, <1>7, <2>1
  <2>3. JobOf(j) /\ j # Resting /\ Holds(j)
    BY <1>2, <1>4, <1>7, <2>2 DEF JobOf, Holds, Carries, Resting
  <2> QED BY <1>1, <1>3, <1>4, <1>7, <2>1, <2>2, <2>3
<1> QED BY <1>5, <1>6, <1>7

\* What saving the ledger does: it writes the carried ledger and no tracker.
LEMMA SaveLedgerDoes ==
  ASSUME StampsTyped, NEW h \in Hook, SaveLedger(h), NEW job, job = hook[h]
  PROVE  \E j :
           /\ job.at = "save" /\ job # Resting /\ Carries(job) /\ LedgerOf(job.ledger)
           /\ job.call \in Calls
           /\ JobOf(j) /\ Proceed(h, j) /\ j # Resting /\ ~Carries(j)
           /\ j.event = job.event /\ j.run = job.run /\ j.call = job.call
           /\ ledger' = [ledger EXCEPT ![job.run] = job.ledger]
           /\ \/ job.event = "pre" /\ j.at = "board" /\ ~Holds(j) /\ recorded' = recorded
              \/ /\ job.event = "post" /\ j.at = "drain" /\ Holds(job) /\ Holds(j) /\ j.board = job.board
                 /\ recorded' = [recorded EXCEPT ![job.run] = @ \cup {job.call}]
<1>1. job.at = "save" /\ job # Resting
  BY DEF SaveLedger, HookAt, Resting
<1>2. JobOf(job)
  BY <1>1, AtHand
<1>3. job.call \in Calls /\ job.event \in {"pre", "post"} /\ job.run \in Run /\ Carries(job) /\ LedgerOf(job.ledger)
  BY <1>1, <1>2 DEF JobOf, Carries
<1>4. CASE job.event = "pre"
  <2>1. PICK j : j = [at |-> "board", event |-> "pre", call |-> job.call, run |-> job.run]
    OBVIOUS
  <2>2. /\ j.event = "pre" /\ j.run = job.run /\ j.call = job.call
        /\ j.at = "board" /\ "board" \notin DOMAIN j
    BY <2>1
  <2>3. JobOf(j) /\ j # Resting /\ ~Holds(j) /\ ~Carries(j)
    BY <1>3, <2>2 DEF JobOf, Holds, Carries, Resting
  <2>4. Proceed(h, j) /\ recorded' = recorded /\ ledger' = [ledger EXCEPT ![job.run] = job.ledger]
    BY <1>4, <2>1 DEF SaveLedger
  <2> QED BY <1>1, <1>3, <1>4, <2>2, <2>3, <2>4
<1>5. CASE job.event = "post"
  <2>1. Holds(job) /\ BoardOf(job.board, job.run)
    BY <1>1, <1>2, <1>5 DEF JobOf
  <2>2. PICK j : j = [at |-> "drain", event |-> "post", call |-> job.call, run |-> job.run, board |-> job.board]
    OBVIOUS
  <2>3. /\ j.event = "post" /\ j.run = job.run /\ j.call = job.call
        /\ j.at = "drain" /\ "board" \in DOMAIN j /\ j.board = job.board
    BY <2>2
  <2>4. JobOf(j) /\ j # Resting /\ Holds(j) /\ ~Carries(j)
    BY <1>3, <2>1, <2>3 DEF JobOf, Holds, Carries, Resting
  <2>5. Proceed(h, j) /\ recorded' = [recorded EXCEPT ![job.run] = @ \cup {job.call}]
        /\ ledger' = [ledger EXCEPT ![job.run] = job.ledger]
    BY <1>5, <2>2 DEF SaveLedger
  <2> QED BY <1>1, <1>3, <1>5, <2>1, <2>3, <2>4, <2>5
<1> QED BY <1>3, <1>4, <1>5

\* What trimming the ledger does: it writes the carried ledger and goes on to stamp.
LEMMA TrimLedgerDoes ==
  ASSUME StampsTyped, NEW h \in Hook, TrimLedger(h), NEW job, job = hook[h]
  PROVE  \E j :
           /\ job.at = "trim" /\ job # Resting /\ Carries(job) /\ Holds(job) /\ LedgerOf(job.ledger)
           /\ JobOf(j) /\ Proceed(h, j) /\ j # Resting /\ ~Carries(j)
           /\ j.at = "stamp" /\ j.event = job.event /\ j.run = job.run
           /\ Holds(j) /\ j.board = job.board
           /\ ledger' = [ledger EXCEPT ![job.run] = job.ledger]
<1>1. job.at = "trim" /\ job # Resting
  BY DEF TrimLedger, HookAt, Resting
<1>2. JobOf(job)
  BY <1>1, AtHand
<1>3. /\ job.run \in Run /\ Carries(job) /\ LedgerOf(job.ledger) /\ Holds(job) /\ BoardOf(job.board, job.run)
      /\ job.event \in {"pre", "post", "file"} /\ (job.event # "file" => job.call \in Calls)
  BY <1>1, <1>2 DEF JobOf, Carries
<1>4. PICK j : j = [at |-> "stamp", event |-> job.event, call |-> job.call, run |-> job.run, board |-> job.board]
  OBVIOUS
<1>5. /\ j.event = job.event /\ j.run = job.run /\ j.call = job.call
      /\ j.at = "stamp" /\ "board" \in DOMAIN j /\ j.board = job.board
  BY <1>4
<1>6. JobOf(j) /\ j # Resting /\ Holds(j) /\ ~Carries(j)
  BY <1>3, <1>5 DEF JobOf, Holds, Carries, Resting
<1>7. Proceed(h, j) /\ ledger' = [ledger EXCEPT ![job.run] = job.ledger]
  BY <1>4 DEF TrimLedger
<1> QED BY <1>1, <1>3, <1>5, <1>6, <1>7

\* What a hook makes of the spans it has read.
Drains(h, job, l, j, d) ==
  /\ job.at = "drain" /\ job # Resting /\ Holds(job) /\ BoardOf(job.board, job.run)
  /\ LedgerOf(Usable(l)) /\ DrainGoes(job.board.agents, Usable(l).spans, d, Len(Usable(l).spans))
  /\ d = Drained(job.board.agents, Usable(l).spans)
  /\ Proceed(h, j)
  /\ \/ j = Resting
     \/ /\ JobOf(j) /\ j # Resting /\ j.event = job.event /\ j.run = job.run /\ Holds(j)
        /\ \/ j.at = "stamp" /\ ~Carries(j) /\ j.board = job.board
           \/ /\ j.at = "trim" /\ l # Truncated /\ Carries(j)
              /\ j.board.status = job.board.status /\ j.board.agents = d.agents
              /\ j.ledger.spans = d.left

\* What reading the spans does: the hook drains the ledger it reads into the board it holds.
LEMMA ReadSpansDoes ==
  ASSUME StampsTyped, NEW h \in Hook, ReadSpans(h), NEW job, job = hook[h]
  PROVE  \E l, j, d : l \in LedgerRead(h) /\ Drains(h, job, l, j, d)
<1>1. job.at = "drain" /\ job # Resting
  BY DEF ReadSpans, HookAt, Resting
<1>2. JobOf(job) /\ \A x \in LedgerRead(h) : LedgerOf(Usable(x))
  BY <1>1, AtHand
<1>3. /\ job.run \in Run /\ Holds(job) /\ BoardOf(job.board, job.run)
      /\ job.event \in {"pre", "post", "file"} /\ (job.event # "file" => job.call \in Calls)
  BY <1>1, <1>2 DEF JobOf
<1>4. PICK l \in LedgerRead(h) :
       LET spans == Usable(l).spans
           d == Drained(job.board.agents, spans)
       IN
       IF Len(d.left) # Len(spans)
         THEN Proceed(h, [at |-> "trim", event |-> job.event, call |-> job.call, run |-> job.run,
                     board |-> [job.board EXCEPT !.agents = d.agents],
                     ledger |-> [l EXCEPT !.spans = d.left]])
         ELSE \/ Proceed(h, Resting)
              \/ /\ job.event = "file"
                 /\ Proceed(h, [at |-> "stamp", event |-> "file", call |-> job.call, run |-> job.run,
                               board |-> job.board])
  BY DEF ReadSpans
<1>5. PICK spans : spans = Usable(l).spans
  OBVIOUS
<1>6. PICK d : d = Drained(job.board.agents, spans)
  OBVIOUS
<1>7. LedgerOf(Usable(l)) /\ spans \in Seq(SpanRow)
  BY <1>2, <1>5 DEF LedgerOf, Ledger
<1>8. PICK b : b = job.board
  OBVIOUS
<1>9. Entries(b.agents) /\ b.status \in {"running", "shipped"}
  BY <1>3, <1>8, BoardFields DEF BoardOf
<1>10. DrainGoes(b.agents, spans, d, Len(spans))
  BY <1>6, <1>7, <1>8, <1>9, DrainComesTo
<1>11. CASE Proceed(h, Resting)
  BY <1>1, <1>3, <1>5, <1>6, <1>7, <1>8, <1>10, <1>11 DEF Drains
<1>12. CASE job.event = "file" /\ Proceed(h, [at |-> "stamp", event |-> "file", call |-> job.call, run |-> job.run, board |-> job.board])
  <2>1. PICK j : j = [at |-> "stamp", event |-> "file", call |-> job.call, run |-> job.run, board |-> job.board]
    OBVIOUS
  <2>2. /\ j.event = job.event /\ j.run = job.run /\ j.call = job.call
        /\ j.at = "stamp" /\ "board" \in DOMAIN j /\ j.board = job.board
    BY <1>12, <2>1
  <2>3. JobOf(j) /\ j # Resting /\ Holds(j) /\ ~Carries(j)
    BY <1>3, <2>2 DEF JobOf, Holds, Carries, Resting
  <2> QED BY <1>1, <1>3, <1>5, <1>6, <1>7, <1>8, <1>10, <1>12, <2>1, <2>2, <2>3 DEF Drains
<1>13. CASE /\ Len(d.left) # Len(spans)
            /\ Proceed(h, [at |-> "trim", event |-> job.event, call |-> job.call, run |-> job.run,
                     board |-> [job.board EXCEPT !.agents = d.agents],
                     ledger |-> [l EXCEPT !.spans = d.left]])
  <2>1. Usable(l) = l /\ l # Truncated
    <3>1. SUFFICES ASSUME Usable(l) = NoLedger PROVE FALSE
      BY DEF Usable, NoLedger, LedgerOf, Ledger, Usable
    <3>2. Len(spans) = 0
      BY <1>5, <3>1 DEF NoLedger
    <3>3. d.left \in Seq(SpanRow) /\ \A i \in DOMAIN d.left : \E k \in 1 .. Len(spans) : d.left[i] = spans[k]
      BY <1>10 DEF DrainGoes
    <3>4. PICK rest \in Seq(SpanRow) : rest = d.left
      BY <3>3
    <3>5. DOMAIN rest = {}
      BY <3>2, <3>3, <3>4
    <3>6. Len(rest) = 0
      <4>1. Len(rest) \in Nat /\ DOMAIN rest = 1 .. Len(rest)
        BY <3>4
      <4>2. Len(rest) # 0 => 1 \in DOMAIN rest
        BY <4>1
      <4> QED BY <3>5, <4>2
    <3> QED BY <1>13, <3>2, <3>4, <3>6
  <2>2. PICK n : n = [l EXCEPT !.spans = d.left]
    OBVIOUS
  <2>3. l \in Ledger /\ LedgerOf(l)
    BY <1>7, <2>1 DEF LedgerOf
  <2>4. n = [open |-> l.open, spans |-> d.left]
    BY <2>2, <2>3 DEF Ledger
  <2>5. LedgerOf(n) /\ n.spans = d.left
    <3>1. d.left \in Seq(SpanRow) /\ \A i \in DOMAIN d.left : \E k \in DOMAIN spans : d.left[i] = spans[k]
      BY <1>7, <1>10 DEF DrainGoes
    <3>2. n \in Ledger /\ n.open = l.open /\ n.spans = d.left
      BY <2>3, <2>4, <3>1 DEF Ledger
    <3>3. \A k \in DOMAIN spans, f \in Fields : spans[k][f] # Unset => Input[spans[k][f]] = Input[spans[k].call]
      BY <1>5, <1>7 DEF LedgerOf
    <3>4. \A i \in DOMAIN n.spans, f \in Fields : n.spans[i][f] # Unset => Input[n.spans[i][f]] = Input[n.spans[i].call]
      BY <3>1, <3>2, <3>3
    <3> QED BY <2>3, <3>2, <3>4 DEF LedgerOf
  <2>6. PICK m : m = [b EXCEPT !.agents = d.agents]
    OBVIOUS
  <2>7. m = [status |-> b.status, agents |-> d.agents]
    BY <1>3, <1>8, <2>6 DEF BoardOf, Board
  <2>8. Entries(d.agents) /\ DOMAIN d.agents = DOMAIN b.agents
    BY <1>10 DEF DrainGoes, WrittenStays
  <2>9. m \in Board
    BY <1>9, <2>7, <2>8, BoardMakes
  <2>10. BoardOf(m, job.run) /\ m.status = b.status /\ m.agents = d.agents
    BY <1>3, <1>8, <2>7, <2>8, <2>9 DEF BoardOf
  <2>11. PICK j : j = [at |-> "trim", event |-> job.event, call |-> job.call, run |-> job.run, board |-> m, ledger |-> n]
    OBVIOUS
  <2>12. /\ j.event = job.event /\ j.run = job.run /\ j.call = job.call
         /\ j.at = "trim" /\ "board" \in DOMAIN j /\ j.board = m /\ j.ledger = n
    BY <2>11
  <2>13. JobOf(j) /\ j # Resting /\ Holds(j) /\ Carries(j)
    BY <1>3, <2>5, <2>10, <2>12 DEF JobOf, Holds, Carries, Resting
  <2>14. Proceed(h, j)
    BY <1>8, <1>13, <2>2, <2>6, <2>11
  <2> QED BY <1>1, <1>3, <1>5, <1>6, <1>7, <1>8, <1>10, <2>1, <2>5, <2>10, <2>12, <2>13, <2>14 DEF Drains
<1> QED
  <2>1. \/ Len(d.left) # Len(spans) /\ Proceed(h, [at |-> "trim", event |-> job.event, call |-> job.call, run |-> job.run,
                     board |-> [job.board EXCEPT !.agents = d.agents],
                     ledger |-> [l EXCEPT !.spans = d.left]])
        \/ Proceed(h, Resting)
        \/ job.event = "file" /\ Proceed(h, [at |-> "stamp", event |-> "file", call |-> job.call, run |-> job.run, board |-> job.board])
    BY <1>4, <1>5, <1>6
  <2> QED BY <1>11, <1>12, <1>13, <2>1

\* What stamping does: it writes the held board over the tracker and rests.
LEMMA WriteBoardDoes ==
  ASSUME StampsTyped, NEW h \in Hook, WriteBoard(h), NEW job, job = hook[h]
  PROVE  /\ job.at = "stamp" /\ job # Resting /\ Holds(job) /\ BoardOf(job.board, job.run) /\ ~Carries(job)
         /\ Proceed(h, Resting) /\ tracker' = [tracker EXCEPT ![job.run] = job.board]
<1>1. job.at = "stamp" /\ job # Resting
  BY DEF WriteBoard, HookAt, Resting
<1>2. JobOf(job)
  BY <1>1, AtHand
<1> QED BY <1>1, <1>2 DEF JobOf, WriteBoard, Carries

\* What killing a hook does: it rests, and the file it was writing may be left truncated.
LEMMA KillDoes ==
  ASSUME StampsTyped, NEW h \in Hook, Kill(h), NEW r, r = hook[h].run
  PROVE  /\ r \in Run /\ hook[h] # Resting
         /\ Proceed(h, Resting) /\ cut' = cut \cup {r}
         /\ tracker' = [tracker EXCEPT ![r] = tracker[r]] \/ tracker' = [tracker EXCEPT ![r] = Truncated]
         /\ ledger' = [ledger EXCEPT ![r] = ledger[r]] \/ ledger' = [ledger EXCEPT ![r] = Truncated]
<1>1. hook[h] # Resting /\ r \in Run
  BY AtHand DEF Kill
<1>2. tracker = [tracker EXCEPT ![r] = tracker[r]] /\ ledger = [ledger EXCEPT ![r] = ledger[r]]
  BY <1>1 DEF StampsTyped, FilesTyped
<1>3. tracker' = tracker \/ tracker' = [tracker EXCEPT ![r] = Truncated]
  BY DEF Kill
<1>4. ledger' = ledger \/ ledger' = [ledger EXCEPT ![r] = Truncated]
  BY DEF Kill
<1> QED BY <1>1, <1>2, <1>3, <1>4 DEF Kill

\* Nothing that was written on board b is lost on n.
Follows(b, n) ==
  /\ b.status = "shipped" => n.status = "shipped"
  /\ DOMAIN b.agents \subseteq DOMAIN n.agents
  /\ \A d \in DOMAIN b.agents, f \in Fields : b.agents[d][f] # Unset => n.agents[d][f] = b.agents[d][f]

\* The times of calls on n were on b.
AddsNoTime(b, n) ==
  \A d \in DOMAIN n.agents, f \in Fields :
    n.agents[d][f] \in Calls => d \in DOMAIN b.agents /\ n.agents[d][f] = b.agents[d][f]

\* A fact that stands on a board stands on any board that follows it.
LEMMA StandsOn ==
  ASSUME NEW fact \in Fact, NEW b, NEW n, Follows(b, n), Stands(fact, b)
  PROVE  Stands(fact, n)
<1>1. CASE fact = <<"shipped">>
  BY <1>1 DEF Stands, Follows
<1>2. CASE fact # <<"shipped">>
  <2>1. PICK c \in Calls, w \in {"entry", "started", "ended"} : fact = <<c, w>>
    BY <1>2 DEF Fact
  <2>2. fact[1] = c /\ fact[2] = w
    BY <2>1
  <2>3. CASE w = "entry"
    BY <1>2, <2>2, <2>3 DEF Stands, Follows
  <2>4. CASE w # "entry"
    <3>1. w \in Fields /\ ByHand # Unset
      BY <2>4, StampsValues DEF Fields
    <3>2. c \in DOMAIN b.agents /\ b.agents[c][w] = ByHand
      BY <1>2, <2>2, <2>4 DEF Stands
    <3>3. c \in DOMAIN n.agents /\ n.agents[c][w] = ByHand
      BY <3>1, <3>2 DEF Follows
    <3> QED BY <1>2, <2>2, <2>4, <3>3 DEF Stands
  <2> QED BY <2>3, <2>4
<1> QED BY <1>1, <1>2

\* A board that follows another, adding no times, tells the same of every call.
LEMMA SameTimes ==
  ASSUME NEW b, NEW n, b # Truncated, n # Truncated, Follows(b, n), NEW c \in Calls
  PROVE  /\ On(b, c) => On(n, c)
         /\ AddsNoTime(b, n) => (On(n, c) => On(b, c)) /\ (BoardOnce(b, c) => BoardOnce(n, c))
<1>0. c # Unset
  BY StampsValues
<1>1. On(b, c) => On(n, c)
  <2> SUFFICES ASSUME On(b, c) PROVE On(n, c)
    OBVIOUS
  <2>1. PICK d \in DOMAIN b.agents, f \in Fields : b.agents[d][f] = c
    BY DEF On, Fields
  <2>2. d \in DOMAIN n.agents /\ n.agents[d][f] = c
    BY <1>0, <2>1 DEF Follows
  <2> QED BY <2>1, <2>2 DEF On, Fields
<1>2. ASSUME AddsNoTime(b, n), NEW d \in DOMAIN n.agents, c \in {n.agents[d].started, n.agents[d].ended}
      PROVE  d \in DOMAIN b.agents /\ c \in {b.agents[d].started, b.agents[d].ended}
  BY <1>2 DEF AddsNoTime, Fields
<1>3. AddsNoTime(b, n) => (On(n, c) => On(b, c))
  BY <1>2 DEF On
<1>4. AddsNoTime(b, n) => (BoardOnce(b, c) => BoardOnce(n, c))
  BY <1>2 DEF BoardOnce
<1> QED BY <1>1, <1>3, <1>4

\* A stroke of the orchestrator on the board of run r, with what it says.
Stroke(r, b, fact) ==
  /\ tracker[r] # Truncated /\ BoardOf(b, r) /\ fact \in Fact
  /\ Follows(tracker[r], b) /\ AddsNoTime(tracker[r], b) /\ Stands(fact, b)
  /\ Orchestrate(r, b, fact)

\* Appending an agent is one stroke on one tracker.
LEMMA AppendDoes ==
  ASSUME StampsTyped, NEW c \in Calls, AppendAgent(c)
  PROVE  \E r, b, fact : r \in Run /\ Stroke(r, b, fact)
<1>1. PICK r \in Run : r = RunOf[c]
  BY StampsAssumption
<1>2. PICK old : old = tracker[r]
  OBVIOUS
<1>3. old # Truncated /\ BoardOf(old, r)
  BY <1>1, <1>2 DEF AppendAgent, StampsTyped, FilesTyped
<1>4. Entries(old.agents) /\ old.status \in {"running", "shipped"}
  BY <1>3, BoardFields DEF BoardOf
<1>5. PICK D : D = DOMAIN old.agents
  OBVIOUS
<1>6. PICK agents : agents = [d \in D \cup {c} |-> IF d = c THEN Blank ELSE old.agents[d]]
  OBVIOUS
<1>7. PICK b : b = [old EXCEPT !.agents = agents]
  OBVIOUS
<1>8. b = [status |-> old.status, agents |-> agents]
  BY <1>3, <1>7 DEF BoardOf, Board
<1>9. c \notin D
  BY <1>1, <1>2, <1>5 DEF AppendAgent
<1>10. DOMAIN agents = D \cup {c} /\ agents[c] = Blank /\ \A d \in D : agents[d] = old.agents[d]
  BY <1>6, <1>9
<1>11. Blank \in Entry
  BY DEF Blank, Entry, Value
<1>12. Entries(agents)
  <2>1. agents = [d \in DOMAIN agents |-> agents[d]]
    BY <1>6
  <2>2. D \subseteq Calls /\ \A d \in D : old.agents[d] \in Entry
    BY <1>4, <1>5 DEF Entries
  <2> QED BY <2>1, <2>2, <1>10, <1>11 DEF Entries
<1>13. b.status = old.status /\ b.agents = agents /\ b \in Board
  BY <1>4, <1>8, <1>12, BoardMakes
<1>14. BoardOf(b, r)
  BY <1>1, <1>3, <1>5, <1>10, <1>13 DEF BoardOf
<1>15. Follows(old, b)
  BY <1>5, <1>10, <1>13 DEF Follows
<1>16. AddsNoTime(old, b)
  <2>1. \A f \in Fields : agents[c][f] \notin Calls
    BY <1>10, StampsValues DEF Fields, Blank
  <2> QED BY <2>1, <1>5, <1>10, <1>13 DEF AddsNoTime
<1>17. PICK fact : fact = <<c, "entry">>
  OBVIOUS
<1>18. fact \in Fact /\ Stands(fact, b)
  BY <1>10, <1>13, <1>17 DEF Fact, Stands
<1>19. Orchestrate(r, b, fact)
  BY <1>1, <1>2, <1>5, <1>6, <1>7, <1>17 DEF AppendAgent
<1> QED BY <1>2, <1>3, <1>14, <1>15, <1>16, <1>18, <1>19 DEF Stroke

\* Stamping by hand is one stroke on one tracker.
LEMMA StampDoes ==
  ASSUME StampsTyped, NEW c \in Calls, NEW f \in Fields, StampByHand(c, f)
  PROVE  \E r, b, fact : r \in Run /\ Stroke(r, b, fact)
<1>1. PICK r \in Run : r = RunOf[c]
  BY StampsAssumption
<1>2. PICK old : old = tracker[r]
  OBVIOUS
<1>3. old # Truncated /\ BoardOf(old, r)
  BY <1>1, <1>2 DEF StampByHand, StampsTyped, FilesTyped
<1>4. Entries(old.agents) /\ old.status \in {"running", "shipped"}
  BY <1>3, BoardFields DEF BoardOf
<1>5. c \in DOMAIN old.agents /\ old.agents[c][f] = Unset
  BY <1>1, <1>2 DEF StampByHand
<1>6. PICK e : e = [old.agents[c] EXCEPT ![f] = ByHand]
  OBVIOUS
<1>7. old.agents[c] \in Entry
  BY <1>4, <1>5 DEF Entries
<1>8. e \in Entry /\ e[f] = ByHand /\ \A g \in Fields \ {f} : e[g] = old.agents[c][g]
  BY <1>6, <1>7 DEF Entry, Fields, Value
<1>9. PICK agents : agents = [old.agents EXCEPT ![c] = e]
  OBVIOUS
<1>10. /\ DOMAIN agents = DOMAIN old.agents /\ agents[c] = e
       /\ \A d \in DOMAIN old.agents : d # c => agents[d] = old.agents[d]
       /\ agents = [d \in DOMAIN agents |-> agents[d]]
  BY <1>5, <1>9
<1>11. Entries(agents)
  BY <1>4, <1>8, <1>10 DEF Entries
<1>12. PICK b : b = [old EXCEPT !.agents = agents]
  OBVIOUS
<1>13. b = [status |-> old.status, agents |-> agents]
  BY <1>3, <1>12 DEF BoardOf, Board
<1>14. b.status = old.status /\ b.agents = agents /\ b \in Board
  BY <1>4, <1>11, <1>13, BoardMakes
<1>15. BoardOf(b, r)
  BY <1>3, <1>10, <1>14 DEF BoardOf
<1>16. Follows(old, b)
  BY <1>5, <1>8, <1>10, <1>14 DEF Follows
<1>17. AddsNoTime(old, b)
  BY <1>8, <1>10, <1>14, StampsValues DEF AddsNoTime
<1>18. PICK fact : fact = <<c, f>>
  OBVIOUS
<1>19. fact \in Fact /\ Stands(fact, b)
  <2>1. fact[1] = c /\ fact[2] = f /\ f \in {"started", "ended"} /\ f # "entry"
    BY <1>18 DEF Fields
  <2>2. fact \in Fact
    BY <1>18, <2>1 DEF Fact
  <2>3. c \in DOMAIN b.agents /\ b.agents[c][f] = ByHand
    BY <1>5, <1>8, <1>10, <1>14
  <2>4. fact # <<"shipped">>
    BY <1>18
  <2> QED BY <2>1, <2>2, <2>3, <2>4 DEF Stands
<1>20. Orchestrate(r, b, fact)
  <2>1. Orchestrate(r, [old EXCEPT !.agents[c][f] = ByHand], <<c, f>>)
    BY <1>1, <1>2 DEF StampByHand
  <2>2. [old EXCEPT !.agents[c][f] = ByHand] = b
    BY <1>6, <1>9, <1>12
  <2> QED BY <2>1, <2>2, <1>18
<1> QED BY <1>2, <1>3, <1>15, <1>16, <1>17, <1>19, <1>20 DEF Stroke

\* Shipping a run is one stroke on its tracker.
LEMMA ShipDoes ==
  ASSUME StampsTyped, NEW r \in Run, ShipRun(r)
  PROVE  \E b, fact : Stroke(r, b, fact)
<1>1. PICK old : old = tracker[r]
  OBVIOUS
<1>2. old # Truncated /\ BoardOf(old, r)
  BY <1>1 DEF ShipRun, StampsTyped, FilesTyped
<1>3. Entries(old.agents)
  BY <1>2, BoardFields DEF BoardOf
<1>4. PICK b : b = [old EXCEPT !.status = "shipped"]
  OBVIOUS
<1>5. b = [status |-> "shipped", agents |-> old.agents]
  BY <1>2, <1>4 DEF BoardOf, Board
<1>6. b.status = "shipped" /\ b.agents = old.agents /\ b \in Board
  BY <1>3, <1>5, BoardMakes
<1>7. BoardOf(b, r) /\ Follows(old, b) /\ AddsNoTime(old, b)
  BY <1>2, <1>6 DEF BoardOf, Follows, AddsNoTime
<1>8. PICK fact : fact = <<"shipped">>
  OBVIOUS
<1>9. fact \in Fact /\ Stands(fact, b)
  <2>1. fact \in Fact
    BY <1>8, Zenon DEF Fact
  <2>2. Stands(<<"shipped">>, b)
    BY <1>6 DEF Stands
  <2> QED BY <1>8, <2>1, <2>2
<1>10. Orchestrate(r, b, fact)
  BY <1>1, <1>4, <1>8 DEF ShipRun
<1> QED BY <1>1, <1>2, <1>7, <1>9, <1>10 DEF Stroke

\* A job in hand is on some run.
LEMMA JobIsWork ==
  ASSUME NEW j, JobOf(j)
  PROVE  j # Resting /\ j.run \in Run
BY DEF JobOf, Resting

\* A hook goes on with its run, or is done with it.
LEMMA ProceedKeeps ==
  ASSUME HooksTyped, OneAtWork, NEW h \in Hook, hook[h] # Resting, NEW j, Proceed(h, j),
         j = Resting \/ (JobOf(j) /\ j.run = hook[h].run)
  PROVE  /\ HooksTyped' /\ OneAtWork' /\ overlapped' = overlapped
         /\ hook'[h] = j /\ \A g \in Hook \ {h} : hook'[g] = hook[g]
         /\ \A r \in Run : AtWork(r)' = IF j = Resting /\ r = hook[h].run THEN AtWork(r) \ {h} ELSE AtWork(r)
<1>1. /\ HooksTyped'
      /\ hook'[h] = j /\ \A g \in Hook \ {h} : hook'[g] = hook[g]
      /\ \A r \in Run : AtWork(r)' = IF j # Resting /\ j.run = r THEN AtWork(r) \cup {h} ELSE AtWork(r) \ {h}
  BY HookMoves DEF Proceed
<1>2. j # Resting => j.run = hook[h].run
  OBVIOUS
<1>3. \A r \in Run : h \in AtWork(r) <=> hook[h].run = r
  BY DEF AtWork
<1>4. \A r \in Run : AtWork(r)' = IF j = Resting /\ r = hook[h].run THEN AtWork(r) \ {h} ELSE AtWork(r)
  <2> TAKE r \in Run
  <2>1. PICK W : W = AtWork(r)
    OBVIOUS
  <2>2. PICK V : V = AtWork(r)'
    OBVIOUS
  <2>3. h \in W <=> hook[h].run = r
    BY <1>3, <2>1
  <2>4. CASE j = Resting
    <3>1. V = W \ {h}
      BY <1>1, <2>1, <2>2, <2>4
    <3> QED BY <2>1, <2>2, <2>3, <2>4, <3>1
  <2>5. CASE j # Resting
    <3>1. V = IF hook[h].run = r THEN W \cup {h} ELSE W \ {h}
      BY <1>1, <1>2, <2>1, <2>2, <2>5
    <3> QED BY <2>1, <2>2, <2>3, <2>5, <3>1
  <2> QED BY <2>4, <2>5
<1>5. overlapped' = overlapped
  BY DEF Proceed
<1>6. \A r \in Run : AtWork(r)' \subseteq AtWork(r)
  BY <1>4
<1>7. OneAtWork'
  <2>1. \A r \in Run \ overlapped' : \A g, k \in AtWork(r)' : g = k
    BY <1>5, <1>6 DEF OneAtWork
  <2> QED BY <2>1 DEF OneAtWork
<1> QED BY <1>1, <1>4, <1>5, <1>7

\* A hook sets to work at a run.
LEMMA BeginKeeps ==
  ASSUME HooksTyped, OneAtWork, NEW h \in Hook, hook[h] = Resting, NEW j, JobOf(j), Begin(h, j)
  PROVE  /\ HooksTyped' /\ OneAtWork'
         /\ overlapped \subseteq overlapped' /\ overlapped' \subseteq overlapped \cup {j.run}
         /\ hook'[h] = j /\ \A g \in Hook \ {h} : hook'[g] = hook[g]
         /\ \A r \in Run : h \notin AtWork(r)
         /\ \A r \in Run : AtWork(r)' = IF r = j.run THEN AtWork(r) \cup {h} ELSE AtWork(r)
         /\ j.run \notin overlapped' => AtWork(j.run) = {}
<1>1. /\ HooksTyped'
      /\ hook'[h] = j /\ \A g \in Hook \ {h} : hook'[g] = hook[g]
      /\ \A r \in Run : AtWork(r)' = IF j # Resting /\ j.run = r THEN AtWork(r) \cup {h} ELSE AtWork(r) \ {h}
  BY HookMoves DEF Begin
<1>2. j # Resting /\ j.run \in Run
  BY JobIsWork
<1>3. \A r \in Run : h \notin AtWork(r)
  BY DEF AtWork
<1>4. \A r \in Run : AtWork(r)' = IF r = j.run THEN AtWork(r) \cup {h} ELSE AtWork(r)
  BY <1>1, <1>2, <1>3
<1>5. /\ overlapped \subseteq overlapped' /\ overlapped' \subseteq overlapped \cup {j.run}
      /\ j.run \notin overlapped' => AtWork(j.run) = {}
  BY DEF Begin
<1>6. OneAtWork'
  <2>1. ASSUME NEW r \in Run \ overlapped', NEW g \in AtWork(r)', NEW k \in AtWork(r)' PROVE g = k
    <3>1. CASE r = j.run
      BY <3>1, <2>1, <1>4, <1>5
    <3>2. CASE r # j.run
      BY <3>2, <2>1, <1>4, <1>5 DEF OneAtWork
    <3> QED BY <3>1, <3>2
  <2>2. \A r \in Run \ overlapped' : \A g, k \in AtWork(r)' : g = k
    BY <2>1
  <2> QED BY <2>2 DEF OneAtWork
<1> QED BY <1>1, <1>3, <1>4, <1>5, <1>6

\* Nobody goes on.
LEMMA HooksStay ==
  ASSUME HooksTyped, OneAtWork, UNCHANGED <<hook, overlapped>>
  PROVE  HooksTyped' /\ OneAtWork' /\ \A r \in Run : AtWork(r)' = AtWork(r)
<1>1. \A r \in Run : AtWork(r)' = AtWork(r)
  BY DEF AtWork
<1>2. \A r \in Run \ overlapped' : \A g, k \in AtWork(r)' : g = k
  BY <1>1 DEF OneAtWork
<1> QED BY <1>1, <1>2 DEF HooksTyped, OneAtWork

\* One file is replaced.
LEMMA LedgerReplaced ==
  ASSUME FilesTyped, NEW r \in Run, NEW l, LedgerOf(l) \/ (l = Truncated /\ r \in cut'),
         ledger' = [ledger EXCEPT ![r] = l], UNCHANGED tracker, cut \subseteq cut'
  PROVE  FilesTyped' /\ ledger'[r] = l /\ \A x \in Run \ {r} : ledger'[x] = ledger[x]
<1>1. /\ ledger'[r] = l /\ \A x \in Run \ {r} : ledger'[x] = ledger[x]
      /\ ledger' = [x \in Run |-> ledger'[x]]
  BY DEF FilesTyped
<1>2. \A x \in Run : (x \in cut' /\ ledger'[x] = Truncated) \/ LedgerOf(ledger'[x])
  BY <1>1 DEF FilesTyped
<1> QED BY <1>1, <1>2 DEF FilesTyped

\* Replacing one tracker with a board of its run keeps the files typed and the others as they were.
LEMMA TrackerReplaced ==
  ASSUME FilesTyped, NEW r \in Run, NEW b, BoardOf(b, r) \/ (b = Truncated /\ r \in cut'),
         tracker' = [tracker EXCEPT ![r] = b], UNCHANGED ledger, cut \subseteq cut'
  PROVE  FilesTyped' /\ tracker'[r] = b /\ \A x \in Run \ {r} : tracker'[x] = tracker[x]
<1>1. /\ tracker'[r] = b /\ \A x \in Run \ {r} : tracker'[x] = tracker[x]
      /\ tracker' = [x \in Run |-> tracker'[x]]
  BY DEF FilesTyped
<1>2. \A x \in Run : (x \in cut' /\ tracker'[x] = Truncated) \/ BoardOf(tracker'[x], x)
  BY <1>1 DEF FilesTyped
<1> QED BY <1>1, <1>2 DEF FilesTyped

\* The initial state is typed, with nobody at work.
LEMMA StampsTypedInit == StampsInit => StampsTyped /\ OneAtWork
<1> SUFFICES ASSUME StampsInit PROVE StampsTyped /\ OneAtWork
  OBVIOUS
<1>1. PICK s \in [Run -> {"running", "shipped"}], E \in SUBSET Calls :
        tracker = [r \in Run |-> [status |-> s[r], agents |-> [c \in {d \in E : RunOf[d] = r} |-> Blank]]]
  BY DEF StampsInit
<1>2. Blank \in Entry
  BY DEF Blank, Entry, Value
<1>3. ASSUME NEW r \in Run
      PROVE  BoardOf(tracker[r], r)
  <2>1. PICK agents : agents = [c \in {d \in E : RunOf[d] = r} |-> Blank]
    OBVIOUS
  <2>2. Entries(agents) /\ \A d \in DOMAIN agents : RunOf[d] = r
    BY <1>2, <2>1 DEF Entries
  <2>3. tracker[r] = [status |-> s[r], agents |-> agents]
    BY <1>1, <2>1
  <2>4. tracker[r] \in Board /\ tracker[r].agents = agents
    BY <2>2, <2>3, BoardMakes
  <2> QED BY <2>2, <2>4 DEF BoardOf
<1>4. LedgerOf(NoLedger)
  BY DEF LedgerOf, NoLedger, Ledger
<1>5. FilesTyped
  <2>1. tracker = [r \in Run |-> tracker[r]] /\ ledger = [r \in Run |-> ledger[r]]
    BY <1>1 DEF StampsInit
  <2>2. \A r \in Run : ledger[r] = NoLedger
    BY DEF StampsInit
  <2> QED BY <1>3, <1>4, <2>1, <2>2 DEF FilesTyped
<1>6. HooksTyped
  BY DEF StampsInit, HooksTyped
<1>7. CountsTyped
  BY StampsAssumption DEF StampsInit, CountsTyped
<1>8. OneAtWork
  BY DEF StampsInit, OneAtWork, AtWork
<1> QED BY <1>5, <1>6, <1>7, <1>8 DEF StampsTyped

\* Every step keeps the types, and one hook at most on each run.
LEMMA StampsTypedStep ==
  ASSUME StampsTyped, OneAtWork, [StampsNext]_stampsVars
  PROVE  StampsTyped' /\ OneAtWork'
<1> USE DEF StampsTyped
<1>1. ASSUME NEW h \in Hook, NEW c \in Calls, PreToolUse(h, c) \/ PostToolUse(h, c)
      PROVE  StampsTyped' /\ OneAtWork'
  <2>1. PICK event \in {"pre", "post"} : OnTask(h, c, event)
    BY <1>1 DEF PreToolUse, PostToolUse
  <2>2. FilesTyped'
    BY <2>1 DEF OnTask, FilesTyped, stampsHistory
  <2>3. CASE UNCHANGED <<hook, overlapped>>
    <3>1. HooksTyped' /\ OneAtWork'
      BY <2>3, HooksStay
    <3>2. CountsTyped'
      BY <1>1, <2>1, <2>3 DEF PreToolUse, PostToolUse, OnTask, CountsTyped, stampsHistory
    <3> QED BY <2>2, <3>1, <3>2
  <2>4. CASE ~ UNCHANGED <<hook, overlapped>>
    <3>1. hook[h] = Resting /\ \E j : JobOf(j) /\ Begin(h, j)
      BY <2>1, <2>4, OnTaskDoes
    <3>2. PICK j : JobOf(j) /\ Begin(h, j)
      BY <3>1
    <3>3. HooksTyped' /\ OneAtWork' /\ overlapped' \subseteq overlapped \cup {j.run} /\ j.run \in Run
      BY <3>1, <3>2, BeginKeeps, JobIsWork
    <3>4. CountsTyped'
      BY <1>1, <2>1, <3>3 DEF PreToolUse, PostToolUse, OnTask, CountsTyped, stampsHistory
    <3> QED BY <2>2, <3>3, <3>4
  <2> QED BY <2>3, <2>4
<1>2. ASSUME NEW h \in Hook, NEW r \in Run, OnFileWrite(h, r)
      PROVE  StampsTyped' /\ OneAtWork'
  <2>1. hook[h] = Resting /\ \E j : JobOf(j) /\ Begin(h, j)
    BY <1>2, OnFileWriteDoes
  <2>2. PICK j : JobOf(j) /\ Begin(h, j)
    BY <2>1
  <2>3. HooksTyped' /\ OneAtWork' /\ overlapped' \subseteq overlapped \cup {j.run} /\ j.run \in Run
    BY <2>1, <2>2, BeginKeeps, JobIsWork
  <2>4. FilesTyped'
    BY <1>2 DEF OnFileWrite, FilesTyped, stampsHistory
  <2>5. strokes' \in [made : Nat, open : Nat]
    BY <1>2 DEF OnFileWrite, CountsTyped
  <2>6. CountsTyped'
    BY <1>2, <2>3, <2>5 DEF OnFileWrite, CountsTyped, stampsHistory, calls
  <2> QED BY <2>3, <2>4, <2>6
<1>3. ASSUME NEW h \in Hook, NEW j, hook[h] # Resting, Proceed(h, j),
             j = Resting \/ (JobOf(j) /\ j.run = hook[h].run)
      PROVE  HooksTyped' /\ OneAtWork' /\ overlapped' = overlapped /\ hook[h].run \in Run
  BY <1>3, ProceedKeeps, AtHand
<1>4. ASSUME NEW h \in Hook, ReadLedger(h) \/ ReadBoard(h) \/ ReadSpans(h)
      PROVE  StampsTyped' /\ OneAtWork'
  <2>1. hook[h] # Resting /\ \E j : Proceed(h, j) /\ (j = Resting \/ (JobOf(j) /\ j.run = hook[h].run))
    BY <1>4, ReadLedgerDoes, ReadBoardDoes, ReadSpansDoes DEF Drains
  <2>2. HooksTyped' /\ OneAtWork' /\ overlapped' = overlapped
    BY <1>3, <2>1
  <2>3. UNCHANGED <<tracker, ledger, calls, strokes, stampsHistory>>
    BY <1>4 DEF ReadLedger, ReadBoard, ReadSpans
  <2>4. FilesTyped' /\ CountsTyped'
    BY <2>2, <2>3 DEF FilesTyped, CountsTyped, stampsHistory, calls
  <2> QED BY <2>2, <2>4
<1>5. ASSUME NEW h \in Hook, SaveLedger(h)
      PROVE  StampsTyped' /\ OneAtWork'
  <2>1. PICK job : job = hook[h]
    OBVIOUS
  <2>2. PICK j : /\ job # Resting /\ LedgerOf(job.ledger) /\ job.call \in Calls
                 /\ JobOf(j) /\ Proceed(h, j) /\ j.run = job.run
                 /\ ledger' = [ledger EXCEPT ![job.run] = job.ledger]
                 /\ recorded' = recorded \/ recorded' = [recorded EXCEPT ![job.run] = @ \cup {job.call}]
    BY <1>5, <2>1, SaveLedgerDoes
  <2>3. HooksTyped' /\ OneAtWork' /\ overlapped' = overlapped /\ job.run \in Run
    BY <1>3, <2>1, <2>2
  <2>4. UNCHANGED <<tracker, calls, strokes, kills, cut, said>>
    BY <1>5 DEF SaveLedger
  <2>5. FilesTyped'
    BY <2>2, <2>3, <2>4, LedgerReplaced
  <2>6. CountsTyped'
    BY <2>2, <2>3, <2>4 DEF CountsTyped, calls
  <2> QED BY <2>3, <2>5, <2>6
<1>6. ASSUME NEW h \in Hook, TrimLedger(h)
      PROVE  StampsTyped' /\ OneAtWork'
  <2>1. PICK job : job = hook[h]
    OBVIOUS
  <2>2. PICK j : /\ job # Resting /\ LedgerOf(job.ledger)
                 /\ JobOf(j) /\ Proceed(h, j) /\ j.run = job.run
                 /\ ledger' = [ledger EXCEPT ![job.run] = job.ledger]
    BY <1>6, <2>1, TrimLedgerDoes
  <2>3. HooksTyped' /\ OneAtWork' /\ overlapped' = overlapped /\ job.run \in Run
    BY <1>3, <2>1, <2>2
  <2>4. UNCHANGED <<tracker, calls, strokes, stampsHistory>>
    BY <1>6 DEF TrimLedger
  <2>5. FilesTyped'
    BY <2>2, <2>3, <2>4, LedgerReplaced DEF stampsHistory
  <2>6. CountsTyped'
    BY <2>2, <2>3, <2>4 DEF CountsTyped, calls, stampsHistory
  <2> QED BY <2>3, <2>5, <2>6
<1>7. ASSUME NEW h \in Hook, WriteBoard(h)
      PROVE  StampsTyped' /\ OneAtWork'
  <2>1. PICK job : job = hook[h]
    OBVIOUS
  <2>2. /\ job # Resting /\ BoardOf(job.board, job.run)
        /\ Proceed(h, Resting) /\ tracker' = [tracker EXCEPT ![job.run] = job.board]
    BY <1>7, <2>1, WriteBoardDoes
  <2>3. HooksTyped' /\ OneAtWork' /\ overlapped' = overlapped /\ job.run \in Run
    BY <1>3, <2>1, <2>2
  <2>4. UNCHANGED <<ledger, calls, strokes, stampsHistory>>
    BY <1>7 DEF WriteBoard
  <2>5. FilesTyped'
    BY <2>2, <2>3, <2>4, TrackerReplaced DEF stampsHistory
  <2>6. CountsTyped'
    BY <2>2, <2>3, <2>4 DEF CountsTyped, calls, stampsHistory
  <2> QED BY <2>3, <2>5, <2>6
<1>8. ASSUME NEW h \in Hook, Kill(h)
      PROVE  StampsTyped' /\ OneAtWork'
  <2>1. PICK r : r = hook[h].run
    OBVIOUS
  <2>2. /\ r \in Run /\ hook[h] # Resting
        /\ Proceed(h, Resting) /\ cut' = cut \cup {r}
        /\ tracker' = [tracker EXCEPT ![r] = tracker[r]] \/ tracker' = [tracker EXCEPT ![r] = Truncated]
        /\ ledger' = [ledger EXCEPT ![r] = ledger[r]] \/ ledger' = [ledger EXCEPT ![r] = Truncated]
    BY <1>8, <2>1, KillDoes
  <2>3. HooksTyped' /\ OneAtWork' /\ overlapped' = overlapped
    BY <1>3, <2>1, <2>2
  <2>4. FilesTyped'
    <3>1. /\ tracker' = [x \in Run |-> tracker'[x]] /\ ledger' = [x \in Run |-> ledger'[x]]
          /\ \A x \in Run : tracker'[x] = tracker[x] \/ (x = r /\ tracker'[x] = Truncated)
          /\ \A x \in Run : ledger'[x] = ledger[x] \/ (x = r /\ ledger'[x] = Truncated)
      BY <2>2 DEF FilesTyped
    <3> QED BY <2>2, <3>1 DEF FilesTyped
  <2>5. kills' \in Nat
    BY <1>8 DEF Kill, CountsTyped
  <2>6. CountsTyped'
    BY <1>8, <2>2, <2>3, <2>5 DEF Kill, CountsTyped, calls
  <2> QED BY <2>3, <2>4, <2>6
<1>9. ASSUME NEW r \in Run, NEW b, NEW fact, Stroke(r, b, fact)
      PROVE  StampsTyped' /\ OneAtWork'
  <2>1. HooksTyped' /\ OneAtWork'
    BY <1>9, HooksStay DEF Stroke, Orchestrate
  <2>2. FilesTyped'
    BY <1>9, TrackerReplaced DEF Stroke, Orchestrate
  <2>3. strokes' \in [made : Nat, open : Nat]
    BY <1>9 DEF Stroke, Orchestrate, CountsTyped
  <2>4. said' \in [Run -> SUBSET Fact]
    BY <1>9 DEF Stroke, Orchestrate, CountsTyped
  <2>5. CountsTyped'
    BY <1>9, <2>3, <2>4 DEF Stroke, Orchestrate, CountsTyped, calls
  <2> QED BY <2>1, <2>2, <2>5
<1>10. CASE UNCHANGED stampsVars
  <2>1. HooksTyped' /\ OneAtWork'
    BY <1>10, HooksStay DEF stampsVars
  <2>2. FilesTyped' /\ CountsTyped'
    BY <1>10 DEF stampsVars, stampsHistory, calls, FilesTyped, CountsTyped
  <2> QED BY <2>1, <2>2
<1>11. (\E c \in Calls : AppendAgent(c) \/ \E f \in Fields : StampByHand(c, f)) \/ (\E r \in Run : ShipRun(r))
         => \E r, b, fact : r \in Run /\ Stroke(r, b, fact)
  BY AppendDoes, StampDoes, ShipDoes
<1> QED
  BY <1>1, <1>2, <1>4, <1>5, <1>6, <1>7, <1>8, <1>9, <1>10, <1>11 DEF StampsNext, Fields

\* Who acts, and what it does.
LEMMA StampsSteps ==
  ASSUME StampsTyped, [StampsNext]_stampsVars
  PROVE  \/ \E h \in Hook, c \in Calls : PreToolUse(h, c) \/ PostToolUse(h, c)
         \/ \E h \in Hook, r \in Run : OnFileWrite(h, r)
         \/ \E h \in Hook : ReadLedger(h) \/ ReadBoard(h) \/ ReadSpans(h) \/ Kill(h)
         \/ \E h \in Hook : SaveLedger(h) \/ TrimLedger(h) \/ WriteBoard(h)
         \/ \E r, b, fact : r \in Run /\ Stroke(r, b, fact)
         \/ UNCHANGED stampsVars
<1>1. (\E c \in Calls : AppendAgent(c) \/ \E f \in Fields : StampByHand(c, f)) \/ (\E r \in Run : ShipRun(r))
         => \E r, b, fact : r \in Run /\ Stroke(r, b, fact)
  BY AppendDoes, StampDoes, ShipDoes
<1>2. CASE StampsNext
  <2>1. \/ \E h \in Hook :
             \/ \E c \in Calls : PreToolUse(h, c) \/ PostToolUse(h, c)
             \/ ReadLedger(h) \/ ReadBoard(h) \/ SaveLedger(h)
             \/ ReadSpans(h) \/ TrimLedger(h) \/ WriteBoard(h)
             \/ \E r \in Run : OnFileWrite(h, r)
             \/ Kill(h)
        \/ (\E c \in Calls : AppendAgent(c) \/ \E f \in Fields : StampByHand(c, f)) \/ (\E r \in Run : ShipRun(r))
    BY <1>2, Zenon DEF StampsNext, Fields
  <2> QED BY <1>1, <2>1, ZenonT(30)
<1> QED BY <1>2

\* What has been said stands on the board that a hook holds.
Heard(j) == j # Resting /\ Holds(j) => \A fact \in said[j.run] : Stands(fact, j.board)

\* Every step keeps what was said by hand standing.
LEMMA SaidStep ==
  ASSUME StampsTyped, OneAtWork, SaidStands, [StampsNext]_stampsVars
  PROVE  SaidStands'
<1>0. /\ \A r \in Run : tracker[r] # Truncated => \A fact \in said[r] : Stands(fact, tracker[r])
      /\ \A h \in Hook : Heard(hook[h])
  BY DEF SaidStands, HandWins, Heard
<1>2. ASSUME NEW h \in Hook, NEW j, said' = said, tracker' = tracker, Heard(j),
             hook'[h] = j, \A g \in Hook \ {h} : hook'[g] = hook[g]
      PROVE  SaidStands'
  <2>1. \A r \in Run : tracker'[r] # Truncated => \A fact \in said'[r] : Stands(fact, tracker'[r])
    BY <1>0, <1>2
  <2>2. \A g \in Hook : hook'[g] # Resting /\ Holds(hook'[g]) =>
          \A fact \in said'[hook'[g].run] : Stands(fact, hook'[g].board)
    BY <1>0, <1>2 DEF Heard
  <2> QED BY <2>1, <2>2 DEF SaidStands, HandWins
<1>3. HooksTyped
  BY DEF StampsTyped
<1>4. ASSUME NEW h \in Hook, NEW c \in Calls, PreToolUse(h, c) \/ PostToolUse(h, c)
      PROVE  SaidStands'
  <2>1. PICK event \in {"pre", "post"} : OnTask(h, c, event)
    BY <1>4 DEF PreToolUse, PostToolUse
  <2>2. UNCHANGED <<tracker, said>>
    BY <2>1 DEF OnTask, stampsHistory
  <2>3. CASE UNCHANGED hook
    BY <1>0, <2>2, <2>3 DEF SaidStands, HandWins, Heard
  <2>4. CASE ~ UNCHANGED hook
    <3>1. hook[h] = Resting /\ \E j : JobOf(j) /\ j.at = "ledger" /\ Begin(h, j)
      BY <2>1, <2>4, OnTaskDoes
    <3>2. PICK j : JobOf(j) /\ j.at = "ledger" /\ Begin(h, j)
      BY <3>1
    <3>3. hook'[h] = j /\ \A g \in Hook \ {h} : hook'[g] = hook[g]
      BY <1>3, <3>1, <3>2, BeginKeeps
    <3>4. Heard(j)
      BY <3>2 DEF Heard, JobOf
    <3> QED BY <1>2, <2>2, <3>3, <3>4
  <2> QED BY <2>3, <2>4
<1>5. ASSUME NEW h \in Hook, NEW r \in Run, OnFileWrite(h, r)
      PROVE  SaidStands'
  <2>1. hook[h] = Resting /\ tracker[r] # Truncated
        /\ \E j : JobOf(j) /\ j.run = r /\ j.board = tracker[r] /\ Begin(h, j)
    BY <1>5, OnFileWriteDoes
  <2>2. PICK j : JobOf(j) /\ j.run = r /\ j.board = tracker[r] /\ Begin(h, j)
    BY <2>1
  <2>3. hook'[h] = j /\ \A g \in Hook \ {h} : hook'[g] = hook[g]
    BY <1>3, <2>1, <2>2, BeginKeeps
  <2>4. Heard(j)
    BY <1>0, <2>1, <2>2 DEF Heard
  <2>5. UNCHANGED <<tracker, said>>
    BY <1>5 DEF OnFileWrite, stampsHistory
  <2> QED BY <1>2, <2>3, <2>4, <2>5
<1>6. ASSUME NEW h \in Hook, NEW j, hook[h] # Resting, Proceed(h, j), j = Resting \/ (JobOf(j) /\ j.run = hook[h].run)
      PROVE  hook'[h] = j /\ \A g \in Hook \ {h} : hook'[g] = hook[g]
  BY <1>3, <1>6, ProceedKeeps
<1>7. ASSUME NEW h \in Hook, ReadLedger(h)
      PROVE  SaidStands'
  <2>1. hook[h] # Resting /\ \E j : Proceed(h, j) /\ JobOf(j) /\ j.run = hook[h].run /\ ~Holds(j)
    BY <1>7, ReadLedgerDoes
  <2>2. PICK j : Proceed(h, j) /\ JobOf(j) /\ j.run = hook[h].run /\ ~Holds(j)
    BY <2>1
  <2>3. Heard(j) /\ UNCHANGED <<tracker, said>>
    BY <1>7, <2>2 DEF Heard, ReadLedger, stampsHistory
  <2> QED BY <1>2, <1>6, <2>1, <2>2, <2>3
<1>8. ASSUME NEW h \in Hook, ReadBoard(h)
      PROVE  SaidStands'
  <2>1. PICK job : job = hook[h]
    OBVIOUS
  <2>2. PICK b, j :
           /\ b \in BoardRead(job.run)
           /\ job # Resting /\ Proceed(h, j)
           /\ j = Resting \/ (b # Truncated /\ JobOf(j) /\ j.run = job.run /\ j.board = b)
    BY <1>8, <2>1, ReadBoardDoes
  <2>3. b = Truncated \/ b = tracker[job.run]
    BY <2>1, <2>2, AtHand
  <2>4. job.run \in Run
    BY <2>1, <2>2, AtHand
  <2>5. Heard(j)
    BY <1>0, <2>2, <2>3, <2>4 DEF Heard
  <2>6. UNCHANGED <<tracker, said>>
    BY <1>8 DEF ReadBoard, stampsHistory
  <2> QED BY <1>2, <1>6, <2>1, <2>2, <2>5, <2>6
<1>9. ASSUME NEW h \in Hook, SaveLedger(h) \/ TrimLedger(h)
      PROVE  SaidStands'
  <2>1. PICK job : job = hook[h]
    OBVIOUS
  <2>2. job # Resting /\ \E j : /\ Proceed(h, j) /\ JobOf(j) /\ j.run = job.run
                                /\ ~Holds(j) \/ (Holds(job) /\ j.board = job.board)
    BY <1>9, <2>1, SaveLedgerDoes, TrimLedgerDoes
  <2>3. PICK j : /\ Proceed(h, j) /\ JobOf(j) /\ j.run = job.run
                 /\ ~Holds(j) \/ (Holds(job) /\ j.board = job.board)
    BY <2>2
  <2>4. Heard(j)
    BY <1>0, <2>1, <2>2, <2>3 DEF Heard
  <2>5. UNCHANGED <<tracker, said>>
    BY <1>9 DEF SaveLedger, TrimLedger, stampsHistory
  <2> QED BY <1>2, <1>6, <2>1, <2>2, <2>3, <2>4, <2>5
<1>10. ASSUME NEW h \in Hook, ReadSpans(h)
       PROVE  SaidStands'
  <2>1. PICK job : job = hook[h]
    OBVIOUS
  <2>0. PICK l, j, d : l \in LedgerRead(h) /\ Drains(h, job, l, j, d)
    BY <1>10, <2>1, ReadSpansDoes
  <2>2. /\ job # Resting /\ Holds(job)
        /\ DrainGoes(job.board.agents, Usable(l).spans, d, Len(Usable(l).spans))
        /\ Proceed(h, j)
        /\ \/ j = Resting
           \/ /\ JobOf(j) /\ j.run = job.run
              /\ \/ j.board = job.board
                 \/ j.board.status = job.board.status /\ j.board.agents = d.agents
    BY <2>0 DEF Drains
  <2>3. j # Resting => Follows(job.board, j.board)
    <3>1. WrittenStays(job.board.agents, d.agents)
      BY <2>2 DEF DrainGoes
    <3> QED BY <2>2, <3>1 DEF Follows, WrittenStays
  <2>4. job.run \in Run /\ said[job.run] \subseteq Fact
    BY <2>1, <2>2, AtHand DEF StampsTyped, CountsTyped
  <2>5. Heard(j)
    BY <1>0, <2>1, <2>2, <2>3, <2>4, StandsOn DEF Heard
  <2>6. UNCHANGED <<tracker, said>>
    BY <1>10 DEF ReadSpans, stampsHistory
  <2> QED BY <1>2, <1>6, <2>1, <2>2, <2>5, <2>6
<1>11. ASSUME NEW h \in Hook, WriteBoard(h)
       PROVE  SaidStands'
  <2>1. PICK job : job = hook[h]
    OBVIOUS
  <2>2. /\ job # Resting /\ Holds(job) /\ BoardOf(job.board, job.run)
        /\ Proceed(h, Resting) /\ tracker' = [tracker EXCEPT ![job.run] = job.board]
    BY <1>11, <2>1, WriteBoardDoes
  <2>3. hook'[h] = Resting /\ (\A g \in Hook \ {h} : hook'[g] = hook[g]) /\ job.run \in Run /\ said' = said
    BY <1>6, <1>11, <2>1, <2>2, AtHand DEF WriteBoard, stampsHistory
  <2>4. tracker'[job.run] = job.board /\ \A r \in Run \ {job.run} : tracker'[r] = tracker[r]
    BY <2>2, <2>3 DEF StampsTyped, FilesTyped
  <2>5. \A fact \in said[job.run] : Stands(fact, job.board)
    BY <1>0, <2>1, <2>2 DEF Heard
  <2>6. \A r \in Run : tracker'[r] # Truncated => \A fact \in said'[r] : Stands(fact, tracker'[r])
    BY <1>0, <2>3, <2>4, <2>5
  <2>7. \A g \in Hook : hook'[g] # Resting /\ Holds(hook'[g]) =>
          \A fact \in said'[hook'[g].run] : Stands(fact, hook'[g].board)
    BY <1>0, <2>3 DEF Heard
  <2> QED BY <2>6, <2>7 DEF SaidStands, HandWins
<1>12. ASSUME NEW h \in Hook, Kill(h)
       PROVE  SaidStands'
  <2>1. PICK r : r = hook[h].run
    OBVIOUS
  <2>2. /\ r \in Run /\ hook[h] # Resting /\ Proceed(h, Resting)
        /\ tracker' = [tracker EXCEPT ![r] = tracker[r]] \/ tracker' = [tracker EXCEPT ![r] = Truncated]
    BY <1>12, <2>1, KillDoes
  <2>3. hook'[h] = Resting /\ (\A g \in Hook \ {h} : hook'[g] = hook[g]) /\ said' = said
    BY <1>6, <1>12, <2>2 DEF Kill
  <2>4. \A x \in Run : tracker'[x] = tracker[x] \/ tracker'[x] = Truncated
    BY <2>2 DEF StampsTyped, FilesTyped
  <2>6. \A x \in Run : tracker'[x] # Truncated => \A fact \in said'[x] : Stands(fact, tracker'[x])
    BY <1>0, <2>3, <2>4
  <2>7. \A g \in Hook : hook'[g] # Resting /\ Holds(hook'[g]) =>
          \A fact \in said'[hook'[g].run] : Stands(fact, hook'[g].board)
    BY <1>0, <2>3 DEF Heard
  <2> QED BY <2>6, <2>7 DEF SaidStands, HandWins
<1>13. ASSUME NEW r \in Run, NEW b, NEW new, Stroke(r, b, new)
       PROVE  SaidStands'
  <2>1. tracker'[r] = b /\ (\A x \in Run \ {r} : tracker'[x] = tracker[x]) /\ hook' = hook
    BY <1>13 DEF Stroke, Orchestrate, StampsTyped, FilesTyped
  <2>2. said[r] \subseteq Fact
    BY DEF StampsTyped, CountsTyped
  <2>3. \A fact \in said[r] \cup {new} : Stands(fact, b)
    BY <1>0, <1>13, <2>2, StandsOn DEF Stroke
  <2>4. said' = said \/ said' = [said EXCEPT ![r] = @ \cup {new}]
    BY <1>13 DEF Stroke, Orchestrate
  <2>5. \A x \in Run \ {r} : said'[x] = said[x]
    BY <2>4 DEF StampsTyped, CountsTyped
  <2>6. said'[r] \subseteq said[r] \cup {new}
    BY <2>4 DEF StampsTyped, CountsTyped
  <2>7. (\E g \in AtWork(r) : Holds(hook[g])) => said' = said
    BY <1>13 DEF Stroke, Orchestrate, Holds
  <2>8. \A x \in Run : tracker'[x] # Truncated => \A fact \in said'[x] : Stands(fact, tracker'[x])
    BY <1>0, <2>1, <2>3, <2>5, <2>6
  <2>9. ASSUME NEW g \in Hook, hook[g] # Resting, Holds(hook[g]), NEW fact \in said'[hook[g].run]
        PROVE  Stands(fact, hook[g].board)
    <3>1. hook[g].run \in Run /\ g \in AtWork(hook[g].run)
      BY <2>9, AtHand
    <3>2. said'[hook[g].run] = said[hook[g].run]
      BY <2>5, <2>7, <2>9, <3>1
    <3> QED BY <1>0, <2>9, <3>2 DEF Heard
  <2>10. \A g \in Hook : hook'[g] # Resting /\ Holds(hook'[g]) =>
          \A fact \in said'[hook'[g].run] : Stands(fact, hook'[g].board)
    BY <2>1, <2>9
  <2> QED BY <2>8, <2>10 DEF SaidStands, HandWins
<1>14. CASE UNCHANGED stampsVars
  BY <1>14 DEF stampsVars, stampsHistory, SaidStands, HandWins
<1>15. (\E h \in Hook : ReadLedger(h) \/ ReadBoard(h) \/ ReadSpans(h) \/ Kill(h)) => SaidStands'
  BY <1>7, <1>8, <1>10, <1>12
<1>16. (\E h \in Hook : SaveLedger(h) \/ TrimLedger(h) \/ WriteBoard(h)) => SaidStands'
  BY <1>9, <1>11
<1> QED BY <1>4, <1>5, <1>13, <1>14, <1>15, <1>16, StampsSteps

\* At a run where hooks do not overlap the one at work reads what is there.
LEMMA ReadsAlone ==
  ASSUME StampsTyped, OneAtWork, NEW h \in Hook, hook[h] # Resting, NEW r, r = hook[h].run, r \notin overlapped
  PROVE  /\ AtWork(r) = {h}
         /\ \A x \in LedgerRead(h) : x = ledger[r]
         /\ hook[h].at # "stamp" => \A x \in BoardRead(r) : x = tracker[r]
<1>1. r \in Run /\ h \in AtWork(r)
  BY AtHand
<1>2. AtWork(r) = {h}
  BY <1>1 DEF OneAtWork
<1>3. \A x \in LedgerRead(h) : x = ledger[r]
  BY <1>2 DEF LedgerRead
<1>4. hook[h].at # "stamp" => \A x \in BoardRead(r) : x = tracker[r]
  BY <1>2 DEF BoardRead, HookAt
<1> QED BY <1>2, <1>3, <1>4

\* A span that is saved for the first time.
SavesOwn(j) == j # Resting /\ j.at = "save" /\ j.event = "post" => Has(j.ledger, j.call)

\* It is enough to follow the calls at the run of the hook that goes on.
LEMMA FollowsProceed ==
  ASSUME StampsTyped, OneAtWork, RecordedFollowed,
         NEW h \in Hook, hook[h] # Resting, NEW j, Proceed(h, j), j = Resting \/ (JobOf(j) /\ j.run = hook[h].run),
         NEW r, r = hook[h].run, cut \subseteq cut',
         \A x \in Run \ {r} : ledger'[x] = ledger[x] /\ tracker'[x] = tracker[x] /\ recorded'[x] = recorded[x],
         SavesOwn(j),
         \A c \in recorded'[r] : r \notin overlapped \cup cut' /\ Sole(c) =>
           IF j = Resting THEN StillThere(ledger'[r], tracker'[r], c) ELSE JobFollows(ledger'[r], tracker'[r], j, c)
  PROVE  RecordedFollowed'
<1>1. /\ overlapped' = overlapped
      /\ hook'[h] = j /\ \A g \in Hook \ {h} : hook'[g] = hook[g]
      /\ \A x \in Run : AtWork(x)' = IF j = Resting /\ x = r THEN AtWork(x) \ {h} ELSE AtWork(x)
  BY ProceedKeeps DEF StampsTyped
<1>2. \A g \in Hook : hook'[g] # Resting /\ hook'[g].at = "save" /\ hook'[g].event = "post"
        => Has(hook'[g].ledger, hook'[g].call)
  BY <1>1 DEF RecordedFollowed, SavesOwn
<1>3. ASSUME NEW x \in Run, x \notin overlapped' \cup cut', NEW c \in recorded'[x], Sole(c)
      PROVE  /\ AtWork(x)' = {} => StillThere(ledger'[x], tracker'[x], c)
             /\ \A g \in AtWork(x)' : JobFollows(ledger'[x], tracker'[x], hook'[g], c)
  <2>1. CASE x = r
    <3>1. AtWork(r) = {h}
      BY <1>1, <1>3, <2>1, ReadsAlone
    <3>2. CASE j = Resting
      <4>1. AtWork(x)' = {}
        BY <1>1, <2>1, <3>1, <3>2
      <4> QED BY <1>1, <1>3, <2>1, <3>2, <4>1
    <3>3. CASE j # Resting
      <4>1. AtWork(x)' = {h}
        BY <1>1, <2>1, <3>1, <3>3
      <4> QED BY <1>1, <1>3, <2>1, <3>3, <4>1
    <3> QED BY <3>2, <3>3
  <2>2. CASE x # r
    <3>1. Followed(x, c)
      BY <1>1, <1>3, <2>2 DEF RecordedFollowed
    <3>2. AtWork(x)' = AtWork(x) /\ \A g \in AtWork(x) : g # h /\ g \in Hook
      BY <1>1, <2>2 DEF AtWork
    <3> QED BY <1>1, <2>2, <3>1, <3>2 DEF Followed
  <2> QED BY <2>1, <2>2
<1> QED
  <2>1. \A x \in Run \ (overlapped' \cup cut') : \A c \in recorded'[x] : Sole(c) =>
          /\ AtWork(x)' = {} => StillThere(ledger'[x], tracker'[x], c)
          /\ \A g \in AtWork(x)' : JobFollows(ledger'[x], tracker'[x], hook'[g], c)
    BY <1>3
  <2> QED BY <1>2, <2>1 DEF RecordedFollowed, Followed

\* The same of a hook that sets to work: before, nobody was at work there.
LEMMA FollowsBegin ==
  ASSUME StampsTyped, OneAtWork, RecordedFollowed,
         NEW h \in Hook, hook[h] = Resting, NEW j, Begin(h, j), JobOf(j), j.at # "save",
         UNCHANGED <<tracker, ledger, cut, recorded>>,
         \A c : StillThere(ledger[j.run], tracker[j.run], c) => JobFollows(ledger[j.run], tracker[j.run], j, c)
  PROVE  RecordedFollowed'
<1>1. /\ overlapped \subseteq overlapped'
      /\ hook'[h] = j /\ \A g \in Hook \ {h} : hook'[g] = hook[g]
      /\ \A x \in Run : AtWork(x)' = IF x = j.run THEN AtWork(x) \cup {h} ELSE AtWork(x)
      /\ \A x \in Run : h \notin AtWork(x)
      /\ j.run \notin overlapped' => AtWork(j.run) = {}
  BY BeginKeeps DEF StampsTyped
<1>2. \A g \in Hook : hook'[g] # Resting /\ hook'[g].at = "save" /\ hook'[g].event = "post"
        => Has(hook'[g].ledger, hook'[g].call)
  BY <1>1 DEF RecordedFollowed
<1>3. ASSUME NEW x \in Run, x \notin overlapped' \cup cut', NEW c \in recorded[x], Sole(c)
      PROVE  /\ AtWork(x)' = {} => StillThere(ledger[x], tracker[x], c)
             /\ \A g \in AtWork(x)' : JobFollows(ledger[x], tracker[x], hook'[g], c)
  <2>0. Followed(x, c)
    BY <1>1, <1>3 DEF RecordedFollowed
  <2>1. CASE x = j.run
    <3>1. AtWork(x) = {} /\ AtWork(x)' = {h}
      BY <1>1, <1>3, <2>1
    <3>2. StillThere(ledger[x], tracker[x], c)
      BY <2>0, <3>1 DEF Followed
    <3> QED BY <1>1, <2>1, <3>1, <3>2
  <2>2. CASE x # j.run
    <3>1. AtWork(x)' = AtWork(x) /\ \A g \in AtWork(x) : g # h /\ g \in Hook
      BY <1>1, <2>2 DEF AtWork
    <3> QED BY <1>1, <2>0, <3>1 DEF Followed
  <2> QED BY <2>1, <2>2
<1> QED
  <2>1. \A x \in Run \ (overlapped' \cup cut') : \A c \in recorded'[x] : Sole(c) =>
          /\ AtWork(x)' = {} => StillThere(ledger'[x], tracker'[x], c)
          /\ \A g \in AtWork(x)' : JobFollows(ledger'[x], tracker'[x], hook'[g], c)
    BY <1>3
  <2> QED BY <1>2, <2>1 DEF RecordedFollowed, Followed

\* The files are there.
LEMMA ThereAre ==
  ASSUME NEW l, LedgerOf(l), NEW b, NEW r, BoardOf(b, r)
  PROVE  l # Truncated /\ b # Truncated /\ Entries(b.agents) /\ l.spans \in Seq(SpanRow)
BY StampsValues, BoardFields DEF LedgerOf, BoardOf, Ledger

\* What was in the ledger or on the board is in what a drain leaves.
LEMMA DrainKeeps ==
  ASSUME NEW l, LedgerOf(l), NEW m, LedgerOf(m), NEW b, NEW n, NEW r, BoardOf(b, r), BoardOf(n, r),
         NEW d, DrainGoes(b.agents, l.spans, d, Len(l.spans)), n.agents = d.agents, m.spans = d.left,
         NEW c \in Calls, Sole(c), StillThere(l, b, c)
  PROVE  StillThere(m, n, c)
<1>1. l # Truncated /\ m # Truncated /\ b # Truncated /\ n # Truncated /\ l.spans \in Seq(SpanRow)
  BY ThereAre
<1>2. CASE On(b, c)
  <2>1. PICK e \in DOMAIN b.agents, f \in Fields : b.agents[e][f] = c
    BY <1>2 DEF On, Fields
  <2>2. c # Unset
    BY StampsValues
  <2>3. e \in DOMAIN n.agents /\ n.agents[e][f] = c
    BY <2>1, <2>2 DEF DrainGoes, WrittenStays
  <2>4. On(n, c)
    BY <1>1, <2>3 DEF On, Fields
  <2> QED BY <2>4 DEF StillThere
<1>3. CASE Has(l, c)
  <2>1. PICK i \in DOMAIN l.spans : l.spans[i].call = c
    BY <1>3 DEF Has
  <2>2. i \in 1 .. Len(l.spans)
    BY <1>1, <2>1
  <2>3. CASE \E k \in DOMAIN d.left : d.left[k] = l.spans[i]
    <3>1. Has(m, c)
      BY <1>1, <2>1, <2>3 DEF Has
    <3> QED BY <3>1 DEF StillThere
  <2>4. CASE \E e \in DOMAIN b.agents, f \in Fields : l.spans[i][f] # Unset /\ d.agents[e][f] = l.spans[i][f]
    <3>1. PICK e \in DOMAIN b.agents, f \in Fields : l.spans[i][f] # Unset /\ d.agents[e][f] = l.spans[i][f]
      BY <2>4
    <3>2. Input[l.spans[i][f]] = Input[c]
      BY <2>1, <3>1 DEF LedgerOf
    <3>3. l.spans[i] \in SpanRow
      BY <1>1, <2>1
    <3>4. l.spans[i][f] \in Calls
      BY <3>1, <3>3 DEF SpanRow, Fields
    <3>5. l.spans[i][f] = c
      BY <3>2, <3>4 DEF Sole
    <3>6. e \in DOMAIN n.agents
      BY <3>1 DEF DrainGoes, WrittenStays
    <3>7. On(n, c)
      BY <1>1, <3>1, <3>5, <3>6 DEF On, Fields
    <3> QED BY <3>7 DEF StillThere
  <2> QED BY <2>2, <2>3, <2>4 DEF DrainGoes
<1> QED BY <1>2, <1>3 DEF StillThere

\* A span is there after the hook on the way back has made its own.
LEMMA ReturnedHas ==
  ASSUME NEW l, LedgerOf(l), NEW c \in Calls, NEW agents, NEW n, n = Returned(l, agents, c), NEW d
  PROVE  /\ Has(n, c) /\ (Has(l, d) => Has(n, d))
         /\ (Has(n, d) /\ d # c => Has(l, d))
         /\ LedgerOnce(l, d) /\ (d = c => ~Has(l, d)) => LedgerOnce(n, d)
<1>1. /\ LedgerOf(n) /\ Len(l.spans) \in Nat /\ DOMAIN l.spans = 1 .. Len(l.spans)
      /\ DOMAIN n.spans = 1 .. Len(l.spans) + 1
      /\ \A i \in DOMAIN l.spans : n.spans[i] = l.spans[i]
      /\ n.spans[Len(l.spans) + 1].call = c
  BY ReturnedFacts
<1>2. l # Truncated /\ n # Truncated
  BY <1>1, StampsValues DEF LedgerOf
<1>3. \A i \in DOMAIN n.spans : i \in DOMAIN l.spans \/ i = Len(l.spans) + 1
  BY <1>1
<1>4. Has(n, c)
  BY <1>1, <1>2 DEF Has
<1>5. Has(l, d) => Has(n, d)
  BY <1>1, <1>2 DEF Has
<1>6. Has(n, d) /\ d # c => Has(l, d)
  BY <1>1, <1>2, <1>3 DEF Has
<1>7. LedgerOnce(l, d) /\ (d = c => ~Has(l, d)) => LedgerOnce(n, d)
  BY <1>1, <1>2, <1>3 DEF Has, LedgerOnce
<1> QED BY <1>4, <1>5, <1>6, <1>7

\* Every step keeps each recorded board followed by the tracker.
LEMMA FollowedStep ==
  ASSUME StampsTyped, OneAtWork, RecordedFollowed, [StampsNext]_stampsVars
  PROVE  RecordedFollowed'
<1>1. /\ FilesTyped /\ HooksTyped /\ \A r \in Run : recorded[r] \subseteq Calls
  BY DEF StampsTyped, CountsTyped
<1>2. \A r \in Run \ cut : LedgerOf(ledger[r]) /\ BoardOf(tracker[r], r)
  BY <1>1 DEF FilesTyped
<1>3. ASSUME NEW h \in Hook, hook[h] # Resting, NEW r, r = hook[h].run, r \notin overlapped \cup cut,
             NEW c \in recorded[r], Sole(c)
      PROVE  JobFollows(ledger[r], tracker[r], hook[h], c)
  <2>1. r \in Run /\ AtWork(r) = {h}
    BY <1>3, AtHand, ReadsAlone
  <2>2. Followed(r, c)
    BY <1>3, <2>1 DEF RecordedFollowed
  <2> QED BY <2>1, <2>2 DEF Followed
<1>4. ASSUME NEW h \in Hook, NEW c \in Calls, PreToolUse(h, c) \/ PostToolUse(h, c)
      PROVE  RecordedFollowed'
  <2>1. PICK event \in {"pre", "post"} : OnTask(h, c, event)
    BY <1>4 DEF PreToolUse, PostToolUse
  <2>2. UNCHANGED <<tracker, ledger, cut, recorded>>
    BY <2>1 DEF OnTask, stampsHistory
  <2>3. CASE UNCHANGED <<hook, overlapped>>
    <3>1. UNCHANGED <<tracker, ledger, cut, recorded, hook, overlapped>>
      BY <2>2, <2>3
    <3> QED BY <3>1 DEF RecordedFollowed, Followed, AtWork
  <2>4. CASE ~ UNCHANGED <<hook, overlapped>>
    <3>1. hook[h] = Resting /\ \E j : JobOf(j) /\ j.at = "ledger" /\ Begin(h, j)
      BY <2>1, <2>4, OnTaskDoes
    <3>2. PICK j : JobOf(j) /\ j.at = "ledger" /\ Begin(h, j)
      BY <3>1
    <3>3. \A e : StillThere(ledger[j.run], tracker[j.run], e) => JobFollows(ledger[j.run], tracker[j.run], j, e)
      BY <3>2 DEF JobFollows, Carries
    <3> QED BY <2>2, <3>1, <3>2, <3>3, FollowsBegin
  <2> QED BY <2>3, <2>4
<1>5. ASSUME NEW h \in Hook, NEW r \in Run, OnFileWrite(h, r)
      PROVE  RecordedFollowed'
  <2>1. hook[h] = Resting
        /\ \E j : JobOf(j) /\ j.at = "drain" /\ j.run = r /\ j.board = tracker[r] /\ Begin(h, j)
    BY <1>5, OnFileWriteDoes
  <2>2. PICK j : JobOf(j) /\ j.at = "drain" /\ j.run = r /\ j.board = tracker[r] /\ Begin(h, j)
    BY <2>1
  <2>3. \A e : StillThere(ledger[j.run], tracker[j.run], e) => JobFollows(ledger[j.run], tracker[j.run], j, e)
    BY <2>2 DEF JobFollows, Carries
  <2>4. UNCHANGED <<tracker, ledger, cut, recorded>>
    BY <1>5 DEF OnFileWrite, stampsHistory
  <2> QED BY <2>1, <2>2, <2>3, <2>4, FollowsBegin
<1>6. ASSUME NEW h \in Hook, ReadLedger(h)
      PROVE  RecordedFollowed'
  <2>1. PICK job, r : job = hook[h] /\ r = job.run
    OBVIOUS
  <2>2. PICK l, j :
           /\ l \in LedgerRead(h)
           /\ job.at = "ledger" /\ job # Resting
           /\ JobOf(j) /\ Proceed(h, j) /\ j # Resting
           /\ j.event = job.event /\ j.run = job.run
           /\ Carries(j) /\ ~Holds(j)
           /\ j.at = (IF job.event = "pre" THEN "save" ELSE "board")
           /\ j.ledger.spans = Usable(l).spans /\ LedgerOf(j.ledger)
    <3>1. \E l, j :
           /\ l \in LedgerRead(h)
           /\ job.at = "ledger" /\ job # Resting
           /\ JobOf(j) /\ Proceed(h, j) /\ j # Resting
           /\ j.event = job.event /\ j.run = job.run /\ j.call = job.call
           /\ Carries(j) /\ ~Holds(j)
           /\ j.at = (IF job.event = "pre" THEN "save" ELSE "board")
           /\ LedgerOf(Usable(l)) /\ j.ledger.spans = Usable(l).spans
      BY <1>6, <2>1, ReadLedgerDoes
    <3>2. \A j : JobOf(j) /\ Carries(j) => LedgerOf(j.ledger)
      BY DEF JobOf
    <3> QED BY <3>1, <3>2
  <2>3. UNCHANGED <<tracker, ledger, cut, recorded>> /\ r \in Run
    BY <1>6, <2>1, <2>2, AtHand DEF ReadLedger, stampsHistory
  <2>4. ASSUME NEW c \in recorded[r], r \notin overlapped \cup cut, Sole(c)
        PROVE  JobFollows(ledger[r], tracker[r], j, c)
    <3>1. StillThere(ledger[r], tracker[r], c)
      BY <1>3, <2>1, <2>2, <2>4 DEF JobFollows
    <3>2. l = ledger[r] /\ LedgerOf(ledger[r])
      BY <1>2, <2>1, <2>2, <2>3, <2>4, ReadsAlone
    <3>3. Usable(l) = l /\ l # Truncated /\ j.ledger # Truncated
      BY <2>2, <3>2, StampsValues DEF Usable, LedgerOf
    <3>4. Has(ledger[r], c) => Has(j.ledger, c)
      BY <2>2, <3>2, <3>3 DEF Has
    <3> QED BY <2>2, <3>1, <3>4 DEF JobFollows, StillThere
  <2>5. SavesOwn(j)
    BY <2>2 DEF SavesOwn
  <2> QED BY <2>1, <2>2, <2>3, <2>4, <2>5, FollowsProceed
<1>7. ASSUME NEW h \in Hook, ReadBoard(h)
      PROVE  RecordedFollowed'
  <2>1. PICK job, r : job = hook[h] /\ r = job.run
    OBVIOUS
  <2>2. PICK b, j :
           /\ b \in BoardRead(job.run)
           /\ job.at = "board" /\ job # Resting /\ ~Holds(job) /\ Proceed(h, j)
           /\ \/ b = Truncated /\ j = Resting
              \/ /\ b # Truncated /\ j # Resting /\ JobOf(j)
                 /\ j.event = job.event /\ j.run = job.run /\ j.call = job.call
                 /\ Holds(j) /\ j.board = b
                 /\ job.event = "post" => /\ Carries(job) /\ Carries(j) /\ j.at = "save"
                                          /\ j.ledger = Returned(job.ledger, b.agents, job.call)
                 /\ job.event # "post" => j.at = "drain"
    BY <1>7, <2>1, ReadBoardDoes
  <2>3. UNCHANGED <<tracker, ledger, cut, recorded>> /\ r \in Run /\ JobOf(job)
    BY <1>7, <2>1, <2>2, AtHand DEF ReadBoard, stampsHistory
  <2>4. job.event = "post" => LedgerOf(job.ledger) /\ job.call \in Calls
    BY <2>2, <2>3 DEF JobOf, Carries
  <2>5. SavesOwn(j)
    <3>1. CASE j # Resting /\ job.event = "post"
      <4>1. Has(j.ledger, job.call)
        BY <2>2, <2>4, <3>1, ReturnedHas
      <4> QED BY <2>2, <3>1, <4>1 DEF SavesOwn
    <3>2. CASE ~(j # Resting /\ job.event = "post")
      BY <2>2, <3>2 DEF SavesOwn
    <3> QED BY <3>1, <3>2
  <2>6. ASSUME NEW c \in recorded[r], r \notin overlapped \cup cut, Sole(c)
        PROVE  IF j = Resting THEN StillThere(ledger[r], tracker[r], c) ELSE JobFollows(ledger[r], tracker[r], j, c)
    <3>1. JobFollows(ledger[r], tracker[r], job, c)
      BY <1>3, <2>1, <2>2, <2>6
    <3>2. StillThere(ledger[r], tracker[r], c)
      BY <2>2, <3>1 DEF JobFollows
    <3>3. b = tracker[r]
      BY <2>1, <2>2, <2>6, ReadsAlone
    <3>4. CASE j # Resting /\ job.event = "post"
      <4>1. StillThere(job.ledger, tracker[r], c)
        BY <2>2, <3>1, <3>4 DEF JobFollows
      <4>2. Has(job.ledger, c) => Has(j.ledger, c)
        BY <2>2, <2>4, <3>4, ReturnedHas
      <4>3. StillThere(j.ledger, tracker[r], c)
        BY <4>1, <4>2 DEF StillThere
      <4> QED BY <2>2, <3>2, <3>3, <3>4, <4>3 DEF JobFollows
    <3>5. CASE j # Resting /\ job.event # "post"
      <4>1. j.at = "drain" /\ ~Carries(j) /\ j.board = tracker[r]
        BY <2>2, <3>3, <3>5 DEF Carries
      <4> QED BY <3>2, <3>5, <4>1 DEF JobFollows
    <3> QED BY <3>2, <3>4, <3>5
  <2> QED BY <2>1, <2>2, <2>3, <2>5, <2>6, FollowsProceed
<1>8. ASSUME NEW h \in Hook, SaveLedger(h)
      PROVE  RecordedFollowed'
  <2>1. PICK job, r : job = hook[h] /\ r = job.run
    OBVIOUS
  <2>2. PICK j :
           /\ job.at = "save" /\ job # Resting /\ Carries(job) /\ LedgerOf(job.ledger)
           /\ JobOf(j) /\ Proceed(h, j) /\ j # Resting /\ ~Carries(j)
           /\ j.run = job.run
           /\ ledger' = [ledger EXCEPT ![job.run] = job.ledger]
           /\ \/ job.event = "pre" /\ j.at = "board" /\ ~Holds(j) /\ recorded' = recorded
              \/ /\ job.event = "post" /\ j.at = "drain" /\ Holds(job) /\ Holds(j) /\ j.board = job.board
                 /\ recorded' = [recorded EXCEPT ![job.run] = @ \cup {job.call}]
    <3>1. \E j :
           /\ job.at = "save" /\ job # Resting /\ Carries(job) /\ LedgerOf(job.ledger)
           /\ job.call \in Calls
           /\ JobOf(j) /\ Proceed(h, j) /\ j # Resting /\ ~Carries(j)
           /\ j.event = job.event /\ j.run = job.run /\ j.call = job.call
           /\ ledger' = [ledger EXCEPT ![job.run] = job.ledger]
           /\ \/ job.event = "pre" /\ j.at = "board" /\ ~Holds(j) /\ recorded' = recorded
              \/ /\ job.event = "post" /\ j.at = "drain" /\ Holds(job) /\ Holds(j) /\ j.board = job.board
                 /\ recorded' = [recorded EXCEPT ![job.run] = @ \cup {job.call}]
      BY <1>8, <2>1, SaveLedgerDoes
    <3> QED BY <3>1
  <2>3. UNCHANGED <<tracker, cut>> /\ r \in Run
    BY <1>8, <2>1, <2>2, AtHand DEF SaveLedger
  <2>4. /\ ledger'[r] = job.ledger /\ \A x \in Run \ {r} : ledger'[x] = ledger[x]
    BY <1>1, <2>1, <2>2, <2>3 DEF FilesTyped
  <2>5. /\ \A x \in Run \ {r} : recorded'[x] = recorded[x]
        /\ recorded'[r] = recorded[r] \/ (job.event = "post" /\ recorded'[r] = recorded[r] \cup {job.call})
    BY <2>1, <2>2, <2>3 DEF StampsTyped, CountsTyped
  <2>6. ASSUME NEW c \in recorded'[r], r \notin overlapped \cup cut, Sole(c)
        PROVE  JobFollows(ledger'[r], tracker'[r], j, c)
    <3>1. CASE c \in recorded[r]
      <4>1. JobFollows(ledger[r], tracker[r], job, c)
        BY <1>3, <2>1, <2>2, <2>6, <3>1
      <4>2. /\ StillThere(job.ledger, tracker[r], c)
            /\ Holds(job) => StillThere(job.ledger, job.board, c)
        BY <2>2, <4>1 DEF JobFollows
      <4> QED BY <2>2, <2>3, <2>4, <4>2 DEF JobFollows
    <3>2. CASE c = job.call /\ job.event = "post"
      <4>1. Has(job.ledger, c)
        BY <2>1, <2>2, <3>2 DEF RecordedFollowed
      <4>2. \A b : StillThere(job.ledger, b, c)
        BY <4>1 DEF StillThere
      <4> QED BY <2>2, <2>3, <2>4, <4>2 DEF JobFollows
    <3> QED BY <2>5, <3>1, <3>2
  <2>7. SavesOwn(j)
    BY <2>2 DEF SavesOwn
  <2> QED BY <2>1, <2>2, <2>3, <2>4, <2>5, <2>6, <2>7, FollowsProceed
<1>9. ASSUME NEW h \in Hook, ReadSpans(h)
      PROVE  RecordedFollowed'
  <2>1. PICK job, r : job = hook[h] /\ r = job.run
    OBVIOUS
  <2>2. PICK l, j, d : l \in LedgerRead(h) /\ Drains(h, job, l, j, d)
    BY <1>9, <2>1, ReadSpansDoes
  <2>3. /\ job.at = "drain" /\ job # Resting /\ BoardOf(job.board, r)
        /\ Proceed(h, j) /\ (j = Resting \/ (JobOf(j) /\ j.run = hook[h].run))
    BY <2>1, <2>2 DEF Drains
  <2>4. UNCHANGED <<tracker, ledger, cut, recorded>> /\ r \in Run
    BY <1>9, <2>1, <2>3, AtHand DEF ReadSpans, stampsHistory
  <2>5. SavesOwn(j)
    BY <2>2 DEF SavesOwn, Drains
  <2>6. ASSUME NEW c \in recorded[r], r \notin overlapped \cup cut, Sole(c)
        PROVE  IF j = Resting THEN StillThere(ledger[r], tracker[r], c) ELSE JobFollows(ledger[r], tracker[r], j, c)
    <3>1. StillThere(ledger[r], tracker[r], c) /\ StillThere(ledger[r], job.board, c) /\ c \in Calls
      BY <1>1, <1>3, <2>1, <2>3, <2>4, <2>6 DEF JobFollows
    <3>2. l = ledger[r] /\ LedgerOf(l)
      BY <1>2, <2>1, <2>2, <2>3, <2>4, <2>6, ReadsAlone
    <3>3. Usable(l) = l
      BY <3>2, StampsValues DEF Usable, LedgerOf
    <3>4. CASE j # Resting /\ j.at = "stamp"
      <4>1. ~Carries(j) /\ j.board = job.board
        BY <2>2, <3>4 DEF Drains
      <4> QED BY <3>1, <3>4, <4>1 DEF JobFollows
    <3>5. CASE j # Resting /\ j.at = "trim"
      <4>1. /\ JobOf(j) /\ j.run = r /\ Holds(j) /\ Carries(j)
            /\ j.board.agents = d.agents /\ j.ledger.spans = d.left
            /\ DrainGoes(job.board.agents, l.spans, d, Len(l.spans))
        BY <2>1, <2>2, <3>3, <3>5 DEF Drains
      <4>2. LedgerOf(j.ledger) /\ BoardOf(j.board, r)
        BY <4>1 DEF JobOf
      <4>3. StillThere(j.ledger, j.board, c)
        BY <2>3, <2>6, <3>1, <3>2, <4>1, <4>2, DrainKeeps
      <4> QED BY <3>1, <3>5, <4>3 DEF JobFollows
    <3>6. j = Resting \/ j.at = "stamp" \/ j.at = "trim"
      BY <2>2 DEF Drains
    <3> QED BY <3>1, <3>4, <3>5, <3>6
  <2> QED BY <2>1, <2>3, <2>4, <2>5, <2>6, FollowsProceed
<1>10. ASSUME NEW h \in Hook, TrimLedger(h)
       PROVE  RecordedFollowed'
  <2>1. PICK job, r : job = hook[h] /\ r = job.run
    OBVIOUS
  <2>2. PICK j :
           /\ job.at = "trim" /\ job # Resting /\ Carries(job) /\ Holds(job)
           /\ JobOf(j) /\ Proceed(h, j) /\ j # Resting /\ ~Carries(j)
           /\ j.at = "stamp" /\ j.run = job.run /\ j.board = job.board
           /\ ledger' = [ledger EXCEPT ![job.run] = job.ledger]
    <3>1. \E j :
           /\ job.at = "trim" /\ job # Resting /\ Carries(job) /\ Holds(job) /\ LedgerOf(job.ledger)
           /\ JobOf(j) /\ Proceed(h, j) /\ j # Resting /\ ~Carries(j)
           /\ j.at = "stamp" /\ j.event = job.event /\ j.run = job.run
           /\ Holds(j) /\ j.board = job.board
           /\ ledger' = [ledger EXCEPT ![job.run] = job.ledger]
      BY <1>10, <2>1, TrimLedgerDoes
    <3> QED BY <3>1
  <2>3. UNCHANGED <<tracker, cut, recorded>> /\ r \in Run
    BY <1>10, <2>1, <2>2, AtHand DEF TrimLedger, stampsHistory
  <2>4. /\ ledger'[r] = job.ledger /\ \A x \in Run \ {r} : ledger'[x] = ledger[x]
    BY <1>1, <2>1, <2>2, <2>3 DEF FilesTyped
  <2>5. ASSUME NEW c \in recorded[r], r \notin overlapped \cup cut, Sole(c)
        PROVE  JobFollows(ledger'[r], tracker'[r], j, c)
    <3>1. StillThere(job.ledger, job.board, c)
      BY <1>3, <2>1, <2>2, <2>5 DEF JobFollows
    <3> QED BY <2>2, <2>4, <3>1 DEF JobFollows
  <2>6. SavesOwn(j)
    BY <2>2 DEF SavesOwn
  <2> QED BY <2>1, <2>2, <2>3, <2>4, <2>5, <2>6, FollowsProceed
<1>11. ASSUME NEW h \in Hook, WriteBoard(h)
       PROVE  RecordedFollowed'
  <2>1. PICK job, r : job = hook[h] /\ r = job.run
    OBVIOUS
  <2>2. /\ job.at = "stamp" /\ job # Resting
        /\ Proceed(h, Resting) /\ tracker' = [tracker EXCEPT ![r] = job.board]
    BY <1>11, <2>1, WriteBoardDoes
  <2>3. UNCHANGED <<ledger, cut, recorded>> /\ r \in Run
    BY <1>11, <2>1, <2>2, AtHand DEF WriteBoard, stampsHistory
  <2>4. /\ tracker'[r] = job.board /\ \A x \in Run \ {r} : tracker'[x] = tracker[x]
    BY <1>1, <2>2, <2>3 DEF FilesTyped
  <2>5. ASSUME NEW c \in recorded[r], r \notin overlapped \cup cut, Sole(c)
        PROVE  StillThere(ledger'[r], tracker'[r], c)
    BY <1>3, <2>1, <2>2, <2>3, <2>4, <2>5 DEF JobFollows
  <2>6. SavesOwn(Resting)
    BY DEF SavesOwn
  <2> QED BY <2>1, <2>2, <2>3, <2>4, <2>5, <2>6, FollowsProceed
<1>12. ASSUME NEW h \in Hook, Kill(h)
       PROVE  RecordedFollowed'
  <2>1. PICK r : r = hook[h].run
    OBVIOUS
  <2>2. /\ r \in Run /\ hook[h] # Resting /\ Proceed(h, Resting) /\ cut' = cut \cup {r}
        /\ tracker' = [tracker EXCEPT ![r] = tracker[r]] \/ tracker' = [tracker EXCEPT ![r] = Truncated]
        /\ ledger' = [ledger EXCEPT ![r] = ledger[r]] \/ ledger' = [ledger EXCEPT ![r] = Truncated]
    BY <1>12, <2>1, KillDoes
  <2>3. \A x \in Run \ {r} : ledger'[x] = ledger[x] /\ tracker'[x] = tracker[x]
    BY <1>1, <2>2 DEF FilesTyped
  <2>4. recorded' = recorded
    BY <1>12 DEF Kill
  <2>5. SavesOwn(Resting)
    BY DEF SavesOwn
  <2> QED BY <2>1, <2>2, <2>3, <2>4, <2>5, FollowsProceed
<1>13. ASSUME NEW r \in Run, NEW b, NEW new, Stroke(r, b, new)
       PROVE  RecordedFollowed'
  <2>1. tracker'[r] = b /\ (\A x \in Run \ {r} : tracker'[x] = tracker[x])
        /\ UNCHANGED <<ledger, hook, overlapped, cut, recorded>>
    BY <1>1, <1>13 DEF Stroke, Orchestrate, FilesTyped
  <2>2. \A x \in Run : AtWork(x)' = AtWork(x)
    BY <2>1 DEF AtWork
  <2>3. \A c \in Calls : On(tracker[r], c) => On(b, c)
    <3>1. tracker[r] # Truncated /\ b # Truncated /\ Follows(tracker[r], b)
      BY <1>13, StampsValues DEF Stroke, BoardOf
    <3> QED BY <3>1, SameTimes
  <2>4. \A c \in Calls : \A l : StillThere(l, tracker[r], c) => StillThere(l, b, c)
    BY <2>3 DEF StillThere
  <2>5. \A c \in Calls : \A l, j : JobFollows(l, tracker[r], j, c) => JobFollows(l, b, j, c)
    BY <2>4 DEF JobFollows
  <2>6. \A x \in Run \ (overlapped \cup cut) : \A c \in recorded[x] : Sole(c) =>
          /\ AtWork(x)' = {} => StillThere(ledger[x], tracker'[x], c)
          /\ \A g \in AtWork(x)' : JobFollows(ledger[x], tracker'[x], hook[g], c)
    BY <1>1, <2>1, <2>2, <2>4, <2>5 DEF RecordedFollowed, Followed
  <2>7. \A g \in Hook : hook[g] # Resting /\ hook[g].at = "save" /\ hook[g].event = "post"
          => Has(hook[g].ledger, hook[g].call)
    BY DEF RecordedFollowed
  <2> QED BY <2>1, <2>6, <2>7 DEF RecordedFollowed, Followed
<1>14. CASE UNCHANGED stampsVars
  <2>1. UNCHANGED <<tracker, ledger, cut, recorded, hook, overlapped>>
    BY <1>14 DEF stampsVars, stampsHistory
  <2> QED BY <2>1 DEF RecordedFollowed, Followed, AtWork
<1>15. (\E h \in Hook : ReadLedger(h) \/ ReadBoard(h) \/ ReadSpans(h) \/ Kill(h)) => RecordedFollowed'
  BY <1>6, <1>7, <1>9, <1>12
<1>16. (\E h \in Hook : SaveLedger(h) \/ TrimLedger(h) \/ WriteBoard(h)) => RecordedFollowed'
  BY <1>8, <1>10, <1>11
<1> QED BY <1>4, <1>5, <1>13, <1>14, <1>15, <1>16, StampsSteps

\* Entries with a time of call c, and spans of it.
TimedAt(agents, c) == {e \in DOMAIN agents : \E f \in Fields : agents[e][f] = c}
WaitAt(spans, c)  == {i \in DOMAIN spans : spans[i].call = c}

OneAtMost(S) == \A x, y \in S : x = y

OnceOver(agents, spans, c) ==
  /\ OneAtMost(TimedAt(agents, c)) /\ OneAtMost(WaitAt(spans, c))
  /\ TimedAt(agents, c) = {} \/ WaitAt(spans, c) = {}

\* The times of a span of another call are not c.
OwnTimes(spans, c) == \A i \in DOMAIN spans, f \in Fields : spans[i][f] = c => spans[i].call = c

\* With each span of the drain a call still has one trace.
LEMMA OnceStep ==
  ASSUME NEW c \in Calls, NEW agents, NEW spans \in Seq(SpanRow), OwnTimes(spans, c), OnceOver(agents, spans, c),
         NEW acc, NEW n \in Nat, n + 1 \in DOMAIN spans, DrainGoes(agents, spans, acc, n),
         OnceOver(acc.agents, acc.left, c), NEW next, next = Drain1(acc, spans[n + 1])
  PROVE  OnceOver(next.agents, next.left, c)
<1>1. PICK s \in SpanRow : s = spans[n + 1]
  OBVIOUS
<1>2. PICK early, late, on : early = acc.agents /\ late = next.agents /\ on = Landing(early, s)
  OBVIOUS
<1>3. late = ApplySpan(early, s) /\ next.left = IF on # {} THEN acc.left ELSE Append(acc.left, s)
  BY <1>1, <1>2 DEF Drain1, LeftIn
<1>4. Entries(early)
  BY <1>2 DEF DrainGoes
<1>5. /\ DOMAIN late = DOMAIN early
      /\ on \subseteq DOMAIN early
      /\ \A d, e \in on : d = e
      /\ \A d \in DOMAIN early \ on : late[d] = early[d]
      /\ \A d \in on, f \in Fields : late[d][f] \in {early[d][f], s[f]}
  <2>1. /\ WrittenStays(early, late)
        /\ Landing(early, s) \subseteq DOMAIN early
        /\ \A d, e \in Landing(early, s) : d = e
        /\ \A d \in DOMAIN early \ Landing(early, s) : late[d] = early[d]
        /\ \A d \in Landing(early, s) : \A f \in Fields : late[d][f] \in {early[d][f], s[f]}
    BY <1>1, <1>3, <1>4, SpanLands
  <2> QED BY <1>2, <2>1 DEF WrittenStays
<1>6. PICK left \in Seq(SpanRow) : left = acc.left
  BY DEF DrainGoes
<1>7. Len(left) \in Nat /\ DOMAIN left = 1 .. Len(left)
  BY <1>6
<1>8. PICK rest : rest = next.left
  OBVIOUS
<1>9. on # {} => rest = left
  BY <1>3, <1>6, <1>8
<1>10. on = {} => /\ DOMAIN rest = 1 .. Len(left) + 1 /\ rest[Len(left) + 1] = s
                  /\ \A i \in 1 .. Len(left) : rest[i] = left[i]
  BY <1>3, <1>6, <1>7, <1>8
<1>11. CASE s.call # c
  <2>1. \A f \in Fields : s[f] # c
    BY <1>1, <1>11 DEF OwnTimes
  <2>2. TimedAt(late, c) \subseteq TimedAt(early, c)
    BY <1>5, <2>1 DEF TimedAt
  <2>3. WaitAt(rest, c) \subseteq WaitAt(left, c)
    <3>1. CASE on # {}
      BY <1>9, <3>1
    <3>2. CASE on = {}
      <4> SUFFICES ASSUME NEW i \in DOMAIN rest, rest[i].call = c PROVE i \in DOMAIN left /\ left[i].call = c
        BY DEF WaitAt
      <4>1. i # Len(left) + 1
        BY <1>10, <1>11, <3>2
      <4>2. i \in 1 .. Len(left)
        BY <1>7, <1>10, <3>2, <4>1
      <4> QED BY <1>7, <1>10, <3>2, <4>2
    <3> QED BY <3>1, <3>2
  <2> QED BY <1>2, <1>6, <1>8, <2>2, <2>3 DEF OnceOver, OneAtMost
<1>12. CASE s.call = c
  <2>1. n + 1 \in WaitAt(spans, c)
    BY <1>1, <1>12 DEF WaitAt
  <2>2. TimedAt(agents, c) = {} /\ \A i \in DOMAIN spans : spans[i].call = c => i = n + 1
    BY <2>1 DEF OnceOver, OneAtMost, WaitAt
  <2>3. \A i \in 1 .. n : i \in DOMAIN spans /\ i # n + 1
    OBVIOUS
  <2>4. WaitAt(left, c) = {}
    BY <1>6, <2>2, <2>3 DEF WaitAt, DrainGoes
  <2>5. TimedAt(early, c) = {}
    <3> SUFFICES ASSUME NEW e \in DOMAIN early, NEW f \in Fields, early[e][f] = c PROVE FALSE
      BY DEF TimedAt
    <3>1. e \in DOMAIN agents
      BY <1>2 DEF DrainGoes, WrittenStays
    <3>2. agents[e][f] # c
      BY <2>2, <3>1 DEF TimedAt
    <3>3. \E i \in 1 .. n : spans[i][f] = c
      BY <1>2, <3>1, <3>2 DEF DrainGoes
    <3> QED BY <2>2, <2>3, <3>3 DEF OwnTimes
  <2>6. TimedAt(late, c) \subseteq on
    BY <1>5, <2>5 DEF TimedAt
  <2>7. OneAtMost(TimedAt(late, c))
    BY <1>5, <2>6 DEF OneAtMost
  <2>8. CASE on = {}
    <3>1. \A i \in WaitAt(rest, c) : i = Len(left) + 1
      <4> TAKE i \in WaitAt(rest, c)
      <4>1. i \in 1 .. Len(left) + 1 /\ rest[i].call = c
        BY <1>10, <2>8 DEF WaitAt
      <4>2. i \in 1 .. Len(left) => left[i].call = c
        BY <1>10, <2>8, <4>1
      <4>3. i \notin 1 .. Len(left)
        BY <1>7, <2>4, <4>2 DEF WaitAt
      <4> QED BY <1>7, <4>1, <4>3
    <3> QED BY <1>2, <1>8, <2>6, <2>8, <3>1 DEF OnceOver, OneAtMost
  <2>9. CASE on # {}
    <3>1. WaitAt(rest, c) = {}
      BY <1>9, <2>4, <2>9
    <3> QED BY <1>2, <1>8, <2>7, <3>1 DEF OnceOver, OneAtMost
  <2> QED BY <2>8, <2>9
<1> QED BY <1>11, <1>12

\* Draining leaves at most one time for each call between the board and the spans left.
LEMMA OnceDrained ==
  ASSUME NEW c \in Calls, NEW agents, Entries(agents), NEW spans \in Seq(SpanRow), OwnTimes(spans, c),
         OnceOver(agents, spans, c), NEW d, d = Drained(agents, spans)
  PROVE  OnceOver(d.agents, d.left, c)
<1> DEFINE L == Len(spans)
<1>1. L \in Nat /\ DOMAIN spans = 1 .. L
  OBVIOUS
<1>2. PICK u : u = DrainedUpTo(agents, spans)
  OBVIOUS
<1>3. /\ u[0] = [agents |-> agents, left |-> <<>>]
      /\ \A n \in 1 .. L : u[n] = Drain1(u[n - 1], spans[n])
  BY <1>1, <1>2, DrainsInOrder
<1> DEFINE T == {n \in 0 .. L : DrainGoes(agents, spans, u[n], n) /\ OnceOver(u[n].agents, u[n].left, c)}
<1>4. 0 \in T
  <2>1. DrainGoes(agents, spans, u[0], 0)
    BY <1>3 DEF DrainGoes, WrittenStays
  <2>2. OnceOver(u[0].agents, u[0].left, c)
    BY <1>3 DEF OnceOver, WaitAt, OneAtMost
  <2> QED BY <1>1, <2>1, <2>2
<1>5. ASSUME NEW k \in 0 .. L, k < L, k \in T
      PROVE  k + 1 \in T
  <2>1. k \in Nat /\ k + 1 \in 1 .. L /\ (k + 1) - 1 = k /\ k + 1 \in 0 .. L
    BY <1>1, <1>5
  <2>2. u[k + 1] = Drain1(u[k], spans[k + 1])
    BY <1>3, <2>1
  <2>3. DrainGoes(agents, spans, u[k + 1], k + 1)
    BY <1>1, <1>5, <2>1, <2>2, DrainStep
  <2>4. OnceOver(u[k + 1].agents, u[k + 1].left, c)
    BY <1>1, <1>5, <2>1, <2>2, OnceStep
  <2> QED BY <2>1, <2>3, <2>4
<1>6. L \in T
  <2> HIDE DEF T
  <2>1. 0 .. L \subseteq T
    BY <1>1, <1>4, <1>5, OneByOne
  <2>2. L \in 0 .. L
    BY <1>1
  <2> QED BY <2>1, <2>2
<1> QED BY <1>2, <1>6 DEF Drained

\* What a drain leaves of a call in the ledger l and on the board b.
LEMMA DrainOnce ==
  ASSUME NEW l, LedgerOf(l), NEW m, LedgerOf(m), NEW b, NEW n, NEW r, BoardOf(b, r), BoardOf(n, r),
         NEW d, d = Drained(b.agents, l.spans), DrainGoes(b.agents, l.spans, d, Len(l.spans)),
         n.agents = d.agents, m.spans = d.left,
         NEW c \in Calls, Sole(c)
  PROVE  /\ On(n, c) => On(b, c) \/ Has(l, c)
         /\ Has(m, c) => Has(l, c)
         /\ BoardOnce(b, c) /\ LedgerOnce(l, c) /\ Not2(l, b, c) =>
              BoardOnce(n, c) /\ LedgerOnce(m, c) /\ Not2(m, n, c)
<1>1. /\ l # Truncated /\ m # Truncated /\ b # Truncated /\ n # Truncated
      /\ l.spans \in Seq(SpanRow) /\ Entries(b.agents)
  BY ThereAre
<1>2. c # Unset
  BY StampsValues
<1>3. PICK agents, spans : agents = b.agents /\ spans = l.spans
  OBVIOUS
<1>4. OwnTimes(spans, c)
  <2> SUFFICES ASSUME NEW i \in DOMAIN spans, NEW f \in Fields, spans[i][f] = c PROVE spans[i].call = c
    BY DEF OwnTimes
  <2>1. Input[c] = Input[spans[i].call]
    BY <1>2, <1>3 DEF LedgerOf
  <2>2. spans[i] \in SpanRow
    BY <1>1, <1>3
  <2>3. spans[i].call \in Calls
    BY <2>2 DEF SpanRow
  <2> QED BY <2>1, <2>3 DEF Sole
<1>5. DOMAIN d.agents = DOMAIN agents /\ DOMAIN spans = 1 .. Len(spans)
  BY <1>1, <1>3 DEF DrainGoes, WrittenStays
<1>6. On(n, c) => On(b, c) \/ Has(l, c)
  <2> SUFFICES ASSUME On(n, c) PROVE On(b, c) \/ Has(l, c)
    OBVIOUS
  <2>1. PICK e \in DOMAIN d.agents, f \in Fields : d.agents[e][f] = c
    BY DEF On, Fields
  <2>2. CASE agents[e][f] = c
    <3>1. On(b, c)
      BY <1>1, <1>3, <1>5, <2>1, <2>2 DEF On, Fields
    <3> QED BY <3>1
  <2>3. CASE \E i \in 1 .. Len(spans) : spans[i][f] = c
    <3>1. \E i \in DOMAIN spans : spans[i].call = c
      BY <1>4, <1>5, <2>3 DEF OwnTimes
    <3>2. Has(l, c)
      BY <1>1, <1>3, <3>1 DEF Has
    <3> QED BY <3>2
  <2>4. agents[e][f] = c \/ \E i \in 1 .. Len(spans) : spans[i][f] = c
    BY <1>3, <1>5, <2>1 DEF DrainGoes
  <2> QED BY <2>2, <2>3, <2>4
<1>7. Has(m, c) => Has(l, c)
  <2> SUFFICES ASSUME Has(m, c) PROVE Has(l, c)
    OBVIOUS
  <2>1. PICK k \in DOMAIN d.left : d.left[k].call = c
    BY DEF Has
  <2>2. PICK i \in DOMAIN spans : d.left[k] = spans[i]
    <3>1. \A p \in DOMAIN d.left : \E i \in 1 .. Len(spans) : d.left[p] = spans[i]
      BY <1>3 DEF DrainGoes
    <3>2. PICK i \in 1 .. Len(spans) : d.left[k] = spans[i]
      BY <2>1, <3>1
    <3> QED BY <1>5, <3>2
  <2> QED BY <1>1, <1>3, <2>1, <2>2 DEF Has
<1>8. \A x : x # Truncated => /\ On(x, c) <=> TimedAt(x.agents, c) # {}
                              /\ BoardOnce(x, c) <=> OneAtMost(TimedAt(x.agents, c))
  BY DEF On, BoardOnce, OneAtMost, TimedAt, Fields
<1>9. \A x : x # Truncated => /\ Has(x, c) <=> WaitAt(x.spans, c) # {}
                              /\ LedgerOnce(x, c) <=> OneAtMost(WaitAt(x.spans, c))
  BY DEF Has, LedgerOnce, OneAtMost, WaitAt
<1>10. OnceOver(agents, spans, c) => OnceOver(d.agents, d.left, c)
  BY <1>1, <1>3, <1>4, OnceDrained
<1>11. BoardOnce(b, c) /\ LedgerOnce(l, c) /\ Not2(l, b, c) => OnceOver(agents, spans, c)
  BY <1>1, <1>3, <1>8, <1>9 DEF OnceOver, Not2
<1>12. OnceOver(d.agents, d.left, c) => BoardOnce(n, c) /\ LedgerOnce(m, c) /\ Not2(m, n, c)
  BY <1>1, <1>8, <1>9 DEF OnceOver, Not2
<1> QED BY <1>6, <1>7, <1>10, <1>11, <1>12

\* Nothing of c has been there, and what has been made at run r is its own.
FileOnce(l, b, c) == BoardOnce(b, c) /\ LedgerOnce(l, c) /\ Not2(l, b, c)

\* It is enough to trace a call at the run of the hook that goes on.
LEMMA SingleProceed ==
  ASSUME StampsTyped, OneAtWork, NEW c \in Calls, Single(c),
         NEW h \in Hook, hook[h] # Resting, NEW j, Proceed(h, j), j = Resting \/ (JobOf(j) /\ j.run = hook[h].run),
         NEW r, r = hook[h].run, returned' = returned,
         \A x \in Run \ {r} : ledger'[x] = ledger[x] /\ tracker'[x] = tracker[x],
         On(tracker'[r], c) => Traced(c, r), Has(ledger'[r], c) => Traced(c, r),
         j # Resting /\ TracedIn(j, c) => Traced(c, r),
         OnceAt(r, c) /\ r \notin overlapped =>
           FileOnce(ledger'[r], tracker'[r], c) /\ (j # Resting => OnceIn(ledger'[r], tracker'[r], j, c))
  PROVE  Single(c)'
<1>1. /\ overlapped' = overlapped
      /\ hook'[h] = j /\ \A g \in Hook \ {h} : hook'[g] = hook[g]
      /\ \A x \in Run : AtWork(x)' = IF j = Resting /\ x = r THEN AtWork(x) \ {h} ELSE AtWork(x)
      /\ r \in Run /\ h \in AtWork(r)
  BY ProceedKeeps, AtHand DEF StampsTyped
<1>2. \A x \in Run : h \in AtWork(x) => x = r
  BY DEF AtWork
<1>3. \A x \in Run : AtWork(x)' \subseteq AtWork(x) /\ AtWork(x) \subseteq Hook
  BY <1>1 DEF AtWork
<1>4. \A x \in Run : h \in AtWork(x)' => x = r /\ j # Resting
  BY <1>1, <1>2
<1>5. ASSUME NEW x \in Run, Traced(c, x)'
      PROVE  Traced(c, x)
  <2>1. On(tracker'[x], c) \/ Has(ledger'[x], c) \/ \E g \in AtWork(x)' : TracedIn(hook'[g], c)
    BY <1>5 DEF Traced
  <2>2. CASE x = r
    <3>1. CASE \E g \in AtWork(x)' : TracedIn(hook'[g], c)
      <4>1. PICK g \in AtWork(x)' : TracedIn(hook'[g], c)
        BY <3>1
      <4>2. CASE g = h
        BY <1>1, <1>4, <2>2, <4>1, <4>2
      <4>3. CASE g # h
        BY <1>1, <1>3, <4>1, <4>3 DEF Traced
      <4> QED BY <4>2, <4>3
    <3> QED BY <2>1, <2>2, <3>1
  <2>3. CASE x # r
    <3>1. \A g \in AtWork(x)' : g # h /\ g \in AtWork(x) /\ hook'[g] = hook[g]
      BY <1>1, <1>3, <1>4, <2>3
    <3> QED BY <2>1, <2>3, <3>1 DEF Traced
  <2> QED BY <2>2, <2>3
<1>6. ASSUME NEW x \in Run, x \notin overlapped
      PROVE  /\ FileOnce(ledger'[x], tracker'[x], c)
             /\ \A g \in AtWork(x)' : OnceIn(ledger'[x], tracker'[x], hook'[g], c)
  <2>0. OnceAt(x, c)
    BY <1>6 DEF Single
  <2>1. CASE x = r
    <3>1. AtWork(r) = {h}
      BY <1>6, <2>1, ReadsAlone
    <3>2. \A g \in AtWork(r)' : g = h /\ j # Resting
      BY <1>1, <1>3, <1>4, <3>1
    <3> QED BY <1>1, <1>6, <2>0, <2>1, <3>2
  <2>2. CASE x # r
    <3>1. \A g \in AtWork(x)' : g # h /\ g \in AtWork(x) /\ hook'[g] = hook[g]
      BY <1>1, <1>3, <1>4, <2>2
    <3> QED BY <2>0, <2>2, <3>1 DEF OnceAt, FileOnce
  <2> QED BY <2>1, <2>2
<1>7. \A x \in Run : Traced(c, x)' => c \in returned' /\ x \in Mentions[c]
  BY <1>5 DEF Single
<1>8. \A x, y \in Run : Traced(c, x)' /\ Traced(c, y)' => x = y
  BY <1>5 DEF Single
<1>9. \A x \in Run \ overlapped' : OnceAt(x, c)'
  <2> TAKE x \in Run \ overlapped'
  <2>1. /\ BoardOnce(tracker'[x], c) /\ LedgerOnce(ledger'[x], c) /\ Not2(ledger'[x], tracker'[x], c)
        /\ \A g \in AtWork(x)' : OnceIn(ledger'[x], tracker'[x], hook'[g], c)
    BY <1>1, <1>6 DEF FileOnce
  <2> QED BY <2>1 DEF OnceAt
<1> QED BY <1>7, <1>8, <1>9 DEF Single

\* A hook that sets to work brings no trace, or the first of a call that returns.
LEMMA SingleBegin ==
  ASSUME StampsTyped, OneAtWork, NEW c \in Calls, Single(c),
         NEW h \in Hook, hook[h] = Resting, NEW j, Begin(h, j), JobOf(j),
         UNCHANGED <<tracker, ledger>>, returned \subseteq returned',
         TracedIn(j, c) => \/ Traced(c, j.run)
                           \/ c \notin returned /\ c \in returned' /\ j.run \in Mentions[c],
         OnceAt(j.run, c) => OnceIn(ledger[j.run], tracker[j.run], j, c)
  PROVE  Single(c)'
<1>1. /\ overlapped \subseteq overlapped'
      /\ hook'[h] = j /\ \A g \in Hook \ {h} : hook'[g] = hook[g]
      /\ \A x \in Run : AtWork(x)' = IF x = j.run THEN AtWork(x) \cup {h} ELSE AtWork(x)
      /\ \A x \in Run : h \notin AtWork(x)
      /\ j.run \in Run
  BY BeginKeeps, JobIsWork DEF StampsTyped
<1>2. \A x \in Run : \A g \in AtWork(x) : hook'[g] = hook[g]
  BY <1>1 DEF AtWork
<1>3. ASSUME NEW x \in Run, Traced(c, x)'
      PROVE  Traced(c, x) \/ (x = j.run /\ TracedIn(j, c))
  <2>1. On(tracker[x], c) \/ Has(ledger[x], c) \/ \E g \in AtWork(x)' : TracedIn(hook'[g], c)
    BY <1>3 DEF Traced
  <2>2. \A g \in AtWork(x)' : g \in AtWork(x) \/ (g = h /\ x = j.run)
    BY <1>1
  <2> QED BY <1>1, <1>2, <2>1, <2>2 DEF Traced
<1>4. \A x \in Run : Traced(c, x)' => c \in returned' /\ x \in Mentions[c]
  BY <1>1, <1>3 DEF Single
<1>5. \A x, y \in Run : Traced(c, x)' /\ Traced(c, y)' => x = y
  <2>1. c \notin returned => \A x \in Run : ~Traced(c, x)
    BY DEF Single
  <2>2. \A x \in Run : Traced(c, x)' => \/ Traced(c, x)
                                        \/ c \notin returned /\ x = j.run
    BY <1>3
  <2> QED BY <2>1, <2>2 DEF Single
<1>6. \A x \in Run \ overlapped' : OnceAt(x, c)'
  <2> TAKE x \in Run \ overlapped'
  <2>1. OnceAt(x, c)
    BY <1>1 DEF Single
  <2>2. \A g \in AtWork(x)' : OnceIn(ledger[x], tracker[x], hook'[g], c)
    <3> TAKE g \in AtWork(x)'
    <3>1. CASE g \in AtWork(x)
      BY <1>2, <2>1, <3>1 DEF OnceAt
    <3>2. CASE g \notin AtWork(x)
      <4>1. g = h /\ x = j.run
        BY <1>1, <3>2
      <4> QED BY <1>1, <2>1, <4>1
    <3> QED BY <3>1, <3>2
  <2> QED BY <2>1, <2>2 DEF OnceAt
<1> QED BY <1>4, <1>5, <1>6 DEF Single

\* Every step keeps a call of one hook to a single time.
LEMMA SingleStep ==
  ASSUME StampsTyped, OneAtWork, NEW c \in Calls, Sole(c), Single(c), [StampsNext]_stampsVars
  PROVE  Single(c)'
<1>1. FilesTyped /\ HooksTyped
  BY DEF StampsTyped
<1>2. ASSUME NEW h \in Hook, hook[h] # Resting, NEW r, r = hook[h].run
      PROVE  /\ r \in Run
             /\ TracedIn(hook[h], c) \/ On(tracker[r], c) \/ Has(ledger[r], c) => Traced(c, r)
             /\ OnceAt(r, c) => FileOnce(ledger[r], tracker[r], c) /\ OnceIn(ledger[r], tracker[r], hook[h], c)
  <2>1. r \in Run /\ h \in AtWork(r)
    BY <1>2, AtHand
  <2> QED BY <2>1 DEF Traced, OnceAt, FileOnce
<1>3. \A r \in Run : Traced(c, r) => c \in returned
  BY DEF Single
<1>4. ASSUME UNCHANGED <<tracker, ledger, hook, overlapped>>, returned \subseteq returned'
      PROVE  Single(c)'
  <2>1. \A x \in Run : AtWork(x)' = AtWork(x)
    BY <1>4 DEF AtWork
  <2>2. \A x \in Run : Traced(c, x)' <=> Traced(c, x)
    BY <1>4, <2>1 DEF Traced
  <2>3. \A x \in Run : OnceAt(x, c)' <=> OnceAt(x, c)
    BY <1>4, <2>1 DEF OnceAt
  <2>4. /\ \A r \in Run : Traced(c, r)' => c \in returned' /\ r \in Mentions[c]
        /\ \A r, x \in Run : Traced(c, r)' /\ Traced(c, x)' => r = x
        /\ \A r \in Run \ overlapped' : OnceAt(r, c)'
    BY <1>4, <2>2, <2>3 DEF Single
  <2> QED BY <2>4 DEF Single
<1>5. ASSUME NEW h \in Hook, NEW e \in Calls, PreToolUse(h, e) \/ PostToolUse(h, e)
      PROVE  Single(c)'
  <2>1. PICK event \in {"pre", "post"} :
          /\ OnTask(h, e, event) /\ returned \subseteq returned'
          /\ event = "post" => e \notin returned /\ e \in returned'
    BY <1>5 DEF PreToolUse, PostToolUse
  <2>2. UNCHANGED <<tracker, ledger>>
    BY <2>1 DEF OnTask
  <2>3. CASE UNCHANGED <<hook, overlapped>>
    BY <1>4, <2>1, <2>2, <2>3
  <2>4. CASE ~ UNCHANGED <<hook, overlapped>>
    <3>1. hook[h] = Resting
          /\ \E j : /\ JobOf(j) /\ j.at = "ledger" /\ j.event = event /\ j.call = e
                    /\ j.run \in Mentions[e] /\ Begin(h, j)
      BY <2>1, <2>4, OnTaskDoes
    <3>2. PICK j : /\ JobOf(j) /\ j.at = "ledger" /\ j.event = event /\ j.call = e
                   /\ j.run \in Mentions[e] /\ Begin(h, j)
      BY <3>1
    <3>3. ~Holds(j) /\ ~Carries(j) /\ j.run \in Run
      BY <3>2 DEF JobOf, Carries
    <3>4. TracedIn(j, c) => c = e /\ event = "post"
      BY <3>2, <3>3 DEF TracedIn, Returning
    <3>5. OnceIn(ledger[j.run], tracker[j.run], j, c)
      <4>1. Returning(j, c) => ~Traced(c, j.run)
        BY <1>3, <2>1, <3>2, <3>3 DEF Returning
      <4> QED BY <3>3, <4>1 DEF OnceIn, Traced
    <3> QED BY <2>1, <2>2, <3>1, <3>2, <3>4, <3>5, SingleBegin
  <2> QED BY <2>3, <2>4
<1>6. ASSUME NEW h \in Hook, NEW r \in Run, OnFileWrite(h, r)
      PROVE  Single(c)'
  <2>1. hook[h] = Resting
        /\ \E j : /\ JobOf(j) /\ j.at = "drain" /\ j.event = "file" /\ j.run = r /\ j.board = tracker[r]
                  /\ Begin(h, j)
    BY <1>6, OnFileWriteDoes
  <2>2. PICK j : /\ JobOf(j) /\ j.at = "drain" /\ j.event = "file" /\ j.run = r /\ j.board = tracker[r]
                 /\ Begin(h, j)
    BY <2>1
  <2>3. ~Carries(j) /\ ~Returning(j, c)
    BY <2>2 DEF Carries, Returning
  <2>4. TracedIn(j, c) => Traced(c, r)
    BY <2>2, <2>3 DEF TracedIn, Traced
  <2>5. OnceAt(r, c) => OnceIn(ledger[r], tracker[r], j, c)
    BY <2>2, <2>3 DEF OnceAt, OnceIn
  <2>6. UNCHANGED <<tracker, ledger>> /\ returned' = returned
    BY <1>6 DEF OnFileWrite, calls
  <2> QED BY <2>1, <2>2, <2>4, <2>5, <2>6, SingleBegin
<1>7. ASSUME NEW h \in Hook, ReadLedger(h)
      PROVE  Single(c)'
  <2>1. PICK job, r : job = hook[h] /\ r = job.run
    OBVIOUS
  <2>2. PICK l, j :
           /\ l \in LedgerRead(h)
           /\ job.at = "ledger" /\ job # Resting
           /\ JobOf(j) /\ Proceed(h, j) /\ j # Resting
           /\ j.event = job.event /\ j.run = job.run /\ j.call = job.call
           /\ Carries(j) /\ ~Holds(j)
           /\ j.at = (IF job.event = "pre" THEN "save" ELSE "board")
           /\ LedgerOf(Usable(l)) /\ j.ledger.spans = Usable(l).spans
    BY <1>7, <2>1, ReadLedgerDoes
  <2>3. UNCHANGED <<tracker, ledger>> /\ returned' = returned
    BY <1>7 DEF ReadLedger, calls
  <2>4. /\ TracedIn(job, c) \/ On(tracker[r], c) \/ Has(ledger[r], c) => Traced(c, r)
        /\ OnceAt(r, c) => FileOnce(ledger[r], tracker[r], c) /\ OnceIn(ledger[r], tracker[r], job, c)
    BY <1>2, <2>1, <2>2
  <2>5. l = ledger[r] \/ l = Truncated
    BY <2>1, <2>2, AtHand
  <2>6. Has(j.ledger, c) => Has(ledger[r], c)
    BY <2>2, <2>5 DEF Has, Usable, NoLedger
  <2>7. Returning(j, c) => Returning(job, c)
    BY <2>2 DEF Returning
  <2>8. TracedIn(j, c) => Traced(c, r)
    BY <2>2, <2>4, <2>6, <2>7 DEF TracedIn
  <2>9. OnceAt(r, c) => OnceIn(ledger[r], tracker[r], j, c)
    <3> SUFFICES ASSUME OnceAt(r, c) PROVE OnceIn(ledger[r], tracker[r], j, c)
      OBVIOUS
    <3>1. LedgerOnce(j.ledger, c)
      <4>1. LedgerOnce(ledger[r], c)
        BY DEF OnceAt
      <4>2. CASE l = Truncated
        BY <2>2, <4>2 DEF LedgerOnce, Usable, NoLedger
      <4>3. CASE l # Truncated
        BY <2>2, <2>5, <4>1, <4>3 DEF LedgerOnce, Usable
      <4> QED BY <4>2, <4>3
    <3>2. Not2(j.ledger, tracker[r], c)
      BY <2>6 DEF OnceAt, Not2
    <3>3. Returning(j, c) => ~Has(ledger[r], c) /\ ~On(tracker[r], c)
      BY <2>4, <2>7 DEF OnceIn
    <3> QED BY <2>2, <2>6, <3>1, <3>2, <3>3 DEF OnceIn
  <2> QED BY <2>1, <2>2, <2>3, <2>4, <2>8, <2>9, SingleProceed
<1>8. ASSUME NEW h \in Hook, ReadBoard(h)
      PROVE  Single(c)'
  <2>1. PICK job, r : job = hook[h] /\ r = job.run
    OBVIOUS
  <2>2. PICK b, j :
           /\ b \in BoardRead(job.run)
           /\ job.at = "board" /\ job # Resting /\ ~Holds(job) /\ Proceed(h, j)
           /\ \/ b = Truncated /\ j = Resting
              \/ /\ b # Truncated /\ j # Resting /\ JobOf(j)
                 /\ j.event = job.event /\ j.run = job.run /\ j.call = job.call
                 /\ Holds(j) /\ j.board = b
                 /\ job.event = "post" => /\ Carries(job) /\ Carries(j) /\ j.at = "save"
                                          /\ j.ledger = Returned(job.ledger, b.agents, job.call)
                 /\ job.event # "post" => j.at = "drain"
    BY <1>8, <2>1, ReadBoardDoes
  <2>3. UNCHANGED <<tracker, ledger>> /\ returned' = returned
    BY <1>8 DEF ReadBoard, calls
  <2>4. /\ TracedIn(job, c) \/ On(tracker[r], c) \/ Has(ledger[r], c) => Traced(c, r)
        /\ OnceAt(r, c) => FileOnce(ledger[r], tracker[r], c) /\ OnceIn(ledger[r], tracker[r], job, c)
    BY <1>2, <2>1, <2>2
  <2>5. b = tracker[r] \/ b = Truncated
    BY <2>1, <2>2, AtHand
  <2>6. JobOf(job)
    BY <2>1, <2>2, AtHand
  <2>7. CASE j = Resting
    BY <2>1, <2>2, <2>3, <2>4, <2>7, SingleProceed
  <2>8. CASE j # Resting /\ job.event = "post"
    <3>1. /\ b = tracker[r] /\ JobOf(j) /\ j.call = job.call /\ j.run = job.run /\ Holds(j) /\ j.board = b
          /\ Carries(job) /\ Carries(j) /\ j.at = "save" /\ j.ledger = Returned(job.ledger, b.agents, job.call)
      BY <2>2, <2>5, <2>8
    <3>2. LedgerOf(job.ledger) /\ job.call \in Calls
      BY <2>2, <2>6, <2>8, <3>1 DEF JobOf
    <3>3. /\ Has(j.ledger, c) /\ c # job.call => Has(job.ledger, c)
          /\ LedgerOnce(job.ledger, c) /\ (c = job.call => ~Has(job.ledger, c)) => LedgerOnce(j.ledger, c)
      BY <3>1, <3>2, ReturnedHas
    <3>4. c = job.call => Returning(job, c)
      BY <2>2, <2>8 DEF Returning
    <3>5. ~Returning(j, c)
      BY <3>1 DEF Returning
    <3>6. TracedIn(j, c) => Traced(c, r)
      <4>1. On(j.board, c) => Traced(c, r)
        BY <2>4, <3>1
      <4>2. Has(j.ledger, c) => Traced(c, r)
        BY <2>4, <3>1, <3>3, <3>4 DEF TracedIn
      <4> QED BY <3>5, <4>1, <4>2 DEF TracedIn
    <3>7. OnceAt(r, c) => OnceIn(ledger[r], tracker[r], j, c)
      <4> SUFFICES ASSUME OnceAt(r, c) PROVE OnceIn(ledger[r], tracker[r], j, c)
        OBVIOUS
      <4>1. FileOnce(ledger[r], tracker[r], c) /\ OnceIn(ledger[r], tracker[r], job, c)
        BY <2>4
      <4>2. BoardOnce(j.board, c) /\ Not2(ledger[r], j.board, c)
        BY <3>1, <4>1 DEF FileOnce
      <4>3. LedgerOnce(j.ledger, c)
        BY <3>1, <3>3, <3>4, <4>1 DEF OnceIn
      <4>4. Not2(j.ledger, tracker[r], c)
        BY <3>1, <3>3, <3>4, <4>1 DEF OnceIn, Not2
      <4> QED BY <3>1, <3>5, <4>2, <4>3, <4>4 DEF OnceIn
    <3> QED BY <2>1, <2>2, <2>3, <2>4, <3>1, <3>6, <3>7, SingleProceed
  <2>9. CASE j # Resting /\ job.event # "post"
    <3>1. /\ b = tracker[r] /\ JobOf(j) /\ j.run = job.run /\ Holds(j) /\ j.board = b /\ j.at = "drain"
      BY <2>2, <2>5, <2>9
    <3>2. ~Carries(j) /\ ~Returning(j, c)
      BY <3>1 DEF Carries, Returning
    <3>3. TracedIn(j, c) => Traced(c, r)
      BY <2>4, <3>1, <3>2 DEF TracedIn
    <3>4. OnceAt(r, c) => OnceIn(ledger[r], tracker[r], j, c)
      BY <2>4, <3>1, <3>2 DEF OnceIn, FileOnce
    <3> QED BY <2>1, <2>2, <2>3, <2>4, <3>1, <3>3, <3>4, SingleProceed
  <2> QED BY <2>7, <2>8, <2>9
<1>9. ASSUME NEW h \in Hook, SaveLedger(h)
      PROVE  Single(c)'
  <2>1. PICK job, r : job = hook[h] /\ r = job.run
    OBVIOUS
  <2>2. PICK j :
           /\ job.at = "save" /\ job # Resting /\ Carries(job)
           /\ JobOf(j) /\ Proceed(h, j) /\ j # Resting /\ ~Carries(j)
           /\ j.event = job.event /\ j.run = job.run
           /\ ledger' = [ledger EXCEPT ![r] = job.ledger]
           /\ \/ job.event = "pre" /\ j.at = "board" /\ ~Holds(j)
              \/ job.event = "post" /\ j.at = "drain" /\ Holds(job) /\ Holds(j) /\ j.board = job.board
    <3>1. \E j :
           /\ job.at = "save" /\ job # Resting /\ Carries(job) /\ LedgerOf(job.ledger)
           /\ job.call \in Calls
           /\ JobOf(j) /\ Proceed(h, j) /\ j # Resting /\ ~Carries(j)
           /\ j.event = job.event /\ j.run = job.run /\ j.call = job.call
           /\ ledger' = [ledger EXCEPT ![job.run] = job.ledger]
           /\ \/ job.event = "pre" /\ j.at = "board" /\ ~Holds(j) /\ recorded' = recorded
              \/ /\ job.event = "post" /\ j.at = "drain" /\ Holds(job) /\ Holds(j) /\ j.board = job.board
                 /\ recorded' = [recorded EXCEPT ![job.run] = @ \cup {job.call}]
      BY <1>9, <2>1, SaveLedgerDoes
    <3> QED BY <2>1, <3>1
  <2>3. tracker' = tracker /\ returned' = returned
    BY <1>9 DEF SaveLedger, calls
  <2>4. /\ r \in Run
        /\ TracedIn(job, c) \/ On(tracker[r], c) \/ Has(ledger[r], c) => Traced(c, r)
        /\ OnceAt(r, c) => FileOnce(ledger[r], tracker[r], c) /\ OnceIn(ledger[r], tracker[r], job, c)
    BY <1>2, <2>1, <2>2
  <2>5. ledger'[r] = job.ledger /\ \A x \in Run \ {r} : ledger'[x] = ledger[x]
    BY <1>1, <2>2, <2>4 DEF FilesTyped
  <2>6. ~Returning(j, c)
    BY <2>2 DEF Returning
  <2>7. Has(ledger'[r], c) => Traced(c, r)
    BY <2>2, <2>4, <2>5 DEF TracedIn
  <2>8. TracedIn(j, c) => Traced(c, r)
    BY <2>2, <2>4, <2>6 DEF TracedIn
  <2>9. OnceAt(r, c) => FileOnce(ledger'[r], tracker'[r], c) /\ OnceIn(ledger'[r], tracker'[r], j, c)
    BY <2>2, <2>3, <2>4, <2>5, <2>6 DEF OnceIn, FileOnce
  <2>10. On(tracker'[r], c) => Traced(c, r)
    BY <2>3, <2>4
  <2> QED BY <2>1, <2>2, <2>3, <2>5, <2>7, <2>8, <2>9, <2>10, SingleProceed
<1>10. ASSUME NEW h \in Hook, ReadSpans(h)
       PROVE  Single(c)'
  <2>1. PICK job, r : job = hook[h] /\ r = job.run
    OBVIOUS
  <2>2. PICK l, j, d : l \in LedgerRead(h) /\ Drains(h, job, l, j, d)
    BY <1>10, <2>1, ReadSpansDoes
  <2>3. /\ job.at = "drain" /\ job # Resting /\ Holds(job) /\ BoardOf(job.board, r)
        /\ Proceed(h, j) /\ (j = Resting \/ (JobOf(j) /\ j.run = hook[h].run /\ Holds(j) /\ j.at \in {"stamp", "trim"}))
    BY <2>1, <2>2 DEF Drains
  <2>4. UNCHANGED <<tracker, ledger>> /\ returned' = returned
    BY <1>10 DEF ReadSpans, calls
  <2>5. /\ r \in Run
        /\ TracedIn(job, c) \/ On(tracker[r], c) \/ Has(ledger[r], c) => Traced(c, r)
        /\ OnceAt(r, c) => FileOnce(ledger[r], tracker[r], c) /\ OnceIn(ledger[r], tracker[r], job, c)
    BY <1>2, <2>1, <2>3
  <2>6. ~Returning(j, c)
    BY <2>3 DEF Returning, Resting
  <2>7. CASE j = Resting
    BY <2>1, <2>3, <2>4, <2>5, <2>7, SingleProceed
  <2>8. CASE j # Resting /\ j.at = "stamp"
    <3>1. ~Carries(j) /\ j.board = job.board
      BY <2>2, <2>8 DEF Drains
    <3>2. TracedIn(j, c) => Traced(c, r)
      BY <2>3, <2>5, <2>6, <3>1 DEF TracedIn
    <3>3. OnceAt(r, c) => OnceIn(ledger[r], tracker[r], j, c)
      BY <2>3, <2>5, <2>6, <3>1 DEF OnceIn
    <3> QED BY <2>1, <2>3, <2>4, <2>5, <3>2, <3>3, SingleProceed
  <2>9. CASE j # Resting /\ j.at = "trim"
    <3>1. /\ JobOf(j) /\ j.run = r /\ Holds(j) /\ Carries(j) /\ l # Truncated
          /\ j.board.agents = d.agents /\ j.ledger.spans = d.left
          /\ DrainGoes(job.board.agents, Usable(l).spans, d, Len(Usable(l).spans))
          /\ d = Drained(job.board.agents, Usable(l).spans) /\ LedgerOf(Usable(l))
      BY <2>1, <2>2, <2>9 DEF Drains
    <3>2. l = ledger[r] /\ Usable(l) = l
      BY <2>1, <2>2, <2>3, <3>1, AtHand DEF Usable
    <3>3. LedgerOf(j.ledger) /\ BoardOf(j.board, r)
      BY <3>1 DEF JobOf
    <3>4. /\ On(j.board, c) => On(job.board, c) \/ Has(l, c)
          /\ Has(j.ledger, c) => Has(l, c)
          /\ BoardOnce(job.board, c) /\ LedgerOnce(l, c) /\ Not2(l, job.board, c) =>
               BoardOnce(j.board, c) /\ LedgerOnce(j.ledger, c) /\ Not2(j.ledger, j.board, c)
      BY <2>3, <3>1, <3>2, <3>3, DrainOnce
    <3>5. TracedIn(j, c) => Traced(c, r)
      BY <2>3, <2>5, <2>6, <3>2, <3>4 DEF TracedIn
    <3>6. OnceAt(r, c) => OnceIn(ledger[r], tracker[r], j, c)
      <4> SUFFICES ASSUME OnceAt(r, c) PROVE OnceIn(ledger[r], tracker[r], j, c)
        OBVIOUS
      <4>1. FileOnce(ledger[r], tracker[r], c) /\ OnceIn(ledger[r], tracker[r], job, c)
        BY <2>5
      <4>2. BoardOnce(j.board, c) /\ LedgerOnce(j.ledger, c) /\ Not2(j.ledger, j.board, c)
        BY <2>3, <3>2, <3>4, <4>1 DEF FileOnce, OnceIn
      <4>3. Not2(j.ledger, tracker[r], c)
        BY <3>2, <3>4, <4>1 DEF FileOnce, Not2
      <4> QED BY <2>6, <2>9, <4>2, <4>3 DEF OnceIn
    <3> QED BY <2>1, <2>3, <2>4, <2>5, <3>5, <3>6, SingleProceed
  <2> QED BY <2>3, <2>7, <2>8, <2>9
<1>11. ASSUME NEW h \in Hook, TrimLedger(h)
       PROVE  Single(c)'
  <2>1. PICK job, r : job = hook[h] /\ r = job.run
    OBVIOUS
  <2>2. PICK j :
           /\ job.at = "trim" /\ job # Resting /\ Carries(job) /\ Holds(job)
           /\ JobOf(j) /\ Proceed(h, j) /\ j # Resting /\ ~Carries(j)
           /\ j.at = "stamp" /\ j.run = job.run /\ Holds(j) /\ j.board = job.board
           /\ ledger' = [ledger EXCEPT ![r] = job.ledger]
    <3>1. \E j :
           /\ job.at = "trim" /\ job # Resting /\ Carries(job) /\ Holds(job) /\ LedgerOf(job.ledger)
           /\ JobOf(j) /\ Proceed(h, j) /\ j # Resting /\ ~Carries(j)
           /\ j.at = "stamp" /\ j.event = job.event /\ j.run = job.run
           /\ Holds(j) /\ j.board = job.board
           /\ ledger' = [ledger EXCEPT ![job.run] = job.ledger]
      BY <1>11, <2>1, TrimLedgerDoes
    <3> QED BY <2>1, <3>1
  <2>3. tracker' = tracker /\ returned' = returned
    BY <1>11 DEF TrimLedger, calls
  <2>4. /\ r \in Run
        /\ TracedIn(job, c) \/ On(tracker[r], c) \/ Has(ledger[r], c) => Traced(c, r)
        /\ OnceAt(r, c) => FileOnce(ledger[r], tracker[r], c) /\ OnceIn(ledger[r], tracker[r], job, c)
    BY <1>2, <2>1, <2>2
  <2>5. ledger'[r] = job.ledger /\ \A x \in Run \ {r} : ledger'[x] = ledger[x]
    BY <1>1, <2>2, <2>4 DEF FilesTyped
  <2>6. ~Returning(j, c)
    BY <2>2 DEF Returning
  <2>7. Has(ledger'[r], c) => Traced(c, r)
    BY <2>2, <2>4, <2>5 DEF TracedIn
  <2>8. TracedIn(j, c) => Traced(c, r)
    BY <2>2, <2>4, <2>6 DEF TracedIn
  <2>9. OnceAt(r, c) => FileOnce(ledger'[r], tracker'[r], c) /\ OnceIn(ledger'[r], tracker'[r], j, c)
    BY <2>2, <2>3, <2>4, <2>5, <2>6 DEF OnceIn, FileOnce
  <2>10. On(tracker'[r], c) => Traced(c, r)
    BY <2>3, <2>4
  <2> QED BY <2>1, <2>2, <2>3, <2>5, <2>7, <2>8, <2>9, <2>10, SingleProceed
<1>12. ASSUME NEW h \in Hook, WriteBoard(h)
       PROVE  Single(c)'
  <2>1. PICK job, r : job = hook[h] /\ r = job.run
    OBVIOUS
  <2>2. /\ job.at = "stamp" /\ job # Resting /\ Holds(job)
        /\ Proceed(h, Resting) /\ tracker' = [tracker EXCEPT ![r] = job.board]
    BY <1>12, <2>1, WriteBoardDoes
  <2>3. ledger' = ledger /\ returned' = returned
    BY <1>12 DEF WriteBoard, calls
  <2>4. /\ r \in Run
        /\ TracedIn(job, c) \/ On(tracker[r], c) \/ Has(ledger[r], c) => Traced(c, r)
        /\ OnceAt(r, c) => FileOnce(ledger[r], tracker[r], c) /\ OnceIn(ledger[r], tracker[r], job, c)
    BY <1>2, <2>1, <2>2
  <2>5. tracker'[r] = job.board /\ \A x \in Run \ {r} : tracker'[x] = tracker[x]
    BY <1>1, <2>2, <2>4 DEF FilesTyped
  <2>6. On(tracker'[r], c) => Traced(c, r)
    BY <2>2, <2>4, <2>5 DEF TracedIn
  <2>7. OnceAt(r, c) => FileOnce(ledger'[r], tracker'[r], c)
    BY <2>2, <2>3, <2>4, <2>5 DEF OnceIn, FileOnce
  <2>8. Has(ledger'[r], c) => Traced(c, r)
    BY <2>3, <2>4
  <2> QED BY <2>1, <2>2, <2>3, <2>5, <2>6, <2>7, <2>8, SingleProceed
<1>13. ASSUME NEW h \in Hook, Kill(h)
       PROVE  Single(c)'
  <2>1. PICK r : r = hook[h].run
    OBVIOUS
  <2>2. /\ r \in Run /\ hook[h] # Resting /\ Proceed(h, Resting)
        /\ tracker' = [tracker EXCEPT ![r] = tracker[r]] \/ tracker' = [tracker EXCEPT ![r] = Truncated]
        /\ ledger' = [ledger EXCEPT ![r] = ledger[r]] \/ ledger' = [ledger EXCEPT ![r] = Truncated]
    BY <1>13, <2>1, KillDoes
  <2>3. /\ \A x \in Run \ {r} : ledger'[x] = ledger[x] /\ tracker'[x] = tracker[x]
        /\ tracker'[r] \in {tracker[r], Truncated} /\ ledger'[r] \in {ledger[r], Truncated}
    BY <1>1, <2>2 DEF FilesTyped
  <2>4. returned' = returned
    BY <1>13 DEF Kill, calls
  <2>5. /\ On(tracker[r], c) \/ Has(ledger[r], c) => Traced(c, r)
        /\ OnceAt(r, c) => FileOnce(ledger[r], tracker[r], c)
    BY <1>2, <2>1, <2>2
  <2>6. (On(tracker'[r], c) => On(tracker[r], c)) /\ (Has(ledger'[r], c) => Has(ledger[r], c))
    BY <2>3 DEF On, Has
  <2>7. OnceAt(r, c) => FileOnce(ledger'[r], tracker'[r], c)
    BY <2>3, <2>5 DEF FileOnce, BoardOnce, LedgerOnce, Not2, On, Has
  <2> QED BY <2>1, <2>2, <2>3, <2>4, <2>5, <2>6, <2>7, SingleProceed
<1>14. ASSUME NEW r \in Run, NEW b, NEW new, Stroke(r, b, new)
       PROVE  Single(c)'
  <2>1. tracker'[r] = b /\ (\A x \in Run \ {r} : tracker'[x] = tracker[x])
        /\ UNCHANGED <<ledger, hook, overlapped, returned>>
    BY <1>1, <1>14 DEF Stroke, Orchestrate, FilesTyped, calls
  <2>2. \A x \in Run : AtWork(x)' = AtWork(x)
    BY <2>1 DEF AtWork
  <2>3. (On(b, c) <=> On(tracker[r], c)) /\ (BoardOnce(tracker[r], c) => BoardOnce(b, c))
    <3>1. tracker[r] # Truncated /\ b # Truncated /\ Follows(tracker[r], b) /\ AddsNoTime(tracker[r], b)
      BY <1>14, StampsValues DEF Stroke, BoardOf
    <3> QED BY <3>1, SameTimes
  <2>4. \A x \in Run : (On(tracker'[x], c) <=> On(tracker[x], c)) /\ (BoardOnce(tracker[x], c) => BoardOnce(tracker'[x], c))
    BY <2>1, <2>3
  <2>5. \A x \in Run : Traced(c, x)' <=> Traced(c, x)
    BY <2>1, <2>2, <2>4 DEF Traced
  <2>6. ASSUME NEW x \in Run, OnceAt(x, c)
        PROVE  OnceAt(x, c)'
    <3>1. \A j : OnceIn(ledger[x], tracker[x], j, c) => OnceIn(ledger[x], tracker'[x], j, c)
      BY <2>4 DEF OnceIn, Not2
    <3>2. /\ BoardOnce(tracker'[x], c) /\ LedgerOnce(ledger[x], c) /\ Not2(ledger[x], tracker'[x], c)
          /\ \A g \in AtWork(x) : OnceIn(ledger[x], tracker'[x], hook[g], c)
      BY <2>4, <2>6, <3>1 DEF OnceAt, Not2
    <3> QED BY <2>1, <2>2, <3>2 DEF OnceAt
  <2>7. /\ \A x \in Run : Traced(c, x)' => c \in returned' /\ x \in Mentions[c]
        /\ \A x, y \in Run : Traced(c, x)' /\ Traced(c, y)' => x = y
        /\ \A x \in Run \ overlapped' : OnceAt(x, c)'
    BY <2>1, <2>5, <2>6 DEF Single
  <2> QED BY <2>7 DEF Single
<1>15. CASE UNCHANGED stampsVars
  BY <1>4, <1>15 DEF stampsVars, calls
<1>16. (\E h \in Hook : ReadLedger(h) \/ ReadBoard(h) \/ ReadSpans(h) \/ Kill(h)) => Single(c)'
  BY <1>7, <1>8, <1>10, <1>13
<1>17. (\E h \in Hook : SaveLedger(h) \/ TrimLedger(h) \/ WriteBoard(h)) => Single(c)'
  BY <1>9, <1>11, <1>12
<1> QED BY <1>5, <1>6, <1>14, <1>15, <1>16, <1>17, StampsSteps

\* The initial state satisfies the stamping invariant.
LEMMA StampsInvInit == StampsInit => StampsInv
<1> SUFFICES ASSUME StampsInit PROVE StampsInv
  OBVIOUS
<1>1. StampsTyped /\ OneAtWork
  BY StampsTypedInit
<1>2. \A r \in Run : /\ AtWork(r) = {} /\ ledger[r] = NoLedger /\ said[r] = {} /\ recorded[r] = {}
  BY DEF StampsInit, AtWork
<1>3. \A h \in Hook : hook[h] = Resting
  BY DEF StampsInit
<1>4. SaidStands
  BY <1>2, <1>3 DEF SaidStands, HandWins
<1>5. RecordedFollowed
  BY <1>2, <1>3 DEF RecordedFollowed
<1>6. ASSUME NEW c \in Calls, NEW r \in Run
      PROVE  ~On(tracker[r], c) /\ ~Has(ledger[r], c)
  <2>1. PICK s \in [Run -> {"running", "shipped"}], E \in SUBSET Calls :
          tracker = [x \in Run |-> [status |-> s[x], agents |-> [e \in {d \in E : RunOf[d] = x} |-> Blank]]]
    BY DEF StampsInit
  <2>2. PICK agents : agents = [e \in {d \in E : RunOf[d] = r} |-> Blank]
    OBVIOUS
  <2>3. tracker[r].agents = agents
    BY <2>1, <2>2
  <2>4. \A d \in DOMAIN agents : agents[d].started = Unset /\ agents[d].ended = Unset
    BY <2>2 DEF Blank
  <2> QED BY <1>2, <2>3, <2>4, StampsValues DEF On, Has, NoLedger
<1>7. ASSUME NEW c \in Calls
      PROVE  Single(c)
  <2>1. \A r \in Run : ~Traced(c, r)
    BY <1>2, <1>6 DEF Traced
  <2>2. \A r \in Run : OnceAt(r, c)
    BY <1>2, <1>6 DEF OnceAt, BoardOnce, LedgerOnce, Not2, On, Has
  <2> QED BY <2>1, <2>2 DEF Single
<1> QED BY <1>1, <1>4, <1>5, <1>7 DEF StampsInv

\* Every step keeps the stamping invariant.
LEMMA StampsInvStep == StampsInv /\ [StampsNext]_stampsVars => StampsInv'
<1> SUFFICES ASSUME StampsInv, [StampsNext]_stampsVars PROVE StampsInv'
  OBVIOUS
<1>1. StampsTyped /\ OneAtWork /\ SaidStands /\ RecordedFollowed
  BY DEF StampsInv
<1>2. StampsTyped' /\ OneAtWork'
  BY <1>1, StampsTypedStep
<1>3. SaidStands'
  BY <1>1, SaidStep
<1>4. RecordedFollowed'
  BY <1>1, FollowedStep
<1>5. ASSUME NEW c \in Calls, Sole(c)
      PROVE  Single(c)'
  <2>1. Single(c)
    BY <1>5 DEF StampsInv
  <2> QED BY <1>1, <1>5, <2>1, SingleStep
<1> QED BY <1>2, <1>3, <1>4, <1>5 DEF StampsInv

\* The stamping invariant holds in every reachable state.
LEMMA StampsInvHolds == StampsSpec => []StampsInv
BY StampsInvInit, StampsInvStep, PTL DEF StampsSpec

\* The stamping invariant gives the type invariant.
LEMMA StampsInvTypes == StampsInv => StampsTypeOK
<1> SUFFICES ASSUME StampsInv PROVE StampsTypeOK
  OBVIOUS
<1>1. FilesTyped /\ CountsTyped
  BY DEF StampsInv, StampsTyped
<1> QED BY <1>1 DEF FilesTyped, CountsTyped, StampsTypeOK, BoardOf, LedgerOf

\* The stamping invariant gives one entry per call.
LEMMA StampsInvOne == StampsInv => OneEntryPerCall
<1> SUFFICES ASSUME StampsInv PROVE OneEntryPerCall
  OBVIOUS
<1> SUFFICES ASSUME NEW c \in Calls, Mentions[c] \cap overlapped = {}, Sole(c)
             PROVE  Cardinality(EntriesWith(c)) <= 1
  BY DEF OneEntryPerCall, Sole
<1>1. Single(c)
  BY DEF StampsInv
<1>2. ASSUME NEW z \in EntriesWith(c)
      PROVE  \E r \in Run : \E d \in DOMAIN tracker[r].agents :
               /\ z = <<r, d>> /\ tracker[r] # Truncated
               /\ c \in {tracker[r].agents[d].started, tracker[r].agents[d].ended}
  BY DEF EntriesWith
<1>3. ASSUME NEW y \in EntriesWith(c), NEW z \in EntriesWith(c)
      PROVE  y = z
  <2>1. PICK r \in Run : \E d \in DOMAIN tracker[r].agents :
               /\ y = <<r, d>> /\ tracker[r] # Truncated
               /\ c \in {tracker[r].agents[d].started, tracker[r].agents[d].ended}
    BY <1>2
  <2>2. PICK x \in Run : \E d \in DOMAIN tracker[x].agents :
               /\ z = <<x, d>> /\ tracker[x] # Truncated
               /\ c \in {tracker[x].agents[d].started, tracker[x].agents[d].ended}
    BY <1>2
  <2>3. Traced(c, r) /\ Traced(c, x)
    BY <2>1, <2>2 DEF Traced, On
  <2>4. r = x /\ r \notin overlapped
    BY <1>1, <2>3 DEF Single
  <2>5. BoardOnce(tracker[r], c)
    BY <1>1, <2>4 DEF Single, OnceAt
  <2> QED BY <2>1, <2>2, <2>4, <2>5 DEF BoardOnce
<1>4. EntriesWith(c) = {} \/ \E z : EntriesWith(c) = {z}
  BY <1>3
<1>5. Cardinality({}) = 0 /\ \A z : Cardinality({z}) = 1
  BY FS_EmptySet, FS_Singleton
<1>6. Cardinality(EntriesWith(c)) = 0 \/ Cardinality(EntriesWith(c)) = 1
  BY <1>4, <1>5, Zenon
<1> QED BY <1>6

\* The stamping invariant gives that spans are kept.
LEMMA StampsInvKept == StampsInv => SpansAreKept
<1> SUFFICES ASSUME StampsInv, NEW r \in Run, AtWork(r) = {}, r \notin overlapped \cup cut,
                    NEW c \in recorded[r], Sole(c)
             PROVE  \/ \E i \in DOMAIN ledger[r].spans : ledger[r].spans[i].call = c
                    \/ \E d \in DOMAIN tracker[r].agents :
                         c \in {tracker[r].agents[d].started, tracker[r].agents[d].ended}
  BY DEF SpansAreKept, Sole
<1>1. Followed(r, c)
  BY DEF StampsInv, RecordedFollowed
<1> QED BY <1>1 DEF Followed, StillThere, Has, On

(* The types of trackers, ledgers and hooks.                               *)
THEOREM StampsTypes == StampsSpec => []StampsTypeOK
BY StampsInvHolds, StampsInvTypes, PTL

(* OneEntryPerCall: the start and the end that a subagent call had are     *)
(* stamped on one entry of one board, for any hooks, runs and calls.       *)
THEOREM OneEntry == StampsSpec => []OneEntryPerCall
BY StampsInvHolds, StampsInvOne, PTL

(* SpansAreKept: what a hook has recorded of a return is not forgotten     *)
(* while hooks work one at a time and to their ends.                       *)
THEOREM SpansKept == StampsSpec => []SpansAreKept
BY StampsInvHolds, StampsInvKept, PTL

(* HandWins: what the orchestrator writes stays, unless a hook had read    *)
(* the board before and not yet written it.                                *)
THEOREM HandStays == StampsSpec => []HandWins
<1>1. StampsInv => HandWins
  BY DEF StampsInv, SaidStands
<1> QED BY <1>1, StampsInvHolds, PTL
=============================================================================

--------------------------- MODULE ScheduleProofs ---------------------------
(***************************************************************************)
(* Proofs about recompute_waves and pack_lanes, for every plan: any items, *)
(* dependencies and files.                                                 *)
(***************************************************************************)
EXTENDS Schedule, SequenceTheorems, TLAPS

\* A step of the schedule is a step of each function, or leaves it alone.
LEMMA StepOfEach ==
  ASSUME [ScheduleNext]_scheduleVars
  PROVE  [WavesNext]_wavesVars /\ [LanesNext]_lanesVars
BY DEF ScheduleNext, scheduleVars, wavesVars, lanesVars

\* The composed initial state is initial for the waves and for the lanes.
LEMMA InitOfEach ==
  ASSUME ScheduleInit
  PROVE  WavesInit /\ LanesInit
BY DEF ScheduleInit
-----------------------------------------------------------------------------
(* recompute_waves *)

\* The call stack is a finite sequence of frames, and its top is a frame unless it is empty.
LEMMA StackFacts ==
  ASSUME WavesTypeOK
  PROVE  /\ Depth \in Nat /\ DOMAIN stack = 1..Depth
         /\ \A n \in 1..Depth : stack[n] \in Frame
         /\ stack # <<>> => Depth \in 1..Depth /\ Top \in Frame
BY DEF WavesTypeOK, Depth, Top

\* The items an item waits for are items.
LEMMA InSetTyped ==
  ASSUME WavesTypeOK, NEW i \in Items
  PROVE  InSet(i) \subseteq Items
BY DEF InSet

\* What a call makes of the stack.
LEMMA CallFacts ==
  ASSUME WavesTypeOK, NEW i \in Items
  PROVE  /\ Call(i) \in Seq(Frame) /\ Len(Call(i)) = Depth + 1
         /\ \A n \in 1..Depth : Call(i)[n] = stack[n]
         /\ Call(i)[Depth + 1] = [item |-> i, left |-> InSet(i), high |-> 0]
<1> DEFINE f == [item |-> i, left |-> InSet(i), high |-> 0]
<1>1. f \in Frame
  BY InSetTyped DEF Frame
<1>2. stack \in Seq(Frame)
  BY DEF WavesTypeOK
<1> HIDE DEF f
<1>3. /\ Append(stack, f) \in Seq(Frame) /\ Len(Append(stack, f)) = Len(stack) + 1
      /\ \A n \in 1..Len(stack) : Append(stack, f)[n] = stack[n]
      /\ Append(stack, f)[Len(stack) + 1] = f
  BY <1>1, <1>2
<1> QED BY <1>3 DEF Call, Depth, f

\* What an answer makes of a stack of frames.
LEMMA LookedFacts ==
  ASSUME NEW s \in Seq(Frame), s # <<>>, NEW d, NEW w \in Nat
  PROVE  /\ Looked(s, d, w) \in Seq(Frame) /\ Len(Looked(s, d, w)) = Len(s)
         /\ \A n \in 1..Len(s) : n # Len(s) => Looked(s, d, w)[n] = s[n]
         /\ Looked(s, d, w)[Len(s)].item = s[Len(s)].item
         /\ Looked(s, d, w)[Len(s)].left = s[Len(s)].left \ {d}
         /\ Looked(s, d, w)[Len(s)].high = IF s[Len(s)].high < w THEN w ELSE s[Len(s)].high
<1> DEFINE n == Len(s)
           f == [item |-> s[n].item, left |-> s[n].left \ {d}, high |-> IF s[n].high < w THEN w ELSE s[n].high]
<1>1. n \in 1..n /\ n \in DOMAIN s /\ s[n] \in Frame
  OBVIOUS
<1>2. f \in Frame
  BY <1>1 DEF Frame
<1>3. Looked(s, d, w) = [s EXCEPT ![n] = f]
  BY DEF Looked
<1> HIDE DEF f
<1>4. /\ [s EXCEPT ![n] = f] \in Seq(Frame) /\ Len([s EXCEPT ![n] = f]) = n
      /\ \A m \in 1..n : m # n => [s EXCEPT ![n] = f][m] = s[m]
      /\ [s EXCEPT ![n] = f][n] = f
  BY <1>1, <1>2
<1> QED BY <1>3, <1>4 DEF f

\* The initial state of the waves is typed.
LEMMA WavesInitTyped == WavesInit => WavesTypeOK
BY DEF WavesInit, WavesTypeOK

\* What is below the top of the stack.
LEMMA BelowFacts ==
  ASSUME WavesTypeOK, stack # <<>>
  PROVE  LET below == SubSeq(stack, 1, Depth - 1) IN
         /\ below \in Seq(Frame) /\ Len(below) = Depth - 1
         /\ \A n \in 1..Depth - 1 : below[n] = stack[n]
<1> DEFINE d == Depth - 1
<1>1. d \in Nat /\ \A n \in 1..d : stack[n] \in Frame
  BY StackFacts
<1>2. /\ SubSeq(stack, 1, d) \in Seq(Frame)
      /\ Len(SubSeq(stack, 1, d)) = IF 1 <= d THEN d - 1 + 1 ELSE 0
      /\ \A n \in 1..d - 1 + 1 : SubSeq(stack, 1, d)[n] = stack[1 + n - 1]
  BY <1>1, SubSeqProperties
<1>3. \A n \in 1..d : 1 + n - 1 = n
  BY <1>1
<1>4. d - 1 + 1 = d /\ (d < 1 => d = 0)
  <2> HIDE DEF d
  <2> QED BY <1>1
<1> QED BY <1>1, <1>2, <1>3, <1>4

\* A step of Visit keeps WavesTypeOK.
LEMMA VisitTyped ==
  ASSUME WavesTypeOK, Visit
  PROVE  WavesTypeOK'
BY CallFacts DEF WavesTypeOK, Visit

\* A step of Look keeps WavesTypeOK.
LEMMA LookTyped ==
  ASSUME WavesTypeOK, Look
  PROVE  WavesTypeOK'
<1>1. PICK d \in Top.left :
        IF d \in DOMAIN waves
        THEN stack' = Looked(stack, d, waves[d]) /\ UNCHANGED outcome
        ELSE IF d \in Visiting
        THEN outcome' = "cycle" /\ UNCHANGED stack
        ELSE stack' = Call(d) /\ UNCHANGED outcome
  BY DEF Look
<1>2. stack # <<>> /\ stack \in Seq(Frame) /\ d \in Items
  BY StackFacts DEF Look, Frame, WavesTypeOK
<1>3. CASE d \in DOMAIN waves
  <2>1. stack' \in Seq(Frame)
    BY <1>1, <1>2, <1>3, LookedFacts DEF WavesTypeOK
  <2> QED BY <1>1, <1>3, <2>1 DEF WavesTypeOK, Look
<1>4. CASE d \notin DOMAIN waves
  BY <1>1, <1>2, <1>4, CallFacts DEF WavesTypeOK, Look
<1> QED BY <1>3, <1>4

\* The wave of a frame, and what Return does, in plain words.
LEMMA ReturnFacts ==
  ASSUME WavesTypeOK, Return
  PROVE  /\ Top \in Frame /\ Wave(Top) \in Nat \ {0} /\ Depth \in 1..Depth
         /\ waves' = [j \in DOMAIN waves \cup {Top.item} |-> IF j = Top.item THEN Wave(Top) ELSE waves[j]]
         /\ stack' \in Seq(Frame) /\ Depth' = Depth - 1
         /\ \A n \in 1..Depth - 2 : stack'[n] = stack[n]
         /\ Depth > 1 =>
              /\ stack'[Depth - 1].item = stack[Depth - 1].item
              /\ stack'[Depth - 1].left = stack[Depth - 1].left \ {Top.item}
              /\ stack'[Depth - 1].high =
                   IF stack[Depth - 1].high < Wave(Top) THEN Wave(Top) ELSE stack[Depth - 1].high
<1> DEFINE below == SubSeq(stack, 1, Depth - 1)
<1>1. stack # <<>> /\ Top \in Frame /\ Depth \in 1..Depth
  BY StackFacts DEF Return
<1>2. Wave(Top) \in Nat \ {0}
  BY <1>1 DEF Wave, Frame
<1>3. /\ waves' = [j \in DOMAIN waves \cup {Top.item} |-> IF j = Top.item THEN Wave(Top) ELSE waves[j]]
      /\ stack' = IF below = <<>> THEN below ELSE Looked(below, Top.item, Wave(Top))
  BY DEF Return
<1>4. /\ below \in Seq(Frame) /\ Len(below) = Depth - 1
      /\ \A n \in 1..Depth - 1 : below[n] = stack[n]
  BY <1>1, BelowFacts
<1> HIDE DEF below
<1>5. CASE below = <<>>
  <2>1. Depth = 1 /\ stack' = <<>>
    BY <1>1, <1>3, <1>4, <1>5
  <2>2. Depth' = 0
    BY <2>1 DEF Depth
  <2> QED BY <1>1, <1>2, <1>3, <1>4, <1>5, <2>1, <2>2
<1>6. CASE below # <<>>
  <2>1. stack' = Looked(below, Top.item, Wave(Top))
    BY <1>3, <1>6
  <2>2. /\ stack' \in Seq(Frame) /\ Len(stack') = Depth - 1
        /\ \A n \in 1..Len(below) : n # Len(below) => stack'[n] = below[n]
        /\ stack'[Len(below)].item = below[Len(below)].item
        /\ stack'[Len(below)].left = below[Len(below)].left \ {Top.item}
        /\ stack'[Len(below)].high =
             IF below[Len(below)].high < Wave(Top) THEN Wave(Top) ELSE below[Len(below)].high
    BY <1>2, <1>4, <1>6, <2>1, LookedFacts
  <2>3. Depth > 1
    BY <1>1, <1>4, <1>6
  <2>4. Depth' = Depth - 1
    BY <2>2 DEF Depth
  <2> QED BY <1>1, <1>2, <1>3, <1>4, <2>2, <2>3, <2>4
<1> QED BY <1>5, <1>6

\* A step of Return keeps WavesTypeOK.
LEMMA ReturnTyped ==
  ASSUME WavesTypeOK, Return
  PROVE  WavesTypeOK'
<1>1. Top.item \in Items
  BY ReturnFacts DEF Frame
<1> QED BY <1>1, ReturnFacts DEF WavesTypeOK, Return

\* A step of Done keeps WavesTypeOK.
LEMMA DoneTyped ==
  ASSUME WavesTypeOK, Done
  PROVE  WavesTypeOK'
BY DEF WavesTypeOK, Done

\* Every step of the waves keeps the types.
LEMMA WavesStepTyped == WavesTypeOK /\ [WavesNext]_wavesVars => WavesTypeOK'
<1>1. WavesTypeOK /\ UNCHANGED wavesVars => WavesTypeOK'
  BY DEF WavesTypeOK, wavesVars
<1> QED BY <1>1, VisitTyped, LookTyped, ReturnTyped, DoneTyped DEF WavesNext

\* The dependencies that a call has looked at.
Seen(n) == InSet(stack[n].item) \ stack[n].left

\* A call in progress is of an item without a wave; what it has looked at has
\* one, and it knows the highest of these.
FrameOK(n) ==
  /\ stack[n].item \notin DOMAIN waves
  /\ stack[n].left \subseteq InSet(stack[n].item)
  /\ \A d \in Seen(n) : d \in DOMAIN waves /\ waves[d] <= stack[n].high
  /\ stack[n].high = 0 \/ \E d \in Seen(n) : waves[d] = stack[n].high

Frames == \A n \in 1..Depth : FrameOK(n)

\* The stack is a path of dependencies, each item on it once.  That a later
\* item is needed by an earlier one is said with closed sets, as OnCycle is,
\* so that no induction over the path is needed.
Path ==
  /\ \A n \in 1..Depth : n < Depth => stack[n + 1].item \in stack[n].left
  /\ \A m, n \in 1..Depth : stack[m].item = stack[n].item => m = n
  /\ \A n \in 1..Depth : \A S \in SUBSET Items :
       Closed(S) /\ Needs(stack[n].item) \subseteq S =>
         \A m \in 1..Depth : n < m => stack[m].item \in S

Answers == outcome = "waves" => DOMAIN waves = Items
Refusals == outcome = "cycle" => \E i \in Items : OnCycle(i)

WavesInv == Frames /\ Path /\ MemoIsLevelled /\ Answers /\ Refusals

\* Before the first visit the waves invariant holds.
LEMMA WavesInitInv == WavesInit => WavesInv
BY DEF WavesInit, WavesInv, Frames, Path, MemoIsLevelled, Answers, Refusals, Depth

\* A call of an item that has no wave and is not on the stack.
LEMMA CallKeeps ==
  ASSUME WavesTypeOK, Frames, Path, UNCHANGED <<deps, waves>>,
         NEW i \in Items, stack' = Call(i), i \notin DOMAIN waves, i \notin Visiting,
         stack # <<>> => i \in Top.left
  PROVE  (Frames /\ Path)'
<1>1. /\ Depth' = Depth + 1 /\ Depth \in Nat
      /\ \A n \in 1..Depth : stack'[n] = stack[n]
      /\ stack'[Depth + 1] = [item |-> i, left |-> InSet(i), high |-> 0]
  BY CallFacts, StackFacts DEF Depth
<1>2. Frames'
  <2> SUFFICES ASSUME NEW n \in 1..Depth' PROVE FrameOK(n)'
    BY DEF Frames
  <2>1. CASE n \in 1..Depth
    BY <1>1, <2>1 DEF Frames, FrameOK, Seen, InSet
  <2>2. CASE n = Depth + 1
    BY <1>1, <2>2 DEF FrameOK, Seen, InSet
  <2> QED BY <1>1, <2>1, <2>2
<1>3. \A n \in 1..Depth : stack'[n].item = stack[n].item /\ stack'[n].left = stack[n].left
  BY <1>1
<1>4. stack'[Depth'].item = i
  BY <1>1
<1>5. ASSUME NEW n \in 1..Depth', n < Depth' PROVE stack'[n + 1].item \in stack'[n].left
  <2>1. CASE n < Depth
    BY <1>1, <1>3, <2>1 DEF Path
  <2>2. CASE n = Depth
    <3>1. stack # <<>> /\ stack[n] = Top
      BY <1>5, <2>2, StackFacts DEF Depth, Top
    <3> QED BY <1>1, <1>3, <1>4, <2>2, <3>1
  <2> QED BY <1>1, <1>5, <2>1, <2>2
<1>6. ASSUME NEW m \in 1..Depth', NEW n \in 1..Depth', stack'[m].item = stack'[n].item PROVE m = n
  BY <1>1, <1>3, <1>4, <1>6 DEF Path, Visiting
<1>7. ASSUME NEW n \in 1..Depth', NEW S \in SUBSET Items, (Closed(S) /\ Needs(stack[n].item) \subseteq S)',
             NEW m \in 1..Depth', n < m
      PROVE  stack'[m].item \in S
  <2>1. Closed(S) /\ n \in 1..Depth /\ Needs(stack[n].item) \subseteq S
    BY <1>1, <1>3, <1>7 DEF Closed, Needs
  <2>2. CASE m \in 1..Depth
    BY <1>3, <1>7, <2>1, <2>2 DEF Path
  <2>3. CASE m = Depth + 1
    <3>1. Depth \in 1..Depth /\ stack # <<>> /\ Top = stack[Depth]
      BY <1>1, <2>1, StackFacts DEF Depth, Top
    <3>2. i \in Needs(Top.item)
      BY <3>1 DEF Frames, FrameOK, InSet, Needs
    <3>3. n = Depth \/ Top.item \in S
      BY <1>1, <2>1, <3>1 DEF Path
    <3>4. i \in S
      BY <2>1, <3>1, <3>2, <3>3 DEF Closed
    <3> QED BY <1>4, <2>3, <3>4, <1>1
  <2> QED BY <1>1, <2>2, <2>3
<1>8. Path'
  BY <1>5, <1>6, <1>7 DEF Path
<1> QED BY <1>2, <1>8

\* A step that keeps the items on the stack keeps the paths.
LEMMA PathStays ==
  ASSUME WavesTypeOK, Path, UNCHANGED deps, Depth' \in 0..Depth,
         \A n \in 1..Depth' : stack'[n].item = stack[n].item,
         \A n \in 1..Depth' : n < Depth' => stack'[n].left = stack[n].left
  PROVE  Path'
<1>1. Depth \in Nat
  BY StackFacts
<1>2. ASSUME NEW n \in 1..Depth', n < Depth' PROVE stack'[n + 1].item \in stack'[n].left
  BY <1>1, <1>2 DEF Path
<1>3. ASSUME NEW m \in 1..Depth', NEW n \in 1..Depth', stack'[m].item = stack'[n].item PROVE m = n
  BY <1>1, <1>3 DEF Path
<1>4. ASSUME NEW n \in 1..Depth', NEW S \in SUBSET Items, (Closed(S) /\ Needs(stack[n].item) \subseteq S)',
             NEW m \in 1..Depth', n < m
      PROVE  stack'[m].item \in S
  <2>1. Closed(S) /\ n \in 1..Depth /\ m \in 1..Depth /\ Needs(stack[n].item) \subseteq S
    BY <1>1, <1>4 DEF Closed, Needs
  <2> QED BY <1>4, <2>1 DEF Path
<1> QED BY <1>2, <1>3, <1>4 DEF Path

\* The answer for d, a dependency of the frame on top: it has been looked at.
LEMMA AnswerKeeps ==
  ASSUME WavesTypeOK, UNCHANGED deps,
         NEW n \in 1..Depth, n = Depth', NEW f \in Frame,
         f.item = stack[n].item, f.left \subseteq InSet(f.item),
         f.item \notin DOMAIN waves',
         \A d \in InSet(f.item) \ f.left : d \in DOMAIN waves /\ waves'[d] = waves[d] /\ waves[d] <= f.high,
         f.high = 0 \/ \E d \in InSet(f.item) \ f.left : waves[d] = f.high,
         DOMAIN waves \subseteq DOMAIN waves',
         NEW d \in f.left, d \in DOMAIN waves', waves'[d] \in Nat \ {0},
         stack'[n].item = f.item, stack'[n].left = f.left \ {d},
         stack'[n].high = IF f.high < waves'[d] THEN waves'[d] ELSE f.high
  PROVE  FrameOK(n)'
<1>1. Seen(n)' = (InSet(f.item) \ f.left) \cup {d}
  BY DEF Seen, InSet
<1>2. f.high \in Nat /\ \A e \in DOMAIN waves : waves[e] \in Nat
  BY DEF Frame, WavesTypeOK
<1>3. \A e \in Seen(n)' : e \in DOMAIN waves' /\ waves'[e] <= stack'[n].high
  BY <1>1, <1>2
<1>4. stack'[n].high = 0 \/ \E e \in Seen(n)' : waves'[e] = stack'[n].high
  BY <1>1, <1>2
<1>5. stack'[n].left \subseteq InSet(stack[n].item)'
  BY DEF InSet
<1> QED BY <1>3, <1>4, <1>5 DEF FrameOK

\* A step of Visit keeps WavesInv.
LEMMA VisitKeeps ==
  ASSUME WavesTypeOK, WavesInv, Visit
  PROVE  WavesInv'
<1>1. PICK i \in Items \ DOMAIN waves : stack' = Call(i)
  BY DEF Visit
<1>2. UNCHANGED <<deps, waves, outcome>> /\ stack = <<>> /\ outcome = "running"
  BY DEF Visit
<1>3. i \notin Visiting
  BY <1>2 DEF Visiting, Depth
<1>4. (Frames /\ Path)'
  BY <1>1, <1>2, <1>3, CallKeeps DEF WavesInv
<1> QED BY <1>2, <1>4 DEF WavesInv, MemoIsLevelled, Answers, Refusals, Needs

\* An item on the stack that the top depends on is on a cycle.
LEMMA VisitingIsOnCycle ==
  ASSUME WavesTypeOK, Frames, Path, stack # <<>>, NEW d \in Top.left, d \in Visiting
  PROVE  d \in Items /\ OnCycle(d)
<1>1. Depth \in 1..Depth /\ Top = stack[Depth] /\ d \in Needs(Top.item) /\ d \in Items
  BY StackFacts DEF Top, Frames, FrameOK, InSet, Needs
<1>2. PICK n \in 1..Depth : stack[n].item = d
  BY DEF Visiting
<1> SUFFICES ASSUME NEW S \in SUBSET Items, Needs(d) \subseteq S, Closed(S)
             PROVE  d \in S
  BY <1>1 DEF OnCycle
<1>3. CASE n = Depth
  BY <1>1, <1>2, <1>3
<1>4. CASE n < Depth
  <2>1. Top.item \in S
    BY <1>1, <1>2, <1>4 DEF Path
  <2> QED BY <1>1, <2>1 DEF Closed
<1> QED BY <1>1, <1>3, <1>4

\* A step of Look keeps WavesInv.
LEMMA LookKeeps ==
  ASSUME WavesTypeOK, WavesInv, Look
  PROVE  WavesInv'
<1>1. PICK d \in Top.left :
        IF d \in DOMAIN waves
        THEN stack' = Looked(stack, d, waves[d]) /\ UNCHANGED outcome
        ELSE IF d \in Visiting
        THEN outcome' = "cycle" /\ UNCHANGED stack
        ELSE stack' = Call(d) /\ UNCHANGED outcome
  BY DEF Look
<1>2. UNCHANGED <<deps, waves>> /\ stack # <<>> /\ stack \in Seq(Frame) /\ outcome = "running"
  BY DEF Look, WavesTypeOK
<1>3. Depth \in 1..Depth /\ Top = stack[Depth] /\ Top \in Frame /\ d \in Items
  BY <1>2, StackFacts DEF Top, Frame
<1>4. MemoIsLevelled'
  BY <1>2 DEF WavesInv, MemoIsLevelled, Needs
<1>5. CASE d \in DOMAIN waves
  <2>1. waves[d] \in Nat \ {0} /\ stack' = Looked(stack, d, waves[d]) /\ UNCHANGED outcome
    BY <1>1, <1>5 DEF WavesTypeOK
  <2>2. /\ Len(stack') = Len(stack)
        /\ \A n \in 1..Len(stack) : n # Len(stack) => stack'[n] = stack[n]
        /\ stack'[Len(stack)].item = stack[Len(stack)].item
        /\ stack'[Len(stack)].left = stack[Len(stack)].left \ {d}
        /\ stack'[Len(stack)].high =
             IF stack[Len(stack)].high < waves[d] THEN waves[d] ELSE stack[Len(stack)].high
    BY <1>2, <2>1, LookedFacts
  <2>3. Depth' = Depth
    BY <2>2 DEF Depth
  <2>4. FrameOK(Depth)'
    <3>1. FrameOK(Depth)
      BY <1>3 DEF WavesInv, Frames
    <3> QED BY <1>1, <1>2, <1>3, <1>5, <2>1, <2>2, <2>3, <3>1, AnswerKeeps DEF FrameOK, Seen, Depth
  <2>5. ASSUME NEW n \in 1..Depth, n # Depth PROVE FrameOK(n)'
    <3>1. stack'[n] = stack[n]
      BY <2>2, <2>5 DEF Depth
    <3> QED BY <1>2, <3>1 DEF WavesInv, Frames, FrameOK, Seen, InSet
  <2>6. Frames'
    BY <2>3, <2>4, <2>5 DEF Frames
  <2>7. Path'
    <3>1. \A n \in 1..Depth' : stack'[n].item = stack[n].item
      BY <2>2, <2>3 DEF Depth
    <3>2. \A n \in 1..Depth' : n < Depth' => stack'[n].left = stack[n].left
      BY <2>2, <2>3 DEF Depth
    <3> QED BY <1>2, <1>3, <2>3, <3>1, <3>2, PathStays DEF WavesInv
  <2> QED BY <1>2, <1>4, <2>1, <2>6, <2>7 DEF WavesInv, Answers, Refusals
<1>6. CASE d \notin DOMAIN waves /\ d \in Visiting
  <2>1. outcome' = "cycle" /\ UNCHANGED <<deps, waves, stack>>
    BY <1>1, <1>2, <1>6
  <2>2. OnCycle(d)
    BY <1>2, <1>6, VisitingIsOnCycle DEF WavesInv
  <2>3. Refusals'
    BY <1>3, <2>1, <2>2 DEF Refusals, OnCycle, Needs, Closed
  <2>4. Frames' /\ Path'
    BY <2>1 DEF WavesInv, Frames, FrameOK, Seen, InSet, Path, Closed, Needs, Depth
  <2> QED BY <1>4, <2>1, <2>3, <2>4 DEF WavesInv, Answers
<1>7. CASE d \notin DOMAIN waves /\ d \notin Visiting
  <2>1. stack' = Call(d) /\ UNCHANGED outcome
    BY <1>1, <1>7
  <2>2. (Frames /\ Path)'
    BY <1>1, <1>2, <1>3, <1>7, <2>1, CallKeeps DEF WavesInv
  <2> QED BY <1>2, <1>4, <2>1, <2>2 DEF WavesInv, Answers, Refusals
<1> QED BY <1>5, <1>6, <1>7

\* A step of Return keeps WavesInv.
LEMMA ReturnKeeps ==
  ASSUME WavesTypeOK, WavesInv, Return
  PROVE  WavesInv'
<1>0. Top.item \in Items /\ Wave(Top) \in Nat \ {0}
  BY ReturnFacts DEF Frame
<1> PICK i \in Items, w \in Nat \ {0} : i = Top.item /\ w = Wave(Top)
  BY <1>0
<1>1. UNCHANGED <<deps, outcome>> /\ outcome = "running" /\ Top.left = {} /\ Top = stack[Depth]
  BY DEF Return, Top
<1>2. /\ Depth \in 1..Depth /\ Top \in Frame
      /\ waves' = [j \in DOMAIN waves \cup {i} |-> IF j = i THEN w ELSE waves[j]]
      /\ Depth' = Depth - 1 /\ Depth \in Nat
      /\ \A n \in 1..Depth - 2 : stack'[n] = stack[n]
      /\ Depth > 1 =>
           /\ stack'[Depth - 1].item = stack[Depth - 1].item
           /\ stack'[Depth - 1].left = stack[Depth - 1].left \ {i}
           /\ stack'[Depth - 1].high = IF stack[Depth - 1].high < w THEN w ELSE stack[Depth - 1].high
  BY ReturnFacts, StackFacts DEF Frame
<1>3. FrameOK(Depth)
  BY <1>2 DEF WavesInv, Frames
<1>4. /\ DOMAIN waves' = DOMAIN waves \cup {i} /\ waves'[i] = w
      /\ \A j \in DOMAIN waves : j # i /\ waves'[j] = waves[j]
  BY <1>1, <1>2, <1>3 DEF FrameOK
<1>5. MemoIsLevelled'
  <2>1. ASSUME NEW j \in DOMAIN waves
        PROVE  /\ (Needs(j) \subseteq DOMAIN waves)'
               /\ \A d \in Needs(j)' : waves'[d] < waves'[j]
               /\ waves'[j] = 1 \/ \E d \in Needs(j)' : waves'[j] = waves'[d] + 1
    BY <1>1, <1>4 DEF WavesInv, MemoIsLevelled, Needs
  <2>2. Seen(Depth) = Needs(i) /\ w = 1 + Top.high
    BY <1>1 DEF Seen, InSet, Needs, Wave
  <2>3. Needs(i)' = Needs(i)
    BY <1>1 DEF Needs
  <2>4. Top.high \in Nat /\ \A d \in DOMAIN waves : waves[d] \in Nat
    BY <1>2 DEF Frame, WavesTypeOK
  <2>5. /\ Needs(i) \subseteq DOMAIN waves'
        /\ \A d \in Needs(i) : waves'[d] < waves'[i]
        /\ waves'[i] = 1 \/ \E d \in Needs(i) : waves'[i] = waves'[d] + 1
    BY <1>1, <1>3, <1>4, <2>2, <2>4 DEF FrameOK
  <2> QED BY <1>4, <2>1, <2>3, <2>5 DEF MemoIsLevelled, Needs
<1>6. Path'
  <2>1. Depth' \in 0..Depth
    BY <1>2
  <2>2. \A n \in 1..Depth' : stack'[n].item = stack[n].item
    BY <1>2
  <2>3. \A n \in 1..Depth' : n < Depth' => stack'[n].left = stack[n].left
    BY <1>2
  <2> QED BY <1>1, <2>1, <2>2, <2>3, PathStays DEF WavesInv
<1>7. ASSUME NEW n \in 1..Depth' PROVE FrameOK(n)'
  <2>1. n \in 1..Depth /\ FrameOK(n) /\ n < Depth /\ n \in Nat
    BY <1>2 DEF WavesInv, Frames
  <2>2. stack[n].item # i
    BY <1>1, <1>2, <2>1 DEF WavesInv, Path
  <2>3. stack[n] \in Frame
    BY <2>1, StackFacts
  <2>4. CASE n = Depth - 1
    <3>1. i \in stack[n].left
      BY <1>1, <1>2, <2>1, <2>4 DEF WavesInv, Path
    <3>2. /\ n = Depth' /\ i \in DOMAIN waves' /\ waves'[i] \in Nat \ {0}
          /\ DOMAIN waves \subseteq DOMAIN waves' /\ stack[n].item \notin DOMAIN waves'
          /\ stack'[n].item = stack[n].item /\ stack'[n].left = stack[n].left \ {i}
          /\ stack'[n].high = IF stack[n].high < waves'[i] THEN waves'[i] ELSE stack[n].high
      BY <1>2, <1>4, <2>1, <2>2, <2>4 DEF FrameOK
    <3>3. \A d \in InSet(stack[n].item) \ stack[n].left :
            d \in DOMAIN waves /\ waves'[d] = waves[d] /\ waves[d] <= stack[n].high
      BY <1>4, <2>1 DEF FrameOK, Seen
    <3> QED BY <1>1, <2>1, <2>3, <3>1, <3>2, <3>3, AnswerKeeps DEF FrameOK, Seen
  <2>5. CASE n < Depth - 1
    <3>1. stack'[n] = stack[n]
      BY <1>2, <2>1, <2>5
    <3> QED BY <1>1, <1>4, <2>1, <2>2, <3>1 DEF FrameOK, Seen, InSet
  <2> QED BY <1>2, <2>1, <2>4, <2>5
<1>8. Frames'
  BY <1>7 DEF Frames
<1> QED BY <1>1, <1>5, <1>6, <1>8 DEF WavesInv, Answers, Refusals

\* A step of Done keeps WavesInv.
LEMMA DoneKeeps ==
  ASSUME WavesTypeOK, WavesInv, Done
  PROVE  WavesInv'
BY DEF Done, WavesInv, Frames, FrameOK, Seen, InSet, Path, Closed, Needs, Depth, MemoIsLevelled, Answers, Refusals

\* Every step of the waves keeps the waves invariant.
LEMMA WavesStepInv == WavesTypeOK /\ WavesInv /\ [WavesNext]_wavesVars => WavesInv'
<1>1. WavesInv /\ UNCHANGED wavesVars => WavesInv'
  BY DEF wavesVars, WavesInv, Frames, FrameOK, Seen, InSet, Path, Closed, Needs, Depth, MemoIsLevelled,
         Answers, Refusals, OnCycle
<1> QED BY <1>1, VisitKeeps, LookKeeps, ReturnKeeps, DoneKeeps DEF WavesNext

\* Where every item has a wave, levelled, no item is on a cycle: those with a
\* lower wave than it are a closed set that it is not in.
LEMMA LevelsMeanNoCycle ==
  ASSUME WavesTypeOK, MemoIsLevelled, DOMAIN waves = Items, NEW i \in Items
  PROVE  ~OnCycle(i)
<1> DEFINE S == {j \in Items : waves[j] < waves[i]}
<1>1. \A j \in Items : waves[j] \in Nat
  BY DEF WavesTypeOK
<1>2. Needs(i) \subseteq S
  BY DEF MemoIsLevelled, Needs
<1>3. ASSUME NEW j \in S, NEW k \in Needs(j) PROVE k \in S
  <2>1. k \in Items /\ waves[k] < waves[j] /\ waves[j] < waves[i]
    BY DEF MemoIsLevelled, Needs
  <2> QED BY <1>1, <2>1
<1>4. i \notin S
  BY <1>1
<1> QED BY <1>2, <1>3, <1>4 DEF OnCycle, Closed

\* The waves invariant holds in every reachable state.
LEMMA WavesInvariant == ScheduleSpec => [](WavesTypeOK /\ WavesInv)
<1>1. ScheduleInit => WavesTypeOK /\ WavesInv
  BY InitOfEach, WavesInitTyped, WavesInitInv
<1>2. WavesTypeOK /\ WavesInv /\ [ScheduleNext]_scheduleVars => (WavesTypeOK /\ WavesInv)'
  BY StepOfEach, WavesStepTyped, WavesStepInv
<1> QED BY <1>1, <1>2, PTL DEF ScheduleSpec

\* Whatever the plan, a wave in the memo of recompute_waves is final: it is
\* one more than the highest of the item's dependencies.
THEOREM Levelled == ScheduleSpec => []MemoIsLevelled
<1>1. WavesInv => MemoIsLevelled
  BY DEF WavesInv
<1> QED BY <1>1, WavesInvariant, PTL

\* Whatever the plan, recompute_waves raises only if there is a cycle and
\* returns only if there is none.
THEOREM Refused == ScheduleSpec => []CyclesAreRefused
<1>1. WavesTypeOK /\ WavesInv => CyclesAreRefused
  BY LevelsMeanNoCycle DEF WavesInv, Answers, Refusals, CyclesAreRefused
<1> QED BY <1>1, WavesInvariant, PTL
-----------------------------------------------------------------------------
(* pack_lanes *)

\* A set of items that the forest does not split.
Whole(S) == S \subseteq Known(files) /\ \A a \in Known(files) : a \in S <=> parent[a] \in S

\* a and b are in the same tree of the forest.
Together(a, b) == \A S \in SUBSET Known(files) : Whole(S) => (a \in S <=> b \in S)

\* A set of items that holds all that overlap its members.
Chain(S) == \A a \in S, b \in Known(files) : Share(a, b) => b \in S

\* Where the finds of a union, or of the grouping, have got to.
FindsOK ==
  /\ pc \in {"find_a", "find_b"} => pair \in Pairs(Known(files)) /\ Share(pair[1], pair[2])
  /\ pc = "find_a" => Together(at, pair[1])
  /\ pc = "find_b" => root \in Known(files) /\ parent[root] = root /\ Together(root, pair[1]) /\ Together(at, pair[2])
  /\ pc = "find_group" => pair[1] \in Known(files) /\ Together(at, pair[1])

\* Of every two items that overlap, the pair waits, is being united or is in one tree.
Joined ==
  \A i, j \in Known(files) : i < j /\ Share(i, j) =>
    \/ <<i, j>> \in left
    \/ pc \in {"find_a", "find_b"} /\ pair = <<i, j>>
    \/ Together(i, j)

\* A tree holds only items that overlaps connect.
Linked == \A S \in SUBSET Known(files) : Chain(S) => Whole(S)

Grouping == pc \in {"group", "find_group", "packed", "refused"}

\* A group holds items of the tree of its root, and no item is forgotten.
Filed ==
  /\ \A r \in Members : \A i \in groups[r] :
       r \in Known(files) /\ i \in Known(files) /\ parent[r] = r /\ Together(r, i)
  /\ \A i \in Known(files) :
       \/ i \in ungrouped
       \/ pc = "find_group" /\ pair[1] = i
       \/ \E r \in Members : i \in groups[r]
  /\ IF Grouping THEN left = {} ELSE \A r \in Members : groups[r] = {}
  /\ pc \in {"packed", "refused"} => ungrouped = {}

LanesInv == FindsOK /\ Joined /\ Linked /\ Filed /\ pc # "refused"

\* A pair is two members in increasing order.
LEMMA PairFacts ==
  ASSUME NEW S, NEW q \in Pairs(S)
  PROVE  q = <<q[1], q[2]>> /\ q[1] \in S /\ q[2] \in S /\ q[1] < q[2]
BY DEF Pairs

\* The tasks whose files are known are members.
LEMMA KnownFacts == Known(files) \subseteq Members /\ Members \subseteq Nat
BY LanesAssumption DEF Known, Members

\* Two roots of one tree are one root: those that climb to the first are a set
\* that the forest does not split.
LEMMA RootsApart ==
  ASSUME LanesTypeOK, NEW r \in Known(files), NEW q \in Known(files),
         parent[r] = r, parent[q] = q, Together(r, q)
  PROVE  r = q
<1> DEFINE K == Known(files)
           Up(T) == \A x \in T : parent[x] \in T
           S == {x \in K : \A T \in SUBSET K : x \in T /\ Up(T) => r \in T}
<1>0. \A x \in K : parent[x] \in K
  BY DEF LanesTypeOK
<1>1. ASSUME NEW x \in K, parent[x] \in S PROVE x \in S
  BY <1>1
<1>2. ASSUME NEW x \in K, x \in S PROVE parent[x] \in S
  <2>1. SUFFICES ASSUME NEW T \in SUBSET K, parent[x] \in T, Up(T) PROVE r \in T
    BY <1>0
  <2>2. Up(T \cup {x})
    BY <2>1
  <2>3. r \in T \cup {x}
    BY <1>2, <2>2
  <2> QED BY <2>1, <2>3
<1>3. Whole(S)
  BY <1>1, <1>2 DEF Whole
<1>4. r \in S
  OBVIOUS
<1>5. q \in S
  BY <1>3, <1>4 DEF Together
<1>6. Up({q}) /\ {q} \in SUBSET K
  OBVIOUS
<1> QED BY <1>5, <1>6

\* Halving a path splits no tree, joins none and leaves the roots.
LEMMA HalveFacts ==
  ASSUME LanesTypeOK, Halve
  PROVE  /\ Known(files)' = Known(files) /\ at \in Known(files) /\ at' \in Known(files)
         /\ parent' \in [Known(files) -> Known(files)]
         /\ \A r \in Known(files) : parent[r] = r => parent'[r] = r
         /\ \A S : Whole(S)' <=> Whole(S)
         /\ \A a, b : Together(a, b)' <=> Together(a, b)
         /\ Together(at', at)
<1> DEFINE K == Known(files)
           b == parent[at]
           c == parent[b]
<1>1. at \in K /\ parent \in [K -> K] /\ b \in K /\ c \in K /\ b # at
  BY DEF Halve, Finding, LanesTypeOK
<1>2. files' = files /\ parent' = [parent EXCEPT ![at] = c] /\ at' = c
  BY <1>1 DEF Halve
<1>3. Known(files)' = K
  BY <1>2
<1>4. parent'[at] = c /\ \A a \in K : a # at => parent'[a] = parent[a]
  BY <1>1, <1>2
<1>5. ASSUME NEW S PROVE Whole(S)' <=> Whole(S)
  <2>1. Whole(S)' <=> (S \subseteq K /\ \A a \in K : a \in S <=> parent'[a] \in S)
    BY <1>3 DEF Whole
  <2>2. Whole(S) <=> (S \subseteq K /\ \A a \in K : a \in S <=> parent[a] \in S)
    BY DEF Whole
  <2>3. parent'[b] = c
    BY <1>1, <1>4
  <2> HIDE DEF K
  <2>4. ASSUME S \subseteq K, \A a \in K : a \in S <=> parent'[a] \in S
        PROVE  \A a \in K : a \in S <=> parent[a] \in S
    BY <1>1, <1>4, <2>3, <2>4
  <2>5. ASSUME S \subseteq K, \A a \in K : a \in S <=> parent[a] \in S
        PROVE  \A a \in K : a \in S <=> parent'[a] \in S
    BY <1>1, <1>4, <2>5
  <2> QED BY <2>1, <2>2, <2>4, <2>5
<1>6. \A x, y : Together(x, y)' <=> Together(x, y)
  BY <1>3, <1>5 DEF Together
<1>7. Together(at', at)
  BY <1>1, <1>2 DEF Together, Whole
<1>8. parent' \in [K -> K]
  BY <1>1, <1>2
<1> QED BY <1>1, <1>2, <1>3, <1>4, <1>5, <1>6, <1>7, <1>8

\* A union joins two trees, and no other.
LEMMA UnionFacts ==
  ASSUME LanesTypeOK, FoundB, root \in Known(files), parent[root] = root
  PROVE  /\ Known(files)' = Known(files) /\ at \in Known(files)
         /\ parent' \in [Known(files) -> Known(files)]
         /\ \A S : Whole(S)' <=> Whole(S) /\ (at \in S <=> root \in S)
         /\ \A a, b : Together(a, b) => Together(a, b)'
         /\ Together(at, root)'
<1> DEFINE K == Known(files)
<1>1. at \in K /\ parent \in [K -> K] /\ parent[at] = at
  BY DEF FoundB, LanesTypeOK
<1>2. files' = files /\ parent' = [parent EXCEPT ![at] = root]
  BY DEF FoundB, Hung
<1>3. Known(files)' = K
  BY <1>2
<1>4. parent'[at] = root /\ \A a \in K : a # at => parent'[a] = parent[a]
  BY <1>1, <1>2
<1>5. ASSUME NEW S PROVE Whole(S)' <=> Whole(S) /\ (at \in S <=> root \in S)
  <2>1. Whole(S)' <=> (S \subseteq K /\ \A a \in K : a \in S <=> parent'[a] \in S)
    BY <1>3 DEF Whole
  <2>2. Whole(S) <=> (S \subseteq K /\ \A a \in K : a \in S <=> parent[a] \in S)
    BY DEF Whole
  <2> QED BY <1>1, <1>4, <2>1, <2>2
<1>6. \A x, y : Together(x, y) => Together(x, y)'
  BY <1>3, <1>5 DEF Together
<1>7. Together(at, root)'
  BY <1>3, <1>5 DEF Together, FoundB, finding
<1>8. parent' \in [K -> K]
  BY <1>1, <1>2
<1> QED BY <1>1, <1>3, <1>5, <1>6, <1>7, <1>8

\* Before the first comparison the lanes invariant holds.
LEMMA LanesInitOK == LanesInit => LanesTypeOK /\ LanesInv
<1> SUFFICES ASSUME LanesInit PROVE LanesTypeOK /\ LanesInv
  OBVIOUS
<1>1. LanesTypeOK
  BY KnownFacts DEF LanesInit, LanesTypeOK, finding
<1>2. FindsOK /\ pc # "refused"
  BY DEF LanesInit, FindsOK
<1>3. Joined
  BY DEF LanesInit, Joined, Pairs
<1>4. Linked
  BY DEF LanesInit, Linked, Whole
<1>5. Filed
  BY DEF LanesInit, Filed, Grouping
<1> QED BY <1>1, <1>2, <1>3, <1>4, <1>5 DEF LanesInv

\* A step of Compare keeps LanesTypeOK and LanesInv.
LEMMA CompareKeeps ==
  ASSUME LanesTypeOK, LanesInv, Compare
  PROVE  LanesTypeOK' /\ LanesInv'
<1>1. PICK q \in left :
        /\ \A r \in left : r = q \/ Earlier(q, r)
        /\ left' = Remaining(q)
        /\ IF Overlap(q[1], q[2])
           THEN pc' = "find_a" /\ pair' = q /\ at' = q[1]
           ELSE UNCHANGED <<pc, pair, at>>
  BY DEF Compare
<1>2. pc = "compare" /\ UNCHANGED <<files, parent, ungrouped, root, groups>> /\ left' = left \ {q}
  BY <1>1 DEF Compare, Remaining
<1>3. q \in Pairs(Known(files)) /\ q = <<q[1], q[2]>> /\ q[1] \in Known(files) /\ q[2] \in Known(files)
  BY PairFacts DEF LanesTypeOK
<1>4. Known(files)' = Known(files) /\ \A i, j : Share(i, j)' <=> Share(i, j)
  BY <1>2 DEF Share
<1>5. /\ \A S : Whole(S)' <=> Whole(S)
      /\ \A S : Chain(S)' <=> Chain(S)
      /\ \A a, b : Together(a, b)' <=> Together(a, b)
  BY <1>2 DEF Whole, Chain, Together, Share
<1>6. LanesTypeOK'
  BY <1>1, <1>2, <1>3, <1>4, KnownFacts DEF LanesTypeOK
<1>7. FindsOK' /\ pc' # "refused"
  <2>1. CASE Overlap(q[1], q[2])
    <3>1. pc' = "find_a" /\ pair' = q /\ at' = q[1] /\ Share(q[1], q[2])
      BY <1>1, <2>1 DEF Overlap, Share
    <3>2. Together(at', q[1])
      BY <3>1 DEF Together
    <3> QED BY <1>3, <1>4, <1>5, <3>1, <3>2 DEF FindsOK
  <2>2. CASE ~Overlap(q[1], q[2])
    BY <1>1, <1>2, <2>2 DEF FindsOK
  <2> QED BY <2>1, <2>2
<1>8. Joined'
  <2> SUFFICES ASSUME NEW i \in Known(files), NEW j \in Known(files), i < j, Share(i, j)
               PROVE  \/ <<i, j>> \in left'
                      \/ pc' \in {"find_a", "find_b"} /\ pair' = <<i, j>>
                      \/ Together(i, j)'
    BY <1>4 DEF Joined
  <2>1. <<i, j>> \in left \/ Together(i, j)
    BY <1>2 DEF LanesInv, Joined
  <2>2. CASE <<i, j>> = q
    <3>1. Overlap(q[1], q[2])
      BY <2>2 DEF Overlap, Share
    <3> QED BY <1>1, <2>2, <3>1
  <2>3. CASE <<i, j>> # q
    BY <1>2, <1>5, <2>1, <2>3
  <2> QED BY <2>2, <2>3
<1>9. Linked'
  BY <1>4, <1>5 DEF LanesInv, Linked
<1>10. Filed'
  <2>1. pc' \in {"compare", "find_a"}
    BY <1>1, <1>2
  <2> QED BY <1>2, <1>4, <1>5, <2>1 DEF LanesInv, Filed, Grouping
<1> QED BY <1>6, <1>7, <1>8, <1>9, <1>10 DEF LanesInv

\* A step of Halve keeps LanesTypeOK and LanesInv.
LEMMA HalveKeeps ==
  ASSUME LanesTypeOK, LanesInv, Halve
  PROVE  LanesTypeOK' /\ LanesInv'
<1> DEFINE K == Known(files)
<1>1. UNCHANGED <<files, left, ungrouped, pc, pair, root, groups>> /\ pc \in {"find_a", "find_b", "find_group"}
  BY DEF Halve, Finding
<1>2. /\ Known(files)' = K /\ at \in K /\ at' \in K
      /\ parent' \in [K -> K]
      /\ \A r \in K : parent[r] = r => parent'[r] = r
      /\ \A S : Whole(S)' <=> Whole(S)
      /\ \A a, b : Together(a, b)' <=> Together(a, b)
      /\ Together(at', at)
  BY HalveFacts
<1>3. \A i, j : Share(i, j)' <=> Share(i, j)
  BY <1>1 DEF Share
<1>4. \A S : Chain(S)' <=> Chain(S)
  BY <1>1 DEF Chain, Share
<1>5. LanesTypeOK'
  BY <1>1, <1>2, KnownFacts DEF LanesTypeOK
<1>6. \A x : Together(at, x) => Together(at', x)
  BY <1>2 DEF Together
<1>7. FindsOK'
  <2> HIDE DEF K
  <2> QED BY <1>1, <1>2, <1>3, <1>6 DEF LanesInv, FindsOK, K
<1>8. Joined'
  BY <1>1, <1>2, <1>3 DEF LanesInv, Joined
<1>9. Linked'
  BY <1>2, <1>4 DEF LanesInv, Linked
<1>10. Filed'
  BY <1>1, <1>2 DEF LanesInv, Filed, Grouping
<1> QED BY <1>1, <1>5, <1>7, <1>8, <1>9, <1>10 DEF LanesInv

\* A step of FoundA keeps LanesTypeOK and LanesInv.
LEMMA FoundAKeeps ==
  ASSUME LanesTypeOK, LanesInv, FoundA
  PROVE  LanesTypeOK' /\ LanesInv'
<1>1. /\ pc = "find_a" /\ parent[at] = at /\ root' = at /\ at' = pair[2] /\ pc' = "find_b"
      /\ UNCHANGED <<files, parent, left, ungrouped, pair, groups>>
  BY DEF FoundA
<1>2. pair \in Pairs(Known(files)) /\ Share(pair[1], pair[2]) /\ Together(at, pair[1]) /\ at \in Known(files)
  BY <1>1 DEF LanesInv, FindsOK, LanesTypeOK
<1>3. pair = <<pair[1], pair[2]>> /\ pair[1] \in Known(files) /\ pair[2] \in Known(files)
  BY <1>2, PairFacts
<1>4. /\ Known(files)' = Known(files)
      /\ \A i, j : Share(i, j)' <=> Share(i, j)
      /\ \A S : Whole(S)' <=> Whole(S)
      /\ \A S : Chain(S)' <=> Chain(S)
      /\ \A a, b : Together(a, b)' <=> Together(a, b)
  BY <1>1 DEF Whole, Chain, Together, Share
<1>5. LanesTypeOK'
  BY <1>1, <1>2, <1>3, KnownFacts DEF LanesTypeOK
<1>6. Together(pair[2], pair[2])
  BY DEF Together
<1>7. FindsOK'
  BY <1>1, <1>2, <1>4, <1>6 DEF FindsOK
<1>8. Joined'
  BY <1>1, <1>4 DEF LanesInv, Joined
<1>9. Linked'
  BY <1>4 DEF LanesInv, Linked
<1>10. Filed'
  BY <1>1, <1>4 DEF LanesInv, Filed, Grouping
<1> QED BY <1>1, <1>5, <1>7, <1>8, <1>9, <1>10 DEF LanesInv

\* A step of FoundB keeps LanesTypeOK and LanesInv.
LEMMA FoundBKeeps ==
  ASSUME LanesTypeOK, LanesInv, FoundB
  PROVE  LanesTypeOK' /\ LanesInv'
<1> DEFINE K == Known(files)
           a == pair[1]
           b == pair[2]
<1>1. /\ pc = "find_b" /\ parent[at] = at /\ pc' = "compare"
      /\ UNCHANGED <<files, left, ungrouped, pair, at, root, groups>>
  BY DEF FoundB, finding
<1>2. /\ pair \in Pairs(K) /\ Share(a, b) /\ root \in K /\ parent[root] = root
      /\ Together(root, a) /\ Together(at, b)
  BY <1>1 DEF LanesInv, FindsOK
<1>3. pair = <<a, b>> /\ a \in K /\ b \in K
  BY <1>2, PairFacts
<1>4. /\ Known(files)' = K /\ at \in K
      /\ parent' \in [K -> K]
      /\ \A S : Whole(S)' <=> Whole(S) /\ (at \in S <=> root \in S)
      /\ \A x, y : Together(x, y) => Together(x, y)'
      /\ Together(at, root)'
  BY <1>2, UnionFacts
<1>5. /\ \A i, j : Share(i, j)' <=> Share(i, j)
      /\ \A S : Chain(S)' <=> Chain(S)
  BY <1>1 DEF Chain, Share
<1>6. LanesTypeOK'
  BY <1>1, <1>4, KnownFacts DEF LanesTypeOK
<1>7. FindsOK'
  BY <1>1 DEF FindsOK
<1>8. Together(a, b)'
  <2>1. Together(root, a)' /\ Together(at, b)' /\ Together(at, root)'
    BY <1>1, <1>2, <1>4 DEF Together
  <2> QED BY <2>1 DEF Together
<1>9. Joined'
  BY <1>1, <1>3, <1>4, <1>5, <1>8 DEF LanesInv, Joined
<1>10. Linked'
  <2> SUFFICES ASSUME NEW S \in SUBSET K, Chain(S) PROVE Whole(S)'
    BY <1>4, <1>5 DEF Linked
  <2>1. Whole(S)
    BY DEF LanesInv, Linked
  <2>2. a \in S <=> b \in S
    BY <1>2, <1>3 DEF Chain, Share
  <2> QED BY <1>2, <1>4, <2>1, <2>2 DEF Together
<1>11. Filed'
  <2>1. \A r \in Members : groups[r] = {}
    BY <1>1 DEF LanesInv, Filed, Grouping
  <2> QED BY <1>1, <1>4, <2>1 DEF LanesInv, Filed, Grouping
<1> QED BY <1>1, <1>6, <1>7, <1>9, <1>10, <1>11 DEF LanesInv

\* A step of StartGroups keeps LanesTypeOK and LanesInv.
LEMMA StartGroupsKeeps ==
  ASSUME LanesTypeOK, LanesInv, StartGroups
  PROVE  LanesTypeOK' /\ LanesInv'
<1>1. /\ pc = "compare" /\ left = {} /\ pc' = "group"
      /\ UNCHANGED <<files, parent, left, ungrouped, pair, at, root, groups>>
  BY DEF StartGroups, finding
<1>2. /\ Known(files)' = Known(files)
      /\ \A i, j : Share(i, j)' <=> Share(i, j)
      /\ \A S : Whole(S)' <=> Whole(S)
      /\ \A S : Chain(S)' <=> Chain(S)
      /\ \A a, b : Together(a, b)' <=> Together(a, b)
  BY <1>1 DEF Whole, Chain, Together, Share
<1>3. LanesTypeOK'
  BY <1>1 DEF LanesTypeOK
<1>4. FindsOK'
  BY <1>1 DEF FindsOK
<1>5. Joined'
  BY <1>1, <1>2 DEF LanesInv, Joined
<1>6. Linked'
  BY <1>2 DEF LanesInv, Linked
<1>7. Filed'
  BY <1>1, <1>2 DEF LanesInv, Filed, Grouping
<1> QED BY <1>1, <1>3, <1>4, <1>5, <1>6, <1>7 DEF LanesInv

\* A step of Group keeps LanesTypeOK and LanesInv.
LEMMA GroupKeeps ==
  ASSUME LanesTypeOK, LanesInv, Group
  PROVE  LanesTypeOK' /\ LanesInv'
<1>1. PICK i \in ungrouped :
        /\ \A j \in ungrouped : i <= j
        /\ at' = i
        /\ pair' = <<i, i>>
        /\ ungrouped' = ungrouped \ {i}
  BY DEF Group
<1>2. pc = "group" /\ pc' = "find_group" /\ UNCHANGED <<files, parent, left, root, groups>>
  BY DEF Group
<1>3. i \in Known(files)
  BY DEF LanesTypeOK
<1>4. /\ Known(files)' = Known(files)
      /\ \A x, y : Share(x, y)' <=> Share(x, y)
      /\ \A S : Whole(S)' <=> Whole(S)
      /\ \A S : Chain(S)' <=> Chain(S)
      /\ \A a, b : Together(a, b)' <=> Together(a, b)
  BY <1>2 DEF Whole, Chain, Together, Share
<1>5. LanesTypeOK'
  BY <1>1, <1>2, <1>3, KnownFacts DEF LanesTypeOK
<1>6. Together(i, i)
  BY DEF Together
<1>7. FindsOK'
  BY <1>1, <1>2, <1>3, <1>4, <1>6 DEF FindsOK
<1>8. Joined'
  BY <1>2, <1>4 DEF LanesInv, Joined
<1>9. Linked'
  BY <1>4 DEF LanesInv, Linked
<1>10. Filed'
  BY <1>1, <1>2, <1>4 DEF LanesInv, Filed, Grouping
<1> QED BY <1>2, <1>5, <1>7, <1>8, <1>9, <1>10 DEF LanesInv

\* A step of FoundGroup keeps LanesTypeOK and LanesInv.
LEMMA FoundGroupKeeps ==
  ASSUME LanesTypeOK, LanesInv, FoundGroup
  PROVE  LanesTypeOK' /\ LanesInv'
<1> DEFINE i == pair[1]
<1>1. /\ pc = "find_group" /\ parent[at] = at /\ pc' = "group"
      /\ groups' = [groups EXCEPT ![at] = groups[at] \cup {i}]
      /\ UNCHANGED <<files, parent, left, ungrouped, pair, at, root>>
  BY DEF FoundGroup, finding
<1>2. i \in Known(files) /\ Together(at, i) /\ at \in Known(files)
  BY <1>1 DEF LanesInv, FindsOK, LanesTypeOK
<1>3. i \in Members /\ at \in Members
  BY <1>2, KnownFacts
<1>4. /\ Known(files)' = Known(files)
      /\ \A x, y : Share(x, y)' <=> Share(x, y)
      /\ \A S : Whole(S)' <=> Whole(S)
      /\ \A S : Chain(S)' <=> Chain(S)
      /\ \A a, b : Together(a, b)' <=> Together(a, b)
  BY <1>1 DEF Whole, Chain, Together, Share
<1>5. groups \in [Members -> SUBSET Members]
  BY DEF LanesTypeOK
<1>6. groups'[at] = groups[at] \cup {i} /\ \A r \in Members : r # at => groups'[r] = groups[r]
  BY <1>1, <1>3, <1>5
<1>7. groups' \in [Members -> SUBSET Members]
  BY <1>1, <1>3, <1>5
<1>8. LanesTypeOK'
  BY <1>1, <1>7 DEF LanesTypeOK
<1>9. FindsOK'
  BY <1>1 DEF FindsOK
<1>10. Joined'
  BY <1>1, <1>4 DEF LanesInv, Joined
<1>11. Linked'
  BY <1>4 DEF LanesInv, Linked
<1>12. Filed'
  BY <1>1, <1>2, <1>3, <1>4, <1>6 DEF LanesInv, Filed, Grouping
<1> QED BY <1>1, <1>8, <1>9, <1>10, <1>11, <1>12 DEF LanesInv

\* Once the pairs are compared, a tree holds all that overlap its members.
LEMMA WholeIsChain ==
  ASSUME LanesTypeOK, LanesInv, Grouping, NEW S \in SUBSET Known(files), Whole(S)
  PROVE  Chain(S)
<1> SUFFICES ASSUME NEW a \in S, NEW b \in Known(files), Share(a, b) PROVE b \in S
  BY DEF Chain
<1>1. left = {} /\ ~(pc \in {"find_a", "find_b"})
  BY DEF LanesInv, Filed, Grouping
<1>2. a \in Known(files) /\ a \in Nat /\ b \in Nat
  BY KnownFacts
<1>3. CASE a < b
  <2>1. Together(a, b)
    BY <1>1, <1>2, <1>3 DEF LanesInv, Joined
  <2> QED BY <2>1 DEF Together
<1>4. CASE b < a
  <2>1. Share(b, a)
    BY DEF Share
  <2>2. Together(b, a)
    BY <1>1, <1>2, <1>4, <2>1 DEF LanesInv, Joined
  <2> QED BY <2>2 DEF Together
<1>5. CASE a = b
  BY <1>5
<1> QED BY <1>2, <1>3, <1>4, <1>5

\* Two items are in one group exactly when they are in one tree.
LEMMA GroupFacts ==
  ASSUME LanesTypeOK, LanesInv, NEW r \in Members, NEW q \in Members,
         NEW i \in groups[r], NEW j \in groups[q]
  PROVE  i \in Known(files) /\ j \in Known(files) /\ (Together(i, j) <=> r = q)
<1>1. /\ r \in Known(files) /\ i \in Known(files) /\ parent[r] = r /\ Together(r, i)
      /\ q \in Known(files) /\ j \in Known(files) /\ parent[q] = q /\ Together(q, j)
  BY DEF LanesInv, Filed
<1>2. Together(i, j) => Together(r, q)
  BY <1>1 DEF Together
<1>3. r = q => Together(i, j)
  BY <1>1 DEF Together
<1> QED BY <1>1, <1>2, <1>3, RootsApart

\* A lane is a group or one item without files.
LEMMA LaneFacts ==
  ASSUME LanesTypeOK, NEW g \in Lanes
  PROVE  \/ \E r \in Members : g = groups[r] /\ g # {}
         \/ \E i \in Members \ Known(files) : g = {i}
BY DEF Lanes

\* While the groups are being built, no two of them share a file.
LEMMA LanesDisjoint ==
  ASSUME LanesTypeOK, LanesInv, Grouping
  PROVE  Disjoint
<1> SUFFICES ASSUME NEW g \in Lanes, NEW h \in Lanes, NEW i \in g, NEW j \in h,
                    NEW f, f \in files[i], f \in files[j]
             PROVE  g = h
  BY DEF Disjoint, LaneFiles
<1>1. g \subseteq Members /\ h \subseteq Members
  BY LaneFacts DEF LanesTypeOK
<1>2. i \in Known(files) /\ j \in Known(files) /\ Share(i, j) /\ Share(j, i)
  BY <1>1 DEF Known, Share
<1>3. PICK r \in Members : g = groups[r]
  BY <1>2, LaneFacts
<1>4. PICK q \in Members : h = groups[q]
  BY <1>2, LaneFacts
<1>5. Together(i, j)
  BY <1>2, WholeIsChain DEF Together, Chain
<1> QED BY <1>3, <1>4, <1>5, GroupFacts

\* A step of Verify keeps LanesTypeOK and LanesInv.
LEMMA VerifyKeeps ==
  ASSUME LanesTypeOK, LanesInv, Verify
  PROVE  LanesTypeOK' /\ LanesInv'
<1>1. /\ pc = "group" /\ ungrouped = {}
      /\ UNCHANGED <<files, parent, left, ungrouped, pair, at, root, groups>>
  BY DEF Verify, finding
<1>2. pc' = "packed"
  BY <1>1, LanesDisjoint DEF Verify, Grouping
<1>3. /\ Known(files)' = Known(files)
      /\ \A i, j : Share(i, j)' <=> Share(i, j)
      /\ \A S : Whole(S)' <=> Whole(S)
      /\ \A S : Chain(S)' <=> Chain(S)
      /\ \A a, b : Together(a, b)' <=> Together(a, b)
  BY <1>1 DEF Whole, Chain, Together, Share
<1>4. LanesTypeOK'
  BY <1>1, <1>2 DEF LanesTypeOK
<1>5. FindsOK'
  BY <1>1, <1>2 DEF FindsOK
<1>6. Joined'
  BY <1>1, <1>3 DEF LanesInv, Joined
<1>7. Linked'
  BY <1>3 DEF LanesInv, Linked
<1>8. Filed'
  BY <1>1, <1>2, <1>3 DEF LanesInv, Filed, Grouping
<1> QED BY <1>2, <1>4, <1>5, <1>6, <1>7, <1>8 DEF LanesInv

\* Every step of the lanes keeps the types and the invariant.
LEMMA LanesStepOK == LanesTypeOK /\ LanesInv /\ [LanesNext]_lanesVars => (LanesTypeOK /\ LanesInv)'
<1>1. LanesTypeOK /\ LanesInv /\ UNCHANGED lanesVars => LanesTypeOK' /\ LanesInv'
  BY DEF lanesVars, finding, LanesTypeOK, LanesInv, FindsOK, Joined, Linked, Filed, Grouping, Whole, Chain,
         Together, Share
<1> QED BY <1>1, CompareKeeps, HalveKeeps, FoundAKeeps, FoundBKeeps, StartGroupsKeeps, GroupKeeps,
           FoundGroupKeeps, VerifyKeeps DEF LanesNext

\* The lanes invariant holds in every reachable state.
LEMMA LanesInvariant == ScheduleSpec => [](LanesTypeOK /\ LanesInv)
<1>1. ScheduleInit => LanesTypeOK /\ LanesInv
  BY InitOfEach, LanesInitOK
<1>2. (LanesTypeOK /\ LanesInv) /\ [ScheduleNext]_scheduleVars => (LanesTypeOK /\ LanesInv)'
  BY StepOfEach, LanesStepOK
<1> QED BY <1>1, <1>2, PTL DEF ScheduleSpec

\* Once the pairs are compared, overlaps connect two items exactly when they
\* are in one tree.
LEMMA ConnectedIsTogether ==
  ASSUME LanesTypeOK, LanesInv, Grouping, NEW i \in Known(files), NEW j \in Known(files)
  PROVE  Connected(i, j) <=> Together(i, j)
<1> DEFINE K == Known(files)
<1>1. Connected(i, j) <=> \A S \in SUBSET K : i \in S /\ Chain(S) => j \in S
  BY DEF Connected, Chain
<1>2. \A S \in SUBSET K : Chain(S) <=> Whole(S)
  BY WholeIsChain DEF LanesInv, Linked
<1>3. \A S \in SUBSET K : Whole(S) => Whole(K \ S)
  BY DEF Whole, LanesTypeOK
<1>4. Together(i, j) => Connected(i, j)
  BY <1>1, <1>2 DEF Together
<1>5. ASSUME Connected(i, j), NEW S \in SUBSET K, Whole(S) PROVE i \in S <=> j \in S
  <2>1. i \in S => j \in S
    BY <1>1, <1>2, <1>5
  <2>2. Whole(K \ S) /\ Chain(K \ S)
    BY <1>2, <1>3, <1>5
  <2>3. i \in K \ S => j \in K \ S
    BY <1>1, <1>5, <2>2
  <2> QED BY <2>1, <2>3
<1> QED BY <1>4, <1>5 DEF Together

\* Each item with files is in a group, once the items are grouped.
LEMMA AllFiled ==
  ASSUME LanesTypeOK, LanesInv, pc = "packed", NEW i \in Known(files)
  PROVE  \E r \in Members : i \in groups[r] /\ groups[r] \in Lanes
<1>1. PICK r \in Members : i \in groups[r]
  BY DEF LanesInv, Filed
<1> QED BY <1>1 DEF Lanes

\* The lanes invariant gives that the finished lanes are the components.
LEMMA PackedIsRight ==
  ASSUME LanesTypeOK, LanesInv
  PROVE  LanesAreComponents
<1>1. pc # "refused"
  BY DEF LanesInv
<1> SUFFICES ASSUME pc = "packed"
             PROVE  /\ UNION Lanes = Members
                    /\ \A g, h \in Lanes : g # h => g \cap h = {}
                    /\ \A i, j \in Known(files) : Connected(i, j) <=> \E g \in Lanes : {i, j} \subseteq g
                    /\ \A i \in Members \ Known(files) : {i} \in Lanes
  BY <1>1 DEF LanesAreComponents
<1>2. Grouping
  BY DEF Grouping
<1>3. \A i \in Members \ Known(files) : {i} \in Lanes
  BY DEF Lanes
<1>4. UNION Lanes = Members
  <2>1. ASSUME NEW g \in Lanes PROVE g \subseteq Members
    BY LaneFacts DEF LanesTypeOK
  <2>2. ASSUME NEW i \in Members PROVE \E g \in Lanes : i \in g
    BY <1>3, AllFiled
  <2> QED BY <2>1, <2>2
<1>5. ASSUME NEW g \in Lanes, NEW h \in Lanes, NEW i, i \in g, i \in h PROVE g = h
  <2>1. Together(i, i)
    BY DEF Together
  <2>2. \A r \in Members : groups[r] \subseteq Known(files)
    BY DEF LanesInv, Filed
  <2>3. CASE i \in Known(files)
    <3>1. PICK r \in Members : g = groups[r]
      BY <1>5, <2>3, LaneFacts
    <3>2. PICK q \in Members : h = groups[q]
      BY <1>5, <2>3, LaneFacts
    <3> QED BY <1>5, <2>1, <3>1, <3>2, GroupFacts
  <2>4. CASE i \notin Known(files)
    <3>1. g = {i}
      BY <1>5, <2>2, <2>4, LaneFacts
    <3>2. h = {i}
      BY <1>5, <2>2, <2>4, LaneFacts
    <3> QED BY <3>1, <3>2
  <2> QED BY <2>3, <2>4
<1>6. ASSUME NEW i \in Known(files), NEW j \in Known(files)
      PROVE  Connected(i, j) <=> \E g \in Lanes : {i, j} \subseteq g
  <2>1. PICK r \in Members : i \in groups[r] /\ groups[r] \in Lanes
    BY AllFiled
  <2>2. PICK q \in Members : j \in groups[q] /\ groups[q] \in Lanes
    BY AllFiled
  <2>3. Together(i, j) <=> r = q
    BY <2>1, <2>2, GroupFacts
  <2>4. r = q => \E g \in Lanes : {i, j} \subseteq g
    BY <2>1, <2>2
  <2>5. ASSUME NEW g \in Lanes, {i, j} \subseteq g PROVE Together(i, j)
    <3>1. g = groups[r] /\ g = groups[q]
      BY <1>5, <2>1, <2>2, <2>5
    <3> QED BY <2>1, <2>2, <3>1, GroupFacts
  <2> QED BY <1>2, <2>3, <2>4, <2>5, ConnectedIsTogether
<1> QED BY <1>3, <1>4, <1>5, <1>6

\* The memo and the stack, the forest and the groups are what they are taken for.
THEOREM ScheduleTypes == ScheduleSpec => []ScheduleTypeOK
<1>1. WavesTypeOK /\ LanesTypeOK => ScheduleTypeOK
  BY DEF ScheduleTypeOK
<1> QED BY <1>1, WavesInvariant, LanesInvariant, PTL

\* Whatever the files, the lanes pack_lanes returns are the classes of items
\* connected by overlaps, and its own check of them never raises.
THEOREM Packed == ScheduleSpec => []LanesAreComponents
<1> QED BY LanesInvariant, PackedIsRight, PTL
=============================================================================

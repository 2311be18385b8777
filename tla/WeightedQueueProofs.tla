------------------------ MODULE WeightedQueueProofs ------------------------
(***************************************************************************)
(* Bounded bypass of the weighted queue for every set of jobs and all      *)
(* capacities.                                                             *)
(***************************************************************************)
EXTENDS WeightedQueue, SequenceTheorems, TLAPS

\* Within what is left of its allowance a non-empty class meets a slot of its own.
SlotAhead ==
    \A p \in Priorities : queue[p] # <<>> =>
        \E d \in 0..(MaxPassed[p] - passed[p]) :
            SCHEDULE[(cursor + d) % Slots] = p

\* A class is passed over only while it holds a job.
EmptyNotPassed == \A p \in Priorities : queue[p] = <<>> => passed[p] = 0

IInv == QueueTypeOK /\ SlotAhead /\ EmptyNotPassed

-----------------------------------------------------------------------------
\* From every slot, each class has a slot within its longest gap.
LEMMA GapFacts ==
    ASSUME NEW cur \in 0..(Slots - 1), NEW p \in Priorities
    PROVE  \E d \in 0..MaxPassed[p] : SCHEDULE[(cur + d) % Slots] = p
<1>1. CASE p = "Lo"
  <2>1. 20 - cur \in 0..MaxPassed[p] /\ (cur + (20 - cur)) % Slots = 20
    BY <1>1 DEF Slots, MaxPassed, Priorities
  <2>2. QED
    BY <1>1, <2>1 DEF SCHEDULE, Slots
<1>2. CASE p = "Md"
  <2>1. \E d \in 0..5 : (cur + d) % 21 \in {4, 9, 14, 19}
    <3>1. CASE cur = 20
      BY <3>1
    <3>2. CASE cur \in 0..19
      BY <3>2
    <3>3. QED
      BY <3>1, <3>2 DEF Slots
  <2>2. QED
    BY <1>2, <2>1 DEF SCHEDULE, Slots, MaxPassed, Priorities
<1>3. CASE p = "Hi"
  <2>1. \E d \in 0..2 : (cur + d) % 21 \in (0..20) \ {4, 9, 14, 19, 20}
    BY DEF Slots
  <2>2. PICK d \in 0..2 : (cur + d) % 21 \in (0..20) \ {4, 9, 14, 19, 20}
    BY <2>1
  <2>3. ((cur + d) % 21) % 5 # 4
    BY <2>2
  <2>4. SCHEDULE[(cur + d) % Slots] = "Hi"
    BY <2>2, <2>3 DEF SCHEDULE, Slots
  <2>5. QED
    BY <1>3, <2>4 DEF MaxPassed, Priorities
<1>4. QED
  BY <1>1, <1>2, <1>3 DEF Priorities

\* Where a later slot is found after the cursor has moved.
LEMMA MoveCursor ==
    ASSUME NEW cur \in 0..20, NEW offset \in 0..20, NEW d \in 0..20, offset < d
    PROVE  (((((cur + offset) % 21) + 1) % 21) + (d - offset - 1)) % 21
             = (cur + d) % 21
OBVIOUS

\* What is left of a class's allowance after a pop at an earlier offset.
LEMMA AllowanceLeft ==
    ASSUME NEW m \in 0..20, NEW k \in Nat, NEW d \in 0..(m - k)
    PROVE  /\ d \in 0..20
           /\ \A offset \in 0..20 :
                 offset < d => d - offset - 1 \in 0..(m - (k + 1))
OBVIOUS

\* One class of the queue under push and pop.
LEMMA ClassFacts ==
    ASSUME NEW q \in Seq(Jobs), NEW job \in Jobs
    PROVE  /\ Len(q) \in Nat
           /\ Append(q, job) \in Seq(Jobs) /\ Len(Append(q, job)) = Len(q) + 1
           /\ Append(q, job) # <<>>
BY AppendProperties

\* A class after a pop.
LEMMA TailFacts ==
    ASSUME NEW q \in Seq(Jobs), q # <<>>
    PROVE  Len(q) \in Nat /\ Tail(q) \in Seq(Jobs) /\ Len(Tail(q)) = Len(q) - 1
BY HeadTailProperties, EmptySeq

\* The new queue: empty classes, nothing passed over.
LEMMA InitIInv == QueueInit => IInv
<1> SUFFICES ASSUME QueueInit PROVE IInv
  OBVIOUS
<1>1. <<>> \in Seq(Jobs) /\ Len(<<>>) = 0
  BY EmptySeq
<1>2. \A p \in Priorities : queue[p] = <<>> /\ passed[p] = 0
  BY DEF QueueInit
<1>3. queue \in [Priorities -> Seq(Jobs)] /\ passed \in [Priorities -> Nat]
  BY <1>1 DEF QueueInit
<1>4. \A p \in Priorities : Len(queue[p]) <= Caps[p]
  BY <1>1, <1>2, CapsAssumption
<1>5. QueueTypeOK
  BY <1>3, <1>4 DEF QueueInit, QueueTypeOK, Slots
<1>6. SlotAhead /\ EmptyNotPassed
  BY <1>2 DEF SlotAhead, EmptyNotPassed
<1>7. QED
  BY <1>5, <1>6 DEF IInv

\* A push adds at the end of one class, within its cap.
LEMMA PushIInv ==
    ASSUME IInv, NEW p \in Priorities, NEW job \in Jobs, push(p, job)
    PROVE  IInv'
<1>1. /\ queue \in [Priorities -> Seq(Jobs)]
      /\ cursor \in 0..(Slots - 1) /\ passed \in [Priorities -> Nat]
  BY DEF IInv, QueueTypeOK
<1>2. /\ queue' = [queue EXCEPT ![p] = Append(queue[p], job)]
      /\ cursor' = cursor /\ passed' = passed
      /\ ~(Len(queue[p]) >= Caps[p])
  BY DEF push, is_full
<1>a. queue[p] \in Seq(Jobs) /\ Caps[p] \in Nat
  BY <1>1, CapsAssumption
<1>3. /\ Append(queue[p], job) \in Seq(Jobs)
      /\ Len(Append(queue[p], job)) = Len(queue[p]) + 1
      /\ Append(queue[p], job) # <<>> /\ Len(queue[p]) \in Nat
  BY <1>a, ClassFacts
<1>b. Len(queue[p]) + 1 <= Caps[p]
  BY <1>2, <1>3, <1>a
<1>4. QueueTypeOK'
  <2>1. queue' \in [Priorities -> Seq(Jobs)]
    BY <1>1, <1>2, <1>3
  <2>2. queue'[p] = Append(queue[p], job)
    BY <1>1, <1>2
  <2>3. \A c \in Priorities : c # p => queue'[c] = queue[c]
    BY <1>1, <1>2
  <2>4. \A c \in Priorities : Len(queue[c]) <= Caps[c]
    BY DEF IInv, QueueTypeOK
  <2>5. \A c \in Priorities : Len(queue'[c]) <= Caps[c]
    BY <1>3, <1>b, <2>2, <2>3, <2>4
  <2>6. QED
    BY <1>1, <1>2, <2>1, <2>5 DEF QueueTypeOK
<1>5. SlotAhead'
  <2> SUFFICES ASSUME NEW c \in Priorities, queue'[c] # <<>>
               PROVE  \E d \in 0..(MaxPassed[c] - passed[c]) :
                         SCHEDULE[(cursor + d) % Slots] = c
    BY <1>2 DEF SlotAhead
  <2>1. CASE queue[c] # <<>>
    BY <2>1 DEF IInv, SlotAhead
  <2>2. CASE queue[c] = <<>>
    <3>1. passed[c] = 0
      BY <2>2 DEF IInv, EmptyNotPassed
    <3>2. MaxPassed[c] - 0 = MaxPassed[c]
      BY DEF MaxPassed, Priorities
    <3>3. \E d \in 0..MaxPassed[c] : SCHEDULE[(cursor + d) % Slots] = c
      BY ONLY <1>1, c \in Priorities, GapFacts
    <3>4. QED
      BY ONLY <3>1, <3>2, <3>3
  <2>3. QED
    BY <2>1, <2>2
<1>6. EmptyNotPassed'
  BY <1>1, <1>2, <1>3 DEF IInv, EmptyNotPassed
<1>7. QED
  BY <1>4, <1>5, <1>6 DEF IInv

\* A pop serves the class of the first ready slot; a class that is passed over
\* comes one slot nearer at least.
LEMMA PopIInv ==
    ASSUME IInv, NEW offset \in Ready, \A other \in Ready : offset <= other,
           PopAt(offset)
    PROVE  IInv'
<1> DEFINE slot == (cursor + offset) % Slots
           p == SCHEDULE[slot]
<1>1. /\ queue \in [Priorities -> Seq(Jobs)]
      /\ cursor \in 0..20 /\ passed \in [Priorities -> Nat] /\ offset \in 0..20
  BY DEF IInv, QueueTypeOK, Ready, Slots
<1>2. slot \in 0..20 /\ p \in Priorities /\ queue[p] # <<>>
  <2>1. slot \in 0..20
    BY <1>1 DEF Slots
  <2>2. p \in Priorities
    BY <2>1 DEF SCHEDULE, Priorities, Slots
  <2>3. queue[p] # <<>>
    BY DEF Ready
  <2>4. QED
    BY <2>1, <2>2, <2>3
<1>3. /\ queue' = [queue EXCEPT ![p] = Tail(queue[p])]
      /\ cursor' = (slot + 1) % Slots
      /\ passed' = [c \in Priorities |->
                      IF c = p \/ queue[c] = <<>> THEN 0 ELSE passed[c] + 1]
  BY DEF PopAt
<1>4. /\ Tail(queue[p]) \in Seq(Jobs) /\ Len(Tail(queue[p])) = Len(queue[p]) - 1
      /\ Len(queue[p]) \in Nat
  BY <1>1, <1>2, TailFacts
<1>5. cursor' \in 0..20
  BY <1>2, <1>3 DEF Slots
<1> HIDE DEF slot, p
<1>6. QueueTypeOK'
  <2>1. queue' \in [Priorities -> Seq(Jobs)]
    BY <1>1, <1>2, <1>3, <1>4
  <2>2. \A c \in Priorities : Len(queue'[c]) <= Caps[c]
    <3>1. queue'[p] = Tail(queue[p])
      BY <1>1, <1>2, <1>3
    <3>2. \A c \in Priorities : c # p => queue'[c] = queue[c]
      BY <1>1, <1>3
    <3>3. \A c \in Priorities : Len(queue[c]) <= Caps[c] /\ Caps[c] \in Nat
      BY CapsAssumption DEF IInv, QueueTypeOK
    <3>4. Len(queue'[p]) <= Caps[p]
      BY <1>2, <1>4, <3>1, <3>3
    <3>5. QED
      BY <3>2, <3>3, <3>4
  <2>3. passed' \in [Priorities -> Nat]
    BY <1>1, <1>3
  <2>4. QED
    BY <1>5, <2>1, <2>2, <2>3 DEF QueueTypeOK, Slots
<1>7. SlotAhead'
  <2> SUFFICES ASSUME NEW c \in Priorities, queue'[c] # <<>>
               PROVE  \E d \in 0..(MaxPassed[c] - passed'[c]) :
                         SCHEDULE[(cursor' + d) % Slots] = c
    BY DEF SlotAhead
  <2>0. MaxPassed[c] \in 0..20 /\ MaxPassed[c] - 0 = MaxPassed[c]
    BY DEF MaxPassed, Priorities
  <2>1. CASE c = p
    <3>1. passed'[c] = 0
      BY <1>3, <2>1
    <3>2. cursor' \in 0..(Slots - 1)
      BY <1>5 DEF Slots
    <3>3. \E d \in 0..MaxPassed[c] : SCHEDULE[(cursor' + d) % Slots] = c
      BY <3>2, GapFacts
    <3>4. MaxPassed[c] - passed'[c] = MaxPassed[c]
      BY <2>0, <3>1
    <3>5. QED
      BY <3>3, <3>4
  <2>2. CASE c # p
    <3>1. queue[c] # <<>> /\ passed'[c] = passed[c] + 1
      BY <1>1, <1>2, <1>3, <2>2
    <3>2. PICK d \in 0..(MaxPassed[c] - passed[c]) : SCHEDULE[(cursor + d) % Slots] = c
      BY <3>1 DEF IInv, SlotAhead
    <3>a. passed[c] \in Nat /\ MaxPassed[c] \in 0..20
      BY <1>1, <2>0
    <3>3. d \in 0..20
      BY <3>a, AllowanceLeft
    <3>4. d \in Ready
      BY <3>1, <3>2, <3>3 DEF Ready, Slots
    <3>5. offset <= d /\ offset # d
      BY <2>2, <3>2, <3>4 DEF p, slot
    <3>6. offset < d
      BY <1>1, <3>3, <3>5
    <3>7. d - offset - 1 \in 0..(MaxPassed[c] - passed'[c])
      BY <1>1, <3>1, <3>6, <3>a, AllowanceLeft
    <3>8. (cursor' + (d - offset - 1)) % Slots = (cursor + d) % Slots
      BY <1>1, <1>3, <3>3, <3>6, MoveCursor DEF slot, Slots
    <3>9. QED
      BY <3>2, <3>7, <3>8
  <2>3. QED
    BY <2>1, <2>2
<1>8. EmptyNotPassed'
  BY <1>1, <1>2, <1>3 DEF IInv, EmptyNotPassed
<1>9. QED
  BY <1>6, <1>7, <1>8 DEF IInv

\* Every step keeps the invariant.
LEMMA NextIInv == IInv /\ [QueueNext]_queueVars => IInv'
<1> SUFFICES ASSUME IInv, [QueueNext]_queueVars PROVE IInv'
  OBVIOUS
<1>1. ASSUME NEW p \in Priorities, NEW job \in Jobs, push(p, job) PROVE IInv'
  BY <1>1, PushIInv
<1>2. CASE pop
  BY <1>2, PopIInv DEF pop
<1>3. CASE UNCHANGED queueVars
  BY <1>3 DEF queueVars, IInv, QueueTypeOK, SlotAhead, EmptyNotPassed
<1>4. QED
  BY <1>1, <1>2, <1>3 DEF QueueNext

\* No class is passed over more often than its longest gap in the schedule, for
\* every capacity and every interleaving of pushes and pops.
THEOREM NoStarvation == QueueSpec => [](QueueTypeOK /\ BoundedBypass)
<1>1. IInv => QueueTypeOK /\ BoundedBypass
  <2> SUFFICES ASSUME IInv, NEW p \in Priorities, queue[p] # <<>>
               PROVE  passed[p] <= MaxPassed[p]
    BY DEF IInv, BoundedBypass
  <2>1. \E d \in 0..(MaxPassed[p] - passed[p]) : TRUE
    BY DEF IInv, SlotAhead
  <2>2. passed[p] \in Nat /\ MaxPassed[p] \in Nat
    BY DEF IInv, QueueTypeOK, MaxPassed
  <2>3. QED
    BY <2>1, <2>2
<1>2. QED
  BY <1>1, InitIInv, NextIInv, PTL DEF QueueSpec

=============================================================================

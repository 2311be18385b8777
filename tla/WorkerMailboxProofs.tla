------------------------ MODULE WorkerMailboxProofs ------------------------
(***************************************************************************)
(* No wakeup of a worker is lost and no job is lost, duplicated or         *)
(* reordered within its class, for every set of requests and all           *)
(* capacities; and no class of it starves, as the mailbox moves its queue  *)
(* by pushes and pops only.                                                *)
(***************************************************************************)
EXTENDS WorkerMailbox, WeightedQueueProofs, SequenceTheorems, TLAPS

CallerStates == {"new", "pushed", "queue_full", "waiting", "answered", "worker_timeout"}

\* The inductive invariant: what is queued while the worker sleeps is announced.
WakeupInv == caller \in [Jobs -> CallerStates] /\ NoLostWakeup

\* The invariant holds initially.
LEMMA InitWakeups == Init => WakeupInv
BY DEF Init, QueueInit, WakeupInv, NoLostWakeup, IsEmpty, CallerStates

\* Every step keeps the invariant.
LEMMA NextWakeups == WakeupInv /\ [Next]_vars => WakeupInv'
<1> SUFFICES ASSUME WakeupInv, [Next]_vars PROVE WakeupInv'
  OBVIOUS
<1> USE DEF WakeupInv, CallerStates
<1>1. ASSUME NEW r \in Jobs, NEW p \in Priorities, RoutePush(r, p) PROVE WakeupInv'
  <2>1. caller' \in [Jobs -> CallerStates]
    BY <1>1 DEF RoutePush
  <2>2. CASE caller' = [caller EXCEPT ![r] = "pushed"]
    <3>1. caller'[r] = "pushed"
      BY <2>2
    <3>2. QED
      BY <2>1, <3>1 DEF NoLostWakeup
  <2>3. CASE is_full(p) /\ caller' = [caller EXCEPT ![r] = "queue_full"]
                        /\ UNCHANGED queueVars
    <3>1. caller[r] # "pushed" /\ UNCHANGED <<worker, permit>>
      BY <1>1 DEF RoutePush
    <3>2. \A s \in Jobs : caller[s] = "pushed" => caller'[s] = "pushed"
      BY <2>3, <3>1
    <3>3. IsEmpty' <=> IsEmpty
      BY <2>3 DEF IsEmpty, queueVars
    <3>4. QED
      BY <2>1, <3>1, <3>2, <3>3 DEF NoLostWakeup
  <2>4. QED
    BY <1>1, <2>2, <2>3 DEF RoutePush
<1>2. ASSUME NEW r \in Jobs, RouteNotify(r) PROVE WakeupInv'
  BY <1>2 DEF RouteNotify, NoLostWakeup
<1>3. ASSUME NEW r \in Jobs, RouteReceive(r) \/ RouteTimeout(r) PROVE WakeupInv'
  <2>1. /\ caller' \in [Jobs -> CallerStates]
        /\ \A s \in Jobs : caller[s] = "pushed" => caller'[s] = "pushed"
    BY <1>3 DEF RouteReceive, RouteTimeout
  <2>2. UNCHANGED <<worker, permit>> /\ (IsEmpty' <=> IsEmpty)
    BY <1>3 DEF RouteReceive, RouteTimeout, IsEmpty, queueVars
  <2>3. QED
    BY <2>1, <2>2 DEF NoLostWakeup
<1>4. CASE WorkerWake
  BY <1>4 DEF WorkerWake, NoLostWakeup
<1>5. CASE WorkerPop
  BY <1>5 DEF WorkerPop, NoLostWakeup
<1>6. CASE WorkerPark
  <2>1. IsEmpty' /\ UNCHANGED caller
    BY <1>6 DEF WorkerPark, IsEmpty, queueVars
  <2>2. QED
    BY <2>1 DEF NoLostWakeup
<1>7. ASSUME NEW x \in Results, WorkerFinish(x) PROVE WakeupInv'
  <2>1. UNCHANGED <<caller, permit, worker>> /\ (IsEmpty' <=> IsEmpty)
    BY <1>7 DEF WorkerFinish, IsEmpty, queueVars
  <2>2. QED
    BY <2>1 DEF NoLostWakeup
<1>8. CASE UNCHANGED vars
  <2>1. UNCHANGED <<caller, permit, worker>> /\ (IsEmpty' <=> IsEmpty)
    BY <1>8 DEF vars, IsEmpty, queueVars
  <2>2. QED
    BY <2>1 DEF NoLostWakeup
<1>9. QED
  BY <1>1, <1>2, <1>3, <1>4, <1>5, <1>6, <1>7, <1>8 DEF Next, Worker

\* While jobs are queued and the worker sleeps, a wakeup is stored or under way.
THEOREM WakeupsKept == Spec => []NoLostWakeup
<1>1. WakeupInv => NoLostWakeup
  BY DEF WakeupInv
<1>2. QED
  BY <1>1, InitWakeups, NextWakeups, PTL DEF Spec

-----------------------------------------------------------------------------
(* Order *)

LogType ==
    /\ queue \in [Priorities -> Seq(Jobs)]
    /\ pushLog \in [Priorities -> Seq(Jobs)] /\ popLog \in [Priorities -> Seq(Jobs)]
    /\ cursor \in 0..(Slots - 1)

OrderInv == LogType /\ OrderKept

\* A job at the back of what is queued is a job at the back of what was pushed.
LEMMA PushOrder ==
    ASSUME NEW pushed, NEW popped \in Seq(Jobs), NEW q \in Seq(Jobs), NEW r \in Jobs,
           pushed = popped \o q
    PROVE  /\ Append(pushed, r) = popped \o Append(q, r)
           /\ Append(pushed, r) \in Seq(Jobs) /\ Append(q, r) \in Seq(Jobs)
<1>1. pushed \in Seq(Jobs) /\ <<r>> \in Seq(Jobs)
  OBVIOUS
<1>2. Append(pushed, r) = (popped \o q) \o <<r>> /\ Append(q, r) = q \o <<r>>
  BY <1>1, AppendIsConcat
<1>3. (popped \o q) \o <<r>> = popped \o (q \o <<r>>)
  BY <1>1, ConcatAssociative
<1> QED BY <1>1, <1>2, <1>3, AppendProperties

\* The head of what is queued goes to the back of what was popped.
LEMMA PopOrder ==
    ASSUME NEW popped \in Seq(Jobs), NEW q \in Seq(Jobs), q # <<>>
    PROVE  /\ Append(popped, Head(q)) \o Tail(q) = popped \o q
           /\ Append(popped, Head(q)) \in Seq(Jobs) /\ Tail(q) \in Seq(Jobs) /\ Tail(q) # q
<1> DEFINE h == Head(q)
           rest == Tail(q)
<1>1. h \in Jobs /\ rest \in Seq(Jobs) /\ Len(rest) = Len(q) - 1 /\ <<h>> \in Seq(Jobs)
  BY HeadTailProperties
<1>2. rest # q
  <2>1. Len(q) \in Nat
    OBVIOUS
  <2> HIDE DEF rest
  <2> QED BY <1>1, <2>1
<1>3. <<h>> \o rest = q
  OBVIOUS
<1> HIDE DEF h, rest
<1>4. Append(popped, h) = popped \o <<h>> /\ Append(popped, h) \in Seq(Jobs)
  BY <1>1, AppendIsConcat, AppendProperties
<1>5. (popped \o <<h>>) \o rest = popped \o (<<h>> \o rest)
  BY <1>1, ConcatAssociative
<1>6. Append(popped, h) \o rest = popped \o q
  BY <1>3, <1>4, <1>5
<1> QED BY <1>1, <1>2, <1>4, <1>6 DEF h, rest

\* A pop takes the head of one class, not empty, and leaves the others.
LEMMA PopsOneClass ==
    ASSUME LogType, pop
    PROVE  /\ cursor' \in 0..(Slots - 1)
           /\ \E p \in Priorities : queue[p] # <<>> /\ queue' = [queue EXCEPT ![p] = Tail(@)]
<1>1. PICK offset \in Ready : PopAt(offset)
  BY DEF pop
<1> DEFINE slot == (cursor + offset) % Slots
           p == SCHEDULE[slot]
<1>2. slot \in 0..(Slots - 1) /\ offset \in 0..(Slots - 1)
  BY DEF LogType, Slots, Ready
<1>3. p \in Priorities
  <2> HIDE DEF slot
  <2> QED BY <1>2 DEF SCHEDULE, Priorities
<1>4. queue[p] # <<>>
  BY DEF Ready
<1>5. queue' = [queue EXCEPT ![p] = Tail(@)] /\ cursor' = (slot + 1) % Slots
  BY <1>1 DEF PopAt
<1>6. cursor' \in 0..(Slots - 1)
  <2> HIDE DEF slot
  <2> QED BY <1>2, <1>5 DEF Slots
<1> QED BY <1>3, <1>4, <1>5, <1>6

LEMMA PushStep ==
    ASSUME OrderInv, NEW r \in Jobs, NEW p \in Priorities, RoutePush(r, p)
    PROVE  OrderInv'
<1>1. CASE push(p, r) /\ pushLog' = [pushLog EXCEPT ![p] = Append(@, r)]
  <2>1. UNCHANGED <<cursor, popLog>> /\ queue' = [queue EXCEPT ![p] = Append(@, r)]
    BY <1>1 DEF push, RoutePush
  <2>2. /\ queue[p] \in Seq(Jobs) /\ popLog[p] \in Seq(Jobs)
        /\ pushLog[p] = popLog[p] \o queue[p]
    BY DEF OrderInv, LogType, OrderKept
  <2>3. /\ Append(pushLog[p], r) = popLog[p] \o Append(queue[p], r)
        /\ Append(pushLog[p], r) \in Seq(Jobs) /\ Append(queue[p], r) \in Seq(Jobs)
    <3> DEFINE pushed == pushLog[p]
               popped == popLog[p]
               q == queue[p]
    <3>1. popped \in Seq(Jobs) /\ q \in Seq(Jobs) /\ pushed = popped \o q
      BY <2>2
    <3> HIDE DEF pushed, popped, q
    <3>2. /\ Append(pushed, r) = popped \o Append(q, r)
          /\ Append(pushed, r) \in Seq(Jobs) /\ Append(q, r) \in Seq(Jobs)
      BY <3>1, PushOrder
    <3> QED BY <3>2 DEF pushed, popped, q
  <2>4. LogType'
    BY <1>1, <2>1, <2>3 DEF OrderInv, LogType
  <2>5. OrderKept'
    BY <1>1, <2>1, <2>3 DEF OrderInv, LogType, OrderKept
  <2> QED BY <2>4, <2>5 DEF OrderInv
<1>2. CASE UNCHANGED <<queueVars, pushLog>>
  BY <1>2 DEF RoutePush, queueVars, OrderInv, LogType, OrderKept
<1> QED BY <1>1, <1>2 DEF RoutePush

LEMMA PopStep ==
    ASSUME OrderInv, WorkerPop
    PROVE  OrderInv'
<1>1. PICK p \in Priorities : queue[p] # <<>> /\ queue' = [queue EXCEPT ![p] = Tail(@)]
  BY PopsOneClass DEF WorkerPop, OrderInv
<1>2. cursor' \in 0..(Slots - 1)
  BY PopsOneClass DEF WorkerPop, OrderInv
<1>3. /\ queue[p] \in Seq(Jobs) /\ popLog[p] \in Seq(Jobs)
      /\ pushLog[p] = popLog[p] \o queue[p]
  BY DEF OrderInv, LogType, OrderKept
<1>4. /\ Append(popLog[p], Head(queue[p])) \o Tail(queue[p]) = popLog[p] \o queue[p]
      /\ Append(popLog[p], Head(queue[p])) \in Seq(Jobs) /\ Tail(queue[p]) \in Seq(Jobs)
      /\ Tail(queue[p]) # queue[p]
  BY <1>1, <1>3, PopOrder
<1>5. \A c \in Priorities : queue'[c] # queue[c] <=> c = p
  BY <1>1, <1>4 DEF OrderInv, LogType
<1>6. (CHOOSE c \in Priorities : queue'[c] # queue[c]) = p
  BY <1>5
<1>7. popLog' = [popLog EXCEPT ![p] = Append(@, Head(queue[p]))] /\ UNCHANGED pushLog
  BY <1>6 DEF WorkerPop
<1>8. LogType'
  BY <1>1, <1>2, <1>4, <1>7 DEF OrderInv, LogType
<1>9. OrderKept'
  BY <1>1, <1>3, <1>4, <1>7 DEF OrderInv, LogType, OrderKept
<1> QED BY <1>8, <1>9 DEF OrderInv

\* What was pushed to a class is what was popped from it followed by what is queued.
THEOREM NoJobLost == Spec => []OrderKept
<1>1. ASSUME Init PROVE OrderInv
  BY <1>1 DEF Init, QueueInit, OrderInv, LogType, OrderKept, Slots
<1>2. ASSUME OrderInv, [Next]_vars PROVE OrderInv'
  <2>1. CASE UNCHANGED <<queueVars, pushLog, popLog>>
    BY <1>2, <2>1 DEF queueVars, OrderInv, LogType, OrderKept
  <2>2. \/ UNCHANGED <<queueVars, pushLog, popLog>> \/ WorkerPop
        \/ \E r \in Jobs, p \in Priorities : RoutePush(r, p)
    BY <1>2 DEF Next, Worker, RouteNotify, RouteReceive, RouteTimeout, WorkerWake, WorkerPark,
                WorkerFinish, vars
  <2> QED BY <1>2, <2>1, <2>2, PushStep, PopStep
<1>3. OrderInv => OrderKept
  BY DEF OrderInv
<1> QED BY <1>1, <1>2, <1>3, PTL DEF Spec

\* The mailbox moves its queue by pushes and pops only.
LEMMA MailboxIsQueue == Spec => QueueSpec
<1>1. Init => QueueInit
  BY DEF Init
<1>2. ASSUME [Next]_vars PROVE [QueueNext]_queueVars
  BY <1>2 DEF Next, Worker, RoutePush, RouteNotify, RouteReceive, RouteTimeout, WorkerWake,
              WorkerPop, WorkerPark, WorkerFinish, vars, QueueNext
<1> QED BY <1>1, <1>2, PTL DEF Spec, QueueSpec

\* With callers that race each other and the worker, wakeups, panics and timeouts, a class
\* that holds a job is still passed over at most 2, 5 or 20 times.
THEOREM NoClassStarves == Spec => []BoundedBypass
BY MailboxIsQueue, NoStarvation, PTL

=============================================================================

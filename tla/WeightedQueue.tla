--------------------------- MODULE WeightedQueue ---------------------------
(***************************************************************************)
(* The three-class priority queue of hom-brain (ipc/router.rs): bounded    *)
(* FIFO classes served by a cyclic schedule of 21 slots, 16 for Hi, 4 for  *)
(* Md and 1 for Lo.  A pop takes the first slot at or after the cursor     *)
(* whose class is not empty, and leaves the cursor behind that slot.       *)
(***************************************************************************)
EXTENDS Integers, Sequences

CONSTANTS
    Jobs,   \* what is queued
    Caps    \* QueueCaps: the capacity of each class

Priorities == {"Hi", "Md", "Lo"}

ASSUME CapsAssumption == Caps \in [Priorities -> Nat]

VARIABLES
    queue,   \* the deque of each class
    cursor,  \* the slot the next pop starts from
    passed   \* history variable: pops since the class, not empty all along,
             \* was last served

queueVars == <<queue, cursor, passed>>

Slots == 21

\* Four slots for Hi then one for Md, four times, then the one slot for Lo.
SCHEDULE == [slot \in 0..(Slots - 1) |->
                IF slot = 20 THEN "Lo" ELSE IF slot % 5 = 4 THEN "Md" ELSE "Hi"]

is_full(p) == Len(queue[p]) >= Caps[p]

IsEmpty == \A p \in Priorities : queue[p] = <<>>

\* Offsets from the cursor whose slot belongs to a class with a job.
Ready == {offset \in 0..(Slots - 1) :
            queue[SCHEDULE[(cursor + offset) % Slots]] # <<>>}

QueueInit ==
    /\ queue = [p \in Priorities |-> <<>>]
    /\ cursor = 0
    /\ passed = [p \in Priorities |-> 0]

\* Mutant of push: push_front instead of push_back.
push_Front(p, job) ==
    /\ ~is_full(p)
    /\ queue' = [queue EXCEPT ![p] = <<job>> \o @]
    /\ UNCHANGED <<cursor, passed>>

\* push: refused when the class is at its cap.
push(p, job) ==
    /\ ~is_full(p)
    /\ queue' = [queue EXCEPT ![p] = Append(@, job)]
    /\ UNCHANGED <<cursor, passed>>

\* Mutant of PopAt: the cursor stays on the slot that was served.
PopAt_Stays(offset) ==
    LET slot == (cursor + offset) % Slots
        p    == SCHEDULE[slot]
    IN  /\ queue' = [queue EXCEPT ![p] = Tail(@)]
        /\ cursor' = slot
        /\ passed' = [c \in Priorities |->
                        IF c = p \/ queue[c] = <<>> THEN 0 ELSE passed[c] + 1]

\* pop at a given offset; the loop stops at the least ready offset.
PopAt(offset) ==
    LET slot == (cursor + offset) % Slots
        p    == SCHEDULE[slot]
    IN  /\ queue' = [queue EXCEPT ![p] = Tail(@)]
        /\ cursor' = (slot + 1) % Slots
        /\ passed' = [c \in Priorities |->
                        IF c = p \/ queue[c] = <<>> THEN 0 ELSE passed[c] + 1]

pop ==
    \E offset \in Ready :
        /\ \A other \in Ready : offset <= other
        /\ PopAt(offset)

QueueNext ==
    \/ \E p \in Priorities, job \in Jobs : push(p, job)
    \/ pop

QueueSpec == QueueInit /\ [][QueueNext]_queueVars

-----------------------------------------------------------------------------
(* Properties *)

\* Types, and each class within its cap.
QueueTypeOK ==
    /\ queue \in [Priorities -> Seq(Jobs)]
    /\ \A p \in Priorities : Len(queue[p]) <= Caps[p]
    /\ cursor \in 0..(Slots - 1)
    /\ passed \in [Priorities -> Nat]

\* The most pops of other classes between two slots of a class.
MaxPassed == [p \in Priorities |->
                IF p = "Hi" THEN 2 ELSE IF p = "Md" THEN 5 ELSE 20]

\* Bounded bypass: a class that holds a job is passed over at most 2 (Hi), 5 (Md)
\* or 20 (Lo) times before it is served, whatever is pushed meanwhile and however
\* empty classes let the cursor jump.
BoundedBypass ==
    \A p \in Priorities : queue[p] # <<>> => passed[p] <= MaxPassed[p]

=============================================================================

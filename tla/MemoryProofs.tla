--------------------------- MODULE MemoryProofs ---------------------------
(***************************************************************************)
(* Proofs about the modules that write the memory tables: Nightly, Import  *)
(* and Sessions, for all values of their constants.                        *)
(***************************************************************************)
EXTENDS Import, Nightly, Sessions, SequenceTheorems, FiniteSetTheorems, FunctionTheorems,
        WellFoundedInduction, TLAPS

-----------------------------------------------------------------------------
(* Nightly: the ledger explains the weights.                               *)

\* Initially there is neither a weight nor a ledgered update.
LEMMA NightlyInitWeights == Init => WeightsLedgered
BY DEF Init, WeightsLedgered

\* A commit gives the touched memories the same update in the table and in the ledger.
LEMMA CommitWeights ==
    ASSUME WeightsLedgered, NEW r \in Runners, NightlyCommit(r)
    PROVE  WeightsLedgered'
<1> DEFINE c == cycle[r]
           touched == {x.memory : x \in c.chosen}
           New(m) == CHOOSE x \in c.chosen : x.memory = m
<1>1. \/ UNCHANGED <<weights, ledgered>>
      \/ /\ weights' = [m \in DOMAIN weights \cup touched |->
                            IF m \in touched THEN New(m).new ELSE weights[m]]
         /\ ledgered' = [m \in DOMAIN ledgered \cup touched |->
                            IF m \in touched THEN New(m) ELSE ledgered[m]]
  BY DEF NightlyCommit
<1> HIDE DEF touched, New
<1> QED BY <1>1 DEF WeightsLedgered

\* Every other step leaves both alone, or empties the table of weights.
LEMMA StepWeights == ASSUME WeightsLedgered, [Next]_vars PROVE WeightsLedgered'
<1>1. ASSUME NEW r \in Runners, NightlyCommit(r) PROVE WeightsLedgered'
  BY <1>1, CommitWeights
<1>2. ASSUME PurgeTable PROVE WeightsLedgered'
  BY <1>2 DEF PurgeTable, WeightsLedgered
<1>3. ASSUME UNCHANGED <<weights, ledgered>> PROVE WeightsLedgered'
  BY <1>3 DEF WeightsLedgered
<1>4. ASSUME NEW r \in Runners, Cycle(r), ~NightlyCommit(r) PROVE UNCHANGED <<weights, ledgered>>
  BY <1>4 DEF Cycle, NightlyRead, NightlyPlan, NightlySnapshot, NightlySnapshotFails,
              NightlyBridge, NightlyTouch, tables, hist
<1>5. ASSUME Purge, ~PurgeTable PROVE UNCHANGED <<weights, ledgered>>
  BY <1>5 DEF Purge, PurgeBegin, PurgeLedger, tables, hist
<1>6. ASSUME Others PROVE UNCHANGED <<weights, ledgered>>
  BY <1>6 DEF Others, SaveMemory, UpsertEmbedding, RecordToolInvocation, hist
<1>7. ASSUME BackupCopy \/ BackupRecord \/ Checkpoint \/ Restart PROVE UNCHANGED <<weights, ledgered>>
  BY <1>7 DEF BackupCopy, BackupRecord, Checkpoint, Restart, tables, hist
<1>8. ASSUME UNCHANGED vars PROVE UNCHANGED <<weights, ledgered>>
  BY <1>8 DEF vars, tables, hist
<1> QED BY <1>1, <1>2, <1>3, <1>4, <1>5, <1>6, <1>7, <1>8 DEF Next

\* Guardrail G4, for any number of cycles, purges, crashes and memories, and whatever signals
\* the recall outcomes give: each weight in the table is the one its last ledgered update says.
THEOREM LedgerExplainsWeights == Spec => []WeightsLedgered
BY NightlyInitWeights, StepWeights, PTL DEF Spec
-----------------------------------------------------------------------------
(* Nightly: bridge rows.                                                   *)
(*                                                                         *)
(* A cycle is known by its id, which no other has; while it is at its      *)
(* bridge rows, todo says which of them are still to come.  The invariant  *)
(* says for every artifact, row and touched memory where it stands: there, *)
(* still to come, or lost to a purge or a cut.                             *)

Writing(r) == cycle[r].pc \in {"bridge", "touch"}

Shape(c, n) ==
    \/ c = Idle
    \/ c.pc = "plan" /\ c.id \in 1..n
    \/ /\ c.pc \in {"snapshot", "commit"} /\ c.id \in 1..n
       /\ DOMAIN c = {"pc", "id", "chosen", "corpus", "allowed", "snapshot", "overtaken"}
    \/ c.pc \in {"bridge", "touch"} /\ c.id \in 1..n /\ DOMAIN c = {"pc", "id", "todo"}

CyclesKnown ==
    /\ started \in Nat
    /\ DOMAIN cycle = Runners
    /\ \A r \in Runners : Shape(cycle[r], started)
    /\ \A r, q \in Runners : cycle[r] # Idle /\ cycle[q] # Idle /\ cycle[r].id = cycle[q].id => r = q

\* The runner at its touch rows, and a purge at its tables, hold the store mutex.
MutexHeld ==
    /\ conn \in {"free", "purge"} \cup Runners
    /\ \A r \in Runners : cycle[r].pc = "touch" <=> conn = r
    /\ purgeNext \in 0..5
    /\ conn = "purge" <=> purgeNext # 0

CutTold == purgeNext > 1 => 1..started \subseteq cut

ArtifactsTold ==
    /\ artifacts \subseteq 1..started
    /\ \A n \in artifacts : \/ <<"artifact", n>> \in bridges
                            \/ n \in cut
                            \/ \E r \in Runners : cycle[r].pc = "bridge" /\ cycle[r].id = n

RowsTold ==
    /\ \A r \in Runners : Writing(r) => cycle[r].id \in artifacts \cup cut
    /\ \A b \in bridges : b[1] # "tool" => b[2] \in artifacts \cup cut

TouchedTold ==
    last # None =>
        /\ last.id \in 1..started
        /\ last.id \notin cut =>
               \A x \in last.chosen :
                   \/ <<"touch", last.id, x.memory>> \in bridges
                   \/ \E r \in Runners : /\ Writing(r) /\ cycle[r].id = last.id
                                         /\ x.memory \in cycle[r].todo

BridgeInv ==
    CyclesKnown /\ MutexHeld /\ CutTold /\ ArtifactsTold /\ RowsTold /\ TouchedTold /\ OrphansOnlyByPurge

\* The invariant implies the property: what is still to come is pending.
LEMMA BridgeInvKept == BridgeInv => BridgesKept
BY DEF BridgeInv, ArtifactsTold, RowsTold, TouchedTold, BridgesKept, BridgesTell, Writing

LEMMA BridgeInit == NightlyAssumption /\ Init => BridgeInv
<1> SUFFICES ASSUME NightlyAssumption, Init PROVE BridgeInv
  OBVIOUS
<1>1. CyclesKnown BY DEF Init, CyclesKnown, Shape, NightlyAssumption
<1>2. MutexHeld BY DEF Init, MutexHeld, Idle, Runners
<1>3. CutTold /\ ArtifactsTold /\ TouchedTold /\ OrphansOnlyByPurge
  BY DEF Init, CutTold, ArtifactsTold, TouchedTold, OrphansOnlyByPurge
<1>4. RowsTold BY DEF Init, RowsTold, Writing, Idle, Runners
<1> QED BY <1>1, <1>2, <1>3, <1>4 DEF BridgeInv

\* What the invariant reads.
bridgeVars == <<artifacts, bridges, toolEvents, conn, purgeNext, cycle, started, last, unlinked, cut>>

LEMMA BridgeStutter == ASSUME BridgeInv, UNCHANGED bridgeVars PROVE BridgeInv'
BY DEF BridgeInv, bridgeVars, CyclesKnown, MutexHeld, CutTold, ArtifactsTold, RowsTold,
       TouchedTold, OrphansOnlyByPurge, Shape, Writing

\* A step of a cycle that has not come to its bridge rows: only its own record changes, and
\* an id it gets is new.
PlansOnly(r) ==
    /\ UNCHANGED <<artifacts, bridges, toolEvents, conn, purgeNext, last, unlinked, cut>>
    /\ conn = "free" /\ purgeNext = 0
    /\ started' \in Nat /\ started <= started'
    /\ DOMAIN cycle' = Runners
    /\ \A q \in Runners : q # r => cycle'[q] = cycle[q]
    /\ ~Writing(r) /\ ~Writing(r)' /\ Shape(cycle'[r], started')
    /\ cycle'[r] # Idle => \/ cycle[r] # Idle /\ cycle'[r].id = cycle[r].id
                           \/ cycle'[r].id = started' /\ started' = started + 1

LEMMA ReadPlans ==
    ASSUME BridgeInv, NEW r \in Runners, NEW apply \in BOOLEAN, NightlyRead(r, apply)
    PROVE  PlansOnly(r)
<1>1. conn = "free" /\ purgeNext = 0
  BY DEF BridgeInv, MutexHeld, NightlyRead, Runners
<1> QED BY <1>1 DEF BridgeInv, CyclesKnown, NightlyRead, PlansOnly, Writing, Idle, Shape, tables, hist

LEMMA PlanPlans ==
    ASSUME BridgeInv, NEW r \in Runners, NEW autonomous \in BOOLEAN,
           NEW signal \in [memories -> Signals], NightlyPlan(r, autonomous, signal)
    PROVE  PlansOnly(r)
<1> DEFINE c == cycle[r]
           corpus == Cardinality(memories)
           Planned(chosen) == [pc |-> IF chosen = {} THEN "commit" ELSE "snapshot", id |-> c.id,
                       chosen |-> chosen, corpus |-> corpus, allowed |-> autonomous /\ ~c.orphans,
                       snapshot |-> weights, overtaken |-> FALSE]
<1>1. /\ conn = "free" /\ c.pc = "plan"
      /\ \E chosen : cycle' = [cycle EXCEPT ![r] = IF c.apply /\ ~autonomous THEN Idle ELSE Planned(chosen)]
      /\ UNCHANGED <<tables, saved, conn, purgeNext, started, file, backup, hist>>
  BY Zenon DEF NightlyPlan
<1>0. PICK chosen : cycle' = [cycle EXCEPT ![r] = IF c.apply /\ ~autonomous THEN Idle ELSE Planned(chosen)]
  BY <1>1
<1> DEFINE planned == Planned(chosen)
<1>2. purgeNext = 0
  BY <1>1 DEF BridgeInv, MutexHeld, Runners
<1>3. c.id \in 1..started /\ c # Idle
  BY <1>1 DEF BridgeInv, CyclesKnown, Shape, Idle
<1>4. Shape(planned, started) /\ planned.pc \in {"commit", "snapshot"} /\ planned.id = c.id
  <2> HIDE DEF corpus
  <2> QED BY <1>3 DEF Shape
<1>10. PICK p : p = planned
  OBVIOUS
<1> HIDE DEF planned, Planned
<1>11. cycle' = [cycle EXCEPT ![r] = IF c.apply /\ ~autonomous THEN Idle ELSE p]
  BY <1>0, <1>10 DEF planned
<1>5. cycle'[r] \in {Idle, planned} /\ \A q \in Runners : q # r => cycle'[q] = cycle[q]
  BY <1>10, <1>11 DEF BridgeInv, CyclesKnown
<1>6. DOMAIN cycle' = Runners /\ started' = started
  BY <1>1, <1>11 DEF BridgeInv, CyclesKnown
<1>7. UNCHANGED <<artifacts, bridges, toolEvents, conn, purgeNext, last, unlinked, cut>>
  BY <1>1 DEF tables, hist
<1>8. ~Writing(r) /\ ~Writing(r)' /\ Shape(cycle'[r], started')
  BY <1>1, <1>4, <1>5, <1>6 DEF Writing, Idle, Shape
<1>9. started' \in Nat /\ started <= started'
  BY <1>6 DEF BridgeInv, CyclesKnown
<1> QED BY <1>1, <1>2, <1>3, <1>4, <1>5, <1>6, <1>7, <1>8, <1>9 DEF PlansOnly

LEMMA SnapshotPlans ==
    ASSUME BridgeInv, NEW r \in Runners, NightlySnapshot(r) \/ NightlySnapshotFails(r)
    PROVE  PlansOnly(r)
<1>1. conn = "free" /\ purgeNext = 0
  BY DEF BridgeInv, MutexHeld, NightlySnapshot, NightlySnapshotFails, Runners
<1>2. CASE NightlySnapshot(r)
  BY <1>1, <1>2 DEF BridgeInv, CyclesKnown, NightlySnapshot, PlansOnly, Writing, Idle, Shape, tables, hist
<1>3. CASE NightlySnapshotFails(r)
  BY <1>1, <1>3 DEF BridgeInv, CyclesKnown, NightlySnapshotFails, PlansOnly, Writing, Idle, Shape,
                    tables, hist
<1> QED BY <1>2, <1>3

LEMMA PlanningKeeps == ASSUME BridgeInv, NEW r \in Runners, PlansOnly(r) PROVE BridgeInv'
<1> USE DEF BridgeInv, PlansOnly
<1>1. CyclesKnown'
  <2>1. \A q \in Runners : Shape(cycle'[q], started')
    BY DEF CyclesKnown, Shape
  <2>2. \A q \in Runners : q # r /\ cycle[q] # Idle => cycle[q].id \in 1..started
    BY DEF CyclesKnown, Shape
  <2>3. \A q, p \in Runners : cycle'[q] # Idle /\ cycle'[p] # Idle /\ cycle'[q].id = cycle'[p].id => q = p
    BY <2>2 DEF CyclesKnown
  <2> QED BY <2>1, <2>3 DEF CyclesKnown
<1>2. MutexHeld'
  BY DEF MutexHeld, Writing, Runners
<1>3. CutTold'
  BY DEF CutTold
<1>4. \A q \in Runners : Writing(q) => q # r
  OBVIOUS
<1>5. \A q \in Runners : (Writing(q)' <=> Writing(q)) /\ (Writing(q) => cycle'[q] = cycle[q])
  BY <1>4 DEF Writing
<1>6. 1..started \subseteq 1..started'
  BY DEF CyclesKnown
<1>7. ArtifactsTold'
  BY <1>5, <1>6 DEF ArtifactsTold, Writing
<1>8. RowsTold'
  BY <1>5, <1>6 DEF RowsTold
<1>9. TouchedTold'
  BY <1>5, <1>6 DEF TouchedTold
<1>10. OrphansOnlyByPurge'
  BY DEF OrphansOnlyByPurge
<1> QED BY <1>1, <1>2, <1>3, <1>7, <1>8, <1>9, <1>10

\* Overtake marks cycles and leaves their ids, places and todos alone.
LEMMA OvertakeMarks ==
    ASSUME NEW n \in Nat, NEW cs, \A r \in Runners : Shape(cs[r], n), NEW but
    PROVE  /\ DOMAIN Overtake(cs, but) = Runners
           /\ \A r \in Runners :
                  /\ Shape(Overtake(cs, but)[r], n)
                  /\ Overtake(cs, but)[r].pc = cs[r].pc
                  /\ cs[r] = Idle <=> Overtake(cs, but)[r] = Idle
                  /\ cs[r] # Idle => Overtake(cs, but)[r].id = cs[r].id
                  /\ cs[r].pc \in {"bridge", "touch"} => Overtake(cs, but)[r] = cs[r]
BY DEF Overtake, Shape, Idle

\* A step that leaves every cycle's id and its place at or before the commit as they were.
Marked(r, marks) ==
    /\ DOMAIN marks = Runners
    /\ \A q \in Runners :
           /\ Shape(marks[q], started)
           /\ marks[q].pc = cycle[q].pc
           /\ cycle[q] = Idle <=> marks[q] = Idle
           /\ cycle[q] # Idle => marks[q].id = cycle[q].id
           /\ Writing(q) => marks[q] = cycle[q]

LEMMA CommitKeeps == ASSUME BridgeInv, NEW r \in Runners, NightlyCommit(r) PROVE BridgeInv'
<1> USE DEF BridgeInv
<1> DEFINE c == cycle[r]
           touched == {x.memory : x \in c.chosen}
           marks == IF c.chosen = {} THEN cycle ELSE Overtake(cycle, r)
           row == [pc |-> "bridge", id |-> c.id, todo |-> touched]
<1>1. /\ conn = "free" /\ c.pc = "commit"
      /\ UNCHANGED <<bridges, toolEvents, conn, purgeNext, started, unlinked, cut>>
  BY DEF NightlyCommit
<1>2. purgeNext = 0 /\ ~Writing(r) /\ c # Idle /\ c.id \in 1..started
  BY <1>1 DEF MutexHeld, Writing, Idle, CyclesKnown, Shape, Runners
<1>3. CASE UNCHANGED <<artifacts, last>> /\ cycle' = [cycle EXCEPT ![r] = Idle]
  <2>1. PlansOnly(r)
    BY <1>1, <1>2, <1>3 DEF PlansOnly, CyclesKnown, Shape, Writing, Idle
  <2> QED BY <2>1, PlanningKeeps
<1>4. CASE /\ artifacts' = artifacts \cup {c.id}
           /\ c.chosen = {} => last' = last
           /\ c.chosen # {} => last'.id = c.id /\ last'.chosen = c.chosen
           /\ cycle' = [marks EXCEPT ![r] = row]
  <2>1. Marked(r, marks)
    BY OvertakeMarks DEF Marked, CyclesKnown, Writing, Shape
  <2>2. row.pc = "bridge" /\ row.id = c.id /\ row.todo = touched /\ Shape(row, started) /\ row # Idle
    BY <1>2 DEF Shape, Idle
  <2> HIDE DEF marks, row
  <2>3. /\ DOMAIN cycle' = Runners /\ cycle'[r] = row
        /\ \A q \in Runners : q # r => cycle'[q] = marks[q]
    BY <1>4, <2>1 DEF Marked
  <2>4. CyclesKnown'
    BY <1>1, <1>2, <2>1, <2>2, <2>3 DEF CyclesKnown, Marked
  <2>5. MutexHeld'
    BY <1>1, <1>2, <2>1, <2>2, <2>3 DEF MutexHeld, Marked, Runners
  <2>6. CutTold'
    BY <1>1 DEF CutTold
  <2>7. Writing(r)' /\ cycle'[r].id = c.id /\ cycle'[r].todo = touched /\ cycle'[r].pc = "bridge"
    BY <2>2, <2>3 DEF Writing
  <2>8. \A q \in Runners : q # r => /\ Writing(q)' <=> Writing(q)
                                    /\ Writing(q) => cycle'[q] = cycle[q]
    BY <2>1, <2>3 DEF Marked, Writing
  <2>9. ArtifactsTold'
    <3>1. artifacts' \subseteq 1..started'
      BY <1>1, <1>2, <1>4 DEF ArtifactsTold
    <3>2. ASSUME NEW n \in artifacts'
          PROVE  \/ <<"artifact", n>> \in bridges' \/ n \in cut'
                 \/ \E q \in Runners : cycle'[q].pc = "bridge" /\ cycle'[q].id = n
      <4>1. CASE n = c.id
        BY <4>1, <2>7
      <4>2. CASE n \in artifacts
        <5>1. \A q \in Runners : cycle[q].pc = "bridge" => cycle'[q] = cycle[q]
          BY <1>2, <2>8 DEF Writing
        <5> QED BY <4>2, <5>1, <1>1 DEF ArtifactsTold
      <4> QED BY <1>4, <4>1, <4>2
    <3> QED BY <3>1, <3>2 DEF ArtifactsTold
  <2>10. RowsTold'
    BY <1>1, <1>4, <2>7, <2>8 DEF RowsTold
  <2>11. TouchedTold'
    <3>1. CASE c.chosen = {}
      <4>1. last' = last
        BY <3>1, <1>4
      <4>2. \A q \in Runners : Writing(q) => Writing(q)' /\ cycle'[q] = cycle[q]
        BY <1>2, <2>8
      <4> QED BY <1>1, <4>1, <4>2 DEF TouchedTold
    <3>2. CASE c.chosen # {}
      <4>1. last'.id = c.id /\ last'.chosen = c.chosen
        BY <3>2, <1>4
      <4>2. \A x \in c.chosen : x.memory \in touched
        OBVIOUS
      <4> HIDE DEF touched
      <4> QED BY <1>1, <1>2, <2>7, <4>1, <4>2 DEF TouchedTold
    <3> QED BY <3>1, <3>2
  <2>12. OrphansOnlyByPurge'
    BY <1>1 DEF OrphansOnlyByPurge
  <2> QED BY <2>4, <2>5, <2>6, <2>9, <2>10, <2>11, <2>12
<1>5. \/ UNCHANGED <<artifacts, last>> /\ cycle' = [cycle EXCEPT ![r] = Idle]
      \/ /\ artifacts' = artifacts \cup {c.id}
         /\ c.chosen = {} => last' = last
         /\ c.chosen # {} => last'.id = c.id /\ last'.chosen = c.chosen
         /\ cycle' = [marks EXCEPT ![r] = row]
  BY DEF NightlyCommit
<1> QED BY <1>3, <1>4, <1>5

\* A bridge row of a cycle: what it adds is no longer to come.
LEMMA BridgeKeeps == ASSUME BridgeInv, NEW r \in Runners, NightlyBridge(r) PROVE BridgeInv'
<1> USE DEF BridgeInv
<1> DEFINE c == cycle[r]
<1>1. /\ conn = "free" /\ c.pc = "bridge"
      /\ bridges' = bridges \cup {<<"artifact", c.id>>}
      /\ conn' = IF c.todo = {} THEN "free" ELSE r
      /\ cycle' = [cycle EXCEPT ![r] = IF c.todo = {} THEN Idle ELSE [c EXCEPT !.pc = "touch"]]
      /\ UNCHANGED <<artifacts, toolEvents, purgeNext, started, last, unlinked, cut>>
  BY DEF NightlyBridge, hist
<1>2. purgeNext = 0 /\ Writing(r) /\ c # Idle /\ c.id \in 1..started /\ DOMAIN c = {"pc", "id", "todo"}
  BY <1>1 DEF MutexHeld, Writing, Idle, CyclesKnown, Shape, Runners
<1>3. /\ DOMAIN cycle' = Runners
      /\ \A q \in Runners : q # r => cycle'[q] = cycle[q]
  BY <1>1 DEF CyclesKnown
<1>4. \/ c.todo = {} /\ cycle'[r] = Idle /\ cycle'[r].pc = "idle"
      \/ /\ c.todo # {} /\ cycle'[r].pc = "touch" /\ cycle'[r].id = c.id /\ cycle'[r].todo = c.todo
         /\ Shape(cycle'[r], started) /\ cycle'[r] # Idle
  BY <1>1, <1>2 DEF CyclesKnown, Shape, Idle
<1>5. CyclesKnown'
  BY <1>1, <1>2, <1>3, <1>4 DEF CyclesKnown, Shape
<1>6. MutexHeld'
  BY <1>1, <1>2, <1>3, <1>4 DEF MutexHeld, Runners
<1>7. CutTold'
  BY <1>1 DEF CutTold
<1>8. ArtifactsTold'
  BY <1>1, <1>2, <1>3, <1>4 DEF ArtifactsTold
<1>9. RowsTold'
  <2>1. \A q \in Runners : Writing(q)' => cycle'[q].id \in artifacts' \cup cut'
    BY <1>1, <1>2, <1>3, <1>4 DEF RowsTold, Writing
  <2>2. <<"artifact", c.id>>[2] \in artifacts' \cup cut'
    BY <1>1, <1>2 DEF RowsTold
  <2> QED BY <1>1, <2>1, <2>2 DEF RowsTold
<1>10. TouchedTold'
  <2>1. \A q \in Runners : \A m : Writing(q) /\ m \in cycle[q].todo
                                 => Writing(q)' /\ cycle'[q].id = cycle[q].id /\ m \in cycle'[q].todo
    BY <1>3, <1>4 DEF Writing
  <2> QED BY <1>1, <2>1 DEF TouchedTold
<1>11. OrphansOnlyByPurge'
  BY <1>1 DEF OrphansOnlyByPurge
<1> QED BY <1>5, <1>6, <1>7, <1>8, <1>9, <1>10, <1>11

LEMMA TouchKeeps ==
    ASSUME BridgeInv, NEW r \in Runners, NEW m \in Memories, NightlyTouch(r, m) PROVE BridgeInv'
<1> USE DEF BridgeInv
<1> DEFINE c == cycle[r]
           left == c.todo \ {m}
<1>1. /\ conn = r /\ c.pc = "touch" /\ m \in c.todo
      /\ bridges' = bridges \cup {<<"touch", c.id, m>>}
      /\ conn' = IF left = {} THEN "free" ELSE r
      /\ cycle' = [cycle EXCEPT ![r] = IF left = {} THEN Idle ELSE [c EXCEPT !.todo = left]]
      /\ UNCHANGED <<artifacts, toolEvents, purgeNext, started, last, unlinked, cut>>
  BY DEF NightlyTouch, hist
<1>2. purgeNext = 0 /\ Writing(r) /\ c # Idle /\ c.id \in 1..started /\ DOMAIN c = {"pc", "id", "todo"}
  BY <1>1 DEF MutexHeld, Writing, Idle, CyclesKnown, Shape, Runners
<1>3. /\ DOMAIN cycle' = Runners
      /\ \A q \in Runners : q # r => cycle'[q] = cycle[q]
  BY <1>1 DEF CyclesKnown
<1>4. \/ left = {} /\ cycle'[r] = Idle /\ cycle'[r].pc = "idle"
      \/ /\ left # {} /\ cycle'[r].pc = "touch" /\ cycle'[r].id = c.id /\ cycle'[r].todo = left
         /\ Shape(cycle'[r], started) /\ cycle'[r] # Idle
  BY <1>1, <1>2 DEF CyclesKnown, Shape, Idle
<1>5. CyclesKnown'
  BY <1>1, <1>2, <1>3, <1>4 DEF CyclesKnown, Shape
<1>6. MutexHeld'
  BY <1>1, <1>2, <1>3, <1>4 DEF MutexHeld, Runners
<1>7. CutTold'
  BY <1>1 DEF CutTold
<1>8. ArtifactsTold'
  BY <1>1, <1>2, <1>3, <1>4 DEF ArtifactsTold
<1>9. RowsTold'
  <2>1. \A q \in Runners : Writing(q)' => cycle'[q].id \in artifacts' \cup cut'
    BY <1>1, <1>2, <1>3, <1>4 DEF RowsTold, Writing
  <2>2. <<"touch", c.id, m>>[2] \in artifacts' \cup cut'
    BY <1>1, <1>2 DEF RowsTold
  <2> QED BY <1>1, <2>1, <2>2 DEF RowsTold
<1>10. TouchedTold'
  <2>1. \A q \in Runners : \A n : Writing(q) /\ n \in cycle[q].todo =>
            \/ q = r /\ n = m
            \/ Writing(q)' /\ cycle'[q].id = cycle[q].id /\ n \in cycle'[q].todo
    BY <1>3, <1>4 DEF Writing
  <2> QED BY <1>1, <2>1 DEF TouchedTold
<1>11. OrphansOnlyByPurge'
  BY <1>1 DEF OrphansOnlyByPurge
<1> QED BY <1>5, <1>6, <1>7, <1>8, <1>9, <1>10, <1>11

-----------------------------------------------------------------------------
(* The other steps on the tables of Nightly.                               *)

LEMMA PurgeKeeps == ASSUME BridgeInv, PurgeTable PROVE BridgeInv'
<1> USE DEF BridgeInv
<1> DEFINE t == PurgeOrder[purgeNext]
           refused == t = "memories" /\ (embeddings \/ DOMAIN weights # {})
           marks == IF t = "retrieval_weights" THEN Overtake(cycle, "purge") ELSE cycle
<1>1. /\ conn = "purge" /\ purgeNext \in 1..4
      /\ bridges' = IF t = "reasoning_bridge_events" THEN {} ELSE bridges
      /\ unlinked' = IF t = "reasoning_bridge_events" THEN unlinked \cup toolEvents ELSE unlinked
      /\ artifacts' = IF t = "nightly_artifacts" THEN {} ELSE artifacts
      /\ cut' = IF t = "reasoning_bridge_events" THEN cut \cup 1..started ELSE cut
      /\ cycle' = marks
      /\ conn' = IF refused THEN "free" ELSE conn
      /\ purgeNext' = IF refused THEN 0 ELSE purgeNext + 1
      /\ UNCHANGED <<toolEvents, started, last>>
  BY DEF PurgeTable, PurgeOrder
<1>2. /\ t = "reasoning_bridge_events" <=> purgeNext = 1
      /\ t = "nightly_artifacts" <=> purgeNext = 2
  BY <1>1 DEF PurgeOrder
<1>3. Marked("purge", marks)
  BY OvertakeMarks DEF Marked, CyclesKnown, Writing, Shape
<1> HIDE DEF marks, t, refused
<1>4. \A q \in Runners : /\ Writing(q)' <=> Writing(q)
                         /\ Writing(q) => cycle'[q] = cycle[q]
  BY <1>1, <1>3 DEF Marked, Writing
<1>5. CyclesKnown'
  BY <1>1, <1>3 DEF CyclesKnown, Marked
<1>6. MutexHeld'
  BY <1>1, <1>3 DEF MutexHeld, Marked, Runners
<1>7. cut \subseteq cut' /\ (purgeNext = 1 => 1..started \subseteq cut')
  BY <1>1, <1>2
<1>8. CutTold' /\ (purgeNext # 1 => 1..started \subseteq cut)
  BY <1>1, <1>7 DEF CutTold
<1>9. artifacts' \subseteq artifacts /\ artifacts \subseteq 1..started
  BY <1>1 DEF ArtifactsTold
<1>10. 1..started \subseteq cut'
  BY <1>7, <1>8
<1>11. ArtifactsTold'
  BY <1>1, <1>9, <1>10 DEF ArtifactsTold
<1>12. RowsTold'
  <2>1. bridges' \subseteq bridges
    BY <1>1
  <2> QED BY <2>1, <1>4, <1>7, <1>9, <1>10 DEF RowsTold
<1>13. TouchedTold'
  BY <1>1, <1>10 DEF TouchedTold
<1>14. OrphansOnlyByPurge'
  BY <1>1 DEF OrphansOnlyByPurge
<1> QED BY <1>5, <1>6, <1>8, <1>11, <1>12, <1>13, <1>14

LEMMA PurgeEndsKeep == ASSUME BridgeInv, PurgeBegin \/ PurgeLedger PROVE BridgeInv'
<1>1. UNCHANGED <<artifacts, bridges, toolEvents, cycle, started, last, unlinked, cut>>
  BY DEF PurgeBegin, PurgeLedger, tables, hist
<1>2. CyclesKnown' /\ ArtifactsTold' /\ RowsTold' /\ TouchedTold' /\ OrphansOnlyByPurge'
  BY <1>1 DEF BridgeInv, CyclesKnown, Shape, ArtifactsTold, RowsTold, TouchedTold,
              OrphansOnlyByPurge, Writing
<1>3. MutexHeld' /\ CutTold'
  BY <1>1 DEF PurgeBegin, PurgeLedger, BridgeInv, MutexHeld, CutTold, Runners
<1> QED BY <1>2, <1>3 DEF BridgeInv

LEMMA RecordKeeps ==
    ASSUME BridgeInv, NEW t \in ToolEvents, RecordToolInvocation(t) PROVE BridgeInv'
<1>1. /\ UNCHANGED <<artifacts, conn, purgeNext, cycle, started, last, unlinked, cut>>
      /\ toolEvents' = toolEvents \cup {t} /\ bridges' = bridges \cup {<<"tool", t>>}
  BY DEF RecordToolInvocation, hist
<1>2. CyclesKnown' /\ MutexHeld' /\ CutTold' /\ ArtifactsTold' /\ OrphansOnlyByPurge'
  BY <1>1 DEF BridgeInv, CyclesKnown, Shape, MutexHeld, CutTold, ArtifactsTold, OrphansOnlyByPurge
<1>3. RowsTold'
  BY <1>1 DEF BridgeInv, RowsTold, Writing
<1>4. TouchedTold'
  BY <1>1 DEF BridgeInv, TouchedTold, Writing
<1> QED BY <1>2, <1>3, <1>4 DEF BridgeInv

\* A crash: cycles at their bridge rows are cut.
LEMMA RestartKeeps == ASSUME BridgeInv, Restart PROVE BridgeInv'
<1>1. /\ UNCHANGED <<artifacts, bridges, toolEvents, started, last, unlinked>>
      /\ cut' = cut \cup {cycle[r].id : r \in {q \in Runners : Writing(q)}}
      /\ conn' = "free" /\ purgeNext' = 0
      /\ cycle' = [r \in Runners |-> Idle]
  BY DEF Restart, tables, Writing
<1>2. cut \subseteq cut' /\ \A r \in Runners : Writing(r) => cycle[r].id \in cut'
  BY <1>1
<1>3. \A r \in Runners : cycle'[r] = Idle /\ cycle'[r].pc = "idle" /\ ~Writing(r)'
  BY <1>1 DEF Writing, Idle
<1>4. CyclesKnown'
  BY <1>1, <1>3 DEF BridgeInv, CyclesKnown, Shape
<1>5. MutexHeld' /\ CutTold' /\ OrphansOnlyByPurge'
  BY <1>1, <1>3 DEF BridgeInv, MutexHeld, CutTold, OrphansOnlyByPurge, Runners
<1>6. ArtifactsTold'
  BY <1>1, <1>2 DEF BridgeInv, ArtifactsTold, Writing
<1>7. RowsTold'
  BY <1>1, <1>2, <1>3 DEF BridgeInv, RowsTold
<1>8. TouchedTold'
  BY <1>1, <1>2 DEF BridgeInv, TouchedTold
<1> QED BY <1>4, <1>5, <1>6, <1>7, <1>8 DEF BridgeInv

LEMMA BridgeStep == ASSUME BridgeInv, [Next]_vars PROVE BridgeInv'
<1>1. ASSUME NEW r \in Runners, Cycle(r) PROVE BridgeInv'
  <2>1. ASSUME NEW apply \in BOOLEAN, NightlyRead(r, apply) PROVE BridgeInv'
    BY <2>1, ReadPlans, PlanningKeeps
  <2>2. ASSUME NEW autonomous \in BOOLEAN, NEW signal \in [memories -> Signals],
               NightlyPlan(r, autonomous, signal)
        PROVE  BridgeInv'
    BY <2>2, PlanPlans, PlanningKeeps
  <2>3. ASSUME NightlySnapshot(r) \/ NightlySnapshotFails(r) PROVE BridgeInv'
    BY <2>3, SnapshotPlans, PlanningKeeps
  <2>4. ASSUME NightlyCommit(r) PROVE BridgeInv'
    BY <2>4, CommitKeeps
  <2>5. ASSUME NightlyBridge(r) PROVE BridgeInv'
    BY <2>5, BridgeKeeps
  <2>6. ASSUME NEW m \in Memories, NightlyTouch(r, m) PROVE BridgeInv'
    BY <2>6, TouchKeeps
  <2> QED BY <1>1, <2>1, <2>2, <2>3, <2>4, <2>5, <2>6 DEF Cycle
<1>2. ASSUME Purge PROVE BridgeInv'
  BY <1>2, PurgeKeeps, PurgeEndsKeep DEF Purge
<1>3. ASSUME NEW t \in ToolEvents, RecordToolInvocation(t) PROVE BridgeInv'
  BY <1>3, RecordKeeps
<1>4. ASSUME (\E m \in Memories : SaveMemory(m)) \/ UpsertEmbedding
                \/ BackupCopy \/ BackupRecord \/ Checkpoint \/ UNCHANGED vars
      PROVE  BridgeInv'
  <2>1. UNCHANGED bridgeVars
    BY <1>4 DEF SaveMemory, UpsertEmbedding, BackupCopy, BackupRecord, Checkpoint, vars, tables,
                hist, bridgeVars
  <2> QED BY <2>1, BridgeStutter
<1>5. ASSUME Restart PROVE BridgeInv'
  BY <1>5, RestartKeeps
<1> QED BY <1>1, <1>2, <1>3, <1>4, <1>5 DEF Next, Others

\* However cycles of both runners, purges, tool calls and crashes interleave: a tool event
\* without a bridge row is the work of a purge, and an artifact and its rows belong together
\* or were parted by a purge or a cut.
THEOREM BridgesStayKept == Spec => []BridgesKept
<1> USE NightlyAssumption
<1>1. Init => BridgeInv BY BridgeInit
<1>2. BridgeInv /\ [Next]_vars => BridgeInv' BY BridgeStep
<1> QED BY <1>1, <1>2, BridgeInvKept, PTL DEF Spec

-----------------------------------------------------------------------------
(* Nightly: the caps of a cycle and its snapshot.                          *)
(*                                                                         *)
(* A planned change is counted by those chosen before it, so the last one  *)
(* chosen bounds them all.  Until its commit, a cycle no other change of   *)
(* the weights overtook has the weights it planned from.                   *)

\* If fewer than n members come before any member, there are at most n.
LEMMA Ranked ==
    ASSUME NEW S, IsFiniteSet(S), NEW R, NEW n \in Nat,
           \A x, y \in S : x # y => <<x, y>> \in R \/ <<y, x>> \in R,
           \A x \in S : <<x, x>> \notin R,
           \A x, y, z \in S : <<x, y>> \in R /\ <<y, z>> \in R => <<x, z>> \in R,
           \A x \in S : Cardinality({y \in S : <<y, x>> \in R}) < n
    PROVE  Cardinality(S) <= n
<1> DEFINE P(x) == {y \in S : <<y, x>> \in R}
           f == [x \in S |-> Cardinality(P(x))]
<1>1. \A x \in S : IsFiniteSet(P(x)) /\ Cardinality(P(x)) \in Nat
  BY FS_Subset, FS_CardinalityType
<1>2. f \in [S -> 0..(n - 1)]
  <2>1. \A x \in S : Cardinality(P(x)) < n
    OBVIOUS
  <2> HIDE DEF P
  <2>2. \A x \in S : Cardinality(P(x)) \in 0..(n - 1)
    BY <1>1, <2>1
  <2> QED BY <2>2
<1>3. ASSUME NEW x \in S, NEW y \in S, <<x, y>> \in R PROVE Cardinality(P(x)) # Cardinality(P(y))
  <2>1. P(x) \in SUBSET P(y) /\ x \in P(y) /\ x \notin P(x)
    BY <1>3
  <2> HIDE DEF P
  <2>2. Cardinality(P(y)) = Cardinality(P(x)) => P(x) = P(y)
    BY <1>1, <2>1, FS_Subset
  <2> QED BY <2>1, <2>2
<1>4. \A x, y \in S : x # y => f[x] # f[y]
  <2> HIDE DEF P
  <2> QED BY <1>3
<1>5. Cardinality(S) \in Nat
  BY FS_CardinalityType
<1>6. IsFiniteSet(0..(n - 1)) /\ Cardinality(0..(n - 1)) = n
  <2>1. /\ IsFiniteSet(0..(n - 1))
        /\ Cardinality(0..(n - 1)) = IF 0 > n - 1 THEN 0 ELSE (n - 1) - 0 + 1
    BY FS_Interval
  <2> QED BY <2>1
<1> HIDE DEF f
<1>7. ~(n < Cardinality(S))
  BY <1>2, <1>4, <1>6, FS_PigeonHole
<1> QED BY <1>5, <1>7

Bounds == MIN_WEIGHT..MAX_WEIGHT

Change(x) ==
    /\ x.memory \in Memories /\ x.prior \in Bounds /\ x.new \in Bounds
    /\ 100 * Delta(x) <= 15 * DELTA_CAP

\* An update moves a weight by at most 15% of the delta cap and stays within the bounds.
LEMMA Update ==
    ASSUME NEW p \in Bounds, NEW sig \in Int
    PROVE  /\ bounded_ewma_update(p, sig) \in Bounds
           /\ 100 * Abs(bounded_ewma_update(p, sig) - p) <= 15 * DELTA_CAP
<1>0. p \in 5000..10000
  BY DEF Bounds, MIN_WEIGHT, MAX_WEIGHT
<1> DEFINE u == bounded_ewma_update(p, sig)
<1>1. PICK q : q = Clamp(sig, -500, 500)
  OBVIOUS
<1>2. q \in Int /\ -500 <= q /\ q <= 500
  BY <1>1 DEF Clamp
<1>3. PICK t : t = Clamp(p + q, 5000, 10000)
  OBVIOUS
<1>4. t \in 5000..10000 /\ p - 500 <= t /\ t <= p + 500
  BY <1>0, <1>2, <1>3 DEF Clamp
<1>5. Clamp(p, 5000, 10000) = p
  BY <1>0 DEF Clamp
<1>6. PICK n : n = (85 * p + 15 * t) \div 100
  OBVIOUS
<1>7. n \in Int /\ p - 75 <= n /\ n <= p + 75
  BY <1>0, <1>4, <1>6
<1>8. u = Clamp(n, 5000, 10000)
  BY <1>1, <1>3, <1>5, <1>6 DEF bounded_ewma_update, MIN_WEIGHT, MAX_WEIGHT, DELTA_CAP
<1> HIDE DEF u
<1>9. u \in 5000..10000 /\ p - 75 <= u /\ u <= p + 75
  BY <1>0, <1>7, <1>8 DEF Clamp
<1>10. u \in Bounds /\ 100 * Abs(u - p) <= 15 * DELTA_CAP
  BY <1>0, <1>9 DEF Abs, DELTA_CAP, Bounds, MIN_WEIGHT, MAX_WEIGHT
<1> QED BY <1>10 DEF u

\* The cap of a percentage is no more than the whole.
LEMMA CapBound == ASSUME NEW p \in 1..100, NEW n \in Nat PROVE CapOf(p, n) \in Nat /\ CapOf(p, n) <= n
<1>1. PICK k \in Nat : k = p * n
  OBVIOUS
<1>2. k <= 100 * n
  BY <1>1
<1>3. (k + 99) \div 100 \in Nat /\ (n # 0 => (k + 99) \div 100 <= n)
  BY <1>2
<1> QED BY <1>1, <1>3 DEF CapOf

Within(chosen, corpus) ==
    LET cap == cycle_cap(corpus) IN
    /\ \A x \in chosen : Change(x)
    /\ \A x, y \in chosen : x.memory = y.memory => x = y
    /\ cap <= corpus /\ Cardinality(chosen) <= cap
    /\ \A m \in Memories : Cardinality({x \in chosen : SourceOf[x.memory] = SourceOf[m]}) <= source_cap(cap)

\* A cycle between plan and commit.
Sound(c) ==
    /\ Within(c.chosen, c.corpus)
    /\ c.chosen # {} => c.allowed
    /\ ~c.overtaken => /\ \A x \in c.chosen : x.prior = Weight(x.memory)
                       /\ c.pc = "commit" => c.snapshot = weights

WeightsBounded ==
    /\ weights = [m \in DOMAIN weights |-> weights[m]]
    /\ \A m \in DOMAIN weights : weights[m] \in Bounds

MemoriesFinite == memories \subseteq Memories /\ IsFiniteSet(memories)

CyclesSound == \A r \in Runners : cycle[r].pc \in {"snapshot", "commit"} => Sound(cycle[r])

CapInv == MemoriesFinite /\ WeightsBounded /\ CyclesSound /\ CapsHeld /\ UndoPossible

\* What is proposed for a memory.
LEMMA Proposed ==
    ASSUME NightlyAssumption, MemoriesFinite, WeightsBounded, NEW signal \in [memories -> Signals],
           NEW x \in weight_mutation_proposals(signal)
    PROVE  Change(x) /\ x.memory \in memories /\ x.prior = Weight(x.memory) /\ x = Mutation(x.memory, signal[x.memory])
<1>1. PICK m \in memories : x = Mutation(m, signal[m])
  BY DEF weight_mutation_proposals
<1>2. m \in Memories /\ signal[m] \in Int
  BY DEF NightlyAssumption, MemoriesFinite
<1>3. Weight(m) \in Bounds
  BY DEF Weight, WeightsBounded, DEFAULT_WEIGHT, MIN_WEIGHT, MAX_WEIGHT, Bounds
<1>4. PICK p \in Bounds : p = Weight(m)
  BY <1>3
<1>5. PICK q \in Int : q = signal[m]
  BY <1>2
<1>6. PICK u : u = bounded_ewma_update(p, q)
  OBVIOUS
<1>7. u \in Bounds /\ 100 * Abs(u - p) <= 15 * DELTA_CAP
  BY <1>6, Update
<1>8. x.memory = m /\ x.prior = p /\ x.new = u
  BY <1>1, <1>4, <1>5, <1>6 DEF Mutation
<1> QED BY <1>1, <1>2, <1>4, <1>7, <1>8 DEF Change, Delta

\* Before puts the changes of different memories in a strict order.
LEMMA BeforeOrders ==
    ASSUME NightlyAssumption, NEW S, \A x \in S : Change(x), \A x, y \in S : x.memory = y.memory => x = y
    PROVE  /\ \A x, y \in S : x # y => Before(x, y) \/ Before(y, x)
           /\ \A x \in S : ~Before(x, x)
           /\ \A x, y, z \in S : Before(x, y) /\ Before(y, z) => Before(x, z)
<1>1. ASSUME NEW x \in S PROVE Delta(x) \in Int /\ Rank[x.memory] \in Int
  <2>1. PICK p \in Bounds, n \in Bounds : p = x.prior /\ n = x.new
    BY DEF Change
  <2>2. p \in Int /\ n \in Int /\ Delta(x) = Abs(n - p)
    BY <2>1 DEF Delta, Bounds, MIN_WEIGHT, MAX_WEIGHT
  <2>3. Delta(x) \in Int
    BY <2>2 DEF Abs
  <2>4. Rank[x.memory] \in Int
    BY DEF Change, NightlyAssumption
  <2> QED BY <2>3, <2>4
<1>2. \A x, y \in S : x # y => Rank[x.memory] # Rank[y.memory]
  BY DEF Change, NightlyAssumption
<1> QED BY <1>1, <1>2 DEF Before

LEMMA SelectsWithin ==
    ASSUME NightlyAssumption, MemoriesFinite, WeightsBounded, NEW signal \in [memories -> Signals],
           NEW proposals \in SUBSET weight_mutation_proposals(signal), NEW chosen \in SUBSET proposals,
           select_mutations(proposals, Cardinality(memories), chosen)
    PROVE  Within(chosen, Cardinality(memories)) /\ \A x \in chosen : x.prior = Weight(x.memory)
<1> DEFINE corpus == Cardinality(memories)
           cap == cycle_cap(corpus)
<1>1. \A x \in chosen : /\ Change(x) /\ x.memory \in memories /\ x.prior = Weight(x.memory)
                         /\ x = Mutation(x.memory, signal[x.memory])
  BY Proposed
<1>2. \A x, y \in chosen : x.memory = y.memory => x = y
  BY <1>1
<1>3. corpus \in Nat
  BY FS_CardinalityType DEF MemoriesFinite
<1>4. cap \in Nat /\ cap <= corpus /\ source_cap(cap) \in Nat
  BY <1>3, CapBound DEF cycle_cap, source_cap, NightlyAssumption
<1>5. \A x \in chosen : /\ Cardinality(Earlier(chosen, x)) < cap
                         /\ Cardinality(SameSource(Earlier(chosen, x), x)) < source_cap(cap)
  BY DEF select_mutations
<1>6. IsFiniteSet(chosen)
  <2> DEFINE f == [x \in chosen |-> x.memory]
  <2>1. f \in [chosen -> memories] /\ \A x, y \in chosen : f[x] = f[y] => x = y
    BY <1>1, <1>2
  <2> HIDE DEF f
  <2>2. f \in Injection(chosen, memories)
    BY <2>1, Fun_IsInj
  <2> QED BY <2>2, FS_Injection DEF MemoriesFinite
<1>7. /\ \A x, y \in chosen : x # y => Before(x, y) \/ Before(y, x)
      /\ \A x \in chosen : ~Before(x, x)
      /\ \A x, y, z \in chosen : Before(x, y) /\ Before(y, z) => Before(x, z)
  BY <1>1, <1>2, BeforeOrders
<1> HIDE DEF cap, corpus
<1> DEFINE R == {p \in chosen \X chosen : Before(p[1], p[2])}
<1>8. \A x, y \in chosen : <<x, y>> \in R <=> Before(x, y)
  OBVIOUS
<1> HIDE DEF R
<1>9. Cardinality(chosen) <= cap
  <2>1. \A x \in chosen : {y \in chosen : <<y, x>> \in R} = Earlier(chosen, x)
    BY <1>8 DEF Earlier
  <2>2. \A x \in chosen : Cardinality({y \in chosen : <<y, x>> \in R}) < cap
    BY <1>5, <2>1
  <2> QED BY <1>4, <1>6, <1>7, <1>8, <2>2, Ranked
<1>10. ASSUME NEW m \in Memories
       PROVE  Cardinality({x \in chosen : SourceOf[x.memory] = SourceOf[m]}) <= source_cap(cap)
  <2> DEFINE S == {x \in chosen : SourceOf[x.memory] = SourceOf[m]}
  <2>1. IsFiniteSet(S) /\ S \subseteq chosen
    BY <1>6, FS_Subset
  <2>2. \A x \in S : {y \in S : <<y, x>> \in R} = SameSource(Earlier(chosen, x), x)
    BY <1>8 DEF Earlier, SameSource
  <2> HIDE DEF S
  <2>3. \A x \in S : Cardinality({y \in S : <<y, x>> \in R}) < source_cap(cap)
    BY <1>5, <2>1, <2>2
  <2>4. /\ \A x, y \in S : x # y => <<x, y>> \in R \/ <<y, x>> \in R
        /\ \A x \in S : <<x, x>> \notin R
        /\ \A x, y, z \in S : <<x, y>> \in R /\ <<y, z>> \in R => <<x, z>> \in R
    BY <1>7, <1>8, <2>1
  <2>5. Cardinality(S) <= source_cap(cap)
    BY <1>4, <2>1, <2>3, <2>4, Ranked
  <2> QED BY <2>5 DEF S
<1> QED BY <1>1, <1>2, <1>4, <1>9, <1>10 DEF Within, cap, corpus

LEMMA CapInitial == Init => CapInv
<1> SUFFICES ASSUME Init PROVE CapInv
  OBVIOUS
<1>1. MemoriesFinite
  BY FS_EmptySet DEF Init, MemoriesFinite
<1>2. WeightsBounded
  BY DEF Init, WeightsBounded
<1>3. CyclesSound
  BY DEF Init, CyclesSound, Idle, Runners
<1> QED BY <1>1, <1>2, <1>3 DEF Init, CapInv, CapsHeld, UndoPossible

\* While the weights stay, so does what a cycle planned on them.
LEMMA SoundStays == ASSUME NEW c, Sound(c), UNCHANGED weights PROVE Sound(c)'
BY DEF Sound, Weight

\* A change of the weights, for a cycle that is marked as overtaken.
LEMMA SoundMarked ==
    ASSUME NEW c, Sound(c), NEW d, d.chosen = c.chosen, d.corpus = c.corpus, d.overtaken = TRUE,
           c.allowed => d.allowed
    PROVE  Sound(d)'
BY DEF Sound

LEMMA OvertakenSound ==
    ASSUME BridgeInv, CyclesSound, NEW but, NEW q \in Runners, q # but,
           cycle'[q] = Overtake(cycle, but)[q], cycle'[q].pc \in {"snapshot", "commit"}
    PROVE  Sound(cycle[q])'
<1> DEFINE c == cycle[q]
           d == Overtake(cycle, but)[q]
<1>1. c.pc \in {"snapshot", "commit"}
  BY OvertakeMarks DEF BridgeInv, CyclesKnown
<1>2. DOMAIN c = {"pc", "id", "chosen", "corpus", "allowed", "snapshot", "overtaken"}
  BY <1>1 DEF BridgeInv, CyclesKnown, Shape, Idle
<1>3. d = [c EXCEPT !.overtaken = TRUE]
  BY <1>1 DEF Overtake
<1>4. Sound(c)
  BY <1>1 DEF CyclesSound
<1> HIDE DEF c, d
<1>5. d.chosen = c.chosen /\ d.corpus = c.corpus /\ d.overtaken = TRUE /\ d.allowed = c.allowed
  BY <1>2, <1>3
<1>6. PICK a, b : a = c /\ b = d
  OBVIOUS
<1>7. b.chosen = a.chosen /\ b.corpus = a.corpus /\ b.overtaken = TRUE /\ (a.allowed => b.allowed)
  BY <1>5, <1>6
<1>8. Sound(a)
  BY <1>4, <1>6
<1>9. Sound(b)'
  BY <1>7, <1>8, SoundMarked
<1>10. b = cycle'[q]
  BY <1>6 DEF d
<1> QED BY <1>9, <1>10

\* A step of one cycle that changes neither weights nor memories.
LEMMA CycleMoves ==
    ASSUME CapInv, NEW r \in Runners, UNCHANGED <<memories, weights, last>>,
           \A q \in Runners : q # r => cycle'[q] = cycle[q],
           cycle'[r].pc \in {"snapshot", "commit"} => Sound(cycle'[r])
    PROVE  CapInv'
<1>1. MemoriesFinite' /\ WeightsBounded' /\ CapsHeld' /\ UndoPossible'
  BY DEF CapInv, MemoriesFinite, WeightsBounded, CapsHeld, UndoPossible
<1>2. ASSUME NEW q \in Runners, cycle'[q].pc \in {"snapshot", "commit"} PROVE Sound(cycle[q])'
  <2>1. PICK c : c = cycle'[q]
    OBVIOUS
  <2>2. Sound(c)
    BY <1>2, <2>1 DEF CapInv, CyclesSound
  <2>3. Sound(c)'
    BY <2>2, SoundStays
  <2> QED BY <2>1, <2>3
<1> QED BY <1>1, <1>2 DEF CapInv, CyclesSound

LEMMA CapPlan ==
    ASSUME NightlyAssumption, BridgeInv, CapInv, NEW r \in Runners, NEW autonomous \in BOOLEAN,
           NEW signal \in [memories -> Signals], NightlyPlan(r, autonomous, signal)
    PROVE  CapInv'
<1> DEFINE c == cycle[r]
           corpus == Cardinality(memories)
           proposals == IF c.apply /\ ~c.orphans THEN weight_mutation_proposals(signal) ELSE {}
           plan(chosen) == [pc |-> IF chosen = {} THEN "commit" ELSE "snapshot", id |-> c.id,
                            chosen |-> chosen, corpus |-> corpus, allowed |-> autonomous /\ ~c.orphans,
                            snapshot |-> weights, overtaken |-> FALSE]
<1>1. PICK chosen \in SUBSET proposals :
          /\ select_mutations(proposals, corpus, chosen)
          /\ cycle' = [cycle EXCEPT ![r] = IF c.apply /\ ~autonomous THEN Idle ELSE plan(chosen)]
  BY DEF NightlyPlan
<1>2. UNCHANGED <<memories, weights, last>>
  BY DEF NightlyPlan, tables, hist
<1>3. proposals \in SUBSET weight_mutation_proposals(signal)
  OBVIOUS
<1>4. chosen # {} => c.apply /\ ~c.orphans
  BY <1>1
<1> HIDE DEF proposals
<1>5. Within(chosen, corpus) /\ \A x \in chosen : x.prior = Weight(x.memory)
  BY <1>1, <1>3, SelectsWithin DEF CapInv
<1>6. PICK p : p = plan(chosen)
  OBVIOUS
<1>7. /\ p.chosen = chosen /\ p.corpus = corpus /\ p.snapshot = weights
      /\ p.allowed = (autonomous /\ ~c.orphans)
  BY <1>6
<1>8. cycle' = [cycle EXCEPT ![r] = IF c.apply /\ ~autonomous THEN Idle ELSE p]
  BY <1>1, <1>6
<1> HIDE DEF plan
<1>9. /\ \A q \in Runners : q # r => cycle'[q] = cycle[q]
      /\ cycle'[r] = IF c.apply /\ ~autonomous THEN Idle ELSE p
  BY <1>8 DEF BridgeInv, CyclesKnown
<1>10. cycle'[r].pc \in {"snapshot", "commit"} => cycle'[r] = p /\ ~(c.apply /\ ~autonomous)
  BY <1>9 DEF Idle
<1>11. ~(c.apply /\ ~autonomous) => Sound(p)
  <2>1. Within(p.chosen, p.corpus) /\ \A x \in p.chosen : x.prior = Weight(x.memory)
    BY <1>5, <1>7
  <2>2. ~(c.apply /\ ~autonomous) /\ p.chosen # {} => p.allowed
    BY <1>4, <1>7
  <2> QED BY <1>7, <2>1, <2>2 DEF Sound
<1> QED BY <1>2, <1>9, <1>10, <1>11, CycleMoves

LEMMA CapSnapshot ==
    ASSUME BridgeInv, CapInv, NEW r \in Runners, NightlySnapshot(r)
    PROVE  CapInv'
<1> DEFINE c == cycle[r]
<1>1. /\ c.pc = "snapshot" /\ UNCHANGED <<memories, weights, last>>
      /\ cycle' = [cycle EXCEPT ![r].pc = "commit", ![r].snapshot = weights]
  BY DEF NightlySnapshot, tables, hist
<1>2. DOMAIN c = {"pc", "id", "chosen", "corpus", "allowed", "snapshot", "overtaken"}
  BY <1>1 DEF BridgeInv, CyclesKnown, Shape, Idle
<1>3. PICK d : d = [c EXCEPT !.pc = "commit", !.snapshot = weights]
  OBVIOUS
<1>4. cycle'[r] = d /\ \A q \in Runners : q # r => cycle'[q] = cycle[q]
  BY <1>1, <1>3 DEF BridgeInv, CyclesKnown
<1>5. /\ d.chosen = c.chosen /\ d.corpus = c.corpus /\ d.snapshot = weights
      /\ d.allowed = c.allowed /\ d.overtaken = c.overtaken
  BY <1>2, <1>3
<1>6. Sound(c)
  BY <1>1 DEF CapInv, CyclesSound
<1> HIDE DEF c
<1>7. Sound(d)
  BY <1>5, <1>6 DEF Sound
<1> QED BY <1>1, <1>4, <1>7, CycleMoves

LEMMA CapCommit ==
    ASSUME BridgeInv, CapInv, NEW r \in Runners, NightlyCommit(r)
    PROVE  CapInv'
<1> DEFINE c == cycle[r]
           touched == {x.memory : x \in c.chosen}
           New(m) == CHOOSE x \in c.chosen : x.memory = m
<1>1. c.pc = "commit" /\ UNCHANGED memories
  BY DEF NightlyCommit
<1>2. Sound(c) /\ DOMAIN cycle = Runners
  BY <1>1 DEF CapInv, CyclesSound, BridgeInv, CyclesKnown
<1>3. CASE UNCHANGED <<weights, last>> /\ \E d : cycle' = [cycle EXCEPT ![r] = d] /\ d.pc \in {"idle", "bridge"}
  <2>1. PICK d : cycle' = [cycle EXCEPT ![r] = d] /\ d.pc \in {"idle", "bridge"}
    BY <1>3
  <2>2. cycle'[r] = d /\ \A q \in Runners : q # r => cycle'[q] = cycle[q]
    BY <1>2, <2>1
  <2> QED BY <1>1, <1>3, <2>1, <2>2, CycleMoves
<1>4. CASE /\ c.chosen # {}
           /\ weights' = [m \in DOMAIN weights \cup touched |->
                              IF m \in touched THEN New(m).new ELSE weights[m]]
           /\ last' = [is |-> "commit", id |-> c.id, before |-> weights, snapshot |-> c.snapshot,
                       chosen |-> c.chosen, corpus |-> c.corpus,
                       allowed |-> c.allowed, overtaken |-> c.overtaken]
           /\ cycle' = [Overtake(cycle, r) EXCEPT ![r] = [pc |-> "bridge", id |-> c.id, todo |-> touched]]
  <2>1. WeightsBounded'
    <3>1. ASSUME NEW m \in touched PROVE New(m).new \in Bounds
      <4>1. New(m) \in c.chosen
        BY <3>1
      <4> QED BY <4>1, <1>2 DEF Sound, Within, Change
    <3> HIDE DEF touched, New
    <3>2. DOMAIN weights' = DOMAIN weights \cup touched
      BY <1>4
    <3>3. \A m \in DOMAIN weights' : weights'[m] \in Bounds
      BY <1>4, <3>1, <3>2 DEF CapInv, WeightsBounded
    <3>4. weights' = [m \in DOMAIN weights' |-> weights'[m]]
      BY <1>4
    <3> QED BY <3>3, <3>4 DEF WeightsBounded
  <2>2. CyclesSound'
    <3>1. DOMAIN Overtake(cycle, r) = Runners
      BY DEF Overtake
    <3>2. PICK d : d = [pc |-> "bridge", id |-> c.id, todo |-> touched]
      OBVIOUS
    <3>3. d.pc = "bridge"
      BY <3>2
    <3>4. cycle'[r] = d /\ \A q \in Runners : q # r => cycle'[q] = Overtake(cycle, r)[q]
      BY <1>4, <3>1, <3>2
    <3>5. ASSUME NEW q \in Runners, cycle'[q].pc \in {"snapshot", "commit"} PROVE Sound(cycle[q])'
      <4>1. q # r
        BY <3>3, <3>4, <3>5
      <4> QED BY <3>4, <3>5, <4>1, OvertakenSound DEF CapInv
    <3> QED BY <3>5 DEF CyclesSound
  <2> HIDE DEF touched, New
  <2>3. PICK l : l = last'
    OBVIOUS
  <2>4. /\ l.before = weights /\ l.snapshot = c.snapshot /\ l.chosen = c.chosen /\ l.corpus = c.corpus
        /\ l.allowed = c.allowed /\ l.overtaken = c.overtaken
    BY <1>4, <2>3
  <2> HIDE DEF c
  <2>5. l.allowed /\ Within(l.chosen, l.corpus)
    BY <1>2, <1>4, <2>4 DEF Sound
  <2>6. ~l.overtaken => /\ l.snapshot = l.before
                        /\ \A x \in l.chosen : x.prior = Weight(x.memory)
    BY <1>1, <1>2, <2>4 DEF Sound, c
  <2>7. CapsHeld'
    BY <2>3, <2>5 DEF CapsHeld, Within, Change, Bounds
  <2>8. UndoPossible'
    BY <2>3, <2>4, <2>6 DEF UndoPossible, Weight
  <2>9. MemoriesFinite'
    BY <1>1 DEF CapInv, MemoriesFinite
  <2> QED BY <2>1, <2>2, <2>7, <2>8, <2>9 DEF CapInv
<1>5. CASE ~(touched \subseteq memories)
  <2>1. UNCHANGED <<weights, last>> /\ cycle' = [cycle EXCEPT ![r] = Idle]
    BY <1>5 DEF NightlyCommit
  <2>2. Idle.pc = "idle"
    BY DEF Idle
  <2> QED BY <1>3, <2>1, <2>2
<1>6. CASE touched \subseteq memories /\ c.chosen = {}
  <2>1. /\ weights' = [m \in DOMAIN weights \cup touched |-> IF m \in touched THEN New(m).new ELSE weights[m]]
        /\ UNCHANGED last
        /\ cycle' = [cycle EXCEPT ![r] = [pc |-> "bridge", id |-> c.id, todo |-> touched]]
    BY <1>6 DEF NightlyCommit
  <2>2. touched = {}
    BY <1>6
  <2> HIDE DEF New
  <2>3. UNCHANGED weights
    BY <2>1, <2>2 DEF CapInv, WeightsBounded
  <2>4. PICK d : d = [pc |-> "bridge", id |-> c.id, todo |-> touched]
    OBVIOUS
  <2>5. d.pc = "bridge" /\ cycle' = [cycle EXCEPT ![r] = d]
    BY <2>1, <2>4
  <2> QED BY <1>3, <2>1, <2>3, <2>5
<1>7. CASE touched \subseteq memories /\ c.chosen # {}
  BY <1>4, <1>7 DEF NightlyCommit
<1> QED BY <1>5, <1>6, <1>7

LEMMA CapPurge == ASSUME BridgeInv, CapInv, PurgeTable PROVE CapInv'
<1>1. UNCHANGED last
  BY DEF PurgeTable
<1>2. MemoriesFinite'
  BY FS_EmptySet DEF PurgeTable, CapInv, MemoriesFinite
<1>3. CapsHeld' /\ UndoPossible'
  BY <1>1 DEF CapInv, CapsHeld, UndoPossible
<1>4. CASE weights' = [m \in {} |-> 0] /\ cycle' = Overtake(cycle, "purge")
  <2>1. WeightsBounded'
    BY <1>4 DEF WeightsBounded
  <2>2. "purge" \notin Runners
    BY DEF Runners
  <2>3. CyclesSound'
    BY <1>4, <2>2, OvertakenSound DEF CyclesSound, CapInv
  <2> QED BY <1>2, <1>3, <2>1, <2>3 DEF CapInv
<1>5. CASE UNCHANGED <<weights, cycle>>
  <2>1. WeightsBounded' /\ CyclesSound'
    BY <1>5 DEF CapInv, WeightsBounded, CyclesSound, Sound, Weight
  <2> QED BY <1>2, <1>3, <2>1 DEF CapInv
<1> QED BY <1>4, <1>5 DEF PurgeTable

LEMMA CapStep == ASSUME NightlyAssumption, BridgeInv, CapInv, [Next]_vars PROVE CapInv'
<1>1. ASSUME NEW r \in Runners, Cycle(r) PROVE CapInv'
  <2>1. ASSUME UNCHANGED <<memories, weights, last>>, \E d : cycle' = [cycle EXCEPT ![r] = d] /\ d.pc \notin {"snapshot", "commit"}
        PROVE  CapInv'
    <3>1. PICK d : cycle' = [cycle EXCEPT ![r] = d] /\ d.pc \notin {"snapshot", "commit"}
      BY <2>1
    <3>2. cycle'[r] = d /\ \A q \in Runners : q # r => cycle'[q] = cycle[q]
      BY <3>1 DEF BridgeInv, CyclesKnown
    <3> QED BY <2>1, <3>1, <3>2, CycleMoves
  <2>2. Idle.pc = "idle"
    BY DEF Idle
  <2>3. ASSUME NEW apply \in BOOLEAN, NightlyRead(r, apply) PROVE CapInv'
    <3>1. PICK d : /\ d = [pc |-> "plan", id |-> started', apply |-> apply, orphans |-> Orphans]
                   /\ cycle' = [cycle EXCEPT ![r] = d]
      BY <2>3 DEF NightlyRead
    <3>2. d.pc = "plan" /\ UNCHANGED <<memories, weights, last>>
      BY <2>3, <3>1 DEF NightlyRead, tables, hist
    <3> QED BY <2>1, <3>1, <3>2
  <2>4. ASSUME NEW autonomous \in BOOLEAN, NEW signal \in [memories -> Signals],
               NightlyPlan(r, autonomous, signal)
        PROVE  CapInv'
    BY <2>4, CapPlan
  <2>5. ASSUME NightlySnapshotFails(r) PROVE CapInv'
    BY <2>1, <2>2, <2>5 DEF NightlySnapshotFails, tables, hist
  <2>6. ASSUME NightlyBridge(r) PROVE CapInv'
    <3>1. cycle[r].pc = "bridge" /\ DOMAIN cycle[r] = {"pc", "id", "todo"}
      BY <2>6 DEF NightlyBridge, BridgeInv, CyclesKnown, Shape, Idle
    <3>2. PICK d : d = (IF cycle[r].todo = {} THEN Idle ELSE [cycle[r] EXCEPT !.pc = "touch"])
      OBVIOUS
    <3>3. d.pc \in {"idle", "touch"}
      BY <2>2, <3>1, <3>2
    <3>4. cycle' = [cycle EXCEPT ![r] = d] /\ UNCHANGED <<memories, weights, last>>
      BY <2>6, <3>2 DEF NightlyBridge, hist
    <3> QED BY <2>1, <3>3, <3>4
  <2>7. ASSUME NEW m \in Memories, NightlyTouch(r, m) PROVE CapInv'
    <3>1. cycle[r].pc = "touch" /\ DOMAIN cycle[r] = {"pc", "id", "todo"}
      BY <2>7 DEF NightlyTouch, BridgeInv, CyclesKnown, Shape, Idle
    <3>2. PICK d : d = (IF cycle[r].todo \ {m} = {} THEN Idle ELSE [cycle[r] EXCEPT !.todo = cycle[r].todo \ {m}])
      OBVIOUS
    <3>3. d.pc \in {"idle", "touch"}
      BY <2>2, <3>1, <3>2
    <3>4. cycle' = [cycle EXCEPT ![r] = d] /\ UNCHANGED <<memories, weights, last>>
      BY <2>7, <3>2 DEF NightlyTouch, hist
    <3> QED BY <2>1, <3>3, <3>4
  <2> QED BY <1>1, <2>3, <2>4, <2>5, <2>6, <2>7, CapSnapshot, CapCommit DEF Cycle
<1>2. ASSUME NEW m \in Memories, SaveMemory(m) PROVE CapInv'
  <2>1. memories' = memories \cup {m} /\ UNCHANGED <<weights, cycle, last>>
    BY <1>2 DEF SaveMemory, hist
  <2>2. MemoriesFinite'
    BY <2>1, FS_AddElement DEF CapInv, MemoriesFinite
  <2>3. WeightsBounded' /\ CyclesSound' /\ CapsHeld' /\ UndoPossible'
    BY <2>1 DEF CapInv, WeightsBounded, CyclesSound, Sound, Weight, CapsHeld, UndoPossible
  <2> QED BY <2>2, <2>3 DEF CapInv
<1>3. ASSUME UNCHANGED <<memories, weights, cycle, last>> PROVE CapInv'
  BY <1>3 DEF CapInv, MemoriesFinite, WeightsBounded, CyclesSound, Sound, Weight, CapsHeld, UndoPossible
<1>4. ASSUME \/ PurgeBegin \/ PurgeLedger \/ UpsertEmbedding \/ BackupCopy \/ BackupRecord \/ Checkpoint
             \/ UNCHANGED vars \/ \E t \in ToolEvents : RecordToolInvocation(t)
      PROVE  UNCHANGED <<memories, weights, cycle, last>>
  BY <1>4 DEF PurgeBegin, PurgeLedger, UpsertEmbedding, BackupCopy, BackupRecord, Checkpoint,
              RecordToolInvocation, vars, tables, hist
<1>5. ASSUME Restart PROVE CapInv'
  <2>1. UNCHANGED <<memories, weights, last>> /\ \A r \in Runners : cycle'[r].pc = "idle"
    BY <1>5 DEF Restart, tables, hist, Idle
  <2> QED BY <2>1 DEF CapInv, MemoriesFinite, WeightsBounded, CyclesSound, CapsHeld, UndoPossible
<1> QED BY <1>1, <1>2, <1>3, <1>4, <1>5, CapPurge DEF Next, Purge, Others

LEMMA CapInvariance == Spec => []CapInv
<1>1. Init => BridgeInv /\ CapInv
  BY NightlyAssumption, BridgeInit, CapInitial
<1>2. BridgeInv /\ CapInv /\ [Next]_vars => (BridgeInv /\ CapInv)'
  BY NightlyAssumption, BridgeStep, CapStep
<1> QED BY <1>1, <1>2, PTL DEF Spec

\* For any memories, sources, percentages, signals and interleaving of cycles, saves, purges
\* and crashes: a cycle that changes weights does so with the switches on and the tools
\* linked, for no more memories than the caps of the corpus and of a source allow, by small
\* steps and within the bounds.
THEOREM CapsStayHeld == Spec => []CapsHeld
<1>1. CapInv => CapsHeld
  BY DEF CapInv
<1> QED BY <1>1, CapInvariance, PTL

\* A commit that no other change of the weights overtook is undone by its snapshot.
THEOREM SnapshotUndoes == Spec => []UndoPossible
<1>1. CapInv => UndoPossible
  BY DEF CapInv
<1> QED BY <1>1, CapInvariance, PTL

-----------------------------------------------------------------------------
(* Import: rows and handlers.                                              *)
(*                                                                         *)
(* A memory keeps its key, its value and where it came from; a handler on  *)
(* the Io worker keeps its batch in the status it moved it to, which is    *)
(* what keeps other calls off the batch.                                   *)

Rows(s) == \E S : s \in Seq(S)

LEMMA RowsAppend ==
    ASSUME NEW s, Rows(s), NEW x
    PROVE  /\ Rows(Append(s, x)) /\ Len(s) \in Nat /\ DOMAIN s = 1..Len(s)
           /\ DOMAIN Append(s, x) = DOMAIN s \cup {Len(s) + 1}
           /\ \A i \in DOMAIN s : Append(s, x)[i] = s[i]
           /\ Append(s, x)[Len(s) + 1] = x
           /\ Len(Append(s, x)) = Len(s) + 1
<1>1. PICK S : s \in Seq(S)
  BY DEF Rows
<1> DEFINE T == S \cup {x}
<1>2. s \in Seq(T)
  BY <1>1
<1>3. x \in T
  OBVIOUS
<1> HIDE DEF T
<1>4. Append(s, x) \in Seq(T)
  BY <1>2, <1>3
<1> QED BY <1>2, <1>3, <1>4 DEF Rows

StoredOk ==
    /\ Rows(stored)
    /\ \A m \in DOMAIN stored : DOMAIN stored[m] = {"key", "value", "recent", "from"}

StoreGrows ==
    /\ DOMAIN stored \subseteq DOMAIN stored'
    /\ \A m \in DOMAIN stored : /\ stored'[m].key = stored[m].key
                                /\ stored'[m].value = stored[m].value
                                /\ stored'[m].from = stored[m].from

TablesOk ==
    /\ DOMAIN batches = Batches /\ DOMAIN cands = Batches
    /\ \A b \in Batches : DOMAIN batches[b] = {"status", "totals"}

JobIs(op, pcs, fields) == importJob.op = op /\ importJob.pc \in pcs /\ DOMAIN importJob = fields

JobOn(status) == importJob.batch \in Batches /\ batches[importJob.batch].status = status

JobOk ==
    \/ importJob = IdleJob
    \/ JobIs("parse", {"content"}, {"op", "pc", "batch"}) /\ JobOn("parsing")
    \/ JobIs("parse", {"candidates"}, {"op", "pc", "batch", "content", "made"}) /\ JobOn("classified")
    \/ JobIs("parse", {"preview"}, {"op", "pc", "batch"}) /\ JobOn("classified")
    \/ /\ JobIs("commit", {"save", "mark", "refuse"}, {"op", "pc", "batch", "todo", "refused", "saved"})
       /\ JobOn("commit_requested")
    \/ JobIs("commit", {"ledger", "bridge"}, {"op", "pc", "run", "saved"})
    \/ JobIs("pack", {"save"}, {"op", "pc", "run", "pack", "todo", "saved", "failed"})
    \/ JobIs("pack", {"ledger", "bridge"}, {"op", "pc", "run", "saved", "pack", "failed"})

JobInv == StoredOk /\ TablesOk /\ JobOk

LEMMA JobInit == ImportInit => JobInv
<1> SUFFICES ASSUME ImportInit PROVE JobInv
  OBVIOUS
<1>1. stored \in Seq({})
  BY DEF ImportInit
<1> QED BY <1>1 DEF ImportInit, JobInv, StoredOk, Rows, TablesOk, JobOk

LEMMA InsertGrows ==
    ASSUME StoredOk, NEW key, NEW value, NEW from, Insert(key, value, from)
    PROVE  /\ StoredOk' /\ StoreGrows
           /\ Len(stored) \in Nat /\ Len(stored) + 1 \notin DOMAIN stored
           /\ Len(stored)' = Len(stored) + 1
           /\ DOMAIN stored' = DOMAIN stored \cup {Len(stored) + 1}
           /\ stored'[Len(stored) + 1] = [key |-> key, value |-> value, recent |-> TRUE, from |-> from]
<1> DEFINE row == [key |-> key, value |-> value, recent |-> TRUE, from |-> from]
<1>1. stored' = Append(stored, row) /\ Rows(stored)
  BY DEF Insert, StoredOk
<1>2. DOMAIN row = {"key", "value", "recent", "from"}
  OBVIOUS
<1> HIDE DEF row
<1>3. /\ Rows(Append(stored, row)) /\ Len(stored) \in Nat /\ DOMAIN stored = 1..Len(stored)
      /\ DOMAIN Append(stored, row) = DOMAIN stored \cup {Len(stored) + 1}
      /\ \A i \in DOMAIN stored : Append(stored, row)[i] = stored[i]
      /\ Append(stored, row)[Len(stored) + 1] = row
      /\ Len(Append(stored, row)) = Len(stored) + 1
  BY <1>1, RowsAppend
<1>4. StoredOk'
  BY <1>1, <1>2, <1>3 DEF StoredOk
<1>5. StoreGrows
  BY <1>1, <1>3 DEF StoreGrows
<1> QED BY <1>1, <1>3, <1>4, <1>5 DEF row

LEMMA HourGrows ==
    ASSUME StoredOk, ImportHourPasses
    PROVE  StoredOk' /\ StoreGrows /\ DOMAIN stored' = DOMAIN stored
<1>1. stored' = [m \in DOMAIN stored |-> [stored[m] EXCEPT !.recent = FALSE]]
  BY DEF ImportHourPasses
<1>2. /\ DOMAIN stored' = DOMAIN stored
      /\ \A m \in DOMAIN stored : /\ DOMAIN stored'[m] = {"key", "value", "recent", "from"}
                                  /\ stored'[m].key = stored[m].key
                                  /\ stored'[m].value = stored[m].value
                                  /\ stored'[m].from = stored[m].from
  BY <1>1 DEF StoredOk
<1>3. Rows(stored')
  <2>1. PICK S : stored \in Seq(S)
    BY DEF StoredOk, Rows
  <2>2. DOMAIN stored = 1..Len(stored) /\ Len(stored) \in Nat
    BY <2>1
  <2> DEFINE T == {[stored[m] EXCEPT !.recent = FALSE] : m \in DOMAIN stored}
  <2>3. stored' \in [1..Len(stored) -> T]
    BY <1>1, <2>2
  <2> HIDE DEF T
  <2>4. stored' \in Seq(T)
    BY <2>2, <2>3
  <2> QED BY <2>4 DEF Rows
<1> QED BY <1>2, <1>3 DEF StoredOk, StoreGrows

\* The status a batch keeps for good.
Finished(b) == batches[b].status \in {"committed", "cancelled"}

\* What a step may do: memories stay, finished batches and their candidates too, and a memory
\* from a batch is saved by the commit of that batch.
Careful ==
    /\ JobInv' /\ StoreGrows
    /\ \A b \in Batches : Finished(b) => batches'[b] = batches[b] /\ cands'[b] = cands[b]
    /\ \A m \in DOMAIN stored' \ DOMAIN stored :
           stored'[m].from[1] = "batch" =>
               /\ importJob.op = "commit" /\ importJob.pc = "save"
               /\ stored'[m].from[2] = importJob.batch

LEMMA StoredStays == ASSUME StoredOk, UNCHANGED stored PROVE StoredOk' /\ StoreGrows
BY DEF StoredOk, StoreGrows, Rows

LEMMA StatusStep ==
    ASSUME JobInv,
           \/ \E b \in Batches : \/ create_batch(b) \/ cancel_batch(b) \/ ParseStart(b)
                                 \/ \E chosen \in SUBSET DOMAIN cands[b] : CommitStart(b, chosen)
           \/ \E content \in Contents : ParseClassified(content)
           \/ ParsePreview \/ ParseRefuse \/ CommitDone
    PROVE  Careful
<1> USE DEF JobInv, SetStatus, IdleJob, Finished
<1>1. UNCHANGED <<stored, cands>>
  BY DEF create_batch, cancel_batch, ParseStart, CommitStart, ParseClassified, ParsePreview,
         ParseRefuse, CommitDone
<1>2. StoredOk' /\ StoreGrows
  BY <1>1, StoredStays
<1> HIDE DEF JobInv
<1> SUFFICES /\ TablesOk' /\ JobOk'
             /\ \A b \in Batches : Finished(b) => batches'[b] = batches[b]
  BY <1>1, <1>2 DEF Careful, JobInv
<1> USE DEF JobInv
<1>3. CASE \E b \in Batches : create_batch(b) \/ cancel_batch(b)
  BY <1>1, <1>3 DEF create_batch, cancel_batch, TablesOk, JobOk
<1>4. CASE \E b \in Batches : ParseStart(b)
  BY <1>1, <1>4 DEF ParseStart, TablesOk, JobOk, JobIs, JobOn
<1>5. CASE \E b \in Batches : \E chosen \in SUBSET DOMAIN cands[b] : CommitStart(b, chosen)
  BY <1>1, <1>5 DEF CommitStart, CommitJob, TablesOk, JobOk, JobIs, JobOn
<1>6. CASE \E content \in Contents : ParseClassified(content)
  BY <1>1, <1>6 DEF ParseClassified, Step, TablesOk, JobOk, JobIs, JobOn
<1>7. CASE ParsePreview
  BY <1>1, <1>7 DEF ParsePreview, Step, TablesOk, JobOk, JobIs, JobOn
<1>8. CASE ParseRefuse
  BY <1>1, <1>8 DEF ParseRefuse, TablesOk, JobOk
<1>9. CASE CommitDone
  BY <1>1, <1>9 DEF CommitDone, Step, TablesOk, JobOk, JobIs, JobOn
<1> QED BY <1>3, <1>4, <1>5, <1>6, <1>7, <1>8, <1>9

LEMMA CandidateStep ==
    ASSUME JobInv,
           \/ ParseCandidate \/ ParseCounts \/ CommitMark \/ CommitCount
           \/ \E i : CommitRefuse(i)
    PROVE  Careful
<1>1. UNCHANGED stored
  BY DEF ParseCandidate, ParseCounts, CommitMark, CommitCount, CommitRefuse
<1>2. StoredOk' /\ StoreGrows
  BY <1>1, StoredStays DEF JobInv
<1>3. /\ importJob # IdleJob /\ importJob.batch \in Batches /\ ~Finished(importJob.batch)
      /\ importJob.op \in {"parse", "commit"} /\ importJob.pc \notin {"ledger", "bridge"}
  <2>1. importJob.op \in {"parse", "commit"} /\ importJob.pc \in {"candidates", "mark", "save", "refuse"}
    BY DEF Step, ParseCandidate, ParseCounts, CommitMark, CommitCount, CommitRefuse
  <2> QED BY <2>1 DEF JobInv, JobOk, JobIs, JobOn, IdleJob, Finished
<1>4. /\ TablesOk' /\ JobOk'
      /\ \A b \in Batches : b # importJob.batch => batches'[b] = batches[b] /\ cands'[b] = cands[b]
  <2> USE DEF JobInv, TablesOk, JobOk, JobIs, JobOn, IdleJob, Step
  <2>1. CASE ParseCandidate
    BY <2>1, <1>3 DEF ParseCandidate
  <2>2. CASE ParseCounts
    BY <2>2, <1>3 DEF ParseCounts
  <2>3. CASE CommitMark
    BY <2>3, <1>3 DEF CommitMark
  <2>4. CASE CommitCount
    BY <2>4, <1>3 DEF CommitCount
  <2>5. CASE \E i : CommitRefuse(i)
    <3>1. JobIs("commit", {"refuse"}, {"op", "pc", "batch", "todo", "refused", "saved"})
      BY <2>5 DEF CommitRefuse
    <3>2. /\ DOMAIN importJob' = DOMAIN importJob /\ importJob'.op = importJob.op
          /\ importJob'.pc = importJob.pc /\ importJob'.batch = importJob.batch
          /\ UNCHANGED batches
      BY <2>5, <3>1 DEF CommitRefuse
    <3>3. DOMAIN cands' = DOMAIN cands /\ \A b \in Batches : b # importJob.batch => cands'[b] = cands[b]
      BY <2>5, <1>3 DEF CommitRefuse
    <3> QED BY <1>3, <3>1, <3>2, <3>3
  <2> QED BY <2>1, <2>2, <2>3, <2>4, <2>5
<1> QED BY <1>1, <1>2, <1>3, <1>4 DEF Careful, JobInv

LEMMA SaveStep ==
    ASSUME JobInv,
           \/ CommitSave \/ PackSave \/ ImportHourPasses
           \/ \E key \in {NoKey}, value \in GoodValues : SaveElsewhere(key, value)
    PROVE  Careful
<1>1. UNCHANGED <<batches, cands>>
  BY DEF CommitSave, PackSave, ImportHourPasses, SaveElsewhere
<1>2. TablesOk'
  BY <1>1 DEF JobInv, TablesOk
<1>3. JobOk'
  <2> USE DEF JobInv, JobOk, JobIs, JobOn, IdleJob, Step
  <2>1. CASE CommitSave
    BY <1>1, <2>1 DEF CommitSave
  <2>2. CASE PackSave
    <3>1. JobIs("pack", {"save"}, {"op", "pc", "run", "pack", "todo", "saved", "failed"})
      BY <2>2 DEF PackSave
    <3>2. DOMAIN importJob' = DOMAIN importJob /\ importJob'.op = importJob.op /\ importJob'.pc = importJob.pc
      BY <2>2, <3>1 DEF PackSave
    <3> QED BY <3>1, <3>2
  <2>3. CASE UNCHANGED importJob
    BY <1>1, <2>3
  <2> QED BY <2>1, <2>2, <2>3 DEF ImportHourPasses, SaveElsewhere
<1>4. \/ UNCHANGED stored
      \/ ImportHourPasses
      \/ \E key, value, from : /\ Insert(key, value, from)
                               /\ from[1] = "batch" => /\ importJob.op = "commit" /\ importJob.pc = "save"
                                                       /\ from[2] = importJob.batch
  <2>1. CASE CommitSave
    <3> DEFINE b == importJob.batch
               i == FirstOf(importJob.todo)
    <3>1. \/ UNCHANGED stored
          \/ Insert(cands[b][i].key, cands[b][i].value, <<"batch", b, i>>)
      BY <2>1 DEF CommitSave
    <3>2. importJob.op = "commit" /\ importJob.pc = "save"
      BY <2>1 DEF CommitSave, Step
    <3>3. <<"batch", b, i>>[2] = b
      OBVIOUS
    <3> QED BY <3>1, <3>2, <3>3
  <2>2. CASE PackSave
    <3> DEFINE item == Head(importJob.todo)
    <3>1. UNCHANGED stored \/ Insert(item.key, item.value, <<"pack", importJob.run>>)
      BY <2>2 DEF PackSave
    <3>2. <<"pack", importJob.run>>[1] # "batch"
      OBVIOUS
    <3> QED BY <3>1, <3>2
  <2>3. CASE \E key \in {NoKey}, value \in GoodValues : SaveElsewhere(key, value)
    <3>1. <<"save">>[1] # "batch"
      OBVIOUS
    <3> QED BY <2>3, <3>1 DEF SaveElsewhere
  <2> QED BY <2>1, <2>2, <2>3
<1>5. /\ StoredOk' /\ StoreGrows
      /\ \A m \in DOMAIN stored' \ DOMAIN stored :
             stored'[m].from[1] = "batch" =>
                 /\ importJob.op = "commit" /\ importJob.pc = "save"
                 /\ stored'[m].from[2] = importJob.batch
  <2>1. CASE UNCHANGED stored
    BY <2>1, StoredStays DEF JobInv
  <2>2. CASE ImportHourPasses
    BY <2>2, HourGrows DEF JobInv
  <2>3. ASSUME NEW key, NEW value, NEW from, Insert(key, value, from),
               from[1] = "batch" => /\ importJob.op = "commit" /\ importJob.pc = "save"
                                    /\ from[2] = importJob.batch
        PROVE  <1>5!1 /\ <1>5!2
    <3>1. StoredOk /\ Insert(key, value, from)
      BY <2>3 DEF JobInv
    <3>2. /\ StoredOk' /\ StoreGrows
          /\ DOMAIN stored' = DOMAIN stored \cup {Len(stored) + 1}
          /\ stored'[Len(stored) + 1] = [key |-> key, value |-> value, recent |-> TRUE, from |-> from]
      BY <3>1, InsertGrows, Zenon
    <3>3. stored'[Len(stored) + 1].from = from
      BY <3>2
    <3> QED BY <2>3, <3>2, <3>3
  <2> QED BY <1>4, <2>1, <2>2, <2>3
<1> QED BY <1>1, <1>2, <1>3, <1>5 DEF Careful, JobInv

LEMMA OtherImportStep ==
    ASSUME JobInv,
           \/ PackSaved \/ LedgerAndBridge \/ BackfillStart \/ StoreError \/ ImportRestart
           \/ (\E pack \in Packs : PackStart(pack))
           \/ (\E m \in DOMAIN stored : BackfillLink(m))
           \/ UNCHANGED importVars
    PROVE  Careful
<1>1. UNCHANGED <<batches, cands, stored>>
  BY DEF PackSaved, LedgerAndBridge, BackfillStart, StoreError, ImportRestart, PackStart,
         BackfillLink, importVars
<1>2. StoredOk' /\ StoreGrows
  BY <1>1, StoredStays DEF JobInv
<1>3. JobOk'
  <2> USE DEF JobInv, JobOk, JobIs, JobOn, IdleJob, Step
  <2>1. CASE PackSaved
    BY <1>1, <2>1 DEF PackSaved
  <2>2. CASE LedgerAndBridge
    BY <1>1, <2>2 DEF LedgerAndBridge
  <2>3. CASE \E pack \in Packs : PackStart(pack)
    BY <1>1, <2>3 DEF PackStart
  <2>4. CASE importJob' \in {IdleJob, importJob}
    BY <1>1, <2>4
  <2> QED BY <2>1, <2>2, <2>3, <2>4 DEF BackfillStart, StoreError, ImportRestart, BackfillLink, importVars
<1> QED BY <1>1, <1>2, <1>3 DEF Careful, JobInv, TablesOk

LEMMA ImportStep == ASSUME JobInv, [ImportNext]_importVars PROVE Careful
BY StatusStep, CandidateStep, SaveStep, OtherImportStep DEF ImportNext, JobStep

\* What is finished stays as it is.
LEMMA CarefulIsFinal ==
    ASSUME JobInv, Careful, NEW b \in Batches, Finished(b)
    PROVE  /\ batches'[b] = batches[b] /\ cands'[b] = cands[b]
           /\ SavedFromBatch(b)' = SavedFromBatch(b)
<1>1. ASSUME NEW m \in DOMAIN stored' \ DOMAIN stored, stored'[m].from[1] = "batch"
      PROVE  stored'[m].from[2] # b
  BY <1>1 DEF Careful, JobInv, JobOk, JobIs, JobOn, IdleJob, Finished
<1>2. SavedFromBatch(b)' = SavedFromBatch(b)
  BY <1>1 DEF Careful, StoreGrows, SavedFromBatch
<1> QED BY <1>2 DEF Careful

\* Whatever is imported, saved elsewhere, interrupted or asked for again: a committed or
\* cancelled batch keeps its status, its totals, its candidates and its memories.
THEOREM FinishedStaysFinal == ImportSpec => FinishedIsFinal
<1>1. ImportInit => JobInv
  BY JobInit
<1>2. JobInv /\ [ImportNext]_importVars => JobInv'
  BY ImportStep DEF Careful
<1>3. JobInv /\ [ImportNext]_importVars =>
          [\A b \in Batches : batches[b].status \in {"committed", "cancelled"} =>
               /\ batches'[b] = batches[b] /\ cands'[b] = cands[b]
               /\ SavedFromBatch(b)' = SavedFromBatch(b)]_importVars
  BY ImportStep, CarefulIsFinal DEF Finished
<1> QED BY <1>1, <1>2, <1>3, PTL DEF ImportSpec, FinishedIsFinal

-----------------------------------------------------------------------------
(* Import: packs.                                                          *)
(*                                                                         *)
(* What a pack still has to do is the end of the pack; every item before   *)
(* it is a memory, refused by the gate, or failed.                         *)

Handled(item, failed) ==
    item.value \in GoodValues /\ item \notin failed =>
        \E m \in DOMAIN stored :
            \/ stored[m].value = item.value
            \/ stored[m].key = item.key /\ item.key # NoKey

\* Items of the pack taken so far.
Taken == Len(importJob.pack) - Len(importJob.todo)

PackGoesOn ==
    /\ Rows(importJob.todo) /\ Len(importJob.todo) <= Len(importJob.pack)
    /\ \A i \in 1..Len(importJob.todo) : importJob.todo[i] = importJob.pack[Taken + i]
    /\ \A i \in 1..Taken : Handled(importJob.pack[i], importJob.failed)

PackOk ==
    importJob.op = "pack" =>
        /\ Rows(importJob.pack)
        /\ importJob.pc = "save" => PackGoesOn
        /\ importJob.pc # "save" =>
               \A i \in DOMAIN importJob.pack : Handled(importJob.pack[i], importJob.failed)

PackInv == JobInv /\ PackOk

LEMMA HandledStays ==
    ASSUME StoreGrows, NEW item, NEW failed, Handled(item, failed), NEW more, failed \subseteq more
    PROVE  Handled(item, more)'
BY DEF Handled, StoreGrows

\* Items of a sequence that is not empty: the first, and the others moved up.
LEMMA RowsTail ==
    ASSUME NEW s, Rows(s), s # <<>>
    PROVE  /\ Rows(Tail(s)) /\ Len(s) \in Nat \ {0} /\ Len(Tail(s)) = Len(s) - 1
           /\ Head(s) = s[1]
           /\ \A i \in 1..Len(Tail(s)) : Tail(s)[i] = s[i + 1]
<1>1. PICK S : s \in Seq(S)
  BY DEF Rows
<1>2. /\ Head(s) \in S /\ Tail(s) \in Seq(S) /\ Len(Tail(s)) = Len(s) - 1
      /\ \A i \in 1..Len(Tail(s)) : Tail(s)[i] = s[i + 1]
  BY <1>1, HeadTailProperties
<1>3. Len(s) \in Nat \ {0} /\ Head(s) = s[1]
  BY <1>1
<1> QED BY <1>2, <1>3 DEF Rows

LEMMA PackStarts == ASSUME NEW pack \in Packs, PackStart(pack) PROVE PackOk'
<1>1. pack \in Seq({pack[i] : i \in DOMAIN pack})
  BY ImportAssumption
<1>2. Rows(pack) /\ Len(pack) \in Nat
  BY <1>1 DEF Rows
<1>3. importJob'.pc = "save" /\ importJob'.pack = pack /\ importJob'.todo = pack
  BY DEF PackStart
<1>4. Taken' = 0
  BY <1>2, <1>3 DEF Taken
<1> QED BY <1>2, <1>3, <1>4 DEF PackOk, PackGoesOn

LEMMA PackSaves == ASSUME PackInv, StoreGrows, PackSave PROVE PackOk'
<1>1. PICK pack, todo, failed, more, item :
          /\ pack = importJob.pack /\ todo = importJob.todo /\ item = Head(todo)
          /\ failed = importJob.failed /\ more = importJob'.failed
  OBVIOUS
<1>2. /\ importJob.op = "pack" /\ importJob.pc = "save" /\ todo # <<>>
      /\ DOMAIN importJob = {"op", "pc", "run", "pack", "todo", "saved", "failed"}
  BY <1>1 DEF PackInv, JobInv, JobOk, JobIs, IdleJob, PackSave, Step
<1>3. Rows(pack) /\ PackGoesOn /\ Len(pack) \in Nat
  BY <1>1, <1>2 DEF PackInv, PackOk, Rows
<1>4. /\ Rows(Tail(todo)) /\ Len(todo) \in Nat \ {0} /\ Len(Tail(todo)) = Len(todo) - 1
      /\ item = todo[1]
      /\ \A i \in 1..Len(Tail(todo)) : Tail(todo)[i] = todo[i + 1]
  BY <1>1, <1>2, <1>3, RowsTail DEF PackGoesOn
<1>5. /\ importJob'.op = "pack" /\ importJob'.pc = "save" /\ importJob'.pack = pack
      /\ importJob'.todo = Tail(todo) /\ failed \subseteq more
      /\ \/ item \in more
         \/ Insert(item.key, item.value, <<"pack", importJob.run>>)
         \/ ~Saves(item.key, item.value)
  BY <1>1, <1>2 DEF PackSave
<1>6. Handled(item, more)'
  <2>1. CASE Insert(item.key, item.value, <<"pack", importJob.run>>)
    <3>1. StoredOk
      BY DEF PackInv, JobInv
    <3>2. /\ DOMAIN stored' = DOMAIN stored \cup {Len(stored) + 1}
          /\ stored'[Len(stored) + 1] = [key |-> item.key, value |-> item.value, recent |-> TRUE,
                                         from |-> <<"pack", importJob.run>>]
      BY <2>1, <3>1, InsertGrows, Zenon
    <3>3. Len(stored) + 1 \in DOMAIN stored' /\ stored'[Len(stored) + 1].value = item.value
      BY <3>2
    <3> QED BY <3>3 DEF Handled
  <2>2. CASE ~Saves(item.key, item.value)
    BY <2>2 DEF Saves, Handled, StoreGrows
  <2>3. CASE item \in more
    BY <2>3 DEF Handled
  <2> QED BY <1>5, <2>1, <2>2, <2>3
<1> DEFINE taken == Len(pack) - Len(todo)
<1>7. /\ Taken = taken /\ taken \in Nat /\ pack[taken + 1] = item
      /\ Taken' = taken + 1
  <2>1. Taken = taken
    BY <1>1 DEF Taken
  <2>2. taken \in Nat /\ Len(pack) - (Len(todo) - 1) = taken + 1
    BY <1>1, <1>3, <1>4 DEF PackGoesOn
  <2>3. Taken' = taken + 1
    BY <1>4, <1>5, <2>2 DEF Taken
  <2>4. todo[1] = pack[Taken + 1]
    BY <1>1, <1>3, <1>4 DEF PackGoesOn
  <2> QED BY <1>4, <2>1, <2>2, <2>3, <2>4
<1>8. \A i \in 1..taken : Handled(pack[i], failed)
  BY <1>1, <1>3, <1>7 DEF PackGoesOn
<1>9. \A i \in 1..taken : Handled(pack[i], more)'
  BY <1>5, <1>8, HandledStays
<1>10. \A i \in 1..(taken + 1) : Handled(pack[i], more)'
  BY <1>6, <1>7, <1>9
<1>11. \A i \in 1..Len(Tail(todo)) : Tail(todo)[i] = pack[taken + 1 + i]
  <2>1. \A i \in 1..Len(todo) : todo[i] = pack[taken + i]
    BY <1>1, <1>3, <1>7 DEF PackGoesOn
  <2> QED BY <2>1, <1>4, <1>7
<1>12. Len(Tail(todo)) <= Len(pack)
  BY <1>1, <1>3, <1>4 DEF PackGoesOn
<1> HIDE DEF taken
<1>13. PackGoesOn'
  BY <1>1, <1>4, <1>5, <1>7, <1>10, <1>11, <1>12 DEF PackGoesOn
<1> QED BY <1>3, <1>5, <1>13 DEF PackOk

\* The pack is through when nothing is left of it.
LEMMA PackEnds == ASSUME PackInv, StoreGrows, PackSaved \/ LedgerAndBridge PROVE PackOk'
<1> SUFFICES ASSUME importJob'.op = "pack" PROVE PackOk'
  BY DEF PackOk
<1>1. PICK pack, failed : pack = importJob.pack /\ failed = importJob.failed
  OBVIOUS
<1>2. /\ importJob.op = "pack" /\ importJob'.pc # "save"
      /\ importJob'.pack = pack /\ importJob'.failed = failed
  <2>1. CASE PackSaved
    BY <1>1, <2>1 DEF PackSaved, Step
  <2>2. CASE LedgerAndBridge
    <3>1. importJob.op \in {"commit", "pack"} /\ importJob.pc = "ledger" /\ importJob # IdleJob
      BY <2>2 DEF LedgerAndBridge, IdleJob
    <3>2. DOMAIN importJob \in {{"op", "pc", "run", "saved"}, {"op", "pc", "run", "saved", "pack", "failed"}}
      BY <3>1 DEF PackInv, JobInv, JobOk, JobIs
    <3>3. importJob' \in {IdleJob, [importJob EXCEPT !.pc = "bridge"]}
      BY <2>2 DEF LedgerAndBridge
    <3>4. importJob' = [importJob EXCEPT !.pc = "bridge"]
      BY <3>3 DEF IdleJob
    <3>5. importJob'.op = importJob.op
      BY <3>2, <3>4
    <3>6. DOMAIN importJob = {"op", "pc", "run", "saved", "pack", "failed"}
      BY <3>1, <3>5 DEF PackInv, JobInv, JobOk, JobIs
    <3> QED BY <1>1, <3>4, <3>5, <3>6
  <2> QED BY <2>1, <2>2
<1>3. Rows(pack) /\ \A i \in DOMAIN pack : Handled(pack[i], failed)
  <2>1. CASE importJob.pc # "save"
    BY <1>1, <1>2, <2>1 DEF PackInv, PackOk
  <2>2. CASE importJob.pc = "save"
    <3>1. importJob.todo = <<>> /\ Rows(pack) /\ PackGoesOn
      BY <1>1, <1>2, <2>2 DEF PackSaved, LedgerAndBridge, PackInv, PackOk
    <3>2. DOMAIN pack = 1..Taken
      BY <1>1, <3>1 DEF Rows, Taken
    <3> QED BY <1>1, <3>1, <3>2 DEF PackGoesOn
  <2> QED BY <2>1, <2>2
<1>4. \A i \in DOMAIN pack : Handled(pack[i], failed)'
  BY <1>3, HandledStays
<1> QED BY <1>2, <1>3, <1>4 DEF PackOk

\* Every other step goes on with the job it found, or leaves no pack.
LEMMA NoPackStep ==
    ASSUME PackInv, [ImportNext]_importVars, ~PackSave, ~PackSaved, ~LedgerAndBridge,
           ~\E pack \in Packs : PackStart(pack)
    PROVE  UNCHANGED importJob \/ importJob'.op # "pack"
<1>1. JobInv
  BY DEF PackInv
<1>2. ASSUME \/ ParseCandidate \/ CommitSave \/ CommitMark \/ CommitCount \/ (\E i : CommitRefuse(i))
      PROVE  importJob'.op # "pack"
  <2>1. importJob.op \in {"parse", "commit"} /\ importJob.pc \in {"candidates", "save", "mark", "refuse"}
    BY <1>2 DEF ParseCandidate, CommitSave, CommitMark, CommitCount, CommitRefuse, Step
  <2>2. "op" \in DOMAIN importJob
    BY <1>1, <2>1 DEF JobInv, JobOk, JobIs, IdleJob
  <2> QED BY <1>2, <2>1, <2>2 DEF ParseCandidate, CommitSave, CommitMark, CommitCount, CommitRefuse
<1>3. ASSUME ParseCounts \/ ParsePreview \/ CommitDone \/ \E content \in Contents : ParseClassified(content)
      PROVE  importJob'.op # "pack"
  BY <1>3 DEF ParseCounts, ParsePreview, CommitDone, ParseClassified, IdleJob
<1>4. ASSUME NEW b \in Batches,
             \/ create_batch(b) \/ cancel_batch(b) \/ ParseStart(b)
             \/ \E chosen \in SUBSET DOMAIN cands[b] : CommitStart(b, chosen)
      PROVE  UNCHANGED importJob \/ importJob'.op # "pack"
  BY <1>4 DEF create_batch, cancel_batch, ParseStart, CommitStart, CommitJob
<1>5. ASSUME \/ \E key \in {NoKey}, value \in GoodValues : SaveElsewhere(key, value)
             \/ \E m \in DOMAIN stored : BackfillLink(m)
             \/ BackfillStart \/ ParseRefuse \/ ImportHourPasses \/ StoreError \/ ImportRestart
             \/ UNCHANGED importVars
      PROVE  UNCHANGED importJob \/ importJob'.op # "pack"
  BY <1>5 DEF SaveElsewhere, BackfillLink, BackfillStart, ParseRefuse, ImportHourPasses, StoreError,
              ImportRestart, IdleJob, importVars
<1> QED BY <1>2, <1>3, <1>4, <1>5 DEF ImportNext, JobStep

LEMMA OtherPackStep ==
    ASSUME PackInv, StoreGrows, UNCHANGED importJob \/ importJob'.op # "pack" PROVE PackOk'
<1> SUFFICES ASSUME UNCHANGED importJob, importJob.op = "pack" PROVE PackOk'
  BY DEF PackOk
<1>1. PICK pack, failed : pack = importJob.pack /\ failed = importJob.failed
  OBVIOUS
<1>2. \A item : Handled(item, failed) => Handled(item, failed)'
  BY HandledStays
<1>3. PackGoesOn => PackGoesOn'
  BY <1>1, <1>2 DEF PackGoesOn, Taken
<1>4. (\A i \in DOMAIN pack : Handled(pack[i], failed)) => \A i \in DOMAIN pack : Handled(pack[i], failed)'
  BY <1>2
<1> QED BY <1>1, <1>3, <1>4 DEF PackInv, PackOk

LEMMA PackStep == ASSUME PackInv, [ImportNext]_importVars PROVE PackInv'
<1>1. JobInv' /\ StoreGrows
  BY ImportStep DEF PackInv, Careful
<1>2. PackOk'
  BY <1>1, PackStarts, PackSaves, PackEnds, NoPackStep, OtherPackStep
<1> QED BY <1>1, <1>2 DEF PackInv

\* For any packs, calls before and beside it, crashes and store errors: an import.pack that
\* has come to its ledger event has lost none of the items it could have saved.
THEOREM PacksLoseNothing == ImportSpec => []PackLosesNothing
<1>1. ImportInit => PackInv
  BY JobInit DEF ImportInit, PackInv, PackOk, IdleJob
<1>2. PackInv /\ [ImportNext]_importVars => PackInv'
  BY PackStep
<1>3. PackInv => PackLosesNothing
  BY DEF PackInv, PackOk, PackLosesNothing, Handled
<1> QED BY <1>1, <1>2, <1>3, PTL DEF ImportSpec

-----------------------------------------------------------------------------
(* Import: what adds up.                                                   *)
(*                                                                         *)
(* A batch that is parsed shows the candidates of one content; a commit    *)
(* has linked every memory it saved to a candidate, but for the one it is  *)
(* about to mark, and counts what it has marked.                           *)

MemoriesOf(b) == {cands[b][i].memory : i \in CommittedOf(b)}

Shown(b) ==
    /\ \E c \in Contents :
           /\ Len(cands[b]) = Len(c)
           /\ \A i \in DOMAIN c : cands[b][i].value = c[i].value /\ cands[b][i].class = c[i].class
    /\ batches[b].totals.raw = Len(cands[b])
    /\ batches[b].totals.raw = batches[b].totals.ready + batches[b].totals.needs_review
                                 + batches[b].totals.quarantined

Balanced(b) ==
    /\ MemoriesOf(b) = SavedFromBatch(b)
    /\ batches[b].totals.committed = Cardinality(CommittedOf(b))

RowsOk(b) ==
    /\ Rows(cands[b])
    /\ \A i \in DOMAIN cands[b] : DOMAIN cands[b][i] = {"key", "value", "class", "status", "memory"}
    /\ DOMAIN batches[b].totals = {"raw", "ready", "needs_review", "quarantined", "committed"}

\* Before its commit a batch has neither memories nor committed candidates.
Early(b) ==
    /\ batches[b].status \in {"none", "created", "parsing", "classified", "preview_ready"} =>
           SavedFromBatch(b) = {} /\ CommittedOf(b) = {} /\ batches[b].totals.committed = 0
    /\ batches[b].status \in {"none", "created", "parsing"} => cands[b] = <<>>

\* A committed candidate names the memory saved from it.
Linked(b) ==
    \A i \in CommittedOf(b) : /\ cands[b][i].memory \in DOMAIN stored
                              /\ stored[cands[b][i].memory].from = <<"batch", b, i>>

BatchOk(b) ==
    /\ RowsOk(b) /\ Early(b) /\ Linked(b)
    /\ batches[b].status = "preview_ready" => Shown(b)
    /\ batches[b].status = "committed" => Balanced(b)

ParseJobOk ==
    /\ importJob.op = "parse" /\ importJob.pc = "candidates" =>
           LET content == importJob.content
               made == importJob.made
               rows == cands[importJob.batch]
           IN  /\ content \in Contents /\ made \in 0..Len(content) /\ Len(rows) = made
               /\ \A i \in 1..made : rows[i].value = content[i].value /\ rows[i].class = content[i].class
    /\ importJob.op = "parse" /\ importJob.pc = "preview" => Shown(importJob.batch)

CommitJobOk ==
    importJob.op = "commit" /\ importJob.pc \in {"save", "mark", "refuse"} =>
        LET b == importJob.batch IN
        /\ importJob.todo \cup importJob.refused \subseteq ReadyOf(b)
        /\ importJob.todo \cap importJob.refused = {}
        /\ Rows(importJob.saved) /\ Len(importJob.saved) = Cardinality(CommittedOf(b))
        /\ importJob.pc = "save" => SavedFromBatch(b) = MemoriesOf(b) /\ batches[b].totals.committed = 0
        /\ importJob.pc = "mark" =>
               /\ importJob.todo # {} /\ batches[b].totals.committed = 0
               /\ \E m \in DOMAIN stored : /\ stored[m].from = <<"batch", b, FirstOf(importJob.todo)>>
                                           /\ SavedFromBatch(b) = MemoriesOf(b) \cup {m}
        /\ importJob.pc = "refuse" => Balanced(b)

AddInv == JobInv /\ ParseJobOk /\ CommitJobOk /\ \A b \in Batches : BatchOk(b)

\* The numbers of one committed batch follow from its links, which are one to one.
LEMMA LinkedCounts ==
    ASSUME NEW b \in Batches, BatchOk(b), MemoriesOf(b) = SavedFromBatch(b)
    PROVE  /\ IsFiniteSet(CommittedOf(b))
           /\ Cardinality(CommittedOf(b)) = Cardinality(SavedFromBatch(b))
<1> DEFINE f == [i \in CommittedOf(b) |-> cands[b][i].memory]
<1>1. IsFiniteSet(CommittedOf(b))
  <2>1. DOMAIN cands[b] = 1..Len(cands[b]) /\ Len(cands[b]) \in Nat
    BY DEF BatchOk, RowsOk, Rows
  <2>2. PICK n \in Int : n = Len(cands[b])
    BY <2>1
  <2>4. 1 \in Int /\ IsFiniteSet(1..n)
    BY FS_Interval
  <2>5. IsFiniteSet(DOMAIN cands[b])
    BY <2>1, <2>2, <2>4
  <2>3. CommittedOf(b) \in SUBSET DOMAIN cands[b]
    BY DEF CommittedOf
  <2> QED BY <2>5, <2>3, FS_Subset
<1>2. \A i, j \in CommittedOf(b) : f[i] = f[j] => i = j
  <2>1. \A i, j \in CommittedOf(b) : <<"batch", b, i>> = <<"batch", b, j>> => i = j
    OBVIOUS
  <2> QED BY <2>1 DEF BatchOk, Linked
<1>3. f \in [CommittedOf(b) -> SavedFromBatch(b)] /\ \A m \in SavedFromBatch(b) : \E i \in CommittedOf(b) : f[i] = m
  BY DEF MemoriesOf
<1>4. f \in Bijection(CommittedOf(b), SavedFromBatch(b))
  BY <1>2, <1>3 DEF Bijection, Injection, Surjection, IsInjective
<1>5. ExistsBijection(CommittedOf(b), SavedFromBatch(b))
  BY <1>4 DEF ExistsBijection
<1> QED BY <1>1, <1>5, FS_Bijection

LEMMA AddInvAddsUp == AddInv => BatchesAddUp
<1> SUFFICES ASSUME AddInv, NEW b \in Batches
             PROVE  /\ batches[b].status = "committed" =>
                           /\ {cands[b][i].memory : i \in CommittedOf(b)} = SavedFromBatch(b)
                           /\ batches[b].totals.committed = Cardinality(SavedFromBatch(b))
                           /\ Cardinality(CommittedOf(b)) = Cardinality(SavedFromBatch(b))
                    /\ batches[b].status = "preview_ready" =>
                           /\ [i \in DOMAIN cands[b] |-> [value |-> cands[b][i].value, class |-> cands[b][i].class]]
                                 \in {[i \in DOMAIN c |-> [value |-> c[i].value, class |-> c[i].class]] : c \in Contents}
                           /\ batches[b].totals.raw = batches[b].totals.ready + batches[b].totals.needs_review
                                                        + batches[b].totals.quarantined
                           /\ batches[b].totals.raw = Len(cands[b])
  BY DEF BatchesAddUp, CommittedAddsUp, PreviewTrue
<1>1. BatchOk(b)
  BY DEF AddInv
<1>2. CASE batches[b].status = "committed"
  BY <1>1, <1>2, LinkedCounts DEF BatchOk, Balanced, MemoriesOf
<1>3. CASE batches[b].status = "preview_ready"
  <2>1. PICK c \in Contents :
            /\ Len(cands[b]) = Len(c)
            /\ \A i \in DOMAIN c : cands[b][i].value = c[i].value /\ cands[b][i].class = c[i].class
    BY <1>1, <1>3 DEF BatchOk, Shown
  <2>2. DOMAIN c = 1..Len(c)
    BY ImportAssumption
  <2>3. DOMAIN cands[b] = DOMAIN c
    BY <1>1, <2>1, <2>2 DEF BatchOk, RowsOk, Rows
  <2>4. [i \in DOMAIN cands[b] |-> [value |-> cands[b][i].value, class |-> cands[b][i].class]]
            = [i \in DOMAIN c |-> [value |-> c[i].value, class |-> c[i].class]]
    BY <2>1, <2>3
  <2> QED BY <1>1, <1>3, <2>4 DEF BatchOk, Shown
<1> QED BY <1>2, <1>3

LEMMA AddInit == ImportInit => AddInv
<1> SUFFICES ASSUME ImportInit PROVE AddInv
  OBVIOUS
<1>1. \A b \in Batches : /\ batches[b].status = "none" /\ batches[b].totals = NoTotals
                         /\ cands[b] = <<>> /\ SavedFromBatch(b) = {} /\ CommittedOf(b) = {}
  BY DEF ImportInit, SavedFromBatch, CommittedOf
<1>2. ASSUME NEW b \in Batches PROVE BatchOk(b)
  <2>1. Rows(<<>>)
    BY DEF Rows
  <2>2. RowsOk(b)
    BY <1>1, <2>1 DEF RowsOk, NoTotals
  <2> QED BY <1>1, <2>2 DEF BatchOk, Early, Linked, NoTotals
<1>3. importJob = IdleJob
  BY DEF ImportInit
<1> QED BY <1>2, <1>3, JobInit DEF AddInv, ParseJobOk, CommitJobOk, IdleJob

-----------------------------------------------------------------------------
(* Import: steps that do not concern a batch.                              *)

Same(b) ==
    /\ batches'[b] = batches[b] /\ cands'[b] = cands[b]
    /\ SavedFromBatch(b)' = SavedFromBatch(b)

LEMMA SavedSame ==
    ASSUME Careful, NEW b \in Batches,
           importJob.op = "commit" /\ importJob.pc = "save" => importJob.batch # b
    PROVE  SavedFromBatch(b)' = SavedFromBatch(b)
BY DEF Careful, StoreGrows, SavedFromBatch

LEMMA BatchFrame ==
    ASSUME NEW b \in Batches, BatchOk(b), StoreGrows, Same(b)
    PROVE  BatchOk(b)'
<1>1. CommittedOf(b)' = CommittedOf(b) /\ MemoriesOf(b)' = MemoriesOf(b)
  BY DEF Same, CommittedOf, MemoriesOf
<1>2. Linked(b)'
  BY <1>1 DEF BatchOk, Linked, Same, StoreGrows
<1>3. RowsOk(b)' /\ Early(b)'
  BY <1>1 DEF BatchOk, RowsOk, Early, Same
<1>4. (Shown(b) => Shown(b)') /\ (Balanced(b) => Balanced(b)')
  BY <1>1 DEF Shown, Balanced, Same
<1> QED BY <1>2, <1>3, <1>4 DEF BatchOk, Same

LEMMA JobFrame ==
    ASSUME ParseJobOk, CommitJobOk, StoreGrows, UNCHANGED importJob, Same(importJob.batch)
    PROVE  ParseJobOk' /\ CommitJobOk'
<1> DEFINE b == importJob.batch
<1>1. /\ CommittedOf(b)' = CommittedOf(b) /\ MemoriesOf(b)' = MemoriesOf(b) /\ ReadyOf(b)' = ReadyOf(b)
      /\ SavedFromBatch(b)' = SavedFromBatch(b)
  BY DEF Same, CommittedOf, MemoriesOf, ReadyOf
<1>2. (Shown(b) => Shown(b)') /\ (Balanced(b) => Balanced(b)')
  BY <1>1 DEF Shown, Balanced, Same
<1>3. ParseJobOk'
  BY <1>2 DEF ParseJobOk, Same
<1>4. CommitJobOk'
  BY <1>1, <1>2 DEF CommitJobOk, Same, StoreGrows
<1> QED BY <1>3, <1>4

\* Batches other than the one a step is about.
LEMMA OthersFrame ==
    ASSUME AddInv, Careful, NEW x,
           \A b \in Batches : b # x => batches'[b] = batches[b] /\ cands'[b] = cands[b],
           importJob.op = "commit" /\ importJob.pc = "save" => importJob.batch = x
    PROVE  \A b \in Batches : b # x => Same(b) /\ BatchOk(b)'
<1> TAKE b \in Batches
<1> HAVE b # x
<1>1. SavedFromBatch(b)' = SavedFromBatch(b)
  BY SavedSame
<1>2. Same(b)
  BY <1>1 DEF Same
<1> QED BY <1>2, BatchFrame DEF AddInv, Careful

NoBatchJob == importJob'.op \notin {"parse", "commit"} \/ importJob'.pc \in {"content", "ledger", "bridge"}

LEMMA NoJobLeft == ASSUME NoBatchJob PROVE ParseJobOk' /\ CommitJobOk'
BY DEF NoBatchJob, ParseJobOk, CommitJobOk

\* The steps that change only the status of a batch that waits.
LEMMA WaitingStatus ==
    ASSUME AddInv, Careful, NEW b \in Batches, create_batch(b) \/ cancel_batch(b) \/ ParseStart(b)
    PROVE  AddInv'
<1>1. /\ importJob = IdleJob /\ UNCHANGED <<cands, stored>>
      /\ \E s : /\ batches' = [batches EXCEPT ![b].status = s]
                /\ \/ s \in {"created", "cancelled"}
                   \/ s = "parsing" /\ batches[b].status = "created"
                /\ s = "created" => batches[b].status = "none"
      /\ NoBatchJob
  BY DEF create_batch, cancel_batch, ParseStart, SetStatus, NoBatchJob, IdleJob
<1>2. JobInv /\ JobInv'
  BY DEF AddInv, Careful
<1>3. importJob.op = "idle"
  BY <1>1 DEF IdleJob
<1>4. \A x \in Batches : x # b => BatchOk(x)'
  BY <1>1, <1>3, OthersFrame
<1>5. /\ batches'[b].totals = batches[b].totals /\ cands'[b] = cands[b]
      /\ \/ batches'[b].status \in {"created", "cancelled"}
         \/ batches'[b].status = "parsing" /\ batches[b].status = "created"
      /\ batches'[b].status = "created" => batches[b].status = "none"
  BY <1>1, <1>2 DEF JobInv, TablesOk
<1>6. /\ SavedFromBatch(b)' = SavedFromBatch(b) /\ CommittedOf(b)' = CommittedOf(b)
  BY <1>1, <1>3, SavedSame DEF CommittedOf
<1>7. BatchOk(b)
  BY DEF AddInv
<1>8. RowsOk(b)' /\ Early(b)' /\ Linked(b)'
  BY <1>1, <1>5, <1>6, <1>7 DEF BatchOk, RowsOk, Early, Linked
<1>9. BatchOk(b)'
  BY <1>5, <1>8 DEF BatchOk
<1> QED BY <1>1, <1>2, <1>4, <1>9, NoJobLeft DEF AddInv

LEMMA ClassifiedAdds ==
    ASSUME AddInv, Careful, NEW content \in Contents, ParseClassified(content)
    PROVE  AddInv'
<1>0. PICK b : b = importJob.batch
  OBVIOUS
<1>1. /\ b \in Batches /\ batches[b].status = "parsing" /\ importJob.op = "parse"
      /\ UNCHANGED <<cands, stored>> /\ batches' = [batches EXCEPT ![b].status = "classified"]
  BY <1>0 DEF ParseClassified, Step, SetStatus, AddInv, JobInv, JobOk, JobIs, JobOn, IdleJob
<1>2. importJob' = [op |-> "parse", pc |-> "candidates", batch |-> b, content |-> content, made |-> 0]
  BY <1>0 DEF ParseClassified
<1>3. \A x \in Batches : x # b => BatchOk(x)'
  BY <1>1, OthersFrame
<1>4. batches'[b].totals = batches[b].totals /\ batches'[b].status = "classified" /\ cands'[b] = cands[b]
  BY <1>1 DEF AddInv, JobInv, TablesOk
<1>5. SavedFromBatch(b)' = SavedFromBatch(b) /\ CommittedOf(b)' = CommittedOf(b)
  BY <1>1, SavedSame DEF CommittedOf
<1>6. BatchOk(b) /\ cands[b] = <<>>
  BY <1>1 DEF AddInv, BatchOk, Early
<1>7. RowsOk(b)' /\ Early(b)' /\ Linked(b)'
  BY <1>1, <1>4, <1>5, <1>6 DEF BatchOk, RowsOk, Early, Linked
<1>8. BatchOk(b)'
  BY <1>4, <1>7 DEF BatchOk
<1>9. \A x \in Batches : BatchOk(x)'
  BY <1>3, <1>8
<1>10. content \in Seq({content[i] : i \in DOMAIN content})
  BY ImportAssumption
<1>11. Len(content) \in Nat /\ Len(cands'[b]) = 0
  BY <1>4, <1>6, <1>10
<1>12. importJob'.batch = b /\ importJob'.content = content /\ importJob'.made = 0 /\ importJob'.op = "parse"
       /\ importJob'.pc = "candidates"
  BY <1>2
<1>13. ParseJobOk' /\ CommitJobOk'
  BY <1>11, <1>12 DEF ParseJobOk, CommitJobOk
<1> QED BY <1>9, <1>13 DEF AddInv, Careful

LEMMA CandidateAdds == ASSUME AddInv, Careful, ParseCandidate PROVE AddInv'
<1>1. PICK b, content, made : b = importJob.batch /\ content = importJob.content /\ made = importJob.made
  OBVIOUS
<1>2. /\ importJob.op = "parse" /\ importJob.pc = "candidates" /\ UNCHANGED <<batches, stored>>
      /\ b \in Batches /\ batches[b].status = "classified"
      /\ DOMAIN importJob = {"op", "pc", "batch", "content", "made"}
  BY <1>1 DEF ParseCandidate, Step, AddInv, JobInv, JobOk, JobIs, JobOn, IdleJob
<1>3. PICK row : /\ cands' = [cands EXCEPT ![b] = Append(cands[b], row)]
                 /\ DOMAIN row = {"key", "value", "class", "status", "memory"}
                 /\ row.value = content[made + 1].value /\ row.class = content[made + 1].class
                 /\ row.status = content[made + 1].class
  <2> DEFINE item == content[made + 1]
             new == [key |-> CandidateKey(b, Len(cands[b]) + 1, item), value |-> item.value,
                     class |-> item.class, status |-> item.class, memory |-> NoMemory]
  <2>1. cands' = [cands EXCEPT ![b] = Append(cands[b], new)]
    BY <1>1 DEF ParseCandidate
  <2>2. /\ DOMAIN new = {"key", "value", "class", "status", "memory"}
        /\ new.value = item.value /\ new.class = item.class /\ new.status = item.class
    OBVIOUS
  <2> HIDE DEF new
  <2> QED BY <2>1, <2>2
<1>4. importJob' = [importJob EXCEPT !.made = made + 1] /\ made < Len(content)
  BY <1>1 DEF ParseCandidate
<1>5. /\ content \in Contents /\ made \in 0..Len(content) /\ Len(cands[b]) = made
      /\ \A i \in 1..made : cands[b][i].value = content[i].value /\ cands[b][i].class = content[i].class
  BY <1>1, <1>2 DEF AddInv, ParseJobOk
<1>6. content \in Seq({content[i] : i \in DOMAIN content}) /\ \A i \in DOMAIN content : content[i].class \in Classes
  BY <1>5, ImportAssumption
<1>7. row.status # "committed"
  <2>1. made + 1 \in DOMAIN content
    BY <1>4, <1>5, <1>6
  <2>2. row.status \in Classes
    BY <1>3, <1>6, <2>1
  <2> QED BY <2>2 DEF Classes
<1>8. cands'[b] = Append(cands[b], row) /\ \A x \in Batches : x # b => cands'[x] = cands[x]
  BY <1>2, <1>3 DEF AddInv, JobInv, TablesOk
<1>9. \A x \in Batches : x # b => BatchOk(x)'
  BY <1>2, <1>8, OthersFrame
<1>10. BatchOk(b) /\ RowsOk(b)
  BY <1>2 DEF AddInv, BatchOk
<1>11. /\ Rows(cands'[b]) /\ DOMAIN cands[b] = 1..made
       /\ DOMAIN cands'[b] = DOMAIN cands[b] \cup {made + 1}
       /\ \A i \in DOMAIN cands[b] : cands'[b][i] = cands[b][i]
       /\ cands'[b][made + 1] = row /\ Len(cands'[b]) = made + 1
  BY <1>5, <1>8, <1>10, RowsAppend DEF RowsOk
<1>12. RowsOk(b)'
  BY <1>2, <1>3, <1>10, <1>11 DEF RowsOk
<1>13. CommittedOf(b)' = CommittedOf(b) /\ CommittedOf(b) = {} /\ SavedFromBatch(b)' = SavedFromBatch(b)
  <2>1. CommittedOf(b) = {}
    BY <1>2, <1>10 DEF BatchOk, Early
  <2>2. \A i \in DOMAIN cands'[b] : cands'[b][i].status # "committed"
    BY <1>7, <1>11, <2>1 DEF CommittedOf
  <2>3. SavedFromBatch(b)' = SavedFromBatch(b)
    BY <1>2, SavedSame
  <2> QED BY <2>1, <2>2, <2>3 DEF CommittedOf
<1>14. Early(b)' /\ Linked(b)'
  BY <1>2, <1>10, <1>13 DEF BatchOk, Early, Linked
<1>15. BatchOk(b)'
  BY <1>2, <1>12, <1>14 DEF BatchOk
<1>16. /\ importJob'.op = "parse" /\ importJob'.pc = "candidates" /\ importJob'.batch = b
       /\ importJob'.content = content /\ importJob'.made = made + 1
  BY <1>1, <1>2, <1>4
<1>17. made + 1 \in 0..Len(content)
  BY <1>4, <1>5, <1>6
<1>18. \A i \in 1..(made + 1) : cands'[b][i].value = content[i].value /\ cands'[b][i].class = content[i].class
  BY <1>3, <1>5, <1>11
<1>19. ParseJobOk' /\ CommitJobOk'
  BY <1>5, <1>11, <1>16, <1>17, <1>18 DEF ParseJobOk, CommitJobOk
<1> QED BY <1>9, <1>15, <1>19 DEF AddInv, Careful

\* Every item of a content counts once.
LEMMA TotalsAdd ==
    ASSUME NEW c \in Contents
    PROVE  /\ ParseTotals(c).raw = Len(c)
           /\ ParseTotals(c).raw = ParseTotals(c).ready + ParseTotals(c).needs_review
                                     + ParseTotals(c).quarantined
<1> DEFINE In(classes) == {i \in DOMAIN c : c[i].class \in classes}
           A == In({"ready"})
           B == In({"needs_review"})
           Q == In(Classes \ {"ready", "needs_review"})
<1>1. /\ c \in Seq({c[i] : i \in DOMAIN c}) /\ \A i \in DOMAIN c : c[i].class \in Classes
  BY ImportAssumption
<1>2. PICK n \in Nat : n = Len(c) /\ DOMAIN c = 1..n
  BY <1>1
<1>3. IsFiniteSet(1..n) /\ Cardinality(1..n) = n
  <2>1. 1 \in Int /\ n \in Int
    OBVIOUS
  <2>2. IsFiniteSet(1..n) /\ Cardinality(1..n) = IF 1 > n THEN 0 ELSE n - 1 + 1
    BY <2>1, FS_Interval, Zenon
  <2> QED BY <2>2
<1>4. A \in SUBSET (1..n) /\ B \in SUBSET (1..n) /\ Q \in SUBSET (1..n)
  BY <1>2
<1>5. IsFiniteSet(A) /\ IsFiniteSet(B) /\ IsFiniteSet(Q)
  BY <1>3, <1>4, FS_Subset
<1>6. (A \cup B) \cup Q = 1..n /\ A \cap B = {} /\ (A \cup B) \cap Q = {}
  BY <1>1, <1>2 DEF Classes
<1> HIDE DEF A, B, Q
<1>7. /\ IsFiniteSet(A \cup B)
      /\ Cardinality(A \cup B) = Cardinality(A) + Cardinality(B) - Cardinality(A \cap B)
  BY <1>5, FS_Union
<1>8. Cardinality((A \cup B) \cup Q)
          = Cardinality(A \cup B) + Cardinality(Q) - Cardinality((A \cup B) \cap Q)
  BY <1>5, <1>7, FS_Union
<1>9. Cardinality({}) = 0
  BY FS_EmptySet
<1>10. Cardinality(A) \in Nat /\ Cardinality(B) \in Nat /\ Cardinality(Q) \in Nat
  BY <1>5, FS_CardinalityType
<1>11. n = Cardinality(A) + Cardinality(B) + Cardinality(Q)
  <2> DEFINE a == Cardinality(A)
             bb == Cardinality(B)
             q == Cardinality(Q)
  <2>1. Cardinality(A \cup B) = a + bb - 0
    BY <1>6, <1>7, <1>9
  <2>2. n = Cardinality(A \cup B) + q - 0
    BY <1>3, <1>6, <1>8, <1>9
  <2>3. a \in Nat /\ bb \in Nat /\ q \in Nat
    BY <1>10
  <2> HIDE DEF a, bb, q
  <2>4. n = a + bb + q
    BY <2>1, <2>2, <2>3
  <2> QED BY <2>4 DEF a, bb, q
<1>12. /\ ParseTotals(c).raw = n /\ ParseTotals(c).ready = Cardinality(A)
       /\ ParseTotals(c).needs_review = Cardinality(B) /\ ParseTotals(c).quarantined = Cardinality(Q)
  BY <1>2 DEF ParseTotals, CountClass, A, B, Q
<1> QED BY <1>2, <1>11, <1>12

LEMMA CountsAdd == ASSUME AddInv, Careful, ParseCounts PROVE AddInv'
<1>1. PICK b, content, n : /\ b = importJob.batch /\ content = importJob.content
                           /\ n = batches[b].totals.committed
  OBVIOUS
<1>2. /\ importJob.op = "parse" /\ importJob.pc = "candidates" /\ UNCHANGED <<cands, stored>>
      /\ b \in Batches /\ batches[b].status = "classified" /\ importJob.made = Len(content)
  BY <1>1 DEF ParseCounts, Step, AddInv, JobInv, JobOk, JobIs, JobOn, IdleJob
<1>3. /\ batches' = [batches EXCEPT ![b].totals = [ParseTotals(content) EXCEPT !.committed = n]]
      /\ importJob' = [op |-> "parse", pc |-> "preview", batch |-> b]
  BY <1>1 DEF ParseCounts
<1>4. /\ content \in Contents /\ Len(cands[b]) = Len(content)
      /\ \A i \in 1..Len(content) : cands[b][i].value = content[i].value /\ cands[b][i].class = content[i].class
  BY <1>1, <1>2 DEF AddInv, ParseJobOk
<1>5. DOMAIN content = 1..Len(content)
  BY <1>4, ImportAssumption
<1>6. \A x \in Batches : x # b => BatchOk(x)'
  BY <1>2, <1>3, OthersFrame DEF AddInv, JobInv, TablesOk
<1>7. /\ batches'[b].status = "classified" /\ cands'[b] = cands[b]
      /\ batches'[b].totals = [ParseTotals(content) EXCEPT !.committed = n]
  BY <1>2, <1>3 DEF AddInv, JobInv, TablesOk
<1>8. /\ batches'[b].totals.raw = ParseTotals(content).raw
      /\ batches'[b].totals.ready = ParseTotals(content).ready
      /\ batches'[b].totals.needs_review = ParseTotals(content).needs_review
      /\ batches'[b].totals.quarantined = ParseTotals(content).quarantined
      /\ batches'[b].totals.committed = n
      /\ DOMAIN batches'[b].totals = {"raw", "ready", "needs_review", "quarantined", "committed"}
  BY <1>7 DEF ParseTotals
<1>9. Shown(b)'
  BY <1>4, <1>5, <1>7, <1>8, TotalsAdd DEF Shown
<1>10. BatchOk(b) /\ SavedFromBatch(b)' = SavedFromBatch(b) /\ CommittedOf(b)' = CommittedOf(b)
  BY <1>2, <1>7, SavedSame DEF AddInv, CommittedOf
<1>11. RowsOk(b)' /\ Early(b)' /\ Linked(b)'
  <2>1. RowsOk(b)'
    BY <1>7, <1>8, <1>10 DEF BatchOk, RowsOk
  <2>2. Early(b)'
    BY <1>1, <1>2, <1>7, <1>8, <1>10 DEF BatchOk, Early
  <2>3. Linked(b)'
    BY <1>2, <1>7, <1>10 DEF BatchOk, Linked
  <2> QED BY <2>1, <2>2, <2>3
<1>12. BatchOk(b)'
  BY <1>7, <1>11 DEF BatchOk
<1>13. importJob'.op = "parse" /\ importJob'.pc = "preview" /\ importJob'.batch = b
  BY <1>3
<1>14. ParseJobOk' /\ CommitJobOk'
  BY <1>9, <1>13 DEF ParseJobOk, CommitJobOk
<1> QED BY <1>6, <1>12, <1>14 DEF AddInv, Careful

LEMMA PreviewAdds == ASSUME AddInv, Careful, ParsePreview PROVE AddInv'
<1>1. PICK b : b = importJob.batch
  OBVIOUS
<1>2. /\ importJob.op = "parse" /\ importJob.pc = "preview" /\ UNCHANGED <<cands, stored>>
      /\ b \in Batches /\ batches[b].status = "classified"
      /\ batches' = [batches EXCEPT ![b].status = "preview_ready"] /\ importJob' = IdleJob
  BY <1>1 DEF ParsePreview, Step, SetStatus, AddInv, JobInv, JobOk, JobIs, JobOn, IdleJob
<1>3. \A x \in Batches : x # b => BatchOk(x)'
  BY <1>2, OthersFrame DEF AddInv, JobInv, TablesOk
<1>4. /\ batches'[b].status = "preview_ready" /\ cands'[b] = cands[b]
      /\ batches'[b].totals = batches[b].totals
  BY <1>2 DEF AddInv, JobInv, TablesOk
<1>5. Shown(b)'
  BY <1>1, <1>2, <1>4 DEF AddInv, ParseJobOk, Shown
<1>6. BatchOk(b) /\ SavedFromBatch(b)' = SavedFromBatch(b) /\ CommittedOf(b)' = CommittedOf(b)
  BY <1>2, <1>4, SavedSame DEF AddInv, CommittedOf
<1>7. RowsOk(b)' /\ Early(b)' /\ Linked(b)'
  BY <1>2, <1>4, <1>6 DEF BatchOk, RowsOk, Early, Linked
<1>8. BatchOk(b)'
  BY <1>4, <1>5, <1>7 DEF BatchOk
<1>9. NoBatchJob
  BY <1>2 DEF NoBatchJob, IdleJob
<1> QED BY <1>3, <1>8, <1>9, NoJobLeft DEF AddInv, Careful

LEMMA CommitStarts ==
    ASSUME AddInv, Careful, NEW b \in Batches, NEW chosen \in SUBSET DOMAIN cands[b], CommitStart(b, chosen)
    PROVE  AddInv'
<1>1. /\ importJob = IdleJob /\ UNCHANGED <<cands, stored>>
      /\ batches[b].status \in {"preview_ready", "classified"}
      /\ batches' = [batches EXCEPT ![b].status = "commit_requested"]
      /\ importJob' = CommitJob(b, chosen)
  BY DEF CommitStart, SetStatus
<1>2. importJob.op = "idle"
  BY <1>1 DEF IdleJob
<1>3. \A x \in Batches : x # b => BatchOk(x)'
  BY <1>1, <1>2, OthersFrame DEF AddInv, JobInv, TablesOk
<1>4. /\ batches'[b].status = "commit_requested" /\ cands'[b] = cands[b]
      /\ batches'[b].totals = batches[b].totals
  BY <1>1 DEF AddInv, JobInv, TablesOk
<1>5. /\ SavedFromBatch(b)' = {} /\ CommittedOf(b)' = {} /\ batches'[b].totals.committed = 0
      /\ BatchOk(b)
  BY <1>1, <1>2, <1>4, SavedSame DEF AddInv, BatchOk, Early, CommittedOf
<1>6. RowsOk(b)' /\ Early(b)' /\ Linked(b)'
  BY <1>4, <1>5 DEF BatchOk, RowsOk, Early, Linked
<1>7. BatchOk(b)'
  BY <1>4, <1>6 DEF BatchOk
<1>8. PICK todo, refused : /\ todo = ReadyOf(b) \cap chosen /\ refused = ReadyOf(b) \ chosen
                           /\ importJob' = [op |-> "commit", pc |-> "save", batch |-> b, todo |-> todo,
                                            refused |-> refused, saved |-> <<>>]
  BY <1>1 DEF CommitJob
<1>9. ReadyOf(b)' = ReadyOf(b) /\ MemoriesOf(b)' = {}
  BY <1>4, <1>5 DEF ReadyOf, MemoriesOf
<1>10. Rows(<<>>) /\ Len(<<>>) = 0 /\ Cardinality({}) = 0
  BY FS_EmptySet DEF Rows
<1>11. CommitJobOk'
  BY <1>5, <1>8, <1>9, <1>10 DEF CommitJobOk
<1>12. ParseJobOk'
  BY <1>8 DEF ParseJobOk
<1> QED BY <1>3, <1>7, <1>11, <1>12 DEF AddInv, Careful

-----------------------------------------------------------------------------
(* Import: the steps of a commit.                                          *)

\* The least of a set of positions.
LEMMA FirstIsIn == ASSUME NEW todo \in SUBSET Nat, todo # {} PROVE FirstOf(todo) \in todo
<1>1. PICK i \in todo : \A j \in todo : ~ (<<j, i>> \in OpToRel(<, Nat))
  BY NatLessThanWellFounded, WFMin
<1>2. ASSUME NEW j \in todo PROVE i <= j
  <2>1. <<j, i>> \in Nat \X Nat /\ <<j, i>>[1] = j /\ <<j, i>>[2] = i
    OBVIOUS
  <2>2. ~ (j < i)
    BY <1>1, <2>1 DEF OpToRel
  <2> QED BY <2>2
<1> QED BY <1>2 DEF FirstOf

\* What a commit has at hand.
LEMMA AtCommit ==
    ASSUME AddInv, importJob.op = "commit", importJob.pc \in {"save", "mark", "refuse"}
    PROVE  LET b == importJob.batch
           IN  /\ b \in Batches /\ batches[b].status = "commit_requested" /\ BatchOk(b)
               /\ DOMAIN importJob = {"op", "pc", "batch", "todo", "refused", "saved"}
               /\ DOMAIN cands = Batches /\ DOMAIN batches = Batches
               /\ DOMAIN batches[b] = {"status", "totals"}
               /\ importJob.todo \cup importJob.refused \subseteq ReadyOf(b)
               /\ importJob.todo \cap importJob.refused = {}
               /\ Rows(importJob.saved) /\ Len(importJob.saved) = Cardinality(CommittedOf(b))
BY DEF AddInv, JobInv, TablesOk, JobOk, JobIs, JobOn, IdleJob, CommitJobOk

LEMMA CommitSaves == ASSUME AddInv, Careful, CommitSave PROVE AddInv'
<1>1. PICK b, todo, refused, saves, i : /\ b = importJob.batch /\ todo = importJob.todo
                                        /\ refused = importJob.refused /\ saves = importJob.saved
                                        /\ i = FirstOf(todo)
  OBVIOUS
<1>2. importJob.op = "commit" /\ importJob.pc = "save" /\ UNCHANGED <<batches, cands>> /\ todo # {}
  BY <1>1 DEF CommitSave, Step
<1>3. /\ b \in Batches /\ batches[b].status = "commit_requested" /\ BatchOk(b)
      /\ DOMAIN importJob = {"op", "pc", "batch", "todo", "refused", "saved"}
      /\ todo \cup refused \subseteq ReadyOf(b) /\ todo \cap refused = {}
      /\ Rows(saves) /\ Len(saves) = Cardinality(CommittedOf(b))
  BY <1>1, <1>2, AtCommit
<1>4. SavedFromBatch(b) = MemoriesOf(b) /\ batches[b].totals.committed = 0
  BY <1>1, <1>2 DEF AddInv, CommitJobOk
<1>5. \A x \in Batches : x # b => BatchOk(x)'
  BY <1>1, <1>2, OthersFrame
<1>6. CommittedOf(b)' = CommittedOf(b) /\ MemoriesOf(b)' = MemoriesOf(b) /\ ReadyOf(b)' = ReadyOf(b)
  BY <1>2 DEF CommittedOf, MemoriesOf, ReadyOf
<1>7. BatchOk(b)'
  BY <1>2, <1>3, <1>6 DEF BatchOk, RowsOk, Early, Linked, Careful, StoreGrows
<1>8. importJob'.op = "commit" /\ importJob'.batch = b /\ importJob'.refused = refused /\ importJob'.saved = saves
  BY <1>1, <1>2, <1>3 DEF CommitSave
<1>9. CommitJobOk'
  <2>1. CASE /\ Insert(cands[b][i].key, cands[b][i].value, <<"batch", b, i>>)
             /\ importJob' = [importJob EXCEPT !.pc = "mark"]
    <3>1. StoredOk
      BY DEF AddInv, JobInv
    <3>2. PICK n : n = Len(stored) + 1
      OBVIOUS
    <3>3. /\ StoreGrows /\ DOMAIN stored' = DOMAIN stored \cup {n}
          /\ stored'[n] = [key |-> cands[b][i].key, value |-> cands[b][i].value, recent |-> TRUE,
                           from |-> <<"batch", b, i>>]
      BY <2>1, <3>1, <3>2, InsertGrows, Zenon
    <3>4. stored'[n].from = <<"batch", b, i>> /\ <<"batch", b, i>>[1] = "batch" /\ <<"batch", b, i>>[2] = b
      BY <3>3
    <3>5. SavedFromBatch(b)' = SavedFromBatch(b) \cup {n}
      BY <3>3, <3>4 DEF SavedFromBatch, StoreGrows
    <3>6. importJob'.pc = "mark" /\ importJob'.todo = todo /\ n \in DOMAIN stored'
      BY <1>1, <1>3, <2>1, <3>3
    <3> QED BY <1>1, <1>2, <1>3, <1>4, <1>6, <1>8, <3>4, <3>5, <3>6 DEF CommitJobOk
  <2>2. CASE importJob' = [importJob EXCEPT !.todo = todo \ {i}] /\ UNCHANGED stored
    <3>1. SavedFromBatch(b)' = SavedFromBatch(b)
      BY <2>2 DEF SavedFromBatch
    <3>2. importJob'.pc = "save" /\ importJob'.todo = todo \ {i}
      BY <1>2, <1>3, <2>2
    <3> QED BY <1>2, <1>3, <1>4, <1>6, <1>8, <3>1, <3>2 DEF CommitJobOk
  <2> QED BY <1>1, <2>1, <2>2 DEF CommitSave
<1>10. ParseJobOk'
  BY <1>8 DEF ParseJobOk
<1> QED BY <1>5, <1>7, <1>9, <1>10 DEF AddInv, Careful

\* A candidate gets a status, and perhaps a memory.
LEMMA RowChanges ==
    ASSUME NEW s, Rows(s), NEW i \in DOMAIN s, NEW row,
           DOMAIN row = {"key", "value", "class", "status", "memory"},
           \A j \in DOMAIN s : DOMAIN s[j] = {"key", "value", "class", "status", "memory"}
    PROVE  LET t == [s EXCEPT ![i] = row]
           IN  /\ Rows(t) /\ DOMAIN t = DOMAIN s /\ t[i] = row
               /\ \A j \in DOMAIN s : j # i => t[j] = s[j]
               /\ \A j \in DOMAIN t : DOMAIN t[j] = {"key", "value", "class", "status", "memory"}
<1> DEFINE t == [s EXCEPT ![i] = row]
<1>1. PICK S : s \in Seq(S)
  BY DEF Rows
<1>2. t \in Seq(S \cup {row})
  BY <1>1
<1>3. /\ DOMAIN t = DOMAIN s /\ t[i] = row
      /\ \A j \in DOMAIN s : j # i => t[j] = s[j]
  OBVIOUS
<1> HIDE DEF t
<1>4. \A j \in DOMAIN t : DOMAIN t[j] = {"key", "value", "class", "status", "memory"}
  BY <1>3
<1> QED BY <1>2, <1>3, <1>4 DEF Rows, t

LEMMA CommitMarks == ASSUME AddInv, Careful, CommitMark PROVE AddInv'
<1>1. PICK b, todo, refused, saves, i, m :
          /\ b = importJob.batch /\ todo = importJob.todo /\ refused = importJob.refused
          /\ saves = importJob.saved /\ i = FirstOf(todo) /\ m = SavedFrom(b, i)
  OBVIOUS
<1>2. importJob.op = "commit" /\ importJob.pc = "mark" /\ UNCHANGED <<batches, stored>>
  BY DEF CommitMark, Step
<1>3. /\ b \in Batches /\ batches[b].status = "commit_requested" /\ BatchOk(b)
      /\ DOMAIN importJob = {"op", "pc", "batch", "todo", "refused", "saved"}
      /\ DOMAIN cands = Batches
      /\ todo \cup refused \subseteq ReadyOf(b) /\ todo \cap refused = {}
      /\ Rows(saves) /\ Len(saves) = Cardinality(CommittedOf(b))
  BY <1>1, <1>2, AtCommit
<1>4. PICK n \in DOMAIN stored :
          /\ todo # {} /\ batches[b].totals.committed = 0
          /\ stored[n].from = <<"batch", b, i>> /\ SavedFromBatch(b) = MemoriesOf(b) \cup {n}
  BY <1>1, <1>2 DEF AddInv, CommitJobOk
<1>5. RowsOk(b) /\ Linked(b)
  BY <1>3 DEF BatchOk
<1>6. i \in todo /\ i \in DOMAIN cands[b] /\ i \notin CommittedOf(b) /\ i \notin refused
  <2>1. DOMAIN cands[b] \subseteq Nat
    BY <1>5 DEF RowsOk, Rows
  <2>2. i \in todo
    BY <1>1, <1>3, <1>4, <2>1, FirstIsIn DEF ReadyOf
  <2> QED BY <1>3, <2>2 DEF ReadyOf, CommittedOf
<1>7. \A j : <<"batch", b, j>>[1] = "batch" /\ <<"batch", b, j>>[2] = b /\ <<"batch", b, j>>[3] = j
  OBVIOUS
\* The memory saved last is the only one from this candidate.
<1>8. m = n
  <2>1. m \in DOMAIN stored /\ stored[m].from = <<"batch", b, i>>
    BY <1>1, <1>4 DEF SavedFrom
  <2>2. m \in SavedFromBatch(b)
    BY <1>7, <2>1 DEF SavedFromBatch
  <2>3. ASSUME m \in MemoriesOf(b) PROVE FALSE
    <3>1. PICK j \in CommittedOf(b) : m = cands[b][j].memory
      BY <2>3 DEF MemoriesOf
    <3>2. stored[m].from = <<"batch", b, j>>
      BY <1>5, <3>1 DEF Linked
    <3> QED BY <1>6, <1>7, <2>1, <3>1, <3>2
  <2> QED BY <1>4, <2>2, <2>3
<1>9. PICK row : /\ cands' = [cands EXCEPT ![b] = [cands[b] EXCEPT ![i] = row]]
                 /\ DOMAIN row = {"key", "value", "class", "status", "memory"}
                 /\ row.status = "committed" /\ row.memory = m
  <2> DEFINE old == cands[b][i]
             new == [[old EXCEPT !.status = "committed"] EXCEPT !.memory = m]
  <2>1. cands' = [cands EXCEPT ![b] = [cands[b] EXCEPT ![i] = new]]
    <3>1. cands' = [cands EXCEPT ![b][i].status = "committed", ![b][i].memory = m]
      BY <1>1 DEF CommitMark
    <3> QED BY <1>3, <1>6, <3>1
  <2>2. DOMAIN old = {"key", "value", "class", "status", "memory"}
    BY <1>5, <1>6 DEF RowsOk
  <2>3. DOMAIN new = DOMAIN old /\ new.status = "committed" /\ new.memory = m
    BY <2>2
  <2> HIDE DEF new
  <2> QED BY <2>1, <2>2, <2>3
<1>10. PICK t : t = [cands[b] EXCEPT ![i] = row]
  OBVIOUS
<1>11. /\ Rows(t) /\ DOMAIN t = DOMAIN cands[b] /\ t[i] = row
       /\ \A j \in DOMAIN cands[b] : j # i => t[j] = cands[b][j]
       /\ \A j \in DOMAIN t : DOMAIN t[j] = {"key", "value", "class", "status", "memory"}
  BY <1>5, <1>6, <1>9, <1>10, RowChanges DEF RowsOk
<1>12. cands'[b] = t /\ \A x \in Batches : x # b => cands'[x] = cands[x]
  BY <1>3, <1>9, <1>10
<1>13. \A x \in Batches : x # b => BatchOk(x)'
  BY <1>2, <1>12, OthersFrame
<1>14. CommittedOf(b)' = CommittedOf(b) \cup {i} /\ ReadyOf(b) \ {i} \subseteq ReadyOf(b)'
  BY <1>6, <1>9, <1>11, <1>12 DEF CommittedOf, ReadyOf
<1>15. MemoriesOf(b)' = MemoriesOf(b) \cup {m}
  <2>1. \A j \in CommittedOf(b) : j # i /\ cands'[b][j] = cands[b][j]
    BY <1>6, <1>11, <1>12 DEF CommittedOf
  <2>2. cands'[b][i].memory = m
    BY <1>9, <1>11, <1>12
  <2>3. MemoriesOf(b)' = {cands'[b][j].memory : j \in CommittedOf(b) \cup {i}}
    BY <1>14 DEF MemoriesOf
  <2> QED BY <2>1, <2>2, <2>3 DEF MemoriesOf
<1>16. SavedFromBatch(b)' = SavedFromBatch(b)
  BY <1>2 DEF SavedFromBatch
<1>17. Linked(b)'
  <2>1. ASSUME NEW j \in CommittedOf(b)'
        PROVE  cands'[b][j].memory \in DOMAIN stored /\ stored[cands'[b][j].memory].from = <<"batch", b, j>>
    <3>1. CASE j = i
      BY <1>4, <1>8, <1>9, <1>11, <1>12, <3>1
    <3>2. CASE j \in CommittedOf(b)
      BY <1>5, <1>6, <1>11, <1>12, <3>2 DEF Linked, CommittedOf
    <3> QED BY <1>14, <3>1, <3>2
  <2> QED BY <1>2, <2>1 DEF Linked
<1>18. BatchOk(b)'
  BY <1>2, <1>3, <1>11, <1>12, <1>17 DEF BatchOk, RowsOk, Early
<1>19. /\ Rows(Append(saves, m)) /\ Len(Append(saves, m)) = Len(saves) + 1
  BY <1>3, RowsAppend
<1>20. Cardinality(CommittedOf(b) \cup {i}) = Cardinality(CommittedOf(b)) + 1
  <2>1. IsFiniteSet(CommittedOf(b))
    <3>1. DOMAIN cands[b] = 1..Len(cands[b]) /\ Len(cands[b]) \in Nat
      BY <1>5 DEF RowsOk, Rows
    <3>2. PICK k \in Int : k = Len(cands[b])
      BY <3>1
    <3>3. 1 \in Int /\ IsFiniteSet(1..k)
      BY FS_Interval
    <3>4. CommittedOf(b) \in SUBSET (1..k)
      BY <3>1, <3>2 DEF CommittedOf
    <3> QED BY <3>3, <3>4, FS_Subset
  <2> QED BY <1>6, <2>1, FS_AddElement
<1>21. /\ importJob'.op = "commit" /\ importJob'.pc = "save" /\ importJob'.batch = b
       /\ importJob'.refused = refused /\ importJob'.todo = todo \ {i}
       /\ importJob'.saved = Append(saves, m)
  BY <1>1, <1>2, <1>3 DEF CommitMark
<1>22. (todo \ {i}) \cup refused \subseteq ReadyOf(b)' /\ (todo \ {i}) \cap refused = {}
  BY <1>3, <1>6, <1>14
<1>23. CommitJobOk'
  BY <1>2, <1>3, <1>4, <1>8, <1>14, <1>15, <1>16, <1>19, <1>20, <1>21, <1>22 DEF CommitJobOk
<1>24. ParseJobOk'
  BY <1>21 DEF ParseJobOk
<1> QED BY <1>13, <1>18, <1>23, <1>24 DEF AddInv, Careful

LEMMA CommitCounts == ASSUME AddInv, Careful, CommitCount PROVE AddInv'
<1>1. PICK b, todo, refused, saves, k :
          /\ b = importJob.batch /\ todo = importJob.todo /\ refused = importJob.refused
          /\ saves = importJob.saved /\ k = batches[b].totals.committed
  OBVIOUS
<1>2. importJob.op = "commit" /\ importJob.pc = "save" /\ UNCHANGED <<cands, stored>>
  BY DEF CommitCount, Step
<1>3. /\ b \in Batches /\ batches[b].status = "commit_requested" /\ BatchOk(b)
      /\ DOMAIN importJob = {"op", "pc", "batch", "todo", "refused", "saved"}
      /\ DOMAIN batches = Batches /\ DOMAIN batches[b] = {"status", "totals"}
      /\ todo \cup refused \subseteq ReadyOf(b) /\ todo \cap refused = {}
      /\ Rows(saves) /\ Len(saves) = Cardinality(CommittedOf(b))
  BY <1>1, <1>2, AtCommit
<1>4. SavedFromBatch(b) = MemoriesOf(b) /\ k = 0
  BY <1>1, <1>2 DEF AddInv, CommitJobOk
<1>5. /\ importJob' = [importJob EXCEPT !.pc = "refuse"]
      /\ batches' = [batches EXCEPT ![b].totals.committed = k + Len(saves)]
  BY <1>1 DEF CommitCount
<1>6. /\ \A x \in Batches : x # b => batches'[x] = batches[x]
      /\ batches'[b].status = "commit_requested"
      /\ batches'[b].totals = [batches[b].totals EXCEPT !.committed = k + Len(saves)]
  BY <1>3, <1>5
<1>7. /\ batches'[b].totals.committed = Len(saves)
      /\ DOMAIN batches'[b].totals = {"raw", "ready", "needs_review", "quarantined", "committed"}
  <2>1. Len(saves) \in Nat /\ RowsOk(b)
    BY <1>3 DEF Rows, BatchOk
  <2> QED BY <1>4, <1>6, <2>1 DEF RowsOk
<1>8. \A x \in Batches : x # b => BatchOk(x)'
  BY <1>1, <1>2, <1>6, OthersFrame
<1>9. /\ CommittedOf(b)' = CommittedOf(b) /\ MemoriesOf(b)' = MemoriesOf(b) /\ ReadyOf(b)' = ReadyOf(b)
      /\ SavedFromBatch(b)' = SavedFromBatch(b)
  BY <1>2 DEF CommittedOf, MemoriesOf, ReadyOf, SavedFromBatch
<1>10. BatchOk(b)'
  BY <1>2, <1>3, <1>6, <1>7, <1>9 DEF BatchOk, RowsOk, Early, Linked
<1>11. /\ importJob'.op = "commit" /\ importJob'.pc = "refuse" /\ importJob'.batch = b
       /\ importJob'.todo = todo /\ importJob'.refused = refused /\ importJob'.saved = saves
  BY <1>1, <1>2, <1>3, <1>5
<1>12. Balanced(b)'
  BY <1>3, <1>4, <1>7, <1>9 DEF Balanced
<1>13. CommitJobOk'
  BY <1>3, <1>9, <1>11, <1>12 DEF CommitJobOk
<1>14. ParseJobOk'
  BY <1>11 DEF ParseJobOk
<1> QED BY <1>8, <1>10, <1>13, <1>14 DEF AddInv, Careful

LEMMA CommitRefuses == ASSUME AddInv, Careful, NEW i, CommitRefuse(i) PROVE AddInv'
<1>1. PICK b, todo, refused, saves :
          /\ b = importJob.batch /\ todo = importJob.todo /\ refused = importJob.refused
          /\ saves = importJob.saved
  OBVIOUS
<1>2. /\ importJob.op = "commit" /\ importJob.pc = "refuse" /\ i \in refused
      /\ UNCHANGED <<batches, stored>>
  BY <1>1 DEF CommitRefuse, Step
<1>3. /\ b \in Batches /\ batches[b].status = "commit_requested" /\ BatchOk(b)
      /\ DOMAIN importJob = {"op", "pc", "batch", "todo", "refused", "saved"}
      /\ DOMAIN cands = Batches
      /\ todo \cup refused \subseteq ReadyOf(b) /\ todo \cap refused = {}
      /\ Rows(saves) /\ Len(saves) = Cardinality(CommittedOf(b))
  BY <1>1, <1>2, AtCommit
<1>4. Balanced(b)
  BY <1>1, <1>2 DEF AddInv, CommitJobOk
<1>5. RowsOk(b) /\ Linked(b) /\ i \in DOMAIN cands[b] /\ i \notin CommittedOf(b) /\ i \notin todo
  BY <1>2, <1>3 DEF BatchOk, ReadyOf, CommittedOf
<1>6. PICK row : /\ cands' = [cands EXCEPT ![b] = [cands[b] EXCEPT ![i] = row]]
                 /\ DOMAIN row = {"key", "value", "class", "status", "memory"}
                 /\ row.status = "rejected"
  <2> DEFINE old == cands[b][i]
             new == [old EXCEPT !.status = "rejected"]
  <2>1. cands' = [cands EXCEPT ![b] = [cands[b] EXCEPT ![i] = new]]
    BY <1>1 DEF CommitRefuse
  <2>2. DOMAIN old = {"key", "value", "class", "status", "memory"}
    BY <1>5 DEF RowsOk
  <2>3. DOMAIN new = DOMAIN old /\ new.status = "rejected"
    BY <2>2
  <2> HIDE DEF new
  <2> QED BY <2>1, <2>2, <2>3
<1>7. PICK t : t = [cands[b] EXCEPT ![i] = row]
  OBVIOUS
<1>8. /\ Rows(t) /\ DOMAIN t = DOMAIN cands[b] /\ t[i] = row
      /\ \A j \in DOMAIN cands[b] : j # i => t[j] = cands[b][j]
      /\ \A j \in DOMAIN t : DOMAIN t[j] = {"key", "value", "class", "status", "memory"}
  BY <1>5, <1>6, <1>7, RowChanges DEF RowsOk
<1>9. cands'[b] = t /\ \A x \in Batches : x # b => cands'[x] = cands[x]
  BY <1>3, <1>6, <1>7
<1>10. \A x \in Batches : x # b => BatchOk(x)'
  BY <1>2, <1>9, OthersFrame
<1>11. CommittedOf(b)' = CommittedOf(b) /\ ReadyOf(b) \ {i} \subseteq ReadyOf(b)'
  BY <1>5, <1>6, <1>8, <1>9 DEF CommittedOf, ReadyOf
<1>12. \A j \in CommittedOf(b) : cands'[b][j] = cands[b][j]
  BY <1>5, <1>8, <1>9 DEF CommittedOf
<1>13. MemoriesOf(b)' = MemoriesOf(b) /\ SavedFromBatch(b)' = SavedFromBatch(b)
  <2>1. MemoriesOf(b)' = {cands'[b][j].memory : j \in CommittedOf(b)}
    BY <1>11 DEF MemoriesOf
  <2> QED BY <1>2, <1>12, <2>1 DEF MemoriesOf, SavedFromBatch
<1>14. Linked(b)'
  BY <1>2, <1>5, <1>11, <1>12 DEF Linked
<1>15. BatchOk(b)'
  BY <1>2, <1>3, <1>8, <1>9, <1>14 DEF BatchOk, RowsOk, Early
<1>16. Balanced(b)'
  BY <1>2, <1>4, <1>11, <1>13 DEF Balanced
<1>17. /\ importJob'.op = "commit" /\ importJob'.pc = "refuse" /\ importJob'.batch = b
       /\ importJob'.todo = todo /\ importJob'.refused = refused \ {i} /\ importJob'.saved = saves
  BY <1>1, <1>2, <1>3 DEF CommitRefuse
<1>18. todo \cup (refused \ {i}) \subseteq ReadyOf(b)' /\ todo \cap (refused \ {i}) = {}
  BY <1>3, <1>5, <1>11
<1>19. CommitJobOk'
  BY <1>3, <1>11, <1>16, <1>17, <1>18 DEF CommitJobOk
<1>20. ParseJobOk'
  BY <1>17 DEF ParseJobOk
<1> QED BY <1>10, <1>15, <1>19, <1>20 DEF AddInv, Careful

LEMMA CommitEnds == ASSUME AddInv, Careful, CommitDone PROVE AddInv'
<1>1. PICK b : b = importJob.batch
  OBVIOUS
<1>2. /\ importJob.op = "commit" /\ importJob.pc = "refuse" /\ UNCHANGED <<cands, stored>>
      /\ batches' = [batches EXCEPT ![b].status = "committed"]
      /\ importJob' = [op |-> "commit", pc |-> "ledger", run |-> b, saved |-> importJob.saved]
  BY <1>1 DEF CommitDone, Step, SetStatus
<1>3. /\ b \in Batches /\ BatchOk(b) /\ DOMAIN batches = Batches /\ DOMAIN batches[b] = {"status", "totals"}
  BY <1>1, <1>2, AtCommit
<1>4. Balanced(b)
  BY <1>1, <1>2 DEF AddInv, CommitJobOk
<1>5. /\ \A x \in Batches : x # b => batches'[x] = batches[x]
      /\ batches'[b].status = "committed" /\ batches'[b].totals = batches[b].totals
  BY <1>2, <1>3
<1>6. \A x \in Batches : x # b => BatchOk(x)'
  BY <1>2, <1>5, OthersFrame
<1>7. /\ CommittedOf(b)' = CommittedOf(b) /\ MemoriesOf(b)' = MemoriesOf(b)
      /\ SavedFromBatch(b)' = SavedFromBatch(b)
  BY <1>2 DEF CommittedOf, MemoriesOf, SavedFromBatch
<1>8. BatchOk(b)'
  BY <1>2, <1>3, <1>4, <1>5, <1>7 DEF BatchOk, RowsOk, Early, Linked, Balanced
<1>9. NoBatchJob
  BY <1>2 DEF NoBatchJob
<1> QED BY <1>6, <1>8, <1>9, NoJobLeft DEF AddInv, Careful

-----------------------------------------------------------------------------
(* Import: steps that change no batch.                                     *)

LEMMA JobStays ==
    ASSUME AddInv, Careful, UNCHANGED <<batches, cands, importJob>>,
           \A m \in DOMAIN stored' \ DOMAIN stored : stored'[m].from[1] # "batch"
    PROVE  AddInv'
<1>1. ASSUME NEW b \in Batches PROVE Same(b)
  <2>1. SavedFromBatch(b)' = SavedFromBatch(b)
    BY DEF Careful, StoreGrows, SavedFromBatch
  <2> QED BY <2>1 DEF Same
<1>2. \A b \in Batches : BatchOk(b)'
  BY <1>1, BatchFrame DEF AddInv, Careful
<1>3. CASE importJob.op \in {"parse", "commit"} /\ importJob.pc \notin {"ledger", "bridge"}
  <2>1. importJob.batch \in Batches
    BY <1>3 DEF AddInv, JobInv, JobOk, JobIs, JobOn, IdleJob
  <2> QED BY <1>1, <1>2, <2>1, JobFrame DEF AddInv, Careful
<1>4. CASE importJob.op \notin {"parse", "commit"} \/ importJob.pc \in {"ledger", "bridge"}
  <2>1. NoBatchJob
    BY <1>4 DEF NoBatchJob
  <2> QED BY <1>2, <2>1, NoJobLeft DEF AddInv, Careful
<1> QED BY <1>3, <1>4

LEMMA OtherAdds ==
    ASSUME AddInv, Careful,
           \/ ParseRefuse \/ StoreError \/ ImportRestart \/ BackfillStart \/ ImportHourPasses
           \/ LedgerAndBridge \/ PackSave \/ PackSaved
           \/ (\E pack \in Packs : PackStart(pack))
           \/ (\E key \in {NoKey}, value \in GoodValues : SaveElsewhere(key, value))
           \/ (\E m \in DOMAIN stored : BackfillLink(m))
           \/ UNCHANGED importVars
    PROVE  AddInv'
<1>1. UNCHANGED <<batches, cands>>
  BY DEF ParseRefuse, StoreError, ImportRestart, BackfillStart, ImportHourPasses, LedgerAndBridge,
         PackSave, PackSaved, PackStart, SaveElsewhere, BackfillLink, importVars
<1>2. StoredOk
  BY DEF AddInv, JobInv
<1>3. CASE \/ ParseRefuse \/ StoreError \/ ImportRestart \/ LedgerAndBridge \/ PackSaved
           \/ (\E pack \in Packs : PackStart(pack))
  <2>1. NoBatchJob /\ UNCHANGED stored
    <3>1. CASE LedgerAndBridge
      <4>1. DOMAIN importJob \in {{"op", "pc", "run", "saved"}, {"op", "pc", "run", "saved", "pack", "failed"}}
        BY <3>1 DEF LedgerAndBridge, AddInv, JobInv, JobOk, JobIs, IdleJob
      <4> QED BY <3>1, <4>1 DEF LedgerAndBridge, NoBatchJob, IdleJob
    <3>2. CASE \/ ParseRefuse \/ StoreError \/ ImportRestart \/ PackSaved
               \/ (\E pack \in Packs : PackStart(pack))
      BY <3>2 DEF ParseRefuse, StoreError, ImportRestart, PackSaved, PackStart, NoBatchJob, IdleJob
    <3> QED BY <1>3, <3>1, <3>2
  <2> QED BY <1>1, <2>1, BatchFrame, SavedSame, NoJobLeft DEF AddInv, Careful, Same, SavedFromBatch
<1>4. CASE PackSave
  <2>1. importJob.op = "pack"
    BY <1>4 DEF PackSave, Step
  <2>2. NoBatchJob
    BY <1>4, <2>1 DEF PackSave, NoBatchJob, AddInv, JobInv, JobOk, JobIs, IdleJob
  <2>3. \A b \in Batches : BatchOk(b)'
    BY <1>1, <2>1, BatchFrame, SavedSame DEF AddInv, Careful, Same
  <2> QED BY <2>2, <2>3, NoJobLeft DEF AddInv, Careful
<1>5. CASE \/ BackfillStart \/ (\E m \in DOMAIN stored : BackfillLink(m)) \/ UNCHANGED importVars
           \/ ImportHourPasses \/ (\E key \in {NoKey}, value \in GoodValues : SaveElsewhere(key, value))
  <2>1. UNCHANGED importJob
    BY <1>5 DEF BackfillStart, BackfillLink, importVars, ImportHourPasses, SaveElsewhere
  <2>2. \A m \in DOMAIN stored' \ DOMAIN stored : stored'[m].from[1] # "batch"
    <3>1. CASE UNCHANGED stored
      BY <3>1
    <3>2. CASE ImportHourPasses
      BY <1>2, <3>2, HourGrows
    <3>3. ASSUME NEW key, NEW value, Insert(key, value, <<"save">>)
          PROVE  \A m \in DOMAIN stored' \ DOMAIN stored : stored'[m].from[1] # "batch"
      <4>1. PICK n : n = Len(stored) + 1
        OBVIOUS
      <4>2. /\ DOMAIN stored' = DOMAIN stored \cup {n}
            /\ stored'[n] = [key |-> key, value |-> value, recent |-> TRUE, from |-> <<"save">>]
        BY <1>2, <3>3, <4>1, InsertGrows, Zenon
      <4>3. stored'[n].from[1] # "batch"
        BY <4>2
      <4> QED BY <4>2, <4>3
    <3> QED BY <1>5, <3>1, <3>2, <3>3 DEF BackfillStart, BackfillLink, importVars, SaveElsewhere
  <2> QED BY <1>1, <2>1, <2>2, JobStays
<1> QED BY <1>3, <1>4, <1>5

LEMMA AddStep == ASSUME AddInv, [ImportNext]_importVars PROVE AddInv'
<1>1. Careful
  BY ImportStep DEF AddInv
<1>2. ASSUME JobStep PROVE AddInv'
  <2>1. ASSUME ParseCandidate \/ ParseCounts \/ ParsePreview \/ \E content \in Contents : ParseClassified(content)
        PROVE  AddInv'
    BY <1>1, <2>1, ClassifiedAdds, CandidateAdds, CountsAdd, PreviewAdds
  <2>2. ASSUME \/ CommitSave \/ CommitMark \/ CommitCount \/ CommitDone
               \/ \E b \in Batches : \E i \in DOMAIN cands[b] : CommitRefuse(i)
        PROVE  AddInv'
    BY <1>1, <2>2, CommitSaves, CommitMarks, CommitCounts, CommitRefuses, CommitEnds
  <2>3. ASSUME PackSave \/ PackSaved \/ LedgerAndBridge PROVE AddInv'
    BY <1>1, <2>3, OtherAdds
  <2> QED BY <1>2, <2>1, <2>2, <2>3 DEF JobStep
<1>3. ASSUME NEW b \in Batches,
             \/ create_batch(b) \/ cancel_batch(b) \/ ParseStart(b)
             \/ \E chosen \in SUBSET DOMAIN cands[b] : CommitStart(b, chosen)
      PROVE  AddInv'
  BY <1>1, <1>3, WaitingStatus, CommitStarts
<1>4. ASSUME \/ (\E pack \in Packs : PackStart(pack))
             \/ (\E key \in {NoKey}, value \in GoodValues : SaveElsewhere(key, value))
             \/ (\E m \in DOMAIN stored : BackfillLink(m))
             \/ BackfillStart \/ ParseRefuse \/ ImportHourPasses \/ StoreError \/ ImportRestart
             \/ UNCHANGED importVars
      PROVE  AddInv'
  BY <1>1, <1>4, OtherAdds
<1> QED BY <1>2, <1>3, <1>4 DEF ImportNext

\* For any contents, choices, saves elsewhere, crashes and store errors: what a preview shows is
\* one content, and a committed batch counts its memories right.
THEOREM BatchesAlwaysAddUp == ImportSpec => []BatchesAddUp
<1>1. ImportInit => AddInv
  BY AddInit
<1>2. AddInv /\ [ImportNext]_importVars => AddInv'
  BY AddStep
<1> QED BY <1>1, <1>2, AddInvAddsUp, PTL DEF ImportSpec

-----------------------------------------------------------------------------
(* Sessions: projects, sessions and titles.                                *)

\* The ledger of one session: its last title is the session's, each other the next one's old.
Logged(s) ==
    LET log == titleEvents[s] IN
    /\ Rows(log)
    /\ s \notin DOMAIN sessions => log = <<>>
    /\ s \in DOMAIN sessions => /\ log # <<>> /\ Last(log).new = sessions[s].title
                                /\ \A i \in 2..Len(log) : log[i].old = log[i - 1].new

SessionsInv ==
    /\ "pc" \in DOMAIN job
    /\ DOMAIN sessions \subseteq SessionIds /\ DOMAIN titleEvents = SessionIds
    /\ \A s \in DOMAIN sessions : /\ DOMAIN sessions[s] = {"project", "title", "active"}
                                  /\ sessions[s].project \in projects \cup {"none"}
    /\ \A s, t \in DOMAIN sessions : sessions[s].active /\ sessions[t].active => s = t
    /\ job.pc = "activate" => \A s \in DOMAIN sessions : ~sessions[s].active
    /\ \A s \in SessionIds : Logged(s)

LEMMA SessionsInvTold == SessionsInv => SessionsTold
<1> SUFFICES ASSUME SessionsInv PROVE SessionsTold
  OBVIOUS
<1>1. Cardinality(active_session_id) <= 1
  <2>1. CASE active_session_id = {}
    <3>1. Cardinality({}) = 0
      BY FS_EmptySet
    <3> QED BY <2>1, <3>1
  <2>2. CASE active_session_id # {}
    <3>1. PICK s : s \in active_session_id
      BY <2>2
    <3>2. active_session_id = {s}
      BY <3>1 DEF SessionsInv, active_session_id
    <3>3. Cardinality({s}) = 1
      BY FS_Singleton
    <3> QED BY <3>2, <3>3
  <2> QED BY <2>1, <2>2
<1>2. ASSUME NEW s \in DOMAIN sessions
      PROVE  LET log == titleEvents[s] IN
             /\ log # <<>> /\ Last(log).new = sessions[s].title
             /\ \A i \in 2..Len(log) : log[i].old = log[i - 1].new
             /\ Cardinality({p \in DOMAIN hierarchy : s \in DOMAIN hierarchy[p]}) = 1
  <2>1. Logged(s) /\ sessions[s].project \in projects \cup {"none"}
    BY DEF SessionsInv
  <2>2. DOMAIN hierarchy = projects \cup {"none"}
    BY DEF hierarchy
  <2>3. \A p \in DOMAIN hierarchy : DOMAIN hierarchy[p] = {x \in DOMAIN sessions : sessions[x].project = p}
    BY DEF hierarchy
  <2>4. {p \in DOMAIN hierarchy : s \in DOMAIN hierarchy[p]} = {sessions[s].project}
    BY <2>1, <2>2, <2>3
  <2>5. Cardinality({sessions[s].project}) = 1
    BY FS_Singleton
  <2>6. Cardinality({p \in DOMAIN hierarchy : s \in DOMAIN hierarchy[p]}) = 1
    BY <2>4, <2>5
  <2> QED BY <2>1, <2>6 DEF Logged
<1>3. ASSUME NEW p \in projects
      PROVE  projects_list(p) = Cardinality(UNION {TextsOf(s) : s \in DOMAIN hierarchy[p]})
  <2>1. DOMAIN hierarchy[p] = {x \in DOMAIN sessions : sessions[x].project = p}
    BY DEF hierarchy
  <2>2. {m \in DOMAIN texts : texts[m].session \in {s \in DOMAIN sessions : sessions[s].project = p}}
            = UNION {TextsOf(s) : s \in DOMAIN hierarchy[p]}
    BY <2>1 DEF TextsOf
  <2> QED BY <2>2 DEF projects_list
<1> QED BY <1>1, <1>2, <1>3 DEF SessionsTold

LEMMA SessionsInitial == SessionsInit => SessionsInv
<1> SUFFICES ASSUME SessionsInit PROVE SessionsInv
  OBVIOUS
<1>1. Rows(<<>>)
  BY DEF Rows
<1> QED BY <1>1 DEF SessionsInit, SessionsInv, Logged, NoJob

\* One more title event, by which the session is called now.
LEMMA LogGrows ==
    ASSUME NEW s \in SessionIds, Logged(s), NEW event, s \in DOMAIN sessions',
           titleEvents'[s] = Append(titleEvents[s], event), event.new = sessions'[s].title,
           s \in DOMAIN sessions => event.old = sessions[s].title
    PROVE  Logged(s)'
<1> DEFINE log == titleEvents[s]
<1>1. /\ Rows(Append(log, event)) /\ Len(log) \in Nat /\ DOMAIN log = 1..Len(log)
      /\ DOMAIN Append(log, event) = DOMAIN log \cup {Len(log) + 1}
      /\ \A i \in DOMAIN log : Append(log, event)[i] = log[i]
      /\ Append(log, event)[Len(log) + 1] = event
      /\ Len(Append(log, event)) = Len(log) + 1
  BY RowsAppend DEF Logged
<1>2. PICK n, old, new : n \in Nat /\ n = Len(log) /\ old = log /\ new = Append(log, event)
  BY <1>1
<1>3. new # <<>> /\ Last(new) = event
  BY <1>1, <1>2 DEF Last
<1>4. ASSUME NEW i \in 2..Len(new) PROVE new[i].old = new[i - 1].new
  <2>1. CASE i = n + 1
    <3>1. s \in DOMAIN sessions
      BY <1>1, <1>2, <2>1 DEF Logged
    <3>2. old[n].new = sessions[s].title
      BY <1>2, <3>1 DEF Logged, Last
    <3> QED BY <1>1, <1>2, <2>1, <3>1, <3>2
  <2>2. CASE i # n + 1
    <3>1. i \in 2..n
      BY <1>1, <1>2, <2>2
    <3>2. s \in DOMAIN sessions
      BY <1>1, <1>2, <3>1 DEF Logged
    <3> QED BY <1>1, <1>2, <3>1, <3>2 DEF Logged
  <2> QED BY <2>1, <2>2
<1> QED BY <1>1, <1>2, <1>3, <1>4 DEF Logged

LEMMA LogStays ==
    ASSUME NEW s \in SessionIds, Logged(s), titleEvents'[s] = titleEvents[s],
           s \in DOMAIN sessions <=> s \in DOMAIN sessions',
           s \in DOMAIN sessions => sessions'[s].title = sessions[s].title
    PROVE  Logged(s)'
BY DEF Logged

LEMMA SessionsStep == ASSUME SessionsInv, [SessionsNext]_sessionsVars PROVE SessionsInv'
<1> USE DEF SessionsInv
<1>1. ASSUME NEW p \in Projects, projects_create(p) PROVE SessionsInv'
  BY <1>1 DEF projects_create, Logged
<1>2. ASSUME NEW s \in SessionIds, NEW p \in Projects \cup {"none"}, NEW title \in Titles,
             NEW activate \in BOOLEAN, sessions_create(s, p, title, activate)
      PROVE  SessionsInv'
  <2> DEFINE before == IF activate THEN Deactivated ELSE sessions
             row == [project |-> p, title |-> title, active |-> activate]
             event == [old |-> "", new |-> title]
  <2>1. /\ s \notin DOMAIN sessions /\ p \in projects \cup {"none"} /\ job.pc = "idle"
        /\ sessions' = [x \in DOMAIN sessions \cup {s} |-> IF x = s THEN row ELSE before[x]]
        /\ titleEvents' = [titleEvents EXCEPT ![s] = Append(titleEvents[s], event)]
        /\ UNCHANGED <<projects, job>>
    BY <1>2 DEF sessions_create
  <2>2. \A x \in DOMAIN sessions : /\ DOMAIN before[x] = DOMAIN sessions[x]
                                   /\ before[x].project = sessions[x].project
                                   /\ before[x].title = sessions[x].title
                                   /\ before[x].active => sessions[x].active /\ ~activate
    BY DEF Deactivated
  <2>3. /\ DOMAIN row = {"project", "title", "active"}
        /\ row.project = p /\ row.title = title /\ row.active = activate
        /\ event.new = title
    OBVIOUS
  <2> HIDE DEF before, row, event
  <2>4. DOMAIN sessions' = DOMAIN sessions \cup {s} /\ sessions'[s] = row
        /\ \A x \in DOMAIN sessions : sessions'[x] = before[x]
    BY <2>1
  <2>5. \A x \in SessionIds : Logged(x)'
    <3>1. Logged(s)'
      BY <2>1, <2>3, <2>4, LogGrows
    <3>2. ASSUME NEW x \in SessionIds, x # s PROVE Logged(x)'
      <4>1. titleEvents'[x] = titleEvents[x] /\ (x \in DOMAIN sessions <=> x \in DOMAIN sessions')
            /\ (x \in DOMAIN sessions => sessions'[x].title = sessions[x].title)
        BY <2>1, <2>2, <2>4, <3>2
      <4> QED BY <4>1, LogStays
    <3> QED BY <3>1, <3>2
  <2>6. \A x, y \in DOMAIN sessions' : sessions'[x].active /\ sessions'[y].active => x = y
    BY <2>2, <2>3, <2>4
  <2>7. \A x \in DOMAIN sessions' : /\ DOMAIN sessions'[x] = {"project", "title", "active"}
                                    /\ sessions'[x].project \in projects' \cup {"none"}
    BY <2>1, <2>2, <2>3, <2>4
  <2> QED BY <2>1, <2>4, <2>5, <2>6, <2>7
<1>3. ASSUME NEW s \in SessionIds, NEW active \in BOOLEAN, set_active(s, active) PROVE SessionsInv'
  <2>1. /\ DOMAIN sessions' = DOMAIN sessions /\ UNCHANGED <<projects, titleEvents>>
        /\ \A x \in DOMAIN sessions : /\ DOMAIN sessions'[x] = {"project", "title", "active"}
                                      /\ sessions'[x].project = sessions[x].project
                                      /\ sessions'[x].title = sessions[x].title
                                      /\ ~sessions'[x].active
        /\ "pc" \in DOMAIN job'
    BY <1>3 DEF set_active, Deactivated
  <2> QED BY <2>1, LogStays
<1>4. ASSUME SetActiveSecond PROVE SessionsInv'
  <2>1. /\ job.pc = "activate" /\ job' = NoJob /\ UNCHANGED <<projects, titleEvents>>
        /\ sessions' = IF job.session \in DOMAIN sessions
                       THEN [sessions EXCEPT ![job.session].active = job.active] ELSE sessions
    BY <1>4 DEF SetActiveSecond
  <2>2. /\ DOMAIN sessions' = DOMAIN sessions
        /\ \A x \in DOMAIN sessions : /\ DOMAIN sessions'[x] = {"project", "title", "active"}
                                      /\ sessions'[x].project = sessions[x].project
                                      /\ sessions'[x].title = sessions[x].title
                                      /\ sessions'[x].active => x = job.session
    BY <2>1
  <2>3. "pc" \in DOMAIN job' /\ job'.pc = "idle"
    BY <2>1 DEF NoJob
  <2> QED BY <2>1, <2>2, <2>3, LogStays
<1>5. ASSUME NEW s \in SessionIds, NEW title \in Titles, rename(s, title) PROVE SessionsInv'
  <2> DEFINE event == [old |-> sessions[s].title, new |-> title]
  <2>1. /\ job.pc = "idle" /\ s \in DOMAIN sessions
        /\ sessions' = [sessions EXCEPT ![s].title = title]
        /\ titleEvents' = [titleEvents EXCEPT ![s] = Append(titleEvents[s], event)]
        /\ UNCHANGED <<projects, job>>
    BY <1>5 DEF rename
  <2>2. /\ DOMAIN sessions' = DOMAIN sessions
        /\ \A x \in DOMAIN sessions : /\ DOMAIN sessions'[x] = {"project", "title", "active"}
                                      /\ sessions'[x].project = sessions[x].project
                                      /\ sessions'[x].active = sessions[x].active
                                      /\ x # s => sessions'[x].title = sessions[x].title
        /\ sessions'[s].title = title
    BY <2>1
  <2>3. event.new = title /\ event.old = sessions[s].title
    OBVIOUS
  <2> HIDE DEF event
  <2>4. Logged(s)'
    BY <2>1, <2>2, <2>3, LogGrows
  <2>5. \A x \in SessionIds : x # s => Logged(x)'
    BY <2>1, <2>2, LogStays
  <2> QED BY <2>1, <2>2, <2>4, <2>5
<1>6. ASSUME UNCHANGED sessionTables, "pc" \in DOMAIN job', job'.pc = "activate" => job.pc = "activate"
      PROVE  SessionsInv'
  BY <1>6 DEF sessionTables, Logged
<1>7. ASSUME SaveNext \/ HourPasses \/ CompactNext \/ ReasoningNext \/ CutOff \/ UNCHANGED sessionsVars
      PROVE  /\ UNCHANGED sessionTables /\ "pc" \in DOMAIN job'
             /\ job'.pc = "activate" => job.pc = "activate"
  <2>1. CASE SaveNext \/ HourPasses \/ CutOff \/ UNCHANGED sessionsVars
    BY <2>1 DEF SaveNext, SaveText, HourPasses, CutOff, NoJob, sessionsVars, sessionTables
  <2>2. CASE CompactNext
    <3>1. ASSUME NEW s, NEW limit, NEW budget, CompactLoad(s, limit, budget)
          PROVE  /\ UNCHANGED sessionTables /\ "pc" \in DOMAIN job'
                 /\ job'.pc = "activate" => job.pc = "activate"
      <4>1. UNCHANGED sessionTables /\ \E text : job' = [pc |-> "save", text |-> text]
        BY <3>1, Zenon DEF CompactLoad
      <4> QED BY <4>1
    <3>2. CASE CompactSave \/ CompactAnswer
      BY <3>2 DEF CompactSave, CompactAnswer, NoJob, sessionTables
    <3>3. CASE record_compaction_ledger \/ record_compaction \/ RecordSource
      BY <3>3 DEF record_compaction_ledger, record_compaction, RecordSource, sessionTables
    <3> QED BY <2>2, <3>1, <3>2, <3>3 DEF CompactNext
  <2>3. CASE ReasoningNext
    <3>1. ASSUME NEW m, ReasoningRead(m)
          PROVE  /\ UNCHANGED sessionTables /\ "pc" \in DOMAIN job'
                 /\ job'.pc = "activate" => job.pc = "activate"
      <4>1. UNCHANGED sessionTables /\ \E text : job' = [pc |-> "save", text |-> text]
        BY <3>1, Zenon DEF ReasoningRead
      <4> QED BY <4>1
    <3>2. CASE ReasoningSave \/ ReasoningLedger \/ ReasoningLink
      BY <3>2 DEF ReasoningSave, ReasoningLedger, ReasoningLink, NoJob, sessionTables
    <3> QED BY <2>3, <3>1, <3>2 DEF ReasoningNext
  <2> QED BY <1>7, <2>1, <2>2, <2>3
<1> QED BY <1>1, <1>2, <1>3, <1>4, <1>5, <1>6, <1>7 DEF SessionsNext, SessionNext

\* For any projects, sessions, titles and interruptions: at most one session is active, the
\* ledger tells every title, and tree and list count alike.
THEOREM SessionsStayTold == SessionsSpec => []SessionsTold
<1>1. SessionsInit => SessionsInv BY SessionsInitial
<1>2. SessionsInv /\ [SessionsNext]_sessionsVars => SessionsInv' BY SessionsStep
<1> QED BY <1>1, <1>2, SessionsInvTold, PTL DEF SessionsSpec

-----------------------------------------------------------------------------
(* Sessions: compactions and reasoning artifacts.                          *)

\* A text whose sources are memories there are; a compaction holds no secret and leaves no gap.
SoundText(rows, t) ==
    /\ t.sources \subseteq DOMAIN rows
    /\ t.kind = "session_compaction" =>
           /\ t.verdict = "plain"
           /\ \A i \in t.sources : \A j \in DOMAIN rows :
                  rows[j].session = t.session /\ j < i => j \in t.sources

TextsInv ==
    /\ Rows(texts)
    /\ \A m \in DOMAIN texts : SoundText(texts, texts[m]) /\ \A i \in texts[m].sources : i < m

LinkTrue(l) ==
    \/ l[1] = "session_compaction" /\ <<"session.compacted", l[2]>> \in events
    \/ /\ l[1] = "session_compaction_source" /\ <<"session_compaction", l[2], 0>> \in links
       /\ l[3] \in compaction_open(l[2])
    \/ l[1] = "reasoning_artifact" /\ <<"reasoning.artifact", l[3]>> \in events /\ l[2] < l[3]

SourcesLinked(ls, m, sources) == \A i \in sources : <<"session_compaction_source", m, i>> \in ls

TracesInv ==
    /\ \A e \in events : e[2] \in DOMAIN texts
    /\ \A l \in links : LinkTrue(l)
    /\ \A m \in answered : m \in DOMAIN texts /\ (texts[m].kind = "session_compaction" => SourcesLinked(links, m, texts[m].sources))

\* What each step of a call has left behind for the next.
CallInv ==
    LET m == job.memory IN
    /\ job.pc = "save" => SoundText(texts, job.text)
    /\ job.pc \in {"ledger", "bridge", "link"} => m \in DOMAIN texts /\ job = [pc |-> job.pc, memory |-> m]
    /\ job.pc = "bridge" => texts[m].kind = "session_compaction" /\ <<"session.compacted", m>> \in events
    /\ job.pc = "link" => texts[m].kind = "session_reasoning" /\ <<"reasoning.artifact", m>> \in events
    /\ job.pc = "sources" =>
           /\ m \in DOMAIN texts /\ texts[m].kind = "session_compaction"
           /\ job = [pc |-> "sources", memory |-> m, left |-> job.left]
           /\ <<"session_compaction", m, 0>> \in links
           /\ job.left \subseteq texts[m].sources /\ SourcesLinked(links, m, texts[m].sources \ job.left)

TraceInv == TextsInv /\ TracesInv /\ CallInv

\* A later memory comes after every source.
LEMMA SoundTextStays ==
    ASSUME NEW rows, Rows(rows), NEW x, NEW t, SoundText(rows, t)
    PROVE  SoundText(Append(rows, x), t)
<1>1. /\ Len(rows) \in Nat /\ DOMAIN rows = 1..Len(rows)
      /\ DOMAIN Append(rows, x) = DOMAIN rows \cup {Len(rows) + 1}
      /\ \A i \in DOMAIN rows : Append(rows, x)[i] = rows[i]
  BY RowsAppend
<1>2. PICK n \in Nat : n = Len(rows)
  BY <1>1
<1> DEFINE new == Append(rows, x)
<1> HIDE DEF new
<1>4. /\ DOMAIN rows = 1..n /\ DOMAIN new = DOMAIN rows \cup {n + 1}
      /\ \A i \in DOMAIN rows : new[i] = rows[i]
  BY <1>1, <1>2 DEF new
<1>3. \A i \in t.sources, j \in DOMAIN new : j < i => j \in DOMAIN rows /\ new[j] = rows[j]
  BY <1>2, <1>4 DEF SoundText
<1>5. SoundText(new, t)
  BY <1>2, <1>3, <1>4 DEF SoundText
<1> QED BY <1>5 DEF new

\* Saving a sound text.
LEMMA TextsGrow ==
    ASSUME TextsInv, NEW t, SoundText(texts, t), texts' = Append(texts, t)
    PROVE  /\ TextsInv' /\ Len(texts) + 1 \in DOMAIN texts' /\ DOMAIN texts \subseteq DOMAIN texts'
           /\ \A m \in DOMAIN texts : texts'[m] = texts[m]
           /\ texts'[Len(texts) + 1] = t
<1>1. /\ Rows(texts') /\ Len(texts) \in Nat /\ DOMAIN texts = 1..Len(texts)
      /\ DOMAIN texts' = DOMAIN texts \cup {Len(texts) + 1}
      /\ \A i \in DOMAIN texts : texts'[i] = texts[i]
      /\ texts'[Len(texts) + 1] = t
  BY RowsAppend DEF TextsInv
<1>2. ASSUME NEW u, SoundText(texts, u) PROVE SoundText(texts', u)
  <2>1. Rows(texts)
    BY DEF TextsInv
  <2>2. SoundText(Append(texts, t), u)
    BY <1>2, <2>1, SoundTextStays, Zenon
  <2> QED BY <2>2
<1>3. PICK n : n \in Nat /\ n = Len(texts)
  BY <1>1
<1>4. \A i \in t.sources : i < n + 1
  BY <1>1, <1>3 DEF SoundText
<1>5. ASSUME NEW m \in DOMAIN texts'
      PROVE  SoundText(texts', texts'[m]) /\ \A i \in texts'[m].sources : i < m
  <2>1. CASE m \in DOMAIN texts
    BY <1>1, <1>2, <2>1 DEF TextsInv
  <2>2. CASE m = n + 1
    BY <1>1, <1>2, <1>3, <1>4, <2>2
  <2> QED BY <1>1, <1>3, <1>5, <2>1, <2>2
<1> QED BY <1>1, <1>5 DEF TextsInv

\* What was told of the memories stays told when the tables grow.
LEMMA TracesGrow ==
    ASSUME TracesInv, DOMAIN texts \subseteq DOMAIN texts', \A m \in DOMAIN texts : texts'[m] = texts[m],
           events \subseteq events', links \subseteq links',
           \A e \in events' \ events : e[2] \in DOMAIN texts',
           \A l \in links' \ links : LinkTrue(l)',
           \A m \in answered' \ answered :
               m \in DOMAIN texts' /\ (texts'[m].kind = "session_compaction" => SourcesLinked(links', m, texts'[m].sources))
    PROVE  TracesInv'
<1>1. \A e \in events' : e[2] \in DOMAIN texts'
  BY DEF TracesInv
<1>2. ASSUME NEW m PROVE compaction_open(m) \subseteq compaction_open(m)' \/ compaction_open(m) = {0}
  BY DEF compaction_open
<1>3. ASSUME NEW l \in links PROVE LinkTrue(l)'
  BY DEF TracesInv, LinkTrue, compaction_open
<1>4. \A m \in answered : m \in DOMAIN texts' /\ (texts'[m].kind = "session_compaction" => SourcesLinked(links', m, texts'[m].sources))
  BY DEF TracesInv, SourcesLinked
<1> QED BY <1>1, <1>3, <1>4 DEF TracesInv

\* Nothing that a call in progress relies on is taken away.
LEMMA CallStays ==
    ASSUME TextsInv, CallInv, UNCHANGED <<job, events, links>>,
           texts' = texts \/ \E t : texts' = Append(texts, t)
    PROVE  CallInv'
<1>1. CASE texts' = texts
  BY <1>1 DEF CallInv
<1>2. ASSUME NEW t, texts' = Append(texts, t) PROVE CallInv'
  <2>1. /\ DOMAIN texts \subseteq DOMAIN texts' /\ \A m \in DOMAIN texts : texts'[m] = texts[m]
    BY <1>2, RowsAppend DEF TextsInv
  <2>2. ASSUME NEW u, SoundText(texts, u) PROVE SoundText(texts', u)
    BY <1>2, <2>2, SoundTextStays DEF TextsInv
  <2> QED BY <2>1, <2>2 DEF CallInv
<1> QED BY <1>1, <1>2

LEMMA TraceInitial == SessionsInit => TraceInv
<1> SUFFICES ASSUME SessionsInit PROVE TraceInv
  OBVIOUS
<1>1. Rows(<<>>) /\ DOMAIN <<>> = {}
  BY DEF Rows
<1>2. job.pc = "idle"
  BY DEF SessionsInit, NoJob
<1> QED BY <1>1, <1>2 DEF SessionsInit, TraceInv, TextsInv, TracesInv, CallInv

\* The oldest memories of a session have no gap, whatever the limit.
LEMMA LoadIsSound ==
    ASSUME TextsInv, NEW s, NEW limit \in Nat
    PROVE  /\ load_session_memories(s, limit) \subseteq DOMAIN texts
           /\ \A i \in load_session_memories(s, limit) : \A j \in DOMAIN texts :
                  texts[j].session = s /\ j < i => j \in load_session_memories(s, limit)
<1>1. PICK n \in Nat : DOMAIN texts = 1..n
  BY RowsAppend DEF TextsInv
<1>2. IsFiniteSet(1..n)
  BY <1>1, FS_Interval
<1> DEFINE Older(i) == {j \in TextsOf(s) : j < i}
<1>3. load_session_memories(s, limit) = {m \in TextsOf(s) : Cardinality(Older(m)) < limit}
  BY DEF load_session_memories
<1>4. ASSUME NEW i \in DOMAIN texts, NEW j \in DOMAIN texts, j < i, Cardinality(Older(i)) < limit
      PROVE  Cardinality(Older(j)) < limit
  <2>1. Older(i) \subseteq 1..n /\ Older(j) \subseteq Older(i)
    BY <1>1, <1>4 DEF TextsOf
  <2> HIDE DEF Older
  <2>2. IsFiniteSet(Older(i))
    BY <1>2, <2>1, FS_Subset
  <2>3. IsFiniteSet(Older(j)) /\ Cardinality(Older(j)) <= Cardinality(Older(i))
    BY <2>1, <2>2, FS_Subset
  <2>4. Cardinality(Older(i)) \in Nat /\ Cardinality(Older(j)) \in Nat
    BY <2>2, <2>3, FS_CardinalityType
  <2> QED BY <1>4, <2>3, <2>4
<1> HIDE DEF Older
<1> QED BY <1>3, <1>4 DEF TextsOf

\* Steps that leave the tables of texts alone and end or begin a call.
LEMMA TraceOver ==
    ASSUME TraceInv, UNCHANGED textTables, job'.pc \in {"idle", "activate"}, answered' = answered
    PROVE  TraceInv'
<1>1. UNCHANGED <<texts, events, links>>
  BY DEF textTables
<1>2. TextsInv'
  BY <1>1 DEF TraceInv, TextsInv
<1>3. TracesInv'
  BY <1>1, TracesGrow DEF TraceInv
<1>4. CallInv'
  BY DEF CallInv
<1> QED BY <1>2, <1>3, <1>4 DEF TraceInv

LEMMA TraceSave ==
    ASSUME TraceInv, NEW s, NEW verdict, NEW action, SaveText(s, verdict, action)
    PROVE  TraceInv'
<1> DEFINE t == Text(s, IF action THEN "action" ELSE "note", verdict, <<"own", Len(texts) + 1>>, {})
<1>1. texts' = Append(texts, t) /\ UNCHANGED <<events, links, job, answered>>
  BY DEF SaveText
<1>2. SoundText(texts, t)
  BY DEF SoundText, Text
<1> HIDE DEF t
<1>3. PICK u : u = t
  OBVIOUS
<1>4. /\ TextsInv' /\ DOMAIN texts \subseteq DOMAIN texts' /\ \A m \in DOMAIN texts : texts'[m] = texts[m]
  BY <1>1, <1>2, <1>3, TextsGrow DEF TraceInv
<1>5. TracesInv'
  BY <1>1, <1>4, TracesGrow DEF TraceInv
<1>6. CallInv'
  BY <1>1, CallStays DEF TraceInv
<1> QED BY <1>4, <1>5, <1>6 DEF TraceInv

\* A compaction takes sound sources, a reasoning artifact its target.
LEMMA TraceLoad ==
    ASSUME TraceInv, NEW t, SoundText(texts, t), job' = [pc |-> "save", text |-> t],
           UNCHANGED <<texts, events, links, answered>>
    PROVE  TraceInv'
<1>1. TextsInv'
  BY DEF TraceInv, TextsInv
<1>2. TracesInv'
  BY TracesGrow DEF TraceInv
<1>3. CallInv'
  BY DEF CallInv
<1> QED BY <1>1, <1>2, <1>3 DEF TraceInv

LEMMA TraceCompactLoad ==
    ASSUME TraceInv, NEW s, NEW limit \in Limits, NEW budget, CompactLoad(s, limit, budget)
    PROVE  TraceInv'
<1> DEFINE sources == load_session_memories(s, limit)
           artifact == build_compaction_artifact(sources, budget)
           t == Text(s, "session_compaction", artifact.verdict, artifact.prefix, sources)
<1>1. /\ artifact.verdict = "plain" /\ job' = [pc |-> "save", text |-> t]
      /\ UNCHANGED <<texts, events, links, answered>>
  BY DEF CompactLoad, textTables
<1>2. limit \in Nat
  BY SessionsAssumption
<1>3. /\ sources \subseteq DOMAIN texts
      /\ \A i \in sources : \A j \in DOMAIN texts : texts[j].session = s /\ j < i => j \in sources
  BY <1>2, LoadIsSound DEF TraceInv
<1> HIDE DEF sources, artifact
<1>4. SoundText(texts, t)
  BY <1>1, <1>3 DEF SoundText, Text
<1> HIDE DEF t
<1>5. PICK u : u = t
  OBVIOUS
<1> QED BY <1>1, <1>4, <1>5, TraceLoad

LEMMA TraceReasoningRead ==
    ASSUME TraceInv, NEW target, ReasoningRead(target)
    PROVE  TraceInv'
<1> DEFINE t == Text(texts[target].session, "session_reasoning", "plain",
                     <<"reasoning", target, Cardinality(BridgesOf(target))>>, {target})
<1>1. /\ job' = [pc |-> "save", text |-> t] /\ target \in DOMAIN texts
      /\ UNCHANGED <<texts, events, links, answered>>
  BY DEF ReasoningRead, textTables
<1>2. SoundText(texts, t)
  BY <1>1 DEF SoundText, Text
<1> HIDE DEF t
<1>3. PICK u : u = t
  OBVIOUS
<1> QED BY <1>1, <1>2, <1>3, TraceLoad

\* The artifact is saved, or refused as a duplicate.
LEMMA TraceArtifactSave == ASSUME TraceInv, CompactSave \/ ReasoningSave PROVE TraceInv'
<1>1. /\ job.pc = "save" /\ UNCHANGED <<events, links, answered>>
      /\ \/ job' = NoJob /\ UNCHANGED texts
         \/ texts' = Append(texts, job.text) /\ job' = [pc |-> "ledger", memory |-> Len(texts) + 1]
      /\ UNCHANGED recent
  BY Zenon DEF CompactSave, ReasoningSave
<1>2. CASE job' = NoJob /\ UNCHANGED texts
  BY <1>1, <1>2, TraceOver DEF NoJob, textTables
<1>3. CASE texts' = Append(texts, job.text) /\ job' = [pc |-> "ledger", memory |-> Len(texts) + 1]
  <2>1. PICK t : t = job.text
    OBVIOUS
  <2>2. SoundText(texts, t)
    BY <1>1, <2>1 DEF TraceInv, CallInv
  <2>3. /\ TextsInv' /\ Len(texts) + 1 \in DOMAIN texts' /\ DOMAIN texts \subseteq DOMAIN texts'
        /\ \A m \in DOMAIN texts : texts'[m] = texts[m]
    BY <1>3, <2>1, <2>2, TextsGrow DEF TraceInv
  <2>4. TracesInv'
    BY <1>1, <2>3, TracesGrow DEF TraceInv
  <2>5. CallInv'
    BY <1>3, <2>3 DEF CallInv
  <2> QED BY <2>3, <2>4, <2>5 DEF TraceInv
<1> QED BY <1>1, <1>2, <1>3

LEMMA TraceLedger == ASSUME TraceInv, record_compaction_ledger \/ ReasoningLedger PROVE TraceInv'
<1>1. PICK kind, next, m :
          /\ job.pc = "ledger" /\ m = job.memory
          /\ \/ kind = "session.compacted" /\ next = "bridge" /\ texts[m].kind = "session_compaction"
             \/ kind = "reasoning.artifact" /\ next = "link" /\ texts[m].kind = "session_reasoning"
          /\ events' = events \cup {<<kind, m>>} /\ job' = [job EXCEPT !.pc = next]
          /\ UNCHANGED <<texts, links, answered>>
  BY Zenon DEF record_compaction_ledger, ReasoningLedger
<1>2. m \in DOMAIN texts /\ job = [pc |-> "ledger", memory |-> m]
  BY <1>1 DEF TraceInv, CallInv
<1>3. job' = [pc |-> next, memory |-> m]
  BY <1>1, <1>2
<1>4. TextsInv'
  BY <1>1 DEF TraceInv, TextsInv
<1>5. \A e \in events' \ events : e[2] \in DOMAIN texts'
  BY <1>1, <1>2
<1>6. TracesInv'
  BY <1>1, <1>5, TracesGrow DEF TraceInv
<1>7. CallInv'
  BY <1>1, <1>2, <1>3 DEF CallInv
<1> QED BY <1>4, <1>6, <1>7 DEF TraceInv

\* The first bridge row of a compaction, before those of its sources.
LEMMA TraceBridge == ASSUME TraceInv, record_compaction PROVE TraceInv'
<1>1. PICK m, sources :
          /\ job.pc = "bridge" /\ m = job.memory /\ sources = texts[m].sources
          /\ links' = links \cup {<<"session_compaction", m, 0>>}
          /\ job' = [pc |-> "sources", memory |-> m, left |-> sources]
          /\ UNCHANGED <<texts, events, answered>>
  BY Zenon DEF record_compaction, insert_bridge
<1>2. m \in DOMAIN texts /\ texts[m].kind = "session_compaction" /\ <<"session.compacted", m>> \in events
  BY <1>1 DEF TraceInv, CallInv
<1>3. TextsInv'
  BY <1>1 DEF TraceInv, TextsInv
<1>4. \A l \in links' \ links : LinkTrue(l)'
  BY <1>1, <1>2 DEF LinkTrue
<1>5. TracesInv'
  BY <1>1, <1>4, TracesGrow DEF TraceInv
<1>6. CallInv'
  BY <1>1, <1>2 DEF CallInv, SourcesLinked
<1> QED BY <1>3, <1>5, <1>6 DEF TraceInv

LEMMA TraceSource == ASSUME TraceInv, RecordSource PROVE TraceInv'
<1>1. PICK m, left, oldest :
          /\ job.pc = "sources" /\ m = job.memory /\ left = job.left /\ oldest \in left
          /\ links' = links \cup {<<"session_compaction_source", m, oldest>>}
          /\ job' = [job EXCEPT !.left = left \ {oldest}]
          /\ UNCHANGED <<texts, events, answered>>
  BY Zenon DEF RecordSource, insert_bridge
<1>2. /\ m \in DOMAIN texts /\ texts[m].kind = "session_compaction"
      /\ job = [pc |-> "sources", memory |-> m, left |-> left]
      /\ <<"session_compaction", m, 0>> \in links
      /\ left \subseteq texts[m].sources /\ SourcesLinked(links, m, texts[m].sources \ left)
  BY <1>1 DEF TraceInv, CallInv
<1>3. job' = [pc |-> "sources", memory |-> m, left |-> left \ {oldest}]
  BY <1>1, <1>2
<1>4. TextsInv'
  BY <1>1 DEF TraceInv, TextsInv
<1>5. \A l \in links' \ links : LinkTrue(l)'
  BY <1>1, <1>2 DEF LinkTrue, compaction_open
<1>6. TracesInv'
  BY <1>1, <1>5, TracesGrow DEF TraceInv
<1>7. SourcesLinked(links', m, texts[m].sources \ (left \ {oldest}))
  BY <1>1, <1>2 DEF SourcesLinked
<1>8. CallInv'
  BY <1>1, <1>2, <1>3, <1>7 DEF CallInv
<1> QED BY <1>4, <1>6, <1>8 DEF TraceInv

LEMMA TraceAnswer == ASSUME TraceInv, CompactAnswer PROVE TraceInv'
<1>1. PICK m :
          /\ job.pc = "sources" /\ m = job.memory /\ job.left = {}
          /\ job' = NoJob /\ answered' = answered \cup {m}
          /\ UNCHANGED <<texts, events, links>>
  BY Zenon DEF CompactAnswer, textTables
<1>2. m \in DOMAIN texts /\ SourcesLinked(links, m, texts[m].sources)
  <2>1. m \in DOMAIN texts /\ SourcesLinked(links, m, texts[m].sources \ {})
    BY <1>1 DEF TraceInv, CallInv
  <2>2. texts[m].sources \ {} = texts[m].sources
    OBVIOUS
  <2> QED BY <2>1, <2>2
<1>3. TextsInv'
  BY <1>1 DEF TraceInv, TextsInv
<1>4. TracesInv'
  BY <1>1, <1>2, TracesGrow DEF TraceInv
<1>5. CallInv'
  BY <1>1 DEF CallInv, NoJob
<1> QED BY <1>3, <1>4, <1>5 DEF TraceInv

LEMMA TraceReasoningLink == ASSUME TraceInv, ReasoningLink PROVE TraceInv'
<1>1. PICK m, target :
          /\ job.pc = "link" /\ m = job.memory /\ target \in texts[m].sources
          /\ links' = links \cup {<<"reasoning_artifact", target, m>>}
          /\ job' = NoJob /\ answered' = answered \cup {m}
          /\ UNCHANGED <<texts, events>>
  BY Zenon DEF ReasoningLink, insert_bridge
<1>2. /\ m \in DOMAIN texts /\ texts[m].kind = "session_reasoning"
      /\ <<"reasoning.artifact", m>> \in events
  BY <1>1 DEF TraceInv, CallInv
<1>3. target < m
  BY <1>1, <1>2 DEF TraceInv, TextsInv
<1>4. TextsInv'
  BY <1>1 DEF TraceInv, TextsInv
<1>5. \A l \in links' \ links : LinkTrue(l)'
  BY <1>1, <1>2, <1>3 DEF LinkTrue
<1>6. TracesInv'
  BY <1>1, <1>2, <1>5, TracesGrow DEF TraceInv
<1>7. CallInv'
  BY <1>1 DEF CallInv, NoJob
<1> QED BY <1>4, <1>6, <1>7 DEF TraceInv

LEMMA TraceStep == ASSUME TraceInv, [SessionsNext]_sessionsVars PROVE TraceInv'
<1>1. ASSUME UNCHANGED <<texts, events, links, job, answered>> PROVE TraceInv'
  <2>1. TextsInv'
    BY <1>1 DEF TraceInv, TextsInv
  <2>2. TracesInv'
    BY <1>1, TracesGrow DEF TraceInv
  <2>3. CallInv'
    BY <1>1, CallStays DEF TraceInv
  <2> QED BY <2>1, <2>2, <2>3 DEF TraceInv
<1>2. CASE SessionNext
  <2>1. ASSUME UNCHANGED <<textTables, job, answered>> PROVE TraceInv'
    BY <1>1, <2>1 DEF textTables
  <2>2. ASSUME NEW s, NEW a, set_active(s, a) PROVE TraceInv'
    <3>1. UNCHANGED textTables /\ answered' = answered /\ job'.pc = "activate"
      BY <2>2 DEF set_active
    <3> QED BY <3>1, TraceOver
  <2>3. CASE SetActiveSecond
    <3>1. UNCHANGED textTables /\ answered' = answered /\ job'.pc = "idle"
      BY <2>3 DEF SetActiveSecond, NoJob
    <3> QED BY <3>1, TraceOver
  <2>4. \/ UNCHANGED <<textTables, job, answered>> \/ SetActiveSecond
        \/ \E s, a : set_active(s, a)
    BY <1>2, Zenon DEF SessionNext, projects_create, sessions_create, rename
  <2> QED BY <2>1, <2>2, <2>3, <2>4
<1>3. CASE SaveNext
  BY <1>3, TraceSave DEF SaveNext
<1>4. CASE HourPasses \/ UNCHANGED sessionsVars
  BY <1>1, <1>4 DEF HourPasses, sessionsVars, textTables
<1>5. CASE CompactNext
  BY <1>5, TraceCompactLoad, TraceArtifactSave, TraceLedger, TraceBridge, TraceSource, TraceAnswer
     DEF CompactNext
<1>6. CASE ReasoningNext
  BY <1>6, TraceReasoningRead, TraceArtifactSave, TraceLedger, TraceReasoningLink DEF ReasoningNext
<1>7. CASE CutOff
  <2>1. UNCHANGED textTables /\ answered' = answered /\ job'.pc = "idle"
    BY <1>7 DEF CutOff, NoJob
  <2> QED BY <2>1, TraceOver
<1> QED BY <1>2, <1>3, <1>4, <1>5, <1>6, <1>7 DEF SessionsNext

\* The registry: of the artifacts of a session, the newest is shown, so none is newer than it.
LEMMA NewestShown ==
    ASSUME TextsInv, NEW s, NEW m \in ArtifactsOf(s)
    PROVE  /\ m \in compactions(s, Len(texts))
           /\ compaction_snapshot(s) >= m
<1> DEFINE all == ArtifactsOf(s)
           Newer(i) == {j \in all : j > i}
<1>1. PICK n \in Nat : n = Len(texts) /\ DOMAIN texts = 1..n
  BY RowsAppend DEF TextsInv
<1>2. all \subseteq 1..n /\ m \in all
  BY <1>1 DEF ArtifactsOf, TextsOf
<1>3. IsFiniteSet(1..n) /\ Cardinality(1..n) = n
  <2>1. 1 \in Int /\ n \in Int /\ (IF 1 > n THEN 0 ELSE n - 1 + 1) = n
    OBVIOUS
  <2> QED BY <2>1, FS_Interval
<1>4. \A limit : compactions(s, limit) = {i \in all : Cardinality(Newer(i)) < limit}
  BY DEF compactions
<1> HIDE DEF all
<1>5. \A i : Newer(i) \subseteq 1..n
  BY <1>2
<1>6. \A i : IsFiniteSet(Newer(i)) /\ Cardinality(Newer(i)) \in Nat
  BY <1>3, <1>5, FS_Subset, FS_CardinalityType
<1>7. m \in compactions(s, Len(texts))
  <2>1. Newer(m) \subseteq (1..n) \ {m}
    <3>1. m \in Int /\ ~(m > m)
      BY <1>2
    <3>2. m \notin Newer(m)
      BY <3>1
    <3> QED BY <1>5, <3>2
  <2>2. IsFiniteSet((1..n) \ {m}) /\ Cardinality((1..n) \ {m}) = n - 1
    BY <1>2, <1>3, FS_RemoveElement
  <2> HIDE DEF Newer
  <2>3. Cardinality(Newer(m)) <= n - 1
    BY <2>1, <2>2, FS_Subset
  <2> QED BY <1>1, <1>2, <1>4, <1>6, <2>3
<1>8. PICK top \in all : \A i \in all : i <= top
  <2> DEFINE back == {n - i : i \in all}
  <2>1. back \in SUBSET Nat /\ back # {}
    BY <1>2
  <2>2. PICK b \in back : \A c \in back : ~ (<<c, b>> \in OpToRel(<, Nat))
    BY <2>1, NatLessThanWellFounded, WFMin
  <2>3. ASSUME NEW c \in back PROVE b <= c
    <3>1. <<c, b>> \in Nat \X Nat /\ <<c, b>>[1] = c /\ <<c, b>>[2] = b
      BY <2>1
    <3>2. ~ (c < b)
      BY <2>2, <3>1 DEF OpToRel
    <3> QED BY <2>1, <3>2
  <2>4. PICK i \in all : b = n - i
    BY <2>2
  <2>5. ASSUME NEW j \in all PROVE j <= i
    <3>1. n - j \in back
      OBVIOUS
    <3>2. n - i <= n - j
      BY <2>3, <2>4, <3>1
    <3> QED BY <1>2, <3>2
  <2> QED BY <2>5
<1>9. compactions(s, 1) # {}
  <2>1. ASSUME NEW j \in Newer(top) PROVE FALSE
    <3>1. j \in all /\ j > top
      OBVIOUS
    <3>2. j \in Int /\ top \in Int /\ j <= top
      BY <1>2, <1>8, <3>1
    <3> QED BY <3>1, <3>2
  <2>2. Cardinality(Newer(top)) = 0
    <3>1. Newer(top) = {}
      BY <2>1
    <3> QED BY <3>1, FS_EmptySet
  <2> QED BY <1>4, <1>8, <2>2
<1>10. ASSUME NEW i \in compactions(s, 1) PROVE i >= m
  <2>1. i \in all /\ Cardinality(Newer(i)) < 1
    BY <1>4
  <2>2. Cardinality(Newer(i)) = 0
    BY <1>6, <2>1
  <2>3. Newer(i) = {}
    BY <1>6, <2>2, FS_EmptySet
  <2> QED BY <1>2, <2>1, <2>3
<1>11. compaction_snapshot(s) \in compactions(s, 1)
  BY <1>9 DEF compaction_snapshot
<1> QED BY <1>7, <1>10, <1>11

LEMMA TraceInvTraceable == TraceInv => CompactionTraceable
<1> SUFFICES ASSUME TraceInv PROVE CompactionTraceable
  OBVIOUS
<1>1. /\ \A e \in events : e[2] \in DOMAIN texts
      /\ \A l \in links : LinkTrue(l)
      /\ \A m \in answered : m \in DOMAIN texts /\ (texts[m].kind = "session_compaction" => SourcesLinked(links, m, texts[m].sources))
      /\ \A m \in DOMAIN texts : SoundText(texts, texts[m])
  BY DEF TraceInv, TracesInv, TextsInv
<1>2. ASSUME NEW m \in answered, texts[m].kind = "session_compaction"
      PROVE  /\ \A i \in texts[m].sources : <<"session_compaction_source", m, i>> \in links
             /\ m \in compactions(texts[m].session, Len(texts))
             /\ compaction_snapshot(texts[m].session) >= m
  <2>1. m \in ArtifactsOf(texts[m].session)
    BY <1>1, <1>2 DEF ArtifactsOf, TextsOf
  <2>2. PICK s : s = texts[m].session
    OBVIOUS
  <2>3. m \in compactions(s, Len(texts)) /\ compaction_snapshot(s) >= m
    BY <2>1, <2>2, NewestShown DEF TraceInv
  <2> QED BY <1>1, <1>2, <2>2, <2>3 DEF SourcesLinked
<1>3. ASSUME NEW m \in DOMAIN texts, texts[m].kind = "session_compaction"
      PROVE  /\ texts[m].verdict = "plain"
             /\ \A i \in texts[m].sources : \A j \in TextsOf(texts[m].session) :
                    j < i => j \in texts[m].sources
  BY <1>1, <1>3 DEF SoundText, TextsOf
<1> QED BY <1>1, <1>2, <1>3 DEF CompactionTraceable, LinkTrue

\* For any sessions, limits, drafts and interruptions: the bridge rows of compactions and
\* reasoning artifacts lead back to ledgered events and saved artifacts, an answered compaction
\* has a row for every source, took the oldest memories without a gap and is shown.
THEOREM CompactionsStayTraceable == SessionsSpec => []CompactionTraceable
<1>1. SessionsInit => TraceInv BY TraceInitial
<1>2. TraceInv /\ [SessionsNext]_sessionsVars => TraceInv' BY TraceStep
<1> QED BY <1>1, <1>2, TraceInvTraceable, PTL DEF SessionsSpec
=============================================================================

------------------------------ MODULE Nightly ------------------------------
(***************************************************************************)
(* Nightly consolidation, purge and backup of the brain (nightly.rs,       *)
(* reasoning_bridge.rs, admin.rs), on the tables they share.               *)
(*                                                                         *)
(* A cycle takes the store mutex once per phase: it reads the quality of   *)
(* the tools, plans weight changes from the recall outcomes, saves the     *)
(* weight table to a snapshot file, commits the changes in one             *)
(* transaction, and links the artifact with bridge rows.  Between two      *)
(* phases everything else runs: recalls, saves, tool calls, a purge, and   *)
(* the other cycle, for the timer task (workers/mod.rs) runs cycles beside *)
(* those the Cognition worker is asked for.                                *)
(*                                                                         *)
(* Weights are in basis points (8500 is 0.85); the signal of a memory is   *)
(* eta times the signed KL divergence of its recall outcomes of the last   *)
(* day, 0 while they are fewer than SAMPLE_GATE.  One retrieval mode is    *)
(* followed.  learning.autonomous and dream.autonomous are one switch: the *)
(* code only ever asks whether both are on.                                *)
(*                                                                         *)
(* Backup shares only the mutex with the cycles: a behaviour follows       *)
(* either cycles or backups, chosen initially.                             *)
(***************************************************************************)
EXTENDS Integers, FiniteSets, Sequences

CONSTANTS
    Memories,            \* ids of memories; an id is never used twice
    SourceOf,            \* the source column of each memory
    Rank,                \* the order of memory ids as texts
    ToolEvents,          \* ids of tool events
    Signals,             \* signals the outcomes of a day can give
    CYCLE_CAP_PERCENT,   \* 10 in the code
    SOURCE_CAP_PERCENT,  \* 5 in the code
    MaxCycles,           \* bound: cycles started
    MaxPurges            \* bound: purges begun

ASSUME NightlyAssumption ==
    /\ SourceOf \in [Memories -> STRING]
    /\ Rank \in [Memories -> Nat]
    /\ \A m, n \in Memories : Rank[m] = Rank[n] => m = n
    /\ Signals \subseteq Int /\ 0 \in Signals
    /\ CYCLE_CAP_PERCENT \in 1..100 /\ SOURCE_CAP_PERCENT \in 1..100
    /\ MaxCycles \in Nat /\ MaxPurges \in Nat

DEFAULT_WEIGHT == 8500
DELTA_CAP == 500
MIN_WEIGHT == 5000
MAX_WEIGHT == 10000

Runners == {"timer", "worker"}

VARIABLES
    memories,      \* table memories, with its atoms, entities and relationships
    embeddings,    \* whether table memory_embeddings has rows; nothing deletes them
    weights,       \* table retrieval_weights: a partial function
    artifacts,     \* table nightly_artifacts: the cycles that have a row
    bridges,       \* table reasoning_bridge_events: <<"tool", t>>,
                   \* <<"artifact", n>> and <<"touch", n, memory>>
    toolEvents,    \* table tool_events
    saved,         \* memory ids given out so far
    conn,          \* holder of the store mutex between steps, or "free"
    purgeNext,     \* position in PurgeOrder, 0 when no purge runs
    cycle,         \* the cycle of each runner
    started,       \* cycles started
    file,          \* memories in the database file proper (without its WAL)
    backup,        \* the backup being made, and what the last finished one holds
    ledgered,      \* history: the last ledgered weight update of a memory: a partial function
    last,          \* history: the last commit that changed weights
    purges,        \* purges begun
    unlinked,      \* history: tool events whose bridge a purge deleted
    cut            \* history: cycles that ended between commit and last bridge row,
                   \* or whose rows a purge deleted

tables == <<memories, embeddings, weights, artifacts, bridges, toolEvents>>
hist == <<ledgered, last, purges, unlinked, cut>>
vars == <<tables, saved, conn, purgeNext, cycle, started, file, backup, hist>>

Idle == [pc |-> "idle"]
None == [is |-> "none"]

Init ==
    /\ memories = {} /\ embeddings = FALSE /\ artifacts = {} /\ bridges = {} /\ toolEvents = {}
    /\ weights = [m \in {} |-> 0]
    /\ saved = {}
    /\ conn = "free" /\ purgeNext = 0
    /\ cycle = [r \in Runners |-> Idle]
    /\ started \in {0, MaxCycles}
    /\ backup = [pc |-> IF started = 0 THEN "off" ELSE "idle", before |-> {}, holds |-> {}]
    /\ file = {}
    /\ ledgered = [m \in {} |-> None]
    /\ last = None /\ purges = 0 /\ unlinked = {} /\ cut = {}

-----------------------------------------------------------------------------
(* The rest of the brain on these tables, one store call each.             *)

\* LocalStore::save_memory gives the memory a new id.
SaveMemory(m) ==
    /\ conn = "free" /\ m \notin saved
    /\ memories' = memories \cup {m} /\ saved' = saved \cup {m}
    /\ UNCHANGED <<embeddings, weights, artifacts, bridges, toolEvents,
                   conn, purgeNext, cycle, started, file, backup, hist>>

\* LocalStore::upsert_embedding; the foreign key wants the memory.
UpsertEmbedding ==
    /\ conn = "free" /\ memories # {}
    /\ embeddings' = TRUE
    /\ UNCHANGED <<memories, weights, artifacts, bridges, toolEvents, saved,
                   conn, purgeNext, cycle, started, file, backup, hist>>

\* Mutant: the bridge row is a call of its own that may not come.
RecordToolInvocation_EventOnly(t) ==
    /\ conn = "free" /\ t \notin toolEvents
    /\ toolEvents' = toolEvents \cup {t}
    /\ UNCHANGED <<memories, embeddings, weights, artifacts, bridges, saved,
                   conn, purgeNext, cycle, started, file, backup, hist>>

\* record_tool_invocation: the event and its bridge row are one transaction.
RecordToolInvocation(t) ==
    /\ conn = "free" /\ t \notin toolEvents
    /\ toolEvents' = toolEvents \cup {t}
    /\ bridges' = bridges \cup {<<"tool", t>>}
    /\ UNCHANGED <<memories, embeddings, weights, artifacts, saved,
                   conn, purgeNext, cycle, started, file, backup, hist>>

-----------------------------------------------------------------------------
(* Planning a cycle.                                                       *)

Clamp(x, lo, hi) == IF x < lo THEN lo ELSE IF x > hi THEN hi ELSE x
Abs(x) == IF x < 0 THEN -x ELSE x

\* auto_weight_update::bounded_ewma_update.
bounded_ewma_update(prior, sig) ==
    LET p == Clamp(prior, MIN_WEIGHT, MAX_WEIGHT)
        proposed == Clamp(p + Clamp(sig, -DELTA_CAP, DELTA_CAP), MIN_WEIGHT, MAX_WEIGHT)
    IN  Clamp((85 * p + 15 * proposed) \div 100, MIN_WEIGHT, MAX_WEIGHT)

\* Mutant: the prior weight is always the default.
Weight_Default(m) == DEFAULT_WEIGHT

Weight(m) == IF m \in DOMAIN weights THEN weights[m] ELSE DEFAULT_WEIGHT

Mutation(m, sig) == [memory |-> m, prior |-> Weight(m), new |-> bounded_ewma_update(Weight(m), sig)]

\* weight_mutation_proposals: changes that do something, sorted the largest first.
weight_mutation_proposals(signal) == {x \in {Mutation(m, signal[m]) : m \in memories} : x.new # x.prior}

Delta(x) == Abs(x.new - x.prior)
Before(x, y) == \/ Delta(x) > Delta(y)
                \/ Delta(x) = Delta(y) /\ Rank[x.memory] < Rank[y.memory]

CapOf(percent, n) == IF n = 0 THEN 0 ELSE (percent * n + 99) \div 100
cycle_cap(corpus) == CapOf(CYCLE_CAP_PERCENT, corpus)
source_cap(cap) == CapOf(SOURCE_CAP_PERCENT, cap)

\* What was chosen before x when its turn comes.
Earlier(chosen, x) == {y \in chosen : Before(y, x)}
SameSource(chosen, x) == {y \in chosen : SourceOf[y.memory] = SourceOf[x.memory]}

\* Mutant: the cap of a source is checked one too late.
select_mutations_SourceLate(proposals, corpus, chosen) ==
    LET cap == cycle_cap(corpus)
    IN  \A x \in proposals :
            x \in chosen <=> /\ Cardinality(Earlier(chosen, x)) < cap
                            /\ Cardinality(SameSource(Earlier(chosen, x), x)) <= source_cap(cap)

\* select_mutations, as the set of what it takes: a change is chosen, in the order of Before,
\* when those chosen before it leave room in the caps of the cycle and of its source.
select_mutations(proposals, corpus, chosen) ==
    LET cap == cycle_cap(corpus)
    IN  \A x \in proposals :
            x \in chosen <=> /\ Cardinality(Earlier(chosen, x)) < cap
                            /\ Cardinality(SameSource(Earlier(chosen, x), x)) < source_cap(cap)

\* tool_quality: some tool event has no bridge row, or some bridge row no tool event.
Orphans == \/ \E t \in toolEvents : <<"tool", t>> \notin bridges
           \/ \E b \in bridges : b[1] = "tool" /\ b[2] \notin toolEvents

-----------------------------------------------------------------------------
(* The phases of a cycle.                                                  *)

\* The timer always applies; the worker as asked.
NightlyRead(r, apply) ==
    /\ conn = "free" /\ cycle[r] = Idle /\ started < MaxCycles
    /\ r = "timer" => apply
    /\ started' = started + 1
    /\ cycle' = [cycle EXCEPT ![r] = [pc |-> "plan", id |-> started', apply |-> apply,
                                      orphans |-> Orphans]]
    /\ UNCHANGED <<tables, saved, conn, purgeNext, file, backup, hist>>

\* build_plan, the kill switch and the selection, with the switch and the recall outcomes
\* found in the tables at that moment.
NightlyPlan(r, autonomous, signal) ==
    LET c == cycle[r]
        corpus == Cardinality(memories)
        proposals == IF c.apply /\ ~c.orphans THEN weight_mutation_proposals(signal) ELSE {}
    IN  /\ conn = "free" /\ c.pc = "plan"
        /\ \E chosen \in SUBSET proposals :
               /\ select_mutations(proposals, corpus, chosen)
               /\ cycle' = [cycle EXCEPT ![r] =
                      IF c.apply /\ ~autonomous THEN Idle
                      ELSE [pc |-> IF chosen = {} THEN "commit" ELSE "snapshot", id |-> c.id,
                            chosen |-> chosen, corpus |-> corpus, allowed |-> autonomous /\ ~c.orphans,
                            snapshot |-> weights, overtaken |-> FALSE]]
        /\ UNCHANGED <<tables, saved, conn, purgeNext, started, file, backup, hist>>

\* create_weight_snapshot: reads the weights and writes a file of the cycle's own name.
NightlySnapshot(r) ==
    /\ conn = "free" /\ cycle[r].pc = "snapshot"
    /\ cycle' = [cycle EXCEPT ![r].pc = "commit", ![r].snapshot = weights]
    /\ UNCHANGED <<tables, saved, conn, purgeNext, started, file, backup, hist>>

\* A file system error while the snapshot is written ends the cycle.
NightlySnapshotFails(r) ==
    /\ conn = "free" /\ cycle[r].pc = "snapshot"
    /\ cycle' = [cycle EXCEPT ![r] = Idle]
    /\ UNCHANGED <<tables, saved, conn, purgeNext, started, file, backup, hist>>

Overtake(cs, but) == [r \in Runners |->
    IF r # but /\ cs[r].pc \in {"snapshot", "commit"} THEN [cs[r] EXCEPT !.overtaken = TRUE]
                                                     ELSE cs[r]]

\* Mutant: weights are upserted one by one, outside the transaction of the ledger events.
NightlyCommit_Upserts(r) ==
    LET c == cycle[r]
        touched == {x.memory : x \in c.chosen} \cap memories
        New(m) == CHOOSE x \in c.chosen : x.memory = m
    IN  /\ conn = "free" /\ c.pc = "commit"
        /\ weights' = [m \in DOMAIN weights \cup touched |->
                           IF m \in touched THEN New(m).new ELSE weights[m]]
        /\ cycle' = [cycle EXCEPT ![r] = Idle]
        /\ UNCHANGED <<memories, embeddings, artifacts, bridges, toolEvents, saved, conn,
                       purgeNext, started, file, backup, hist>>

\* The transaction: snapshot row, weights with their ledger events, run event, artifact.
\* A memory that is gone fails the foreign key and rolls everything back.
NightlyCommit(r) ==
    LET c == cycle[r]
        touched == {x.memory : x \in c.chosen}
        New(m) == CHOOSE x \in c.chosen : x.memory = m
    IN  /\ conn = "free" /\ c.pc = "commit"
        /\ \/ /\ ~(touched \subseteq memories)
              /\ cycle' = [cycle EXCEPT ![r] = Idle]
              /\ UNCHANGED <<weights, artifacts, ledgered, last>>
           \/ /\ touched \subseteq memories
              /\ weights' = [m \in DOMAIN weights \cup touched |->
                                 IF m \in touched THEN New(m).new ELSE weights[m]]
              /\ artifacts' = artifacts \cup {c.id}
              /\ ledgered' = [m \in DOMAIN ledgered \cup touched |->
                                  IF m \in touched THEN New(m) ELSE ledgered[m]]
              /\ last' = IF c.chosen = {} THEN last
                         ELSE [is |-> "commit", id |-> c.id, before |-> weights, snapshot |-> c.snapshot,
                               chosen |-> c.chosen, corpus |-> c.corpus,
                               allowed |-> c.allowed, overtaken |-> c.overtaken]
              /\ cycle' = [IF c.chosen = {} THEN cycle ELSE Overtake(cycle, r)
                             EXCEPT ![r] = [pc |-> "bridge", id |-> c.id, todo |-> touched]]
        /\ UNCHANGED <<memories, embeddings, bridges, toolEvents, saved,
                       conn, purgeNext, started, file, backup, purges, unlinked, cut>>

\* record_nightly_artifact: the main row, then one row per touched memory, each its own
\* transaction under one lock.
NightlyBridge(r) ==
    LET c == cycle[r]
    IN  /\ conn = "free" /\ c.pc = "bridge"
        /\ bridges' = bridges \cup {<<"artifact", c.id>>}
        /\ conn' = IF c.todo = {} THEN "free" ELSE r
        /\ cycle' = [cycle EXCEPT ![r] = IF c.todo = {} THEN Idle ELSE [c EXCEPT !.pc = "touch"]]
        /\ UNCHANGED <<memories, embeddings, weights, artifacts, toolEvents, saved,
                       purgeNext, started, file, backup, hist>>

NightlyTouch(r, m) ==
    LET c == cycle[r]
        left == c.todo \ {m}
    IN  /\ conn = r /\ c.pc = "touch" /\ m \in c.todo
        /\ bridges' = bridges \cup {<<"touch", c.id, m>>}
        /\ conn' = IF left = {} THEN "free" ELSE r
        /\ cycle' = [cycle EXCEPT ![r] = IF left = {} THEN Idle ELSE [c EXCEPT !.todo = left]]
        /\ UNCHANGED <<memories, embeddings, weights, artifacts, toolEvents, saved,
                       purgeNext, started, file, backup, hist>>

-----------------------------------------------------------------------------
(* Purge: tables emptied one after the other, each its own transaction,    *)
(* under one lock; the ledger event comes last.  memory_embeddings is not  *)
(* in the list, and refers to memories.                                    *)

PurgeOrder == <<"reasoning_bridge_events", "nightly_artifacts",
                "retrieval_weights", "memories">>

PurgeBegin ==
    /\ conn = "free" /\ purgeNext = 0 /\ purges < MaxPurges
    /\ conn' = "purge" /\ purgeNext' = 1 /\ purges' = purges + 1
    /\ UNCHANGED <<tables, saved, cycle, started, file, backup, ledgered, last, unlinked, cut>>

\* delete_table.
PurgeTable ==
    /\ conn = "purge" /\ purgeNext \in DOMAIN PurgeOrder
    /\ LET t == PurgeOrder[purgeNext]
           refused == /\ t = "memories"
                      /\ embeddings \/ DOMAIN weights # {}
       IN  /\ bridges' = IF t = "reasoning_bridge_events" THEN {} ELSE bridges
           /\ unlinked' = IF t = "reasoning_bridge_events"
                          THEN unlinked \cup toolEvents ELSE unlinked
           /\ artifacts' = IF t = "nightly_artifacts" THEN {} ELSE artifacts
           /\ cut' = IF t = "reasoning_bridge_events" THEN cut \cup 1..started ELSE cut
           /\ weights' = IF t = "retrieval_weights" THEN [m \in {} |-> 0] ELSE weights
           /\ cycle' = IF t = "retrieval_weights" THEN Overtake(cycle, "purge") ELSE cycle
           /\ memories' = IF t = "memories" /\ ~refused THEN {} ELSE memories
           /\ conn' = IF refused THEN "free" ELSE conn
           /\ purgeNext' = IF refused THEN 0 ELSE purgeNext + 1
    /\ UNCHANGED <<embeddings, toolEvents, saved, started, file, backup,
                   ledgered, last, purges>>

\* append_admin_ledger.
PurgeLedger ==
    /\ conn = "purge" /\ purgeNext > Len(PurgeOrder)
    /\ conn' = "free" /\ purgeNext' = 0
    /\ UNCHANGED <<tables, saved, cycle, started, file, backup, hist>>

-----------------------------------------------------------------------------
(* Backup copies the database file without the mutex, then writes its      *)
(* ledger event.                                                           *)

BackupCopy ==
    /\ backup.pc = "idle"
    /\ backup' = [pc |-> "copied", before |-> memories, holds |-> file]
    /\ UNCHANGED <<tables, saved, conn, purgeNext, cycle, started, file, hist>>

BackupRecord ==
    /\ conn = "free" /\ backup.pc = "copied"
    /\ backup' = [backup EXCEPT !.pc = "idle"]
    /\ UNCHANGED <<tables, saved, conn, purgeNext, cycle, started, file, hist>>

\* SQLite moves the write-ahead log into the file from time to time.
Checkpoint ==
    /\ backup.pc # "off" /\ file # memories /\ file' = memories
    /\ UNCHANGED <<tables, saved, conn, purgeNext, cycle, started, backup, hist>>

\* The process stops between any two steps; tables stay as committed.
Restart ==
    /\ \/ conn # "free" \/ backup.pc = "copied" \/ \E r \in Runners : cycle[r] # Idle
    /\ cut' = cut \cup {cycle[r].id : r \in {q \in Runners : cycle[q].pc \in {"bridge", "touch"}}}
    /\ conn' = "free" /\ purgeNext' = 0
    /\ cycle' = [r \in Runners |-> Idle]
    /\ backup' = [backup EXCEPT !.pc = IF @ = "off" THEN "off" ELSE "idle"]
    /\ UNCHANGED <<tables, saved, started, file, ledgered, last, purges, unlinked>>

Cycle(r) ==
    \/ \E apply \in BOOLEAN : NightlyRead(r, apply)
    \/ \E autonomous \in BOOLEAN, signal \in [memories -> Signals] : NightlyPlan(r, autonomous, signal)
    \/ NightlySnapshot(r) \/ NightlySnapshotFails(r)
    \/ NightlyCommit(r) \/ NightlyBridge(r)
    \/ \E m \in Memories : NightlyTouch(r, m)

Purge == PurgeBegin \/ PurgeTable \/ PurgeLedger

Others ==
    \/ (\E m \in Memories : SaveMemory(m)) \/ UpsertEmbedding
    \/ \E t \in ToolEvents : RecordToolInvocation(t)

Next == (\E r \in Runners : Cycle(r)) \/ Purge \/ Others
        \/ BackupCopy \/ BackupRecord \/ Checkpoint \/ Restart

Spec == Init /\ [][Next]_vars

-----------------------------------------------------------------------------
(* Properties.                                                             *)

\* Every weight in the table is the one the last ledgered update of that memory says, so
\* the ledger explains the table (guardrail G4), however cycles, purges and crashes
\* interleave.
WeightsLedgered == \A m \in DOMAIN weights : m \in DOMAIN ledgered /\ weights[m] = ledgered[m].new

\* A commit that no other change of the weights overtook is undone by its snapshot: the
\* file holds the table as it was just before the commit, and every ledgered prior weight
\* is the weight that was replaced (guardrail G11).
UndoPossible ==
    last # None /\ ~last.overtaken =>
        /\ last.snapshot = last.before
        /\ \A x \in last.chosen :
               x.prior = IF x.memory \in DOMAIN last.before THEN last.before[x.memory]
                         ELSE DEFAULT_WEIGHT

\* What a cycle commits stays within the guardrails G5 to G8, G16 and G17: switches on and
\* tools linked when it was planned, no more memories than the cap of the corpus and of
\* each source allow, steps of at most 15% of the delta cap, weights within the bounds.
CapsHeld ==
    last # None =>
        LET cap == cycle_cap(last.corpus)
            OfSource(s) == {x \in last.chosen : SourceOf[x.memory] = s}
        IN  /\ last.allowed
            /\ Cardinality(last.chosen) <= cap /\ cap <= last.corpus
            /\ \A m \in Memories : Cardinality(OfSource(SourceOf[m])) <= source_cap(cap)
            /\ \A x \in last.chosen :
                   /\ 100 * Delta(x) <= 15 * DELTA_CAP
                   /\ x.new \in MIN_WEIGHT..MAX_WEIGHT

\* A tool event without a bridge row, which stops every later cycle from changing weights,
\* is only ever the work of a purge, never of a crash while the event is recorded.
OrphansOnlyByPurge == \A t \in toolEvents : <<"tool", t>> \in bridges \/ t \in unlinked

\* Artifacts and their bridge rows belong together: an artifact has its row, or its cycle is
\* about to write it or was cut off; a row of an artifact that is not there, and a missing
\* row of a touched memory, come only from a purge or a cut.
BridgesTell ==
    LET Pending(n) == \E r \in Runners : cycle[r].pc \in {"bridge", "touch"} /\ cycle[r].id = n
    IN  /\ \A n \in artifacts : <<"artifact", n>> \in bridges \/ Pending(n) \/ n \in cut
        /\ \A b \in bridges : b[1] # "tool" => b[2] \in artifacts \/ b[2] \in cut
        /\ last # None /\ ~Pending(last.id) /\ last.id \notin cut =>
               \A x \in last.chosen : <<"touch", last.id, x.memory>> \in bridges

\* The bridge rows are kept in step with the events and artifacts they are about.
BridgesKept == OrphansOnlyByPurge /\ BridgesTell

\* "Backup the brain database" (admin.rs): a backup that has answered holds every memory
\* there was when it began.
BackupComplete == backup.pc = "idle" => backup.before \subseteq backup.holds
=============================================================================

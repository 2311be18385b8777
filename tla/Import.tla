------------------------------- MODULE Import -------------------------------
(***************************************************************************)
(* Memory import in hom-brain: batches (import_batch.rs, import_adapter.rs,*)
(* import_commit.rs), memory packs (admin.rs import_pack) and the bridge   *)
(* events that link an imported memory to its import                       *)
(* (reasoning_bridge.rs).                                                  *)
(*                                                                         *)
(* All import methods run on the Io worker, one handler at a time: `job`.  *)
(* A handler is no transaction: each store call takes the store's mutex    *)
(* and commits by itself, so other workers run between two of them, and a  *)
(* crash or a store error there ends the handler half way.                 *)
(* backfill_import_bridges runs on the Cognition worker and keeps the      *)
(* mutex while it inserts row after row.  The dedupe scan of preview_batch *)
(* changes nothing (it reads a field that recall does not return), and the *)
(* readers (get, list, report) do not either; they are left out.           *)
(***************************************************************************)
EXTENDS Integers, Sequences, FiniteSets

CONSTANTS
    Batches,      \* batch ids
    Contents,     \* what parse_source returns: sequences of [key, value, class]
    Packs,        \* memory packs: sequences of [key, value]
    GoodValues,   \* values the quality gate lets pass
    NoKey,        \* an item without title, key or id
    MaxMemories, MaxRuns   \* bounds: memories; import.pack calls

Classes == {"ready", "needs_review", "quarantined", "low_quality"}

ASSUME ImportAssumption ==
    /\ \A c \in Contents : /\ c \in Seq({c[i] : i \in DOMAIN c})
                           /\ \A i \in DOMAIN c : c[i].class \in Classes
    /\ \A p \in Packs : p \in Seq({p[i] : i \in DOMAIN p})

VARIABLES
    batches,        \* import_batches: status and totals of each batch
    cands,          \* import_candidates of each batch, in order of creation
    stored,         \* memories: key, value, within the last hour or not, where from
    importEvents,   \* ledger events of imports: the import.pack call or the batch
    importBridges,  \* reasoning_bridge_events of kind 'import'
    importConn,     \* the store's mutex between steps: free, held by a backfill, or
                    \*   wedged (its owner waits for it)
    importJob,      \* the handler on the Io worker
    backfill,       \* the memories a backfill has yet to link
    runs            \* import.pack calls so far

importVars == <<batches, cands, stored, importEvents, importBridges, importConn, importJob, backfill, runs>>

IdleJob == [op |-> "idle"]
NoTotals == [raw |-> 0, ready |-> 0, needs_review |-> 0, quarantined |-> 0, committed |-> 0]
NoMemory == 0

ImportInit ==
    /\ batches = [b \in Batches |-> [status |-> "none", totals |-> NoTotals]]
    /\ cands = [b \in Batches |-> <<>>]
    /\ stored = <<>> /\ importEvents = <<>> /\ importBridges = {}
    /\ importConn = "free" /\ importJob = IdleJob /\ backfill = {} /\ runs = 0

-----------------------------------------------------------------------------
(* Saving a memory *)

\* The quality gate, the one-hour duplicate check and UNIQUE(key).
Saves(key, value) ==
    /\ value \in GoodValues
    /\ \A m \in DOMAIN stored : /\ ~(stored[m].recent /\ stored[m].value = value)
                                /\ key = NoKey \/ stored[m].key # key

\* save_memory inserts: memory, entities, atoms and ledger event in one transaction.
Insert(key, value, from) ==
    /\ Len(stored) < MaxMemories
    /\ stored' = Append(stored, [key |-> key, value |-> value, recent |-> TRUE,
                                     from |-> from])

\* memory.save on the Save worker.
SaveElsewhere(key, value) ==
    /\ importConn = "free"
    /\ Saves(key, value)
    /\ Insert(key, value, <<"save">>)
    /\ UNCHANGED <<batches, cands, importEvents, importBridges, importConn, importJob, backfill, runs>>

\* The memories saved so far leave the one-hour window.
ImportHourPasses ==
    /\ \E m \in DOMAIN stored : stored[m].recent
    /\ stored' = [m \in DOMAIN stored |-> [stored[m] EXCEPT !.recent = FALSE]]
    /\ UNCHANGED <<batches, cands, importEvents, importBridges, importConn, importJob, backfill, runs>>

-----------------------------------------------------------------------------
(* Batches: created, parsing, classified, preview_ready, commit_requested, *)
(* committed or cancelled                                                  *)

\* A store call of the handler on the Io worker.
Step(op, pc) == importConn = "free" /\ importJob.op = op /\ importJob.pc = pc

SetStatus(b, status) == batches' = [batches EXCEPT ![b].status = status]

create_batch(b) ==
    /\ importConn = "free" /\ importJob = IdleJob
    /\ batches[b].status = "none"
    /\ SetStatus(b, "created")
    /\ UNCHANGED <<cands, stored, importEvents, importBridges, importConn, importJob, backfill, runs>>

\* Mutant of cancel_batch: cancel runs on a worker of its own.
cancel_batch_AnyWorker(b) ==
    /\ importConn = "free"
    /\ batches[b].status \notin {"none", "committed", "cancelled"}
    /\ SetStatus(b, "cancelled")
    /\ UNCHANGED <<cands, stored, importEvents, importBridges, importConn, importJob, backfill, runs>>

cancel_batch(b) ==
    /\ importConn = "free" /\ importJob = IdleJob
    /\ batches[b].status \notin {"none", "committed", "cancelled"}
    /\ SetStatus(b, "cancelled")
    /\ UNCHANGED <<cands, stored, importEvents, importBridges, importConn, importJob, backfill, runs>>

\* parse_batch: the status moves before the content is looked at.
ParseStart(b) ==
    /\ importConn = "free" /\ importJob = IdleJob
    /\ batches[b].status = "created"
    /\ SetStatus(b, "parsing")
    /\ importJob' = [op |-> "parse", pc |-> "content", batch |-> b]
    /\ UNCHANGED <<cands, stored, importEvents, importBridges, importConn, backfill, runs>>

\* No content, a source type without a parser, or content that does not parse:
\* the handler returns and the batch stays in "parsing".
ParseRefuse ==
    /\ importJob.op = "parse" /\ importJob.pc = "content"
    /\ importJob' = IdleJob
    /\ UNCHANGED <<batches, cands, stored, importEvents, importBridges, importConn, backfill, runs>>

ParseClassified(content) ==
    /\ Step("parse", "content")
    /\ SetStatus(importJob.batch, "classified")
    /\ importJob' = [op |-> "parse", pc |-> "candidates", batch |-> importJob.batch, content |-> content,
               made |-> 0]
    /\ UNCHANGED <<cands, stored, importEvents, importBridges, importConn, backfill, runs>>

\* The key commit_candidate will use: the title, or one made from the candidate id.
CandidateKey(b, i, item) == IF item.key = NoKey THEN <<"import", b, i>> ELSE item.key

ParseCandidate ==
    /\ Step("parse", "candidates")
    /\ importJob.made < Len(importJob.content)
    /\ LET b == importJob.batch
           item == importJob.content[importJob.made + 1] IN
       cands' = [cands EXCEPT ![b] =
                    Append(@, [key |-> CandidateKey(b, Len(@) + 1, item), value |-> item.value,
                               class |-> item.class, status |-> item.class,
                               memory |-> NoMemory])]
    /\ importJob' = [importJob EXCEPT !.made = @ + 1]
    /\ UNCHANGED <<batches, stored, importEvents, importBridges, importConn, backfill, runs>>

CountClass(content, classes) == Cardinality({i \in DOMAIN content : content[i].class \in classes})

\* Whatever is neither ready nor to be reviewed counts as quarantined.
ParseTotals(content) ==
    [raw |-> Len(content), ready |-> CountClass(content, {"ready"}),
     needs_review |-> CountClass(content, {"needs_review"}),
     quarantined |-> CountClass(content, Classes \ {"ready", "needs_review"}), committed |-> 0]

ParseCounts ==
    /\ Step("parse", "candidates")
    /\ importJob.made = Len(importJob.content)
    /\ batches' = [batches EXCEPT ![importJob.batch].totals =
                      [ParseTotals(importJob.content) EXCEPT
                         !.committed = batches[importJob.batch].totals.committed]]
    /\ importJob' = [op |-> "parse", pc |-> "preview", batch |-> importJob.batch]
    /\ UNCHANGED <<cands, stored, importEvents, importBridges, importConn, backfill, runs>>

ParsePreview ==
    /\ Step("parse", "preview")
    /\ SetStatus(importJob.batch, "preview_ready")
    /\ importJob' = IdleJob
    /\ UNCHANGED <<cands, stored, importEvents, importBridges, importConn, backfill, runs>>

\* The candidates that are ready; they are taken in order.
ReadyOf(b) == {i \in DOMAIN cands[b] : cands[b][i].status = "ready"}
FirstOf(todo) == CHOOSE i \in todo : \A j \in todo : i <= j

CommitJob(b, chosen) ==
    [op |-> "commit", pc |-> "save", batch |-> b,
     todo |-> ReadyOf(b) \cap chosen, refused |-> ReadyOf(b) \ chosen, saved |-> <<>>]

\* Mutant of CommitStart: an interrupted commit may be asked for again.
CommitStart_Again(b, chosen) ==
    /\ importConn = "free" /\ importJob = IdleJob
    /\ batches[b].status \in {"preview_ready", "classified", "commit_requested"}
    /\ SetStatus(b, "commit_requested")
    /\ importJob' = CommitJob(b, chosen)
    /\ UNCHANGED <<cands, stored, importEvents, importBridges, importConn, backfill, runs>>

\* commit_batch: the chosen ready candidates are to be saved, the other ready ones
\* refused.  "classified" is accepted too: a batch whose parse broke off.
CommitStart(b, chosen) ==
    /\ importConn = "free" /\ importJob = IdleJob
    /\ batches[b].status \in {"preview_ready", "classified"}
    /\ SetStatus(b, "commit_requested")
    /\ importJob' = CommitJob(b, chosen)
    /\ UNCHANGED <<cands, stored, importEvents, importBridges, importConn, backfill, runs>>

\* commit_candidate: save_memory takes the candidate, or refuses it or fails: the
\* handler counts a failure and goes on.
CommitSave ==
    /\ Step("commit", "save") /\ importJob.todo # {}
    /\ LET b == importJob.batch
           i == FirstOf(importJob.todo)
           c == cands[b][i] IN
       \/ /\ Saves(c.key, c.value)
          /\ Insert(c.key, c.value, <<"batch", b, i>>)
          /\ importJob' = [importJob EXCEPT !.pc = "mark"]
       \/ /\ importJob' = [importJob EXCEPT !.todo = @ \ {i}]
          /\ UNCHANGED stored
    /\ UNCHANGED <<batches, cands, importEvents, importBridges, importConn, backfill, runs>>

\* The memory save_memory has just returned: the one saved from this candidate.
SavedFrom(b, i) == CHOOSE m \in DOMAIN stored : stored[m].from = <<"batch", b, i>>

\* set_import_candidate_committed
CommitMark ==
    /\ Step("commit", "mark")
    /\ LET b == importJob.batch
           i == FirstOf(importJob.todo)
           m == SavedFrom(b, i) IN
       /\ cands' = [cands EXCEPT ![b][i].status = "committed", ![b][i].memory = m]
       /\ importJob' = [importJob EXCEPT !.pc = "save", !.todo = @ \ {i}, !.saved = Append(@, m)]
    /\ UNCHANGED <<batches, stored, importEvents, importBridges, importConn, backfill, runs>>

CommitCount ==
    /\ Step("commit", "save") /\ importJob.todo = {}
    /\ batches' = [batches EXCEPT ![importJob.batch].totals.committed = @ + Len(importJob.saved)]
    /\ importJob' = [importJob EXCEPT !.pc = "refuse"]
    /\ UNCHANGED <<cands, stored, importEvents, importBridges, importConn, backfill, runs>>

CommitRefuse(i) ==
    /\ Step("commit", "refuse") /\ i \in importJob.refused
    /\ cands' = [cands EXCEPT ![importJob.batch][i].status = "rejected"]
    /\ importJob' = [importJob EXCEPT !.refused = @ \ {i}]
    /\ UNCHANGED <<batches, stored, importEvents, importBridges, importConn, backfill, runs>>

CommitDone ==
    /\ Step("commit", "refuse") /\ importJob.refused = {}
    /\ SetStatus(importJob.batch, "committed")
    /\ importJob' = [op |-> "commit", pc |-> "ledger", run |-> importJob.batch, saved |-> importJob.saved]
    /\ UNCHANGED <<cands, stored, importEvents, importBridges, importConn, backfill, runs>>

-----------------------------------------------------------------------------
(* The end of commit_batch and of import_pack *)

\* The handler takes the mutex for the ledger event and keeps the guard; the first
\* record_import_bridge locks the same mutex and never returns.
LedgerAndBridge ==
    /\ importConn = "free" /\ importJob.op \in {"commit", "pack"} /\ importJob.pc = "ledger"
    /\ importEvents' = Append(importEvents, [kind |-> importJob.op, run |-> importJob.run])
    /\ \/ /\ importJob.saved = <<>>
          /\ importJob' = IdleJob
          /\ UNCHANGED importConn
       \/ /\ importJob.saved # <<>>
          /\ importJob' = [importJob EXCEPT !.pc = "bridge"]
          /\ importConn' = "wedged"
    /\ UNCHANGED <<batches, cands, stored, importBridges, backfill, runs>>

-----------------------------------------------------------------------------
(* Packs *)

PackStart(pack) ==
    /\ importJob = IdleJob /\ runs < MaxRuns
    /\ runs' = runs + 1
    /\ importJob' = [op |-> "pack", pc |-> "save", run |-> runs + 1, pack |-> pack, todo |-> pack,
               saved |-> <<>>, failed |-> {}]
    /\ UNCHANGED <<batches, cands, stored, importEvents, importBridges, importConn, backfill>>

\* Mutant of PackSave: the first refused item ends the import.
PackSave_StopsAtRefusal ==
    /\ Step("pack", "save") /\ importJob.todo # <<>>
    /\ LET item == Head(importJob.todo) IN
       \/ /\ Saves(item.key, item.value)
          /\ Insert(item.key, item.value, <<"pack", importJob.run>>)
          /\ importJob' = [importJob EXCEPT !.todo = Tail(@), !.saved = Append(@, Len(stored) + 1)]
       \/ /\ ~Saves(item.key, item.value)
          /\ importJob' = [importJob EXCEPT !.todo = <<>>]
          /\ UNCHANGED stored
    /\ UNCHANGED <<batches, cands, importEvents, importBridges, importConn, backfill, runs>>

\* One item of the pack: imported, or refused (a duplicate, or rejected), or rejected
\* because the store failed.
PackSave ==
    /\ Step("pack", "save") /\ importJob.todo # <<>>
    /\ LET item == Head(importJob.todo) IN
       \/ /\ Saves(item.key, item.value)
          /\ Insert(item.key, item.value, <<"pack", importJob.run>>)
          /\ importJob' = [importJob EXCEPT !.todo = Tail(@), !.saved = Append(@, Len(stored) + 1)]
       \/ /\ ~Saves(item.key, item.value)
          /\ importJob' = [importJob EXCEPT !.todo = Tail(@)]
          /\ UNCHANGED stored
       \/ /\ importJob' = [importJob EXCEPT !.todo = Tail(@), !.failed = @ \cup {item}]
          /\ UNCHANGED stored
    /\ UNCHANGED <<batches, cands, importEvents, importBridges, importConn, backfill, runs>>

PackSaved ==
    /\ Step("pack", "save") /\ importJob.todo = <<>>
    /\ importJob' = [op |-> "pack", pc |-> "ledger", run |-> importJob.run, saved |-> importJob.saved,
               pack |-> importJob.pack, failed |-> importJob.failed]
    /\ UNCHANGED <<batches, cands, stored, importEvents, importBridges, importConn, backfill, runs>>

-----------------------------------------------------------------------------
(* backfill_import_bridges *)

PackEvents == {e \in DOMAIN importEvents : importEvents[e].kind = "pack"}

Unlinked == {m \in DOMAIN stored : /\ stored[m].from[1] = "pack"
                                   /\ \A l \in importBridges : l.memory # m}

\* Only while no import bridge exists, and only if there is an import.pack event.
BackfillStart ==
    /\ importConn = "free"
    /\ importBridges = {} /\ PackEvents # {} /\ Unlinked # {}
    /\ importConn' = "held" /\ backfill' = Unlinked
    /\ UNCHANGED <<batches, cands, stored, importEvents, importBridges, importJob, runs>>

\* The first event's pass links every memory; the later passes find none.
BackfillLink(m) ==
    /\ importConn = "held" /\ m \in backfill
    /\ LET first == CHOOSE e \in PackEvents : \A f \in PackEvents : e <= f IN
       importBridges' = importBridges \cup {[memory |-> m, event |-> first]}
    /\ backfill' = backfill \ {m}
    /\ importConn' = IF backfill = {m} THEN "free" ELSE "held"
    /\ UNCHANGED <<batches, cands, stored, importEvents, importJob, runs>>

-----------------------------------------------------------------------------
(* Failures *)

\* A store call other than a save fails and `?` returns from the handler.
StoreError ==
    /\ importConn = "free" /\ importJob # IdleJob
    /\ importJob.pc = "save" => importJob.todo = (IF importJob.op = "commit" THEN {} ELSE <<>>)
    /\ importJob' = IdleJob
    /\ UNCHANGED <<batches, cands, stored, importEvents, importBridges, importConn, backfill, runs>>

\* The process stops and starts: the tables stay.
ImportRestart ==
    /\ importJob' = IdleJob /\ importConn' = "free" /\ backfill' = {}
    /\ UNCHANGED <<batches, cands, stored, importEvents, importBridges, runs>>

JobStep ==
    \/ \E content \in Contents : ParseClassified(content)
    \/ ParseCandidate \/ ParseCounts \/ ParsePreview
    \/ CommitSave \/ CommitMark \/ CommitCount \/ CommitDone
    \/ \E b \in Batches : \E i \in DOMAIN cands[b] : CommitRefuse(i)
    \/ PackSave \/ PackSaved
    \/ LedgerAndBridge

ImportNext ==
    \/ JobStep
    \/ \E b \in Batches :
        \/ create_batch(b) \/ cancel_batch(b) \/ ParseStart(b)
        \/ \E chosen \in SUBSET DOMAIN cands[b] : CommitStart(b, chosen)
    \/ \E pack \in Packs : PackStart(pack)
    \/ \E key \in {NoKey}, value \in GoodValues : SaveElsewhere(key, value)
    \/ \E m \in DOMAIN stored : BackfillLink(m)
    \/ BackfillStart \/ ParseRefuse \/ ImportHourPasses \/ StoreError \/ ImportRestart

ImportSpec == ImportInit /\ [][ImportNext]_importVars

\* The Io worker carries on with a handler it has begun.
FairSpec == ImportSpec /\ WF_importVars(JobStep)

-----------------------------------------------------------------------------
(* Properties *)

SavedFromBatch(b) == {m \in DOMAIN stored : stored[m].from[1] = "batch" /\ stored[m].from[2] = b}

CommittedOf(b) == {i \in DOMAIN cands[b] : cands[b][i].status = "committed"}

\* A batch reported as committed adds up: each memory saved from it belongs to a
\* candidate marked committed, one to one, and total_committed is their number,
\* whatever crashes and store errors came before.
CommittedAddsUp ==
    \A b \in Batches : batches[b].status = "committed" =>
        /\ {cands[b][i].memory : i \in CommittedOf(b)} = SavedFromBatch(b)
        /\ batches[b].totals.committed = Cardinality(SavedFromBatch(b))
        /\ Cardinality(CommittedOf(b)) = Cardinality(SavedFromBatch(b))

\* What a preview shows is what the parse of one content made: the totals are those
\* of the candidates, none of which is missing or there twice.
PreviewTrue ==
    \A b \in Batches : batches[b].status = "preview_ready" =>
        /\ [i \in DOMAIN cands[b] |-> [value |-> cands[b][i].value, class |-> cands[b][i].class]]
              \in {[i \in DOMAIN c |-> [value |-> c[i].value, class |-> c[i].class]] : c \in Contents}
        /\ batches[b].totals.raw = batches[b].totals.ready + batches[b].totals.needs_review
                                     + batches[b].totals.quarantined
        /\ batches[b].totals.raw = Len(cands[b])

\* The numbers a user is shown are true, before the commit and after it.
BatchesAddUp == CommittedAddsUp /\ PreviewTrue

\* A committed or cancelled batch is final: neither its status nor its candidates
\* change again, and no memory is saved from it.
FinishedIsFinal ==
    [][\A b \in Batches : batches[b].status \in {"committed", "cancelled"} =>
            /\ batches'[b] = batches[b] /\ cands'[b] = cands[b]
            /\ SavedFromBatch(b)' = SavedFromBatch(b)]_importVars

\* An import.pack that reaches its ledger event has lost nothing: each item the quality
\* gate lets pass and the store did not fail on is a memory, by its key or by its value,
\* whether this call saved it or an earlier one that was interrupted.
PackLosesNothing ==
    importJob.op = "pack" /\ importJob.pc \in {"ledger", "bridge"} =>
        \A i \in DOMAIN importJob.pack :
            importJob.pack[i].value \in GoodValues /\ importJob.pack[i] \notin importJob.failed =>
            \E m \in DOMAIN stored :
                \/ stored[m].value = importJob.pack[i].value
                \/ stored[m].key = importJob.pack[i].key /\ importJob.pack[i].key # NoKey

\* "Create bridge events linking the import to each memory ID" (admin.rs) and "Bridge
\* events linking import to each committed memory" (import_commit.rs): a handler that
\* comes to its bridges records them and ends.
BridgesGetRecorded ==
    (importJob.op \in {"commit", "pack"} /\ importJob.pc = "bridge") ~> (importJob = IdleJob)
=============================================================================

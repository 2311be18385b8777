------------------------------- MODULE Ledger -------------------------------
(***************************************************************************)
(* The hash-chained event ledger of hom-brain (db/storage.rs) and the      *)
(* operator methods on it (services/ledger.rs).                            *)
(*                                                                         *)
(* Every worker appends events under the store's one connection mutex, so  *)
(* an append is one atomic step.  All ledger.* methods run on the Main     *)
(* worker, one at a time, but repair and reconcile first verify under the  *)
(* mutex, release it, decide, and take it again to write: appends of the   *)
(* other workers fall in between.                                          *)
(*                                                                         *)
(* SHA-256 is taken to be collision free: a hash is the record of what was *)
(* hashed.  The hashes have no key.  Rows change out of band (the legacy   *)
(* nightly writer that reconcile_mismatches is about, a damaged or a       *)
(* hand-edited file): any column a verification reads can change, with its *)
(* hash recomputed or not, and rows can go; no code of this version        *)
(* updates ledger_events.  A row that is gone keeps its index, so that the *)
(* index is row id and event_id.                                           *)
(***************************************************************************)
EXTENDS Integers, Sequences, FiniteSets

CONSTANTS
    Payloads,      \* payload values (canonical JSON) that can be appended
    BadJson,       \* a payload column that does not parse
    NULL,          \* the epoch column of a historical row (SQL NULL)
    Elsewhere,     \* an epoch column that names no epoch of ledger_epochs
    Gone,          \* the epoch column of a row that is no longer in the table
    Times,         \* values unix_now_s() may return when an epoch is created
    MaxEvents,     \* bound: rows in ledger_events
    MaxEdits,      \* bound: out-of-band edits
    MaxMutations   \* bound: rows in ledger_mutation_events

ASSUME TimesAssumption == Times \subseteq Nat

ASSUME SentinelAssumption ==
    /\ NULL \notin Nat /\ Elsewhere \notin Nat /\ Gone \notin Nat
    /\ NULL # Elsewhere /\ NULL # Gone /\ Elsewhere # Gone
    /\ BadJson \notin Payloads

VARIABLES
    events,     \* ledger_events in row order; the index is row id and event_id
    wrote,      \* history variable: events as append_ledger_tx inserted them
    noted,      \* history variable: events at the last ledger.verify that was
                \* answered pristine
    disturbed,  \* history variable: the epoch columns of the rows edited so far,
                \* before and after the edit
    edits,      \* number of out-of-band edits so far
    epochs,     \* ledger_epochs in insertion order (status is always 'active')
    certs,      \* ledger_repair_certificates, one per epoch
    mutations,  \* ledger_mutation_events in row order
    main,       \* the Main worker: idle, or between verify and write
    cache,      \* ledger_cache: "fresh", or "expired": empty or 300 s old
    conn        \* the connection mutex between steps: "free", or "wedged" by
                \* a worker that waits for it while holding it

vars == <<events, wrote, noted, disturbed, edits, epochs, certs, mutations,
          main, cache, conn>>

\* What the steps of the program leave alone, appends and answers apart.
outside == <<noted, disturbed, edits>>

-----------------------------------------------------------------------------
(* Hashes.  The event type, actor, subject and timestamp never change and   *)
(* are represented by the event id.                                         *)

\* An event_hash column that is not 64 hex digits, and a prev_hash that is NULL.
BadHash == [malformed |-> TRUE]

NoHash == [none |-> TRUE]

EventHash(id, payload, prev) == [id |-> id, payload |-> payload, prev |-> prev]

CertificateHash(cert) == [certificate |-> cert]

MutationHash(target, original, prev) ==
    [target |-> target, original |-> original, prevMutation |-> prev]

-----------------------------------------------------------------------------
(* Appending *)

LastOf(S) == CHOOSE i \in S : \A j \in S : j <= i

\* The newest active epoch, 0 when there is none.
ActiveEpoch(eps) ==
    IF eps = <<>> THEN 0
    ELSE CHOOSE e \in DOMAIN eps :
            \A f \in DOMAIN eps : eps[f].created <= eps[e].created

EpochColumn(e) == IF e = 0 THEN NULL ELSE e

RowsOf(rows, column) == {i \in DOMAIN rows : rows[i].epoch = column}

PresentRows(rows) == {i \in DOMAIN rows : rows[i].epoch # Gone}

\* event_hash of the last row of the table.
TableHead(rows) ==
    LET present == PresentRows(rows)
    IN  IF present = {} THEN NoHash ELSE rows[LastOf(present)].hash

\* Mutant of PrevHash: always chains to the last row of the table.
PrevHash_TableHead(rows, eps) == TableHead(rows)

\* prev_hash of a row to be appended: the last hash of the active epoch or its
\* anchor; without an epoch, the last hash of the table.
PrevHash(rows, eps) ==
    LET e    == ActiveEpoch(eps)
        mine == RowsOf(rows, e)
    IN  IF e # 0
        THEN IF mine # {} THEN rows[LastOf(mine)].hash ELSE eps[e].anchor
        ELSE TableHead(rows)

NewRow(rows, eps, payload) ==
    LET prev == PrevHash(rows, eps)
    IN  [payload |-> payload,
         prev    |-> prev,
         hash    |-> EventHash(Len(rows) + 1, payload, prev),
         epoch   |-> EpochColumn(ActiveEpoch(eps))]

-----------------------------------------------------------------------------
(* Verification *)

\* The hash the verifier expects in prev_hash of row i: of the row before it in
\* the same segment, or what the segment starts from.
ExpectedPrev(i) ==
    LET before == {j \in 1..(i - 1) : events[j].epoch = events[i].epoch}
    IN  IF before # {} THEN events[LastOf(before)].hash
        ELSE IF events[i].epoch = NULL THEN NoHash
        ELSE epochs[events[i].epoch].anchor

\* load_mutation_records keeps the first record of every target.
RecordOf(i) == {m \in DOMAIN mutations :
                  /\ mutations[m].target = i
                  /\ \A k \in 1..(m - 1) : mutations[k].target # i}

Covered(i) == \E m \in RecordOf(i) :
                 /\ mutations[m].original = events[i].hash
                 /\ mutations[m].post = events[i].payload

\* Mutant of RowStatus: the event hash is not recomputed.
RowStatus_LinksOnly(i) ==
    IF events[i].hash = BadHash               THEN "event_hash_not_64_hex"
    ELSE IF events[i].prev # ExpectedPrev(i)  THEN "prev_hash_mismatch"
    ELSE IF events[i].payload = BadJson       THEN "payload_json_invalid"
    ELSE "valid"

RowStatus(i) ==
    LET row == events[i] IN
    IF row.hash = BadHash               THEN "event_hash_not_64_hex"
    ELSE IF row.prev # ExpectedPrev(i)  THEN "prev_hash_mismatch"
    ELSE IF row.payload = BadJson       THEN "payload_json_invalid"
    ELSE IF row.hash = EventHash(i, row.payload, row.prev) THEN "valid"
    ELSE IF Covered(i)                  THEN "self_modified"
    ELSE "event_hash_mismatch"

\* verify_ledger_sequence stops at the first invalid row of a segment: 0 if none.
FirstInvalid(segment) ==
    LET bad == {i \in segment : RowStatus(i) \notin {"valid", "self_modified"}}
    IN  IF bad = {} THEN 0 ELSE CHOOSE i \in bad : \A j \in bad : i <= j

SelfModified(segment) ==
    {i \in segment : /\ RowStatus(i) = "self_modified"
                     /\ FirstInvalid(segment) = 0 \/ i < FirstInvalid(segment)}

Historical == RowsOf(events, NULL)

Current == IF ActiveEpoch(epochs) = 0 THEN {}
           ELSE RowsOf(events, ActiveEpoch(epochs))

Certified == \E c \in DOMAIN certs : certs[c].epoch = ActiveEpoch(epochs)

\* The fields of verify_ledger_conn's answer that the methods act on.
Verification ==
    LET badNow == FirstInvalid(Current)
        badOld == FirstInvalid(Historical)
        modified == SelfModified(Historical) \cup SelfModified(Current)
        first  == IF badNow # 0 THEN badNow ELSE badOld
    IN  [valid    |-> IF epochs # <<>>
                      THEN /\ badNow = 0
                           /\ Current # {}
                           /\ badOld = 0 \/ Certified
                      ELSE badOld = 0,
         pristine |-> first = 0 /\ modified = {},
         modified |-> modified,
         first    |-> first,
         total    |-> Cardinality(PresentRows(events)),
         head     |-> TableHead(events)]

-----------------------------------------------------------------------------
Idle == [at |-> "idle"]

Init ==
    /\ events = <<>> /\ wrote = <<>>
    /\ noted = <<>> /\ disturbed = {} /\ edits = 0
    /\ epochs = <<>> /\ certs = <<>> /\ mutations = <<>>
    /\ main = Idle
    /\ cache = "fresh"
    /\ conn = "free"

\* Any worker appends an event with the rest of its transaction.
Append_ledger(p) ==
    /\ conn = "free"
    /\ Len(events) < MaxEvents
    /\ events' = Append(events, NewRow(events, epochs, p))
    /\ wrote' = Append(wrote, NewRow(events, epochs, p))
    /\ UNCHANGED <<outside, epochs, certs, mutations, main, cache, conn>>

\* ledger.verify, with the cache refresh at its end.
VerifyLedger ==
    /\ conn = "free" /\ main = Idle
    /\ noted' = IF Verification.pristine THEN events ELSE noted
    /\ cache' = "fresh"
    /\ UNCHANGED <<events, wrote, disturbed, edits, epochs, certs, mutations,
                   main, conn>>

\* Mutant of RepairVerify: an existing certificate does not stop the repair.
RepairVerify_Again ==
    /\ conn = "free" /\ main = Idle
    /\ Verification.first # 0
    /\ main' = [at |-> "repair", first |-> Verification.first,
                total |-> Verification.total, head |-> Verification.head]
    /\ UNCHANGED <<events, wrote, outside, epochs, certs, mutations, cache, conn>>

\* ledger.repair_segmented up to the release of the mutex.  It answers without a
\* change when nothing is invalid or the active epoch has a certificate.
RepairVerify ==
    /\ conn = "free" /\ main = Idle
    /\ Verification.first # 0
    /\ ~Certified
    /\ main' = [at |-> "repair", first |-> Verification.first,
                total |-> Verification.total, head |-> Verification.head]
    /\ UNCHANGED <<events, wrote, outside, epochs, certs, mutations, cache, conn>>

\* Mutant of RepairCommit: the event is appended before the epoch is inserted.
RepairCommit_EventFirst(p, now) ==
    /\ conn = "free" /\ main.at = "repair"
    /\ Len(events) < MaxEvents
    /\ LET cert == [first |-> main.first, total |-> main.total,
                    head |-> main.head, created |-> now]
           row  == NewRow(events, epochs, p)
       IN  /\ epochs' = Append(epochs, [anchor |-> CertificateHash(cert),
                                        created |-> now])
           /\ certs' = Append(certs, [epoch |-> Len(epochs) + 1, cert |-> cert,
                                      event |-> Len(events) + 1])
           /\ events' = Append(events, row)
           /\ wrote' = Append(wrote, row)
    /\ main' = Idle
    /\ UNCHANGED <<outside, mutations, cache, conn>>

\* ... and its transaction: epoch, certificate and the first event of the epoch.
RepairCommit(p, now) ==
    /\ conn = "free" /\ main.at = "repair"
    /\ Len(events) < MaxEvents
    /\ LET cert == [first |-> main.first, total |-> main.total,
                    head |-> main.head, created |-> now]
           eps  == Append(epochs, [anchor |-> CertificateHash(cert),
                                   created |-> now])
           row  == NewRow(events, eps, p)
       IN  /\ epochs' = eps
           /\ certs' = Append(certs, [epoch |-> Len(eps), cert |-> cert,
                                      event |-> Len(events) + 1])
           /\ events' = Append(events, row)
           /\ wrote' = Append(wrote, row)
    /\ main' = Idle
    /\ UNCHANGED <<outside, mutations, cache, conn>>

\* record_mutation_tx, then the caller's refresh_ledger_cache.  The caller still
\* holds the mutex: when the cache has expired the refresh waits for it forever.
RecordMutationTx(i) ==
    /\ Len(mutations) < MaxMutations
    /\ LET prev == IF mutations = <<>> THEN NoHash
                   ELSE mutations[Len(mutations)].hash
       IN  mutations' = Append(mutations,
              [target |-> i, original |-> events[i].hash,
               post |-> events[i].payload, prev |-> prev,
               hash |-> MutationHash(i, events[i].hash, prev)])
    /\ conn' = IF cache = "expired" THEN "wedged" ELSE conn
    /\ main' = Idle
    /\ UNCHANGED <<events, wrote, outside, epochs, certs, cache>>

\* The target of a mutation is read again by its event_id and must parse.
Recordable(i) == events[i].epoch # Gone /\ events[i].payload # BadJson

RecordMutation(i) ==
    /\ conn = "free" /\ main = Idle
    /\ Recordable(i)
    /\ RecordMutationTx(i)

\* ledger.reconcile_mismatches answers from the verification alone: "already
\* reconciled" as soon as one row is self-modified, "no mismatches" when no row
\* is invalid, "mismatch_not_hash" for any other kind of damage.
AnswersAlreadyReconciled == Verification.modified # {}

\* Otherwise it releases the mutex with the first invalid row in hand.
ReconcileVerify ==
    /\ conn = "free" /\ main = Idle
    /\ ~AnswersAlreadyReconciled
    /\ Verification.first # 0
    /\ RowStatus(Verification.first) = "event_hash_mismatch"
    /\ main' = [at |-> "reconcile", first |-> Verification.first]
    /\ UNCHANGED <<events, wrote, outside, epochs, certs, mutations, cache, conn>>

\* ... and its write, unless the row is not what it was any more.
ReconcileCommit ==
    /\ conn = "free" /\ main.at = "reconcile"
    /\ \/ /\ Recordable(main.first)
          /\ RecordMutationTx(main.first)
       \/ /\ ~Recordable(main.first)
          /\ main' = Idle
          /\ UNCHANGED <<events, wrote, outside, epochs, certs, mutations, cache, conn>>

\* The background task of BrainRuntime::new.
RefreshTask ==
    /\ conn = "free" /\ cache = "expired"
    /\ cache' = "fresh"
    /\ UNCHANGED <<events, wrote, outside, epochs, certs, mutations, main, conn>>

\* 300 seconds pass since the last refresh.
CacheExpires ==
    /\ cache = "fresh"
    /\ cache' = "expired"
    /\ UNCHANGED <<events, wrote, outside, epochs, certs, mutations, main, conn>>

\* The process stops at any point and App::new runs again on the same file; it
\* fills the cache before the workers start.
Restart ==
    /\ main' = Idle
    /\ cache' = "fresh"
    /\ conn' = "free"
    /\ UNCHANGED <<events, wrote, outside, epochs, certs, mutations>>

-----------------------------------------------------------------------------
(* Out-of-band edits of stored rows *)

Columns == {NULL, Elsewhere} \cup DOMAIN epochs

EditRow(i, row) ==
    /\ edits < MaxEdits
    /\ events[i].epoch # Gone
    /\ row # events[i]
    /\ events' = [events EXCEPT ![i] = row]
    /\ disturbed' = disturbed \cup {events[i].epoch, row.epoch}
    /\ edits' = edits + 1
    /\ UNCHANGED <<wrote, noted, epochs, certs, mutations, main, cache, conn>>

\* The payload, its hash kept.
RewritePayload(i, p) == EditRow(i, [events[i] EXCEPT !.payload = p])

\* The payload together with a link and a hash that fit it.
RewriteRow(i, p) ==
    /\ events[i].epoch \in {NULL} \cup DOMAIN epochs
    /\ EditRow(i, [events[i] EXCEPT !.payload = p, !.prev = ExpectedPrev(i),
                                   !.hash = EventHash(i, p, ExpectedPrev(i))])

\* The hash, with one that is not 64 hex digits or is of another content.
ReplaceHash(i, hash) == EditRow(i, [events[i] EXCEPT !.hash = hash])

\* The epoch column.
MoveRow(i, column) == EditRow(i, [events[i] EXCEPT !.epoch = column])

LoseRow(i) == EditRow(i, [events[i] EXCEPT !.epoch = Gone])

Edit(i) ==
    \/ \E p \in Payloads \cup {BadJson} : RewritePayload(i, p)
    \/ \E p \in Payloads : RewriteRow(i, p)
    \/ ReplaceHash(i, BadHash)
    \/ \E p \in Payloads : ReplaceHash(i, EventHash(i, p, events[i].prev))
    \/ \E column \in Columns : MoveRow(i, column)
    \/ LoseRow(i)

-----------------------------------------------------------------------------
Next ==
    \/ \E p \in Payloads : Append_ledger(p)
    \/ VerifyLedger
    \/ RepairVerify
    \/ \E p \in Payloads, now \in Times : RepairCommit(p, now)
    \/ \E i \in DOMAIN events : RecordMutation(i)
    \/ ReconcileVerify
    \/ ReconcileCommit
    \/ RefreshTask
    \/ CacheExpires
    \/ Restart
    \/ \E i \in DOMAIN events : Edit(i)

Spec == Init /\ [][Next]_vars

-----------------------------------------------------------------------------
(* Properties *)

\* The variables hold what the schema and the handlers allow.
TypeOK ==
    /\ DOMAIN events = 1..Len(events) /\ DOMAIN wrote = 1..Len(events)
    /\ \A i \in DOMAIN events : /\ events[i].payload \in Payloads \cup {BadJson}
                                /\ events[i].epoch \in Columns \cup {Gone}
                                /\ wrote[i].payload \in Payloads
                                /\ wrote[i].epoch \in {NULL} \cup DOMAIN epochs
    /\ \A e \in DOMAIN epochs : epochs[e].created \in Times
    /\ \A m \in DOMAIN mutations : mutations[m].target \in DOMAIN events
    /\ main.at \in {"idle", "repair", "reconcile"}
    /\ cache \in {"fresh", "expired"} /\ conn \in {"free", "wedged"}

\* The rows of a segment up to row i.
UpTo(rows, column, i) == {<<j, rows[j]>> : j \in {k \in RowsOf(rows, column) : k <= i}}

\* Tamper evidence, as far as a chain of hashes without a key can give it.  When
\* ledger.verify was answered pristine and verification is pristine again, then
\* a row of that time whose hash is still the hash of a row of its segment
\* vouches for the segment up to it: the same rows, none changed, none missing,
\* none moved in or out, whatever appends, repairs, recorded mutations and edits
\* of any column came between.  (The answer carries the head hash of each
\* segment; without an earlier one, an edited head row with its recomputed hash,
\* lost rows at the end and a row moved out of its segment are all pristine.)
TamperEvident ==
    Verification.pristine =>
        \A c \in {NULL} \cup DOMAIN epochs :
            \A i \in RowsOf(noted, c), k \in RowsOf(events, c) :
                noted[i].hash = events[k].hash => UpTo(noted, c, i) = UpTo(events, c, k)

\* No false alarm: a ledger is reported valid unless rows of the segments that
\* count were edited, however appends interleave with the two halves of a
\* repair; edits of the historical segment are forgiven once a certificate
\* covers it.
NoFalseAlarm ==
    /\ ActiveEpoch(epochs) \notin disturbed
    /\ Certified \/ NULL \notin disturbed
    => Verification.valid

\* No row escapes the verifier by itself: it reads the historical segment and the
\* newest epoch only, so there must never be a second epoch, and a row must be in
\* one of the two unless its epoch column was changed out of band.  Rests on the
\* certificate found by a check made before the mutex was released.
EveryRowVerified ==
    /\ Len(epochs) <= 1
    /\ \A i \in DOMAIN events :
          events[i].epoch = wrote[i].epoch => i \in Historical \cup Current

\* A hash column of row i: of some content of that row, or damaged.
HashOf(i, hash) == hash = BadHash \/ hash.id = i

\* Each certificate tells of the table as it was before its epoch: the first
\* invalid row and the observed head are of rows before the repair event (the
\* appends made while the repair did not hold the mutex come between), the total
\* does not exceed the head's place, and the epoch starts with the repair event,
\* chained from the certificate hash.
CertificateAnchorsEpoch ==
    \A c \in DOMAIN certs :
        LET cert == certs[c].cert
            e    == certs[c].epoch
        IN  /\ cert.first < certs[c].event
            /\ \E head \in 1..(certs[c].event - 1) :
                  cert.total <= head /\ HashOf(head, cert.head)
            /\ \A i \in RowsOf(wrote, e) : certs[c].event <= i
            /\ wrote[certs[c].event].epoch = e
            /\ wrote[certs[c].event].prev = CertificateHash(cert)

\* The mutation records form a chain of their own, and each names a hash of its
\* target row.
MutationsChained ==
    \A m \in DOMAIN mutations :
        LET r == mutations[m] IN
        /\ r.prev = IF m = 1 THEN NoHash ELSE mutations[m - 1].hash
        /\ r.hash = MutationHash(r.target, r.original, r.prev)
        /\ HashOf(r.target, r.original)

\* The two side tables of the ledger, certificates and mutation records, speak of
\* rows that were inserted and of hashes of those rows.
SideTablesTrue == CertificateAnchorsEpoch /\ MutationsChained

\* ledger.reconcile_mismatches answers already_reconciled only when no hash
\* mismatch is left to reconcile (exposure_policy.rs: "Reconciles pre-existing
\* hash mismatches as tracked self-mutations").
AlreadyReconciledIsTrue ==
    AnswersAlreadyReconciled =>
        \/ Verification.first = 0
        \/ RowStatus(Verification.first) # "event_hash_mismatch"

=============================================================================

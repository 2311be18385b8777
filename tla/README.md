# Verification of HOM Local

HOM Local is a memory service that runs on one machine: `hom-brain` owns a
SQLite database (memories, an event ledger, settings, permission grants, gates,
imports) and answers signed requests on a local socket; `hom-ingress` is the
HTTP and UI front that forwards to it; `hom-shared` holds what both use
(envelopes, keys, canonical JSON). The crates are under `src/crates`.

This directory has TLA+ modules translated from that source, TLC configurations
that check them on small instances, and TLAPS proofs. `PROJECT.json` lists
components, runs, the source lines of every definition, mutants, findings,
hazards and theorems.

    tlc -workers 2 -config MCLedger.cfg MCLedger     one run
    tlapm LedgerProofs.tla                           one proof module

## 1. The system

| Component | State | Operations | Interaction | Module |
|---|---|---|---|---|
| Event ledger (`db/storage.rs`, `services/ledger.rs`) | `ledger_events`, epochs, repair certificates, mutation records, verification cache | append, verify, segmented repair, record mutation, reconcile | every mutating handler appends in its own transaction | Ledger |
| Work queue (`ipc/router.rs`) | three bounded deques, schedule cursor | push, pop | owned by a mailbox | WeightedQueue |
| Worker runtime (`workers/mod.rs`) | five mailboxes (queue, Notify), oneshot channels | route, worker loop, timers | called by the IPC server; runs all services | WorkerMailbox |
| Request envelope (`hom-shared/envelope.rs`) | nonce table, known clients | `verify_body`, pruning | one mutex shared by all connections | Envelope |
| IPC server (`ipc/server.rs`, `lib.rs`) | connections, shutdown flag | accept, read, verify, decide, dispatch, answer | envelope, security policy, ledger, router | Ipc, Routes |
| Quality gates (`services/gates.rs`) | plans, task contracts, amendments, decisions, evidence, arguments | approve, derive, preflight, amend, submit, complete, argue, verify a claim | workers ask it before a mutating method | Gates |
| Permissions (`services/permissions.rs`) | settings, grant rows | set profile, roots, grants, revoke, reconcile at start, tool gate | settings, ledger, start-up | Permissions |
| Imports (`import_*.rs`, `admin.rs`) | batches, candidates, memories, bridge rows | create, parse, commit, cancel, pack, backfill | store mutex, ledger, bridge | Import |
| Nightly (`nightly.rs`, weights) and maintenance (`admin.rs`) | weights, artifacts, snapshots; the database as a file | read, plan, snapshot, commit, link; purge, backup | timer task beside the Cognition worker | Nightly |
| Sessions (`session.rs`, `sessions.rs`, `projects.rs`) | projects, sessions, artifacts | create, activate, rename, compact, reason | memory store, ledger, bridge | Sessions |
| Reasoning bridge (`reasoning_bridge.rs`) | bridge events, tool events | record, trace, backfill | imports, nightly, sessions, tools | in Import, Nightly, Sessions |
| Memory store and recall (`storage.rs`, `recall_*.rs`, ranking) | memories, atoms, embeddings, indexes | save, recall | quality gate, ledger | save in Import, Nightly, Sessions |
| Ingress front (`http.rs`, `ui_routes.rs`, `brain_client.rs`) | one request at a time per handler; permission policy | 204 routes | brain client over the socket | Routes, Front, Exchange |
| Ingress state (`http.rs`, `ui_routes.rs`, `rate_limit.rs`) | selected model, session skills, rate windows | select, bind, limit | settings of the brain, a file | Ingress |
| Capability mesh (`capability_mesh.rs`) | JSON files of previews, reviews, plugins and MCP servers; MCP sessions; a chat turn | preview and apply a write, resolve a review, MCP life cycle, tools, chat | UI routes in parallel; the brain, providers, processes | FileStores, Mcp, Chat |

What is hard here: one store mutex taken several times inside one handler, so
that a decision is made on a state that has moved (repair, reconcile, import,
permissions, nightly); the same mutex taken twice by one thread; handlers that
are not transactions and stop half way; callers that time out while their job
runs on; a timer beside a worker; five tables in five files that must agree for a
call to be served; caches beside the brain; a wall clock that orders rows, prunes
nonces and limits rates. `PROJECT.json` ("hazards") lists each at its line.

## 2. Modules and runs

Each module keeps the names of the source. A step of a module is what the code
does while it holds the mutex that protects the state; where a handler releases
it, the handler is several actions with its local variables in between. A
`Name_Suffix` operator before `Name` is a mutant: a plausible bug against which
the properties are tried; it is no part of the specification.

Modules whose components share no state are checked in one run: the MC module
has a variable `part`, chosen initially, and a behaviour moves only the module
(or the part of a module) it names while the others stay as they began. This
checks each module as if alone; it adds no interleavings and removes none within
a part. `CHECK_DEADLOCK FALSE` is set where bounds fill up or a part comes to its
end (`ledger`, `mailbox`, `policy`, `memory`, `mesh`); `service` checks deadlock.

### Ledger — MCLedger; runs `ledger`, `reconcile_claim`

`append_ledger_tx` is one step of any worker; `repair_segmented_ledger` and
`reconcile_mismatches` are two each (verify, then write), with appends and
out-of-band edits between. An edit changes a payload, a hash, an epoch column, a
payload together with a hash computed anew (the hashes have no key), or removes
a row; no code of this version makes them. A hash is the record of what was
hashed, which makes it collision free. History variables remember rows as
inserted (`wrote`), the table at the last `ledger.verify` answered pristine
(`noted`), and the epoch columns of edited rows (`disturbed`). `conn = "wedged"`
is the mutex waited for by its own holder: `record_mutation` calls
`refresh_ledger_cache` while its guard lives and, once the cache is 300 s old,
locks it again. Only a restart helps.

* `TamperEvident`: what a chain without a key can give. When verification was
  answered pristine and is pristine again, a row whose hash is still in its
  segment vouches for every row before it: the same rows, none changed, lost or
  moved. One answer alone vouches for nothing: a head row rewritten with its
  hash, rows lost at the end and a row moved to another segment are pristine to
  the code (`storage.rs:2637-2648`), in the model as well.
* `NoFalseAlarm`: a ledger whose counted segments were not edited is valid.
* `EveryRowVerified`: no row falls outside the two segments the verifier reads,
  but those whose epoch column was changed out of band.
* `SideTablesTrue` (`CertificateAnchorsEpoch`, `MutationsChained`): what repair
  and recorded mutations write is about rows and hashes that were there.

Bounds: three events, two edits, two mutation records. A repair needs one bad
row, one row between its halves and its own event: three. Two edits change a row
and its successor, or a row twice. Payloads are symmetric.

`reconcile_claim` is a violation: with one row reconciled, the method answers
"already reconciled" for every later mismatch.

### WorkerMailbox over WeightedQueue — MCWorkerMailbox; run `mailbox`

Callers in `route` (push, notify, wait, time out) and the worker loop (wake, pop,
run, park). `Notify` is one stored permit. `NoLostWakeup`, `OrderKept`, and under
fairness `CallsServed`: every job runs (a timeout is no cancellation) and every
call ends (a panic is answered too).

Fairness: weak fairness of the worker, of the notification after a push and of
receiving an answer. Tokio polls tasks that are ready, and handlers are taken to
return; Ledger and Import show handlers that do not (self-locking), which is why
this assumption is stated and not hidden. Timeouts and new requests are not
fair. Three requests over classes of one and two places fill a class, race two
pushes with one park, and leave one behind.

### The way of a request — MCService; run `service`

*Front and Routes* (part `front`) follow one HTTP request. Routes holds the
tables: the calls each handler of `ui_routes.rs` makes, the profile a handler
needs, and in the brain the scope table, the permitted methods, the worker table
and the dispatch table. Front is the handler: its checks, its calls one after
the other, its answer, while the profile changes and the brain stops, starts,
refuses, is slow, or runs a job whose caller has given up.

* `ImplementsExchange`: Front implements *Exchange*, the promise to a caller: one
  answer, nothing runs twice or unasked, "ok" only after everything needed has
  run, and the answer comes unless the call is stuck in a brain whose store is
  wedged. Late jobs and a brain that stopped after doing what it was asked are
  steps of Exchange too, which is why a failure promises nothing.
* `RanAsAllowed`: gates are written only for a verified signature, a purge runs
  only on a confirmed request after its profile change, the workspace is written
  only under a profile that allows it.
* `AcceptedIsRouted`: what passes the scope table and the policy has a worker and
  a handler.

Fairness is weak fairness of `Step /\ ~Hangs`: the ingress does not stop on a
request, and a brain whose store is not wedged answers, refuses or gives up. The
code limits only some waits: `route` by 30 s, `runtime_status` of the ingress by
3 s. Neither `BrainClient` nor the methods `dispatch_value` answers itself nor a
denial, which is recorded in the store first, has a limit; once `import_pack` has
wedged the store (`StoreWedges`, the finding `import_bridge`) such a call never
comes back, and blocked threads may take the limit of `route` with them. So
`Hangs` assumes nothing of any call to a wedged brain, and Exchange has `stuck`
for it: the request is answered when that brain is stopped, or never. Nothing is
assumed of late jobs, stops, starts or profile changes. Every route, signature
and flag is an initial state; there is no bound.

*Envelope and Ipc* (part `socket`). Envelope is the abstract specification of
what the verifier promises, Ipc the server that uses it from several connections,
whose steps contain it; so the properties of Envelope are checked of the server,
with its interleavings. Signatures and body hashes are attributes of the request (right or
wrong); the model keeps the order of the checks, the nonce table and the clock,
which may be set back by `MaxBack`. `Skew + MaxBack <= Ttl` is the assumption
(30 s and 60 s in the code leave 30 s of fall-back).

* `JudgedOnce` and `TableBounded`: replay protection within one process and a
  bounded table. The table is in memory: a restart within the skew makes a
  request acceptable again, and the properties say "per process".
* `OnlyVettedDispatched`: only requests that every check agrees with reach a worker.
* `RecordedBeforeAnswer`: appending a denial to the ledger and answering it are
  two steps, the append may fail (`server.rs:116` goes on), and other tasks run
  between; an answer that says "recorded" is true when it is given.

Two connections, nine requests (a good one and a copy for each way a frame can
end), Skew 1, Ttl 2, seven seconds: pruning, fall-back and a second window fit.

*WeightedQueue* (part `queue`): `push`, `pop`, caps and the 21-slot schedule.
`BoundedBypass`: a class with a job is passed over at most 2, 5 or 20 times. Two
places per class are enough to empty, refill and overflow a class at each of the
21 cursor positions.

### Gates and Permissions — MCPolicy; runs `policy`, `gates_argument`

*Gates*: one action per handler; a handler is one transaction, row ids are
sequence indexes. `ExecutedInContract` ties a mutating call that named a task and
ran, the decision it carried, the task and its approved amendments together. A
call that names no task runs without a decision (`gates.rs:936-939`): the gates
bind callers that name their task, and of others nothing is claimed.
`CertifiedIsProved`
ties completion and acceptance to passed evidence; `DecidedIsFinal` says nothing
decided is taken back. A plan of two tasks of different methods, one amendment,
two records of evidence, two decisions and one argument allow a decision of one
task to be presented for the other and failed evidence to arrive before and
after a completion.

*Permissions*: settings are persisted one by one, then grants are synchronised
one by one; a store error or a restart ends the handler anywhere.
`OneActiveRow`, `NoSilentBroadening`, `OffIsRevoked`, `RevokedSurvivesRestart`,
`RevokedRootClosed` relate settings, grant rows, the clock and start-up. The
order in which the handler writes is any order, which includes the code's. Grant
rows that agree in all kept columns are one row. Two toggles (one the code
synchronises, one it does not), one list with two paths of which one is a prefix
of the other, two rows, one expiry and one restart.

`gates_argument` is a violation: a task completes with an unsatisfied argument.

### Writers of the memory tables — MCMemory; runs `memory`, `import_bridge`, `compaction_claim`, `backup_claim`

*Import* (parts `batches`, `packs`): the unit is the store call; between two of
them other workers save memories, the store fails, or the process stops.
`BatchesAddUp` (`CommittedAddsUp`, `PreviewTrue`), `FinishedIsFinal` and
`PackLosesNothing` relate batches, candidates, memories and totals. One batch of
three candidates, a pack of three items imported twice, three memories.

*Nightly* (part `nightly`): a cycle takes the mutex once per phase; the timer and
the worker run cycles beside each other, saves, tool calls, a purge and restarts.
Weights are integers in basis points and the update is the code's; the signal of
a day is an input.

* `WeightsLedgered`: every weight is the one its last ledgered update says.
* `UndoPossible`: the snapshot of a commit that no other change overtook is the
  table just before it. Overtaken cycles are why the condition is there.
* `CapsHeld`: switches, caps per cycle and per source, step and weight bounds.
* `BridgesKept`: a tool event without its row comes only from a purge (and stops
  every later cycle from changing weights); artifacts and rows belong together
  unless a purge or a cut came between.

Three memories of two sources, caps of 60 and 50 percent instead of 10 and 5, so
that three memories meet both; two cycles, one purge, a zero and a large signal.

*Sessions* (parts `sessions`, `artifacts`): `set_active` commits twice; a
compaction is a save, a ledger event and bridge rows in transactions of their
own, and can be cut between any two.

* `SessionsTold`: at most one active session, the ledger gives back every title,
  and the two ways of counting memories agree.
* `CompactionTraceable`: a row leads to an event and this to an artifact; an
  answered compaction has a row for every source; the sources are the oldest
  memories without a gap; it holds no secret.

Two sessions, four texts (two when session tables change as well), limits 1 and 2.

Violations: an import waits for the mutex it holds (`import_bridge`, under weak
fairness of the Io worker's own steps); a compaction of other memories is refused
as a duplicate (`compaction_claim`); a backup lacks what is in the write-ahead log
(`backup_claim`).

### State of the ingress — MCMesh; runs `mesh`, `chat_claim`

*FileStores* (part `stores`): previews with certificates, code reviews, plugins.
A handler reads the whole file, changes one entry and writes it all back through
a temporary file of a fixed name, without a lock, on a multi-threaded server.
Every file system call is a step; a handle follows the file it was opened on
through another handler's rename; a file that does not parse is an empty store.
The stores share nothing, so a behaviour follows one of them.

* `StoreAsTold`: as long as handlers do not overlap, the file is exactly what
  acknowledged requests made it, across errors and crashes after any call. With
  overlap this is false of the code (a lost update, or a torn file), which is why
  the property carries the condition.
* `CertificatesTrue`: no certificate without its write, overlap or not; and no
  write without its certificate, unless handlers overlapped or one ended between
  the two. Then the preview is still pending and can be applied twice.

Two requests at a time, two previews of one file, one review, one plugin, two
entries per id in the append-only lists.

*Ingress* (parts `select`, `skills`, `limit`): four handlers write the selected
model to the brain and to a cache; skills are bound in memory and written to a
file; the limiter keeps a window by the wall clock, which may go back.
`SettledAgrees`: what a selection that nothing overlapped answered is what the
brain keeps, restarts of the ingress included; chat uses it until the ingress
restarts, and the default (`http.rs:350`) from then until the field is selected
again, so that brain and chat differ meanwhile; `model_selected` reports the
brain's once it has a provider and a model, and the cache until then. Skills bound
by a request that nothing overlapped are bound and in the file, also after a
restart. `RetryTrue`:
a client told to come back is served then. Two requests at a time, three bodies,
one call still queued when its caller has given up; a limit of 2 per 3 seconds
over 8 seconds.

*Mcp* (part `mcp`) and *Chat* (parts `chat`, `both`): config files, runtime
entries behind a mutex and their processes, with overlapping connect, disable and
call requests; the turn of a chat with recall, up to three tools, and the answer
gate; `both` lets servers come and go during a turn.

* `SessionsOwned`: a running process has one owner, none is left behind; a server
  disabled by a request nothing overlapped stays down.
* `RunAsGated`: a tool runs as described and as the brain's gate said in this
  execution, or it is of the namespace `mcp`, and those run without any check
  (`chat_claim`). They do not run on a server whose disabling is done and was
  overlapped by no other request. While a disabling is under way, when another
  request overlapped it, or when `mcp_create` wrote the config disabled, they can.
* `AnswerBacked`: an answer let through claims nothing that did not happen in its turn.

`chat_claim` is a violation: `docs/security.md:45-50` says every tool invocation goes
through descriptor, domain, profile and gate; tools of MCP servers do not.

One server, two callers, two processes (one caller and one process in `both`), a
tool of every kind and one nobody has, and every kind of claim.

## 3. Proofs

TLC shows a property on an instance; the theorems hold for every value of the
constants, under the assumptions named beside them. Every invariant and every
action property that a passing run checks is proved. A module of proofs belongs
to the modules of one run. The properties are seldom inductive as they stand;
what is added, and why:

* `LedgerProofs` — `TypeCorrect`, `NoRowEscapes`, `TamperEvidence`,
  `FalseAlarmFree`, `SideTables`. The verifier speaks of stored rows and of a
  previous row, the steps of rows as written. `IInv` adds that there is one epoch
  at most, with its certificate and a row (`SingleEpoch`; a repair between its
  halves found none, and nobody else makes one), that historical rows precede the
  rows of the epoch (`Contiguous`), that an inserted hash covers what was inserted
  and a row differs from it only if its segments were disturbed (`Rows`), that in
  an undisturbed segment each row names the hash of the row before it
  (`Chained`), and that the table noted at a pristine answer is a chain from the
  anchors of today (`Noted`, `ChainOk`). `TamperEvidence` compares that chain with
  the pristine chain of today from their common row backwards: equal hashes are
  equal contents and equal links (`LinkBack`), so by well-founded induction on the
  row id the two have the same rows all the way to the anchor. `InHand` says that
  what a repair verified before it let the mutex go is of the rows before its own.
* `WeightedQueueProofs` — `NoStarvation`. `SlotAhead` is the strengthening:
  within what is left of its allowance, a class with a job meets a slot of its
  own, wherever the cursor has jumped.
* `WorkerMailboxProofs` — `WakeupsKept` (`NoLostWakeup` is inductive with the type
  of `caller`), `NoJobLost` (with the type of the logs), and `NoClassStarves`: with
  racing callers, panics and timeouts the mailbox still passes a class over only
  `BoundedBypass` times. It needs no more than that a mailbox step is a step of
  WeightedQueue or leaves it alone, and `NoStarvation` there.
* `ServiceProofs` — Envelope: `AtMostOnce`, `NonceWindow`. `UsedUp`: a key that was
  judged is in the table, or older than `Ttl` against the highest clock value;
  this is where `Skew + MaxBack <= Ttl` is used. Ipc: `DispatchedWereVetted` and
  `DenialsAreOnRecord` from `ServerInv` (what has reached the policy is authentic,
  what is past the append is on the ledger), and `ServerJudgesOnce`, which carries
  the two theorems of Envelope over to any number of connections.
  Front: `NothingRunsUnchecked`, `NoCallIsLost` and `RequestsAreExchanges`, the
  safety part of the refinement, from one invariant over all routes. `CallsOk`
  says of the tables in Routes what the steps need: the calls of a handler are
  different methods, each with a worker and a dispatch entry; only gate handlers
  write gates; only `brain_purge` purges, second. `FrontInv` then says of a
  request that calls still to come have neither run nor been left behind
  (`CallsMade`: hence nothing runs twice, late jobs included), that calls behind
  it have run unless an error is kept for the answer (hence "ok" means done), and
  that a purge left behind still has its profile change as the last thing run
  (`PurgeLast`).
* `GatesProofs` — `GatesExecutedInContract`, `GatesCertifiedIsProved`,
  `GatesDecidedIsFinal`. `IInv` ties a call that named its task to its preflight and
  this to the contract of the time; `Forward` says that tables only grow and that contracts,
  decided amendments, evidence and decisions stay, so that what was true when a
  call was let through stays true.
* `PermissionsProofs` — `SingleGrant`, `BroadeningConfirmed`: by `Vetted` what an
  unconfirmed handler still has to write is no broader than what is stored, which
  survives the writes of its other settings. `RevokedStaysRevoked`.
  `OffHasNoGrant`: `OffInv` follows a toggle through a handler in progress: it will
  be on, or its grant will be revoked, or there is none but the user's own.
  `RevokedRootStaysClosed`: `ClosedInv` says the same of a root and the settings a
  handler still has to write.
* `MemoryProofs` — Nightly: `LedgerExplainsWeights` (inductive);
  `BridgesStayKept` from `BridgeInv` (who holds the mutex, which cycle is writing
  which rows, and what a purge has emptied so far); `CapsStayHeld` and
  `SnapshotUndoes` from `CapInv`: what a cycle between its phases has chosen is
  within the caps, and is still the table's unless it was overtaken. The
  selection is a set, a mutation being chosen when fewer than the caps were
  chosen before it; that its size is within the caps is a pigeonhole argument
  over the order of the proposals. Import: `FinishedStaysFinal` (`JobInv`),
  `PacksLoseNothing` (`PackInv`: items behind the loop are saved, known or
  failed), `BatchesAlwaysAddUp` (`AddInv`: a batch between two commits of one
  item differs from its totals by just that item). Sessions: `SessionsStayTold`
  (`SessionsInv`) and `CompactionsStayTraceable` (`TraceInv`: the
  call in progress holds the oldest memories without a gap, and what it has
  saved, logged and bridged are stages of one artifact).
* `MeshProofs` — Ingress: `RetryIsTrue` (`LimitInv`), `UndisturbedIsSettled`
  (`SelectInv`, `SkillInv`: a request that is still alone finds nobody else
  writing, and the cache holds the fields selected since the start and no others). FileStores: `StoreStaysAsTold` (`AloneInv`: the temporary file of the
  one handler holds the told store with its own change), `CertificatesStayTrue`
  (`BoundInv` counts the write a handler is about to make; `ExactInv`). Mcp:
  `SessionsStayOwned` (`OwnInv`, `DownInv`). Chat, by itself and with Mcp:
  `RunsStayGated`, `AnswersStayBacked` (`ChatInv`: an execution past a check has
  passed it, traces are backed by runs, and rounds left bound what can run).

Assumptions on constants are the named `ASSUME`s of each module, evaluated by
TLC on the instances: `SentinelAssumption`, `NoJobAssumption`, `ServersAssumption`
and `ClaimAssumption` say that a value standing for "none" is not an ordinary
one; `RequestAssumption` and the `TimesAssumption` of Envelope give the types of
requests and `Skew + MaxBack <= Ttl`; the others give types (`TaskListsAssumption`,
`ImportAssumption`, `NightlyAssumption`, `SessionsAssumption`, `InstanceAssumption`,
`WindowAssumption`, ...).

Only model-checked: liveness, as fairness and ENABLED are out of the prover's
reach (`CallsServed`, and of `ImplementsExchange` the part that says the answer
comes unless the call is stuck), and the properties of the violation runs, which are false. What would
need induction over data is avoided by stating it as a set condition (the
nightly selection) or by tables that are functions (Routes).

## 4. Findings and observations

Violation runs, with the lines they contradict in `PROJECT.json`:
`reconcile_claim`, `gates_argument`, `import_bridge`, `chat_claim`,
`compaction_claim`, `backup_claim`.

Seen while modelling, without a run of their own. In the brain:

* `gates.rs:889` — `argument_accept` trusts the status stored when the argument
  was built; evidence that failed since is not seen (`CertifiedIsProved` is
  therefore stated of the time of building). `gates.rs:936` — a mutating method
  whose request names no task runs without a decision; no document says otherwise,
  but the reason at `gates.rs:403` reads as if a task id were required.
  `gates.rs:569` — `runtime_verify`
  stores its verdict as the task's latest decision, so a second "complete" claim
  is refused after a supported one.
* `ledger.rs:120` — the self-lock of `record_mutation` described above.
* `permissions.rs:1162` — narrowing a list, and the filesystem, browser and
  provider key toggles, leave their grants active; `OffIsRevoked` speaks of the
  synchronised toggles. `permissions.rs:547` — a root covers every path that
  starts with its text.
* `import_commit.rs:37` — a batch of more than 10000 candidates is marked
  committed with the rest still ready; a small instance does not reach it.
  `import_dedupe.rs:23` — the scan reads a field recall does not return and marks
  nothing. `reasoning_bridge.rs:1284` — the backfill attributes unlinked pack
  memories to the first import event.
* `docs/api-reference.md:21` documents a route to `session.compaction_snapshot`,
  which has no entry in the scope table (`server.rs:139`) and answers
  `method_not_found`; other routes forward such methods too.
* `router.rs` has no worker for `security.audit_log`; `import.memory.*` has no
  required scope; `permitted_method` lacks `reasoning.tool_event.record`, so tool
  records of the ingress are refused, and importing or removing a skill answers
  `applied: false` though the skill is bound and saved.
* `nightly.rs:66` — "dry-run by default" holds of calls; the timer
  (`workers/mod.rs:73-110`) always applies.
  `admin.rs:1959` — purge is no transaction; with embeddings present it fails at
  the last table and leaves tool events without their rows, which stops weight
  changes for good. The counts a backup reports are those of the live database.
* `sessions.memory_count` is never updated; `set_active` of an unknown id
  deactivates every session before it answers `session_not_found`; a compaction
  takes the oldest memories, earlier artifacts included. An action trace with the
  same outcome within the hour is refused as a duplicate, and the refusal ignored.

In the ingress:

* `mcp.registry.list` is listed as enabled, but `execute_tool` sends every id
  that starts with `mcp.` to the MCP runtime, which does not serve it.
  `brain.compaction.snapshot` and `brain.benchmark.evidence.list` are refused by
  the scope table. `execute_tool` does not look at `enabled`.
* `mcp_call_tool` keeps the runtime mutex during a blocking request without a
  timeout. A disable that overlaps a connect leaves a disabled server connected;
  `mcp_create` on a connected server leaves its entry; a connected server without
  discovered tools lists the configured ones as executable.
* The permission profile of the ingress is `sandbox` again after a restart,
  though `ui_routes.rs:479` says changes persist; chat fills requests from the
  in-memory selection, which is empty after a restart; `model_select` caches even
  a selection the brain refused; `brain_purge` raises the profile of the brain
  and does not restore it.

## 5. Abstractions

Hashes and signatures are perfect. Text rules (quality gate, security policy,
classifier) are their verdicts. The wall clock is a number or a choice from
`Times`. Message and payload contents are model values. Read-only methods are
left out unless a property asks what they answer. Two writes of the ingress are one
step where the code could be cut inside: `fs::write` of an MCP config (`LifecycleWrite`;
it truncates first, so that a crash can leave a config that does not parse), and in
FileStores the rename of a store together with the acknowledgement. Bounds (`Max...`) are guards
and limit the number of rows, never what a row may hold.

## 6. Plan and what is not modelled

Left, in this order:

1. Proofs: action properties that follow from the invariants (a decided batch, a
   committed weight, a recorded verdict are not taken back), and the properties of
   the pure operators of item 2.
2. Pure operators in integers against reference definitions: rank fusion,
   packing budget.

Not modelled: recall ranking, trust and answer scores, embeddings, product
quantisation and context packing (floating point over a read-only store, without
state of their own); signatures, hashes, key files and socket bytes; the provider
catalogues, the diagnostics and the UI contract (constant tables and reports);
the text rules of security policy, quality gate and classifier (their verdicts
are inputs); response bodies and UI layout.

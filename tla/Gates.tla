------------------------------- MODULE Gates -------------------------------
(***************************************************************************)
(* The execution gates of hom-brain (services/gates.rs): approved plan     *)
(* versions, the tasks derived from them, scope amendments, preflight      *)
(* decisions, evidence, safety arguments, and the worker's check that a    *)
(* mutating method carries an allowed decision (workers/mod.rs).           *)
(*                                                                         *)
(* Every handler is one transaction under the store's mutex and appends    *)
(* its ledger events inside it, so a handler is one step (the chain itself *)
(* is module Ledger).  Rows are never deleted; the index in a sequence is  *)
(* the row id.  Decisions are ordered by a wall clock in seconds that may  *)
(* repeat or fall back: any value of Times is possible at any insert.      *)
(***************************************************************************)
EXTENDS Integers, Sequences, FiniteSets

CONSTANTS
    Methods,        \* known_target_method
    GateScopes,     \* scope names
    EvidenceTypes,  \* allowed_evidence_type
    TaskLists,      \* the task lists a caller may derive: sequences of records
                    \*   [method, scopes, required]
    Times,          \* values of unix_now_s()
    MaxVersions, MaxTasks, MaxAmendments, MaxEvidence, MaxDecisions, MaxArguments  \* bounds: rows

ASSUME TaskListsAssumption ==
    TaskLists \subseteq Seq([method : Methods, scopes : (SUBSET GateScopes) \ {{}},
                             required : (SUBSET EvidenceTypes) \ {{}}])

\* The target runtime_verify writes is no method.
ASSUME ClaimAssumption == "ui.claim" \notin Methods

VARIABLES
    versions,    \* gate_plan_versions: how many, all approved_locked
    tasks,       \* gate_task_contracts
    amendments,  \* gate_amendments
    evidence,    \* gate_evidence_records
    decisions,   \* gate_decisions
    arguments,   \* gate_safety_arguments
    executed     \* history variable: the last mutating call that was let run, with the
                 \*   task and the decision it named; empty if it named no task

gatesVars == <<versions, tasks, amendments, evidence, decisions, arguments, executed>>

None == 0   \* no task id, no decision id

\* One row more in gate_decisions; scopes are the requested ones of a preflight that
\* is allowed.
insert_decision(task, state, method, scopes, now) ==
    /\ Len(decisions) < MaxDecisions
    /\ decisions' = Append(decisions, [task |-> task, state |-> state, method |-> method,
                                       scopes |-> scopes, at |-> now])

insert_amendment(task, scopes) ==
    /\ Len(amendments) < MaxAmendments
    /\ amendments' = Append(amendments, [task |-> task, scopes |-> scopes,
                                         status |-> "pending"])

\* ORDER BY created_at_s DESC, rowid DESC LIMIT 1 over a set of decisions.
Latest(rows) ==
    CHOOSE d \in rows : \A e \in rows :
        \/ decisions[e].at < decisions[d].at
        \/ decisions[e].at = decisions[d].at /\ e <= d

DecisionsFor(task) ==
    IF task = None THEN DOMAIN decisions
    ELSE {d \in DOMAIN decisions : decisions[d].task = task}

GatesInit ==
    /\ versions = 0
    /\ tasks = <<>> /\ amendments = <<>> /\ evidence = <<>>
    /\ decisions = <<>> /\ arguments = <<>> /\ executed = {}

-----------------------------------------------------------------------------
(* Plans and tasks *)

\* A proposed plan is approved, again if so asked: a new version each time, none
\* of which supersedes another.
plan_approve ==
    /\ versions < MaxVersions
    /\ versions' = versions + 1
    /\ UNCHANGED <<tasks, amendments, evidence, decisions, arguments, executed>>

\* All tasks of the list, or none of them, under the version the caller names or
\* the current one.
tasks_derive(v, list) ==
    /\ Len(tasks) + Len(list) <= MaxTasks
    /\ tasks' = tasks \o [i \in DOMAIN list |->
                            [version |-> v, method |-> list[i].method,
                             scopes |-> list[i].scopes, required |-> list[i].required,
                             status |-> "ready"]]
    /\ UNCHANGED <<versions, amendments, evidence, decisions, arguments, executed>>

-----------------------------------------------------------------------------
(* Preflight and amendments *)

\* One approved amendment of the task covers the request (approved_amendment_covers).
ApprovedAmendmentCovers(task, scopes) ==
    \E a \in DOMAIN amendments :
        /\ amendments[a].task = task /\ amendments[a].status = "approved"
        /\ scopes \subseteq amendments[a].scopes

\* tasks_preflight of an unknown method, which keeps the task the caller named, or of a
\* known one with no task or an unknown one.  A name that is no task's is None.
PreflightBlocked(t, method, now) ==
    /\ method = "unknown" \/ t = None
    /\ insert_decision(t, "blocked_out_of_scope", method, {}, now)
    /\ UNCHANGED <<versions, tasks, amendments, evidence, arguments, executed>>

\* tasks_preflight for a task: method, then scope, then approved amendments; a
\* request that none of them covers becomes a pending amendment.
preflight_existing_task(t, method, scopes, now) ==
    /\ \/ /\ method # tasks[t].method
          /\ insert_decision(t, "blocked_out_of_scope", method, {}, now)
          /\ UNCHANGED amendments
       \/ /\ method = tasks[t].method
          /\ scopes \subseteq tasks[t].scopes \/ ApprovedAmendmentCovers(t, scopes)
          /\ insert_decision(t, "allowed", method, scopes, now)
          /\ UNCHANGED amendments
       \/ /\ method = tasks[t].method
          /\ ~(scopes \subseteq tasks[t].scopes) /\ ~ApprovedAmendmentCovers(t, scopes)
          /\ insert_amendment(t, scopes)
          /\ insert_decision(t, "requires_plan_amendment", method, {}, now)
    /\ UNCHANGED <<versions, tasks, evidence, arguments, executed>>

\* For a task, or for the plan version alone.
amendment_request(t, method, scopes, now) ==
    /\ versions > 0 /\ scopes # {}
    /\ insert_amendment(t, scopes)
    /\ insert_decision(t, "requires_plan_amendment", method, {}, now)
    /\ UNCHANGED <<versions, tasks, evidence, arguments, executed>>

amendment_approve(a) ==
    /\ amendments[a].status = "pending"
    /\ amendments' = [amendments EXCEPT ![a].status = "approved"]
    /\ UNCHANGED <<versions, tasks, evidence, decisions, arguments, executed>>

\* Mutant of enforce_attached_preflight: the decision's task is not compared.
enforce_attached_preflight_AnyTask(t, d, method) ==
    /\ \/ t = None /\ executed' = {}
       \/ /\ t # None /\ d \in DOMAIN decisions
          /\ decisions[d].state = "allowed" /\ decisions[d].method = method
          /\ executed' = {[task |-> t, method |-> method, decision |-> d]}
    /\ UNCHANGED <<versions, tasks, amendments, evidence, decisions, arguments>>

\* A worker lets a mutating method run.  A request that names no task runs without a
\* decision; one that names a task needs an allowed decision of that task and method,
\* and is refused otherwise, which changes nothing.
enforce_attached_preflight(t, d, method) ==
    /\ \/ t = None /\ executed' = {}
       \/ /\ t # None /\ d \in DOMAIN decisions
          /\ decisions[d].state = "allowed"
          /\ decisions[d].task = t /\ decisions[d].method = method
          /\ executed' = {[task |-> t, method |-> method, decision |-> d]}
    /\ UNCHANGED <<versions, tasks, amendments, evidence, decisions, arguments>>

-----------------------------------------------------------------------------
(* Evidence, completion and arguments *)

\* Mutant of evidence_submit: a later record replaces the task's earlier ones.
evidence_submit_Replaces(t, type, status) ==
    /\ Len(evidence) < MaxEvidence
    /\ evidence' = Append(SelectSeq(evidence, LAMBDA e : e.task # t),
                          [task |-> t, type |-> type, status |-> status])
    /\ UNCHANGED <<versions, tasks, amendments, decisions, arguments, executed>>

evidence_submit(t, type, status) ==
    /\ Len(evidence) < MaxEvidence
    /\ evidence' = Append(evidence, [task |-> t, type |-> type, status |-> status])
    /\ UNCHANGED <<versions, tasks, amendments, decisions, arguments, executed>>

EvidenceOf(t) == {e \in DOMAIN evidence : evidence[e].task = t}

\* matching_evidence: the named records, all of the task's when none is named.
Matching(t, ids) == IF ids = {} THEN EvidenceOf(t) ELSE ids

MissingEvidence(t, records) == tasks[t].required \ {evidence[e].type : e \in records}

AllPassed(records) == \A e \in records : evidence[e].status = "passed"

Satisfied(t) == /\ MissingEvidence(t, EvidenceOf(t)) = {}
                /\ EvidenceOf(t) # {}
                /\ AllPassed(EvidenceOf(t))

\* build_safety_argument_tx over a set of tasks: all the evidence of each counts.
ArgumentStatus(subjects) ==
    IF subjects # {} /\ \A t \in subjects : Satisfied(t) THEN "satisfied" ELSE "unsatisfied"

InsertArgument(t, subjects) ==
    /\ Len(arguments) < MaxArguments
    /\ arguments' = Append(arguments, [task |-> t, subjects |-> subjects,
                                       status |-> ArgumentStatus(subjects)])

\* Mutant of tasks_complete: failed evidence is not looked for.
tasks_complete_FailedToo(t, ids, now) ==
    LET records == Matching(t, ids) IN
    /\ ids \subseteq EvidenceOf(t)
    /\ MissingEvidence(t, records) = {} /\ records # {}
    /\ tasks' = [tasks EXCEPT ![t].status = "completed"]
    /\ InsertArgument(t, {t})
    /\ insert_decision(t, "completed_with_evidence", tasks[t].method, {}, now)
    /\ UNCHANGED <<versions, amendments, evidence, executed>>

\* Completion on the named evidence: all required types there, none failed.
tasks_complete(t, ids, now) ==
    LET records == Matching(t, ids) IN
    /\ ids \subseteq EvidenceOf(t)
    /\ \/ /\ MissingEvidence(t, records) # {} \/ records = {}
          /\ insert_decision(t, "needs_evidence", tasks[t].method, {}, now)
          /\ UNCHANGED <<tasks, arguments>>
       \/ /\ MissingEvidence(t, records) = {} /\ records # {}
          /\ ~AllPassed(records)
          /\ insert_decision(t, "needs_runtime_truth", tasks[t].method, {}, now)
          /\ UNCHANGED <<tasks, arguments>>
       \/ /\ MissingEvidence(t, records) = {} /\ records # {}
          /\ AllPassed(records)
          /\ tasks' = [tasks EXCEPT ![t].status = "completed"]
          /\ InsertArgument(t, {t})
          /\ insert_decision(t, "completed_with_evidence", tasks[t].method, {}, now)
    /\ UNCHANGED <<versions, amendments, evidence, executed>>

\* For one task, or for every task of a plan version.
argument_build(t, v) ==
    /\ InsertArgument(t, IF t = None THEN {u \in DOMAIN tasks : tasks[u].version = v} ELSE {t})
    /\ UNCHANGED <<versions, tasks, amendments, evidence, decisions, executed>>

\* The stored status decides; the evidence is not looked at again.
argument_accept(a, now) ==
    /\ \/ /\ arguments[a].status = "satisfied"
          /\ arguments' = [arguments EXCEPT ![a].status = "accepted"]
          /\ UNCHANGED decisions
       \/ /\ arguments[a].status # "satisfied"
          /\ insert_decision(arguments[a].task, "needs_evidence", "gates.argument.accept",
                             {}, now)
          /\ UNCHANGED arguments
    /\ UNCHANGED <<versions, tasks, amendments, evidence, executed>>

-----------------------------------------------------------------------------
(* Claims *)

\* A "complete" or a "ready" claim against the latest decision.
Supports(claim, rows) ==
    /\ rows # {}
    /\ decisions[Latest(rows)].state \in
          IF claim = "complete" THEN {"completed_with_evidence"}
          ELSE {"allowed", "completed_with_evidence"}

\* The verdict is itself a decision, of target "ui.claim".
runtime_verify(t, claim, now) ==
    /\ insert_decision(t, IF Supports(claim, DecisionsFor(t)) THEN "allowed"
                          ELSE "needs_runtime_truth", "ui.claim", {}, now)
    /\ UNCHANGED <<versions, tasks, amendments, evidence, arguments, executed>>

-----------------------------------------------------------------------------
TaskOrNone == {None} \cup DOMAIN tasks

GatesNext ==
    \/ plan_approve
    \/ \E v \in 1..versions, list \in TaskLists : tasks_derive(v, list)
    \/ \E now \in Times :
        \/ \E t \in TaskOrNone, method \in Methods \cup {"unknown"} :
                PreflightBlocked(t, method, now)
        \/ \E method \in Methods, scopes \in SUBSET GateScopes :
            \/ \E t \in DOMAIN tasks : preflight_existing_task(t, method, scopes, now)
            \/ \E t \in TaskOrNone : amendment_request(t, method, scopes, now)
        \/ \E t \in DOMAIN tasks : \E ids \in SUBSET EvidenceOf(t) : tasks_complete(t, ids, now)
        \/ \E a \in DOMAIN arguments : argument_accept(a, now)
        \/ \E t \in TaskOrNone, claim \in {"complete", "ready"} : runtime_verify(t, claim, now)
    \/ \E a \in DOMAIN amendments : amendment_approve(a)
    \/ \E t \in TaskOrNone, d \in {None} \cup DOMAIN decisions, method \in Methods :
            enforce_attached_preflight(t, d, method)
    \/ \E t \in DOMAIN tasks, type \in EvidenceTypes, status \in {"passed", "failed"} :
            evidence_submit(t, type, status)
    \/ \E t \in TaskOrNone, v \in 1..versions : argument_build(t, v)

GatesSpec == GatesInit /\ [][GatesNext]_gatesVars

-----------------------------------------------------------------------------
(* Properties *)

\* A mutating call that named a task and ran was within that task's contract, and stays so:
\* the task's own method, and scopes the task holds or one approved amendment of it grants.
\* Of a call that named no task nothing is claimed: it runs without a decision.
ExecutedInContract ==
    \A x \in executed :
        LET d == decisions[x.decision] IN
        /\ x.method = tasks[x.task].method
        /\ d.scopes \subseteq tasks[x.task].scopes \/ ApprovedAmendmentCovers(x.task, d.scopes)

\* A completed task has passed evidence, of its own, of every required type, however
\* much failed evidence was submitted before or since.
CompletionProved ==
    \A t \in DOMAIN tasks : tasks[t].status = "completed" =>
        \A type \in tasks[t].required :
            \E e \in EvidenceOf(t) : evidence[e].type = type /\ evidence[e].status = "passed"

\* An accepted argument had, when it was built, passed evidence for every task it
\* speaks of.
AcceptedWasProved ==
    \A a \in DOMAIN arguments : arguments[a].status = "accepted" =>
        /\ arguments[a].subjects # {}
        /\ \A t \in arguments[a].subjects : \A type \in tasks[t].required :
            \E e \in EvidenceOf(t) : evidence[e].type = type /\ evidence[e].status = "passed"

\* What the gates certify is proved, by evidence of the task itself: completed tasks and
\* accepted arguments alike.
CertifiedIsProved == CompletionProved /\ AcceptedWasProved

\* Nothing approved is taken back and no decided row is rewritten: an amendment, a
\* task and an accepted argument move forward only, decisions and evidence are
\* append-only.
DecidedIsFinal ==
    [][/\ SubSeq(decisions', 1, Len(decisions)) = decisions
       /\ SubSeq(evidence', 1, Len(evidence)) = evidence
       /\ \A t \in DOMAIN tasks : tasks[t].status = "completed" => tasks'[t] = tasks[t]
       /\ \A a \in DOMAIN amendments : amendments[a].status = "approved" =>
                                          amendments'[a] = amendments[a]
       /\ \A a \in DOMAIN arguments : arguments[a].status = "accepted" =>
                                          arguments'[a] = arguments[a]]_gatesVars

\* "completion claim is backed by task-bound successful evidence and a safety
\* argument" (the reason tasks_complete records): the argument it built is satisfied.
CompletionArgumentHolds ==
    [][\A t \in DOMAIN tasks :
        /\ tasks[t].status = "ready" /\ tasks'[t].status = "completed"
        => arguments'[Len(arguments')].status = "satisfied"]_gatesVars
=============================================================================

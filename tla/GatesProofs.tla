---------------------------- MODULE GatesProofs ----------------------------
(***************************************************************************)
(* Proofs about Gates, for all methods, scopes, task lists, clocks and     *)
(* bounds.                                                                 *)
(*                                                                         *)
(* The invariants speak of rows that were judged earlier by rows that can  *)
(* still change.  Forward says how they can: contracts keep their method,  *)
(* scopes and required evidence, evidence and decisions only grow, and an  *)
(* approval is not taken back.  With it a judgement that was right stays   *)
(* right, and what is left to prove of a handler is the row it adds.       *)
(***************************************************************************)
EXTENDS Gates, TLAPS

Task == [version : Int, method : Methods, scopes : SUBSET GateScopes,
         required : SUBSET EvidenceTypes, status : {"ready", "completed"}]

Amendment == [task : Int, scopes : SUBSET GateScopes, status : {"pending", "approved"}]

Evidence == [task : Int, type : EvidenceTypes, status : {"passed", "failed"}]

States == {"allowed", "blocked_out_of_scope", "requires_plan_amendment", "needs_evidence",
           "needs_runtime_truth", "completed_with_evidence"}

Targets == Methods \cup {"unknown", "ui.claim", "gates.argument.accept"}

Decision == [task : Int, state : States, method : Targets,
             scopes : SUBSET GateScopes, at : Times]

Argument == [task : Int, subjects : SUBSET Int, status : {"satisfied", "unsatisfied", "accepted"}]

GatesType ==
    /\ versions \in Int
    /\ tasks \in Seq(Task)
    /\ amendments \in Seq(Amendment)
    /\ evidence \in Seq(Evidence)
    /\ decisions \in Seq(Decision)
    /\ arguments \in Seq(Argument)

\* The passed evidence of a task covers what the task requires.
Proved(t) ==
    \A type \in tasks[t].required :
        \E e \in EvidenceOf(t) : evidence[e].type = type /\ evidence[e].status = "passed"

\* An allowed preflight was within the contract of its task.
Within(d) ==
    decisions[d].state = "allowed" /\ decisions[d].method # "ui.claim" =>
        /\ decisions[d].task \in DOMAIN tasks
        /\ decisions[d].method = tasks[decisions[d].task].method
        /\ decisions[d].scopes \subseteq tasks[decisions[d].task].scopes
              \/ ApprovedAmendmentCovers(decisions[d].task, decisions[d].scopes)

PreflightsKept == \A d \in DOMAIN decisions : Within(d)

\* A call that named a task and ran carried an allowed preflight of its task and method.
ExecutedPreflighted ==
    \A x \in executed :
        /\ x.task \in DOMAIN tasks /\ x.decision \in DOMAIN decisions /\ x.method \in Methods
        /\ decisions[x.decision].state = "allowed"
        /\ decisions[x.decision].task = x.task /\ decisions[x.decision].method = x.method

\* A satisfied argument is about tasks whose evidence proves them, accepted or not.
Argued(a) ==
    arguments[a].status \in {"satisfied", "accepted"} =>
        /\ arguments[a].subjects # {} /\ arguments[a].subjects \subseteq DOMAIN tasks
        /\ \A t \in arguments[a].subjects : Proved(t)

ArgumentsProved == \A a \in DOMAIN arguments : Argued(a)

CompletedProved == \A t \in DOMAIN tasks : tasks[t].status = "completed" => Proved(t)

IInv ==
    GatesType /\ PreflightsKept /\ ExecutedPreflighted /\ ArgumentsProved /\ CompletedProved

\* How the tables may change.
ContractsKept ==
    /\ DOMAIN tasks \subseteq DOMAIN tasks'
    /\ \A t \in DOMAIN tasks :
           /\ tasks'[t].method = tasks[t].method /\ tasks'[t].scopes = tasks[t].scopes
           /\ tasks'[t].required = tasks[t].required
           /\ tasks[t].status = "completed" => tasks'[t] = tasks[t]

AmendmentsKept ==
    /\ DOMAIN amendments \subseteq DOMAIN amendments'
    /\ \A a \in DOMAIN amendments :
           /\ amendments'[a].task = amendments[a].task
           /\ amendments'[a].scopes = amendments[a].scopes
           /\ amendments[a].status = "approved" => amendments'[a] = amendments[a]

EvidenceKept ==
    /\ DOMAIN evidence \subseteq DOMAIN evidence'
    /\ \A e \in DOMAIN evidence : evidence'[e] = evidence[e]

DecisionsKept ==
    /\ DOMAIN decisions \subseteq DOMAIN decisions'
    /\ \A d \in DOMAIN decisions : decisions'[d] = decisions[d]

ArgumentsKept ==
    /\ DOMAIN arguments \subseteq DOMAIN arguments'
    /\ \A a \in DOMAIN arguments : arguments[a].status = "accepted" => arguments'[a] = arguments[a]

Forward == ContractsKept /\ AmendmentsKept /\ EvidenceKept /\ DecisionsKept /\ ArgumentsKept

-----------------------------------------------------------------------------
(* Sequences *)

\* A row more: the rows there were stay where they were.
LEMMA AppendFacts ==
    ASSUME NEW S, NEW s \in Seq(S), NEW x \in S
    PROVE  /\ Append(s, x) \in Seq(S)
           /\ DOMAIN Append(s, x) = DOMAIN s \cup {Len(s) + 1}
           /\ DOMAIN s \subseteq DOMAIN Append(s, x)
           /\ \A i \in DOMAIN s : Append(s, x)[i] = s[i]
           /\ Append(s, x)[Len(s) + 1] = x
           /\ Len(s) + 1 \notin DOMAIN s
OBVIOUS

\* A row of a table.
LEMMA RowOf == ASSUME NEW S, NEW s \in Seq(S), NEW i \in DOMAIN s PROVE s[i] \in S
OBVIOUS

\* Two sequences that agree on the first one's places: it is the other's beginning.
LEMMA SamePrefix ==
    ASSUME NEW S, NEW s \in Seq(S), NEW u \in Seq(S),
           DOMAIN s \subseteq DOMAIN u, \A i \in DOMAIN s : u[i] = s[i]
    PROVE  SubSeq(u, 1, Len(s)) = s
<1>1. Len(s) \in Nat /\ Len(u) \in Nat /\ DOMAIN s = 1..Len(s) /\ DOMAIN u = 1..Len(u)
  OBVIOUS
<1>2. Len(s) <= Len(u)
  <2>1. CASE Len(s) = 0
    BY <1>1, <2>1
  <2>2. CASE Len(s) # 0
    <3>1. Len(s) \in 1..Len(u)
      BY <1>1, <2>2
    <3> QED BY <1>1, <3>1
  <2> QED BY <2>1, <2>2
<1>3. SubSeq(u, 1, Len(s)) = [i \in 1..Len(s) |-> u[i]]
  BY <1>1, <1>2
<1>4. SubSeq(u, 1, Len(s)) = [i \in 1..Len(s) |-> s[i]]
  BY <1>1, <1>3
<1> QED BY <1>1, <1>4

-----------------------------------------------------------------------------
(* What the helpers do *)

\* insert_decision adds a decision and keeps the others.
LEMMA InsertDecision ==
    ASSUME GatesType, NEW t \in Int, NEW state \in States, NEW m \in Targets,
           NEW sc \in SUBSET GateScopes, NEW n \in Times,
           insert_decision(t, state, m, sc, n)
    PROVE  /\ decisions' \in Seq(Decision) /\ DecisionsKept
           /\ \A d \in DOMAIN decisions' \ DOMAIN decisions :
                 decisions'[d] = [task |-> t, state |-> state, method |-> m, scopes |-> sc, at |-> n]
<1> DEFINE row == [task |-> t, state |-> state, method |-> m, scopes |-> sc, at |-> n]
<1>1. row \in Decision
  BY DEF Decision
<1>2. decisions' = Append(decisions, row) /\ decisions \in Seq(Decision)
  BY DEF insert_decision, GatesType
<1> HIDE DEF row
<1> QED BY <1>1, <1>2, AppendFacts DEF DecisionsKept, row

\* A decision that refuses adds nothing the invariant asks about.
LEMMA InsertRefusal ==
    ASSUME GatesType, NEW t \in Int, NEW state \in States \ {"allowed"}, NEW m \in Targets,
           NEW n \in Times, insert_decision(t, state, m, {}, n)
    PROVE  /\ decisions' \in Seq(Decision) /\ DecisionsKept
           /\ \A d \in DOMAIN decisions' \ DOMAIN decisions : Within(d)'
<1>1. {} \in SUBSET GateScopes /\ state \in States
  OBVIOUS
<1>2. /\ decisions' \in Seq(Decision) /\ DecisionsKept
      /\ \A d \in DOMAIN decisions' \ DOMAIN decisions :
            decisions'[d] = [task |-> t, state |-> state, method |-> m, scopes |-> {}, at |-> n]
  BY <1>1, InsertDecision
<1> QED BY <1>2 DEF Within

\* insert_amendment adds a pending amendment and keeps the others.
LEMMA InsertAmendment ==
    ASSUME GatesType, NEW t \in Int, NEW sc \in SUBSET GateScopes, insert_amendment(t, sc)
    PROVE  amendments' \in Seq(Amendment) /\ AmendmentsKept
<1> DEFINE row == [task |-> t, scopes |-> sc, status |-> "pending"]
<1>1. row \in Amendment
  BY DEF Amendment
<1>2. amendments' = Append(amendments, row) /\ amendments \in Seq(Amendment)
  BY DEF insert_amendment, GatesType
<1> HIDE DEF row
<1> QED BY <1>1, <1>2, AppendFacts DEF AmendmentsKept

\* InsertArgument adds an argument about tasks.
LEMMA ArgumentTyped ==
    ASSUME GatesType, NEW t \in Int, NEW subjects \in SUBSET DOMAIN tasks,
           InsertArgument(t, subjects)
    PROVE  arguments' \in Seq(Argument)
<1> DEFINE row == [task |-> t, subjects |-> subjects, status |-> ArgumentStatus(subjects)]
<1>1. row \in Argument
  BY DEF Argument, ArgumentStatus, GatesType
<1>2. arguments' = Append(arguments, row) /\ arguments \in Seq(Argument)
  BY DEF InsertArgument, GatesType
<1> HIDE DEF row
<1> QED BY <1>1, <1>2, AppendFacts

\* InsertArgument adds an argument that is satisfied only if its tasks are proved.
LEMMA InsertsArgument ==
    ASSUME GatesType, NEW t \in Int, NEW subjects \in SUBSET DOMAIN tasks,
           InsertArgument(t, subjects), UNCHANGED evidence, ContractsKept, GatesType'
    PROVE  /\ ArgumentsKept
           /\ \A a \in DOMAIN arguments : arguments'[a] = arguments[a]
           /\ \A a \in DOMAIN arguments' \ DOMAIN arguments : Argued(a)'
<1> DEFINE row == [task |-> t, subjects |-> subjects, status |-> ArgumentStatus(subjects)]
<1>1. row \in Argument
  BY DEF Argument, ArgumentStatus, GatesType
<1>2. arguments' = Append(arguments, row) /\ arguments \in Seq(Argument)
  BY DEF InsertArgument, GatesType
<1>3. /\ ArgumentsKept /\ \A a \in DOMAIN arguments : arguments'[a] = arguments[a]
      /\ \A a \in DOMAIN arguments' \ DOMAIN arguments : arguments'[a] = row
  <2> HIDE DEF row
  <2> QED BY <1>1, <1>2, AppendFacts DEF ArgumentsKept
<1>4. ASSUME row.status \in {"satisfied", "accepted"}
      PROVE  subjects # {} /\ \A u \in subjects : Satisfied(u)
  BY <1>4 DEF ArgumentStatus
<1>5. ASSUME NEW u \in DOMAIN tasks, Satisfied(u)
      PROVE  Proved(u)'
  <2>1. ASSUME NEW type \in tasks[u].required
        PROVE  \E e \in EvidenceOf(u) : evidence[e].type = type /\ evidence[e].status = "passed"
    BY <1>5, <2>1 DEF Satisfied, MissingEvidence, AllPassed
  <2>2. tasks'[u].required = tasks[u].required /\ evidence' = evidence
    BY DEF ContractsKept
  <2> QED BY <2>1, <2>2 DEF Proved, EvidenceOf
<1>6. ASSUME NEW a \in DOMAIN arguments' \ DOMAIN arguments
      PROVE  Argued(a)'
  <2>1. arguments'[a] = row
    BY <1>3
  <2>2. DOMAIN tasks \subseteq DOMAIN tasks'
    BY DEF ContractsKept
  <2>3. arguments'[a].status = row.status /\ arguments'[a].subjects = subjects
    BY <2>1
  <2> HIDE DEF row
  <2> QED BY <1>4, <1>5, <2>2, <2>3 DEF Argued
<1> QED BY <1>3, <1>6

-----------------------------------------------------------------------------
(* What was judged right stays right *)

\* Passed evidence is not lost and nothing more is required.
LEMMA ProvedStays ==
    ASSUME ContractsKept, EvidenceKept, NEW t \in DOMAIN tasks, Proved(t)
    PROVE  Proved(t)'
<1>1. tasks'[t].required = tasks[t].required
  BY DEF ContractsKept
<1>2. \A e \in EvidenceOf(t) : e \in EvidenceOf(t)' /\ evidence'[e] = evidence[e]
  BY DEF EvidenceKept, EvidenceOf
<1> QED BY <1>1, <1>2 DEF Proved

\* An approved amendment covers what it covered.
LEMMA CoverStays ==
    ASSUME AmendmentsKept, NEW t, NEW sc, ApprovedAmendmentCovers(t, sc)
    PROVE  ApprovedAmendmentCovers(t, sc)'
BY DEF AmendmentsKept, ApprovedAmendmentCovers

\* A step that keeps the tables keeps the invariant, if the rows it adds are right.
LEMMA KeepsIInv ==
    ASSUME IInv, Forward, GatesType',
           \A d \in DOMAIN decisions' \ DOMAIN decisions : Within(d)',
           \A a \in DOMAIN arguments : arguments[a].status = "unsatisfied" \/ arguments'[a].subjects = arguments[a].subjects,
           \A a \in DOMAIN arguments : arguments[a].status = "unsatisfied" => arguments'[a] = arguments[a],
           \A a \in DOMAIN arguments' \ DOMAIN arguments : Argued(a)',
           \A t \in DOMAIN tasks' : tasks'[t].status = "completed" =>
               Proved(t)' \/ (t \in DOMAIN tasks /\ tasks[t].status = "completed"),
           UNCHANGED executed
    PROVE  IInv'
<1>1. PreflightsKept'
  <2> SUFFICES ASSUME NEW d \in DOMAIN decisions PROVE Within(d)'
    BY DEF PreflightsKept
  <2>1. Within(d) /\ decisions'[d] = decisions[d]
    BY DEF IInv, PreflightsKept, Forward, DecisionsKept
  <2> QED BY <2>1, CoverStays DEF Within, Forward, ContractsKept
<1>2. ExecutedPreflighted'
  BY DEF IInv, ExecutedPreflighted, Forward, DecisionsKept, ContractsKept
<1>3. ArgumentsProved'
  <2> SUFFICES ASSUME NEW a \in DOMAIN arguments, arguments'[a].status \in {"satisfied", "accepted"}
               PROVE  Argued(a)'
    BY DEF ArgumentsProved, Argued
  <2>1. arguments[a].status \in {"satisfied", "unsatisfied", "accepted"}
    <3>1. arguments \in Seq(Argument)
      BY DEF IInv, GatesType
    <3>2. arguments[a] \in Argument
      BY <3>1, RowOf
    <3> QED BY <3>2 DEF Argument
  <2>2. arguments[a].status \in {"satisfied", "accepted"} /\ arguments'[a].subjects = arguments[a].subjects
    BY <2>1
  <2>3. Argued(a)
    BY DEF IInv, ArgumentsProved
  <2>4. DOMAIN tasks \subseteq DOMAIN tasks'
    BY DEF Forward, ContractsKept
  <2> QED BY <2>2, <2>3, <2>4, ProvedStays DEF Argued, Forward
<1>4. CompletedProved'
  BY ProvedStays DEF IInv, CompletedProved, Forward
<1> QED BY <1>1, <1>2, <1>3, <1>4 DEF IInv

\* A table that stays as it is.
LEMMA Unchanged ==
    /\ UNCHANGED tasks => ContractsKept
    /\ UNCHANGED amendments => AmendmentsKept
    /\ UNCHANGED evidence => EvidenceKept
    /\ UNCHANGED decisions => DecisionsKept
    /\ UNCHANGED arguments => ArgumentsKept
BY DEF ContractsKept, AmendmentsKept, EvidenceKept, DecisionsKept, ArgumentsKept

\* A step that leaves tasks, evidence and arguments alone, if the decision it adds is right.
LEMMA DecisionOnly ==
    ASSUME IInv, UNCHANGED <<versions, tasks, evidence, arguments, executed>>,
           amendments' \in Seq(Amendment), AmendmentsKept,
           decisions' \in Seq(Decision), DecisionsKept,
           \A d \in DOMAIN decisions' \ DOMAIN decisions : Within(d)'
    PROVE  IInv' /\ Forward
<1>1. Forward
  BY Unchanged DEF Forward
<1>2. GatesType'
  BY DEF IInv, GatesType
<1> QED BY <1>1, <1>2, KeepsIInv

-----------------------------------------------------------------------------
(* The handlers *)

\* tasks_derive: new tasks are ready, and the others stay.
LEMMA Derives ==
    ASSUME IInv, NEW v \in 1..versions, NEW list \in TaskLists, tasks_derive(v, list)
    PROVE  IInv' /\ Forward
<1> DEFINE row(i) == [version |-> v, method |-> list[i].method, scopes |-> list[i].scopes,
                      required |-> list[i].required, status |-> "ready"]
           new == [i \in DOMAIN list |-> row(i)]
<1>1. tasks \in Seq(Task) /\ versions \in Int
  BY DEF IInv, GatesType
<1> DEFINE Item == [method : Methods, scopes : (SUBSET GateScopes) \ {{}},
                    required : (SUBSET EvidenceTypes) \ {{}}]
<1>0. list \in Seq(Item)
  BY TaskListsAssumption
<1>2. ASSUME NEW i \in DOMAIN list PROVE row(i) \in Task
  <2>1. list[i] \in Item
    <3> HIDE DEF Item
    <3> QED BY <1>0, RowOf
  <2> QED BY <1>1, <2>1 DEF Task
<1>3. new \in Seq(Task)
  <2>1. DOMAIN list = 1..Len(list) /\ Len(list) \in Nat
    BY <1>0
  <2> HIDE DEF row
  <2> QED BY <1>2, <2>1
<1>4. tasks' = tasks \o new
  BY DEF tasks_derive
<1>5. /\ tasks' \in Seq(Task) /\ DOMAIN tasks \subseteq DOMAIN tasks'
      /\ \A t \in DOMAIN tasks : tasks'[t] = tasks[t]
      /\ \A t \in DOMAIN tasks' \ DOMAIN tasks : \E i \in DOMAIN list : tasks'[t] = new[i]
  <2>1. DOMAIN new = DOMAIN list
    OBVIOUS
  <2> HIDE DEF new
  <2> QED BY <1>1, <1>3, <1>4, <2>1
<1>6. \A t \in DOMAIN tasks' \ DOMAIN tasks : tasks'[t].status = "ready"
  BY <1>5
<1>7. UNCHANGED <<versions, amendments, evidence, decisions, arguments, executed>>
  BY DEF tasks_derive
<1>8. Forward
  BY <1>5, <1>7, Unchanged DEF Forward, ContractsKept
<1>9. GatesType'
  BY <1>5, <1>7 DEF IInv, GatesType
<1>10. \A t \in DOMAIN tasks' : tasks'[t].status = "completed" =>
               Proved(t)' \/ (t \in DOMAIN tasks /\ tasks[t].status = "completed")
  BY <1>5, <1>6
<1> QED BY <1>7, <1>8, <1>9, <1>10, KeepsIInv

\* tasks_preflight without a task adds a refusal.
LEMMA Blocks ==
    ASSUME IInv, NEW t \in TaskOrNone, NEW m \in Methods \cup {"unknown"}, NEW n \in Times,
           PreflightBlocked(t, m, n)
    PROVE  IInv' /\ Forward
<1>0. /\ GatesType /\ t \in Int /\ m \in Targets
      /\ "blocked_out_of_scope" \in States \ {"allowed"}
      /\ insert_decision(t, "blocked_out_of_scope", m, {}, n)
  BY DEF PreflightBlocked, IInv, GatesType, TaskOrNone, None, Targets, States
<1>1. /\ decisions' \in Seq(Decision) /\ DecisionsKept
      /\ \A d \in DOMAIN decisions' \ DOMAIN decisions : Within(d)'
  BY <1>0, InsertRefusal
<1>2. UNCHANGED <<versions, tasks, amendments, evidence, arguments, executed>>
  BY DEF PreflightBlocked
<1> QED BY <1>1, <1>2, DecisionOnly, Unchanged DEF IInv, GatesType

\* tasks_preflight for a task allows what its contract or an approved amendment covers.
LEMMA Preflights ==
    ASSUME IInv, NEW t \in DOMAIN tasks, NEW m \in Methods, NEW sc \in SUBSET GateScopes,
           NEW n \in Times, preflight_existing_task(t, m, sc, n)
    PROVE  IInv' /\ Forward
<1>1. tasks \in Seq(Task) /\ t \in Int /\ GatesType
  BY DEF IInv, GatesType
<1>2. UNCHANGED <<versions, tasks, evidence, arguments, executed>>
  BY DEF preflight_existing_task
<1>names. m \in Targets /\ "allowed" \in States /\ "requires_plan_amendment" \in States \ {"allowed"}
      /\ "blocked_out_of_scope" \in States \ {"allowed"}
  BY DEF Targets, States
<1>3. CASE m # tasks[t].method
  <2>1. insert_decision(t, "blocked_out_of_scope", m, {}, n) /\ UNCHANGED amendments
    BY <1>3 DEF preflight_existing_task
  <2>2. /\ decisions' \in Seq(Decision) /\ DecisionsKept
        /\ \A d \in DOMAIN decisions' \ DOMAIN decisions : Within(d)'
    BY <1>1, <1>names, <2>1, InsertRefusal
  <2> QED BY <1>2, <2>1, <2>2, DecisionOnly, Unchanged DEF IInv, GatesType
<1>4. CASE m = tasks[t].method /\ (sc \subseteq tasks[t].scopes \/ ApprovedAmendmentCovers(t, sc))
  <2>1. insert_decision(t, "allowed", m, sc, n) /\ UNCHANGED amendments
    BY <1>4 DEF preflight_existing_task
  <2>2. /\ decisions' \in Seq(Decision) /\ DecisionsKept
        /\ \A d \in DOMAIN decisions' \ DOMAIN decisions :
              decisions'[d] = [task |-> t, state |-> "allowed", method |-> m, scopes |-> sc, at |-> n]
    BY <1>1, <1>names, <2>1, InsertDecision
  <2>3. ApprovedAmendmentCovers(t, sc) => ApprovedAmendmentCovers(t, sc)'
    BY <2>1 DEF ApprovedAmendmentCovers
  <2>4. \A d \in DOMAIN decisions' \ DOMAIN decisions : Within(d)'
    BY <1>2, <1>4, <2>2, <2>3 DEF Within
  <2> QED BY <1>2, <2>1, <2>2, <2>4, DecisionOnly, Unchanged DEF IInv, GatesType
<1>5. CASE /\ m = tasks[t].method
           /\ ~(sc \subseteq tasks[t].scopes) /\ ~ApprovedAmendmentCovers(t, sc)
  <2>1. insert_amendment(t, sc) /\ insert_decision(t, "requires_plan_amendment", m, {}, n)
    BY <1>5 DEF preflight_existing_task
  <2>2. amendments' \in Seq(Amendment) /\ AmendmentsKept
    BY <1>1, <2>1, InsertAmendment
  <2>3. /\ decisions' \in Seq(Decision) /\ DecisionsKept
        /\ \A d \in DOMAIN decisions' \ DOMAIN decisions : Within(d)'
    BY <1>1, <1>names, <2>1, InsertRefusal
  <2> QED BY <1>2, <2>2, <2>3, DecisionOnly
<1> QED BY <1>3, <1>4, <1>5

\* amendment_request adds a pending amendment and its decision.
LEMMA Requests ==
    ASSUME IInv, NEW t \in TaskOrNone, NEW m \in Methods, NEW sc \in SUBSET GateScopes,
           NEW n \in Times, amendment_request(t, m, sc, n)
    PROVE  IInv' /\ Forward
<1>1. t \in Int /\ GatesType
  BY DEF IInv, GatesType, TaskOrNone, None
<1>2. insert_amendment(t, sc) /\ insert_decision(t, "requires_plan_amendment", m, {}, n)
  BY DEF amendment_request
<1>3. amendments' \in Seq(Amendment) /\ AmendmentsKept
  BY <1>1, <1>2, InsertAmendment
<1>4. /\ decisions' \in Seq(Decision) /\ DecisionsKept
      /\ \A d \in DOMAIN decisions' \ DOMAIN decisions : Within(d)'
  <2>1. m \in Targets /\ "requires_plan_amendment" \in States \ {"allowed"}
    BY DEF Targets, States
  <2> QED BY <1>1, <1>2, <2>1, InsertRefusal
<1>5. UNCHANGED <<versions, tasks, evidence, arguments, executed>>
  BY DEF amendment_request
<1> QED BY <1>3, <1>4, <1>5, DecisionOnly

\* amendment_approve changes the status of one pending amendment.
LEMMA Approves ==
    ASSUME IInv, NEW a \in DOMAIN amendments, amendment_approve(a)
    PROVE  IInv' /\ Forward
<1>1. amendments \in Seq(Amendment)
  BY DEF IInv, GatesType
<1>2. amendments' = [amendments EXCEPT ![a].status = "approved"] /\ amendments[a].status = "pending"
  BY DEF amendment_approve
<1>3. amendments[a] \in Amendment
  BY <1>1, RowOf
<1>4. [amendments[a] EXCEPT !.status = "approved"] \in Amendment
  BY <1>3 DEF Amendment
<1>5. amendments' \in Seq(Amendment)
  BY <1>1, <1>2, <1>4
<1>6. AmendmentsKept
  BY <1>1, <1>2, <1>3 DEF AmendmentsKept, Amendment
<1>7. UNCHANGED <<versions, tasks, evidence, decisions, arguments, executed>>
  BY DEF amendment_approve
<1> QED BY <1>5, <1>6, <1>7, DecisionOnly, Unchanged DEF IInv, GatesType

\* plan_approve changes the version count alone.
LEMMA ApprovesPlan ==
    ASSUME IInv, plan_approve
    PROVE  IInv' /\ Forward
<1>1. UNCHANGED <<tasks, amendments, evidence, decisions, arguments, executed>>
  BY DEF plan_approve
<1>2. Forward
  BY <1>1, Unchanged DEF Forward
<1>3. GatesType'
  BY <1>1 DEF IInv, GatesType, plan_approve
<1> QED BY <1>1, <1>2, <1>3, KeepsIInv

\* The worker's check lets a call that names a task run only on an allowed preflight of it.
LEMMA Enforces ==
    ASSUME IInv, NEW t \in TaskOrNone, NEW d \in {None} \cup DOMAIN decisions, NEW m \in Methods,
           enforce_attached_preflight(t, d, m)
    PROVE  IInv' /\ Forward
<1>1. UNCHANGED <<versions, tasks, amendments, evidence, decisions, arguments>>
  BY DEF enforce_attached_preflight
<1>2. Forward
  BY <1>1, Unchanged DEF Forward
<1>3. ExecutedPreflighted'
  BY <1>1 DEF enforce_attached_preflight, IInv, ExecutedPreflighted, TaskOrNone, None
<1>4. GatesType' /\ PreflightsKept'
  BY <1>1 DEF IInv, GatesType, PreflightsKept, Within, ApprovedAmendmentCovers
<1>5. ArgumentsProved' /\ CompletedProved'
  BY <1>1 DEF IInv, ArgumentsProved, CompletedProved, Argued, Proved, EvidenceOf
<1> QED BY <1>2, <1>3, <1>4, <1>5 DEF IInv

\* evidence_submit adds a record.
LEMMA Submits ==
    ASSUME IInv, NEW t \in DOMAIN tasks, NEW type \in EvidenceTypes,
           NEW status \in {"passed", "failed"}, evidence_submit(t, type, status)
    PROVE  IInv' /\ Forward
<1> DEFINE row == [task |-> t, type |-> type, status |-> status]
<1>1. evidence \in Seq(Evidence) /\ t \in Int
  BY DEF IInv, GatesType
<1>2. row \in Evidence
  BY <1>1 DEF Evidence
<1>3. evidence' = Append(evidence, row)
      /\ UNCHANGED <<versions, tasks, amendments, decisions, arguments, executed>>
  BY DEF evidence_submit
<1> HIDE DEF row
<1>4. evidence' \in Seq(Evidence) /\ EvidenceKept
  BY <1>1, <1>2, <1>3, AppendFacts DEF EvidenceKept
<1>5. Forward
  BY <1>3, <1>4, Unchanged DEF Forward
<1>6. GatesType'
  BY <1>3, <1>4 DEF IInv, GatesType
<1> QED BY <1>3, <1>5, <1>6, KeepsIInv

\* tasks_complete: the task is completed only on evidence that proves it.
LEMMA Completes ==
    ASSUME IInv, NEW t \in DOMAIN tasks, NEW ids \in SUBSET EvidenceOf(t), NEW n \in Times,
           tasks_complete(t, ids, n)
    PROVE  IInv' /\ Forward
<1> DEFINE records == Matching(t, ids)
<1>1. tasks \in Seq(Task) /\ t \in Int /\ GatesType /\ tasks[t] \in Task
  BY RowOf DEF IInv, GatesType
<1>2. UNCHANGED <<versions, amendments, evidence, executed>>
  BY DEF tasks_complete
<1>3. /\ tasks[t].method \in Targets
      /\ {"needs_evidence", "needs_runtime_truth", "completed_with_evidence"}
              \subseteq States \ {"allowed"}
  BY <1>1 DEF Task, Targets, States
<1>4. CASE \E state \in {"needs_evidence", "needs_runtime_truth"} :
                insert_decision(t, state, tasks[t].method, {}, n) /\ UNCHANGED <<tasks, arguments>>
  <2>1. PICK state \in {"needs_evidence", "needs_runtime_truth"} :
                insert_decision(t, state, tasks[t].method, {}, n) /\ UNCHANGED <<tasks, arguments>>
    BY <1>4
  <2>2. state \in States \ {"allowed"}
    BY <1>3
  <2>3. /\ decisions' \in Seq(Decision) /\ DecisionsKept
        /\ \A d \in DOMAIN decisions' \ DOMAIN decisions : Within(d)'
    BY <1>1, <1>3, <2>1, <2>2, InsertRefusal
  <2> QED BY <1>2, <2>1, <2>3, DecisionOnly, Unchanged DEF IInv, GatesType
<1>5. CASE /\ MissingEvidence(t, records) = {} /\ AllPassed(records)
           /\ tasks' = [tasks EXCEPT ![t].status = "completed"]
           /\ InsertArgument(t, {t})
           /\ insert_decision(t, "completed_with_evidence", tasks[t].method, {}, n)
  <2>1. "completed_with_evidence" \in States \ {"allowed"}
    BY <1>3
  <2>2. /\ decisions' \in Seq(Decision) /\ DecisionsKept
        /\ \A d \in DOMAIN decisions' \ DOMAIN decisions : Within(d)'
    BY <1>1, <1>3, <1>5, <2>1, InsertRefusal
  <2>3. [tasks[t] EXCEPT !.status = "completed"] \in Task
    BY <1>1 DEF Task
  <2>4. tasks' \in Seq(Task) /\ DOMAIN tasks' = DOMAIN tasks
    BY <1>1, <1>5, <2>3
  <2>5. \A u \in DOMAIN tasks : u # t => tasks'[u] = tasks[u]
    BY <1>1, <1>5
  <2>6. tasks'[t] = [tasks[t] EXCEPT !.status = "completed"]
    BY <1>1, <1>5
  <2>7. ContractsKept
    BY <1>1, <2>4, <2>5, <2>6 DEF ContractsKept, Task
  <2>8. arguments' \in Seq(Argument)
    BY <1>1, <1>5, {t} \in SUBSET DOMAIN tasks, ArgumentTyped
  <2>9. GatesType'
    BY <1>1, <1>2, <2>2, <2>4, <2>8 DEF GatesType
  <2>10. /\ ArgumentsKept
         /\ \A a \in DOMAIN arguments : arguments'[a] = arguments[a]
         /\ \A a \in DOMAIN arguments' \ DOMAIN arguments : Argued(a)'
    BY <1>1, <1>2, <1>5, <2>7, <2>9, {t} \in SUBSET DOMAIN tasks, InsertsArgument
  <2>11. Forward
    BY <1>2, <2>2, <2>7, <2>10, Unchanged DEF Forward
  <2>12. Proved(t)
    BY <1>5 DEF Proved, MissingEvidence, AllPassed, Matching
  <2>13. Proved(t)'
    BY <2>11, <2>12, ProvedStays DEF Forward
  <2> QED BY <1>2, <2>2, <2>4, <2>5, <2>9, <2>10, <2>11, <2>13, KeepsIInv
<1>6. \/ \E state \in {"needs_evidence", "needs_runtime_truth"} :
              insert_decision(t, state, tasks[t].method, {}, n) /\ UNCHANGED <<tasks, arguments>>
      \/ /\ MissingEvidence(t, records) = {} /\ AllPassed(records)
         /\ tasks' = [tasks EXCEPT ![t].status = "completed"]
         /\ InsertArgument(t, {t})
         /\ insert_decision(t, "completed_with_evidence", tasks[t].method, {}, n)
  BY DEF tasks_complete
<1> QED BY <1>4, <1>5, <1>6

\* argument_build adds an argument about one task or the tasks of a version.
LEMMA Builds ==
    ASSUME IInv, NEW t \in TaskOrNone, NEW v \in 1..versions, argument_build(t, v)
    PROVE  IInv' /\ Forward
<1> DEFINE subjects == IF t = None THEN {u \in DOMAIN tasks : tasks[u].version = v} ELSE {t}
<1>1. t \in Int /\ GatesType /\ subjects \in SUBSET DOMAIN tasks
  BY DEF IInv, GatesType, TaskOrNone, None
<1>2. UNCHANGED <<versions, tasks, amendments, evidence, decisions, executed>>
  BY DEF argument_build
<1>3. InsertArgument(t, subjects)
  BY DEF argument_build
<1> HIDE DEF subjects
<1>4. GatesType'
  BY <1>1, <1>2, <1>3, ArgumentTyped DEF GatesType
<1>5. ContractsKept
  BY <1>2, Unchanged
<1>6. /\ ArgumentsKept
      /\ \A a \in DOMAIN arguments : arguments'[a] = arguments[a]
      /\ \A a \in DOMAIN arguments' \ DOMAIN arguments : Argued(a)'
  BY <1>1, <1>2, <1>3, <1>4, <1>5, InsertsArgument
<1>7. Forward
  BY <1>2, <1>6, Unchanged DEF Forward
<1> QED BY <1>2, <1>4, <1>6, <1>7, KeepsIInv

\* argument_accept accepts a satisfied argument as it is, or records a refusal.
LEMMA Accepts ==
    ASSUME IInv, NEW a \in DOMAIN arguments, NEW n \in Times, argument_accept(a, n)
    PROVE  IInv' /\ Forward
<1>1. GatesType /\ arguments \in Seq(Argument) /\ arguments[a] \in Argument
  BY RowOf DEF IInv, GatesType
<1>2. UNCHANGED <<versions, tasks, amendments, evidence, executed>>
  BY DEF argument_accept
<1>3. CASE arguments[a].status = "satisfied"
  <2>1. arguments' = [arguments EXCEPT ![a].status = "accepted"] /\ UNCHANGED decisions
    BY <1>3 DEF argument_accept
  <2>2. [arguments[a] EXCEPT !.status = "accepted"] \in Argument
    BY <1>1 DEF Argument
  <2>3. arguments' \in Seq(Argument) /\ DOMAIN arguments' = DOMAIN arguments
    BY <1>1, <2>1, <2>2
  <2>4. /\ arguments'[a] = [arguments[a] EXCEPT !.status = "accepted"]
        /\ \A b \in DOMAIN arguments : b # a => arguments'[b] = arguments[b]
    BY <1>1, <2>1
  <2>5. arguments'[a].subjects = arguments[a].subjects
    BY <1>1, <2>4 DEF Argument
  <2>6. Forward
    BY <1>2, <1>3, <2>1, <2>3, <2>4, Unchanged DEF Forward, ArgumentsKept
  <2>7. GatesType'
    BY <1>1, <1>2, <2>1, <2>3 DEF GatesType
  <2> QED BY <1>2, <1>3, <2>1, <2>3, <2>4, <2>5, <2>6, <2>7, KeepsIInv
<1>4. CASE arguments[a].status # "satisfied"
  <2>1. /\ insert_decision(arguments[a].task, "needs_evidence", "gates.argument.accept", {}, n)
        /\ UNCHANGED arguments
    BY <1>4 DEF argument_accept
  <2>2. /\ arguments[a].task \in Int /\ "needs_evidence" \in States \ {"allowed"}
        /\ "gates.argument.accept" \in Targets
    BY <1>1 DEF Argument, States, Targets
  <2>3. /\ decisions' \in Seq(Decision) /\ DecisionsKept
        /\ \A d \in DOMAIN decisions' \ DOMAIN decisions : Within(d)'
    BY <1>1, <2>1, <2>2, InsertRefusal
  <2> QED BY <1>2, <2>1, <2>3, DecisionOnly, Unchanged DEF IInv, GatesType
<1> QED BY <1>3, <1>4

\* runtime_verify adds a verdict on a claim, which no gated call can carry.
LEMMA Verifies ==
    ASSUME IInv, NEW t \in TaskOrNone, NEW claim, NEW n \in Times, runtime_verify(t, claim, n)
    PROVE  IInv' /\ Forward
<1>1. t \in Int /\ GatesType /\ {} \in SUBSET GateScopes /\ "ui.claim" \in Targets
  BY DEF IInv, GatesType, TaskOrNone, None, Targets
<1>2. UNCHANGED <<versions, tasks, amendments, evidence, arguments, executed>>
  BY DEF runtime_verify
<1>3. PICK state \in {"allowed", "needs_runtime_truth"} :
          insert_decision(t, state, "ui.claim", {}, n)
  BY DEF runtime_verify
<1>4. state \in States
  BY DEF States
<1>5. /\ decisions' \in Seq(Decision) /\ DecisionsKept
      /\ \A d \in DOMAIN decisions' \ DOMAIN decisions :
            decisions'[d] = [task |-> t, state |-> state, method |-> "ui.claim", scopes |-> {},
                             at |-> n]
  BY <1>1, <1>3, <1>4, InsertDecision
<1>6. \A d \in DOMAIN decisions' \ DOMAIN decisions : Within(d)'
  BY <1>5 DEF Within
<1> QED BY <1>2, <1>5, <1>6, DecisionOnly, Unchanged DEF IInv, GatesType

\* Every step of the gates keeps the invariant and goes forward.
LEMMA NextIInv ==
    ASSUME IInv, [GatesNext]_gatesVars
    PROVE  IInv' /\ Forward
<1>1. CASE UNCHANGED gatesVars
  <2>1. Forward
    BY <1>1, Unchanged DEF gatesVars, Forward
  <2>2. GatesType'
    BY <1>1 DEF gatesVars, IInv, GatesType
  <2> QED BY <1>1, <2>1, <2>2, KeepsIInv DEF gatesVars
<1>2. CASE GatesNext
  BY <1>2, ApprovesPlan, Derives, Blocks, Preflights, Requests, Approves, Enforces, Submits,
     Completes, Builds, Accepts, Verifies DEF GatesNext
<1> QED BY <1>1, <1>2

LEMMA InitIInv == ASSUME GatesInit PROVE IInv
<1>1. GatesType
  BY DEF GatesInit, GatesType
<1> QED BY <1>1 DEF GatesInit, IInv, PreflightsKept, ExecutedPreflighted, ArgumentsProved, CompletedProved

LEMMA GatesIInv == GatesSpec => []IInv
BY InitIInv, NextIInv, PTL DEF GatesSpec

-----------------------------------------------------------------------------
(* The theorems *)

\* A mutating call that named a task and ran was within that task's contract.
THEOREM GatesExecutedInContract == GatesSpec => []ExecutedInContract
<1>1. ASSUME IInv PROVE ExecutedInContract
  <2> SUFFICES ASSUME NEW x \in executed
               PROVE  /\ x.method = tasks[x.task].method
                      /\ \/ decisions[x.decision].scopes \subseteq tasks[x.task].scopes
                         \/ ApprovedAmendmentCovers(x.task, decisions[x.decision].scopes)
    BY DEF ExecutedInContract
  <2>1. /\ x.decision \in DOMAIN decisions /\ x.method \in Methods
        /\ decisions[x.decision].state = "allowed"
        /\ decisions[x.decision].task = x.task /\ decisions[x.decision].method = x.method
    BY <1>1 DEF IInv, ExecutedPreflighted
  <2>2. Within(x.decision) /\ x.method # "ui.claim"
    BY <1>1, <2>1, ClaimAssumption DEF IInv, PreflightsKept
  <2> QED BY <2>1, <2>2 DEF Within
<1> QED BY <1>1, GatesIInv, PTL

\* A completed task and an accepted argument have the passed evidence they claim.
THEOREM GatesCertifiedIsProved == GatesSpec => []CertifiedIsProved
<1>1. ASSUME IInv PROVE CertifiedIsProved
  BY <1>1 DEF IInv, CompletedProved, ArgumentsProved, Argued, Proved, CertifiedIsProved,
              CompletionProved, AcceptedWasProved
<1> QED BY <1>1, GatesIInv, PTL

\* Nothing approved is taken back and no decided row is rewritten.
THEOREM GatesDecidedIsFinal == GatesSpec => DecidedIsFinal
<1> DEFINE Final ==
        /\ SubSeq(decisions', 1, Len(decisions)) = decisions
        /\ SubSeq(evidence', 1, Len(evidence)) = evidence
        /\ \A t \in DOMAIN tasks : tasks[t].status = "completed" => tasks'[t] = tasks[t]
        /\ \A a \in DOMAIN amendments : amendments[a].status = "approved" =>
                                           amendments'[a] = amendments[a]
        /\ \A a \in DOMAIN arguments : arguments[a].status = "accepted" =>
                                           arguments'[a] = arguments[a]
<1>1. ASSUME IInv, [GatesNext]_gatesVars PROVE Final
  <2>1. IInv' /\ Forward
    BY <1>1, NextIInv
  <2>2. SubSeq(decisions', 1, Len(decisions)) = decisions
    BY <1>1, <2>1, SamePrefix DEF Forward, DecisionsKept, IInv, GatesType
  <2>3. SubSeq(evidence', 1, Len(evidence)) = evidence
    BY <1>1, <2>1, SamePrefix DEF Forward, EvidenceKept, IInv, GatesType
  <2> QED BY <2>1, <2>2, <2>3 DEF Forward, ContractsKept, AmendmentsKept, ArgumentsKept
<1> QED BY <1>1, GatesIInv, PTL DEF GatesSpec, DecidedIsFinal
=============================================================================

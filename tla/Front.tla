------------------------------- MODULE Front --------------------------------
(***************************************************************************)
(* One HTTP request on its way: the checks of its handler in the ingress,  *)
(* its calls to the brain one after the other, and the answer.  Meanwhile  *)
(* the permission profile of the ingress may change, the brain may stop    *)
(* and start, refuse, be slow, and run a job after its caller gave up, and *)
(* a handler may lock the store again while it holds it: then nothing that *)
(* takes the store returns until the brain stops.                          *)
(***************************************************************************)
EXTENDS Routes

VARIABLES
    request,        \* the request and how far it got
    policy,         \* profile of the PermissionPolicy of the ingress
    memoryImport,   \* HOM_FEATURE_MEMORY_IMPORT
    brainUp,        \* the brain listens on its socket
    wedged,         \* the store mutex of the brain is held for good
    late            \* methods queued in the brain whose caller has given up

frontVars == <<request, policy, memoryImport, brainUp, wedged, late>>

Profiles == {"sandbox", "review", "full"}

\* sig: no signature, one that verifies, one that does not.
FrontInit ==
    /\ request \in [h : Routed, sig : {"none", "good", "bad"}, confirmed : BOOLEAN, at : {"check"},
                    k : {0}, error : {"none"}, status : {0}, ran : {<<>>}, allowed : {TRUE}]
    /\ policy = "sandbox" /\ memoryImport \in BOOLEAN
    /\ brainUp = TRUE /\ wedged = FALSE /\ late = {}

GateWriters == {h \in DOMAIN Calls : Calls[h] # <<>> /\ Calls[h][1][2] = "gates:write"}
Importers == DOMAIN ImportCalls \cup DOMAIN ImportBatchCalls

-----------------------------------------------------------------------------
(* The checks a handler makes before it does anything.                     *)

\* gate_write_with_brain_body wants a verified signature.
GateRefusal(r) == IF r.h \in GateWriters /\ r.sig # "good" THEN 401 ELSE 0

\* recall and recall_smart: verify_ui_request takes a request without a signature as anonymous.
RecallRefusal(r) == IF r.h \in DOMAIN RecallCalls /\ r.sig = "bad" THEN 401 ELSE 0

ProfileRefusal(r) == IF r.h \in DOMAIN Needs /\ policy \notin Needs[r.h] THEN 403 ELSE 0

\* memory_import_enabled.
FeatureRefusal(r) == IF r.h \in Importers /\ ~memoryImport THEN 404 ELSE 0

ConfirmRefusal(r) == IF r.h = "brain_purge" /\ ~r.confirmed THEN 400 ELSE 0

Refusals(r) == {GateRefusal(r), RecallRefusal(r), ProfileRefusal(r), FeatureRefusal(r), ConfirmRefusal(r)} \ {0}

Answered(r, status) == [r EXCEPT !.at = "done", !.status = status]

\* Mutant: a gate request without a signature passes.
CheckRequest_Anonymous ==
    LET r == request
        refused == Refusals([r EXCEPT !.sig = IF @ = "none" THEN "good" ELSE @])
    IN  /\ r.at = "check"
        /\ request' = IF refused # {} THEN Answered(r, CHOOSE s \in refused : TRUE)
                      ELSE IF r.h \in DOMAIN Calls THEN [r EXCEPT !.at = "call", !.k = 1]
                      ELSE [r EXCEPT !.at = "local"]
        /\ UNCHANGED <<policy, memoryImport, brainUp, wedged, late>>

CheckRequest ==
    LET r == request
        refused == Refusals(r)
    IN  /\ r.at = "check"
        /\ request' = IF refused # {} THEN Answered(r, CHOOSE s \in refused : TRUE)
                      ELSE IF r.h \in DOMAIN Calls THEN [r EXCEPT !.at = "call", !.k = 1]
                      ELSE [r EXCEPT !.at = "local",
                                     !.allowed = r.h \notin DOMAIN Needs \/ policy \in Needs[r.h]]
        /\ UNCHANGED <<policy, memoryImport, brainUp, wedged, late>>

\* A handler without the brain: an offline runtime, the sandbox that is not there, or the
\* mesh with its own outcome.
AnswerLocally ==
    LET r == request
    IN  /\ r.at = "local"
        /\ \/ r.h \in OfflineHandlers /\ request' = Answered(r, 503)
           \/ r.h = "sandbox_execute" /\ request' = Answered(r, 501)
           \/ /\ r.h \notin OfflineHandlers \cup {"sandbox_execute"}
              /\ request' \in {Answered([r EXCEPT !.ran = <<r.h>>], 200), Answered(r, 400)}
        /\ UNCHANGED <<policy, memoryImport, brainUp, wedged, late>>

-----------------------------------------------------------------------------
(* Calls.                                                                  *)

\* brain_error_status.
brain_error_status(e) ==
    CASE e \in {"quarantined", "scope_insufficient", "denied"} -> 403
      [] e = "invalid" -> 400
      [] e = "not_found" -> 404
      [] e = "unauthorized" -> 401
      [] e = "io" -> 503
      [] OTHER -> 502   \* method_not_found, queue_full, internal errors

\* These handlers make their second call whatever the first one answers.
MakesBoth == {"status", "security_status", "settings_get"}
\* These do not need the answer of their second call.
Optional == {<<"settings_get", 2>>, <<"imports_list", 2>>}
Created == {"sessions_create", "gate_grants_create"}

ErrorStatus(r, e) ==
    CASE r.h = "status" -> 503
      [] r.h = "brain_purge" /\ r.k = 1 -> 500
      [] OTHER -> brain_error_status(e)

\* Mutant: the answer of the last call decides.
Returned_LastOnly(r, result) ==
    LET error == IF result = "ok" THEN "none" ELSE result
    IN  IF r.k < Len(Calls[r.h]) THEN [r EXCEPT !.at = "call", !.k = @ + 1, !.error = error]
        ELSE Answered([r EXCEPT !.error = error],
                      IF error # "none" THEN ErrorStatus(r, error) ELSE IF r.h \in Created THEN 201 ELSE 200)

\* What the handler makes of the answer of its k-th call.
Returned(r, result) ==
    LET error == IF result # "ok" /\ r.error = "none" /\ <<r.h, r.k>> \notin Optional THEN result ELSE r.error
        more  == r.k < Len(Calls[r.h]) /\ (result = "ok" \/ r.h \in MakesBoth)
    IN  IF more THEN [r EXCEPT !.at = "call", !.k = @ + 1, !.error = error]
        ELSE Answered([r EXCEPT !.error = error],
                      IF error # "none" THEN ErrorStatus(r, error) ELSE IF r.h \in Created THEN 201 ELSE 200)

Method == Calls[request.h][request.k][1]
Scope == Calls[request.h][request.k][2]

\* BrainClient::call signs with the scope of the call and "system", and connects.
CallBrain ==
    /\ request.at = "call"
    /\ request' = IF brainUp THEN [request EXCEPT !.at = "brain"] ELSE Returned(request, "io")
    /\ UNCHANGED <<policy, memoryImport, brainUp, wedged, late>>

\* process_frame and route answer by their tables, or evaluate_request denies the text of
\* the call.  A denial is recorded in the store first.
BrainRejects ==
    LET e == Rejection(Method, {Scope, "system"})
    IN  /\ request.at = "brain" /\ brainUp
        /\ \/ e \notin {"none", "quarantined"} /\ request' = Returned(request, e)
           \/ /\ e \notin {"no_scope", "scope_insufficient"} /\ ~wedged
              /\ request' = Returned(request, "quarantined")
        /\ UNCHANGED <<policy, memoryImport, brainUp, wedged, late>>

\* What these do does not take the store.
StoreFree == {"system.health", "system.ready", "security.saber_dry_run"}

\* The handler runs and answers; before it takes the store it may find its input invalid.
BrainServes(result) ==
    /\ request.at = "brain" /\ brainUp /\ Rejection(Method, {Scope, "system"}) = "none"
    /\ wedged => Method \in StoreFree \/ result = "invalid"
    /\ request' = Returned([request EXCEPT !.ran = IF result = "ok" THEN Append(@, Method) ELSE @], result)
    /\ UNCHANGED <<policy, memoryImport, brainUp, wedged, late>>

\* The queue is full, or the job waits longer than the 30 s of route; dispatch_value answers
\* the system methods itself, without a queue and without a limit.
BrainIsSlow ==
    /\ request.at = "brain" /\ brainUp /\ Rejection(Method, {Scope, "system"}) = "none"
    /\ Method \notin SystemMethods
    /\ \/ request' = Returned(request, "queue_full") /\ UNCHANGED late
       \/ request' = Returned(request, "worker_timeout") /\ late' = late \cup {Method}
    /\ UNCHANGED <<policy, memoryImport, brainUp, wedged>>

\* runtime_status waits 3 s for its call; no other handler limits the wait, nor does the client.
IngressGivesUp ==
    /\ request.at = "brain" /\ request.h = "runtime_status"
    /\ request' = Answered(request, 503)
    /\ late' = late \cup {Method}
    /\ UNCHANGED <<policy, memoryImport, brainUp, wedged>>

\* A job left behind runs all the same.
LateJob(m) ==
    /\ m \in late /\ brainUp
    /\ wedged => m \in StoreFree
    /\ late' = late \ {m}
    /\ request' = [request EXCEPT !.ran = Append(@, m)]
    /\ UNCHANGED <<policy, memoryImport, brainUp, wedged>>

\* An import_pack, of this request or of another, has saved a memory: it links it to the
\* ledger by a function that locks the store again.
StoreWedges ==
    /\ brainUp /\ ~wedged /\ wedged' = TRUE
    /\ UNCHANGED <<request, policy, memoryImport, brainUp, late>>

\* The brain stops, before or after it has run what it was asked; queued jobs are gone.
BrainStops ==
    /\ brainUp /\ brainUp' = FALSE /\ wedged' = FALSE /\ late' = {}
    /\ \/ request.at # "brain" /\ UNCHANGED request
       \/ /\ request.at = "brain"
          /\ \/ request' = Returned(request, "io")
             \/ /\ Rejection(Method, {Scope, "system"}) = "none"
                /\ request' = Returned([request EXCEPT !.ran = Append(@, Method)], "io")
    /\ UNCHANGED <<policy, memoryImport>>

BrainStarts ==
    /\ ~brainUp /\ brainUp' = TRUE
    /\ UNCHANGED <<request, policy, memoryImport, wedged, late>>

\* permissions_set_profile of another request.
SetProfile(p) ==
    /\ policy # p /\ policy' = p
    /\ UNCHANGED <<request, memoryImport, brainUp, wedged, late>>

HandlerErrors == {"invalid", "not_found", "unauthorized", "denied", "internal"}

Step == \/ CheckRequest \/ AnswerLocally \/ CallBrain \/ BrainRejects
        \/ (\E result \in {"ok"} \cup HandlerErrors : BrainServes(result)) \/ BrainIsSlow \/ IngressGivesUp

FrontNext == \/ Step \/ (\E m \in late : LateJob(m)) \/ StoreWedges \/ BrainStops \/ BrainStarts
             \/ \E p \in Profiles : SetProfile(p)

\* The request waits for a brain that may never answer: once the store is wedged, each call
\* that takes it blocks one more thread of the runtime, the limit of route included when none
\* is left.
Hangs == wedged /\ request.at = "brain" /\ request.h # "runtime_status"

\* The ingress does not stop on a request, and a brain that is not wedged answers, refuses or
\* gives up.  Nothing is assumed of a call that waits for a wedged one.
FrontFairness == WF_frontVars(Step /\ ~Hangs)

FrontSpec == FrontInit /\ [][FrontNext]_frontVars /\ FrontFairness

-----------------------------------------------------------------------------
(* Properties.                                                             *)

Asked == IF request.h \in DOMAIN Calls THEN {Calls[request.h][i][1] : i \in DOMAIN Calls[request.h]} ELSE {request.h}
Needed == IF request.h \in DOMAIN Calls
          THEN {Calls[request.h][i][1] : i \in {j \in DOMAIN Calls[request.h] : <<request.h, j>> \notin Optional}}
          ELSE {request.h}

ExchangeOf == INSTANCE Exchange WITH
    may <- Asked, needs <- Needed, done <- request.ran, stuck <- Hangs,
    answer <- IF request.at # "done" THEN "none" ELSE IF request.status \in {200, 201} THEN "ok" ELSE "failed"

\* Whatever the brain does (stop, refuse, be slow, wedge, run jobs late), a request is answered
\* once at most, runs nothing twice and nothing it did not ask for, and success means that every
\* call it depends on has run in the brain.  It is answered unless it is left waiting for a brain
\* whose store is wedged; then it waits until that brain stops.
ImplementsExchange == ExchangeOf!ExchangeSpec

\* Nothing runs that the checks of the route should have kept out, late jobs and calls of a
\* stopped brain included: gates are written only for a verified signature, the brain is purged
\* only on a confirmed request whose profile change has run, and the workspace is touched only
\* under a profile that allowed it.
RanAsAllowed ==
    /\ request.allowed
    /\ \A i \in DOMAIN request.ran :
           LET m == request.ran[i] IN
           /\ m \in gatesWrite => request.sig = "good"
           /\ m = "brain.purge" => request.confirmed /\ i > 1 /\ request.ran[i - 1] = "permissions.set_profile"

\* What passes the scope table and the security policy is known to the worker table and the
\* dispatch table: no call of a route is lost between them.
AcceptedIsRouted == request.error \notin {"no_worker", "no_handler"}
=============================================================================

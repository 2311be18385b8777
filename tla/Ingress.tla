------------------------------ MODULE Ingress -------------------------------
(***************************************************************************)
(* What the ingress keeps in memory beside the brain (http.rs AppState and *)
(* its handlers in ui_routes.rs): the selected model, cached next to the   *)
(* settings of the brain; the skills bound to the session, saved in a file *)
(* of their own; and the windows of the rate limiter.  Two requests of     *)
(* Clients are served at a time, the brain may fail or be slow, and the    *)
(* ingress may stop at any step.                                           *)
(***************************************************************************)
EXTENDS Routes, Integers

CONSTANTS
    Clients,      \* requests in progress
    Selections,   \* the bodies of selecting requests: fields given, with their values
    SkillLists,   \* the skill lists of binding requests
    Descriptors,  \* the skills the mesh finds
    Limit,        \* requests of a window (100)
    Window,       \* seconds of a window (60)
    MaxNow        \* bound: the last second

ASSUME WindowAssumption == Limit \in Nat \ {0} /\ Window \in Nat \ {0} /\ MaxNow \in Nat

VARIABLES
    chosen,     \* provider settings of the brain
    cached,     \* SelectedModel
    selects,    \* selecting requests
    overdue,    \* selections queued in the brain whose caller has given up
    bound,      \* session_skills
    file,       \* the session skills store
    binds,      \* binding requests
    settled,    \* history variable: fields as the last undisturbed selection left them, or "unknown"
    remembered, \* history variable: fields selected since the ingress started
    settledSkills,  \* history variable: the same of the skills, or {"unknown"}
    now,        \* the wall clock
    windows,    \* the client's window of class read
    promise     \* history variable: when the client was told to come back, -1 if it was not

selectVars == <<chosen, cached, selects, overdue, settled, remembered>>
skillVars == <<bound, file, binds, settledSkills>>
limitVars == <<now, windows, promise>>
ingressVars == <<selectVars, skillVars, limitVars>>

Fields == {"provider", "model", "effort"}
Nothing == [f \in Fields |-> "unset"]
Idle == [at |-> "idle", alone |-> TRUE]

IngressInit ==
    /\ chosen = Nothing /\ cached = Nothing /\ overdue = {}
    /\ selects = [c \in Clients |-> Idle] /\ binds = [c \in Clients |-> Idle]
    /\ bound = {} /\ file = {}
    /\ settled = [f \in Fields |-> "unknown"] /\ remembered = {} /\ settledSkills = {"unknown"}
    /\ now = 0 /\ windows = [start |-> 0, count |-> 0] /\ promise = -1

\* A request in progress is no longer alone when another one starts.
Crowded(requests) == [c \in Clients |-> [requests[c] EXCEPT !.alone = FALSE]]
Quiet(requests) == \A c \in Clients : requests[c].at = "idle"
Unsettled(fields) == [f \in Fields |-> IF f \in fields THEN "unknown" ELSE settled[f]]

-----------------------------------------------------------------------------
(* The selected model.                                                     *)

Efforts == {"none", "low", "medium", "high"}

Some(body, fields) == [f \in DOMAIN body \cap fields |-> body[f]]

\* What each handler takes from its body; nothing is refused.
model_select(body) == body
reasoning_policy_set(body) ==
    LET effort == IF "effort" \in DOMAIN body THEN body.effort ELSE "medium"
    IN  IF effort \in Efforts THEN [effort |-> effort] ELSE <<>>
provider_route_select(body) == IF DOMAIN body \cap {"provider", "model"} # {} THEN body ELSE <<>>
provider_routes_select(body) == Some(body, {"provider", "model"})

Taken(h, body) == CASE h = "model_select" -> model_select(body)
                    [] h = "reasoning_policy_set" -> reasoning_policy_set(body)
                    [] h = "provider_route_select" -> provider_route_select(body)
                    [] OTHER -> provider_routes_select(body)
Selectors == {"model_select", "reasoning_policy_set", "provider_route_select", "provider_routes_select"}

\* The checks before the call; a request without a field it needs is refused and changes nothing.
SelectStart(c, h, body) ==
    LET taken == Taken(h, body)
    IN  /\ selects[c].at = "idle" /\ DOMAIN taken # {}
        /\ selects' = [Crowded(selects) EXCEPT ![c] = [at |-> "set", anyway |-> h = "model_select", body |-> taken,
                                                       alone |-> Quiet(selects) /\ overdue = {}]]
        /\ settled' = Unsettled(DOMAIN taken)
        /\ UNCHANGED <<chosen, cached, overdue, remembered, skillVars, limitVars>>

\* validate_settings takes any provider and model, and the efforts it knows; settings.set then
\* writes the rows one by one under the store mutex.
validate_settings(body) == "effort" \in DOMAIN body => body.effort \in Efforts
Written(body, fields) == [f \in Fields |-> IF f \in DOMAIN body THEN body[f] ELSE fields[f]]

SelectBrain(c) ==
    /\ selects[c].at = "set"
    /\ IF validate_settings(selects[c].body)
       THEN chosen' = Written(selects[c].body, chosen) /\ selects' = [selects EXCEPT ![c].at = "ok"]
       ELSE UNCHANGED chosen /\ selects' = [selects EXCEPT ![c].at = "failed"]
    /\ UNCHANGED <<cached, overdue, settled, remembered, skillVars, limitVars>>

\* The brain does not answer: it was not asked, it did what was asked, or it will.
SelectBroken(c) ==
    /\ selects[c].at = "set"
    /\ selects' = [selects EXCEPT ![c].at = "failed", ![c].alone = FALSE]
    /\ \/ UNCHANGED <<chosen, overdue>>
       \/ /\ validate_settings(selects[c].body)
          /\ \/ chosen' = Written(selects[c].body, chosen) /\ UNCHANGED overdue
             \/ overdue' = overdue \cup {selects[c].body} /\ UNCHANGED chosen
    /\ UNCHANGED <<cached, settled, remembered, skillVars, limitVars>>

OverdueRuns(body) ==
    /\ body \in overdue /\ overdue' = overdue \ {body}
    /\ chosen' = Written(body, chosen)
    /\ settled' = Unsettled(DOMAIN body)
    /\ UNCHANGED <<cached, selects, remembered, skillVars, limitVars>>

\* Mutant: the route of a provider does not update the cache.
SelectAnswer_RoutesNotCached(c) ==
    LET r == selects[c]
    IN  /\ r.at \in {"ok", "failed"}
        /\ cached' = IF r.anyway THEN Written(r.body, cached) ELSE cached
        /\ remembered' = IF r.at = "ok" \/ r.anyway THEN remembered \cup DOMAIN r.body ELSE remembered
        /\ selects' = [selects EXCEPT ![c] = Idle]
        /\ settled' = IF r.at = "ok" /\ r.alone THEN Written(r.body, settled) ELSE settled
        /\ UNCHANGED <<chosen, overdue, skillVars, limitVars>>

\* update_selected_model on success, and for model_select on failure too.
SelectAnswer(c) ==
    LET r == selects[c]
    IN  /\ r.at \in {"ok", "failed"}
        /\ cached' = IF r.at = "ok" \/ r.anyway THEN Written(r.body, cached) ELSE cached
        /\ remembered' = IF r.at = "ok" \/ r.anyway THEN remembered \cup DOMAIN r.body ELSE remembered
        /\ selects' = [selects EXCEPT ![c] = Idle]
        /\ settled' = IF r.at = "ok" /\ r.alone THEN Written(r.body, settled) ELSE settled
        /\ UNCHANGED <<chosen, overdue, skillVars, limitVars>>

\* What model_selected and reasoning_policy_get report.
model_selected == IF chosen.provider = "unset" \/ chosen.model = "unset" THEN cached ELSE chosen
reasoning_policy_get == IF chosen.effort = "unset" THEN "medium" ELSE chosen.effort

\* What chat fills a request with.
ChatDefaults == cached

-----------------------------------------------------------------------------
(* Skills of the session.                                                  *)

\* apply_session_skill_import up to the clone under the lock: without a match it is refused.
apply_session_skill_import(c, skills) ==
    /\ binds[c].at = "idle" /\ skills \cap Descriptors # {}
    /\ bound' = bound \cup (skills \cap Descriptors)
    /\ binds' = [Crowded(binds) EXCEPT ![c] = [at |-> "write", scope |-> "skills:import", list |-> bound', alone |-> Quiet(binds)]]
    /\ settledSkills' = {"unknown"}
    /\ UNCHANGED <<selectVars, file, limitVars>>

apply_session_skill_remove(c, skills) ==
    /\ binds[c].at = "idle"
    /\ bound' = bound \ skills
    /\ binds' = [Crowded(binds) EXCEPT ![c] = [at |-> "write", scope |-> "skills:remove", list |-> bound', alone |-> Quiet(binds)]]
    /\ settledSkills' = {"unknown"}
    /\ UNCHANGED <<selectVars, file, limitVars>>

\* persist_session_skills_to_store writes a file of its own and renames it: whole or not at all.
persist_session_skills_to_store(c) ==
    /\ binds[c].at = "write"
    /\ \/ file' = binds[c].list /\ binds' = [binds EXCEPT ![c].at = "tell"]
          /\ settledSkills' = IF binds[c].alone THEN binds[c].list ELSE settledSkills
       \/ UNCHANGED <<file, settledSkills>> /\ binds' = [binds EXCEPT ![c] = Idle]
    /\ UNCHANGED <<selectVars, bound, limitVars>>

\* The brain is told; what it answers changes the answer of the request and nothing else.
TellBrain(c) ==
    /\ binds[c].at = "tell"
    /\ binds' = [binds EXCEPT ![c] = Idle]
    /\ UNCHANGED <<selectVars, bound, file, settledSkills, limitVars>>

\* Mutant of the start: the file is not read.
load_session_skills_from_store_Empty == {}

\* A file that is missing is no skills.
load_session_skills_from_store == file

\* The ingress stops and starts: the cache is SelectedModel::default(), the skills are those of
\* the file, requests in progress are broken off (one whose call is under way may still be
\* served).
IngressRestarts ==
    /\ cached' = Nothing /\ remembered' = {} /\ bound' = load_session_skills_from_store
    /\ overdue' \in {overdue, overdue \cup {selects[c].body : c \in {d \in Clients : selects[d].at = "set" /\ validate_settings(selects[d].body)}}}
    /\ selects' = [c \in Clients |-> Idle] /\ binds' = [c \in Clients |-> Idle]
    /\ windows' = [start |-> now, count |-> 0] /\ promise' = -1
    /\ UNCHANGED <<chosen, settled, file, settledSkills, now>>

-----------------------------------------------------------------------------
(* The rate limiter, in front of the signed recall route.                  *)

Tick == /\ now < MaxNow /\ now' = now + 1
        /\ UNCHANGED <<selectVars, skillVars, windows, promise>>

\* The wall clock is set back.
SetBack == /\ now > 0 /\ now' = now - 1
           /\ UNCHANGED <<selectVars, skillVars, windows, promise>>

Current == IF now - windows.start >= Window THEN [start |-> now, count |-> 0] ELSE windows
\* Mutant: one second short.
Retry_Short == LET left == Window - 1 - (now - Current.start) IN IF left > 1 THEN left ELSE 1

Retry == LET left == Window - (now - Current.start) IN IF left > 1 THEN left ELSE 1

\* RateLimiter::check of a verified recall.
check ==
    LET w == Current
    IN  /\ IF w.count >= Limit THEN windows' = w /\ promise' = now + Retry
           ELSE windows' = [w EXCEPT !.count = @ + 1] /\ promise' = -1
        /\ UNCHANGED <<selectVars, skillVars, now>>

SelectNext ==
    \/ \E c \in Clients :
           \/ \E h \in Selectors, body \in Selections : SelectStart(c, h, body)
           \/ SelectBrain(c) \/ SelectBroken(c) \/ SelectAnswer(c)
    \/ \E body \in overdue : OverdueRuns(body)

SkillNext == \E c \in Clients :
    \/ \E skills \in SkillLists : apply_session_skill_import(c, skills) \/ apply_session_skill_remove(c, skills)
    \/ persist_session_skills_to_store(c) \/ TellBrain(c)

LimitNext == Tick \/ SetBack \/ check

IngressNext == SelectNext \/ SkillNext \/ LimitNext \/ IngressRestarts
IngressSpec == IngressInit /\ [][IngressNext]_ingressVars

-----------------------------------------------------------------------------
(* Properties.                                                             *)

\* A selection no other one overlapped, and answered as made, is what the brain keeps from then
\* on, restarts of the ingress included.  What is reported agrees with it, and chat fills its
\* requests with it, until the ingress restarts; from then until the field is selected again
\* chat has the default, while model_selected reports the brain's as soon as the brain has
\* both a provider and a model.  The skills an undisturbed request leaves are bound and in the
\* file, and a restart brings them back.
SettledAgrees ==
    /\ \A f \in Fields : settled[f] # "unknown" =>
           /\ chosen[f] = settled[f]
           /\ ChatDefaults[f] = IF f \in remembered THEN settled[f] ELSE "unset"
           /\ f \in remembered \/ (chosen.provider # "unset" /\ chosen.model # "unset")
                 => model_selected[f] = settled[f]
    /\ settled.effort # "unknown" => reasoning_policy_get = settled.effort
    /\ settledSkills # {"unknown"} => bound = settledSkills /\ file = settledSkills

\* A client told to come back is served when it comes back then, whatever the wall clock did.
RetryTrue == promise # -1 /\ now >= promise => Current.count < Limit
=============================================================================

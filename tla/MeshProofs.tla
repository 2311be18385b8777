----------------------------- MODULE MeshProofs -----------------------------
(***************************************************************************)
(* Proofs about the modules of the ingress that keep state: FileStores,    *)
(* Ingress, Mcp and Chat, for all values of their constants.               *)
(***************************************************************************)
EXTENDS FileStores, Ingress, Chat, FiniteSetTheorems, TLAPS

-----------------------------------------------------------------------------
(* Ingress: a client told to come back.                                    *)

\* The promise is never before the end of the window it was made in.
LimitInv ==
    /\ now \in Nat /\ promise \in Int
    /\ windows \in [start : Int, count : Nat]
    /\ promise # -1 => promise >= windows.start + Window

LEMMA LimitInitial == IngressInit => LimitInv
BY WindowAssumption DEF IngressInit, LimitInv

\* A limit reached is a window that is not over, and Retry reaches its end.
LEMMA LimitStep == ASSUME LimitInv, [IngressNext]_ingressVars PROVE LimitInv'
<1> USE WindowAssumption DEF LimitInv
<1>1. CASE check
  <2> DEFINE w == Current
  <2>1. w \in [start : Int, count : Nat]
    BY DEF Current
  <2>2. Retry \in Int /\ Retry >= Window - (now - w.start)
    BY <2>1 DEF Retry
  <2>3. CASE w.count >= Limit
    BY <1>1, <2>1, <2>2, <2>3 DEF check
  <2>4. CASE ~(w.count >= Limit)
    BY <1>1, <2>1, <2>4 DEF check
  <2> QED BY <2>3, <2>4
<1>2. CASE Tick \/ SetBack
  BY <1>2 DEF Tick, SetBack
<1>3. CASE IngressRestarts
  BY <1>3 DEF IngressRestarts
<1>4. CASE SelectNext \/ SkillNext \/ UNCHANGED ingressVars
  <2>1. UNCHANGED limitVars
    BY <1>4 DEF SelectNext, SelectStart, SelectBrain, SelectBroken, SelectAnswer, OverdueRuns,
                SkillNext, apply_session_skill_import, apply_session_skill_remove,
                persist_session_skills_to_store, TellBrain, ingressVars
  <2> QED BY <2>1 DEF limitVars
<1> QED BY <1>1, <1>2, <1>3, <1>4 DEF IngressNext, LimitNext

\* A client the rate limiter told when to come back is served when it comes back then, for
\* any limit and window and however the wall clock is set.
THEOREM RetryIsTrue == IngressSpec => []RetryTrue
<1>1. LimitInv => RetryTrue
  BY WindowAssumption DEF LimitInv, RetryTrue, Current
<1> QED BY <1>1, LimitInitial, LimitStep, PTL DEF IngressSpec

-----------------------------------------------------------------------------
(* Ingress: the skills of the session.                                     *)

SkillRequests ==
    [at : {"idle"}, alone : BOOLEAN]
    \cup [at : {"write", "tell"}, scope : {"skills:import", "skills:remove"},
          list : SUBSET Descriptors, alone : BOOLEAN]

\* While a request is at its write nothing is settled, and a request that is still alone
\* writes what is bound, with every other request idle.
SkillInv ==
    /\ bound \subseteq Descriptors /\ file \subseteq Descriptors
    /\ binds \in [Clients -> SkillRequests]
    /\ settledSkills # {"unknown"} => bound = settledSkills /\ file = settledSkills
    /\ \A c \in Clients : binds[c].at = "write" => settledSkills = {"unknown"}
    /\ \A c \in Clients : binds[c].at # "idle" /\ binds[c].alone =>
           /\ binds[c].list = bound
           /\ \A d \in Clients \ {c} : binds[d].at = "idle"

LEMMA SkillInitial == IngressInit => SkillInv
BY DEF IngressInit, SkillInv, SkillRequests, Idle

\* Starting a request leaves no other one alone.
LEMMA SkillStart ==
    ASSUME SkillInv, NEW c \in Clients, NEW list \in SUBSET Descriptors,
           NEW scope \in {"skills:import", "skills:remove"},
           bound' = list, settledSkills' = {"unknown"}, UNCHANGED file,
           binds' = [Crowded(binds) EXCEPT ![c] = [at |-> "write", scope |-> scope,
                                                   list |-> bound', alone |-> Quiet(binds)]]
    PROVE  SkillInv'
<1>1. \A d \in Clients : binds[d] \in SkillRequests
  BY DEF SkillInv
<1>2. \A d \in Clients \ {c} :
          /\ binds'[d] \in SkillRequests
          /\ binds'[d].at = binds[d].at /\ binds'[d].alone = FALSE
  <2> TAKE d \in Clients \ {c}
  <2>1. binds'[d] = [binds[d] EXCEPT !.alone = FALSE]
    BY DEF Crowded
  <2>2. ASSUME NEW r \in SkillRequests, NEW q, q = [r EXCEPT !.alone = FALSE]
        PROVE  q \in SkillRequests /\ q.at = r.at /\ q.alone = FALSE
    <3>1. CASE r \in [at : {"idle"}, alone : BOOLEAN]
      BY <2>2, <3>1 DEF SkillRequests
    <3>2. CASE r \in [at : {"write", "tell"}, scope : {"skills:import", "skills:remove"},
                      list : SUBSET Descriptors, alone : BOOLEAN]
      BY <2>2, <3>2 DEF SkillRequests
    <3> QED BY <3>1, <3>2 DEF SkillRequests
  <2> QED BY <1>1, <2>1, <2>2
<1>3. binds'[c] = [at |-> "write", scope |-> scope, list |-> list, alone |-> Quiet(binds)]
  BY DEF Crowded
<1>4. binds'[c] \in SkillRequests /\ Quiet(binds) \in BOOLEAN
  <2>1. Quiet(binds) \in BOOLEAN
    BY DEF Quiet
  <2>2. PICK b \in BOOLEAN : b = Quiet(binds)
    BY <2>1
  <2>3. [at |-> "write", scope |-> scope, list |-> list, alone |-> b] \in SkillRequests
    BY DEF SkillRequests
  <2> QED BY <1>3, <2>1, <2>2, <2>3
<1>5. binds' \in [Clients -> SkillRequests]
  <2>1. binds' = [d \in Clients |-> binds'[d]]
    BY DEF Crowded
  <2> QED BY <2>1, <1>2, <1>4
<1>6. binds'[c].alone => \A d \in Clients \ {c} : binds[d].at = "idle"
  BY <1>3 DEF Quiet
<1> QED BY <1>2, <1>3, <1>5, <1>6 DEF SkillInv

LEMMA SkillStep == ASSUME SkillInv, [IngressNext]_ingressVars PROVE SkillInv'
<1> USE DEF SkillInv
<1>1. ASSUME NEW c \in Clients, NEW skills, apply_session_skill_import(c, skills) PROVE SkillInv'
  <2>1. bound \cup (skills \cap Descriptors) \in SUBSET Descriptors
    OBVIOUS
  <2> QED BY <1>1, <2>1, SkillStart DEF apply_session_skill_import, skillVars
<1>2. ASSUME NEW c \in Clients, NEW skills, apply_session_skill_remove(c, skills) PROVE SkillInv'
  <2>1. bound \ skills \in SUBSET Descriptors
    OBVIOUS
  <2> QED BY <1>2, <2>1, SkillStart DEF apply_session_skill_remove, skillVars
<1>3. ASSUME NEW c \in Clients, persist_session_skills_to_store(c) PROVE SkillInv'
  <2>1. binds[c] \in SkillRequests /\ binds[c].at = "write" /\ UNCHANGED bound
    BY <1>3 DEF persist_session_skills_to_store
  <2>2. CASE /\ file' = binds[c].list /\ binds' = [binds EXCEPT ![c].at = "tell"]
             /\ settledSkills' = IF binds[c].alone THEN binds[c].list ELSE settledSkills
    <3>1. binds[c].list \in SUBSET Descriptors /\ [binds[c] EXCEPT !.at = "tell"] \in SkillRequests
      BY <2>1 DEF SkillRequests
    <3>2. \A d \in Clients : binds'[d] = IF d = c THEN [binds[c] EXCEPT !.at = "tell"] ELSE binds[d]
      BY <2>2
    <3>3. /\ binds'[c].at = "tell" /\ binds'[c].alone = binds[c].alone
          /\ binds'[c].list = binds[c].list
      BY <2>1, <3>2 DEF SkillRequests
    <3>4. binds' \in [Clients -> SkillRequests]
      BY <2>2, <3>1
    <3>5. CASE binds[c].alone
      BY <2>1, <2>2, <3>1, <3>2, <3>3, <3>4, <3>5
    <3>6. CASE ~binds[c].alone
      BY <2>1, <2>2, <3>1, <3>2, <3>3, <3>4, <3>6
    <3> QED BY <3>5, <3>6
  <2>3. CASE UNCHANGED <<file, settledSkills>> /\ binds' = [binds EXCEPT ![c] = Idle]
    <3>1. Idle \in SkillRequests /\ Idle.at = "idle"
      BY DEF Idle, SkillRequests
    <3> QED BY <2>1, <2>3, <3>1
  <2> QED BY <1>3, <2>2, <2>3 DEF persist_session_skills_to_store
<1>4. ASSUME NEW c \in Clients, TellBrain(c) PROVE SkillInv'
  <2>1. Idle \in SkillRequests /\ Idle.at = "idle"
    BY DEF Idle, SkillRequests
  <2> QED BY <1>4, <2>1 DEF TellBrain
<1>5. CASE IngressRestarts
  <2>1. Idle \in SkillRequests /\ Idle.at = "idle"
    BY DEF Idle, SkillRequests
  <2> QED BY <1>5, <2>1 DEF IngressRestarts, load_session_skills_from_store, Quiet
<1>6. CASE SelectNext \/ LimitNext \/ UNCHANGED ingressVars
  <2>1. UNCHANGED skillVars
    BY <1>6 DEF SelectNext, SelectStart, SelectBrain, SelectBroken, SelectAnswer, OverdueRuns,
                LimitNext, Tick, SetBack, check, ingressVars
  <2> QED BY <2>1 DEF skillVars
<1> QED BY <1>1, <1>2, <1>3, <1>4, <1>5, <1>6 DEF IngressNext, SkillNext

-----------------------------------------------------------------------------
(* Ingress: the selected model.                                            *)

\* What a request carries on from its body.
Bodies == {Taken(h, body) : h \in Selectors, body \in Selections}

SelectRequests ==
    [at : {"idle"}, alone : BOOLEAN]
    \cup [at : {"set", "ok", "failed"}, anyway : BOOLEAN, body : Bodies, alone : BOOLEAN]

\* A field that a request in progress carries is not settled; a request that is still alone
\* has every other one idle and nothing overdue, and once it is answered as made the brain
\* has what it carries, with an effort the brain knows.  The cache has the settled value of
\* the fields selected since the ingress started, and nothing of the others.
SelectInv ==
    /\ selects \in [Clients -> SelectRequests]
    /\ \A f \in Fields : f \in DOMAIN chosen /\ f \in DOMAIN cached /\ f \in DOMAIN settled
    /\ \A f \in Fields : settled[f] # "unknown" => chosen[f] = settled[f]
    /\ \A f \in Fields : settled[f] # "unknown" /\ f \in remembered => cached[f] = settled[f]
    /\ \A f \in Fields : f \notin remembered => cached[f] = "unset"
    /\ settled["effort"] \in Efforts \cup {"unknown"}
    /\ \A c \in Clients : selects[c].at # "idle" =>
           \A f \in Fields \cap DOMAIN selects[c].body : settled[f] = "unknown"
    /\ \A c \in Clients : selects[c].at # "idle" /\ selects[c].alone =>
           /\ \A d \in Clients \ {c} : selects[d].at = "idle"
           /\ overdue = {}
    /\ \A c \in Clients : selects[c].at = "ok" =>
           ("effort" \in DOMAIN selects[c].body => selects[c].body.effort \in Efforts)
    /\ \A c \in Clients : selects[c].at = "ok" /\ selects[c].alone =>
           \A f \in Fields \cap DOMAIN selects[c].body : chosen[f] = selects[c].body[f]

LEMMA SelectInitial == IngressInit => SelectInv
BY DEF IngressInit, SelectInv, SelectRequests, Idle, Nothing, Fields

\* What Written and Unsettled say of a field.
LEMMA WrittenFields ==
    ASSUME NEW body, NEW fields, NEW f \in Fields
    PROVE  /\ f \in DOMAIN Written(body, fields)
           /\ Written(body, fields)[f] = IF f \in DOMAIN body THEN body[f] ELSE fields[f]
BY DEF Written

LEMMA UnsettledFields ==
    ASSUME NEW fields, NEW f \in Fields
    PROVE  /\ f \in DOMAIN Unsettled(fields)
           /\ Unsettled(fields)[f] = IF f \in fields THEN "unknown" ELSE settled[f]
BY DEF Unsettled

\* A row keeps its shape when another request starts.
LEMMA SelectRowAlone ==
    ASSUME NEW r \in SelectRequests, NEW q, q = [r EXCEPT !.alone = FALSE]
    PROVE  /\ q \in SelectRequests /\ q.at = r.at /\ q.alone = FALSE
           /\ r.at # "idle" => q.body = r.body
<1>1. CASE r \in [at : {"idle"}, alone : BOOLEAN]
  BY <1>1 DEF SelectRequests
<1>2. CASE r \in [at : {"set", "ok", "failed"}, anyway : BOOLEAN, body : Bodies, alone : BOOLEAN]
  BY <1>2 DEF SelectRequests
<1> QED BY <1>1, <1>2 DEF SelectRequests

\* A row that is not idle keeps what it carries when it moves on.
LEMMA SelectRowMoves ==
    ASSUME NEW r \in SelectRequests, r.at # "idle", NEW at \in {"ok", "failed"}, NEW q,
           \/ q = [r EXCEPT !.at = at]
           \/ q = [r EXCEPT !.at = at, !.alone = FALSE]
    PROVE  /\ q \in SelectRequests /\ q.at = at /\ q.body = r.body
           /\ q.alone => r.alone /\ q = [r EXCEPT !.at = at]
<1>1. r \in [at : {"set", "ok", "failed"}, anyway : BOOLEAN, body : Bodies, alone : BOOLEAN]
  BY DEF SelectRequests
<1>2. CASE q = [r EXCEPT !.at = at]
  BY <1>1, <1>2 DEF SelectRequests
<1>3. CASE q = [r EXCEPT !.at = at, !.alone = FALSE]
  BY <1>1, <1>3 DEF SelectRequests
<1> QED BY <1>2, <1>3

\* A request that starts leaves no other one alone, and unsettles what it carries.
LEMMA StartSelects ==
    ASSUME SelectInv, NEW c \in Clients, NEW h \in Selectors, NEW body \in Selections,
           SelectStart(c, h, body)
    PROVE  SelectInv'
<1> DEFINE taken == Taken(h, body)
           row == [at |-> "set", anyway |-> h = "model_select", body |-> taken,
                   alone |-> Quiet(selects) /\ overdue = {}]
<1>1. taken \in Bodies
  BY DEF Bodies
<1> HIDE DEF taken
<1>2. /\ selects' = [Crowded(selects) EXCEPT ![c] = row]
      /\ settled' = Unsettled(DOMAIN taken)
      /\ UNCHANGED <<chosen, cached, overdue, remembered>>
  BY DEF SelectStart, taken
<1>3. \A d \in Clients \ {c} :
          /\ selects'[d] \in SelectRequests
          /\ selects'[d].at = selects[d].at /\ selects'[d].alone = FALSE
          /\ selects[d].at # "idle" => selects'[d].body = selects[d].body
  <2> TAKE d \in Clients \ {c}
  <2>1. selects'[d] = [selects[d] EXCEPT !.alone = FALSE] /\ selects[d] \in SelectRequests
    BY <1>2 DEF Crowded, SelectInv
  <2> QED BY <2>1, SelectRowAlone
<1>4. /\ selects'[c] \in SelectRequests /\ selects'[c].at = "set" /\ selects'[c].body = taken
      /\ selects'[c].alone => overdue = {} /\ \A d \in Clients \ {c} : selects[d].at = "idle"
  <2>1. (Quiet(selects) /\ overdue = {}) \in BOOLEAN /\ (h = "model_select") \in BOOLEAN
    OBVIOUS
  <2>2. PICK a \in BOOLEAN, b \in BOOLEAN : /\ a = (Quiet(selects) /\ overdue = {})
                                             /\ b = (h = "model_select")
    BY <2>1
  <2>3. selects'[c] = [at |-> "set", anyway |-> b, body |-> taken, alone |-> a]
    BY <1>2, <2>2 DEF Crowded
  <2>4. a => overdue = {} /\ \A d \in Clients \ {c} : selects[d].at = "idle"
    BY <2>2 DEF Quiet
  <2> QED BY <1>1, <2>3, <2>4 DEF SelectRequests
<1>5. selects' \in [Clients -> SelectRequests]
  <2>1. selects' = [d \in Clients |-> selects'[d]]
    BY <1>2 DEF Crowded
  <2> QED BY <2>1, <1>3, <1>4
<1>6. \A f \in Fields : /\ f \in DOMAIN settled'
                        /\ settled'[f] = IF f \in DOMAIN taken THEN "unknown" ELSE settled[f]
  BY <1>2, UnsettledFields
<1>7. "effort" \in Fields
  BY DEF Fields
<1>8. \A d \in Clients : selects'[d].at # "idle" =>
          \A f \in Fields \cap DOMAIN selects'[d].body : settled'[f] = "unknown"
  BY <1>3, <1>4, <1>6 DEF SelectInv
<1>9. \A d \in Clients : selects'[d].at # "idle" /\ selects'[d].alone => d = c
  BY <1>3
<1>10. \A d \in Clients : selects'[d].at = "ok" =>
          ("effort" \in DOMAIN selects'[d].body => selects'[d].body.effort \in Efforts)
  BY <1>3, <1>4 DEF SelectInv
<1> QED BY <1>2, <1>3, <1>4, <1>5, <1>6, <1>7, <1>8, <1>9, <1>10 DEF SelectInv

\* The brain answers or does not: it writes at most fields the request carries, and of a
\* request that is still alone exactly those.
LEMMA BrainSelects ==
    ASSUME SelectInv, NEW c \in Clients, SelectBrain(c) \/ SelectBroken(c)
    PROVE  SelectInv'
<1> DEFINE r == selects[c]
<1>1. r \in SelectRequests /\ r.at = "set" /\ UNCHANGED <<cached, settled, remembered>>
  BY DEF SelectBrain, SelectBroken, SelectInv
<1>2. /\ \A d \in Clients \ {c} : selects'[d] = selects[d]
      /\ selects' \in [Clients -> SelectRequests]
      /\ selects'[c].at \in {"ok", "failed"} /\ selects'[c].body = r.body
      /\ selects'[c].alone => r.alone /\ overdue' = overdue
      /\ selects'[c].at = "ok" => /\ validate_settings(r.body)
                                  /\ chosen' = Written(r.body, chosen)
  <2>1. CASE SelectBrain(c)
    <3>1. PICK at \in {"ok", "failed"} :
              /\ selects' = [selects EXCEPT ![c].at = at]
              /\ at = "ok" => validate_settings(r.body) /\ chosen' = Written(r.body, chosen)
              /\ UNCHANGED overdue
      BY <2>1 DEF SelectBrain
    <3>2. selects'[c] = [r EXCEPT !.at = at]
      BY <3>1 DEF SelectInv
    <3>3. /\ selects'[c] \in SelectRequests /\ selects'[c].at = at /\ selects'[c].body = r.body
          /\ selects'[c].alone => r.alone
      <4>1. PICK x, q : x = r /\ q = selects'[c] /\ x \in SelectRequests /\ x.at # "idle" /\ q = [x EXCEPT !.at = at]
        BY <1>1, <3>2
      <4>2. x \in [at : {"set", "ok", "failed"}, anyway : BOOLEAN, body : Bodies, alone : BOOLEAN]
        BY <4>1 DEF SelectRequests
      <4>3. q \in SelectRequests /\ q.at = at /\ q.body = x.body /\ (q.alone => x.alone)
        BY <4>1, <4>2 DEF SelectRequests
      <4> QED BY <4>1, <4>3
    <3> QED BY <3>1, <3>3 DEF SelectInv
  <2>2. CASE SelectBroken(c)
    <3>1. selects' = [selects EXCEPT ![c].at = "failed", ![c].alone = FALSE]
      BY <2>2 DEF SelectBroken
    <3>2. selects'[c] = [r EXCEPT !.at = "failed", !.alone = FALSE]
      BY <3>1 DEF SelectInv
    <3>3. /\ selects'[c] \in SelectRequests /\ selects'[c].at = "failed" /\ selects'[c].body = r.body
      BY <1>1, <3>2, SelectRowMoves
    <3>4. selects'[c].alone = FALSE
      <4>1. r \in [at : {"set", "ok", "failed"}, anyway : BOOLEAN, body : Bodies, alone : BOOLEAN]
        BY <1>1 DEF SelectRequests
      <4> QED BY <4>1, <3>2
    <3> QED BY <3>1, <3>3, <3>4 DEF SelectInv
  <2> QED BY <2>1, <2>2
<1>3. chosen' = chosen \/ chosen' = Written(r.body, chosen)
  BY DEF SelectBrain, SelectBroken
<1>4. \A f \in Fields : /\ f \in DOMAIN chosen'
                        /\ f \notin DOMAIN r.body => chosen'[f] = chosen[f]
                        /\ selects'[c].at = "ok" /\ f \in DOMAIN r.body => chosen'[f] = r.body[f]
  BY <1>2, <1>3, WrittenFields DEF SelectInv
<1>5. \A f \in Fields : settled[f] # "unknown" => f \notin DOMAIN r.body
  BY <1>1 DEF SelectInv
<1>6. \A d \in Clients \ {c} : selects'[d].at # "idle" => ~selects'[d].alone
  BY <1>1, <1>2 DEF SelectInv
<1>7. selects'[c].at = "ok" /\ "effort" \in DOMAIN selects'[c].body => selects'[c].body.effort \in Efforts
  BY <1>2 DEF validate_settings
<1> HIDE DEF r
<1>8. \A d \in Clients : selects'[d].at # "idle" =>
          \A f \in Fields \cap DOMAIN selects'[d].body : settled'[f] = "unknown"
  BY <1>1, <1>2 DEF SelectInv, r
<1>9. \A d \in Clients : selects'[d].at # "idle" /\ selects'[d].alone =>
          /\ \A e \in Clients \ {d} : selects'[e].at = "idle"
          /\ overdue' = {}
  BY <1>1, <1>2, <1>6 DEF SelectInv, r
<1>10. \A d \in Clients : selects'[d].at = "ok" /\ selects'[d].alone =>
          \A f \in Fields \cap DOMAIN selects'[d].body : chosen'[f] = selects'[d].body[f]
  BY <1>2, <1>4, <1>6
<1>11. \A d \in Clients : selects'[d].at = "ok" =>
          ("effort" \in DOMAIN selects'[d].body => selects'[d].body.effort \in Efforts)
  BY <1>2, <1>7 DEF SelectInv
<1> QED BY <1>1, <1>2, <1>4, <1>5, <1>8, <1>9, <1>10, <1>11 DEF SelectInv

\* The answer settles what an undisturbed request carried; no other request carries it.
LEMMA AnswerSelects == ASSUME SelectInv, NEW c \in Clients, SelectAnswer(c) PROVE SelectInv'
<1> DEFINE r == selects[c]
<1>1. /\ r \in SelectRequests /\ r.at \in {"ok", "failed"}
      /\ \/ cached' = Written(r.body, cached) /\ remembered' = remembered \cup DOMAIN r.body
         \/ cached' = cached /\ remembered' = remembered /\ r.at # "ok"
      /\ selects' = [selects EXCEPT ![c] = Idle]
      /\ settled' = IF r.at = "ok" /\ r.alone THEN Written(r.body, settled) ELSE settled
      /\ UNCHANGED <<chosen, overdue>>
  BY DEF SelectAnswer, SelectInv
<1>2. /\ selects' \in [Clients -> SelectRequests]
      /\ selects'[c].at = "idle" /\ \A d \in Clients \ {c} : selects'[d] = selects[d]
  BY <1>1 DEF SelectInv, SelectRequests, Idle
<1>3. \A f \in Fields : f \in DOMAIN cached'
                        /\ cached'[f] = IF f \in DOMAIN r.body /\ cached' # cached THEN r.body[f] ELSE cached[f]
  BY <1>1, WrittenFields DEF SelectInv
<1>4. \A f \in Fields \cap DOMAIN r.body : settled[f] = "unknown"
  BY <1>1 DEF SelectInv
<1>5. "effort" \in Fields
  BY DEF Fields
<1>9. \A f \in Fields : /\ f \notin remembered' => cached'[f] = "unset"
                        /\ f \notin DOMAIN r.body => (f \in remembered' <=> f \in remembered)
  BY <1>1, <1>3 DEF SelectInv
<1>6. CASE r.at = "ok" /\ r.alone
  <2>1. \A f \in Fields : /\ f \in DOMAIN settled'
                          /\ settled'[f] = IF f \in DOMAIN r.body THEN r.body[f] ELSE settled[f]
    BY <1>1, <1>6, WrittenFields DEF SelectInv
  <2>2. \A d \in Clients : selects'[d].at = "idle"
    BY <1>1, <1>2, <1>6 DEF SelectInv
  <2>3. \A f \in Fields : cached'[f] = IF f \in DOMAIN r.body THEN r.body[f] ELSE cached[f]
    BY <1>1, <1>6, WrittenFields
  <2>4. \A f \in Fields \cap DOMAIN r.body : chosen[f] = r.body[f]
    BY <1>6 DEF SelectInv
  <2>5. "effort" \in DOMAIN r.body => r.body["effort"] \in Efforts
    BY <1>6 DEF SelectInv
  <2>6. settled'["effort"] \in Efforts \cup {"unknown"}
    BY <1>5, <2>1, <2>5 DEF SelectInv
  <2> HIDE DEF r
  <2>7. \A f \in Fields : settled'[f] # "unknown" =>
            chosen'[f] = settled'[f] /\ (f \in remembered' => cached'[f] = settled'[f])
    BY <1>1, <1>9, <2>1, <2>3, <2>4 DEF SelectInv
  <2> QED BY <1>1, <1>2, <1>3, <1>9, <2>1, <2>2, <2>6, <2>7 DEF SelectInv
<1>7. CASE ~(r.at = "ok" /\ r.alone)
  <2>1. settled' = settled
    BY <1>1, <1>7
  <2> HIDE DEF r
  <2>2. \A f \in Fields : settled[f] # "unknown" =>
            cached'[f] = cached[f] /\ (f \in remembered' <=> f \in remembered)
    BY <1>3, <1>4, <1>9
  <2> QED BY <1>1, <1>2, <1>3, <1>9, <2>1, <2>2 DEF SelectInv
<1> QED BY <1>6, <1>7

LEMMA SelectStep == ASSUME SelectInv, [IngressNext]_ingressVars PROVE SelectInv'
<1>1. ASSUME NEW body, OverdueRuns(body) PROVE SelectInv'
  <2>1. /\ body \in overdue /\ overdue' \subseteq overdue
        /\ chosen' = Written(body, chosen) /\ settled' = Unsettled(DOMAIN body)
        /\ UNCHANGED <<cached, selects, remembered>>
    BY <1>1 DEF OverdueRuns
  <2>2. \A f \in Fields : /\ f \in DOMAIN chosen' /\ f \in DOMAIN settled'
                          /\ chosen'[f] = IF f \in DOMAIN body THEN body[f] ELSE chosen[f]
                          /\ settled'[f] = IF f \in DOMAIN body THEN "unknown" ELSE settled[f]
    BY <2>1, WrittenFields, UnsettledFields
  <2>3. \A c \in Clients : selects[c].at # "idle" => ~selects[c].alone
    BY <2>1 DEF SelectInv
  <2>4. "effort" \in Fields
    BY DEF Fields
  <2> QED BY <2>1, <2>2, <2>3, <2>4 DEF SelectInv
<1>2. CASE IngressRestarts
  <2>1. /\ cached' = Nothing /\ remembered' = {} /\ UNCHANGED <<chosen, settled>>
        /\ selects' = [c \in Clients |-> Idle]
    BY <1>2 DEF IngressRestarts
  <2>2. /\ Idle \in SelectRequests /\ Idle.at = "idle"
        /\ \A f \in Fields : f \in DOMAIN Nothing /\ Nothing[f] = "unset"
    BY DEF Idle, SelectRequests, Nothing
  <2> QED BY <2>1, <2>2 DEF SelectInv
<1>3. CASE SkillNext \/ LimitNext \/ UNCHANGED ingressVars
  <2>1. UNCHANGED selectVars
    BY <1>3 DEF SkillNext, apply_session_skill_import, apply_session_skill_remove,
                persist_session_skills_to_store, TellBrain, LimitNext, Tick, SetBack, check, ingressVars
  <2> QED BY <2>1 DEF selectVars, SelectInv
<1>4. CASE SelectNext
  BY <1>1, <1>4, StartSelects, BrainSelects, AnswerSelects DEF SelectNext
<1> QED BY <1>2, <1>3, <1>4 DEF IngressNext

\* A selection that no other request overlapped and that was answered as made is what the
\* brain keeps, over any number of restarts of the ingress; chat uses it until the ingress
\* restarts and the default from then until the field is selected again.  The skills an
\* undisturbed request leaves are bound and in the file, also after restarts.  For any clients,
\* bodies and skills, with a brain that fails or is late and an ingress that stops at any step.
THEOREM UndisturbedIsSettled == IngressSpec => []SettledAgrees
<1> DEFINE Inv == SelectInv /\ SkillInv
<1>1. IngressInit => Inv
  BY SelectInitial, SkillInitial
<1>2. Inv /\ [IngressNext]_ingressVars => Inv'
  BY SelectStep, SkillStep
<1>3. Inv => SettledAgrees
  <2> SUFFICES ASSUME Inv PROVE SettledAgrees
    OBVIOUS
  <2>1. ASSUME NEW f \in Fields, settled[f] # "unknown"
        PROVE  /\ chosen[f] = settled[f]
               /\ ChatDefaults[f] = IF f \in remembered THEN settled[f] ELSE "unset"
               /\ f \in remembered \/ (chosen.provider # "unset" /\ chosen.model # "unset")
                     => model_selected[f] = settled[f]
    BY <2>1 DEF SelectInv, model_selected, ChatDefaults
  <2>2. settled["effort"] # "unknown" => reasoning_policy_get = settled["effort"]
    BY DEF SelectInv, reasoning_policy_get, Efforts, Fields
  <2> QED BY <2>1, <2>2 DEF SettledAgrees, SkillInv
<1> HIDE DEF Inv
<1> QED BY <1>1, <1>2, <1>3, PTL DEF IngressSpec

-----------------------------------------------------------------------------
(* FileStores: what is in the files and in the handlers.                   *)

StoreValues(K) == [parses : {TRUE}, rows : [K -> Statuses], pushed : [K -> Nat]]
StoreFiles(K) == {Absent, Truncated, Torn} \cup StoreValues(K)

StoreOps == {op \in Operations : op.store = store}
StoreJobs ==
    [pc : {"file", "open", "write", "rename"}, op : StoreOps, value : StoreValues(Keys),
     at : {"none", "tmp", "path", "gone"}]

StoresType ==
    /\ store \in Stores /\ raced \in BOOLEAN /\ half \in BOOLEAN
    /\ path \in StoreFiles(Keys) /\ tmp \in StoreFiles(Keys) /\ told \in StoreValues(Keys)
    /\ writes \in [Previews -> Nat]
    /\ job \in [StoreClients -> {IdleStore} \cup StoreJobs]

\* An operation is on an entry of its store, and of the previews the one that adds to the
\* list is the one that writes the workspace file.
LEMMA StoreOpShape ==
    ASSUME NEW op \in StoreOps
    PROVE  /\ op.key \in Keys /\ op.to \in Statuses /\ op.pushes \in BOOLEAN
           /\ store = "previews" => (Applies(op) <=> op.pushes)
<1>1. op \in Operations /\ op.store = store
  BY DEF StoreOps
<1>2. ASSUME NEW s, NEW k, NEW from, NEW to \in Statuses, NEW pushes \in BOOLEAN,
             op = Op(s, k, from, to, pushes)
      PROVE  s = store /\ op.key = k /\ op.to \in Statuses /\ op.pushes \in BOOLEAN
  BY <1>1, <1>2 DEF Op
<1>3. op.pushes \in BOOLEAN => (store = "previews" => (Applies(op) <=> op.pushes))
  BY <1>1 DEF Applies
<1>4. {"none", "pending", "accepted", "rejected", "installed", "disabled"} = Statuses
  BY DEF Statuses
<1>5. CASE op \in UNION {{preview_file_write(k), apply_file_write(k)} : k \in Previews}
  <2>1. PICK k \in Previews : op = preview_file_write(k) \/ op = apply_file_write(k)
    BY <1>5
  <2>2. store = "previews" /\ op.key = k /\ op.to \in Statuses /\ op.pushes \in BOOLEAN
    BY <1>2, <1>4, <2>1 DEF preview_file_write, apply_file_write
  <2> QED BY <1>3, <2>2 DEF Keys
<1>6. CASE op \in UNION {{code_review_propose(k), code_review_accept(k), code_review_reject(k)} : k \in Reviews}
  <2>1. PICK k \in Reviews : op = code_review_propose(k) \/ op = code_review_accept(k) \/ op = code_review_reject(k)
    BY <1>6
  <2>2. store = "reviews" /\ op.key = k /\ op.to \in Statuses /\ op.pushes \in BOOLEAN
    BY <1>2, <1>4, <2>1 DEF code_review_propose, code_review_accept, code_review_reject
  <2> QED BY <1>3, <2>2 DEF Keys
<1>7. CASE op \in UNION {{plugin_install(k), plugin_enable(k), plugin_disable(k), plugin_uninstall(k)} : k \in Plugins}
  <2>1. PICK k \in Plugins : \/ op = plugin_install(k) \/ op = plugin_enable(k)
                             \/ op = plugin_disable(k) \/ op = plugin_uninstall(k)
    BY <1>7
  <2>2. store = "plugins" /\ op.key = k /\ op.to \in Statuses /\ op.pushes \in BOOLEAN
    BY <1>2, <1>4, <2>1 DEF plugin_install, plugin_enable, plugin_disable, plugin_uninstall
  <2> QED BY <1>3, <2>2 DEF Keys
<1> QED BY <1>1, <1>5, <1>6, <1>7 DEF Operations

\* The files that do not parse are told apart from the stores.
LEMMA StoreFileKinds ==
    ASSUME NEW K, NEW f \in StoreFiles(K)
    PROVE  /\ f.parses <=> f \in StoreValues(K)
           /\ ~Absent.parses /\ ~Truncated.parses /\ ~Torn.parses /\ Truncated # Absent
<1>1. Absent.parses = FALSE /\ Truncated.parses = FALSE /\ Torn.parses = FALSE
  BY DEF Absent, Truncated, Torn
<1>2. Truncated # Absent
  BY DEF Absent, Truncated
<1>3. \A v \in StoreValues(K) : v.parses = TRUE
  BY DEF StoreValues
<1> QED BY <1>1, <1>2, <1>3 DEF StoreFiles

LEMMA StoreRead ==
    ASSUME StoresType
    PROVE  /\ EmptyStore \in StoreValues(Keys) /\ \A k \in Keys : EmptyStore.pushed[k] = 0
           /\ Read \in StoreValues(Keys)
           /\ Read = path \/ (Read = EmptyStore /\ ~path.parses)
<1>1. EmptyStore \in StoreValues(Keys) /\ \A k \in Keys : EmptyStore.pushed[k] = 0
  BY DEF EmptyStore, Value, StoreValues, Statuses
<1>2. path \in StoreFiles(Keys)
  BY DEF StoresType
<1> QED BY <1>1, <1>2, StoreFileKinds DEF Read

\* Read depends on the file and the store alone.
LEMMA StoreReadSame == ASSUME UNCHANGED <<store, path>> PROVE Read' = Read /\ Keys' = Keys /\ EmptyStore' = EmptyStore
BY DEF Read, EmptyStore, Keys, Value

LEMMA StoreChanged ==
    ASSUME NEW v \in StoreValues(Keys), NEW op \in StoreOps
    PROVE  /\ Changed(v, op) \in StoreValues(Keys)
           /\ \A k \in Keys : Changed(v, op).pushed[k] = v.pushed[k] + (IF op.pushes /\ k = op.key THEN 1 ELSE 0)
<1>1. op.key \in Keys /\ op.to \in Statuses /\ op.pushes \in BOOLEAN
  BY StoreOpShape
<1>2. /\ v.rows \in [Keys -> Statuses] /\ v.pushed \in [Keys -> Nat]
  BY DEF StoreValues
<1>3. [v.rows EXCEPT ![op.key] = op.to] \in [Keys -> Statuses]
  BY <1>1, <1>2
<1> DEFINE p == [v.pushed EXCEPT ![op.key] = IF op.pushes THEN @ + 1 ELSE @]
<1>4. p \in [Keys -> Nat] /\ \A k \in Keys : p[k] = v.pushed[k] + (IF op.pushes /\ k = op.key THEN 1 ELSE 0)
  BY <1>1, <1>2
<1>5. Changed(v, op) = [parses |-> TRUE, rows |-> [v.rows EXCEPT ![op.key] = op.to], pushed |-> p]
  BY DEF Changed, Value
<1> HIDE DEF p
<1> QED BY <1>3, <1>4, <1>5 DEF StoreValues

\* What is written over a file is one of the files.
LEMMA StoreWrittenFiles ==
    ASSUME NEW K, NEW v \in StoreValues(K), NEW old, NEW f \in StoreWritten(old, v)
    PROVE  f \in StoreFiles(K) /\ (f = v \/ f = Torn) /\ (old = Truncated => f = v)
BY DEF StoreWritten, StoreFiles

\* The shape of a handler.
LEMMA StoreBusy ==
    ASSUME StoresType, NEW c \in StoreClients
    PROVE  /\ c \in Busy <=> job[c] \in StoreJobs
           /\ c \in Busy <=> job[c] # IdleStore
           /\ c \in Busy => job[c].pc \in {"file", "open", "write", "rename"}
           /\ IdleStore.pc = "idle"
<1>1. IdleStore \notin StoreJobs /\ IdleStore.pc = "idle"
  BY DEF IdleStore, StoreJobs
<1>2. job[c] \in {IdleStore} \cup StoreJobs
  BY DEF StoresType
<1>3. job[c] \in StoreJobs => job[c].pc \in {"file", "open", "write", "rename"}
  BY DEF StoreJobs
<1> QED BY <1>1, <1>2, <1>3 DEF Busy

\* Assigning pc and at keeps the rest of a handler.
LEMMA StoreJobMoves ==
    ASSUME NEW r \in StoreJobs, NEW pc \in {"file", "open", "write", "rename"},
           NEW q, q = [r EXCEPT !.pc = pc]
    PROVE  q \in StoreJobs /\ q.pc = pc /\ q.at = r.at /\ q.op = r.op /\ q.value = r.value
BY DEF StoreJobs

LEMMA StoreJobOpens ==
    ASSUME NEW r \in StoreJobs, NEW q, q = [r EXCEPT !.pc = "write", !.at = "tmp"]
    PROVE  q \in StoreJobs /\ q.pc = "write" /\ q.at = "tmp" /\ q.op = r.op /\ q.value = r.value
BY DEF StoreJobs

LEMMA StoreJobFollows ==
    ASSUME NEW r \in StoreJobs, NEW at \in {"none", "tmp", "path", "gone"},
           NEW q, q = [r EXCEPT !.at = at]
    PROVE  q \in StoreJobs /\ q.pc = r.pc /\ q.at = at /\ q.op = r.op /\ q.value = r.value
BY DEF StoreJobs

\* Until handlers overlap, the file is what was told, and the one handler there may be has
\* the store it was told of with its own change, in the temporary file once it is written.
AloneInv ==
    ~raced =>
        /\ Read = told
        /\ \A c, d \in Busy : c = d
        /\ \A c \in Busy :
               /\ job[c].value = Changed(told, job[c].op)
               /\ job[c].pc \in {"write", "rename"} => job[c].at = "tmp"
               /\ job[c].pc = "write" => tmp = Truncated
               /\ job[c].pc = "rename" => tmp = job[c].value

\* However they overlap: no file and no handler has more certificates of a preview than
\* writes, counting the write a handler is about to make.
Within(v) == \A k \in Previews : v.pushed[k] <= writes[k]
BoundInv ==
    store = "previews" =>
        /\ path.parses => Within(path)
        /\ tmp.parses => Within(tmp)
        /\ \A c \in Busy :
               /\ job[c].pc # "file" => Within(job[c].value)
               /\ job[c].pc = "file" => 
                      /\ Applies(job[c].op)
                      /\ \A k \in Previews :
                             job[c].value.pushed[k] <= writes[k] + (IF k = job[c].op.key THEN 1 ELSE 0)

\* Without overlap and without an end half way, the counts agree, in the file or in the
\* handler that has written for the preview and not yet certified it.
Exactly(v) == \A k \in Previews : v.pushed[k] = writes[k]
ExactInv ==
    store = "previews" /\ ~raced /\ ~half =>
        /\ (\A c \in Busy : Applies(job[c].op) => job[c].pc = "file") => Exactly(Read)
        /\ \A c \in Busy : job[c].pc # "file" => Exactly(job[c].value)

StoresInv == StoresType /\ AloneInv /\ BoundInv /\ ExactInv

LEMMA StoresInitial == StoresInit => StoresInv
<1> SUFFICES ASSUME StoresInit PROVE StoresInv
  OBVIOUS
<1> USE DEF StoresInit
<1>1. EmptyStore \in StoreValues(Keys) /\ \A k \in Keys : EmptyStore.pushed[k] = 0
  BY DEF EmptyStore, Value, StoreValues, Statuses
<1>2. Absent \in StoreFiles(Keys) /\ Absent.parses = FALSE
  BY DEF StoreFiles, Absent
<1>3. StoresType
  BY <1>1, <1>2 DEF StoresType
<1>4. Busy = {} /\ Read = EmptyStore
  BY <1>2 DEF Busy, Read
<1>5. store = "previews" => Keys = Previews
  BY DEF Keys
<1> QED BY <1>1, <1>2, <1>3, <1>4, <1>5 DEF StoresInv, AloneInv, BoundInv, ExactInv, Exactly

\* What is read is within the writes too.
LEMMA StoreReadWithin ==
    ASSUME StoresInv, store = "previews"
    PROVE  Within(Read)
<1>1. StoresType /\ Keys = Previews /\ writes \in [Previews -> Nat]
  BY DEF StoresInv, Keys, StoresType
<1>2. CASE path.parses
  BY <1>2 DEF StoresInv, BoundInv, Read
<1>3. CASE ~path.parses
  <2>1. Read = EmptyStore /\ \A k \in Keys : EmptyStore.pushed[k] = 0
    BY <1>1, <1>3, StoreRead DEF Read
  <2> QED BY <1>1, <2>1 DEF Within
<1> QED BY <1>2, <1>3

\* A handler starts: it alone moves, and what it holds is what it read with its change.
LEMMA StoreBegins ==
    ASSUME StoresInv, NEW c \in StoreClients, NEW op \in Operations, BeginStore(c, op)
    PROVE  StoresInv'
<1> DEFINE v == Changed(Read, op)
           row == [pc |-> IF Applies(op) THEN "file" ELSE "open", op |-> op, value |-> v, at |-> "none"]
<1>1. StoresType /\ op \in StoreOps /\ job[c] = IdleStore
  BY DEF StoresInv, BeginStore, StoreOps
<1>2. /\ job' = [job EXCEPT ![c] = row] /\ raced' = (raced \/ Busy # {})
      /\ told' = IF raced' THEN EmptyStore ELSE told
      /\ UNCHANGED <<store, path, tmp, exists, writes, half>>
  BY DEF BeginStore
<1>3. Read' = Read /\ Keys' = Keys /\ StoreOps' = StoreOps
  BY <1>2, StoreReadSame DEF StoreOps
<1>4. Read \in StoreValues(Keys) /\ EmptyStore \in StoreValues(Keys)
  BY <1>1, StoreRead
<1>5. /\ v \in StoreValues(Keys)
      /\ \A k \in Keys : v.pushed[k] = Read.pushed[k] + (IF op.pushes /\ k = op.key THEN 1 ELSE 0)
  BY <1>1, <1>4, StoreChanged
<1> HIDE DEF v
<1>6. row \in StoreJobs /\ row.op = op /\ row.value = v /\ row.pc = IF Applies(op) THEN "file" ELSE "open"
  BY <1>1, <1>5 DEF StoreJobs
<1>7. c \notin Busy /\ IdleStore \notin StoreJobs
  BY <1>1 DEF Busy, IdleStore, StoreJobs
<1> HIDE DEF row
<1>8. Busy' = Busy \cup {c} /\ job'[c] = row /\ \A d \in Busy : job'[d] = job[d]
  BY <1>1, <1>2, <1>6, <1>7 DEF Busy, StoresType
<1>9. StoresType'
  <2>1. StoreJobs' = StoreJobs
    BY <1>3 DEF StoreJobs
  <2>2. job' \in [StoreClients -> {IdleStore} \cup StoreJobs]
    BY <1>1, <1>2, <1>6 DEF StoresType
  <2>3. raced' \in BOOLEAN /\ told' \in StoreValues(Keys)
    BY <1>1, <1>2, <1>4 DEF StoresType
  <2> QED BY <1>1, <1>2, <1>3, <2>1, <2>2, <2>3 DEF StoresType
<1>10. AloneInv'
  <2> SUFFICES ASSUME ~raced' PROVE AloneInv'
    BY DEF AloneInv
  <2>1. Busy = {} /\ ~raced /\ told' = told /\ Read = told
    BY <1>2 DEF StoresInv, AloneInv
  <2>2. v = Changed(told, op)
    BY <2>1 DEF v
  <2>3. job'[c].pc \notin {"write", "rename"} /\ job'[c].value = Changed(told', job'[c].op)
    BY <1>6, <1>8, <2>1, <2>2
  <2> QED BY <1>3, <1>8, <2>1, <2>3 DEF AloneInv
<1>11. store = "previews" => /\ Keys = Previews /\ (Applies(op) <=> op.pushes) /\ op.pushes \in BOOLEAN
                             /\ Within(Read) /\ writes \in [Previews -> Nat]
  <2>1. store = "previews" => Keys = Previews
    BY DEF Keys
  <2> QED BY <1>1, <2>1, StoreOpShape, StoreReadWithin DEF StoresType
<1>12. BoundInv'
  <2> SUFFICES ASSUME store = "previews" PROVE BoundInv'
    BY <1>2 DEF BoundInv
  <2>1. Within(path)' <=> Within(path)
    BY <1>2 DEF Within
  <2>2. \A d \in Busy : Within(job[d].value)' <=> Within(job[d].value)
    BY <1>2, <1>8 DEF Within
  <2>3. Within(tmp)' <=> Within(tmp)
    BY <1>2 DEF Within
  <2>4. ASSUME NEW k \in Previews
        PROVE  /\ v.pushed[k] <= writes[k] + (IF k = op.key THEN 1 ELSE 0)
               /\ ~Applies(op) => v.pushed[k] <= writes[k]
    <3>1. v.pushed[k] = Read.pushed[k] + (IF op.pushes /\ k = op.key THEN 1 ELSE 0)
      BY <1>5, <1>11
    <3>2. Read.pushed[k] \in Nat /\ writes[k] \in Nat /\ Read.pushed[k] <= writes[k]
      BY <1>4, <1>11 DEF StoreValues, Within
    <3> QED BY <1>11, <3>1, <3>2
  <2>5. \A d \in Busy' :
               /\ job'[d].pc # "file" => Within(job[d].value)'
               /\ job'[d].pc = "file" => 
                      /\ Applies(job'[d].op)
                      /\ \A k \in Previews :
                             job'[d].value.pushed[k] <= writes'[k] + (IF k = job'[d].op.key THEN 1 ELSE 0)
    <3> TAKE d \in Busy'
    <3>1. CASE d = c
      BY <1>2, <1>6, <1>8, <2>4, <3>1 DEF Within
    <3>2. CASE d # c
      BY <1>2, <1>8, <2>2, <3>2 DEF StoresInv, BoundInv
    <3> QED BY <3>1, <3>2
  <2> QED BY <1>2, <2>1, <2>3, <2>5 DEF StoresInv, BoundInv
<1>13. ExactInv'
  <2> SUFFICES ASSUME store = "previews", ~raced', ~half PROVE ExactInv'
    BY <1>2 DEF ExactInv
  <2>1. Busy = {} /\ ~raced
    BY <1>2
  <2>2. \A k \in Previews : Read.pushed[k] = writes[k]
    BY <2>1 DEF StoresInv, ExactInv, Exactly
  <2>3. ASSUME ~Applies(op), NEW k \in Previews PROVE v.pushed[k] = writes[k]
    BY <1>5, <1>11, <2>2, <2>3
  <2> QED BY <1>2, <1>3, <1>6, <1>8, <2>1, <2>2, <2>3 DEF ExactInv, Exactly
<1> QED BY <1>9, <1>10, <1>12, <1>13 DEF StoresInv

\* Handlers end and change no file; one that has written the workspace file leaves half a
\* change.
LEMMA StoresEnd ==
    ASSUME StoresInv, NEW E \in SUBSET Busy,
           job' = [d \in StoreClients |-> IF d \in E THEN IdleStore ELSE job[d]],
           UNCHANGED <<store, path, tmp, told, raced, writes>>,
           half' \in BOOLEAN, half => half',
           \A c \in E : Applies(job[c].op) /\ job[c].pc # "file" => half'
    PROVE  StoresInv'
<1>1. StoresType
  BY DEF StoresInv
<1>2. Read' = Read /\ Keys' = Keys /\ StoreJobs' = StoreJobs
  BY StoreReadSame DEF StoreJobs, StoreOps
<1>3. Busy' = Busy \ E /\ \A d \in Busy' : job'[d] = job[d]
  BY DEF Busy
<1>4. StoresType'
  BY <1>1, <1>2 DEF StoresType
<1>5. AloneInv'
  BY <1>2, <1>3 DEF StoresInv, AloneInv
<1>6. BoundInv'
  BY <1>3 DEF StoresInv, BoundInv, Within
<1>7. ExactInv'
  <2> SUFFICES ASSUME store = "previews", ~raced, ~half' PROVE ExactInv'
    BY DEF ExactInv
  <2>1. ASSUME \A c \in Busy' : Applies(job'[c].op) => job'[c].pc = "file" PROVE Exactly(Read)
    BY <1>3, <2>1 DEF StoresInv, ExactInv
  <2> QED BY <1>2, <1>3, <2>1 DEF StoresInv, ExactInv, Exactly
<1> QED BY <1>4, <1>5, <1>6, <1>7 DEF StoresInv

\* The workspace file is written: the preview's count goes up, and the handler that was
\* about to write it is no longer ahead of the count.
LEMMA WorkspaceWritten ==
    ASSUME StoresInv, NEW c \in StoreClients, WriteWorkspaceFile(c)
    PROVE  StoresInv'
<1> DEFINE j == job[c]
           k0 == job[c].op.key
<1>1. StoresType /\ c \in Busy /\ j \in StoreJobs /\ j.pc = "file"
  BY StoreBusy DEF WriteWorkspaceFile, StoresInv
<1>2. UNCHANGED <<store, path, tmp, told, raced, half>>
  BY DEF WriteWorkspaceFile
<1>3. CASE job' = [job EXCEPT ![c] = IdleStore] /\ UNCHANGED writes
  <2>1. job' = [d \in StoreClients |-> IF d \in {c} THEN IdleStore ELSE job[d]]
    BY <1>1, <1>3 DEF StoresType
  <2>2. half' \in BOOLEAN
    BY <1>1, <1>2 DEF StoresType
  <2> QED BY <1>1, <1>2, <1>3, <2>1, <2>2, StoresEnd
<1>4. CASE writes' = [writes EXCEPT ![k0] = @ + 1] /\ job' = [job EXCEPT ![c].pc = "open"]
  <2>1. j.op \in StoreOps /\ j.value \in StoreValues(Keys) /\ j.at \in {"none", "tmp", "path", "gone"}
    BY <1>1 DEF StoreJobs
  <2>2. Read' = Read /\ Keys' = Keys /\ StoreJobs' = StoreJobs
    BY <1>2, StoreReadSame DEF StoreJobs, StoreOps
  <2>3. job'[c] = [j EXCEPT !.pc = "open"]
    BY <1>1, <1>4 DEF StoresType
  <2>4. job'[c] \in StoreJobs /\ job'[c].pc = "open" /\ job'[c].op = j.op /\ job'[c].value = j.value
    BY <1>1, <2>1, <2>3, StoreJobMoves
  <2>5. \A d \in Busy \ {c} : job'[d] = job[d]
    BY <1>4 DEF Busy
  <2>6. Busy' = Busy
    <3>1. IdleStore \notin StoreJobs
      BY DEF IdleStore, StoreJobs
    <3> QED BY <1>1, <1>4, <2>4, <3>1 DEF Busy, StoresType
  <2>7. writes' \in [Previews -> Nat] /\ \A k \in Previews : writes[k] <= writes'[k] /\ writes[k] \in Nat /\ writes'[k] \in Nat
    <3>1. writes \in [Previews -> Nat]
      BY <1>1 DEF StoresType
    <3>2. CASE k0 \in Previews
      BY <1>4, <3>1, <3>2
    <3>3. CASE k0 \notin Previews
      <4>1. writes' = writes
        BY <1>4, <3>1, <3>3
      <4> QED BY <3>1, <4>1
    <3> QED BY <3>2, <3>3
  <2>8. StoresType'
    <3>1. job' \in [StoreClients -> {IdleStore} \cup StoreJobs]
      BY <1>1, <1>4, <2>4 DEF StoresType
    <3> QED BY <1>1, <1>2, <2>2, <2>7, <3>1 DEF StoresType
  <2>9. AloneInv'
    BY <1>1, <1>2, <2>2, <2>4, <2>5, <2>6 DEF StoresInv, AloneInv
  <2>10. store = "previews" => Keys = Previews /\ k0 \in Previews /\ Applies(j.op) /\ j.op.pushes
    <3>1. store = "previews" => Keys = Previews
      BY DEF Keys
    <3>2. store = "previews" => Applies(j.op)
      BY <1>1 DEF StoresInv, BoundInv
    <3> QED BY <2>1, <3>1, <3>2, StoreOpShape
  <2>11. store = "previews" => \A k \in Previews : writes'[k] = writes[k] + (IF k = k0 THEN 1 ELSE 0)
    BY <1>1, <1>4, <2>7, <2>10 DEF StoresType
  <2>12. BoundInv'
    <3> SUFFICES ASSUME store = "previews" PROVE BoundInv'
      BY <1>2 DEF BoundInv
    <3>1. ASSUME NEW f \in StoreValues(Keys), Within(f)
          PROVE  \A k \in Previews : f.pushed[k] <= writes'[k]
      <4>1. \A k \in Previews : f.pushed[k] \in Nat /\ f.pushed[k] <= writes[k]
        BY <2>10, <3>1 DEF StoreValues, Within
      <4> QED BY <2>7, <4>1
    <3>2. path.parses => path \in StoreValues(Keys) /\ Within(path)
      BY <1>1, StoreFileKinds DEF StoresType, StoresInv, BoundInv
    <3>3. tmp.parses => tmp \in StoreValues(Keys) /\ Within(tmp)
      BY <1>1, StoreFileKinds DEF StoresType, StoresInv, BoundInv
    <3>4. Within(job[c].value)'
      <4>1. \A k \in Previews : j.value.pushed[k] <= writes[k] + (IF k = k0 THEN 1 ELSE 0)
        BY <1>1 DEF StoresInv, BoundInv
      <4> QED BY <2>4, <2>11, <4>1 DEF Within
    <3>5. ASSUME NEW d \in Busy \ {c}
          PROVE  /\ job[d].pc # "file" => Within(job[d].value)'
                 /\ job[d].pc = "file" =>
                        /\ Applies(job[d].op)
                        /\ \A k \in Previews :
                               job[d].value.pushed[k] <= writes'[k] + (IF k = job[d].op.key THEN 1 ELSE 0)
      <4>1. job[d] \in StoreJobs /\ d \in StoreClients
        BY <1>1, StoreBusy DEF Busy
      <4>2. job[d].value \in StoreValues(Keys)
        BY <4>1 DEF StoreJobs
      <4>3. job[d].pc # "file" => Within(job[d].value)'
        BY <2>5, <3>1, <4>2 DEF StoresInv, BoundInv, Within
      <4>4. \A k \in Previews : job[d].value.pushed[k] \in Nat
        BY <2>10, <4>2 DEF StoreValues
      <4>5. job[d].pc = "file" =>
                        /\ Applies(job[d].op)
                        /\ \A k \in Previews :
                               job[d].value.pushed[k] <= writes[k] + (IF k = job[d].op.key THEN 1 ELSE 0)
        BY DEF StoresInv, BoundInv
      <4> QED BY <2>7, <4>3, <4>4, <4>5
    <3>6. path.parses => Within(path)'
      BY <1>2, <3>1, <3>2 DEF Within
    <3>7. tmp.parses => Within(tmp)'
      BY <1>2, <3>1, <3>3 DEF Within
    <3>8. \A d \in Busy : d = c \/ job'[d] = job[d]
      BY <2>5
    <3> QED BY <1>2, <2>4, <2>6, <3>4, <3>5, <3>6, <3>7, <3>8 DEF BoundInv
  <2>13. ExactInv'
    <3> SUFFICES ASSUME store = "previews", ~raced, ~half PROVE ExactInv'
      BY <1>2 DEF ExactInv
    <3>1. Busy = {c} /\ Read = told /\ j.value = Changed(told, j.op)
      BY <1>1 DEF StoresInv, AloneInv
    <3>2. Exactly(Read)
      BY <1>1, <3>1 DEF StoresInv, ExactInv
    <3>3. \A k \in Previews : j.value.pushed[k] = Read.pushed[k] + (IF j.op.pushes /\ k = k0 THEN 1 ELSE 0)
      BY <1>1, <2>1, <2>10, <3>1, StoreChanged, StoreRead
    <3>4. \A k \in Previews : j.value.pushed[k] = writes'[k]
      BY <2>10, <2>11, <3>2, <3>3 DEF Exactly
    <3>5. ~(\A d \in Busy' : Applies(job'[d].op) => job'[d].pc = "file")
      BY <1>1, <2>4, <2>6, <2>10
    <3> QED BY <2>4, <2>6, <3>1, <3>4, <3>5 DEF ExactInv, Exactly
  <2> QED BY <2>8, <2>9, <2>12, <2>13 DEF StoresInv
<1> QED BY <1>3, <1>4 DEF WriteWorkspaceFile

\* The temporary file is opened.
LEMMA StoreOpened ==
    ASSUME StoresInv, NEW c \in StoreClients, OpenStore(c)
    PROVE  StoresInv'
<1> DEFINE j == job[c]
<1>1. StoresType /\ c \in Busy /\ j \in StoreJobs /\ j.pc = "open"
  BY StoreBusy DEF OpenStore, StoresInv
<1>2. /\ tmp' = Truncated /\ job' = [job EXCEPT ![c].pc = "write", ![c].at = "tmp"]
      /\ UNCHANGED <<store, path, told, raced, writes, half>>
  BY DEF OpenStore
<1>3. Read' = Read /\ Keys' = Keys /\ StoreJobs' = StoreJobs
  BY <1>2, StoreReadSame DEF StoreJobs, StoreOps
<1>4. job'[c] = [j EXCEPT !.pc = "write", !.at = "tmp"]
  BY <1>1, <1>2 DEF StoresType
<1>5. job'[c] \in StoreJobs /\ job'[c].pc = "write" /\ job'[c].at = "tmp" /\ job'[c].op = j.op /\ job'[c].value = j.value
  BY <1>1, <1>4, StoreJobOpens
<1>6. \A d \in Busy \ {c} : job'[d] = job[d]
  BY <1>1, <1>2 DEF Busy, StoresType
<1>7. Busy' = Busy
  <2>1. IdleStore \notin StoreJobs
    BY DEF IdleStore, StoreJobs
  <2> QED BY <1>1, <1>2, <1>5, <2>1 DEF Busy, StoresType
<1>8. Truncated \in StoreFiles(Keys) /\ ~Truncated.parses
  <2>1. Truncated \in StoreFiles(Keys)
    BY DEF StoreFiles
  <2> QED BY <2>1, StoreFileKinds
<1>9. StoresType'
  <2>1. job' \in [StoreClients -> {IdleStore} \cup StoreJobs]
    BY <1>1, <1>2, <1>5 DEF StoresType
  <2> QED BY <1>1, <1>2, <1>3, <1>8, <2>1 DEF StoresType
<1>10. AloneInv'
  <2> SUFFICES ASSUME ~raced PROVE AloneInv'
    BY <1>2 DEF AloneInv
  <2>1. Busy = {c} /\ Read = told /\ j.value = Changed(told, j.op)
    BY <1>1 DEF StoresInv, AloneInv
  <2> QED BY <1>2, <1>3, <1>5, <1>7, <2>1 DEF AloneInv
<1>11. BoundInv'
  <2> SUFFICES ASSUME store = "previews" PROVE BoundInv'
    BY <1>2 DEF BoundInv
  <2>1. \A d \in Busy : job'[d].op = job[d].op /\ job'[d].value = job[d].value /\ (job'[d].pc = "file" <=> job[d].pc = "file")
    BY <1>1, <1>5, <1>6
  <2>2. path'.parses => Within(path)'
    BY <1>2 DEF StoresInv, BoundInv, Within
  <2>3. /\ \A d \in Busy : job[d].pc # "file" => Within(job[d].value)
        /\ \A d \in Busy : job[d].pc = "file" =>
               /\ Applies(job[d].op)
               /\ \A k \in Previews :
                      job[d].value.pushed[k] <= writes[k] + (IF k = job[d].op.key THEN 1 ELSE 0)
    BY DEF StoresInv, BoundInv
  <2>4. ~tmp'.parses /\ writes' = writes /\ Busy' = Busy
    BY <1>2, <1>7, <1>8
  <2>5. path'.parses => Within(path)'
    BY <2>2, <2>4 DEF Within
  <2>6. ASSUME NEW d \in Busy, job'[d].pc # "file" PROVE Within(job[d].value)'
    <3>1. Within(job[d].value) /\ job'[d].value = job[d].value
      BY <2>1, <2>3, <2>6
    <3> QED BY <2>4, <3>1 DEF Within
  <2>7. ASSUME NEW d \in Busy, job'[d].pc = "file"
        PROVE  /\ Applies(job'[d].op)
               /\ \A k \in Previews :
                      job'[d].value.pushed[k] <= writes'[k] + (IF k = job'[d].op.key THEN 1 ELSE 0)
    <3>1. job[d].pc = "file" /\ job'[d].value = job[d].value /\ job'[d].op = job[d].op
      BY <2>1, <2>7
    <3>2. /\ Applies(job[d].op)
          /\ \A k \in Previews :
                 job[d].value.pushed[k] <= writes[k] + (IF k = job[d].op.key THEN 1 ELSE 0)
      BY <2>3, <3>1
    <3> QED BY <2>4, <3>1, <3>2
  <2> QED BY <2>4, <2>5, <2>6, <2>7 DEF BoundInv
<1>12. ExactInv'
  <2>1. \A d \in Busy : job'[d].op = job[d].op /\ job'[d].value = job[d].value /\ (job'[d].pc = "file" <=> job[d].pc = "file")
    BY <1>1, <1>5, <1>6
  <2> SUFFICES ASSUME store = "previews", ~raced, ~half PROVE ExactInv'
    BY <1>2 DEF ExactInv
  <2>2. /\ (\A d \in Busy : Applies(job[d].op) => job[d].pc = "file") => Exactly(Read)
        /\ \A d \in Busy : job[d].pc # "file" => Exactly(job[d].value)
    BY DEF StoresInv, ExactInv
  <2>3. /\ (\A d \in Busy : Applies(job'[d].op) => job'[d].pc = "file") => Exactly(Read)
        /\ \A d \in Busy : job'[d].pc # "file" => Exactly(job'[d].value)
    BY <2>1, <2>2
  <2> QED BY <1>2, <1>3, <1>7, <2>3 DEF ExactInv, Exactly
<1> QED BY <1>9, <1>10, <1>11, <1>12 DEF StoresInv

\* The handle is written, to a file that is where the renames of others have left it.
LEMMA StoreFilled ==
    ASSUME StoresInv, NEW c \in StoreClients, WriteStore(c)
    PROVE  StoresInv'
<1> DEFINE j == job[c]
<1>1. StoresType /\ c \in Busy /\ j \in StoreJobs /\ j.pc = "write"
  BY StoreBusy DEF WriteStore, StoresInv
<1>2. /\ \/ j.at = "tmp" /\ tmp' \in StoreWritten(tmp, j.value) /\ UNCHANGED path
         \/ j.at = "path" /\ path' \in StoreWritten(path, j.value) /\ UNCHANGED tmp
         \/ j.at = "gone" /\ UNCHANGED <<path, tmp>>
      /\ job' = [job EXCEPT ![c].pc = "rename"]
      /\ UNCHANGED <<store, told, raced, writes, half>>
  BY DEF WriteStore
<1>3. Keys' = Keys /\ StoreJobs' = StoreJobs /\ EmptyStore' = EmptyStore
  BY <1>2 DEF StoreJobs, StoreOps, Keys, EmptyStore, Value
<1>4. job'[c] = [j EXCEPT !.pc = "rename"]
  BY <1>1, <1>2 DEF StoresType
<1>5. job'[c] \in StoreJobs /\ job'[c].pc = "rename" /\ job'[c].at = j.at /\ job'[c].op = j.op /\ job'[c].value = j.value
  BY <1>1, <1>4, StoreJobMoves
<1>6. \A d \in Busy \ {c} : job'[d] = job[d]
  BY <1>1, <1>2 DEF Busy, StoresType
<1>7. Busy' = Busy
  <2>1. IdleStore \notin StoreJobs
    BY DEF IdleStore, StoreJobs
  <2> QED BY <1>1, <1>2, <1>5, <2>1 DEF Busy, StoresType
<1>8. /\ tmp' = tmp \/ (j.at = "tmp" /\ (tmp' = j.value \/ tmp' = Torn) /\ (tmp = Truncated => tmp' = j.value))
      /\ path' = path \/ (j.at = "path" /\ (path' = j.value \/ path' = Torn))
      /\ j.at = "tmp" => tmp' \in StoreWritten(tmp, j.value)
  <2>1. j.value \in StoreValues(Keys)
    BY <1>1 DEF StoreJobs
  <2> QED BY <1>2, <2>1, StoreWrittenFiles
<1>9. StoresType'
  <2>1. job' \in [StoreClients -> {IdleStore} \cup StoreJobs]
    BY <1>1, <1>2, <1>5 DEF StoresType
  <2>2. j.value \in StoreFiles(Keys) /\ Torn \in StoreFiles(Keys)
    BY <1>1 DEF StoreJobs, StoreFiles
  <2>3. path' \in StoreFiles(Keys) /\ tmp' \in StoreFiles(Keys)
    BY <1>1, <1>8, <2>2 DEF StoresType
  <2> QED BY <1>1, <1>2, <1>3, <2>1, <2>3 DEF StoresType
<1>10. ~raced => /\ j.at = "tmp" /\ tmp = Truncated /\ Busy = {c}
                 /\ tmp' = j.value /\ path' = path /\ Read' = Read
  <2> SUFFICES ASSUME ~raced PROVE /\ j.at = "tmp" /\ tmp = Truncated /\ Busy = {c}
                                   /\ tmp' = j.value /\ path' = path /\ Read' = Read
    OBVIOUS
  <2>1. j.at = "tmp" /\ tmp = Truncated /\ Busy = {c}
    BY <1>1 DEF StoresInv, AloneInv
  <2>2. tmp' = j.value
    <3>1. j.value \in StoreValues(Keys)
      BY <1>1 DEF StoreJobs
    <3> QED BY <1>8, <2>1, <3>1, StoreWrittenFiles
  <2>3. path' = path
    BY <1>8, <2>1
  <2> QED BY <1>2, <2>1, <2>2, <2>3, StoreReadSame
<1>11. AloneInv'
  BY <1>1, <1>2, <1>5, <1>7, <1>10 DEF StoresInv, AloneInv
<1>12. BoundInv'
  <2> SUFFICES ASSUME store = "previews" PROVE BoundInv'
    BY <1>2 DEF BoundInv
  <2>1. Within(j.value)
    BY <1>1 DEF StoresInv, BoundInv
  <2>2. ~Torn.parses
    BY <1>1, StoreFileKinds DEF StoresType
  <2>3. \A v : (\A k \in Previews : v.pushed[k] <= writes'[k]) <=> Within(v)
    BY <1>2 DEF Within
  <2>4. path'.parses => Within(path)'
    BY <1>8, <2>1, <2>2, <2>3 DEF StoresInv, BoundInv, Within
  <2>5. tmp'.parses => Within(tmp)'
    BY <1>8, <2>1, <2>2, <2>3 DEF StoresInv, BoundInv, Within
  <2>6. \A d \in Busy : job'[d].op = job[d].op /\ job'[d].value = job[d].value /\ (job'[d].pc = "file" <=> job[d].pc = "file")
    BY <1>1, <1>5, <1>6
  <2> QED BY <1>2, <1>7, <2>4, <2>5, <2>6 DEF StoresInv, BoundInv, Within
<1>13. ExactInv'
  <2>1. \A d \in Busy : job'[d].op = job[d].op /\ job'[d].value = job[d].value /\ (job'[d].pc = "file" <=> job[d].pc = "file")
    BY <1>1, <1>5, <1>6
  <2> QED BY <1>2, <1>7, <1>10, <2>1 DEF StoresInv, ExactInv, Exactly
<1> QED BY <1>9, <1>11, <1>12, <1>13 DEF StoresInv

\* The rename puts a file that is within the writes in place; without overlap it is the
\* handler's own.
LEMMA StoreRenamed ==
    ASSUME StoresInv, NEW c \in StoreClients, RenameStore(c)
    PROVE  StoresInv'
<1> DEFINE j == job[c]
<1>1. StoresType /\ c \in Busy /\ j \in StoreJobs /\ j.pc = "rename"
  BY StoreBusy DEF RenameStore, StoresInv
<1>2. UNCHANGED <<store, raced, writes>>
  BY DEF RenameStore
<1>3. CASE /\ job' = [job EXCEPT ![c] = IdleStore]
           /\ half' = (half \/ Applies(job[c].op))
           /\ UNCHANGED <<path, tmp, told>>
  <2>1. job' = [d \in StoreClients |-> IF d \in {c} THEN IdleStore ELSE job[d]]
    BY <1>1, <1>3 DEF StoresType
  <2> QED BY <1>1, <1>2, <1>3, <2>1, StoresEnd
<1>4. CASE /\ path' = tmp /\ tmp' = Absent
           /\ job' = [d \in StoreClients |-> IF d = c THEN IdleStore ELSE Moved(d)]
           /\ told' = IF raced THEN told ELSE Changed(told, job[c].op)
           /\ UNCHANGED half
  <2>1. Keys' = Keys /\ StoreJobs' = StoreJobs /\ EmptyStore' = EmptyStore
    BY <1>2 DEF StoreJobs, StoreOps, Keys, EmptyStore, Value
  <2>2. ASSUME NEW d \in Busy \ {c}
        PROVE  /\ job'[d] \in StoreJobs
               /\ job'[d].pc = job[d].pc /\ job'[d].op = job[d].op /\ job'[d].value = job[d].value
    <3>1. d \in StoreClients /\ job[d] \in StoreJobs /\ job'[d] = Moved(d)
      BY <1>1, <1>4, StoreBusy DEF Busy
    <3>2. CASE job[d].at = "tmp"
      <4>1. job'[d] = [job[d] EXCEPT !.at = "path"]
        BY <3>1, <3>2 DEF Moved
      <4> QED BY <3>1, <4>1, StoreJobFollows
    <3>3. CASE job[d].at = "path"
      <4>1. job'[d] = [job[d] EXCEPT !.at = "gone"]
        BY <3>1, <3>3 DEF Moved
      <4> QED BY <3>1, <4>1, StoreJobFollows
    <3>4. CASE job[d].at \notin {"tmp", "path"}
      BY <3>1, <3>4 DEF Moved
    <3> QED BY <3>2, <3>3, <3>4
  <2>3. \A d \in StoreClients \ Busy : job'[d] = IdleStore
    BY <1>1, <1>4 DEF Busy, Moved
  <2>4. Busy' = Busy \ {c}
    <3>1. IdleStore \notin StoreJobs
      BY DEF IdleStore, StoreJobs
    <3>2. job'[c] = IdleStore
      BY <1>4
    <3> QED BY <2>2, <2>3, <3>1, <3>2 DEF Busy
  <2>5. StoresType'
    <3>1. \A d \in StoreClients : job'[d] \in {IdleStore} \cup StoreJobs
      BY <1>4, <2>2, <2>3
    <3>2. job' \in [StoreClients -> {IdleStore} \cup StoreJobs]
      BY <1>4, <3>1
    <3>3. told' \in StoreValues(Keys)
      <4>1. j.op \in StoreOps /\ told \in StoreValues(Keys)
        BY <1>1 DEF StoresType, StoreJobs
      <4> QED BY <1>4, <4>1, StoreChanged
    <3>4. Absent \in StoreFiles(Keys)
      BY DEF StoreFiles
    <3> QED BY <1>1, <1>2, <1>4, <2>1, <3>2, <3>3, <3>4 DEF StoresType
  <2>6. ~raced => tmp = j.value /\ Busy' = {} /\ j.value = Changed(told, j.op) /\ Read' = j.value
    <3> SUFFICES ASSUME ~raced PROVE tmp = j.value /\ Busy' = {} /\ j.value = Changed(told, j.op) /\ Read' = j.value
      OBVIOUS
    <3>1. tmp = j.value /\ Busy = {c} /\ j.value = Changed(told, j.op)
      BY <1>1 DEF StoresInv, AloneInv
    <3>2. j.value.parses = TRUE
      BY <1>1 DEF StoreJobs, StoreValues
    <3> QED BY <1>4, <2>4, <3>1, <3>2 DEF Read
  <2>7. AloneInv'
    BY <1>2, <1>4, <2>6 DEF AloneInv
  <2>8. BoundInv'
    <3> SUFFICES ASSUME store = "previews" PROVE BoundInv'
      BY <1>2 DEF BoundInv
    <3>1. ~Absent.parses
      BY <1>1, StoreFileKinds DEF StoresType
    <3>2. path'.parses => Within(path)'
      BY <1>2, <1>4 DEF StoresInv, BoundInv, Within
    <3> QED BY <1>2, <1>4, <2>2, <2>4, <3>1, <3>2 DEF StoresInv, BoundInv, Within
  <2>9. ExactInv'
    <3> SUFFICES ASSUME store = "previews", ~raced, ~half PROVE ExactInv'
      BY <1>2, <1>4 DEF ExactInv
    <3>1. Exactly(j.value)
      BY <1>1 DEF StoresInv, ExactInv
    <3> QED BY <1>2, <2>6, <3>1 DEF ExactInv, Exactly
  <2> QED BY <2>5, <2>7, <2>8, <2>9 DEF StoresInv
<1> QED BY <1>3, <1>4 DEF RenameStore

LEMMA StoresStep == ASSUME StoresInv, [StoresNext]_storesVars PROVE StoresInv'
<1>1. ASSUME NEW c \in StoreClients, StoreError(c) PROVE StoresInv'
  <2>1. StoresType /\ c \in Busy
    BY <1>1, StoreBusy DEF StoreError, StoresInv
  <2>2. job' = [d \in StoreClients |-> IF d \in {c} THEN IdleStore ELSE job[d]]
    BY <1>1, <2>1 DEF StoresType, StoreError
  <2>3. UNCHANGED <<store, path, tmp, told, raced, writes>> /\ half' = (half \/ Applies(job[c].op))
    BY <1>1 DEF StoreError
  <2>4. half' \in BOOLEAN
    BY <2>3
  <2>5. {c} \in SUBSET Busy /\ (half => half')
        /\ \A d \in {c} : Applies(job[d].op) /\ job[d].pc # "file" => half'
    BY <2>1, <2>3
  <2> QED BY <2>2, <2>3, <2>4, <2>5, StoresEnd
<1>2. CASE Restart
  <2>1. job' = [d \in StoreClients |-> IF d \in Busy THEN IdleStore ELSE job[d]]
    BY <1>2 DEF Restart, Busy
  <2>2. /\ UNCHANGED <<store, path, tmp, told, raced, writes>>
        /\ half' = (half \/ \E c \in Busy : Applies(job[c].op) /\ job[c].pc # "file")
    BY <1>2 DEF Restart
  <2>3. half' \in BOOLEAN
    BY <2>2
  <2> QED BY <2>1, <2>2, <2>3, StoresEnd
<1>3. CASE UNCHANGED storesVars
  <2>1. Read' = Read /\ Keys' = Keys /\ StoreJobs' = StoreJobs /\ Busy' = Busy
    BY <1>3, StoreReadSame DEF storesVars, StoreJobs, StoreOps, Busy
  <2> QED BY <1>3, <2>1 DEF storesVars, StoresInv, StoresType, AloneInv, BoundInv, ExactInv, Within, Exactly
<1> QED BY <1>1, <1>2, <1>3, StoreBegins, WorkspaceWritten, StoreOpened, StoreFilled, StoreRenamed DEF StoresNext

\* The stores of the mesh, for any entries, requests and bounds: while no two handlers
\* overlap, the file is exactly what acknowledged requests were told, across errors and
\* restarts at any file system call.
THEOREM StoreStaysAsTold == StoresSpec => []StoreAsTold
<1>1. StoresInv => StoreAsTold
  BY DEF StoresInv, AloneInv, StoreAsTold
<1> QED BY <1>1, StoresInitial, StoresStep, PTL DEF StoresSpec

\* However handlers overlap, fail and restart, a certificate of an applied preview stands for
\* a write of the workspace file; and the counts agree unless handlers overlapped or one
\* ended half way.
THEOREM CertificatesStayTrue == StoresSpec => []CertificatesTrue
<1>1. StoresInv => CertificatesTrue
  <2> SUFFICES ASSUME StoresInv, store = "previews", NEW k \in Previews
               PROVE  /\ Read.pushed[k] <= writes[k]
                      /\ ~raced /\ ~half /\ Busy = {} => Read.pushed[k] = writes[k]
    BY DEF CertificatesTrue
  <2> QED BY StoreReadWithin DEF StoresInv, ExactInv, Exactly, Within
<1> QED BY <1>1, StoresInitial, StoresStep, PTL DEF StoresSpec

-----------------------------------------------------------------------------
(* Mcp: owners of processes.                                               *)

Transports == {"stdio", "http", "invalid"}
Entries == [state : {"connecting", "connected", "failed"}, tools : SUBSET McpTools, process : Nat]

CallRows ==
    [at : {"idle"}, server : {"none"}, alone : BOOLEAN]
    \cup [at : {"write", "remove"}, server : Servers, alone : BOOLEAN, config : McpConfigs]
    \cup [at : {"insert", "spawn"}, server : Servers, alone : BOOLEAN, transport : Transports]
    \cup [at : {"handshake"}, server : Servers, alone : BOOLEAN, process : Nat \ {0}]

McpType ==
    /\ DOMAIN configs \subseteq Servers /\ \A s \in DOMAIN configs : configs[s] \in McpConfigs
    /\ DOMAIN runtime \subseteq Servers /\ \A s \in DOMAIN runtime : runtime[s] \in Entries
    /\ mcpCalls \in [McpCallers -> CallRows]
    /\ started \in Nat /\ alive \subseteq 1 .. started /\ down \subseteq Servers

Shakes(c) == mcpCalls[c].at = "handshake"

\* Entries and connects in progress hold different processes, whether these still run or not;
\* a process that runs is held; and no process of the future is.
OwnInv ==
    /\ \A s, t \in DOMAIN runtime :
           runtime[s].process = runtime[t].process /\ runtime[s].process # 0 => s = t
    /\ \A c, d \in McpCallers :
           Shakes(c) /\ Shakes(d) /\ mcpCalls[c].process = mcpCalls[d].process => c = d
    /\ \A s \in DOMAIN runtime, c \in McpCallers : Shakes(c) => runtime[s].process # mcpCalls[c].process
    /\ \A p \in alive : \/ \E s \in DOMAIN runtime : runtime[s].process = p
                        \/ \E c \in McpCallers : Shakes(c) /\ mcpCalls[c].process = p
    /\ \A s \in DOMAIN runtime :
           /\ runtime[s].process <= started
           /\ runtime[s].state = "connected" <=> runtime[s].process # 0
    /\ \A c \in McpCallers : Shakes(c) => mcpCalls[c].process <= started

\* A request that is alone is the only one at its server; the config it has disabled then
\* stays disabled, and no connect is under way at a server that is down.
DownInv ==
    /\ \A c, d \in McpCallers :
           c # d /\ mcpCalls[c].at # "idle" /\ mcpCalls[d].at # "idle" /\ mcpCalls[c].alone =>
               mcpCalls[c].server # mcpCalls[d].server
    /\ \A c \in McpCallers : mcpCalls[c].at = "remove" /\ mcpCalls[c].alone =>
           mcpCalls[c].server \in DOMAIN configs /\ ~configs[mcpCalls[c].server].enabled
    /\ \A s \in down :
           /\ s \notin DOMAIN runtime
           /\ s \in DOMAIN configs /\ ~configs[s].enabled
           /\ \A c \in McpCallers : mcpCalls[c].at \in {"insert", "spawn", "handshake"} => mcpCalls[c].server # s

McpInv == McpType /\ OwnInv /\ DownInv

LEMMA McpInitial == McpInit => McpInv
<1> SUFFICES ASSUME McpInit PROVE McpInv
  OBVIOUS
<1>1. IdleCall \in CallRows /\ IdleCall.at = "idle"
  BY DEF IdleCall, CallRows
<1>2. McpType
  BY <1>1 DEF McpInit, McpType
<1>3. OwnInv
  BY <1>1 DEF McpInit, OwnInv, Shakes
<1>4. DownInv
  BY <1>1 DEF McpInit, DownInv
<1> QED BY <1>2, <1>3, <1>4 DEF McpInv

\* The shapes of a request.
LEMMA McpCallShape ==
    ASSUME NEW r \in CallRows
    PROVE  /\ r.at \in {"idle", "write", "remove", "insert", "spawn", "handshake"} /\ r.alone \in BOOLEAN
           /\ r.at # "idle" => r.server \in Servers
           /\ r.at \in {"write", "remove"} => r \in [at : {"write", "remove"}, server : Servers, alone : BOOLEAN, config : McpConfigs]
           /\ r.at \in {"insert", "spawn"} => r \in [at : {"insert", "spawn"}, server : Servers, alone : BOOLEAN, transport : Transports]
           /\ r.at = "handshake" => r \in [at : {"handshake"}, server : Servers, alone : BOOLEAN, process : Nat \ {0}]
<1>1. CASE r \in [at : {"idle"}, server : {"none"}, alone : BOOLEAN]
  BY <1>1
<1>2. CASE r \in [at : {"write", "remove"}, server : Servers, alone : BOOLEAN, config : McpConfigs]
  BY <1>2
<1>3. CASE r \in [at : {"insert", "spawn"}, server : Servers, alone : BOOLEAN, transport : Transports]
  BY <1>3
<1>4. CASE r \in [at : {"handshake"}, server : Servers, alone : BOOLEAN, process : Nat \ {0}]
  BY <1>4
<1> QED BY <1>1, <1>2, <1>3, <1>4 DEF CallRows

LEMMA McpIdleCall == IdleCall \in CallRows /\ IdleCall.at = "idle"
BY DEF IdleCall, CallRows

\* A request that is no longer alone is otherwise the same.
LEMMA McpCrowded ==
    ASSUME NEW r \in CallRows, NEW b \in BOOLEAN, NEW q, q = [r EXCEPT !.alone = b]
    PROVE  /\ q \in CallRows /\ q.at = r.at /\ q.server = r.server /\ q.alone = b
           /\ r.at \in {"write", "remove"} => q.config = r.config
           /\ r.at = "handshake" => q.process = r.process
<1>1. CASE r \in [at : {"idle"}, server : {"none"}, alone : BOOLEAN]
  BY <1>1 DEF CallRows
<1>2. CASE r \in [at : {"write", "remove"}, server : Servers, alone : BOOLEAN, config : McpConfigs]
  BY <1>2 DEF CallRows
<1>3. CASE r \in [at : {"insert", "spawn"}, server : Servers, alone : BOOLEAN, transport : Transports]
  BY <1>3 DEF CallRows
<1>4. CASE r \in [at : {"handshake"}, server : Servers, alone : BOOLEAN, process : Nat \ {0}]
  BY <1>4 DEF CallRows
<1> QED BY <1>1, <1>2, <1>3, <1>4 DEF CallRows

LEMMA McpCrowd ==
    ASSUME McpType, NEW s, NEW d \in McpCallers
    PROVE  /\ Crowd(s) \in [McpCallers -> CallRows]
           /\ Crowd(s)[d].at = mcpCalls[d].at /\ Crowd(s)[d].server = mcpCalls[d].server
           /\ (Crowd(s)[d].alone => mcpCalls[d].alone /\ mcpCalls[d].server # s)
           /\ mcpCalls[d].at = "handshake" => Crowd(s)[d].process = mcpCalls[d].process
<1>1. ASSUME NEW e \in McpCallers
      PROVE  /\ Crowd(s)[e] \in CallRows
             /\ Crowd(s)[e].at = mcpCalls[e].at /\ Crowd(s)[e].server = mcpCalls[e].server
             /\ (Crowd(s)[e].alone => mcpCalls[e].alone /\ mcpCalls[e].server # s)
             /\ mcpCalls[e].at = "handshake" => Crowd(s)[e].process = mcpCalls[e].process
  <2>1. mcpCalls[e] \in CallRows
    BY DEF McpType
  <2>2. PICK b \in BOOLEAN : b = (mcpCalls[e].alone /\ mcpCalls[e].server # s)
    OBVIOUS
  <2>3. Crowd(s)[e] = [mcpCalls[e] EXCEPT !.alone = b]
    BY <2>2 DEF Crowd
  <2>4. PICK r, q : r = mcpCalls[e] /\ q = Crowd(s)[e] /\ r \in CallRows /\ q = [r EXCEPT !.alone = b]
    BY <2>1, <2>3
  <2>5. /\ q \in CallRows /\ q.at = r.at /\ q.server = r.server /\ q.alone = b
        /\ r.at = "handshake" => q.process = r.process
    BY <2>4, McpCrowded
  <2> QED BY <2>2, <2>4, <2>5
<1>2. Crowd(s) \in [McpCallers -> CallRows]
  <2>1. Crowd(s) = [c \in McpCallers |-> Crowd(s)[c]]
    BY DEF Crowd
  <2> QED BY <1>1, <2>1
<1> QED BY <1>1, <1>2

\* Steps that take processes from entries and requests, and give none.
LEMMA OwnKept ==
    ASSUME McpType, OwnInv, started' = started, alive' \subseteq alive,
           \A t \in DOMAIN runtime' :
               \/ runtime'[t].process = 0 /\ runtime'[t].state # "connected"
               \/ t \in DOMAIN runtime /\ runtime'[t] = runtime[t],
           \A c \in McpCallers : Shakes(c)' => Shakes(c) /\ mcpCalls'[c].process = mcpCalls[c].process,
           \A s \in DOMAIN runtime : runtime[s].process \in alive' =>
               s \in DOMAIN runtime' /\ runtime'[s].process = runtime[s].process,
           \A c \in McpCallers : Shakes(c) /\ mcpCalls[c].process \in alive' => Shakes(c)'
    PROVE  OwnInv'
<1>1. \A t \in DOMAIN runtime' : \/ runtime'[t].process = 0 /\ runtime'[t].state # "connected"
                                 \/ t \in DOMAIN runtime /\ runtime'[t] = runtime[t]
  OBVIOUS
<1>2. \A c \in McpCallers : Shakes(c) => mcpCalls[c].process # 0
  BY McpCallShape DEF McpType, Shakes
<1>3. \A s, t \in DOMAIN runtime' :
           runtime'[s].process = runtime'[t].process /\ runtime'[s].process # 0 => s = t
  BY <1>1 DEF OwnInv
<1>4. \A c, d \in McpCallers :
           Shakes(c)' /\ Shakes(d)' /\ mcpCalls'[c].process = mcpCalls'[d].process => c = d
  BY DEF OwnInv
<1>5. \A s \in DOMAIN runtime', c \in McpCallers : Shakes(c)' => runtime'[s].process # mcpCalls'[c].process
  BY <1>1, <1>2 DEF OwnInv
<1>6. \A p \in alive' : \/ \E s \in DOMAIN runtime' : runtime'[s].process = p
                        \/ \E c \in McpCallers : Shakes(c)' /\ mcpCalls'[c].process = p
  BY DEF OwnInv
<1>7. \A s \in DOMAIN runtime' :
           /\ runtime'[s].process <= started'
           /\ runtime'[s].state = "connected" <=> runtime'[s].process # 0
  BY <1>1 DEF OwnInv, McpType
<1>8. \A c \in McpCallers : Shakes(c)' => mcpCalls'[c].process <= started'
  BY DEF OwnInv
<1> QED BY <1>3, <1>4, <1>5, <1>6, <1>7, <1>8 DEF OwnInv, Shakes

\* Steps in which requests go on at their servers or leave, and nothing is put down or
\* configured.
LEMMA DownKept ==
    ASSUME DownInv, UNCHANGED <<configs, down>>,
           \A c \in McpCallers : mcpCalls'[c].at # "idle" =>
               /\ mcpCalls[c].at # "idle" /\ mcpCalls'[c].server = mcpCalls[c].server
               /\ mcpCalls'[c].alone => mcpCalls[c].alone
               /\ mcpCalls'[c].at = "remove" => mcpCalls[c].at = "remove"
               /\ mcpCalls'[c].at \in {"insert", "spawn", "handshake"} => mcpCalls[c].at \in {"insert", "spawn", "handshake"},
           \A t \in DOMAIN runtime' : t \in DOMAIN runtime \/ t \notin down
    PROVE  DownInv'
<1>1. \A c, d \in McpCallers :
           c # d /\ mcpCalls'[c].at # "idle" /\ mcpCalls'[d].at # "idle" /\ mcpCalls'[c].alone =>
               mcpCalls'[c].server # mcpCalls'[d].server
  BY DEF DownInv
<1>2. \A c \in McpCallers : mcpCalls'[c].at = "remove" /\ mcpCalls'[c].alone =>
           mcpCalls'[c].server \in DOMAIN configs' /\ ~configs'[mcpCalls'[c].server].enabled
  BY DEF DownInv
<1>3. ASSUME NEW s \in down
      PROVE  /\ s \notin DOMAIN runtime'
             /\ s \in DOMAIN configs' /\ ~configs'[s].enabled
             /\ \A c \in McpCallers : mcpCalls'[c].at \in {"insert", "spawn", "handshake"} => mcpCalls'[c].server # s
  BY DEF DownInv
<1> QED BY <1>1, <1>2, <1>3 DEF DownInv

\* The entries without a session.
LEMMA McpEntries ==
    /\ Entry("failed", {}, 0) \in Entries /\ Entry("connecting", {}, 0) \in Entries
    /\ Entry("failed", {}, 0).process = 0 /\ Entry("failed", {}, 0).state # "connected"
    /\ Entry("connecting", {}, 0).process = 0 /\ Entry("connecting", {}, 0).state # "connected"
BY DEF Entry, Entries

\* Reconciling takes processes that have exited from their entries.
LEMMA McpReconciles ==
    ASSUME McpInv, runtime' = reconcile_mcp_runtime, UNCHANGED <<configs, mcpCalls, started, alive, down>>
    PROVE  McpInv'
<1>1. /\ DOMAIN runtime' = DOMAIN runtime
      /\ \A t \in DOMAIN runtime : /\ runtime'[t] \in Entries
                                   /\ \/ runtime'[t] = runtime[t]
                                      \/ /\ runtime'[t].process = 0 /\ runtime'[t].state # "connected"
                                         /\ runtime[t].process \notin alive
  BY McpEntries DEF reconcile_mcp_runtime, Exited, McpType, McpInv
<1>2. McpType'
  BY <1>1 DEF McpType, McpInv
<1>3. \A d \in McpCallers : Shakes(d)' <=> Shakes(d)
  BY DEF Shakes
<1>4. OwnInv'
  BY <1>1, <1>3, OwnKept DEF McpInv
<1>5. DownInv'
  BY <1>1, DownKept DEF McpInv
<1> QED BY <1>2, <1>4, <1>5 DEF McpInv

\* A config is written by hand: no request at its server is alone any more.
LEMMA McpCreates ==
    ASSUME McpInv, NEW s \in Servers, NEW config \in McpConfigs, mcp_create(s, config)
    PROVE  McpInv'
<1>1. /\ configs' = With(configs, s, config) /\ down' = down \ {s} /\ mcpCalls' = Crowd(s)
      /\ UNCHANGED <<runtime, started, alive>> /\ McpType
  BY DEF mcp_create, McpInv
<1>2. /\ DOMAIN configs' = DOMAIN configs \cup {s} /\ configs'[s] = config
      /\ \A t \in DOMAIN configs \ {s} : configs'[t] = configs[t]
  BY <1>1 DEF With
<1>3. \A d \in McpCallers :
           /\ mcpCalls'[d].at = mcpCalls[d].at /\ mcpCalls'[d].server = mcpCalls[d].server
           /\ (mcpCalls'[d].alone => mcpCalls[d].alone /\ mcpCalls[d].server # s)
           /\ mcpCalls[d].at = "handshake" => mcpCalls'[d].process = mcpCalls[d].process
  BY <1>1, McpCrowd
<1>4. mcpCalls' \in [McpCallers -> CallRows]
  <2>1. CASE McpCallers = {}
    BY <1>1, <2>1 DEF Crowd
  <2>2. CASE McpCallers # {}
    BY <1>1, <2>2, McpCrowd
  <2> QED BY <2>1, <2>2
<1>5. McpType'
  BY <1>1, <1>2, <1>4 DEF McpType
<1>6. OwnInv'
  <2>1. \A c \in McpCallers : (Shakes(c)' <=> Shakes(c)) /\ (Shakes(c) => mcpCalls'[c].process = mcpCalls[c].process)
    BY <1>3 DEF Shakes
  <2> QED BY <1>1, <2>1, OwnKept DEF McpInv
<1>7. DownInv'
  <2>1. \A c, d \in McpCallers :
           c # d /\ mcpCalls'[c].at # "idle" /\ mcpCalls'[d].at # "idle" /\ mcpCalls'[c].alone =>
               mcpCalls'[c].server # mcpCalls'[d].server
    BY <1>3 DEF McpInv, DownInv
  <2>2. \A c \in McpCallers : mcpCalls'[c].at = "remove" /\ mcpCalls'[c].alone =>
           mcpCalls'[c].server \in DOMAIN configs' /\ ~configs'[mcpCalls'[c].server].enabled
    BY <1>2, <1>3 DEF McpInv, DownInv
  <2>3. \A t \in down' :
           /\ t \notin DOMAIN runtime'
           /\ t \in DOMAIN configs' /\ ~configs'[t].enabled
           /\ \A c \in McpCallers : mcpCalls'[c].at \in {"insert", "spawn", "handshake"} => mcpCalls'[c].server # t
    BY <1>1, <1>2, <1>3 DEF McpInv, DownInv
  <2> QED BY <2>1, <2>2, <2>3 DEF DownInv
<1> QED BY <1>5, <1>6, <1>7 DEF McpInv

\* A request comes to a server that is not down, or to put it down or up: it is alone only
\* if no other is there, and no other is alone any more.
LEMMA McpEnters ==
    ASSUME McpInv, NEW c \in McpCallers, NEW s \in Servers, NEW call \in CallRows,
           mcpCalls[c].at = "idle", call.server = s, call.alone => AloneOn(s),
           call.at \in {"write", "insert"}, call.at = "insert" => s \notin down,
           Enter(c, s, call), UNCHANGED <<configs, started, alive, down>>,
           runtime' = runtime \/ runtime' = reconcile_mcp_runtime
    PROVE  McpInv'
<1>1. McpType
  BY DEF McpInv
<1>2. mcpCalls'[c] = call /\ mcpCalls' \in [McpCallers -> CallRows]
  <2>1. Crowd(s) \in [McpCallers -> CallRows]
    BY <1>1, McpCrowd
  <2> QED BY <2>1 DEF Enter
<1>3. \A d \in McpCallers \ {c} :
           /\ mcpCalls'[d].at = mcpCalls[d].at /\ mcpCalls'[d].server = mcpCalls[d].server
           /\ (mcpCalls'[d].alone => mcpCalls[d].alone /\ mcpCalls[d].server # s)
           /\ mcpCalls[d].at = "handshake" => mcpCalls'[d].process = mcpCalls[d].process
  <2> TAKE d \in McpCallers \ {c}
  <2>1. mcpCalls'[d] = Crowd(s)[d]
    BY DEF Enter
  <2> QED BY <1>1, <2>1, McpCrowd
<1>4. /\ DOMAIN runtime' = DOMAIN runtime
      /\ \A t \in DOMAIN runtime : /\ runtime'[t] \in Entries
                                   /\ \/ runtime'[t] = runtime[t]
                                      \/ /\ runtime'[t].process = 0 /\ runtime'[t].state # "connected"
                                         /\ runtime[t].process \notin alive
  BY <1>1, McpEntries DEF reconcile_mcp_runtime, Exited, McpType
<1>5. McpType'
  BY <1>1, <1>2, <1>4 DEF McpType
<1>6. OwnInv'
  <2>1. \A d \in McpCallers : (Shakes(d)' <=> Shakes(d)) /\ (Shakes(d) => mcpCalls'[d].process = mcpCalls[d].process)
    BY <1>2, <1>3 DEF Shakes
  <2> QED BY <1>1, <1>4, <2>1, OwnKept DEF McpInv
<1>7. DownInv'
  <2>1. \A d, e \in McpCallers :
           d # e /\ mcpCalls'[d].at # "idle" /\ mcpCalls'[e].at # "idle" /\ mcpCalls'[d].alone =>
               mcpCalls'[d].server # mcpCalls'[e].server
    BY <1>2, <1>3 DEF McpInv, DownInv, AloneOn
  <2>2. \A d \in McpCallers : mcpCalls'[d].at = "remove" /\ mcpCalls'[d].alone =>
           mcpCalls'[d].server \in DOMAIN configs' /\ ~configs'[mcpCalls'[d].server].enabled
    BY <1>2, <1>3 DEF McpInv, DownInv
  <2>3. ASSUME NEW t \in down'
        PROVE  /\ t \notin DOMAIN runtime'
               /\ t \in DOMAIN configs' /\ ~configs'[t].enabled
               /\ \A d \in McpCallers : mcpCalls'[d].at \in {"insert", "spawn", "handshake"} => mcpCalls'[d].server # t
    BY <1>2, <1>3, <1>4 DEF McpInv, DownInv
  <2> QED BY <2>1, <2>2, <2>3 DEF DownInv
<1> QED BY <1>5, <1>6, <1>7 DEF McpInv

LEMMA McpReads ==
    ASSUME McpInv, NEW c \in McpCallers, NEW s \in Servers,
           ConnectRead(c, s) \/ \E enabled \in BOOLEAN : LifecycleRead(c, s, enabled)
    PROVE  McpInv'
<1>1. McpType /\ s \in DOMAIN configs /\ mcpCalls[c].at = "idle" /\ UNCHANGED <<configs, started, alive, down>>
  BY DEF McpInv, ConnectRead, LifecycleRead
<1>2. configs[s] \in McpConfigs
  BY <1>1 DEF McpType
<1>3. PICK b \in BOOLEAN : b = AloneOn(s)
  BY DEF AloneOn
<1>4. ASSUME NEW enabled \in BOOLEAN, LifecycleRead(c, s, enabled) PROVE McpInv'
  <2>1. PICK config \in McpConfigs : config = [configs[s] EXCEPT !.enabled = enabled]
    BY <1>2 DEF McpConfigs
  <2>2. PICK call : call = [at |-> "write", server |-> s, alone |-> b, config |-> config]
    OBVIOUS
  <2>3. call \in CallRows /\ call.server = s /\ call.alone = b /\ call.at = "write"
    BY <2>2 DEF CallRows
  <2>4. Enter(c, s, call) /\ UNCHANGED runtime
    BY <1>3, <1>4, <2>1, <2>2 DEF LifecycleRead
  <2> QED BY <1>1, <1>3, <2>3, <2>4, McpEnters
<1>5. CASE ConnectRead(c, s)
  <2>1. runtime' = reconcile_mcp_runtime
    BY <1>5 DEF ConnectRead
  <2>2. CASE configs[s].enabled
    <3>1. PICK call : call = [at |-> "insert", server |-> s, alone |-> b, transport |-> configs[s].transport]
      OBVIOUS
    <3>2. call \in CallRows /\ call.server = s /\ call.alone = b /\ call.at = "insert"
      BY <1>2, <3>1 DEF CallRows, McpConfigs, Transports
    <3>3. Enter(c, s, call)
      BY <1>3, <1>5, <2>2, <3>1 DEF ConnectRead
    <3>4. s \notin down
      BY <2>2 DEF McpInv, DownInv
    <3> QED BY <1>1, <1>3, <2>1, <3>2, <3>3, <3>4, McpEnters
  <2>3. CASE ~configs[s].enabled
    <3>1. UNCHANGED <<configs, mcpCalls, started, alive, down>>
      BY <1>1, <1>5, <2>3 DEF ConnectRead
    <3> QED BY <2>1, <3>1, McpReconciles
  <2> QED BY <2>2, <2>3
<1> QED BY <1>4, <1>5

\* Enabling ends with the file; disabling goes on to the entry, its file written.
LEMMA McpWrites ==
    ASSUME McpInv, NEW c \in McpCallers, LifecycleWrite(c)
    PROVE  McpInv'
<1> DEFINE call == mcpCalls[c]
           s == mcpCalls[c].server
<1>1. McpType /\ call \in CallRows /\ call.at = "write"
  BY DEF McpInv, McpType, LifecycleWrite
<1>2. call \in [at : {"write", "remove"}, server : Servers, alone : BOOLEAN, config : McpConfigs]
  BY <1>1, McpCallShape
<1>3. s \in Servers /\ call.config \in McpConfigs /\ call.config.enabled \in BOOLEAN
  BY <1>2 DEF McpConfigs
<1>4. configs' = With(configs, s, call.config) /\ UNCHANGED <<runtime, started, alive>>
  BY DEF LifecycleWrite
<1>5. /\ DOMAIN configs' = DOMAIN configs \cup {s} /\ configs'[s] = call.config
      /\ \A t \in DOMAIN configs \ {s} : configs'[t] = configs[t]
  BY <1>4 DEF With
<1>6. \/ /\ call.config.enabled /\ down' = down \ {s} /\ mcpCalls'[c].at = "idle"
      \/ /\ ~call.config.enabled /\ down' = down /\ mcpCalls'[c].at = "remove"
         /\ mcpCalls'[c].server = s /\ mcpCalls'[c].alone = call.alone
  <2>1. CASE call.config.enabled
    BY <1>1, <2>1, McpIdleCall DEF LifecycleWrite, Leave, McpType
  <2>2. CASE ~call.config.enabled
    <3>1. mcpCalls' = [mcpCalls EXCEPT ![c].at = "remove"] /\ down' = down
      BY <2>2 DEF LifecycleWrite
    <3>2. mcpCalls'[c] = [call EXCEPT !.at = "remove"]
      BY <1>1, <3>1 DEF McpType
    <3> QED BY <1>2, <2>2, <3>1, <3>2
  <2> QED BY <2>1, <2>2
<1>7. mcpCalls' \in [McpCallers -> CallRows] /\ \A d \in McpCallers \ {c} : mcpCalls'[d] = mcpCalls[d]
  <2>1. CASE call.config.enabled
    BY <1>1, <2>1, McpIdleCall DEF LifecycleWrite, Leave, McpType
  <2>2. CASE ~call.config.enabled
    <3>1. mcpCalls' = [mcpCalls EXCEPT ![c].at = "remove"]
      BY <2>2 DEF LifecycleWrite
    <3>2. [call EXCEPT !.at = "remove"] \in CallRows
      BY <1>2 DEF CallRows
    <3> QED BY <1>1, <3>1, <3>2 DEF McpType
  <2> QED BY <2>1, <2>2
<1> HIDE DEF call, s
<1>8. McpType'
  BY <1>1, <1>3, <1>4, <1>5, <1>6, <1>7 DEF McpType
<1>9. OwnInv'
  <2>1. \A d \in McpCallers : (Shakes(d)' <=> Shakes(d)) /\ (Shakes(d) => mcpCalls'[d].process = mcpCalls[d].process)
    BY <1>1, <1>6, <1>7 DEF Shakes, call
  <2> QED BY <1>1, <1>4, <2>1, OwnKept DEF McpInv
<1>10. DownInv'
  <2>1. \A d, e \in McpCallers :
           d # e /\ mcpCalls'[d].at # "idle" /\ mcpCalls'[e].at # "idle" /\ mcpCalls'[d].alone =>
               mcpCalls'[d].server # mcpCalls'[e].server
    BY <1>1, <1>6, <1>7 DEF McpInv, DownInv, call, s
  <2>2. \A d \in McpCallers : mcpCalls'[d].at = "remove" /\ mcpCalls'[d].alone =>
           mcpCalls'[d].server \in DOMAIN configs' /\ ~configs'[mcpCalls'[d].server].enabled
    <3> SUFFICES ASSUME NEW d \in McpCallers, mcpCalls'[d].at = "remove", mcpCalls'[d].alone
                 PROVE  mcpCalls'[d].server \in DOMAIN configs' /\ ~configs'[mcpCalls'[d].server].enabled
      OBVIOUS
    <3>1. CASE d = c
      BY <1>5, <1>6, <3>1
    <3>2. CASE d # c
      <4>1. mcpCalls[d].server # s
        BY <1>1, <1>7, <3>2 DEF McpInv, DownInv, call, s
      <4> QED BY <1>5, <1>7, <3>2, <4>1 DEF McpInv, DownInv
    <3> QED BY <3>1, <3>2
  <2>3. ASSUME NEW t \in down'
        PROVE  /\ t \notin DOMAIN runtime'
               /\ t \in DOMAIN configs' /\ ~configs'[t].enabled
               /\ \A d \in McpCallers : mcpCalls'[d].at \in {"insert", "spawn", "handshake"} => mcpCalls'[d].server # t
    <3>1. t \in down
      BY <1>6
    <3>2. ~configs'[t].enabled
      BY <1>5, <1>6, <3>1 DEF McpInv, DownInv
    <3> QED BY <1>4, <1>5, <1>6, <1>7, <3>1, <3>2 DEF McpInv, DownInv
  <2> QED BY <2>1, <2>2, <2>3 DEF DownInv
<1> QED BY <1>8, <1>9, <1>10 DEF McpInv

\* Disabling removes the entry with its session.  If it is still alone, the server is down.
LEMMA McpRemoves ==
    ASSUME McpInv, NEW c \in McpCallers, LifecycleRemove(c)
    PROVE  McpInv'
<1> DEFINE s == mcpCalls[c].server
<1>1. McpType /\ mcpCalls[c] \in CallRows /\ mcpCalls[c].at = "remove" /\ s \in Servers
  BY McpCallShape DEF McpInv, McpType, LifecycleRemove
<1>2. /\ runtime' = Without(runtime, s) /\ alive' = alive \ Held(s)
      /\ down' = (IF mcpCalls[c].alone THEN down \cup {s} ELSE down)
      /\ mcpCalls' = [mcpCalls EXCEPT ![c] = IdleCall]
      /\ UNCHANGED <<configs, started>>
  BY DEF LifecycleRemove, Leave
<1>3. /\ mcpCalls' \in [McpCallers -> CallRows]
      /\ mcpCalls'[c].at = "idle" /\ \A d \in McpCallers \ {c} : mcpCalls'[d] = mcpCalls[d]
  BY <1>1, <1>2, McpIdleCall DEF McpType
<1>4. DOMAIN runtime' = DOMAIN runtime \ {s} /\ \A t \in DOMAIN runtime' : runtime'[t] = runtime[t]
  BY <1>2 DEF Without
<1>5. s \in DOMAIN runtime => runtime[s].process \notin alive'
  BY <1>2 DEF Held
<1> HIDE DEF s
<1>6. McpType'
  BY <1>1, <1>2, <1>3, <1>4 DEF McpType
<1>7. OwnInv'
  <2>1. \A d \in McpCallers : (Shakes(d)' <=> Shakes(d)) /\ (Shakes(d) => mcpCalls'[d].process = mcpCalls[d].process)
    BY <1>1, <1>3 DEF Shakes
  <2>2. \A t \in DOMAIN runtime : runtime[t].process \in alive' =>
               t \in DOMAIN runtime' /\ runtime'[t].process = runtime[t].process
    BY <1>4, <1>5
  <2>3. alive' \subseteq alive
    BY <1>2
  <2> QED BY <1>1, <1>2, <1>4, <2>1, <2>2, <2>3, OwnKept DEF McpInv
<1>8. DownInv'
  <2>1. \A d, e \in McpCallers :
           d # e /\ mcpCalls'[d].at # "idle" /\ mcpCalls'[e].at # "idle" /\ mcpCalls'[d].alone =>
               mcpCalls'[d].server # mcpCalls'[e].server
    BY <1>3 DEF McpInv, DownInv
  <2>2. \A d \in McpCallers : mcpCalls'[d].at = "remove" /\ mcpCalls'[d].alone =>
           mcpCalls'[d].server \in DOMAIN configs' /\ ~configs'[mcpCalls'[d].server].enabled
    BY <1>2, <1>3 DEF McpInv, DownInv
  <2>3. ASSUME NEW t \in down'
        PROVE  /\ t \notin DOMAIN runtime'
               /\ t \in DOMAIN configs' /\ ~configs'[t].enabled
               /\ \A d \in McpCallers : mcpCalls'[d].at \in {"insert", "spawn", "handshake"} => mcpCalls'[d].server # t
    <3>1. CASE t \in down
      BY <1>2, <1>3, <1>4, <3>1 DEF McpInv, DownInv
    <3>2. CASE t \notin down
      <4>1. t = s /\ mcpCalls[c].alone
        BY <1>2, <3>2
      <4>2. t \in DOMAIN configs' /\ ~configs'[t].enabled
        BY <1>1, <1>2, <4>1 DEF McpInv, DownInv, s
      <4>3. \A d \in McpCallers \ {c} : mcpCalls[d].at # "idle" => mcpCalls[d].server # t
        BY <1>1, <4>1 DEF McpInv, DownInv, s
      <4> QED BY <1>3, <1>4, <4>1, <4>2, <4>3
    <3> QED BY <3>1, <3>2
  <2> QED BY <2>1, <2>2, <2>3 DEF DownInv
<1> QED BY <1>6, <1>7, <1>8 DEF McpInv

\* A connect replaces the entry of its server: what the entry held goes, and what the request
\* held, unless the new entry holds it.
LEMMA McpReplaces ==
    ASSUME McpInv, NEW c \in McpCallers, NEW row \in Entries, NEW call \in CallRows,
           mcpCalls[c].at \in {"insert", "spawn", "handshake"},
           runtime' = With(runtime, mcpCalls[c].server, row),
           alive' \subseteq alive \ Held(mcpCalls[c].server),
           \A p \in alive \ Held(mcpCalls[c].server) : p \notin alive' => Shakes(c) /\ p = mcpCalls[c].process,
           mcpCalls' = [mcpCalls EXCEPT ![c] = call],
           \/ call.at = "idle"
           \/ /\ call.at = "spawn" /\ mcpCalls[c].at = "insert"
              /\ call.server = mcpCalls[c].server /\ call.alone = mcpCalls[c].alone,
           \/ /\ row.process = 0 /\ row.state # "connected"
              /\ Shakes(c) => mcpCalls[c].process \notin alive'
           \/ Shakes(c) /\ row.process = mcpCalls[c].process /\ row.state = "connected",
           UNCHANGED <<configs, started, down>>
    PROVE  McpInv'
<1> DEFINE s == mcpCalls[c].server
<1>1. McpType /\ mcpCalls[c] \in CallRows /\ s \in Servers
  BY McpCallShape DEF McpInv, McpType
<1>2. mcpCalls' \in [McpCallers -> CallRows] /\ mcpCalls'[c] = call /\ \A d \in McpCallers \ {c} : mcpCalls'[d] = mcpCalls[d]
  BY <1>1 DEF McpType
<1>3. /\ DOMAIN runtime' = DOMAIN runtime \cup {s} /\ runtime'[s] = row
      /\ \A t \in DOMAIN runtime \ {s} : runtime'[t] = runtime[t]
  BY DEF With
<1>4. s \in DOMAIN runtime => runtime[s].process \notin alive'
  BY DEF Held
<1>5. ~Shakes(c)' /\ \A d \in McpCallers \ {c} : (Shakes(d)' <=> Shakes(d)) /\ mcpCalls'[d].process = mcpCalls[d].process
  BY <1>2 DEF Shakes
<1>6. \A t \in DOMAIN runtime \ {s} : t \in DOMAIN runtime'
  BY <1>3
<1> HIDE DEF s
<1>7. McpType'
  <2>1. alive' \subseteq 1 .. started'
    BY <1>1 DEF McpType
  <2> QED BY <1>1, <1>2, <1>3, <2>1 DEF McpType
<1>8. OwnInv'
  <2>1. CASE /\ row.process = 0 /\ row.state # "connected"
             /\ Shakes(c) => mcpCalls[c].process \notin alive'
    <3>1. \A t \in DOMAIN runtime' :
               \/ runtime'[t].process = 0 /\ runtime'[t].state # "connected"
               \/ t \in DOMAIN runtime /\ runtime'[t] = runtime[t]
      BY <1>3, <2>1
    <3>2. \A t \in DOMAIN runtime : runtime[t].process \in alive' =>
               t \in DOMAIN runtime' /\ runtime'[t].process = runtime[t].process
      BY <1>3, <1>4
    <3>3. \A d \in McpCallers : Shakes(d)' => Shakes(d) /\ mcpCalls'[d].process = mcpCalls[d].process
      BY <1>5
    <3>4. \A d \in McpCallers : Shakes(d) /\ mcpCalls[d].process \in alive' => Shakes(d)'
      BY <1>5, <2>1
    <3>5. alive' \subseteq alive
      OBVIOUS
    <3> QED BY <1>1, <3>1, <3>2, <3>3, <3>4, <3>5, OwnKept DEF McpInv
  <2>2. CASE Shakes(c) /\ row.process = mcpCalls[c].process /\ row.state = "connected"
    <3> DEFINE q == mcpCalls[c].process
    <3>1. q # 0 /\ q \in Nat
      BY <1>1, <2>2, McpCallShape DEF Shakes
    <3>2. \A t \in DOMAIN runtime \ {s} : runtime'[t].process # q
      BY <1>3, <2>2 DEF McpInv, OwnInv
    <3>3. \A d \in McpCallers \ {c} : Shakes(d) => mcpCalls[d].process # q
      BY <2>2 DEF McpInv, OwnInv
    <3>4. runtime'[s].process = q
      BY <1>3, <2>2
    <3> HIDE DEF q
    <3>5. \A t, u \in DOMAIN runtime' :
             runtime'[t].process = runtime'[u].process /\ runtime'[t].process # 0 => t = u
      BY <1>3, <3>2, <3>4 DEF McpInv, OwnInv
    <3>6. \A d, e \in McpCallers :
             Shakes(d)' /\ Shakes(e)' /\ mcpCalls'[d].process = mcpCalls'[e].process => d = e
      BY <1>5 DEF McpInv, OwnInv
    <3>7. \A t \in DOMAIN runtime', d \in McpCallers : Shakes(d)' => runtime'[t].process # mcpCalls'[d].process
      BY <1>3, <1>5, <3>3, <3>4 DEF McpInv, OwnInv
    <3>8. ASSUME NEW p \in alive'
          PROVE  \/ \E t \in DOMAIN runtime' : runtime'[t].process = p
                 \/ \E d \in McpCallers : Shakes(d)' /\ mcpCalls'[d].process = p
      <4>1. p \in alive
        OBVIOUS
      <4>2. CASE \E t \in DOMAIN runtime : runtime[t].process = p
        BY <1>3, <1>4, <4>2
      <4>3. CASE \E d \in McpCallers : Shakes(d) /\ mcpCalls[d].process = p
        <5>1. PICK d \in McpCallers : Shakes(d) /\ mcpCalls[d].process = p
          BY <4>3
        <5>2. CASE d = c
          BY <1>3, <3>4, <5>1, <5>2 DEF q
        <5>3. CASE d # c
          BY <1>5, <5>1, <5>3
        <5> QED BY <5>2, <5>3
      <4> QED BY <4>1, <4>2, <4>3 DEF McpInv, OwnInv
    <3>9. q <= started
      BY <2>2 DEF McpInv, OwnInv, q
    <3>10. \A t \in DOMAIN runtime' :
             /\ runtime'[t].process <= started'
             /\ runtime'[t].state = "connected" <=> runtime'[t].process # 0
      BY <1>3, <2>2, <3>1, <3>4, <3>9 DEF McpInv, OwnInv
    <3>11. \A d \in McpCallers : Shakes(d)' => mcpCalls'[d].process <= started'
      BY <1>5 DEF McpInv, OwnInv
    <3> QED BY <3>5, <3>6, <3>7, <3>8, <3>10, <3>11 DEF OwnInv, Shakes
  <2> QED BY <2>1, <2>2
<1>9. DownInv'
  <2>1. s \notin down
    BY DEF McpInv, DownInv, s
  <2>2. \A t \in DOMAIN runtime' : t \in DOMAIN runtime \/ t \notin down
    BY <1>3, <2>1
  <2>3. \A d \in McpCallers : mcpCalls'[d].at # "idle" =>
               /\ mcpCalls[d].at # "idle" /\ mcpCalls'[d].server = mcpCalls[d].server
               /\ mcpCalls'[d].alone => mcpCalls[d].alone
               /\ mcpCalls'[d].at = "remove" => mcpCalls[d].at = "remove"
               /\ mcpCalls'[d].at \in {"insert", "spawn", "handshake"} => mcpCalls[d].at \in {"insert", "spawn", "handshake"}
    BY <1>2
  <2> QED BY <2>2, <2>3, DownKept DEF McpInv
<1> QED BY <1>7, <1>8, <1>9 DEF McpInv

\* A process is started: nobody holds its number yet.
LEMMA McpSpawns ==
    ASSUME McpInv, NEW c \in McpCallers, ConnectSpawn(c)
    PROVE  McpInv'
<1> DEFINE r == mcpCalls[c]
<1>1. McpType /\ r \in CallRows /\ r.at = "spawn" /\ r.server \in Servers /\ r.alone \in BOOLEAN
  BY McpCallShape DEF McpInv, McpType, ConnectSpawn
<1>2. CASE started < MaxStarts
  <2>1. PICK call : call = [at |-> "handshake", server |-> r.server, alone |-> r.alone, process |-> started + 1]
    OBVIOUS
  <2>2. /\ call \in CallRows /\ call.at = "handshake" /\ call.server = r.server
        /\ call.alone = r.alone /\ call.process = started + 1
    BY <1>1, <2>1 DEF CallRows, McpType
  <2>3. /\ started' = started + 1 /\ alive' = alive \cup {started + 1}
        /\ mcpCalls' = [mcpCalls EXCEPT ![c] = call] /\ UNCHANGED <<configs, runtime, down>>
    BY <1>1, <1>2, <2>1 DEF ConnectSpawn, McpType
  <2>4. mcpCalls' \in [McpCallers -> CallRows] /\ mcpCalls'[c] = call /\ \A d \in McpCallers \ {c} : mcpCalls'[d] = mcpCalls[d]
    BY <1>1, <2>2, <2>3 DEF McpType
  <2>5. McpType'
    BY <1>1, <2>3, <2>4 DEF McpType
  <2>6. /\ Shakes(c)' /\ mcpCalls'[c].process = started + 1
        /\ \A d \in McpCallers \ {c} : (Shakes(d)' <=> Shakes(d)) /\ mcpCalls'[d].process = mcpCalls[d].process
        /\ ~Shakes(c)
    BY <1>1, <2>2, <2>4 DEF Shakes
  <2>7. /\ \A s \in DOMAIN runtime : runtime[s].process \in Nat /\ runtime[s].process <= started
        /\ \A d \in McpCallers : Shakes(d) => mcpCalls[d].process \in Nat /\ mcpCalls[d].process <= started
        /\ started \in Nat
    BY <1>1, McpCallShape DEF McpInv, OwnInv, McpType, Entries, Shakes
  <2>8. OwnInv'
    <3>1. \A d, e \in McpCallers :
             Shakes(d)' /\ Shakes(e)' /\ mcpCalls'[d].process = mcpCalls'[e].process => d = e
      BY <2>6, <2>7 DEF McpInv, OwnInv
    <3>2. \A t \in DOMAIN runtime', d \in McpCallers : Shakes(d)' => runtime'[t].process # mcpCalls'[d].process
      BY <2>3, <2>6, <2>7 DEF McpInv, OwnInv
    <3>3. \A p \in alive' : \/ \E t \in DOMAIN runtime' : runtime'[t].process = p
                            \/ \E d \in McpCallers : Shakes(d)' /\ mcpCalls'[d].process = p
      BY <2>3, <2>6 DEF McpInv, OwnInv
    <3>4. \A d \in McpCallers : Shakes(d)' => mcpCalls'[d].process <= started'
      BY <2>3, <2>6, <2>7
    <3>5. \A t \in DOMAIN runtime' :
             /\ runtime'[t].process <= started'
             /\ runtime'[t].state = "connected" <=> runtime'[t].process # 0
      BY <2>3, <2>7 DEF McpInv, OwnInv
    <3>6. \A t, u \in DOMAIN runtime' :
             runtime'[t].process = runtime'[u].process /\ runtime'[t].process # 0 => t = u
      BY <2>3 DEF McpInv, OwnInv
    <3> QED BY <3>1, <3>2, <3>3, <3>4, <3>5, <3>6 DEF OwnInv, Shakes
  <2>9. DownInv'
    <3>1. \A d \in McpCallers : mcpCalls'[d].at # "idle" =>
               /\ mcpCalls[d].at # "idle" /\ mcpCalls'[d].server = mcpCalls[d].server
               /\ mcpCalls'[d].alone => mcpCalls[d].alone
               /\ mcpCalls'[d].at = "remove" => mcpCalls[d].at = "remove"
               /\ mcpCalls'[d].at \in {"insert", "spawn", "handshake"} => mcpCalls[d].at \in {"insert", "spawn", "handshake"}
      BY <1>1, <2>2, <2>4
    <3>2. \A t \in DOMAIN runtime' : t \in DOMAIN runtime \/ t \notin down
      BY <2>3
    <3> QED BY <2>3, <3>1, <3>2, DownKept DEF McpInv
  <2> QED BY <2>5, <2>8, <2>9 DEF McpInv
<1>3. CASE ~(started < MaxStarts)
  <2>1. /\ runtime' = With(runtime, r.server, Entry("failed", {}, 0)) /\ alive' = alive \ Held(r.server)
        /\ mcpCalls' = [mcpCalls EXCEPT ![c] = IdleCall] /\ UNCHANGED <<configs, started, down>>
    BY <1>3 DEF ConnectSpawn, record_mcp_failed_state, Replace, Leave
  <2>2. ~Shakes(c)
    BY <1>1 DEF Shakes
  <2> QED BY <1>1, <2>1, <2>2, McpEntries, McpIdleCall, McpReplaces
<1> QED BY <1>2, <1>3

\* The other steps of a connect.
LEMMA McpConnects ==
    ASSUME McpInv, NEW c \in McpCallers,
           ConnectInsert(c) \/ ConnectFails(c) \/ \E tools \in SUBSET McpTools : ConnectDone(c, tools)
    PROVE  McpInv'
<1> DEFINE r == mcpCalls[c]
<1>1. McpType /\ r \in CallRows /\ UNCHANGED <<configs, started, down>>
  BY DEF McpInv, McpType, ConnectInsert, ConnectFails, ConnectDone
<1>2. CASE ConnectInsert(c)
  <2>1. r.at = "insert" /\ alive' = alive \ Held(r.server)
    BY <1>2 DEF ConnectInsert, Replace, record_mcp_failed_state
  <2>2. ~Shakes(c)
    BY <2>1 DEF Shakes
  <2>3. CASE r.transport = "stdio"
    <3>1. /\ runtime' = With(runtime, r.server, Entry("connecting", {}, 0))
          /\ mcpCalls' = [mcpCalls EXCEPT ![c].at = "spawn"]
      BY <1>2, <2>3 DEF ConnectInsert, Replace
    <3>2. PICK call : call = [r EXCEPT !.at = "spawn"]
      OBVIOUS
    <3>3. r \in [at : {"insert", "spawn"}, server : Servers, alone : BOOLEAN, transport : Transports]
      BY <1>1, <2>1, McpCallShape
    <3>4. call \in CallRows /\ call.at = "spawn" /\ call.server = r.server /\ call.alone = r.alone
      BY <3>2, <3>3 DEF CallRows
    <3>5. mcpCalls' = [mcpCalls EXCEPT ![c] = call]
      BY <3>1, <3>2
    <3> QED BY <1>1, <2>1, <2>2, <3>1, <3>4, <3>5, McpEntries, McpReplaces
  <2>4. CASE r.transport # "stdio"
    <3>1. /\ runtime' = With(runtime, r.server, Entry("failed", {}, 0))
          /\ mcpCalls' = [mcpCalls EXCEPT ![c] = IdleCall]
      BY <1>2, <2>4 DEF ConnectInsert, Replace, record_mcp_failed_state, Leave
    <3> QED BY <1>1, <2>1, <2>2, <3>1, McpEntries, McpIdleCall, McpReplaces
  <2> QED BY <2>3, <2>4
<1>3. CASE ConnectFails(c)
  <2>1. /\ r.at = "handshake" /\ runtime' = With(runtime, r.server, Entry("failed", {}, 0))
        /\ alive' = alive \ (Held(r.server) \cup {r.process})
        /\ mcpCalls' = [mcpCalls EXCEPT ![c] = IdleCall]
    BY <1>3 DEF ConnectFails, Leave
  <2>2. Shakes(c)
    BY <2>1 DEF Shakes
  <2>3. /\ alive' \subseteq alive \ Held(r.server) /\ r.process \notin alive'
        /\ \A p \in alive \ Held(r.server) : p \notin alive' => Shakes(c) /\ p = r.process
    BY <2>1, <2>2
  <2> QED BY <1>1, <2>1, <2>3, McpEntries, McpIdleCall, McpReplaces
<1>4. ASSUME NEW tools \in SUBSET McpTools, ConnectDone(c, tools) PROVE McpInv'
  <2>1. /\ r.at = "handshake" /\ runtime' = With(runtime, r.server, Entry("connected", tools, r.process))
        /\ alive' = alive \ Held(r.server)
        /\ mcpCalls' = [mcpCalls EXCEPT ![c] = IdleCall]
    BY <1>4 DEF ConnectDone, Replace, Leave
  <2>2. Shakes(c) /\ r.process \in Nat
    BY <1>1, <2>1, McpCallShape DEF Shakes
  <2>3. PICK row \in Entries : row = Entry("connected", tools, r.process) /\ row.process = r.process /\ row.state = "connected"
    <3>1. PICK row : row = Entry("connected", tools, r.process)
      OBVIOUS
    <3>2. row \in Entries /\ row.process = r.process /\ row.state = "connected"
      BY <2>2, <3>1 DEF Entry, Entries
    <3> QED BY <3>1, <3>2
  <2> QED BY <1>1, <2>1, <2>2, <2>3, McpIdleCall, McpReplaces
<1> QED BY <1>2, <1>3, <1>4

\* A broken call ends the session, and the entry stays without it.
LEMMA McpBreaks ==
    ASSUME McpInv, NEW s \in DOMAIN runtime, CallBreaks(s), UNCHANGED <<configs, mcpCalls, started, down>>
    PROVE  McpInv'
<1>1. /\ McpType /\ runtime' = [runtime EXCEPT ![s] = Entry("failed", runtime[s].tools, 0)]
      /\ alive' = alive \ {runtime[s].process}
  BY DEF McpInv, CallBreaks, Held
<1>2. runtime[s] \in Entries
  BY <1>1 DEF McpType
<1>3. PICK row \in Entries : row = Entry("failed", runtime[s].tools, 0) /\ row.process = 0 /\ row.state # "connected"
  <2>1. runtime[s].tools \in SUBSET McpTools
    BY <1>2 DEF Entries
  <2>2. PICK row : row = Entry("failed", runtime[s].tools, 0)
    OBVIOUS
  <2>3. row \in Entries /\ row.process = 0 /\ row.state = "failed"
    BY <2>1, <2>2 DEF Entry, Entries
  <2> QED BY <2>2, <2>3
<1>4. DOMAIN runtime' = DOMAIN runtime /\ runtime'[s] = row /\ \A t \in DOMAIN runtime \ {s} : runtime'[t] = runtime[t]
  BY <1>1, <1>3
<1>5. McpType'
  BY <1>1, <1>4 DEF McpType
<1>6. OwnInv'
  <2>1. \A d \in McpCallers : Shakes(d)' <=> Shakes(d)
    BY DEF Shakes
  <2>2. \A t \in DOMAIN runtime : runtime[t].process \in alive' => runtime'[t].process = runtime[t].process
    BY <1>1, <1>4
  <2>3. alive' \subseteq alive
    BY <1>1
  <2>4. \A t \in DOMAIN runtime' :
               \/ runtime'[t].process = 0 /\ runtime'[t].state # "connected"
               \/ t \in DOMAIN runtime /\ runtime'[t] = runtime[t]
    BY <1>3, <1>4
  <2> QED BY <1>1, <1>4, <2>1, <2>2, <2>3, <2>4, OwnKept DEF McpInv
<1>7. DownInv'
  BY <1>4, DownKept DEF McpInv
<1> QED BY <1>5, <1>6, <1>7 DEF McpInv

LEMMA McpStutters == ASSUME McpInv, UNCHANGED mcpVars PROVE McpInv'
BY DEF mcpVars, McpInv, McpType, OwnInv, DownInv, Shakes

LEMMA McpStep == ASSUME McpInv, [McpNext]_mcpVars PROVE McpInv'
<1>1. ASSUME NEW s, NEW tool, mcp_call_tool(s, tool) PROVE McpInv'
  <2>1. s \in DOMAIN runtime /\ UNCHANGED <<configs, mcpCalls, started, down>>
    BY <1>1 DEF mcp_call_tool, Callable
  <2>2. CASE UNCHANGED <<runtime, alive>>
    BY <2>1, <2>2, McpStutters DEF mcpVars
  <2>3. CASE CallBreaks(s)
    BY <2>1, <2>3, McpBreaks
  <2> QED BY <1>1, <2>2, <2>3 DEF mcp_call_tool
<1>2. ASSUME NEW p, ProcessExits(p) PROVE McpInv'
  <2>1. alive' = alive \ {p} /\ UNCHANGED <<configs, runtime, mcpCalls, started, down>> /\ McpType
    BY <1>2 DEF ProcessExits, McpInv
  <2>2. McpType'
    BY <2>1 DEF McpType
  <2>3. OwnInv'
    BY <2>1 DEF McpInv, OwnInv, Shakes
  <2>4. DownInv'
    BY <2>1 DEF McpInv, DownInv
  <2> QED BY <2>2, <2>3, <2>4 DEF McpInv
<1>3. CASE McpRestarts
  <2>1. /\ DOMAIN runtime' = {} /\ alive' = {} /\ mcpCalls' = [c \in McpCallers |-> IdleCall]
        /\ UNCHANGED <<configs, started, down>> /\ McpType
    BY <1>3 DEF McpRestarts, McpInv
  <2>2. \A c \in McpCallers : mcpCalls'[c].at = "idle"
    BY <2>1, McpIdleCall
  <2>3. McpType'
    BY <2>1, McpIdleCall DEF McpType
  <2>4. OwnInv'
    BY <2>1, <2>2 DEF OwnInv, Shakes
  <2>5. DownInv'
    BY <2>1, <2>2 DEF McpInv, DownInv
  <2> QED BY <2>3, <2>4, <2>5 DEF McpInv
<1>4. CASE mcp_rows
  BY <1>4, McpReconciles DEF mcp_rows
<1>5. CASE UNCHANGED mcpVars
  BY <1>5, McpStutters
<1>6. ASSUME NEW c \in McpCallers,
             \/ \E s \in Servers : ConnectRead(c, s) \/ \E enabled \in BOOLEAN : LifecycleRead(c, s, enabled)
             \/ LifecycleWrite(c) \/ LifecycleRemove(c)
             \/ ConnectInsert(c) \/ ConnectSpawn(c) \/ ConnectFails(c)
             \/ \E tools \in SUBSET McpTools : ConnectDone(c, tools)
      PROVE  McpInv'
  BY <1>6, McpReads, McpWrites, McpRemoves, McpConnects, McpSpawns
<1> QED BY <1>1, <1>2, <1>3, <1>4, <1>5, <1>6, McpCreates DEF McpNext

\* The invariant gives what SessionsOwned says.
LEMMA McpInvOwned == McpInv => SessionsOwned
<1> SUFFICES ASSUME McpInv PROVE SessionsOwned
  OBVIOUS
<1>1. ASSUME NEW p \in alive
      PROVE  Cardinality({s \in DOMAIN runtime : runtime[s].process = p}) +
             Cardinality({c \in McpCallers : mcpCalls[c].at = "handshake" /\ mcpCalls[c].process = p}) = 1
  <2> DEFINE S == {s \in DOMAIN runtime : runtime[s].process = p}
             C == {c \in McpCallers : mcpCalls[c].at = "handshake" /\ mcpCalls[c].process = p}
  <2>1. p # 0
    BY DEF McpInv, McpType
  <2>0. SUFFICES Cardinality(S) + Cardinality(C) = 1
    OBVIOUS
  <2>2. CASE \E s \in DOMAIN runtime : runtime[s].process = p
    <3>1. PICK s \in DOMAIN runtime : runtime[s].process = p
      BY <2>2
    <3>2. S = {s} /\ C = {}
      BY <2>1, <3>1 DEF McpInv, OwnInv, Shakes
    <3> HIDE DEF S, C
    <3>3. Cardinality({s}) = 1 /\ Cardinality({}) = 0
      BY FS_EmptySet, FS_Singleton
    <3> QED BY <3>2, <3>3
  <2>3. CASE ~\E s \in DOMAIN runtime : runtime[s].process = p
    <3>1. PICK c \in McpCallers : Shakes(c) /\ mcpCalls[c].process = p
      BY <2>3 DEF McpInv, OwnInv
    <3>2. S = {} /\ C = {c}
      BY <2>3, <3>1 DEF McpInv, OwnInv, Shakes
    <3> HIDE DEF S, C
    <3>3. Cardinality({c}) = 1 /\ Cardinality({}) = 0
      BY FS_EmptySet, FS_Singleton
    <3> QED BY <3>2, <3>3
  <2> QED BY <2>2, <2>3
<1>2. \A s \in DOMAIN runtime : runtime[s].state = "connected" <=> runtime[s].process # 0
  BY DEF McpInv, OwnInv
<1>3. \A s \in down : s \notin DOMAIN runtime /\ mcp_tool_rows(s) = {}
  <2> TAKE s \in down
  <2>1. s \notin DOMAIN runtime
    BY DEF McpInv, DownInv
  <2>2. normalized_mcp_row(s).state # "connected"
    BY <2>1 DEF normalized_mcp_row
  <2> QED BY <2>1, <2>2 DEF mcp_tool_rows
<1> QED BY <1>1, <1>2, <1>3 DEF SessionsOwned

\* However connects, failures, exits and lifecycle requests overlap, for any servers, requests
\* and number of processes: a running process has one owner, a connected entry has a session,
\* and a server disabled undisturbed has neither entry nor tools until it is enabled or written
\* anew.
THEOREM SessionsStayOwned == McpSpec => []SessionsOwned
BY McpInitial, McpStep, McpInvOwned, PTL DEF McpSpec

-----------------------------------------------------------------------------
(* Chat: what runs in a turn, and what an answer may claim.                *)

Known(tools) == tools \cup Recall

Whys == {"", "tool_not_found", "descriptor", "denied", "tool_not_implemented", "refused", "failed", "not_connected"}

Executions(K) ==
    [tool : K, caller : {"api", "orchestrator", "model"}, hash : {"none", "current", "other"},
     at : {"gate", "run", "mcp", "record"}, why : Whys, gate : BOOLEAN, ok : BOOLEAN, executed : BOOLEAN]

Traces(K) == [tool : K, ok : BOOLEAN, executed : BOOLEAN]

Turns(K) ==
    [at : {"idle", "api", "preflight", "prompt", "provider", "tool"}, wants : BOOLEAN,
     rounds : 0 .. MAX_TOOL_ITERATIONS, traces : SUBSET Traces(K), exec : {NoExecution} \cup Executions(K)]

\* A success stands for a run, except of a proposal, and only shell.execute executes.
Backed(t) ==
    /\ t.ok /\ t.tool # "shell.propose" => \E r \in ran : r.ok /\ r.tool = t.tool
    /\ t.executed => t.tool = "shell.execute"

GatedRow(r) ==
    \/ PassedChecks(r)
    \/ /\ r.tool \in DOMAIN McpIds /\ r.server = McpIds[r.tool][1]
       /\ r.disabled => ~r.undisturbed

\* How many tools can have run.
Allowance ==
    CASE turn.at \in {"api", "preflight"} -> IF turn.exec.at = "record" THEN 1 ELSE 0
      [] turn.at \in {"prompt", "provider"} -> turn.rounds + 1
      [] turn.at = "tool" -> turn.rounds + (IF turn.exec.at = "record" THEN 2 ELSE 1)
      [] turn.at = "idle" -> MAX_TOOL_ITERATIONS + 1

Checked(exec) ==
    /\ exec.at \in {"gate", "run"} => exec.tool \in tool_descriptors /\ (exec.caller = "model" => exec.hash = "current")
    /\ exec.at = "run" => exec.gate
    /\ exec.at = "mcp" => exec.tool \in DOMAIN McpIds

\* An execution that is past a check has passed it, traces and executions are backed by runs,
\* and as many tools ran as the turn has rounds for.
ChatInv(K) ==
    /\ turn \in Turns(K)
    /\ turn.exec # NoExecution <=> turn.at \in {"api", "preflight", "tool"}
    /\ turn.exec # NoExecution => Checked(turn.exec) /\ Backed(turn.exec)
    /\ turn.at = "tool" => turn.rounds < MAX_TOOL_ITERATIONS
    /\ \A t \in turn.traces : Backed(t)
    /\ \A r \in ran : GatedRow(r)
    /\ IsFiniteSet(ran) /\ Cardinality(ran) <= Allowance
    /\ AnswerBacked

\* An execution as execute_tool starts it.
LEMMA ChatExecutes ==
    ASSUME NEW K, NEW tool \in K, NEW caller \in {"api", "orchestrator", "model"},
           NEW hash \in {"none", "current", "other"}
    PROVE  /\ execute_tool(tool, caller, hash) \in Executions(K)
           /\ Checked(execute_tool(tool, caller, hash))
           /\ execute_tool(tool, caller, hash).ok = FALSE /\ execute_tool(tool, caller, hash).executed = FALSE
<1>1. ASSUME NEW at \in {"gate", "mcp", "record"}, NEW why \in Whys,
             at = "gate" => tool \in tool_descriptors /\ (caller = "model" => hash = "current"),
             at = "mcp" => tool \in DOMAIN McpIds,
             NEW e, e = Execution(tool, caller, hash, at, why)
      PROVE  e \in Executions(K) /\ Checked(e) /\ e.ok = FALSE /\ e.executed = FALSE
  <2>1. /\ e \in Executions(K) /\ e.at = at /\ e.ok = FALSE /\ e.executed = FALSE
        /\ e.tool = tool /\ e.caller = caller /\ e.hash = hash
    BY <1>1 DEF Execution, Executions
  <2> QED BY <1>1, <2>1 DEF Checked
<1>2. {"", "tool_not_found", "descriptor"} \subseteq Whys
  BY DEF Whys
<1>3. CASE tool \in DOMAIN McpIds
  BY <1>1, <1>2, <1>3 DEF execute_tool
<1>4. CASE tool \notin tool_descriptors \cup DOMAIN McpIds
  BY <1>1, <1>2, <1>4 DEF execute_tool
<1>5. CASE tool \in tool_descriptors \ DOMAIN McpIds /\ caller = "model" /\ hash # "current"
  BY <1>1, <1>2, <1>5 DEF execute_tool
<1>6. CASE tool \in tool_descriptors \ DOMAIN McpIds /\ ~(caller = "model" /\ hash # "current")
  BY <1>1, <1>2, <1>6 DEF execute_tool
<1> QED BY <1>3, <1>4, <1>5, <1>6

\* A row of the execution kinds is not the empty one.
LEMMA ChatExecKinds ==
    ASSUME NEW K, NEW e \in Executions(K)
    PROVE  e # NoExecution /\ NoExecution.at = "none" /\ e.at \in {"gate", "run", "mcp", "record"}
BY DEF Executions, NoExecution

\* A turn with other fields is a turn.
LEMMA ChatTurn ==
    ASSUME NEW K, NEW t \in Turns(K)
    PROVE  /\ t.at \in {"idle", "api", "preflight", "prompt", "provider", "tool"} /\ t.wants \in BOOLEAN
           /\ t.rounds \in 0 .. MAX_TOOL_ITERATIONS /\ t.traces \in SUBSET Traces(K)
           /\ t.exec \in {NoExecution} \cup Executions(K)
           /\ t = [at |-> t.at, wants |-> t.wants, rounds |-> t.rounds, traces |-> t.traces, exec |-> t.exec]
BY DEF Turns

LEMMA ChatInitial == ASSUME NEW K PROVE ChatInit => ChatInv(K)
<1> SUFFICES ASSUME ChatInit PROVE ChatInv(K)
  OBVIOUS
<1>1. turn = [at |-> "idle", wants |-> FALSE, rounds |-> 0, traces |-> {}, exec |-> NoExecution] /\ ran = {}
  BY DEF ChatInit, Turn
<1>2. turn \in Turns(K)
  BY <1>1 DEF Turns, MAX_TOOL_ITERATIONS
<1>3. IsFiniteSet(ran) /\ Cardinality(ran) = 0
  BY <1>1, FS_EmptySet
<1>4. AnswerBacked
  BY DEF ChatInit, NoAnswer, AnswerBacked
<1>5. Allowance = MAX_TOOL_ITERATIONS + 1
  BY <1>1 DEF Allowance
<1> QED BY <1>1, <1>2, <1>3, <1>4, <1>5 DEF ChatInv, MAX_TOOL_ITERATIONS

\* A turn begins with nothing run and no answer.
LEMMA ChatBegins ==
    ASSUME NEW K, NEW t \in Turns(K), ChatInv(K), Begin(t), t.rounds = 0, t.traces = {},
           \/ t.at = "prompt" /\ t.exec = NoExecution
           \/ /\ t.at \in {"api", "preflight"} /\ t.exec \in Executions(K)
              /\ Checked(t.exec) /\ t.exec.ok = FALSE /\ t.exec.executed = FALSE
    PROVE  ChatInv(K)'
<1>1. turn' = t /\ ran' = {} /\ answer'.status = "none"
  BY DEF Begin, NoAnswer
<1>2. IsFiniteSet(ran') /\ Cardinality(ran') = 0
  BY <1>1, FS_EmptySet
<1>3. AnswerBacked'
  BY <1>1 DEF AnswerBacked
<1>4. Allowance' \in Nat /\ Cardinality(ran') <= Allowance'
  BY <1>1, <1>2 DEF Allowance
<1>5. t.exec # NoExecution => Checked(t.exec) /\ Backed(t.exec)'
  BY DEF Backed
<1>6. t.exec # NoExecution <=> t.at \in {"api", "preflight", "tool"}
  BY ChatExecKinds
<1>7. (turn.exec # NoExecution => Checked(turn.exec) /\ Backed(turn.exec))'
  BY <1>1, <1>5 DEF Backed
<1> QED BY <1>1, <1>2, <1>3, <1>4, <1>6, <1>7 DEF ChatInv

\* While nothing new runs, what was backed stays backed.
LEMMA ChatKept ==
    ASSUME NEW K, ChatInv(K), UNCHANGED ran
    PROVE  /\ \A t : Backed(t)' <=> Backed(t)
           /\ \A r \in ran' : GatedRow(r)
           /\ UNCHANGED answer => AnswerBacked'
BY DEF ChatInv, Backed, AnswerBacked

\* A step of the execution in hand that runs nothing.
LEMMA ChatGoesOn ==
    ASSUME NEW K, ChatInv(K), UNCHANGED <<ran, answer>>, NEW e \in Executions(K),
           turn.exec # NoExecution, turn' = [turn EXCEPT !.exec = e],
           Checked(e), Backed(e), turn.exec.at # "record"
    PROVE  ChatInv(K)'
<1>1. turn \in Turns(K)
  BY DEF ChatInv
<1>2. /\ turn' \in Turns(K) /\ turn'.exec = e /\ turn'.at = turn.at
      /\ turn'.rounds = turn.rounds /\ turn'.traces = turn.traces
  BY <1>1 DEF Turns
<1>3. e # NoExecution
  BY ChatExecKinds
<1>4. turn.at \in {"api", "preflight", "tool"}
  BY DEF ChatInv
<1>5. turn.rounds \in Nat
  BY <1>1, ChatTurn DEF MAX_TOOL_ITERATIONS
<1>6. Cardinality(ran') <= Allowance' /\ IsFiniteSet(ran')
  <2>1. Cardinality(ran) \in Nat /\ IsFiniteSet(ran)
    BY FS_CardinalityType DEF ChatInv
  <2>2. Allowance \in Int /\ Allowance' \in Int /\ Allowance <= Allowance'
    BY <1>2, <1>4, <1>5 DEF Allowance
  <2>3. Cardinality(ran) <= Allowance
    BY DEF ChatInv
  <2> QED BY <2>1, <2>2, <2>3
<1>7. (turn.exec # NoExecution => Checked(turn.exec) /\ Backed(turn.exec))'
  BY <1>2, ChatKept
<1>8. \A t \in turn'.traces : Backed(t)'
  BY <1>2, ChatKept DEF ChatInv
<1> QED BY <1>2, <1>3, <1>4, <1>6, <1>7, <1>8, ChatKept DEF ChatInv

\* A step of the execution in hand that runs a tool: it has the row of its run.
LEMMA ChatRuns ==
    ASSUME NEW K, ChatInv(K), UNCHANGED answer, NEW e \in Executions(K), NEW row,
           turn.exec # NoExecution, turn' = [turn EXCEPT !.exec = e],
           turn.exec.at \in {"run", "mcp"}, e.at = "record", e.tool = turn.exec.tool,
           e.executed => e.tool = "shell.execute",
           ran' = ran \cup {row}, GatedRow(row), row.tool = e.tool, e.ok => row.ok
    PROVE  ChatInv(K)'
<1>1. turn \in Turns(K)
  BY DEF ChatInv
<1>2. /\ turn' \in Turns(K) /\ turn'.exec = e /\ turn'.at = turn.at
      /\ turn'.rounds = turn.rounds /\ turn'.traces = turn.traces
  BY <1>1 DEF Turns
<1>3. e # NoExecution
  BY ChatExecKinds
<1>4. turn.at \in {"api", "preflight", "tool"}
  BY DEF ChatInv
<1>5. turn.rounds \in Nat
  BY <1>1, ChatTurn DEF MAX_TOOL_ITERATIONS
<1>6. Cardinality(ran') <= Allowance' /\ IsFiniteSet(ran')
  <2>1. Cardinality(ran) \in Nat /\ IsFiniteSet(ran) /\ Cardinality(ran) <= Allowance
    BY FS_CardinalityType DEF ChatInv
  <2>2. Allowance \in Int /\ Allowance' = Allowance + 1
    BY <1>2, <1>4, <1>5 DEF Allowance
  <2>3. /\ IsFiniteSet(ran \cup {row})
        /\ Cardinality(ran \cup {row}) = IF row \in ran THEN Cardinality(ran) ELSE Cardinality(ran) + 1
    BY <2>1, FS_AddElement
  <2> QED BY <2>1, <2>2, <2>3
<1>7. (turn.exec # NoExecution => Checked(turn.exec) /\ Backed(turn.exec))'
  <2>1. Checked(e)
    BY DEF Checked
  <2>2. \E r \in ran' : e.ok => r.ok /\ r.tool = e.tool
    OBVIOUS
  <2> QED BY <1>2, <2>1, <2>2 DEF Backed
<1>8. \A t \in turn'.traces : Backed(t)'
  BY <1>2 DEF ChatInv, Backed
<1>9. AnswerBacked'
  BY DEF ChatInv, AnswerBacked
<1>10. \A r \in ran' : GatedRow(r)
  BY DEF ChatInv
<1> QED BY <1>2, <1>3, <1>4, <1>6, <1>7, <1>8, <1>9, <1>10 DEF ChatInv

\* What Finished makes of the execution in hand.
LEMMA ChatFinished ==
    ASSUME NEW K, ChatInv(K), turn.exec # NoExecution, NEW ok \in BOOLEAN, NEW executed \in BOOLEAN,
           NEW why \in Whys, Finished(ok, executed, why)
    PROVE  \E e \in Executions(K) :
               /\ turn' = [turn EXCEPT !.exec = e]
               /\ e.at = "record" /\ e.ok = ok /\ e.executed = executed /\ e.tool = turn.exec.tool
<1>1. turn \in Turns(K) /\ turn.exec \in Executions(K)
  BY ChatTurn DEF ChatInv
<1>2. PICK e : e = [turn.exec EXCEPT !.at = "record", !.ok = ok, !.executed = executed, !.why = why]
  OBVIOUS
<1>3. e \in Executions(K) /\ e.at = "record" /\ e.ok = ok /\ e.executed = executed /\ e.tool = turn.exec.tool
  BY <1>1, <1>2 DEF Executions
<1>4. turn' = [turn EXCEPT !.exec = e]
  BY <1>1, <1>2 DEF Finished, Turns
<1> QED BY <1>3, <1>4

\* There is an execution in hand.
LEMMA ChatInHand ==
    ASSUME NEW K, ChatInv(K), turn.exec.at # "none"
    PROVE  turn \in Turns(K) /\ turn.exec # NoExecution /\ turn.exec \in Executions(K)
<1>1. turn \in Turns(K) /\ NoExecution.at = "none"
  BY DEF ChatInv, NoExecution
<1> QED BY <1>1, ChatTurn

\* The gate, run_tool and dispatch_mcp_tool.
LEMMA ChatGate ==
    ASSUME NEW K, ChatInv(K), NEW allowed \in BOOLEAN, CheckGate(allowed)
    PROVE  ChatInv(K)'
<1>1. turn \in Turns(K) /\ turn.exec # NoExecution /\ turn.exec \in Executions(K) /\ turn.exec.at = "gate"
  <2>1. turn.exec.at = "gate"
    BY DEF CheckGate
  <2> QED BY <2>1, ChatInHand
<1>2. /\ Checked(turn.exec) /\ Backed(turn.exec) /\ UNCHANGED <<ran, answer>>
  BY <1>1 DEF ChatInv, CheckGate
<1>3. CASE allowed
  <2>1. PICK e : e = [turn.exec EXCEPT !.at = "run", !.gate = TRUE]
    OBVIOUS
  <2>2. /\ e \in Executions(K) /\ e.at = "run" /\ e.gate = TRUE /\ e.tool = turn.exec.tool
        /\ e.caller = turn.exec.caller /\ e.hash = turn.exec.hash
        /\ e.ok = turn.exec.ok /\ e.executed = turn.exec.executed
    BY <1>1, <2>1 DEF Executions
  <2>3. turn' = [turn EXCEPT !.exec = e]
    BY <1>1, <1>3, <2>1 DEF CheckGate, Turns
  <2>4. Checked(e) /\ Backed(e)
    BY <1>1, <1>2, <2>2 DEF Checked, Backed
  <2> QED BY <1>1, <1>2, <2>2, <2>3, <2>4, ChatGoesOn
<1>4. CASE ~allowed
  <2>1. Finished(FALSE, FALSE, "denied") /\ "denied" \in Whys
    BY <1>4 DEF CheckGate, Whys
  <2>2. PICK e \in Executions(K) :
             /\ turn' = [turn EXCEPT !.exec = e]
             /\ e.at = "record" /\ e.ok = FALSE /\ e.executed = FALSE /\ e.tool = turn.exec.tool
    BY <1>1, <2>1, ChatFinished
  <2>3. Checked(e) /\ Backed(e)
    BY <2>2 DEF Checked, Backed
  <2> QED BY <1>1, <1>2, <2>2, <2>3, ChatGoesOn
<1> QED BY <1>3, <1>4

LEMMA ChatRunTool ==
    ASSUME NEW K, ChatInv(K), NEW ok \in BOOLEAN, run_tool(ok)
    PROVE  ChatInv(K)'
<1> DEFINE tool == turn.exec.tool
<1>1. turn \in Turns(K) /\ turn.exec # NoExecution /\ turn.exec \in Executions(K) /\ turn.exec.at = "run"
  <2>1. turn.exec.at = "run"
    BY DEF run_tool
  <2> QED BY <2>1, ChatInHand
<1>2. /\ Checked(turn.exec) /\ UNCHANGED answer
      /\ ok => Handled(tool)
  BY <1>1 DEF ChatInv, run_tool
<1>3. PICK executed \in BOOLEAN : executed = (tool = "shell.execute" /\ ok)
  OBVIOUS
<1>4. PICK why \in Whys : Finished(ok, executed, why)
  <2> DEFINE w == CASE ~Handled(tool) -> "tool_not_implemented" [] Refused(tool) -> "refused" [] ok -> "" [] OTHER -> "failed"
  <2>1. Finished(ok, executed, w)
    BY <1>3 DEF run_tool
  <2>2. w \in Whys
    BY DEF Whys
  <2> QED BY <2>1, <2>2
<1>5. PICK e \in Executions(K) :
           /\ turn' = [turn EXCEPT !.exec = e]
           /\ e.at = "record" /\ e.ok = ok /\ e.executed = executed /\ e.tool = tool
  BY <1>1, <1>4, ChatFinished
<1>6. e.executed => e.tool = "shell.execute"
  BY <1>3, <1>5
<1>7. CASE Handled(tool) /\ tool # "shell.propose"
  <2>1. PICK row : row = [tool |-> turn.exec.tool, caller |-> turn.exec.caller, hash |-> turn.exec.hash,
                          gate |-> turn.exec.gate, ok |-> ok, server |-> "none",
                          disabled |-> Disabled("none"), undisturbed |-> "none" \in down]
    OBVIOUS
  <2>2. ran' = ran \cup {row}
    BY <1>7, <2>1 DEF run_tool, Ran
  <2>3. row.tool = tool /\ row.ok = ok
    BY <2>1
  <2>4. GatedRow(row)
    BY <1>1, <1>2, <2>1 DEF GatedRow, PassedChecks, Checked
  <2> QED BY <1>1, <1>2, <1>5, <1>6, <2>2, <2>3, <2>4, ChatRuns
<1>8. CASE ~(Handled(tool) /\ tool # "shell.propose")
  <2>1. UNCHANGED ran
    BY <1>8 DEF run_tool
  <2>2. Checked(e) /\ Backed(e)
    BY <1>2, <1>5, <1>6, <1>8 DEF Checked, Backed
  <2> QED BY <1>1, <1>2, <1>5, <2>1, <2>2, ChatGoesOn
<1> QED BY <1>7, <1>8

\* The server of an MCP tool that runs has an entry, so that it is not down.
LEMMA ChatDispatch ==
    ASSUME NEW K, ChatInv(K), McpInv, dispatch_mcp_tool
    PROVE  ChatInv(K)'
<1> DEFINE target == McpIds[turn.exec.tool]
           s == target[1]
<1>1. turn \in Turns(K) /\ turn.exec # NoExecution /\ turn.exec \in Executions(K) /\ turn.exec.at = "mcp"
  <2>1. turn.exec.at = "mcp"
    BY DEF dispatch_mcp_tool
  <2> QED BY <2>1, ChatInHand
<1>2. UNCHANGED answer /\ {"", "failed", "not_connected"} \subseteq Whys
  BY DEF dispatch_mcp_tool, Whys
<1>3. ASSUME NEW ok \in BOOLEAN, NEW why \in Whys, Finished(ok, FALSE, why), Ran(ok, s), Callable(s, target[2])
      PROVE  ChatInv(K)'
  <2>1. PICK e \in Executions(K) :
             /\ turn' = [turn EXCEPT !.exec = e]
             /\ e.at = "record" /\ e.ok = ok /\ e.executed = FALSE /\ e.tool = turn.exec.tool
    BY <1>1, <1>3, ChatFinished
  <2>2. s \in DOMAIN runtime
    BY <1>3 DEF Callable
  <2>3. s \notin down /\ turn.exec.tool \in DOMAIN McpIds
    BY <1>1, <2>2 DEF McpInv, McpType, DownInv, ChatInv, Checked
  <2>4. PICK row : row = [tool |-> turn.exec.tool, caller |-> turn.exec.caller, hash |-> turn.exec.hash,
                          gate |-> turn.exec.gate, ok |-> ok, server |-> s,
                          disabled |-> Disabled(s), undisturbed |-> s \in down]
    OBVIOUS
  <2>5. ran' = ran \cup {row}
    BY <1>3, <2>4 DEF Ran
  <2>6. row.tool = turn.exec.tool /\ row.ok = ok /\ row.server = s /\ row.undisturbed = (s \in down)
    BY <2>4
  <2>7. GatedRow(row)
    BY <2>3, <2>6 DEF GatedRow
  <2> QED BY <1>1, <1>2, <2>1, <2>5, <2>6, <2>7, ChatRuns
<1>4. CASE Callable(s, target[2])
  BY <1>2, <1>3, <1>4 DEF dispatch_mcp_tool
<1>5. CASE ~Callable(s, target[2])
  <2>1. Finished(FALSE, FALSE, "not_connected") /\ UNCHANGED ran
    BY <1>5 DEF dispatch_mcp_tool
  <2>2. PICK e \in Executions(K) :
             /\ turn' = [turn EXCEPT !.exec = e]
             /\ e.at = "record" /\ e.ok = FALSE /\ e.executed = FALSE /\ e.tool = turn.exec.tool
    BY <1>1, <1>2, <2>1, ChatFinished
  <2>3. Checked(e) /\ Backed(e)
    BY <2>2 DEF Checked, Backed
  <2> QED BY <1>1, <1>2, <2>1, <2>2, <2>3, ChatGoesOn
<1> QED BY <1>4, <1>5

\* A turn ends, with an answer that is refused, claims nothing or is backed.
LEMMA ChatEnds ==
    ASSUME NEW K, ChatInv(K), UNCHANGED ran, NEW status, NEW claims, Answered(status, claims),
           turn.at # "idle",
           \/ status # "ok"
           \/ claims = {}
           \/ answer_gate(claims)
    PROVE  ChatInv(K)'
<1>1. turn \in Turns(K)
  BY DEF ChatInv
<1>2. turn' = [turn EXCEPT !.at = "idle", !.exec = NoExecution] /\ answer' = [status |-> status, claims |-> claims]
  BY DEF Answered
<1>3. turn' \in Turns(K) /\ turn'.exec = NoExecution /\ turn'.at = "idle" /\ turn'.traces = turn.traces
  BY <1>1, <1>2 DEF Turns
<1>4. Cardinality(ran) <= MAX_TOOL_ITERATIONS + 1
  <2>1. Cardinality(ran) \in Nat /\ Cardinality(ran) <= Allowance
    BY FS_CardinalityType DEF ChatInv
  <2>2. turn.rounds \in 0 .. 3 /\ turn.at \in {"idle", "api", "preflight", "prompt", "provider", "tool"}
    BY <1>1, ChatTurn DEF MAX_TOOL_ITERATIONS
  <2>3. turn.at = "tool" => turn.rounds < 3
    BY DEF ChatInv, MAX_TOOL_ITERATIONS
  <2>4. Allowance \in Int /\ Allowance <= 4
    BY <2>2, <2>3 DEF Allowance
  <2> QED BY <2>1, <2>4 DEF MAX_TOOL_ITERATIONS
<1>5. Allowance' = MAX_TOOL_ITERATIONS + 1
  BY <1>3 DEF Allowance
<1>6. AnswerBacked'
  <2>1. answer'.status = status /\ answer'.claims = claims
    BY <1>2
  <2>2. CASE status # "ok" \/ claims = {}
    BY <2>1, <2>2 DEF AnswerBacked
  <2>3. CASE answer_gate(claims)
    <3> DEFINE Did(tools) == \E r \in ran : r.ok /\ r.tool \in tools
    <3>1. ASSUME NEW tools, "shell.propose" \notin tools, has_any_successful_trace(tools) PROVE Did(tools)
      BY <3>1 DEF has_any_successful_trace, ChatInv, Backed
    <3>2. "shell.propose" \notin Recall /\ "shell.propose" \notin WebTools /\ "shell.propose" \notin FilesystemTools
      BY DEF Recall, WebTools, BrowserTools, FilesystemTools
    <3>3. has_successful_shell_execution_trace => Did({"shell.execute"})
      BY DEF has_successful_shell_execution_trace, ChatInv, Backed
    <3>4. /\ "recall" \in claims => Did(Recall)
          /\ "web" \in claims => Did(WebTools)
          /\ "search" \in claims => Did(WebTools \cup Recall)
          /\ "file" \in claims => Did(FilesystemTools)
          /\ "shell" \in claims => Did({"shell.execute"})
      <4>1. "shell.propose" \notin WebTools \cup Recall
        BY <3>2
      <4> HIDE DEF Did
      <4> QED BY <2>3, <3>1, <3>2, <3>3, <4>1 DEF answer_gate
    <3> QED BY <2>1, <3>4 DEF AnswerBacked
  <2> QED BY <2>2, <2>3
<1>7. \A t \in turn'.traces : Backed(t)'
  BY <1>3, ChatKept DEF ChatInv
<1>8. IsFiniteSet(ran')
  BY DEF ChatInv
<1> QED BY <1>3, <1>4, <1>5, <1>6, <1>7, <1>8, ChatKept DEF ChatInv

\* The execution has returned: its trace is as backed as it is.
LEMMA ChatTraces ==
    ASSUME NEW K, ChatInv(K), UNCHANGED <<ran, answer>>, turn.exec.at = "record",
           \/ turn.at = "preflight" /\ Traced("prompt")
           \/ turn.at = "tool" /\ Traced("provider")
    PROVE  ChatInv(K)'
<1>1. turn \in Turns(K) /\ turn.exec # NoExecution /\ turn.exec \in Executions(K)
  BY ChatInHand
<1>2. PICK t : t = trace_summary
  OBVIOUS
<1>3. t \in Traces(K) /\ t.tool = turn.exec.tool /\ t.ok = turn.exec.ok /\ t.executed = turn.exec.executed
  BY <1>1, <1>2 DEF trace_summary, Traces, Executions
<1>4. Backed(t)
  BY <1>1, <1>3 DEF ChatInv, Backed
<1>5. PICK at \in {"prompt", "provider"}, rounds \in 0 .. MAX_TOOL_ITERATIONS :
          /\ turn' = [turn EXCEPT !.at = at, !.exec = NoExecution, !.traces = turn.traces \cup {t}, !.rounds = rounds]
          /\ turn.at = "preflight" => rounds = turn.rounds
          /\ turn.at = "tool" => rounds = turn.rounds + 1
  <2>1. turn.rounds \in 0 .. 3 /\ (turn.at = "tool" => turn.rounds < 3) /\ MAX_TOOL_ITERATIONS = 3
    BY <1>1, ChatTurn DEF ChatInv, MAX_TOOL_ITERATIONS
  <2>2. CASE turn.at = "preflight" /\ Traced("prompt")
    <3>1. turn' = [turn EXCEPT !.at = "prompt", !.exec = NoExecution, !.traces = turn.traces \cup {t}, !.rounds = turn.rounds]
      BY <1>1, <1>2, <2>2 DEF Traced, Turns
    <3>2. PICK n \in 0 .. MAX_TOOL_ITERATIONS : n = turn.rounds
      BY <2>1
    <3> QED BY <2>2, <3>1, <3>2
  <2>3. CASE turn.at = "tool" /\ Traced("provider")
    <3>1. turn' = [turn EXCEPT !.at = "provider", !.exec = NoExecution, !.traces = turn.traces \cup {t}, !.rounds = turn.rounds + 1]
      BY <1>1, <1>2, <2>3 DEF Traced, Turns
    <3>2. PICK n \in 0 .. MAX_TOOL_ITERATIONS : n = turn.rounds + 1
      BY <2>1, <2>3
    <3> QED BY <2>3, <3>1, <3>2
  <2> QED BY <2>2, <2>3
<1>6. turn.traces \in SUBSET Traces(K) /\ turn.wants \in BOOLEAN /\ turn.rounds \in 0 .. MAX_TOOL_ITERATIONS
  BY <1>1, ChatTurn
<1>7. /\ turn' \in Turns(K) /\ turn'.exec = NoExecution /\ turn'.at = at
      /\ turn'.traces = turn.traces \cup {t} /\ turn'.rounds = rounds
  <2>1. turn.traces \cup {t} \in SUBSET Traces(K)
    BY <1>3, <1>6
  <2>2. PICK ts : ts = turn.traces \cup {t}
    OBVIOUS
  <2> QED BY <1>1, <1>5, <2>1, <2>2 DEF Turns
<1>8. Cardinality(ran') <= Allowance' /\ IsFiniteSet(ran')
  <2>1. Cardinality(ran) \in Nat /\ Cardinality(ran) <= Allowance /\ IsFiniteSet(ran)
    BY FS_CardinalityType DEF ChatInv
  <2>2. turn.rounds \in Nat /\ rounds \in Nat
    BY <1>5, <1>6 DEF MAX_TOOL_ITERATIONS
  <2>3. Allowance' = rounds + 1
    BY <1>7 DEF Allowance
  <2>4. turn.at = "preflight" => Allowance = 1
    BY DEF Allowance
  <2>5. turn.at = "tool" => Allowance = turn.rounds + 2
    BY <2>2 DEF Allowance
  <2> QED BY <1>5, <2>1, <2>2, <2>3, <2>4, <2>5
<1>9. \A u \in turn'.traces : Backed(u)'
  BY <1>4, <1>7, ChatKept DEF ChatInv
<1> QED BY <1>7, <1>8, <1>9, ChatKept DEF ChatInv

\* Steps of a turn in which the turn moves without an execution.
LEMMA ChatStepIn ==
    ASSUME NEW K, ChatInv(K), UNCHANGED <<ran, answer>>, turn.at = "prompt", turn' = [turn EXCEPT !.at = "provider"]
    PROVE  ChatInv(K)'
<1>1. turn \in Turns(K)
  BY DEF ChatInv
<1>2. /\ turn' \in Turns(K) /\ turn'.exec = turn.exec /\ turn'.at = "provider"
      /\ turn'.traces = turn.traces /\ turn'.rounds = turn.rounds
  BY <1>1 DEF Turns
<1>3. Allowance' = Allowance
  BY <1>2 DEF Allowance
<1>4. turn.exec = NoExecution
  BY DEF ChatInv
<1>5. \A u \in turn'.traces : Backed(u)'
  BY <1>2, ChatKept DEF ChatInv
<1> QED BY <1>2, <1>3, <1>4, <1>5, ChatKept DEF ChatInv

\* The model asks for a tool, within the limit.
LEMMA ChatAsks ==
    ASSUME NEW K, ChatInv(K), UNCHANGED <<ran, answer>>, turn.at = "provider",
           turn.rounds < MAX_TOOL_ITERATIONS, NEW e \in Executions(K),
           Checked(e), e.ok = FALSE, e.executed = FALSE,
           turn' = [turn EXCEPT !.at = "tool", !.exec = e]
    PROVE  ChatInv(K)'
<1>1. turn \in Turns(K) /\ e # NoExecution
  BY ChatExecKinds DEF ChatInv
<1>2. /\ turn' \in Turns(K) /\ turn'.exec = e /\ turn'.at = "tool"
      /\ turn'.traces = turn.traces /\ turn'.rounds = turn.rounds
  BY <1>1 DEF Turns
<1>3. turn.rounds \in Nat
  BY <1>1, ChatTurn DEF MAX_TOOL_ITERATIONS
<1>4. Cardinality(ran') <= Allowance' /\ IsFiniteSet(ran')
  <2>1. Cardinality(ran) \in Nat /\ Cardinality(ran) <= Allowance /\ IsFiniteSet(ran)
    BY FS_CardinalityType DEF ChatInv
  <2>2. Allowance = turn.rounds + 1 /\ Allowance' >= turn.rounds + 1 /\ Allowance' \in Int
    BY <1>2, <1>3 DEF Allowance
  <2> QED BY <1>3, <2>1, <2>2
<1>5. (turn.exec # NoExecution => Checked(turn.exec) /\ Backed(turn.exec))'
  BY <1>2 DEF Backed
<1>6. \A u \in turn'.traces : Backed(u)'
  BY <1>2, ChatKept DEF ChatInv
<1> QED BY <1>1, <1>2, <1>4, <1>5, <1>6, ChatKept DEF ChatInv

LEMMA ChatStep ==
    ASSUME NEW tools, NEW contents, ChatInv(Known(tools)), McpInv,
           [ChatNext(tools, contents) \/ ApiNext(tools) \/ McpSteps]_chatVars
    PROVE  ChatInv(Known(tools))'
<1> DEFINE K == Known(tools)
<1>1. tools \subseteq K /\ "brain.memory.recall" \in K
  BY DEF Known, Recall
<1> HIDE DEF K
<1>2. ChatInv(K)
  BY DEF K
<1>3. SUFFICES ChatInv(K)'
  BY DEF K
<1>4. ASSUME NEW at \in {"api", "preflight"}, NEW wants \in BOOLEAN, NEW e \in Executions(K),
             Checked(e), e.ok = FALSE, e.executed = FALSE,
             Begin(Turn(at, wants, e))
      PROVE  ChatInv(K)'
  <2>1. PICK t : t = Turn(at, wants, e)
    OBVIOUS
  <2>2. t \in Turns(K) /\ t.at = at /\ t.exec = e /\ t.rounds = 0 /\ t.traces = {}
    BY <2>1 DEF Turn, Turns, MAX_TOOL_ITERATIONS
  <2> QED BY <1>2, <1>4, <2>1, <2>2, ChatBegins
<1>5. ASSUME NEW tool \in tools, call_tool(tool) PROVE ChatInv(K)'
  <2>1. PICK e \in Executions(K) : /\ e = execute_tool(tool, "api", "none")
                                   /\ Checked(e) /\ e.ok = FALSE /\ e.executed = FALSE
    BY <1>1, ChatExecutes
  <2>2. Begin(Turn("api", FALSE, e))
    BY <1>5, <2>1 DEF call_tool
  <2> QED BY <1>4, <2>1, <2>2
<1>6. ASSUME NEW wants \in BOOLEAN, ChatStart(wants) PROVE ChatInv(K)'
  <2>1. CASE wants
    <3>1. PICK e \in Executions(K) : /\ e = execute_tool("brain.memory.recall", "orchestrator", "none")
                                     /\ Checked(e) /\ e.ok = FALSE /\ e.executed = FALSE
      BY <1>1, ChatExecutes
    <3>2. Begin(Turn("preflight", TRUE, e))
      BY <1>6, <2>1, <3>1 DEF ChatStart, recall_preflight
    <3> QED BY <1>4, <3>1, <3>2
  <2>2. CASE ~wants
    <3>1. PICK t : t = Turn("prompt", FALSE, NoExecution)
      OBVIOUS
    <3>2. t \in Turns(K) /\ t.at = "prompt" /\ t.exec = NoExecution /\ t.rounds = 0 /\ t.traces = {}
      BY <3>1 DEF Turn, Turns, MAX_TOOL_ITERATIONS
    <3>3. Begin(t)
      BY <1>6, <2>2, <3>1 DEF ChatStart, recall_preflight
    <3> QED BY <1>2, <3>2, <3>3, ChatBegins
  <2> QED BY <2>1, <2>2
<1>7. CASE ToolReturns
  <2>1. turn.exec.at = "record" /\ UNCHANGED ran
    BY <1>7 DEF ToolReturns
  <2>2. turn.at \in {"api", "preflight", "tool"}
    BY <1>2, <2>1, ChatInHand DEF ChatInv
  <2>3. CASE turn.at = "api"
    <3>1. PICK status : Answered(status, {})
      BY <1>7, <2>3 DEF ToolReturns
    <3> QED BY <1>2, <2>1, <2>2, <3>1, ChatEnds
  <2>4. CASE turn.at = "preflight"
    <3>1. Traced("prompt") /\ UNCHANGED answer
      BY <1>7, <2>4 DEF ToolReturns
    <3> QED BY <1>2, <2>1, <2>4, <3>1, ChatTraces
  <2>5. CASE turn.at = "tool" /\ turn.exec.why = "descriptor"
    <3>1. Answered("descriptor", {})
      BY <1>7, <2>5 DEF ToolReturns
    <3> QED BY <1>2, <2>1, <2>2, <3>1, ChatEnds
  <2>6. CASE turn.at = "tool" /\ turn.exec.why # "descriptor"
    <3>1. Traced("provider") /\ UNCHANGED answer
      BY <1>7, <2>6 DEF ToolReturns
    <3> QED BY <1>2, <2>1, <2>6, <3>1, ChatTraces
  <2> QED BY <2>2, <2>3, <2>4, <2>5, <2>6
<1>8. CASE Prompt
  BY <1>2, <1>8, ChatStepIn DEF Prompt
<1>9. CASE ProviderFails
  BY <1>2, <1>9, ChatEnds DEF ProviderFails
<1>10. ASSUME NEW tool \in tools, NEW hash \in {"current", "other"}, ProviderCalls(tool, hash) PROVE ChatInv(K)'
  <2>1. CASE turn.rounds < MAX_TOOL_ITERATIONS
    <3>1. PICK e \in Executions(K) : /\ e = execute_tool(tool, "model", hash)
                                     /\ Checked(e) /\ e.ok = FALSE /\ e.executed = FALSE
      BY <1>1, ChatExecutes
    <3>2. /\ turn.at = "provider" /\ turn' = [turn EXCEPT !.at = "tool", !.exec = e]
          /\ UNCHANGED <<ran, answer>>
      BY <1>10, <2>1, <3>1 DEF ProviderCalls
    <3> QED BY <1>2, <2>1, <3>1, <3>2, ChatAsks
  <2>2. CASE ~(turn.rounds < MAX_TOOL_ITERATIONS)
    <3>1. turn.at = "provider" /\ Answered("limit", {}) /\ UNCHANGED ran
      BY <1>10, <2>2 DEF ProviderCalls
    <3> QED BY <1>2, <3>1, ChatEnds
  <2> QED BY <2>1, <2>2
<1>11. ASSUME NEW claims, ProviderAnswers(claims) PROVE ChatInv(K)'
  <2>1. turn.at = "provider" /\ UNCHANGED ran
    BY <1>11 DEF ProviderAnswers
  <2>2. CASE answer_gate(claims)
    <3>1. Answered("ok", claims)
      BY <1>11, <2>2 DEF ProviderAnswers
    <3> QED BY <1>2, <2>1, <2>2, <3>1, ChatEnds
  <2>3. CASE ~answer_gate(claims)
    <3>1. Answered("answer_gate_rejected", claims)
      BY <1>11, <2>3 DEF ProviderAnswers
    <3> QED BY <1>2, <2>1, <3>1, ChatEnds
  <2> QED BY <2>2, <2>3
<1>12. CASE UNCHANGED <<turn, ran, answer>>
  BY <1>2, <1>12 DEF ChatInv, Backed, Allowance, AnswerBacked
<1>13. CASE dispatch_mcp_tool
  BY <1>2, <1>13, ChatDispatch
<1>14. ASSUME NEW allowed \in BOOLEAN, CheckGate(allowed) PROVE ChatInv(K)'
  BY <1>2, <1>14, ChatGate
<1>15. ASSUME NEW ok \in BOOLEAN, run_tool(ok) PROVE ChatInv(K)'
  BY <1>2, <1>15, ChatRunTool
<1>16. CASE McpSteps \/ UNCHANGED chatVars
  BY <1>12, <1>16 DEF McpSteps, chatVars
<1>17. CASE ApiNext(tools)
  BY <1>5, <1>17 DEF ApiNext
<1>18. CASE ChatNext(tools, contents)
  BY <1>6, <1>7, <1>8, <1>9, <1>10, <1>11, <1>13, <1>14, <1>15, <1>18 DEF ChatNext
<1> QED BY <1>16, <1>17, <1>18

\* A step of the chat is a step of the MCP runtime or leaves it alone.
LEMMA ChatMcpStep ==
    ASSUME NEW tools, NEW contents, McpInv,
           [ChatNext(tools, contents) \/ ApiNext(tools) \/ McpSteps]_chatVars
    PROVE  McpInv'
<1>1. CASE McpSteps
  BY <1>1, McpStep DEF McpSteps
<1>2. CASE dispatch_mcp_tool
  <2> DEFINE s == McpIds[turn.exec.tool][1]
  <2>1. UNCHANGED <<configs, mcpCalls, started, down>>
    BY <1>2 DEF dispatch_mcp_tool
  <2>2. UNCHANGED <<runtime, alive>> \/ (s \in DOMAIN runtime /\ CallBreaks(s))
    BY <1>2 DEF dispatch_mcp_tool, Callable
  <2> HIDE DEF s
  <2>3. CASE UNCHANGED <<runtime, alive>>
    BY <2>1, <2>3, McpStutters DEF mcpVars
  <2>4. CASE s \in DOMAIN runtime /\ CallBreaks(s)
    <3>1. PICK t \in DOMAIN runtime : t = s
      BY <2>4
    <3> QED BY <2>1, <2>4, <3>1, McpBreaks
  <2> QED BY <2>2, <2>3, <2>4
<1>3. CASE Prompt
  BY <1>3, McpReconciles DEF Prompt
<1>4. CASE UNCHANGED mcpVars
  BY <1>4, McpStutters
<1>5. ASSUME NEW wants, ChatStart(wants) PROVE UNCHANGED mcpVars
  BY <1>5 DEF ChatStart, Begin
<1>6. ASSUME NEW tool, call_tool(tool) PROVE UNCHANGED mcpVars
  BY <1>6 DEF call_tool, Begin
<1>7. ASSUME NEW allowed, CheckGate(allowed) PROVE UNCHANGED mcpVars
  BY <1>7 DEF CheckGate
<1>8. ASSUME NEW ok, run_tool(ok) PROVE UNCHANGED mcpVars
  BY <1>8 DEF run_tool
<1>9. ASSUME ToolReturns \/ ProviderFails PROVE UNCHANGED mcpVars
  BY <1>9 DEF ToolReturns, ProviderFails
<1>10. ASSUME NEW tool, NEW hash, ProviderCalls(tool, hash) PROVE UNCHANGED mcpVars
  BY <1>10 DEF ProviderCalls
<1>11. ASSUME NEW claims, ProviderAnswers(claims) PROVE UNCHANGED mcpVars
  BY <1>11 DEF ProviderAnswers
<1>12. CASE UNCHANGED chatVars
  BY <1>4, <1>12 DEF chatVars
<1>13. CASE ApiNext(tools)
  BY <1>4, <1>6, <1>13 DEF ApiNext
<1>14. CASE ChatNext(tools, contents)
  BY <1>2, <1>3, <1>4, <1>5, <1>7, <1>8, <1>9, <1>10, <1>11, <1>14 DEF ChatNext
<1> QED BY <1>1, <1>12, <1>13, <1>14

\* Whatever tools the model asks for and whatever it says, with servers that come and go: a
\* tool that does not run described, gated and under the descriptor as it is belongs to an MCP
\* server, and not to one whose disabling is done and was overlapped by no other request; and
\* no turn runs more than MAX_TOOL_ITERATIONS tools and a recall.
THEOREM RunsStayGated ==
    ASSUME NEW CONSTANT tools, NEW CONSTANT contents
    PROVE  ChatSpec(tools, contents) => []RunAsGated
<1> DEFINE Inv == McpInv /\ ChatInv(Known(tools))
<1>1. ChatInit => Inv
  BY McpInitial, ChatInitial DEF ChatInit
<1>2. Inv /\ [ChatNext(tools, contents) \/ ApiNext(tools) \/ McpSteps]_chatVars => Inv'
  BY ChatStep, ChatMcpStep
<1>3. Inv => RunAsGated
  <2> SUFFICES ASSUME Inv PROVE RunAsGated
    OBVIOUS
  <2>1. \A r \in ran : GatedRow(r)
    BY DEF ChatInv
  <2>2. Cardinality(ran) <= MAX_TOOL_ITERATIONS + 1
    <3>1. Cardinality(ran) \in Nat /\ Cardinality(ran) <= Allowance /\ turn \in Turns(Known(tools))
      BY FS_CardinalityType DEF ChatInv
    <3>2. turn.rounds \in 0 .. 3 /\ turn.at \in {"idle", "api", "preflight", "prompt", "provider", "tool"}
      BY <3>1, ChatTurn DEF MAX_TOOL_ITERATIONS
    <3>3. turn.at = "tool" => turn.rounds < 3
      BY DEF ChatInv, MAX_TOOL_ITERATIONS
    <3>4. Allowance \in Int /\ Allowance <= 4
      BY <3>2, <3>3 DEF Allowance, MAX_TOOL_ITERATIONS
    <3> QED BY <3>1, <3>4 DEF MAX_TOOL_ITERATIONS
  <2> QED BY <2>1, <2>2 DEF RunAsGated, GatedRow
<1> HIDE DEF Inv
<1> QED BY <1>1, <1>2, <1>3, PTL DEF ChatSpec

\* An answer that is let through claims nothing that did not happen in its turn, and no
\* command that was only proposed.
THEOREM AnswersStayBacked ==
    ASSUME NEW CONSTANT tools, NEW CONSTANT contents
    PROVE  ChatSpec(tools, contents) => []AnswerBacked
<1> DEFINE Inv == McpInv /\ ChatInv(Known(tools))
<1>1. ChatInit => Inv
  BY McpInitial, ChatInitial DEF ChatInit
<1>2. Inv /\ [ChatNext(tools, contents) \/ ApiNext(tools) \/ McpSteps]_chatVars => Inv'
  BY ChatStep, ChatMcpStep
<1>3. Inv => AnswerBacked
  BY DEF ChatInv
<1> HIDE DEF Inv
<1> QED BY <1>1, <1>2, <1>3, PTL DEF ChatSpec
=============================================================================

------------------------------ MODULE Envelope ------------------------------
(***************************************************************************)
(* EnvelopeVerifier (hom-shared/envelope.rs): the check every signed       *)
(* request passes before hom-brain looks at it, and the table of nonces    *)
(* that makes a request good for one use.                                  *)
(*                                                                         *)
(* Times are seconds of the wall clock, which an operator or NTP may set   *)
(* back; the model lets it fall at most MaxBack seconds behind the highest *)
(* value it has shown.  The table is in memory: a restart empties it, and  *)
(* what is stated here holds between two restarts.                         *)
(***************************************************************************)
EXTENDS Integers, FiniteSets

CONSTANTS
    Requests,   \* the requests clients send, over and over: records with
                \*   complete, client, pubOk, nonce, ts, scope, required, bodyOk,
                \*   sigOk (see RequestAssumption)
    Granted,    \* the known clients and the scopes granted to each
    Skew,       \* skew_seconds (30)
    Ttl,        \* nonce_ttl_seconds (60)
    MaxBack,    \* how far the wall clock may fall back
    MaxNow      \* bound: the last second of the wall clock

\* complete: no field of the envelope is empty; required: the scope its method
\* needs; pubOk: client_pub is the registered key; bodyOk: body_hash is the hash
\* of the body; sigOk: the signature is the client's over body, nonce and ts.
ASSUME RequestAssumption ==
    \A r \in Requests : /\ r.ts \in Int
                        /\ {r.complete, r.pubOk, r.bodyOk, r.sigOk} \subseteq BOOLEAN

ASSUME TimesAssumption ==
    /\ Skew \in Nat /\ Ttl \in Nat /\ MaxBack \in Nat /\ MaxNow \in Nat
    /\ Skew + MaxBack <= Ttl

VARIABLES
    now,       \* the wall clock
    high,      \* history variable: the highest value of now
    seen,      \* seen_nonces
    judged,    \* history variable: how often each key passed the nonce check
    accepted   \* history variable: how often each key was accepted

envVars == <<now, high, seen, judged, accepted>>

Key(r) == [client |-> r.client, nonce |-> r.nonce, ts |-> r.ts]

Keys == {Key(r) : r \in Requests}

Distance(a, b) == IF a >= b THEN a - b ELSE b - a

\* A history count of r's key goes up by one.
Counted(count, r) == [count EXCEPT ![Key(r)] = @ + 1]

EnvInit ==
    /\ now = 0 /\ high = 0
    /\ seen = {}
    /\ judged = [k \in Keys |-> 0]
    /\ accepted = [k \in Keys |-> 0]

\* Mutants of Pruned: entries go after skew_seconds; nothing is ever dropped.
Pruned_BySkew == {k \in seen : now - k.ts < Skew}
Pruned_Never == seen

\* prune_nonces at the current time.
Pruned == {k \in seen : now - k.ts <= Ttl}

\* The checks made before the table is touched.
EarlyVerdict(r) ==
    IF ~r.complete                                   THEN "malformed"
    ELSE IF r.client \notin DOMAIN Granted \/ ~r.pubOk THEN "unknown_client"
    ELSE IF Distance(now, r.ts) > Skew               THEN "clock_skew"
    ELSE IF Key(r) \in Pruned                        THEN "nonce_replay"
    ELSE "fresh"

\* The checks made after the nonce is stored: a request that fails one of them
\* has used its nonce up.
LateVerdict(r) ==
    IF ~r.bodyOk                                THEN "body_hash_mismatch"
    ELSE IF ~(r.scope \subseteq Granted[r.client]) \/ r.required \notin r.scope
                                                THEN "scope_insufficient"
    ELSE IF ~r.sigOk                            THEN "signature_invalid"
    ELSE "ok"

Verdict(r) ==
    IF EarlyVerdict(r) = "fresh" THEN LateVerdict(r) ELSE EarlyVerdict(r)

\* verify_body: one call, under the verifier's mutex.
verify_body(r) ==
    /\ seen' = CASE EarlyVerdict(r) = "fresh"        -> Pruned \cup {Key(r)}
                 [] EarlyVerdict(r) = "nonce_replay" -> Pruned
                 [] OTHER                            -> seen
    /\ judged' = IF EarlyVerdict(r) = "fresh" THEN Counted(judged, r) ELSE judged
    /\ accepted' = IF Verdict(r) = "ok" THEN Counted(accepted, r) ELSE accepted
    /\ UNCHANGED <<now, high>>

\* The wall clock goes on, or is set back.
Tick ==
    /\ now < MaxNow
    /\ now' = now + 1
    /\ high' = IF now + 1 > high THEN now + 1 ELSE high
    /\ UNCHANGED <<seen, judged, accepted>>

SetBack ==
    /\ \E t \in 0..MaxNow : /\ t < now
                            /\ t >= high - MaxBack
                            /\ now' = t
    /\ UNCHANGED <<high, seen, judged, accepted>>

\* A new process: an empty table, and a new life for every nonce.
EnvRestart ==
    /\ seen' = {}
    /\ judged' = [k \in Keys |-> 0]
    /\ accepted' = [k \in Keys |-> 0]
    /\ high' = now
    /\ UNCHANGED now

EnvNext ==
    \/ \E r \in Requests : verify_body(r)
    \/ Tick
    \/ SetBack
    \/ EnvRestart

EnvSpec == EnvInit /\ [][EnvNext]_envVars

-----------------------------------------------------------------------------
(* Properties *)

\* Types of the verifier's state.
EnvTypeOK ==
    /\ now \in 0..MaxNow /\ high \in now..MaxNow
    /\ high - now <= MaxBack
    /\ seen \subseteq Keys
    /\ judged \in [Keys -> Nat] /\ accepted \in [Keys -> Nat]

\* At most once: however often, late or early a request is delivered, and however
\* the clock moves within MaxBack, a key gets past the nonce check once in the life
\* of a process, whatever the verdict on the rest of the request.  A copy damaged on
\* the way uses the key up, and the good copy after it is a replay.
JudgedOnce == \A k \in Keys : judged[k] <= 1

\* What callers rely on, a consequence: one process accepts a key once at most.
AcceptedOnce == \A k \in Keys : accepted[k] <= 1

\* The table does not grow with time: it holds the keys of one window of Ttl,
\* Skew and the clock's fall-back.
TableBounded == \A a, b \in seen : a.ts - b.ts <= Ttl + Skew + MaxBack

=============================================================================

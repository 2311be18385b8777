--------------------------- MODULE ServiceProofs ---------------------------
(***************************************************************************)
(* Proofs about a request on its way: the envelope verifier (for every set *)
(* of requests, every Skew, Ttl and MaxBack with Skew + MaxBack <= Ttl, a  *)
(* key is judged, and accepted, at most once by one process, and the nonce *)
(* table stays within one window of time), and the socket server around    *)
(* it, with any number of connections.                                     *)
(***************************************************************************)
EXTENDS Ipc, Front, TLAPS

-----------------------------------------------------------------------------
(* The verifier *)

\* A judged key stays in the table until no clock value that can still be shown
\* is within Skew of it.
UsedUp == \A k \in Keys : judged[k] > 0 => k \in seen \/ high - k.ts > Ttl

\* Every acceptance is a judgement.
AcceptedAreJudged == \A k \in Keys : accepted[k] <= judged[k]

\* Nothing in the table is further ahead than a clock value shown so far allows.
NotAhead == \A k \in seen : k.ts <= high + Skew

IInv == /\ EnvTypeOK
        /\ UsedUp
        /\ JudgedOnce
        /\ AcceptedAreJudged
        /\ NotAhead
        /\ TableBounded

-----------------------------------------------------------------------------

\* A key carries the timestamp of its request, an integer.
LEMMA KeyFacts ==
    /\ \A r \in Requests : Key(r) \in Keys /\ Key(r).ts = r.ts
    /\ \A k \in Keys : k.ts \in Int
BY RequestAssumption DEF Keys, Key

\* A key that gets past the early checks has never been judged: the clock is
\* within Skew of it, so it was not dropped at any clock value shown before.
LEMMA FreshIsNew ==
    ASSUME EnvTypeOK, UsedUp, NEW r \in Requests, EarlyVerdict(r) = "fresh"
    PROVE  judged[Key(r)] = 0 /\ r.ts - now <= Skew /\ now - r.ts <= Skew
<1> DEFINE k == Key(r)
<1>1. k \in Keys /\ k.ts = r.ts /\ k.ts \in Int /\ judged[k] \in Nat
  BY KeyFacts, RequestAssumption DEF EnvTypeOK
<1>2. /\ ~(Distance(now, r.ts) > Skew)
      /\ k \notin Pruned
  BY DEF EarlyVerdict
<1>3. now \in Int /\ high \in Int /\ high - now <= MaxBack
  BY TimesAssumption DEF EnvTypeOK
<1>4. r.ts - now <= Skew /\ now - r.ts <= Skew
  BY <1>1, <1>2, <1>3, TimesAssumption DEF Distance
<1>5. k \notin seen
  <2>1. now - k.ts <= Ttl
    BY <1>1, <1>3, <1>4, TimesAssumption
  <2> QED BY <2>1, <1>2 DEF Pruned
<1>6. ~(high - k.ts > Ttl)
  BY <1>1, <1>3, <1>4, TimesAssumption
<1>7. ~(judged[k] > 0)
  BY <1>1, <1>5, <1>6 DEF UsedUp
<1> QED BY <1>1, <1>4, <1>7

\* The initial states: an empty table, nothing judged.
LEMMA InitIInv == EnvInit => IInv
<1> SUFFICES ASSUME EnvInit PROVE IInv
  OBVIOUS
<1>1. EnvTypeOK
  BY TimesAssumption DEF EnvInit, EnvTypeOK
<1> QED BY <1>1 DEF EnvInit, IInv, UsedUp, JudgedOnce, AcceptedAreJudged, NotAhead, TableBounded

\* verify_body, one step per outcome.
LEMMA VerifyIInv ==
    ASSUME IInv, NEW r \in Requests, verify_body(r)
    PROVE  IInv'
<1> DEFINE k == Key(r)
<1>1. k \in Keys /\ k.ts = r.ts /\ k.ts \in Int /\ \A x \in Keys : x.ts \in Int
  BY KeyFacts
<1>2. now' = now /\ high' = high
  BY DEF verify_body
<1>3. /\ now \in Int /\ high \in Int /\ high - now <= MaxBack /\ now <= high
      /\ seen \subseteq Keys
      /\ judged \in [Keys -> Nat] /\ accepted \in [Keys -> Nat]
  BY TimesAssumption DEF IInv, EnvTypeOK
<1>4. Pruned \subseteq seen /\ \A x \in Pruned : now - x.ts <= Ttl
  BY DEF Pruned
<1>5. CASE EarlyVerdict(r) = "fresh"
  <2>1. seen' = Pruned \cup {k} /\ judged' = [judged EXCEPT ![k] = @ + 1]
    BY <1>5 DEF verify_body, Counted
  <2>2. judged[k] = 0 /\ k.ts - now <= Skew /\ now - k.ts <= Skew
    BY <1>5, <1>1, FreshIsNew DEF IInv
  <2>3. /\ judged' \in [Keys -> Nat] /\ judged'[k] = 1
        /\ \A x \in Keys : x # k => judged'[x] = judged[x]
    BY <2>1, <2>2, <1>1, <1>3
  <2>4. accepted' = accepted \/ accepted' = [accepted EXCEPT ![k] = @ + 1]
    BY DEF verify_body, Counted
  <2>5. accepted[k] = 0
    BY <2>2, <1>1, <1>3 DEF IInv, AcceptedAreJudged
  <2>6. accepted' \in [Keys -> Nat] /\ \A x \in Keys : accepted'[x] <= judged'[x]
    BY <2>3, <2>4, <2>5, <1>1, <1>3 DEF IInv, AcceptedAreJudged
  <2>7. EnvTypeOK'
    BY <2>1, <2>3, <2>6, <1>1, <1>2, <1>3, <1>4 DEF IInv, EnvTypeOK
  <2>8. UsedUp'
    <3> SUFFICES ASSUME NEW x \in Keys, judged'[x] > 0, x \notin seen'
                 PROVE  high' - x.ts > Ttl
      BY DEF UsedUp
    <3>1. x # k /\ x \notin Pruned /\ judged[x] > 0
      BY <2>1, <2>3
    <3>2. CASE x \in seen
      <4>1. ~(now - x.ts <= Ttl)
        BY <3>1, <3>2 DEF Pruned
      <4> QED BY <4>1, <1>1, <1>2, <1>3, TimesAssumption
    <3>3. CASE x \notin seen
      BY <3>1, <3>3, <1>2 DEF IInv, UsedUp
    <3> QED BY <3>2, <3>3
  <2>9. JudgedOnce'
    BY <2>3 DEF IInv, JudgedOnce
  <2>10. NotAhead'
    BY <2>1, <2>2, <1>1, <1>2, <1>3, <1>4, TimesAssumption DEF IInv, NotAhead
  <2>11. TableBounded'
    <3> SUFFICES ASSUME NEW a \in Pruned \cup {k}, NEW b \in Pruned \cup {k}
                 PROVE  a.ts - b.ts <= Ttl + Skew + MaxBack
      BY <2>1 DEF TableBounded
    <3>1. a.ts \in Int /\ b.ts \in Int
      BY <1>1, <1>3, <1>4
    <3>2. a.ts <= high + Skew
      BY <2>1, <2>10, <1>2 DEF NotAhead
    <3>3. now - b.ts <= Ttl
      BY <1>1, <1>3, <1>4, <2>2, TimesAssumption
    <3> QED BY <3>1, <3>2, <3>3, <1>3, TimesAssumption
  <2> QED BY <2>6, <2>7, <2>8, <2>9, <2>10, <2>11 DEF IInv, AcceptedAreJudged
<1>6. CASE EarlyVerdict(r) # "fresh"
  <2>1. seen' \in {seen, Pruned} /\ judged' = judged
    BY <1>6 DEF verify_body
  <2>2. accepted' = accepted
    <3>1. EarlyVerdict(r) # "ok"
      BY DEF EarlyVerdict
    <3> QED BY <3>1, <1>6 DEF verify_body, Verdict
  <2>3. UsedUp'
    <3> SUFFICES ASSUME NEW x \in Keys, judged[x] > 0, x \notin seen'
                 PROVE  high - x.ts > Ttl
      BY <2>1, <1>2 DEF UsedUp
    <3>1. CASE x \in seen
      <4>1. ~(now - x.ts <= Ttl)
        BY <3>1, <2>1 DEF Pruned
      <4> QED BY <4>1, <1>1, <1>3, TimesAssumption
    <3>2. CASE x \notin seen
      BY <3>2 DEF IInv, UsedUp
    <3> QED BY <3>1, <3>2
  <2>4. EnvTypeOK' /\ NotAhead' /\ TableBounded'
    BY <2>1, <2>2, <1>2, <1>4 DEF IInv, EnvTypeOK, NotAhead, TableBounded
  <2> QED BY <2>1, <2>2, <2>3, <2>4 DEF IInv, JudgedOnce, AcceptedAreJudged
<1> QED BY <1>5, <1>6

\* The clock moves: only high, and only upwards.
LEMMA ClockIInv ==
    ASSUME IInv, Tick \/ SetBack
    PROVE  IInv'
<1>1. UNCHANGED <<seen, judged, accepted>>
  BY DEF Tick, SetBack
<1>2. /\ high' >= high /\ high' \in Int /\ high \in Int
      /\ now' \in 0..MaxNow /\ high' \in now'..MaxNow /\ high' - now' <= MaxBack
  <2>1. CASE Tick
    BY <2>1, TimesAssumption DEF Tick, IInv, EnvTypeOK
  <2>2. CASE SetBack
    BY <2>2, TimesAssumption DEF SetBack, IInv, EnvTypeOK
  <2> QED BY <2>1, <2>2
<1>3. EnvTypeOK'
  BY <1>1, <1>2 DEF IInv, EnvTypeOK
<1>4. \A x \in Keys : x.ts \in Int
  BY KeyFacts
<1>5. UsedUp'
  BY <1>1, <1>2, <1>4, TimesAssumption DEF IInv, UsedUp
<1>6. NotAhead'
  BY <1>1, <1>2, <1>4, TimesAssumption DEF IInv, NotAhead, EnvTypeOK
<1> QED BY <1>1, <1>3, <1>5, <1>6 DEF IInv, JudgedOnce, AcceptedAreJudged, TableBounded

\* A restart forgets everything, the history counts too.
LEMMA RestartIInv ==
    ASSUME IInv, EnvRestart
    PROVE  IInv'
<1>1. EnvTypeOK'
  BY TimesAssumption DEF IInv, EnvTypeOK, EnvRestart
<1> QED BY <1>1 DEF EnvRestart, IInv, UsedUp, JudgedOnce, AcceptedAreJudged, NotAhead, TableBounded

\* Every step keeps the invariant.
LEMMA NextIInv == IInv /\ [EnvNext]_envVars => IInv'
<1> SUFFICES ASSUME IInv, [EnvNext]_envVars PROVE IInv'
  OBVIOUS
<1>1. ASSUME NEW r \in Requests, verify_body(r) PROVE IInv'
  BY <1>1, VerifyIInv
<1>2. CASE Tick \/ SetBack
  BY <1>2, ClockIInv
<1>3. CASE EnvRestart
  BY <1>3, RestartIInv
<1>4. CASE UNCHANGED envVars
  BY <1>4 DEF envVars, IInv, EnvTypeOK, UsedUp, JudgedOnce, AcceptedAreJudged,
              NotAhead, TableBounded
<1> QED BY <1>1, <1>2, <1>3, <1>4 DEF EnvNext

-----------------------------------------------------------------------------

\* At most once: one process lets each key past the nonce check once at most, and
\* accepts it once at most, for every Skew, Ttl and fall-back of the clock with
\* Skew + MaxBack <= Ttl (30, 60 and 30 seconds as the code builds the verifier).
THEOREM AtMostOnce == EnvSpec => [](EnvTypeOK /\ JudgedOnce /\ AcceptedOnce)
<1>1. IInv => EnvTypeOK /\ JudgedOnce /\ AcceptedOnce
  BY DEF IInv, EnvTypeOK, JudgedOnce, AcceptedOnce, AcceptedAreJudged
<1> QED BY <1>1, InitIInv, NextIInv, PTL DEF EnvSpec

\* The nonce table holds one window of Ttl + Skew + MaxBack seconds at any time.
THEOREM NonceWindow == EnvSpec => []TableBounded
<1>1. IInv => TableBounded
  BY DEF IInv
<1> QED BY <1>1, InitIInv, NextIInv, PTL DEF EnvSpec

-----------------------------------------------------------------------------
(* The socket server *)

\* The answers of the verifier and of process_frame before it.
Verdicts == {"malformed", "unknown_client", "clock_skew", "nonce_replay", "body_hash_mismatch",
             "scope_insufficient", "signature_invalid", "ok"}

Busy == {"verify", "policy", "recorded", "unrecorded", "working", "reply"}

\* The three tables of connections; a task that is busy works on a request, and what it
\* is about to write is set while it answers only.
Tasks ==
    /\ link \in [Connections -> Busy \cup {"closed", "idle"}]
    /\ frame \in [Connections -> Requests \cup {None}]
    /\ reply = [c \in Connections |-> reply[c]]
    /\ \A c \in Connections : link[c] \in Busy => frame[c] \in Requests
    /\ \A c \in Connections : link[c] # "reply" => reply[c] = "none"

\* What the verifier agrees with.
Authentic(r) ==
    /\ r.bodyOk /\ r.sigOk /\ r.pubOk /\ r.client \in DOMAIN Granted
    /\ r.required \in r.scope /\ r.scope \subseteq Granted[r.client]

\* What has reached the policy has passed the verifier.
PolicySeesAuthentic == \A c \in Connections : link[c] = "policy" => Authentic(frame[c])

\* A denial whose append succeeded is on the ledger.
DenialsRecorded == \A c \in Connections : link[c] = "recorded" => frame[c] \in audited

ServerInv == /\ Tasks /\ PolicySeesAuthentic /\ DenialsRecorded
             /\ OnlyVettedDispatched /\ RecordedBeforeAnswer

\* The verifier says "ok" of authentic requests only, and never what the policy says.
LEMMA VerdictFacts ==
    ASSUME NEW r
    PROVE  Verdict(r) \in Verdicts /\ (Verdict(r) = "ok" => Authentic(r))
<1>1. LateVerdict(r) \in Verdicts /\ (LateVerdict(r) = "ok" =>
          r.bodyOk /\ r.sigOk /\ r.required \in r.scope /\ r.scope \subseteq Granted[r.client])
  BY DEF LateVerdict, Verdicts
<1>2. /\ EarlyVerdict(r) \in (Verdicts \ {"ok"}) \cup {"fresh"}
      /\ EarlyVerdict(r) = "fresh" => r.pubOk /\ r.client \in DOMAIN Granted
  BY DEF EarlyVerdict, Verdicts
<1> QED BY <1>1, <1>2 DEF Verdict, Authentic, Verdicts

\* A task that goes on with its request, or answers it.
LEMMA TaskStep ==
    ASSUME ServerInv, NEW c \in Connections, link[c] \in Busy,
           NEW l \in Busy, NEW x,
           link' = [link EXCEPT ![c] = l], reply' = [reply EXCEPT ![c] = x], UNCHANGED frame,
           l # "reply" => x = "none", l = "policy" => Authentic(frame[c]),
           l = "recorded" => frame[c] \in audited', audited \subseteq audited'
    PROVE  Tasks' /\ PolicySeesAuthentic' /\ DenialsRecorded'
<1>1. /\ link'[c] = l /\ reply'[c] = x
      /\ \A d \in Connections : d # c => link'[d] = link[d] /\ reply'[d] = reply[d]
  BY DEF ServerInv, Tasks
<1>2. link' \in [Connections -> Busy \cup {"closed", "idle"}]
  BY DEF ServerInv, Tasks
<1>3. reply' = [d \in Connections |-> reply'[d]]
  BY DEF ServerInv, Tasks
<1>4. Tasks'
  BY <1>1, <1>2, <1>3 DEF ServerInv, Tasks
<1>5. PolicySeesAuthentic'
  BY <1>1 DEF ServerInv, PolicySeesAuthentic
<1>6. DenialsRecorded'
  BY <1>1 DEF ServerInv, DenialsRecorded
<1> QED BY <1>4, <1>5, <1>6

\* All connections closed.
LEMMA AllClosed ==
    ASSUME link' = [c \in Connections |-> "closed"], frame' = [c \in Connections |-> None],
           reply' = [c \in Connections |-> "none"]
    PROVE  Tasks' /\ PolicySeesAuthentic' /\ DenialsRecorded' /\ RecordedBeforeAnswer'
BY DEF Tasks, Busy, PolicySeesAuthentic, DenialsRecorded, RecordedBeforeAnswer

LEMMA ReadsFrame ==
    ASSUME ServerInv, NEW c \in Connections, NEW r \in Requests, ReadFrame(c, r)
    PROVE  ServerInv'
<1>1. /\ link[c] = "idle" /\ frame' = [frame EXCEPT ![c] = r] /\ UNCHANGED <<dispatched, audited>>
      /\ \/ \E x \in {"parse_error", "method_not_found"} : Answer(c, x)
         \/ link' = [link EXCEPT ![c] = "verify"] /\ UNCHANGED reply
  BY DEF ReadFrame
<1>2. PICK l \in {"verify", "reply"}, x \in {"none", "parse_error", "method_not_found"} :
          /\ link' = [link EXCEPT ![c] = l] /\ reply' = [reply EXCEPT ![c] = x]
          /\ l # "reply" => x = "none"
  <2>1. CASE \E x \in {"parse_error", "method_not_found"} : Answer(c, x)
    BY <2>1 DEF Answer
  <2>2. CASE link' = [link EXCEPT ![c] = "verify"] /\ UNCHANGED reply
    <3>1. reply[c] = "none" /\ reply' = [reply EXCEPT ![c] = "none"]
      BY <1>1, <2>2 DEF ServerInv, Tasks
    <3> QED BY <2>2, <3>1
  <2> QED BY <1>1, <2>1, <2>2
<1>3. /\ link'[c] = l /\ reply'[c] = x /\ frame'[c] = r
      /\ \A d \in Connections : d # c => link'[d] = link[d] /\ reply'[d] = reply[d] /\ frame'[d] = frame[d]
  BY <1>1, <1>2 DEF ServerInv, Tasks
<1>4. Tasks'
  <2>1. /\ link' \in [Connections -> Busy \cup {"closed", "idle"}]
        /\ frame' \in [Connections -> Requests \cup {None}]
        /\ reply' = [d \in Connections |-> reply'[d]]
    BY <1>1, <1>2 DEF ServerInv, Tasks, Busy
  <2> QED BY <1>2, <1>3, <2>1 DEF ServerInv, Tasks
<1>5. PolicySeesAuthentic'
  BY <1>2, <1>3 DEF ServerInv, PolicySeesAuthentic
<1>6. RecordedBeforeAnswer'
  BY <1>1, <1>3 DEF ServerInv, RecordedBeforeAnswer
<1>7. OnlyVettedDispatched'
  BY <1>1 DEF ServerInv, OnlyVettedDispatched
<1>8. DenialsRecorded'
  BY <1>1, <1>2, <1>3 DEF ServerInv, DenialsRecorded
<1> QED BY <1>4, <1>5, <1>6, <1>7, <1>8 DEF ServerInv

\* A connection that is accepted, hangs up, or has its answer written.
LEMMA Rests ==
    ASSUME ServerInv, NEW c \in Connections, ServeAccept(c) \/ HangUp(c) \/ WriteReply(c)
    PROVE  ServerInv'
<1>1. PICK l \in {"idle", "closed"}, f \in {None, frame[c]} :
          /\ link' = [link EXCEPT ![c] = l] /\ frame' = [frame EXCEPT ![c] = f]
          /\ reply' = [reply EXCEPT ![c] = "none"] /\ UNCHANGED <<dispatched, audited>>
  <2>1. CASE ServeAccept(c) \/ HangUp(c)
    <3>1. /\ reply[c] = "none" /\ reply' = [reply EXCEPT ![c] = "none"]
          /\ frame' = [frame EXCEPT ![c] = frame[c]]
      BY <2>1 DEF ServeAccept, HangUp, ServerInv, Tasks
    <3> QED BY <2>1, <3>1 DEF ServeAccept, HangUp
  <2>2. CASE WriteReply(c)
    BY <2>2 DEF WriteReply
  <2> QED BY <2>1, <2>2
<1>2. /\ link'[c] = l /\ reply'[c] = "none"
      /\ \A d \in Connections : d # c => link'[d] = link[d] /\ reply'[d] = reply[d] /\ frame'[d] = frame[d]
  BY <1>1 DEF ServerInv, Tasks
<1>3. Tasks'
  <2>1. /\ link' \in [Connections -> Busy \cup {"closed", "idle"}]
        /\ frame' \in [Connections -> Requests \cup {None}]
        /\ reply' = [d \in Connections |-> reply'[d]]
    BY <1>1 DEF ServerInv, Tasks
  <2>2. l \notin Busy
    BY DEF Busy
  <2> QED BY <1>1, <1>2, <2>1, <2>2 DEF ServerInv, Tasks
<1>4. PolicySeesAuthentic'
  BY <1>2 DEF ServerInv, PolicySeesAuthentic
<1>5. RecordedBeforeAnswer'
  BY <1>1, <1>2 DEF ServerInv, RecordedBeforeAnswer
<1>6. OnlyVettedDispatched'
  BY <1>1 DEF ServerInv, OnlyVettedDispatched
<1>7. DenialsRecorded'
  BY <1>1, <1>2 DEF ServerInv, DenialsRecorded
<1> QED BY <1>3, <1>4, <1>5, <1>6, <1>7 DEF ServerInv

\* verify_request, the policy's denial, the dispatch, and the end of the work.
LEMMA Proceeds ==
    ASSUME ServerInv, NEW c \in Connections,
           \/ VerifyFrame(c) \/ RecordDenial(c) \/ AnswerDenial(c)
           \/ DispatchFrame(c) \/ WorkDone(c)
    PROVE  ServerInv'
<1>1. link[c] \in {"verify", "policy", "recorded", "unrecorded", "working"} /\ reply[c] = "none" /\ link[c] \in Busy
  BY DEF VerifyFrame, RecordDenial, AnswerDenial, DispatchFrame, WorkDone, ServerInv, Tasks, Busy
<1>2. frame' = frame /\ frame[c] \in Requests
  BY <1>1 DEF VerifyFrame, RecordDenial, AnswerDenial, DispatchFrame, WorkDone, ServerInv, Tasks
<1>3. PICK l, x :
          /\ l \in Busy
          /\ link' = [link EXCEPT ![c] = l] /\ reply' = [reply EXCEPT ![c] = x]
          /\ l # "reply" => x = "none"
          /\ l = "policy" => Authentic(frame[c])
          /\ l = "recorded" => frame[c] \in audited'
          /\ x = "rejected_and_recorded" => frame[c] \in audited'
  <2>1. {"reply", "policy", "recorded", "unrecorded", "working"} \subseteq Busy
    BY DEF Busy
  <2>2. reply = [reply EXCEPT ![c] = "none"]
    BY <1>1 DEF ServerInv, Tasks
  <2>3. CASE VerifyFrame(c)
    <3>1. Verdict(frame[c]) # "rejected_and_recorded" /\ (Verdict(frame[c]) = "ok" => Authentic(frame[c]))
      BY VerdictFacts DEF Verdicts
    <3>2. \/ /\ Verdict(frame[c]) = "ok"
             /\ link' = [link EXCEPT ![c] = "policy"] /\ UNCHANGED reply
          \/ /\ link' = [link EXCEPT ![c] = "reply"]
             /\ reply' = [reply EXCEPT ![c] = Verdict(frame[c])]
      BY <2>3 DEF VerifyFrame, Answer
    <3> QED BY <2>1, <2>2, <3>1, <3>2
  <2>4. CASE RecordDenial(c)
    BY <2>1, <2>2, <2>4 DEF RecordDenial
  <2>7. CASE AnswerDenial(c)
    <3>1. /\ link' = [link EXCEPT ![c] = "reply"] /\ UNCHANGED audited
          /\ \/ reply' = [reply EXCEPT ![c] = "rejected_and_recorded"] /\ link[c] = "recorded"
             \/ reply' = [reply EXCEPT ![c] = "rejected"]
      BY <2>7 DEF AnswerDenial, Answer
    <3>2. PICK x : reply' = [reply EXCEPT ![c] = x] /\ (x = "rejected_and_recorded" => frame[c] \in audited')
      BY <3>1 DEF ServerInv, DenialsRecorded
    <3> QED BY <2>1, <3>1, <3>2
  <2>5. CASE DispatchFrame(c)
    BY <2>1, <2>2, <2>5 DEF DispatchFrame
  <2>6. CASE WorkDone(c)
    <3>1. link' = [link EXCEPT ![c] = "reply"] /\ reply' = [reply EXCEPT ![c] = "answered"]
      BY <2>6 DEF WorkDone, Answer
    <3>2. "reply" # "policy" /\ "answered" # "rejected_and_recorded"
      OBVIOUS
    <3> QED BY <2>1, <3>1, <3>2
  <2> QED BY <2>3, <2>4, <2>5, <2>6, <2>7
<1>6. audited \subseteq audited'
  BY DEF VerifyFrame, RecordDenial, AnswerDenial, DispatchFrame, WorkDone
<1>4. Tasks' /\ PolicySeesAuthentic' /\ DenialsRecorded'
  BY <1>1, <1>2, <1>3, <1>6, TaskStep
<1>5. /\ reply'[c] = x
      /\ \A d \in Connections : d # c => reply'[d] = reply[d]
  BY <1>3 DEF ServerInv, Tasks
<1>7. RecordedBeforeAnswer'
  BY <1>2, <1>3, <1>5, <1>6 DEF ServerInv, RecordedBeforeAnswer
<1>8. \/ UNCHANGED dispatched
      \/ dispatched' = dispatched \cup {frame[c]} /\ Authentic(frame[c]) /\ ~frame[c].quarantined
  BY DEF VerifyFrame, RecordDenial, AnswerDenial, DispatchFrame, WorkDone, ServerInv, PolicySeesAuthentic
<1>9. OnlyVettedDispatched'
  BY <1>8 DEF ServerInv, OnlyVettedDispatched, Authentic
<1> QED BY <1>4, <1>7, <1>9 DEF ServerInv

\* Every step of the server keeps the invariant.
LEMMA ServerInductive ==
    ASSUME ServerInv, [Next]_vars
    PROVE  ServerInv'
<1>1. CASE Restart
  BY <1>1, AllClosed DEF Restart, ServerInv, OnlyVettedDispatched
<1>2. ASSUME UNCHANGED <<link, frame, reply, dispatched, audited>> PROVE ServerInv'
  BY <1>2 DEF ServerInv, Tasks, PolicySeesAuthentic, DenialsRecorded, OnlyVettedDispatched, RecordedBeforeAnswer
<1>3. CASE ServeCheck
  <2>1. CASE UNCHANGED <<link, frame, reply>>
    BY <1>2, <1>3, <2>1 DEF ServeCheck
  <2>2. CASE /\ link' = [c \in Connections |-> "closed"] /\ frame' = [c \in Connections |-> None]
             /\ reply' = [c \in Connections |-> "none"]
    BY <1>3, <2>2, AllClosed DEF ServeCheck, ServerInv, OnlyVettedDispatched
  <2> QED BY <1>3, <2>1, <2>2 DEF ServeCheck
<1>4. CASE Clock \/ UNCHANGED vars
  BY <1>2, <1>4 DEF Clock, vars, ipcVars
<1>5. ASSUME NEW c \in Connections, ServeAccept(c) \/ HangUp(c) \/ Task(c) PROVE ServerInv'
  BY <1>5, Rests, Proceeds DEF Task
<1>6. ASSUME NEW c \in Connections, NEW r \in Requests, ReadFrame(c, r) PROVE ServerInv'
  BY <1>6, ReadsFrame
<1> QED BY <1>1, <1>3, <1>4, <1>5, <1>6 DEF Next

LEMMA ServerInvariance == Spec => []ServerInv
<1>1. ASSUME Init PROVE ServerInv
  BY <1>1 DEF Init, ServerInv, Tasks, Busy, PolicySeesAuthentic, DenialsRecorded, OnlyVettedDispatched,
               RecordedBeforeAnswer
<1> QED BY <1>1, ServerInductive, PTL DEF Spec

\* With any number of connections, what runs was vetted.
THEOREM DispatchedWereVetted == Spec => []OnlyVettedDispatched
<1>1. ServerInv => OnlyVettedDispatched
  BY DEF ServerInv
<1> QED BY <1>1, ServerInvariance, PTL

\* With any number of connections, a denial that is said to be recorded was.
THEOREM DenialsAreOnRecord == Spec => []RecordedBeforeAnswer
<1>1. ServerInv => RecordedBeforeAnswer
  BY DEF ServerInv
<1> QED BY <1>1, ServerInvariance, PTL

\* The server moves the verifier's state by its operations only.
LEMMA ServerIsVerifier == Spec => EnvSpec
<1>1. Init => EnvInit
  BY DEF Init
<1>2. ASSUME ServerInv, [Next]_vars PROVE [EnvNext]_envVars
  <2>1. ASSUME NEW c \in Connections, VerifyFrame(c) PROVE EnvNext
    <3>1. frame[c] \in Requests /\ verify_body(frame[c])
      BY <1>2, <2>1 DEF VerifyFrame, ServerInv, Tasks, Busy
    <3> QED BY <3>1 DEF EnvNext
  <2>2. \/ \E c \in Connections : VerifyFrame(c)
        \/ UNCHANGED envVars \/ Tick \/ SetBack \/ EnvRestart
    BY <1>2 DEF Next, Clock, Restart, ServeCheck, ServeAccept, HangUp, Task, RecordDenial, AnswerDenial,
                DispatchFrame, WorkDone, WriteReply, ReadFrame, vars
  <2> QED BY <2>1, <2>2 DEF EnvNext
<1> QED BY <1>1, <1>2, ServerInvariance, PTL DEF Spec, EnvSpec

\* Copies of a request come in on any number of connections, in any order, while the clock
\* moves: one life of the server lets its key past the nonce check once, and its table
\* stays within one window of time.
THEOREM ServerJudgesOnce == Spec => [](JudgedOnce /\ TableBounded)
BY ServerIsVerifier, AtMostOnce, NonceWindow, PTL

-----------------------------------------------------------------------------
(* The route tables.                                                       *)

\* What a worker or dispatch_value itself answers.
Served == SystemMethods \cup MemoryHandlers \cup MainHandlers \cup CognitionHandlers \cup IoHandlers

\* Methods behind a check of their route.
Barred == gatesWrite \cup {"brain.purge"}

\* Handlers the proofs look at one by one.
Special == {"brain_purge", "settings_get", "imports_list"}

\* What every row <<handler, calls>> of the tables has.
RowOk(h, c) ==
    /\ h \notin Barred
    /\ c # <<>> /\ \E S : c \in Seq(S)
    /\ \A i \in DOMAIN c : c[i][1] \in Served
    /\ \A i, j \in DOMAIN c : c[i][1] = c[j][1] => i = j
    /\ \A i \in DOMAIN c : c[i][1] \in gatesWrite => c[1][2] = "gates:write"
    /\ \A i \in DOMAIN c : c[i][1] = "brain.purge" => h = "brain_purge" /\ i = 2
    /\ h = "brain_purge" => c[1][1] = "permissions.set_profile" /\ c[2][1] = "brain.purge"
    /\ h \in Special => Len(c) = 2

TableOk(f) == \A h \in DOMAIN f : RowOk(h, f[h])

\* A row of one call.
RowOfOne(h, c) ==
    /\ h \notin Barred \cup Special
    /\ c = << <<c[1][1], c[1][2]>> >> /\ c[1][1] \in Served /\ c[1][1] # "brain.purge"
    /\ c[1][1] \in gatesWrite => c[1][2] = "gates:write"

LEMMA OneCall == ASSUME NEW h, NEW c, RowOfOne(h, c) PROVE RowOk(h, c)
<1>1. PICK x : c = <<x>> /\ x = c[1]
  BY DEF RowOfOne
<1>2. DOMAIN c = {1} /\ c \in Seq({x}) /\ c # <<>>
  BY <1>1
<1> QED BY <1>1, <1>2 DEF RowOk, RowOfOne, Special

\* A row of two calls other than the purge.
RowOfTwo(h, c) ==
    /\ h \notin Barred \cup {"brain_purge"}
    /\ c = <<c[1], c[2]>> /\ c[1][1] \in Served \ Barred /\ c[2][1] \in Served \ Barred /\ c[1][1] # c[2][1]

LEMMA TwoCalls == ASSUME NEW h, NEW c, RowOfTwo(h, c) PROVE RowOk(h, c)
<1>1. PICK x, y : c = <<x, y>> /\ x = c[1] /\ y = c[2]
  BY DEF RowOfTwo
<1>2. DOMAIN c = {1, 2} /\ c \in Seq({x, y}) /\ c # <<>> /\ Len(c) = 2
  BY <1>1
<1> QED BY <1>1, <1>2 DEF RowOk, RowOfTwo, Barred, Special

LEMMA TableOfOnes == ASSUME NEW f, \A h \in DOMAIN f : RowOfOne(h, f[h]) PROVE TableOk(f)
BY OneCall DEF TableOk

LEMMA JoinedOk == ASSUME NEW tables, \A t \in tables : TableOk(t) PROVE TableOk(Joined(tables))
<1> SUFFICES ASSUME NEW h \in DOMAIN Joined(tables) PROVE RowOk(h, Joined(tables)[h])
  BY DEF TableOk
<1>1. PICK t : t \in tables /\ h \in DOMAIN t /\ Joined(tables)[h] = t[h]
  BY DEF Joined
<1> QED BY <1>1 DEF TableOk

LEMMA OneCallTables ==
    /\ TableOk(SessionCreateCalls) /\ TableOk(LedgerCalls) /\ TableOk(GatePlanCalls) /\ TableOk(GateProofCalls)
    /\ TableOk(SearchCalls) /\ TableOk(RecallCalls) /\ TableOk(CompactionCalls) /\ TableOk(MemoryCalls)
    /\ TableOk(ProjectCalls) /\ TableOk(SessionCalls) /\ TableOk(ReasoningCalls) /\ TableOk(GrantCalls)
    /\ TableOk(MeshGrantCalls) /\ TableOk(InspectorCalls) /\ TableOk(ImportCalls) /\ TableOk(ImportBatchCalls)
    /\ TableOk(BackupCalls) /\ TableOk(RawSettingsCalls) /\ TableOk(ReadyCalls)
<1> USE DEF RowOfOne, Special, Barred, Served, SystemMethods, MemoryHandlers, MainHandlers, CognitionHandlers,
            IoHandlers, gatesRead, gatesWrite, One, Sys, gate_read, gate_write, Recalling
<1>1. \A h \in DOMAIN SessionCreateCalls : RowOfOne(h, SessionCreateCalls[h]) BY DEF SessionCreateCalls
<1>2. \A h \in DOMAIN LedgerCalls : RowOfOne(h, LedgerCalls[h]) BY DEF LedgerCalls
<1>3. \A h \in DOMAIN GatePlanCalls : RowOfOne(h, GatePlanCalls[h]) BY DEF GatePlanCalls
<1>4. \A h \in DOMAIN GateProofCalls : RowOfOne(h, GateProofCalls[h]) BY DEF GateProofCalls
<1>5. \A h \in DOMAIN SearchCalls : RowOfOne(h, SearchCalls[h]) BY DEF SearchCalls
<1>6. \A h \in DOMAIN RecallCalls : RowOfOne(h, RecallCalls[h]) BY DEF RecallCalls
<1>7. \A h \in DOMAIN CompactionCalls : RowOfOne(h, CompactionCalls[h]) BY DEF CompactionCalls
<1>8. \A h \in DOMAIN MemoryCalls : RowOfOne(h, MemoryCalls[h]) BY DEF MemoryCalls
<1>9. \A h \in DOMAIN ProjectCalls : RowOfOne(h, ProjectCalls[h]) BY DEF ProjectCalls
<1>10. \A h \in DOMAIN SessionCalls : RowOfOne(h, SessionCalls[h]) BY DEF SessionCalls
<1>11. \A h \in DOMAIN ReasoningCalls : RowOfOne(h, ReasoningCalls[h]) BY DEF ReasoningCalls
<1>12. \A h \in DOMAIN GrantCalls : RowOfOne(h, GrantCalls[h]) BY DEF GrantCalls
<1>13. \A h \in DOMAIN MeshGrantCalls : RowOfOne(h, MeshGrantCalls[h]) BY DEF MeshGrantCalls
<1>14. \A h \in DOMAIN InspectorCalls : RowOfOne(h, InspectorCalls[h]) BY DEF InspectorCalls
<1>15. \A h \in DOMAIN ImportCalls : RowOfOne(h, ImportCalls[h]) BY DEF ImportCalls
<1>16. \A h \in DOMAIN ImportBatchCalls : RowOfOne(h, ImportBatchCalls[h]) BY DEF ImportBatchCalls
<1>17. \A h \in DOMAIN BackupCalls : RowOfOne(h, BackupCalls[h]) BY DEF BackupCalls
<1>18. \A h \in DOMAIN RawSettingsCalls : RowOfOne(h, RawSettingsCalls[h]) BY DEF RawSettingsCalls
<1>19. \A h \in DOMAIN ReadyCalls : RowOfOne(h, ReadyCalls[h]) BY DEF ReadyCalls
<1>20. /\ TableOk(SessionCreateCalls) /\ TableOk(LedgerCalls) /\ TableOk(GatePlanCalls) /\ TableOk(GateProofCalls)
       /\ TableOk(SearchCalls) /\ TableOk(RecallCalls) /\ TableOk(CompactionCalls) /\ TableOk(MemoryCalls)
       /\ TableOk(ProjectCalls) /\ TableOk(SessionCalls)
  BY ONLY <1>1, <1>2, <1>3, <1>4, <1>5, <1>6, <1>7, <1>8, <1>9, <1>10, TableOfOnes
<1>21. /\ TableOk(ReasoningCalls) /\ TableOk(GrantCalls) /\ TableOk(MeshGrantCalls) /\ TableOk(InspectorCalls)
       /\ TableOk(ImportCalls) /\ TableOk(ImportBatchCalls) /\ TableOk(BackupCalls) /\ TableOk(RawSettingsCalls)
       /\ TableOk(ReadyCalls)
  BY ONLY <1>11, <1>12, <1>13, <1>14, <1>15, <1>16, <1>17, <1>18, <1>19, TableOfOnes
<1> QED BY <1>20, <1>21, Zenon

LEMMA PurgeTableOk == TableOk(PurgeCalls)
<1>1. PICK x, y : x = Sys("permissions.set_profile") /\ y = Sys("brain.purge")
  OBVIOUS
<1>2. PICK c : c = <<x, y>>
  OBVIOUS
<1>3. DOMAIN c = {1, 2} /\ c \in Seq({x, y}) /\ c # <<>> /\ Len(c) = 2 /\ c[1] = x /\ c[2] = y
  BY <1>2
<1>4. x[1] = "permissions.set_profile" /\ y[1] = "brain.purge"
  BY <1>1 DEF Sys
<1>5. "brain_purge" \notin Barred /\ x[1] \notin gatesWrite /\ y[1] \notin gatesWrite /\ x[1] \in Served /\ y[1] \in Served
  BY <1>4 DEF Barred, gatesWrite, Served, CognitionHandlers
<1>6. RowOk("brain_purge", c)
  BY <1>3, <1>4, <1>5 DEF RowOk, Special
<1>7. DOMAIN PurgeCalls = {"brain_purge"} /\ PurgeCalls["brain_purge"] = c
  BY <1>1, <1>2 DEF PurgeCalls
<1> QED BY <1>6, <1>7 DEF TableOk

LEMMA TwoCallRows ==
    /\ \A h \in DOMAIN AccountCalls : h # "status" => RowOfOne(h, AccountCalls[h])
    /\ RowOfTwo("status", AccountCalls["status"])
    /\ \A h \in DOMAIN SecurityCalls : h # "security_status" => RowOfOne(h, SecurityCalls[h])
    /\ RowOfTwo("security_status", SecurityCalls["security_status"])
    /\ \A h \in DOMAIN SettingsCalls : h # "settings_get" => RowOfOne(h, SettingsCalls[h])
    /\ RowOfTwo("settings_get", SettingsCalls["settings_get"])
    /\ \A h \in DOMAIN ExchangeCalls : h # "imports_list" => RowOfOne(h, ExchangeCalls[h])
    /\ RowOfTwo("imports_list", ExchangeCalls["imports_list"])
<1> USE DEF RowOfOne, RowOfTwo, Special, Barred, Served, SystemMethods, MemoryHandlers, MainHandlers,
            CognitionHandlers, IoHandlers, gatesRead, gatesWrite, One, Sys
<1>1. \A h \in DOMAIN AccountCalls :
          h # "status" => RowOfOne(h, AccountCalls[h])
  BY DEF AccountCalls
<1>2. RowOfTwo("status", AccountCalls["status"])
  BY DEF AccountCalls
<1>3. \A h \in DOMAIN SecurityCalls :
          h # "security_status" => RowOfOne(h, SecurityCalls[h])
  BY DEF SecurityCalls
<1>4. RowOfTwo("security_status", SecurityCalls["security_status"])
  BY DEF SecurityCalls
<1>5. \A h \in DOMAIN SettingsCalls :
          h # "settings_get" => RowOfOne(h, SettingsCalls[h])
  BY DEF SettingsCalls
<1>6. RowOfTwo("settings_get", SettingsCalls["settings_get"])
  BY DEF SettingsCalls
<1>7. \A h \in DOMAIN ExchangeCalls :
          h # "imports_list" => RowOfOne(h, ExchangeCalls[h])
  BY DEF ExchangeCalls
<1>8. RowOfTwo("imports_list", ExchangeCalls["imports_list"])
  BY DEF ExchangeCalls
<1> QED BY ONLY <1>1, <1>2, <1>3, <1>4, <1>5, <1>6, <1>7, <1>8

LEMMA TwoCallTables ==
    /\ TableOk(AccountCalls) /\ TableOk(SecurityCalls) /\ TableOk(SettingsCalls) /\ TableOk(ExchangeCalls)
    /\ TableOk(PurgeCalls)
BY TwoCallRows, PurgeTableOk, OneCall, TwoCalls DEF TableOk

\* So every row of the table of all routes is sound.
LEMMA CallsOk == TableOk(Calls)
BY OneCallTables, TwoCallTables, JoinedOk DEF Calls, CallTables

-----------------------------------------------------------------------------
(* A request on its way.                                                   *)

LEMMA RoutedOpen == ASSUME NEW h \in Routed PROVE h \notin Barred
<1> DEFINE Plain == StatusHandlers \cup ComposerHandlers \cup SandboxHandlers \cup MeshHandlers \cup McpHandlers
                    \cup ProviderHandlers \cup OtherHandlers \cup OfflineHandlers
                    \cup {"settings_raw", "ready", "ledger_verify", "tools_list", "provider_runtime_offline", "mcp_config"}
<1>1. ASSUME h \in Plain PROVE h \notin Barred
  BY <1>1 DEF Barred, gatesWrite, StatusHandlers, ComposerHandlers, SandboxHandlers, MeshHandlers, McpHandlers,
              ProviderHandlers, OtherHandlers, OfflineHandlers
<1>2. ASSUME h \in DOMAIN Needs PROVE h \notin Barred
  <2>1. DOMAIN Needs = UNION {DOMAIN t : t \in {WorkspaceNeeds, WorkspaceWriteNeeds, ReviewNeeds, DocumentNeeds}}
    BY DEF Needs, Joined
  <2>2. h \in DOMAIN WorkspaceNeeds \cup DOMAIN WorkspaceWriteNeeds \cup DOMAIN ReviewNeeds \cup DOMAIN DocumentNeeds
    BY <1>2, <2>1
  <2>3. h \in ReviewOrFull \cup {"workspace_files_write_preview", "workspace_files_write_apply", "code_review_propose",
                                 "code_review_accept", "code_review_reject", "documents_read"}
    BY <2>2 DEF WorkspaceNeeds, WorkspaceWriteNeeds, ReviewNeeds, DocumentNeeds
  <2> QED BY <2>3 DEF ReviewOrFull, Barred, gatesWrite
<1>3. ASSUME NEW t, TableOk(t), h \in DOMAIN t PROVE h \notin Barred
  BY <1>3 DEF TableOk, RowOk
<1>4. h \in Plain \/ h \in DOMAIN Needs \/ \E t \in CallTables : h \in DOMAIN t
  <2>1. CASE h \in RoutedHome
    <3>1. {AccountCalls, LedgerCalls, SecurityCalls} \subseteq CallTables
      BY DEF CallTables
    <3>2. h \in Plain \/ h \in DOMAIN AccountCalls \/ h \in DOMAIN LedgerCalls \/ h \in DOMAIN SecurityCalls
      BY <2>1 DEF RoutedHome
    <3> QED BY <3>1, <3>2, Zenon
  <2>2. CASE h \in RoutedGates
    <3>1. {GatePlanCalls, GateProofCalls, RecallCalls, SearchCalls, CompactionCalls, MemoryCalls} \subseteq CallTables
      BY DEF CallTables
    <3>2. h \in Plain \/ h \in DOMAIN GatePlanCalls \/ h \in DOMAIN GateProofCalls \/ h \in DOMAIN RecallCalls \/ h \in DOMAIN SearchCalls \/ h \in DOMAIN CompactionCalls \/ h \in DOMAIN MemoryCalls
      BY <2>2 DEF RoutedGates
    <3> QED BY <3>1, <3>2, Zenon
  <2>3. CASE h \in RoutedSessions
    <3>1. {ProjectCalls, SessionCalls, SessionCreateCalls, ReasoningCalls, SettingsCalls, GrantCalls} \subseteq CallTables
      BY DEF CallTables
    <3>2. h \in Plain \/ h \in DOMAIN ProjectCalls \/ h \in DOMAIN SessionCalls \/ h \in DOMAIN SessionCreateCalls \/ h \in DOMAIN ReasoningCalls \/ h \in DOMAIN SettingsCalls \/ h \in DOMAIN GrantCalls
      BY <2>3 DEF RoutedSessions
    <3> QED BY <3>1, <3>2, Zenon
  <2>4. CASE h \in RoutedRegistry
    <3>1. {MeshGrantCalls, InspectorCalls} \subseteq CallTables
      BY DEF CallTables
    <3>2. h \in Plain \/ h \in DOMAIN MeshGrantCalls \/ h \in DOMAIN InspectorCalls
      BY <2>4 DEF RoutedRegistry
    <3> QED BY <3>1, <3>2, Zenon
  <2>5. CASE h \in RoutedAdmin
    <3>1. {ExchangeCalls, BackupCalls, PurgeCalls, ImportCalls, ImportBatchCalls} \subseteq CallTables
      BY DEF CallTables
    <3>2. h \in Plain \/ h \in DOMAIN ExchangeCalls \/ h \in DOMAIN BackupCalls \/ h \in DOMAIN PurgeCalls \/ h \in DOMAIN ImportCalls \/ h \in DOMAIN ImportBatchCalls
      BY <2>5 DEF RoutedAdmin
    <3> QED BY <3>1, <3>2, Zenon
  <2>6. CASE h \in RoutedApps \cup RoutedProviderState \cup RoutedProviders
    BY <2>6 DEF RoutedApps, RoutedProviderState, RoutedProviders, OfflineHandlers, ProviderHandlers
  <2>7. CASE h \in RoutedWorkspace
    BY <2>7 DEF RoutedWorkspace
  <2> QED BY <2>1, <2>2, <2>3, <2>4, <2>5, <2>6, <2>7 DEF Routed
<1>5. \A t \in CallTables : TableOk(t)
  BY OneCallTables, TwoCallTables DEF CallTables
<1> QED BY <1>1, <1>2, <1>3, <1>4, <1>5

\* The calls of a handler, one by one.
LEMMA CallsAre ==
    ASSUME NEW h \in DOMAIN Calls
    PROVE  /\ Len(Calls[h]) \in Nat \ {0} /\ DOMAIN Calls[h] = 1..Len(Calls[h]) /\ Calls[h] # <<>>
           /\ \A i \in DOMAIN Calls[h] : Calls[h][i][1] \in Served
           /\ \A i, j \in DOMAIN Calls[h] : Calls[h][i][1] = Calls[h][j][1] => i = j
           /\ \A i \in DOMAIN Calls[h] : Calls[h][i][1] \in gatesWrite => h \in GateWriters
           /\ \A i \in DOMAIN Calls[h] : Calls[h][i][1] = "brain.purge" => h = "brain_purge" /\ i = 2
           /\ h = "brain_purge" => Calls[h][1][1] = "permissions.set_profile" /\ Calls[h][2][1] = "brain.purge"
           /\ h \in Special => Len(Calls[h]) = 2
<1>1. RowOk(h, Calls[h])
  BY CallsOk DEF TableOk
<1>2. PICK S, c : c = Calls[h] /\ c \in Seq(S) /\ c # <<>>
  BY <1>1 DEF RowOk
<1>3. Len(c) \in Nat \ {0} /\ DOMAIN c = 1..Len(c)
  BY <1>2
<1> QED BY <1>1, <1>2, <1>3 DEF RowOk, GateWriters

\* A method with a handler is not lost after the security policy.
LEMMA ServedIsRouted ==
    ASSUME NEW m \in Served, NEW scopes
    PROVE  Rejection(m, scopes) \notin {"no_worker", "no_handler"}
<1>1. m \in SystemMethods \/ (worker_for_method(m) # "none" /\ m \in Dispatched)
  BY DEF Served, worker_for_method, Dispatched
<1> QED BY <1>1 DEF Rejection

-----------------------------------------------------------------------------

Fields == {"h", "sig", "confirmed", "at", "k", "error", "status", "ran", "allowed"}

\* What the i-th call of a handler asks of the brain, and what a request asks for and needs.
MethodOf(h, i) == Calls[h][i][1]
AskedBy(h) == IF h \in DOMAIN Calls THEN {MethodOf(h, i) : i \in DOMAIN Calls[h]} ELSE {h}
NeededBy(h) == IF h \in DOMAIN Calls
               THEN {MethodOf(h, i) : i \in {j \in DOMAIN Calls[h] : <<h, j>> \notin Optional}}
               ELSE {h}

Calling(r) == r.at \in {"call", "brain"}

\* The parts of the invariant speak of a request r and of what may still run late, l.
\* The request ran what it asked for, nothing twice, and nothing that may still run late.
RanOnce(r, l) ==
    /\ DOMAIN r = Fields /\ r.h \in Routed /\ r.allowed
    /\ r.ran \in Seq(AskedBy(r.h)) /\ l \subseteq AskedBy(r.h)
    /\ \A i, j \in DOMAIN r.ran : r.ran[i] = r.ran[j] => i = j
    /\ \A i \in DOMAIN r.ran : r.ran[i] \notin l

\* Nothing has run before the checks and before a local answer.
NotYet(r, l) == r.at \in {"check", "local"} => r.ran = <<>> /\ l = {}

\* While the calls are made, those still to come have not run, and those behind have, unless an
\* error is kept for the answer.
CallsMade(r, l) ==
    /\ r.at = "check" => r.error = "none"
    /\ r.h \notin DOMAIN Calls => ~Calling(r) /\ l = {}
    /\ r.at = "local" => r.h \notin DOMAIN Calls
    /\ Calling(r) =>
           /\ r.k \in DOMAIN Calls[r.h]
           /\ \A i \in DOMAIN Calls[r.h] :
                  /\ i >= r.k => /\ MethodOf(r.h, i) \notin l
                                 /\ \A j \in DOMAIN r.ran : r.ran[j] # MethodOf(r.h, i)
                  /\ i < r.k /\ r.error = "none" /\ <<r.h, i>> \notin Optional =>
                         \E j \in DOMAIN r.ran : r.ran[j] = MethodOf(r.h, i)

\* What has run or may run has passed the checks of its handler.
Passed(r) ==
    /\ r.h \in GateWriters => r.sig = "good"
    /\ r.h = "brain_purge" => r.confirmed
ChecksPassed(r, l) == Calling(r) \/ r.at = "local" \/ r.ran # <<>> \/ l # {} => Passed(r)

\* The purge comes right after the change of profile, even when it comes late.
PurgeLast(r, l) ==
    r.h = "brain_purge" =>
        /\ \A i \in DOMAIN r.ran : r.ran[i] = "brain.purge" => i > 1 /\ r.ran[i - 1] = "permissions.set_profile"
        /\ Calling(r) /\ r.k = 1 => r.ran = <<>> /\ l = {}
        /\ (Calling(r) /\ r.k = 2) \/ "brain.purge" \in l => r.ran = <<"permissions.set_profile">>

RequestOk(r, l) ==
    /\ RanOnce(r, l) /\ NotYet(r, l) /\ CallsMade(r, l) /\ ChecksPassed(r, l) /\ PurgeLast(r, l)
    /\ r.error \notin {"no_worker", "no_handler"}

FrontInv == RequestOk(request, late)

LEMMA FrontInvAllows == FrontInv => RanAsAllowed
<1> SUFFICES ASSUME FrontInv, NEW i \in DOMAIN request.ran
             PROVE  LET m == request.ran[i] IN
                    /\ m \in gatesWrite => request.sig = "good"
                    /\ m = "brain.purge" => request.confirmed /\ i > 1 /\ request.ran[i - 1] = "permissions.set_profile"
  BY DEF FrontInv, RequestOk, RanOnce, RanAsAllowed
<1>1. PICK m, h : h = request.h /\ h \in Routed /\ m = request.ran[i] /\ m \in AskedBy(h)
  BY DEF FrontInv, RequestOk, RanOnce
<1>2. request.ran # <<>>
  OBVIOUS
<1>3. /\ h \in GateWriters => request.sig = "good"
      /\ h = "brain_purge" => request.confirmed
  BY <1>1, <1>2 DEF FrontInv, RequestOk, ChecksPassed, Passed
<1>4. CASE h \in DOMAIN Calls
  <2>1. PICK j \in DOMAIN Calls[h] : m = Calls[h][j][1]
    BY <1>1, <1>4 DEF AskedBy, MethodOf
  <2>2. m \in gatesWrite => h \in GateWriters
    BY <1>4, <2>1, CallsAre
  <2>3. m = "brain.purge" => h = "brain_purge"
    BY <1>4, <2>1, CallsAre
  <2> QED BY <1>1, <1>3, <2>2, <2>3 DEF FrontInv, RequestOk, PurgeLast
<1>5. CASE h \notin DOMAIN Calls
  <2>1. m = h
    BY <1>1, <1>5 DEF AskedBy
  <2>2. m \notin Barred
    BY <1>1, <2>1, RoutedOpen
  <2> QED BY <1>1, <1>3, <2>2 DEF Barred
<1> QED BY <1>4, <1>5

LEMMA FrontInitial == FrontInit => FrontInv
<1> SUFFICES ASSUME FrontInit PROVE FrontInv
  OBVIOUS
<1>1. PICK r : /\ r = request /\ DOMAIN r = Fields /\ r.h \in Routed /\ r.at = "check" /\ r.error = "none"
               /\ r.ran = <<>> /\ r.allowed /\ late = {}
  BY DEF FrontInit, Fields
<1>2. r.ran \in Seq(AskedBy(r.h)) /\ DOMAIN r.ran = {}
  BY <1>1
<1>3. ~Calling(r)
  BY <1>1 DEF Calling
<1>4. RanOnce(r, {})
  BY <1>1, <1>2 DEF RanOnce
<1>5. NotYet(r, {}) /\ CallsMade(r, {}) /\ ChecksPassed(r, {})
  BY <1>1, <1>3 DEF NotYet, CallsMade, ChecksPassed
<1>6. PurgeLast(r, {})
  BY <1>2, <1>3 DEF PurgeLast
<1> QED BY <1>1, <1>4, <1>5, <1>6 DEF FrontInv, RequestOk

-----------------------------------------------------------------------------
(* The steps of a request.                                                 *)

AnswerOf(r) == IF r.at # "done" THEN "none" ELSE IF r.status \in {200, 201} THEN "ok" ELSE "failed"

\* What a step of Exchange does to a request.
ExchangeStep(r, n) ==
    /\ n.h = r.h
    /\ \/ n.ran = r.ran
       \/ \E t \in AskedBy(r.h) : (\A i \in DOMAIN r.ran : r.ran[i] # t) /\ n.ran = Append(r.ran, t)
    /\ AnswerOf(n) = AnswerOf(r) \/ AnswerOf(r) = "none"
    /\ AnswerOf(r) = "none" /\ AnswerOf(n) = "ok" => \A t \in NeededBy(r.h) : \E i \in DOMAIN n.ran : n.ran[i] = t

LEMMA StepImplements ==
    ASSUME ExchangeStep(request, request')
    PROVE  ExchangeOf!ExchangeNext
<1>1. /\ Asked = AskedBy(request.h) /\ Needed = NeededBy(request.h)
      /\ Asked' = AskedBy(request'.h) /\ Needed' = NeededBy(request'.h)
  BY DEF Asked, Needed, AskedBy, NeededBy, MethodOf
<1>2. Asked' = Asked /\ Needed' = Needed
  BY <1>1 DEF ExchangeStep
<1>3. PICK before, after : /\ before = AnswerOf(request) /\ after = AnswerOf(request')
                           /\ before = (IF request.at # "done" THEN "none" ELSE IF request.status \in {200, 201} THEN "ok" ELSE "failed")
                           /\ after = (IF request'.at # "done" THEN "none" ELSE IF request'.status \in {200, 201} THEN "ok" ELSE "failed")
  BY DEF AnswerOf
<1>4. after = before \/ (before = "none" /\ after \in {"ok", "failed"})
  BY <1>3 DEF ExchangeStep
<1>5. request'.ran = request.ran \/ \E t \in Asked : t \in Asked /\ ~(\E i \in DOMAIN request.ran : request.ran[i] = t) /\ request'.ran = Append(request.ran, t)
  BY <1>1 DEF ExchangeStep
<1>6. after = "ok" /\ before = "none" => \A t \in Needed : \E i \in DOMAIN request'.ran : request'.ran[i] = t
  BY <1>1, <1>3 DEF ExchangeStep
<1> QED BY <1>2, <1>3, <1>4, <1>5, <1>6 DEF ExchangeOf!ExchangeNext, ExchangeOf!Do, ExchangeOf!Done, ExchangeOf!Answer

LEMMA ErrorsFail == ASSUME NEW r, NEW e PROVE ErrorStatus(r, e) \notin {200, 201}
BY DEF ErrorStatus, brain_error_status

\* What an answer of the k-th call does to the request.
LEMMA ReturnedIs ==
    ASSUME NEW r, DOMAIN r = Fields, NEW result, NEW n, n = Returned(r, result)
    PROVE  /\ DOMAIN n = Fields /\ n.h = r.h /\ n.sig = r.sig /\ n.confirmed = r.confirmed /\ n.ran = r.ran
           /\ n.allowed = r.allowed
           /\ n.error = (IF result # "ok" /\ r.error = "none" /\ <<r.h, r.k>> \notin Optional THEN result ELSE r.error)
           /\ \/ /\ n.at = "call" /\ n.k = r.k + 1
                 /\ r.k < Len(Calls[r.h]) /\ (result = "ok" \/ r.h \in MakesBoth)
              \/ /\ n.at = "done"
                 /\ n.status \in {200, 201} => n.error = "none"
                 /\ ~(r.k < Len(Calls[r.h]) /\ (result = "ok" \/ r.h \in MakesBoth))
<1> DEFINE error == IF result # "ok" /\ r.error = "none" /\ <<r.h, r.k>> \notin Optional THEN result ELSE r.error
           more == r.k < Len(Calls[r.h]) /\ (result = "ok" \/ r.h \in MakesBoth)
           status == IF error # "none" THEN ErrorStatus(r, error) ELSE IF r.h \in Created THEN 201 ELSE 200
<1>1. n = IF more THEN [r EXCEPT !.at = "call", !.k = r.k + 1, !.error = error]
          ELSE [[r EXCEPT !.error = error] EXCEPT !.at = "done", !.status = status]
  BY DEF Returned, Answered
<1>2. status \in {200, 201} => error = "none"
  BY ErrorsFail
<1> HIDE DEF error, more, status
<1>3. CASE more
  BY <1>1, <1>3 DEF Fields, error, more
<1>4. CASE ~more
  BY <1>1, <1>2, <1>4 DEF Fields, error, more
<1> QED BY <1>3, <1>4

\* An optional call is the last of its handler.
LEMMA OptionalIsLast ==
    ASSUME NEW h, NEW k, <<h, k>> \in Optional, h \in DOMAIN Calls
    PROVE  Len(Calls[h]) = 2 /\ k = 2
<1>1. h \in {"settings_get", "imports_list"} /\ k = 2
  BY DEF Optional
<1> QED BY <1>1, CallsAre DEF Special

\* The answer of a call in progress: it ran or not, and may have been left to run late.
LEMMA AnswerOfCall ==
    ASSUME NEW r, NEW l, RequestOk(r, l), Calling(r),
           NEW result, result \notin {"none", "no_worker", "no_handler"}, NEW ranNow, NEW lateNow,
           NEW method, method = MethodOf(r.h, r.k),
           \/ ranNow = r.ran /\ result # "ok" /\ lateNow \in {l, l \cup {method}, {}}
           \/ ranNow = Append(r.ran, method) /\ lateNow \in {l, {}},
           NEW m, DOMAIN m = Fields, m.ran = ranNow, m.h = r.h, m.k = r.k, m.sig = r.sig, m.confirmed = r.confirmed,
           m.error = r.error, m.allowed = r.allowed,
           NEW n, n = Returned(m, result)
    PROVE  RequestOk(n, lateNow) /\ ExchangeStep(r, n)
<1>1. PICK h, k, N : h = r.h /\ k = r.k /\ N = Len(Calls[h])
  OBVIOUS
<1>2. DOMAIN r = Fields /\ r.ran \in Seq(AskedBy(h)) /\ h \in DOMAIN Calls /\ k \in DOMAIN Calls[h]
  BY <1>1 DEF RequestOk, RanOnce, CallsMade
<1>3. N \in Nat \ {0} /\ DOMAIN Calls[h] = 1..N /\ k \in 1..N
  BY <1>1, <1>2, CallsAre
<1>4. \A i, j \in 1..N : MethodOf(h, i) = MethodOf(h, j) => i = j
  BY <1>2, <1>3, CallsAre DEF MethodOf
<1>5. /\ AskedBy(h) = {MethodOf(h, i) : i \in 1..N} /\ method = MethodOf(h, k) /\ method \in AskedBy(h)
      /\ NeededBy(h) = {MethodOf(h, i) : i \in {j \in 1..N : <<h, j>> \notin Optional}}
  BY <1>1, <1>2, <1>3 DEF AskedBy, NeededBy
<1>7. /\ DOMAIN n = Fields /\ n.h = h /\ n.sig = r.sig /\ n.confirmed = r.confirmed /\ n.ran = ranNow
      /\ n.allowed = r.allowed
      /\ n.error = (IF result # "ok" /\ r.error = "none" /\ <<h, k>> \notin Optional THEN result ELSE r.error)
      /\ \/ n.at = "call" /\ n.k = k + 1 /\ k < N /\ (result = "ok" \/ h \in MakesBoth)
         \/ /\ n.at = "done"
            /\ n.status \in {200, 201} => n.error = "none"
            /\ ~(k < N /\ (result = "ok" \/ h \in MakesBoth))
  BY <1>1, ReturnedIs
<1>8. PICK len \in Nat : DOMAIN r.ran = 1..len /\ len = Len(r.ran)
  BY <1>2
<1>9. /\ method \notin l
      /\ \A i \in 1..len : r.ran[i] # method /\ r.ran[i] \in AskedBy(h)
  <2>1. MethodOf(h, k) \notin l /\ \A j \in DOMAIN r.ran : r.ran[j] # MethodOf(h, k)
    <3>1. k \in DOMAIN Calls[r.h] /\ k >= r.k
      BY <1>1, <1>2, <1>3
    <3> QED BY <1>1, <3>1 DEF RequestOk, CallsMade
  <2> QED BY <1>2, <1>5, <1>8, <2>1
<1>10. ranNow \in Seq(AskedBy(h))
  <2>1. PICK S, s, x : S = AskedBy(h) /\ s = r.ran /\ x = method /\ s \in Seq(S) /\ x \in S
    BY <1>2, <1>5
  <2>2. Append(s, x) \in Seq(S)
    BY <2>1
  <2> QED BY <2>1, <2>2
<1>11. \/ ranNow = r.ran /\ result # "ok" /\ lateNow \in {l, l \cup {method}, {}}
       \/ /\ ranNow = Append(r.ran, method) /\ DOMAIN ranNow = 1..(len + 1) /\ lateNow \in {l, {}}
          /\ \A i \in 1..len : ranNow[i] = r.ran[i]
          /\ ranNow[len + 1] = method
  BY <1>2, <1>5, <1>8
<1>12. n.error = "none" => r.error = "none" /\ (result = "ok" \/ <<h, k>> \in Optional)
  BY <1>7
<1>13. RanOnce(n, lateNow)
  <2>1. lateNow \subseteq AskedBy(h)
    BY <1>1, <1>5, <1>11 DEF RequestOk, RanOnce
  <2>2. ASSUME NEW i \in DOMAIN ranNow, NEW j \in DOMAIN ranNow, ranNow[i] = ranNow[j] PROVE i = j
    <3>1. \A a, b \in 1..len : r.ran[a] = r.ran[b] => a = b
      BY <1>8 DEF RequestOk, RanOnce
    <3>2. CASE ranNow = r.ran
      BY <1>8, <2>2, <3>1, <3>2
    <3>3. CASE ranNow # r.ran
      <4>1. i \in 1..(len + 1) /\ j \in 1..(len + 1)
        BY <1>11, <2>2, <3>3
      <4>2. (i \in 1..len \/ i = len + 1) /\ (j \in 1..len \/ j = len + 1)
        BY <1>8, <4>1
      <4> QED BY <1>9, <1>11, <2>2, <3>1, <3>3, <4>2
    <3> QED BY <3>2, <3>3
  <2>3. \A i \in DOMAIN ranNow : ranNow[i] \notin lateNow
    BY <1>8, <1>9, <1>11 DEF RequestOk, RanOnce
  <2>4. h \in Routed /\ n.allowed
    BY <1>1, <1>7 DEF RequestOk, RanOnce
  <2> QED BY <1>7, <1>10, <2>1, <2>2, <2>3, <2>4 DEF RanOnce
<1>14. ASSUME NEW i \in 1..k, n.error = "none", <<h, i>> \notin Optional
       PROVE  \E j \in DOMAIN ranNow : ranNow[j] = MethodOf(h, i)
  <2>1. CASE i = k
    <3>1. ranNow[len + 1] = method /\ len + 1 \in DOMAIN ranNow
      BY <1>8, <1>11, <1>12, <1>14, <2>1
    <3> QED BY <1>5, <2>1, <3>1
  <2>2. CASE i # k
    <3>1. i \in 1..N /\ i < k
      BY <1>3, <2>2
    <3>2. PICK j \in DOMAIN r.ran : r.ran[j] = MethodOf(h, i)
      BY <1>1, <1>3, <1>12, <1>14, <3>1 DEF RequestOk, CallsMade
    <3> QED BY <1>8, <1>11, <3>2
  <2> QED BY <2>1, <2>2
<1>15. CallsMade(n, lateNow)
  <2>1. Calling(n) => n.at = "call" /\ n.k = k + 1 /\ k + 1 \in 1..N
    BY <1>3, <1>7 DEF Calling
  <2>2. ASSUME NEW i \in 1..N, i >= k + 1
        PROVE  MethodOf(h, i) \notin lateNow /\ \A j \in DOMAIN ranNow : ranNow[j] # MethodOf(h, i)
    <3>1. i >= k /\ MethodOf(h, i) # method
      BY <1>3, <1>4, <1>5, <2>2
    <3>2. MethodOf(h, i) \notin l /\ \A j \in DOMAIN r.ran : r.ran[j] # MethodOf(h, i)
      BY <1>1, <1>3, <3>1 DEF RequestOk, CallsMade
    <3> QED BY <1>8, <1>11, <3>1, <3>2
  <2>3. \A i \in 1..N : i < k + 1 => i \in 1..k
    BY <1>3
  <2>4. n.at \notin {"check", "local"}
    BY <1>7
  <2>5. ASSUME Calling(n)
        PROVE  /\ n.k \in DOMAIN Calls[h]
               /\ \A i \in DOMAIN Calls[h] :
                      /\ i >= n.k => /\ MethodOf(h, i) \notin lateNow
                                     /\ \A j \in DOMAIN n.ran : n.ran[j] # MethodOf(h, i)
                      /\ i < n.k /\ n.error = "none" /\ <<h, i>> \notin Optional =>
                             \E j \in DOMAIN n.ran : n.ran[j] = MethodOf(h, i)
    <3>1. n.k = k + 1 /\ n.k \in DOMAIN Calls[h] /\ n.ran = ranNow
      BY <1>3, <1>7, <2>1, <2>5
    <3>2. ASSUME NEW i \in DOMAIN Calls[h], i < n.k, n.error = "none", <<h, i>> \notin Optional
          PROVE  \E j \in DOMAIN n.ran : n.ran[j] = MethodOf(h, i)
      <4>1. i \in 1..k
        BY <1>3, <2>3, <3>1, <3>2
      <4> QED BY <1>14, <3>1, <3>2, <4>1
    <3> QED BY <1>3, <2>2, <3>1, <3>2
  <2> QED BY <1>2, <1>7, <2>4, <2>5 DEF CallsMade
<1>16. NotYet(n, lateNow) /\ ChecksPassed(n, lateNow)
  <2>1. Passed(r)
    BY DEF RequestOk, ChecksPassed
  <2>2. Passed(n)
    BY <1>1, <1>7, <2>1 DEF Passed
  <2>3. NotYet(n, lateNow)
    BY <1>7 DEF NotYet
  <2> QED BY <2>2, <2>3 DEF ChecksPassed
<1>17. PurgeLast(n, lateNow)
  <2> SUFFICES ASSUME h = "brain_purge" PROVE PurgeLast(n, lateNow)
    BY <1>7 DEF PurgeLast
  <2>1. PICK sp, pu : /\ sp = "permissions.set_profile" /\ pu = "brain.purge" /\ sp # pu
                      /\ N = 2 /\ MethodOf(h, 1) = sp /\ MethodOf(h, 2) = pu /\ h \notin MakesBoth
    <3>1. "brain_purge" \in Special /\ "brain_purge" \notin MakesBoth /\ "permissions.set_profile" # "brain.purge"
      BY DEF Special, MakesBoth
    <3>2. N = 2 /\ MethodOf(h, 1) = "permissions.set_profile" /\ MethodOf(h, 2) = "brain.purge"
      BY <1>1, <1>2, <3>1, CallsAre DEF MethodOf
    <3> QED BY <3>1, <3>2
  <2>2. CASE k = 1
    <3>1. r.ran = <<>> /\ l = {} /\ method = sp
      BY <1>1, <1>5, <2>1, <2>2 DEF RequestOk, PurgeLast
    <3>2. (ranNow = <<>> /\ result # "ok") \/ ranNow = <<sp>>
      BY <1>11, <3>1
    <3>3. pu \notin lateNow
      BY <1>11, <2>1, <3>1
    <3>4. Calling(n) => n.k = 2 /\ ranNow = <<sp>>
      BY <1>7, <2>1, <2>2, <3>2 DEF Calling
    <3>5. \A i \in DOMAIN ranNow : ranNow[i] # pu
      BY <2>1, <3>2
    <3> QED BY <1>7, <2>1, <3>3, <3>4, <3>5 DEF PurgeLast
  <2>3. CASE k = 2
    <3>1. r.ran = <<sp>> /\ method = pu /\ ~Calling(n)
      BY <1>1, <1>5, <1>7, <2>1, <2>3 DEF RequestOk, PurgeLast, Calling
    <3>2. ranNow = <<sp>> \/ ranNow = <<sp, pu>>
      BY <1>11, <3>1
    <3>3. pu \in lateNow => ranNow = <<sp>>
      BY <1>9, <1>11, <3>1
    <3>4. \A i \in DOMAIN ranNow : ranNow[i] = pu => i > 1 /\ ranNow[i - 1] = sp
      BY <2>1, <3>2
    <3> QED BY <1>7, <2>1, <3>1, <3>3, <3>4 DEF PurgeLast
  <2> QED BY <1>3, <2>1, <2>2, <2>3
<1>18. n.error \notin {"no_worker", "no_handler"}
  BY <1>7 DEF RequestOk
<1>19. ExchangeStep(r, n)
  <2>1. AnswerOf(r) = "none"
    BY DEF AnswerOf, Calling
  <2>2. n.ran = r.ran \/ n.ran = Append(r.ran, method)
    BY <1>7, <1>11
  <2>3. ASSUME AnswerOf(n) = "ok", NEW t \in NeededBy(h)
        PROVE  \E i \in DOMAIN n.ran : n.ran[i] = t
    <3>1. n.at = "done" /\ n.error = "none"
      BY <1>7, <2>3 DEF AnswerOf
    <3>2. k = N
      <4>1. ~(k < N /\ result = "ok") /\ (result = "ok" \/ <<h, k>> \in Optional)
        BY <1>7, <1>12, <3>1
      <4>2. CASE <<h, k>> \in Optional
        <5>1. Len(Calls[h]) = 2 /\ k = 2
          BY <1>2, <4>2, OptionalIsLast
        <5> QED BY <1>1, <5>1
      <4>3. CASE result = "ok"
        BY <1>3, <4>1, <4>3
      <4> QED BY <4>1, <4>2, <4>3
    <3>3. PICK i \in 1..N : t = MethodOf(h, i) /\ <<h, i>> \notin Optional
      BY <1>5
    <3> QED BY <1>7, <1>14, <3>1, <3>2, <3>3
  <2> QED BY <1>1, <1>5, <1>7, <1>8, <1>9, <2>1, <2>2, <2>3 DEF ExchangeStep
<1> QED BY <1>13, <1>15, <1>16, <1>17, <1>18, <1>19 DEF RequestOk

\* A request that is refused, or that starts its calls or its local answer.
LEMMA RequestChecked ==
    ASSUME NEW r, NEW l, RequestOk(r, l), r.at = "check",
           NEW n, DOMAIN n = Fields, n.h = r.h, n.sig = r.sig, n.confirmed = r.confirmed, n.ran = r.ran,
           n.error = r.error, n.allowed,
           \/ n.at = "done" /\ n.status \notin {200, 201}
           \/ n.at = "call" /\ n.k = 1 /\ r.h \in DOMAIN Calls /\ Passed(r)
           \/ n.at = "local" /\ r.h \notin DOMAIN Calls /\ Passed(r)
    PROVE  RequestOk(n, l) /\ ExchangeStep(r, n)
<1>1. /\ r.ran = <<>> /\ l = {} /\ r.error = "none" /\ r.h \in Routed /\ r.ran \in Seq(AskedBy(r.h))
  BY DEF RequestOk, RanOnce, NotYet, CallsMade
<1>2. DOMAIN r.ran = {}
  BY <1>1
<1>3. RanOnce(n, l) /\ NotYet(n, l)
  BY <1>1, <1>2 DEF RanOnce, NotYet
<1>4. CallsMade(n, l)
  <2>1. CASE n.at \in {"done", "local"}
    BY <1>1, <2>1 DEF CallsMade, Calling
  <2>2. CASE n.at = "call"
    <3>1. n.k = 1 /\ r.h \in DOMAIN Calls /\ 1 \in DOMAIN Calls[r.h] /\ \A i \in DOMAIN Calls[r.h] : ~(i < 1)
      BY <2>2, CallsAre
    <3> QED BY <1>1, <1>2, <2>2, <3>1 DEF CallsMade
  <2> QED BY <2>1, <2>2
<1>5. ChecksPassed(n, l)
  BY <1>1 DEF ChecksPassed, Passed, Calling
<1>6. PurgeLast(n, l)
  <2>1. Calling(n) => n.k = 1
    BY DEF Calling
  <2> QED BY <1>1, <1>2, <2>1 DEF PurgeLast
<1>7. ExchangeStep(r, n)
  <2>1. AnswerOf(r) = "none" /\ AnswerOf(n) # "ok"
    BY DEF AnswerOf
  <2> QED BY <2>1 DEF ExchangeStep
<1> QED BY <1>1, <1>3, <1>4, <1>5, <1>6, <1>7 DEF RequestOk

\* An answer without the brain.
LEMMA RequestAnswered ==
    ASSUME NEW r, NEW l, RequestOk(r, l), r.at = "local",
           NEW n, DOMAIN n = Fields, n.h = r.h, n.sig = r.sig, n.confirmed = r.confirmed,
           n.error = r.error, n.allowed = r.allowed, n.at = "done",
           n.ran = <<r.h>> \/ (n.ran = r.ran /\ n.status \notin {200, 201})
    PROVE  RequestOk(n, l) /\ ExchangeStep(r, n)
<1>1. PICK h : h = r.h
  OBVIOUS
<1>2. /\ r.ran = <<>> /\ l = {} /\ h \in Routed /\ h \notin DOMAIN Calls /\ r.allowed /\ Passed(r)
      /\ r.error \notin {"no_worker", "no_handler"}
  BY <1>1 DEF RequestOk, RanOnce, NotYet, CallsMade, ChecksPassed
<1>3. AskedBy(h) = {h} /\ NeededBy(h) = {h}
  BY <1>2 DEF AskedBy, NeededBy
<1>4. n.ran \in Seq({h}) /\ \/ n.ran = <<h>> /\ DOMAIN n.ran = {1} /\ n.ran[1] = h
                            \/ n.ran = <<>> /\ DOMAIN n.ran = {}
  <2>1. PICK s, t : s = <<h>> /\ t = <<>> /\ (n.ran = s \/ n.ran = t)
    BY <1>1, <1>2
  <2>2. s \in Seq({h}) /\ DOMAIN s = {1} /\ s[1] = h
    BY <2>1
  <2>3. t \in Seq({h}) /\ DOMAIN t = {}
    BY <2>1
  <2>4. CASE n.ran = s
    BY <2>1, <2>2, <2>4
  <2>5. CASE n.ran = t
    BY <2>1, <2>3, <2>5
  <2> QED BY <2>1, <2>4, <2>5
<1>5. RanOnce(n, l)
  BY <1>1, <1>2, <1>3, <1>4 DEF RanOnce
<1>6. NotYet(n, l) /\ CallsMade(n, l) /\ ~Calling(n)
  BY <1>2 DEF NotYet, CallsMade, Calling
<1>7. ChecksPassed(n, l)
  BY <1>2 DEF ChecksPassed, Passed
<1>8. PurgeLast(n, l)
  <2>1. h = "brain_purge" => \A i \in DOMAIN n.ran : n.ran[i] # "brain.purge"
    BY <1>4
  <2> QED BY <1>1, <1>2, <1>6, <2>1 DEF PurgeLast
<1>9. ExchangeStep(r, n)
  <2>1. AnswerOf(r) = "none"
    BY DEF AnswerOf
  <2>2. CASE n.ran = <<h>>
    <3>1. n.ran = Append(r.ran, h) /\ \A i \in DOMAIN r.ran : r.ran[i] # h
      BY <1>2, <2>2
    <3>2. \A t \in NeededBy(h) : \E i \in DOMAIN n.ran : n.ran[i] = t
      BY <1>3, <1>4, <2>2
    <3> QED BY <1>1, <1>3, <2>1, <3>1, <3>2 DEF ExchangeStep
  <2>3. CASE n.ran # <<h>>
    <3>1. n.ran = r.ran /\ AnswerOf(n) = "failed"
      BY <1>1, <2>3 DEF AnswerOf
    <3> QED BY <2>1, <3>1 DEF ExchangeStep
  <2> QED BY <2>2, <2>3
<1> QED BY <1>2, <1>5, <1>6, <1>7, <1>8, <1>9 DEF RequestOk

\* A call that reaches the brain.
LEMMA RequestSent ==
    ASSUME NEW r, NEW l, RequestOk(r, l), Calling(r),
           NEW n, DOMAIN n = Fields, n.h = r.h, n.sig = r.sig, n.confirmed = r.confirmed, n.k = r.k,
           n.error = r.error, n.allowed = r.allowed, n.ran = r.ran, n.at = "brain"
    PROVE  RequestOk(n, l) /\ ExchangeStep(r, n)
<1>1. Calling(n) /\ ~(n.at \in {"check", "local"}) /\ AnswerOf(r) = "none" /\ AnswerOf(n) = "none"
  BY DEF Calling, AnswerOf
<1>2. RanOnce(n, l)
  BY DEF RequestOk, RanOnce
<1>3. NotYet(n, l) /\ CallsMade(n, l)
  BY <1>1 DEF RequestOk, NotYet, CallsMade
<1>4. ChecksPassed(n, l)
  BY DEF RequestOk, ChecksPassed, Passed
<1>5. PurgeLast(n, l)
  BY <1>1 DEF RequestOk, PurgeLast
<1> QED BY <1>1, <1>2, <1>3, <1>4, <1>5 DEF RequestOk, ExchangeStep

\* runtime_status is answered without waiting; its job may run late.
LEMMA RequestGivenUp ==
    ASSUME NEW r, NEW l, RequestOk(r, l), Calling(r), r.h = "runtime_status",
           NEW n, DOMAIN n = Fields, n.h = r.h, n.sig = r.sig, n.confirmed = r.confirmed,
           n.error = r.error, n.allowed = r.allowed, n.ran = r.ran, n.at = "done", n.status = 503
    PROVE  RequestOk(n, l \cup {MethodOf(r.h, r.k)}) /\ ExchangeStep(r, n)
<1>1. PICK h, k, m, late1 : h = r.h /\ k = r.k /\ m = MethodOf(h, k) /\ late1 = l \cup {m}
  OBVIOUS
<1>2. ~Calling(n) /\ AnswerOf(r) = "none" /\ AnswerOf(n) = "failed"
  BY DEF Calling, AnswerOf
<1>3. h \in DOMAIN Calls /\ k \in DOMAIN Calls[h] /\ m \in AskedBy(h)
  BY <1>1 DEF RequestOk, CallsMade, AskedBy
<1>4. \A j \in DOMAIN r.ran : r.ran[j] # m
  <2>1. k >= k
    BY <1>3, CallsAre
  <2>2. CallsMade(r, l)
    BY DEF RequestOk
  <2>3. \A i \in DOMAIN Calls[r.h] : i >= r.k => \A j \in DOMAIN r.ran : r.ran[j] # MethodOf(r.h, i)
    BY <2>2 DEF CallsMade
  <2> QED BY <1>1, <1>3, <2>1, <2>3
<1>5. RanOnce(n, late1)
  BY <1>1, <1>3, <1>4 DEF RequestOk, RanOnce
<1>6. NotYet(n, late1) /\ CallsMade(n, late1)
  BY <1>1, <1>2, <1>3 DEF NotYet, CallsMade
<1>7. ChecksPassed(n, late1)
  BY DEF RequestOk, ChecksPassed, Passed
<1>8. PurgeLast(n, late1)
  BY DEF PurgeLast
<1> QED BY <1>1, <1>2, <1>5, <1>6, <1>7, <1>8 DEF RequestOk, ExchangeStep

\* A job whose caller has given up runs late.
LEMMA JobRanLate ==
    ASSUME NEW r, NEW l, RequestOk(r, l), NEW m \in l,
           NEW n, DOMAIN n = Fields, n.h = r.h, n.sig = r.sig, n.confirmed = r.confirmed, n.k = r.k, n.at = r.at,
           n.status = r.status, n.error = r.error, n.allowed = r.allowed, n.ran = Append(r.ran, m)
    PROVE  RequestOk(n, l \ {m}) /\ ExchangeStep(r, n)
<1>1. PICK h, k, late1, s : h = r.h /\ k = r.k /\ late1 = l \ {m} /\ s = r.ran
  OBVIOUS
<1>2. s \in Seq(AskedBy(h)) /\ m \in AskedBy(h)
  BY <1>1 DEF RequestOk, RanOnce
<1>3. PICK len \in Nat : DOMAIN s = 1..len /\ len = Len(s)
  BY <1>2
<1>4. /\ n.ran = Append(s, m) /\ n.ran \in Seq(AskedBy(h)) /\ DOMAIN n.ran = 1..(len + 1)
      /\ \A i \in 1..len : n.ran[i] = s[i]
      /\ n.ran[len + 1] = m
  BY <1>1, <1>2, <1>3
<1>5. /\ \A i \in 1..len : s[i] \notin l /\ s[i] # m
      /\ \A i, j \in 1..len : s[i] = s[j] => i = j
  <2>1. RanOnce(r, l)
    BY DEF RequestOk
  <2> QED BY <1>1, <1>3, <2>1 DEF RanOnce
<1>6. Calling(n) <=> Calling(r)
  BY DEF Calling
<1>7. RanOnce(n, late1)
  <2>1. ASSUME NEW i \in DOMAIN n.ran, NEW j \in DOMAIN n.ran, n.ran[i] = n.ran[j] PROVE i = j
    <3>1. (i \in 1..len \/ i = len + 1) /\ (j \in 1..len \/ j = len + 1)
      BY <1>3, <1>4, <2>1
    <3> QED BY <1>4, <1>5, <2>1, <3>1
  <2>2. ASSUME NEW i \in DOMAIN n.ran PROVE n.ran[i] \notin late1
    <3>1. i \in 1..len \/ i = len + 1
      BY <1>3, <1>4
    <3> QED BY <1>1, <1>4, <1>5, <3>1
  <2>3. late1 \subseteq AskedBy(h) /\ h \in Routed /\ n.allowed
    BY <1>1 DEF RequestOk, RanOnce
  <2> QED BY <1>1, <1>4, <2>1, <2>2, <2>3 DEF RanOnce
<1>8. NotYet(n, late1)
  BY DEF RequestOk, NotYet
<1>9. CallsMade(n, late1)
  <2>1. h \in DOMAIN Calls
    BY <1>1 DEF RequestOk, CallsMade
  <2>2. ASSUME Calling(n)
        PROVE  /\ k \in DOMAIN Calls[h]
               /\ \A i \in DOMAIN Calls[h] :
                     /\ i >= k => MethodOf(h, i) \notin l /\ \A j \in 1..len : s[j] # MethodOf(h, i)
                     /\ i < k /\ r.error = "none" /\ <<h, i>> \notin Optional =>
                            \E j \in 1..len : s[j] = MethodOf(h, i)
    BY <1>1, <1>3, <1>6, <2>2 DEF RequestOk, CallsMade
  <2>3. ASSUME Calling(n), NEW i \in DOMAIN Calls[h], i >= k
        PROVE  MethodOf(h, i) \notin late1 /\ \A j \in DOMAIN n.ran : n.ran[j] # MethodOf(h, i)
    <3>1. MethodOf(h, i) \notin l /\ \A j \in 1..len : s[j] # MethodOf(h, i)
      BY <2>2, <2>3
    <3>2. \A j \in 1..(len + 1) : j \in 1..len \/ j = len + 1
      BY <1>3
    <3> QED BY <1>1, <1>4, <3>1, <3>2
  <2>4. ASSUME Calling(n), NEW i \in DOMAIN Calls[h], i < k, n.error = "none", <<h, i>> \notin Optional
        PROVE  \E j \in DOMAIN n.ran : n.ran[j] = MethodOf(h, i)
    <3>1. PICK j \in 1..len : s[j] = MethodOf(h, i)
      BY <2>2, <2>4
    <3>2. j \in DOMAIN n.ran
      BY <1>3, <1>4
    <3> QED BY <1>4, <3>1, <3>2
  <2>5. n.at \notin {"check", "local"}
    BY DEF RequestOk, NotYet
  <2> QED BY <1>1, <2>1, <2>2, <2>3, <2>4, <2>5 DEF CallsMade
<1>10. ChecksPassed(n, late1)
  BY DEF RequestOk, ChecksPassed, Passed
<1>11. PurgeLast(n, late1)
  <2> SUFFICES ASSUME h = "brain_purge" PROVE PurgeLast(n, late1)
    BY <1>1 DEF PurgeLast
  <2>1. PICK sp, pu : sp = "permissions.set_profile" /\ pu = "brain.purge" /\ sp # pu
    OBVIOUS
  <2>2. h \in DOMAIN Calls /\ AskedBy(h) = {sp, pu} /\ DOMAIN Calls[h] = 1..2 /\ MethodOf(h, 2) = pu
    <3>1. h \in DOMAIN Calls /\ h \in Special
      BY <1>1 DEF RequestOk, CallsMade, Special
    <3>2. DOMAIN Calls[h] = 1..2 /\ MethodOf(h, 1) = sp /\ MethodOf(h, 2) = pu
      BY <2>1, <3>1, CallsAre DEF MethodOf
    <3> QED BY <3>1, <3>2 DEF AskedBy
  <2>3. /\ \A i \in 1..len : s[i] = pu => i > 1 /\ s[i - 1] = sp
        /\ pu \in l => s = <<sp>>
        /\ ~(Calling(n) /\ n.k = 1)
        /\ Calling(n) /\ n.k = 2 => s = <<sp>>
    BY <1>1, <1>3, <1>6, <2>1 DEF RequestOk, PurgeLast
  <2>4. ~(Calling(n) /\ n.k = 2)
    <3> SUFFICES ASSUME Calling(n), n.k = 2 PROVE FALSE
      OBVIOUS
    <3>1. s = <<sp>> /\ pu \notin l
      <4>1. 2 \in DOMAIN Calls[h] /\ 2 >= 2
        BY <2>2
      <4> QED BY <1>1, <1>6, <2>2, <2>3, <4>1 DEF RequestOk, CallsMade
    <3>2. m = sp
      BY <1>2, <2>2, <3>1
    <3> QED BY <1>3, <1>5, <3>1, <3>2
  <2>5. pu \notin late1
    <3> SUFFICES ASSUME pu \in l, m # pu PROVE FALSE
      BY <1>1
    <3>1. s = <<sp>> /\ m = sp
      BY <1>2, <2>2, <2>3
    <3> QED BY <1>3, <1>5, <3>1
  <2>6. ASSUME NEW i \in DOMAIN n.ran, n.ran[i] = pu
        PROVE  i > 1 /\ n.ran[i - 1] = sp
    <3>1. CASE i \in 1..len
      <4>1. i > 1 /\ s[i - 1] = sp /\ i - 1 \in 1..len
        BY <1>3, <1>4, <2>3, <2>6, <3>1
      <4> QED BY <1>4, <4>1
    <3>2. CASE i = len + 1
      <4>1. s = <<sp>> /\ len = 1
        BY <1>3, <1>4, <2>3, <2>6, <3>2
      <4> QED BY <1>4, <3>2, <4>1
    <3> QED BY <1>3, <1>4, <3>1, <3>2
  <2> QED BY <2>1, <2>3, <2>4, <2>5, <2>6 DEF PurgeLast
<1>12. ExchangeStep(r, n)
  <2>1. AnswerOf(n) = AnswerOf(r)
    BY DEF AnswerOf
  <2> QED BY <1>1, <1>2, <1>3, <1>4, <1>5, <2>1 DEF ExchangeStep
<1> QED BY <1>1, <1>7, <1>8, <1>9, <1>10, <1>11, <1>12 DEF RequestOk

-----------------------------------------------------------------------------
(* The steps of the exchange keep the invariant and implement Exchange.    *)

LEMMA ChecksArePassed ==
    ASSUME NEW r, Refusals(r) = {}
    PROVE  /\ Passed(r)
           /\ r.h \notin DOMAIN Needs \/ policy \in Needs[r.h]
<1>1. GateRefusal(r) = 0 /\ ConfirmRefusal(r) = 0 /\ FeatureRefusal(r) = 0 /\ ProfileRefusal(r) = 0
  BY DEF Refusals
<1> QED BY <1>1 DEF GateRefusal, ConfirmRefusal, FeatureRefusal, ProfileRefusal, Passed

LEMMA CheckKeeps == FrontInv /\ CheckRequest => FrontInv' /\ ExchangeStep(request, request')
<1> SUFFICES ASSUME FrontInv, CheckRequest PROVE FrontInv' /\ ExchangeStep(request, request')
  OBVIOUS
<1>1. PICK r, l : /\ r = request /\ l = late /\ RequestOk(r, l) /\ r.at = "check"
                     /\ DOMAIN r = Fields /\ r.allowed
  BY DEF FrontInv, CheckRequest, RequestOk, RanOnce
<1>2. late' = l
  BY <1>1 DEF CheckRequest
<1>3. PICK n : n = request'
  OBVIOUS
<1>4. SUFFICES RequestOk(n, l) /\ ExchangeStep(r, n)
  BY <1>1, <1>2, <1>3 DEF FrontInv
<1>5. CASE Refusals(r) # {}
  <2>1. PICK s : s = (CHOOSE status \in Refusals(r) : TRUE) /\ s \in Refusals(r)
    BY <1>5
  <2>2. s \notin {200, 201}
    <3>1. GateRefusal(r) \in {0, 401} /\ RecallRefusal(r) \in {0, 401} /\ ProfileRefusal(r) \in {0, 403}
          /\ FeatureRefusal(r) \in {0, 404} /\ ConfirmRefusal(r) \in {0, 400}
      BY DEF GateRefusal, RecallRefusal, ProfileRefusal, FeatureRefusal, ConfirmRefusal
    <3> QED BY <2>1, <3>1 DEF Refusals
  <2>3. n = [r EXCEPT !.at = "done", !.status = s]
    BY <1>1, <1>3, <1>5, <2>1 DEF CheckRequest, Answered
  <2>4. /\ DOMAIN n = Fields /\ n.h = r.h /\ n.sig = r.sig /\ n.confirmed = r.confirmed /\ n.ran = r.ran
        /\ n.error = r.error /\ n.allowed = r.allowed /\ n.at = "done" /\ n.status = s
    BY <1>1, <2>3 DEF Fields
  <2> QED BY <1>1, <2>2, <2>4, RequestChecked
<1>6. CASE Refusals(r) = {}
  <2>1. Passed(r) /\ (r.h \notin DOMAIN Needs \/ policy \in Needs[r.h])
    BY <1>1, <1>6, ChecksArePassed
  <2>2. CASE r.h \in DOMAIN Calls
    <3>1. n = [r EXCEPT !.at = "call", !.k = 1]
      BY <1>1, <1>3, <1>6, <2>2 DEF CheckRequest
    <3>2. /\ DOMAIN n = Fields /\ n.h = r.h /\ n.sig = r.sig /\ n.confirmed = r.confirmed /\ n.ran = r.ran
          /\ n.error = r.error /\ n.allowed = r.allowed /\ n.at = "call" /\ n.k = 1
      BY <1>1, <3>1 DEF Fields
    <3> QED BY <1>1, <2>1, <2>2, <3>2, RequestChecked
  <2>3. CASE r.h \notin DOMAIN Calls
    <3>1. n = [r EXCEPT !.at = "local", !.allowed = r.h \notin DOMAIN Needs \/ policy \in Needs[r.h]]
      BY <1>1, <1>3, <1>6, <2>3 DEF CheckRequest
    <3>2. /\ DOMAIN n = Fields /\ n.h = r.h /\ n.sig = r.sig /\ n.confirmed = r.confirmed /\ n.ran = r.ran
          /\ n.error = r.error /\ n.at = "local"
      BY <1>1, <3>1 DEF Fields
    <3>3. n.allowed
      BY <1>1, <2>1, <3>1 DEF Fields
    <3> QED BY <1>1, <2>1, <2>3, <3>2, <3>3, RequestChecked
  <2> QED BY <2>2, <2>3
<1> QED BY <1>5, <1>6

LEMMA LocalKeeps == FrontInv /\ AnswerLocally => FrontInv' /\ ExchangeStep(request, request')
<1> SUFFICES ASSUME FrontInv, AnswerLocally PROVE FrontInv' /\ ExchangeStep(request, request')
  OBVIOUS
<1>1. PICK r, l : /\ r = request /\ l = late /\ RequestOk(r, l) /\ r.at = "local"
                     /\ DOMAIN r = Fields
  BY DEF FrontInv, AnswerLocally, RequestOk, RanOnce
<1>2. late' = l
  BY <1>1 DEF AnswerLocally
<1>3. PICK n : n = request'
  OBVIOUS
<1>4. ASSUME NEW s, s \notin {200, 201}, request' = Answered(request, s)
      PROVE  RequestOk(n, l) /\ ExchangeStep(r, n)
  <2>1. n = [r EXCEPT !.at = "done", !.status = s]
    BY <1>1, <1>3, <1>4 DEF Answered
  <2>2. /\ DOMAIN n = Fields /\ n.h = r.h /\ n.sig = r.sig /\ n.confirmed = r.confirmed
        /\ n.error = r.error /\ n.allowed = r.allowed /\ n.at = "done" /\ n.ran = r.ran /\ n.status = s
    BY <1>1, <2>1 DEF Fields
  <2> QED BY <1>1, <1>4, <2>2, RequestAnswered
<1>5. ASSUME request' = Answered([request EXCEPT !.ran = <<request.h>>], 200)
      PROVE  RequestOk(n, l) /\ ExchangeStep(r, n)
  <2>1. PICK m : m = [r EXCEPT !.ran = <<r.h>>] /\ n = Answered(m, 200)
    <3>1. request' = Answered([r EXCEPT !.ran = <<r.h>>], 200)
      BY <1>1, <1>5, Zenon
    <3> QED BY <1>3, <3>1, Zenon
  <2>2. /\ DOMAIN m = Fields /\ m.h = r.h /\ m.sig = r.sig /\ m.confirmed = r.confirmed
        /\ m.error = r.error /\ m.allowed = r.allowed /\ m.ran = <<r.h>>
    BY <1>1, <2>1 DEF Fields
  <2>3. /\ DOMAIN n = Fields /\ n.h = m.h /\ n.sig = m.sig /\ n.confirmed = m.confirmed
        /\ n.error = m.error /\ n.allowed = m.allowed /\ n.at = "done" /\ n.ran = m.ran
    BY <2>1, <2>2 DEF Fields, Answered
  <2> QED BY <1>1, <2>2, <2>3, RequestAnswered
<1>6. RequestOk(n, l) /\ ExchangeStep(r, n)
  <2>1. \/ request' = Answered(request, 503) \/ request' = Answered(request, 501)
        \/ request' = Answered([request EXCEPT !.ran = <<request.h>>], 200) \/ request' = Answered(request, 400)
    BY Zenon DEF AnswerLocally
  <2> QED BY <1>4, <1>5, <2>1
<1> QED BY <1>1, <1>2, <1>3, <1>6 DEF FrontInv

\* The answer of the call in progress, whatever it is and whether or not the call ran.
LEMMA AnswerKeeps ==
    ASSUME FrontInv, Calling(request),
           NEW result, result \notin {"none", "no_worker", "no_handler"},
           NEW ranNow, \/ ranNow = request.ran /\ result # "ok" /\ late' \in {late, late \cup {Method}, {}}
                       \/ ranNow = Append(request.ran, Method) /\ late' \in {late, {}},
           NEW m, DOMAIN m = Fields, m.ran = ranNow, m.h = request.h, m.k = request.k, m.sig = request.sig,
           m.confirmed = request.confirmed, m.error = request.error, m.allowed = request.allowed,
           request' = Returned(m, result)
    PROVE  FrontInv' /\ ExchangeStep(request, request')
<1>1. PICK r, l, l1, method :
          /\ r = request /\ l = late /\ RequestOk(r, l) /\ DOMAIN r = Fields
          /\ l1 = late' /\ method = Method
  BY DEF FrontInv, RequestOk, RanOnce
<1>2. method = MethodOf(r.h, r.k)
  BY <1>1 DEF Method, MethodOf
<1>4. /\ DOMAIN m = Fields /\ m.ran = ranNow /\ m.h = r.h /\ m.k = r.k /\ m.sig = r.sig /\ m.confirmed = r.confirmed
      /\ m.error = r.error /\ m.allowed = r.allowed
  BY <1>1
<1>5. PICK n : n = request' /\ n = Returned(m, result)
  OBVIOUS
<1>6. \/ ranNow = r.ran /\ result # "ok" /\ l1 \in {l, l \cup {method}, {}}
      \/ ranNow = Append(r.ran, method) /\ l1 \in {l, {}}
  BY <1>1
<1>7. Calling(r)
  BY <1>1
<1>8. RequestOk(n, l1) /\ ExchangeStep(r, n)
  BY <1>1, <1>2, <1>4, <1>5, <1>6, <1>7, AnswerOfCall, Zenon
<1> QED BY <1>1, <1>5, <1>8 DEF FrontInv

\* The call in progress has a handler behind the scope table and the security policy.
LEMMA CallIsServed ==
    ASSUME FrontInv, Calling(request)
    PROVE  /\ DOMAIN request = Fields
           /\ \A scopes : Rejection(Method, scopes) \notin {"no_worker", "no_handler"}
<1>1. PICK r, h, k : r = request /\ h = r.h /\ k = r.k /\ DOMAIN r = Fields /\ h \in DOMAIN Calls /\ k \in DOMAIN Calls[h]
  BY DEF FrontInv, RequestOk, RanOnce, CallsMade
<1>2. Method \in Served
  BY <1>1, CallsAre DEF Method
<1> QED BY <1>1, <1>2, ServedIsRouted

LEMMA UnrunKeeps ==
    ASSUME FrontInv, Calling(request),
           NEW result, result \notin {"ok", "none", "no_worker", "no_handler"},
           late' \in {late, late \cup {Method}, {}},
           request' = Returned(request, result)
    PROVE  FrontInv' /\ ExchangeStep(request, request')
<1>1. DOMAIN request = Fields
  BY CallIsServed
<1> QED BY <1>1, AnswerKeeps

LEMMA RunKeeps ==
    ASSUME FrontInv, Calling(request),
           NEW result, result \notin {"none", "no_worker", "no_handler"}, late' \in {late, {}},
           request' = Returned([request EXCEPT !.ran = Append(request.ran, Method)], result)
    PROVE  FrontInv' /\ ExchangeStep(request, request')
<1>1. PICK r, ranNow, m : /\ r = request /\ ranNow = Append(request.ran, Method)
                          /\ m = [r EXCEPT !.ran = ranNow] /\ DOMAIN r = Fields
  BY CallIsServed
<1>2. request' = Returned([r EXCEPT !.ran = ranNow], result)
  BY <1>1, Zenon
<1>3. request' = Returned(m, result)
  BY <1>1, <1>2, Zenon
<1>4. /\ DOMAIN m = Fields /\ m.ran = ranNow /\ m.h = r.h /\ m.k = r.k /\ m.sig = r.sig /\ m.confirmed = r.confirmed
      /\ m.error = r.error /\ m.allowed = r.allowed
  BY <1>1 DEF Fields
<1>5. ranNow = Append(request.ran, Method)
  BY <1>1
<1> QED BY <1>1, <1>3, <1>4, <1>5, AnswerKeeps

LEMMA CallKeeps == FrontInv /\ CallBrain => FrontInv' /\ ExchangeStep(request, request')
<1> SUFFICES ASSUME FrontInv, CallBrain PROVE FrontInv' /\ ExchangeStep(request, request')
  OBVIOUS
<1>1. Calling(request) /\ UNCHANGED late
  BY DEF CallBrain, Calling
<1>2. CASE brainUp
  <2>1. PICK r, l, n : /\ r = request /\ l = late /\ n = request' /\ RequestOk(r, l)
                          /\ DOMAIN r = Fields /\ Calling(r)
    BY <1>1 DEF FrontInv, RequestOk, RanOnce
  <2>2. n = [r EXCEPT !.at = "brain"]
    BY <1>2, <2>1 DEF CallBrain
  <2>3. /\ DOMAIN n = Fields /\ n.h = r.h /\ n.sig = r.sig /\ n.confirmed = r.confirmed /\ n.k = r.k
        /\ n.error = r.error /\ n.allowed = r.allowed /\ n.ran = r.ran /\ n.at = "brain"
    BY <2>1, <2>2 DEF Fields
  <2>4. RequestOk(n, l) /\ ExchangeStep(r, n)
    BY <2>1, <2>3, RequestSent
  <2> QED BY <1>1, <2>1, <2>4 DEF FrontInv
<1>3. CASE ~brainUp
  <2>1. request' = Returned(request, "io")
    BY <1>3 DEF CallBrain
  <2> QED BY <1>1, <2>1, UnrunKeeps
<1> QED BY <1>2, <1>3

LEMMA RejectKeeps == FrontInv /\ BrainRejects => FrontInv' /\ ExchangeStep(request, request')
<1> SUFFICES ASSUME FrontInv, BrainRejects PROVE FrontInv' /\ ExchangeStep(request, request')
  OBVIOUS
<1>1. PICK e : /\ e = Rejection(Method, {Scope, "system"}) /\ Calling(request) /\ UNCHANGED late
               /\ \/ e \notin {"none", "quarantined"} /\ request' = Returned(request, e)
                  \/ request' = Returned(request, "quarantined")
  BY DEF BrainRejects, Calling
<1>2. e \notin {"ok", "no_worker", "no_handler"}
  <2>1. e \notin {"no_worker", "no_handler"}
    BY <1>1, CallIsServed
  <2>2. e # "ok"
    BY <1>1 DEF Rejection
  <2> QED BY <2>1, <2>2
<1>3. CASE request' = Returned(request, "quarantined")
  BY <1>1, <1>3, UnrunKeeps
<1>4. CASE e # "none" /\ request' = Returned(request, e)
  BY <1>1, <1>2, <1>4, UnrunKeeps
<1> QED BY <1>1, <1>3, <1>4

LEMMA ServeKeeps ==
    ASSUME FrontInv, NEW result \in {"ok"} \cup HandlerErrors, BrainServes(result)
    PROVE  FrontInv' /\ ExchangeStep(request, request')
<1>1. /\ Calling(request) /\ UNCHANGED late
      /\ request' = Returned([request EXCEPT !.ran = IF result = "ok" THEN Append(request.ran, Method) ELSE request.ran], result)
  BY DEF BrainServes, Calling
<1>2. result \notin {"none", "no_worker", "no_handler"}
  BY DEF HandlerErrors
<1>3. PICK r, ranNow, m, meth :
          /\ r = request /\ ranNow = (IF result = "ok" THEN Append(request.ran, Method) ELSE request.ran)
          /\ m = [r EXCEPT !.ran = ranNow] /\ DOMAIN r = Fields
  BY <1>1, CallIsServed
<1>4. request' = Returned(m, result)
  <2>1. request' = Returned([r EXCEPT !.ran = ranNow], result)
    BY <1>1, <1>3, Zenon
  <2> QED BY <1>3, <2>1, Zenon
<1>5. /\ DOMAIN m = Fields /\ m.ran = ranNow /\ m.h = r.h /\ m.k = r.k /\ m.sig = r.sig /\ m.confirmed = r.confirmed
      /\ m.error = r.error /\ m.allowed = r.allowed
  BY <1>3 DEF Fields
<1>6. (ranNow = request.ran /\ result # "ok") \/ ranNow = Append(request.ran, Method)
  BY <1>3
<1> QED BY <1>1, <1>2, <1>3, <1>4, <1>5, <1>6, AnswerKeeps

LEMMA SlowKeeps == FrontInv /\ BrainIsSlow => FrontInv' /\ ExchangeStep(request, request')
<1> SUFFICES ASSUME FrontInv, BrainIsSlow PROVE FrontInv' /\ ExchangeStep(request, request')
  OBVIOUS
<1>1. Calling(request)
  BY DEF BrainIsSlow, Calling
<1>2. CASE request' = Returned(request, "queue_full") /\ UNCHANGED late
  BY <1>1, <1>2, UnrunKeeps
<1>3. CASE request' = Returned(request, "worker_timeout") /\ late' = late \cup {Method}
  BY <1>1, <1>3, UnrunKeeps
<1> QED BY <1>2, <1>3, Zenon DEF BrainIsSlow

LEMMA GiveUpKeeps == FrontInv /\ IngressGivesUp => FrontInv' /\ ExchangeStep(request, request')
<1> SUFFICES ASSUME FrontInv, IngressGivesUp PROVE FrontInv' /\ ExchangeStep(request, request')
  OBVIOUS
<1>1. /\ Calling(request) /\ request.h = "runtime_status"
      /\ request' = Answered(request, 503) /\ late' = late \cup {Method}
  BY DEF IngressGivesUp, Calling
<1>2. PICK r, l, n : /\ r = request /\ l = late /\ n = request' /\ RequestOk(r, l)
                     /\ DOMAIN r = Fields /\ Calling(r) /\ r.h = "runtime_status"
  BY <1>1 DEF FrontInv, RequestOk, RanOnce
<1>3. n = [r EXCEPT !.at = "done", !.status = 503]
  BY <1>1, <1>2 DEF Answered
<1>4. /\ DOMAIN n = Fields /\ n.h = r.h /\ n.sig = r.sig /\ n.confirmed = r.confirmed
      /\ n.error = r.error /\ n.allowed = r.allowed /\ n.ran = r.ran /\ n.at = "done" /\ n.status = 503
  BY <1>2, <1>3 DEF Fields
<1>5. RequestOk(n, l \cup {MethodOf(r.h, r.k)}) /\ ExchangeStep(r, n)
  BY <1>2, <1>4, RequestGivenUp
<1>6. late' = l \cup {MethodOf(r.h, r.k)}
  BY <1>1, <1>2 DEF Method, MethodOf
<1> QED BY <1>2, <1>5, <1>6 DEF FrontInv

LEMMA LateKeeps == ASSUME FrontInv, NEW m \in late, LateJob(m) PROVE FrontInv' /\ ExchangeStep(request, request')
<1>1. PICK r, l, n : /\ r = request /\ l = late /\ n = request' /\ RequestOk(r, l)
                        /\ DOMAIN r = Fields
  BY DEF FrontInv, RequestOk, RanOnce
<1>2. n = [r EXCEPT !.ran = Append(r.ran, m)]
  BY <1>1 DEF LateJob
<1>3. /\ DOMAIN n = Fields /\ n.h = r.h /\ n.sig = r.sig /\ n.confirmed = r.confirmed /\ n.k = r.k /\ n.at = r.at
      /\ n.status = r.status /\ n.error = r.error /\ n.allowed = r.allowed /\ n.ran = Append(r.ran, m)
  BY <1>1, <1>2 DEF Fields
<1>4. RequestOk(n, l \ {m}) /\ ExchangeStep(r, n)
  BY <1>1, <1>3, JobRanLate
<1> QED BY <1>1, <1>4 DEF FrontInv, LateJob

\* A stop of the brain loses the jobs left behind.
LEMMA StopKeeps == FrontInv /\ BrainStops => FrontInv' /\ ExchangeStep(request, request')
<1> SUFFICES ASSUME FrontInv, BrainStops PROVE FrontInv' /\ ExchangeStep(request, request')
  OBVIOUS
<1>1. late' = {}
  BY DEF BrainStops
<1>2. CASE UNCHANGED request
  <2>1. PICK r, l : r = request /\ l = late /\ RequestOk(r, l)
    BY DEF FrontInv
  <2>2. RanOnce(r, {}) /\ NotYet(r, {}) /\ CallsMade(r, {}) /\ ChecksPassed(r, {}) /\ PurgeLast(r, {})
    <3>1. RanOnce(r, {})
      BY <2>1 DEF RequestOk, RanOnce
    <3>2. NotYet(r, {})
      BY <2>1 DEF RequestOk, NotYet
    <3>3. CallsMade(r, {})
      BY <2>1 DEF RequestOk, CallsMade
    <3>4. ChecksPassed(r, {})
      BY <2>1 DEF RequestOk, ChecksPassed
    <3>5. PurgeLast(r, {})
      BY <2>1 DEF RequestOk, PurgeLast
    <3> QED BY <3>1, <3>2, <3>3, <3>4, <3>5
  <2>3. RequestOk(r, {}) /\ ExchangeStep(r, r)
    BY <2>1, <2>2 DEF RequestOk, ExchangeStep
  <2> QED BY <1>1, <1>2, <2>1, <2>3 DEF FrontInv
<1>3. CASE request.at = "brain" /\ request' = Returned(request, "io")
  BY <1>1, <1>3, UnrunKeeps DEF Calling
<1>4. CASE request.at = "brain" /\ request' = Returned([request EXCEPT !.ran = Append(request.ran, Method)], "io")
  <2>1. Calling(request) /\ late' \in {late, {}}
    BY <1>1, <1>4 DEF Calling
  <2>2. "io" \notin {"none", "no_worker", "no_handler"}
    OBVIOUS
  <2> QED BY <1>1, <1>4, <2>1, <2>2, RunKeeps, Zenon
<1> QED BY <1>2, <1>3, <1>4, Zenon DEF BrainStops

LEMMA StepsKeep == FrontInv /\ [FrontNext]_frontVars => FrontInv' /\ ExchangeStep(request, request')
<1> SUFFICES ASSUME FrontInv, [FrontNext]_frontVars PROVE FrontInv' /\ ExchangeStep(request, request')
  OBVIOUS
<1>1. CASE CheckRequest
  BY <1>1, CheckKeeps
<1>2. CASE AnswerLocally
  BY <1>2, LocalKeeps
<1>3. CASE CallBrain
  BY <1>3, CallKeeps
<1>4. CASE BrainRejects
  BY <1>4, RejectKeeps
<1>5. ASSUME NEW result \in {"ok"} \cup HandlerErrors, BrainServes(result)
      PROVE  FrontInv' /\ ExchangeStep(request, request')
  BY <1>5, ServeKeeps
<1>6. CASE BrainIsSlow
  BY <1>6, SlowKeeps
<1>7. ASSUME NEW m \in late, LateJob(m) PROVE FrontInv' /\ ExchangeStep(request, request')
  BY <1>7, LateKeeps
<1>8. CASE BrainStops
  BY <1>8, StopKeeps
<1>11. CASE IngressGivesUp
  BY <1>11, GiveUpKeeps
<1>9. CASE UNCHANGED <<request, late>>
  BY <1>9 DEF FrontInv, ExchangeStep
<1>10. ASSUME StoreWedges \/ BrainStarts \/ (\E p \in Profiles : SetProfile(p)) \/ UNCHANGED frontVars
       PROVE  UNCHANGED <<request, late>>
  BY <1>10 DEF StoreWedges, BrainStarts, SetProfile, frontVars
<1> QED BY <1>1, <1>2, <1>3, <1>4, <1>5, <1>6, <1>7, <1>8, <1>9, <1>10, <1>11 DEF FrontNext, Step

\* Whatever the brain does, nothing runs that the checks of its route should have kept out.
THEOREM NothingRunsUnchecked == FrontSpec => []RanAsAllowed
<1>1. FrontSpec => []FrontInv
  BY FrontInitial, StepsKeep, PTL DEF FrontSpec
<1> QED BY <1>1, FrontInvAllows, PTL

\* No call of a route is lost between the scope table, the security policy, the worker table and
\* the dispatch table, for any of the routes.
THEOREM NoCallIsLost == FrontSpec => []AcceptedIsRouted
<1>1. FrontSpec => []FrontInv
  BY FrontInitial, StepsKeep, PTL DEF FrontSpec
<1>2. FrontInv => AcceptedIsRouted
  BY DEF FrontInv, RequestOk, AcceptedIsRouted
<1> QED BY <1>1, <1>2, PTL

\* The safety part of the refinement: a request is answered once, runs nothing twice and nothing
\* it did not ask for, and success means that every call it depends on has run.
THEOREM RequestsAreExchanges ==
    FrontSpec => ExchangeOf!ExchangeInit /\ [][ExchangeOf!ExchangeNext]_(ExchangeOf!exchangeVars)
<1>1. FrontInit => ExchangeOf!ExchangeInit
  BY DEF FrontInit, ExchangeOf!ExchangeInit
<1>2. FrontInv /\ [FrontNext]_frontVars => FrontInv' /\ [ExchangeOf!ExchangeNext]_(ExchangeOf!exchangeVars)
  BY StepsKeep, StepImplements
<1> QED BY <1>1, <1>2, FrontInitial, PTL DEF FrontSpec
=============================================================================

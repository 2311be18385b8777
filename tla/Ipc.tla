-------------------------------- MODULE Ipc --------------------------------
(***************************************************************************)
(* The socket server of hom-brain (ipc/server.rs): serve accepts           *)
(* connections, a task per connection reads frames and answers each before *)
(* it reads the next, and process_frame takes a frame through the method   *)
(* table, the envelope verifier (a mutex shared by all connections), the   *)
(* security policy and, when all agree, the dispatcher.                    *)
(*                                                                         *)
(* Beyond Envelope's fields a request has: parses (the line is a request), *)
(* method ("work", "shutdown" or "unknown": required_scope has no entry),  *)
(* quarantined (evaluate_request denies it).                               *)
(***************************************************************************)
EXTENDS Envelope, Sequences

CONSTANTS
    Connections,   \* connections that can be open
    None           \* no request

VARIABLES
    server,      \* serve: about to look at the flag, in accept(), or returned
    shutdown,    \* shutting_down
    link,        \* each connection: closed, or where its task is
    frame,       \* the request each task works on
    reply,       \* what each task is about to write
    dispatched,  \* history variable: requests handed to the dispatcher
    audited      \* history variable: requests whose denial this process put on the ledger

ipcVars == <<server, shutdown, link, frame, reply, dispatched, audited>>

vars == <<envVars, ipcVars>>

Init ==
    /\ EnvInit
    /\ server = "check" /\ shutdown = FALSE
    /\ link = [c \in Connections |-> "closed"]
    /\ frame = [c \in Connections |-> None]
    /\ reply = [c \in Connections |-> "none"]
    /\ dispatched = {} /\ audited = {}

-----------------------------------------------------------------------------
(* serve *)

\* The flag is looked at between two accepts.
ServeCheck ==
    /\ server = "check"
    /\ IF shutdown
       THEN /\ server' = "returned"
            /\ link' = [c \in Connections |-> "closed"]
            /\ frame' = [c \in Connections |-> None]
            /\ reply' = [c \in Connections |-> "none"]
       ELSE /\ server' = "accept"
            /\ UNCHANGED <<link, frame, reply>>
    /\ UNCHANGED <<envVars, shutdown, dispatched, audited>>

ServeAccept(c) ==
    /\ server = "accept" /\ link[c] = "closed"
    /\ link' = [link EXCEPT ![c] = "idle"]
    /\ server' = "check"
    /\ UNCHANGED <<envVars, shutdown, frame, reply, dispatched, audited>>

-----------------------------------------------------------------------------
(* handle_connection and process_frame *)

\* The task of connection c answers with x.
Answer(c, x) ==
    /\ link' = [link EXCEPT ![c] = "reply"]
    /\ reply' = [reply EXCEPT ![c] = x]

\* read_line returns a frame.  Lines that are no request and unknown methods are
\* answered before the verifier sees them.
ReadFrame(c, r) ==
    /\ link[c] = "idle"
    /\ frame' = [frame EXCEPT ![c] = r]
    /\ IF ~r.parses THEN Answer(c, "parse_error")
       ELSE IF r.method = "unknown" THEN Answer(c, "method_not_found")
       ELSE link' = [link EXCEPT ![c] = "verify"] /\ UNCHANGED reply
    /\ UNCHANGED <<envVars, server, shutdown, dispatched, audited>>

\* The client closes the connection: read_line returns 0.
HangUp(c) ==
    /\ link[c] = "idle"
    /\ link' = [link EXCEPT ![c] = "closed"]
    /\ UNCHANGED <<envVars, server, shutdown, frame, reply, dispatched, audited>>

\* verify_request, under the verifier's mutex.
VerifyFrame(c) ==
    /\ link[c] = "verify"
    /\ LET r == frame[c]
           v == Verdict(r)
       IN  /\ verify_body(r)
           /\ IF v = "ok"
              THEN link' = [link EXCEPT ![c] = "policy"] /\ UNCHANGED reply
              ELSE Answer(c, v)
    /\ UNCHANGED <<server, shutdown, frame, dispatched, audited>>

\* evaluate_request denies: record_security_decision appends a ledger event, or fails, and
\* its error is swallowed.
RecordDenial(c) ==
    /\ link[c] = "policy" /\ frame[c].quarantined
    /\ \/ link' = [link EXCEPT ![c] = "recorded"] /\ audited' = audited \cup {frame[c]}
       \/ link' = [link EXCEPT ![c] = "unrecorded"] /\ UNCHANGED audited
    /\ UNCHANGED <<envVars, server, shutdown, frame, reply, dispatched>>

\* Mutant of AnswerDenial: the answer does not wait for the append.
AnswerDenial_Ahead(c) ==
    /\ link[c] \in {"policy", "recorded", "unrecorded"} /\ frame[c].quarantined
    /\ Answer(c, IF link[c] = "unrecorded" THEN "rejected" ELSE "rejected_and_recorded")
    /\ UNCHANGED <<envVars, server, shutdown, frame, dispatched, audited>>

\* Then the answer goes out, with the event when there is one.
AnswerDenial(c) ==
    /\ link[c] \in {"recorded", "unrecorded"}
    /\ Answer(c, IF link[c] = "recorded" THEN "rejected_and_recorded" ELSE "rejected")
    /\ UNCHANGED <<envVars, server, shutdown, frame, dispatched, audited>>

\* Mutant of DispatchFrame: denied frames are dispatched too.
DispatchFrame_AnyFrame(c) ==
    /\ link[c] = "policy"
    /\ dispatched' = dispatched \cup {frame[c]}
    /\ shutdown' = (shutdown \/ frame[c].method = "shutdown")
    /\ link' = [link EXCEPT ![c] = "working"]
    /\ UNCHANGED <<envVars, server, frame, reply, audited>>

\* dispatch: system.shutdown only sets the flag, the rest is routed to a worker.
DispatchFrame(c) ==
    /\ link[c] = "policy" /\ ~frame[c].quarantined
    /\ dispatched' = dispatched \cup {frame[c]}
    /\ shutdown' = (shutdown \/ frame[c].method = "shutdown")
    /\ link' = [link EXCEPT ![c] = "working"]
    /\ UNCHANGED <<envVars, server, frame, reply, audited>>

\* route returns: a result, or one of its errors.
WorkDone(c) ==
    /\ link[c] = "working"
    /\ Answer(c, "answered")
    /\ UNCHANGED <<envVars, server, shutdown, frame, dispatched, audited>>

\* The answer is written, or the write fails and the task ends.
WriteReply(c) ==
    /\ link[c] = "reply"
    /\ \E next \in {"idle", "closed"} : link' = [link EXCEPT ![c] = next]
    /\ frame' = [frame EXCEPT ![c] = None]
    /\ reply' = [reply EXCEPT ![c] = "none"]
    /\ UNCHANGED <<envVars, server, shutdown, dispatched, audited>>

\* main returns with serve, or the process dies, and it is started again.
Restart ==
    /\ EnvRestart
    /\ server' = "check" /\ shutdown' = FALSE
    /\ link' = [c \in Connections |-> "closed"]
    /\ frame' = [c \in Connections |-> None]
    /\ reply' = [c \in Connections |-> "none"]
    /\ dispatched' = {} /\ audited' = {}

-----------------------------------------------------------------------------
Clock == (Tick \/ SetBack) /\ UNCHANGED ipcVars

Task(c) == \/ VerifyFrame(c) \/ RecordDenial(c) \/ AnswerDenial(c)
           \/ DispatchFrame(c) \/ WorkDone(c) \/ WriteReply(c)

Next ==
    \/ Clock
    \/ Restart
    \/ ServeCheck
    \/ \E c \in Connections : ServeAccept(c) \/ HangUp(c) \/ Task(c)
    \/ \E c \in Connections, r \in Requests : ReadFrame(c, r)

Spec == Init /\ [][Next]_vars

-----------------------------------------------------------------------------
(* Properties *)

\* Only a request that every check agrees with reaches the dispatcher: intact,
\* signed by a known client, with scopes it holds, and permitted by the policy.
OnlyVettedDispatched ==
    \A r \in dispatched :
        /\ r.bodyOk /\ r.sigOk /\ r.pubOk /\ r.client \in DOMAIN Granted
        /\ r.required \in r.scope /\ r.scope \subseteq Granted[r.client]
        /\ ~r.quarantined

\* An answer that says the denial was recorded is true from the moment it is made: one
\* process judges a request once, so that the record is of this delivery.
RecordedBeforeAnswer ==
    \A c \in Connections : reply[c] = "rejected_and_recorded" => frame[c] \in audited

=============================================================================

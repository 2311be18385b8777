----------------------------- MODULE MCService -----------------------------
\* Model-checking instances of Front, Ipc and WeightedQueue: what a request meets on its way
\* to a worker of the brain.  They share no variable: a behaviour moves one of them and
\* leaves the others as they began.  FrontFairness leaves to liveness those of Front.
EXTENDS Ipc, Front, WeightedQueue

VARIABLE part

\* Ipc: one client; a good request, a copy for each of the ways a frame can end, and
\* system.shutdown.
MCGranted == [client |-> {"read"}]

Good == [parses |-> TRUE, method |-> "work", complete |-> TRUE, client |-> "client",
         pubOk |-> TRUE, nonce |-> "n", ts |-> 1, scope |-> {"read"},
         required |-> "read", bodyOk |-> TRUE, sigOk |-> TRUE, quarantined |-> FALSE]

\* The last one is signed so much later that a nonce table keeping both keys is wrong.
MCRequests == {Good, [Good EXCEPT !.parses = FALSE], [Good EXCEPT !.method = "unknown"],
               [Good EXCEPT !.bodyOk = FALSE], [Good EXCEPT !.quarantined = TRUE],
               [Good EXCEPT !.client = "stranger"], [Good EXCEPT !.required = "write"],
               [Good EXCEPT !.method = "shutdown", !.nonce = "m"], [Good EXCEPT !.ts = 6]}

\* WeightedQueue: two places per class, so that a class can be refilled while it is served,
\* can empty, and can be full when a push arrives.
MCCaps == [p \in Priorities |-> 2]

MCInit ==
    /\ Init /\ FrontInit /\ QueueInit /\ part \in {"socket", "front", "queue"}
    /\ part # "front" => memoryImport /\ request.h = "health" /\ request.sig = "good" /\ request.confirmed

MCNext ==
    /\ UNCHANGED part
    /\ \/ part = "socket" /\ Next /\ UNCHANGED <<frontVars, queueVars>>
       \/ part = "front" /\ FrontNext /\ UNCHANGED <<vars, queueVars>>
       \/ part = "queue" /\ QueueNext /\ UNCHANGED <<vars, frontVars>>

MCSpec == MCInit /\ [][MCNext]_<<vars, frontVars, queueVars, part>> /\ FrontFairness
=============================================================================

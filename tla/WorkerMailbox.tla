--------------------------- MODULE WorkerMailbox ---------------------------
(***************************************************************************)
(* One worker of BrainRuntime (workers/mod.rs) and its mailbox: a weighted *)
(* queue behind a mutex, a tokio Notify that stores at most one permit,    *)
(* and for every request a oneshot channel on which route waits for the    *)
(* answer, at most 30 seconds.                                             *)
(*                                                                         *)
(* route pushes under the mutex and notifies after releasing it; the       *)
(* worker takes the mutex for each pop and runs the handler without it.    *)
(* A timed-out request leaves its job in the queue: the job still runs and *)
(* its answer is dropped.                                                  *)
(***************************************************************************)
EXTENDS WeightedQueue, FiniteSets

CONSTANT NoJob   \* the worker holds no job

ASSUME NoJobAssumption == NoJob \notin Jobs

VARIABLES
    caller,   \* where the route call of each request is
    answer,   \* the oneshot channel of each request
    permit,   \* Notify: a stored permit
    worker,   \* "parked" in notified(), "draining" the queue
    job,      \* the job the worker is running, or NoJob
    pushLog,  \* history variable: jobs in push order, per class
    popLog    \* history variable: jobs in pop order, per class

vars == <<queueVars, caller, answer, permit, worker, job, pushLog, popLog>>

Init ==
    /\ QueueInit
    /\ caller = [r \in Jobs |-> "new"]
    /\ answer = [r \in Jobs |-> "none"]
    /\ permit = FALSE
    /\ worker = "parked"
    /\ job = NoJob
    /\ pushLog = [p \in Priorities |-> <<>>]
    /\ popLog = [p \in Priorities |-> <<>>]

-----------------------------------------------------------------------------
(* route *)

\* Push under the queue mutex, or return queue_full.
RoutePush(r, p) ==
    /\ caller[r] = "new"
    /\ \/ /\ push(p, r)
          /\ caller' = [caller EXCEPT ![r] = "pushed"]
          /\ pushLog' = [pushLog EXCEPT ![p] = Append(@, r)]
       \/ /\ is_full(p)
          /\ caller' = [caller EXCEPT ![r] = "queue_full"]
          /\ UNCHANGED <<queueVars, pushLog>>
    /\ UNCHANGED <<answer, permit, worker, job, popLog>>

\* Mutant of RouteNotify: the notification is forgotten.
RouteNotify_Missing(r) ==
    /\ caller[r] = "pushed"
    /\ caller' = [caller EXCEPT ![r] = "waiting"]
    /\ UNCHANGED <<queueVars, answer, permit, worker, job, pushLog, popLog>>

\* notify_one, after the mutex is released; then wait on the channel.
RouteNotify(r) ==
    /\ caller[r] = "pushed"
    /\ caller' = [caller EXCEPT ![r] = "waiting"]
    /\ permit' = TRUE
    /\ UNCHANGED <<queueVars, answer, worker, job, pushLog, popLog>>

\* The answer arrives.
RouteReceive(r) ==
    /\ caller[r] = "waiting" /\ answer[r] # "none"
    /\ caller' = [caller EXCEPT ![r] = "answered"]
    /\ UNCHANGED <<queueVars, answer, permit, worker, job, pushLog, popLog>>

\* 30 seconds pass first: the receiver is dropped, the job is not.
RouteTimeout(r) ==
    /\ caller[r] = "waiting" /\ answer[r] = "none"
    /\ caller' = [caller EXCEPT ![r] = "worker_timeout"]
    /\ UNCHANGED <<queueVars, answer, permit, worker, job, pushLog, popLog>>

-----------------------------------------------------------------------------
(* worker_loop *)

\* notified().await returns and consumes the permit.
WorkerWake ==
    /\ worker = "parked" /\ permit
    /\ worker' = "draining"
    /\ permit' = FALSE
    /\ UNCHANGED <<queueVars, caller, answer, job, pushLog, popLog>>

\* One pop under the queue mutex.
WorkerPop ==
    /\ worker = "draining" /\ job = NoJob
    /\ pop
    /\ LET p == CHOOSE c \in Priorities : queue'[c] # queue[c]
       IN  /\ job' = Head(queue[p])
           /\ popLog' = [popLog EXCEPT ![p] = Append(@, Head(queue[p]))]
    /\ UNCHANGED <<caller, answer, permit, worker, pushLog>>

\* The queue is empty: back to notified().
WorkerPark ==
    /\ worker = "draining" /\ job = NoJob
    /\ IsEmpty
    /\ worker' = "parked"
    /\ UNCHANGED <<queueVars, caller, answer, permit, job, pushLog, popLog>>

\* Mutant of WorkerFinish: the worker runs one job per wakeup.
WorkerFinish_OnePerWake(result) ==
    /\ job # NoJob
    /\ answer' = [answer EXCEPT ![job] =
                    IF caller[job] = "worker_timeout" THEN @ ELSE result]
    /\ job' = NoJob
    /\ worker' = "parked"
    /\ UNCHANGED <<queueVars, caller, permit, pushLog, popLog>>

\* The handler returns, or panics and is caught; the send fails silently when
\* the receiver is gone.
WorkerFinish(result) ==
    /\ job # NoJob
    /\ answer' = [answer EXCEPT ![job] =
                    IF caller[job] = "worker_timeout" THEN @ ELSE result]
    /\ job' = NoJob
    /\ UNCHANGED <<queueVars, caller, permit, worker, pushLog, popLog>>

-----------------------------------------------------------------------------
Results == {"result", "worker_panic"}

Worker == WorkerWake \/ WorkerPop \/ WorkerPark \/ \E x \in Results : WorkerFinish(x)

Next ==
    \/ \E r \in Jobs, p \in Priorities : RoutePush(r, p)
    \/ \E r \in Jobs : RouteNotify(r) \/ RouteReceive(r) \/ RouteTimeout(r)
    \/ Worker

\* The runtime polls every task that can move: the worker, whose handlers are
\* taken to return, and each caller that has pushed.  Nothing makes a client
\* send a request or a request time out.
Fairness ==
    /\ WF_vars(Worker)
    /\ \A r \in Jobs : WF_vars(RouteNotify(r)) /\ WF_vars(RouteReceive(r))

Spec == Init /\ [][Next]_vars

FairSpec == Spec /\ Fairness

-----------------------------------------------------------------------------
(* Properties *)

\* No lost wakeup: while jobs are queued and the worker sleeps, a permit is
\* stored or the caller that will store one has not notified yet.
NoLostWakeup ==
    worker = "parked" => \/ IsEmpty
                         \/ permit
                         \/ \E r \in Jobs : caller[r] = "pushed"

\* Nothing is lost, duplicated or reordered: what was pushed to a class is what
\* was popped from it followed by what is still queued.
OrderKept == \A p \in Priorities : pushLog[p] = popLog[p] \o queue[p]

\* Every job that was pushed is run, also when its caller gave up: a timeout is
\* not a cancellation.
EveryJobRuns ==
    \A r \in Jobs : caller[r] = "pushed" ~>
        \E p \in Priorities : \E i \in DOMAIN popLog[p] : popLog[p][i] = r

\* Every call that entered the queue ends.
EveryCallEnds ==
    \A r \in Jobs : caller[r] = "pushed" ~> caller[r] \in {"answered", "worker_timeout"}

\* Both ends of a call are served: the job runs and its caller returns.
CallsServed == EveryJobRuns /\ EveryCallEnds

=============================================================================

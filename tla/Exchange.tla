------------------------------ MODULE Exchange ------------------------------
(***************************************************************************)
(* What a caller of the ingress may count on, without routes, sockets or   *)
(* workers: a request asks for some tasks; each is done at most once, in   *)
(* whatever order, even after the answer; there is one answer at most, it  *)
(* says "ok" only when every needed task has been done, and it comes when  *)
(* the request is not stuck.                                               *)
(***************************************************************************)
EXTENDS Naturals, Sequences

VARIABLES
    may,      \* the tasks the request asks for
    needs,    \* those its success depends on
    done,     \* the tasks done, in order
    stuck,    \* nothing is promised now: the caller waits for what may never come
    answer    \* "none", "ok" or "failed"

exchangeVars == <<may, needs, done, answer>>

Done(t) == \E i \in DOMAIN done : done[i] = t

ExchangeInit == done = <<>> /\ answer = "none"

Do(t) == t \in may /\ ~Done(t) /\ done' = Append(done, t)

Answer(a) == answer = "none" /\ answer' = a

\* The step that answers may do the last task.
ExchangeNext ==
    /\ UNCHANGED <<may, needs>>
    /\ (\E t \in may : Do(t)) \/ UNCHANGED done
    /\ (\E a \in {"ok", "failed"} : Answer(a)) \/ UNCHANGED answer
    /\ answer' = "ok" /\ answer = "none" => \A t \in needs : \E i \in DOMAIN done' : done'[i] = t

ExchangeSpec ==
    ExchangeInit /\ [][ExchangeNext]_exchangeVars /\ WF_exchangeVars(~stuck /\ ExchangeNext /\ answer' # answer)
=============================================================================

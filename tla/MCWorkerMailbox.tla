--------------------------- MODULE MCWorkerMailbox ---------------------------
\* Model-checking instance of WorkerMailbox.
EXTENDS WorkerMailbox, TLC

\* One place for Lo, so that three requests can fill a class and be refused.
MCCaps == [p \in Priorities |-> IF p = "Lo" THEN 1 ELSE 2]
=============================================================================

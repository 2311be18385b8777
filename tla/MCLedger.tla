------------------------------ MODULE MCLedger ------------------------------
\* Model-checking instance of Ledger.
EXTENDS Ledger, TLC

Symmetry == Permutations(Payloads)
=============================================================================

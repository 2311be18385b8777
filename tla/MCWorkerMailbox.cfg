SPECIFICATION FairSpec
CONSTANTS
    Jobs = {r1, r2, r3}
    NoJob = NoJob
    Caps <- MCCaps
INVARIANTS NoLostWakeup OrderKept
PROPERTIES CallsServed
CHECK_DEADLOCK FALSE

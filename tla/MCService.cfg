SPECIFICATION MCSpec
CONSTANTS
    Requests <- MCRequests
    Granted <- MCGranted
    Skew = 1
    Ttl = 2
    MaxBack = 1
    MaxNow = 6
    Connections = {k1, k2}
    None = None
    Jobs = {job}
    Caps <- MCCaps
INVARIANTS JudgedOnce TableBounded OnlyVettedDispatched RecordedBeforeAnswer RanAsAllowed AcceptedIsRouted BoundedBypass
PROPERTY ImplementsExchange

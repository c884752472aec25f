CONSTANTS
    r1 = r1
    r2 = r2
    r3 = r3
    r4 = r4
    Requests <- MCRequests
SPECIFICATION Spec
INVARIANT EveryLaterLinkDepends
CHECK_DEADLOCK FALSE

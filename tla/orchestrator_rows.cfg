CONSTANTS
    d1 = d1
    d2 = d2
    r1 = r1
    r2 = r2
    DIDs <- MCDIDs
    Reqs <- MCReqsOne
    MaxSvc = 2
    MaxOps = 3
    MaxFaults = 0
SPECIFICATION Spec
INVARIANT ServiceRowsOwned

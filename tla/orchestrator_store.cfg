CONSTANTS
    d1 = d1
    d2 = d2
    r1 = r1
    r2 = r2
    DIDs <- MCDIDs
    Reqs <- MCReqsOne
    MaxSvc = 1
    MaxOps = 2
    MaxFaults = 1
SPECIFICATION Spec
INVARIANT StoreMatchesCluster

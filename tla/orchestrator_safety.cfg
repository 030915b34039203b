CONSTANTS
    d1 = d1
    d2 = d2
    r1 = r1
    r2 = r2
    DIDs <- MCDIDs
    Reqs <- MCReqs
    MaxSvc = 2
    MaxOps = 4
    MaxFaults = 2
SPECIFICATION Spec
INVARIANT ListingAsSpecified

CONSTANTS
    p1 = p1
    p2 = p2
    h1 = h1
    Providers <- MCProviders
    Handles <- MCHandles
    TTL <- MCTTL
    HeartbeatInterval <- MCHeartbeatInterval
SPECIFICATION Spec
INVARIANT TypeOK
PROPERTY DeadProviderEventuallyEvicted
PROPERTY FailureDetectorRefined

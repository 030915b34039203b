CONSTANTS
    p1 = p1
    p2 = p2
    Providers <- MCProvidersOne
    TTL <- MCTTL
    HeartbeatInterval <- MCHeartbeatInterval
    MaxInc = 2
    MaxRestarts = 1
    MaxFaults = 1
SPECIFICATION Spec
PROPERTY RestartRecovery

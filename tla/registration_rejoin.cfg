CONSTANTS
    p1 = p1
    p2 = p2
    Providers <- MCProvidersOne
    TTL <- MCTTL
    HeartbeatInterval <- MCHeartbeatInterval
    MaxInc = 1
    MaxRestarts = 0
    MaxFaults = 1
SPECIFICATION Spec
PROPERTY LiveProviderRegistered

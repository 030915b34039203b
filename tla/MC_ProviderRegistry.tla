------------------------ MODULE MC_ProviderRegistry ------------------------
(* Model values and bounds for checking ProviderRegistry with TLC.        *)
(* Time unit: 5s.  HeartbeatInterval = 10s and ProviderTTL = 30s, the     *)
(* defaults of sched_provider.go, keep their ratio.                        *)
EXTENDS ProviderRegistry

CONSTANTS p1, p2, h1

MCProviders == {p1, p2}
MCHandles == {h1}
MCTTL == 6
MCHeartbeatInterval == 2
=============================================================================

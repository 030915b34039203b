-------------------------- MODULE MC_Registration --------------------------
(* Model values and bounds for checking Registration with TLC.  Time unit *)
(* 10s: HeartbeatInterval 10s, ProviderTTL 30s; a probe takes no time.    *)
EXTENDS Registration

CONSTANTS p1, p2

MCProvidersOne == {p1}
MCProvidersTwo == {p1, p2}
MCTTL == 3
MCHeartbeatInterval == 1
=============================================================================

--------------------------- MODULE MC_Orchestrator ---------------------------
(***************************************************************************)
(* Orchestrator for TLC: two uuids, so that a Create can follow a failed   *)
(* one; two callers, so that requests on one deployment race.              *)
(***************************************************************************)
EXTENDS Orchestrator

CONSTANTS d1, d2, r1, r2

MCDIDs == {d1, d2}
MCReqs == {r1, r2}
MCReqsOne == {r1}
=============================================================================

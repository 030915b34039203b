---------------------------- MODULE MC_KubeApply ----------------------------
(***************************************************************************)
(* Two concurrent calls, one policy, one exposed service: the namespace,   *)
(* the policy, the workload and its two Services.                          *)
(***************************************************************************)
EXTENDS KubeApply, TLC

CONSTANTS c1, c2

MCCallers == {c1, c2}

\* The calls are interchangeable.
Symmetry == Permutations(MCCallers)
=============================================================================

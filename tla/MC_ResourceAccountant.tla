------------------------ MODULE MC_ResourceAccountant ------------------------
(***************************************************************************)
(* Two nodes, as in the spec's example.  A node's capacity is 2, its       *)
(* allocatable 1 or 2, and its allocated quantity 0 to 2, so that a node   *)
(* may be over-allocated (allocated > allocatable) or not.  With W = 4 the *)
(* sums (at most 4) stay below 2^W.                                        *)
(***************************************************************************)
EXTENDS ResourceAccountant

CONSTANTS n1, n2

MCNodes == {n1, n2}

MCInputs == [capacity : {2}, allocatable : 1..2, allocated : 0..2]
=============================================================================

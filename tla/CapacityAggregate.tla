------------------------- MODULE CapacityAggregate -------------------------
(***************************************************************************)
(* What the provider's resource accountant promises, for one resource      *)
(* class: GetStatistics answers with the aggregate of the cluster's nodes  *)
(* as they were at some moment of the call, or with an error.  Max is the  *)
(* sum of capacities, Active the sum of allocations, Available the sum of  *)
(* allocatable minus the sum of allocations, taken after summation and not *)
(* clamped, so that it may be negative.                                    *)
(***************************************************************************)
EXTENDS Integers, FiniteSetsExt

CONSTANTS
    Nodes,    \* the cluster's nodes
    Inputs    \* the per-node quantities a node may report

VARIABLES
    res,      \* each node's capacity, allocatable and allocated quantities
    out       \* the last answer: its status and the statistics returned

Total(r, field) == MapThenSumSet(LAMBDA n : r[n][field], Nodes)

Aggregate(r) ==
    [max       |-> Total(r, "capacity"),
     available |-> Total(r, "allocatable") - Total(r, "allocated"),
     active    |-> Total(r, "allocated")]

Zero == [max |-> 0, available |-> 0, active |-> 0]

\* Answers: statistics, an error (nil statistics), or none returned yet.
Answer(s) == [status |-> "ok", stats |-> s]
Failed == [status |-> "err", stats |-> Zero]
NoAnswer == [status |-> "none", stats |-> Zero]

Init == res \in [Nodes -> Inputs] /\ out = NoAnswer

\* Pods are scheduled and removed, nodes report new quantities.
Change == res' \in [Nodes -> Inputs] /\ UNCHANGED out

Respond == out' \in {Answer(Aggregate(res)), Failed} /\ UNCHANGED res

Next == Change \/ Respond

Spec == Init /\ [][Next]_<<res, out>>
=============================================================================

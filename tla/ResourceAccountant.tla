------------------------- MODULE ResourceAccountant -------------------------
(***************************************************************************)
(* The provider's GetStatistics (node/impl/provider/manager.go) for one    *)
(* resource class.  FetchNodeResources takes a snapshot of the nodes; the  *)
(* loop adds each node's capacity, allocatable and allocated quantity to   *)
(* the three fields of the answer; after the loop Available becomes        *)
(* Available - Active.  CPU fields are float64, exact for the quantities   *)
(* used here; Memory and Storage fields are uint64, whose arithmetic is    *)
(* modulo 2^W.  W is scaled down from 64 and the quantities with it, so    *)
(* that sums stay below 2^W as real node sums stay below 2^64: only the    *)
(* final subtraction can wrap, as in the code.                             *)
(***************************************************************************)
EXTENDS Integers, FiniteSetsExt

CONSTANTS
    Nodes,     \* the cluster's nodes
    Inputs,    \* the per-node quantities a node may report
    Unsigned,  \* the class's fields are uint64 (Memory, Storage), not float64 (CPU)
    W          \* the word width standing for 64

VARIABLES
    res,       \* each node's quantities now
    pc,        \* "idle" or "loop": a GetStatistics call in its loop
    snap,      \* the map FetchNodeResources returned
    todo,      \* nodes the range has not produced yet
    acc,       \* the statistics fields being summed
    out        \* the last answer returned

vars == <<res, pc, snap, todo, acc, out>>

\* The abstract module's definitions (Aggregate, the answers).
Def == INSTANCE CapacityAggregate

\* kube nodeResource: capacity and allocatable from the node status,
\* allocated the sum of the resource lists added to it.
NodeResource == [capacity : Nat, allocatable : Nat, allocated : Nat]

\* The arithmetic of the field type.
Word(x) == IF Unsigned THEN x % (2^W) ELSE x

TypeOK ==
    /\ res \in [Nodes -> Inputs]
    /\ pc \in {"idle", "loop"}
    /\ snap \in [Nodes -> Inputs]
    /\ todo \subseteq Nodes
    /\ acc \in [{"max", "available", "active"} -> Int]
    /\ out \in [status : {"none", "err", "ok"}, stats : [{"max", "available", "active"} -> Int]]

\* The locals of a call (snapshot, sums) hold no value between calls.
Unused == [n \in Nodes |-> CHOOSE q \in Inputs : TRUE]

Init ==
    /\ res \in [Nodes -> Inputs]
    /\ pc = "idle" /\ snap = Unused /\ todo = {} /\ acc = Def!Zero /\ out = Def!NoAnswer

\* The environment: nodes report new quantities at any time.
Change ==
    /\ res' \in [Nodes -> Inputs]
    /\ UNCHANGED <<pc, snap, todo, acc, out>>

(***************************************************************************)
(* FetchNodeResources: an error, or a nil map ("nodes resources do not     *)
(* exist"), returns an error; otherwise the loop starts on the snapshot.   *)
(***************************************************************************)
Fetch ==
    /\ pc = "idle"
    /\ \/ out' = Def!Failed /\ UNCHANGED <<pc, snap, todo, acc>>
       \/ pc' = "loop" /\ snap' = res /\ todo' = Nodes /\ acc' = Def!Zero /\ UNCHANGED out
    /\ UNCHANGED res

AccumulateAllocatableTwice(n) ==
    /\ pc = "loop" /\ n \in todo
    /\ todo' = todo \ {n}
    /\ acc' = [max       |-> Word(acc.max + snap[n].capacity),
               available |-> Word(acc.available + snap[n].allocatable),
               active    |-> Word(acc.active + snap[n].allocatable)]
    /\ UNCHANGED <<res, pc, snap, out>>

\* One iteration: the node's three quantities are added to the fields.
Accumulate(n) ==
    /\ pc = "loop" /\ n \in todo
    /\ todo' = todo \ {n}
    /\ acc' = [max       |-> Word(acc.max + snap[n].capacity),
               available |-> Word(acc.available + snap[n].allocatable),
               active    |-> Word(acc.active + snap[n].allocated)]
    /\ UNCHANGED <<res, pc, snap, out>>

\* After the loop: Available = Available - Active, and the answer returns.
Finish ==
    /\ pc = "loop" /\ todo = {}
    /\ out' = Def!Answer([acc EXCEPT !.available = Word(acc.available - acc.active)])
    /\ pc' = "idle"
    /\ snap' = Unused /\ acc' = Def!Zero
    /\ UNCHANGED <<res, todo>>

Next == Change \/ Fetch \/ Finish \/ \E n \in Nodes : Accumulate(n)

Spec == Init /\ [][Next]_vars

-----------------------------------------------------------------------------

(***************************************************************************)
(* The refinement mapping: a call is linearised when FetchNodeResources    *)
(* takes its snapshot; from then on the abstract answer is the aggregate   *)
(* of the snapshot, and the loop and the subtraction must produce it.      *)
(***************************************************************************)
Abs == INSTANCE CapacityAggregate
           WITH out <- IF pc = "loop" THEN Def!Answer(Def!Aggregate(snap)) ELSE out

(***************************************************************************)
(* AggregateRefined: every answer GetStatistics returns is the spec's      *)
(* aggregate of the nodes at one moment of the call: Max = sum of          *)
(* capacities, Active = sum of allocations, Available = sum of             *)
(* allocatable minus sum of allocations, negative when nodes are           *)
(* over-allocated.                                                         *)
(***************************************************************************)
AggregateRefined == Abs!Spec
=============================================================================

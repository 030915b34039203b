-------------------------- MODULE FailureDetector --------------------------
(***************************************************************************)
(* What the manager's provider registry promises (spec 4.1): an entry per  *)
(* registered provider with the time since it last answered a probe.  A    *)
(* probe that succeeds resets that time; a provider is forgotten only once *)
(* it is expired (more than TTL since it last answered), and a provider    *)
(* that stays expired is forgotten eventually.  How the probes are         *)
(* scheduled, the lock, the ticker and the probe context are not part of   *)
(* the promise.                                                            *)
(***************************************************************************)
EXTENDS Naturals, Functions, TLC

CONSTANTS
    Providers,   \* provider IDs
    Handles,     \* the handles an entry may hold
    TTL          \* ProviderTTL, in time units

VARIABLES
    providers,   \* registered providers: ID -> [handle, age]
    answering    \* providers whose Session() answers

vars == <<providers, answering>>

Capped(a) == IF a < TTL + 1 THEN a + 1 ELSE a

Expired(id) == providers[id].age > TTL

Init ==
    /\ providers = [id \in {} |-> [handle |-> CHOOSE h \in Handles : TRUE, age |-> 0]]
    /\ answering \in SUBSET Providers

\* Time passes for every entry.
Elapse ==
    /\ providers' = [id \in DOMAIN providers |-> [providers[id] EXCEPT !.age = Capped(@)]]
    /\ UNCHANGED answering

\* A probe of an answering provider succeeded.
Confirm(id) ==
    /\ id \in DOMAIN providers /\ id \in answering
    /\ providers' = [providers EXCEPT ![id].age = 0]
    /\ UNCHANGED answering

\* An expired provider is removed.
Forget(id) ==
    /\ id \in DOMAIN providers /\ Expired(id)
    /\ providers' = Restrict(providers, DOMAIN providers \ {id})
    /\ UNCHANGED answering

\* A provider that answers registers (again): its entry starts afresh.
Join(id, h) ==
    /\ id \in answering
    /\ providers' = (id :> [handle |-> h, age |-> 0]) @@ providers
    /\ UNCHANGED answering

\* The environment: a provider stops or resumes answering.
Toggle(id) ==
    /\ answering' = IF id \in answering THEN answering \ {id} ELSE answering \cup {id}
    /\ UNCHANGED providers

Next ==
    \/ Elapse
    \/ \E id \in Providers : Confirm(id) \/ Forget(id) \/ Toggle(id)
    \/ \E id \in Providers, h \in Handles : Join(id, h)

Spec == Init /\ [][Next]_vars /\ \A id \in Providers : WF_vars(Forget(id))
=============================================================================

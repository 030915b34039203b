-------------------------- MODULE ProviderRegistry --------------------------
(***************************************************************************)
(* The manager's in-memory provider registry and its heartbeat sweep,      *)
(* node/impl/manager/sched_provider.go.                                    *)
(*                                                                         *)
(* providers is the map ProviderManager.providers: provider ID -> record   *)
(* of the handle (the api.Provider the entry wraps) and the age of         *)
(* LastSeen, i.e. the time elapsed since the last successful probe.        *)
(* Keeping ages instead of absolute times keeps the state space finite;    *)
(* an age is capped at TTL + 1, beyond which Expired() no longer changes.  *)
(*                                                                         *)
(* watch() is one goroutine.  A sweep holds p.lk for its whole duration    *)
(* and probes the entries one at a time in Go's map order (any order).     *)
(* sctx, the probe context, is created once per sweep and scancel() is     *)
(* called after every probe, so every probe after the first in a sweep     *)
(* runs on a cancelled context and fails.                                  *)
(*                                                                         *)
(* answering is the set of providers whose Session() would return in time *)
(* on a live context; it is the environment and is not changed here.       *)
(***************************************************************************)
EXTENDS Naturals, FiniteSets, Functions, TLC

CONSTANTS
    Providers,          \* provider IDs
    Handles,            \* api.Provider handles an entry may wrap
    TTL,                \* ProviderTTL, in time units
    HeartbeatInterval   \* HeartbeatInterval, in time units

ASSUME TTL \in Nat \ {0} /\ HeartbeatInterval \in Nat \ {0}

VARIABLES
    providers,   \* ProviderManager.providers: [ID -> [handle, age]]
    sweep,       \* the watch goroutine: [active, todo, cancelled]
    phase,       \* time since the ticker last fired, 0..HeartbeatInterval-1
    tickPending, \* the ticker channel holds a tick (capacity 1)
    answering    \* environment: providers whose Session() succeeds

regVars == <<providers, sweep, phase, tickPending>>

\* The largest age kept: past it Expired() is constant.
MaxAge == TTL + 1

Entry == [handle : Handles, age : 0..MaxAge]

\* The probe timeout HeartbeatInterval/2 of context.WithTimeout.
ProbeTimeout == HeartbeatInterval \div 2

NoSweep == [active |-> FALSE, todo |-> {}, cancelled |-> FALSE, waited |-> 0]

EmptyRegistry == [id \in {} |-> [handle |-> CHOOSE h \in Handles : TRUE, age |-> 0]]

TypeOK ==
    /\ DOMAIN providers \subseteq Providers
    /\ \A id \in DOMAIN providers : providers[id] \in Entry
    /\ sweep \in [active : BOOLEAN, todo : SUBSET Providers, cancelled : BOOLEAN,
                  waited : 0..ProbeTimeout]
    /\ phase \in 0..(HeartbeatInterval - 1)
    /\ tickPending \in BOOLEAN
    /\ answering \subseteq Providers

RegInit ==
    /\ providers = EmptyRegistry
    /\ sweep = NoSweep
    /\ phase = 0
    /\ tickPending = FALSE

(***************************************************************************)
(* providerLife.Expired: LastSeen.Add(ProviderTTL).Before(time.Now()),     *)
(* i.e. now - LastSeen > TTL.  An age of exactly TTL is not expired.       *)
(***************************************************************************)
ExpiredInverted(id) == providers[id].age < TTL

Expired(id) == providers[id].age > TTL

\* The write p.providers[id] = &providerLife{...}, LastSeen = now.
Put(id, h) == (id :> [handle |-> h, age |-> 0]) @@ providers

(***************************************************************************)
(* AddProvider(id, providerApi).  The code takes p.lk and releases it at   *)
(* once (p.lk.Lock(); p.lk.Unlock()), so the existence check and the       *)
(* insert run with no lock held: they are two separate steps, and another  *)
(* goroutine, the sweep included, may run between and during them.        *)
(* AddProviderCheck only decides the branch, the caller records it.        *)
(***************************************************************************)
AddProviderFound(id) == id \in DOMAIN providers
AddProviderMissing(id) == id \notin DOMAIN providers

\* A map write while the sweep iterates the map under p.lk: a data race.
InsertRaces == sweep.active

(***************************************************************************)
(* The insert.  Go leaves open whether an entry created during a range is  *)
(* produced by that range, so a sweep in progress may or may not probe it. *)
(* The other outcome of the race, the runtime's fatal "concurrent map      *)
(* iteration and map write", is a crash the composing module models.       *)
(***************************************************************************)
AddProviderInsert(id, h) ==
    /\ providers' = Put(id, h)
    /\ \/ sweep' = sweep
       \/ sweep.active /\ sweep' = [sweep EXCEPT !.todo = @ \cup {id}]
    /\ UNCHANGED <<phase, tickPending>>

(***************************************************************************)
(* Get(id) locks p.lk, so it waits while a sweep holds it.                 *)
(***************************************************************************)
GetFound(id) == ~sweep.active /\ id \in DOMAIN providers
GetMissing(id) == ~sweep.active /\ id \notin DOMAIN providers

(***************************************************************************)
(* Time passes by one unit: every LastSeen ages and time.Ticker fires      *)
(* every HeartbeatInterval; a tick finding the channel full is dropped.    *)
(* Timing assumption (not code): the watch goroutine takes a pending tick  *)
(* before a time unit passes, and only the first probe of a sweep takes    *)
(* time, at most the Interval/2 timeout of sctx; the later probes of the   *)
(* sweep fail at once on the cancelled context.                            *)
(***************************************************************************)
Prompt ==
    /\ ~(tickPending /\ ~sweep.active)
    /\ ~(sweep.active /\ (sweep.cancelled \/ sweep.waited = ProbeTimeout))

TickNoRearm ==
    /\ Prompt
    /\ providers' = [id \in DOMAIN providers |->
                        [providers[id] EXCEPT !.age = IF @ < MaxAge THEN @ + 1 ELSE @]]
    /\ phase' = phase + 1
    /\ tickPending' = (tickPending \/ phase + 1 = HeartbeatInterval)
    /\ sweep' = IF sweep.active THEN [sweep EXCEPT !.waited = @ + 1] ELSE sweep

Tick ==
    /\ Prompt
    /\ providers' = [id \in DOMAIN providers |->
                        [providers[id] EXCEPT !.age = IF @ < MaxAge THEN @ + 1 ELSE @]]
    /\ phase' = (phase + 1) % HeartbeatInterval
    /\ tickPending' = (tickPending \/ phase + 1 = HeartbeatInterval)
    /\ sweep' = IF sweep.active THEN [sweep EXCEPT !.waited = @ + 1] ELSE sweep

(***************************************************************************)
(* watch(): receive a tick, create sctx, take p.lk, start ranging over     *)
(* the entries present now.                                                *)
(***************************************************************************)
WatchStart ==
    /\ ~sweep.active
    /\ tickPending
    /\ tickPending' = FALSE
    /\ sweep' = [NoSweep EXCEPT !.active = TRUE, !.todo = DOMAIN providers]
    /\ UNCHANGED <<providers, phase>>

(***************************************************************************)
(* One iteration of the range: provider.Session(sctx), then scancel().     *)
(* Success: provider.Update() sets LastSeen = now.  Failure and not        *)
(* Expired(): kept ("Likely temporary error").  Failure and Expired():     *)
(* delete(p.providers, id).                                                *)
(***************************************************************************)
ProbeOKIgnoresAnswer(id) == ~sweep.cancelled

ProbeOK(id) == id \in answering /\ ~sweep.cancelled

WatchProbe(id) ==
    /\ sweep.active
    /\ id \in sweep.todo \cap DOMAIN providers
    /\ sweep' = [sweep EXCEPT !.todo = @ \ {id}, !.cancelled = TRUE]
    /\ providers' =
         IF ProbeOK(id) THEN [providers EXCEPT ![id].age = 0]
         ELSE IF ~Expired(id) THEN providers
         ELSE Restrict(providers, DOMAIN providers \ {id})
    /\ UNCHANGED <<phase, tickPending>>

\* The range is over: p.lk.Unlock().
WatchEnd ==
    /\ sweep.active
    /\ sweep.todo \cap DOMAIN providers = {}
    /\ sweep' = NoSweep
    /\ UNCHANGED <<providers, phase, tickPending>>

WatchStep == WatchStart \/ WatchEnd \/ \E id \in Providers : WatchProbe(id)

(***************************************************************************)
(* Standalone specification: the registry under an environment that makes *)
(* providers stop and resume answering and registers providers.  A         *)
(* registration is the AddProvider call of ProviderConnect, which is only  *)
(* reached after the Version() call to the provider succeeded, hence the   *)
(* guard id \in answering; Registration.tla models that call in full.      *)
(***************************************************************************)
Init == RegInit /\ answering = Providers

EnvToggle(id) ==
    /\ answering' = IF id \in answering THEN answering \ {id} ELSE answering \cup {id}
    /\ UNCHANGED regVars

Register(id, h) ==
    /\ id \in answering
    /\ AddProviderMissing(id)
    /\ AddProviderInsert(id, h)
    /\ UNCHANGED answering

Next ==
    \/ Tick /\ UNCHANGED answering
    \/ WatchStep /\ UNCHANGED answering
    \/ \E id \in Providers : EnvToggle(id)
    \/ \E id \in Providers, h \in Handles : Register(id, h)

vars == <<regVars, answering>>

(***************************************************************************)
(* Time passes and the watch goroutine is scheduled; a range over a map    *)
(* reaches every entry it is going to produce, hence fairness per entry.   *)
(* The environment (answering, registrations) is not fair.                 *)
(***************************************************************************)
Fairness ==
    /\ WF_vars(Tick /\ UNCHANGED answering)
    /\ WF_vars((WatchStart \/ WatchEnd) /\ UNCHANGED answering)
    /\ \A id \in Providers : WF_vars(WatchProbe(id) /\ UNCHANGED answering)

Spec == Init /\ [][Next]_vars /\ Fairness

\* The registry as the failure detector it stands for: same entries, same ages.
FD == INSTANCE FailureDetector

-----------------------------------------------------------------------------
(***************************************************************************)
(* Properties.                                                             *)
(*                                                                         *)
(* EvictOnlyUnresponsive: the sweep removes a provider only when that      *)
(* provider is not answering Session().  The spec says a probe failure is  *)
(* what leads to eviction and that cancelling one probe must never abort   *)
(* the rest of the sweep; watch() calls scancel() after the first probe,   *)
(* so the remaining probes of a sweep fail whatever the provider does.     *)
(***************************************************************************)
EvictOnlyUnresponsive ==
    [][\A id \in DOMAIN providers \ DOMAIN providers' : id \notin answering]_vars

(***************************************************************************)
(* DeadProviderEventuallyEvicted: a provider that stops answering for good *)
(* is eventually removed from the registry for good, so that Get() returns *)
(* ErrProviderNotExist; this is the failure detector of watch() and        *)
(* Expired().                                                              *)
(***************************************************************************)
DeadProviderEventuallyEvicted ==
    \A id \in Providers :
        <>[](id \notin answering) => <>[](id \notin DOMAIN providers)

(***************************************************************************)
(* FailureDetectorRefined: the sweep, with its ticker, lock, shared probe  *)
(* context and dropped ticks, implements the failure detector: a probe     *)
(* resets LastSeen only when the provider answered, watch() deletes an     *)
(* entry only once Expired() holds, and an entry that stays expired is     *)
(* deleted eventually.                                                     *)
(***************************************************************************)
FailureDetectorRefined == FD!Spec
=============================================================================

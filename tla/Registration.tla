---------------------------- MODULE Registration ----------------------------
(***************************************************************************)
(* Provider membership end to end: the provider process's heartbeat and    *)
(* registration loop (cmd/provider/main.go), the manager's ProviderConnect *)
(* (node/impl/manager/manager.go, remoteprovider.go) and the registry with *)
(* its sweep (ProviderRegistry, sched_provider.go), with provider crashes  *)
(* and restarts, manager restarts, network partitions and database errors. *)
(*                                                                         *)
(* A ProviderConnect call runs on its own manager goroutine, identified by *)
(* <<provider, incarnation>> of the provider process that made the call;   *)
(* the handle it creates is named by the same pair.                        *)
(***************************************************************************)
EXTENDS Naturals, FiniteSets, Functions, TLC

CONSTANTS
    Providers,          \* provider IDs (the UUID kept in the provider repo)
    TTL,                \* ProviderTTL
    HeartbeatInterval,  \* manager.HeartbeatInterval
    MaxInc,             \* bound: process incarnations per provider
    MaxRestarts,        \* bound: manager restarts (crashes included)
    MaxFaults           \* bound: partitions, provider crashes, DB errors

Incs == 1..MaxInc
Calls == Providers \X Incs

VARIABLES
    providers, sweep, phase, tickPending,  \* the registry, see ProviderRegistry
    mSession,    \* the manager process's session (common/impl.go), one per run
    persisted,   \* providers rows in the database (state Online)
    conn,        \* [Calls -> pc] manager goroutines serving ProviderConnect
    running,     \* [Providers -> BOOLEAN] the provider process is up
    reachable,   \* [Providers -> BOOLEAN] no partition between it and manager
    inc,         \* [Providers -> Incs] the current process incarnation
    pSession,    \* [Providers -> ...] managerSession as the provider knows it
    pPc,         \* [Providers -> ...] where the provider's heartbeat loop is
    faults       \* faults spent

\* The providers whose Session() answers the manager's probe.
Answering == {p \in Providers : running[p] /\ reachable[p]}

Reg == INSTANCE ProviderRegistry WITH Handles <- Calls, answering <- Answering

regVars == <<providers, sweep, phase, tickPending>>
provVars == <<running, reachable, inc, pSession, pPc>>
vars == <<regVars, mSession, persisted, conn, provVars, faults>>

ConnPc == {"idle", "get", "dial", "add", "insert", "persist"}

TypeOK ==
    /\ Reg!TypeOK
    /\ mSession \in 0..MaxRestarts
    /\ persisted \subseteq Providers
    /\ conn \in [Calls -> ConnPc]
    /\ running \in [Providers -> BOOLEAN]
    /\ reachable \in [Providers -> BOOLEAN]
    /\ inc \in [Providers -> Incs]
    /\ pSession \in [Providers -> 0..MaxRestarts]
    /\ pPc \in [Providers -> {"register", "waiting", "serving"}]
    /\ faults \in 0..MaxFaults

Init ==
    /\ Reg!RegInit
    /\ mSession = 0
    /\ persisted = {}
    /\ conn = [g \in Calls |-> "idle"]
    /\ running = [p \in Providers |-> TRUE]
    /\ reachable = [p \in Providers |-> TRUE]
    /\ inc = [p \in Providers |-> 1]
    /\ pSession = [p \in Providers |-> 0]
    /\ pPc = [p \in Providers |-> "register"]
    /\ faults = 0

-----------------------------------------------------------------------------
(***************************************************************************)
(* Provider side, the heartbeat goroutine of cmd/provider/main.go.         *)
(* pPc "register": readyCh is set, ProviderConnect is due; "waiting": the  *)
(* ProviderConnect RPC is in flight; "serving": readyCh = nil.             *)
(*                                                                         *)
(* Heartbeat: managerAPI.Session(ctx); a session other than the one known  *)
(* breaks the inner loop, and the outer loop sets readyCh again.  This is  *)
(* the only path back to registration while the process lives.            *)
(***************************************************************************)
HeartbeatNoBreak(p) ==
    /\ running[p] /\ reachable[p]
    /\ pPc[p] \in {"register", "serving"}
    /\ pSession[p] # mSession
    /\ pSession' = [pSession EXCEPT ![p] = mSession]
    /\ UNCHANGED <<regVars, mSession, persisted, conn, running, reachable, inc, pPc, faults>>

Heartbeat(p) ==
    /\ running[p] /\ reachable[p]
    /\ pPc[p] \in {"register", "serving"}
    /\ pSession[p] # mSession
    /\ pSession' = [pSession EXCEPT ![p] = mSession]
    /\ pPc' = [pPc EXCEPT ![p] = "register"]
    /\ UNCHANGED <<regVars, mSession, persisted, conn, running, reachable, inc, faults>>

(***************************************************************************)
(* <-readyCh: call managerAPI.ProviderConnect.  A call that cannot reach   *)
(* the manager returns an error: "Registering provider failed", cancel(),  *)
(* return, and the process shuts down.                                     *)
(***************************************************************************)
CallConnect(p) ==
    /\ running[p]
    /\ pPc[p] = "register"
    /\ IF reachable[p]
       THEN /\ pPc' = [pPc EXCEPT ![p] = "waiting"]
            /\ conn' = [conn EXCEPT ![<<p, inc[p]>>] = "get"]
            /\ UNCHANGED running
       ELSE /\ running' = [running EXCEPT ![p] = FALSE]
            /\ UNCHANGED <<pPc, conn>>
    /\ UNCHANGED <<regVars, mSession, persisted, reachable, inc, pSession, faults>>

-----------------------------------------------------------------------------
(***************************************************************************)
(* Manager side, Manager.ProviderConnect on goroutine g = <<p, k>>.        *)
(* The request context dies with the calling process.                      *)
(***************************************************************************)
CallerAlive(g) == running[g[1]] /\ inc[g[1]] = g[2]

(***************************************************************************)
(* The RPC returns: the goroutine ends and, if the calling process still   *)
(* waits, it either serves (readyCh = nil) or, on an error, cancels its    *)
(* context and exits.                                                      *)
(***************************************************************************)
Reply(g, ok) ==
    LET p == g[1] IN
    /\ conn' = [conn EXCEPT ![g] = "idle"]
    /\ IF CallerAlive(g) /\ pPc[p] = "waiting"
       THEN IF ok THEN /\ pPc' = [pPc EXCEPT ![p] = "serving"]
                       /\ UNCHANGED running
                  ELSE /\ running' = [running EXCEPT ![p] = FALSE]
                       /\ UNCHANGED pPc
       ELSE UNCHANGED <<running, pPc>>

\* ProviderManager.Get(provider.ID): any result but ErrProviderNotExist returns nil.
ConnGet(g) ==
    /\ conn[g] = "get"
    /\ \/ Reg!GetFound(g[1]) /\ Reply(g, TRUE)
       \/ Reg!GetMissing(g[1]) /\ conn' = [conn EXCEPT ![g] = "dial"] /\ UNCHANGED <<running, pPc>>
    /\ UNCHANGED <<regVars, mSession, persisted, reachable, inc, pSession, faults>>

(***************************************************************************)
(* connectRemoteProvider: AuthNew, client.NewProvider, then papi.Version   *)
(* over the network.  The build's provider and expected API versions are   *)
(* both 1.0.0, so EqMajorMinor holds whenever Version answers.  Version    *)
(* fails at once when the calling process is gone (its request context is  *)
(* cancelled, its listener closed); it has no deadline, so while a live    *)
(* provider is cut off the call waits, and goes on after the heal.         *)
(***************************************************************************)
ConnDial(g) ==
    /\ conn[g] = "dial"
    /\ \/ /\ g[1] \in Answering /\ CallerAlive(g)
          /\ conn' = [conn EXCEPT ![g] = "add"]
          /\ UNCHANGED <<running, pPc>>
       \/ ~CallerAlive(g) /\ Reply(g, FALSE)
    /\ UNCHANGED <<regVars, mSession, persisted, reachable, inc, pSession, faults>>

\* AddProvider: the unlocked existence check.
ConnAdd(g) ==
    /\ conn[g] = "add"
    /\ conn' = [conn EXCEPT ![g] = IF Reg!AddProviderFound(g[1]) THEN "persist" ELSE "insert"]
    /\ UNCHANGED <<regVars, mSession, persisted, provVars, faults>>

(***************************************************************************)
(* A manager restart: a new process with a new session and an empty        *)
(* registry; ProviderConnect RPCs in flight fail at their callers, which   *)
(* then exit.  The database keeps its rows.                                *)
(***************************************************************************)
ManagerRestart ==
    /\ mSession < MaxRestarts
    /\ mSession' = mSession + 1
    /\ providers' = Reg!EmptyRegistry
    /\ sweep' = Reg!NoSweep
    /\ phase' = 0
    /\ tickPending' = FALSE
    /\ conn' = [g \in Calls |-> "idle"]
    /\ running' = [p \in Providers |-> running[p] /\ pPc[p] # "waiting"]
    /\ UNCHANGED <<persisted, reachable, inc, pSession, pPc, faults>>

(***************************************************************************)
(* AddProvider: the unlocked insert.  During a sweep it races with the     *)
(* range over the map; one outcome is Go's fatal "concurrent map           *)
(* iteration and map write", which ends the manager process.               *)
(***************************************************************************)
ConnInsert(g) ==
    /\ conn[g] = "insert"
    /\ \/ /\ Reg!AddProviderInsert(g[1], g)
          /\ conn' = [conn EXCEPT ![g] = "persist"]
          /\ UNCHANGED <<mSession, persisted, provVars, faults>>
       \/ Reg!InsertRaces /\ ManagerRestart

(***************************************************************************)
(* DB.AddNewProvider(ctx, provider) with State = Online, an upsert.  It    *)
(* fails on a database error or when the caller's context is cancelled.    *)
(***************************************************************************)
ConnPersist(g) ==
    /\ conn[g] = "persist"
    /\ \/ /\ CallerAlive(g)
          /\ persisted' = persisted \cup {g[1]}
          /\ Reply(g, TRUE)
          /\ UNCHANGED faults
       \/ /\ ~CallerAlive(g)
          /\ Reply(g, FALSE)
          /\ UNCHANGED <<persisted, faults>>
       \/ /\ CallerAlive(g) /\ faults < MaxFaults
          /\ faults' = faults + 1
          /\ Reply(g, FALSE)
          /\ UNCHANGED persisted
    /\ UNCHANGED <<regVars, mSession, reachable, inc, pSession>>

ConnStep(g) == ConnGet(g) \/ ConnDial(g) \/ ConnAdd(g) \/ ConnInsert(g) \/ ConnPersist(g)

-----------------------------------------------------------------------------
(* Environment: faults and the operator restarting a provider process.    *)

ProviderCrash(p) ==
    /\ running[p] /\ faults < MaxFaults
    /\ running' = [running EXCEPT ![p] = FALSE]
    /\ faults' = faults + 1
    /\ UNCHANGED <<regVars, mSession, persisted, conn, reachable, inc, pSession, pPc>>

(***************************************************************************)
(* A new provider process: it waits until the manager answers Version,     *)
(* reads managerAPI.Session as its managerSession, and its heartbeat loop  *)
(* starts with readyCh set.                                                *)
(***************************************************************************)
ProviderStart(p) ==
    /\ ~running[p] /\ reachable[p] /\ inc[p] < MaxInc
    /\ running' = [running EXCEPT ![p] = TRUE]
    /\ inc' = [inc EXCEPT ![p] = @ + 1]
    /\ pSession' = [pSession EXCEPT ![p] = mSession]
    /\ pPc' = [pPc EXCEPT ![p] = "register"]
    /\ UNCHANGED <<regVars, mSession, persisted, conn, reachable, faults>>

Partition(p) ==
    /\ reachable[p] /\ faults < MaxFaults
    /\ reachable' = [reachable EXCEPT ![p] = FALSE]
    /\ faults' = faults + 1
    /\ UNCHANGED <<regVars, mSession, persisted, conn, running, inc, pSession, pPc>>

Heal(p) ==
    /\ ~reachable[p]
    /\ reachable' = [reachable EXCEPT ![p] = TRUE]
    /\ UNCHANGED <<regVars, mSession, persisted, conn, running, inc, pSession, pPc, faults>>

RegistryStep ==
    /\ Reg!Tick \/ Reg!WatchStep
    /\ UNCHANGED <<mSession, persisted, conn, provVars, faults>>

Next ==
    \/ RegistryStep
    \/ \E p \in Providers : Heartbeat(p) \/ CallConnect(p)
    \/ \E g \in Calls : ConnStep(g)
    \/ ManagerRestart
    \/ \E p \in Providers : ProviderCrash(p) \/ ProviderStart(p) \/ Partition(p) \/ Heal(p)

(***************************************************************************)
(* Goroutines are scheduled, time passes, and a range reaches every entry; *)
(* faults, restarts and partitions and their healing are not fair.  A      *)
(* ProviderConnect goroutine waiting in Get for p.lk, which the sweep      *)
(* takes and releases over and over, gets it in the end: sync.Mutex hands  *)
(* the lock to a waiter starved for 1ms (starvation mode), hence SF.       *)
(***************************************************************************)
Fairness ==
    /\ WF_vars(RegistryStep)
    /\ \A p \in Providers : WF_vars(Reg!WatchProbe(p) /\ UNCHANGED <<mSession, persisted, conn, provVars, faults>>)
    /\ \A p \in Providers : WF_vars(Heartbeat(p)) /\ WF_vars(CallConnect(p))
    /\ \A g \in Calls : SF_vars(ConnStep(g))

Spec == Init /\ [][Next]_vars /\ Fairness

-----------------------------------------------------------------------------
(***************************************************************************)
(* RestartRecovery: after the manager restarts with an empty registry, a   *)
(* provider process that keeps running and reachable registers again.      *)
(* The code's only trigger is the provider's heartbeat seeing a changed    *)
(* manager session.                                                        *)
(***************************************************************************)
RestartRecovery ==
    \A p \in Providers :
        (running[p] /\ reachable[p] /\ pSession[p] # mSession)
            ~> (p \in DOMAIN providers \/ ~running[p] \/ ~reachable[p])

(***************************************************************************)
(* LiveProviderRegistered: a provider process that is running and          *)
(* reachable is eventually in the registry.  The spec says a provider      *)
(* evicted by the registry is brought back by the provider side's own      *)
(* reconnect logic; that logic only reacts to a manager session change.    *)
(***************************************************************************)
LiveProviderRegistered ==
    \A p \in Providers :
        (running[p] /\ reachable[p]) ~> (p \in DOMAIN providers \/ ~running[p] \/ ~reachable[p])

(***************************************************************************)
(* FirstHandleWins: while an entry stays in the registry its handle never  *)
(* changes; concurrent AddProvider calls for one ID keep the first handle. *)
(* AddProvider releases p.lk before its check-then-insert.                 *)
(***************************************************************************)
FirstHandleWins ==
    [][\A p \in DOMAIN providers \cap DOMAIN providers' :
          providers'[p].handle = providers[p].handle]_vars

(***************************************************************************)
(* ServingProviderPersisted: a provider whose ProviderConnect succeeded    *)
(* has its row in the providers table.  ProviderConnect inserts into the   *)
(* registry before writing the row and returns nil early when the ID is    *)
(* already registered.                                                     *)
(***************************************************************************)
ServingProviderPersisted ==
    \A p \in Providers : running[p] /\ pPc[p] = "serving" => p \in persisted
=============================================================================

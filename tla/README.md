# TLA+ models of titan-container

This directory holds TLA+ specifications of the titan-container manager/provider system (`src/`), together with the TLC configurations that check them. `PROJECT.json` records three things:
- which definition models which source lines;
- what every run checks;
- the hazards of the code, and the properties that cover them.

## 1. The system

### 1.1 Parts and how they interact

**Manager** (`cmd/manager`, `node/impl/manager`) — one process, holding:

- **Provider registry** (`sched_provider.go`).
  - State: a map `providers: ProviderID -> {api.Provider handle, LastSeen}` guarded by `lk`.
  - One goroutine, `watch()`. Every `HeartbeatInterval` (10 s) it takes the lock and ranges over the map. For each entry it calls `Session(sctx)` under a timeout of Interval/2. It then does one of three things:
    - refreshes `LastSeen` on success;
    - keeps the entry on failure if it is not `Expired()` (LastSeen + 30 s before now);
    - deletes it otherwise.
  - `AddProvider` inserts if the ID is absent.
  - `Get` looks up an entry under the lock.
- **ProviderConnect** (`manager.go`). This is the registration RPC a provider calls. It runs these steps in order:
  1. `Get(id)`; any result other than `ErrProviderNotExist` returns nil at once.
  2. `connectRemoteProvider`: auth token, JSON-RPC client, `Version()` (`remoteprovider.go`).
  3. `AddProvider`.
  4. `DB.AddNewProvider` (upsert of the providers row).
- **Orchestrator** (`manager.go`).
  - `CreateDeployment`: `Get(provider)`, fresh uuid, `provider.CreateDeployment`, then `provider.GetDeployment` (re-read). Finally `DB.CreateDeployment`, one transaction that upserts the deployment row and inserts its service rows.
  - `UpdateDeployment`: `Get`, `provider.CreateDeployment`, `DB.CreateDeployment`.
  - `CloseDeployment`: `Get`, `provider.CloseDeployment`, `DB.UpdateDeploymentState(Close)`.
  - `GetDeploymentList`: DB rows, each overlaid with the provider's live services when the provider is registered. An unregistered provider is shown as InActive.
- **Store** (`db/`). MySQL tables `providers`, `deployments` and `services`.

**Provider** (`cmd/provider`, `node/impl/provider`) — one process per provider ID. The ID is kept in the provider's repo, so it is the same across restarts.

- **Heartbeat/registration loop** (`cmd/provider/main.go`). The loop does two things:
  - It registers once (`ProviderConnect`). If that fails, the provider cancels and the process exits.
  - It polls the manager's `Session()`. A new session sends it back to registration.
- **Provider manager** (`node/impl/provider/manager.go`).
  - `CreateDeployment` validates (`ClusterDeploymentFromDeployment`), refuses a namespace that already has workloads, and calls kube `Deploy`.
  - `CloseDeployment` validates and deletes the namespace.
  - `GetDeployment` lists the namespace's workloads and services.
  - `GetStatistics` sums node resources.
- **Manifest translator** (`deployment_util.go`, `kube/builder`, `kube/manifest`). Turns a deployment into a manifest group: service names with a random uuid suffix, resource units (CPU in millicores, MB to bytes), ports and protocols. It also computes commit-vs-limit resources (`computeCommittedResources`).
- **Kube client** (`kube/client.go`, `apply.go`).
  - `Deploy` applies, in order: namespace, network policies, then for each service its workload followed by its local and global k8s Services. It returns at the first error.
  - `DeleteNS` deletes the namespace.

**Client side.** Callers reach the Manager's RPC API through the CLI (`cli/`). The CLI `delete` lists a deployment, then closes what the list returned.

### 1.2 Inventory per component

| Component | State | Operations | Hard behaviours | Properties |
|---|---|---|---|---|
| Registry | map ID → {handle, LastSeen}; `lk`; ticker; sweep context | AddProvider, Get, watch sweep (probe, refresh, keep, evict) | unlocked check-then-insert; a probe context shared and cancelled across the sweep; map write racing the range (Go fatal error); dropped ticks; the lock held across network probes | a dead provider is eventually evicted; only unresponsive providers are evicted; first handle wins |
| Registration | provider process: running, session known, readyCh; manager: session; providers row | ProviderConnect (Get, dial, AddProvider, AddNewProvider), heartbeat loop, process restarts | manager restart; provider crash/restart; partition longer than TTL; DB failure after AddProvider; RPC caller gone | after a manager restart every live provider re-registers; a live provider is eventually registered; a serving provider has its row |
| Orchestrator | deployments row (state), service rows (with or without deployment_id), cluster namespace and workloads | Create, Update, Close, listing | partial Deploy; re-read or store failure after Deploy; Update through the create path; Close not retryable after a partial failure; racing requests on one ID; the stale listing used as input | the listing returns each stored deployment once, with all its services; Update upserts; service rows carry their ID; store and cluster agree once requests return |
| Manifest translator | none (pure) | validation, resource conversion, commit computation, protocol mapping, storage classification, workload kind | truncation of float→uint; request > limit at 0; random names, so no idempotent apply; the "default" vs "persistent" attribute keys | the whole translation agrees with the spec's reference definition |
| Resource accountant | none (pure, over node resources) | GetStatistics | uint64 underflow of Available; Available computed from the wrong sum | the node loop refines the whole-cluster aggregate |
| Kube apply | API-server objects (version, revision), namespace phase | Deploy (namespace, policies, workloads, services), get/create/update of each object, DeleteNS, namespace garbage collection | shadowed `err` in `applyNetPolicies`; conflict/AlreadyExists on concurrent apply; a namespace terminating during a Deploy | a successful Deploy leaves every object it applied; every policy was applied |

## 2. Modules

| Module | Models | State ↔ code |
|---|---|---|
| `ProviderRegistry` | `sched_provider.go` | `providers` = the map, with each LastSeen kept as an age (time since the last success, capped at TTL+1). `sweep` = the watch goroutine inside a range: entries still to probe, whether `sctx` is cancelled, time spent on the first probe. `phase`/`tickPending` = the ticker and its 1-slot channel. `answering` = environment. Actions: `Tick`, `WatchStart`, `WatchProbe(id)`, `WatchEnd`. `AddProvider` is split into its unlocked check (`AddProviderFound/Missing`) and insert (`AddProviderInsert`). |
| `FailureDetector` | what the registry promises (spec 4.1) | `providers` = ID → [handle, age], `answering` = environment. `Confirm(id)` resets the age of an answering provider, `Forget(id)` removes an expired entry, `Join(id, h)` (re)registers an answering provider, `Elapse` ages every entry. `Forget` is weakly fair: an entry that stays expired goes. No lock, ticker, probe context or sweep. `ProviderRegistry` maps onto it with `FD == INSTANCE FailureDetector` (identity mapping of `providers`, `answering`) and checks `FailureDetectorRefined == FD!Spec`. |
| `Registration` | `ProviderConnect`, `connectRemoteProvider`, `AddNewProvider`, the provider's heartbeat loop, process restarts | Composes the registry with `Reg == INSTANCE ProviderRegistry WITH Handles <- Calls, answering <- Answering`. Provider side: `running`, `reachable`, `inc` (process incarnation), `pSession`, `pPc` ∈ {register, waiting, serving}. Manager side: `mSession`, `conn[<<p,inc>>]` (the pc of each ProviderConnect goroutine: get, dial, add, insert, persist), `persisted` (providers rows). Actions: one per RPC step, plus `ManagerRestart`, `ProviderCrash`, `ProviderStart`, `Partition`, `Heal`. |
| `Orchestrator` | the deployment lifecycle across manager, provider, cluster and store | `ns`/`wl` = namespace and workload count per deployment ID. `row`/`svcRows`/`orphanRows` = store rows. `req[r]` = each caller's request with its pc, one step per remote call. `registered` = `Get(provider)` succeeds. The provider's `CreateDeployment` is two steps, as in the code: `ProvCreate` (validation and the `ListDeployments` check) and `ProvDeploy` (`Deploy`, which may fail after applying the namespace and some workloads: `PartialApply`). Another caller can run between them. The listing that feeds `UpdateDeployment`'s and the CLI's inputs is the store's own query: `L == INSTANCE DeploymentListing`, `StoreRows` = the joined deployment–service rows of the store, `ByID(d)` = the option the CLI's `delete` sends, and `JoinedRows(d) == L!GetDeployments(StoreRows, ByID(d))[1]`. |
| `DeploymentListing` | `db/deployment.go` `GetDeployments`, `db/provider.go` `GetAllProviders` | No state: operators over a row sequence and an option. `Matches` = the WHERE clause built from ID, owner and state set; `EffPage`/`EffSize`/`Offset` = the page normalisation; `Page` = `LIMIT size OFFSET offset` over the matching rows in the server's order (the query has no ORDER BY); `GroupRow` = one iteration of the loop that folds joined rows into deployments through the `deploymentToServices` map; `GetDeployments == FoldLeft(GroupRow, <<>>, Page(rows, opt))`. `GetAllProviders` is the same clause and page over the providers table. |
| `CapacityAggregate` | what `GetStatistics` promises | `res` = node resources (environment), `out` = the last answer. `Respond` answers with the whole-cluster aggregate (max = Σcapacity, available = Σallocatable − Σallocated, active = Σallocated) or fails. |
| `ResourceAccountant` | `GetStatistics` and `nodeResourceToResource` (`provider/manager.go`, `kube/client.go`) | `pc`/`snap`/`todo`/`acc` = the loop over the node list fetched by `FetchNodeResources`. Actions: `Fetch` (error or snapshot), `Accumulate(n)` (one loop iteration), `Finish` (Available := Word(available − active)). `Word` is `% 2^W` when the field is unsigned (memory, storage) and the identity for the float CPU fields. `Abs == INSTANCE CapacityAggregate WITH out <- ...` maps the loop's result onto the abstract answer; `AggregateRefined == Abs!Spec` is checked as a property. |
| `ManifestTranslator` | `deployment_util.go`, `kube/builder` (`container()`, `computeCommittedResources`, PVCs), `kube/client.go` (kind choice) | One `Translate` step from a request (`dep`, `commit`) to `out`. CPU units go through a P-bit binary float with round-half-even (`RoundFloat`, `RECURSIVE Binade`) and are truncated to uint64, as Go's `uint64(f * 1000)` does. `computeCommittedResources` rounds `value/factor` half away from zero. A second step, `GetDeployment` (the provider's, with `k8sDeploymentToService`), reads the workloads back into `got`, in any order (`Bijection`), or fails: CPU through `AsApproximateFloat64` (`MilliToFloat`), memory and storage through bytes. |
| `KubeApply` | `kube/apply.go`, `kube/client.go` `Deploy`, `DeleteNS`, and the provider manager's workload check | The API server: `ver[o]` (resourceVersion, 0 = absent), `rev` (global revision), `terminating`. Each caller runs a `Deploy` with `pc`, `at` (index into its `Plan`), `step` (get/create/update) and `seen` (the version its Get read). Workload and Service names carry a per-call uuid, so each caller has its own; the namespace and the network policies are shared. A call is a `CreateDeployment` (`List`: refused when a workload exists) or the provider's own `UpdateDeployment` RPC (`ListUpdate`: refused when none exists), then the same `Deploy`. `ApplyError` is the error path of each apply function, including `applyNetPolicies`, which continues to the workloads. |
| `MC_*` | TLC instances | model values and bounds |

Abstractions:
- **Time.** LastSeen is an age in time units. `MC_ProviderRegistry` uses a 5 s unit (TTL 6, interval 2). `MC_Registration` uses a 10 s unit (TTL 3, interval 1) with probes that take no time.
- **Scheduling.** `Prompt` is a timing assumption, not code: the watch goroutine takes a pending tick before the next time unit passes.
- **Services.** A service is counted, not described.
- **Validation.** Failing validation is an input of zero services.
- **Faults.** Any remote or store call may fail, up to `MaxFaults` times.

## 3. Runs

| Run | Expect | What it shows |
|---|---|---|
| `registry_liveness` | pass | `DeadProviderEventuallyEvicted`: a provider that stops answering for good is eventually evicted for good, despite dropped ticks and the probe timeout. `FailureDetectorRefined`: the sweep implements `FailureDetector`, so a probe resets LastSeen only for a provider that answered, an entry is deleted only once `Expired()` holds, and an entry that stays expired is deleted eventually. The probe failing on the cancelled context (`registry_evict`) is allowed by the abstraction: the provider it evicts is already expired. `TypeOK`. |
| `registry_evict` | violation | `EvictOnlyUnresponsive` fails. p2 is inserted during a sweep and probed first, and `scancel()` follows. p1, answering but more than TTL since its last success after a short outage, fails its probe on the cancelled context and is deleted. |
| `registration_recovery` | pass | `RestartRecovery`: after a manager restart every running, reachable provider gets back into the registry. Covers crashes, a second incarnation, a partition (during which a connect's `Version()` call, which has no deadline, waits), a DB fault, and the fatal map race as one of the restart causes. |
| `registration_rejoin` | violation | `LiveProviderRegistered` fails. A partition longer than TTL evicts p1. After it heals, p1 keeps serving and never re-registers, because its loop only reacts to a session change. |
| `registration_persist` | violation | `ServingProviderPersisted` fails. `AddNewProvider` fails after AddProvider, so the provider exits. Its restart's connect finds the stale entry and returns nil, and the provider serves with no row. |
| `orchestrator_safety` | pass | `ListingAsSpecified` (constant-level: TLC evaluates it once, at start-up): for every store of two deployments, every order the server may return the joined rows in and every option, `GetDeployments` lists each deployment of the page once, with its stored state, matching the filter, and with exactly its services on the page; a first page large enough lists everything that matches; the spec's pagination examples hold. In every state reachable by two racing callers with partial Deploys, re-read and store failures, the by-ID listing that Update and the CLI's `delete` read returns each stored deployment with its stored state and all its service rows. |
| `orchestrator_rows` | violation | `ServiceRowsOwned` fails. Create, Close, then Update persists service rows with an empty deployment_id. |
| `orchestrator_store` | violation | `StoreMatchesCluster` fails. Once every request has returned, a deployment has workloads on the cluster exactly when its row is Active; but a `Deploy` that fails after applying a workload returns an error and nothing removes the workload (manager.go:114), so the cluster runs a deployment with no row. The same property also covers the failed store write after a successful Deploy, the un-retryable Close, Update racing Close and the InActive state persisted from a listing. |
| `apply_success` | pass | `DeploySuccessApplied`: when a caller's `Deploy` returns nil and its namespace was not deleted meanwhile, every object it applied exists. This holds across two concurrent callers, conflicts, AlreadyExists, faults and a namespace deletion. |
| `apply_policies` | violation | `PoliciesApplied` fails. A policy create fails, but `applyNetPolicies` returns nil because the loop's `obj, err :=` shadows the returned `err` (apply.go:41), and `Deploy` succeeds without the policy. |
| `accountant_cpu` | pass | `AggregateRefined`: the loop over nodes, with the fields as float CPU values, implements the abstract aggregate. Node resources may change during the call; the loop ranges over the snapshot `FetchNodeResources` returned, so the answer is that snapshot's aggregate. |
| `translator_spec` | pass | `TranslationAsSpecified`: for every bounded request the translation is the spec's (validation outcome, CPU limit = cores × 1000 millicores, memory and storage bytes, the committed request the spec's formula gives, at least 1 for a zero limit, and StatefulSet exactly when there is a persistent volume). The CPU conjunct is checked on core counts exact in binary (see Bounds). |

Questions modelled but not given a run are listed as hazards in `PROJECT.json` with the reason. The model still contains them:
- `FirstHandleWins` (`Registration`: two connects of one ID both pass AddProvider's unlocked check, and the later handle replaces the earlier);
- `UpdateUpserts` (Update refused with "already exist");
- Available wrapping for uint64 memory (`accountant_cpu` with `Unsigned = TRUE`);
- request > limit after rounding at a zero limit;
- CPU truncation of `2.01 * 1000` to 2009, where the spec says cores × 1000;
- the read-back of CPU through milli-cores and `AsApproximateFloat64` (`ManifestTranslator`'s `GetDeployment` step). It is exact on the run's inputs and lossy on the decimals float64 truncates (2.01 reads back as 2.009), so no passing run can state it.

Each of these also falls to a unit test.

Every property of a passing run has a mutant in `PROJECT.json`: a plausible bug in the mapped code that TLC catches under the same configuration.

### Bounds, and why they are enough

- **Registry.**
  - Two providers: one is probed first and cancels the context for the other.
  - One handle.
  - TTL 6 against interval 2: several sweeps fit in a TTL, so both the keep-on-failure branch and the evict branch are taken.
- **Registration.**
  - `registration_recovery`: one provider with two incarnations, one manager restart and one fault. This lets a second process race a stale connect, and lets a partition, a crash or a DB failure happen during recovery.
  - Violation runs: one provider, no restart, at most two incarnations. That is the smallest setting in which each bug appears.
- **Orchestrator.**
  - Two uuids, two callers, up to 2 services, 4 requests, 2 faults: 568k states. This is enough for Create/Close/Update sequences on one ID racing a second caller, with partial Deploys.
  - Violation runs: a single caller.
- **Kube apply.**
  - Two callers (symmetric model values), one network policy, two services with one exposed, two faults and one namespace deletion: 155k states.
  - Two callers are needed for conflicts on the shared policy and the namespace. The deletion lets a Deploy run into a terminating namespace.
- **Accountant.**
  - Two nodes, each field in a small range, W = 4: 89k states. The range includes allocated > allocatable.
  - Node resources may change between any two loop steps.
- **Translator.**
  - Up to 2 services with 1 port, CPUs 1/2 and 2, memory and storage 0 and 1 MB (0 is the CLI's default and the edge where the committed request is forced to 1), commit factors 1 and 3, and four protocol spellings (empty, lower, mixed case, unsupported): 231k states.
  - P = 14 bits of mantissa gives the same truncation behaviour on these inputs as float64 does on theirs, and keeps the storage limit of 10^6 bytes exact as float64 does. A decimal such as 2.01, whose float64 product with 1000 falls just below the integer, does not behave at P = 14 as it does at 53 bits; that case (stored as 2.009) is a recorded hazard, not a run.
  - Rationals are compared in lowest terms (`Lowest`, `RECURSIVE GCD`), and the read-back product is rounded as an integer and then scaled by a power of two, which keeps TLC's integers within 32 bits.

- **Listing.** Two deployment IDs, each absent or stored with one of three states, one of two owners and one or two services; every permutation of the joined rows (up to 4 rows, 24 orders). Options: no filter or one value for ID and owner, the state sets of `list`, `list --show-all` and `delete`, page and size in -1..2. Size 1 and 2 cut a deployment's rows across pages, and -1 and 0 take the normalisation.

### Fairness

- **Registry.**
  - `Tick` is weakly fair, because time passes.
  - The watch goroutine's steps are weakly fair, per entry for `WatchProbe`, because a Go map range produces every entry present.
  - The environment (providers answering, registrations) has no fairness.
  - `FailureDetector` assumes only that an expired entry is eventually forgotten (weak fairness of `Forget`); the registry's fairness implies it, which `FailureDetectorRefined` checks.
- **Registration.**
  - The provider loop's `Heartbeat` and `CallConnect` are weakly fair: the loop polls every interval.
  - Each ProviderConnect goroutine's step is strongly fair. Its `Get` is only intermittently enabled, since the sweep holds the lock. Go's `sync.Mutex` switches to starvation mode after 1 ms and hands the lock to the longest waiter, so a waiter is not passed over forever.
  - Crashes, partitions, heals and restarts have no fairness.
  - `ConnDial` is not forced to fail: `Version()` fails at once when the calling process is gone, but waits with no deadline while a live provider is cut off, so no property says a connect returns.
- **Orchestrator, KubeApply, ResourceAccountant, ManifestTranslator.** Only safety properties (and a refinement of a safety specification) are checked, so there is no fairness. `KubeApply` and `ManifestTranslator` stop once every call has returned, hence `CHECK_DEADLOCK FALSE` in their configurations.

## 4. Not modelled, and why

- **RPC framing, auth tokens and permission checks** (`api/`, `node/rpc.go`, `handler`). Each RPC is one atomic call that may fail.
- **Configuration, repo, fx wiring and metrics.** These have no runtime state the properties concern.
- **Provider start-up.** The repo, config and listener are a single `ProviderStart` step.
- **The DB bootstrap** (`SqlDB`, `createAllTables`). It runs once at start-up, executing fixed DDL; a failure stops the manager before it serves. The listing queries are modelled in `DeploymentListing`.
- **Missing from the repository:** `FetchNodeResources`, `builder.DidNS`, `BuildNS` and `NewDefaultSettings`. Namespaces are keyed by deployment ID, as the spec says.
- **Pod attribution in `getPods`.** The builder's `Create` sets no labels on the Deployment object, so the selector built from them is empty and every pod is filed under the last Deployment. No module represents pods or labels; the hazard is recorded.
- **Unreachable paths of the builders.** Two of them:
  - The Deployment builder's `Update` rewrites the immutable selector. It is unreachable because workload names are random per call.
  - The workload kind is chosen by the attribute key "default", while `container()` and the PVC builder use "persistent". This is unreachable because the translator sets no storage attributes.
  
  Both are recorded as hazards.
- **`GetLogs`, `GetEvents`, `SetProperties`.** The first two select pods by labels set by builder code that is not in the repository; the last writes a properties row unrelated to the lifecycle.
- **Version mismatch.** Provider and manager are both version 1.0.0 in this build, so the check always passes.

## 5. Plan

Built so far:
1. `ProviderRegistry`, refining `FailureDetector`.
2. `Registration`, composing the registry.
3. `Orchestrator`, with the provider's check and its `Deploy` as separate steps.
4. `ManifestTranslator`, checked against the spec's reference definition.
5. `ResourceAccountant`, refining `CapacityAggregate`.
6. `KubeApply`.
7. `DeploymentListing`, composed into `Orchestrator`.

Still to do:
8. `OneWorkloadPerService`. Two concurrent `CreateDeployment`s on one ID both pass the provider's empty-namespace check and apply workloads under different random names. `Orchestrator` reaches this interleaving now; the property needs a run.
9. `Orchestrator` extensions:
   - a cross-page property of the listing (a deployment on two pages, or skipped between them);
   - a liveness property for retried Close after a partial failure.

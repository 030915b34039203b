---------------------------- MODULE Orchestrator ----------------------------
(***************************************************************************)
(* The deployment lifecycle across the manager (node/impl/manager/         *)
(* manager.go), one provider (node/impl/provider/manager.go and its kube   *)
(* client), the cluster and the manager's store (db/deployment.go).        *)
(*                                                                         *)
(* Every request runs on its own goroutine and is a sequence of remote     *)
(* calls; each call is one step, so requests interleave between calls.     *)
(* The data is abstracted to what the properties tell apart: a service is  *)
(* counted, not described, and a cluster namespace is the number of        *)
(* workloads (k8s Deployments) in it.                                      *)
(*                                                                         *)
(* Update and Close act on a deployment the caller has listed: the API     *)
(* hands out a DeploymentID only through GetDeploymentList, and the CLI's  *)
(* delete command lists the deployment and closes what the list returned.  *)
(* registered stands for ProviderManager.Get succeeding; the registry      *)
(* itself is ProviderRegistry.tla.                                         *)
(***************************************************************************)
EXTENDS Naturals, FiniteSets, Sequences

CONSTANTS
    DIDs,        \* DeploymentIDs, the uuids CreateDeployment may draw
    Reqs,        \* concurrent API callers
    MaxSvc,      \* the most services a deployment is given
    MaxOps,      \* bound on the requests issued in a behaviour
    MaxFaults    \* bound on the upstream and store errors injected

States == {"Active", "InActive", "Close"}

VARIABLES
    registered,  \* ProviderManager.Get(deployment.ProviderID) succeeds
    ns,          \* the namespace DidNS(id) exists on the cluster
    wl,          \* the workloads (k8s Deployments) in that namespace
    row,         \* the deployments row of id: "none" or its state
    svcRows,     \* service rows whose deployment_id is id
    orphanRows,  \* service rows whose deployment_id is ""
    used,        \* uuids handed out by CreateDeployment
    req,         \* each caller's request in progress
    ops,         \* requests issued
    faults       \* errors injected

vars == <<registered, ns, wl, row, svcRows, orphanRows, used, req, ops, faults>>

MaxRows == MaxOps * MaxSvc

Pcs == {"idle", "get", "provCreate", "deploy", "reread", "persist", "provClose", "closeState"}
Results == {"none", "ok", "err", "exists"}

Req == [op : {"none", "create", "update", "close"}, pc : Pcs, d : DIDs,
        n : 0..MaxSvc, st : States, res : Results]

TypeOK ==
    /\ registered \in BOOLEAN
    /\ ns \in [DIDs -> BOOLEAN]
    /\ wl \in [DIDs -> 0..MaxRows]
    /\ row \in [DIDs -> {"none"} \cup States]
    /\ svcRows \in [DIDs -> 0..MaxRows]
    /\ orphanRows \in 0..MaxRows
    /\ used \subseteq DIDs
    /\ req \in [Reqs -> Req]
    /\ ops \in 0..MaxOps /\ faults \in 0..MaxFaults

Init ==
    /\ registered = TRUE
    /\ ns = [d \in DIDs |-> FALSE]
    /\ wl = [d \in DIDs |-> 0]
    /\ row = [d \in DIDs |-> "none"]
    /\ svcRows = [d \in DIDs |-> 0]
    /\ orphanRows = 0
    /\ used = {}
    /\ req = [r \in Reqs |-> [op |-> "none", pc |-> "idle", d |-> CHOOSE d \in DIDs : TRUE,
                              n |-> 0, st |-> "Active", res |-> "none"]]
    /\ ops = 0 /\ faults = 0

\* An upstream (provider RPC, cluster driver) or store call may fail.
Fault == faults < MaxFaults /\ faults' = faults + 1

\* The request of r moves to pc, or returns with res.
Goto(r, pc) == req' = [req EXCEPT ![r].pc = pc]
Return(r, res) == req' = [req EXCEPT ![r].pc = "idle", ![r].res = res]

Issue(r) == req[r].pc = "idle" /\ ops < MaxOps /\ ops' = ops + 1

(***************************************************************************)
(* GetDeploymentList for one ID: the persisted row, whose services the     *)
(* provider overlays when it is registered and GetDeployment succeeds.     *)
(* The overlay holds the services the cluster has, wl; without it the      *)
(* services are the joined rows.  An unregistered provider makes the state *)
(* "InActive" in the response.  Listed(d) is the (services, state) pairs   *)
(* a caller may get.                                                       *)
(***************************************************************************)
L == INSTANCE DeploymentListing

\* The deployments LEFT JOIN services: a row per service row of a stored deployment.
StoreRows ==
    LET ds == L!SetToSeq({d \in DIDs : row[d] # "none"})
    IN  L!FlattenSeq([i \in DOMAIN ds |->
            [k \in 1..svcRows[ds[i]] |-> [id |-> ds[i], state |-> row[ds[i]],
                                          owner |-> "owner", svc |-> <<ds[i], k>>]]])

\* The option of the CLI's delete and status: the ID only, page and size unset.
ByID(d) == [id |-> d, owner |-> L!NoFilter, states |-> {}, page |-> 0, size |-> 0]

\* DB.GetDeployments(ByID(d)): the deployment with the services of its rows.
JoinedRows(d) == L!GetDeployments(StoreRows, ByID(d))[1]

Listed(d) ==
    LET j == JoinedRows(d) IN
    IF registered
    THEN {<<wl[d], j.state>>, <<Len(j.services), j.state>>}
    ELSE {<<Len(j.services), "InActive">>}

(***************************************************************************)
(* The service counts a create request carries.  The CLI's create builds   *)
(* one service from its flags (and refuses an empty --image); with         *)
(* --template it sends the deployment read from the YAML file, with any    *)
(* number of services.                                                     *)
(***************************************************************************)
CreateRequestServices == {1} \cup 0..MaxSvc

(***************************************************************************)
(* CreateDeployment: a fresh uuid, State = Active; the caller gives the    *)
(* services, n = 0 standing for input that fails validation (no services,  *)
(* an empty image or a protocol neither TCP nor UDP).                      *)
(***************************************************************************)
StartCreate(r) ==
    /\ Issue(r)
    /\ \E d \in DIDs \ used, n \in CreateRequestServices :
         /\ used' = used \cup {d}
         /\ req' = [req EXCEPT ![r] = [op |-> "create", pc |-> "get", d |-> d,
                                       n |-> n, st |-> "Active", res |-> "none"]]
    /\ UNCHANGED <<registered, ns, wl, row, svcRows, orphanRows, faults>>

\* UpdateDeployment of a listed deployment with services the caller edits.
StartUpdate(r) ==
    /\ Issue(r)
    /\ \E d \in DIDs, n \in 0..MaxSvc :
         /\ row[d] # "none"
         /\ \E l \in Listed(d) :
              req' = [req EXCEPT ![r] = [op |-> "update", pc |-> "get", d |-> d,
                                         n |-> n, st |-> l[2], res |-> "none"]]
    /\ UNCHANGED <<registered, ns, wl, row, svcRows, orphanRows, used, faults>>

\* The CLI's delete: list the deployment, CloseDeployment with what came back.
StartClose(r) ==
    /\ Issue(r)
    /\ \E d \in DIDs :
         /\ row[d] # "none"
         /\ \E l \in Listed(d) :
              req' = [req EXCEPT ![r] = [op |-> "close", pc |-> "get", d |-> d,
                                         n |-> l[1], st |-> l[2], res |-> "none"]]
    /\ UNCHANGED <<registered, ns, wl, row, svcRows, orphanRows, used, faults>>

(***************************************************************************)
(* ClusterDeploymentFromDeployment: a non-empty ID, at least one service,  *)
(* each with an image and ports whose protocol is empty, TCP or UDP.       *)
(***************************************************************************)
Validates(r) == req[r].n > 0

\* ProviderManager.Get(deployment.ProviderID); ErrProviderNotExist returns.
GetProvider(r) ==
    /\ req[r].pc = "get"
    /\ IF registered
       THEN Goto(r, IF req[r].op = "close" THEN "provClose" ELSE "provCreate")
       ELSE Return(r, "err")
    /\ UNCHANGED <<registered, ns, wl, row, svcRows, orphanRows, used, ops, faults>>

(***************************************************************************)
(* provider manager.CreateDeployment, the path both the manager's Create   *)
(* and its Update call: ClusterDeploymentFromDeployment validates;         *)
(* ListDeployments(ns) finding a workload returns "already exist";         *)
(* otherwise kube Deploy applies the namespace, the network policies and,  *)
(* per service, the workload then its k8s Services.  Deploy returns at the *)
(* first failing apply, leaving what it applied before: nothing, the bare  *)
(* namespace, or the namespace with k of the n workloads.  Workload names *)
(* carry a fresh uuid suffix (imageToServiceName), so an apply adds new    *)
(* workloads beside those already in the namespace.                        *)
(***************************************************************************)
AfterDeploy(r) == IF req[r].op = "create" THEN "reread" ELSE "persist"

DeployOK(r) ==
    LET d == req[r].d IN
    /\ ns' = [ns EXCEPT ![d] = TRUE]
    /\ wl' = [wl EXCEPT ![d] = @ + req[r].n]
    /\ Goto(r, AfterDeploy(r))
    /\ UNCHANGED faults

\* Deploy's partial result: nothing, the bare namespace, or k workloads.
PartialApply(r) ==
    LET d == req[r].d IN
    \/ UNCHANGED <<ns, wl>>
    \/ \E k \in 0..req[r].n :
         /\ ns' = [ns EXCEPT ![d] = TRUE]
         /\ wl' = [wl EXCEPT ![d] = @ + k]

DeployFails(r) ==
    /\ Fault /\ PartialApply(r)
    /\ Return(r, "err")

(***************************************************************************)
(* The check: validation, then ListDeployments(ns); an error returns, a    *)
(* workload in the namespace returns "already exist".  The check and       *)
(* Deploy are separate calls to the cluster, so another request can create *)
(* or delete workloads between them.                                       *)
(***************************************************************************)
ProvCreate(r) ==
    /\ req[r].pc = "provCreate"
    /\ \/ ~Validates(r) /\ Return(r, "err") /\ UNCHANGED faults
       \/ Fault /\ Return(r, "err")
       \/ wl[req[r].d] > 0 /\ Validates(r) /\ Return(r, "exists") /\ UNCHANGED faults
       \/ wl[req[r].d] = 0 /\ Validates(r) /\ Goto(r, "deploy") /\ UNCHANGED faults
    /\ UNCHANGED <<registered, ns, wl, row, svcRows, orphanRows, used, ops>>

\* kube Deploy with the translated group.
ProvDeploy(r) ==
    /\ req[r].pc = "deploy"
    /\ DeployOK(r) \/ DeployFails(r)
    /\ UNCHANGED <<registered, row, svcRows, orphanRows, used, ops>>

(***************************************************************************)
(* k8sDeploymentsToServices: one service per Deployment object of the      *)
(* namespace (its image, name and limits); an object without containers   *)
(* would be an error, and Deploy never creates one.                        *)
(***************************************************************************)
ServicesOfWorkloads(d) == wl[d]

(***************************************************************************)
(* CreateDeployment re-reads the deployment from the provider:             *)
(* GetDeployment lists the workloads of the namespace, and their services  *)
(* replace the caller's, each given DeploymentID = deployment.ID.          *)
(***************************************************************************)
Reread(r) ==
    /\ req[r].pc = "reread"
    /\ \/ Fault /\ Return(r, "err")
       \/ req' = [req EXCEPT ![r].n = ServicesOfWorkloads(req[r].d), ![r].pc = "persist"]
          /\ UNCHANGED faults
    /\ UNCHANGED <<registered, ns, wl, row, svcRows, orphanRows, used, ops>>

(***************************************************************************)
(* DB.CreateDeployment, one transaction: the deployments row is inserted,  *)
(* or on a duplicate key its state is overwritten; then the n service rows *)
(* are inserted, never replaced.  An empty service slice makes the bulk    *)
(* insert fail and the transaction roll back.  Create's rows carry the     *)
(* ID; Update's carry the caller's DeploymentID, which nothing sets: the   *)
(* services a caller gets from GetDeploymentList have none (the overlay    *)
(* does not set it and the SELECT does not read s.deployment_id).          *)
(***************************************************************************)
(***************************************************************************)
(* sqlx's bulk NamedExec refuses an empty slice.  Both callers hand it at  *)
(* least one service: Update's are validated, and Create's re-read finds   *)
(* the workloads its own Deploy created, so the refusal is never taken.    *)
(***************************************************************************)
BulkInsertOK(n) == n > 0

Persist(r) ==
    LET d == req[r].d IN
    /\ req[r].pc = "persist"
    /\ \/ Fault /\ Return(r, "err") /\ UNCHANGED <<row, svcRows, orphanRows>>
       \/ /\ BulkInsertOK(req[r].n)
          /\ row' = [row EXCEPT ![d] = req[r].st]
          /\ IF req[r].op = "create"
             THEN svcRows' = [svcRows EXCEPT ![d] = @ + req[r].n] /\ UNCHANGED orphanRows
             ELSE orphanRows' = orphanRows + req[r].n /\ UNCHANGED svcRows
          /\ Return(r, "ok")
          /\ UNCHANGED faults
    /\ UNCHANGED <<registered, ns, wl, used, ops>>

(***************************************************************************)
(* provider manager.CloseDeployment: validate as for create, then kube     *)
(* DeleteNS, which fails with NotFound once the namespace is gone; the     *)
(* namespace's deletion takes its workloads with it.                       *)
(***************************************************************************)
ProvClose(r) ==
    LET d == req[r].d IN
    /\ req[r].pc = "provClose"
    /\ \/ ~Validates(r) /\ Return(r, "err") /\ UNCHANGED <<ns, wl, faults>>
       \/ Validates(r) /\ Fault /\ Return(r, "err") /\ UNCHANGED <<ns, wl>>
       \/ Validates(r) /\ ~ns[d] /\ Return(r, "err") /\ UNCHANGED <<ns, wl, faults>>
       \/ /\ Validates(r) /\ ns[d]
          /\ ns' = [ns EXCEPT ![d] = FALSE]
          /\ wl' = [wl EXCEPT ![d] = 0]
          /\ Goto(r, "closeState")
          /\ UNCHANGED faults
    /\ UNCHANGED <<registered, row, svcRows, orphanRows, used, ops>>

\* DB.UpdateDeploymentState(id, Close).
CloseState(r) ==
    /\ req[r].pc = "closeState"
    /\ \/ Fault /\ Return(r, "err") /\ UNCHANGED row
       \/ row' = [row EXCEPT ![req[r].d] = "Close"] /\ Return(r, "ok") /\ UNCHANGED faults
    /\ UNCHANGED <<registered, ns, wl, svcRows, orphanRows, used, ops>>

\* The provider joins or leaves the registry (ProviderRegistry.tla).
RegistryChange ==
    /\ registered' = ~registered
    /\ UNCHANGED <<ns, wl, row, svcRows, orphanRows, used, req, ops, faults>>

Next ==
    \/ RegistryChange
    \/ \E r \in Reqs :
         \/ StartCreate(r) \/ StartUpdate(r) \/ StartClose(r)
         \/ GetProvider(r) \/ ProvCreate(r) \/ ProvDeploy(r) \/ Reread(r) \/ Persist(r)
         \/ ProvClose(r) \/ CloseState(r)

Spec == Init /\ [][Next]_vars

-----------------------------------------------------------------------------
(***************************************************************************)
(* ListingAsSpecified: GetDeployments, the query every listing above goes  *)
(* through, answers as the spec says for every store, row order and        *)
(* option (see DeploymentListing); and in every state the by-ID listing    *)
(* that Update and the CLI's delete read returns a stored deployment with  *)
(* its stored state and every one of its service rows.                     *)
(***************************************************************************)
ListingAsSpecified ==
    /\ L!ListingAsSpecified
    /\ \A d \in DIDs : row[d] # "none" /\ svcRows[d] > 0 =>
         /\ JoinedRows(d).state = row[d]
         /\ Len(JoinedRows(d).services) = svcRows[d]

(***************************************************************************)
(* ServiceRowsOwned: the spec's invariant that a persisted service row     *)
(* always carries its owning DeploymentID; the rows UpdateDeployment       *)
(* inserts carry none.                                                     *)
(***************************************************************************)
ServiceRowsOwned == orphanRows = 0

(***************************************************************************)
(* StoreMatchesCluster: once every request has returned, the store and the *)
(* cluster agree: a deployment is persisted Active exactly when its        *)
(* namespace runs workloads.  The spec has Close mark a torn-down          *)
(* deployment, InActive exist only in a listing response, and a            *)
(* deployment run only once it is created; the manager writes the cluster  *)
(* and the store in separate calls with no compensation when the second    *)
(* fails, and requests on one ID interleave between them.                  *)
(***************************************************************************)
Quiescent == \A r \in Reqs : req[r].pc = "idle"

StoreMatchesCluster ==
    Quiescent => \A d \in used : (wl[d] > 0) = (row[d] = "Active")
=============================================================================

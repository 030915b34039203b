------------------------------ MODULE KubeApply ------------------------------
(***************************************************************************)
(* The provider's apply path against the cluster API server:               *)
(* manager.Create/UpdateDeployment (provider/manager.go), client.Deploy  *)
(* and DeleteNS (kube/client.go) and the get-then-create-or-update helpers *)
(* of kube/apply.go, for one deployment namespace.                         *)
(*                                                                         *)
(* Several CreateDeployment calls may run at once (the manager's Create   *)
(* and Update of one deployment both reach it) and a CloseDeployment may   *)
(* delete the namespace meanwhile.  Each API call is one atomic step of    *)
(* the API server, which may fail (MaxFaults).  The server keeps a global  *)
(* resource revision: Update carries the version its Get returned and is   *)
(* refused on a mismatch (Conflict); Create of an existing name is refused *)
(* (AlreadyExists); nothing is created in a missing or terminating         *)
(* namespace; a deleted namespace terminates, then its objects are         *)
(* collected.                                                              *)
(***************************************************************************)
EXTENDS Naturals, Sequences, SequencesExt, FiniteSets

CONSTANTS
    Callers,     \* concurrent provider CreateDeployment or UpdateDeployment calls
    NPol,        \* network policies BuildNetPol returns
    NSvc,        \* services of the manifest group
    Exposed,     \* services with at least one expose
    MaxFaults,   \* API calls that may fail
    MaxDeletes   \* DeleteNS calls

NS == <<"ns", 0, 0>>

(***************************************************************************)
(* The objects a call's Deploy applies, in order: the namespace (DidNS of  *)
(* the deployment ID), the policies, then per service the workload and,    *)
(* when it exposes ports, the local and the global Service.  Workloads are *)
(* named by imageToServiceName, the image and a fresh uuid per             *)
(* translation, and Services after their workload: each call applies its  *)
(* own workload and Service objects, while the namespace and the policies  *)
(* are shared.                                                             *)
(***************************************************************************)
ServicePlan(s, c) ==
    IF s \in Exposed THEN << <<"wl", s, c>>, <<"svcL", s, c>>, <<"svcG", s, c>> >>
    ELSE << <<"wl", s, c>> >>

Plan(c) ==
    <<NS>> \o [i \in 1..NPol |-> <<"pol", i, 0>>] \o FlattenSeq([s \in 1..NSvc |-> ServicePlan(s, c)])

Objects == UNION {ToSet(Plan(c)) : c \in Callers}

PlanLen == 1 + NPol + NSvc + 2 * Cardinality(Exposed)

\* Where Deploy goes on after the policy loop.
AfterPolicies == NPol + 2

VARIABLES
    ver,         \* each object's resourceVersion, 0 when absent
    rev,         \* the server's revision counter
    terminating, \* the namespace is being deleted
    pc,          \* each call: idle, list (Create), listUpdate, apply, done or failed
    at,          \* the index in Plan of the object being applied
    step,        \* get, create or update
    seen,        \* the version the apply's Get returned
    intact,      \* no deletion touched the namespace since the call began
    faults, deletes

vars == <<ver, rev, terminating, pc, at, step, seen, intact, faults, deletes>>
callVars == <<pc, at, step, seen, intact>>

TypeOK ==
    /\ ver \in [Objects -> Nat] /\ rev \in Nat /\ terminating \in BOOLEAN
    /\ pc \in [Callers -> {"idle", "list", "listUpdate", "apply", "done", "failed"}]
    /\ at \in [Callers -> 1..PlanLen] /\ step \in [Callers -> {"get", "create", "update"}]
    /\ seen \in [Callers -> Nat] /\ intact \in [Callers -> BOOLEAN]

Init ==
    /\ ver = [o \in Objects |-> 0] /\ rev = 0 /\ terminating = FALSE
    /\ pc = [c \in Callers |-> "idle"] /\ at = [c \in Callers |-> 1]
    /\ step = [c \in Callers |-> "get"] /\ seen = [c \in Callers |-> 0]
    /\ intact = [c \in Callers |-> TRUE]
    /\ faults = 0 /\ deletes = 0

Fault == faults < MaxFaults /\ faults' = faults + 1

Obj(c) == Plan(c)[at[c]]

\* The next object of the plan, or the end of Deploy.
Advance(c) ==
    IF at[c] = PlanLen THEN pc' = [pc EXCEPT ![c] = "done"] /\ UNCHANGED <<at, step>>
    ELSE at' = [at EXCEPT ![c] = @ + 1] /\ step' = [step EXCEPT ![c] = "get"] /\ UNCHANGED pc

(***************************************************************************)
(* An apply returned an error.  applyNS, applyDeployment and applyService  *)
(* return it and Deploy returns it.  In applyNetPolicies the loop's        *)
(* `obj, err :=` declares a new err: the loop breaks on it but the         *)
(* function returns the outer err, which is nil, so Deploy goes on with    *)
(* the workloads.                                                          *)
(***************************************************************************)
ApplyErrorSwallowed(c) == Advance(c)

ApplyError(c) ==
    IF Obj(c)[1] = "pol"
    THEN IF AfterPolicies > PlanLen THEN pc' = [pc EXCEPT ![c] = "done"] /\ UNCHANGED <<at, step>>
         ELSE at' = [at EXCEPT ![c] = AfterPolicies] /\ step' = [step EXCEPT ![c] = "get"] /\ UNCHANGED pc
    ELSE pc' = [pc EXCEPT ![c] = "failed"] /\ UNCHANGED <<at, step>>

\* A CreateDeployment or an UpdateDeployment call arrives.
Start(c) ==
    /\ pc[c] = "idle"
    /\ pc' \in {[pc EXCEPT ![c] = "list"], [pc EXCEPT ![c] = "listUpdate"]}
    /\ intact' = [intact EXCEPT ![c] = TRUE]
    /\ UNCHANGED <<ver, rev, terminating, at, step, seen, faults, deletes>>

(***************************************************************************)
(* manager.CreateDeployment: ClusterDeploymentFromDeployment (valid here), *)
(* ListDeployments of the namespace; an error, or a workload present       *)
(* ("already exist"), returns; otherwise Deploy starts with applyNS.       *)
(***************************************************************************)
List(c) ==
    /\ pc[c] = "list"
    /\ \/ Fault /\ pc' = [pc EXCEPT ![c] = "failed"] /\ UNCHANGED <<at, step>>
       \/ /\ UNCHANGED faults
          /\ IF \E o \in Objects : o[1] = "wl" /\ ver[o] > 0
             THEN pc' = [pc EXCEPT ![c] = "failed"] /\ UNCHANGED <<at, step>>
             ELSE /\ pc' = [pc EXCEPT ![c] = "apply"]
                  /\ at' = [at EXCEPT ![c] = 1] /\ step' = [step EXCEPT ![c] = "get"]
    /\ UNCHANGED <<ver, rev, terminating, seen, intact, deletes>>

(***************************************************************************)
(* manager.UpdateDeployment: the same ListDeployments, with the opposite   *)
(* test: no workload present ("do not exist") returns; otherwise Deploy,   *)
(* whose fresh workload names add to the ones already running.             *)
(***************************************************************************)
ListUpdate(c) ==
    /\ pc[c] = "listUpdate"
    /\ \/ Fault /\ pc' = [pc EXCEPT ![c] = "failed"] /\ UNCHANGED <<at, step>>
       \/ /\ UNCHANGED faults
          /\ IF \E o \in Objects : o[1] = "wl" /\ ver[o] > 0
             THEN /\ pc' = [pc EXCEPT ![c] = "apply"]
                  /\ at' = [at EXCEPT ![c] = 1] /\ step' = [step EXCEPT ![c] = "get"]
             ELSE pc' = [pc EXCEPT ![c] = "failed"] /\ UNCHANGED <<at, step>>
    /\ UNCHANGED <<ver, rev, terminating, seen, intact, deletes>>

\* Get: an error other than NotFound is returned by the switch's fall-through.
Get(c) ==
    /\ pc[c] = "apply" /\ step[c] = "get"
    /\ \/ Fault /\ ApplyError(c) /\ UNCHANGED seen
       \/ /\ UNCHANGED faults
          /\ IF ver[Obj(c)] = 0
             THEN step' = [step EXCEPT ![c] = "create"] /\ UNCHANGED seen
             ELSE step' = [step EXCEPT ![c] = "update"] /\ seen' = [seen EXCEPT ![c] = ver[Obj(c)]]
          /\ UNCHANGED <<pc, at>>
    /\ UNCHANGED <<ver, rev, terminating, intact, deletes>>

\* The Create branch (Get said NotFound).
Create(c) ==
    /\ pc[c] = "apply" /\ step[c] = "create"
    /\ LET o == Obj(c) IN
       \/ Fault /\ ApplyError(c) /\ UNCHANGED <<ver, rev>>
       \/ /\ UNCHANGED faults
          /\ \/ ver[o] > 0
             \/ o # NS /\ (ver[NS] = 0 \/ terminating)
          /\ ApplyError(c) /\ UNCHANGED <<ver, rev>>
       \/ /\ UNCHANGED faults
          /\ ver[o] = 0 /\ (o = NS \/ (ver[NS] > 0 /\ ~terminating))
          /\ rev' = rev + 1 /\ ver' = [ver EXCEPT ![o] = rev + 1]
          /\ Advance(c)
    /\ UNCHANGED <<terminating, seen, intact, deletes>>

\* The Update branch, with the object (and its version) the Get returned.
Update(c) ==
    /\ pc[c] = "apply" /\ step[c] = "update"
    /\ LET o == Obj(c) IN
       \/ Fault /\ ApplyError(c) /\ UNCHANGED <<ver, rev>>
       \/ /\ UNCHANGED faults
          /\ ver[o] # seen[c]
          /\ ApplyError(c) /\ UNCHANGED <<ver, rev>>
       \/ /\ UNCHANGED faults
          /\ ver[o] = seen[c]
          /\ rev' = rev + 1 /\ ver' = [ver EXCEPT ![o] = rev + 1]
          /\ Advance(c)
    /\ UNCHANGED <<terminating, seen, intact, deletes>>

(***************************************************************************)
(* manager.CloseDeployment: client.DeleteNS.  A present, active namespace  *)
(* starts terminating; otherwise the call returns an error.                *)
(***************************************************************************)
DeleteNS ==
    /\ deletes < MaxDeletes /\ deletes' = deletes + 1
    /\ \/ Fault /\ UNCHANGED <<terminating, intact>>
       \/ UNCHANGED faults /\ (ver[NS] = 0 \/ terminating) /\ UNCHANGED <<terminating, intact>>
       \/ /\ UNCHANGED faults /\ ver[NS] > 0 /\ ~terminating
          /\ terminating' = TRUE /\ intact' = [c \in Callers |-> FALSE]
    /\ UNCHANGED <<ver, rev, pc, at, step, seen>>

\* The namespace controller removes a terminating namespace and its objects.
Collect ==
    /\ terminating
    /\ terminating' = FALSE /\ ver' = [o \in Objects |-> 0]
    /\ intact' = [c \in Callers |-> FALSE]
    /\ UNCHANGED <<rev, pc, at, step, seen, faults, deletes>>

Next ==
    \/ DeleteNS \/ Collect
    \/ \E c \in Callers : Start(c) \/ List(c) \/ ListUpdate(c) \/ Get(c) \/ Create(c) \/ Update(c)

Spec == Init /\ [][Next]_vars

-----------------------------------------------------------------------------
\* The objects a call's Deploy applies, the policies apart.
AppliedBy(c) == {o \in ToSet(Plan(c)) : o[1] # "pol"}
PolicyObjects == {o \in Objects : o[1] = "pol"}

(***************************************************************************)
(* DeploySuccessApplied: when CreateDeployment returns nil and no deletion *)
(* has touched the namespace since the call began, the namespace and every *)
(* workload and Service of the manifest exist, whatever the other calls   *)
(* did meanwhile: apply helpers and Deploy pass every refused Create,      *)
(* conflicting Update and failed call on to the caller.                    *)
(***************************************************************************)
DeploySuccessApplied ==
    \A c \in Callers :
        pc[c] = "done" /\ intact[c] => \A o \in AppliedBy(c) : ver[o] > 0

(***************************************************************************)
(* PoliciesApplied: the same for the network policies (spec 4.4: Deploy   *)
(* applies the NetworkPolicy set).                                         *)
(***************************************************************************)
PoliciesApplied ==
    \A c \in Callers :
        pc[c] = "done" /\ intact[c] => \A o \in PolicyObjects : ver[o] > 0
=============================================================================

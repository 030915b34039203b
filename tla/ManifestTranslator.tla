------------------------- MODULE ManifestTranslator -------------------------
(***************************************************************************)
(* The provider's manifest translator: ClusterDeploymentFromDeployment and *)
(* its helpers (node/impl/provider/deployment_util.go), the resource part  *)
(* of Workload.container() and computeCommittedResources                   *)
(* (kube/builder/wordload.go), and the per-service choices of              *)
(* client.Deploy (kube/client.go): workload kind and exposed services.     *)
(*                                                                         *)
(* The translator is a pure function; the specification has one step,     *)
(* the translation of the deployment chosen in the initial state, so that  *)
(* TLC evaluates it on every input of the bounded sets.                    *)
(*                                                                         *)
(* Numbers.  A CPU value is the float64 of a decimal flag value, given as  *)
(* a rational <<num, den>>; float64 is modelled as a binary float with a   *)
(* P-bit significand and round-to-nearest-even (P stands for 53), which is *)
(* how strconv parses and how * rounds.  Memory and storage are integers   *)
(* (int64 megabytes); the runs use non-negative ones.  Commit factors are  *)
(* rationals <<num, den>>; computeCommittedResources' float product        *)
(* v * (1/factor) is taken exactly (its rounding error is far below the    *)
(* 0.5 that math.Round needs to differ), with math.Round's ties away from  *)
(* zero.                                                                   *)
(***************************************************************************)
EXTENDS Integers, Sequences, SequencesExt, Functions

CONSTANTS
    IDs,         \* deployment IDs, "" among them
    Images,      \* service images, "" among them
    CPUs,        \* CPU flag values (cores) as rationals <<num, den>>
    Quantities,  \* memory and storage flag values (megabytes)
    Protocols,   \* port protocol strings as a user may write them
    MaxServices, \* the longest Services list
    MaxPorts,    \* the longest Ports list of a service
    Factors,     \* commit factors as rationals <<num, den>>
    P            \* significand bits of the modelled float64

Resources == {"cpu", "memory", "storage"}

\* strings.ToUpper on the protocol spellings of Protocols.
Upper(p) ==
    CASE p \in {"tcp", "Tcp"} -> "TCP"
      [] p \in {"udp", "Udp"} -> "UDP"
      [] p = "sctp"           -> "SCTP"
      [] OTHER                -> p

Service == [image : Images, cpu : CPUs, memory : Quantities, storage : Quantities,
            ports : UNION {[1..k -> Protocols] : k \in 0..MaxPorts}]

Deployment == [id : IDs, services : UNION {[1..k -> Service] : k \in 0..MaxServices}]

-----------------------------------------------------------------------------
(***************************************************************************)
(* Binary floating point with a P-bit significand.  RoundFloat(a, b) is    *)
(* the float nearest to a/b (a, b >= 0, b > 0), ties to even, returned as  *)
(* a rational.                                                             *)
(***************************************************************************)
\* a/b scaled by 2^e into [2^(P-1), 2^P), as <<a', b', e>>.
RECURSIVE Binade(_, _, _)
Binade(a, b, e) ==
    IF a < 2^(P-1) * b THEN Binade(2 * a, b, e + 1)
    ELSE IF a >= 2^P * b THEN Binade(a, 2 * b, e - 1)
    ELSE <<a, b, e>>

RoundHalfEven(a, b) ==
    LET q == a \div b
        r == a % b
    IN  IF 2 * r > b \/ (2 * r = b /\ q % 2 = 1) THEN q + 1 ELSE q

RoundFloat(a, b) ==
    IF a = 0 THEN <<0, 1>>
    ELSE LET s == Binade(a, b, 0)
             m == RoundHalfEven(s[1], s[2])
         IN  IF s[3] >= 0 THEN <<m, 2^s[3]>> ELSE <<m * 2^(-s[3]), 1>>

\* A rational in lowest terms, so that equal floats compare equal.
RECURSIVE GCD(_, _)
GCD(a, b) == IF b = 0 THEN a ELSE GCD(b, a % b)

Lowest(q) == <<q[1] \div GCD(q[1], q[2]), q[2] \div GCD(q[1], q[2])>>

\* uint64(f) of a non-negative float: truncation toward zero.
TruncUint(f) == f[1] \div f[2]

\* math.Round(a/b) for a/b >= 0: half away from zero.
RoundHalfAway(a, b) == (2 * a + b) \div (2 * b)

-----------------------------------------------------------------------------
(***************************************************************************)
(* resourceToManifestResource: uint64(CPU*1000), uint64(Memory*1000000),   *)
(* uint64(Storage*1000000), and NewResourceUnits with one Storage entry    *)
(* and no attributes.  The CPU flag is parsed to a float, the product is   *)
(* rounded to a float and truncated.  Quantities are kept in the model's   *)
(* unit, megabytes, since the factor 10^6 is exact.                        *)
(***************************************************************************)
resourceToManifestResource(s) ==
    LET cpu == RoundFloat(s.cpu[1], s.cpu[2])
    IN  [cpu     |-> TruncUint(RoundFloat(cpu[1] * 1000, cpu[2])),
         memory  |-> s.memory * 1000000,
         storage |-> <<[quantity |-> s.storage * 1000000, attrs |-> <<>>]>>]

\* serviceProto: "" is TCP; otherwise ToUpper, and only TCP and UDP pass.
serviceProto(p) ==
    IF p = "" THEN "TCP"
    ELSE IF Upper(p) \in {"TCP", "UDP"} THEN Upper(p) ELSE "err"

\* exposesFromPorts: one expose per port; an error if a protocol is bad.
exposesFromPorts(ports) ==
    [ok     |-> \A i \in DOMAIN ports : serviceProto(ports[i]) # "err",
     expose |-> [i \in DOMAIN ports |-> serviceProto(ports[i])]]

\* serviceToManifestService: the image must be set and the ports valid.
serviceToManifestService(s) ==
    [ok  |-> s.image # "" /\ exposesFromPorts(s.ports).ok,
     svc |-> [image  |-> s.image,
              units  |-> resourceToManifestResource(s),
              expose |-> exposesFromPorts(s.ports).expose]]

\* deploymentToManifestGroup: at least one service, each translated.
deploymentToManifestGroup(d) ==
    [ok    |-> Len(d.services) > 0 /\
               \A i \in DOMAIN d.services : serviceToManifestService(d.services[i]).ok,
     group |-> [i \in DOMAIN d.services |-> serviceToManifestService(d.services[i]).svc]]

\* ClusterDeploymentFromDeployment: the ID must be set, then the group.
ClusterDeploymentFromDeployment(d) ==
    [ok    |-> d.id # "" /\ deploymentToManifestGroup(d).ok,
     group |-> deploymentToManifestGroup(d).group]

-----------------------------------------------------------------------------
(***************************************************************************)
(* computeCommittedResources(factor, rv): rv itself when factor <= 1;      *)
(* otherwise math.Round(v * (1/factor)), and 1 when that is not positive.  *)
(***************************************************************************)
computeCommittedResourcesTrunc(f, v) ==
    IF f[1] <= f[2] THEN v
    ELSE LET c == (v * f[2]) \div f[1] IN IF c <= 0 THEN 1 ELSE c

computeCommittedResources(f, v) ==
    IF f[1] <= f[2] THEN v
    ELSE LET c == RoundHalfAway(v * f[2], f[1]) IN IF c <= 0 THEN 1 ELSE c

(***************************************************************************)
(* Storage attributes.  Attributes.Find returns the value of the first     *)
(* attribute with the key, or ""; attributeValue.AsBool is strconv's       *)
(* ParseBool, (false, false) for "" and for what ParseBool refuses.        *)
(***************************************************************************)
Find(attrs, key) ==
    LET i == SelectInSeq(attrs, LAMBDA a : a.key = key)
    IN  IF i = 0 THEN "" ELSE attrs[i].value

AsBool(v) ==
    CASE v \in {"1", "t", "T", "TRUE", "true", "True"}  -> <<TRUE, TRUE>>
      [] v \in {"0", "f", "F", "FALSE", "false", "False"} -> <<FALSE, TRUE>>
      [] OTHER -> <<FALSE, FALSE>>

(***************************************************************************)
(* The resources of container(): CPU and memory requests are committed,    *)
(* limits raw.  The ephemeral storage is the first Storage entry whose     *)
(* "persistent" attribute is not true (the loop breaks there); without one *)
(* the container has no ephemeral-storage request or limit.                *)
(***************************************************************************)
containerResources(u, commit) ==
    LET e == SelectInSeq(u.storage, LAMBDA st : ~AsBool(Find(st.attrs, "persistent"))[1])
        raw == [cpu |-> u.cpu, memory |-> u.memory,
                storage |-> IF e = 0 THEN 0 ELSE u.storage[e].quantity]
        present == IF e = 0 THEN {"cpu", "memory"} ELSE Resources
    IN  [requests |-> [r \in present |-> computeCommittedResources(commit[r], raw[r])],
         limits   |-> [r \in present |-> raw[r]]]

(***************************************************************************)
(* client.Deploy, per service: a StatefulSet when some Storage entry's     *)
(* attribute "default" parses as true, else a Deployment; the local and    *)
(* global Services only when the service exposes a port.                   *)
(***************************************************************************)
Persistent(storage) ==
    \E i \in DOMAIN storage : AsBool(Find(storage[i].attrs, "default"))[1]

(***************************************************************************)
(* persistentVolumeClaims: one claim per Storage entry whose "persistent"  *)
(* attribute parses, and parses as true.                                   *)
(***************************************************************************)
persistentVolumeClaims(storage) ==
    {i \in DOMAIN storage : AsBool(Find(storage[i].attrs, "persistent")) = <<TRUE, TRUE>>}

workloadOf(svc, commit) ==
    [image     |-> svc.image,
     kind      |-> IF Persistent(svc.units.storage) THEN "StatefulSet" ELSE "Deployment",
     resources |-> containerResources(svc.units, commit),
     claims    |-> persistentVolumeClaims(svc.units.storage),
     services  |-> Len(svc.expose) > 0,
     ports     |-> svc.expose]

(***************************************************************************)
(* k8sDeploymentToService, reading a workload's first container back:    *)
(* the image and the limits.  Cpu() is NewScaledQuantity(milli, Milli),   *)
(* whose AsApproximateFloat64 is float64(milli) * math.Pow10(-3), the      *)
(* float of 1/1000, with the product rounded; it is rounded here as the    *)
(* integer milli * m and then scaled by the power of two of 1/1000, which  *)
(* rounding commutes with.  Memory().Value() / 1000000 in int64, and       *)
(* int64(StorageEphemeral().AsApproximateFloat64()) / 1000000, a zero      *)
(* quantity when the container has no ephemeral-storage limit.            *)
(***************************************************************************)
MilliToFloat(milli) ==
    LET t == RoundFloat(1, 1000)
        r == RoundFloat(milli * t[1], 1)
    IN  Lowest(<<r[1], r[2] * t[2]>>)

k8sDeploymentToService(w) ==
    LET q == w.resources.limits
    IN  [image   |-> w.image,
         cpu     |-> MilliToFloat(q.cpu),
         memory  |-> q.memory \div 1000000,
         storage |-> IF "storage" \in DOMAIN q THEN TruncUint(RoundFloat(q.storage, 1)) \div 1000000 ELSE 0]

-----------------------------------------------------------------------------
VARIABLES
    dep,       \* the types.Deployment passed to the provider
    commit,    \* the settings' CPU, memory and storage commit levels
    out,       \* the translation: done, ok, and the workloads applied
    got        \* GetDeployment's answer: done, ok, and the services read back

vars == <<dep, commit, out, got>>

TypeOK ==
    /\ dep \in Deployment
    /\ commit \in [Resources -> Factors]
    /\ out.done \in BOOLEAN /\ out.ok \in BOOLEAN
    /\ got.done \in BOOLEAN /\ got.ok \in BOOLEAN

Init ==
    /\ dep \in Deployment
    /\ commit \in [Resources -> Factors]
    /\ out = [done |-> FALSE, ok |-> FALSE, workloads |-> <<>>]
    /\ got = [done |-> FALSE, ok |-> FALSE, services |-> <<>>]

Translate ==
    /\ ~out.done
    /\ LET cd == ClusterDeploymentFromDeployment(dep)
       IN  out' = [done |-> TRUE, ok |-> cd.ok,
                   workloads |-> IF cd.ok THEN [i \in DOMAIN cd.group |-> workloadOf(cd.group[i], commit)]
                                 ELSE <<>>]
    /\ UNCHANGED <<dep, commit, got>>

(***************************************************************************)
(* The provider's GetDeployment on the namespace Deploy filled:            *)
(* ListDeployments (in the order of the workloads' random names, so any    *)
(* order), k8sDeploymentsToServices, ListServices and the port overlay.    *)
(* Any of the calls may fail.  The ports come from Services built by       *)
(* BuildService, which is not in the repository, and are not read back.    *)
(***************************************************************************)
GetDeployment ==
    /\ out.ok /\ ~got.done
    /\ \/ got' = [done |-> TRUE, ok |-> FALSE, services |-> <<>>]
       \/ \E order \in Bijection(DOMAIN out.workloads, DOMAIN out.workloads) :
             got' = [done |-> TRUE, ok |-> TRUE,
                     services |-> [i \in DOMAIN order |-> k8sDeploymentToService(out.workloads[order[i]])]]
    /\ UNCHANGED <<dep, commit, out>>

Next == Translate \/ GetDeployment

Spec == Init /\ [][Next]_vars

-----------------------------------------------------------------------------
(***************************************************************************)
(* The translator as spec.md section 4.3 describes it, for comparison.     *)
(***************************************************************************)
\* "TCP or UDP (case-insensitive)": every spelling of the two words.
TCPorUDPSpellings ==
    {"tcp", "tcP", "tCp", "tCP", "Tcp", "TcP", "TCp", "TCP",
     "udp", "udP", "uDp", "uDP", "Udp", "UdP", "UDp", "UDP"}

SpecValid(d) ==
    /\ d.id # ""
    /\ Len(d.services) > 0
    /\ \A i \in DOMAIN d.services :
          /\ d.services[i].image # ""
          /\ \A j \in DOMAIN d.services[i].ports :
                d.services[i].ports[j] \in {""} \cup TCPorUDPSpellings

\* commit = max(1, round(raw / factor)) if factor > 1, else raw.
SpecCommit(f, raw) ==
    IF f[1] > f[2] THEN LET c == RoundHalfAway(raw * f[2], f[1]) IN IF c < 1 THEN 1 ELSE c
    ELSE raw

(***************************************************************************)
(* TranslationAsSpecified: a deployment is translated exactly when it      *)
(* passes the spec's validation (ClusterDeploymentFromDeployment,          *)
(* serviceToManifestService, serviceProto), and then into one stateless    *)
(* workload per service, in order, whose CPU limit is cores x 1000, whose  *)
(* memory and storage limits are the raw values in bytes, which is a       *)
(* StatefulSet with claims exactly when a storage entry is persistent,     *)
(* whose requests are the spec's committed values of the limits under each *)
(* resource's own commit factor (computeCommittedResources in container(), *)
(* at least 1 for a zero limit), and which gets Services exactly when it   *)
(* exposes a port.                                                         *)
(***************************************************************************)
TranslationAsSpecified ==
    out.done =>
        /\ out.ok = SpecValid(dep)
        /\ out.ok =>
             /\ Len(out.workloads) = Len(dep.services)
             /\ \A i \in DOMAIN out.workloads :
                  LET w == out.workloads[i]
                      s == dep.services[i]
                  IN  /\ (w.kind = "StatefulSet") = (w.claims # {})
                      /\ w.services = (Len(s.ports) > 0)
                      /\ DOMAIN w.resources.limits = Resources
                      /\ w.resources.limits.cpu * s.cpu[2] = s.cpu[1] * 1000
                      /\ w.resources.limits.memory = s.memory * 1000000
                      /\ w.resources.limits.storage = s.storage * 1000000
                      /\ \A r \in Resources :
                            w.resources.requests[r] = SpecCommit(commit[r], w.resources.limits[r])
=============================================================================

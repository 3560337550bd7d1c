-------------------------- MODULE RuntimeDeployment --------------------------
(***************************************************************************)
(* From a ServingRuntime to the pods that run it: the admission webhook    *)
(* (servingruntime_webhook.go), the validator of a reconcile               *)
(* (servingruntime_validator.go), the search for volume claims (getPVCs of *)
(* servingruntime_controller.go), the autoscaler's parameters              *)
(* (createHPA), and Apply of src/controllers/modelmesh with its            *)
(* transformations of the deployment, one action each, in their order.     *)
(*                                                                         *)
(* A runtime and a configuration are chosen at the start; the runtime is   *)
(* then reconciled Passes times, and nothing changes in between.  What Go  *)
(* leaves open, the order in which a map is traversed, is a choice.  Go    *)
(* slices that share an array are modelled as such (backing).              *)
(***************************************************************************)
EXTENDS Integers, Sequences, SequencesExt, FiniteSets

CONSTANTS
    Cases,         \* pairs of a ServingRuntime and a configuration with the rest of the cluster
    PVCOrder,      \* the names of volume claims, in the order of strings
    Passes,        \* the number of reconciles
    Int32Max,      \* the largest value of an int32
    Uint16Max      \* the largest value of a uint16

ASSUME DeploymentAssumption ==
    /\ Passes \in Nat \ {0}
    /\ Int32Max \in Nat /\ Uint16Max \in 1..Int32Max
    /\ PVCOrder \in Seq(STRING) /\ IsInjective(PVCOrder)

\* What is given of a runtime and of a cluster.  An endpoint is given or not; a number in an
\* annotation is given or not, and parses or not.
EndpointSet ==
    [kind : {"none", "port"}, dir : {"-"}] \cup [kind : {"unix", "other"}, dir : STRING \ {"-"}]
NumberSet == [given : BOOLEAN, ok : BOOLEAN, n : Int]
AnnotationSet == [class : STRING, metric : STRING, target : NumberSet, min : NumberSet, max : NumberSet]
RuntimeSet ==
    [containers : Seq([name : STRING, mounts : Seq(STRING), flaw : BOOLEAN]), volumes : Seq(STRING),
     adapter : STRING, helper : BOOLEAN, data : EndpointSet, mgmt : EndpointSet, terms : Seq(STRING),
     labels : SUBSET STRING, pullSecrets : Seq(STRING), adapterEnv : Seq(STRING), productConfig : STRING,
     multiModel : BOOLEAN, disabled : BOOLEAN, replicas : SUBSET Nat, ann : AnnotationSet]
ClusterSet ==
    [proxy : BOOLEAN, tls : {"off", "missing", "cert"}, clientAuth : BOOLEAN, extraEnv : Seq(STRING),
     renders : BOOLEAN, labels : SUBSET STRING, pullSecrets : Seq(STRING), builtInTypes : SUBSET STRING,
     allowAnyPVC : BOOLEAN, storage : SUBSET [type : STRING, name : Range(PVCOrder) \cup {""}],
     predictorPVCs : SUBSET Range(PVCOrder), existing : SUBSET Range(PVCOrder)]

ASSUME CasesAssumption == Cases \subseteq RuntimeSet \X ClusterSet

VARIABLES
    rt,         \* the ServingRuntime
    cfg,        \* the configuration and the cluster
    phase,      \* the step of the reconcile to be made next
    entries,    \* entries of the storage-config secret not read yet
    conf,       \* the map each of them is decoded into
    claims,     \* volume claims found in the secret
    pvcs,       \* the volume claims of the deployment, a sequence
    scaler,        \* minimum and maximum of the autoscaler
    pod,        \* containers, volumes, node selector terms, labels, pull secrets
    next,       \* the container of the runtime to be added next
    backing,    \* the array behind the list of common mounts
    applied,    \* one pod per finished reconcile
    outcome     \* how the last reconcile ended

inputs == <<rt, cfg>>
found == <<entries, conf, claims, pvcs>>
deploymentVars == <<inputs, phase, found, scaler, pod, next, backing, applied, outcome>>

-----------------------------------------------------------------------------
(* Endpoints and the other vocabulary *)

NoEndpoint == [kind |-> "none", dir |-> "-"]

\* Anything but "port:..." is taken for a path.
ParseEndpoint(e) ==
    IF e.kind = "port" THEN [kind |-> "tcp", dir |-> "-"] ELSE [kind |-> "uds", dir |-> e.dir]

ValidEndpoint(e) == e.kind \in {"port", "unix"}

Given(e) == e # NoEndpoint

Endpoints == {rt.data, rt.mgmt}

\* The volume is there for the endpoints that say "unix:".
UnixDomainSockets == \E e \in Endpoints : e.kind = "unix"

\* A slip: the management endpoint is asked first.
MountPointManagement ==
    LET first == IF Given(rt.mgmt) THEN rt.mgmt ELSE rt.data
    IN  IF Given(first) THEN ParseEndpoint(first) ELSE ParseEndpoint([kind |-> "port", dir |-> "-"])

\* The directory that model-mesh mounts: of the first endpoint that is given.
MountPoint ==
    LET first == IF Given(rt.data) THEN rt.data ELSE rt.mgmt
    IN  IF Given(first) THEN ParseEndpoint(first) ELSE ParseEndpoint([kind |-> "port", dir |-> "-"])

\* The directories that the runtime's containers mount.
SocketDirs == {ParseEndpoint(e).dir : e \in {e \in Endpoints : Given(e)}} \ {"-"}

UseStorageHelper == rt.adapter = "" /\ rt.helper

InternalContainers == {"mm", "rest-proxy", "puller"}
InternalVolumes == {"storage-config", "etcd-config", "tc-config", "domain-socket", "models-dir"}
InternalOnlyMounts == InternalVolumes \ {"models-dir"}

Mount(v) == [vol |-> v, dir |-> "-"]
UserMount(v) == [vol |-> v, dir |-> "user"]
SocketMount(d) == [vol |-> "domain-socket", dir |-> d]

\* A slice of mounts of its own, or the first n elements of the common array.
Own(s) == [seq |-> s, common |-> 0]
Common(n) == [seq |-> <<>>, common |-> n]
Mounts(c, arr) == IF c.mounts.common = 0 THEN c.mounts.seq ELSE SubSeq(arr, 1, c.mounts.common)

Env(n, by) == [name |-> n, by |-> by, dir |-> "-"]
EnvPath(n, d) == [name |-> n, by |-> "set", dir |-> d]

Container(n, env, mounts) == [name |-> n, env |-> env, mounts |-> mounts]

\* The first container with a name, or 0.
FindContainer(p, n) ==
    LET at == {i \in DOMAIN p.containers : p.containers[i].name = n}
    IN  IF at = {} THEN 0 ELSE CHOOSE i \in at : \A j \in at : i <= j

\* A value replaces one that is there.
SetEnvironmentVar(env, e) ==
    LET at == {i \in DOMAIN env : env[i].name = e.name}
    IN  IF at = {} THEN Append(env, e) ELSE [env EXCEPT ![CHOOSE i \in at : \A j \in at : i <= j] = e]

SetAll(env, es) ==
    LET set[n \in 0..Len(es)] == IF n = 0 THEN env ELSE SetEnvironmentVar(set[n - 1], es[n])
    IN  set[Len(es)]

\* What the deployment template holds.
TemplatePod ==
    [containers |-> <<Container("mm", <<Env("KV_STORE", "template"), Env("MM_METRICS", "template"),
                                        Env("SHUTDOWN_TIMEOUT_MS", "template")>>, Own(<<>>))>>,
     volumes |-> <<>>, terms |-> <<>>, secrets |-> <<>>,
     labels |-> [l \in {"name", "modelmesh-service"} |-> "template"]]

NoPod == [TemplatePod EXCEPT !.containers = <<>>]

NoHPA == [min |-> 0, max |-> 0]

Pods == {applied[i] : i \in DOMAIN applied}

DeploymentTypeOK ==
    /\ entries \subseteq cfg.storage
    /\ claims \subseteq Range(PVCOrder) /\ Range(pvcs) \subseteq Range(PVCOrder)
    /\ \A p \in Pods \cup {pod} : \A i \in DOMAIN p.containers :
         p.containers[i].mounts.common \in 0..Len(backing)
    /\ Len(applied) <= Passes
    /\ outcome \in {"none", "denied", "invalid", "deleted", "error", "panic", "rejected", "applied"}

DeploymentInit ==
    /\ \E c \in Cases : rt = c[1] /\ cfg = c[2]
    /\ phase = "admit"
    /\ entries = {} /\ conf = [type |-> "", name |-> ""] /\ claims = {} /\ pvcs = <<>>
    /\ scaler = NoHPA /\ pod = NoPod /\ next = 1 /\ backing = <<>>
    /\ applied = <<>> /\ outcome = "none"

AtStep(p) == phase = p

Proceed(p) == phase' = p /\ UNCHANGED <<inputs, applied, outcome>>

\* The reconcile ends without a deployment.
Fail(o) ==
    /\ phase' = "ended" /\ outcome' = o
    /\ UNCHANGED <<inputs, found, scaler, pod, next, backing, applied>>
-----------------------------------------------------------------------------
(* Admission *)

\* The classes and metrics that the API library allows.
AllowedClasses == {"hpa"}
AllowedMetrics == {"cpu", "memory"}

\* An annotation that asks for something else than a metric of the HPA is refused.
ValidateServingRuntimeAutoscaler(a) ==
    \/ a.class = "absent"
    \/ a.class \in AllowedClasses /\ (a.metric = "absent" \/ a.metric \in AllowedMetrics)

ValidateTarget(a) == a.target.given => a.target.ok /\ a.target.n \in 1..100

\* A slip: a minimum above the maximum is admitted.
ValidateScalingUnordered(a) ==
    /\ a.min.given => a.min.ok /\ a.min.n >= 1
    /\ a.max.given => a.max.ok
    /\ a.metric \in AllowedMetrics \cup {"absent"}

ValidateScalingHPA(a) ==
    LET min == IF a.min.given THEN a.min.n ELSE 1
        max == IF a.max.given THEN a.max.n ELSE 1
    IN  /\ a.min.given => a.min.ok /\ a.min.n >= 1
        /\ a.max.given => a.max.ok
        /\ min <= max
        /\ a.metric \in AllowedMetrics \cup {"absent"}
        /\ a.target.given => a.target.ok /\ ~ (a.metric = "memory" /\ a.target.n < 1)

\* The largest uint16 stands for replicas that are not set.
ValidateAutoScalingReplicas(a, replicas) ==
    a.class = "hpa" =>
      /\ (IF replicas = {} THEN Uint16Max ELSE CHOOSE n \in replicas : TRUE) = Uint16Max
      /\ ValidateScalingHPA(a)

Admitted(r) ==
    \/ ~ r.multiModel
    \/ /\ ValidateServingRuntimeAutoscaler(r.ann)
       /\ ValidateTarget(r.ann)
       /\ ValidateAutoScalingReplicas(r.ann, r.replicas)

Handle ==
    /\ AtStep("admit")
    /\ IF Admitted(rt)
         THEN Proceed("validate") /\ UNCHANGED <<found, scaler, pod, next, backing>>
         ELSE Fail("denied")

-----------------------------------------------------------------------------
(* The reconcile: validation *)

CheckName(n, internal) == n \notin internal /\ n # "mm-reserved"

ValidateBuiltInAdapter ==
    \/ rt.adapter = ""
    \/ /\ rt.adapter \in cfg.builtInTypes
       /\ \E i \in DOMAIN rt.containers : rt.containers[i].name = rt.adapter

\* A probe, a lifecycle hook or a reserved port of its own is a flaw of the container.
ValidateContainer(c) ==
    /\ CheckName(c.name, InternalContainers)
    /\ ~ c.flaw
    /\ \A i \in DOMAIN c.mounts : CheckName(c.mounts[i], InternalOnlyMounts)

\* A slip: only the names of volumes that containers may not mount are refused.
ValidateVolumesMounted == \A i \in DOMAIN rt.volumes : CheckName(rt.volumes[i], InternalOnlyMounts)

ValidateVolumes == \A i \in DOMAIN rt.volumes : CheckName(rt.volumes[i], InternalVolumes)

Validate ==
    /\ AtStep("validate")
    /\ IF /\ ValidateBuiltInAdapter
          /\ \A i \in DOMAIN rt.containers : ValidateContainer(rt.containers[i])
          /\ ValidateVolumes
         THEN /\ Proceed("storage")
              /\ entries' = cfg.storage /\ conf' = [type |-> "", name |-> ""]
              /\ claims' = {} /\ pvcs' = <<>>
              /\ UNCHANGED <<scaler, pod, next, backing>>
         ELSE Fail("invalid")

-----------------------------------------------------------------------------
(* The reconcile: volume claims *)

\* The entries are decoded into one map, which keeps the keys an entry does not have.
Decode(e) ==
    [type |-> IF e.type = "" THEN conf.type ELSE e.type,
     name |-> IF e.name = "" THEN conf.name ELSE e.name]

\* A map has no order: any entry may be the next.
ReadStorageEntry(e) ==
    /\ AtStep("storage") /\ e \in entries
    /\ entries' = entries \ {e}
    /\ conf' = Decode(e)
    /\ claims' = claims \cup (IF conf'.type = "pvc" /\ conf'.name # "" THEN {conf'.name} ELSE {})
    /\ Proceed("storage") /\ UNCHANGED <<pvcs, scaler, pod, next, backing>>

\* Claims that Predictors name count when the configuration allows any claim and they exist.
PredictorClaims == IF cfg.allowAnyPVC THEN cfg.predictorPVCs \cap cfg.existing ELSE {}

\* A slip: the claims stay in the order of the map they were collected in.
OrderedAnyhow(s) == SetToSeqs(s)

Before(c, d) == \E i, j \in DOMAIN PVCOrder : i < j /\ PVCOrder[i] = c /\ PVCOrder[j] = d

\* Sorted, so that equal sets of claims make equal deployments.
Ordered(s) == {q \in SetToSeqs(s) : \A i, j \in DOMAIN q : i < j => Before(q[i], q[j])}

GetPVCs ==
    /\ AtStep("storage") /\ entries = {}
    /\ pvcs' \in Ordered(claims \cup PredictorClaims)
    /\ Proceed("scale") /\ UNCHANGED <<entries, conf, claims, scaler, pod, next, backing>>

\* A runtime that is disabled, or not for model-mesh, loses its deployment.
DeleteDeployment ==
    /\ AtStep("scale") /\ (rt.disabled \/ ~ rt.multiModel)
    /\ Fail("deleted")

\* A number that does not fit an int32 counts as one that is not there.
ParseInt32(x) == IF x.given /\ x.ok /\ x.n \in (-Int32Max - 1)..Int32Max THEN x.n ELSE 1

CreateHPA(a) ==
    LET min == ParseInt32(a.min)
        max == ParseInt32(a.max)
    IN  [min |-> min, max |-> IF max < min THEN min ELSE max]

Scale ==
    /\ AtStep("scale") /\ ~ rt.disabled /\ rt.multiModel
    /\ scaler' = IF rt.ann.class = "hpa" THEN CreateHPA(rt.ann) ELSE NoHPA
    /\ Proceed("manifest") /\ UNCHANGED <<found, pod, next, backing>>
-----------------------------------------------------------------------------
(* The reconcile: the deployment.  Change(p, q) makes the pod p and goes on to q.  What a    *)
(* transformation makes of the pod has the name of the function, which starts in lower case. *)

Change(p, q) == pod' = p /\ Proceed(q) /\ UNCHANGED <<found, scaler, next, backing>>

\* The template is rendered with the configuration and parsed; a parse error shows as a
\* missing resource.
Rendered == cfg.renders

\* The owner may name a ConfigMap, which has to be there.
SetConfigMap == rt.productConfig # "missing"

LoadManifest ==
    /\ AtStep("manifest")
    /\ IF Rendered /\ SetConfigMap
         THEN Change(TemplatePod, "volumes")
         ELSE Fail("error")

\* The runtime's volumes, the ones of model-mesh and those of the claims cs.
addVolumes(p, cs) ==
    [p EXCEPT !.volumes =
       rt.volumes \o <<"models-dir">>
       \o (IF UnixDomainSockets THEN <<"domain-socket">> ELSE <<>>)
       \o (IF rt.adapter # "" \/ UseStorageHelper THEN <<"storage-config">> ELSE <<>>)
       \o cs]

AddVolumes == AtStep("volumes") /\ Change(addVolumes(pod, pvcs), "mmsocket")

\* The model-mesh container, and the pod with another one in its place.
MM(p) == p.containers[FindContainer(p, "mm")]

WithMM(p, c) == [p EXCEPT !.containers[FindContainer(p, "mm")] = c]

addMMDomainSocketMount(p) ==
    IF MountPoint.kind = "uds"
      THEN WithMM(p, [MM(p) EXCEPT !.mounts.seq = Append(@, SocketMount(MountPoint.dir))])
      ELSE p

AddMMDomainSocketMount == AtStep("mmsocket") /\ Change(addMMDomainSocketMount(pod), "fields")

-----------------------------------------------------------------------------
(* The reconcile: the runtime's containers share the array of the common mounts. *)

\* The mounts every container gets first; append doubles the array of a slice it outgrows.
CommonMounts(cs) == <<Mount("models-dir")>> \o [i \in DOMAIN cs |-> Mount(cs[i])]

Capacity(n) ==
    LET cap[k \in 1..n] == IF k = 1 THEN 1 ELSE IF k > cap[k - 1] THEN 2 * cap[k - 1] ELSE cap[k - 1]
    IN  cap[n]

Spare(n) == Capacity(n) - n

\* The array at the start: what lies beyond the common mounts is not used.
Array(cs) == CommonMounts(cs) \o [i \in 1..Spare(Len(CommonMounts(cs))) |-> Mount("unused")]

\* Node selector terms are alternatives: a pod may go where one of them holds.
addPassThroughPodFields(p) == [p EXCEPT !.terms = rt.terms \o <<"arch">>]

\* Then the list of common mounts is made, and the containers follow.
AddPassThroughPodFields ==
    /\ AtStep("fields")
    /\ pod' = addPassThroughPodFields(pod)
    /\ next' = 1 /\ backing' = Array(pvcs)
    /\ Proceed("containers") /\ UNCHANGED <<found, scaler>>

\* append in place where the array has room, in a copy where it has not.
AppendMount(arr, s, m) ==
    IF s.common > 0 /\ s.common < Len(arr)
      THEN [arr |-> [arr EXCEPT ![s.common + 1] = m], s |-> Common(s.common + 1)]
      ELSE [arr |-> arr, s |-> Own(Append(IF s.common = 0 THEN s.seq ELSE SubSeq(arr, 1, s.common), m))]

\* The common mounts and then others: in place only if there is room for all of them.
AppendToCommon(cs, arr, ms) ==
    LET n == Len(CommonMounts(cs))
    IN  IF n + Len(ms) <= Len(arr)
          THEN [arr |-> SubSeq(arr, 1, n) \o ms \o SubSeq(arr, n + Len(ms) + 1, Len(arr)),
                s   |-> Common(n + Len(ms))]
          ELSE [arr |-> arr, s |-> Own(SubSeq(arr, 1, n) \o ms)]

\* A slip: only the data endpoint is looked at.
AddDataSocketMount(a) ==
    IF rt.data.kind # "unix" THEN a ELSE AppendMount(a.arr, a.s, SocketMount(rt.data.dir))

\* One directory for all sockets, or an error.
AddDomainSocketMount(a) ==
    IF SocketDirs = {} THEN a ELSE AppendMount(a.arr, a.s, SocketMount(CHOOSE d \in SocketDirs : TRUE))

ManySocketDirs == Cardinality(SocketDirs) > 1

\* A pod and the array behind the common mounts.
Build(p, arr) == [pod |-> p, arr |-> arr]

\* The mounts of a container of the runtime, and the array they leave.
ContainerMounts(cs, c, arr) ==
    AddDomainSocketMount(AppendToCommon(cs, arr, [i \in DOMAIN c.mounts |-> UserMount(c.mounts[i])]))

\* The last of several containers with one name wins.
PutContainer(p, c) ==
    LET i == FindContainer(p, c.name)
    IN  IF i = 0 THEN [p EXCEPT !.containers = Append(@, c)] ELSE [p EXCEPT !.containers[i] = c]

addContainer(cs, c, b) ==
    LET a == ContainerMounts(cs, c, b.arr)
    IN  Build(PutContainer(b.pod, Container(c.name, <<>>, a.s)), a.arr)

AddContainer ==
    /\ AtStep("containers") /\ next <= Len(rt.containers)
    /\ IF ManySocketDirs
         THEN Fail("error")
         ELSE LET b == addContainer(pvcs, rt.containers[next], Build(pod, backing))
              IN  /\ pod' = b.pod /\ backing' = b.arr
                  /\ next' = next + 1
                  /\ Proceed("containers") /\ UNCHANGED <<found, scaler>>

\* The adapter listens on the management endpoint, which has to be a port.
AdapterEnv ==
    SetAll(<<Env("ADAPTER_PORT", "set"), Env("RUNTIME_PORT", "set"),
             EnvPath("RUNTIME_DATA_ENDPOINT", IF Given(rt.data) THEN ParseEndpoint(rt.data).dir ELSE "-")>>,
           [i \in DOMAIN rt.adapterEnv |-> Env(rt.adapterEnv[i], "user")])

addAdapter(cs, b) ==
    LET m == AppendToCommon(cs, b.arr, <<Mount("storage-config")>>)
        a == IF Given(rt.data) THEN AddDomainSocketMount(m) ELSE m
    IN  Build([b.pod EXCEPT !.containers = Append(@, Container("adapter", AdapterEnv, a.s))], a.arr)

AddAdapter ==
    /\ AtStep("containers") /\ next > Len(rt.containers) /\ rt.adapter # ""
    /\ IF Given(rt.mgmt) /\ rt.mgmt.kind # "port"
         THEN Fail("error")
         ELSE LET b == addAdapter(pvcs, Build(pod, backing))
              IN  /\ pod' = b.pod /\ backing' = b.arr
                  /\ Proceed("grace") /\ UNCHANGED <<found, scaler, next>>

NoAdapter ==
    /\ AtStep("containers") /\ next > Len(rt.containers) /\ rt.adapter = ""
    /\ Change(pod, "grace")
-----------------------------------------------------------------------------
(* The reconcile: model-mesh's settings, and the other containers *)

syncGracePeriod(p) ==
    WithMM(p, [MM(p) EXCEPT !.env = SetEnvironmentVar(@, Env("SHUTDOWN_TIMEOUT_MS", "set"))])

SyncGracePeriod == AtStep("grace") /\ Change(syncGracePeriod(pod), "env")

EndpointEnv(e, port, path) ==
    LET p == ParseEndpoint(e)
    IN  IF p.kind = "tcp" THEN Env(port, "set") ELSE EnvPath(path, p.dir)

DataEnv ==
    IF Given(rt.data)
      THEN <<EndpointEnv(rt.data, "INTERNAL_SERVING_GRPC_PORT", "INTERNAL_SERVING_GRPC_SOCKET_PATH")>>
      ELSE <<>>

\* Model-mesh manages models through the puller, or else at the management endpoint.
ManagementEnv ==
    IF UseStorageHelper
      THEN <<Env("INTERNAL_GRPC_PORT", "set")>>
      ELSE <<EndpointEnv(rt.mgmt, "INTERNAL_GRPC_PORT", "INTERNAL_GRPC_SOCKET_PATH")>>

ExtraEnv == [i \in DOMAIN cfg.extraEnv |-> Env(cfg.extraEnv[i], "extra")]

FixedEnv == <<Env("MM_KVSTORE_PREFIX", "set"), Env("MM_DEFAULT_VMODEL_OWNER", "set")>>

\* The variables of the configuration come first, so that the controller's replace them.
addMMEnvVars(p) ==
    WithMM(p, [MM(p) EXCEPT !.env = SetAll(@, ExtraEnv \o DataEnv \o ManagementEnv \o FixedEnv)])

\* A management endpoint that is not there is dereferenced all the same.
AddMMEnvVars ==
    /\ AtStep("env")
    /\ IF ~ UseStorageHelper /\ ~ Given(rt.mgmt)
         THEN Fail("panic")
         ELSE Change(addMMEnvVars(pod), "constraints")

addModelTypeConstraints(p) ==
    [WithMM(p, [MM(p) EXCEPT !.env = @ \o <<Env("MM_LABELS", "set"), Env("MM_TYPE_CONSTRAINTS_PATH", "set"),
                                             Env("MM_DATAPLANE_CONFIG_PATH", "set")>>,
                             !.mounts.seq = Append(@, Mount("tc-config"))])
       EXCEPT !.volumes = Append(@, "tc-config")]

AddModelTypeConstraints == AtStep("constraints") /\ Change(addModelTypeConstraints(pod), "etcd")

\* A mount or a volume that is there already is kept, else it is added.
WithItem(s, x) == IF x \in Range(s) THEN s ELSE Append(s, x)

configureEtcdSecret(p) ==
    [WithMM(p, [MM(p) EXCEPT !.env = [i \in DOMAIN @ |-> IF @[i].name = "KV_STORE" THEN Env("KV_STORE", "set")
                                                                                  ELSE @[i]],
                             !.mounts.seq = WithItem(@, Mount("etcd-config"))])
       EXCEPT !.volumes = WithItem(@, "etcd-config")]

ConfigureEtcdSecret == AtStep("etcd") /\ Change(configureEtcdSecret(pod), "proxy")

addRESTProxy(p) ==
    IF cfg.proxy
      THEN [p EXCEPT !.containers =
              Append(@, Container("rest-proxy", <<Env("REST_PROXY_USE_TLS", "set")>>, Own(<<>>)))]
      ELSE p

AddRESTProxy == AtStep("proxy") /\ Change(addRESTProxy(pod), "tls")

TLSEnv ==
    <<Env("MM_TLS_KEY_CERT_PATH", "set"), Env("MM_TLS_PRIVATE_KEY_PATH", "set")>>
    \o (IF cfg.clientAuth THEN <<Env("MM_TLS_CLIENT_AUTH", "set"), Env("MM_TLS_TRUST_CERT_PATH", "set")>> ELSE <<>>)

TLSContainers == {"mm"} \cup (IF cfg.proxy THEN {"rest-proxy"} ELSE {})

WithTLS(c) ==
    [c EXCEPT !.env = @ \o TLSEnv, !.mounts.seq = WithItem(@, Mount("tls-certs"))]

configureTLSSecret(p) ==
    IF cfg.tls = "off"
      THEN p
      ELSE [p EXCEPT !.containers = [i \in DOMAIN @ |-> IF @[i].name \in TLSContainers THEN WithTLS(@[i]) ELSE @[i]],
                     !.volumes = WithItem(@, "tls-certs")]

ConfigureTLSSecret ==
    /\ AtStep("tls")
    /\ IF cfg.tls = "missing" THEN Fail("error") ELSE Change(configureTLSSecret(pod), "metadata")

\* Labels and annotations of the runtime replace the configuration's, and these the template's.
configureMetadata(p) ==
    [p EXCEPT !.labels =
       [l \in DOMAIN @ \cup cfg.labels \cup rt.labels |->
          IF l \in rt.labels THEN "runtime" ELSE IF l \in cfg.labels THEN "config" ELSE @[l]]]

ConfigureMetadata == AtStep("metadata") /\ Change(configureMetadata(pod), "last")

\* Model-mesh trades places with the last container.
ensureMMContainerIsLast(p) ==
    LET cs == p.containers
        i  == FindContainer(p, "mm")
    IN  IF i = 0 THEN p
                 ELSE [p EXCEPT !.containers = [cs EXCEPT ![Len(cs)] = cs[i], ![i] = cs[Len(cs)]]]

EnsureMMContainerIsLast == AtStep("last") /\ Change(ensureMMContainerIsLast(pod), "secrets")

\* Each secret once, at its first place.
MergeImagePullSecrets(s) == FoldLeft(WithItem, <<>>, s)

\* The pod is turned back into a resource: from here on nothing is shared.
configureImagePullSecrets(p, arr) ==
    [p EXCEPT !.secrets = MergeImagePullSecrets(@ \o cfg.pullSecrets \o rt.pullSecrets),
              !.containers = [i \in DOMAIN @ |-> [@[i] EXCEPT !.mounts = Own(Mounts(p.containers[i], arr))]]]

ConfigureImagePullSecrets ==
    AtStep("secrets") /\ Change(configureImagePullSecrets(pod, backing), "puller")

PullerMounts(cs) ==
    <<Mount("models-dir"), Mount("storage-config")>>
    \o (IF rt.mgmt.kind = "unix" THEN <<SocketMount(rt.mgmt.dir)>> ELSE <<>>)
    \o [i \in DOMAIN cs |-> Mount(cs[i])]

Puller(cs) ==
    Container("puller", <<EnvPath("MODEL_SERVER_ENDPOINT", ParseEndpoint(rt.mgmt).dir)>>, Own(PullerMounts(cs)))

addPuller(p, cs) == IF UseStorageHelper THEN [p EXCEPT !.containers = Append(@, Puller(cs))] ELSE p

AddPuller ==
    /\ AtStep("puller")
    /\ CASE UseStorageHelper /\ ~ Given(rt.mgmt) -> Fail("panic")
         [] UseStorageHelper /\ Given(rt.mgmt) /\ ~ ValidEndpoint(rt.mgmt) -> Fail("error")
         [] ~ UseStorageHelper \/ ValidEndpoint(rt.mgmt) -> Change(addPuller(pod, pvcs), "apply")

\* The API server wants unique names, mounts of volumes that are there, and the selector's labels.
Accepts(p) ==
    /\ \A i, j \in DOMAIN p.containers : p.containers[i].name = p.containers[j].name => i = j
    /\ \A i, j \in DOMAIN p.volumes : p.volumes[i] = p.volumes[j] => i = j
    /\ \A i \in DOMAIN p.containers :
         LET ms == p.containers[i].mounts.seq
         IN  /\ \A j, k \in DOMAIN ms : ms[j] = ms[k] => j = k
             /\ \A j \in DOMAIN ms : ms[j].vol \in Range(p.volumes)
    /\ \A l \in {"name", "modelmesh-service"} : p.labels[l] = "template"

ApplyManifest ==
    /\ AtStep("apply")
    /\ phase' = "ended"
    /\ IF Accepts(pod)
         THEN applied' = Append(applied, pod) /\ outcome' = "applied"
         ELSE outcome' = "rejected" /\ UNCHANGED applied
    /\ UNCHANGED <<inputs, found, scaler, pod, next, backing>>

\* Nothing has changed, and the runtime is reconciled again.
ReconcileAgain ==
    /\ AtStep("ended") /\ outcome = "applied" /\ Len(applied) < Passes
    /\ Proceed("validate")
    /\ UNCHANGED <<found, scaler, pod, next, backing>>

DeploymentNext ==
    \/ Handle \/ Validate \/ GetPVCs \/ DeleteDeployment \/ Scale
    \/ \E e \in entries : ReadStorageEntry(e)
    \/ LoadManifest \/ AddVolumes \/ AddMMDomainSocketMount \/ AddPassThroughPodFields
    \/ AddContainer \/ AddAdapter \/ NoAdapter
    \/ SyncGracePeriod \/ AddMMEnvVars \/ AddModelTypeConstraints \/ ConfigureEtcdSecret
    \/ AddRESTProxy \/ ConfigureTLSSecret \/ ConfigureMetadata \/ EnsureMMContainerIsLast
    \/ ConfigureImagePullSecrets \/ AddPuller \/ ApplyManifest \/ ReconcileAgain

DeploymentSpec == DeploymentInit /\ [][DeploymentNext]_deploymentVars
-----------------------------------------------------------------------------
(* Properties *)

ContainersOf(p) == {p.containers[i] : i \in DOMAIN p.containers}
MountsOf(c) == Range(c.mounts.seq)
At1(p, n) == CHOOSE i \in DOMAIN p.containers : p.containers[i].name = n

\* What the validator leaves to the API server: names of volumes and mounts that are unique, mounts
\* of volumes that are there, and no label or container that replaces or repeats one of Apply's.
Consistent ==
    /\ IsInjective(rt.volumes)
    /\ \A i \in DOMAIN rt.containers :
         LET ms == rt.containers[i].mounts
         IN  IsInjective(ms) /\ Range(ms) \subseteq Range(rt.volumes) \cup Range(pvcs) \cup {"models-dir"}
    /\ (rt.labels \cup cfg.labels) \cap {"name", "modelmesh-service"} = {}
    /\ rt.adapter # "" => \A i \in DOMAIN rt.containers : rt.containers[i].name # "adapter"

\* What may keep a runtime that passed the validator from being deployed.  The last is the array
\* of common mounts with room for two: where containers share it, one may get a mount twice.
Excused ==
    \/ ~ Consistent
    \/ ~ cfg.renders \/ cfg.tls = "missing" \/ rt.productConfig = "missing"
    \/ ~ Given(rt.mgmt)
    \/ \E e \in Endpoints : Given(e) /\ ~ ValidEndpoint(e)
    \/ ManySocketDirs
    \/ rt.adapter # "" /\ rt.mgmt.kind = "unix"
    \/ Range(pvcs) \cap (Range(rt.volumes) \cup InternalVolumes) # {}
    \/ Spare(Len(CommonMounts(pvcs))) > 1

\* The validator (validateServingRuntimeSpec) and Apply fit together: whatever of volumes,
\* containers, sockets, sidecars and certificates a valid runtime combines, the deployment that
\* is built is one the API server takes, with the exceptions listed.  Its container names and
\* volume names are unique and every mount has its volume.
Deployable == outcome \in {"error", "panic", "rejected"} => Excused

\* The mounts a container of the runtime should have.
Wanted(c) ==
    Range(CommonMounts(pvcs)) \cup {UserMount(c.mounts[i]) : i \in DOMAIN c.mounts}
    \cup {SocketMount(d) : d \in SocketDirs}

\* Of containers with one name the last counts.
HasMounts(p) ==
    \A i \in DOMAIN rt.containers :
      \/ \E j \in DOMAIN rt.containers : j > i /\ rt.containers[j].name = rt.containers[i].name
      \/ MountsOf(p.containers[At1(p, rt.containers[i].name)]) = Wanted(rt.containers[i])

Deployed == outcome = "applied" /\ phase = "ended"

\* Each container of the runtime has the models directory, the claims, its own mounts and the
\* socket, and no other, although addRuntimeToDeployment builds all of them from one slice:
\* where that slice has no room to grow in place.
MountsKept == Deployed /\ Spare(Len(CommonMounts(pvcs))) = 0 => HasMounts(pod)

\* "containers do not mount internal only volumes" (servingruntime_validator.go:36), and each
\* has the mounts it declares, for any number of claims.
MountsAsDeclared == Deployed => HasMounts(pod)

\* A container that is told to use a socket (addMMEnvVars, the puller's and the adapter's
\* environment) mounts the directory of that socket.  The exception is model-mesh without a
\* puller: mountPoint looks at the first endpoint only.  Then the management endpoint may be the
\* only socket, or one in another directory, which is refused while a container is added.
SocketsMounted ==
    \A p \in Pods : \A c \in ContainersOf(p) : \A i \in DOMAIN c.env :
      \/ c.env[i].dir = "-"
      \/ SocketMount(c.env[i].dir) \in MountsOf(c)
      \/ /\ c.name = "mm" /\ ~ UseStorageHelper /\ Given(rt.data)
         /\ MountPoint.kind = "tcp" \/ (ManySocketDirs /\ rt.containers = <<>>)

\* Every entry of the secret says what it is, and a claim its name.
CompleteSecret == \A e \in cfg.storage : e.type # "" /\ (e.type = "pvc" => e.name # "")

\* Reconciles of the same runtime in the same cluster build the same pods, whatever the order
\* in which Go traverses the secret and the claims: a difference would restart the pods
\* (getPVCs, servingruntime_controller.go:431).
StableDeployment == CompleteSecret => \A p, q \in Pods : p = q

\* Numbers that fit where createHPA puts them.
Fits(x) == x.given => x.n <= Int32Max

\* The webhook and createHPA read the annotations each in its own way.  What is admitted makes
\* an autoscaler with exactly the bounds of the annotations (1 where one is missing), and with
\* 1 <= minimum <= maximum, which the API server asks for.
AdmittedScale ==
    (scaler # NoHPA /\ Fits(rt.ann.min) /\ Fits(rt.ann.max)) =>
      /\ 1 <= scaler.min /\ scaler.min <= scaler.max
      /\ scaler.min = (IF rt.ann.min.given THEN rt.ann.min.n ELSE 1)
      /\ scaler.max = (IF rt.ann.max.given THEN rt.ann.max.n ELSE 1)
=============================================================================

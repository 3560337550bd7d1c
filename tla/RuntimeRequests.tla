--------------------------- MODULE RuntimeRequests ---------------------------
(***************************************************************************)
(* Which serving runtimes are reconciled when, and what is deployed for    *)
(* them: the watches of src/controllers/servingruntime_controller.go over  *)
(* several namespaces, ServingRuntimes and ClusterServingRuntimes, the     *)
(* Predictors of all three sources, the model type labels (modelmesh/      *)
(* model_type_labels.go), the type constraints (modelmesh/                 *)
(* cluster_config.go) and the etcd secret (pkg/mmesh/etcd_secret.go).      *)
(*                                                                         *)
(* An object changes when its change reaches the informer's cache; its     *)
(* handler runs later, in the order of the changes of its kind, and reads  *)
(* the caches of that time.  An object's content is a set of at most one   *)
(* record.  The controller has cluster scope and may watch cluster scoped  *)
(* runtimes and secrets, scale to zero is on with no grace period (see     *)
(* RuntimeScaling for the grace period and the autoscaler) and a claim may *)
(* be mounted that the storage secret does not name (allowAnyPVC).         *)
(***************************************************************************)
EXTENDS InferenceServiceRegistry, Functions

CONSTANTS
    Namespaces, ControllerNamespace,
    Names,               \* names of runtimes
    Objects,             \* the watched objects, <<kind, namespace, name>>
    RuntimeSpecs,        \* contents of runtimes
    PredictorSpecs,      \* contents of Predictors, of the cluster or of a plug-in
    InferenceServices,   \* contents of InferenceServices
    NamespaceStates,     \* contents of namespaces
    Secrets,             \* contents of a storage secret: the claims that it names
    Claims,              \* the claims that exist
    Statuses,            \* statuses that the Predictor reconciler writes
    Origins,             \* contents of the caches to start from
    MaxChanges,          \* bound on changes of objects
    MaxFaults            \* bound on failed calls

Kinds == {"ServingRuntime", "ClusterServingRuntime", "Namespace", "ConfigMap", "Predictor",
          "Plugin", "InferenceService", "Secret"}

\* What an object of a kind may contain, apart from nothing.
Contents(kind) ==
    CASE kind \in {"ServingRuntime", "ClusterServingRuntime"} -> RuntimeSpecs
      [] kind = "Namespace" -> NamespaceStates
      [] kind = "ConfigMap" -> BOOLEAN         \* restProxy.enabled
      [] kind \in {"Predictor", "Plugin"} -> PredictorSpecs
      [] kind = "InferenceService" -> InferenceServices
      [] kind = "Secret" -> Secrets

ASSUME RequestsAssumption ==
    /\ ControllerNamespace \in Namespaces
    /\ \A o \in Objects :
         /\ o = <<o[1], o[2], o[3]>> /\ o[1] \in Kinds
         /\ o[1] \in {"ServingRuntime", "ClusterServingRuntime"} => o[3] \in Names
         /\ IF o[1] = "ClusterServingRuntime" THEN o[2] = ""
            ELSE o[1] # "ConfigMap" => o[2] \in Namespaces
    /\ \A c \in Origins :
         /\ DOMAIN c = Objects
         /\ \A o \in Objects : c[o] \in {{}} \cup {{x} : x \in Contents(o[1])}
    /\ MaxChanges \in Nat /\ MaxFaults \in Nat

\* The fields of a status; Get and the default of the field see to it that the
\* active model state is never empty.
ASSUME StatusesAssumption ==
    \A s \in Statuses :
        /\ s = [transition |-> s.transition, active |-> s.active, target |-> s.target,
                failed |-> s.failed, total |-> s.total, failure |-> s.failure,
                available |-> s.available, grpc |-> s.grpc, rest |-> s.rest]
        /\ s.active # "" /\ s.available \in BOOLEAN

VARIABLES
    cache,        \* the informers' objects
    events,       \* of each kind, the changes whose handler has not run
    config,       \* restProxy.enabled of the loaded configuration
    queue,        \* requests in the work queue, <<namespace, name>>
    work,         \* the reconcile in progress: its request, and what it read of the namespace
    deployment,   \* of each request, the deployment
    constraints,  \* of each namespace, the types in its type constraints; none without them
    etcd,         \* of each namespace, its etcd secret, if it has one
    status,       \* of each InferenceService, its status
    lapsed,       \* history: namespaces with a change that not all requests follow,
                  \* a change of a "predictor" or one of a "runtime", or that started
                  \* with an InferenceService that is rejected
    changes, faults

inVars == <<cache, config, status>>
outVars == <<deployment, constraints, etcd>>
vars == <<inVars, events, queue, work, outVars, lapsed, changes, faults>>

Requests == Namespaces \X Names

-----------------------------------------------------------------------------
\* Labels and types

\* A label, <<"mt", format>>, <<"mt", format, version>>, <<"pv", protocol>> or
\* <<"rt", runtime>>, and a model type, a set of them.

\* Only formats with autoSelect; each also with its version, if it has one.
ModelTypeLabels(spec) ==
    LET auto == {f \in spec.formats : f.autoSelect}
    IN  {<<"mt", f.name>> : f \in auto}
          \cup {<<"mt", f.name, f.version>> : f \in {g \in auto : g.version # None}}

\* The REST proxy gives a runtime of gRPC v2 the REST protocol v2.
ProtocolLabels(spec, restProxyEnabled) ==
    {<<"pv", v>> : v \in spec.protocols}
      \cup (IF restProxyEnabled /\ "grpc-v2" \in spec.protocols THEN {<<"pv", "v2">>} ELSE {})

GetServingRuntimeLabelSet(spec, restProxyEnabled, rtName) ==
    ModelTypeLabels(spec) \cup ProtocolLabels(spec, restProxyEnabled) \cup {<<"rt", rtName>>}

\* The type of a Predictor's model: the runtime it names, or format and protocol.
GetPredictorTypeLabel(p) ==
    IF p.runtime # None THEN {<<"rt", p.runtime>>}
    ELSE {IF p.version = None THEN <<"mt", p.type>> ELSE <<"mt", p.type, p.version>>}
           \cup (IF p.protocol = None THEN {} ELSE {<<"pv", p.protocol>>})

runtimeSupportsPredictor(spec, p, restProxyEnabled, rtName) ==
    GetPredictorTypeLabel(p) \subseteq GetServingRuntimeLabelSet(spec, restProxyEnabled, rtName)

\* The type that no runtime's labels satisfy, for models of any other type.
DefaultType == {<<"_no_runtime">>}

\* A slip: only whole formats are types, and not those with a protocol.
calculateConstraintDataNoProtocols(specs, restProxyEnabled) ==
    {DefaultType} \cup UNION {
        {{<<"rt", n>>}} \cup {{l} : l \in ModelTypeLabels(specs[n])} :
        n \in {m \in DOMAIN specs : specs[m].multiModel /\ ~specs[m].disabled}}

\* The types that are placed, each where all of its labels are: the runtime's
\* name, its formats, and its formats with each of its protocols.
calculateConstraintData(specs, restProxyEnabled) ==
    {DefaultType} \cup UNION {
        {{<<"rt", n>>}}
          \cup {{l} : l \in ModelTypeLabels(specs[n])}
          \cup {{l, pv} : l \in ModelTypeLabels(specs[n]),
                          pv \in ProtocolLabels(specs[n], restProxyEnabled)} :
        n \in {m \in DOMAIN specs : specs[m].multiModel /\ ~specs[m].disabled}}

-----------------------------------------------------------------------------
\* Reading the caches

Object(kind, ns, n) ==
    LET o == <<kind, ns, n>> IN IF o \in Objects THEN cache[o] ELSE {}

modelMeshEnabled(ns) ==
    \E s \in Object("Namespace", ns, "") :
        IF s.label = None THEN ns = ControllerNamespace
                          ELSE s.label = "true" /\ ~s.terminating

ServingRuntime(ns, n) == Object("ServingRuntime", ns, n)

ClusterServingRuntime(n) == Object("ClusterServingRuntime", "", n)

MultiModel(specs) == {s \in specs : s.multiModel}

\* The runtime that a request is about: the namespace's own one, if it has it.
EffectiveRuntime(ns, n) ==
    IF ServingRuntime(ns, n) # {} THEN ServingRuntime(ns, n) ELSE ClusterServingRuntime(n)

\* The runtimes that make up the configuration of a namespace.
SRSpecs(ns) ==
    LET names == {n \in Names : \/ ServingRuntime(ns, n) # {}
                                \/ MultiModel(ClusterServingRuntime(n)) # {}}
    IN  IF modelMeshEnabled(ns)
        THEN [n \in names |-> CHOOSE s \in EffectiveRuntime(ns, n) : TRUE]
        ELSE <<>>

\* The Predictors of a namespace, by source.
ClusterPredictors(ns) ==
    UNION {cache[o] : o \in {x \in Objects : x[1] = "Predictor" /\ x[2] = ns}}

PluginPredictors(ns) ==
    UNION {cache[o] : o \in {x \in Objects : x[1] = "Plugin" /\ x[2] = ns}}

Services(ns) ==
    UNION {cache[o] : o \in {x \in Objects : x[1] = "InferenceService" /\ x[2] = ns}}

AllPredictors(ns) ==
    ClusterPredictors(ns) \cup PluginPredictors(ns)
      \cup UNION {PredictorFrom(i) : i \in Services(ns)}

runtimeHasPredictors(spec, ns, n) ==
    LET supported ==
          {p \in AllPredictors(ns) : runtimeSupportsPredictor(spec, p, config, n)}
    IN  \/ supported \cap (ClusterPredictors(ns) \cup PluginPredictors(ns)) # {}
        \/ Find(Services(ns), supported)

\* The claim that a Predictor's storage is on.
ClaimOf(p) ==
    LET params == p.parameters
    IN  IF {"type", "name"} \subseteq DOMAIN params
          THEN {c \in {params["name"]} : params["type"] = "pvc" /\ c # ""}
          ELSE {}

\* Claims that the storage secret names, and existing ones that Predictors name.
getPVCs(spec, ns, n, predictors) ==
    LET supported == {p \in predictors : runtimeSupportsPredictor(spec, p, config, n)}
    IN  (UNION Object("Secret", ns, "")) \cup (Claims \cap UNION {ClaimOf(p) : p \in supported})

-----------------------------------------------------------------------------
\* The requests of a change

\* The runtimes of a namespace, those of the cluster included.
requestsForRuntimes(namespaces) ==
    {r \in namespaces \X Names :
        ServingRuntime(r[1], r[2]) # {} \/ MultiModel(ClusterServingRuntime(r[2])) # {}}

\* A slip: the cluster scoped runtimes are not looked at.
RuntimesSupportingPredictorInNamespace(ns, p) ==
    {n \in Names : \E s \in MultiModel(ServingRuntime(ns, n)) :
        runtimeSupportsPredictor(s, p, config, n)}

getRuntimesSupportingPredictor(ns, p) ==
    {n \in Names : \E s \in MultiModel(ServingRuntime(ns, n) \cup ClusterServingRuntime(n)) :
        runtimeSupportsPredictor(s, p, config, n)}

runtimeRequestsForPredictor(ns, p) == {ns} \X getRuntimesSupportingPredictor(ns, p)

clusterServingRuntimeRequests(n, spec) ==
    IF spec.multiModel THEN {ns \in Namespaces : modelMeshEnabled(ns)} \X {n} ELSE {}

storageSecretRequests(ns) ==
    IF modelMeshEnabled(ns) THEN requestsForRuntimes({ns}) ELSE {}

\* What the handler of a change of object o asks for, for one of its versions.
RequestsOf(o, content) ==
    CASE o[1] = "ServingRuntime" -> {<<o[2], o[3]>>}
      [] o[1] = "ClusterServingRuntime" -> clusterServingRuntimeRequests(o[3], content)
      [] o[1] = "Namespace" -> requestsForRuntimes({o[2]})
      [] o[1] = "ConfigMap" -> requestsForRuntimes({ns \in Namespaces : modelMeshEnabled(ns)})
      [] o[1] \in {"Predictor", "Plugin"} -> runtimeRequestsForPredictor(o[2], content)
      [] o[1] = "InferenceService" ->
           UNION {runtimeRequestsForPredictor(o[2], p) :
                    p \in BuildBasePredictorFromInferenceService(content)}
      [] o[1] = "Secret" -> storageSecretRequests(o[2])

\* A slip: the handler only looks at an object as it is after the change.
EventRequestsNew(e) ==
    UNION {RequestsOf(e.object, c) : c \in cache[e.object]}

\* The handler looks at an object as it was and as it is now; for a Predictor of
\* a plug-in, the registry is asked for it when the handler runs.
EventRequests(e) ==
    LET versions == IF e.object[1] = "Plugin" THEN cache[e.object] ELSE e.versions
    IN  UNION {RequestsOf(e.object, c) : c \in versions}

-----------------------------------------------------------------------------
\* Reconcile

\* The etcd secret of a namespace, by the root of its keys: the controller's, which
\* it does not touch, or one below it for every other namespace.
EtcdSecret(ns) ==
    {IF ns = ControllerNamespace THEN <<"root">> ELSE <<"root", "mm_ns", ns>>}

\* The secret stays while the namespace has a runtime.
EtcdAfter(ns) ==
    IF ns = ControllerNamespace \/ DOMAIN SRSpecs(ns) # {} THEN EtcdSecret(ns) ELSE {}

ConstraintsAfter(ns) ==
    IF DOMAIN SRSpecs(ns) = {} THEN {} ELSE calculateConstraintData(SRSpecs(ns), config)

OwnerKind(ns, n) == IF ServingRuntime(ns, n) # {} THEN "ServingRuntime" ELSE "ClusterServingRuntime"

\* The deployment of a runtime that is on, given the Predictors looked at.  Its
\* owner is the runtime as it was created, and leaves an orphan when it is deleted.
DeploymentOf(spec, ns, n, predictors) ==
    [owner  |-> OwnerKind(ns, n),
     orphan |-> FALSE,
     labels |-> GetServingRuntimeLabelSet(spec, config, n),
     up     |-> runtimeHasPredictors(spec, ns, n),
     claims |-> getPVCs(spec, ns, n, predictors)]

Off(spec, enabled) == spec.disabled \/ ~spec.multiModel \/ ~enabled

\* The deployments that the reconcile may leave, one for each choice of the
\* Predictors that the registries let it see.
DeploymentsAfter(ns, n, enabled) ==
    IF EffectiveRuntime(ns, n) = {} THEN {deployment[<<ns, n>>]}
    ELSE LET spec == CHOOSE s \in EffectiveRuntime(ns, n) : TRUE
         IN  IF Off(spec, enabled) THEN {{}}
             ELSE {{DeploymentOf(spec, ns, n,
                                 ClusterPredictors(ns) \cup PluginPredictors(ns) \cup v)} :
                     v \in Visited(Services(ns))}

\* A deployment that a ServingRuntime owns or owned is watched; a cluster scoped
\* owner is not asked for.
SetDeployment(r, d, q) ==
    /\ deployment' = [deployment EXCEPT ![r] = d]
    /\ queue' = IF \/ deployment[r] = d
                   \/ \A x \in deployment[r] \cup d : x.owner # "ServingRuntime"
                THEN q ELSE q \cup {r}

-----------------------------------------------------------------------------
\* Actions

OwnerOf(r, d) ==
    <<d.owner, IF d.owner = "ServingRuntime" THEN r[1] ELSE "", r[2]>>

\* The changes that not all requests follow.  Nothing is asked for what a Predictor
\* of a plug-in was before it changed, nor for an InferenceService that is rejected
\* while the search for Predictors ends at it, in every runtime of its namespace.
\* A cluster scoped runtime asks for nothing in a namespace that is not enabled, a
\* namespace nothing for a cluster scoped runtime that is not there: if both change
\* before a handler runs, what was deployed of one for the other is forgotten.  So
\* it is if the namespace changes while a reconcile goes on for such a runtime,
\* which comes back before the reconcile looks for it.
Lapses(o, old, new, pending) ==
    {<<"predictor", ns>> : ns \in {x \in {o[2]} :
        \/ o[1] = "Plugin" /\ old # {}
        \/ o[1] = "InferenceService" /\ \E i \in old \cup new : Rejected(i)}}
    \cup {<<"runtime", e.object[2]>> : e \in {x \in Range(pending["Namespace"]) :
              pending["ClusterServingRuntime"] # <<>>}}
    \cup {<<"runtime", w.request[1]>> : w \in {x \in work :
              o = <<"Namespace", x.request[1], "">> /\ x.request \notin requestsForRuntimes({o[2]})}}

\* A change of an object arrives in the cache.
Change(o) ==
    /\ changes < MaxChanges
    /\ \E new \in {{}} \cup {{c} : c \in Contents(o[1])} :
         /\ new # cache[o] /\ (o[1] \in {"Namespace", "ConfigMap"} => new # {})
         /\ cache' = [cache EXCEPT ![o] = new]
         /\ events' = [events EXCEPT ![o[1]] =
                         Append(@, [object |-> o, versions |-> cache[o] \cup new])]
         /\ lapsed' = lapsed \cup Lapses(o, cache[o], new, events')
         /\ status' = IF o[1] = "InferenceService" /\ new = {}
                        THEN [status EXCEPT ![o] = NoStatus] ELSE status
         /\ deployment' = [r \in Requests |->
                {[d EXCEPT !.orphan = @ \/ (new = {} /\ o = OwnerOf(r, d))] : d \in deployment[r]}]
    /\ changes' = changes + 1
    /\ UNCHANGED <<config, queue, work, constraints, etcd, faults>>

\* The Predictor reconciler writes the status of an InferenceService: one more
\* change of it, which the runtime reconciler's watch does not filter out.
UpdateStatus(o, s) ==
    /\ changes < MaxChanges
    /\ \E i \in cache[o] : PredictorFrom(i) # {}
    /\ status[o] # ToInferenceService(s)
    /\ status' = [status EXCEPT ![o] = ToInferenceService(s)]
    /\ events' = [events EXCEPT !["InferenceService"] =
                    Append(@, [object |-> o, versions |-> cache[o]])]
    /\ changes' = changes + 1
    /\ UNCHANGED <<cache, config, queue, work, outVars, lapsed, faults>>

\* The handler of the first change of a kind; that of the ConfigMap loads it.
Handle(kind) ==
    /\ events[kind] # <<>>
    /\ events' = [events EXCEPT ![kind] = Tail(@)]
    /\ config' = IF kind = "ConfigMap" THEN \E on \in cache[Head(events[kind]).object] : on
                                       ELSE config
    /\ LET e == Head(events[kind])
       IN  queue' = queue \cup EventRequests(e)
    /\ UNCHANGED <<cache, status, work, outVars, lapsed, changes, faults>>

\* Another controller's handler of the ConfigMap loads it first.
ReloadElsewhere ==
    /\ events["ConfigMap"] # <<>>
    /\ config' = \E on \in cache[Head(events["ConfigMap"]).object] : on
    /\ config' # config
    /\ UNCHANGED <<cache, status, events, queue, work, outVars, lapsed, changes, faults>>

\* The first half of Reconcile: type constraints and etcd secret.
ReconcileNamespace(r) ==
    /\ work = {} /\ r \in queue
    /\ queue' = queue \ {r}
    /\ work' = {[request |-> r, enabled |-> modelMeshEnabled(r[1])]}
    /\ constraints' = [constraints EXCEPT ![r[1]] = ConstraintsAfter(r[1])]
    /\ etcd' = [etcd EXCEPT ![r[1]] = EtcdAfter(r[1])]
    /\ UNCHANGED <<inVars, events, deployment, lapsed, changes, faults>>

\* The second half: the runtime's deployment.
ReconcileRuntime ==
    /\ \E w \in work :
         \E d \in DeploymentsAfter(w.request[1], w.request[2], w.enabled) :
            SetDeployment(w.request, d, queue)
    /\ work' = {}
    /\ UNCHANGED <<inVars, events, constraints, etcd, lapsed, changes, faults>>

\* A call fails after the type constraints are written, or before the deployment
\* is; the request is tried again.
ReconcileNamespaceFails(r) ==
    /\ faults < MaxFaults
    /\ work = {} /\ r \in queue
    /\ constraints' = [constraints EXCEPT ![r[1]] = ConstraintsAfter(r[1])]
    /\ faults' = faults + 1
    /\ UNCHANGED <<inVars, events, queue, work, deployment, etcd, lapsed, changes>>

ReconcileRuntimeFails ==
    /\ faults < MaxFaults
    /\ \E w \in work : queue' = queue \cup {w.request}
    /\ work' = {}
    /\ faults' = faults + 1
    /\ UNCHANGED <<inVars, events, outVars, lapsed, changes>>

\* The garbage collector of the cluster: the owner of the deployment is gone.
Orphaned(r) == \E d \in deployment[r] : d.orphan

Collect(r) ==
    /\ Orphaned(r)
    /\ SetDeployment(r, {}, queue)
    /\ UNCHANGED <<inVars, events, work, constraints, etcd, lapsed, changes, faults>>

\* Someone deletes the deployment of a ServingRuntime.
DeleteDeployment(r) ==
    /\ changes < MaxChanges
    /\ \E d \in deployment[r] : d.owner = "ServingRuntime"
    /\ SetDeployment(r, {}, queue)
    /\ changes' = changes + 1
    /\ UNCHANGED <<inVars, events, work, constraints, etcd, lapsed, faults>>

-----------------------------------------------------------------------------

\* The deployment that the objects of the cluster ask for.
Wanted(ns, n) ==
    {DeploymentOf(s, ns, n, AllPredictors(ns)) :
        s \in {x \in EffectiveRuntime(ns, n) : ~Off(x, modelMeshEnabled(ns))}}

\* The controller has started, and its handlers and reconciles have seen what is
\* there.
Init ==
    /\ cache \in Origins
    /\ config = \E o \in Objects : o[1] = "ConfigMap" /\ cache[o] = {TRUE}
    /\ events = [k \in Kinds |-> <<>>]
    /\ queue = {} /\ work = {}
    /\ deployment = [r \in Requests |-> Wanted(r[1], r[2])]
    /\ constraints = [ns \in Namespaces |-> ConstraintsAfter(ns)]
    /\ etcd = [ns \in Namespaces |-> EtcdAfter(ns)]
    /\ status = [o \in {x \in Objects : x[1] = "InferenceService"} |-> NoStatus]
    /\ lapsed = {<<"predictor", ns>> :
                    ns \in {x \in Namespaces : \E i \in Services(x) : Rejected(i)}}
    /\ changes = 0 /\ faults = 0

Next ==
    \/ \E o \in Objects : Change(o)
    \/ \E o \in DOMAIN status, s \in Statuses : UpdateStatus(o, s)
    \/ \E k \in Kinds : Handle(k)
    \/ ReloadElsewhere
    \/ \E r \in Requests : ReconcileNamespace(r)
    \/ ReconcileRuntime
    \/ \E r \in Requests : ReconcileNamespaceFails(r)
    \/ ReconcileRuntimeFails
    \/ \E r \in Requests : Collect(r)
    \/ \E r \in Requests : DeleteDeployment(r)

Spec == Init /\ [][Next]_vars

-----------------------------------------------------------------------------
(***************************************************************************)
(* Properties.                                                             *)
(***************************************************************************)

\* Types of the variables.
CacheOK ==
    /\ DOMAIN cache = Objects
    /\ \A o \in Objects : cache[o] \in {{}} \cup {{c} : c \in Contents(o[1])}
    /\ config \in BOOLEAN
    /\ DOMAIN status = {o \in Objects : o[1] = "InferenceService"}

EventsOK ==
    /\ DOMAIN events = Kinds
    /\ \A k \in Kinds :
         /\ events[k] \in Seq(Range(events[k]))
         /\ \A e \in Range(events[k]) :
              e.object \in Objects /\ e.object[1] = k /\ e.versions # {}

WorkOK ==
    /\ queue \subseteq Requests /\ lapsed \subseteq {"predictor", "runtime"} \X Namespaces
    /\ \A w \in work : work = {w} /\ w.request \in Requests /\ w.enabled \in BOOLEAN

DeploymentsOK ==
    /\ DOMAIN deployment = Requests
    /\ \A r \in Requests : \A d \in deployment[r] :
         /\ deployment[r] = {d}
         /\ d = [owner |-> d.owner, orphan |-> d.orphan, labels |-> d.labels,
                 up |-> d.up, claims |-> d.claims]
         /\ d.owner \in {"ServingRuntime", "ClusterServingRuntime"} /\ d.orphan \in BOOLEAN
    /\ DOMAIN constraints = Namespaces /\ DOMAIN etcd = Namespaces
    /\ \A ns \in Namespaces : etcd[ns] \in {{}, EtcdSecret(ns)}

TypeOK == CacheOK /\ EventsOK /\ WorkOK /\ DeploymentsOK

\* Nothing is left to do for the controller and the garbage collector.
Quiescent ==
    /\ \A k \in Kinds : events[k] = <<>>
    /\ queue = {} /\ work = {}
    /\ \A r \in Requests : ~Orphaned(r)

\* When the controller rests, every namespace has exactly the deployments that
\* its runtimes, their overriding of cluster scoped ones, its Predictors, its
\* storage secret and its label ask for, with these labels, scale and claims: the
\* requests of the watches leave out nothing (SetupWithManager).  Excepted are the
\* namespaces in which lapsed records a change that the watches do not follow: of
\* a plug-in's or rejected Predictor, or of a cluster scoped runtime together with
\* the namespace.
DeploymentsSettled ==
    Quiescent =>
        \A r \in Requests :
            {<<"predictor", r[1]>>, <<"runtime", r[1]>>} \cap lapsed = {} =>
                deployment[r] = Wanted(r[1], r[2])

\* When the controller rests, every runtime that a Predictor of any source can be
\* served by is deployed, up and has the claims of the Predictors of the cluster,
\* also where an InferenceService is rejected or a plug-in changed something.
PredictorsServed ==
    Quiescent =>
        \A r \in Requests : \A w \in Wanted(r[1], r[2]) :
            \E d \in deployment[r] :
                /\ d.owner = w.owner /\ d.labels = w.labels
                /\ \A p \in AllPredictors(r[1]) : GetPredictorTypeLabel(p) \subseteq d.labels => d.up
                /\ \A p \in ClusterPredictors(r[1]) :
                     GetPredictorTypeLabel(p) \subseteq d.labels => ClaimOf(p) \cap Claims \subseteq d.claims

\* When the controller rests, model-mesh may place the model of a Predictor (a type
\* of the constraints, in instances with all of its labels) in exactly the runtimes
\* that the controller keeps up for it (runtimeSupportsPredictor), and a namespace
\* with constraints has an etcd secret, of a root that no other namespace has.
\* Namespaces whose change crossed that of a cluster scoped runtime are excepted
\* (lapsed).
PlacementAgrees ==
    Quiescent =>
        \A ns \in {x \in Namespaces : modelMeshEnabled(x) /\ <<"runtime", x>> \notin lapsed} :
            /\ \A p \in AllPredictors(ns), n \in Names :
                 LET type == GetPredictorTypeLabel(p)
                     placed == type \in constraints[ns]
                                 /\ \E d \in deployment[<<ns, n>>] : type \subseteq d.labels
                     served == \E s \in {x \in EffectiveRuntime(ns, n) : ~Off(x, TRUE)} :
                                 runtimeSupportsPredictor(s, p, config, n)
                 IN  placed = served
            /\ constraints[ns] # {} => etcd[ns] # {}
            /\ \A other \in Namespaces \ {ns} : etcd[ns] \cap etcd[other] = {}

\* A status that the Predictor reconciler writes for an InferenceService is read
\* back as it was, but for the endpoints of one that is not available
\* (UpdateStatus, Get).
StatusReadBack ==
    [][\A o \in DOMAIN status, s \in Statuses :
         UpdateStatus(o, s) =>
             FromInferenceService(status'[o]) =
                 IF s.available THEN s ELSE [s EXCEPT !.grpc = "", !.rest = ""]]_vars

-----------------------------------------------------------------------------
(***************************************************************************)
(* The inductive invariant: what every request that is not settled yet is  *)
(* waiting for.                                                            *)
(***************************************************************************)

\* A request for a runtime that makes up the configuration of its namespace.
Configured(r) == modelMeshEnabled(r[1]) /\ r \in requestsForRuntimes({r[1]})

\* The handler of a pending change asks for the request, if nothing else changes
\* before.  What a change of a Predictor asks for only matters in a namespace that
\* is enabled.
Asks(e, r) ==
    /\ r \in EventRequests(e)
    /\ e.object[1] \in {"Predictor", "Plugin", "InferenceService"} => modelMeshEnabled(r[1])

\* The request is in the queue, or will be.  A change of a plug-in's Predictor is
\* apart, as its next change may take back what it asks for.
Pending(r) ==
    r \in queue \/ \E k \in Kinds \ {"Plugin"} : \E e \in Range(events[k]) : Asks(e, r)

PluginPending(r) == \E e \in Range(events["Plugin"]) : Asks(e, r)

\* A reconcile for the request is going on, with what the namespace says now.
Reconciling(r) == \E w \in work : w.request = r /\ w.enabled = modelMeshEnabled(r[1])

\* The owner of a deployment exists, or the deployment is an orphan.
OwnersKnown ==
    \A r \in Requests : \A d \in deployment[r] :
        d.orphan \/ (OwnerOf(r, d) \in Objects /\ cache[OwnerOf(r, d)] # {})

\* A rejected InferenceService is noted.
RejectionsNoted ==
    \A ns \in Namespaces : (\E i \in Services(ns) : Rejected(i)) => <<"predictor", ns>> \in lapsed

\* A reconcile that goes on with what the namespace said before is followed by
\* another one, or there is nothing to deploy.
StaleWorkFollowed ==
    \A w \in work :
        \/ w.enabled = modelMeshEnabled(w.request[1])
        \/ Pending(w.request)
        \/ ~Configured(w.request) /\ <<"runtime", w.request[1]>> \in lapsed

\* The deployment is one of the runtime that is wanted.
Labelled(r) ==
    /\ \A d \in deployment[r] :
         ~d.orphan /\ \E w \in Wanted(r[1], r[2]) : d.owner = w.owner /\ d.labels = w.labels
    /\ Wanted(r[1], r[2]) # {} => deployment[r] # {}

LabelsFollowed ==
    \A r \in Requests :
        \/ <<"runtime", r[1]>> \in lapsed
        \/ Pending(r) \/ Reconciling(r)
        \/ Labelled(r)
        \/ Orphaned(r) /\ Wanted(r[1], r[2]) = {}

DeploymentsFollowed ==
    \A r \in Requests :
        \/ <<"runtime", r[1]>> \in lapsed \/ <<"predictor", r[1]>> \in lapsed
        \/ Pending(r) \/ PluginPending(r) \/ Reconciling(r)
        \/ deployment[r] = Wanted(r[1], r[2])
        \/ Orphaned(r) /\ Wanted(r[1], r[2]) = {}

\* The type constraints and the etcd secret are those of the runtimes, or a
\* request of the namespace is pending.
ConstraintsFollowed ==
    \A ns \in Namespaces :
        \/ <<"runtime", ns>> \in lapsed
        \/ \E n \in Names : Pending(<<ns, n>>)
        \/ constraints[ns] = ConstraintsAfter(ns) /\ etcd[ns] = EtcdAfter(ns)

\* The deployment d serves the Predictors of request r as w does.
Serves(r, d, w) ==
    /\ ~d.orphan /\ d.owner = w.owner /\ d.labels = w.labels
    /\ \A p \in ClusterPredictors(r[1]) :
         GetPredictorTypeLabel(p) \subseteq d.labels =>
             d.up /\ ClaimOf(p) \cap Claims \subseteq d.claims
    /\ \A i \in Services(r[1]) : \A p \in PredictorFrom(i) :
         GetPredictorTypeLabel(p) \subseteq d.labels => d.up
    /\ \A o \in {x \in Objects : x[1] = "Plugin" /\ x[2] = r[1]} : \A p \in cache[o] :
         GetPredictorTypeLabel(p) \subseteq d.labels =>
             d.up \/ \E e \in Range(events["Plugin"]) : e.object = o

ServiceFollowed ==
    \A r \in Requests :
        \/ Pending(r) \/ Reconciling(r)
        \/ \A w \in Wanted(r[1], r[2]) : \E d \in deployment[r] : Serves(r, d, w)

IInv ==
    /\ TypeOK /\ OwnersKnown /\ RejectionsNoted /\ StaleWorkFollowed
    /\ LabelsFollowed /\ DeploymentsFollowed /\ ConstraintsFollowed /\ ServiceFollowed
=============================================================================

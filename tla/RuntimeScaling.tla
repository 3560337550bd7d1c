--------------------------- MODULE RuntimeScaling ---------------------------
(***************************************************************************)
(* The serving runtime reconciler, src/controllers/                        *)
(* servingruntime_controller.go, for one ServingRuntime of one namespace   *)
(* other than the controller's: type constraints and etcd secret of the    *)
(* namespace, scale to zero with its grace period, and the autoscaler      *)
(* (autoscaler_reconciler.go, hpa_reconciler.go), which shares the         *)
(* deployment's replicas with it.                                          *)
(*                                                                         *)
(* The controller reads informer caches.  A watched object that changes is *)
(* noticed when its cache catches up, and its handler runs in that step.   *)
(* Time is counted in ticks up to Grace, beyond which nothing can tell     *)
(* times apart.  Cluster scoped runtimes and storage volumes are left out. *)
(***************************************************************************)
EXTENDS Integers

CONSTANTS
    Predictors,        \* Predictors that the runtime supports
    PluginPredictors,  \* those of them that come from a plug-in source
    Runtimes,          \* contents of a ServingRuntime: autoscaler class, max-scale and
                       \* mode: "on", "off" (disabled), "invalid"
    MinReplicas,       \* min-scale
    ScaledUp,          \* replicas of the spec, or podsPerRuntime
    ScaleToZero,       \* scaleToZero.enabled
    Grace,             \* the grace period in ticks
    MaxWrites,         \* bound on changes of runtime, namespace and Predictors
    MaxFaults          \* bound on failed calls and restarts

ASSUME ScalingAssumption ==
    /\ PluginPredictors \subseteq Predictors
    /\ {"runtime", "namespace", "deployment"} \cap Predictors = {}
    /\ MinReplicas \in Nat \ {0} /\ ScaledUp \in Nat \ {0}
    /\ \A r \in Runtimes :
         /\ r = [class |-> r.class, max |-> r.max, mode |-> r.mode]
         /\ r.class \in {"none", "hpa"} /\ r.mode \in {"on", "off", "invalid"}
         /\ r.max \in Nat
    /\ ScaleToZero \in BOOLEAN
    /\ Grace \in Nat \ {0} /\ MaxWrites \in Nat /\ MaxFaults \in Nat

VARIABLES
    runtime, enabled, predictors,      \* the API server: runtime, label of the namespace, Predictors
    deployment, hpa,                   \* replicas of the deployment, maximum of the HPA
    constraints, secret,               \* type constraints and etcd secret of the namespace
    rtCache, nsCache, predCache, depCache,  \* the informers' copies
    stale,                             \* the copies that have an event to come
    info,                              \* this runtime's entry of runtimeInfoMap
    queue,                             \* the runtime is in the work queue
    timer,                             \* ticks until it is put there, if it will be
    work,                              \* the reconcile in progress
    lastSeen,                          \* history: ticks since a reconcile found Predictors
    writes, faults

apiVars == <<runtime, enabled, predictors>>
outVars == <<deployment, hpa, constraints, secret>>
cacheVars == <<rtCache, nsCache, predCache, depCache>>
loopVars == <<info, timer, lastSeen>>
vars == <<apiVars, outVars, cacheVars, stale, loopVars, queue, work, writes, faults>>

Absent == -1

NoRuntime == [class |-> "none", max |-> 0, mode |-> "absent"]

NoInfo == [entry |-> "none", age |-> Grace]

Idle == [phase |-> "idle", rt |-> NoRuntime, ns |-> FALSE, replicas |-> 0, requeue |-> {}]

At(phase) == work.phase = phase

Goto(phase) == work' = [work EXCEPT !.phase = phase]

Infos == [entry : {"none", "busy", "idle"}, age : 0..Grace]

Works ==
    [phase : {"idle", "secret", "lookup", "hpa", "apply"}, ns : BOOLEAN,
     rt : Runtimes \cup {NoRuntime}, replicas : Nat, requeue : SUBSET (0..Grace)]

TypeOK ==
    /\ runtime \in Runtimes \cup {NoRuntime} /\ rtCache \in Runtimes \cup {NoRuntime}
    /\ enabled \in BOOLEAN /\ nsCache \in BOOLEAN
    /\ predictors \subseteq Predictors /\ predCache \subseteq Predictors
    /\ deployment \in Nat \cup {Absent} /\ depCache \in Nat \cup {Absent}
    /\ hpa \in Nat \cup {Absent}
    /\ constraints \in {"none", "default", "listed"} /\ secret \in BOOLEAN
    /\ info \in Infos
    /\ stale \subseteq {"runtime", "namespace", "deployment"} \cup Predictors
    /\ queue \in BOOLEAN /\ timer \subseteq 0..Grace
    /\ work \in Works
    /\ lastSeen \in 0..Grace /\ writes \in 0..MaxWrites /\ faults \in 0..MaxFaults

\* The controller starts, and finds a runtime and Predictors or none.
Init ==
    /\ runtime \in Runtimes \cup {NoRuntime} /\ rtCache = NoRuntime
    /\ enabled = TRUE /\ nsCache = TRUE
    /\ predictors \in SUBSET Predictors /\ predCache = {}
    /\ deployment = Absent /\ depCache = Absent
    /\ hpa = Absent
    /\ constraints = "none" /\ secret = FALSE
    /\ info = NoInfo /\ lastSeen = Grace
    /\ stale = predictors \cup (IF runtime = NoRuntime THEN {} ELSE {"runtime"})
    /\ queue = FALSE /\ timer = {} /\ work = Idle
    /\ writes = 0 /\ faults = 0

-----------------------------------------------------------------------------
(* The cluster *)

\* A change of the API server by a user.
Write == writes < MaxWrites /\ writes' = writes + 1

CollectOwned == deployment' = Absent /\ hpa' = Absent

\* The deletion of a ServingRuntime takes what it owns with it.
SetRuntime(r) ==
    /\ Write
    /\ r # runtime
    /\ runtime' = r
    /\ IF r = NoRuntime
         THEN CollectOwned /\ stale' = stale \cup {"runtime", "deployment"}
         ELSE UNCHANGED <<deployment, hpa>> /\ stale' = stale \cup {"runtime"}
    /\ UNCHANGED <<enabled, predictors, constraints, secret, cacheVars, loopVars, queue, work, faults>>

LabelNamespace ==
    /\ Write
    /\ enabled' = ~ enabled
    /\ stale' = stale \cup {"namespace"}
    /\ UNCHANGED <<runtime, predictors, outVars, cacheVars, loopVars, queue, work, faults>>

AddPredictor(p) ==
    /\ Write
    /\ p \notin predictors
    /\ predictors' = predictors \cup {p}
    /\ stale' = stale \cup {p}
    /\ UNCHANGED <<runtime, enabled, outVars, cacheVars, loopVars, queue, work, faults>>

RemovePredictor(p) ==
    /\ Write
    /\ p \in predictors
    /\ predictors' = predictors \ {p}
    /\ stale' = stale \cup {p}
    /\ UNCHANGED <<runtime, enabled, outVars, cacheVars, loopVars, queue, work, faults>>

\* What a reconcile still makes for a runtime that is gone is collected.
Orphaned == runtime = NoRuntime /\ (deployment # Absent \/ hpa # Absent)

GarbageCollect ==
    /\ Orphaned
    /\ CollectOwned
    /\ stale' = stale \cup {"deployment"}
    /\ UNCHANGED <<apiVars, constraints, secret, cacheVars, loopVars, queue, work, writes, faults>>

\* The horizontal pod autoscaler leaves a deployment of no replicas alone.
HPAScales ==
    /\ hpa # Absent
    /\ deployment > 0
    /\ deployment' \in (MinReplicas..hpa) \ {deployment}
    /\ stale' = stale \cup {"deployment"}
    /\ UNCHANGED <<apiVars, hpa, constraints, secret, cacheVars, loopVars, queue, work, writes, faults>>

-----------------------------------------------------------------------------
(* Events *)

RuntimeEvent ==
    /\ "runtime" \in stale
    /\ stale' = stale \ {"runtime"}
    /\ rtCache' = runtime
    /\ queue' = TRUE
    /\ UNCHANGED <<apiVars, outVars, nsCache, predCache, depCache, loopVars, work, writes, faults>>

DeploymentEvent ==
    /\ "deployment" \in stale
    /\ stale' = stale \ {"deployment"}
    /\ depCache' = deployment
    /\ queue' = TRUE
    /\ UNCHANGED <<apiVars, outVars, rtCache, nsCache, predCache, loopVars, work, writes, faults>>

\* A slip: only runtimes that have a deployment are asked for.
RequestsForDeployed == rtCache # NoRuntime /\ depCache # Absent

\* requestsForRuntimes: the runtimes of the namespace, as far as they are known.
RequestsForRuntimes == rtCache # NoRuntime

NamespaceEvent ==
    /\ "namespace" \in stale
    /\ stale' = stale \ {"namespace"}
    /\ nsCache' = enabled
    /\ queue' = (queue \/ RequestsForRuntimes)
    /\ UNCHANGED <<apiVars, outVars, rtCache, predCache, depCache, loopVars, work, writes, faults>>

\* getRuntimesSupportingPredictor: the runtime supports it, if it is known.
RuntimeRequestsForPredictor == rtCache # NoRuntime

\* A slip: only Predictors that are there are looked at.
PredictorEventAdds ==
    \E p \in Predictors :
        /\ p \in stale
        /\ stale' = stale \ {p}
        /\ predCache' = IF p \in predictors THEN predCache \cup {p} ELSE predCache \ {p}
        /\ queue' = (queue \/ (RuntimeRequestsForPredictor /\ p \in predictors))
        /\ UNCHANGED <<apiVars, outVars, rtCache, nsCache, depCache, loopVars, work, writes, faults>>

\* A Predictor has come or gone.  One of a plug-in source that has gone is not
\* found any more and leads to no request.
PredictorEvent ==
    \E p \in Predictors :
        /\ p \in stale
        /\ stale' = stale \ {p}
        /\ predCache' = IF p \in predictors THEN predCache \cup {p} ELSE predCache \ {p}
        /\ queue' = \/ queue
                    \/ /\ RuntimeRequestsForPredictor
                       /\ p \in PluginPredictors => p \in predictors
        /\ UNCHANGED <<apiVars, outVars, rtCache, nsCache, depCache, loopVars, work, writes, faults>>

-----------------------------------------------------------------------------
(* The reconcile *)

\* The reconcile ends; again says that it is to be repeated.
Return(again) ==
    /\ work' = Idle
    /\ queue' = (queue \/ again)

\* What is common to all steps of the reconcile.
Step(phase) ==
    /\ At(phase)
    /\ UNCHANGED <<apiVars, cacheVars, writes, faults>>

\* The deployment is written if it changes.
SetDeployment(replicas) ==
    /\ deployment' = replicas
    /\ stale' = IF replicas = deployment THEN stale ELSE stale \cup {"deployment"}

\* The type constraints that the runtimes of the namespace call for.
ConstraintData ==
    IF ~ nsCache \/ rtCache = NoRuntime THEN "none"
    ELSE IF rtCache.mode = "off" THEN "default" ELSE "listed"

\* The label of the namespace and the list of its runtimes are read, and the
\* type constraints are written.
Begin ==
    /\ queue
    /\ Step("idle")
    /\ queue' = FALSE
    /\ constraints' = ConstraintData
    /\ work' = [Idle EXCEPT !.phase = "secret", !.ns = nsCache]
    /\ UNCHANGED <<stale, deployment, hpa, secret, loopVars>>

\* A slip: the secret stays when the namespace is switched off.
ReconcileSecretKept ==
    /\ Step("secret")
    /\ secret' = (secret \/ constraints # "none")
    /\ Goto("lookup")
    /\ UNCHANGED <<stale, deployment, hpa, constraints, loopVars, queue>>

\* The secret is there if any runtime of the namespace was listed.
ReconcileSecret ==
    /\ Step("secret")
    /\ secret' = (constraints # "none")
    /\ Goto("lookup")
    /\ UNCHANGED <<stale, deployment, hpa, constraints, loopVars, queue>>

\* removeRuntimeFromInfoMap, which ends the reconcile.
RemoveRuntimeFromInfoMap ==
    /\ info' = NoInfo
    /\ lastSeen' = Grace
    /\ Return(FALSE)

RuntimeNotFound ==
    /\ Step("lookup")
    /\ rtCache = NoRuntime
    /\ RemoveRuntimeFromInfoMap
    /\ UNCHANGED <<stale, outVars, timer>>

\* An error: the reconcile is repeated, and fails until the spec is corrected.
RuntimeInvalid ==
    /\ Step("lookup")
    /\ rtCache.mode = "invalid"
    /\ Return(TRUE)
    /\ UNCHANGED <<stale, outVars, loopVars>>

\* The deployment goes; an HPA stays.
RuntimeOff ==
    /\ Step("lookup")
    /\ rtCache.mode = "off" \/ (rtCache.mode = "on" /\ ~ work.ns)
    /\ SetDeployment(Absent)
    /\ Return(FALSE)
    /\ UNCHANGED <<hpa, constraints, secret, loopVars>>

\* Slips of the entry's update: an entry that exists is not reset when there
\* are Predictors; the transition is dated anew each time.
InfoAfterKept(has) ==
    IF has THEN IF info.entry = "none" THEN [entry |-> "busy", age |-> 0] ELSE info
    ELSE CASE info.entry = "none" -> [entry |-> "idle", age |-> Grace]
           [] info.entry = "busy" -> [entry |-> "idle", age |-> 0]
           [] OTHER -> info
InfoAfterRedated(has) ==
    IF has THEN [entry |-> "busy", age |-> 0]
           ELSE [entry |-> "idle", age |-> IF info.entry = "none" THEN Grace ELSE 0]

\* The entry after a reconcile that found Predictors, or found none: a runtime
\* that is new to the controller counts as idle since long ago.
InfoAfter(has) ==
    IF has THEN [entry |-> "busy", age |-> 0]
    ELSE CASE info.entry = "none" -> [entry |-> "idle", age |-> Grace]
           [] info.entry = "busy" -> [entry |-> "idle", age |-> 0]
           [] OTHER -> info

\* What is left of the grace period.
RequeueAfter(age) == {Grace - age}

\* determineReplicasAndRequeueDuration: no replicas once the grace period is
\* over, or else the reconcile is to be repeated when it is.
DetermineReplicas ==
    /\ Step("lookup")
    /\ rtCache.mode = "on"
    /\ work.ns
    /\ LET has == predCache # {}
           after == InfoAfter(has)
           waits == ScaleToZero /\ ~ has
       IN /\ info' = IF ScaleToZero THEN after ELSE info
          /\ lastSeen' = IF has THEN 0 ELSE lastSeen
          /\ work' = [phase |-> "hpa", ns |-> TRUE, rt |-> rtCache,
                       replicas |-> IF waits /\ after.age = Grace THEN 0 ELSE ScaledUp,
                       requeue |-> IF waits /\ after.age < Grace THEN RequeueAfter(after.age) ELSE {}]
    /\ UNCHANGED <<stale, outVars, timer, queue>>

\* createHPA: the maximum is not below the minimum.
MaxReplicas(r) == IF r.max < MinReplicas THEN MinReplicas ELSE r.max

\* HPAReconciler.Reconcile: an HPA that differs from the runtime's annotations
\* is updated, also where one that does not differ is deleted.
HPAReconcile(delete) ==
    LET desired == MaxReplicas(work.rt) IN
    CASE hpa = Absent -> IF delete THEN Absent ELSE desired
      [] hpa # Absent /\ hpa # desired -> desired
      [] OTHER -> IF delete THEN Absent ELSE hpa

\* AutoscalerReconciler.Reconcile: both classes have the HPA reconciled.
AutoscalerReconcile(scaleToZero) ==
    IF work.rt.class \in {"hpa", "none"} THEN HPAReconcile(scaleToZero) ELSE hpa

\* Whether the HPA is to decide on the replicas.
Autoscaled == work.replicas # 0 /\ work.rt.class = "hpa"

\* Without autoscaling, or with nothing to scale, there shall be no HPA.
ReconcileNoAutoscaler ==
    /\ Step("hpa")
    /\ ~ Autoscaled
    /\ hpa' = AutoscalerReconcile(TRUE)
    /\ Goto("apply")
    /\ UNCHANGED <<stale, deployment, constraints, secret, loopVars, queue>>

\* With autoscaling the HPA decides on the replicas of a deployment that has
\* some; a deployment that does not exist is an error.
ReconcileAutoscaler ==
    /\ Step("hpa")
    /\ Autoscaled
    /\ IF depCache = Absent
         THEN Return(TRUE) /\ UNCHANGED hpa
         ELSE /\ hpa' = AutoscalerReconcile(FALSE)
              /\ work' = [work EXCEPT !.phase = "apply",
                              !.replicas = IF depCache = 0 THEN MinReplicas ELSE depCache]
              /\ UNCHANGED queue
    /\ UNCHANGED <<stale, deployment, constraints, secret, loopVars>>

\* The earliest of the delayed requests for one runtime is kept.
Sooner(s, t) == {k \in s \cup t : \A m \in s \cup t : k <= m}

\* Deployment.Apply: a conflict with a change not yet seen is tried again.
Apply ==
    /\ Step("apply")
    /\ IF "deployment" \notin stale
         THEN /\ SetDeployment(work.replicas)
              /\ timer' = Sooner(timer, work.requeue)
              /\ Return(FALSE)
         ELSE Return(TRUE) /\ UNCHANGED <<deployment, stale, timer>>
    /\ UNCHANGED <<hpa, constraints, secret, info, lastSeen>>

Reconcile ==
    \/ Begin \/ ReconcileSecret
    \/ RuntimeNotFound \/ RuntimeInvalid \/ RuntimeOff
    \/ DetermineReplicas \/ ReconcileNoAutoscaler \/ ReconcileAutoscaler \/ Apply

\* Any call to the API server may fail: the reconcile is repeated.
CallFails ==
    /\ faults < MaxFaults
    /\ work # Idle
    /\ faults' = faults + 1
    /\ Return(TRUE)
    /\ UNCHANGED <<stale, apiVars, outVars, cacheVars, loopVars, writes>>

\* The controller starts again and knows no transition times.
Restart ==
    /\ faults < MaxFaults
    /\ faults' = faults + 1
    /\ rtCache' = runtime /\ nsCache' = enabled
    /\ predCache' = predictors /\ depCache' = deployment /\ stale' = {}
    /\ info' = NoInfo /\ lastSeen' = Grace
    /\ queue' = (runtime # NoRuntime)
    /\ timer' = {} /\ work' = Idle
    /\ UNCHANGED <<apiVars, outVars, writes>>

TimerFires ==
    /\ 0 \in timer
    /\ timer' = {}
    /\ queue' = TRUE
    /\ UNCHANGED <<stale, apiVars, outVars, cacheVars, info, lastSeen, work, writes, faults>>

Older(age) == IF age < Grace THEN age + 1 ELSE age

Tick ==
    /\ info' = IF info.entry = "idle" THEN [info EXCEPT !.age = Older(@)] ELSE info
    /\ lastSeen' = Older(lastSeen)
    /\ timer' = {IF t > 0 THEN t - 1 ELSE 0 : t \in timer}
    /\ UNCHANGED <<stale, apiVars, outVars, cacheVars, queue, work, writes, faults>>

Next ==
    \/ Reconcile \/ CallFails \/ Restart \/ TimerFires \/ Tick
    \/ RuntimeEvent \/ DeploymentEvent \/ NamespaceEvent \/ PredictorEvent
    \/ LabelNamespace \/ HPAScales \/ GarbageCollect
    \/ \E p \in Predictors : AddPredictor(p) \/ RemovePredictor(p)
    \/ \E r \in Runtimes \cup {NoRuntime} : SetRuntime(r)

Spec == Init /\ [][Next]_vars

\* The worker runs, the informers catch up and time passes.
Fairness ==
    /\ WF_vars(Reconcile)
    /\ WF_vars(TimerFires) /\ WF_vars(Tick)
    /\ WF_vars(RuntimeEvent) /\ WF_vars(DeploymentEvent)
    /\ WF_vars(NamespaceEvent) /\ WF_vars(PredictorEvent)

FairSpec == Spec /\ Fairness

-----------------------------------------------------------------------------
(* Properties *)

Active == runtime.mode = "on" /\ enabled

\* The controller has nothing to do.
Settled ==
    /\ At("idle") /\ ~ queue /\ stale = {} /\ ~ Orphaned

\* When the controller has nothing left to do, a runtime has pods if it has
\* Predictors; if it has none it has no pods, or will be looked at again when
\* the grace period is over; and a runtime that is off has no deployment
\* (servingruntime_controller.go:264-334, 456-528).
SettledScale ==
    Settled =>
        /\ Active /\ predictors # {} => deployment > 0
        /\ Active /\ predictors = {} /\ ScaleToZero => deployment = 0 \/ timer # {}
        /\ ~ Active /\ runtime.mode # "invalid" => deployment = Absent

\* When the controller has nothing left to do, type constraints and etcd secret
\* are there if there is a runtime in an enabled namespace, and the constraints
\* list the runtime unless it is off (servingruntime_controller.go:112-182).
\* They stay behind if the runtime is deleted while the controller is down: of a
\* runtime that is gone, nothing is said once a call has failed or the controller
\* was restarted, which faults counts together.
SettledConfig ==
    Settled /\ (runtime = NoRuntime => faults = 0) =>
        /\ secret = (enabled /\ runtime # NoRuntime)
        /\ (constraints = "none") = ~ secret
        /\ Active => constraints = "listed"

\* Pods are taken away only when no reconcile has found Predictors for the
\* grace period, however Predictors come and go meanwhile and whichever delayed
\* requests are still pending (servingruntime_controller.go:496-522); a
\* controller that has just started may take them away at once.
GraceKept == [][deployment > 0 /\ deployment' = 0 => lastSeen = Grace]_vars

\* A runtime without Predictors loses its pods in the end.
ScaledToZero ==
    ScaleToZero => (<>[](Active /\ predictors = {}) => <>[](deployment = 0))

\* A runtime that is not autoscaled has its pods once it has Predictors.
ScaledUpForPredictors ==
    <>[](Active /\ runtime.class = "none" /\ predictors # {}) => <>[](deployment > 0)

-----------------------------------------------------------------------------
(* The inductive strengthening of SettledScale, SettledConfig and GraceKept, *)
(* proved in ServingRuntime_proofs.                                          *)

\* An informer's copy differs from the object only while an event is to come.
CachesInv ==
    /\ "runtime" \in stale \/ rtCache = runtime
    /\ "namespace" \in stale \/ nsCache = enabled
    /\ "deployment" \in stale \/ depCache = deployment
    /\ \A p \in Predictors : p \in stale \/ (p \in predCache <=> p \in predictors)

\* These replicas and this delayed request fit the Predictors that are known.
\* The removal of one of a plug-in source is not noticed.
ScaleFits(replicas, delayed) ==
    /\ predCache # {} => replicas > 0
    /\ predCache = {} /\ ScaleToZero /\ PluginPredictors = {} => replicas = 0 \/ delayed # {}

\* Type constraints and secret fit the runtime and the namespace that are known.
ConfigFits ==
    /\ constraints = ConstraintData
    /\ secret = (constraints # "none")

\* A controller with nothing in its queue has done what its caches ask for.  A
\* change of the deployment that it has still to see will have it look again.
IdleInv ==
    At("idle") /\ ~ queue =>
        /\ "deployment" \notin stale =>
             /\ rtCache.mode = "on" /\ nsCache => ScaleFits(deployment, timer)
             /\ rtCache.mode = "off" \/ (rtCache.mode = "on" /\ ~ nsCache) => deployment = Absent
        /\ ConfigFits \/ (rtCache = NoRuntime /\ faults > 0)

\* What a reconcile has read is what the caches hold, or it will be repeated.
WorkInv ==
    ~ queue =>
        /\ At("secret") \/ At("lookup") => rtCache = NoRuntime \/ work.ns = nsCache
        /\ At("secret") => constraints = ConstraintData
        /\ At("lookup") \/ At("hpa") \/ At("apply") => ConfigFits
        /\ At("hpa") \/ At("apply") =>
             /\ work.rt = rtCache /\ rtCache.mode = "on" /\ nsCache
             /\ ScaleFits(work.replicas, work.requeue)

OneDelay(s) == \E k \in 0..Grace : s \subseteq {k}

\* The entry of the runtime is never older than the last sight of a Predictor, and
\* a reconcile that takes the pods away has seen none for the grace period.
TimeInv ==
    /\ IF ScaleToZero THEN info.entry = "none" => lastSeen = Grace ELSE info.entry = "none"
    /\ info.entry = "idle" => info.age <= lastSeen
    /\ (At("hpa") \/ At("apply")) /\ work.replicas = 0 => lastSeen = Grace
    /\ OneDelay(timer) /\ OneDelay(work.requeue)

ScalingInv == CachesInv /\ IdleInv /\ WorkInv /\ TimeInv

=============================================================================

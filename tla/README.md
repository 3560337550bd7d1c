# TLA+ specifications of the ModelMesh Serving controller

ModelMesh Serving is a Kubernetes controller. Users create `Predictor`s,
`InferenceService`s and `ServingRuntime`s; the controller registers a *vmodel* in
model-mesh for each Predictor, keeps a deployment of model-mesh pods for each
runtime, a Service, a gRPC client and an etcd watch for each namespace, and reports
back in the status of the resources. Predictors may also come from plug-in sources,
which the controller mirrors into a cache of its own.

The specifications cover the controller from the start of its process to the pods it
deploys: the mirrors of outside state, the three reconcile loops that act on copies
which are always a little out of date, and the computations they share.

## Inventory

| Component | State it keeps | Operations | Interacts with | What makes it correct |
|---|---|---|---|---|
| Predictor source interface (`pkg/predictor_source/predictor_source.go`) | — | `StartWatch`, `Get`, `Find`, `UpdateStatus` | reconcilers | whatever `Get` comes to answer, an event follows |
| Cached predictor source (`cached_predictor_source.go`) | `cache`, `deletionQueue`, a lock, the event channel | `Get`, `Find`, `UpdateStatus`, `offerToCache`, `processEvent`, `pruneDeletions` | repository, both reconcilers | nothing committed is lost, nothing else is served, each change leads to a reconcile |
| Watch/refresh source (`watchrefresh_predictor_source.go`) | `resourceVersion`, the stream, the list being applied | `StartWatch`, `refreshCache` | repository (`Refresh`, `Watch`) | the watch position never runs ahead of the cache, and never back |
| Stream source (`stream_predictor_source.go`) | the cache above, the overflow of the first events | `StartWatch`, one goroutine | repository's stream, dispatcher | the interface's promise |
| Process (`main.go`) | registries, two event channels, leadership | start-up checks, dispatcher | all of the above | every Predictor is reconciled after a start |
| Predictor reconciler (`controllers/predictor_controller.go`) | none of its own; informer copies, work queue | `ReconcilePredictor`, `handlePredictorNotFound`, `setVModel`, status update | API server, model-mesh, registries | once it rests, spec, vmodel and status agree |
| InferenceService registry (`inferenceservice_registry.go`) | none | `Get`, `Find`, `UpdateStatus` | API server | a status is read back as it was written |
| Etcd range watcher (`pkg/mmesh/etcdrangewatcher.go`) | `cache` with `found` marks, revision | `Start` | etcd, event stream | the listener's view follows the range |
| Event stream (`modelmesh_events.go`) | watches per namespace, etcd client, secret name | `UpdateWatchedService`, `RemoveWatchedService` | range watcher, predictor reconciler | each enabled namespace is watched with the current secret |
| MMService (`modelmesh_service.go`) | settings, client, mark to reconnect | `UpdateConfig`, `ConnectIfNeeded`, `Disconnect` | service reconciler, gRPC | the client is that of the last settings |
| Kube gRPC resolver (`grpc_resolver.go`) | resolvers per Service | `Build`, `Reconcile`, `Close` | Endpoints, gRPC | an open client knows the pods that are there |
| Service reconciler (`service_controller.go`) | map of MMServices | `Reconcile`, the ConfigMap handler | all of the above | one Service, client, watch and monitor per enabled namespace |
| Serving runtime reconciler (`servingruntime_controller.go`) | `runtimeInfoMap` with transition times | `Reconcile`, `determineReplicas…`, the event handlers | API server, registries, HPA | the deployments that runtimes, Predictors and namespaces ask for |
| Autoscaler (`autoscaler/`, `hpa/`) | none | `Reconcile`, `createHPA` | HPA, deployment | HPA and reconciler do not fight over replicas |
| Type labels, constraints, etcd secret (`modelmesh/model_type_labels.go`, `cluster_config.go`, `etcd_secret.go`) | ConfigMap and Secret per namespace | computed by each reconcile | model-mesh | models are placed where runtimes are kept up for them |
| Deployment (`controllers/modelmesh/`) | the pod under construction | the transformations of `Apply` | API server | containers get the mounts and sockets they are told to use |
| Webhook and validator (`servingruntime_webhook.go`, `servingruntime_validator.go`) | none | admission, validation | `createHPA`, `Apply` | what is admitted can be deployed |
| Configuration (`pkg/config/config.go`) | current configuration | `ReloadConfigMap`, `GetConfig`, `ConfigWatchHandler` | all reconcilers | the configuration in use is the last that was accepted |
| Generated code, functional tests, manifest overlay | — | — | — | not specified |

What is hard: `UpdateStatus` answers race with watch events for one cache; a watch
ends and resumes, lists fail half-way; everything is read from informer copies; each
reconcile is a sequence of remote calls any of which may fail or take effect without
an answer; a handler changes settings while a reconcile connects with the ones it took;
handlers of two kinds of objects read each other's caches in either order; model-mesh
announces some changes and leaves others to be polled; channels fill up before anyone
reads them; a grace period restarts while timers of earlier ones are pending; the HPA
writes the replicas that the reconciler writes; slices share their arrays. `PROJECT.json`
lists these as hazards, each at its line with the properties that watch it.

## Modules

```
PredictorSource                what a source promises (abstract)
PredictorRepository            the plug-in's repository (external)
  CachedPredictorSource        cache, UpdateStatus, lock, dispatcher, reconciles
    WatchPredictorSource       the watch goroutine; properties; inductive invariant
      MCWatchPredictorSource         instances for TLC
      WatchPredictorSource_proofs    theorems
    StreamPredictorSource      the goroutine of a stream source
      ControllerProcess        start-up, leader election, dispatcher, restarts;
                               refinement of PredictorSource        MCControllerProcess
        ControllerProcess_proofs       theorems
EtcdRangeWatcher                                                    MCEtcdRangeWatcher
  EtcdRangeWatcher_proofs            theorems
ModelMesh                      model-mesh (external)
  PredictorReconciler                                               MCPredictorReconciler
    PredictorReconciler_proofs       theorems
ConfigProvider, MMService, ModelEventStream
  ServiceReconciler            composes the three                   MCServiceReconciler
    ServiceReconciler_proofs         theorems
KubeResolver                                                        MCKubeResolver
  KubeResolver_proofs                theorems
InferenceServiceRegistry
  RuntimeRequests              many objects, many namespaces        MCRuntimeRequests
    RuntimeRequests_proofs           theorems
RuntimeScaling                 one runtime in time                  MCRuntimeScaling
RuntimeDeployment              one runtime in depth                 MCRuntimeDeployment
  ServingRuntime_proofs              theorems about the last two
```

An indented module extends those above it. Operators whose comment calls them a *slip*
are variants of the definition that follows them, with a plausible mistake: the mutants
in `PROJECT.json` put them in place of the definition and TLC has to notice.

### PredictorSource

The contract of `predictor_source.go`: `known` is the spec that `Get` answers, `seen` what
it answered at the last reconcile of the name, `events` the names with an event on its way.
A change of `known` puts its name into `events`; only a delivery takes it out.

### PredictorRepository, CachedPredictorSource, WatchPredictorSource

`log` is the history of the repository: entry `i` is the change that made version `i`.
An object is reduced to its version `rv`, the version `gen` of its spec, and whether it
is deleted; an absent object has `rv = 0`. `SetPredictor`, `MarkDeleted` (a deletion
that waits for finalizers) and `DeletePredictor` are the repository's users.

`cache`, `deletionQueue` and `lockHeld` are the fields of `cachedPredictorSource`.
`Offer` is `offerToCache`, `PruneDeletions` is `pruneDeletions` with the cutoff the code
computes (now *plus* 20 seconds, so that all tombstones are due: `PopExpired`).
`UpdateStatus` is three actions: the version check under the read lock, the remote call
without it, and the offer of the answer under the write lock. `Dispatch` takes an event
from the channel and puts its name into the work queue `dirty`; `Reconcile` reads the
source and may go on to write a status; `Return` is its end, with the requeue after a
refused update.

`pc` is the position of the goroutine of `StartWatch`: taking the first list, sending the
initial events, establishing the watch, reading, writing to a full channel, refreshing
item by item and deletion by deletion. A refresh that returns with the lock held goes on
to `Watch` with it, as the code does.

### StreamPredictorSource, ControllerProcess

The stream's changes wait in `inChan`; `StartWatch` takes them until it is quiet,
`initial` is the slice of the events that found no room, `event` the one being written.
`ControllerProcess` is `main`: `phase` is how far it has come through its checks
(configuration, scope, election, set-up of the manager and of the reconcilers, watches,
sources, manager), `leader` who holds the lock, and the dispatcher passes every event to
the channels of both reconcilers, one after the other. The watch of the runtime
reconciler asks the registry, which needs the source's lock, while the goroutine of the
source may hold it. An exited process is started again with an empty cache.

### EtcdRangeWatcher

`history` is the history of the range, `pc` the position in `Start`: `sync` (fix a
revision), `list`, `sweep`, `watch`. `cache` and `found` are the entries and their marks,
`told` what the listener was last told of each key. A list may fail at any point and is
started again with its marks; it is read at one revision, page by page; a cancelled
context ends it early and the sweep runs all the same, as the `break` in the code only
leaves the `select`. The auxiliary variable `spared` holds the keys that were gone when the
last list was taken and that its sweep left alone because of an older mark.

### ModelMesh, PredictorReconciler

One name of one namespace, which several sources (Predictor, InferenceService) may
define. `vmodel` has an owner, an active and a target model, and a status with an error
for each; `ModelMesh` says which outcomes a call may have and how loads, promotion,
eviction and outages of all pods change it. `api` is the API server's resource, `cached`
the informer's copy, `fresh` the sources whose copy is current. `work` is the reconcile in
progress, in its remote steps: `Begin` (read, early returns), `SetVModel` or
`CheckVModel`, `UpdateStatus`, and `HandlePredictorNotFound`. `StatusFromVModel` is
`updatePredictorStatusFromVModel` with its parts `DecodeModelState`, `TargetState`,
`TransitionFrom`, `ReasonFrom` and `Available`. A call may fail, or take effect and fail;
an update conflicts when the copy was old; the controller may restart at any point.

### ConfigProvider, MMService, ModelEventStream, ServiceReconciler

A ConfigMap is a function from the fields it sets to their values; `loaded` is the one in
use, `Merged` puts it over the defaults. `mmServices` is the map of MMServices, each with
its settings, its client (told by the settings it was made with) and the mark to
reconnect. `stream` is the event stream: the etcd client, the secret it was made for and
the watch of each namespace; `getEtcdClientConfig` says which secrets make a client.
`services` and `monitors` are the API server's Services and ServiceMonitors, `owner` the
Namespace (cluster scope) or the controller's Deployment (namespace scope), each with an
informer copy. The ConfigMap's handler is two steps beside the one worker: it loads and
lists, then it updates the settings. A reconcile is `Reconcile` (reads, early returns),
`RemoveService`/`DeleteOther`, `RemoveMMService`, `ReconcileService` with its creation,
re-creation and update, `Dial` with its two failures, `UpdateWatch`, and
`ReconcileMonitor`. Known lapses of the code are recorded in the history variable
`lapses`, and the properties are about the namespaces they do not concern. It also records
the etcd secrets with which the last attempt to connect has failed.

### KubeResolver

`resolvers` is the list of resolvers of each Service name, `client` what the gRPC client of
each resolver was told, `endpoints` the API server's objects and `cache` the informer's.
`Build`, `Close` and `Reconcile` are one step each, as they run under one lock; an idle
client has its resolver closed some time later.

### RuntimeScaling

One `ServingRuntime` of one namespace. `runtime`, `enabled` (the namespace's label) and
`predictors` are the API server's, each with an informer copy; `stale` names the copies
that have an event to come. A reconcile is `Begin` (reads, type constraints),
`ReconcileSecret`, then `RuntimeNotFound`, `RuntimeInvalid`, `RuntimeOff` or
`DetermineReplicas`, then the HPA (`ReconcileNoAutoscaler`, `ReconcileAutoscaler`), then
`Apply`. `info` is the entry of `runtimeInfoMap`; times are ages in ticks, counted up to
the grace period; the zero time is an age of `Grace`. `timer` is the delayed request in the
work queue, which keeps the earliest of several. Reads of the HPA are current, and what a
deleted runtime owns goes with it.

### InferenceServiceRegistry, RuntimeRequests

`InferenceServiceRegistry` turns InferenceServices into Predictors, with every reason for
which the code refuses one, and converts statuses both ways. `RuntimeRequests` has objects
of eight kinds in several namespaces (`cache`), whose changes wait for their handlers
(`events`, one queue per kind); a handler computes requests from the caches of the time it
runs, as `SetupWithManager`'s functions do. A reconcile is two steps, of the namespace
(type constraints, etcd secret) and of the runtime (deployment). `Wanted` is what a
namespace should have, from the same predicates. `lapsed` records the changes that the
handlers are known not to follow (see below), and the namespaces that start with an
InferenceService the registry rejects. Scale to zero is on with no grace period,
there is no autoscaler and the controller has cluster scope: `RuntimeScaling` and
`ServiceReconciler` cover those.

### RuntimeDeployment

A runtime and a cluster are chosen from `Cases`; the webhook, the validator, `getPVCs`,
`createHPA` and the transformations of `Apply` are one action each, in the order of the
code. A pod is a sequence of containers with environment, mounts and volumes. Mounts that
share an array are a prefix of `backing`, and `append` writes in place where Go would. The
order in which a map is traversed is a choice. The largest int32 and uint16 are constants.
What a transformation makes of a pod is an operator with the name of the Go function
(`addVolumes`, `syncGracePeriod`, ...), and the action of that name applies it. `RuntimeSet` and
`ClusterSet` say what a case is made of (`CasesAssumption`); `PVCOrder`, the order of strings,
has each name once (`DeploymentAssumption`).

## Runs

All runs that pass, with the bounds:

* **watch_races** — two names, four changes, channel of one, status writes, two-stage
  deletions, so that every DELETE event has a timestamp, a watch that repeats its first
  version. `NoLostUpdate`: every change up to the watch position is reflected in the
  cache. `CacheFaithful`: only committed objects, or tombstones of deleted ones, are
  cached. `ChangeWillBeReconciled`: a spec that no reconcile has acted on is queued, on its
  way, or in the overflow. `KeepsPromise`: the source implements `PredictorSource`, with
  `Get` for `known` and the channel, the overflow, the pending write and the work queue for
  `events`. `WatchVersionMonotone`. `TypeOK` and `SyncInv`, the inductive
  invariant of the proofs. Four changes are enough for a deletion and a re-creation to race
  with an answer, a list and a stream; two names for a list to be half applied.
* **watch_quiet** — the same source without status writes, under fairness, with deletions
  at once, whose DELETE event may have a timestamp or not. `Convergence`: once the repository
  is quiet, the last reconcile of each name has seen its contents. A name whose last event
  is a DELETE without a timestamp is excepted, as the source takes it for live (below). The
  invariants of `watch_races` are proved for such events, not run with them.
* **stream** — the whole process with a stream source: eight environments, one for each
  check that may end it; two names, three changes, channels of one, one restart,
  another leader that may be there first, status writes. `KeepsPromise`: source, dispatcher
  and work queue together implement `PredictorSource`. `EventuallyReconciled`: a process
  that nothing keeps from starting runs in the end, and has reconciled every Predictor as
  it is, or is stuck in the one state that `InitialEventsStuck` describes. The channels are
  chosen smaller than the initial events, so that the run has this deadlock; all other waits
  of goroutine, dispatcher and watches for each other have to come to an end.
* **etcd_mirror** — two keys, four changes, cancellation at any point. `NoMissedUpdate`: in
  the watch phase the listener's view is the range, but for spared keys. `DeletesAreReal`,
  `NeverBackwards`. `EventuallyMirrored`: in the end the view is the range but for spared
  keys, and if streams keep ending, for these too. Streams may live for ever.
* **reconcile_faults** — one source, valid and invalid specs, pods that stay, lost copies,
  failed calls, lost answers, a restart. `SettledHasSpec`: when the controller rests, the
  vmodel's target is the Predictor's spec, and a Predictor that is gone has none.
  `SettledStatusTrue`: its status is then what the vmodel calls for. `UpToDateIsTrue`: no
  status says *up to date* unless the vmodel serves the spec of the very resource it is
  written to.
* **reconcile_handover** — a Predictor and an InferenceService of one name, with outages,
  under fairness. `SpecTakesEffect`: the one that remains gets the vmodel. `OrphanRemoved`:
  the vmodel of one that is gone is removed.
* **services** — both scopes, two namespaces, a default configuration and four ConfigMaps
  (another name, TLS with another etcd secret, headless with an unusable etcd secret, other
  ports alone), an invalid one and none; two changes of configuration, label or owner, or
  one and a failed call. Two changes let the second one happen in the middle of the
  reconcile of the first and beside the handler; one and a failed call let any step of its
  reconcile fail. When the controller rests, an enabled namespace has exactly
  the Service that the configuration in use asks for (`ServicesSettled`), a client made for
  it (`ClientSettled`), a watch of its name, reading with the etcd secret in use, and the
  right monitor (`WatchSettled`); one that is not enabled has nothing left
  (`ReleasedSettled`). `WatchSettled` excepts one state by name, `SecretChangedBack` (below).
* **resolver** — three resolvers, two Services, targets by number and by name of the port,
  three builds, three changes of Endpoints, one refused state or failed read, under
  fairness. Three resolvers are what it takes for `Close` to move the last entry into the
  gap of another one with one in between. `Registered`: an open client's resolver is listed,
  once, under its name. `CurrentOrQueued`: an out-of-date client has a reconcile due.
  `EventuallyCurrent`: a client that stays open comes to know the pods that are there.
* **scaling** — one Predictor, four runtime specs (plain, autoscaled, disabled, invalid),
  grace period of two ticks, three changes by users, one failed call or restart, under
  fairness. Three changes let Predictors go, return and go again while the timer of the
  first time is pending. `SettledScale`: when the controller rests, there are pods if there
  are Predictors, none or a timer if there are none, no deployment if the runtime is off.
  `SettledConfig`: type constraints and etcd secret are there when and only when they are
  needed. `GraceKept`: pods go only when no reconcile has found Predictors for the grace
  period. `ScaledToZero`, `ScaledUpForPredictors`: they do go, and come.
* **requests** — two namespaces, a runtime that namespace and cluster may both define, a
  Predictor of each source, a storage secret, the ConfigMap; three changes of objects, one
  failed call; two states to start from. Three changes are enough for a cluster scoped
  runtime, its overriding one and the namespace, or a Predictor, to change before any
  handler runs. `DeploymentsSettled`: when the controller rests, every namespace has exactly
  the deployments its objects ask for. `PredictorsServed`: a runtime that a Predictor of any
  source can be served by is up, also after the changes that `DeploymentsSettled` excepts.
  `PlacementAgrees`: model-mesh may place a model in exactly the runtimes that are kept up
  for it. `StatusReadBack`: the two conversions of an InferenceService's status fit together.
* **deployment** — families of runtimes (no containers or several, mounts, sockets and sidecars; adapters;
  annotations at their limits) in clusters with zero to four claims, with and without
  certificates, proxy and storage entries, each reconciled twice; also runtimes with a label of
  the selector, a volume twice or a mount without a volume, which the validator lets pass.
  `Deployable`: what the validator accepts is built and taken by the API server, with
  exceptions that are listed.
  `MountsKept`: each container has its mounts and no other, where the common list has no
  room to grow. `SocketsMounted`: who is told of a socket has its directory.
  `StableDeployment`: the second reconcile builds the same pods. `AdmittedScale`: the
  annotations that the webhook admits make the autoscaler they describe.

Deadlock checking is off where the bounds let a system stop: users who have used up their
changes leave nothing to do.

The run that finds a violation:

* **bug_shared_mounts** — with two volume claims (or four to six) the list of common mounts
  has spare capacity, and the containers built from it with `append` overwrite each other's
  mounts in the shared array (`runtime.go:167`, `211`): a model server gets the mount of the
  storage secret in place of its socket (`MountsAsDeclared`).

### Observations without a run

Met while modelling, and present in the modules unless said otherwise. Most were seen as
counterexamples before the property was given its exception.

Predictor sources and process:

* `pruneDeletions` adds the 20 seconds it should subtract (`cached_predictor_source.go:215`;
  the comment at 91-92 says tombstones are kept that long). They are pruned at once, and the
  answer to an earlier `UpdateStatus` brings a deleted Predictor back.
* `offerToCache` (line 251) dereferences a missing entry when `UpdateStatus` learns of a
  deletion whose tombstone is already pruned; `panicked` becomes TRUE.
* After a refresh whose last event found room, `Watch` is called with the write lock held
  (`watchrefresh_predictor_source.go:121`), against the comment at
  `cached_predictor_source.go:86-87`.
* The overflow of the initial events is made with *length* `cap(outChan)` (line 95): that
  many blank events come first. They are harmless: no registry has a nameless Predictor.
* A tombstone that replaces a tombstone is not queued for pruning and stays.
* A changed spec in the answer to a refused update is cached without an event
  (`cached_predictor_source.go:145`), and the watch event of it is dropped; the reconcile
  that was refused is repeated, so that the change is acted on (`ChangeWillBeReconciled`).
* `processEvent` sets the timestamp of a deleted object only if it has one (line 198), so
  that a DELETE event without one is cached as live.
* The goroutine of a stream source sends the initial events with the lock held
  (`stream_predictor_source.go:74`) while the runtime reconciler's watch needs the lock to
  drain the channels: when the initial events exceed the room in them, the process blocks
  for ever, against `predictor_source.go:29`. In the real sizes (channels of 128 and 256, a
  buffer of 1024 in controller-runtime, 128 blank events) it takes about 1300 Predictors.
  `EventuallyReconciled` excepts this state (`InitialEventsStuck`) and fails without the
  exception.
* The data race of reconciles on the status of an object that `Get` hands out
  (`predictor_controller.go:111`) is outside the modules, which leave the status out.

Model-mesh and status:

* The `found` marks of the first list are never cleared (`etcdrangewatcher.go:150`; the
  comment at line 86 says they are false during the watch), nor are those of a list that
  failed, and the next sweep takes deleted keys for found. They stay mirrored while the stream
  after it lives, which may be for ever, and a later resync finds them. `NoMissedUpdate` and
  `EventuallyMirrored` except these keys (`spared`) and fail without the exception.
* A range watcher that is cancelled while it lists reports keys as deleted that are not
  (line 123).
* `transitionStatus` is `BlockedByFailedLoad` for a target that waits for a pod: the
  correction tests the raw status, which is `LOADING_FAILED` (`predictor_controller.go:469`).
* After an outage, a Predictor on standby stays `RuntimeUnhealthy`, unavailable and polled
  for ever (line 482).
* `Available` (line 523) is TRUE for a Predictor without pods, and for one that is `Pending`
  with an invalid spec; a new value of it alone does not count as a change.
* An unavailable InferenceService loses its endpoints in `UpdateStatus`; `setStatusFromVModel`
  sets them again in the next reconcile and reports a change, so that every reconcile of it
  writes its status and brings about the next, against the comment at lines 511-512. (The
  reconciler's module leaves endpoints out; `StatusReadBack` shows the loss.)

Services, clients and watches:

* A TLS secret that cannot be read while an old client is there leaves that client in use
  with the mark to reconnect cleared (`modelmesh_service.go:222`; lapse `tls`).
* A change of the etcd secret alone is not a change of an MMService's settings and reconciles
  nothing (lapse `watch`). A switch to another etcd secret cancels all watches before it
  connects, and keeps the old name if that fails: the reconcile is repeated, but if the secret
  is changed back meanwhile, the name is the remembered one, nothing is tried and all watches
  stay cancelled (`modelmesh_events.go:115`, `127`). `WatchSettled` excepts exactly this state
  (`SecretChangedBack`: no client, and no failed attempt with the secret in use since its last
  success) and fails without the exception; that every other failure is made good is checked.
* If another controller's handler loads a configuration that is changed back before the
  service reconciler's handler runs, the watch has the wrong name for good, and so has the
  ServiceMonitor if only the ports were changed, which the proof of `WatchSettled` brought to
  light (the run has such a ConfigMap since); a rename together with a disabled namespace
  leaves the watch of the old name (lapse `watch`).
* A namespace that is disabled while the configuration changes and enabled again before a
  reconcile of it runs is passed over by the handler and keeps its old settings
  (`service_controller.go:94`, `470`; lapse `config`). It takes three changes, one more than
  the run has; the proof attempt found it.
* A namespace whose terminating state no reconcile has seen keeps its MMService and its
  watch (`service_controller.go:119`; lapse `deletion`).
* The REST port is no reason to reconnect, and a client goes on to report the old REST
  endpoint. `reconcileService` compares a struct with a pointer (`reflect.DeepEqual(s.Spec,
  …)`) and always updates. `reconcileServiceMonitor` returns its `changed` inverted, without
  consequence.
* `clearDigestIfTagsDiffer` (`config.go:437`) is called where the digest is never cleared;
  `AwaitReload` and `IsReloading` have no callers.
* A resolver whose `Build` fails after its registration stays in the list
  (`grpc_resolver.go:137`); deleted Endpoints leave a client its old addresses; Endpoints
  without addresses are retried each second.

Runtimes:

* A runtime that is autoscaled and has Predictors at its first reconcile never gets a
  deployment: it is read before it is created (`servingruntime_controller.go:306`; compare
  docs/production-use/scaling.md:14,20). `ScaledUpForPredictors` is about runtimes without
  an autoscaler.
* The change or deletion of a plug-in Predictor reconciles no runtime of its old kind
  (line 662): `lapsed` "predictor" in `RuntimeRequests`; in `RuntimeScaling` the run has no
  plug-in Predictors.
* An InferenceService that is rejected ends `Find` with an answer of true
  (`inferenceservice_registry.go:343`): all runtimes of its namespace stay up, claims of
  InferenceServices behind it are not mounted, and its removal brings no request.
* A cluster scoped runtime and a namespace that change before either handler runs leave a
  deployment, or constraints, behind or missing; so does a namespace that changes between
  its read and that of the runtime (lines 94, 781; `lapsed` "runtime").
* The deployment of a cluster scoped runtime is not recreated when someone deletes it, as the
  watch looks for ServingRuntime owners; claims that come into being later, and changes of
  the controller's own etcd secret, are not noticed; a `List` that fails in a handler loses
  the event; errors other than *not found* are ignored by `modelMeshEnabled2`.
* An HPA that is to be deleted but differs from the annotations is updated
  (`hpa_reconciler.go:187`), and stays if no further event comes. Kubernetes ignores it
  while there are no replicas. An unknown autoscaler class leads to a nil dereference.
* Type constraints and etcd secret stay behind if the last runtime is deleted while the
  controller is down; `SettledConfig` excepts this.

Deployments:

* Node selector terms are ORed with the user's and widen the affinity (`runtime.go:341-387`;
  the test at `runtime_test.go:294-345` would not notice).
* Without puller, with a TCP data endpoint and a management socket, model-mesh is told of a
  socket whose directory it does not mount; `SocketsMounted` excepts this. So it is with sockets
  in two directories, which `addDomainSocketMount` refuses, but only while it adds a container:
  a runtime without containers gets by.
* With four to six claims the shared array has room for several mounts, and a container may get
  one of them twice, which the API server rejects; `Deployable` excepts this.
* The validator leaves it to the API server to refuse a label that replaces one of the
  deployment's selector, two volumes or mounts with one name, a mount of a volume that is not
  there, and a container with the name of the adapter's (`Consistent`, of which `Deployable`
  excepts the contrary). Such a runtime fails at the end of every reconcile.
* The puller is added after model-mesh was moved to the end (`modelmesh.go:167-172`).
* A missing management endpoint is dereferenced (line 250); an endpoint that is neither a
  port nor a socket counts as a socket without a volume; a claim may have the name of a
  volume; the names of built-in adapters' containers and the puller's and configured ports
  are not reserved. `Deployable` lists those that keep a runtime from being deployed.
* `getPVCs` reuses one map for all entries of the storage secret, so that entries without
  type or name take them from another, in an order that changes; `StableDeployment` is about
  complete entries.
* The webhook takes 65535 for missing replicas and admits numbers beyond an int32, which
  `createHPA` ignores; replicas are truncated to 16 bits.
* Labels of a runtime may override those that the deployment selects by; the etcd volume is
  updated in a copy; `SHUTDOWN_TIMEOUT_MS` may be overridden.

## Fairness

* The goroutine of a source, the dispatcher and the workers are weakly fair: Go schedules
  them, and remote calls return. A name in a work queue is taken strongly fairly, as the
  queue is first-in first-out.
* Informers catch up, timers fire and time passes (weakly fair).
* Kubernetes restarts an exited process, and a leader that is gone loses its lock.
* gRPC closes the resolvers of clients that are closed.
* Model-mesh completes its loads; the service reconciler connects the client.
* The range watcher: a list is not started again for ever (strong fairness of its steps).
  Nothing is assumed of its watch streams, which may end at any time or never: what holds if
  they keep ending is an implication within `EventuallyMirrored`.

Nothing is assumed of users, of failures, of pods or of the HPA. `ServiceReconciler` and
`RuntimeRequests` have no fairness: their properties are about states in which nothing is
left to do.

## Proofs

Eight modules hold theorems. All are for any value of the constants that satisfies the
assumptions named in the modules: any sets of names, namespaces, keys, clients, specs and
ConfigMaps, any numbers of changes, failed calls and restarts. The assumptions say what the
code relies on: capacities are positive, flags are Boolean, no name is taken for the blank
event, the name of a Service is not empty. Each module goes the same way: an inductive
invariant, which TLC checked first; one lemma per action that says what the action does to
the state; one that says that the invariant survives it; and the properties as
consequences.

**WatchPredictorSource_proofs.** `TypeCorrect`, `SourceStaysInSync`, `UpdatesAreNotLost`,
`CacheIsFaithful`, `WatchVersionIsMonotone`, `ChangesAreAnnounced`, `ChangesAreReconciled`,
`SourceKeepsItsPromise`. `NoLostUpdate` is not inductive. That all changes up to
`resourceVersion` are in the cache survives a move of the position only if what the
goroutine is about to take for granted is true: `ReadInv` says that all before the stream's
next event is reflected already, `ListInv` that what has been applied of a list is reflected
and the rest is still to come. Both rest on facts about data (`DataInv`): the log is
numbered, the repository, the list and pending answers are snapshots of it, the names queued
for pruning are gone as of the queued version, so that pruning forgets nothing. `SyncInv` is
`DataInv /\ PositionInv`. The central lemmas say that `Offer` keeps every reflected change
reflected (an older offer is refused, a newer one supersedes) and that appending to the log
falsifies nothing about earlier versions. `ChangeWillBeReconciled` needs `AnnounceInv`
besides: a change that an answer to `UpdateStatus` brings into the cache has no event, and
is acted on because the reconcile that it belongs to is not done. With it every step is a
step of `PredictorSource` or a stutter (`KeepsPromise`).

**ControllerProcess_proofs.** `TypeCorrect`, `ProcessInvariant`, `ProcessKeepsPromise`: the
process with a stream source implements `PredictorSource` over start-up, leader election,
restarts, status updates and deletions of either kind (the `stream` run has no deletions).
`Announced`, which is what the promise comes to in a state, is not inductive: an answer to
`UpdateStatus` changes the cache without an event. It needs that the answer of a successful
update has the spec its reconcile has read (`CallsAreObserved`), and this in turn that objects
of one version are equal, because all were committed: those in the registry, in the cache, in
the stream and in the answers that are still to be applied (`RegistryLogged`, `CacheLogged`,
`StreamLogged`, `AnswersLogged`). `QueuedAreTombstones` makes pruning invisible to `Get`,
`WritesItsEvent` says that a read never overwrites an event that is still to be written. The
overflow with its blank events, the dispatcher and its channel to the predictor reconciler
only move events along. The first lemmas reduce a step to what it does to the repository (a
commit or nothing) and to the stream, so that most of the invariant is proved once for all
actions. `RegistryFinite` is there because a new stream sends a sequence of all Predictors.

**EtcdRangeWatcher_proofs.** `MirrorInvariant`, `UpdatesAreNotMissed`, `ToldDeletesAreReal`,
`ToldNeverGoesBack`. `MirrorInv` says that what the listener was told is what is cached, a
revision that was put and not ahead of list or stream; that what list and stream have passed
is cached; what the marks mean while a list is under way; and that before the end of the first
list all that is cached is marked (`FirstMarks`), so that what it leaves is spared. The largest put of a key below
a revision exists by `Largest`, which the library's `WFMin` (well-founded minima) gives
without an induction of our own.

**KubeResolver_proofs.** `ResolverInvariant`, `ClientsStayRegistered`,
`StaleClientsAreQueued`. `Registered` and `CurrentOrQueued` are inductive together with the
types. The lemmas are about the slice operations of `Build` and `Close`: the last entry moved
into a gap leaves every other resolver in the list, once.

**ServingRuntime_proofs**, of `RuntimeScaling`. `ScalingInvariant`, `ScaleSettles`, `ConfigSettles`, `GraceIsKept`.
`ScalingInv` has four parts: copies are old only while an event is to come (`CachesInv`); a
controller at rest has written what its copies call for or has a request, an event or a
timer (`IdleInv`); the reconcile in progress holds what it read or will be repeated
(`WorkInv`); ages agree with what was seen (`TimeInv`). `ScaleSettles` has the hypothesis
`PluginPredictors = {}`, as the code follows no change of those (see above).

**ServingRuntime_proofs**, of `RuntimeDeployment`. `AdmittedScales`, `DeploymentsStable`,
`MountsAreKept`, `SocketsAreMounted`, `RuntimesDeployable`: for any runtime and cluster of
`RuntimeSet` and `ClusterSet`, so for any number of containers, mounts, claims, variables and reconciles.
* `AdmittedScales`: past the webhook a runtime is admitted, and an autoscaler is the one its
  annotations make (`ScaleInv`); the rest is arithmetic with the limits of the two integers.
* `DeploymentsStable`: whatever was read first, the claims found are those of the entries read
  (`ClaimsInv`); a set of claims has one order (`OrderedUnique`); the pod of each step is what
  the transformations make of the template and the claims (`BuildInv`), where the containers are
  added one by one (`Traced`, of which there is one: `BuiltUnique`); so all deployments that
  were applied are the same (`AppliedInv`).
* `MountsAreKept`: `KeptInv` says of each step which containers have their mounts. The container
  added last has them (`TightMounts`); those before it, of other names, are still there; every
  later transformation carries containers that are not model-mesh's own along (`Carries`),
  whether it replaces, appends or swaps others; the mounts are copied out of the array once
  (`KeptResolved`). `NamesInv` brings in the validator: no container has an internal name.
* `SocketsAreMounted` needs no such condition on the array. `FitPod` says of a pod that
  model-mesh is told of sockets of the endpoints only (`MMDirs`) and has mounted its one
  directory, and that every other container mounts what it is told of. Each transformation keeps
  it; the adapter, which comes last, finds its mount in the shared array (`SocketRoom`), as
  the containers before it only change what lies beyond the common mounts (`Room`). `GuardInv`
  keeps what `AddContainer`, `AddAdapter` and `AddPuller` have checked. `FitShows` then goes
  through the cases of two endpoints: the two exceptions that the property names are the only
  ones.
* `RuntimesDeployable`: a step that fails does so for a reason of `Excused` (`FailExcused`), and
  a runtime with none is `Ready`: valid, consistent, with claims that are distinct (`ValidInv`)
  and room for at most one mount in the shared array. Then a container's mounts are its own, the
  common ones, or these and the one that lies behind them, which may be another container's but
  is of a volume of the pod and not one of the common mounts (`SliceOK`). `Sturdy` says this
  of all containers that were added; it is kept from one to the next (`ContainerSturdy`).
  `Firm` goes on from there: names are unique and differ from those still to be added, mounts
  are distinct and of the volumes the pod has at the end (`FinalVolumes`); one lemma for each
  later transformation. `FirmAccepted` shows that the API server takes the result.

**PredictorReconciler_proofs.** `ReconcilerInvariant`, `SpecsTakeEffect`, `StatusesAreTrue`,
`UpToDateIsWrittenTrue`. `ReconcilerInv`: a name that is neither queued nor at work is done
with, the copy of the running reconcile is true or known to be old (`WorkInv`, `UpdateInv`),
the vmodel is that of the spec (`SpecInv`) and the status that of the vmodel (`StatusInv`)
unless a poll or event is due. `StatusesAreTrue` is for pods that stay (`~ Outages`): after
an outage the status may be wrong for ever, see above.

**ServiceReconciler_proofs.** `ServiceInvariant`, `ServicesAreAsConfigured`,
`ClientsAreCurrent`, `WatchesAreCurrent`, `NamespacesAreReleased`. `ServiceInv` says, for
every namespace, what holds while nothing is pending for it and the reconcile is not at it:
its Services and client are those of its MMService (`Served`, `ClientKnown`), watch and
monitor too (`WatchKept`), or nothing is left (`Released`, `Attended`). Besides, it says what
the reconcile has established at each of its phases (`WorkInv`, `DialInv`), that settings
are those in use unless the handler is to come (`SettingsInv`), and that the one etcd client
of all watches is current unless some namespace is still to be told (`StreamInv`,
`SecretInv`). `SecretInv` is about the remembered secret, whether there is a client or not;
that no attempt with it has failed since (`AttemptInv`) shows that watches without a client
at rest are those of `SecretChangedBack`. `HeldInv` is for namespace scope, where the deletion of the Deployment brings no
request and only the end of its Service does. A step of the reconcile is shown to be local to
its namespace (`Local`), so that one lemma covers all others (`LocalOthers`). The theorems are
about namespaces that no recorded lapse concerns, as the properties say; the proofs show that
the list of lapses in the module is complete.

**RuntimeRequests_proofs.** `RequestsTypeCorrect`, `RequestsInvariant`, `DeploymentsSettle`,
`PredictorsAreServed`, `PlacementsAgree`, `StatusIsReadBack`: for any objects, namespaces and
runtimes, any contents of them, and any order of changes, handlers, reconciles and failures.
The assumptions are on the shape of constants: an object has a kind, a namespace of the
cluster and the name of a runtime, a cache holds at most one version of it, and a status
never has an empty active model state, which `Get` and the default of the field see to.
That deployments fit at rest is not inductive. `IInv` says what every request that does not
fit is waiting for: it is in the queue or the handler of a pending change will ask for it, if
the caches stay as they are (`Pending`, `PluginPending`), a reconcile for it goes on with what
the namespace says now (`Reconciling`), or its deployment is an orphan and nothing is wanted
in its place. This is said apart for owner and labels (`LabelsFollowed`), for the whole
deployment (`DeploymentsFollowed`), for type constraints and secret (`ConstraintsFollowed`)
and for being up with the claims (`ServiceFollowed`), as each has other lapses: the last has
none. `OwnersKnown` makes a deployment without a runtime an orphan, `StaleWorkFollowed` gives
a reconcile that read an old namespace a successor, `RejectionsNoted` ties rejected
InferenceServices to `lapsed`. The hard step is a change of an object while others are
pending: what a pending change asks for is computed from the caches of later, so a second
change may take it back. `AskedOf` says kind by kind what it takes to be asked for, and
`StructureChange`, `AskedKept` and `PluginKept` show that a change takes a request back only
if it asks for it itself or is one of the three lapses; the list in `Lapses` is complete. For
`PlacementAgrees`, `SupportedPlaced` shows that the type of a supported Predictor is one of
the types of the constraints.

Only model-checked:

* liveness (`Convergence`, `EventuallyMirrored`, `SpecTakesEffect`, `OrphanRemoved`,
  `ScaledToZero`, `ScaledUpForPredictors`, `EventuallyCurrent`, `EventuallyReconciled`): it
  needs fairness and `ENABLED`, which the prover does not handle.

Every invariant and every action property that a passing run checks is stated by a theorem.

The library's theorems on induction have an operator for a parameter, which the provers cannot
instantiate, and the modules have no recursive operators. The two recursive functions that a
proof goes through (`SetAll`, `Capacity`) and the containers that are added one by one are
reasoned about with a smallest counterexample (`SmallestNumber`, from the library's `WFMin`).

## Not modelled

* Status contents in the source modules (see the data race above).
* Images, resource quantities, probes, annotations without effect and the text of manifests;
  a template that cannot be read, which ends the process in any environment.
* The bytes of certificates and connection strings: a secret has its parts or has not.
* A stream that its repository closes; targets of the gRPC resolver that do not parse, and
  the choice of the first of several ports that match a target (`KubeResolver` takes all).
* Steps that are one in the modules and several in the code: the loop of the ConfigMap handler
  over the namespaces (`HandlerUpdates`), the garbage collection of a ServiceMonitor with its
  Service, so that the error of a monitor that has another owner cannot arise
  (`service_controller.go:371`), the exits of `main` after the dispatchers were started
  (`SetUp`), and the reads of one half of a runtime's reconcile in `RuntimeRequests`.
* Errors that repeat the call with nothing changed or that valid input does not meet: an
  answer of model-mesh without a status (`predictor_controller.go:396`), a conflict or an endpoint that does
  not parse in `UpdateStatus` of the InferenceService registry (388-395, 415-418), where URLs
  are opaque values, a storage entry that is no JSON and a registry that cannot be searched
  (`servingruntime_controller.go:354`, `390`), and endpoints such as `port:abc`, which the
  validator refuses.
* Of an MMService's settings, the port and a configured endpoint (`modelmesh_service.go:94-98`,
  `107-114`): a change of them leads to a new client, as that of the name does, and of the
  port to a new Service spec, as that of the ports does.
* The label of the namespace in `RuntimeDeployment`; `RuntimeRequests` has it.
* `controllers/config/overlay.go`, which only its test calls; generated protobuf and deep-copy
  code; the functional tests and their client. Together with the declarations of types these
  are most of the lines that no definition is mapped to.
* Rate limits of work queues are nondeterministic delays.
* `ControllerProcess` does not end the process when `panicked` becomes TRUE: it goes on as if
  the offer had been refused. Its run has no deletions (`DeleteStamps = {}`), without which
  this cannot happen; `watch_races` has them, and stops at a panic.

------------------------- MODULE ServiceReconciler -------------------------
(***************************************************************************)
(* controllers/service_controller.go: for every namespace that is enabled  *)
(* for model-mesh, a Kubernetes Service, an MMService with a client, the   *)
(* watch of the event stream and a ServiceMonitor.  It composes            *)
(* ConfigProvider, MMService and ModelEventStream.                         *)
(*                                                                         *)
(* One worker reconciles namespaces one at a time; the handler of the      *)
(* ConfigMap runs in a goroutine of its own beside it.  Both read informer *)
(* caches.  In cluster scope the Services are owned by their Namespace, in *)
(* namespace scope by the controller's Deployment: owner is the state of   *)
(* either.  A Service is told by its headlessness and its ports.  An        *)
(* MMService is put in the map and given its settings in one step.         *)
(***************************************************************************)
EXTENDS ConfigProvider, MMService, ModelEventStream, FiniteSets

CONSTANTS
    MaxWrites,      \* bound on changes of ConfigMap and owners and failed calls together
    MaxFaults       \* bound on failed calls among them

ASSUME ServiceAssumption ==
    /\ ControllerNamespace \in Namespaces
    /\ MaxWrites \in Nat /\ MaxFaults \in Nat
    /\ \A m \in ConfigMaps \cup {NoConfigMap} :
         Merged(m).name \notin {"", "none"} /\ Merged(m).ports # "absent"

VARIABLES
    clusterScope,               \* NAMESPACE_SCOPE is not set
    owner, services, monitors,  \* the API server
    ownerCache, serviceCache,   \* the informers' copies
    stale,                      \* the copies that have a change to see
    mmServices,                 \* MMServiceMap
    queue, work,                \* the work queue, the reconcile in progress
    handler,                    \* the namespaces that the ConfigMap handler is to update
    lapses,                     \* history: what the code is known to miss, see Properties
    writes, faults

apiVars == <<owner, services, monitors>>
cacheVars == <<ownerCache, serviceCache>>
vars == <<configVars, stream, clusterScope, apiVars, cacheVars, stale, mmServices, queue, work,
          handler, lapses, writes, faults>>

Names == {Merged(m).name : m \in ConfigMaps \cup {NoConfigMap}}

NoSpec == [headless |-> FALSE, ports |-> "absent"]

NoMonitor == "none"

NoServices == [s \in Names |-> NoSpec]

ServiceSpec(s) == [headless |-> s.headless, ports |-> s.ports]

\* modelMeshEnabled, for the controller's namespace without a label as well.
Enabled(state) == state = "on"

Idle == [phase |-> "idle", ns |-> ControllerNamespace, cfg |-> Merged(NoConfigMap),
         mms |-> NoService, list |-> NoServices, svc |-> "", target |-> NoClient,
         failed |-> FALSE]

Namespaced == {ControllerNamespace}

Scope == IF clusterScope THEN Namespaces ELSE Namespaced

Init ==
    /\ ConfigInit
    /\ StreamInit
    /\ clusterScope \in BOOLEAN
    /\ owner = [n \in Namespaces |-> "on"]
    /\ services = [n \in Namespaces |-> NoServices]
    /\ monitors = [n \in Namespaces |-> NoMonitor]
    /\ ownerCache = owner /\ serviceCache = services
    /\ stale = {}
    /\ mmServices = [n \in Namespaces |-> NoService]
    /\ queue = Scope
    /\ work = Idle
    /\ handler = {}
    /\ lapses = {}
    /\ writes = 0 /\ faults = 0

-----------------------------------------------------------------------------
(* The cluster *)

Write == writes + faults < MaxWrites /\ writes' = writes + 1

ChangeConfig(m) ==
    /\ Write
    /\ SetConfigMap(m)
    /\ UNCHANGED <<stream, clusterScope, apiVars, cacheVars, stale, mmServices, queue, work,
                   handler, lapses, faults>>

\* A namespace is labelled, or terminated: "off" stands for no label as well.
Transitions == {<<"off", "on">>, <<"on", "off">>, <<"on", "terminating">>, <<"absent", "on">>}

ChangeOwner(n, state) ==
    /\ Write
    /\ n \in Scope
    /\ IF clusterScope THEN n # ControllerNamespace /\ <<owner[n], state>> \in Transitions
                       ELSE <<owner[n], state>> \in {<<"on", "absent">>, <<"absent", "on">>}
    /\ owner' = [owner EXCEPT ![n] = state]
    /\ stale' = stale \cup {<<"owner", n>>}
    /\ UNCHANGED <<configVars, stream, clusterScope, services, monitors, cacheVars,
                   mmServices, queue, work, handler, lapses, faults>>

\* A ServiceMonitor is collected with its Service.
MonitorsOf(n, left) ==
    [monitors EXCEPT ![n] = IF @ \in Names /\ left[@] = NoSpec THEN NoMonitor ELSE @]

\* The end of an owner takes what it owns with it, and a namespace everything.
Collectable(n) ==
    \/ owner[n] = "terminating"
    \/ owner[n] = "absent" /\ services[n] # NoServices

Collect(n) ==
    /\ Collectable(n)
    /\ owner' = [owner EXCEPT ![n] = "absent"]
    /\ services' = [services EXCEPT ![n] = NoServices]
    /\ monitors' = [monitors EXCEPT ![n] = NoMonitor]
    /\ stale' = stale \cup {<<"owner", n>>, <<"service", n>>}
    /\ UNCHANGED <<configVars, stream, clusterScope, cacheVars, mmServices, queue,
                   work, handler, lapses, writes, faults>>

-----------------------------------------------------------------------------
(* Events *)

\* The deletion of the controller's Deployment is filtered out.
OwnerEvent(n) ==
    /\ <<"owner", n>> \in stale
    /\ stale' = stale \ {<<"owner", n>>}
    /\ ownerCache' = [ownerCache EXCEPT ![n] = owner[n]]
    /\ queue' = IF clusterScope \/ owner[n] # "absent" THEN queue \cup {n} ELSE queue
    /\ UNCHANGED <<configVars, stream, clusterScope, apiVars, serviceCache, mmServices, work,
                   handler, lapses, writes, faults>>

ServiceEvent(n) ==
    /\ <<"service", n>> \in stale
    /\ stale' = stale \ {<<"service", n>>}
    /\ serviceCache' = [serviceCache EXCEPT ![n] = services[n]]
    /\ queue' = queue \cup {n}
    /\ UNCHANGED <<configVars, stream, clusterScope, apiVars, ownerCache, mmServices, work,
                   handler, lapses, writes, faults>>

\* The runtime reconciler's handler loads the configuration as well.
OtherHandler ==
    /\ HandleElsewhere
    /\ UNCHANGED <<stream, clusterScope, apiVars, cacheVars, stale, mmServices, queue, work,
                   handler, lapses, writes, faults>>

\* The handler loads the configuration and lists the namespaces, ...
HandlerBegins ==
    /\ handler = {}
    /\ HandleConfig
    /\ handler' = IF clusterScope THEN {n \in Namespaces : Enabled(ownerCache[n])} ELSE Namespaced
    /\ UNCHANGED <<stream, clusterScope, apiVars, cacheVars, stale, mmServices, queue, work,
                   lapses, writes, faults>>

\* MMServiceMap.GetOrCreate.
GetOrCreate(n) == IF mmServices[n] = NoService THEN NewMMService ELSE mmServices[n]

\* A slip: MMServices that are there are taken to be up to date.
HandlerCreates ==
    LET changed == {n \in handler : mmServices[n] = NoService} IN
    /\ handler # {}
    /\ handler' = {}
    /\ mmServices' = [n \in Namespaces |-> IF n \in changed THEN UpdateConfig(GetOrCreate(n), GetConfig)
                                                             ELSE mmServices[n]]
    /\ queue' = queue \cup changed
    /\ UNCHANGED <<configVars, stream, clusterScope, apiVars, cacheVars, stale, work, lapses,
                   writes, faults>>

\* ... updates their MMServices (getMMService), and asks for those that have
\* changed to be reconciled.  The etcd secret is not among their settings.
HandlerUpdates ==
    LET changed == {n \in handler : Changed(GetOrCreate(n), GetConfig)}
        passed == {n \in Namespaces \ handler :
                     mmServices[n] # NoService /\ Changed(mmServices[n], GetConfig)}
        apart == IF GetConfig.etcd = stream.secret THEN {} ELSE handler \ changed
    IN
    /\ handler # {}
    /\ handler' = {}
    /\ mmServices' = [n \in Namespaces |-> IF n \in handler THEN UpdateConfig(GetOrCreate(n), GetConfig)
                                                             ELSE mmServices[n]]
    /\ queue' = queue \cup changed
    /\ lapses' = (lapses \ ({"config"} \X Namespaces))
                   \cup ({"config"} \X passed) \cup ({"watch"} \X apart)
    /\ UNCHANGED <<configVars, stream, clusterScope, apiVars, cacheVars, stale, work, writes,
                   faults>>

-----------------------------------------------------------------------------
(* The reconcile *)

\* The namespace of the reconcile in progress.
ns == work.ns

\* What no step of the reconcile changes.
Step(phase) ==
    /\ work.phase = phase
    /\ UNCHANGED <<configVars, clusterScope, owner, cacheVars, handler, writes>>

Goto(phase) == [work EXCEPT !.phase = phase]

\* The reconcile ends; after an error, or when it asks for it, it is repeated.
Return(again) ==
    /\ work' = Idle
    /\ queue' = IF again THEN queue \cup {ns} ELSE queue

\* A call to the API server succeeds if ok, unless it fails by itself.
Succeeds(ok) == ok /\ UNCHANGED faults
Fails(ok) ==
    \/ ~ ok /\ UNCHANGED faults
    \/ faults < MaxFaults /\ writes + faults < MaxWrites /\ faults' = faults + 1

\* The MMService that the reconcile has in hand, which it may have removed from
\* the map.
Detached == work.mms # NoService
Current == IF Detached THEN work.mms ELSE mmServices[ns]

\* It becomes mms, and the reconcile goes on as w.
Becomes(mms, w) ==
    IF Detached THEN work' = [w EXCEPT !.mms = mms] /\ UNCHANGED mmServices
    ELSE work' = w /\ mmServices' = [mmServices EXCEPT ![ns] = mms]

\* The Services of the namespace are to be l.
SetServices(l) ==
    /\ services' = [services EXCEPT ![ns] = l]
    /\ monitors' = MonitorsOf(ns, l)
    /\ stale' = IF l = services[ns] THEN stale ELSE stale \cup {<<"service", ns>>}

\* The owner is gone: the deletion of a Namespace needs nothing more, that of
\* the Deployment closes the client.
OwnerNotFound(n) ==
    /\ ownerCache[n] = "absent"
    /\ mmServices' = IF clusterScope \/ mmServices[n] = NoService THEN mmServices
                     ELSE [mmServices EXCEPT ![n] = Disconnect(@)]
    /\ UNCHANGED work

NotEnabled(n) ==
    /\ clusterScope /\ ownerCache[n] \notin {"absent", "on"}
    /\ work' = [Idle EXCEPT !.phase = "remove", !.ns = n, !.list = serviceCache[n]]
    /\ UNCHANGED mmServices

\* getMMService: a new MMService takes the configuration, one that is there is
\* brought up to date by the handler alone.
GetMMService(n) ==
    /\ Enabled(ownerCache[n])
    /\ mmServices' = [mmServices EXCEPT ![n] = IF @ = NoService
                                                THEN UpdateConfig(NewMMService, GetConfig) ELSE @]
    /\ work' = [Idle EXCEPT !.phase = "service", !.ns = n, !.cfg = GetConfig]

Reconcile(n) ==
    /\ n \in queue
    /\ Step("idle")
    /\ queue' = queue \ {n}
    /\ OwnerNotFound(n) \/ NotEnabled(n) \/ GetMMService(n)
    /\ lapses' = IF clusterScope /\ ownerCache[n] = "absent"
                     /\ (mmServices[n] # NoService \/ Watched(n) # NoWatch)
                   THEN lapses \cup {<<"deletion", n>>} ELSE lapses
    /\ UNCHANGED <<stream, services, monitors, stale, faults>>

\* A Service of a namespace that is no longer enabled is deleted.
RemoveService(s) ==
    /\ Step("remove")
    /\ work.list[s] # NoSpec
    /\ \/ /\ Succeeds(services[ns][s] # NoSpec)
          /\ SetServices([services[ns] EXCEPT ![s] = NoSpec])
          /\ work' = [work EXCEPT !.list[s] = NoSpec]
          /\ UNCHANGED queue
       \/ /\ Fails(services[ns][s] # NoSpec)
          /\ Return(TRUE)
          /\ UNCHANGED <<services, monitors, stale>>
    /\ UNCHANGED <<stream, mmServices, lapses>>

\* A slip: the watch is forgotten.
RemoveQuietly ==
    /\ Step("remove")
    /\ work.list = NoServices
    /\ Return(FALSE)
    /\ mmServices' = [mmServices EXCEPT ![ns] = NoService]
    /\ UNCHANGED <<stream, services, monitors, stale, lapses, faults>>

\* Its MMService is closed and taken from the map, and reconcileService is left
\* to remove its watch.
RemoveMMService ==
    /\ Step("remove")
    /\ work.list = NoServices
    /\ IF mmServices[ns] = NoService
         THEN Return(FALSE) /\ UNCHANGED mmServices
         ELSE /\ work' = [Goto("service") EXCEPT !.mms = Disconnect(mmServices[ns])]
              /\ mmServices' = [mmServices EXCEPT ![ns] = NoService]
              /\ UNCHANGED queue
    /\ lapses' = lapses \ {<<"config", ns>>}
    /\ UNCHANGED <<stream, services, monitors, stale, faults>>

\* reconcileService has returned without an error.
ServiceDone == IF Detached THEN Return(FALSE) ELSE work' = Goto("watch") /\ UNCHANGED queue

\* reconcileService reads the namespace again, and lists the Services.
ReconcileService ==
    /\ Step("service")
    /\ IF ~ clusterScope \/ Enabled(ownerCache[ns])
         THEN /\ work' = [Goto("others") EXCEPT !.list = serviceCache[ns],
                                               !.svc = Current.settings.name,
                                               !.target = Current.settings]
              /\ UNCHANGED <<stream, queue>>
         ELSE IF ownerCache[ns] = "absent"
         THEN Return(TRUE) /\ UNCHANGED stream
         ELSE /\ stream' = RemoveWatchedService(Current.settings.name, ns)
              /\ ServiceDone
    /\ lapses' = IF stream' = stream /\ Detached /\ Watched(ns) # NoWatch
                   THEN lapses \cup {<<"watch", ns>>} ELSE lapses
    /\ UNCHANGED <<services, monitors, stale, mmServices, faults>>

\* A Service of another name is deleted, and its watch is removed.
DeleteOther(s) ==
    /\ Step("others")
    /\ s # work.target.name /\ work.list[s] # NoSpec
    /\ \/ /\ Succeeds(services[ns][s] # NoSpec)
          /\ SetServices([services[ns] EXCEPT ![s] = NoSpec])
          /\ stream' = RemoveWatchedService(s, ns)
          /\ work' = [work EXCEPT !.list[s] = NoSpec]
          /\ UNCHANGED queue
       \/ /\ Fails(services[ns][s] # NoSpec)
          /\ Return(TRUE)
          /\ UNCHANGED <<services, monitors, stale, stream>>
    /\ UNCHANGED <<mmServices, lapses>>

OthersDeleted == \A s \in Names : s # work.target.name => work.list[s] = NoSpec

Listed == work.list[work.target.name]

Stored == services[ns][work.target.name]

Target == ServiceSpec(work.target)

\* No Service of that name: the client is closed, and one is created for the
\* owner, if there is one.
CreateService ==
    LET ok == ~ Detached /\ Stored = NoSpec /\ (clusterScope => owner[ns] \in {"on", "off"})
    IN
    /\ Step("others")
    /\ OthersDeleted
    /\ Listed = NoSpec
    /\ \/ /\ Succeeds(ok)
          /\ SetServices([services[ns] EXCEPT ![work.target.name] = Target])
          /\ Becomes(Disconnect(Current), Goto("watch"))
          /\ UNCHANGED queue
       \/ /\ Fails(ok)
          /\ Return(TRUE)
          /\ mmServices' = IF Detached THEN mmServices
                           ELSE [mmServices EXCEPT ![ns] = Disconnect(@)]
          /\ UNCHANGED <<services, monitors, stale>>
    /\ UNCHANGED <<stream, lapses>>

\* The cluster IP cannot be changed: the Service is deleted to be created anew.
RecreateService ==
    /\ Step("others")
    /\ OthersDeleted
    /\ Listed # NoSpec /\ Listed.headless # Target.headless
    /\ \/ /\ Succeeds(Stored # NoSpec)
          /\ SetServices([services[ns] EXCEPT ![work.target.name] = NoSpec])
          /\ Return(~ Detached)
       \/ /\ Fails(Stored # NoSpec)
          /\ Return(TRUE)
          /\ UNCHANGED <<services, monitors, stale>>
    /\ UNCHANGED <<stream, mmServices, lapses>>

\* ConnectIfNeeded takes the settings, if a new client is needed; failed says
\* that an error is to be returned.
ConnectIfNeeded(failed) ==
    IF ConnectNeeded(Current)
      THEN /\ Becomes(TakeSettings(Current), [Goto("dial") EXCEPT !.target = Current.settings,
                                                                !.failed = failed])
           /\ UNCHANGED queue
      ELSE /\ IF failed THEN Return(TRUE) ELSE ServiceDone
           /\ UNCHANGED mmServices

\* The Service is updated, which a stale copy does not allow, and the client is
\* replaced if needed, even after an error.
UpdateService ==
    /\ Step("others")
    /\ OthersDeleted
    /\ Listed # NoSpec /\ Listed.headless = Target.headless
    /\ \/ /\ Succeeds(Stored = Listed)
          /\ SetServices([services[ns] EXCEPT ![work.target.name] = Target])
          /\ ConnectIfNeeded(FALSE)
       \/ /\ Fails(Stored = Listed)
          /\ ConnectIfNeeded(TRUE)
          /\ UNCHANGED <<services, monitors, stale>>
    /\ UNCHANGED <<stream, lapses>>

\* The secret is there, and a client is made, in place of the old one.
Dial ==
    /\ Step("dial")
    /\ Succeeds(TRUE)
    /\ IF Detached \/ work.failed
         THEN Return(work.failed) /\ mmServices' = IF Detached THEN mmServices
              ELSE [mmServices EXCEPT ![ns] = Dialled(Current, work.target)]
         ELSE Becomes(Dialled(Current, work.target), Goto("watch")) /\ UNCHANGED queue
    /\ lapses' = lapses \ {<<"tls", ns>>}
    /\ UNCHANGED <<stream, services, monitors, stale>>

\* The secret cannot be read.
TLSLookupFails ==
    /\ Step("dial")
    /\ work.target.tls # ""
    /\ Fails(TRUE)
    /\ Return(TRUE)
    /\ mmServices' = IF Detached THEN mmServices ELSE [mmServices EXCEPT ![ns] = TLSFailed(@)]
    /\ lapses' = IF Connected(Current) THEN lapses \cup {<<"tls", ns>>} ELSE lapses
    /\ UNCHANGED <<stream, services, monitors, stale>>

\* The client cannot be made: its resolver could not read the endpoints.
DialFails ==
    /\ Step("dial")
    /\ Fails(TRUE)
    /\ Return(TRUE)
    /\ mmServices' = IF Detached THEN mmServices ELSE [mmServices EXCEPT ![ns] = DialFailed(@)]
    /\ UNCHANGED <<stream, services, monitors, stale, lapses>>

\* reconcileServiceMonitor, if there is a Service: its monitor is there if
\* metrics are enabled, and is collected if the Service is gone by now.
ReconcileMonitor ==
    LET wanted == work.cfg.ports = "metrics" /\ services[ns][work.svc] # NoSpec
        after == IF wanted THEN work.svc ELSE NoMonitor
    IN
    \/ /\ work.svc = ""
       /\ Return(FALSE)
       /\ UNCHANGED <<monitors, faults>>
    \/ /\ work.svc # ""
       /\ Succeeds(TRUE)
       /\ monitors' = [monitors EXCEPT ![ns] = after]
       /\ Return(after # monitors[ns])
    \/ /\ work.svc # ""
       /\ Fails(TRUE)
       /\ Return(TRUE)
       /\ UNCHANGED monitors

\* UpdateWatchedService, with the configuration as it was at the beginning: the
\* watch is current if that is still in use and the MMService has it.
UpdateWatch ==
    LET current == work.cfg = GetConfig /\ ~ Changed(Current, work.cfg)
        lapse == IF current THEN {} ELSE {<<"watch", ns>>}
    IN
    /\ Step("watch")
    /\ \/ /\ work.cfg.etcd = stream.secret
          /\ stream' = WatchName(work.cfg.name, ns)
          /\ lapses' = (lapses \ {<<"watch", ns>>}) \cup lapse
          /\ ReconcileMonitor
       \/ /\ work.cfg.etcd # stream.secret /\ connectToEtcd(work.cfg.etcd)
          /\ stream' = Restarted(work.cfg.etcd, work.cfg.name, ns)
          /\ lapses' = (lapses \ {<<"watch", ns>>, <<"etcd", work.cfg.etcd>>}) \cup lapse
          /\ ReconcileMonitor
       \/ /\ work.cfg.etcd # stream.secret
          /\ Fails(connectToEtcd(work.cfg.etcd))
          /\ stream' = Cancelled(ns)
          /\ lapses' = lapses \cup lapse \cup {<<"etcd", work.cfg.etcd>>}
          /\ Return(TRUE)
          /\ UNCHANGED monitors
    /\ UNCHANGED <<services, stale, mmServices>>

-----------------------------------------------------------------------------
ClusterStep ==
    \/ \E m \in ConfigMaps \cup {NoConfigMap, BadConfigMap} : ChangeConfig(m)
    \/ \E n \in Namespaces, state \in {"on", "off", "terminating", "absent"} : ChangeOwner(n, state)
    \/ \E n \in Namespaces : Collect(n)

EventStep ==
    \/ \E n \in Namespaces : OwnerEvent(n) \/ ServiceEvent(n)
    \/ OtherHandler \/ HandlerBegins \/ HandlerUpdates

ReconcileStep ==
    \/ \E n \in Namespaces : Reconcile(n)
    \/ \E s \in Names : RemoveService(s) \/ DeleteOther(s)
    \/ RemoveMMService \/ ReconcileService \/ CreateService \/ RecreateService
    \/ UpdateService \/ Dial \/ TLSLookupFails \/ DialFails
    \/ UpdateWatch

Next == ClusterStep \/ EventStep \/ ReconcileStep

Spec == Init /\ [][Next]_vars

-----------------------------------------------------------------------------
(* Properties *)

Configs == {Merged(m) : m \in ConfigMaps \cup {NoConfigMap}}

AllSettings == {Settings(c) : c \in Configs}

MMServices ==
    [settings : AllSettings, reconnect : BOOLEAN, client : {NoClient} \cup AllSettings]

ServiceSets == [Names -> {NoSpec} \cup {ServiceSpec(c) : c \in Configs}]

Streams ==
    LET secrets == {""} \cup {c.etcd : c \in Configs} IN
    [secret : secrets, open : BOOLEAN,
     watches : [Namespaces -> [name : Names \cup {"", "none"}, on : secrets]]]

Works ==
    [phase : {"idle", "remove", "service", "others", "dial", "watch"}, ns : Namespaces,
     cfg : Configs, mms : MMServices \cup {NoService}, list : ServiceSets,
     svc : Names \cup {""}, target : {NoClient} \cup AllSettings, failed : BOOLEAN]

Owners == {"on", "off", "terminating", "absent"}

\* Types of the state kept by config.go, modelmesh_events.go and
\* service_controller.go: among others, no configuration that was refused is
\* ever in use, and every MMService has settings that were.
TypeOK ==
    /\ configMap \in ConfigMaps \cup {NoConfigMap, BadConfigMap}
    /\ loaded \in ConfigMaps \cup {NoConfigMap} /\ unhandled \in BOOLEAN
    /\ stream \in Streams
    /\ clusterScope \in BOOLEAN
    /\ owner \in [Namespaces -> Owners] /\ ownerCache \in [Namespaces -> Owners]
    /\ services \in [Namespaces -> ServiceSets] /\ serviceCache \in [Namespaces -> ServiceSets]
    /\ monitors \in [Namespaces -> Names \cup {NoMonitor}]
    /\ stale \subseteq {"owner", "service"} \X Scope
    /\ mmServices \in [Namespaces -> MMServices \cup {NoService}]
    /\ work \in Works /\ ns \in Scope
    /\ queue \subseteq Scope /\ handler \subseteq Scope

\* Nothing is under way.
Settled ==
    /\ ~ unhandled /\ stale = {} /\ queue = {} /\ work = Idle /\ handler = {}
    /\ \A n \in Namespaces : ~ Collectable(n)

(* What the code misses is recorded in lapses, and the properties hold of the  *)
(* namespaces it does not concern:                                             *)
(*   deletion  a Namespace was gone before a reconcile saw it terminate, and   *)
(*             its MMService and watch stay (service_controller.go:119)        *)
(*   config    the handler passed the namespace over, as it was not enabled at *)
(*             the time, and its MMService is kept as it is enabled again      *)
(*             before a reconcile saw that (service_controller.go:94, 470)     *)
(*   tls       the secret could not be read while the old client was there,    *)
(*             and nothing asks for a new one (modelmesh_service.go:222)       *)
(*   watch     the name or the etcd secret of the watch is not that of the     *)
(*             MMService, or the monitor is not for its ports: a reconcile saw *)
(*             a configuration that the handler did not (yet) see, or the      *)
(*             handler saw a change of the secret alone, or a renamed service  *)
(*             was disabled (modelmesh_events.go:149, service_controller.go:94)*)
(*   etcd      an attempt with this etcd secret has failed since the last one  *)
(*             that succeeded                                                  *)
Missed(what, n) == <<what, n>> \in lapses

\* The namespace is enabled, and nothing of an earlier life is left of it.
Serves(n) == n \in Scope /\ Enabled(owner[n])
Sound(n) == Serves(n) /\ ~ Missed("deletion", n) /\ ~ Missed("config", n)

\* An enabled namespace has exactly the one Service that the configuration in
\* use asks for, with its type and ports, whatever was created, refused,
\* renamed or deleted on the way (reconcileService, service_controller.go:233).
ServicesSettled ==
    Settled => \A n \in Namespaces : Sound(n) =>
        services[n] = [s \in Names |-> IF s = GetConfig.name THEN ServiceSpec(GetConfig)
                                                             ELSE NoSpec]

\* Its client was made for that Service and its TLS secret: no change of the
\* configuration is lost by a connection that fails, is made too early or from
\* settings that changed meanwhile (ConnectIfNeeded, modelmesh_service.go:196).
ClientSettled ==
    Settled => \A n \in Namespaces : Sound(n) =>
        /\ Connected(mmServices[n])
        /\ \/ /\ mmServices[n].client.name = GetConfig.name
              /\ mmServices[n].client.tls = GetConfig.tls
           \/ Missed("tls", n)

\* The stream has no client because an attempt with another secret has failed,
\* and none with the secret in use: that is again the one whose name the stream
\* remembers, so UpdateWatchedService sees no change and the watches stay
\* cancelled (modelmesh_events.go:115, 127).
SecretChangedBack == ~ stream.open /\ ~ Missed("etcd", GetConfig.etcd)

\* Its model events are watched under that name and with that etcd secret, in
\* every namespace, although the secret is switched by the reconcile of one
\* and the attempt may fail after all watches were cancelled
\* (UpdateWatchedService, modelmesh_events.go:99-146), unless the secret was
\* changed back after such a failure; and its ServiceMonitor is there if and only
\* if metrics are enabled, and selects the Service in use
\* (reconcileServiceMonitor, service_controller.go:338).
WatchSettled ==
    Settled /\ (\A n \in Namespaces : ~ Missed("watch", n)) =>
        \A n \in Namespaces : Sound(n) =>
            /\ Watched(n).name = GetConfig.name
            /\ Watched(n).on = GetConfig.etcd \/ SecretChangedBack
            /\ monitors[n] = IF GetConfig.ports = "metrics" THEN GetConfig.name ELSE NoMonitor

\* A namespace that is not enabled keeps no Service, no MMService and no watch;
\* without the controller's Deployment there is no client
\* (service_controller.go:128-168).
ReleasedSettled ==
    Settled => \A n \in Namespaces : ~ Serves(n) =>
        /\ services[n] = NoServices
        /\ clusterScope => \/ mmServices[n] = NoService /\ Watched(n).name \notin Names
                           \/ Missed("deletion", n) \/ Missed("watch", n)
        /\ ~ clusterScope /\ mmServices[n] # NoService => ~ Connected(mmServices[n])
-----------------------------------------------------------------------------
(* What makes the properties inductive: where a difference between what is    *)
(* there and what should be is still pending.                                 *)

\* A reconcile of the namespace is queued, or an event of it is to come.
Pending(n) == n \in queue \/ <<"owner", n>> \in stale \/ <<"service", n>> \in stale

AtWork(n) == work.phase # "idle" /\ ns = n

\* Copies are out of date only while an event is to come, and nothing is done
\* outside the controller's scope.
CopiesInv ==
    /\ \A n \in Namespaces :
         /\ <<"owner", n>> \notin stale => ownerCache[n] = owner[n]
         /\ <<"service", n>> \notin stale => serviceCache[n] = services[n]
    /\ clusterScope => owner[ControllerNamespace] = "on" /\ ownerCache[ControllerNamespace] = "on"
    /\ ~ clusterScope => \A n \in Namespaces : {owner[n], ownerCache[n]} \subseteq {"on", "absent"}
    /\ \A n \in Namespaces \ Scope : services[n] = NoServices /\ mmServices[n] = NoService

\* An MMService has the configuration in use, unless the handler is to come.
SettingsInv ==
    unhandled \/ handler # {} \/ \A n \in Namespaces :
        \/ mmServices[n] = NoService
        \/ ~ Changed(mmServices[n], GetConfig)
        \/ Missed("config", n)

\* What the reconcile in progress has read is still so, or it will be repeated.
WorkInv ==
    /\ work.phase \in {"idle", "remove", "watch"} => ~ Detached
    /\ work.phase = "remove" => clusterScope
    /\ work.phase \in {"service", "others", "dial", "watch"} /\ ~ Detached => mmServices[ns] # NoService
    /\ Detached => clusterScope /\ (mmServices[ns] = NoService \/ ~ Connected(mmServices[ns]))
    /\ work.phase \in {"others", "dial"} => work.target \in AllSettings
    /\ work.phase \in {"remove", "others"} /\ ns \notin queue /\ <<"service", ns>> \notin stale
         => work.list = services[ns]
    /\ clusterScope /\ work.phase # "idle" /\ ns \notin queue =>
         /\ ownerCache[ns] # "absent"
         /\ Enabled(ownerCache[ns]) <=> ~ (Detached \/ work.phase = "remove")
         /\ Detached => work.phase = "service"

\* The Services are those that the MMService calls for, and the client is not to
\* be replaced.
Fits(n) ==
    /\ mmServices[n] # NoService
    /\ services[n] = [s \in Names |-> IF s = mmServices[n].settings.name
                                        THEN ServiceSpec(mmServices[n].settings) ELSE NoSpec]
    /\ ~ mmServices[n].reconnect

\* An enabled namespace without anything pending has what it should have, as far
\* as the reconcile in progress has come.
Served(n) ==
    Enabled(ownerCache[n]) /\ ~ Pending(n) =>
        /\ ~ AtWork(n) => Fits(n) /\ Connected(mmServices[n])
        /\ AtWork(n) /\ work.phase = "others" =>
             work.target = mmServices[n].settings /\ work.svc = work.target.name
        /\ AtWork(n) /\ work.phase = "dial" /\ ~ work.failed =>
             Fits(n) /\ work.svc = mmServices[n].settings.name
        /\ AtWork(n) /\ work.phase = "watch" =>
             Fits(n) /\ Connected(mmServices[n]) /\ work.svc = mmServices[n].settings.name

\* A client is the one that the settings call for, or it is marked, or is being
\* replaced ...
ClientKnown(n) ==
    mmServices[n] # NoService /\ Connected(mmServices[n]) =>
        \/ mmServices[n].reconnect
        \/ ~ ClientChange(mmServices[n].client, mmServices[n].settings)
        \/ Missed("tls", n)
        \/ AtWork(n) /\ work.phase = "dial"

\* ... by the one they call for.
DialInv ==
    work.phase = "dial" /\ ~ Detached =>
        mmServices[ns].reconnect \/ ~ ClientChange(work.target, mmServices[ns].settings)

\* A watch reads with the client of the stream, if that is open.
StreamInv ==
    \A n \in Namespaces :
        /\ Watched(n).name = "none" => Watched(n) = NoWatch
        /\ Watched(n).name \in Names => Watched(n).on = IF stream.open THEN stream.secret ELSE ""

\* Watch and monitor are those of the MMService's settings.
WatchKept(n) ==
    Enabled(ownerCache[n]) /\ ~ Pending(n) /\ ~ AtWork(n) /\ ~ Missed("watch", n) =>
        /\ Watched(n).name = mmServices[n].settings.name
        /\ monitors[n] = IF mmServices[n].settings.ports = "metrics"
                           THEN mmServices[n].settings.name ELSE NoMonitor

\* The stream's client is that of the configuration in use, unless a namespace is
\* still to be told of it.
SecretInv ==
    ~ unhandled /\ (\A n \in Namespaces : ~ Missed("watch", n)) =>
        \A n \in Scope \ handler :
            Enabled(ownerCache[n]) /\ ~ Pending(n) /\ ~ AtWork(n) => stream.secret = GetConfig.etcd

\* No attempt with the secret of the last client has failed since.
AttemptInv == ~ Missed("etcd", stream.secret)

\* A namespace that is not enabled has nothing left, as far as the reconcile in
\* progress has come.
Released(n) ==
    clusterScope /\ ~ Pending(n) =>
        /\ ownerCache[n] \in {"off", "terminating"} /\ (AtWork(n) => work.phase = "service")
             => services[n] = NoServices /\ mmServices[n] = NoService
        /\ ownerCache[n] = "absent" =>
             \/ mmServices[n] = NoService /\ Watched(n).name \notin Names
             \/ Missed("deletion", n)

\* A watch has an MMService, which the reconcile may have in hand.
Attended(n) ==
    mmServices[n] = NoService =>
        \/ Watched(n).name \notin Names
        \/ Missed("watch", n)
        \/ AtWork(n) /\ Detached /\ work.phase = "service"

\* In namespace scope a client has a Service, whose end will close it.
Held ==
    \/ services[ControllerNamespace] # NoServices
    \/ ControllerNamespace \in queue \/ <<"service", ControllerNamespace>> \in stale

HeldInv ==
    ~ clusterScope /\ mmServices[ControllerNamespace] # NoService =>
        /\ Connected(mmServices[ControllerNamespace]) /\ work.phase \notin {"service", "others"} => Held
        /\ work.phase = "dial" /\ ~ work.failed => Held

ServiceInv ==
    /\ CopiesInv /\ SettingsInv /\ WorkInv /\ DialInv /\ StreamInv /\ SecretInv /\ HeldInv
    /\ \A n \in Scope : Served(n) /\ WatchKept(n)
    /\ \A n \in Namespaces : ClientKnown(n) /\ Released(n) /\ Attended(n)
=============================================================================

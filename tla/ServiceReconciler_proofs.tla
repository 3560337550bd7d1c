---------------------- MODULE ServiceReconciler_proofs ----------------------
(***************************************************************************)
(* Proofs about ServiceReconciler, for any namespaces, ConfigMaps, etcd    *)
(* secrets and numbers of changes and failed calls.                        *)
(***************************************************************************)
EXTENDS ServiceReconciler, TLAPS

-----------------------------------------------------------------------------
(* Values *)

\* No Service has a name that stands for none, and no configuration asks for
\* none.
LEMMA Values ==
    /\ "" \notin Names /\ "none" \notin Names
    /\ \A c \in Configs : /\ c.name \in Names /\ Settings(c) \in AllSettings
                          /\ Settings(c).name = c.name /\ Settings(c).ports = c.ports
                          /\ Settings(c).tls = c.tls
                          /\ ServiceSpec(Settings(c)) = ServiceSpec(c)
    /\ \A s \in AllSettings : /\ s.name \in Names /\ s # NoClient /\ ServiceSpec(s) # NoSpec
                              /\ ServiceSpec(s) \in {ServiceSpec(c) : c \in Configs}
    /\ NoService \notin MMServices
    /\ NoServices \in ServiceSets
<1>1. "" \notin Names /\ "none" \notin Names
  BY ServiceAssumption DEF Names
<1>2. \A c \in Configs : /\ c.name \in Names /\ Settings(c) \in AllSettings
                         /\ Settings(c).name = c.name /\ Settings(c).ports = c.ports
                         /\ Settings(c).tls = c.tls /\ Settings(c).headless = c.headless
                         /\ c.ports # "absent"
  BY ServiceAssumption DEF Configs, Names, AllSettings, Settings
<1>3. \A c \in Configs : ServiceSpec(Settings(c)) = ServiceSpec(c) /\ ServiceSpec(c) # NoSpec
  BY <1>2 DEF ServiceSpec, NoSpec
<1>4. \A s \in AllSettings : /\ s.name \in Names /\ ServiceSpec(s) # NoSpec
                             /\ ServiceSpec(s) \in {ServiceSpec(c) : c \in Configs}
  BY <1>2, <1>3 DEF AllSettings
<1>5. \A s \in AllSettings : s # NoClient
  <2>1. NoClient.name = "none"
    BY DEF NoClient
  <2>2. QED BY <1>1, <1>4, <2>1
<1>6. NoService \notin MMServices
  BY DEF NoService, MMServices
<1>7. NoServices \in ServiceSets
  BY DEF NoServices, ServiceSets
<1>8. QED BY <1>1, <1>2, <1>3, <1>4, <1>5, <1>6, <1>7

\* What the operations on an MMService leave alone.
LEMMA Operations ==
    ASSUME NEW mms \in MMServices
    PROVE  /\ mms.settings \in AllSettings /\ mms.reconnect \in BOOLEAN
           /\ Disconnect(mms) \in MMServices /\ Disconnect(mms).settings = mms.settings
           /\ Disconnect(mms).reconnect = mms.reconnect /\ ~ Connected(Disconnect(mms))
           /\ TakeSettings(mms) \in MMServices /\ TakeSettings(mms).settings = mms.settings
           /\ ~ TakeSettings(mms).reconnect /\ TakeSettings(mms).client = mms.client
           /\ DialFailed(mms) \in MMServices /\ DialFailed(mms).settings = mms.settings
           /\ DialFailed(mms).reconnect /\ DialFailed(mms).client = mms.client
           /\ \A s \in AllSettings :
                /\ Dialled(mms, s) \in MMServices /\ Dialled(mms, s).settings = mms.settings
                /\ Dialled(mms, s).reconnect = mms.reconnect /\ Dialled(mms, s).client = s
  BY DEF MMServices, Disconnect, TakeSettings, DialFailed, Dialled, Connected

\* UpdateConfig sets the settings and the mark, and leaves the client alone; a
\* new MMService has settings that no configuration has.
LEMMA Updates ==
    ASSUME NEW c \in Configs
    PROVE  /\ \A mms \in MMServices :
                /\ UpdateConfig(mms, c) \in MMServices
                /\ UpdateConfig(mms, c).settings = Settings(c)
                /\ UpdateConfig(mms, c).client = mms.client
                /\ UpdateConfig(mms, c).reconnect
                     = (mms.reconnect \/ ClientChange(mms.settings, Settings(c)))
           /\ UpdateConfig(NewMMService, c) \in MMServices
           /\ UpdateConfig(NewMMService, c).settings = Settings(c)
           /\ ~ Connected(UpdateConfig(NewMMService, c))
           /\ Changed(NewMMService, c)
<1>1. Settings(c) \in AllSettings /\ Settings(c).name # ""
  BY Values
<1>2. \A mms \in MMServices :
                /\ UpdateConfig(mms, c) \in MMServices
                /\ UpdateConfig(mms, c).settings = Settings(c)
                /\ UpdateConfig(mms, c).client = mms.client
                /\ UpdateConfig(mms, c).reconnect
                     = (mms.reconnect \/ ClientChange(mms.settings, Settings(c)))
  BY <1>1 DEF MMServices, UpdateConfig, ClientChange
<1>3. /\ UpdateConfig(NewMMService, c) \in MMServices
      /\ UpdateConfig(NewMMService, c).settings = Settings(c)
      /\ ~ Connected(UpdateConfig(NewMMService, c))
  BY <1>1 DEF MMServices, UpdateConfig, ClientChange, NewMMService, Connected
<1>4. Changed(NewMMService, c)
  <2>1. NewMMService.settings.name = ""
    BY DEF NewMMService
  <2>2. QED BY <1>1, <2>1 DEF Changed
<1>5. QED BY <1>2, <1>3, <1>4

\* The reconcile that is not there.
LEMMA IdleWork ==
    /\ Idle \in Works /\ Idle.phase = "idle" /\ Idle.mms = NoService
    /\ Idle.ns = ControllerNamespace /\ ControllerNamespace \in Scope
  BY Values, ServiceAssumption DEF Idle, Works, Scope, Namespaced, Configs

\* The configuration in use.
LEMMA InUse == ASSUME TypeOK PROVE GetConfig \in Configs
  BY DEF TypeOK, GetConfig, Configs

-----------------------------------------------------------------------------
(* Steps of a reconcile *)

(* A step of the reconcile of n changes nothing of other namespaces, and what  *)
(* is pending stays so.                                                        *)

\* A change of the Services is told.
ServicesPart(n) ==
    /\ services' \in [Namespaces -> ServiceSets]
    /\ monitors' \in [Namespaces -> Names \cup {NoMonitor}]
    /\ \A m \in Namespaces \ {n} : services'[m] = services[m] /\ monitors'[m] = monitors[m]
    /\ stale' \subseteq {"owner", "service"} \X Scope
    /\ \A m \in Namespaces \ {n} : \A what : <<what, m>> \in stale' <=> <<what, m>> \in stale
    /\ <<"owner", n>> \in stale' <=> <<"owner", n>> \in stale
    /\ <<"service", n>> \in stale => <<"service", n>> \in stale'
    /\ services'[n] # services[n] => <<"service", n>> \in stale'

\* An MMService may go, or keeps its settings.
MMPart(n) ==
    /\ mmServices' \in [Namespaces -> MMServices \cup {NoService}]
    /\ \A m \in Namespaces \ {n} : mmServices'[m] = mmServices[m]
    /\ \/ mmServices'[n] = NoService
       \/ mmServices[n] # NoService /\ mmServices'[n].settings = mmServices[n].settings

QueuePart(n) == queue' = queue \/ queue' = queue \cup {n}

LapsePart(n) ==
    /\ \A m \in Namespaces \ {n} : \A what \in {"deletion", "config", "tls", "watch"} :
         <<what, m>> \in lapses' <=> <<what, m>> \in lapses
    /\ <<"config", n>> \in lapses => <<"config", n>> \in lapses' \/ mmServices'[n] = NoService
    /\ <<"deletion", n>> \in lapses => <<"deletion", n>> \in lapses'

StreamPart(n) ==
    /\ stream' \in Streams
    /\ \A m \in Namespaces \ {n} : stream'.watches[m].name = stream.watches[m].name

WorkPart(n) ==
    /\ work' \in Works
    /\ work' = Idle \/ (work'.phase # "idle" /\ work'.ns = n)

Local(n) ==
    /\ AtWork(n) /\ n \in Scope
    /\ UNCHANGED <<configVars, clusterScope, owner, cacheVars, handler>>
    /\ ServicesPart(n) /\ MMPart(n) /\ QueuePart(n) /\ LapsePart(n) /\ StreamPart(n) /\ WorkPart(n)

\* It ends, to be repeated.
Requeued(n) == work' = Idle /\ n \in queue'

\* The Services of the namespace at hand are set.
LEMMA SetServicesEffect ==
    ASSUME TypeOK, NEW l \in ServiceSets, SetServices(l), NEW n, n = ns
    PROVE  ServicesPart(n) /\ services'[n] = l
<1>1. n \in Scope /\ Scope \subseteq Namespaces /\ n \in Namespaces
  BY ServiceAssumption DEF TypeOK, Scope, Namespaced
<1>2. /\ services' \in [Namespaces -> ServiceSets] /\ services'[n] = l
      /\ \A m \in Namespaces \ {n} : services'[m] = services[m]
  BY <1>1 DEF SetServices, TypeOK
<1>3. /\ monitors' \in [Namespaces -> Names \cup {NoMonitor}]
      /\ \A m \in Namespaces \ {n} : monitors'[m] = monitors[m]
  <2> DEFINE v == IF monitors[n] \in Names /\ l[monitors[n]] = NoSpec THEN NoMonitor ELSE monitors[n]
  <2>1. monitors' = [monitors EXCEPT ![n] = v]
    BY <1>1 DEF SetServices, MonitorsOf, TypeOK
  <2>2. v \in Names \cup {NoMonitor}
    BY <1>1 DEF TypeOK
  <2> HIDE DEF v
  <2>3. QED BY <1>1, <2>1, <2>2 DEF TypeOK
<1>4. stale' = IF l = services[n] THEN stale ELSE stale \cup {<<"service", n>>}
  BY DEF SetServices
<1>5. stale' \subseteq {"owner", "service"} \X Scope
  BY <1>1, <1>4 DEF TypeOK
<1>6. \A m \in Namespaces \ {n} : \A what : <<what, m>> \in stale' <=> <<what, m>> \in stale
  BY <1>4
<1>7. <<"owner", n>> \in stale' <=> <<"owner", n>> \in stale
  BY <1>4
<1>8. <<"service", n>> \in stale => <<"service", n>> \in stale'
  BY <1>4
<1>9. services'[n] # services[n] => <<"service", n>> \in stale'
  BY <1>2, <1>4
<1>10. QED BY <1>2, <1>3, <1>5, <1>6, <1>7, <1>8, <1>9 DEF ServicesPart

\* The parts that a step leaves alone.
LEMMA Untouched ==
    ASSUME TypeOK, NEW n \in Namespaces
    PROVE  /\ UNCHANGED <<services, monitors, stale>> => ServicesPart(n)
           /\ UNCHANGED mmServices => MMPart(n)
           /\ UNCHANGED lapses => LapsePart(n)
           /\ UNCHANGED stream => StreamPart(n)
           /\ work' = Idle => WorkPart(n)
<1>1. UNCHANGED <<services, monitors, stale>> => ServicesPart(n)
  BY DEF TypeOK, ServicesPart
<1>2. UNCHANGED mmServices => MMPart(n)
  BY DEF TypeOK, MMPart
<1>3. UNCHANGED lapses => LapsePart(n)
  BY DEF LapsePart
<1>4. UNCHANGED stream => StreamPart(n)
  BY DEF TypeOK, StreamPart
<1>5. work' = Idle => WorkPart(n)
  BY IdleWork DEF WorkPart
<1>6. QED BY <1>1, <1>2, <1>3, <1>4, <1>5

\* A lapse of the namespace at hand comes, or goes unless it is one that stays.
LEMMA LapseEffect ==
    ASSUME NEW n \in Namespaces, NEW what,
           \/ lapses' = lapses \cup {<<what, n>>}
           \/ lapses' = lapses \ {<<what, n>>} /\ what \notin {"config", "deletion"}
    PROVE  LapsePart(n)
  BY DEF LapsePart

\* The MMService at hand is replaced by one with its settings.
LEMMA MMEffect ==
    ASSUME TypeOK, NEW n \in Namespaces, NEW mms \in MMServices, mmServices[n] # NoService,
           mms.settings = mmServices[n].settings, mmServices' = [mmServices EXCEPT ![n] = mms]
    PROVE  MMPart(n) /\ mmServices'[n] = mms
  BY DEF TypeOK, MMPart

\* One Service of a set is replaced.
LEMMA ReplacedService ==
    ASSUME NEW l \in ServiceSets, NEW s \in Names,
           NEW v \in {NoSpec} \cup {ServiceSpec(c) : c \in Configs}
    PROVE  /\ [l EXCEPT ![s] = v] \in ServiceSets
           /\ [l EXCEPT ![s] = v][s] = v
           /\ \A t \in Names \ {s} : [l EXCEPT ![s] = v][t] = l[t]
  BY DEF ServiceSets

\* The reconcile at hand, and its fields.
LEMMA WorkType ==
    ASSUME TypeOK, NEW n, n = ns
    PROVE  /\ n \in Scope /\ n \in Namespaces /\ work.ns = n
           /\ work.list \in ServiceSets /\ services[n] \in ServiceSets
           /\ serviceCache[n] \in ServiceSets /\ work.failed \in BOOLEAN
           /\ work.mms \in MMServices \cup {NoService} /\ mmServices[n] \in MMServices \cup {NoService}
           /\ work.cfg \in Configs
           /\ \A p \in {"idle", "remove", "service", "others", "dial", "watch"} :
                Goto(p) \in Works /\ Goto(p).phase = p /\ Goto(p).mms = work.mms
                  /\ Goto(p).ns = n /\ Goto(p).svc = work.svc /\ Goto(p).list = work.list
                  /\ Goto(p).target = work.target /\ Goto(p).failed = work.failed
                  /\ Goto(p).cfg = work.cfg
<1>1. n \in Scope /\ n \in Namespaces /\ work.ns = n
  BY ServiceAssumption DEF TypeOK, Scope, Namespaced, ns
<1>2. QED BY <1>1 DEF TypeOK, Works, Goto

\* A step that has the parts is local.
LEMMA StepIsLocal ==
    ASSUME TypeOK, NEW n, n = ns, NEW p, Step(p), p # "idle",
           ServicesPart(n), MMPart(n), QueuePart(n), LapsePart(n), StreamPart(n), WorkPart(n)
    PROVE  Local(n)
  BY WorkType DEF Step, Local, AtWork

\* The end of a reconcile.
LEMMA ReturnEffect ==
    ASSUME NEW n, n = ns, NEW again \in BOOLEAN, Return(again)
    PROVE  /\ work' = Idle /\ QueuePart(n)
           /\ again => Requeued(n)
           /\ ~ again => queue' = queue
  BY DEF Return, QueuePart, Requeued

\* A Service is removed, which will be told, or it is tried again.
LEMMA RemoveServiceStep ==
    ASSUME TypeOK, WorkInv, NEW s \in Names, RemoveService(s), NEW n, n = ns
    PROVE  /\ Local(n) /\ work.phase = "remove"
           /\ UNCHANGED <<stream, mmServices, lapses>>
           /\ \/ Requeued(n)
              \/ /\ <<"service", n>> \in stale' /\ queue' = queue
                 /\ work'.phase = "remove" /\ work'.mms = work.mms /\ work'.target = work.target
<1>1. /\ n \in Scope /\ n \in Namespaces /\ services[n] \in ServiceSets /\ work.list \in ServiceSets
      /\ work.ns = n
  BY WorkType
<1>2. Step("remove") /\ UNCHANGED <<stream, mmServices, lapses>> /\ work.phase = "remove"
  BY DEF RemoveService, Step
<1>3. MMPart(n) /\ LapsePart(n) /\ StreamPart(n)
  BY <1>1, <1>2, Untouched
<1>4. CASE /\ Succeeds(services[ns][s] # NoSpec)
           /\ SetServices([services[ns] EXCEPT ![s] = NoSpec])
           /\ work' = [work EXCEPT !.list[s] = NoSpec]
           /\ UNCHANGED queue
  <2> DEFINE l == [services[n] EXCEPT ![s] = NoSpec]
             w == [work.list EXCEPT ![s] = NoSpec]
  <2>1. l \in ServiceSets /\ l # services[n] /\ w \in ServiceSets
    <3>1. l \in ServiceSets /\ l[s] = NoSpec /\ w \in ServiceSets
      BY <1>1, ReplacedService
    <3>2. services[n][s] # NoSpec
      BY <1>4 DEF Succeeds
    <3>3. QED BY <3>1, <3>2
  <2>2. SetServices(l) /\ work' = [work EXCEPT !.list = w]
    BY <1>4 DEF TypeOK, Works
  <2> HIDE DEF l, w
  <2>3. ServicesPart(n) /\ services'[n] = l
    BY <2>1, <2>2, SetServicesEffect
  <2>4. <<"service", n>> \in stale'
    BY <2>1, <2>3 DEF ServicesPart
  <2>5. /\ work' \in Works /\ work'.phase = work.phase /\ work'.ns = n
        /\ work'.mms = work.mms /\ work'.target = work.target
    BY <1>1, <2>1, <2>2 DEF TypeOK, Works
  <2>6. WorkPart(n) /\ QueuePart(n)
    BY <1>2, <1>4, <2>5 DEF WorkPart, QueuePart
  <2>7. QED BY <1>2, <1>3, <1>4, <2>3, <2>4, <2>5, <2>6, StepIsLocal
<1>5. CASE /\ Fails(services[ns][s] # NoSpec)
           /\ Return(TRUE)
           /\ UNCHANGED <<services, monitors, stale>>
  BY <1>1, <1>2, <1>3, <1>5, ReturnEffect, Untouched, StepIsLocal
<1>6. QED BY <1>4, <1>5 DEF RemoveService

\* A watch is removed, or stays.
StreamKept(n) ==
    /\ stream'.secret = stream.secret /\ stream'.open = stream.open
    /\ \A m \in Namespaces \ {n} : stream'.watches[m] = stream.watches[m]
    /\ stream'.watches[n] \in {stream.watches[n], NoWatch}

LEMMA RemoveWatchedEffect ==
    ASSUME TypeOK, NEW n \in Namespaces, NEW name,
           stream' = RemoveWatchedService(name, n) \/ stream' = stream
    PROVE  /\ StreamPart(n) /\ StreamKept(n)
           /\ stream' # stream => stream'.watches[n] = NoWatch
<1>1. CASE stream' = stream
  BY <1>1, Untouched DEF StreamKept
<1>2. CASE stream' # stream
  <2> DEFINE w == [stream.watches EXCEPT ![n] = NoWatch]
  <2>1. stream' = [stream EXCEPT !.watches = w]
    BY <1>2 DEF RemoveWatchedService, TypeOK, Streams
  <2>2. w \in [Namespaces -> [name : Names \cup {"", "none"}, on : {""} \cup {c.etcd : c \in Configs}]]
    BY DEF TypeOK, Streams, NoWatch
  <2>3. w[n] = NoWatch /\ \A m \in Namespaces \ {n} : w[m] = stream.watches[m]
    BY DEF TypeOK, Streams
  <2> HIDE DEF w
  <2>4. stream' \in Streams /\ stream'.watches = w
        /\ stream'.secret = stream.secret /\ stream'.open = stream.open
    BY <2>1, <2>2 DEF TypeOK, Streams
  <2>5. QED BY <2>3, <2>4 DEF StreamPart, StreamKept
<1>3. QED BY <1>1, <1>2

\* The MMService is taken from the map.
LEMMA RemoveMMServiceStep ==
    ASSUME TypeOK, WorkInv, RemoveMMService, NEW n, n = ns
    PROVE  /\ Local(n) /\ work.phase = "remove" /\ work.list = NoServices
           /\ UNCHANGED <<stream, services, monitors, stale, queue>>
           /\ mmServices'[n] = NoService
           /\ \A what : what # "config" => (<<what, n>> \in lapses' <=> <<what, n>> \in lapses)
           /\ \/ work' = Idle /\ mmServices[n] = NoService
              \/ work'.phase = "service" /\ work'.mms \in MMServices
<1>1. n \in Namespaces /\ mmServices[n] \in MMServices \cup {NoService}
  BY WorkType
<1>2. /\ Step("remove") /\ UNCHANGED <<stream, services, monitors, stale, queue>>
      /\ work.phase = "remove" /\ work.list = NoServices
  BY DEF RemoveMMService, Step, Return
<1>3. mmServices' = [mmServices EXCEPT ![n] = NoService]
  BY <1>1 DEF RemoveMMService, TypeOK
<1>4. MMPart(n) /\ mmServices'[n] = NoService
  BY <1>1, <1>3 DEF MMPart, TypeOK
<1>5. lapses' = lapses \ {<<"config", n>>}
  BY DEF RemoveMMService
<1>6. LapsePart(n) /\ \A what : what # "config" => (<<what, n>> \in lapses' <=> <<what, n>> \in lapses)
  BY <1>4, <1>5 DEF LapsePart
<1>7. ServicesPart(n) /\ StreamPart(n) /\ QueuePart(n)
  BY <1>1, <1>2, Untouched DEF QueuePart
<1>8. WorkPart(n) /\ ((work' = Idle /\ mmServices[n] = NoService) \/ (work'.phase = "service" /\ work'.mms \in MMServices))
  <2>1. CASE mmServices[n] = NoService
    BY <1>1, <2>1, Untouched DEF RemoveMMService, Return
  <2>2. CASE mmServices[n] # NoService
    <3> DEFINE d == Disconnect(mmServices[n])
    <3>1. d \in MMServices
      BY <1>1, <2>2, Operations
    <3>2. work' = [Goto("service") EXCEPT !.mms = d]
      BY <2>2 DEF RemoveMMService
    <3> HIDE DEF d
    <3>3. Goto("service") \in Works /\ Goto("service").phase = "service" /\ Goto("service").ns = n
      BY WorkType
    <3>4. QED BY <3>1, <3>2, <3>3 DEF Works, WorkPart
  <2>3. QED BY <2>1, <2>2
<1>9. QED BY <1>2, <1>4, <1>6, <1>7, <1>8, StepIsLocal

\* The MMService at hand.
LEMMA CurrentService ==
    ASSUME TypeOK, WorkInv, NEW n, n = ns, work.phase \in {"service", "others", "dial", "watch"}
    PROVE  /\ Current \in MMServices
           /\ ~ Detached => Current = mmServices[n] /\ mmServices[n] \in MMServices /\ work.mms = NoService
           /\ Detached => Current = work.mms /\ work.mms \in MMServices
  BY WorkType DEF Current, Detached, WorkInv

\* The namespace is read again.
LEMMA ReconcileServiceStep ==
    ASSUME TypeOK, WorkInv, ReconcileService, NEW n, n = ns
    PROVE  /\ Local(n) /\ work.phase = "service" /\ StreamKept(n)
           /\ UNCHANGED <<services, monitors, stale, mmServices>>
           /\ \A what : what # "watch" => (<<what, n>> \in lapses' <=> <<what, n>> \in lapses)
           /\ <<"watch", n>> \in lapses => <<"watch", n>> \in lapses'
           /\ Detached => stream'.watches[n] = NoWatch \/ <<"watch", n>> \in lapses'
           /\ \/ Requeued(n)
              \/ /\ ~ clusterScope \/ Enabled(ownerCache[n])
                 /\ queue' = queue /\ work'.phase = "others" /\ work'.mms = work.mms
                 /\ work'.list = serviceCache[n] /\ work'.target = Current.settings
                 /\ work'.svc = Current.settings.name
              \/ /\ clusterScope /\ ownerCache[n] \notin {"on", "absent"} /\ queue' = queue
                 /\ IF Detached THEN work' = Idle ELSE work'.phase = "watch" /\ work'.mms = work.mms
<1>1. n \in Namespaces /\ serviceCache[n] \in ServiceSets
  BY WorkType
<1>2. /\ Step("service") /\ UNCHANGED <<services, monitors, stale, mmServices>>
      /\ work.phase = "service"
  BY DEF ReconcileService, Step
<1>3. ServicesPart(n) /\ MMPart(n)
  BY <1>1, <1>2, Untouched
<1>4. Current \in MMServices /\ Current.settings \in AllSettings /\ Current.settings.name \in Names
  BY <1>2, CurrentService, Operations, Values
<1>5. stream' = RemoveWatchedService(Current.settings.name, n) \/ stream' = stream
  BY DEF ReconcileService
<1>6. /\ StreamPart(n) /\ StreamKept(n)
      /\ stream' # stream => stream'.watches[n] = NoWatch
  BY <1>1, <1>5, RemoveWatchedEffect
<1>7. lapses' = IF stream' = stream /\ Detached /\ Watched(n) # NoWatch
                  THEN lapses \cup {<<"watch", n>>} ELSE lapses
  BY DEF ReconcileService
<1>8. /\ LapsePart(n)
      /\ \A what : what # "watch" => (<<what, n>> \in lapses' <=> <<what, n>> \in lapses)
      /\ <<"watch", n>> \in lapses => <<"watch", n>> \in lapses'
  BY <1>7 DEF LapsePart
<1>9. Detached => stream'.watches[n] = NoWatch \/ <<"watch", n>> \in lapses'
  BY <1>6, <1>7 DEF Watched
<1>10. \A p \in {"others", "watch"} :
          Goto(p) \in Works /\ Goto(p).phase = p /\ Goto(p).ns = n /\ Goto(p).mms = work.mms
  BY WorkType
<1>11. CASE ~ clusterScope \/ Enabled(ownerCache[n])
  <2> DEFINE l == serviceCache[n]  t == Current.settings
  <2>1. /\ work' = [Goto("others") EXCEPT !.list = l, !.svc = t.name, !.target = t]
        /\ UNCHANGED <<stream, queue>>
    BY <1>11 DEF ReconcileService
  <2>2. l \in ServiceSets /\ t \in AllSettings /\ t.name \in Names
    BY <1>1, <1>4
  <2> HIDE DEF l, t
  <2>3. /\ work' \in Works /\ work'.phase = "others" /\ work'.ns = n /\ work'.mms = work.mms
        /\ work'.list = l /\ work'.target = t /\ work'.svc = t.name
    BY <1>10, <2>1, <2>2 DEF Works
  <2>4. WorkPart(n) /\ QueuePart(n)
    BY <2>1, <2>3 DEF WorkPart, QueuePart
  <2>5. QED BY <1>2, <1>3, <1>6, <1>8, <1>9, <1>11, <2>1, <2>3, <2>4, StepIsLocal DEF l, t
<1>12. CASE ~ (~ clusterScope \/ Enabled(ownerCache[n])) /\ ownerCache[n] = "absent"
  <2>1. Return(TRUE)
    BY <1>12 DEF ReconcileService
  <2>2. Requeued(n) /\ work' = Idle /\ QueuePart(n)
    BY <2>1, ReturnEffect
  <2>3. QED BY <1>1, <1>2, <1>3, <1>6, <1>8, <1>9, <2>2, Untouched, StepIsLocal
<1>13. CASE ~ (~ clusterScope \/ Enabled(ownerCache[n])) /\ ownerCache[n] # "absent"
  <2>1. ServiceDone
    BY <1>13 DEF ReconcileService
  <2>2. /\ queue' = queue
        /\ IF Detached THEN work' = Idle ELSE work' = Goto("watch")
    BY <2>1 DEF ServiceDone, Return
  <2>3. WorkPart(n) /\ QueuePart(n)
    BY <1>1, <1>10, <2>2, Untouched DEF WorkPart, QueuePart
  <2>4. QED BY <1>2, <1>3, <1>6, <1>8, <1>9, <1>10, <1>13, <2>2, <2>3, StepIsLocal DEF Enabled
<1>14. QED BY <1>11, <1>12, <1>13

\* A Service of another name is deleted, which will be told.
LEMMA DeleteOtherStep ==
    ASSUME TypeOK, WorkInv, NEW s \in Names, DeleteOther(s), NEW n, n = ns
    PROVE  /\ Local(n) /\ work.phase = "others" /\ StreamKept(n)
           /\ UNCHANGED <<mmServices, lapses>>
           /\ \/ Requeued(n)
              \/ /\ <<"service", n>> \in stale' /\ queue' = queue
                 /\ work'.phase = "others" /\ work'.mms = work.mms /\ work'.target = work.target
<1>1. /\ n \in Scope /\ n \in Namespaces /\ services[n] \in ServiceSets /\ work.list \in ServiceSets
      /\ work.ns = n
  BY WorkType
<1>2. Step("others") /\ UNCHANGED <<mmServices, lapses>> /\ work.phase = "others"
  BY DEF DeleteOther, Step
<1>3. MMPart(n) /\ LapsePart(n)
  BY <1>1, <1>2, Untouched
<1>4. stream' = RemoveWatchedService(s, n) \/ stream' = stream
  BY DEF DeleteOther
<1>5. StreamPart(n) /\ StreamKept(n)
  BY <1>1, <1>4, RemoveWatchedEffect
<1>6. CASE /\ Succeeds(services[ns][s] # NoSpec)
           /\ SetServices([services[ns] EXCEPT ![s] = NoSpec])
           /\ work' = [work EXCEPT !.list[s] = NoSpec]
           /\ UNCHANGED queue
  <2> DEFINE l == [services[n] EXCEPT ![s] = NoSpec]
             w == [work.list EXCEPT ![s] = NoSpec]
  <2>1. l \in ServiceSets /\ l # services[n] /\ w \in ServiceSets
    <3>1. l \in ServiceSets /\ l[s] = NoSpec /\ w \in ServiceSets
      BY <1>1, ReplacedService
    <3>2. services[n][s] # NoSpec
      BY <1>6 DEF Succeeds
    <3>3. QED BY <3>1, <3>2
  <2>2. SetServices(l) /\ work' = [work EXCEPT !.list = w]
    BY <1>6 DEF TypeOK, Works
  <2> HIDE DEF l, w
  <2>3. ServicesPart(n) /\ services'[n] = l
    BY <2>1, <2>2, SetServicesEffect
  <2>4. <<"service", n>> \in stale'
    BY <2>1, <2>3 DEF ServicesPart
  <2>5. /\ work' \in Works /\ work'.phase = work.phase /\ work'.ns = n
        /\ work'.mms = work.mms /\ work'.target = work.target
    BY <1>1, <2>1, <2>2 DEF TypeOK, Works
  <2>6. WorkPart(n) /\ QueuePart(n)
    BY <1>2, <1>6, <2>5 DEF WorkPart, QueuePart
  <2>7. QED BY <1>2, <1>3, <1>5, <1>6, <2>3, <2>4, <2>5, <2>6, StepIsLocal
<1>7. CASE /\ Fails(services[ns][s] # NoSpec)
           /\ Return(TRUE)
           /\ UNCHANGED <<services, monitors, stale>>
  BY <1>1, <1>2, <1>3, <1>5, <1>7, ReturnEffect, Untouched, StepIsLocal
<1>8. QED BY <1>6, <1>7 DEF DeleteOther

\* The Service that is called for.
LEMMA TargetService ==
    ASSUME TypeOK, WorkInv, NEW n, n = ns, work.phase = "others"
    PROVE  /\ work.target \in AllSettings /\ work.target.name \in Names
           /\ Target # NoSpec /\ Target \in {ServiceSpec(c) : c \in Configs}
           /\ Stored = services[n][work.target.name]
  BY Values DEF WorkInv, Target, Stored

\* A Service is created and the client closed, or it is tried again.
LEMMA CreateServiceStep ==
    ASSUME TypeOK, WorkInv, CreateService, NEW n, n = ns
    PROVE  /\ Local(n) /\ work.phase = "others"
           /\ UNCHANGED <<stream, lapses>>
           /\ IF Detached THEN mmServices' = mmServices
                          ELSE mmServices'[n] = Disconnect(mmServices[n])
           /\ \/ Requeued(n)
              \/ /\ ~ Detached /\ <<"service", n>> \in stale' /\ queue' = queue
                 /\ work'.phase = "watch" /\ work'.mms = work.mms
<1>1. n \in Scope /\ n \in Namespaces /\ services[n] \in ServiceSets /\ work.ns = n
  BY WorkType
<1>2. Step("others") /\ UNCHANGED <<stream, lapses>> /\ work.phase = "others"
  BY DEF CreateService, Step
<1>3. StreamPart(n) /\ LapsePart(n)
  BY <1>1, <1>2, Untouched
<1>4. /\ ~ Detached => Current = mmServices[n] /\ mmServices[n] \in MMServices /\ work.mms = NoService
      /\ NoService \notin MMServices
  BY <1>2, CurrentService, Values
<1>5. CASE /\ Succeeds(~ Detached /\ Stored = NoSpec /\ (clusterScope => owner[ns] \in {"on", "off"}))
           /\ SetServices([services[ns] EXCEPT ![work.target.name] = Target])
           /\ Becomes(Disconnect(Current), Goto("watch"))
           /\ UNCHANGED queue
  <2> DEFINE l == [services[n] EXCEPT ![work.target.name] = Target]
             d == Disconnect(mmServices[n])
  <2>1. ~ Detached /\ services[n][work.target.name] = NoSpec
    BY <1>2, <1>5, TargetService DEF Succeeds
  <2>2. l \in ServiceSets /\ l # services[n]
    <3>1. l \in ServiceSets /\ l[work.target.name] = Target
      BY <1>1, <1>2, TargetService, ReplacedService
    <3>2. QED BY <1>2, <2>1, <3>1, TargetService
  <2>3. SetServices(l)
    BY <1>5
  <2>4. work' = Goto("watch") /\ mmServices' = [mmServices EXCEPT ![n] = d]
    BY <1>4, <1>5, <2>1 DEF Becomes
  <2>5. d \in MMServices /\ d.settings = mmServices[n].settings
    BY <1>4, <2>1, Operations
  <2>6. MMPart(n) /\ mmServices'[n] = d
    <3> HIDE DEF d
    <3>1. QED BY <1>1, <1>4, <2>1, <2>4, <2>5, MMEffect
  <2> HIDE DEF l
  <2>7. ServicesPart(n) /\ services'[n] = l
    BY <2>2, <2>3, SetServicesEffect
  <2>8. <<"service", n>> \in stale'
    BY <2>2, <2>7 DEF ServicesPart
  <2>9. WorkPart(n) /\ QueuePart(n) /\ work'.phase = "watch" /\ work'.mms = work.mms
    BY <1>5, <2>4, WorkType DEF WorkPart, QueuePart
  <2>10. QED BY <1>2, <1>3, <1>5, <2>1, <2>6, <2>7, <2>8, <2>9, StepIsLocal
<1>6. CASE /\ Return(TRUE)
           /\ mmServices' = IF Detached THEN mmServices
                            ELSE [mmServices EXCEPT ![ns] = Disconnect(@)]
           /\ UNCHANGED <<services, monitors, stale>>
  <2>1. MMPart(n) /\ IF Detached THEN mmServices' = mmServices
                          ELSE mmServices'[n] = Disconnect(mmServices[n])
    <3>1. CASE Detached
      BY <1>1, <1>6, <3>1, Untouched
    <3>2. CASE ~ Detached
      <4> DEFINE d == Disconnect(mmServices[n])
      <4>1. d \in MMServices /\ d.settings = mmServices[n].settings
        BY <1>4, <3>2, Operations
      <4>2. mmServices' = [mmServices EXCEPT ![n] = d]
        BY <1>6, <3>2
      <4> HIDE DEF d
      <4>3. MMPart(n) /\ mmServices'[n] = d
        BY <1>1, <1>4, <3>2, <4>1, <4>2, MMEffect
      <4>4. QED BY <3>2, <4>3 DEF d
    <3>3. QED BY <3>1, <3>2
  <2>2. QED BY <1>1, <1>2, <1>3, <1>6, <2>1, ReturnEffect, Untouched, StepIsLocal
<1>7. QED BY <1>5, <1>6 DEF CreateService

\* A Service is deleted to be created anew.
LEMMA RecreateServiceStep ==
    ASSUME TypeOK, WorkInv, RecreateService, NEW n, n = ns
    PROVE  /\ Local(n) /\ work.phase = "others"
           /\ UNCHANGED <<stream, lapses, mmServices>>
           /\ \/ Requeued(n)
              \/ Detached /\ <<"service", n>> \in stale' /\ work' = Idle
<1>1. n \in Scope /\ n \in Namespaces /\ services[n] \in ServiceSets /\ work.ns = n
  BY WorkType
<1>2. Step("others") /\ UNCHANGED <<stream, lapses, mmServices>> /\ work.phase = "others"
  BY DEF RecreateService, Step
<1>3. StreamPart(n) /\ LapsePart(n) /\ MMPart(n)
  BY <1>1, <1>2, Untouched
<1>4. CASE /\ Succeeds(Stored # NoSpec)
           /\ SetServices([services[ns] EXCEPT ![work.target.name] = NoSpec])
           /\ Return(~ Detached)
  <2> DEFINE l == [services[n] EXCEPT ![work.target.name] = NoSpec]
  <2>1. services[n][work.target.name] # NoSpec
    BY <1>2, <1>4, TargetService DEF Succeeds
  <2>2. l \in ServiceSets /\ l # services[n]
    <3>1. l \in ServiceSets /\ l[work.target.name] = NoSpec
      BY <1>1, <1>2, TargetService, ReplacedService
    <3>2. QED BY <2>1, <3>1
  <2>3. SetServices(l)
    BY <1>4
  <2> HIDE DEF l
  <2>4. ServicesPart(n) /\ services'[n] = l
    BY <2>2, <2>3, SetServicesEffect
  <2>5. <<"service", n>> \in stale'
    BY <2>2, <2>4 DEF ServicesPart
  <2>6. QueuePart(n) /\ work' = Idle /\ (~ Detached => Requeued(n))
    BY <1>4, ReturnEffect DEF Detached
  <2>7. QED BY <1>1, <1>2, <1>3, <2>4, <2>5, <2>6, Untouched, StepIsLocal
<1>5. CASE Return(TRUE) /\ UNCHANGED <<services, monitors, stale>>
  BY <1>1, <1>2, <1>3, <1>5, ReturnEffect, Untouched, StepIsLocal
<1>6. QED BY <1>4, <1>5 DEF RecreateService

\* ConnectIfNeeded, up to the call.
Connecting(n, failed) ==
    \/ /\ ConnectNeeded(Current)
       /\ queue' = queue /\ work'.phase = "dial" /\ work'.failed = failed
       /\ work'.target = Current.settings /\ work'.svc = work.svc
       /\ IF Detached
            THEN mmServices' = mmServices /\ work'.mms \in MMServices
            ELSE work'.mms = NoService /\ mmServices'[n] = TakeSettings(mmServices[n])
    \/ /\ ~ ConnectNeeded(Current) /\ mmServices' = mmServices
       /\ IF failed THEN Requeued(n)
          ELSE /\ queue' = queue
               /\ IF Detached THEN work' = Idle
                  ELSE work'.phase = "watch" /\ work'.mms = NoService /\ work'.svc = work.svc

LEMMA ConnectEffect ==
    ASSUME TypeOK, WorkInv, work.phase = "others", NEW failed \in BOOLEAN,
           ConnectIfNeeded(failed), NEW n, n = ns
    PROVE  Connecting(n, failed) /\ MMPart(n) /\ QueuePart(n) /\ WorkPart(n)
<1>1. n \in Namespaces
  BY WorkType
<1>2. /\ Current \in MMServices /\ Current.settings \in AllSettings /\ NoService \notin MMServices
      /\ ~ Detached => Current = mmServices[n] /\ mmServices[n] \in MMServices /\ work.mms = NoService
      /\ Detached => Current = work.mms /\ work.mms \in MMServices
  BY CurrentService, Operations, Values
<1>3. \A p \in {"dial", "watch"} :
          Goto(p) \in Works /\ Goto(p).phase = p /\ Goto(p).ns = n /\ Goto(p).mms = work.mms
            /\ Goto(p).svc = work.svc
  BY WorkType
<1>4. CASE ConnectNeeded(Current)
  <2> DEFINE t == Current.settings
             m == TakeSettings(Current)
             w == [Goto("dial") EXCEPT !.target = t, !.failed = failed]
  <2>1. Becomes(m, w) /\ queue' = queue
    BY <1>4 DEF ConnectIfNeeded
  <2>2. m \in MMServices /\ m.settings = t /\ t \in AllSettings
    BY <1>2, Operations
  <2>3. /\ w \in Works /\ w.phase = "dial" /\ w.failed = failed /\ w.target = t
        /\ w.svc = work.svc /\ w.ns = n /\ w.mms = work.mms
    <3> HIDE DEF t, m
    <3>1. QED BY <1>3, <2>2 DEF Works
  <2>4. CASE Detached
    <3>1. work' = [w EXCEPT !.mms = m] /\ mmServices' = mmServices
      BY <2>1, <2>4 DEF Becomes
    <3> HIDE DEF t, m, w
    <3>2. /\ work' \in Works /\ work'.phase = "dial" /\ work'.failed = failed /\ work'.target = t
          /\ work'.svc = work.svc /\ work'.ns = n /\ work'.mms = m
      BY <2>2, <2>3, <3>1 DEF Works
    <3>3. MMPart(n) /\ QueuePart(n) /\ WorkPart(n)
      BY <1>1, <2>1, <3>1, <3>2, Untouched DEF QueuePart, WorkPart
    <3>4. QED BY <1>4, <2>1, <2>2, <2>4, <3>1, <3>2, <3>3 DEF Connecting, t
  <2>5. CASE ~ Detached
    <3>1. work' = w /\ mmServices' = [mmServices EXCEPT ![n] = m]
      BY <2>1, <2>5 DEF Becomes
    <3>2. m = TakeSettings(mmServices[n]) /\ t = mmServices[n].settings /\ work.mms = NoService
      BY <1>2, <2>5
    <3> HIDE DEF t, m, w
    <3>3. MMPart(n) /\ mmServices'[n] = m
      BY <1>1, <1>2, <2>2, <2>5, <3>1, <3>2, MMEffect
    <3>4. QueuePart(n) /\ WorkPart(n)
      BY <2>1, <2>3, <3>1 DEF QueuePart, WorkPart
    <3>5. QED BY <1>4, <2>1, <2>3, <2>5, <3>1, <3>2, <3>3, <3>4 DEF Connecting, t
  <2>6. QED BY <2>4, <2>5
<1>5. CASE ~ ConnectNeeded(Current)
  <2>1. mmServices' = mmServices /\ IF failed THEN Return(TRUE) ELSE ServiceDone
    BY <1>5 DEF ConnectIfNeeded
  <2>2. CASE failed
    BY <1>1, <1>5, <2>1, <2>2, ReturnEffect, Untouched DEF Connecting
  <2>3. CASE ~ failed
    <3>1. queue' = queue /\ IF Detached THEN work' = Idle ELSE work' = Goto("watch")
      BY <2>1, <2>3 DEF ServiceDone, Return
    <3>2. MMPart(n) /\ QueuePart(n) /\ WorkPart(n)
      BY <1>1, <1>3, <2>1, <3>1, Untouched DEF QueuePart, WorkPart
    <3>3. QED BY <1>2, <1>3, <1>5, <2>1, <2>3, <3>1, <3>2 DEF Connecting
  <2>4. QED BY <2>2, <2>3
<1>6. QED BY <1>4, <1>5

\* The Service is updated, and a client is made if needed.
LEMMA UpdateServiceStep ==
    ASSUME TypeOK, WorkInv, UpdateService, NEW n, n = ns
    PROVE  /\ Local(n) /\ work.phase = "others" /\ OthersDeleted /\ Listed # NoSpec
           /\ UNCHANGED <<stream, lapses>>
           /\ \/ /\ services'[n] = [services[n] EXCEPT ![work.target.name] = Target]
                 /\ Connecting(n, FALSE)
              \/ services' = services /\ Connecting(n, TRUE)
<1>1. n \in Scope /\ n \in Namespaces /\ services[n] \in ServiceSets /\ work.ns = n
  BY WorkType
<1>2. /\ Step("others") /\ UNCHANGED <<stream, lapses>> /\ work.phase = "others"
      /\ OthersDeleted /\ Listed # NoSpec
  BY DEF UpdateService, Step
<1>3. StreamPart(n) /\ LapsePart(n)
  BY <1>1, <1>2, Untouched
<1>4. CASE /\ SetServices([services[ns] EXCEPT ![work.target.name] = Target])
           /\ ConnectIfNeeded(FALSE)
  <2> DEFINE l == [services[n] EXCEPT ![work.target.name] = Target]
  <2>1. l \in ServiceSets
    BY <1>1, <1>2, TargetService, ReplacedService
  <2>2. SetServices(l)
    BY <1>4
  <2> HIDE DEF l
  <2>3. ServicesPart(n) /\ services'[n] = l
    BY <2>1, <2>2, SetServicesEffect
  <2>4. Connecting(n, FALSE) /\ MMPart(n) /\ QueuePart(n) /\ WorkPart(n)
    BY <1>2, <1>4, ConnectEffect
  <2>5. QED BY <1>2, <1>3, <2>3, <2>4, StepIsLocal DEF l
<1>5. CASE ConnectIfNeeded(TRUE) /\ UNCHANGED <<services, monitors, stale>>
  BY <1>1, <1>2, <1>3, <1>5, ConnectEffect, Untouched, StepIsLocal
<1>6. QED BY <1>4, <1>5 DEF UpdateService

\* The client is made.
LEMMA DialStep ==
    ASSUME TypeOK, WorkInv, Dial, NEW n, n = ns
    PROVE  /\ Local(n) /\ work.phase = "dial"
           /\ UNCHANGED <<stream, services, monitors, stale>>
           /\ lapses' = lapses \ {<<"tls", n>>}
           /\ IF Detached THEN mmServices' = mmServices /\ work' = Idle
              ELSE /\ mmServices'[n] = Dialled(mmServices[n], work.target)
                   /\ \/ Requeued(n)
                      \/ /\ ~ work.failed /\ queue' = queue /\ work'.phase = "watch"
                         /\ work'.mms = NoService /\ work'.svc = work.svc
<1>1. n \in Namespaces /\ work.failed \in BOOLEAN
  BY WorkType
<1>2. /\ Step("dial") /\ UNCHANGED <<stream, services, monitors, stale>>
      /\ work.phase = "dial" /\ lapses' = lapses \ {<<"tls", n>>}
  BY DEF Dial, Step
<1>3. ServicesPart(n) /\ StreamPart(n) /\ LapsePart(n)
  BY <1>1, <1>2, Untouched, LapseEffect
<1>4. /\ ~ Detached => Current = mmServices[n] /\ mmServices[n] \in MMServices /\ work.mms = NoService
      /\ NoService \notin MMServices /\ work.target \in AllSettings
  BY <1>2, CurrentService, Values DEF WorkInv
<1>5. CASE Detached
  <2>1. Return(work.failed) /\ mmServices' = mmServices
    BY <1>5 DEF Dial
  <2>2. QED BY <1>1, <1>2, <1>3, <1>5, <2>1, ReturnEffect, Untouched, StepIsLocal
<1>6. CASE ~ Detached
  <2> DEFINE d == Dialled(mmServices[n], work.target)
  <2>1. d \in MMServices /\ d.settings = mmServices[n].settings
    <3>1. mmServices[n] \in MMServices /\ work.target \in AllSettings
      BY <1>4, <1>6
    <3>2. QED BY <3>1, Operations
  <2>2. mmServices' = [mmServices EXCEPT ![n] = d]
    BY <1>4, <1>6 DEF Dial, Becomes
  <2>3. MMPart(n) /\ mmServices'[n] = d
    <3> HIDE DEF d
    <3>1. QED BY <1>1, <1>4, <1>6, <2>1, <2>2, MMEffect
  <2>4. CASE work.failed
    <3>1. Return(TRUE)
      BY <1>1, <1>6, <2>4 DEF Dial
    <3>2. QED BY <1>1, <1>2, <1>3, <1>6, <2>3, <3>1, ReturnEffect, Untouched, StepIsLocal
  <2>5. CASE ~ work.failed
    <3>1. work' = Goto("watch") /\ queue' = queue
      BY <1>6, <2>5 DEF Dial, Becomes
    <3>2. /\ WorkPart(n) /\ QueuePart(n) /\ work'.phase = "watch"
          /\ work'.mms = work.mms /\ work'.svc = work.svc
      BY <3>1, WorkType DEF WorkPart, QueuePart
    <3>3. QED BY <1>2, <1>3, <1>4, <1>6, <2>3, <2>5, <3>1, <3>2, StepIsLocal
  <2>6. QED BY <2>4, <2>5
<1>7. QED BY <1>5, <1>6

\* The client is not made: for want of its secret, ...
LEMMA TLSLookupFailsStep ==
    ASSUME TypeOK, WorkInv, TLSLookupFails, NEW n, n = ns
    PROVE  /\ Local(n) /\ work.phase = "dial" /\ Requeued(n)
           /\ UNCHANGED <<stream, services, monitors, stale, mmServices>>
           /\ \A what : what # "tls" => (<<what, n>> \in lapses' <=> <<what, n>> \in lapses)
           /\ <<"tls", n>> \in lapses => <<"tls", n>> \in lapses'
           /\ ~ Detached /\ Connected(mmServices[n]) => <<"tls", n>> \in lapses'
<1>1. n \in Namespaces /\ mmServices[n] \in MMServices \cup {NoService}
  BY WorkType
<1>2. /\ Step("dial") /\ UNCHANGED <<stream, services, monitors, stale>> /\ work.phase = "dial"
      /\ Return(TRUE)
      /\ lapses' = IF Connected(Current) THEN lapses \cup {<<"tls", n>>} ELSE lapses
  BY DEF TLSLookupFails, Step
<1>3. mmServices' = mmServices
  BY <1>1 DEF TLSLookupFails, TLSFailed, TypeOK
<1>4. LapsePart(n)
  BY <1>2 DEF LapsePart
<1>5. ~ Detached /\ Connected(mmServices[n]) => <<"tls", n>> \in lapses'
  BY <1>2, CurrentService
<1>6. QED BY <1>1, <1>2, <1>3, <1>4, <1>5, ReturnEffect, Untouched, StepIsLocal

\* ... or for another reason, which is remembered.
LEMMA DialFailsStep ==
    ASSUME TypeOK, WorkInv, DialFails, NEW n, n = ns
    PROVE  /\ Local(n) /\ work.phase = "dial" /\ Requeued(n)
           /\ UNCHANGED <<stream, services, monitors, stale, lapses>>
           /\ IF Detached THEN mmServices' = mmServices
              ELSE mmServices'[n] = DialFailed(mmServices[n])
<1>1. n \in Namespaces
  BY WorkType
<1>2. /\ Step("dial") /\ UNCHANGED <<stream, services, monitors, stale, lapses>>
      /\ work.phase = "dial" /\ Return(TRUE)
  BY DEF DialFails, Step
<1>3. ~ Detached => mmServices[n] \in MMServices /\ NoService \notin MMServices
  BY <1>2, CurrentService, Values
<1>4. MMPart(n) /\ IF Detached THEN mmServices' = mmServices
                   ELSE mmServices'[n] = DialFailed(mmServices[n])
  <2>1. CASE Detached
    BY <1>1, <2>1, Untouched DEF DialFails
  <2>2. CASE ~ Detached
    <3> DEFINE d == DialFailed(mmServices[n])
    <3>1. d \in MMServices /\ d.settings = mmServices[n].settings
      BY <1>3, <2>2, Operations
    <3>2. mmServices' = [mmServices EXCEPT ![n] = d]
      BY <2>2 DEF DialFails
    <3>3. MMPart(n) /\ mmServices'[n] = d
      <4> HIDE DEF d
      <4>1. QED BY <1>1, <1>3, <2>2, <3>1, <3>2, MMEffect
    <3>4. QED BY <2>2, <3>3
  <2>3. QED BY <2>1, <2>2
<1>5. QED BY <1>1, <1>2, <1>4, ReturnEffect, Untouched, StepIsLocal

\* The watches after UpdateWatchedService: they read with the client, if there is
\* one, and only that of n has another name.
LEMMA StreamEffects ==
    ASSUME TypeOK, StreamInv, NEW n \in Namespaces, NEW c \in Configs,
           \/ c.etcd = stream.secret /\ stream' = WatchName(c.name, n)
           \/ stream' = Restarted(c.etcd, c.name, n)
           \/ stream' = Cancelled(n)
    PROVE  /\ StreamPart(n) /\ StreamInv'
           /\ \/ stream'.secret = c.etcd /\ stream'.watches[n].name = c.name
              \/ stream' = Cancelled(n) /\ ~ stream'.open
<1> DEFINE Secrets == {""} \cup {d.etcd : d \in Configs}
           Watch == [name : Names \cup {"", "none"}, on : Secrets]
<1>1. c.etcd \in Secrets /\ c.name \in Names /\ c.name # "none" /\ "none" \notin Names /\ "" \notin Names
  BY Values
<1>2. /\ stream.secret \in Secrets /\ stream.open \in BOOLEAN /\ stream.watches \in [Namespaces -> Watch]
      /\ stream \in Streams
  BY DEF TypeOK, Streams
<1>3. \A m \in Namespaces : stream.watches[m] \in Watch
  BY <1>2
<1>4. CASE c.etcd = stream.secret /\ stream' = WatchName(c.name, n)
  <2>1. CASE stream.watches[n].name = c.name
    BY <1>2, <1>4, <2>1, Untouched DEF WatchName, Watched, StreamInv
  <2>2. CASE stream.watches[n].name # c.name
    <3> DEFINE v == [name |-> c.name, on |-> IF stream.open THEN stream.secret ELSE ""]
               w == [stream.watches EXCEPT ![n] = v]
    <3>1. stream' = [stream EXCEPT !.watches = w]
      BY <1>2, <1>4, <2>2 DEF WatchName, Watched, Refreshed, Streams
    <3>2. v \in Watch /\ v.name = c.name /\ v.on = IF stream.open THEN stream.secret ELSE ""
      BY <1>1, <1>2
    <3> HIDE DEF v
    <3>3. w \in [Namespaces -> Watch] /\ w[n] = v /\ \A m \in Namespaces \ {n} : w[m] = stream.watches[m]
      BY <1>2, <3>2
    <3> HIDE DEF w
    <3>4. /\ stream' \in Streams /\ stream'.watches = w
          /\ stream'.secret = stream.secret /\ stream'.open = stream.open
      BY <1>2, <3>1, <3>3 DEF Streams
    <3>5. StreamPart(n)
      BY <3>3, <3>4 DEF StreamPart
    <3>6. StreamInv'
      BY <1>1, <3>2, <3>3, <3>4 DEF StreamInv, Watched
    <3>7. QED BY <1>4, <3>2, <3>3, <3>4, <3>5, <3>6
  <2>3. QED BY <2>1, <2>2
<1>5. CASE stream' = Restarted(c.etcd, c.name, n)
  <2> DEFINE V(m) == IF m = n THEN [name |-> c.name, on |-> c.etcd]
                     ELSE IF Watched(m) = NoWatch THEN NoWatch
                     ELSE [Watched(m) EXCEPT !.on = c.etcd]
             w == [m \in Namespaces |-> V(m)]
  <2>1. stream' = [secret |-> c.etcd, open |-> TRUE, watches |-> w]
    BY <1>5 DEF Restarted
  <2>2. \A m \in Namespaces : V(m) \in Watch
    BY <1>1, <1>3 DEF Watched, NoWatch
  <2>3. V(n).name = c.name /\ V(n).on = c.etcd
    OBVIOUS
  <2>4. \A m \in Namespaces \ {n} :
          /\ V(m).name = stream.watches[m].name
          /\ V(m) = NoWatch \/ (stream.watches[m] # NoWatch /\ V(m).on = c.etcd)
    BY <1>3 DEF Watched
  <2> HIDE DEF V
  <2>5. w \in [Namespaces -> Watch] /\ \A m \in Namespaces : w[m] = V(m)
    BY <2>2
  <2> HIDE DEF w
  <2>6. stream' \in Streams /\ stream'.watches = w /\ stream'.secret = c.etcd /\ stream'.open = TRUE
    BY <1>1, <2>1, <2>5 DEF Streams
  <2>7. StreamPart(n)
    BY <2>4, <2>5, <2>6 DEF StreamPart
  <2>8. StreamInv'
    <3>1. NoWatch.name = "none"
      BY DEF NoWatch
    <3>2. \A m \in Namespaces : stream.watches[m].name = "none" => stream.watches[m] = NoWatch
      BY DEF StreamInv, Watched
    <3>3. \A m \in Namespaces : V(m).name = "none" => V(m) = NoWatch
      BY <1>1, <2>3, <2>4, <3>2
    <3>4. \A m \in Namespaces : V(m).name \in Names => V(m).on = c.etcd
      BY <1>1, <2>3, <2>4, <3>1
    <3>5. QED BY <2>5, <2>6, <3>3, <3>4 DEF StreamInv, Watched
  <2>9. QED BY <2>3, <2>5, <2>6, <2>7, <2>8
<1>6. CASE stream' = Cancelled(n)
  <2> DEFINE V(m) == IF Watched(m) # NoWatch THEN [Watched(m) EXCEPT !.on = ""]
                     ELSE IF m = n THEN [name |-> "", on |-> ""] ELSE NoWatch
             w == [m \in Namespaces |-> V(m)]
  <2>1. stream' = [stream EXCEPT !.open = FALSE, !.watches = w]
    BY <1>6 DEF Cancelled
  <2>2. \A m \in Namespaces : V(m) \in Watch
    BY <1>3 DEF Watched, NoWatch
  <2>3. \A m \in Namespaces \ {n} : V(m).name = stream.watches[m].name
    BY <1>3 DEF Watched
  <2>4. \A m \in Namespaces : V(m).on = ""
    BY <1>3 DEF Watched, NoWatch
  <2>5. \A m \in Namespaces : V(m).name = "none" => V(m) = NoWatch
    <3> SUFFICES ASSUME NEW m \in Namespaces, V(m).name = "none" PROVE V(m) = NoWatch
      OBVIOUS
    <3>1. CASE Watched(m) # NoWatch
      BY <1>3, <3>1 DEF StreamInv, Watched
    <3>2. CASE Watched(m) = NoWatch
      BY <3>2
    <3>3. QED BY <3>1, <3>2
  <2> HIDE DEF V
  <2>6. w \in [Namespaces -> Watch] /\ \A m \in Namespaces : w[m] = V(m)
    BY <2>2
  <2> HIDE DEF w
  <2>7. /\ stream' \in Streams /\ stream'.watches = w /\ stream'.secret = stream.secret
        /\ stream'.open = FALSE
    BY <1>2, <2>1, <2>6 DEF Streams
  <2>8. StreamPart(n)
    BY <2>3, <2>6, <2>7 DEF StreamPart
  <2>9. StreamInv'
    BY <2>4, <2>5, <2>6, <2>7 DEF StreamInv, Watched
  <2>10. QED BY <1>6, <2>7, <2>8, <2>9
<1>7. QED BY <1>4, <1>5, <1>6

\* Watch and monitor are brought up to date.
LEMMA UpdateWatchStep ==
    ASSUME TypeOK, WorkInv, StreamInv, UpdateWatch, NEW n, n = ns
    PROVE  /\ Local(n) /\ work.phase = "watch" /\ StreamInv'
           /\ UNCHANGED <<services, stale, mmServices>>
           /\ <<"tls", n>> \in lapses => <<"tls", n>> \in lapses'
           /\ \/ work.cfg = GetConfig /\ ~ Changed(mmServices[n], work.cfg)
              \/ <<"watch", n>> \in lapses'
           /\ work' = Idle
           /\ \/ stream'.secret = work.cfg.etcd /\ stream'.watches[n].name = work.cfg.name
              \/ /\ stream'.secret = stream.secret /\ Requeued(n)
                 /\ <<"watch", n>> \in lapses => <<"watch", n>> \in lapses'
           /\ \/ Requeued(n)
              \/ work.svc = "" /\ queue' = queue
              \/ /\ monitors' = monitors
                 /\ monitors[n] = IF work.cfg.ports = "metrics" /\ services[n][work.svc] # NoSpec
                                    THEN work.svc ELSE NoMonitor
<1>1. n \in Namespaces /\ work.cfg \in Configs /\ n \in Scope
  BY WorkType
<1>2. /\ Step("watch") /\ UNCHANGED <<services, stale, mmServices>> /\ work.phase = "watch"
  BY DEF UpdateWatch, Step
<1>3. Current = mmServices[n]
  BY <1>2, CurrentService DEF WorkInv
<1>4. /\ \A what, m : what # "etcd" /\ <<what, m>> # <<"watch", n>> =>
           (<<what, m>> \in lapses' <=> <<what, m>> \in lapses)
      /\ \/ work.cfg = GetConfig /\ ~ Changed(mmServices[n], work.cfg)
         \/ <<"watch", n>> \in lapses'
  BY <1>3 DEF UpdateWatch
<1>5. LapsePart(n) /\ MMPart(n) /\ (<<"tls", n>> \in lapses => <<"tls", n>> \in lapses')
  <2>1. LapsePart(n) /\ (<<"tls", n>> \in lapses => <<"tls", n>> \in lapses')
    BY <1>1, <1>4 DEF LapsePart
  <2>2. QED BY <1>1, <1>2, <2>1, Untouched
<1>6. \/ work.cfg.etcd = stream.secret /\ stream' = WatchName(work.cfg.name, n)
      \/ stream' = Restarted(work.cfg.etcd, work.cfg.name, n)
      \/ stream' = Cancelled(n)
  BY DEF UpdateWatch
<1>7. /\ StreamPart(n) /\ StreamInv'
      /\ \/ stream'.secret = work.cfg.etcd /\ stream'.watches[n].name = work.cfg.name
         \/ stream' = Cancelled(n) /\ ~ stream'.open
  BY <1>1, <1>6, StreamEffects
<1> DEFINE after == IF work.cfg.ports = "metrics" /\ services[n][work.svc] # NoSpec
                      THEN work.svc ELSE NoMonitor
<1>8. work.svc \in Names \cup {""}
  BY DEF TypeOK, Works
<1>9. after \in Names \cup {NoMonitor} \/ work.svc = ""
  BY <1>8
<1>10. ReconcileMonitor => \/ work.svc = "" /\ Return(FALSE) /\ monitors' = monitors
                           \/ work.svc # "" /\ monitors' = [monitors EXCEPT ![n] = after]
                                /\ Return(after # monitors[n])
                           \/ Return(TRUE) /\ monitors' = monitors
  BY DEF ReconcileMonitor
<1> HIDE DEF after
<1>11. CASE ReconcileMonitor /\ stream'.secret = work.cfg.etcd /\ stream'.watches[n].name = work.cfg.name
  <2>1. ServicesPart(n)
    <3>1. monitors' = monitors \/ (monitors' = [monitors EXCEPT ![n] = after] /\ work.svc # "")
      BY <1>10, <1>11
    <3>2. /\ monitors' \in [Namespaces -> Names \cup {NoMonitor}]
          /\ \A m \in Namespaces \ {n} : monitors'[m] = monitors[m]
      BY <1>1, <1>9, <3>1 DEF TypeOK
    <3>3. QED BY <1>2, <3>2 DEF ServicesPart, TypeOK
  <2>2. /\ work' = Idle /\ QueuePart(n)
        /\ \/ Requeued(n)
           \/ work.svc = "" /\ queue' = queue
           \/ monitors' = monitors /\ monitors[n] = after
    <3>1. CASE work.svc = "" /\ Return(FALSE)
      BY <3>1, ReturnEffect
    <3>2. CASE monitors' = [monitors EXCEPT ![n] = after] /\ Return(after # monitors[n])
      <4>1. CASE after # monitors[n]
        BY <3>2, <4>1, ReturnEffect
      <4>2. CASE after = monitors[n]
        <5>1. monitors' = monitors
          BY <3>2, <4>2, <1>1 DEF TypeOK
        <5>2. Return(FALSE)
          BY <3>2, <4>2
        <5>3. QED BY <4>2, <5>1, <5>2, ReturnEffect
      <4>3. QED BY <4>1, <4>2
    <3>3. CASE Return(TRUE)
      BY <3>3, ReturnEffect
    <3>4. QED BY <1>10, <1>11, <3>1, <3>2, <3>3
  <2>3. Local(n)
    BY <1>1, <1>2, <1>5, <1>7, <2>1, <2>2, Untouched, StepIsLocal
  <2>4. QED BY <1>2, <1>4, <1>5, <1>7, <1>11, <2>2, <2>3 DEF after
<1>12. CASE /\ Return(TRUE) /\ UNCHANGED monitors /\ stream' = Cancelled(n)
            /\ <<"watch", n>> \in lapses => <<"watch", n>> \in lapses'
  <2>1. work' = Idle /\ QueuePart(n) /\ Requeued(n)
    BY <1>12, ReturnEffect
  <2>2. ServicesPart(n)
    BY <1>1, <1>2, <1>12, Untouched
  <2>3. Local(n)
    BY <1>1, <1>2, <1>5, <1>7, <2>1, <2>2, Untouched, StepIsLocal
  <2>4. stream'.secret = stream.secret
    BY <1>12 DEF Cancelled, TypeOK, Streams
  <2>5. QED BY <1>2, <1>4, <1>5, <1>7, <1>12, <2>1, <2>3, <2>4
<1>13. QED
  <2>1. \/ ReconcileMonitor /\ work.cfg.etcd = stream.secret /\ stream' = WatchName(work.cfg.name, n)
        \/ ReconcileMonitor /\ stream' = Restarted(work.cfg.etcd, work.cfg.name, n)
        \/ /\ Return(TRUE) /\ UNCHANGED monitors /\ stream' = Cancelled(n)
           /\ <<"watch", n>> \in lapses => <<"watch", n>> \in lapses'
    BY DEF UpdateWatch
  <2>2. CASE ReconcileMonitor /\ work.cfg.etcd = stream.secret /\ stream' = WatchName(work.cfg.name, n)
    <3>1. stream'.secret = work.cfg.etcd /\ stream'.watches[n].name = work.cfg.name
      BY <1>1, <2>2 DEF WatchName, Watched, Refreshed, TypeOK, Streams
    <3>2. QED BY <1>11, <2>2, <3>1
  <2>3. CASE ReconcileMonitor /\ stream' = Restarted(work.cfg.etcd, work.cfg.name, n)
    <3>1. stream'.secret = work.cfg.etcd /\ stream'.watches[n].name = work.cfg.name
      BY <1>1, <2>3 DEF Restarted
    <3>2. QED BY <1>11, <2>3, <3>1
  <2>4. QED BY <1>12, <2>1, <2>2, <2>3

-----------------------------------------------------------------------------
(* What every step of a reconcile preserves *)

LEMMA LocalType == ASSUME TypeOK, NEW n, Local(n) PROVE TypeOK'
<1>1. Scope' = Scope
  BY DEF Local, Scope
<1>2. queue' \subseteq Scope
  BY DEF Local, QueuePart, TypeOK
<1>3. ns' \in Scope
  BY IdleWork DEF Local, WorkPart, ns
<1>4. QED
  BY <1>1, <1>2, <1>3
     DEF Local, TypeOK, configVars, cacheVars, ServicesPart, MMPart, StreamPart, WorkPart

\* Which reconcile is in progress after a step.
LEMMA LocalWork ==
    ASSUME TypeOK, NEW n, Local(n)
    PROVE  /\ n \in Namespaces /\ n \in Scope /\ ns = n /\ AtWork(n) /\ work.phase # "idle"
           /\ Scope' = Scope
           /\ \A m \in Namespaces \ {n} : ~ AtWork(m) /\ ~ AtWork(m)' /\ (Pending(m)' <=> Pending(m))
           /\ work' = Idle => ~ AtWork(n)' /\ work'.phase = "idle" /\ ~ Detached'
           /\ work' # Idle => AtWork(n)' /\ ns' = n /\ work'.phase # "idle"
           /\ Pending(n) => Pending(n)'
<1>1. n \in Namespaces /\ n \in Scope /\ ns = n /\ AtWork(n) /\ work.phase # "idle"
  BY ServiceAssumption DEF Local, AtWork, Scope, Namespaced
<1>2. Scope' = Scope
  BY DEF Local, Scope
<1>3. \A m \in Namespaces \ {n} : ~ AtWork(m)
  BY <1>1 DEF AtWork
<1>4. work' = Idle => ~ AtWork(n)' /\ work'.phase = "idle" /\ ~ Detached'
  BY IdleWork DEF AtWork, Detached
<1>5. work' # Idle => AtWork(n)' /\ ns' = n /\ work'.phase # "idle"
  BY DEF Local, WorkPart, AtWork, ns
<1>6. \A m \in Namespaces \ {n} : ~ AtWork(m)'
  BY IdleWork DEF Local, WorkPart, AtWork, ns
<1>7. \A m \in Namespaces \ {n} : Pending(m)' <=> Pending(m)
  BY DEF Local, ServicesPart, QueuePart, Pending
<1>8. Pending(n) => Pending(n)'
  BY DEF Local, ServicesPart, QueuePart, Pending
<1>9. QED BY <1>1, <1>2, <1>3, <1>4, <1>5, <1>6, <1>7, <1>8

\* A step that is of no concern to namespace m.
Elsewhere(m) ==
    /\ Pending(m)' <=> Pending(m)
    /\ work' = work \/ (~ AtWork(m) /\ ~ AtWork(m)')
    /\ services'[m] = services[m] /\ monitors'[m] = monitors[m] /\ mmServices'[m] = mmServices[m]
    /\ stream'.watches[m].name = stream.watches[m].name
    /\ ownerCache'[m] = ownerCache[m] /\ clusterScope' = clusterScope
    /\ \A what \in {"deletion", "tls", "watch"} : <<what, m>> \in lapses' <=> <<what, m>> \in lapses

LEMMA ElsewhereKeeps ==
    ASSUME ServiceInv, NEW m \in Namespaces, Elsewhere(m)
    PROVE  /\ ClientKnown(m)' /\ Released(m)' /\ Attended(m)'
           /\ m \in Scope => Served(m)' /\ WatchKept(m)'
<1>1. /\ work' = work => AtWork(m)' = AtWork(m) /\ Detached' = Detached
      /\ AtWork(m)' => work' = work
      /\ AtWork(m) => work' = work
  BY DEF Elsewhere, AtWork, Detached, ns
<1>2. ClientKnown(m)'
  <2>1. ClientKnown(m)
    BY DEF ServiceInv
  <2>2. QED BY <1>1, <2>1 DEF Elsewhere, ClientKnown, Missed
<1>3. Released(m)'
  <2>1. Released(m)
    BY DEF ServiceInv
  <2>2. QED BY <1>1, <2>1 DEF Elsewhere, Released, Missed, Watched
<1>4. Attended(m)'
  <2>1. Attended(m)
    BY DEF ServiceInv
  <2>2. QED BY <1>1, <2>1 DEF Elsewhere, Attended, Missed, Watched
<1>5. ASSUME m \in Scope PROVE Served(m)'
  <2>1. Served(m)
    BY <1>5 DEF ServiceInv
  <2>2. QED BY <1>1, <2>1 DEF Elsewhere, Served, Fits
<1>6. ASSUME m \in Scope PROVE WatchKept(m)'
  <2>1. WatchKept(m)
    BY <1>6 DEF ServiceInv
  <2>2. QED BY <1>1, <2>1 DEF Elsewhere, WatchKept, Missed, Watched
<1>7. QED BY <1>2, <1>3, <1>4, <1>5, <1>6

\* Nothing changes for the other namespaces.
LEMMA LocalOthers ==
    ASSUME TypeOK, ServiceInv, NEW n, Local(n), NEW m \in Namespaces, m # n
    PROVE  /\ ClientKnown(m)' /\ Released(m)' /\ Attended(m)'
           /\ m \in Scope => Served(m)' /\ WatchKept(m)'
<1>1. ~ AtWork(m) /\ ~ AtWork(m)' /\ (Pending(m)' <=> Pending(m))
  BY LocalWork
<1>2. /\ services'[m] = services[m] /\ monitors'[m] = monitors[m] /\ mmServices'[m] = mmServices[m]
      /\ stream'.watches[m].name = stream.watches[m].name
      /\ ownerCache'[m] = ownerCache[m] /\ clusterScope' = clusterScope
      /\ \A what \in {"deletion", "tls", "watch"} : <<what, m>> \in lapses' <=> <<what, m>> \in lapses
  BY DEF Local, cacheVars, ServicesPart, MMPart, StreamPart, LapsePart
<1>3. QED BY <1>1, <1>2, ElsewhereKeeps DEF Elsewhere

\* Copies stay true or known to be old, and settings are not changed.
LEMMA LocalCopies ==
    ASSUME TypeOK, ServiceInv, NEW n, Local(n)
    PROVE  CopiesInv' /\ SettingsInv'
<1>1. /\ UNCHANGED <<owner, ownerCache, serviceCache, clusterScope, loaded, unhandled, handler>>
      /\ Scope' = Scope /\ n \in Scope
  BY LocalWork DEF Local, cacheVars, configVars
<1>2. CopiesInv'
  <2>1. CopiesInv
    BY DEF ServiceInv
  <2>2. \A m \in Namespaces : <<"owner", m>> \notin stale' => ownerCache'[m] = owner'[m]
    BY <1>1, <2>1 DEF CopiesInv, Local, ServicesPart
  <2>3. \A m \in Namespaces : <<"service", m>> \notin stale' => serviceCache'[m] = services'[m]
    BY <1>1, <2>1 DEF CopiesInv, Local, ServicesPart
  <2>4. \A m \in Namespaces \ Scope : services'[m] = NoServices /\ mmServices'[m] = NoService
    BY <1>1, <2>1 DEF CopiesInv, Local, ServicesPart, MMPart
  <2>5. QED BY <1>1, <2>1, <2>2, <2>3, <2>4 DEF CopiesInv
<1>3. SettingsInv'
  <2>1. SettingsInv
    BY DEF ServiceInv
  <2>2. GetConfig' = GetConfig
    BY <1>1 DEF GetConfig
  <2>3. \A m \in Namespaces :
          mmServices'[m] = NoService \/
            (mmServices[m] # NoService /\ mmServices'[m].settings = mmServices[m].settings)
    BY DEF Local, MMPart
  <2>4. \A m \in Namespaces :
          mmServices'[m] = NoService \/ (<<"config", m>> \in lapses => <<"config", m>> \in lapses')
    BY DEF Local, LapsePart
  <2>5. QED BY <1>1, <2>1, <2>2, <2>3, <2>4 DEF SettingsInv, Missed, Changed
<1>4. QED BY <1>2, <1>3

\* What is left to show of the namespace at hand.
NsInv(n) ==
    /\ WorkInv /\ DialInv /\ HeldInv
    /\ Served(n) /\ ClientKnown(n) /\ Released(n) /\ Attended(n)

\* A step that brings no watch up to date: an enabled namespace is not done with.
Unwatched(n) ==
    /\ StreamKept(n)
    /\ <<"watch", n>> \in lapses => <<"watch", n>> \in lapses'
    /\ work' = Idle /\ ~ Pending(n)' => ~ Enabled(ownerCache[n])

LEMMA UnwatchedKeeps ==
    ASSUME TypeOK, ServiceInv, NEW n, Local(n), Unwatched(n)
    PROVE  StreamInv' /\ SecretInv' /\ WatchKept(n)'
<1>1. /\ UNCHANGED <<ownerCache, loaded, unhandled, handler>> /\ Scope' = Scope /\ n \in Scope
      /\ n \in Namespaces
  BY LocalWork DEF Local, cacheVars, configVars
<1>2. StreamInv'
  <2>1. StreamInv
    BY DEF ServiceInv
  <2>2. NoWatch.name = "none" /\ "none" \notin Names
    BY Values DEF NoWatch
  <2>3. \A m \in Namespaces : stream'.watches[m] = stream.watches[m] \/ stream'.watches[m] = NoWatch
    BY DEF Unwatched, StreamKept
  <2>4. stream'.open = stream.open /\ stream'.secret = stream.secret
    BY DEF Unwatched, StreamKept
  <2>5. QED BY <2>1, <2>2, <2>3, <2>4 DEF StreamInv, Watched
<1>3. SecretInv'
  <2>1. SecretInv /\ GetConfig' = GetConfig
    BY <1>1 DEF ServiceInv, GetConfig
  <2>2. stream'.open = stream.open /\ stream'.secret = stream.secret
    BY DEF Unwatched, StreamKept
  <2>3. \A m \in Namespaces : <<"watch", m>> \in lapses => <<"watch", m>> \in lapses'
    BY DEF Unwatched, Local, LapsePart
  <2>4. \A m \in Scope : Enabled(ownerCache[m]) /\ ~ Pending(m)' /\ ~ AtWork(m)' =>
           ~ Pending(m) /\ ~ AtWork(m)
    <3> SUFFICES ASSUME NEW m \in Scope, Enabled(ownerCache[m]), ~ Pending(m)', ~ AtWork(m)'
                 PROVE  ~ Pending(m) /\ ~ AtWork(m)
      OBVIOUS
    <3>1. m # n
      BY LocalWork DEF Unwatched
    <3>2. m \in Namespaces
      BY ServiceAssumption DEF Scope, Namespaced
    <3>3. QED BY <3>1, <3>2, LocalWork
  <2>5. QED BY <1>1, <2>1, <2>2, <2>3, <2>4 DEF SecretInv, Missed
<1>4. WatchKept(n)'
  BY <1>1, LocalWork DEF Unwatched, WatchKept
<1>5. QED BY <1>2, <1>3, <1>4

\* A reconcile that is to be repeated has nothing to answer for.
LEMMA RequeuedKeeps ==
    ASSUME TypeOK, NEW n, Local(n), Requeued(n)
    PROVE  /\ WorkInv' /\ DialInv' /\ HeldInv' /\ Served(n)' /\ Released(n)' /\ Pending(n)'
           /\ ~ AtWork(n)'
<1>1. work'.phase = "idle" /\ ~ Detached' /\ ~ AtWork(n)' /\ n \in Scope /\ Scope' = Scope
  BY LocalWork DEF Requeued
<1>2. n \in queue' /\ Pending(n)'
  BY DEF Requeued, Pending
<1>3. WorkInv' /\ DialInv'
  BY <1>1 DEF WorkInv, DialInv
<1>4. Served(n)' /\ Released(n)'
  BY <1>2 DEF Served, Released
<1>5. HeldInv'
  BY <1>1, <1>2 DEF HeldInv, Held, Scope, Namespaced
<1>6. QED BY <1>1, <1>2, <1>3, <1>4, <1>5

-----------------------------------------------------------------------------
(* What each step of a reconcile preserves of its namespace *)

\* The client stays known if the MMService and its lapse do, and it is not dialled.
LEMMA ClientStays ==
    ASSUME NEW n, ClientKnown(n), mmServices'[n] = mmServices[n], work.phase # "dial",
           <<"tls", n>> \in lapses => <<"tls", n>> \in lapses'
    PROVE  ClientKnown(n)'
  BY DEF ClientKnown, Missed

\* A removed or kept watch stays attended to, if the MMService stays.
LEMMA WatchStays ==
    ASSUME NEW n, Attended(n), mmServices'[n] = mmServices[n],
           work.phase # "service" \/ mmServices[n] # NoService, StreamKept(n),
           <<"watch", n>> \in lapses => <<"watch", n>> \in lapses'
    PROVE  Attended(n)'
<1>1. NoWatch.name \notin Names
  BY Values DEF NoWatch
<1>2. stream'.watches[n] = stream.watches[n] \/ stream'.watches[n] = NoWatch
  BY DEF StreamKept
<1>3. QED BY <1>1, <1>2 DEF Attended, Missed, Watched

LEMMA UnchangedStream == ASSUME UNCHANGED stream, NEW n PROVE StreamKept(n)
  BY DEF StreamKept

LEMMA RemoveServiceKeeps ==
    ASSUME TypeOK, ServiceInv, NEW s \in Names, RemoveService(s), NEW n, n = ns
    PROVE  Local(n) /\ NsInv(n)' /\ Unwatched(n)
<1>1. /\ WorkInv /\ n \in Namespaces /\ ClientKnown(n) /\ Attended(n)
  BY WorkType DEF ServiceInv
<1>2. /\ Local(n) /\ work.phase = "remove"
      /\ UNCHANGED <<stream, mmServices, lapses>>
      /\ \/ Requeued(n)
         \/ /\ <<"service", n>> \in stale' /\ queue' = queue
            /\ work'.phase = "remove" /\ work'.mms = work.mms /\ work'.target = work.target
  BY <1>1, RemoveServiceStep
<1>3. ClientKnown(n)' /\ Attended(n)'
  BY <1>1, <1>2, ClientStays, WatchStays, UnchangedStream
<1>4. CASE Requeued(n)
  BY <1>2, <1>3, <1>4, RequeuedKeeps, UnchangedStream DEF NsInv, Unwatched
<1>5. CASE /\ <<"service", n>> \in stale' /\ queue' = queue
           /\ work'.phase = "remove" /\ work'.mms = work.mms /\ work'.target = work.target
  <2>1. Pending(n)'
    BY <1>5 DEF Pending
  <2>2. work' # Idle /\ ns' = n /\ AtWork(n)'
    BY <1>2, <1>5, IdleWork, LocalWork
  <2>3. UNCHANGED <<clusterScope, ownerCache>> /\ clusterScope
    BY <1>1, <1>2 DEF Local, cacheVars, WorkInv
  <2>4. WorkInv'
    BY <1>1, <1>2, <1>5, <2>2, <2>3 DEF WorkInv, Detached
  <2>5. DialInv' /\ HeldInv'
    BY <1>5, <2>3 DEF DialInv, HeldInv
  <2>6. Served(n)' /\ Released(n)'
    BY <2>1 DEF Served, Released
  <2>7. QED BY <1>2, <1>3, <2>2, <2>4, <2>5, <2>6, UnchangedStream DEF NsInv, Unwatched
<1>6. QED BY <1>2, <1>4, <1>5

LEMMA RemoveMMServiceKeeps ==
    ASSUME TypeOK, ServiceInv, RemoveMMService, NEW n, n = ns
    PROVE  Local(n) /\ NsInv(n)' /\ Unwatched(n)
<1>1. /\ WorkInv /\ n \in Namespaces /\ Attended(n)
  BY WorkType DEF ServiceInv
<1>2. /\ Local(n) /\ work.phase = "remove" /\ work.list = NoServices
      /\ UNCHANGED <<stream, services, monitors, stale, queue>>
      /\ mmServices'[n] = NoService
      /\ \A what : what # "config" => (<<what, n>> \in lapses' <=> <<what, n>> \in lapses)
      /\ \/ work' = Idle /\ mmServices[n] = NoService
         \/ work'.phase = "service" /\ work'.mms \in MMServices
  BY <1>1, RemoveMMServiceStep
<1>3. /\ clusterScope /\ UNCHANGED <<clusterScope, ownerCache>> /\ ~ Detached
      /\ n \notin queue => ownerCache[n] # "absent" /\ ~ Enabled(ownerCache[n])
      /\ n \notin queue /\ <<"service", n>> \notin stale => services[n] = NoServices
  BY <1>1, <1>2 DEF WorkInv, Local, cacheVars
<1>4. Pending(n)' <=> Pending(n)
  BY <1>2 DEF Pending
<1>5. ClientKnown(n)' /\ HeldInv'
  BY <1>2, <1>3 DEF ClientKnown, HeldInv
<1>6. Served(n)' /\ (~ Pending(n)' => ~ Enabled(ownerCache[n]))
  BY <1>2, <1>3, <1>4 DEF Served, Pending
<1>7. Released(n)'
  BY <1>2, <1>3, <1>4 DEF Released, Pending
<1>8. CASE work' = Idle /\ mmServices[n] = NoService
  <2>1. work'.phase = "idle" /\ ~ Detached'
    BY <1>2, <1>8, LocalWork
  <2>2. WorkInv' /\ DialInv'
    BY <2>1 DEF WorkInv, DialInv
  <2>3. Attended(n)'
    BY <1>1, <1>2, <1>8 DEF Attended, Missed, Watched
  <2>4. QED BY <1>2, <1>5, <1>6, <1>7, <2>2, <2>3, UnchangedStream DEF NsInv, Unwatched
<1>9. CASE work'.phase = "service" /\ work'.mms \in MMServices
  <2>1. work' # Idle /\ ns' = n /\ AtWork(n)' /\ Detached'
    BY <1>2, <1>9, IdleWork, LocalWork, Values DEF Detached
  <2>2. WorkInv'
    BY <1>2, <1>3, <1>9, <2>1 DEF WorkInv
  <2>3. DialInv' /\ Attended(n)'
    BY <1>9, <2>1 DEF DialInv, Attended
  <2>4. QED BY <1>2, <1>5, <1>6, <1>7, <2>1, <2>2, <2>3, UnchangedStream DEF NsInv, Unwatched
<1>10. QED BY <1>2, <1>8, <1>9

LEMMA ReconcileServiceKeeps ==
    ASSUME TypeOK, ServiceInv, ReconcileService, NEW n, n = ns
    PROVE  Local(n) /\ NsInv(n)' /\ Unwatched(n)
<1>1. /\ WorkInv /\ CopiesInv /\ n \in Namespaces /\ ClientKnown(n) /\ Attended(n) /\ Released(n)
      /\ serviceCache[n] \in ServiceSets
  BY WorkType DEF ServiceInv
<1>2. /\ Local(n) /\ work.phase = "service" /\ StreamKept(n)
      /\ UNCHANGED <<services, monitors, stale, mmServices>>
      /\ \A what : what # "watch" => (<<what, n>> \in lapses' <=> <<what, n>> \in lapses)
      /\ <<"watch", n>> \in lapses => <<"watch", n>> \in lapses'
      /\ Detached => stream'.watches[n] = NoWatch \/ <<"watch", n>> \in lapses'
  BY <1>1, ReconcileServiceStep
<1>3. \/ Requeued(n)
      \/ /\ ~ clusterScope \/ Enabled(ownerCache[n])
         /\ queue' = queue /\ work'.phase = "others" /\ work'.mms = work.mms
         /\ work'.list = serviceCache[n] /\ work'.target = Current.settings
         /\ work'.svc = Current.settings.name
      \/ /\ clusterScope /\ ownerCache[n] \notin {"on", "absent"} /\ queue' = queue
         /\ IF Detached THEN work' = Idle ELSE work'.phase = "watch" /\ work'.mms = work.mms
  BY <1>1, ReconcileServiceStep
<1>4. ClientKnown(n)'
  BY <1>1, <1>2, ClientStays
<1>5. Attended(n)'
  <2>1. NoWatch.name \notin Names
    BY Values DEF NoWatch
  <2>2. CASE Detached
    BY <1>2, <2>1, <2>2 DEF Attended, Missed, Watched
  <2>3. CASE ~ Detached
    <3>1. mmServices[n] # NoService
      BY <1>1, <1>2, <2>3 DEF WorkInv
    <3>2. QED BY <1>1, <1>2, <3>1, WatchStays
  <2>4. QED BY <2>2, <2>3
<1>6. /\ UNCHANGED <<clusterScope, ownerCache>>
      /\ clusterScope /\ n \notin queue => (Enabled(ownerCache[n]) <=> ~ Detached)
      /\ Detached => clusterScope
  BY <1>1, <1>2 DEF Local, cacheVars, WorkInv
<1>7. /\ Current \in MMServices /\ Current.settings \in AllSettings
      /\ ~ Detached => Current = mmServices[n]
  BY <1>1, <1>2, CurrentService, Operations
<1>8. CASE Requeued(n)
  BY <1>2, <1>4, <1>5, <1>8, RequeuedKeeps DEF NsInv, Unwatched
<1>9. CASE /\ ~ clusterScope \/ Enabled(ownerCache[n])
           /\ queue' = queue /\ work'.phase = "others" /\ work'.mms = work.mms
           /\ work'.list = serviceCache[n] /\ work'.target = Current.settings
           /\ work'.svc = Current.settings.name
  <2>1. work' # Idle /\ ns' = n /\ AtWork(n)' /\ (Detached' <=> Detached)
    BY <1>2, <1>9, IdleWork, LocalWork DEF Detached
  <2>2. n \notin queue => ~ Detached
    BY <1>6, <1>9
  <2>3. WorkInv'
    <3>1. <<"service", n>> \notin stale => serviceCache[n] = services[n]
      BY <1>1 DEF CopiesInv
    <3>2. QED BY <1>1, <1>2, <1>6, <1>7, <1>9, <2>1, <2>2, <3>1 DEF WorkInv
  <2>4. DialInv' /\ HeldInv'
    BY <1>9 DEF DialInv, HeldInv
  <2>5. Served(n)'
    BY <1>2, <1>7, <1>9, <2>1, <2>2 DEF Served, Pending
  <2>6. Released(n)'
    BY <1>6, <1>9, <2>1 DEF Released, Enabled
  <2>7. QED BY <1>2, <1>4, <1>5, <2>1, <2>3, <2>4, <2>5, <2>6 DEF NsInv, Unwatched
<1>10. CASE /\ clusterScope /\ ownerCache[n] \notin {"on", "absent"} /\ queue' = queue
            /\ Detached /\ work' = Idle
  <2>1. work'.phase = "idle" /\ ~ Detached' /\ ~ AtWork(n)'
    BY <1>2, <1>10, LocalWork
  <2>2. WorkInv' /\ DialInv' /\ HeldInv'
    BY <1>6, <1>10, <2>1 DEF WorkInv, DialInv, HeldInv
  <2>3. Served(n)' /\ (~ Pending(n)' => ~ Enabled(ownerCache[n]))
    BY <1>6, <1>10 DEF Served, Enabled
  <2>4. Released(n)'
    <3>1. Pending(n)' <=> Pending(n)
      BY <1>2, <1>10 DEF Pending
    <3>2. QED BY <1>1, <1>2, <1>6, <1>10, <3>1 DEF Released
  <2>5. QED BY <1>2, <1>4, <1>5, <2>2, <2>3, <2>4 DEF NsInv, Unwatched
<1>11. CASE /\ clusterScope /\ ownerCache[n] \notin {"on", "absent"} /\ queue' = queue
            /\ ~ Detached /\ work'.phase = "watch" /\ work'.mms = work.mms
  <2>1. work' # Idle /\ ns' = n /\ AtWork(n)' /\ ~ Detached'
    BY <1>2, <1>11, IdleWork, LocalWork DEF Detached
  <2>2. n \in queue /\ n \in queue' /\ Pending(n)'
    BY <1>6, <1>11 DEF Enabled, Pending
  <2>3. WorkInv' /\ DialInv' /\ HeldInv'
    BY <1>1, <1>2, <1>6, <1>11, <2>1, <2>2 DEF WorkInv, DialInv, HeldInv
  <2>4. Served(n)' /\ Released(n)'
    BY <2>2 DEF Served, Released
  <2>5. QED BY <1>2, <1>4, <1>5, <2>1, <2>3, <2>4 DEF NsInv, Unwatched
<1>12. QED BY <1>3, <1>8, <1>9, <1>10, <1>11

LEMMA DeleteOtherKeeps ==
    ASSUME TypeOK, ServiceInv, NEW s \in Names, DeleteOther(s), NEW n, n = ns
    PROVE  Local(n) /\ NsInv(n)' /\ Unwatched(n)
<1>1. /\ WorkInv /\ n \in Namespaces /\ ClientKnown(n) /\ Attended(n)
  BY WorkType DEF ServiceInv
<1>2. /\ Local(n) /\ work.phase = "others" /\ StreamKept(n)
      /\ UNCHANGED <<mmServices, lapses>>
      /\ \/ Requeued(n)
         \/ /\ <<"service", n>> \in stale' /\ queue' = queue
            /\ work'.phase = "others" /\ work'.mms = work.mms /\ work'.target = work.target
  BY <1>1, DeleteOtherStep
<1>3. ClientKnown(n)' /\ Attended(n)'
  BY <1>1, <1>2, ClientStays, WatchStays
<1>4. CASE Requeued(n)
  BY <1>2, <1>3, <1>4, RequeuedKeeps DEF NsInv, Unwatched
<1>5. CASE /\ <<"service", n>> \in stale' /\ queue' = queue
           /\ work'.phase = "others" /\ work'.mms = work.mms /\ work'.target = work.target
  <2>1. Pending(n)'
    BY <1>5 DEF Pending
  <2>2. work' # Idle /\ ns' = n /\ AtWork(n)'
    BY <1>2, <1>5, IdleWork, LocalWork
  <2>3. UNCHANGED <<clusterScope, ownerCache>>
    BY <1>2 DEF Local, cacheVars
  <2>4. WorkInv'
    BY <1>1, <1>2, <1>5, <2>2, <2>3 DEF WorkInv, Detached
  <2>5. DialInv' /\ HeldInv'
    BY <1>5 DEF DialInv, HeldInv
  <2>6. Served(n)' /\ Released(n)'
    BY <2>1 DEF Served, Released
  <2>7. QED BY <1>2, <1>3, <2>2, <2>4, <2>5, <2>6 DEF NsInv, Unwatched
<1>6. QED BY <1>2, <1>4, <1>5

LEMMA CreateServiceKeeps ==
    ASSUME TypeOK, ServiceInv, CreateService, NEW n, n = ns
    PROVE  Local(n) /\ NsInv(n)' /\ Unwatched(n)
<1>1. /\ WorkInv /\ n \in Namespaces /\ ClientKnown(n) /\ Attended(n)
  BY WorkType DEF ServiceInv
<1>2. /\ Local(n) /\ work.phase = "others"
      /\ UNCHANGED <<stream, lapses>>
      /\ IF Detached THEN mmServices' = mmServices
                     ELSE mmServices'[n] = Disconnect(mmServices[n])
      /\ \/ Requeued(n)
         \/ /\ ~ Detached /\ <<"service", n>> \in stale' /\ queue' = queue
            /\ work'.phase = "watch" /\ work'.mms = work.mms
  BY <1>1, CreateServiceStep
<1>3. ASSUME ~ Detached
      PROVE  mmServices'[n] # NoService /\ ~ Connected(mmServices'[n])
  <2>1. mmServices[n] \in MMServices /\ mmServices'[n] = Disconnect(mmServices[n])
    BY <1>1, <1>2, <1>3, CurrentService
  <2>2. Disconnect(mmServices[n]) \in MMServices /\ Disconnect(mmServices[n]).client = NoClient
    BY <2>1, Operations DEF Connected
  <2>3. QED BY <2>1, <2>2, Values DEF Connected
<1>4. ClientKnown(n)' /\ Attended(n)'
  <2>1. CASE Detached
    BY <1>1, <1>2, <2>1, ClientStays, WatchStays, UnchangedStream
  <2>2. CASE ~ Detached
    BY <1>3, <2>2 DEF ClientKnown, Attended
  <2>3. QED BY <2>1, <2>2
<1>5. CASE Requeued(n)
  BY <1>2, <1>4, <1>5, RequeuedKeeps, UnchangedStream DEF NsInv, Unwatched
<1>6. CASE /\ ~ Detached /\ <<"service", n>> \in stale' /\ queue' = queue
           /\ work'.phase = "watch" /\ work'.mms = work.mms
  <2>1. Pending(n)'
    BY <1>6 DEF Pending
  <2>2. work' # Idle /\ ns' = n /\ AtWork(n)' /\ ~ Detached'
    BY <1>2, <1>6, IdleWork, LocalWork DEF Detached
  <2>3. UNCHANGED <<clusterScope, ownerCache>> /\ n \in Scope
    BY <1>2 DEF Local, cacheVars
  <2>4. WorkInv'
    BY <1>1, <1>2, <1>3, <1>6, <2>2, <2>3 DEF WorkInv
  <2>5. DialInv'
    BY <1>6 DEF DialInv
  <2>6. HeldInv'
    BY <1>6, <2>3 DEF HeldInv, Held, Scope, Namespaced
  <2>7. Served(n)' /\ Released(n)'
    BY <2>1 DEF Served, Released
  <2>8. QED BY <1>2, <1>4, <2>2, <2>4, <2>5, <2>6, <2>7, UnchangedStream DEF NsInv, Unwatched
<1>7. QED BY <1>2, <1>5, <1>6

LEMMA RecreateServiceKeeps ==
    ASSUME TypeOK, ServiceInv, RecreateService, NEW n, n = ns
    PROVE  Local(n) /\ NsInv(n)' /\ Unwatched(n)
<1>1. /\ WorkInv /\ n \in Namespaces /\ ClientKnown(n) /\ Attended(n)
  BY WorkType DEF ServiceInv
<1>2. /\ Local(n) /\ work.phase = "others"
      /\ UNCHANGED <<stream, lapses, mmServices>>
      /\ \/ Requeued(n)
         \/ Detached /\ <<"service", n>> \in stale' /\ work' = Idle
  BY <1>1, RecreateServiceStep
<1>3. ClientKnown(n)' /\ Attended(n)'
  BY <1>1, <1>2, ClientStays, WatchStays, UnchangedStream
<1>4. CASE Requeued(n)
  BY <1>2, <1>3, <1>4, RequeuedKeeps, UnchangedStream DEF NsInv, Unwatched
<1>5. CASE Detached /\ <<"service", n>> \in stale' /\ work' = Idle
  <2>1. Pending(n)'
    BY <1>5 DEF Pending
  <2>2. work'.phase = "idle" /\ ~ Detached' /\ clusterScope' = clusterScope
    BY <1>2, <1>5, LocalWork DEF Local
  <2>3. WorkInv' /\ DialInv' /\ HeldInv'
    BY <1>1, <1>5, <2>2 DEF WorkInv, DialInv, HeldInv
  <2>4. Served(n)' /\ Released(n)'
    BY <2>1 DEF Served, Released
  <2>5. QED BY <1>2, <1>3, <2>1, <2>3, <2>4, UnchangedStream DEF NsInv, Unwatched
<1>6. QED BY <1>2, <1>4, <1>5

\* An updated set of Services is the one that is called for, if its other members
\* are gone.
LEMMA UpdatedFits ==
    ASSUME TypeOK, WorkInv, NEW n, n = ns, work.phase = "others", OthersDeleted,
           work.list = services[n], work.target = mmServices[n].settings
    PROVE  [services[n] EXCEPT ![work.target.name] = Target]
             = [s \in Names |-> IF s = mmServices[n].settings.name
                                  THEN ServiceSpec(mmServices[n].settings) ELSE NoSpec]
<1>1. services[n] \in ServiceSets
  BY WorkType
<1>2. DOMAIN services[n] = Names /\ services[n] = [s \in Names |-> services[n][s]]
  BY <1>1 DEF ServiceSets
<1>3. \A s \in Names : s # work.target.name => services[n][s] = NoSpec
  BY DEF OthersDeleted
<1>4. QED BY <1>2, <1>3 DEF Target

LEMMA UpdateServiceKeeps ==
    ASSUME TypeOK, ServiceInv, UpdateService, NEW n, n = ns
    PROVE  Local(n) /\ NsInv(n)' /\ Unwatched(n)
<1>1. /\ WorkInv /\ HeldInv /\ n \in Namespaces /\ ClientKnown(n) /\ Attended(n) /\ n \in Scope
      /\ Served(n) /\ Released(n)
  BY WorkType DEF ServiceInv
<1>2. /\ Local(n) /\ work.phase = "others" /\ OthersDeleted /\ Listed # NoSpec
      /\ UNCHANGED <<stream, lapses>>
  BY <1>1, UpdateServiceStep
<1>3. PICK failed \in BOOLEAN :
        /\ Connecting(n, failed)
        /\ ~ failed => services'[n] = [services[n] EXCEPT ![work.target.name] = Target]
        /\ failed => services' = services
  BY <1>1, UpdateServiceStep
<1>4. /\ UNCHANGED <<clusterScope, ownerCache>> /\ AtWork(n)
      /\ clusterScope /\ n \notin queue => ~ Detached /\ Enabled(ownerCache[n])
      /\ Detached => clusterScope
  BY <1>1, <1>2 DEF Local, cacheVars, WorkInv
<1>5. /\ Current \in MMServices /\ Current.settings \in AllSettings /\ NoService \notin MMServices
      /\ ~ Detached => Current = mmServices[n] /\ mmServices[n] \in MMServices /\ work.mms = NoService
  BY <1>1, <1>2, CurrentService, Operations, Values
<1>6. ~ Pending(n)' => ~ Pending(n) /\ n \notin queue /\ <<"service", n>> \notin stale /\ services'[n] = services[n]
  BY <1>2, LocalWork DEF Pending, Local, ServicesPart
<1>7. n \notin queue /\ <<"service", n>> \notin stale => work.list = services[n]
  BY <1>1, <1>2 DEF WorkInv
<1>8. ~ Pending(n)' /\ Enabled(ownerCache[n]) =>
        /\ ~ Detached
        /\ work.target = mmServices[n].settings /\ work.svc = mmServices[n].settings.name
        /\ ~ failed => services'[n] = [s \in Names |-> IF s = mmServices[n].settings.name
                                         THEN ServiceSpec(mmServices[n].settings) ELSE NoSpec]
  BY <1>1, <1>2, <1>3, <1>4, <1>6, <1>7, UpdatedFits DEF Served
<1>9. n = ControllerNamespace => Held
  <2>1. NoServices[work.target.name] = NoSpec
    BY <1>1, <1>2, TargetService DEF NoServices
  <2>2. QED BY <1>2, <1>7, <2>1 DEF Listed, Held
<1>10. n = ControllerNamespace => Held'
  <2>1. n \in queue => n \in queue'
    BY <1>2 DEF Local, QueuePart
  <2>2. <<"service", n>> \in stale => <<"service", n>> \in stale'
    BY <1>2 DEF Local, ServicesPart
  <2>3. services'[n] # services[n] => <<"service", n>> \in stale'
    BY <1>2 DEF Local, ServicesPart
  <2>4. QED BY <1>9, <2>1, <2>2, <2>3 DEF Held
<1>11. CASE /\ ConnectNeeded(Current)
            /\ queue' = queue /\ work'.phase = "dial" /\ work'.failed = failed
            /\ work'.target = Current.settings /\ work'.svc = work.svc
            /\ IF Detached
                 THEN mmServices' = mmServices /\ work'.mms \in MMServices
                 ELSE work'.mms = NoService /\ mmServices'[n] = TakeSettings(mmServices[n])
  <2>1. work' # Idle /\ ns' = n /\ AtWork(n)' /\ (Detached' <=> Detached)
    BY <1>2, <1>5, <1>11, IdleWork, LocalWork DEF Detached
  <2>2. ~ Detached => /\ mmServices'[n] \in MMServices /\ mmServices'[n] # NoService
                      /\ mmServices'[n].settings = mmServices[n].settings
                      /\ ~ mmServices'[n].reconnect
    BY <1>5, <1>11, Operations
  <2>3. WorkInv'
    BY <1>1, <1>2, <1>4, <1>5, <1>11, <2>1, <2>2 DEF WorkInv
  <2>4. DialInv'
    BY <1>5, <1>11, <2>1, <2>2 DEF DialInv, ClientChange
  <2>5. HeldInv'
    BY <1>10, <2>1, <1>4, <1>1 DEF HeldInv, Scope, Namespaced
  <2>6. ClientKnown(n)' /\ (Released(n)' \/ ~ clusterScope \/ Pending(n)')
    BY <1>4, <1>6, <1>11, <2>1, <2>2 DEF ClientKnown, Released, Enabled, Pending
  <2>7. Released(n)'
    BY <1>4, <2>6 DEF Released
  <2>8. Served(n)'
    BY <1>4, <1>8, <1>11, <2>1, <2>2 DEF Served, Fits
  <2>9. Attended(n)'
    <3>1. CASE Detached
      BY <1>1, <1>2, <1>11, <3>1, WatchStays, UnchangedStream
    <3>2. CASE ~ Detached
      BY <2>2, <3>2 DEF Attended
    <3>3. QED BY <3>1, <3>2
  <2>10. QED BY <1>2, <2>1, <2>3, <2>4, <2>5, <2>6, <2>7, <2>8, <2>9, UnchangedStream DEF NsInv, Unwatched
<1>12. CASE ~ ConnectNeeded(Current) /\ mmServices' = mmServices /\ Requeued(n)
  <2>1. ClientKnown(n)' /\ Attended(n)'
    BY <1>1, <1>2, <1>12, ClientStays, WatchStays, UnchangedStream
  <2>2. QED BY <1>2, <1>12, <2>1, RequeuedKeeps, UnchangedStream DEF NsInv, Unwatched
<1>13. CASE /\ ~ ConnectNeeded(Current) /\ mmServices' = mmServices /\ queue' = queue /\ ~ failed
            /\ Detached /\ work' = Idle
  <2>1. ClientKnown(n)' /\ Attended(n)'
    BY <1>1, <1>2, <1>13, ClientStays, WatchStays, UnchangedStream
  <2>2. Pending(n)' /\ clusterScope
    BY <1>4, <1>6, <1>13
  <2>3. work'.phase = "idle" /\ ~ Detached'
    BY <1>2, <1>13, LocalWork
  <2>4. WorkInv' /\ DialInv' /\ HeldInv' /\ Served(n)' /\ Released(n)'
    BY <1>4, <2>2, <2>3 DEF WorkInv, DialInv, HeldInv, Served, Released
  <2>5. QED BY <1>2, <2>1, <2>2, <2>4, UnchangedStream DEF NsInv, Unwatched
<1>14. CASE /\ ~ ConnectNeeded(Current) /\ mmServices' = mmServices /\ queue' = queue /\ ~ failed
            /\ ~ Detached /\ work'.phase = "watch" /\ work'.mms = NoService /\ work'.svc = work.svc
  <2>1. ClientKnown(n)' /\ Attended(n)'
    BY <1>1, <1>2, <1>14, ClientStays, WatchStays, UnchangedStream
  <2>2. work' # Idle /\ ns' = n /\ AtWork(n)' /\ ~ Detached'
    BY <1>2, <1>14, IdleWork, LocalWork DEF Detached
  <2>3. Connected(mmServices[n]) /\ ~ mmServices[n].reconnect /\ mmServices[n] # NoService
    BY <1>5, <1>14 DEF ConnectNeeded
  <2>4. WorkInv' /\ DialInv'
    BY <1>1, <1>2, <1>4, <1>14, <2>2, <2>3 DEF WorkInv, DialInv
  <2>5. HeldInv'
    BY <1>1, <1>4, <1>10 DEF HeldInv, Scope, Namespaced
  <2>6. Served(n)'
    BY <1>4, <1>8, <1>14, <2>2, <2>3 DEF Served, Fits
  <2>7. Released(n)'
    BY <1>4, <1>6, <1>14, <2>2 DEF Released, Enabled
  <2>8. QED BY <1>2, <2>1, <2>2, <2>4, <2>5, <2>6, <2>7, UnchangedStream DEF NsInv, Unwatched
<1>15. QED BY <1>3, <1>11, <1>12, <1>13, <1>14 DEF Connecting

LEMMA DialKeeps ==
    ASSUME TypeOK, ServiceInv, Dial, NEW n, n = ns
    PROVE  Local(n) /\ NsInv(n)' /\ Unwatched(n)
<1>1. /\ WorkInv /\ HeldInv /\ DialInv /\ n \in Namespaces /\ Attended(n) /\ n \in Scope
      /\ Served(n) /\ Released(n) /\ work.failed \in BOOLEAN
  BY WorkType DEF ServiceInv
<1>2. /\ Local(n) /\ work.phase = "dial"
      /\ UNCHANGED <<stream, services, monitors, stale>>
      /\ lapses' = lapses \ {<<"tls", n>>}
  BY <1>1, DialStep
<1>3. IF Detached THEN mmServices' = mmServices /\ work' = Idle
      ELSE /\ mmServices'[n] = Dialled(mmServices[n], work.target)
           /\ \/ Requeued(n)
              \/ /\ ~ work.failed /\ queue' = queue /\ work'.phase = "watch"
                 /\ work'.mms = NoService /\ work'.svc = work.svc
  BY <1>1, DialStep
<1>4. /\ UNCHANGED <<clusterScope, ownerCache>> /\ AtWork(n)
      /\ clusterScope /\ n \notin queue => ~ Detached /\ Enabled(ownerCache[n])
      /\ Detached => clusterScope
  BY <1>1, <1>2 DEF Local, cacheVars, WorkInv
<1>5. StreamKept(n) /\ (<<"watch", n>> \in lapses <=> <<"watch", n>> \in lapses')
  BY <1>2, UnchangedStream
<1>6. CASE Detached
  <2>1. work'.phase = "idle" /\ ~ Detached' /\ mmServices' = mmServices /\ work' = Idle
    BY <1>2, <1>3, <1>6, LocalWork
  <2>2. Pending(n)'
    BY <1>2, <1>4, <1>6, LocalWork DEF Pending
  <2>3. WorkInv' /\ DialInv' /\ HeldInv' /\ Served(n)' /\ Released(n)'
    BY <1>4, <1>6, <2>1, <2>2 DEF WorkInv, DialInv, HeldInv, Served, Released
  <2>4. ClientKnown(n)'
    BY <1>1, <1>6, <2>1 DEF WorkInv, ClientKnown
  <2>5. Attended(n)'
    BY <1>1, <1>2, <1>5, <2>1, WatchStays
  <2>6. QED BY <1>2, <1>5, <2>2, <2>3, <2>4, <2>5 DEF NsInv, Unwatched
<1>7. CASE ~ Detached
  <2>1. mmServices[n] \in MMServices /\ work.target \in AllSettings /\ mmServices[n] # NoService
    BY <1>1, <1>2, <1>7, CurrentService, Values DEF WorkInv
  <2>2. mmServices'[n] = Dialled(mmServices[n], work.target)
    BY <1>3, <1>7
  <2>3. /\ mmServices'[n] # NoService /\ mmServices'[n].settings = mmServices[n].settings
        /\ mmServices'[n].reconnect = mmServices[n].reconnect
        /\ mmServices'[n].client = work.target /\ work.target # NoClient
    <3> DEFINE d == Dialled(mmServices[n], work.target)
    <3>1. /\ d \in MMServices /\ d.settings = mmServices[n].settings
          /\ d.reconnect = mmServices[n].reconnect /\ d.client = work.target
      BY <2>1, Operations
    <3>2. d # NoService /\ work.target # NoClient
      BY <2>1, <3>1, Values
    <3>3. QED BY <2>2, <3>1, <3>2
  <2>4. ClientKnown(n)' /\ Attended(n)'
    BY <1>1, <1>2, <1>7, <2>3 DEF DialInv, ClientKnown, Attended
  <2>5. CASE Requeued(n)
    BY <1>2, <1>5, <2>4, <2>5, RequeuedKeeps DEF NsInv, Unwatched
  <2>6. CASE /\ ~ work.failed /\ queue' = queue /\ work'.phase = "watch"
             /\ work'.mms = NoService /\ work'.svc = work.svc
    <3>1. work' # Idle /\ ns' = n /\ AtWork(n)' /\ ~ Detached'
      BY <1>2, <2>6, IdleWork, LocalWork DEF Detached
    <3>2. WorkInv' /\ DialInv'
      BY <1>1, <1>2, <1>4, <1>7, <2>3, <2>6, <3>1 DEF WorkInv, DialInv
    <3>3. HeldInv'
      BY <1>1, <1>2, <1>4, <2>1, <2>6 DEF HeldInv, Held, Scope, Namespaced
    <3>4. Served(n)'
      BY <1>1, <1>2, <1>4, <2>3, <2>6, <3>1 DEF Served, Fits, Pending, Connected
    <3>5. Released(n)'
      BY <1>4, <2>6, <3>1 DEF Released, Enabled, Pending
    <3>6. QED BY <1>2, <1>5, <2>4, <3>1, <3>2, <3>3, <3>4, <3>5 DEF NsInv, Unwatched
  <2>7. QED BY <1>3, <1>7, <2>5, <2>6
<1>8. QED BY <1>6, <1>7

LEMMA DialFailureKeeps ==
    ASSUME TypeOK, ServiceInv, TLSLookupFails \/ DialFails, NEW n, n = ns
    PROVE  Local(n) /\ NsInv(n)' /\ Unwatched(n)
<1>1. /\ WorkInv /\ n \in Namespaces /\ Attended(n)
  BY WorkType DEF ServiceInv
<1>2. /\ Local(n) /\ work.phase = "dial" /\ Requeued(n) /\ UNCHANGED stream
      /\ <<"watch", n>> \in lapses <=> <<"watch", n>> \in lapses'
  BY <1>1, TLSLookupFailsStep, DialFailsStep
<1>3. /\ WorkInv' /\ DialInv' /\ HeldInv' /\ Served(n)' /\ Released(n)' /\ Pending(n)'
      /\ ~ AtWork(n)'
  BY <1>2, RequeuedKeeps
<1>4. Detached => mmServices[n] = NoService \/ ~ Connected(mmServices[n])
  BY <1>1 DEF WorkInv
<1>5. ~ Detached => mmServices[n] \in MMServices /\ NoService \notin MMServices
  BY <1>1, <1>2, CurrentService, Values
<1>6. CASE TLSLookupFails
  <2>1. mmServices' = mmServices /\ (~ Detached /\ Connected(mmServices[n]) => <<"tls", n>> \in lapses')
    BY <1>1, <1>6, TLSLookupFailsStep
  <2>2. ClientKnown(n)'
    BY <1>4, <2>1 DEF ClientKnown, Missed
  <2>3. Attended(n)'
    BY <1>1, <1>2, <2>1, WatchStays, UnchangedStream
  <2>4. QED BY <1>2, <1>3, <2>2, <2>3, UnchangedStream DEF NsInv, Unwatched
<1>7. CASE DialFails
  <2>1. IF Detached THEN mmServices' = mmServices ELSE mmServices'[n] = DialFailed(mmServices[n])
    BY <1>1, <1>7, DialFailsStep
  <2>2. ~ Detached => mmServices'[n] # NoService /\ mmServices'[n].reconnect
    BY <1>5, <2>1, Operations
  <2>3. ClientKnown(n)'
    BY <1>4, <2>1, <2>2 DEF ClientKnown
  <2>4. Attended(n)'
    <3>1. CASE Detached
      BY <1>1, <1>2, <2>1, <3>1, WatchStays, UnchangedStream
    <3>2. CASE ~ Detached
      BY <2>2, <3>2 DEF Attended
    <3>3. QED BY <3>1, <3>2
  <2>5. QED BY <1>2, <1>3, <2>3, <2>4, UnchangedStream DEF NsInv, Unwatched
<1>8. QED BY <1>6, <1>7

\* The end of a reconcile of an enabled namespace.
LEMMA UpdateWatchKeeps ==
    ASSUME TypeOK, ServiceInv, UpdateWatch, NEW n, n = ns
    PROVE  Local(n) /\ NsInv(n)' /\ StreamInv' /\ SecretInv' /\ WatchKept(n)'
<1>1. /\ WorkInv /\ HeldInv /\ StreamInv /\ SecretInv /\ n \in Namespaces /\ n \in Scope
      /\ Served(n) /\ Released(n) /\ ClientKnown(n)
  BY WorkType DEF ServiceInv
<1>2. /\ Local(n) /\ work.phase = "watch" /\ StreamInv' /\ work' = Idle
      /\ UNCHANGED <<services, stale, mmServices>>
      /\ <<"tls", n>> \in lapses => <<"tls", n>> \in lapses'
      /\ \/ work.cfg = GetConfig /\ ~ Changed(mmServices[n], work.cfg)
         \/ <<"watch", n>> \in lapses'
      /\ \/ stream'.secret = work.cfg.etcd /\ stream'.watches[n].name = work.cfg.name
         \/ /\ stream'.secret = stream.secret /\ Requeued(n)
            /\ <<"watch", n>> \in lapses => <<"watch", n>> \in lapses'
  BY <1>1, UpdateWatchStep
<1>3. \/ Requeued(n)
      \/ work.svc = "" /\ queue' = queue
      \/ /\ monitors' = monitors
         /\ monitors[n] = IF work.cfg.ports = "metrics" /\ services[n][work.svc] # NoSpec
                            THEN work.svc ELSE NoMonitor
  BY <1>1, UpdateWatchStep
<1>4. /\ UNCHANGED <<clusterScope, ownerCache, loaded, unhandled, handler>> /\ AtWork(n) /\ ~ Detached
      /\ clusterScope /\ n \notin queue => Enabled(ownerCache[n])
      /\ work'.phase = "idle" /\ ~ Detached' /\ ~ AtWork(n)' /\ Scope' = Scope
      /\ mmServices[n] # NoService
  BY <1>1, <1>2, LocalWork DEF Local, cacheVars, configVars, WorkInv
<1>5. ~ Pending(n)' => ~ Pending(n) /\ n \notin queue /\ ~ Requeued(n)
  BY <1>2, LocalWork DEF Pending, Requeued
<1>6. WorkInv' /\ DialInv'
  BY <1>4 DEF WorkInv, DialInv
<1>7. HeldInv'
  <2>1. n \in queue => n \in queue'
    BY <1>2 DEF Local, QueuePart
  <2>2. QED BY <1>1, <1>2, <1>4, <2>1 DEF HeldInv, Held, Scope, Namespaced
<1>8. Served(n)'
  BY <1>1, <1>2, <1>4, <1>5 DEF Served, Fits
<1>9. Released(n)'
  BY <1>4, <1>5 DEF Released, Enabled
<1>10. ClientKnown(n)' /\ Attended(n)'
  <2>1. <<"tls", n>> \in lapses => <<"tls", n>> \in lapses'
    BY <1>2
  <2>2. QED BY <1>1, <1>2, <1>4, <2>1, ClientStays DEF Attended
<1>11. GetConfig' = GetConfig
  BY <1>4 DEF GetConfig
<1>12. SecretInv'
  <2> SUFFICES ASSUME ~ unhandled, \A m \in Namespaces : <<"watch", m>> \notin lapses',
                      NEW m \in Scope \ handler,
                      Enabled(ownerCache[m]), ~ Pending(m)', ~ AtWork(m)'
               PROVE  stream'.secret = GetConfig.etcd
    BY <1>4, <1>11 DEF SecretInv, Missed
  <2>1. CASE stream'.secret = work.cfg.etcd
    BY <1>1, <1>2, <2>1
  <2>2. CASE /\ stream'.secret = stream.secret /\ Requeued(n)
             /\ <<"watch", n>> \in lapses => <<"watch", n>> \in lapses'
    <3>1. m # n /\ m \in Namespaces
      BY <2>2, ServiceAssumption DEF Requeued, Pending, Scope, Namespaced
    <3>2. ~ Pending(m) /\ ~ AtWork(m)
      BY <1>2, <3>1, LocalWork
    <3>3. \A k \in Namespaces : ~ Missed("watch", k)
      BY <1>2, <2>2 DEF Local, LapsePart, Missed
    <3>4. QED BY <1>1, <2>2, <3>2, <3>3 DEF SecretInv
  <2>3. QED BY <1>2, <2>1, <2>2
<1>13. WatchKept(n)'
  <2> SUFFICES ASSUME Enabled(ownerCache[n]), ~ Pending(n)', <<"watch", n>> \notin lapses'
               PROVE  /\ stream'.watches[n].name = mmServices[n].settings.name
                      /\ monitors'[n] = IF mmServices[n].settings.ports = "metrics"
                                          THEN mmServices[n].settings.name ELSE NoMonitor
    BY <1>2, <1>4 DEF WatchKept, Missed, Watched
  <2>1. mmServices[n].settings = Settings(work.cfg) /\ work.cfg \in Configs
    BY <1>2, WorkType DEF Changed
  <2>2. /\ mmServices[n].settings.name = work.cfg.name /\ mmServices[n].settings.ports = work.cfg.ports
        /\ mmServices[n].settings \in AllSettings /\ work.cfg.name \in Names /\ work.cfg.name # ""
    BY <2>1, Values
  <2>3. Fits(n) /\ work.svc = work.cfg.name
    BY <1>1, <1>2, <1>4, <1>5, <2>2 DEF Served
  <2>4. services[n][work.svc] = ServiceSpec(mmServices[n].settings)
    BY <2>2, <2>3 DEF Fits
  <2>5. services[n][work.svc] # NoSpec
    BY <2>2, <2>4, Values
  <2>6. QED BY <1>2, <1>3, <1>5, <2>2, <2>3, <2>5
<1>14. QED BY <1>2, <1>6, <1>7, <1>8, <1>9, <1>10, <1>12, <1>13 DEF NsInv

\* Every step of a reconcile keeps the invariant.
LEMMA ReconcileStepKeeps ==
    ASSUME TypeOK, ServiceInv,
           \/ \E s \in Names : RemoveService(s) \/ DeleteOther(s)
           \/ RemoveMMService \/ ReconcileService \/ CreateService \/ RecreateService
           \/ UpdateService \/ Dial \/ TLSLookupFails \/ DialFails
           \/ UpdateWatch
    PROVE  TypeOK' /\ ServiceInv'
<1>1. PICK n : n = ns
  OBVIOUS
<1>2. Local(n) /\ NsInv(n)' /\ StreamInv' /\ SecretInv' /\ WatchKept(n)'
  <2>1. CASE UpdateWatch
    BY <1>1, <2>1, UpdateWatchKeeps
  <2>2. CASE ~ UpdateWatch
    <3>1. Local(n) /\ NsInv(n)' /\ Unwatched(n)
      BY <1>1, <2>2, RemoveServiceKeeps, DeleteOtherKeeps, RemoveMMServiceKeeps,
         ReconcileServiceKeeps, CreateServiceKeeps, RecreateServiceKeeps, UpdateServiceKeeps,
         DialKeeps, DialFailureKeeps
    <3>2. QED BY <3>1, UnwatchedKeeps
  <2>3. QED BY <2>1, <2>2
<1>3. TypeOK' /\ CopiesInv' /\ SettingsInv' /\ Scope' = Scope
  BY <1>2, LocalType, LocalCopies, LocalWork
<1>4. \A m \in Namespaces : ClientKnown(m)' /\ Released(m)' /\ Attended(m)'
  BY <1>2, LocalOthers DEF NsInv
<1>5. \A m \in Scope : Served(m)' /\ WatchKept(m)'
  <2>1. Scope \subseteq Namespaces
    BY ServiceAssumption DEF Scope, Namespaced
  <2>2. QED BY <1>2, <2>1, LocalOthers DEF NsInv
<1>6. QED BY <1>2, <1>3, <1>4, <1>5 DEF ServiceInv, NsInv

-----------------------------------------------------------------------------
(* The cluster, events and the handler *)

\* A change of namespace n, or the beginning of its reconcile, leaves the stream's
\* client and the configuration alone.
LEMMA ConcernsOne ==
    ASSUME TypeOK, ServiceInv, NEW n \in Scope,
           \A m \in Namespaces \ {n} : Elsewhere(m),
           UNCHANGED <<configVars, stream, clusterScope, handler>>,
           \A what \in {"config", "watch"} : \A m \in Namespaces :
               <<what, m>> \in lapses' <=> <<what, m>> \in lapses,
           Pending(n)' \/ AtWork(n)' \/ ~ Enabled(ownerCache'[n])
    PROVE  /\ StreamInv' /\ SecretInv' /\ Scope' = Scope /\ n \in Namespaces
           /\ Served(n)' /\ ClientKnown(n)' /\ Released(n)' /\ Attended(n)'
                => (\A m \in Scope : Served(m)' /\ WatchKept(m)')
                     /\ (\A m \in Namespaces : ClientKnown(m)' /\ Released(m)' /\ Attended(m)')
<1>1. Scope' = Scope /\ GetConfig' = GetConfig /\ Scope \subseteq Namespaces /\ n \in Namespaces
  BY ServiceAssumption DEF Scope, GetConfig, configVars, Namespaced
<1>2. StreamInv'
  BY DEF ServiceInv, StreamInv, Watched
<1>3. WatchKept(n)'
  BY DEF WatchKept
<1>4. SecretInv'
  <2>1. SecretInv
    BY DEF ServiceInv
  <2>2. \A m \in Scope : Enabled(ownerCache'[m]) /\ ~ Pending(m)' /\ ~ AtWork(m)' =>
           Enabled(ownerCache[m]) /\ ~ Pending(m) /\ ~ AtWork(m)
    <3> SUFFICES ASSUME NEW m \in Scope, Enabled(ownerCache'[m]), ~ Pending(m)', ~ AtWork(m)'
                 PROVE  Enabled(ownerCache[m]) /\ ~ Pending(m) /\ ~ AtWork(m)
      OBVIOUS
    <3>1. Elsewhere(m)
      BY <1>1
    <3>2. AtWork(m) => AtWork(m)'
      BY <3>1 DEF Elsewhere, AtWork, ns
    <3>3. QED BY <3>1, <3>2 DEF Elsewhere
  <2>3. \A m \in Namespaces : Missed("watch", m)' <=> Missed("watch", m)
    BY DEF Missed
  <2>4. QED BY <1>1, <2>1, <2>2, <2>3 DEF SecretInv, configVars
<1>5. QED BY <1>1, <1>2, <1>3, <1>4, ElsewhereKeeps

LEMMA ChangeOwnerKeeps ==
    ASSUME TypeOK, ServiceInv, NEW n \in Namespaces, NEW state \in Owners, ChangeOwner(n, state)
    PROVE  TypeOK' /\ ServiceInv'
<1>1. /\ n \in Scope /\ Scope' = Scope
      /\ UNCHANGED <<configVars, stream, clusterScope, services, monitors, cacheVars, mmServices,
                     queue, work, handler, lapses>>
      /\ owner' = [owner EXCEPT ![n] = state] /\ stale' = stale \cup {<<"owner", n>>}
  BY DEF ChangeOwner, Scope
<1>2. TypeOK'
  BY <1>1 DEF TypeOK, configVars, cacheVars, ns
<1>3. CopiesInv'
  <2>1. CopiesInv
    BY DEF ServiceInv
  <2>2. /\ clusterScope => n # ControllerNamespace
        /\ ~ clusterScope => state \in {"on", "absent"}
    BY DEF ChangeOwner
  <2>3. \A m \in Namespaces : owner'[m] = IF m = n THEN state ELSE owner[m]
    BY <1>1 DEF TypeOK
  <2>4. \A m \in Namespaces : <<"owner", m>> \notin stale' => ownerCache'[m] = owner'[m]
    BY <1>1, <2>1, <2>3 DEF CopiesInv, cacheVars
  <2>5. \A m \in Namespaces : <<"service", m>> \notin stale' => serviceCache'[m] = services'[m]
    BY <1>1, <2>1 DEF CopiesInv, cacheVars
  <2>6. clusterScope' => owner'[ControllerNamespace] = "on" /\ ownerCache'[ControllerNamespace] = "on"
    BY <1>1, <2>1, <2>2, <2>3, ServiceAssumption DEF CopiesInv, cacheVars
  <2>7. ~ clusterScope' => \A m \in Namespaces : {owner'[m], ownerCache'[m]} \subseteq {"on", "absent"}
    BY <1>1, <2>1, <2>2, <2>3 DEF CopiesInv, cacheVars
  <2>8. QED BY <1>1, <2>1, <2>4, <2>5, <2>6, <2>7 DEF CopiesInv
<1>4. SettingsInv'
  BY <1>1 DEF ServiceInv, SettingsInv, configVars, GetConfig, Missed
<1>5. <<"service", n>> \in stale' <=> <<"service", n>> \in stale
  BY <1>1
<1>6. \A m \in Namespaces : <<"service", m>> \in stale' <=> <<"service", m>> \in stale
  BY <1>1
<1>7. WorkInv' /\ DialInv' /\ HeldInv'
  <2>1. ns \in Namespaces
    BY WorkType
  <2>2. QED BY <1>1, <1>6, <2>1, ServiceAssumption
        DEF ServiceInv, WorkInv, DialInv, HeldInv, Held, Detached, ns, cacheVars
<1>8. Pending(n)' /\ \A m \in Namespaces \ {n} : Elsewhere(m)
  BY <1>1 DEF Pending, Elsewhere, cacheVars
<1>9. ClientKnown(n)' /\ Attended(n)'
  BY <1>1 DEF ServiceInv, ClientKnown, Attended, Missed, AtWork, ns, Detached, Watched
<1>10. Served(n)' /\ Released(n)'
  BY <1>8 DEF Served, Released
<1>11. QED BY <1>1, <1>2, <1>3, <1>4, <1>7, <1>8, <1>9, <1>10, ConcernsOne DEF ServiceInv

LEMMA CollectKeeps ==
    ASSUME TypeOK, ServiceInv, NEW n \in Namespaces, Collect(n)
    PROVE  TypeOK' /\ ServiceInv'
<1>1. /\ Scope' = Scope /\ Collectable(n)
      /\ UNCHANGED <<configVars, stream, clusterScope, cacheVars, mmServices, queue, work,
                     handler, lapses>>
      /\ owner' = [owner EXCEPT ![n] = "absent"]
      /\ services' = [services EXCEPT ![n] = NoServices]
      /\ monitors' = [monitors EXCEPT ![n] = NoMonitor]
      /\ stale' = stale \cup {<<"owner", n>>, <<"service", n>>}
  BY DEF Collect, Scope
<1>2. CopiesInv
  BY DEF ServiceInv
<1>3. n \in Scope /\ (clusterScope => n # ControllerNamespace)
  BY <1>1, <1>2, ServiceAssumption DEF CopiesInv, Collectable, Scope
<1>4. TypeOK'
  <2>1. owner' \in [Namespaces -> Owners]
    BY <1>1 DEF TypeOK, Owners
  <2>2. NoServices \in ServiceSets
    BY Values
  <2>3. services' \in [Namespaces -> ServiceSets]
    BY <1>1, <2>2 DEF TypeOK
  <2>4. monitors' \in [Namespaces -> Names \cup {NoMonitor}]
    BY <1>1 DEF TypeOK
  <2>5. stale' \subseteq {"owner", "service"} \X Scope
    BY <1>1, <1>3 DEF TypeOK
  <2>6. QED BY <1>1, <2>1, <2>3, <2>4, <2>5 DEF TypeOK, configVars, cacheVars, ns
<1>5. CopiesInv'
  <2>1. \A m \in Namespaces : /\ owner'[m] = IF m = n THEN "absent" ELSE owner[m]
                              /\ services'[m] = IF m = n THEN NoServices ELSE services[m]
    BY <1>1 DEF TypeOK
  <2>2. \A m \in Namespaces : <<"owner", m>> \notin stale' => ownerCache'[m] = owner'[m]
    BY <1>1, <1>2, <2>1 DEF CopiesInv, cacheVars
  <2>3. \A m \in Namespaces : <<"service", m>> \notin stale' => serviceCache'[m] = services'[m]
    BY <1>1, <1>2, <2>1 DEF CopiesInv, cacheVars
  <2>4. clusterScope' => owner'[ControllerNamespace] = "on" /\ ownerCache'[ControllerNamespace] = "on"
    BY <1>1, <1>2, <1>3, <2>1, ServiceAssumption DEF CopiesInv, cacheVars
  <2>5. ~ clusterScope' => \A m \in Namespaces : {owner'[m], ownerCache'[m]} \subseteq {"on", "absent"}
    BY <1>1, <1>2, <2>1 DEF CopiesInv, cacheVars
  <2>6. QED BY <1>1, <1>2, <2>1, <2>2, <2>3, <2>4, <2>5 DEF CopiesInv
<1>6. SettingsInv'
  BY <1>1 DEF ServiceInv, SettingsInv, configVars, GetConfig, Missed
<1>7. \A m \in Namespaces : services'[m] = services[m] \/ <<"service", m>> \in stale'
  BY <1>1 DEF TypeOK
<1>8. \A m \in Namespaces : <<"service", m>> \in stale => <<"service", m>> \in stale'
  BY <1>1
<1>9. WorkInv' /\ DialInv' /\ HeldInv'
  <2>1. ns \in Namespaces
    BY WorkType
  <2>2. QED BY <1>1, <1>7, <1>8, <2>1, ServiceAssumption
        DEF ServiceInv, WorkInv, DialInv, HeldInv, Held, Detached, ns, cacheVars
<1>10. Pending(n)' /\ \A m \in Namespaces \ {n} : Elsewhere(m)
  BY <1>1 DEF Pending, Elsewhere, cacheVars, TypeOK
<1>11. ClientKnown(n)' /\ Attended(n)'
  BY <1>1 DEF ServiceInv, ClientKnown, Attended, Missed, AtWork, ns, Detached, Watched
<1>12. Served(n)' /\ Released(n)'
  BY <1>10 DEF Served, Released
<1>13. QED BY <1>1, <1>3, <1>4, <1>5, <1>6, <1>9, <1>10, <1>11, <1>12, ConcernsOne DEF ServiceInv

LEMMA OwnerEventKeeps ==
    ASSUME TypeOK, ServiceInv, NEW n \in Namespaces, OwnerEvent(n)
    PROVE  TypeOK' /\ ServiceInv'
<1>1. /\ Scope' = Scope /\ <<"owner", n>> \in stale /\ stale' = stale \ {<<"owner", n>>}
      /\ UNCHANGED <<configVars, stream, clusterScope, owner, services, monitors, serviceCache,
                     mmServices, work, handler, lapses>>
      /\ ownerCache' = [ownerCache EXCEPT ![n] = owner[n]]
  BY DEF OwnerEvent, Scope, apiVars
<1>2. queue' = IF clusterScope \/ owner[n] # "absent" THEN queue \cup {n} ELSE queue
  BY DEF OwnerEvent
<1>3. n \in Scope
  BY <1>1 DEF TypeOK
<1>4. CopiesInv
  BY DEF ServiceInv
<1>5. \A m \in Namespaces : ownerCache'[m] = IF m = n THEN owner[n] ELSE ownerCache[m]
  BY <1>1 DEF TypeOK
<1>6. TypeOK'
  <2>1. ownerCache' \in [Namespaces -> Owners]
    BY <1>1 DEF TypeOK
  <2>2. queue' \subseteq Scope
    BY <1>2, <1>3 DEF TypeOK
  <2>3. stale' \subseteq {"owner", "service"} \X Scope
    BY <1>1 DEF TypeOK
  <2>4. QED BY <1>1, <2>1, <2>2, <2>3 DEF TypeOK, configVars, ns
<1>7. CopiesInv'
  <2>1. \A m \in Namespaces : <<"owner", m>> \notin stale' => ownerCache'[m] = owner'[m]
    BY <1>1, <1>4, <1>5 DEF CopiesInv
  <2>2. \A m \in Namespaces : <<"service", m>> \notin stale' => serviceCache'[m] = services'[m]
    BY <1>1, <1>4 DEF CopiesInv
  <2>3. clusterScope' => owner'[ControllerNamespace] = "on" /\ ownerCache'[ControllerNamespace] = "on"
    BY <1>1, <1>4, <1>5, ServiceAssumption DEF CopiesInv
  <2>4. ~ clusterScope' => \A m \in Namespaces : {owner'[m], ownerCache'[m]} \subseteq {"on", "absent"}
    BY <1>1, <1>4, <1>5 DEF CopiesInv
  <2>5. QED BY <1>1, <1>4, <2>1, <2>2, <2>3, <2>4 DEF CopiesInv
<1>8. SettingsInv'
  BY <1>1 DEF ServiceInv, SettingsInv, configVars, GetConfig, Missed
<1>9. \A m \in Namespaces : /\ <<"service", m>> \in stale' <=> <<"service", m>> \in stale
                            /\ m \in queue => m \in queue'
                            /\ clusterScope /\ m \notin queue' => ownerCache'[m] = ownerCache[m]
  BY <1>1, <1>2, <1>5
<1>10. WorkInv' /\ DialInv' /\ HeldInv'
  <2>1. ns \in Namespaces /\ ns' = ns /\ Detached' = Detached
    BY <1>1, WorkType DEF ns, Detached
  <2>2. WorkInv'
    BY <1>1, <1>9, <2>1 DEF ServiceInv, WorkInv
  <2>3. DialInv'
    BY <1>1, <2>1 DEF ServiceInv, DialInv
  <2>4. HeldInv'
    BY <1>1, <1>9, ServiceAssumption DEF ServiceInv, HeldInv, Held
  <2>5. QED BY <2>2, <2>3, <2>4
<1>11. \A m \in Namespaces \ {n} : Elsewhere(m)
  BY <1>1, <1>2, <1>5 DEF Pending, Elsewhere
<1>12. /\ clusterScope' => Pending(n)'
       /\ Pending(n)' \/ ~ Enabled(ownerCache'[n])
  BY <1>1, <1>2, <1>5 DEF Pending, Enabled
<1>13. ClientKnown(n)' /\ Attended(n)'
  BY <1>1 DEF ServiceInv, ClientKnown, Attended, Missed, AtWork, ns, Detached, Watched
<1>14. Served(n)' /\ Released(n)'
  BY <1>12 DEF Served, Released
<1>15. QED BY <1>1, <1>3, <1>6, <1>7, <1>8, <1>10, <1>11, <1>12, <1>13, <1>14, ConcernsOne DEF ServiceInv

LEMMA ServiceEventKeeps ==
    ASSUME TypeOK, ServiceInv, NEW n \in Namespaces, ServiceEvent(n)
    PROVE  TypeOK' /\ ServiceInv'
<1>1. /\ Scope' = Scope /\ <<"service", n>> \in stale /\ stale' = stale \ {<<"service", n>>}
      /\ UNCHANGED <<configVars, stream, clusterScope, owner, services, monitors, ownerCache,
                     mmServices, work, handler, lapses>>
      /\ serviceCache' = [serviceCache EXCEPT ![n] = services[n]]
      /\ queue' = queue \cup {n}
  BY DEF ServiceEvent, Scope, apiVars
<1>2. n \in Scope
  BY <1>1 DEF TypeOK
<1>3. CopiesInv
  BY DEF ServiceInv
<1>4. \A m \in Namespaces : serviceCache'[m] = IF m = n THEN services[n] ELSE serviceCache[m]
  BY <1>1 DEF TypeOK
<1>5. TypeOK'
  <2>1. serviceCache' \in [Namespaces -> ServiceSets]
    BY <1>1 DEF TypeOK
  <2>2. queue' \subseteq Scope /\ stale' \subseteq {"owner", "service"} \X Scope
    BY <1>1, <1>2 DEF TypeOK
  <2>3. QED BY <1>1, <2>1, <2>2 DEF TypeOK, configVars, ns
<1>6. CopiesInv'
  <2>1. \A m \in Namespaces : <<"owner", m>> \notin stale' => ownerCache'[m] = owner'[m]
    BY <1>1, <1>3 DEF CopiesInv
  <2>2. \A m \in Namespaces : <<"service", m>> \notin stale' => serviceCache'[m] = services'[m]
    BY <1>1, <1>3, <1>4 DEF CopiesInv
  <2>3. QED BY <1>1, <1>3, <2>1, <2>2 DEF CopiesInv
<1>7. SettingsInv'
  BY <1>1 DEF ServiceInv, SettingsInv, configVars, GetConfig, Missed
<1>8. \A m \in Namespaces : m \notin queue' =>
         m \notin queue /\ (<<"service", m>> \in stale' <=> <<"service", m>> \in stale)
  BY <1>1
<1>9. WorkInv' /\ DialInv' /\ HeldInv'
  <2>1. ns \in Namespaces /\ ns' = ns /\ Detached' = Detached
    BY <1>1, WorkType DEF ns, Detached
  <2>2. WorkInv'
    BY <1>1, <1>8, <2>1 DEF ServiceInv, WorkInv
  <2>3. DialInv'
    BY <1>1, <2>1 DEF ServiceInv, DialInv
  <2>4. HeldInv'
    BY <1>1, <1>8, ServiceAssumption DEF ServiceInv, HeldInv, Held
  <2>5. QED BY <2>2, <2>3, <2>4
<1>10. Pending(n)' /\ \A m \in Namespaces \ {n} : Elsewhere(m)
  BY <1>1 DEF Pending, Elsewhere
<1>11. ClientKnown(n)' /\ Attended(n)'
  BY <1>1 DEF ServiceInv, ClientKnown, Attended, Missed, AtWork, ns, Detached, Watched
<1>12. Served(n)' /\ Released(n)'
  BY <1>10 DEF Served, Released
<1>13. QED BY <1>1, <1>2, <1>5, <1>6, <1>7, <1>9, <1>10, <1>11, <1>12, ConcernsOne DEF ServiceInv

\* A change of the ConfigMap, and its handlers until an MMService changes, are of
\* no concern to what is there.
LEMMA ConfigKeeps ==
    ASSUME TypeOK, ServiceInv, SettingsInv', SecretInv',
           UNCHANGED <<stream, clusterScope, apiVars, cacheVars, stale, mmServices, queue, work,
                       lapses>>
    PROVE  ServiceInv'
<1>1. Scope' = Scope /\ ns' = ns /\ Detached' = Detached
  BY DEF Scope, ns, Detached
<1>2. CopiesInv'
  BY <1>1 DEF ServiceInv, CopiesInv, apiVars, cacheVars
<1>3. WorkInv'
  BY <1>1 DEF ServiceInv, WorkInv, apiVars, cacheVars
<1>4. DialInv' /\ StreamInv' /\ HeldInv'
  BY <1>1 DEF ServiceInv, DialInv, StreamInv, HeldInv, Held, apiVars, Watched
<1>5. \A m \in Namespaces : Elsewhere(m)
  BY DEF Elsewhere, Pending, apiVars, cacheVars
<1>6. \A m \in Scope : m \in Namespaces
  BY ServiceAssumption DEF Scope, Namespaced
<1>7. QED BY <1>1, <1>2, <1>3, <1>4, <1>5, <1>6, ElsewhereKeeps DEF ServiceInv

LEMMA ChangeConfigKeeps ==
    ASSUME TypeOK, ServiceInv,
           NEW m \in ConfigMaps \cup {NoConfigMap, BadConfigMap}, ChangeConfig(m)
    PROVE  TypeOK' /\ ServiceInv'
<1>1. /\ configMap' = m /\ unhandled' = TRUE /\ loaded' = loaded
      /\ UNCHANGED <<stream, clusterScope, apiVars, cacheVars, stale, mmServices, queue, work,
                     handler, lapses>>
  BY DEF ChangeConfig, SetConfigMap
<1>2. TypeOK'
  BY <1>1 DEF TypeOK, apiVars, cacheVars, ns, Scope
<1>3. SettingsInv' /\ SecretInv'
  BY <1>1 DEF SettingsInv, SecretInv
<1>4. QED BY <1>1, <1>2, <1>3, ConfigKeeps

LEMMA OtherHandlerKeeps ==
    ASSUME TypeOK, ServiceInv, OtherHandler
    PROVE  TypeOK' /\ ServiceInv'
<1>1. /\ configMap' = configMap /\ unhandled' = TRUE /\ unhandled
      /\ loaded' = IF configMap = BadConfigMap THEN loaded ELSE configMap
      /\ UNCHANGED <<stream, clusterScope, apiVars, cacheVars, stale, mmServices, queue, work,
                     handler, lapses>>
  BY DEF OtherHandler, HandleElsewhere, ReloadConfigMap, TypeOK
<1>2. TypeOK'
  BY <1>1 DEF TypeOK, apiVars, cacheVars, ns, Scope
<1>3. SettingsInv' /\ SecretInv'
  BY <1>1 DEF SettingsInv, SecretInv
<1>4. QED BY <1>1, <1>2, <1>3, ConfigKeeps

\* The handler has every enabled namespace to see to, the controller's own among
\* them.
LEMMA HandlerBeginsKeeps ==
    ASSUME TypeOK, ServiceInv, HandlerBegins
    PROVE  TypeOK' /\ ServiceInv'
<1>1. /\ configMap' = configMap /\ unhandled' = FALSE
      /\ loaded' = IF configMap = BadConfigMap THEN loaded ELSE configMap
      /\ handler' = IF clusterScope THEN {n \in Namespaces : Enabled(ownerCache[n])} ELSE Namespaced
      /\ UNCHANGED <<stream, clusterScope, apiVars, cacheVars, stale, mmServices, queue, work, lapses>>
  BY DEF HandlerBegins, HandleConfig, ReloadConfigMap
<1>2. /\ handler' # {} /\ handler' \subseteq Scope /\ Scope' = Scope
      /\ \A n \in Scope \ handler' : ~ Enabled(ownerCache[n])
  <2>1. clusterScope => Enabled(ownerCache[ControllerNamespace])
    BY DEF ServiceInv, CopiesInv, Enabled
  <2>2. QED BY <1>1, <2>1, ServiceAssumption DEF Scope, Namespaced
<1>3. TypeOK'
  BY <1>1, <1>2 DEF TypeOK, apiVars, cacheVars, ns
<1>4. SettingsInv' /\ SecretInv'
  BY <1>1, <1>2 DEF SettingsInv, SecretInv, cacheVars
<1>5. QED BY <1>1, <1>3, <1>4, ConfigKeeps

\* The handler gives a namespace the settings in use, and asks for a reconcile if
\* they differ; a client stays, and one that is no longer fit is marked.
LEMMA HandlerEffect ==
    ASSUME TypeOK, HandlerUpdates, NEW m \in Namespaces
    PROVE  /\ m \notin handler => mmServices'[m] = mmServices[m]
           /\ m \in handler => /\ mmServices'[m] \in MMServices
                               /\ mmServices'[m].settings = Settings(GetConfig)
                               /\ m \in queue' \/ mmServices'[m] = mmServices[m]
           /\ mmServices[m] = NoService => mmServices'[m] = NoService \/ ~ Connected(mmServices'[m])
           /\ mmServices[m] # NoService =>
                /\ mmServices'[m] # NoService /\ mmServices'[m].client = mmServices[m].client
                /\ mmServices[m].reconnect => mmServices'[m].reconnect
                /\ ~ mmServices'[m].reconnect =>
                     ~ ClientChange(mmServices[m].settings, mmServices'[m].settings)
<1>1. /\ mmServices'[m] = IF m \in handler THEN UpdateConfig(GetOrCreate(m), GetConfig)
                                            ELSE mmServices[m]
      /\ m \in handler /\ Changed(GetOrCreate(m), GetConfig) => m \in queue'
  BY DEF HandlerUpdates
<1>2. GetConfig \in Configs /\ NoService \notin MMServices
  BY InUse, Values
<1>3. mmServices[m] \in MMServices \cup {NoService}
  BY DEF TypeOK
<1>4. CASE m \notin handler
  BY <1>1, <1>3, <1>4 DEF ClientChange
<1>5. CASE m \in handler /\ mmServices[m] = NoService
  <2>1. GetOrCreate(m) = NewMMService
    BY <1>5 DEF GetOrCreate
  <2>2. QED BY <1>1, <1>2, <1>5, <2>1, Updates
<1>6. CASE m \in handler /\ mmServices[m] # NoService
  <2> DEFINE mms == mmServices[m]
             new == UpdateConfig(mms, GetConfig)
  <2>1. mms \in MMServices /\ mmServices'[m] = new /\ GetOrCreate(m) = mms
    BY <1>1, <1>3, <1>6 DEF GetOrCreate
  <2>2. /\ new \in MMServices /\ new.settings = Settings(GetConfig) /\ new.client = mms.client
        /\ new.reconnect = (mms.reconnect \/ ClientChange(mms.settings, Settings(GetConfig)))
    BY <1>2, <2>1, Updates
  <2>3. ~ Changed(mms, GetConfig) => new = mms
    <3>1. SUFFICES ASSUME mms.settings = Settings(GetConfig) PROVE new = mms
      BY DEF Changed
    <3>2. ~ ClientChange(mms.settings, Settings(GetConfig))
      BY <3>1 DEF ClientChange
    <3>3. mms.reconnect \in BOOLEAN
      BY <2>1, Operations
    <3>4. new.settings = mms.settings /\ new.client = mms.client /\ new.reconnect = mms.reconnect
      BY <2>2, <3>1, <3>2, <3>3
    <3> HIDE DEF new, mms
    <3>5. QED BY <2>1, <2>2, <3>4 DEF MMServices
  <2>4. m \in queue' \/ new = mms
    BY <1>1, <1>6, <2>1, <2>3
  <2>5. mmServices[m] = mms
    OBVIOUS
  <2> HIDE DEF new, mms
  <2>6. QED BY <1>2, <1>6, <2>1, <2>2, <2>4, <2>5
<1>7. QED BY <1>4, <1>5, <1>6

LEMMA HandlerUpdatesKeeps ==
    ASSUME TypeOK, ServiceInv, HandlerUpdates
    PROVE  TypeOK' /\ ServiceInv'
<1> DEFINE changed == {n \in handler : Changed(GetOrCreate(n), GetConfig)}
           passed == {n \in Namespaces \ handler :
                        mmServices[n] # NoService /\ Changed(mmServices[n], GetConfig)}
           apart == IF GetConfig.etcd = stream.secret THEN {} ELSE handler \ changed
<1>1. /\ handler' = {} /\ queue' = queue \cup changed
      /\ lapses' = (lapses \ ({"config"} \X Namespaces))
                     \cup ({"config"} \X passed) \cup ({"watch"} \X apart)
      /\ UNCHANGED <<configVars, stream, clusterScope, apiVars, cacheVars, stale, work>>
  BY DEF HandlerUpdates
<1>2. /\ Scope' = Scope /\ ns' = ns /\ Detached' = Detached /\ GetConfig' = GetConfig
      /\ handler \subseteq Scope /\ Scope \subseteq Namespaces
  BY <1>1, ServiceAssumption DEF Scope, ns, Detached, GetConfig, configVars, TypeOK, Namespaced
<1>3. /\ changed \subseteq handler /\ apart \subseteq handler
      /\ GetConfig.etcd # stream.secret => apart = handler \ changed
  OBVIOUS
<1>4. \A m \in Namespaces \ handler :
         mmServices[m] = NoService \/ ~ Changed(mmServices[m], GetConfig) \/ m \in passed
  OBVIOUS
<1> HIDE DEF changed, passed, apart
<1>5. /\ \A m \in Namespaces : m \in passed => <<"config", m>> \in lapses'
      /\ \A m \in Namespaces, what \in {"deletion", "tls"} : <<what, m>> \in lapses' <=> <<what, m>> \in lapses
      /\ \A m \in Namespaces : <<"watch", m>> \in lapses' <=> <<"watch", m>> \in lapses \/ m \in apart
  <2>1. \A m \in Namespaces : m \in passed => <<"config", m>> \in lapses'
    BY <1>1
  <2>2. \A m \in Namespaces, what \in {"deletion", "tls"} : <<what, m>> \in lapses' <=> <<what, m>> \in lapses
    BY <1>1
  <2>3. \A m \in Namespaces : <<"watch", m>> \in lapses' <=> <<"watch", m>> \in lapses \/ m \in apart
    BY <1>1
  <2>4. QED BY <2>1, <2>2, <2>3
<1>6. \A m \in Namespaces : mmServices[m] \in MMServices \cup {NoService}
  BY DEF TypeOK
<1>7. \A m \in Namespaces :
         /\ m \notin handler => mmServices'[m] = mmServices[m]
         /\ m \in handler => /\ mmServices'[m] \in MMServices
                             /\ mmServices'[m].settings = Settings(GetConfig)
                             /\ m \in queue' \/ mmServices'[m] = mmServices[m]
         /\ mmServices[m] = NoService => mmServices'[m] = NoService \/ ~ Connected(mmServices'[m])
         /\ mmServices[m] # NoService =>
              /\ mmServices'[m] # NoService /\ mmServices'[m].client = mmServices[m].client
              /\ mmServices[m].reconnect => mmServices'[m].reconnect
              /\ ~ mmServices'[m].reconnect =>
                   ~ ClientChange(mmServices[m].settings, mmServices'[m].settings)
  BY HandlerEffect
<1>8. TypeOK'
  <2>1. mmServices' \in [Namespaces -> MMServices \cup {NoService}]
    <3>1. mmServices' = [m \in Namespaces |-> mmServices'[m]]
      BY DEF HandlerUpdates
    <3>2. \A m \in Namespaces : mmServices'[m] \in MMServices \cup {NoService}
      BY <1>6, <1>7
    <3>3. QED BY <3>1, <3>2
  <2>2. queue' \subseteq Scope /\ handler' \subseteq Scope
    BY <1>1, <1>2, <1>3 DEF TypeOK
  <2>3. QED BY <1>1, <1>2, <2>1, <2>2 DEF TypeOK, configVars, apiVars, cacheVars
<1>9. CopiesInv'
  BY <1>1, <1>2, <1>7 DEF ServiceInv, CopiesInv, apiVars, cacheVars
<1>10. SettingsInv'
  <2> SUFFICES ASSUME NEW m \in Namespaces
               PROVE  \/ mmServices'[m] = NoService
                      \/ ~ Changed(mmServices'[m], GetConfig)
                      \/ <<"config", m>> \in lapses'
    BY <1>2 DEF SettingsInv, Missed
  <2>1. CASE m \in handler
    BY <1>7, <2>1 DEF Changed
  <2>2. CASE m \notin handler
    BY <1>4, <1>5, <1>7, <2>2
  <2>3. QED BY <2>1, <2>2
<1>11. WorkInv'
  <2>1. WorkInv /\ ns \in Namespaces
    BY WorkType DEF ServiceInv
  <2>2. /\ mmServices[ns] # NoService => mmServices'[ns] # NoService
        /\ mmServices[ns] = NoService \/ ~ Connected(mmServices[ns]) =>
              mmServices'[ns] = NoService \/ ~ Connected(mmServices'[ns])
    BY <1>7, <2>1 DEF Connected
  <2>3. ns \notin queue' => ns \notin queue
    BY <1>1
  <2>4. QED BY <1>1, <1>2, <2>1, <2>2, <2>3 DEF WorkInv, apiVars, cacheVars
<1>12. DialInv'
  <2>1. DialInv /\ WorkInv /\ ns \in Namespaces
    BY WorkType DEF ServiceInv
  <2> SUFFICES ASSUME work.phase = "dial", ~ Detached, ~ mmServices'[ns].reconnect
               PROVE  ~ ClientChange(work.target, mmServices'[ns].settings)
    BY <1>1, <1>2 DEF DialInv
  <2>2. mmServices[ns] # NoService
    BY <2>1 DEF WorkInv
  <2>3. /\ ~ mmServices[ns].reconnect
        /\ ~ ClientChange(mmServices[ns].settings, mmServices'[ns].settings)
    BY <1>7, <2>1, <2>2
  <2>4. ~ ClientChange(work.target, mmServices[ns].settings)
    BY <2>1, <2>3 DEF DialInv
  <2>5. QED BY <2>3, <2>4 DEF ClientChange
<1>13. StreamInv'
  BY <1>1 DEF ServiceInv, StreamInv, Watched
<1>14. SecretInv'
  <2> SUFFICES ASSUME ~ unhandled, \A m \in Namespaces : <<"watch", m>> \notin lapses',
                      NEW n \in Scope, Enabled(ownerCache[n]), ~ Pending(n)', ~ AtWork(n)
               PROVE  stream.secret = GetConfig.etcd
    BY <1>1, <1>2 DEF SecretInv, Missed, configVars, cacheVars, AtWork
  <2>1. SUFFICES ASSUME stream.secret # GetConfig.etcd PROVE FALSE
    OBVIOUS
  <2>2. n \notin queue' /\ ~ Pending(n)
    BY <1>1 DEF Pending
  <2>3. n \notin handler
    BY <1>1, <1>2, <1>3, <1>5, <2>1, <2>2
  <2>4. \A m \in Namespaces : ~ Missed("watch", m)
    BY <1>5 DEF Missed
  <2>5. QED BY <2>1, <2>2, <2>3, <2>4 DEF ServiceInv, SecretInv
<1>15. HeldInv'
  <2> SUFFICES ASSUME ~ clusterScope, mmServices'[ControllerNamespace] # NoService
               PROVE  /\ Connected(mmServices'[ControllerNamespace])
                           /\ work.phase \notin {"service", "others"} => Held'
                      /\ work.phase = "dial" /\ ~ work.failed => Held'
    BY <1>1 DEF HeldInv
  <2>1. HeldInv /\ WorkInv /\ ns = ControllerNamespace /\ ControllerNamespace \in Namespaces
    BY WorkType, ServiceAssumption DEF ServiceInv, Scope, Namespaced
  <2>2. Held => Held'
    BY <1>1 DEF Held, apiVars
  <2>3. CASE mmServices[ControllerNamespace] = NoService
    BY <1>7, <2>1, <2>3 DEF WorkInv
  <2>4. CASE mmServices[ControllerNamespace] # NoService
    BY <1>7, <2>1, <2>2, <2>4 DEF HeldInv, Connected
  <2>5. QED BY <2>3, <2>4
<1>16. ASSUME NEW m \in Namespaces
       PROVE  /\ ClientKnown(m)' /\ Released(m)' /\ Attended(m)'
              /\ m \in Scope => Served(m)' /\ WatchKept(m)'
  <2>1. AtWork(m)' = AtWork(m)
    BY <1>1, <1>2 DEF AtWork
  <2>2. ClientKnown(m)'
    <3> SUFFICES ASSUME mmServices'[m] # NoService, Connected(mmServices'[m]), ~ mmServices'[m].reconnect,
                        <<"tls", m>> \notin lapses', ~ (AtWork(m) /\ work.phase = "dial")
                 PROVE  ~ ClientChange(mmServices'[m].client, mmServices'[m].settings)
      BY <1>1, <2>1 DEF ClientKnown, Missed
    <3>1. mmServices[m] # NoService
      BY <1>7, <1>16
    <3>2. /\ mmServices'[m].client = mmServices[m].client /\ ~ mmServices[m].reconnect
          /\ ~ ClientChange(mmServices[m].settings, mmServices'[m].settings)
      BY <1>7, <1>16, <3>1
    <3>3. ~ ClientChange(mmServices[m].client, mmServices[m].settings)
      BY <1>5, <1>16, <3>1, <3>2 DEF ServiceInv, ClientKnown, Connected, Missed
    <3>4. QED BY <3>2, <3>3 DEF ClientChange
  <2>3. CASE m \in handler /\ m \in queue'
    <3>1. Pending(m)'
      BY <2>3 DEF Pending
    <3>2. mmServices'[m] # NoService
      BY <1>7, <1>16, <2>3, Values
    <3>3. QED BY <2>2, <3>1, <3>2 DEF Released, Attended, Served, WatchKept
  <2>4. CASE m \notin handler \/ m \notin queue'
    <3>1. mmServices'[m] = mmServices[m] /\ m \notin changed
      BY <1>1, <1>3, <1>7, <1>16, <2>4
    <3>2. Pending(m)' <=> Pending(m)
      BY <1>1, <3>1 DEF Pending
    <3>3. /\ services'[m] = services[m] /\ monitors'[m] = monitors[m]
          /\ ownerCache'[m] = ownerCache[m] /\ clusterScope' = clusterScope
          /\ stream' = stream /\ work' = work
      BY <1>1 DEF apiVars, cacheVars
    <3>4. CASE m \notin apart
      <4>1. Elsewhere(m)
        BY <1>5, <1>16, <3>1, <3>2, <3>3, <3>4 DEF Elsewhere
      <4>2. QED BY <1>16, <4>1, ElsewhereKeeps
    <3>5. CASE m \in apart
      <4>1. <<"watch", m>> \in lapses' /\ mmServices'[m] # NoService
        BY <1>3, <1>5, <1>7, <1>16, <3>5, Values
      <4>2. Attended(m)' /\ WatchKept(m)'
        BY <4>1 DEF Attended, WatchKept, Missed
      <4>3. Released(m)'
        <5>1. Released(m)
          BY <1>16 DEF ServiceInv
        <5>2. QED BY <1>5, <1>16, <2>1, <3>1, <3>2, <3>3, <5>1 DEF Released, Missed, Watched
      <4>4. m \in Scope => Served(m)'
        <5>1. SUFFICES ASSUME m \in Scope PROVE Served(m)'
          OBVIOUS
        <5>2. Served(m)
          BY <5>1 DEF ServiceInv
        <5>3. QED BY <2>1, <3>1, <3>2, <3>3, <5>2 DEF Served, Fits
      <4>5. QED BY <2>2, <4>2, <4>3, <4>4
    <3>6. QED BY <3>4, <3>5
  <2>5. QED BY <2>3, <2>4
<1>17. QED BY <1>2, <1>8, <1>9, <1>10, <1>11, <1>12, <1>13, <1>14, <1>15, <1>16 DEF ServiceInv

\* The beginning of a reconcile: what it has in hand, and which MMService it makes
\* or closes.
LEMMA ReconcileEffect ==
    ASSUME TypeOK, ServiceInv, NEW n \in Namespaces, Reconcile(n)
    PROVE  /\ n \in Scope /\ work.phase = "idle" /\ ~ Detached /\ queue' = queue \ {n}
           /\ UNCHANGED <<configVars, stream, clusterScope, apiVars, cacheVars, stale, handler>>
           /\ mmServices' \in [Namespaces -> MMServices \cup {NoService}]
           /\ \A m \in Namespaces \ {n} : mmServices'[m] = mmServices[m]
           /\ \/ /\ ownerCache[n] = "absent" /\ work' = work
                 /\ clusterScope => mmServices' = mmServices
                 /\ ~ clusterScope =>
                      IF mmServices[n] = NoService THEN mmServices'[n] = NoService
                      ELSE mmServices'[n] # NoService /\ ~ Connected(mmServices'[n])
                             /\ mmServices'[n].settings = mmServices[n].settings
              \/ /\ clusterScope /\ ownerCache[n] \in {"off", "terminating"} /\ mmServices' = mmServices
                 /\ work' \in Works /\ work'.phase = "remove" /\ work'.ns = n
                 /\ work'.list = serviceCache[n] /\ work'.mms = NoService
              \/ /\ ownerCache[n] = "on" /\ mmServices'[n] # NoService
                 /\ mmServices'[n] = mmServices[n]
                      \/ (~ Connected(mmServices'[n]) /\ ~ Changed(mmServices'[n], GetConfig))
                 /\ work' \in Works /\ work'.phase = "service" /\ work'.ns = n
                 /\ work'.mms = NoService
<1>1. /\ n \in queue /\ work.phase = "idle" /\ queue' = queue \ {n}
      /\ UNCHANGED <<configVars, stream, clusterScope, apiVars, cacheVars, stale, handler>>
      /\ OwnerNotFound(n) \/ NotEnabled(n) \/ GetMMService(n)
  BY DEF Reconcile, Step, apiVars
<1>2. n \in Scope /\ ~ Detached
  BY <1>1 DEF TypeOK, ServiceInv, WorkInv
<1>3. /\ mmServices \in [Namespaces -> MMServices \cup {NoService}] /\ NoService \notin MMServices
      /\ mmServices[n] \in MMServices \cup {NoService} /\ ownerCache[n] \in Owners
  BY Values DEF TypeOK
<1>4. GetConfig \in Configs /\ serviceCache[n] \in ServiceSets
  BY InUse DEF TypeOK
<1>5. CASE OwnerNotFound(n)
  <2>1. ownerCache[n] = "absent" /\ work' = work
    BY <1>5 DEF OwnerNotFound
  <2>2. CASE clusterScope \/ mmServices[n] = NoService
    <3>1. mmServices' = mmServices
      BY <1>5, <2>2 DEF OwnerNotFound
    <3>2. QED BY <1>1, <1>2, <1>3, <2>1, <2>2, <3>1
  <2>3. CASE ~ clusterScope /\ mmServices[n] # NoService
    <3> DEFINE d == Disconnect(mmServices[n])
    <3>1. mmServices' = [mmServices EXCEPT ![n] = d]
      BY <1>5, <2>3 DEF OwnerNotFound
    <3>2. d \in MMServices /\ ~ Connected(d) /\ d.settings = mmServices[n].settings
      BY <1>3, <2>3, Operations
    <3> HIDE DEF d
    <3>3. /\ mmServices' \in [Namespaces -> MMServices \cup {NoService}] /\ mmServices'[n] = d
          /\ \A m \in Namespaces \ {n} : mmServices'[m] = mmServices[m]
      BY <1>3, <3>1, <3>2
    <3>4. QED BY <1>1, <1>2, <1>3, <2>1, <2>3, <3>2, <3>3
  <2>4. QED BY <2>2, <2>3
<1>6. CASE NotEnabled(n)
  <2>1. /\ clusterScope /\ ownerCache[n] \in {"off", "terminating"} /\ mmServices' = mmServices
        /\ work' = [Idle EXCEPT !.phase = "remove", !.ns = n, !.list = serviceCache[n]]
    BY <1>3, <1>6 DEF NotEnabled, Owners
  <2>2. /\ work' \in Works /\ work'.phase = "remove" /\ work'.ns = n
        /\ work'.list = serviceCache[n] /\ work'.mms = NoService
    BY <1>4, <2>1, IdleWork DEF Works
  <2>3. QED BY <1>1, <1>2, <1>3, <2>1, <2>2
<1>7. CASE GetMMService(n)
  <2> DEFINE new == UpdateConfig(NewMMService, GetConfig)
             v == IF mmServices[n] = NoService THEN new ELSE mmServices[n]
  <2>1. /\ ownerCache[n] = "on" /\ mmServices' = [mmServices EXCEPT ![n] = v]
        /\ work' = [Idle EXCEPT !.phase = "service", !.ns = n, !.cfg = GetConfig]
    BY <1>7 DEF GetMMService, Enabled
  <2>2. new \in MMServices /\ ~ Connected(new) /\ ~ Changed(new, GetConfig)
    BY <1>4, Updates DEF Changed
  <2>3. v \in MMServices /\ (v = mmServices[n] \/ (~ Connected(v) /\ ~ Changed(v, GetConfig)))
    BY <1>3, <2>2
  <2> HIDE DEF v
  <2>4. /\ work' \in Works /\ work'.phase = "service" /\ work'.ns = n /\ work'.mms = NoService
    BY <1>4, <2>1, IdleWork DEF Works
  <2>5. /\ mmServices' \in [Namespaces -> MMServices \cup {NoService}] /\ mmServices'[n] = v
        /\ \A m \in Namespaces \ {n} : mmServices'[m] = mmServices[m]
    BY <1>3, <2>1, <2>3
  <2>6. QED BY <1>1, <1>2, <1>3, <2>1, <2>3, <2>4, <2>5
<1>8. QED BY <1>1, <1>5, <1>6, <1>7

LEMMA ReconcileKeeps ==
    ASSUME TypeOK, ServiceInv, NEW n \in Namespaces, Reconcile(n)
    PROVE  TypeOK' /\ ServiceInv'
<1>1. /\ n \in Scope /\ work.phase = "idle" /\ ~ Detached /\ queue' = queue \ {n}
      /\ UNCHANGED <<configVars, stream, clusterScope, owner, services, monitors, ownerCache,
                     serviceCache, stale, handler>>
      /\ mmServices' \in [Namespaces -> MMServices \cup {NoService}]
      /\ \A m \in Namespaces \ {n} : mmServices'[m] = mmServices[m]
  BY ReconcileEffect DEF apiVars, cacheVars
<1> DEFINE gone == /\ ownerCache[n] = "absent" /\ work' = work
                   /\ clusterScope => mmServices' = mmServices
                   /\ ~ clusterScope =>
                        IF mmServices[n] = NoService THEN mmServices'[n] = NoService
                        ELSE mmServices'[n] # NoService /\ ~ Connected(mmServices'[n])
                               /\ mmServices'[n].settings = mmServices[n].settings
           off == /\ clusterScope /\ ownerCache[n] \in {"off", "terminating"} /\ mmServices' = mmServices
                  /\ work' \in Works /\ work'.phase = "remove" /\ work'.ns = n
                  /\ work'.list = serviceCache[n] /\ work'.mms = NoService
           on == /\ ownerCache[n] = "on" /\ mmServices'[n] # NoService
                 /\ mmServices'[n] = mmServices[n]
                      \/ (~ Connected(mmServices'[n]) /\ ~ Changed(mmServices'[n], GetConfig))
                 /\ work' \in Works /\ work'.phase = "service" /\ work'.ns = n
                 /\ work'.mms = NoService
<1>2. gone \/ off \/ on
  BY ReconcileEffect
<1>3. lapses' = IF clusterScope /\ ownerCache[n] = "absent"
                     /\ (mmServices[n] # NoService \/ Watched(n) # NoWatch)
                  THEN lapses \cup {<<"deletion", n>>} ELSE lapses
  BY DEF Reconcile
<1>4. \A m \in Namespaces :
        /\ \A what \in {"config", "watch", "tls"} : <<what, m>> \in lapses' <=> <<what, m>> \in lapses
        /\ m # n => (<<"deletion", m>> \in lapses' <=> <<"deletion", m>> \in lapses)
  BY <1>3
<1>5. Scope' = Scope /\ GetConfig' = GetConfig /\ Scope \subseteq Namespaces
  BY <1>1, ServiceAssumption DEF Scope, Namespaced, GetConfig, configVars
<1>6. work' \in Works /\ ns' \in Scope /\ ~ Detached'
      /\ (work' = work \/ (work'.ns = n /\ work'.phase # "idle"))
  BY <1>1, <1>2 DEF TypeOK, ns, Detached
<1>7. TypeOK'
  BY <1>1, <1>5, <1>6 DEF TypeOK, configVars
<1>8. CopiesInv'
  BY <1>1, <1>5 DEF ServiceInv, CopiesInv
<1>9. SettingsInv'
  <2>1. SettingsInv
    BY DEF ServiceInv
  <2>2. \A m \in Namespaces :
          \/ mmServices'[m] = NoService
          \/ ~ Changed(mmServices'[m], GetConfig)
          \/ mmServices[m] # NoService /\ mmServices'[m].settings = mmServices[m].settings
    BY <1>1, <1>2
  <2>3. QED BY <1>1, <1>4, <1>5, <2>1, <2>2 DEF SettingsInv, Missed, Changed, configVars
<1>10. AtWork(n)' <=> work' # work
  BY <1>1, <1>2 DEF AtWork, ns
<1>11. WorkInv'
  <2>1. CASE gone
    BY <1>1, <1>6, <2>1 DEF WorkInv
  <2>2. CASE off
    <3>1. ns' = n /\ <<"service", n>> \notin stale => serviceCache[n] = services[n]
      BY <2>2 DEF ServiceInv, CopiesInv, ns
    <3>2. QED BY <1>1, <1>6, <2>2, <3>1 DEF WorkInv, Enabled, ns
  <2>3. CASE on
    BY <1>1, <1>6, <2>3 DEF WorkInv, Enabled, ns
  <2>4. QED BY <1>2, <2>1, <2>2, <2>3
<1>12. DialInv' /\ HeldInv'
  <2>1. work'.phase \notin {"dial", "others", "watch"}
    BY <1>1, <1>2
  <2>2. DialInv'
    BY <2>1 DEF DialInv
  <2>3. ~ clusterScope => n = ControllerNamespace
    BY <1>1 DEF Scope, Namespaced
  <2>4. HeldInv'
    BY <1>1, <1>2, <2>1, <2>3 DEF HeldInv
  <2>5. QED BY <2>2, <2>4
<1>13. \A m \in Namespaces \ {n} : Elsewhere(m)
  <2> SUFFICES ASSUME NEW m \in Namespaces \ {n} PROVE Elsewhere(m)
    OBVIOUS
  <2>1. Pending(m)' <=> Pending(m)
    BY <1>1 DEF Pending
  <2>2. work' = work \/ (~ AtWork(m) /\ ~ AtWork(m)')
    BY <1>1, <1>6 DEF AtWork, ns
  <2>3. QED BY <1>1, <1>4, <2>1, <2>2 DEF Elsewhere
<1>14. Pending(n)' \/ AtWork(n)' \/ ~ Enabled(ownerCache'[n])
  BY <1>1, <1>2, <1>10 DEF Enabled
<1>15. ClientKnown(n)'
  <2>1. ClientKnown(n) /\ ~ AtWork(n)
    BY <1>1 DEF ServiceInv, AtWork
  <2>2. \/ mmServices'[n] = mmServices[n] \/ mmServices'[n] = NoService
        \/ ~ Connected(mmServices'[n])
    BY <1>2
  <2>3. QED BY <1>4, <2>1, <2>2 DEF ClientKnown, Missed
<1>16. Attended(n)'
  <2>1. Attended(n) /\ ~ AtWork(n)
    BY <1>1 DEF ServiceInv, AtWork
  <2>2. mmServices'[n] = NoService => mmServices[n] = NoService
    BY <1>2
  <2>3. QED BY <1>1, <1>4, <2>1, <2>2 DEF Attended, Missed, Watched
<1>17. Served(n)'
  <2>1. CASE gone \/ off
    BY <1>1, <2>1 DEF Served, Enabled
  <2>2. CASE on
    BY <1>1, <1>10, <2>2 DEF Served
  <2>3. QED BY <1>2, <2>1, <2>2
<1>18. Released(n)'
  <2>1. CASE gone
    <3>1. NoWatch.name \notin Names
      BY Values DEF NoWatch
    <3>2. clusterScope => (mmServices[n] = NoService /\ Watched(n) = NoWatch)
                            \/ <<"deletion", n>> \in lapses'
      BY <1>3, <2>1
    <3>3. QED BY <1>1, <2>1, <3>1, <3>2 DEF Released, Missed, Watched
  <2>2. CASE off
    BY <1>1, <1>10, <2>2 DEF Released
  <2>3. CASE on
    BY <1>1, <2>3 DEF Released
  <2>4. QED BY <1>2, <2>1, <2>2, <2>3
<1>19. QED
  BY <1>1, <1>4, <1>5, <1>7, <1>8, <1>9, <1>11, <1>12, <1>13, <1>14, <1>15, <1>16, <1>17, <1>18,
     ConcernsOne DEF ServiceInv

-----------------------------------------------------------------------------
(* The specification *)

LEMMA InitHolds == ASSUME Init PROVE TypeOK /\ ServiceInv
<1>1. /\ configMap = NoConfigMap /\ unhandled = FALSE /\ loaded = NoConfigMap /\ StreamInit
      /\ clusterScope \in BOOLEAN
      /\ owner = [n \in Namespaces |-> "on"] /\ services = [n \in Namespaces |-> NoServices]
      /\ monitors = [n \in Namespaces |-> NoMonitor] /\ ownerCache = owner /\ serviceCache = services
      /\ stale = {} /\ mmServices = [n \in Namespaces |-> NoService] /\ queue = Scope
      /\ work = Idle /\ handler = {} /\ lapses = {}
  BY DEF Init, ConfigInit
<1>2. Scope \subseteq Namespaces /\ ControllerNamespace \in Namespaces
  BY ServiceAssumption DEF Scope, Namespaced
<1>3. "" \notin Names /\ "none" \notin Names /\ NoServices \in ServiceSets
  BY Values
<1>4. /\ Idle \in Works /\ work.phase = "idle" /\ ~ Detached /\ ns \in Scope
  BY <1>1, IdleWork DEF Detached, ns
<1>5. stream \in Streams
  BY <1>1 DEF StreamInit, Streams, NoWatch
<1>6. TypeOK
  <2>1. services \in [Namespaces -> ServiceSets] /\ serviceCache \in [Namespaces -> ServiceSets]
    BY <1>1, <1>3
  <2>2. QED BY <1>1, <1>4, <1>5, <2>1 DEF TypeOK, Owners
<1>7. \A n \in Namespaces : /\ stream.watches[n].name \in {"", "none"}
                            /\ stream.watches[n].name = "none" => stream.watches[n] = NoWatch
  BY <1>1 DEF StreamInit, NoWatch
<1>8. StreamInv /\ ~ stream.open
  <2>1. StreamInv
    BY <1>3, <1>7 DEF StreamInv, Watched
  <2>2. QED BY <1>1, <2>1 DEF StreamInit
<1>9. CopiesInv /\ SettingsInv /\ WorkInv /\ DialInv /\ SecretInv /\ HeldInv
  <2>1. CopiesInv
    BY <1>1, <1>2 DEF CopiesInv
  <2>2. SettingsInv
    BY <1>1 DEF SettingsInv
  <2>3. WorkInv /\ DialInv
    BY <1>4 DEF WorkInv, DialInv
  <2>4. SecretInv
    BY <1>1 DEF SecretInv, Pending
  <2>5. HeldInv
    BY <1>1, <1>2 DEF HeldInv
  <2>6. QED BY <2>1, <2>2, <2>3, <2>4, <2>5
<1>10. \A n \in Scope : Served(n) /\ WatchKept(n)
  BY <1>1 DEF Served, WatchKept, Pending
<1>11. \A n \in Namespaces : ClientKnown(n) /\ Released(n) /\ Attended(n)
  BY <1>1, <1>3, <1>7 DEF ClientKnown, Released, Attended, Watched
<1>12. QED BY <1>6, <1>8, <1>9, <1>10, <1>11 DEF ServiceInv

LEMMA NextKeeps == ASSUME TypeOK, ServiceInv, [Next]_vars PROVE TypeOK' /\ ServiceInv'
<1>1. CASE Next
  BY <1>1, ChangeConfigKeeps, ChangeOwnerKeeps, CollectKeeps, OwnerEventKeeps, ServiceEventKeeps,
     OtherHandlerKeeps, HandlerBeginsKeeps, HandlerUpdatesKeeps, ReconcileKeeps, ReconcileStepKeeps
     DEF Next, ClusterStep, EventStep, ReconcileStep, Owners
<1>2. CASE UNCHANGED vars
  <2>1. UNCHANGED <<configMap, unhandled, loaded, stream, clusterScope, owner, services, monitors,
                    ownerCache, serviceCache, stale, mmServices, queue, work, handler, lapses>>
    BY <1>2 DEF vars, configVars, apiVars, cacheVars
  <2>2. TypeOK'
    BY <2>1 DEF TypeOK, ns, Scope
  <2>3. SettingsInv' /\ SecretInv'
    <3>1. Scope' = Scope /\ GetConfig' = GetConfig
      BY <2>1 DEF Scope, GetConfig
    <3>2. SettingsInv'
      BY <2>1, <3>1 DEF ServiceInv, SettingsInv, Missed
    <3>3. SecretInv'
      BY <2>1, <3>1 DEF ServiceInv, SecretInv, Missed, Pending, AtWork, ns
    <3>4. QED BY <3>2, <3>3
  <2>4. QED BY <2>1, <2>2, <2>3, ConfigKeeps DEF apiVars, cacheVars
<1>3. QED BY <1>1, <1>2

\* What ServiceReconciler and its MMServices have to answer for holds in every
\* state: a difference between what a namespace has and what it should have is
\* always on its way, in the work queue, in an event to come, in the reconcile in
\* progress or in the ConfigMap handler (Reconcile, service_controller.go:111;
\* setupForClusterScope, service_controller.go:470).
THEOREM ServiceInvariant == Spec => [](TypeOK /\ ServiceInv)
<1>1. Init => TypeOK /\ ServiceInv
  BY InitHolds
<1>2. (TypeOK /\ ServiceInv) /\ [Next]_vars => (TypeOK /\ ServiceInv)'
  BY NextKeeps
<1>3. QED BY <1>1, <1>2, PTL DEF Spec

\* When nothing is under way, an enabled namespace has what its MMService calls
\* for, and that has the configuration in use.
LEMMA SettledService ==
    ASSUME TypeOK, ServiceInv, Settled, NEW n \in Namespaces, Sound(n)
    PROVE  /\ n \in Scope /\ n \notin handler /\ Enabled(ownerCache[n]) /\ ~ Pending(n) /\ ~ AtWork(n)
           /\ Fits(n) /\ Connected(mmServices[n])
           /\ GetConfig \in Configs
           /\ mmServices[n].settings = Settings(GetConfig)
           /\ mmServices[n].settings.name = GetConfig.name /\ GetConfig.name \in Names
<1>1. /\ n \in Scope /\ n \notin handler /\ ~ Pending(n) /\ ~ AtWork(n) /\ ~ unhandled
      /\ ~ Missed("config", n) /\ Enabled(owner[n]) /\ stale = {} /\ handler = {}
  BY IdleWork DEF Settled, Sound, Serves, Pending, AtWork
<1>2. Enabled(ownerCache[n])
  BY <1>1 DEF ServiceInv, CopiesInv
<1>3. Fits(n) /\ Connected(mmServices[n])
  BY <1>1, <1>2 DEF ServiceInv, Served
<1>4. mmServices[n].settings = Settings(GetConfig)
  BY <1>1, <1>3 DEF ServiceInv, SettingsInv, Changed, Fits
<1>5. GetConfig \in Configs
  BY InUse
<1>6. mmServices[n].settings.name = GetConfig.name /\ GetConfig.name \in Names
  BY <1>4, <1>5, Values
<1>7. QED BY <1>1, <1>2, <1>3, <1>4, <1>5, <1>6

\* Whatever is created, refused, renamed or deleted, and however events, the
\* ConfigMap handler and the reconcile interleave, an enabled namespace is left
\* with exactly the Service that the configuration in use asks for
\* (reconcileService, service_controller.go:233).
THEOREM ServicesAreAsConfigured == Spec => []ServicesSettled
<1>1. TypeOK /\ ServiceInv => ServicesSettled
  <2> SUFFICES ASSUME TypeOK, ServiceInv, Settled, NEW n \in Namespaces, Sound(n)
               PROVE  services[n] = [s \in Names |-> IF s = GetConfig.name THEN ServiceSpec(GetConfig)
                                                                           ELSE NoSpec]
    BY DEF ServicesSettled
  <2>1. /\ Fits(n) /\ GetConfig \in Configs /\ mmServices[n].settings = Settings(GetConfig)
        /\ mmServices[n].settings.name = GetConfig.name
    BY SettledService
  <2>2. ServiceSpec(mmServices[n].settings) = ServiceSpec(GetConfig)
    BY <2>1, Values
  <2>3. QED BY <2>1, <2>2 DEF Fits
<1>2. QED BY <1>1, ServiceInvariant, PTL

\* Its client was made for that Service and its TLS secret, unless the secret
\* could not be read: no failed or early connection loses a change of the
\* configuration (ConnectIfNeeded, modelmesh_service.go:196).
THEOREM ClientsAreCurrent == Spec => []ClientSettled
<1>1. TypeOK /\ ServiceInv => ClientSettled
  <2> SUFFICES ASSUME TypeOK, ServiceInv, Settled, NEW n \in Namespaces, Sound(n)
               PROVE  /\ Connected(mmServices[n])
                      /\ \/ /\ mmServices[n].client.name = GetConfig.name
                            /\ mmServices[n].client.tls = GetConfig.tls
                         \/ Missed("tls", n)
    BY DEF ClientSettled
  <2>1. /\ Fits(n) /\ Connected(mmServices[n]) /\ ~ AtWork(n) /\ GetConfig \in Configs
        /\ mmServices[n].settings = Settings(GetConfig)
    BY SettledService
  <2>2. ClientKnown(n)
    BY DEF ServiceInv
  <2>3. ~ ClientChange(mmServices[n].client, mmServices[n].settings) \/ Missed("tls", n)
    BY <2>1, <2>2 DEF ClientKnown, Fits
  <2>4. Settings(GetConfig).name = GetConfig.name /\ Settings(GetConfig).tls = GetConfig.tls
    BY <2>1, Values
  <2>5. QED BY <2>1, <2>3, <2>4 DEF ClientChange
<1>2. QED BY <1>1, ServiceInvariant, PTL

\* The secret of the stream's client is set by an attempt that succeeds, and
\* nothing else touches the record of attempts.
LEMMA AttemptKeeps == ASSUME TypeOK, AttemptInv, [Next]_vars PROVE AttemptInv'
<1>1. \A what, m : what # "etcd" => <<what, m>> # <<"etcd", stream.secret>>
  OBVIOUS
<1>2. CASE UpdateWatch
  <2>1. CASE work.cfg.etcd = stream.secret /\ stream' = WatchName(work.cfg.name, ns)
    <3>1. stream'.secret = stream.secret
      BY <2>1 DEF WatchName, Watched, Refreshed, TypeOK, Streams
    <3>2. QED BY <1>2, <2>1, <3>1 DEF UpdateWatch, AttemptInv, Missed
  <2>2. CASE /\ stream' = Restarted(work.cfg.etcd, work.cfg.name, ns)
             /\ <<"etcd", work.cfg.etcd>> \notin lapses'
    BY <2>2 DEF Restarted, AttemptInv, Missed
  <2>3. CASE /\ work.cfg.etcd # stream.secret /\ stream' = Cancelled(ns)
             /\ <<"etcd", stream.secret>> \in lapses' => <<"etcd", stream.secret>> \in lapses
    BY <2>3 DEF Cancelled, TypeOK, Streams, AttemptInv, Missed
  <2>4. QED BY <1>2, <2>1, <2>2, <2>3 DEF UpdateWatch
<1>3. CASE ~ UpdateWatch
  <2> DEFINE Kept == /\ stream'.secret = stream.secret
                     /\ <<"etcd", stream.secret>> \in lapses' => <<"etcd", stream.secret>> \in lapses
  <2> SUFFICES Kept
    BY DEF AttemptInv, Missed
  <2>1. CASE ClusterStep
    BY <2>1 DEF ClusterStep, ChangeConfig, ChangeOwner, Collect
  <2>2. CASE EventStep
    <3>1. CASE HandlerUpdates
      BY <1>1, <3>1 DEF HandlerUpdates
    <3>2. CASE \/ \E n \in Namespaces : OwnerEvent(n) \/ ServiceEvent(n)
               \/ OtherHandler \/ HandlerBegins
      BY <3>2 DEF OwnerEvent, ServiceEvent, OtherHandler, HandlerBegins
    <3>3. QED BY <2>2, <3>1, <3>2 DEF EventStep
  <2>3. CASE ReconcileStep
    <3>1. \A s : RemoveWatchedService(s, ns).secret = stream.secret
      BY DEF RemoveWatchedService, Watched, TypeOK, Streams
    <3>2. ASSUME NEW n \in Namespaces, Reconcile(n) PROVE Kept
      BY <1>1, <3>2 DEF Reconcile
    <3>3. ASSUME NEW s \in Names, RemoveService(s) \/ DeleteOther(s) PROVE Kept
      BY <3>1, <3>3 DEF RemoveService, DeleteOther
    <3>4. CASE ReconcileService
      BY <1>1, <3>1, <3>4 DEF ReconcileService
    <3>5. CASE RemoveMMService \/ Dial \/ TLSLookupFails
      BY <1>1, <3>5 DEF RemoveMMService, Dial, TLSLookupFails
    <3>6. CASE CreateService \/ RecreateService \/ UpdateService \/ DialFails
      BY <3>6 DEF CreateService, RecreateService, UpdateService, DialFails
    <3>7. QED BY <1>3, <2>3, <3>2, <3>3, <3>4, <3>5, <3>6 DEF ReconcileStep
  <2>4. CASE UNCHANGED vars
    BY <2>4 DEF vars
  <2>5. QED BY <2>1, <2>2, <2>3, <2>4 DEF Next
<1>4. QED BY <1>2, <1>3

\* An attempt with the secret of the stream's client has not failed since that
\* was made (UpdateWatchedService, modelmesh_events.go:115-146).
LEMMA AttemptsAreKnown == Spec => []AttemptInv
<1>1. Init => AttemptInv
  BY DEF Init, AttemptInv, Missed
<1>2. TypeOK /\ AttemptInv /\ [Next]_vars => AttemptInv'
  BY AttemptKeeps
<1>3. QED BY <1>1, <1>2, ServiceInvariant, PTL DEF Spec

\* Its model events are watched under the name of that Service with the etcd
\* secret in use, although one namespace switches the secret for all and an
\* attempt may fail after every watch was cancelled, unless the secret was then
\* changed back; and its ServiceMonitor is there if and only if metrics are
\* enabled.  Not so if the reconcile and the handler saw different configurations
\* (UpdateWatchedService, modelmesh_events.go:99; reconcileServiceMonitor,
\* service_controller.go:338).
THEOREM WatchesAreCurrent == Spec => []WatchSettled
<1>1. TypeOK /\ ServiceInv /\ AttemptInv => WatchSettled
  <2> SUFFICES ASSUME TypeOK, ServiceInv, AttemptInv, Settled,
                      \A m \in Namespaces : ~ Missed("watch", m), NEW n \in Namespaces, Sound(n)
               PROVE  /\ Watched(n).name = GetConfig.name
                      /\ Watched(n).on = GetConfig.etcd \/ SecretChangedBack
                      /\ monitors[n] = IF GetConfig.ports = "metrics" THEN GetConfig.name ELSE NoMonitor
    BY DEF WatchSettled
  <2>1. /\ n \in Scope /\ n \notin handler /\ Enabled(ownerCache[n]) /\ ~ Pending(n) /\ ~ AtWork(n)
        /\ GetConfig \in Configs /\ mmServices[n].settings = Settings(GetConfig)
        /\ mmServices[n].settings.name = GetConfig.name /\ GetConfig.name \in Names
    BY SettledService
  <2>2. WatchKept(n) /\ StreamInv /\ SecretInv
    BY <2>1 DEF ServiceInv
  <2>3. mmServices[n].settings.ports = GetConfig.ports
    BY <2>1, Values
  <2>4. /\ Watched(n).name = GetConfig.name
        /\ monitors[n] = IF GetConfig.ports = "metrics" THEN GetConfig.name ELSE NoMonitor
    BY <2>1, <2>2, <2>3 DEF WatchKept
  <2>5. Watched(n).on = IF stream.open THEN stream.secret ELSE ""
    BY <2>1, <2>2, <2>4 DEF StreamInv
  <2>6. stream.secret = GetConfig.etcd
    BY <2>1, <2>2 DEF SecretInv, Settled
  <2>7. Watched(n).on = GetConfig.etcd \/ SecretChangedBack
    BY <2>5, <2>6 DEF AttemptInv, SecretChangedBack
  <2>8. QED BY <2>4, <2>7
<1>2. QED BY <1>1, ServiceInvariant, AttemptsAreKnown, PTL

\* A namespace that is not enabled is left with no Service, no MMService and no
\* watch, unless it was deleted before a reconcile saw it, and without the
\* controller's Deployment there is no client (service_controller.go:128-168).
THEOREM NamespacesAreReleased == Spec => []ReleasedSettled
<1>1. TypeOK /\ ServiceInv => ReleasedSettled
  <2> SUFFICES ASSUME TypeOK, ServiceInv, Settled, NEW n \in Namespaces, ~ Serves(n)
               PROVE  /\ services[n] = NoServices
                      /\ clusterScope => \/ mmServices[n] = NoService /\ Watched(n).name \notin Names
                                         \/ Missed("deletion", n) \/ Missed("watch", n)
                      /\ ~ clusterScope /\ mmServices[n] # NoService => ~ Connected(mmServices[n])
    BY DEF ReleasedSettled
  <2>1. /\ ~ Pending(n) /\ ~ AtWork(n) /\ stale = {} /\ queue = {} /\ work.phase = "idle"
        /\ ~ Collectable(n)
    BY IdleWork DEF Settled, Pending, AtWork
  <2>2. CopiesInv /\ HeldInv /\ Released(n) /\ Attended(n)
    BY DEF ServiceInv
  <2>3. ownerCache[n] = owner[n] /\ owner[n] \in Owners
    BY <2>1, <2>2 DEF CopiesInv, TypeOK
  <2>4. owner[n] # "terminating" /\ (owner[n] = "absent" => services[n] = NoServices)
    BY <2>1 DEF Collectable
  <2>5. CASE n \notin Scope
    <3>1. services[n] = NoServices /\ mmServices[n] = NoService
      BY <2>2, <2>5 DEF CopiesInv
    <3>2. ~ clusterScope
      BY <2>5 DEF Scope
    <3>3. QED BY <3>1, <3>2
  <2>6. CASE n \in Scope /\ clusterScope
    <3>1. owner[n] \in {"off", "absent"}
      BY <2>3, <2>4, <2>6 DEF Serves, Enabled, Owners
    <3>2. CASE owner[n] = "off"
      <4>1. services[n] = NoServices /\ mmServices[n] = NoService
        BY <2>1, <2>2, <2>3, <2>6, <3>2 DEF Released
      <4>2. Watched(n).name \notin Names \/ Missed("watch", n)
        BY <2>1, <2>2, <4>1 DEF Attended
      <4>3. QED BY <2>6, <4>1, <4>2
    <3>3. CASE owner[n] = "absent"
      BY <2>1, <2>2, <2>3, <2>4, <2>6, <3>3 DEF Released
    <3>4. QED BY <3>1, <3>2, <3>3
  <2>7. CASE n \in Scope /\ ~ clusterScope
    <3>1. n = ControllerNamespace /\ owner[n] = "absent"
      BY <2>2, <2>7 DEF CopiesInv, Scope, Namespaced, Serves, Enabled
    <3>2. ~ Held
      BY <2>1, <2>4, <3>1 DEF Held
    <3>3. QED BY <2>1, <2>2, <2>4, <2>7, <3>1, <3>2 DEF HeldInv
  <2>8. QED BY <2>5, <2>6, <2>7
<1>2. QED BY <1>1, ServiceInvariant, PTL

=============================================================================

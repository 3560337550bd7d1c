----------------------- MODULE RuntimeRequests_proofs -----------------------
(***************************************************************************)
(* Theorems about RuntimeRequests, with their proofs: the deployments,     *)
(* type constraints and etcd secrets that the watches and reconciles of    *)
(* src/controllers/servingruntime_controller.go settle on.                 *)
(***************************************************************************)
EXTENDS RuntimeRequests, TLAPS

-----------------------------------------------------------------------------
\* Pending changes as sets

\* A change is queued behind the ones that are pending.
LEMMA RangeAppend ==
    ASSUME NEW s, s \in Seq(Range(s)), NEW e
    PROVE  /\ Range(Append(s, e)) = Range(s) \cup {e}
           /\ Append(s, e) \in Seq(Range(Append(s, e)))
<1> DEFINE t == Append(s, e)
<1>1. s \in Seq(Range(s) \cup {e}) /\ e \in Range(s) \cup {e}
  BY DEF Range
<1>2. t \in Seq(Range(s) \cup {e}) /\ Len(t) = Len(s) + 1
  BY <1>1
<1>3. /\ \A i \in 1 .. Len(s) : t[i] = s[i]
      /\ t[Len(s) + 1] = e
      /\ DOMAIN t = 1 .. Len(s) + 1 /\ DOMAIN s = 1 .. Len(s) /\ Len(s) \in Nat
  BY <1>1, <1>2
<1> HIDE DEF t
<1>4. Range(t) = Range(s) \cup {e}
  <2>1. ASSUME NEW x \in Range(t) PROVE x \in Range(s) \cup {e}
    <3>1. PICK i \in DOMAIN t : t[i] = x
      BY <2>1 DEF Range
    <3> QED BY <3>1, <1>3 DEF Range
  <2>2. ASSUME NEW x \in Range(s) PROVE x \in Range(t)
    <3>1. PICK i \in DOMAIN s : s[i] = x
      BY <2>2 DEF Range
    <3>2. i \in DOMAIN t /\ t[i] = x
      BY <3>1, <1>3
    <3> QED BY <3>2 DEF Range
  <2>3. e \in Range(t)
    <3>1. Len(s) + 1 \in DOMAIN t /\ t[Len(s) + 1] = e
      BY <1>3
    <3> QED BY <3>1 DEF Range
  <2> QED BY <2>1, <2>2, <2>3
<1> QED BY <1>2, <1>4 DEF t

\* The handler of the first pending change takes it off.
LEMMA RangeTail ==
    ASSUME NEW s, s \in Seq(Range(s)), s # <<>>
    PROVE  /\ Range(s) = {Head(s)} \cup Range(Tail(s))
           /\ Tail(s) \in Seq(Range(Tail(s)))
<1> DEFINE t == Tail(s)
<1>1. /\ t \in Seq(Range(s)) /\ Len(t) = Len(s) - 1 /\ Head(s) = s[1]
      /\ \A i \in 1 .. Len(t) : t[i] = s[i + 1]
      /\ DOMAIN t = 1 .. Len(t) /\ DOMAIN s = 1 .. Len(s) /\ Len(s) \in Nat /\ Len(s) > 0
  OBVIOUS
<1> HIDE DEF t
<1>2. ASSUME NEW x \in Range(s) PROVE x = Head(s) \/ x \in Range(t)
  <2>1. PICK i \in 1 .. Len(s) : s[i] = x
    BY <1>1 DEF Range
  <2>2. CASE i = 1
    BY <2>1, <2>2, <1>1
  <2>3. CASE i # 1
    <3>1. i - 1 \in DOMAIN t /\ t[i - 1] = x
      BY <2>1, <2>3, <1>1
    <3> QED BY <3>1 DEF Range
  <2> QED BY <2>2, <2>3
<1>3. ASSUME NEW x \in Range(t) PROVE x \in Range(s)
  BY <1>1, <1>3 DEF Range
<1>4. Head(s) \in Range(s)
  BY <1>1 DEF Range
<1>5. t \in Seq(Range(t))
  <2>1. \A i \in 1 .. Len(t) : t[i] \in Range(t)
    BY <1>1 DEF Range
  <2> QED BY <2>1, <1>1
<1> QED BY <1>2, <1>3, <1>4, <1>5 DEF t

-----------------------------------------------------------------------------
\* Changes

Event(o, new) == [object |-> o, versions |-> cache[o] \cup new]

\* What a change of object o to content new does.
Changed(o, new) ==
    /\ new \in {{}} \cup {{c} : c \in Contents(o[1])} /\ new # cache[o]
    /\ DOMAIN cache' = Objects /\ cache'[o] = new
    /\ \A x \in Objects \ {o} : cache'[x] = cache[x]
    /\ \A k \in Kinds :
         Range(events'[k]) = Range(events[k]) \cup (IF k = o[1] THEN {Event(o, new)} ELSE {})
    /\ events'[o[1]] # <<>> /\ \A k \in Kinds \ {o[1]} : events'[k] = events[k]
    /\ DOMAIN events' = Kinds /\ \A k \in Kinds : events'[k] \in Seq(Range(events'[k]))
    /\ lapsed' = lapsed \cup Lapses(o, cache[o], new, events')
    /\ DOMAIN deployment' = Requests
    /\ \A r \in Requests :
         deployment'[r] =
           {[d EXCEPT !.orphan = @ \/ (new = {} /\ o = OwnerOf(r, d))] : d \in deployment[r]}
    /\ UNCHANGED <<config, queue, work, constraints, etcd>>

\* Change with its pending changes as sets.
LEMMA ChangeChanges ==
    ASSUME TypeOK, NEW o \in Objects, Change(o)
    PROVE  \E new : Changed(o, new)
<1>1. PICK new \in {{}} \cup {{c} : c \in Contents(o[1])} :
        /\ new # cache[o]
        /\ cache' = [cache EXCEPT ![o] = new]
        /\ events' = [events EXCEPT ![o[1]] =
                        Append(@, [object |-> o, versions |-> cache[o] \cup new])]
        /\ lapsed' = lapsed \cup Lapses(o, cache[o], new, events')
        /\ deployment' = [r \in Requests |->
               {[d EXCEPT !.orphan = @ \/ (new = {} /\ o = OwnerOf(r, d))] : d \in deployment[r]}]
        /\ UNCHANGED <<config, queue, work, constraints, etcd>>
  BY DEF Change
<1>2. o[1] \in Kinds /\ DOMAIN events = Kinds /\ DOMAIN cache = Objects
  BY RequestsAssumption DEF TypeOK, EventsOK, CacheOK
<1>3. events[o[1]] \in Seq(Range(events[o[1]]))
  BY <1>2 DEF TypeOK, EventsOK
<1>4. /\ events'[o[1]] = Append(events[o[1]], Event(o, new))
      /\ \A k \in Kinds \ {o[1]} : events'[k] = events[k]
  BY <1>1, <1>2 DEF Event
<1>5. Range(events'[o[1]]) = Range(events[o[1]]) \cup {Event(o, new)}
  BY <1>3, <1>4, RangeAppend
<1>6. events'[o[1]] # <<>>
  BY <1>3, <1>4
<1>7. \A k \in Kinds :
        Range(events'[k]) = Range(events[k]) \cup (IF k = o[1] THEN {Event(o, new)} ELSE {})
  BY <1>4, <1>5
<1>8. DOMAIN cache' = Objects /\ cache'[o] = new /\ \A x \in Objects \ {o} : cache'[x] = cache[x]
  BY <1>1, <1>2
<1>9. /\ DOMAIN deployment' = Requests
      /\ \A r \in Requests :
           deployment'[r] =
             {[d EXCEPT !.orphan = @ \/ (new = {} /\ o = OwnerOf(r, d))] : d \in deployment[r]}
  BY <1>1
<1>10. DOMAIN events' = Kinds /\ \A k \in Kinds : events'[k] \in Seq(Range(events'[k]))
  <2>1. events'[o[1]] \in Seq(Range(events'[o[1]]))
    BY <1>3, <1>4, RangeAppend
  <2> QED BY <2>1, <1>1, <1>2, <1>4 DEF TypeOK, EventsOK
<1>11. Changed(o, new)
  BY <1>1, <1>4, <1>6, <1>7, <1>8, <1>9, <1>10 DEF Changed
<1> QED BY <1>11

\* Only the object that changes is read differently.
LEMMA ObjectChanges ==
    ASSUME NEW o \in Objects, NEW new, Changed(o, new), NEW k, NEW ns, NEW n
    PROVE  Object(k, ns, n)' = IF <<k, ns, n>> = o THEN new ELSE Object(k, ns, n)
BY DEF Object, Changed

\* An object is read as it is in the cache.
LEMMA ObjectIs ==
    ASSUME CacheOK, NEW k, NEW ns, NEW n
    PROVE  Object(k, ns, n) = {} \/ \E c \in Contents(k) : Object(k, ns, n) = {c}
<1>1. CASE <<k, ns, n>> \notin Objects
  BY <1>1 DEF Object
<1>2. CASE <<k, ns, n>> \in Objects
  <2>1. cache[<<k, ns, n>>] \in {{}} \cup {{c} : c \in Contents(k)}
    BY <1>2 DEF CacheOK
  <2> QED BY <1>2, <2>1 DEF Object
<1> QED BY <1>1, <1>2

\* The fields of a deployment.
IsDeployment(d) ==
    d = [owner |-> d.owner, orphan |-> d.orphan, labels |-> d.labels, up |-> d.up,
         claims |-> d.claims]

\* Losing its owner changes nothing else of a deployment.
LEMMA OrphanFlag ==
    ASSUME NEW d, NEW x, IsDeployment(d)
    PROVE  LET f == [d EXCEPT !.orphan = x]
           IN  /\ f.owner = d.owner /\ f.orphan = x /\ f.labels = d.labels
               /\ f.up = d.up /\ f.claims = d.claims /\ IsDeployment(f)
               /\ x = d.orphan => f = d
BY DEF IsDeployment

\* The deployments of a request after a change: those before it, now orphans if
\* their owner is gone.
LEMMA DeploymentChanges ==
    ASSUME DeploymentsOK, NEW o \in Objects, NEW new, Changed(o, new), NEW r \in Requests
    PROVE  /\ \A d \in deployment[r] : \E f \in deployment'[r] :
                /\ deployment'[r] = {f} /\ IsDeployment(f) /\ f.owner = d.owner
                /\ f.orphan = (d.orphan \/ (new = {} /\ o = OwnerOf(r, d)))
                /\ f.labels = d.labels /\ f.up = d.up /\ f.claims = d.claims
                /\ (~d.orphan => ~f.orphan) => deployment'[r] = deployment[r]
           /\ deployment[r] = {} => deployment'[r] = {}
<1>1. deployment'[r] =
         {[d EXCEPT !.orphan = @ \/ (new = {} /\ o = OwnerOf(r, d))] : d \in deployment[r]}
  BY DEF Changed
<1>2. ASSUME NEW d \in deployment[r]
      PROVE  \E f \in deployment'[r] :
                /\ deployment'[r] = {f} /\ IsDeployment(f) /\ f.owner = d.owner
                /\ f.orphan = (d.orphan \/ (new = {} /\ o = OwnerOf(r, d)))
                /\ f.labels = d.labels /\ f.up = d.up /\ f.claims = d.claims
                /\ (~d.orphan => ~f.orphan) => deployment'[r] = deployment[r]
  <2> DEFINE x == d.orphan \/ (new = {} /\ o = OwnerOf(r, d))
             f == [d EXCEPT !.orphan = x]
  <2>1. /\ deployment[r] = {d} /\ IsDeployment(d) /\ d.orphan \in BOOLEAN
    BY DEF DeploymentsOK, IsDeployment
  <2>2. deployment'[r] = {f}
    BY <1>1, <2>1
  <2>3. x \in BOOLEAN
    OBVIOUS
  <2> HIDE DEF x
  <2>4. /\ f.owner = d.owner /\ f.orphan = x /\ f.labels = d.labels
        /\ f.up = d.up /\ f.claims = d.claims /\ IsDeployment(f)
        /\ x = d.orphan => f = d
    BY <2>1, OrphanFlag
  <2> HIDE DEF f
  <2>5. (~d.orphan => ~f.orphan) => x = d.orphan
    BY <2>1, <2>3, <2>4 DEF x
  <2>6. (~d.orphan => ~f.orphan) => deployment'[r] = deployment[r]
    BY <2>1, <2>2, <2>4, <2>5
  <2> WITNESS f \in deployment'[r]
  <2>7. f.orphan = (d.orphan \/ (new = {} /\ o = OwnerOf(r, d)))
    BY <2>4 DEF x
  <2> QED BY <2>2, <2>4, <2>6, <2>7
<1>3. deployment[r] = {} => deployment'[r] = {}
  BY <1>1
<1> QED BY <1>2, <1>3

-----------------------------------------------------------------------------
\* Types

\* A handler asks for runtimes of namespaces.
LEMMA RequestsOfType ==
    ASSUME NEW o \in Objects, NEW c
    PROVE  RequestsOf(o, c) \subseteq Requests
<1>1. \A S \in SUBSET Namespaces : requestsForRuntimes(S) \subseteq Requests
  BY DEF requestsForRuntimes, Requests
<1>2. \A ns \in Namespaces : \A p : runtimeRequestsForPredictor(ns, p) \subseteq Requests
  BY DEF runtimeRequestsForPredictor, getRuntimesSupportingPredictor, Requests
<1>3. o[1] \in Kinds
  BY RequestsAssumption
<1>4. o[1] \notin {"ClusterServingRuntime", "ConfigMap"} => o[2] \in Namespaces
  BY RequestsAssumption
<1>5. CASE o[1] = "ServingRuntime"
  <2>1. o[3] \in Names
    BY <1>5, RequestsAssumption
  <2>2. RequestsOf(o, c) = {<<o[2], o[3]>>}
    BY <1>5 DEF RequestsOf
  <2> QED BY <2>1, <2>2, <1>4, <1>5 DEF Requests
<1>6. CASE o[1] = "ClusterServingRuntime"
  BY <1>6, RequestsAssumption DEF RequestsOf, Requests, clusterServingRuntimeRequests
<1>7. CASE o[1] = "Namespace"
  BY <1>1, <1>4, <1>7 DEF RequestsOf
<1>8. CASE o[1] = "ConfigMap"
  BY <1>1, <1>8 DEF RequestsOf
<1>9. CASE o[1] \in {"Predictor", "Plugin"}
  BY <1>2, <1>4, <1>9 DEF RequestsOf
<1>10. CASE o[1] = "InferenceService"
  BY <1>2, <1>4, <1>10 DEF RequestsOf
<1>11. CASE o[1] = "Secret"
  BY <1>1, <1>4, <1>11 DEF RequestsOf, storageSecretRequests
<1> QED BY <1>3, <1>5, <1>6, <1>7, <1>8, <1>9, <1>10, <1>11 DEF Kinds

LEMMA EventRequestsType ==
    ASSUME NEW e, e.object \in Objects
    PROVE  EventRequests(e) \subseteq Requests
BY RequestsOfType DEF EventRequests

\* The deployment of a runtime that is on.
LEMMA DeploymentOfFields ==
    ASSUME NEW spec, NEW ns, NEW n, NEW P
    PROVE  LET d == DeploymentOf(spec, ns, n, P)
           IN  /\ IsDeployment(d) /\ d.orphan = FALSE /\ d.orphan \in BOOLEAN
               /\ d.owner = OwnerKind(ns, n)
               /\ d.owner \in {"ServingRuntime", "ClusterServingRuntime"}
               /\ d.labels = GetServingRuntimeLabelSet(spec, config, n)
               /\ d.up = runtimeHasPredictors(spec, ns, n)
               /\ d.claims = getPVCs(spec, ns, n, P)
<1>1. OwnerKind(ns, n) \in {"ServingRuntime", "ClusterServingRuntime"}
  BY DEF OwnerKind
<1> DEFINE u == runtimeHasPredictors(spec, ns, n)
           d == DeploymentOf(spec, ns, n, P)
<1>2. d = [owner |-> OwnerKind(ns, n), orphan |-> FALSE,
           labels |-> GetServingRuntimeLabelSet(spec, config, n), up |-> u,
           claims |-> getPVCs(spec, ns, n, P)]
  BY DEF DeploymentOf
<1> HIDE DEF u, d
<1>3. /\ IsDeployment(d) /\ d.orphan = FALSE /\ d.owner = OwnerKind(ns, n)
      /\ d.labels = GetServingRuntimeLabelSet(spec, config, n) /\ d.up = u
      /\ d.claims = getPVCs(spec, ns, n, P)
  BY <1>2 DEF IsDeployment
<1> QED BY <1>1, <1>3 DEF d, u

\* The runtime reconciler leaves no deployment, or one with an owner.
LEMMA DeploymentsAfterType ==
    ASSUME DeploymentsOK, NEW r \in Requests, NEW enabled,
           NEW D \in DeploymentsAfter(r[1], r[2], enabled)
    PROVE  \A d \in D : /\ D = {d} /\ IsDeployment(d) /\ d.orphan \in BOOLEAN
                        /\ d.owner \in {"ServingRuntime", "ClusterServingRuntime"}
<1>1. r = <<r[1], r[2]>>
  BY DEF Requests
<1>2. CASE D = deployment[r]
  BY <1>2 DEF DeploymentsOK, IsDeployment
<1>3. CASE D = {}
  BY <1>3
<1>4. ASSUME NEW spec, NEW P, D = {DeploymentOf(spec, r[1], r[2], P)}
      PROVE  \A d \in D : /\ D = {d} /\ IsDeployment(d) /\ d.orphan \in BOOLEAN
                          /\ d.owner \in {"ServingRuntime", "ClusterServingRuntime"}
  <2> TAKE d \in D
  <2>1. d = DeploymentOf(spec, r[1], r[2], P)
    BY <1>4
  <2>2. D = {d}
    BY <1>4, <2>1
  <2>3. /\ IsDeployment(d) /\ d.orphan \in BOOLEAN
        /\ d.owner \in {"ServingRuntime", "ClusterServingRuntime"}
    BY <2>1, DeploymentOfFields, Zenon
  <2> QED BY <2>2, <2>3
<1> QED BY <1>1, <1>2, <1>3, <1>4 DEF DeploymentsAfter

LEMMA SetDeploymentType ==
    ASSUME DeploymentsOK, NEW r \in Requests, NEW D, NEW Q, Q \subseteq Requests,
           \A d \in D : /\ D = {d} /\ IsDeployment(d) /\ d.orphan \in BOOLEAN
                        /\ d.owner \in {"ServingRuntime", "ClusterServingRuntime"},
           SetDeployment(r, D, Q), UNCHANGED <<constraints, etcd>>
    PROVE  DeploymentsOK' /\ queue' \subseteq Requests
<1>1. DOMAIN deployment = Requests
  BY DEF DeploymentsOK
<1>2. /\ DOMAIN deployment' = Requests /\ deployment'[r] = D
      /\ \A x \in Requests \ {r} : deployment'[x] = deployment[x]
  BY <1>1 DEF SetDeployment
<1>3. \A ns : EtcdSecret(ns)' = EtcdSecret(ns)
  BY DEF EtcdSecret
<1>4. \A x \in Requests : \A d \in deployment'[x] :
         /\ deployment'[x] = {d} /\ IsDeployment(d) /\ d.orphan \in BOOLEAN
         /\ d.owner \in {"ServingRuntime", "ClusterServingRuntime"}
  BY <1>2 DEF DeploymentsOK, IsDeployment
<1>5. queue' \subseteq Requests
  BY DEF SetDeployment
<1> QED BY <1>2, <1>3, <1>4, <1>5 DEF DeploymentsOK, IsDeployment

\* The handler of the first change of a kind takes it off the pending ones.
LEMMA HandleEvents ==
    ASSUME EventsOK, NEW kind \in Kinds, Handle(kind)
    PROVE  LET e == Head(events[kind])
           IN  /\ e \in Range(events[kind]) /\ e.object \in Objects /\ e.object[1] = kind
               /\ Range(events[kind]) = {e} \cup Range(events'[kind])
               /\ \A k \in Kinds \ {kind} : events'[k] = events[k]
               /\ queue' = queue \cup EventRequests(e)
               /\ \A k \in Kinds : events[k] = <<>> => events'[k] = <<>>
               /\ EventsOK'
<1> DEFINE e == Head(events[kind])
<1>1. /\ DOMAIN events = Kinds /\ events[kind] # <<>>
      /\ events[kind] \in Seq(Range(events[kind]))
      /\ events' = [events EXCEPT ![kind] = Tail(@)]
      /\ queue' = queue \cup EventRequests(e)
  BY DEF EventsOK, Handle
<1>2. events'[kind] = Tail(events[kind]) /\ \A k \in Kinds \ {kind} : events'[k] = events[k]
  BY <1>1
<1>3. /\ Range(events[kind]) = {e} \cup Range(events'[kind])
      /\ events'[kind] \in Seq(Range(events'[kind]))
  BY <1>1, <1>2, RangeTail
<1>4. e \in Range(events[kind]) /\ e.object \in Objects /\ e.object[1] = kind
  BY <1>3 DEF EventsOK
<1> HIDE DEF e
<1>5. EventsOK'
  <2>1. DOMAIN events' = Kinds
    BY <1>1
  <2>2. ASSUME NEW k \in Kinds
        PROVE  /\ events'[k] \in Seq(Range(events'[k]))
               /\ Range(events'[k]) \subseteq Range(events[k])
    BY <1>2, <1>3 DEF EventsOK
  <2> QED BY <2>1, <2>2 DEF EventsOK
<1>6. \A k \in Kinds : events[k] = <<>> => events'[k] = <<>>
  BY <1>1, <1>2
<1> QED BY <1>1, <1>2, <1>3, <1>4, <1>5, <1>6 DEF e

\* A change notes only namespaces.
LEMMA LapsesType ==
    ASSUME WorkOK, EventsOK', NEW o \in Objects, NEW old, NEW new
    PROVE  Lapses(o, old, new, events') \subseteq {"predictor", "runtime"} \X Namespaces
<1>1. o[1] \in {"Plugin", "InferenceService"} => o[2] \in Namespaces
  BY RequestsAssumption
<1>2. \A e \in Range(events'["Namespace"]) : e.object[2] \in Namespaces
  <2>1. \A e \in Range(events'["Namespace"]) : e.object \in Objects /\ e.object[1] = "Namespace"
    BY DEF EventsOK, Kinds
  <2> QED BY <2>1, RequestsAssumption
<1>3. \A w \in work : w.request[1] \in Namespaces
  BY DEF WorkOK, Requests
<1> SUFFICES ASSUME NEW l \in Lapses(o, old, new, events')
             PROVE  l \in {"predictor", "runtime"} \X Namespaces
  OBVIOUS
<1>4. \/ \E ns : l = <<"predictor", ns>> /\ ns = o[2] /\ o[1] \in {"Plugin", "InferenceService"}
      \/ \E e \in Range(events'["Namespace"]) : l = <<"runtime", e.object[2]>>
      \/ \E w \in work : l = <<"runtime", w.request[1]>>
  BY DEF Lapses
<1> QED BY <1>1, <1>2, <1>3, <1>4

\* An InferenceService's status change is queued behind the others.
LEMMA UpdateStatusEvents ==
    ASSUME TypeOK, NEW o \in DOMAIN status, NEW s, UpdateStatus(o, s)
    PROVE  /\ EventsOK' /\ \A k \in Kinds : Range(events[k]) \subseteq Range(events'[k])
           /\ \A k \in Kinds \ {"InferenceService"} : events'[k] = events[k]
<1> DEFINE e == [object |-> o, versions |-> cache[o]]
           k == "InferenceService"
<1>1. o \in Objects /\ o[1] = k /\ k \in Kinds
  BY DEF TypeOK, CacheOK, Kinds
<1>2. /\ events' = [events EXCEPT ![k] = Append(@, e)] /\ cache[o] # {}
      /\ DOMAIN events = Kinds /\ events[k] \in Seq(Range(events[k]))
  BY <1>1 DEF UpdateStatus, TypeOK, EventsOK
<1>3. e.object = o /\ e.versions # {}
  BY <1>2
<1> HIDE DEF e, k
<1>4. events'[k] = Append(events[k], e) /\ \A x \in Kinds \ {k} : events'[x] = events[x]
  BY <1>1, <1>2
<1>5. Range(events'[k]) = Range(events[k]) \cup {e} /\ events'[k] \in Seq(Range(events'[k]))
  <2>1. events[k] \in Seq(Range(events[k]))
    BY <1>2
  <2>2. /\ Range(Append(events[k], e)) = Range(events[k]) \cup {e}
        /\ Append(events[k], e) \in Seq(Range(Append(events[k], e)))
    BY <2>1, RangeAppend
  <2> QED BY <2>2, <1>4
<1>6. DOMAIN events' = Kinds
  BY <1>2
<1>7. \A x \in Kinds : /\ Range(events[x]) \subseteq Range(events'[x])
                       /\ Range(events'[x]) \subseteq Range(events[x]) \cup {e}
                       /\ x # k => Range(events'[x]) = Range(events[x])
                       /\ events'[x] \in Seq(Range(events'[x]))
  BY <1>4, <1>5 DEF TypeOK, EventsOK
<1>8. EventsOK'
  <2>1. ASSUME NEW x \in Kinds, NEW f \in Range(events'[x])
        PROVE  f.object \in Objects /\ f.object[1] = x /\ f.versions # {}
    <3>1. CASE f \in Range(events[x])
      BY <3>1 DEF TypeOK, EventsOK
    <3>2. CASE f = e /\ x = k
      BY <3>2, <1>1, <1>3
    <3> QED BY <3>1, <3>2, <1>7
  <2> QED BY <2>1, <1>6, <1>7 DEF EventsOK
<1> QED BY <1>4, <1>7, <1>8 DEF k

\* What a change leaves has its type.
LEMMA ChangeType ==
    ASSUME TypeOK, NEW o \in Objects, Change(o)
    PROVE  TypeOK'
<1>1. PICK new : Changed(o, new)
  BY ChangeChanges
<1>2. /\ new \in {{}} \cup {{c} : c \in Contents(o[1])} /\ new # cache[o]
      /\ DOMAIN cache' = Objects /\ cache'[o] = new
      /\ \A x \in Objects \ {o} : cache'[x] = cache[x]
      /\ UNCHANGED <<config, queue, work, constraints, etcd>>
  BY <1>1 DEF Changed
<1>3. DOMAIN status' = DOMAIN status
  BY DEF Change
<1>4. CacheOK'
  <2>1. ASSUME NEW x \in Objects PROVE cache'[x] \in {{}} \cup {{c} : c \in Contents(x[1])}
    BY <1>2 DEF TypeOK, CacheOK
  <2> QED BY <1>2, <1>3, <2>1 DEF TypeOK, CacheOK
<1>5. EventsOK'
  <2>1. Event(o, new).object = o /\ Event(o, new).versions # {}
    BY <1>2 DEF Event
  <2>2. o[1] \in Kinds
    BY RequestsAssumption
  <2>3. ASSUME NEW k \in Kinds, NEW e \in Range(events'[k])
        PROVE  e.object \in Objects /\ e.object[1] = k /\ e.versions # {}
    <3>1. CASE e \in Range(events[k])
      BY <3>1 DEF TypeOK, EventsOK
    <3>2. CASE e = Event(o, new) /\ k = o[1]
      BY <3>2, <2>1
    <3> QED BY <3>1, <3>2, <1>1 DEF Changed
  <2>4. DOMAIN events' = Kinds /\ \A k \in Kinds : events'[k] \in Seq(Range(events'[k]))
    BY <1>1 DEF Changed
  <2> QED BY <2>3, <2>4 DEF EventsOK
<1>6. WorkOK'
  <2>1. lapsed' = lapsed \cup Lapses(o, cache[o], new, events')
    BY <1>1 DEF Changed
  <2>2. lapsed' \subseteq {"predictor", "runtime"} \X Namespaces
    BY <2>1, <1>5, LapsesType DEF TypeOK, WorkOK
  <2> QED BY <1>2, <2>2 DEF TypeOK, WorkOK
<1>7. DeploymentsOK'
  <2>1. DeploymentsOK
    BY DEF TypeOK
  <2>2. ASSUME NEW r \in Requests, NEW f \in deployment'[r]
        PROVE  /\ deployment'[r] = {f} /\ IsDeployment(f) /\ f.orphan \in BOOLEAN
               /\ f.owner \in {"ServingRuntime", "ClusterServingRuntime"}
    <3>1. PICK d \in deployment[r] : TRUE
      BY <2>1, <1>1, DeploymentChanges
    <3>2. /\ d.owner \in {"ServingRuntime", "ClusterServingRuntime"} /\ d.orphan \in BOOLEAN
      BY <2>1 DEF DeploymentsOK
    <3>3. PICK g \in deployment'[r] :
                /\ deployment'[r] = {g} /\ IsDeployment(g) /\ g.owner = d.owner
                /\ g.orphan = (d.orphan \/ (new = {} /\ o = OwnerOf(r, d)))
      BY <2>1, <1>1, DeploymentChanges
    <3>4. g.orphan \in BOOLEAN
      BY <3>3, <3>2
    <3> QED BY <3>2, <3>3, <3>4
  <2>3. DOMAIN deployment' = Requests
    BY <1>1 DEF Changed
  <2>4. \A ns : EtcdSecret(ns)' = EtcdSecret(ns)
    BY DEF EtcdSecret
  <2>5. /\ DOMAIN constraints' = Namespaces /\ DOMAIN etcd' = Namespaces
        /\ \A ns \in Namespaces : etcd'[ns] \in {{}, EtcdSecret(ns)'}
    BY <1>2, <2>4 DEF TypeOK, DeploymentsOK
  <2> QED BY <2>2, <2>3, <2>5 DEF DeploymentsOK, IsDeployment
<1> QED BY <1>4, <1>5, <1>6, <1>7 DEF TypeOK

\* Only changes, status updates and handlers touch the pending changes.
LEMMA SameEvents ==
    ASSUME EventsOK, UNCHANGED events
    PROVE  EventsOK'
BY DEF EventsOK

LEMMA SameCache ==
    ASSUME CacheOK, UNCHANGED inVars
    PROVE  CacheOK'
BY DEF CacheOK, inVars

LEMMA SameDeployments ==
    ASSUME DeploymentsOK, UNCHANGED deployment, DOMAIN constraints' = Namespaces,
           DOMAIN etcd' = Namespaces,
           \A ns \in Namespaces : etcd'[ns] \in {{}, EtcdSecret(ns)}
    PROVE  DeploymentsOK'
BY DEF DeploymentsOK, EtcdSecret

\* The other actions keep the types.
LEMMA TypeStep ==
    ASSUME TypeOK, [Next]_vars
    PROVE  TypeOK'
<1> USE DEF TypeOK
<1>1. ASSUME NEW o \in Objects, Change(o) PROVE TypeOK'
  BY <1>1, ChangeType
<1>2. ASSUME NEW o \in DOMAIN status, NEW s \in Statuses, UpdateStatus(o, s) PROVE TypeOK'
  <2>1. UNCHANGED <<cache, config, queue, work, outVars, lapsed>> /\ DOMAIN status' = DOMAIN status
    BY <1>2 DEF UpdateStatus
  <2>2. EventsOK'
    BY <1>2, UpdateStatusEvents
  <2>3. CacheOK'
    BY <2>1 DEF CacheOK
  <2>4. WorkOK'
    BY <2>1 DEF WorkOK
  <2>5. DeploymentsOK'
    BY <2>1, SameDeployments DEF DeploymentsOK, outVars
  <2> QED BY <2>2, <2>3, <2>4, <2>5
<1>3. ASSUME NEW k \in Kinds, Handle(k) PROVE TypeOK'
  <2>1. UNCHANGED <<cache, status, work, outVars, lapsed>>
    BY <1>3 DEF Handle
  <2>2. config' \in BOOLEAN
    BY <1>3 DEF Handle, CacheOK
  <2>3. EventsOK' /\ queue' \subseteq Requests
    BY <1>3, HandleEvents, EventRequestsType DEF WorkOK
  <2>4. CacheOK'
    BY <2>1, <2>2 DEF CacheOK
  <2>5. WorkOK'
    BY <2>1, <2>3 DEF WorkOK
  <2>6. DeploymentsOK'
    BY <2>1, SameDeployments DEF DeploymentsOK, outVars
  <2> QED BY <2>3, <2>4, <2>5, <2>6
<1>4. CASE ReloadElsewhere
  <2>1. UNCHANGED <<cache, status, events, queue, work, outVars, lapsed>> /\ config' \in BOOLEAN
    BY <1>4 DEF ReloadElsewhere
  <2>2. CacheOK'
    BY <2>1 DEF CacheOK
  <2>3. EventsOK' /\ WorkOK'
    BY <2>1, SameEvents DEF WorkOK
  <2>4. DeploymentsOK'
    BY <2>1, SameDeployments DEF DeploymentsOK, outVars
  <2> QED BY <2>2, <2>3, <2>4
<1>5. ASSUME NEW r \in Requests, ReconcileNamespace(r) \/ ReconcileNamespaceFails(r) PROVE TypeOK'
  <2>1. UNCHANGED <<inVars, events, deployment, lapsed>> /\ queue' \subseteq queue
    BY <1>5 DEF ReconcileNamespace, ReconcileNamespaceFails
  <2>2. r[1] \in Namespaces
    BY DEF Requests
  <2>3. work' = work \/ work' = {[request |-> r, enabled |-> modelMeshEnabled(r[1])]}
    BY <1>5 DEF ReconcileNamespace, ReconcileNamespaceFails
  <2>4. modelMeshEnabled(r[1]) \in BOOLEAN
    BY DEF modelMeshEnabled
  <2>5. WorkOK'
    BY <2>1, <2>3, <2>4 DEF WorkOK
  <2>6. /\ DOMAIN constraints' = Namespaces /\ DOMAIN etcd' = Namespaces
        /\ etcd' = etcd \/ etcd' = [etcd EXCEPT ![r[1]] = EtcdAfter(r[1])]
    BY <1>5 DEF ReconcileNamespace, ReconcileNamespaceFails, DeploymentsOK
  <2>7. EtcdAfter(r[1]) \in {{}, EtcdSecret(r[1])}
    BY DEF EtcdAfter
  <2>8. \A ns \in Namespaces : etcd'[ns] \in {{}, EtcdSecret(ns)}
    BY <2>2, <2>6, <2>7 DEF DeploymentsOK
  <2>9. DeploymentsOK'
    BY <2>1, <2>6, <2>8, SameDeployments
  <2> QED BY <2>1, <2>5, <2>9, SameEvents, SameCache
<1>6. ASSUME NEW r \in Requests, NEW D, SetDeployment(r, D, queue),
             \A d \in D : /\ D = {d} /\ IsDeployment(d) /\ d.orphan \in BOOLEAN
                          /\ d.owner \in {"ServingRuntime", "ClusterServingRuntime"},
             UNCHANGED <<inVars, events, constraints, etcd, lapsed>>, work' \in {{}, work}
      PROVE  TypeOK'
  <2>1. DeploymentsOK' /\ queue' \subseteq Requests
    BY <1>6, SetDeploymentType DEF WorkOK
  <2>2. WorkOK'
    BY <1>6, <2>1 DEF WorkOK
  <2> QED BY <1>6, <2>1, <2>2, SameEvents, SameCache
<1>7. CASE ReconcileRuntime
  <2>1. PICK w \in work : \E D \in DeploymentsAfter(w.request[1], w.request[2], w.enabled) :
                            SetDeployment(w.request, D, queue)
    BY <1>7 DEF ReconcileRuntime
  <2>2. w.request \in Requests
    BY DEF WorkOK
  <2> QED BY <1>6, <1>7, <2>1, <2>2, DeploymentsAfterType DEF ReconcileRuntime
<1>8. CASE ReconcileRuntimeFails
  <2>1. UNCHANGED <<inVars, events, outVars, lapsed>> /\ work' = {}
        /\ \E w \in work : queue' = queue \cup {w.request}
    BY <1>8 DEF ReconcileRuntimeFails
  <2>2. WorkOK'
    BY <2>1 DEF WorkOK
  <2>3. DeploymentsOK'
    BY <2>1, SameDeployments DEF DeploymentsOK, outVars
  <2> QED BY <2>1, <2>2, <2>3, SameEvents, SameCache
<1>9. ASSUME NEW r \in Requests, Collect(r) \/ DeleteDeployment(r) PROVE TypeOK'
  BY <1>6, <1>9 DEF Collect, DeleteDeployment
<1>10. CASE UNCHANGED vars
  BY <1>10, SameEvents, SameCache, SameDeployments DEF vars, WorkOK, DeploymentsOK, outVars
<1> QED BY <1>1, <1>2, <1>3, <1>4, <1>5, <1>7, <1>8, <1>9, <1>10 DEF Next

-----------------------------------------------------------------------------
\* What is read of the caches

\* The object of a request has at most one content.
LEMMA RuntimesAre ==
    ASSUME CacheOK, NEW ns, NEW n
    PROVE  /\ ServingRuntime(ns, n) = {} \/ \E s : ServingRuntime(ns, n) = {s}
           /\ ClusterServingRuntime(n) = {} \/ \E s : ClusterServingRuntime(n) = {s}
           /\ EffectiveRuntime(ns, n) = {} \/ \E s : EffectiveRuntime(ns, n) = {s}
<1>1. ServingRuntime(ns, n) = {} \/ \E s : ServingRuntime(ns, n) = {s}
  BY ObjectIs DEF ServingRuntime
<1>2. ClusterServingRuntime(n) = {} \/ \E s : ClusterServingRuntime(n) = {s}
  BY ObjectIs DEF ClusterServingRuntime
<1> QED BY <1>1, <1>2 DEF EffectiveRuntime

\* A runtime is wanted in at most one way, and only if it is on.
LEMMA WantedIs ==
    ASSUME CacheOK, NEW ns, NEW n
    PROVE  \/ Wanted(ns, n) = {}
           \/ \E s : /\ EffectiveRuntime(ns, n) = {s} /\ ~Off(s, modelMeshEnabled(ns))
                     /\ Wanted(ns, n) = {DeploymentOf(s, ns, n, AllPredictors(ns))}
<1>1. CASE EffectiveRuntime(ns, n) = {}
  BY <1>1 DEF Wanted
<1>2. ASSUME NEW s, EffectiveRuntime(ns, n) = {s}
      PROVE  \/ Wanted(ns, n) = {}
             \/ /\ EffectiveRuntime(ns, n) = {s} /\ ~Off(s, modelMeshEnabled(ns))
                /\ Wanted(ns, n) = {DeploymentOf(s, ns, n, AllPredictors(ns))}
  <2>1. CASE Off(s, modelMeshEnabled(ns))
    BY <1>2, <2>1 DEF Wanted
  <2>2. CASE ~Off(s, modelMeshEnabled(ns))
    BY <1>2, <2>2 DEF Wanted
  <2> QED BY <2>1, <2>2
<1> QED BY <1>1, <1>2, RuntimesAre

\* What is wanted is configured.
LEMMA WantedConfigured ==
    ASSUME NEW r \in Requests
    PROVE  (Wanted(r[1], r[2]) # {} => Configured(r)) /\ (Wanted(r[1], r[2]) # {} => Configured(r))'
<1>1. r = <<r[1], r[2]>> /\ r[1] \in Namespaces /\ r[2] \in Names
  BY DEF Requests
<1>2. Wanted(r[1], r[2]) # {} => Configured(r)
  BY <1>1 DEF Wanted, Configured, requestsForRuntimes, EffectiveRuntime, MultiModel, Off
<1>3. (Wanted(r[1], r[2]) # {} => Configured(r))'
  BY <1>1 DEF Wanted, Configured, requestsForRuntimes, EffectiveRuntime, MultiModel, Off
<1> QED BY <1>2, <1>3

\* The runtime of a configured request.
LEMMA ConfiguredRuntime ==
    ASSUME CacheOK, NEW r \in Requests, Configured(r)
    PROVE  EffectiveRuntime(r[1], r[2]) = IF ServingRuntime(r[1], r[2]) # {}
                                            THEN ServingRuntime(r[1], r[2])
                                            ELSE MultiModel(ClusterServingRuntime(r[2]))
<1>1. r = <<r[1], r[2]>> /\ r[1] \in Namespaces /\ r[2] \in Names
  BY DEF Requests
<1>2. ServingRuntime(r[1], r[2]) # {} \/ MultiModel(ClusterServingRuntime(r[2])) # {}
  BY <1>1 DEF Configured, requestsForRuntimes
<1>3. MultiModel(ClusterServingRuntime(r[2])) \in {{}, ClusterServingRuntime(r[2])}
  BY RuntimesAre DEF MultiModel
<1> QED BY <1>2, <1>3 DEF EffectiveRuntime

LEMMA ConfiguredRuntimePrime ==
    ASSUME CacheOK', NEW r \in Requests, Configured(r)'
    PROVE  EffectiveRuntime(r[1], r[2])' = IF ServingRuntime(r[1], r[2])' # {}
                                             THEN ServingRuntime(r[1], r[2])'
                                             ELSE MultiModel(ClusterServingRuntime(r[2])')
<1>1. r = <<r[1], r[2]>> /\ r[1] \in Namespaces /\ r[2] \in Names
  BY DEF Requests
<1>2. ServingRuntime(r[1], r[2])' # {} \/ MultiModel(ClusterServingRuntime(r[2])') # {}
  BY <1>1 DEF Configured, requestsForRuntimes, MultiModel
<1>3. ClusterServingRuntime(r[2])' = {} \/ \E s : ClusterServingRuntime(r[2])' = {s}
  BY DEF CacheOK, ClusterServingRuntime, Object
<1>4. MultiModel(ClusterServingRuntime(r[2])') \in {{}, ClusterServingRuntime(r[2])'}
  BY <1>3 DEF MultiModel
<1> QED BY <1>2, <1>4 DEF EffectiveRuntime

\* The types hold at the start.
LEMMA TypeInit == Init => TypeOK
<1> SUFFICES ASSUME Init PROVE TypeOK
  OBVIOUS
<1>1. cache \in Origins
  BY DEF Init
<1>2. CacheOK
  BY <1>1, RequestsAssumption DEF Init, CacheOK
<1>3. EventsOK
  <2>1. Range(<<>>) = {} /\ <<>> \in Seq({})
    BY DEF Range
  <2> QED BY <2>1 DEF Init, EventsOK
<1>4. WorkOK
  BY DEF Init, WorkOK
<1>5. DeploymentsOK
  <2>1. \A ns \in Namespaces : EtcdAfter(ns) \in {{}, EtcdSecret(ns)}
    BY DEF EtcdAfter
  <2>2. ASSUME NEW r \in Requests, NEW d \in deployment[r]
        PROVE  /\ deployment[r] = {d} /\ IsDeployment(d) /\ d.orphan \in BOOLEAN
               /\ d.owner \in {"ServingRuntime", "ClusterServingRuntime"}
    <3>1. deployment[r] = Wanted(r[1], r[2])
      BY DEF Init
    <3>2. PICK s : Wanted(r[1], r[2]) = {DeploymentOf(s, r[1], r[2], AllPredictors(r[1]))}
      BY <3>1, <2>2, <1>2, WantedIs
    <3>3. d = DeploymentOf(s, r[1], r[2], AllPredictors(r[1])) /\ deployment[r] = {d}
      BY <3>1, <3>2
    <3>4. /\ IsDeployment(d) /\ d.orphan \in BOOLEAN
          /\ d.owner \in {"ServingRuntime", "ClusterServingRuntime"}
      BY <3>3, DeploymentOfFields, Zenon
    <3> QED BY <3>3, <3>4
  <2>3. /\ DOMAIN deployment = Requests /\ DOMAIN constraints = Namespaces
        /\ DOMAIN etcd = Namespaces /\ \A ns \in Namespaces : etcd[ns] = EtcdAfter(ns)
    BY DEF Init
  <2> QED BY <2>1, <2>2, <2>3 DEF DeploymentsOK, IsDeployment
<1> QED BY <1>2, <1>3, <1>4, <1>5 DEF TypeOK

-----------------------------------------------------------------------------
\* What pending changes ask for

\* The runtimes of a namespace that a Predictor of one of these types could use.
Supporting(r, P) == \E p \in P : r[2] \in getRuntimesSupportingPredictor(r[1], p)

\* The Predictors that the handler of a change looks at.
Looked(e) ==
    CASE e.object[1] = "Predictor" -> e.versions
      [] e.object[1] = "Plugin" -> cache[e.object]
      [] e.object[1] = "InferenceService" ->
           UNION {BuildBasePredictorFromInferenceService(c) : c \in e.versions}

\* What it takes for the handler of a change to ask for a request, by kind.
AskedOf(e, r) ==
    LET o == e.object
        runtime == r \in requestsForRuntimes({r[1]})
    IN  \/ o[1] = "ServingRuntime" /\ r = <<o[2], o[3]>>
        \/ /\ o[1] = "ClusterServingRuntime" /\ r[2] = o[3]
           /\ modelMeshEnabled(r[1]) /\ \E c \in e.versions : c.multiModel
        \/ o[1] = "Namespace" /\ o[2] = r[1] /\ runtime
        \/ o[1] = "ConfigMap" /\ Configured(r)
        \/ o[1] = "Secret" /\ o[2] = r[1] /\ Configured(r)
        \/ /\ o[1] \in {"Predictor", "Plugin", "InferenceService"} /\ o[2] = r[1]
           /\ modelMeshEnabled(r[1]) /\ Supporting(r, Looked(e))

\* Asks, kind by kind.
LEMMA AsksIs ==
    ASSUME NEW e, e.object \in Objects, e.versions # {}, NEW r \in Requests
    PROVE  Asks(e, r) <=> AskedOf(e, r)
<1> DEFINE o == e.object
<1>1. r = <<r[1], r[2]>> /\ r[1] \in Namespaces /\ r[2] \in Names
  BY DEF Requests
<1>2. o[1] \in Kinds
  BY RequestsAssumption
<1>3. CASE o[1] = "ServingRuntime"
  BY <1>3 DEF Asks, AskedOf, EventRequests, RequestsOf
<1>4. CASE o[1] = "ClusterServingRuntime"
  BY <1>1, <1>4 DEF Asks, AskedOf, EventRequests, RequestsOf, clusterServingRuntimeRequests
<1>5. CASE o[1] = "Namespace"
  <2>1. r \in requestsForRuntimes({o[2]}) <=> o[2] = r[1] /\ r \in requestsForRuntimes({r[1]})
    BY <1>1 DEF requestsForRuntimes
  <2> QED BY <1>5, <2>1 DEF Asks, AskedOf, EventRequests, RequestsOf
<1>6. CASE o[1] = "ConfigMap"
  <2>1. r \in requestsForRuntimes({ns \in Namespaces : modelMeshEnabled(ns)}) <=> Configured(r)
    BY <1>1 DEF requestsForRuntimes, Configured
  <2> QED BY <1>6, <2>1 DEF Asks, AskedOf, EventRequests, RequestsOf
<1>7. CASE o[1] = "Secret"
  <2>1. r \in storageSecretRequests(o[2]) <=> o[2] = r[1] /\ Configured(r)
    BY <1>1 DEF requestsForRuntimes, Configured, storageSecretRequests
  <2> QED BY <1>7, <2>1 DEF Asks, AskedOf, EventRequests, RequestsOf
<1>8. \A p : r \in runtimeRequestsForPredictor(o[2], p) <=>
               o[2] = r[1] /\ r[2] \in getRuntimesSupportingPredictor(r[1], p)
  BY <1>1 DEF runtimeRequestsForPredictor
<1>9. CASE o[1] = "Predictor"
  BY <1>8, <1>9 DEF Asks, AskedOf, EventRequests, RequestsOf, Supporting, Looked
<1>10. CASE o[1] = "Plugin"
  BY <1>8, <1>10 DEF Asks, AskedOf, EventRequests, RequestsOf, Supporting, Looked
<1>11. CASE o[1] = "InferenceService"
  BY <1>8, <1>11 DEF Asks, AskedOf, EventRequests, RequestsOf, Supporting, Looked
<1> QED BY <1>2, <1>3, <1>4, <1>5, <1>6, <1>7, <1>9, <1>10, <1>11 DEF Kinds

LEMMA AsksIsPrime ==
    ASSUME NEW e, e.object \in Objects, e.versions # {}, NEW r \in Requests
    PROVE  Asks(e, r)' <=> AskedOf(e, r)'
<1> DEFINE o == e.object
<1>1. r = <<r[1], r[2]>> /\ r[1] \in Namespaces /\ r[2] \in Names
  BY DEF Requests
<1>2. o[1] \in Kinds
  BY RequestsAssumption
<1>3. CASE o[1] = "ServingRuntime"
  BY <1>3 DEF Asks, AskedOf, EventRequests, RequestsOf
<1>4. CASE o[1] = "ClusterServingRuntime"
  BY <1>1, <1>4 DEF Asks, AskedOf, EventRequests, RequestsOf, clusterServingRuntimeRequests
<1>5. CASE o[1] = "Namespace"
  <2>1. (r \in requestsForRuntimes({o[2]}))' <=> o[2] = r[1] /\ (r \in requestsForRuntimes({r[1]}))'
    BY <1>1 DEF requestsForRuntimes
  <2> QED BY <1>5, <2>1 DEF Asks, AskedOf, EventRequests, RequestsOf
<1>6. CASE o[1] = "ConfigMap"
  <2>1. (r \in requestsForRuntimes({ns \in Namespaces : modelMeshEnabled(ns)}))' <=> Configured(r)'
    BY <1>1 DEF requestsForRuntimes, Configured
  <2> QED BY <1>6, <2>1 DEF Asks, AskedOf, EventRequests, RequestsOf
<1>7. CASE o[1] = "Secret"
  <2>1. (r \in storageSecretRequests(o[2]))' <=> o[2] = r[1] /\ Configured(r)'
    BY <1>1 DEF requestsForRuntimes, Configured, storageSecretRequests
  <2> QED BY <1>7, <2>1 DEF Asks, AskedOf, EventRequests, RequestsOf
<1>8. \A p : (r \in runtimeRequestsForPredictor(o[2], p))' <=>
               o[2] = r[1] /\ (r[2] \in getRuntimesSupportingPredictor(r[1], p))'
  BY <1>1 DEF runtimeRequestsForPredictor
<1>9. CASE o[1] = "Predictor"
  BY <1>8, <1>9 DEF Asks, AskedOf, EventRequests, RequestsOf, Supporting, Looked
<1>10. CASE o[1] = "Plugin"
  BY <1>8, <1>10 DEF Asks, AskedOf, EventRequests, RequestsOf, Supporting, Looked
<1>11. CASE o[1] = "InferenceService"
  BY <1>8, <1>11 DEF Asks, AskedOf, EventRequests, RequestsOf, Supporting, Looked
<1> QED BY <1>2, <1>3, <1>4, <1>5, <1>6, <1>7, <1>9, <1>10, <1>11 DEF Kinds

\* The handler of a change that asks for a request is not lost.
LEMMA NewEventPending ==
    ASSUME TypeOK, NEW o \in Objects, NEW new, Changed(o, new), o[1] # "Plugin",
           NEW r \in Requests, NEW e, e = Event(o, new), AskedOf(e, r)'
    PROVE  Pending(r)'
<1>1. o[1] \in Kinds \ {"Plugin"}
  BY RequestsAssumption
<1>2. e.object = o /\ e.versions # {}
  BY DEF Event, Changed
<1>3. Asks(e, r)'
  BY <1>2, AsksIsPrime
<1>4. e \in Range(events'[o[1]])
  BY <1>1 DEF Changed
<1> QED BY <1>1, <1>3, <1>4 DEF Pending

\* What a change of an object leaves alone.
LEMMA ServingRuntimeSame ==
    ASSUME NEW o \in Objects, NEW new, Changed(o, new), NEW ns, NEW n,
           o # <<"ServingRuntime", ns, n>>
    PROVE  ServingRuntime(ns, n)' = ServingRuntime(ns, n)
BY DEF ServingRuntime, Object, Changed

LEMMA ClusterServingRuntimeSame ==
    ASSUME NEW o \in Objects, NEW new, Changed(o, new), NEW n,
           o # <<"ClusterServingRuntime", "", n>>
    PROVE  ClusterServingRuntime(n)' = ClusterServingRuntime(n)
BY DEF ClusterServingRuntime, Object, Changed

LEMMA ClusterServingRuntimeChanges ==
    ASSUME NEW o \in Objects, NEW new, Changed(o, new), NEW n,
           o = <<"ClusterServingRuntime", "", n>>
    PROVE  ClusterServingRuntime(n) = cache[o] /\ ClusterServingRuntime(n)' = new
BY DEF ClusterServingRuntime, Object, Changed

LEMMA EnabledSame ==
    ASSUME NEW o \in Objects, NEW new, Changed(o, new), NEW ns, o # <<"Namespace", ns, "">>
    PROVE  (modelMeshEnabled(ns)' <=> modelMeshEnabled(ns))
           /\ modelMeshEnabled(ns)' = modelMeshEnabled(ns)
<1>1. Object("Namespace", ns, "")' = Object("Namespace", ns, "")
  BY DEF Object, Changed
<1>2. modelMeshEnabled(ns)' <=> modelMeshEnabled(ns)
  BY <1>1 DEF modelMeshEnabled
<1>3. modelMeshEnabled(ns) \in BOOLEAN /\ modelMeshEnabled(ns)' \in BOOLEAN
  BY DEF modelMeshEnabled
<1> QED BY <1>2, <1>3

\* Whether a namespace has the runtime of a request, from the runtimes.
LEMMA RuntimeThere ==
    ASSUME NEW r \in Requests
    PROVE  /\ r \in requestsForRuntimes({r[1]}) <=>
                \/ ServingRuntime(r[1], r[2]) # {}
                \/ MultiModel(ClusterServingRuntime(r[2])) # {}
           /\ (r \in requestsForRuntimes({r[1]}))' <=>
                \/ ServingRuntime(r[1], r[2])' # {}
                \/ MultiModel(ClusterServingRuntime(r[2])') # {}
<1>1. r = <<r[1], r[2]>> /\ r[1] \in Namespaces /\ r[2] \in Names
  BY DEF Requests
<1>2. r \in requestsForRuntimes({r[1]}) <=>
                \/ ServingRuntime(r[1], r[2]) # {}
                \/ MultiModel(ClusterServingRuntime(r[2])) # {}
  BY <1>1 DEF requestsForRuntimes
<1>3. (r \in requestsForRuntimes({r[1]}))' <=>
                \/ ServingRuntime(r[1], r[2])' # {}
                \/ MultiModel(ClusterServingRuntime(r[2])') # {}
  BY <1>1 DEF requestsForRuntimes, MultiModel
<1> QED BY <1>2, <1>3

\* The configured runtime of a request is what it was.
SameRuntime(r) ==
    /\ Configured(r) /\ Configured(r)'
    /\ ServingRuntime(r[1], r[2])' = ServingRuntime(r[1], r[2])
    /\ MultiModel(ClusterServingRuntime(r[2])') = MultiModel(ClusterServingRuntime(r[2]))

\* A change of a runtime, of its namespace's label or of the runtime that it
\* overrides is followed by a request for it.
LEMMA StructureChange ==
    ASSUME TypeOK, NEW o \in Objects, NEW new, Changed(o, new), NEW r \in Requests
    PROVE  Pending(r)' \/ (~Configured(r) /\ ~Configured(r)') \/ SameRuntime(r)
<1> DEFINE ns == r[1]
           n == r[2]
<1>1. r = <<ns, n>> /\ ns \in Namespaces /\ n \in Names
  BY DEF Requests
<1>2. PICK e : e = Event(o, new)
  OBVIOUS
<1>3. e.object = o /\ e.versions = cache[o] \cup new
  BY <1>2 DEF Event
<1>4. CASE o = <<"ServingRuntime", ns, n>>
  <2>1. AskedOf(e, r)'
    BY <1>1, <1>3, <1>4 DEF AskedOf
  <2> QED BY <1>2, <1>4, <2>1, NewEventPending
<1>5. CASE o = <<"ClusterServingRuntime", "", n>>
  <2>1. /\ ServingRuntime(ns, n)' = ServingRuntime(ns, n)
        /\ ClusterServingRuntime(n) = cache[o] /\ ClusterServingRuntime(n)' = new
        /\ modelMeshEnabled(ns)' <=> modelMeshEnabled(ns)
    BY <1>5, ServingRuntimeSame, ClusterServingRuntimeChanges, EnabledSame
  <2>2. CASE ~modelMeshEnabled(ns)
    BY <2>1, <2>2 DEF Configured
  <2>3. CASE modelMeshEnabled(ns) /\ \E c \in e.versions : c.multiModel
    <3>0. o[1] = "ClusterServingRuntime" /\ r[2] = o[3]
      BY <1>5
    <3>1. AskedOf(e, r)'
      BY <3>0, <1>3, <2>1, <2>3 DEF AskedOf
    <3> QED BY <1>2, <1>5, <3>1, NewEventPending
  <2>4. CASE \A c \in e.versions : ~c.multiModel
    <3>1. MultiModel(ClusterServingRuntime(n)') = {} /\ MultiModel(ClusterServingRuntime(n)) = {}
      BY <1>3, <2>1, <2>4 DEF MultiModel
    <3> QED BY <2>1, <3>1, RuntimeThere DEF Configured, SameRuntime
  <2> QED BY <2>2, <2>3, <2>4
<1>6. CASE o = <<"Namespace", ns, "">>
  <2>1. /\ ServingRuntime(ns, n)' = ServingRuntime(ns, n)
        /\ ClusterServingRuntime(n)' = ClusterServingRuntime(n)
    BY <1>6, ServingRuntimeSame, ClusterServingRuntimeSame
  <2>2. CASE (r \in requestsForRuntimes({r[1]}))'
    <3>0. o[1] = "Namespace" /\ o[2] = r[1]
      BY <1>6
    <3>1. AskedOf(e, r)'
      BY <3>0, <1>3, <2>2 DEF AskedOf
    <3> QED BY <1>2, <1>6, <3>1, NewEventPending
  <2>3. CASE ~(r \in requestsForRuntimes({r[1]}))'
    BY <2>1, <2>3, RuntimeThere DEF Configured
  <2> QED BY <2>2, <2>3
<1>7. CASE o \notin {<<"ServingRuntime", ns, n>>, <<"ClusterServingRuntime", "", n>>,
                     <<"Namespace", ns, "">>}
  <2>1. /\ ServingRuntime(ns, n)' = ServingRuntime(ns, n)
        /\ ClusterServingRuntime(n)' = ClusterServingRuntime(n)
        /\ modelMeshEnabled(ns)' <=> modelMeshEnabled(ns)
    BY <1>7, ServingRuntimeSame, ClusterServingRuntimeSame, EnabledSame
  <2> QED BY <2>1, RuntimeThere DEF Configured, SameRuntime
<1> QED BY <1>4, <1>5, <1>6, <1>7

\* A namespace and a cluster scoped runtime that both changed: it is noted.
LEMMA BothLapse ==
    ASSUME NEW o \in Objects, NEW new, Changed(o, new), NEW e \in Range(events'["Namespace"]),
           events'["ClusterServingRuntime"] # <<>>
    PROVE  <<"runtime", e.object[2]>> \in lapsed'
<1>1. <<"runtime", e.object[2]>> \in Lapses(o, cache[o], new, events')
  BY DEF Lapses
<1> QED BY <1>1 DEF Changed

\* A Predictor is supported by the same runtimes while they stay as they are.
LEMMA SupportingSame ==
    ASSUME NEW r \in Requests, NEW p, SameRuntime(r), config' = config,
           r[2] \in getRuntimesSupportingPredictor(r[1], p)
    PROVE  (r[2] \in getRuntimesSupportingPredictor(r[1], p))'
<1>1. PICK s \in MultiModel(ServingRuntime(r[1], r[2]) \cup ClusterServingRuntime(r[2])) :
             runtimeSupportsPredictor(s, p, config, r[2])
  BY DEF getRuntimesSupportingPredictor
<1>2. s \in MultiModel(ServingRuntime(r[1], r[2])' \cup ClusterServingRuntime(r[2])')
  BY <1>1 DEF SameRuntime, MultiModel
<1>3. r[2] \in Names
  BY DEF Requests
<1> QED BY <1>1, <1>2, <1>3 DEF getRuntimesSupportingPredictor, MultiModel, runtimeSupportsPredictor

\* A namespace that is asked about a Predictor has the runtime.
LEMMA SupportingThere ==
    ASSUME NEW r \in Requests, NEW P, Supporting(r, P), modelMeshEnabled(r[1])
    PROVE  Configured(r)
<1>1. ServingRuntime(r[1], r[2]) # {} \/ MultiModel(ClusterServingRuntime(r[2])) # {}
  BY DEF Supporting, getRuntimesSupportingPredictor, MultiModel
<1> QED BY <1>1, RuntimeThere DEF Configured

\* What was asked for is asked for still, unless it is gone from its namespace and
\* that is noted.
LEMMA AskedKept ==
    ASSUME TypeOK, NEW o \in Objects, NEW new, Changed(o, new), NEW r \in Requests,
           NEW k \in Kinds \ {"Plugin"}, NEW e \in Range(events[k]), Asks(e, r)
    PROVE  Pending(r)' \/ (~Configured(r)' /\ <<"runtime", r[1]>> \in lapsed')
<1>1. /\ e.object \in Objects /\ e.object[1] = k /\ e.versions # {}
      /\ e \in Range(events'[k])
  BY DEF TypeOK, EventsOK, Changed
<1>2. AskedOf(e, r)
  BY <1>1, AsksIs
<1>3. AskedOf(e, r)' => Pending(r)'
  BY <1>1, AsksIsPrime DEF Pending
<1>4. Pending(r)' \/ (~Configured(r) /\ ~Configured(r)') \/ SameRuntime(r)
  BY StructureChange
<1>5. config' = config
  BY DEF Changed
<1>6. CASE k = "ServingRuntime"
  BY <1>1, <1>2, <1>3, <1>6 DEF AskedOf
<1>7. CASE k = "ClusterServingRuntime"
  <2>1. CASE modelMeshEnabled(r[1])'
    BY <1>1, <1>2, <1>3, <1>7, <2>1 DEF AskedOf
  <2>2. CASE ~modelMeshEnabled(r[1])'
    <3>1. modelMeshEnabled(r[1])
      BY <1>1, <1>2, <1>7 DEF AskedOf
    <3>2. o = <<"Namespace", r[1], "">>
      BY <2>2, <3>1, EnabledSame
    <3>3. PICK f : f = Event(o, new)
      OBVIOUS
    <3>4. o[1] = "Namespace" /\ o[2] = r[1]
      BY <3>2
    <3>5. f.object = o /\ f \in Range(events'["Namespace"])
      BY <3>3, <3>4 DEF Changed, Event, Kinds
    <3>6. events'["ClusterServingRuntime"] # <<>>
      BY <1>1, <1>7 DEF Range
    <3>7. <<"runtime", r[1]>> \in lapsed'
      BY <3>4, <3>5, <3>6, BothLapse
    <3> QED BY <2>2, <3>7 DEF Configured
  <2> QED BY <2>1, <2>2
<1>8. CASE k = "Namespace"
  <2>1. e.object[2] = r[1] /\ r \in requestsForRuntimes({r[1]})
    BY <1>1, <1>2, <1>8 DEF AskedOf
  <2>2. CASE (r \in requestsForRuntimes({r[1]}))'
    BY <1>1, <1>3, <1>8, <2>1, <2>2 DEF AskedOf
  <2>3. CASE ~(r \in requestsForRuntimes({r[1]}))'
    <3>1. o = <<"ServingRuntime", r[1], r[2]>> \/ o = <<"ClusterServingRuntime", "", r[2]>>
      BY <2>1, <2>3, RuntimeThere, ServingRuntimeSame, ClusterServingRuntimeSame
    <3>2. CASE o = <<"ServingRuntime", r[1], r[2]>>
      <4>1. PICK f : f = Event(o, new)
        OBVIOUS
      <4>2. f.object = o /\ o[1] = "ServingRuntime" /\ r = <<o[2], o[3]>>
        BY <3>2, <4>1 DEF Event, Requests
      <4>3. AskedOf(f, r)'
        BY <4>2 DEF AskedOf
      <4> QED BY <4>1, <4>2, <4>3, NewEventPending
    <3>3. CASE o = <<"ClusterServingRuntime", "", r[2]>>
      <4>1. o[1] = "ClusterServingRuntime"
        BY <3>3
      <4>2. events'["ClusterServingRuntime"] # <<>>
        BY <4>1 DEF Changed
      <4>3. <<"runtime", r[1]>> \in lapsed'
        BY <1>1, <1>8, <2>1, <4>2, BothLapse
      <4> QED BY <2>3, <4>3 DEF Configured
    <3> QED BY <3>1, <3>2, <3>3
  <2> QED BY <2>2, <2>3
<1>9. CASE k \in {"ConfigMap", "Secret"}
  BY <1>1, <1>2, <1>3, <1>4, <1>9 DEF AskedOf, SameRuntime
<1>10. CASE k \in {"Predictor", "InferenceService"}
  <2>1. e.object[2] = r[1] /\ modelMeshEnabled(r[1]) /\ Supporting(r, Looked(e))
    BY <1>1, <1>2, <1>10 DEF AskedOf
  <2>2. Configured(r)
    BY <2>1, SupportingThere
  <2>3. CASE SameRuntime(r)
    <3>1. PICK p \in Looked(e) : r[2] \in getRuntimesSupportingPredictor(r[1], p)
      BY <2>1 DEF Supporting
    <3>2. (r[2] \in getRuntimesSupportingPredictor(r[1], p))'
      BY <2>3, <3>1, <1>5, SupportingSame
    <3>3. p \in Looked(e)'
      BY <1>1, <1>10, <3>1 DEF Looked
    <3>4. modelMeshEnabled(r[1])'
      BY <2>3 DEF SameRuntime, Configured
    <3>5. AskedOf(e, r)'
      BY <1>1, <1>10, <2>1, <3>2, <3>3, <3>4 DEF AskedOf, Supporting
    <3> QED BY <1>3, <3>5
  <2> QED BY <1>4, <2>2, <2>3
<1> QED BY <1>6, <1>7, <1>8, <1>9, <1>10 DEF Kinds

\* So a request that is pending stays so.
LEMMA PendingKept ==
    ASSUME TypeOK, NEW o \in Objects, NEW new, Changed(o, new), NEW r \in Requests, Pending(r)
    PROVE  Pending(r)' \/ (~Configured(r)' /\ <<"runtime", r[1]>> \in lapsed')
<1>1. CASE r \in queue
  BY <1>1 DEF Pending, Changed
<1>2. CASE r \notin queue
  <2>1. PICK k \in Kinds \ {"Plugin"} : \E e \in Range(events[k]) : Asks(e, r)
    BY <1>2 DEF Pending
  <2> QED BY <2>1, AskedKept
<1> QED BY <1>1, <1>2

\* What a plug-in asks for is asked for still, unless that Predictor changes too,
\* which is noted.
LEMMA PluginKept ==
    ASSUME TypeOK, NEW o \in Objects, NEW new, Changed(o, new), NEW r \in Requests,
           PluginPending(r), <<"predictor", r[1]>> \notin lapsed'
    PROVE  Pending(r)' \/ PluginPending(r)'
<1>1. PICK e \in Range(events["Plugin"]) : Asks(e, r)
  BY DEF PluginPending
<1>2. /\ e.object \in Objects /\ e.object[1] = "Plugin" /\ e.versions # {}
      /\ e \in Range(events'["Plugin"])
  BY DEF TypeOK, EventsOK, Changed, Kinds
<1>3. e.object[2] = r[1] /\ modelMeshEnabled(r[1]) /\ Supporting(r, Looked(e))
  BY <1>1, <1>2, AsksIs DEF AskedOf
<1>4. PICK p \in cache[e.object] : r[2] \in getRuntimesSupportingPredictor(r[1], p)
  BY <1>2, <1>3 DEF Supporting, Looked
<1>5. o # e.object
  <2> SUFFICES ASSUME o = e.object PROVE FALSE
    OBVIOUS
  <2>1. <<"predictor", o[2]>> \in Lapses(o, cache[o], new, events')
    BY <1>2, <1>4 DEF Lapses
  <2> QED BY <1>3, <2>1 DEF Changed
<1>6. p \in cache'[e.object]
  BY <1>2, <1>4, <1>5 DEF Changed
<1>7. Configured(r)
  BY <1>3, SupportingThere
<1>8. CASE SameRuntime(r)
  <2>1. (r[2] \in getRuntimesSupportingPredictor(r[1], p))'
    BY <1>4, <1>8, SupportingSame DEF Changed
  <2>2. modelMeshEnabled(r[1])'
    BY <1>8 DEF SameRuntime, Configured
  <2>3. AskedOf(e, r)'
    BY <1>2, <1>3, <1>6, <2>1, <2>2 DEF AskedOf, Supporting, Looked
  <2> QED BY <1>2, <2>3, AsksIsPrime DEF PluginPending
<1> QED BY <1>7, <1>8, StructureChange

-----------------------------------------------------------------------------
\* Predictors

\* The Predictor that an InferenceService stands for has the type of the one that
\* is looked at when it changes.
LEMMA BaseType ==
    ASSUME NEW i, NEW p \in PredictorFrom(i)
    PROVE  \E b \in BuildBasePredictorFromInferenceService(i) :
                GetPredictorTypeLabel(b) = GetPredictorTypeLabel(p)
<1>1. PICK b \in BuildBasePredictorFromInferenceService(i) :
             p = [b EXCEPT !.parameters = StorageParameters(i)]
  BY DEF PredictorFrom, processInferenceServiceStorage
<1>2. PICK t, v, c, u : b = [type |-> t, version |-> v, protocol |-> c, runtime |-> u,
                             parameters |-> <<>>]
  BY DEF BuildBasePredictorFromInferenceService
<1>3. p.type = b.type /\ p.version = b.version /\ p.protocol = b.protocol /\ p.runtime = b.runtime
  BY <1>1, <1>2
<1>4. GetPredictorTypeLabel(b) = GetPredictorTypeLabel(p)
  BY <1>3 DEF GetPredictorTypeLabel
<1> QED BY <1>4

\* Which runtimes support a Predictor depends on its type.
LEMMA SupportsType ==
    ASSUME NEW s, NEW p, NEW q, NEW c, NEW n, GetPredictorTypeLabel(p) = GetPredictorTypeLabel(q)
    PROVE  runtimeSupportsPredictor(s, p, c, n) <=> runtimeSupportsPredictor(s, q, c, n)
BY DEF runtimeSupportsPredictor

\* A runtime has Predictors if one of any source is supported, or a search ends at
\* a rejected InferenceService.
LEMMA HasPredictors ==
    ASSUME NEW s, NEW ns, NEW n
    PROVE  runtimeHasPredictors(s, ns, n) <=>
             \/ \E p \in AllPredictors(ns) : runtimeSupportsPredictor(s, p, config, n)
             \/ \E i \in Services(ns) : Rejected(i)
BY DEF runtimeHasPredictors, Find, AllPredictors

LEMMA HasPredictorsPrime ==
    ASSUME NEW s, NEW ns, NEW n
    PROVE  runtimeHasPredictors(s, ns, n)' <=>
             \/ \E p \in AllPredictors(ns)' : runtimeSupportsPredictor(s, p, config', n)
             \/ \E i \in Services(ns)' : Rejected(i)
BY DEF runtimeHasPredictors, Find, AllPredictors

\* The Predictors of a namespace change with an object of theirs.
LEMMA ClusterPredictorsChange ==
    ASSUME CacheOK, NEW o \in Objects, NEW new, Changed(o, new), NEW ns, NEW p,
           ~(p \in ClusterPredictors(ns)' <=> p \in ClusterPredictors(ns))
    PROVE  o[1] = "Predictor" /\ o[2] = ns /\ p \in cache[o] \cup new
BY DEF ClusterPredictors, Changed

LEMMA PluginPredictorsChange ==
    ASSUME CacheOK, NEW o \in Objects, NEW new, Changed(o, new), NEW ns, NEW p,
           ~(p \in PluginPredictors(ns)' <=> p \in PluginPredictors(ns))
    PROVE  o[1] = "Plugin" /\ o[2] = ns /\ p \in cache[o] \cup new
BY DEF PluginPredictors, Changed

LEMMA ServicesChange ==
    ASSUME CacheOK, NEW o \in Objects, NEW new, Changed(o, new), NEW ns, NEW i,
           ~(i \in Services(ns)' <=> i \in Services(ns))
    PROVE  o[1] = "InferenceService" /\ o[2] = ns /\ i \in cache[o] \cup new
BY DEF Services, Changed

LEMMA PredictorsChange ==
    ASSUME CacheOK, NEW o \in Objects, NEW new, Changed(o, new), NEW ns, NEW p,
           ~(p \in AllPredictors(ns)' <=> p \in AllPredictors(ns))
    PROVE  /\ o[2] = ns
           /\ \/ o[1] \in {"Predictor", "Plugin"} /\ p \in cache[o] \cup new
              \/ o[1] = "InferenceService" /\ \E i \in cache[o] \cup new : p \in PredictorFrom(i)
<1>1. CASE ~(p \in ClusterPredictors(ns)' <=> p \in ClusterPredictors(ns))
  BY <1>1, ClusterPredictorsChange
<1>2. CASE ~(p \in PluginPredictors(ns)' <=> p \in PluginPredictors(ns))
  BY <1>2, PluginPredictorsChange
<1>3. CASE /\ p \in ClusterPredictors(ns)' <=> p \in ClusterPredictors(ns)
           /\ p \in PluginPredictors(ns)' <=> p \in PluginPredictors(ns)
  <2>1. PICK i : p \in PredictorFrom(i) /\ ~(i \in Services(ns)' <=> i \in Services(ns))
    BY <1>3 DEF AllPredictors
  <2> QED BY <2>1, ServicesChange
<1> QED BY <1>1, <1>2, <1>3

\* A rejected InferenceService is noted when it comes.
LEMMA RejectionsChange ==
    ASSUME TypeOK, RejectionsNoted, NEW o \in Objects, NEW new, Changed(o, new)
    PROVE  RejectionsNoted'
<1> SUFFICES ASSUME NEW ns \in Namespaces, NEW i \in Services(ns)', Rejected(i)
             PROVE  <<"predictor", ns>> \in lapsed'
  BY DEF RejectionsNoted
<1>1. CASE i \in Services(ns)
  BY <1>1 DEF RejectionsNoted, Changed
<1>2. CASE i \notin Services(ns)
  <2>1. o[1] = "InferenceService" /\ o[2] = ns /\ i \in cache[o] \cup new
    BY <1>2, ServicesChange DEF TypeOK
  <2>2. <<"predictor", ns>> \in Lapses(o, cache[o], new, events')
    BY <2>1 DEF Lapses
  <2> QED BY <2>2 DEF Changed
<1> QED BY <1>1, <1>2

\* The runtime of a request that stays as it is.
LEMMA SameRuntimeReads ==
    ASSUME CacheOK, CacheOK', NEW r \in Requests, SameRuntime(r)
    PROVE  /\ EffectiveRuntime(r[1], r[2])' = EffectiveRuntime(r[1], r[2])
           /\ OwnerKind(r[1], r[2])' = OwnerKind(r[1], r[2])
           /\ modelMeshEnabled(r[1]) /\ modelMeshEnabled(r[1])'
<1>1. EffectiveRuntime(r[1], r[2])' = EffectiveRuntime(r[1], r[2])
  BY ConfiguredRuntime, ConfiguredRuntimePrime DEF SameRuntime
<1>2. OwnerKind(r[1], r[2])' = OwnerKind(r[1], r[2])
  BY DEF SameRuntime, OwnerKind
<1> QED BY <1>1, <1>2 DEF SameRuntime, Configured

\* A runtime that is on and supports a Predictor is asked for when it changes.
LEMMA SupportedAsked ==
    ASSUME NEW r \in Requests, NEW s, NEW p, EffectiveRuntime(r[1], r[2])' = {s}, s.multiModel,
           runtimeSupportsPredictor(s, p, config', r[2])
    PROVE  (r[2] \in getRuntimesSupportingPredictor(r[1], p))'
<1>1. s \in MultiModel(ServingRuntime(r[1], r[2])' \cup ClusterServingRuntime(r[2])')
  BY DEF EffectiveRuntime, MultiModel
<1>2. r[2] \in Names
  BY DEF Requests
<1> QED BY <1>1, <1>2 DEF getRuntimesSupportingPredictor, MultiModel, runtimeSupportsPredictor

\* A change of a Predictor that a runtime supports is followed by a request for
\* the runtime; for a Predictor of a plug-in, if it is there after the change.
LEMMA PredictorAsked ==
    ASSUME TypeOK, NEW o \in Objects, NEW new, Changed(o, new), NEW r \in Requests, NEW s, NEW p,
           EffectiveRuntime(r[1], r[2])' = {s}, s.multiModel, modelMeshEnabled(r[1])',
           runtimeSupportsPredictor(s, p, config', r[2]), o[2] = r[1],
           \/ o[1] = "Predictor" /\ p \in cache[o] \cup new
           \/ o[1] = "Plugin" /\ p \in new
           \/ o[1] = "InferenceService" /\ \E i \in cache[o] \cup new : p \in PredictorFrom(i)
    PROVE  Pending(r)' \/ (o[1] = "Plugin" /\ PluginPending(r)')
<1>1. PICK e : e = Event(o, new)
  OBVIOUS
<1>2. e.object = o /\ e.versions = cache[o] \cup new /\ e.versions # {}
  BY <1>1 DEF Event, Changed
<1>3. CASE o[1] = "Predictor"
  <2>1. p \in Looked(e)'
    BY <1>2, <1>3 DEF Looked
  <2>2. AskedOf(e, r)'
    BY <1>2, <1>3, <2>1, SupportedAsked DEF AskedOf, Supporting
  <2> QED BY <1>1, <1>3, <2>2, NewEventPending
<1>4. CASE o[1] = "Plugin"
  <2>1. p \in Looked(e)'
    BY <1>2, <1>4 DEF Looked, Changed
  <2>2. AskedOf(e, r)'
    BY <1>2, <1>4, <2>1, SupportedAsked DEF AskedOf, Supporting
  <2>3. Asks(e, r)'
    BY <1>2, <2>2, AsksIsPrime
  <2>4. e \in Range(events'["Plugin"])
    BY <1>1, <1>4 DEF Changed, Kinds
  <2> QED BY <1>4, <2>3, <2>4 DEF PluginPending
<1>5. CASE o[1] = "InferenceService"
  <2>1. PICK i \in cache[o] \cup new : p \in PredictorFrom(i)
    BY <1>5
  <2>2. PICK b \in BuildBasePredictorFromInferenceService(i) :
               GetPredictorTypeLabel(b) = GetPredictorTypeLabel(p)
    BY <2>1, BaseType
  <2>3. runtimeSupportsPredictor(s, b, config', r[2])
    BY <2>2, SupportsType
  <2>4. b \in Looked(e)'
    BY <1>2, <1>5, <2>1, <2>2 DEF Looked
  <2>5. (r[2] \in getRuntimesSupportingPredictor(r[1], b))'
    BY <2>3, SupportedAsked
  <2>6. AskedOf(e, r)'
    BY <1>2, <1>5, <2>4, <2>5 DEF AskedOf, Supporting
  <2> QED BY <1>1, <1>5, <2>6, NewEventPending
<1> QED BY <1>3, <1>4, <1>5

\* What is wanted of a runtime that stays as it is.
LEMMA WantedSame ==
    ASSUME CacheOK, CacheOK', NEW r \in Requests, SameRuntime(r), config' = config,
           Object("Secret", r[1], "")' = Object("Secret", r[1], ""),
           \A i \in Services(r[1]) : ~Rejected(i), \A i \in Services(r[1])' : ~Rejected(i),
           \A s, p : EffectiveRuntime(r[1], r[2]) = {s} /\ s.multiModel
                       /\ runtimeSupportsPredictor(s, p, config, r[2]) =>
                         (p \in AllPredictors(r[1])' <=> p \in AllPredictors(r[1]))
    PROVE  Wanted(r[1], r[2])' = Wanted(r[1], r[2])
<1> DEFINE ns == r[1]
           n == r[2]
<1>1. /\ EffectiveRuntime(ns, n)' = EffectiveRuntime(ns, n)
      /\ OwnerKind(ns, n)' = OwnerKind(ns, n)
      /\ modelMeshEnabled(ns) /\ modelMeshEnabled(ns)'
  BY SameRuntimeReads
<1>2. CASE EffectiveRuntime(ns, n) = {}
  BY <1>1, <1>2 DEF Wanted
<1>3. ASSUME NEW s, EffectiveRuntime(ns, n) = {s}
      PROVE  Wanted(ns, n)' = Wanted(ns, n)
  <2>1. CASE Off(s, TRUE)
    <3>1. Wanted(ns, n) = {}
      BY <1>1, <1>3, <2>1 DEF Wanted, Off
    <3>2. Wanted(ns, n)' = {}
      BY <1>1, <1>3, <2>1 DEF Wanted, Off
    <3> QED BY <3>1, <3>2
  <2>2. CASE ~Off(s, TRUE)
    <3>1. s.multiModel
      BY <2>2 DEF Off
    <3>2. \A p : runtimeSupportsPredictor(s, p, config, n) =>
                   (p \in AllPredictors(ns)' <=> p \in AllPredictors(ns))
      BY <1>3, <3>1
    <3>3. runtimeHasPredictors(s, ns, n)' = runtimeHasPredictors(s, ns, n)
      <4>1. runtimeHasPredictors(s, ns, n)' <=> runtimeHasPredictors(s, ns, n)
        BY <3>2, HasPredictors, HasPredictorsPrime
      <4>2. runtimeHasPredictors(s, ns, n) \in BOOLEAN /\ runtimeHasPredictors(s, ns, n)' \in BOOLEAN
        BY DEF runtimeHasPredictors
      <4> QED BY <4>1, <4>2
    <3>4. getPVCs(s, ns, n, AllPredictors(ns))' = getPVCs(s, ns, n, AllPredictors(ns))
      <4>1. {p \in AllPredictors(ns)' : runtimeSupportsPredictor(s, p, config, n)} =
            {p \in AllPredictors(ns) : runtimeSupportsPredictor(s, p, config, n)}
        BY <3>2
      <4> QED BY <4>1 DEF getPVCs, runtimeSupportsPredictor
    <3>5. DeploymentOf(s, ns, n, AllPredictors(ns))' = DeploymentOf(s, ns, n, AllPredictors(ns))
      <4> DEFINE u == runtimeHasPredictors(s, ns, n)
                 c == getPVCs(s, ns, n, AllPredictors(ns))
                 w == OwnerKind(ns, n)
                 l == GetServingRuntimeLabelSet(s, config, n)
      <4>1. DeploymentOf(s, ns, n, AllPredictors(ns)) =
              [owner |-> w, orphan |-> FALSE, labels |-> l, up |-> u, claims |-> c]
        BY DEF DeploymentOf
      <4>2. DeploymentOf(s, ns, n, AllPredictors(ns))' =
              [owner |-> w', orphan |-> FALSE, labels |-> l', up |-> u', claims |-> c']
        BY DEF DeploymentOf
      <4>3. l' = l
        BY DEF GetServingRuntimeLabelSet, ProtocolLabels, ModelTypeLabels
      <4>4. u' = u /\ c' = c /\ w' = w
        BY <3>3, <3>4, <1>1
      <4> HIDE DEF u, c, w, l
      <4> QED BY <4>1, <4>2, <4>3, <4>4
    <3>6. Wanted(ns, n) = {DeploymentOf(s, ns, n, AllPredictors(ns))}
      BY <1>1, <1>3, <2>2 DEF Wanted, Off
    <3>7. Wanted(ns, n)' = {DeploymentOf(s, ns, n, AllPredictors(ns))'}
      BY <1>1, <1>3, <2>2 DEF Wanted, Off
    <3> QED BY <3>5, <3>6, <3>7
  <2> QED BY <2>1, <2>2
<1>4. EffectiveRuntime(ns, n) = {} \/ \E s : EffectiveRuntime(ns, n) = {s}
  BY RuntimesAre
<1> QED BY <1>2, <1>3, <1>4

\* What is wanted for a request changes only with a request for it, in a namespace
\* where nothing is noted.
LEMMA WantedChange ==
    ASSUME TypeOK, TypeOK', RejectionsNoted, NEW o \in Objects, NEW new, Changed(o, new),
           NEW r \in Requests, <<"predictor", r[1]>> \notin lapsed'
    PROVE  Pending(r)' \/ PluginPending(r)' \/ Wanted(r[1], r[2])' = Wanted(r[1], r[2])
<1> SUFFICES ASSUME ~Pending(r)', ~PluginPending(r)'
             PROVE  Wanted(r[1], r[2])' = Wanted(r[1], r[2])
  OBVIOUS
<1>1. CASE ~Configured(r) /\ ~Configured(r)'
  BY <1>1, WantedConfigured
<1>2. CASE SameRuntime(r)
  <2>1. /\ EffectiveRuntime(r[1], r[2])' = EffectiveRuntime(r[1], r[2])
        /\ modelMeshEnabled(r[1])' /\ CacheOK /\ CacheOK' /\ config' = config
    BY <1>2, SameRuntimeReads DEF TypeOK, Changed
  <2>2. r[1] \in Namespaces
    BY DEF Requests
  <2>3. /\ \A i \in Services(r[1]) : ~Rejected(i)
        /\ \A i \in Services(r[1])' : ~Rejected(i)
    <3>1. RejectionsNoted'
      BY RejectionsChange
    <3>2. <<"predictor", r[1]>> \notin lapsed
      BY DEF Changed
    <3> QED BY <2>2, <3>1, <3>2 DEF RejectionsNoted
  <2>4. Object("Secret", r[1], "")' = Object("Secret", r[1], "")
    <3> SUFFICES ASSUME o = <<"Secret", r[1], "">> PROVE FALSE
      BY DEF Object, Changed
    <3>1. o[1] = "Secret" /\ o[2] = r[1]
      OBVIOUS
    <3>2. PICK e : e = Event(o, new)
      OBVIOUS
    <3>3. e.object = o
      BY <3>2 DEF Event
    <3>4. AskedOf(e, r)'
      BY <1>2, <3>1, <3>3 DEF AskedOf, SameRuntime
    <3> QED BY <3>1, <3>2, <3>4, NewEventPending
  <2>5. ASSUME NEW s, NEW p, EffectiveRuntime(r[1], r[2]) = {s}, s.multiModel,
               runtimeSupportsPredictor(s, p, config, r[2]),
               ~(p \in AllPredictors(r[1])' <=> p \in AllPredictors(r[1]))
        PROVE  FALSE
    <3>1. /\ o[2] = r[1]
          /\ \/ o[1] \in {"Predictor", "Plugin"} /\ p \in cache[o] \cup new
             \/ o[1] = "InferenceService" /\ \E i \in cache[o] \cup new : p \in PredictorFrom(i)
      BY <2>1, <2>5, PredictorsChange
    <3>2. o[1] = "Plugin" => cache[o] = {}
      <4> SUFFICES ASSUME o[1] = "Plugin", cache[o] # {} PROVE FALSE
        OBVIOUS
      <4>1. <<"predictor", r[1]>> \in Lapses(o, cache[o], new, events')
        BY <3>1 DEF Lapses
      <4> QED BY <4>1 DEF Changed
    <3>3. \/ o[1] = "Predictor" /\ p \in cache[o] \cup new
          \/ o[1] = "Plugin" /\ p \in new
          \/ o[1] = "InferenceService" /\ \E i \in cache[o] \cup new : p \in PredictorFrom(i)
      BY <3>1, <3>2
    <3>4. EffectiveRuntime(r[1], r[2])' = {s} /\ runtimeSupportsPredictor(s, p, config', r[2])
      BY <2>1, <2>5
    <3> QED BY <2>1, <2>5, <3>1, <3>3, <3>4, PredictorAsked
  <2> QED BY <1>2, <2>1, <2>3, <2>4, <2>5, WantedSame
<1> QED BY <1>1, <1>2, StructureChange

-----------------------------------------------------------------------------
\* Steps of a change

\* The runtime that stays as it is, as it is wanted: its owner and its labels.
LEMMA WantedLabels ==
    ASSUME CacheOK, CacheOK', NEW r \in Requests, SameRuntime(r), config' = config
    PROVE  /\ \A w \in Wanted(r[1], r[2]) : \E v \in Wanted(r[1], r[2])' :
                v.owner = w.owner /\ v.labels = w.labels
           /\ \A v \in Wanted(r[1], r[2])' : \E w \in Wanted(r[1], r[2]) :
                v.owner = w.owner /\ v.labels = w.labels
<1> DEFINE ns == r[1]
           n == r[2]
           On == {x \in EffectiveRuntime(ns, n) : ~Off(x, TRUE)}
<1>1. /\ EffectiveRuntime(ns, n)' = EffectiveRuntime(ns, n)
      /\ OwnerKind(ns, n)' = OwnerKind(ns, n)
      /\ modelMeshEnabled(ns) /\ modelMeshEnabled(ns)'
  BY SameRuntimeReads
<1>2. /\ On = {x \in EffectiveRuntime(ns, n) : ~Off(x, modelMeshEnabled(ns))}
      /\ On = {x \in EffectiveRuntime(ns, n)' : ~Off(x, modelMeshEnabled(ns)')}
  BY <1>1 DEF Off
<1> HIDE DEF On
<1>3. /\ \A w \in Wanted(ns, n) : \E s \in On : w = DeploymentOf(s, ns, n, AllPredictors(ns))
      /\ \A s \in On : DeploymentOf(s, ns, n, AllPredictors(ns)) \in Wanted(ns, n)
  BY <1>2 DEF Wanted
<1>4. /\ \A w \in Wanted(ns, n)' : \E s \in On : w = DeploymentOf(s, ns, n, AllPredictors(ns))'
      /\ \A s \in On : DeploymentOf(s, ns, n, AllPredictors(ns))' \in Wanted(ns, n)'
  BY <1>2 DEF Wanted, Off
<1>5. \A s : LET w == DeploymentOf(s, ns, n, AllPredictors(ns))
             IN  w.owner = OwnerKind(ns, n) /\ w.labels = GetServingRuntimeLabelSet(s, config, n)
  BY DEF DeploymentOf
<1>6. \A s : LET w == DeploymentOf(s, ns, n, AllPredictors(ns))'
             IN  w.owner = OwnerKind(ns, n)' /\ w.labels = GetServingRuntimeLabelSet(s, config', n)
  BY DEF DeploymentOf, GetServingRuntimeLabelSet, ProtocolLabels, ModelTypeLabels
<1> QED BY <1>1, <1>3, <1>4, <1>5, <1>6

\* The deployment of a runtime that stays as it is keeps its owner.
LEMMA OwnerStays ==
    ASSUME TypeOK, NEW o \in Objects, NEW new, Changed(o, new), NEW r \in Requests, SameRuntime(r),
           NEW d \in deployment[r], d.owner = OwnerKind(r[1], r[2])
    PROVE  deployment'[r] = deployment[r]
<1>1. ~(new = {} /\ o = OwnerOf(r, d))
  <2> SUFFICES ASSUME new = {}, o = OwnerOf(r, d) PROVE FALSE
    OBVIOUS
  <2>1. CASE ServingRuntime(r[1], r[2]) # {}
    <3>1. o = <<"ServingRuntime", r[1], r[2]>>
      BY <2>1 DEF OwnerOf, OwnerKind
    <3>2. ServingRuntime(r[1], r[2])' = {}
      BY <3>1 DEF ServingRuntime, Object, Changed
    <3> QED BY <2>1, <3>2 DEF SameRuntime
  <2>2. CASE ServingRuntime(r[1], r[2]) = {}
    <3>1. o = <<"ClusterServingRuntime", "", r[2]>>
      BY <2>2 DEF OwnerOf, OwnerKind
    <3>2. ClusterServingRuntime(r[2])' = {}
      BY <3>1, ClusterServingRuntimeChanges
    <3> QED BY <2>2, <3>2, RuntimeThere DEF SameRuntime, Configured, MultiModel
  <2> QED BY <2>1, <2>2
<1>2. DeploymentsOK /\ d.orphan \in BOOLEAN
  BY DEF TypeOK, DeploymentsOK
<1>3. PICK f \in deployment'[r] :
        /\ f.orphan = (d.orphan \/ (new = {} /\ o = OwnerOf(r, d)))
        /\ (~d.orphan => ~f.orphan) => deployment'[r] = deployment[r]
  BY <1>2, DeploymentChanges
<1> QED BY <1>1, <1>2, <1>3

\* A reconcile that goes on is not overtaken by its namespace, unless it is
\* followed by another one or there is nothing to deploy, which is noted.
LEMMA ReconcilingKept ==
    ASSUME TypeOK, NEW o \in Objects, NEW new, Changed(o, new), NEW r \in Requests, Reconciling(r)
    PROVE  \/ Reconciling(r)' \/ Pending(r)'
           \/ ~Configured(r)' /\ <<"runtime", r[1]>> \in lapsed'
<1>1. PICK w \in work : w.request = r /\ w.enabled = modelMeshEnabled(r[1])
  BY DEF Reconciling
<1>2. w \in work'
  BY DEF Changed
<1>3. CASE o # <<"Namespace", r[1], "">>
  <2>1. modelMeshEnabled(r[1])' = modelMeshEnabled(r[1])
    BY <1>3, EnabledSame
  <2> QED BY <1>1, <1>2, <2>1 DEF Reconciling
<1>4. CASE o = <<"Namespace", r[1], "">>
  <2>1. /\ ServingRuntime(r[1], r[2])' = ServingRuntime(r[1], r[2])
        /\ ClusterServingRuntime(r[2])' = ClusterServingRuntime(r[2])
    BY <1>4, ServingRuntimeSame, ClusterServingRuntimeSame
  <2>2. o[1] = "Namespace" /\ o[2] = r[1]
    BY <1>4
  <2>3. CASE (r \in requestsForRuntimes({r[1]}))'
    <3>1. PICK e : e = Event(o, new)
      OBVIOUS
    <3>2. e.object = o
      BY <3>1 DEF Event
    <3>3. AskedOf(e, r)'
      BY <2>2, <2>3, <3>2 DEF AskedOf
    <3> QED BY <2>2, <3>1, <3>3, NewEventPending
  <2>4. CASE ~(r \in requestsForRuntimes({r[1]}))'
    <3>1. r \notin requestsForRuntimes({r[1]})
      BY <2>1, <2>4, RuntimeThere
    <3>2. <<"runtime", r[1]>> \in Lapses(o, cache[o], new, events')
      BY <1>1, <1>4, <2>2, <3>1 DEF Lapses
    <3> QED BY <2>4, <3>2 DEF Configured, Changed
  <2> QED BY <2>3, <2>4
<1> QED BY <1>3, <1>4

\* A change keeps the owners of deployments known.
LEMMA OwnersChange ==
    ASSUME TypeOK, OwnersKnown, NEW o \in Objects, NEW new, Changed(o, new)
    PROVE  OwnersKnown'
<1> SUFFICES ASSUME NEW r \in Requests, NEW f \in deployment'[r], ~f.orphan
             PROVE  OwnerOf(r, f) \in Objects /\ cache'[OwnerOf(r, f)] # {}
  BY DEF OwnersKnown, OwnerOf
<1>1. PICK d \in deployment[r] : TRUE
  BY DeploymentChanges DEF TypeOK
<1>2. PICK g \in deployment'[r] : /\ deployment'[r] = {g} /\ g.owner = d.owner
                                  /\ g.orphan = (d.orphan \/ (new = {} /\ o = OwnerOf(r, d)))
  BY DeploymentChanges DEF TypeOK
<1>3. f.owner = d.owner /\ ~d.orphan /\ ~(new = {} /\ o = OwnerOf(r, d))
  BY <1>2
<1>4. OwnerOf(r, f) = OwnerOf(r, d)
  BY <1>3 DEF OwnerOf
<1>5. OwnerOf(r, d) \in Objects /\ cache[OwnerOf(r, d)] # {}
  BY <1>3 DEF OwnersKnown
<1> QED BY <1>3, <1>4, <1>5 DEF Changed

LEMMA StaleWorkChange ==
    ASSUME TypeOK, StaleWorkFollowed, NEW o \in Objects, NEW new, Changed(o, new)
    PROVE  StaleWorkFollowed'
<1> SUFFICES ASSUME NEW w \in work'
             PROVE  \/ w.enabled = modelMeshEnabled(w.request[1])'
                    \/ Pending(w.request)'
                    \/ ~Configured(w.request)' /\ <<"runtime", w.request[1]>> \in lapsed'
  BY DEF StaleWorkFollowed
<1>1. PICK r \in Requests : r = w.request
  BY DEF TypeOK, WorkOK, Changed
<1>2. w \in work /\ work = {w}
  BY DEF TypeOK, WorkOK, Changed
<1>3. CASE w.enabled = modelMeshEnabled(r[1])
  <2>1. Reconciling(r)
    BY <1>1, <1>2, <1>3 DEF Reconciling
  <2>2. Reconciling(r)' => w.enabled = modelMeshEnabled(r[1])'
    BY <1>1, <1>2 DEF Reconciling, Changed
  <2> QED BY <1>1, <2>1, <2>2, ReconcilingKept
<1>4. CASE Pending(r)
  BY <1>1, <1>4, PendingKept
<1>5. CASE ~Configured(r) /\ <<"runtime", r[1]>> \in lapsed
  <2>1. Pending(r)' \/ ~Configured(r)'
    BY <1>5, StructureChange DEF SameRuntime
  <2>2. <<"runtime", r[1]>> \in lapsed'
    BY <1>5 DEF Changed
  <2> QED BY <1>1, <2>1, <2>2
<1> QED BY <1>1, <1>2, <1>3, <1>4, <1>5 DEF StaleWorkFollowed

\* What is wanted has the owner and the labels of the runtime.
LEMMA WantedFields ==
    ASSUME CacheOK, NEW ns, NEW n, NEW w \in Wanted(ns, n)
    PROVE  \E s : /\ EffectiveRuntime(ns, n) = {s} /\ ~Off(s, modelMeshEnabled(ns))
                  /\ w = DeploymentOf(s, ns, n, AllPredictors(ns)) /\ Wanted(ns, n) = {w}
                  /\ w.owner = OwnerKind(ns, n) /\ w.orphan = FALSE
                  /\ w.labels = GetServingRuntimeLabelSet(s, config, n)
<1>1. PICK s : /\ EffectiveRuntime(ns, n) = {s} /\ ~Off(s, modelMeshEnabled(ns))
               /\ Wanted(ns, n) = {DeploymentOf(s, ns, n, AllPredictors(ns))}
  BY WantedIs
<1>2. w = DeploymentOf(s, ns, n, AllPredictors(ns)) /\ Wanted(ns, n) = {w}
  BY <1>1
<1>3. /\ w.owner = OwnerKind(ns, n) /\ w.orphan = FALSE
      /\ w.labels = GetServingRuntimeLabelSet(s, config, n)
  BY <1>2 DEF DeploymentOf
<1> QED BY <1>1, <1>2, <1>3

\* An orphan of a runtime that is not wanted waits for the garbage collector.
LEMMA OrphanChange ==
    ASSUME TypeOK, TypeOK', NEW o \in Objects, NEW new, Changed(o, new), NEW r \in Requests,
           Orphaned(r), Wanted(r[1], r[2]) = {}
    PROVE  Pending(r)' \/ (Orphaned(r)' /\ Wanted(r[1], r[2])' = {})
<1>1. Orphaned(r)'
  <2>1. PICK d \in deployment[r] : d.orphan
    BY DEF Orphaned
  <2>2. PICK f \in deployment'[r] : f.orphan = (d.orphan \/ (new = {} /\ o = OwnerOf(r, d)))
    BY DeploymentChanges DEF TypeOK
  <2> QED BY <2>1, <2>2 DEF Orphaned
<1>2. CASE ~Configured(r)'
  BY <1>1, <1>2, WantedConfigured
<1>3. CASE SameRuntime(r)
  <2>1. Wanted(r[1], r[2])' = {}
    BY <1>3, WantedLabels DEF TypeOK, Changed
  <2> QED BY <1>1, <2>1
<1> QED BY <1>2, <1>3, StructureChange

LEMMA LabelsChange ==
    ASSUME TypeOK, TypeOK', LabelsFollowed, NEW o \in Objects, NEW new, Changed(o, new)
    PROVE  LabelsFollowed'
<1> SUFFICES ASSUME NEW r \in Requests, <<"runtime", r[1]>> \notin lapsed', ~Pending(r)',
                    ~Reconciling(r)'
             PROVE  Labelled(r)' \/ (Orphaned(r)' /\ Wanted(r[1], r[2])' = {})
  BY DEF LabelsFollowed
<1>1. ~Pending(r) /\ ~Reconciling(r) /\ <<"runtime", r[1]>> \notin lapsed
  <2>1. lapsed \subseteq lapsed'
    BY DEF Changed
  <2>2. ~Pending(r)
    BY PendingKept
  <2>3. ~Reconciling(r)
    BY ReconcilingKept
  <2> QED BY <2>1, <2>2, <2>3
<1>2. CASE Orphaned(r) /\ Wanted(r[1], r[2]) = {}
  BY <1>2, OrphanChange
<1>3. CASE Labelled(r) /\ ~Configured(r) /\ ~Configured(r)'
  <2>1. Wanted(r[1], r[2]) = {} /\ Wanted(r[1], r[2])' = {}
    BY <1>3, WantedConfigured
  <2>2. deployment[r] = {}
    BY <1>3, <2>1 DEF Labelled
  <2>3. deployment'[r] = {}
    BY <2>2, DeploymentChanges DEF TypeOK
  <2> QED BY <2>1, <2>3 DEF Labelled
<1>4. CASE Labelled(r) /\ SameRuntime(r)
  <2>1. /\ \A w \in Wanted(r[1], r[2]) : \E v \in Wanted(r[1], r[2])' :
             v.owner = w.owner /\ v.labels = w.labels
        /\ \A v \in Wanted(r[1], r[2])' : \E w \in Wanted(r[1], r[2]) :
             v.owner = w.owner /\ v.labels = w.labels
    BY <1>4, WantedLabels DEF TypeOK, Changed
  <2>2. deployment'[r] = deployment[r]
    <3>1. CASE deployment[r] = {}
      BY <3>1, DeploymentChanges DEF TypeOK
    <3>2. ASSUME NEW d \in deployment[r] PROVE deployment'[r] = deployment[r]
      <4>1. PICK w \in Wanted(r[1], r[2]) : d.owner = w.owner
        BY <1>4 DEF Labelled
      <4>2. d.owner = OwnerKind(r[1], r[2])
        BY <4>1, WantedFields DEF TypeOK
      <4> QED BY <1>4, <4>2, OwnerStays
    <3> QED BY <3>1, <3>2
  <2>3. ASSUME NEW d \in deployment'[r]
        PROVE  ~d.orphan /\ \E v \in Wanted(r[1], r[2])' : d.owner = v.owner /\ d.labels = v.labels
    BY <1>4, <2>1, <2>2 DEF Labelled
  <2>4. Wanted(r[1], r[2])' # {} => deployment'[r] # {}
    BY <1>4, <2>1, <2>2 DEF Labelled
  <2> QED BY <2>3, <2>4 DEF Labelled
<1> QED BY <1>1, <1>2, <1>3, <1>4, StructureChange DEF LabelsFollowed

LEMMA DeploymentsChange ==
    ASSUME TypeOK, TypeOK', RejectionsNoted, DeploymentsFollowed, NEW o \in Objects, NEW new,
           Changed(o, new)
    PROVE  DeploymentsFollowed'
<1> SUFFICES ASSUME NEW r \in Requests, <<"runtime", r[1]>> \notin lapsed',
                    <<"predictor", r[1]>> \notin lapsed', ~Pending(r)', ~PluginPending(r)',
                    ~Reconciling(r)'
             PROVE  \/ deployment'[r] = Wanted(r[1], r[2])'
                    \/ Orphaned(r)' /\ Wanted(r[1], r[2])' = {}
  BY DEF DeploymentsFollowed
<1>1. /\ ~Pending(r) /\ ~Reconciling(r) /\ ~PluginPending(r)
      /\ <<"runtime", r[1]>> \notin lapsed /\ <<"predictor", r[1]>> \notin lapsed
  <2>1. lapsed \subseteq lapsed'
    BY DEF Changed
  <2>2. ~Pending(r)
    BY PendingKept
  <2>3. ~Reconciling(r)
    BY ReconcilingKept
  <2>4. ~PluginPending(r)
    BY PluginKept
  <2> QED BY <2>1, <2>2, <2>3, <2>4
<1>2. CASE Orphaned(r) /\ Wanted(r[1], r[2]) = {}
  BY <1>2, OrphanChange
<1>3. CASE deployment[r] = Wanted(r[1], r[2])
  <2>1. Wanted(r[1], r[2])' = Wanted(r[1], r[2])
    BY WantedChange
  <2>2. CASE deployment[r] = {}
    BY <1>3, <2>1, <2>2, DeploymentChanges DEF TypeOK
  <2>3. ASSUME NEW d \in deployment[r] PROVE deployment'[r] = deployment[r]
    <3>0. d \in Wanted(r[1], r[2]) /\ CacheOK
      BY <1>3 DEF TypeOK
    <3>1. d.owner = OwnerKind(r[1], r[2])
      BY <3>0, WantedFields
    <3>2. Configured(r)
      BY <1>3, WantedConfigured
    <3>3. SameRuntime(r)
      BY <3>2, StructureChange
    <3> QED BY <3>1, <3>3, OwnerStays
  <2> QED BY <1>3, <2>1, <2>2, <2>3
<1> QED BY <1>1, <1>2, <1>3 DEF DeploymentsFollowed

\* The configuration of a namespace has the runtimes that are configured.
LEMMA SpecsAre ==
    ASSUME CacheOK, NEW ns \in Namespaces
    PROVE  /\ DOMAIN SRSpecs(ns) = {n \in Names : Configured(<<ns, n>>)}
           /\ \A n \in DOMAIN SRSpecs(ns) : EffectiveRuntime(ns, n) = {SRSpecs(ns)[n]}
<1>1. \A n \in Names : Configured(<<ns, n>>) <=>
        modelMeshEnabled(ns) /\ (ServingRuntime(ns, n) # {} \/ MultiModel(ClusterServingRuntime(n)) # {})
  BY DEF Configured, requestsForRuntimes
<1>2. CASE ~modelMeshEnabled(ns)
  BY <1>1, <1>2 DEF SRSpecs
<1>3. CASE modelMeshEnabled(ns)
  <2> DEFINE names == {n \in Names : \/ ServingRuntime(ns, n) # {}
                                     \/ MultiModel(ClusterServingRuntime(n)) # {}}
  <2>1. SRSpecs(ns) = [n \in names |-> CHOOSE s \in EffectiveRuntime(ns, n) : TRUE]
    BY <1>3 DEF SRSpecs
  <2>2. names = {n \in Names : Configured(<<ns, n>>)}
    BY <1>1, <1>3
  <2>3. ASSUME NEW n \in names PROVE EffectiveRuntime(ns, n) = {SRSpecs(ns)[n]}
    <3>1. EffectiveRuntime(ns, n) # {}
      BY DEF EffectiveRuntime, MultiModel
    <3>2. PICK s : EffectiveRuntime(ns, n) = {s}
      BY <3>1, RuntimesAre
    <3> QED BY <2>1, <3>2
  <2> QED BY <2>1, <2>2, <2>3
<1> QED BY <1>2, <1>3

LEMMA SpecsArePrime ==
    ASSUME CacheOK', NEW ns \in Namespaces
    PROVE  /\ (DOMAIN SRSpecs(ns))' = {n \in Names : Configured(<<ns, n>>)'}
           /\ \A n \in (DOMAIN SRSpecs(ns))' : EffectiveRuntime(ns, n)' = {SRSpecs(ns)'[n]}
<1>1. \A n \in Names : Configured(<<ns, n>>)' <=>
        modelMeshEnabled(ns)' /\ (\/ ServingRuntime(ns, n)' # {}
                                  \/ MultiModel(ClusterServingRuntime(n)') # {})
  BY DEF Configured, requestsForRuntimes, MultiModel
<1>2. CASE ~modelMeshEnabled(ns)'
  BY <1>1, <1>2 DEF SRSpecs
<1>3. CASE modelMeshEnabled(ns)'
  <2> DEFINE names == {n \in Names : \/ ServingRuntime(ns, n)' # {}
                                     \/ MultiModel(ClusterServingRuntime(n)') # {}}
  <2>1. SRSpecs(ns)' = [n \in names |-> CHOOSE s \in EffectiveRuntime(ns, n)' : TRUE]
    BY <1>3 DEF SRSpecs, MultiModel
  <2>2. names = {n \in Names : Configured(<<ns, n>>)'}
    BY <1>1, <1>3
  <2>3. ASSUME NEW n \in names PROVE EffectiveRuntime(ns, n)' = {SRSpecs(ns)'[n]}
    <3>1. EffectiveRuntime(ns, n)' # {}
      BY DEF EffectiveRuntime, MultiModel
    <3>2. ServingRuntime(ns, n)' = {} \/ \E s : ServingRuntime(ns, n)' = {s}
      BY DEF CacheOK, ServingRuntime, Object
    <3>3. ClusterServingRuntime(n)' = {} \/ \E s : ClusterServingRuntime(n)' = {s}
      BY DEF CacheOK, ClusterServingRuntime, Object
    <3>4. PICK s : EffectiveRuntime(ns, n)' = {s}
      BY <3>1, <3>2, <3>3 DEF EffectiveRuntime
    <3> QED BY <2>1, <3>4
  <2> QED BY <2>1, <2>2, <2>3
<1> QED BY <1>2, <1>3

\* The types of a configuration follow from its runtimes.
LEMMA SpecsTypes ==
    ASSUME NEW a, NEW b, NEW c, DOMAIN a = DOMAIN b, \A n \in DOMAIN a : b[n] = a[n]
    PROVE  calculateConstraintData(a, c) \subseteq calculateConstraintData(b, c)
BY DEF calculateConstraintData

\* Constraints and secret follow from the configuration of the namespace.
LEMMA SameSpecs ==
    ASSUME NEW ns, (DOMAIN SRSpecs(ns))' = DOMAIN SRSpecs(ns),
           \A n \in DOMAIN SRSpecs(ns) : SRSpecs(ns)'[n] = SRSpecs(ns)[n],
           config' = config \/ DOMAIN SRSpecs(ns) = {}
    PROVE  ConstraintsAfter(ns)' = ConstraintsAfter(ns) /\ EtcdAfter(ns)' = EtcdAfter(ns)
<1>1. EtcdAfter(ns)' = EtcdAfter(ns)
  BY DEF EtcdAfter, EtcdSecret
<1>2. CASE DOMAIN SRSpecs(ns) = {}
  BY <1>1, <1>2 DEF ConstraintsAfter
<1>3. CASE DOMAIN SRSpecs(ns) # {} /\ config' = config
  <2>1. PICK a, b : a = SRSpecs(ns) /\ b = SRSpecs(ns)'
    OBVIOUS
  <2>2. DOMAIN a = DOMAIN b /\ \A n \in DOMAIN a : b[n] = a[n]
    BY <2>1
  <2>3. calculateConstraintData(a, config) \subseteq calculateConstraintData(b, config)
    BY <2>2, SpecsTypes
  <2>4. calculateConstraintData(b, config) \subseteq calculateConstraintData(a, config)
    BY <2>2, SpecsTypes
  <2>5. ConstraintsAfter(ns) = calculateConstraintData(a, config)
    BY <1>3, <2>1 DEF ConstraintsAfter
  <2>6. ConstraintsAfter(ns)' = calculateConstraintData(b, config)
    BY <1>3, <2>1 DEF ConstraintsAfter, calculateConstraintData, ProtocolLabels, ModelTypeLabels
  <2>7. calculateConstraintData(a, config) = calculateConstraintData(b, config)
    BY <2>3, <2>4
  <2> QED BY <1>1, <2>5, <2>6, <2>7
<1> QED BY <1>2, <1>3

LEMMA ConstraintsChange ==
    ASSUME TypeOK, TypeOK', ConstraintsFollowed, NEW o \in Objects, NEW new, Changed(o, new)
    PROVE  ConstraintsFollowed'
<1> SUFFICES ASSUME NEW ns \in Namespaces, <<"runtime", ns>> \notin lapsed',
                    \A n \in Names : ~Pending(<<ns, n>>)'
             PROVE  constraints'[ns] = ConstraintsAfter(ns)' /\ etcd'[ns] = EtcdAfter(ns)'
  BY DEF ConstraintsFollowed
<1>1. \A n \in Names : <<ns, n>> \in Requests /\ <<ns, n>>[1] = ns /\ <<ns, n>>[2] = n
  BY DEF Requests
<1>2. ASSUME NEW n \in Names
      PROVE  /\ ~Pending(<<ns, n>>)
             /\ (~Configured(<<ns, n>>) /\ ~Configured(<<ns, n>>)') \/ SameRuntime(<<ns, n>>)
  <2>1. PICK r \in Requests : r = <<ns, n>> /\ r[1] = ns
    BY <1>1
  <2>2. ~Pending(r)' /\ <<"runtime", r[1]>> \notin lapsed'
    BY <2>1
  <2>3. ~Pending(r)
    BY <2>2, PendingKept
  <2>4. (~Configured(r) /\ ~Configured(r)') \/ SameRuntime(r)
    BY <2>2, StructureChange
  <2> QED BY <2>1, <2>3, <2>4
<1>3. constraints[ns] = ConstraintsAfter(ns) /\ etcd[ns] = EtcdAfter(ns)
  BY <1>2 DEF ConstraintsFollowed, Changed
<1>4. CacheOK /\ CacheOK'
  BY DEF TypeOK
<1>5. (DOMAIN SRSpecs(ns))' = DOMAIN SRSpecs(ns)
  BY <1>2, <1>4, SpecsAre, SpecsArePrime DEF SameRuntime
<1>6. ASSUME NEW n \in DOMAIN SRSpecs(ns)
      PROVE  SRSpecs(ns)'[n] = SRSpecs(ns)[n]
  <2>1. n \in Names /\ Configured(<<ns, n>>)
    BY <1>4, SpecsAre
  <2>2. PICK r \in Requests : r = <<ns, n>> /\ r[1] = ns /\ r[2] = n
    BY <1>1, <2>1
  <2>3. SameRuntime(r)
    BY <1>2, <2>1, <2>2
  <2>4. EffectiveRuntime(ns, n)' = EffectiveRuntime(ns, n)
    BY <1>4, <2>2, <2>3, SameRuntimeReads
  <2>5. EffectiveRuntime(ns, n) = {SRSpecs(ns)[n]} /\ EffectiveRuntime(ns, n)' = {SRSpecs(ns)'[n]}
    BY <1>4, <1>5, SpecsAre, SpecsArePrime
  <2> QED BY <2>4, <2>5
<1>7. config' = config /\ constraints' = constraints /\ etcd' = etcd
  BY DEF Changed
<1>8. ConstraintsAfter(ns)' = ConstraintsAfter(ns) /\ EtcdAfter(ns)' = EtcdAfter(ns)
  BY <1>5, <1>6, <1>7, SameSpecs
<1> QED BY <1>3, <1>7, <1>8

\* What is wanted in the next state has the labels of the runtime.
LEMMA WantedFieldsPrime ==
    ASSUME NEW ns, NEW n, NEW w \in Wanted(ns, n)'
    PROVE  \E s \in EffectiveRuntime(ns, n)' :
                /\ s.multiModel /\ ~s.disabled /\ modelMeshEnabled(ns)'
                /\ w.labels = GetServingRuntimeLabelSet(s, config', n)
<1>1. PICK s \in EffectiveRuntime(ns, n)' :
        /\ ~Off(s, modelMeshEnabled(ns)') /\ w = DeploymentOf(s, ns, n, AllPredictors(ns))'
  BY DEF Wanted, Off
<1>2. w.labels = GetServingRuntimeLabelSet(s, config', n)
  BY <1>1 DEF DeploymentOf, GetServingRuntimeLabelSet, ProtocolLabels, ModelTypeLabels
<1> QED BY <1>1, <1>2 DEF Off

LEMMA ServiceChange ==
    ASSUME TypeOK, TypeOK', ServiceFollowed, NEW o \in Objects, NEW new, Changed(o, new)
    PROVE  ServiceFollowed'
<1> SUFFICES ASSUME NEW r \in Requests, ~Pending(r)', ~Reconciling(r)',
                    NEW v \in Wanted(r[1], r[2])'
             PROVE  \E d \in deployment'[r] : Serves(r, d, v)'
  BY DEF ServiceFollowed
<1>1. Configured(r)'
  BY WantedConfigured
<1>2. ~Pending(r) /\ ~Reconciling(r)
  BY <1>1, PendingKept, ReconcilingKept
<1>3. SameRuntime(r) /\ config' = config
  <2>1. SameRuntime(r)
    BY <1>1, StructureChange
  <2> QED BY <2>1 DEF Changed
<1>4. PICK w \in Wanted(r[1], r[2]) : v.owner = w.owner /\ v.labels = w.labels
  BY <1>3, WantedLabels DEF TypeOK
<1>5. PICK d \in deployment[r] : Serves(r, d, w)
  BY <1>2 DEF ServiceFollowed
<1>6. ~d.orphan /\ d.owner = w.owner /\ d.labels = w.labels
  BY <1>5 DEF Serves
<1>7. deployment'[r] = deployment[r]
  <2>0. CacheOK
    BY DEF TypeOK
  <2>1. w.owner = OwnerKind(r[1], r[2])
    BY <2>0, WantedFields
  <2>2. d.owner = OwnerKind(r[1], r[2])
    BY <1>6, <2>1
  <2> QED BY <1>3, <2>2, OwnerStays
<1>8. PICK s \in EffectiveRuntime(r[1], r[2])' :
        /\ s.multiModel /\ modelMeshEnabled(r[1])'
        /\ v.labels = GetServingRuntimeLabelSet(s, config', r[2])
  BY WantedFieldsPrime
<1>9. EffectiveRuntime(r[1], r[2])' = {s}
  <2>1. EffectiveRuntime(r[1], r[2])' = EffectiveRuntime(r[1], r[2])
    BY <1>3, SameRuntimeReads DEF TypeOK
  <2>2. EffectiveRuntime(r[1], r[2]) = {} \/ \E x : EffectiveRuntime(r[1], r[2]) = {x}
    BY RuntimesAre DEF TypeOK
  <2> QED BY <1>8, <2>1, <2>2
<1>10. \A p : GetPredictorTypeLabel(p) \subseteq d.labels =>
                runtimeSupportsPredictor(s, p, config', r[2])
  BY <1>4, <1>6, <1>8 DEF runtimeSupportsPredictor
<1>11. ASSUME NEW p \in ClusterPredictors(r[1])', GetPredictorTypeLabel(p) \subseteq d.labels
       PROVE  d.up /\ ClaimOf(p) \cap Claims \subseteq d.claims
  <2>1. CASE p \in ClusterPredictors(r[1])
    BY <1>5, <1>11, <2>1 DEF Serves
  <2>2. CASE p \notin ClusterPredictors(r[1])
    <3>1. o[1] = "Predictor" /\ o[2] = r[1] /\ p \in cache[o] \cup new
      BY <2>2, ClusterPredictorsChange DEF TypeOK
    <3> QED BY <1>8, <1>9, <1>10, <1>11, <3>1, PredictorAsked
  <2> QED BY <2>1, <2>2
<1>12. ASSUME NEW i \in Services(r[1])', NEW p \in PredictorFrom(i),
              GetPredictorTypeLabel(p) \subseteq d.labels
       PROVE  d.up
  <2>1. CASE i \in Services(r[1])
    BY <1>5, <1>12, <2>1 DEF Serves
  <2>2. CASE i \notin Services(r[1])
    <3>1. o[1] = "InferenceService" /\ o[2] = r[1] /\ i \in cache[o] \cup new
      BY <2>2, ServicesChange DEF TypeOK
    <3> QED BY <1>8, <1>9, <1>10, <1>12, <3>1, PredictorAsked
  <2> QED BY <2>1, <2>2
<1>13. ASSUME NEW x \in Objects, x[1] = "Plugin", x[2] = r[1], NEW p \in cache'[x],
              GetPredictorTypeLabel(p) \subseteq d.labels
       PROVE  d.up \/ \E e \in Range(events'["Plugin"]) : e.object = x
  <2>1. CASE x = o
    <3>1. PICK e : e = Event(o, new)
      OBVIOUS
    <3>2. e.object = x /\ e \in Range(events'["Plugin"])
      BY <1>13, <2>1, <3>1 DEF Event, Changed, Kinds
    <3> QED BY <3>2
  <2>2. CASE x # o
    <3>1. p \in cache[x] /\ Range(events["Plugin"]) \subseteq Range(events'["Plugin"])
      BY <1>13, <2>2 DEF Changed, Kinds
    <3> QED BY <1>5, <1>13, <3>1 DEF Serves
  <2> QED BY <2>1, <2>2
<1>14. Serves(r, d, v)'
  <2>1. ~d.orphan /\ d.owner = v.owner /\ d.labels = v.labels
    BY <1>4, <1>6
  <2> QED BY <2>1, <1>11, <1>12, <1>13 DEF Serves, ClaimOf, PredictorFrom, GetPredictorTypeLabel
<1> QED BY <1>7, <1>14

\* A change keeps the inductive invariant.
LEMMA ChangeStep ==
    ASSUME IInv, NEW o \in Objects, Change(o)
    PROVE  IInv'
<1>1. TypeOK /\ TypeOK'
  BY ChangeType DEF IInv
<1>2. PICK new : Changed(o, new)
  BY <1>1, ChangeChanges
<1>3. OwnersKnown' /\ RejectionsNoted' /\ StaleWorkFollowed'
  BY <1>1, <1>2, OwnersChange, RejectionsChange, StaleWorkChange DEF IInv
<1>4. LabelsFollowed' /\ DeploymentsFollowed'
  BY <1>1, <1>2, LabelsChange, DeploymentsChange DEF IInv
<1>5. ConstraintsFollowed' /\ ServiceFollowed'
  BY <1>1, <1>2, ConstraintsChange, ServiceChange DEF IInv
<1> QED BY <1>1, <1>3, <1>4, <1>5 DEF IInv

-----------------------------------------------------------------------------
\* Steps that leave the caches alone

LEMMA SameReads ==
    ASSUME cache' = cache, NEW ns, NEW n
    PROVE  /\ ServingRuntime(ns, n)' = ServingRuntime(ns, n)
           /\ ClusterServingRuntime(n)' = ClusterServingRuntime(n)
           /\ EffectiveRuntime(ns, n)' = EffectiveRuntime(ns, n)
           /\ OwnerKind(ns, n)' = OwnerKind(ns, n)
           /\ Object("Secret", ns, "")' = Object("Secret", ns, "")
           /\ modelMeshEnabled(ns)' = modelMeshEnabled(ns)
           /\ modelMeshEnabled(ns)' <=> modelMeshEnabled(ns)
           /\ ClusterPredictors(ns)' = ClusterPredictors(ns)
           /\ PluginPredictors(ns)' = PluginPredictors(ns)
           /\ Services(ns)' = Services(ns)
           /\ AllPredictors(ns)' = AllPredictors(ns)
<1>1. \A k, x, y : Object(k, x, y)' = Object(k, x, y)
  BY DEF Object
<1>2. /\ ServingRuntime(ns, n)' = ServingRuntime(ns, n)
      /\ ClusterServingRuntime(n)' = ClusterServingRuntime(n)
  BY <1>1 DEF ServingRuntime, ClusterServingRuntime
<1>3. /\ EffectiveRuntime(ns, n)' = EffectiveRuntime(ns, n)
      /\ OwnerKind(ns, n)' = OwnerKind(ns, n)
  BY <1>2 DEF EffectiveRuntime, OwnerKind
<1>4. modelMeshEnabled(ns)' <=> modelMeshEnabled(ns)
  BY <1>1 DEF modelMeshEnabled
<1>5. modelMeshEnabled(ns) \in BOOLEAN /\ modelMeshEnabled(ns)' \in BOOLEAN
  BY DEF modelMeshEnabled
<1>6. /\ ClusterPredictors(ns)' = ClusterPredictors(ns)
      /\ PluginPredictors(ns)' = PluginPredictors(ns)
      /\ Services(ns)' = Services(ns)
  BY DEF ClusterPredictors, PluginPredictors, Services
<1>7. AllPredictors(ns)' = AllPredictors(ns)
  BY <1>6 DEF AllPredictors
<1>8. Object("Secret", ns, "")' = Object("Secret", ns, "")
  BY DEF Object
<1> QED BY <1>2, <1>3, <1>4, <1>5, <1>6, <1>7, <1>8

LEMMA SameConfigured ==
    ASSUME cache' = cache, NEW r \in Requests
    PROVE  /\ (r \in requestsForRuntimes({r[1]}))' <=> r \in requestsForRuntimes({r[1]})
           /\ Configured(r)' <=> Configured(r)
<1>1. (r \in requestsForRuntimes({r[1]}))' <=> r \in requestsForRuntimes({r[1]})
  BY SameReads, RuntimeThere
<1>2. modelMeshEnabled(r[1])' <=> modelMeshEnabled(r[1])
  BY SameReads
<1> QED BY <1>1, <1>2 DEF Configured

\* What is wanted follows from the caches and the configuration.
LEMMA SameWanted ==
    ASSUME cache' = cache, config' = config, NEW ns, NEW n
    PROVE  Wanted(ns, n)' = Wanted(ns, n)
<1>1. /\ EffectiveRuntime(ns, n)' = EffectiveRuntime(ns, n)
      /\ OwnerKind(ns, n)' = OwnerKind(ns, n)
      /\ Object("Secret", ns, "")' = Object("Secret", ns, "")
      /\ modelMeshEnabled(ns)' <=> modelMeshEnabled(ns)
      /\ AllPredictors(ns)' = AllPredictors(ns)
      /\ Services(ns)' = Services(ns)
  BY SameReads
<1>2. ASSUME NEW s
      PROVE  DeploymentOf(s, ns, n, AllPredictors(ns))' = DeploymentOf(s, ns, n, AllPredictors(ns))
  <2> DEFINE u == runtimeHasPredictors(s, ns, n)
             c == getPVCs(s, ns, n, AllPredictors(ns))
             w == OwnerKind(ns, n)
             l == GetServingRuntimeLabelSet(s, config, n)
  <2>1. DeploymentOf(s, ns, n, AllPredictors(ns)) =
          [owner |-> w, orphan |-> FALSE, labels |-> l, up |-> u, claims |-> c]
    BY DEF DeploymentOf
  <2>2. DeploymentOf(s, ns, n, AllPredictors(ns))' =
          [owner |-> w', orphan |-> FALSE, labels |-> l', up |-> u', claims |-> c']
    BY DEF DeploymentOf
  <2>3. l' = l
    BY DEF GetServingRuntimeLabelSet, ProtocolLabels, ModelTypeLabels
  <2>4. u' = u
    <3>1. u' <=> u
      BY <1>1, HasPredictors, HasPredictorsPrime
    <3>2. u \in BOOLEAN /\ u' \in BOOLEAN
      BY DEF runtimeHasPredictors
    <3> QED BY <3>1, <3>2
  <2>5. c' = c
    BY <1>1 DEF getPVCs, runtimeSupportsPredictor
  <2>6. w' = w
    BY <1>1
  <2> HIDE DEF u, c, w, l
  <2> QED BY <2>1, <2>2, <2>3, <2>4, <2>5, <2>6
<1> QED BY <1>1, <1>2 DEF Wanted, Off

\* What is asked for is asked for still, but for a new configuration, which asks
\* for everything.
LEMMA SameAsks ==
    ASSUME cache' = cache, NEW e, e.object \in Objects, e.versions # {}, NEW r \in Requests,
           Asks(e, r)
    PROVE  Asks(e, r)' \/ (config' # config /\ Configured(r))
<1>1. AskedOf(e, r)
  BY AsksIs
<1>2. /\ (r \in requestsForRuntimes({r[1]}))' <=> r \in requestsForRuntimes({r[1]})
      /\ Configured(r)' <=> Configured(r)
  BY SameConfigured
<1>3. modelMeshEnabled(r[1])' <=> modelMeshEnabled(r[1])
  BY SameReads
<1>4. CASE e.object[1] \notin {"Predictor", "Plugin", "InferenceService"}
  <2>1. AskedOf(e, r)'
    BY <1>1, <1>2, <1>3, <1>4 DEF AskedOf
  <2> QED BY <2>1, AsksIsPrime
<1>5. CASE e.object[1] \in {"Predictor", "Plugin", "InferenceService"}
  <2>1. e.object[2] = r[1] /\ modelMeshEnabled(r[1]) /\ Supporting(r, Looked(e))
    BY <1>1, <1>5 DEF AskedOf
  <2>2. Configured(r)
    BY <2>1, SupportingThere
  <2>3. CASE config' = config
    <3>1. SameRuntime(r)
      BY <1>2, <2>2, SameReads DEF SameRuntime
    <3>2. PICK p \in Looked(e) : r[2] \in getRuntimesSupportingPredictor(r[1], p)
      BY <2>1 DEF Supporting
    <3>3. (r[2] \in getRuntimesSupportingPredictor(r[1], p))'
      BY <2>3, <3>1, <3>2, SupportingSame
    <3>4. p \in Looked(e)'
      BY <1>5, <3>2 DEF Looked
    <3>5. AskedOf(e, r)'
      BY <1>3, <1>5, <2>1, <3>3, <3>4 DEF AskedOf, Supporting
    <3> QED BY <3>5, AsksIsPrime
  <2> QED BY <2>2, <2>3
<1> QED BY <1>4, <1>5

\* A step that leaves caches and deployments alone, and after which what is asked
\* for or goes on does so still.
Calm ==
    /\ cache' = cache /\ lapsed' = lapsed /\ deployment' = deployment
    /\ \A r \in Requests : Pending(r) \/ Reconciling(r) => Pending(r)' \/ Reconciling(r)'
    /\ config' = config \/ \A r \in Requests : Configured(r) => Pending(r)'
    /\ \A r \in Requests : \A e \in Range(events["Plugin"]) :
         Asks(e, r) => Pending(r)' \/ e \in Range(events'["Plugin"])

LEMMA CalmWanted ==
    ASSUME Calm, NEW r \in Requests, ~Pending(r)'
    PROVE  Wanted(r[1], r[2])' = Wanted(r[1], r[2])
<1>1. cache' = cache
  BY DEF Calm
<1>2. CASE config' = config
  BY <1>1, <1>2, SameWanted
<1>3. CASE ~Configured(r)
  <2>1. ~Configured(r)'
    BY <1>1, <1>3, SameConfigured
  <2> QED BY <1>3, <2>1, WantedConfigured
<1> QED BY <1>2, <1>3 DEF Calm

\* A calm step keeps what the deployments are followed by.
LEMMA CalmStep ==
    ASSUME IInv, Calm
    PROVE  OwnersKnown' /\ RejectionsNoted' /\ LabelsFollowed' /\ DeploymentsFollowed' /\ ServiceFollowed'
<1>1. /\ cache' = cache /\ lapsed' = lapsed /\ deployment' = deployment
      /\ \A r \in Requests : Pending(r) \/ Reconciling(r) => Pending(r)' \/ Reconciling(r)'
      /\ \A r \in Requests : \A e \in Range(events["Plugin"]) :
           Asks(e, r) => Pending(r)' \/ e \in Range(events'["Plugin"])
      /\ config' = config \/ \A r \in Requests : Configured(r) => Pending(r)'
  BY DEF Calm
<1>2. TypeOK
  BY DEF IInv
<1>3. OwnersKnown'
  BY <1>1 DEF IInv, OwnersKnown, OwnerOf
<1>4. RejectionsNoted'
  BY <1>1, SameReads DEF IInv, RejectionsNoted
<1>5. LabelsFollowed'
  <2> SUFFICES ASSUME NEW r \in Requests, <<"runtime", r[1]>> \notin lapsed', ~Pending(r)',
                      ~Reconciling(r)'
               PROVE  Labelled(r)' \/ (Orphaned(r)' /\ Wanted(r[1], r[2])' = {})
    BY DEF LabelsFollowed
  <2>1. Wanted(r[1], r[2])' = Wanted(r[1], r[2])
    BY CalmWanted
  <2>2. Labelled(r) \/ (Orphaned(r) /\ Wanted(r[1], r[2]) = {})
    BY <1>1 DEF IInv, LabelsFollowed
  <2> QED BY <1>1, <2>1, <2>2 DEF Labelled, Orphaned
<1>6. DeploymentsFollowed'
  <2> SUFFICES ASSUME NEW r \in Requests, <<"runtime", r[1]>> \notin lapsed',
                      <<"predictor", r[1]>> \notin lapsed', ~Pending(r)', ~PluginPending(r)',
                      ~Reconciling(r)'
               PROVE  \/ deployment'[r] = Wanted(r[1], r[2])'
                      \/ Orphaned(r)' /\ Wanted(r[1], r[2])' = {}
    BY DEF DeploymentsFollowed
  <2>1. Wanted(r[1], r[2])' = Wanted(r[1], r[2])
    BY CalmWanted
  <2>2. ~PluginPending(r)
    <3> SUFFICES ASSUME NEW e \in Range(events["Plugin"]), Asks(e, r) PROVE FALSE
      BY DEF PluginPending
    <3>1. e \in Range(events'["Plugin"])
      BY <1>1
    <3>2. e.object \in Objects /\ e.versions # {}
      BY <1>2 DEF TypeOK, EventsOK, Kinds
    <3>3. ~Asks(e, r)'
      BY <3>1 DEF PluginPending
    <3>4. config' # config /\ Configured(r)
      BY <1>1, <3>2, <3>3, SameAsks
    <3> QED BY <1>1, <3>4
  <2>3. deployment[r] = Wanted(r[1], r[2]) \/ (Orphaned(r) /\ Wanted(r[1], r[2]) = {})
    BY <1>1, <2>2 DEF IInv, DeploymentsFollowed
  <2> QED BY <1>1, <2>1, <2>3 DEF Orphaned
<1>7. ASSUME NEW r \in Requests, NEW w \in Wanted(r[1], r[2])
      PROVE  \E s : /\ EffectiveRuntime(r[1], r[2]) = {s} /\ ~Off(s, modelMeshEnabled(r[1]))
                   /\ w.labels = GetServingRuntimeLabelSet(s, config, r[2])
  <2>1. CacheOK
    BY <1>2 DEF TypeOK
  <2>2. PICK s : /\ EffectiveRuntime(r[1], r[2]) = {s} /\ ~Off(s, modelMeshEnabled(r[1]))
                 /\ Wanted(r[1], r[2]) = {DeploymentOf(s, r[1], r[2], AllPredictors(r[1]))}
    BY <2>1, WantedIs
  <2>3. w = DeploymentOf(s, r[1], r[2], AllPredictors(r[1]))
    BY <2>2
  <2>4. w.labels = GetServingRuntimeLabelSet(s, config, r[2])
    BY <2>3 DEF DeploymentOf
  <2> QED BY <2>2, <2>4
<1>9. ServiceFollowed'
  <2> SUFFICES ASSUME NEW r \in Requests, ~Pending(r)', ~Reconciling(r)',
                      NEW w \in Wanted(r[1], r[2])'
               PROVE  \E d \in deployment'[r] : Serves(r, d, w)'
    BY DEF ServiceFollowed
  <2>1. w \in Wanted(r[1], r[2]) /\ Configured(r) /\ CacheOK
    BY <1>2, CalmWanted, WantedConfigured DEF TypeOK
  <2>2. config' = config
    BY <1>1, <2>1
  <2>3. PICK d \in deployment[r] : Serves(r, d, w)
    BY <1>1, <2>1 DEF IInv, ServiceFollowed
  <2>4. PICK s : /\ EffectiveRuntime(r[1], r[2]) = {s} /\ ~Off(s, modelMeshEnabled(r[1]))
                 /\ w.labels = GetServingRuntimeLabelSet(s, config, r[2])
    BY <1>7, <2>1
  <2>5. /\ ClusterPredictors(r[1])' = ClusterPredictors(r[1])
        /\ Services(r[1])' = Services(r[1])
    BY <1>1, SameReads
  <2>6. ASSUME NEW x \in Objects, x[1] = "Plugin", x[2] = r[1], NEW p \in cache[x],
               GetPredictorTypeLabel(p) \subseteq d.labels, NEW e \in Range(events["Plugin"]),
               e.object = x
        PROVE  e \in Range(events'["Plugin"])
    <3>1. e.versions # {}
      BY <1>2 DEF TypeOK, EventsOK, Kinds
    <3>2. s.multiModel /\ modelMeshEnabled(r[1])
      BY <2>4 DEF Off
    <3>3. d.labels = w.labels
      BY <2>3 DEF Serves
    <3>4. runtimeSupportsPredictor(s, p, config, r[2])
      BY <2>4, <2>6, <3>3 DEF runtimeSupportsPredictor
    <3>5. r[2] \in Names /\ s \in MultiModel(ServingRuntime(r[1], r[2]) \cup ClusterServingRuntime(r[2]))
      BY <2>4, <3>2 DEF Requests, EffectiveRuntime, MultiModel
    <3>6. r[2] \in getRuntimesSupportingPredictor(r[1], p)
      BY <3>4, <3>5 DEF getRuntimesSupportingPredictor
    <3>7. AskedOf(e, r)
      BY <2>6, <3>2, <3>6 DEF AskedOf, Supporting, Looked
    <3>8. Asks(e, r)
      BY <2>6, <3>1, <3>7, AsksIs
    <3> QED BY <1>1, <3>8
  <2>7. Serves(r, d, w)'
    <3>1. /\ ~d.orphan /\ d.owner = w.owner /\ d.labels = w.labels
          /\ \A p \in ClusterPredictors(r[1]) :
               GetPredictorTypeLabel(p) \subseteq d.labels =>
                   d.up /\ ClaimOf(p) \cap Claims \subseteq d.claims
          /\ \A i \in Services(r[1]) : \A p \in PredictorFrom(i) :
               GetPredictorTypeLabel(p) \subseteq d.labels => d.up
          /\ \A o \in {x \in Objects : x[1] = "Plugin" /\ x[2] = r[1]} : \A p \in cache[o] :
               GetPredictorTypeLabel(p) \subseteq d.labels =>
                   d.up \/ \E e \in Range(events["Plugin"]) : e.object = o
      BY <2>3 DEF Serves
    <3>2. \A o \in {x \in Objects : x[1] = "Plugin" /\ x[2] = r[1]} : \A p \in cache'[o] :
               GetPredictorTypeLabel(p) \subseteq d.labels =>
                   d.up \/ \E e \in Range(events'["Plugin"]) : e.object = o
      BY <1>1, <2>6, <3>1
    <3> QED BY <2>5, <3>1, <3>2 DEF Serves, ClaimOf, PredictorFrom, GetPredictorTypeLabel
  <2> QED BY <1>1, <2>7
<1> QED BY <1>3, <1>4, <1>5, <1>6, <1>9

\* Constraints and secret of a namespace with nothing pending, while the caches stay.
LEMMA CalmConstraints ==
    ASSUME IInv, CacheOK', cache' = cache, NEW ns \in Namespaces,
           <<"runtime", ns>> \notin lapsed, \A n \in Names : ~Pending(<<ns, n>>),
           config' = config \/ \A n \in Names : ~Configured(<<ns, n>>)
    PROVE  constraints[ns] = ConstraintsAfter(ns)' /\ etcd[ns] = EtcdAfter(ns)'
<1>1. constraints[ns] = ConstraintsAfter(ns) /\ etcd[ns] = EtcdAfter(ns)
  BY DEF IInv, ConstraintsFollowed
<1>2. CacheOK
  BY DEF IInv, TypeOK
<1>3. ASSUME NEW n \in Names PROVE Configured(<<ns, n>>)' <=> Configured(<<ns, n>>)
  <2>1. PICK r \in Requests : r = <<ns, n>>
    BY DEF Requests
  <2>2. Configured(r)' <=> Configured(r)
    BY SameConfigured
  <2> QED BY <2>1, <2>2
<1>4. DOMAIN SRSpecs(ns) = {n \in Names : Configured(<<ns, n>>)}
  BY <1>2, SpecsAre
<1>5. (DOMAIN SRSpecs(ns))' = {n \in Names : Configured(<<ns, n>>)'}
  BY SpecsArePrime
<1>6. (DOMAIN SRSpecs(ns))' = DOMAIN SRSpecs(ns)
  BY <1>3, <1>4, <1>5
<1>7. ASSUME NEW n \in DOMAIN SRSpecs(ns)
      PROVE  SRSpecs(ns)'[n] = SRSpecs(ns)[n]
  <2>1. EffectiveRuntime(ns, n)' = EffectiveRuntime(ns, n)
    BY SameReads
  <2>2. EffectiveRuntime(ns, n) = {SRSpecs(ns)[n]}
    BY <1>2, SpecsAre
  <2>3. EffectiveRuntime(ns, n)' = {SRSpecs(ns)'[n]}
    BY <1>6, SpecsArePrime
  <2> QED BY <2>1, <2>2, <2>3
<1>8. config' = config \/ DOMAIN SRSpecs(ns) = {}
  BY <1>4
<1>9. ConstraintsAfter(ns)' = ConstraintsAfter(ns) /\ EtcdAfter(ns)' = EtcdAfter(ns)
  BY <1>6, <1>7, <1>8, SameSpecs
<1> QED BY <1>1, <1>9

\* A request stays asked for while the handlers put theirs into the queue.
LEMMA PendingStays ==
    ASSUME TypeOK, cache' = cache, NEW r \in Requests, r \in queue => r \in queue',
           \A k \in Kinds : \A e \in Range(events[k]) :
               e \in Range(events'[k]) \/ (r \in EventRequests(e) => r \in queue'),
           config' # config /\ Configured(r) => Pending(r)'
    PROVE  /\ Pending(r) => Pending(r)'
           /\ \A e \in Range(events["Plugin"]) :
                Asks(e, r) => Pending(r)' \/ e \in Range(events'["Plugin"])
<1>1. ASSUME NEW k \in Kinds, NEW e \in Range(events[k]), Asks(e, r)
      PROVE  Pending(r)' \/ (e \in Range(events'[k]) /\ Asks(e, r)')
  <2>1. e.object \in Objects /\ e.versions # {}
    BY DEF TypeOK, EventsOK
  <2>2. CASE e \notin Range(events'[k])
    <3>1. r \in queue'
      BY <1>1, <2>2 DEF Asks
    <3> QED BY <3>1 DEF Pending
  <2>3. Asks(e, r)' \/ (config' # config /\ Configured(r))
    BY <1>1, <2>1, SameAsks
  <2> QED BY <2>2, <2>3
<1>2. Pending(r) => Pending(r)'
  <2>1. CASE r \in queue
    BY <2>1 DEF Pending
  <2>2. ASSUME NEW k \in Kinds \ {"Plugin"}, NEW e \in Range(events[k]), Asks(e, r)
        PROVE  Pending(r)'
    <3>1. Pending(r)' \/ (e \in Range(events'[k]) /\ Asks(e, r)')
      BY <1>1, <2>2
    <3> QED BY <3>1 DEF Pending
  <2> QED BY <2>1, <2>2 DEF Pending
<1>3. "Plugin" \in Kinds
  BY DEF Kinds
<1> QED BY <1>1, <1>2, <1>3

\* A calm step that keeps what constraints are followed by keeps the invariant.
LEMMA CalmNext ==
    ASSUME IInv, TypeOK', Calm, StaleWorkFollowed',
           \A ns \in Namespaces :
               \/ \E n \in Names : Pending(<<ns, n>>)'
               \/ constraints'[ns] = ConstraintsAfter(ns)' /\ etcd'[ns] = EtcdAfter(ns)'
               \/ /\ constraints'[ns] = constraints[ns] /\ etcd'[ns] = etcd[ns]
                  /\ \A n \in Names : Pending(<<ns, n>>) => Pending(<<ns, n>>)'
    PROVE  IInv'
<1>1. OwnersKnown' /\ RejectionsNoted' /\ LabelsFollowed' /\ DeploymentsFollowed' /\ ServiceFollowed'
  BY CalmStep
<1>2. ConstraintsFollowed'
  <2> SUFFICES ASSUME NEW ns \in Namespaces, <<"runtime", ns>> \notin lapsed',
                      \A n \in Names : ~Pending(<<ns, n>>)',
                      constraints'[ns] = constraints[ns], etcd'[ns] = etcd[ns],
                      \A n \in Names : Pending(<<ns, n>>) => Pending(<<ns, n>>)'
               PROVE  constraints'[ns] = ConstraintsAfter(ns)' /\ etcd'[ns] = EtcdAfter(ns)'
    BY DEF ConstraintsFollowed
  <2>1. cache' = cache /\ lapsed' = lapsed /\ CacheOK'
    BY DEF Calm, TypeOK
  <2>2. config' = config \/ \A n \in Names : ~Configured(<<ns, n>>)
    <3>1. \A n \in Names : <<ns, n>> \in Requests
      BY DEF Requests
    <3> QED BY <3>1 DEF Calm
  <2>3. constraints[ns] = ConstraintsAfter(ns)' /\ etcd[ns] = EtcdAfter(ns)'
    BY <2>1, <2>2, CalmConstraints
  <2> QED BY <2>3
<1> QED BY <1>1, <1>2 DEF IInv

\* A reconcile that goes on stays as it is.
LEMMA SameWork ==
    ASSUME cache' = cache, work' = work, StaleWorkFollowed, WorkOK, lapsed' = lapsed,
           \A r \in Requests : Pending(r) => Pending(r)'
    PROVE  /\ StaleWorkFollowed'
           /\ \A r \in Requests : Reconciling(r) => Reconciling(r)'
<1>1. ASSUME NEW r \in Requests
      PROVE  modelMeshEnabled(r[1])' = modelMeshEnabled(r[1]) /\ (Configured(r)' <=> Configured(r))
  BY SameReads, SameConfigured
<1>2. StaleWorkFollowed'
  <2> SUFFICES ASSUME NEW w \in work
               PROVE  \/ w.enabled = modelMeshEnabled(w.request[1])'
                      \/ Pending(w.request)'
                      \/ ~Configured(w.request)' /\ <<"runtime", w.request[1]>> \in lapsed'
    BY DEF StaleWorkFollowed
  <2>1. w.request \in Requests
    BY DEF WorkOK
  <2> QED BY <1>1, <2>1 DEF StaleWorkFollowed
<1>3. \A r \in Requests : Reconciling(r) => Reconciling(r)'
  BY <1>1 DEF Reconciling
<1> QED BY <1>2, <1>3

\* Steps of the handlers and of the Predictor reconciler.
LEMMA CalmHandlers ==
    ASSUME IInv, TypeOK', cache' = cache, lapsed' = lapsed, deployment' = deployment,
           work' = work, constraints' = constraints, etcd' = etcd, queue \subseteq queue',
           \A k \in Kinds : \A e \in Range(events[k]) :
               e \in Range(events'[k]) \/ EventRequests(e) \subseteq queue',
           config' = config \/ \A r \in Requests : Configured(r) => Pending(r)'
    PROVE  IInv'
<1>1. TypeOK /\ StaleWorkFollowed
  BY DEF IInv
<1>2. ASSUME NEW r \in Requests
      PROVE  /\ Pending(r) => Pending(r)'
             /\ \A e \in Range(events["Plugin"]) :
                  Asks(e, r) => Pending(r)' \/ e \in Range(events'["Plugin"])
  <2>1. \A k \in Kinds : \A e \in Range(events[k]) :
           e \in Range(events'[k]) \/ (r \in EventRequests(e) => r \in queue')
    OBVIOUS
  <2>2. (r \in queue => r \in queue') /\ (config' # config /\ Configured(r) => Pending(r)')
    OBVIOUS
  <2> QED BY <1>1, <2>1, <2>2, PendingStays
<1>3. WorkOK
  BY <1>1 DEF TypeOK
<1>4. StaleWorkFollowed' /\ \A r \in Requests : Reconciling(r) => Reconciling(r)'
  BY <1>1, <1>2, <1>3, SameWork
<1>5. Calm
  BY <1>2, <1>4 DEF Calm
<1>6. \A ns \in Namespaces : \A n \in Names : Pending(<<ns, n>>) => Pending(<<ns, n>>)'
  <2>1. \A ns \in Namespaces : \A n \in Names : <<ns, n>> \in Requests
    BY DEF Requests
  <2> QED BY <1>2, <2>1
<1> QED BY <1>4, <1>5, <1>6, CalmNext

LEMMA UpdateStatusStep ==
    ASSUME IInv, TypeOK', NEW o \in DOMAIN status, NEW s \in Statuses, UpdateStatus(o, s)
    PROVE  IInv'
<1>1. TypeOK
  BY DEF IInv
<1>2. \A k \in Kinds : Range(events[k]) \subseteq Range(events'[k])
  BY <1>1, UpdateStatusEvents
<1>3. /\ cache' = cache /\ lapsed' = lapsed /\ deployment' = deployment /\ work' = work
      /\ constraints' = constraints /\ etcd' = etcd /\ queue' = queue /\ config' = config
  BY DEF UpdateStatus, outVars
<1> QED BY <1>2, <1>3, CalmHandlers

LEMMA HandleStep ==
    ASSUME IInv, TypeOK', NEW kind \in Kinds, Handle(kind)
    PROVE  IInv'
<1>1. EventsOK
  BY DEF IInv, TypeOK
<1>2. PICK e : e = Head(events[kind])
  OBVIOUS
<1>3. /\ e \in Range(events[kind]) /\ e.object \in Objects /\ e.object[1] = kind
      /\ Range(events[kind]) = {e} \cup Range(events'[kind])
      /\ \A k \in Kinds \ {kind} : events'[k] = events[k]
      /\ queue' = queue \cup EventRequests(e)
  BY <1>1, <1>2, HandleEvents
<1>4. /\ cache' = cache /\ lapsed' = lapsed /\ deployment' = deployment /\ work' = work
      /\ constraints' = constraints /\ etcd' = etcd
      /\ kind # "ConfigMap" => config' = config
  BY DEF Handle, outVars
<1>5. ASSUME kind = "ConfigMap", NEW r \in Requests, Configured(r)
      PROVE  Pending(r)'
  <2>1. AskedOf(e, r)
    BY <1>3, <1>5 DEF AskedOf
  <2>2. e.versions # {}
    BY <1>1, <1>3 DEF EventsOK
  <2>3. Asks(e, r)
    BY <1>3, <2>1, <2>2, AsksIs
  <2>4. r \in queue'
    BY <1>3, <2>3 DEF Asks
  <2> QED BY <2>4 DEF Pending
<1>6. \A k \in Kinds : \A x \in Range(events[k]) :
         x \in Range(events'[k]) \/ EventRequests(x) \subseteq queue'
  BY <1>3
<1>7. queue \subseteq queue'
  BY <1>3
<1> QED BY <1>4, <1>5, <1>6, <1>7, CalmHandlers

LEMMA ReloadStep ==
    ASSUME IInv, TypeOK', ReloadElsewhere
    PROVE  IInv'
<1>1. EventsOK
  BY DEF IInv, TypeOK
<1>2. PICK e : e = Head(events["ConfigMap"])
  OBVIOUS
<1>3. /\ cache' = cache /\ lapsed' = lapsed /\ deployment' = deployment /\ work' = work
      /\ constraints' = constraints /\ etcd' = etcd /\ queue' = queue /\ events' = events
      /\ events["ConfigMap"] # <<>>
  BY DEF ReloadElsewhere, outVars
<1>4. "ConfigMap" \in Kinds \ {"Plugin"}
  BY DEF Kinds
<1>5. e \in Range(events["ConfigMap"])
  BY <1>1, <1>2, <1>3, <1>4, RangeTail DEF EventsOK
<1>6. e.object \in Objects /\ e.object[1] = "ConfigMap" /\ e.versions # {}
  BY <1>1, <1>4, <1>5 DEF EventsOK
<1>7. ASSUME NEW r \in Requests, Configured(r)
      PROVE  Pending(r)'
  <2>1. Configured(r)'
    BY <1>3, <1>7, SameConfigured
  <2>2. AskedOf(e, r)'
    BY <1>6, <2>1 DEF AskedOf
  <2>3. Asks(e, r)'
    BY <1>6, <2>2, AsksIsPrime
  <2> QED BY <1>3, <1>4, <1>5, <2>3 DEF Pending
<1> QED BY <1>3, <1>7, CalmHandlers

LEMMA StutterStep ==
    ASSUME IInv, TypeOK', UNCHANGED vars
    PROVE  IInv'
<1>1. /\ cache' = cache /\ lapsed' = lapsed /\ deployment' = deployment /\ work' = work
      /\ constraints' = constraints /\ etcd' = etcd /\ queue' = queue /\ events' = events
      /\ config' = config
  BY DEF vars, inVars, outVars
<1> QED BY <1>1, CalmHandlers

\* The namespace's state is read from the caches and the configuration alone.
LEMMA SameAfter ==
    ASSUME cache' = cache, config' = config, CacheOK, CacheOK', NEW ns \in Namespaces
    PROVE  ConstraintsAfter(ns)' = ConstraintsAfter(ns) /\ EtcdAfter(ns)' = EtcdAfter(ns)
<1>1. ASSUME NEW n \in Names PROVE Configured(<<ns, n>>)' <=> Configured(<<ns, n>>)
  <2>1. PICK r \in Requests : r = <<ns, n>>
    BY DEF Requests
  <2>2. Configured(r)' <=> Configured(r)
    BY SameConfigured
  <2> QED BY <2>1, <2>2
<1>2. (DOMAIN SRSpecs(ns))' = DOMAIN SRSpecs(ns)
  BY <1>1, SpecsAre, SpecsArePrime
<1>3. ASSUME NEW n \in DOMAIN SRSpecs(ns)
      PROVE  SRSpecs(ns)'[n] = SRSpecs(ns)[n]
  <2>1. EffectiveRuntime(ns, n)' = EffectiveRuntime(ns, n)
    BY SameReads
  <2>2. EffectiveRuntime(ns, n) = {SRSpecs(ns)[n]}
    BY SpecsAre
  <2>3. EffectiveRuntime(ns, n)' = {SRSpecs(ns)'[n]}
    BY <1>2, SpecsArePrime
  <2> QED BY <2>1, <2>2, <2>3
<1> QED BY <1>2, <1>3, SameSpecs

\* The first half of a reconcile settles the namespace, and goes on with the request.
LEMMA ReconcileNamespaceStep ==
    ASSUME IInv, TypeOK', NEW r \in Requests, ReconcileNamespace(r)
    PROVE  IInv'
<1>1. /\ work = {} /\ queue' = queue \ {r} /\ cache' = cache /\ config' = config
      /\ lapsed' = lapsed /\ deployment' = deployment /\ events' = events
      /\ work' = {[request |-> r, enabled |-> modelMeshEnabled(r[1])]}
      /\ constraints' = [constraints EXCEPT ![r[1]] = ConstraintsAfter(r[1])]
      /\ etcd' = [etcd EXCEPT ![r[1]] = EtcdAfter(r[1])]
  BY DEF ReconcileNamespace, inVars
<1>2. TypeOK /\ CacheOK /\ CacheOK' /\ DeploymentsOK
  BY DEF IInv, TypeOK
<1>3. modelMeshEnabled(r[1])' = modelMeshEnabled(r[1])
  BY <1>1, SameReads
<1>4. Reconciling(r)' /\ StaleWorkFollowed'
  BY <1>1, <1>3 DEF Reconciling, StaleWorkFollowed
<1>5. ASSUME NEW x \in Requests, x # r
      PROVE  Pending(x) => Pending(x)'
  BY <1>1, <1>2, <1>5, PendingStays
<1>6. Calm
  <2>1. \A x \in Requests : Pending(x) \/ Reconciling(x) => Pending(x)' \/ Reconciling(x)'
    BY <1>1, <1>4, <1>5 DEF Reconciling
  <2> QED BY <1>1, <2>1 DEF Calm
<1>7. ASSUME NEW ns \in Namespaces
      PROVE  \/ constraints'[ns] = ConstraintsAfter(ns)' /\ etcd'[ns] = EtcdAfter(ns)'
             \/ /\ constraints'[ns] = constraints[ns] /\ etcd'[ns] = etcd[ns]
                /\ \A n \in Names : Pending(<<ns, n>>) => Pending(<<ns, n>>)'
  <2>1. CASE ns = r[1]
    <3>1. ConstraintsAfter(ns)' = ConstraintsAfter(ns) /\ EtcdAfter(ns)' = EtcdAfter(ns)
      BY <1>1, <1>2, SameAfter
    <3> QED BY <1>1, <1>2, <2>1, <3>1 DEF DeploymentsOK
  <2>2. CASE ns # r[1]
    <3>1. constraints'[ns] = constraints[ns] /\ etcd'[ns] = etcd[ns]
      BY <1>1, <1>2, <2>2 DEF DeploymentsOK
    <3>2. \A n \in Names : <<ns, n>> \in Requests /\ <<ns, n>> # r
      BY <2>2 DEF Requests
    <3> QED BY <1>5, <3>1, <3>2
  <2> QED BY <2>1, <2>2
<1> QED BY <1>4, <1>6, <1>7, <1>2, CalmNext

LEMMA ReconcileNamespaceFailsStep ==
    ASSUME IInv, TypeOK', NEW r \in Requests, ReconcileNamespaceFails(r)
    PROVE  IInv'
<1>1. /\ r \in queue /\ queue' = queue /\ cache' = cache /\ config' = config /\ work' = work
      /\ lapsed' = lapsed /\ deployment' = deployment /\ events' = events /\ etcd' = etcd
      /\ constraints' = [constraints EXCEPT ![r[1]] = ConstraintsAfter(r[1])]
  BY DEF ReconcileNamespaceFails, inVars
<1>2. TypeOK /\ DeploymentsOK /\ WorkOK /\ StaleWorkFollowed
  BY DEF IInv, TypeOK
<1>3. ASSUME NEW x \in Requests
      PROVE  Pending(x) => Pending(x)'
  BY <1>1, <1>2, PendingStays
<1>4. StaleWorkFollowed' /\ \A x \in Requests : Reconciling(x) => Reconciling(x)'
  BY <1>1, <1>2, <1>3, SameWork
<1>5. Calm
  BY <1>1, <1>3, <1>4 DEF Calm
<1>6. ASSUME NEW ns \in Namespaces
      PROVE  \/ \E n \in Names : Pending(<<ns, n>>)'
             \/ /\ constraints'[ns] = constraints[ns] /\ etcd'[ns] = etcd[ns]
                /\ \A n \in Names : Pending(<<ns, n>>) => Pending(<<ns, n>>)'
  <2>1. CASE ns = r[1]
    <3>1. r = <<ns, r[2]>> /\ r[2] \in Names
      BY <2>1 DEF Requests
    <3>2. Pending(r)'
      BY <1>1 DEF Pending
    <3> QED BY <3>1, <3>2
  <2>2. CASE ns # r[1]
    <3>1. constraints'[ns] = constraints[ns] /\ etcd'[ns] = etcd[ns]
      BY <1>1, <1>2, <2>2 DEF DeploymentsOK
    <3>2. \A n \in Names : <<ns, n>> \in Requests
      BY DEF Requests
    <3> QED BY <1>3, <3>1, <3>2
  <2> QED BY <2>1, <2>2
<1> QED BY <1>4, <1>5, <1>6, CalmNext

LEMMA ReconcileRuntimeFailsStep ==
    ASSUME IInv, TypeOK', ReconcileRuntimeFails
    PROVE  IInv'
<1>1. /\ cache' = cache /\ config' = config /\ work' = {} /\ lapsed' = lapsed
      /\ deployment' = deployment /\ events' = events /\ etcd' = etcd
      /\ constraints' = constraints
  BY DEF ReconcileRuntimeFails, inVars, outVars
<1>2. PICK w \in work : queue' = queue \cup {w.request}
  BY DEF ReconcileRuntimeFails
<1>3. TypeOK /\ WorkOK
  BY DEF IInv, TypeOK
<1>4. ASSUME NEW x \in Requests
      PROVE  Pending(x) => Pending(x)'
  BY <1>1, <1>2, <1>3, PendingStays
<1>5. StaleWorkFollowed'
  BY <1>1 DEF StaleWorkFollowed
<1>6. Calm
  <2>1. ASSUME NEW x \in Requests, Reconciling(x)
        PROVE  Pending(x)'
    <3>1. x = w.request
      BY <1>2, <1>3, <2>1 DEF Reconciling, WorkOK
    <3>2. x \in queue'
      BY <1>2, <3>1
    <3> QED BY <3>2 DEF Pending
  <2> QED BY <1>1, <1>4, <2>1 DEF Calm
<1>7. \A ns \in Namespaces : \A n \in Names : Pending(<<ns, n>>) => Pending(<<ns, n>>)'
  <2>1. \A ns \in Namespaces : \A n \in Names : <<ns, n>> \in Requests
    BY DEF Requests
  <2> QED BY <1>4, <2>1
<1> QED BY <1>1, <1>5, <1>6, <1>7, CalmNext

\* A step that sets the deployment of one request keeps the invariant if what it
\* sets is followed by something or is what the request wants.
LEMMA SetStep ==
    ASSUME IInv, TypeOK', NEW r \in Requests, NEW D,
           cache' = cache, config' = config, events' = events, lapsed' = lapsed,
           constraints' = constraints, etcd' = etcd, queue \subseteq queue',
           deployment' = [deployment EXCEPT ![r] = D],
           work' = work \/ (work' = {} /\ \A w \in work : w.request = r),
           \A d \in D : d.orphan \/ (OwnerOf(r, d) \in Objects /\ cache[OwnerOf(r, d)] # {}),
           \/ Pending(r)' \/ Reconciling(r)'
           \/ /\ \/ <<"runtime", r[1]>> \in lapsed
                 \/ Labelled(r)'
                 \/ Orphaned(r)' /\ Wanted(r[1], r[2]) = {}
              /\ \/ <<"runtime", r[1]>> \in lapsed \/ <<"predictor", r[1]>> \in lapsed
                 \/ D = Wanted(r[1], r[2])
                 \/ Orphaned(r)' /\ Wanted(r[1], r[2]) = {}
              /\ \A w \in Wanted(r[1], r[2]) : \E d \in D : Serves(r, d, w)
    PROVE  IInv'
<1>1. TypeOK /\ WorkOK /\ DeploymentsOK /\ StaleWorkFollowed
  BY DEF IInv, TypeOK
<1>2. /\ deployment'[r] = D
      /\ \A x \in Requests : x # r => deployment'[x] = deployment[x]
  BY <1>1 DEF DeploymentsOK
<1>3. ASSUME NEW x \in Requests
      PROVE  Pending(x) => Pending(x)'
  BY <1>1, PendingStays
<1>4. ASSUME NEW x \in Requests
      PROVE  Wanted(x[1], x[2])' = Wanted(x[1], x[2])
  BY SameWanted
<1>5. ASSUME NEW x \in Requests, x # r
      PROVE  Reconciling(x) => Reconciling(x)'
  <2>1. modelMeshEnabled(x[1])' = modelMeshEnabled(x[1])
    BY SameReads
  <2> QED BY <1>5, <2>1 DEF Reconciling
<1>6. ASSUME NEW x \in Requests
      PROVE  PluginPending(x) => PluginPending(x)'
  <2> SUFFICES ASSUME NEW e \in Range(events["Plugin"]), Asks(e, x) PROVE Asks(e, x)'
    BY DEF PluginPending
  <2>1. e.object \in Objects /\ e.versions # {}
    BY <1>1 DEF TypeOK, EventsOK, Kinds
  <2> QED BY <2>1, SameAsks
<1>7. OwnersKnown'
  <2> SUFFICES ASSUME NEW x \in Requests, NEW d \in deployment'[x]
               PROVE  d.orphan \/ (OwnerOf(x, d) \in Objects /\ cache[OwnerOf(x, d)] # {})
    BY DEF OwnersKnown, OwnerOf
  <2> QED BY <1>2 DEF IInv, OwnersKnown
<1>8. RejectionsNoted'
  BY SameReads DEF IInv, RejectionsNoted
<1>9. StaleWorkFollowed'
  <2>1. CASE work' = work
    BY <1>1, <1>3, <2>1, SameWork
  <2>2. CASE work' = {}
    BY <2>2 DEF StaleWorkFollowed
  <2> QED BY <2>1, <2>2
<1>10. LabelsFollowed'
  <2> SUFFICES ASSUME NEW x \in Requests, <<"runtime", x[1]>> \notin lapsed', ~Pending(x)',
                      ~Reconciling(x)'
               PROVE  Labelled(x)' \/ (Orphaned(x)' /\ Wanted(x[1], x[2])' = {})
    BY DEF LabelsFollowed
  <2>1. CASE x = r
    BY <1>4, <2>1
  <2>2. CASE x # r
    <3>1. Labelled(x) \/ (Orphaned(x) /\ Wanted(x[1], x[2]) = {})
      BY <1>3, <1>5, <2>2 DEF IInv, LabelsFollowed
    <3> QED BY <1>2, <1>4, <2>2, <3>1 DEF Labelled, Orphaned
  <2> QED BY <2>1, <2>2
<1>11. DeploymentsFollowed'
  <2> SUFFICES ASSUME NEW x \in Requests, <<"runtime", x[1]>> \notin lapsed',
                      <<"predictor", x[1]>> \notin lapsed', ~Pending(x)', ~PluginPending(x)',
                      ~Reconciling(x)'
               PROVE  \/ deployment'[x] = Wanted(x[1], x[2])'
                      \/ Orphaned(x)' /\ Wanted(x[1], x[2])' = {}
    BY DEF DeploymentsFollowed
  <2>1. CASE x = r
    BY <1>2, <1>4, <2>1
  <2>2. CASE x # r
    <3>1. deployment[x] = Wanted(x[1], x[2]) \/ (Orphaned(x) /\ Wanted(x[1], x[2]) = {})
      BY <1>3, <1>5, <1>6, <2>2 DEF IInv, DeploymentsFollowed
    <3> QED BY <1>2, <1>4, <2>2, <3>1 DEF Orphaned
  <2> QED BY <2>1, <2>2
<1>12. ConstraintsFollowed'
  <2> SUFFICES ASSUME NEW ns \in Namespaces, <<"runtime", ns>> \notin lapsed',
                      \A n \in Names : ~Pending(<<ns, n>>)'
               PROVE  constraints'[ns] = ConstraintsAfter(ns)' /\ etcd'[ns] = EtcdAfter(ns)'
    BY DEF ConstraintsFollowed
  <2>1. \A n \in Names : <<ns, n>> \in Requests
    BY DEF Requests
  <2>2. CacheOK' /\ \A n \in Names : ~Pending(<<ns, n>>)
    BY <1>3, <2>1 DEF TypeOK
  <2>3. constraints[ns] = ConstraintsAfter(ns)' /\ etcd[ns] = EtcdAfter(ns)'
    BY <2>2, CalmConstraints
  <2> QED BY <2>3
<1>13. ServiceFollowed'
  <2> SUFFICES ASSUME NEW x \in Requests, ~Pending(x)', ~Reconciling(x)',
                      NEW w \in Wanted(x[1], x[2])'
               PROVE  \E d \in deployment'[x] : Serves(x, d, w)'
    BY DEF ServiceFollowed
  <2>1. w \in Wanted(x[1], x[2])
    BY <1>4
  <2>2. \E d \in deployment'[x] : Serves(x, d, w)
    <3>1. CASE x = r
      BY <1>2, <2>1, <3>1
    <3>2. CASE x # r
      BY <1>2, <1>3, <1>5, <2>1, <3>2 DEF IInv, ServiceFollowed
    <3> QED BY <3>1, <3>2
  <2>3. PICK d \in deployment'[x] : Serves(x, d, w)
    BY <2>2
  <2>4. /\ ClusterPredictors(x[1])' = ClusterPredictors(x[1])
        /\ Services(x[1])' = Services(x[1])
    BY SameReads
  <2>5. Serves(x, d, w)'
    BY <2>3, <2>4 DEF Serves, ClaimOf, PredictorFrom, GetPredictorTypeLabel
  <2> QED BY <2>5
<1> QED BY <1>7, <1>8, <1>9, <1>10, <1>11, <1>12, <1>13 DEF IInv

\* The garbage collector takes an orphan.
LEMMA CollectStep ==
    ASSUME IInv, TypeOK', NEW r \in Requests, Collect(r)
    PROVE  IInv'
<1>1. /\ cache' = cache /\ config' = config /\ events' = events /\ lapsed' = lapsed
      /\ constraints' = constraints /\ etcd' = etcd /\ work' = work
      /\ deployment' = [deployment EXCEPT ![r] = {}] /\ Orphaned(r)
      /\ queue \subseteq queue'
  BY DEF Collect, SetDeployment, inVars
<1>2. DeploymentsOK /\ WorkOK /\ TypeOK
  BY DEF IInv, TypeOK
<1>3. deployment'[r] = {}
  BY <1>1, <1>2 DEF DeploymentsOK
<1>4. PICK d \in deployment[r] : d.orphan /\ deployment[r] = {d}
  BY <1>1, <1>2 DEF Orphaned, DeploymentsOK
<1>5. Wanted(r[1], r[2])' = Wanted(r[1], r[2])
  BY <1>1, SameWanted
<1>6. CASE Wanted(r[1], r[2]) = {}
  <2>1. Labelled(r)'
    BY <1>3, <1>5, <1>6 DEF Labelled
  <2> QED BY <1>1, <1>6, <2>1, SetStep
<1>7. CASE Wanted(r[1], r[2]) # {}
  <2>1. \A x \in deployment[r] : \A w : ~Serves(r, x, w)
    BY <1>4 DEF Serves
  <2>2. Pending(r) \/ Reconciling(r)
    BY <1>7, <2>1 DEF IInv, ServiceFollowed
  <2>3. Pending(r) => Pending(r)'
    BY <1>1, <1>2, PendingStays
  <2>4. modelMeshEnabled(r[1])' = modelMeshEnabled(r[1])
    BY <1>1, SameReads
  <2>5. Reconciling(r) => Reconciling(r)'
    BY <1>1, <2>4 DEF Reconciling
  <2> QED BY <1>1, <2>2, <2>3, <2>5, SetStep
<1> QED BY <1>6, <1>7

\* A deployment that is deleted is asked for.
LEMMA DeleteDeploymentStep ==
    ASSUME IInv, TypeOK', NEW r \in Requests, DeleteDeployment(r)
    PROVE  IInv'
<1>1. /\ cache' = cache /\ config' = config /\ events' = events /\ lapsed' = lapsed
      /\ constraints' = constraints /\ etcd' = etcd /\ work' = work
      /\ deployment' = [deployment EXCEPT ![r] = {}]
      /\ queue \subseteq queue'
  BY DEF DeleteDeployment, SetDeployment, inVars
<1>2. r \in queue'
  BY DEF DeleteDeployment, SetDeployment
<1>3. Pending(r)'
  BY <1>2 DEF Pending
<1> QED BY <1>1, <1>3, SetStep

\* The runtime that owns a deployment of a reconcile is there.
LEMMA OwnerThere ==
    ASSUME NEW r \in Requests, EffectiveRuntime(r[1], r[2]) # {}, NEW d,
           d.owner = OwnerKind(r[1], r[2])
    PROVE  OwnerOf(r, d) \in Objects /\ cache[OwnerOf(r, d)] # {}
<1>1. CASE ServingRuntime(r[1], r[2]) # {}
  <2>1. OwnerOf(r, d) = <<"ServingRuntime", r[1], r[2]>>
    BY <1>1 DEF OwnerOf, OwnerKind
  <2> QED BY <1>1, <2>1 DEF ServingRuntime, Object
<1>2. CASE ServingRuntime(r[1], r[2]) = {}
  <2>1. OwnerOf(r, d) = <<"ClusterServingRuntime", "", r[2]>>
    BY <1>2 DEF OwnerOf, OwnerKind
  <2>2. ClusterServingRuntime(r[2]) # {}
    BY <1>2 DEF EffectiveRuntime
  <2> QED BY <2>1, <2>2 DEF ClusterServingRuntime, Object
<1> QED BY <1>1, <1>2

\* Without a runtime, a deployment is an orphan.
LEMMA NoRuntimeOrphan ==
    ASSUME DeploymentsOK, OwnersKnown, NEW r \in Requests, EffectiveRuntime(r[1], r[2]) = {},
           NEW d \in deployment[r]
    PROVE  d.orphan
<1> SUFFICES ASSUME OwnerOf(r, d) \in Objects, cache[OwnerOf(r, d)] # {} PROVE FALSE
  BY DEF OwnersKnown
<1>1. ServingRuntime(r[1], r[2]) = {} /\ ClusterServingRuntime(r[2]) = {}
  BY DEF EffectiveRuntime
<1>2. CASE d.owner = "ServingRuntime"
  <2>1. OwnerOf(r, d) = <<"ServingRuntime", r[1], r[2]>>
    BY <1>2 DEF OwnerOf
  <2> QED BY <1>1, <2>1 DEF ServingRuntime, Object
<1>3. CASE d.owner = "ClusterServingRuntime"
  <2>1. OwnerOf(r, d) = <<"ClusterServingRuntime", "", r[2]>>
    BY <1>3 DEF OwnerOf
  <2> QED BY <1>1, <2>1 DEF ClusterServingRuntime, Object
<1> QED BY <1>2, <1>3 DEF DeploymentsOK

\* What a reconcile deploys, given the Predictors it sees, serves those of the
\* cluster and is up for those of all sources.
LEMMA DeploymentServes ==
    ASSUME NEW r \in Requests, NEW s, NEW v, NEW w,
           w.owner = OwnerKind(r[1], r[2]), w.labels = GetServingRuntimeLabelSet(s, config, r[2])
    PROVE  Serves(r, DeploymentOf(s, r[1], r[2],
                                  ClusterPredictors(r[1]) \cup PluginPredictors(r[1]) \cup v), w)
<1> DEFINE P == ClusterPredictors(r[1]) \cup PluginPredictors(r[1]) \cup v
           d == DeploymentOf(s, r[1], r[2], P)
<1>1. /\ d.orphan = FALSE /\ d.owner = w.owner /\ d.labels = w.labels
      /\ d.labels = GetServingRuntimeLabelSet(s, config, r[2])
      /\ d.up = runtimeHasPredictors(s, r[1], r[2])
      /\ d.claims = getPVCs(s, r[1], r[2], P)
  BY DEF DeploymentOf
<1> HIDE DEF d
<1>2. ASSUME NEW p \in AllPredictors(r[1]), GetPredictorTypeLabel(p) \subseteq d.labels
      PROVE  d.up
  <2>1. runtimeSupportsPredictor(s, p, config, r[2])
    BY <1>1, <1>2 DEF runtimeSupportsPredictor
  <2>2. runtimeHasPredictors(s, r[1], r[2])
    BY <2>1, HasPredictors
  <2> QED BY <1>1, <2>2
<1>3. ASSUME NEW p \in ClusterPredictors(r[1]), GetPredictorTypeLabel(p) \subseteq d.labels
      PROVE  ClaimOf(p) \cap Claims \subseteq d.claims
  <2>1. runtimeSupportsPredictor(s, p, config, r[2])
    BY <1>1, <1>3 DEF runtimeSupportsPredictor
  <2>2. p \in {q \in P : runtimeSupportsPredictor(s, q, config, r[2])}
    BY <2>1
  <2>3. ClaimOf(p) \cap Claims \subseteq getPVCs(s, r[1], r[2], P)
    BY <2>2 DEF getPVCs
  <2> QED BY <1>1, <2>3
<1>4. ClusterPredictors(r[1]) \subseteq AllPredictors(r[1])
  BY DEF AllPredictors
<1>5. \A i \in Services(r[1]) : PredictorFrom(i) \subseteq AllPredictors(r[1])
  BY DEF AllPredictors
<1>6. \A o \in {x \in Objects : x[1] = "Plugin" /\ x[2] = r[1]} : cache[o] \subseteq AllPredictors(r[1])
  BY DEF AllPredictors, PluginPredictors
<1>7. Serves(r, d, w)
  BY <1>1, <1>2, <1>3, <1>4, <1>5, <1>6 DEF Serves
<1> QED BY <1>7 DEF d

\* The second half of a reconcile settles the request, or is followed by another.
LEMMA ReconcileRuntimeStep ==
    ASSUME IInv, TypeOK', ReconcileRuntime
    PROVE  IInv'
<1>1. PICK w \in work : \E D \in DeploymentsAfter(w.request[1], w.request[2], w.enabled) :
                           SetDeployment(w.request, D, queue)
  BY DEF ReconcileRuntime
<1>2. PICK r : r = w.request
  OBVIOUS
<1>3. PICK D \in DeploymentsAfter(r[1], r[2], w.enabled) : SetDeployment(r, D, queue)
  BY <1>1, <1>2
<1>4. TypeOK /\ CacheOK /\ WorkOK /\ DeploymentsOK /\ OwnersKnown
  BY DEF IInv, TypeOK
<1>5. /\ cache' = cache /\ config' = config /\ events' = events /\ lapsed' = lapsed
      /\ constraints' = constraints /\ etcd' = etcd /\ work' = {}
  BY DEF ReconcileRuntime, inVars
<1>6. deployment' = [deployment EXCEPT ![r] = D] /\ queue \subseteq queue'
  BY <1>3 DEF SetDeployment
<1>7. r \in Requests /\ \A x \in work : x.request = r
  BY <1>1, <1>2, <1>4 DEF WorkOK
<1>8. deployment'[r] = D
  BY <1>4, <1>6, <1>7 DEF DeploymentsOK
<1>9. Wanted(r[1], r[2])' = Wanted(r[1], r[2])
  BY <1>5, SameWanted
<1>10. CASE EffectiveRuntime(r[1], r[2]) = {}
  <2>1. D = deployment[r] /\ Wanted(r[1], r[2]) = {}
    <3>1. r = <<r[1], r[2]>>
      BY <1>7 DEF Requests
    <3> QED BY <1>3, <1>10, <3>1 DEF DeploymentsAfter, Wanted
  <2>2. \A d \in D : d.orphan
    BY <1>4, <1>7, <1>10, <2>1, NoRuntimeOrphan
  <2>3. CASE D = {}
    <3>1. Labelled(r)'
      BY <1>8, <1>9, <2>1, <2>3 DEF Labelled
    <3> QED BY <1>5, <1>6, <1>7, <2>1, <2>3, <3>1, SetStep
  <2>4. CASE D # {}
    <3>1. Orphaned(r)'
      BY <1>8, <2>2, <2>4 DEF Orphaned
    <3> QED BY <1>5, <1>6, <1>7, <2>1, <2>2, <3>1, SetStep
  <2> QED BY <2>3, <2>4
<1>11. CASE EffectiveRuntime(r[1], r[2]) # {}
  <2>1. PICK s : EffectiveRuntime(r[1], r[2]) = {s}
    BY <1>4, <1>11, RuntimesAre
  <2>2. s = CHOOSE x \in EffectiveRuntime(r[1], r[2]) : TRUE
    BY <2>1
  <2>3. IF Off(s, w.enabled) THEN D = {}
        ELSE \E v \in Visited(Services(r[1])) :
               D = {DeploymentOf(s, r[1], r[2],
                                 ClusterPredictors(r[1]) \cup PluginPredictors(r[1]) \cup v)}
    BY <1>3, <1>11, <2>2 DEF DeploymentsAfter
  <2>4. \A d \in D : d.owner = OwnerKind(r[1], r[2])
    <3>1. \A P : DeploymentOf(s, r[1], r[2], P).owner = OwnerKind(r[1], r[2])
      BY DEF DeploymentOf
    <3> QED BY <2>3, <3>1
  <2>5. \A d \in D : OwnerOf(r, d) \in Objects /\ cache[OwnerOf(r, d)] # {}
    BY <1>7, <1>11, <2>4, OwnerThere
  <2>6. CASE w.enabled # modelMeshEnabled(r[1])
    <3>1. Pending(r) \/ (~Configured(r) /\ <<"runtime", r[1]>> \in lapsed)
      BY <1>1, <1>2, <2>6 DEF IInv, StaleWorkFollowed
    <3>2. CASE Pending(r)
      <4>1. Pending(r)'
        BY <1>4, <1>5, <1>6, <1>7, <3>2, PendingStays
      <4> QED BY <1>5, <1>6, <1>7, <2>5, <4>1, SetStep
    <3>3. CASE ~Configured(r) /\ <<"runtime", r[1]>> \in lapsed
      <4>1. Wanted(r[1], r[2]) = {}
        BY <1>7, <3>3, WantedConfigured
      <4> QED BY <1>5, <1>6, <1>7, <2>5, <3>3, <4>1, SetStep
    <3> QED BY <3>1, <3>2, <3>3
  <2>7. CASE w.enabled = modelMeshEnabled(r[1])
    <3>1. CASE Off(s, w.enabled)
      <4>1. D = {} /\ Wanted(r[1], r[2]) = {}
        BY <2>1, <2>3, <2>7, <3>1 DEF Wanted
      <4>2. Labelled(r)'
        BY <1>8, <1>9, <4>1 DEF Labelled
      <4> QED BY <1>5, <1>6, <1>7, <4>1, <4>2, SetStep
    <3>2. CASE ~Off(s, w.enabled)
      <4>1. PICK v \in Visited(Services(r[1])) :
              D = {DeploymentOf(s, r[1], r[2],
                                ClusterPredictors(r[1]) \cup PluginPredictors(r[1]) \cup v)}
        BY <2>3, <3>2
      <4>2. PICK d, u : /\ d = DeploymentOf(s, r[1], r[2],
                                 ClusterPredictors(r[1]) \cup PluginPredictors(r[1]) \cup v)
                        /\ u = DeploymentOf(s, r[1], r[2], AllPredictors(r[1]))
        OBVIOUS
      <4>3. D = {d} /\ Wanted(r[1], r[2]) = {u}
        BY <2>1, <2>7, <3>2, <4>1, <4>2 DEF Wanted
      <4>4. /\ u.owner = OwnerKind(r[1], r[2]) /\ d.owner = u.owner /\ d.labels = u.labels
            /\ u.labels = GetServingRuntimeLabelSet(s, config, r[2]) /\ d.orphan = FALSE
        BY <4>2 DEF DeploymentOf
      <4>5. Serves(r, d, u)
        BY <1>7, <4>2, <4>4, DeploymentServes
      <4>6. Labelled(r)'
        BY <1>8, <1>9, <4>3, <4>4 DEF Labelled
      <4>7. <<"predictor", r[1]>> \in lapsed \/ D = Wanted(r[1], r[2])
        <5>1. CASE \E i \in Services(r[1]) : Rejected(i)
          <6>1. r[1] \in Namespaces
            BY <1>7 DEF Requests
          <6> QED BY <5>1, <6>1 DEF IInv, RejectionsNoted
        <5>2. CASE ~ \E i \in Services(r[1]) : Rejected(i)
          <6>1. v = UNION {PredictorFrom(i) : i \in Services(r[1])}
            BY <5>2 DEF Visited
          <6>2. ClusterPredictors(r[1]) \cup PluginPredictors(r[1]) \cup v = AllPredictors(r[1])
            BY <6>1 DEF AllPredictors
          <6> QED BY <4>2, <4>3, <6>2
        <5> QED BY <5>1, <5>2
      <4> QED BY <1>5, <1>6, <1>7, <2>5, <4>3, <4>5, <4>6, <4>7, SetStep
    <3> QED BY <3>1, <3>2
  <2> QED BY <2>6, <2>7
<1> QED BY <1>10, <1>11

-----------------------------------------------------------------------------
\* The invariant

LEMMA InvStep ==
    ASSUME IInv, [Next]_vars
    PROVE  IInv'
<1>1. TypeOK'
  BY TypeStep DEF IInv
<1>2. ASSUME NEW o \in Objects, Change(o) PROVE IInv'
  BY <1>2, ChangeStep
<1>3. ASSUME NEW o \in DOMAIN status, NEW s \in Statuses, UpdateStatus(o, s) PROVE IInv'
  BY <1>1, <1>3, UpdateStatusStep
<1>4. ASSUME NEW k \in Kinds, Handle(k) PROVE IInv'
  BY <1>1, <1>4, HandleStep
<1>5. CASE ReloadElsewhere
  BY <1>1, <1>5, ReloadStep
<1>6. ASSUME NEW r \in Requests, ReconcileNamespace(r) PROVE IInv'
  BY <1>1, <1>6, ReconcileNamespaceStep
<1>7. CASE ReconcileRuntime
  BY <1>1, <1>7, ReconcileRuntimeStep
<1>8. ASSUME NEW r \in Requests, ReconcileNamespaceFails(r) PROVE IInv'
  BY <1>1, <1>8, ReconcileNamespaceFailsStep
<1>9. CASE ReconcileRuntimeFails
  BY <1>1, <1>9, ReconcileRuntimeFailsStep
<1>10. ASSUME NEW r \in Requests, Collect(r) PROVE IInv'
  BY <1>1, <1>10, CollectStep
<1>11. ASSUME NEW r \in Requests, DeleteDeployment(r) PROVE IInv'
  BY <1>1, <1>11, DeleteDeploymentStep
<1>12. CASE UNCHANGED vars
  BY <1>1, <1>12, StutterStep
<1> QED BY <1>2, <1>3, <1>4, <1>5, <1>6, <1>7, <1>8, <1>9, <1>10, <1>11, <1>12 DEF Next

\* A deployment that is wanted serves.
LEMMA WantedServes ==
    ASSUME CacheOK, NEW r \in Requests, NEW w \in Wanted(r[1], r[2])
    PROVE  /\ Serves(r, w, w) /\ ~w.orphan
           /\ OwnerOf(r, w) \in Objects /\ cache[OwnerOf(r, w)] # {}
<1>1. PICK s : /\ EffectiveRuntime(r[1], r[2]) = {s}
               /\ Wanted(r[1], r[2]) = {DeploymentOf(s, r[1], r[2], AllPredictors(r[1]))}
  BY WantedIs
<1>2. PICK v : v = UNION {PredictorFrom(i) : i \in Services(r[1])}
  OBVIOUS
<1>3. AllPredictors(r[1]) = ClusterPredictors(r[1]) \cup PluginPredictors(r[1]) \cup v
  BY <1>2 DEF AllPredictors
<1>4. w = DeploymentOf(s, r[1], r[2], ClusterPredictors(r[1]) \cup PluginPredictors(r[1]) \cup v)
  BY <1>1, <1>3
<1>5. /\ w.owner = OwnerKind(r[1], r[2]) /\ w.orphan = FALSE
      /\ w.labels = GetServingRuntimeLabelSet(s, config, r[2])
  BY <1>4 DEF DeploymentOf
<1>6. Serves(r, w, w)
  BY <1>4, <1>5, DeploymentServes
<1>7. OwnerOf(r, w) \in Objects /\ cache[OwnerOf(r, w)] # {}
  BY <1>1, <1>5, OwnerThere
<1> QED BY <1>5, <1>6, <1>7

LEMMA InvInit == Init => IInv
<1> SUFFICES ASSUME Init PROVE IInv
  OBVIOUS
<1>1. TypeOK /\ CacheOK
  BY TypeInit DEF TypeOK
<1>2. \A r \in Requests : deployment[r] = Wanted(r[1], r[2])
  BY DEF Init
<1>3. work = {}
  BY DEF Init
<1>4. OwnersKnown
  BY <1>1, <1>2, WantedServes DEF OwnersKnown
<1>5. RejectionsNoted
  BY DEF Init, RejectionsNoted
<1>6. StaleWorkFollowed
  BY <1>3 DEF StaleWorkFollowed
<1>7. LabelsFollowed
  <2>1. ASSUME NEW r \in Requests PROVE Labelled(r)
    BY <1>1, <1>2, WantedServes DEF Labelled
  <2> QED BY <2>1 DEF LabelsFollowed
<1>8. DeploymentsFollowed
  BY <1>2 DEF DeploymentsFollowed
<1>9. ConstraintsFollowed
  BY DEF Init, ConstraintsFollowed
<1>10. ServiceFollowed
  BY <1>1, <1>2, WantedServes DEF ServiceFollowed
<1> QED BY <1>1, <1>4, <1>5, <1>6, <1>7, <1>8, <1>9, <1>10 DEF IInv

\* Every variable keeps its type, the etcd secret of a namespace its own root and a
\* request at most one deployment (servingruntime_controller.go:90-335).
THEOREM RequestsTypeCorrect == Spec => []TypeOK
<1> QED BY TypeInit, TypeStep, PTL DEF Spec

\* A request whose deployment, labels, constraints or secret do not fit the objects
\* of the cluster is in the work queue, is asked for by the handler of a change that
\* is pending, or is being reconciled; but for the changes in lapsed and for orphans
\* (servingruntime_controller.go:90-335, 603-801).
THEOREM RequestsInvariant == Spec => []IInv
<1> QED BY InvInit, InvStep, PTL DEF Spec

-----------------------------------------------------------------------------
\* What a controller at rest has reached

\* Nothing is pending at rest.
LEMMA AtRest ==
    ASSUME Quiescent, NEW r \in Requests
    PROVE  /\ ~Pending(r) /\ ~PluginPending(r) /\ ~Reconciling(r) /\ ~Orphaned(r)
           /\ Range(events["Plugin"]) = {}
<1>1. \A k \in Kinds : Range(events[k]) = {}
  <2>1. Range(<<>>) = {}
    BY DEF Range
  <2> QED BY <2>1 DEF Quiescent
<1>2. "Plugin" \in Kinds
  BY DEF Kinds
<1>3. ~Pending(r)
  BY <1>1 DEF Pending, Quiescent
<1>4. ~PluginPending(r)
  BY <1>1, <1>2 DEF PluginPending
<1>5. ~Reconciling(r) /\ ~Orphaned(r)
  BY DEF Reconciling, Quiescent
<1> QED BY <1>1, <1>2, <1>3, <1>4, <1>5

\* DeploymentsSettled: at rest, a namespace without a lapse has exactly the
\* deployments that its objects ask for; whatever the order in which objects
\* change, handlers run, reconciles go on and fail and deployments go, the requests
\* of the watches leave out nothing (servingruntime_controller.go:603-801).
THEOREM DeploymentsSettle == Spec => []DeploymentsSettled
<1>1. ASSUME IInv PROVE DeploymentsSettled
  <2> SUFFICES ASSUME Quiescent, NEW r \in Requests,
                      {<<"predictor", r[1]>>, <<"runtime", r[1]>>} \cap lapsed = {}
               PROVE  deployment[r] = Wanted(r[1], r[2])
    BY DEF DeploymentsSettled
  <2>1. ~Pending(r) /\ ~PluginPending(r) /\ ~Reconciling(r) /\ ~Orphaned(r)
    BY AtRest
  <2> QED BY <1>1, <2>1 DEF IInv, DeploymentsFollowed
<1> QED BY <1>1, RequestsInvariant, PTL

\* PredictorsServed: at rest, a runtime that can serve a Predictor of any source is
\* deployed, up and has the claims of the Predictors of the cluster, lapse or not
\* (servingruntime_controller.go:184-442, 539-601).
THEOREM PredictorsAreServed == Spec => []PredictorsServed
<1>1. ASSUME IInv PROVE PredictorsServed
  <2> SUFFICES ASSUME Quiescent, NEW r \in Requests, NEW w \in Wanted(r[1], r[2])
               PROVE  \E d \in deployment[r] :
                /\ d.owner = w.owner /\ d.labels = w.labels
                /\ \A p \in AllPredictors(r[1]) : GetPredictorTypeLabel(p) \subseteq d.labels => d.up
                /\ \A p \in ClusterPredictors(r[1]) :
                     GetPredictorTypeLabel(p) \subseteq d.labels => ClaimOf(p) \cap Claims \subseteq d.claims
    BY DEF PredictorsServed
  <2>1. ~Pending(r) /\ ~Reconciling(r) /\ Range(events["Plugin"]) = {}
    BY AtRest
  <2>2. PICK d \in deployment[r] : Serves(r, d, w)
    BY <1>1, <2>1 DEF IInv, ServiceFollowed
  <2>3. /\ d.owner = w.owner /\ d.labels = w.labels
        /\ \A p \in ClusterPredictors(r[1]) :
             GetPredictorTypeLabel(p) \subseteq d.labels =>
                 d.up /\ ClaimOf(p) \cap Claims \subseteq d.claims
        /\ \A i \in Services(r[1]) : \A p \in PredictorFrom(i) :
             GetPredictorTypeLabel(p) \subseteq d.labels => d.up
        /\ \A o \in {x \in Objects : x[1] = "Plugin" /\ x[2] = r[1]} : \A p \in cache[o] :
             GetPredictorTypeLabel(p) \subseteq d.labels => d.up
    BY <2>1, <2>2 DEF Serves
  <2>4. \A p \in AllPredictors(r[1]) : GetPredictorTypeLabel(p) \subseteq d.labels => d.up
    BY <2>3 DEF AllPredictors, PluginPredictors
  <2> QED BY <2>3, <2>4
<1> QED BY <1>1, RequestsInvariant, PTL

\* The labels of a runtime tell formats, protocols and its name apart.
LEMMA LabelKinds ==
    ASSUME NEW spec, NEW c, NEW n
    PROVE  /\ \A l \in ModelTypeLabels(spec) : l[1] = "mt"
           /\ \A l \in ProtocolLabels(spec, c) : l[1] = "pv"
           /\ \A l \in GetServingRuntimeLabelSet(spec, c, n) :
                /\ l[1] = "mt" => l \in ModelTypeLabels(spec)
                /\ l[1] = "pv" => l \in ProtocolLabels(spec, c)
                /\ l[1] = "rt" => l = <<"rt", n>>
<1>1. \A l \in ModelTypeLabels(spec) : l[1] = "mt"
  BY DEF ModelTypeLabels
<1>2. \A l \in ProtocolLabels(spec, c) : l[1] = "pv"
  BY DEF ProtocolLabels
<1>3. <<"rt", n>>[1] = "rt"
  OBVIOUS
<1>4. "rt" # "mt" /\ "rt" # "pv" /\ "mt" # "pv"
  OBVIOUS
<1> QED BY <1>1, <1>2, <1>3, <1>4 DEF GetServingRuntimeLabelSet

\* The type of a Predictor that a configured runtime supports is one of the types
\* of the constraints.
LEMMA SupportedPlaced ==
    ASSUME NEW specs, NEW n \in DOMAIN specs, specs[n].multiModel, ~specs[n].disabled, NEW c,
           NEW p, GetPredictorTypeLabel(p) \subseteq GetServingRuntimeLabelSet(specs[n], c, n)
    PROVE  GetPredictorTypeLabel(p) \in calculateConstraintData(specs, c)
<1> DEFINE formats == ModelTypeLabels(specs[n])
           protocols == ProtocolLabels(specs[n], c)
           labels == GetServingRuntimeLabelSet(specs[n], c, n)
           types == {{<<"rt", n>>}} \cup {{l} : l \in formats}
                      \cup {{l, pv} : l \in formats, pv \in protocols}
<1>1. types \subseteq calculateConstraintData(specs, c)
  <2>1. n \in {m \in DOMAIN specs : specs[m].multiModel /\ ~specs[m].disabled}
    OBVIOUS
  <2> QED BY <2>1 DEF calculateConstraintData
<1>2. \A l \in labels : /\ l[1] = "mt" => l \in formats
                        /\ l[1] = "pv" => l \in protocols
                        /\ l[1] = "rt" => l = <<"rt", n>>
  BY LabelKinds
<1> HIDE DEF formats, protocols, labels
<1>3. GetPredictorTypeLabel(p) \subseteq labels
  BY DEF labels
<1>4. CASE p.runtime # None
  <2>1. PICK l : l = <<"rt", p.runtime>>
    OBVIOUS
  <2>2. GetPredictorTypeLabel(p) = {l} /\ l[1] = "rt"
    BY <1>4, <2>1 DEF GetPredictorTypeLabel
  <2>3. l = <<"rt", n>>
    BY <1>2, <1>3, <2>2
  <2>4. {l} \in types
    BY <2>3
  <2> QED BY <1>1, <2>2, <2>4
<1>5. CASE p.runtime = None
  <2>1. PICK l : l = IF p.version = None THEN <<"mt", p.type>> ELSE <<"mt", p.type, p.version>>
    OBVIOUS
  <2>2. l[1] = "mt"
    BY <2>1
  <2>3. GetPredictorTypeLabel(p) =
          {l} \cup (IF p.protocol = None THEN {} ELSE {<<"pv", p.protocol>>})
    BY <1>5, <2>1 DEF GetPredictorTypeLabel
  <2>4. l \in formats
    BY <1>2, <1>3, <2>2, <2>3
  <2>5. CASE p.protocol = None
    <3>1. GetPredictorTypeLabel(p) = {l}
      BY <2>3, <2>5
    <3>2. {l} \in types
      BY <2>4
    <3> QED BY <1>1, <3>1, <3>2
  <2>6. CASE p.protocol # None
    <3>1. PICK v : v = <<"pv", p.protocol>>
      OBVIOUS
    <3>2. v[1] = "pv" /\ GetPredictorTypeLabel(p) = {l, v}
      BY <2>3, <2>6, <3>1
    <3>3. v \in protocols
      BY <1>2, <1>3, <3>2
    <3>4. {l, v} \in types
      BY <2>4, <3>3
    <3> QED BY <1>1, <3>2, <3>4
  <2> QED BY <2>5, <2>6
<1> QED BY <1>4, <1>5

\* Roots of etcd secrets tell namespaces apart.
LEMMA RootsApart ==
    ASSUME NEW a, NEW b, a # b
    PROVE  EtcdSecret(a) \cap EtcdSecret(b) = {}
<1>1. \A x : <<"root">> # <<"root", "mm_ns", x>>
  OBVIOUS
<1>2. <<"root", "mm_ns", a>> # <<"root", "mm_ns", b>>
  OBVIOUS
<1> QED BY <1>1, <1>2 DEF EtcdSecret

\* A label set placed in a deployment at rest is one of the runtime wanted, and the
\* other way round.
LEMMA PlacedServed ==
    ASSUME IInv, Quiescent, NEW ns \in Namespaces, modelMeshEnabled(ns),
           <<"runtime", ns>> \notin lapsed, NEW p, NEW n \in Names
    PROVE  (/\ GetPredictorTypeLabel(p) \in constraints[ns]
            /\ \E d \in deployment[<<ns, n>>] : GetPredictorTypeLabel(p) \subseteq d.labels)
           <=> \E s \in {x \in EffectiveRuntime(ns, n) : ~Off(x, TRUE)} :
                 runtimeSupportsPredictor(s, p, config, n)
<1>1. PICK r \in Requests : r = <<ns, n>> /\ r[1] = ns /\ r[2] = n
  <2>1. <<ns, n>> \in Requests /\ <<ns, n>>[1] = ns /\ <<ns, n>>[2] = n
    BY DEF Requests
  <2> QED BY <2>1
<1>2. Labelled(r)
  <2>1. ~Pending(r) /\ ~Reconciling(r) /\ ~Orphaned(r)
    BY AtRest
  <2> QED BY <1>1, <2>1 DEF IInv, LabelsFollowed
<1>3. constraints[ns] = ConstraintsAfter(ns)
  <2>1. \A m \in Names : <<ns, m>> \in Requests
    BY DEF Requests
  <2>2. \A m \in Names : ~Pending(<<ns, m>>)
    BY <2>1, AtRest
  <2> QED BY <2>2 DEF IInv, ConstraintsFollowed
<1>4. CacheOK
  BY DEF IInv, TypeOK
<1>5. ASSUME NEW d \in deployment[r], GetPredictorTypeLabel(p) \subseteq d.labels
      PROVE  \E s \in {x \in EffectiveRuntime(ns, n) : ~Off(x, TRUE)} :
                 runtimeSupportsPredictor(s, p, config, n)
  <2>1. PICK w \in Wanted(ns, n) : d.labels = w.labels
    BY <1>1, <1>2 DEF Labelled
  <2>2. PICK s \in EffectiveRuntime(ns, n) :
            ~Off(s, modelMeshEnabled(ns)) /\ w = DeploymentOf(s, ns, n, AllPredictors(ns))
    BY <2>1 DEF Wanted
  <2>3. w.labels = GetServingRuntimeLabelSet(s, config, n)
    BY <2>2 DEF DeploymentOf
  <2>4. runtimeSupportsPredictor(s, p, config, n)
    BY <1>5, <2>1, <2>3 DEF runtimeSupportsPredictor
  <2>5. ~Off(s, TRUE)
    BY <2>2 DEF Off
  <2> QED BY <2>2, <2>4, <2>5
<1>6. ASSUME NEW s \in EffectiveRuntime(ns, n), ~Off(s, TRUE),
             runtimeSupportsPredictor(s, p, config, n)
      PROVE  /\ GetPredictorTypeLabel(p) \in constraints[ns]
             /\ \E d \in deployment[r] : GetPredictorTypeLabel(p) \subseteq d.labels
  <2>1. EffectiveRuntime(ns, n) = {s} /\ s.multiModel /\ ~s.disabled
    <3>1. s.multiModel /\ ~s.disabled
      BY <1>6 DEF Off
    <3> QED BY <1>4, <3>1, RuntimesAre
  <2>2. ~Off(s, modelMeshEnabled(ns))
    BY <2>1 DEF Off
  <2>3. PICK w : w = DeploymentOf(s, ns, n, AllPredictors(ns))
    OBVIOUS
  <2>4. Wanted(ns, n) = {w}
    BY <2>1, <2>2, <2>3 DEF Wanted
  <2>5. w.labels = GetServingRuntimeLabelSet(s, config, n)
    BY <2>3 DEF DeploymentOf
  <2>6. PICK d \in deployment[r] : d.labels = w.labels
    BY <1>1, <1>2, <2>4 DEF Labelled
  <2>7. GetPredictorTypeLabel(p) \subseteq GetServingRuntimeLabelSet(s, config, n)
    BY <1>6 DEF runtimeSupportsPredictor
  <2>8. Configured(r)
    BY <1>1, <2>4, WantedConfigured
  <2>9. n \in DOMAIN SRSpecs(ns) /\ SRSpecs(ns)[n] = s
    <3>1. n \in DOMAIN SRSpecs(ns)
      BY <1>1, <1>4, <2>8, SpecsAre
    <3>2. EffectiveRuntime(ns, n) = {SRSpecs(ns)[n]}
      BY <1>4, <3>1, SpecsAre
    <3> QED BY <2>1, <3>1, <3>2
  <2>10. GetPredictorTypeLabel(p) \in calculateConstraintData(SRSpecs(ns), config)
    BY <2>1, <2>7, <2>9, SupportedPlaced
  <2>11. GetPredictorTypeLabel(p) \in constraints[ns]
    BY <1>3, <2>9, <2>10 DEF ConstraintsAfter
  <2> QED BY <2>5, <2>6, <2>7, <2>11
<1> QED BY <1>1, <1>5, <1>6

\* PlacementAgrees: at rest, model-mesh may place a model in exactly the runtimes
\* that the controller keeps up for it, and namespaces with constraints have etcd
\* secrets of roots of their own (cluster_config.go:66-146, model_type_labels.go:26-75,
\* etcd_secret.go:43-84).
THEOREM PlacementsAgree == Spec => []PlacementAgrees
<1>1. ASSUME IInv PROVE PlacementAgrees
  <2> SUFFICES ASSUME Quiescent, NEW ns \in Namespaces, modelMeshEnabled(ns),
                      <<"runtime", ns>> \notin lapsed
               PROVE
            /\ \A p \in AllPredictors(ns), n \in Names :
                 (/\ GetPredictorTypeLabel(p) \in constraints[ns]
                  /\ \E d \in deployment[<<ns, n>>] : GetPredictorTypeLabel(p) \subseteq d.labels)
                 = \E s \in {x \in EffectiveRuntime(ns, n) : ~Off(x, TRUE)} :
                       runtimeSupportsPredictor(s, p, config, n)
            /\ constraints[ns] # {} => etcd[ns] # {}
            /\ \A other \in Namespaces \ {ns} : etcd[ns] \cap etcd[other] = {}
    BY DEF PlacementAgrees
  <2>1. ASSUME NEW p \in AllPredictors(ns), NEW n \in Names
        PROVE  (/\ GetPredictorTypeLabel(p) \in constraints[ns]
                /\ \E d \in deployment[<<ns, n>>] : GetPredictorTypeLabel(p) \subseteq d.labels)
               = \E s \in {x \in EffectiveRuntime(ns, n) : ~Off(x, TRUE)} :
                     runtimeSupportsPredictor(s, p, config, n)
    BY <1>1, PlacedServed
  <2>2. constraints[ns] = ConstraintsAfter(ns) /\ etcd[ns] = EtcdAfter(ns)
    <3>1. \A m \in Names : <<ns, m>> \in Requests
      BY DEF Requests
    <3>2. \A m \in Names : ~Pending(<<ns, m>>)
      BY <3>1, AtRest
    <3> QED BY <1>1, <3>2 DEF IInv, ConstraintsFollowed
  <2>3. constraints[ns] # {} => etcd[ns] # {}
    BY <2>2 DEF ConstraintsAfter, EtcdAfter, EtcdSecret
  <2>4. \A other \in Namespaces \ {ns} : etcd[ns] \cap etcd[other] = {}
    BY <1>1, RootsApart DEF IInv, TypeOK, DeploymentsOK
  <2> QED BY <2>1, <2>3, <2>4
<1> QED BY <1>1, RequestsInvariant, PTL

\* What is written of a status is read back.
LEMMA ReadBack ==
    ASSUME NEW s \in Statuses
    PROVE  FromInferenceService(ToInferenceService(s)) =
             IF s.available THEN s ELSE [s EXCEPT !.grpc = "", !.rest = ""]
<1>1. /\ s = [transition |-> s.transition, active |-> s.active, target |-> s.target,
              failed |-> s.failed, total |-> s.total, failure |-> s.failure,
              available |-> s.available, grpc |-> s.grpc, rest |-> s.rest]
      /\ s.active # "" /\ s.available \in BOOLEAN
  BY StatusesAssumption
<1>2. PICK i : i = ToInferenceService(s)
  OBVIOUS
<1>3. /\ i.transition = s.transition /\ i.failure = s.failure /\ i.ready = s.available
      /\ i.states = {[active |-> s.active, target |-> s.target]}
      /\ i.copies = {[failed |-> s.failed, total |-> s.total]}
      /\ i.urls = IF s.available THEN {[grpc |-> s.grpc, rest |-> s.rest]} ELSE {}
  BY <1>2 DEF ToInferenceService
<1>4. \A part, default, field : Field({part}, default, field) = part[field]
  BY DEF Field
<1>5. /\ Field(i.states, "", "active") = s.active /\ Field(i.states, "", "target") = s.target
      /\ Field(i.copies, 0, "failed") = s.failed /\ Field(i.copies, 0, "total") = s.total
  <2>1. PICK a, c : /\ a = [active |-> s.active, target |-> s.target]
                    /\ c = [failed |-> s.failed, total |-> s.total]
    OBVIOUS
  <2>2. /\ a["active"] = s.active /\ a["target"] = s.target
        /\ c["failed"] = s.failed /\ c["total"] = s.total
    BY <2>1
  <2>3. i.states = {a} /\ i.copies = {c}
    BY <1>3, <2>1
  <2>4. /\ Field({a}, "", "active") = a["active"] /\ Field({a}, "", "target") = a["target"]
        /\ Field({c}, 0, "failed") = c["failed"] /\ Field({c}, 0, "total") = c["total"]
    BY <1>4
  <2> QED BY <2>2, <2>3, <2>4
<1>6. /\ Field(i.urls, "", "grpc") = IF s.available THEN s.grpc ELSE ""
      /\ Field(i.urls, "", "rest") = IF s.available THEN s.rest ELSE ""
  <2>1. CASE s.available
    <3>1. PICK u : u = [grpc |-> s.grpc, rest |-> s.rest]
      OBVIOUS
    <3>2. u["grpc"] = s.grpc /\ u["rest"] = s.rest
      BY <3>1
    <3>3. i.urls = {u}
      BY <1>3, <2>1, <3>1
    <3>4. Field({u}, "", "grpc") = u["grpc"] /\ Field({u}, "", "rest") = u["rest"]
      BY <1>4
    <3> QED BY <2>1, <3>2, <3>3, <3>4
  <2>2. CASE ~s.available
    BY <1>3, <2>2 DEF Field
  <2> QED BY <2>1, <2>2
<1>7. FromInferenceService(i) =
        [transition |-> s.transition, active |-> s.active, target |-> s.target,
         failed |-> s.failed, total |-> s.total, failure |-> s.failure,
         available |-> s.available, grpc |-> IF s.available THEN s.grpc ELSE "",
         rest |-> IF s.available THEN s.rest ELSE ""]
  BY <1>1, <1>3, <1>5, <1>6 DEF FromInferenceService
<1>8. CASE s.available
  BY <1>1, <1>2, <1>7, <1>8
<1>9. CASE ~s.available
  <2>1. PICK t : t = [s EXCEPT !.grpc = ""]
    OBVIOUS
  <2>2. t = [transition |-> s.transition, active |-> s.active, target |-> s.target,
             failed |-> s.failed, total |-> s.total, failure |-> s.failure,
             available |-> s.available, grpc |-> "", rest |-> s.rest]
    BY <1>1, <2>1
  <2>3. PICK u : u = [t EXCEPT !.rest = ""]
    OBVIOUS
  <2>4. u = [transition |-> s.transition, active |-> s.active, target |-> s.target,
             failed |-> s.failed, total |-> s.total, failure |-> s.failure,
             available |-> s.available, grpc |-> "", rest |-> ""]
    BY <2>2, <2>3
  <2>5. [s EXCEPT !.grpc = "", !.rest = ""] = u
    BY <2>1, <2>3
  <2> QED BY <1>2, <1>7, <1>9, <2>4, <2>5
<1> QED BY <1>8, <1>9

\* StatusReadBack: the status of a Predictor survives the way into the status of its
\* InferenceService and back, but for the endpoints of one that is not available
\* (inferenceservice_registry.go:263-311, 363-422).
THEOREM StatusIsReadBack == Spec => StatusReadBack
<1>1. ASSUME TypeOK, [Next]_vars
      PROVE  [\A o \in DOMAIN status, s \in Statuses :
                UpdateStatus(o, s) =>
                    FromInferenceService(status'[o]) =
                        IF s.available THEN s ELSE [s EXCEPT !.grpc = "", !.rest = ""]]_vars
  <2> SUFFICES ASSUME NEW o \in DOMAIN status, NEW s \in Statuses, UpdateStatus(o, s)
               PROVE  FromInferenceService(status'[o]) =
                        IF s.available THEN s ELSE [s EXCEPT !.grpc = "", !.rest = ""]
    OBVIOUS
  <2>1. status'[o] = ToInferenceService(s)
    BY DEF UpdateStatus
  <2> QED BY <2>1, ReadBack
<1> QED BY <1>1, RequestsTypeCorrect, PTL DEF Spec, StatusReadBack

=============================================================================

---------------------------- MODULE KubeResolver ----------------------------
(***************************************************************************)
(* pkg/mmesh/grpc_resolver.go: the resolver of kube:/// targets, through   *)
(* which the gRPC clients of MMService find the model-mesh pods.  It is    *)
(* both a gRPC resolver builder and the reconciler of Endpoints.           *)
(*                                                                         *)
(* MMService opens a new client before it closes the old one, so a name    *)
(* may have several resolvers.  gRPC builds a resolver when a client is    *)
(* made, and again when it wakes from idleness; it drops what a resolver   *)
(* reports as soon as the client is closed or idle, and calls the          *)
(* resolver's Close some time later, from a goroutine of its own.          *)
(*                                                                         *)
(* Build, Close and Reconcile run under one lock.  An Endpoints object is  *)
(* the set of its subsets, each with its IPs and its ports.                *)
(***************************************************************************)
EXTENDS Naturals, Sequences, FiniteSets

CONSTANTS
    Resolvers,          \* resolver objects; one that is closed may stand for a new one
    Names,              \* namespaced names of Services
    Targets,            \* targets that parse: their name and port
    EndpointsValues,    \* sets of subsets
    Absent,             \* no such object
    MaxBuilds,          \* bound on calls to Build
    MaxChanges,         \* bound on changes of Endpoints
    MaxFaults           \* bound on failed calls

ASSUME ResolverAssumption ==
    /\ \A t \in Targets : t.name \in Names
    /\ Absent \notin EndpointsValues
    /\ MaxBuilds \in Nat /\ MaxChanges \in Nat /\ MaxFaults \in Nat

VARIABLES
    endpoints,          \* the API server
    cache, trailing,    \* the informer's copy, and the names it has to update
    queue,              \* the names to be reconciled
    resolvers,          \* KubeResolver.resolvers
    client,             \* what gRPC knows of the client of each resolver
    builds, changes, faults

vars == <<endpoints, cache, trailing, queue, resolvers, client, builds, changes, faults>>

Free == [state |-> "free"]

IsOpen(r) == client[r].state = "open"

Init ==
    /\ endpoints = [n \in Names |-> Absent]
    /\ cache = endpoints
    /\ trailing = {} /\ queue = {}
    /\ resolvers = [n \in Names |-> << >>]
    /\ client = [r \in Resolvers |-> Free]
    /\ builds = 0 /\ changes = 0 /\ faults = 0

-----------------------------------------------------------------------------
(* The cluster *)

ChangeEndpoints(n, e) ==
    /\ changes < MaxChanges
    /\ changes' = changes + 1
    /\ e # endpoints[n]
    /\ endpoints' = [endpoints EXCEPT ![n] = e]
    /\ trailing' = trailing \cup {n}
    /\ UNCHANGED <<cache, queue, resolvers, client, builds, faults>>

EndpointsEvent(n) ==
    /\ n \in trailing
    /\ trailing' = trailing \ {n}
    /\ cache' = [cache EXCEPT ![n] = endpoints[n]]
    /\ queue' = queue \cup {n}
    /\ UNCHANGED <<endpoints, resolvers, client, builds, changes, faults>>

-----------------------------------------------------------------------------
(* Resolution *)

\* hasTargetPort: a port counts by its name or its number.
Matching(subset, port) == {p \in subset.ports : port \in {p.name, p.number}}

\* The addresses of the subsets that have the port.
Resolved(e, port) ==
    UNION {{<<ip, p.number>> : ip \in s.ips, p \in Matching(s, port)} : s \in e}

\* reconcile for one resolver: its client takes the addresses, and calls none at
\* all a bad state, or is told that there is no such Service.
Told(c, e) ==
    IF e = Absent THEN [c EXCEPT !.error = TRUE]
    ELSE [c EXCEPT !.addrs = Resolved(e, c.port), !.error = Resolved(e, c.port) = {}]

\* What it tells a client counts only while that is open.
Update(rs, e) ==
    [r \in Resolvers |-> IF r \in rs /\ IsOpen(r) THEN Told(client[r], e) ELSE client[r]]

\* UpdateState has called the state bad for one of them: try again in a second.
BadState(rs, e) == e # Absent /\ \E r \in rs : IsOpen(r) /\ Resolved(e, client[r].port) = {}

Listed(n) == {resolvers[n][i] : i \in DOMAIN resolvers[n]}

\* Build: the resolver is registered before it reads the endpoints, ...
Register(r, n) == resolvers' = [resolvers EXCEPT ![n] = Append(@, r)]

NewClient(t) == [state |-> "open", name |-> t.name, port |-> t.port, addrs |-> {}, error |-> FALSE]

\* A slip: the first state is left to the next event.
BuildLazily(r, t) ==
    /\ builds < MaxBuilds
    /\ builds' = builds + 1
    /\ client[r] = Free
    /\ Register(r, t.name)
    /\ client' = [client EXCEPT ![r] = NewClient(t)]
    /\ UNCHANGED <<endpoints, cache, trailing, queue, changes, faults>>

\* ... and gives the client its first state.  It does not ask for a retry.
Build(r, t) ==
    /\ builds < MaxBuilds
    /\ builds' = builds + 1
    /\ client[r] = Free
    /\ Register(r, t.name)
    /\ client' = [client EXCEPT ![r] = Told(NewClient(t), cache[t.name])]
    /\ UNCHANGED <<endpoints, cache, trailing, queue, changes, faults>>

\* The endpoints cannot be read: no client, but the resolver stays registered.
BuildFails(r, t) ==
    /\ builds < MaxBuilds
    /\ builds' = builds + 1
    /\ faults < MaxFaults
    /\ faults' = faults + 1
    /\ client[r] = Free
    /\ Register(r, t.name)
    /\ client' = [client EXCEPT ![r] = [NewClient(t) EXCEPT !.state = "failed"]]
    /\ UNCHANGED <<endpoints, cache, trailing, queue, changes>>

\* Reconcile: names without a resolver are ignored.  One UpdateState may fail,
\* and the others get their addresses.
Reconcile(n) ==
    /\ n \in queue
    /\ \/ /\ client' = Update(Listed(n), cache[n])
          /\ queue' = IF BadState(Listed(n), cache[n]) THEN queue ELSE queue \ {n}
          /\ UNCHANGED faults
       \/ \E r \in Listed(n) :
             /\ faults < MaxFaults
             /\ faults' = faults + 1
             /\ client' = Update(Listed(n) \ {r}, cache[n])
             /\ UNCHANGED queue
    /\ UNCHANGED <<endpoints, cache, trailing, resolvers, builds, changes>>

\* The endpoints cannot be read.
ReconcileFails(n) ==
    /\ n \in queue
    /\ Listed(n) # {}
    /\ faults < MaxFaults
    /\ faults' = faults + 1
    /\ UNCHANGED <<endpoints, cache, trailing, queue, resolvers, client, builds, changes>>

\* The client is closed, or goes idle.
CloseClient(r) ==
    /\ IsOpen(r)
    /\ client' = [client EXCEPT ![r].state = "closing"]
    /\ UNCHANGED <<endpoints, cache, trailing, queue, resolvers, builds, changes, faults>>

\* A slip: the entry of the name is deleted, whoever else is in it.
WithoutName(list, r) == << >>

\* A slip: the last one goes.
WithoutLast(list, r) == SubSeq(list, 1, Len(list) - 1)

\* The list without r, whose place the last one takes.
Without(list, r) ==
    LET i == CHOOSE j \in DOMAIN list : list[j] = r IN
    SubSeq([list EXCEPT ![i] = list[Len(list)]], 1, Len(list) - 1)

\* serviceResolver.Close.
Close(r) ==
    /\ client[r].state = "closing"
    /\ client' = [client EXCEPT ![r] = Free]
    /\ resolvers' = [resolvers EXCEPT ![client[r].name] =
                        IF r \in Listed(client[r].name) THEN Without(@, r) ELSE @]
    /\ UNCHANGED <<endpoints, cache, trailing, queue, builds, changes, faults>>

-----------------------------------------------------------------------------
Next ==
    \/ \E n \in Names, e \in EndpointsValues \cup {Absent} : ChangeEndpoints(n, e)
    \/ \E n \in Names : EndpointsEvent(n) \/ Reconcile(n) \/ ReconcileFails(n)
    \/ \E r \in Resolvers, t \in Targets : Build(r, t) \/ BuildFails(r, t)
    \/ \E r \in Resolvers : CloseClient(r) \/ Close(r)

\* The informer delivers, the worker works: both run for ever.
Fairness == \A n \in Names : WF_vars(EndpointsEvent(n)) /\ WF_vars(Reconcile(n))

Spec == Init /\ [][Next]_vars /\ Fairness

-----------------------------------------------------------------------------
(* Properties *)

Addresses == UNION {Resolved(e, t.port) : e \in EndpointsValues, t \in Targets}

Clients ==
    [state : {"open", "closing", "failed"}, name : Names, port : {t.port : t \in Targets},
     addrs : SUBSET Addresses, error : BOOLEAN]

\* Types of KubeResolver's map and of what gRPC keeps (grpc_resolver.go:89).
TypeOK ==
    /\ endpoints \in [Names -> EndpointsValues \cup {Absent}]
    /\ cache \in [Names -> EndpointsValues \cup {Absent}]
    /\ trailing \subseteq Names /\ queue \subseteq Names
    /\ resolvers \in [Names -> Seq(Resolvers)]
    /\ client \in [Resolvers -> Clients \cup {Free}]
    /\ builds \in Nat /\ changes \in Nat /\ faults \in Nat

\* Every client that is not closed has its resolver in the list of its name, and
\* no list has one twice or one of another name: Close, which moves the last
\* entry into the gap, never takes another client's (grpc_resolver.go:47).
Registered ==
    /\ \A r \in Resolvers : client[r] # Free => r \in Listed(client[r].name)
    /\ \A n \in Names : \A i, j \in DOMAIN resolvers[n] :
        /\ client[resolvers[n][i]] # Free /\ client[resolvers[n][i]].name = n
        /\ i # j => resolvers[n][i] # resolvers[n][j]

\* The client of r knows what the informer knows.
UpToDate(r) ==
    LET e == cache[client[r].name] IN
    IF e = Absent THEN client[r].error
    ELSE /\ client[r].addrs = Resolved(e, client[r].port)
         /\ client[r].error = (client[r].addrs = {})

\* A client's addresses are out of date only while a reconcile of its name is
\* due: whether it was built before, during or after a change, next to other
\* clients of the name or after a failed call (grpc_resolver.go:101-198).
CurrentOrQueued ==
    /\ \A r \in Resolvers : IsOpen(r) => UpToDate(r) \/ client[r].name \in queue
    /\ \A n \in Names : cache[n] = endpoints[n] \/ n \in trailing

\* Every client that stays open comes to know the pods that are there, and none
\* that are gone: model-mesh is reached as soon as it is up
\* (grpc_resolver.go:137,145).
EventuallyCurrent ==
    \A r \in Resolvers :
        <>[](IsOpen(r) /\ endpoints[client[r].name] # Absent
                => client[r].addrs = Resolved(endpoints[client[r].name], client[r].port))
=============================================================================

------------------------- MODULE KubeResolver_proofs -------------------------
(* Proofs about KubeResolver, for every value of the constants. *)
EXTENDS KubeResolver, TLAPS

USE ResolverAssumption

-----------------------------------------------------------------------------
(* The list of a name's resolvers *)

Distinct(list) == \A i, j \in DOMAIN list : i # j => list[i] # list[j]

\* Close (grpc_resolver.go:47-73) takes one resolver from a list, and no other.
LEMMA WithoutOne ==
    ASSUME NEW list \in Seq(Resolvers), Distinct(list), NEW r \in Resolvers,
           \E i \in DOMAIN list : list[i] = r
    PROVE  /\ Without(list, r) \in Seq(Resolvers)
           /\ Distinct(Without(list, r))
           /\ \A j \in DOMAIN Without(list, r) :
                /\ Without(list, r)[j] # r
                /\ \E i \in DOMAIN list : list[i] = Without(list, r)[j]
           /\ \A i \in DOMAIN list : list[i] # r =>
                \E j \in DOMAIN Without(list, r) : Without(list, r)[j] = list[i]
<1> DEFINE i == CHOOSE j \in DOMAIN list : list[j] = r
           n == Len(list)
           moved == [list EXCEPT ![i] = list[n]]
           w == SubSeq(moved, 1, n - 1)
<1>1. i \in DOMAIN list /\ list[i] = r
  OBVIOUS
<1> HIDE DEF i
<1>2. n \in Nat /\ DOMAIN list = 1..n /\ i \in 1..n /\ n \in 1..n
  BY <1>1
<1>3. moved \in Seq(Resolvers) /\ Len(moved) = n
  BY <1>1, <1>2
<1>4. /\ w \in Seq(Resolvers) /\ DOMAIN w = 1..(n - 1)
      /\ \A j \in 1..(n - 1) : w[j] = IF j = i THEN list[n] ELSE list[j]
  BY <1>2, <1>3
<1>5. Without(list, r) = w
  BY DEF Without, i
<1> HIDE DEF w, moved, n
<1>6. Distinct(w)
  BY <1>1, <1>2, <1>4 DEF Distinct
<1>7. \A j \in DOMAIN w : w[j] # r /\ \E k \in DOMAIN list : list[k] = w[j]
  BY <1>1, <1>2, <1>4 DEF Distinct
<1>8. ASSUME NEW k \in DOMAIN list, list[k] # r
      PROVE  \E j \in DOMAIN w : w[j] = list[k]
  <2>1. CASE k = n
    <3>1. i # n /\ i \in DOMAIN w
      BY <1>1, <1>2, <1>4, <1>8, <2>1
    <3>2. QED BY <1>2, <1>4, <2>1, <3>1
  <2>2. CASE k # n
    <3>1. k # i /\ k \in DOMAIN w
      BY <1>1, <1>2, <1>4, <1>8, <2>2
    <3>2. QED BY <1>2, <1>4, <3>1
  <2>3. QED BY <2>1, <2>2
<1>9. QED BY <1>4, <1>5, <1>6, <1>7, <1>8

-----------------------------------------------------------------------------
(* Types *)

Ports == {t.port : t \in Targets}

\* A client is not free.
LEMMA ClientIsNotFree ==
    /\ Free.state = "free"
    /\ \A c \in Clients : c # Free
    /\ \A t : /\ NewClient(t) # Free
              /\ [NewClient(t) EXCEPT !.state = "failed"] # Free
<1>1. Free.state = "free"
  BY DEF Free
<1>2. \A c \in Clients : c.state # "free"
  BY DEF Clients
<1>3. \A t : /\ NewClient(t).state = "open"
             /\ [NewClient(t) EXCEPT !.state = "failed"].state = "failed"
  BY DEF NewClient
<1>4. QED BY <1>1, <1>2, <1>3

\* What a resolver tells a client (grpc_resolver.go:167-198) keeps its type,
\* name, port and state, and brings it up to date.
LEMMA ToldClient ==
    ASSUME NEW c \in Clients, NEW e \in EndpointsValues \cup {Absent}
    PROVE  /\ Told(c, e) \in Clients
           /\ Told(c, e).name = c.name /\ Told(c, e).port = c.port
           /\ Told(c, e).state = c.state
           /\ IF e = Absent THEN Told(c, e).error
              ELSE /\ Told(c, e).addrs = Resolved(e, c.port)
                   /\ Told(c, e).error = (Told(c, e).addrs = {})
<1>1. CASE e = Absent
  BY <1>1 DEF Told, Clients
<1>2. CASE e # Absent
  <2>1. Resolved(e, c.port) \in SUBSET Addresses
    <3>1. PICK t \in Targets : c.port = t.port
      BY DEF Clients
    <3>2. e \in EndpointsValues
      BY <1>2
    <3>3. Resolved(e, t.port) \subseteq Addresses
      BY <3>2 DEF Addresses
    <3>4. QED BY <3>1, <3>3
  <2>2. (Resolved(e, c.port) = {}) \in BOOLEAN
    OBVIOUS
  <2>3. QED BY <1>2, <2>1, <2>2 DEF Told, Clients
<1>3. QED BY <1>1, <1>2

\* A client that is made is a client of its target.
LEMMA NewClientType ==
    ASSUME NEW t \in Targets
    PROVE  /\ NewClient(t) \in Clients /\ NewClient(t).name = t.name
           /\ [NewClient(t) EXCEPT !.state = "failed"] \in Clients
           /\ [NewClient(t) EXCEPT !.state = "failed"].name = t.name
           /\ [NewClient(t) EXCEPT !.state = "failed"].state = "failed"
           /\ NewClient(t).state = "open"
BY DEF NewClient, Clients

\* A reconcile changes no client's name, port or state.
LEMMA UpdateClients ==
    ASSUME TypeOK, NEW rs, NEW e \in EndpointsValues \cup {Absent}
    PROVE  /\ Update(rs, e) \in [Resolvers -> Clients \cup {Free}]
           /\ \A r \in Resolvers :
                /\ Update(rs, e)[r] = IF r \in rs /\ IsOpen(r) THEN Told(client[r], e)
                                                               ELSE client[r]
                /\ Update(rs, e)[r] = Free <=> client[r] = Free
                /\ Update(rs, e)[r].name = client[r].name
                /\ Update(rs, e)[r].state = client[r].state
<1>1. ASSUME NEW r \in Resolvers, IsOpen(r)
      PROVE  client[r] \in Clients
  BY <1>1 DEF IsOpen, TypeOK, Free
<1>2. ASSUME NEW r \in Resolvers
      PROVE  /\ Update(rs, e)[r] \in Clients \cup {Free}
             /\ Update(rs, e)[r] = IF r \in rs /\ IsOpen(r) THEN Told(client[r], e) ELSE client[r]
             /\ Update(rs, e)[r] = Free <=> client[r] = Free
             /\ Update(rs, e)[r].name = client[r].name
             /\ Update(rs, e)[r].state = client[r].state
  <2>1. Update(rs, e)[r] = IF r \in rs /\ IsOpen(r) THEN Told(client[r], e) ELSE client[r]
    BY DEF Update
  <2>2. CASE r \in rs /\ IsOpen(r)
    <3>1. client[r] \in Clients
      BY <1>1, <2>2
    <3>2. Told(client[r], e) \in Clients /\ Told(client[r], e).name = client[r].name
          /\ Told(client[r], e).state = client[r].state
      BY <3>1, ToldClient
    <3>3. QED BY <2>1, <2>2, <3>1, <3>2, ClientIsNotFree
  <2>3. CASE ~ (r \in rs /\ IsOpen(r))
    BY <2>1, <2>3 DEF TypeOK
  <2>4. QED BY <2>2, <2>3
<1>3. Update(rs, e) \in [Resolvers -> Clients \cup {Free}]
  BY <1>2 DEF Update
<1>4. QED BY <1>2, <1>3

\* Close finds its resolver in the list of its name, or nothing to do.
LEMMA CloseList ==
    ASSUME TypeOK, Registered, NEW r \in Resolvers, Close(r)
    PROVE  /\ client[r] \in Clients /\ client[r].name \in Names
           /\ \E i \in DOMAIN resolvers[client[r].name] : resolvers[client[r].name][i] = r
           /\ Distinct(resolvers[client[r].name])
           /\ resolvers' = [resolvers EXCEPT ![client[r].name] = Without(@, r)]
<1>1. client[r] \in Clients
  BY ClientIsNotFree DEF Close, TypeOK
<1>2. client[r].name \in Names /\ client[r] # Free
  BY <1>1, ClientIsNotFree DEF Clients
<1>3. r \in Listed(client[r].name)
  BY <1>2 DEF Registered
<1>4. QED BY <1>1, <1>2, <1>3 DEF Close, Listed, Registered, Distinct

\* Every step keeps the types, those of the lists because Close takes away no
\* more than it finds.
LEMMA NextType == TypeOK /\ Registered /\ [Next]_vars => TypeOK'
<1> SUFFICES ASSUME TypeOK, Registered, [Next]_vars PROVE TypeOK'
  OBVIOUS
<1>1. ASSUME NEW n \in Names, NEW e \in EndpointsValues \cup {Absent}, ChangeEndpoints(n, e)
      PROVE  TypeOK'
  BY <1>1 DEF ChangeEndpoints, TypeOK
<1>2. ASSUME NEW n \in Names, EndpointsEvent(n) PROVE TypeOK'
  BY <1>2 DEF EndpointsEvent, TypeOK
<1>3. ASSUME NEW n \in Names, Reconcile(n) PROVE TypeOK'
  <2>1. cache[n] \in EndpointsValues \cup {Absent}
    BY DEF TypeOK
  <2>2. PICK rs : client' = Update(rs, cache[n])
    BY <1>3 DEF Reconcile
  <2>3. client' \in [Resolvers -> Clients \cup {Free}]
    BY <2>1, <2>2, UpdateClients
  <2>4. queue' \subseteq Names
    BY <1>3 DEF Reconcile, TypeOK
  <2>5. faults' \in Nat
    <3>1. faults' = faults \/ faults' = faults + 1
      BY <1>3, Zenon DEF Reconcile
    <3>2. QED BY <3>1 DEF TypeOK
  <2>6. QED BY <1>3, <2>3, <2>4, <2>5 DEF Reconcile, TypeOK
<1>4. ASSUME NEW n \in Names, ReconcileFails(n) PROVE TypeOK'
  BY <1>4 DEF ReconcileFails, TypeOK
<1>5. ASSUME NEW r \in Resolvers, NEW t \in Targets, Build(r, t) \/ BuildFails(r, t)
      PROVE  TypeOK'
  <2>1. t.name \in Names /\ cache[t.name] \in EndpointsValues \cup {Absent}
    BY DEF TypeOK
  <2>2. resolvers' \in [Names -> Seq(Resolvers)]
    <3> DEFINE l == Append(resolvers[t.name], r)
    <3>1. l \in Seq(Resolvers)
      BY <2>1 DEF TypeOK
    <3>2. resolvers' = [resolvers EXCEPT ![t.name] = l]
      BY <1>5 DEF Build, BuildFails, Register
    <3> HIDE DEF l
    <3>3. QED BY <3>1, <3>2 DEF TypeOK
  <2>3. client' \in [Resolvers -> Clients \cup {Free}]
    <3>1. /\ Told(NewClient(t), cache[t.name]) \in Clients
          /\ [NewClient(t) EXCEPT !.state = "failed"] \in Clients
      BY <2>1, NewClientType, ToldClient
    <3>2. PICK c \in Clients : client' = [client EXCEPT ![r] = c]
      BY <1>5, <3>1 DEF Build, BuildFails
    <3>3. QED BY <3>2 DEF TypeOK
  <2>4. builds' \in Nat /\ faults' \in Nat
    BY <1>5 DEF Build, BuildFails, TypeOK
  <2>5. QED BY <1>5, <2>2, <2>3, <2>4 DEF Build, BuildFails, TypeOK
<1>6. ASSUME NEW r \in Resolvers, CloseClient(r) PROVE TypeOK'
  <2>1. client[r] \in Clients
    BY <1>6, ClientIsNotFree DEF CloseClient, IsOpen, TypeOK
  <2>2. [client[r] EXCEPT !.state = "closing"] \in Clients
    BY <2>1 DEF Clients
  <2>3. client' = [client EXCEPT ![r] = [client[r] EXCEPT !.state = "closing"]]
    BY <1>6 DEF CloseClient
  <2>4. QED BY <1>6, <2>2, <2>3 DEF CloseClient, TypeOK
<1>7. ASSUME NEW r \in Resolvers, Close(r) PROVE TypeOK'
  <2>1. resolvers[client[r].name] \in Seq(Resolvers)
    BY <1>7, CloseList DEF TypeOK
  <2>2. Without(resolvers[client[r].name], r) \in Seq(Resolvers)
    BY <1>7, <2>1, CloseList, WithoutOne
  <2>3. resolvers' \in [Names -> Seq(Resolvers)]
    <3> DEFINE w == Without(resolvers[client[r].name], r)
    <3>1. resolvers' = [resolvers EXCEPT ![client[r].name] = w]
      BY <1>7, CloseList
    <3> HIDE DEF w
    <3>2. QED BY <2>2, <3>1 DEF TypeOK, w
  <2>4. client' \in [Resolvers -> Clients \cup {Free}]
    BY <1>7 DEF Close, TypeOK
  <2>5. QED BY <1>7, <2>3, <2>4 DEF Close, TypeOK
<1>8. CASE UNCHANGED vars
  BY <1>8 DEF vars, TypeOK
<1>9. QED
  BY <1>1, <1>2, <1>3, <1>4, <1>5, <1>6, <1>7, <1>8 DEF Next

-----------------------------------------------------------------------------
(* Registration *)

\* Build registers a resolver that no list has.
LEMMA BuildRegisters ==
    ASSUME TypeOK, Registered, NEW r \in Resolvers, NEW t \in Targets,
           client[r] = Free, Register(r, t.name),
           NEW c \in Clients, c.name = t.name, client' = [client EXCEPT ![r] = c]
    PROVE  Registered'
<1> DEFINE n == t.name
<1>1. /\ n \in Names /\ resolvers[n] \in Seq(Resolvers) /\ client \in [Resolvers -> Clients \cup {Free}]
      /\ resolvers' = [resolvers EXCEPT ![n] = Append(resolvers[n], r)]
      /\ resolvers \in [Names -> Seq(Resolvers)]
  BY DEF TypeOK, Register
<1>2. client'[r] = c /\ c # Free /\ \A q \in Resolvers : q # r => client'[q] = client[q]
  BY <1>1, ClientIsNotFree
<1>3. \A m \in Names : \A i \in DOMAIN resolvers[m] : /\ resolvers[m][i] # r
                                                     /\ resolvers[m][i] \in Resolvers
  BY <1>1 DEF Registered
<1>4. \A m \in Names : resolvers'[m] = IF m = n THEN Append(resolvers[n], r) ELSE resolvers[m]
  BY <1>1
<1>5. LET l == resolvers[n] IN
        /\ Len(l) \in Nat /\ DOMAIN l = 1..Len(l) /\ DOMAIN resolvers'[n] = 1..(Len(l) + 1)
        /\ resolvers'[n][Len(l) + 1] = r
        /\ \A i \in DOMAIN l : resolvers'[n][i] = l[i]
  BY <1>1, <1>4
<1>6. ASSUME NEW q \in Resolvers, client'[q] # Free
      PROVE  \E i \in DOMAIN resolvers'[client'[q].name] : resolvers'[client'[q].name][i] = q
  <2>1. CASE q = r
    BY <1>1, <1>2, <1>5, <2>1
  <2>2. CASE q # r
    <3>1. client'[q] = client[q] /\ client[q] # Free /\ client[q].name \in Names
      BY <1>1, <1>2, <1>6, <2>2 DEF Clients
    <3>2. PICK i \in DOMAIN resolvers[client[q].name] : resolvers[client[q].name][i] = q
      BY <3>1 DEF Registered, Listed
    <3>3. QED BY <1>4, <1>5, <3>1, <3>2
  <2>3. QED BY <2>1, <2>2
<1>7. ASSUME NEW m \in Names, NEW i \in DOMAIN resolvers'[m], NEW j \in DOMAIN resolvers'[m]
      PROVE  /\ client'[resolvers'[m][i]] # Free /\ client'[resolvers'[m][i]].name = m
             /\ i # j => resolvers'[m][i] # resolvers'[m][j]
  <2>1. CASE m # n
    BY <1>2, <1>3, <1>4, <2>1 DEF Registered
  <2>2. CASE m = n
    <3>1. /\ i = Len(resolvers[n]) + 1 \/ i \in DOMAIN resolvers[n]
          /\ j = Len(resolvers[n]) + 1 \/ j \in DOMAIN resolvers[n]
      BY <1>5, <1>7, <2>2
    <3>2. QED BY <1>1, <1>2, <1>3, <1>5, <2>2, <3>1 DEF Registered
  <2>3. QED BY <2>1, <2>2
<1>8. QED BY <1>6, <1>7 DEF Registered, Listed

\* Close unregisters the one it is called for.
LEMMA CloseUnregisters ==
    ASSUME TypeOK, Registered, NEW r \in Resolvers, Close(r)
    PROVE  Registered'
<1> DEFINE n == client[r].name
           l == resolvers[n]
           w == Without(l, r)
<1>1. /\ n \in Names /\ l \in Seq(Resolvers) /\ Distinct(l)
      /\ \E i \in DOMAIN l : l[i] = r
      /\ resolvers' = [resolvers EXCEPT ![n] = w]
      /\ resolvers \in [Names -> Seq(Resolvers)]
      /\ client' = [client EXCEPT ![r] = Free]
      /\ client \in [Resolvers -> Clients \cup {Free}]
  BY CloseList DEF TypeOK, Close
<1>2. /\ Distinct(w)
      /\ \A j \in DOMAIN w : w[j] # r /\ \E i \in DOMAIN l : l[i] = w[j]
      /\ \A i \in DOMAIN l : l[i] # r => \E j \in DOMAIN w : w[j] = l[i]
  BY <1>1, WithoutOne
<1>3. /\ client'[r] = Free
      /\ \A q \in Resolvers : q # r => client'[q] = client[q]
      /\ \A m \in Names : resolvers'[m] = IF m = n THEN w ELSE resolvers[m]
  BY <1>1
<1> HIDE DEF w
<1>4. ASSUME NEW q \in Resolvers, client'[q] # Free
      PROVE  \E i \in DOMAIN resolvers'[client'[q].name] : resolvers'[client'[q].name][i] = q
  <2>1. q # r /\ client'[q] = client[q] /\ client[q].name \in Names /\ client[q] # Free
    BY <1>1, <1>3, <1>4 DEF Clients
  <2>2. PICK i \in DOMAIN resolvers[client[q].name] : resolvers[client[q].name][i] = q
    BY <2>1 DEF Registered, Listed
  <2>3. QED BY <1>2, <1>3, <2>1, <2>2
<1>5. ASSUME NEW m \in Names, NEW i \in DOMAIN resolvers'[m], NEW j \in DOMAIN resolvers'[m]
      PROVE  /\ client'[resolvers'[m][i]] # Free /\ client'[resolvers'[m][i]].name = m
             /\ i # j => resolvers'[m][i] # resolvers'[m][j]
  <2>0. \A k \in DOMAIN resolvers[m] : resolvers[m][k] \in Resolvers
    BY <1>1
  <2>1. CASE m # n
    <3>1. \A k \in DOMAIN resolvers[m] : resolvers[m][k] # r
      BY <2>1 DEF Registered
    <3>2. QED BY <1>3, <2>0, <2>1, <3>1 DEF Registered
  <2>2. CASE m = n
    <3>1. PICK k \in DOMAIN l : l[k] = w[i] /\ w[i] # r
      BY <1>2, <1>3, <1>5, <2>2
    <3>2. client[l[k]] # Free /\ client[l[k]].name = n /\ l[k] \in Resolvers
      BY <1>1, <2>0, <2>2 DEF Registered
    <3>3. i # j => w[i] # w[j]
      BY <1>2, <1>3, <1>5, <2>2 DEF Distinct
    <3>4. QED BY <1>3, <2>2, <3>1, <3>2, <3>3
  <2>3. QED BY <2>1, <2>2
<1>6. QED BY <1>4, <1>5 DEF Registered, Listed

\* Clients that keep their name, and whether they are free, stay registered.
LEMMA SameRegistration ==
    ASSUME TypeOK, Registered, UNCHANGED resolvers,
           \A r \in Resolvers : /\ client'[r] = Free <=> client[r] = Free
                                /\ client[r] # Free => client'[r].name = client[r].name
    PROVE  Registered'
<1>1. \A n \in Names : \A i \in DOMAIN resolvers[n] : resolvers[n][i] \in Resolvers
  BY DEF TypeOK
<1>2. QED BY <1>1 DEF Registered, Listed

\* Every step keeps the registrations.
LEMMA NextRegistered == TypeOK /\ Registered /\ [Next]_vars => Registered'
<1> SUFFICES ASSUME TypeOK, Registered, [Next]_vars PROVE Registered'
  OBVIOUS
<1>1. CASE UNCHANGED <<resolvers, client>>
  BY <1>1, SameRegistration
<1>2. ASSUME NEW n \in Names, Reconcile(n) PROVE Registered'
  <2>1. cache[n] \in EndpointsValues \cup {Absent}
    BY DEF TypeOK
  <2>2. PICK rs : client' = Update(rs, cache[n])
    BY <1>2 DEF Reconcile
  <2>3. UNCHANGED resolvers
    BY <1>2 DEF Reconcile
  <2>4. QED BY <2>1, <2>2, <2>3, UpdateClients, SameRegistration
<1>3. ASSUME NEW r \in Resolvers, NEW t \in Targets, Build(r, t) PROVE Registered'
  <2>1. cache[t.name] \in EndpointsValues \cup {Absent}
    BY DEF TypeOK
  <2>2. Told(NewClient(t), cache[t.name]) \in Clients /\ Told(NewClient(t), cache[t.name]).name = t.name
    BY <2>1, NewClientType, ToldClient
  <2>3. QED BY <1>3, <2>2, BuildRegisters DEF Build
<1>4. ASSUME NEW r \in Resolvers, NEW t \in Targets, BuildFails(r, t) PROVE Registered'
  BY <1>4, NewClientType, BuildRegisters DEF BuildFails
<1>5. ASSUME NEW r \in Resolvers, CloseClient(r) PROVE Registered'
  <2>1. client[r] \in Clients
    BY <1>5, ClientIsNotFree DEF CloseClient, IsOpen, TypeOK
  <2>2. [client[r] EXCEPT !.state = "closing"] \in Clients
        /\ [client[r] EXCEPT !.state = "closing"].name = client[r].name
    BY <2>1 DEF Clients
  <2>3. client' = [client EXCEPT ![r] = [client[r] EXCEPT !.state = "closing"]]
    BY <1>5 DEF CloseClient
  <2>4. QED BY <1>5, <2>1, <2>2, <2>3, ClientIsNotFree, SameRegistration DEF CloseClient, TypeOK
<1>6. ASSUME NEW r \in Resolvers, Close(r) PROVE Registered'
  BY <1>6, CloseUnregisters
<1>7. QED
  BY <1>1, <1>2, <1>3, <1>4, <1>5, <1>6
     DEF Next, ChangeEndpoints, EndpointsEvent, ReconcileFails, vars

-----------------------------------------------------------------------------
(* The addresses *)

\* An informer that is behind has an event to come, and a client that is behind
\* a reconcile.  A reconcile reaches every open client of its name, because
\* every one of them is in the list; one that fails keeps its place in the queue.
LEMMA NextCurrent ==
    TypeOK /\ Registered /\ CurrentOrQueued /\ [Next]_vars => CurrentOrQueued'
<1> SUFFICES ASSUME TypeOK, Registered, CurrentOrQueued, [Next]_vars PROVE CurrentOrQueued'
  OBVIOUS
<1> DEFINE Current(r) == IsOpen(r) => UpToDate(r) \/ client[r].name \in queue
           Followed(n) == cache[n] = endpoints[n] \/ n \in trailing
<1>0. /\ \A r \in Resolvers : Current(r)
      /\ \A n \in Names : Followed(n)
  BY DEF CurrentOrQueued
<1>1. SUFFICES /\ \A r \in Resolvers : Current(r)'
               /\ \A n \in Names : Followed(n)'
  BY DEF CurrentOrQueued
<1>2. ASSUME NEW n \in Names, NEW e \in EndpointsValues \cup {Absent}, ChangeEndpoints(n, e)
      PROVE  /\ \A r \in Resolvers : Current(r)'
             /\ \A m \in Names : Followed(m)'
  BY <1>0, <1>2 DEF ChangeEndpoints, IsOpen, UpToDate, TypeOK
<1>3. ASSUME NEW n \in Names, EndpointsEvent(n)
      PROVE  /\ \A r \in Resolvers : Current(r)'
             /\ \A m \in Names : Followed(m)'
  <2>1. \A m \in Names : Followed(m)'
    BY <1>0, <1>3 DEF EndpointsEvent, TypeOK
  <2>2. ASSUME NEW r \in Resolvers PROVE Current(r)'
    <3>1. /\ client' = client /\ queue' = queue \cup {n}
          /\ \A m \in Names : m # n => cache'[m] = cache[m]
      BY <1>3 DEF EndpointsEvent, TypeOK
    <3>2. ASSUME IsOpen(r) PROVE client[r].name \in Names
      BY <3>2, ClientIsNotFree DEF IsOpen, TypeOK, Clients
    <3>3. QED BY <1>0, <3>1, <3>2 DEF IsOpen, UpToDate
  <2>3. QED BY <2>1, <2>2
<1>4. ASSUME NEW n \in Names, Reconcile(n)
      PROVE  /\ \A r \in Resolvers : Current(r)'
             /\ \A m \in Names : Followed(m)'
  <2>1. \A m \in Names : Followed(m)'
    BY <1>0, <1>4 DEF Reconcile
  <2>2. cache[n] \in EndpointsValues \cup {Absent} /\ cache' = cache /\ n \in queue
    BY <1>4 DEF Reconcile, TypeOK
  <2>3. PICK rs : /\ client' = Update(rs, cache[n]) /\ rs \subseteq Listed(n)
                  /\ queue' = queue \/ (rs = Listed(n) /\ queue' = queue \ {n})
    BY <1>4 DEF Reconcile
  <2>4. ASSUME NEW r \in Resolvers, IsOpen(r)' PROVE UpToDate(r)' \/ client'[r].name \in queue'
    <3>1. /\ client'[r] = IF r \in rs /\ IsOpen(r) THEN Told(client[r], cache[n]) ELSE client[r]
          /\ client'[r].name = client[r].name /\ client'[r].state = client[r].state
      BY <2>2, <2>3, UpdateClients
    <3>2. IsOpen(r) /\ client[r] \in Clients /\ client[r] # Free
      BY <2>4, <3>1, ClientIsNotFree DEF IsOpen, TypeOK
    <3>3. CASE client[r].name # n
      <4>1. r \notin rs
        BY <2>3, <3>3 DEF Registered, Listed
      <4>2. client'[r] = client[r]
        BY <3>1, <4>1
      <4>3. client[r].name \in queue' <=> client[r].name \in queue
        BY <2>3, <3>3
      <4>4. QED BY <1>0, <2>2, <3>2, <4>2, <4>3 DEF UpToDate
    <3>4. CASE client[r].name = n
      <4>1. CASE queue' = queue
        BY <2>2, <3>1, <3>4, <4>1
      <4>2. CASE rs = Listed(n)
        <5>1. r \in rs
          BY <3>2, <3>4, <4>2 DEF Registered
        <5>2. client'[r] = Told(client[r], cache[n])
          BY <3>1, <3>2, <5>1
        <5>3. UpToDate(r)'
          <6>1. client'[r].name = n /\ client'[r].port = client[r].port
            BY <2>2, <3>2, <3>4, <5>2, ToldClient
          <6>2. IF cache[n] = Absent THEN client'[r].error
                ELSE /\ client'[r].addrs = Resolved(cache[n], client[r].port)
                     /\ client'[r].error = (client'[r].addrs = {})
            BY <2>2, <3>2, <5>2, ToldClient
          <6>3. QED BY <2>2, <6>1, <6>2 DEF UpToDate
        <5>4. QED BY <5>3
      <4>3. QED BY <2>3, <4>1, <4>2
    <3>5. QED BY <3>3, <3>4
  <2>5. QED BY <2>1, <2>4
<1>5. ASSUME NEW n \in Names, ReconcileFails(n)
      PROVE  /\ \A r \in Resolvers : Current(r)'
             /\ \A m \in Names : Followed(m)'
  BY <1>0, <1>5 DEF ReconcileFails, IsOpen, UpToDate
<1>6. ASSUME NEW r \in Resolvers, NEW c, client' = [client EXCEPT ![r] = c],
             UNCHANGED <<endpoints, cache, trailing, queue>>,
             IsOpen(r)' => UpToDate(r)' \/ client'[r].name \in queue
      PROVE  /\ \A q \in Resolvers : Current(q)'
             /\ \A m \in Names : Followed(m)'
  <2>1. \A q \in Resolvers : q # r => client'[q] = client[q]
    BY <1>6 DEF TypeOK
  <2>2. ASSUME NEW q \in Resolvers, q # r PROVE Current(q)'
    BY <1>0, <1>6, <2>1, <2>2 DEF IsOpen, UpToDate
  <2>3. QED BY <1>0, <1>6, <2>2
<1>7. ASSUME NEW r \in Resolvers, NEW t \in Targets, Build(r, t)
      PROVE  /\ \A q \in Resolvers : Current(q)'
             /\ \A m \in Names : Followed(m)'
  <2> DEFINE c == Told(NewClient(t), cache[t.name])
  <2>1. NewClient(t) \in Clients /\ cache[t.name] \in EndpointsValues \cup {Absent}
    BY NewClientType DEF TypeOK
  <2>2. /\ c.name = NewClient(t).name /\ c.port = NewClient(t).port
        /\ IF cache[t.name] = Absent THEN c.error
           ELSE /\ c.addrs = Resolved(cache[t.name], NewClient(t).port)
                /\ c.error = (c.addrs = {})
    BY <2>1, ToldClient
  <2> HIDE DEF c
  <2>3. /\ client' = [client EXCEPT ![r] = c] /\ client'[r] = c
        /\ UNCHANGED <<endpoints, cache, trailing, queue>>
    BY <1>7 DEF Build, TypeOK, c
  <2>4. UpToDate(r)'
    BY <2>2, <2>3, NewClientType DEF UpToDate
  <2>5. QED BY <1>6, <2>3, <2>4
<1>8. ASSUME NEW r \in Resolvers, NEW t \in Targets, BuildFails(r, t)
      PROVE  /\ \A q \in Resolvers : Current(q)'
             /\ \A m \in Names : Followed(m)'
  <2> DEFINE c == [NewClient(t) EXCEPT !.state = "failed"]
  <2>1. c.state = "failed"
    BY NewClientType
  <2> HIDE DEF c
  <2>2. /\ client' = [client EXCEPT ![r] = c] /\ client'[r] = c
        /\ UNCHANGED <<endpoints, cache, trailing, queue>>
    BY <1>8 DEF BuildFails, TypeOK, c
  <2>3. ~ IsOpen(r)'
    BY <2>1, <2>2 DEF IsOpen
  <2>4. QED BY <1>6, <2>2, <2>3
<1>9. ASSUME NEW r \in Resolvers, CloseClient(r)
      PROVE  /\ \A q \in Resolvers : Current(q)'
             /\ \A m \in Names : Followed(m)'
  <2> DEFINE c == [client[r] EXCEPT !.state = "closing"]
  <2>1. c.state = "closing"
    BY <1>9, ClientIsNotFree DEF CloseClient, IsOpen, TypeOK, Clients
  <2> HIDE DEF c
  <2>2. /\ client' = [client EXCEPT ![r] = c] /\ client'[r] = c
        /\ UNCHANGED <<endpoints, cache, trailing, queue>>
    BY <1>9 DEF CloseClient, TypeOK, c
  <2>3. ~ IsOpen(r)'
    BY <2>1, <2>2 DEF IsOpen
  <2>4. QED BY <1>6, <2>2, <2>3
<1>10. ASSUME NEW r \in Resolvers, Close(r)
       PROVE  /\ \A q \in Resolvers : Current(q)'
              /\ \A m \in Names : Followed(m)'
  <2>1. /\ client' = [client EXCEPT ![r] = Free] /\ client'[r] = Free
        /\ UNCHANGED <<endpoints, cache, trailing, queue>>
    BY <1>10 DEF Close, TypeOK
  <2>2. ~ IsOpen(r)'
    BY <2>1, ClientIsNotFree DEF IsOpen
  <2>3. QED BY <1>6, <2>1, <2>2
<1>11. CASE UNCHANGED vars
  BY <1>0, <1>11 DEF vars, IsOpen, UpToDate
<1>12. QED
  BY <1>2, <1>3, <1>4, <1>5, <1>7, <1>8, <1>9, <1>10, <1>11 DEF Next

-----------------------------------------------------------------------------
\* Nobody is listed and nothing is queued to begin with.
LEMMA InitInvariants == Init => TypeOK /\ Registered /\ CurrentOrQueued
<1> SUFFICES ASSUME Init PROVE TypeOK /\ Registered /\ CurrentOrQueued
  OBVIOUS
<1>1. TypeOK
  BY DEF Init, TypeOK
<1>2. Registered
  BY DEF Init, Registered
<1>3. \A r \in Resolvers : ~ IsOpen(r)
  BY ClientIsNotFree DEF Init, IsOpen
<1>4. CurrentOrQueued
  BY <1>3 DEF Init, CurrentOrQueued
<1>5. QED BY <1>1, <1>2, <1>4

\* The types hold, every client that is not closed has its resolver in the list
\* of its name, once, and a client is out of date only while a reconcile of its
\* name is due: any number of clients, names, changes and failed calls, in any
\* order (grpc_resolver.go:47-198).
THEOREM ResolverInvariant == Spec => [](TypeOK /\ Registered /\ CurrentOrQueued)
<1>1. Init => TypeOK /\ Registered /\ CurrentOrQueued
  BY InitInvariants
<1>2. TypeOK /\ Registered /\ CurrentOrQueued /\ [Next]_vars
        => (TypeOK /\ Registered /\ CurrentOrQueued)'
  BY NextType, NextRegistered, NextCurrent
<1>3. QED BY <1>1, <1>2, PTL DEF Spec

\* Close, which moves the last entry of a list into the gap, never takes another
\* client's resolver, and Build never registers one twice (grpc_resolver.go:47,115).
THEOREM ClientsStayRegistered == Spec => []Registered
BY ResolverInvariant, PTL

\* No interleaving of Build, Close, events and failed reconciles leaves a client
\* with old addresses and no reconcile to come (grpc_resolver.go:101-198).
THEOREM StaleClientsAreQueued == Spec => []CurrentOrQueued
BY ResolverInvariant, PTL
=============================================================================

-------------------- MODULE ControllerProcess_proofs --------------------
(***************************************************************************)
(* Proofs about ControllerProcess, for every value of the constants: the   *)
(* types, and that a process with a stream predictor source keeps the      *)
(* promise of PredictorSource over restarts, status updates and deletions. *)
(***************************************************************************)
EXTENDS ControllerProcess, SequenceTheorems, FiniteSetTheorems, TLAPS

USE RepositoryAssumption, CacheAssumption, ProcessAssumption

-----------------------------------------------------------------------------
(* The repository *)

\* The constructors of objects make objects.
LEMMA ObjectType ==
    /\ Absent \in Object
    /\ \A r \in Nat : Tombstone(r) \in Object
    /\ \A r, g \in Nat : \A d \in BOOLEAN : [rv |-> r, gen |-> g, del |-> d] \in Object
    /\ \A o \in Object : \A r \in Nat : \A d \in BOOLEAN : Rewritten(o, r, d) \in Object
    /\ \A o \in Object : \A r \in Nat : /\ Rewritten(o, r, TRUE) \in Object
                                       /\ Rewritten(o, r, FALSE) \in Object
BY DEF Object, Absent, Tombstone, Rewritten

\* A commit of the repository appends an entry of the right type.
LEMMA CommitType ==
    ASSUME RepositoryTypeOK, NEW n \in Names, NEW kind \in {"UPDATE", "DELETE"},
           NEW o \in Object, Commit(n, kind, o)
    PROVE  RepositoryTypeOK'
<1>1. [name |-> n, kind |-> kind, obj |-> o] \in Change
  BY DEF Change
<1>2. log' \in Seq(Change)
  BY <1>1 DEF RepositoryTypeOK, Commit
<1>3. registry' \in [Names -> Object]
  BY ObjectType DEF RepositoryTypeOK, Commit
<1>4. QED BY <1>2, <1>3 DEF RepositoryTypeOK

\* Every step of the repository is a commit of an object with a new version.
LEMMA RepositoryCommits ==
    ASSUME RepositoryTypeOK, RepositoryStep
    PROVE  \E n \in Names, kind \in {"UPDATE", "DELETE"}, o \in Object :
              o.rv = Rev + 1 /\ Commit(n, kind, o)
<1> Rev \in Nat /\ Rev + 1 \in Nat
  BY DEF RepositoryTypeOK, Rev
<1>0. PICK n \in Names : SetPredictor(n) \/ MarkDeleted(n) \/ DeletePredictor(n)
  BY DEF RepositoryStep
<1> registry[n] \in Object /\ registry[n].del \in BOOLEAN
  BY DEF RepositoryTypeOK, Object
<1>1. CASE SetPredictor(n)
  <2> DEFINE o == [rv |-> Rev + 1, gen |-> Rev + 1, del |-> registry[n].del]
  <2>1. o \in Object /\ o.rv = Rev + 1
    BY DEF Object
  <2>2. Commit(n, "UPDATE", o)
    BY <1>1, Zenon DEF SetPredictor
  <2> HIDE DEF o
  <2>3. QED BY <2>1, <2>2
<1>2. ASSUME NEW kind \in {"UPDATE", "DELETE"}, NEW stamped \in BOOLEAN,
             Commit(n, kind, Rewritten(registry[n], Rev + 1, stamped))
      PROVE  \E o \in Object : o.rv = Rev + 1 /\ Commit(n, kind, o)
  <2> DEFINE o == Rewritten(registry[n], Rev + 1, stamped)
  <2>1. o \in Object /\ o.rv = Rev + 1
    BY ObjectType DEF Rewritten
  <2>2. Commit(n, kind, o)
    BY <1>2
  <2> HIDE DEF o
  <2>3. QED BY <2>1, <2>2
<1>3. CASE MarkDeleted(n)
  BY <1>2, <1>3 DEF MarkDeleted
<1>4. CASE DeletePredictor(n)
  BY <1>2, <1>4 DEF DeletePredictor
<1>5. QED BY <1>0, <1>1, <1>3, <1>4

-----------------------------------------------------------------------------
(* Types *)

\* offerToCache (cached_predictor_source.go:236-257) keeps the types of cache
\* and deletion queue.
LEMMA OfferType ==
    ASSUME TypeOK, NEW n \in Names, NEW o \in Object, Offer(n, o)
    PROVE  /\ cache' \in [Names -> Object]
           /\ deletionQueue' \in SUBSET (Names \X Nat)
           /\ panicked' \in BOOLEAN
<1> USE DEF TypeOK, SourceTypeOK
<1>1. o.rv \in Nat
  BY DEF Object
<1>2. CASE ~ Newer(cache[n], o) /\ UNCHANGED cacheVars
  BY <1>2 DEF cacheVars
<1>3. CASE /\ cache' = [cache EXCEPT ![n] = o]
           /\ deletionQueue' \in {deletionQueue, deletionQueue \cup {<<n, o.rv>>}}
           /\ UNCHANGED panicked
  BY <1>1, <1>3
<1>4. CASE panicked' = TRUE /\ UNCHANGED <<cache, deletionQueue>>
  BY <1>4
<1>5. QED
  BY <1>2, <1>3, <1>4 DEF Offer

\* What UpdateStatus records of a call is a call.
LEMMA CallType ==
    ASSUME NEW at \in {"idle", "check", "remote", "apply"}, NEW arg \in Object,
           NEW resp \in Object
    PROVE  CallIn(at, arg, resp, TRUE) \in Calls /\ CallIn(at, arg, resp, FALSE) \in Calls
BY DEF CallIn, Calls

\* A reconcile that is not in UpdateStatus is in a state of its type.
LEMMA IdleType == Idle \in Calls
BY CallType, ObjectType DEF Idle

\* The end of UpdateStatus (cached_predictor_source.go:126-147) keeps the
\* types of calls and work queue.
LEMMA ReturnType ==
    ASSUME TypeOK, NEW n \in Names, NEW ok, Return(n, ok)
    PROVE  call' \in [Names -> Calls] /\ dirty' \in SUBSET Names
BY IdleType DEF TypeOK, SourceTypeOK, Return

\* A reconcile commits its status update, or leaves the repository alone.
LEMMA ReconcileCommits ==
    ASSUME TypeOK, NEW m \in Names, ReconcileStep(m)
    PROVE  \/ UNCHANGED repositoryVars
           \/ \E n \in Names, kind \in {"UPDATE", "DELETE"}, o \in Object :
                 o.rv = Rev + 1 /\ Commit(n, kind, o)
<1> DEFINE o == Rewritten(registry[m], Rev + 1, FALSE)
<1>1. UNCHANGED repositoryVars \/ WriteStatus(m)
  BY DEF ReconcileStep, UpdateStatusCheck, UpdateStatusRemote, UpdateStatusApply
<1>2. registry[m] \in Object /\ Rev + 1 \in Nat
  BY DEF TypeOK, RepositoryTypeOK, Rev
<1>3. o \in Object /\ o.rv = Rev + 1
  BY <1>2, ObjectType DEF Rewritten
<1>4. WriteStatus(m) => Commit(m, "UPDATE", o)
  BY Zenon DEF WriteStatus
<1> HIDE DEF o
<1>5. QED BY <1>1, <1>3, <1>4

\* The steps of main that only move main on leave everything else alone.
LEMMA MainFrame ==
    ASSUME \/ LoadConfig \/ CheckScope \/ Elect \/ SetUp \/ CheckWatches \/ SourcesStarted
           \/ StartManager \/ StartWatchFails \/ ManagerStops \/ OtherReleases
    PROVE  UNCHANGED <<dispatchVars, streamVars, sourceVars, repositoryVars>>
BY DEF LoadConfig, CheckScope, Elect, SetUp, CheckWatches, SourcesStarted, StartManager,
       StartWatchFails, ManagerStops, OtherReleases, Main

\* A new stream starts without touching anything else.
LEMMA RegisterFrame ==
    ASSUME RegisterSource
    PROVE  /\ UNCHANGED <<dispatchVars, sourceVars, repositoryVars, initial, event>>
           /\ pc = "none"
           /\ \/ UNCHANGED streamVars
              \/ pc' = "start" /\ OpenStream
BY DEF RegisterSource, Main, streamVars

\* Every step leaves the repository as it is or is a commit to it.
LEMMA NextCommits ==
    ASSUME TypeOK, [Next]_vars
    PROVE  \/ UNCHANGED repositoryVars
           \/ \E n \in Names, kind \in {"UPDATE", "DELETE"}, o \in Object :
                 o.rv = Rev + 1 /\ Commit(n, kind, o)
<1>1. CASE MainStep \/ StartWatchFails \/ ManagerStops \/ OtherReleases
  BY <1>1, MainFrame, RegisterFrame DEF MainStep
<1>2. CASE Restart
  BY <1>2 DEF Restart
<1>3. CASE DispatchStep
  BY <1>3 DEF DispatchStep, DispatcherTakes, DispatchToPredictors, DispatchToRuntimes,
              PredictorWatch, RuntimeWatch
<1>4. CASE SourceRuns
  BY <1>4 DEF SourceRuns
<1>5. CASE RepositoryChanges
  BY <1>5, RepositoryCommits DEF RepositoryChanges, TypeOK
<1>6. CASE UNCHANGED vars
  BY <1>6 DEF vars
<1>7. QED
  BY <1>1, <1>2, <1>3, <1>4, <1>5, <1>6, ReconcileCommits DEF Next

Extends(l, m) == Len(l) <= Len(m) /\ \A i \in 1..Len(l) : m[i] = l[i]

\* A commit appends its object to the history.
LEMMA CommitExtends ==
    ASSUME RepositoryTypeOK, NEW n \in Names, NEW kind \in {"UPDATE", "DELETE"},
           NEW o \in Object, o.rv = Rev + 1, Commit(n, kind, o)
    PROVE  /\ Extends(log, log') /\ Len(log') = Len(log) + 1 /\ Len(log) \in Nat
           /\ log'[Len(log')] = [name |-> n, kind |-> kind, obj |-> o]
           /\ Logged(log', o)
<1> DEFINE e == [name |-> n, kind |-> kind, obj |-> o]
<1>1. e \in Change /\ e.obj = o
  BY DEF Change
<1>2. log' = Append(log, e)
  BY DEF Commit
<1> HIDE DEF e
<1>3. log \in Seq(Change) /\ Len(log) \in Nat
  BY DEF RepositoryTypeOK
<1>4. Extends(log, log') /\ Len(log') = Len(log) + 1 /\ log'[Len(log')] = e
  BY <1>1, <1>2, <1>3 DEF Extends
<1>5. Logged(log', o)
  BY <1>1, <1>3, <1>4 DEF Logged, Rev
<1>6. QED BY <1>3, <1>4, <1>5 DEF e

\* What is logged stays so.
LEMMA LoggedStable ==
    ASSUME NEW l \in Seq(Change), NEW m \in Seq(Change), Extends(l, m),
           NEW o, Logged(l, o)
    PROVE  Logged(m, o)
BY DEF Logged, Extends

\* The repository keeps its type and only grows; what it holds is logged, and
\* that for finitely many names.
LEMMA NextRepository ==
    ASSUME TypeOK, RegistryFinite, [Next]_vars
    PROVE  /\ RepositoryTypeOK' /\ RegistryFinite' /\ Extends(log, log')
           /\ RegistryLogged => RegistryLogged'
<1>0. RepositoryTypeOK
  BY DEF TypeOK
<1>1. CASE UNCHANGED repositoryVars
  <2>1. UNCHANGED <<log, registry>> /\ Len(log) \in Nat
    BY <1>0, <1>1 DEF repositoryVars, RepositoryTypeOK
  <2>2. Extends(log, log')
    BY <2>1 DEF Extends
  <2>3. RegistryFinite'
    BY <2>1 DEF RegistryFinite
  <2>4. QED BY <1>0, <2>1, <2>2, <2>3 DEF RepositoryTypeOK, RegistryLogged
<1>2. ASSUME NEW n \in Names, NEW kind \in {"UPDATE", "DELETE"}, NEW o \in Object,
             o.rv = Rev + 1, Commit(n, kind, o)
      PROVE  /\ RepositoryTypeOK' /\ RegistryFinite' /\ Extends(log, log')
             /\ RegistryLogged => RegistryLogged'
  <2>1. RepositoryTypeOK'
    BY <1>0, <1>2, CommitType
  <2>2. Extends(log, log') /\ Logged(log', o)
    BY <1>0, <1>2, CommitExtends
  <2>3. \A m \in Names : \/ registry'[m] = registry[m]
                         \/ m = n /\ registry'[m] = o
                         \/ registry'[m] = Absent
    BY <1>0, <1>2 DEF Commit, RepositoryTypeOK
  <2>4. ~ Present(Absent)
    BY DEF Present, Absent
  <2>5. RegistryFinite'
    <3> DEFINE S == {m \in Names : Present(registry[m])}
               T == {m \in Names : Present(registry'[m])}
    <3>1. IsFiniteSet(S \cup {n})
      BY FS_AddElement DEF RegistryFinite
    <3>2. T \in SUBSET (S \cup {n})
      BY <2>3, <2>4
    <3>3. IsFiniteSet(T)
      BY <3>1, <3>2, FS_Subset
    <3>4. QED BY <3>3 DEF RegistryFinite
  <2>6. ASSUME RegistryLogged PROVE RegistryLogged'
    <3>1. \A m \in Names : Present(registry[m]) => Logged(log', registry[m])
      BY <1>0, <2>1, <2>2, <2>6, LoggedStable DEF RegistryLogged, RepositoryTypeOK
    <3>2. QED BY <2>2, <2>3, <2>4, <3>1 DEF RegistryLogged
  <2>7. QED BY <2>1, <2>2, <2>5, <2>6
<1>3. QED BY <1>1, <1>2, NextCommits

\* What can happen to the stream: changes are sent to it and taken from it, and
\* it is opened and lost with the process.
LEMMA StreamCases ==
    ASSUME TypeOK, [Next]_vars
    PROVE  \/ inChan' = inChan
           \/ inChan # << >> /\ inChan' = Tail(inChan)
           \/ OpenStream /\ UNCHANGED repositoryVars
           \/ log' # log /\ inChan' = Append(inChan, log'[Len(log')])
           \/ inChan' = << >>
<1>1. CASE MainStep \/ StartWatchFails \/ ManagerStops \/ OtherReleases
  BY <1>1, MainFrame, RegisterFrame DEF MainStep, streamVars
<1>2. CASE Restart
  BY <1>2 DEF Restart
<1>3. CASE DispatchStep
  BY <1>3 DEF DispatchStep, DispatcherTakes, DispatchToPredictors, DispatchToRuntimes,
              PredictorWatch, RuntimeWatch, streamVars
<1>4. CASE SourceRuns
  BY <1>4 DEF SourceRuns, SourceStep, InitialEvent, InitialQuiet, SendInitial, ReadEvent,
              ReadNothing, WriteEvent, WriteBlocks, streamVars
<1>5. ASSUME NEW n \in Names, ReconcileStep(n)
      PROVE  \/ inChan' = inChan
             \/ log' # log /\ inChan' = Append(inChan, log'[Len(log')])
  BY <1>5 DEF ReconcileStep, Sent
<1>6. CASE RepositoryChanges
  <2>1. PICK n \in Names, kind \in {"UPDATE", "DELETE"}, o \in Object :
                o.rv = Rev + 1 /\ Commit(n, kind, o)
    BY <1>6, RepositoryCommits DEF RepositoryChanges, TypeOK
  <2>2. Len(log') = Len(log) + 1 /\ Len(log) \in Nat
    BY <2>1, CommitExtends DEF TypeOK
  <2>3. log' # log
    BY <2>2
  <2>4. QED BY <1>6, <2>3 DEF RepositoryChanges, Sent
<1>7. CASE UNCHANGED vars
  BY <1>7 DEF vars, streamVars
<1>8. QED
  BY <1>1, <1>2, <1>3, <1>4, <1>5, <1>6, <1>7 DEF Next

\* A new stream sends what the repository holds.
LEMMA OpenStreamSends ==
    ASSUME TypeOK, RegistryFinite, OpenStream
    PROVE  /\ inChan' \in Seq(Change)
           /\ \A i \in DOMAIN inChan' : \E n \in Names :
                 Present(registry[n]) /\ inChan'[i].obj = registry[n]
<1> DEFINE there == {n \in Names : Present(registry[n])}
<1>1. Cardinality(there) \in Nat
  BY FS_CardinalityType DEF RegistryFinite
<1>2. PICK order \in [1 .. Cardinality(there) -> there] :
          inChan' = [i \in DOMAIN order |->
                       [name |-> order[i], kind |-> "UPDATE", obj |-> registry[order[i]]]]
  BY DEF OpenStream
<1> DEFINE k == Cardinality(there)
<1>3. /\ DOMAIN order = 1..k /\ k \in Nat
      /\ \A i \in 1..k : order[i] \in Names /\ Present(registry[order[i]])
  BY <1>1, <1>2
<1> HIDE DEF k, there
<1>4. \A i \in 1..k : inChan'[i] = [name |-> order[i], kind |-> "UPDATE", obj |-> registry[order[i]]]
  BY <1>2, <1>3
<1>5. \A i \in 1..k : registry[order[i]] \in Object
  BY <1>3 DEF TypeOK, RepositoryTypeOK
<1>6. \A i \in 1..k : inChan'[i] \in Change /\ inChan'[i].obj = registry[order[i]]
  <2>1. \A n \in Names, o \in Object :
           /\ [name |-> n, kind |-> "UPDATE", obj |-> o] \in Change
           /\ [name |-> n, kind |-> "UPDATE", obj |-> o].obj = o
    BY DEF Change
  <2>2. SUFFICES ASSUME NEW i \in 1..k
                 PROVE  inChan'[i] \in Change /\ inChan'[i].obj = registry[order[i]]
    OBVIOUS
  <2>3. order[i] \in Names /\ registry[order[i]] \in Object
    BY <1>3, <1>5
  <2>4. inChan'[i] = [name |-> order[i], kind |-> "UPDATE", obj |-> registry[order[i]]]
    BY <1>4
  <2>5. QED BY <2>1, <2>3, <2>4, Zenon
<1>7. DOMAIN inChan' = 1..k /\ inChan' = [i \in 1..k |-> inChan'[i]]
  BY <1>2, <1>3
<1>8. inChan' \in [1..k -> Change]
  BY <1>6, <1>7
<1>9. inChan' \in Seq(Change)
  BY <1>3, <1>8, SeqDef
<1>10. QED BY <1>3, <1>6, <1>7, <1>9

\* The stream keeps its type, and carries what was committed.
LEMMA NextStream ==
    ASSUME TypeOK, RegistryFinite, [Next]_vars
    PROVE  /\ inChan' \in Seq(Change)
           /\ RegistryLogged /\ StreamLogged => StreamLogged'
<1>0. /\ inChan \in Seq(Change) /\ log \in Seq(Change) /\ log' \in Seq(Change)
      /\ Extends(log, log')
  BY NextRepository DEF TypeOK, StreamTypeOK, RepositoryTypeOK
<1>a. ASSUME NEW o, Logged(log, o) PROVE Logged(log', o)
  BY <1>0, <1>a, LoggedStable
<1>1. CASE inChan' = inChan
  BY <1>0, <1>1, <1>a DEF StreamLogged
<1>2. CASE inChan # << >> /\ inChan' = Tail(inChan)
  <2>1. /\ inChan' \in Seq(Change) /\ DOMAIN inChan' = 1..(Len(inChan) - 1)
        /\ \A i \in 1..(Len(inChan) - 1) : inChan'[i] = inChan[i + 1] /\ i + 1 \in DOMAIN inChan
    BY <1>0, <1>2
  <2>2. QED BY <2>1, <1>a DEF StreamLogged
<1>3. CASE OpenStream /\ UNCHANGED repositoryVars
  BY <1>3, <1>a, OpenStreamSends DEF RegistryLogged, StreamLogged
<1>4. CASE log' # log /\ inChan' = Append(inChan, log'[Len(log')])
  <2>1. PICK n \in Names, kind \in {"UPDATE", "DELETE"}, o \in Object :
                o.rv = Rev + 1 /\ Commit(n, kind, o)
    BY <1>4, NextCommits DEF repositoryVars
  <2> DEFINE e == [name |-> n, kind |-> kind, obj |-> o]
  <2>2. log'[Len(log')] = e /\ Logged(log', o)
    BY <2>1, CommitExtends DEF TypeOK
  <2>3. e \in Change /\ e.obj = o
    BY DEF Change
  <2> HIDE DEF e
  <2>4. /\ inChan' \in Seq(Change) /\ DOMAIN inChan' = 1..(Len(inChan) + 1)
        /\ inChan'[Len(inChan) + 1] = e /\ Len(inChan) \in Nat
        /\ \A i \in 1..Len(inChan) : inChan'[i] = inChan[i] /\ i \in DOMAIN inChan
    BY <1>0, <1>4, <2>2, <2>3
  <2>5. \A i \in DOMAIN inChan' : i \in 1..Len(inChan) \/ i = Len(inChan) + 1
    BY <2>4
  <2>6. StreamLogged => StreamLogged'
    BY <1>a, <2>2, <2>3, <2>4, <2>5 DEF StreamLogged
  <2>7. QED BY <2>4, <2>6
<1>5. CASE inChan' = << >>
  BY <1>5 DEF StreamLogged
<1>6. QED BY <1>1, <1>2, <1>3, <1>4, <1>5, StreamCases

\* The variables of main keep their types.
LEMMA NextMain ==
    ASSUME TypeOK, [Next]_vars
    PROVE  /\ env' = env
           /\ phase' \in {"config", "scope", "election", "setup", "watches", "sources",
                          "manager", "running", "exited"}
           /\ leader' \in {"none", "this", "other"} /\ restarts' \in Nat
           /\ registryMap' \subseteq {"ksp", "isvc", env.sourceId}
<1> USE DEF TypeOK, Main, Check
<1>1. CASE LoadConfig \/ CheckScope \/ Elect \/ SetUp
  BY <1>1 DEF LoadConfig, CheckScope, Elect, SetUp
<1>2. CASE CheckWatches
  BY <1>2 DEF CheckWatches
<1>3. CASE RegisterSource
  BY <1>3 DEF RegisterSource
<1>4. CASE SourcesStarted \/ StartManager
  BY <1>4 DEF SourcesStarted, StartManager
<1>5. CASE StartWatchFails \/ ManagerStops \/ OtherReleases
  BY <1>5 DEF StartWatchFails, ManagerStops, OtherReleases
<1>6. CASE Restart
  BY <1>6 DEF Restart
<1>7. CASE UNCHANGED mainVars
  BY <1>7 DEF mainVars
<1>8. CASE DispatchStep
  BY <1>7, <1>8 DEF DispatchStep, DispatcherTakes, DispatchToPredictors, DispatchToRuntimes,
                    PredictorWatch, RuntimeWatch
<1>9. QED
  BY <1>1, <1>2, <1>3, <1>4, <1>5, <1>6, <1>7, <1>8
     DEF Next, MainStep, ReconcileStep, SourceRuns, RepositoryChanges, vars

Blanks == [i \in 1 .. Cap |-> NoName]

\* The blank events that the overflow begins with.
LEMMA BlankType == Blanks \in Seq(Names \cup {NoName})
<1>1. Blanks \in [1..Cap -> Names \cup {NoName}] /\ Cap \in Nat
  BY DEF Blanks
<1>2. QED BY <1>1, SeqDef

\* The goroutine of the source (stream_predictor_source.go:39-90) keeps the
\* types.
LEMMA SourceType ==
    ASSUME TypeOK, SourceRuns
    PROVE  /\ SourceTypeOK' /\ Len(outChan') <= Cap
           /\ pc' \in {"none", "start", "initial", "read", "write"}
           /\ initial' \in Seq(Names \cup {NoName}) /\ event' \in Names \cup {NoName}
<1> DEFINE E == Names \cup {NoName}
<1>0. /\ outChan \in Seq(E) /\ initial \in Seq(E) /\ event \in E /\ Len(outChan) <= Cap
      /\ pc \in {"none", "start", "initial", "read", "write"} /\ inChan \in Seq(Change)
      /\ lockHeld \in BOOLEAN /\ Len(outChan) \in Nat
  BY DEF TypeOK, SourceTypeOK, StreamTypeOK
<1>a. UNCHANGED <<call, dirty, observed>>
  BY DEF SourceRuns, workVars
<1>b. \A q \in Seq(E) : \A x \in E : Append(q, x) \in Seq(E) /\ Len(Append(q, x)) = Len(q) + 1
  OBVIOUS
<1>c. ASSUME inChan # << >>, ProcessEvent(Head(inChan)), outChan' \in Seq(E)
      PROVE  SourceTypeOK' /\ Head(inChan).name \in E
  <2>1. Head(inChan) \in Change
    BY <1>0, <1>c
  <2>2. Head(inChan).name \in Names /\ Head(inChan).obj \in Object
    BY <2>1 DEF Change
  <2>3. /\ cache' \in [Names -> Object]
        /\ deletionQueue' \in SUBSET (Names \X Nat)
        /\ panicked' \in BOOLEAN
    BY <1>c, <2>2, OfferType DEF ProcessEvent
  <2>4. QED
    BY <1>a, <1>c, <2>2, <2>3 DEF SourceTypeOK, TypeOK, ProcessEvent
<1>d. ASSUME UNCHANGED cacheVars, lockHeld' \in BOOLEAN, outChan' \in Seq(E)
      PROVE  SourceTypeOK'
  BY <1>a, <1>d DEF SourceTypeOK, TypeOK, cacheVars
<1>1. CASE InitialEvent
  <2>1. Head(inChan).name \in E
    <3>1. Head(inChan) \in Change
      BY <1>0, <1>1 DEF InitialEvent
    <3>2. QED BY <3>1 DEF Change
  <2>2. /\ UNCHANGED <<pc, event>> /\ inChan # << >> /\ ProcessEvent(Head(inChan))
        /\ \/ outChan' = outChan
           \/ Len(outChan) < Cap /\ outChan' = Append(outChan, Head(inChan).name)
        /\ \/ initial' = initial
           \/ initial' = Append(Blanks, Head(inChan).name)
           \/ initial' = Append(initial, Head(inChan).name)
    BY <1>1 DEF InitialEvent, Blanks
  <2>3. /\ outChan' \in Seq(E)
        /\ outChan' = outChan \/ (Len(outChan) < Cap /\ Len(outChan') = Len(outChan) + 1)
    BY <1>0, <1>b, <2>1, <2>2, Zenon
  <2>4. Len(outChan') <= Cap
    BY <1>0, <2>3
  <2>5. initial' \in Seq(E)
    BY <1>0, <1>b, <2>1, <2>2, BlankType, Zenon
  <2>6. QED BY <1>0, <1>c, <2>2, <2>3, <2>4, <2>5
<1>2. CASE InitialQuiet
  BY <1>0, <1>2, <1>d DEF InitialQuiet
<1>3. CASE SendInitial
  <2>1. CASE initial = << >>
    BY <1>0, <1>3, <1>d, <2>1 DEF SendInitial
  <2>2. CASE initial # << >>
    <3>1. /\ Len(outChan) < Cap /\ outChan' = Append(outChan, Head(initial))
          /\ initial' = Tail(initial) /\ UNCHANGED <<pc, event, cacheVars, lockHeld>>
      BY <1>3, <2>2 DEF SendInitial
    <3>2. Head(initial) \in E /\ initial' \in Seq(E)
      BY <1>0, <2>2, <3>1
    <3>3. outChan' \in Seq(E) /\ Len(outChan') <= Cap
      BY <1>0, <1>b, <3>1, <3>2
    <3>4. QED BY <1>0, <1>d, <3>1, <3>2, <3>3
  <2>3. QED BY <2>1, <2>2
<1>4. CASE ReadEvent
  BY <1>0, <1>4, <1>c DEF ReadEvent
<1>5. CASE ReadNothing
  <2>1. cache' \in [Names -> Object] /\ deletionQueue' \in SUBSET (Names \X Nat)
    BY <1>5, ObjectType DEF ReadNothing, PruneDeletions, PopExpired, TypeOK, SourceTypeOK
  <2>2. SourceTypeOK'
    BY <1>5, <1>a, <2>1 DEF ReadNothing, PruneDeletions, TypeOK, SourceTypeOK
  <2>3. QED BY <1>0, <1>5, <2>2 DEF ReadNothing, streamVars
<1>6. CASE WriteEvent
  <2>1. outChan' \in Seq(E) /\ Len(outChan') <= Cap
    BY <1>0, <1>6, <1>b DEF WriteEvent
  <2>2. QED BY <1>0, <1>6, <1>d, <2>1 DEF WriteEvent
<1>7. CASE WriteBlocks
  BY <1>0, <1>7, <1>d DEF WriteBlocks, streamVars
<1>8. QED
  BY <1>1, <1>2, <1>3, <1>4, <1>5, <1>6, <1>7 DEF SourceRuns, SourceStep

\* A reconcile with its status update keeps the types of what it works on.
LEMMA ReconcileType ==
    ASSUME TypeOK, NEW n \in Names, ReconcileStep(n)
    PROVE  SourceTypeOK' /\ UNCHANGED outChan
<1> USE DEF TypeOK, SourceTypeOK
<1>a. \A m \in Names : Get(m) \in Object
  BY ObjectType DEF Get
<1>b. call \in [Names -> Calls] /\ dirty \in SUBSET Names
  OBVIOUS
<1>2. CASE Reconcile(n)
  <2>1. observed' \in [Names -> Nat] /\ dirty' \in SUBSET Names
    BY <1>2, <1>a DEF Reconcile, Object
  <2>2. call' \in [Names -> Calls]
    <3>1. CallIn("check", Get(n), Absent, FALSE) \in Calls
      BY <1>a, CallType, ObjectType
    <3>2. QED BY <1>2, <3>1 DEF Reconcile
  <2>3. QED BY <1>2, <2>1, <2>2 DEF Reconcile, cacheVars
<1>3. CASE UpdateStatusCheck(n)
  <2>1. call[n].arg \in Object
    BY DEF Calls
  <2>2. call' \in [Names -> Calls] /\ dirty' \in SUBSET Names
    <3>1. CallIn("remote", call[n].arg, Absent, FALSE) \in Calls
      BY <2>1, CallType, ObjectType
    <3>2. CASE Return(n, FALSE)
      BY <3>2, ReturnType
    <3>3. \/ Return(n, FALSE)
          \/ /\ call' = [call EXCEPT ![n] = CallIn("remote", call[n].arg, Absent, FALSE)]
             /\ UNCHANGED dirty
      BY <1>3 DEF UpdateStatusCheck
    <3> HIDE DEF TypeOK, SourceTypeOK
    <3>4. QED BY <1>b, <3>1, <3>2, <3>3
  <2>3. QED BY <1>3, <2>2 DEF UpdateStatusCheck, cacheVars
<1>4. CASE UpdateStatusRemote(n)
  <2>1. call[n].arg \in Object /\ registry[n] \in Object /\ Rev \in Nat /\ Rev + 1 \in Nat
    BY DEF Calls, RepositoryTypeOK, Rev
  <2>2. Rewritten(registry[n], Rev + 1, FALSE) \in Object /\ Tombstone(Rev) \in Object
    BY <2>1, ObjectType
  <2>3. call' \in [Names -> Calls] /\ dirty' \in SUBSET Names
    <3>1. /\ CallIn("apply", call[n].arg, Rewritten(registry[n], Rev + 1, FALSE), TRUE) \in Calls
          /\ CallIn("apply", call[n].arg, registry[n], FALSE) \in Calls
          /\ CallIn("apply", call[n].arg, Tombstone(Rev), FALSE) \in Calls
      BY <2>1, <2>2, CallType
    <3>2. CASE Return(n, FALSE)
      BY <3>2, ReturnType
    <3>3. \/ Return(n, FALSE)
          \/ /\ UNCHANGED dirty
             /\ \E c \in Calls : call' = [call EXCEPT ![n] = c]
      BY <1>4, <3>1 DEF UpdateStatusRemote
    <3> HIDE DEF TypeOK, SourceTypeOK
    <3>4. QED BY <1>b, <3>2, <3>3
  <2>4. QED BY <1>4, <2>3 DEF UpdateStatusRemote, cacheVars
<1>5. CASE UpdateStatusApply(n)
  <2>1. call[n].resp \in Object
    BY DEF Calls
  <2>2. /\ cache' \in [Names -> Object]
        /\ deletionQueue' \in SUBSET (Names \X Nat)
        /\ panicked' \in BOOLEAN
    BY <1>5, <2>1, OfferType DEF UpdateStatusApply
  <2>3. call' \in [Names -> Calls] /\ dirty' \in SUBSET Names
    BY <1>5, ReturnType DEF UpdateStatusApply
  <2>4. QED BY <1>5, <2>2, <2>3 DEF UpdateStatusApply
<1>6. QED
  BY <1>2, <1>3, <1>4, <1>5 DEF ReconcileStep

\* The dispatcher and the watches (main.go:424-440) keep the types of the
\* channels, and within their capacity.
LEMMA DispatchType ==
    ASSUME TypeOK, DispatchStep
    PROVE  /\ SourceTypeOK' /\ Len(outChan') <= Cap
           /\ dispatcher' \in [event : Names \cup {NoName}, to : {"none", "predictor", "runtime"}]
           /\ predictorEvents' \in Seq(Names \cup {NoName}) /\ Len(predictorEvents') <= ChannelCap
           /\ runtimeEvents' \in Seq(Names \cup {NoName}) /\ Len(runtimeEvents') <= ChannelCap
<1> DEFINE E == Names \cup {NoName}
           D == [event : E, to : {"none", "predictor", "runtime"}]
<1>0. /\ outChan \in Seq(E) /\ Len(outChan) <= Cap /\ Len(outChan) \in Nat
      /\ predictorEvents \in Seq(E) /\ Len(predictorEvents) <= ChannelCap
      /\ runtimeEvents \in Seq(E) /\ Len(runtimeEvents) <= ChannelCap
      /\ Len(predictorEvents) \in Nat /\ Len(runtimeEvents) \in Nat
      /\ dispatcher \in D /\ dispatcher.event \in E /\ dirty \in SUBSET Names
      /\ Cap \in Nat /\ ChannelCap \in Nat
  BY DEF TypeOK, SourceTypeOK
<1>a. \A q \in Seq(E) : \A x \in E : Append(q, x) \in Seq(E) /\ Len(Append(q, x)) = Len(q) + 1
  OBVIOUS
<1>b. \A q \in Seq(E) : q # << >> => Tail(q) \in Seq(E) /\ Head(q) \in E /\ Len(Tail(q)) = Len(q) - 1
  OBVIOUS
<1>c. NoEvent \in D
  BY DEF NoEvent
<1>d. ASSUME UNCHANGED <<cacheVars, lockHeld, call, observed>>, outChan' \in Seq(E),
             dirty' \in SUBSET Names
      PROVE  SourceTypeOK'
  BY <1>d DEF SourceTypeOK, TypeOK, cacheVars
<1>e. \A x \in E : [event |-> x, to |-> "predictor"] \in D
  OBVIOUS
<1>f. [dispatcher EXCEPT !.to = "runtime"] \in D
  BY <1>0
<1> HIDE DEF D
<1>1. CASE DispatcherTakes
  <2>1. outChan' \in Seq(E) /\ Len(outChan') <= Cap /\ dispatcher' \in D
    BY <1>0, <1>1, <1>b, <1>e DEF DispatcherTakes
  <2>2. QED BY <1>0, <1>1, <1>d, <2>1 DEF DispatcherTakes, workVars, D
<1>2. CASE DispatchToPredictors
  <2>1. /\ dispatcher' \in D /\ predictorEvents' \in Seq(E) /\ Len(predictorEvents') <= ChannelCap
    BY <1>0, <1>2, <1>a, <1>f DEF DispatchToPredictors
  <2>2. QED BY <1>0, <1>2, <1>d, <2>1 DEF DispatchToPredictors, sourceVars, workVars, D
<1>3. CASE DispatchToRuntimes
  <2>1. /\ dispatcher' \in D /\ runtimeEvents' \in Seq(E) /\ Len(runtimeEvents') <= ChannelCap
    BY <1>0, <1>3, <1>a, <1>c DEF DispatchToRuntimes
  <2>2. QED BY <1>0, <1>3, <1>d, <2>1 DEF DispatchToRuntimes, sourceVars, workVars, D
<1>4. CASE PredictorWatch
  <2>1. predictorEvents' \in Seq(E) /\ Len(predictorEvents') <= ChannelCap
    BY <1>0, <1>4, <1>b DEF PredictorWatch
  <2>2. dirty' \in SUBSET Names
    BY <1>0, <1>4 DEF PredictorWatch
  <2>3. QED BY <1>0, <1>4, <1>d, <2>1, <2>2 DEF PredictorWatch, D
<1>5. CASE RuntimeWatch
  <2>1. runtimeEvents' \in Seq(E) /\ Len(runtimeEvents') <= ChannelCap
    BY <1>0, <1>5, <1>b DEF RuntimeWatch
  <2>2. QED BY <1>0, <1>5, <1>d, <2>1 DEF RuntimeWatch, sourceVars, workVars, D
<1>6. QED
  BY <1>1, <1>2, <1>3, <1>4, <1>5 DEF DispatchStep

\* Every step keeps the types.
LEMMA NextType == TypeOK /\ RegistryFinite /\ [Next]_vars => TypeOK' /\ RegistryFinite'
<1> SUFFICES ASSUME TypeOK, RegistryFinite, [Next]_vars PROVE TypeOK' /\ RegistryFinite'
  OBVIOUS
<1> DEFINE Stream == /\ pc' \in {"none", "start", "initial", "read", "write"}
                     /\ initial' \in Seq(Names \cup {NoName}) /\ event' \in Names \cup {NoName}
           Source == SourceTypeOK' /\ Len(outChan') <= Cap
           Dispatched ==
             /\ dispatcher' \in [event : Names \cup {NoName}, to : {"none", "predictor", "runtime"}]
             /\ predictorEvents' \in Seq(Names \cup {NoName}) /\ Len(predictorEvents') <= ChannelCap
             /\ runtimeEvents' \in Seq(Names \cup {NoName}) /\ Len(runtimeEvents') <= ChannelCap
<1>d. RepositoryTypeOK' /\ RegistryFinite' /\ inChan' \in Seq(Change)
  BY NextRepository, NextStream
<1>e. env' \in Environments
  BY NextMain DEF TypeOK
<1>f. SUFFICES Stream /\ Source /\ Dispatched
  BY <1>d, <1>e, NextMain DEF TypeOK, StreamTypeOK
<1>a. ASSUME UNCHANGED <<pc, initial, event>> PROVE Stream
  BY <1>a DEF TypeOK, StreamTypeOK
<1>b. ASSUME UNCHANGED sourceVars PROVE Source
  BY <1>b DEF TypeOK, SourceTypeOK, sourceVars, cacheVars, workVars
<1>c. ASSUME UNCHANGED dispatchVars PROVE Dispatched
  BY <1>c DEF TypeOK, dispatchVars
<1>1. CASE UNCHANGED <<dispatchVars, streamVars, sourceVars>>
  BY <1>1, <1>a, <1>b, <1>c DEF streamVars
<1>2. CASE RegisterSource
  <2>1. Stream
    BY <1>2, <1>a, RegisterFrame DEF streamVars, TypeOK, StreamTypeOK
  <2>2. QED BY <1>2, <1>b, <1>c, <2>1, RegisterFrame
<1>3. CASE Restart
  <2>1. Stream
    BY <1>3 DEF Restart
  <2>2. Source
    <3>1. call' \in [Names -> Calls] /\ cache' \in [Names -> Object]
      BY <1>3, IdleType, ObjectType DEF Restart
    <3>2. /\ outChan' \in Seq(Names \cup {NoName}) /\ Len(outChan') <= Cap
          /\ observed' \in [Names -> Nat]
      BY <1>3 DEF Restart
    <3>3. deletionQueue' \in SUBSET (Names \X Nat) /\ dirty' \in SUBSET Names
      BY <1>3 DEF Restart
    <3>4. lockHeld' \in BOOLEAN /\ panicked' \in BOOLEAN
      BY <1>3 DEF Restart
    <3>5. QED BY <3>1, <3>2, <3>3, <3>4 DEF SourceTypeOK
  <2>3. Dispatched
    BY <1>3 DEF Restart, NoEvent
  <2>4. QED BY <2>1, <2>2, <2>3
<1>4. CASE DispatchStep
  <2>1. UNCHANGED streamVars
    BY <1>4 DEF DispatchStep, DispatcherTakes, DispatchToPredictors, DispatchToRuntimes,
                PredictorWatch, RuntimeWatch
  <2>2. QED BY <1>4, <1>a, <2>1, DispatchType DEF streamVars
<1>5. ASSUME NEW n \in Names, ReconcileStep(n)
      PROVE  Stream /\ Source /\ Dispatched
  <2>1. UNCHANGED <<pc, initial, event, dispatchVars>>
    BY <1>5 DEF ReconcileStep
  <2>2. Source
    BY <1>5, ReconcileType DEF TypeOK
  <2>3. QED BY <1>a, <1>c, <2>1, <2>2
<1>6. CASE SourceRuns
  BY <1>6, <1>c, SourceType DEF SourceRuns
<1>7. CASE RepositoryChanges
  BY <1>7, <1>a, <1>b, <1>c DEF RepositoryChanges
<1>8. CASE MainStep \/ StartWatchFails \/ ManagerStops \/ OtherReleases
  BY <1>1, <1>2, <1>8, MainFrame DEF MainStep
<1>9. CASE UNCHANGED vars
  BY <1>1, <1>9 DEF vars
<1> HIDE DEF Stream, Source, Dispatched
<1>10. QED
  BY <1>3, <1>4, <1>5, <1>6, <1>7, <1>8, <1>9 DEF Next

\* The types hold when the process starts.
LEMMA InitType == Init => TypeOK /\ RegistryFinite
<1> SUFFICES ASSUME Init PROVE TypeOK /\ RegistryFinite
  OBVIOUS
<1>1. RepositoryTypeOK
  BY ObjectType DEF Init, RepositoryInit, RepositoryTypeOK
<1>2. SourceTypeOK /\ Len(outChan) <= Cap
  <2>1. call \in [Names -> Calls] /\ cache \in [Names -> Object]
    BY IdleType, ObjectType DEF Init, SourceInit
  <2>2. outChan \in Seq(Names \cup {NoName}) /\ Len(outChan) <= Cap /\ observed \in [Names -> Nat]
    BY DEF Init, SourceInit
  <2>3. deletionQueue \in SUBSET (Names \X Nat) /\ dirty \in SUBSET Names
    BY DEF Init, SourceInit
  <2>4. lockHeld \in BOOLEAN /\ panicked \in BOOLEAN
    BY DEF Init, SourceInit
  <2>5. QED BY <2>1, <2>2, <2>3, <2>4 DEF SourceTypeOK
<1>3. StreamTypeOK
  BY DEF Init, StreamInit, StreamTypeOK
<1>4. /\ dispatcher \in [event : Names \cup {NoName}, to : {"none", "predictor", "runtime"}]
      /\ predictorEvents \in Seq(Names \cup {NoName}) /\ Len(predictorEvents) <= ChannelCap
      /\ runtimeEvents \in Seq(Names \cup {NoName}) /\ Len(runtimeEvents) <= ChannelCap
  BY DEF Init, NoEvent
<1>5. /\ env \in Environments /\ phase = "config" /\ leader \in {"none", "this", "other"}
      /\ restarts \in Nat /\ registryMap = {}
  BY DEF Init
<1>6. RegistryFinite
  <2>1. {n \in Names : Present(registry[n])} = {}
    BY DEF Init, RepositoryInit, Present, Absent
  <2>2. QED BY <2>1, FS_EmptySet DEF RegistryFinite
<1>7. QED BY <1>1, <1>2, <1>3, <1>4, <1>5, <1>6 DEF TypeOK

(***************************************************************************)
(* Type correctness of main, the dispatcher, the source, the repository    *)
(* and the reconciles, and that the channels keep within their capacity.   *)
(***************************************************************************)
THEOREM TypeCorrect == Spec => [](TypeOK /\ RegistryFinite)
BY InitType, NextType, PTL DEF Spec

-----------------------------------------------------------------------------
(* What the cache, the stream and the status updates hold *)

\* What Get answers (cached_predictor_source.go:108).
LEMMA GetIs ==
    /\ \A n : Get(n) = IF Present(cache[n]) /\ ~ cache[n].del THEN cache[n] ELSE Absent
    /\ \A n : Get(n)' = IF Present(cache'[n]) /\ ~ cache'[n].del THEN cache'[n] ELSE Absent
    /\ ~ Present(Absent) /\ Absent.gen = 0
BY DEF Get, Absent, Present

\* An offer of what was committed, or is deleted, replaces an entry by a newer
\* one and queues no other tombstone (cached_predictor_source.go:236-257).
LEMMA OfferKeeps ==
    ASSUME TypeOK, CacheLogged, QueuedAreTombstones, NEW n \in Names, NEW o \in Object,
           ~ o.del => Logged(log, o), Offer(n, o), UNCHANGED log
    PROVE  CacheLogged' /\ QueuedAreTombstones'
<1>1. /\ cache \in [Names -> Object] /\ o.rv \in Nat /\ \A m \in Names : cache[m].rv \in Nat
      /\ deletionQueue \in SUBSET (Names \X Nat)
  BY DEF TypeOK, SourceTypeOK, Object
<1>2. CASE UNCHANGED <<cache, deletionQueue>>
  <2>1. CacheLogged'
    BY <1>2, GetIs DEF CacheLogged
  <2>2. QED BY <1>2, <2>1 DEF QueuedAreTombstones
<1>3. CASE /\ Newer(cache[n], o)
           /\ cache' = [cache EXCEPT ![n] = o]
           /\ deletionQueue' = IF o.del /\ ~ cache[n].del
                                 THEN deletionQueue \cup {<<n, o.rv>>}
                                 ELSE deletionQueue
  <2>1. /\ cache'[n] = o /\ \A m \in Names : m # n => cache'[m] = cache[m]
        /\ o.rv > cache[n].rv
    BY <1>1, <1>3 DEF Newer
  <2>2. CacheLogged'
    BY <2>1, GetIs DEF CacheLogged
  <2>3. ASSUME NEW e \in deletionQueue
        PROVE  e[2] <= cache'[e[1]].rv /\ (e[2] = cache'[e[1]].rv => cache'[e[1]].del)
    <3>1. e[1] \in Names /\ e[2] \in Nat /\ e[2] <= cache[e[1]].rv
          /\ (e[2] = cache[e[1]].rv => cache[e[1]].del)
      BY <1>1 DEF QueuedAreTombstones
    <3>2. QED BY <1>1, <2>1, <3>1
  <2>4. ASSUME NEW e \in deletionQueue', e \notin deletionQueue
        PROVE  e[2] <= cache'[e[1]].rv /\ (e[2] = cache'[e[1]].rv => cache'[e[1]].del)
    <3>1. e = <<n, o.rv>> /\ o.del
      BY <1>3, <2>4
    <3>2. QED BY <1>1, <2>1, <3>1
  <2>5. QED BY <2>2, <2>3, <2>4 DEF QueuedAreTombstones
<1>4. QED
  BY <1>2, <1>3 DEF Offer, cacheVars

\* A change taken from the stream has a name, and an object that was committed.
LEMMA HeadLogged ==
    ASSUME TypeOK, StreamLogged, inChan # << >>
    PROVE  /\ Head(inChan).name \in Names /\ Head(inChan).obj \in Object
           /\ Logged(log, Head(inChan).obj)
<1>1. inChan \in Seq(Change)
  BY DEF TypeOK, StreamTypeOK
<1>2. Head(inChan) \in Change /\ Head(inChan) = inChan[1] /\ 1 \in DOMAIN inChan
  BY <1>1
<1>3. QED BY <1>2 DEF Change, StreamLogged

\* Pruning takes away what is deleted, and no other entry
\* (cached_predictor_source.go:212-227).
LEMMA PruneKeeps ==
    ASSUME TypeOK, QueuedAreTombstones, PruneDeletions
    PROVE  /\ \A n \in Names : Get(n)' = Get(n)
           /\ deletionQueue' = {}
<1>1. deletionQueue' = {}
  BY DEF PruneDeletions, PopExpired
<1>2. ASSUME NEW n \in Names PROVE Get(n)' = Get(n)
  <2>1. cache'[n] = IF <<n, cache[n].rv>> \in deletionQueue THEN Absent ELSE cache[n]
    BY DEF PruneDeletions, PopExpired
  <2>2. CASE <<n, cache[n].rv>> \in deletionQueue
    <3>1. cache[n].del
      BY <2>2 DEF QueuedAreTombstones
    <3>2. QED BY <2>1, <2>2, <3>1, GetIs
  <2>3. CASE <<n, cache[n].rv>> \notin deletionQueue
    BY <2>1, <2>3, GetIs
  <2>4. QED BY <2>2, <2>3
<1>3. QED BY <1>1, <1>2

\* Every step keeps what is known of the cache and its deletion queue.
LEMMA NextCache ==
    ASSUME TypeOK, TypeOK', RegistryFinite, CacheLogged, StreamLogged, AnswersLogged,
           QueuedAreTombstones, [Next]_vars
    PROVE  CacheLogged' /\ QueuedAreTombstones'
<1>0. ASSUME NEW o, Logged(log, o) PROVE Logged(log', o)
  BY <1>0, NextRepository, LoggedStable DEF TypeOK, RepositoryTypeOK
<1>1. CASE UNCHANGED <<cache, deletionQueue>>
  <2>1. CacheLogged'
    BY <1>0, <1>1, GetIs DEF CacheLogged
  <2>2. QED BY <1>1, <2>1 DEF QueuedAreTombstones
<1>2. CASE MainStep \/ StartWatchFails \/ ManagerStops \/ OtherReleases
  BY <1>1, <1>2, MainFrame, RegisterFrame DEF MainStep, sourceVars, cacheVars
<1>3. CASE Restart
  <2>1. deletionQueue' = {} /\ \A n \in Names : cache'[n] = Absent
    BY <1>3 DEF Restart
  <2>2. QED BY <2>1, GetIs DEF CacheLogged, QueuedAreTombstones
<1>4. CASE DispatchStep
  BY <1>1, <1>4 DEF DispatchStep, DispatcherTakes, DispatchToPredictors, DispatchToRuntimes,
                    PredictorWatch, RuntimeWatch, sourceVars, cacheVars
<1>5. ASSUME NEW n \in Names, ReconcileStep(n)
      PROVE  CacheLogged' /\ QueuedAreTombstones'
  <2>1. CASE UpdateStatusApply(n)
    <3>1. call[n].phase = "apply" /\ Offer(n, call[n].resp) /\ UNCHANGED log
      BY <2>1 DEF UpdateStatusApply, repositoryVars
    <3>2. call[n].resp \in Object
      BY DEF TypeOK, SourceTypeOK, Calls
    <3>3. QED BY <3>1, <3>2, OfferKeeps DEF AnswersLogged
  <2>2. CASE ~ UpdateStatusApply(n)
    BY <1>1, <1>5, <2>2 DEF ReconcileStep, Reconcile, UpdateStatusCheck, UpdateStatusRemote,
                            cacheVars
  <2>3. QED BY <2>1, <2>2
<1>6. CASE SourceRuns
  <2>0. UNCHANGED log
    BY <1>6 DEF SourceRuns, repositoryVars
  <2>1. CASE InitialEvent \/ ReadEvent
    <3>1. inChan # << >> /\ Offer(Head(inChan).name, Head(inChan).obj)
      BY <2>1 DEF InitialEvent, ReadEvent, ProcessEvent
    <3>2. QED BY <2>0, <3>1, HeadLogged, OfferKeeps
  <2>2. CASE ReadNothing
    BY <2>0, <2>2, PruneKeeps DEF ReadNothing, CacheLogged, QueuedAreTombstones
  <2>3. CASE InitialQuiet \/ SendInitial \/ WriteEvent \/ WriteBlocks
    BY <1>1, <2>3 DEF InitialQuiet, SendInitial, WriteEvent, WriteBlocks, cacheVars
  <2>4. QED BY <1>6, <2>1, <2>2, <2>3 DEF SourceRuns, SourceStep
<1>7. CASE RepositoryChanges
  BY <1>1, <1>7 DEF RepositoryChanges, sourceVars, cacheVars
<1>8. CASE UNCHANGED vars
  BY <1>1, <1>8 DEF vars, sourceVars, cacheVars
<1>9. QED
  BY <1>2, <1>3, <1>4, <1>5, <1>6, <1>7, <1>8 DEF Next

\* There is an event to be written only while it is written.
LEMMA NextWrites ==
    ASSUME TypeOK, WritesItsEvent, [Next]_vars
    PROVE  WritesItsEvent'
<1> USE DEF WritesItsEvent
<1>1. CASE UNCHANGED <<pc, event>>
  BY <1>1
<1>2. CASE MainStep \/ StartWatchFails \/ ManagerStops \/ OtherReleases
  BY <1>2, MainFrame, RegisterFrame DEF MainStep, streamVars
<1>3. CASE Restart
  BY <1>3 DEF Restart
<1>4. CASE DispatchStep
  BY <1>1, <1>4 DEF DispatchStep, DispatcherTakes, DispatchToPredictors, DispatchToRuntimes,
                    PredictorWatch, RuntimeWatch, streamVars
<1>5. CASE SourceRuns
  BY <1>5 DEF SourceRuns, SourceStep, InitialEvent, InitialQuiet, SendInitial, ReadEvent,
              ReadNothing, WriteEvent, WriteBlocks, streamVars
<1>6. QED
  BY <1>1, <1>2, <1>3, <1>4, <1>5 DEF Next, ReconcileStep, RepositoryChanges, vars, streamVars

\* What is known of a call, with history l and the reconciled version v.
CallOk(c, l, v) ==
    /\ c.phase \in {"check", "remote"} => Logged(l, c.arg) /\ ~ c.arg.del /\ c.arg.gen = v
    /\ c.phase = "apply" /\ c.ok => ~ c.resp.del /\ c.resp.gen = v
    /\ c.phase = "apply" /\ ~ c.resp.del => Logged(l, c.resp)

\* The two invariants about calls, as one.
LEMMA CallsOk ==
    /\ CallsAreObserved /\ AnswersLogged <=> \A n \in Names : CallOk(call[n], log, observed[n])
    /\ (CallsAreObserved /\ AnswersLogged)'
          <=> \A n \in Names : CallOk(call'[n], log', observed'[n])
    /\ \A l, v : CallOk(Idle, l, v)
<1>1. Idle.phase = "idle"
  BY DEF Idle, CallIn
<1>2. QED BY <1>1 DEF CallsAreObserved, AnswersLogged, CallOk

\* A reconcile keeps what is known of its status update: the object that is
\* updated is the one the reconcile has read, and a conditional update that
\* succeeds finds it unchanged (cached_predictor_source.go:126-147).
LEMMA ReconcileKeepsCalls ==
    ASSUME TypeOK, TypeOK', RegistryFinite, RegistryLogged, CacheLogged,
           CallsAreObserved, AnswersLogged, NEW n \in Names, ReconcileStep(n)
    PROVE  (CallsAreObserved /\ AnswersLogged)'
<1>0. /\ call \in [Names -> Calls] /\ observed \in [Names -> Nat]
      /\ log \in Seq(Change) /\ log' \in Seq(Change) /\ Rev = Len(log) /\ Rev \in Nat
      /\ registry \in [Names -> Object] /\ cache \in [Names -> Object]
  BY DEF TypeOK, SourceTypeOK, RepositoryTypeOK, Rev
<1>1. \A m \in Names : CallOk(call[m], log, observed[m])
  BY CallsOk
<1>2. Extends(log, log')
  BY NextRepository DEF Next
<1>3. \A m \in Names : CallOk(call[m], log', observed[m])
  <2>1. \A o : Logged(log, o) => Logged(log', o)
    BY <1>0, <1>2, LoggedStable
  <2>2. QED BY <1>1, <2>1 DEF CallOk
\* Steps in which only the call of this name moves.
<1>4. ASSUME NEW c, call' = [call EXCEPT ![n] = c], CallOk(c, log', observed[n]),
             UNCHANGED observed
      PROVE  (CallsAreObserved /\ AnswersLogged)'
  <2>1. \A m \in Names : call'[m] = IF m = n THEN c ELSE call[m]
    BY <1>0, <1>4
  <2>2. \A m \in Names : CallOk(call'[m], log', observed'[m])
    BY <1>3, <1>4, <2>1
  <2>3. QED BY <2>2, CallsOk
<1>5. CASE Reconcile(n) /\ UNCHANGED repositoryVars
  <2> DEFINE c == CallIn("check", Get(n), Absent, FALSE)
  <2>1. /\ observed' = [observed EXCEPT ![n] = Get(n).gen] /\ call[n] = Idle
        /\ call' = call \/ (Present(Get(n)) /\ call' = [call EXCEPT ![n] = c])
    BY <1>5 DEF Reconcile
  <2>2. ASSUME Present(Get(n)) PROVE CallOk(c, log', Get(n).gen)
    <3>1. c.phase = "check" /\ c.arg = Get(n)
      BY DEF CallIn
    <3>2. Logged(log', Get(n)) /\ ~ Get(n).del
      BY <1>5, <2>2, GetIs DEF CacheLogged, repositoryVars
    <3> HIDE DEF c
    <3>3. QED BY <3>1, <3>2 DEF CallOk
  <2> HIDE DEF c
  <2>3. /\ observed'[n] = Get(n).gen
        /\ call'[n] = Idle \/ (Present(Get(n)) /\ call'[n] = c)
        /\ \A m \in Names : m # n => call'[m] = call[m] /\ observed'[m] = observed[m]
    BY <1>0, <2>1
  <2>4. CallOk(call'[n], log', observed'[n])
    BY <2>2, <2>3, CallsOk
  <2>5. \A m \in Names : CallOk(call'[m], log', observed'[m])
    BY <1>3, <2>3, <2>4
  <2>6. QED BY <2>5, CallsOk
<1>6. CASE UpdateStatusCheck(n)
  <2> DEFINE c == CallIn("remote", call[n].arg, Absent, FALSE)
  <2>1. /\ UNCHANGED observed /\ call[n].phase = "check"
        /\ call' = [call EXCEPT ![n] = Idle] \/ call' = [call EXCEPT ![n] = c]
    BY <1>6 DEF UpdateStatusCheck, Return
  <2>2. c.phase = "remote" /\ c.arg = call[n].arg
    BY DEF CallIn
  <2> HIDE DEF c
  <2>3. CallOk(c, log', observed[n])
    BY <1>3, <2>1, <2>2 DEF CallOk
  <2>4. QED BY <1>4, <2>1, <2>3, CallsOk
<1>7. CASE UpdateStatusRemote(n)
  <2> DEFINE w == Rewritten(registry[n], Rev + 1, FALSE)
             Answer(resp, ok) == CallIn("apply", call[n].arg, resp, ok)
  <2>0. UNCHANGED observed /\ call[n].phase = "remote"
    BY <1>7 DEF UpdateStatusRemote
  <2>a. \A resp, ok : /\ Answer(resp, ok).phase = "apply" /\ Answer(resp, ok).resp = resp
                      /\ Answer(resp, ok).ok = ok
    BY DEF CallIn
  <2>1. CASE /\ registry[n].rv = call[n].arg.rv /\ WriteStatus(n)
             /\ \/ call' = [call EXCEPT ![n] = Answer(w, TRUE)]
                \/ call' = [call EXCEPT ![n] = Idle]
    <3>1. Logged(log, call[n].arg) /\ ~ call[n].arg.del /\ call[n].arg.gen = observed[n]
      BY <1>1, <2>0 DEF CallOk
    <3>2. registry[n] = call[n].arg
      BY <2>1, <3>1 DEF Logged, RegistryLogged, Present
    <3>3. ~ w.del /\ w.gen = observed[n] /\ w.rv = Rev + 1
      BY <3>1, <3>2 DEF Rewritten
    <3>4. w \in Object
      <4>1. registry[n] \in Object /\ Rev + 1 \in Nat
        BY <1>0
      <4>2. QED BY <4>1, ObjectType
    <3>5. Commit(n, "UPDATE", w)
      BY <2>1, Zenon DEF WriteStatus
    <3> DEFINE c == Answer(w, TRUE)
    <3>6. c.phase = "apply" /\ c.resp = w
      BY <2>a
    <3>7. call' = [call EXCEPT ![n] = c] \/ call' = [call EXCEPT ![n] = Idle]
      BY <2>1, Zenon
    <3> HIDE DEF w, c, Answer
    <3>8. Logged(log', w)
      BY <3>3, <3>4, <3>5, CommitExtends DEF TypeOK
    <3>9. CallOk(c, log', observed[n])
      BY <3>3, <3>6, <3>8 DEF CallOk
    <3>10. QED BY <1>4, <2>0, <3>7, <3>9, CallsOk
  <2> HIDE DEF w, Answer
  <2>2. ASSUME NEW resp, call' = [call EXCEPT ![n] = Answer(resp, FALSE)],
               ~ resp.del => Logged(log', resp)
        PROVE  (CallsAreObserved /\ AnswersLogged)'
    <3>1. CallOk(Answer(resp, FALSE), log', observed[n])
      BY <2>2, <2>a DEF CallOk
    <3>2. QED BY <1>4, <2>0, <2>2, <3>1
  <2>3. CASE Present(registry[n]) /\ call' = [call EXCEPT ![n] = Answer(registry[n], FALSE)]
             /\ UNCHANGED repositoryVars
    <3>1. Logged(log', registry[n])
      BY <2>3 DEF RegistryLogged, repositoryVars
    <3>2. QED BY <2>2, <2>3, <3>1
  <2>4. CASE call' = [call EXCEPT ![n] = Answer(Tombstone(Rev), FALSE)]
    <3>1. Tombstone(Rev).del
      BY DEF Tombstone
    <3>2. QED BY <2>2, <2>4, <3>1
  <2>5. CASE call' = [call EXCEPT ![n] = Idle]
    BY <1>4, <2>0, <2>5, CallsOk
  <2>6. QED BY <1>7, <2>1, <2>3, <2>4, <2>5 DEF UpdateStatusRemote, Return, w, Answer
<1>8. CASE UpdateStatusApply(n)
  BY <1>4, <1>8, CallsOk DEF UpdateStatusApply, Return
<1>9. QED
  BY <1>5, <1>6, <1>7, <1>8 DEF ReconcileStep

\* Every step keeps what is known of the status updates.
LEMMA NextCalls ==
    ASSUME TypeOK, TypeOK', RegistryFinite, RegistryLogged, CacheLogged,
           CallsAreObserved, AnswersLogged, [Next]_vars
    PROVE  (CallsAreObserved /\ AnswersLogged)'
<1>1. CASE UNCHANGED <<call, observed>>
  <2>1. \A o : Logged(log, o) => Logged(log', o)
    BY NextRepository, LoggedStable DEF TypeOK, RepositoryTypeOK
  <2>2. \A n \in Names : CallOk(call[n], log', observed[n])
    BY <2>1, CallsOk DEF CallOk
  <2>3. QED BY <1>1, <2>2, CallsOk
<1>2. CASE MainStep \/ StartWatchFails \/ ManagerStops \/ OtherReleases
  BY <1>1, <1>2, MainFrame, RegisterFrame DEF MainStep, sourceVars, workVars
<1>3. CASE Restart
  <2>1. \A n \in Names : call'[n] = Idle
    BY <1>3 DEF Restart
  <2>2. QED BY <2>1, CallsOk
<1>4. CASE DispatchStep
  BY <1>1, <1>4 DEF DispatchStep, DispatcherTakes, DispatchToPredictors, DispatchToRuntimes,
                    PredictorWatch, RuntimeWatch, sourceVars, workVars
<1>5. CASE SourceRuns \/ RepositoryChanges \/ UNCHANGED vars
  BY <1>1, <1>5 DEF SourceRuns, RepositoryChanges, vars, sourceVars, workVars
<1>6. QED
  BY <1>2, <1>3, <1>4, <1>5, ReconcileKeepsCalls DEF Next

-----------------------------------------------------------------------------
(* The promise of PredictorSource *)

Known == [n \in Names |-> Get(n).gen]

Held(d) == IF d.to = "predictor" THEN {d.event} ELSE {}

\* A queue gains what is appended and loses what is taken.
LEMMA InAppend ==
    ASSUME NEW S, NEW s \in Seq(S), NEW x \in S
    PROVE  In(Append(s, x)) = In(s) \cup {x}
<1>1. /\ Len(s) \in Nat /\ DOMAIN s = 1..Len(s) /\ DOMAIN Append(s, x) = 1..(Len(s) + 1)
      /\ Append(s, x)[Len(s) + 1] = x
      /\ \A i \in 1..Len(s) : Append(s, x)[i] = s[i]
  OBVIOUS
<1>2. QED BY <1>1 DEF In

\* The head of a queue and the rest of it are all there is.
LEMMA InTail ==
    ASSUME NEW S, NEW s \in Seq(S), s # << >>
    PROVE  In(s) = {Head(s)} \cup In(Tail(s))
<1>1. /\ Len(s) \in Nat \ {0} /\ DOMAIN s = 1..Len(s) /\ DOMAIN Tail(s) = 1..(Len(s) - 1)
      /\ Head(s) = s[1]
      /\ \A i \in 1..(Len(s) - 1) : Tail(s)[i] = s[i + 1]
  OBVIOUS
<1>2. ASSUME NEW i \in 2..Len(s) PROVE s[i] \in In(Tail(s))
  <2>1. i - 1 \in 1..(Len(s) - 1) /\ (i - 1) + 1 = i
    BY <1>1
  <2>2. Tail(s)[i - 1] = s[i]
    BY <1>1, <2>1
  <2>3. QED BY <1>1, <2>1, <2>2 DEF In
<1>3. \A i \in 1..Len(s) : i = 1 \/ i \in 2..Len(s)
  BY <1>1
<1>4. \A i \in 1..(Len(s) - 1) : i + 1 \in 1..Len(s)
  BY <1>1
<1>5. 1 \in 1..Len(s)
  BY <1>1
<1>6. QED BY <1>1, <1>2, <1>3, <1>4, <1>5 DEF In

\* What is on its way, part by part.
LEMMA OnTheWayParts ==
    /\ OnTheWay = dirty \cup (Names \cap (In(initial) \cup {event} \cup In(outChan)
                                            \cup In(predictorEvents) \cup Held(dispatcher)))
    /\ OnTheWay' = dirty' \cup (Names \cap (In(initial') \cup {event'} \cup In(outChan')
                                            \cup In(predictorEvents') \cup Held(dispatcher')))
BY DEF OnTheWay, In, Held

\* The promise, in the terms of the process.
LEMMA PromiseSteps ==
    /\ Promise!svars = <<Known, observed, OnTheWay>>
    /\ Promise!svars' = <<Known', observed', OnTheWay'>>
    /\ \A n \in Names : /\ Known'[n] \in Nat \ {Known[n]}
                        /\ Known' = [Known EXCEPT ![n] = Known'[n]]
                        /\ OnTheWay' = OnTheWay \cup {n} /\ observed' = observed
                        => Promise!Next
    /\ \A n \in Names : Known' = Known /\ OnTheWay' = OnTheWay \cup {n} /\ observed' = observed
                        => Promise!Next
    /\ \A n \in Names : /\ n \in OnTheWay /\ observed' = [observed EXCEPT ![n] = Known[n]]
                        /\ OnTheWay' \in {OnTheWay, OnTheWay \ {n}} /\ Known' = Known
                        => Promise!Next
    /\ Known' = [n \in Names |-> 0] /\ observed' = Known' /\ OnTheWay' = {} => Promise!Next
BY DEF Known, Promise!svars, Promise!Next, Promise!Change, Promise!Announce, Promise!Deliver,
       Promise!Restart

\* Types of what Get answers.
LEMMA KnownType ==
    /\ TypeOK => Known \in [Names -> Nat] /\ \A n \in Names : Known[n] = Get(n).gen
    /\ TypeOK' => Known' \in [Names -> Nat] /\ \A n \in Names : Known'[n] = Get(n)'.gen
<1>1. ASSUME TypeOK PROVE \A n \in Names : Get(n).gen \in Nat
  <2>1. cache \in [Names -> Object] /\ \A o \in Object : o.gen \in Nat
    BY <1>1 DEF TypeOK, SourceTypeOK, Object
  <2>2. QED BY <2>1, GetIs
<1>2. ASSUME TypeOK' PROVE \A n \in Names : Get(n)'.gen \in Nat
  <2>1. cache' \in [Names -> Object] /\ \A o \in Object : o.gen \in Nat
    BY <1>2 DEF TypeOK, SourceTypeOK, Object
  <2>2. QED BY <2>1, GetIs
<1>3. QED BY <1>1, <1>2 DEF Known

\* A change of the cache for one name, with an event for it, keeps the promise.
LEMMA ChangeKeepsPromise ==
    ASSUME TypeOK, TypeOK', NEW n \in Names,
           \A m \in Names : m # n => cache'[m] = cache[m],
           OnTheWay' = OnTheWay \cup {n}, UNCHANGED observed
    PROVE  Promise!Next
<1>1. \A m \in Names : m # n => Known'[m] = Known[m]
  BY KnownType, GetIs
<1>2. Known \in [Names -> Nat] /\ Known' \in [Names -> Nat]
  BY KnownType
<1>3. Known' = [Known EXCEPT ![n] = Known'[n]] /\ Known'[n] \in Nat
  BY <1>1, <1>2
<1>4. CASE Known'[n] = Known[n]
  <2>1. Known' = Known
    BY <1>1, <1>2, <1>4
  <2>2. QED BY <2>1, PromiseSteps
<1>5. CASE Known'[n] # Known[n]
  BY <1>3, <1>5, PromiseSteps
<1>6. QED BY <1>4, <1>5

\* Get answers the same as long as the cache is the same.
LEMMA SameCache == UNCHANGED cache => Known' = Known
BY DEF Known, Get

\* A step that moves events along, and nothing else, keeps the promise.
LEMMA QuietKeepsPromise ==
    ASSUME Known' = Known, OnTheWay' = OnTheWay, UNCHANGED observed
    PROVE  [Promise!Next]_(Promise!svars)
BY PromiseSteps

\* The goroutine of the source announces whatever it changes, also through the
\* overflow of the initial events (stream_predictor_source.go:39-90).
LEMMA SourceKeepsPromise ==
    ASSUME TypeOK, TypeOK', StreamLogged, QueuedAreTombstones, WritesItsEvent, SourceRuns
    PROVE  [Promise!Next]_(Promise!svars)
<1> DEFINE E == Names \cup {NoName}
<1>0. outChan \in Seq(E) /\ initial \in Seq(E) /\ event \in E /\ NoName \notin Names
  BY DEF TypeOK, SourceTypeOK, StreamTypeOK
<1>a. UNCHANGED <<dirty, observed, dispatcher, predictorEvents>>
  BY DEF SourceRuns, workVars, dispatchVars
<1>b. ASSUME NEW q \in Seq(E), NEW x \in E PROVE In(Append(q, x)) = In(q) \cup {x}
  BY InAppend
<1> HIDE DEF E
\* A change that is taken, with the event for it.
<1>c. ASSUME inChan # << >>, ProcessEvent(Head(inChan)),
             IF Taken(Head(inChan)) THEN OnTheWay' = OnTheWay \cup {Head(inChan).name}
                                    ELSE OnTheWay' = OnTheWay
      PROVE  [Promise!Next]_(Promise!svars)
  <2> DEFINE n == Head(inChan).name
  <2>1. n \in Names /\ Head(inChan).obj \in Object
    BY <1>c, HeadLogged
  <2>2. Offer(n, Head(inChan).obj)
    BY <1>c DEF ProcessEvent
  <2>3. CASE Taken(Head(inChan))
    <3>1. \A m \in Names : m # n => cache'[m] = cache[m]
      BY <2>2 DEF Offer, TypeOK, SourceTypeOK, cacheVars
    <3>2. QED BY <1>a, <1>c, <2>1, <2>3, <3>1, ChangeKeepsPromise
  <2>4. CASE ~ Taken(Head(inChan))
    <3>1. UNCHANGED cache
      BY <2>2, <2>4 DEF Taken, Offer, cacheVars
    <3>2. QED BY <1>a, <1>c, <2>4, <3>1, SameCache, QuietKeepsPromise
  <2>5. QED BY <2>3, <2>4
<1>1. CASE InitialEvent
  <2> DEFINE n == Head(inChan).name
  <2>1. inChan # << >> /\ ProcessEvent(Head(inChan)) /\ UNCHANGED event
    BY <1>1 DEF InitialEvent
  <2>2. n \in Names /\ n \in E
    BY <2>1, HeadLogged DEF E
  <2>3. CASE ~ Taken(Head(inChan))
    <3>1. UNCHANGED <<outChan, initial>>
      BY <1>1, <2>3 DEF InitialEvent
    <3>2. OnTheWay' = OnTheWay
      BY <1>a, <2>1, <3>1, OnTheWayParts
    <3>3. QED BY <1>c, <2>1, <2>3, <3>2
  <2>4. CASE Taken(Head(inChan))
    <3>1. \/ outChan' = Append(outChan, n) /\ initial' = initial
          \/ outChan' = outChan /\ initial = << >> /\ initial' = Append(Blanks, n)
          \/ outChan' = outChan /\ initial' = Append(initial, n)
      BY <1>1, <2>4 DEF InitialEvent, Blanks
    <3>2. Blanks \in Seq(E) /\ Names \cap In(Blanks) = {} /\ In(<< >>) = {}
      BY <1>0, BlankType DEF In, Blanks, E
    <3> HIDE DEF n
    <3>3. \/ In(outChan') = In(outChan) \cup {n} /\ initial' = initial
          \/ outChan' = outChan /\ Names \cap In(initial) = {} /\ In(initial') = In(Blanks) \cup {n}
          \/ outChan' = outChan /\ In(initial') = In(initial) \cup {n}
      BY <1>0, <1>b, <2>2, <3>1, <3>2
    <3>4. OnTheWay' = OnTheWay \cup {n}
      BY <1>a, <2>1, <2>2, <3>2, <3>3, OnTheWayParts
    <3>5. QED BY <1>c, <2>1, <2>4, <3>4 DEF n
  <2>5. QED BY <2>3, <2>4
<1>2. CASE InitialQuiet \/ WriteBlocks
  <2>1. UNCHANGED <<cache, initial, event, outChan>>
    BY <1>2 DEF InitialQuiet, WriteBlocks, cacheVars, streamVars
  <2>2. OnTheWay' = OnTheWay
    BY <1>a, <2>1, OnTheWayParts
  <2>3. QED BY <1>a, <2>1, <2>2, SameCache, QuietKeepsPromise
<1>3. CASE SendInitial
  <2>1. UNCHANGED <<cache, event>>
    BY <1>3 DEF SendInitial, cacheVars
  <2>2. CASE initial = << >>
    <3>1. UNCHANGED <<outChan, initial>>
      BY <1>3, <2>2 DEF SendInitial
    <3>2. OnTheWay' = OnTheWay
      BY <1>a, <2>1, <3>1, OnTheWayParts
    <3>3. QED BY <1>a, <2>1, <3>2, SameCache, QuietKeepsPromise
  <2>3. CASE initial # << >>
    <3>1. outChan' = Append(outChan, Head(initial)) /\ initial' = Tail(initial)
      BY <1>3, <2>3 DEF SendInitial
    <3>2. Head(initial) \in E
      BY <1>0, <2>3
    <3>3. /\ In(outChan') = In(outChan) \cup {Head(initial)}
          /\ In(initial) = {Head(initial)} \cup In(initial')
      BY <1>0, <1>b, <2>3, <3>1, <3>2, InTail
    <3>4. OnTheWay' = OnTheWay
      BY <1>a, <2>1, <3>3, OnTheWayParts
    <3>5. QED BY <1>a, <2>1, <3>4, SameCache, QuietKeepsPromise
  <2>4. QED BY <2>2, <2>3
<1>4. CASE ReadEvent
  <2>1. /\ inChan # << >> /\ ProcessEvent(Head(inChan)) /\ UNCHANGED <<initial, outChan>>
        /\ IF Taken(Head(inChan)) THEN event' = Head(inChan).name ELSE event' = event
        /\ event = NoName
    BY <1>4 DEF ReadEvent, WritesItsEvent
  <2>2. Head(inChan).name \in Names
    BY <2>1, HeadLogged
  <2>3. IF Taken(Head(inChan)) THEN OnTheWay' = OnTheWay \cup {Head(inChan).name}
                               ELSE OnTheWay' = OnTheWay
    BY <1>0, <1>a, <2>1, <2>2, OnTheWayParts
  <2>4. QED BY <1>c, <2>1, <2>3
<1>5. CASE ReadNothing
  <2>1. UNCHANGED <<initial, event, outChan>> /\ PruneDeletions
    BY <1>5 DEF ReadNothing, streamVars
  <2>2. OnTheWay' = OnTheWay
    BY <1>a, <2>1, OnTheWayParts
  <2>3. \A n \in Names : Get(n)' = Get(n)
    BY <2>1, PruneKeeps
  <2>4. Known' = Known
    BY <2>3, KnownType
  <2>5. QED BY <1>a, <2>2, <2>4, QuietKeepsPromise
<1>6. CASE WriteEvent
  <2>1. /\ UNCHANGED <<cache, initial>> /\ event' = NoName
        /\ In(outChan') = In(outChan) \cup {event}
    BY <1>0, <1>6, <1>b DEF WriteEvent, cacheVars
  <2>2. OnTheWay' = OnTheWay
    BY <1>0, <1>a, <2>1, OnTheWayParts
  <2>3. QED BY <1>a, <2>1, <2>2, SameCache, QuietKeepsPromise
<1>7. QED
  BY <1>1, <1>2, <1>3, <1>4, <1>5, <1>6 DEF SourceRuns, SourceStep

\* The dispatcher and the watches move events along (main.go:424-440).
LEMMA DispatchKeepsPromise ==
    ASSUME TypeOK, TypeOK', DispatchStep
    PROVE  [Promise!Next]_(Promise!svars)
<1> DEFINE E == Names \cup {NoName}
<1>0. /\ outChan \in Seq(E) /\ predictorEvents \in Seq(E) /\ dispatcher.event \in E
      /\ NoName \notin Names
  BY DEF TypeOK, SourceTypeOK
<1>a. UNCHANGED <<cache, observed, initial, event>>
  BY DEF DispatchStep, DispatcherTakes, DispatchToPredictors, DispatchToRuntimes,
         PredictorWatch, RuntimeWatch, sourceVars, cacheVars, workVars, streamVars
<1> SUFFICES OnTheWay' = OnTheWay
  BY <1>a, SameCache, QuietKeepsPromise
<1>1. CASE DispatcherTakes
  <2>1. /\ outChan # << >> /\ outChan' = Tail(outChan) /\ UNCHANGED <<dirty, predictorEvents>>
        /\ dispatcher = NoEvent /\ dispatcher' = [event |-> Head(outChan), to |-> "predictor"]
    BY <1>1 DEF DispatcherTakes, workVars
  <2>2. In(outChan) = {Head(outChan)} \cup In(outChan')
    BY <1>0, <2>1, InTail
  <2>3. Held(dispatcher) = {} /\ Held(dispatcher') = {Head(outChan)}
    BY <2>1 DEF Held, NoEvent
  <2>4. QED BY <1>a, <2>1, <2>2, <2>3, OnTheWayParts
<1>2. CASE DispatchToPredictors
  <2>1. /\ UNCHANGED <<dirty, outChan>> /\ dispatcher.to = "predictor"
        /\ predictorEvents' = Append(predictorEvents, dispatcher.event)
        /\ dispatcher' = [dispatcher EXCEPT !.to = "runtime"]
    BY <1>2 DEF DispatchToPredictors, sourceVars, workVars
  <2>2. In(predictorEvents') = In(predictorEvents) \cup {dispatcher.event}
    BY <1>0, <2>1, InAppend
  <2>3. Held(dispatcher) = {dispatcher.event} /\ Held(dispatcher') = {}
    <3>1. dispatcher'.to = "runtime"
      BY <2>1 DEF TypeOK
    <3>2. QED BY <2>1, <3>1 DEF Held
  <2>4. QED BY <1>a, <2>1, <2>2, <2>3, OnTheWayParts
<1>3. CASE DispatchToRuntimes
  <2>1. /\ UNCHANGED <<dirty, outChan, predictorEvents>> /\ dispatcher.to = "runtime"
        /\ dispatcher' = NoEvent
    BY <1>3 DEF DispatchToRuntimes, sourceVars, workVars
  <2>2. Held(dispatcher) = {} /\ Held(dispatcher') = {}
    BY <2>1 DEF Held, NoEvent
  <2>3. QED BY <1>a, <2>1, <2>2, OnTheWayParts
<1>4. CASE PredictorWatch
  <2>1. /\ predictorEvents # << >> /\ predictorEvents' = Tail(predictorEvents)
        /\ dirty' = dirty \cup ({Head(predictorEvents)} \cap Names)
        /\ UNCHANGED <<dispatcher, outChan>>
    BY <1>4 DEF PredictorWatch
  <2>2. In(predictorEvents) = {Head(predictorEvents)} \cup In(predictorEvents')
    BY <1>0, <2>1, InTail
  <2>3. QED BY <1>a, <2>1, <2>2, OnTheWayParts
<1>5. CASE RuntimeWatch
  <2>1. UNCHANGED <<dispatcher, predictorEvents, outChan, dirty>>
    BY <1>5 DEF RuntimeWatch, sourceVars, workVars
  <2>2. QED BY <1>a, <2>1, OnTheWayParts
<1>6. QED
  BY <1>1, <1>2, <1>3, <1>4, <1>5 DEF DispatchStep

\* The event that UpdateStatus takes from the source by bringing the cache up to
\* date itself (cached_predictor_source.go:137-147) is made up for: the answer
\* has the spec that was reconciled, or the reconcile is repeated.
LEMMA ReconcileKeepsPromise ==
    ASSUME TypeOK, TypeOK', CallsAreObserved, Announced, NEW n \in Names, ReconcileStep(n)
    PROVE  [Promise!Next]_(Promise!svars)
<1>0. UNCHANGED <<outChan, initial, event, dispatcher, predictorEvents>>
  BY ReconcileType DEF ReconcileStep, dispatchVars
<1>1. CASE Reconcile(n)
  <2>1. /\ n \in dirty /\ dirty' = dirty \ {n} /\ UNCHANGED cache
        /\ observed' = [observed EXCEPT ![n] = Known[n]]
    BY <1>1, KnownType DEF Reconcile, cacheVars
  <2>2. n \in OnTheWay /\ OnTheWay' \in {OnTheWay, OnTheWay \ {n}}
    BY <1>0, <2>1, OnTheWayParts
  <2>3. QED BY <2>1, <2>2, SameCache, PromiseSteps
<1>2. CASE UpdateStatusCheck(n) \/ UpdateStatusRemote(n)
  <2>1. /\ dirty' = dirty \cup {n} \/ dirty' = dirty
        /\ UNCHANGED <<cache, observed>>
    BY <1>2 DEF UpdateStatusCheck, UpdateStatusRemote, Return, cacheVars
  <2>2. OnTheWay' = OnTheWay \/ OnTheWay' = OnTheWay \cup {n}
    BY <1>0, <2>1, OnTheWayParts
  <2>3. QED BY <2>1, <2>2, SameCache, QuietKeepsPromise, PromiseSteps
<1>3. CASE UpdateStatusApply(n)
  <2>1. /\ UNCHANGED observed
        /\ dirty' = IF call[n].ok THEN dirty ELSE dirty \cup {n}
        /\ call[n].phase = "apply" /\ Offer(n, call[n].resp)
    BY <1>3 DEF UpdateStatusApply, Return
  <2>2. \A m \in Names : m # n => cache'[m] = cache[m]
    BY <2>1 DEF Offer, TypeOK, SourceTypeOK, cacheVars
  <2>3. CASE ~ call[n].ok
    <3>1. OnTheWay' = OnTheWay \cup {n}
      BY <1>0, <2>1, <2>3, OnTheWayParts
    <3>2. QED BY <2>1, <2>2, <3>1, ChangeKeepsPromise
  <2>4. CASE call[n].ok
    <3>1. OnTheWay' = OnTheWay
      BY <1>0, <2>1, <2>4, OnTheWayParts
    <3>2. CASE n \in OnTheWay
      BY <2>1, <2>2, <3>1, <3>2, ChangeKeepsPromise
    <3>3. CASE UNCHANGED cache
      BY <2>1, <3>1, <3>3, SameCache, QuietKeepsPromise
    <3>4. CASE n \notin OnTheWay /\ cache' # cache
      <4>1. /\ cache \in [Names -> Object] /\ call[n].resp \in Object
            /\ cache[n].rv \in Nat /\ call[n].resp.rv \in Nat
        BY DEF TypeOK, SourceTypeOK, Calls, Object
      <4>2. cache'[n] = call[n].resp /\ Present(cache'[n])
        BY <2>1, <3>4, <4>1 DEF Offer, cacheVars, Newer, Present
      <4>3. ~ call[n].resp.del /\ call[n].resp.gen = observed[n]
        BY <2>1, <2>4 DEF CallsAreObserved
      <4>4. Get(n)'.gen = observed[n] /\ observed[n] = Get(n).gen
        BY <3>4, <4>2, <4>3, GetIs DEF Announced
      <4>5. \A m \in Names : Get(m)'.gen = Get(m).gen
        BY <2>2, <4>4, GetIs
      <4>6. Known' = Known
        BY <4>5, KnownType
      <4>7. QED BY <2>1, <3>1, <4>6, QuietKeepsPromise
    <3>5. QED BY <3>2, <3>3, <3>4
  <2>5. QED BY <2>3, <2>4
<1>4. QED
  BY <1>1, <1>2, <1>3 DEF ReconcileStep

\* A process that is started again knows nothing and owes nothing.
LEMMA RestartKeepsPromise ==
    ASSUME Restart
    PROVE  Promise!Next
<1>1. /\ dirty' = {} /\ initial' = << >> /\ event' = NoName /\ outChan' = << >>
      /\ predictorEvents' = << >> /\ dispatcher' = NoEvent /\ NoName \notin Names
      /\ observed' = [n \in Names |-> 0] /\ \A n \in Names : cache'[n] = Absent
  BY DEF Restart
<1>2. In(<< >>) = {} /\ Held(NoEvent) = {}
  BY DEF In, Held, NoEvent
<1>3. OnTheWay' = {}
  BY <1>1, <1>2, OnTheWayParts
<1>4. \A n \in Names : Get(n)'.gen = 0
  BY <1>1, GetIs
<1>5. Known' = [n \in Names |-> 0]
  BY <1>4 DEF Known
<1>6. QED BY <1>1, <1>3, <1>5, PromiseSteps

\* Every step is one that PredictorSource allows, or none.
LEMMA NextKeepsPromise ==
    TypeOK /\ TypeOK' /\ ProcessInv /\ [Next]_vars => [Promise!Next]_(Promise!svars)
<1> SUFFICES ASSUME TypeOK, TypeOK', ProcessInv, [Next]_vars
             PROVE  [Promise!Next]_(Promise!svars)
  OBVIOUS
<1>1. CASE UNCHANGED <<sourceVars, initial, event, dispatchVars>>
  <2>1. UNCHANGED <<cache, outChan, dirty, observed, initial, event, dispatcher, predictorEvents>>
    BY <1>1 DEF sourceVars, cacheVars, workVars, dispatchVars
  <2>2. OnTheWay' = OnTheWay
    BY <2>1, OnTheWayParts
  <2>3. QED BY <2>1, <2>2, SameCache, QuietKeepsPromise
<1>2. CASE MainStep \/ StartWatchFails \/ ManagerStops \/ OtherReleases
  BY <1>1, <1>2, MainFrame, RegisterFrame DEF MainStep, streamVars
<1>3. CASE RepositoryChanges \/ UNCHANGED vars
  BY <1>1, <1>3 DEF RepositoryChanges, vars, streamVars
<1>4. QED
  BY <1>2, <1>3, SourceKeepsPromise, DispatchKeepsPromise, ReconcileKeepsPromise,
     RestartKeepsPromise DEF Next, ProcessInv

\* What the promise means: an answer that was not reconciled has an event.  It
\* holds of every step that PredictorSource allows.
LEMMA PromiseAnnounces ==
    ASSUME TypeOK, Announced, [Promise!Next]_(Promise!svars)
    PROVE  Announced'
<1>1. /\ Known \in [Names -> Nat] /\ \A n \in Names : Known[n] = Get(n).gen
      /\ observed \in [Names -> Nat]
  BY KnownType DEF TypeOK, SourceTypeOK
<1>2. \A n \in Names : Known'[n] = Get(n)'.gen
  BY DEF Known
<1>3. SUFFICES \A n \in Names : observed'[n] = Known'[n] \/ n \in OnTheWay'
  BY <1>2 DEF Announced
<1>4. \A n \in Names : observed[n] = Known[n] \/ n \in OnTheWay
  BY <1>1 DEF Announced
<1>5. CASE Promise!svars' = Promise!svars
  BY <1>4, <1>5, PromiseSteps
<1>6. ASSUME NEW n \in Names, Promise!Change(n)
      PROVE  \A m \in Names : observed'[m] = Known'[m] \/ m \in OnTheWay'
  <2>1. /\ Known' = [Known EXCEPT ![n] = Known'[n]] /\ OnTheWay' = OnTheWay \cup {n}
        /\ observed' = observed
    BY <1>6 DEF Promise!Change, Known
  <2>2. \A m \in Names : m # n => Known'[m] = Known[m]
    BY <1>1, <2>1
  <2>3. QED BY <1>4, <2>1, <2>2
<1>7. ASSUME NEW n \in Names, Promise!Announce(n)
      PROVE  \A m \in Names : observed'[m] = Known'[m] \/ m \in OnTheWay'
  <2>1. Known' = Known /\ OnTheWay' = OnTheWay \cup {n} /\ observed' = observed
    BY <1>7 DEF Promise!Announce, Known
  <2>2. QED BY <1>4, <2>1
<1>8. ASSUME NEW n \in Names, Promise!Deliver(n)
      PROVE  \A m \in Names : observed'[m] = Known'[m] \/ m \in OnTheWay'
  <2>1. /\ Known' = Known /\ observed' = [observed EXCEPT ![n] = Known[n]]
        /\ OnTheWay' = OnTheWay \/ OnTheWay' = OnTheWay \ {n}
    BY <1>8 DEF Promise!Deliver, Known
  <2>2. QED BY <1>1, <1>4, <2>1
<1>9. CASE Promise!Restart
  <2>1. observed' = Known'
    BY <1>9 DEF Promise!Restart, Known
  <2>2. QED BY <2>1
<1>10. QED
  BY <1>5, <1>6, <1>7, <1>8, <1>9 DEF Promise!Next

\* Every step keeps ProcessInv.
LEMMA NextProcess == TypeOK /\ TypeOK' /\ ProcessInv /\ [Next]_vars => ProcessInv'
<1> SUFFICES ASSUME TypeOK, TypeOK', ProcessInv, [Next]_vars PROVE ProcessInv'
  OBVIOUS
<1>1. RegistryFinite' /\ RegistryLogged'
  BY NextRepository DEF ProcessInv
<1>2. StreamLogged'
  BY NextStream DEF ProcessInv
<1>3. CacheLogged' /\ QueuedAreTombstones'
  BY NextCache DEF ProcessInv
<1>4. CallsAreObserved' /\ AnswersLogged'
  BY NextCalls DEF ProcessInv
<1>5. WritesItsEvent'
  BY NextWrites DEF ProcessInv
<1>6. Announced'
  BY NextKeepsPromise, PromiseAnnounces DEF ProcessInv
<1>7. QED BY <1>1, <1>2, <1>3, <1>4, <1>5, <1>6 DEF ProcessInv

\* The invariant holds before the process has done anything.
LEMMA InitProcess == Init => ProcessInv /\ Promise!Init
<1> SUFFICES ASSUME Init PROVE ProcessInv /\ Promise!Init
  OBVIOUS
<1>1. /\ registry = [n \in Names |-> Absent] /\ cache = [n \in Names |-> Absent]
      /\ call = [n \in Names |-> Idle] /\ observed = [n \in Names |-> 0]
      /\ deletionQueue = {} /\ dirty = {} /\ inChan = << >> /\ initial = << >>
      /\ event = NoName /\ outChan = << >> /\ predictorEvents = << >> /\ dispatcher = NoEvent
      /\ NoName \notin Names
  BY DEF Init, RepositoryInit, SourceInit, StreamInit
<1>2. \A n \in Names : Get(n) = Absent
  BY <1>1, GetIs
<1>3. RegistryLogged /\ CacheLogged /\ QueuedAreTombstones /\ StreamLogged /\ WritesItsEvent
  BY <1>1, <1>2, GetIs
     DEF RegistryLogged, CacheLogged, QueuedAreTombstones, StreamLogged, WritesItsEvent
<1>4. CallsAreObserved /\ AnswersLogged
  BY <1>1, CallsOk
<1>5. Announced
  BY <1>1, <1>2, GetIs DEF Announced
<1>6. RegistryFinite
  BY InitType
<1>7. [n \in Names |-> Get(n).gen] = [n \in Names |-> 0]
  BY <1>2, GetIs
<1>8. OnTheWay = {}
  <2>1. In(<< >>) = {} /\ Held(NoEvent) = {}
    BY DEF In, Held, NoEvent
  <2>2. QED BY <1>1, <2>1, OnTheWayParts
<1>9. Promise!Init
  BY <1>1, <1>7, <1>8 DEF Promise!Init
<1>10. QED BY <1>3, <1>4, <1>5, <1>6, <1>9 DEF ProcessInv

(***************************************************************************)
(* The inductive invariant behind the promise of the process: whatever Get *)
(* answers and is yet to be offered to the cache was committed, a status   *)
(* update brings in nothing its reconcile has not acted on, and what is    *)
(* pruned was deleted.                                                     *)
(***************************************************************************)
THEOREM ProcessInvariant == Spec => []ProcessInv
BY InitProcess, NextProcess, TypeCorrect, PTL DEF Spec

(***************************************************************************)
(* A controller process with a stream predictor source implements          *)
(* PredictorSource: every step, of main, of the source's goroutine, of the *)
(* dispatcher, of a reconcile, a restart or a change of the repository, is *)
(* one the interface allows or changes nothing it tells of.                *)
(***************************************************************************)
THEOREM ProcessKeepsPromise == Spec => KeepsPromise
BY InitProcess, NextKeepsPromise, ProcessInvariant, TypeCorrect, PTL
   DEF Spec, KeepsPromise, Promise!Spec
=============================================================================

--------------------- MODULE WatchPredictorSource_proofs ---------------------
(* Proofs about WatchPredictorSource, for every value of the constants. *)
EXTENDS WatchPredictorSource, SequenceTheorems, TLAPS

USE RepositoryAssumption, CacheAssumption, WatchAssumption

\* The constructors of objects make objects.
LEMMA ObjectType ==
    /\ Absent \in Object
    /\ \A r \in Nat : Tombstone(r) \in Object
    /\ \A r, g \in Nat : \A d \in BOOLEAN : [rv |-> r, gen |-> g, del |-> d] \in Object
    /\ \A o \in Object : \A r \in Nat : \A d \in BOOLEAN : Rewritten(o, r, d) \in Object
    /\ \A o \in Object : \A r \in Nat : /\ Rewritten(o, r, TRUE) \in Object
                                       /\ Rewritten(o, r, FALSE) \in Object
BY DEF Object, Absent, Tombstone, Rewritten

\* A commit of the repository appends an entry of the right type.
LEMMA CommitType ==
    ASSUME RepositoryTypeOK, NEW n \in Names, NEW kind \in {"UPDATE", "DELETE"},
           NEW o \in Object, Commit(n, kind, o)
    PROVE  RepositoryTypeOK'
<1>1. [name |-> n, kind |-> kind, obj |-> o] \in Change
  BY DEF Change
<1>2. log' \in Seq(Change)
  BY <1>1 DEF RepositoryTypeOK, Commit
<1>3. registry' \in [Names -> Object]
  BY ObjectType DEF RepositoryTypeOK, Commit
<1>4. QED BY <1>2, <1>3 DEF RepositoryTypeOK

\* Whatever others do to the repository (predictor_source.go:36-57), its state
\* keeps its type.
LEMMA RepositoryType ==
    ASSUME RepositoryTypeOK, RepositoryStep
    PROVE  RepositoryTypeOK'
<1> Rev \in Nat /\ Rev + 1 \in Nat
  BY DEF RepositoryTypeOK, Rev
<1>0. PICK n \in Names : SetPredictor(n) \/ MarkDeleted(n) \/ DeletePredictor(n)
  BY DEF RepositoryStep
<1> registry[n] \in Object /\ registry[n].del \in BOOLEAN
  BY DEF RepositoryTypeOK, Object
<1>1. CASE SetPredictor(n)
  <2>1. [rv |-> Rev + 1, gen |-> Rev + 1, del |-> registry[n].del] \in Object
    BY DEF Object
  <2>2. QED BY <1>1, <2>1, CommitType DEF SetPredictor
<1>2. CASE MarkDeleted(n)
  <2>1. Rewritten(registry[n], Rev + 1, TRUE) \in Object
    BY ObjectType
  <2>2. Commit(n, "UPDATE", Rewritten(registry[n], Rev + 1, TRUE))
    BY <1>2 DEF MarkDeleted
  <2>3. QED BY <2>1, <2>2, CommitType
<1>3. CASE DeletePredictor(n)
  <2>1. PICK stamped \in DeleteStamps :
              Commit(n, "DELETE", Rewritten(registry[n], Rev + 1, stamped))
    BY <1>3 DEF DeletePredictor
  <2>2. stamped \in BOOLEAN
    OBVIOUS
  <2>3. Rewritten(registry[n], Rev + 1, stamped) \in Object
    BY <2>2, ObjectType
  <2>4. QED BY <2>1, <2>3, CommitType
<1>4. QED BY <1>0, <1>1, <1>2, <1>3

\* offerToCache (cached_predictor_source.go:236-257) keeps the types of cache
\* and deletion queue.
LEMMA OfferType ==
    ASSUME TypeOK, NEW n \in Names, NEW o \in Object, Offer(n, o)
    PROVE  /\ cache' \in [Names -> Object]
           /\ deletionQueue' \in SUBSET (Names \X Nat)
           /\ panicked' \in BOOLEAN
<1> USE DEF TypeOK, SourceTypeOK
<1>1. o.rv \in Nat
  BY DEF Object
<1>2. CASE ~ Newer(cache[n], o) /\ UNCHANGED cacheVars
  BY <1>2 DEF cacheVars
<1>3. CASE /\ cache' = [cache EXCEPT ![n] = o]
           /\ deletionQueue' \in {deletionQueue, deletionQueue \cup {<<n, o.rv>>}}
           /\ UNCHANGED panicked
  BY <1>1, <1>3
<1>4. CASE panicked' = TRUE /\ UNCHANGED <<cache, deletionQueue>>
  BY <1>4
<1>5. QED
  BY <1>2, <1>3, <1>4 DEF Offer

\* What UpdateStatus records of a call is a call.
LEMMA CallType ==
    ASSUME NEW phase \in {"idle", "check", "remote", "apply"}, NEW arg \in Object,
           NEW resp \in Object
    PROVE  CallIn(phase, arg, resp, TRUE) \in Calls /\ CallIn(phase, arg, resp, FALSE) \in Calls
BY DEF CallIn, Calls

\* A reconcile that is not in UpdateStatus is in a state of its type.
LEMMA IdleType == Idle \in Calls
BY CallType, ObjectType DEF Idle

\* The end of UpdateStatus (cached_predictor_source.go:126-147) keeps the
\* types of calls and work queue.
LEMMA ReturnType ==
    ASSUME TypeOK, NEW n \in Names, NEW ok, Return(n, ok)
    PROVE  call' \in [Names -> Calls] /\ dirty' \in SUBSET Names
BY IdleType DEF TypeOK, SourceTypeOK, Return

\* The controllers' side, Dispatch, Reconcile and UpdateStatus, keeps the
\* types.
LEMMA WorkType ==
    ASSUME TypeOK, WorkStep, UNCHANGED watchVars
    PROVE  TypeOK'
<1> USE DEF TypeOK, SourceTypeOK
<1>0. WatchTypeOK'
  BY DEF WatchTypeOK, watchVars
<1>a. \A n \in Names : Get(n) \in Object
  BY ObjectType DEF Get
<1>b. ASSUME UNCHANGED repositoryVars PROVE RepositoryTypeOK'
  BY <1>b DEF RepositoryTypeOK, repositoryVars
<1>1. CASE Dispatch /\ UNCHANGED repositoryVars
  <2>1. outChan' \in Seq(Names \cup {NoName})
    BY <1>1 DEF Dispatch
  <2>2. dirty' \in SUBSET Names
    BY <1>1 DEF Dispatch
  <2>3. QED BY <1>0, <1>b, <1>1, <2>1, <2>2 DEF Dispatch, cacheVars
<1>2. ASSUME NEW n \in Names, Reconcile(n), UNCHANGED repositoryVars
      PROVE  TypeOK'
  <2>1. observed' \in [Names -> Nat] /\ dirty' \in SUBSET Names
    BY <1>2, <1>a DEF Reconcile, Object
  <2>2. call' \in [Names -> Calls]
    <3>1. CallIn("check", Get(n), Absent, FALSE) \in Calls
      BY <1>a, CallType, ObjectType
    <3>2. QED BY <1>2, <3>1 DEF Reconcile
  <2>3. QED BY <1>0, <1>b, <1>2, <2>1, <2>2 DEF Reconcile, cacheVars
<1>3. ASSUME NEW n \in Names, UpdateStatusCheck(n)
      PROVE  TypeOK'
  <2>1. call[n].arg \in Object
    BY DEF Calls
  <2>2. call' \in [Names -> Calls] /\ dirty' \in SUBSET Names
    <3>1. CallIn("remote", call[n].arg, Absent, FALSE) \in Calls
      BY <2>1, CallType, ObjectType
    <3>2. CASE Return(n, FALSE)
      BY <3>2, ReturnType
    <3>3. QED BY <1>3, <3>1, <3>2 DEF UpdateStatusCheck
  <2>3. QED BY <1>0, <1>b, <1>3, <2>2 DEF UpdateStatusCheck, cacheVars
<1>4. ASSUME NEW n \in Names, UpdateStatusRemote(n)
      PROVE  TypeOK'
  <2>1. /\ call[n].arg \in Object
        /\ registry[n] \in Object
        /\ Rev \in Nat
        /\ Rev + 1 \in Nat
    BY DEF Calls, RepositoryTypeOK, Rev
  <2>2. Rewritten(registry[n], Rev + 1, FALSE) \in Object /\ Tombstone(Rev) \in Object
    BY <2>1, ObjectType
  <2>3. RepositoryTypeOK'
    BY <1>4, <1>b, <2>2, CommitType DEF UpdateStatusRemote, WriteStatus
  <2>4. call' \in [Names -> Calls] /\ dirty' \in SUBSET Names
    <3>1. /\ CallIn("apply", call[n].arg, Rewritten(registry[n], Rev + 1, FALSE), TRUE) \in Calls
          /\ CallIn("apply", call[n].arg, registry[n], FALSE) \in Calls
          /\ CallIn("apply", call[n].arg, Tombstone(Rev), FALSE) \in Calls
      BY <2>1, <2>2, CallType
    <3>2. CASE Return(n, FALSE)
      BY <3>2, ReturnType
    <3>3. QED BY <1>4, <3>1, <3>2 DEF UpdateStatusRemote
  <2>5. QED BY <1>0, <1>4, <2>3, <2>4 DEF UpdateStatusRemote, cacheVars
<1>5. ASSUME NEW n \in Names, UpdateStatusApply(n)
      PROVE  TypeOK'
  <2>1. call[n].resp \in Object
    BY DEF Calls
  <2>2. /\ cache' \in [Names -> Object]
        /\ deletionQueue' \in SUBSET (Names \X Nat)
        /\ panicked' \in BOOLEAN
    BY <1>5, <2>1, OfferType DEF UpdateStatusApply
  <2>3. call' \in [Names -> Calls] /\ dirty' \in SUBSET Names
    BY <1>5, ReturnType DEF UpdateStatusApply
  <2>4. QED BY <1>0, <1>b, <1>5, <2>2, <2>3 DEF UpdateStatusApply
<1>6. QED
  BY <1>1, <1>2, <1>3, <1>4, <1>5 DEF WorkStep

\* processEvent (cached_predictor_source.go:192-209) keeps the types.
LEMMA ProcessType ==
    ASSUME TypeOK, NEW n \in Names, NEW o \in Object,
           NEW return \in {"items", "deletes", "read"}, ProcessEvent(n, o, return),
           UNCHANGED <<outChan, workVars, resourceVersion, list, listRv, initialEvents>>,
           todo' \in SUBSET Names, next' \in Nat \ {0}
    PROVE  SourceTypeOK' /\ WatchTypeOK'
<1>1. /\ cache' \in [Names -> Object]
      /\ deletionQueue' \in SUBSET (Names \X Nat)
      /\ panicked' \in BOOLEAN
  BY OfferType DEF ProcessEvent
<1>2. SourceTypeOK'
  BY <1>1 DEF TypeOK, SourceTypeOK, ProcessEvent, workVars
<1>3. [name |-> n, rv |-> o.rv] \in [name : Names \cup {NoName}, rv : Nat]
  BY DEF Object
<1>4. pending' \in [name : Names \cup {NoName}, rv : Nat]
  BY <1>3 DEF TypeOK, WatchTypeOK, ProcessEvent
<1>5. pc' \in Labels /\ ret' \in {"items", "deletes", "read"}
  BY DEF TypeOK, WatchTypeOK, ProcessEvent, Labels
<1>6. QED
  BY <1>2, <1>4, <1>5 DEF TypeOK, WatchTypeOK, ProcessEvent

\* Every step of the source's goroutine
\* (watchrefresh_predictor_source.go:69-186) keeps the types.
LEMMA SourceType ==
    ASSUME TypeOK, SourceStep
    PROVE  TypeOK'
<1> USE DEF TypeOK
<1>a. ASSUME UNCHANGED repositoryVars PROVE RepositoryTypeOK'
  BY <1>a DEF RepositoryTypeOK, repositoryVars
<1>b. ASSUME UNCHANGED sourceVars PROVE SourceTypeOK'
  BY <1>b DEF SourceTypeOK, sourceVars, cacheVars, workVars
<1>c. ASSUME UNCHANGED watchVars PROVE WatchTypeOK'
  BY <1>c DEF WatchTypeOK, watchVars
<1>d. Rev \in Nat
  BY DEF RepositoryTypeOK, Rev
<1>e. ASSUME TakeList
      PROVE  list' \in [Names -> Object] /\ listRv' \in Nat /\ todo' \in SUBSET Names
  BY <1>d, <1>e DEF TakeList, RepositoryTypeOK
<1>1. CASE StartWatch
  BY <1>1, <1>a, <1>b, <1>e DEF StartWatch, WatchTypeOK, Labels
<1>2. CASE StartWatchReturns
  BY <1>2, <1>a, <1>b DEF StartWatchReturns, WatchTypeOK, Labels
<1>3. CASE SendInitialEvent
  <2>1. /\ outChan' \in Seq(Names \cup {NoName})
        /\ initialEvents' \in Seq(Names \cup {NoName})
    BY <1>3 DEF SendInitialEvent, SourceTypeOK, WatchTypeOK
  <2>2. QED
    BY <1>3, <1>a, <2>1 DEF SendInitialEvent, SourceTypeOK, WatchTypeOK, cacheVars, workVars
<1>4. CASE InitialEventsSent
  BY <1>4, <1>a, <1>b DEF InitialEventsSent, WatchTypeOK, Labels
<1>5. CASE WatchEstablished
  BY <1>5, <1>a, <1>b DEF WatchEstablished, WatchTypeOK, Labels, WatchFrom
<1>6. CASE WatchTooOld
  BY <1>6, <1>a, <1>b DEF WatchTooOld, WatchTypeOK, Labels
<1>7. CASE ReadEvent
  <2>1. next \in 1..Rev
    BY <1>7, <1>d DEF ReadEvent, WatchTypeOK
  <2>2. log[next] \in Change
    BY <2>1 DEF RepositoryTypeOK, Rev
  <2>3. log[next].name \in Names /\ log[next].obj \in Object
    BY <2>2 DEF Change
  <2>4. todo' \in SUBSET Names /\ next' \in Nat \ {0}
    BY <1>7 DEF ReadEvent, WatchTypeOK
  <2>5. QED
    BY <1>7, <1>a, <2>3, <2>4, ProcessType DEF ReadEvent
<1>8. CASE PollMisses
  <2>1. cache' \in [Names -> Object] /\ deletionQueue' \in SUBSET (Names \X Nat)
    BY <1>8, ObjectType DEF PollMisses, PruneDeletions, PopExpired, SourceTypeOK
  <2>2. QED
    BY <1>8, <1>a, <1>c, <2>1 DEF PollMisses, PruneDeletions, PopExpired, SourceTypeOK, workVars
<1>9. CASE StreamEnds
  BY <1>9, <1>a, <1>b DEF StreamEnds, WatchTypeOK, Labels
<1>10. CASE WriteEvent
  <2>1. pending.name \in Names \cup {NoName} /\ pending.rv \in Nat
    BY DEF WatchTypeOK
  <2>2. outChan' \in Seq(Names \cup {NoName})
    BY <1>10, <2>1 DEF WriteEvent, SourceTypeOK
  <2>3. QED
    BY <1>10, <1>a, <2>1, <2>2
       DEF WriteEvent, SourceTypeOK, WatchTypeOK, Labels, cacheVars, workVars
<1>11. CASE WriteBlocks
  BY <1>11, <1>a, <1>c DEF WriteBlocks, SourceTypeOK, cacheVars, workVars
<1>12. CASE Refresh
  BY <1>12, <1>a, <1>b, <1>e DEF Refresh, WatchTypeOK, Labels
<1>13. CASE RefreshItemsDone
  BY <1>13, <1>a, <1>b DEF RefreshItemsDone, ToDelete, WatchTypeOK, Labels
<1>14. CASE RefreshDone
  BY <1>14, <1>a, <1>b DEF RefreshDone, WatchTypeOK, Labels
<1>15. ASSUME NEW n \in Names, Populate(n)
       PROVE  TypeOK'
  <2>1. cache' \in [Names -> Object]
    BY <1>15 DEF Populate, SourceTypeOK, WatchTypeOK
  <2>2. BlankEvents \in Seq(Names \cup {NoName})
    <3>1. BlankEvents \in [1..Cap -> Names \cup {NoName}]
      BY DEF BlankEvents
    <3>2. Cap \in Nat
      OBVIOUS
    <3>3. Seq(Names \cup {NoName}) = UNION {[1..m -> Names \cup {NoName}] : m \in Nat}
      BY SeqDef
    <3>4. QED BY <3>1, <3>2, <3>3
  <2>3. /\ outChan' \in Seq(Names \cup {NoName})
        /\ initialEvents' \in Seq(Names \cup {NoName})
    <3> DEFINE overflow == IF initialEvents = <<>> THEN BlankEvents ELSE initialEvents
    <3>1. /\ overflow \in Seq(Names \cup {NoName})
          /\ outChan \in Seq(Names \cup {NoName})
          /\ initialEvents \in Seq(Names \cup {NoName})
      BY <2>2 DEF SourceTypeOK, WatchTypeOK
    <3>a. \A q \in Seq(Names \cup {NoName}) : Append(q, n) \in Seq(Names \cup {NoName})
      OBVIOUS
    <3>2. \/ outChan' = Append(outChan, n) /\ initialEvents' = initialEvents
          \/ outChan' = outChan /\ initialEvents' = Append(overflow, n)
      BY <1>15 DEF Populate
    <3> HIDE DEF overflow
    <3>3. QED BY <3>1, <3>2, <3>a
  <2>4. QED
    BY <1>15, <1>a, <2>1, <2>3 DEF Populate, SourceTypeOK, WatchTypeOK, workVars
<1>16. ASSUME NEW n \in Names, RefreshItem(n)
       PROVE  TypeOK'
  <2>1. list[n] \in Object /\ todo' \in SUBSET Names /\ next' \in Nat \ {0}
    BY <1>16 DEF RefreshItem, WatchTypeOK
  <2>2. QED
    BY <1>16, <1>a, <2>1, ProcessType DEF RefreshItem
<1>17. ASSUME NEW n \in Names, RefreshDelete(n)
       PROVE  TypeOK'
  <2>1. Tombstone(listRv) \in Object /\ todo' \in SUBSET Names /\ next' \in Nat \ {0}
    BY <1>17, ObjectType DEF RefreshDelete, WatchTypeOK
  <2>2. QED
    BY <1>17, <1>a, <2>1, ProcessType DEF RefreshDelete
<1>18. QED
  BY <1>1, <1>2, <1>3, <1>4, <1>5, <1>6, <1>7, <1>8, <1>9, <1>10, <1>11, <1>12, <1>13,
     <1>14, <1>15, <1>16, <1>17 DEF SourceStep

(***************************************************************************)
(* Type correctness of the source, the repository and the controllers'     *)
(* side under every interleaving.                                          *)
(***************************************************************************)
THEOREM TypeCorrect == Spec => []TypeOK
<1>1. Init => TypeOK
  <2> SUFFICES ASSUME Init PROVE TypeOK
    OBVIOUS
  <2>1. RepositoryTypeOK
    BY ObjectType DEF Init, RepositoryInit, RepositoryTypeOK
  <2>2. SourceTypeOK
    <3>1. call \in [Names -> Calls]
      BY IdleType DEF Init, SourceInit
    <3>2. cache \in [Names -> Object]
      BY ObjectType DEF Init, SourceInit
    <3>3. outChan \in Seq(Names \cup {NoName}) /\ observed \in [Names -> Nat]
      BY DEF Init, SourceInit
    <3>4. deletionQueue \in SUBSET (Names \X Nat) /\ dirty \in SUBSET Names
      BY DEF Init, SourceInit
    <3>5. lockHeld \in BOOLEAN /\ panicked \in BOOLEAN
      BY DEF Init, SourceInit
    <3>6. QED BY <3>1, <3>2, <3>3, <3>4, <3>5 DEF SourceTypeOK
  <2>3. WatchTypeOK
    BY ObjectType DEF Init, WatchTypeOK, Labels
  <2>4. QED BY <2>1, <2>2, <2>3 DEF TypeOK
<1>2. TypeOK /\ [Next]_vars => TypeOK'
  <2> SUFFICES ASSUME TypeOK, [Next]_vars PROVE TypeOK'
    OBVIOUS
  <2>1. CASE RepositoryStep /\ UNCHANGED <<sourceVars, watchVars>>
    BY <2>1, RepositoryType
       DEF TypeOK, SourceTypeOK, WatchTypeOK, sourceVars, cacheVars, workVars, watchVars
  <2>2. CASE UNCHANGED vars
    BY <2>2 DEF TypeOK, RepositoryTypeOK, SourceTypeOK, WatchTypeOK, vars, repositoryVars,
                sourceVars, cacheVars, workVars, watchVars
  <2>3. QED
    BY <2>1, <2>2, SourceType, WorkType DEF Next
<1>3. QED
  BY <1>1, <1>2, PTL DEF Spec

-----------------------------------------------------------------------------
(* The repository's history only grows; what was said of it stays true. *)

Extends(l, m) == Len(l) <= Len(m) /\ \A i \in 1..Len(l) : m[i] = l[i]

\* A name that is gone by version r stays so when the history grows.
LEMMA GoneStable ==
    ASSUME NEW l \in Seq(Change), NEW m \in Seq(Change), Extends(l, m),
           NEW n, NEW r \in Nat, r <= Len(l), Gone(l, n, r)
    PROVE  Gone(m, n, r)
<1> SUFFICES ASSUME NEW i \in 1..r, i <= Len(m), m[i].name = n
             PROVE  \E j \in i..Len(m) : m[j].name = n /\ Deletes(m[j])
  BY DEF Gone
<1>1. i \in 1..Len(l) /\ l[i].name = n
  BY DEF Extends
<1>2. PICK j \in i..Len(l) : l[j].name = n /\ Deletes(l[j])
  BY <1>1 DEF Gone
<1>3. j \in i..Len(m) /\ m[j] = l[j]
  BY <1>1, <1>2 DEF Extends
<1>4. QED BY <1>2, <1>3

\* What was true of the history stays true when it grows.
LEMMA RealStable ==
    ASSUME NEW l \in Seq(Change), NEW m \in Seq(Change), Extends(l, m),
           NEW n, NEW o \in Object, Real(l, n, o)
    PROVE  Real(m, n, o)
<1>1. o.rv \in Nat /\ o.rv <= Len(l) /\ Len(l) <= Len(m) /\ Len(m) \in Nat /\ Len(l) \in Nat
  BY DEF Object, Real, Extends
<1>2. CASE o.rv # 0 /\ l[o.rv].name = n /\ l[o.rv].obj = o
  <2>1. m[o.rv] = l[o.rv]
    BY <1>1, <1>2 DEF Extends
  <2>2. QED BY <1>1, <1>2, <2>1 DEF Real
<1>3. CASE o.del /\ Gone(l, n, o.rv)
  BY <1>1, <1>3, GoneStable DEF Real
<1>4. QED BY <1>2, <1>3 DEF Real

\* A list taken at version r (watchrefresh_predictor_source.go:148-155) stays
\* true of that version when the history grows.
LEMMA SnapshotStable ==
    ASSUME NEW l \in Seq(Change), NEW m \in Seq(Change), Extends(l, m),
           NEW s \in [Names -> Object], NEW r \in Nat, SnapshotOf(l, s, r)
    PROVE  SnapshotOf(m, s, r)
<1>1. r <= Len(l) /\ r <= Len(m) /\ Len(l) \in Nat /\ Len(m) \in Nat
  BY DEF SnapshotOf, Extends
<1>2. ASSUME NEW n \in Names, Present(s[n])
      PROVE  Real(m, n, s[n]) /\ \A i \in 1..r : m[i].name = n => i <= s[n].rv
  <2>1. Real(l, n, s[n]) /\ \A i \in 1..r : l[i].name = n => i <= s[n].rv
    BY <1>2 DEF SnapshotOf
  <2>2. \A i \in 1..r : m[i] = l[i]
    BY <1>1 DEF Extends
  <2>3. Real(m, n, s[n])
    BY <2>1, RealStable
  <2>4. QED BY <2>1, <2>2, <2>3
<1>3. ASSUME NEW n \in Names, ~ Present(s[n])
      PROVE  Gone(m, n, r)
  <2>1. Gone(l, n, r)
    BY <1>3 DEF SnapshotOf
  <2>2. QED BY <1>1, <2>1, GoneStable
<1>4. QED BY <1>1, <1>2, <1>3 DEF SnapshotOf

\* A change of a name that is gone is reflected in any cache.
LEMMA GoneReflected ==
    ASSUME NEW l \in Seq(Change), NEW c, NEW r \in Nat, NEW i \in 1..r, i <= Len(l),
           Gone(l, l[i].name, r)
    PROVE  Reflected(l, c, i)
BY DEF Gone, Reflected

\* Reflected survives a growing history if entries of the cache are replaced by
\* newer ones, or dropped when their name is gone.
LEMMA ReflectedStable ==
    ASSUME NEW l \in Seq(Change), NEW m \in Seq(Change), Extends(l, m),
           NEW c \in [Names -> Object], NEW d \in [Names -> Object],
           \A n \in Names : d[n].rv >= c[n].rv \/ Gone(l, n, c[n].rv),
           NEW i \in 1..Len(l), Reflected(l, c, i)
    PROVE  Reflected(m, d, i)
<1>1. /\ l[i].name \in Names
      /\ m[i] = l[i]
      /\ \A n \in Names : c[n].rv \in Nat /\ d[n].rv \in Nat
  <2>1. l[i] \in Change
    OBVIOUS
  <2>2. l[i].name \in Names
    BY <2>1 DEF Change
  <2>3. \A n \in Names : c[n].rv \in Nat /\ d[n].rv \in Nat
    BY DEF Object
  <2>4. QED BY <2>2, <2>3 DEF Extends
<1>2. ASSUME NEW j \in i..Len(l), l[j].name = l[i].name, Deletes(l[j])
      PROVE  Reflected(m, d, i)
  <2>1. j \in i..Len(m) /\ m[j] = l[j]
    BY DEF Extends
  <2>2. QED BY <1>1, <1>2, <2>1 DEF Reflected
<1>3. CASE c[l[i].name].rv >= i
  <2>1. CASE d[l[i].name].rv >= c[l[i].name].rv
    BY <1>1, <1>3, <2>1 DEF Reflected
  <2>2. CASE Gone(l, l[i].name, c[l[i].name].rv)
    <3>1. i \in 1..c[l[i].name].rv /\ i <= Len(l)
      BY <1>1, <1>3
    <3>2. PICK j \in i..Len(l) : l[j].name = l[i].name /\ Deletes(l[j])
      BY <2>2, <3>1 DEF Gone
    <3>3. QED BY <1>2, <3>2
  <2>3. QED BY <1>1, <2>1, <2>2
<1>4. QED BY <1>2, <1>3 DEF Reflected

\* A real object that is deleted stands for a name that is gone.
LEMMA DeletedGone ==
    ASSUME NEW l \in Seq(Change), NEW n, NEW o \in Object, Real(l, n, o), o.del
    PROVE  Gone(l, n, o.rv)
<1>1. CASE o.rv # 0 /\ l[o.rv].name = n /\ l[o.rv].obj = o
  <2>1. o.rv \in Nat /\ o.rv <= Len(l) /\ Deletes(l[o.rv])
    BY <1>1 DEF Real, Object, Deletes
  <2>2. QED BY <1>1, <2>1 DEF Gone
<1>2. QED BY <1>1 DEF Real

-----------------------------------------------------------------------------
(* The repository's steps *)

\* A commit only appends to the history.
LEMMA CommitExtends ==
    ASSUME RepositoryTypeOK, NEW n \in Names, NEW kind \in {"UPDATE", "DELETE"},
           NEW o \in Object, Commit(n, kind, o)
    PROVE  /\ Extends(log, log')
           /\ Len(log') = Len(log) + 1
           /\ log'[Len(log) + 1] = [name |-> n, kind |-> kind, obj |-> o]
BY DEF RepositoryTypeOK, Commit, Extends

\* A commit leaves everything in sync: what is cached, listed, queued or
\* answered stays true.
LEMMA CommitSync ==
    ASSUME RepositoryTypeOK, LogNumbered, SnapshotOf(log, registry, Rev),
           NEW n \in Names, NEW kind \in {"UPDATE", "DELETE"},
           NEW o \in Object, o.rv = Rev + 1, Commit(n, kind, o)
    PROVE  /\ Extends(log, log')
           /\ LogNumbered'
           /\ SnapshotOf(log', registry', Rev')
           /\ kind = "UPDATE" => Real(log', n, o)
<1> DEFINE e == [name |-> n, kind |-> kind, obj |-> o]
<1>0. /\ Extends(log, log')
      /\ Rev \in Nat
      /\ Len(log) = Rev
      /\ Len(log') = Rev + 1
      /\ Rev' = Rev + 1
      /\ log'[Rev + 1] = e
      /\ log \in Seq(Change)
      /\ log' \in Seq(Change)
      /\ registry \in [Names -> Object]
      /\ registry' = [registry EXCEPT ![n] = IF kind = "DELETE" THEN Absent ELSE o]
  <2>1. /\ Extends(log, log')
        /\ Len(log') = Len(log) + 1
        /\ log'[Len(log) + 1] = e
    BY CommitExtends
  <2>2. log' \in Seq(Change)
    BY CommitType DEF RepositoryTypeOK
  <2>3. log \in Seq(Change) /\ registry \in [Names -> Object] /\ Len(log) \in Nat
    BY DEF RepositoryTypeOK
  <2> HIDE DEF e
  <2>4. registry' = [registry EXCEPT ![n] = IF kind = "DELETE" THEN Absent ELSE o]
    BY DEF Commit
  <2>5. QED BY <2>1, <2>2, <2>3, <2>4 DEF Rev
<1>1. \A i \in 1..Rev : log'[i] = log[i]
  BY <1>0 DEF Extends
<1>2. e.name = n /\ e.kind = kind /\ e.obj = o
  OBVIOUS
<1> HIDE DEF e
<1>3. LogNumbered'
  <2>1. \A i \in 1..(Rev + 1) : i \in 1..Rev \/ i = Rev + 1
    BY <1>0
  <2>2. \A i \in 1..(Rev + 1) : log'[i].obj.rv = i
    BY <1>0, <1>1, <1>2, <2>1 DEF LogNumbered
  <2>3. QED BY <1>0, <2>2 DEF LogNumbered
<1>4. Real(log', n, o)
  BY <1>0, <1>2 DEF Real
<1>5. ASSUME NEW m \in Names, m # n, Present(registry[m])
      PROVE  Real(log', m, registry[m]) /\ \A i \in 1..(Rev + 1) : log'[i].name = m => i <= registry[m].rv
  <2>1. Real(log, m, registry[m]) /\ \A i \in 1..Rev : log[i].name = m => i <= registry[m].rv
    BY <1>5 DEF SnapshotOf
  <2>2. Real(log', m, registry[m])
    BY <1>0, <2>1, RealStable
  <2>3. QED BY <1>0, <1>1, <1>2, <1>5, <2>1, <2>2
<1>6. ASSUME NEW m \in Names, m # n, ~ Present(registry[m])
      PROVE  Gone(log', m, Rev + 1)
  <2>1. Gone(log, m, Rev)
    BY <1>6 DEF SnapshotOf
  <2>2. Gone(log', m, Rev)
    BY <1>0, <2>1, GoneStable
  <2>3. QED BY <1>0, <1>2, <1>6, <2>2 DEF Gone
<1>7. CASE kind = "DELETE"
  <2>1. Deletes(e)
    BY <1>2, <1>7 DEF Deletes
  <2>2. Gone(log', n, Rev + 1)
    BY <1>0, <1>2, <2>1 DEF Gone
  <2>3. registry'[n] = Absent /\ \A m \in Names : m # n => registry'[m] = registry[m]
    BY <1>0, <1>7
  <2>4. ~ Present(registry'[n])
    BY <2>3 DEF Present, Absent
  <2>5. SnapshotOf(log', registry', Rev + 1)
    BY <1>0, <1>5, <1>6, <2>2, <2>3, <2>4 DEF SnapshotOf
  <2>6. QED BY <1>0, <1>3, <1>4, <2>5
<1>8. CASE kind # "DELETE"
  <2>1. registry'[n] = o /\ \A m \in Names : m # n => registry'[m] = registry[m]
    BY <1>0, <1>8
  <2>2. Present(o) /\ \A i \in 1..(Rev + 1) : i <= o.rv
    BY <1>0 DEF Present
  <2>3. SnapshotOf(log', registry', Rev + 1)
    BY <1>0, <1>4, <1>5, <1>6, <2>1, <2>2 DEF SnapshotOf
  <2>4. QED BY <1>0, <1>3, <1>4, <2>3
<1>9. QED BY <1>7, <1>8

\* Whatever others do to the repository leaves the source in sync.
LEMMA RepositorySync ==
    ASSUME RepositoryTypeOK, LogNumbered, SnapshotOf(log, registry, Rev), RepositoryStep
    PROVE  Extends(log, log') /\ LogNumbered' /\ SnapshotOf(log', registry', Rev')
<1> Rev \in Nat /\ Rev + 1 \in Nat
  BY DEF RepositoryTypeOK, Rev
<1>0. PICK n \in Names : SetPredictor(n) \/ MarkDeleted(n) \/ DeletePredictor(n)
  BY DEF RepositoryStep
<1> registry[n] \in Object /\ registry[n].del \in BOOLEAN
  BY DEF RepositoryTypeOK, Object
<1>1. CASE SetPredictor(n)
  <2> DEFINE o == [rv |-> Rev + 1, gen |-> Rev + 1, del |-> registry[n].del]
  <2>1. o \in Object /\ o.rv = Rev + 1
    BY DEF Object
  <2>2. Commit(n, "UPDATE", o)
    BY <1>1, Zenon DEF SetPredictor
  <2> HIDE DEF o
  <2>3. QED BY <2>1, <2>2, CommitSync
<1>2. CASE MarkDeleted(n)
  <2> DEFINE o == Rewritten(registry[n], Rev + 1, TRUE)
  <2>1. o \in Object /\ o.rv = Rev + 1
    BY ObjectType DEF Rewritten
  <2>2. Commit(n, "UPDATE", o)
    BY <1>2 DEF MarkDeleted
  <2> HIDE DEF o
  <2>3. QED BY <2>1, <2>2, CommitSync
<1>3. CASE DeletePredictor(n)
  <2>1. PICK stamped \in DeleteStamps :
              Commit(n, "DELETE", Rewritten(registry[n], Rev + 1, stamped))
    BY <1>3 DEF DeletePredictor
  <2> DEFINE o == Rewritten(registry[n], Rev + 1, stamped)
  <2>2. stamped \in BOOLEAN
    OBVIOUS
  <2>3. o \in Object
    BY <2>2, ObjectType
  <2>4. o.rv = Rev + 1
    BY DEF Rewritten
  <2>5. Commit(n, "DELETE", o)
    BY <2>1
  <2> HIDE DEF o
  <2>6. QED BY <2>3, <2>4, <2>5, CommitSync
<1>4. QED BY <1>0, <1>1, <1>2, <1>3

-----------------------------------------------------------------------------
(* The cache *)

\* offerToCache (cached_predictor_source.go:236-257) of an object that is true
\* keeps the cache true and loses nothing.
LEMMA OfferSync ==
    ASSUME TypeOK, CacheFaithful, QueuedAreGone, NEW n \in Names, NEW o \in Object,
           Real(log, n, o), Offer(n, o), UNCHANGED log
    PROVE  /\ CacheFaithful'
           /\ QueuedAreGone'
           /\ \A m \in Names : cache'[m].rv >= cache[m].rv
           /\ cache'[n].rv >= o.rv \/ Gone(log, n, o.rv)
<1>1. /\ o.rv \in Nat /\ o.rv <= Len(log)
      /\ cache \in [Names -> Object]
      /\ \A m \in Names : cache[m].rv \in Nat
      /\ log \in Seq(Change)
  BY DEF TypeOK, SourceTypeOK, RepositoryTypeOK, Object, Real
<1>2. CASE ~ Newer(cache[n], o) /\ UNCHANGED cacheVars
  BY <1>1, <1>2 DEF Newer, cacheVars, CacheFaithful, QueuedAreGone, Rev
<1>3. CASE /\ Newer(cache[n], o)
           /\ cache' = [cache EXCEPT ![n] = o]
           /\ deletionQueue' = IF o.del /\ ~ cache[n].del
                                 THEN deletionQueue \cup {<<n, o.rv>>}
                                 ELSE deletionQueue
  <2>1. cache'[n] = o /\ \A m \in Names : m # n => cache'[m] = cache[m]
    BY <1>1, <1>3
  <2>2. CacheFaithful'
    BY <2>1 DEF CacheFaithful
  <2>3. QueuedAreGone'
    <3>1. CASE deletionQueue' = deletionQueue
      BY <3>1 DEF QueuedAreGone, Rev
    <3>2. CASE o.del /\ deletionQueue' = deletionQueue \cup {<<n, o.rv>>}
      <4>1. Gone(log, n, o.rv)
        BY <1>1, <3>2, DeletedGone
      <4>2. QED BY <1>1, <3>2, <4>1 DEF QueuedAreGone, Rev
    <3>3. QED BY <1>3, <3>1, <3>2
  <2>4. QED BY <1>1, <1>3, <2>1, <2>2, <2>3 DEF Newer
<1>4. CASE o.del /\ UNCHANGED <<cache, deletionQueue>>
  <2>1. Gone(log, n, o.rv)
    BY <1>1, <1>4, DeletedGone
  <2>2. QED BY <1>1, <1>4, <2>1 DEF CacheFaithful, QueuedAreGone, Rev
<1>5. QED
  BY <1>2, <1>3, <1>4 DEF Offer

-----------------------------------------------------------------------------
(* The inductive invariant *)

CacheKeeps == \A m \in Names : cache'[m].rv >= cache[m].rv \/ Gone(log, m, cache[m].rv)

\* What the type invariant says of the variables the invariant speaks of.
LEMMA Types ==
    ASSUME TypeOK
    PROVE  /\ log \in Seq(Change) /\ Rev = Len(log) /\ Rev \in Nat
           /\ cache \in [Names -> Object] /\ list \in [Names -> Object]
           /\ registry \in [Names -> Object]
           /\ resourceVersion \in Nat /\ next \in Nat /\ next # 0 /\ listRv \in Nat
           /\ \A m \in Names : cache[m].rv \in Nat /\ list[m].rv \in Nat
           /\ \A i \in 1..Rev : log[i].name \in Names /\ log[i].obj \in Object
<1>1. log \in Seq(Change) /\ Rev = Len(log) /\ Rev \in Nat
  BY DEF TypeOK, RepositoryTypeOK, Rev
<1>2. \A i \in 1..Rev : log[i].name \in Names /\ log[i].obj \in Object
  <2> SUFFICES ASSUME NEW i \in 1..Rev PROVE log[i].name \in Names /\ log[i].obj \in Object
    OBVIOUS
  <2>1. log[i] \in Change
    BY <1>1
  <2>2. QED BY <2>1 DEF Change
<1>3. QED BY <1>1, <1>2 DEF TypeOK, RepositoryTypeOK, SourceTypeOK, WatchTypeOK, Object

\* The goroutine's position is not touched by steps that leave its variables,
\* history and cache alone.
LEMMA Frame ==
    ASSUME TypeOK, TypeOK', PositionInv, Extends(log, log'), CacheKeeps
    PROVE  /\ \A i \in 1..Rev : Reflected(log, cache, i) => Reflected(log', cache', i)
           /\ SnapshotOf(log', list, listRv)
           /\ Rev <= Rev'
           /\ \A n \in Names : \A o \in Object : Real(log, n, o) => Real(log', n, o)
<1>1. log \in Seq(Change) /\ Rev = Len(log) /\ cache \in [Names -> Object]
      /\ list \in [Names -> Object] /\ listRv \in Nat
  BY Types
<1>2. log' \in Seq(Change) /\ Rev' = Len(log') /\ cache' \in [Names -> Object]
  BY Types, TypeOK' DEF TypeOK, RepositoryTypeOK, SourceTypeOK, Rev
<1>3. \A i \in 1..Rev : Reflected(log, cache, i) => Reflected(log', cache', i)
  BY <1>1, <1>2, ReflectedStable DEF CacheKeeps
<1>4. SnapshotOf(log', list, listRv)
  BY <1>1, <1>2, SnapshotStable DEF PositionInv
<1>5. \A n \in Names : \A o \in Object : Real(log, n, o) => Real(log', n, o)
  BY <1>1, <1>2, RealStable
<1>6. QED BY <1>1, <1>2, <1>3, <1>4, <1>5 DEF Extends

\* Steps that leave the goroutine where it is.
LEMMA PositionKept ==
    ASSUME TypeOK, TypeOK', PositionInv, Extends(log, log'), CacheKeeps,
           UNCHANGED <<pc, ret, resourceVersion, next, list, listRv, todo, pending>>
    PROVE  PositionInv'
<1>1. /\ \A i \in 1..Rev : Reflected(log, cache, i) => Reflected(log', cache', i)
      /\ SnapshotOf(log', list, listRv)
      /\ Rev <= Rev'
  BY Frame
<1>2. /\ Rev \in Nat /\ Rev' \in Nat /\ Len(log) = Rev
      /\ next \in Nat /\ listRv \in Nat /\ resourceVersion \in Nat
      /\ \A i \in 1..Rev : log'[i] = log[i]
  BY Types, TypeOK' DEF TypeOK, RepositoryTypeOK, Rev, Extends
<1>3. resourceVersion <= Rev /\ listRv <= Rev
  BY <1>2 DEF PositionInv, SnapshotOf
<1>4. SnapshotOf(log', list', listRv') /\ resourceVersion' <= Rev'
  BY <1>1, <1>2, <1>3
<1>5. ReadInv'
  <2>1. At("read")' <=> At("read")
    BY DEF At
  <2>2. ASSUME At("read")
        PROVE  next <= Rev + 1 /\ \A i \in 1..(next - 1) : Reflected(log', cache', i)
    <3>1. next <= Rev + 1 /\ \A i \in 1..(next - 1) : Reflected(log, cache, i)
      BY <2>2 DEF PositionInv, ReadInv
    <3>2. \A i \in 1..(next - 1) : i \in 1..Rev
      BY <1>2, <3>1
    <3>3. QED BY <1>1, <3>1, <3>2
  <2>3. next <= Rev + 1 => next <= Rev' + 1
    <3>1. Rev <= Rev' /\ Rev \in Nat /\ Rev' \in Nat /\ next \in Nat
      BY <1>1, <1>2
    <3>2. \A a, b, c \in Nat : b <= c /\ a <= b + 1 => a <= c + 1
      OBVIOUS
    <3>3. QED BY <3>1, <3>2
  <2>4. QED BY <2>1, <2>2, <2>3 DEF PositionInv, ReadInv, At
<1>6. ListInv'
  BY <1>1, <1>2, <1>3 DEF PositionInv, ListInv, At
<1>7. NoLostUpdate'
  BY <1>1, <1>2, <1>3 DEF PositionInv, NoLostUpdate, Started
<1>8. QED BY <1>4, <1>5, <1>6, <1>7 DEF PositionInv

\* Steps that leave repository, cache, queue and answers alone keep the data
\* part of the invariant.
LEMMA DataKept ==
    ASSUME DataInv, UNCHANGED <<repositoryVars, cacheVars, call>>
    PROVE  DataInv' /\ UNCHANGED <<log, cache, Rev>>
<1>1. UNCHANGED <<log, registry, cache, deletionQueue, call, Rev>>
  BY DEF repositoryVars, cacheVars, Rev
<1>2. LogNumbered' /\ QueuedAreGone' /\ AnswersReal' /\ CacheFaithful'
  BY <1>1 DEF DataInv, LogNumbered, QueuedAreGone, AnswersReal, CacheFaithful
<1>3. SnapshotOf(log', registry', Rev')
  BY <1>1 DEF DataInv
<1>4. QED BY <1>1, <1>2, <1>3 DEF DataInv

\* processEvent (cached_predictor_source.go:192-209) of a true object keeps
\* the data part, and what was reflected stays reflected.
LEMMA ProcessSync ==
    ASSUME TypeOK, DataInv, NEW n \in Names, NEW o \in Object, Real(log, n, o),
           NEW return \in {"items", "deletes", "read"}, ProcessEvent(n, o, return),
           UNCHANGED <<repositoryVars, workVars>>
    PROVE  /\ DataInv'
           /\ CacheKeeps
           /\ Extends(log, log')
           /\ UNCHANGED <<log, Rev>>
           /\ \A i \in 1..o.rv : log[i].name = n => Reflected(log, cache', i)
           /\ \/ pc' = "write" /\ ret' = return /\ pending'.rv = o.rv
              \/ pc' = return
<1>0. /\ log \in Seq(Change) /\ o.rv \in Nat /\ o.rv <= Len(log)
      /\ UNCHANGED <<log, registry, call, Rev>>
  BY Types DEF Object, Real, repositoryVars, workVars, Rev
<1>1. /\ CacheFaithful' /\ QueuedAreGone'
      /\ \A m \in Names : cache'[m].rv >= cache[m].rv
      /\ cache'[n].rv >= o.rv \/ Gone(log, n, o.rv)
  BY <1>0, OfferSync DEF ProcessEvent, DataInv
<1>2. LogNumbered' /\ AnswersReal' /\ SnapshotOf(log', registry', Rev')
  BY <1>0 DEF DataInv, LogNumbered, AnswersReal
<1>3. DataInv'
  BY <1>1, <1>2 DEF DataInv
<1>4. Extends(log, log')
  BY <1>0 DEF Extends
<1>5. ASSUME NEW i \in 1..o.rv, log[i].name = n
      PROVE  Reflected(log, cache', i)
  <2>1. CASE cache'[n].rv >= o.rv
    <3>1. cache'[n].rv \in Nat
      <4>1. cache' \in [Names -> Object]
        BY OfferType DEF ProcessEvent
      <4>2. QED BY <4>1 DEF Object
    <3>2. QED BY <1>0, <1>5, <2>1, <3>1 DEF Reflected
  <2>2. CASE Gone(log, n, o.rv)
    BY <1>0, <1>5, <2>2 DEF Gone, Reflected
  <2>3. QED BY <1>1, <2>1, <2>2
<1>6. (pc' = "write" /\ ret' = return /\ pending'.rv = o.rv) \/ pc' = return
  BY DEF ProcessEvent
<1>7. QED BY <1>0, <1>1, <1>3, <1>4, <1>5, <1>6 DEF CacheKeeps

\* Steps that only move the goroutine, or change its list: data and cache stay.
LEMMA QuietStep ==
    ASSUME TypeOK, DataInv, UNCHANGED <<repositoryVars, cacheVars, workVars>>
    PROVE  /\ DataInv'
           /\ UNCHANGED <<log, cache, registry, Rev>>
           /\ CacheKeeps
           /\ Extends(log, log')
<1>1. DataInv' /\ UNCHANGED <<log, cache, Rev>>
  BY DataKept DEF workVars
<1>2. QED BY <1>1, Types DEF CacheKeeps, Extends, repositoryVars

\* Every step of the source's goroutine
\* (watchrefresh_predictor_source.go:69-186) keeps the invariant.
LEMMA SourceSync ==
    ASSUME TypeOK, TypeOK', DataInv, PositionInv, SourceStep
    PROVE  DataInv' /\ PositionInv'
<1>0. /\ log \in Seq(Change) /\ Rev = Len(log) /\ Rev \in Nat
      /\ resourceVersion \in Nat /\ next \in Nat /\ next # 0 /\ listRv \in Nat
      /\ resourceVersion <= Rev /\ listRv <= Rev
      /\ \A i \in 1..Rev : log[i].name \in Names /\ log[i].obj \in Object
  BY Types DEF PositionInv, SnapshotOf
<1>a. ASSUME TakeList, UNCHANGED log, UNCHANGED Rev, UNCHANGED cache
      PROVE  /\ SnapshotOf(log', list', listRv')
             /\ \A n \in todo' : Present(list'[n])
             /\ \A i \in 1..listRv' : log'[i].name \notin todo' => Reflected(log', cache', i)
  <2>1. SnapshotOf(log', list', listRv') /\ \A n \in todo' : Present(list'[n])
    BY <1>a DEF TakeList, DataInv
  <2>2. ASSUME NEW i \in 1..Rev, log[i].name \notin todo'
        PROVE  Reflected(log, cache, i)
    <3>1. Gone(log, log[i].name, Rev)
      BY <1>0, <1>a, <2>2 DEF TakeList, DataInv, SnapshotOf
    <3>2. QED BY <1>0, <3>1, GoneReflected
  <2>3. QED BY <1>a, <2>1, <2>2 DEF TakeList
<1>1. CASE StartWatch
  <2>1. DataInv' /\ UNCHANGED <<log, cache, Rev>>
    BY <1>1, QuietStep DEF StartWatch, sourceVars
  <2>2. PositionInv'
    BY <1>0, <1>1, <1>a, <2>1
       DEF StartWatch, TakeList, PositionInv, ReadInv, ListInv, At, NoLostUpdate, Started
  <2>3. QED BY <2>1, <2>2
<1>2. CASE StartWatchReturns
  <2>1. DataInv' /\ UNCHANGED <<log, cache, Rev>>
    BY <1>2, QuietStep DEF StartWatchReturns, sourceVars
  <2>2. \A i \in 1..listRv : Reflected(log, cache, i)
    BY <1>0, <1>2 DEF StartWatchReturns, PositionInv, ListInv
  <2>3. PositionInv'
    BY <1>0, <1>2, <2>1, <2>2
       DEF StartWatchReturns, PositionInv, ReadInv, ListInv, At, NoLostUpdate
  <2>4. QED BY <2>1, <2>3
<1>3. CASE SendInitialEvent
  BY <1>3, QuietStep, PositionKept DEF SendInitialEvent
<1>4. CASE InitialEventsSent
  <2>1. DataInv' /\ UNCHANGED <<log, cache, Rev>>
    BY <1>4, QuietStep DEF InitialEventsSent, sourceVars
  <2>2. PositionInv'
    BY <1>0, <1>4, <2>1
       DEF InitialEventsSent, PositionInv, ReadInv, ListInv, At, NoLostUpdate, Started
  <2>3. QED BY <2>1, <2>2
<1>5. CASE WatchEstablished
  <2>1. DataInv' /\ UNCHANGED <<log, cache, Rev>>
    BY <1>5, QuietStep DEF WatchEstablished, sourceVars
  <2>2. resourceVersion <= next' /\ next' <= resourceVersion + 1 /\ next' \in Nat
    BY <1>0, <1>5 DEF WatchEstablished, WatchFrom
  <2>3. \A i \in 1..resourceVersion : Reflected(log, cache, i)
    BY <1>5 DEF WatchEstablished, PositionInv, NoLostUpdate, Started
  <2>4. PositionInv'
    BY <1>0, <1>5, <2>1, <2>2, <2>3
       DEF WatchEstablished, PositionInv, ReadInv, ListInv, At, NoLostUpdate
  <2>5. QED BY <2>1, <2>4
<1>6. CASE WatchTooOld
  <2>1. DataInv' /\ UNCHANGED <<log, cache, Rev>>
    BY <1>6, QuietStep DEF WatchTooOld, sourceVars
  <2>2. PositionInv'
    BY <1>0, <1>6, <2>1
       DEF WatchTooOld, PositionInv, ReadInv, ListInv, At, NoLostUpdate, Started
  <2>3. QED BY <2>1, <2>2
<1>7. CASE ReadEvent
  <2> DEFINE n == log[next].name
             o == log[next].obj
  <2>1. next \in 1..Rev /\ n \in Names /\ o \in Object /\ o.rv = next /\ Real(log, n, o)
    <3>1. next \in 1..Rev
      BY <1>0, <1>7 DEF ReadEvent
    <3>2. n \in Names /\ o \in Object /\ o.rv = next
      BY <1>0, <3>1 DEF DataInv, LogNumbered
    <3>3. QED BY <1>0, <3>1, <3>2 DEF Real
  <2>2. ProcessEvent(n, o, "read") /\ UNCHANGED <<repositoryVars, workVars>> /\ next' = next + 1
    BY <1>7 DEF ReadEvent
  <2>3. pc = "read" /\ UNCHANGED <<resourceVersion, list, listRv, todo>>
    BY <1>7 DEF ReadEvent
  <2>4. \A i \in 1..(next - 1) : Reflected(log, cache, i)
    BY <2>3 DEF PositionInv, ReadInv, At
  <2>5. resourceVersion <= next
    BY <2>3 DEF PositionInv, ReadInv
  <2>6. log[next].name = n
    OBVIOUS
  <2> HIDE DEF n, o
  <2>7. /\ DataInv' /\ CacheKeeps /\ Extends(log, log') /\ UNCHANGED <<log, Rev>>
        /\ \A i \in 1..next : log[i].name = n => Reflected(log, cache', i)
        /\ \/ pc' = "write" /\ ret' = "read" /\ pending'.rv = next
           \/ pc' = "read"
    BY <2>1, <2>2, ProcessSync
  <2>8. /\ \A i \in 1..Rev : Reflected(log, cache, i) => Reflected(log, cache', i)
        /\ SnapshotOf(log, list, listRv)
    BY <2>7, Frame
  <2>9. \A i \in 1..next : Reflected(log, cache', i)
    BY <1>0, <2>1, <2>4, <2>6, <2>7, <2>8
  <2>10. SnapshotOf(log', list', listRv') /\ resourceVersion' <= Rev'
    BY <1>0, <2>3, <2>7, <2>8
  <2>11. ReadInv'
    BY <1>0, <2>1, <2>2, <2>3, <2>5, <2>7, <2>9 DEF ReadInv, At
  <2>12. ListInv'
    BY <2>7 DEF ListInv, At
  <2>13. NoLostUpdate'
    BY <1>0, <2>1, <2>3, <2>5, <2>7, <2>9 DEF NoLostUpdate
  <2>14. QED BY <2>7, <2>10, <2>11, <2>12, <2>13 DEF PositionInv
<1>8. CASE PollMisses
  <2>1. /\ cache' = [n \in Names |-> IF <<n, cache[n].rv>> \in deletionQueue
                                       THEN Absent ELSE cache[n]]
        /\ deletionQueue' = {}
        /\ UNCHANGED <<log, registry, call, Rev>>
    BY <1>8 DEF PollMisses, PruneDeletions, PopExpired, repositoryVars, workVars, Rev
  <2>2. CacheFaithful'
    BY <2>1 DEF DataInv, CacheFaithful, Present, Absent
  <2>3. LogNumbered' /\ QueuedAreGone' /\ AnswersReal' /\ SnapshotOf(log', registry', Rev')
    BY <2>1 DEF DataInv, LogNumbered, QueuedAreGone, AnswersReal
  <2>4. CacheKeeps
    <3> SUFFICES ASSUME NEW m \in Names
                 PROVE  cache'[m].rv >= cache[m].rv \/ Gone(log, m, cache[m].rv)
      BY DEF CacheKeeps
    <3>1. CASE <<m, cache[m].rv>> \in deletionQueue
      BY <3>1 DEF DataInv, QueuedAreGone
    <3>2. CASE <<m, cache[m].rv>> \notin deletionQueue
      BY <2>1, <3>2, Types
    <3>3. QED BY <3>1, <3>2
  <2>5. Extends(log, log')
    BY <1>0, <2>1 DEF Extends
  <2>6. PositionInv'
    BY <1>8, <2>4, <2>5, PositionKept DEF PollMisses, watchVars
  <2>7. QED BY <2>2, <2>3, <2>6 DEF DataInv
<1>9. CASE StreamEnds
  <2>1. DataInv' /\ UNCHANGED <<log, cache, Rev>>
    BY <1>9, QuietStep DEF StreamEnds, sourceVars
  <2>2. PositionInv'
    BY <1>0, <1>9, <2>1
       DEF StreamEnds, PositionInv, ReadInv, ListInv, At, NoLostUpdate, Started
  <2>3. QED BY <2>1, <2>2
<1>10. CASE WriteEvent
  <2>1. DataInv' /\ UNCHANGED <<log, cache, Rev>>
    BY <1>10, QuietStep DEF WriteEvent
  <2>2. CASE ret = "read"
    <3>1. /\ resourceVersion' = next - 1 /\ next <= Rev + 1 /\ pc' = "read"
          /\ \A i \in 1..(next - 1) : Reflected(log, cache, i)
      BY <1>10, <2>2 DEF WriteEvent, PositionInv, ReadInv, At
    <3>2. QED
      BY <1>0, <1>10, <2>1, <2>2, <3>1
         DEF WriteEvent, PositionInv, ReadInv, ListInv, At, NoLostUpdate
  <2>3. CASE ret \in {"items", "deletes"}
    BY <1>0, <1>10, <2>1, <2>3
       DEF WriteEvent, PositionInv, ReadInv, ListInv, At, NoLostUpdate, Started
  <2>4. QED BY <2>2, <2>3 DEF TypeOK, WatchTypeOK
<1>11. CASE WriteBlocks
  BY <1>11, QuietStep, PositionKept DEF WriteBlocks, watchVars
<1>12. CASE Refresh
  <2>1. DataInv' /\ UNCHANGED <<log, cache, Rev>>
    BY <1>12, QuietStep DEF Refresh, sourceVars
  <2>2. PositionInv'
    BY <1>0, <1>12, <1>a, <2>1
       DEF Refresh, TakeList, PositionInv, ReadInv, ListInv, At, NoLostUpdate, Started
  <2>3. QED BY <2>1, <2>2
<1>13. CASE RefreshItemsDone
  <2>1. DataInv' /\ UNCHANGED <<log, cache, Rev>>
    BY <1>13, QuietStep DEF RefreshItemsDone, sourceVars
  <2>2. PositionInv'
    BY <1>0, <1>13, <2>1
       DEF RefreshItemsDone, ToDelete, PositionInv, ReadInv, ListInv, At, NoLostUpdate, Started
  <2>3. QED BY <2>1, <2>2
<1>14. CASE RefreshDone
  <2>1. DataInv' /\ UNCHANGED <<log, cache, Rev>>
    BY <1>14, QuietStep DEF RefreshDone, sourceVars
  <2>2. PositionInv'
    BY <1>0, <1>14, <2>1
       DEF RefreshDone, PositionInv, ReadInv, ListInv, At, NoLostUpdate, Started
  <2>3. QED BY <2>1, <2>2
<1>15. ASSUME NEW n \in Names, Populate(n)
       PROVE  DataInv' /\ PositionInv'
  <2>1. /\ pc = "populate" /\ n \in todo /\ todo' = todo \ {n}
        /\ cache' = [cache EXCEPT ![n] = list[n]]
        /\ cache'[n] = list[n] /\ \A m \in Names : m # n => cache'[m] = cache[m]
        /\ UNCHANGED <<log, registry, call, deletionQueue, Rev>>
        /\ UNCHANGED <<pc, ret, resourceVersion, next, list, listRv, pending>>
    BY <1>15, Types DEF Populate, repositoryVars, workVars, Rev
  <2>2. Present(list[n]) /\ Real(log, n, list[n]) /\ list[n].rv \in Nat
    BY <2>1, Types DEF PositionInv, ListInv, SnapshotOf
  <2>3. CacheFaithful'
    BY <2>1, <2>2 DEF DataInv, CacheFaithful
  <2>4. LogNumbered' /\ QueuedAreGone' /\ AnswersReal' /\ SnapshotOf(log', registry', Rev')
    BY <2>1 DEF DataInv, LogNumbered, QueuedAreGone, AnswersReal
  <2>5. ASSUME NEW i \in 1..listRv, log[i].name \notin todo'
        PROVE  Reflected(log, cache', i)
    <3>1. CASE log[i].name = n
      <4>1. i <= list[n].rv
        BY <2>2, <3>1 DEF PositionInv, SnapshotOf
      <4>2. QED BY <1>0, <2>1, <2>2, <3>1, <4>1 DEF Reflected
    <3>2. CASE log[i].name # n
      <4>1. Reflected(log, cache, i) /\ log[i].name \in Names
        BY <1>0, <2>1, <2>5, <3>2 DEF PositionInv, ListInv
      <4>2. QED BY <2>1, <3>2, <4>1 DEF Reflected
    <3>3. QED BY <3>1, <3>2
  <2>6. PositionInv'
    BY <1>0, <2>1, <2>5 DEF PositionInv, ReadInv, ListInv, At, NoLostUpdate, Started
  <2>7. QED BY <2>3, <2>4, <2>6 DEF DataInv
<1>16. ASSUME NEW n \in Names, RefreshItem(n)
       PROVE  DataInv' /\ PositionInv'
  <2> DEFINE o == list[n]
  <2>1. /\ pc = "items" /\ n \in todo /\ todo' = todo \ {n}
        /\ ProcessEvent(n, o, "items") /\ UNCHANGED <<repositoryVars, workVars>>
        /\ UNCHANGED <<resourceVersion, next, list, listRv>>
    BY <1>16 DEF RefreshItem
  <2>2. Present(list[n]) /\ Real(log, n, o) /\ o \in Object
    BY <2>1, Types DEF PositionInv, ListInv, SnapshotOf, At
  <2>3. \A i \in 1..listRv : log[i].name = n => i <= o.rv
    BY <2>2 DEF PositionInv, SnapshotOf
  <2> HIDE DEF o
  <2>4. /\ DataInv' /\ CacheKeeps /\ Extends(log, log') /\ UNCHANGED <<log, Rev>>
        /\ \A i \in 1..o.rv : log[i].name = n => Reflected(log, cache', i)
        /\ \/ pc' = "write" /\ ret' = "items"
           \/ pc' = "items"
    BY <2>1, <2>2, ProcessSync
  <2>5. /\ \A i \in 1..Rev : Reflected(log, cache, i) => Reflected(log, cache', i)
        /\ SnapshotOf(log, list, listRv)
    BY <2>4, Frame
  <2>6. ASSUME NEW i \in 1..listRv, log[i].name \notin todo'
        PROVE  Reflected(log, cache', i)
    <3>1. CASE log[i].name = n
      BY <2>2, <2>3, <2>4, <3>1 DEF Object
    <3>2. CASE log[i].name # n
      <4>1. Reflected(log, cache, i)
        BY <2>1, <2>6, <3>2 DEF PositionInv, ListInv, At
      <4>2. QED BY <1>0, <2>5, <4>1
    <3>3. QED BY <3>1, <3>2
  <2>7. SnapshotOf(log', list', listRv') /\ resourceVersion' <= Rev'
    BY <1>0, <2>1, <2>4, <2>5
  <2>8. ReadInv'
    BY <2>4 DEF ReadInv, At
  <2>9. ListInv'
    BY <2>1, <2>4, <2>6 DEF PositionInv, ListInv, At
  <2>10. NoLostUpdate'
    <3>1. \A i \in 1..resourceVersion : Reflected(log, cache, i)
      BY <2>1 DEF PositionInv, NoLostUpdate, Started
    <3>2. \A i \in 1..resourceVersion : i \in 1..Rev
      BY <1>0
    <3>3. QED BY <2>1, <2>4, <2>5, <3>1, <3>2 DEF NoLostUpdate
  <2>11. QED BY <2>4, <2>7, <2>8, <2>9, <2>10 DEF PositionInv
<1>17. ASSUME NEW n \in Names, RefreshDelete(n)
       PROVE  DataInv' /\ PositionInv'
  <2> DEFINE o == Tombstone(listRv)
  <2>1. /\ pc = "deletes" /\ n \in todo /\ todo' = todo \ {n}
        /\ ProcessEvent(n, o, "deletes") /\ UNCHANGED <<repositoryVars, workVars>>
        /\ UNCHANGED <<resourceVersion, next, list, listRv>>
    BY <1>17 DEF RefreshDelete
  <2>2. Gone(log, n, listRv)
    BY <2>1 DEF PositionInv, ListInv, SnapshotOf, At
  <2>3. o \in Object
    BY <1>0, ObjectType
  <2>4. Real(log, n, o)
    BY <1>0, <2>2 DEF Real, Tombstone
  <2> HIDE DEF o
  <2>5. /\ DataInv' /\ CacheKeeps /\ Extends(log, log') /\ UNCHANGED <<log, Rev>>
        /\ \/ pc' = "write" /\ ret' = "deletes"
           \/ pc' = "deletes"
    BY <2>1, <2>3, <2>4, ProcessSync
  <2>6. /\ \A i \in 1..Rev : Reflected(log, cache, i) => Reflected(log, cache', i)
        /\ SnapshotOf(log, list, listRv)
    BY <2>5, Frame
  <2>7. \A i \in 1..Rev : i <= listRv \/ i <= resourceVersion => Reflected(log, cache', i)
    <3>1. \A i \in 1..listRv : Reflected(log, cache, i)
      BY <2>1 DEF PositionInv, ListInv, At
    <3>2. \A i \in 1..resourceVersion : Reflected(log, cache, i)
      BY <2>1 DEF PositionInv, NoLostUpdate, Started
    <3>3. QED BY <1>0, <2>6, <3>1, <3>2
  <2>8. SnapshotOf(log', list', listRv') /\ resourceVersion' <= Rev'
    BY <1>0, <2>1, <2>5, <2>6
  <2>9. ReadInv'
    BY <2>5 DEF ReadInv, At
  <2>10. ListInv'
    BY <1>0, <2>1, <2>5, <2>7 DEF PositionInv, ListInv, At
  <2>11. NoLostUpdate'
    BY <1>0, <2>1, <2>5, <2>7 DEF NoLostUpdate
  <2>12. QED BY <2>5, <2>8, <2>9, <2>10, <2>11 DEF PositionInv
<1>18. QED
  BY <1>1, <1>2, <1>3, <1>4, <1>5, <1>6, <1>7, <1>8, <1>9, <1>10, <1>11, <1>12, <1>13,
     <1>14, <1>15, <1>16, <1>17 DEF SourceStep

\* Dispatch, Reconcile and every step of UpdateStatus
\* (cached_predictor_source.go:126-147) keep the invariant.
LEMMA WorkSync ==
    ASSUME TypeOK, TypeOK', DataInv, PositionInv, WorkStep, UNCHANGED watchVars
    PROVE  DataInv' /\ PositionInv'
<1>0. /\ log \in Seq(Change) /\ Rev = Len(log) /\ Rev \in Nat /\ Rev + 1 \in Nat
      /\ log' \in Seq(Change)
      /\ call \in [Names -> Calls]
      /\ registry \in [Names -> Object]
      /\ UNCHANGED <<pc, ret, resourceVersion, next, list, listRv, todo, pending>>
  BY Types DEF TypeOK, RepositoryTypeOK, SourceTypeOK, watchVars
<1>a. ASSUME Extends(log, log'), CacheKeeps
      PROVE  PositionInv'
  BY <1>0, <1>a, PositionKept
\* Steps that leave the repository and the cache alone.
<1>b. ASSUME UNCHANGED <<repositoryVars, cacheVars>>,
             \A m \in Names : call'[m].phase = "apply" =>
                 call'[m] = call[m] \/ Real(log, m, call'[m].resp)
      PROVE  DataInv' /\ PositionInv'
  <2>1. UNCHANGED <<log, registry, cache, deletionQueue, Rev>>
    BY <1>b DEF repositoryVars, cacheVars, Rev
  <2>2. AnswersReal'
    BY <1>b, <2>1 DEF DataInv, AnswersReal
  <2>3. LogNumbered' /\ QueuedAreGone' /\ CacheFaithful' /\ SnapshotOf(log', registry', Rev')
    BY <2>1 DEF DataInv, LogNumbered, QueuedAreGone, CacheFaithful
  <2>4. Extends(log, log') /\ CacheKeeps
    BY <1>0, <2>1, Types DEF Extends, CacheKeeps
  <2>5. QED BY <1>a, <2>2, <2>3, <2>4 DEF DataInv
<1>c. Idle.phase = "idle"
  BY DEF Idle, CallIn
<1>1. CASE Dispatch /\ UNCHANGED repositoryVars
  BY <1>1, <1>b DEF Dispatch
<1>2. ASSUME NEW n \in Names, Reconcile(n), UNCHANGED repositoryVars
      PROVE  DataInv' /\ PositionInv'
  <2>1. call' = call \/ call' = [call EXCEPT ![n] = CallIn("check", Get(n), Absent, FALSE)]
    BY <1>2 DEF Reconcile
  <2>2. CallIn("check", Get(n), Absent, FALSE).phase = "check"
    BY DEF CallIn
  <2>3. \A m \in Names : call'[m].phase = "apply" => call'[m] = call[m]
    BY <1>0, <2>1, <2>2
  <2>4. QED BY <1>2, <1>b, <2>3 DEF Reconcile
<1>3. ASSUME NEW n \in Names, UpdateStatusCheck(n)
      PROVE  DataInv' /\ PositionInv'
  <2>1. \/ call' = [call EXCEPT ![n] = Idle]
        \/ call' = [call EXCEPT ![n] = CallIn("remote", call[n].arg, Absent, FALSE)]
    BY <1>3 DEF UpdateStatusCheck, Return
  <2>2. CallIn("remote", call[n].arg, Absent, FALSE).phase = "remote"
    BY DEF CallIn
  <2>3. \A m \in Names : call'[m].phase = "apply" => call'[m] = call[m]
    BY <1>0, <1>c, <2>1, <2>2
  <2>4. QED BY <1>3, <1>b, <2>3 DEF UpdateStatusCheck
<1>4. ASSUME NEW n \in Names, UpdateStatusRemote(n)
      PROVE  DataInv' /\ PositionInv'
  <2> DEFINE Answered(resp, ok) == call' = [call EXCEPT ![n] = CallIn("apply", call[n].arg, resp, ok)]
             w == Rewritten(registry[n], Rev + 1, FALSE)
  <2>0. UNCHANGED cacheVars
    BY <1>4 DEF UpdateStatusRemote
  <2>1. CASE WriteStatus(n) /\ (Answered(w, TRUE) \/ Return(n, FALSE))
    <3>1. w \in Object
      BY <1>0, ObjectType
    <3>2. w.rv = Rev + 1 /\ Commit(n, "UPDATE", w)
      BY <2>1 DEF WriteStatus, Rewritten
    <3> HIDE DEF w
    <3>3. /\ Extends(log, log') /\ LogNumbered' /\ SnapshotOf(log', registry', Rev')
          /\ Real(log', n, w)
      BY <3>1, <3>2, CommitSync DEF TypeOK, DataInv
    <3>4. CacheKeeps
      BY <2>0, Types DEF CacheKeeps, cacheVars
    <3>5. \A m \in Names : \A o \in Object : Real(log, m, o) => Real(log', m, o)
      BY <3>3, <3>4, Frame
    <3>6. CacheFaithful'
      BY <2>0, <3>5, Types DEF DataInv, CacheFaithful, cacheVars
    <3>7. QueuedAreGone'
      <4>1. ASSUME NEW e \in deletionQueue
            PROVE  e[2] <= Rev' /\ Gone(log', e[1], e[2])
        <5>1. e[2] \in Nat /\ e[2] <= Rev /\ Gone(log, e[1], e[2])
          BY <4>1 DEF TypeOK, SourceTypeOK, DataInv, QueuedAreGone
        <5>2. Gone(log', e[1], e[2])
          BY <1>0, <3>3, <5>1, GoneStable
        <5>3. Rev' = Len(log') /\ Len(log') \in Nat /\ Rev <= Len(log')
          BY <1>0, <3>3 DEF Extends, Rev
        <5>4. QED BY <1>0, <5>1, <5>2, <5>3
      <4>2. QED BY <2>0, <4>1 DEF QueuedAreGone, cacheVars
    <3>8. AnswersReal'
      <4>1. \A m \in Names : call[m].resp \in Object
        BY <1>0 DEF Calls
      <4>2. \A m \in Names : call'[m].phase = "apply" =>
                call'[m] = call[m] \/ (m = n /\ call'[m].resp = w)
        <5>1. CallIn("apply", call[n].arg, w, TRUE).resp = w
          BY DEF CallIn
        <5>2. \/ call' = [call EXCEPT ![n] = CallIn("apply", call[n].arg, w, TRUE)]
              \/ call' = [call EXCEPT ![n] = Idle]
          BY <2>1 DEF Return
        <5>3. QED BY <1>0, <1>c, <5>1, <5>2
      <4>3. QED BY <3>3, <3>5, <4>1, <4>2 DEF DataInv, AnswersReal
    <3>9. QED BY <1>a, <3>3, <3>4, <3>6, <3>7, <3>8 DEF DataInv
  <2>2. CASE Present(registry[n]) /\ Answered(registry[n], FALSE) /\ UNCHANGED repositoryVars
    <3>1. Real(log, n, registry[n])
      BY <2>2 DEF DataInv, SnapshotOf
    <3>2. \A m \in Names : m = n \/ call'[m] = call[m]
      BY <1>0, <2>2
    <3>3. call'[n].resp = registry[n]
      <4>1. CallIn("apply", call[n].arg, registry[n], FALSE).resp = registry[n]
        BY DEF CallIn
      <4>2. QED BY <1>0, <2>2, <4>1
    <3>4. QED BY <1>b, <2>0, <2>2, <3>1, <3>2, <3>3
  <2>3. CASE ~ Present(registry[n]) /\ Answered(Tombstone(Rev), FALSE) /\ UNCHANGED repositoryVars
    <3>1. Gone(log, n, Rev)
      BY <2>3 DEF DataInv, SnapshotOf
    <3>2. Real(log, n, Tombstone(Rev))
      BY <1>0, <3>1 DEF Real, Tombstone
    <3>3. \A m \in Names : m = n \/ call'[m] = call[m]
      BY <1>0, <2>3
    <3>4. call'[n].resp = Tombstone(Rev)
      <4>1. CallIn("apply", call[n].arg, Tombstone(Rev), FALSE).resp = Tombstone(Rev)
        BY DEF CallIn
      <4>2. QED BY <1>0, <2>3, <4>1
    <3>5. QED BY <1>b, <2>0, <2>3, <3>2, <3>3, <3>4
  <2>4. CASE Return(n, FALSE) /\ UNCHANGED repositoryVars
    BY <1>0, <1>b, <1>c, <2>0, <2>4 DEF Return
  <2>5. QED
    BY <1>4, <2>1, <2>2, <2>3, <2>4 DEF UpdateStatusRemote
<1>5. ASSUME NEW n \in Names, UpdateStatusApply(n)
      PROVE  DataInv' /\ PositionInv'
  <2>1. /\ call[n].resp \in Object /\ Real(log, n, call[n].resp)
        /\ Offer(n, call[n].resp)
        /\ call' = [call EXCEPT ![n] = Idle]
        /\ UNCHANGED <<log, registry, Rev>>
    BY <1>0, <1>5 DEF UpdateStatusApply, Return, DataInv, AnswersReal, Calls, repositoryVars, Rev
  <2>2. CacheFaithful' /\ QueuedAreGone' /\ \A m \in Names : cache'[m].rv >= cache[m].rv
    BY <2>1, OfferSync DEF DataInv
  <2>3. LogNumbered' /\ AnswersReal' /\ SnapshotOf(log', registry', Rev')
    BY <1>0, <1>c, <2>1 DEF DataInv, LogNumbered, AnswersReal
  <2>4. CacheKeeps /\ Extends(log, log')
    BY <1>0, <2>1, <2>2 DEF CacheKeeps, Extends
  <2>5. QED BY <1>a, <2>2, <2>3, <2>4 DEF DataInv
<1>6. QED
  BY <1>1, <1>2, <1>3, <1>4, <1>5 DEF WorkStep

\* Commits of the repository keep the invariant wherever the goroutine is.
LEMMA EnvironmentSync ==
    ASSUME TypeOK, TypeOK', DataInv, PositionInv, RepositoryStep,
           UNCHANGED <<sourceVars, watchVars>>
    PROVE  DataInv' /\ PositionInv'
<1>1. Extends(log, log') /\ LogNumbered' /\ SnapshotOf(log', registry', Rev')
  BY RepositorySync DEF TypeOK, DataInv
<1>2. UNCHANGED <<cache, deletionQueue, call>> /\ UNCHANGED <<pc, ret, resourceVersion, next, list, listRv, todo, pending>>
  BY DEF sourceVars, cacheVars, workVars, watchVars
<1>3. CacheKeeps
  BY <1>2, Types DEF CacheKeeps
<1>4. PositionInv'
  BY <1>1, <1>2, <1>3, PositionKept
<1>5. \A m \in Names : \A o \in Object : Real(log, m, o) => Real(log', m, o)
  BY <1>1, <1>3, Frame
<1>6. CacheFaithful'
  BY <1>2, <1>5, Types DEF DataInv, CacheFaithful
<1>7. AnswersReal'
  <2>1. \A m \in Names : call[m].resp \in Object
    BY DEF TypeOK, SourceTypeOK, Calls
  <2>2. QED BY <1>2, <1>5, <2>1 DEF DataInv, AnswersReal
<1>8. QueuedAreGone'
  <2>1. ASSUME NEW e \in deletionQueue
        PROVE  e[2] <= Rev' /\ Gone(log', e[1], e[2])
    <3>0. log \in Seq(Change) /\ log' \in Seq(Change) /\ Rev = Len(log) /\ Rev' = Len(log')
      BY DEF TypeOK, RepositoryTypeOK, Rev
    <3>1. e[2] \in Nat /\ e[2] <= Rev /\ Gone(log, e[1], e[2])
      BY <2>1 DEF TypeOK, SourceTypeOK, DataInv, QueuedAreGone
    <3>2. Gone(log', e[1], e[2])
      BY <1>1, <3>0, <3>1, GoneStable
    <3>3. Len(log') \in Nat /\ Len(log) \in Nat /\ Len(log) <= Len(log')
      BY <1>1, <3>0 DEF Extends
    <3>4. QED BY <3>0, <3>1, <3>2, <3>3
  <2>2. QED BY <1>2, <2>1 DEF QueuedAreGone
<1>9. QED BY <1>1, <1>4, <1>6, <1>7, <1>8 DEF DataInv

\* The invariant holds before StartWatch (watchrefresh_predictor_source.go:69)
\* has done anything.
LEMMA InitSync == Init => DataInv /\ PositionInv
<1> SUFFICES ASSUME Init PROVE DataInv /\ PositionInv
  OBVIOUS
<1>1. Rev = 0 /\ log = <<>> /\ Len(log) = 0
  BY DEF Init, RepositoryInit, Rev
<1>2. \A n : Gone(log, n, 0)
  BY DEF Gone
<1>3. ~ Present(Absent) /\ Idle.phase = "idle"
  BY DEF Present, Absent, Idle, CallIn
<1>4. DataInv
  BY <1>1, <1>2, <1>3
     DEF Init, RepositoryInit, SourceInit, DataInv, LogNumbered, SnapshotOf, QueuedAreGone,
         AnswersReal, CacheFaithful
<1>5. PositionInv
  BY <1>1, <1>2, <1>3
     DEF Init, PositionInv, SnapshotOf, ReadInv, ListInv, At, NoLostUpdate, Started
<1>6. QED BY <1>4, <1>5

\* Every step of the source, the controllers and the repository keeps the
\* invariant.
LEMMA NextSync == TypeOK /\ TypeOK' /\ DataInv /\ PositionInv /\ [Next]_vars => DataInv' /\ PositionInv'
<1> SUFFICES ASSUME TypeOK, TypeOK', DataInv, PositionInv, [Next]_vars
             PROVE  DataInv' /\ PositionInv'
  OBVIOUS
<1>1. CASE UNCHANGED vars
  <2>1. UNCHANGED <<repositoryVars, cacheVars, workVars>> /\ UNCHANGED watchVars
    BY <1>1 DEF vars, sourceVars
  <2>2. UNCHANGED <<pc, ret, resourceVersion, next, list, listRv, todo, pending>>
    BY <2>1 DEF watchVars
  <2>3. QED BY <2>1, <2>2, QuietStep, PositionKept
<1>2. QED
  BY <1>1, SourceSync, WorkSync, EnvironmentSync DEF Next

(***************************************************************************)
(* The inductive invariant of the source: what is queued, listed, answered *)
(* and cached is true of the repository's history, and what the stream and *)
(* the list have passed is in the cache.                                   *)
(***************************************************************************)
THEOREM SourceStaysInSync == Spec => []SyncInv
<1>1. Init => SyncInv
  BY InitSync DEF SyncInv
<1>2. TypeOK /\ TypeOK' /\ SyncInv /\ [Next]_vars => SyncInv'
  BY NextSync DEF SyncInv
<1>3. QED
  BY <1>1, <1>2, TypeCorrect, PTL DEF Spec

(***************************************************************************)
(* No change up to the watch position is ever missing from the cache,      *)
(* although streams end at any point, lists are applied one object at a    *)
(* time with the lock released in between, and status answers arrive late. *)
(***************************************************************************)
THEOREM UpdatesAreNotLost == Spec => []NoLostUpdate
<1>1. SyncInv => NoLostUpdate
  BY DEF SyncInv, PositionInv
<1>2. QED BY <1>1, SourceStaysInSync, PTL

(***************************************************************************)
(* Every cached object was the repository's at its version, or stands for  *)
(* a name deleted by then.                                                 *)
(***************************************************************************)
THEOREM CacheIsFaithful == Spec => []CacheFaithful
<1>1. SyncInv => CacheFaithful
  BY DEF SyncInv, DataInv
<1>2. QED BY <1>1, SourceStaysInSync, PTL

(***************************************************************************)
(* The version the next watch starts from never decreases.                 *)
(***************************************************************************)
THEOREM WatchVersionIsMonotone == Spec => WatchVersionMonotone
<1>1. TypeOK /\ SyncInv /\ [Next]_vars => [resourceVersion' >= resourceVersion]_vars
  <2> SUFFICES ASSUME TypeOK, PositionInv, Next PROVE resourceVersion' >= resourceVersion
    BY DEF SyncInv
  <2>0. resourceVersion \in Nat
    BY Types
  <2>1. CASE UNCHANGED resourceVersion
    BY <2>0, <2>1
  <2>2. CASE StartWatchReturns
    BY <2>2 DEF StartWatchReturns, PositionInv, ListInv
  <2>3. CASE RefreshDone
    BY <2>3 DEF RefreshDone, PositionInv, ListInv, At
  <2>4. CASE WriteEvent
    <3>1. CASE ret = "read"
      <4>1. resourceVersion < next /\ resourceVersion' = next - 1 /\ next \in Nat
        BY <2>4, <3>1, Types DEF WriteEvent, PositionInv, ReadInv
      <4>2. QED BY <2>0, <4>1
    <3>2. CASE ret # "read"
      BY <2>0, <2>4, <3>2 DEF WriteEvent
    <3>3. QED BY <3>1, <3>2
  <2>5. QED
    BY <2>1, <2>2, <2>3, <2>4
       DEF Next, SourceStep, StartWatch, SendInitialEvent, InitialEventsSent,
           WatchEstablished, WatchTooOld, ReadEvent, PollMisses, StreamEnds, WriteBlocks,
           Refresh, RefreshItemsDone, Populate, RefreshItem, RefreshDelete, watchVars
<1>2. QED
  BY <1>1, SourceStaysInSync, TypeCorrect, PTL DEF Spec, WatchVersionMonotone

-----------------------------------------------------------------------------
(* What the source promises: every change is announced.                    *)

Sent(s) == {s[i] : i \in DOMAIN s}

Known == [n \in Names |-> Get(n).gen]

\* A queue gains what is appended and loses what is taken.
LEMMA SentAppend ==
    ASSUME NEW S, NEW s \in Seq(S), NEW x \in S
    PROVE  Sent(Append(s, x)) = Sent(s) \cup {x}
<1>1. /\ Len(s) \in Nat /\ DOMAIN s = 1..Len(s) /\ DOMAIN Append(s, x) = 1..(Len(s) + 1)
      /\ Append(s, x)[Len(s) + 1] = x
      /\ \A i \in 1..Len(s) : Append(s, x)[i] = s[i]
  OBVIOUS
<1>2. QED BY <1>1 DEF Sent

\* The head of a queue and the rest of it are all there is.
LEMMA SentTail ==
    ASSUME NEW S, NEW s \in Seq(S), s # <<>>
    PROVE  Sent(s) = {Head(s)} \cup Sent(Tail(s))
<1>1. /\ Len(s) \in Nat \ {0} /\ DOMAIN s = 1..Len(s) /\ DOMAIN Tail(s) = 1..(Len(s) - 1)
      /\ Head(s) = s[1]
      /\ \A i \in 1..(Len(s) - 1) : Tail(s)[i] = s[i + 1]
  OBVIOUS
<1>2. ASSUME NEW i \in 2..Len(s) PROVE s[i] \in Sent(Tail(s))
  <2>1. i - 1 \in 1..(Len(s) - 1) /\ (i - 1) + 1 = i
    BY <1>1
  <2>2. Tail(s)[i - 1] = s[i]
    BY <1>1, <2>1
  <2>3. QED BY <1>1, <2>1, <2>2 DEF Sent
<1>3. \A i \in 1..Len(s) : i = 1 \/ i \in 2..Len(s)
  BY <1>1
<1>4. \A i \in 1..(Len(s) - 1) : i + 1 \in 1..Len(s)
  BY <1>1
<1>5. 1 \in 1..Len(s)
  BY <1>1
<1>6. QED BY <1>1, <1>2, <1>3, <1>4, <1>5 DEF Sent

\* What is on its way, part by part.
LEMMA OnTheWayParts ==
    /\ OnTheWay = dirty \cup (Names \cap (Sent(outChan) \cup Sent(initialEvents)
                                        \cup (IF pc = "write" THEN {pending.name} ELSE {})))
    /\ OnTheWay' = dirty' \cup (Names \cap (Sent(outChan') \cup Sent(initialEvents')
                                        \cup (IF pc' = "write" THEN {pending'.name} ELSE {})))
BY DEF OnTheWay, Sent

\* What Get answers (cached_predictor_source.go:108).
LEMMA GetGen ==
    /\ \A n : Get(n).gen = IF Present(cache[n]) /\ ~ cache[n].del THEN cache[n].gen ELSE 0
    /\ \A n : Get(n)'.gen = IF Present(cache'[n]) /\ ~ cache'[n].del THEN cache'[n].gen ELSE 0
BY DEF Get, Absent

\* The promise, in the terms of this source.
LEMMA PromiseSteps ==
    /\ Promise!svars = <<Known, observed, OnTheWay>>
    /\ Promise!svars' = <<Known', observed', OnTheWay'>>
    /\ \A n \in Names : /\ Known'[n] \in Nat \ {Known[n]}
                        /\ Known' = [Known EXCEPT ![n] = Known'[n]]
                        /\ OnTheWay' = OnTheWay \cup {n} /\ observed' = observed
                        => Promise!Next
    /\ \A n \in Names : Known' = Known /\ OnTheWay' = OnTheWay \cup {n} /\ observed' = observed
                        => Promise!Next
    /\ \A n \in Names : /\ n \in OnTheWay /\ observed' = [observed EXCEPT ![n] = Known[n]]
                        /\ OnTheWay' \in {OnTheWay, OnTheWay \ {n}} /\ Known' = Known
                        => Promise!Next
BY DEF Known, Promise!svars, Promise!Next, Promise!Change, Promise!Announce, Promise!Deliver

\* Types of what Get answers.
LEMMA KnownType ==
    /\ TypeOK => Known \in [Names -> Nat] /\ \A n \in Names : Known[n] = Get(n).gen
    /\ TypeOK' => Known' \in [Names -> Nat] /\ \A n \in Names : Known'[n] = Get(n)'.gen
<1>1. ASSUME TypeOK PROVE \A n \in Names : Get(n).gen \in Nat
  BY <1>1, GetGen DEF TypeOK, SourceTypeOK, Object
<1>2. ASSUME TypeOK' PROVE \A n \in Names : Get(n)'.gen \in Nat
  BY <1>2, GetGen DEF TypeOK, SourceTypeOK, Object
<1>3. QED BY <1>1, <1>2 DEF Known

\* A change of the cache for one name, with an event for it, keeps the promise.
LEMMA ChangeKeepsPromise ==
    ASSUME TypeOK, TypeOK', NEW n \in Names,
           \A m \in Names : m # n => cache'[m] = cache[m],
           OnTheWay' = OnTheWay \cup {n}, UNCHANGED observed
    PROVE  Promise!Next
<1>1. \A m \in Names : m # n => Known'[m] = Known[m]
  BY KnownType, GetGen
<1>2. Known \in [Names -> Nat] /\ Known' \in [Names -> Nat]
  BY KnownType
<1>3. Known' = [Known EXCEPT ![n] = Known'[n]] /\ Known'[n] \in Nat
  BY <1>1, <1>2
<1>4. CASE Known'[n] = Known[n]
  <2>1. Known' = Known
    BY <1>1, <1>2, <1>4
  <2>2. QED BY <2>1, PromiseSteps
<1>5. CASE Known'[n] # Known[n]
  BY <1>3, <1>5, PromiseSteps
<1>6. QED BY <1>4, <1>5

\* Get answers the same as long as the cache is the same.
LEMMA SameCache == UNCHANGED cache => Known' = Known /\ \A n : Get(n)' = Get(n)
BY DEF Known, Get

\* A step that moves events along, and nothing else, keeps the promise.
LEMMA QuietKeepsPromise ==
    ASSUME Known' = Known, OnTheWay' = OnTheWay, UNCHANGED observed
    PROVE  [Promise!Next]_(Promise!svars)
BY PromiseSteps

\* processEvent announces whatever it changes.
LEMMA ProcessKeepsPromise ==
    ASSUME TypeOK, TypeOK', NEW n \in Names, NEW o \in Object,
           NEW return \in {"items", "deletes", "read"}, ProcessEvent(n, o, return),
           pc # "write", UNCHANGED <<outChan, workVars, initialEvents>>
    PROVE  [Promise!Next]_(Promise!svars)
<1>1. UNCHANGED <<dirty, observed, outChan, initialEvents>>
  BY DEF workVars
<1>2. CASE Newer(cache[n], o)
  <2>1. pc' = "write" /\ pending'.name = n
    BY <1>2 DEF ProcessEvent
  <2>2. OnTheWay' = OnTheWay \cup {n}
    BY <1>1, <2>1, OnTheWayParts
  <2>3. \A m \in Names : m # n => cache'[m] = cache[m]
    BY <1>2 DEF ProcessEvent, Offer, TypeOK, SourceTypeOK, cacheVars
  <2>4. QED BY <1>1, <2>2, <2>3, ChangeKeepsPromise
<1>3. CASE ~ Newer(cache[n], o)
  <2>1. pc' # "write" /\ UNCHANGED cache
    BY <1>3 DEF ProcessEvent, Offer, cacheVars
  <2>2. OnTheWay' = OnTheWay
    BY <1>1, <2>1, OnTheWayParts
  <2>3. QED BY <1>1, <2>1, <2>2, SameCache, QuietKeepsPromise
<1>4. QED BY <1>2, <1>3

\* Every step of the goroutine keeps the promise.
LEMMA SourceKeepsPromise ==
    ASSUME TypeOK, TypeOK', QueuedAreTombstones, SourceStep
    PROVE  [Promise!Next]_(Promise!svars)
<1>0. /\ outChan \in Seq(Names \cup {NoName}) /\ initialEvents \in Seq(Names \cup {NoName})
      /\ pending.name \in Names \cup {NoName}
  BY DEF TypeOK, SourceTypeOK, WatchTypeOK
\* Steps that touch neither the cache nor the queues.
<1>a. ASSUME UNCHANGED sourceVars, UNCHANGED <<pending, initialEvents>>,
             pc # "write", pc' # "write"
      PROVE  [Promise!Next]_(Promise!svars)
  <2>1. UNCHANGED <<cache, outChan, dirty, observed>>
    BY <1>a DEF sourceVars, cacheVars, workVars
  <2>2. OnTheWay' = OnTheWay
    BY <1>a, <2>1, OnTheWayParts
  <2>3. QED BY <2>1, <2>2, SameCache, QuietKeepsPromise
<1>1. CASE StartWatch \/ StartWatchReturns \/ InitialEventsSent
  BY <1>1, <1>a DEF StartWatch, StartWatchReturns, InitialEventsSent
<1>2. CASE WatchEstablished \/ WatchTooOld \/ StreamEnds
  BY <1>2, <1>a DEF WatchEstablished, WatchTooOld, StreamEnds
<1>3. CASE Refresh \/ RefreshItemsDone \/ RefreshDone
  BY <1>3, <1>a DEF Refresh, RefreshItemsDone, RefreshDone
<1>4. CASE SendInitialEvent
  <2>1. /\ Head(initialEvents) \in Names \cup {NoName} /\ initialEvents # <<>>
        /\ UNCHANGED <<cache, dirty, observed, pc, pending>>
    BY <1>0, <1>4 DEF SendInitialEvent, cacheVars, workVars
  <2>2. Sent(outChan') = Sent(outChan) \cup {Head(initialEvents)}
    BY <1>0, <1>4, <2>1, SentAppend DEF SendInitialEvent
  <2>3. Sent(initialEvents) = {Head(initialEvents)} \cup Sent(initialEvents')
    BY <1>0, <1>4, <2>1, SentTail DEF SendInitialEvent
  <2>4. OnTheWay' = OnTheWay
    BY <2>1, <2>2, <2>3, OnTheWayParts
  <2>5. QED BY <2>1, <2>4, SameCache, QuietKeepsPromise
<1>5. CASE ReadEvent
  <2>1. /\ ProcessEvent(log[next].name, log[next].obj, "read") /\ pc = "read" /\ next <= Rev
        /\ UNCHANGED <<outChan, workVars, initialEvents>>
    BY <1>5 DEF ReadEvent
  <2>2. log[next] \in Change
    BY <2>1 DEF TypeOK, RepositoryTypeOK, WatchTypeOK, Rev
  <2>3. log[next].name \in Names /\ log[next].obj \in Object
    BY <2>2 DEF Change
  <2>4. QED BY <2>1, <2>3, ProcessKeepsPromise
<1>6. CASE PollMisses
  <2>1. UNCHANGED <<outChan, dirty, observed, pc, pending, initialEvents>>
    BY <1>6 DEF PollMisses, workVars, watchVars
  <2>2. OnTheWay' = OnTheWay
    BY <2>1, OnTheWayParts
  <2>3. \A n \in Names : Get(n)'.gen = Get(n).gen
    <3> SUFFICES ASSUME NEW n \in Names PROVE Get(n)'.gen = Get(n).gen
      OBVIOUS
    <3>1. cache'[n] = IF <<n, cache[n].rv>> \in deletionQueue THEN Absent ELSE cache[n]
      BY <1>6 DEF PollMisses, PruneDeletions, PopExpired
    <3>2. CASE <<n, cache[n].rv>> \in deletionQueue
      <4>1. cache[n].del
        BY <3>2 DEF QueuedAreTombstones
      <4>2. ~ Present(cache'[n])
        BY <3>1, <3>2 DEF Present, Absent
      <4>3. QED BY <4>1, <4>2, GetGen
    <3>3. CASE <<n, cache[n].rv>> \notin deletionQueue
      BY <3>1, <3>3, GetGen
    <3>4. QED BY <3>2, <3>3
  <2>4. Known' = Known
    BY <2>3, KnownType
  <2>5. QED BY <2>1, <2>2, <2>4, QuietKeepsPromise
<1>7. CASE WriteEvent
  <2>1. /\ UNCHANGED <<cache, dirty, observed, initialEvents>> /\ pc = "write" /\ pc' # "write"
        /\ outChan' = Append(outChan, pending.name)
    BY <1>7 DEF WriteEvent, cacheVars, workVars, TypeOK, WatchTypeOK
  <2>2. Sent(outChan') = Sent(outChan) \cup {pending.name}
    BY <1>0, <2>1, SentAppend
  <2>3. OnTheWay' = OnTheWay
    BY <2>1, <2>2, OnTheWayParts
  <2>4. QED BY <2>1, <2>3, SameCache, QuietKeepsPromise
<1>8. CASE WriteBlocks
  <2>1. UNCHANGED <<cache, dirty, observed, initialEvents, outChan, pc, pending>>
    BY <1>8 DEF WriteBlocks, cacheVars, workVars, watchVars
  <2>2. OnTheWay' = OnTheWay
    BY <2>1, OnTheWayParts
  <2>3. QED BY <2>1, <2>2, SameCache, QuietKeepsPromise
<1>9. ASSUME NEW n \in Names, Populate(n)
      PROVE  [Promise!Next]_(Promise!svars)
  <2> DEFINE overflow == IF initialEvents = <<>> THEN BlankEvents ELSE initialEvents
  <2>1. /\ pc = "populate" /\ UNCHANGED <<pc, dirty, observed>>
        /\ \/ outChan' = Append(outChan, n) /\ initialEvents' = initialEvents
           \/ outChan' = outChan /\ initialEvents' = Append(overflow, n)
    BY <1>9 DEF Populate, workVars
  <2>2. overflow \in Seq(Names \cup {NoName}) /\ Names \cap Sent(overflow) = Names \cap Sent(initialEvents)
    <3>1. CASE initialEvents = <<>>
      <4>1. BlankEvents \in [1..Cap -> Names \cup {NoName}] /\ Cap \in Nat
        BY DEF BlankEvents
      <4>2. BlankEvents \in Seq(Names \cup {NoName})
        BY <4>1, SeqDef
      <4>3. Names \cap Sent(BlankEvents) = {}
        BY DEF Sent, BlankEvents
      <4>4. Sent(<<>>) = {}
        BY DEF Sent
      <4>5. QED BY <3>1, <4>2, <4>3, <4>4
    <3>2. CASE initialEvents # <<>>
      BY <1>0, <3>2
    <3>3. QED BY <3>1, <3>2
  <2> HIDE DEF overflow
  <2>3. \/ Sent(outChan') = Sent(outChan) \cup {n} /\ initialEvents' = initialEvents
        \/ outChan' = outChan /\ Sent(initialEvents') = Sent(overflow) \cup {n}
    <3>1. \A q \in Seq(Names \cup {NoName}) : Sent(Append(q, n)) = Sent(q) \cup {n}
      BY SentAppend
    <3>2. QED BY <1>0, <2>1, <2>2, <3>1
  <2>4. OnTheWay' = OnTheWay \cup {n}
    BY <2>1, <2>2, <2>3, OnTheWayParts
  <2>5. \A m \in Names : m # n => cache'[m] = cache[m]
    BY <1>9 DEF Populate, TypeOK, SourceTypeOK
  <2>6. QED BY <2>1, <2>4, <2>5, ChangeKeepsPromise
<1>10. ASSUME NEW n \in Names, RefreshItem(n)
       PROVE  [Promise!Next]_(Promise!svars)
  <2>1. list[n] \in Object
    BY DEF TypeOK, WatchTypeOK
  <2>2. QED BY <1>10, <2>1, ProcessKeepsPromise DEF RefreshItem
<1>11. ASSUME NEW n \in Names, RefreshDelete(n)
       PROVE  [Promise!Next]_(Promise!svars)
  <2>1. Tombstone(listRv) \in Object
    BY ObjectType DEF TypeOK, WatchTypeOK
  <2>2. QED BY <1>11, <2>1, ProcessKeepsPromise DEF RefreshDelete
<1>12. QED
  BY <1>1, <1>2, <1>3, <1>4, <1>5, <1>6, <1>7, <1>8, <1>9, <1>10, <1>11 DEF SourceStep

\* The event that UpdateStatus takes from the source by bringing the cache up to
\* date itself (cached_predictor_source.go:137-147) is made up for: the answer
\* has the spec that was reconciled, or the reconcile is repeated.
LEMMA WorkKeepsPromise ==
    ASSUME TypeOK, TypeOK', AnnounceInv, WorkStep, UNCHANGED watchVars
    PROVE  [Promise!Next]_(Promise!svars)
<1>0. /\ outChan \in Seq(Names \cup {NoName})
      /\ UNCHANGED <<pc, pending, initialEvents>>
  BY DEF TypeOK, SourceTypeOK, watchVars
<1>1. CASE Dispatch /\ UNCHANGED repositoryVars
  <2>1. /\ outChan # <<>> /\ outChan' = Tail(outChan)
        /\ dirty' = dirty \cup ({Head(outChan)} \cap Names)
        /\ UNCHANGED <<cache, observed>>
    BY <1>1 DEF Dispatch, cacheVars
  <2>2. Sent(outChan) = {Head(outChan)} \cup Sent(outChan')
    BY <1>0, <2>1, SentTail
  <2>3. OnTheWay' = OnTheWay
    BY <1>0, <2>1, <2>2, OnTheWayParts
  <2>4. QED BY <2>1, <2>3, SameCache, QuietKeepsPromise
<1>2. ASSUME NEW n \in Names, Reconcile(n), UNCHANGED repositoryVars
      PROVE  [Promise!Next]_(Promise!svars)
  <2>1. /\ n \in dirty /\ dirty' = dirty \ {n} /\ UNCHANGED <<cache, outChan>>
        /\ observed' = [observed EXCEPT ![n] = Known[n]]
    BY <1>2, KnownType DEF Reconcile, cacheVars
  <2>2. n \in OnTheWay /\ OnTheWay' \in {OnTheWay, OnTheWay \ {n}}
    BY <1>0, <2>1, OnTheWayParts
  <2>3. QED BY <2>1, <2>2, SameCache, PromiseSteps
<1>3. ASSUME NEW n \in Names, dirty' = dirty \cup {n} \/ dirty' = dirty,
             UNCHANGED <<cache, outChan, observed>>
      PROVE  [Promise!Next]_(Promise!svars)
  <2>1. OnTheWay' = OnTheWay \/ OnTheWay' = OnTheWay \cup {n}
    BY <1>0, <1>3, OnTheWayParts
  <2>2. QED BY <1>3, <2>1, SameCache, QuietKeepsPromise, PromiseSteps
<1>4. ASSUME NEW n \in Names, UpdateStatusCheck(n)
      PROVE  [Promise!Next]_(Promise!svars)
  BY <1>3, <1>4 DEF UpdateStatusCheck, Return, cacheVars
<1>5. ASSUME NEW n \in Names, UpdateStatusRemote(n)
      PROVE  [Promise!Next]_(Promise!svars)
  BY <1>3, <1>5 DEF UpdateStatusRemote, Return, cacheVars
<1>6. ASSUME NEW n \in Names, UpdateStatusApply(n)
      PROVE  [Promise!Next]_(Promise!svars)
  <2>1. /\ UNCHANGED <<outChan, observed>>
        /\ dirty' = IF call[n].ok THEN dirty ELSE dirty \cup {n}
        /\ call[n].phase = "apply" /\ Offer(n, call[n].resp)
    BY <1>6 DEF UpdateStatusApply, Return
  <2>2. \A m \in Names : m # n => cache'[m] = cache[m]
    BY <2>1 DEF Offer, TypeOK, SourceTypeOK, cacheVars
  <2>3. CASE ~ call[n].ok
    <3>1. OnTheWay' = OnTheWay \cup {n}
      BY <1>0, <2>1, <2>3, OnTheWayParts
    <3>2. QED BY <2>1, <2>2, <3>1, ChangeKeepsPromise
  <2>4. CASE call[n].ok
    <3>1. OnTheWay' = OnTheWay
      BY <1>0, <2>1, <2>4, OnTheWayParts
    <3>2. CASE n \in OnTheWay
      BY <2>1, <2>2, <3>1, <3>2, ChangeKeepsPromise
    <3>3. CASE n \notin OnTheWay /\ UNCHANGED cache
      BY <2>1, <3>1, <3>3, SameCache, QuietKeepsPromise
    <3>4. CASE n \notin OnTheWay /\ cache' # cache
      <4>1. /\ cache \in [Names -> Object] /\ call[n].resp \in Object
            /\ cache[n].rv \in Nat /\ call[n].resp.rv \in Nat
        BY DEF TypeOK, SourceTypeOK, Calls, Object
      <4>2. cache'[n] = call[n].resp /\ Present(cache'[n])
        BY <2>1, <3>4, <4>1 DEF Offer, cacheVars, Newer, Present
      <4>3. ~ call[n].resp.del /\ call[n].resp.gen = observed[n]
        BY <2>1, <2>4 DEF AnnounceInv, CallsAreObserved
      <4>4. Get(n)'.gen = observed[n] /\ observed[n] = Get(n).gen
        BY <3>4, <4>2, <4>3, GetGen DEF AnnounceInv, Announced
      <4>5. \A m \in Names : Get(m)'.gen = Get(m).gen
        BY <2>2, <4>4, GetGen
      <4>6. Known' = Known
        BY <4>5, KnownType
      <4>7. QED BY <2>1, <3>1, <4>6, QuietKeepsPromise
    <3>5. QED BY <3>2, <3>3, <3>4
  <2>5. QED BY <2>3, <2>4
<1>7. QED
  BY <1>1, <1>2, <1>4, <1>5, <1>6 DEF WorkStep

\* Every step is one that PredictorSource allows, or none.
LEMMA NextKeepsPromise ==
    TypeOK /\ TypeOK' /\ AnnounceInv /\ [Next]_vars => [Promise!Next]_(Promise!svars)
<1> SUFFICES ASSUME TypeOK, TypeOK', AnnounceInv, [Next]_vars
             PROVE  [Promise!Next]_(Promise!svars)
  OBVIOUS
<1>1. CASE UNCHANGED <<sourceVars, watchVars>>
  <2>1. UNCHANGED <<cache, outChan, dirty, observed, pc, pending, initialEvents>>
    BY <1>1 DEF sourceVars, cacheVars, workVars, watchVars
  <2>2. OnTheWay' = OnTheWay
    BY <2>1, OnTheWayParts
  <2>3. QED BY <2>1, <2>2, SameCache, QuietKeepsPromise
<1>2. QED
  BY <1>1, SourceKeepsPromise, WorkKeepsPromise DEF Next, vars, AnnounceInv

\* What the promise means: an answer that was not reconciled has an event.  It
\* holds of every step that PredictorSource allows.
LEMMA PromiseAnnounces ==
    ASSUME TypeOK, Announced, [Promise!Next]_(Promise!svars)
    PROVE  Announced'
<1>1. /\ Known \in [Names -> Nat] /\ \A n \in Names : Known[n] = Get(n).gen
      /\ observed \in [Names -> Nat]
  BY KnownType DEF TypeOK, SourceTypeOK
<1>2. \A n \in Names : Known'[n] = Get(n)'.gen
  BY DEF Known
<1>3. SUFFICES \A n \in Names : observed'[n] = Known'[n] \/ n \in OnTheWay'
  BY <1>2 DEF Announced
<1>4. \A n \in Names : observed[n] = Known[n] \/ n \in OnTheWay
  BY <1>1 DEF Announced
<1>5. CASE Promise!svars' = Promise!svars
  BY <1>4, <1>5, PromiseSteps
<1>6. ASSUME NEW n \in Names, Promise!Change(n)
      PROVE  \A m \in Names : observed'[m] = Known'[m] \/ m \in OnTheWay'
  <2>1. /\ Known' = [Known EXCEPT ![n] = Known'[n]] /\ OnTheWay' = OnTheWay \cup {n}
        /\ observed' = observed
    BY <1>6 DEF Promise!Change, Known
  <2>2. \A m \in Names : m # n => Known'[m] = Known[m]
    BY <1>1, <2>1
  <2>3. QED BY <1>4, <2>1, <2>2
<1>7. ASSUME NEW n \in Names, Promise!Announce(n)
      PROVE  \A m \in Names : observed'[m] = Known'[m] \/ m \in OnTheWay'
  <2>1. Known' = Known /\ OnTheWay' = OnTheWay \cup {n} /\ observed' = observed
    BY <1>7 DEF Promise!Announce, Known
  <2>2. QED BY <1>4, <2>1
<1>8. ASSUME NEW n \in Names, Promise!Deliver(n)
      PROVE  \A m \in Names : observed'[m] = Known'[m] \/ m \in OnTheWay'
  <2>1. /\ Known' = Known /\ observed' = [observed EXCEPT ![n] = Known[n]]
        /\ OnTheWay' = OnTheWay \/ OnTheWay' = OnTheWay \ {n}
    BY <1>8 DEF Promise!Deliver, Known
  <2>2. QED BY <1>1, <1>4, <2>1
<1>9. CASE Promise!Restart
  <2>1. observed' = Known'
    BY <1>9 DEF Promise!Restart, Known
  <2>2. QED BY <2>1
<1>10. QED
  BY <1>5, <1>6, <1>7, <1>8, <1>9 DEF Promise!Next

-----------------------------------------------------------------------------
(* Why a status update may take an event away *)

\* What is logged stays so.
LEMMA LoggedStable ==
    ASSUME NEW l \in Seq(Change), NEW m \in Seq(Change), Extends(l, m),
           NEW o, Logged(l, o)
    PROVE  Logged(m, o)
BY DEF Logged, Extends

\* Every step of the repository is a commit of an object with a new version.
LEMMA RepositoryCommits ==
    ASSUME RepositoryTypeOK, RepositoryStep
    PROVE  \E n \in Names, kind \in {"UPDATE", "DELETE"}, o \in Object :
              o.rv = Rev + 1 /\ Commit(n, kind, o)
<1> Rev \in Nat /\ Rev + 1 \in Nat
  BY DEF RepositoryTypeOK, Rev
<1>0. PICK n \in Names : SetPredictor(n) \/ MarkDeleted(n) \/ DeletePredictor(n)
  BY DEF RepositoryStep
<1> registry[n] \in Object /\ registry[n].del \in BOOLEAN
  BY DEF RepositoryTypeOK, Object
<1>1. CASE SetPredictor(n)
  <2> DEFINE o == [rv |-> Rev + 1, gen |-> Rev + 1, del |-> registry[n].del]
  <2>1. o \in Object /\ o.rv = Rev + 1
    BY DEF Object
  <2>2. Commit(n, "UPDATE", o)
    BY <1>1, Zenon DEF SetPredictor
  <2> HIDE DEF o
  <2>3. QED BY <2>1, <2>2
<1>2. ASSUME NEW kind \in {"UPDATE", "DELETE"}, NEW stamped \in BOOLEAN,
             Commit(n, kind, Rewritten(registry[n], Rev + 1, stamped))
      PROVE  \E o \in Object : o.rv = Rev + 1 /\ Commit(n, kind, o)
  <2> DEFINE o == Rewritten(registry[n], Rev + 1, stamped)
  <2>1. o \in Object /\ o.rv = Rev + 1
    BY ObjectType DEF Rewritten
  <2>2. Commit(n, kind, o)
    BY <1>2
  <2> HIDE DEF o
  <2>3. QED BY <2>1, <2>2
<1>3. CASE MarkDeleted(n)
  BY <1>2, <1>3 DEF MarkDeleted
<1>4. CASE DeletePredictor(n)
  BY <1>2, <1>4 DEF DeletePredictor
<1>5. QED BY <1>0, <1>1, <1>3, <1>4

\* A commit logs the object it writes.
LEMMA CommitLogs ==
    ASSUME RepositoryTypeOK, RegistryLogged, NEW n \in Names, NEW kind \in {"UPDATE", "DELETE"},
           NEW o \in Object, o.rv = Rev + 1, Commit(n, kind, o)
    PROVE  RegistryLogged' /\ Extends(log, log')
<1> DEFINE e == [name |-> n, kind |-> kind, obj |-> o]
<1>1. /\ Extends(log, log') /\ Len(log') = Len(log) + 1 /\ log'[Len(log) + 1] = e
      /\ Len(log) \in Nat /\ log \in Seq(Change) /\ log' \in Seq(Change)
      /\ registry \in [Names -> Object]
      /\ registry' = [registry EXCEPT ![n] = IF kind = "DELETE" THEN Absent ELSE o]
  <2>1. Extends(log, log') /\ Len(log') = Len(log) + 1 /\ log'[Len(log) + 1] = e
    BY CommitExtends
  <2>2. log' \in Seq(Change)
    BY CommitType DEF RepositoryTypeOK
  <2>3. log \in Seq(Change) /\ registry \in [Names -> Object] /\ Len(log) \in Nat
    BY DEF RepositoryTypeOK
  <2> HIDE DEF e
  <2>4. registry' = [registry EXCEPT ![n] = IF kind = "DELETE" THEN Absent ELSE o]
    BY DEF Commit
  <2>5. QED BY <2>1, <2>2, <2>3, <2>4
<1>2. e.obj = o
  OBVIOUS
<1> HIDE DEF e
<1>3. Logged(log', o)
  BY <1>1, <1>2 DEF Logged, Rev
<1>4. \A m \in Names : Present(registry[m]) => Logged(log', registry[m])
  BY <1>1, LoggedStable DEF RegistryLogged
<1>5. ~ Present(Absent)
  BY DEF Present, Absent
<1>6. \A m \in Names : registry'[m] = registry[m] \/ registry'[m] = o \/ registry'[m] = Absent
  BY <1>1
<1>7. QED BY <1>1, <1>3, <1>4, <1>5, <1>6 DEF RegistryLogged

\* A growing history keeps what is known of the calls.
LEMMA CallsStable ==
    ASSUME TypeOK, TypeOK', CallsAreObserved, Extends(log, log'), UNCHANGED <<call, observed>>
    PROVE  CallsAreObserved'
<1>1. log \in Seq(Change) /\ log' \in Seq(Change)
  BY DEF TypeOK, RepositoryTypeOK
<1>2. \A n \in Names : Logged(log, call[n].arg) => Logged(log', call[n].arg)
  BY <1>1, LoggedStable
<1>3. QED BY <1>2 DEF CallsAreObserved

\* An offer replaces an entry by a newer one, and queues no other tombstone.
LEMMA OfferKeepsTombstones ==
    ASSUME TypeOK, QueuedAreTombstones, GetAnswers, NEW n \in Names, NEW o \in Object, Offer(n, o),
           Started
    PROVE  /\ GetAnswers'
           /\ \A e \in deletionQueue' :
                e[2] <= cache'[e[1]].rv /\ (e[2] = cache'[e[1]].rv => cache'[e[1]].del)
<1>1. /\ cache \in [Names -> Object] /\ o.rv \in Nat /\ \A m \in Names : cache[m].rv \in Nat
      /\ deletionQueue \in SUBSET (Names \X Nat)
  BY DEF TypeOK, SourceTypeOK, Object
<1>2. CASE UNCHANGED <<cache, deletionQueue>>
  <2>1. GetAnswers'
    BY <1>2, SameCache DEF GetAnswers
  <2>2. QED BY <1>2, <2>1 DEF QueuedAreTombstones
<1>3. CASE /\ Newer(cache[n], o)
           /\ cache' = [cache EXCEPT ![n] = o]
           /\ deletionQueue' = IF o.del /\ ~ cache[n].del
                                 THEN deletionQueue \cup {<<n, o.rv>>}
                                 ELSE deletionQueue
  <2>1. /\ cache'[n] = o /\ \A m \in Names : m # n => cache'[m] = cache[m]
        /\ o.rv > cache[n].rv /\ Present(o)
    BY <1>1, <1>3 DEF Newer, Present
  <2>2. \A m \in Names : Version(cache'[m]) = Get(m)'.gen
    BY <2>1, GetGen DEF GetAnswers, Version
  <2>3. ASSUME NEW e \in deletionQueue
        PROVE  e[2] <= cache'[e[1]].rv /\ (e[2] = cache'[e[1]].rv => cache'[e[1]].del)
    <3>1. e[1] \in Names /\ e[2] \in Nat /\ e[2] <= cache[e[1]].rv
          /\ (e[2] = cache[e[1]].rv => cache[e[1]].del)
      BY <1>1 DEF QueuedAreTombstones
    <3>2. QED BY <1>1, <2>1, <3>1
  <2>4. ASSUME NEW e \in deletionQueue', e \notin deletionQueue
        PROVE  e[2] <= cache'[e[1]].rv /\ (e[2] = cache'[e[1]].rv => cache'[e[1]].del)
    <3>1. e = <<n, o.rv>> /\ o.del
      BY <1>3, <2>4
    <3>2. QED BY <1>1, <2>1, <3>1
  <2>5. GetAnswers'
    BY <2>2 DEF GetAnswers
  <2>6. QED BY <2>3, <2>4, <2>5
<1>4. QED
  BY <1>2, <1>3 DEF Offer, cacheVars

\* Every step keeps what is known of cache and deletion queue.
LEMMA NextTombstones ==
    TypeOK /\ QueuedAreTombstones /\ GetAnswers /\ ListInv /\ [Next]_vars
        => QueuedAreTombstones' /\ GetAnswers'
<1> SUFFICES ASSUME TypeOK, QueuedAreTombstones, GetAnswers, ListInv, [Next]_vars
             PROVE  QueuedAreTombstones' /\ GetAnswers'
  OBVIOUS
<1>1. CASE UNCHANGED <<cache, deletionQueue>> /\ (Started => Started')
  <2>1. GetAnswers'
    BY <1>1, SameCache DEF GetAnswers
  <2>2. QED BY <1>1, <2>1 DEF QueuedAreTombstones
<1>2. CASE StartWatchReturns \/ StartWatch \/ SendInitialEvent \/ InitialEventsSent
  BY <1>1, <1>2 DEF StartWatch, StartWatchReturns, SendInitialEvent, InitialEventsSent, Started,
                    sourceVars, cacheVars
<1>3. CASE WatchEstablished \/ WatchTooOld \/ StreamEnds \/ WriteBlocks \/ WriteEvent
  BY <1>1, <1>3 DEF WatchEstablished, WatchTooOld, StreamEnds, WriteBlocks, WriteEvent, Started,
                    sourceVars, cacheVars, watchVars, TypeOK, WatchTypeOK
<1>4. CASE Refresh \/ RefreshItemsDone \/ RefreshDone
  BY <1>1, <1>4 DEF Refresh, RefreshItemsDone, RefreshDone, Started, sourceVars, cacheVars
<1>5. ASSUME NEW n \in Names, NEW o \in Object, NEW return \in {"items", "deletes", "read"},
             ProcessEvent(n, o, return), Started
      PROVE  QueuedAreTombstones' /\ GetAnswers'
  <2>1. Offer(n, o) /\ Started'
    BY <1>5 DEF ProcessEvent, Started
  <2>2. QED BY <1>5, <2>1, OfferKeepsTombstones DEF QueuedAreTombstones
<1>6. CASE ReadEvent
  <2>1. log[next] \in Change /\ Started
    BY <1>6 DEF ReadEvent, TypeOK, RepositoryTypeOK, WatchTypeOK, Rev, Started
  <2>2. log[next].name \in Names /\ log[next].obj \in Object
    BY <2>1 DEF Change
  <2>3. QED BY <1>5, <1>6, <2>1, <2>2 DEF ReadEvent
<1>7. CASE PollMisses
  <2>1. /\ deletionQueue' = {} /\ Started'
        /\ \A n \in Names : cache'[n] = cache[n] \/ cache'[n] = Absent
    BY <1>7 DEF PollMisses, PruneDeletions, PopExpired, watchVars, Started
  <2>2. Version(Absent) = 0 /\ ~ Present(Absent)
    BY DEF Version, Absent, Present
  <2>3. GetAnswers'
    BY <2>1, <2>2, GetGen DEF GetAnswers
  <2>4. QED BY <2>1, <2>3 DEF QueuedAreTombstones
<1>8. ASSUME NEW n \in Names, Populate(n)
      PROVE  QueuedAreTombstones' /\ GetAnswers'
  <2>1. /\ cache'[n] = list[n] /\ \A m \in Names : m # n => cache'[m] = cache[m]
        /\ UNCHANGED deletionQueue /\ deletionQueue = {} /\ Present(list[n])
    BY <1>8 DEF Populate, TypeOK, SourceTypeOK, QueuedAreTombstones, Started, ListInv
  <2>2. GetAnswers'
    BY <2>1, GetGen DEF GetAnswers, Version
  <2>3. QED BY <2>1, <2>2 DEF QueuedAreTombstones
<1>9. ASSUME NEW n \in Names, RefreshItem(n)
      PROVE  QueuedAreTombstones' /\ GetAnswers'
  <2>1. list[n] \in Object
    BY DEF TypeOK, WatchTypeOK
  <2>2. QED BY <1>5, <1>9, <2>1 DEF RefreshItem, Started
<1>10. ASSUME NEW n \in Names, RefreshDelete(n)
       PROVE  QueuedAreTombstones' /\ GetAnswers'
  <2>1. Tombstone(listRv) \in Object
    BY ObjectType DEF TypeOK, WatchTypeOK
  <2>2. QED BY <1>5, <1>10, <2>1 DEF RefreshDelete, Started
<1>11. CASE SourceStep
  BY <1>2, <1>3, <1>4, <1>6, <1>7, <1>8, <1>9, <1>10, <1>11 DEF SourceStep
<1>12. ASSUME WorkStep, Started, UNCHANGED watchVars
       PROVE  QueuedAreTombstones' /\ GetAnswers'
  <2>0. Started'
    BY <1>12 DEF Started, watchVars
  <2>1. ASSUME NEW n \in Names, UpdateStatusApply(n)
        PROVE  QueuedAreTombstones' /\ GetAnswers'
    <3>1. call[n].resp \in Object
      BY DEF TypeOK, SourceTypeOK, Calls
    <3>2. QED BY <1>12, <2>0, <2>1, <3>1, OfferKeepsTombstones DEF UpdateStatusApply, QueuedAreTombstones
  <2>2. CASE UNCHANGED cacheVars
    BY <1>1, <2>0, <2>2 DEF cacheVars
  <2>3. QED
    BY <1>12, <2>1, <2>2 DEF WorkStep, Dispatch, Reconcile, UpdateStatusCheck, UpdateStatusRemote
<1>13. CASE UNCHANGED <<sourceVars, watchVars>>
  BY <1>1, <1>13 DEF sourceVars, cacheVars, watchVars, Started
<1>14. QED
  BY <1>11, <1>12, <1>13 DEF Next, vars

\* The controllers' steps keep what is known of their status updates: the object
\* that is updated is the one the reconcile has read, and a conditional update
\* that succeeds finds it unchanged (cached_predictor_source.go:126-147).
LEMMA WorkKeepsCalls ==
    ASSUME TypeOK, TypeOK', DataInv, RegistryLogged, CallsAreObserved, WorkStep
    PROVE  RegistryLogged' /\ CallsAreObserved'
<1> DEFINE Ok(c, l, v) ==
             /\ c.phase \in {"check", "remote"} =>
                  Logged(l, c.arg) /\ ~ c.arg.del /\ c.arg.gen = v
             /\ c.phase = "apply" /\ c.ok => ~ c.resp.del /\ c.resp.gen = v
<1>0. /\ call \in [Names -> Calls] /\ observed \in [Names -> Nat]
      /\ log \in Seq(Change) /\ log' \in Seq(Change) /\ Rev = Len(log) /\ Rev \in Nat
      /\ registry \in [Names -> Object] /\ cache \in [Names -> Object]
  BY DEF TypeOK, SourceTypeOK, RepositoryTypeOK, Rev
<1>1. \A n \in Names : Ok(call[n], log, observed[n])
  BY DEF CallsAreObserved
<1>2. \A v : Ok(Idle, log, v) /\ Ok(Idle, log', v)
  <2>1. Idle.phase = "idle"
    BY DEF Idle, CallIn
  <2>2. QED BY <2>1
<1>3. ASSUME UNCHANGED repositoryVars PROVE RegistryLogged' /\ log' = log
  BY <1>3 DEF RegistryLogged, repositoryVars
\* Steps in which only the call of one name moves.
<1>4. ASSUME NEW n \in Names, NEW c, call' = [call EXCEPT ![n] = c], Ok(c, log, observed[n]),
             UNCHANGED <<log, observed>>
      PROVE  CallsAreObserved'
  <2>1. \A m \in Names : call'[m] = IF m = n THEN c ELSE call[m]
    BY <1>0, <1>4
  <2>2. \A m \in Names : Ok(call'[m], log, observed[m])
    BY <1>1, <1>4, <2>1
  <2>3. QED BY <1>4, <2>2 DEF CallsAreObserved
<1>5. CASE Dispatch /\ UNCHANGED repositoryVars
  BY <1>3, <1>5 DEF Dispatch, CallsAreObserved
<1>6. ASSUME NEW n \in Names, Reconcile(n), UNCHANGED repositoryVars
      PROVE  RegistryLogged' /\ CallsAreObserved'
  <2>1. /\ observed' = [observed EXCEPT ![n] = Get(n).gen] /\ call[n] = Idle
        /\ \/ call' = call
           \/ /\ Present(Get(n))
              /\ call' = [call EXCEPT ![n] = CallIn("check", Get(n), Absent, FALSE)]
    BY <1>6 DEF Reconcile
  <2>2. ASSUME Present(Get(n)) PROVE Logged(log, Get(n)) /\ ~ Get(n).del
    <3>1. Get(n) = cache[n] /\ Present(cache[n]) /\ ~ cache[n].del
      BY <2>2 DEF Get, Present, Absent
    <3>2. Real(log, n, cache[n])
      BY <3>1 DEF DataInv, CacheFaithful
    <3>3. cache[n].rv \in Nat
      BY <1>0 DEF Object
    <3>4. QED BY <1>0, <3>1, <3>2, <3>3 DEF Real, Logged
  <2> DEFINE c == CallIn("check", Get(n), Absent, FALSE)
  <2>3. ASSUME Present(Get(n)) PROVE Ok(c, log, Get(n).gen)
    <3>1. c.phase = "check" /\ c.arg = Get(n)
      BY DEF CallIn
    <3> HIDE DEF c
    <3>2. QED BY <2>2, <2>3, <3>1
  <2> HIDE DEF c
  <2>4. /\ observed'[n] = Get(n).gen
        /\ call'[n] = Idle \/ (Present(Get(n)) /\ call'[n] = c)
        /\ \A m \in Names : m # n => call'[m] = call[m] /\ observed'[m] = observed[m]
    BY <1>0, <2>1 DEF c
  <2>5. Ok(call'[n], log, observed'[n])
    BY <1>2, <2>3, <2>4
  <2>6. \A m \in Names : Ok(call'[m], log, observed'[m])
    BY <1>1, <2>4, <2>5
  <2>7. QED BY <1>3, <1>6, <2>6 DEF CallsAreObserved
<1>7. ASSUME NEW n \in Names, UpdateStatusCheck(n)
      PROVE  RegistryLogged' /\ CallsAreObserved'
  <2>1. /\ UNCHANGED observed /\ call[n].phase = "check" /\ UNCHANGED repositoryVars
        /\ \/ call' = [call EXCEPT ![n] = Idle]
           \/ call' = [call EXCEPT ![n] = CallIn("remote", call[n].arg, Absent, FALSE)]
    BY <1>7 DEF UpdateStatusCheck, Return
  <2>2. Ok(CallIn("remote", call[n].arg, Absent, FALSE), log, observed[n])
    <3> DEFINE c == CallIn("remote", call[n].arg, Absent, FALSE)
    <3>1. c.phase = "remote" /\ c.arg = call[n].arg
      BY DEF CallIn
    <3> HIDE DEF c
    <3>2. Ok(c, log, observed[n])
      BY <1>1, <2>1, <3>1
    <3>3. QED BY <3>2 DEF c
  <2>3. QED BY <1>2, <1>3, <1>4, <2>1, <2>2
<1>8. ASSUME NEW n \in Names, UpdateStatusRemote(n)
      PROVE  RegistryLogged' /\ CallsAreObserved'
  <2> DEFINE w == Rewritten(registry[n], Rev + 1, FALSE)
  <2>0. UNCHANGED observed /\ call[n].phase = "remote"
    BY <1>8 DEF UpdateStatusRemote
  <2>1. CASE /\ registry[n].rv = call[n].arg.rv /\ WriteStatus(n)
             /\ \/ call' = [call EXCEPT ![n] = CallIn("apply", call[n].arg, w, TRUE)]
                \/ call' = [call EXCEPT ![n] = Idle]
    <3>1. Logged(log, call[n].arg) /\ ~ call[n].arg.del /\ call[n].arg.gen = observed[n]
      BY <1>1, <2>0
    <3>2. registry[n] = call[n].arg
      BY <2>1, <3>1 DEF Logged, RegistryLogged, Present
    <3>3. ~ w.del /\ w.gen = observed[n] /\ w.rv = Rev + 1
      BY <3>1, <3>2 DEF Rewritten
    <3>4. w \in Object
      <4>1. registry[n] \in Object /\ Rev + 1 \in Nat
        BY <1>0
      <4>2. QED BY <4>1, ObjectType
    <3>a. Commit(n, "UPDATE", w)
      BY <2>1, Zenon DEF WriteStatus
    <3> HIDE DEF w
    <3>5. RegistryLogged' /\ Extends(log, log')
      BY <3>3, <3>4, <3>a, CommitLogs DEF TypeOK
    <3>6. \A m \in Names : Logged(log, call[m].arg) => Logged(log', call[m].arg)
      BY <1>0, <3>5, LoggedStable
    <3> DEFINE c == CallIn("apply", call[n].arg, w, TRUE)
    <3>b. c.phase = "apply" /\ c.resp = w
      BY DEF CallIn
    <3>c. call' = [call EXCEPT ![n] = c] \/ call' = [call EXCEPT ![n] = Idle]
      BY <2>1, Zenon DEF w
    <3> HIDE DEF c
    <3>7. Ok(c, log', observed[n])
      BY <3>3, <3>b
    <3>8. \A m \in Names : Ok(call[m], log', observed[m])
      BY <1>1, <3>6
    <3>9. /\ \A m \in Names : m # n => call'[m] = call[m]
          /\ call'[n] = Idle \/ call'[n] = c
      BY <1>0, <3>c
    <3>10. \A m \in Names : Ok(call'[m], log', observed[m])
      BY <1>2, <3>7, <3>8, <3>9
    <3>11. QED BY <2>0, <3>5, <3>10 DEF CallsAreObserved
  <2>2. CASE UNCHANGED repositoryVars /\ \E resp : call' = [call EXCEPT ![n] = CallIn("apply", call[n].arg, resp, FALSE)]
    <3>1. PICK resp : call' = [call EXCEPT ![n] = CallIn("apply", call[n].arg, resp, FALSE)]
      BY <2>2
    <3> DEFINE c == CallIn("apply", call[n].arg, resp, FALSE)
    <3>2. c.phase = "apply" /\ ~ c.ok
      BY DEF CallIn
    <3> HIDE DEF c
    <3>3. Ok(c, log, observed[n])
      BY <3>2
    <3>4. QED BY <1>3, <1>4, <2>0, <2>2, <3>1, <3>3 DEF c
  <2>3. CASE UNCHANGED repositoryVars /\ call' = [call EXCEPT ![n] = Idle]
    BY <1>2, <1>3, <1>4, <2>0, <2>3
  <2>4. QED BY <1>8, <2>1, <2>2, <2>3 DEF UpdateStatusRemote, Return
<1>9. ASSUME NEW n \in Names, UpdateStatusApply(n)
      PROVE  RegistryLogged' /\ CallsAreObserved'
  BY <1>2, <1>3, <1>4, <1>9 DEF UpdateStatusApply, Return
<1>10. QED
  BY <1>5, <1>6, <1>7, <1>8, <1>9 DEF WorkStep

\* Every step keeps AnnounceInv.
LEMMA NextAnnounces == TypeOK /\ TypeOK' /\ SyncInv /\ AnnounceInv /\ [Next]_vars => AnnounceInv'
<1> SUFFICES ASSUME TypeOK, TypeOK', SyncInv, AnnounceInv, [Next]_vars PROVE AnnounceInv'
  OBVIOUS
<1>1. Announced'
  BY NextKeepsPromise, PromiseAnnounces DEF AnnounceInv
<1>2. QueuedAreTombstones' /\ GetAnswers'
  BY NextTombstones DEF AnnounceInv, SyncInv, PositionInv
<1>3. RegistryLogged' /\ CallsAreObserved'
  <2>1. ASSUME UNCHANGED <<repositoryVars, call, observed>>
        PROVE  RegistryLogged' /\ CallsAreObserved'
    BY <2>1 DEF AnnounceInv, RegistryLogged, CallsAreObserved, repositoryVars
  <2>2. CASE SourceStep
    <3>1. UNCHANGED <<repositoryVars, call, observed>>
      BY <2>2 DEF SourceStep, StartWatch, StartWatchReturns, SendInitialEvent, InitialEventsSent,
            WatchEstablished, WatchTooOld, ReadEvent, PollMisses, StreamEnds, WriteEvent,
            WriteBlocks, Refresh, RefreshItemsDone, RefreshDone, Populate, RefreshItem,
            RefreshDelete, sourceVars, workVars
    <3>2. QED BY <2>1, <3>1
  <2>3. CASE WorkStep
    BY <2>3, WorkKeepsCalls DEF AnnounceInv, SyncInv
  <2>4. CASE RepositoryStep /\ UNCHANGED <<sourceVars, watchVars>>
    <3>1. RegistryLogged' /\ Extends(log, log')
      BY <2>4, RepositoryCommits, CommitLogs DEF TypeOK, AnnounceInv
    <3>2. UNCHANGED <<call, observed>>
      BY <2>4 DEF sourceVars, workVars
    <3>3. QED BY <3>1, <3>2, CallsStable DEF AnnounceInv
  <2>5. CASE UNCHANGED vars
    BY <2>1, <2>5 DEF vars, sourceVars, workVars
  <2>6. QED BY <2>2, <2>3, <2>4, <2>5 DEF Next
<1>4. QED BY <1>1, <1>2, <1>3 DEF AnnounceInv

\* The invariant holds before the source has started.
LEMMA InitAnnounces == Init => AnnounceInv /\ Promise!Init
<1> SUFFICES ASSUME Init PROVE AnnounceInv /\ Promise!Init
  OBVIOUS
<1>1. /\ ~ Present(Absent) /\ Idle.phase = "idle" /\ Absent.gen = 0 /\ Version(Absent) = 0
      /\ registry = [n \in Names |-> Absent] /\ cache = [n \in Names |-> Absent]
      /\ call = [n \in Names |-> Idle] /\ observed = [n \in Names |-> 0]
      /\ deletionQueue = {} /\ dirty = {}
  BY DEF Present, Absent, Idle, CallIn, Version, Init, RepositoryInit, SourceInit
<1>2. \A n \in Names : Get(n) = Absent
  BY <1>1 DEF Get
<1>3. RegistryLogged /\ CallsAreObserved /\ QueuedAreTombstones
  BY <1>1 DEF RegistryLogged, CallsAreObserved, QueuedAreTombstones
<1>4. GetAnswers /\ Announced
  BY <1>1, <1>2 DEF GetAnswers, Announced
<1>5. [n \in Names |-> Get(n).gen] = [n \in Names |-> 0]
  BY <1>1, <1>2
<1>6. OnTheWay = {}
  BY DEF Init, SourceInit, OnTheWay
<1>7. Promise!Init
  BY <1>1, <1>5, <1>6 DEF Promise!Init
<1>8. QED BY <1>3, <1>4, <1>7 DEF AnnounceInv

(***************************************************************************)
(* The inductive invariant behind the source's promise: what a status      *)
(* update brings into the cache without an event is what the reconcile it  *)
(* belongs to has acted on, and what is pruned was deleted.                *)
(***************************************************************************)
THEOREM ChangesAreAnnounced == Spec => []AnnounceInv
<1>1. Init => AnnounceInv
  BY InitAnnounces
<1>2. QED
  BY <1>1, NextAnnounces, SourceStaysInSync, TypeCorrect, PTL DEF Spec

(***************************************************************************)
(* No change of what Get answers is left unreconciled: the name is queued  *)
(* or its event is on its way.                                             *)
(***************************************************************************)
THEOREM ChangesAreReconciled == Spec => []ChangeWillBeReconciled
<1>1. AnnounceInv => ChangeWillBeReconciled
  <2> SUFFICES ASSUME AnnounceInv, NEW n \in Names
               PROVE  \/ observed[n] = Version(cache[n])
                      \/ n \in dirty
                      \/ \E i \in DOMAIN outChan : outChan[i] = n
                      \/ \E i \in DOMAIN initialEvents : initialEvents[i] = n
                      \/ pc = "write" /\ pending.name = n
    BY DEF ChangeWillBeReconciled
  <2>1. observed[n] = Version(cache[n]) \/ n \in OnTheWay
    BY DEF AnnounceInv, GetAnswers, Announced
  <2>2. QED BY <2>1 DEF OnTheWay
<1>2. QED BY <1>1, ChangesAreAnnounced, PTL

(***************************************************************************)
(* A source that watches and refreshes implements PredictorSource: every   *)
(* step, of its goroutine, of the controllers or of the repository, is one *)
(* the interface allows or changes nothing it tells of.                    *)
(***************************************************************************)
THEOREM SourceKeepsItsPromise == Spec => KeepsPromise
<1>1. Init => Promise!Init
  BY InitAnnounces
<1>2. QED
  BY <1>1, NextKeepsPromise, ChangesAreAnnounced, TypeCorrect, PTL
     DEF Spec, KeepsPromise, Promise!Spec
=============================================================================

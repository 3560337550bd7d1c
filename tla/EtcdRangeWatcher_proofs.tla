----------------------- MODULE EtcdRangeWatcher_proofs -----------------------
(* Proofs about EtcdRangeWatcher, for every value of the constants. *)
EXTENDS EtcdRangeWatcher, WellFoundedInduction, TLAPS

USE EtcdAssumption

-----------------------------------------------------------------------------
(* Numbers *)

\* A set of natural numbers that is not empty has a smallest element.
LEMMA Smallest ==
    ASSUME NEW S \in SUBSET Nat, S # {}
    PROVE  \E x \in S : \A y \in S : x <= y
<1> DEFINE R == {p \in Nat \X Nat : p[1] < p[2]}
<1>1. IsWellFoundedOn(R, Nat)
  BY NatLessThanWellFounded, Zenon DEF OpToRel
<1>2. PICK x \in S : \A y \in S : ~ (<<y, x>> \in R)
  <2> HIDE DEF R
  <2> QED BY <1>1, WFMin
<1>3. ASSUME NEW y \in S PROVE x <= y
  <2>1. <<y, x>> \notin R /\ <<y, x>> \in Nat \X Nat
    BY <1>2
  <2>2. ~ (y < x)
    BY <2>1
  <2>3. QED BY <2>2
<1>4. QED BY <1>3

\* A bounded one has a largest element.
LEMMA Largest ==
    ASSUME NEW n \in Nat, NEW S \in SUBSET (0..n), S # {}
    PROVE  \E x \in S : \A y \in S : y <= x
<1> DEFINE T == {i \in Nat : i <= n /\ (n - i) \in S}
<1>1. T \in SUBSET Nat /\ T # {}
  <2>1. PICK s \in S : TRUE
    OBVIOUS
  <2>2. n - s \in T
    OBVIOUS
  <2>3. QED BY <2>2
<1>2. PICK t \in T : \A u \in T : t <= u
  <2> HIDE DEF T
  <2> QED BY <1>1, Smallest
<1>3. t \in Nat /\ t <= n /\ n - t \in S
  OBVIOUS
<1>4. ASSUME NEW y \in S PROVE y <= n - t
  <2>1. y \in Nat /\ y <= n /\ n - y \in T
    OBVIOUS
  <2>2. t <= n - y
    BY <1>2, <2>1
  <2>3. QED BY <1>3, <2>1, <2>2
<1>5. QED BY <1>3, <1>4

-----------------------------------------------------------------------------
(* The history of the range *)

Changes == [key : Keys, put : BOOLEAN]

\* Change i of history h is the last one of key k up to revision r.
LastOf(h, k, r, i) ==
    i \in 1..r /\ h[i].key = k /\ \A j \in (i + 1)..r : h[j].key # k

\* ModRevision in history h.
ModIn(h, k, r) ==
    LET last == {i \in 1..r : /\ h[i].key = k
                              /\ \A j \in (i + 1)..r : h[j].key # k}
    IN IF \E i \in last : h[i].put
         THEN CHOOSE i \in last : TRUE
         ELSE 0

\* There is at most one last change, and it is what ModRevision says.
LEMMA ModOfLast ==
    ASSUME NEW h, NEW k, NEW r \in Nat, NEW i, LastOf(h, k, r, i)
    PROVE  ModIn(h, k, r) = IF h[i].put THEN i ELSE 0
<1> DEFINE last == {m \in 1..r : h[m].key = k /\ \A j \in (m + 1)..r : h[j].key # k}
<1>1. i \in last
  BY DEF LastOf
<1>2. ASSUME NEW m \in last PROVE m = i
  <2>1. m \in 1..r /\ i \in 1..r
    BY <1>1
  <2>2. ~ (m < i) /\ ~ (i < m)
    BY <1>1, <2>1
  <2>3. QED BY <2>1, <2>2
<1>3. last = {i}
  <2> HIDE DEF last
  <2> QED BY <1>1, <1>2
<1>4. ModIn(h, k, r) = IF \E m \in last : h[m].put THEN CHOOSE m \in last : TRUE ELSE 0
  BY DEF ModIn
<1> HIDE DEF last
<1>5. QED BY <1>3, <1>4

\* A key that exists was put by its last change.
LEMMA ModIsLast ==
    ASSUME NEW h, NEW k, NEW r \in Nat, ModIn(h, k, r) # 0
    PROVE  LastOf(h, k, r, ModIn(h, k, r)) /\ h[ModIn(h, k, r)].put
<1>1. PICK i : LastOf(h, k, r, i) /\ h[i].put
  BY DEF ModIn, LastOf
<1>2. ModIn(h, k, r) = i
  BY <1>1, ModOfLast
<1>3. QED BY <1>1, <1>2

\* A key with changes has a last one.
LEMMA LastExists ==
    ASSUME NEW h, NEW k, NEW r \in Nat, NEW c \in 1..r, h[c].key = k
    PROVE  \E i : LastOf(h, k, r, i) /\ i >= c
<1> DEFINE S == {i \in 1..r : h[i].key = k}
<1>1. S \in SUBSET (0..r) /\ S # {} /\ c \in S
  OBVIOUS
<1>2. PICK i \in S : \A j \in S : j <= i
  <2> HIDE DEF S
  <2> QED BY <1>1, Largest
<1>3. LastOf(h, k, r, i)
  <2>1. ASSUME NEW j \in (i + 1)..r, h[j].key = k PROVE FALSE
    <3>1. j \in S /\ i < j
      BY <2>1
    <3>2. QED BY <1>2, <3>1
  <2>2. QED BY <2>1 DEF LastOf
<1>4. i >= c
  BY <1>1, <1>2
<1>5. QED BY <1>3, <1>4

\* One more change of the range.
LEMMA ModStep ==
    ASSUME NEW h, NEW k, NEW r \in Nat
    PROVE  ModIn(h, k, r + 1) = IF h[r + 1].key = k THEN IF h[r + 1].put THEN r + 1 ELSE 0
                                                    ELSE ModIn(h, k, r)
<1>1. CASE h[r + 1].key = k
  <2>1. LastOf(h, k, r + 1, r + 1)
    BY <1>1 DEF LastOf
  <2>2. QED BY <1>1, <2>1, ModOfLast
<1>2. CASE h[r + 1].key # k
  <2>1. \A i : LastOf(h, k, r + 1, i) <=> LastOf(h, k, r, i)
    BY <1>2 DEF LastOf
  <2>2. CASE \E i : LastOf(h, k, r, i)
    BY <1>2, <2>1, <2>2, ModOfLast
  <2>3. CASE ~ \E i : LastOf(h, k, r, i)
    <3>1. ModIn(h, k, r) = 0 /\ ModIn(h, k, r + 1) = 0
      BY <2>1, <2>3, ModIsLast
    <3>2. QED BY <1>2, <3>1
  <2>4. QED BY <2>2, <2>3
<1>3. QED BY <1>1, <1>2

\* What was the case as of a revision stays so when the history grows.
LEMMA ModStable ==
    ASSUME NEW h, NEW g, NEW k, NEW r \in Nat, \A i \in 1..r : g[i] = h[i]
    PROVE  ModIn(g, k, r) = ModIn(h, k, r)
<1>1. \A i : LastOf(g, k, r, i) <=> LastOf(h, k, r, i)
  BY DEF LastOf
<1>2. CASE \E i : LastOf(h, k, r, i)
  <2>1. PICK i : LastOf(h, k, r, i)
    BY <1>2
  <2>2. g[i] = h[i]
    BY <2>1 DEF LastOf
  <2>3. QED BY <1>1, <2>1, <2>2, ModOfLast
<1>3. CASE ~ \E i : LastOf(h, k, r, i)
  <2>1. ModIn(h, k, r) = 0 /\ ModIn(g, k, r) = 0
    BY <1>1, <1>3, ModIsLast
  <2>2. QED BY <2>1
<1>4. QED BY <1>2, <1>3

\* ModRevision, now and after a step.
LEMMA ModRevisionIn ==
    /\ \A k, r : ModRevision(k, r) = ModIn(history, k, r)
    /\ \A k, r : ModRevision(k, r)' = ModIn(history', k, r)
BY DEF ModRevision, ModIn

\* Revisions are numbers, up to the one asked for.
LEMMA ModType ==
    ASSUME NEW k, NEW r \in Nat
    PROVE  ModRevision(k, r) \in 0..r
BY ModIsLast, ModRevisionIn DEF LastOf

\* What the types say of single values.
LEMMA Types ==
    ASSUME TypeOK
    PROVE  /\ Rev \in Nat
           /\ \A i \in 1..Rev : history[i] \in Changes
           /\ \A k \in Keys : cache[k] \in Nat
<1>1. history \in Seq(Changes)
  BY DEF TypeOK, Changes
<1>2. Rev \in Nat /\ \A i \in 1..Rev : history[i] \in Changes
  <2> HIDE DEF Changes
  <2> QED BY <1>1 DEF Rev
<1>3. \A k \in Keys : cache[k] \in Nat
  BY DEF TypeOK
<1>4. QED BY <1>2, <1>3

\* What the cached revision of a key says of its revision as of r.
LEMMA CachedIsOld ==
    ASSUME TypeOK, CachedWasPut, NEW k \in Keys, cache[k] # 0, NEW r \in 0..Rev, cache[k] <= r
    PROVE  /\ ModRevision(k, r) # 0 => cache[k] <= ModRevision(k, r)
           /\ ModRevision(k, r) = 0 =>
                \E i \in (cache[k] + 1)..r : history[i].key = k /\ ~ history[i].put
<1>1. cache[k] \in 1..r /\ r \in Nat /\ history[cache[k]].key = k /\ history[cache[k]].put
  <2>1. r \in Nat /\ cache[k] \in Nat
    BY Types
  <2>2. history[cache[k]] = [key |-> k, put |-> TRUE]
    BY DEF CachedWasPut
  <2>3. QED BY <2>1, <2>2
<1>2. PICK i : LastOf(history, k, r, i) /\ i >= cache[k]
  BY <1>1, LastExists
<1>3. ModRevision(k, r) = IF history[i].put THEN i ELSE 0
  BY <1>1, <1>2, ModOfLast, ModRevisionIn
<1>4. i \in 1..r /\ history[i].key = k
  BY <1>2 DEF LastOf
<1>5. ~ history[i].put => i # cache[k]
  BY <1>1
<1>6. QED BY <1>1, <1>2, <1>3, <1>4, <1>5

-----------------------------------------------------------------------------
(* The steps *)

\* Put and Delete by others keep types and invariant, in every phase.
LEMMA CommitMirror ==
    ASSUME TypeOK, MirrorInv, NEW k \in Keys, NEW put \in BOOLEAN, Commit(k, put)
    PROVE  TypeOK' /\ MirrorInv'
<1> DEFINE change == [key |-> k, put |-> put]
<1>1. /\ change \in [key : Keys, put : BOOLEAN]
      /\ history \in Seq([key : Keys, put : BOOLEAN])
      /\ history' = Append(history, change)
      /\ UNCHANGED <<pc, cache, found, initSent, base, todo, next, told, spared, cancelled>>
  BY DEF TypeOK, Commit, watcherVars
<1>2. TypeOK'
  <2>1. history' \in Seq([key : Keys, put : BOOLEAN])
    BY <1>1
  <2>2. QED BY <1>1, <2>1 DEF TypeOK
<1>3. Rev \in Nat /\ Rev' = Rev + 1 /\ \A i \in 1..Rev : history'[i] = history[i]
  BY <1>1 DEF Rev
<1>4. \A j : \A r \in 0..Rev : ModRevision(j, r)' = ModRevision(j, r)
  <2>1. ASSUME NEW j, NEW r \in 0..Rev PROVE ModRevision(j, r)' = ModRevision(j, r)
    BY <1>3, ModStable, ModRevisionIn
  <2>2. QED BY <2>1
<1>5. base \in 0..Rev /\ next - 1 \in 0..Rev
  BY <1>3 DEF MirrorInv, TypeOK
<1>6. CachedWasPut'
  <2>1. ASSUME NEW j \in Keys, cache[j] # 0
        PROVE  cache[j] <= Rev' /\ history'[cache[j]] = [key |-> j, put |-> TRUE]
    <3>1. cache[j] \in 1..Rev /\ history[cache[j]] = [key |-> j, put |-> TRUE]
      BY <2>1, Types DEF MirrorInv, CachedWasPut
    <3>2. QED BY <1>3, <3>1
  <2>2. QED BY <1>1, <2>1 DEF CachedWasPut
<1>7. ListInv'
  BY <1>1, <1>4, <1>5 DEF MirrorInv, ListInv, UpTo
<1>8. NoMissedUpdate'
  BY <1>1, <1>4, <1>5 DEF MirrorInv, NoMissedUpdate
<1>9. QED
  BY <1>1, <1>2, <1>3, <1>5, <1>6, <1>7, <1>8 DEF MirrorInv, FirstMarks, TypeOK

\* Steps that leave the history alone leave it to the phase.
LEMMA SameHistory ==
    ASSUME UNCHANGED history
    PROVE  Rev' = Rev /\ \A k, r : ModRevision(k, r)' = ModRevision(k, r)
BY ModRevisionIn DEF Rev

\* SyncBase: the list is as new as the range, and so not behind the cache.
LEMMA SyncBaseMirror ==
    ASSUME TypeOK, MirrorInv, SyncBase
    PROVE  TypeOK' /\ MirrorInv'
<1>1. /\ UNCHANGED <<history, cancelled, cache, found, initSent, next, told, spared>>
      /\ base' = Rev /\ pc' = "list"
      /\ todo' = {k \in Keys : ModRevision(k, Rev) # 0}
      /\ Rev \in Nat
  BY DEF SyncBase, TypeOK, Rev
<1>2. Rev' = Rev /\ \A k, r : ModRevision(k, r)' = ModRevision(k, r)
  BY <1>1, SameHistory
<1>3. TypeOK'
  BY <1>1 DEF TypeOK
<1>4. CachedWasPut'
  BY <1>1, <1>2 DEF MirrorInv, CachedWasPut
<1>5. ListInv'
  <2>1. \A k \in Keys : cache[k] <= Rev
    <3>1. ASSUME NEW k \in Keys PROVE cache[k] <= Rev
      <4>1. CASE cache[k] = 0
        BY <1>1, <4>1
      <4>2. CASE cache[k] # 0
        BY <4>2 DEF MirrorInv, CachedWasPut
      <4>3. QED BY <4>1, <4>2
    <3>2. QED BY <3>1
  <2>2. \A k \in Keys \ todo' : UpTo(k, base)'
    BY <1>1, <1>2 DEF UpTo
  <2>3. QED BY <1>1, <1>2, <2>1, <2>2 DEF ListInv
<1>6. QED
  BY <1>1, <1>2, <1>3, <1>4, <1>5 DEF MirrorInv, FirstMarks, NoMissedUpdate

\* A listed key is cached at its revision as of the list, which is not older.
LEMMA ListKeyMirror ==
    ASSUME TypeOK, MirrorInv, NEW k \in Keys, ListKey(k)
    PROVE  TypeOK' /\ MirrorInv'
<1> DEFINE rev == ModRevision(k, base)
<1>1. /\ UNCHANGED <<history, cancelled, pc, initSent, base, next, spared>>
      /\ pc = "list" /\ k \in todo /\ todo' = todo \ {k} /\ found' = found \cup {k}
  BY DEF ListKey
<1>2. Rev' = Rev /\ \A j, r : ModRevision(j, r)' = ModRevision(j, r)
  BY <1>1, SameHistory
<1>3. rev # 0 /\ rev \in 1..base /\ base \in 0..Rev /\ Rev \in Nat
  BY <1>1, ModType DEF MirrorInv, ListInv, TypeOK, Rev
<1>4. /\ LastOf(history, k, base, rev) /\ history[rev].put
  BY <1>3, ModIsLast, ModRevisionIn
<1>5. history[rev] = [key |-> k, put |-> TRUE]
  <2>1. history[rev] \in Changes
    <3> HIDE DEF rev
    <3> QED BY <1>3, Types
  <2>2. history[rev].key = k /\ history[rev].put = TRUE
    BY <1>4, <2>1 DEF LastOf, Changes
  <2> HIDE DEF rev
  <2>3. QED BY <2>1, <2>2 DEF Changes
<1>6. cache[k] <= rev
  <2>1. cache[k] \in Nat /\ cache[k] <= base
    BY <1>1 DEF MirrorInv, ListInv, TypeOK
  <2>2. CASE cache[k] = 0
    BY <1>3, <2>2
  <2>3. CASE cache[k] # 0
    BY <1>3, <2>1, <2>3, CachedIsOld DEF MirrorInv
  <2>4. QED BY <2>2, <2>3
<1> HIDE DEF rev
<1>7. cache' = [cache EXCEPT ![k] = rev] /\ told' = cache'
  <2>1. IF rev > cache[k]
          THEN cache' = [cache EXCEPT ![k] = rev] /\ told' = [told EXCEPT ![k] = rev]
          ELSE UNCHANGED <<cache, told>>
    BY DEF ListKey, rev
  <2>2. cache \in [Keys -> Nat] /\ told = cache
    BY DEF TypeOK, MirrorInv
  <2>3. QED BY <1>3, <1>6, <2>1, <2>2
<1>8. TypeOK'
  BY <1>1, <1>3, <1>7 DEF TypeOK
<1>9. CachedWasPut'
  <2>1. ASSUME NEW j \in Keys, cache'[j] # 0
        PROVE  cache'[j] <= Rev /\ history[cache'[j]] = [key |-> j, put |-> TRUE]
    <3>1. CASE j = k
      <4>1. cache'[j] = rev /\ rev <= Rev
        BY <1>3, <1>7, <3>1 DEF TypeOK
      <4>2. QED BY <1>5, <3>1, <4>1
    <3>2. CASE j # k
      <4>1. cache'[j] = cache[j]
        BY <1>7, <3>2 DEF TypeOK
      <4>2. QED BY <2>1, <4>1 DEF MirrorInv, CachedWasPut
    <3>3. QED BY <3>1, <3>2
  <2>2. QED BY <1>1, <1>2, <2>1 DEF CachedWasPut
<1>10. ListInv'
  <2>1. \A j \in Keys : cache'[j] <= base
    BY <1>1, <1>3, <1>7 DEF MirrorInv, ListInv, TypeOK
  <2>2. UpTo(k, base)'
    <3>1. ModRevision(k, base)' = rev /\ cache'[k] = rev /\ k \in found'
      BY <1>1, <1>2, <1>7 DEF rev, TypeOK
    <3>2. QED BY <3>1 DEF UpTo
  <2>3. ASSUME NEW j \in Keys \ todo', j # k PROVE UpTo(j, base)'
    <3>1. UpTo(j, base) /\ cache'[j] = cache[j]
      BY <1>1, <1>7, <2>3 DEF MirrorInv, ListInv, TypeOK
    <3>2. QED BY <1>1, <1>2, <3>1 DEF UpTo
  <2>4. \A j \in todo' : ModRevision(j, base)' # 0
    BY <1>1, <1>2 DEF MirrorInv, ListInv
  <2>5. QED BY <1>1, <2>1, <2>2, <2>3, <2>4 DEF ListInv
<1>11. FirstMarks'
  BY <1>1, <1>7 DEF MirrorInv, FirstMarks, TypeOK
<1>12. QED
  BY <1>1, <1>2, <1>7, <1>8, <1>9, <1>10, <1>11 DEF MirrorInv, NoMissedUpdate

\* Steps that only change the phase.
LEMMA PhaseMirror ==
    ASSUME TypeOK, MirrorInv, ListFails \/ ListEnds \/ WatchEnds \/ Cancel
    PROVE  TypeOK' /\ MirrorInv'
<1>1. /\ UNCHANGED <<history, cache, found, initSent, base, todo, next, told, spared>>
      /\ pc' \in {"sync", "list", "sweep", "watch", "done"}
      /\ cancelled' \in BOOLEAN
  BY DEF ListFails, ListEnds, WatchEnds, Cancel, watcherVars, TypeOK
<1>2. Rev' = Rev /\ \A k, r : ModRevision(k, r)' = ModRevision(k, r)
  BY <1>1, SameHistory
<1>3. TypeOK'
  BY <1>1 DEF TypeOK
<1>4. CachedWasPut'
  BY <1>1, <1>2 DEF MirrorInv, CachedWasPut
<1>5. (\A k \in Keys : UpTo(k, base)) => \A k \in Keys : UpTo(k, base)'
  BY <1>1, <1>2 DEF UpTo
<1>6. (\A k \in Keys \ todo : UpTo(k, base)) => \A k \in Keys \ todo' : UpTo(k, base)'
  BY <1>1, <1>2 DEF UpTo
<1>7. ListInv'
  BY <1>1, <1>2, <1>5, <1>6 DEF MirrorInv, ListInv, ListFails, ListEnds, WatchEnds, Cancel, watcherVars
<1>8. NoMissedUpdate' /\ (pc' = "watch" /\ ~ cancelled' => \A k \in Keys : cache'[k] < next')
  BY <1>1, <1>2 DEF MirrorInv, NoMissedUpdate, ListFails, ListEnds, WatchEnds, Cancel, watcherVars
<1>9. FirstMarks'
  BY <1>1 DEF MirrorInv, FirstMarks, ListFails, ListEnds, WatchEnds, Cancel, watcherVars
<1>10. QED
  BY <1>1, <1>2, <1>3, <1>4, <1>7, <1>8, <1>9 DEF MirrorInv

\* The end of a list, with INITIALIZED or with a sweep: the stream goes on
\* where the list stopped.
LEMMA ListedMirror ==
    ASSUME TypeOK, MirrorInv, Initialized \/ Sweep
    PROVE  TypeOK' /\ MirrorInv'
<1>1. /\ UNCHANGED <<history, cancelled, base, todo>>
      /\ pc = "sweep" /\ pc' = "watch" /\ next' = base + 1 /\ initSent' = TRUE
      /\ spared' = {k \in found : ModRevision(k, base) = 0}
      /\ base \in 0..Rev /\ Rev \in Nat
  BY DEF MarkedBefore, Initialized, Sweep, MirrorInv, TypeOK, Rev
<1>2. Rev' = Rev /\ \A k, r : ModRevision(k, r)' = ModRevision(k, r)
  BY <1>1, SameHistory
<1>3. /\ cache' \in [Keys -> Nat] /\ told' = cache'
      /\ \A k \in Keys : cache'[k] = cache[k] \/ (cache'[k] = 0 /\ k \notin found)
      /\ \A k \in Keys : cache'[k] # 0 => k \in found
  <2>1. CASE Initialized
    BY <2>1 DEF Initialized, MirrorInv, FirstMarks, TypeOK
  <2>2. CASE Sweep
    BY <2>2 DEF Sweep, MirrorInv, TypeOK
  <2>3. QED BY <2>1, <2>2
<1>4. TypeOK'
  <2>1. found' \in SUBSET {k \in Keys : cache'[k] # 0} /\ initSent' \in BOOLEAN
    <3>1. CASE Initialized
      BY <3>1 DEF Initialized, TypeOK
    <3>2. CASE Sweep
      BY <3>2 DEF Sweep, TypeOK
    <3>3. QED BY <3>1, <3>2
  <2>2. spared' \in SUBSET Keys
    BY <1>1 DEF TypeOK
  <2>3. QED BY <1>1, <1>3, <2>1, <2>2 DEF TypeOK
<1>5. CachedWasPut'
  BY <1>1, <1>2, <1>3 DEF MirrorInv, CachedWasPut
<1>6. ASSUME ~ cancelled
      PROVE  \A k \in Keys : /\ cache'[k] < next'
                             /\ ModRevision(k, base) # 0 => cache'[k] = ModRevision(k, base)
  <2>1. \A k \in Keys : cache[k] <= base /\ cache[k] \in Nat /\ UpTo(k, base)
    BY <1>1, <1>6 DEF MirrorInv, ListInv, TypeOK
  <2>2. QED BY <1>1, <1>3, <2>1 DEF UpTo
<1>7. NoMissedUpdate'
  <2>1. next' - 1 = base
    BY <1>1
  <2>2. ASSUME NEW k \in Keys, ~ cancelled, told'[k] # ModRevision(k, base)
        PROVE  ModRevision(k, base) = 0 /\ k \in spared'
    <3>1. ModRevision(k, base) = 0
      BY <1>3, <1>6, <2>2
    <3>2. QED BY <1>1, <1>3, <2>2, <3>1
  <2>3. QED BY <1>1, <1>2, <2>1, <2>2 DEF NoMissedUpdate
<1>8. QED
  BY <1>1, <1>2, <1>3, <1>4, <1>5, <1>6, <1>7 DEF MirrorInv, FirstMarks, ListInv

\* An event of the stream.
LEMMA WatchEventMirror ==
    ASSUME TypeOK, MirrorInv, WatchEvent
    PROVE  TypeOK' /\ MirrorInv'
<1> DEFINE k == history[next].key
           rev == IF history[next].put THEN next ELSE 0
<1>1. /\ UNCHANGED <<history, cancelled, pc, initSent, base, todo>>
      /\ pc = "watch" /\ ~ cancelled /\ next <= Rev /\ next' = next + 1
      /\ next \in Nat \ {0} /\ Rev \in Nat
      /\ \A j \in Keys : cache[j] < next
  BY DEF WatchEvent, MirrorInv, TypeOK, Rev
<1>2. Rev' = Rev /\ \A j, r : ModRevision(j, r)' = ModRevision(j, r)
  BY <1>1, SameHistory
<1>3. history[next] \in Changes /\ k \in Keys /\ rev \in Nat
  <2>1. history[next] \in Changes
    BY <1>1, Types
  <2>2. QED BY <1>1, <2>1 DEF Changes
<1>4. /\ cache' = [cache EXCEPT ![k] = rev] /\ told' = cache' /\ found' = found \ {k}
      /\ cache \in [Keys -> Nat] /\ spared' = spared \ {k}
  BY DEF WatchEvent, MirrorInv, TypeOK
<1>5. \A j : ModRevision(j, next) = IF j = k THEN rev ELSE ModRevision(j, next - 1)
  <2>1. next - 1 \in Nat /\ (next - 1) + 1 = next
    BY <1>1
  <2>2. QED BY <2>1, ModStep, ModRevisionIn
<1>6. history[next].put => history[next] = [key |-> k, put |-> TRUE]
  BY <1>3 DEF Changes
<1> HIDE DEF k
<1>7. TypeOK'
  BY <1>1, <1>3, <1>4 DEF TypeOK
<1>8. CachedWasPut'
  <2>1. ASSUME NEW j \in Keys, cache'[j] # 0
        PROVE  cache'[j] <= Rev /\ history[cache'[j]] = [key |-> j, put |-> TRUE]
    <3>1. CASE j = k
      BY <1>1, <1>3, <1>4, <1>6, <2>1, <3>1
    <3>2. CASE j # k
      BY <1>3, <1>4, <2>1, <3>2 DEF MirrorInv, CachedWasPut
    <3>3. QED BY <3>1, <3>2
  <2>2. QED BY <1>1, <1>2, <2>1 DEF CachedWasPut
<1>9. \A j \in Keys : cache'[j] < next'
  BY <1>1, <1>3, <1>4
<1> HIDE DEF rev
<1>10. NoMissedUpdate'
  <2>1. ASSUME NEW j \in Keys
        PROVE  \/ told'[j] = ModRevision(j, next)
               \/ ModRevision(j, next) = 0 /\ j \in spared'
    <3>1. CASE j = k
      BY <1>3, <1>4, <1>5, <3>1
    <3>2. CASE j # k
      <4>1. \/ told[j] = ModRevision(j, next - 1)
            \/ ModRevision(j, next - 1) = 0 /\ j \in spared
        BY <1>1 DEF MirrorInv, NoMissedUpdate
      <4>2. told'[j] = told[j]
        BY <1>3, <1>4, <3>2 DEF MirrorInv
      <4>3. QED BY <1>4, <1>5, <3>2, <4>1, <4>2
    <3>3. QED BY <3>1, <3>2
  <2>2. next' - 1 = next
    BY <1>1
  <2>3. QED BY <1>2, <2>1, <2>2 DEF NoMissedUpdate
<1>11. FirstMarks'
  BY <1>1 DEF MirrorInv, FirstMarks
<1>12. QED
  BY <1>1, <1>2, <1>4, <1>7, <1>8, <1>9, <1>10, <1>11 DEF MirrorInv, ListInv, TypeOK

\* Every step of etcd and of the watcher keeps types and invariant.
LEMMA NextMirror == TypeOK /\ MirrorInv /\ [Next]_vars => TypeOK' /\ MirrorInv'
<1> SUFFICES ASSUME TypeOK, MirrorInv, [Next]_vars
             PROVE  TypeOK' /\ MirrorInv'
  OBVIOUS
<1>1. ASSUME NEW k \in Keys, Put(k) \/ Delete(k)
      PROVE  TypeOK' /\ MirrorInv'
  BY <1>1, CommitMirror DEF Put, Delete
<1>2. CASE UNCHANGED vars
  <2>1. UNCHANGED <<history, pc, cache, found, initSent, base, todo, next, cancelled, told, spared>>
    BY <1>2 DEF vars, watcherVars
  <2>2. Rev' = Rev /\ \A k, r : ModRevision(k, r)' = ModRevision(k, r)
    BY <2>1, SameHistory
  <2>3. TypeOK'
    BY <2>1 DEF TypeOK
  <2>4. CachedWasPut' /\ NoMissedUpdate'
    BY <2>1, <2>2 DEF MirrorInv, CachedWasPut, NoMissedUpdate
  <2>5. ListInv'
    BY <2>1, <2>2 DEF MirrorInv, ListInv, UpTo
  <2>6. QED BY <2>1, <2>2, <2>3, <2>4, <2>5 DEF MirrorInv, FirstMarks
<1>3. QED
  BY <1>1, <1>2, SyncBaseMirror, ListKeyMirror, PhaseMirror, ListedMirror, WatchEventMirror
     DEF Next

(***************************************************************************)
(* The inductive invariant: what the listener was told is what is cached,  *)
(* each a revision that was put, never ahead of list or stream; what list  *)
(* and stream have passed is in the cache.  Every variable keeps its type. *)
(***************************************************************************)
THEOREM MirrorInvariant == Spec => [](TypeOK /\ MirrorInv)
<1>1. Init => TypeOK /\ MirrorInv
  <2> SUFFICES ASSUME Init PROVE TypeOK /\ MirrorInv
    OBVIOUS
  <2>1. history = <<>> /\ Rev = 0
    BY DEF Init, Rev
  <2>2. TypeOK
    <3>1. history \in Seq([key : Keys, put : BOOLEAN])
      BY <2>1
    <3>2. cache \in [Keys -> Nat] /\ told \in [Keys -> Nat]
      BY DEF Init
    <3>3. QED BY <3>1, <3>2 DEF Init, TypeOK
  <2>3. MirrorInv
    BY <2>1 DEF Init, MirrorInv, CachedWasPut, ListInv, FirstMarks, NoMissedUpdate
  <2>4. QED BY <2>2, <2>3
<1>2. QED BY <1>1, NextMirror, PTL DEF Spec

(***************************************************************************)
(* In the watch phase the listener's view is the range as of the stream's  *)
(* position, however often lists were started again and streams ended, but *)
(* for keys the sweep spared, as they were still marked by an earlier list *)
(* (etcdrangewatcher.go:100-180).                                          *)
(***************************************************************************)
THEOREM UpdatesAreNotMissed == Spec => []NoMissedUpdate
<1>1. TypeOK /\ MirrorInv => NoMissedUpdate
  BY DEF MirrorInv
<1>2. QED BY <1>1, MirrorInvariant, PTL

(***************************************************************************)
(* A deletion that is told, be it of the stream or found by a resync, was  *)
(* made after the revision told last, unless the watch was cancelled       *)
(* (etcdrangewatcher.go:153-162).                                          *)
(***************************************************************************)
THEOREM ToldDeletesAreReal == Spec => DeletesAreReal
<1>1. TypeOK /\ MirrorInv /\ [Next]_vars =>
        [\A k \in Keys : told[k] # 0 /\ told'[k] = 0 =>
           \/ cancelled
           \/ \E i \in (told[k] + 1)..Rev : history[i].key = k /\ ~ history[i].put]_vars
  <2> SUFFICES ASSUME TypeOK, MirrorInv, Next, NEW k \in Keys, told[k] # 0, told'[k] = 0,
                      ~ cancelled
               PROVE  \E i \in (told[k] + 1)..Rev : history[i].key = k /\ ~ history[i].put
    OBVIOUS
  <2>0. told = cache /\ cache[k] \in Nat /\ cache[k] # 0 /\ Rev \in Nat
    BY Types DEF MirrorInv
  <2>1. CASE UNCHANGED told
    BY <2>1
  <2>2. ASSUME NEW j \in Keys, ListKey(j) PROVE FALSE
    <3>1. ModRevision(j, base) \in Nat
      BY ModType DEF TypeOK
    <3>2. QED BY <2>0, <2>2, <3>1 DEF ListKey, TypeOK
  <2>3. CASE Sweep
    <3>1. k \notin found
      BY <2>0, <2>3 DEF Sweep, TypeOK
    <3>2. cache[k] <= base /\ base \in 0..Rev /\ ModRevision(k, base) = 0
      BY <2>0, <2>3, <3>1 DEF Sweep, MirrorInv, ListInv, UpTo, TypeOK
    <3>3. \E i \in (cache[k] + 1)..base : history[i].key = k /\ ~ history[i].put
      BY <2>0, <3>2, CachedIsOld DEF MirrorInv
    <3>4. QED BY <2>0, <3>2, <3>3
  <2>4. CASE WatchEvent
    <3>1. next \in 1..Rev /\ history[next] \in Changes /\ cache[k] < next
      BY <2>0, <2>4, Types DEF WatchEvent, MirrorInv, TypeOK
    <3>2. history[next].key = k /\ ~ history[next].put
      BY <2>0, <2>4, <3>1 DEF WatchEvent, TypeOK, Changes
    <3>3. QED BY <2>0, <3>1, <3>2
  <2>5. QED
    BY <2>1, <2>2, <2>3, <2>4
       DEF Next, Put, Delete, Commit, Cancel, SyncBase, ListFails, ListEnds, Initialized,
           WatchEnds, watcherVars
<1>2. QED
  BY <1>1, MirrorInvariant, PTL DEF Spec, DeletesAreReal

(***************************************************************************)
(* No list undoes what the stream said before it: the revision told of a   *)
(* key never goes back (etcdrangewatcher.go:135-143).                      *)
(***************************************************************************)
THEOREM ToldNeverGoesBack == Spec => NeverBackwards
<1>1. TypeOK /\ MirrorInv /\ [Next]_vars =>
        [\A k \in Keys : told'[k] # 0 => told'[k] >= told[k]]_vars
  <2> SUFFICES ASSUME TypeOK, MirrorInv, Next, NEW k \in Keys, told'[k] # 0
               PROVE  told'[k] >= told[k]
    OBVIOUS
  <2>0. told = cache /\ cache[k] \in Nat /\ told \in [Keys -> Nat]
    BY Types DEF MirrorInv, TypeOK
  <2>1. CASE UNCHANGED told
    BY <2>0, <2>1
  <2>2. ASSUME NEW j \in Keys, ListKey(j) PROVE told'[k] >= told[k]
    <3>1. ModRevision(j, base) \in Nat
      BY ModType DEF TypeOK
    <3>2. QED BY <2>0, <2>2, <3>1 DEF ListKey
  <2>3. CASE Sweep
    BY <2>0, <2>3 DEF Sweep
  <2>4. CASE WatchEvent
    <3>1. cache[k] < next /\ next \in Nat
      BY <2>4 DEF WatchEvent, MirrorInv, TypeOK
    <3>2. told'[k] \in {told[k], 0, next}
      BY <2>0, <2>4 DEF WatchEvent
    <3>3. QED BY <2>0, <3>1, <3>2
  <2>5. QED
    BY <2>1, <2>2, <2>3, <2>4
       DEF Next, Put, Delete, Commit, Cancel, SyncBase, ListFails, ListEnds, Initialized,
           WatchEnds, watcherVars
<1>2. QED
  BY <1>1, MirrorInvariant, PTL DEF Spec, NeverBackwards
=============================================================================

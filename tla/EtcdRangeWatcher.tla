-------------------------- MODULE EtcdRangeWatcher --------------------------
(***************************************************************************)
(* pkg/mmesh/etcdrangewatcher.go: a mirror of the keys under one etcd      *)
(* prefix.  It lists the range (SyncBase, page by page), tells its         *)
(* listener what is new, then follows a watch (SyncUpdates) from the       *)
(* version of the list; whenever the watch stream ends, be it compaction   *)
(* or any other failure, it lists again and reports what has gone.         *)
(*                                                                         *)
(* etcd and its mirror library are external: history holds the changes of  *)
(* the range in revision order, a list answers for one revision, a watch   *)
(* delivers the later changes in order until it ends.                      *)
(***************************************************************************)
EXTENDS Naturals, Sequences

CONSTANTS
    Keys,           \* the keys under the prefix
    MaxRev,         \* bound: how many changes etcd commits
    MayCancel       \* whether the watch context may be cancelled

ASSUME EtcdAssumption == MaxRev \in Nat /\ MayCancel \in BOOLEAN

VARIABLES
    history,    \* the committed changes of the range; the index is the revision
    pc,         \* "sync", "list", "sweep", "watch", or "done"
    cache,      \* key -> the cached ModRevision, 0 if the key is not cached
    found,      \* the cached keys whose entry has found set
    initSent,   \* INITIALIZED was sent
    base,       \* the revision of the list being read
    todo,       \* the listed keys not read yet
    next,       \* the next revision of the watch stream
    cancelled,  \* the context was cancelled
    told,       \* key -> what the listener was told last, 0 for a deletion
    spared      \* auxiliary: the keys, gone by then, that the last list left
                \* cached because of a mark of an earlier list

watcherVars == <<pc, cache, found, initSent, base, todo, next, told, spared>>
vars == <<history, watcherVars, cancelled>>

-----------------------------------------------------------------------------
Rev == Len(history)

\* The ModRevision of k as of revision r, 0 if it does not exist then.
ModRevision(k, r) ==
    LET last == {i \in 1..r : /\ history[i].key = k
                              /\ \A j \in (i + 1)..r : history[j].key # k}
    IN IF \E i \in last : history[i].put
         THEN CHOOSE i \in last : TRUE
         ELSE 0

\* Every variable keeps its type; a cached key was told, an uncached one is not found.
TypeOK ==
    /\ history \in Seq([key : Keys, put : BOOLEAN])
    /\ pc \in {"sync", "list", "sweep", "watch", "done"}
    /\ cache \in [Keys -> Nat]
    /\ found \in SUBSET {k \in Keys : cache[k] # 0}
    /\ initSent \in BOOLEAN
    /\ base \in Nat
    /\ todo \in SUBSET Keys
    /\ next \in Nat
    /\ cancelled \in BOOLEAN
    /\ told \in [Keys -> Nat]
    /\ spared \in SUBSET Keys

Init ==
    /\ history = <<>>
    /\ pc = "sync"
    /\ cache = [k \in Keys |-> 0]
    /\ found = {}
    /\ initSent = FALSE
    /\ base = 0
    /\ todo = {}
    /\ next = 1
    /\ cancelled = FALSE
    /\ told = [k \in Keys |-> 0]
    /\ spared = {}

-----------------------------------------------------------------------------
(* etcd *)

Commit(k, put) ==
    /\ Rev < MaxRev
    /\ history' = Append(history, [key |-> k, put |-> put])
    /\ UNCHANGED <<watcherVars, cancelled>>

Put(k) == Commit(k, TRUE)

Delete(k) == ModRevision(k, Rev) # 0 /\ Commit(k, FALSE)

\* UpdateWatchedService or RemoveWatchedService cancels the watch.
Cancel ==
    /\ MayCancel
    /\ cancelled' = TRUE
    /\ UNCHANGED <<history, watcherVars>>

-----------------------------------------------------------------------------
(* The refresh *)

\* SyncBase fixes the revision that all pages of the list will be read at.
SyncBase ==
    /\ pc = "sync"
    /\ ~ cancelled
    /\ base' = Rev
    /\ todo' = {k \in Keys : ModRevision(k, Rev) # 0}
    /\ pc' = "list"
    /\ UNCHANGED <<history, cancelled, cache, found, initSent, next, told, spared>>

\* Slips: a key that is cached already is not told again; only a key that is
\* told is marked.
ListNewKey(k) ==
    /\ pc = "list"
    /\ k \in todo
    /\ todo' = todo \ {k}
    /\ found' = found \cup {k}
    /\ LET rev == ModRevision(k, base) IN
         IF cache[k] = 0
           THEN /\ cache' = [cache EXCEPT ![k] = rev]
                /\ told' = [told EXCEPT ![k] = rev]
           ELSE UNCHANGED <<cache, told>>
    /\ UNCHANGED <<history, cancelled, pc, initSent, base, next, spared>>
ListMarksTold(k) ==
    /\ pc = "list"
    /\ k \in todo
    /\ todo' = todo \ {k}
    /\ LET rev == ModRevision(k, base) IN
         IF rev > cache[k]
           THEN /\ found' = found \cup {k}
                /\ cache' = [cache EXCEPT ![k] = rev]
                /\ told' = [told EXCEPT ![k] = rev]
           ELSE UNCHANGED <<found, cache, told>>
    /\ UNCHANGED <<history, cancelled, pc, initSent, base, next, spared>>

\* A listed key that is new, or newer than cached, is told; any is marked.
ListKey(k) ==
    /\ pc = "list"
    /\ k \in todo
    /\ todo' = todo \ {k}
    /\ found' = found \cup {k}
    /\ LET rev == ModRevision(k, base) IN
         IF rev > cache[k]
           THEN /\ cache' = [cache EXCEPT ![k] = rev]
                /\ told' = [told EXCEPT ![k] = rev]
           ELSE UNCHANGED <<cache, told>>
    /\ UNCHANGED <<history, cancelled, pc, initSent, base, next, spared>>

\* An error of the list: it is started again, what is marked stays marked.
ListFails ==
    /\ pc = "list"
    /\ ~ cancelled
    /\ pc' = "sync"
    /\ UNCHANGED <<history, cancelled, cache, found, initSent, base, todo, next, told, spared>>

\* The list ends, at its end or, because its context was cancelled, at any
\* point, the start included: the break there only leaves the select.
ListEnds ==
    /\ \/ pc = "list" /\ todo = {}
       \/ pc \in {"sync", "list"} /\ cancelled
    /\ pc' = "sweep"
    /\ UNCHANGED <<history, cancelled, cache, found, initSent, base, todo, next, told, spared>>

\* The marked keys that the list did not have: marked by an earlier list, the
\* first one or one that failed.
MarkedBefore == {k \in found : ModRevision(k, base) = 0}

\* After the first list: INITIALIZED, and the marks stay.
Initialized ==
    /\ pc = "sweep"
    /\ ~ initSent
    /\ initSent' = TRUE
    /\ next' = base + 1
    /\ pc' = "watch"
    /\ spared' = MarkedBefore
    /\ UNCHANGED <<history, cancelled, cache, found, base, todo, told>>

\* A slip: the marks are not cleared.
SweepKeepsMarks ==
    /\ pc = "sweep"
    /\ initSent
    /\ LET gone == {k \in Keys : cache[k] # 0 /\ k \notin found} IN
         /\ cache' = [k \in Keys |-> IF k \in gone THEN 0 ELSE cache[k]]
         /\ told' = [k \in Keys |-> IF k \in gone THEN 0 ELSE told[k]]
    /\ next' = base + 1
    /\ pc' = "watch"
    /\ spared' = MarkedBefore
    /\ UNCHANGED <<history, cancelled, found, initSent, base, todo>>

\* After a later list: DELETE for the cached keys not marked; clear the marks.
Sweep ==
    /\ pc = "sweep"
    /\ initSent
    /\ LET gone == {k \in Keys : cache[k] # 0 /\ k \notin found} IN
         /\ cache' = [k \in Keys |-> IF k \in gone THEN 0 ELSE cache[k]]
         /\ told' = [k \in Keys |-> IF k \in gone THEN 0 ELSE told[k]]
    /\ found' = {}
    /\ next' = base + 1
    /\ pc' = "watch"
    /\ spared' = MarkedBefore
    /\ UNCHANGED <<history, cancelled, initSent, base, todo>>

-----------------------------------------------------------------------------
(* The watch phase *)

\* The next change: a PUT replaces the entry, unmarked; a DELETE drops it.  (A
\* DELETE of a key that is not cached is told too, without a value.)
WatchEvent ==
    /\ pc = "watch"
    /\ ~ cancelled
    /\ next <= Rev
    /\ LET k == history[next].key
           rev == IF history[next].put THEN next ELSE 0
       IN /\ cache' = [cache EXCEPT ![k] = rev]
          /\ told' = [told EXCEPT ![k] = rev]
          /\ found' = found \ {k}
          /\ spared' = spared \ {k}
    /\ next' = next + 1
    /\ UNCHANGED <<history, cancelled, pc, initSent, base, todo>>

\* A slip: the watch is opened again at the version of the last list.
WatchReopens ==
    /\ pc = "watch"
    /\ next' = base + 1
    /\ pc' = IF cancelled THEN "done" ELSE "watch"
    /\ UNCHANGED <<history, cancelled, cache, found, initSent, base, todo, told, spared>>

\* The stream ends: compaction, another failure, or the cancelled context.
WatchEnds ==
    /\ pc = "watch"
    /\ pc' = IF cancelled THEN "done" ELSE "sync"
    /\ UNCHANGED <<history, cancelled, cache, found, initSent, base, todo, next, told, spared>>

-----------------------------------------------------------------------------
Next ==
    \/ \E k \in Keys : Put(k) \/ Delete(k) \/ ListKey(k)
    \/ Cancel
    \/ SyncBase \/ ListFails \/ ListEnds \/ Initialized \/ Sweep
    \/ WatchEvent \/ WatchEnds

Spec == Init /\ [][Next]_vars

\* The goroutine runs and etcd answers: a list does not fail for ever.  A watch
\* stream may end at any time or never.
Fairness ==
    /\ WF_vars(SyncBase \/ ListEnds \/ Initialized \/ Sweep)
    /\ \A k \in Keys : SF_vars(ListKey(k))
    /\ SF_vars(ListEnds)
    /\ WF_vars(WatchEvent)

FairSpec == Spec /\ Fairness

-----------------------------------------------------------------------------
(* Properties *)

\* In the watch phase the listener's view is the range as of the stream's
\* position, after any number of restarted lists and resyncs
\* (etcdrangewatcher.go:135-143, 149-180), but for the keys that the last list
\* spared.
NoMissedUpdate ==
    pc = "watch" /\ ~ cancelled =>
        \A k \in Keys :
            \/ told[k] = ModRevision(k, next - 1)
            \/ ModRevision(k, next - 1) = 0 /\ k \in spared

\* A deletion is only told of a key that was deleted after the revision told
\* last, unless the watch was cancelled.
DeletesAreReal ==
    [][\A k \in Keys : told[k] # 0 /\ told'[k] = 0 =>
         \/ cancelled
         \/ \E i \in (told[k] + 1)..Rev : history[i].key = k /\ ~ history[i].put]_vars

\* What the listener is told of a key never goes back to an older revision:
\* a list cannot undo what the stream said before it.
NeverBackwards ==
    [][\A k \in Keys : told'[k] # 0 => told'[k] >= told[k]]_vars

\* Once the range is quiet the listener's view is the range, except for keys
\* that a sweep spared because they were still marked: "found" is not false
\* during the watch phase that follows the first list, nor for keys that a
\* failed list has marked (etcdrangewatcher.go:86, 150).  Such a key is mirrored
\* although it is gone as long as the stream lives, which may be for ever; if
\* streams keep ending, it is swept by a later list.
EventuallyMirrored ==
    LET Known(k) == told[k] = ModRevision(k, Rev) IN
    /\ <>[](cancelled \/ \A k \in Keys : Known(k) \/ k \in spared)
    /\ []<><<WatchEnds>>_vars => <>[](cancelled \/ \A k \in Keys : Known(k))

-----------------------------------------------------------------------------
(* The inductive strengthening of NoMissedUpdate, DeletesAreReal and        *)
(* NeverBackwards, proved in EtcdRangeWatcher_proofs.                       *)

\* What is cached of k was put at that revision.
CachedWasPut ==
    \A k \in Keys : cache[k] # 0 =>
        cache[k] <= Rev /\ history[cache[k]] = [key |-> k, put |-> TRUE]

\* Key k as of revision r is marked, and cached as it is there.
UpTo(k, r) == ModRevision(k, r) # 0 => k \in found /\ cache[k] = ModRevision(k, r)

\* The list is ahead of the cache, and what is read of it is in the cache.
ListInv ==
    /\ pc = "list" \/ (pc = "sweep" /\ ~ cancelled) => \A k \in Keys : cache[k] <= base
    /\ pc = "list" => /\ \A k \in todo : ModRevision(k, base) # 0
                      /\ \A k \in Keys \ todo : UpTo(k, base)
    /\ pc = "sweep" /\ ~ cancelled => \A k \in Keys : UpTo(k, base)

\* Until the first list is complete, whatever is cached is marked.
FirstMarks ==
    /\ pc = "watch" => initSent
    /\ ~ initSent => \A k \in Keys : cache[k] # 0 => k \in found

\* The listener knows what is cached, and neither is ahead of the stream.
MirrorInv ==
    /\ told = cache
    /\ base <= Rev /\ next \in 1..(Rev + 1)
    /\ CachedWasPut
    /\ ListInv
    /\ FirstMarks
    /\ pc = "watch" /\ ~ cancelled => \A k \in Keys : cache[k] < next
    /\ NoMissedUpdate
=============================================================================

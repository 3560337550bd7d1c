------------------------ MODULE WatchPredictorSource ------------------------
(***************************************************************************)
(* pkg/predictor_source/watchrefresh_predictor_source.go: the predictor    *)
(* source that lists a repository once and then follows its watch, lists   *)
(* again when its watch position is too old, and re-establishes the watch  *)
(* whenever the stream ends.                                               *)
(*                                                                         *)
(* pc says where the source's goroutine is: "start" and "populate" are     *)
(* StartWatch before it returns; "initial" drains the events that did not  *)
(* fit the channel; "watch" is the Watch call, "read" the read loop;       *)
(* "refresh", "items" and "deletes" are refreshCache; "write" is           *)
(* writeEvent, which continues at ret.                                     *)
(*                                                                         *)
(* A remote call that fails (Refresh, Watch) is repeated: no state changes *)
(* and so no step is needed for it.                                        *)
(***************************************************************************)
EXTENDS CachedPredictorSource

CONSTANT
    WatchOffset     \* Watch(rv) replays from version rv + WatchOffset

ASSUME WatchAssumption == WatchOffset \in {0, 1}

VARIABLES
    pc, ret,
    resourceVersion,    \* the version the next Watch starts from
    next,               \* the version the stream delivers next
    list, listRv,       \* the answer of the last Refresh
    todo,               \* the names of the list, or of toDelete, still to do
    pending,            \* the event writeEvent is sending, with its version
    initialEvents       \* the overflow of the initial events

watchVars == <<pc, ret, resourceVersion, next, list, listRv, todo, pending, initialEvents>>
vars == <<repositoryVars, sourceVars, watchVars>>

-----------------------------------------------------------------------------
Labels == {"start", "populate", "initial", "watch", "refresh", "items", "deletes",
           "read", "write"}

WatchTypeOK ==
    /\ pc \in Labels
    /\ ret \in {"items", "deletes", "read"}
    /\ resourceVersion \in Nat
    /\ next \in Nat \ {0}
    /\ list \in [Names -> Object]
    /\ listRv \in Nat
    /\ todo \in SUBSET Names
    /\ pending \in [name : Names \cup {NoName}, rv : Nat]
    /\ initialEvents \in Seq(Names \cup {NoName})

\* Every variable keeps its type.
TypeOK == RepositoryTypeOK /\ SourceTypeOK /\ WatchTypeOK

Init ==
    /\ RepositoryInit
    /\ SourceInit
    /\ pc = "start"
    /\ ret = "read"
    /\ resourceVersion = 0
    /\ next = 1
    /\ list = [n \in Names |-> Absent]
    /\ listRv = 0
    /\ todo = {}
    /\ pending = [name |-> NoName, rv |-> 0]
    /\ initialEvents = <<>>

\* StartWatch has returned: the registry and the channel are in use.
Started == pc \notin {"start", "populate"}

HasRoom == Len(outChan) < Cap

-----------------------------------------------------------------------------
(* StartWatch *)

\* A Refresh answers with all objects as of the current version.
TakeList ==
    /\ list' = registry
    /\ listRv' = Rev
    /\ todo' = {n \in Names : Present(registry[n])}

StartWatch ==
    /\ pc = "start"
    /\ TakeList
    /\ pc' = "populate"
    /\ UNCHANGED <<repositoryVars, sourceVars, ret, resourceVersion, next, pending,
                   initialEvents>>

\* The overflow slice is created with Cap zero events in it.
BlankEvents == [i \in 1..Cap |-> NoName]

\* Each listed object is cached and announced, through the overflow slice from
\* the first event on that finds the channel full.
Populate(n) ==
    /\ pc = "populate"
    /\ n \in todo
    /\ todo' = todo \ {n}
    /\ cache' = [cache EXCEPT ![n] = list[n]]
    /\ IF initialEvents = <<>> /\ HasRoom
         THEN /\ outChan' = Append(outChan, n)
              /\ UNCHANGED initialEvents
         ELSE /\ initialEvents' =
                   Append(IF initialEvents = <<>> THEN BlankEvents ELSE initialEvents, n)
              /\ UNCHANGED outChan
    /\ UNCHANGED <<repositoryVars, deletionQueue, panicked, lockHeld, workVars,
                   pc, ret, resourceVersion, next, list, listRv, pending>>

StartWatchReturns ==
    /\ pc = "populate"
    /\ todo = {}
    /\ pc' = "initial"
    /\ resourceVersion' = listRv
    /\ UNCHANGED <<repositoryVars, sourceVars, ret, next, list, listRv, todo, pending,
                   initialEvents>>

\* The goroutine first sends the overflow, waiting for room.
SendInitialEvent ==
    /\ pc = "initial"
    /\ initialEvents # <<>>
    /\ HasRoom
    /\ outChan' = Append(outChan, Head(initialEvents))
    /\ initialEvents' = Tail(initialEvents)
    /\ UNCHANGED <<repositoryVars, cacheVars, lockHeld, workVars,
                   pc, ret, resourceVersion, next, list, listRv, todo, pending>>

InitialEventsSent ==
    /\ pc = "initial"
    /\ initialEvents = <<>>
    /\ pc' = "watch"
    /\ UNCHANGED <<repositoryVars, sourceVars, ret, resourceVersion, next, list, listRv,
                   todo, pending, initialEvents>>

-----------------------------------------------------------------------------
(* The watch loop *)

\* The version that a watch from rv delivers first.
WatchFrom(rv) == IF rv + WatchOffset = 0 THEN 1 ELSE rv + WatchOffset

\* Watch succeeds; the lock is left as it is.
WatchEstablished ==
    /\ pc = "watch"
    /\ pc' = "read"
    /\ next' = WatchFrom(resourceVersion)
    /\ UNCHANGED <<repositoryVars, sourceVars, ret, resourceVersion, list, listRv, todo,
                   pending, initialEvents>>

\* Watch answers ERR_TOO_OLD, which it may do once there are newer versions.
WatchTooOld ==
    /\ pc = "watch"
    /\ resourceVersion < Rev
    /\ pc' = "refresh"
    /\ UNCHANGED <<repositoryVars, sourceVars, ret, resourceVersion, next, list, listRv,
                   todo, pending, initialEvents>>

\* processEvent() and, if the object is accepted, the call of writeEvent():
\* takes the lock if it is not held and offers the object to the cache.
ProcessEvent(n, o, return) ==
    /\ lockHeld' = TRUE
    /\ Offer(n, o)
    /\ IF Newer(cache[n], o)
         THEN /\ pc' = "write"
              /\ ret' = return
              /\ pending' = [name |-> n, rv |-> o.rv]
         ELSE /\ pc' = return
              /\ UNCHANGED <<ret, pending>>

\* readEvent() finds or waits for an event.
ReadEvent ==
    /\ pc = "read"
    /\ next <= Rev
    /\ ProcessEvent(log[next].name, log[next].obj, "read")
    /\ next' = next + 1
    /\ UNCHANGED <<repositoryVars, outChan, workVars, resourceVersion, list, listRv, todo,
                   initialEvents>>

\* readEvent() finds nothing to read while it holds the lock: it prunes and
\* unlocks before it waits.
PollMisses ==
    /\ pc = "read"
    /\ lockHeld
    /\ PruneDeletions
    /\ lockHeld' = FALSE
    /\ UNCHANGED <<repositoryVars, outChan, workVars, watchVars>>

\* The stream has ended; whatever it had not delivered is lost with it.
StreamEnds ==
    /\ pc = "read"
    /\ ~ lockHeld
    /\ pc' = "watch"
    /\ UNCHANGED <<repositoryVars, sourceVars, ret, resourceVersion, next, list, listRv,
                   todo, pending, initialEvents>>

\* A slip: the position moves to what a refresh announces, too.
WriteEventMoves ==
    /\ pc = "write"
    /\ HasRoom
    /\ outChan' = Append(outChan, pending.name)
    /\ pc' = ret
    /\ resourceVersion' = pending.rv
    /\ UNCHANGED <<repositoryVars, cacheVars, lockHeld, workVars, ret, next, list, listRv,
                   todo, pending, initialEvents>>

\* writeEvent() sends; after an event of the watch the position moves to it.
WriteEvent ==
    /\ pc = "write"
    /\ HasRoom
    /\ outChan' = Append(outChan, pending.name)
    /\ pc' = ret
    /\ resourceVersion' = IF ret = "read" THEN pending.rv ELSE resourceVersion
    /\ UNCHANGED <<repositoryVars, cacheVars, lockHeld, workVars, ret, next, list, listRv,
                   todo, pending, initialEvents>>

\* A slip: an event that finds the channel full is dropped.
WriteDrops ==
    /\ pc = "write"
    /\ ~ HasRoom
    /\ pc' = ret
    /\ lockHeld' = FALSE
    /\ UNCHANGED <<repositoryVars, cacheVars, outChan, workVars, ret, resourceVersion, next,
                   list, listRv, todo, pending, initialEvents>>

\* writeEvent() finds the channel full: it unlocks before it waits.
WriteBlocks ==
    /\ pc = "write"
    /\ ~ HasRoom
    /\ lockHeld
    /\ lockHeld' = FALSE
    /\ UNCHANGED <<repositoryVars, cacheVars, outChan, workVars, watchVars>>

-----------------------------------------------------------------------------
(* refreshCache *)

\* A slip: the position moves before the list is applied.
RefreshMoves ==
    /\ pc = "refresh"
    /\ TakeList
    /\ pc' = "items"
    /\ resourceVersion' = listRv'
    /\ UNCHANGED <<repositoryVars, sourceVars, ret, next, pending, initialEvents>>

\* The list is taken; the position stays until all of it is in the cache.
Refresh ==
    /\ pc = "refresh"
    /\ TakeList
    /\ pc' = "items"
    /\ UNCHANGED <<repositoryVars, sourceVars, ret, resourceVersion, next, pending,
                   initialEvents>>

RefreshItem(n) ==
    /\ pc = "items"
    /\ n \in todo
    /\ todo' = todo \ {n}
    /\ ProcessEvent(n, list[n], "items")
    /\ UNCHANGED <<repositoryVars, outChan, workVars, resourceVersion, next, list, listRv,
                   initialEvents>>

\* A slip: every cached name is deleted.
ToDeleteCached == {n \in Names : Present(cache[n])}

\* The cached names that the list lacks are to be deleted.
ToDelete == {n \in Names : Present(cache[n]) /\ ~ Present(list[n])}

RefreshItemsDone ==
    /\ pc = "items"
    /\ todo = {}
    /\ pc' = "deletes"
    /\ todo' = ToDelete
    /\ UNCHANGED <<repositoryVars, sourceVars, ret, resourceVersion, next, list, listRv,
                   pending, initialEvents>>

RefreshDelete(n) ==
    /\ pc = "deletes"
    /\ n \in todo
    /\ todo' = todo \ {n}
    /\ ProcessEvent(n, Tombstone(listRv), "deletes")
    /\ UNCHANGED <<repositoryVars, outChan, workVars, resourceVersion, next, list, listRv,
                   initialEvents>>

\* refreshCache() returns to the Watch retry loop, which does not unlock.
RefreshDone ==
    /\ pc = "deletes"
    /\ todo = {}
    /\ pc' = "watch"
    /\ resourceVersion' = listRv
    /\ UNCHANGED <<repositoryVars, sourceVars, ret, next, list, listRv, todo, pending,
                   initialEvents>>

-----------------------------------------------------------------------------
SourceStep ==
    \/ StartWatch \/ StartWatchReturns \/ SendInitialEvent \/ InitialEventsSent
    \/ WatchEstablished \/ WatchTooOld \/ ReadEvent \/ PollMisses \/ StreamEnds
    \/ WriteEvent \/ WriteBlocks
    \/ Refresh \/ RefreshItemsDone \/ RefreshDone
    \/ \E n \in Names : Populate(n) \/ RefreshItem(n) \/ RefreshDelete(n)

\* A panic ends the process: nothing but the repository moves after it.
Next ==
    \/ ~ panicked /\ SourceStep
    \/ ~ panicked /\ Started /\ WorkStep /\ UNCHANGED watchVars
    \/ RepositoryStep /\ UNCHANGED <<sourceVars, watchVars>>

Spec == Init /\ [][Next]_vars

\* The goroutine runs, the repository answers (a watch that keeps failing or
\* ending is a repository that is down), it does deliver now and then before a
\* stream ends, and the controllers serve their queues.
Fairness ==
    /\ WF_vars(~ panicked /\ (\/ StartWatch \/ StartWatchReturns \/ SendInitialEvent
                              \/ InitialEventsSent \/ WatchEstablished \/ PollMisses
                              \/ WriteEvent \/ WriteBlocks \/ Refresh
                              \/ RefreshItemsDone \/ RefreshDone
                              \/ \E n \in Names : \/ Populate(n)
                                                  \/ RefreshItem(n)
                                                  \/ RefreshDelete(n)))
    /\ SF_vars(~ panicked /\ ReadEvent)
    /\ WF_vars(~ panicked /\ Started /\ Dispatch /\ UNCHANGED <<repositoryVars, watchVars>>)
    /\ \A n \in Names :
         SF_vars(/\ ~ panicked /\ Started
                 /\ Reconcile(n) /\ UNCHANGED <<repositoryVars, watchVars>>)

FairSpec == Spec /\ Fairness

-----------------------------------------------------------------------------
(* Properties *)

\* The change takes its Predictor away.
Deletes(change) == change.kind = "DELETE" \/ change.obj.del

\* Version i of history l is in cache c, or a later one of the same name is, or
\* that name was deleted since (its tombstone may have been pruned).
Reflected(l, c, i) ==
    \/ c[l[i].name].rv >= i
    \/ \E j \in i..Len(l) : l[j].name = l[i].name /\ Deletes(l[j])

\* No update is lost: every change up to the watch position, from where the
\* next watch resumes, is reflected in the cache, however streams ended,
\* lists were taken and status answers came in (watchrefresh ... :128-137).
NoLostUpdate == Started => \A i \in 1..resourceVersion : Reflected(log, cache, i)

\* In history l, all changes of n up to version r are followed by its deletion.
Gone(l, n, r) ==
    \A i \in 1..r : i <= Len(l) /\ l[i].name = n =>
        \E j \in i..Len(l) : l[j].name = n /\ Deletes(l[j])

\* Object o is what history l has for n at version o.rv, or stands for n having
\* been deleted by then.
Real(l, n, o) ==
    /\ o.rv <= Len(l)
    /\ \/ o.rv # 0 /\ l[o.rv].name = n /\ l[o.rv].obj = o
       \/ o.del /\ Gone(l, n, o.rv)

\* What the cache holds was true: a live entry is the object the repository
\* committed at that version, a deleted one is of a name deleted by then
\* (events, lists and status answers all pass through offerToCache).
CacheFaithful == \A n \in Names : Present(cache[n]) => Real(log, n, cache[n])

\* The watch position never moves back (the code's TODO at line 135).
WatchVersionMonotone == [][resourceVersion' >= resourceVersion]_vars

Version(o) == IF o.del THEN 0 ELSE o.gen

\* No change is left unreconciled: if the registry shows a spec other than the
\* one the last reconcile acted on, the name is queued, or its event is on its
\* way, in the channel, in writeEvent or in the overflow of the initial events.
\* This is what lets UpdateStatus swallow watch events: it requeues instead.
ChangeWillBeReconciled ==
    (Started /\ ~ panicked) => \A n \in Names :
        \/ observed[n] = Version(cache[n])
        \/ n \in dirty
        \/ \E i \in DOMAIN outChan : outChan[i] = n
        \/ \E i \in DOMAIN initialEvents : initialEvents[i] = n
        \/ pc = "write" /\ pending.name = n

\* The names that are on their way to a reconcile.
OnTheWay ==
    dirty \cup (Names \cap ({outChan[i] : i \in DOMAIN outChan}
                               \cup {initialEvents[i] : i \in DOMAIN initialEvents}
                               \cup (IF pc = "write" THEN {pending.name} ELSE {})))

\* A source that watches and refreshes keeps what PredictorSource promises
\* (predictor_source.go:28): whatever Get comes to answer, after the initial
\* list, a watch event or a refresh that finds a change or a deletion missed, an
\* event is on its way (watchrefresh_predictor_source.go:61-210).
Promise == INSTANCE PredictorSource WITH
    known <- [n \in Names |-> Get(n).gen], seen <- observed, events <- OnTheWay

KeepsPromise == Promise!Spec

\* The last change of the name is a DELETE event without a timestamp, which
\* processEvent caches as a live Predictor (cached_predictor_source.go:198).
DeletedUnstamped(n) ==
    \E i \in DOMAIN log :
        /\ log[i].name = n /\ log[i].kind = "DELETE" /\ ~ log[i].obj.del
        /\ \A j \in i + 1 .. Rev : log[j].name # n

\* Once the repository is quiet, the controllers have acted on its contents
\* (StartWatch, watchrefresh_predictor_source.go:61-165), however often its
\* stream ended before; of a Predictor whose DELETE event has no timestamp
\* nothing is said.
Convergence ==
    <>[](\A n \in Names : observed[n] = Version(registry[n]) \/ DeletedUnstamped(n))

-----------------------------------------------------------------------------
(* The inductive strengthening of NoLostUpdate, CacheFaithful and           *)
(* WatchVersionMonotone, proved in WatchPredictorSource_proofs.             *)

\* Snapshot s holds the objects of version r of history l.
SnapshotOf(l, s, r) ==
    /\ r <= Len(l)
    /\ \A n \in Names :
         IF Present(s[n])
           THEN /\ Real(l, n, s[n])
                /\ \A i \in 1..r : l[i].name = n => i <= s[n].rv
           ELSE Gone(l, n, r)

LogNumbered == \A i \in 1..Rev : log[i].obj.rv = i

QueuedAreGone == \A e \in deletionQueue : e[2] <= Rev /\ Gone(log, e[1], e[2])

AnswersReal == \A n \in Names : call[n].phase = "apply" => Real(log, n, call[n].resp)

At(label) == pc = label \/ (pc = "write" /\ ret = label)

\* The stream is ahead of the watch position, and all before it is in the cache.
ReadInv ==
    /\ At("read") => next <= Rev + 1 /\ \A i \in 1..(next - 1) : Reflected(log, cache, i)
    /\ pc = "read" => resourceVersion <= next
    /\ pc = "write" /\ ret = "read" => resourceVersion < next /\ pending.rv = next - 1

\* The list is ahead of the watch position, and what is done of it is in the cache.
ListInv ==
    /\ pc = "populate" \/ At("items") \/ At("deletes") => resourceVersion <= listRv
    /\ pc = "populate" \/ At("items") =>
         /\ \A n \in todo : Present(list[n])
         /\ \A i \in 1..listRv : log[i].name \notin todo => Reflected(log, cache, i)
    /\ At("deletes") =>
         /\ \A n \in todo : ~ Present(list[n])
         /\ \A i \in 1..listRv : Reflected(log, cache, i)

\* What holds of the data, whatever the goroutine does.
DataInv ==
    /\ LogNumbered
    /\ SnapshotOf(log, registry, Rev)
    /\ QueuedAreGone
    /\ AnswersReal
    /\ CacheFaithful

\* What holds of the goroutine's position.
PositionInv ==
    /\ SnapshotOf(log, list, listRv)
    /\ resourceVersion <= Rev
    /\ ReadInv
    /\ ListInv
    /\ NoLostUpdate

\* The cache keeps up with the repository: the inductive invariant.  What is
\* queued for pruning, listed, answered or cached is true of the repository's
\* history, and the stream and the list stay ahead of the watch position.
SyncInv == DataInv /\ PositionInv

-----------------------------------------------------------------------------
(* The inductive strengthening, over SyncInv, of ChangeWillBeReconciled and  *)
(* KeepsPromise.                                                             *)

\* What is pruned is the tombstone that was queued, and nothing newer.
QueuedAreTombstones ==
    /\ \A e \in deletionQueue :
         e[2] <= cache[e[1]].rv /\ (e[2] = cache[e[1]].rv => cache[e[1]].del)
    /\ ~ Started => deletionQueue = {}

\* Get answers what the cache holds.
GetAnswers == \A n \in Names : Version(cache[n]) = Get(n).gen

\* If Get's answer is not the one last reconciled, an event is on its way.
Announced == \A n \in Names : observed[n] = Get(n).gen \/ n \in OnTheWay

AnnounceInv ==
    RegistryLogged /\ CallsAreObserved /\ QueuedAreTombstones /\ GetAnswers /\ Announced
=============================================================================

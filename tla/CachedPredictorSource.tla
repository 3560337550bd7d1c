----------------------- MODULE CachedPredictorSource -----------------------
(***************************************************************************)
(* pkg/predictor_source/cached_predictor_source.go: the local cache that   *)
(* predictor sources keep, its tombstones, its lock, its outgoing event    *)
(* channel, and UpdateStatus, which runs on the reconcilers' goroutines    *)
(* while the source's own goroutine applies events.                        *)
(*                                                                         *)
(* An entry of the Go map is modelled by its object, a missing entry by    *)
(* Absent.  Deletion timestamps are taken to lie in the past when they are *)
(* set (offerToCache clamps them to two seconds ago at the earliest), so   *)
(* isDeleted(p) is p.del.  A nil dereference ends the process: panicked.   *)
(***************************************************************************)
EXTENDS PredictorRepository

CONSTANTS
    Cap,            \* capacity of the outgoing event channel (128 in the code)
    StatusWrites    \* whether reconciles write statuses

\* The zero PredictorEvent.
NoName == "none"

ASSUME CacheAssumption ==
    /\ Cap \in Nat \ {0}
    /\ StatusWrites \in BOOLEAN
    /\ NoName \notin Names

VARIABLES
    cache,          \* name -> cached object
    deletionQueue,  \* the pointers in the deletion heap, as <<name, rv>>
    lockHeld,       \* the event goroutine holds the write lock
    outChan,        \* the PredictorEventChan handed to the controllers
    panicked,       \* a nil pointer was dereferenced
    call,           \* name -> the UpdateStatus call its reconcile is in
    dirty,          \* the names in the controller's work queue
    observed        \* name -> the spec version its last reconcile acted on

cacheVars == <<cache, deletionQueue, panicked>>
workVars == <<call, dirty, observed>>
sourceVars == <<cacheVars, lockHeld, outChan, workVars>>

-----------------------------------------------------------------------------
Calls == [phase : {"idle", "check", "remote", "apply"},
          arg : Object, resp : Object, ok : BOOLEAN]

CallIn(phase, arg, resp, ok) == [phase |-> phase, arg |-> arg, resp |-> resp, ok |-> ok]

Idle == CallIn("idle", Absent, Absent, FALSE)

SourceTypeOK ==
    /\ cache \in [Names -> Object]
    /\ deletionQueue \in SUBSET (Names \X Nat)
    /\ lockHeld \in BOOLEAN
    /\ outChan \in Seq(Names \cup {NoName})
    /\ panicked \in BOOLEAN
    /\ call \in [Names -> Calls]
    /\ dirty \in SUBSET Names
    /\ observed \in [Names -> Nat]

SourceInit ==
    /\ cache = [n \in Names |-> Absent]
    /\ deletionQueue = {}
    /\ lockHeld = FALSE
    /\ outChan = <<>>
    /\ panicked = FALSE
    /\ call = [n \in Names |-> Idle]
    /\ dirty = {}
    /\ observed = [n \in Names |-> 0]

-----------------------------------------------------------------------------
\* What Get returns: nothing for a missing or deleted entry.
Get(n) == IF Present(cache[n]) /\ ~ cache[n].del THEN cache[n] ELSE Absent

\* compareResourceVersion(): strictly newer, or nothing cached (version 0).
Newer(existing, new) == new.rv > existing.rv

\* offerToCache() up to its use of the current entry: accepted if newer.  A
\* deleted object is queued for pruning unless the entry it replaces was
\* deleted already; finding that out dereferences the current entry.
Offer(n, o) ==
    \/ /\ ~ Newer(cache[n], o)
       /\ UNCHANGED cacheVars
    \/ /\ Newer(cache[n], o)
       /\ o.del => Present(cache[n])
       /\ cache' = [cache EXCEPT ![n] = o]
       /\ deletionQueue' = IF o.del /\ ~ cache[n].del
                             THEN deletionQueue \cup {<<n, o.rv>>}
                             ELSE deletionQueue
       /\ UNCHANGED panicked
    \/ /\ Newer(cache[n], o)
       /\ o.del
       /\ ~ Present(cache[n])
       /\ panicked' = TRUE
       /\ UNCHANGED <<cache, deletionQueue>>

\* A slip: the entry of a queued name goes, whatever replaced it since.
PruneByName ==
    /\ cache' = [n \in Names |-> IF \E e \in deletionQueue : e[1] = n
                                   THEN Absent ELSE cache[n]]
    /\ deletionQueue' = {}
    /\ UNCHANGED panicked

\* The tombstones that are taken off the queue: the cutoff lies 20 seconds in the
\* future, so that every one has expired, and their order makes no difference.
PopExpired == deletionQueue

\* pruneDeletions(): an entry goes if it still is the queued one.
PruneDeletions ==
    /\ cache' = [n \in Names |-> IF <<n, cache[n].rv>> \in PopExpired
                                   THEN Absent ELSE cache[n]]
    /\ deletionQueue' = deletionQueue \ PopExpired
    /\ UNCHANGED panicked

-----------------------------------------------------------------------------
(* The controllers' side.  Events become work queue items; a reconcile of  *)
(* a name reads it with Get and may write its status back.  controller-    *)
(* runtime never runs two reconciles of one name at once.                  *)

\* A slip: an event that names no Predictor is queued all the same.
DispatchBlank ==
    /\ outChan # <<>>
    /\ outChan' = Tail(outChan)
    /\ dirty' = dirty \cup {Head(outChan)}
    /\ UNCHANGED <<cacheVars, lockHeld, call, observed>>

\* main.go's dispatcher takes an event and queues the name it carries.
Dispatch ==
    /\ outChan # <<>>
    /\ outChan' = Tail(outChan)
    /\ dirty' = dirty \cup ({Head(outChan)} \cap Names)
    /\ UNCHANGED <<cacheVars, lockHeld, call, observed>>

\* A reconcile reads the Predictor and acts on its spec; it ends here or goes
\* on to update the Predictor's status.
Reconcile(n) ==
    /\ n \in dirty
    /\ call[n] = Idle
    /\ ~ lockHeld
    /\ dirty' = dirty \ {n}
    /\ observed' = [observed EXCEPT ![n] = Get(n).gen]
    /\ \/ UNCHANGED call
       \/ /\ StatusWrites
          /\ Present(Get(n))
          /\ call' = [call EXCEPT ![n] = CallIn("check", Get(n), Absent, FALSE)]
    /\ UNCHANGED <<cacheVars, lockHeld, outChan>>

\* A slip: a reconcile whose update failed is not repeated.
ReturnOnly(n, ok) ==
    /\ call' = [call EXCEPT ![n] = Idle]
    /\ UNCHANGED dirty

\* UpdateStatus returns ok to its reconcile, which requeues the name if not.
Return(n, ok) ==
    /\ call' = [call EXCEPT ![n] = Idle]
    /\ dirty' = IF ok THEN dirty ELSE dirty \cup {n}

\* UpdateStatus: give up if the cached version is not the one to be updated.
UpdateStatusCheck(n) ==
    /\ call[n].phase = "check"
    /\ ~ lockHeld
    /\ \/ /\ cache[n].rv # call[n].arg.rv
          /\ Return(n, FALSE)
       \/ /\ cache[n].rv = call[n].arg.rv
          /\ call' = [call EXCEPT ![n] = CallIn("remote", call[n].arg, Absent, FALSE)]
          /\ UNCHANGED dirty
    /\ UNCHANGED <<cacheVars, lockHeld, outChan, observed, repositoryVars>>

\* The remote conditional update, no lock held: done, refused because the
\* Predictor has moved on, refused because it is gone, or failed with an error
\* before or after it was committed (the reconcile is then retried).
UpdateStatusRemote(n) ==
    LET Answered(resp, ok) ==
            /\ call' = [call EXCEPT ![n] = CallIn("apply", call[n].arg, resp, ok)]
            /\ UNCHANGED dirty
    IN
    /\ call[n].phase = "remote"
    /\ \/ /\ registry[n].rv = call[n].arg.rv
          /\ WriteStatus(n)
          /\ \/ Answered(Rewritten(registry[n], Rev + 1, FALSE), TRUE)
             \/ Return(n, FALSE)
       \/ /\ Present(registry[n])
          /\ registry[n].rv # call[n].arg.rv
          /\ Answered(registry[n], FALSE)
          /\ UNCHANGED repositoryVars
       \/ /\ ~ Present(registry[n])
          /\ Answered(Tombstone(Rev), FALSE)
          /\ UNCHANGED repositoryVars
       \/ /\ Return(n, FALSE)
          /\ UNCHANGED repositoryVars
    /\ UNCHANGED <<cacheVars, lockHeld, outChan, observed>>

\* The answer is offered to the cache under the write lock.
UpdateStatusApply(n) ==
    /\ call[n].phase = "apply"
    /\ ~ lockHeld
    /\ Offer(n, call[n].resp)
    /\ Return(n, call[n].ok)
    /\ UNCHANGED <<lockHeld, outChan, observed, repositoryVars>>

WorkStep ==
    \/ Dispatch /\ UNCHANGED repositoryVars
    \/ \E n \in Names :
         \/ Reconcile(n) /\ UNCHANGED repositoryVars
         \/ UpdateStatusCheck(n)
         \/ UpdateStatusRemote(n)
         \/ UpdateStatusApply(n)

-----------------------------------------------------------------------------
(* Parts of the inductive invariants of the sources that use the cache.      *)

\* Object o is the one that history l has at its version.
Logged(l, o) == o.rv \in 1..Len(l) /\ l[o.rv].obj = o

RegistryLogged == \A n \in Names : Present(registry[n]) => Logged(log, registry[n])

\* A status update is one of the object that the last reconcile acted on, and so
\* is the answer of one that succeeds: its events need no reconcile.
CallsAreObserved ==
    \A n \in Names :
        /\ call[n].phase \in {"check", "remote"} =>
             Logged(log, call[n].arg) /\ ~ call[n].arg.del /\ call[n].arg.gen = observed[n]
        /\ call[n].phase = "apply" /\ call[n].ok =>
             ~ call[n].resp.del /\ call[n].resp.gen = observed[n]
=============================================================================

------------------------- MODULE ControllerProcess -------------------------
(***************************************************************************)
(* main.go: what the controller process checks before it runs, and how it  *)
(* connects a plug-in predictor source, here a StreamPredictorSource, with *)
(* the reconcilers: a dispatcher passes every event on to two channels,    *)
(* one for each reconciler's watch.                                        *)
(*                                                                         *)
(* A process that exits is started again by Kubernetes, with the same      *)
(* environment.  Another replica may hold the lock of the leader election. *)
(* The watch of the runtime reconciler looks its event up in the registry, *)
(* which needs the source's lock; that of the predictor reconciler queues  *)
(* the name.  ChannelCap stands for the two channels (256) and the buffers *)
(* that controller-runtime reads them into.                                *)
(***************************************************************************)
EXTENDS StreamPredictorSource

CONSTANTS
    Environments,   \* what the process may find when it starts
    ChannelCap,     \* capacity of the channels to the reconcilers
    MaxRestarts     \* bound on restarts

ASSUME ProcessAssumption == ChannelCap \in Nat \ {0} /\ MaxRestarts \in Nat

VARIABLES
    env,                \* the environment
    phase,              \* how far main has come
    leader,             \* who holds the lock: "none", "this" or "other"
    restarts,
    registryMap,        \* the sources that are known to the reconcilers
    dispatcher,         \* the event in hand and the channel it goes to next
    predictorEvents, runtimeEvents

mainVars == <<env, phase, leader, restarts, registryMap>>
dispatchVars == <<dispatcher, predictorEvents, runtimeEvents>>
vars == <<mainVars, dispatchVars, streamVars, sourceVars, repositoryVars>>

NoEvent == [event |-> NoName, to |-> "none"]

Init ==
    /\ RepositoryInit /\ SourceInit /\ StreamInit
    /\ env \in Environments
    /\ leader \in {"none", "other"}
    /\ restarts = 0
    /\ phase = "config" /\ registryMap = {}
    /\ dispatcher = NoEvent /\ predictorEvents = << >> /\ runtimeEvents = << >>

-----------------------------------------------------------------------------
(* Start-up *)

Main(p) ==
    /\ phase = p
    /\ UNCHANGED <<env, restarts, dispatchVars, sourceVars, repositoryVars>>

\* Each check goes on or ends the process.
Check(ok, next) == phase' = IF ok THEN next ELSE "exited"

\* The user's ConfigMap is loaded.
LoadConfig ==
    /\ Main("config")
    /\ Check(env.config, "scope")
    /\ UNCHANGED <<leader, registryMap, streamVars>>

CheckScope ==
    /\ Main("scope")
    /\ Check(env.clusterScope => env.clusterAccess, "election")
    /\ UNCHANGED <<leader, registryMap, streamVars>>

\* A leader for life is elected at once, one with a lease by the manager.
Elect ==
    /\ Main("election")
    /\ Check(env.election # "unknown", "setup")
    /\ IF env.election = "life" THEN leader = "none" /\ leader' = "this" ELSE UNCHANGED leader
    /\ UNCHANGED <<registryMap, streamVars>>

\* The manager, the webhook, the gRPC resolver, the event stream and the service
\* reconciler are set up, any of which may fail.
SetUp ==
    /\ Main("setup")
    /\ Check(env.setup, "watches")
    /\ UNCHANGED <<leader, registryMap, streamVars>>

\* checkEnvVar, checkCSRVar and checkSecretVar: a resource is watched if it can
\* be accessed, unless its variable says "false"; "true" requires it.
WatchEnabled(w) == w.var # "false" /\ w.access = "ok"
WatchRefused(w) == w.var = "true" /\ w.access # "ok"

CheckWatches ==
    /\ Main("watches")
    /\ Check(\A k \in DOMAIN env.watches : ~ WatchRefused(env.watches[k]), "sources")
    /\ registryMap' = {"ksp"} \cup (IF WatchEnabled(env.watches.isvc) THEN {"isvc"} ELSE {})
    /\ UNCHANGED <<leader, streamVars>>

\* The ids of plug-ins are neither empty nor taken.
RegisterSource ==
    /\ Main("sources")
    /\ pc = "none"
    /\ IF env.sourceId \in {"", "ksp", "isvc"} \cup registryMap
         THEN phase' = "exited" /\ UNCHANGED streamVars
         ELSE UNCHANGED phase /\ pc' = "start" /\ OpenStream /\ UNCHANGED <<initial, event>>
    /\ UNCHANGED <<leader, registryMap>>

\* StartWatch returns an error.
StartWatchFails ==
    /\ Main("sources")
    /\ pc = "start"
    /\ restarts < MaxRestarts
    /\ phase' = "exited"
    /\ UNCHANGED <<leader, registryMap, streamVars>>

\* All sources have been started, and so are their dispatchers.
SourcesStarted ==
    /\ Main("sources")
    /\ pc \notin {"none", "start"}
    /\ phase' = "manager"
    /\ registryMap' = registryMap \cup {env.sourceId}
    /\ UNCHANGED <<leader, streamVars>>

\* mgr.Start: the reconcilers run once this process leads.
StartManager ==
    /\ Main("manager")
    /\ IF env.election = "lease" THEN leader = "none" /\ leader' = "this" ELSE UNCHANGED leader
    /\ phase' = "running"
    /\ UNCHANGED <<registryMap, streamVars>>

\* The manager stops: it has lost the lease, or has failed.
ManagerStops ==
    /\ Main("running")
    /\ restarts < MaxRestarts
    /\ phase' = "exited"
    /\ UNCHANGED <<leader, registryMap, streamVars>>

\* The lock is released when its holder is gone, or its lease has run out.
OtherReleases ==
    /\ leader = "other"
    /\ leader' = "none"
    /\ UNCHANGED <<env, phase, restarts, registryMap, dispatchVars, streamVars, sourceVars,
                   repositoryVars>>

\* The process is started again, from nothing.
Restart ==
    /\ phase = "exited"
    /\ restarts < MaxRestarts
    /\ restarts' = restarts + 1
    /\ leader' = IF leader = "this" THEN "none" ELSE leader
    /\ phase' = "config" /\ registryMap' = {}
    /\ dispatcher' = NoEvent /\ predictorEvents' = << >> /\ runtimeEvents' = << >>
    /\ inChan' = << >> /\ pc' = "none" /\ initial' = << >> /\ event' = NoName
    /\ cache' = [n \in Names |-> Absent] /\ deletionQueue' = {} /\ panicked' = FALSE
    /\ lockHeld' = FALSE /\ outChan' = << >>
    /\ call' = [n \in Names |-> Idle] /\ dirty' = {} /\ observed' = [n \in Names |-> 0]
    /\ UNCHANGED <<env, repositoryVars>>

MainStep ==
    \/ LoadConfig \/ CheckScope \/ Elect \/ SetUp \/ CheckWatches \/ RegisterSource
    \/ SourcesStarted \/ StartManager

-----------------------------------------------------------------------------
(* The dispatcher and the watches of the reconcilers *)

Alive == phase # "exited"

Dispatching == phase \in {"manager", "running"}

DispatcherTakes ==
    /\ Dispatching /\ dispatcher = NoEvent
    /\ outChan # << >>
    /\ outChan' = Tail(outChan)
    /\ dispatcher' = [event |-> Head(outChan), to |-> "predictor"]
    /\ UNCHANGED <<mainVars, predictorEvents, runtimeEvents, streamVars, cacheVars, lockHeld,
                   workVars, repositoryVars>>

DispatchToPredictors ==
    /\ Dispatching /\ dispatcher.to = "predictor"
    /\ Len(predictorEvents) < ChannelCap
    /\ predictorEvents' = Append(predictorEvents, dispatcher.event)
    /\ dispatcher' = [dispatcher EXCEPT !.to = "runtime"]
    /\ UNCHANGED <<mainVars, runtimeEvents, streamVars, sourceVars, repositoryVars>>

DispatchToRuntimes ==
    /\ Dispatching /\ dispatcher.to = "runtime"
    /\ Len(runtimeEvents) < ChannelCap
    /\ runtimeEvents' = Append(runtimeEvents, dispatcher.event)
    /\ dispatcher' = NoEvent
    /\ UNCHANGED <<mainVars, predictorEvents, streamVars, sourceVars, repositoryVars>>

\* The predictor reconciler's watch queues the name.
PredictorWatch ==
    /\ phase = "running"
    /\ predictorEvents # << >>
    /\ predictorEvents' = Tail(predictorEvents)
    /\ dirty' = dirty \cup ({Head(predictorEvents)} \cap Names)
    /\ UNCHANGED <<mainVars, dispatcher, runtimeEvents, streamVars, cacheVars, lockHeld, outChan,
                   call, observed, repositoryVars>>

\* That of the runtime reconciler calls Get.
RuntimeWatch ==
    /\ phase = "running"
    /\ runtimeEvents # << >>
    /\ ~ lockHeld
    /\ runtimeEvents' = Tail(runtimeEvents)
    /\ UNCHANGED <<mainVars, dispatcher, predictorEvents, streamVars, sourceVars, repositoryVars>>

DispatchStep ==
    \/ DispatcherTakes \/ DispatchToPredictors \/ DispatchToRuntimes
    \/ PredictorWatch \/ RuntimeWatch

\* A reconcile of the predictor reconciler, with its status update.
ReconcileStep(n) ==
    /\ phase = "running"
    /\ \/ Reconcile(n) /\ UNCHANGED repositoryVars
       \/ UpdateStatusCheck(n)
       \/ UpdateStatusRemote(n)
       \/ UpdateStatusApply(n)
    /\ inChan' = IF log' = log THEN inChan ELSE Sent
    /\ UNCHANGED <<mainVars, dispatchVars, pc, initial, event>>

SourceRuns ==
    /\ Alive
    /\ SourceStep
    /\ UNCHANGED <<mainVars, dispatchVars, workVars, repositoryVars>>

RepositoryChanges ==
    /\ RepositoryStep
    /\ inChan' = Sent
    /\ UNCHANGED <<mainVars, dispatchVars, pc, initial, event, sourceVars>>

Next ==
    \/ MainStep \/ StartWatchFails \/ ManagerStops \/ OtherReleases \/ Restart
    \/ DispatchStep
    \/ \E n \in Names : ReconcileStep(n)
    \/ SourceRuns
    \/ RepositoryChanges

\* Goroutines run, Kubernetes restarts the process, and a leader that is gone
\* loses its lock.
Fairness ==
    /\ WF_vars(MainStep) /\ WF_vars(OtherReleases) /\ WF_vars(Restart)
    /\ WF_vars(SourceRuns)
    /\ WF_vars(DispatcherTakes) /\ WF_vars(DispatchToPredictors) /\ WF_vars(DispatchToRuntimes)
    /\ WF_vars(PredictorWatch) /\ WF_vars(RuntimeWatch)
    /\ \A n \in Names : WF_vars(ReconcileStep(n))

Spec == Init /\ [][Next]_vars /\ Fairness

-----------------------------------------------------------------------------
(* Properties *)

\* Types of the variables of main, of its channels and of the source.
TypeOK ==
    /\ RepositoryTypeOK /\ SourceTypeOK /\ StreamTypeOK
    /\ env \in Environments
    /\ phase \in {"config", "scope", "election", "setup", "watches", "sources", "manager", "running",
                  "exited"}
    /\ leader \in {"none", "this", "other"} /\ restarts \in Nat
    /\ registryMap \subseteq {"ksp", "isvc", env.sourceId}
    /\ dispatcher \in [event : Names \cup {NoName}, to : {"none", "predictor", "runtime"}]
    /\ predictorEvents \in Seq(Names \cup {NoName})
    /\ runtimeEvents \in Seq(Names \cup {NoName})
    /\ Len(outChan) <= Cap
    /\ Len(predictorEvents) <= ChannelCap /\ Len(runtimeEvents) <= ChannelCap

\* Names in a sequence of events.
In(s) == {s[i] : i \in DOMAIN s}

\* The names that are on their way to a reconcile of the predictor reconciler.
OnTheWay ==
    dirty \cup (Names \cap
        (In(initial) \cup {event} \cup In(outChan) \cup In(predictorEvents)
            \cup (IF dispatcher.to = "predictor" THEN {dispatcher.event} ELSE {})))

\* The source, dispatcher and work queue together keep what PredictorSource
\* promises (predictor_source.go:28): whatever Get comes to answer, through the
\* stream or the answer to a status update, an event is on its way to the
\* reconciler (stream_predictor_source.go:39, main.go:424).
Promise == INSTANCE PredictorSource WITH
    known <- [n \in Names |-> Get(n).gen], seen <- observed, events <- OnTheWay

KeepsPromise == Promise!Spec

\* Nothing keeps the process from running.
Startable ==
    /\ env.config
    /\ env.clusterScope => env.clusterAccess
    /\ env.election # "unknown" /\ env.setup
    /\ \A k \in DOMAIN env.watches : ~ WatchRefused(env.watches[k])
    /\ env.sourceId \notin {"", "ksp", "isvc"}

\* The goroutine waits for room for an initial event with the lock held, and
\* the watch that would make room waits for the lock
\* (stream_predictor_source.go:74).  No other write keeps the lock while it waits.
InitialEventsStuck ==
    /\ pc = "initial" /\ initial # << >> /\ Len(outChan) = Cap
    /\ dispatcher.to = "runtime" /\ Len(runtimeEvents) = ChannelCap
    /\ lockHeld

\* "An event should be produced for every Predictor upon starting"
\* (predictor_source.go:29): in the end the process runs and every Predictor,
\* also if it was there before the process, has been reconciled as it is, or the
\* process is stuck because the initial events exceed what the channels hold.
EventuallyReconciled ==
    Startable => <>[](/\ phase = "running"
                      /\ \/ InitialEventsStuck
                         \/ \A n \in Names : observed[n] = registry[n].gen)

-----------------------------------------------------------------------------
(* The inductive strengthening of KeepsPromise, proved in                    *)
(* ControllerProcess_proofs.                                                 *)

\* What Get answers was committed as it is, and so was whatever is yet to be
\* offered to the cache and is not deleted: the changes in the stream and the
\* answers to status updates.
CacheLogged == \A n \in Names : Present(Get(n)) => Logged(log, Get(n))

StreamLogged == \A i \in DOMAIN inChan : Logged(log, inChan[i].obj)

AnswersLogged ==
    \A n \in Names : call[n].phase = "apply" /\ ~ call[n].resp.del => Logged(log, call[n].resp)

\* What is pruned is the tombstone that was queued, and nothing newer.
QueuedAreTombstones ==
    \A e \in deletionQueue :
        e[2] <= cache[e[1]].rv /\ (e[2] = cache[e[1]].rv => cache[e[1]].del)

\* There is an event to be written only while it is written.
WritesItsEvent == pc # "write" => event = NoName

\* If Get's answer is not the one last reconciled, an event is on its way.
Announced == \A n \in Names : observed[n] = Get(n).gen \/ n \in OnTheWay

\* Of the names there may be, finitely many are in use.
RegistryFinite == IsFiniteSet({n \in Names : Present(registry[n])})

ProcessInv ==
    /\ RegistryFinite /\ RegistryLogged /\ CacheLogged /\ StreamLogged /\ AnswersLogged
    /\ CallsAreObserved /\ QueuedAreTombstones /\ WritesItsEvent /\ Announced
=============================================================================

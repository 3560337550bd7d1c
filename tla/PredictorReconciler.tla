------------------------- MODULE PredictorReconciler -------------------------
(***************************************************************************)
(* controllers/predictor_controller.go: the controller that makes          *)
(* model-mesh's vmodel follow a Predictor and the Predictor's status       *)
(* follow the vmodel.                                                      *)
(*                                                                         *)
(* One Predictor name of one namespace is modelled, under each of the      *)
(* Sources that may define it.  controller-runtime runs one reconcile at a *)
(* time (no MaxConcurrentReconciles is set); it reads the resource from an *)
(* informer cache that trails the API server, calls model-mesh, and writes *)
(* the status back on condition that the resource has not changed.         *)
(*                                                                         *)
(* Resource versions are not numbered: what matters of them is whether a   *)
(* copy, the informer's or the running reconcile's, is the current one.    *)
(* An informer several versions behind catches up in one step.  Delays of  *)
(* a requeue are abstracted: the name is queued.  An InferenceService is   *)
(* shown as the Predictor its registry makes of it; its errors in doing so *)
(* only requeue and need no step.                                          *)
(***************************************************************************)
EXTENDS Naturals, ModelMesh

CONSTANTS
    InvalidSpecs,       \* the specs validatePredictor finds fault with
    InferenceServices,  \* the sources that hold InferenceServices
    MaxWrites,          \* bound: how often users write resources
    MaxFaults           \* bound: how many calls fail, and restarts, there are

ASSUME ReconcilerAssumption ==
    /\ InvalidSpecs \subseteq Specs
    /\ InferenceServices \subseteq Sources
    /\ MaxWrites \in Nat
    /\ MaxFaults \in Nat

VARIABLES
    api,        \* source -> the resource in the API server
    cached,     \* source -> the informer's copy of it
    fresh,      \* the sources whose informer copy is current
    queue,      \* the work queue
    client,     \* the namespace's MMService has a client: mmc is not nil
    work,       \* the running reconcile
    writes,     \* how often users have written resources
    faults      \* how many calls have failed, and restarts, there were

kubeVars == <<api, cached, fresh>>
vars == <<vmodel, pods, kubeVars, queue, client, work, writes, faults>>

-----------------------------------------------------------------------------
ModelStates == {"", "Pending", "Standby", "Loading", "Loaded", "FailedToLoad"}

TransitionStatuses == {"", "UpToDate", "InProgress", "BlockedByFailedLoad", "InvalidSpec"}

Reasons == {"", "ModelLoadFailed", "RuntimeUnhealthy", "NoSupportingRuntime",
            "RuntimeNotRecognized", "InvalidPredictorSpec"}

\* A PredictorStatus: the copy counts, the endpoints and the details of the
\* last failure are left out, the reason of that failure ("": none) is kept.
Status == [transition : TransitionStatuses, active : ModelStates, target : ModelStates,
           reason : Reasons, available : BOOLEAN]

\* The CRD's default; an InferenceService has no default, Get makes it Pending.
InitialStatus(s) ==
    [transition |-> IF s \in InferenceServices THEN "" ELSE "UpToDate",
     active |-> "Pending", target |-> "", reason |-> "", available |-> FALSE]

\* A Predictor: del says that its DeletionTimestamp is set.
Predictor == [spec : Specs, del : BOOLEAN, status : Status]

NoStatus == [transition |-> "", active |-> "", target |-> "", reason |-> "",
             available |-> FALSE]

NotFound == [spec |-> "none", del |-> FALSE, status |-> NoStatus]

Exists(s) == api[s] # NotFound

\* The running reconcile: its phase, its source, its copy of the resource,
\* whether that copy is current, whether it will be retried in any case.
Work == [phase : {"idle", "delete", "call", "update"}, source : Sources \cup {"none"},
         predictor : Predictor \cup {NotFound}, current : BOOLEAN, retry : BOOLEAN]

Idle == [phase |-> "idle", source |-> "none", predictor |-> NotFound,
         current |-> FALSE, retry |-> FALSE]

\* Every variable keeps its type; a fresh copy is a true one.
TypeOK ==
    /\ ModelMeshTypeOK
    /\ api \in [Sources -> Predictor \cup {NotFound}]
    /\ cached \in [Sources -> Predictor \cup {NotFound}]
    /\ fresh \in SUBSET {s \in Sources : cached[s] = api[s]}
    /\ queue \in SUBSET Sources
    /\ client \in BOOLEAN
    /\ work \in Work
    /\ writes \in 0..MaxWrites
    /\ faults \in 0..MaxFaults

Init ==
    /\ ModelMeshInit
    /\ api = [s \in Sources |-> NotFound]
    /\ cached = api
    /\ fresh = Sources
    /\ queue = {}
    /\ client = FALSE
    /\ work = Idle
    /\ writes = 0
    /\ faults = 0

-----------------------------------------------------------------------------
(* The status of a vmodel as a Predictor status. *)

WaitingForRuntime(status) == status.reason = "RuntimeUnhealthy"

\* modelStateMap; the other statuses have no entry, which reads as "".
ModelStateMap(status) ==
    CASE status = "NOT_LOADED" -> "Standby"
      [] status = "LOADING" -> "Loading"
      [] status = "LOADED" -> "Loaded"
      [] status = "LOADING_FAILED" -> "FailedToLoad"
      [] OTHER -> ""

TransitionStatusMap(status) ==
    CASE status = "DEFINED" -> "UpToDate"
      [] status = "TRANSITIONING" -> "InProgress"
      [] status = "TRANSITION_FAILED" -> "BlockedByFailedLoad"
      [] OTHER -> ""

Decoded(state, reason) == [state |-> state, reason |-> reason]

\* decodeModelState(): having no pod to load the model counts as Loading.
DecodeModelState(m) ==
    CASE m.status # "LOADING_FAILED" ->
           Decoded(ModelStateMap(m.status), IF m.error = "none" THEN "" ELSE "ModelLoadFailed")
      [] m = Failed("noHome") -> Decoded("Loading", "RuntimeUnhealthy")
      [] m = Failed("unknownRuntime") -> Decoded("FailedToLoad", "RuntimeNotRecognized")
      [] m = Failed("noRuntime") -> Decoded("FailedToLoad", "NoSupportingRuntime")
      [] OTHER -> Decoded("FailedToLoad", "ModelLoadFailed")

\* A predictor whose runtime is waited for, or that failed to load, is not available.
Available(status) ==
    /\ status.active \notin {"", "FailedToLoad"}
    /\ ~ WaitingForRuntime(status)

\* The model whose failure is shown: the target, which may be the active one.
TargetModelStatus(vm) == IF vm.active = vm.target THEN vm.activeStatus ELSE vm.targetStatus

\* The transition to show.  The second case is meant for a target with no pod
\* to load it, but looks for the raw status LOADING, which a vmodel whose
\* transition failed does not have.
TransitionFrom(vm) ==
    LET ts == TransitionStatusMap(VModelStatus(vm)) IN
    IF ts = "BlockedByFailedLoad" /\ TargetModelStatus(vm).status = "LOADING"
      THEN "InProgress" ELSE ts

\* The failure to show: none of a loaded model; a model with no failure of its
\* own keeps showing that its runtime is waited for.
ReasonFrom(status, vm) ==
    LET target == TargetModelStatus(vm)
        own == DecodeModelState(target).reason
    IN IF target.status = "LOADED" THEN ""
       ELSE IF own # "" THEN own
       ELSE IF WaitingForRuntime(status) THEN status.reason
       ELSE ""

\* A target's state is shown only if the target is not the active model.
TargetState(status, vm) ==
    IF vm.active = vm.target THEN "" ELSE DecodeModelState(vm.targetStatus).state

\* updatePredictorStatusFromVModel()
StatusFromVModel(status, vm, includeTransitionAndFailure) ==
    LET active == DecodeModelState(vm.activeStatus).state
        new == [transition |-> IF includeTransitionAndFailure
                                 THEN TransitionFrom(vm) ELSE status.transition,
                active |-> IF active = "" THEN status.active ELSE active,
                target |-> TargetState(status, vm),
                reason |-> IF includeTransitionAndFailure
                             THEN ReasonFrom(status, vm) ELSE status.reason,
                available |-> FALSE]
    IN [new EXCEPT !.available = Available(new)]

\* What counts as a change of the status: not that it is available.
Changed(old, new) == [old EXCEPT !.available = FALSE] # [new EXCEPT !.available = FALSE]

-----------------------------------------------------------------------------
(* The reconcile *)

ValidatePredictor(predictor) == predictor.spec \notin InvalidSpecs

\* Reflects an invalid spec in the status.
MarkInvalid(status) ==
    [status EXCEPT !.reason = "InvalidPredictorSpec", !.transition = "InvalidSpec"]

\* Something goes wrong, or it does not.
Fault == faults < MaxFaults /\ faults' = faults + 1

NoFault == UNCHANGED faults

\* The event stream queues the owner of a vmodel whose record in etcd changes.
Record(vm) == <<vm.owner, vm.active, vm.target>>

Events == IF Record(vmodel') = Record(vmodel) THEN {}
          ELSE {vmodel.owner, vmodel'.owner} \cap Sources

\* A slip: the name is never queued again.
DoneForGood(requeue) == work' = Idle /\ queue' = queue \cup Events

\* The reconcile ends, its name is queued again or not.
Done(requeue) ==
    /\ work' = Idle
    /\ queue' = queue \cup Events \cup IF requeue THEN {work.source} ELSE {}

\* A slip: loads are not polled for.
PollForPod(status) == WaitingForRuntime(status)

\* Polling: for a runtime pod, for a load to complete.
MustPoll(status) == WaitingForRuntime(status) \/ status.active = "Loading"

\* The status is to be written if it changed, or if what the model leaves out
\* of it did (details); else the reconcile ends.
Conclude(status, details, retry) ==
    IF Changed(work.predictor.status, status) \/ details
      THEN /\ work' = [work EXCEPT !.phase = "update", !.predictor.status = status,
                                   !.retry = retry]
           /\ queue' = queue \cup Events
      ELSE Done(retry \/ MustPoll(status))

\* ReconcilePredictor() up to its first call.  Without a client only the status
\* of an invalid spec is written, if it or its details changed; otherwise the
\* reconcile is put off, which needs no step.
Begin(s) ==
    LET take == [phase |-> "call", source |-> s, predictor |-> cached[s],
                 current |-> s \in fresh, retry |-> FALSE]
    IN
    /\ work = Idle
    /\ s \in queue
    /\ \/ /\ client
          /\ work' = IF cached[s] = NotFound THEN [take EXCEPT !.phase = "delete"] ELSE take
          /\ queue' = queue \ {s}
       \/ /\ ~ client
          /\ cached[s] # NotFound
          /\ ~ ValidatePredictor(cached[s])
          /\ work' = [take EXCEPT !.phase = "update", !.retry = TRUE,
                                  !.predictor.status = MarkInvalid(@)]
          /\ queue' = queue \ {s}
    /\ UNCHANGED <<kubeVars, client, vmodel, pods, writes, faults>>

\* A slip: every deleted resource is let go.
LetAnyGo(source) == TRUE

\* With no pod to ask, a deleted InferenceService is let go, as it may not be
\* model-mesh's at all.
LetGo(source) == source \in InferenceServices

\* handlePredictorNotFound()
HandlePredictorNotFound ==
    /\ work.phase = "delete"
    /\ \/ /\ pods
          /\ vmodel' = DeleteVModelOutcome(work.source)
          /\ (NoFault /\ Done(FALSE)) \/ (Fault /\ Done(TRUE))
       \/ /\ pods
          /\ UNCHANGED vmodel
          /\ Fault /\ Done(TRUE)
       \/ /\ ~ pods
          /\ UNCHANGED vmodel
          /\ NoFault /\ Done(~ LetGo(work.source))
    /\ UNCHANGED <<kubeVars, client, pods, writes>>

LoadNow(predictor) ==
    LET status == predictor.status IN
    /\ ~ predictor.del
    /\ \/ status.active \in {"Pending", "FailedToLoad"}
       \/ status.target # ""
       \/ status.active = "Loading" /\ WaitingForRuntime(status)

\* What setVModel asks for.  The name of the concrete model holds a hash of the
\* whole spec, and the type, path and key that go with it are read off the spec,
\* so that the spec stands for them all: a spec that changes has another model.
SetVModelRequest(s, predictor) ==
    [owner |-> s, target |-> predictor.spec, loadNow |-> LoadNow(predictor)]

\* A valid spec: SetVModel, which succeeds, finds no pod, finds the vmodel
\* owned by another source, or fails, with or without effect.
SetVModel ==
    LET predictor == work.predictor
        status == predictor.status
        s == work.source
    IN
    /\ work.phase = "call"
    /\ ValidatePredictor(predictor)
    /\ \/ /\ pods /\ ~ OwnedByOther(s)
          /\ LET request == SetVModelRequest(s, predictor)
             IN  vmodel' \in SetVModelOutcomes(request.owner, request.target, request.loadNow)
          /\ \/ /\ NoFault
                /\ \E details \in BOOLEAN :
                     Conclude(StatusFromVModel(status, vmodel', TRUE), details, FALSE)
             \/ Fault /\ Done(TRUE)
       \/ /\ ~ pods
          /\ UNCHANGED vmodel
          /\ NoFault
          /\ \E details \in BOOLEAN :
               Conclude([status EXCEPT !.reason = "RuntimeUnhealthy"], details, FALSE)
       \/ /\ pods /\ OwnedByOther(s)
          /\ UNCHANGED vmodel
          /\ NoFault
          /\ \E details \in BOOLEAN :
               Conclude([status EXCEPT !.reason = "InvalidPredictorSpec"], details, TRUE)
       \/ /\ pods
          /\ UNCHANGED vmodel
          /\ Fault /\ Done(TRUE)
    /\ UNCHANGED <<kubeVars, client, pods, writes>>

\* An invalid spec: the vmodel is left alone, its status is still shown.
CheckVModel ==
    LET status == work.predictor.status
        vm == GetVModelStatus(work.source)
    IN
    /\ work.phase = "call"
    /\ ~ ValidatePredictor(work.predictor)
    /\ UNCHANGED <<vmodel, kubeVars, client, pods, writes>>
    /\ \E details \in BOOLEAN :
         \/ /\ pods
            /\ NoFault
            /\ Conclude(MarkInvalid(StatusFromVModel(status, vm, FALSE)), details, FALSE)
         \/ /\ (~ pods /\ NoFault) \/ (pods /\ Fault)
            /\ Conclude(MarkInvalid(status), details, TRUE)

\* A slip: the version of the copy is not compared.
NeverConflict == FALSE

\* The resource has changed, or is gone, since it was read.
Conflict == ~ work.current

\* registry.UpdateStatus(): the write succeeds, conflicts with a change, or
\* fails, possibly after it was committed, or because the resource is gone.
\* A write that changes nothing is no new version.
UpdateStatus ==
    LET s == work.source
        status == work.predictor.status
        Commit ==
            /\ ~ Conflict
            /\ api' = [api EXCEPT ![s].status = status]
            /\ \/ fresh' = fresh \ {s}
               \/ api' = api /\ UNCHANGED fresh
    IN
    /\ work.phase = "update"
    /\ UNCHANGED <<cached, client, vmodel, pods, writes>>
    /\ \/ Commit /\ NoFault /\ Done(work.retry \/ MustPoll(status))
       \/ Commit /\ Fault /\ Done(TRUE)
       \/ Conflict /\ UNCHANGED <<api, fresh>> /\ NoFault /\ Done(TRUE)
       \/ UNCHANGED <<api, fresh>> /\ Fault /\ Done(TRUE)

-----------------------------------------------------------------------------
(* Users, the API server, the MMService and the events *)

\* The resource of s becomes p: all copies of it are out of date.
Write(s, p) ==
    /\ writes < MaxWrites
    /\ writes' = writes + 1
    /\ api' = [api EXCEPT ![s] = p]
    /\ fresh' = fresh \ {s}
    /\ work' = IF work.source = s THEN [work EXCEPT !.current = FALSE] ELSE work
    /\ UNCHANGED <<cached, queue, client, vmodel, pods, faults>>

SetSpec(s, spec) ==
    IF Exists(s)
      THEN api[s].spec # spec /\ Write(s, [api[s] EXCEPT !.spec = spec])
      ELSE Write(s, [spec |-> spec, del |-> FALSE, status |-> InitialStatus(s)])

Delete(s) ==
    /\ Exists(s)
    /\ \/ Write(s, NotFound)
       \/ ~ api[s].del /\ Write(s, [api[s] EXCEPT !.del = TRUE])

\* The informer catches up and queues the name.
InformerSync(s) ==
    /\ s \notin fresh
    /\ cached' = [cached EXCEPT ![s] = api[s]]
    /\ fresh' = fresh \cup {s}
    /\ queue' = queue \cup {s}
    /\ UNCHANGED <<api, client, work, vmodel, pods, writes, faults>>

\* The informer's periodic resync, or an event that was long under way.
Resync(s) ==
    /\ cached[s] # NotFound
    /\ queue' = queue \cup {s}
    /\ UNCHANGED <<kubeVars, client, work, vmodel, pods, writes, faults>>

\* The service reconciler connects the client.
Connect ==
    /\ ~ client
    /\ client' = TRUE
    /\ UNCHANGED <<kubeVars, queue, work, vmodel, pods, writes, faults>>

\* What model-mesh does by itself; where it changes a record in etcd, the event
\* stream queues the vmodel's owner.
Silently ==
    /\ LoadCompletes \/ PodsGo \/ PodsCome
    /\ UNCHANGED <<kubeVars, queue, client, work, writes, faults>>

WithEvent ==
    /\ Defined
    /\ ModelChanges \/ Promote
    /\ queue' = queue \cup {vmodel.owner}
    /\ UNCHANGED <<kubeVars, client, work, writes, faults>>

\* The controller starts again: the informers list and queue all resources,
\* the event stream all vmodels.
Restart ==
    /\ Fault
    /\ cached' = api
    /\ fresh' = Sources
    /\ queue' = {s \in Sources : Exists(s) \/ (Defined /\ vmodel.owner = s)}
    /\ client' = FALSE
    /\ work' = Idle
    /\ UNCHANGED <<api, vmodel, pods, writes>>

Next ==
    \/ HandlePredictorNotFound \/ SetVModel \/ CheckVModel \/ UpdateStatus
    \/ Connect \/ Silently \/ WithEvent \/ Restart
    \/ \E s \in Sources :
         \/ Begin(s) \/ InformerSync(s) \/ Resync(s) \/ Delete(s)
         \/ \E spec \in Specs : SetSpec(s, spec)

Spec == Init /\ [][Next]_vars

\* The worker runs and its queue is fair, informers catch up, the service
\* reconciler connects the client, and model-mesh finishes its loads.
Fairness ==
    /\ WF_vars(HandlePredictorNotFound \/ SetVModel \/ CheckVModel \/ UpdateStatus)
    /\ WF_vars(Connect)
    /\ WF_vars(LoadCompletes /\ UNCHANGED <<kubeVars, queue, client, work, writes, faults>>)
    /\ \A s \in Sources : SF_vars(Begin(s)) /\ WF_vars(InformerSync(s))

FairSpec == Spec /\ Fairness

-----------------------------------------------------------------------------
(* Properties *)

Valid(s) == Exists(s) /\ ValidatePredictor(api[s])

Owns(s) == Defined /\ vmodel.owner = s

\* The controller has nothing to do.
Settled == client /\ work = Idle /\ queue = {} /\ fresh = Sources

\* When the controller has nothing left to do, a valid Predictor's spec is the
\* target of its vmodel and a Predictor that is gone has no vmodel, whatever
\* calls failed, whichever copies were stale and wherever the controller
\* restarted.  (A deleted InferenceService may leave its vmodel behind when
\* there were no pods, predictor_controller.go:294-299.)
SettledHasSpec ==
    Settled => \A s \in Sources :
        /\ Valid(s) => Owns(s) /\ vmodel.target = api[s].spec
        /\ ~ Exists(s) /\ s \notin InferenceServices => ~ Owns(s)

\* When the controller has nothing left to do, the status of a valid Predictor
\* is the one its vmodel calls for: no event announces the end of a load, so
\* this rests on polling (predictor_controller.go:215-221).  A loaded target
\* that is about to be promoted is excepted.  Needs pods that stay.
SettledStatusTrue ==
    Settled => \A s \in Sources :
        Valid(s) /\ vmodel.targetStatus.status # "LOADED" =>
            ~ Changed(api[s].status, StatusFromVModel(api[s].status, vmodel, TRUE))

\* A status that says that the Predictor is up to date, and nothing is wrong,
\* is only ever written while the vmodel serves the Predictor's current spec:
\* the spec read from a stale copy, or changed during the reconcile, is caught
\* by the conditional update (predictor_controller.go:186-202).
UpToDateIsTrue ==
    [][\A s \in Sources :
         (/\ work.phase = "update" /\ work' = Idle
          /\ api'[s].status # api[s].status
          /\ api'[s].status.transition = "UpToDate"
          /\ api'[s].status.reason \notin {"RuntimeUnhealthy", "InvalidPredictorSpec"})
         => Owns(s) /\ vmodel.active = api'[s].spec]_vars

\* A Predictor that stays as it is, valid and alone in using its name, becomes
\* the target of the vmodel, also if a Predictor of another source had it: the
\* refused SetVModel is retried (predictor_controller.go:171-179).  (The vmodel
\* that a deleted InferenceService may leave behind is in the way for ever.)
SpecTakesEffect ==
    \A s \in Sources : \A spec \in Specs \ InvalidSpecs :
        LET Alone == \A t \in Sources \ {s} :
                       ~ Exists(t) /\ (t \in InferenceServices => ~ Owns(t))
        IN <>[](pods /\ Exists(s) /\ api[s].spec = spec /\ Alone)
           => <>[](Owns(s) /\ vmodel.target = spec)

\* The vmodel of a Predictor that is gone for good is removed, also if it went
\* while the controller was down: the vmodel's own event leads to the removal
\* (predictor_controller.go:284-307).
OrphanRemoved ==
    \A s \in Sources \ InferenceServices : <>[](pods /\ ~ Exists(s)) => <>[](~ Owns(s))

-----------------------------------------------------------------------------
(* The inductive strengthening of SettledHasSpec, SettledStatusTrue and        *)
(* UpToDateIsTrue, proved in PredictorReconciler_proofs.                       *)

\* A resource that is there, and valid, in a copy of it.
ValidCopy(p) == p # NotFound /\ ValidatePredictor(p)

\* The vmodel is the one that the spec asks for.
Served(s, spec) == Owns(s) /\ vmodel.target = spec

\* What the running reconcile is at, and that its copy of the resource is the
\* API server's as long as it is current.
WorkInv ==
    IF work.phase = "idle" THEN work = Idle
    ELSE /\ work.source \in Sources
         /\ work.predictor = NotFound <=> work.phase = "delete"
         /\ work.current => /\ work.predictor.spec = api[work.source].spec
                            /\ api[work.source] # NotFound \/ work.phase = "delete"

\* A status that says that all is well is written while it is so.
UpdateInv ==
    /\ work.phase = "update"
    /\ work.predictor.status.transition = "UpToDate"
    /\ work.predictor.status.reason \notin {"RuntimeUnhealthy", "InvalidPredictorSpec"}
    => Served(work.source, work.predictor.spec) /\ vmodel.active = work.predictor.spec

\* What the running reconcile of s has read is what the informer's copy says, and
\* what is left to do unless its name is to be queued again is to write the status.
AtWorkOn(s) ==
    /\ work.phase = "update" => cached[s] # NotFound /\ work.predictor.spec = cached[s].spec
    /\ work.phase # "update" => work.predictor = cached[s]
    /\ work.current <=> s \in fresh
    /\ work.phase = "update" /\ ~ work.retry /\ ValidatePredictor(cached[s]) =>
         Served(s, cached[s].spec) \/ WaitingForRuntime(work.predictor.status)

\* Nothing is left to do for s.
DoneWith(s) ==
    /\ ValidCopy(cached[s]) => Served(s, cached[s].spec)
    /\ cached[s] = NotFound /\ s \notin InferenceServices => ~ Owns(s)

\* A name that is not queued is the running reconcile's, or is done with.
SpecInv ==
    \A s \in Sources \ queue : IF work.source = s THEN AtWorkOn(s) ELSE DoneWith(s)

\* The status that a copy of a valid resource should have, given the vmodel.
StatusDue(s) == StatusFromVModel(cached[s].status, vmodel, TRUE)

\* With pods that stay, a copy that is current and not queued has the status that is
\* due, or the running reconcile is about to write that one.
StatusInv ==
    /\ pods
    /\ \A s \in fresh \ queue :
         ValidCopy(cached[s]) /\ vmodel.targetStatus.status # "LOADED" =>
           IF work.source = s
             THEN work.phase = "update" /\ ~ work.retry /\ ~ MustPoll(work.predictor.status)
                    => work.predictor.status = StatusDue(s)
             ELSE ~ Changed(cached[s].status, StatusDue(s)) /\ ~ MustPoll(cached[s].status)

ReconcilerInv == WorkInv /\ UpdateInv /\ SpecInv /\ (Outages \/ StatusInv)

==============================================================================

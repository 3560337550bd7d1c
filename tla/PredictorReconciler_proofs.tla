----------------------- MODULE PredictorReconciler_proofs -----------------------
(* Proofs about PredictorReconciler, for every value of the constants. *)
EXTENDS PredictorReconciler, TLAPS

USE ModelMeshAssumption, ReconcilerAssumption

-----------------------------------------------------------------------------
(* The vmodel *)

\* The status of a model that is loaded, fails to, or does neither.
LEMMA StatusTypes ==
    /\ \A st \in {"NOT_FOUND", "NOT_LOADED", "LOADING", "LOADED", "LOADING_FAILED"} :
         Quiet(st) \in ModelStatus /\ Quiet(st).status = st
    /\ \A e \in LoadErrors : Failed(e) \in ModelStatus /\ Failed(e).status = "LOADING_FAILED"
    /\ LoadOutcomes \subseteq ModelStatus
    /\ \A st \in ModelStatus : Retried(st) \subseteq ModelStatus
    /\ \A st \in ModelStatus : \A now : Ensured(st, now) \subseteq ModelStatus
<1>1. \A st \in {"NOT_FOUND", "NOT_LOADED", "LOADING", "LOADED", "LOADING_FAILED"} :
         Quiet(st) \in ModelStatus /\ Quiet(st).status = st
  BY DEF Quiet, ModelStatus
<1>2. \A e \in LoadErrors : Failed(e) \in ModelStatus /\ Failed(e).status = "LOADING_FAILED"
  BY DEF Failed, ModelStatus
<1>3. LoadOutcomes \subseteq ModelStatus
  BY <1>1, <1>2 DEF LoadOutcomes
<1>4. \A st \in ModelStatus : Retried(st) \subseteq ModelStatus
  BY DEF Retried, ModelStatus, AllErrors
<1>5. \A st \in ModelStatus : \A now : Ensured(st, now) \subseteq ModelStatus
  BY <1>3 DEF Ensured
<1>6. QED BY <1>1, <1>2, <1>3, <1>4, <1>5

\* The fields of a vmodel; there is none if and only if it has no owner.
LEMMA VModelFields ==
    /\ NoVModel.owner = "none" /\ NoVModel.active = "none" /\ NoVModel.target = "none"
    /\ NoVModel.activeStatus = Quiet("NOT_FOUND") /\ NoVModel.targetStatus = Quiet("NOT_FOUND")
    /\ \A vm \in VModel : /\ vm # NoVModel
                          /\ vm.owner \in Sources /\ vm.active \in Specs /\ vm.target \in Specs
                          /\ vm.activeStatus \in ModelStatus /\ vm.targetStatus \in ModelStatus
<1>1. /\ NoVModel.owner = "none" /\ NoVModel.active = "none" /\ NoVModel.target = "none"
      /\ NoVModel.activeStatus = Quiet("NOT_FOUND") /\ NoVModel.targetStatus = Quiet("NOT_FOUND")
  BY DEF NoVModel
<1>2. \A vm \in VModel : /\ vm.owner \in Sources /\ vm.active \in Specs /\ vm.target \in Specs
                         /\ vm.activeStatus \in ModelStatus /\ vm.targetStatus \in ModelStatus
  BY DEF VModel
<1>3. QED BY <1>1, <1>2

\* A vmodel whose active model, or whose target, is in another status.
LEMMA VModelExcept ==
    ASSUME NEW vm \in VModel, NEW st \in ModelStatus
    PROVE  LET a == [vm EXCEPT !.activeStatus = st]
               t == [vm EXCEPT !.targetStatus = st]
           IN /\ a \in VModel /\ a.owner = vm.owner /\ a.active = vm.active /\ a.target = vm.target
              /\ a.activeStatus = st /\ a.targetStatus = vm.targetStatus
              /\ t \in VModel /\ t.owner = vm.owner /\ t.active = vm.active /\ t.target = vm.target
              /\ t.activeStatus = vm.activeStatus /\ t.targetStatus = st
<1>1. vm = [owner |-> vm.owner, active |-> vm.active, target |-> vm.target,
            activeStatus |-> vm.activeStatus, targetStatus |-> vm.targetStatus]
  BY DEF VModel
<1>2. QED BY <1>1 DEF VModel

LEMMA SteadyFields ==
    ASSUME NEW s \in Sources, NEW spec \in Specs, NEW st \in ModelStatus
    PROVE  LET vm == Steady(s, spec, st)
           IN vm \in VModel /\ vm.owner = s /\ vm.active = spec /\ vm.target = spec
<1>1. Quiet("NOT_FOUND") \in ModelStatus
  BY StatusTypes
<1>2. QED BY <1>1 DEF Steady, VModel

\* SetVModel leaves a vmodel of the owner with the target it was called with
\* (predictor_controller.go:225-282).
LEMMA SetVModelFields ==
    ASSUME ModelMeshTypeOK, NEW s \in Sources, NEW spec \in Specs, NEW loadNow,
           ~ OwnedByOther(s), NEW vm \in SetVModelOutcomes(s, spec, loadNow)
    PROVE  vm \in VModel /\ vm.owner = s /\ vm.target = spec
<1>1. Quiet("NOT_LOADED") \in ModelStatus
  BY StatusTypes
<1>2. CASE ~ Defined
  <2>1. PICK st \in Ensured(Quiet("NOT_LOADED"), loadNow) : vm = Steady(s, spec, st)
    BY <1>2 DEF SetVModelOutcomes
  <2>2. st \in ModelStatus
    BY <1>1, StatusTypes
  <2>3. QED BY <2>1, <2>2, SteadyFields
<1>3. CASE Defined
  <2>1. vmodel \in VModel /\ vmodel.owner = s
    BY <1>3 DEF ModelMeshTypeOK, Defined, OwnedByOther
  <2>2. vmodel.activeStatus \in ModelStatus /\ vmodel.targetStatus \in ModelStatus
    BY <2>1, VModelFields
  <2>3. CASE vmodel.active = spec
    <3>1. PICK st \in Ensured(vmodel.activeStatus, loadNow) : vm = Steady(s, spec, st)
      BY <1>3, <2>3 DEF SetVModelOutcomes
    <3>2. st \in ModelStatus
      BY <2>2, StatusTypes
    <3>3. QED BY <3>1, <3>2, SteadyFields
  <2>4. CASE vmodel.active # spec /\ vmodel.target = spec
    <3>1. PICK st \in Ensured(vmodel.targetStatus, loadNow) : vm = [vmodel EXCEPT !.targetStatus = st]
      BY <1>3, <2>4 DEF SetVModelOutcomes
    <3>2. st \in ModelStatus
      BY <2>2, StatusTypes
    <3>3. QED BY <2>1, <2>4, <3>1, <3>2, VModelExcept
  <2>5. CASE /\ vmodel.active # spec /\ vmodel.target # spec
             /\ ~ loadNow /\ vmodel.activeStatus.status = "NOT_LOADED"
    BY <1>1, <1>3, <2>5, SteadyFields DEF SetVModelOutcomes
  <2>6. CASE /\ vmodel.active # spec /\ vmodel.target # spec
             /\ ~ (~ loadNow /\ vmodel.activeStatus.status = "NOT_LOADED")
    <3>1. PICK st \in LoadOutcomes : vm = [vmodel EXCEPT !.target = spec, !.targetStatus = st]
      BY <1>3, <2>6 DEF SetVModelOutcomes
    <3>2. st \in ModelStatus
      BY StatusTypes
    <3>3. LET u == [vmodel EXCEPT !.target = spec, !.targetStatus = st]
          IN u \in VModel /\ u.owner = vmodel.owner /\ u.target = spec
      BY <2>1, <3>2 DEF VModel
    <3>4. QED BY <2>1, <3>1, <3>3
  <2>7. QED BY <2>3, <2>4, <2>5, <2>6
<1>4. QED BY <1>2, <1>3

MeshSteps == LoadCompletes \/ PodsGo \/ PodsCome \/ ModelChanges \/ Promote

\* What the end of a load changes.
LEMMA LoadEndsFields ==
    ASSUME ModelMeshTypeOK, NEW st \in ModelStatus, LoadEnds(st)
    PROVE  /\ vmodel \in VModel /\ vmodel' \in VModel
           /\ vmodel'.owner = vmodel.owner /\ vmodel'.active = vmodel.active
           /\ vmodel'.target = vmodel.target
           /\ \/ vmodel.activeStatus.status = "LOADING" /\ vmodel'.targetStatus = vmodel.targetStatus
              \/ vmodel.targetStatus.status = "LOADING" /\ vmodel'.targetStatus = st
<1>1. vmodel \in VModel
  BY VModelFields, StatusTypes DEF LoadEnds, ModelMeshTypeOK
<1>2. CASE vmodel.activeStatus.status = "LOADING" /\ vmodel' = [vmodel EXCEPT !.activeStatus = st]
  BY <1>1, <1>2, VModelExcept, VModelFields
<1>3. CASE vmodel.targetStatus.status = "LOADING" /\ vmodel' = [vmodel EXCEPT !.targetStatus = st]
  BY <1>1, <1>3, VModelExcept, VModelFields
<1>4. QED BY <1>2, <1>3 DEF LoadEnds

\* What model-mesh does by itself changes neither owner nor target, and a
\* vmodel that serves its target goes on to.
LEMMA MeshKeeps ==
    ASSUME ModelMeshTypeOK, MeshSteps
    PROVE  /\ ModelMeshTypeOK' /\ (Defined' <=> Defined)
           /\ vmodel'.owner = vmodel.owner /\ vmodel'.target = vmodel.target
           /\ vmodel.active = vmodel.target => vmodel'.active = vmodel.active
<1>0. pods \in BOOLEAN /\ pods' \in BOOLEAN
  BY DEF ModelMeshTypeOK, MeshSteps, LoadCompletes, PodsGo, PodsCome, ModelChanges, Promote
<1>a. ASSUME vmodel \in VModel, vmodel' \in VModel
      PROVE  ModelMeshTypeOK' /\ (Defined' <=> Defined)
  BY <1>0, <1>a, VModelFields DEF ModelMeshTypeOK, Defined
<1>b. ASSUME UNCHANGED vmodel
      PROVE  ModelMeshTypeOK' /\ (Defined' <=> Defined)
  BY <1>0, <1>b DEF ModelMeshTypeOK, Defined
<1>1. CASE LoadCompletes
  <2>1. Quiet("LOADED") \in ModelStatus /\ LoadEnds(Quiet("LOADED"))
    BY <1>1, StatusTypes DEF LoadCompletes
  <2>2. QED BY <1>a, <2>1, LoadEndsFields
<1>2. CASE PodsCome
  BY <1>2, <1>b DEF PodsCome
<1>3. CASE PodsGo
  <2>1. CASE ~ Defined
    BY <1>3, <1>b, <2>1 DEF PodsGo
  <2>2. CASE Defined
    <3>1. vmodel \in VModel
      BY <2>2 DEF ModelMeshTypeOK, Defined
    <3> DEFINE quiet == Quiet("NOT_LOADED")
               after == IF vmodel.active = vmodel.target THEN vmodel.targetStatus ELSE quiet
    <3>2. quiet \in ModelStatus /\ after \in ModelStatus
      BY <3>1, StatusTypes, VModelFields
    <3>3. vmodel' = [vmodel EXCEPT !.activeStatus = quiet, !.targetStatus = after]
      BY <1>3, <2>2 DEF PodsGo
    <3> HIDE DEF quiet, after
    <3>4. /\ vmodel' \in VModel /\ vmodel'.owner = vmodel.owner /\ vmodel'.active = vmodel.active
          /\ vmodel'.target = vmodel.target
      BY <3>1, <3>2, <3>3 DEF VModel
    <3>5. QED BY <1>a, <3>1, <3>4
  <2>3. QED BY <2>1, <2>2
<1>4. CASE ModelChanges
  <2>1. ASSUME NEW e \in LoadErrors, LoadEnds(Failed(e))
        PROVE  /\ vmodel \in VModel /\ vmodel' \in VModel
               /\ vmodel'.owner = vmodel.owner /\ vmodel'.active = vmodel.active
               /\ vmodel'.target = vmodel.target
    <3>1. Failed(e) \in ModelStatus
      BY StatusTypes
    <3>2. QED BY <2>1, <3>1, LoadEndsFields
  <2>2. ASSUME vmodel.targetStatus.status = "LOADING_FAILED",
               NEW st \in Retried(vmodel.targetStatus), vmodel' = [vmodel EXCEPT !.targetStatus = st]
        PROVE  /\ vmodel \in VModel /\ vmodel' \in VModel
               /\ vmodel'.owner = vmodel.owner /\ vmodel'.active = vmodel.active
               /\ vmodel'.target = vmodel.target
    <3>1. vmodel \in VModel
      BY <2>2, VModelFields, StatusTypes DEF ModelMeshTypeOK
    <3>2. st \in ModelStatus
      BY <3>1, VModelFields, StatusTypes
    <3>3. QED BY <2>2, <3>1, <3>2, VModelExcept, VModelFields
  <2>3. ASSUME vmodel.activeStatus.status \in {"LOADING_FAILED", "NOT_LOADED"},
               NEW st \in Retried(vmodel.activeStatus), vmodel' = [vmodel EXCEPT !.activeStatus = st]
        PROVE  /\ vmodel \in VModel /\ vmodel' \in VModel
               /\ vmodel'.owner = vmodel.owner /\ vmodel'.active = vmodel.active
               /\ vmodel'.target = vmodel.target
    <3>1. vmodel \in VModel
      BY <2>3, VModelFields, StatusTypes DEF ModelMeshTypeOK
    <3>2. st \in ModelStatus
      BY <3>1, VModelFields, StatusTypes
    <3>3. QED BY <2>3, <3>1, <3>2, VModelExcept, VModelFields
  <2>4. ASSUME vmodel.activeStatus.status = "LOADED",
               vmodel' = [vmodel EXCEPT !.activeStatus = Quiet("NOT_LOADED")]
        PROVE  /\ vmodel \in VModel /\ vmodel' \in VModel
               /\ vmodel'.owner = vmodel.owner /\ vmodel'.active = vmodel.active
               /\ vmodel'.target = vmodel.target
    <3>1. vmodel \in VModel
      BY <2>4, VModelFields, StatusTypes DEF ModelMeshTypeOK
    <3>2. Quiet("NOT_LOADED") \in ModelStatus
      BY StatusTypes
    <3>3. QED BY <2>4, <3>1, <3>2, VModelExcept, VModelFields
  <2>5. QED BY <1>4, <1>a, <2>1, <2>2, <2>3, <2>4 DEF ModelChanges
<1>5. CASE Promote
  <2>1. vmodel \in VModel
    BY <1>5, VModelFields, StatusTypes DEF ModelMeshTypeOK, Promote
  <2>2. vmodel' = Steady(vmodel.owner, vmodel.target, vmodel.targetStatus)
    BY <1>5 DEF Promote
  <2>3. /\ vmodel' \in VModel /\ vmodel'.owner = vmodel.owner /\ vmodel'.target = vmodel.target
        /\ vmodel'.active = vmodel.target
    BY <2>1, <2>2, SteadyFields, VModelFields
  <2>4. QED BY <1>a, <2>1, <2>3
<1>6. QED BY <1>1, <1>2, <1>3, <1>4, <1>5 DEF MeshSteps

-----------------------------------------------------------------------------
(* Types *)

\* The fields of a resource and of a status.
LEMMA PredictorFields ==
    /\ NotFound.spec = "none" /\ NotFound.status = NoStatus /\ NoStatus \in Status
    /\ \A p \in Predictor : /\ p # NotFound /\ p.spec \in Specs /\ p.del \in BOOLEAN
                            /\ p.status \in Status
    /\ \A st \in Status : /\ st.transition \in TransitionStatuses /\ st.active \in ModelStates
                          /\ st.target \in ModelStates /\ st.reason \in Reasons
                          /\ st.available \in BOOLEAN
<1>1. NotFound.spec = "none" /\ NotFound.status = NoStatus
  BY DEF NotFound
<1>2. NoStatus \in Status
  BY DEF NoStatus, Status, TransitionStatuses, ModelStates, Reasons
<1>3. \A p \in Predictor : p.spec \in Specs /\ p.del \in BOOLEAN /\ p.status \in Status
  BY DEF Predictor
<1>4. \A st \in Status : /\ st.transition \in TransitionStatuses /\ st.active \in ModelStates
                        /\ st.target \in ModelStates /\ st.reason \in Reasons
                        /\ st.available \in BOOLEAN
  BY DEF Status
<1>5. QED BY <1>1, <1>2, <1>3, <1>4

\* What decodeModelState may answer.
LEMMA DecodeTypes ==
    \A m \in ModelStatus :
        /\ DecodeModelState(m).state \in ModelStates /\ DecodeModelState(m).reason \in Reasons
        /\ m.status = "LOADING" => DecodeModelState(m).state = "Loading"
<1> SUFFICES ASSUME NEW m \in ModelStatus
             PROVE  /\ DecodeModelState(m).state \in ModelStates /\ DecodeModelState(m).reason \in Reasons
                    /\ m.status = "LOADING" => DecodeModelState(m).state = "Loading"
  OBVIOUS
<1>2. CASE m.status # "LOADING_FAILED"
  <2>1. \A e : m # Failed(e)
    BY <1>2 DEF Failed
  <2> DEFINE d == ModelStateMap(m.status)
             r == IF m.error = "none" THEN "" ELSE "ModelLoadFailed"
  <2>2. DecodeModelState(m) = [state |-> d, reason |-> r]
    BY <1>2, <2>1 DEF DecodeModelState, Decoded
  <2>3. d \in ModelStates /\ (m.status = "LOADING" => d = "Loading") /\ r \in Reasons
    BY DEF ModelStateMap, ModelStates, Reasons
  <2> HIDE DEF d, r
  <2>4. DecodeModelState(m).state = d /\ DecodeModelState(m).reason = r
    BY <2>2
  <2>5. QED BY <2>3, <2>4
<1>3. CASE m.status = "LOADING_FAILED"
  <2>1. PICK d \in {"Loading", "FailedToLoad"}, r \in Reasons : DecodeModelState(m) = [state |-> d, reason |-> r]
    <3>0. /\ Failed("noHome") # Failed("unknownRuntime") /\ Failed("noHome") # Failed("noRuntime")
          /\ Failed("unknownRuntime") # Failed("noRuntime")
      BY DEF Failed
    <3>1. CASE m = Failed("noHome")
      <4>1. DecodeModelState(m) = [state |-> "Loading", reason |-> "RuntimeUnhealthy"]
        BY <1>3, <3>0, <3>1 DEF DecodeModelState, Decoded
      <4>2. QED BY <4>1 DEF Reasons
    <3>2. CASE m = Failed("unknownRuntime")
      <4>1. DecodeModelState(m) = [state |-> "FailedToLoad", reason |-> "RuntimeNotRecognized"]
        BY <1>3, <3>0, <3>2 DEF DecodeModelState, Decoded
      <4>2. QED BY <4>1 DEF Reasons
    <3>3. CASE m = Failed("noRuntime")
      <4>1. DecodeModelState(m) = [state |-> "FailedToLoad", reason |-> "NoSupportingRuntime"]
        BY <1>3, <3>0, <3>3 DEF DecodeModelState, Decoded
      <4>2. QED BY <4>1 DEF Reasons
    <3>4. CASE m \notin {Failed("noHome"), Failed("unknownRuntime"), Failed("noRuntime")}
      <4>1. DecodeModelState(m) = [state |-> "FailedToLoad", reason |-> "ModelLoadFailed"]
        BY <1>3, <3>4 DEF DecodeModelState, Decoded
      <4>2. QED BY <4>1 DEF Reasons
    <3>5. QED BY <3>1, <3>2, <3>3, <3>4
  <2>2. DecodeModelState(m).state = d /\ DecodeModelState(m).reason = r
    BY <2>1
  <2>3. QED BY <1>3, <2>1, <2>2 DEF ModelStates
<1>4. QED BY <1>2, <1>3

\* The status made of a vmodel's (predictor_controller.go:309-407).
LEMMA StatusFields ==
    ASSUME NEW status \in Status, NEW vm \in VModel \cup {NoVModel}, NEW both \in BOOLEAN
    PROVE  LET new == StatusFromVModel(status, vm, both)
           IN /\ new \in Status
              /\ both => new.transition = TransitionFrom(vm)
              /\ vm.activeStatus.status = "LOADING" => new.active = "Loading"
<1>1. vm.activeStatus \in ModelStatus /\ vm.targetStatus \in ModelStatus
  BY VModelFields, StatusTypes
<1> DEFINE active == DecodeModelState(vm.activeStatus).state
           t == IF both THEN TransitionFrom(vm) ELSE status.transition
           a == IF active = "" THEN status.active ELSE active
           g == TargetState(status, vm)
           r == IF both THEN ReasonFrom(status, vm) ELSE status.reason
           new == [transition |-> t, active |-> a, target |-> g, reason |-> r, available |-> FALSE]
<1>2. /\ active \in ModelStates
      /\ vm.activeStatus.status = "LOADING" => active = "Loading"
  BY <1>1, DecodeTypes
<1>3. a \in ModelStates /\ (vm.activeStatus.status = "LOADING" => a = "Loading")
  BY <1>2, PredictorFields
<1>4. t \in TransitionStatuses
  BY PredictorFields DEF TransitionFrom, TransitionStatusMap, TransitionStatuses
<1>5. g \in ModelStates
  BY <1>1, DecodeTypes DEF TargetState, ModelStates
<1>6. r \in Reasons
  <2>1. ReasonFrom(status, vm) \in Reasons
    <3>1. TargetModelStatus(vm) \in ModelStatus
      BY <1>1 DEF TargetModelStatus
    <3>2. DecodeModelState(TargetModelStatus(vm)).reason \in Reasons
      BY <3>1, DecodeTypes
    <3>3. QED BY <3>2, PredictorFields DEF ReasonFrom, Reasons
  <2>2. QED BY <2>1, PredictorFields
<1>7. StatusFromVModel(status, vm, both) = [new EXCEPT !.available = Available(new)]
  BY DEF StatusFromVModel
<1>8. Available(new) \in BOOLEAN
  BY DEF Available
<1> DEFINE v == Available(new)
<1> HIDE DEF v, a, t, g, r
<1>9. [new EXCEPT !.available = v] = [transition |-> t, active |-> a, target |-> g, reason |-> r, available |-> v]
  OBVIOUS
<1>10. [new EXCEPT !.available = v] \in Status
  BY <1>3, <1>4, <1>5, <1>6, <1>8, <1>9 DEF Status, v
<1>11. QED BY <1>3, <1>7, <1>9, <1>10 DEF t, v

\* The status shown for an invalid spec, and while no pod is there.
LEMMA MarkedFields ==
    ASSUME NEW status \in Status, NEW reason \in Reasons
    PROVE  /\ MarkInvalid(status) \in Status /\ MarkInvalid(status).reason = "InvalidPredictorSpec"
           /\ [status EXCEPT !.reason = reason] \in Status
           /\ [status EXCEPT !.reason = reason].reason = reason
BY DEF MarkInvalid, Status, Reasons, TransitionStatuses

\* Two statuses that do not differ in what is compared call for the same polls.
LEMMA SamePolls ==
    ASSUME NEW old \in Status, NEW new \in Status, ~ Changed(old, new)
    PROVE  MustPoll(old) = MustPoll(new)
<1>1. old.reason = new.reason /\ old.active = new.active
  <2>1. [old EXCEPT !.available = FALSE] = [new EXCEPT !.available = FALSE]
    BY DEF Changed
  <2>2. /\ [old EXCEPT !.available = FALSE].reason = old.reason
        /\ [old EXCEPT !.available = FALSE].active = old.active
        /\ [new EXCEPT !.available = FALSE].reason = new.reason
        /\ [new EXCEPT !.available = FALSE].active = new.active
    BY DEF Status
  <2>3. QED BY <2>1, <2>2
<1>2. QED BY <1>1 DEF MustPoll, WaitingForRuntime

-----------------------------------------------------------------------------
(* What each step of the reconcile comes to *)

\* The fields of the running reconcile.
LEMMA WorkFields ==
    /\ Idle \in Work /\ Idle.phase = "idle" /\ Idle.source = "none"
    /\ \A w \in Work : /\ w.phase \in {"idle", "delete", "call", "update"}
                       /\ w.source \in Sources \cup {"none"}
                       /\ w.predictor \in Predictor \cup {NotFound}
                       /\ w.current \in BOOLEAN /\ w.retry \in BOOLEAN
BY DEF Idle, Work

LEMMA FaultTypes ==
    ASSUME faults \in 0..MaxFaults
    PROVE  Fault \/ NoFault => faults' \in 0..MaxFaults
BY DEF Fault, NoFault

LEMMA DoneFields ==
    ASSUME queue \subseteq Sources, work.source \in Sources, NEW requeue \in BOOLEAN, Done(requeue)
    PROVE  /\ work' = Idle /\ queue \subseteq queue' /\ queue' \subseteq Sources
           /\ requeue => work.source \in queue'
BY DEF Done, Events

\* Conclude ends the reconcile or goes on to write the status.
LEMMA ConcludeFields ==
    ASSUME queue \subseteq Sources, work \in Work, work.source \in Sources, work.predictor \in Predictor,
           NEW status \in Status, NEW details \in BOOLEAN, NEW retry \in BOOLEAN,
           Conclude(status, details, retry)
    PROVE  /\ work' \in Work /\ queue \subseteq queue' /\ queue' \subseteq Sources
           /\ \/ /\ work' = Idle /\ ~ Changed(work.predictor.status, status)
                 /\ retry \/ MustPoll(status) => work.source \in queue'
              \/ /\ work'.phase = "update" /\ work'.source = work.source
                 /\ work'.current = work.current /\ work'.retry = retry
                 /\ work'.predictor \in Predictor /\ work'.predictor.spec = work.predictor.spec
                 /\ work'.predictor.status = status
<1>1. CASE Changed(work.predictor.status, status) \/ details
  <2>1. /\ work' = [work EXCEPT !.phase = "update", !.predictor.status = status, !.retry = retry]
        /\ queue' = queue \cup Events
    BY <1>1 DEF Conclude
  <2>2. Events \subseteq Sources
    BY DEF Events
  <2> DEFINE p == [work.predictor EXCEPT !.status = status]
  <2>3. p \in Predictor /\ p.spec = work.predictor.spec /\ p.status = status
    BY DEF Predictor
  <2>4. work' = [work EXCEPT !.phase = "update", !.predictor = p, !.retry = retry]
    BY <2>1
  <2> HIDE DEF p
  <2>5. /\ work' \in Work /\ work'.phase = "update" /\ work'.source = work.source
        /\ work'.current = work.current /\ work'.retry = retry /\ work'.predictor = p
    BY <2>3, <2>4 DEF Work
  <2>6. QED BY <2>1, <2>2, <2>3, <2>5
<1>2. CASE ~ (Changed(work.predictor.status, status) \/ details)
  <2>1. Done(retry \/ MustPoll(status))
    BY <1>2 DEF Conclude
  <2>2. (retry \/ MustPoll(status)) \in BOOLEAN
    OBVIOUS
  <2>3. QED BY <1>2, <2>1, <2>2, DoneFields, WorkFields
<1>3. QED BY <1>1, <1>2

\* ReconcilePredictor up to its first call (predictor_controller.go:93-143).
LEMMA BeginStep ==
    ASSUME TypeOK, NEW s \in Sources, Begin(s)
    PROVE  /\ UNCHANGED <<api, cached, fresh, client, vmodel, pods, writes, faults>>
           /\ work = Idle /\ s \in queue /\ queue' = queue \ {s}
           /\ work' \in Work /\ work'.source = s /\ (work'.current <=> s \in fresh)
           /\ \/ /\ work'.predictor = cached[s]
                 /\ work'.phase = IF cached[s] = NotFound THEN "delete" ELSE "call"
              \/ /\ cached[s] # NotFound /\ ~ ValidatePredictor(cached[s])
                 /\ work'.phase = "update" /\ work'.retry /\ work'.predictor \in Predictor
                 /\ work'.predictor.spec = cached[s].spec
                 /\ work'.predictor.status.reason = "InvalidPredictorSpec"
<1> DEFINE take == [phase |-> "call", source |-> s, predictor |-> cached[s],
                    current |-> s \in fresh, retry |-> FALSE]
<1>1. /\ UNCHANGED <<api, cached, fresh, client, vmodel, pods, writes, faults>>
      /\ work = Idle /\ s \in queue /\ queue' = queue \ {s}
  BY DEF Begin, kubeVars
<1>2. cached[s] \in Predictor \cup {NotFound}
  BY DEF TypeOK
<1> DEFINE now == s \in fresh
<1>3. now \in BOOLEAN
  OBVIOUS
<1>4. CASE client
  <2>1. work' = IF cached[s] = NotFound THEN [take EXCEPT !.phase = "delete"] ELSE take
    BY <1>4 DEF Begin
  <2> DEFINE phase == IF cached[s] = NotFound THEN "delete" ELSE "call"
  <2>2. work' = [phase |-> phase, source |-> s, predictor |-> cached[s], current |-> now, retry |-> FALSE]
    BY <2>1
  <2>3. phase \in {"delete", "call"}
    OBVIOUS
  <2> HIDE DEF phase, now
  <2>4. work' \in Work /\ work'.source = s /\ work'.current = now /\ work'.predictor = cached[s] /\ work'.phase = phase
    BY <1>2, <1>3, <2>2, <2>3 DEF Work
  <2>5. QED BY <1>1, <2>4 DEF phase, now
<1>5. CASE ~ client
  <2>1. /\ cached[s] # NotFound /\ ~ ValidatePredictor(cached[s])
        /\ work' = [take EXCEPT !.phase = "update", !.retry = TRUE, !.predictor.status = MarkInvalid(@)]
    BY <1>5 DEF Begin
  <2> DEFINE m == MarkInvalid(cached[s].status)
             p == [cached[s] EXCEPT !.status = m]
  <2>2. m \in Status /\ m.reason = "InvalidPredictorSpec"
    BY <1>2, <2>1, PredictorFields, MarkedFields DEF Reasons
  <2>3. work' = [phase |-> "update", source |-> s, predictor |-> p, current |-> now, retry |-> TRUE]
    BY <2>1
  <2> HIDE DEF m, now
  <2>4. p \in Predictor /\ p.spec = cached[s].spec /\ p.status = m
    BY <1>2, <2>1, <2>2 DEF Predictor
  <2> HIDE DEF p
  <2>5. /\ work' \in Work /\ work'.source = s /\ work'.current = now /\ work'.predictor = p
        /\ work'.phase = "update" /\ work'.retry
    BY <1>3, <2>3, <2>4 DEF Work
  <2>6. QED BY <1>1, <2>1, <2>2, <2>4, <2>5 DEF now
<1>6. QED BY <1>4, <1>5 DEF TypeOK

\* handlePredictorNotFound (predictor_controller.go:284-307).
LEMMA DeleteStep ==
    ASSUME TypeOK, WorkInv, HandlePredictorNotFound
    PROVE  LET s == work.source IN
           /\ UNCHANGED <<api, cached, fresh, client, pods, writes>>
           /\ work.phase = "delete" /\ s \in Sources /\ work.predictor = NotFound
           /\ work' = Idle /\ faults' \in 0..MaxFaults
           /\ queue \subseteq queue' /\ queue' \subseteq Sources
           /\ vmodel' \in {vmodel, DeleteVModelOutcome(s)}
           /\ s \in queue' \/ s \in InferenceServices \/ vmodel' = DeleteVModelOutcome(s)
<1>1. /\ UNCHANGED <<api, cached, fresh, client, pods, writes>> /\ work.phase = "delete"
  BY DEF HandlePredictorNotFound, kubeVars
<1>2. work.source \in Sources /\ work.predictor = NotFound
  BY <1>1 DEF WorkInv
<1>3. queue \subseteq Sources /\ faults \in 0..MaxFaults
  BY DEF TypeOK
<1>4. CASE vmodel' = DeleteVModelOutcome(work.source) /\ ((NoFault /\ Done(FALSE)) \/ (Fault /\ Done(TRUE)))
  BY <1>1, <1>2, <1>3, <1>4, DoneFields, FaultTypes
<1>5. CASE UNCHANGED vmodel /\ Fault /\ Done(TRUE)
  BY <1>1, <1>2, <1>3, <1>5, DoneFields, FaultTypes
<1>6. CASE UNCHANGED vmodel /\ NoFault /\ Done(~ LetGo(work.source))
  <2>1. (~ LetGo(work.source)) \in BOOLEAN
    OBVIOUS
  <2>2. /\ work' = Idle /\ queue \subseteq queue' /\ queue' \subseteq Sources
        /\ ~ LetGo(work.source) => work.source \in queue'
    BY <1>2, <1>3, <1>6, <2>1, DoneFields
  <2>3. faults' \in 0..MaxFaults
    BY <1>3, <1>6, FaultTypes
  <2>4. QED BY <1>1, <1>2, <1>6, <2>2, <2>3 DEF LetGo
<1>7. QED BY <1>4, <1>5, <1>6 DEF HandlePredictorNotFound

\* The write of the status (predictor_controller.go:186-221).
LEMMA UpdateStep ==
    ASSUME TypeOK, WorkInv, UpdateStatus
    PROVE  LET s == work.source
               status == work.predictor.status
           IN
           /\ UNCHANGED <<cached, client, vmodel, pods, writes>>
           /\ work.phase = "update" /\ s \in Sources /\ work.predictor \in Predictor
           /\ work' = Idle /\ faults' \in 0..MaxFaults
           /\ queue \subseteq queue' /\ queue' \subseteq Sources
           /\ \/ UNCHANGED <<api, fresh>> /\ s \in queue'
              \/ /\ work.current
                 /\ api' = [api EXCEPT ![s].status = status]
                 /\ fresh' = fresh \ {s} \/ UNCHANGED <<api, fresh>>
                 /\ s \in queue' \/ (~ work.retry /\ ~ MustPoll(status))
<1>1. UNCHANGED <<cached, client, vmodel, pods, writes>> /\ work.phase = "update"
  BY DEF UpdateStatus
<1>2. work.source \in Sources /\ work.predictor \in Predictor
  BY <1>1, WorkFields DEF WorkInv, TypeOK
<1>3. queue \subseteq Sources /\ faults \in 0..MaxFaults
  BY DEF TypeOK
<1> DEFINE again == work.retry \/ MustPoll(work.predictor.status)
           commit == /\ ~ Conflict
                     /\ api' = [api EXCEPT ![work.source].status = work.predictor.status]
                     /\ \/ fresh' = fresh \ {work.source}
                        \/ api' = api /\ UNCHANGED fresh
<1>4. again \in BOOLEAN
  OBVIOUS
<1>5. \/ commit /\ NoFault /\ Done(again)
      \/ commit /\ Fault /\ Done(TRUE)
      \/ Conflict /\ UNCHANGED <<api, fresh>> /\ NoFault /\ Done(TRUE)
      \/ UNCHANGED <<api, fresh>> /\ Fault /\ Done(TRUE)
  BY DEF UpdateStatus
<1>6. faults' \in 0..MaxFaults
  BY <1>3, <1>5, FaultTypes
<1>7. commit => /\ work.current
                /\ api' = [api EXCEPT ![work.source].status = work.predictor.status]
                /\ fresh' = fresh \ {work.source} \/ UNCHANGED <<api, fresh>>
  BY DEF Conflict
<1> HIDE DEF commit, again
<1>8. CASE commit /\ Done(again)
  <2>1. /\ work' = Idle /\ queue \subseteq queue' /\ queue' \subseteq Sources /\ (again => work.source \in queue')
    BY <1>2, <1>3, <1>4, <1>8, DoneFields
  <2>2. QED BY <1>1, <1>2, <1>6, <1>7, <1>8, <2>1 DEF again
<1>9. CASE (commit \/ UNCHANGED <<api, fresh>>) /\ Done(TRUE)
  <2>1. /\ work' = Idle /\ queue \subseteq queue' /\ queue' \subseteq Sources /\ work.source \in queue'
    BY <1>2, <1>3, <1>9, DoneFields
  <2>2. QED BY <1>1, <1>2, <1>6, <1>7, <1>9, <2>1
<1>10. QED BY <1>5, <1>8, <1>9

\* The vmodel is set to what p asks for.
Set(s, p) == vmodel' \in VModel /\ vmodel'.owner = s /\ vmodel'.target = p.spec

\* The status that the answer to SetVModel calls for.
Answer(p) == StatusFromVModel(p.status, vmodel', TRUE)

\* The reconcile of p, at its call, ends with its name queued again, ends because the
\* status is right, or goes on to write the status that shows what is wrong or the answer.
CallEnds(s, p) ==
    \/ work' = Idle /\ s \in queue'
    \/ /\ work' = Idle
       /\ ValidatePredictor(p) =>
            Set(s, p) /\ ~ Changed(p.status, Answer(p)) /\ ~ MustPoll(Answer(p))
    \/ /\ work'.phase = "update" /\ work'.source = s /\ work'.current = work.current
       /\ work'.predictor \in Predictor /\ work'.predictor.spec = p.spec
       /\ \/ /\ work'.predictor.status.reason \in {"RuntimeUnhealthy", "InvalidPredictorSpec"}
             /\ ValidatePredictor(p) => work'.retry \/ (~ pods /\ WaitingForRuntime(work'.predictor.status))
          \/ Set(s, p) /\ work'.predictor.status = Answer(p)

\* The call for a valid spec (predictor_controller.go:145-184).
LEMMA SetVModelStep ==
    ASSUME TypeOK, WorkInv, SetVModel
    PROVE  LET s == work.source
               p == work.predictor
           IN
           /\ UNCHANGED <<api, cached, fresh, client, pods, writes>>
           /\ work.phase = "call" /\ s \in Sources /\ p \in Predictor /\ ValidatePredictor(p)
           /\ work' \in Work /\ faults' \in 0..MaxFaults
           /\ queue \subseteq queue' /\ queue' \subseteq Sources
           /\ UNCHANGED vmodel \/ (~ OwnedByOther(s) /\ Set(s, p))
           /\ CallEnds(s, p)
<1> DEFINE s == work.source
           p == work.predictor
<1>1. UNCHANGED <<api, cached, fresh, client, pods, writes>> /\ work.phase = "call" /\ ValidatePredictor(p)
  BY DEF SetVModel, kubeVars
<1>2. s \in Sources /\ p \in Predictor
  BY <1>1, WorkFields DEF WorkInv, TypeOK
<1>3. /\ queue \subseteq Sources /\ faults \in 0..MaxFaults /\ work \in Work /\ ModelMeshTypeOK
  BY DEF TypeOK
<1>4. p.status \in Status /\ p.spec \in Specs
  BY <1>2, PredictorFields
<1> DEFINE unhealthy == [p.status EXCEPT !.reason = "RuntimeUnhealthy"]
           refused == [p.status EXCEPT !.reason = "InvalidPredictorSpec"]
<1>5. /\ unhealthy \in Status /\ unhealthy.reason = "RuntimeUnhealthy"
      /\ refused \in Status /\ refused.reason = "InvalidPredictorSpec"
  BY <1>4, MarkedFields DEF Reasons
<1> HIDE DEF unhealthy, refused
\* SetVModel succeeds, or has its effect and fails.
<1>6. CASE /\ ~ OwnedByOther(s)
           /\ vmodel' \in SetVModelOutcomes(s, p.spec, LoadNow(p))
           /\ \/ NoFault /\ \E details \in BOOLEAN : Conclude(Answer(p), details, FALSE)
              \/ Fault /\ Done(TRUE)
  <2>1. Set(s, p)
    BY <1>2, <1>3, <1>4, <1>6, SetVModelFields DEF Set
  <2>2. faults' \in 0..MaxFaults
    BY <1>3, <1>6, FaultTypes
  <2>3. CASE Done(TRUE)
    <3>1. work' = Idle /\ queue \subseteq queue' /\ queue' \subseteq Sources /\ s \in queue'
      BY <1>2, <1>3, <2>3, DoneFields
    <3>2. QED BY <1>1, <1>2, <1>6, <2>1, <2>2, <3>1, WorkFields DEF CallEnds
  <2>4. ASSUME NEW details \in BOOLEAN, Conclude(Answer(p), details, FALSE)
        PROVE  /\ work' \in Work /\ queue \subseteq queue' /\ queue' \subseteq Sources
               /\ CallEnds(s, p)
    <3>1. Answer(p) \in Status
      BY <1>4, <2>1, StatusFields DEF Answer, Set
    <3>2. /\ work' \in Work /\ queue \subseteq queue' /\ queue' \subseteq Sources
          /\ \/ /\ work' = Idle /\ ~ Changed(p.status, Answer(p))
                /\ FALSE \/ MustPoll(Answer(p)) => s \in queue'
             \/ /\ work'.phase = "update" /\ work'.source = s
                /\ work'.current = work.current /\ work'.retry = FALSE
                /\ work'.predictor \in Predictor /\ work'.predictor.spec = p.spec
                /\ work'.predictor.status = Answer(p)
      BY <1>2, <1>3, <2>4, <3>1, ConcludeFields
    <3>3. QED BY <2>1, <3>2 DEF CallEnds
  <2>5. QED BY <1>1, <1>2, <1>6, <2>1, <2>2, <2>3, <2>4
\* There is no pod to call.
<1>7. CASE /\ ~ pods /\ UNCHANGED vmodel /\ NoFault
           /\ \E details \in BOOLEAN : Conclude(unhealthy, details, FALSE)
  <2>1. PICK details \in BOOLEAN : Conclude(unhealthy, details, FALSE)
    BY <1>7
  <2>2. WaitingForRuntime(unhealthy) /\ MustPoll(unhealthy)
    BY <1>5 DEF WaitingForRuntime, MustPoll
  <2>3. /\ work' \in Work /\ queue \subseteq queue' /\ queue' \subseteq Sources
        /\ \/ /\ work' = Idle
              /\ FALSE \/ MustPoll(unhealthy) => s \in queue'
           \/ /\ work'.phase = "update" /\ work'.source = s
              /\ work'.current = work.current
              /\ work'.predictor \in Predictor /\ work'.predictor.spec = p.spec
              /\ work'.predictor.status = unhealthy
    BY <1>2, <1>3, <1>5, <2>1, ConcludeFields
  <2>4. CallEnds(s, p)
    BY <1>5, <1>7, <2>2, <2>3 DEF CallEnds
  <2>5. QED BY <1>1, <1>2, <1>3, <1>7, <2>3, <2>4, FaultTypes
\* Another source has the vmodel.
<1>8. CASE /\ UNCHANGED vmodel /\ NoFault
           /\ \E details \in BOOLEAN : Conclude(refused, details, TRUE)
  <2>1. PICK details \in BOOLEAN : Conclude(refused, details, TRUE)
    BY <1>8
  <2>2. /\ work' \in Work /\ queue \subseteq queue' /\ queue' \subseteq Sources
        /\ \/ /\ work' = Idle
              /\ TRUE \/ MustPoll(refused) => s \in queue'
           \/ /\ work'.phase = "update" /\ work'.source = s
              /\ work'.current = work.current /\ work'.retry = TRUE
              /\ work'.predictor \in Predictor /\ work'.predictor.spec = p.spec
              /\ work'.predictor.status = refused
    BY <1>2, <1>3, <1>5, <2>1, ConcludeFields
  <2>3. CallEnds(s, p)
    BY <1>5, <2>2 DEF CallEnds
  <2>4. QED BY <1>1, <1>2, <1>3, <1>8, <2>2, <2>3, FaultTypes
\* The call fails without effect.
<1>9. CASE UNCHANGED vmodel /\ Fault /\ Done(TRUE)
  <2>1. work' = Idle /\ queue \subseteq queue' /\ queue' \subseteq Sources /\ s \in queue'
    BY <1>2, <1>3, <1>9, DoneFields
  <2>2. QED BY <1>1, <1>2, <1>3, <1>9, <2>1, FaultTypes, WorkFields DEF CallEnds
<1>10. QED BY <1>6, <1>7, <1>8, <1>9 DEF SetVModel, SetVModelRequest, Answer, unhealthy, refused

\* The call for an invalid spec (predictor_controller.go:126-143).
LEMMA CheckVModelStep ==
    ASSUME TypeOK, WorkInv, CheckVModel
    PROVE  LET s == work.source
               p == work.predictor
           IN
           /\ UNCHANGED <<api, cached, fresh, client, pods, writes, vmodel>>
           /\ work.phase = "call" /\ s \in Sources /\ p \in Predictor /\ ~ ValidatePredictor(p)
           /\ work' \in Work /\ faults' \in 0..MaxFaults
           /\ queue \subseteq queue' /\ queue' \subseteq Sources
           /\ CallEnds(s, p)
<1> DEFINE s == work.source
           p == work.predictor
<1>1. UNCHANGED <<api, cached, fresh, client, pods, writes, vmodel>> /\ work.phase = "call" /\ ~ ValidatePredictor(p)
  BY DEF CheckVModel, kubeVars
<1>2. s \in Sources /\ p \in Predictor
  BY <1>1, WorkFields DEF WorkInv, TypeOK
<1>3. /\ queue \subseteq Sources /\ faults \in 0..MaxFaults /\ work \in Work /\ ModelMeshTypeOK
  BY DEF TypeOK
<1>4. p.status \in Status
  BY <1>2, PredictorFields
<1>5. faults' \in 0..MaxFaults
  BY <1>3, FaultTypes DEF CheckVModel
<1>6. PICK status \in Status, details \in BOOLEAN, retry \in BOOLEAN :
           status.reason = "InvalidPredictorSpec" /\ Conclude(status, details, retry)
  <2> DEFINE vm == GetVModelStatus(s)
             shown == StatusFromVModel(p.status, vm, FALSE)
  <2>1. vm \in VModel \cup {NoVModel}
    BY <1>3 DEF GetVModelStatus, ModelMeshTypeOK
  <2>2. shown \in Status
    BY <1>4, <2>1, StatusFields
  <2>3. \E details \in BOOLEAN : \/ Conclude(MarkInvalid(shown), details, FALSE)
                                 \/ Conclude(MarkInvalid(p.status), details, TRUE)
    BY DEF CheckVModel
  <2> HIDE DEF shown
  <2>4. /\ MarkInvalid(shown) \in Status /\ MarkInvalid(shown).reason = "InvalidPredictorSpec"
        /\ MarkInvalid(p.status) \in Status /\ MarkInvalid(p.status).reason = "InvalidPredictorSpec"
    BY <1>4, <2>2, MarkedFields DEF Reasons
  <2>5. QED BY <2>3, <2>4
<1>7. /\ work' \in Work /\ queue \subseteq queue' /\ queue' \subseteq Sources
      /\ \/ work' = Idle
         \/ /\ work'.phase = "update" /\ work'.source = s
            /\ work'.current = work.current
            /\ work'.predictor \in Predictor /\ work'.predictor.spec = p.spec
            /\ work'.predictor.status = status
  BY <1>2, <1>3, <1>6, ConcludeFields
<1>8. CallEnds(s, p)
  BY <1>1, <1>6, <1>7 DEF CallEnds
<1>9. QED BY <1>1, <1>2, <1>5, <1>7, <1>8

\* The call of either kind.
LEMMA CallStep ==
    ASSUME TypeOK, WorkInv, SetVModel \/ CheckVModel
    PROVE  LET s == work.source
               p == work.predictor
           IN
           /\ UNCHANGED <<api, cached, fresh, client, pods, writes>>
           /\ work.phase = "call" /\ s \in Sources /\ p \in Predictor
           /\ work' \in Work /\ faults' \in 0..MaxFaults
           /\ queue \subseteq queue' /\ queue' \subseteq Sources
           /\ UNCHANGED vmodel \/ (~ OwnedByOther(s) /\ Set(s, p))
           /\ CallEnds(s, p)
BY SetVModelStep, CheckVModelStep

-----------------------------------------------------------------------------
(* The steps of the others *)

\* A user's write makes copies out of date, the running reconcile's too.
LEMMA WriteStep ==
    ASSUME TypeOK, NEW s \in Sources, NEW p \in Predictor \cup {NotFound}, Write(s, p)
    PROVE  /\ UNCHANGED <<cached, queue, client, vmodel, pods, faults>>
           /\ api' = [api EXCEPT ![s] = p] /\ fresh' = fresh \ {s} /\ writes' \in 0..MaxWrites
           /\ work' \in Work /\ work'.phase = work.phase /\ work'.source = work.source
           /\ work'.predictor = work.predictor /\ work'.retry = work.retry
           /\ work'.current = IF work.source = s THEN FALSE ELSE work.current
           /\ work.source # s => work' = work
<1>1. /\ UNCHANGED <<cached, queue, client, vmodel, pods, faults>>
      /\ api' = [api EXCEPT ![s] = p] /\ fresh' = fresh \ {s} /\ writes' \in 0..MaxWrites
      /\ work' = IF work.source = s THEN [work EXCEPT !.current = FALSE] ELSE work
  BY DEF Write, TypeOK
<1>2. work \in Work
  BY DEF TypeOK
<1>3. CASE work.source = s
  <2>1. work' = [work EXCEPT !.current = FALSE]
    BY <1>1, <1>3
  <2>2. /\ work' \in Work /\ work'.phase = work.phase /\ work'.source = work.source
        /\ work'.predictor = work.predictor /\ work'.retry = work.retry /\ work'.current = FALSE
    BY <1>2, <2>1 DEF Work
  <2>3. QED BY <1>1, <1>3, <2>2
<1>4. CASE work.source # s
  BY <1>1, <1>2, <1>4
<1>5. QED BY <1>3, <1>4

\* What users write: a spec, a deletion, or the mark of one to come.
LEMMA UserStep ==
    ASSUME TypeOK, NEW s \in Sources, Delete(s) \/ \E spec \in Specs : SetSpec(s, spec)
    PROVE  \E p \in Predictor \cup {NotFound} : Write(s, p)
<1>1. api[s] \in Predictor \cup {NotFound}
  BY DEF TypeOK
<1>2. CASE Delete(s)
  <2>1. api[s] \in Predictor
    BY <1>1, <1>2 DEF Delete, Exists
  <2>2. [api[s] EXCEPT !.del = TRUE] \in Predictor
    BY <2>1 DEF Predictor
  <2>3. QED BY <1>2, <2>2 DEF Delete
<1>3. ASSUME NEW spec \in Specs, SetSpec(s, spec)
      PROVE  \E p \in Predictor \cup {NotFound} : Write(s, p)
  <2>1. CASE Exists(s)
    <3>1. [api[s] EXCEPT !.spec = spec] \in Predictor
      BY <1>1, <2>1 DEF Predictor, Exists
    <3>2. QED BY <1>3, <2>1, <3>1 DEF SetSpec
  <2>2. CASE ~ Exists(s)
    <3> DEFINE st == InitialStatus(s)
    <3>1. st \in Status
      BY DEF InitialStatus, Status, TransitionStatuses, ModelStates, Reasons
    <3> HIDE DEF st
    <3>2. [spec |-> spec, del |-> FALSE, status |-> st] \in Predictor
      BY <3>1 DEF Predictor
    <3>3. QED BY <1>3, <2>2, <3>2 DEF SetSpec, st
  <2>3. QED BY <2>1, <2>2
<1>4. QED BY <1>2, <1>3

\* The steps of model-mesh, with or without an event.
LEMMA MeshStep ==
    ASSUME TypeOK, Silently \/ WithEvent
    PROVE  /\ UNCHANGED <<api, cached, fresh, client, work, writes, faults>>
           /\ queue \subseteq queue' /\ queue' \subseteq Sources
           /\ ModelMeshTypeOK' /\ (Defined' <=> Defined)
           /\ vmodel'.owner = vmodel.owner /\ vmodel'.target = vmodel.target
           /\ vmodel.active = vmodel.target => vmodel'.active = vmodel.active
<1>1. MeshSteps /\ ModelMeshTypeOK
  BY DEF Silently, WithEvent, MeshSteps, TypeOK
<1>2. Defined => vmodel.owner \in Sources
  BY <1>1, VModelFields DEF Defined, ModelMeshTypeOK
<1>3. UNCHANGED <<api, cached, fresh, client, work, writes, faults>>
  BY DEF Silently, WithEvent, kubeVars
<1>4. queue \subseteq queue' /\ queue' \subseteq Sources
  BY <1>2 DEF Silently, WithEvent, TypeOK
<1>5. QED BY <1>1, <1>3, <1>4, MeshKeeps

\* What the three ways of a step leave the same: users, model-mesh, and the rest.
Others == \/ Connect \/ Restart \/ UNCHANGED vars
          \/ \E s \in Sources : InformerSync(s) \/ Resync(s)

LEMMA NextCases ==
    ASSUME TypeOK, [Next]_vars
    PROVE  \/ HandlePredictorNotFound \/ SetVModel \/ CheckVModel \/ UpdateStatus
           \/ Silently \/ WithEvent \/ Others
           \/ \E s \in Sources : Begin(s)
           \/ \E s \in Sources : \E p \in Predictor \cup {NotFound} : Write(s, p)
<1>1. CASE UNCHANGED vars
  BY <1>1 DEF Others
<1>2. CASE Next
  BY <1>2, UserStep DEF Next, Others
<1>3. QED BY <1>1, <1>2

-----------------------------------------------------------------------------
(* The type invariant and the running reconcile *)

LEMMA NextType == TypeOK /\ WorkInv /\ [Next]_vars => TypeOK'
<1> SUFFICES ASSUME TypeOK, WorkInv, [Next]_vars PROVE TypeOK'
  OBVIOUS
<1>0. /\ ModelMeshTypeOK /\ api \in [Sources -> Predictor \cup {NotFound}]
      /\ cached \in [Sources -> Predictor \cup {NotFound}]
      /\ fresh \in SUBSET Sources /\ (\A t \in fresh : cached[t] = api[t])
      /\ queue \in SUBSET Sources /\ client \in BOOLEAN /\ work \in Work
      /\ writes \in 0..MaxWrites /\ faults \in 0..MaxFaults
  BY DEF TypeOK
<1>z. ASSUME /\ ModelMeshTypeOK' /\ api' \in [Sources -> Predictor \cup {NotFound}]
             /\ cached' \in [Sources -> Predictor \cup {NotFound}]
             /\ fresh' \in SUBSET Sources /\ (\A t \in fresh' : cached'[t] = api'[t])
             /\ queue' \in SUBSET Sources /\ client' \in BOOLEAN /\ work' \in Work
             /\ writes' \in 0..MaxWrites /\ faults' \in 0..MaxFaults
      PROVE  TypeOK'
  BY <1>z DEF TypeOK
<1>1. CASE HandlePredictorNotFound
  <2>1. ModelMeshTypeOK'
    BY <1>0, <1>1, DeleteStep DEF ModelMeshTypeOK, DeleteVModelOutcome
  <2>2. QED BY <1>0, <1>1, <1>z, <2>1, DeleteStep, WorkFields
<1>2. CASE SetVModel \/ CheckVModel
  <2>1. ModelMeshTypeOK'
    BY <1>0, <1>2, CallStep DEF ModelMeshTypeOK, Set
  <2>2. QED BY <1>0, <1>2, <1>z, <2>1, CallStep
<1>3. CASE UpdateStatus
  <2> DEFINE s == work.source
             status == work.predictor.status
  <2>1. s \in Sources /\ work.predictor \in Predictor
    BY <1>3, UpdateStep
  <2>2. status \in Status
    BY <2>1, PredictorFields
  <2>3. api' \in [Sources -> Predictor \cup {NotFound}] /\ (\A t \in Sources \ {s} : api'[t] = api[t])
    <3>1. CASE UNCHANGED <<api, fresh>>
      BY <1>0, <3>1
    <3>2. CASE work.current /\ api' = [api EXCEPT ![s].status = status]
      <4>1. api[s] \in Predictor
        <5>1. api[s].spec \in Specs
          BY <1>3, <2>1, <3>2, PredictorFields, UpdateStep DEF WorkInv
        <5>2. QED BY <1>0, <2>1, <5>1, PredictorFields
      <4>2. [api[s] EXCEPT !.status = status] \in Predictor
        BY <2>2, <4>1 DEF Predictor
      <4> DEFINE q == [api[s] EXCEPT !.status = status]
      <4>3. api' = [api EXCEPT ![s] = q]
        BY <3>2
      <4> HIDE DEF q
      <4>4. QED BY <1>0, <2>1, <4>2, <4>3 DEF q
    <3>3. QED BY <1>3, <3>1, <3>2, UpdateStep
  <2>4. fresh' = fresh \ {s} \/ UNCHANGED <<api, fresh>>
    BY <1>3, UpdateStep
  <2>5. /\ UNCHANGED <<cached, client, vmodel, pods, writes>> /\ work' = Idle /\ queue' \subseteq Sources
        /\ faults' \in 0..MaxFaults
    BY <1>3, UpdateStep
  <2>6. \A t \in fresh' : cached'[t] = api'[t]
    BY <1>0, <2>3, <2>4, <2>5
  <2>7. ModelMeshTypeOK'
    BY <1>0, <2>5 DEF ModelMeshTypeOK
  <2>8. QED BY <1>0, <1>z, <2>3, <2>4, <2>5, <2>6, <2>7, WorkFields
<1>4. CASE Silently \/ WithEvent
  BY <1>0, <1>4, <1>z, MeshStep
<1>5. ASSUME NEW s \in Sources, Begin(s) PROVE TypeOK'
  <2>1. ModelMeshTypeOK'
    BY <1>0, <1>5, BeginStep DEF ModelMeshTypeOK
  <2>2. QED BY <1>0, <1>5, <1>z, <2>1, BeginStep
<1>6. ASSUME NEW s \in Sources, NEW p \in Predictor \cup {NotFound}, Write(s, p) PROVE TypeOK'
  <2>1. ModelMeshTypeOK'
    BY <1>0, <1>6, WriteStep DEF ModelMeshTypeOK
  <2>2. api' = [api EXCEPT ![s] = p] /\ fresh' = fresh \ {s} /\ UNCHANGED cached
    BY <1>6, WriteStep
  <2>3. api' \in [Sources -> Predictor \cup {NotFound}] /\ (\A t \in fresh' : cached'[t] = api'[t])
    BY <1>0, <2>2
  <2>4. QED BY <1>0, <1>6, <1>z, <2>1, <2>2, <2>3, WriteStep
<1>7. CASE Others
  <2>1. CASE Restart
    <3>1. ModelMeshTypeOK' /\ UNCHANGED <<api, writes>> /\ cached' = api /\ fresh' = Sources
          /\ client' = FALSE /\ work' = Idle
      BY <1>0, <2>1 DEF Restart, ModelMeshTypeOK
    <3>2. queue' \subseteq Sources
      BY <2>1 DEF Restart
    <3>3. faults' \in 0..MaxFaults
      BY <1>0, <2>1, FaultTypes DEF Restart
    <3>4. QED BY <1>0, <1>z, <3>1, <3>2, <3>3, WorkFields
  <2>2. CASE Connect \/ UNCHANGED vars
    BY <1>0, <1>z, <2>2 DEF Connect, vars, kubeVars, ModelMeshTypeOK
  <2>3. ASSUME NEW s \in Sources, InformerSync(s) PROVE TypeOK'
    <3>1. ModelMeshTypeOK' /\ UNCHANGED <<api, client, work, writes, faults>>
      BY <1>0, <2>3 DEF InformerSync, ModelMeshTypeOK
    <3>2. cached' = [cached EXCEPT ![s] = api[s]] /\ fresh' = fresh \cup {s} /\ queue' = queue \cup {s}
      BY <2>3 DEF InformerSync
    <3>3. cached' \in [Sources -> Predictor \cup {NotFound}] /\ (\A t \in fresh' : cached'[t] = api'[t])
      BY <1>0, <3>1, <3>2
    <3>4. QED BY <1>0, <1>z, <3>1, <3>2, <3>3
  <2>4. ASSUME NEW s \in Sources, Resync(s) PROVE TypeOK'
    BY <1>0, <1>z, <2>4 DEF Resync, kubeVars, ModelMeshTypeOK
  <2>5. QED BY <1>7, <2>1, <2>2, <2>3, <2>4 DEF Others
<1>8. QED BY <1>1, <1>2, <1>3, <1>4, <1>5, <1>6, <1>7, NextCases

\* A resource that is not the running reconcile's stays the one it has read.
LEMMA NextWork == TypeOK /\ WorkInv /\ [Next]_vars => WorkInv'
<1> SUFFICES ASSUME TypeOK, WorkInv, [Next]_vars PROVE WorkInv'
  OBVIOUS
<1>0. /\ api \in [Sources -> Predictor \cup {NotFound}] /\ cached \in [Sources -> Predictor \cup {NotFound}]
      /\ \A t \in fresh : cached[t] = api[t]
      /\ Idle.phase = "idle"
  BY WorkFields DEF TypeOK
<1>a. ASSUME work' = Idle PROVE WorkInv'
  BY <1>0, <1>a DEF WorkInv
<1>b. ASSUME UNCHANGED <<work, api>> PROVE WorkInv'
  BY <1>b DEF WorkInv
<1>1. CASE HandlePredictorNotFound
  BY <1>1, <1>a, DeleteStep
<1>2. CASE SetVModel \/ CheckVModel
  <2>1. CASE work' = Idle
    BY <1>a, <2>1
  <2>2. CASE work' # Idle
    <3>1. /\ work'.phase = "update" /\ work'.source = work.source /\ work'.current = work.current
          /\ work'.predictor \in Predictor /\ work'.predictor.spec = work.predictor.spec
      BY <1>2, <2>2, CallStep DEF CallEnds
    <3>2. work.phase = "call" /\ work.source \in Sources /\ work.predictor \in Predictor /\ UNCHANGED api
      BY <1>2, CallStep
    <3>3. QED BY <3>1, <3>2, PredictorFields DEF WorkInv
  <2>3. QED BY <2>1, <2>2
<1>3. CASE UpdateStatus
  BY <1>3, <1>a, UpdateStep
<1>4. CASE Silently \/ WithEvent
  BY <1>4, <1>b, MeshStep
<1>5. ASSUME NEW s \in Sources, Begin(s) PROVE WorkInv'
  <2>1. work'.source = s /\ UNCHANGED api /\ (work'.current <=> s \in fresh)
    BY <1>5, BeginStep
  <2>2. work'.current => cached[s] = api[s]
    BY <1>0, <2>1
  <2>3. CASE /\ work'.predictor = cached[s]
             /\ work'.phase = IF cached[s] = NotFound THEN "delete" ELSE "call"
    BY <2>1, <2>2, <2>3 DEF WorkInv
  <2>4. CASE /\ cached[s] # NotFound /\ work'.phase = "update" /\ work'.predictor \in Predictor
             /\ work'.predictor.spec = cached[s].spec
    BY <2>1, <2>2, <2>4, PredictorFields DEF WorkInv
  <2>5. QED BY <1>5, <2>3, <2>4, BeginStep
<1>6. ASSUME NEW s \in Sources, NEW p \in Predictor \cup {NotFound}, Write(s, p) PROVE WorkInv'
  <2>1. CASE work.source = s
    <3>1. /\ work'.phase = work.phase /\ work'.source = s /\ ~ work'.current
          /\ work'.predictor = work.predictor
      BY <1>6, <2>1, WriteStep
    <3>2. work.phase # "idle"
      BY <2>1, WorkFields DEF WorkInv
    <3>3. QED BY <2>1, <3>1, <3>2 DEF WorkInv
  <2>2. CASE work.source # s
    <3>1. work' = work /\ api' = [api EXCEPT ![s] = p]
      BY <1>6, <2>2, WriteStep
    <3>2. work.phase # "idle" => api'[work.source] = api[work.source]
      BY <1>0, <2>2, <3>1 DEF WorkInv
    <3>3. QED BY <3>1, <3>2 DEF WorkInv
  <2>3. QED BY <2>1, <2>2
<1>7. CASE Others
  BY <1>7, <1>a, <1>b DEF Others, Connect, Restart, vars, kubeVars, InformerSync, Resync
<1>8. QED BY <1>1, <1>2, <1>3, <1>4, <1>5, <1>6, <1>7, NextCases

\* A vmodel that serves a spec for s goes on to, unless the reconcile of s calls.
LEMMA MeshServes ==
    ASSUME TypeOK, Silently \/ WithEvent
    PROVE  \A s, spec : (Owns(s)' <=> Owns(s)) /\ (Served(s, spec)' <=> Served(s, spec))
BY MeshStep DEF Owns, Served

LEMMA CallServesOthers ==
    ASSUME TypeOK, WorkInv, SetVModel \/ CheckVModel \/ HandlePredictorNotFound
    PROVE  \A t \in Sources \ {work.source} : \A spec :
             (Owns(t)' <=> Owns(t)) /\ (Served(t, spec)' <=> Served(t, spec))
<1>1. CASE UNCHANGED vmodel
  BY <1>1 DEF Owns, Served, Defined
<1>2. CASE ~ OwnedByOther(work.source) /\ (vmodel'.owner = work.source \/ vmodel' = NoVModel)
  BY <1>2 DEF OwnedByOther, Owns, Served, Defined
<1>3. CASE SetVModel \/ CheckVModel
  BY <1>1, <1>2, <1>3, CallStep DEF Set
<1>4. CASE HandlePredictorNotFound
  BY <1>1, <1>2, <1>4, DeleteStep DEF DeleteVModelOutcome
<1>5. QED BY <1>3, <1>4

\* A status that says that all is well is about to be written while it is so
\* (predictor_controller.go:145-202).
LEMMA NextUpdate == TypeOK /\ WorkInv /\ UpdateInv /\ [Next]_vars => UpdateInv'
<1> SUFFICES ASSUME TypeOK, WorkInv, UpdateInv, [Next]_vars PROVE UpdateInv'
  OBVIOUS
<1>a. ASSUME work' = Idle PROVE UpdateInv'
  BY <1>a, WorkFields DEF UpdateInv
<1>1. CASE HandlePredictorNotFound
  BY <1>1, <1>a, DeleteStep
<1>2. CASE SetVModel \/ CheckVModel
  <2>1. CASE work' = Idle
    BY <1>a, <2>1
  <2>2. CASE work'.predictor.status.reason \in {"RuntimeUnhealthy", "InvalidPredictorSpec"}
    BY <2>2 DEF UpdateInv
  <2>3. CASE /\ Set(work.source, work.predictor) /\ work'.source = work.source
             /\ work'.predictor.spec = work.predictor.spec
             /\ work'.predictor.status = Answer(work.predictor)
    <3>1. work.predictor.status \in Status
      BY <1>2, CallStep, PredictorFields
    <3> DEFINE vm == vmodel'
               old == work.predictor.status
    <3>a. vm \in VModel \cup {NoVModel}
      BY <2>3 DEF Set
    <3> HIDE DEF vm, old
    <3>b. StatusFromVModel(old, vm, TRUE).transition = TransitionFrom(vm)
      BY <3>1, <3>a, StatusFields DEF old
    <3>2. work'.predictor.status.transition = TransitionFrom(vmodel')
      BY <2>3, <3>b DEF Answer, vm, old
    <3>3. TransitionFrom(vmodel') = "UpToDate" => vmodel'.active = vmodel'.target
      <4>1. vmodel' # NoVModel
        BY <2>3, VModelFields DEF Set
      <4>2. CASE vmodel'.active # vmodel'.target
        <5>1. VModelStatus(vmodel') \in {"TRANSITION_FAILED", "TRANSITIONING"}
          BY <4>1, <4>2 DEF VModelStatus
        <5>2. TransitionStatusMap(VModelStatus(vmodel')) \in {"InProgress", "BlockedByFailedLoad"}
          BY <5>1 DEF TransitionStatusMap
        <5>3. QED BY <5>2 DEF TransitionFrom
      <4>3. QED BY <4>2
    <3>4. Served(work.source, work.predictor.spec)'
      BY <2>3, VModelFields DEF Set, Served, Owns, Defined
    <3>6. vmodel'.target = work'.predictor.spec
      BY <2>3 DEF Set
    <3>7. QED BY <3>2, <3>3, <3>4, <3>6 DEF UpdateInv
  <2>4. QED BY <1>2, <2>1, <2>2, <2>3, CallStep DEF CallEnds
<1>3. CASE UpdateStatus
  BY <1>3, <1>a, UpdateStep
<1>4. CASE Silently \/ WithEvent
  <2>1. /\ UNCHANGED work /\ vmodel'.owner = vmodel.owner /\ vmodel'.target = vmodel.target
        /\ vmodel.active = vmodel.target => vmodel'.active = vmodel.active
        /\ Defined' <=> Defined
    BY <1>4, MeshStep
  <2>2. QED BY <2>1 DEF UpdateInv, Served, Owns
<1>5. ASSUME NEW s \in Sources, Begin(s) PROVE UpdateInv'
  BY <1>5, BeginStep DEF UpdateInv
<1>6. ASSUME NEW s \in Sources, NEW p \in Predictor \cup {NotFound}, Write(s, p) PROVE UpdateInv'
  BY <1>6, WriteStep DEF UpdateInv, Served, Owns, Defined
<1>7. CASE Others
  <2>1. work' = Idle \/ UNCHANGED <<work, vmodel>>
    BY <1>7 DEF Others, Connect, Restart, vars, kubeVars, InformerSync, Resync
  <2>2. QED BY <1>a, <2>1 DEF UpdateInv, Served, Owns, Defined
<1>8. QED BY <1>1, <1>2, <1>3, <1>4, <1>5, <1>6, <1>7, NextCases

-----------------------------------------------------------------------------
(* The vmodel follows the spec *)

\* What is so for a name that is not queued stays so while its copy, the reconcile
\* and what the vmodel serves stay.
LEMMA SpecFrame ==
    ASSUME SpecInv, UNCHANGED <<cached, fresh, work>>, queue \subseteq queue',
           \A s, spec : (Owns(s)' <=> Owns(s)) /\ (Served(s, spec)' <=> Served(s, spec))
    PROVE  SpecInv'
BY DEF SpecInv, AtWorkOn, DoneWith, ValidCopy, ValidatePredictor

\* The reconcile ends.
LEMMA SpecDone ==
    ASSUME WorkInv, SpecInv, work.phase # "idle", work' = Idle, UNCHANGED cached, queue \subseteq queue',
           NEW s \in Sources, s = work.source,
           \A t \in Sources \ {s} : \A spec :
             (Owns(t)' <=> Owns(t)) /\ (Served(t, spec)' <=> Served(t, spec)),
           s \in queue' \/ DoneWith(s)'
    PROVE  SpecInv'
<1>1. work'.source \notin Sources
  BY WorkFields
<1> SUFFICES ASSUME NEW t \in Sources \ queue' PROVE DoneWith(t)'
  BY <1>1 DEF SpecInv
<1>2. CASE t = s
  BY <1>2
<1>3. CASE t # s
  BY <1>3 DEF SpecInv, DoneWith, ValidCopy, ValidatePredictor
<1>4. QED BY <1>2, <1>3

\* A name that is not queued is the running reconcile's or is done with, whatever is
\* read before a change and used after it (predictor_controller.go:93-307).
LEMMA NextSpec == TypeOK /\ WorkInv /\ SpecInv /\ [Next]_vars => SpecInv'
<1> SUFFICES ASSUME TypeOK, WorkInv, SpecInv, [Next]_vars PROVE SpecInv'
  OBVIOUS
<1>1. CASE HandlePredictorNotFound
  <2>1. PICK s \in Sources : s = work.source
    BY <1>1, DeleteStep
  <2>2. /\ work.phase = "delete" /\ work.predictor = NotFound
        /\ work' = Idle /\ UNCHANGED cached /\ queue \subseteq queue'
    BY <1>1, DeleteStep
  <2>3. ASSUME s \notin queue' PROVE DoneWith(s)'
    <3>1. cached[s] = NotFound
      BY <2>1, <2>2, <2>3 DEF SpecInv, AtWorkOn
    <3>2. ASSUME s \notin InferenceServices PROVE ~ Owns(s)'
      <4>1. vmodel' = DeleteVModelOutcome(s)
        BY <1>1, <2>1, <2>3, <3>2, DeleteStep
      <4>2. QED BY <4>1 DEF DeleteVModelOutcome, OwnedByOther, Owns, Defined
    <3>3. QED BY <2>2, <3>1, <3>2 DEF DoneWith, ValidCopy
  <2>4. QED BY <1>1, <2>1, <2>2, <2>3, SpecDone, CallServesOthers
<1>2. CASE SetVModel \/ CheckVModel
  <2>1. PICK s \in Sources : s = work.source
    BY <1>2, CallStep
  <2>2. PICK p \in Predictor : p = work.predictor
    BY <1>2, CallStep
  <2>3. work.phase = "call" /\ UNCHANGED <<cached, fresh>> /\ queue \subseteq queue' /\ CallEnds(s, p)
    BY <1>2, <2>1, <2>2, CallStep
  <2>4. \A t \in Sources \ {s} : \A spec :
          (Owns(t)' <=> Owns(t)) /\ (Served(t, spec)' <=> Served(t, spec))
    BY <1>2, <2>1, CallServesOthers
  <2>5. ASSUME s \notin queue' PROVE p = cached[s] /\ (work.current <=> s \in fresh) /\ cached[s] # NotFound
    BY <2>1, <2>2, <2>3, <2>5, PredictorFields DEF SpecInv, AtWorkOn
  <2>6. Set(s, p) => Served(s, p.spec)'
    BY VModelFields DEF Set, Served, Owns, Defined
  <2>7. CASE work' = Idle
    <3>1. ASSUME s \notin queue' PROVE DoneWith(s)'
      <4>1. ValidatePredictor(p) => Set(s, p)
        BY <2>3, <2>7, <3>1, WorkFields DEF CallEnds
      <4>2. QED BY <2>3, <2>5, <2>6, <3>1, <4>1 DEF DoneWith, ValidCopy
    <3>2. QED BY <2>1, <2>3, <2>4, <2>7, <3>1, SpecDone
  <2>8. CASE work' # Idle
    <3>1. /\ work'.phase = "update" /\ work'.source = s /\ work'.current = work.current
          /\ work'.predictor.spec = p.spec
          /\ \/ ValidatePredictor(p) => work'.retry \/ WaitingForRuntime(work'.predictor.status)
             \/ Set(s, p)
      BY <2>3, <2>8 DEF CallEnds
    <3>2. ASSUME s \notin queue' PROVE AtWorkOn(s)'
      <4>1. ValidatePredictor(cached[s]) =>
              Served(s, cached[s].spec)' \/ work'.retry \/ WaitingForRuntime(work'.predictor.status)
        BY <2>3, <2>5, <2>6, <3>1, <3>2 DEF Served
      <4>2. QED BY <2>3, <2>5, <3>1, <3>2, <4>1 DEF AtWorkOn, ValidatePredictor
    <3>3. ASSUME NEW t \in Sources \ queue', t # s PROVE DoneWith(t)'
      BY <2>1, <2>3, <2>4, <3>3 DEF SpecInv, DoneWith, ValidCopy, ValidatePredictor
    <3>4. QED BY <3>1, <3>2, <3>3 DEF SpecInv
  <2>9. QED BY <2>7, <2>8
<1>3. CASE UpdateStatus
  <2>1. PICK s \in Sources : s = work.source
    BY <1>3, UpdateStep
  <2>2. /\ work.phase = "update" /\ work' = Idle /\ UNCHANGED <<cached, vmodel>> /\ queue \subseteq queue'
        /\ s \in queue' \/ (~ work.retry /\ ~ MustPoll(work.predictor.status))
    BY <1>3, <2>1, UpdateStep
  <2>3. \A t, spec : (Owns(t)' <=> Owns(t)) /\ (Served(t, spec)' <=> Served(t, spec))
    BY <2>2 DEF Owns, Served, Defined
  <2>4. ASSUME s \notin queue' PROVE DoneWith(s)'
    BY <2>1, <2>2, <2>3, <2>4 DEF SpecInv, AtWorkOn, DoneWith, ValidCopy, ValidatePredictor, MustPoll
  <2>5. QED BY <2>1, <2>2, <2>3, <2>4, SpecDone
<1>4. CASE Silently \/ WithEvent
  BY <1>4, MeshStep, MeshServes, SpecFrame
<1>5. ASSUME NEW s \in Sources, Begin(s) PROVE SpecInv'
  <2>1. /\ UNCHANGED <<cached, fresh, vmodel>> /\ work = Idle /\ queue' = queue \ {s}
        /\ work'.source = s /\ (work'.current <=> s \in fresh)
    BY <1>5, BeginStep
  <2>2. AtWorkOn(s)'
    BY <1>5, <2>1, BeginStep DEF AtWorkOn, ValidatePredictor
  <2>3. ASSUME NEW t \in Sources \ queue', t # s PROVE DoneWith(t)'
    <3>1. t \notin queue /\ work.source # t
      BY <2>1, <2>3, WorkFields
    <3>2. DoneWith(t)
      BY <3>1 DEF SpecInv
    <3>3. QED BY <2>1, <3>2 DEF DoneWith, ValidCopy, ValidatePredictor, Owns, Served, Defined
  <2>4. QED BY <2>1, <2>2, <2>3 DEF SpecInv
<1>6. ASSUME NEW s \in Sources, NEW p \in Predictor \cup {NotFound}, Write(s, p) PROVE SpecInv'
  <2>1. /\ UNCHANGED <<cached, queue, vmodel>> /\ fresh' = fresh \ {s}
        /\ work'.phase = work.phase /\ work'.source = work.source
        /\ work'.predictor = work.predictor /\ work'.retry = work.retry
        /\ work'.current = IF work.source = s THEN FALSE ELSE work.current
    BY <1>6, WriteStep
  <2>2. \A t, spec : (Owns(t)' <=> Owns(t)) /\ (Served(t, spec)' <=> Served(t, spec))
    BY <2>1 DEF Owns, Served, Defined
  <2>3. ASSUME NEW t \in Sources \ queue', work.source = t PROVE AtWorkOn(t)'
    <3>1. AtWorkOn(t)
      BY <2>1, <2>3 DEF SpecInv
    <3>2. work'.current <=> t \in fresh'
      BY <2>1, <2>3, <3>1 DEF AtWorkOn
    <3>3. QED BY <2>1, <2>2, <3>1, <3>2 DEF AtWorkOn, ValidatePredictor
  <2>4. ASSUME NEW t \in Sources \ queue', work.source # t PROVE DoneWith(t)'
    BY <2>1, <2>2, <2>4 DEF SpecInv, DoneWith, ValidCopy, ValidatePredictor
  <2>5. QED BY <2>1, <2>3, <2>4 DEF SpecInv
<1>7. CASE Others
  <2>1. CASE Restart
    <3>1. /\ cached' = api /\ UNCHANGED vmodel /\ work'.source = "none"
          /\ queue' = {s \in Sources : Exists(s) \/ (Defined /\ vmodel.owner = s)}
      BY <2>1, WorkFields DEF Restart
    <3>2. ASSUME NEW s \in Sources \ queue' PROVE DoneWith(s)'
      <4>1. api[s] = NotFound /\ ~ Owns(s)
        BY <3>1, <3>2 DEF Exists, Owns
      <4>2. QED BY <3>1, <4>1 DEF DoneWith, ValidCopy, Owns, Defined
    <3>3. QED BY <3>1, <3>2 DEF SpecInv
  <2>2. ASSUME Connect \/ (UNCHANGED vars) \/ \E s \in Sources : Resync(s) PROVE SpecInv'
    <3>1. UNCHANGED <<cached, fresh, work, vmodel>> /\ queue \subseteq queue'
      BY <2>2 DEF Connect, vars, kubeVars, Resync
    <3>2. \A t, spec : (Owns(t)' <=> Owns(t)) /\ (Served(t, spec)' <=> Served(t, spec))
      BY <3>1 DEF Owns, Served, Defined
    <3>3. QED BY <3>1, <3>2, SpecFrame
  <2>3. ASSUME NEW s \in Sources, InformerSync(s) PROVE SpecInv'
    <3>1. /\ UNCHANGED <<work, vmodel>> /\ queue' = queue \cup {s}
          /\ \A t \in Sources \ {s} : cached'[t] = cached[t] /\ (t \in fresh' <=> t \in fresh)
      BY <2>3 DEF InformerSync, TypeOK
    <3>2. \A t, spec : (Owns(t)' <=> Owns(t)) /\ (Served(t, spec)' <=> Served(t, spec))
      BY <3>1 DEF Owns, Served, Defined
    <3>3. ASSUME NEW t \in Sources \ queue' PROVE (AtWorkOn(t)' <=> AtWorkOn(t)) /\ (DoneWith(t)' <=> DoneWith(t))
      BY <3>1, <3>2, <3>3 DEF AtWorkOn, DoneWith, ValidCopy, ValidatePredictor
    <3>4. QED BY <3>1, <3>3 DEF SpecInv
  <2>4. QED BY <1>7, <2>1, <2>2, <2>3 DEF Others
<1>8. QED BY <1>1, <1>2, <1>3, <1>4, <1>5, <1>6, <1>7, NextCases

-----------------------------------------------------------------------------
(* The status follows the vmodel *)

\* The end of a load that nobody is told of is polled for: while a status shows no
\* load and waits for no pod, no active model is being loaded.
LEMMA NotLoading ==
    ASSUME NEW status \in Status, vmodel \in VModel \cup {NoVModel},
           ~ MustPoll(StatusFromVModel(status, vmodel, TRUE))
    PROVE  vmodel.activeStatus.status # "LOADING"
<1>1. vmodel.activeStatus.status = "LOADING" => StatusFromVModel(status, vmodel, TRUE).active = "Loading"
  BY StatusFields
<1>2. QED BY <1>1 DEF MustPoll

\* With pods that stay, model-mesh changes a vmodel without an event only by the end
\* of a load.
LEMMA SilentStep ==
    ASSUME TypeOK, pods, ~ Outages, Silently
    PROVE  /\ pods' /\ UNCHANGED queue
           /\ \/ vmodel.activeStatus.status = "LOADING" /\ vmodel'.targetStatus = vmodel.targetStatus
              \/ vmodel'.targetStatus.status = "LOADED"
<1>1. LoadCompletes /\ UNCHANGED queue
  BY DEF Silently, PodsGo, PodsCome
<1>2. pods' /\ LoadEnds(Quiet("LOADED")) /\ ModelMeshTypeOK
  BY <1>1 DEF LoadCompletes, TypeOK
<1>3. Quiet("LOADED") \in ModelStatus /\ Quiet("LOADED").status = "LOADED"
  BY StatusTypes
<1>4. QED BY <1>1, <1>2, <1>3, LoadEndsFields

\* The status that is due for s, for as long as vmodel and copy are the same.
StatusRight(s) ==
    IF work.source = s
      THEN work.phase = "update" /\ ~ work.retry /\ ~ MustPoll(work.predictor.status)
             => work.predictor.status = StatusDue(s)
      ELSE ~ Changed(cached[s].status, StatusDue(s)) /\ ~ MustPoll(cached[s].status)

\* A current copy of a valid resource that is not queued has the status that is due, or
\* it is about to be written, however a load ends between the call and the write
\* (predictor_controller.go:145-221).
LEMMA NextStatus ==
    ASSUME TypeOK, WorkInv, SpecInv, StatusInv, ~ Outages, [Next]_vars, TypeOK', SpecInv'
    PROVE  StatusInv'
<1>0. /\ pods /\ vmodel \in VModel \cup {NoVModel} /\ fresh \subseteq Sources
      /\ fresh' \subseteq Sources
      /\ cached \in [Sources -> Predictor \cup {NotFound}]
      /\ \A t \in fresh : cached[t] = api[t]
  BY DEF StatusInv, TypeOK, ModelMeshTypeOK
<1>r. \A t \in fresh \ queue : ValidCopy(cached[t]) /\ vmodel.targetStatus.status # "LOADED" => StatusRight(t)
  BY DEF StatusInv, StatusRight
<1>s. ASSUME pods',
             \A t \in fresh' \ queue' :
               ValidCopy(cached'[t]) /\ vmodel'.targetStatus.status # "LOADED" => StatusRight(t)'
      PROVE  StatusInv'
  <2>1. \A t \in fresh' \ queue' : ValidCopy(cached[t])' = ValidCopy(cached'[t])
    BY DEF ValidCopy, ValidatePredictor
  <2>2. QED BY <1>s, <2>1 DEF StatusInv, StatusRight
\* A name that neither the reconcile nor the informer touches, with the same vmodel.
<1>t. ASSUME NEW t \in Sources, t \in fresh \ queue, ValidCopy(cached[t]), vmodel.targetStatus.status # "LOADED",
             cached'[t] = cached[t], UNCHANGED vmodel, work.source # t, work'.source # t
      PROVE  StatusRight(t)'
  <2>1. ~ Changed(cached[t].status, StatusDue(t)) /\ ~ MustPoll(cached[t].status)
    BY <1>r, <1>t DEF StatusRight
  <2>2. StatusDue(t)' = StatusDue(t)
    BY <1>t DEF StatusDue
  <2>3. QED BY <1>t, <2>1, <2>2 DEF StatusRight
<1>1. CASE HandlePredictorNotFound \/ SetVModel \/ CheckVModel
  <2>1. PICK s \in Sources : s = work.source
    BY <1>1, DeleteStep, CallStep
  <2>2. UNCHANGED <<cached, fresh, pods>> /\ queue \subseteq queue' /\ work'.source \in {s, "none"}
    BY <1>1, <2>1, DeleteStep, CallStep, WorkFields DEF CallEnds
  <2>3. ASSUME NEW t \in fresh' \ queue', ValidCopy(cached'[t]), vmodel'.targetStatus.status # "LOADED", t # s
        PROVE  StatusRight(t)'
    <3>1. Owns(t) /\ DoneWith(t)
      BY <1>0, <2>1, <2>2, <2>3 DEF SpecInv, DoneWith, Served
    <3>2. UNCHANGED vmodel
      <4>1. OwnedByOther(s)
        BY <2>3, <3>1 DEF Owns, OwnedByOther
      <4>2. QED BY <1>1, <2>1, <4>1, DeleteStep, CallStep DEF DeleteVModelOutcome
    <3>3. work'.source # t /\ work.source # t /\ t \in Sources
      BY <1>0, <2>1, <2>2, <2>3
    <3>4. QED BY <1>t, <2>2, <2>3, <3>2, <3>3
  <2>4. ASSUME s \in fresh' \ queue', ValidCopy(cached'[s]) PROVE StatusRight(s)'
    <3>1. AtWorkOn(s)
      BY <2>1, <2>2, <2>4 DEF SpecInv
    <3>2. CASE HandlePredictorNotFound
      <4>1. cached[s] = NotFound
        BY <2>1, <3>1, <3>2, DeleteStep DEF AtWorkOn
      <4>2. QED BY <2>2, <2>4, <4>1 DEF ValidCopy
    <3>3. CASE SetVModel \/ CheckVModel
      <4>1. PICK p \in Predictor : p = work.predictor
        BY <3>3, CallStep
      <4>2. work.phase = "call" /\ CallEnds(s, p) /\ p = cached[s]
        BY <2>1, <3>1, <3>3, <4>1, CallStep DEF AtWorkOn
      <4>3. ValidatePredictor(p) /\ StatusDue(s)' = Answer(p)
        BY <2>2, <2>4, <4>2 DEF ValidCopy, StatusDue, Answer
      <4>4. CASE work' = Idle
        <5>1. Set(s, p) /\ ~ Changed(p.status, Answer(p)) /\ ~ MustPoll(Answer(p))
          BY <2>4, <4>2, <4>3, <4>4, WorkFields DEF CallEnds
        <5>2. p.status \in Status /\ Answer(p) \in Status
          BY <5>1, PredictorFields, StatusFields DEF Answer, Set
        <5>3. ~ MustPoll(p.status)
          BY <5>1, <5>2, SamePolls
        <5>4. work'.source # s
          BY <4>4, WorkFields
        <5>5. QED BY <2>2, <4>2, <4>3, <5>1, <5>3, <5>4 DEF StatusRight
      <4>5. CASE work' # Idle
        <5>1. /\ work'.source = s
              /\ work'.retry \/ work'.predictor.status = Answer(p)
          BY <1>0, <2>4, <4>2, <4>3, <4>5 DEF CallEnds
        <5>2. QED BY <4>3, <5>1 DEF StatusRight
      <4>6. QED BY <4>4, <4>5
    <3>4. QED BY <1>1, <3>2, <3>3
  <2>5. QED BY <1>0, <1>s, <2>2, <2>3, <2>4
<1>3. CASE UpdateStatus
  <2>1. PICK s \in Sources : s = work.source
    BY <1>3, UpdateStep
  <2>2. /\ work.phase = "update" /\ work' = Idle /\ UNCHANGED <<cached, vmodel, pods>> /\ queue \subseteq queue'
        /\ work'.source # s /\ fresh' \subseteq fresh /\ work'.source \notin Sources
    BY <1>3, <2>1, UpdateStep, WorkFields
  <2>3. ASSUME NEW t \in fresh' \ queue', ValidCopy(cached'[t]), vmodel'.targetStatus.status # "LOADED", t # s
        PROVE  StatusRight(t)'
    BY <1>0, <1>t, <2>1, <2>2, <2>3
  <2>4. ASSUME s \in fresh' \ queue', ValidCopy(cached'[s]), vmodel'.targetStatus.status # "LOADED"
        PROVE  StatusRight(s)'
    <3> DEFINE status == work.predictor.status
    <3>1. /\ ~ work.retry /\ ~ MustPoll(status)
          /\ UNCHANGED api /\ api' = [api EXCEPT ![s].status = status]
      BY <1>3, <2>1, <2>4, UpdateStep
    <3>2. cached[s] = api[s] /\ cached[s] \in Predictor
      BY <1>0, <2>2, <2>4 DEF ValidCopy
    <3>3. status = cached[s].status
      <4>1. api[s] = [api[s] EXCEPT !.status = status]
        BY <3>1 DEF TypeOK
      <4>2. [api[s] EXCEPT !.status = status].status = status
        BY <3>2 DEF Predictor
      <4>3. QED BY <3>2, <4>1, <4>2
    <3>4. status = StatusDue(s)
      BY <1>r, <2>1, <2>2, <2>4, <3>1 DEF StatusRight
    <3>5. StatusDue(s)' = StatusDue(s)
      BY <2>2 DEF StatusDue
    <3>6. ~ Changed(cached[s].status, StatusDue(s))
      BY <3>3, <3>4 DEF Changed
    <3>7. QED BY <2>2, <3>1, <3>3, <3>5, <3>6 DEF StatusRight
  <2>5. QED BY <1>0, <1>s, <2>2, <2>3, <2>4
<1>4. CASE WithEvent
  <2>1. UNCHANGED <<cached, fresh>> /\ queue' = queue \cup {vmodel.owner} /\ pods'
    BY <1>4 DEF WithEvent, kubeVars, ModelChanges, Promote
  <2>2. ASSUME NEW t \in fresh' \ queue', ValidCopy(cached'[t]), vmodel'.targetStatus.status # "LOADED"
        PROVE  StatusRight(t)'
    <3>1. ~ Owns(t) /\ UNCHANGED work
      BY <1>4, <2>1, <2>2 DEF Owns, WithEvent
    <3>2. work.source = t /\ (work.phase = "update" => ValidatePredictor(cached[t]) /\ AtWorkOn(t))
      BY <1>0, <2>1, <2>2, <3>1 DEF SpecInv, DoneWith, Served, ValidCopy
    <3>3. CASE work.phase = "update" /\ ~ work.retry /\ ~ MustPoll(work.predictor.status)
      BY <3>1, <3>2, <3>3 DEF AtWorkOn, Served, MustPoll
    <3>4. QED BY <3>1, <3>2, <3>3 DEF StatusRight
  <2>3. QED BY <1>s, <2>1, <2>2
<1>5. CASE Silently
  <2>1. /\ UNCHANGED <<cached, fresh, work, queue>> /\ pods'
        /\ \/ vmodel.activeStatus.status = "LOADING" /\ vmodel'.targetStatus = vmodel.targetStatus
           \/ vmodel'.targetStatus.status = "LOADED"
    BY <1>0, <1>5, SilentStep, MeshStep
  <2>2. ASSUME NEW t \in fresh' \ queue', ValidCopy(cached'[t]), vmodel'.targetStatus.status # "LOADED"
        PROVE  StatusRight(t)'
    <3>1. /\ vmodel.activeStatus.status = "LOADING" /\ vmodel.targetStatus.status # "LOADED"
          /\ cached[t].status \in Status /\ t \in fresh \ queue /\ ValidCopy(cached[t])
      BY <1>0, <2>1, <2>2, PredictorFields
    <3>2. MustPoll(StatusDue(t)) /\ StatusDue(t) \in Status
      BY <1>0, <3>1, NotLoading, StatusFields DEF StatusDue
    <3>3. StatusRight(t)
      BY <1>r, <3>1
    <3>4. CASE work.source # t
      BY <3>1, <3>2, <3>3, <3>4, SamePolls DEF StatusRight
    <3>5. CASE work.source = t
      BY <2>1, <3>2, <3>3, <3>5 DEF StatusRight
    <3>6. QED BY <3>4, <3>5
  <2>3. QED BY <1>s, <2>1, <2>2
<1>6. ASSUME NEW s \in Sources, Begin(s) PROVE StatusInv'
  <2>1. /\ UNCHANGED <<cached, fresh, vmodel, pods>> /\ work.source = "none" /\ queue' = queue \ {s}
        /\ work'.source = s /\ (work'.phase = "update" => work'.retry)
    BY <1>6, BeginStep, WorkFields
  <2>2. StatusRight(s)'
    BY <2>1 DEF StatusRight
  <2>3. ASSUME NEW t \in fresh' \ queue', ValidCopy(cached'[t]), vmodel'.targetStatus.status # "LOADED", t # s
        PROVE  StatusRight(t)'
    BY <1>0, <1>t, <2>1, <2>3
  <2>4. QED BY <1>0, <1>s, <2>1, <2>2, <2>3
<1>7. ASSUME NEW s \in Sources, NEW p \in Predictor \cup {NotFound}, Write(s, p) PROVE StatusInv'
  <2>1. /\ UNCHANGED <<cached, queue, vmodel, pods>> /\ fresh' = fresh \ {s}
        /\ work'.source = work.source /\ (work.source # s => work' = work)
    BY <1>7, WriteStep
  <2>2. ASSUME NEW t \in fresh' \ queue', ValidCopy(cached'[t]), vmodel'.targetStatus.status # "LOADED"
        PROVE  StatusRight(t)'
    <3>1. t \in fresh \ queue /\ t # s /\ ValidCopy(cached[t]) /\ vmodel.targetStatus.status # "LOADED"
      BY <2>1, <2>2
    <3>2. CASE work.source # t
      BY <1>0, <1>t, <2>1, <3>1, <3>2
    <3>3. CASE work.source = t
      <4>1. StatusRight(t) /\ work' = work
        BY <1>r, <2>1, <3>1, <3>3
      <4>2. QED BY <2>1, <3>3, <4>1 DEF StatusRight, StatusDue
    <3>4. QED BY <3>2, <3>3
  <2>3. QED BY <1>0, <1>s, <2>1, <2>2
<1>8. CASE Others
  <2>1. CASE Restart
    <3>1. cached' = api /\ UNCHANGED pods /\ queue' = {s \in Sources : Exists(s) \/ (Defined /\ vmodel.owner = s)}
      BY <2>1 DEF Restart
    <3>2. \A t \in fresh' \ queue' : ~ ValidCopy(cached'[t])
      BY <1>0, <3>1 DEF Exists, ValidCopy
    <3>3. QED BY <1>0, <1>s, <3>1, <3>2
  <2>2. ASSUME Connect \/ (UNCHANGED vars) \/ \E s \in Sources : Resync(s) \/ InformerSync(s)
        PROVE  StatusInv'
    <3>1. /\ UNCHANGED <<work, vmodel, pods>> /\ queue \subseteq queue'
          /\ \A t \in fresh' \ queue' : t \in fresh /\ cached'[t] = cached[t]
      BY <1>0, <2>2 DEF Connect, vars, kubeVars, Resync, InformerSync
    <3>2. ASSUME NEW t \in fresh' \ queue', ValidCopy(cached'[t]), vmodel'.targetStatus.status # "LOADED"
          PROVE  StatusRight(t)'
      <4>1. StatusRight(t) /\ cached'[t] = cached[t]
        BY <1>r, <3>1, <3>2
      <4>2. QED BY <3>1, <4>1 DEF StatusRight, StatusDue
    <3>3. QED BY <1>0, <1>s, <3>1, <3>2
  <2>3. QED BY <1>8, <2>1, <2>2 DEF Others
<1>9. QED BY <1>1, <1>3, <1>4, <1>5, <1>6, <1>7, <1>8, NextCases

-----------------------------------------------------------------------------
(* The theorems *)

LEMMA InitReconciler == Init => TypeOK /\ ReconcilerInv
<1> SUFFICES ASSUME Init PROVE TypeOK /\ ReconcilerInv
  OBVIOUS
<1>1. /\ vmodel = NoVModel /\ pods \in {TRUE, ~ Outages} /\ api = [s \in Sources |-> NotFound] /\ cached = api
      /\ fresh = Sources /\ queue = {} /\ client = FALSE /\ work = Idle /\ writes = 0 /\ faults = 0
  BY DEF Init, ModelMeshInit
<1>2. TypeOK
  <2>1. pods \in BOOLEAN /\ client \in BOOLEAN
    BY <1>1
  <2>2. work \in Work
    BY <1>1, WorkFields
  <2>3. QED BY <1>1, <2>1, <2>2 DEF TypeOK, ModelMeshTypeOK
<1>3. work.phase = "idle" /\ work.source \notin Sources
  BY <1>1, WorkFields
<1>4. WorkInv /\ UpdateInv
  BY <1>1, <1>3 DEF WorkInv, UpdateInv
<1>5. SpecInv
  BY <1>1, <1>3 DEF SpecInv, DoneWith, ValidCopy, Owns, Defined
<1>6. Outages \/ StatusInv
  BY <1>1 DEF StatusInv, ValidCopy
<1>7. QED BY <1>2, <1>4, <1>5, <1>6 DEF ReconcilerInv

\* A name that is not queued is the running reconcile's or is done with, and the running
\* reconcile's copy is true to the API server or known to be out of date
\* (predictor_controller.go:93-407).
THEOREM ReconcilerInvariant == Spec => [](TypeOK /\ ReconcilerInv)
<1>1. ASSUME TypeOK, ReconcilerInv, [Next]_vars PROVE TypeOK' /\ ReconcilerInv'
  <2>1. WorkInv /\ UpdateInv /\ SpecInv
    BY <1>1 DEF ReconcilerInv
  <2>2. TypeOK' /\ WorkInv' /\ UpdateInv' /\ SpecInv'
    BY <1>1, <2>1, NextType, NextWork, NextUpdate, NextSpec
  <2>3. ~ Outages => StatusInv'
    BY <1>1, <2>1, <2>2, NextStatus DEF ReconcilerInv
  <2>4. QED BY <2>2, <2>3 DEF ReconcilerInv
<1>2. QED BY <1>1, InitReconciler, PTL DEF Spec

\* SettledHasSpec: a controller with nothing left to do has set the vmodel of every
\* valid Predictor and removed that of every Predictor that is gone, whatever calls
\* failed, copies were stale and restarts there were (predictor_controller.go:93-307).
THEOREM SpecsTakeEffect == Spec => []SettledHasSpec
<1>1. ASSUME TypeOK, ReconcilerInv PROVE SettledHasSpec
  <2> SUFFICES ASSUME Settled, NEW s \in Sources
               PROVE  /\ Valid(s) => Owns(s) /\ vmodel.target = api[s].spec
                      /\ ~ Exists(s) /\ s \notin InferenceServices => ~ Owns(s)
    BY DEF SettledHasSpec
  <2>1. queue = {} /\ fresh = Sources /\ work.source \notin Sources
    BY WorkFields DEF Settled
  <2>2. cached[s] = api[s]
    BY <1>1, <2>1 DEF TypeOK
  <2>3. DoneWith(s)
    BY <1>1, <2>1 DEF ReconcilerInv, SpecInv
  <2>4. QED BY <2>2, <2>3 DEF DoneWith, ValidCopy, Valid, Exists, Served
<1>2. QED BY <1>1, ReconcilerInvariant, PTL

\* SettledStatusTrue, with pods that stay: the status of a valid Predictor is the one
\* its vmodel calls for when the controller has nothing left to do, although no event
\* tells of the end of a load (predictor_controller.go:145-221, 309-407).
THEOREM StatusesAreTrue == Spec => [](~ Outages => SettledStatusTrue)
<1>1. ASSUME TypeOK, ReconcilerInv PROVE ~ Outages => SettledStatusTrue
  <2> SUFFICES ASSUME ~ Outages, Settled, NEW s \in Sources, Valid(s), vmodel.targetStatus.status # "LOADED"
               PROVE  ~ Changed(api[s].status, StatusFromVModel(api[s].status, vmodel, TRUE))
    BY DEF SettledStatusTrue
  <2>1. queue = {} /\ fresh = Sources /\ work.source \notin Sources
    BY WorkFields DEF Settled
  <2>2. cached[s] = api[s]
    BY <1>1, <2>1 DEF TypeOK
  <2>3. ValidCopy(cached[s])
    BY <2>2 DEF Valid, Exists, ValidCopy
  <2>4. StatusInv
    BY <1>1 DEF ReconcilerInv
  <2>5. ~ Changed(cached[s].status, StatusDue(s))
    BY <2>1, <2>3, <2>4 DEF StatusInv
  <2>6. QED BY <2>2, <2>5 DEF StatusDue
<1>2. QED BY <1>1, ReconcilerInvariant, PTL

\* UpToDateIsTrue: a status that says that all is well is only written while the vmodel
\* serves the current spec, however specs and vmodel change between read, call and
\* write (predictor_controller.go:145-202).
THEOREM UpToDateIsWrittenTrue == Spec => UpToDateIsTrue
<1>1. ASSUME TypeOK, ReconcilerInv, [Next]_vars
      PROVE  [\A s \in Sources :
                (/\ work.phase = "update" /\ work' = Idle
                 /\ api'[s].status # api[s].status
                 /\ api'[s].status.transition = "UpToDate"
                 /\ api'[s].status.reason \notin {"RuntimeUnhealthy", "InvalidPredictorSpec"})
                => Owns(s) /\ vmodel.active = api'[s].spec]_vars
  <2> SUFFICES ASSUME NEW s \in Sources, work.phase = "update", work' = Idle,
                      api'[s].status # api[s].status,
                      api'[s].status.transition = "UpToDate",
                      api'[s].status.reason \notin {"RuntimeUnhealthy", "InvalidPredictorSpec"}
               PROVE  Owns(s) /\ vmodel.active = api'[s].spec
    OBVIOUS
  <2>1. WorkInv /\ UpdateInv /\ api \in [Sources -> Predictor \cup {NotFound}]
    BY <1>1 DEF ReconcilerInv, TypeOK
  <2>2. CASE UpdateStatus
    <3> DEFINE status == work.predictor.status
    <3>1. /\ work.source \in Sources /\ work.current
          /\ api' = [api EXCEPT ![work.source].status = status]
      BY <1>1, <2>1, <2>2, UpdateStep
    <3>2. s = work.source
      BY <2>1, <3>1
    <3>3. api[s] \in Predictor /\ api[s].spec = work.predictor.spec
      BY <2>1, <3>1, <3>2 DEF WorkInv
    <3>4. api'[s] = [api[s] EXCEPT !.status = status]
      BY <2>1, <3>1, <3>2
    <3>5. api'[s].status = status /\ api'[s].spec = work.predictor.spec
      BY <3>3, <3>4 DEF Predictor
    <3>6. QED BY <2>1, <3>2, <3>5 DEF UpdateInv, Served
  <2>3. CASE ~ UpdateStatus
    <3>1. UNCHANGED api \/ \E t \in Sources : \E p \in Predictor \cup {NotFound} : Write(t, p)
      <4>1. CASE HandlePredictorNotFound
        BY <1>1, <2>1, <4>1, DeleteStep
      <4>2. CASE SetVModel \/ CheckVModel
        BY <1>1, <2>1, <4>2, CallStep
      <4>3. CASE Silently \/ WithEvent
        BY <1>1, <4>3, MeshStep
      <4>4. CASE \E t \in Sources : Begin(t)
        BY <1>1, <4>4, BeginStep
      <4>5. CASE Others
        BY <4>5 DEF Others, Connect, Restart, vars, kubeVars, InformerSync, Resync
      <4>6. QED BY <1>1, <2>3, <4>1, <4>2, <4>3, <4>4, <4>5, NextCases
    <3>2. ASSUME NEW t \in Sources, NEW p \in Predictor \cup {NotFound}, Write(t, p) PROVE FALSE
      BY <1>1, <3>2, WriteStep, WorkFields
    <3>3. QED BY <3>1, <3>2
  <2>4. QED BY <2>2, <2>3
<1>2. QED BY <1>1, ReconcilerInvariant, PTL DEF Spec, UpToDateIsTrue

=============================================================================

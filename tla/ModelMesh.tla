------------------------------ MODULE ModelMesh ------------------------------
(***************************************************************************)
(* The model-mesh cluster as the predictor controller sees it through      *)
(* SetVModel, GetVModelStatus and DeleteVModel: one vmodel, an alias that  *)
(* serves its active model while its target model loads.  model-mesh is a  *)
(* program of its own; only what proto/mmesh/model-mesh-external.proto     *)
(* promises is modelled here.                                              *)
(*                                                                         *)
(* A concrete model is named by the Predictor spec it was made from: the   *)
(* controller names it by a hash of the spec.                              *)
(***************************************************************************)
CONSTANTS
    Sources,        \* the source ids, which are the owners of vmodels
    Specs,          \* the Predictor specs
    LoadErrors,     \* the errors that loads meet, of AllErrors
    Outages         \* whether pods come and go

\* "load": the runtime refused the model.  The others are model-mesh's "no
\* running instances that meet the label requirements": no pod of a supporting
\* runtime is up, no runtime supports the type, no runtime has the name.
AllErrors == {"load", "noHome", "noRuntime", "unknownRuntime"}

ASSUME ModelMeshAssumption ==
    /\ "none" \notin Sources /\ "none" \notin Specs
    /\ LoadErrors \subseteq AllErrors
    /\ Outages \in BOOLEAN

VARIABLES
    vmodel,     \* the vmodel, NoVModel if there is none
    pods        \* some model-mesh pod has an address

-----------------------------------------------------------------------------
\* A ModelStatusInfo: the status and the first of its errors.
ModelStatus ==
    [status : {"NOT_FOUND", "NOT_LOADED", "LOADING", "LOADED", "LOADING_FAILED"},
     error : AllErrors \cup {"none"}]

Quiet(status) == [status |-> status, error |-> "none"]

Failed(error) == [status |-> "LOADING_FAILED", error |-> error]

NoVModel == [owner |-> "none", active |-> "none", target |-> "none",
             activeStatus |-> Quiet("NOT_FOUND"), targetStatus |-> Quiet("NOT_FOUND")]

VModel == [owner : Sources, active : Specs, target : Specs,
           activeStatus : ModelStatus, targetStatus : ModelStatus]

Defined == vmodel # NoVModel

ModelMeshTypeOK ==
    /\ vmodel \in VModel \cup {NoVModel}
    /\ pods \in BOOLEAN

ModelMeshInit ==
    /\ vmodel = NoVModel
    /\ pods \in {TRUE, ~ Outages}

\* A vmodel in a steady state: the target is the active model.
Steady(s, spec, status) ==
    [owner |-> s, active |-> spec, target |-> spec,
     activeStatus |-> status, targetStatus |-> Quiet("NOT_FOUND")]

\* The VModelStatus of a vmodel.
VModelStatus(vm) ==
    CASE vm = NoVModel -> "NOT_FOUND"
      [] vm # NoVModel /\ vm.active = vm.target -> "DEFINED"
      [] vm # NoVModel /\ vm.active # vm.target ->
           IF vm.targetStatus.status = "LOADING_FAILED" THEN "TRANSITION_FAILED"
                                                        ELSE "TRANSITIONING"

-----------------------------------------------------------------------------
(* The calls. *)

\* What a request to load leads to: the model is being loaded, or there is
\* nowhere to load it.
LoadOutcomes == {Quiet("LOADING")} \cup {Failed(e) : e \in LoadErrors \ {"load"}}

\* What becomes of a model that is in status st when its vmodel is set to it.
Ensured(st, loadNow) ==
    IF loadNow /\ st.status \in {"NOT_LOADED", "LOADING_FAILED"} THEN LoadOutcomes ELSE {st}

\* The vmodels that SetVModel may leave for an owner that may set it.
SetVModelOutcomes(s, spec, loadNow) ==
    IF ~ Defined
      THEN {Steady(s, spec, st) : st \in Ensured(Quiet("NOT_LOADED"), loadNow)}
    ELSE IF vmodel.active = spec
      THEN {Steady(s, spec, st) : st \in Ensured(vmodel.activeStatus, loadNow)}
    ELSE IF vmodel.target = spec
      THEN {[vmodel EXCEPT !.targetStatus = st] : st \in Ensured(vmodel.targetStatus, loadNow)}
    ELSE IF ~ loadNow /\ vmodel.activeStatus.status = "NOT_LOADED"
      THEN {Steady(s, spec, Quiet("NOT_LOADED"))}
    ELSE {[vmodel EXCEPT !.target = spec, !.targetStatus = st] : st \in LoadOutcomes}

\* A vmodel of another owner is refused with ALREADY_EXISTS.
OwnedByOther(s) == Defined /\ vmodel.owner # s

\* GetVModelStatus answers "not found" for a vmodel of another owner.
GetVModelStatus(s) == IF OwnedByOther(s) THEN NoVModel ELSE vmodel

\* DeleteVModel has no effect on a vmodel of another owner.
DeleteVModelOutcome(s) == IF OwnedByOther(s) THEN vmodel ELSE NoVModel

-----------------------------------------------------------------------------
(* What happens by itself. *)

\* The status of a model that is being loaded becomes st.
LoadEnds(st) ==
    \/ /\ vmodel.activeStatus.status = "LOADING"
       /\ vmodel' = [vmodel EXCEPT !.activeStatus = st]
    \/ /\ vmodel.targetStatus.status = "LOADING"
       /\ vmodel' = [vmodel EXCEPT !.targetStatus = st]

\* A load completes; the records in etcd do not change.
LoadCompletes ==
    /\ pods
    /\ LoadEnds(Quiet("LOADED"))
    /\ UNCHANGED pods

\* A load that is tried again may carry the error of the last try.
Retried(st) == {[status |-> "LOADING", error |-> e] : e \in {"none"} \cup ({st.error} \cap {"load"})}

\* A load fails, or is tried again, or an active model is put out of memory
\* or, because it is used, into it: its record changes.
ModelChanges ==
    /\ pods
    /\ UNCHANGED pods
    /\ \/ \E e \in LoadErrors : LoadEnds(Failed(e))
       \/ /\ vmodel.targetStatus.status = "LOADING_FAILED"
          /\ \E st \in Retried(vmodel.targetStatus) :
               vmodel' = [vmodel EXCEPT !.targetStatus = st]
       \/ /\ vmodel.activeStatus.status \in {"LOADING_FAILED", "NOT_LOADED"}
          /\ \E st \in Retried(vmodel.activeStatus) :
               vmodel' = [vmodel EXCEPT !.activeStatus = st]
       \/ /\ vmodel.activeStatus.status = "LOADED"
          /\ vmodel' = [vmodel EXCEPT !.activeStatus = Quiet("NOT_LOADED")]

\* The loaded target becomes the active model.
Promote ==
    /\ pods
    /\ vmodel.targetStatus.status = "LOADED"
    /\ vmodel' = Steady(vmodel.owner, vmodel.target, vmodel.targetStatus)
    /\ UNCHANGED pods

\* The last pod goes, and with it every loaded copy.
PodsGo ==
    /\ Outages
    /\ pods
    /\ pods' = FALSE
    /\ vmodel' = IF Defined
                   THEN [vmodel EXCEPT !.activeStatus = Quiet("NOT_LOADED"),
                                       !.targetStatus = IF vmodel.active = vmodel.target
                                                          THEN @ ELSE Quiet("NOT_LOADED")]
                   ELSE vmodel

PodsCome ==
    /\ ~ pods
    /\ pods' = TRUE
    /\ UNCHANGED vmodel
==============================================================================

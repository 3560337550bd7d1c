---------------------- MODULE InferenceServiceRegistry ----------------------
(***************************************************************************)
(* InferenceServices as Predictors, src/pkg/predictor_source/              *)
(* inferenceservice_registry.go: the Predictor built from an               *)
(* InferenceService, its storage, and its status in both directions.       *)
(*                                                                         *)
(* An InferenceService is a record of                                      *)
(*   modelMesh   it carries the deployment mode annotation of ModelMesh    *)
(*   usesModel   spec.predictor.model is set                               *)
(*   frameworks  the framework fields of spec.predictor that are set       *)
(*   format, version, protocol, runtime   of the model (protocol also of   *)
(*               the framework)                                            *)
(*   annotation  the serving runtime annotation                            *)
(*   scheme, host   of the storageUri                                      *)
(*   path        storage.path is set                                       *)
(*   parameters  storage.parameters                                        *)
(* where None says that a field is not set.  Model path, schema path and   *)
(* storage key are left out: they go into the hash of the model, see       *)
(* ModelMesh.                                                              *)
(***************************************************************************)
EXTENDS Integers, Sequences, FiniteSetsExt, TLC

CONSTANT AzureHosts    \* hosts that end in blob.core.windows.net

None == "none"

\* The order in which the framework fields are looked at.
Frameworks ==
    <<"xgboost", "lightgbm", "sklearn", "tensorflow", "onnx", "pytorch", "triton", "pmml">>

getPredictorFramework(isvc) ==
    LET set == {k \in DOMAIN Frameworks : Frameworks[k] \in isvc.frameworks}
    IN  IF set = {} THEN None ELSE Frameworks[Min(set)]

-----------------------------------------------------------------------------

\* The InferenceService is for model-mesh, and no Predictor can be made of it.
BuildError(isvc) ==
    /\ isvc.modelMesh
    /\ IF isvc.usesModel THEN \/ getPredictorFramework(isvc) # None
                              \/ isvc.annotation # None
                         ELSE getPredictorFramework(isvc) = None

\* The Predictor without its storage; no Predictor for an InferenceService of
\* another deployment mode.  A runtime named by an annotation belongs to the
\* framework fields, one named in the model to the model.
BuildBasePredictorFromInferenceService(isvc) ==
    IF ~isvc.modelMesh \/ BuildError(isvc) THEN {}
    ELSE {[type       |-> IF isvc.usesModel THEN isvc.format ELSE getPredictorFramework(isvc),
           version    |-> IF isvc.usesModel THEN isvc.version ELSE None,
           protocol   |-> IF isvc.protocol = "" THEN None ELSE isvc.protocol,
           runtime    |-> IF isvc.usesModel THEN isvc.runtime ELSE isvc.annotation,
           parameters |-> <<>>]}

-----------------------------------------------------------------------------

\* What the storageUri says of the storage.
UriParameters(isvc) ==
    CASE isvc.scheme = "pvc" -> [type |-> "pvc", name |-> isvc.host]
      [] isvc.scheme = "s3" -> [type |-> "s3", bucket |-> isvc.host]
      [] isvc.scheme = "gs" -> [type |-> "gcs", bucket |-> isvc.host]
      [] isvc.scheme \in {"http", "https"} ->
           IF isvc.host \in AzureHosts THEN [type |-> "azure", account_name |-> isvc.host]
                                       ELSE [type |-> "http", url |-> isvc.host]
      [] OTHER -> <<>>

\* Neither a path nor a storageUri, both, or a storageUri of another scheme.
StorageError(isvc) ==
    \/ isvc.path = (isvc.scheme # None)
    \/ isvc.scheme \notin {None, "pvc", "s3", "gs", "http", "https"}

\* The parameters of the storage; those of the storageUri take precedence.
StorageParameters(isvc) == UriParameters(isvc) @@ isvc.parameters

processInferenceServiceStorage(isvc) ==
    {[p EXCEPT !.parameters = StorageParameters(isvc)] :
        p \in BuildBasePredictorFromInferenceService(isvc)}

\* The registry has no Predictor for the InferenceService and reports an error.
Rejected(isvc) == isvc.modelMesh /\ (BuildError(isvc) \/ StorageError(isvc))

\* The Predictor that Get and Find see.
PredictorFrom(isvc) ==
    IF Rejected(isvc) THEN {} ELSE processInferenceServiceStorage(isvc)

\* Find, for the InferenceServices of a namespace and the Predictors that its
\* predicate holds of: the first one it cannot make a Predictor of ends the
\* search, and counts as found.
Find(isvcs, wanted) ==
    \E i \in isvcs : Rejected(i) \/ PredictorFrom(i) \cap wanted # {}

\* The Predictors that a Find whose predicate only collects may visit: all of
\* them, or those listed before the first one that is rejected.
Visited(isvcs) ==
    LET predictors == UNION {PredictorFrom(i) : i \in isvcs}
    IN  IF \E i \in isvcs : Rejected(i) THEN SUBSET predictors ELSE {predictors}

-----------------------------------------------------------------------------

\* The status of an InferenceService that nobody wrote.
NoStatus ==
    [transition |-> "", states |-> {}, copies |-> {}, failure |-> None,
     ready |-> FALSE, urls |-> {}]

\* A slip: the failure is only written with an available model.
ToInferenceServiceNoFailure(s) ==
    [transition |-> s.transition,
     states     |-> {[active |-> s.active, target |-> s.target]},
     copies     |-> {[failed |-> s.failed, total |-> s.total]},
     failure    |-> IF s.available THEN s.failure ELSE None,
     ready      |-> s.available,
     urls       |-> IF s.available THEN {[grpc |-> s.grpc, rest |-> s.rest]} ELSE {}]

\* UpdateStatus: the status of the Predictor as one of an InferenceService.
\* Only an available one has endpoints.
ToInferenceService(s) ==
    [transition |-> s.transition,
     states     |-> {[active |-> s.active, target |-> s.target]},
     copies     |-> {[failed |-> s.failed, total |-> s.total]},
     failure    |-> s.failure,
     ready      |-> s.available,
     urls       |-> IF s.available THEN {[grpc |-> s.grpc, rest |-> s.rest]} ELSE {}]

\* Get: the status of the InferenceService as one of a Predictor.
Field(parts, default, field) ==
    IF parts = {} THEN default ELSE (CHOOSE part \in parts : TRUE)[field]

FromInferenceService(i) ==
    [transition |-> i.transition,
     active     |-> LET a == Field(i.states, "", "active") IN IF a = "" THEN "Pending" ELSE a,
     target     |-> Field(i.states, "", "target"),
     failed     |-> Field(i.copies, 0, "failed"),
     total      |-> Field(i.copies, 0, "total"),
     failure    |-> i.failure,
     available  |-> i.ready,
     grpc       |-> Field(i.urls, "", "grpc"),
     rest       |-> Field(i.urls, "", "rest")]
=============================================================================

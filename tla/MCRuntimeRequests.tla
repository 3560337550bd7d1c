-------------------------- MODULE MCRuntimeRequests --------------------------
(***************************************************************************)
(* An instance of RuntimeRequests: the controller's namespace and another  *)
(* one, a runtime that both the namespace and the cluster may define, one  *)
(* Predictor of the cluster, one of a plug-in and one InferenceService.    *)
(***************************************************************************)
EXTENDS RuntimeRequests

MCObjects ==
    {<<"ServingRuntime", "user", "b">>, <<"ClusterServingRuntime", "", "b">>,
     <<"Namespace", "user", "">>, <<"Namespace", "ctl", "">>, <<"ConfigMap", "", "">>,
     <<"Predictor", "user", "p">>, <<"Plugin", "user", "q">>,
     <<"InferenceService", "user", "i">>, <<"Secret", "user", "">>}

OnnxRuntime ==
    [multiModel |-> TRUE, disabled |-> FALSE, protocols |-> {"grpc-v2"},
     formats |-> {[name |-> "onnx", version |-> "1", autoSelect |-> TRUE]}]

MCRuntimeSpecs ==
    {OnnxRuntime, [OnnxRuntime EXCEPT !.multiModel = FALSE],
     [OnnxRuntime EXCEPT !.disabled = TRUE],
     [OnnxRuntime EXCEPT !.formats = {[name |-> "onnx", version |-> None, autoSelect |-> FALSE]}]}

OnClaim == [type |-> "pvc", name |-> "c"]

MCPredictorSpecs ==
    {[type |-> "onnx", version |-> "1", protocol |-> "v2", runtime |-> None, parameters |-> OnClaim],
     [type |-> "onnx", version |-> None, protocol |-> None, runtime |-> "b", parameters |-> <<>>]}

OnnxService ==
    [modelMesh |-> TRUE, usesModel |-> FALSE, frameworks |-> {"onnx", "triton"},
     format |-> None, version |-> None, protocol |-> "", runtime |-> None, annotation |-> None,
     scheme |-> "pvc", host |-> "c", path |-> FALSE, parameters |-> [type |-> "s3", key |-> "k"]]

MCInferenceServices ==
    {OnnxService,
     [OnnxService EXCEPT !.usesModel = TRUE],
     [OnnxService EXCEPT !.path = TRUE]}

MCNamespaceStates ==
    {[label |-> "true", terminating |-> FALSE], [label |-> None, terminating |-> FALSE]}

Empty == [o \in MCObjects |->
    CASE o = <<"Namespace", "user", "">> -> {[label |-> "true", terminating |-> FALSE]}
      [] o = <<"Namespace", "ctl", "">> -> {[label |-> None, terminating |-> FALSE]}
      [] o[1] = "ConfigMap" -> {TRUE}
      [] OTHER -> {}]

ClusterOnly == [Empty EXCEPT ![<<"ClusterServingRuntime", "", "b">>] = {OnnxRuntime},
                             ![<<"Secret", "user", "">>] = {{"d"}}]

Served == [ClusterOnly EXCEPT ![<<"ServingRuntime", "user", "b">>] = {OnnxRuntime},
                              ![<<"InferenceService", "user", "i">>] = {OnnxService}]

MCOrigins == {ClusterOnly, Served}

Loaded ==
    [transition |-> "UpToDate", active |-> "Loaded", target |-> "", failed |-> 0, total |-> 1,
     failure |-> None, available |-> TRUE, grpc |-> "grpc://mm", rest |-> "http://mm"]

MCStatuses ==
    {Loaded, [Loaded EXCEPT !.active = "FailedToLoad", !.available = FALSE,
                            !.failed = 1, !.failure = "ModelLoadFailed"]}
=============================================================================

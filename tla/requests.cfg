CONSTANTS
    Namespaces = {"ctl", "user"}
    ControllerNamespace = "ctl"
    Names = {"b"}
    AzureHosts = {}
    Objects <- MCObjects
    RuntimeSpecs <- MCRuntimeSpecs
    PredictorSpecs <- MCPredictorSpecs
    InferenceServices <- MCInferenceServices
    NamespaceStates <- MCNamespaceStates
    Secrets = {{"d"}}
    Claims = {"c"}
    Statuses <- MCStatuses
    Origins <- MCOrigins
    MaxChanges = 3
    MaxFaults = 1
SPECIFICATION Spec
CHECK_DEADLOCK FALSE
INVARIANTS DeploymentsSettled PredictorsServed PlacementAgrees
PROPERTY StatusReadBack

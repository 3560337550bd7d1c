CONSTANTS
    DefaultConfig <- TheDefault
    ConfigMaps <- TheConfigMaps
    EtcdSecrets <- TheSecrets
    Namespaces = {"mm", "user"}
    ControllerNamespace = "mm"
    MaxWrites = 2
    MaxFaults = 1
SPECIFICATION Spec
INVARIANTS
    ServicesSettled
    ClientSettled
    WatchSettled
    ReleasedSettled
\* It stops when everything is settled and the bounds are reached.
CHECK_DEADLOCK FALSE

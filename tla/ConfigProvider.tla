--------------------------- MODULE ConfigProvider ---------------------------
(***************************************************************************)
(* pkg/config/config.go: the configuration that the controllers share, as  *)
(* merged from its defaults and the user's ConfigMap, and the handlers     *)
(* that load it again when the ConfigMap changes.                          *)
(*                                                                         *)
(* A ConfigMap is a function from the fields it sets to their values; its  *)
(* resource version is told apart by its contents alone, as loading equal  *)
(* contents again changes nothing.  Images, resources, labels and other    *)
(* fields that only end up in manifests are left out.                      *)
(***************************************************************************)
EXTENDS Integers

CONSTANTS
    DefaultConfig,  \* the merged configuration without a ConfigMap
    ConfigMaps      \* valid contents of the user's ConfigMap

\* The ConfigMap is absent, or has no config.yaml or one that is refused.
NoConfigMap == [absent |-> TRUE]
BadConfigMap == [bad |-> TRUE]

ASSUME ConfigAssumption ==
    /\ \A m \in ConfigMaps : DOMAIN m \subseteq DOMAIN DefaultConfig
    /\ {"absent", "bad"} \cap DOMAIN DefaultConfig = {}

VARIABLES
    configMap,      \* the ConfigMap, as the informer has it
    unhandled,      \* the service reconciler's handler is still to see it
    loaded          \* the contents loaded last

configVars == <<configMap, unhandled, loaded>>

-----------------------------------------------------------------------------
\* NewMergedConfigFromString: the defaults, overridden by what is set.
Merged(m) ==
    [f \in DOMAIN DefaultConfig |->
        IF f \in DOMAIN m THEN m[f] ELSE DefaultConfig[f]]

GetConfig == Merged(loaded)

\* NewConfigProvider: the process does not start with a ConfigMap it refuses.
ConfigInit ==
    /\ configMap = NoConfigMap
    /\ unhandled = FALSE
    /\ loaded = configMap

\* The ConfigMap changes; each controller that watches it will run its handler.
SetConfigMap(m) ==
    /\ m # configMap
    /\ configMap' = m
    /\ unhandled' = TRUE
    /\ UNCHANGED loaded

\* ReloadConfigMap: the configuration in use stays if the new one is refused.
ReloadConfigMap == loaded' = IF configMap = BadConfigMap THEN loaded ELSE configMap

\* ConfigWatchHandler, up to what the service reconciler does with it ...
HandleConfig ==
    /\ unhandled
    /\ unhandled' = FALSE
    /\ ReloadConfigMap
    /\ UNCHANGED configMap

\* ... and that of the runtime reconciler, which loads something new only if it
\* comes first.
HandleElsewhere ==
    /\ unhandled
    /\ ReloadConfigMap
    /\ UNCHANGED <<configMap, unhandled>>
=============================================================================

CONSTANTS
    Predictors = {p1}
    PluginPredictors = {}
    Runtimes <- AllRuntimes
    MinReplicas = 1
    ScaledUp = 2
    ScaleToZero = TRUE
    Grace = 2
    MaxWrites = 3
    MaxFaults = 1
SPECIFICATION FairSpec
INVARIANT SettledScale
INVARIANT SettledConfig
PROPERTY GraceKept
PROPERTY ScaledToZero
PROPERTY ScaledUpForPredictors

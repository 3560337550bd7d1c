CONSTANTS
    Sources = {ksp}
    Specs = {a, b, bad}
    InvalidSpecs = {bad}
    InferenceServices = {}
    LoadErrors = {"load"}
    Outages = FALSE
    MaxWrites = 3
    MaxFaults = 1
SPECIFICATION Spec
SYMMETRY Symmetry
INVARIANT SettledStatusTrue
PROPERTY UpToDateIsTrue
INVARIANT SettledHasSpec
CHECK_DEADLOCK FALSE

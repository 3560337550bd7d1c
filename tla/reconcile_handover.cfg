CONSTANTS
    Sources = {ksp, isvc}
    Specs = {a}
    InvalidSpecs = {}
    InferenceServices = {isvc}
    LoadErrors = {}
    Outages = TRUE
    MaxWrites = 3
    MaxFaults = 0
SPECIFICATION FairSpec
PROPERTY OrphanRemoved
PROPERTY SpecTakesEffect

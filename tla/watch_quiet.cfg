CONSTANTS
    Names = {n1, n2}
    MaxRev = 4
    Finalizers = FALSE
    DeleteStamps = {TRUE, FALSE}
    Cap = 1
    StatusWrites = FALSE
    WatchOffset = 1
SPECIFICATION FairSpec
PROPERTY Convergence

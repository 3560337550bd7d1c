CONSTANTS
    Names = {n1, n2}
    MaxRev = 3
    Finalizers = FALSE
    DeleteStamps = {}
    Cap = 1
    StatusWrites = TRUE
    Environments <- TheEnvironments
    ChannelCap = 1
    MaxRestarts = 1
SPECIFICATION Spec
PROPERTIES
    KeepsPromise
    EventuallyReconciled
\* It stops when everything is reconciled.
CHECK_DEADLOCK FALSE

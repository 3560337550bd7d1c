CONSTANTS
    Names = {n1, n2}
    MaxRev = 4
    Finalizers = TRUE
    DeleteStamps = {TRUE}
    Cap = 1
    StatusWrites = TRUE
    WatchOffset = 0
SPECIFICATION Spec
SYMMETRY Symmetry
INVARIANT TypeOK
INVARIANT SyncInv
INVARIANT NoLostUpdate
INVARIANT CacheFaithful
INVARIANT ChangeWillBeReconciled
PROPERTY WatchVersionMonotone
PROPERTY KeepsPromise
CHECK_DEADLOCK FALSE

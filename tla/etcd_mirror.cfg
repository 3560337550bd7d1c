CONSTANTS
    Keys = {k1, k2}
    MaxRev = 4
    MayCancel = TRUE
SPECIFICATION FairSpec
INVARIANT NoMissedUpdate
PROPERTY DeletesAreReal
PROPERTY NeverBackwards
PROPERTY EventuallyMirrored
CHECK_DEADLOCK FALSE

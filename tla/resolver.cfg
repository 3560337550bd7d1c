CONSTANTS
    Resolvers = {r1, r2, r3}
    Names = {"a", "b"}
    Targets <- TheTargets
    EndpointsValues <- TheEndpoints
    Absent = Absent
    MaxBuilds = 3
    MaxChanges = 3
    MaxFaults = 1
SPECIFICATION Spec
INVARIANTS
    Registered
    CurrentOrQueued
PROPERTIES
    EventuallyCurrent
\* It stops when nothing changes any more.
CHECK_DEADLOCK FALSE

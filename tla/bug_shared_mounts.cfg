SPECIFICATION DeploymentSpec
CONSTANTS
    Cases <- MCCases
    PVCOrder <- MCPVCOrder
    Passes = 2
    Int32Max = 20
    Uint16Max = 10
INVARIANT MountsAsDeclared
CHECK_DEADLOCK FALSE

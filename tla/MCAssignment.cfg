CONSTANTS
    Registers = {2, 4}
    MaxAvailableSimdSize = 4
    Shape <- MCShape
    EoNeighbours <- MCEoNeighbours
    Builds <- MCBuilds
    Initial <- MCInitial
    Statements <- MCStatements
    MaxStatements = 1

SPECIFICATION Spec

INVARIANTS
    AssignedAsEvaluated
    SizesAgree
    ElementsApart
    AlgebraHolds
    ShiftReadsNeighbour

CHECK_DEADLOCK FALSE

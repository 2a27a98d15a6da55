SPECIFICATION Spec
CONSTANTS
    QueueSize = 2
    MaxEvents = 4
    MaxCancels = 3
    CancelPoints <- AnyPoint
INVARIANTS
    RelayInOrder
    OkMeansComplete
    ErrorFrameSeen
    BillableHasUsage
PROPERTIES
    ContractSpec
    EndsOrWedges
    LeaverLogged
CHECK_DEADLOCK FALSE

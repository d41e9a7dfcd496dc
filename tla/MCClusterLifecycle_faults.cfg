\* A patient user and every fault.
SPECIFICATION Spec

CONSTANTS
    MaxReplicas = 2
    InitialReplicas = 2
    MaxVersion = 2
    MaxEdits = 2
    MaxFaults = 1
    MaxLag = 2
    Patient = TRUE
    Faults = {"crash", "delete", "server", "restart", "evict"}

INVARIANTS
    SizeRemembered
    VersionsAdvance

PROPERTIES
    RestartSameSize
    OperandNeverReverts
    DataNeverDowngraded

\* A cluster in its requested state stops when the budgets are spent.
CHECK_DEADLOCK FALSE

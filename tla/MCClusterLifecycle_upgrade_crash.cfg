\* One upgrade, one crash of the operator.
SPECIFICATION Spec

CONSTANTS
    MaxReplicas = 1
    InitialReplicas = 1
    MaxVersion = 2
    MaxEdits = 1
    MaxFaults = 1
    MaxLag = 2
    Patient = TRUE
    Faults = {"crash"}

PROPERTIES
    UpgradeCompletes

\* A cluster in its requested state stops when the budgets are spent.
CHECK_DEADLOCK FALSE

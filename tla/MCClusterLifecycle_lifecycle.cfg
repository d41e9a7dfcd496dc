\* A patient user scales, stops, starts and upgrades a cluster; the operator may
\* crash and a server may not answer.
SPECIFICATION Spec

CONSTANTS
    MaxReplicas = 3
    InitialReplicas = 3
    MaxVersion = 2
    MaxEdits = 2
    MaxFaults = 1
    MaxLag = 2
    Patient = TRUE
    Faults = {"crash", "server"}

INVARIANTS
    TypeOK
    OperandTruthful
    ServiceClosedWhileRebalanceDisabled

PROPERTIES
    UndisturbedUpgradeCompletes
    Converges
    ServersStopBeforeRemoval
    VolumesKept

\* A cluster in its requested state stops when the budgets are spent.
CHECK_DEADLOCK FALSE

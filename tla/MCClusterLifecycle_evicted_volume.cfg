\* One scale-down, one evicted pod.
SPECIFICATION Spec

CONSTANTS
    MaxReplicas = 3
    InitialReplicas = 3
    MaxVersion = 1
    MaxEdits = 1
    MaxFaults = 1
    MaxLag = 2
    Patient = TRUE
    Faults = {"evict"}

PROPERTIES
    VolumesKept

\* A cluster in its requested state stops when the budgets are spent.
CHECK_DEADLOCK FALSE

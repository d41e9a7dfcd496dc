\* A Backup and a Restore of it, or a Backup created twice; any one fault.
SPECIFICATION Spec
CONSTANTS
  Backups = {"b"}
  Restores = {"r"}
  Source <- MCSource
  MaxCreates = 2
  MaxChanges = 1
  MaxFaults = 1
  Faults = {"crash", "call", "evict"}
INVARIANTS
  PhaseTruthful
  ExecutedOnce
PROPERTIES
  OperationEnds
  PodLeaves
\* Nothing more happens once every operation has ended.
CHECK_DEADLOCK FALSE

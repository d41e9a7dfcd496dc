\* Two batches of one name, one after the other, and two clusters of one name.
SPECIFICATION Spec
CONSTANTS
  Specs <- MCSpecs
  MaxBatches = 2
  MaxUids = 2
  Changes = {"create", "delete", "pause", "cluster"}
  MaxChanges = 4
  MaxHurry = 1
  MaxCrashes = 1
INVARIANTS
  ExecutedOnce
  OutcomeTruthful
PROPERTIES
  PhaseAdvances
  Completes
\* Nothing more happens once the batch has come to its end.
CHECK_DEADLOCK FALSE

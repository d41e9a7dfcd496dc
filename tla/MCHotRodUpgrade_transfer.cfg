\* One upgrade while a client stores an entry.
SPECIFICATION Spec
CONSTANTS
  MaxVersion = 2
  MaxEdits = 1
  MaxWrites = 1
  MaxFaults = 0
  MaxLag = 2
  Faults = {}
INVARIANTS
  AllTransferred
\* Nothing more happens once the last edit is carried out.
CHECK_DEADLOCK FALSE

\* Upgrades and rollbacks, with crashes and failed calls.
SPECIFICATION Spec
CONSTANTS
  MaxVersion = 3
  MaxEdits = 3
  MaxWrites = 1
  MaxFaults = 1
  MaxLag = 2
  Faults = {"crash", "server"}
INVARIANTS
  Available
  EntriesHeld
PROPERTIES
  ImplementsLiveUpgrade
  Settles
\* Nothing more happens once the last edit is carried out.
CHECK_DEADLOCK FALSE

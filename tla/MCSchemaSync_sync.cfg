\* One schema, its resource written by a user or by the listener, referred to by caches.
SPECIFICATION Spec
CONSTANTS
  Protos = {"p", "q", "bad"}
  Invalid = {"bad"}
  UserCR = "user"
  GeneratedCRs = {"gen1", "gen2"}
  Changes = {"create", "edit", "delete", "pause", "ref", "set", "remove", "cluster", "bidi", "gone"}
  MaxChanges = 3
  MaxHurry = 1
  Faults = {"crash", "call", "listener", "stream"}
  MaxFaults = 1
INVARIANTS
  SettledInSync
PROPERTIES
  ReferencedKept
  DeletedGoes
  Recovers
\* Nothing more happens once the changes are made and carried over.
CHECK_DEADLOCK FALSE

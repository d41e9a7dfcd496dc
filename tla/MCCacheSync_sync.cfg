\* One cache, its resource written by a user or by the listener, one hurried change.
SPECIFICATION Spec
CONSTANTS
  Configs = {"a1", "a2", "b"}
  Family <- MCFamily
  TemplateConfig = "a1"
  UserCR = "user"
  GeneratedCRs = {"gen1", "gen2"}
  SpecNamed = TRUE
  KebabName = TRUE
  UserSpecs <- MCUserSpecs
  Changes = {"create", "edit", "delete", "pause", "set", "remove", "schema", "cluster", "gone"}
  MaxChanges = 3
  MaxHurry = 1
  Faults = {"crash", "call", "listener", "stream"}
  MaxFaults = 1
INVARIANTS
  SettledInSync
PROPERTIES
  DataKept
  RecreateKeepsResource
  Settles
\* Nothing more happens once the changes are made and carried over.
CHECK_DEADLOCK FALSE

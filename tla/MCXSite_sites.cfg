SPECIFICATION Spec
CONSTANTS
    Site = {"LON", "NYC"}
    Routes = {"LON"}
    Edits <- SomeEdits
    Starts <- OneStart
    Keyless = {"LON"}
    Edited = {"LON"}
    MaxEvents = 2
    MaxEdits = 2
    MaxMoves = 1
    MaxFaults = 1
    MaxRecoveries = 1
    Damaged <- TwoPods
INVARIANTS
    RouterTruthful
PROPERTIES
    SitesKept
    SitesConnect
    RecoveryPushed
CHECK_DEADLOCK FALSE

SPECIFICATION Spec
CONSTANTS
    None = None
    Backends = {"memory", "postgres"}
    Requests = {r1, r2}
    Configurations <- Settings
    Denied = {"denied"}
    Catalogs <- Listings
    MaxOperations = 4
    Contents <- Versions
    RuleIds = {1, 2, 3, 4}
SYMMETRY Symmetry
INVARIANTS
    TypeOK
    EditsSurviveSyncs
    AttemptsAreFailures
    ImportsInstallTheirPackage
PROPERTIES
    OnlySyncsChangeTheLists
    LocalSwitchesStay
CHECK_DEADLOCK FALSE

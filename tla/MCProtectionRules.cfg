SPECIFICATION Spec
CONSTANTS
    Tidied <- Untidy
    Relative = {"", "x"}
    BadGlobs = {}
    BadAddresses = {}
    BadNames = {}
    Backends = {"memory", "postgres"}
    Installations <- SomeInstallations
    RowIds = {1, 2}
    RuleIds = {1, 2, 3, 4, 5}
    FirstFreeRow = 2
    MaxOperations = 4
INVARIANTS
    TypeOK
    LegacyRefsUnique
    ReleasesServeSteadyRulesOnce
    HiddenLimitsAreReported
    HealthyMeansEitherSideSuffices
PROPERTIES
    BackfillChangesNoProtection
    BackfillIsComplete
CHECK_DEADLOCK FALSE

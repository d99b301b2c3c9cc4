\* The API gives a bot row of the older table a mode no release accepts.
SPECIFICATION Spec
CONSTANTS
    Tidied <- Untidy
    Relative = {"", "x"}
    BadGlobs = {}
    BadAddresses = {}
    BadNames = {}
    Backends = {"memory", "postgres"}
    Installations <- BotInstallation
    RowIds = {1, 2}
    RuleIds = {1, 2, 3, 4, 5}
    FirstFreeRow = 2
    MaxOperations = 2
INVARIANT AcceptedEditsCanBePublished
CHECK_DEADLOCK FALSE

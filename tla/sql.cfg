SPECIFICATION Spec
CONSTANTS
    monday = monday
    tuesday = tuesday
    short = short
    long = long
    other = other
    Plugins = {"mysql", "rtm", "postgresql"}
    Taken = {"mysql", "rtm", "postgresql"}
    Dates <- TwoDates
    TableNum <- TwoTables
    Texts <- AllTexts
    Rules <- TwoRules
    Cut <- CutToShort
    Others = {long}
    HasVars = TRUE
    BufferRows = 2
    MaxEntries = 4
    Faults = {"connect", "prepare", "table", "env", "select", "insert_rule", "insert_log", "connection", "memory"}
    NoDate = NoDate
    NoTable = NoTable
INVARIANTS
    TypeOK
    NothingLost
    RuleIdsMatch
    DatesNotMixedBefore
    EnvStoredOnce
PROPERTIES
    ImplementsOutput

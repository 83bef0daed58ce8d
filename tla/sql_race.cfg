SPECIFICATION Spec
CONSTANTS
    monday = monday
    tuesday = tuesday
    short = short
    long = long
    other = other
    Plugins = {"mysql"}
    Taken = {"mysql"}
    Dates <- TwoDates
    TableNum <- TwoTables
    Texts <- AllTexts
    Rules <- TwoRules
    Cut <- CutNothing
    Others <- TwoRules
    HasVars = TRUE
    BufferRows = 2
    MaxEntries = 2
    Faults = {}
    NoDate = NoDate
    NoTable = NoTable
INVARIANTS
    DatesNotMixed

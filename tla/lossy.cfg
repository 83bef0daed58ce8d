SPECIFICATION SessionSpec
CONSTANTS
    Lines <- MCLines
    Payload <- MCPayload
    Blank = 0
    ver = 2
    BlockModulus = 4
    MaxLines = 10
    MaxBlocks = 3
    MaxEntries = 1
    Faults = {}
    None = None
INVARIANTS
    UnflaggedBlocksArePure
    FlaggedEndLacksStart
    NoFalseAlarm

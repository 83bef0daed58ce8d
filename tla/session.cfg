SPECIFICATION ThreadSpec
CONSTANTS
    Lines <- SessionLines
    Payload = {"entry", ""}
    Blank = ""
    ver = 2
    BlockModulus = 4
    MaxLines = 4
    Faults = {"callback", "thread"}
    None = None
INVARIANTS
    DiscardOnlyOnError
    IntervalNotStale
    ShutdownHeeded
PROPERTIES
    CompleteIsFinal
    EndsWhenTold

SPECIFICATION Spec
CONSTANTS
    Lines <- SessionLines
    Payload = {"entry", ""}
    Blank = ""
    ver = 2
    BlockModulus = 4
    MaxLines = 4
    Faults = {}
    None = None
INVARIANT NamesLast

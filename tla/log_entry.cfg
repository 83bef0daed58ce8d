SPECIFICATION Spec
CONSTANTS
    MaxLine = 5
    FIELD_MAX = 3
    CALL_TYPE_MAX = 3
    MaxCallTypes = 2
    Width = 7
    Mantissa = 5
    Thousand = 3
    MaxLogEntries = 2
    Null = Null
INVARIANTS HeapBalanced SplitExactly NamesNormalised ScaledRight
CHECK_DEADLOCK FALSE

SPECIFICATION Spec
CONSTANTS
    MaxEntries = 5
    MaxAddresses = 2
INVARIANTS TypeOK
PROPERTIES ImplementsOutput
CHECK_DEADLOCK FALSE

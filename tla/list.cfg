SPECIFICATION Spec
CONSTANTS
    Cells = {c1, c2, c3, c4}
    Messages = {m1, m2, m3}
    Null = Null
INVARIANTS
    TypeOK
    NoUseAfterFree
    AllFreed
PROPERTIES
    ImplementsQueue

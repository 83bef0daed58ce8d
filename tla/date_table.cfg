SPECIFICATION Spec
CONSTANTS
    N = 5
    LastDay = 7
INVARIANTS
    TypeOK
    RecentDatesHaveTables
    OneTablePerDate
PROPERTIES
    OnlyOldTablesRecycled

SPECIFICATION Spec
CONSTANTS
    Imports <- ImportsDef
    Legacy <- LegacyDef
    Jobs <- JobsDef
    SelectTailored = FALSE
    MaxSelections = 2
    MaxSessions = 1
    MaxRecords = 1
INVARIANTS
    PointersResolve
    RebuiltLineage
    ContentKeptOrReceipted
PROPERTIES
    EarlierVersionsUntouched

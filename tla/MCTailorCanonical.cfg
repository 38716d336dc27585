SPECIFICATION Spec
CONSTANTS
    Imports <- ImportsDef
    Legacy <- LegacyDef
    Jobs <- JobsDef
    SelectTailored = TRUE
    MaxSelections = 2
    MaxSessions = 2
    MaxRecords = 0
INVARIANTS
    TailoringKeepsBullets

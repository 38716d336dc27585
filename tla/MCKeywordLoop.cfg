SPECIFICATION Spec
CONSTANTS
    Word <- MCWord
    Surface <- MCSurface
    Stem <- MCStem
    Seed <- MCSeed
    GapSections <- MCGapSections
    HighValue <- MCHighValue
    SectionPatterns <- MCPatterns
    ProseMarks <- MCProse
    MaxKeywordWords = 2
    NearWords <- MCNearWords
    GenericStems <- MCGeneric
    Resumes <- MCResumes
    Jobs <- MCJobs
    AliasFiles <- MCAliasFiles
    MaxMembers = 3
    Unloaded = Unloaded
    NoReport = NoReport
CHECK_DEADLOCK FALSE
INVARIANTS
    CachesFollowCommits
    ReportIsFair
PROPERTIES
    CoverageNeverFalls
    GrownPairClosesItsGap

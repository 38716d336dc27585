SPECIFICATION FairSpec
CONSTANTS
    Word <- MCWord
    Surface <- MCSurface
    Stem <- MCStem
    Field <- MCField
    FieldClass <- MCFieldClass
    FieldSection <- MCFieldSection
    ClaimFields <- MCClaimFields
    AdditionFields <- MCAdditionFields
    Seed <- MCSeed
    NoSection = NoSection
    NoDocument = NoDocument
    Job <- MCJob
    JobSkills <- MCJobSkills
    Resume <- MCOneResume
    Revisions <- MCOneRevision
    WorkingFile <- MCOneWorking
    Modes <- MCAllModes
    Proposals <- ReviewProposals
    Answers <- ReviewAnswers
    CommitFreedoms <- NoFreedoms
    AliasConfigured = {FALSE}
    AliasFiles <- NoAliases
    MaxSessions = 1
    MaxRepeats = 2
INVARIANTS
    TypeOK
    ReviewInOrder
    RecordsAgree
PROPERTIES
    ReviewCompletes

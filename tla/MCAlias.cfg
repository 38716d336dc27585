SPECIFICATION Spec
CONSTANTS
    Word <- MCWord
    Surface <- MCSurface
    Stem <- MCStem
    Field <- MCField
    FieldClass <- MCFieldClass
    FieldSection <- MCFieldSection
    ClaimFields <- MCClaimFields
    AdditionFields <- MCAdditionFields
    Seed <- MCSeed
    NoSection = NoSection
    NoDocument = NoDocument
    Job <- MCJob
    JobSkills <- MCJobSkills
    Resume <- MCOneResume
    Revisions <- MCOneRevision
    WorkingFile <- MCOneWorking
    Modes <- MCInteractive
    Proposals <- AliasProposals
    Answers <- AliasAnswers
    CommitFreedoms <- MCFreedoms
    AliasConfigured = {TRUE, FALSE}
    AliasFiles <- MCAliasFiles
    MaxSessions = 2
    MaxRepeats = 1
PROPERTIES
    GrowthKeepsIndex
    DecisionsAppendOnly
    ImplementsWriteGate

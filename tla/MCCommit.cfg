SPECIFICATION Spec
CONSTANTS
    Word <- MCWord
    Surface <- MCSurface
    Stem <- MCStem
    Field <- MCField
    FieldClass <- MCFieldClass
    FieldSection <- MCFieldSection
    ClaimFields <- MCClaimFields
    AdditionFields <- MCAdditionFields
    Seed <- MCSeed
    NoSection = NoSection
    NoDocument = NoDocument
    Job <- MCJob
    JobSkills <- MCJobSkills
    Resume <- MCResume
    Revisions <- MCRevisions
    WorkingFile <- MCWorkingFile
    Modes <- MCReviewModes
    Proposals <- CommitProposals
    Answers <- CommitAnswers
    CommitFreedoms <- MCFreedoms
    AliasConfigured = {FALSE}
    AliasFiles <- NoAliases
    MaxSessions = 1
    MaxRepeats = 1
INVARIANTS
    TailoredIsLicensed
    CommittedMeansDecided
    RefutedTextNeverWritten

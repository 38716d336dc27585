SPECIFICATION FitSpec
CONSTANTS
    Word <- MCWord
    Surface <- MCSurface
    Stem <- MCStem
    Field <- MCField
    FieldClass <- MCFieldClass
    FieldSection <- MCFieldSection
    ClaimFields <- MCField
    AdditionFields = {}
    Seed <- MCSeed
    NoSection = NoSection
    NoDocument = NoDocument
    Job <- MCJob
    JobSkills <- MCJobSkills
    Resume <- MCResume
    Revisions <- MCRevisions
    WorkingFile <- MCWorkingFile
    Modes = {}
    Proposals = {}
    Answers = {}
    CommitFreedoms = {}
    AliasConfigured = {FALSE}
    AliasFiles <- NoAliases
    MaxSessions = 1
    MaxRepeats = 0
    SkillsField = "skills"
    SummaryField = "summary"
    Roles <- MCRoles
    RoleTitle <- MCRoleTitle
    RoleCompany <- MCRoleCompany
    RoleYears <- MCRoleYears
    JobTerms <- MCJobTerms
    Vocabulary <- MCVocabulary
    Filler <- MCFiller
    Budget <- MCBudget
    Evidence <- MCEvidence
    FitModes <- MCFitModes
    FitAnswers <- MCAnswers
CHECK_DEADLOCK FALSE
INVARIANTS
    NothingLostOrInvented
    CutsAreTheLowest
    HumanDecidesTheRest
    FitsToTheBudget

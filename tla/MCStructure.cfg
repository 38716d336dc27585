SPECIFICATION Spec
CONSTANTS
    Phrase <- MCPhrase
    Casefold <- MCCasefold
    Tokens <- MCTokens
    Heading <- MCHeading
    Field <- MCField
    FieldSection <- MCFieldSection
    SummaryField = "summary"
    BulletFields <- MCBulletFields
    DateFields = {"years", "since"}
    ProjectYears = {"since"}
    Years = {"2019", "2021"}
    ToWords = {"to"}
    Divided = {"October"}
    OpenEnds = {"now", "present"}
    Present = "present"
    DefaultAliases <- MCAliases
    SectionOrder <- MCSectionOrder
    SkillsHeading = "Skills"
    ParserArtifacts = {"added_tokens"}
    MaxSkills = 1
    MaxSummaryWords = 1
    MaxRoleBullets = 1
    Sources <- MCSources
    Overlays <- MCOverlays
    Targets <- MCTargets
    AnswerTexts <- MCAnswerTexts
    Roles <- MCRoles
    OpenerRules <- MCOpenerRules
    Replacement <- MCReplacement
    Capital <- MCCapital
    Cut <- MCCut
    Stripped <- MCStripped
    Figures = {"2x"}
    ImpactVerbs = {"grew"}
    MaxEdits = 1
    MaxDecided = 1
    MaxAnswers = 2
    NoStructure = NoStructure
INVARIANTS
    StructureLosesNothing
    LedgerIsTrue
    WrittenDefersNothing
    RefineIsFaithful

SPECIFICATION LearningSpec
CONSTANTS
    Word <- MCWord
    Surface <- MCSurface
    Stem <- MCStem
    Seed <- MCSeed
    Field <- MCField
    FieldClass <- MCFieldClass
    FieldSection <- MCFieldSection
    ClaimFields <- MCField
    NoSection = NoSection
    Phrase <- MCPhrase
    NoTerm = NoTerm
    CleanForm <- MCCleanForm
    Alphabet <- MCAlphabet
    Generic <- MCGeneric
    ToolOrNumber <- MCToolOrNumber
    Decay <- MCDecay
    Compound = {}
    Opaque = {}
    ConciseType <- MCConciseType
    Instant <- MCInstant
    Undated = Undated
    None = None
    MaxTime = 1
    Slot <- MCSlot
    Size <- MCSize
    Carries <- MCCarries
    Quantified <- MCQuantified
    PhraseWords <- MCPhraseWords
    Feedback <- MCFeedback
    StampAt <- MCStampAt
    Form <- MCForm
    Pairs <- MCPairs
    Key = {k1}
    Context = {ic, manager}
    RankContexts <- MCRankContexts
    Candidates <- MCCandidates
    PendingEdits <- MCPendingEdits
    MaxRecords = 4
    MaxAnswers = 1
INVARIANTS
    OneActionIsNoPreference
    RankedKeepsTruth
    ExemplarsAreTheClosest
    SuppressedByAValidAnswer
PROPERTIES
    TimeOnlyForgets

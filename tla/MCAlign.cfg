SPECIFICATION Spec
CONSTANTS
    Word <- MCWord
    Surface <- MCSurface
    Stem <- MCStem
    Seed <- MCSeed
    Field <- MCField
    FieldClass <- MCFieldClass
    FieldSection <- MCFieldSection
    FieldEntry <- MCFieldEntry
    FieldOrder <- MCFieldOrder
    Heading <- MCHeading
    ClaimFields <- MCClaimFields
    Metric <- MCMetric
    NoSection = NoSection
    Resumes <- MCResumes
    Jobs <- MCJobs
    Derived <- MCDerived
    EvidenceInputs <- MCEvidenceInputs
    Calls <- MCCalls
    PlanResponses <- MCPlanResponses
    ChangeResponses <- MCChangeResponses
    Malformed <- MCMalformed
    Suggestions <- MCSuggestions
INVARIANTS
    GroundedOrAsked
    EveryProposalAccounted
    ReportMatchesResult
    GuardIsExact
    PlannedSkillsHaveASource
PROPERTIES
    SwapIsSafe

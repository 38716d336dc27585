SPECIFICATION Spec
CONSTANTS
    Word <- MCWord
    Surface <- MCSurface
    Stem <- MCStem
    Field <- MCField
    FieldClass <- MCFieldClass
    FieldSection <- MCFieldSection
    Resumes <- MCResumes
    Changes <- MCChanges
    SkillSets <- MCSkillSets
    Freedoms <- MCFreedoms
    MaxChanges = 3
CHECK_DEADLOCK FALSE
INVARIANTS
    PolicyRespected
    ListsKeepTheirItems
    FreedomMonotone

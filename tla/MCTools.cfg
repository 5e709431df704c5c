SPECIFICATION ToolsSpec
CONSTANTS
    Blank = Blank
    None = None
    Questions = {q1, q2, q3}
    Fields <- MCFields
    Typed <- MCTyped
    Defaults <- MCDefaults
    Calls <- MCCalls
    EightyC = 6
    NpsLimit = 2
INVARIANTS
    OutcomeOfAnswersSent
    PlanReachesTarget
    CorpusLasts
    DeductionsAddUp
    MixIsWhole

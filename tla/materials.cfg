CONSTANTS
    NumBlocks = 2
    LongBlocks = {1}
    AiBlocks = {1}
    MaxJobs = 2
    MaxEdits = 1
    MaxFaults = 1
SPECIFICATION AllSpec
CHECK_DEADLOCK FALSE
INVARIANTS
    RowsAreTruthful
    GuardTrustsOwnWork
    ScriptIsKept
    CaptionsFollowTheVoice
    PicturesAreOfTheScript
PROPERTY FinalVideoIsCurrent

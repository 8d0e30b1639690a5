SPECIFICATION AllSpec
CONSTANTS
    Cues = {q1, q2, q3, q4}
    K = 2
    W = 2
    MaxTime = 4
    Aspects = {wide, narrow, square}
    Resolutions = {hd, sd}
    Unknown = Unknown
    FRAMES = 2
    Reasons = {inUse, notLocal, noAccess}
    Hour = 4
    NULL = NULL
    LISTENING = LISTENING
INVARIANTS ReportTypeOK TableExact LastingChangesReported StatusTrue
PROPERTIES NoSpuriousReport NoLostCue NoFlood

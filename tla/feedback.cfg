SPECIFICATION Spec
CONSTANTS
    Sessions = {s1, s2}
    Labels = {needed, uncertain}
    Times <- McTimes
    Freezes <- McFreezes
    MaxRevisions = 3
    None = None
SYMMETRY McSymmetry
INVARIANTS
    FeedbackVerifies
    TruncationDetected
    LabelsFollowClosure
PROPERTIES
    FreezeKept
    ImplementsLog

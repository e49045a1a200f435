SPECIFICATION Spec
CONSTANTS
    Lengths = {0, 1, 2, 3, 4}
    Limits = {0, 2, 3}
INVARIANTS BufferBounded NothingTruncated FitsMeansAccepted AnswersHaveCauses
PROPERTY Answered
CHECK_DEADLOCK FALSE

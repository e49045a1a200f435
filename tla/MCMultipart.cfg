SPECIFICATION Spec
CONSTANTS
    Fields = {"x", "data"}
    Names = {"x", "data", "z"}
    MaxParts = 3
INVARIANTS TypeOK SuitedNeverPanics ValuesInPlace FormIsWhole RejectedForCause
PROPERTIES ParsingAdvances
CHECK_DEADLOCK FALSE

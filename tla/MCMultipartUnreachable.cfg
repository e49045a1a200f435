SPECIFICATION Spec
CONSTANTS
    Fields = {"x", "data"}
    Names = {"x", "data", "z"}
    MaxParts = 3
INVARIANT UnreachableIsNotReached
CHECK_DEADLOCK FALSE

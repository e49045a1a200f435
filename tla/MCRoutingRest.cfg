SPECIFICATION Spec
CONSTANTS
    Slash = "/"
    Bad = "%FF"
    Chars = {"/", "%FF", "x"}
    MaxLen = 5
    Paths <- MCPaths
INVARIANT RestIsNotYetConsumed
CHECK_DEADLOCK FALSE

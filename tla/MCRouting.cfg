SPECIFICATION Spec
CONSTANTS
    Slash = "/"
    Bad = "%FF"
    Chars = {"/", "%FF", "x"}
    MaxLen = 5
    Paths <- MCPaths
INVARIANTS TypeOK CursorOnComponents NothingLostOrRepeated
CHECK_DEADLOCK FALSE

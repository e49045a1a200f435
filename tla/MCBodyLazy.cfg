SPECIFICATION Spec
CONSTANTS
    Sizes = {0, 1, 3}
    Chunk = 2
    Slack = 2
    Added = 3
    Compressions = {"br", "gzip", "deflate"}
    Half = 200
    Qualities = {0, 50, 100}
INVARIANT EncodedBodyCollects
CHECK_DEADLOCK FALSE

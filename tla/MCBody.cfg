SPECIFICATION FSpec
CONSTANTS
    Sizes = {0, 1, 3}
    Chunk = 2
    Slack = 2
    Added = 3
    Compressions = {"br", "gzip"}
    Half = 200
    Qualities = {0, 100, 200, 300}
INVARIANTS FTypeOK SizeHintSound EndsWhole PanicsOnlyLazy HeaderTellsEncoding WrongLengthHasCause ServesWhatIsThere
PROPERTIES EndIsFinal BodyEnds
CHECK_DEADLOCK FALSE

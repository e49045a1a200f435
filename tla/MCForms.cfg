SPECIFICATION FmSpec
CONSTANTS
    N = 3
    Groups = {"g", "h"}
    NoGroup = "none"
    Types = {"bool", "enum", "file", "number"}
    Variants <- MCVariants
    Values = {"a", "b", "0", "1"}
    Displayed <- MCDisplayed
    Unset = "unset"
INVARIANTS PlacedOnce  OneValueEach
CHECK_DEADLOCK FALSE

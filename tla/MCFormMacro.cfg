SPECIFICATION MSpec
CONSTANTS
    N = 4
    Groups = {"g", "h"}
    NoGroup = "none"
    Types = {"text"}
INVARIANT EveryFieldInForm
CHECK_DEADLOCK FALSE

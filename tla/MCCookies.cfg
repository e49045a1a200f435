SPECIFICATION CkSpec
CONSTANTS
    Requests = {r1, r2, r3}
    Names = {n1}
    Data = {"d"}
    Depth = 2
    Params <- MCParams
    Others <- MCOthers
    Absent = Absent
    DefaultAge = 1
    NoCookie = NoCookie
    Text = Text
    Binary = Binary
    Untouched = Untouched
    MaxTurns = 1
    MaxSets = 2
    r1 = r1
    r3 = r3
    r2 = r2
    n1 = n1
SYMMETRY MCSymmetry
INVARIANT CkTypeOK
PROPERTIES ReadsWhatWasSet StaysSealed
CHECK_DEADLOCK FALSE

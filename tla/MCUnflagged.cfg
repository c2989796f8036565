CONSTANTS
    i1 = i1
    f1 = f1
    f2 = f2
    f3 = f3
    Request = {q1}
    MaxErrors = 0
    NoHost = "none"
    Lower <- MCLower
    SourceOf <- MCSourceOf
    Initial <- MCInitial
    Files <- MCFiles
    Names <- SpelledNames
SYMMETRY MCSymmetry
CHECK_DEADLOCK FALSE
SPECIFICATION Spec
INVARIANT UnreachableIsFlagged

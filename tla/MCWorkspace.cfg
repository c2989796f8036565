CONSTANTS
    i1 = i1
    f1 = f1
    f2 = f2
    f3 = f3
    Request = {q1, q2, q3}
    MaxErrors = 1
    NoHost = "none"
    Lower <- MCLower
    SourceOf <- MCSourceOf
    Initial <- MCInitial
    Files <- MCFiles
    Names <- MCNames
SYMMETRY MCSymmetry
CHECK_DEADLOCK FALSE
SPECIFICATION Spec
INVARIANTS TypeOK ChangesStand SlugsUnique RestIsDeployed PanelTellsSlugs PanelTellsMocks

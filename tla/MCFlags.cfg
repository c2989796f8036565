CONSTANTS
    Key <- MCKey
    Value = {v}
    Client = {c1, c2}
    Lister = {l1}
    Prefix <- MCPrefix
    Search <- MCSearch
    Lifetimes = {1}
    Limit = 2
    MaxLooks = 2
    MaxTime = 1
    None = None
SYMMETRY MCSymmetry
SPECIFICATION Spec
INVARIANTS TypeOK ListTells
PROPERTIES ImplementsFlagStore

CONSTANTS
    Callback = {c1, c2}
    Replica = {r1}
    Request = {q1, q2}
    Slot = {s1}
    Ops = {"fire", "firePending", "hold", "cancel", "clear", "list"}
    Delays = {1}
    Cap = 0
    MaxCrashes = 1
    MaxErrors = 0
    None = None
SYMMETRY Symmetry
SPECIFICATION Spec
INVARIANTS ListIsComplete Safe
PROPERTY ImplementsLifecycle

CONSTANTS
    Callback = {c1}
    Replica = {r1}
    Request = {q1}
    Slot = {s1}
    Ops = {"fire"}
    Delays = {1}
    Cap = 1
    MaxCrashes = 1
    MaxErrors = 0
    None = None
SPECIFICATION Spec
INVARIANT NeverLost

CONSTANTS
    Callback = {c1}
    Replica = {r1, r2}
    Request = {q1}
    Slot = {s1, s2}
    Ops = {"fire"}
    Delays = {0, 2}
    Cap = 1
    MaxCrashes = 1
    MaxErrors = 1
    None = None
SPECIFICATION FairSpec
INVARIANTS TypeOK AlwaysWakes WakesInTime
PROPERTY PendingLeaves

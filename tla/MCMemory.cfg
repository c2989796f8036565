CONSTANTS
    Callback = {c1, c2}
    Request = {q1, q2, q3}
    Delays = {0, 3}
    Cap = 2
    MaxCrashes = 1
    None = None
SPECIFICATION FairSpec
INVARIANTS TypeOK NeverStranded AnswersStand
PROPERTIES PendingLeaves ImplementsLifecycle

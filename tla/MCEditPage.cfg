CONSTANTS
    Kinds = {"mocks", "flags", "hosts", "callbacks"}
    Value = {v1, v2}
    Request = {q1, q2}
    None = None
    MaxChanges = 1
    MaxRequests = 2
    MaxFailures = 1
SPECIFICATION FairSpec
INVARIANT SavedIsShown
PROPERTIES RefreshKeepsEdits ScreenCatchesUp

CONSTANTS
    Replica = {r1}
    MaxDeploys = 1
    MaxPosts = 0
    MaxFaults = 0
    MaxReaders = 0
    None = None
CHECK_DEADLOCK FALSE
SPECIFICATION Spec
INVARIANT SavedIsLive

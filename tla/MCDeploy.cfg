CONSTANTS
    Replica = {r1}
    MaxDeploys = 2
    MaxPosts = 2
    MaxFaults = 2
    MaxReaders = 1
    None = None
SPECIFICATION FairSpec
INVARIANTS TypeOK SettledServesLatest ListedIsServed AnsweredIsServed
PROPERTIES NeverGoesBack RemapsRun

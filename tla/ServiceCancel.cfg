SPECIFICATION FairSpec
CONSTANTS
    j1 = j1
    j2 = j2
    Free = Free
    Jobs = {j1, j2}
    Actions = {"restart"}
    Baselines = {0}
    MaxInvocation = 1
    MaxCrashes = 1
    MaxCancels = 1
    MaxExternal = 0
    MaxFaults = 0
INVARIANT NotStartedIsTrue
PROPERTY CallUnderLock ServiceLifecycle JobsTerminate

SPECIFICATION Spec
CONSTANTS
    j1 = j1
    j2 = j2
    Free = Free
    Jobs = {j1, j2}
    Actions = {"restart", "unmanageable"}
    Baselines = {0, 1}
    MaxInvocation = 2
    MaxCrashes = 1
    MaxCancels = 0
    MaxExternal = 1
    MaxFaults = 1
SYMMETRY Interchangeable
INVARIANT AtMostOneCall OverlapDisclosed ObservedMeansFinished RestartHappened
PROPERTY SerializedBaseline

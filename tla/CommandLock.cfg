SPECIFICATION Spec
CONSTANTS
    j1 = j1
    j2 = j2
    Free = Free
    Jobs <- TwoJobs
    Serialized <- TwoJobs
    Deadlined <- OneJob
    Polled <- NoJobs
    Forbidden <- SecondJob
    AbsentShown = {"none", "inactive"}
    MaxCrashes = 1
    MaxReboots = 0
    MaxCancels = 1
    MaxFaults = 1
CHECK_DEADLOCK FALSE
INVARIANT NotStartedIsTrue OverlapDisclosed
PROPERTY CommandLifecycle

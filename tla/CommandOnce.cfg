SPECIFICATION FairSpec
CONSTANTS
    j1 = j1
    j2 = j2
    Free = Free
    Jobs <- OneJob
    Serialized <- NoJobs
    Deadlined <- NoJobs
    Polled <- OneJob
    Forbidden <- NoJobs
    AbsentShown = {"inactive"}
    MaxCrashes = 1
    MaxReboots = 1
    MaxCancels = 1
    MaxFaults = 0
CHECK_DEADLOCK FALSE
INVARIANT AtMostOneLaunch VerdictIsFinal
PROPERTY JobsTerminate RecordSettles

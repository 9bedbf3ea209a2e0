SPECIFICATION FairSpec
CONSTANTS
    e1 = e1
    e2 = e2
    h1 = h1
    NoJob = NoJob
    Begins = {b1, b2}
    Diags = {d1}
    Episodes = {e1, e2}
    HostOf <- OneHost
    MaxAttempts = 2
    Cooldown = 1
    Grants = {{}, {b1, d1}, {b1, b2, d1}}
    MaxJobs = 2
    MaxTime = 1
    MaxCancels = 1
    MaxCrashes = 1
CHECK_DEADLOCK FALSE
INVARIANT ClaimsHold CollectedOnce
PROPERTY JobEnds

SPECIFICATION FairSpec
CONSTANTS
    c1 = c1
    c2 = c2
    p1 = p1
    p2 = p2
    NoOne = NoOne
    Creates = {c1, c2}
    Publishes = {p1, p2}
    MaxRevision = 3
    Settings <- Waiting
CHECK_DEADLOCK FALSE
PROPERTY WorkspaceJobsEnd

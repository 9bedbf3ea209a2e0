SPECIFICATION FairSpec
CONSTANTS
    c1 = c1
    c2 = c2
    Base = base
    Missing = missing
    NoChange = none
    Outside = {other}
    Changes = {c1, c2}
    VerifyAttempts = 2
    AutomaticRollback = TRUE
    MaxExternal = 1
    MaxReboots = 1
    MaxFaults = 1
CHECK_DEADLOCK FALSE
PROPERTY  ForeignKept ActivatesItsBaseline

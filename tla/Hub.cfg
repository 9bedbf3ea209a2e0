SPECIFICATION FairSpec
CONSTANTS
    Verdicts = {"succeeded", "cancelled"}
    Settings <- Pairs
CHECK_DEADLOCK FALSE
INVARIANT NoInventedOutcome
PROPERTY ProjectionIsMonotone HubLifecycle HubConverges

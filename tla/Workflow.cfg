SPECIFICATION FairSpec
CONSTANTS
    w1 = w1
    r1 = r1
    r2 = r2
    NoOne = NoOne
    Workflows <- OneWorkflow
    Requests = {r1, r2}
    Until <- UntilVerified
    Bad = {"rolled_back"}
    MayRevoke = TRUE
    Settings <- Mixes
CHECK_DEADLOCK FALSE
INVARIANT OneStageAtATime OwnerAlone SuccessIsEarned StateHasEvidence
PROPERTY NoStageAfterStop WorkflowEnds

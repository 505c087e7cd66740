SPECIFICATION Spec
CONSTANTS
    Keys = {k1, k2}
    Classes = {light}
    ClassOf <- MCClassOf
    JobIds = {1, 2}
    PendingLimit <- MCPendingLimit
    RunningLimit <- MCRunningLimit
    MaxAttempts = 3
    MaxClaims = 4
INVARIANTS
    OneActiveJobPerKey
    RunningWithinLimit
    AttemptLogAgrees
    FailureBookkeeping
CHECK_DEADLOCK FALSE

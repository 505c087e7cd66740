SPECIFICATION FairTimelySpec
CONSTANTS
    Keys = {k1, k2, k3}
    Classes = {light}
    ClassOf <- MCClassOf
    JobIds = {1, 2, 3}
    PendingLimit <- MCPendingLimit
    RunningLimit <- MCRunningLimit
    MaxAttempts = 2
    MaxClaims = 2
INVARIANTS
    BacklogBounded
PROPERTIES
    DocumentedTransitions
    LeaseReturned
CHECK_DEADLOCK FALSE

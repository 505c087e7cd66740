SPECIFICATION FairSpec
CONSTANTS
    Keys = {k1, k2}
    Classes = {light}
    PolledClass = light
    ClassOf <- MCClassOf
    JobIds <- MCJobIds
    PendingLimit <- MCPendingLimit
    RunningLimit <- MCRunningLimit
    Unhandled = {k2}
    Workers = {w1, w2}
    Requests = {r1}
    Capacity = 1
    MaxAttempts = 2
    MaxReplays = 1
    MaxCrashes = 1
    Nobody = Nobody
PROPERTIES
    EverythingSettles

SPECIFICATION RecordsSpec
CONSTANTS
    Contents = {a, b}
    RefIds = {r1, r2}
    NoRef = NoRef
    Snapshots = {s}
    Columns = {availability}
    MaxCalls = 5
    Units = {u1, u2}
    Versions = {v1}
    MaxSource = 1
    MaxCursor = 2
    Capacity = 3
    Refill = 2
    Cost = 2
    MaxClock = 4
    MaxBack = 1
    Clients = {c1, c2}
    Variants = {short}
    NoSuggestion = NoSuggestion
    StartWeights = {22, 100, 197}
    MaxFeedback = 2
SYMMETRY Symmetry
INVARIANTS
    ReferenceCountAgrees
    AuditExplainsTables
    AdmissionBounded
    CacheFresh
    WeightsFollowFeedback
PROPERTIES
    CursorMovesOn
CHECK_DEADLOCK FALSE

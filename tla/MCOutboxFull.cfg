SPECIFICATION FairSpec
CONSTANTS
    e1 = e1
    e2 = e2
    e3 = e3
    p1 = p1
    p2 = p2
    Elements <- TwoElements
    Posts <- MCPosts
    PostOf <- TwoPostOf
    TooLarge = {}
    Alarm = Alarm
    SessionLimit = 2
    MaxItems = 1
    MaxRestarts = 1
INVARIANTS
    OutboxSound
PROPERTIES
    PendingIsReleased

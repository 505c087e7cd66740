SPECIFICATION Spec
CONSTANTS
    e1 = e1
    e2 = e2
    e3 = e3
    p1 = p1
    p2 = p2
    Elements <- MCElements
    Posts <- MCPosts
    PostOf <- MCPostOf
    TooLarge = {}
    Alarm = Alarm
    SessionLimit = 3
    MaxItems = 2
    MaxRestarts = 1
INVARIANTS
    OneFlushAtATime
    OutboxSound
    SentIsStored
SYMMETRY TwoAlike

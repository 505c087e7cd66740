SPECIFICATION FilesSpec
CONSTANTS
    Contents = {a, b, z}
    Empty = z
    Large = none
    FileSuffixes = {png}
    RefIds = {r1}
    Urls = {u}
    Targets = {0, 1}
    MaxTime = 1
    MaxCrashes = 1
    Policies = {"thumbnail", "original"}
    SizeOf <- MCSizeOf
    TTLs <- MCTTLs
    Never = Never
    NoPath = NoPath
    Session1 = session1
    Session2 = session2
    Sessions <- MCSessions
    MaxTasks = 3
    MaxFaults = 1
    Size = 2
    Pictures <- MCPictures
    Foreign = {{}}
    Threshold = 1
    MaxHashes = 4
    NoDuration = NoDuration
    Durations <- MCDurations
    ClipPolicies <- MCClipPolicies
    Terms = {"gol", "mac"}
    Items <- MCItems
    MaxItems = 3
    Tweets <- MCTweets
    Limit = 3
    TopN = 2
    TopWords = 1
SYMMETRY Symmetry
INVARIANTS
    KeptFileIsThere
    DirectoryAgrees
    BoardIdsUnique
    ClustersAreComponents
    FramesInside
    RankingsAreRight
PROPERTIES
    EvidenceIsKept
    CollectionMeetsTarget
    BoardLossNeedsOldCopy
    MediaOnlyAdds
CHECK_DEADLOCK FALSE

SPECIFICATION Spec
CONSTANTS
    Contents = {a, b}
    Empty = z
    Large = b
    FileSuffixes = {png}
    RefIds = {r1}
    Urls = {}
    Targets = {0}
    MaxTime = 1
    MaxCrashes = 1
    Policies = {"thumbnail", "original"}
    SizeOf <- MCSizeOf
    TTLs <- MCTTLs
    Never = Never
    NoPath = NoPath
INVARIANT
    NamedFileIsWhole

SPECIFICATION FairSpec
CONSTANTS
    Processes = {p1, p2, p3}
    OldRelease = {p1}
    ChangedRelease = {p3}
    NoProcess = NoProcess
    Last = 2
    Release <- MCRelease
    Statements <- MCStatements
    Checksums <- MCChecksums
    Checksum <- MCChecksum
    MaxWrites = 1
    MaxCrashes = 1
INVARIANTS
    RecordedIsComplete
    ReadyIsMigrated
    NoGap
PROPERTIES
    EverybodyConnects

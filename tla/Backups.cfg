\* Backups, expiry, verification and a restore, with two faults.
CONSTANTS
    Proc = {p1}
    Includes = {{"database", "volume"}, {"database"}}
    MaxRun = 2
    MaxWrites = 1
    MaxFaults = 2
    NoObject = NoObject  NoSnapshot = NoSnapshot  NoProc = NoProc
SPECIFICATION FairSpec
INVARIANTS AlwaysRestorable LiveIsWhole
PROPERTIES EveryJobEnds ContainersComeBack
CHECK_DEADLOCK FALSE

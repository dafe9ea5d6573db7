\* A restore whose context ends before the swap: what a comment of restoreVolume says, and the code does not do.
CONSTANTS
    Proc = {p1}
    Includes = {{"database", "volume"}, {"database"}}
    MaxRun = 2
    MaxWrites = 1
    MaxFaults = 2
    NoObject = NoObject  NoSnapshot = NoSnapshot  NoProc = NoProc
SPECIFICATION Spec
INVARIANT FailureRollsBack
CHECK_DEADLOCK FALSE

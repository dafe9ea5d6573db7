\* A sweep and a user who arms twice, while the pull request and the role change, with one fault.
CONSTANTS
    Worker = {w1}
    User = {u1}
    MaxAttempts = 2
    MaxHead = 2
    MaxArm = 2
    MaxMoves = 3
    MaxFaults = 1
SPECIFICATION FairSpec
INVARIANTS OnlyArmedHead MergedIsTrue MergesAlone
PROPERTIES DisarmedStays ReadyIsMerged
CHECK_DEADLOCK FALSE

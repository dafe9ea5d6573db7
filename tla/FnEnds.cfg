\* A run of a function of every shape, under the kill switch, deletion and two faults.
CONSTANTS
    Node = {n1}
    Proc = {p1}
    Caller = {c1}
    Shapes <- AllShapes
    MaxConcurrency = 1
    MaxParallel = 1
    Timeout = 1
    Grace = 0
    MaxRun = 1
    MaxFires = 1
    MaxSwitch = 1
    MaxFaults = 2
SPECIFICATION FairSpec
PROPERTIES PoolImplemented EveryRunEnds TunnelDropped
CHECK_DEADLOCK FALSE

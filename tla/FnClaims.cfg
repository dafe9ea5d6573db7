\* Two nodes and two processes over two runs.
CONSTANTS
    Node = {n1, n2}
    Proc = {p1, p2}
    Caller = {c1}
    Shapes <- ClaimShapes
    MaxConcurrency = 1
    MaxParallel = 1
    Timeout = 0
    Grace = 0
    MaxRun = 2
    MaxFires = 1
    MaxSwitch = 0
    MaxFaults = 0
SPECIFICATION Spec
INVARIANTS CronFiresOnce
PROPERTIES PoolImplemented
CHECK_DEADLOCK FALSE
SYMMETRY Machines

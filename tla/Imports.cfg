\* A request made three times, in two processes, while others make a project or a repository, with one fault.
CONSTANTS
    Import = {i1}
    Proc = {p1, p2}
    Client = {c1, c2}
    Worker = {w1, w2}
    MaxSlug = 2
    Request <- NewAndInto
    MaxAsks = 3
    MaxOthers = 1
    MaxFaults = 1
SPECIFICATION FairSpec
INVARIANTS ReportsAreTrue
PROPERTIES NamesComeFree
CHECK_DEADLOCK FALSE

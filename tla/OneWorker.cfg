\* One process that crashes, shuts down and loses statements, over Lambda and Docker deployments.
CONSTANTS
    Proc = {pr1}
    Kind = {"docker", "lambda"}
    MaxDep = 2
    MaxNow = 1
    Stale = 0
    maxRetries = 1
    MaxFaults = 2
SPECIFICATION FairSpec
INVARIANTS RetriesBounded RolloutsAccounted SuccessWasRolledOut
PROPERTIES OutcomeStays EveryDeploymentEnds

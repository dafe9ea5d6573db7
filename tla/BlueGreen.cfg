\* Rollouts with failed docker calls, a crash and a shutdown.
CONSTANTS
    Exclusive = {TRUE, FALSE}
    Port = {1, 2}
    MaxRollout = 3
    MaxFaults = 2
    MaxStops = 1
SPECIFICATION Spec
INVARIANTS OnlyVerifiedServes KeptIsServing FailureLeavesOld
PROPERTIES OldKeptUntilVerified

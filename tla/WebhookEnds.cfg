\* Two processes dispatch, sweep and send one event, with one fault.
CONSTANTS
    Proc = {p1, p2}
    Client = {}
    Hook = {h1}
    Event = {e1}
    MaxWebhooks = 1
    maxAttempts = 2
    MaxAttempts = 2
    MaxRow = 1
    MaxCalls = 0
    MaxFaults = 1
SPECIFICATION FairSpec
INVARIANTS SendsBounded
PROPERTIES OutcomeStays EveryEventDispatched EveryDeliveryEnds
CHECK_DEADLOCK FALSE

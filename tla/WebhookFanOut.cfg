\* One event and two webhooks, while a client changes them, with one fault.
CONSTANTS
    Proc = {p1}
    Client = {c1}
    Hook = {h1, h2}
    Event = {e1}
    MaxWebhooks = 2
    maxAttempts = 2
    MaxAttempts = 1
    MaxRow = 2
    MaxCalls = 1
    MaxFaults = 1
SPECIFICATION Spec
INVARIANTS OncePerEvent FanOutComplete
CHECK_DEADLOCK FALSE
SYMMETRY Machines

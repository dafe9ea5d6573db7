\* Decisions racing one policy change and the loop, and concurrent and retried
\* requests to two environments, the second fed from the first.
CONSTANTS
    u1 = u1  u2 = u2  u3 = u3  e1 = e1  e2 = e2  c1 = c1  c2 = c2
    Capsule = Capsule  NoEnv = NoEnv  NoSource = NoSource  NoKey = NoKey
    Unread = Unread  Failed = Failed
    Role <- MCRole
    Env = {e1, e2}
    Sha = {s1}
    User = {u1, u2}
    Policies <- RequestPolicies
    Source = {a1}
    Key = {k1}
    Client = {c1, c2}
    Proc = {pr1}
    Admin = {ad1}
    MaxPromo = 2
    MaxDep = 2
    MaxNow = 0
    Expiry = 1
    Grace = 0
    DeployTimeout = 0
    MaxFaults = 0
    MaxChanges = 1
SPECIFICATION Spec
CONSTRAINT Scenarios
SYMMETRY People
INVARIANTS QuorumHonoured QuorumNotMissed SourceEnvironmentHonoured NoDuplicateRequest
PROPERTIES FinalIsFinal

\* Failed calls and crashes anywhere in Tick; every promotion ends.
CONSTANTS
    u1 = u1  u2 = u2  u3 = u3  e1 = e1  e2 = e2  c1 = c1  c2 = c2
    Capsule = Capsule  NoEnv = NoEnv  NoSource = NoSource  NoKey = NoKey
    Unread = Unread  Failed = Failed
    Role <- MCRole
    Env = {e1}
    Sha = {s1}
    User = {u1}
    Policies <- TimePolicies
    Source = {a1}
    Key = {}
    Client = {c1}
    Proc = {pr1}
    Admin = {}
    MaxPromo = 1
    MaxDep = 3
    MaxNow = 3
    Expiry = 2
    Grace = 0
    DeployTimeout = 1
    MaxFaults = 2
    MaxChanges = 0
SPECIFICATION FairSpec
INVARIANTS SuccessWasDeployed DeploymentsAccounted HistoryMirrors
PROPERTIES EveryPromotionEnds

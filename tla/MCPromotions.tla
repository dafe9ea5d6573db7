---------------------------- MODULE MCPromotions ----------------------------
(* Instances of Promotions for TLC: people, policies and windows.          *)
EXTENDS Promotions, TLC

CONSTANTS u1, u2, u3, e1, e2, c1, c2

People == Permutations({u1, u2}) \cup Permutations({c1, c2})
Clients == Permutations({c1, c2})

MCRole == [u \in User |-> IF u = u3 THEN "deployer" ELSE "admin"]

Always == Instant

Base == [required |-> 1, allowSelf |-> FALSE, wait |-> 0, open |-> Always,
         reviewers |-> {"admin"}, production |-> FALSE, strict |-> FALSE, auto |-> FALSE, source |-> NoEnv]

\* Two approvals that may include the requester's own; strict conditions.
Strict == [Base EXCEPT !.required = 2, !.allowSelf = TRUE, !.strict = TRUE]

\* No approvals, but a wait.
Free == [Base EXCEPT !.required = 0, !.wait = 1]

\* No approvals and no conditions.
Open == [Base EXCEPT !.required = 0]

\* A second environment fed from the first.
Prod == [Base EXCEPT !.required = 0, !.source = e1]

\* Only the first instant is inside a deployment window.
Windowed == [Base EXCEPT !.required = 0, !.open = {0} \cup (2..(MaxNow + Expiry))]

ApprovalPolicies == {Base, Strict}
ChainPolicies == {Open, Prod}
RequestPolicies == ApprovalPolicies \cup ChainPolicies

\* One promotion of e1, two people deciding on it while its policy changes.
Deciding ==
    /\ inForce[e1] \subseteq ApprovalPolicies /\ inForce[e2] = {Prod}
    /\ \A c \in Client : req[c].key = NoKey /\ req[c].env \in {NoEnv, e1}
    /\ \A p \in Promo \ {1} : promo[p].status = "none"

\* Two promotions of one person's requests, which may carry the key or not;
\* nobody changes a policy.
Requesting ==
    /\ \A e \in Env : policy[e] \in ChainPolicies
    /\ changes = MaxChanges
    /\ Cardinality(({req[c].user : c \in Client} \cup {promo[p].by : p \in Promo}) \cap User) <= 1

\* The run about requests and decisions explores both scenarios.
Scenarios == Deciding \/ Requesting
TimePolicies == {Free, Windowed}
=============================================================================

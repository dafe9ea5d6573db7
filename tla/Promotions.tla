----------------------------- MODULE Promotions -----------------------------
(***************************************************************************)
(* Promotions of commits to environments: internal/environments (service,  *)
(* gate, tick) over internal/repository/environment_repo.go.               *)
(*                                                                         *)
(* One step is one database transaction (or one read that later steps rely *)
(* on).  What a handler or the loop read earlier and uses later is kept in *)
(* req (API requests in flight), put (policy changes being applied) and    *)
(* tick (one loop per server process).  Promotions are numbered in the     *)
(* order of their created_at, so "oldest first" is the least number.       *)
(***************************************************************************)
EXTENDS Integers, FiniteSets

CONSTANTS
    Env,          \* environments
    Sha,          \* commits
    User,         \* people
    Capsule,      \* the requester of auto_deploy promotions (requested_by NULL)
    Role,         \* Role[u]: effective project role, "none" when not a member
    Policies,     \* the policies administrators may give an environment
    Source,       \* stored sources (artifacts)
    Key,          \* idempotency keys clients use
    Client,       \* concurrent API requests
    Proc,         \* server processes, each running RunLoop
    Admin,        \* concurrent PutEnv requests
    NoEnv, NoSource, NoKey, Unread, Failed, \* absent values
    MaxPromo,     \* bound: promotions ever requested
    MaxDep,       \* bound: deployments ever created
    MaxNow,       \* bound: instants
    Expiry,       \* ExpiryAfter, 72 h
    Grace,        \* the 2 minutes poll waits before relaunching
    DeployTimeout,\* Config.DeployTimeout, 60 min
    MaxFaults,    \* bound: failed calls and crashes
    MaxChanges    \* bound: policy changes and changes around the component

Promo == 1..MaxPromo
Dep == 1..MaxDep
NoDep == 0
NoTime == -1
Instant == 0..(MaxNow + Expiry)

Waitable == {"pending_approval", "waiting", "approved"}
Active == Waitable \cup {"deploying"}
Final == {"success", "failed", "rejected", "cancelled", "expired"}
Status == {"none"} \cup Active \cup Final
PastQuorum == {"waiting", "approved", "deploying", "success", "failed"}
HistoryStatus == (Status \ {"approved"}) \cup {"queued"}

Requester == User \cup {Capsule}

\* The part of an environment row the gates read.  strict stands for the
\* branch, check and security requirements, open for the deployment windows,
\* reviewers for the approver list (people and roles).
Policy == [required : Nat, allowSelf : BOOLEAN, wait : Nat, open : SUBSET Instant,
           reviewers : SUBSET (User \cup {"admin", "deployer"}),
           production : BOOLEAN, strict : BOOLEAN, auto : BOOLEAN, source : Env \cup {NoEnv}]

Promotion == [status : Status, env : Env, sha : Sha, from : Env \cup {NoEnv},
              by : Requester, key : Key \cup {NoKey}, approvals : SUBSET User,
              quorumAt : Instant \cup {NoTime}, expiresAt : Instant,
              startedAt : Instant \cup {NoTime}, src : Source \cup {NoSource},
              dep : Dep \cup {NoDep}]

ASSUME ConstantsAssumption ==
    /\ MaxPromo \in Nat /\ MaxDep \in Nat /\ MaxNow \in Nat /\ Expiry \in Nat
    /\ Grace \in Nat /\ DeployTimeout \in Nat /\ MaxFaults \in Nat /\ MaxChanges \in Nat
    /\ Policies \subseteq Policy
    /\ Role \in [User -> {"admin", "deployer", "viewer", "none"}]
    /\ IsFiniteSet(User) /\ Env # {} /\ Sha # {}
    /\ Capsule \notin User /\ NoEnv \notin Env /\ NoSource \notin Source
    /\ NoKey \notin Key /\ Unread \notin Policies /\ Failed \notin Policies
    /\ Unread # Failed

VARIABLES
    now,      \* the clock
    policy,   \* environments: the policy row of each environment
    promo,    \* promotions (with promotion_approvals)
    hist,     \* environment_deployments: the history row of each promotion
    deps,     \* deployments created by promotions
    clear,    \* commits that currently meet the strict conditions
    stored,   \* newest stored source of a successful direct deployment of a commit
    req,      \* requests in flight
    put,      \* policy changes in flight
    tick,     \* the loop of each process
    faults,   \* faults left
    changes,  \* changes left
    inForce   \* history variable: the policies each environment has had

rows == <<promo, hist>>
rules == <<policy, inForce>>
outside == <<now, clear, stored, changes>>
vars == <<now, policy, promo, hist, deps, clear, stored, req, put, tick, faults, changes, inForce>>

-----------------------------------------------------------------------------
(* Rows not there yet, and requests, policy changes and loops at rest.     *)

NoPromo == [status |-> "none", env |-> CHOOSE e \in Env : TRUE, sha |-> CHOOSE x \in Sha : TRUE,
            from |-> NoEnv, by |-> Capsule, key |-> NoKey, approvals |-> {}, quorumAt |-> NoTime,
            expiresAt |-> 0, startedAt |-> NoTime, src |-> NoSource, dep |-> NoDep]

NoReq == [kind |-> "none", user |-> Capsule, env |-> NoEnv, sha |-> CHOOSE x \in Sha : TRUE, from |-> NoEnv,
          key |-> NoKey, promo |-> 0, pol |-> Unread, src |-> NoSource, at |-> 0]

NoPut == [pc |-> "idle", env |-> NoEnv, pol |-> Unread, at |-> 0, todo |-> {},
          snap |-> [p \in Promo |-> NoPromo]]

TickIdle == [pc |-> "idle", at |-> 0, todo |-> {}, snap |-> [p \in Promo |-> NoPromo],
             cache |-> [e \in Env |-> Unread], busy |-> {}, ready |-> {}, cur |-> 0,
             src |-> NoSource, dep |-> NoDep]

Oldest(n, S) == n \in S /\ \A m \in S : n <= m

-----------------------------------------------------------------------------
(* gate.go and window.go: the pure rules.                                  *)

\* Approvals that count: the requester's own only when the policy allows it.
CountApprovals(pol, p) ==
    Cardinality(IF pol.allowSelf THEN p.approvals ELSE p.approvals \ {p.by})

\* Where a promotion whose approvals were satisfied at q goes at instant t.
NextAfterQuorum(pol, q, t) ==
    IF q + pol.wait <= t /\ t \in pol.open THEN "approved" ELSE "waiting"

\* The row a non-final promotion should have at instant t.
Advance(pol, p, t) ==
    IF p.status = "pending_approval"
    THEN IF CountApprovals(pol, p) < pol.required THEN p
         ELSE [p EXCEPT !.status = NextAfterQuorum(pol, t, t), !.quorumAt = t]
    ELSE LET q == IF p.quorumAt = NoTime THEN t ELSE p.quorumAt
         IN  [p EXCEPT !.status = NextAfterQuorum(pol, q, t), !.quorumAt = q]

\* advance: row with what Advance says of the snapshot old of it.
Advanced(pol, old, t, row) ==
    LET adv == Advance(pol, old, t)
    IN  [row EXCEPT !.status = adv.status, !.quorumAt = adv.quorumAt]

\* The approver list decides, never the role alone.
IsApprover(pol, u) ==
    /\ Role[u] # "none"
    /\ u \in pol.reviewers \/ Role[u] \in pol.reviewers

\* canDecide: who may approve (or reject) promotion p under policy pol.
CanDecide(pol, p, u, approve) ==
    /\ p.status \in (IF approve THEN {"pending_approval"} ELSE Waitable)
    /\ IsApprover(pol, u)
    /\ pol.production => Role[u] = "admin"
    /\ approve /\ p.by = u => pol.allowSelf
    /\ u \notin p.approvals

\* hasEligibleApprover: somebody other than the requester could approve.
HasEligibleApprover(pol, by) ==
    \/ pol.required = 0 \/ pol.allowSelf
    \/ \E u \in (pol.reviewers \cap User) \ {by} : Role[u] # "none"
    \/ "admin" \in pol.reviewers /\ \E u \in User \ {by} : Role[u] = "admin"
    \/ "deployer" \in pol.reviewers

\* Normalize: what the API accepts as a policy.
ValidPolicy(e, pol) ==
    /\ pol.required <= 5
    /\ pol.production => pol.required >= 1 /\ "deployer" \notin pol.reviewers
    /\ pol.required > 0 => pol.reviewers # {}
    /\ pol.required > 0 /\ pol.reviewers \subseteq User /\ ~pol.allowSelf
          => Cardinality(pol.reviewers) > pol.required
    /\ pol.source # e
    \* checkEnvRefs
    /\ \A u \in pol.reviewers \cap User :
          Role[u] # "none" /\ (pol.production => Role[u] = "admin")

\* Mutant: any history row with a deployment counts as a success.
SuccessfulSHAMutant(e, sha) ==
    LET done == {p \in Promo : promo[p].env = e /\ promo[p].sha = sha /\ hist[p].dep # NoDep}
    IN  IF done = {} THEN NoSource ELSE deps[hist[CHOOSE p \in done : TRUE].dep].src

\* SuccessfulSHA: the stored source of the newest success of sha in environment e.
SuccessfulSHA(e, sha) ==
    LET done == {p \in Promo : /\ promo[p].env = e /\ promo[p].sha = sha
                               /\ hist[p].status = "success" /\ hist[p].dep # NoDep}
        newest == {p \in done : \A q \in done : q <= p}
    IN  IF newest = {} THEN NoSource ELSE deps[hist[CHOOSE p \in newest : TRUE].dep].src

\* checkStatic: the source to deploy when every commit condition holds,
\* NoSource when a condition fails (a *ConflictError or *PolicyError).
CheckStatic(pol, sha, from) ==
    LET wanted == IF pol.source # NoEnv THEN pol.source ELSE from
    IN  IF \/ pol.strict /\ sha \notin clear
           \/ pol.source # NoEnv /\ from \notin {NoEnv, pol.source}
        THEN NoSource
        ELSE IF wanted # NoEnv THEN SuccessfulSHA(wanted, sha) ELSE stored[sha]

-----------------------------------------------------------------------------
(* environment_repo.go: the transactions.                                  *)

EnvDeploymentStatus(st) == IF st = "approved" THEN "queued" ELSE st

\* uq_promotions_one_deploying: one deploying promotion per environment.
SlotFree(p) ==
    \A q \in Promo \ {p} : ~(promo[q].status = "deploying" /\ promo[q].env = promo[p].env)

\* Mutant: the update does not check the current status.
CanTransitionMutant(p, from, to) == to = "deploying" => SlotFree(p)

\* The row of p is in one of the from states and may become to.
CanTransition(p, from, to) ==
    /\ promo[p].status \in from
    /\ to = "deploying" => SlotFree(p)

\* Row and history row written in one transaction (syncHistory).
Write(p, row) ==
    /\ promo' = [promo EXCEPT ![p] = row]
    /\ hist' = [hist EXCEPT ![p] = [status |-> EnvDeploymentStatus(row.status),
                                    dep |-> IF @.dep # NoDep THEN @.dep ELSE row.dep]]

\* Transition: write row if p is still in from, otherwise report false.
Transition(p, from, row) ==
    /\ CanTransition(p, from, row.status)
    /\ Write(p, row)

Refused(p, from, to) ==
    /\ ~CanTransition(p, from, to)
    /\ UNCHANGED rows

\* Mutant: the promotion's own row is forgotten.
SetDeploymentHistoryOnly(p, d) == hist' = [hist EXCEPT ![p].dep = d] /\ UNCHANGED promo

\* SetDeployment: unconditional, both rows in one transaction.
SetDeployment(p, d) ==
    /\ promo' = [promo EXCEPT ![p].dep = d]
    /\ hist' = [hist EXCEPT ![p].dep = d]

\* One call fails (a database, forge or storage error).
Fault == faults > 0 /\ faults' = faults - 1
NoFault == UNCHANGED faults

\* One of the bounded number of changes.
Change == changes > 0 /\ changes' = changes - 1

\* uq_promotions_idempotency.
KeyUsed(u, key) == \E p \in Promo : promo[p].by = u /\ promo[p].key = key

\* Mutant: only the active commit is unique.
InsertableMutant(r) ==
    \A p \in Promo : ~(promo[p].status \in Active /\ promo[p].env = r.env /\ promo[p].sha = r.sha)

\* The insert violates no unique index (the second one: uq_promotions_active_sha).
Insertable(r) ==
    /\ r.key # NoKey => ~KeyUsed(r.user, r.key)
    /\ \A p \in Promo : ~(/\ promo[p].status \in Active
                          /\ promo[p].env = r.env /\ promo[p].sha = r.sha)

Unused == {p \in Promo : promo[p].status = "none"}

\* The row create inserts.
NewRow(r) ==
    LET quorum == r.pol.required = 0
    IN  [status |-> IF quorum THEN NextAfterQuorum(r.pol, r.at, r.at) ELSE "pending_approval",
         env |-> r.env, sha |-> r.sha, from |-> r.from, by |-> r.user, key |-> r.key,
         approvals |-> {}, quorumAt |-> IF quorum THEN r.at ELSE NoTime,
         expiresAt |-> r.at + Expiry, startedAt |-> NoTime, src |-> r.src, dep |-> NoDep]

\* Mutants: one approval too few, and the count taken before the insert.
ApprovedTooFew(d, row) ==
    LET next == [row EXCEPT !.approvals = @ \cup {d.user}]
    IN  IF CountApprovals(d.pol, next) + 1 >= d.pol.required
        THEN [next EXCEPT !.status = NextAfterQuorum(d.pol, d.at, d.at), !.quorumAt = d.at] ELSE next
ApprovedStaleCount(d, row) ==
    LET next == [row EXCEPT !.approvals = @ \cup {d.user}]
    IN  IF CountApprovals(d.pol, row) >= d.pol.required
        THEN [next EXCEPT !.status = NextAfterQuorum(d.pol, d.at, d.at), !.quorumAt = d.at] ELSE next

\* AddDecision's approve branch: insert, count under the row lock, move on quorum.
Approved(d, row) ==
    LET next == [row EXCEPT !.approvals = @ \cup {d.user}]
    IN  IF CountApprovals(d.pol, next) >= d.pol.required
        THEN [next EXCEPT !.status = NextAfterQuorum(d.pol, d.at, d.at), !.quorumAt = d.at]
        ELSE next

-----------------------------------------------------------------------------
(* API requests.                                                           *)

\* CreatePromotion up to the insert: policy and conditions are read now.
CreateLoad(c, u, e, sha, from, key) ==
    LET pol == policy[e]
        src == CheckStatic(pol, sha, from)
    IN  /\ req[c] = NoReq
        /\ u \in User => Role[u] \in {"admin", "deployer"} \* env.request
        /\ u = Capsule => pol.auto /\ key = NoKey /\ from = NoEnv \* AutoPromote
        /\ key # NoKey => ~KeyUsed(u, key)
        /\ src # NoSource
        /\ HasEligibleApprover(pol, u)
        /\ req' = [req EXCEPT ![c] = [NoReq EXCEPT !.kind = "create", !.user = u, !.env = e,
                      !.sha = sha, !.from = from, !.key = key, !.pol = pol, !.src = src, !.at = now]]
        /\ UNCHANGED <<outside, rules, rows, deps, put, tick, faults>>

\* CreatePromotion's transaction, or the replay or 409 answer of a duplicate.
CreateInsert(c) ==
    /\ req[c].kind = "create"
    /\ \/ /\ Insertable(req[c])
          /\ \E p \in Promo : Oldest(p, Unused) /\ Write(p, NewRow(req[c]))
       \/ /\ ~Insertable(req[c])
          /\ UNCHANGED rows
    /\ req' = [req EXCEPT ![c] = NoReq]
    /\ UNCHANGED <<outside, rules, deps, put, tick, faults>>

\* decide up to AddDecision: promotion and policy are read without a lock.
DecideLoad(c, u, p, approve) ==
    LET pol == policy[promo[p].env]
    IN  /\ req[c] = NoReq
        /\ CanDecide(pol, promo[p], u, approve)
        /\ req' = [req EXCEPT ![c] = [NoReq EXCEPT !.kind = IF approve THEN "approve" ELSE "reject",
                                        !.user = u, !.promo = p, !.pol = pol, !.at = now]]
        /\ UNCHANGED <<outside, rules, rows, deps, put, tick, faults>>

\* AddDecision: the row lock serialises decisions; status and decider are
\* checked again, the policy is the one decide read.
AddDecision(c) ==
    LET d == req[c]
        row == promo[d.promo]
        from == IF d.kind = "approve" THEN {"pending_approval"} ELSE Waitable
    IN  /\ d.kind \in {"approve", "reject"}
        /\ IF row.status \in from /\ d.user \notin row.approvals
           THEN Write(d.promo, IF d.kind = "approve" THEN Approved(d, row)
                               ELSE [row EXCEPT !.status = "rejected"])
           ELSE UNCHANGED rows
        /\ req' = [req EXCEPT ![c] = NoReq]
        /\ UNCHANGED <<outside, rules, deps, put, tick, faults>>

\* Cancel: the requester or an environment admin, before deploying.
Cancel(u, p) ==
    /\ promo[p].by = u \/ Role[u] = "admin"
    /\ Transition(p, Waitable, [promo[p] EXCEPT !.status = "cancelled"])
    /\ UNCHANGED <<outside, rules, deps, req, put, tick, faults>>

\* The client goes away or the process dies before the request's transaction.
AbandonRequest(c) ==
    /\ req[c] # NoReq
    /\ Fault
    /\ req' = [req EXCEPT ![c] = NoReq]
    /\ UNCHANGED <<outside, rules, rows, deps, put, tick>>

-----------------------------------------------------------------------------
(* PutEnv and reevaluate.                                                  *)

\* PutEnv's UpdateEnv.
PutEnv(a, e, pol) ==
    /\ put[a] = NoPut
    /\ pol # policy[e] /\ Change
    /\ ValidPolicy(e, pol)
    /\ policy' = [policy EXCEPT ![e] = pol]
    /\ inForce' = [inForce EXCEPT ![e] = @ \cup {pol}]
    /\ put' = [put EXCEPT ![a] = [NoPut EXCEPT !.pc = "list", !.env = e, !.pol = pol]]
    /\ UNCHANGED <<rows, now, deps, clear, stored, req, tick, faults>>

\* reevaluate lists the promotions of the environment that are not deploying.
ReevaluateList(a) ==
    /\ put[a].pc = "list"
    /\ put' = [put EXCEPT ![a].pc = "visit", ![a].at = now, ![a].snap = promo,
                 ![a].todo = {p \in Promo : promo[p].env = put[a].env /\ promo[p].status \in Waitable}]
    /\ UNCHANGED <<outside, rules, rows, deps, req, tick, faults>>

\* reevaluate on the next promotion: cancel it, or advance it, or (when the
\* conditions could not be read, or the row moved on) leave it.
ReevaluateVisit(a) ==
    /\ put[a].pc = "visit"
    /\ \E p \in Promo :
         LET old == put[a].snap[p]
             blocked == CheckStatic(put[a].pol, old.sha, old.from) = NoSource
             new == IF blocked THEN [promo[p] EXCEPT !.status = "cancelled"]
                    ELSE Advanced(put[a].pol, old, put[a].at, promo[p])
         IN  /\ Oldest(p, put[a].todo)
             /\ \/ Transition(p, {old.status}, new) /\ NoFault
                \/ Refused(p, {old.status}, new.status) /\ NoFault
                \/ Fault /\ UNCHANGED rows
             /\ put' = [put EXCEPT ![a].todo = @ \ {p}]
    /\ UNCHANGED <<outside, rules, deps, req, tick>>

\* PutEnv returns, or its process dies and the rest is never reevaluated.
PutEnd(a) ==
    /\ put[a] # NoPut
    /\ \/ put[a].pc = "visit" /\ put[a].todo = {} /\ NoFault
       \/ Fault
    /\ put' = [put EXCEPT ![a] = NoPut]
    /\ UNCHANGED <<outside, rules, rows, deps, req, tick>>

-----------------------------------------------------------------------------
(* Tick: one loop per process.                                             *)

\* Mutant: the rows to sync are looked up after the UPDATE, when none is overdue.
TickExpireMutant(pr) ==
    LET over == {p \in Promo : promo[p].status \in Waitable /\ promo[p].expiresAt <= now}
    IN  /\ tick[pr] = TickIdle /\ NoFault
        /\ promo' = [p \in Promo |-> IF p \in over THEN [promo[p] EXCEPT !.status = "expired"]
                                     ELSE promo[p]]
        /\ tick' = [tick EXCEPT ![pr].pc = "sync", ![pr].at = now]
        /\ UNCHANGED <<outside, rules, hist, deps, req, put>>

\* Tick starts: ExpireOverdue's UPDATE.
TickExpire(pr) ==
    LET over == {p \in Promo : promo[p].status \in Waitable /\ promo[p].expiresAt <= now}
    IN  /\ tick[pr] = TickIdle
        /\ \/ /\ promo' = [p \in Promo |-> IF p \in over THEN [promo[p] EXCEPT !.status = "expired"]
                                          ELSE promo[p]]
              /\ tick' = [tick EXCEPT ![pr].pc = "sync", ![pr].at = now, ![pr].todo = over]
              /\ NoFault
           \/ /\ tick' = [tick EXCEPT ![pr].pc = "sync", ![pr].at = now]
              /\ UNCHANGED promo /\ Fault
        /\ UNCHANGED <<outside, rules, hist, deps, req, put>>

\* ExpireOverdue's syncHistory of one expired row, outside that UPDATE.  An
\* error drops the rows not synced yet.
TickSync(pr) ==
    /\ tick[pr].pc = "sync"
    /\ \E p \in Promo :
         /\ Oldest(p, tick[pr].todo)
         /\ \/ Write(p, promo[p]) /\ NoFault /\ tick' = [tick EXCEPT ![pr].todo = @ \ {p}]
            \/ UNCHANGED rows /\ Fault /\ tick' = [tick EXCEPT ![pr].todo = {}]
    /\ UNCHANGED <<outside, rules, deps, req, put>>

\* ListActive; an error ends this Tick.
TickList(pr) ==
    /\ tick[pr].pc = "sync" /\ tick[pr].todo = {}
    /\ \/ /\ tick' = [tick EXCEPT ![pr].pc = "loop", ![pr].snap = promo,
                        ![pr].todo = {p \in Promo : promo[p].status \in Active}]
          /\ NoFault
       \/ tick' = [tick EXCEPT ![pr] = TickIdle] /\ Fault
    /\ UNCHANGED <<outside, rules, rows, deps, req, put>>

\* getEnv: the environment is read once per Tick and cached, a failure too.
TickGetEnv(pr) ==
    /\ tick[pr].pc = "loop"
    /\ \E p \in Promo :
         LET e == tick[pr].snap[p].env
         IN  /\ Oldest(p, tick[pr].todo) /\ tick[pr].cache[e] = Unread
             /\ \/ tick' = [tick EXCEPT ![pr].cache[e] = policy[e]] /\ NoFault
                \/ tick' = [tick EXCEPT ![pr].cache[e] = Failed] /\ Fault
    /\ UNCHANGED <<outside, rules, rows, deps, req, put>>

\* The environment could not be read: its promotions are skipped.
TickSkip(pr) ==
    /\ tick[pr].pc = "loop"
    /\ \E p \in Promo :
         /\ Oldest(p, tick[pr].todo) /\ tick[pr].cache[tick[pr].snap[p].env] = Failed
         /\ tick' = [tick EXCEPT ![pr].todo = @ \ {p}]
    /\ UNCHANGED <<outside, rules, rows, deps, req, put, faults>>

\* p is the promotion Tick looks at next, and its environment has been read.
Visiting(t, p) ==
    /\ t.pc = "loop" /\ Oldest(p, t.todo)
    /\ t.cache[t.snap[p].env] \in Policies

\* advance: persist what Advance says; p is ready when it ends up approved.
TickAdvance(pr, p) ==
    LET t == tick[pr]
        old == t.snap[p]
        new == Advanced(t.cache[old.env], old, t.at, promo[p])
        Seen(st) == tick' = [tick EXCEPT ![pr].todo = @ \ {p},
                               ![pr].ready = IF st = "approved" THEN @ \cup {p} ELSE @]
    IN  /\ Visiting(t, p) /\ old.status \in Waitable
        /\ \/ new.status = old.status /\ Seen(old.status) /\ UNCHANGED rows /\ NoFault
           \/ /\ new.status # old.status
              /\ \/ Transition(p, {old.status}, new) /\ Seen(new.status) /\ NoFault
                 \/ Refused(p, {old.status}, new.status) /\ Seen(old.status) /\ NoFault
                 \/ Seen(old.status) /\ UNCHANGED rows /\ Fault
        /\ UNCHANGED <<outside, rules, deps, req, put>>

\* What poll leaves for Tick: the environment is busy unless p was finished.
Polled(pr, p, done) ==
    tick' = [tick EXCEPT ![pr].todo = @ \ {p},
               ![pr].busy = IF done THEN @ ELSE @ \cup {tick[pr].snap[p].env}]

\* poll's finish: end the deploying promotion, or leave it when the row moved
\* on or the write fails.
Finish(pr, p, to) ==
    \/ Transition(p, {"deploying"}, [promo[p] EXCEPT !.status = to]) /\ Polled(pr, p, TRUE) /\ NoFault
    \/ Refused(p, {"deploying"}, to) /\ Polled(pr, p, FALSE) /\ NoFault
    \/ UNCHANGED rows /\ Polled(pr, p, FALSE) /\ Fault

\* Mutants: a cancelled deployment passes, and a silent one is awaited for ever.
VerdictCancelledPasses(st, late) ==
    IF st \in {"success", "cancelled"} THEN "success" ELSE IF st = "failed" \/ late THEN "failed" ELSE "none"
VerdictNoTimeout(st, late) ==
    IF st = "success" THEN "success" ELSE IF st = "open" THEN "none" ELSE "failed"

\* poll's switch: what a deployment's status says of its promotion.
Verdict(st, late) ==
    CASE st = "success" -> "success"
      [] st \in {"failed", "cancelled"} -> "failed"
      [] OTHER -> IF late THEN "failed" ELSE "none"

\* poll with a deployment id: follow the deployment.
TickPoll(pr, p) ==
    LET t == tick[pr]
        late == t.at - t.snap[p].startedAt > DeployTimeout
        verdict == Verdict(deps[t.snap[p].dep].status, late)
    IN  /\ Visiting(t, p) /\ t.snap[p].status = "deploying" /\ t.snap[p].dep # NoDep
        /\ \/ verdict # "none" /\ Finish(pr, p, verdict)
           \/ verdict = "none" /\ Polled(pr, p, FALSE) /\ UNCHANGED rows /\ NoFault
           \/ Polled(pr, p, FALSE) /\ UNCHANGED rows /\ Fault
        /\ UNCHANGED <<outside, rules, deps, req, put>>

\* poll without a deployment id: after the grace period relaunch the approved
\* source, or fail when it cannot be read any more.
TickRelaunch(pr, p) ==
    LET t == tick[pr]
        old == t.snap[p]
    IN  /\ Visiting(t, p) /\ old.status = "deploying" /\ old.dep = NoDep
        /\ \/ /\ t.at - old.startedAt > Grace
              /\ tick' = [tick EXCEPT ![pr].pc = "launch", ![pr].cur = p, ![pr].src = old.src,
                            ![pr].todo = @ \ {p}, ![pr].busy = @ \cup {old.env}]
              /\ UNCHANGED rows /\ NoFault
           \/ /\ t.at - old.startedAt > Grace /\ Fault
              /\ \/ /\ Transition(p, {"deploying"}, [promo[p] EXCEPT !.status = "failed"])
                    /\ Polled(pr, p, TRUE)
                 \/ Refused(p, {"deploying"}, "failed") /\ Polled(pr, p, FALSE)
           \/ /\ t.at - old.startedAt <= Grace
              /\ Polled(pr, p, FALSE) /\ UNCHANGED rows /\ NoFault
        /\ UNCHANGED <<outside, rules, deps, req, put>>

\* start's conditions, checked again right before deploying (the environments
\* in any order, each one's oldest promotion first).  The source to deploy is
\* the approved one, or the one just found when it cannot be read.
TickStart(pr, p) ==
    LET t == tick[pr]
        old == t.snap[p]
        found == CheckStatic(t.cache[old.env], old.sha, old.from)
        Drop == tick' = [tick EXCEPT ![pr].ready = @ \ {p}]
        ClaimWith(src) == tick' = [tick EXCEPT ![pr].pc = "claim", ![pr].cur = p, ![pr].src = src]
    IN  /\ t.pc = "loop" /\ t.todo = {} /\ Oldest(p, {q \in t.ready : t.snap[q].env = old.env})
        /\ \/ old.env \in t.busy /\ Drop /\ UNCHANGED rows /\ NoFault
           \/ old.env \notin t.busy /\ Drop /\ UNCHANGED rows /\ Fault
           \/ /\ old.env \notin t.busy /\ found = NoSource /\ Drop /\ NoFault
              /\ \/ Transition(p, {"approved"}, [promo[p] EXCEPT !.status = "cancelled"])
                 \/ Refused(p, {"approved"}, "cancelled")
           \/ /\ old.env \notin t.busy /\ found # NoSource /\ UNCHANGED rows
              /\ \/ ClaimWith(old.src) /\ NoFault
                 \/ ClaimWith(found) /\ Fault
        /\ UNCHANGED <<outside, rules, deps, req, put>>

\* Back to Tick's loops; the scratch fields of start and launch are dropped.
Resume(pr, left) ==
    tick' = [tick EXCEPT ![pr].pc = "loop", ![pr].cur = 0, ![pr].src = NoSource,
                         ![pr].dep = NoDep, ![pr].ready = left]

\* start's claim of the environment's slot.
TickClaim(pr) ==
    LET t == tick[pr]
        others == {q \in t.ready : t.snap[q].env # t.snap[t.cur].env}
    IN  /\ t.pc = "claim"
        /\ \/ /\ Transition(t.cur, {"approved"},
                   [promo[t.cur] EXCEPT !.status = "deploying", !.startedAt = t.at])
              /\ tick' = [tick EXCEPT ![pr].pc = "launch", ![pr].ready = others]
              /\ NoFault
           \/ Refused(t.cur, {"approved"}, "deploying") /\ Resume(pr, others) /\ NoFault
           \/ UNCHANGED rows /\ Resume(pr, t.ready \ {t.cur}) /\ Fault
        /\ UNCHANGED <<outside, rules, deps, req, put>>

\* launch: create the queued deployment, or fail the promotion.
TickLaunch(pr) ==
    LET t == tick[pr]
    IN  /\ t.pc = "launch"
        /\ \/ \E d \in Dep :
                /\ Oldest(d, {x \in Dep : deps[x].status = "none"})
                /\ deps' = [deps EXCEPT ![d] = [status |-> "open", promo |-> t.cur, src |-> t.src]]
                /\ tick' = [tick EXCEPT ![pr].pc = "save", ![pr].dep = d]
                /\ UNCHANGED rows /\ NoFault
           \/ /\ Fault
              /\ \/ Transition(t.cur, {"deploying"}, [promo[t.cur] EXCEPT !.status = "failed"])
                 \/ Refused(t.cur, {"deploying"}, "failed")
              /\ Resume(pr, t.ready) /\ UNCHANGED deps
        /\ UNCHANGED <<outside, rules, req, put>>

\* launch's SetDeployment; an error is only logged.
TickSave(pr) ==
    LET t == tick[pr]
    IN  /\ t.pc = "save"
        /\ \/ SetDeployment(t.cur, t.dep) /\ NoFault
           \/ UNCHANGED rows /\ Fault
        /\ Resume(pr, t.ready)
        /\ UNCHANGED <<outside, rules, deps, req, put>>

TickEnd(pr) ==
    /\ tick[pr].pc = "loop" /\ tick[pr].todo = {} /\ tick[pr].ready = {}
    /\ tick' = [tick EXCEPT ![pr] = TickIdle]
    /\ UNCHANGED <<outside, rules, rows, deps, req, put, faults>>

\* The process dies inside Tick; a restarted process begins a new Tick.
Crash(pr) ==
    /\ tick[pr] # TickIdle
    /\ Fault
    /\ tick' = [tick EXCEPT ![pr] = TickIdle]
    /\ UNCHANGED <<outside, rules, rows, deps, req, put>>

-----------------------------------------------------------------------------
(* What happens around the component.                                      *)

Tock ==
    /\ now < MaxNow
    /\ now' = now + 1
    /\ UNCHANGED <<rules, rows, deps, clear, stored, req, put, tick, faults, changes>>

\* A commit starts or stops meeting the strict conditions.
CommitChange(sha) ==
    /\ Change
    /\ clear' = IF sha \in clear THEN clear \ {sha} ELSE clear \cup {sha}
    /\ UNCHANGED <<rules, rows, now, deps, stored, req, put, tick, faults>>

\* The commit is deployed directly again: FindArtifact's newest source changes.
Redeploy(sha, src) ==
    /\ src # stored[sha] /\ Change
    /\ stored' = [stored EXCEPT ![sha] = src]
    /\ UNCHANGED <<rules, rows, now, deps, clear, req, put, tick, faults>>

\* The deploy worker ends a deployment, or a user cancels it (the worker may
\* overwrite the cancellation: see DeployQueue).
DeploymentMoves(d, st) ==
    /\ \/ deps[d].status = "open" /\ st \in {"success", "failed", "cancelled"}
       \/ deps[d].status = "cancelled" /\ st \in {"success", "failed"}
    /\ deps' = [deps EXCEPT ![d].status = st]
    /\ UNCHANGED <<outside, rules, rows, req, put, tick, faults>>

-----------------------------------------------------------------------------
Init ==
    /\ now = 0
    /\ policy \in {f \in [Env -> Policies] : \A e \in Env : ValidPolicy(e, f[e])}
    /\ promo = [p \in Promo |-> NoPromo]
    /\ hist = [p \in Promo |-> [status |-> "none", dep |-> NoDep]]
    /\ deps = [d \in Dep |-> [status |-> "none", promo |-> 0, src |-> NoSource]]
    /\ clear = Sha
    /\ stored \in [Sha -> Source \cup {NoSource}]
    /\ req = [c \in Client |-> NoReq]
    /\ put = [a \in Admin |-> NoPut]
    /\ tick = [pr \in Proc |-> TickIdle]
    /\ faults = MaxFaults
    /\ changes = MaxChanges
    /\ inForce = [e \in Env |-> {policy[e]}]

Request ==
    \/ \E c \in Client :
          \/ \E u \in Requester, e \in Env, sha \in Sha, from \in Env \cup {NoEnv},
                key \in Key \cup {NoKey} : CreateLoad(c, u, e, sha, from, key)
          \/ \E u \in User, p \in Promo, approve \in BOOLEAN : DecideLoad(c, u, p, approve)
          \/ CreateInsert(c) \/ AddDecision(c) \/ AbandonRequest(c)
    \/ \E u \in User, p \in Promo : Cancel(u, p)

PolicyChange ==
    \E a \in Admin :
       \/ \E e \in Env, pol \in Policies : PutEnv(a, e, pol)
       \/ ReevaluateList(a) \/ ReevaluateVisit(a) \/ PutEnd(a)

Tick(pr) ==
    \/ TickExpire(pr) \/ TickSync(pr) \/ TickList(pr) \/ TickGetEnv(pr) \/ TickSkip(pr)
    \/ \E p \in Promo : TickAdvance(pr, p) \/ TickPoll(pr, p) \/ TickRelaunch(pr, p) \/ TickStart(pr, p)
    \/ TickClaim(pr) \/ TickLaunch(pr) \/ TickSave(pr) \/ TickEnd(pr)

World ==
    \/ Tock
    \/ \E sha \in Sha : CommitChange(sha) \/ \E src \in Source : Redeploy(sha, src)
    \/ \E d \in Dep, st \in {"success", "failed", "cancelled"} : DeploymentMoves(d, st)

Next ==
    \/ Request \/ PolicyChange \/ World
    \/ \E pr \in Proc : Tick(pr) \/ Crash(pr)

Spec == Init /\ [][Next]_vars

\* RunLoop's ticker keeps every process ticking and time passes.
Fairness == WF_vars(Tock) /\ \A pr \in Proc : WF_vars(Tick(pr))

FairSpec == Spec /\ Fairness

-----------------------------------------------------------------------------
(* Properties.                                                             *)

ReqType == [kind : {"none", "create", "approve", "reject"}, user : Requester, env : Env \cup {NoEnv}, sha : Sha,
            from : Env \cup {NoEnv}, key : Key \cup {NoKey}, promo : Promo \cup {0},
            pol : Policies \cup {Unread}, src : Source \cup {NoSource}, at : 0..MaxNow]

PutType == [pc : {"idle", "list", "visit"}, env : Env \cup {NoEnv}, pol : Policies \cup {Unread},
            at : 0..MaxNow, todo : SUBSET Promo, snap : [Promo -> Promotion]]

TickType == [pc : {"idle", "sync", "loop", "claim", "launch", "save"}, at : 0..MaxNow,
             todo : SUBSET Promo, snap : [Promo -> Promotion],
             cache : [Env -> Policies \cup {Unread, Failed}], busy : SUBSET Env,
             ready : SUBSET Promo, cur : Promo \cup {0}, src : Source \cup {NoSource},
             dep : Dep \cup {NoDep}]

\* Every variable has its type.
TypeOK ==
    /\ now \in 0..MaxNow
    /\ policy \in [Env -> Policies]
    /\ promo \in [Promo -> Promotion]
    /\ hist \in [Promo -> [status : HistoryStatus, dep : Dep \cup {NoDep}]]
    /\ deps \in [Dep -> [status : {"none", "open", "success", "failed", "cancelled"},
                         promo : Promo \cup {0}, src : Source \cup {NoSource}]]
    /\ clear \subseteq Sha
    /\ stored \in [Sha -> Source \cup {NoSource}]
    /\ req \in [Client -> ReqType]
    /\ put \in [Admin -> PutType]
    /\ tick \in [Proc -> TickType]
    /\ faults \in 0..MaxFaults
    /\ changes \in 0..MaxChanges
    /\ inForce \in [Env -> SUBSET Policies]

\* The queue: whatever the processes and their ticks do, at most one promotion
\* of an environment is deploying.
OneDeploying ==
    \A p, q \in Promo :
       promo[p].status = "deploying" /\ promo[q].status = "deploying" /\ promo[p].env = promo[q].env
       => p = q

\* Nothing gets past approval unless its approvals satisfy a policy the
\* environment really had: stale reads in decide, create, reevaluate and Tick
\* never let a promotion through on fewer.
QuorumHonoured ==
    \A p \in Promo : promo[p].status \in PastQuorum =>
       \E pol \in inForce[promo[p].env] : CountApprovals(pol, promo[p]) >= pol.required

\* "two simultaneous approvals cannot both miss the quorum": a promotion still
\* pending lacks approvals under a policy the environment has had.
QuorumNotMissed ==
    \A p \in Promo : promo[p].status = "pending_approval" =>
       \E pol \in inForce[promo[p].env] : CountApprovals(pol, promo[p]) < pol.required

\* A veto, a cancellation, an expiry and an outcome are never undone: the
\* conditional updates of every writer keep a final row final.
FinalIsFinal ==
    [][\A p \in Promo : promo[p].status \in Final =>
          promo'[p].status = promo[p].status /\ promo'[p].approvals = promo[p].approvals]_vars

\* A promotion reported as a success names a deployment that was created for
\* it and succeeded, so SuccessfulSHA offers the next environment a real one.
SuccessWasDeployed ==
    \A p \in Promo : promo[p].status = "success" =>
       /\ promo[p].dep # NoDep
       /\ deps[promo[p].dep].promo = p /\ deps[promo[p].dep].status = "success"

\* A promotion creates one deployment, and one more at most for every call
\* that failed or process that died (poll's relaunch).
DeploymentsAccounted ==
    \A p \in Promo :
       Cardinality({d \in Dep : deps[d].promo = p}) <= 1 + (MaxFaults - faults)

\* The history row mirrors its promotion: Transition, AddDecision and
\* SetDeployment write both rows in one transaction.  ExpireOverdue does not:
\* an expired promotion's row lags behind while a loop still has it to sync,
\* and for good only after a call failed or a process died.
HistoryMirrors ==
    \A p \in Promo :
       /\ promo[p].status # "expired" => hist[p].status = EnvDeploymentStatus(promo[p].status)
       /\ promo[p].status = "expired" /\ faults = MaxFaults =>
             hist[p].status = "expired" \/ \E pr \in Proc : tick[pr].pc = "sync" /\ p \in tick[pr].todo
       /\ hist[p].dep = promo[p].dep

\* Retried or concurrent requests with one Idempotency-Key make one promotion,
\* and a commit has at most one active promotion per environment.
NoDuplicateRequest ==
    \A p, q \in Promo : p # q /\ promo[p].status # "none" =>
       /\ promo[p].key # NoKey /\ promo[p].by = promo[q].by => promo[p].key # promo[q].key
       /\ promo[p].status \in Active /\ promo[q].status \in Active
             => promo[p].env # promo[q].env \/ promo[p].sha # promo[q].sha

\* An environment fed from another one only ever promotes commits that were
\* deployed there successfully (require_source_environment).
SourceEnvironmentHonoured ==
    \A p \in Promo, e \in Env :
       /\ promo[p].status # "none"
       /\ \A pol \in inForce[promo[p].env] : pol.source = e
       => \E q \in Promo : /\ promo[q].env = e /\ promo[q].sha = promo[p].sha
                           /\ promo[q].status = "success"

\* "deploy exactly what was approved": the source deployed is the one stored
\* with the promotion when it was requested.
DeploysWhatWasApproved ==
    \A d \in Dep : deps[d].status # "none" => deps[d].src = promo[deps[d].promo].src

\* "reevaluate applies a new policy to the promotions that have not started
\* deploying": once PutEnv is done, a promotion claims the slot only when the
\* wait and the windows of the policy in force allow it.
PolicyChangeApplies ==
    [][\A p \in Promo, pr \in Proc :
          /\ promo[p].status = "approved" /\ promo'[p].status = "deploying"
          /\ tick[pr].pc = "claim" /\ tick[pr].cur = p
          /\ \A a \in Admin : put[a].env # promo[p].env
          => NextAfterQuorum(policy[promo[p].env], promo[p].quorumAt, tick[pr].at) = "approved"]_vars

\* The bounded clock stops before the promotion expires or its deployment
\* times out.
ClockTooShort(p) ==
    \/ promo[p].expiresAt > MaxNow
    \/ promo[p].startedAt + DeployTimeout >= MaxNow

\* Every promotion ends: approved, refused, forgotten (72 h) or with a
\* deployment that never reports (DeployTimeout), crashes and failed calls
\* included; nothing is left waiting or deploying for ever.
EveryPromotionEnds ==
    \A p \in Promo :
       promo[p].status \in Active ~> promo[p].status \in Final \/ ClockTooShort(p)

=============================================================================

---------------------------- MODULE DeployQueue -----------------------------
(***************************************************************************)
(* The deployments table and who writes it: the deploy worker              *)
(* (internal/service/worker.go), the API (handlers/deployment.go and       *)
(* deployment_rollback.go), and the goroutine the API starts for a Lambda  *)
(* deployment, over internal/repository/deployment_repo.go.                *)
(*                                                                         *)
(* One step is one statement (or transaction) on the table, or the end of  *)
(* a build or of a rollout.  Deployments are numbered by created_at.  AWS  *)
(* is configured.  What a rollout does to the containers is in Rollout.    *)
(***************************************************************************)
EXTENDS Integers, FiniteSets

CONSTANTS
    Proc,        \* server processes, each with one worker
    Kind,        \* build strategies, a subset of {"lambda", "docker"}
    MaxDep,      \* bound: deployments ever created
    MaxNow,      \* bound: instants
    Stale,       \* the reaper's 20 minutes
    maxRetries,  \* retries before a deployment fails for good
    MaxFaults    \* bound: failed statements, crashes and shutdowns

Dep == 1..MaxDep
NoDep == 0
NoTime == -1
Instant == 0..MaxNow

ASSUME QueueAssumption ==
    /\ MaxDep \in Nat /\ MaxNow \in Nat /\ Stale \in Nat /\ maxRetries \in Nat \ {0}
    /\ MaxFaults \in Nat
    /\ Kind \subseteq {"lambda", "docker"}

Running == {"building", "deploying"}
Unfinished == Running \cup {"queued"}
Finished == {"success", "failed", "cancelled"}

VARIABLES
    now,        \* the clock
    row,        \* deployments
    work,       \* the worker of each process; live: its context is not cancelled
    lambda,     \* deployLambda's goroutine of each deployment, and its process
    cancelling, \* Cancel requests past their check of the status
    faults,     \* faults left
    rollouts    \* history variable: rollouts of each deployment that completed

vars == <<now, row, work, lambda, cancelling, faults, rollouts>>
outside == <<now, cancelling>>

NoRow == [status |-> "none", kind |-> "docker", retries |-> 0, created |-> 0, started |-> NoTime]
Down == [pc |-> "down", dep |-> NoDep, live |-> FALSE]
NoLambda(pr) == [pc |-> "none", proc |-> pr]

Oldest(d, S) == d \in S /\ \A x \in S : d <= x

\* Rows a worker has selected FOR UPDATE in a transaction still open.
Locked == {work[pr].dep : pr \in {x \in Proc : work[x].pc = "locked"}}

Fault == faults > 0 /\ faults' = faults - 1
NoFault == UNCHANGED faults

-----------------------------------------------------------------------------
(* deployment_repo.go                                                      *)

\* UpdateStatus: unconditional; the first running status sets started_at.
UpdateStatus(d, st) ==
    /\ d \notin Locked
    /\ row' = [row EXCEPT ![d].status = st,
                 ![d].started = IF st \in Running /\ @ = NoTime THEN now ELSE @]

\* Create: the next row, queued.
Insert(d, kind) ==
    /\ Oldest(d, {x \in Dep : row[x].status = "none"})
    /\ row' = [row EXCEPT ![d] = [NoRow EXCEPT !.status = "queued", !.kind = kind, !.created = now]]

-----------------------------------------------------------------------------
(* The API.                                                                *)

\* Create and, for a Lambda project, the goroutine that deploys it at once
\* although the row is queued for the worker as well.
Create(pr, d, kind) ==
    /\ work[pr].live
    /\ Insert(d, kind)
    /\ lambda' = IF kind = "lambda" THEN [lambda EXCEPT ![d] = [pc |-> "start", proc |-> pr]] ELSE lambda
    /\ UNCHANGED <<outside, work, faults, rollouts>>

\* Rollback: a new deployment of the source of one that succeeded.
Rollback(pr, target, d) ==
    /\ row[target].status = "success"
    /\ Create(pr, d, row[target].kind)

\* Cancel's check, and its conditional update.
CancelCheck(d) ==
    /\ row[d].status \in Unfinished
    /\ cancelling' = cancelling \cup {d}
    /\ UNCHANGED <<now, row, work, lambda, faults, rollouts>>

\* Mutant: the update does not check the status again.
CancelMutant(d) ==
    /\ d \in cancelling
    /\ cancelling' = cancelling \ {d}
    /\ d \notin Locked /\ row' = [row EXCEPT ![d].status = "cancelled"]
    /\ UNCHANGED <<now, work, lambda, faults, rollouts>>

Cancel(d) ==
    /\ d \in cancelling
    /\ cancelling' = cancelling \ {d}
    /\ IF row[d].status \in Unfinished
       THEN d \notin Locked /\ row' = [row EXCEPT ![d].status = "cancelled"]
       ELSE UNCHANGED row
    /\ UNCHANGED <<now, work, lambda, faults, rollouts>>

\* deployLambda: the statuses it writes are never conditional and an error
\* writing one is ignored.
LambdaStart(d) ==
    /\ lambda[d].pc = "start"
    /\ \/ UpdateStatus(d, "deploying") /\ NoFault
       \/ UNCHANGED row /\ Fault
    /\ lambda' = [lambda EXCEPT ![d].pc = "update"]
    /\ UNCHANGED <<outside, work, rollouts>>

LambdaEnd(d) ==
    /\ lambda[d].pc = "update"
    /\ \/ /\ UpdateStatus(d, "success") /\ NoFault
          /\ rollouts' = [rollouts EXCEPT ![d].lambda = @ + 1]
       \/ /\ UNCHANGED row /\ Fault
          /\ rollouts' = [rollouts EXCEPT ![d].lambda = @ + 1]
       \/ UpdateStatus(d, "failed") /\ NoFault /\ UNCHANGED rollouts
       \/ UNCHANGED <<row, rollouts>> /\ Fault
    /\ lambda' = [lambda EXCEPT ![d] = NoLambda(lambda[d].proc)]
    /\ UNCHANGED <<outside, work>>

-----------------------------------------------------------------------------
(* The worker.                                                             *)

To(pr, pc) == work' = [work EXCEPT ![pr].pc = pc]
Idle(pr) == work' = [work EXCEPT ![pr].pc = "poll", ![pr].dep = NoDep]

\* Mutant: the retry is not counted.
ReapedMutant(r) == [r EXCEPT !.status = "queued"]

\* The row the reaper leaves.
Reaped(r) == [r EXCEPT !.status = "queued", !.retries = @ + 1]

\* Since when the reaper takes a row to be running.
Since(r) == IF r.started # NoTime THEN r.started ELSE r.created

\* A row left behind by a crash or restart, as reapStaleDeployments sees it.
Orphan(r) == r.status \in Running /\ Since(r) < now - Stale

\* A process starts: Run reaps once, then polls.  An error is only logged.
Boot(pr) ==
    /\ work[pr].pc = "down"
    /\ \/ /\ \A d \in Locked : ~Orphan(row[d])
          /\ row' = [d \in Dep |-> IF Orphan(row[d]) THEN Reaped(row[d]) ELSE row[d]]
          /\ NoFault
       \/ UNCHANGED row /\ Fault
    /\ work' = [work EXCEPT ![pr] = [pc |-> "poll", dep |-> NoDep, live |-> TRUE]]
    /\ UNCHANGED <<outside, lambda, rollouts>>

\* processNext: select the oldest queued row FOR UPDATE SKIP LOCKED.
Select(pr, d) ==
    /\ work[pr].pc = "poll" /\ work[pr].live
    /\ Oldest(d, {x \in Dep : row[x].status = "queued"} \ Locked)
    /\ work' = [work EXCEPT ![pr].pc = "locked", ![pr].dep = d]
    /\ UNCHANGED <<outside, row, lambda, faults, rollouts>>

\* processNext finds nothing to do; Run sleeps and polls again.
Poll(pr) ==
    /\ work[pr].pc = "poll" /\ work[pr].live
    /\ {x \in Dep : row[x].status = "queued"} \subseteq Locked
    /\ UNCHANGED vars

\* Mutant: one retry too many.
SpentMutant(r) == r.retries > maxRetries

\* The deployment has been retried as often as it may be.
Spent(r) == r.retries >= maxRetries

\* A statement of the worker fails: its context is cancelled, or a fault.
Broken(pr) == UNCHANGED row /\ (Fault \/ (~work[pr].live /\ NoFault))

\* processNext's commit: it ends a spent deployment, or only drops the lock;
\* the row is still queued when the build begins.
Commit(pr) ==
    LET d == work[pr].dep
    IN  /\ work[pr].pc = "locked"
        /\ \/ /\ Spent(row[d]) /\ work[pr].live
              /\ row' = [row EXCEPT ![d].status = "failed"]
              /\ Idle(pr) /\ NoFault
           \/ /\ ~Spent(row[d]) /\ work[pr].live
              /\ To(pr, "picked") /\ UNCHANGED row /\ NoFault
           \/ Broken(pr) /\ Idle(pr)
        /\ UNCHANGED <<outside, lambda, rollouts>>

\* runDeployment: building.
StartBuild(pr) ==
    /\ work[pr].pc = "picked"
    /\ \/ work[pr].live /\ UpdateStatus(work[pr].dep, "building") /\ To(pr, "building") /\ NoFault
       \/ Broken(pr) /\ To(pr, "failing")
    /\ UNCHANGED <<outside, lambda, rollouts>>

\* The build (download, audit, docker build, push) ends, then deploying.
EndBuild(pr) ==
    /\ work[pr].pc = "building"
    /\ \/ work[pr].live /\ UpdateStatus(work[pr].dep, "deploying") /\ To(pr, "deploying") /\ NoFault
       \/ To(pr, "failing") /\ UNCHANGED row /\ NoFault \* the build failed or was cancelled
       \/ Broken(pr) /\ To(pr, "failing")
    /\ UNCHANGED <<outside, lambda, rollouts>>

\* Mutant: the error of the rollout is not returned.
EndRolloutMutant(pr) ==
    /\ work[pr].pc = "deploying" /\ To(pr, "reporting")
    /\ \/ work[pr].live /\ rollouts' = [rollouts EXCEPT ![work[pr].dep].worker = @ + 1]
       \/ UNCHANGED rollouts
    /\ UNCHANGED <<outside, row, lambda, faults>>

\* The rollout (container, ECS service, Lambda function, static files) ends.
EndRollout(pr) ==
    /\ work[pr].pc = "deploying"
    /\ \/ /\ work[pr].live /\ To(pr, "reporting")
          /\ rollouts' = [rollouts EXCEPT ![work[pr].dep].worker = @ + 1]
       \/ To(pr, "failing") /\ UNCHANGED rollouts
    /\ UNCHANGED <<outside, row, lambda, faults>>

\* Success is recorded; an error is only logged.
Report(pr) ==
    /\ work[pr].pc = "reporting"
    /\ \/ work[pr].live /\ UpdateStatus(work[pr].dep, "success") /\ NoFault
       \/ Broken(pr)
    /\ Idle(pr)
    /\ UNCHANGED <<outside, lambda, rollouts>>

\* Mutant: the failure is logged but not recorded.
FailDeploymentMutant(pr) ==
    /\ work[pr].pc = "failing"
    /\ Idle(pr)
    /\ UNCHANGED <<outside, row, lambda, faults, rollouts>>

\* failDeployment: the failure is recorded; an error is ignored.
FailDeployment(pr) ==
    /\ work[pr].pc = "failing"
    /\ \/ work[pr].live /\ UpdateStatus(work[pr].dep, "failed") /\ NoFault
       \/ Broken(pr)
    /\ Idle(pr)
    /\ UNCHANGED <<outside, lambda, rollouts>>

\* SIGTERM: the worker's context is cancelled.
Shutdown(pr) ==
    /\ work[pr].live /\ Fault
    /\ work' = [work EXCEPT ![pr].live = FALSE]
    /\ UNCHANGED <<outside, row, lambda, rollouts>>

\* The goroutines of a process end with it.
Orphaned(pr) == [d \in Dep |-> IF lambda[d].proc = pr THEN NoLambda(pr) ELSE lambda[d]]

\* Run returns once the deployment in flight has ended, and the process exits.
Exit(pr) ==
    /\ work[pr].pc = "poll" /\ ~work[pr].live
    /\ work' = [work EXCEPT ![pr] = Down]
    /\ lambda' = Orphaned(pr)
    /\ UNCHANGED <<outside, row, faults, rollouts>>

\* The process dies, or main returns before the worker does.
Crash(pr) ==
    /\ work[pr].pc # "down" /\ Fault
    /\ work' = [work EXCEPT ![pr] = Down]
    /\ lambda' = Orphaned(pr)
    /\ UNCHANGED <<outside, row, rollouts>>

Tock ==
    /\ now < MaxNow
    /\ now' = now + 1
    /\ UNCHANGED <<row, work, lambda, cancelling, faults, rollouts>>

-----------------------------------------------------------------------------
Init ==
    /\ now = 0
    /\ row = [d \in Dep |-> NoRow]
    /\ work = [pr \in Proc |-> Down]
    /\ \E pr \in Proc : lambda = [d \in Dep |-> NoLambda(pr)]
    /\ cancelling = {}
    /\ faults = MaxFaults
    /\ rollouts = [d \in Dep |-> [worker |-> 0, lambda |-> 0]]

Worker(pr) ==
    \/ Boot(pr) \/ Poll(pr) \/ (\E d \in Dep : Select(pr, d)) \/ Commit(pr)
    \/ StartBuild(pr) \/ EndBuild(pr) \/ EndRollout(pr) \/ Report(pr) \/ FailDeployment(pr)
    \/ Exit(pr)

Api ==
    \/ \E pr \in Proc, d \in Dep :
          (\E kind \in Kind : Create(pr, d, kind)) \/ (\E target \in Dep : Rollback(pr, target, d))
    \/ \E d \in Dep : CancelCheck(d) \/ Cancel(d) \/ LambdaStart(d) \/ LambdaEnd(d)

Next ==
    \/ Api \/ Tock
    \/ \E pr \in Proc : Worker(pr) \/ Shutdown(pr) \/ Crash(pr)

Spec == Init /\ [][Next]_vars

\* The worker polls as long as its process runs, a process that went down is
\* started again, goroutines run and time passes.
Fairness ==
    /\ WF_vars(Tock)
    /\ \A pr \in Proc : WF_vars(Worker(pr))
    /\ \A d \in Dep : WF_vars(LambdaStart(d)) /\ WF_vars(LambdaEnd(d))

FairSpec == Spec /\ Fairness

-----------------------------------------------------------------------------
(* Properties.                                                             *)

\* Every variable has its type.
TypeOK ==
    /\ now \in Instant
    /\ row \in [Dep -> [status : {"none"} \cup Unfinished \cup Finished, kind : {"lambda", "docker"},
                        retries : Nat, created : Instant, started : Instant \cup {NoTime}]]
    /\ work \in [Proc -> [pc : {"down", "poll", "locked", "picked", "building", "deploying",
                                "reporting", "failing"},
                          dep : Dep \cup {NoDep}, live : BOOLEAN]]
    /\ lambda \in [Dep -> [pc : {"none", "start", "update"}, proc : Proc]]
    /\ cancelling \subseteq Dep
    /\ faults \in 0..MaxFaults
    /\ rollouts \in [Dep -> [worker : Nat, lambda : Nat]]

\* "retry_count is bumped so a genuinely broken build eventually fails for
\* good": with one process no deployment is requeued more than maxRetries
\* times, whatever crashes.
RetriesBounded ==
    \A d \in Dep : row[d].retries <= maxRetries

\* With one process, every rollout of a deployment but the first was paid for
\* by a retry: a lost status write, a crash, a cancellation or the Lambda
\* goroutine never make the worker roll the same deployment out again unnoticed.
RolloutsAccounted ==
    \A d \in Dep : rollouts[d].worker <= 1 + row[d].retries

\* A deployment is reported as a success only after somebody rolled it out.
SuccessWasRolledOut ==
    \A d \in Dep : row[d].status = "success" => rollouts[d].worker + rollouts[d].lambda > 0

\* An outcome is final once nobody is working on the deployment: a late
\* cancellation does not overwrite it, and neither the queue nor the reaper picks
\* up what was cancelled.  With one process the success or failure of a Docker
\* deployment is final at once; what the worker's unconditional writes do
\* overwrite is a cancellation and what the Lambda goroutine wrote.
OutcomeStays ==
    [][\A d \in Dep :
          /\ row[d].status \in Finished /\ lambda[d].pc = "none"
          /\ \/ \A pr \in Proc : work[pr].dep # d
             \/ row[d].status # "cancelled" /\ row[d].kind = "docker" /\ \A p, q \in Proc : p = q
          => row'[d].status = row[d].status]_vars

\* Every deployment ends, unless a statement failed or a process stopped:
\* whatever is cancelled, rolled back or deployed by two at once, the worker
\* gets to the end of its queue.
EveryDeploymentEnds ==
    \A d \in Dep : row[d].status \in Unfinished ~>
       row[d].status \in Finished \/ faults < MaxFaults

\* "Without this they stay 'building' forever": a deployment left running with
\* nobody working on it does not stay so, provided the bounded clock lasts
\* until the reaper would take it for an orphan.
OrphansRecovered ==
    \A d \in Dep :
       (/\ row[d].status = "building" /\ Since(row[d]) + Stale < MaxNow
        /\ \A pr \in Proc : work[pr].dep # d)
       ~> row[d].status # "building"

\* "waits for any in-flight deployment to finish": when Run returns after a
\* cancelled context, no deployment is left running (no process has crashed
\* and no statement has failed).
ShutdownFinishes ==
    [][\A pr \in Proc :
          /\ work[pr].pc = "poll" /\ ~work[pr].live /\ work'[pr].pc = "down"
          => \A d \in Dep : row[d].status \notin Running]_vars

\* "picks the oldest queued deployment using SKIP LOCKED": no two workers
\* process the same deployment.
ProcessedByOne ==
    \A p, q \in Proc : p # q /\ work[p].dep # NoDep => work[p].dep # work[q].dep

=============================================================================

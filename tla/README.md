# Capsule backend: verification project

TLA+ specifications of the Capsule backend (a self-hosted platform that builds,
deploys and promotes projects), checked with TLC on small instances and, in
part, proved with TLAPS.  Everything here is translated from the Go sources
under `src/`; `PROJECT.json` maps each definition to the lines it stands for.

## 1. Inventory

| Component | State it keeps | Operations | Interacts with | What is hard |
|---|---|---|---|---|
| Environments and promotions (`internal/environments`, `environment_repo.go`) | environments (policies), promotions with approvals, history rows | request, approve, reject, cancel; PutEnv and its reevaluation; Tick of every process | creates deployments, follows their status; publishes events | read-then-write requests, two processes ticking, a policy changed meanwhile, a crash between claim, launch and save |
| Deployment windows (`environments/window.go`) | none | next opening, open now | read by the gates | calendars, time zones |
| Deployment queue and worker (`service/worker.go`, `deployment_repo.go`, `handlers/deployment*.go`) | deployments rows, the worker's position | create, rollback, cancel; select, build, roll out, report; reap | Rollout; Promotions polls the rows | unconditional status writes by several actors, shutdown, crash, retries |
| Blue-green rollout (`service/health.go`) | two container names, host ports | run, verify, retire, rename, abort | docker | a call that fails or a process that dies between two docker calls |
| Build limits, docker cleanup, idle sleep (`service/buildlimits.go`, `dockercleanup.go`, `handlers/idle.go`) | a semaphore; containers' last use | gate, prune, sleep, wake | containers of Rollout | cleanup racing a rollout |
| Git deploys and previews (`service/gitdeploy.go`, `preview*.go`) | previews, webhook deliveries | push, pull request, expiry | the queue | duplicated webhooks, reaper against update |
| Worker containers, cron jobs (`handlers/workers.go`, `cronjobs.go`) | status rows, containers | start, stop, delete | docker, SQS | background goroutines outlive the answer |
| Functions (`internal/fn`, `fnagent`) | runs, tokens, nodes | enqueue, claim, heartbeat, finish, cancel, cron | nodes over HTTP | `max_concurrency` under several claimers, lost nodes |
| Auto-merge (`internal/gitreview`) | armed rows with a lease | arm, attempt, disarm, sweep | Forgejo, event bus | the head moves between checks and merge, expired leases |
| Outgoing webhooks, event bus (`internal/webhookout`, `gitevents`) | webhooks, deliveries | fan out, claim, attempt, redeliver | receivers | at-least-once delivery, lease, backoff, 410 |
| Import, mirrors (`internal/gitimport`) | imports, heartbeats | start, resume, recover, sync | GitHub, Forgejo | restart in the middle, two owners of one import |
| Backups (`internal/backup`, `backup_repo.go`) | runs, snapshots, stored objects, a staging volume | claim, back up, retry, retain, verify, restore; fail orphans | docker, object store, the application's containers | a context that ends between two docker calls, lost answers of inserts, retention beside failed runs, a swap that fails half way |
| Recovery (`internal/recovery`) | plans, a journal | plan, execute, resume | Backups | a step done but not journalled |
| Gateway (`internal/gateway/{api,store,data}`) | routes, versions, port leases, listeners | CRUD, sync, reconcile, accept | data plane polls the control plane | reassigned leases with flows still open, limits |
| Access control (`internal/access`, `authz`) | templates, groups, assignments, cached snapshots | resolve, simulate, assign | every handler | stale cache |
| Branch protection, team sync, git tokens, network rules, security scans (`gitprotect`, `gitsync`, `gittokens`, `netaccess`, `security`) | desired state in the database | reconcile | Forgejo, EC2 | partial reconciliation |
| CI wake-up (`internal/ciwake`) | last check, starts | wake | EC2 | debounce and hourly cap |
| OIDC, object storage, AI, VPN, git client, HTTP server | sessions, files, connections | protocol handling | the outside | mostly I/O and parsing |

What makes each correct, in short: a promotion is deployed only with the
approvals and conditions its environment asks for, one at a time, and ends; a
deployment is built by one worker, its reported outcome is what happened, and
it ends; a project's running container is replaced only by one that was
verified; a delivery, run or merge is executed once per claim and eventually;
a reconciler's result is the desired state.  The hazards, each at its line and
with the properties that would catch it going wrong, are in `PROJECT.json`.

## 2. Modules

| Module | What it is |
|---|---|
| `Promotions` | environments, promotions, decisions, policy changes, the Tick loop |
| `MCPromotions` | policies, roles and symmetry for TLC |
| `PromotionsProofs` | type correctness and the safety properties of `Promotions`, proved |
| `DeployQueue` | the deployments table and everyone who writes it |
| `DeployQueueProofs` | its safety properties, proved |
| `Rollout` | the blue-green replacement of one container |
| `RolloutProofs` | all its properties that hold, proved |
| `FnRuns`, `MCFnRuns` | functions, their runs, nodes, Lambda goroutines, cron, the kill switch |
| `JobPool` | what a queue with a cap promises, implemented by `FnRuns` |
| `FnRunsProofs` | the refinement of `JobPool` and the schedule, proved |
| `Webhooks`, `MCWebhooks` | git events, their dispatch, outgoing webhooks and deliveries |
| `WebhooksProofs` | its safety properties, proved |
| `AutoMerge` | arming, attempts and the lease of auto-merge |
| `AutoMergeProofs` | its safety properties, proved |
| `Backups` | backups, retention, verification and restores of one project |
| `BackupsProofs` | its safety properties, proved |
| `Imports`, `MCImports` | imports from GitHub, their resumption, the goroutines that run them |
| `ImportsProofs` | `ReportsAreTrue` and type correctness, proved |

The modules meet where the code does.  `Promotions` creates deployments and
sees of them only a status that moves as `DeployQueue` says it may (a finished
one stays, a cancelled one may still be overwritten by the worker);
`DeployQueue!EndRollout` is a whole run of `Rollout`.  `Webhooks` composes the
event bus with its largest subscriber; the others are one that may fail.  The
events `AutoMerge` reacts to (`HandleEnd`) arrive late or not at all, as the bus
delivers them.

### Promotions

A step is one transaction, or one read whose result is used later.  `policy`,
`promo`, `hist` and `deps` are the tables `environments`, `promotions` (with
`promotion_approvals`), `environment_deployments` and `deployments`; `req`,
`put` and `tick` hold what requests, PutEnv calls and loops have read and not
used yet, which is where stale reads come from.

| Action | Code |
|---|---|
| `CreateLoad`, `CreateInsert` | `CreatePromotion`: conditions and policy are read, then one transaction under the unique indexes |
| `DecideLoad`, `AddDecision` | `decide`: promotion and policy are read without a lock, then `AddDecision` locks the row, checks its status and counts |
| `Cancel`, `AbandonRequest` | `Cancel`; a client or process that goes away |
| `PutEnv`, `ReevaluateList`, `ReevaluateVisit`, `PutEnd` | `PutEnv` and `reevaluate`, one promotion per step |
| `TickExpire`, `TickSync` | `ExpireOverdue`, whose history rows are written after the UPDATE |
| `TickList`, `TickGetEnv`, `TickSkip`, `TickAdvance`, `TickPoll`, `TickRelaunch` | the first loop of `Tick` |
| `TickStart`, `TickClaim`, `TickLaunch`, `TickSave`, `TickEnd` | `start` and `launch` |
| `Crash` | a process dies anywhere in `Tick` |
| `Tock`, `CommitChange`, `Redeploy`, `DeploymentMoves` | the clock, the commit's conditions, stored sources, the deploy worker |

Abstractions: branch, check and security requirements are one condition
(`strict`); windows are the set of instants that are open; texts, events and
audit entries are left out.  A call that fails consumes one of `MaxFaults`.

### DeployQueue

A row has a status, a strategy, a retry count and two times.  The worker of a
process goes through `Boot` (reap once), `Select` (row locked), `Commit` (lock
dropped, the row still queued), `StartBuild`, `EndBuild`, `EndRollout`,
`Report` or `FailDeployment`.  `Create` and `Rollback` insert rows and start the
goroutine (`LambdaStart`, `LambdaEnd`) that deploys a Lambda project beside the
worker; `CancelCheck` and `Cancel` are the API's cancellation.  `Shutdown`
cancels the context, after which every statement of the worker fails;  `Exit`
is the end of `Run`.  `Crash` also stands for `main` returning before the worker
has finished, which `cmd/server/main.go` does not wait for.
`rollouts` is a history variable.

### Rollout

Two names, the production one and the temporary one, and the host port behind
each.  Every docker call of `execute` and `abort` is a step that may fail
without effect; a shut-down worker's calls all fail.  `verify` is one step with
both outcomes.  A port that is in use, by the old container or by
anything else on the host, leaves a container that was created and not started,
as docker does.  `prev`, `verified` and `served` are history.

### FnRuns and JobPool

One function, its runs and its tunnel.  A step is a statement on the database or
a call to the outside.  `StartList`, `StartCheck`, `StartLock`, `StartUpdate` are
the claim of a node and the dispatch of a process up to the commit of `TryStart`
(the row lock, the count, the conditional UPDATE); `ClaimToken` is the answer
that reaches the node, or does not; the goroutine it starts opens the tunnel later
(`ContainerOpen`).  `ContainerEnd` and `Lambda*` execute a run,
`ReportRead` and `ReportWrite` are `Finish`, which reads the status and then
writes without a condition, `Sync` is the node's heartbeat.  `Enqueue*`,
`Cancel*`, `SetEnabled`, `DisableTunnel`, `ListRuns`, `CancelListed` and
`Delete*` are the API; `TickCron`, `CASLastCron`, `TickOverlap`, `TickEnqueue`,
`TickReap` and `TickFinish` are `Tick`.  Nodes, processes and calls die
(`NodeCrash`, `ProcCrash`, `CallLost`).

`JobPool` says what the queue promises: a job waits, is active while fewer than
`Cap` are, and ends for good.  `FnRuns` implements it under the mapping of
`status` in `Pool` (`PoolImplemented`): `max_concurrency` holds and no run starts
twice, although every starter works from an old listing.

### Webhooks

`Webhook` records an inbound event by its delivery id and dispatches it in a
goroutine; `Sweep` is the bus's sweeper, `DispatchBegin`, `MatchingWebhooks`,
`HandleInsert`, `DispatchEnd` and `DispatchGiveUp` one dispatch.  `ClaimDue`,
`GetWebhook`, `Send`, `DisableWebhook` and `RecordAttempt` are the sender;
`Elapse` is a lease that runs out.  `Create*`, `Update*`, `Delete`, `Redeliver*`,
`SendTest*` and `DeleteProject` are the API.  Payloads, signatures and backoff
times are left out; `late` marks rows whose lease has run out during an attempt.

### AutoMerge

One pull request and its row of `pr_auto_merge`.  `Arm` and `DisableAutoMerge`
are the API; an attempt is `Start`, `Get`, `GetPull`, `Authorize`, `Assess`,
`Claim`, `MergePull`, `ReadAgain`, `Release`, `Finish`, one call each, by the
sweep or by the request that armed it.  `HandleEnd` is a closed or merged event.
`Close`, `Reopen`, `Push`, `Block`, `MergeByHand` and `People` are what happens
on the forge meanwhile, `LeaseEnds` and `Crash` the recovery.  `gen` counts
armings, `lost` those whose claim was given up by an older attempt.

### Backups

One project with a database and a data volume, whose contents are sets of files
tagged with the version that wrote them: enough to tell an exact copy from a
mixture and from nothing.  `job[r]` is the goroutine of run `r`; once its context
has ended (`Timeout`, `Shutdown`) every call it makes under that context fails,
and those under a context of their own (`Finish`, `Rollback`, `Restart`) do not.

| Action | Code |
|---|---|
| `Boot`, `Crash`, `Shutdown`, `Exit`, `Timeout` | `Run` with `FailOrphans`; the process and its base context; `RunTimeout` |
| `StartBackup`, `StartVerify`, `StartRestore`, `ClaimDue`, `TickExecute` | the API and the scheduler, under the unique index of running jobs |
| `Acquire`, `Finish` | `acquire`, `finish` |
| `Begin`, `Upload`, `Record`, `Judge` | `projectOnce` and `withRetry`: a source docker does not show is skipped with a note, a database that is not available without one, a failed upload may have been stored, a retry stores under the same key |
| `Retain`, `Sweep`, `Mark`, `Age` | `retain`, and time passing |
| `Verify`, `Check`, `Load` | `verify`, `executeRestore`, `restoreDatabase` |
| `Extract`, `Ps`, `Stop`, `Swap`, `SwapEnd`, `Rollback`, `Restart` | `restoreVolume` |
| `MoveOut`, `MoveIn`, `ScriptNext` | `volumeSwapScript`, which runs in a container of its own: it outlives the process and the docker client that started it, and goes on when one `mv` fails |
| `AppWrite` | the application, while its containers run |

A dump is the content of one instant (the scripts use `pg_dump` and `sqlite3
.backup`; other files copied while they change are left out).  `truth`, `hollow`,
`torn`, `stranded` and `unended` are history.

### Imports

`imp` and `row` are the tables `git_imports` and `git_import_repos`; an import is
named by its Idempotency-Key.  `project` and `forge` say who made the project and
the forge's repository of a name: an import, or others (`OthersCreate`, which also
stands for other imports).

| Action | Code |
|---|---|
| `Start`, `StartCreate`, `StartResume`, `StartFails`, `Launch` | `Start`, `resumeOrReplay` and `launch`: the decision is taken on what was read, and not again when `Resume` writes |
| `Load`, `MarkRunning`, `BeginRepo`, `Final`, `SetFinal`, `Panic` | `run`, and the recovery of a panic |
| `GitHubRepo`, `GetBySlug`, `CreateProject`, `LinkProject`, `GetRepo`, `Migrate`, `MarkReady`, `Save`, `Fail` | `runRepo`, one call each |
| `Stop`, `Down`, `Recover` | the process: once stopped, calls under the base context fail and the last writes, under a context of their own, do not; `Recover` at start-up |
| `TimePasses`, `ForgeSlow` | `updated_at` gets old when nobody runs the import: past `RepoTimeout` and a minute, then past two hours; the first also while `EnsureOrg` and `GetRepo` of a running one take their time |

A migration may finish on the forge although its call failed.  `Client` and
`Worker` are places for what is in progress and interchangeable, so the next one
is taken in a fixed order.  `shared` is history.

## 3. Runs

### 3.1 What passes

| Run | Bounds | Shows |
|---|---|---|
| `requests` | 1 loop and 2 requests, either 2 people deciding on 1 promotion while its policy changes once, or 2 promotions of one person to 2 environments, with 1 key (`Scenarios`) | the quorum is neither undercut (`QuorumHonoured`) nor missed (`QuorumNotMissed`), whatever was read before the row lock; `SourceEnvironmentHonoured`, `NoDuplicateRequest`, `FinalIsFinal` |
| `ends` | a wait or a window, 2 faults, 3 deployments, 4 instants, fair | `SuccessWasDeployed`, `DeploymentsAccounted`, `HistoryMirrors` with a crash or a failed call at every point, and `EveryPromotionEnds` |
| `one_worker` | 2 deployments, both strategies, 2 faults or stops, fair | retries bounded, rollouts accounted for, successes real (`SuccessWasRolledOut`), outcomes and cancellations stay, `EveryDeploymentEnds` |
| `blue_green` | 3 rollouts, 2 ports, 2 failed calls, 1 stop | `OnlyVerifiedServes`, `KeptIsServing`, `FailureLeavesOld`, `OldKeptUntilVerified` |
| `fn_claims` | 2 nodes, 2 processes, 2 runs, 1 instant of the schedule | `PoolImplemented`, `CronFiresOnce` with every interleaving of claims, cancels and ticks |
| `fn_ends` | 1 node, 1 process, 1 run of each shape, the switch, 2 faults, fair | `PoolImplemented` with lost answers and crashes, `EveryRunEnds`, `TunnelDropped` |
| `webhook_fan_out` | 1 event, 2 webhooks, 1 client, 1 fault | `OncePerEvent`, `FanOutComplete` while webhooks are created, changed, deleted, tested and redelivered |
| `webhook_ends` | 2 processes, 1 webhook, 2 attempts, 1 fault, fair | `SendsBounded`, `OutcomeStays`, `EveryEventDispatched`, `EveryDeliveryEnds` |
| `auto_merge` | 1 sweep, 1 user arming twice, 2 heads, 3 moves on the forge, 1 fault, fair | `OnlyArmedHead`, `MergedIsTrue`, `MergesAlone`, `DisarmedStays`, `ReadyIsMerged` |
| `backups` | 2 runs of any kind, 1 write, 2 faults, fair | `AlwaysRestorable`, `LiveIsWhole`, `EveryJobEnds`, `ContainersComeBack` |
| `imports` | 1 import of up to 2 repositories, 3 requests, 2 processes, 2 goroutines, 1 project or repository of others, 1 fault, fair | `ReportsAreTrue`, `NamesComeFree` |

Two of everything that competes (people, requests, promotions, processes,
deployments, nodes) is what the races in question need, three rollouts are one
to serve, one to be interrupted and one to meet the leftovers, and the number of
faults is one more than a single recovery needs.  The clocks are long enough for
every timeout to pass: `ClockTooShort` names the promotions for which they are
not.  Two runs of `Backups` are a backup and what follows it: a second backup
whose retention expires the first, a verification or a restore.  The invariants hold of three runs with one
fault as well (554 000 states).  Three requests for
one import are one that fails and two that resume it at once; with two imports
and one process `ReportsAreTrue` holds as well (2.7 million states).  Symmetry
is used in `requests`, `fn_claims` and `webhook_fan_out`, which check
invariants, action properties and a refinement without liveness.  `requests`
explores two scenarios in one instance: its constraint keeps apart the decisions on
one promotion, with their policy change, and the requests to two environments, whose
product is out of reach.

Some properties exclude what the code cannot keep, and say so: `AlwaysRestorable`
a source that a successful backup skipped or left out, `LiveIsWhole` a swap that was
disturbed or abandoned (`FailureRollsBack` below is about those), `ContainersComeBack`
a crash between stop and start,
`EveryJobEnds` a run whose end could not be written, `MergesAlone` an arming whose
claim an older attempt gave back, `OutcomeStays` of `Webhooks` a delivery whose
lease ran out, `ReportsAreTrue` the status of an import that two goroutines ran
at once, and of a repository taken over by a later attempt who made it.
`HistoryMirrors` lets the row of an expired promotion lag while a loop still has it
to sync, and for good only after a fault.  `OutcomeStays` of `DeployQueue` lets a busy
worker overwrite a cancellation, which it does, and nothing else of a docker
deployment.  `FailureLeavesOld` says in its first half, under every fault and crash,
that a rollout which began with a version in production leaves a verified one under
one of the two names; only its second half, that this is the old one, needs docker
to work.  `one_worker` checks `RetriesBounded` and `RolloutsAccounted` for
one process: with two, `ProcessedByOne` below is why they could not hold.
That at most one promotion of an environment deploys, with any number of
processes, is proved (`OneDeploying`, section 4) and not repeated by a run.

### 3.2 Documented statements the code does not keep

The modules also define these statements of comments.  `FailureRollsBack`, the one
that loses data, is a run that expects its violation (`failure_rolls_back`).  Each of
the others is violated when it replaces the properties of the configuration named,
without its symmetry and constraint and with the changes given.

| Property | Comment | Configuration | What happens |
|---|---|---|---|
| `Promotions!DeploysWhatWasApproved` | `environments/tick.go:225` | `Ends` with two sources, `MaxChanges = 1` | the approved source cannot be read; `start` deploys the one it just found |
| `Promotions!PolicyChangeApplies` | `environments/tick.go:70` | `Ends` with an admin, `MaxChanges = 1` | a Tick that cached the old policy advances and claims after PutEnv returned |
| `DeployQueue!OrphansRecovered` | `service/worker.go:205` | `OneWorker` | the reaper runs only at startup and skips rows younger than 20 minutes |
| `DeployQueue!ShutdownFinishes` | `service/worker.go:100` | `OneWorker` | the deployment in flight runs on the cancelled context and its failure cannot be written |
| `DeployQueue!ProcessedByOne` | `service/worker.go:144` | `OneWorker`, two processes | the row lock is dropped by the commit while the row is still queued |
| `Rollout!SomeVersionAlive` | `service/health.go:188` | `BlueGreen` | the next rollout removes the only healthy container as a leftover |
| `FnRuns!FirstTerminalWins` | `fn/service.go:353` | `FnClaims` | `Finish` read "running" before a cancel and overwrites it |
| `FnRuns!KillSwitchCancels` | `fn/service.go:380` | `FnClaims` with `MaxSwitch = 1` and a caller more | a run enqueued or started between the two listings survives |
| `Webhooks!TestSentOnce` | `webhookout/sender.go:34` | `WebhookFanOut` | a sender claims the row of a test, which is due at once, before its attempt is recorded |
| `AutoMerge!CannotBothWin` | `pr_auto_merge_repo.go:18` | `AutoMerge` | an older attempt releases the claim of a newer arming of the same head, and two merge |
| `Backups!FailureRollsBack` | `backup/jobs.go:649` | `FailureRollsBack` | see below |
| `Imports!NeverAdopts` | `gitimport/service.go:469` | `Imports` | the first attempt makes the project and is refused, because the forge has a repository of somebody else; the second takes that repository for its own, because the project is |
| `Imports!DoneStaysDone` | `gitimport/service.go:263` | `Imports` | two repetitions of a request resume the import at once, and the slower one begins a repository again that the other has finished |
| `Imports!InterruptedAreMarked` | `gitimport/service.go:290` | `Imports` | a process that is back within `RepoTimeout` and a minute finds the heartbeat fresh, and nobody looks again: the import says running until somebody repeats the request |

`FailureRollsBack` ("Any failure rolls the previous data back") fails for a
restore whose context ends after the extraction: `docker ps` fails and its error
is dropped, the swap never starts, and the rollback, under a context of its own,
removes everything in `/data` and then finds no `/stage/old`.  The volume is
empty, and the run reports that the previous data is preserved in the staging
volume.  A swap killed half way loses the entries it had not moved yet in the
same way.

With two processes `Backups` shows one more: a process that starts fails the live
runs of the other one (`FailOrphans` does not look whose they are), the unique
index then admits a second job, and `FinishRun` later overwrites the outcome.

### 3.3 Fairness

`Promotions`: every process keeps ticking (`RunLoop`'s ticker) and
time passes; no fairness is assumed of people, of deployments or of policy
changes.  `DeployQueue`: `Run` polls as long as it lives, goroutines run, time
passes and a process that went down is started again (a service manager's
business, and what the reaper relies on); a build or rollout ends, because each
has a timeout (`runLimitedBuild`, `verify`).  `FnRuns`: the loops of nodes and
processes, calls in progress and time; containers and Lambda calls end, because
they have timeouts.  `Webhooks`: as long as the backend has something to do it
does something, in any order; the HTTP client has a timeout and the ticker of the
sender and the sweeper do the rest.  `AutoMerge`: the sweep runs, calls return
and a claim runs out; none of users or the forge.  `Backups`: goroutines and
containers make progress, a process that shuts down exits and is started again.
`Imports`: goroutines and requests make progress (every call has a timeout) and
time passes; that a process comes back, or a request is repeated, is not assumed.

## 4. Proofs

`PromotionsProofs!TypeCorrect`: every reachable state of `Promotions` is type
correct, for all values of the constants that satisfy `ConstantsAssumption`.
Statuses, history statuses and deployments written by one actor are therefore
always ones the others know.  The invariant is `TypeInv`: `TypeOK` strengthened
by what makes it inductive, that a request, policy change or loop that is past a
read holds a promotion, a policy and a deployment that exist.  There is one
lemma per action.

`PromotionsProofs!EnvironmentQueue` and `PromotionsProofs!OutcomesFinal`:
`OneDeploying` and `FinalIsFinal` hold for any number of people, environments,
promotions and processes.  Both follow from `NextRowStep`, which says what one
step may do to the table: change a single row that is not final, making it
deploying only when the environment's slot is free, or change the deployment of
a row, or expire waiting rows.  That needs `PutKnown` besides `TypeInv`: the
status `reevaluate` compares with is one it read from a row that was waiting, so
its conditional update cannot match a final row.  The loop needs no such
conjunct, because `TickAdvance` looks at the status it read before it writes.

The other properties of `Promotions` are invariants that say of a row what was true
when someone else read it, so they are inductive only together with what every
actor remembers.  `Strong` adds that memory: `PolicyKnown` (the current policy has
been in force), `Seen` (the policy a request, a policy change or a loop read has
been in force, a snapshot is an older version of its row, a create's commit did
succeed in the source environment) and `RowsTrue`, the properties themselves with
what a blank and an expired row look like.  It is inductive because all of it is
about things that only grow: policies that were in force, approvals, successes.
Each action is one of a few `Effect`s on promotions and history (a row is amended,
inserted, lapsed, gets its deployment), and each part of `Strong` is proved once per
effect, not once per action.  From it: `QuorumIsHonoured`, `QuorumIsNotMissed`,
`NoDuplicates`, `SourceHonoured`, `HistoryIsMirrored`, for any number of processes.
The last needs of expired rows that, as long as nothing failed, one that lags is on
some loop's list to sync (`LagsPending`).

`SuccessIsDeployed` and `DeploymentsAreAccounted` assume `OneProcess`.  Their
invariant `Alone` adds that a deployment on a row was created for it and only for
what was started (`DepsOwned`, `Undeployed`), that the row a loop is about to launch
or save for is still as it saw it (`LoopsOwn`), and a ledger: the deployments made
for a promotion are at most the faults so far, plus one if its row has a deployment or
a save is pending.  A second process invalidates `LoopsOwn`: `SetDeployment` writes
without a condition, so its relaunch can replace the deployment on a row that the
first one has launched, or has already seen succeed.

`RolloutProofs` proves every property of the run `blue_green`, and `TypeOK`, for any number of
rollouts, ports, failed calls and stops: `RolloutTypeCorrect`, `VerifiedServes`,
`KeptServes`, `FailureHarmless` and `OldKept`.  The inductive invariant adds four
parts to them: `Progress` (the version about to be renamed is verified, and a
worker that was not stopped is live), `OldKnown` (a rollout that believes in an
old container is right until it removes it, which is what makes the reported
`kept` true), `OldStays` (without exclusive ports the old container has the
production name until the rename, whatever fails, and by then the new one is
verified: this carries the first half of `FailureLeavesOld`) and `OldUntouched`
(without faults the rename finds the name free, so it cannot fail after the old
container is gone).  The last is why the second half needs its condition: one failed
rename breaks it.

`DeployQueueProofs` proves every safety property of `one_worker`, and `TypeOK`.
`SuccessTruly` and `OutcomeFinal` hold for any number of processes; the invariant
adds `BusyOK`, that a worker past its SELECT is about a deployment that was created
and reports only what it rolled out, and `Attended`, that with one process a docker
deployment the worker has in hand has no success or failure yet.  `RetriesAreBounded` and `RolloutsAreAccounted`
assume `OneProcess`, a single backend process; `ProcessedByOne` (section 3.2) shows
why two could not keep them.  Their invariant is a ledger: no goroutine of an
earlier life is left when the reaper comes, and a Lambda goroutine sees its
deployment only before the first retry (`Goroutines`); what is running or about to
be has a retry left (`Unspent`); what is queued or on its way to a rollout has not
been rolled out since its last retry (`Due`).

`FnRunsProofs` proves `FnTypeCorrect`, `CronOnce` and `PoolRefined`, that `FnRuns`
implements `JobPool` under the mapping of `status`.  The refinement rests on the
row lock of `TryStart`: its holder alone is between count and commit, so the number
it counted bounds the runs that run when its UPDATE goes through; every other write
leaves the set of running rows alone or shrinks it.  `CronOnce` adds up the rows the
schedule made, the ticks past their compare-and-set and the instants `last_cron_at`
has passed, for any number of processes.

`WebhooksProofs` proves the safety properties of `webhook_fan_out` and
`webhook_ends`, and `TypeOK`.  `DeliveredOnce` is the unique index together with the
claim of a dispatch; `NoneForgotten` needs that a dispatch remembers of the webhooks
it read which are still to be inserted, and that one that was steady has a delivery
or is among them.  `SendsAreBounded` and `OutcomeIsFinal` are a lease argument
(`LeaseOK`): as long as a lease holds one sender at most attempts the delivery, what
it has in memory is the row, and requests beyond the recorded attempts were paid for
by faults.

`AutoMergeProofs` proves the safety properties of `auto_merge`, and `TypeOK`.  The
invariant says that from the read of the row on an attempt is about a head that was
armed (`HeadsArmed`), that whoever is going to write "merged" has seen it
(`MergeSeen`), and what a claim is worth: the attempt that holds one keeps the row
from being claimed again, unless an attempt of an older arming of the same head is
still out and could give it back (`ClaimKept`, `HoldsAlone`).

`ImportsProofs!ReportsTrue`: `ReportsAreTrue` for any number of keys, repositories,
processes, requests and goroutines.  The invariant says what a goroutine has in
memory: a project it believes to have made is the import's, it takes a
repository for its own only on a later attempt (`Remembers`), and, as long as it
runs the import alone, what is left on its list is not done and the status it is
about to write is what the rows add up to (`Tracks`).  `WorkOK` also says why the
exclusion of `shared` is exact: two goroutines of one import imply it.
`ImportsTypeCorrect` adds to it the bounds, the ages and the lists of the processes.

`BackupsProofs` proves the safety properties of `backups`, and `TypeOK`.
`BackupsAreRestorable` holds for any number of processes.  Its invariant
`Retention` says that a backup has, intact, what it counts as done and not as skipped
(`Stored`; a retry stores under the same key and a later failure leaves the object), that what a
sweep has listed belongs to runs that have aged, which a run in progress never has,
and that once a run has succeeded every source not hollow has a snapshot that no
retry overwrites and no sweep has listed (`Keeper`).  Intermediate snapshots may go
at any time; the one that a success leaves behind is what carries the argument.
`VolumeIsWhole` assumes `OneProcess`.  `Restores` says that the process's slot is
held by one run (`OneAtWork`), that no content has two versions of one file, and
where the script of a swap stands: as long as no swap was disturbed, what it has
moved in and what is still staged add up to the snapshot, the containers are
stopped, and no run is about to roll back.  Two
processes break the property, not only its proof: TLC shows a process that starts
failing the restore of the other as an orphan, which frees the unique index, and two
restores into one volume.

Each inductive invariant was checked with TLC on the run's instance before it was
proved.  The assumptions on constants are those of the modules' `ASSUME`s: bounds
are naturals, `maxRetries` is positive (`worker.go` sets 3), the processes of
`FnRuns` are finitely many (their claims are counted), and the markers `"none"` and
`"nobody"` are not names of webhooks or imports.

Only model-checked: every liveness property of section 3, which is out of the proof
system's reach.

## 5. Plan

1. Done: `Promotions`, `DeployQueue`, `Rollout`, `FnRuns` with `JobPool`, `Webhooks`,
   `AutoMerge`, `Backups`, `Imports`; the theorems of section 4.
2. Theorems: every safety property of the passing runs is proved.  Next are those of
   the models still to come.
3. Models next: push mirrors, `Recovery` (journalled steps),
   `PortPool` (leases and listeners), worker containers, previews; CreateEnv and
   DeleteEnv in `Promotions`; platform backups; build limits, cleanup and idle
   sleep with `Rollout`; windows and permission resolution as pure operators
   against reference definitions.

## 6. Not modelled

The components whose status is `not_modelled` in `PROJECT.json`, with the
reason.  In the modelled ones: texts, logs, events and audit entries; what AWS,
docker and Forgejo do beyond succeeding or failing; the time a call takes, other
than through the timeouts.

In `Backups`: platform backups (the same `withRetry` and `retain` over other
sources), restores into a new database (they touch nothing that exists),
engines other than PostgreSQL (whose restore is no transaction), object storage
(`SetObjects` has no caller), the container changes a deployment makes during a
restore.  In `Imports`: a project that is deleted between two attempts, the
parsing of requests, CODEOWNERS files.

Assumptions and steps that are coarser than the code:

- `Promotions`: `TickPoll` reads the deployment's status and finishes the promotion in
  one step (`Transition` is conditional, and a finished deployment stays finished);
  `TickGetEnv` reads the environment once per tick from the first promotion it visits,
  although that of a promotion that just expired is cached before the list is read
  (the loop counts no approvals, and that it works from an old policy is
  `PolicyChangeApplies`); a relaunch
  always has a source deployment, because `checkStatic` finds one before a promotion is
  stored.
- `DeployQueue`: the AWS clients are there, so `deployLambda` does not take its branch
  that puts the deployment back to "queued".
- `Rollout`: a docker call that fails has changed nothing.
- `AutoMerge`: a row always has the user who armed it, so the authorization is never
  skipped.
- `Backups`: `StartRestore` picks the snapshot and inserts the run in one step (`Check`
  reads the snapshot again); `FailOrphans` comes before the first run of a process,
  although the API is not held back for it: a run created before it would be failed
  while it is alive, as another process's are (section 3.2), but the process's one slot
  still keeps it apart from the next.
- `Imports`: the forge's repository appears whole at the end of the call; an insert
  whose answer is lost leaves the rows of a crash before `Launch`, and a `BeginRepo`
  whose answer is lost one attempt more.  `RepoTimeout` and a minute are less than the
  two hours of `BusySlugs`: the default is, but `CAPSULE_GIT_IMPORT_REPO_MINUTES` has no
  upper bound.

Most of the repository by size is HTTP handlers that validate, call one
statement and format, protocol code (VPN, gateway parsing, S3, SFTP, OIDC), AI
calls and reconcilers of external services: the first hold no state between two
steps, and the last two are a model's environment rather than its subject.

------------------------------ MODULE FnRuns -------------------------------
(***************************************************************************)
(* Functions and their runs: internal/fn (planner, PostgreSQL store,       *)
(* Lambda executor), the work node's loop in internal/fnagent and the      *)
(* handlers that cancel, delete and throw the kill switch.                 *)
(*                                                                         *)
(* One function and one tunnel.  A step is one statement on the database   *)
(* or one call to the outside; what a call has read and not used yet is in *)
(* start, exec, call and tick.                                             *)
(***************************************************************************)
EXTENDS Integers, FiniteSets, FiniteSetsExt

CONSTANTS
    Node,            \* work nodes
    Proc,            \* backend processes
    Caller,          \* clients of the API
    Shapes,          \* what may be deployed, a subset of Shape
    MaxConcurrency,  \* the function's max_concurrency
    MaxParallel,     \* runs a node executes at once
    Timeout, Grace,  \* TimeoutSeconds and TokenGrace
    MaxRun,          \* bound: rows of fn_runs
    MaxFires,        \* bound: instants of the cron schedule
    MaxSwitch,       \* bound: times the tunnel is switched off or the function deleted
    MaxFaults        \* bound: lost calls, failed statements and crashes

Run == 1..MaxRun
Shape == [lambda : BOOLEAN, tunnel : BOOLEAN, cron : BOOLEAN]
Starter == Node \cup Proc
Finished == {"succeeded", "failed", "timeout", "cancelled"}
Limit == Timeout + Grace
None == "none"

ASSUME FunctionsAssumption ==
    /\ Shapes \subseteq Shape
    /\ Node \cap Proc = {} /\ None \notin Starter /\ IsFiniteSet(Proc)
    /\ MaxConcurrency \in Nat \ {0} /\ MaxParallel \in Nat \ {0}
    /\ Timeout \in Nat /\ Grace \in Nat /\ MaxRun \in Nat
    /\ MaxFires \in Nat /\ MaxSwitch \in Nat /\ MaxFaults \in Nat

VARIABLES
    run,     \* fn_runs: status and age (time since started_at); "new" is no row yet, "gone" a deleted one
    fn,      \* fn_functions: "none", "live" or "deleted", its shape and last_cron_at
    tunnel,  \* vpn_tunnels.enabled
    lock,    \* who holds the row lock on the function
    start,   \* Claim of a node or DispatchLambda of a process, in progress
    exec,    \* what executes a run: a container on a node or a goroutine of a process
    node,    \* whether the node keeps its tunnel up, and offers it to the relay
    call,    \* the API call of a caller, in progress
    tick,    \* Tick of a process, in progress
    fires,   \* instants of the cron schedule that have passed
    crons,   \* history variable: how often Tick has fired the cron
    killed,  \* history variable: the kill switch has returned and was not undone
    switches, faults \* what is left of them

vars == <<run, fn, tunnel, lock, start, exec, node, call, tick, fires, crons, killed, switches, faults>>

NoStart == [pc |-> "idle", left |-> {}]
NoExec == [pc |-> "none", by |-> None, out |-> None, stop |-> FALSE]
NoCall == [pc |-> "idle", run |-> 0, left |-> {}]
NoTick == [pc |-> "idle", at |-> 0, last |-> 0, left |-> {}]

Init ==
    /\ run = [r \in Run |-> [status |-> "new", age |-> 0]]
    /\ \E s \in Shapes : fn = [state |-> "live", shape |-> s, last |-> 0]
    /\ tunnel = TRUE
    /\ lock = None
    /\ start = [s \in Starter |-> NoStart]
    /\ exec = [r \in Run |-> NoExec]
    /\ node = [n \in Node |-> [up |-> FALSE, relay |-> FALSE]]
    /\ call = [c \in Caller |-> NoCall]
    /\ tick = [p \in Proc |-> NoTick]
    /\ fires = 0
    /\ crons = 0
    /\ killed = FALSE
    /\ switches = MaxSwitch
    /\ faults = MaxFaults

-----------------------------------------------------------------------------
(* The store                                                               *)

With(status) == {r \in Run : run[r].status = status}
Row(r) == run[r].status \notin {"new", "gone"}
TunnelOk == fn.shape.tunnel => tunnel
Fault == faults > 0 /\ faults' = faults - 1

\* INSERT of a row.  Rows are numbered by queued_at, which is read before the INSERT, by any process:
\* they need not appear in that order.
EnqueueRun ==
    IF fn.state = "live" /\ With("new") # {}
    THEN \E r \in With("new") : run' = [run EXCEPT ![r].status = "queued"]
    ELSE UNCHANGED run

\* FinishRun writes the status whatever it was; a row that was deleted stays so.
FinishRun(r, status) == run' = IF Row(r) THEN [run EXCEPT ![r] = [status |-> status, age |-> 0]] ELSE run

\* finish: the row, then stopLambda, which reaches the goroutine of its own process if it has registered.
Finish(r, status, p) ==
    /\ FinishRun(r, status)
    /\ exec' = IF exec[r].by = p /\ exec[r].pc # "spawn" THEN [exec EXCEPT ![r].stop = TRUE] ELSE exec

-----------------------------------------------------------------------------
(* Claim and DispatchLambda                                                *)

StartTo(s, st) == start' = [start EXCEPT ![s] = st]
Skip(s) == StartTo(s, [pc |-> IF Cardinality(start[s].left) > 1 THEN "list" ELSE "idle",
                       left |-> start[s].left \ {Min(start[s].left)}])
Tried(s) == Min(start[s].left)
NotStarting == UNCHANGED <<fn, tunnel, node, call, tick, fires, crons, killed, switches>>

\* The runs a node executes, as its loop counts them.
Executing(n) == {r \in Run : exec[r].pc # "none" /\ exec[r].by = n}

\* QueuedRuns; a node asks only while it executes fewer than MaxParallel.  Nodes pass over the runs of
\* Lambda functions, processes over the others.
StartList(s) ==
    /\ start[s].pc = "idle" /\ With("queued") # {} /\ fn.shape.lambda = (s \in Proc)
    /\ s \in Node => Cardinality(Executing(s)) < MaxParallel
    /\ StartTo(s, [pc |-> "list", left |-> With("queued")])
    /\ NotStarting /\ UNCHANGED <<run, lock, exec, faults>>

\* The function and its tunnel are read.  A Lambda run with a tunnel needs a node that reported lately,
\* which is not certain.
StartCheck(s) ==
    /\ start[s].pc = "list"
    /\ LET ok == fn.state = "live" /\ TunnelOk
       IN  \/ ok /\ StartTo(s, [start[s] EXCEPT !.pc = "lock"])
           \/ (~ok \/ (fn.shape.lambda /\ fn.shape.tunnel)) /\ Skip(s)
    /\ NotStarting /\ UNCHANGED <<run, lock, exec, faults>>

\* Mutant: the function row is read without FOR UPDATE.
StartLockMutant(s) ==
    /\ start[s].pc = "lock"
    /\ \/ /\ fn.state = "live" /\ Cardinality(With("running")) < MaxConcurrency
          /\ StartTo(s, [start[s] EXCEPT !.pc = "update"])
       \/ /\ run[Tried(s)].status # "queued" \/ Cardinality(With("running")) >= MaxConcurrency
          /\ Skip(s)
    /\ NotStarting /\ UNCHANGED <<run, lock, exec, faults>>

\* TryStart, SELECT ... FOR UPDATE OF f and the count.  The run's status is the one of the
\* statement's snapshot, which may be older than the lock.
StartLock(s) ==
    /\ start[s].pc = "lock"
    /\ \/ /\ lock = None /\ fn.state = "live" /\ Cardinality(With("running")) < MaxConcurrency
          /\ lock' = s /\ StartTo(s, [start[s] EXCEPT !.pc = "update"])
       \/ /\ \/ run[Tried(s)].status # "queued"
             \/ lock = None /\ Cardinality(With("running")) >= MaxConcurrency
          /\ Skip(s) /\ UNCHANGED lock
    /\ NotStarting /\ UNCHANGED <<run, exec, faults>>

\* Mutant: the UPDATE does not repeat AND status='queued'.
StartUpdateMutant(s) ==
    /\ start[s].pc = "update" /\ lock' = None
    /\ LET r == Tried(s) IN
       /\ run' = IF Row(r) THEN [run EXCEPT ![r] = [status |-> "running", age |-> 0]] ELSE run
       /\ IF s \in Node
          THEN StartTo(s, [start[s] EXCEPT !.pc = "token"]) /\ UNCHANGED <<exec, faults>>
          ELSE /\ Skip(s) /\ UNCHANGED faults
               /\ exec' = [exec EXCEPT ![r] = [NoExec EXCEPT !.pc = "spawn", !.by = s]]
    /\ NotStarting

\* TryStart, the conditional UPDATE and the commit; a failure rolls back.  DispatchLambda starts its
\* goroutine, unless it cannot read the run again.
StartUpdate(s) ==
    /\ start[s].pc = "update" /\ lock' = None
    /\ LET r == Tried(s) IN
       \/ /\ run[r].status = "queued"
          /\ run' = [run EXCEPT ![r] = [status |-> "running", age |-> 0]]
          /\ IF s \in Node
             THEN StartTo(s, [start[s] EXCEPT !.pc = "token"]) /\ UNCHANGED <<exec, faults>>
             ELSE /\ Skip(s)
                  /\ \/ exec' = [exec EXCEPT ![r] = [NoExec EXCEPT !.pc = "spawn", !.by = s]] /\ UNCHANGED faults
                     \/ Fault /\ UNCHANGED exec
       \/ run[r].status # "queued" /\ Skip(s) /\ UNCHANGED <<run, exec, faults>>
       \/ Fault /\ Skip(s) /\ UNCHANGED <<run, exec>>
    /\ NotStarting

\* PutToken, and the answer reaches the node, which executes the run whatever has become of it; or the
\* token cannot be stored and the run fails; or the answer is lost.
ClaimToken(n) ==
    /\ start[n].pc = "token"
    /\ LET r == Tried(n) IN
       \/ /\ exec' = [exec EXCEPT ![r] = [NoExec EXCEPT !.pc = IF fn.shape.tunnel THEN "open" ELSE "run", !.by = n]]
          /\ StartTo(n, NoStart) /\ UNCHANGED <<run, faults>>
       \/ Fault /\ FinishRun(r, "failed") /\ Skip(n) /\ UNCHANGED exec
       \/ Fault /\ StartTo(n, NoStart) /\ UNCHANGED <<run, exec>>
    /\ UNCHANGED <<node, fn, tunnel, lock, call, tick, fires, crons, killed, switches>>

-----------------------------------------------------------------------------
(* Execution                                                               *)

ExecTo(r, e) == exec' = [exec EXCEPT ![r] = e]
ExecPc(r, pc) == ExecTo(r, [exec[r] EXCEPT !.pc = pc])
Report(r, out) == ExecTo(r, [exec[r] EXCEPT !.pc = "report", !.out = out])
NotExecuting == UNCHANGED <<fn, tunnel, lock, start, node, call, tick, fires, crons, killed, switches>>

\* The node's goroutine opens the tunnel the answer described, on or off by now, or fails.
ContainerOpen(r) ==
    /\ exec[r].pc = "open"
    /\ \/ /\ ExecPc(r, "run") /\ node' = [node EXCEPT ![exec[r].by].up = TRUE]
          /\ UNCHANGED faults
       \/ Fault /\ Report(r, "failed") /\ UNCHANGED node
    /\ UNCHANGED <<run, fn, tunnel, lock, start, call, tick, fires, crons, killed, switches>>

\* The container ends or is stopped: by its timeout, or by the node after Sync said so.
ContainerEnd(r) ==
    /\ exec[r].pc = "run"
    /\ \E out \in IF exec[r].stop THEN {"cancelled", "timeout"} ELSE {"succeeded", "failed", "timeout"} :
          Report(r, out)
    /\ NotExecuting /\ UNCHANGED <<run, faults>>

\* executeLambda registers its cancel function.
LambdaRegister(r) ==
    /\ exec[r].pc = "spawn" /\ ExecPc(r, "ensure")
    /\ NotExecuting /\ UNCHANGED <<run, faults>>

LambdaEnsure(r) ==
    /\ exec[r].pc = "ensure"
    /\ \/ ~exec[r].stop /\ ExecPc(r, IF fn.shape.tunnel THEN "relay" ELSE "mint") /\ UNCHANGED faults
       \/ ~exec[r].stop /\ Fault /\ Report(r, "failed")
       \/ exec[r].stop /\ Report(r, "failed") /\ UNCHANGED faults
    /\ NotExecuting /\ UNCHANGED run

\* waitRelay: the node attaches, the wait ends, or the run is stopped.
LambdaRelay(r) ==
    /\ exec[r].pc = "relay"
    /\ \/ (\E n \in Node : node[n].relay) /\ ExecPc(r, "mint")
       \/ ~exec[r].stop /\ Report(r, "failed")
       \/ exec[r].stop /\ ExecTo(r, NoExec)
    /\ NotExecuting /\ UNCHANGED <<run, faults>>

\* The deadline, then mint: a run that is over or has lost its tunnel, or cannot be read, is left as it is;
\* one whose token cannot be stored has failed.
LambdaMint(r) ==
    /\ exec[r].pc = "mint"
    /\ \/ run[r].age >= Timeout /\ Report(r, "timeout") /\ UNCHANGED faults
       \/ /\ run[r].age < Timeout /\ ~exec[r].stop /\ run[r].status = "running" /\ TunnelOk
          /\ ExecPc(r, "invoke") /\ UNCHANGED faults
       \/ /\ run[r].age < Timeout /\ (exec[r].stop \/ run[r].status # "running" \/ ~TunnelOk)
          /\ ExecTo(r, NoExec) /\ UNCHANGED faults
       \/ Fault /\ (ExecTo(r, NoExec) \/ Report(r, "failed"))
    /\ NotExecuting /\ UNCHANGED run

\* One batch: it ends, fails, or asks to continue.
LambdaInvoke(r) ==
    /\ exec[r].pc = "invoke"
    /\ \/ ~exec[r].stop /\ \E out \in {"succeeded", "failed"} : Report(r, out)
       \/ ~exec[r].stop /\ ExecPc(r, "mint")
       \/ exec[r].stop /\ ExecTo(r, NoExec)
    /\ NotExecuting /\ UNCHANGED <<run, faults>>

\* Finish: a run that is no longer running is not written; the node's call may be lost.
ReportRead(r) ==
    /\ exec[r].pc = "report"
    /\ \/ run[r].status = "running" /\ ExecPc(r, "write") /\ UNCHANGED faults
       \/ run[r].status # "running" /\ ExecTo(r, NoExec) /\ UNCHANGED faults
       \/ Fault /\ ExecTo(r, NoExec)
    /\ NotExecuting /\ UNCHANGED run

ReportWrite(r) ==
    /\ exec[r].pc = "write" /\ ExecTo(r, NoExec)
    /\ \/ FinishRun(r, exec[r].out) /\ UNCHANGED faults
       \/ Fault /\ UNCHANGED run
    /\ NotExecuting

Execute(r) ==
    \/ ContainerOpen(r) \/ ContainerEnd(r) \/ LambdaRegister(r) \/ LambdaEnsure(r) \/ LambdaRelay(r)
    \/ LambdaMint(r) \/ LambdaInvoke(r) \/ ReportRead(r) \/ ReportWrite(r)

\* Mutant: a tunnel is stopped only when one of the node's runs is.
SyncMutant(n) ==
    /\ LET over == {r \in Executing(n) : run[r].status # "running"} IN
       /\ exec' = [r \in Run |-> IF r \in over THEN [exec[r] EXCEPT !.stop = TRUE] ELSE exec[r]]
       /\ node' = IF over # {} /\ ~tunnel THEN [node EXCEPT ![n].up = FALSE] ELSE node
    /\ UNCHANGED <<run, fn, tunnel, lock, start, call, tick, fires, crons, killed, switches, faults>>

\* Sync: the node's heartbeat.  It stops what is no longer running, drops a tunnel that is off, and
\* offers the tunnel of the Lambda runs it owns to the relay.  A relay worker may reopen the tunnel
\* before it is stopped itself.
Sync(n) ==
    /\ LET over == {r \in Executing(n) : run[r].status # "running"}
           relay == fn.state = "live" /\ fn.shape.lambda /\ fn.shape.tunnel /\ tunnel /\ With("running") # {}
       IN  /\ exec' = [r \in Run |-> IF r \in over THEN [exec[r] EXCEPT !.stop = TRUE] ELSE exec[r]]
           /\ \E up \in IF tunnel THEN {node[n].up \/ relay} ELSE {FALSE, node[n].relay} :
                 node' = [node EXCEPT ![n] = [up |-> up, relay |-> relay]]
    /\ UNCHANGED <<run, fn, tunnel, lock, start, call, tick, fires, crons, killed, switches, faults>>

-----------------------------------------------------------------------------
(* The API                                                                 *)

CallTo(c, k) == call' = [call EXCEPT ![c] = k]
CallPc(c, pc) == CallTo(c, [call[c] EXCEPT !.pc = pc])
NotCalled == UNCHANGED <<lock, start, node, tick, fires, crons, faults>>

\* Enqueue: the function and its tunnel are read, then the row is inserted.
EnqueueCheck(c) ==
    /\ call[c].pc = "idle" /\ fn.state = "live" /\ TunnelOk /\ With("new") # {}
    /\ CallPc(c, "enqueue")
    /\ NotCalled /\ UNCHANGED <<run, fn, tunnel, exec, killed, switches>>

EnqueueInsert(c) ==
    /\ call[c].pc = "enqueue" /\ CallTo(c, NoCall)
    /\ EnqueueRun
    /\ NotCalled /\ UNCHANGED <<fn, tunnel, exec, killed, switches>>

\* CancelRun reads the run; Cancel does nothing unless it was queued or running.
CancelRead(c, r) ==
    /\ call[c].pc = "idle" /\ run[r].status \in {"queued", "running"}
    /\ CallTo(c, [NoCall EXCEPT !.pc = "cancel", !.run = r])
    /\ NotCalled /\ UNCHANGED <<run, fn, tunnel, exec, killed, switches>>

CancelWrite(c) ==
    /\ call[c].pc = "cancel" /\ CallTo(c, NoCall)
    /\ \E p \in Proc : Finish(call[c].run, "cancelled", p)
    /\ NotCalled /\ UNCHANGED <<fn, tunnel, killed, switches>>

SetEnabled(c) ==
    /\ call[c].pc = "idle" /\ ~tunnel
    /\ tunnel' = TRUE /\ killed' = FALSE
    /\ NotCalled /\ UNCHANGED <<run, fn, exec, call, switches>>

\* DisableTunnel: off first, then the running runs are listed and cancelled, then the queued ones.
DisableTunnel(c) ==
    /\ call[c].pc = "idle" /\ tunnel /\ fn.shape.tunnel /\ switches > 0
    /\ tunnel' = FALSE /\ switches' = switches - 1
    /\ CallPc(c, "off running")
    /\ NotCalled /\ UNCHANGED <<run, fn, exec, killed>>

\* Delete cancels in the same way before it deletes.
Delete(c) ==
    /\ call[c].pc = "idle" /\ fn.state = "live" /\ switches > 0
    /\ switches' = switches - 1
    /\ CallPc(c, "del running")
    /\ NotCalled /\ UNCHANGED <<run, fn, tunnel, exec, killed>>

Listing == [p \in {"off running", "off queued", "del running", "del queued"} |->
              IF p \in {"off running", "del running"} THEN "running" ELSE "queued"]
AfterList == [p \in {"off running", "off queued", "del running", "del queued"} |->
              CASE p = "off running" -> "off queued" [] p = "del running" -> "del queued"
                [] p = "off queued" -> "off end" [] OTHER -> "del end"]

\* One of the two lists (call.left # {} while its runs are visited).
ListRuns(c) ==
    /\ call[c].pc \in DOMAIN Listing /\ call[c].left = {}
    /\ LET listed == With(Listing[call[c].pc]) IN
       IF listed = {} THEN CallPc(c, AfterList[call[c].pc])
                      ELSE CallTo(c, [call[c] EXCEPT !.left = listed])
    /\ NotCalled /\ UNCHANGED <<run, fn, tunnel, exec, killed, switches>>

\* Cancel of a listed run, in order.
CancelListed(c) ==
    /\ call[c].left # {}
    /\ LET r == Min(call[c].left) IN
       /\ \E p \in Proc : Finish(r, "cancelled", p)
       /\ CallTo(c, [call[c] EXCEPT !.left = @ \ {r},
                       !.pc = IF call[c].left = {r} THEN AfterList[@] ELSE @])
    /\ NotCalled /\ UNCHANGED <<fn, tunnel, killed, switches>>

DisableReturns(c) ==
    /\ call[c].pc = "off end" /\ CallTo(c, NoCall)
    /\ killed' = ~tunnel
    /\ NotCalled /\ UNCHANGED <<run, fn, tunnel, exec, switches>>

\* The AWS Lambda may not be deletable, and then the function stays; its runs go with it.
DeleteFunction(c) ==
    /\ call[c].pc = "del end" /\ CallTo(c, NoCall)
    /\ \/ /\ fn' = [fn EXCEPT !.state = "deleted"]
          /\ run' = [r \in Run |-> IF Row(r) THEN [status |-> "gone", age |-> 0] ELSE run[r]]
       \/ fn.shape.lambda /\ UNCHANGED <<fn, run>>
    /\ NotCalled /\ UNCHANGED <<tunnel, exec, killed, switches>>

-----------------------------------------------------------------------------
(* Tick                                                                    *)

TickTo(p, t) == tick' = [tick EXCEPT ![p] = t]
TickPc(p, pc) == TickTo(p, [tick[p] EXCEPT !.pc = pc])
NotTicked == UNCHANGED <<tunnel, lock, start, node, call, fires, killed, switches, faults>>

Due == fn.state = "live" /\ fn.shape.cron /\ fn.last < fires

\* The clock and the cron functions are read, and one is due.
TickCron(p) ==
    /\ tick[p].pc = "idle" /\ Due
    /\ TickTo(p, [NoTick EXCEPT !.at = fires, !.last = fn.last, !.pc = "cas"])
    /\ NotTicked /\ UNCHANGED <<run, fn, exec, crons>>

\* Mutant: last_cron_at is set whatever it is by now.
CASLastCronMutant(p) ==
    /\ tick[p].pc = "cas"
    /\ fn' = [fn EXCEPT !.last = tick[p].at] /\ TickTo(p, [NoTick EXCEPT !.pc = "overlap"])
    /\ NotTicked /\ UNCHANGED <<run, exec, crons>>

CASLastCron(p) ==
    /\ tick[p].pc = "cas"
    /\ IF fn.state = "live" /\ fn.last = tick[p].last
       THEN fn' = [fn EXCEPT !.last = tick[p].at] /\ TickTo(p, [NoTick EXCEPT !.pc = "overlap"])
       ELSE TickTo(p, [NoTick EXCEPT !.pc = "reap"]) /\ UNCHANGED fn
    /\ NotTicked /\ UNCHANGED <<run, exec, crons>>

\* A queued run makes the cron skip this time; Enqueue then reads the tunnel.
TickOverlap(p) ==
    /\ tick[p].pc = "overlap"
    /\ TickPc(p, IF With("queued") = {} /\ TunnelOk THEN "enqueue" ELSE "reap")
    /\ NotTicked /\ UNCHANGED <<run, fn, exec, crons>>

TickEnqueue(p) ==
    /\ tick[p].pc = "enqueue" /\ TickPc(p, "reap")
    /\ EnqueueRun /\ crons' = crons + 1
    /\ NotTicked /\ UNCHANGED <<fn, exec>>

\* Mutant: runs the backend executes itself are not reaped.
TickReapMutant(p) ==
    /\ tick[p].pc = "reap" \/ (tick[p].pc = "idle" /\ ~Due)
    /\ LET late == {r \in With("running") : run[r].age > Limit /\ ~fn.shape.lambda} IN
       TickTo(p, IF late = {} THEN NoTick ELSE [NoTick EXCEPT !.pc = "late", !.left = late])
    /\ NotTicked /\ UNCHANGED <<run, fn, exec, crons>>

\* No cron is due, or its turn is over: the running runs that started too long ago.
TickReap(p) ==
    /\ tick[p].pc = "reap" \/ (tick[p].pc = "idle" /\ ~Due)
    /\ LET late == {r \in With("running") : run[r].age > Limit} IN
       TickTo(p, IF late = {} THEN NoTick ELSE [NoTick EXCEPT !.pc = "late", !.left = late])
    /\ NotTicked /\ UNCHANGED <<run, fn, exec, crons>>

TickFinish(p) ==
    /\ tick[p].pc = "late"
    /\ LET r == Min(tick[p].left) IN
       /\ Finish(r, "timeout", p)
       /\ TickTo(p, IF tick[p].left = {r} THEN NoTick ELSE [tick[p] EXCEPT !.left = @ \ {r}])
    /\ NotTicked /\ UNCHANGED <<fn, crons>>

TickStep(p) ==
    \/ TickCron(p) \/ CASLastCron(p) \/ TickOverlap(p) \/ TickEnqueue(p) \/ TickReap(p) \/ TickFinish(p)

-----------------------------------------------------------------------------
(* Time and failures                                                       *)

\* Time passes for the runs in progress, no further than the reaper can tell.
Tock ==
    /\ \E r \in With("running") : run[r].age <= Limit
    /\ run' = [r \in Run |-> IF run[r].status = "running" /\ run[r].age <= Limit
                             THEN [run[r] EXCEPT !.age = @ + 1] ELSE run[r]]
    /\ UNCHANGED <<fn, tunnel, lock, start, exec, node, call, tick, fires, crons, killed, switches, faults>>

Schedule ==
    /\ fires < MaxFires /\ fn.shape.cron /\ fires' = fires + 1
    /\ UNCHANGED <<run, fn, tunnel, lock, start, exec, node, call, tick, crons, killed, switches, faults>>

\* A node restarts and forgets what it executes; its claim in progress goes on at the server, which
\* answers nobody.
NodeCrash(n) ==
    /\ Fault /\ (Executing(n) # {} \/ node[n].up)
    /\ exec' = [r \in Run |-> IF r \in Executing(n) THEN NoExec ELSE exec[r]]
    /\ node' = [node EXCEPT ![n] = [up |-> FALSE, relay |-> FALSE]]
    /\ UNCHANGED <<run, fn, tunnel, lock, start, call, tick, fires, crons, killed, switches>>

\* A backend process dies: its transactions roll back and its goroutines end.
ProcCrash(p) ==
    /\ Fault
    /\ exec' = [r \in Run |-> IF r \in Executing(p) THEN NoExec ELSE exec[r]]
    /\ start' = [start EXCEPT ![p] = NoStart]
    /\ tick' = [tick EXCEPT ![p] = NoTick]
    /\ lock' = IF lock = p THEN None ELSE lock
    /\ UNCHANGED <<run, fn, tunnel, node, call, fires, crons, killed, switches>>

\* A client goes away, or the process that serves it dies: the rest of the call is not done.
CallLost(c) ==
    /\ Fault /\ call[c].pc # "idle" /\ CallTo(c, NoCall)
    /\ UNCHANGED <<run, fn, tunnel, lock, start, exec, node, tick, fires, crons, killed, switches>>

Starting(s) == StartList(s) \/ StartCheck(s) \/ StartLock(s) \/ StartUpdate(s)

CallStep(c) ==
    \/ EnqueueInsert(c) \/ CancelWrite(c) \/ ListRuns(c) \/ CancelListed(c) \/ DisableReturns(c) \/ DeleteFunction(c)

Request(c) ==
    \/ EnqueueCheck(c) \/ SetEnabled(c) \/ DisableTunnel(c) \/ Delete(c)
    \/ \E r \in Run : CancelRead(c, r)

Next ==
    \/ \E s \in Starter : Starting(s)
    \/ \E n \in Node : ClaimToken(n) \/ Sync(n) \/ NodeCrash(n)
    \/ \E r \in Run : Execute(r)
    \/ \E c \in Caller : Request(c) \/ CallStep(c) \/ CallLost(c)
    \/ \E p \in Proc : TickStep(p) \/ ProcCrash(p)
    \/ Tock \/ Schedule

Spec == Init /\ [][Next]_vars

\* The loops of nodes and processes keep running, calls go on, containers and batches end (each has a
\* timeout), time passes.
FairSpec ==
    /\ Spec
    /\ \A s \in Starter : WF_vars(Starting(s))
    /\ \A n \in Node : WF_vars(ClaimToken(n)) /\ WF_vars(Sync(n))
    /\ \A r \in Run : WF_vars(Execute(r))
    /\ \A c \in Caller : WF_vars(CallStep(c))
    /\ \A p \in Proc : WF_vars(TickStep(p))
    /\ WF_vars(Tock)

-----------------------------------------------------------------------------
(* Properties                                                              *)

TypeOK ==
    /\ run \in [Run -> [status : {"new", "queued", "running", "gone"} \cup Finished, age : 0..(Limit + 1)]]
    /\ fn \in [state : {"live", "deleted"}, shape : Shapes, last : 0..MaxFires]
    /\ tunnel \in BOOLEAN /\ killed \in BOOLEAN
    /\ lock \in Starter \cup {None}
    /\ start \in [Starter -> [pc : {"idle", "list", "lock", "update", "token"}, left : SUBSET Run]]
    /\ exec \in [Run -> [pc : {"none", "open", "run", "spawn", "ensure", "relay", "mint", "invoke", "report", "write"},
                         by : Starter \cup {None}, out : Finished \cup {None}, stop : BOOLEAN]]
    /\ node \in [Node -> [up : BOOLEAN, relay : BOOLEAN]]
    /\ call \in [Caller -> [pc : {"idle", "enqueue", "cancel", "off end", "del end"} \cup DOMAIN Listing,
                            run : Run \cup {0}, left : SUBSET Run]]
    /\ tick \in [Proc -> [pc : {"idle", "cas", "overlap", "enqueue", "reap", "late"},
                          at : 0..MaxFires, last : 0..MaxFires, left : SUBSET Run]]
    /\ fires \in 0..MaxFires /\ crons \in Nat
    /\ switches \in 0..MaxSwitch /\ faults \in 0..MaxFaults

\* Several processes ticking never fire one instant of the schedule twice.
CronFiresOnce == crons <= fires

\* fn_runs is a JobPool of max_concurrency: a run that has ended, or that was cancelled while it was
\* queued, never runs again, whoever still holds an older reading of its row.
Pool == INSTANCE JobPool WITH
    Job <- Run, Cap <- MaxConcurrency,
    phase <- [r \in Run |-> CASE run[r].status = "new" -> "new"
                             [] run[r].status = "queued" -> "waiting"
                             [] run[r].status = "running" -> "active"
                             [] OTHER -> "ended"]
PoolImplemented == Pool!Spec

\* Whatever becomes of its node, its process or the answer to the claim, a running run ends.
EveryRunEnds == \A r \in Run : run[r].status = "running" ~> run[r].status # "running"

\* Once the kill switch is thrown every node drops the tunnel, also one that opened it on an older claim.
TunnelDropped == \A n \in Node : ~tunnel ~> (tunnel \/ ~node[n].up)

\* Finish: "already cancelled/reaped; the first terminal state wins".
FirstTerminalWins ==
    [][\A r \in Run : run[r].status \in Finished => run'[r].status \in {run[r].status, "gone"}]_vars

\* DisableTunnel is the kill switch: "tunnel off and every run that uses it cancelled".
KillSwitchCancels == killed => \A r \in Run : run[r].status \notin {"queued", "running"}
=============================================================================

--------------------------- MODULE FnRunsProofs -----------------------------
(***************************************************************************)
(* What the functions' runs promise, for any number of nodes, processes,   *)
(* callers, runs, cron instants, lost calls and crashes: fn_runs is a job  *)
(* pool, and the schedule fires once.                                      *)
(***************************************************************************)
EXTENDS FnRuns, TLAPS, FiniteSetTheorems

Status == {"new", "queued", "running", "gone"} \cup Finished
RunType == [Run -> [status : Status, age : 0..(Limit + 1)]]

\* The phase of a job of the pool, as FnRuns maps it.
Phase == [r \in Run |-> CASE run[r].status = "new" -> "new"
                          [] run[r].status = "queued" -> "waiting"
                          [] run[r].status = "running" -> "active"
                          [] OTHER -> "ended"]

-----------------------------------------------------------------------------
(* What a step does to the rows, in terms of their status.                 *)

NoChange == \A r \in Run : run'[r].status = run[r].status
Queues(r) ==
    /\ run[r].status = "new" /\ run'[r].status = "queued"
    /\ \A q \in Run \ {r} : run'[q].status = run[q].status
Runs(r) ==
    /\ run[r].status = "queued" /\ run'[r].status = "running"
    /\ Cardinality(With("running")) < MaxConcurrency
    /\ \A q \in Run \ {r} : run'[q].status = run[q].status
EndsSome ==
    \A r \in Run : \/ run'[r].status = run[r].status
                   \/ run[r].status # "new" /\ run'[r].status \notin {"new", "queued", "running"}

RunStep == NoChange \/ (\E r \in Run : Queues(r) \/ Runs(r)) \/ EndsSome

LEMMA PhaseMeans ==
    \A r \in Run : /\ Phase[r] = "new" <=> run[r].status = "new"
                   /\ Phase[r] = "waiting" <=> run[r].status = "queued"
                   /\ Phase[r] = "active" <=> run[r].status = "running"
                   /\ Phase[r] \in {"new", "waiting", "active", "ended"}
BY DEF Phase

LEMMA PhaseIsFunction == Phase = [r \in Run |-> Phase[r]]
BY DEF Phase

LEMMA SameCardinality == \A S : Pool!Cardinality(S) = Cardinality(S)
BY Zenon DEF Cardinality, Pool!Cardinality

LEMMA RunStepPool == RunStep => [Pool!Next]_Phase
<1> SUFFICES ASSUME RunStep PROVE Pool!Next \/ UNCHANGED Phase
  OBVIOUS
<1>1. CASE NoChange
  BY <1>1 DEF NoChange, Phase
<1>2. ASSUME NEW r \in Run, Queues(r) PROVE Pool!Submit(r)
  BY <1>2 DEF Queues, Pool!Submit
<1>3. ASSUME NEW r \in Run, Runs(r) PROVE Pool!Start(r)
  <2>1. Pool!In("active") = With("running")
    BY DEF Pool!In, With
  <2>2. Cardinality(Pool!In("active")) < MaxConcurrency
    BY <1>3, <2>1 DEF Runs
  <2> QED
    BY <1>3, <2>2, SameCardinality DEF Runs, Pool!Start
<1>4. CASE EndsSome
  <2>1. PICK jobs \in SUBSET Run :
          jobs = {r \in Run : run'[r].status # run[r].status /\ run[r].status \in {"queued", "running"}}
    OBVIOUS
  <2>2. jobs \in SUBSET (Pool!In("waiting") \cup Pool!In("active"))
    BY <2>1 DEF Pool!In
  <2>3. Pool!End(jobs)
    BY <1>4, <2>1 DEF EndsSome, Pool!End
  <2> QED
    BY <2>2, <2>3 DEF Pool!Next
<1> QED
  BY <1>1, <1>2, <1>3, <1>4 DEF RunStep, Pool!Next

-----------------------------------------------------------------------------
(* The inductive invariant, by the variables its parts are about.          *)

StartPc == {"idle", "list", "lock", "update", "token"}
StartType == [pc : StartPc, left : SUBSET Run]
ExecPcs == {"none", "open", "run", "spawn", "ensure", "relay", "mint", "invoke", "report", "write"}
ExecType == [pc : ExecPcs, by : Starter \cup {None}, out : Finished \cup {None}, stop : BOOLEAN]
ListPc == {"off running", "off queued", "del running", "del queued"}
CallType == [pc : {"idle", "enqueue", "cancel", "off end", "del end"} \cup ListPc, run : Run \cup {0}, left : SUBSET Run]
TickPcs == {"idle", "cas", "overlap", "enqueue", "reap", "late"}
TickType == [pc : TickPcs, at : 0..MaxFires, last : 0..MaxFires, left : SUBSET Run]

RunOK == run \in RunType
FnOK == fn \in [state : {"live", "deleted"}, shape : Shapes, last : 0..MaxFires]
NodeOK == node \in [Node -> [up : BOOLEAN, relay : BOOLEAN]]
BoundOK == tunnel \in BOOLEAN /\ killed \in BOOLEAN /\ switches \in 0..MaxSwitch /\ faults \in 0..MaxFaults

\* Whoever has passed the list has a run to try.
StartOK == start \in [Starter -> StartType] /\ \A s \in Starter : start[s].pc # "idle" => start[s].left # {}

\* Between the count and the UPDATE the row lock of the function is held, and
\* then only fewer runs may be running.
LockOK ==
    /\ lock \in Starter \cup {None}
    /\ \A s \in Starter : start[s].pc = "update" => lock = s /\ Cardinality(With("running")) < MaxConcurrency

\* What is reported of a run is how it ended.
ExecOK == exec \in [Run -> ExecType] /\ \A r \in Run : exec[r].pc \in {"report", "write"} => exec[r].out \in Finished

CallOK ==
    /\ call \in [Caller -> CallType]
    /\ \A c \in Caller : call[c].pc = "cancel" => call[c].run \in Run
    /\ \A c \in Caller : call[c].left # {} => call[c].pc \in ListPc

\* A tick that is going to advance last_cron_at moves it forward, and not past the clock.
TickOK ==
    /\ tick \in [Proc -> TickType] /\ fires \in 0..MaxFires
    /\ \A p \in Proc : tick[p].pc = "late" => tick[p].left # {}
    /\ \A p \in Proc : tick[p].pc = "cas" => tick[p].last < tick[p].at /\ tick[p].at <= fires

\* Every firing, made or still to be made, was paid for by an advance of last_cron_at.
Firing == {p \in Proc : tick[p].pc \in {"overlap", "enqueue"}}
FireOK == crons \in Nat /\ crons + Cardinality(Firing) <= fn.last /\ fn.last <= fires

Inv == RunOK /\ FnOK /\ NodeOK /\ BoundOK /\ StartOK /\ LockOK /\ ExecOK /\ CallOK /\ TickOK /\ FireOK

-----------------------------------------------------------------------------
(* The least of a set of runs, and how many are running.                   *)

LEMMA MinMeans == ASSUME NEW S \in SUBSET Run, S # {} PROVE Min(S) \in S
<1>1. S \subseteq Nat
  BY FunctionsAssumption DEF Run
<1> DEFINE R == {ss \in Nat \X Nat : ss[1] < ss[2]}
<1>2. IsWellFoundedOn(R, Nat)
  BY NatLessThanWellFounded, Zenon DEF OpToRel
<1>3. PICK x \in S : \A y \in S : ~(<<y, x>> \in R)
  <2> HIDE DEF R
  <2> QED
    BY <1>1, <1>2, WFMin
<1>4. \A y \in S : x <= y
  <2> SUFFICES ASSUME NEW y \in S PROVE ~(y < x)
    BY <1>1
  <2>1. x \in Nat /\ y \in Nat /\ <<y, x>> \notin R
    BY <1>1, <1>3
  <2> QED
    BY <2>1
<1> QED
  BY <1>4 DEF Min

LEMMA RunFinite == IsFiniteSet(Run) /\ \A S \in SUBSET Run : IsFiniteSet(S)
<1>1. MaxRun \in Int /\ 1 \in Int
  BY FunctionsAssumption
<1>2. IsFiniteSet(Run)
  BY <1>1, FS_Interval DEF Run
<1> QED
  BY <1>2, FS_Subset

\* More than one left is one left after the least is taken away.
LEMMA LeftAfterMin ==
    ASSUME NEW S \in SUBSET Run, S # {}, Cardinality(S) > 1
    PROVE  S \ {Min(S)} # {}
<1>1. Min(S) \in S /\ IsFiniteSet(S)
  BY MinMeans, RunFinite
<1> QED
  BY <1>1, FS_Singleton

\* No step but the UPDATE adds to the running runs.
LEMMA FewerRunning ==
    ASSUME RunOK, EndsSome \/ NoChange \/ \E r \in Run : Queues(r)
    PROVE  Cardinality(With("running")') <= Cardinality(With("running"))
<1>1. With("running")' \in SUBSET With("running") /\ IsFiniteSet(With("running"))
  BY RunFinite DEF With, EndsSome, NoChange, Queues
<1> QED
  BY <1>1, FS_Subset

LEMMA RunningIsNat == Cardinality(With("running")) \in Nat
<1>1. IsFiniteSet(With("running"))
  BY RunFinite DEF With
<1> QED
  BY <1>1, FS_CardinalityType

LEMMA RunningIsNatNext == Cardinality(With("running")') \in Nat
<1>1. IsFiniteSet(With("running")')
  BY RunFinite DEF With
<1> QED
  BY <1>1, FS_CardinalityType

-----------------------------------------------------------------------------
(* The parts of the invariant under the writes of the steps.               *)

LEMMA FaultBound ==
    ASSUME BoundOK, Fault \/ UNCHANGED faults, UNCHANGED <<tunnel, killed, switches>> PROVE BoundOK'
BY FunctionsAssumption DEF BoundOK, Fault

\* A row that ends, by whoever writes it.
LEMMA FinishRunMeans ==
    ASSUME RunOK, NEW r \in Run, NEW status \in Finished, FinishRun(r, status)
    PROVE  RunOK' /\ EndsSome
<1>1. CASE Row(r)
  <2>1. run' = [run EXCEPT ![r] = [status |-> status, age |-> 0]] /\ run[r].status \notin {"new", "gone"}
    BY <1>1 DEF FinishRun, Row
  <2>2. run' \in RunType
    BY <2>1, FunctionsAssumption DEF RunOK, RunType, Status, Limit
  <2> QED
    BY <2>1, <2>2 DEF RunOK, RunType, EndsSome, Finished
<1>2. CASE ~Row(r)
  BY <1>2 DEF FinishRun, RunOK, EndsSome
<1> QED
  BY <1>1, <1>2

\* finish also stops the goroutine.
LEMMA FinishMeans ==
    ASSUME RunOK, ExecOK, NEW r \in Run, NEW status \in Finished, NEW p \in Proc, Finish(r, status, p)
    PROVE  RunOK' /\ EndsSome /\ ExecOK'
<1>1. RunOK' /\ EndsSome
  BY FinishRunMeans DEF Finish
<1>2. ExecOK'
  BY DEF Finish, ExecOK, ExecType
<1> QED
  BY <1>1, <1>2

LEMMA EnqueueMeans ==
    ASSUME RunOK, EnqueueRun
    PROVE  RunOK' /\ (NoChange \/ \E r \in Run : Queues(r))
<1>1. CASE UNCHANGED run
  BY <1>1 DEF RunOK, NoChange
<1>2. ASSUME NEW r \in With("new"), run' = [run EXCEPT ![r].status = "queued"]
      PROVE  RunOK' /\ \E q \in Run : Queues(q)
  <2>1. r \in Run /\ run[r].status = "new"
    BY DEF With
  <2>2. RunOK' /\ Queues(r)
    BY <1>2, <2>1 DEF RunOK, RunType, Queues, Status
  <2> QED
    BY <2>1, <2>2
<1> QED
  BY <1>1, <1>2 DEF EnqueueRun

\* Steps that start nothing keep the lock's promise.
LEMMA LockKept ==
    ASSUME RunOK, LockOK, EndsSome \/ NoChange \/ (\E r \in Run : Queues(r)), UNCHANGED lock,
           \A s \in Starter : start'[s].pc = "update" => start[s].pc = "update"
    PROVE  LockOK'
<1>1. Cardinality(With("running")') <= Cardinality(With("running"))
  BY FewerRunning
<1> QED
  BY <1>1, RunningIsNat, RunningIsNatNext, FunctionsAssumption DEF LockOK

LEMMA StartToMeans ==
    ASSUME StartOK, NEW s \in Starter, NEW v \in StartType, v.pc # "idle" => v.left # {}, StartTo(s, v)
    PROVE  StartOK' /\ start'[s] = v /\ \A t \in Starter \ {s} : start'[t] = start[t]
BY DEF StartOK, StartTo

LEMMA SkipMeans ==
    ASSUME StartOK, NEW s \in Starter, start[s].pc # "idle", Skip(s)
    PROVE  /\ StartOK' /\ start'[s].pc \in {"idle", "list"}
           /\ \A t \in Starter \ {s} : start'[t] = start[t]
<1> DEFINE S == start[s].left
           v == [pc |-> IF Cardinality(S) > 1 THEN "list" ELSE "idle", left |-> S \ {Min(S)}]
<1>1. S \in SUBSET Run /\ S # {}
  BY DEF StartOK, StartType
<1>2. v \in StartType /\ v.pc \in {"idle", "list"} /\ (v.pc # "idle" => v.left # {})
  BY <1>1, LeftAfterMin DEF StartType, StartPc
<1>3. StartTo(s, v)
  BY DEF Skip
<1> HIDE DEF v
<1> QED
  BY <1>2, <1>3, StartToMeans

LEMMA TriedMeans == ASSUME StartOK, NEW s \in Starter, start[s].pc # "idle" PROVE Tried(s) \in Run
BY MinMeans DEF StartOK, StartType, Tried

LEMMA NoStartType == NoStart \in StartType /\ NoStart.pc = "idle"
BY DEF NoStart, StartType, StartPc

LEMMA NoExecType == NoExec \in ExecType /\ NoExec.pc = "none"
BY DEF NoExec, ExecType, ExecPcs

LEMMA ExecToMeans ==
    ASSUME ExecOK, NEW r \in Run, NEW v \in ExecType, v.pc \in {"report", "write"} => v.out \in Finished, ExecTo(r, v)
    PROVE  ExecOK'
BY DEF ExecOK, ExecTo

-----------------------------------------------------------------------------
(* Claim and DispatchLambda.                                               *)

\* What starting leaves alone.
Elsewhere == FnOK' /\ CallOK' /\ TickOK' /\ FireOK'

LEMMA StartingElsewhere == Inv /\ UNCHANGED <<fn, call, tick, fires, crons>> => Elsewhere
BY DEF Inv, Elsewhere, FnOK, CallOK, TickOK, FireOK, Firing

\* Steps of a starter that write no row.
LEMMA StartOnly ==
    ASSUME Inv, UNCHANGED run, NotStarting, UNCHANGED <<exec, faults>>, StartOK', LockOK'
    PROVE  Inv' /\ RunStep
<1>1. Elsewhere /\ BoundOK' /\ NodeOK' /\ RunOK' /\ ExecOK'
  BY StartingElsewhere DEF NotStarting, Inv, BoundOK, NodeOK, RunOK, ExecOK
<1>2. RunStep
  BY DEF RunStep, NoChange
<1> QED
  BY <1>1, <1>2 DEF Inv, Elsewhere

LEMMA StartListInv == ASSUME Inv, NEW s \in Starter, StartList(s) PROVE Inv' /\ RunStep
<1> DEFINE v == [pc |-> "list", left |-> With("queued")]
<1>1. v \in StartType /\ v.pc = "list" /\ v.left # {}
  BY DEF StartList, StartType, StartPc, With
<1>2. StartTo(s, v)
  BY DEF StartList
<1> HIDE DEF v
<1>3. StartOK' /\ start'[s] = v /\ \A t \in Starter \ {s} : start'[t] = start[t]
  BY <1>1, <1>2, StartToMeans DEF Inv
<1>4. LockOK'
  BY <1>1, <1>3, LockKept DEF StartList, Inv, NoChange
<1> QED
  BY <1>3, <1>4, StartOnly DEF StartList

LEMMA StartCheckInv == ASSUME Inv, NEW s \in Starter, StartCheck(s) PROVE Inv' /\ RunStep
<1>0. start[s].pc = "list" /\ start[s] \in StartType /\ start[s].left # {} /\ UNCHANGED <<run, lock>>
  BY DEF StartCheck, Inv, StartOK
<1>1. StartOK' /\ \A t \in Starter : start'[t].pc = "update" => start[t].pc = "update"
  <2> DEFINE v == [start[s] EXCEPT !.pc = "lock"]
  <2>1. CASE StartTo(s, v)
    <3>1. v \in StartType /\ v.pc = "lock" /\ v.left # {}
      BY <1>0 DEF StartType, StartPc
    <3> HIDE DEF v
    <3> QED
      BY <2>1, <3>1, StartToMeans DEF Inv
  <2>2. CASE Skip(s)
    BY <1>0, <2>2, SkipMeans DEF Inv
  <2> QED
    BY <2>1, <2>2 DEF StartCheck
<1>2. LockOK'
  BY <1>0, <1>1, LockKept DEF Inv, NoChange
<1> QED
  BY <1>0, <1>1, <1>2, StartOnly DEF StartCheck

\* Only one starter gets the lock, while fewer than MaxConcurrency run.
LEMMA StartLockInv == ASSUME Inv, NEW s \in Starter, StartLock(s) PROVE Inv' /\ RunStep
<1>0. start[s].pc = "lock" /\ start[s] \in StartType /\ start[s].left # {} /\ UNCHANGED run
  BY DEF StartLock, Inv, StartOK
<1>1. CASE UNCHANGED lock /\ Skip(s)
  <2>1. StartOK' /\ \A t \in Starter : start'[t].pc = "update" => start[t].pc = "update"
    BY <1>0, <1>1, SkipMeans DEF Inv
  <2>2. LockOK'
    BY <1>0, <1>1, <2>1, LockKept DEF Inv, NoChange
  <2> QED
    BY <1>0, <2>1, <2>2, StartOnly DEF StartLock
<1> DEFINE v == [start[s] EXCEPT !.pc = "update"]
<1>2. CASE lock = None /\ Cardinality(With("running")) < MaxConcurrency /\ lock' = s /\ StartTo(s, v)
  <2>1. v \in StartType /\ v.pc = "update" /\ v.left # {}
    BY <1>0 DEF StartType, StartPc
  <2> HIDE DEF v
  <2>2. StartOK' /\ start'[s] = v /\ \A t \in Starter \ {s} : start'[t] = start[t]
    BY <1>2, <2>1, StartToMeans DEF Inv
  <2>3. Cardinality(With("running"))' = Cardinality(With("running"))
    BY <1>0 DEF With
  <2>4. ASSUME NEW t \in Starter, start'[t].pc = "update" PROVE t = s
    BY <1>2, <2>2, <2>4, FunctionsAssumption DEF Inv, LockOK
  <2>5. LockOK'
    BY <1>2, <2>3, <2>4 DEF LockOK
  <2> QED
    BY <1>0, <2>2, <2>5, StartOnly DEF StartLock
<1> QED
  BY <1>1, <1>2 DEF StartLock

\* The UPDATE: with the lock, a run starts only while fewer than MaxConcurrency do.
LEMMA StartUpdateInv == ASSUME Inv, NEW s \in Starter, StartUpdate(s) PROVE Inv' /\ RunStep
<1> DEFINE r == Tried(s)
           v == [start[s] EXCEPT !.pc = "token"]
<1>0. /\ start[s].pc = "update" /\ start[s] \in StartType /\ start[s].left # {} /\ r \in Run
      /\ lock' = None /\ lock = s /\ Cardinality(With("running")) < MaxConcurrency
  BY TriedMeans DEF StartUpdate, Inv, StartOK, LockOK
<1>1. Elsewhere /\ BoundOK' /\ NodeOK'
  <2>1. Fault \/ UNCHANGED faults
    BY DEF StartUpdate
  <2> QED
    BY <2>1, StartingElsewhere, FaultBound DEF StartUpdate, NotStarting, Inv, NodeOK
<1>2. StartOK' /\ start'[s].pc # "update" /\ \A t \in Starter \ {s} : start'[t] = start[t]
  <2>1. CASE StartTo(s, v)
    <3>1. v \in StartType /\ v.pc = "token" /\ v.left # {}
      BY <1>0 DEF StartType, StartPc
    <3> HIDE DEF v
    <3> QED
      BY <2>1, <3>1, StartToMeans DEF Inv
  <2>2. CASE Skip(s)
    BY <1>0, <2>2, SkipMeans DEF Inv
  <2> QED
    BY <2>1, <2>2 DEF StartUpdate
<1>3. LockOK'
  BY <1>0, <1>2 DEF Inv, LockOK
<1>4. RunOK' /\ RunStep
  <2>1. CASE UNCHANGED run
    BY <2>1 DEF Inv, RunOK, RunStep, NoChange
  <2>2. CASE run[r].status = "queued" /\ run' = [run EXCEPT ![r] = [status |-> "running", age |-> 0]]
    <3>1. Runs(r) /\ RunOK'
      BY <1>0, <2>2, FunctionsAssumption DEF Runs, Inv, RunOK, RunType, Status, Limit
    <3> QED
      BY <1>0, <3>1 DEF RunStep
  <2> QED
    BY <2>1, <2>2 DEF StartUpdate
<1>5. ExecOK'
  <2> DEFINE e == [NoExec EXCEPT !.pc = "spawn", !.by = s]
  <2>1. CASE UNCHANGED exec
    BY <2>1 DEF Inv, ExecOK
  <2>2. CASE exec' = [exec EXCEPT ![r] = e]
    <3>1. e \in ExecType /\ e.pc = "spawn"
      BY NoExecType DEF ExecType, ExecPcs
    <3> HIDE DEF e
    <3> QED
      BY <1>0, <2>2, <3>1, ExecToMeans DEF Inv, ExecTo
  <2> QED
    BY <2>1, <2>2 DEF StartUpdate
<1> QED
  BY <1>1, <1>2, <1>3, <1>4, <1>5 DEF Inv, Elsewhere

LEMMA ClaimTokenInv == ASSUME Inv, NEW n \in Node, ClaimToken(n) PROVE Inv' /\ RunStep
<1> DEFINE r == Tried(n)
           pc == IF fn.shape.tunnel THEN "open" ELSE "run"
           e == [NoExec EXCEPT !.pc = pc, !.by = n]
<1>0. /\ n \in Starter /\ start[n].pc = "token" /\ r \in Run /\ UNCHANGED <<fn, tunnel, lock, call, tick, fires, crons>>
  BY TriedMeans DEF ClaimToken, Inv, StartOK, Starter
<1>1. Elsewhere /\ BoundOK'
  <2>1. Fault \/ UNCHANGED faults
    BY DEF ClaimToken
  <2> QED
    BY <2>1, StartingElsewhere, FaultBound DEF ClaimToken, Inv
<1>2. StartOK' /\ \A t \in Starter : start'[t].pc = "update" => start[t].pc = "update"
  <2>1. CASE StartTo(n, NoStart)
    BY <1>0, <2>1, NoStartType, StartToMeans DEF Inv
  <2>2. CASE Skip(n)
    BY <1>0, <2>2, SkipMeans DEF Inv
  <2> QED
    BY <2>1, <2>2 DEF ClaimToken
<1>3. RunOK' /\ (EndsSome \/ NoChange)
  <2>1. CASE UNCHANGED run
    BY <2>1 DEF Inv, RunOK, NoChange
  <2>2. CASE FinishRun(r, "failed")
    BY <1>0, <2>2, FinishRunMeans DEF Inv, Finished
  <2> QED
    BY <2>1, <2>2 DEF ClaimToken
<1>4. LockOK'
  BY <1>0, <1>2, <1>3, LockKept DEF Inv
<1>5. ExecOK'
  <2>1. CASE UNCHANGED exec
    BY <2>1 DEF Inv, ExecOK
  <2>2. CASE exec' = [exec EXCEPT ![r] = e]
    <3>0. pc \in {"open", "run"}
      OBVIOUS
    <3> HIDE DEF pc
    <3>1. e \in ExecType /\ e.pc \in {"open", "run"}
      BY <1>0, <3>0, NoExecType DEF ExecType, ExecPcs
    <3> HIDE DEF e
    <3> QED
      BY <1>0, <2>2, <3>1, ExecToMeans DEF Inv, ExecTo
  <2> QED
    BY <2>1, <2>2 DEF ClaimToken
<1>6. NodeOK'
  BY DEF ClaimToken, Inv, NodeOK
<1> QED
  BY <1>1, <1>2, <1>3, <1>4, <1>5, <1>6 DEF Inv, Elsewhere, RunStep

-----------------------------------------------------------------------------
(* Execution.                                                              *)

LEMMA ExecuteOnly ==
    ASSUME Inv, NotExecuting, Fault \/ UNCHANGED faults, RunOK', EndsSome \/ NoChange, ExecOK'
    PROVE  Inv' /\ RunStep
<1>1. Elsewhere /\ BoundOK' /\ NodeOK' /\ StartOK'
  BY StartingElsewhere, FaultBound DEF NotExecuting, Inv, NodeOK, StartOK
<1>2. LockOK'
  BY LockKept DEF NotExecuting, Inv
<1> QED
  BY <1>1, <1>2 DEF Inv, Elsewhere, RunStep

LEMMA ExecPcMeans ==
    ASSUME ExecOK, NEW r \in Run, NEW pc \in ExecPcs, ExecPc(r, pc), pc # "report",
           pc = "write" => exec[r].pc = "report"
    PROVE  ExecOK'
<1> DEFINE v == [exec[r] EXCEPT !.pc = pc]
<1>1. exec[r] \in ExecType /\ (pc = "write" => exec[r].out \in Finished)
  BY DEF ExecOK
<1>2. v \in ExecType /\ v.pc = pc /\ v.out = exec[r].out
  BY <1>1 DEF ExecType
<1>3. ExecTo(r, v)
  BY DEF ExecPc
<1> HIDE DEF v
<1> QED
  BY <1>1, <1>2, <1>3, ExecToMeans

LEMMA ReportMeans ==
    ASSUME ExecOK, NEW r \in Run, NEW out \in Finished, Report(r, out)
    PROVE  ExecOK'
<1> DEFINE v == [exec[r] EXCEPT !.pc = "report", !.out = out]
<1>1. exec[r] \in ExecType
  BY DEF ExecOK
<1>2. v \in ExecType /\ v.pc = "report" /\ v.out = out
  BY <1>1 DEF ExecType, ExecPcs
<1>3. ExecTo(r, v)
  BY DEF Report
<1> HIDE DEF v
<1> QED
  BY <1>2, <1>3, ExecToMeans

LEMMA NoExecMeans == ASSUME ExecOK, NEW r \in Run, ExecTo(r, NoExec) PROVE ExecOK'
BY NoExecType, ExecToMeans

LEMMA ContainerOpenInv == ASSUME Inv, NEW r \in Run, ContainerOpen(r) PROVE Inv' /\ RunStep
<1>1. ExecOK'
  <2>1. ExecOK
    BY DEF Inv
  <2>2. CASE ExecPc(r, "run")
    BY <2>1, <2>2, ExecPcMeans DEF ExecPcs
  <2>3. CASE Report(r, "failed")
    BY <2>1, <2>3, ReportMeans DEF Finished
  <2> QED
    BY <2>2, <2>3 DEF ContainerOpen
<1>2. NodeOK'
  BY DEF ContainerOpen, Inv, NodeOK
<1>3. Elsewhere /\ BoundOK' /\ StartOK' /\ RunOK' /\ NoChange
  <2>1. Fault \/ UNCHANGED faults
    BY DEF ContainerOpen
  <2> QED
    BY <2>1, StartingElsewhere, FaultBound DEF ContainerOpen, Inv, StartOK, RunOK, NoChange
<1>4. LockOK'
  BY <1>3, LockKept DEF ContainerOpen, Inv
<1> QED
  BY <1>1, <1>2, <1>3, <1>4 DEF Inv, Elsewhere, RunStep

LEMMA ExecuteInv == ASSUME Inv, NEW r \in Run, Execute(r) PROVE Inv' /\ RunStep
<1>a. CASE ContainerOpen(r)
  BY <1>a, ContainerOpenInv
<1>b. SUFFICES ASSUME ~ContainerOpen(r) PROVE Inv' /\ RunStep
  BY <1>a
<1>0. ExecOK /\ RunOK /\ NotExecuting /\ (Fault \/ UNCHANGED faults)
  BY <1>b DEF Inv, Execute, ContainerEnd, LambdaRegister, LambdaEnsure, LambdaRelay, LambdaMint, LambdaInvoke, ReportRead,
     ReportWrite
<1>1. CASE UNCHANGED run /\ ExecOK'
  BY <1>0, <1>1, ExecuteOnly DEF RunOK, NoChange
<1>2. CASE ContainerEnd(r)
  BY <1>0, <1>1, <1>2, ReportMeans DEF ContainerEnd, Finished
<1>3. CASE LambdaRegister(r)
  BY <1>0, <1>1, <1>3, ExecPcMeans DEF LambdaRegister, ExecPcs
<1>4. CASE LambdaEnsure(r)
  BY <1>0, <1>1, <1>4, ExecPcMeans, ReportMeans DEF LambdaEnsure, ExecPcs, Finished
<1>5. CASE LambdaRelay(r)
  BY <1>0, <1>1, <1>5, ExecPcMeans, ReportMeans, NoExecMeans DEF LambdaRelay, ExecPcs, Finished
<1>6. CASE LambdaMint(r)
  BY <1>0, <1>1, <1>6, ExecPcMeans, ReportMeans, NoExecMeans DEF LambdaMint, ExecPcs, Finished
<1>7. CASE LambdaInvoke(r)
  BY <1>0, <1>1, <1>7, ExecPcMeans, ReportMeans, NoExecMeans DEF LambdaInvoke, ExecPcs, Finished
<1>8. CASE ReportRead(r)
  BY <1>0, <1>1, <1>8, ExecPcMeans, NoExecMeans DEF ReportRead, ExecPcs
<1>9. CASE ReportWrite(r)
  <2>1. ExecOK' /\ exec[r].out \in Finished
    BY <1>0, <1>9, NoExecMeans DEF ReportWrite, ExecOK
  <2>2. CASE UNCHANGED run
    BY <1>1, <2>1, <2>2
  <2>3. CASE FinishRun(r, exec[r].out)
    <3>1. PICK out \in Finished : FinishRun(r, out)
      BY <2>1, <2>3
    <3>2. RunOK' /\ EndsSome
      BY <1>0, <3>1, FinishRunMeans
    <3> QED
      BY <1>0, <2>1, <3>2, ExecuteOnly
  <2> QED
    BY <1>9, <2>2, <2>3 DEF ReportWrite
<1> QED
  BY <1>b, <1>2, <1>3, <1>4, <1>5, <1>6, <1>7, <1>8, <1>9 DEF Execute

LEMMA SyncInv == ASSUME Inv, NEW n \in Node, Sync(n) PROVE Inv' /\ RunStep
<1>1. NodeOK'
  <2>1. PICK up \in BOOLEAN, relay \in BOOLEAN : node' = [node EXCEPT ![n] = [up |-> up, relay |-> relay]]
    BY DEF Sync, Inv, NodeOK
  <2> QED
    BY <2>1 DEF Inv, NodeOK
<1>2. ExecOK'
  <2>1. ASSUME NEW r \in Run
        PROVE  exec'[r] \in ExecType /\ exec'[r].pc = exec[r].pc /\ exec'[r].out = exec[r].out
    <3>1. exec[r] \in ExecType
      BY DEF Inv, ExecOK
    <3>2. exec'[r] = exec[r] \/ exec'[r] = [exec[r] EXCEPT !.stop = TRUE]
      BY DEF Sync
    <3> QED
      BY <3>1, <3>2 DEF ExecType
  <2>2. exec' = [r \in Run |-> exec'[r]]
    BY DEF Sync
  <2> QED
    BY <2>1, <2>2 DEF Inv, ExecOK
<1>3. Elsewhere /\ BoundOK' /\ StartOK' /\ RunOK' /\ NoChange
  BY StartingElsewhere, FaultBound DEF Sync, Inv, StartOK, RunOK, NoChange
<1>4. LockOK'
  BY <1>3, LockKept DEF Sync, Inv
<1> QED
  BY <1>1, <1>2, <1>3, <1>4 DEF Inv, Elsewhere, RunStep

-----------------------------------------------------------------------------
(* Time and failures.                                                      *)

LEMMA TockInv == ASSUME Inv, Tock PROVE Inv' /\ RunStep
<1>1. RunOK' /\ NoChange
  <2>1. ASSUME NEW r \in Run PROVE run'[r] \in [status : Status, age : 0..(Limit + 1)] /\ run'[r].status = run[r].status
    <3>1. run[r] \in [status : Status, age : 0..(Limit + 1)]
      BY DEF Inv, RunOK, RunType
    <3>2. CASE run[r].status = "running" /\ run[r].age <= Limit
      <4>1. run'[r] = [run[r] EXCEPT !.age = @ + 1]
        BY <3>2 DEF Tock
      <4>2. run[r].age + 1 \in 0..(Limit + 1)
        BY <3>1, <3>2, FunctionsAssumption DEF Limit
      <4> QED
        BY <3>1, <4>1, <4>2
    <3>3. CASE ~(run[r].status = "running" /\ run[r].age <= Limit)
      BY <3>1, <3>3 DEF Tock
    <3> QED
      BY <3>2, <3>3
  <2>2. run' = [r \in Run |-> run'[r]]
    BY DEF Tock
  <2> QED
    BY <2>1, <2>2 DEF RunOK, RunType, NoChange
<1>2. Elsewhere /\ BoundOK' /\ NodeOK' /\ StartOK' /\ ExecOK'
  BY StartingElsewhere, FaultBound DEF Tock, Inv, NodeOK, StartOK, ExecOK
<1>3. LockOK'
  BY <1>1, LockKept DEF Tock, Inv
<1> QED
  BY <1>1, <1>2, <1>3 DEF Inv, Elsewhere, RunStep

LEMMA NodeCrashInv == ASSUME Inv, NEW n \in Node, NodeCrash(n) PROVE Inv' /\ RunStep
<1>1. NodeOK' /\ ExecOK'
  BY NoExecType DEF NodeCrash, Inv, NodeOK, ExecOK
<1>2. Elsewhere /\ BoundOK' /\ StartOK' /\ RunOK' /\ NoChange
  BY StartingElsewhere, FaultBound DEF NodeCrash, Inv, StartOK, RunOK, NoChange
<1>3. LockOK'
  BY <1>2, LockKept DEF NodeCrash, Inv
<1> QED
  BY <1>1, <1>2, <1>3 DEF Inv, Elsewhere, RunStep

-----------------------------------------------------------------------------
(* The API.                                                                *)

LEMMA CallOnly ==
    ASSUME Inv, NotCalled, CallOK', FnOK', fn'.last = fn.last, BoundOK', RunOK', ExecOK',
           EndsSome \/ NoChange \/ (\E r \in Run : Queues(r))
    PROVE  Inv' /\ RunStep
<1>1. NodeOK' /\ StartOK' /\ TickOK' /\ FireOK'
  BY DEF NotCalled, Inv, NodeOK, StartOK, TickOK, FireOK, Firing
<1>2. LockOK'
  BY LockKept DEF NotCalled, Inv
<1> QED
  BY <1>1, <1>2 DEF Inv, RunStep

LEMMA CallToMeans ==
    ASSUME CallOK, NEW c \in Caller, NEW v \in CallType, v.pc = "cancel" => v.run \in Run, v.left # {} => v.pc \in ListPc,
           CallTo(c, v)
    PROVE  CallOK'
BY DEF CallOK, CallTo

LEMMA NoCallType == NoCall \in CallType /\ NoCall.pc = "idle" /\ NoCall.left = {}
BY DEF NoCall, CallType

LEMMA CallEnds == ASSUME CallOK, NEW c \in Caller, CallTo(c, NoCall) PROVE CallOK'
BY NoCallType, CallToMeans

\* A call goes on; it has listed nothing yet, or goes on with another list.
LEMMA CallPcMeans ==
    ASSUME CallOK, NEW c \in Caller, NEW pc \in {"enqueue", "off end", "del end"} \cup ListPc, CallPc(c, pc),
           call[c].left = {} \/ pc \in ListPc
    PROVE  CallOK'
<1> DEFINE v == [call[c] EXCEPT !.pc = pc]
<1>1. call[c] \in CallType
  BY DEF CallOK
<1>2. v \in CallType /\ v.pc = pc /\ v.left = call[c].left
  BY <1>1 DEF CallType
<1>3. CallTo(c, v) /\ pc # "cancel"
  BY DEF CallPc, ListPc
<1> HIDE DEF v
<1> QED
  BY <1>2, <1>3, CallToMeans

LEMMA SwitchBound == ASSUME BoundOK, switches > 0, switches' = switches - 1 PROVE switches' \in 0..MaxSwitch
<1>1. switches \in 0..MaxSwitch /\ MaxSwitch \in Nat
  BY FunctionsAssumption DEF BoundOK
<1> QED
  BY <1>1

LEMMA RequestInv == ASSUME Inv, NEW c \in Caller, Request(c) PROVE Inv' /\ RunStep
<1>0. CallOK /\ (call[c].pc = "idle" => call[c].left = {})
  BY DEF Inv, CallOK, CallType, ListPc
<1>1. CASE EnqueueCheck(c)
  <2>1. CallOK'
    BY <1>0, <1>1, CallPcMeans DEF EnqueueCheck
  <2>2. FnOK' /\ BoundOK' /\ RunOK' /\ ExecOK' /\ NoChange
    BY <1>1 DEF EnqueueCheck, NotCalled, Inv, FnOK, BoundOK, RunOK, ExecOK, NoChange
  <2> QED
    BY <1>1, <2>1, <2>2, CallOnly DEF EnqueueCheck
<1>2. CASE SetEnabled(c)
  <2>1. CallOK'
    BY <1>0, <1>2 DEF SetEnabled, CallOK
  <2>2. FnOK' /\ BoundOK' /\ RunOK' /\ ExecOK' /\ NoChange
    BY <1>2 DEF SetEnabled, NotCalled, Inv, FnOK, BoundOK, RunOK, ExecOK, NoChange
  <2> QED
    BY <1>2, <2>1, <2>2, CallOnly DEF SetEnabled
<1>3. CASE DisableTunnel(c)
  <2>1. CallOK'
    BY <1>0, <1>3, CallPcMeans DEF DisableTunnel, ListPc
  <2>2. FnOK' /\ RunOK' /\ ExecOK' /\ NoChange
    BY <1>3 DEF DisableTunnel, NotCalled, Inv, FnOK, RunOK, ExecOK, NoChange
  <2>3. BoundOK'
    <3>1. switches' \in 0..MaxSwitch
      BY <1>3, SwitchBound DEF DisableTunnel, Inv
    <3>2. tunnel' \in BOOLEAN /\ killed' \in BOOLEAN /\ faults' = faults
      BY <1>3 DEF DisableTunnel, NotCalled, Inv, BoundOK
    <3> QED
      BY <3>1, <3>2 DEF Inv, BoundOK
  <2> QED
    BY <1>3, <2>1, <2>2, <2>3, CallOnly DEF DisableTunnel
<1>4. CASE Delete(c)
  <2>1. CallOK'
    BY <1>0, <1>4, CallPcMeans DEF Delete, ListPc
  <2>2. FnOK' /\ RunOK' /\ ExecOK' /\ NoChange
    BY <1>4 DEF Delete, NotCalled, Inv, FnOK, RunOK, ExecOK, NoChange
  <2>3. BoundOK'
    <3>1. switches' \in 0..MaxSwitch
      BY <1>4, SwitchBound DEF Delete, Inv
    <3>2. tunnel' \in BOOLEAN /\ killed' \in BOOLEAN /\ faults' = faults
      BY <1>4 DEF Delete, NotCalled, Inv, BoundOK
    <3> QED
      BY <3>1, <3>2 DEF Inv, BoundOK
  <2> QED
    BY <1>4, <2>1, <2>2, <2>3, CallOnly DEF Delete
<1>5. ASSUME NEW r \in Run, CancelRead(c, r) PROVE Inv' /\ RunStep
  <2> DEFINE v == [NoCall EXCEPT !.pc = "cancel", !.run = r]
  <2>1. v \in CallType /\ v.pc = "cancel" /\ v.run = r /\ v.left = {}
    BY NoCallType DEF CallType
  <2>2. CallTo(c, v)
    BY <1>5 DEF CancelRead
  <2> HIDE DEF v
  <2>3. CallOK'
    BY <1>0, <2>1, <2>2, CallToMeans
  <2>4. FnOK' /\ BoundOK' /\ RunOK' /\ ExecOK' /\ NoChange
    BY <1>5 DEF CancelRead, NotCalled, Inv, FnOK, BoundOK, RunOK, ExecOK, NoChange
  <2> QED
    BY <1>5, <2>3, <2>4, CallOnly DEF CancelRead
<1> QED
  BY <1>1, <1>2, <1>3, <1>4, <1>5 DEF Request

LEMMA ListingMeans == DOMAIN Listing = ListPc /\ \A p \in ListPc : AfterList[p] \in ListPc \cup {"off end", "del end"}
BY DEF Listing, ListPc, AfterList

LEMMA CallStepInv == ASSUME Inv, NEW c \in Caller, CallStep(c) PROVE Inv' /\ RunStep
<1>0. CallOK /\ RunOK /\ ExecOK /\ call[c] \in CallType
  BY DEF Inv, CallOK
<1>1. CASE EnqueueInsert(c)
  <2>1. CallOK'
    BY <1>0, <1>1, CallEnds DEF EnqueueInsert
  <2>2. RunOK' /\ (NoChange \/ \E r \in Run : Queues(r))
    BY <1>0, <1>1, EnqueueMeans DEF EnqueueInsert
  <2>3. FnOK' /\ BoundOK' /\ ExecOK'
    BY <1>1 DEF EnqueueInsert, NotCalled, Inv, FnOK, BoundOK, ExecOK
  <2> QED
    BY <1>1, <2>1, <2>2, <2>3, CallOnly DEF EnqueueInsert
<1>2. CASE CancelWrite(c)
  <2>1. CallOK' /\ call[c].run \in Run
    BY <1>0, <1>2, CallEnds DEF CancelWrite, CallOK
  <2>2. PICK p \in Proc, r \in Run : Finish(r, "cancelled", p)
    BY <1>2, <2>1 DEF CancelWrite
  <2>3. RunOK' /\ EndsSome /\ ExecOK'
    BY <1>0, <2>2, FinishMeans DEF Finished
  <2>4. FnOK' /\ BoundOK'
    BY <1>2 DEF CancelWrite, NotCalled, Inv, FnOK, BoundOK
  <2> QED
    BY <1>2, <2>1, <2>3, <2>4, CallOnly DEF CancelWrite
<1>3. CASE ListRuns(c)
  <2>1. call[c].pc \in ListPc /\ call[c].left = {} /\ AfterList[call[c].pc] \in ListPc \cup {"off end", "del end"}
    BY <1>3, ListingMeans DEF ListRuns
  <2>2. CallOK'
    <3>1. PICK pc \in ListPc \cup {"off end", "del end"} : pc = AfterList[call[c].pc]
      BY <2>1
    <3>2. CASE CallPc(c, pc)
      BY <1>0, <2>1, <3>2, CallPcMeans
    <3> DEFINE v == [call[c] EXCEPT !.left = With(Listing[call[c].pc])]
    <3>3. CASE CallTo(c, v)
      <4>1. v \in CallType /\ v.pc \in ListPc
        BY <1>0, <2>1 DEF CallType, With
      <4>2. v.pc # "cancel"
        BY <4>1 DEF ListPc
      <4> HIDE DEF v
      <4> QED
        BY <1>0, <3>3, <4>1, <4>2, CallToMeans
    <3> QED
      BY <1>3, <3>1, <3>2, <3>3 DEF ListRuns
  <2>3. FnOK' /\ BoundOK' /\ RunOK' /\ ExecOK' /\ NoChange
    BY <1>3 DEF ListRuns, NotCalled, Inv, FnOK, BoundOK, RunOK, ExecOK, NoChange
  <2> QED
    BY <1>3, <2>2, <2>3, CallOnly DEF ListRuns
<1>4. CASE CancelListed(c)
  <2> DEFINE r == Min(call[c].left)
             pc == IF call[c].left = {r} THEN AfterList[call[c].pc] ELSE call[c].pc
             v == [call[c] EXCEPT !.left = @ \ {r}, !.pc = pc]
  <2>1. call[c].left # {} /\ call[c].left \in SUBSET Run /\ call[c].pc \in ListPc
    BY <1>0, <1>4 DEF CancelListed, CallOK, CallType
  <2>2. r \in call[c].left
    BY <2>1, MinMeans
  <2>3. pc \in ListPc \cup {"off end", "del end"} /\ (call[c].left # {r} => pc \in ListPc) /\ pc # "cancel"
    BY <2>1, ListingMeans DEF ListPc
  <2>4. CallTo(c, v)
    BY <1>4 DEF CancelListed
  <2>5. PICK p \in Proc, q \in Run : Finish(q, "cancelled", p)
    BY <1>4, <2>1, <2>2 DEF CancelListed
  <2> HIDE DEF r, pc
  <2>6. v \in CallType /\ v.pc = pc /\ v.left = call[c].left \ {r}
    BY <1>0, <2>1, <2>3 DEF CallType
  <2>7. v.left # {} => v.pc \in ListPc
    BY <2>2, <2>3, <2>6
  <2> HIDE DEF v
  <2>8. CallOK'
    BY <1>0, <2>3, <2>4, <2>6, <2>7, CallToMeans
  <2>9. RunOK' /\ EndsSome /\ ExecOK'
    BY <1>0, <2>5, FinishMeans DEF Finished
  <2>10. FnOK' /\ BoundOK'
    BY <1>4 DEF CancelListed, NotCalled, Inv, FnOK, BoundOK
  <2> QED
    BY <1>4, <2>8, <2>9, <2>10, CallOnly DEF CancelListed
<1>5. CASE DisableReturns(c)
  <2>1. CallOK'
    BY <1>0, <1>5, CallEnds DEF DisableReturns
  <2>2. FnOK' /\ RunOK' /\ ExecOK' /\ NoChange
    BY <1>5 DEF DisableReturns, NotCalled, Inv, FnOK, RunOK, ExecOK, NoChange
  <2>3. BoundOK'
    BY <1>5 DEF DisableReturns, NotCalled, Inv, BoundOK
  <2> QED
    BY <1>5, <2>1, <2>2, <2>3, CallOnly DEF DisableReturns
<1>6. CASE DeleteFunction(c)
  <2>1. CallOK' /\ BoundOK' /\ ExecOK'
    BY <1>0, <1>6, CallEnds DEF DeleteFunction, NotCalled, Inv, BoundOK, ExecOK
  <2>2. CASE UNCHANGED <<fn, run>>
    <3>1. FnOK' /\ RunOK' /\ NoChange
      BY <2>2 DEF Inv, FnOK, RunOK, NoChange
    <3> QED
      BY <1>6, <2>1, <2>2, <3>1, CallOnly DEF DeleteFunction
  <2>3. CASE /\ fn' = [fn EXCEPT !.state = "deleted"]
             /\ run' = [r \in Run |-> IF Row(r) THEN [status |-> "gone", age |-> 0] ELSE run[r]]
    <3>1. FnOK' /\ fn'.last = fn.last
      BY <2>3 DEF Inv, FnOK
    <3>2. RunOK' /\ EndsSome
      BY <1>0, <2>3, FunctionsAssumption DEF RunOK, RunType, EndsSome, Row, Status, Limit
    <3> QED
      BY <1>6, <2>1, <3>1, <3>2, CallOnly DEF DeleteFunction
  <2> QED
    BY <1>6, <2>2, <2>3 DEF DeleteFunction
<1> QED
  BY <1>1, <1>2, <1>3, <1>4, <1>5, <1>6 DEF CallStep

LEMMA CallLostInv == ASSUME Inv, NEW c \in Caller, CallLost(c) PROVE Inv' /\ RunStep
<1>1. CallOK'
  BY CallEnds DEF CallLost, Inv
<1>2. FnOK' /\ TickOK' /\ FireOK' /\ NodeOK' /\ StartOK' /\ ExecOK' /\ RunOK' /\ NoChange
  BY DEF CallLost, Inv, FnOK, TickOK, FireOK, Firing, NodeOK, StartOK, ExecOK, RunOK, NoChange
<1>3. BoundOK'
  BY FaultBound DEF CallLost, Inv
<1>4. LockOK'
  BY <1>2, LockKept DEF CallLost, Inv
<1> QED
  BY <1>1, <1>2, <1>3, <1>4 DEF Inv, RunStep

-----------------------------------------------------------------------------
(* Tick.                                                                   *)

LEMMA FiringIsFinite == IsFiniteSet(Firing) /\ IsFiniteSet(Firing') /\ Cardinality(Firing) \in Nat /\ Cardinality(Firing') \in Nat
<1>1. IsFiniteSet(Firing) /\ IsFiniteSet(Firing')
  BY FunctionsAssumption, FS_Subset DEF Firing
<1> QED
  BY <1>1, FS_CardinalityType

LEMMA TickToMeans ==
    ASSUME TickOK, UNCHANGED fires, NEW p \in Proc, NEW v \in TickType, TickTo(p, v), v.pc = "late" => v.left # {},
           v.pc = "cas" => v.last < v.at /\ v.at <= fires
    PROVE  TickOK' /\ tick'[p] = v /\ \A q \in Proc \ {p} : tick'[q] = tick[q]
BY DEF TickOK, TickTo

LEMMA NoTickType == NoTick \in TickType /\ NoTick.pc = "idle" /\ NoTick.left = {}
BY FunctionsAssumption DEF NoTick, TickType, TickPcs

\* A tick goes on, with nothing read before.
LEMMA TickFromMeans ==
    ASSUME TickOK, UNCHANGED fires, NEW p \in Proc, NEW pc \in {"overlap", "enqueue", "reap"},
           TickTo(p, [NoTick EXCEPT !.pc = pc]) \/ TickPc(p, pc)
    PROVE  TickOK' /\ tick'[p].pc = pc /\ \A q \in Proc \ {p} : tick'[q] = tick[q]
<1>0. tick[p] \in TickType
  BY DEF TickOK
<1> DEFINE v == [NoTick EXCEPT !.pc = pc]
           w == [tick[p] EXCEPT !.pc = pc]
<1>1. v \in TickType /\ v.pc = pc
  BY NoTickType DEF TickType, TickPcs
<1>2. w \in TickType /\ w.pc = pc
  BY <1>0 DEF TickType, TickPcs
<1>3. TickTo(p, v) \/ TickTo(p, w)
  BY DEF TickPc
<1> HIDE DEF v, w
<1>4. CASE TickTo(p, v)
  BY <1>1, <1>4, TickToMeans
<1>5. CASE TickTo(p, w)
  BY <1>2, <1>5, TickToMeans
<1> QED
  BY <1>3, <1>4, <1>5

\* What the other steps of Tick leave of the invariant.
LEMMA TickOnly ==
    ASSUME Inv, NotTicked, TickOK', FnOK', FireOK', RunOK', ExecOK',
           EndsSome \/ NoChange \/ (\E r \in Run : Queues(r))
    PROVE  Inv' /\ RunStep
<1>1. NodeOK' /\ StartOK' /\ CallOK' /\ BoundOK'
  BY DEF NotTicked, Inv, NodeOK, StartOK, CallOK, BoundOK
<1>2. LockOK'
  BY LockKept DEF NotTicked, Inv
<1> QED
  BY <1>1, <1>2 DEF Inv, RunStep

\* A tick that fires no more than before.
LEMMA FireKept ==
    ASSUME FnOK, FireOK, crons' = crons, fn' = fn, fires' \in Nat, fires <= fires', fires \in Nat,
           \A p \in Proc : tick'[p].pc \in {"overlap", "enqueue"} => tick[p].pc \in {"overlap", "enqueue"}
    PROVE  FireOK'
<1>1. Firing' \subseteq Firing
  BY DEF Firing
<1>2. Cardinality(Firing') <= Cardinality(Firing)
  BY <1>1, FiringIsFinite, FS_Subset
<1>3. fn.last \in Nat
  BY FunctionsAssumption DEF FnOK
<1> QED
  BY <1>2, <1>3, FiringIsFinite DEF FireOK

LEMMA TickCronInv == ASSUME Inv, NEW p \in Proc, TickCron(p) PROVE Inv' /\ RunStep
<1> DEFINE v == [NoTick EXCEPT !.at = fires, !.last = fn.last, !.pc = "cas"]
<1>0. fn.last \in 0..MaxFires /\ fires \in 0..MaxFires /\ fn.last < fires /\ TickTo(p, v) /\ tick[p].pc = "idle"
  BY DEF Inv, FnOK, TickOK, TickCron, Due
<1>1. v \in TickType /\ v.pc = "cas" /\ v.last = fn.last /\ v.at = fires
  BY <1>0, NoTickType DEF TickType, TickPcs
<1> HIDE DEF v
<1>2. fires \in Nat
  BY <1>0, FunctionsAssumption
<1>3. TickOK' /\ tick'[p] = v /\ \A q \in Proc \ {p} : tick'[q] = tick[q]
  BY <1>0, <1>1, <1>2, TickToMeans DEF TickCron, NotTicked, Inv
<1>4. FireOK'
  <2>1. crons' = crons /\ fn' = fn /\ fires' = fires
    BY DEF TickCron, NotTicked
  <2>2. \A q \in Proc : tick'[q].pc \in {"overlap", "enqueue"} => tick[q].pc \in {"overlap", "enqueue"}
    BY <1>1, <1>3
  <2> QED
    BY <1>2, <2>1, <2>2, FireKept DEF Inv
<1>5. FnOK' /\ RunOK' /\ ExecOK' /\ NoChange
  BY DEF TickCron, Inv, FnOK, RunOK, ExecOK, NoChange
<1> QED
  BY <1>3, <1>4, <1>5, TickOnly DEF TickCron

\* The advance of last_cron_at pays for the firing of the one tick that made it.
LEMMA CASLastCronInv == ASSUME Inv, NEW p \in Proc, CASLastCron(p) PROVE Inv' /\ RunStep
<1>0. tick[p].pc = "cas" /\ UNCHANGED <<run, exec, crons, fires>> /\ TickOK /\ FireOK /\ FnOK
  BY DEF CASLastCron, NotTicked, Inv
<1>1. RunOK' /\ ExecOK' /\ NoChange
  BY <1>0 DEF Inv, RunOK, ExecOK, NoChange
<1>2. CASE fn' = [fn EXCEPT !.last = tick[p].at] /\ TickTo(p, [NoTick EXCEPT !.pc = "overlap"]) /\ fn.last = tick[p].last
  <2>1. TickOK' /\ tick'[p].pc = "overlap" /\ \A q \in Proc \ {p} : tick'[q] = tick[q]
    BY <1>0, <1>2, TickFromMeans
  <2>2. tick[p].at \in 0..MaxFires /\ fn.last < tick[p].at /\ tick[p].at <= fires
    BY <1>0, <1>2 DEF TickOK, TickType
  <2>3. FnOK' /\ fn'.last = tick[p].at
    BY <1>0, <1>2, <2>2 DEF FnOK
  <2>4. Firing' = Firing \cup {p} /\ p \notin Firing
    BY <1>0, <2>1 DEF Firing
  <2>5. Cardinality(Firing') = Cardinality(Firing) + 1
    BY <2>4, FiringIsFinite, FS_AddElement
  <2>6. fn.last \in Nat /\ tick[p].at \in Nat
    BY <1>0, <2>2, FunctionsAssumption DEF FnOK
  <2>7. FireOK'
    BY <1>0, <2>2, <2>3, <2>5, <2>6, FiringIsFinite DEF FireOK
  <2> QED
    BY <1>1, <2>1, <2>3, <2>7, TickOnly DEF CASLastCron
<1>3. CASE TickTo(p, [NoTick EXCEPT !.pc = "reap"]) /\ UNCHANGED fn
  <2>1. TickOK' /\ tick'[p].pc = "reap" /\ \A q \in Proc \ {p} : tick'[q] = tick[q]
    BY <1>0, <1>3, TickFromMeans
  <2>2. \A q \in Proc : tick'[q].pc \in {"overlap", "enqueue"} => tick[q].pc \in {"overlap", "enqueue"}
    BY <2>1
  <2>3. fires \in Nat
    BY <1>0, FunctionsAssumption DEF TickOK
  <2>4. FireOK' /\ FnOK'
    BY <1>0, <1>3, <2>2, <2>3, FireKept DEF FnOK
  <2> QED
    BY <1>1, <2>1, <2>4, TickOnly DEF CASLastCron
<1> QED
  BY <1>2, <1>3 DEF CASLastCron

LEMMA TickOverlapInv == ASSUME Inv, NEW p \in Proc, TickOverlap(p) PROVE Inv' /\ RunStep
<1>0. tick[p].pc = "overlap" /\ UNCHANGED <<run, fn, exec, crons, fires>> /\ TickOK /\ FireOK /\ FnOK
  BY DEF TickOverlap, NotTicked, Inv
<1>1. PICK pc \in {"enqueue", "reap"} : TickPc(p, pc)
  BY DEF TickOverlap
<1>2. TickOK' /\ tick'[p].pc = pc /\ \A q \in Proc \ {p} : tick'[q] = tick[q]
  BY <1>0, <1>1, TickFromMeans
<1>3. \A q \in Proc : tick'[q].pc \in {"overlap", "enqueue"} => tick[q].pc \in {"overlap", "enqueue"}
  BY <1>0, <1>2
<1>4. fires \in Nat
  BY <1>0, FunctionsAssumption DEF TickOK
<1>5. FireOK'
  BY <1>0, <1>3, <1>4, FireKept
<1>6. FnOK' /\ RunOK' /\ ExecOK' /\ NoChange
  BY <1>0 DEF Inv, FnOK, RunOK, ExecOK, NoChange
<1> QED
  BY <1>2, <1>5, <1>6, TickOnly DEF TickOverlap

\* The firing is made: one more, and one fewer to be made.
LEMMA TickEnqueueInv == ASSUME Inv, NEW p \in Proc, TickEnqueue(p) PROVE Inv' /\ RunStep
<1>0. tick[p].pc = "enqueue" /\ UNCHANGED <<fn, exec, fires>> /\ crons' = crons + 1 /\ TickOK /\ FireOK /\ FnOK /\ RunOK
  BY DEF TickEnqueue, NotTicked, Inv
<1>1. TickOK' /\ tick'[p].pc = "reap" /\ \A q \in Proc \ {p} : tick'[q] = tick[q]
  BY <1>0, TickFromMeans DEF TickEnqueue
<1>2. Firing' = Firing \ {p} /\ p \in Firing
  BY <1>0, <1>1 DEF Firing
<1>3. Cardinality(Firing') = Cardinality(Firing) - 1
  BY <1>2, FiringIsFinite, FS_RemoveElement
<1>4. fn.last \in Nat /\ fires \in Nat
  BY <1>0, FunctionsAssumption DEF FnOK, TickOK
<1>5. FireOK'
  BY <1>0, <1>3, <1>4, FiringIsFinite DEF FireOK
<1>6. RunOK' /\ (NoChange \/ \E r \in Run : Queues(r))
  BY <1>0, EnqueueMeans DEF TickEnqueue
<1>7. FnOK' /\ ExecOK'
  BY <1>0 DEF Inv, FnOK, ExecOK
<1> QED
  BY <1>1, <1>5, <1>6, <1>7, TickOnly DEF TickEnqueue

LEMMA TickReapInv == ASSUME Inv, NEW p \in Proc, TickReap(p) PROVE Inv' /\ RunStep
<1>0. tick[p].pc \in {"idle", "reap"} /\ UNCHANGED <<run, fn, exec, crons, fires>> /\ TickOK /\ FireOK /\ FnOK
  BY DEF TickReap, NotTicked, Inv
<1>1. PICK late \in SUBSET Run : TickTo(p, IF late = {} THEN NoTick ELSE [NoTick EXCEPT !.pc = "late", !.left = late])
  BY DEF TickReap, With
<1> DEFINE v == IF late = {} THEN NoTick ELSE [NoTick EXCEPT !.pc = "late", !.left = late]
<1>2. v \in TickType /\ v.pc \in {"idle", "late"} /\ (v.pc = "late" => v.left # {})
  BY NoTickType DEF TickType, TickPcs
<1>3. TickTo(p, v)
  BY <1>1
<1> HIDE DEF v
<1>4. TickOK' /\ tick'[p] = v /\ \A q \in Proc \ {p} : tick'[q] = tick[q]
  BY <1>0, <1>2, <1>3, TickToMeans
<1>5. \A q \in Proc : tick'[q].pc \in {"overlap", "enqueue"} => tick[q].pc \in {"overlap", "enqueue"}
  BY <1>2, <1>4
<1>6. fires \in Nat
  BY <1>0, FunctionsAssumption DEF TickOK
<1>7. FireOK'
  BY <1>0, <1>5, <1>6, FireKept
<1>8. FnOK' /\ RunOK' /\ ExecOK' /\ NoChange
  BY <1>0 DEF Inv, FnOK, RunOK, ExecOK, NoChange
<1> QED
  BY <1>4, <1>7, <1>8, TickOnly DEF TickReap

LEMMA TickFinishInv == ASSUME Inv, NEW p \in Proc, TickFinish(p) PROVE Inv' /\ RunStep
<1> DEFINE r == Min(tick[p].left)
           w == [tick[p] EXCEPT !.left = @ \ {r}]
           v == IF tick[p].left = {r} THEN NoTick ELSE w
<1>0. tick[p].pc = "late" /\ UNCHANGED <<fn, crons, fires>> /\ TickOK /\ FireOK /\ FnOK /\ RunOK /\ ExecOK
  BY DEF TickFinish, NotTicked, Inv
<1>1. tick[p] \in TickType /\ tick[p].left # {} /\ tick[p].left \in SUBSET Run
  BY <1>0 DEF TickOK, TickType
<1>2. r \in tick[p].left /\ r \in Run
  BY <1>1, MinMeans
<1>3. Finish(r, "timeout", p) /\ TickTo(p, v)
  BY DEF TickFinish
<1>4. RunOK' /\ EndsSome /\ ExecOK'
  BY <1>0, <1>2, <1>3, FinishMeans DEF Finished
<1> HIDE DEF r
<1>5. w \in TickType /\ w.pc = "late" /\ w.left = tick[p].left \ {r}
  BY <1>0, <1>1 DEF TickType
<1> HIDE DEF w
<1>6. v \in TickType /\ v.pc \in {"idle", "late"} /\ (v.pc = "late" => v.left # {})
  BY <1>2, <1>5, NoTickType
<1> HIDE DEF v
<1>7. TickOK' /\ tick'[p] = v /\ \A q \in Proc \ {p} : tick'[q] = tick[q]
  BY <1>0, <1>3, <1>6, TickToMeans
<1>8. \A q \in Proc : tick'[q].pc \in {"overlap", "enqueue"} => tick[q].pc \in {"overlap", "enqueue"}
  BY <1>6, <1>7
<1>9. fires \in Nat
  BY <1>0, FunctionsAssumption DEF TickOK
<1>10. FireOK' /\ FnOK'
  BY <1>0, <1>8, <1>9, FireKept DEF FnOK
<1> QED
  BY <1>4, <1>7, <1>10, TickOnly DEF TickFinish

LEMMA TickStepInv == ASSUME Inv, NEW p \in Proc, TickStep(p) PROVE Inv' /\ RunStep
BY TickCronInv, CASLastCronInv, TickOverlapInv, TickEnqueueInv, TickReapInv, TickFinishInv DEF TickStep

-----------------------------------------------------------------------------
(* The schedule, the death of a process, and the theorems.                 *)

LEMMA ScheduleInv == ASSUME Inv, Schedule PROVE Inv' /\ RunStep
<1>0. fires \in 0..MaxFires /\ MaxFires \in Nat /\ fires < MaxFires /\ fires' = fires + 1
  BY FunctionsAssumption DEF Inv, TickOK, Schedule
<1>1. fires \in Nat /\ fires' \in 0..MaxFires /\ fires <= fires' /\ fires' \in Nat
  BY <1>0
<1>2. TickOK'
  <2>1. tick' = tick
    BY DEF Schedule
  <2>2. \A p \in Proc : tick[p].pc = "cas" => tick[p].last < tick[p].at /\ tick[p].at <= fires'
    <3> SUFFICES ASSUME NEW p \in Proc, tick[p].pc = "cas" PROVE tick[p].last < tick[p].at /\ tick[p].at <= fires'
      OBVIOUS
    <3>1. tick[p].at \in 0..MaxFires /\ tick[p].last < tick[p].at /\ tick[p].at <= fires
      BY DEF Inv, TickOK, TickType
    <3> QED
      BY <1>0, <3>1
  <2> QED
    BY <1>1, <2>1, <2>2 DEF Inv, TickOK
<1>3. FireOK'
  BY <1>1, FireKept DEF Schedule, Inv
<1>4. FnOK' /\ RunOK' /\ ExecOK' /\ NoChange /\ NodeOK' /\ StartOK' /\ CallOK' /\ BoundOK'
  BY DEF Schedule, Inv, FnOK, RunOK, ExecOK, NoChange, NodeOK, StartOK, CallOK, BoundOK
<1>5. LockOK'
  BY <1>4, LockKept DEF Schedule, Inv
<1> QED
  BY <1>2, <1>3, <1>4, <1>5 DEF Inv, RunStep

\* The transaction of a process that dies rolls back, and with it goes the lock.
LEMMA ProcCrashInv == ASSUME Inv, NEW p \in Proc, ProcCrash(p) PROVE Inv' /\ RunStep
<1>0. /\ TickOK /\ FireOK /\ FnOK /\ RunOK /\ ExecOK /\ StartOK /\ LockOK /\ p \in Starter
      /\ StartTo(p, NoStart) /\ TickTo(p, NoTick)
      /\ UNCHANGED <<run, fn, tunnel, node, call, fires, crons, killed, switches>>
  BY DEF Inv, ProcCrash, StartTo, TickTo, Starter
<1>1. ExecOK'
  BY <1>0, NoExecType DEF ProcCrash, ExecOK
<1>2. StartOK' /\ start'[p] = NoStart /\ \A t \in Starter \ {p} : start'[t] = start[t]
  BY <1>0, NoStartType, StartToMeans
<1>3. TickOK' /\ tick'[p] = NoTick /\ \A q \in Proc \ {p} : tick'[q] = tick[q]
  BY <1>0, NoTickType, TickToMeans
<1>4. \A q \in Proc : tick'[q].pc \in {"overlap", "enqueue"} => tick[q].pc \in {"overlap", "enqueue"}
  BY <1>3, NoTickType
<1>5. fires \in Nat
  BY <1>0, FunctionsAssumption DEF TickOK
<1>6. FireOK'
  BY <1>0, <1>4, <1>5, FireKept
<1>7. LockOK'
  <2>1. lock' \in Starter \cup {None}
    BY <1>0 DEF ProcCrash, LockOK
  <2>2. With("running")' = With("running")
    BY <1>0 DEF With
  <2>3. ASSUME NEW s \in Starter, start'[s].pc = "update" PROVE lock' = s /\ Cardinality(With("running")) < MaxConcurrency
    <3>1. s # p /\ start[s].pc = "update"
      BY <1>2, <2>3, NoStartType
    <3>2. lock = s /\ Cardinality(With("running")) < MaxConcurrency
      BY <1>0, <3>1 DEF LockOK
    <3> QED
      BY <3>1, <3>2 DEF ProcCrash
  <2> QED
    BY <2>1, <2>2, <2>3 DEF LockOK
<1>8. FnOK' /\ RunOK' /\ NoChange /\ NodeOK' /\ CallOK'
  BY <1>0 DEF Inv, FnOK, RunOK, NoChange, NodeOK, CallOK
<1>9. BoundOK'
  BY <1>0, FaultBound DEF Inv, ProcCrash
<1> QED
  BY <1>1, <1>2, <1>3, <1>6, <1>7, <1>8, <1>9 DEF Inv, RunStep

LEMMA InitInv == Init => Inv /\ Pool!Init
<1> SUFFICES ASSUME Init PROVE Inv /\ Pool!Init
  OBVIOUS
<1>1. RunOK /\ BoundOK
  <2>1. 0 \in 0..(Limit + 1) /\ MaxSwitch \in 0..MaxSwitch /\ MaxFaults \in 0..MaxFaults
    BY FunctionsAssumption DEF Limit
  <2>2. tunnel = TRUE /\ killed = FALSE
    BY DEF Init
  <2> QED
    BY <2>1, <2>2 DEF Init, RunOK, RunType, Status, BoundOK
<1>2. FnOK /\ fn.last = 0
  BY FunctionsAssumption DEF Init, FnOK
<1>3. NodeOK /\ StartOK /\ ExecOK /\ CallOK /\ TickOK
  BY FunctionsAssumption, NoStartType, NoExecType, NoCallType, NoTickType DEF Init, NodeOK, StartOK, ExecOK, CallOK, TickOK
<1>4. LockOK
  BY NoStartType DEF Init, LockOK
<1>5. FireOK
  <2>1. Firing = {}
    BY NoTickType DEF Init, Firing
  <2> QED
    BY <1>2, <2>1, FS_EmptySet DEF Init, FireOK
<1>6. Pool!Init
  BY DEF Init, Pool!Init
<1> QED
  BY <1>1, <1>2, <1>3, <1>4, <1>5, <1>6 DEF Inv

LEMMA NextInv == Inv /\ [Next]_vars => Inv' /\ RunStep
<1> SUFFICES ASSUME Inv, [Next]_vars PROVE Inv' /\ RunStep
  OBVIOUS
<1>1. CASE UNCHANGED vars
  <2>1. UNCHANGED run /\ Elsewhere /\ NodeOK' /\ StartOK' /\ ExecOK' /\ RunOK' /\ NoChange
    BY <1>1, StartingElsewhere DEF vars, Inv, NodeOK, StartOK, ExecOK, RunOK, NoChange
  <2>2. LockOK' /\ BoundOK'
    BY <1>1, <2>1, LockKept, FaultBound DEF vars, Inv
  <2> QED
    BY <2>1, <2>2 DEF Inv, Elsewhere, RunStep
<1>2. ASSUME NEW s \in Starter, Starting(s) PROVE Inv' /\ RunStep
  BY <1>2, StartListInv, StartCheckInv, StartLockInv, StartUpdateInv DEF Starting
<1>3. ASSUME NEW n \in Node, ClaimToken(n) \/ Sync(n) \/ NodeCrash(n) PROVE Inv' /\ RunStep
  BY <1>3, ClaimTokenInv, SyncInv, NodeCrashInv
<1>4. ASSUME NEW c \in Caller, Request(c) \/ CallStep(c) \/ CallLost(c) PROVE Inv' /\ RunStep
  BY <1>4, RequestInv, CallStepInv, CallLostInv
<1>5. ASSUME NEW p \in Proc, TickStep(p) \/ ProcCrash(p) PROVE Inv' /\ RunStep
  BY <1>5, TickStepInv, ProcCrashInv
<1> QED
  BY <1>1, <1>2, <1>3, <1>4, <1>5, ExecuteInv, TockInv, ScheduleInv DEF Next

LEMMA InvAlways == Spec => []Inv
<1> QED
  BY InitInv, NextInv, PTL DEF Spec

\* Type correctness: every variable of the functions' model keeps its type.
THEOREM FnTypeCorrect == Spec => []TypeOK
<1>1. Inv => TypeOK
  <2> SUFFICES ASSUME Inv PROVE TypeOK
    OBVIOUS
  <2>1. crons \in Nat /\ fires \in 0..MaxFires
    BY DEF Inv, FireOK, TickOK
  <2> QED
    BY <2>1, ListingMeans DEF TypeOK, Inv, RunOK, RunType, Status, FnOK, BoundOK, LockOK, StartOK, StartType, StartPc,
       ExecOK, ExecType, ExecPcs, NodeOK, CallOK, CallType, TickOK, TickType, TickPcs
<1> QED
  BY <1>1, InvAlways, PTL

\* However many processes tick, and wherever one dies between its reading of the
\* clock, its compare-and-set of last_cron_at and its INSERT, the schedule has
\* fired no more often than it has instants.
THEOREM CronOnce == Spec => []CronFiresOnce
<1>1. Inv => CronFiresOnce
  <2> SUFFICES ASSUME Inv PROVE crons <= fires
    BY DEF CronFiresOnce
  <2>1. crons \in Nat /\ fn.last \in Nat /\ fires \in Nat
    BY FunctionsAssumption DEF Inv, FnOK, FireOK, TickOK
  <2> QED
    BY <2>1, FiringIsFinite DEF Inv, FireOK
<1> QED
  BY <1>1, InvAlways, PTL

\* fn_runs implements the job pool: no more than max_concurrency runs run at once,
\* a run starts only from the queue, and one that has ended never runs again,
\* whoever still holds an older reading of its row.
THEOREM PoolRefined == Spec => PoolImplemented
<1>1. Inv /\ [Next]_vars => [Pool!Next]_Phase
  BY NextInv, RunStepPool
<1> QED
  BY <1>1, InitInv, InvAlways, PTL DEF Spec, PoolImplemented, Pool!Spec, Phase
=============================================================================

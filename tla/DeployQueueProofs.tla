-------------------------- MODULE DeployQueueProofs -------------------------
(***************************************************************************)
(* What the deployments table promises, for any number of deployments,     *)
(* failed statements, crashes and shutdowns: what is reported was rolled   *)
(* out and stays reported, and with one process retries are bounded and    *)
(* pay for every rollout but the first.                                    *)
(***************************************************************************)
EXTENDS DeployQueue, TLAPS

Status == {"none"} \cup Unfinished \cup Finished
RowType == [status : Status, kind : {"lambda", "docker"}, retries : Nat, created : Instant,
            started : Instant \cup {NoTime}]
WorkPc == {"down", "poll", "locked", "picked", "building", "deploying", "reporting", "failing"}
WorkType == [pc : WorkPc, dep : Dep \cup {NoDep}, live : BOOLEAN]
LambdaType == [pc : {"none", "start", "update"}, proc : Proc]
CountType == [worker : Nat, lambda : Nat]

-----------------------------------------------------------------------------
(* The inductive invariant, for any number of processes.                   *)

RowOK == row \in [Dep -> RowType]
WorkOK == work \in [Proc -> WorkType]
LambdaOK == lambda \in [Dep -> LambdaType]
CountOK == rollouts \in [Dep -> CountType]
OutsideOK == now \in Instant /\ cancelling \subseteq Dep /\ faults \in 0..MaxFaults

Busy(pr) == work[pr].pc \notin {"down", "poll"}

\* A worker is busy with a deployment that was created, and reports only what it rolled out.
BusyOK ==
    \A pr \in Proc : Busy(pr) =>
       /\ work[pr].dep \in Dep /\ row[work[pr].dep].status # "none"
       /\ work[pr].pc = "reporting" => rollouts[work[pr].dep].worker > 0

Inv == RowOK /\ WorkOK /\ LambdaOK /\ CountOK /\ OutsideOK /\ BusyOK /\ SuccessWasRolledOut

-----------------------------------------------------------------------------
(* What one process adds.                                                  *)

OneProcess == \A p, q \in Proc : p = q

\* The reaper comes when no goroutine of an earlier life is left, so that what it
\* requeues is not written by one afterwards, and the Lambda goroutine of a
\* deployment only ever sees it before its first retry.
Goroutines ==
    /\ \A pr \in Proc : work[pr].pc = "down" => ~work[pr].live /\ \A d \in Dep : lambda[d].pc = "none"
    /\ \A d \in Dep : lambda[d].pc # "none" => row[d].retries = 0

\* What is running, or about to be, has a retry left.
Unspent ==
    /\ \A d \in Dep : row[d].status \in Running => row[d].retries < maxRetries
    /\ \A pr \in Proc : work[pr].pc \in {"picked", "building"} => row[work[pr].dep].retries < maxRetries

\* What is queued, or on its way to a rollout, has not been rolled out since its last retry.
Due ==
    /\ \A d \in Dep : row[d].status = "none" => rollouts[d].worker = 0 /\ lambda[d].pc = "none"
    /\ \A d \in Dep : row[d].status = "queued" => rollouts[d].worker <= row[d].retries
    /\ \A pr \in Proc : work[pr].pc = "locked" => row[work[pr].dep].status = "queued"
    /\ \A pr \in Proc : work[pr].pc \in {"picked", "building", "deploying"} =>
          rollouts[work[pr].dep].worker <= row[work[pr].dep].retries
    /\ \A pr \in Proc : work[pr].pc = "deploying" => row[work[pr].dep].status # "queued"

Solo == Goroutines /\ Unspent /\ Due /\ RetriesBounded /\ RolloutsAccounted

-----------------------------------------------------------------------------
(* What the statements and the steps of a worker write.                    *)

LEMMA FaultMeans == ASSUME OutsideOK, Fault \/ NoFault, UNCHANGED outside PROVE OutsideOK'
<1>1. faults \in 0..MaxFaults /\ MaxFaults \in Nat
  BY QueueAssumption DEF OutsideOK
<1>2. faults' \in 0..MaxFaults
  BY <1>1 DEF Fault, NoFault
<1> QED
  BY <1>2 DEF OutsideOK, outside

\* A row gets a status and keeps what it counts.
RowSet(d, st) ==
    /\ row'[d].status = st /\ row'[d].retries = row[d].retries /\ row'[d].kind = row[d].kind
    /\ \A x \in Dep \ {d} : row'[x] = row[x]

LEMMA UpdateStatusMeans ==
    ASSUME RowOK, now \in Instant, NEW d \in Dep, NEW st \in Status, UpdateStatus(d, st)
    PROVE  RowOK' /\ RowSet(d, st)
<1>1. PICK at \in Instant \cup {NoTime} : row' = [row EXCEPT ![d].status = st, ![d].started = at]
  BY DEF UpdateStatus, RowOK, RowType
<1> QED
  BY <1>1 DEF RowOK, RowType, RowSet

LEMMA CancelledMeans ==
    ASSUME RowOK, NEW d \in Dep, NEW st \in Status, row' = [row EXCEPT ![d].status = st]
    PROVE  RowOK' /\ RowSet(d, st)
BY DEF RowOK, RowType, RowSet

LEMMA InsertMeans ==
    ASSUME RowOK, now \in Instant, NEW d \in Dep, NEW kind \in {"lambda", "docker"}, Insert(d, kind)
    PROVE  /\ RowOK' /\ row[d].status = "none" /\ row'[d].status = "queued" /\ row'[d].retries = 0
           /\ \A x \in Dep \ {d} : row'[x] = row[x]
<1> DEFINE v == [NoRow EXCEPT !.status = "queued", !.kind = kind, !.created = now]
<1>1. v \in RowType /\ v.status = "queued" /\ v.retries = 0
  BY DEF RowType, NoRow, Status, Unfinished
<1>2. row' = [row EXCEPT ![d] = v] /\ row[d].status = "none"
  BY DEF Insert, Oldest
<1> HIDE DEF v
<1> QED
  BY <1>1, <1>2 DEF RowOK

LEMMA ToMeans ==
    ASSUME WorkOK, NEW pr \in Proc, NEW pc \in WorkPc, To(pr, pc)
    PROVE  /\ WorkOK' /\ work'[pr].pc = pc /\ work'[pr].dep = work[pr].dep /\ work'[pr].live = work[pr].live
           /\ \A x \in Proc \ {pr} : work'[x] = work[x]
BY DEF WorkOK, WorkType, To

LEMMA IdleMeans ==
    ASSUME WorkOK, NEW pr \in Proc, Idle(pr)
    PROVE  /\ WorkOK' /\ work'[pr].pc = "poll" /\ work'[pr].dep = NoDep
           /\ \A x \in Proc \ {pr} : work'[x] = work[x]
BY DEF WorkOK, WorkType, WorkPc, Idle

LEMMA DownMeans ==
    ASSUME WorkOK, LambdaOK, NEW pr \in Proc, work' = [work EXCEPT ![pr] = Down], lambda' = Orphaned(pr)
    PROVE  /\ WorkOK' /\ LambdaOK' /\ work'[pr].pc = "down" /\ ~work'[pr].live /\ work'[pr].dep = NoDep
           /\ \A x \in Proc \ {pr} : work'[x] = work[x]
           /\ \A d \in Dep : lambda[d].proc = pr => lambda'[d].pc = "none"
           /\ \A d \in Dep : lambda'[d].pc # "none" => lambda'[d] = lambda[d]
<1>1. Down \in WorkType /\ Down.pc = "down" /\ ~Down.live /\ Down.dep = NoDep
  BY DEF Down, WorkType, WorkPc
<1>2. NoLambda(pr) \in LambdaType /\ NoLambda(pr).pc = "none"
  BY DEF NoLambda, LambdaType
<1>3. WorkOK' /\ work'[pr] = Down /\ \A x \in Proc \ {pr} : work'[x] = work[x]
  BY <1>1 DEF WorkOK
<1> QED
  BY <1>1, <1>2, <1>3 DEF LambdaOK, Orphaned

-----------------------------------------------------------------------------
(* The invariant for any number of processes.                              *)

\* A deployment that is not a new success, with no fewer rollouts than before, is still rolled out.
LEMMA SuccessKept ==
    ASSUME Inv, RowOK', CountOK',
           \A d \in Dep : rollouts'[d].worker >= rollouts[d].worker /\ rollouts'[d].lambda >= rollouts[d].lambda,
           \A d \in Dep : row'[d].status = "success" =>
              row[d].status = "success" \/ rollouts'[d].worker + rollouts'[d].lambda > 0
    PROVE  SuccessWasRolledOut'
<1> SUFFICES ASSUME NEW d \in Dep, row'[d].status = "success" PROVE rollouts'[d].worker + rollouts'[d].lambda > 0
  BY DEF SuccessWasRolledOut
<1>1. /\ rollouts[d].worker \in Nat /\ rollouts[d].lambda \in Nat
      /\ rollouts'[d].worker \in Nat /\ rollouts'[d].lambda \in Nat
  BY DEF Inv, CountOK, CountType
<1>2. CASE row[d].status = "success"
  <2>1. rollouts[d].worker + rollouts[d].lambda > 0
    BY <1>2 DEF Inv, SuccessWasRolledOut
  <2>2. rollouts'[d].worker >= rollouts[d].worker /\ rollouts'[d].lambda >= rollouts[d].lambda
    OBVIOUS
  <2> QED
    BY <1>1, <2>1, <2>2
<1> QED
  BY <1>2

\* Steps that change neither the workers nor the rollouts.
LEMMA RowsOnly ==
    ASSUME Inv, UNCHANGED <<work, rollouts>>, RowOK', LambdaOK', OutsideOK',
           \A d \in Dep : row[d].status # "none" => row'[d].status # "none",
           \A d \in Dep : row'[d].status = "success" => row[d].status = "success"
    PROVE  Inv'
<1>1. WorkOK' /\ CountOK' /\ BusyOK'
  BY DEF Inv, WorkOK, CountOK, BusyOK, Busy
<1>2. \A d \in Dep : rollouts'[d].worker >= rollouts[d].worker /\ rollouts'[d].lambda >= rollouts[d].lambda
  BY DEF Inv, CountOK, CountType
<1>3. SuccessWasRolledOut'
  BY <1>1, <1>2, SuccessKept
<1> QED
  BY <1>1, <1>3 DEF Inv

\* Steps of one worker that leave the counts alone: it goes on with its deployment, or with none.
LEMMA WorkerOnly ==
    ASSUME Inv, NEW pr \in Proc, UNCHANGED rollouts, WorkOK', RowOK', LambdaOK', OutsideOK',
           \A x \in Proc \ {pr} : work'[x] = work[x],
           Busy(pr)' => /\ work'[pr].dep \in Dep /\ row[work'[pr].dep].status # "none"
                        /\ work'[pr].pc # "reporting",
           \A d \in Dep : row[d].status # "none" => row'[d].status # "none",
           \A d \in Dep : row'[d].status = "success" =>
              row[d].status = "success" \/ (work[pr].pc = "reporting" /\ work[pr].dep = d)
    PROVE  Inv'
<1>1. CountOK'
  BY DEF Inv, CountOK
<1>2. BusyOK'
  BY DEF Inv, BusyOK, Busy
<1>3. \A d \in Dep : rollouts'[d].worker >= rollouts[d].worker /\ rollouts'[d].lambda >= rollouts[d].lambda
  BY DEF Inv, CountOK, CountType
<1>4. \A d \in Dep : row'[d].status = "success" =>
         row[d].status = "success" \/ rollouts'[d].worker + rollouts'[d].lambda > 0
  <2> SUFFICES ASSUME NEW d \in Dep, work[pr].pc = "reporting", work[pr].dep = d
               PROVE  rollouts'[d].worker + rollouts'[d].lambda > 0
    OBVIOUS
  <2>1. rollouts[d].worker > 0 /\ rollouts[d].worker \in Nat /\ rollouts[d].lambda \in Nat
    BY DEF Inv, BusyOK, Busy, CountOK, CountType
  <2> QED
    BY <2>1
<1>5. SuccessWasRolledOut'
  BY <1>1, <1>3, <1>4, SuccessKept
<1> QED
  BY <1>1, <1>2, <1>5 DEF Inv

LEMMA CreateInv ==
    ASSUME Inv, NEW pr \in Proc, NEW d \in Dep, NEW kind \in {"lambda", "docker"}, Create(pr, d, kind)
    PROVE  Inv'
<1>1. RowOK' /\ row'[d].status = "queued" /\ \A x \in Dep \ {d} : row'[x] = row[x]
  BY InsertMeans DEF Create, Inv, OutsideOK
<1>2. LambdaOK'
  BY DEF Create, Inv, LambdaOK, LambdaType
<1>3. OutsideOK'
  BY FaultMeans DEF Create, Inv, NoFault
<1> QED
  BY <1>1, <1>2, <1>3, RowsOnly DEF Create

LEMMA KindOK == Inv => \A d \in Dep : row[d].kind \in {"lambda", "docker"}
BY DEF Inv, RowOK, RowType

LEMMA RollbackInv ==
    ASSUME Inv, NEW pr \in Proc, NEW target \in Dep, NEW d \in Dep, Rollback(pr, target, d) PROVE Inv'
<1>1. PICK kind \in {"lambda", "docker"} : kind = row[target].kind
  BY KindOK
<1> QED
  BY <1>1, CreateInv DEF Rollback

LEMMA CancelCheckInv == ASSUME Inv, NEW d \in Dep, CancelCheck(d) PROVE Inv'
<1>1. RowOK' /\ LambdaOK' /\ OutsideOK'
  BY DEF CancelCheck, Inv, RowOK, LambdaOK, OutsideOK
<1> QED
  BY <1>1, RowsOnly DEF CancelCheck

LEMMA CancelInv == ASSUME Inv, NEW d \in Dep, Cancel(d) PROVE Inv'
<1>1. LambdaOK' /\ OutsideOK'
  BY DEF Cancel, Inv, LambdaOK, OutsideOK
<1>2. CASE UNCHANGED row
  BY <1>1, <1>2, RowsOnly DEF Cancel, Inv, RowOK
<1>3. CASE row' = [row EXCEPT ![d].status = "cancelled"]
  <2>1. RowOK' /\ RowSet(d, "cancelled")
    BY <1>3, CancelledMeans DEF Inv, Status, Finished
  <2> QED
    BY <1>1, <2>1, RowsOnly DEF Cancel, RowSet
<1> QED
  BY <1>2, <1>3 DEF Cancel

LEMMA LambdaStartInv == ASSUME Inv, NEW d \in Dep, LambdaStart(d) PROVE Inv'
<1>1. LambdaOK' /\ OutsideOK'
  BY FaultMeans DEF LambdaStart, Inv, LambdaOK, LambdaType
<1>2. CASE UNCHANGED row
  BY <1>1, <1>2, RowsOnly DEF LambdaStart, Inv, RowOK
<1>3. CASE UpdateStatus(d, "deploying")
  <2>1. RowOK' /\ RowSet(d, "deploying")
    BY <1>3, UpdateStatusMeans DEF Inv, OutsideOK, Status, Unfinished, Running
  <2> QED
    BY <1>1, <2>1, RowsOnly DEF LambdaStart, RowSet
<1> QED
  BY <1>2, <1>3 DEF LambdaStart

\* The goroutine counts its rollout with the success it reports.
LEMMA LambdaEndInv == ASSUME Inv, NEW d \in Dep, LambdaEnd(d) PROVE Inv'
<1>1. LambdaOK' /\ OutsideOK' /\ WorkOK'
  BY FaultMeans DEF LambdaEnd, Inv, LambdaOK, LambdaType, NoLambda, WorkOK
<1>2. RowOK' /\ (UNCHANGED row \/ RowSet(d, "success") \/ RowSet(d, "failed"))
  BY UpdateStatusMeans DEF LambdaEnd, Inv, RowOK, OutsideOK, Status, Finished
<1>3. CountOK' /\ \A x \in Dep : rollouts'[x].worker = rollouts[x].worker /\ rollouts'[x].lambda >= rollouts[x].lambda
  <2>1. CASE UNCHANGED rollouts
    BY <2>1 DEF Inv, CountOK, CountType
  <2>2. CASE rollouts' = [rollouts EXCEPT ![d].lambda = @ + 1]
    BY <2>2 DEF Inv, CountOK, CountType
  <2> QED
    BY <2>1, <2>2 DEF LambdaEnd
<1>4. BusyOK'
  BY <1>2, <1>3 DEF LambdaEnd, Inv, BusyOK, Busy, RowSet
<1>5. ASSUME NEW x \in Dep, row'[x].status = "success"
      PROVE  row[x].status = "success" \/ rollouts'[x].worker + rollouts'[x].lambda > 0
  <2>1. CASE UNCHANGED row \/ RowSet(d, "failed")
    BY <1>5, <2>1 DEF RowSet
  <2>2. CASE UpdateStatus(d, "success") /\ rollouts' = [rollouts EXCEPT ![d].lambda = @ + 1]
    <3>1. RowSet(d, "success")
      BY <2>2, UpdateStatusMeans DEF Inv, OutsideOK, Status, Finished
    <3>2. rollouts[d].worker \in Nat /\ rollouts[d].lambda \in Nat
      BY DEF Inv, CountOK, CountType
    <3>3. rollouts'[d].lambda = rollouts[d].lambda + 1 /\ rollouts'[d].worker = rollouts[d].worker
      BY <2>2 DEF Inv, CountOK, CountType
    <3>4. rollouts'[d].worker + rollouts'[d].lambda > 0
      BY <3>2, <3>3
    <3> QED
      BY <1>5, <3>1, <3>4 DEF RowSet
  <2>3. CASE UpdateStatus(d, "failed")
    <3>1. RowSet(d, "failed")
      BY <2>3, UpdateStatusMeans DEF Inv, OutsideOK, Status, Finished
    <3> QED
      BY <2>1, <3>1
  <2> QED
    BY <2>1, <2>2, <2>3 DEF LambdaEnd
<1>6. \A x \in Dep : rollouts'[x].worker >= rollouts[x].worker
  BY <1>3 DEF Inv, CountOK, CountType
<1>7. SuccessWasRolledOut'
  BY <1>2, <1>3, <1>5, <1>6, SuccessKept
<1> QED
  BY <1>1, <1>2, <1>3, <1>4, <1>7 DEF Inv

\* What the reaper leaves of the rows.
LEMMA ReapMeans ==
    ASSUME RowOK, row' = [d \in Dep |-> IF Orphan(row[d]) THEN Reaped(row[d]) ELSE row[d]]
    PROVE  /\ RowOK'
           /\ \A d \in Dep : \/ row'[d] = row[d]
                             \/ /\ row[d].status \in Running /\ row'[d].status = "queued"
                                /\ row'[d].retries = row[d].retries + 1 /\ row'[d].kind = row[d].kind
<1>1. ASSUME NEW d \in Dep
      PROVE  /\ row'[d] \in RowType
             /\ \/ row'[d] = row[d]
                \/ /\ row[d].status \in Running /\ row'[d].status = "queued"
                   /\ row'[d].retries = row[d].retries + 1 /\ row'[d].kind = row[d].kind
  <2>1. row[d] \in RowType
    BY DEF RowOK
  <2>2. CASE Orphan(row[d])
    <3>1. row'[d] = [row[d] EXCEPT !.status = "queued", !.retries = @ + 1] /\ row[d].status \in Running
      BY <2>2 DEF Reaped, Orphan
    <3>2. row[d].retries + 1 \in Nat /\ "queued" \in Status
      BY <2>1 DEF RowType, Status, Unfinished
    <3>3. row'[d] \in RowType
      BY <2>1, <3>1, <3>2 DEF RowType
    <3>4. row'[d].status = "queued" /\ row'[d].retries = row[d].retries + 1 /\ row'[d].kind = row[d].kind
      BY <2>1, <3>1 DEF RowType
    <3> QED
      BY <3>1, <3>3, <3>4
  <2>3. CASE ~Orphan(row[d])
    BY <2>1, <2>3
  <2> QED
    BY <2>2, <2>3
<1>2. row' = [d \in Dep |-> row'[d]]
  OBVIOUS
<1> QED
  BY <1>1, <1>2 DEF RowOK

LEMMA BootMeans ==
    ASSUME Inv, NEW pr \in Proc, Boot(pr)
    PROVE  /\ RowOK' /\ WorkOK' /\ work'[pr].pc = "poll" /\ work'[pr].dep = NoDep
           /\ \A x \in Proc \ {pr} : work'[x] = work[x]
           /\ \A d \in Dep : \/ row'[d] = row[d]
                             \/ /\ row[d].status \in Running /\ row'[d].status = "queued"
                                /\ row'[d].retries = row[d].retries + 1 /\ row'[d].kind = row[d].kind
<1>1. WorkOK' /\ work'[pr].pc = "poll" /\ work'[pr].dep = NoDep /\ \A x \in Proc \ {pr} : work'[x] = work[x]
  BY DEF Boot, Inv, WorkOK, WorkType, WorkPc
<1>2. CASE UNCHANGED row
  BY <1>1, <1>2 DEF Inv, RowOK
<1>3. CASE row' = [d \in Dep |-> IF Orphan(row[d]) THEN Reaped(row[d]) ELSE row[d]]
  BY <1>1, <1>3, ReapMeans DEF Inv
<1> QED
  BY <1>2, <1>3 DEF Boot

LEMMA BootInv == ASSUME Inv, NEW pr \in Proc, Boot(pr) PROVE Inv'
<1>1. LambdaOK' /\ OutsideOK'
  BY FaultMeans DEF Boot, Inv, LambdaOK
<1>2. \A d \in Dep : row[d].status # "none" => row'[d].status # "none"
  BY BootMeans
<1>3. \A d \in Dep : row'[d].status = "success" => row[d].status = "success"
  BY BootMeans
<1>4. ~Busy(pr)' /\ UNCHANGED rollouts
  BY BootMeans DEF Boot, Busy
<1> QED
  BY <1>1, <1>2, <1>3, <1>4, BootMeans, WorkerOnly

LEMMA SelectMeans ==
    ASSUME WorkOK, NEW pr \in Proc, NEW d \in Dep, Select(pr, d)
    PROVE  /\ WorkOK' /\ work'[pr].pc = "locked" /\ work'[pr].dep = d /\ row[d].status = "queued"
           /\ work[pr].pc = "poll" /\ \A x \in Proc \ {pr} : work'[x] = work[x]
BY DEF Select, WorkOK, WorkType, WorkPc, Oldest

LEMMA SelectInv == ASSUME Inv, NEW pr \in Proc, NEW d \in Dep, Select(pr, d) PROVE Inv'
<1>1. LambdaOK' /\ OutsideOK' /\ RowOK'
  BY FaultMeans DEF Select, Inv, LambdaOK, NoFault, RowOK
<1> QED
  BY <1>1, SelectMeans, WorkerOnly DEF Select, Inv

LEMMA CommitInv == ASSUME Inv, NEW pr \in Proc, Commit(pr) PROVE Inv'
<1>1. LambdaOK' /\ OutsideOK' /\ Busy(pr) /\ work[pr].dep \in Dep /\ UNCHANGED rollouts
  BY FaultMeans DEF Commit, Inv, LambdaOK, Broken, BusyOK, Busy
<1>2. RowOK' /\ (UNCHANGED row \/ RowSet(work[pr].dep, "failed"))
  BY <1>1, CancelledMeans DEF Commit, Broken, Inv, RowOK, Status, Finished
<1>3. CASE Idle(pr)
  BY <1>1, <1>2, <1>3, IdleMeans, WorkerOnly DEF Inv, Busy, RowSet
<1>4. CASE To(pr, "picked")
  <2>1. WorkOK' /\ work'[pr].pc = "picked" /\ work'[pr].dep = work[pr].dep /\ \A x \in Proc \ {pr} : work'[x] = work[x]
    BY <1>4, ToMeans DEF Inv, WorkPc
  <2> QED
    BY <1>1, <1>2, <2>1, WorkerOnly DEF Inv, BusyOK, RowSet
<1> QED
  BY <1>3, <1>4 DEF Commit

\* A step of a busy worker that goes on with its deployment, or ends.
LEMMA WorkerGoesOn ==
    ASSUME Inv, NEW pr \in Proc, Busy(pr), NEW st \in Status \ {"none"}, UNCHANGED row \/ UpdateStatus(work[pr].dep, st),
           st = "success" => work[pr].pc = "reporting",
           Idle(pr) \/ \E pc \in WorkPc \ {"reporting"} : To(pr, pc), UNCHANGED <<outside, lambda, rollouts>>, Fault \/ NoFault
    PROVE  Inv'
<1>1. LambdaOK' /\ OutsideOK' /\ work[pr].dep \in Dep /\ row[work[pr].dep].status # "none"
  BY FaultMeans DEF Inv, LambdaOK, BusyOK, Busy
<1>2. RowOK' /\ (UNCHANGED row \/ RowSet(work[pr].dep, st))
  BY <1>1, UpdateStatusMeans DEF Inv, RowOK, OutsideOK
<1>3. CASE Idle(pr)
  BY <1>1, <1>2, <1>3, IdleMeans, WorkerOnly DEF Inv, Busy, RowSet
<1>4. ASSUME NEW pc \in WorkPc \ {"reporting"}, To(pr, pc) PROVE Inv'
  <2>1. WorkOK' /\ work'[pr].pc = pc /\ work'[pr].dep = work[pr].dep /\ \A x \in Proc \ {pr} : work'[x] = work[x]
    BY <1>4, ToMeans DEF Inv
  <2> QED
    BY <1>1, <1>2, <2>1, WorkerOnly DEF RowSet
<1> QED
  BY <1>3, <1>4

LEMMA BrokenMeans == ASSUME NEW pr \in Proc, Broken(pr) PROVE UNCHANGED row /\ (Fault \/ NoFault)
BY DEF Broken

LEMMA StatusMeans == {"building", "deploying", "success", "failed", "cancelled", "queued"} \subseteq Status \ {"none"}
BY DEF Status, Unfinished, Running, Finished

LEMMA StartBuildInv == ASSUME Inv, NEW pr \in Proc, StartBuild(pr) PROVE Inv'
BY WorkerGoesOn, BrokenMeans, StatusMeans DEF StartBuild, Busy, WorkPc

LEMMA EndBuildInv == ASSUME Inv, NEW pr \in Proc, EndBuild(pr) PROVE Inv'
BY WorkerGoesOn, BrokenMeans, StatusMeans DEF EndBuild, Busy, WorkPc

LEMMA ReportInv == ASSUME Inv, NEW pr \in Proc, Report(pr) PROVE Inv'
BY WorkerGoesOn, BrokenMeans, StatusMeans DEF Report, Busy

LEMMA FailDeploymentInv == ASSUME Inv, NEW pr \in Proc, FailDeployment(pr) PROVE Inv'
BY WorkerGoesOn, BrokenMeans, StatusMeans DEF FailDeployment, Busy

LEMMA RolloutMeans ==
    ASSUME Inv, NEW pr \in Proc, NEW d \in Dep, rollouts' = [rollouts EXCEPT ![d].worker = @ + 1]
    PROVE  /\ CountOK' /\ rollouts'[d].worker = rollouts[d].worker + 1
           /\ \A x \in Dep : rollouts'[x].worker >= rollouts[x].worker /\ rollouts'[x].lambda >= rollouts[x].lambda
           /\ \A x \in Dep \ {d} : rollouts'[x] = rollouts[x]
BY DEF Inv, CountOK, CountType

LEMMA EndRolloutInv == ASSUME Inv, NEW pr \in Proc, EndRollout(pr) PROVE Inv'
<1>1. CASE To(pr, "failing") /\ UNCHANGED rollouts
  BY <1>1, WorkerGoesOn, StatusMeans DEF EndRollout, Busy, WorkPc, NoFault
<1>2. CASE To(pr, "reporting") /\ rollouts' = [rollouts EXCEPT ![work[pr].dep].worker = @ + 1]
  <2> DEFINE d == work[pr].dep
  <2>1. d \in Dep /\ row[d].status # "none" /\ rollouts[d].worker \in Nat
    BY DEF EndRollout, Inv, BusyOK, Busy, CountOK, CountType
  <2>2. LambdaOK' /\ OutsideOK' /\ RowOK' /\ UNCHANGED row
    BY FaultMeans DEF EndRollout, Inv, LambdaOK, NoFault, RowOK
  <2>3. WorkOK' /\ work'[pr].dep = d /\ \A x \in Proc \ {pr} : work'[x] = work[x]
    BY <1>2, ToMeans DEF Inv, WorkPc
  <2>4. /\ CountOK' /\ rollouts'[d].worker = rollouts[d].worker + 1
        /\ \A x \in Dep : rollouts'[x].worker >= rollouts[x].worker /\ rollouts'[x].lambda >= rollouts[x].lambda
    BY <1>2, <2>1, RolloutMeans
  <2> HIDE DEF d
  <2>5. SuccessWasRolledOut'
    BY <2>2, <2>4, SuccessKept
  <2>6. rollouts'[d].worker > 0
    BY <2>1, <2>4
  <2>7. BusyOK'
    <3> SUFFICES ASSUME NEW x \in Proc, Busy(x)'
                 PROVE  /\ work'[x].dep \in Dep /\ row'[work'[x].dep].status # "none"
                        /\ work'[x].pc = "reporting" => rollouts'[work'[x].dep].worker > 0
      BY DEF BusyOK
    <3>1. CASE x = pr
      BY <2>1, <2>2, <2>3, <2>6, <3>1
    <3>2. CASE x # pr
      <4>1. Busy(x) /\ work'[x] = work[x]
        BY <2>3, <3>2 DEF Busy
      <4>2. /\ work[x].dep \in Dep /\ row[work[x].dep].status # "none"
            /\ work[x].pc = "reporting" => rollouts[work[x].dep].worker > 0
        BY <4>1 DEF Inv, BusyOK
      <4>3. \A y \in Dep : rollouts[y].worker \in Nat /\ rollouts'[y].worker \in Nat
        BY <2>4 DEF Inv, CountOK, CountType
      <4> QED
        BY <2>2, <2>4, <4>1, <4>2, <4>3
    <3> QED
      BY <3>1, <3>2
  <2> QED
    BY <2>2, <2>3, <2>4, <2>5, <2>7 DEF Inv
<1> QED
  BY <1>1, <1>2 DEF EndRollout

LEMMA ShutdownInv == ASSUME Inv, NEW pr \in Proc, Shutdown(pr) PROVE Inv'
<1>1. WorkOK' /\ \A x \in Proc : work'[x].pc = work[x].pc /\ work'[x].dep = work[x].dep
  BY DEF Shutdown, Inv, WorkOK, WorkType
<1>2. LambdaOK' /\ OutsideOK' /\ RowOK' /\ CountOK' /\ SuccessWasRolledOut'
  BY FaultMeans DEF Shutdown, Inv, LambdaOK, RowOK, CountOK, SuccessWasRolledOut
<1>3. BusyOK'
  BY <1>1 DEF Shutdown, Inv, BusyOK, Busy
<1> QED
  BY <1>1, <1>2, <1>3 DEF Inv

\* A process that exits or dies.
LEMMA GoneInv ==
    ASSUME Inv, NEW pr \in Proc, work' = [work EXCEPT ![pr] = Down], lambda' = Orphaned(pr),
           UNCHANGED <<outside, row, rollouts>>, Fault \/ NoFault
    PROVE  Inv'
<1>1. OutsideOK' /\ RowOK'
  BY FaultMeans DEF Inv, RowOK
<1>2. WorkOK' /\ LambdaOK' /\ work'[pr].pc = "down" /\ \A x \in Proc \ {pr} : work'[x] = work[x]
  BY DownMeans DEF Inv
<1> QED
  BY <1>1, <1>2, WorkerOnly DEF Busy

LEMMA TockInv == ASSUME Inv, Tock PROVE Inv'
<1>1. OutsideOK'
  <2>1. now \in Instant /\ MaxNow \in Nat
    BY QueueAssumption DEF Inv, OutsideOK
  <2>2. now' \in Instant
    BY <2>1 DEF Tock, Instant
  <2> QED
    BY <2>2 DEF Tock, Inv, OutsideOK
<1> QED
  BY <1>1, RowsOnly DEF Tock, Inv, RowOK, LambdaOK

LEMMA InitInv == Init => Inv
<1> SUFFICES ASSUME Init PROVE Inv
  OBVIOUS
<1>1. 0 \in Instant /\ MaxFaults \in 0..MaxFaults
  BY QueueAssumption DEF Instant
<1>2. NoRow \in RowType /\ NoRow.status = "none" /\ Down \in WorkType /\ Down.pc = "down"
  BY <1>1 DEF NoRow, RowType, Status, Down, WorkType, WorkPc
<1>3. RowOK /\ WorkOK /\ CountOK /\ BusyOK
  BY <1>2 DEF Init, RowOK, WorkOK, CountOK, CountType, BusyOK, Busy
<1>4. LambdaOK
  BY DEF Init, LambdaOK, LambdaType, NoLambda
<1>5. OutsideOK
  BY <1>1 DEF Init, OutsideOK
<1>6. SuccessWasRolledOut
  BY <1>2 DEF Init, SuccessWasRolledOut
<1> QED
  BY <1>3, <1>4, <1>5, <1>6 DEF Inv

LEMMA StutterInv == Inv /\ UNCHANGED vars => Inv'
<1> SUFFICES ASSUME Inv, UNCHANGED vars PROVE Inv'
  OBVIOUS
<1>1. RowOK' /\ LambdaOK' /\ OutsideOK'
  BY DEF vars, Inv, RowOK, LambdaOK, OutsideOK
<1> QED
  BY <1>1, RowsOnly DEF vars

\* The kinds of step of the queue.
LEMMA NextInv == Inv /\ [Next]_vars => Inv'
<1> SUFFICES ASSUME Inv, [Next]_vars PROVE Inv'
  OBVIOUS
<1>1. ASSUME NEW pr \in Proc, Worker(pr) PROVE Inv'
  <2>1. CASE Exit(pr)
    BY <2>1, GoneInv DEF Exit, NoFault
  <2> QED
    BY <1>1, <2>1, BootInv, StutterInv, SelectInv, CommitInv, StartBuildInv, EndBuildInv, EndRolloutInv, ReportInv,
       FailDeploymentInv DEF Worker, Poll
<1>2. CASE Api
  <2>1. Kind \subseteq {"lambda", "docker"}
    BY QueueAssumption
  <2> QED
    BY <1>2, <2>1, CreateInv, RollbackInv, CancelCheckInv, CancelInv, LambdaStartInv, LambdaEndInv DEF Api
<1>3. ASSUME NEW pr \in Proc, Crash(pr) PROVE Inv'
  BY <1>3, GoneInv DEF Crash
<1> QED
  BY <1>1, <1>2, <1>3, StutterInv, ShutdownInv, TockInv DEF Next

LEMMA InvAlways == Spec => []Inv
<1> QED
  BY InitInv, NextInv, PTL DEF Spec

\* Type correctness: every variable of the queue's model keeps its type.
THEOREM QueueTypeCorrect == Spec => []TypeOK
<1>1. Inv => TypeOK
  BY DEF TypeOK, Inv, RowOK, RowType, Status, WorkOK, WorkType, WorkPc, LambdaOK, LambdaType, CountOK, CountType, OutsideOK
<1> QED
  BY <1>1, InvAlways, PTL

\* Whoever writes success, worker or Lambda goroutine, of however many processes and
\* after whatever crash, the deployment has been rolled out.
THEOREM SuccessTruly == Spec => []SuccessWasRolledOut
<1>1. Inv => SuccessWasRolledOut
  BY DEF Inv
<1> QED
  BY <1>1, InvAlways, PTL

-----------------------------------------------------------------------------
(* Outcomes.                                                               *)

\* Nobody works on a deployment that has ended.
Over(d) == row[d].status \in Finished /\ lambda[d].pc = "none" /\ \A pr \in Proc : work[pr].dep # d

LEMMA OverStays == ASSUME Inv, [Next]_vars, NEW d \in Dep, Over(d) PROVE row'[d].status = row[d].status
<1>0. row[d].status \notin Unfinished /\ row[d].status # "none" /\ RowOK /\ now \in Instant
  BY DEF Over, Finished, Unfinished, Running, Inv, OutsideOK
<1>1. CASE UNCHANGED row
  BY <1>1
<1>2. ASSUME NEW x \in Dep, x # d, NEW st \in Status, RowSet(x, st) PROVE row'[d].status = row[d].status
  BY <1>2 DEF RowSet
<1>3. ASSUME NEW x \in Dep, x # d, NEW st \in Status, UpdateStatus(x, st) \/ row' = [row EXCEPT ![x].status = st]
      PROVE  row'[d].status = row[d].status
  BY <1>0, <1>2, <1>3, UpdateStatusMeans, CancelledMeans
<1>4. ASSUME NEW pr \in Proc, NEW x \in Dep, NEW kind \in {"lambda", "docker"}, Create(pr, x, kind)
      PROVE  row'[d].status = row[d].status
  BY <1>0, <1>4, InsertMeans DEF Create
<1>5. CASE Api
  <2>1. ASSUME NEW pr \in Proc, NEW x \in Dep, NEW target \in Dep, Rollback(pr, target, x)
        PROVE  row'[d].status = row[d].status
    <3>1. PICK kind \in {"lambda", "docker"} : kind = row[target].kind
      BY KindOK
    <3> QED
      BY <1>4, <2>1, <3>1 DEF Rollback
  <2>2. ASSUME NEW x \in Dep, Cancel(x) PROVE row'[d].status = row[d].status
    BY <1>0, <1>1, <1>3, <2>2, StatusMeans DEF Cancel
  <2>3. ASSUME NEW x \in Dep, LambdaStart(x) \/ LambdaEnd(x) PROVE row'[d].status = row[d].status
    <3>1. x # d
      BY <2>3 DEF LambdaStart, LambdaEnd, Over
    <3> QED
      BY <1>1, <1>3, <2>3, <3>1, StatusMeans DEF LambdaStart, LambdaEnd
  <2>4. ASSUME NEW x \in Dep, CancelCheck(x) PROVE row'[d].status = row[d].status
    BY <1>1, <2>4 DEF CancelCheck
  <2>5. Kind \subseteq {"lambda", "docker"}
    BY QueueAssumption
  <2> QED
    BY <1>4, <1>5, <2>1, <2>2, <2>3, <2>4, <2>5 DEF Api
<1>6. ASSUME NEW pr \in Proc, Worker(pr) PROVE row'[d].status = row[d].status
  <2>1. CASE Boot(pr)
    <3>1. row[d].status \notin Running
      BY <1>0 DEF Unfinished
    <3> QED
      BY <2>1, <3>1, BootMeans
  <2>2. CASE Commit(pr) \/ StartBuild(pr) \/ EndBuild(pr) \/ Report(pr) \/ FailDeployment(pr)
    <3>1. work[pr].dep \in Dep /\ work[pr].dep # d
      BY <2>2 DEF Commit, StartBuild, EndBuild, Report, FailDeployment, Inv, BusyOK, Busy, Over
    <3>2. CASE Commit(pr)
      BY <1>1, <1>3, <3>1, <3>2, StatusMeans DEF Commit, Broken
    <3> QED
      BY <1>1, <1>3, <2>2, <3>1, <3>2, StatusMeans DEF StartBuild, EndBuild, Report, FailDeployment, Broken
  <2>3. CASE Poll(pr) \/ (\E x \in Dep : Select(pr, x)) \/ EndRollout(pr) \/ Exit(pr)
    BY <1>1, <2>3 DEF Poll, vars, Select, EndRollout, Exit
  <2> QED
    BY <1>6, <2>1, <2>2, <2>3 DEF Worker
<1>7. ASSUME NEW pr \in Proc, Shutdown(pr) \/ Crash(pr) PROVE row'[d].status = row[d].status
  BY <1>1, <1>7 DEF Shutdown, Crash
<1>8. CASE Tock \/ UNCHANGED vars
  BY <1>1, <1>8 DEF Tock, vars
<1> QED
  BY <1>5, <1>6, <1>7, <1>8 DEF Next

\* With one process the worker is never at a Docker deployment that succeeded or failed, and Docker
\* deployments have no goroutine.
Attended ==
    /\ \A d \in Dep : row[d].kind = "docker" \/ row[d].status = "none" => lambda[d].pc = "none"
    /\ \A pr \in Proc, d \in Dep :
          work[pr].dep = d /\ row[d].kind = "docker" => row[d].status \notin {"success", "failed"}

\* A step after which the worker is idle, or at a deployment it did not end.
LEMMA AttendedStep ==
    ASSUME OneProcess, Attended, NEW pr \in Proc,
           \A d \in Dep : /\ row'[d].kind = row[d].kind /\ (row'[d].status = "none" => row[d].status = "none")
                          /\ lambda'[d].pc # "none" => lambda[d].pc # "none",
           \A d \in Dep : work'[pr].dep = d /\ row[d].kind = "docker" => row'[d].status \notin {"success", "failed"}
    PROVE  Attended'
BY DEF Attended, OneProcess

LEMMA DownAttended ==
    ASSUME OneProcess, Inv, Attended, NEW pr \in Proc, work' = [work EXCEPT ![pr] = Down], lambda' = Orphaned(pr),
           UNCHANGED row
    PROVE  Attended'
<1>1. NoDep \notin Dep
  BY QueueAssumption DEF NoDep, Dep
<1>2. WorkOK /\ LambdaOK
  BY DEF Inv
<1>3. work'[pr].dep = NoDep /\ \A d \in Dep : lambda'[d].pc # "none" => lambda'[d] = lambda[d]
  BY <1>2, DownMeans
<1>4. \A d \in Dep : lambda'[d].pc # "none" => lambda[d].pc # "none"
  BY <1>3
<1>5. \A d \in Dep : work'[pr].dep # d
  BY <1>1, <1>3
<1> QED
  BY <1>4, <1>5, AttendedStep

LEMMA WorkerAttended == ASSUME OneProcess, Inv, Attended, NEW pr \in Proc, Worker(pr) PROVE Attended'
<1>0. WorkOK /\ RowOK /\ LambdaOK /\ now \in Instant /\ NoDep \notin Dep
  BY QueueAssumption DEF Inv, OutsideOK, NoDep, Dep
<1>1. CASE Boot(pr)
  <2>1. UNCHANGED lambda
    BY <1>1 DEF Boot
  <2> QED
    BY <1>0, <1>1, <2>1, BootMeans, AttendedStep
<1>2. CASE Poll(pr) \/ EndRollout(pr)
  <2>1. UNCHANGED <<row, lambda>> /\ work'[pr].dep = work[pr].dep
    BY <1>0, <1>2, ToMeans DEF Poll, vars, EndRollout, WorkPc
  <2> QED
    BY <2>1, AttendedStep DEF Attended
<1>3. ASSUME NEW d \in Dep, Select(pr, d) PROVE Attended'
  <2>1. UNCHANGED <<row, lambda>>
    BY <1>3 DEF Select
  <2> QED
    BY <1>0, <1>3, <2>1, SelectMeans, AttendedStep
<1>4. ASSUME Busy(pr), NEW st \in Status \ {"none"}, UNCHANGED row \/ RowSet(work[pr].dep, st), UNCHANGED lambda,
             \/ Idle(pr)
             \/ st \notin {"success", "failed"} /\ work'[pr].dep = work[pr].dep
      PROVE  Attended'
  <2>1. work[pr].dep \in Dep
    BY <1>4 DEF Inv, BusyOK
  <2>2. \A d \in Dep : row'[d].kind = row[d].kind /\ (row'[d].status = "none" => row[d].status = "none")
    BY <1>4, <2>1 DEF RowSet
  <2>3. CASE Idle(pr)
    BY <1>0, <1>4, <2>2, <2>3, IdleMeans, AttendedStep
  <2>4. CASE st \notin {"success", "failed"} /\ work'[pr].dep = work[pr].dep
    <3>1. \A d \in Dep : work'[pr].dep = d /\ row[d].kind = "docker" => row'[d].status \notin {"success", "failed"}
      BY <1>4, <2>1, <2>4 DEF RowSet, Attended
    <3> QED
      BY <1>4, <2>2, <3>1, AttendedStep
  <2> QED
    BY <1>4, <2>3, <2>4
<1>5. CASE Commit(pr)
  <2>1. Busy(pr) /\ work[pr].dep \in Dep /\ UNCHANGED lambda
    BY <1>5 DEF Commit, Busy, Inv, BusyOK
  <2>2. CASE row' = [row EXCEPT ![work[pr].dep].status = "failed"] /\ Idle(pr)
    BY <1>0, <1>4, <2>1, <2>2, CancelledMeans, StatusMeans
  <2>3. CASE To(pr, "picked") /\ UNCHANGED row
    BY <1>0, <1>4, <2>1, <2>3, ToMeans, StatusMeans DEF WorkPc
  <2>4. CASE Idle(pr) /\ UNCHANGED row
    BY <1>4, <2>1, <2>4, StatusMeans
  <2> QED
    BY <1>5, <2>2, <2>3, <2>4 DEF Commit, Broken
<1>6. CASE StartBuild(pr) \/ EndBuild(pr)
  <2>1. Busy(pr) /\ work[pr].dep \in Dep /\ UNCHANGED lambda
    BY <1>6 DEF StartBuild, EndBuild, Busy, Inv, BusyOK
  <2>2. PICK st \in {"building", "deploying"} : UNCHANGED row \/ UpdateStatus(work[pr].dep, st)
    BY <1>6 DEF StartBuild, EndBuild, Broken
  <2>3. UNCHANGED row \/ RowSet(work[pr].dep, st)
    BY <1>0, <2>1, <2>2, UpdateStatusMeans, StatusMeans
  <2>4. work'[pr].dep = work[pr].dep
    BY <1>0, <1>6, ToMeans DEF StartBuild, EndBuild, WorkPc
  <2> QED
    BY <1>4, <2>1, <2>2, <2>3, <2>4, StatusMeans
<1>7. CASE Report(pr) \/ FailDeployment(pr)
  <2>1. Busy(pr) /\ work[pr].dep \in Dep /\ UNCHANGED lambda /\ Idle(pr)
    BY <1>7 DEF Report, FailDeployment, Busy, Inv, BusyOK
  <2>2. PICK st \in {"success", "failed"} : UNCHANGED row \/ UpdateStatus(work[pr].dep, st)
    BY <1>7 DEF Report, FailDeployment, Broken
  <2>3. UNCHANGED row \/ RowSet(work[pr].dep, st)
    BY <1>0, <2>1, <2>2, UpdateStatusMeans, StatusMeans
  <2> QED
    BY <1>4, <2>1, <2>2, <2>3, StatusMeans
<1>8. CASE Exit(pr)
  <2>1. work' = [work EXCEPT ![pr] = Down] /\ lambda' = Orphaned(pr) /\ UNCHANGED row
    BY <1>8 DEF Exit
  <2> QED
    BY <2>1, DownAttended
<1> QED
  BY <1>1, <1>2, <1>3, <1>5, <1>6, <1>7, <1>8 DEF Worker

LEMMA ApiAttended == ASSUME OneProcess, Inv, Attended, Api PROVE Attended'
<1>0. WorkOK /\ RowOK /\ LambdaOK /\ now \in Instant
  BY DEF Inv, OutsideOK
<1>1. ASSUME NEW pr \in Proc, NEW d \in Dep, NEW kind \in {"lambda", "docker"}, Create(pr, d, kind) PROVE Attended'
  <2> DEFINE v == [NoRow EXCEPT !.status = "queued", !.kind = kind, !.created = now]
  <2>1. row' = [row EXCEPT ![d] = v] /\ UNCHANGED work /\ v.kind = kind /\ v.status = "queued"
    BY <1>1 DEF Create, Insert, NoRow
  <2> HIDE DEF v
  <2>2. row'[d].kind = kind /\ row'[d].status = "queued" /\ \A x \in Dep \ {d} : row'[x] = row[x]
    BY <1>0, <2>1 DEF RowOK
  <2>3. row[d].status = "none" /\ lambda' = IF kind = "lambda" THEN [lambda EXCEPT ![d] = [pc |-> "start", proc |-> pr]] ELSE lambda
    BY <1>1 DEF Create, Insert, Oldest
  <2>4. (\A x \in Dep \ {d} : lambda'[x] = lambda[x]) /\ (kind = "docker" => lambda'[d] = lambda[d])
    BY <1>0, <2>3 DEF LambdaOK
  <2>5. kind = "docker" => lambda[d].pc = "none"
    BY <2>3 DEF Attended
  <2>6. \A x \in Dep : row'[x].kind = "docker" \/ row'[x].status = "none" => lambda'[x].pc = "none"
    BY <2>2, <2>4, <2>5 DEF Attended
  <2> QED
    BY <2>1, <2>2, <2>6 DEF Attended
<1>2. ASSUME NEW pr \in Proc, NEW d \in Dep, NEW target \in Dep, Rollback(pr, target, d) PROVE Attended'
  <2>1. PICK kind \in {"lambda", "docker"} : kind = row[target].kind
    BY KindOK
  <2> QED
    BY <1>1, <1>2, <2>1 DEF Rollback
<1>3. ASSUME NEW d \in Dep, CancelCheck(d) PROVE Attended'
  BY <1>3 DEF CancelCheck, Attended
<1>4. ASSUME NEW d \in Dep, Cancel(d) PROVE Attended'
  <2>1. UNCHANGED row \/ RowSet(d, "cancelled")
    BY <1>0, <1>4, CancelledMeans, StatusMeans DEF Cancel
  <2>2. UNCHANGED <<work, lambda>>
    BY <1>4 DEF Cancel
  <2> QED
    BY <2>1, <2>2 DEF Attended, RowSet
<1>5. ASSUME NEW d \in Dep, LambdaStart(d) \/ LambdaEnd(d) PROVE Attended'
  <2>1. lambda[d].pc # "none" /\ UNCHANGED work
    BY <1>5 DEF LambdaStart, LambdaEnd
  <2>2. PICK st \in Status \ {"none"} : UNCHANGED row \/ UpdateStatus(d, st)
    BY <1>5, StatusMeans DEF LambdaStart, LambdaEnd
  <2>3. UNCHANGED row \/ RowSet(d, st)
    BY <1>0, <2>2, UpdateStatusMeans
  <2>4. \A x \in Dep \ {d} : lambda'[x] = lambda[x]
    BY <1>0, <1>5 DEF LambdaStart, LambdaEnd, LambdaOK
  <2>5. row[d].kind # "docker" /\ row'[d].kind = row[d].kind /\ row'[d].status # "none" /\ \A x \in Dep \ {d} : row'[x] = row[x]
    BY <2>1, <2>3 DEF Attended, RowSet
  <2> QED
    BY <2>1, <2>4, <2>5 DEF Attended
<1> QED
  BY <1>1, <1>2, <1>3, <1>4, <1>5, QueueAssumption DEF Api

LEMMA NextAttended == OneProcess /\ Inv /\ Attended /\ [Next]_vars => Attended'
<1> SUFFICES ASSUME OneProcess, Inv, Attended, [Next]_vars PROVE Attended'
  OBVIOUS
<1>0. WorkOK
  BY DEF Inv
<1>1. ASSUME NEW pr \in Proc, Shutdown(pr) PROVE Attended'
  <2>1. UNCHANGED <<row, lambda>> /\ work'[pr].dep = work[pr].dep
    BY <1>0, <1>1 DEF Shutdown, WorkOK, WorkType
  <2> QED
    BY <2>1, AttendedStep DEF Attended
<1>2. ASSUME NEW pr \in Proc, Crash(pr) PROVE Attended'
  <2>1. work' = [work EXCEPT ![pr] = Down] /\ lambda' = Orphaned(pr) /\ UNCHANGED row
    BY <1>2 DEF Crash
  <2> QED
    BY <2>1, DownAttended
<1>3. CASE Tock \/ UNCHANGED vars
  BY <1>3 DEF Tock, vars, Attended
<1> QED
  BY <1>1, <1>2, <1>3, WorkerAttended, ApiAttended DEF Next

\* The outcome of a deployment nobody works on is not overwritten, by a late
\* cancellation, the queue or the reaper of any process; with one process nor is
\* the success or failure of a Docker deployment, whoever works on what.
THEOREM OutcomeFinal == Spec => OutcomeStays
<1>1. ASSUME Inv, OneProcess => Attended, [Next]_vars, NEW d \in Dep,
             row[d].status \in Finished, lambda[d].pc = "none",
             \/ \A pr \in Proc : work[pr].dep # d
             \/ row[d].status # "cancelled" /\ row[d].kind = "docker" /\ \A p, q \in Proc : p = q
      PROVE  row'[d].status = row[d].status
  <2>1. Over(d)
    BY <1>1 DEF Over, Attended, OneProcess, Finished
  <2> QED
    BY <1>1, <2>1, OverStays
<1>2. Init => (OneProcess => Attended)
  BY DEF Init, Attended, NoRow, NoLambda
<1>3. Inv /\ (OneProcess => Attended) /\ [Next]_vars => (OneProcess => Attended)'
  BY NextAttended DEF OneProcess
<1>4. Spec => [](OneProcess => Attended)
  BY <1>2, <1>3, InvAlways, PTL DEF Spec
<1>5. Inv /\ (OneProcess => Attended) /\ [Next]_vars =>
        [\A d \in Dep :
            /\ row[d].status \in Finished /\ lambda[d].pc = "none"
            /\ \/ \A pr \in Proc : work[pr].dep # d
               \/ row[d].status # "cancelled" /\ row[d].kind = "docker" /\ \A p, q \in Proc : p = q
            => row'[d].status = row[d].status]_vars
  BY <1>1
<1> QED
  BY <1>4, <1>5, InvAlways, PTL DEF Spec, OutcomeStays

-----------------------------------------------------------------------------
(* One process.                                                            *)

LEMMA NotLocked == ASSUME NEW d, d \notin Locked PROVE \A pr \in Proc : work[pr].pc = "locked" => work[pr].dep # d
BY DEF Locked

\* What a step may do to a row without a retry: leave its status, or write one that is not queued, and a
\* running one only while a retry is left.
Written(d) ==
    /\ row'[d].retries = row[d].retries
    /\ \/ row'[d].status = row[d].status
       \/ /\ row[d].status # "none" /\ row'[d].status \notin {"none", "queued"}
          /\ row'[d].status \in Running => row[d].retries < maxRetries

\* Where a worker may be after a step.
Placed(pr) ==
    /\ work'[pr].pc = "down" => ~work'[pr].live /\ \A d \in Dep : lambda'[d].pc = "none"
    /\ work'[pr].pc = "locked" => row'[work'[pr].dep].status = "queued"
    /\ work'[pr].pc \in {"picked", "building", "deploying"} =>
          work'[pr].dep \in Dep /\ rollouts[work'[pr].dep].worker <= row[work'[pr].dep].retries
    /\ work'[pr].pc \in {"picked", "building"} => row[work'[pr].dep].retries < maxRetries
    /\ work'[pr].pc = "deploying" => row'[work'[pr].dep].status # "queued"

LEMMA SoloStep ==
    ASSUME Solo, \A d \in Dep : Written(d) /\ rollouts'[d].worker = rollouts[d].worker, \A pr \in Proc : Placed(pr),
           \A d \in Dep : lambda'[d].pc # "none" => lambda[d].pc # "none"
    PROVE  Solo'
<1>1. Goroutines'
  BY DEF Solo, Goroutines, Written, Placed
<1>2. Unspent'
  BY DEF Solo, Unspent, Written, Placed
<1>3. Due'
  BY DEF Solo, Due, Written, Placed
<1>4. RetriesBounded' /\ RolloutsAccounted'
  BY DEF Solo, RetriesBounded, RolloutsAccounted, Written
<1> QED
  BY <1>1, <1>2, <1>3, <1>4 DEF Solo

\* A worker that a step leaves where it was, while its row, if it holds one, is not written.
LEMMA StillPlaced ==
    ASSUME Inv, Solo, NEW pr \in Proc, work'[pr] = work[pr], \A d \in Dep : Written(d),
           \A d \in Dep : lambda'[d].pc # "none" => lambda[d].pc # "none",
           work[pr].pc = "locked" => row'[work[pr].dep].status = row[work[pr].dep].status
    PROVE  Placed(pr)
BY DEF Solo, Goroutines, Unspent, Due, Placed, Inv, BusyOK, Busy, Written

LEMMA RowSetWritten ==
    ASSUME NEW d \in Dep, NEW st \in Status \ {"none", "queued"}, RowSet(d, st), row[d].status # "none",
           st \in Running => row[d].retries < maxRetries
    PROVE  \A x \in Dep : Written(x)
BY DEF RowSet, Written

LEMMA SameWritten == UNCHANGED row => \A x \in Dep : Written(x)
BY DEF Written

\* Steps that write one row and leave the workers alone.
LEMMA SoloRow ==
    ASSUME Inv, Solo, UNCHANGED work, NEW d \in Dep, NEW st \in Status \ {"none", "queued"},
           UNCHANGED row \/ (d \notin Locked /\ RowSet(d, st) /\ row[d].status # "none"),
           st \in Running => row[d].retries < maxRetries,
           \A x \in Dep : rollouts'[x].worker = rollouts[x].worker,
           \A x \in Dep : lambda'[x].pc # "none" => lambda[x].pc # "none"
    PROVE  Solo'
<1>1. \A x \in Dep : Written(x)
  BY RowSetWritten, SameWritten
<1>2. ASSUME NEW pr \in Proc, work[pr].pc = "locked" PROVE row'[work[pr].dep].status = row[work[pr].dep].status
  <2>1. work[pr].dep \in Dep
    BY <1>2 DEF Inv, BusyOK, Busy
  <2>2. UNCHANGED row \/ (RowSet(d, st) /\ work[pr].dep # d)
    BY <1>2, NotLocked
  <2> QED
    BY <2>1, <2>2 DEF RowSet
<1>3. \A pr \in Proc : Placed(pr)
  BY <1>1, <1>2, StillPlaced
<1> QED
  BY <1>1, <1>3, SoloStep

LEMMA CancelSolo == ASSUME Inv, Solo, NEW d \in Dep, Cancel(d) PROVE Solo'
<1>1. UNCHANGED row \/ (d \notin Locked /\ RowSet(d, "cancelled") /\ row[d].status # "none")
  BY CancelledMeans, StatusMeans DEF Cancel, Inv, Unfinished, Running
<1>2. "cancelled" \in Status \ {"none", "queued"} /\ "cancelled" \notin Running
  BY DEF Status, Finished, Running
<1> QED
  BY <1>1, <1>2, SoloRow DEF Cancel

LEMMA LambdaStartSolo == ASSUME Inv, Solo, NEW d \in Dep, LambdaStart(d) PROVE Solo'
<1>1. row[d].status # "none" /\ row[d].retries = 0
  BY DEF LambdaStart, Solo, Due, Goroutines
<1>2. UNCHANGED row \/ (d \notin Locked /\ RowSet(d, "deploying"))
  BY UpdateStatusMeans, StatusMeans DEF LambdaStart, Inv, OutsideOK, UpdateStatus
<1>3. "deploying" \in Status \ {"none", "queued"} /\ row[d].retries < maxRetries
  BY <1>1, StatusMeans, QueueAssumption
<1>4. \A x \in Dep : lambda'[x].pc # "none" => lambda[x].pc # "none"
  BY DEF LambdaStart, Inv, LambdaOK, LambdaType
<1> QED
  BY <1>1, <1>2, <1>3, <1>4, SoloRow DEF LambdaStart

LEMMA LambdaEndSolo == ASSUME Inv, Solo, NEW d \in Dep, LambdaEnd(d) PROVE Solo'
<1>1. row[d].status # "none"
  BY DEF LambdaEnd, Solo, Due
<1>2. PICK st \in {"success", "failed"} : UNCHANGED row \/ UpdateStatus(d, st)
  BY DEF LambdaEnd
<1>3. UNCHANGED row \/ (d \notin Locked /\ RowSet(d, st))
  BY <1>2, UpdateStatusMeans, StatusMeans DEF Inv, OutsideOK, UpdateStatus
<1>4. st \in Status \ {"none", "queued"} /\ st \notin Running
  BY StatusMeans DEF Running
<1>5. \A x \in Dep : lambda'[x].pc # "none" => lambda[x].pc # "none"
  BY DEF LambdaEnd, Inv, LambdaOK, LambdaType, NoLambda
<1>6. \A x \in Dep : rollouts'[x].worker = rollouts[x].worker
  BY DEF LambdaEnd, Inv, CountOK, CountType
<1> QED
  BY <1>1, <1>3, <1>4, <1>5, <1>6, SoloRow DEF LambdaEnd

\* A new deployment has not been rolled out, and its goroutine starts while the process is up.
LEMMA CreateSolo ==
    ASSUME OneProcess, Inv, Solo, NEW pr \in Proc, NEW d \in Dep, NEW kind \in {"lambda", "docker"}, Create(pr, d, kind)
    PROVE  Solo'
<1>1. /\ row[d].status = "none" /\ row'[d].status = "queued" /\ row'[d].retries = 0
      /\ \A x \in Dep \ {d} : row'[x] = row[x]
  BY InsertMeans DEF Create, Inv, OutsideOK
<1>2. work[pr].live /\ UNCHANGED <<work, rollouts>>
  BY DEF Create
<1>3. \A x \in Proc : work[x].pc # "down"
  BY <1>2 DEF OneProcess, Solo, Goroutines
<1>4. \A x \in Dep \ {d} : lambda'[x] = lambda[x]
  BY DEF Create, Inv, LambdaOK
<1>5. \A x \in Proc : Busy(x) => work[x].dep \in Dep \ {d}
  BY <1>1 DEF Inv, BusyOK
<1>6. Goroutines'
  BY <1>1, <1>2, <1>3, <1>4 DEF Solo, Goroutines
<1>7. Unspent'
  <2>1. "queued" \notin Running
    BY DEF Running
  <2> QED
    BY <1>1, <1>2, <1>5, <2>1 DEF Solo, Unspent, Busy
<1>8. Due'
  <2>1. rollouts[d].worker = 0
    BY <1>1 DEF Solo, Due
  <2> QED
    BY <1>1, <1>2, <1>4, <1>5, <2>1 DEF Solo, Due, Busy
<1>9. RetriesBounded' /\ RolloutsAccounted'
  <2>1. rollouts[d].worker = 0 /\ maxRetries \in Nat
    BY <1>1, QueueAssumption DEF Solo, Due
  <2> QED
    BY <1>1, <1>2, <2>1 DEF Solo, RetriesBounded, RolloutsAccounted
<1> QED
  BY <1>6, <1>7, <1>8, <1>9 DEF Solo

\* The reaper pays a retry for what it requeues, and finds no goroutine that could run it too.
LEMMA BootSolo == ASSUME OneProcess, Inv, Solo, NEW pr \in Proc, Boot(pr) PROVE Solo'
<1>1. /\ \A x \in Proc : work'[x].pc = "poll"
      /\ \A d \in Dep : lambda[d].pc = "none" /\ lambda'[d] = lambda[d] /\ rollouts'[d] = rollouts[d]
  BY BootMeans DEF OneProcess, Solo, Goroutines, Boot
<1>2. ASSUME NEW d \in Dep
      PROVE  /\ row'[d].status \in Running => row'[d].retries < maxRetries
             /\ row'[d].status = "none" => row[d].status = "none"
             /\ row'[d].status = "queued" => rollouts[d].worker <= row'[d].retries
             /\ row'[d].retries <= maxRetries /\ rollouts[d].worker <= 1 + row'[d].retries
  <2>1. row[d].retries \in Nat /\ rollouts[d].worker \in Nat /\ maxRetries \in Nat
    BY QueueAssumption DEF Inv, RowOK, RowType, CountOK, CountType
  <2>2. /\ row[d].status \in Running => row[d].retries < maxRetries
        /\ row[d].status = "queued" => rollouts[d].worker <= row[d].retries
        /\ row[d].retries <= maxRetries /\ rollouts[d].worker <= 1 + row[d].retries
    BY DEF Solo, Unspent, Due, RetriesBounded, RolloutsAccounted
  <2>3. CASE row'[d] = row[d]
    BY <2>2, <2>3
  <2>4. CASE /\ row[d].status \in Running /\ row'[d].status = "queued"
             /\ row'[d].retries = row[d].retries + 1
    <3>1. "queued" \notin Running
      BY DEF Running
    <3> QED
      BY <2>1, <2>2, <2>4, <3>1
  <2> QED
    BY <2>3, <2>4, BootMeans
<1>3. Goroutines'
  BY <1>1 DEF Goroutines
<1>4. Unspent'
  BY <1>1, <1>2 DEF Unspent
<1>5. Due'
  BY <1>1, <1>2 DEF Solo, Due
<1>6. RetriesBounded' /\ RolloutsAccounted'
  BY <1>1, <1>2 DEF RetriesBounded, RolloutsAccounted
<1> QED
  BY <1>3, <1>4, <1>5, <1>6 DEF Solo

\* Steps of the one worker that leave the counts and the goroutines alone.
LEMMA SoloWorker ==
    ASSUME OneProcess, Solo, NEW pr \in Proc, \A d \in Dep : Written(d), UNCHANGED <<rollouts, lambda>>, Placed(pr)
    PROVE  Solo'
<1>1. \A x \in Proc : Placed(x)
  BY DEF OneProcess
<1> QED
  BY <1>1, SoloStep

LEMMA IdlePlaced == ASSUME Inv, NEW pr \in Proc, Idle(pr) PROVE Placed(pr)
BY IdleMeans DEF Inv, Placed

LEMMA SelectSolo == ASSUME OneProcess, Inv, Solo, NEW pr \in Proc, NEW d \in Dep, Select(pr, d) PROVE Solo'
<1>1. Placed(pr)
  BY SelectMeans DEF Inv, Placed, Select
<1> QED
  BY <1>1, SameWritten, SoloWorker DEF Select

LEMMA CommitSolo == ASSUME OneProcess, Inv, Solo, NEW pr \in Proc, Commit(pr) PROVE Solo'
<1> DEFINE d == work[pr].dep
<1>1. d \in Dep /\ row[d].status = "queued" /\ rollouts[d].worker <= row[d].retries
  BY DEF Commit, Inv, BusyOK, Busy, Solo, Due
<1>2. CASE Idle(pr)
  <2>1. UNCHANGED row \/ row' = [row EXCEPT ![d].status = "failed"]
    BY DEF Commit, Broken
  <2>2. "failed" \in Status \ {"none", "queued"} /\ "failed" \notin Running
    BY StatusMeans DEF Running
  <2>3. \A x \in Dep : Written(x)
    BY <1>1, <2>1, <2>2, SameWritten, CancelledMeans, RowSetWritten DEF Inv
  <2> QED
    BY <1>2, <2>3, IdlePlaced, SoloWorker DEF Commit
<1>3. CASE ~Spent(row[d]) /\ To(pr, "picked") /\ UNCHANGED row
  <2>1. row[d].retries < maxRetries
    <3>1. row[d].retries \in Nat /\ maxRetries \in Nat
      BY <1>1, QueueAssumption DEF Inv, RowOK, RowType
    <3> QED
      BY <1>3, <3>1 DEF Spent
  <2>2. work'[pr].pc = "picked" /\ work'[pr].dep = d
    BY <1>3, ToMeans DEF Inv, WorkPc
  <2>3. Placed(pr)
    BY <1>1, <2>1, <2>2 DEF Placed
  <2> QED
    BY <1>3, <2>3, SameWritten, SoloWorker DEF Commit
<1> QED
  BY <1>2, <1>3 DEF Commit

\* A step of the one worker with its deployment, which writes a status or not.
LEMMA SoloGoesOn ==
    ASSUME OneProcess, Inv, Solo, NEW pr \in Proc, Busy(pr), NEW st \in Status \ {"none", "queued"},
           UNCHANGED row \/ UpdateStatus(work[pr].dep, st),
           st \in Running => row[work[pr].dep].retries < maxRetries, UNCHANGED <<rollouts, lambda>>,
           \/ Idle(pr)
           \/ To(pr, "failing")
           \/ To(pr, "building") /\ work[pr].pc = "picked"
           \/ To(pr, "deploying") /\ work[pr].pc = "building" /\ st = "deploying" /\ UpdateStatus(work[pr].dep, st)
    PROVE  Solo'
<1>1. work[pr].dep \in Dep /\ row[work[pr].dep].status # "none"
  BY DEF Inv, BusyOK
<1>2. \A x \in Dep : Written(x)
  BY <1>1, SameWritten, UpdateStatusMeans, RowSetWritten DEF Inv, OutsideOK
<1>3. CASE Idle(pr)
  BY <1>2, <1>3, IdlePlaced, SoloWorker
<1>4. CASE To(pr, "failing")
  <2>1. Placed(pr)
    BY <1>4, ToMeans DEF Inv, WorkPc, Placed
  <2> QED
    BY <1>2, <2>1, SoloWorker
<1>5. ASSUME NEW pc \in {"building", "deploying"}, To(pr, pc), work[pr].pc \in {"picked", "building"},
             pc = "deploying" => UpdateStatus(work[pr].dep, "deploying")
      PROVE  Solo'
  <2>1. work'[pr].pc = pc /\ work'[pr].dep = work[pr].dep
    BY <1>5, ToMeans DEF Inv, WorkPc
  <2>2. /\ rollouts[work[pr].dep].worker <= row[work[pr].dep].retries
        /\ row[work[pr].dep].retries < maxRetries
    BY <1>5 DEF Solo, Due, Unspent
  <2>3. pc = "deploying" => row'[work[pr].dep].status = "deploying"
    BY <1>1, <1>5, StatusMeans, UpdateStatusMeans DEF Inv, OutsideOK, RowSet
  <2>4. Placed(pr)
    BY <1>1, <2>1, <2>2, <2>3 DEF Placed
  <2> QED
    BY <1>2, <2>4, SoloWorker
<1> QED
  BY <1>3, <1>4, <1>5

LEMMA WorkerSolo ==
    ASSUME OneProcess, Inv, Solo, NEW pr \in Proc, StartBuild(pr) \/ EndBuild(pr) \/ Report(pr) \/ FailDeployment(pr)
    PROVE  Solo'
<1>0. {"building", "deploying", "success", "failed"} \subseteq Status \ {"none", "queued"} /\ {"success", "failed"} \cap Running = {}
  BY StatusMeans DEF Running
<1>1. CASE StartBuild(pr)
  <2>1. row[work[pr].dep].retries < maxRetries /\ Busy(pr)
    BY <1>1 DEF StartBuild, Solo, Unspent, Busy
  <2> QED
    BY <1>0, <1>1, <2>1, SoloGoesOn, BrokenMeans DEF StartBuild
<1>2. CASE EndBuild(pr)
  <2>1. row[work[pr].dep].retries < maxRetries /\ Busy(pr)
    BY <1>2 DEF EndBuild, Solo, Unspent, Busy
  <2> QED
    BY <1>0, <1>2, <2>1, SoloGoesOn, BrokenMeans DEF EndBuild
<1>3. CASE Report(pr)
  BY <1>0, <1>3, SoloGoesOn, BrokenMeans DEF Report, Busy
<1>4. CASE FailDeployment(pr)
  BY <1>0, <1>4, SoloGoesOn, BrokenMeans DEF FailDeployment, Busy
<1> QED
  BY <1>1, <1>2, <1>3, <1>4

\* The rollout itself: the one the last retry paid for.
LEMMA EndRolloutSolo == ASSUME OneProcess, Inv, Solo, NEW pr \in Proc, EndRollout(pr) PROVE Solo'
<1> DEFINE d == work[pr].dep
<1>0. d \in Dep /\ row[d].status # "none" /\ rollouts[d].worker <= row[d].retries /\ UNCHANGED <<row, lambda>> /\ Busy(pr)
  BY DEF EndRollout, Inv, BusyOK, Busy, Solo, Due
<1>1. CASE To(pr, "failing") /\ UNCHANGED rollouts
  <2>1. "failed" \in Status \ {"none", "queued"} /\ "failed" \notin Running
    BY StatusMeans DEF Running
  <2> QED
    BY <1>0, <1>1, <2>1, SoloGoesOn
<1>2. CASE To(pr, "reporting") /\ rollouts' = [rollouts EXCEPT ![d].worker = @ + 1]
  <2>1. /\ rollouts'[d].worker = rollouts[d].worker + 1 /\ \A x \in Dep \ {d} : rollouts'[x] = rollouts[x]
    BY <1>0, <1>2, RolloutMeans
  <2>2. \A x \in Proc : work'[x].pc = "reporting"
    BY <1>2, ToMeans DEF Inv, WorkPc, OneProcess
  <2>3. Goroutines' /\ Unspent' /\ RetriesBounded'
    BY <1>0, <2>2 DEF Solo, Goroutines, Unspent, RetriesBounded
  <2>4. rollouts[d].worker \in Nat /\ row[d].retries \in Nat
    BY <1>0 DEF Inv, RowOK, RowType, CountOK, CountType
  <2>5. RolloutsAccounted'
    BY <1>0, <2>1, <2>4 DEF Solo, RolloutsAccounted
  <2>6. row[d].status # "queued"
    BY DEF EndRollout, Solo, Due
  <2>7. Due'
    BY <1>0, <2>1, <2>2, <2>6 DEF Solo, Due
  <2> QED
    BY <2>3, <2>5, <2>7 DEF Solo
<1> QED
  BY <1>1, <1>2 DEF EndRollout

LEMMA GoneSolo ==
    ASSUME OneProcess, Inv, Solo, NEW pr \in Proc, work' = [work EXCEPT ![pr] = Down], lambda' = Orphaned(pr),
           UNCHANGED <<row, rollouts>>
    PROVE  Solo'
<1>1. work'[pr].pc = "down" /\ ~work'[pr].live
  BY DownMeans DEF Inv
<1>2. \A d \in Dep : lambda[d].proc = pr
  BY DEF Inv, LambdaOK, LambdaType, OneProcess
<1>3. \A d \in Dep : lambda'[d].pc = "none"
  BY <1>2, DownMeans DEF Inv
<1>4. \A x \in Proc : Placed(x)
  BY <1>1, <1>3 DEF OneProcess, Placed
<1> QED
  BY <1>3, <1>4, SameWritten, SoloStep

LEMMA ShutdownSolo == ASSUME Inv, Solo, NEW pr \in Proc, Shutdown(pr) PROVE Solo'
<1>1. \A x \in Proc : work'[x].pc = work[x].pc /\ work'[x].dep = work[x].dep /\ (work'[x].live => work[x].live)
  BY DEF Shutdown, Inv, WorkOK, WorkType
<1>2. \A x \in Proc : Placed(x)
  BY <1>1 DEF Shutdown, Placed, Solo, Goroutines, Unspent, Due, Inv, BusyOK, Busy
<1> QED
  BY <1>2, SameWritten, SoloStep DEF Shutdown

LEMMA SameSolo == ASSUME Inv, Solo, UNCHANGED <<row, work, lambda, rollouts>> PROVE Solo'
<1>1. \A x \in Proc : Placed(x)
  BY SameWritten, StillPlaced
<1> QED
  BY <1>1, SameWritten, SoloStep

LEMMA InitSolo == Init => Solo
<1> SUFFICES ASSUME Init PROVE Solo
  OBVIOUS
<1>1. /\ \A d \in Dep : row[d].status = "none" /\ row[d].retries = 0 /\ lambda[d].pc = "none" /\ rollouts[d].worker = 0
      /\ \A pr \in Proc : work[pr].pc = "down" /\ ~work[pr].live
  BY DEF Init, NoRow, Down, NoLambda
<1>2. maxRetries \in Nat /\ "none" \notin Running
  BY QueueAssumption DEF Running
<1> QED
  BY <1>1, <1>2 DEF Solo, Goroutines, Unspent, Due, RetriesBounded, RolloutsAccounted

LEMMA NextSolo == OneProcess /\ Inv /\ Solo /\ [Next]_vars => Solo'
<1> SUFFICES ASSUME OneProcess, Inv, Solo, [Next]_vars PROVE Solo'
  OBVIOUS
<1>0. CASE UNCHANGED vars
  BY <1>0, SameSolo DEF vars
<1>1. ASSUME NEW pr \in Proc, Worker(pr) PROVE Solo'
  <2>1. CASE Exit(pr)
    BY <2>1, GoneSolo DEF Exit
  <2> QED
    BY <1>0, <1>1, <2>1, BootSolo, SelectSolo, CommitSolo, WorkerSolo, EndRolloutSolo DEF Worker, Poll
<1>2. CASE Api
  <2>1. Kind \subseteq {"lambda", "docker"}
    BY QueueAssumption
  <2>2. ASSUME NEW pr \in Proc, NEW d \in Dep, NEW target \in Dep, Rollback(pr, target, d) PROVE Solo'
    <3>1. PICK kind \in {"lambda", "docker"} : kind = row[target].kind
      BY KindOK
    <3> QED
      BY <2>2, <3>1, CreateSolo DEF Rollback
  <2>3. ASSUME NEW d \in Dep, CancelCheck(d) PROVE Solo'
    BY <2>3, SameSolo DEF CancelCheck
  <2> QED
    BY <1>2, <2>1, <2>2, <2>3, CreateSolo, CancelSolo, LambdaStartSolo, LambdaEndSolo DEF Api
<1>3. ASSUME NEW pr \in Proc, Crash(pr) PROVE Solo'
  BY <1>3, GoneSolo DEF Crash
<1>4. CASE Tock
  BY <1>4, SameSolo DEF Tock
<1> QED
  BY <1>0, <1>1, <1>2, <1>3, <1>4, ShutdownSolo DEF Next

\* With one process no deployment is requeued more than maxRetries times, whatever
\* crashes and whatever the Lambda goroutine writes over the worker's status.
THEOREM RetriesAreBounded == ASSUME OneProcess PROVE Spec => []RetriesBounded
<1>1. Inv /\ Solo /\ [Next]_vars => Solo'
  BY NextSolo
<1>2. Solo => RetriesBounded
  BY DEF Solo
<1> QED
  BY <1>1, <1>2, InitSolo, InvAlways, PTL DEF Spec

\* With one process every rollout of a deployment but the first was paid for by a
\* retry, through lost status writes, crashes and cancellations.
THEOREM RolloutsAreAccounted == ASSUME OneProcess PROVE Spec => []RolloutsAccounted
<1>1. Inv /\ Solo /\ [Next]_vars => Solo'
  BY NextSolo
<1>2. Solo => RolloutsAccounted
  BY DEF Solo
<1> QED
  BY <1>1, <1>2, InitSolo, InvAlways, PTL DEF Spec
=============================================================================

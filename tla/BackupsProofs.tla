--------------------------- MODULE BackupsProofs ---------------------------
(***************************************************************************)
(* Theorems about Backups, for any number of processes, runs, writes of    *)
(* the application and faults: types, and that retention never deletes     *)
(* the last intact snapshot of a source; for one process, that a restore   *)
(* puts exactly the snapshot into the volume.                              *)
(***************************************************************************)
EXTENDS Backups, TLAPS

Kinds == {"backup", "verify", "restore"}
Statuses == {"none", "running", "success", "failed"}
Phases == {"none", "out", "in", "done"}
Waiting == {"idle", "claimed", "acquire"}
Storing == {"begin", "database", "volume", "record", "judge"}
Retaining == {"retain", "sweep", "mark"}
Restoring == {"check", "load", "extract", "ps", "stop", "swap", "swapping", "rollback", "restart"}
Pcs == Waiting \cup Storing \cup Retaining \cup Restoring \cup {"verify", "finish"}

JobType ==
    [pc : Pcs, by : Proc \cup {NoProc}, inc : SUBSET Data, done : SUBSET (Data \cup {"manifest"}), src : Data,
     try : 0..1, skipped : SUBSET Data, stored : BOOLEAN, err : BOOLEAN, ended : BOOLEAN,
     pick : Snapshot \cup {NoSnapshot}, list : SUBSET Snapshot, stopped : BOOLEAN, keep : BOOLEAN]

StageType == [new : Content, old : Content, made : BOOLEAN, phase : Phases, left : Content]

\* What a goroutine is about, at each of its stages.
JobOK(r) ==
    /\ job[r].pc # "idle" => job[r].by \in Proc /\ row[r].status # "none" /\ r \notin aged
    /\ row[r].status = "none" => r \notin aged
    /\ job[r].pc \in Storing \cup Retaining => row[r].kind = "backup"
    /\ job[r].pc \in Restoring => row[r].kind = "restore"
    /\ job[r].pc = "verify" => row[r].kind = "verify"
    /\ job[r].pc # "idle" /\ row[r].kind = "restore" => job[r].pick \in Snapshot
    /\ job[r].pc = "record" => obj[<<r, job[r].src>>] \in Content
    /\ job[r].pc = "mark" => job[r].pick \in job[r].list
    /\ \A sn \in job[r].list : sn.run \in aged

Types ==
    /\ up \subseteq Proc /\ closing \subseteq up
    /\ row \in [Run -> [kind : Kinds, status : Statuses]]
    /\ job \in [Run -> JobType]
    /\ snap \subseteq Snapshot
    /\ obj \in [Run \X Data -> Content \cup {NoObject}]
    /\ live \in [Data -> Content]
    /\ stage \in [Run -> StageType]
    /\ aged \subseteq Run /\ hollow \subseteq Data /\ apps \in {"running", "stopped"}
    /\ writes \in 0..MaxWrites /\ truth \in Content /\ torn \in BOOLEAN

TypeInv == Types /\ \A r \in Run : JobOK(r)

-----------------------------------------------------------------------------
(* Retention. *)

\* r has an intact snapshot of s.
Has(r, s) == \E sn \in snap : sn.run = r /\ sn.src = s /\ Intact(sn)

\* r passed judge without an error.
Judged(r) == job[r].pc \in Retaining \/ (job[r].pc = "finish" /\ ~job[r].err /\ row[r].kind = "backup")

\* What a backup counts as done and not as skipped it has; without an error all it came past is one or the other.
Stored(r) ==
    /\ job[r].pc # "idle" => \A s \in Data : s \in job[r].done \ job[r].skipped => Has(r, s)
    /\ job[r].pc = "volume" \/ (job[r].pc = "record" /\ job[r].src = "volume") =>
          job[r].err \/ "database" \notin job[r].inc \ (job[r].done \cup job[r].skipped)
    /\ job[r].pc = "record" => job[r].src \notin job[r].done
    /\ job[r].pc = "judge" => job[r].err \/ job[r].inc \subseteq job[r].done \cup job[r].skipped
    /\ Judged(r) => Data \ hollow \subseteq job[r].done \ job[r].skipped

\* sn cannot be overwritten nor swept by anyone who sweeps now.
Safe(sn) ==
    /\ Intact(sn) /\ row[sn.run].status # "none"
    /\ job[sn.run].pc = "idle" \/ sn.src \in job[sn.run].done
    /\ \A q \in Run : \A t \in job[q].list : t.run # sn.run

Succeeded(r) == row[r].kind = "backup" /\ row[r].status = "success"

Keeper ==
    (\E r \in Run : Succeeded(r)) => \A s \in Data \ hollow : \E sn \in snap : sn.src = s /\ Safe(sn)

Retention == TypeInv /\ (\A r \in Run : Stored(r)) /\ Keeper

-----------------------------------------------------------------------------
(* Restores, for one process. *)

OneProcess == \A p, q \in Proc : p = q

\* The goroutines that do not hold the slot of the process.
Resting == Waiting \cup {"finish"}

OneAtWork == \A q, r \in Run : q = r \/ job[q].pc \in Resting \/ job[r].pc \in Resting

\* No two versions of one file.
Single(c) == \A x, y \in c : x[2] = y[2] => x = y

ContentsSingle ==
    /\ Single(truth)
    /\ \A sn \in snap : sn.src = "volume" => Single(sn.sum)
    /\ \A r \in Run : job[r].pc = "record" /\ job[r].src = "volume" => Single(obj[<<r, "volume">>])
    /\ \A r \in Run : job[r].pc # "idle" /\ row[r].kind = "restore" /\ job[r].pick.src = "volume" => Single(job[r].pick.sum)

\* The script of r is as far as its phase says.
ScriptAt(r) ==
    /\ stage[r].phase \in {"out", "in", "done"}
    /\ stage[r].phase = "out" => stage[r].new = job[r].pick.sum
    /\ stage[r].phase = "in" => live["volume"] \cup stage[r].new = job[r].pick.sum
    /\ stage[r].phase = "done" => live["volume"] = job[r].pick.sum

RestoreOK(r) ==
    /\ job[r].pc \in {"load", "extract"} => Intact(job[r].pick)
    /\ job[r].pc \in {"extract", "ps", "stop", "swap", "swapping"} => job[r].pick.src = "volume"
    /\ job[r].pc \in {"ps", "stop", "swap"} => stage[r].new = job[r].pick.sum
    /\ job[r].pc \in {"swap", "swapping"} => apps = "stopped"
    /\ job[r].pc # "rollback"
    /\ stage[r].left = {}
    /\ stage[r].phase \in {"out", "in"} => job[r].pc = "swapping"
    /\ job[r].pc = "swapping" => ScriptAt(r)

VolumeOK == ~torn => ContentsSingle /\ (\A r \in Run : RestoreOK(r)) /\ LiveIsWhole

Restores == TypeInv /\ OneAtWork /\ VolumeOK

-----------------------------------------------------------------------------
(* Types. *)

LEMMA WholeContent == ASSUME NEW v \in 0..MaxWrites PROVE Whole(v) \in Content
BY DEF Whole, Content

LEMMA IdleType == Idle \in JobType
BY DEF Idle, JobType, Pcs, Waiting, Data

LEMMA NoStageType == NoStage \in StageType
BY DEF NoStage, StageType, Phases, Content

LEMMA InitTypes == Init => TypeInv
<1> SUFFICES ASSUME Init PROVE TypeInv
  OBVIOUS
<1>1. MaxWrites \in Nat /\ 0 \in 0..MaxWrites
  BY BackupsAssumption
<1>2. Types
  BY <1>1, WholeContent, IdleType, NoStageType DEF Init, Types, Kinds, Statuses
<1>3. ASSUME NEW r \in Run PROVE JobOK(r)
  BY <1>3 DEF Init, JobOK, Idle, Storing, Retaining, Restoring
<1> QED BY <1>2, <1>3 DEF TypeInv

LEMMA StepAt ==
    ASSUME Types, NEW r \in Run, NEW j, Step(r, j)
    PROVE  /\ job'[r] = j /\ \A q \in Run \ {r} : job'[q] = job[q]
           /\ j \in JobType => job' \in [Run -> JobType]
BY DEF Step, Types

\* What a job does to the others: nothing to those that are not old.
Local(r) ==
    /\ \A q \in Run \ {r} : job'[q] = job[q] /\ row'[q] = row[q]
    /\ UNCHANGED aged /\ hollow \subseteq hollow'
    /\ \A q \in Run \ {r} : q \notin aged =>
          /\ \A s \in Data : obj'[<<q, s>>] = obj[<<q, s>>]
          /\ \A sn \in snap : sn.run = q => sn \in snap'

LEMMA JobFields ==
    ASSUME NEW j \in JobType
    PROVE  /\ j.pc \in Pcs /\ j.by \in Proc \cup {NoProc} /\ j.inc \subseteq Data
           /\ j.done \subseteq Data \cup {"manifest"} /\ j.src \in Data /\ j.try \in 0..1 /\ j.skipped \subseteq Data
           /\ j.stored \in BOOLEAN /\ j.err \in BOOLEAN /\ j.ended \in BOOLEAN
           /\ j.pick \in Snapshot \cup {NoSnapshot} /\ j.list \subseteq Snapshot
           /\ j.stopped \in BOOLEAN /\ j.keep \in BOOLEAN
BY DEF JobType

LEMMA LocalOthers ==
    ASSUME TypeInv, NEW r \in Run, Local(r)
    PROVE  \A q \in Run \ {r} : JobOK(q)'
<1> SUFFICES ASSUME NEW q \in Run \ {r} PROVE JobOK(q)'
  OBVIOUS
<1>1. JobOK(q) /\ job'[q] = job[q] /\ row'[q] = row[q] /\ aged' = aged /\ job[q].src \in Data
  BY JobFields DEF TypeInv, Types, Local
<1>2. job[q].pc = "record" => obj'[<<q, job[q].src>>] = obj[<<q, job[q].src>>]
  BY <1>1 DEF Local, JobOK
<1> QED BY <1>1, <1>2 DEF JobOK

\* The steps a goroutine makes from one stage to the next.
LEMMA Moved ==
    ASSUME NEW j \in JobType, NEW pc \in Pcs, NEW e \in BOOLEAN
    PROVE  /\ [j EXCEPT !.pc = pc] \in JobType
           /\ [j EXCEPT !.pc = pc, !.err = e] \in JobType
           /\ [j EXCEPT !.ended = TRUE] \in JobType
BY DEF JobType

-----------------------------------------------------------------------------
(* Types: one lemma per action. *)

LEMMA BootTypes == ASSUME TypeInv, NEW p \in Proc, Boot(p) PROVE TypeInv'
<1>1. Types /\ \A r \in Run : row[r] \in [kind : Kinds, status : Statuses]
  BY DEF TypeInv, Types
<1>2. /\ row' \in [Run -> [kind : Kinds, status : Statuses]]
      /\ \A r \in Run : row'[r].kind = row[r].kind /\ (row'[r].status = "none" <=> row[r].status = "none")
  <2>1. CASE row' = FailOrphans
    BY <1>1, <2>1 DEF FailOrphans, Statuses
  <2>2. CASE UNCHANGED row
    BY <1>1, <2>2 DEF Types
  <2> QED BY <2>1, <2>2 DEF Boot
<1>3. UNCHANGED <<closing, job, store, data, truth, hollow, torn>>
  BY DEF Boot
<1>4. Types'
  BY <1>1, <1>2, <1>3 DEF Types, Boot, store, data
<1>5. ASSUME NEW r \in Run PROVE JobOK(r)'
  BY <1>2, <1>3 DEF TypeInv, JobOK, store
<1> QED BY <1>4, <1>5 DEF TypeInv

LEMMA DieTypes == ASSUME TypeInv, NEW p \in Proc, Die(p) PROVE TypeInv'
<1>1. UNCHANGED <<row, store, data, truth, hollow>>
  BY DEF Die
<1>2. \A r \in Run : job'[r] = Idle \/ job'[r] = job[r]
  BY DEF Die
<1>3. job' \in [Run -> JobType]
  BY IdleType DEF Die, TypeInv, Types
<1>4. torn' \in BOOLEAN
  BY DEF Die
<1>5. Types'
  BY <1>1, <1>3, <1>4 DEF TypeInv, Types, Die, store, data
<1>6. ASSUME NEW r \in Run PROVE JobOK(r)'
  <2>1. JobOK(r)
    BY DEF TypeInv
  <2>2. CASE job'[r] = job[r]
    BY <1>1, <2>1, <2>2 DEF JobOK, store
  <2>3. CASE job'[r] = Idle
    BY <1>1, <2>1, <2>3 DEF JobOK, store, Idle, Storing, Retaining, Restoring
  <2> QED BY <1>2, <2>2, <2>3
<1> QED BY <1>5, <1>6 DEF TypeInv

LEMMA EndedTypes ==
    ASSUME TypeInv, UNCHANGED <<row, store, data, history>>, up' \subseteq Proc, closing' \subseteq up',
           job' \in [Run -> JobType],
           \A r \in Run : job'[r] = job[r] \/ job'[r] = [job[r] EXCEPT !.ended = TRUE]
    PROVE  TypeInv'
<1>1. Types'
  BY DEF TypeInv, Types, store, data, history
<1>2. ASSUME NEW r \in Run PROVE JobOK(r)'
  <2>1. /\ job'[r].pc = job[r].pc /\ job'[r].by = job[r].by /\ job'[r].pick = job[r].pick
        /\ job'[r].list = job[r].list /\ job'[r].src = job[r].src
    BY DEF TypeInv, Types, JobType
  <2> QED BY <2>1 DEF TypeInv, JobOK, store
<1> QED BY <1>1, <1>2 DEF TypeInv

LEMMA ShutdownTypes == ASSUME TypeInv, NEW p \in Proc, Shutdown(p) PROVE TypeInv'
<1>1. job' \in [Run -> JobType]
  <2>1. \A r \in Run : job[r] \in JobType
    BY DEF TypeInv, Types
  <2>2. \A r \in Run : [job[r] EXCEPT !.ended = TRUE] \in JobType
    BY <2>1 DEF JobType
  <2> QED BY <2>1, <2>2 DEF Shutdown
<1>2. \A r \in Run : job'[r] = job[r] \/ job'[r] = [job[r] EXCEPT !.ended = TRUE]
  BY DEF Shutdown
<1> QED BY <1>1, <1>2, EndedTypes DEF Shutdown, TypeInv, Types

LEMMA TimeoutTypes == ASSUME TypeInv, NEW r \in Run, Timeout(r) PROVE TypeInv'
<1>1. Types /\ job[r] \in JobType
  BY DEF TypeInv, Types
<1>2. [job[r] EXCEPT !.ended = TRUE] \in JobType
  BY <1>1, Moved DEF Pcs
<1>3. job' \in [Run -> JobType] /\ \A q \in Run : job'[q] = job[q] \/ job'[q] = [job[q] EXCEPT !.ended = TRUE]
  BY <1>1, <1>2, StepAt DEF Timeout
<1> QED BY <1>3, EndedTypes DEF Timeout, TypeInv, Types

LEMMA InsertTypes ==
    ASSUME TypeInv, NEW p \in Proc, NEW r \in Run, NEW kind \in Kinds, NEW j \in JobType, Insert(p, r, kind, j),
           j.pc \in {"claimed", "acquire"}, kind = "restore" => j.pick \in Snapshot, j.list = {}
    PROVE  TypeInv'
<1>1. Types
  BY DEF TypeInv
<1> DEFINE n == [j EXCEPT !.by = p]
<1>2. n \in JobType /\ n.pc = j.pc /\ n.by = p /\ n.pick = j.pick /\ n.list = {}
  BY DEF JobType
<1>3. Step(r, n)
  BY DEF Insert
<1> HIDE DEF n
<1>4. job'[r] = n /\ job' \in [Run -> JobType] /\ \A q \in Run \ {r} : job'[q] = job[q]
  BY <1>1, <1>2, <1>3, StepAt
<1>5. /\ row' \in [Run -> [kind : Kinds, status : Statuses]]
      /\ row'[r].kind = kind /\ row'[r].status = "running" /\ \A q \in Run \ {r} : row'[q] = row[q]
  BY <1>1 DEF Insert, Types, Statuses
<1>6. UNCHANGED <<up, closing, store, data, history>>
  BY DEF Insert
<1>7. Types'
  BY <1>1, <1>4, <1>5, <1>6 DEF Types, store, data, history
<1>8. r \notin aged
  BY DEF TypeInv, JobOK, Insert
<1>9. JobOK(r)'
  BY <1>2, <1>4, <1>5, <1>6, <1>8 DEF JobOK, store, Storing, Retaining, Restoring
<1>10. ASSUME NEW q \in Run \ {r} PROVE JobOK(q)'
  BY <1>4, <1>5, <1>6 DEF TypeInv, JobOK, store
<1> QED BY <1>7, <1>9, <1>10 DEF TypeInv

LEMMA IdleList == Idle.list = {} /\ Idle.pc = "idle" /\ Idle.done = {} /\ ~Idle.stopped
BY DEF Idle

LEMMA StartTypes ==
    ASSUME TypeInv, NEW p \in Proc, NEW r \in Run,
           StartBackup(p, r) \/ StartVerify(p, r) \/ StartRestore(p, r) \/ ClaimDue(p, r)
    PROVE  TypeInv'
<1>1. ASSUME NEW inc \in Includes, Insert(p, r, "backup", [Idle EXCEPT !.pc = "acquire", !.inc = inc]) PROVE TypeInv'
  <2>1. inc \subseteq Data
    BY BackupsAssumption
  <2> DEFINE j == [Idle EXCEPT !.pc = "acquire", !.inc = inc]
  <2>2. j \in JobType /\ j.pc = "acquire" /\ j.list = {}
    BY <2>1, IdleType, IdleList DEF JobType, Pcs, Waiting
  <2>3. Insert(p, r, "backup", j)
    BY <1>1
  <2> HIDE DEF j
  <2> QED BY <2>2, <2>3, InsertTypes DEF Kinds
<1>2. ASSUME Insert(p, r, "verify", [Idle EXCEPT !.pc = "acquire"]) PROVE TypeInv'
  <2> DEFINE j == [Idle EXCEPT !.pc = "acquire"]
  <2>2. j \in JobType /\ j.pc = "acquire" /\ j.list = {}
    BY IdleType, IdleList DEF JobType, Pcs, Waiting
  <2>3. Insert(p, r, "verify", j)
    BY <1>2
  <2> HIDE DEF j
  <2> QED BY <2>2, <2>3, InsertTypes DEF Kinds
<1>3. ASSUME NEW sn \in snap, Insert(p, r, "restore", [Idle EXCEPT !.pc = "acquire", !.pick = sn]) PROVE TypeInv'
  <2>1. sn \in Snapshot
    BY DEF TypeInv, Types
  <2> DEFINE j == [Idle EXCEPT !.pc = "acquire", !.pick = sn]
  <2>2. j \in JobType /\ j.pc = "acquire" /\ j.list = {} /\ j.pick = sn
    BY <2>1, IdleType, IdleList DEF JobType, Pcs, Waiting
  <2>3. Insert(p, r, "restore", j)
    BY <1>3
  <2> HIDE DEF j
  <2> QED BY <2>1, <2>2, <2>3, InsertTypes DEF Kinds
<1>4. ASSUME Insert(p, r, "backup", [Idle EXCEPT !.pc = "claimed"]) PROVE TypeInv'
  <2> DEFINE j == [Idle EXCEPT !.pc = "claimed"]
  <2>2. j \in JobType /\ j.pc = "claimed" /\ j.list = {}
    BY IdleType, IdleList DEF JobType, Pcs, Waiting
  <2>3. Insert(p, r, "backup", j)
    BY <1>4
  <2> HIDE DEF j
  <2> QED BY <2>2, <2>3, InsertTypes DEF Kinds
<1> QED BY <1>1, <1>2, <1>3, <1>4 DEF StartBackup, StartVerify, StartRestore, ClaimDue

\* j and k differ at most in where they are and how they fare.
Like(j, k) ==
    /\ j.by = k.by /\ j.inc = k.inc /\ j.done = k.done /\ j.src = k.src /\ j.try = k.try /\ j.skipped = k.skipped
    /\ j.pick = k.pick /\ j.list = k.list /\ j.stopped = k.stopped /\ j.keep = k.keep

\* Only the goroutine of r moves.
Moves(r) == job' \in [Run -> JobType] /\ \A q \in Run \ {r} : job'[q] = job[q]

LEMMA GotoJob ==
    ASSUME Types, NEW r \in Run, NEW pc \in Pcs, Goto(r, pc)
    PROVE  Moves(r) /\ Like(job'[r], job[r]) /\ job'[r].pc = pc /\ job'[r].err = job[r].err
<1> DEFINE j == [job[r] EXCEPT !.pc = pc]
<1>1. job[r] \in JobType
  BY DEF Types
<1>2. j \in JobType /\ Like(j, job[r]) /\ j.pc = pc /\ j.err = job[r].err
  BY <1>1 DEF JobType, Like
<1>3. Step(r, j)
  BY DEF Goto
<1> HIDE DEF j
<1> QED BY <1>2, <1>3, StepAt DEF Moves

LEMMA FailJob ==
    ASSUME Types, NEW r \in Run, NEW pc \in Pcs, Fail(r, pc)
    PROVE  Moves(r) /\ Like(job'[r], job[r]) /\ job'[r].pc = pc /\ job'[r].err
<1> DEFINE j == [job[r] EXCEPT !.pc = pc, !.err = TRUE]
<1>1. job[r] \in JobType
  BY DEF Types
<1>2. j \in JobType /\ Like(j, job[r]) /\ j.pc = pc /\ j.err
  BY <1>1 DEF JobType, Like
<1>3. Step(r, j)
  BY DEF Fail
<1> HIDE DEF j
<1> QED BY <1>2, <1>3, StepAt DEF Moves

LEMMA IdleJob ==
    ASSUME Types, NEW r \in Run, Step(r, Idle)
    PROVE  Moves(r) /\ job'[r] = Idle
BY IdleType, StepAt DEF Moves

\* The goroutine of r goes on.
LEMMA GoesOn ==
    ASSUME TypeInv, NEW r \in Run, job[r].pc # "idle", job'[r].by = job[r].by, UNCHANGED <<row, aged>>,
           row[r].kind = "restore" => job'[r].pick = job[r].pick,
           job'[r].pc \in Storing \cup Retaining => row[r].kind = "backup",
           job'[r].pc \in Restoring => row[r].kind = "restore",
           job'[r].pc = "verify" => row[r].kind = "verify",
           job'[r].pc = "record" => obj'[<<r, job'[r].src>>] \in Content,
           job'[r].pc = "mark" => job'[r].pick \in job'[r].list,
           \A sn \in job'[r].list : sn.run \in aged
    PROVE  JobOK(r)'
BY DEF TypeInv, JobOK

LEMMA LocalTypes ==
    ASSUME TypeInv, NEW r \in Run, Types', JobOK(r)', Local(r)
    PROVE  TypeInv'
BY LocalOthers DEF TypeInv

\* A step that only moves the goroutine of r.
LEMMA MovesOnly ==
    ASSUME TypeInv, NEW r \in Run, Moves(r), UNCHANGED <<row, store, data, truth, torn>>, up' = up, closing' = closing,
           hollow \subseteq hollow', hollow' \subseteq Data
    PROVE  Types' /\ Local(r)
BY DEF TypeInv, Types, Local, Moves, store, data

LEMMA AtFacts ==
    ASSUME TypeInv, NEW r \in Run, NEW pc, At(r, pc)
    PROVE  /\ Types /\ JobOK(r) /\ job[r].pc = pc /\ job[r] \in JobType
           /\ row[r].kind \in Kinds /\ row[r].status \in Statuses
BY DEF TypeInv, Types, At

LEMMA TickExecuteTypes == ASSUME TypeInv, NEW r \in Run, TickExecute(r) PROVE TypeInv' /\ Local(r)
<1>1. Types /\ JobOK(r) /\ job[r].pc = "claimed" /\ job[r] \in JobType
  BY AtFacts DEF TickExecute
<1>2. UNCHANGED <<up, closing, store, data, truth, hollow, torn>>
  BY DEF TickExecute
<1>3. ASSUME NEW inc \in Includes, Step(r, [job[r] EXCEPT !.pc = "acquire", !.inc = inc]), UNCHANGED row
      PROVE  TypeInv' /\ Local(r)
  <2> DEFINE j == [job[r] EXCEPT !.pc = "acquire", !.inc = inc]
  <2>1. j \in JobType /\ j.pc = "acquire" /\ j.by = job[r].by /\ j.pick = job[r].pick /\ j.list = job[r].list
    BY <1>1, BackupsAssumption DEF JobType, Pcs, Waiting
  <2>2. Step(r, j)
    BY <1>3
  <2> HIDE DEF j
  <2>3. Moves(r) /\ job'[r] = j
    BY <1>1, <2>1, <2>2, StepAt DEF Moves
  <2>4. Types' /\ Local(r)
    BY <1>2, <1>3, <2>3, MovesOnly DEF TypeInv, Types
  <2>5. JobOK(r)'
    BY <1>1, <1>2, <1>3, <2>1, <2>3, GoesOn DEF JobOK, Storing, Retaining, Restoring, store
  <2> QED BY <2>4, <2>5, LocalTypes
<1>4. ASSUME Step(r, Idle), UNCHANGED row \/ FinishRun(r, "failed") PROVE TypeInv' /\ Local(r)
  <2>1. Moves(r) /\ job'[r] = Idle
    BY <1>1, <1>4, IdleJob
  <2>2. /\ row' \in [Run -> [kind : Kinds, status : Statuses]] /\ \A q \in Run \ {r} : row'[q] = row[q]
        /\ row'[r].status = "none" => row[r].status = "none"
    BY <1>1, <1>4 DEF Types, FinishRun, Statuses
  <2>3. Types' /\ Local(r)
    BY <1>1, <1>2, <2>1, <2>2 DEF Types, Local, Moves, store, data
  <2>4. JobOK(r)'
    BY <1>1, <1>2, <2>1, <2>2 DEF JobOK, Idle, Storing, Retaining, Restoring, store
  <2> QED BY <2>3, <2>4, LocalTypes
<1> QED BY <1>3, <1>4 DEF TickExecute

LEMMA AcquireTypes == ASSUME TypeInv, NEW r \in Run, Acquire(r) PROVE TypeInv' /\ Local(r)
<1>1. Types /\ JobOK(r) /\ job[r].pc = "acquire" /\ job[r] \in JobType /\ row[r].kind \in Kinds
  BY AtFacts DEF Acquire
<1>2. UNCHANGED <<up, closing, row, store, data, truth, hollow, torn>>
  BY DEF Acquire, history
<1>3. /\ Moves(r) /\ Like(job'[r], job[r])
      /\ \/ job'[r].pc = "begin" /\ row[r].kind = "backup"
         \/ job'[r].pc = "verify" /\ row[r].kind = "verify"
         \/ job'[r].pc = "check" /\ row[r].kind = "restore"
         \/ job'[r].pc = "finish" /\ job'[r].err
  <2>1. CASE Fail(r, "finish")
    BY <1>1, <2>1, FailJob DEF Pcs
  <2>2. CASE row[r].kind = "backup" /\ Goto(r, "begin")
    BY <1>1, <2>2, GotoJob DEF Pcs, Storing
  <2>3. CASE row[r].kind = "verify" /\ Goto(r, "verify")
    BY <1>1, <2>3, GotoJob DEF Pcs
  <2>4. CASE row[r].kind = "restore" /\ Goto(r, "check")
    BY <1>1, <2>4, GotoJob DEF Pcs, Restoring
  <2> QED BY <1>1, <2>1, <2>2, <2>3, <2>4 DEF Acquire, Kinds
<1>4. Types' /\ Local(r)
  BY <1>2, <1>3, MovesOnly DEF TypeInv, Types
<1>5. JobOK(r)'
  BY <1>1, <1>2, <1>3, GoesOn DEF JobOK, Like, Storing, Retaining, Restoring, store
<1> QED BY <1>4, <1>5, LocalTypes

LEMMA FinishTypes == ASSUME TypeInv, NEW r \in Run, Finish(r) PROVE TypeInv' /\ Local(r)
<1>1. Types /\ JobOK(r) /\ job[r].pc = "finish"
  BY AtFacts DEF Finish
<1>2. UNCHANGED <<up, closing, store, data, truth, hollow, torn>>
  BY DEF Finish
<1>3. Moves(r) /\ job'[r] = Idle
  BY <1>1, IdleJob DEF Finish
<1>4. /\ row' \in [Run -> [kind : Kinds, status : Statuses]] /\ \A q \in Run \ {r} : row'[q] = row[q]
      /\ row'[r].status = "none" => row[r].status = "none"
  BY <1>1 DEF Types, Finish, FinishRun, Statuses
<1>5. Types' /\ Local(r)
  BY <1>1, <1>2, <1>3, <1>4 DEF Types, Local, Moves, store, data
<1>6. JobOK(r)'
  BY <1>1, <1>2, <1>3, <1>4 DEF JobOK, Idle, Storing, Retaining, Restoring, store
<1> QED BY <1>5, <1>6, LocalTypes

-----------------------------------------------------------------------------
(* What the steps of a backup do to its goroutine. *)

Akin(j, k) == j.by = k.by /\ j.inc = k.inc /\ j.pick = k.pick /\ j.list = k.list

LEMMA LikeAkin == ASSUME NEW j, NEW k, Like(j, k) PROVE Akin(j, k)
BY DEF Like, Akin

LEMMA BeginJob ==
    ASSUME TypeInv, NEW r \in Run, Begin(r)
    PROVE  /\ Moves(r) /\ Akin(job'[r], job[r]) /\ job'[r].skipped = job[r].skipped
           /\ job[r].done \subseteq job'[r].done /\ job'[r].done \subseteq job[r].done \cup {"manifest"}
           /\ job'[r].pc = "database" \/ (job'[r].pc = "judge" /\ job'[r].err)
<1>1. Types /\ job[r] \in JobType /\ {"database", "judge"} \subseteq Pcs
  BY AtFacts DEF Begin, Pcs, Storing
<1>2. ASSUME Step(r, [job[r] EXCEPT !.pc = "database", !.err = FALSE, !.done = @ \cup {"manifest"}])
      PROVE  /\ Moves(r) /\ Akin(job'[r], job[r]) /\ job'[r].skipped = job[r].skipped
             /\ job'[r].done = job[r].done \cup {"manifest"} /\ job'[r].pc = "database"
  <2> DEFINE j == [job[r] EXCEPT !.pc = "database", !.err = FALSE, !.done = @ \cup {"manifest"}]
  <2>1. /\ j \in JobType /\ Akin(j, job[r]) /\ j.skipped = job[r].skipped
        /\ j.done = job[r].done \cup {"manifest"} /\ j.pc = "database"
    BY <1>1 DEF JobType, Akin
  <2>2. Step(r, j)
    BY <1>2
  <2> HIDE DEF j
  <2> QED BY <1>1, <2>1, <2>2, StepAt DEF Moves
<1>3. ASSUME NEW pc \in {"database", "judge"}, Fail(r, pc)
      PROVE  /\ Moves(r) /\ Akin(job'[r], job[r]) /\ job'[r].skipped = job[r].skipped
             /\ job'[r].done = job[r].done /\ job'[r].pc = pc /\ job'[r].err
  BY <1>1, <1>3, FailJob, LikeAkin DEF Like
<1> QED BY <1>2, <1>3 DEF Begin

LEMMA UploadJob ==
    ASSUME TypeInv, NEW r \in Run, NEW s \in Data, Upload(r, s)
    PROVE  /\ Moves(r) /\ Akin(job'[r], job[r])
           /\ \/ /\ UNCHANGED obj /\ job'[r].pc = After(s)
                 /\ \/ s \notin job[r].inc \ job[r].done /\ Like(job'[r], job[r]) /\ job'[r].err = job[r].err
                    \/ /\ job'[r].done \in {job[r].done, job[r].done \cup {s}} /\ job'[r].skipped = job[r].skipped \cup {s}
                       /\ job'[r].err = job[r].err
              \/ /\ job'[r].pc = After(s) /\ Like(job'[r], job[r]) /\ job'[r].err
                 /\ UNCHANGED obj \/ (s \notin job[r].done /\ obj' = [obj EXCEPT ![<<r, s>>] = live[s]])
              \/ /\ job'[r].pc = "record" /\ job'[r].src = s /\ s \notin job[r].done
                 /\ job'[r].done = job[r].done /\ job'[r].skipped = job[r].skipped /\ job'[r].err = job[r].err
                 /\ obj' = [obj EXCEPT ![<<r, s>>] = live[s]]
<1>1. Types /\ job[r] \in JobType /\ After(s) \in Pcs
  BY AtFacts DEF Upload, Pcs, Storing, After
<1>2. ASSUME Goto(r, After(s)) PROVE Moves(r) /\ Like(job'[r], job[r]) /\ job'[r].err = job[r].err /\ job'[r].pc = After(s)
  BY <1>1, <1>2, GotoJob
<1>3. ASSUME Fail(r, After(s)) PROVE Moves(r) /\ Like(job'[r], job[r]) /\ job'[r].err /\ job'[r].pc = After(s)
  BY <1>1, <1>3, FailJob
<1>4. ASSUME Step(r, [job[r] EXCEPT !.pc = After(s), !.done = @ \cup {s}, !.skipped = @ \cup {s}])
      PROVE  /\ Moves(r) /\ Akin(job'[r], job[r]) /\ job'[r].pc = After(s) /\ job'[r].err = job[r].err
             /\ job'[r].done = job[r].done \cup {s} /\ job'[r].skipped = job[r].skipped \cup {s}
  <2> DEFINE j == [job[r] EXCEPT !.pc = After(s), !.done = @ \cup {s}, !.skipped = @ \cup {s}]
  <2>1. /\ j \in JobType /\ Akin(j, job[r]) /\ j.pc = After(s) /\ j.err = job[r].err
        /\ j.done = job[r].done \cup {s} /\ j.skipped = job[r].skipped \cup {s}
    BY <1>1 DEF JobType, Akin
  <2>2. Step(r, j)
    BY <1>4
  <2> HIDE DEF j
  <2> QED BY <1>1, <2>1, <2>2, StepAt DEF Moves
<1>5. ASSUME Step(r, [job[r] EXCEPT !.pc = "record", !.src = s])
      PROVE  /\ Moves(r) /\ Akin(job'[r], job[r]) /\ job'[r].pc = "record" /\ job'[r].src = s /\ job'[r].err = job[r].err
             /\ job'[r].done = job[r].done /\ job'[r].skipped = job[r].skipped
  <2> DEFINE j == [job[r] EXCEPT !.pc = "record", !.src = s]
  <2>1. /\ j \in JobType /\ Akin(j, job[r]) /\ j.pc = "record" /\ j.src = s /\ j.err = job[r].err
        /\ j.done = job[r].done /\ j.skipped = job[r].skipped
    BY <1>1 DEF JobType, Akin, Pcs, Storing
  <2>2. Step(r, j)
    BY <1>5
  <2> HIDE DEF j
  <2> QED BY <1>1, <2>1, <2>2, StepAt DEF Moves
<1>6. ASSUME Step(r, [job[r] EXCEPT !.pc = After(s), !.skipped = @ \cup {s}])
      PROVE  /\ Moves(r) /\ Akin(job'[r], job[r]) /\ job'[r].pc = After(s) /\ job'[r].err = job[r].err
             /\ job'[r].done = job[r].done /\ job'[r].skipped = job[r].skipped \cup {s}
  <2> DEFINE j == [job[r] EXCEPT !.pc = After(s), !.skipped = @ \cup {s}]
  <2>1. /\ j \in JobType /\ Akin(j, job[r]) /\ j.pc = After(s) /\ j.err = job[r].err
        /\ j.done = job[r].done /\ j.skipped = job[r].skipped \cup {s}
    BY <1>1 DEF JobType, Akin
  <2>2. Step(r, j)
    BY <1>6
  <2> HIDE DEF j
  <2> QED BY <1>1, <2>1, <2>2, StepAt DEF Moves
<1> QED BY <1>2, <1>3, <1>4, <1>5, <1>6, LikeAkin DEF Upload, PutStream

LEMMA RecordJob ==
    ASSUME TypeInv, NEW r \in Run, Record(r)
    PROVE  /\ Moves(r) /\ Akin(job'[r], job[r]) /\ job'[r].pc = After(job[r].src)
           /\ \/ /\ job'[r].done = job[r].done \cup {job[r].src} /\ job'[r].err = job[r].err
                 /\ job'[r].skipped = job[r].skipped \ {job[r].src}
                 /\ snap' = snap \cup {[run |-> r, src |-> job[r].src, try |-> job[r].try, sum |-> obj[<<r, job[r].src>>]]}
              \/ /\ job'[r].done = job[r].done /\ job'[r].err /\ job'[r].skipped = job[r].skipped
                 /\ snap' \in {snap, snap \cup {[run |-> r, src |-> job[r].src, try |-> job[r].try,
                                                 sum |-> obj[<<r, job[r].src>>]]}}
<1> DEFINE s == job[r].src
<1>1. Types /\ job[r] \in JobType /\ s \in Data
  BY AtFacts, JobFields DEF Record
<1>2. After(s) \in Pcs
  BY DEF After, Pcs, Storing
<1>3. ASSUME Fail(r, After(s))
      PROVE  /\ Moves(r) /\ Akin(job'[r], job[r]) /\ job'[r].skipped = job[r].skipped /\ job'[r].pc = After(s)
             /\ job'[r].done = job[r].done /\ job'[r].err
  BY <1>1, <1>2, <1>3, FailJob, LikeAkin DEF Like
<1>4. ASSUME Step(r, [job[r] EXCEPT !.pc = After(s), !.done = @ \cup {s}, !.skipped = @ \ {s}, !.stored = TRUE])
      PROVE  /\ Moves(r) /\ Akin(job'[r], job[r]) /\ job'[r].skipped = job[r].skipped \ {s} /\ job'[r].pc = After(s)
             /\ job'[r].done = job[r].done \cup {s} /\ job'[r].err = job[r].err
  <2> DEFINE j == [job[r] EXCEPT !.pc = After(s), !.done = @ \cup {s}, !.skipped = @ \ {s}, !.stored = TRUE]
  <2>1. /\ j \in JobType /\ Akin(j, job[r]) /\ j.skipped = job[r].skipped \ {s} /\ j.pc = After(s)
        /\ j.done = job[r].done \cup {s} /\ j.err = job[r].err
    BY <1>1, <1>2 DEF JobType, Akin
  <2>2. Step(r, j)
    BY <1>4
  <2> HIDE DEF j
  <2> QED BY <1>1, <2>1, <2>2, StepAt DEF Moves
<1> QED BY <1>3, <1>4 DEF Record, RecordErr

LEMMA JudgeJob ==
    ASSUME TypeInv, NEW r \in Run, Judge(r)
    PROVE  /\ Moves(r) /\ Akin(job'[r], job[r]) /\ job'[r].done = job[r].done /\ job'[r].skipped = job[r].skipped
           /\ \/ ~job[r].err /\ job'[r].pc = "retain" /\ hollow' = hollow \cup (Data \ job[r].inc) \cup job[r].skipped
              \/ job'[r].pc = "begin" /\ UNCHANGED hollow
              \/ job'[r].pc = "finish" /\ job'[r].err /\ UNCHANGED hollow
<1>1. Types /\ job[r] \in JobType /\ {"retain", "begin", "finish"} \subseteq Pcs
  BY AtFacts DEF Judge, Pcs, Storing, Retaining
<1>2. ASSUME Goto(r, "retain")
      PROVE  /\ Moves(r) /\ Akin(job'[r], job[r]) /\ job'[r].done = job[r].done /\ job'[r].skipped = job[r].skipped
             /\ job'[r].pc = "retain"
  BY <1>1, <1>2, GotoJob, LikeAkin DEF Like
<1>3. ASSUME Fail(r, "finish")
      PROVE  /\ Moves(r) /\ Akin(job'[r], job[r]) /\ job'[r].done = job[r].done /\ job'[r].skipped = job[r].skipped
             /\ job'[r].pc = "finish" /\ job'[r].err
  BY <1>1, <1>3, FailJob, LikeAkin DEF Like
<1>4. ASSUME Step(r, [job[r] EXCEPT !.pc = "begin", !.try = 1])
      PROVE  /\ Moves(r) /\ Akin(job'[r], job[r]) /\ job'[r].done = job[r].done /\ job'[r].skipped = job[r].skipped
             /\ job'[r].pc = "begin"
  <2> DEFINE j == [job[r] EXCEPT !.pc = "begin", !.try = 1]
  <2>0. 1 \in 0..1
    OBVIOUS
  <2>1. j \in JobType /\ Akin(j, job[r]) /\ j.done = job[r].done /\ j.skipped = job[r].skipped /\ j.pc = "begin"
    BY <1>1, <2>0 DEF JobType, Akin
  <2>2. Step(r, j)
    BY <1>4
  <2> HIDE DEF j
  <2> QED BY <1>1, <2>1, <2>2, StepAt DEF Moves
<1> QED BY <1>2, <1>3, <1>4 DEF Judge

LEMMA RetainJob ==
    ASSUME TypeInv, NEW r \in Run, Retain(r)
    PROVE  /\ Moves(r) /\ job'[r].by = job[r].by /\ job'[r].done = job[r].done /\ job'[r].skipped = job[r].skipped
           /\ \/ job'[r].pc = "sweep" /\ job'[r].list = {sn \in snap : sn.run \in aged}
              \/ job'[r].pc = "finish" /\ job'[r].list = job[r].list
<1>1. Types /\ job[r] \in JobType /\ {"sweep", "finish"} \subseteq Pcs
  BY AtFacts DEF Retain, Pcs, Retaining
<1>2. ASSUME Goto(r, "finish")
      PROVE  /\ Moves(r) /\ job'[r].by = job[r].by /\ job'[r].done = job[r].done /\ job'[r].skipped = job[r].skipped
             /\ job'[r].pc = "finish" /\ job'[r].list = job[r].list
  BY <1>1, <1>2, GotoJob DEF Like
<1>3. ASSUME Step(r, [job[r] EXCEPT !.pc = "sweep", !.list = {sn \in snap : sn.run \in aged}])
      PROVE  /\ Moves(r) /\ job'[r].by = job[r].by /\ job'[r].done = job[r].done /\ job'[r].skipped = job[r].skipped
             /\ job'[r].pc = "sweep" /\ job'[r].list = {sn \in snap : sn.run \in aged}
  <2> DEFINE old == {sn \in snap : sn.run \in aged}
             j == [job[r] EXCEPT !.pc = "sweep", !.list = old]
  <2>1. old \subseteq Snapshot
    BY <1>1 DEF Types
  <2> HIDE DEF old
  <2>2. /\ j \in JobType /\ j.by = job[r].by /\ j.done = job[r].done /\ j.skipped = job[r].skipped
        /\ j.pc = "sweep" /\ j.list = old
    BY <1>1, <2>1 DEF JobType
  <2>3. Step(r, j)
    BY <1>3 DEF old
  <2> HIDE DEF j
  <2>4. Moves(r) /\ job'[r] = j
    BY <1>1, <2>2, <2>3, StepAt DEF Moves
  <2> QED BY <2>2, <2>4 DEF old
<1> QED BY <1>2, <1>3 DEF Retain

LEMMA SweepJob ==
    ASSUME TypeInv, NEW r \in Run, Sweep(r)
    PROVE  /\ Moves(r) /\ job'[r].by = job[r].by /\ job'[r].done = job[r].done /\ job'[r].skipped = job[r].skipped
           /\ job'[r].list \subseteq job[r].list
           /\ \/ job'[r].pc \in {"finish", "sweep"} /\ UNCHANGED obj
              \/ \E sn \in job[r].list : /\ job'[r].pc = "mark" /\ job'[r].pick = sn /\ job'[r].list = job[r].list
                                         /\ obj' = [obj EXCEPT ![Key(sn)] = NoObject]
<1>1. Types /\ job[r] \in JobType /\ job[r].pc = "sweep" /\ {"mark", "sweep", "finish"} \subseteq Pcs
  BY AtFacts DEF Sweep, Pcs, Retaining
<1>2. ASSUME Goto(r, "finish")
      PROVE  /\ Moves(r) /\ job'[r].by = job[r].by /\ job'[r].done = job[r].done /\ job'[r].skipped = job[r].skipped
             /\ job'[r].pc = "finish" /\ job'[r].list = job[r].list
  BY <1>1, <1>2, GotoJob DEF Like
<1>3. ASSUME NEW sn \in job[r].list, Step(r, [job[r] EXCEPT !.pc = "mark", !.pick = sn])
      PROVE  /\ Moves(r) /\ job'[r].by = job[r].by /\ job'[r].done = job[r].done /\ job'[r].skipped = job[r].skipped
             /\ job'[r].pc = "mark" /\ job'[r].pick = sn /\ job'[r].list = job[r].list
  <2> DEFINE j == [job[r] EXCEPT !.pc = "mark", !.pick = sn]
  <2>1. sn \in Snapshot
    BY <1>1 DEF JobType
  <2>2. /\ j \in JobType /\ j.by = job[r].by /\ j.done = job[r].done /\ j.skipped = job[r].skipped
        /\ j.pc = "mark" /\ j.pick = sn /\ j.list = job[r].list
    BY <1>1, <2>1 DEF JobType
  <2>3. Step(r, j)
    BY <1>3
  <2> HIDE DEF j
  <2> QED BY <1>1, <2>2, <2>3, StepAt DEF Moves
<1>4. ASSUME NEW sn \in job[r].list, Step(r, [job[r] EXCEPT !.list = @ \ {sn}])
      PROVE  /\ Moves(r) /\ job'[r].by = job[r].by /\ job'[r].done = job[r].done /\ job'[r].skipped = job[r].skipped
             /\ job'[r].pc = "sweep" /\ job'[r].list \subseteq job[r].list
  <2> DEFINE j == [job[r] EXCEPT !.list = @ \ {sn}]
  <2>2. /\ j \in JobType /\ j.by = job[r].by /\ j.done = job[r].done /\ j.skipped = job[r].skipped
        /\ j.pc = "sweep" /\ j.list \subseteq job[r].list
    BY <1>1 DEF JobType
  <2>3. Step(r, j)
    BY <1>4
  <2> HIDE DEF j
  <2> QED BY <1>1, <2>2, <2>3, StepAt DEF Moves
<1> QED BY <1>2, <1>3, <1>4 DEF Sweep

LEMMA MarkJob ==
    ASSUME TypeInv, NEW r \in Run, Mark(r)
    PROVE  /\ Moves(r) /\ job'[r].by = job[r].by /\ job'[r].done = job[r].done /\ job'[r].skipped = job[r].skipped
           /\ job'[r].pc = "sweep" /\ job'[r].list \subseteq job[r].list
<1>1. Types /\ job[r] \in JobType /\ "sweep" \in Pcs
  BY AtFacts DEF Mark, Pcs, Retaining
<1> DEFINE j == [job[r] EXCEPT !.pc = "sweep", !.list = @ \ {job[r].pick}, !.pick = NoSnapshot]
<1>2. /\ j \in JobType /\ j.by = job[r].by /\ j.done = job[r].done /\ j.skipped = job[r].skipped
      /\ j.pc = "sweep" /\ j.list \subseteq job[r].list
  BY <1>1 DEF JobType
<1>3. Step(r, j)
  BY DEF Mark
<1> HIDE DEF j
<1> QED BY <1>1, <1>2, <1>3, StepAt DEF Moves

-----------------------------------------------------------------------------
(* Types: the steps of backups and verifications. *)

LEMMA BeginTypes == ASSUME TypeInv, NEW r \in Run, Begin(r) PROVE TypeInv' /\ Local(r)
<1>1. Types /\ JobOK(r) /\ job[r].pc = "begin" /\ row[r].kind = "backup"
  BY AtFacts DEF Begin, JobOK, Storing
<1>2. UNCHANGED <<up, closing, row, store, data, truth, hollow, torn>>
  BY DEF Begin, history
<1>3. Types' /\ Local(r)
  BY <1>2, BeginJob, MovesOnly DEF TypeInv, Types
<1>4. JobOK(r)'
  BY <1>1, <1>2, BeginJob, GoesOn DEF JobOK, Akin, Restoring, store
<1> QED BY <1>3, <1>4, LocalTypes

LEMMA UploadTypes == ASSUME TypeInv, NEW r \in Run, NEW s \in Data, Upload(r, s) PROVE TypeInv' /\ Local(r)
<1>1. Types /\ JobOK(r) /\ job[r].pc = s /\ row[r].kind = "backup"
  BY AtFacts DEF Upload, JobOK, Storing, Data
<1>2. UNCHANGED <<up, closing, row, snap, aged, data, truth, hollow, torn>>
  BY DEF Upload, history
<1>3. /\ obj' \in [Run \X Data -> Content \cup {NoObject}]
      /\ \A q \in Run \ {r} : \A t \in Data : obj'[<<q, t>>] = obj[<<q, t>>]
      /\ job'[r].pc = "record" => obj'[<<r, job'[r].src>>] \in Content
  <2>1. live[s] \in Content /\ <<r, s>> \in Run \X Data
    BY <1>1 DEF Types
  <2>2. CASE UNCHANGED obj /\ job'[r].pc = After(s)
    BY <1>1, <2>2 DEF Types, After
  <2>3. CASE (job'[r].src = s \/ job'[r].pc = After(s)) /\ obj' = [obj EXCEPT ![<<r, s>>] = live[s]]
    BY <1>1, <2>1, <2>3 DEF Types, After
  <2> QED BY <2>2, <2>3, UploadJob
<1>4. Types' /\ Local(r)
  BY <1>1, <1>2, <1>3, UploadJob DEF Types, Local, Moves, data
<1>5. job'[r].pc \in {"volume", "judge", "record"} /\ job[r].pc # "idle"
  BY <1>1, UploadJob DEF After, Data
<1>6. Akin(job'[r], job[r])
  BY UploadJob
<1>7. JobOK(r)'
  BY <1>1, <1>2, <1>3, <1>5, <1>6, GoesOn DEF JobOK, Akin, Restoring
<1> QED BY <1>4, <1>7, LocalTypes

LEMMA RecordTypes == ASSUME TypeInv, NEW r \in Run, Record(r) PROVE TypeInv' /\ Local(r)
<1>1. Types /\ JobOK(r) /\ job[r].pc = "record" /\ row[r].kind = "backup" /\ job[r] \in JobType
  BY AtFacts DEF Record, JobOK, Storing
<1>2. UNCHANGED <<up, closing, row, obj, aged, data, truth, hollow, torn>>
  BY DEF Record, history
<1>3. obj[<<r, job[r].src>>] \in Content /\ job[r].src \in Data /\ job[r].try \in 0..1
  BY <1>1, JobFields DEF JobOK
<1>4. [run |-> r, src |-> job[r].src, try |-> job[r].try, sum |-> obj[<<r, job[r].src>>]] \in Snapshot
  BY <1>3 DEF Snapshot
<1>5. snap \subseteq snap' /\ snap' \subseteq Snapshot
  BY <1>1, <1>4, RecordJob DEF Types
<1>6. Types' /\ Local(r)
  BY <1>1, <1>2, <1>5, RecordJob DEF Types, Local, Moves, data
<1>7. job'[r].pc \in {"volume", "judge"}
  BY <1>3, RecordJob DEF After, Data
<1>8. JobOK(r)'
  BY <1>1, <1>2, <1>7, RecordJob, GoesOn DEF JobOK, Akin, Restoring
<1> QED BY <1>6, <1>8, LocalTypes

LEMMA JudgeTypes == ASSUME TypeInv, NEW r \in Run, Judge(r) PROVE TypeInv' /\ Local(r)
<1>1. Types /\ JobOK(r) /\ job[r].pc = "judge" /\ row[r].kind = "backup" /\ job[r] \in JobType
  BY AtFacts DEF Judge, JobOK, Storing
<1>2. UNCHANGED <<up, closing, row, store, data, truth, torn>>
  BY DEF Judge
<1>3. hollow \subseteq hollow' /\ hollow' \subseteq Data
  BY <1>1, JudgeJob, JobFields DEF Types
<1>4. Types' /\ Local(r)
  BY <1>2, <1>3, JudgeJob, MovesOnly DEF TypeInv, Types
<1>5. job'[r].pc \in {"retain", "begin", "finish"}
  BY JudgeJob
<1>6. JobOK(r)'
  BY <1>1, <1>2, <1>5, JudgeJob, GoesOn DEF JobOK, Akin, Restoring, store
<1> QED BY <1>4, <1>6, LocalTypes

LEMMA RetainTypes == ASSUME TypeInv, NEW r \in Run, Retain(r) PROVE TypeInv' /\ Local(r)
<1>1. Types /\ JobOK(r) /\ job[r].pc = "retain" /\ row[r].kind = "backup"
  BY AtFacts DEF Retain, JobOK, Retaining
<1>2. UNCHANGED <<up, closing, row, store, data, truth, hollow, torn>>
  BY DEF Retain, history
<1>3. Types' /\ Local(r)
  BY <1>2, RetainJob, MovesOnly DEF TypeInv, Types
<1>4. job'[r].pc \in {"sweep", "finish"} /\ \A sn \in job'[r].list : sn.run \in aged
  BY <1>1, RetainJob DEF JobOK
<1>5. JobOK(r)'
  BY <1>1, <1>2, <1>4, RetainJob, GoesOn DEF JobOK, Restoring, store
<1> QED BY <1>3, <1>5, LocalTypes

LEMMA SweepTypes == ASSUME TypeInv, NEW r \in Run, Sweep(r) PROVE TypeInv' /\ Local(r)
<1>1. Types /\ JobOK(r) /\ job[r].pc = "sweep" /\ row[r].kind = "backup" /\ job[r] \in JobType
  BY AtFacts DEF Sweep, JobOK, Retaining
<1>2. UNCHANGED <<up, closing, row, snap, aged, data, truth, hollow, torn>>
  BY DEF Sweep, history
<1>3. /\ obj' \in [Run \X Data -> Content \cup {NoObject}]
      /\ \A q \in Run \ aged : \A s \in Data : obj'[<<q, s>>] = obj[<<q, s>>]
  <2>1. CASE UNCHANGED obj
    BY <1>1, <2>1 DEF Types
  <2>2. ASSUME NEW sn \in job[r].list, obj' = [obj EXCEPT ![Key(sn)] = NoObject]
        PROVE  /\ obj' \in [Run \X Data -> Content \cup {NoObject}]
               /\ \A q \in Run \ aged : \A s \in Data : obj'[<<q, s>>] = obj[<<q, s>>]
    <3>1. sn \in Snapshot /\ sn.run \in aged
      BY <1>1, JobFields DEF JobOK
    <3>2. \A q \in Run \ aged : \A s \in Data : <<q, s>> # Key(sn) /\ <<q, s>> \in Run \X Data
      BY <3>1 DEF Key
    <3> HIDE DEF Key
    <3> QED BY <1>1, <2>2, <3>2 DEF Types
  <2> QED BY <2>1, <2>2, SweepJob
<1>4. Types' /\ Local(r)
  BY <1>1, <1>2, <1>3, SweepJob DEF Types, Local, Moves, data
<1>5. job'[r].pc \in {"sweep", "finish", "mark"} /\ (job'[r].pc = "mark" => job'[r].pick \in job'[r].list)
  BY SweepJob
<1>6. JobOK(r)'
  BY <1>1, <1>2, <1>5, SweepJob, GoesOn DEF JobOK, Restoring
<1> QED BY <1>4, <1>6, LocalTypes

LEMMA MarkTypes == ASSUME TypeInv, NEW r \in Run, Mark(r) PROVE TypeInv' /\ Local(r)
<1>1. Types /\ JobOK(r) /\ job[r].pc = "mark" /\ row[r].kind = "backup"
  BY AtFacts DEF Mark, JobOK, Retaining
<1>2. UNCHANGED <<up, closing, row, obj, aged, data, truth, hollow, torn>>
  BY DEF Mark, history
<1>3. snap' \subseteq Snapshot /\ \A sn \in snap : sn \in snap' \/ sn.run \in aged
  BY <1>1 DEF Mark, Types, JobOK
<1>4. Types' /\ Local(r)
  BY <1>1, <1>2, <1>3, MarkJob DEF Types, Local, Moves, data
<1>5. JobOK(r)'
  BY <1>1, <1>2, MarkJob, GoesOn DEF JobOK, Restoring
<1> QED BY <1>4, <1>5, LocalTypes

LEMMA VerifyTypes == ASSUME TypeInv, NEW r \in Run, Verify(r) PROVE TypeInv' /\ Local(r)
<1>1. Types /\ JobOK(r) /\ job[r].pc = "verify"
  BY AtFacts DEF Verify
<1>2. UNCHANGED <<up, closing, row, store, data, truth, hollow, torn>>
  BY DEF Verify, history
<1>3. Moves(r) /\ Like(job'[r], job[r]) /\ job'[r].pc = "finish"
  BY <1>1, GotoJob, FailJob DEF Verify, Pcs
<1>4. Types' /\ Local(r)
  BY <1>2, <1>3, MovesOnly DEF TypeInv, Types
<1>5. JobOK(r)'
  BY <1>1, <1>2, <1>3, GoesOn DEF JobOK, Like, Storing, Retaining, Restoring, store
<1> QED BY <1>4, <1>5, LocalTypes

-----------------------------------------------------------------------------
(* Types: the steps of restores and of the swap script. *)

\* A step of a restore leaves the store alone.
RestoreStep(r) ==
    /\ UNCHANGED <<up, closing, row, store, hollow>>
    /\ Moves(r) /\ job'[r].by = job[r].by /\ job'[r].pick = job[r].pick /\ job'[r].list = job[r].list
    /\ job[r].pc \in Restoring /\ job'[r].pc \in Restoring \cup {"finish"}

LEMMA RestoreStepTypes ==
    ASSUME TypeInv, NEW r \in Run, RestoreStep(r), live' \in [Data -> Content], stage' \in [Run -> StageType],
           apps' \in {"running", "stopped"}, writes' = writes, truth' \in Content, torn' \in BOOLEAN
    PROVE  TypeInv' /\ Local(r)
<1>1. Types /\ JobOK(r) /\ row[r].kind = "restore" /\ job[r].pc # "idle"
  BY DEF TypeInv, JobOK, RestoreStep, Restoring
<1>2. Types' /\ Local(r)
  BY <1>1 DEF Types, Local, RestoreStep, Moves, store
<1>3. JobOK(r)'
  BY <1>1, GoesOn DEF JobOK, RestoreStep, store, Storing, Retaining, Restoring
<1> QED BY <1>2, <1>3, LocalTypes

LEMMA CheckJob ==
    ASSUME TypeInv, NEW r \in Run, Check(r)
    PROVE  /\ RestoreStep(r) /\ UNCHANGED <<data, history>> /\ Like(job'[r], job[r]) /\ job[r].pc = "check"
           /\ \/ job'[r].pc = "extract" /\ job[r].pick.src = "volume" /\ Intact(job[r].pick)
              \/ job'[r].pc = "load" /\ Intact(job[r].pick)
              \/ job'[r].pc = "finish"
<1>1. Types /\ job[r].pc = "check" /\ {"extract", "load", "finish"} \subseteq Pcs
  BY AtFacts DEF Check, Pcs, Restoring
<1>2. \/ Goto(r, "extract") /\ job[r].pick.src = "volume" /\ Intact(job[r].pick)
      \/ Goto(r, "load") /\ Intact(job[r].pick)
      \/ Fail(r, "finish")
  BY DEF Check
<1>3. /\ Moves(r) /\ Like(job'[r], job[r])
      /\ \/ job'[r].pc = "extract" /\ job[r].pick.src = "volume" /\ Intact(job[r].pick)
         \/ job'[r].pc = "load" /\ Intact(job[r].pick)
         \/ job'[r].pc = "finish"
  BY <1>1, <1>2, GotoJob, FailJob
<1> QED BY <1>1, <1>3 DEF Check, RestoreStep, Restoring, Like, history

LEMMA LoadJob ==
    ASSUME TypeInv, NEW r \in Run, Load(r)
    PROVE  /\ RestoreStep(r) /\ UNCHANGED <<stage, apps, writes, history>> /\ Like(job'[r], job[r])
           /\ job[r].pc = "load" /\ job'[r].pc = "finish"
           /\ live' \in [Data -> Content] /\ live'["volume"] = live["volume"]
<1>1. Types /\ JobOK(r) /\ job[r].pc = "load" /\ "finish" \in Pcs
  BY AtFacts DEF Load, Pcs
<1>2. Moves(r) /\ Like(job'[r], job[r]) /\ job'[r].pc = "finish"
  BY <1>1, GotoJob, FailJob DEF Load
<1>3. job[r].pick \in Snapshot
  BY <1>1 DEF JobOK, Restoring
<1>4. Key(job[r].pick) \in Run \X Data
  BY <1>3 DEF Key, Snapshot
<1>5. live' \in [Data -> Content] /\ live'["volume"] = live["volume"]
  BY <1>1, <1>4 DEF Load, Types, Data
<1> QED BY <1>1, <1>2, <1>5 DEF Load, RestoreStep, Restoring, Like, history

LEMMA ExtractJob ==
    ASSUME TypeInv, NEW r \in Run, Extract(r)
    PROVE  /\ RestoreStep(r) /\ UNCHANGED <<live, apps, writes, history>> /\ Like(job'[r], job[r])
           /\ job[r].pc = "extract" /\ stage' \in [Run -> StageType]
           /\ \A q \in Run : stage'[q].phase = stage[q].phase /\ stage'[q].left = stage[q].left
           /\ \A q \in Run \ {r} : stage'[q] = stage[q]
           /\ \/ job'[r].pc = "ps" /\ stage'[r].new = obj[Key(job[r].pick)]
              \/ job'[r].pc = "finish"
<1>1. Types /\ JobOK(r) /\ job[r].pc = "extract" /\ {"ps", "finish"} \subseteq Pcs
  BY AtFacts DEF Extract, Pcs, Restoring
<1>2. job[r].pick \in Snapshot
  BY <1>1 DEF JobOK, Restoring
<1>3. Key(job[r].pick) \in Run \X Data
  BY <1>2 DEF Key, Snapshot
<1>4. obj[Key(job[r].pick)] \in Content \cup {NoObject}
  BY <1>1, <1>3 DEF Types
<1>5. ASSUME NEW c \in Content, stage' = [stage EXCEPT ![r].new = c]
      PROVE  /\ stage' \in [Run -> StageType] /\ stage'[r].new = c
             /\ \A q \in Run : stage'[q].phase = stage[q].phase /\ stage'[q].left = stage[q].left
             /\ \A q \in Run \ {r} : stage'[q] = stage[q]
  BY <1>1, <1>5 DEF Types, StageType
<1>6. CASE obj[Key(job[r].pick)] # NoObject /\ stage' = [stage EXCEPT ![r].new = obj[Key(job[r].pick)]] /\ Goto(r, "ps")
  <2>1. Moves(r) /\ Like(job'[r], job[r]) /\ job'[r].pc = "ps"
    BY <1>1, <1>6, GotoJob
  <2> QED BY <1>1, <1>4, <1>5, <1>6, <2>1 DEF Extract, RestoreStep, Restoring, Like, history
<1>7. CASE UNCHANGED stage /\ Fail(r, "finish")
  <2>1. Moves(r) /\ Like(job'[r], job[r]) /\ job'[r].pc = "finish"
    BY <1>1, <1>7, FailJob
  <2> QED BY <1>1, <1>7, <2>1 DEF Types, Extract, RestoreStep, Restoring, Like, history
<1> QED BY <1>6, <1>7 DEF Extract

LEMMA PsJob ==
    ASSUME TypeInv, NEW r \in Run, Ps(r)
    PROVE  /\ RestoreStep(r) /\ UNCHANGED <<data, truth>> /\ Like(job'[r], job[r]) /\ job[r].pc = "ps"
           /\ torn' \in BOOLEAN /\ (torn => torn')
           /\ \/ job'[r].pc = "stop"
              \/ job'[r].pc = "swap" /\ (apps = "stopped" \/ torn')
<1>1. Types /\ job[r].pc = "ps" /\ {"stop", "swap"} \subseteq Pcs
  BY AtFacts DEF Ps, Pcs, Restoring
<1>2. \/ Goto(r, "stop") /\ UNCHANGED torn
      \/ Goto(r, "swap") /\ apps = "stopped" /\ UNCHANGED torn
      \/ Goto(r, "swap") /\ torn' = (torn \/ apps = "running")
  BY <1>1 DEF Ps, Goto, Types
<1>3. /\ Moves(r) /\ Like(job'[r], job[r]) /\ torn' \in BOOLEAN /\ (torn => torn')
      /\ job'[r].pc = "stop" \/ (job'[r].pc = "swap" /\ (apps = "stopped" \/ torn'))
  BY <1>1, <1>2, GotoJob DEF Types
<1> QED BY <1>1, <1>3 DEF Ps, RestoreStep, Restoring, Like

LEMMA StopJob ==
    ASSUME TypeInv, NEW r \in Run, Stop(r)
    PROVE  /\ RestoreStep(r) /\ UNCHANGED <<live, stage, writes, history>> /\ job[r].pc = "stop"
           /\ job'[r].done = job[r].done /\ job'[r].skipped = job[r].skipped
           /\ apps' \in {"running", "stopped"}
           /\ (job'[r].pc = "swap" /\ apps' = "stopped") \/ job'[r].pc = "restart"
<1>1. Types /\ job[r].pc = "stop" /\ {"swap", "restart"} \subseteq Pcs /\ job[r] \in JobType
  BY AtFacts DEF Stop, Pcs, Restoring
<1>2. ASSUME NEW j, j = [job[r] EXCEPT !.pc = "swap", !.stopped = TRUE]
                    \/ j = [job[r] EXCEPT !.pc = "restart", !.stopped = TRUE, !.err = TRUE]
      PROVE  /\ j \in JobType /\ j.by = job[r].by /\ j.pick = job[r].pick /\ j.list = job[r].list
             /\ j.done = job[r].done /\ j.skipped = job[r].skipped
  <2>1. CASE j = [job[r] EXCEPT !.pc = "swap", !.stopped = TRUE]
    BY <1>1, <2>1 DEF JobType
  <2>2. CASE j = [job[r] EXCEPT !.pc = "restart", !.stopped = TRUE, !.err = TRUE]
    BY <1>1, <2>2 DEF JobType
  <2> QED BY <1>2, <2>1, <2>2
<1>3. [job[r] EXCEPT !.pc = "swap", !.stopped = TRUE].pc = "swap"
  BY <1>1 DEF JobType
<1>4. [job[r] EXCEPT !.pc = "restart", !.stopped = TRUE, !.err = TRUE].pc = "restart"
  BY <1>1 DEF JobType
<1>5. CASE apps' = "stopped" /\ Step(r, [job[r] EXCEPT !.pc = "swap", !.stopped = TRUE])
  <2>1. PICK j : j = [job[r] EXCEPT !.pc = "swap", !.stopped = TRUE]
    OBVIOUS
  <2>2. j.pc = "swap" /\ Step(r, j)
    BY <1>3, <1>5, <2>1
  <2>3. Moves(r) /\ job'[r] = j
    BY <1>1, <1>2, <2>1, <2>2, StepAt DEF Moves
  <2> QED BY <1>1, <1>2, <1>5, <2>1, <2>2, <2>3 DEF Stop, RestoreStep, Restoring, history
<1>6. CASE apps' \in {"running", "stopped"} /\ Step(r, [job[r] EXCEPT !.pc = "restart", !.stopped = TRUE, !.err = TRUE])
  <2>1. PICK j : j = [job[r] EXCEPT !.pc = "restart", !.stopped = TRUE, !.err = TRUE]
    OBVIOUS
  <2>2. j.pc = "restart" /\ Step(r, j)
    BY <1>4, <1>6, <2>1
  <2>3. Moves(r) /\ job'[r] = j
    BY <1>1, <1>2, <2>1, <2>2, StepAt DEF Moves
  <2> QED BY <1>1, <1>2, <1>6, <2>1, <2>2, <2>3 DEF Stop, RestoreStep, Restoring, history
<1> QED BY <1>5, <1>6 DEF Stop

LEMMA SwapJob ==
    ASSUME TypeInv, NEW r \in Run, Swap(r)
    PROVE  /\ RestoreStep(r) /\ UNCHANGED <<live, apps, writes, truth>> /\ Like(job'[r], job[r]) /\ job[r].pc = "swap"
           /\ torn' \in BOOLEAN /\ (torn => torn') /\ stage' \in [Run -> StageType]
           /\ \A q \in Run \ {r} : stage'[q] = stage[q]
           /\ \/ /\ job'[r].pc = "swapping" /\ stage'[r].phase = "out"
                 /\ stage'[r].new = stage[r].new /\ stage'[r].left = stage[r].left
              \/ job'[r].pc = "rollback" /\ torn'
<1>1. Types /\ job[r].pc = "swap" /\ {"swapping", "rollback"} \subseteq Pcs /\ stage[r] \in StageType
  BY AtFacts DEF Swap, Pcs, Restoring, Types
<1>2. CASE Goto(r, "swapping") /\ UNCHANGED torn /\ stage' = [stage EXCEPT ![r].made = TRUE, ![r].phase = "out"]
  <2>1. Moves(r) /\ Like(job'[r], job[r]) /\ job'[r].pc = "swapping"
    BY <1>1, <1>2, GotoJob
  <2> DEFINE g == [stage[r] EXCEPT !.made = TRUE, !.phase = "out"]
  <2>2. g \in StageType /\ g.phase = "out" /\ g.new = stage[r].new /\ g.left = stage[r].left
    BY <1>1 DEF StageType, Phases
  <2>3. stage' = [stage EXCEPT ![r] = g]
    BY <1>1, <1>2 DEF Types
  <2> HIDE DEF g
  <2>4. stage' \in [Run -> StageType] /\ stage'[r] = g /\ \A q \in Run \ {r} : stage'[q] = stage[q]
    BY <1>1, <2>2, <2>3 DEF Types
  <2>5. RestoreStep(r)
    BY <1>1, <2>1 DEF Swap, RestoreStep, Restoring, Like
  <2> QED BY <1>1, <1>2, <2>1, <2>2, <2>4, <2>5 DEF Swap, Types
<1>3. CASE Fail(r, "rollback") /\ torn' = TRUE /\ UNCHANGED stage
  <2>1. Moves(r) /\ Like(job'[r], job[r]) /\ job'[r].pc = "rollback"
    BY <1>1, <1>3, FailJob
  <2> QED BY <1>1, <1>3, <2>1 DEF Types, Swap, RestoreStep, Restoring, Like
<1> QED BY <1>2, <1>3 DEF Swap

LEMMA SwapEndJob ==
    ASSUME TypeInv, NEW r \in Run, SwapEnd(r)
    PROVE  /\ RestoreStep(r) /\ UNCHANGED <<live, apps, writes>> /\ Like(job'[r], job[r]) /\ job[r].pc = "swapping"
           /\ torn' \in BOOLEAN /\ (torn => torn') /\ stage' \in [Run -> StageType] /\ truth' \in Content
           /\ \/ job'[r].pc = "restart" /\ stage[r].phase = "done" /\ UNCHANGED stage /\ truth' = job[r].pick.sum
              \/ job'[r].pc = "rollback" /\ torn'
<1>1. Types /\ JobOK(r) /\ job[r].pc = "swapping" /\ {"restart", "rollback"} \subseteq Pcs
  BY AtFacts DEF SwapEnd, Pcs, Restoring
<1>2. job[r].pick.sum \in Content
  BY <1>1 DEF JobOK, Restoring, Snapshot
<1>3. CASE stage[r].phase = "done" /\ truth' = job[r].pick.sum /\ Goto(r, "restart") /\ UNCHANGED <<stage, torn>>
  <2>1. Moves(r) /\ Like(job'[r], job[r]) /\ job'[r].pc = "restart"
    BY <1>1, <1>3, GotoJob
  <2> QED BY <1>1, <1>2, <1>3, <2>1 DEF Types, SwapEnd, RestoreStep, Restoring, Like
<1>4. CASE /\ stage' \in {stage, [stage EXCEPT ![r].phase = "none"]}
           /\ Fail(r, "rollback") /\ torn' = TRUE /\ UNCHANGED truth
  <2>1. Moves(r) /\ Like(job'[r], job[r]) /\ job'[r].pc = "rollback"
    BY <1>1, <1>4, FailJob
  <2>2. stage' \in [Run -> StageType]
    BY <1>1, <1>4 DEF Types, StageType, Phases
  <2> QED BY <1>1, <1>4, <2>1, <2>2 DEF Types, SwapEnd, RestoreStep, Restoring, Like
<1> QED BY <1>3, <1>4 DEF SwapEnd

LEMMA RollbackJob ==
    ASSUME TypeInv, NEW r \in Run, Rollback(r)
    PROVE  /\ RestoreStep(r) /\ UNCHANGED <<apps, writes, history>> /\ job[r].pc = "rollback" /\ job'[r].pc = "restart"
           /\ job'[r].done = job[r].done /\ job'[r].skipped = job[r].skipped
           /\ live' \in [Data -> Content] /\ stage' \in [Run -> StageType]
<1>1. Types /\ job[r].pc = "rollback" /\ "restart" \in Pcs /\ job[r] \in JobType /\ stage[r] \in StageType
  BY AtFacts DEF Rollback, Pcs, Restoring, Types
<1>2. PICK k \in BOOLEAN : Step(r, [job[r] EXCEPT !.pc = "restart", !.keep = k])
  BY <1>1 DEF Rollback, StageType
<1> DEFINE j == [job[r] EXCEPT !.pc = "restart", !.keep = k]
<1>3. /\ j \in JobType /\ j.by = job[r].by /\ j.pick = job[r].pick /\ j.list = job[r].list /\ j.pc = "restart"
      /\ j.done = job[r].done /\ j.skipped = job[r].skipped
  BY <1>1 DEF JobType
<1>4. Step(r, j)
  BY <1>2
<1> HIDE DEF j
<1>5. Moves(r) /\ job'[r] = j
  BY <1>1, <1>3, <1>4, StepAt DEF Moves
<1>6. live' \in [Data -> Content] /\ stage' \in [Run -> StageType]
  <2>1. CASE UNCHANGED <<live, stage>>
    BY <1>1, <2>1 DEF Types
  <2>2. ASSUME NEW back \in SUBSET stage[r].old, live' = [live EXCEPT !["volume"] = back],
               stage' = [stage EXCEPT ![r].old = @ \ back]
        PROVE  live' \in [Data -> Content] /\ stage' \in [Run -> StageType]
    <3>1. stage[r].old \in Content
      BY <1>1 DEF StageType
    <3>2. back \in Content /\ stage[r].old \ back \in Content
      BY <3>1 DEF Content
    <3> QED BY <1>1, <2>2, <3>2 DEF Types, StageType
  <2> QED BY <2>1, <2>2 DEF Rollback
<1> QED BY <1>1, <1>3, <1>5, <1>6 DEF Rollback, RestoreStep, Restoring, history

LEMMA RestartJob ==
    ASSUME TypeInv, NEW r \in Run, Restart(r)
    PROVE  /\ RestoreStep(r) /\ UNCHANGED <<live, writes, truth, torn>> /\ job[r].pc = "restart" /\ job'[r].pc = "finish"
           /\ job'[r].done = job[r].done /\ job'[r].skipped = job[r].skipped
           /\ stage' \in [Run -> StageType] /\ \A q \in Run : stage'[q] = stage[q] \/ (q = r /\ stage'[q] = NoStage)
           /\ apps' \in {"running", "stopped"}
<1>1. Types /\ job[r].pc = "restart" /\ "finish" \in Pcs /\ job[r] \in JobType
  BY AtFacts DEF Restart, Pcs, Restoring
<1>2. PICK e \in BOOLEAN : Step(r, [job[r] EXCEPT !.pc = "finish", !.stopped = FALSE, !.err = e])
  <2>1. [job[r] EXCEPT !.pc = "finish", !.stopped = FALSE] = [job[r] EXCEPT !.pc = "finish", !.stopped = FALSE, !.err = job[r].err]
    BY <1>1 DEF JobType
  <2>2. job[r].err \in BOOLEAN
    BY <1>1, JobFields
  <2> QED BY <2>1, <2>2 DEF Restart
<1> DEFINE j == [job[r] EXCEPT !.pc = "finish", !.stopped = FALSE, !.err = e]
<1>3. /\ j \in JobType /\ j.by = job[r].by /\ j.pick = job[r].pick /\ j.list = job[r].list /\ j.pc = "finish"
      /\ j.done = job[r].done /\ j.skipped = job[r].skipped
  BY <1>1 DEF JobType
<1>4. Step(r, j)
  BY <1>2
<1> HIDE DEF j
<1>5. Moves(r) /\ job'[r] = j
  BY <1>1, <1>3, <1>4, StepAt DEF Moves
<1>6. stage' \in [Run -> StageType] /\ \A q \in Run : stage'[q] = stage[q] \/ (q = r /\ stage'[q] = NoStage)
  BY <1>1, NoStageType DEF Restart, Unstaged, Types
<1>7. apps' \in {"running", "stopped"}
  BY <1>1 DEF Restart, Types
<1> QED BY <1>1, <1>3, <1>5, <1>6, <1>7 DEF Restart, RestoreStep, Restoring

LEMMA RestoreTypes ==
    ASSUME TypeInv, NEW r \in Run,
           \/ Check(r) \/ Load(r) \/ Extract(r) \/ Ps(r) \/ Stop(r) \/ Swap(r) \/ SwapEnd(r) \/ Rollback(r) \/ Restart(r)
    PROVE  TypeInv' /\ Local(r) /\ RestoreStep(r)
<1>0. Types
  BY DEF TypeInv
<1>1. CASE Check(r)
  BY <1>0, <1>1, CheckJob, RestoreStepTypes DEF Types, data, history
<1>2. CASE Load(r)
  BY <1>0, <1>2, LoadJob, RestoreStepTypes DEF Types, history
<1>3. CASE Extract(r)
  BY <1>0, <1>3, ExtractJob, RestoreStepTypes DEF Types, history
<1>4. CASE Ps(r)
  BY <1>0, <1>4, PsJob, RestoreStepTypes DEF Types, data
<1>5. CASE Stop(r)
  BY <1>0, <1>5, StopJob, RestoreStepTypes DEF Types, history
<1>6. CASE Swap(r)
  BY <1>0, <1>6, SwapJob, RestoreStepTypes DEF Types
<1>7. CASE SwapEnd(r)
  BY <1>0, <1>7, SwapEndJob, RestoreStepTypes DEF Types
<1>8. CASE Rollback(r)
  BY <1>0, <1>8, RollbackJob, RestoreStepTypes DEF Types, history
<1>9. CASE Restart(r)
  BY <1>0, <1>9, RestartJob, RestoreStepTypes DEF Types
<1> QED BY <1>1, <1>2, <1>3, <1>4, <1>5, <1>6, <1>7, <1>8, <1>9

LEMMA DataStepTypes ==
    ASSUME TypeInv, UNCHANGED <<jobs, store, hollow>>, live' \in [Data -> Content], stage' \in [Run -> StageType],
           apps' = apps, writes' \in 0..MaxWrites, truth' \in Content, torn' \in BOOLEAN
    PROVE  TypeInv'
<1>1. Types'
  BY DEF TypeInv, Types, jobs, store
<1>2. ASSUME NEW r \in Run PROVE JobOK(r)'
  BY DEF TypeInv, JobOK, jobs, store
<1> QED BY <1>1, <1>2 DEF TypeInv

\* What the script does to the volume and to its stage.
LEMMA ScriptStep ==
    ASSUME TypeInv, NEW r \in Run, Script(r)
    PROVE  /\ UNCHANGED <<jobs, store, apps, writes, truth, hollow>> /\ live' \in [Data -> Content]
           /\ stage' \in [Run -> StageType] /\ torn' \in BOOLEAN /\ (torn => torn')
           /\ \A q \in Run \ {r} : stage'[q] = stage[q]
           /\ stage[r].phase \in {"out", "in"}
           /\ \/ torn'
              \/ /\ stage[r].phase = "out" /\ stage'[r].phase = "out" /\ stage'[r].new = stage[r].new
                 /\ stage'[r].left = stage[r].left
              \/ /\ stage[r].phase = "in" /\ stage'[r].phase = "in" /\ stage'[r].left = stage[r].left
                 /\ \E x \in stage[r].new : live'["volume"] = Put(x, live["volume"]) /\ stage'[r].new = stage[r].new \ {x}
              \/ /\ stage[r].phase = "out" /\ live["volume"] \subseteq stage[r].left /\ UNCHANGED live
                 /\ stage'[r].phase = "in" /\ stage'[r].left = {} /\ stage'[r].new = stage[r].new
              \/ /\ stage[r].phase = "in" /\ stage[r].new \subseteq stage[r].left /\ UNCHANGED live
                 /\ stage'[r].phase = "done" /\ stage'[r].left = {}
<1>0. Types /\ stage[r] \in StageType /\ live["volume"] \in Content /\ "volume" \in Data
  BY DEF TypeInv, Types, Data
<1>1. stage[r].new \in Content /\ stage[r].old \in Content /\ stage[r].left \in Content
  BY <1>0 DEF StageType
<1>2. ASSUME NEW x, x \in live["volume"] \/ x \in stage[r].new PROVE x \in (0..MaxWrites) \X File
  BY <1>0, <1>1, <1>2 DEF Content
<1>3. ASSUME NEW x \in (0..MaxWrites) \X File, NEW dir \in Content PROVE Put(x, dir) \in Content
  BY DEF Put, Content
<1>4. ASSUME NEW g \in StageType, stage' = [stage EXCEPT ![r] = g]
      PROVE  stage' \in [Run -> StageType] /\ stage'[r] = g /\ \A q \in Run \ {r} : stage'[q] = stage[q]
  BY <1>0, <1>4 DEF Types
<1>5. ASSUME NEW c \in Content, live' = [live EXCEPT !["volume"] = c]
      PROVE  live' \in [Data -> Content] /\ live'["volume"] = c
  BY <1>0, <1>5 DEF Types
<1>6. ASSUME NEW x \in (0..MaxWrites) \X File, LeaveBehind(r, x)
      PROVE  /\ live' = live /\ stage' \in [Run -> StageType] /\ torn' = TRUE
             /\ \A q \in Run \ {r} : stage'[q] = stage[q]
  <2> DEFINE g == [stage[r] EXCEPT !.left = @ \cup {x}]
  <2>1. stage[r].left \cup {x} \in Content
    BY <1>1 DEF Content
  <2>2. g \in StageType
    BY <1>0, <2>1 DEF StageType
  <2>3. stage' = [stage EXCEPT ![r] = g]
    BY <1>0, <1>6 DEF LeaveBehind, Types
  <2> HIDE DEF g
  <2> QED BY <1>4, <1>6, <2>2, <2>3 DEF LeaveBehind
<1>7. ASSUME NEW x \in live["volume"], MoveOut(r, x)
      PROVE  /\ UNCHANGED <<jobs, store, apps, writes, truth, hollow>> /\ live' \in [Data -> Content]
             /\ stage' \in [Run -> StageType] /\ torn' \in BOOLEAN /\ (torn => torn')
             /\ \A q \in Run \ {r} : stage'[q] = stage[q]
             /\ stage[r].phase = "out"
             /\ torn' \/ (stage'[r].phase = "out" /\ stage'[r].new = stage[r].new /\ stage'[r].left = stage[r].left)
  <2>1. CASE LeaveBehind(r, x)
    BY <1>0, <1>2, <1>6, <1>7, <2>1 DEF MoveOut, Types
  <2>2. CASE /\ live' = [live EXCEPT !["volume"] = @ \ {x}] /\ stage' = [stage EXCEPT ![r].old = Put(x, @)]
             /\ UNCHANGED <<faults, torn>>
    <3> DEFINE g == [stage[r] EXCEPT !.old = Put(x, @)]
    <3>1. Put(x, stage[r].old) \in Content /\ live["volume"] \ {x} \in Content
      BY <1>0, <1>1, <1>2, <1>3 DEF Content
    <3>2. g \in StageType /\ g.phase = stage[r].phase /\ g.new = stage[r].new /\ g.left = stage[r].left
      BY <1>0, <3>1 DEF StageType
    <3>3. stage' = [stage EXCEPT ![r] = g] /\ live' = [live EXCEPT !["volume"] = live["volume"] \ {x}]
      BY <1>0, <2>2 DEF Types
    <3> HIDE DEF g
    <3>4. stage' \in [Run -> StageType] /\ stage'[r] = g /\ \A q \in Run \ {r} : stage'[q] = stage[q]
      BY <1>4, <3>2, <3>3
    <3>5. live' \in [Data -> Content]
      BY <1>5, <3>1, <3>3
    <3> QED BY <1>0, <1>7, <2>2, <3>2, <3>4, <3>5 DEF MoveOut, Types
  <2> QED BY <1>7, <2>1, <2>2 DEF MoveOut
<1>8. ASSUME NEW x \in stage[r].new, MoveIn(r, x)
      PROVE  /\ UNCHANGED <<jobs, store, apps, writes, truth, hollow>> /\ live' \in [Data -> Content]
             /\ stage' \in [Run -> StageType] /\ torn' \in BOOLEAN /\ (torn => torn')
             /\ \A q \in Run \ {r} : stage'[q] = stage[q]
             /\ stage[r].phase = "in"
             /\ \/ torn'
                \/ /\ stage'[r].phase = "in" /\ stage'[r].left = stage[r].left
                   /\ live'["volume"] = Put(x, live["volume"]) /\ stage'[r].new = stage[r].new \ {x}
  <2>1. CASE LeaveBehind(r, x)
    BY <1>0, <1>2, <1>6, <1>8, <2>1 DEF MoveIn, Types
  <2>2. CASE /\ live' = [live EXCEPT !["volume"] = Put(x, @)] /\ stage' = [stage EXCEPT ![r].new = @ \ {x}]
             /\ UNCHANGED <<faults, torn>>
    <3> DEFINE g == [stage[r] EXCEPT !.new = @ \ {x}]
    <3>1. Put(x, live["volume"]) \in Content /\ stage[r].new \ {x} \in Content
      BY <1>0, <1>1, <1>2, <1>3 DEF Content
    <3>2. g \in StageType /\ g.phase = stage[r].phase /\ g.new = stage[r].new \ {x} /\ g.left = stage[r].left
      BY <1>0, <3>1 DEF StageType
    <3>3. stage' = [stage EXCEPT ![r] = g] /\ live' = [live EXCEPT !["volume"] = Put(x, live["volume"])]
      BY <1>0, <2>2 DEF Types
    <3> HIDE DEF g
    <3>4. stage' \in [Run -> StageType] /\ stage'[r] = g /\ \A q \in Run \ {r} : stage'[q] = stage[q]
      BY <1>4, <3>2, <3>3
    <3>5. live' \in [Data -> Content] /\ live'["volume"] = Put(x, live["volume"])
      BY <1>5, <3>1, <3>3
    <3> QED BY <1>0, <1>8, <2>2, <3>2, <3>4, <3>5 DEF MoveIn, Types
  <2> QED BY <1>8, <2>1, <2>2 DEF MoveIn
<1>9. ASSUME NEW ph \in Phases, stage' = [stage EXCEPT ![r].phase = ph, ![r].left = {}]
      PROVE  /\ stage' \in [Run -> StageType] /\ \A q \in Run \ {r} : stage'[q] = stage[q]
             /\ stage'[r].phase = ph /\ stage'[r].left = {} /\ stage'[r].new = stage[r].new
  <2> DEFINE g == [stage[r] EXCEPT !.phase = ph, !.left = {}]
  <2>1. g \in StageType /\ g.phase = ph /\ g.left = {} /\ g.new = stage[r].new
    BY <1>0 DEF StageType, Content
  <2>2. stage' = [stage EXCEPT ![r] = g]
    BY <1>0, <1>9 DEF Types
  <2> HIDE DEF g
  <2> QED BY <1>4, <2>1, <2>2
<1>10. ASSUME ScriptNext(r)
       PROVE  /\ UNCHANGED <<jobs, store, live, apps, writes, truth, hollow, torn>>
              /\ stage' \in [Run -> StageType] /\ \A q \in Run \ {r} : stage'[q] = stage[q]
              /\ stage'[r].left = {} /\ stage'[r].new = stage[r].new
              /\ \/ stage[r].phase = "out" /\ live["volume"] \subseteq stage[r].left /\ stage'[r].phase = "in"
                 \/ stage[r].phase = "in" /\ stage[r].new \subseteq stage[r].left /\ stage'[r].phase = "done"
  <2>1. {"in", "done"} \subseteq Phases
    BY DEF Phases
  <2> QED BY <1>9, <1>10, <2>1 DEF ScriptNext, history
<1>11. CASE \E x \in live["volume"] : MoveOut(r, x)
  BY <1>7, <1>11
<1>12. CASE \E x \in stage[r].new : MoveIn(r, x)
  BY <1>8, <1>12
<1>13. CASE ScriptNext(r)
  BY <1>0, <1>10, <1>13 DEF Types
<1> QED BY <1>11, <1>12, <1>13 DEF Script

LEMMA ScriptTypes == ASSUME TypeInv, NEW r \in Run, Script(r) PROVE TypeInv'
<1>1. Types
  BY DEF TypeInv
<1>2. /\ UNCHANGED <<jobs, store, hollow>> /\ live' \in [Data -> Content] /\ stage' \in [Run -> StageType]
      /\ apps' = apps /\ writes' = writes /\ truth' = truth /\ torn' \in BOOLEAN
  BY ScriptStep
<1> QED BY <1>1, <1>2, DataStepTypes DEF Types

LEMMA AppWriteStep ==
    ASSUME TypeInv, AppWrite
    PROVE  /\ UNCHANGED <<jobs, store, stage, apps, hollow, torn>> /\ writes' \in 0..MaxWrites
           /\ live' \in [Data -> Content] /\ truth' = Whole(writes + 1) /\ truth' \in Content /\ live'["volume"] = truth'
<1>1. writes + 1 \in 0..MaxWrites
  BY BackupsAssumption DEF TypeInv, Types, AppWrite
<1> QED BY <1>1, WholeContent DEF AppWrite, Data

LEMMA AppWriteTypes == ASSUME TypeInv, AppWrite PROVE TypeInv'
BY AppWriteStep, DataStepTypes DEF TypeInv, Types

LEMMA AgeTypes == ASSUME TypeInv, NEW r \in Run, Age(r) PROVE TypeInv'
<1>1. UNCHANGED <<jobs, snap, obj, data, history>> /\ aged' = aged \cup {r} /\ job[r].pc = "idle" /\ row[r].status # "none"
  BY DEF Age
<1>2. Types'
  BY <1>1 DEF TypeInv, Types, jobs, data, history
<1>3. ASSUME NEW q \in Run PROVE JobOK(q)'
  BY <1>1 DEF TypeInv, JobOK, jobs
<1> QED BY <1>2, <1>3 DEF TypeInv

LEMMA JobStepTypes == ASSUME TypeInv, NEW r \in Run, JobStep(r) PROVE TypeInv' /\ Local(r)
<1>1. CASE TickExecute(r) \/ Acquire(r) \/ Finish(r)
  BY <1>1, TickExecuteTypes, AcquireTypes, FinishTypes
<1>2. CASE Begin(r) \/ (\E s \in Data : Upload(r, s)) \/ Record(r) \/ Judge(r)
  BY <1>2, BeginTypes, UploadTypes, RecordTypes, JudgeTypes
<1>3. CASE Retain(r) \/ Sweep(r) \/ Mark(r) \/ Verify(r)
  BY <1>3, RetainTypes, SweepTypes, MarkTypes, VerifyTypes
<1>4. CASE \/ Check(r) \/ Load(r) \/ Extract(r) \/ Ps(r) \/ Stop(r) \/ Swap(r) \/ SwapEnd(r) \/ Rollback(r) \/ Restart(r)
  BY <1>4, RestoreTypes
<1> QED BY <1>1, <1>2, <1>3, <1>4 DEF JobStep

LEMMA NextTypes == ASSUME TypeInv, [Next]_vars PROVE TypeInv'
<1>1. CASE \E p \in Proc : Boot(p) \/ Crash(p) \/ Shutdown(p) \/ Exit(p)
  BY <1>1, BootTypes, DieTypes, ShutdownTypes DEF Crash, Exit
<1>2. CASE \E p \in Proc, r \in Run : StartBackup(p, r) \/ StartVerify(p, r) \/ StartRestore(p, r) \/ ClaimDue(p, r)
  BY <1>2, StartTypes
<1>3. CASE \E r \in Run : Timeout(r) \/ Age(r) \/ JobStep(r) \/ Script(r)
  BY <1>3, TimeoutTypes, AgeTypes, JobStepTypes, ScriptTypes
<1>4. CASE AppWrite
  BY <1>4, AppWriteTypes
<1>5. CASE UNCHANGED vars
  <2>1. Types'
    BY <1>5 DEF TypeInv, Types, vars, jobs, store, data, history
  <2>2. ASSUME NEW r \in Run PROVE JobOK(r)'
    BY <1>5 DEF TypeInv, JobOK, vars, jobs, store
  <2> QED BY <2>1, <2>2 DEF TypeInv
<1> QED BY <1>1, <1>2, <1>3, <1>4, <1>5 DEF Next

LEMMA AlwaysTypes == Spec => []TypeInv
<1>1. TypeInv /\ [Next]_vars => TypeInv'
  BY NextTypes
<1> QED BY <1>1, InitTypes, PTL DEF Spec

\* Whatever fails, is lost or races, the tables, the objects and the live data keep
\* their types.
THEOREM BackupsTypeCorrect == Spec => []TypeOK
<1>1. TypeInv => TypeOK
  BY DEF TypeInv, Types, TypeOK, Statuses
<1> QED BY <1>1, AlwaysTypes, PTL

-----------------------------------------------------------------------------
(* Retention: lemmas. *)

LEMMA InitRetention == Init => Retention
<1> SUFFICES ASSUME Init PROVE Retention
  OBVIOUS
<1>1. ASSUME NEW r \in Run PROVE Stored(r)
  BY DEF Init, Stored, Judged, Idle, Retaining
<1>2. Keeper
  BY DEF Init, Keeper, Succeeded
<1> QED BY <1>1, <1>2, InitTypes DEF Retention

LEMMA RetentionParts ==
    ASSUME Retention, NEW r \in Run
    PROVE  TypeInv /\ Types /\ JobOK(r) /\ Stored(r) /\ Keeper /\ job[r] \in JobType
BY DEF Retention, TypeInv, Types

\* What the others have stored stays.
LEMMA LocalStored ==
    ASSUME Retention, NEW r \in Run, Local(r)
    PROVE  \A q \in Run \ {r} : Stored(q)'
<1> SUFFICES ASSUME NEW q \in Run \ {r} PROVE Stored(q)'
  OBVIOUS
<1>1. JobOK(q) /\ Stored(q) /\ job'[q] = job[q] /\ row'[q] = row[q] /\ hollow \subseteq hollow'
  BY RetentionParts DEF Local
<1>2. ASSUME job[q].pc # "idle", NEW s \in Data, Has(q, s) PROVE Has(q, s)'
  <2>1. PICK sn \in snap : sn.run = q /\ sn.src = s /\ Intact(sn)
    BY <1>2 DEF Has
  <2>2. q \notin aged
    BY <1>1, <1>2 DEF JobOK
  <2>3. sn \in snap' /\ obj'[<<q, s>>] = obj[<<q, s>>]
    BY <2>1, <2>2 DEF Local
  <2> QED BY <2>1, <2>3 DEF Has, Intact, Key
<1>3. Judged(q)' => Judged(q)
  BY <1>1 DEF Judged
<1> QED BY <1>1, <1>2, <1>3 DEF Stored

LEMMA LocalRetention ==
    ASSUME Retention, NEW r \in Run, Local(r), TypeInv', Stored(r)', Keeper'
    PROVE  Retention'
BY LocalStored DEF Retention

LEMMA KeeperKept ==
    ASSUME Keeper, hollow \subseteq hollow', \A q \in Run : Succeeded(q)' => Succeeded(q),
           \A sn \in snap : Safe(sn) => sn \in snap' /\ Safe(sn)'
    PROVE  Keeper'
BY DEF Keeper

LEMMA SafeKept ==
    ASSUME TypeInv, NEW r \in Run, Local(r), job[r].pc # "idle", row'[r].status # "none",
           job'[r].pc = "idle" \/ job[r].done \subseteq job'[r].done,
           NEW sn \in snap, Safe(sn), obj'[Key(sn)] = obj[Key(sn)],
           \A t \in job'[r].list : t.run # sn.run
    PROVE  Safe(sn)'
<1>1. sn.run \in Run
  BY DEF TypeInv, Types, Snapshot
<1>2. Intact(sn)'
  BY DEF Safe, Intact, Key
<1>3. row'[sn.run].status # "none"
  BY <1>1 DEF Safe, Local
<1>4. job'[sn.run].pc = "idle" \/ sn.src \in job'[sn.run].done
  BY <1>1 DEF Safe, Local
<1>5. \A q \in Run : \A t \in job'[q].list : t.run # sn.run
  BY DEF Safe, Local
<1> QED BY <1>2, <1>3, <1>4, <1>5 DEF Safe

\* What passed judge is safe.
LEMMA JudgedSafe ==
    ASSUME Retention, NEW r \in Run, Judged(r), NEW s \in Data \ hollow
    PROVE  \E sn \in snap : sn.run = r /\ sn.src = s /\ Safe(sn)
<1>1. JobOK(r) /\ Stored(r) /\ job[r].pc # "idle"
  BY RetentionParts DEF Judged, Retaining
<1>2. s \in job[r].done \ job[r].skipped
  BY <1>1 DEF Stored
<1>3. PICK sn \in snap : sn.run = r /\ sn.src = s /\ Intact(sn)
  BY <1>1, <1>2 DEF Stored, Has
<1>4. r \notin aged /\ row[r].status # "none"
  BY <1>1 DEF JobOK
<1>5. \A q \in Run : \A t \in job[q].list : t.run \in aged
  BY DEF Retention, TypeInv, JobOK
<1> QED BY <1>2, <1>3, <1>4, <1>5 DEF Safe

\* Steps outside the goroutines: processes, the clock, the script, the application.
LEMMA TameRetention ==
    ASSUME Retention, TypeInv', UNCHANGED <<snap, obj, hollow>>,
           \A r \in Run : /\ row'[r].kind = row[r].kind /\ (row[r].status # "none" => row'[r].status # "none")
                          /\ row'[r].status = "success" => row[r].status = "success",
           \A r \in Run : \/ job'[r] = Idle
                          \/ Like(job'[r], job[r]) /\ job'[r].pc = job[r].pc /\ job'[r].err = job[r].err
    PROVE  Retention'
<1>1. ASSUME NEW sn \in snap, Safe(sn) PROVE sn \in snap' /\ Safe(sn)'
  <2>1. sn.run \in Run
    BY DEF Retention, TypeInv, Types, Snapshot
  <2>2. Intact(sn)' /\ row'[sn.run].status # "none"
    BY <1>1, <2>1 DEF Safe, Intact, Key
  <2>3. job'[sn.run].pc = "idle" \/ sn.src \in job'[sn.run].done
    BY <1>1, <2>1, IdleList DEF Safe, Like
  <2>4. \A q \in Run : job'[q].list \subseteq job[q].list
    BY IdleList DEF Like
  <2> QED BY <1>1, <2>2, <2>3, <2>4 DEF Safe
<1>2. \A q \in Run : Succeeded(q)' => Succeeded(q)
  BY DEF Succeeded
<1>3. Keeper'
  BY <1>1, <1>2, KeeperKept DEF Retention
<1>4. ASSUME NEW r \in Run PROVE Stored(r)'
  <2>1. CASE job'[r] = Idle
    BY <2>1, IdleList DEF Stored, Judged, Retaining
  <2>2. CASE Like(job'[r], job[r]) /\ job'[r].pc = job[r].pc /\ job'[r].err = job[r].err
    <3>1. Stored(r) /\ (Judged(r)' => Judged(r))
      BY <2>2, RetentionParts DEF Judged
    <3>2. \A s \in Data : Has(r, s) => Has(r, s)'
      BY DEF Has, Intact, Key
    <3> QED BY <2>2, <3>1, <3>2 DEF Stored, Like
  <2> QED BY <2>1, <2>2
<1> QED BY <1>3, <1>4 DEF Retention

\* Steps of a goroutine that leave the store alone and do not come past judge.
LEMMA CalmRetention ==
    ASSUME Retention, NEW r \in Run, TypeInv', Local(r), UNCHANGED <<snap, obj, hollow>>, job[r].pc # "idle",
           row'[r].kind = row[r].kind, row'[r].status = row[r].status \/ row'[r].status = "failed",
           job'[r].list \subseteq job[r].list,
           job'[r].pc = "idle" \/ (job[r].done \subseteq job'[r].done /\ job'[r].skipped = job[r].skipped),
           job'[r].pc # "idle" => job'[r].done \subseteq job[r].done \cup {"manifest"},
           job'[r].pc \notin {"volume", "record"}, job'[r].pc = "judge" => job'[r].err, ~Judged(r)'
    PROVE  Retention'
<1>1. JobOK(r) /\ Stored(r) /\ TypeInv /\ Keeper
  BY RetentionParts
<1>2. ASSUME NEW sn \in snap, Safe(sn) PROVE sn \in snap' /\ Safe(sn)'
  <2>1. row'[r].status # "none"
    BY <1>1 DEF JobOK
  <2>2. \A t \in job'[r].list : t.run # sn.run
    BY <1>2 DEF Safe
  <2> QED BY <1>1, <1>2, <2>1, <2>2, SafeKept
<1>3. \A q \in Run : Succeeded(q)' => Succeeded(q)
  BY DEF Succeeded, Local
<1>4. Keeper'
  BY <1>1, <1>2, <1>3, KeeperKept
<1>5. \A s \in Data : Has(r, s) => Has(r, s)'
  BY DEF Has, Intact, Key
<1>6. Stored(r)'
  BY <1>1, <1>5 DEF Stored, Data
<1> QED BY <1>4, <1>6, LocalRetention

-----------------------------------------------------------------------------
(* Retention: the steps. *)

LEMMA ProcessRetention ==
    ASSUME Retention, NEW p \in Proc, Boot(p) \/ Crash(p) \/ Shutdown(p) \/ Exit(p)
    PROVE  Retention'
<1>0. TypeInv /\ Types /\ \A r \in Run : job[r] \in JobType /\ row[r] \in [kind : Kinds, status : Statuses]
  BY DEF Retention, TypeInv, Types
<1>1. TypeInv'
  BY <1>0, BootTypes, DieTypes, ShutdownTypes DEF Crash, Exit
<1>2. CASE Boot(p)
  <2>1. \A r \in Run : /\ row'[r].kind = row[r].kind /\ (row[r].status # "none" => row'[r].status # "none")
                       /\ row'[r].status = "success" => row[r].status = "success"
    <3>1. CASE row' = FailOrphans
      BY <1>0, <3>1 DEF FailOrphans
    <3>2. CASE UNCHANGED row
      BY <3>2
    <3> QED BY <1>2, <3>1, <3>2 DEF Boot
  <2>2. UNCHANGED <<snap, obj, hollow, job>>
    BY <1>2 DEF Boot, store
  <2> QED BY <1>1, <2>1, <2>2, TameRetention DEF Like
<1>3. CASE Die(p)
  <2>1. UNCHANGED <<snap, obj, hollow, row>> /\ \A r \in Run : job'[r] = Idle \/ job'[r] = job[r]
    BY <1>3 DEF Die, store
  <2> QED BY <1>1, <2>1, TameRetention DEF Like
<1>4. CASE Shutdown(p)
  <2>1. UNCHANGED <<snap, obj, hollow, row>>
        /\ \A r \in Run : job'[r] = [job[r] EXCEPT !.ended = TRUE] \/ job'[r] = job[r]
    BY <1>4 DEF Shutdown, store, history
  <2>2. \A r \in Run : Like(job'[r], job[r]) /\ job'[r].pc = job[r].pc /\ job'[r].err = job[r].err
    BY <1>0, <2>1 DEF Like, JobType
  <2> QED BY <1>1, <2>1, <2>2, TameRetention
<1> QED BY <1>2, <1>3, <1>4 DEF Crash, Exit

LEMMA TimeoutRetention == ASSUME Retention, NEW r \in Run, Timeout(r) PROVE Retention'
<1>0. TypeInv /\ Types /\ job[r] \in JobType
  BY DEF Retention, TypeInv, Types
<1>1. TypeInv'
  BY <1>0, TimeoutTypes
<1>2. UNCHANGED <<snap, obj, hollow, row>>
  BY DEF Timeout, store, history
<1>3. job'[r] = [job[r] EXCEPT !.ended = TRUE] /\ \A q \in Run \ {r} : job'[q] = job[q]
  BY <1>0, StepAt DEF Timeout
<1>4. Like(job'[r], job[r]) /\ job'[r].pc = job[r].pc /\ job'[r].err = job[r].err
  BY <1>0, <1>3 DEF Like, JobType
<1>5. \A q \in Run : Like(job'[q], job[q]) /\ job'[q].pc = job[q].pc /\ job'[q].err = job[q].err
  BY <1>3, <1>4 DEF Like
<1> QED BY <1>1, <1>2, <1>5, TameRetention

LEMMA DataRetention ==
    ASSUME Retention, (\E r \in Run : Age(r) \/ Script(r)) \/ AppWrite \/ UNCHANGED vars
    PROVE  Retention'
<1>0. TypeInv
  BY DEF Retention
<1>1. TypeInv'
  BY <1>0, AgeTypes, ScriptTypes, AppWriteTypes, NextTypes
<1>2. UNCHANGED <<snap, obj, hollow, row, job>>
  BY <1>0, ScriptStep, AppWriteStep DEF Age, vars, jobs, store, history
<1> QED BY <1>1, <1>2, TameRetention DEF Like

LEMMA InsertRetention ==
    ASSUME Retention, TypeInv', NEW p \in Proc, NEW r \in Run, NEW kind \in Kinds, NEW j \in JobType,
           Insert(p, r, kind, j), j.pc \in {"claimed", "acquire"}, j.list = {}, j.done = {}
    PROVE  Retention'
<1>1. Types /\ Keeper
  BY RetentionParts
<1>2. [j EXCEPT !.by = p].pc = j.pc /\ [j EXCEPT !.by = p].list = {} /\ [j EXCEPT !.by = p].done = {}
  BY DEF JobType
<1>3. job'[r] = [j EXCEPT !.by = p] /\ \A q \in Run \ {r} : job'[q] = job[q]
  BY <1>1, StepAt DEF Insert
<1>4. row'[r].status = "running" /\ row[r].status = "none" /\ \A q \in Run \ {r} : row'[q] = row[q]
  BY <1>1 DEF Insert, Types
<1>5. UNCHANGED <<snap, obj, hollow>>
  BY DEF Insert, store, history
<1>6. ASSUME NEW sn \in snap, Safe(sn) PROVE sn \in snap' /\ Safe(sn)'
  <2>1. sn.run \in Run \ {r}
    BY <1>1, <1>4, <1>6 DEF Types, Snapshot, Safe
  <2>2. Intact(sn)'
    BY <1>5, <1>6 DEF Safe, Intact, Key
  <2> QED BY <1>2, <1>3, <1>4, <1>5, <1>6, <2>1, <2>2 DEF Safe
<1>7. \A q \in Run : Succeeded(q)' => Succeeded(q)
  BY <1>4 DEF Succeeded
<1>8. Keeper'
  BY <1>1, <1>5, <1>6, <1>7, KeeperKept
<1>9. Stored(r)'
  BY <1>2, <1>3 DEF Stored, Judged, Retaining
<1>10. ASSUME NEW q \in Run \ {r} PROVE Stored(q)'
  <2>1. Stored(q) /\ (Judged(q)' => Judged(q))
    BY <1>3, <1>4, RetentionParts DEF Judged
  <2>2. \A s \in Data : Has(q, s) => Has(q, s)'
    BY <1>5 DEF Has, Intact, Key
  <2> QED BY <1>3, <1>5, <2>1, <2>2 DEF Stored
<1> QED BY <1>8, <1>9, <1>10 DEF Retention

LEMMA StartRetention ==
    ASSUME Retention, NEW p \in Proc, NEW r \in Run,
           StartBackup(p, r) \/ StartVerify(p, r) \/ StartRestore(p, r) \/ ClaimDue(p, r)
    PROVE  Retention'
<1>1. TypeInv /\ TypeInv'
  BY StartTypes DEF Retention
<1>2. PICK kind \in Kinds, j \in JobType : Insert(p, r, kind, j) /\ j.pc \in {"claimed", "acquire"} /\ j.list = {} /\ j.done = {}
  <2>1. ASSUME NEW inc \in Includes
        PROVE  /\ [Idle EXCEPT !.pc = "acquire", !.inc = inc] \in JobType
               /\ [Idle EXCEPT !.pc = "acquire", !.inc = inc].pc = "acquire"
               /\ [Idle EXCEPT !.pc = "acquire", !.inc = inc].list = {}
               /\ [Idle EXCEPT !.pc = "acquire", !.inc = inc].done = {}
    <3>1. inc \subseteq Data
      BY BackupsAssumption
    <3> QED BY <3>1, IdleType, IdleList DEF JobType, Pcs, Waiting
  <2>2. ASSUME NEW sn \in snap
        PROVE  /\ [Idle EXCEPT !.pc = "acquire", !.pick = sn] \in JobType
               /\ [Idle EXCEPT !.pc = "acquire", !.pick = sn].pc = "acquire"
               /\ [Idle EXCEPT !.pc = "acquire", !.pick = sn].list = {}
               /\ [Idle EXCEPT !.pc = "acquire", !.pick = sn].done = {}
    <3>1. sn \in Snapshot
      BY <1>1 DEF TypeInv, Types
    <3> QED BY <3>1, IdleType, IdleList DEF JobType, Pcs, Waiting
  <2>3. ASSUME NEW pc \in {"claimed", "acquire"}
        PROVE  /\ [Idle EXCEPT !.pc = pc] \in JobType /\ [Idle EXCEPT !.pc = pc].pc = pc
               /\ [Idle EXCEPT !.pc = pc].list = {} /\ [Idle EXCEPT !.pc = pc].done = {}
    BY IdleType, IdleList DEF JobType, Pcs, Waiting
  <2>4. CASE StartBackup(p, r)
    BY <2>1, <2>4 DEF StartBackup, Kinds
  <2>5. CASE StartVerify(p, r)
    BY <2>3, <2>5 DEF StartVerify, Kinds
  <2>6. CASE StartRestore(p, r)
    BY <2>2, <2>6 DEF StartRestore, Kinds
  <2>7. CASE ClaimDue(p, r)
    BY <2>3, <2>7 DEF ClaimDue, Kinds
  <2> QED BY <2>4, <2>5, <2>6, <2>7
<1> QED BY <1>1, <1>2, InsertRetention

LEMMA TickExecuteRetention == ASSUME Retention, NEW r \in Run, TickExecute(r) PROVE Retention'
<1>1. TypeInv /\ Types /\ job[r].pc = "claimed" /\ job[r] \in JobType /\ row[r] \in [kind : Kinds, status : Statuses]
  BY AtFacts DEF TickExecute, Retention, Types
<1>2. TypeInv' /\ Local(r) /\ UNCHANGED <<snap, obj, hollow>>
  BY <1>1, TickExecuteTypes DEF TickExecute, store
<1>3. row'[r].kind = row[r].kind /\ (row'[r].status = row[r].status \/ row'[r].status = "failed")
  <2>1. CASE UNCHANGED row
    BY <2>1
  <2>2. CASE FinishRun(r, "failed")
    BY <1>1, <2>2 DEF FinishRun, Types
  <2> QED BY <2>1, <2>2 DEF TickExecute
<1>4. CASE Step(r, Idle)
  <2>1. job'[r] = Idle
    BY <1>1, <1>4, IdleJob
  <2> QED BY <1>1, <1>2, <1>3, <2>1, IdleList, CalmRetention DEF Judged, Retaining
<1>5. ASSUME NEW inc \in Includes, Step(r, [job[r] EXCEPT !.pc = "acquire", !.inc = inc]) PROVE Retention'
  <2>1. job'[r] = [job[r] EXCEPT !.pc = "acquire", !.inc = inc]
    BY <1>1, <1>5, StepAt
  <2>2. job'[r].pc = "acquire" /\ job'[r].list = job[r].list /\ job'[r].done = job[r].done /\ job'[r].skipped = job[r].skipped
    BY <1>1, <2>1 DEF JobType
  <2> QED BY <1>1, <1>2, <1>3, <2>2, CalmRetention DEF Judged, Retaining
<1> QED BY <1>4, <1>5 DEF TickExecute

LEMMA AcquireRetention == ASSUME Retention, NEW r \in Run, Acquire(r) PROVE Retention'
<1>1. TypeInv /\ Types /\ job[r].pc = "acquire"
  BY AtFacts DEF Acquire, Retention
<1>2. TypeInv' /\ Local(r) /\ UNCHANGED <<snap, obj, hollow, row>>
  BY <1>1, AcquireTypes DEF Acquire, store, history
<1>3. CASE Fail(r, "finish")
  <2>1. Like(job'[r], job[r]) /\ job'[r].pc = "finish" /\ job'[r].err
    BY <1>1, <1>3, FailJob DEF Pcs
  <2> QED BY <1>1, <1>2, <2>1, CalmRetention DEF Judged, Retaining, Like
<1>4. ASSUME NEW pc \in {"begin", "verify", "check"}, Goto(r, pc) PROVE Retention'
  <2>1. Like(job'[r], job[r]) /\ job'[r].pc = pc
    BY <1>1, <1>4, GotoJob DEF Pcs, Storing, Restoring
  <2> QED BY <1>1, <1>2, <2>1, CalmRetention DEF Judged, Retaining, Like
<1> QED BY <1>3, <1>4 DEF Acquire

LEMMA VerifyRetention == ASSUME Retention, NEW r \in Run, Verify(r) PROVE Retention'
<1>1. TypeInv /\ Types /\ job[r].pc = "verify" /\ row[r].kind = "verify"
  BY AtFacts DEF Verify, Retention, JobOK
<1>2. TypeInv' /\ Local(r) /\ UNCHANGED <<snap, obj, hollow, row>>
  BY <1>1, VerifyTypes DEF Verify, store, history
<1>3. Like(job'[r], job[r]) /\ job'[r].pc = "finish"
  BY <1>1, GotoJob, FailJob DEF Verify, Pcs
<1> QED BY <1>1, <1>2, <1>3, CalmRetention DEF Judged, Retaining, Like

LEMMA RestoreRetention ==
    ASSUME Retention, NEW r \in Run,
           \/ Check(r) \/ Load(r) \/ Extract(r) \/ Ps(r) \/ Stop(r) \/ Swap(r) \/ SwapEnd(r) \/ Rollback(r) \/ Restart(r)
    PROVE  Retention'
<1>1. TypeInv
  BY DEF Retention
<1>2. TypeInv' /\ Local(r) /\ RestoreStep(r)
  BY <1>1, RestoreTypes
<1>3. row[r].kind = "restore"
  BY <1>1, <1>2 DEF TypeInv, JobOK, RestoreStep
<1>4. job'[r].done = job[r].done /\ job'[r].skipped = job[r].skipped
  <2>1. CASE Check(r) \/ Load(r) \/ Extract(r)
    BY <1>1, <2>1, CheckJob, LoadJob, ExtractJob DEF Like
  <2>2. CASE Ps(r) \/ Swap(r) \/ SwapEnd(r)
    BY <1>1, <2>2, PsJob, SwapJob, SwapEndJob DEF Like
  <2>3. CASE Stop(r) \/ Rollback(r) \/ Restart(r)
    BY <1>1, <2>3, StopJob, RollbackJob, RestartJob
  <2> QED BY <2>1, <2>2, <2>3
<1>5. job[r].pc # "idle" /\ job'[r].pc \notin {"volume", "record", "judge", "retain", "sweep", "mark"}
  BY <1>2 DEF RestoreStep, Restoring
<1>6. UNCHANGED <<snap, obj, hollow, row>> /\ job'[r].list = job[r].list
  BY <1>2 DEF RestoreStep, store
<1>7. ~Judged(r)'
  BY <1>3, <1>5, <1>6 DEF Judged, Retaining
<1> QED BY <1>2, <1>4, <1>5, <1>6, <1>7, CalmRetention

LEMMA BeginRetention == ASSUME Retention, NEW r \in Run, Begin(r) PROVE Retention'
<1>1. TypeInv /\ Types /\ job[r].pc = "begin"
  BY AtFacts DEF Begin, Retention
<1>2. TypeInv' /\ Local(r) /\ UNCHANGED <<snap, obj, hollow, row>>
  BY <1>1, BeginTypes DEF Begin, store, history
<1>3. /\ job'[r].skipped = job[r].skipped /\ job'[r].list = job[r].list
      /\ job[r].done \subseteq job'[r].done /\ job'[r].done \subseteq job[r].done \cup {"manifest"}
      /\ job'[r].pc = "database" \/ (job'[r].pc = "judge" /\ job'[r].err)
  BY <1>1, BeginJob DEF Akin
<1> QED BY <1>1, <1>2, <1>3, CalmRetention DEF Judged, Retaining

LEMMA UploadRetention == ASSUME Retention, NEW r \in Run, NEW s \in Data, Upload(r, s) PROVE Retention'
<1>1. TypeInv /\ Types /\ job[r].pc = s /\ job[r].pc # "idle" /\ JobOK(r) /\ Stored(r) /\ Keeper /\ job[r] \in JobType
  BY AtFacts, RetentionParts DEF Upload, Data
<1>2. TypeInv' /\ Local(r) /\ UNCHANGED <<snap, hollow, row>>
  BY <1>1, UploadTypes DEF Upload, history
<1>3. job'[r].list = job[r].list /\ job'[r].inc = job[r].inc
  BY <1>1, UploadJob DEF Akin
<1>4. \/ UNCHANGED obj
      \/ obj' = [obj EXCEPT ![<<r, s>>] = live[s]] /\ s \notin job[r].done
  BY <1>1, UploadJob
<1>5. /\ job[r].done \subseteq job'[r].done /\ job[r].skipped \subseteq job'[r].skipped
      /\ job'[r].pc \in {"volume", "judge", "record"}
  BY <1>1, UploadJob DEF Like, After
<1>6. \A t \in job[r].done \cap Data : obj'[<<r, t>>] = obj[<<r, t>>]
  BY <1>1, <1>4 DEF Types
<1>7. ASSUME NEW sn \in snap, Safe(sn) PROVE sn \in snap' /\ Safe(sn)'
  <2>1. sn \in Snapshot /\ sn.run \in Run /\ sn.src \in Data
    BY <1>1 DEF Types, Snapshot
  <2>2. Key(sn) # <<r, s>> \/ UNCHANGED obj
    BY <1>1, <1>4, <1>7 DEF Safe, Key
  <2>3. Key(sn) \in Run \X Data
    BY <2>1 DEF Key
  <2>4. obj'[Key(sn)] = obj[Key(sn)]
    BY <1>1, <1>4, <2>2, <2>3 DEF Types
  <2>5. row'[r].status # "none" /\ \A t \in job'[r].list : t.run # sn.run
    BY <1>1, <1>2, <1>3, <1>7 DEF JobOK, Safe
  <2> QED BY <1>1, <1>2, <1>5, <1>7, <2>4, <2>5, SafeKept
<1>8. \A q \in Run : Succeeded(q)' => Succeeded(q)
  BY <1>2 DEF Succeeded
<1>9. Keeper'
  BY <1>1, <1>2, <1>7, <1>8, KeeperKept
<1>10. \A t \in job[r].done \cap Data : Has(r, t) => Has(r, t)'
  BY <1>2, <1>6 DEF Has, Intact, Key
<1>11. ~Judged(r)'
  BY <1>5 DEF Judged, Retaining
<1>12. Stored(r)'
  <2>1. job'[r].done \ job'[r].skipped \subseteq job[r].done \ job[r].skipped
    <3>1. \/ Like(job'[r], job[r])
          \/ job'[r].done \in {job[r].done, job[r].done \cup {s}} /\ job'[r].skipped = job[r].skipped \cup {s}
          \/ job'[r].done = job[r].done /\ job'[r].skipped = job[r].skipped
      BY <1>1, UploadJob
    <3> QED BY <3>1 DEF Like
  <2>2. \A t \in Data : t \in job'[r].done \ job'[r].skipped => Has(r, t)'
    BY <1>1, <1>10, <2>1 DEF Stored
  <2>3. job'[r].err \/ job[r].err = job'[r].err
    BY <1>1, UploadJob
  <2>4. job'[r].err \/ s \notin job'[r].inc \ (job'[r].done \cup job'[r].skipped) \/ job'[r].pc = "record"
    <3>1. \/ s \notin job[r].inc \ job[r].done
          \/ job'[r].err \/ job'[r].pc = "record"
          \/ job'[r].skipped = job[r].skipped \cup {s}
      BY <1>1, UploadJob
    <3> QED BY <1>3, <1>5, <3>1
  <2>5. job'[r].pc = "record" => job'[r].src = s /\ job'[r].src \notin job'[r].done
    BY <1>1, UploadJob DEF After
  <2>6. job'[r].pc = "volume" => s = "database"
    BY <1>1, UploadJob DEF After
  <2>7. job'[r].pc = "judge" => s = "volume"
    BY <1>1, UploadJob DEF After, Data
  <2>8. s = "volume" => job[r].err \/ "database" \notin job[r].inc \ (job[r].done \cup job[r].skipped)
    BY <1>1 DEF Stored
  <2>9. job[r].inc \subseteq {"database", "volume"}
    BY <1>1, JobFields DEF Data
  <2>10. job'[r].pc = "judge" => job'[r].err \/ job'[r].inc \subseteq job'[r].done \cup job'[r].skipped
    BY <1>3, <1>5, <2>3, <2>4, <2>7, <2>8, <2>9
  <2>11. job'[r].pc = "volume" \/ (job'[r].pc = "record" /\ job'[r].src = "volume") =>
            job'[r].err \/ "database" \notin job'[r].inc \ (job'[r].done \cup job'[r].skipped)
    BY <1>3, <1>5, <2>3, <2>4, <2>5, <2>6, <2>8
  <2> QED BY <1>11, <2>2, <2>5, <2>10, <2>11 DEF Stored
<1> QED BY <1>2, <1>9, <1>12, LocalRetention

LEMMA RecordRetention == ASSUME Retention, NEW r \in Run, Record(r) PROVE Retention'
<1>1. TypeInv /\ Types /\ job[r].pc = "record" /\ JobOK(r) /\ Stored(r) /\ Keeper /\ job[r] \in JobType
  BY AtFacts, RetentionParts DEF Record
<1>2. TypeInv' /\ Local(r) /\ UNCHANGED <<obj, hollow, row>>
  BY <1>1, RecordTypes DEF Record, history
<1>a. PICK s : s = job[r].src
  OBVIOUS
<1>b. PICK sn : sn = [run |-> r, src |-> s, try |-> job[r].try, sum |-> obj[<<r, s>>]]
  OBVIOUS
<1>3. s \in Data /\ job[r].inc \subseteq Data
  BY <1>1, <1>a, JobFields
<1>4. /\ job'[r].list = job[r].list /\ job'[r].inc = job[r].inc
      /\ job'[r].pc = After(s) /\ snap \subseteq snap' /\ job[r].done \subseteq job'[r].done
      /\ \/ job'[r].done = job[r].done \cup {s} /\ job'[r].skipped = job[r].skipped \ {s} /\ job'[r].err = job[r].err
            /\ sn \in snap'
         \/ job'[r].done = job[r].done /\ job'[r].skipped = job[r].skipped /\ job'[r].err
  BY <1>1, <1>a, <1>b, RecordJob DEF Akin
<1>5. sn.run = r /\ sn.src = s /\ sn.sum = obj[<<r, s>>]
  BY <1>b
<1>6. ASSUME NEW t \in snap, Safe(t) PROVE t \in snap' /\ Safe(t)'
  <2>1. row'[r].status # "none" /\ \A u \in job'[r].list : u.run # t.run
    BY <1>1, <1>2, <1>4, <1>6 DEF JobOK, Safe
  <2> QED BY <1>1, <1>2, <1>4, <1>6, <2>1, SafeKept
<1>7. \A q \in Run : Succeeded(q)' => Succeeded(q)
  BY <1>2 DEF Succeeded
<1>8. Keeper'
  BY <1>1, <1>2, <1>6, <1>7, KeeperKept
<1>9. \A t \in Data : Has(r, t) => Has(r, t)'
  BY <1>2, <1>4 DEF Has, Intact, Key
<1>10. sn \in snap' => Has(r, s)'
  BY <1>2, <1>5 DEF Has, Intact, Key
<1>11. \A t \in Data : t \in job'[r].done \ job'[r].skipped => Has(r, t)'
  BY <1>1, <1>4, <1>9, <1>10 DEF Stored
<1>12. job'[r].pc \in {"volume", "judge"} /\ ~Judged(r)'
  BY <1>3, <1>4 DEF After, Judged, Retaining, Data
<1>13. s = "volume" => job[r].err \/ "database" \notin job[r].inc \ (job[r].done \cup job[r].skipped)
  BY <1>1, <1>a DEF Stored
<1>14. /\ job'[r].pc = "volume" => job'[r].err \/ "database" \notin job'[r].inc \ (job'[r].done \cup job'[r].skipped)
       /\ job'[r].pc = "judge" => job'[r].err \/ job'[r].inc \subseteq job'[r].done \cup job'[r].skipped
  BY <1>3, <1>4, <1>13 DEF After, Data
<1>15. Stored(r)'
  BY <1>11, <1>12, <1>14 DEF Stored
<1> QED BY <1>2, <1>8, <1>15, LocalRetention

LEMMA JudgeRetention == ASSUME Retention, NEW r \in Run, Judge(r) PROVE Retention'
<1>1. TypeInv /\ Types /\ job[r].pc = "judge" /\ JobOK(r) /\ Stored(r) /\ Keeper
  BY AtFacts, RetentionParts DEF Judge
<1>2. TypeInv' /\ Local(r) /\ UNCHANGED <<snap, obj, row>> /\ hollow \subseteq hollow'
  BY <1>1, JudgeTypes DEF Judge, store, Local
<1>3. /\ job'[r].list = job[r].list /\ job'[r].inc = job[r].inc /\ job'[r].skipped = job[r].skipped
      /\ job'[r].done = job[r].done
      /\ \/ ~job[r].err /\ job'[r].pc = "retain" /\ hollow' = hollow \cup (Data \ job[r].inc) \cup job[r].skipped
         \/ job'[r].pc = "begin" \/ (job'[r].pc = "finish" /\ job'[r].err)
  BY <1>1, JudgeJob DEF Akin
<1>4. ASSUME NEW t \in snap, Safe(t) PROVE t \in snap' /\ Safe(t)'
  <2>1. row'[r].status # "none" /\ \A u \in job'[r].list : u.run # t.run
    BY <1>1, <1>2, <1>3, <1>4 DEF JobOK, Safe
  <2> QED BY <1>1, <1>2, <1>3, <1>4, <2>1, SafeKept
<1>5. \A q \in Run : Succeeded(q)' => Succeeded(q)
  BY <1>2 DEF Succeeded
<1>6. Keeper'
  BY <1>1, <1>2, <1>4, <1>5, KeeperKept
<1>7. \A t \in Data : Has(r, t) => Has(r, t)'
  BY <1>2 DEF Has, Intact, Key
<1>8. Judged(r)' => Data \ hollow' \subseteq job'[r].done \ job'[r].skipped
  BY <1>1, <1>3 DEF Judged, Stored, Retaining
<1>9. Stored(r)'
  BY <1>1, <1>3, <1>7, <1>8 DEF Stored
<1> QED BY <1>2, <1>6, <1>9, LocalRetention

\* Steps after judge: what r has stored stays.
LEMMA JudgedStored ==
    ASSUME Retention, NEW r \in Run, Judged(r), Local(r), UNCHANGED hollow, row'[r].kind = row[r].kind,
           job'[r].done = job[r].done, job'[r].skipped = job[r].skipped, job'[r].pc \in Retaining \cup {"finish"},
           \A s \in Data : obj'[<<r, s>>] = obj[<<r, s>>],
           \A sn \in snap : sn.run = r => sn \in snap'
    PROVE  Stored(r)'
<1>1. Stored(r) /\ job[r].pc # "idle"
  BY RetentionParts DEF Judged, Retaining
<1>2. \A s \in Data : Has(r, s) => Has(r, s)'
  BY DEF Has, Intact, Key
<1>3. job'[r].pc \notin {"volume", "record", "judge", "idle"}
  BY DEF Retaining
<1> QED BY <1>1, <1>2, <1>3 DEF Stored

LEMMA RetainRetention == ASSUME Retention, NEW r \in Run, Retain(r) PROVE Retention'
<1>1. TypeInv /\ Types /\ job[r].pc = "retain" /\ JobOK(r) /\ Judged(r)
  BY AtFacts, RetentionParts DEF Retain, Judged, Retaining
<1>2. TypeInv' /\ Local(r) /\ UNCHANGED <<snap, obj, row, hollow>>
  BY <1>1, RetainTypes DEF Retain, store, history
<1>3. /\ job'[r].done = job[r].done /\ job'[r].skipped = job[r].skipped /\ job'[r].pc \in {"sweep", "finish"}
      /\ \A t \in job'[r].list : t.run \in aged
  BY <1>1, RetainJob DEF JobOK
<1>4. ASSUME NEW s \in Data \ hollow PROVE \E sn \in snap' : sn.src = s /\ Safe(sn)'
  <2>1. PICK sn \in snap : sn.run = r /\ sn.src = s /\ Safe(sn)
    BY <1>1, JudgedSafe
  <2>2. row'[r].status # "none" /\ \A u \in job'[r].list : u.run # sn.run
    BY <1>1, <1>2, <1>3, <2>1 DEF JobOK, Safe
  <2>3. Safe(sn)'
    BY <1>1, <1>2, <1>3, <2>1, <2>2, SafeKept
  <2> QED BY <1>2, <2>1, <2>3
<1>5. Keeper'
  BY <1>2, <1>4 DEF Keeper
<1>6. Stored(r)'
  BY <1>1, <1>2, <1>3, JudgedStored DEF Retaining
<1> QED BY <1>2, <1>5, <1>6, LocalRetention

LEMMA SweepRetention == ASSUME Retention, NEW r \in Run, Sweep(r) PROVE Retention'
<1>1. TypeInv /\ Types /\ job[r].pc = "sweep" /\ JobOK(r) /\ Judged(r) /\ Keeper /\ job[r] \in JobType
  BY AtFacts, RetentionParts DEF Sweep, Judged, Retaining
<1>2. TypeInv' /\ Local(r) /\ UNCHANGED <<snap, row, hollow>>
  BY <1>1, SweepTypes DEF Sweep, history
<1>3. /\ job'[r].done = job[r].done /\ job'[r].skipped = job[r].skipped /\ job'[r].pc \in {"sweep", "finish", "mark"}
      /\ job'[r].list \subseteq job[r].list
  BY <1>1, SweepJob
<1>4. ASSUME NEW q \in Run, NEW s \in Data, \A t \in job[r].list : t.run # q PROVE obj'[<<q, s>>] = obj[<<q, s>>]
  <2>1. CASE UNCHANGED obj
    BY <2>1
  <2>2. ASSUME NEW t \in job[r].list, obj' = [obj EXCEPT ![Key(t)] = NoObject] PROVE obj'[<<q, s>>] = obj[<<q, s>>]
    <3>1. <<q, s>> # Key(t) /\ <<q, s>> \in Run \X Data
      BY <1>4 DEF Key
    <3> QED BY <1>1, <2>2, <3>1 DEF Types
  <2> QED BY <1>1, <2>1, <2>2, SweepJob
<1>5. ASSUME NEW sn \in snap, Safe(sn) PROVE sn \in snap' /\ Safe(sn)'
  <2>1. sn.run \in Run /\ sn.src \in Data
    BY <1>1 DEF Types, Snapshot
  <2>2. row'[r].status # "none" /\ \A u \in job[r].list : u.run # sn.run
    BY <1>1, <1>2, <1>5 DEF JobOK, Safe
  <2>3. obj'[Key(sn)] = obj[Key(sn)]
    BY <1>4, <2>1, <2>2 DEF Key
  <2> QED BY <1>1, <1>2, <1>3, <1>5, <2>2, <2>3, SafeKept
<1>6. \A q \in Run : Succeeded(q)' => Succeeded(q)
  BY <1>2 DEF Succeeded
<1>7. Keeper'
  BY <1>1, <1>2, <1>5, <1>6, KeeperKept
<1>8. \A t \in job[r].list : t.run # r
  BY <1>1 DEF JobOK
<1>9. Stored(r)'
  BY <1>1, <1>2, <1>3, <1>4, <1>8, JudgedStored DEF Retaining
<1> QED BY <1>2, <1>7, <1>9, LocalRetention

LEMMA MarkRetention == ASSUME Retention, NEW r \in Run, Mark(r) PROVE Retention'
<1>1. TypeInv /\ Types /\ job[r].pc = "mark" /\ JobOK(r) /\ Judged(r) /\ Keeper
  BY AtFacts, RetentionParts DEF Mark, Judged, Retaining
<1>2. TypeInv' /\ Local(r) /\ UNCHANGED <<obj, row, hollow>>
  BY <1>1, MarkTypes DEF Mark, history
<1>3. /\ job'[r].done = job[r].done /\ job'[r].skipped = job[r].skipped /\ job'[r].pc = "sweep"
      /\ job'[r].list \subseteq job[r].list
  BY <1>1, MarkJob
<1>4. job[r].pick \in job[r].list /\ \A sn \in snap : sn = job[r].pick \/ sn \in snap'
  BY <1>1 DEF Mark, JobOK
<1>5. ASSUME NEW sn \in snap, Safe(sn) PROVE sn \in snap' /\ Safe(sn)'
  <2>1. row'[r].status # "none" /\ \A u \in job[r].list : u.run # sn.run
    BY <1>1, <1>2, <1>5 DEF JobOK, Safe
  <2>2. sn \in snap'
    BY <1>4, <2>1
  <2> QED BY <1>1, <1>2, <1>3, <1>5, <2>1, <2>2, SafeKept
<1>6. \A q \in Run : Succeeded(q)' => Succeeded(q)
  BY <1>2 DEF Succeeded
<1>7. Keeper'
  BY <1>1, <1>2, <1>5, <1>6, KeeperKept
<1>8. \A sn \in snap : sn.run = r => sn \in snap'
  BY <1>1, <1>4 DEF JobOK
<1>9. Stored(r)'
  BY <1>1, <1>2, <1>3, <1>8, JudgedStored DEF Retaining
<1> QED BY <1>2, <1>7, <1>9, LocalRetention

LEMMA FinishRetention == ASSUME Retention, NEW r \in Run, Finish(r) PROVE Retention'
<1>1. TypeInv /\ Types /\ job[r].pc = "finish" /\ JobOK(r) /\ Keeper /\ row[r] \in [kind : Kinds, status : Statuses]
  BY AtFacts, RetentionParts DEF Finish, Types
<1>2. TypeInv' /\ Local(r) /\ UNCHANGED <<snap, obj, hollow>>
  BY <1>1, FinishTypes DEF Finish, store
<1>3. job'[r] = Idle
  BY <1>1, IdleJob DEF Finish
<1>4. /\ row'[r].status # "none" /\ row'[r].kind = row[r].kind
      /\ row'[r].status = "success" => row[r].status = "success" \/ ~job[r].err
  <2>1. CASE UNCHANGED row
    BY <1>1, <2>1 DEF JobOK
  <2>2. CASE FinishRun(r, IF job[r].err THEN "failed" ELSE "success")
    BY <1>1, <2>2 DEF FinishRun, Types
  <2> QED BY <2>1, <2>2 DEF Finish
<1>5. \A q \in Run : Succeeded(q)' => Succeeded(q) \/ Judged(r)
  BY <1>1, <1>2, <1>4 DEF Succeeded, Judged, Local
<1>6. ASSUME NEW sn \in snap, Safe(sn) PROVE sn \in snap' /\ Safe(sn)'
  BY <1>1, <1>2, <1>3, <1>4, <1>6, IdleList, SafeKept
<1>7. Stored(r)'
  BY <1>3, IdleList DEF Stored, Judged, Retaining
<1>8. Keeper'
  <2>1. CASE Judged(r)
    BY <1>2, <1>6, <2>1, JudgedSafe DEF Keeper
  <2>2. CASE ~Judged(r)
    BY <1>1, <1>2, <1>5, <1>6, <2>2, KeeperKept
  <2> QED BY <2>1, <2>2
<1> QED BY <1>2, <1>7, <1>8, LocalRetention

LEMMA NextRetention == ASSUME Retention, [Next]_vars PROVE Retention'
<1>1. CASE \E p \in Proc : Boot(p) \/ Crash(p) \/ Shutdown(p) \/ Exit(p)
  BY <1>1, ProcessRetention
<1>2. CASE \E p \in Proc, r \in Run : StartBackup(p, r) \/ StartVerify(p, r) \/ StartRestore(p, r) \/ ClaimDue(p, r)
  BY <1>2, StartRetention
<1>3. CASE \E r \in Run : Timeout(r)
  BY <1>3, TimeoutRetention
<1>4. CASE (\E r \in Run : Age(r) \/ Script(r)) \/ AppWrite \/ UNCHANGED vars
  BY <1>4, DataRetention
<1>5. ASSUME NEW r \in Run, JobStep(r) PROVE Retention'
  <2>1. CASE TickExecute(r) \/ Acquire(r) \/ Finish(r)
    BY <2>1, TickExecuteRetention, AcquireRetention, FinishRetention
  <2>2. CASE Begin(r) \/ (\E s \in Data : Upload(r, s)) \/ Record(r) \/ Judge(r)
    BY <2>2, BeginRetention, UploadRetention, RecordRetention, JudgeRetention
  <2>3. CASE Retain(r) \/ Sweep(r) \/ Mark(r) \/ Verify(r)
    BY <2>3, RetainRetention, SweepRetention, MarkRetention, VerifyRetention
  <2>4. CASE \/ Check(r) \/ Load(r) \/ Extract(r) \/ Ps(r) \/ Stop(r) \/ Swap(r) \/ SwapEnd(r) \/ Rollback(r) \/ Restart(r)
    BY <2>4, RestoreRetention
  <2> QED BY <1>5, <2>1, <2>2, <2>3, <2>4 DEF JobStep
<1> QED BY <1>1, <1>2, <1>3, <1>4, <1>5 DEF Next

\* Retention never takes the last intact snapshot of a source whose backup succeeded
\* (retain runs after a success only, and a success has its own snapshots), however
\* many processes back up, retry, crash and sweep at once.
THEOREM BackupsAreRestorable == Spec => []AlwaysRestorable
<1>1. Retention => AlwaysRestorable
  BY DEF Retention, Keeper, AlwaysRestorable, Succeeded, Safe
<1>2. Retention /\ [Next]_vars => Retention'
  BY NextRetention
<1> QED BY <1>1, <1>2, InitRetention, PTL DEF Spec

-----------------------------------------------------------------------------
(* Restores: lemmas. *)

Sound == ContentsSingle /\ (\A r \in Run : RestoreOK(r)) /\ LiveIsWhole

LEMMA WholeSingle == ASSUME NEW v PROVE Single(Whole(v))
BY DEF Single, Whole

LEMMA InitRestores == Init => Restores
<1> SUFFICES ASSUME Init PROVE Restores
  OBVIOUS
<1>1. OneAtWork
  BY DEF Init, OneAtWork, Idle, Resting, Waiting
<1>2. ContentsSingle
  BY WholeSingle DEF Init, ContentsSingle, Idle
<1>3. ASSUME NEW r \in Run PROVE RestoreOK(r)
  BY DEF Init, RestoreOK, Idle, NoStage
<1>4. LiveIsWhole
  BY DEF Init, LiveIsWhole, Data
<1> QED BY <1>1, <1>2, <1>3, <1>4, InitTypes DEF Restores, VolumeOK

LEMMA RestoresParts ==
    ASSUME Restores
    PROVE  TypeInv /\ Types /\ OneAtWork /\ (~torn => Sound)
BY DEF Restores, VolumeOK, Sound, TypeInv

LEMMA VolumeFromSound == ASSUME ~torn' => Sound' PROVE VolumeOK'
BY DEF VolumeOK, Sound

\* Nobody starts to work.
LEMMA WorkKept ==
    ASSUME OneAtWork, \A q \in Run : job'[q].pc \in Resting \/ job[q].pc \notin Resting
    PROVE  OneAtWork'
BY DEF OneAtWork

\* One goroutine moves that was at work.
LEMMA WorkerKept ==
    ASSUME OneAtWork, NEW r \in Run, job[r].pc \notin Resting, Moves(r)
    PROVE  OneAtWork'
BY WorkKept DEF Moves

\* While r works the others wait, and have no script.
LEMMA OthersRest ==
    ASSUME OneAtWork, NEW r \in Run, job[r].pc \notin Resting, Sound, NEW q \in Run \ {r}
    PROVE  job[q].pc \in Resting /\ stage[q].left = {} /\ stage[q].phase \notin {"out", "in"}
<1>1. job[q].pc \in Resting
  BY DEF OneAtWork
<1> QED BY <1>1 DEF Sound, RestoreOK, Resting, Waiting

LEMMA OthersRestore ==
    ASSUME OneAtWork, NEW r \in Run, job[r].pc \notin Resting, Sound, Moves(r),
           \A q \in Run \ {r} : stage'[q] = stage[q]
    PROVE  \A q \in Run \ {r} : RestoreOK(q)' /\ job'[q].pc \in Resting
<1> SUFFICES ASSUME NEW q \in Run \ {r} PROVE RestoreOK(q)' /\ job'[q].pc \in Resting
  OBVIOUS
<1>1. job'[q].pc \in Resting /\ stage'[q].left = {} /\ stage'[q].phase \notin {"out", "in"}
  BY OthersRest DEF Moves
<1> QED BY <1>1 DEF RestoreOK, Resting, Waiting

\* Steps that change nothing but goroutines that end, contexts, and the outcome of runs.
LEMMA TameRestores ==
    ASSUME Restores, TypeInv', UNCHANGED <<snap, obj, live, stage, apps, truth>>, ~torn' => ~torn,
           \A r \in Run : row'[r].kind = row[r].kind,
           \A r \in Run : \/ job'[r] = Idle /\ (job[r].pc # "swapping" \/ torn')
                          \/ Like(job'[r], job[r]) /\ job'[r].pc = job[r].pc
    PROVE  Restores'
<1>1. OneAtWork'
  BY RestoresParts, WorkKept, IdleList DEF Resting, Waiting
<1>2. ASSUME ~torn' PROVE Sound'
  <2>1. Sound /\ \A r \in Run : job'[r].pc = "idle" \/ (Like(job'[r], job[r]) /\ job'[r].pc = job[r].pc)
    BY <1>2, RestoresParts, IdleList
  <2>2. \A r \in Run : job[r].pc = "swapping" => Like(job'[r], job[r]) /\ job'[r].pc = "swapping"
    BY <1>2
  <2>3. ContentsSingle'
    BY <2>1 DEF Sound, ContentsSingle, Like
  <2>4. ASSUME NEW r \in Run PROVE RestoreOK(r)'
    <3>1. RestoreOK(r)
      BY <2>1 DEF Sound
    <3>2. CASE job'[r].pc = "idle"
      BY <2>2, <3>1, <3>2 DEF RestoreOK
    <3>3. CASE Like(job'[r], job[r]) /\ job'[r].pc = job[r].pc
      BY <3>1, <3>3 DEF RestoreOK, ScriptAt, Like, Intact, Key
    <3> QED BY <2>1, <3>2, <3>3
  <2>5. LiveIsWhole'
    BY <1>2, <2>1, <2>2 DEF Sound, LiveIsWhole
  <2> QED BY <2>3, <2>4, <2>5 DEF Sound
<1> QED BY <1>1, <1>2, VolumeFromSound DEF Restores

\* Steps of a goroutine that is neither about to touch the volume nor comes from there.
LEMMA CalmRestores ==
    ASSUME Restores, TypeInv', OneAtWork', NEW r \in Run, Moves(r), UNCHANGED <<row, stage, apps, truth, torn>>,
           live'["volume"] = live["volume"], UNCHANGED obj \/ job[r].pc \notin Resting,
           job[r].pc \notin {"idle", "swapping", "rollback"}, row[r].kind = "restore" => job'[r].pick = job[r].pick,
           job'[r].pc \notin {"extract", "load", "ps", "stop", "swap", "swapping", "rollback", "idle"},
           ~torn => \A sn \in snap' : sn.src = "volume" => Single(sn.sum),
           ~torn => (job'[r].pc = "record" /\ job'[r].src = "volume" => Single(obj'[<<r, "volume">>]))
    PROVE  Restores'
<1>1. ASSUME ~torn' PROVE Sound'
  <2>1. Sound /\ ~torn /\ OneAtWork
    BY <1>1, RestoresParts
  <2>2. ASSUME NEW q \in Run \ {r} PROVE UNCHANGED obj \/ job[q].pc \in Resting
    BY <2>1, OthersRest
  <2>3. ContentsSingle'
    <3>1. Single(truth')
      BY <2>1 DEF Sound, ContentsSingle
    <3>2. ASSUME NEW q \in Run, job'[q].pc = "record", job'[q].src = "volume" PROVE Single(obj'[<<q, "volume">>])
      BY <2>1, <2>2, <3>2 DEF Sound, ContentsSingle, Moves, Resting, Waiting
    <3>3. ASSUME NEW q \in Run, job'[q].pc # "idle", row'[q].kind = "restore", job'[q].pick.src = "volume"
          PROVE  Single(job'[q].pick.sum)
      BY <2>1, <3>3 DEF Sound, ContentsSingle, Moves
    <3> QED BY <2>1, <3>1, <3>2, <3>3 DEF ContentsSingle
  <2>4. ASSUME NEW q \in Run PROVE RestoreOK(q)'
    <3>1. RestoreOK(q)
      BY <2>1 DEF Sound
    <3>2. CASE q = r
      BY <3>1, <3>2 DEF RestoreOK
    <3>3. CASE q # r
      BY <2>2, <3>1, <3>3 DEF RestoreOK, Moves, ScriptAt, Intact, Key, Resting, Waiting
    <3> QED BY <3>2, <3>3
  <2>5. LiveIsWhole'
    BY <2>1 DEF Sound, LiveIsWhole, Moves
  <2> QED BY <2>3, <2>4, <2>5 DEF Sound
<1> QED BY <1>1, VolumeFromSound DEF Restores

-----------------------------------------------------------------------------
(* Restores: the steps. *)

LEMMA ProcessRestores ==
    ASSUME Restores, NEW p \in Proc, Boot(p) \/ Crash(p) \/ Shutdown(p) \/ Exit(p)
    PROVE  Restores'
<1>0. TypeInv /\ Types /\ \A r \in Run : job[r] \in JobType /\ row[r] \in [kind : Kinds, status : Statuses]
  BY RestoresParts DEF Types
<1>1. TypeInv'
  BY <1>0, BootTypes, DieTypes, ShutdownTypes DEF Crash, Exit
<1>2. CASE Boot(p)
  <2>1. \A r \in Run : row'[r].kind = row[r].kind
    <3>1. CASE row' = FailOrphans
      BY <1>0, <3>1 DEF FailOrphans
    <3>2. CASE UNCHANGED row
      BY <3>2
    <3> QED BY <1>2, <3>1, <3>2 DEF Boot
  <2>2. UNCHANGED <<snap, obj, live, stage, apps, truth, torn, job>>
    BY <1>2 DEF Boot, store, data
  <2> QED BY <1>1, <2>1, <2>2, TameRestores DEF Like
<1>3. CASE Die(p)
  <2>1. UNCHANGED <<snap, obj, live, stage, apps, truth, row>>
    BY <1>3 DEF Die, store, data
  <2>2. (~torn' => ~torn) /\ \A r \in Run : (job'[r] = Idle /\ (job[r].pc # "swapping" \/ torn')) \/ job'[r] = job[r]
    BY <1>3 DEF Die
  <2> QED BY <1>1, <2>1, <2>2, TameRestores DEF Like
<1>4. CASE Shutdown(p)
  <2>1. UNCHANGED <<snap, obj, live, stage, apps, truth, torn, row>>
        /\ \A r \in Run : job'[r] = [job[r] EXCEPT !.ended = TRUE] \/ job'[r] = job[r]
    BY <1>4 DEF Shutdown, store, data, history
  <2>2. \A r \in Run : Like(job'[r], job[r]) /\ job'[r].pc = job[r].pc
    BY <1>0, <2>1 DEF Like, JobType
  <2> QED BY <1>1, <2>1, <2>2, TameRestores
<1> QED BY <1>2, <1>3, <1>4 DEF Crash, Exit

LEMMA TimeoutRestores == ASSUME Restores, NEW r \in Run, Timeout(r) PROVE Restores'
<1>0. TypeInv /\ Types /\ job[r] \in JobType
  BY RestoresParts DEF Types
<1>1. TypeInv'
  BY <1>0, TimeoutTypes
<1>2. UNCHANGED <<snap, obj, live, stage, apps, truth, torn, row>>
  BY DEF Timeout, store, data, history
<1>3. job'[r] = [job[r] EXCEPT !.ended = TRUE] /\ \A q \in Run \ {r} : job'[q] = job[q]
  BY <1>0, StepAt DEF Timeout
<1>4. Like(job'[r], job[r]) /\ job'[r].pc = job[r].pc
  BY <1>0, <1>3 DEF Like, JobType
<1>5. \A q \in Run : Like(job'[q], job[q]) /\ job'[q].pc = job[q].pc
  BY <1>3, <1>4 DEF Like
<1> QED BY <1>1, <1>2, <1>5, TameRestores

LEMMA AgeRestores == ASSUME Restores, (\E r \in Run : Age(r)) \/ UNCHANGED vars PROVE Restores'
<1>0. TypeInv
  BY RestoresParts
<1>1. TypeInv'
  BY <1>0, AgeTypes, NextTypes
<1>2. UNCHANGED <<snap, obj, live, stage, apps, truth, torn, row, job>>
  BY DEF Age, vars, jobs, store, data, history
<1> QED BY <1>1, <1>2, TameRestores DEF Like

LEMMA InsertRestores ==
    ASSUME Restores, TypeInv', NEW p \in Proc, NEW r \in Run, NEW kind \in Kinds, NEW j \in JobType,
           Insert(p, r, kind, j), j.pc \in {"claimed", "acquire"}, kind = "restore" => j.pick \in snap
    PROVE  Restores'
<1>1. Types /\ OneAtWork
  BY RestoresParts
<1>2. [j EXCEPT !.by = p].pc = j.pc /\ [j EXCEPT !.by = p].pick = j.pick
  BY DEF JobType
<1>3. job'[r] = [j EXCEPT !.by = p] /\ \A q \in Run \ {r} : job'[q] = job[q]
  BY <1>1, StepAt DEF Insert
<1>4. row'[r].kind = kind /\ row[r].status = "none" /\ \A q \in Run \ {r} : row'[q] = row[q]
  BY <1>1 DEF Insert, Types
<1>5. UNCHANGED <<snap, obj, live, stage, apps, truth, torn>>
  BY DEF Insert, store, data, history
<1>6. job[r].pc = "idle"
  BY <1>4, RestoresParts DEF TypeInv, JobOK
<1>7. OneAtWork'
  BY <1>1, <1>2, <1>3, <1>6, WorkKept DEF Resting, Waiting
<1>8. ASSUME ~torn' PROVE Sound'
  <2>1. Sound
    BY <1>5, <1>8, RestoresParts
  <2>2. ContentsSingle'
    <3>1. Single(truth') /\ \A sn \in snap' : sn.src = "volume" => Single(sn.sum)
      BY <1>5, <2>1 DEF Sound, ContentsSingle
    <3>2. ASSUME NEW q \in Run, job'[q].pc = "record", job'[q].src = "volume" PROVE Single(obj'[<<q, "volume">>])
      BY <1>2, <1>3, <1>5, <2>1, <3>2 DEF Sound, ContentsSingle
    <3>3. ASSUME NEW q \in Run, job'[q].pc # "idle", row'[q].kind = "restore", job'[q].pick.src = "volume"
          PROVE  Single(job'[q].pick.sum)
      <4>1. CASE q = r
        BY <1>2, <1>3, <1>4, <2>1, <3>3, <4>1 DEF Sound, ContentsSingle
      <4>2. CASE q # r
        BY <1>3, <1>4, <2>1, <3>3, <4>2 DEF Sound, ContentsSingle
      <4> QED BY <4>1, <4>2
    <3> QED BY <3>1, <3>2, <3>3 DEF ContentsSingle
  <2>3. ASSUME NEW q \in Run PROVE RestoreOK(q)'
    <3>1. RestoreOK(q)
      BY <2>1 DEF Sound
    <3>2. CASE q = r
      BY <1>2, <1>3, <1>5, <1>6, <3>1, <3>2 DEF RestoreOK
    <3>3. CASE q # r
      BY <1>3, <1>5, <3>1, <3>3 DEF RestoreOK, ScriptAt, Intact, Key
    <3> QED BY <3>2, <3>3
  <2>4. LiveIsWhole'
    BY <1>2, <1>3, <1>5, <1>6, <2>1 DEF Sound, LiveIsWhole
  <2> QED BY <2>2, <2>3, <2>4 DEF Sound
<1> QED BY <1>7, <1>8, VolumeFromSound DEF Restores

LEMMA StartRestores ==
    ASSUME Restores, NEW p \in Proc, NEW r \in Run,
           StartBackup(p, r) \/ StartVerify(p, r) \/ StartRestore(p, r) \/ ClaimDue(p, r)
    PROVE  Restores'
<1>1. TypeInv /\ TypeInv'
  BY StartTypes, RestoresParts
<1>2. PICK kind \in Kinds, j \in JobType : /\ Insert(p, r, kind, j) /\ j.pc \in {"claimed", "acquire"}
                                           /\ kind = "restore" => j.pick \in snap
  <2>1. ASSUME NEW inc \in Includes
        PROVE  /\ [Idle EXCEPT !.pc = "acquire", !.inc = inc] \in JobType
               /\ [Idle EXCEPT !.pc = "acquire", !.inc = inc].pc = "acquire"
    <3>1. inc \subseteq Data
      BY BackupsAssumption
    <3> QED BY <3>1, IdleType DEF JobType, Pcs, Waiting
  <2>2. ASSUME NEW sn \in snap
        PROVE  /\ [Idle EXCEPT !.pc = "acquire", !.pick = sn] \in JobType
               /\ [Idle EXCEPT !.pc = "acquire", !.pick = sn].pc = "acquire"
               /\ [Idle EXCEPT !.pc = "acquire", !.pick = sn].pick = sn
    <3>1. sn \in Snapshot
      BY <1>1 DEF TypeInv, Types
    <3> QED BY <3>1, IdleType DEF JobType, Pcs, Waiting
  <2>3. ASSUME NEW pc \in {"claimed", "acquire"}
        PROVE  [Idle EXCEPT !.pc = pc] \in JobType /\ [Idle EXCEPT !.pc = pc].pc = pc
    BY IdleType DEF JobType, Pcs, Waiting
  <2>4. CASE StartBackup(p, r)
    BY <2>1, <2>4 DEF StartBackup, Kinds
  <2>5. CASE StartVerify(p, r)
    BY <2>3, <2>5 DEF StartVerify, Kinds
  <2>6. CASE StartRestore(p, r)
    BY <2>2, <2>6 DEF StartRestore, Kinds
  <2>7. CASE ClaimDue(p, r)
    BY <2>3, <2>7 DEF ClaimDue, Kinds
  <2> QED BY <2>4, <2>5, <2>6, <2>7
<1> QED BY <1>1, <1>2, InsertRestores

\* Every snapshot on record is of a volume that was whole.
LEMMA SnapsSingle == ASSUME Restores, ~torn PROVE \A sn \in snap : sn.src = "volume" => Single(sn.sum)
BY RestoresParts DEF Sound, ContentsSingle

LEMMA TickExecuteRestores == ASSUME Restores, NEW r \in Run, TickExecute(r) PROVE Restores'
<1>1. TypeInv /\ Types /\ OneAtWork /\ job[r].pc = "claimed" /\ job[r] \in JobType
  BY AtFacts, RestoresParts DEF TickExecute
<1>2. TypeInv' /\ Local(r) /\ UNCHANGED <<snap, obj, live, stage, apps, truth, torn>>
  BY <1>1, TickExecuteTypes DEF TickExecute, store, data
<1>3. CASE Step(r, Idle)
  <2>1. Moves(r) /\ job'[r] = Idle
    BY <1>1, <1>3, IdleJob
  <2>2. \A q \in Run : row'[q].kind = row[q].kind
    <3>1. row'[r].kind = row[r].kind
      <4>1. CASE UNCHANGED row
        BY <4>1
      <4>2. CASE FinishRun(r, "failed")
        BY <1>1, <4>2 DEF FinishRun, Types
      <4> QED BY <4>1, <4>2 DEF TickExecute
    <3> QED BY <1>2, <3>1 DEF Local
  <2> QED BY <1>1, <1>2, <2>1, <2>2, TameRestores DEF Like, Moves
<1>4. ASSUME NEW inc \in Includes, Step(r, [job[r] EXCEPT !.pc = "acquire", !.inc = inc]), UNCHANGED row PROVE Restores'
  <2>1. [job[r] EXCEPT !.pc = "acquire", !.inc = inc] \in JobType
    BY <1>1, BackupsAssumption DEF JobType, Pcs, Waiting
  <2>2. Moves(r) /\ job'[r] = [job[r] EXCEPT !.pc = "acquire", !.inc = inc]
    BY <1>1, <1>4, <2>1, StepAt DEF Moves
  <2>3. job'[r].pc = "acquire" /\ job'[r].pick = job[r].pick
    BY <1>1, <2>2 DEF JobType
  <2>4. OneAtWork'
    BY <1>1, <2>2, <2>3, WorkKept DEF Moves, Resting, Waiting
  <2> QED BY <1>1, <1>2, <1>4, <2>2, <2>3, <2>4, SnapsSingle, CalmRestores
<1> QED BY <1>3, <1>4 DEF TickExecute

LEMMA AcquireRestores == ASSUME OneProcess, Restores, NEW r \in Run, Acquire(r) PROVE Restores'
<1>1. TypeInv /\ Types /\ OneAtWork /\ job[r].pc = "acquire" /\ JobOK(r)
  BY AtFacts, RestoresParts DEF Acquire
<1>2. TypeInv' /\ Local(r) /\ UNCHANGED <<snap, obj, live, stage, apps, truth, torn, row>>
  BY <1>1, AcquireTypes DEF Acquire, store, data, history
<1>3. CASE Fail(r, "finish") /\ job[r].ended
  <2>1. Moves(r) /\ Like(job'[r], job[r]) /\ job'[r].pc = "finish"
    BY <1>1, <1>3, FailJob DEF Pcs
  <2>2. OneAtWork'
    BY <1>1, <2>1, WorkKept DEF Moves, Resting
  <2> QED BY <1>1, <1>2, <2>1, <2>2, SnapsSingle, CalmRestores DEF Like
<1>4. ASSUME NEW pc \in {"begin", "verify", "check"}, Goto(r, pc),
             \A q \in Run \ {r} : job[q].by = job[r].by => job[q].pc \in Resting
      PROVE  Restores'
  <2>1. Moves(r) /\ Like(job'[r], job[r]) /\ job'[r].pc = pc
    BY <1>1, <1>4, GotoJob DEF Pcs, Storing, Restoring
  <2>2. \A q \in Run \ {r} : job[q].pc \in Resting
    <3> SUFFICES ASSUME NEW q \in Run \ {r}, job[q].pc # "idle" PROVE job[q].pc \in Resting
      BY DEF Resting, Waiting
    <3>1. JobOK(q)
      BY <1>1 DEF TypeInv
    <3>2. job[q].by \in Proc /\ job[r].by \in Proc
      BY <1>1, <3>1 DEF JobOK
    <3>3. job[q].by = job[r].by
      BY <3>2 DEF OneProcess
    <3> QED BY <1>4, <3>3
  <2>3. OneAtWork'
    BY <2>1, <2>2 DEF OneAtWork, Moves
  <2> QED BY <1>1, <1>2, <2>1, <2>3, SnapsSingle, CalmRestores DEF Like
<1> QED BY <1>3, <1>4 DEF Acquire, Resting, Waiting

LEMMA FinishRestores == ASSUME Restores, NEW r \in Run, Finish(r) PROVE Restores'
<1>1. TypeInv /\ Types /\ job[r].pc = "finish"
  BY AtFacts, RestoresParts DEF Finish
<1>2. TypeInv' /\ Local(r) /\ UNCHANGED <<snap, obj, live, stage, apps, truth, torn>>
  BY <1>1, FinishTypes DEF Finish, store, data
<1>3. Moves(r) /\ job'[r] = Idle
  BY <1>1, IdleJob DEF Finish
<1>4. row'[r].kind = row[r].kind
  <2>1. CASE UNCHANGED row
    BY <2>1
  <2>2. CASE FinishRun(r, IF job[r].err THEN "failed" ELSE "success")
    BY <1>1, <2>2 DEF FinishRun, Types
  <2> QED BY <2>1, <2>2 DEF Finish
<1>5. \A q \in Run : row'[q].kind = row[q].kind
  BY <1>2, <1>4 DEF Local
<1> QED BY <1>1, <1>2, <1>3, <1>5, TameRestores DEF Like, Moves

\* The steps of backups and verifications.
LEMMA AtWork ==
    ASSUME Restores, NEW r \in Run, job[r].pc \in Storing \cup Retaining \cup {"verify"}
    PROVE  /\ TypeInv /\ Types /\ OneAtWork /\ JobOK(r) /\ row[r].kind # "restore"
           /\ job[r].pc \notin Resting \cup {"idle", "swapping", "rollback"}
           /\ ~torn => Sound /\ live["volume"] = truth
<1>1. TypeInv /\ Types /\ OneAtWork /\ JobOK(r) /\ (~torn => Sound)
  BY RestoresParts DEF TypeInv
<1>2. row[r].kind # "restore" /\ job[r].pc \notin Resting \cup {"idle", "swapping", "rollback"}
  BY <1>1 DEF JobOK, Storing, Retaining, Resting, Waiting
<1>3. ASSUME ~torn PROVE live["volume"] = truth
  <2>1. \A q \in Run \ {r} : job[q].pc \in Resting
    BY <1>1, <1>2, <1>3, OthersRest
  <2>2. \A q \in Run : job[q].pc # "swapping"
    BY <1>2, <2>1 DEF Resting, Waiting
  <2> QED BY <1>1, <1>3, <2>2 DEF Sound, LiveIsWhole
<1> QED BY <1>1, <1>2, <1>3

LEMMA BackupRestores ==
    ASSUME Restores, TypeInv', NEW r \in Run, job[r].pc \in Storing \cup Retaining \cup {"verify"}, Moves(r),
           UNCHANGED <<row, data, truth, torn>>, job'[r].pc \in Storing \cup Retaining \cup {"finish"},
           ~torn => \A sn \in snap' : sn.src = "volume" => Single(sn.sum),
           ~torn => (job'[r].pc = "record" /\ job'[r].src = "volume" => Single(obj'[<<r, "volume">>]))
    PROVE  Restores'
<1>1. OneAtWork'
  BY AtWork, WorkerKept
<1>2. job'[r].pc \notin {"extract", "load", "ps", "stop", "swap", "swapping", "rollback", "idle"}
  BY DEF Storing, Retaining
<1>3. job[r].pc \notin Resting /\ job[r].pc \notin {"idle", "swapping", "rollback"} /\ row[r].kind # "restore"
  BY AtWork
<1>4. live'["volume"] = live["volume"] /\ UNCHANGED <<row, stage, apps, truth, torn>>
  BY DEF data
<1> QED BY <1>1, <1>2, <1>3, <1>4, CalmRestores

LEMMA BeginRestores == ASSUME Restores, NEW r \in Run, Begin(r) PROVE Restores'
<1>1. TypeInv /\ job[r].pc = "begin"
  BY AtFacts, RestoresParts DEF Begin
<1>2. TypeInv' /\ UNCHANGED <<row, data, truth, torn, snap>>
  BY <1>1, BeginTypes DEF Begin, store, history
<1>3. Moves(r) /\ job'[r].pc \in {"database", "judge"}
  BY <1>1, BeginJob
<1> QED BY <1>1, <1>2, <1>3, SnapsSingle, BackupRestores DEF Storing

LEMMA UploadRestores == ASSUME Restores, NEW r \in Run, NEW s \in Data, Upload(r, s) PROVE Restores'
<1>1. TypeInv /\ Types /\ job[r].pc = s /\ s \in Storing
  BY AtFacts, RestoresParts DEF Upload, Data, Storing
<1>2. TypeInv' /\ UNCHANGED <<row, data, truth, torn, snap>>
  BY <1>1, UploadTypes DEF Upload, history
<1>3. Moves(r) /\ job'[r].pc \in {"volume", "judge", "record"}
  BY <1>1, UploadJob DEF After
<1>4. job'[r].pc = "record" => job'[r].src = s /\ obj' = [obj EXCEPT ![<<r, s>>] = live[s]]
  BY <1>1, UploadJob DEF After
<1>5. ASSUME ~torn, job'[r].pc = "record", job'[r].src = "volume" PROVE Single(obj'[<<r, "volume">>])
  <2>1. obj'[<<r, "volume">>] = live["volume"]
    BY <1>1, <1>4, <1>5 DEF Types
  <2>2. live["volume"] = truth /\ Single(truth)
    BY <1>1, <1>5, AtWork DEF Sound, ContentsSingle
  <2> QED BY <2>1, <2>2
<1>6. job'[r].pc \in Storing
  BY <1>3 DEF Storing
<1> QED BY <1>1, <1>2, <1>3, <1>5, <1>6, SnapsSingle, BackupRestores

LEMMA RecordRestores == ASSUME Restores, NEW r \in Run, Record(r) PROVE Restores'
<1>1. TypeInv /\ Types /\ job[r].pc = "record" /\ job[r] \in JobType
  BY AtFacts, RestoresParts DEF Record
<1>2. TypeInv' /\ UNCHANGED <<row, data, truth, torn, obj>>
  BY <1>1, RecordTypes DEF Record, history
<1>a. PICK sn : sn = [run |-> r, src |-> job[r].src, try |-> job[r].try, sum |-> obj[<<r, job[r].src>>]]
  OBVIOUS
<1>3. Moves(r) /\ job'[r].pc = After(job[r].src) /\ snap' \subseteq snap \cup {sn}
  BY <1>1, <1>a, RecordJob
<1>4. job'[r].pc \in {"volume", "judge"}
  BY <1>3 DEF After
<1>5. ASSUME ~torn PROVE \A t \in snap' : t.src = "volume" => Single(t.sum)
  <2>1. sn.src = "volume" => Single(sn.sum)
    BY <1>1, <1>5, <1>a, RestoresParts DEF Sound, ContentsSingle
  <2> QED BY <1>3, <1>5, <2>1, SnapsSingle
<1> QED BY <1>1, <1>2, <1>3, <1>4, <1>5, BackupRestores DEF Storing

LEMMA JudgeRestores == ASSUME Restores, NEW r \in Run, Judge(r) PROVE Restores'
<1>1. TypeInv /\ job[r].pc = "judge"
  BY AtFacts, RestoresParts DEF Judge
<1>2. TypeInv' /\ UNCHANGED <<row, data, truth, torn, snap>>
  BY <1>1, JudgeTypes DEF Judge, store
<1>3. Moves(r) /\ job'[r].pc \in {"retain", "begin", "finish"}
  BY <1>1, JudgeJob
<1> QED BY <1>1, <1>2, <1>3, SnapsSingle, BackupRestores DEF Storing, Retaining

LEMMA SweepingRestores == ASSUME Restores, NEW r \in Run, Retain(r) \/ Sweep(r) \/ Mark(r) PROVE Restores'
<1>1. TypeInv /\ job[r].pc \in Retaining
  BY AtFacts, RestoresParts DEF Retain, Sweep, Mark, Retaining
<1>2. TypeInv' /\ UNCHANGED <<row, data, truth, torn>>
  BY <1>1, RetainTypes, SweepTypes, MarkTypes DEF Retain, Sweep, Mark, history
<1>3. snap' \subseteq snap
  BY DEF Retain, Sweep, Mark, store
<1>4. Moves(r) /\ job'[r].pc \in {"sweep", "mark", "finish"}
  BY <1>1, RetainJob, SweepJob, MarkJob
<1>5. ~torn => \A sn \in snap' : sn.src = "volume" => Single(sn.sum)
  BY <1>3, SnapsSingle
<1> QED BY <1>1, <1>2, <1>4, <1>5, BackupRestores DEF Retaining

LEMMA VerifyRestores == ASSUME Restores, NEW r \in Run, Verify(r) PROVE Restores'
<1>1. TypeInv /\ Types /\ job[r].pc = "verify"
  BY AtFacts, RestoresParts DEF Verify
<1>2. TypeInv' /\ UNCHANGED <<row, data, truth, torn, snap>>
  BY <1>1, VerifyTypes DEF Verify, store, history
<1>3. Moves(r) /\ job'[r].pc = "finish"
  BY <1>1, GotoJob, FailJob DEF Verify, Pcs
<1> QED BY <1>1, <1>2, <1>3, SnapsSingle, BackupRestores

\* The steps of restores.
LEMMA AtRestore ==
    ASSUME Restores, NEW r \in Run, job[r].pc \in Restoring
    PROVE  /\ TypeInv /\ OneAtWork /\ row[r].kind = "restore" /\ job[r].pick \in Snapshot
           /\ job[r].pc \notin Resting
           /\ ~torn => Sound /\ RestoreOK(r) /\ (job[r].pc # "swapping" => live["volume"] = truth)
<1>1. TypeInv /\ OneAtWork /\ JobOK(r) /\ (~torn => Sound)
  BY RestoresParts DEF TypeInv
<1>2. row[r].kind = "restore" /\ job[r].pick \in Snapshot /\ job[r].pc \notin Resting
  BY <1>1 DEF JobOK, Restoring, Resting, Waiting
<1>3. ASSUME ~torn, job[r].pc # "swapping" PROVE live["volume"] = truth
  <2>1. \A q \in Run \ {r} : job[q].pc \in Resting
    BY <1>1, <1>2, <1>3, OthersRest
  <2>2. \A q \in Run : job[q].pc # "swapping"
    BY <1>3, <2>1 DEF Resting, Waiting
  <2> QED BY <1>1, <1>3, <2>2 DEF Sound, LiveIsWhole
<1> QED BY <1>1, <1>2, <1>3 DEF Sound

LEMMA RestoreKept ==
    ASSUME Restores, TypeInv', NEW r \in Run, RestoreStep(r), torn => torn',
           ~torn' => /\ \A q \in Run \ {r} : stage'[q] = stage[q]
                     /\ RestoreOK(r)' /\ Single(truth')
                     /\ job'[r].pc # "swapping" => live'["volume"] = truth'
    PROVE  Restores'
<1>1. TypeInv /\ OneAtWork /\ Moves(r) /\ job[r].pc \in Restoring /\ job[r].pc \notin Resting
  BY AtRestore DEF RestoreStep
<1>2. OneAtWork'
  BY <1>1, WorkerKept
<1>3. ASSUME ~torn' PROVE Sound'
  <2>1. Sound
    BY <1>3, RestoresParts
  <2>2. \A q \in Run \ {r} : RestoreOK(q)' /\ job'[q].pc \in Resting
    BY <1>1, <1>3, <2>1, OthersRestore
  <2>3. ContentsSingle'
    <3>1. \A sn \in snap' : sn.src = "volume" => Single(sn.sum)
      BY <2>1 DEF Sound, ContentsSingle, RestoreStep, store
    <3>2. \A q \in Run : job'[q].pc # "record"
      BY <2>2 DEF RestoreStep, Restoring, Resting, Waiting
    <3>3. ASSUME NEW q \in Run, job'[q].pc # "idle", row'[q].kind = "restore", job'[q].pick.src = "volume"
          PROVE  Single(job'[q].pick.sum)
      <4>1. job[q].pc # "idle" /\ row[q].kind = "restore" /\ job'[q].pick = job[q].pick
        BY <1>1, <3>3 DEF RestoreStep, Moves, Restoring
      <4> QED BY <2>1, <3>3, <4>1 DEF Sound, ContentsSingle
    <3> QED BY <1>3, <3>1, <3>2, <3>3 DEF ContentsSingle
  <2>4. LiveIsWhole'
    BY <1>3 DEF LiveIsWhole
  <2> QED BY <1>3, <2>2, <2>3, <2>4 DEF Sound
<1> QED BY <1>2, <1>3, VolumeFromSound DEF Restores

\* What RestoreOK asks of a restore that has not come to its script.
LEMMA NoScript ==
    ASSUME Restores, NEW r \in Run, RestoreStep(r), ~torn, job[r].pc # "swapping",
           job'[r].pc \notin {"swapping", "rollback"},
           stage'[r].phase = stage[r].phase, stage'[r].left = stage[r].left,
           job'[r].pc \in {"load", "extract"} => Intact(job[r].pick),
           job'[r].pc \in {"extract", "ps", "stop", "swap"} => job[r].pick.src = "volume",
           job'[r].pc \in {"ps", "stop", "swap"} => stage'[r].new = job[r].pick.sum,
           job'[r].pc = "swap" => apps' = "stopped"
    PROVE  RestoreOK(r)'
<1>1. RestoreOK(r)
  BY AtRestore DEF RestoreStep
<1>2. Intact(job[r].pick) => Intact(job[r].pick)'
  <2>1. job'[r].pick = job[r].pick /\ UNCHANGED obj
    BY DEF RestoreStep, store
  <2> QED BY <2>1 DEF Intact, Key
<1>3. job'[r].pick = job[r].pick /\ UNCHANGED obj
  BY DEF RestoreStep, store
<1> QED BY <1>1, <1>2, <1>3 DEF RestoreOK, Intact, Key

LEMMA EarlyRestores ==
    ASSUME Restores, NEW r \in Run, Check(r) \/ Load(r) \/ Extract(r) \/ Ps(r) \/ Stop(r)
    PROVE  Restores'
<1>1. TypeInv
  BY RestoresParts
<1>2. TypeInv' /\ RestoreStep(r)
  BY <1>1, RestoreTypes
<1>3. job[r].pc \in Restoring /\ UNCHANGED truth
  BY <1>1, <1>2, CheckJob, LoadJob, ExtractJob, PsJob, StopJob DEF RestoreStep, history
<1>4. ASSUME ~torn PROVE Single(truth) /\ RestoreOK(r)
  BY <1>3, <1>4, AtRestore DEF Sound, ContentsSingle
<1>5. CASE Check(r)
  <2>1. /\ UNCHANGED <<live, stage, torn>> /\ job[r].pc = "check"
        /\ \/ job'[r].pc = "extract" /\ job[r].pick.src = "volume" /\ Intact(job[r].pick)
           \/ job'[r].pc = "load" /\ Intact(job[r].pick)
           \/ job'[r].pc = "finish"
    BY <1>1, <1>5, CheckJob DEF data, history
  <2>2. ~torn' => RestoreOK(r)'
    BY <1>2, <2>1, NoScript
  <2> QED BY <1>2, <1>3, <1>4, <2>1, <2>2, AtRestore, RestoreKept
<1>6. CASE Load(r)
  <2>1. UNCHANGED <<stage, torn>> /\ live'["volume"] = live["volume"] /\ job[r].pc = "load" /\ job'[r].pc = "finish"
    BY <1>1, <1>6, LoadJob DEF history
  <2>2. ~torn' => RestoreOK(r)'
    BY <1>2, <2>1, NoScript
  <2> QED BY <1>2, <1>3, <1>4, <2>1, <2>2, AtRestore, RestoreKept
<1>7. CASE Extract(r)
  <2>1. /\ UNCHANGED <<live, torn>> /\ job[r].pc = "extract" /\ \A q \in Run \ {r} : stage'[q] = stage[q]
        /\ stage'[r].phase = stage[r].phase /\ stage'[r].left = stage[r].left
        /\ \/ job'[r].pc = "ps" /\ stage'[r].new = obj[Key(job[r].pick)]
           \/ job'[r].pc = "finish"
    BY <1>1, <1>7, ExtractJob DEF history
  <2>2. ~torn => job[r].pick.src = "volume" /\ obj[Key(job[r].pick)] = job[r].pick.sum
    BY <1>4, <2>1 DEF RestoreOK, Intact
  <2>3. ~torn' => RestoreOK(r)'
    BY <1>2, <2>1, <2>2, NoScript
  <2> QED BY <1>2, <1>3, <1>4, <2>1, <2>3, AtRestore, RestoreKept
<1>8. CASE Ps(r)
  <2>1. /\ UNCHANGED <<live, stage, apps>> /\ job[r].pc = "ps" /\ (torn => torn')
        /\ job'[r].pc = "stop" \/ (job'[r].pc = "swap" /\ (apps = "stopped" \/ torn'))
    BY <1>1, <1>8, PsJob DEF data
  <2>2. ~torn => job[r].pick.src = "volume" /\ stage[r].new = job[r].pick.sum
    BY <1>4, <2>1 DEF RestoreOK
  <2>3. ~torn' => RestoreOK(r)'
    BY <1>2, <2>1, <2>2, NoScript
  <2> QED BY <1>2, <1>3, <1>4, <2>1, <2>3, AtRestore, RestoreKept
<1>9. CASE Stop(r)
  <2>1. /\ UNCHANGED <<live, stage, torn>> /\ job[r].pc = "stop"
        /\ (job'[r].pc = "swap" /\ apps' = "stopped") \/ job'[r].pc = "restart"
    BY <1>1, <1>9, StopJob DEF history
  <2>2. ~torn => job[r].pick.src = "volume" /\ stage[r].new = job[r].pick.sum
    BY <1>4, <2>1 DEF RestoreOK
  <2>3. ~torn' => RestoreOK(r)'
    BY <1>2, <2>1, <2>2, NoScript
  <2> QED BY <1>2, <1>3, <1>4, <2>1, <2>3, AtRestore, RestoreKept
<1> QED BY <1>5, <1>6, <1>7, <1>8, <1>9

LEMMA LateRestores ==
    ASSUME Restores, NEW r \in Run, Swap(r) \/ SwapEnd(r) \/ Rollback(r) \/ Restart(r)
    PROVE  Restores'
<1>1. TypeInv
  BY RestoresParts
<1>2. TypeInv' /\ RestoreStep(r) /\ job'[r].pick = job[r].pick
  BY <1>1, RestoreTypes DEF RestoreStep
<1>3. job[r].pc \in Restoring
  BY <1>2 DEF RestoreStep
<1>4. ASSUME ~torn PROVE Single(truth) /\ RestoreOK(r) /\ (job[r].pick.src = "volume" => Single(job[r].pick.sum))
  BY <1>3, <1>4, AtRestore DEF Sound, ContentsSingle, Restoring
<1>5. CASE Swap(r)
  <2>1. /\ UNCHANGED <<live, apps, truth>> /\ job[r].pc = "swap" /\ (torn => torn')
        /\ \A q \in Run \ {r} : stage'[q] = stage[q]
        /\ torn' \/ (/\ job'[r].pc = "swapping" /\ stage'[r].phase = "out"
                     /\ stage'[r].new = stage[r].new /\ stage'[r].left = stage[r].left)
    BY <1>1, <1>5, SwapJob
  <2>2. ~torn' => RestoreOK(r)'
    BY <1>2, <1>4, <2>1 DEF RestoreOK, ScriptAt
  <2> QED BY <1>2, <1>4, <2>1, <2>2, RestoreKept
<1>6. CASE SwapEnd(r)
  <2>1. /\ UNCHANGED <<live, apps>> /\ job[r].pc = "swapping" /\ (torn => torn')
        /\ torn' \/ (job'[r].pc = "restart" /\ stage[r].phase = "done" /\ UNCHANGED stage /\ truth' = job[r].pick.sum)
    BY <1>1, <1>6, SwapEndJob
  <2>2. ~torn' => RestoreOK(r)'
    BY <1>2, <1>4, <2>1 DEF RestoreOK
  <2>3. ~torn' => live'["volume"] = truth' /\ Single(truth')
    BY <1>4, <2>1 DEF RestoreOK, ScriptAt
  <2> QED BY <1>2, <2>1, <2>2, <2>3, RestoreKept
<1>7. CASE Rollback(r)
  <2>1. job[r].pc = "rollback" /\ UNCHANGED torn
    BY <1>1, <1>7, RollbackJob DEF history
  <2>2. torn'
    BY <1>4, <2>1 DEF RestoreOK
  <2> QED BY <1>2, <2>2, RestoreKept
<1>8. CASE Restart(r)
  <2>1. /\ UNCHANGED <<live, truth, torn>> /\ job[r].pc = "restart" /\ job'[r].pc = "finish"
        /\ \A q \in Run : stage'[q] = stage[q] \/ (q = r /\ stage'[q] = NoStage)
    BY <1>1, <1>8, RestartJob
  <2>2. ~torn' => RestoreOK(r)'
    BY <1>4, <2>1 DEF RestoreOK, NoStage
  <2> QED BY <1>2, <1>3, <1>4, <2>1, <2>2, AtRestore, RestoreKept
<1> QED BY <1>5, <1>6, <1>7, <1>8

\* A file of c put among other files of c displaces none.
LEMMA PutSingle ==
    ASSUME NEW c, Single(c), NEW dir \in SUBSET c, NEW x \in c
    PROVE  Put(x, dir) = dir \cup {x}
BY DEF Put, Single

LEMMA ScriptRestores == ASSUME Restores, NEW r \in Run, Script(r) PROVE Restores'
<1>1. TypeInv /\ OneAtWork /\ TypeInv'
  BY RestoresParts, ScriptTypes
<1>2. /\ UNCHANGED <<job, row, snap, obj, apps, truth>> /\ (torn => torn')
      /\ \A q \in Run \ {r} : stage'[q] = stage[q]
      /\ stage[r].phase \in {"out", "in"}
  BY <1>1, ScriptStep DEF jobs, store
<1>3. OneAtWork'
  BY <1>1, <1>2 DEF OneAtWork
<1>4. ASSUME ~torn' PROVE Sound'
  <2>1. Sound /\ RestoreOK(r)
    BY <1>2, <1>4, RestoresParts DEF Sound
  <2>2. job[r].pc = "swapping" /\ stage[r].left = {} /\ ScriptAt(r) /\ job[r].pick.src = "volume" /\ apps = "stopped"
    BY <1>2, <2>1 DEF RestoreOK
  <2>3. Single(job[r].pick.sum)
    <3>1. row[r].kind = "restore"
      BY <2>2, AtRestore DEF Restoring
    <3> QED BY <2>1, <2>2, <3>1 DEF Sound, ContentsSingle
  <2>4. ContentsSingle'
    BY <1>2, <2>1 DEF Sound, ContentsSingle
  <2>5. stage'[r].left = {} /\ ScriptAt(r)'
    <3>1. CASE /\ stage[r].phase = "out" /\ stage'[r].phase = "out" /\ stage'[r].new = stage[r].new
               /\ stage'[r].left = stage[r].left
      BY <1>2, <2>2, <3>1 DEF ScriptAt
    <3>2. ASSUME stage[r].phase = "in", stage'[r].phase = "in", stage'[r].left = stage[r].left,
                 NEW x \in stage[r].new, live'["volume"] = Put(x, live["volume"]), stage'[r].new = stage[r].new \ {x}
          PROVE  stage'[r].left = {} /\ ScriptAt(r)'
      <4>1. live["volume"] \cup stage[r].new = job[r].pick.sum
        BY <2>2, <3>2 DEF ScriptAt
      <4>2. Put(x, live["volume"]) = live["volume"] \cup {x}
        BY <2>3, <4>1, PutSingle
      <4>3. live'["volume"] \cup stage'[r].new = job'[r].pick.sum
        BY <1>2, <3>2, <4>1, <4>2
      <4> QED BY <2>2, <3>2, <4>3 DEF ScriptAt
    <3>3. CASE /\ stage[r].phase = "out" /\ live["volume"] \subseteq stage[r].left /\ UNCHANGED live
               /\ stage'[r].phase = "in" /\ stage'[r].left = {} /\ stage'[r].new = stage[r].new
      <4>1. live'["volume"] = {} /\ stage'[r].new = job'[r].pick.sum
        BY <1>2, <2>2, <3>3 DEF ScriptAt
      <4> QED BY <3>3, <4>1 DEF ScriptAt
    <3>4. CASE /\ stage[r].phase = "in" /\ stage[r].new \subseteq stage[r].left /\ UNCHANGED live
               /\ stage'[r].phase = "done" /\ stage'[r].left = {}
      <4>1. live'["volume"] = job'[r].pick.sum
        BY <1>2, <2>2, <3>4 DEF ScriptAt
      <4> QED BY <3>4, <4>1 DEF ScriptAt
    <3> QED BY <1>1, <1>4, <3>1, <3>2, <3>3, <3>4, ScriptStep
  <2>6. RestoreOK(r)'
    BY <1>2, <2>2, <2>5 DEF RestoreOK
  <2>7. \A q \in Run \ {r} : RestoreOK(q)'
    <3>1. job[r].pc \notin Resting
      BY <2>2 DEF Resting, Waiting
    <3>2. Moves(r)
      BY <1>1, <1>2 DEF Moves, TypeInv, Types
    <3> QED BY <1>1, <1>2, <2>1, <3>1, <3>2, OthersRestore
  <2>8. LiveIsWhole'
    BY <1>2, <2>2 DEF LiveIsWhole
  <2> QED BY <2>4, <2>6, <2>7, <2>8 DEF Sound
<1> QED BY <1>1, <1>3, <1>4, VolumeFromSound DEF Restores

LEMMA AppWriteRestores == ASSUME Restores, AppWrite PROVE Restores'
<1>1. TypeInv /\ OneAtWork /\ TypeInv'
  BY RestoresParts, AppWriteTypes
<1>2. /\ UNCHANGED <<job, row, snap, obj, stage, apps, torn>> /\ apps = "running"
      /\ Single(truth') /\ live'["volume"] = truth'
  BY <1>1, AppWriteStep, WholeSingle DEF jobs, store, AppWrite
<1>3. OneAtWork'
  BY <1>1, <1>2 DEF OneAtWork
<1>4. ASSUME ~torn' PROVE Sound'
  <2>1. Sound
    BY <1>2, <1>4, RestoresParts
  <2>2. ContentsSingle'
    BY <1>2, <2>1 DEF Sound, ContentsSingle
  <2>3. ASSUME NEW r \in Run PROVE RestoreOK(r)'
    BY <1>2, <2>1 DEF Sound, RestoreOK, Intact, Key
  <2> QED BY <1>2, <2>2, <2>3 DEF Sound, LiveIsWhole
<1> QED BY <1>1, <1>3, <1>4, VolumeFromSound DEF Restores

LEMMA NextRestores == ASSUME OneProcess, Restores, [Next]_vars PROVE Restores'
<1>1. CASE \E p \in Proc : Boot(p) \/ Crash(p) \/ Shutdown(p) \/ Exit(p)
  BY <1>1, ProcessRestores
<1>2. CASE \E p \in Proc, r \in Run : StartBackup(p, r) \/ StartVerify(p, r) \/ StartRestore(p, r) \/ ClaimDue(p, r)
  BY <1>2, StartRestores
<1>3. CASE \E r \in Run : Timeout(r) \/ Script(r)
  BY <1>3, TimeoutRestores, ScriptRestores
<1>4. CASE (\E r \in Run : Age(r)) \/ AppWrite \/ UNCHANGED vars
  BY <1>4, AgeRestores, AppWriteRestores
<1>5. ASSUME NEW r \in Run, JobStep(r) PROVE Restores'
  <2>1. CASE TickExecute(r) \/ Acquire(r) \/ Finish(r)
    BY <2>1, TickExecuteRestores, AcquireRestores, FinishRestores
  <2>2. CASE Begin(r) \/ (\E s \in Data : Upload(r, s)) \/ Record(r) \/ Judge(r)
    BY <2>2, BeginRestores, UploadRestores, RecordRestores, JudgeRestores
  <2>3. CASE Retain(r) \/ Sweep(r) \/ Mark(r) \/ Verify(r)
    BY <2>3, SweepingRestores, VerifyRestores
  <2>4. CASE \/ Check(r) \/ Load(r) \/ Extract(r) \/ Ps(r) \/ Stop(r) \/ Swap(r) \/ SwapEnd(r) \/ Rollback(r) \/ Restart(r)
    BY <2>4, EarlyRestores, LateRestores
  <2> QED BY <1>5, <2>1, <2>2, <2>3, <2>4 DEF JobStep
<1> QED BY <1>1, <1>2, <1>3, <1>4, <1>5 DEF Next

\* With one process, a volume that no restore is swapping and whose swaps were not
\* disturbed holds what the application wrote last or exactly the snapshot that was
\* restored: executeRestore checks it first, the containers are stopped, and the slot
\* of the process keeps backups and other restores away.
THEOREM VolumeIsWhole == ASSUME OneProcess PROVE Spec => []LiveIsWhole
<1>1. Restores => LiveIsWhole
  BY DEF Restores, VolumeOK, LiveIsWhole
<1>2. Restores /\ [Next]_vars => Restores'
  BY NextRestores
<1> QED BY <1>1, <1>2, InitRestores, PTL DEF Spec
=============================================================================

------------------------------ MODULE Backups ------------------------------
(***************************************************************************)
(* The backups of one project (internal/backup): the jobs that store its   *)
(* database and its data volume, expire old snapshots, verify them and     *)
(* restore them, over crashes, shutdowns, timeouts and failed calls.       *)
(***************************************************************************)
EXTENDS Naturals, FiniteSets

CONSTANTS
    Proc,       \* server processes
    Includes,   \* what the settings of the project may include, sets of data sources
    MaxRun,     \* bound: jobs
    MaxWrites,  \* bound: versions the application writes
    MaxFaults   \* bound: failed calls, timeouts, crashes and shutdowns

Data == {"database", "volume"}

ASSUME BackupsAssumption ==
    /\ Includes \subseteq SUBSET Data
    /\ MaxRun \in Nat /\ MaxWrites \in Nat /\ MaxFaults \in Nat

Run == 1..MaxRun

\* What a source holds: files, each of the version that wrote it.
File == {"a", "b"}
Content == SUBSET ((0..MaxWrites) \X File)
Whole(v) == {v} \X File

\* A row of backup_snapshots; its object key depends on its run and source only.
Snapshot == [run : Run, src : Data, try : 0..1, sum : Content]

CONSTANTS NoObject, NoSnapshot, NoProc

VARIABLES
    up,       \* processes that run
    closing,  \* those whose base context is cancelled
    row,      \* backup_runs: kind and status
    job,      \* the goroutine that executes a run
    snap,     \* backup_snapshots with deleted_at IS NULL
    obj,      \* the object store
    aged,     \* runs older than retention_days
    live,     \* what the sources hold now
    stage,    \* the staging volume of a restore, and the container that runs volumeSwapScript
    apps,     \* the containers that use the volume
    writes,   \* versions the application wrote
    faults,   \* faults so far
    truth,    \* history: what the volume should hold
    hollow,   \* history: sources a successful backup left out
    torn,     \* history: a swap was disturbed or abandoned
    stranded, \* history: whoever had to restart the containers is gone, or failed to
    unended   \* history: runs whose end was not written

jobs == <<up, closing, row, job>>
store == <<snap, obj, aged>>
data == <<live, stage, apps, writes>>
history == <<truth, hollow, torn, stranded, unended>>
vars == <<jobs, store, data, faults, history>>

Idle == [pc |-> "idle", by |-> NoProc, inc |-> {}, done |-> {}, src |-> "database", try |-> 0,
         skipped |-> {}, stored |-> FALSE, err |-> FALSE, ended |-> FALSE, pick |-> NoSnapshot,
         list |-> {}, stopped |-> FALSE, keep |-> FALSE]

NoStage == [new |-> {}, old |-> {}, made |-> FALSE, phase |-> "none", left |-> {}]

Init ==
    /\ up = {} /\ closing = {}
    /\ row = [r \in Run |-> [kind |-> "backup", status |-> "none"]]
    /\ job = [r \in Run |-> Idle]
    /\ snap = {} /\ aged = {}
    /\ obj = [k \in Run \X Data |-> NoObject]
    /\ live = [s \in Data |-> Whole(0)]
    /\ stage = [r \in Run |-> NoStage]
    /\ apps = "running"
    /\ writes = 0 /\ faults = 0
    /\ truth = Whole(0) /\ hollow = {}
    /\ torn = FALSE /\ stranded = FALSE /\ unended = {}

-----------------------------------------------------------------------------
(* Calls and their failures. *)

Fault == faults < MaxFaults /\ faults' = faults + 1

\* A call under the context of the job succeeds only while the context lasts.
Ok(r) == ~job[r].ended /\ UNCHANGED faults
Err(r) == (job[r].ended /\ UNCHANGED faults) \/ (~job[r].ended /\ Fault)

Key(sn) == <<sn.run, sn.src>>
At(r, pc) == job[r].pc = pc /\ job[r].by \in up
Step(r, j) == job' = [job EXCEPT ![r] = j]
Goto(r, pc) == Step(r, [job[r] EXCEPT !.pc = pc])
Fail(r, pc) == Step(r, [job[r] EXCEPT !.pc = pc, !.err = TRUE])

-----------------------------------------------------------------------------
(* Processes. *)

\* Mutant: runs of the process that died stay running.
FailOrphansMutant == row

FailOrphans == [r \in Run |-> IF row[r].status = "running" THEN [row[r] EXCEPT !.status = "failed"] ELSE row[r]]

\* Run: a process starts, and fails the runs that were left running.
Boot(p) ==
    /\ p \notin up
    /\ up' = up \cup {p}
    /\ \/ row' = FailOrphans /\ UNCHANGED <<faults, unended>>
       \/ UNCHANGED row /\ Fault /\ unended' = unended \cup {r \in Run : row[r].status = "running"}
    /\ UNCHANGED <<closing, job, store, data, truth, hollow, torn, stranded>>

\* The jobs of p are gone: a helper container goes on by itself, containers stay as they are.
Die(p) ==
    /\ up' = up \ {p}
    /\ closing' = closing \ {p}
    /\ job' = [r \in Run |-> IF job[r].by = p THEN Idle ELSE job[r]]
    /\ torn' = (torn \/ \E r \in Run : job[r].by = p /\ job[r].pc \in {"swap", "swapping", "rollback"})
    /\ stranded' = (stranded \/ \E r \in Run : job[r].by = p /\ job[r].stopped)
    /\ UNCHANGED <<row, store, data, truth, hollow, unended>>

Crash(p) == p \in up \ closing /\ Fault /\ Die(p)

\* The base context is cancelled, and later the process exits.
Shutdown(p) ==
    /\ p \in up \ closing
    /\ Fault
    /\ closing' = closing \cup {p}
    /\ job' = [r \in Run |-> IF job[r].by = p THEN [job[r] EXCEPT !.ended = TRUE] ELSE job[r]]
    /\ UNCHANGED <<up, row, store, data, history>>

Exit(p) == p \in closing /\ Die(p) /\ UNCHANGED faults

\* RunTimeout.
Timeout(r) ==
    /\ job[r].pc \notin {"idle", "claimed"} /\ ~job[r].ended
    /\ Fault
    /\ Step(r, [job[r] EXCEPT !.ended = TRUE])
    /\ UNCHANGED <<up, closing, row, store, data, history>>

-----------------------------------------------------------------------------
(* Starting jobs. *)

\* uq_backup_runs_running: one running job of the project.
SlotFree == \A r \in Run : row[r].status # "running"

\* insertBackupRun: the row, and the goroutine of p that executes it.
Insert(p, r, kind, j) ==
    /\ p \in up \ closing
    /\ row[r].status = "none" /\ \A q \in 1..(r - 1) : row[q].status # "none"
    /\ SlotFree
    /\ row' = [row EXCEPT ![r] = [kind |-> kind, status |-> "running"]]
    /\ Step(r, [j EXCEPT !.by = p])
    /\ UNCHANGED <<up, closing, store, data, faults, history>>

StartBackup(p, r) ==
    \E inc \in Includes : Insert(p, r, "backup", [Idle EXCEPT !.pc = "acquire", !.inc = inc])

StartVerify(p, r) == Insert(p, r, "verify", [Idle EXCEPT !.pc = "acquire"])

StartRestore(p, r) ==
    \E sn \in snap : Insert(p, r, "restore", [Idle EXCEPT !.pc = "acquire", !.pick = sn])

\* FinishRun: by id, whatever the row says now.
FinishRun(r, status) == row' = [row EXCEPT ![r].status = status]

\* Tick: ClaimDue inserts the row of a project that is due.
ClaimDue(p, r) == Insert(p, r, "backup", [Idle EXCEPT !.pc = "claimed"])

\* Tick then loads the settings and executes it, unless the scheduler was stopped.
TickExecute(r) ==
    /\ At(r, "claimed")
    /\ \/ job[r].ended /\ Step(r, Idle) /\ UNCHANGED <<row, faults, unended>>
       \/ Ok(r) /\ UNCHANGED <<row, unended>>
          /\ \E inc \in Includes : Step(r, [job[r] EXCEPT !.pc = "acquire", !.inc = inc])
       \/ ~job[r].ended /\ Fault /\ Step(r, Idle)
          /\ \/ FinishRun(r, "failed") /\ UNCHANGED unended
             \/ UNCHANGED row /\ unended' = unended \cup {r}
    /\ UNCHANGED <<up, closing, store, data, truth, hollow, torn, stranded>>

\* acquire: the one slot of the process, or the end of the context.
Acquire(r) ==
    /\ At(r, "acquire")
    /\ \/ /\ \A q \in Run \ {r} : job[q].by = job[r].by => job[q].pc \in {"idle", "claimed", "acquire"}
          /\ Goto(r, CASE row[r].kind = "backup" -> "begin" [] row[r].kind = "verify" -> "verify" [] OTHER -> "check")
       \/ job[r].ended /\ Fail(r, "finish")
    /\ UNCHANGED <<up, closing, row, store, data, faults, history>>

\* finish: the outcome, written under a context of its own.
Finish(r) ==
    /\ At(r, "finish")
    /\ Step(r, Idle)
    /\ \/ /\ FinishRun(r, IF job[r].err THEN "failed" ELSE "success")
          /\ UNCHANGED <<faults, unended>>
       \/ Fault /\ unended' = unended \cup {r} /\ UNCHANGED row
    /\ UNCHANGED <<up, closing, store, data, truth, hollow, torn, stranded>>

-----------------------------------------------------------------------------
(* Backup: projectOnce, twice if need be, then retention. *)

After(s) == IF s = "database" THEN "volume" ELSE "judge"

\* The project and its databases are loaded, the manifest is stored if it was not yet.
Begin(r) ==
    /\ At(r, "begin")
    /\ \/ Ok(r) /\ Step(r, [job[r] EXCEPT !.pc = "database", !.err = FALSE, !.done = @ \cup {"manifest"}])
       \/ Err(r) /\ "manifest" \notin job[r].done /\ Fail(r, "database")
       \/ Err(r) /\ Fail(r, "judge")
    /\ UNCHANGED <<up, closing, row, store, data, history>>

\* putStream: the dump is stored under the key of the run, whole or not at all.
PutStream(r, s) == obj' = [obj EXCEPT ![<<r, s>>] = live[s]]

\* backupDatabase, backupVolume: a source that docker does not show is skipped with a note and done, a database that
\* is not available (a disturbance like the others) is left out of this attempt without one, and a failed upload may have been stored.
Upload(r, s) ==
    /\ At(r, s)
    /\ UNCHANGED <<up, closing, row, snap, aged, data, history>>
    /\ \/ /\ s \notin job[r].inc \ job[r].done
          /\ Goto(r, After(s)) /\ UNCHANGED <<obj, faults>>
       \/ /\ s = "database" /\ s \in job[r].inc \ job[r].done
          /\ Step(r, [job[r] EXCEPT !.pc = After(s), !.skipped = @ \cup {s}])
          /\ Fault /\ UNCHANGED obj
       \/ /\ s \in job[r].inc \ job[r].done
          /\ Err(r)
          /\ \/ /\ Step(r, [job[r] EXCEPT !.pc = After(s), !.done = @ \cup {s}, !.skipped = @ \cup {s}])
                /\ UNCHANGED obj
             \/ Fail(r, After(s)) /\ (UNCHANGED obj \/ PutStream(r, s))
       \/ /\ s \in job[r].inc \ job[r].done
          /\ Ok(r)
          /\ PutStream(r, s)
          /\ Step(r, [job[r] EXCEPT !.pc = "record", !.src = s])

\* Mutant: a source whose snapshot was not recorded is not tried again.
RecordErrMutant(r) == Step(r, [job[r] EXCEPT !.pc = After(job[r].src), !.done = @ \cup {job[r].src}])

\* A snapshot that was not recorded is an error of the attempt.
RecordErr(r) == Fail(r, After(job[r].src))

\* record: the insert may have happened though its answer is lost.
Record(r) ==
    /\ At(r, "record")
    /\ LET s == job[r].src
           sn == [run |-> r, src |-> s, try |-> job[r].try, sum |-> obj[<<r, s>>]]
       IN  \/ /\ Ok(r) /\ snap' = snap \cup {sn}
              /\ Step(r, [job[r] EXCEPT !.pc = After(s), !.done = @ \cup {s}, !.skipped = @ \ {s}, !.stored = TRUE])
           \/ /\ Err(r) /\ snap' \in {snap, snap \cup {sn}}
              /\ RecordErr(r)
    /\ UNCHANGED <<up, closing, row, obj, aged, data, history>>

\* "nothing was backed up": only databases were wanted and all were skipped, with a note.
NothingBackedUp(j) == "database" \in j.inc /\ "volume" \notin j.inc /\ ~j.stored /\ "database" \in j.skipped \cap j.done

\* withRetry: a second attempt after errors; retention only after success.
Judge(r) ==
    /\ At(r, "judge")
    /\ LET j == job[r] IN
       \/ /\ ~j.err /\ ~NothingBackedUp(j) /\ Goto(r, "retain")
          /\ hollow' = hollow \cup (Data \ j.inc) \cup j.skipped
       \/ /\ j.err \/ NothingBackedUp(j)
          /\ \/ j.try = 0 /\ ~j.ended /\ Step(r, [j EXCEPT !.pc = "begin", !.try = 1])
             \/ (j.try = 1 \/ j.ended) /\ Fail(r, "finish")
          /\ UNCHANGED hollow
    /\ UNCHANGED <<up, closing, row, store, data, faults, truth, torn, stranded, unended>>

\* Time passes: the snapshots of r, and of the runs before it, expire.
Age(r) ==
    /\ r \notin aged /\ job[r].pc = "idle" /\ row[r].status # "none"
    /\ (1..(r - 1)) \subseteq aged
    /\ aged' = aged \cup {r}
    /\ UNCHANGED <<jobs, snap, obj, data, faults, history>>

\* retain: ExpiredSnapshots.
Retain(r) ==
    /\ At(r, "retain")
    /\ \/ Ok(r) /\ Step(r, [job[r] EXCEPT !.pc = "sweep", !.list = {sn \in snap : sn.run \in aged}])
       \/ Err(r) /\ Goto(r, "finish")
    /\ UNCHANGED <<up, closing, row, store, data, history>>

\* For each of them the object is deleted first, then its row is marked.
Sweep(r) ==
    /\ At(r, "sweep")
    /\ \/ job[r].list = {} /\ Goto(r, "finish") /\ UNCHANGED <<obj, faults>>
       \/ \E sn \in job[r].list :
             \/ Ok(r) /\ obj' = [obj EXCEPT ![Key(sn)] = NoObject]
                /\ Step(r, [job[r] EXCEPT !.pc = "mark", !.pick = sn])
             \/ Err(r) /\ UNCHANGED obj /\ Step(r, [job[r] EXCEPT !.list = @ \ {sn}])
    /\ UNCHANGED <<up, closing, row, snap, aged, data, history>>

Mark(r) ==
    /\ At(r, "mark")
    /\ \/ Ok(r) /\ snap' = snap \ {job[r].pick}
       \/ Err(r) /\ UNCHANGED snap
    /\ Step(r, [job[r] EXCEPT !.pc = "sweep", !.list = @ \ {job[r].pick}, !.pick = NoSnapshot])
    /\ UNCHANGED <<up, closing, row, obj, aged, data, history>>

-----------------------------------------------------------------------------
(* Verification. *)

Newer(a, b) == a.run > b.run \/ (a.run = b.run /\ a.try > b.try)
Latest == {sn \in snap : ~\E t \in snap : t.src = sn.src /\ Newer(t, sn)}

\* checkSnapshot: the object is there and matches the checksum of the row.
Intact(sn) == obj[Key(sn)] = sn.sum

\* verify: the latest snapshot of every source.
Verify(r) ==
    /\ At(r, "verify")
    /\ \/ Ok(r) /\ IF Latest # {} /\ \A sn \in Latest : Intact(sn) THEN Goto(r, "finish") ELSE Fail(r, "finish")
       \/ Err(r) /\ Fail(r, "finish")
    /\ UNCHANGED <<up, closing, row, store, data, history>>

-----------------------------------------------------------------------------
(* Restore. *)

\* Mutant: the snapshot is restored unchecked.
CheckMutant(r) ==
    /\ At(r, "check") /\ Ok(r)
    /\ Goto(r, IF job[r].pick.src = "volume" THEN "extract" ELSE "load")
    /\ UNCHANGED <<up, closing, row, store, data, history>>

\* executeRestore: nothing is touched unless the snapshot is intact.
Check(r) ==
    /\ At(r, "check")
    /\ \/ Ok(r) /\ IF Intact(job[r].pick)
                   THEN Goto(r, IF job[r].pick.src = "volume" THEN "extract" ELSE "load")
                   ELSE Fail(r, "finish")
       \/ Err(r) /\ Fail(r, "finish")
    /\ UNCHANGED <<up, closing, row, store, data, history>>

\* restoreDatabase in place: pg_restore works in one transaction.
Load(r) ==
    /\ At(r, "load")
    /\ \/ /\ Ok(r) /\ obj[Key(job[r].pick)] # NoObject
          /\ live' = [live EXCEPT !["database"] = obj[Key(job[r].pick)]]
          /\ Goto(r, "finish")
       \/ (Err(r) \/ (Ok(r) /\ obj[Key(job[r].pick)] = NoObject)) /\ UNCHANGED live /\ Fail(r, "finish")
    /\ UNCHANGED <<up, closing, row, store, stage, apps, writes, history>>

\* restoreVolume: the archive is extracted into a staging volume.
Extract(r) ==
    /\ At(r, "extract")
    /\ \/ /\ Ok(r) /\ obj[Key(job[r].pick)] # NoObject
          /\ stage' = [stage EXCEPT ![r].new = obj[Key(job[r].pick)]]
          /\ Goto(r, "ps")
       \/ (Err(r) \/ (Ok(r) /\ obj[Key(job[r].pick)] = NoObject)) /\ UNCHANGED stage /\ Fail(r, "finish")
    /\ UNCHANGED <<up, closing, row, store, live, apps, writes, history>>

\* The containers that use the volume: when docker ps fails, none.
Ps(r) ==
    /\ At(r, "ps")
    /\ \/ Ok(r) /\ Step(r, [job[r] EXCEPT !.pc = IF apps = "running" THEN "stop" ELSE "swap"]) /\ UNCHANGED torn
       \/ Err(r) /\ Goto(r, "swap") /\ torn' = (torn \/ apps = "running")
    /\ UNCHANGED <<up, closing, row, store, data, truth, hollow, stranded, unended>>

\* docker stop; after an error they are started again.
Stop(r) ==
    /\ At(r, "stop")
    /\ \/ Ok(r) /\ apps' = "stopped" /\ Step(r, [job[r] EXCEPT !.pc = "swap", !.stopped = TRUE])
       \/ Err(r) /\ apps' \in {"running", "stopped"}
          /\ Step(r, [job[r] EXCEPT !.pc = "restart", !.stopped = TRUE, !.err = TRUE])
    /\ UNCHANGED <<up, closing, row, store, live, stage, writes, history>>

\* docker run of volumeSwapScript; if it fails before the script, roll back.
Swap(r) ==
    /\ At(r, "swap")
    /\ \/ /\ Ok(r) /\ Goto(r, "swapping") /\ UNCHANGED torn
          /\ stage' = [stage EXCEPT ![r].made = TRUE, ![r].phase = "out"]
       \/ Err(r) /\ Fail(r, "rollback") /\ torn' = TRUE /\ UNCHANGED stage
    /\ UNCHANGED <<up, closing, row, store, live, apps, writes, truth, hollow, stranded, unended>>

\* One entry is moved into a directory; one of the same name is replaced.
Put(x, dir) == {y \in dir : y[2] # x[2]} \cup {x}

\* find -exec mv: an entry that cannot be moved stays, and the script goes on.
LeaveBehind(r, x) ==
    /\ Fault /\ torn' = TRUE
    /\ stage' = [stage EXCEPT ![r].left = @ \cup {x}]
    /\ UNCHANGED live

MoveOut(r, x) ==
    /\ stage[r].phase = "out" /\ x \in live["volume"] \ stage[r].left
    /\ \/ /\ live' = [live EXCEPT !["volume"] = @ \ {x}]
          /\ stage' = [stage EXCEPT ![r].old = Put(x, @)]
          /\ UNCHANGED <<faults, torn>>
       \/ LeaveBehind(r, x)
    /\ UNCHANGED <<jobs, store, apps, writes, truth, hollow, stranded, unended>>

MoveIn(r, x) ==
    /\ stage[r].phase = "in" /\ x \in stage[r].new \ stage[r].left
    /\ \/ /\ live' = [live EXCEPT !["volume"] = Put(x, @)]
          /\ stage' = [stage EXCEPT ![r].new = @ \ {x}]
          /\ UNCHANGED <<faults, torn>>
       \/ LeaveBehind(r, x)
    /\ UNCHANGED <<jobs, store, apps, writes, truth, hollow, stranded, unended>>

\* The second command of the script, and its end.
ScriptNext(r) ==
    /\ \/ /\ stage[r].phase = "out" /\ live["volume"] \subseteq stage[r].left
          /\ stage' = [stage EXCEPT ![r].phase = "in", ![r].left = {}]
       \/ /\ stage[r].phase = "in" /\ stage[r].new \subseteq stage[r].left
          /\ stage' = [stage EXCEPT ![r].phase = "done", ![r].left = {}]
    /\ UNCHANGED <<jobs, store, live, apps, writes, faults, history>>

\* The job learns how the script ended. Killing the docker client leaves the
\* container running; the container may also die halfway.
SwapEnd(r) ==
    /\ At(r, "swapping")
    /\ \/ /\ Ok(r) /\ stage[r].phase = "done"
          /\ truth' = job[r].pick.sum
          /\ Goto(r, "restart") /\ UNCHANGED <<stage, torn>>
       \/ /\ Err(r) /\ stage' \in {stage, [stage EXCEPT ![r].phase = "none"]}
          /\ Fail(r, "rollback") /\ torn' = TRUE /\ UNCHANGED truth
    /\ UNCHANGED <<up, closing, row, store, live, apps, writes, hollow, stranded, unended>>

\* volumeRollbackScript: everything in the volume is removed, then /stage/old is
\* moved back; without /stage/old the script fails. After a failure the staging
\* volume is kept.
Rollback(r) ==
    /\ At(r, "rollback")
    /\ \/ /\ \E back \in SUBSET stage[r].old :
                /\ (back = stage[r].old /\ UNCHANGED faults) \/ (back # stage[r].old /\ Fault)
                /\ live' = [live EXCEPT !["volume"] = back]
                /\ stage' = [stage EXCEPT ![r].old = @ \ back]
          /\ Step(r, [job[r] EXCEPT !.pc = "restart", !.keep = ~stage[r].made])
       \/ /\ Fault /\ UNCHANGED <<live, stage>>
          /\ Step(r, [job[r] EXCEPT !.pc = "restart", !.keep = TRUE])
    /\ UNCHANGED <<up, closing, row, store, apps, writes, history>>

\* The staging volume is removed, unless it is kept or a container uses it.
Unstaged(r) ==
    IF job[r].keep \/ stage[r].phase \in {"out", "in"} THEN stage ELSE [stage EXCEPT ![r] = NoStage]

\* Mutant: only a restore that succeeded restarts the containers.
RestartMutant(r) ==
    /\ At(r, "restart") /\ Goto(r, "finish") /\ stage' = Unstaged(r)
    /\ apps' = IF job[r].stopped /\ ~job[r].err THEN "running" ELSE apps
    /\ UNCHANGED <<up, closing, row, store, live, writes, faults, history>>

\* The containers that were stopped are started, on every path.
Restart(r) ==
    /\ At(r, "restart")
    /\ stage' = Unstaged(r)
    /\ \/ /\ apps' = IF job[r].stopped THEN "running" ELSE apps
          /\ Step(r, [job[r] EXCEPT !.pc = "finish", !.stopped = FALSE]) /\ UNCHANGED <<faults, stranded>>
       \/ /\ job[r].stopped /\ Fault /\ UNCHANGED apps /\ stranded' = TRUE
          /\ Step(r, [job[r] EXCEPT !.pc = "finish", !.stopped = FALSE, !.err = TRUE])
    /\ UNCHANGED <<up, closing, row, store, live, writes, truth, hollow, torn, unended>>

-----------------------------------------------------------------------------
(* The application writes a new version of its files. *)
AppWrite ==
    /\ apps = "running" /\ writes < MaxWrites
    /\ writes' = writes + 1
    /\ live' = [s \in Data |-> Whole(writes + 1)]
    /\ truth' = Whole(writes + 1)
    /\ UNCHANGED <<jobs, store, stage, apps, faults, hollow, torn, stranded, unended>>

-----------------------------------------------------------------------------
JobStep(r) ==
    \/ TickExecute(r) \/ Acquire(r) \/ Finish(r)
    \/ Begin(r) \/ (\E s \in Data : Upload(r, s)) \/ Record(r) \/ Judge(r)
    \/ Retain(r) \/ Sweep(r) \/ Mark(r) \/ Verify(r)
    \/ Check(r) \/ Load(r) \/ Extract(r) \/ Ps(r) \/ Stop(r)
    \/ Swap(r) \/ SwapEnd(r) \/ Rollback(r) \/ Restart(r)

Script(r) ==
    \/ \E x \in live["volume"] : MoveOut(r, x)
    \/ \E x \in stage[r].new : MoveIn(r, x)
    \/ ScriptNext(r)

Next ==
    \/ \E p \in Proc : Boot(p) \/ Crash(p) \/ Shutdown(p) \/ Exit(p)
    \/ \E p \in Proc, r \in Run : StartBackup(p, r) \/ StartVerify(p, r) \/ StartRestore(p, r) \/ ClaimDue(p, r)
    \/ \E r \in Run : Timeout(r) \/ Age(r) \/ JobStep(r) \/ Script(r)
    \/ AppWrite

Spec == Init /\ [][Next]_vars

\* A process is restarted, one that shuts down exits, and goroutines and containers make progress.
FairSpec ==
    /\ Spec
    /\ \A p \in Proc : WF_vars(Boot(p)) /\ WF_vars(Exit(p))
    /\ \A r \in Run : WF_vars(JobStep(r)) /\ WF_vars(Script(r))

-----------------------------------------------------------------------------
(* Properties. *)

\* Every variable keeps its type.
TypeOK ==
    /\ up \subseteq Proc /\ closing \subseteq up
    /\ \A r \in Run : row[r].status \in {"none", "running", "success", "failed"}
    /\ snap \subseteq Snapshot
    /\ \A k \in Run \X Data : obj[k] \in Content \cup {NoObject}
    /\ \A s \in Data : live[s] \in Content
    /\ aged \subseteq Run /\ hollow \subseteq Data /\ apps \in {"running", "stopped"}

\* Once a backup of a source succeeded there is an intact snapshot of it, through
\* retries, failed runs and retention (retain follows success only, and a run is
\* successful when each source was recorded), unless a successful run left the source out.
AlwaysRestorable ==
    \A r \in Run, s \in Data :
       row[r] = [kind |-> "backup", status |-> "success"] /\ s \notin hollow
       => \E sn \in snap : sn.src = s /\ Intact(sn)

\* Unless a swap was disturbed, the volume holds what the application wrote last or
\* exactly what was restored, outside the swap itself: an unchecked archive, a
\* half-extracted one or a running application never gets mixed into it.
LiveIsWhole == ~torn /\ (\A r \in Run : job[r].pc # "swapping") => live["volume"] = truth

\* Every run ends, whichever call, context or process does (FailOrphans ends the
\* runs of a process that died), unless its end could not be written.
EveryJobEnds == \A r \in Run : row[r].status = "running" ~> row[r].status # "running" \/ r \in unended

\* The containers a restore stopped run again, on every path of restoreVolume, unless
\* the process that stopped them is gone or docker start fails.
ContainersComeBack == apps = "stopped" ~> apps = "running" \/ stranded

\* "Any failure rolls the previous data back": after a restore that failed the volume
\* holds its previous data, or the staging volume does.
FailureRollsBack ==
    \A r \in Run :
       row[r] = [kind |-> "restore", status |-> "failed"] /\ (\A q \in Run : job[q].pc = "idle")
       => live["volume"] = truth \/ stage[r].old = truth
=============================================================================

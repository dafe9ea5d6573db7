------------------------------ MODULE Imports ------------------------------
(***************************************************************************)
(* Imports of repositories from GitHub (internal/gitimport/service.go and  *)
(* its tables git_imports and git_import_repos): a request records an      *)
(* import and runs it in a goroutine; the same request with the same       *)
(* Idempotency-Key resumes one that did not finish, also after the process *)
(* that ran it has gone.                                                   *)
(*                                                                         *)
(* Every request has a key, and an import is named by it: a request        *)
(* without one is a request that nobody repeats.  A step is one statement  *)
(* or one call to GitHub or the forge; reads of a request that change      *)
(* nothing are part of the step they decide.                               *)
(***************************************************************************)
EXTENDS Integers, FiniteSets, FiniteSetsExt

CONSTANTS
    Import,     \* Idempotency-Keys
    Proc,       \* processes of the backend
    Client,     \* requests in progress
    Worker,     \* bound: goroutines that run imports
    MaxSlug,    \* bound: repositories, numbered in the order of their names
    Request,    \* what is asked for: the repositories, and whether projects are created for them
    MaxAsks,    \* bound: requests
    MaxOthers,  \* bound: projects and repositories somebody else makes
    MaxFaults   \* bound: failed or slow calls, stops and crashes

Slug == 1..MaxSlug

ASSUME ImportsAssumption ==
    /\ MaxSlug \in Nat \ {0} /\ MaxAsks \in Nat /\ MaxOthers \in Nat /\ MaxFaults \in Nat
    /\ Request \subseteq [slugs : SUBSET Slug \ {{}}, create : BOOLEAN] /\ "nobody" \notin Import

Nobody == "nobody"
Others == "others"
Maker == Import \cup {Nobody, Others}

\* How long ago an import was touched: less than the time after which it is taken for abandoned
\* (RepoTimeout and a minute), longer, longer than BusySlugs looks back.
Age == 0..2

VARIABLES
    imp,      \* git_imports: status, request, age of updated_at
    row,      \* git_import_repos
    project,  \* who made the project of a slug
    forge,    \* who made the forge's repository of a slug
    ready,    \* slugs whose project is linked to its repository (git_core_state)
    proc,     \* "up", "stopping" (the base context is cancelled) or "down"
    live,     \* Service.live of each process
    client,   \* a request in progress
    worker,   \* a goroutine: run and runRepo
    shared,   \* history variable: imports that two goroutines ran at once
    asks, faults  \* what is left of them

db == <<imp, row>>
world == <<project, forge, ready>>
bounds == <<asks, faults>>
vars == <<imp, row, project, forge, ready, proc, live, client, worker, shared, asks, faults>>

NoImport == [status |-> "none", req |-> [slugs |-> {}, create |-> FALSE], age |-> 0]
NoRow == [status |-> "none", project |-> FALSE, created |-> FALSE, attempts |-> 0]
IdleClient == [pc |-> "idle"]
IdleWorker == [pc |-> "idle"]

Init ==
    /\ imp = [i \in Import |-> NoImport]
    /\ row = [i \in Import |-> [s \in Slug |-> NoRow]]
    /\ project = [s \in Slug |-> Nobody] /\ forge = [s \in Slug |-> Nobody] /\ ready = {}
    /\ proc = [p \in Proc |-> "up"] /\ live = [p \in Proc |-> {}]
    /\ client = [c \in Client |-> IdleClient] /\ worker = [w \in Worker |-> IdleWorker]
    /\ shared = {} /\ asks = MaxAsks /\ faults = MaxFaults

Fault == faults > 0 /\ faults' = faults - 1
Unfinished(i) == imp[i].status \in {"queued", "running"}

\* Clients and workers are interchangeable places for what is in progress: the one to take next, if any.
Free(places) == CHOOSE x \in DOMAIN places : places[x].pc = "idle" \/ \A y \in DOMAIN places : places[y].pc # "idle"

Running(w) == worker[w].pc # "idle"

-----------------------------------------------------------------------------
(* The store                                                               *)

Touched(i, status) == [imp EXCEPT ![i].status = status, ![i].age = 0]
SetStatus(i, status) == imp' = Touched(i, status) /\ UNCHANGED row
Touch(i) == imp' = [imp EXCEPT ![i].age = 0]
UpdateRepo(i, s, r) == row' = [row EXCEPT ![i][s] = r]

\* The rows of an import after its unsuccessful ones got a status.
Unsuccessful(i, status) ==
    [s \in Slug |-> IF row[i][s].status \in {"none", "success"} THEN row[i][s] ELSE [row[i][s] EXCEPT !.status = status]]

CreateImport(i, q) ==
    /\ imp' = [imp EXCEPT ![i] = [status |-> "queued", req |-> q, age |-> 0]]
    /\ row' = [row EXCEPT ![i] = [s \in Slug |-> IF s \in q.slugs THEN [NoRow EXCEPT !.status = "queued"] ELSE NoRow]]

Resume(i) ==
    /\ imp' = Touched(i, "queued")
    /\ row' = [row EXCEPT ![i] = Unsuccessful(i, "queued")]

\* Mutant: an import holds its names for ever.
BusySlugsMutant(slugs) ==
    {s \in slugs : \E i \in Import : Unfinished(i) /\ row[i][s].status \in {"queued", "running"}}

BusySlugs(slugs) ==
    {s \in slugs : \E i \in Import : Unfinished(i) /\ imp[i].age < 2 /\ row[i][s].status \in {"queued", "running"}}

\* Mutant: only rows that say failed count as failures.
OutcomeMutant(i) ==
    LET failed == {s \in imp[i].req.slugs : row[i][s].status = "failed"} IN
    IF failed = {} THEN "success" ELSE IF failed = imp[i].req.slugs THEN "failed" ELSE "partial"

\* What the rows of an import add up to; a row that was not ended counts as a failure.
Outcome(i) ==
    LET ok == {s \in imp[i].req.slugs : row[i][s].status = "success"} IN
    IF ok = imp[i].req.slugs THEN "success" ELSE IF ok = {} THEN "failed" ELSE "partial"

FailInterrupted ==
    LET old == {i \in Import : Unfinished(i) /\ imp[i].age > 0} IN
    /\ imp' = [i \in Import |->
                  IF i \notin old THEN imp[i]
                  ELSE [imp[i] EXCEPT !.age = 0,
                            !.status = IF \E s \in Slug : row[i][s].status = "success" THEN "partial" ELSE "failed"]]
    /\ row' = [i \in Import |-> IF i \in old THEN Unsuccessful(i, "failed") ELSE row[i]]

-----------------------------------------------------------------------------
(* Requests                                                                *)

\* resumeOrReplay goes on with an import that is not running, here or elsewhere, and not done.
Resumable(p, i, q) ==
    /\ imp[i].req = q /\ i \notin live[p]
    /\ imp[i].status # "success"
    /\ Unfinished(i) => imp[i].age > 0

\* Start: an import with the key is resumed, a new one is recorded unless its names are busy; other requests
\* are refused or answered with what is there, and change nothing.
Start(c, p, i, q) ==
    /\ client[c].pc = "idle" /\ c = Free(client) /\ proc[p] = "up" /\ asks > 0 /\ asks' = asks - 1
    /\ IF imp[i].status = "none" THEN BusySlugs(q.slugs) = {} ELSE Resumable(p, i, q)
    /\ client' = [client EXCEPT ![c] =
                     [pc |-> IF imp[i].status = "none" THEN "create" ELSE "resume", p |-> p, i |-> i, q |-> q]]
    /\ UNCHANGED <<db, world, proc, live, worker, shared, faults>>

ClientEnds(c) == client' = [client EXCEPT ![c] = IdleClient]
ClientTo(c, pc) == client' = [client EXCEPT ![c].pc = pc]

\* The import is inserted; a request that lost the race for the key goes on with the winner's.
StartCreate(c) ==
    LET k == client[c] IN
    /\ k.pc = "create"
    /\ \/ imp[k.i].status = "none" /\ CreateImport(k.i, k.q) /\ ClientTo(c, "launch")
       \/ imp[k.i].status # "none" /\ UNCHANGED db
          /\ IF Resumable(k.p, k.i, k.q) THEN ClientTo(c, "resume") ELSE ClientEnds(c)
    /\ UNCHANGED <<world, proc, live, worker, shared, bounds>>

\* What was decided on is not looked at again; the import may not be read back, and then nobody runs it.
StartResume(c) ==
    /\ client[c].pc = "resume"
    /\ Resume(client[c].i)
    /\ \/ ClientTo(c, "launch") /\ UNCHANGED faults
       \/ ClientEnds(c) /\ Fault
    /\ UNCHANGED <<world, proc, live, worker, shared, asks>>

\* A refused token, or a failed statement.
StartFails(c) ==
    /\ client[c].pc \in {"create", "resume"} /\ Fault /\ ClientEnds(c)
    /\ UNCHANGED <<db, world, proc, live, worker, shared, asks>>

Launch(c, w) ==
    LET k == client[c] IN
    /\ k.pc = "launch" /\ ~Running(w) /\ w = Free(worker)
    /\ live' = [live EXCEPT ![k.p] = @ \cup {k.i}]
    /\ worker' = [worker EXCEPT ![w] = [pc |-> "load", p |-> k.p, i |-> k.i, todo |-> {}, s |-> 1, row |-> NoRow, ours |-> FALSE]]
    /\ shared' = shared \cup {i \in {k.i} : \E v \in Worker : Running(v) /\ worker[v].i = i}
    /\ ClientEnds(c)
    /\ UNCHANGED <<db, world, proc, bounds>>

-----------------------------------------------------------------------------
(* The goroutine                                                           *)

To(w, pc) == worker' = [worker EXCEPT ![w].pc = pc]

\* The end of the goroutine: the import is not live any more, whoever else runs it.
Exit(w) ==
    /\ worker' = [worker EXCEPT ![w] = IdleWorker]
    /\ live' = [live EXCEPT ![worker[w].p] = @ \ {worker[w].i}]

\* A call under the base context, which fails once that is cancelled.
Works(w) == proc[worker[w].p] = "up" /\ UNCHANGED faults
Breaks(w) == IF proc[worker[w].p] = "up" THEN Fault ELSE UNCHANGED faults

\* A call under a context of its own.
Saves == UNCHANGED faults

Mine(w) == UNCHANGED <<proc, client, shared, asks>>

Load(w) ==
    LET i == worker[w].i IN
    /\ worker[w].pc = "load"
    /\ \/ Works(w) /\ UNCHANGED live
          /\ worker' = [worker EXCEPT ![w].pc = "running", ![w].todo = {s \in imp[i].req.slugs : row[i][s].status # "success"}]
       \/ Breaks(w) /\ Exit(w)
    /\ UNCHANGED <<db, world>> /\ Mine(w)

MarkRunning(w) ==
    /\ worker[w].pc = "running" /\ To(w, "next")
    /\ \/ Works(w) /\ SetStatus(worker[w].i, "running")
       \/ Breaks(w) /\ UNCHANGED db
    /\ UNCHANGED <<world, live>> /\ Mine(w)

\* The next repository of the list read at the start, in the order of names, or the end of it.
BeginRepo(w) ==
    LET i == worker[w].i  s == Min(worker[w].todo) IN
    /\ worker[w].pc = "next"
    /\ \/ (worker[w].todo = {} \/ proc[worker[w].p] = "stopping")
          /\ To(w, "final") /\ UNCHANGED <<row, faults>>
       \/ worker[w].todo # {} /\ Works(w)
          /\ UpdateRepo(i, s, [row[i][s] EXCEPT !.status = "running", !.attempts = @ + 1])
          /\ worker' = [worker EXCEPT ![w].pc = "github", ![w].todo = @ \ {s}, ![w].s = s, ![w].row = row'[i][s],
                                      ![w].ours = row[i][s].created]
       \/ worker[w].todo # {} /\ Breaks(w)
          /\ worker' = [worker EXCEPT ![w].todo = @ \ {s}] /\ UNCHANGED row
    /\ UNCHANGED <<imp, world, live>> /\ Mine(w)

\* What fail and a successful end leave in the row, and the Touch that follows; neither write is certain.
EndRepo(w, r) ==
    LET i == worker[w].i IN
    /\ Touch(i) /\ To(w, "next")
    /\ \/ Saves /\ UpdateRepo(i, worker[w].s, r)
       \/ Fault /\ UNCHANGED row

Fail(w) ==
    /\ worker[w].pc = "fail"
    /\ EndRepo(w, [row[worker[w].i][worker[w].s] EXCEPT !.status = "failed"])
    /\ UNCHANGED <<world, live>> /\ Mine(w)

\* The repository on GitHub, and the policy on its address.
GitHubRepo(w) ==
    /\ worker[w].pc = "github"
    /\ \/ Works(w) /\ To(w, IF worker[w].row.project THEN "repo" ELSE "project")
       \/ Breaks(w) /\ To(w, "fail")
    /\ UNCHANGED <<db, world, live>> /\ Mine(w)

GetBySlug(w) ==
    LET i == worker[w].i  there == project[worker[w].s] # Nobody IN
    /\ worker[w].pc = "project"
    /\ \/ Works(w) /\ To(w, IF there = imp[i].req.create THEN "fail" ELSE IF there THEN "link" ELSE "create")
       \/ Breaks(w) /\ To(w, "fail")
    /\ UNCHANGED <<db, world, live>> /\ Mine(w)

\* A project made since the look-up violates the unique index.
CreateProject(w) ==
    LET i == worker[w].i  s == worker[w].s IN
    /\ worker[w].pc = "create"
    /\ \/ Works(w) /\ project[s] = Nobody
          /\ project' = [project EXCEPT ![s] = i]
          /\ worker' = [worker EXCEPT ![w].pc = "link", ![w].row.created = TRUE]
       \/ Works(w) /\ project[s] # Nobody /\ To(w, "fail") /\ UNCHANGED project
       \/ Breaks(w) /\ To(w, "fail") /\ UNCHANGED project
    /\ UNCHANGED <<db, forge, ready, live>> /\ Mine(w)

\* The project goes into the row; that this may fail is ignored.
LinkProject(w) ==
    LET i == worker[w].i  s == worker[w].s IN
    /\ worker[w].pc = "link" /\ To(w, "repo")
    /\ \/ Works(w) /\ UpdateRepo(i, s, [row[i][s] EXCEPT !.status = "running", !.project = TRUE, !.created = worker[w].row.created])
       \/ Breaks(w) /\ UNCHANGED row
    /\ UNCHANGED <<imp, world, live>> /\ Mine(w)

\* Mutant: a repository that is there is always taken for ours.
GetRepoMutant(w) ==
    LET s == worker[w].s IN
    /\ worker[w].pc = "repo"
    /\ \/ Works(w) /\ To(w, IF forge[s] = Nobody THEN "migrate" ELSE "ready")
       \/ Breaks(w) /\ To(w, "fail")
    /\ UNCHANGED <<db, world, live>> /\ Mine(w)

\* EnsureOrg and GetRepo: a repository that is there is taken for ours only when an earlier attempt made the
\* project.
GetRepo(w) ==
    LET s == worker[w].s IN
    /\ worker[w].pc = "repo"
    /\ \/ Works(w) /\ To(w, IF forge[s] = Nobody THEN "migrate" ELSE IF worker[w].ours THEN "ready" ELSE "fail")
       \/ Breaks(w) /\ To(w, "fail")
    /\ UNCHANGED <<db, world, live>> /\ Mine(w)

\* The forge clones the repository, which takes as long as RepoTimeout; the import is touched meanwhile.  The
\* forge may have finished although the call failed.
Migrate(w) ==
    LET s == worker[w].s IN
    /\ worker[w].pc = "migrate" /\ Touch(worker[w].i)
    /\ \/ forge[s] = Nobody /\ Works(w) /\ forge' = [forge EXCEPT ![s] = worker[w].i] /\ To(w, "ready")
       \/ forge[s] = Nobody /\ Breaks(w) /\ To(w, "fail")
          /\ forge' \in {forge, [forge EXCEPT ![s] = worker[w].i]}
       \/ forge[s] # Nobody /\ UNCHANGED <<forge, faults>> /\ To(w, "fail")
    /\ UNCHANGED <<row, project, ready, live>> /\ Mine(w)

\* MarkReady; its failure, and those of inspect and AfterImport, are warnings.
MarkReady(w) ==
    /\ worker[w].pc = "ready" /\ To(w, "save")
    /\ \/ Works(w) /\ ready' = ready \cup {worker[w].s}
       \/ Breaks(w) /\ UNCHANGED ready
    /\ UNCHANGED <<db, project, forge, live>> /\ Mine(w)

Save(w) ==
    /\ worker[w].pc = "save"
    /\ EndRepo(w, [row[worker[w].i][worker[w].s] EXCEPT !.status = "success", !.project = TRUE,
                                                           !.created = worker[w].row.created])
    /\ UNCHANGED <<world, live>> /\ Mine(w)

\* The rows are read, and then the status they add up to is written.
Final(w) ==
    /\ worker[w].pc = "final"
    /\ \/ Saves /\ To(w, Outcome(worker[w].i)) /\ UNCHANGED live
       \/ Fault /\ Exit(w)
    /\ UNCHANGED <<db, world>> /\ Mine(w)

SetFinal(w) ==
    /\ worker[w].pc \in {"success", "partial", "failed"}
    /\ \/ Saves /\ SetStatus(worker[w].i, worker[w].pc)
       \/ Fault /\ UNCHANGED db
    /\ Exit(w) /\ UNCHANGED world /\ Mine(w)

\* recover in launch.
Panic(w) ==
    /\ Running(w) /\ Fault
    /\ SetStatus(worker[w].i, "failed") /\ Exit(w)
    /\ UNCHANGED world /\ Mine(w)

-----------------------------------------------------------------------------
(* Processes, time and other people                                        *)

\* The server stops: no new requests, and the base context is cancelled.
Stop(p) ==
    /\ proc[p] = "up" /\ Fault /\ proc' = [proc EXCEPT ![p] = "stopping"]
    /\ UNCHANGED <<db, world, live, client, worker, shared, asks>>

\* The process ends, after a stop or by a crash.
Down(p) ==
    /\ \/ proc[p] = "stopping" /\ UNCHANGED faults
       \/ proc[p] = "up" /\ Fault
    /\ proc' = [proc EXCEPT ![p] = "down"] /\ live' = [live EXCEPT ![p] = {}]
    /\ client' = [c \in Client |-> IF client[c].pc # "idle" /\ client[c].p = p THEN IdleClient ELSE client[c]]
    /\ worker' = [w \in Worker |-> IF Running(w) /\ worker[w].p = p THEN IdleWorker ELSE worker[w]]
    /\ UNCHANGED <<db, world, shared, asks>>

\* Recover runs before the process takes requests.
Recover(p) ==
    /\ proc[p] = "down" /\ proc' = [proc EXCEPT ![p] = "up"]
    /\ \/ FailInterrupted /\ UNCHANGED faults
       \/ Fault /\ UNCHANGED db
    /\ UNCHANGED <<world, live, client, worker, shared, asks>>

GetsOlder(i) == imp' = [imp EXCEPT ![i].age = @ + 1]

\* Nobody touches an import: no goroutine runs it and no request is about to.
TimePasses(i) ==
    /\ Unfinished(i) /\ imp[i].age < 2
    /\ \A w \in Worker : Running(w) => worker[w].i # i
    /\ \A c \in Client : client[c].pc # "idle" => client[c].i # i
    /\ GetsOlder(i)
    /\ UNCHANGED <<row, world, proc, live, client, worker, shared, bounds>>

\* A slow forge: EnsureOrg and GetRepo may take RepoTimeout each, and the import is not touched meanwhile.
ForgeSlow(w) ==
    /\ worker[w].pc = "repo" /\ Unfinished(worker[w].i) /\ imp[worker[w].i].age = 0
    /\ Fault /\ GetsOlder(worker[w].i)
    /\ UNCHANGED <<row, world, live, worker>> /\ Mine(w)

\* External: somebody makes a project or a repository of that name.
OthersCreate(s) ==
    /\ Cardinality({t \in Slug : project[t] = Others}) + Cardinality({t \in Slug : forge[t] = Others}) < MaxOthers
    /\ \/ project[s] = Nobody /\ project' = [project EXCEPT ![s] = Others] /\ UNCHANGED forge
       \/ forge[s] = Nobody /\ forge' = [forge EXCEPT ![s] = Others] /\ UNCHANGED project
    /\ UNCHANGED <<db, ready, proc, live, client, worker, shared, bounds>>

Step(w) ==
    \/ Load(w) \/ MarkRunning(w) \/ BeginRepo(w) \/ GitHubRepo(w) \/ GetBySlug(w) \/ CreateProject(w) \/ LinkProject(w)
    \/ GetRepo(w) \/ Migrate(w) \/ MarkReady(w) \/ Save(w) \/ Fail(w) \/ Final(w) \/ SetFinal(w)

Handle(c) == StartCreate(c) \/ StartResume(c) \/ \E w \in Worker : Launch(c, w)

Next ==
    \/ \E c \in Client : Handle(c) \/ StartFails(c)
    \/ \E c \in Client, p \in Proc, i \in Import, q \in Request : Start(c, p, i, q)
    \/ \E w \in Worker : Step(w) \/ Panic(w) \/ ForgeSlow(w)
    \/ \E p \in Proc : Stop(p) \/ Down(p) \/ Recover(p)
    \/ \E i \in Import : TimePasses(i)
    \/ \E s \in Slug : OthersCreate(s)

Spec == Init /\ [][Next]_vars

\* Goroutines and requests are scheduled, and time passes.
FairSpec ==
    /\ Spec
    /\ \A w \in Worker : WF_vars(Step(w))
    /\ \A c \in Client : WF_vars(Handle(c))
    /\ \A i \in Import : WF_vars(TimePasses(i))

-----------------------------------------------------------------------------
(* Properties                                                              *)

WorkerPc == {"load", "running", "next", "github", "project", "create", "link", "repo", "migrate", "ready", "save",
             "fail", "final", "success", "partial", "failed"}
RowType == [status : {"none", "queued", "running", "success", "failed"}, project : BOOLEAN, created : BOOLEAN,
            attempts : Nat]

TypeOK ==
    /\ imp \in [Import -> [status : {"none", "queued", "running", "partial", "success", "failed"},
                          req : Request \cup {NoImport.req}, age : Age]]
    /\ row \in [Import -> [Slug -> RowType]]
    /\ project \in [Slug -> Maker] /\ forge \in [Slug -> Maker] /\ ready \in SUBSET Slug
    /\ proc \in [Proc -> {"up", "stopping", "down"}] /\ live \in [Proc -> SUBSET Import]
    /\ client \in [Client -> {IdleClient} \cup [pc : {"create", "resume", "launch"}, p : Proc, i : Import, q : Request]]
    /\ worker \in [Worker -> {IdleWorker} \cup [pc : WorkerPc, p : Proc, i : Import, todo : SUBSET Slug, s : Slug,
                                               row : RowType, ours : BOOLEAN]]
    /\ shared \in SUBSET Import /\ asks \in 0..MaxAsks /\ faults \in 0..MaxFaults

\* A repository that somebody else made is never reported as imported by a first attempt, nor ever into a
\* project the import did not make, whatever crashed or was lost between the calls.
RowsAreTrue ==
    \A i \in Import, s \in Slug :
        row[i][s].status = "success" =>
            \/ forge[s] = i
            \/ forge[s] # Nobody /\ project[s] = i /\ row[i][s].attempts > 1

\* The status of an import agrees with its repositories, across attempts and interruptions, as long as no two
\* goroutines ran it at once.
StatusIsTrue ==
    \A i \in Import :
        /\ imp[i].status = "success" => i \in shared \/ \A s \in imp[i].req.slugs : row[i][s].status = "success"
        /\ imp[i].status = "partial" => i \in shared \/ \E s \in imp[i].req.slugs : row[i][s].status = "success"

\* What an import reports is so: its rows agree with the forge and the projects, and its status with its rows.
ReportsAreTrue == RowsAreTrue /\ StatusIsTrue

\* No name is refused as busy for ever, also when the import that holds it was interrupted and nobody
\* resumes it.
NamesComeFree == \A s \in Slug : []<>(BusySlugs({s}) = {})

\* The repository that is there "is ours only if an EARLIER attempt of this import created the project ...
\* Otherwise it is somebody else's: never adopt it" (service.go).
NeverAdopts == \A i \in Import, s \in Slug : row[i][s].status = "success" => forge[s] = i

\* "partial, failed or abandoned: run again ONLY what is not done" (service.go).
DoneStaysDone == [][\A i \in Import, s \in Slug : row[i][s].status = "success" => row'[i][s].status = "success"]_vars

\* "Recover marks imports that were running when the process stopped as interrupted" (service.go).
InterruptedAreMarked ==
    [][\A p \in Proc, i \in Import :
          /\ proc[p] = "down" /\ proc'[p] = "up" /\ faults' = faults
          /\ Unfinished(i) /\ \A w \in Worker : Running(w) => worker[w].i # i
          => ~Unfinished(i)']_vars
=============================================================================

--------------------------- MODULE ImportsProofs ---------------------------
(***************************************************************************)
(* What an import reports is so, for any number of imports, repositories,  *)
(* processes, requests, goroutines and faults.                             *)
(***************************************************************************)
EXTENDS Imports, TLAPS, WellFoundedInduction

ReqType == Request \cup {NoImport.req}
ImpType == [status : {"none", "queued", "running", "partial", "success", "failed"}, req : ReqType, age : Int]
RepoType == [status : {"none", "queued", "running", "success", "failed"}, project : BOOLEAN, created : BOOLEAN,
             attempts : Nat]
ClientType == [pc : {"create", "resume", "launch"}, p : Proc, i : Import, q : Request]
WorkType == [pc : WorkerPc, p : Proc, i : Import, todo : SUBSET Slug, s : Slug, row : RepoType, ours : BOOLEAN]

-----------------------------------------------------------------------------
(* The inductive invariant.                                                *)

Known(i) == imp[i].status # "none"
Done(i, s) == row[i][s].status = "success"

\* What was not asked for yet has no rows.
ImpOK ==
    /\ imp \in [Import -> ImpType]
    /\ \A i \in Import : ~Known(i) => \A s \in Slug : row[i][s] = NoRow

\* A row that says its project was created is right, and was attempted.
RowOK ==
    /\ row \in [Import -> [Slug -> RepoType]]
    /\ \A i \in Import, s \in Slug : row[i][s].created => project[s] = i /\ row[i][s].attempts >= 1
    /\ \A i \in Import, s \in Slug : row[i][s].status # "none" => s \in imp[i].req.slugs

WorldOK == project \in [Slug -> Maker] /\ forge \in [Slug -> Maker] /\ shared \subseteq Import

ClientOK ==
    /\ client \in [Client -> {IdleClient} \cup ClientType]
    /\ \A c \in Client : client[c].pc \in {"resume", "launch"} => Known(client[c].i)

InHand == {"github", "project", "create", "link", "repo", "migrate", "ready", "save", "fail"}

\* What a goroutine has in memory of import i and repository s is right.
Remembers(w, i, s) ==
    /\ row[i][s].attempts >= 1 /\ s \in imp[i].req.slugs /\ s \notin worker[w].todo
    /\ worker[w].row.created => project[s] = i
    /\ worker[w].ours => project[s] = i /\ row[i][s].attempts > 1
    /\ worker[w].pc \in {"ready", "save"} => forge[s] = i \/ (forge[s] # Nobody /\ worker[w].ours)

\* What a goroutine that runs import i alone has left to do is not done, and the status it is about to
\* write is what the rows add up to.
Tracks(w, i) ==
    /\ \A s \in worker[w].todo : ~Done(i, s)
    /\ worker[w].pc \in InHand => ~Done(i, worker[w].s)
    /\ worker[w].pc = "success" => \A s \in imp[i].req.slugs : Done(i, s)
    /\ worker[w].pc = "partial" => \E s \in imp[i].req.slugs : Done(i, s)

WorkGood(w, i) ==
    /\ Known(i) /\ worker[w].todo \subseteq imp[i].req.slugs
    /\ worker[w].pc \in InHand => Remembers(w, i, worker[w].s)
    /\ i \notin shared => Tracks(w, i)

WorkOK ==
    /\ worker \in [Worker -> {IdleWorker} \cup WorkType]
    /\ \A w \in Worker, i \in Import : Running(w) /\ worker[w].i = i => WorkGood(w, i)
    /\ \A v, w \in Worker : Running(v) /\ Running(w) /\ v # w /\ worker[v].i = worker[w].i => worker[w].i \in shared

Inv == ImpOK /\ RowOK /\ WorldOK /\ ClientOK /\ WorkOK /\ RowsAreTrue /\ StatusIsTrue
-----------------------------------------------------------------------------
(* What no step undoes.                                                    *)

\* Imports stay recorded with their request, attempts are counted up, and what somebody made is his.
Keeps ==
    /\ \A i \in Import : Known(i) => imp'[i].status # "none" /\ imp'[i].req = imp[i].req
    /\ \A i \in Import, s \in Slug : Known(i) => row'[i][s].attempts >= row[i][s].attempts
    /\ \A s \in Slug : project[s] # Nobody => project'[s] = project[s]
    /\ \A s \in Slug : forge[s] # Nobody => forge'[s] = forge[s]
    /\ shared \subseteq shared'

SameDone(i) == \A s \in Slug : row'[i][s].status = "success" <=> row[i][s].status = "success"

\* Row s of import i may say success.
Truth(i, s) == forge[s] = i \/ (forge[s] # Nobody /\ project[s] = i /\ row[i][s].attempts > 1)

\* Import i may say what it says.
Agrees(i) ==
    /\ imp[i].status = "success" => \A s \in imp[i].req.slugs : Done(i, s)
    /\ imp[i].status = "partial" => \E s \in imp[i].req.slugs : Done(i, s)

LEMMA Names == \A i \in Import : i # Nobody
BY ImportsAssumption DEF Nobody

LEMMA SlugsAreSlugs == ASSUME ImpOK, NEW i \in Import PROVE imp[i].req.slugs \subseteq Slug
<1>1. imp[i].req \in ReqType
  BY DEF ImpOK, ImpType
<1> QED
  BY <1>1, ImportsAssumption DEF ReqType, NoImport

LEMMA AttemptsGrow ==
    ASSUME RowOK, row' \in [Import -> [Slug -> RepoType]], Keeps, NEW i \in Import, NEW s \in Slug, Known(i)
    PROVE  /\ row[i][s].attempts >= 1 => row'[i][s].attempts >= 1
           /\ row[i][s].attempts > 1 => row'[i][s].attempts > 1
<1>1. row'[i][s].attempts >= row[i][s].attempts
  BY DEF Keeps
<1>2. row[i][s].attempts \in Nat /\ row'[i][s].attempts \in Nat
  BY DEF RowOK, RepoType
<1> QED
  BY <1>1, <1>2

LEMMA RememberedKept ==
    ASSUME RowOK, row' \in [Import -> [Slug -> RepoType]], Keeps, NEW w \in Worker, NEW i \in Import, NEW s \in Slug,
           Known(i), worker'[w] = worker[w], Remembers(w, i, s)
    PROVE  Remembers(w, i, s)'
<1>1. /\ row[i][s].attempts >= 1 => row'[i][s].attempts >= 1
      /\ row[i][s].attempts > 1 => row'[i][s].attempts > 1
  BY AttemptsGrow
<1>2. project[s] = i => project'[s] = i
  BY Names DEF Keeps
<1>3. (forge[s] = i => forge'[s] = i) /\ (forge[s] # Nobody => forge'[s] # Nobody)
  BY Names DEF Keeps
<1>4. imp'[i].req = imp[i].req
  BY DEF Keeps
<1> QED
  BY <1>1, <1>2, <1>3, <1>4 DEF Remembers

\* A goroutine that does nothing stays right.
LEMMA WorkGoodKept ==
    ASSUME Inv, row' \in [Import -> [Slug -> RepoType]], Keeps, NEW w \in Worker, NEW i \in Import, Running(w),
           worker[w].i = i, worker'[w] = worker[w], i \notin shared' => SameDone(i)
    PROVE  WorkGood(w, i)'
<1>1. WorkGood(w, i) /\ worker[w] \in WorkType /\ RowOK
  BY DEF Inv, WorkOK, Running, IdleWorker
<1>2. PICK s \in Slug : s = worker[w].s
  BY <1>1 DEF WorkType
<1>3. Known(i) /\ Known(i)' /\ imp'[i].req = imp[i].req
  BY <1>1 DEF WorkGood, Keeps, Known
<1>4. worker'[w].pc \in InHand => Remembers(w, i, s)'
  BY <1>1, <1>2, <1>3, RememberedKept DEF WorkGood
<1>5. i \notin shared' => Tracks(w, i)'
  <2> SUFFICES ASSUME i \notin shared' PROVE Tracks(w, i)'
    OBVIOUS
  <2>1. Tracks(w, i) /\ SameDone(i) /\ worker[w].todo \subseteq Slug /\ imp[i].req.slugs \subseteq Slug
    BY <1>1, SlugsAreSlugs DEF WorkGood, Keeps, Inv, WorkType
  <2> QED
    BY <1>2, <1>3, <2>1 DEF Tracks, SameDone, Done
<1>6. worker'[w].pc \in InHand => Remembers(w, i, worker[w].s)'
  BY <1>2, <1>4 DEF Remembers
<1> QED
  BY <1>1, <1>3, <1>5, <1>6 DEF WorkGood

LEMMA RowsTrueKept ==
    ASSUME Inv, row' \in [Import -> [Slug -> RepoType]], Keeps,
           \A i \in Import, s \in Slug : row'[i][s].status = "success" => row[i][s].status = "success" \/ Truth(i, s)'
    PROVE  RowsAreTrue'
<1> SUFFICES ASSUME NEW i \in Import, NEW s \in Slug, row'[i][s].status = "success" PROVE Truth(i, s)'
  BY DEF RowsAreTrue, Truth
<1>1. CASE row[i][s].status = "success"
  <2>1. Truth(i, s) /\ RowOK
    BY <1>1 DEF Inv, RowsAreTrue, Truth
  <2>2. Known(i)
    BY <1>1 DEF Inv, ImpOK, NoRow
  <2>3. row[i][s].attempts > 1 => row'[i][s].attempts > 1
    BY <2>1, <2>2, AttemptsGrow
  <2> QED
    BY <2>1, <2>3, Names DEF Truth, Keeps
<1> QED
  BY <1>1

LEMMA StatusTrueKept ==
    ASSUME Inv, Keeps,
           \A i \in Import : i \notin shared' => \A s \in Slug : row[i][s].status = "success" => row'[i][s].status = "success",
           \A i \in Import : imp'[i].status = imp[i].status \/ imp'[i].status \notin {"success", "partial"}
                               \/ i \in shared' \/ Agrees(i)'
    PROVE  StatusIsTrue'
<1> SUFFICES ASSUME NEW i \in Import, i \notin shared' PROVE Agrees(i)'
  BY DEF StatusIsTrue, Agrees, Done
<1>1. CASE imp'[i].status = imp[i].status /\ imp[i].status \in {"success", "partial"}
  <2>1. Agrees(i)
    BY DEF Inv, StatusIsTrue, Agrees, Done, Keeps
  <2>2. imp'[i].req = imp[i].req /\ imp[i].req.slugs \subseteq Slug
    BY <1>1, SlugsAreSlugs DEF Keeps, Known, Inv
  <2> QED
    BY <1>1, <2>1, <2>2 DEF Agrees, Done
<1> QED
  BY <1>1 DEF Agrees
-----------------------------------------------------------------------------
(* A step of one goroutine.                                                *)

Moves(w, v) == worker' = [worker EXCEPT ![w] = v]

\* What a step of a goroutine on import i may do to its row: what it says stays or becomes true.
RowsStay(i) ==
    /\ \A s \in Slug : row'[i][s].created => project'[s] = i /\ row'[i][s].attempts >= 1
    /\ \A s \in Slug : row'[i][s].status # "none" => s \in imp[i].req.slugs
    /\ \A s \in Slug : row'[i][s].status = "success" => row[i][s].status = "success" \/ Truth(i, s)'
    /\ i \notin shared => \A s \in Slug : row[i][s].status = "success" => row'[i][s].status = "success"

LEMMA OthersWork ==
    ASSUME Inv, NEW w \in Worker, NEW i \in Import, Running(w), worker[w].i = i,
           NEW v \in {IdleWorker} \cup WorkType, Moves(w, v),
           v = IdleWorker \/ (v.i = i /\ (worker'[w] = v => WorkGood(w, i)')),
           row' \in [Import -> [Slug -> RepoType]], Keeps, UNCHANGED shared,
           \A j \in Import \ {i} : row'[j] = row[j]
    PROVE  WorkOK'
<1>1. /\ worker' \in [Worker -> {IdleWorker} \cup WorkType] /\ worker'[w] = v
      /\ \A u \in Worker \ {w} : worker'[u] = worker[u]
  BY DEF Inv, WorkOK, Moves
<1>2. \A u \in Worker \ {w} : Running(u)' <=> Running(u)
  BY <1>1 DEF Running
<1>3. Running(w)' => v # IdleWorker
  BY <1>1 DEF Running, IdleWorker
<1>4. ASSUME NEW u \in Worker, NEW j \in Import, Running(u)', worker'[u].i = j PROVE WorkGood(u, j)'
  <2>1. CASE u = w
    BY <1>1, <1>3, <1>4, <2>1
  <2>2. CASE u # w
    <3>1. worker'[u] = worker[u] /\ Running(u) /\ worker[u].i = j
      BY <1>1, <1>2, <1>4, <2>2
    <3>2. j \notin shared' => SameDone(j)
      <4>1. j = i => i \in shared
        BY <2>2, <3>1 DEF Inv, WorkOK
      <4> QED
        BY <4>1 DEF SameDone
    <3> QED
      BY <3>1, <3>2, WorkGoodKept
  <2> QED
    BY <2>1, <2>2
<1>5. ASSUME NEW u \in Worker, NEW x \in Worker, Running(u)', Running(x)', u # x, worker'[u].i = worker'[x].i
      PROVE  worker'[x].i \in shared'
  <2>1. Running(u) /\ worker[u].i = worker'[u].i
    BY <1>1, <1>2, <1>3, <1>5
  <2>2. Running(x) /\ worker[x].i = worker'[x].i
    BY <1>1, <1>2, <1>3, <1>5
  <2> QED
    BY <1>5, <2>1, <2>2 DEF Inv, WorkOK
<1> QED
  BY <1>1, <1>4, <1>5 DEF WorkOK

LEMMA WorkerStep ==
    ASSUME Inv, NEW w \in Worker, NEW i \in Import, Running(w), worker[w].i = i,
           NEW v \in {IdleWorker} \cup WorkType, Moves(w, v),
           v = IdleWorker \/ (v.i = i /\ (worker'[w] = v => WorkGood(w, i)')),
           row' \in [Import -> [Slug -> RepoType]], imp' \in [Import -> ImpType], Keeps, UNCHANGED <<shared, client>>,
           \A j \in Import \ {i} : row'[j] = row[j] /\ imp'[j] = imp[j],
           project' \in [Slug -> Maker], forge' \in [Slug -> Maker], RowsStay(i),
           imp'[i].status = imp[i].status \/ imp'[i].status \notin {"success", "partial"}
             \/ (i \notin shared => Agrees(i)')
    PROVE  Inv'
<1>1. WorkOK'
  BY OthersWork
<1>2. Known(i) /\ imp'[i].status # "none" /\ imp'[i].req = imp[i].req
  BY DEF Inv, WorkOK, WorkGood, Keeps
<1>3. ImpOK'
  BY <1>2 DEF Inv, ImpOK, Known
<1>4. RowOK'
  <2>1. \A j \in Import, s \in Slug : row'[j][s].created => project'[s] = j /\ row'[j][s].attempts >= 1
    <3> SUFFICES ASSUME NEW j \in Import, NEW s \in Slug, row'[j][s].created
                 PROVE  project'[s] = j /\ row'[j][s].attempts >= 1
      OBVIOUS
    <3>1. CASE j = i
      BY <3>1 DEF RowsStay
    <3>2. CASE j # i
      BY <3>2, Names DEF Inv, RowOK, Keeps
    <3> QED
      BY <3>1, <3>2
  <2>2. \A j \in Import, s \in Slug : row'[j][s].status # "none" => s \in imp'[j].req.slugs
    BY <1>2 DEF Inv, RowOK, RowsStay
  <2> QED
    BY <2>1, <2>2 DEF RowOK
<1>5. WorldOK'
  BY DEF Inv, WorldOK
<1>6. ClientOK'
  <2>1. \A c \in Client : client[c].pc \in {"resume", "launch"} => client[c] \in ClientType
    BY DEF Inv, ClientOK, IdleClient
  <2>2. \A c \in Client : client[c].pc \in {"resume", "launch"} => client[c].i \in Import
    BY <2>1 DEF ClientType
  <2>3. \A j \in Import : Known(j) => Known(j)'
    BY DEF Keeps, Known
  <2> QED
    BY <2>2, <2>3 DEF Inv, ClientOK, Known
<1>7. RowsAreTrue'
  <2>1. \A j \in Import, s \in Slug : row'[j][s].status = "success" => row[j][s].status = "success" \/ Truth(j, s)'
    BY DEF RowsStay
  <2> QED
    BY <2>1, RowsTrueKept
<1>8. StatusIsTrue'
  <2>1. \A j \in Import : j \notin shared' =>
           \A s \in Slug : row[j][s].status = "success" => row'[j][s].status = "success"
    BY DEF RowsStay
  <2>2. \A j \in Import : imp'[j].status = imp[j].status \/ imp'[j].status \notin {"success", "partial"}
                            \/ j \in shared' \/ Agrees(j)'
    OBVIOUS
  <2> QED
    BY <2>1, <2>2, StatusTrueKept
<1> QED
  BY <1>1, <1>3, <1>4, <1>5, <1>6, <1>7, <1>8 DEF Inv

\* What a goroutine that runs may rely on.
LEMMA AtWork ==
    ASSUME Inv, NEW w \in Worker, Running(w)
    PROVE  /\ worker[w] \in WorkType /\ worker[w].i \in Import /\ worker[w].s \in Slug
           /\ WorkGood(w, worker[w].i) /\ Known(worker[w].i) /\ worker[w].todo \subseteq Slug
<1>1. worker[w] \in WorkType
  BY DEF Inv, WorkOK, Running, IdleWorker
<1>2. worker[w].i \in Import /\ worker[w].s \in Slug /\ worker[w].todo \subseteq Slug
  BY <1>1 DEF WorkType
<1>3. WorkGood(w, worker[w].i)
  BY <1>2 DEF Inv, WorkOK
<1> QED
  BY <1>1, <1>2, <1>3 DEF WorkGood

\* The rows, imports and makers are as they were.
LEMMA RowsQuiet ==
    ASSUME Inv, UNCHANGED row, NEW i \in Import, \A s \in Slug : project[s] # Nobody => project'[s] = project[s]
    PROVE  RowsStay(i) /\ row' \in [Import -> [Slug -> RepoType]]
<1>1. RowOK
  BY DEF Inv
<1>2. \A s \in Slug : row[i][s].created => project'[s] = i
  BY <1>1, Names DEF RowOK
<1> QED
  BY <1>1, <1>2 DEF RowOK, RowsStay

LEMMA NatRefl == \A x \in Nat : x >= x
OBVIOUS

LEMMA RowsRefl == ASSUME Inv PROVE \A i \in Import, s \in Slug : row[i][s].attempts >= row[i][s].attempts
<1>1. \A i \in Import, s \in Slug : row[i][s].attempts \in Nat
  BY DEF Inv, RowOK, RepoType
<1> QED
  BY <1>1, NatRefl

\* The status of import i and its time are written.
Writes(i, status) == imp' = Touched(i, status)

LEMMA TouchedRecord ==
    ASSUME NEW x \in ImpType, NEW st
    PROVE  [x EXCEPT !.status = st, !.age = 0] = [status |-> st, req |-> x.req, age |-> 0]
<1>1. x = [status |-> x.status, req |-> x.req, age |-> x.age]
  BY DEF ImpType
<1>2. [x EXCEPT !.status = st] = [status |-> st, req |-> x.req, age |-> x.age]
  BY DEF ImpType
<1>3. \A y, z : [[status |-> st, req |-> y, age |-> z] EXCEPT !.age = 0] = [status |-> st, req |-> y, age |-> 0]
  OBVIOUS
<1> QED
  BY <1>2, <1>3

LEMMA WriteMeans ==
    ASSUME Inv, NEW i \in Import, Known(i), NEW status \in {"queued", "running", "partial", "success", "failed"},
           Writes(i, status)
    PROVE  /\ imp' \in [Import -> ImpType] /\ \A j \in Import \ {i} : imp'[j] = imp[j]
           /\ imp'[i].status = status /\ imp'[i].req = imp[i].req
           /\ \A j \in Import : Known(j) => imp'[j].status # "none" /\ imp'[j].req = imp[j].req
<1>1. imp \in [Import -> ImpType] /\ imp[i] \in ImpType
  BY DEF Inv, ImpOK
<1> DEFINE v == [status |-> status, req |-> imp[i].req, age |-> 0]
<1>2. imp' = [imp EXCEPT ![i] = v]
  <2>1. [imp[i] EXCEPT !.status = status, !.age = 0] = v
    BY <1>1, TouchedRecord
  <2> QED
    BY <1>1, <2>1 DEF Writes, Touched
<1>3. v \in ImpType /\ v.status = status /\ v.req = imp[i].req
  <2>1. status \in {"none", "queued", "running", "partial", "success", "failed"} /\ status # "none"
    OBVIOUS
  <2>2. v \in ImpType
    BY <1>1, <2>1 DEF ImpType
  <2>3. v.status = status /\ v.req = imp[i].req
    BY <1>1 DEF ImpType
  <2> QED
    BY <2>2, <2>3
<1> HIDE DEF v
<1>4. imp' \in [Import -> ImpType] /\ imp'[i] = v /\ \A j \in Import \ {i} : imp'[j] = imp[j]
  BY <1>1, <1>2, <1>3
<1>5. \A j \in Import : Known(j) => imp'[j].status # "none" /\ imp'[j].req = imp[j].req
  BY <1>3, <1>4 DEF Known
<1> QED
  BY <1>3, <1>4, <1>5

LEMMA TouchMeans ==
    ASSUME Inv, NEW i \in Import, Touch(i)
    PROVE  /\ imp' \in [Import -> ImpType] /\ \A j \in Import \ {i} : imp'[j] = imp[j]
           /\ imp'[i].status = imp[i].status /\ imp'[i].req = imp[i].req
<1>1. imp \in [Import -> ImpType] /\ imp[i] \in ImpType
  BY DEF Inv, ImpOK
<1> DEFINE v == [imp[i] EXCEPT !.age = 0]
<1>2. imp' = [imp EXCEPT ![i] = v]
  BY <1>1 DEF Touch
<1>3. v \in ImpType /\ v.status = imp[i].status /\ v.req = imp[i].req
  BY <1>1 DEF ImpType
<1> HIDE DEF v
<1>4. imp' \in [Import -> ImpType] /\ imp'[i] = v /\ \A j \in Import \ {i} : imp'[j] = imp[j]
  BY <1>1, <1>2, <1>3
<1> QED
  BY <1>3, <1>4

\* A goroutine goes to another place with what it has.
LEMMA ToMeans ==
    ASSUME Inv, NEW w \in Worker, Running(w), NEW pc \in WorkerPc, To(w, pc)
    PROVE  \E v \in WorkType : /\ Moves(w, v) /\ v.pc = pc /\ v.i = worker[w].i /\ v.s = worker[w].s
                               /\ v.todo = worker[w].todo /\ v.row = worker[w].row /\ v.ours = worker[w].ours
<1> DEFINE v == [worker[w] EXCEPT !.pc = pc]
<1>1. worker[w] \in WorkType /\ worker \in [Worker -> {IdleWorker} \cup WorkType]
  BY AtWork DEF Inv, WorkOK
<1>2. Moves(w, v)
  BY <1>1 DEF To, Moves
<1>3. /\ v \in WorkType /\ v.pc = pc /\ v.i = worker[w].i /\ v.s = worker[w].s
      /\ v.todo = worker[w].todo /\ v.row = worker[w].row /\ v.ours = worker[w].ours
  BY <1>1 DEF WorkType
<1> QED
  BY <1>2, <1>3

LEMMA ExitMeans == ASSUME NEW w \in Worker, Exit(w) PROVE Moves(w, IdleWorker)
BY DEF Exit, Moves
-----------------------------------------------------------------------------
(* The steps of a goroutine that leave the rows alone.                     *)

\* Import i may have been touched, and its status become one that claims nothing.
ImpQuiet(i) ==
    /\ imp' \in [Import -> ImpType] /\ \A j \in Import \ {i} : imp'[j] = imp[j]
    /\ imp'[i].status = imp[i].status \/ imp'[i].status \in {"running", "failed"}
    /\ imp'[i].req = imp[i].req

\* Projects and repositories are made, and never somebody else's.
WorldGrows ==
    /\ project' \in [Slug -> Maker] /\ forge' \in [Slug -> Maker]
    /\ \A s \in Slug : project[s] # Nobody => project'[s] = project[s]
    /\ \A s \in Slug : forge[s] # Nobody => forge'[s] = forge[s]

LEMMA ImpSame == ASSUME Inv, UNCHANGED imp, NEW i \in Import PROVE ImpQuiet(i)
BY DEF Inv, ImpOK, ImpQuiet

LEMMA WorldSame == ASSUME Inv, UNCHANGED <<project, forge>> PROVE WorldGrows
BY DEF Inv, WorldOK, WorldGrows

LEMMA QuietKeeps ==
    ASSUME Inv, NEW i \in Import, Known(i), ImpQuiet(i), WorldGrows, UNCHANGED <<row, shared>>
    PROVE  Keeps
<1>1. \A j \in Import : Known(j) => imp'[j].status # "none" /\ imp'[j].req = imp[j].req
  BY DEF ImpQuiet, Known
<1>2. \A j \in Import, s \in Slug : row'[j][s].attempts >= row[j][s].attempts
  BY RowsRefl
<1> QED
  BY <1>1, <1>2 DEF Keeps, WorldGrows

LEMMA PlaceStep ==
    ASSUME Inv, NEW w \in Worker, NEW i \in Import, Running(w), worker[w].i = i, NEW pc \in WorkerPc, To(w, pc),
           ImpQuiet(i), WorldGrows, UNCHANGED <<row, shared, client>>,
           pc \in InHand => worker[w].pc \in InHand,
           pc \in {"ready", "save"} => forge'[worker[w].s] = i \/ (forge'[worker[w].s] # Nobody /\ worker[w].ours),
           pc = "success" => \A s \in imp[i].req.slugs : Done(i, s),
           pc = "partial" => \E s \in imp[i].req.slugs : Done(i, s)
    PROVE  Inv'
<1>1. /\ worker[w] \in WorkType /\ worker[w].s \in Slug /\ WorkGood(w, i) /\ Known(i) /\ worker[w].todo \subseteq Slug
  BY AtWork
<1>2. PICK v \in WorkType : /\ Moves(w, v) /\ v.pc = pc /\ v.i = i /\ v.s = worker[w].s
                            /\ v.todo = worker[w].todo /\ v.row = worker[w].row /\ v.ours = worker[w].ours
  BY ToMeans
<1>3. Keeps
  BY <1>1, QuietKeeps
<1>4. RowsStay(i) /\ row' \in [Import -> [Slug -> RepoType]]
  BY RowsQuiet DEF WorldGrows
<1>5. ASSUME worker'[w] = v PROVE WorkGood(w, i)'
  <2>1. Known(i)' /\ imp'[i].req = imp[i].req
    BY <1>1 DEF ImpQuiet, Known
  <2>2. PICK s \in Slug : s = worker[w].s
    BY <1>1
  <2>3. v.pc \in InHand => Remembers(w, i, s)'
    <3> SUFFICES ASSUME v.pc \in InHand PROVE Remembers(w, i, s)'
      OBVIOUS
    <3>1. Remembers(w, i, s)
      BY <1>1, <1>2, <2>2 DEF WorkGood
    <3>2. project[s] = i => project'[s] = i
      BY Names DEF WorldGrows
    <3> QED
      BY <1>2, <1>5, <2>1, <2>2, <3>1, <3>2 DEF Remembers
  <2>4. i \notin shared' => Tracks(w, i)'
    <3> SUFFICES ASSUME i \notin shared PROVE Tracks(w, i)'
      OBVIOUS
    <3>1. Tracks(w, i)
      BY <1>1 DEF WorkGood
    <3> QED
      BY <1>2, <1>5, <2>1, <3>1 DEF Tracks, Done
  <2>5. worker'[w].pc \in InHand => Remembers(w, i, worker[w].s)'
    BY <1>2, <1>5, <2>2, <2>3 DEF Remembers
  <2> QED
    BY <1>1, <1>2, <1>5, <2>1, <2>4, <2>5 DEF WorkGood
<1>6. imp'[i].status = imp[i].status \/ imp'[i].status \notin {"success", "partial"}
  BY DEF ImpQuiet
<1> QED
  BY <1>2, <1>3, <1>4, <1>5, <1>6, WorkerStep DEF ImpQuiet, WorldGrows

\* A goroutine ends.
LEMMA ExitStep ==
    ASSUME Inv, NEW w \in Worker, NEW i \in Import, Running(w), worker[w].i = i, Exit(w),
           imp' \in [Import -> ImpType], \A j \in Import \ {i} : imp'[j] = imp[j],
           imp'[i].status # "none", imp'[i].req = imp[i].req, UNCHANGED <<row, project, forge, shared, client>>,
           imp'[i].status = imp[i].status \/ imp'[i].status = "failed" \/ (i \notin shared => Agrees(i)')
    PROVE  Inv'
<1>1. \A j \in Import : Known(j) => imp'[j].status # "none" /\ imp'[j].req = imp[j].req
  BY DEF Known
<1>2. Keeps
  BY <1>1, RowsRefl DEF Keeps
<1>3. RowsStay(i) /\ row' \in [Import -> [Slug -> RepoType]]
  BY RowsQuiet
<1>4. Moves(w, IdleWorker) /\ project' \in [Slug -> Maker] /\ forge' \in [Slug -> Maker]
  BY ExitMeans DEF Inv, WorldOK
<1>5. imp'[i].status = imp[i].status \/ imp'[i].status \notin {"success", "partial"} \/ (i \notin shared => Agrees(i)')
  OBVIOUS
<1> QED
  BY <1>2, <1>3, <1>4, <1>5, WorkerStep

LEMMA ExitQuiet ==
    ASSUME Inv, NEW w \in Worker, Running(w), Exit(w), UNCHANGED <<imp, row, project, forge, shared, client>>
    PROVE  Inv'
<1>1. PICK i \in Import : i = worker[w].i /\ Known(i)
  BY AtWork
<1>2. ImpQuiet(i) /\ imp'[i].status = imp[i].status /\ imp'[i].status # "none"
  BY <1>1, ImpSame DEF Known
<1> QED
  BY <1>1, <1>2, ExitStep DEF ImpQuiet

LEMMA LoadInv == ASSUME Inv, NEW w \in Worker, Load(w) PROVE Inv'
<1>1. /\ worker[w].pc = "load" /\ Running(w) /\ UNCHANGED <<imp, row, project, forge, shared, client>>
  BY DEF Load, Running, Mine, db, world
<1>2. PICK i \in Import : i = worker[w].i /\ Known(i) /\ WorkGood(w, i)
  BY <1>1, AtWork
<1>3. worker[w] \in WorkType /\ imp[i].req.slugs \subseteq Slug
  BY <1>1, AtWork, SlugsAreSlugs DEF Inv
<1> DEFINE todo == {s \in imp[i].req.slugs : row[i][s].status # "success"}
           v == [worker[w] EXCEPT !.pc = "running", !.todo = todo]
<1>4. CASE worker' = [worker EXCEPT ![w].pc = "running", ![w].todo = todo]
  <2>1. Moves(w, v)
    BY <1>4 DEF Moves, Inv, WorkOK
  <2>2. v \in WorkType /\ v.pc = "running" /\ v.i = i /\ v.todo = todo
    <3>1. todo \in SUBSET Slug
      BY <1>3
    <3> HIDE DEF todo
    <3> QED
      BY <1>2, <1>3, <3>1 DEF WorkType, WorkerPc
  <2> HIDE DEF v
  <2>3. ASSUME worker'[w] = v PROVE WorkGood(w, i)'
    BY <1>1, <1>2, <2>2, <2>3 DEF WorkGood, InHand, Tracks, Known, Done
  <2>4. Keeps /\ RowsStay(i) /\ row' \in [Import -> [Slug -> RepoType]]
    BY <1>1, <1>2, ImpSame, WorldSame, QuietKeeps, RowsQuiet
  <2>5. imp' \in [Import -> ImpType] /\ project' \in [Slug -> Maker] /\ forge' \in [Slug -> Maker]
    BY <1>1 DEF Inv, ImpOK, WorldOK
  <2> QED
    BY <1>1, <1>2, <2>1, <2>2, <2>3, <2>4, <2>5, WorkerStep
<1>5. CASE Exit(w)
  BY <1>1, <1>5, ExitQuiet
<1> QED
  BY <1>2, <1>4, <1>5 DEF Load

LEMMA MarkRunningInv == ASSUME Inv, NEW w \in Worker, MarkRunning(w) PROVE Inv'
<1>1. /\ worker[w].pc = "running" /\ Running(w) /\ To(w, "next") /\ UNCHANGED <<row, project, forge, shared, client>>
  BY DEF MarkRunning, Running, Mine, db, world, SetStatus
<1>2. PICK i \in Import : i = worker[w].i /\ Known(i)
  BY <1>1, AtWork
<1>3. ImpQuiet(i)
  <2>1. UNCHANGED imp \/ Writes(i, "running")
    BY <1>2 DEF MarkRunning, SetStatus, Writes, db
  <2> QED
    BY <1>2, <2>1, ImpSame, WriteMeans DEF ImpQuiet
<1>4. WorldGrows /\ "next" \in WorkerPc /\ "next" \notin InHand
  BY <1>1, WorldSame DEF WorkerPc, InHand
<1> QED
  BY <1>1, <1>2, <1>3, <1>4, PlaceStep

\* A step that only moves the goroutine, within its work on a repository.
LEMMA HandStep ==
    ASSUME Inv, NEW w \in Worker, worker[w].pc \in InHand, NEW pc \in InHand, To(w, pc),
           UNCHANGED <<imp, row, project, forge, shared, client>>,
           pc \in {"ready", "save"} =>
              forge[worker[w].s] = worker[w].i \/ (forge[worker[w].s] # Nobody /\ worker[w].ours)
    PROVE  Inv'
<1>1. Running(w) /\ pc \in WorkerPc /\ pc # "success" /\ pc # "partial"
  BY DEF Running, InHand, WorkerPc
<1>2. PICK i \in Import : i = worker[w].i
  BY <1>1, AtWork
<1>3. ImpQuiet(i) /\ WorldGrows
  BY ImpSame, WorldSame
<1> QED
  BY <1>1, <1>2, <1>3, PlaceStep

LEMMA GitHubRepoInv == ASSUME Inv, NEW w \in Worker, GitHubRepo(w) PROVE Inv'
<1>1. /\ worker[w].pc = "github" /\ UNCHANGED <<imp, row, project, forge, shared, client>>
  BY DEF GitHubRepo, Mine, db, world
<1>2. \E pc \in {"repo", "project", "fail"} : To(w, pc)
  BY DEF GitHubRepo
<1> QED
  BY <1>1, <1>2, HandStep DEF InHand

LEMMA GetBySlugInv == ASSUME Inv, NEW w \in Worker, GetBySlug(w) PROVE Inv'
<1>1. /\ worker[w].pc = "project" /\ UNCHANGED <<imp, row, project, forge, shared, client>>
  BY DEF GetBySlug, Mine, db, world
<1>2. \E pc \in {"fail", "link", "create"} : To(w, pc)
  BY DEF GetBySlug
<1> QED
  BY <1>1, <1>2, HandStep DEF InHand

LEMMA GetRepoInv == ASSUME Inv, NEW w \in Worker, GetRepo(w) PROVE Inv'
<1>1. /\ worker[w].pc = "repo" /\ UNCHANGED <<imp, row, project, forge, shared, client>>
  BY DEF GetRepo, Mine, db, world
<1>2. PICK pc \in {"fail", "migrate", "ready"} : To(w, pc) /\ (pc = "ready" => forge[worker[w].s] # Nobody /\ worker[w].ours)
  BY DEF GetRepo
<1> QED
  BY <1>1, <1>2, HandStep DEF InHand

LEMMA MarkReadyInv == ASSUME Inv, NEW w \in Worker, MarkReady(w) PROVE Inv'
<1>1. /\ worker[w].pc = "ready" /\ To(w, "save") /\ UNCHANGED <<imp, row, project, forge, shared, client>>
  BY DEF MarkReady, Mine, db
<1>2. Running(w) /\ worker[w].pc \in InHand /\ "save" \in InHand
  BY <1>1 DEF Running, InHand
<1>3. Remembers(w, worker[w].i, worker[w].s)
  BY <1>2, AtWork DEF WorkGood
<1>4. forge[worker[w].s] = worker[w].i \/ (forge[worker[w].s] # Nobody /\ worker[w].ours)
  BY <1>1, <1>3 DEF Remembers
<1> QED
  BY <1>1, <1>2, <1>4, HandStep

LEMMA FinalInv == ASSUME Inv, NEW w \in Worker, Final(w) PROVE Inv'
<1>1. /\ worker[w].pc = "final" /\ Running(w) /\ UNCHANGED <<imp, row, project, forge, shared, client>>
  BY DEF Final, Running, Mine, db, world
<1>2. PICK i \in Import : i = worker[w].i
  BY <1>1, AtWork
<1>3. CASE To(w, Outcome(i))
  <2>1. PICK pc \in {"success", "partial", "failed"} :
           /\ pc = Outcome(i)
           /\ pc = "success" => \A s \in imp[i].req.slugs : Done(i, s)
           /\ pc = "partial" => \E s \in imp[i].req.slugs : Done(i, s)
    BY DEF Outcome, Done
  <2>2. pc \in WorkerPc /\ pc \notin InHand /\ To(w, pc)
    BY <1>3, <2>1 DEF WorkerPc, InHand
  <2>3. ImpQuiet(i) /\ WorldGrows
    BY <1>1, ImpSame, WorldSame
  <2>4. pc \notin {"ready", "save"}
    OBVIOUS
  <2> QED
    BY <1>1, <1>2, <2>1, <2>2, <2>3, <2>4, PlaceStep
<1>4. CASE Exit(w)
  BY <1>1, <1>4, ExitQuiet
<1> QED
  BY <1>2, <1>3, <1>4 DEF Final

LEMMA SetFinalInv == ASSUME Inv, NEW w \in Worker, SetFinal(w) PROVE Inv'
<1>1. /\ worker[w].pc \in {"success", "partial", "failed"} /\ Running(w) /\ Exit(w)
      /\ UNCHANGED <<row, project, forge, shared, client>>
  BY DEF SetFinal, Running, Mine, db, world, SetStatus
<1>2. PICK i \in Import : i = worker[w].i /\ Known(i) /\ WorkGood(w, i)
  BY <1>1, AtWork
<1>3. CASE UNCHANGED imp
  BY <1>1, <1>3, ExitQuiet
<1>4. CASE Writes(i, worker[w].pc)
  <2>1. PICK status \in {"success", "partial", "failed"} : status = worker[w].pc
    BY <1>1
  <2>2. /\ imp' \in [Import -> ImpType] /\ \A j \in Import \ {i} : imp'[j] = imp[j]
        /\ imp'[i].status = status /\ imp'[i].req = imp[i].req
    BY <1>2, <1>4, <2>1, WriteMeans
  <2>3. i \notin shared => Agrees(i)'
    BY <1>1, <1>2, <2>1, <2>2 DEF WorkGood, Tracks, Agrees, Done
  <2>4. imp'[i].status # "none"
    BY <2>2
  <2> QED
    BY <1>1, <1>2, <2>2, <2>3, <2>4, ExitStep
<1> QED
  BY <1>2, <1>3, <1>4 DEF SetFinal, SetStatus, Writes, db

LEMMA PanicInv == ASSUME Inv, NEW w \in Worker, Panic(w) PROVE Inv'
<1>1. /\ Running(w) /\ Exit(w) /\ UNCHANGED <<row, project, forge, shared, client>>
  BY DEF Panic, Mine, world, SetStatus
<1>2. PICK i \in Import : i = worker[w].i /\ Known(i) /\ Writes(i, "failed")
  BY <1>1, AtWork DEF Panic, SetStatus, Writes
<1>3. /\ imp' \in [Import -> ImpType] /\ \A j \in Import \ {i} : imp'[j] = imp[j]
      /\ imp'[i].status = "failed" /\ imp'[i].req = imp[i].req
  BY <1>2, WriteMeans
<1> QED
  BY <1>1, <1>2, <1>3, ExitStep
-----------------------------------------------------------------------------
(* The steps of a goroutine on a repository.                               *)

LEMMA MigrateInv == ASSUME Inv, NEW w \in Worker, Migrate(w) PROVE Inv'
<1>1. /\ worker[w].pc = "migrate" /\ Running(w) /\ worker[w].pc \in InHand
      /\ UNCHANGED <<row, project, shared, client>>
  BY DEF Migrate, Running, Mine, InHand
<1>2. PICK i \in Import : i = worker[w].i /\ Known(i)
  BY <1>1, AtWork
<1>3. PICK s \in Slug : s = worker[w].s
  BY <1>1, AtWork
<1>4. ImpQuiet(i)
  BY <1>2, TouchMeans DEF Migrate, ImpQuiet
<1>5. forge \in [Slug -> Maker] /\ project \in [Slug -> Maker] /\ i \in Maker
  BY DEF Inv, WorldOK, Maker
<1>6. UNCHANGED forge \/ (forge[s] = Nobody /\ forge' = [forge EXCEPT ![s] = i])
  BY <1>2, <1>3 DEF Migrate
<1>7. WorldGrows
  BY <1>1, <1>5, <1>6 DEF WorldGrows
<1>8. To(w, "fail") \/ (To(w, "ready") /\ forge' = [forge EXCEPT ![s] = i])
  BY <1>2, <1>3 DEF Migrate
<1>9. CASE To(w, "fail")
  <2>1. "fail" \in WorkerPc /\ "fail" \in InHand
    BY DEF WorkerPc, InHand
  <2> QED
    BY <1>1, <1>2, <1>4, <1>7, <1>9, <2>1, PlaceStep
<1>10. CASE To(w, "ready") /\ forge' = [forge EXCEPT ![s] = i]
  <2>1. "ready" \in WorkerPc /\ "ready" \in InHand /\ forge'[worker[w].s] = i
    BY <1>3, <1>5, <1>10 DEF WorkerPc, InHand
  <2> QED
    BY <1>1, <1>2, <1>4, <1>7, <1>10, <2>1, PlaceStep
<1> QED
  BY <1>8, <1>9, <1>10

LEMMA UpdateMeans ==
    ASSUME Inv, NEW i \in Import, NEW s \in Slug, NEW r \in RepoType, UpdateRepo(i, s, r)
    PROVE  /\ row' \in [Import -> [Slug -> RepoType]] /\ row'[i][s] = r
           /\ \A t \in Slug \ {s} : row'[i][t] = row[i][t]
           /\ \A j \in Import \ {i} : row'[j] = row[j]
BY DEF Inv, RowOK, UpdateRepo

\* The row of the repository in hand, or of the next one, is written; the goroutine goes on from there.
LEMMA RepoStep ==
    ASSUME Inv, NEW w \in Worker, NEW i \in Import, Running(w), worker[w].i = i, NEW s \in Slug, NEW r \in RepoType,
           UpdateRepo(i, s, r), s \in imp[i].req.slugs, r.attempts >= row[i][s].attempts,
           r.created => project[s] = i /\ r.attempts >= 1,
           r.status = "success" => forge[s] = i \/ (forge[s] # Nobody /\ project[s] = i /\ r.attempts > 1),
           i \notin shared => ~Done(i, s),
           NEW v \in WorkType, Moves(w, v), v.i = i, v.todo \subseteq worker[w].todo, s \notin v.todo,
           v.pc \notin {"ready", "save", "success", "partial"},
           v.pc \in InHand => /\ v.s = s /\ r.status # "success" /\ r.attempts >= 1 /\ (v.row.created => project[s] = i)
                              /\ (v.ours => project[s] = i /\ r.attempts > 1),
           ImpQuiet(i), UNCHANGED <<project, forge, shared, client>>
    PROVE  Inv'
<1>1. WorkGood(w, i) /\ Known(i) /\ worker[w].todo \subseteq Slug
  BY AtWork
<1>2. /\ row' \in [Import -> [Slug -> RepoType]] /\ row'[i][s] = r
      /\ \A t \in Slug \ {s} : row'[i][t] = row[i][t]
      /\ \A j \in Import \ {i} : row'[j] = row[j]
  BY UpdateMeans
<1>3. Keeps
  <2>1. \A j \in Import : Known(j) => imp'[j].status # "none" /\ imp'[j].req = imp[j].req
    BY <1>1 DEF ImpQuiet, Known
  <2>2. \A j \in Import, t \in Slug : row'[j][t].attempts >= row[j][t].attempts
    <3> SUFFICES ASSUME NEW j \in Import, NEW t \in Slug PROVE row'[j][t].attempts >= row[j][t].attempts
      OBVIOUS
    <3>1. CASE j = i /\ t = s
      BY <1>2, <3>1
    <3>2. CASE row'[j][t] = row[j][t]
      BY <3>2, RowsRefl
    <3> QED
      BY <1>2, <3>1, <3>2
  <2> QED
    BY <2>1, <2>2 DEF Keeps
<1>4. RowsStay(i)
  <2>1. \A t \in Slug : row'[i][t].created => project'[t] = i /\ row'[i][t].attempts >= 1
    <3>1. \A t \in Slug : row[i][t].created => project[t] = i /\ row[i][t].attempts >= 1
      BY DEF Inv, RowOK
    <3> QED
      BY <1>2, <3>1
  <2>2. \A t \in Slug : row'[i][t].status # "none" => t \in imp[i].req.slugs
    BY <1>2 DEF Inv, RowOK
  <2>3. \A t \in Slug : row'[i][t].status = "success" => row[i][t].status = "success" \/ Truth(i, t)'
    BY <1>2 DEF Truth
  <2>4. i \notin shared => \A t \in Slug : row[i][t].status = "success" => row'[i][t].status = "success"
    BY <1>2 DEF Done
  <2> QED
    BY <2>1, <2>2, <2>3, <2>4 DEF RowsStay
<1>5. ASSUME worker'[w] = v PROVE WorkGood(w, i)'
  <2>1. Known(i)' /\ imp'[i].req = imp[i].req /\ v.todo \subseteq imp[i].req.slugs
    BY <1>1 DEF ImpQuiet, Known, WorkGood
  <2>2. v.pc \in InHand => Remembers(w, i, s)'
    BY <1>2, <1>5, <2>1 DEF Remembers
  <2>3. i \notin shared' => Tracks(w, i)'
    <3> SUFFICES ASSUME i \notin shared PROVE Tracks(w, i)'
      OBVIOUS
    <3>1. \A t \in worker[w].todo : ~Done(i, t)
      BY <1>1 DEF WorkGood, Tracks
    <3>2. \A t \in v.todo : row'[i][t].status # "success"
      BY <1>1, <1>2, <3>1 DEF Done
    <3> QED
      BY <1>2, <1>5, <3>2 DEF Tracks, Done
  <2>4. worker'[w].pc \in InHand => (worker'[w].s = s /\ Remembers(w, i, s)')
    BY <1>5, <2>2
  <2> QED
    BY <1>5, <2>1, <2>3, <2>4 DEF WorkGood, Remembers
<1>6. imp'[i].status = imp[i].status \/ imp'[i].status \notin {"success", "partial"}
  BY DEF ImpQuiet
<1>7. project' \in [Slug -> Maker] /\ forge' \in [Slug -> Maker]
  BY DEF Inv, WorldOK
<1> QED
  BY <1>2, <1>3, <1>4, <1>5, <1>6, <1>7, WorkerStep DEF ImpQuiet
LEMMA MinMeans == ASSUME NEW S \in SUBSET Slug, S # {} PROVE Min(S) \in S
<1>1. S \subseteq Nat
  BY ImportsAssumption DEF Slug
<1> DEFINE R == {ss \in Nat \X Nat : ss[1] < ss[2]}
<1>2. IsWellFoundedOn(R, Nat)
  BY NatLessThanWellFounded, Zenon DEF OpToRel
<1>3. PICK x \in S : \A y \in S : ~(<<y, x>> \in R)
  <2> HIDE DEF R
  <2> QED
    BY <1>1, <1>2, WFMin
<1>4. \A y \in S : x <= y
  <2> SUFFICES ASSUME NEW y \in S PROVE ~(y < x)
    BY <1>1
  <2>1. x \in Nat /\ y \in Nat /\ <<y, x>> \notin R
    BY <1>1, <1>3
  <2> QED
    BY <2>1
<1> QED
  BY <1>4 DEF Min

\* The row as an attempt begins it.
Begun(x) == [x EXCEPT !.status = "running", !.attempts = @ + 1]

LEMMA BegunMeans ==
    ASSUME NEW x \in RepoType
    PROVE  /\ Begun(x) \in RepoType /\ Begun(x).status = "running" /\ Begun(x).created = x.created
           /\ Begun(x).attempts >= x.attempts /\ Begun(x).attempts >= 1
           /\ x.attempts >= 1 => Begun(x).attempts > 1
<1>1. x.attempts \in Nat
  BY DEF RepoType
<1>2. Begun(x).attempts = x.attempts + 1
  BY DEF RepoType, Begun
<1>3. Begun(x) \in RepoType
  <2>1. x.attempts + 1 \in Nat
    BY <1>1
  <2> QED
    BY <2>1 DEF Begun, RepoType
<1>4. Begun(x).status = "running" /\ Begun(x).created = x.created
  BY DEF RepoType, Begun
<1> QED
  BY <1>1, <1>2, <1>3, <1>4

LEMMA BeginRepoInv == ASSUME Inv, NEW w \in Worker, BeginRepo(w) PROVE Inv'
<1>1. /\ worker[w].pc = "next" /\ Running(w) /\ UNCHANGED <<imp, project, forge, shared, client>>
  BY DEF BeginRepo, Running, Mine, world
<1>2. PICK i \in Import : i = worker[w].i /\ Known(i) /\ WorkGood(w, i)
  BY <1>1, AtWork
<1>3. worker[w] \in WorkType /\ worker[w].todo \subseteq Slug /\ worker \in [Worker -> {IdleWorker} \cup WorkType]
  BY <1>1, AtWork DEF Inv, WorkOK
<1>4. ImpQuiet(i) /\ WorldGrows
  BY <1>1, ImpSame, WorldSame
<1>5. CASE To(w, "final") /\ UNCHANGED row
  <2>1. "final" \in WorkerPc /\ "final" \notin InHand
    BY DEF WorkerPc, InHand
  <2> QED
    BY <1>1, <1>2, <1>4, <1>5, <2>1, PlaceStep
<1>6. ASSUME NEW s \in worker[w].todo, UpdateRepo(i, s, Begun(row[i][s])),
             worker' = [worker EXCEPT ![w].pc = "github", ![w].todo = @ \ {s}, ![w].s = s, ![w].row = row'[i][s],
                                      ![w].ours = row[i][s].created]
      PROVE  Inv'
  <2>1. s \in Slug /\ s \in imp[i].req.slugs /\ (i \notin shared => ~Done(i, s))
    BY <1>2, <1>3 DEF WorkGood, Tracks
  <2>2. PICK x \in RepoType : x = row[i][s] /\ (x.created => project[s] = i /\ x.attempts >= 1)
    BY <2>1 DEF Inv, RowOK
  <2>3. PICK r \in RepoType : /\ r = Begun(x) /\ r.status = "running" /\ r.created = x.created
                              /\ r.attempts >= x.attempts /\ r.attempts >= 1 /\ (x.attempts >= 1 => r.attempts > 1)
    BY BegunMeans
  <2>4. UpdateRepo(i, s, r) /\ row'[i][s] = r
    BY <1>6, <2>1, <2>2, <2>3, UpdateMeans
  <2>5. PICK todo \in SUBSET Slug : todo = worker[w].todo \ {s}
    BY <1>3
  <2>6. PICK ours \in BOOLEAN : ours = x.created
    BY DEF RepoType
  <2> DEFINE v == [worker[w] EXCEPT !.pc = "github", !.todo = todo, !.s = s, !.row = r, !.ours = ours]
  <2>7. Moves(w, v)
    BY <1>3, <1>6, <2>2, <2>4, <2>5, <2>6 DEF Moves
  <2>8. v \in WorkType /\ v.pc = "github" /\ v.i = i /\ v.todo = todo /\ v.s = s /\ v.row = r /\ v.ours = ours
    BY <1>2, <1>3, <2>1 DEF WorkType, WorkerPc
  <2> HIDE DEF v
  <2>9. v.todo \subseteq worker[w].todo /\ s \notin v.todo
    BY <2>5, <2>8
  <2>10. v.ours => project[s] = i /\ r.attempts > 1
    BY <2>2, <2>3, <2>6, <2>8
  <2>11. (v.row.created => project[s] = i) /\ (r.created => project[s] = i /\ r.attempts >= 1)
         /\ r.status # "success" /\ r.attempts >= row[i][s].attempts
    BY <2>2, <2>3, <2>8
  <2> QED
    BY <1>1, <1>2, <1>4, <2>1, <2>3, <2>4, <2>7, <2>8, <2>9, <2>10, <2>11, RepoStep
<1>7. ASSUME NEW s \in worker[w].todo, worker' = [worker EXCEPT ![w].todo = @ \ {s}], UNCHANGED row
      PROVE  Inv'
  <2>1. PICK todo \in SUBSET Slug : todo = worker[w].todo \ {s}
    BY <1>3
  <2> DEFINE v == [worker[w] EXCEPT !.todo = todo]
  <2>2. Moves(w, v)
    BY <1>3, <1>7, <2>1 DEF Moves
  <2>3. v \in WorkType /\ v.pc = "next" /\ v.i = i /\ v.todo = todo
    BY <1>1, <1>2, <1>3 DEF WorkType
  <2> HIDE DEF v
  <2>4. ASSUME worker'[w] = v PROVE WorkGood(w, i)'
    BY <1>1, <1>2, <1>7, <2>1, <2>3, <2>4 DEF WorkGood, InHand, Tracks, Known, Done
  <2>5. Keeps /\ RowsStay(i) /\ row' \in [Import -> [Slug -> RepoType]]
    BY <1>1, <1>2, <1>4, <1>7, QuietKeeps, RowsQuiet
  <2>6. imp' \in [Import -> ImpType] /\ project' \in [Slug -> Maker] /\ forge' \in [Slug -> Maker]
    BY <1>1 DEF Inv, ImpOK, WorldOK
  <2> QED
    BY <1>1, <1>2, <1>7, <2>2, <2>3, <2>4, <2>5, <2>6, WorkerStep
<1>8. worker[w].todo # {} => Min(worker[w].todo) \in worker[w].todo
  BY <1>3, MinMeans
<1> QED
  BY <1>2, <1>5, <1>6, <1>7, <1>8 DEF BeginRepo, Begun

LEMMA CreateProjectInv == ASSUME Inv, NEW w \in Worker, CreateProject(w) PROVE Inv'
<1>1. /\ worker[w].pc = "create" /\ worker[w].pc \in InHand /\ Running(w) /\ UNCHANGED <<imp, row, forge, shared, client>>
  BY DEF CreateProject, Running, Mine, db, InHand
<1>2. PICK i \in Import : i = worker[w].i /\ Known(i) /\ WorkGood(w, i)
  BY <1>1, AtWork
<1>3. PICK s \in Slug : s = worker[w].s
  BY <1>1, AtWork
<1>4. worker[w] \in WorkType /\ worker \in [Worker -> {IdleWorker} \cup WorkType]
  BY <1>1, AtWork DEF Inv, WorkOK
<1>5. CASE To(w, "fail") /\ UNCHANGED project
  <2>1. "fail" \in InHand
    BY DEF InHand
  <2> QED
    BY <1>1, <1>5, <2>1, HandStep
<1>6. CASE /\ project[s] = Nobody /\ project' = [project EXCEPT ![s] = i]
           /\ worker' = [worker EXCEPT ![w].pc = "link", ![w].row.created = TRUE]
  <2>1. PICK x \in RepoType : x = worker[w].row
    BY <1>4 DEF WorkType
  <2>2. PICK y \in RepoType : y = [x EXCEPT !.created = TRUE]
    BY DEF RepoType
  <2> DEFINE v == [worker[w] EXCEPT !.pc = "link", !.row = y]
  <2>3. Moves(w, v)
    BY <1>4, <1>6, <2>1, <2>2 DEF Moves
  <2>4. v \in WorkType /\ v.pc = "link" /\ v.i = i /\ v.todo = worker[w].todo /\ v.s = s /\ v.ours = worker[w].ours
    BY <1>2, <1>3, <1>4 DEF WorkType, WorkerPc
  <2> HIDE DEF v
  <2>5. /\ project' \in [Slug -> Maker] /\ forge' \in [Slug -> Maker] /\ project'[s] = i
        /\ \A t \in Slug : project[t] # Nobody => project'[t] = project[t]
    BY <1>1, <1>6 DEF Inv, WorldOK, Maker
  <2>6. WorldGrows /\ ImpQuiet(i)
    BY <1>1, <2>5, ImpSame DEF WorldGrows
  <2>7. Keeps /\ RowsStay(i) /\ row' \in [Import -> [Slug -> RepoType]]
    BY <1>1, <1>2, <2>5, <2>6, QuietKeeps, RowsQuiet
  <2>8. ASSUME worker'[w] = v PROVE WorkGood(w, i)'
    <3>1. Remembers(w, i, s)
      BY <1>1, <1>2, <1>3 DEF WorkGood
    <3>2. worker'[w].s = s /\ Remembers(w, i, s)'
      BY <1>1, <2>4, <2>5, <2>8, <3>1 DEF Remembers
    <3>3. i \notin shared' => Tracks(w, i)'
      BY <1>1, <1>2, <1>3, <2>4, <2>8 DEF WorkGood, Tracks, Done
    <3> QED
      BY <1>1, <1>2, <2>4, <2>8, <3>2, <3>3 DEF WorkGood, Known, Remembers
  <2>9. imp' \in [Import -> ImpType] /\ imp'[i].status = imp[i].status
    BY <1>1 DEF Inv, ImpOK
  <2> QED
    BY <1>1, <1>2, <2>3, <2>4, <2>5, <2>7, <2>8, <2>9, WorkerStep
<1> QED
  BY <1>2, <1>3, <1>5, <1>6 DEF CreateProject
LEMMA LinkProjectInv == ASSUME Inv, NEW w \in Worker, LinkProject(w) PROVE Inv'
<1>1. /\ worker[w].pc = "link" /\ worker[w].pc \in InHand /\ Running(w) /\ To(w, "repo")
      /\ UNCHANGED <<imp, project, forge, shared, client>>
  BY DEF LinkProject, Running, Mine, world, InHand
<1>2. PICK i \in Import : i = worker[w].i /\ Known(i) /\ WorkGood(w, i)
  BY <1>1, AtWork
<1>3. PICK s \in Slug : s = worker[w].s
  BY <1>1, AtWork
<1>4. "repo" \in WorkerPc /\ "repo" \in InHand
  BY DEF WorkerPc, InHand
<1>5. CASE UNCHANGED row
  BY <1>1, <1>4, <1>5, HandStep
<1>6. CASE UpdateRepo(i, s, [row[i][s] EXCEPT !.status = "running", !.project = TRUE, !.created = worker[w].row.created])
  <2>1. Remembers(w, i, s) /\ (i \notin shared => ~Done(i, s))
    BY <1>1, <1>2, <1>3 DEF WorkGood, Tracks
  <2>2. PICK x \in RepoType : x = row[i][s]
    BY DEF Inv, RowOK
  <2>3. PICK created \in BOOLEAN : created = worker[w].row.created
    BY <1>1, AtWork DEF WorkType, RepoType
  <2> DEFINE r == [x EXCEPT !.status = "running", !.project = TRUE, !.created = created]
  <2>4. r \in RepoType /\ r.status = "running" /\ r.created = created /\ r.attempts = x.attempts
    BY DEF RepoType
  <2>5. UpdateRepo(i, s, r)
    BY <1>6, <2>2, <2>3
  <2> HIDE DEF r
  <2>6. PICK v \in WorkType : /\ Moves(w, v) /\ v.pc = "repo" /\ v.i = i /\ v.s = s
                              /\ v.todo = worker[w].todo /\ v.row = worker[w].row /\ v.ours = worker[w].ours
    BY <1>1, <1>2, <1>3, <1>4, ToMeans
  <2>7. /\ s \in imp[i].req.slugs /\ s \notin v.todo /\ v.todo \subseteq worker[w].todo
        /\ r.attempts >= 1 /\ (r.created => project[s] = i) /\ (v.row.created => project[s] = i)
        /\ (v.ours => project[s] = i /\ r.attempts > 1)
    BY <2>1, <2>2, <2>3, <2>4, <2>6 DEF Remembers
  <2>8. r.attempts >= row[i][s].attempts
    BY <2>2, <2>4, RowsRefl
  <2>9. ImpQuiet(i)
    BY <1>1, ImpSame
  <2> QED
    BY <1>1, <1>2, <2>1, <2>4, <2>5, <2>6, <2>7, <2>8, <2>9, RepoStep
<1> QED
  BY <1>2, <1>3, <1>5, <1>6 DEF LinkProject

\* The row of the repository in hand is ended, or the write of it is lost.
LEMMA EndRepoInv ==
    ASSUME Inv, NEW w \in Worker, worker[w].pc \in InHand, NEW r \in RepoType, EndRepo(w, r),
           UNCHANGED <<project, forge, shared, client>>,
           r.attempts = row[worker[w].i][worker[w].s].attempts,
           r.created => project[worker[w].s] = worker[w].i,
           r.status = "success" => forge[worker[w].s] = worker[w].i \/ (forge[worker[w].s] # Nobody /\ worker[w].ours)
    PROVE  Inv'
<1>1. Running(w) /\ To(w, "next") /\ "next" \in WorkerPc /\ "next" \notin InHand
  BY DEF Running, InHand, WorkerPc, EndRepo
<1>2. PICK i \in Import : i = worker[w].i /\ Known(i) /\ WorkGood(w, i)
  BY <1>1, AtWork
<1>3. PICK s \in Slug : s = worker[w].s
  BY <1>1, AtWork
<1>4. ImpQuiet(i)
  BY <1>2, TouchMeans DEF EndRepo, ImpQuiet
<1>5. CASE UNCHANGED row
  BY <1>1, <1>2, <1>4, <1>5, WorldSame, PlaceStep
<1>6. CASE UpdateRepo(i, s, r)
  <2>1. Remembers(w, i, s) /\ (i \notin shared => ~Done(i, s))
    BY <1>1, <1>2, <1>3 DEF WorkGood, Tracks
  <2>2. PICK v \in WorkType : /\ Moves(w, v) /\ v.pc = "next" /\ v.i = i /\ v.s = s
                              /\ v.todo = worker[w].todo /\ v.row = worker[w].row /\ v.ours = worker[w].ours
    BY <1>1, <1>2, <1>3, ToMeans
  <2>3. /\ s \in imp[i].req.slugs /\ s \notin v.todo /\ v.todo \subseteq worker[w].todo
        /\ r.created => project[s] = i /\ r.attempts >= 1
        /\ r.status = "success" => forge[s] = i \/ (forge[s] # Nobody /\ project[s] = i /\ r.attempts > 1)
    BY <1>2, <1>3, <2>1, <2>2 DEF Remembers
  <2>4. r.attempts >= row[i][s].attempts
    BY <1>2, <1>3, RowsRefl
  <2> QED
    BY <1>1, <1>2, <1>4, <1>6, <2>1, <2>2, <2>3, <2>4, RepoStep
<1> QED
  BY <1>2, <1>3, <1>5, <1>6 DEF EndRepo

LEMMA FailInv == ASSUME Inv, NEW w \in Worker, Fail(w) PROVE Inv'
<1>1. /\ worker[w].pc = "fail" /\ worker[w].pc \in InHand /\ Running(w) /\ UNCHANGED <<project, forge, shared, client>>
  BY DEF Fail, Running, Mine, world, InHand
<1>2. PICK i \in Import : i = worker[w].i /\ Known(i) /\ WorkGood(w, i)
  BY <1>1, AtWork
<1>3. PICK s \in Slug : s = worker[w].s
  BY <1>1, AtWork
<1>4. PICK x \in RepoType : x = row[i][s] /\ (x.created => project[s] = i)
  BY DEF Inv, RowOK
<1> DEFINE r == [x EXCEPT !.status = "failed"]
<1>5. r \in RepoType /\ r.status = "failed" /\ r.created = x.created /\ r.attempts = x.attempts
  BY DEF RepoType
<1>6. EndRepo(w, r)
  BY <1>2, <1>3, <1>4 DEF Fail
<1> HIDE DEF r
<1> QED
  BY <1>1, <1>2, <1>3, <1>4, <1>5, <1>6, EndRepoInv

\* A repository is reported as imported: it is the import's, or one that is there beside a project
\* an earlier attempt of the import made.
LEMMA SaveInv == ASSUME Inv, NEW w \in Worker, Save(w) PROVE Inv'
<1>1. /\ worker[w].pc = "save" /\ worker[w].pc \in InHand /\ Running(w) /\ UNCHANGED <<project, forge, shared, client>>
  BY DEF Save, Running, Mine, world, InHand
<1>2. PICK i \in Import : i = worker[w].i /\ Known(i) /\ WorkGood(w, i)
  BY <1>1, AtWork
<1>3. PICK s \in Slug : s = worker[w].s /\ Remembers(w, i, s)
  BY <1>1, <1>2, AtWork DEF WorkGood
<1>4. PICK x \in RepoType : x = row[i][s]
  BY DEF Inv, RowOK
<1>5. PICK created \in BOOLEAN : created = worker[w].row.created
  BY <1>1, AtWork DEF WorkType, RepoType
<1> DEFINE r == [x EXCEPT !.status = "success", !.project = TRUE, !.created = created]
<1>6. r \in RepoType /\ r.created = created /\ r.attempts = x.attempts
  BY DEF RepoType
<1>7. EndRepo(w, r)
  BY <1>2, <1>3, <1>4, <1>5 DEF Save
<1> HIDE DEF r
<1>8. /\ created => project[s] = i
      /\ forge[s] = i \/ (forge[s] # Nobody /\ worker[w].ours)
  BY <1>1, <1>3, <1>5 DEF Remembers
<1> QED
  BY <1>1, <1>2, <1>3, <1>4, <1>6, <1>7, <1>8, EndRepoInv

-----------------------------------------------------------------------------
(* Requests, processes, time and other people.                             *)

\* A step that ends goroutines at most, and after which the same rows are done.
LEMMA CalmStep ==
    ASSUME Inv, Keeps, WorldGrows, ClientOK', UNCHANGED shared,
           row' \in [Import -> [Slug -> RepoType]], imp' \in [Import -> ImpType],
           \A i \in Import : imp'[i].status = "none" => \A s \in Slug : row'[i][s] = NoRow,
           \A i \in Import, s \in Slug : row'[i][s].created => row[i][s].created,
           \A i \in Import, s \in Slug : row'[i][s].status # "none" => s \in imp'[i].req.slugs,
           \A i \in Import : SameDone(i),
           \A i \in Import : imp'[i].status = imp[i].status \/ imp'[i].status \notin {"success", "partial"} \/ Agrees(i)',
           worker' \in [Worker -> {IdleWorker} \cup WorkType],
           \A w \in Worker : worker'[w] = worker[w] \/ worker'[w] = IdleWorker
    PROVE  Inv'
<1>1. \A w \in Worker : Running(w)' => worker'[w] = worker[w] /\ Running(w)
  BY DEF Running, IdleWorker
<1>2. WorkOK'
  <2>1. ASSUME NEW w \in Worker, NEW i \in Import, Running(w)', worker'[w].i = i PROVE WorkGood(w, i)'
    BY <1>1, <2>1, WorkGoodKept
  <2>2. ASSUME NEW u \in Worker, NEW w \in Worker, Running(u)', Running(w)', u # w, worker'[u].i = worker'[w].i
        PROVE  worker'[w].i \in shared'
    BY <1>1, <2>2 DEF Inv, WorkOK
  <2> QED
    BY <2>1, <2>2 DEF WorkOK
<1>3. ImpOK' /\ WorldOK'
  BY DEF Inv, ImpOK, WorldOK, WorldGrows, Known
<1>4. RowOK'
  <2>1. ASSUME NEW i \in Import, NEW s \in Slug, row'[i][s].created PROVE project'[s] = i /\ row'[i][s].attempts >= 1
    <3>1. row[i][s].created /\ RowOK
      BY <2>1 DEF Inv
    <3>2. project[s] = i /\ row[i][s].attempts >= 1
      BY <3>1 DEF RowOK
    <3>3. Known(i)
      BY <3>1 DEF Inv, ImpOK, NoRow
    <3>4. row'[i][s].attempts >= 1
      BY <3>1, <3>2, <3>3, AttemptsGrow
    <3> QED
      BY <3>2, <3>4, Names DEF WorldGrows
  <2> QED
    BY <2>1 DEF RowOK
<1>5. RowsAreTrue'
  BY RowsTrueKept DEF SameDone
<1>6. StatusIsTrue'
  BY StatusTrueKept DEF SameDone
<1> QED
  BY <1>2, <1>3, <1>4, <1>5, <1>6 DEF Inv

\* The tables stay, but for the age of imports.
LEMMA CalmDb ==
    ASSUME Inv, WorldGrows, ClientOK', UNCHANGED <<row, shared>>, imp' \in [Import -> ImpType],
           \A i \in Import : imp'[i].status = imp[i].status /\ imp'[i].req = imp[i].req,
           worker' \in [Worker -> {IdleWorker} \cup WorkType],
           \A w \in Worker : worker'[w] = worker[w] \/ worker'[w] = IdleWorker
    PROVE  Inv'
<1>1. Keeps
  BY RowsRefl DEF Keeps, WorldGrows, Known
<1>2. /\ row' \in [Import -> [Slug -> RepoType]]
      /\ \A i \in Import : imp'[i].status = "none" => \A s \in Slug : row'[i][s] = NoRow
      /\ \A i \in Import, s \in Slug : row'[i][s].status # "none" => s \in imp'[i].req.slugs
      /\ \A i \in Import : SameDone(i)
  BY DEF Inv, ImpOK, RowOK, Known, SameDone
<1> QED
  BY <1>1, <1>2, CalmStep

LEMMA CalmWorkers ==
    ASSUME Inv, ClientOK', UNCHANGED <<imp, row, project, forge, shared, worker>>
    PROVE  Inv'
<1>1. WorldGrows /\ imp' \in [Import -> ImpType] /\ worker' \in [Worker -> {IdleWorker} \cup WorkType]
  BY WorldSame DEF Inv, ImpOK, WorkOK
<1> QED
  BY <1>1, CalmDb

LEMMA ClientMeans ==
    ASSUME Inv, NEW c \in Client, client[c].pc # "idle"
    PROVE  /\ client[c] \in ClientType /\ client[c].i \in Import /\ client[c].p \in Proc /\ client[c].q \in Request
           /\ client[c].pc \in {"create", "resume", "launch"}
<1>1. client[c] \in ClientType
  BY DEF Inv, ClientOK, IdleClient
<1> QED
  BY <1>1 DEF ClientType

LEMMA ClientEndsMeans ==
    ASSUME Inv, Keeps, NEW c \in Client, ClientEnds(c) \/ UNCHANGED client
    PROVE  ClientOK'
<1>1. /\ client' \in [Client -> {IdleClient} \cup ClientType]
      /\ \A d \in Client : client'[d] = client[d] \/ client'[d] = IdleClient
  BY DEF Inv, ClientOK, ClientEnds
<1>2. \A d \in Client : client'[d].pc \in {"resume", "launch"} => client'[d] = client[d] /\ client[d].i \in Import
  BY <1>1, ClientMeans DEF IdleClient
<1> QED
  BY <1>1, <1>2 DEF Inv, ClientOK, Keeps, Known

LEMMA ClientToMeans ==
    ASSUME Inv, Keeps, NEW c \in Client, client[c].pc # "idle", NEW pc \in {"resume", "launch"}, ClientTo(c, pc),
           imp'[client[c].i].status # "none"
    PROVE  ClientOK'
<1> DEFINE v == [client[c] EXCEPT !.pc = pc]
<1>1. client[c] \in ClientType /\ client \in [Client -> {IdleClient} \cup ClientType]
  BY ClientMeans DEF Inv, ClientOK
<1>2. v \in ClientType /\ v.i = client[c].i
  BY <1>1 DEF ClientType
<1>3. client' = [client EXCEPT ![c] = v]
  BY <1>1 DEF ClientTo
<1> HIDE DEF v
<1>4. /\ client' \in [Client -> {IdleClient} \cup ClientType] /\ client'[c] = v
      /\ \A d \in Client \ {c} : client'[d] = client[d]
  BY <1>1, <1>2, <1>3
<1>5. \A d \in Client \ {c} : client'[d].pc \in {"resume", "launch"} => client[d].i \in Import /\ Known(client[d].i)
  BY <1>4, ClientMeans DEF Inv, ClientOK
<1>6. \A d \in Client \ {c} : client'[d].pc \in {"resume", "launch"} => imp'[client'[d].i].status # "none"
  BY <1>4, <1>5 DEF Keeps
<1>7. imp'[client'[c].i].status # "none"
  BY <1>2, <1>4
<1> QED
  BY <1>4, <1>6, <1>7 DEF ClientOK, Known
LEMMA SameKeeps == ASSUME Inv, UNCHANGED <<imp, row, shared>>, WorldGrows PROVE Keeps
BY RowsRefl DEF Keeps, WorldGrows, Known

LEMMA StartInv ==
    ASSUME Inv, NEW c \in Client, NEW p \in Proc, NEW i \in Import, NEW q \in Request, Start(c, p, i, q)
    PROVE  Inv'
<1>1. UNCHANGED <<imp, row, project, forge, shared, worker>>
  BY DEF Start, db, world
<1>2. PICK pc \in {"create", "resume"} : /\ client' = [client EXCEPT ![c] = [pc |-> pc, p |-> p, i |-> i, q |-> q]]
                                         /\ pc = "resume" => Known(i)
  BY DEF Start, Known
<1> DEFINE v == [pc |-> pc, p |-> p, i |-> i, q |-> q]
<1>3. v \in ClientType /\ v.pc = pc /\ v.i = i
  BY DEF ClientType
<1> HIDE DEF v
<1>4. /\ client' \in [Client -> {IdleClient} \cup ClientType] /\ client'[c] = v
      /\ \A d \in Client \ {c} : client'[d] = client[d]
  BY <1>2, <1>3 DEF Inv, ClientOK, v
<1>5. ClientOK'
  BY <1>1, <1>2, <1>3, <1>4 DEF Inv, ClientOK, Known
<1> QED
  BY <1>1, <1>5, CalmWorkers

LEMMA StartFailsInv == ASSUME Inv, NEW c \in Client, StartFails(c) PROVE Inv'
<1>1. UNCHANGED <<imp, row, project, forge, shared, worker>> /\ ClientEnds(c)
  BY DEF StartFails, db, world
<1>2. ClientOK'
  BY <1>1, WorldSame, SameKeeps, ClientEndsMeans
<1> QED
  BY <1>1, <1>2, CalmWorkers

\* An import that nobody asked for yet is recorded.
LEMMA CreateImportInv ==
    ASSUME Inv, NEW c \in Client, NEW i \in Import, NEW q \in Request, client[c].pc = "create", client[c].i = i,
           ~Known(i), CreateImport(i, q), ClientTo(c, "launch"), UNCHANGED <<project, forge, shared, worker>>
    PROVE  Inv'
<1> DEFINE v == [status |-> "queued", req |-> q, age |-> 0]
           rows == [s \in Slug |-> IF s \in q.slugs THEN [NoRow EXCEPT !.status = "queued"] ELSE NoRow]
<1>1. v \in ImpType /\ v.status = "queued" /\ v.req = q
  BY DEF ImpType, ReqType
<1>2. /\ rows \in [Slug -> RepoType]
      /\ \A s \in Slug : ~rows[s].created /\ rows[s].status # "success" /\ (rows[s].status # "none" => s \in q.slugs)
  BY DEF NoRow, RepoType
<1>3. imp' = [imp EXCEPT ![i] = v] /\ row' = [row EXCEPT ![i] = rows]
  BY DEF CreateImport
<1> HIDE DEF v, rows
<1>4. imp' \in [Import -> ImpType] /\ imp'[i] = v /\ \A j \in Import \ {i} : imp'[j] = imp[j]
  BY <1>1, <1>3 DEF Inv, ImpOK
<1>5. row' \in [Import -> [Slug -> RepoType]] /\ row'[i] = rows /\ \A j \in Import \ {i} : row'[j] = row[j]
  BY <1>2, <1>3 DEF Inv, RowOK
<1>6. WorldGrows
  BY WorldSame
<1>7. Keeps
  <2>1. \A j \in Import : Known(j) => j # i
    OBVIOUS
  <2>2. \A j \in Import, s \in Slug : Known(j) => row'[j][s].attempts >= row[j][s].attempts
    BY <1>5, <2>1, RowsRefl
  <2>3. \A j \in Import : Known(j) => imp'[j].status # "none" /\ imp'[j].req = imp[j].req
    BY <1>4, <2>1 DEF Known
  <2> QED
    BY <1>6, <2>2, <2>3 DEF Keeps, WorldGrows
<1>8. \A j \in Import : SameDone(j)
  <2>1. \A s \in Slug : row[i][s].status # "success"
    BY DEF Inv, ImpOK, NoRow
  <2> QED
    BY <1>2, <1>5, <2>1 DEF SameDone
<1>9. /\ \A j \in Import : imp'[j].status = "none" => \A s \in Slug : row'[j][s] = NoRow
      /\ \A j \in Import, s \in Slug : row'[j][s].created => row[j][s].created
      /\ \A j \in Import, s \in Slug : row'[j][s].status # "none" => s \in imp'[j].req.slugs
      /\ \A j \in Import : imp'[j].status = imp[j].status \/ imp'[j].status \notin {"success", "partial"}
  <2>1. ASSUME NEW j \in Import, j = i
        PROVE  /\ imp'[j].status = "queued" /\ imp'[j].req = q /\ row'[j] = rows
    BY <1>1, <1>4, <1>5, <2>1
  <2>2. ASSUME NEW j \in Import, j # i PROVE imp'[j] = imp[j] /\ row'[j] = row[j]
    BY <1>4, <1>5, <2>2
  <2>3. \A j \in Import : imp'[j].status = "none" => \A s \in Slug : row'[j][s] = NoRow
    BY <2>1, <2>2 DEF Inv, ImpOK, Known
  <2>4. \A j \in Import, s \in Slug : row'[j][s].created => row[j][s].created
    BY <1>2, <2>1, <2>2
  <2>5. \A j \in Import, s \in Slug : row'[j][s].status # "none" => s \in imp'[j].req.slugs
    BY <1>2, <2>1, <2>2 DEF Inv, RowOK
  <2>6. \A j \in Import : imp'[j].status = imp[j].status \/ imp'[j].status \notin {"success", "partial"}
    BY <2>1, <2>2
  <2> QED
    BY <2>3, <2>4, <2>5, <2>6
<1>10. ClientOK'
  BY <1>1, <1>4, <1>7, ClientToMeans
<1>11. worker' \in [Worker -> {IdleWorker} \cup WorkType]
  BY DEF Inv, WorkOK
<1> QED
  BY <1>4, <1>5, <1>6, <1>7, <1>8, <1>9, <1>10, <1>11, CalmStep

LEMMA StartCreateInv == ASSUME Inv, NEW c \in Client, StartCreate(c) PROVE Inv'
<1>1. client[c].pc = "create" /\ client[c].pc # "idle" /\ UNCHANGED <<project, forge, shared, worker>>
  BY DEF StartCreate, world
<1>2. PICK i \in Import : i = client[c].i
  BY <1>1, ClientMeans
<1>3. PICK q \in Request : q = client[c].q
  BY <1>1, ClientMeans
<1>4. CASE ~Known(i) /\ CreateImport(i, q) /\ ClientTo(c, "launch")
  BY <1>1, <1>2, <1>4, CreateImportInv
<1>5. CASE Known(i) /\ UNCHANGED <<imp, row>> /\ (ClientTo(c, "resume") \/ ClientEnds(c))
  <2>1. Keeps
    BY <1>1, <1>5, WorldSame, SameKeeps
  <2>2. ClientOK'
    BY <1>1, <1>2, <1>5, <2>1, ClientToMeans, ClientEndsMeans DEF Known
  <2> QED
    BY <1>1, <1>5, <2>2, CalmWorkers
<1> QED
  BY <1>2, <1>3, <1>4, <1>5 DEF StartCreate, Known, db

\* The rows that are not done get another status; what is done stays so.
LEMMA UnsuccessfulMeans ==
    ASSUME Inv, NEW i \in Import, NEW status \in {"queued", "failed"}
    PROVE  /\ Unsuccessful(i, status) \in [Slug -> RepoType]
           /\ \A s \in Slug : /\ Unsuccessful(i, status)[s].created = row[i][s].created
                              /\ Unsuccessful(i, status)[s].attempts = row[i][s].attempts
                              /\ Unsuccessful(i, status)[s].status = "success" <=> row[i][s].status = "success"
                              /\ Unsuccessful(i, status)[s].status = "none" <=> row[i][s].status = "none"
                              /\ row[i][s].status = "none" => Unsuccessful(i, status)[s] = row[i][s]
<1>1. \A s \in Slug : row[i][s] \in RepoType
  BY DEF Inv, RowOK
<1>2. \A x \in RepoType : /\ [x EXCEPT !.status = status] \in RepoType /\ [x EXCEPT !.status = status].status = status
                          /\ [x EXCEPT !.status = status].created = x.created
                          /\ [x EXCEPT !.status = status].attempts = x.attempts
  BY DEF RepoType
<1> QED
  BY <1>1, <1>2 DEF Unsuccessful

LEMMA StartResumeInv == ASSUME Inv, NEW c \in Client, StartResume(c) PROVE Inv'
<1>1. client[c].pc = "resume" /\ client[c].pc # "idle" /\ UNCHANGED <<project, forge, shared, worker>>
  BY DEF StartResume, world
<1>2. PICK i \in Import : i = client[c].i /\ Known(i)
  BY <1>1, ClientMeans DEF Inv, ClientOK
<1>3. /\ imp' \in [Import -> ImpType] /\ \A j \in Import \ {i} : imp'[j] = imp[j]
      /\ imp'[i].status = "queued" /\ imp'[i].req = imp[i].req
      /\ \A j \in Import : Known(j) => imp'[j].status # "none" /\ imp'[j].req = imp[j].req
  BY <1>2, WriteMeans DEF StartResume, Resume, Writes
<1>4. PICK rows \in [Slug -> RepoType] :
        /\ row' = [row EXCEPT ![i] = rows]
        /\ \A s \in Slug : /\ rows[s].created = row[i][s].created /\ rows[s].attempts = row[i][s].attempts
                           /\ rows[s].status = "success" <=> row[i][s].status = "success"
                           /\ rows[s].status = "none" <=> row[i][s].status = "none"
  <2>1. row' = [row EXCEPT ![i] = Unsuccessful(i, "queued")]
    BY <1>2 DEF StartResume, Resume
  <2>2. PICK rows : rows = Unsuccessful(i, "queued")
    OBVIOUS
  <2>3. /\ rows \in [Slug -> RepoType]
        /\ \A s \in Slug : /\ rows[s].created = row[i][s].created /\ rows[s].attempts = row[i][s].attempts
                           /\ rows[s].status = "success" <=> row[i][s].status = "success"
                           /\ rows[s].status = "none" <=> row[i][s].status = "none"
    BY <2>2, UnsuccessfulMeans
  <2> QED
    BY <2>1, <2>2, <2>3
<1>5. row' \in [Import -> [Slug -> RepoType]] /\ row'[i] = rows /\ \A j \in Import \ {i} : row'[j] = row[j]
  BY <1>4 DEF Inv, RowOK
<1>6. WorldGrows
  BY <1>1, WorldSame
<1>7. Keeps
  <2>1. \A j \in Import, s \in Slug : row'[j][s].attempts = row[j][s].attempts
    BY <1>4, <1>5
  <2> QED
    BY <1>1, <1>3, <1>6, <2>1, RowsRefl DEF Keeps, WorldGrows
<1>8. \A j \in Import : SameDone(j)
  BY <1>4, <1>5 DEF SameDone
<1>9. /\ \A j \in Import : imp'[j].status = "none" => \A s \in Slug : row'[j][s] = NoRow
      /\ \A j \in Import, s \in Slug : row'[j][s].created => row[j][s].created
      /\ \A j \in Import, s \in Slug : row'[j][s].status # "none" => s \in imp'[j].req.slugs
      /\ \A j \in Import : imp'[j].status = imp[j].status \/ imp'[j].status \notin {"success", "partial"}
  BY <1>3, <1>4, <1>5 DEF Inv, ImpOK, RowOK, Known
<1>10. ClientOK'
  <2>1. ClientTo(c, "launch") \/ ClientEnds(c)
    BY DEF StartResume
  <2> QED
    BY <1>1, <1>2, <1>3, <1>7, <2>1, ClientToMeans, ClientEndsMeans
<1>11. worker' \in [Worker -> {IdleWorker} \cup WorkType]
  BY <1>1 DEF Inv, WorkOK
<1> QED
  BY <1>1, <1>3, <1>5, <1>6, <1>7, <1>8, <1>9, <1>10, <1>11, CalmStep

\* A second goroutine on an import makes it shared; a first one has nothing in memory yet.
LEMMA LaunchInv == ASSUME Inv, NEW c \in Client, NEW w \in Worker, Launch(c, w) PROVE Inv'
<1>1. /\ client[c].pc = "launch" /\ client[c].pc # "idle" /\ ~Running(w) /\ ClientEnds(c)
      /\ UNCHANGED <<imp, row, project, forge>>
  BY DEF Launch, db, world
<1>2. PICK i \in Import : i = client[c].i /\ Known(i)
  BY <1>1, ClientMeans DEF Inv, ClientOK
<1>3. PICK p \in Proc : p = client[c].p
  BY <1>1, ClientMeans
<1> DEFINE v == [pc |-> "load", p |-> p, i |-> i, todo |-> {}, s |-> 1, row |-> NoRow, ours |-> FALSE]
<1>4. v \in WorkType /\ v.pc = "load" /\ v.i = i /\ v.todo = {}
  <2>1. 1 \in Slug /\ NoRow \in RepoType /\ "load" \in WorkerPc
    BY ImportsAssumption DEF Slug, NoRow, RepoType, WorkerPc
  <2> QED
    BY <2>1 DEF WorkType
<1>5. worker' = [worker EXCEPT ![w] = v]
  BY <1>2, <1>3 DEF Launch
<1> HIDE DEF v
<1>6. /\ worker' \in [Worker -> {IdleWorker} \cup WorkType] /\ worker'[w] = v
      /\ \A u \in Worker \ {w} : worker'[u] = worker[u]
  BY <1>4, <1>5 DEF Inv, WorkOK
<1>7. /\ shared \subseteq shared' /\ shared' \subseteq Import
      /\ (\E u \in Worker : Running(u) /\ worker[u].i = i) => i \in shared'
  BY <1>2 DEF Launch, Inv, WorldOK
<1>8. Keeps /\ \A j \in Import : SameDone(j)
  BY <1>1, <1>7, RowsRefl DEF Keeps, SameDone, Known
<1>9. row' \in [Import -> [Slug -> RepoType]]
  BY <1>1 DEF Inv, RowOK
<1>10. WorkOK'
  <2>1. \A u \in Worker \ {w} : Running(u)' <=> Running(u)
    BY <1>6 DEF Running
  <2>2. ASSUME NEW u \in Worker, NEW j \in Import, Running(u)', worker'[u].i = j PROVE WorkGood(u, j)'
    <3>1. CASE u = w
      BY <1>1, <1>2, <1>4, <1>6, <2>2, <3>1 DEF WorkGood, InHand, Tracks, Known
    <3>2. CASE u # w
      BY <1>6, <1>8, <1>9, <2>1, <2>2, <3>2, WorkGoodKept
    <3> QED
      BY <3>1, <3>2
  <2>3. ASSUME NEW u \in Worker, NEW x \in Worker, Running(u)', Running(x)', u # x, worker'[u].i = worker'[x].i
        PROVE  worker'[x].i \in shared'
    <3>1. CASE u # w /\ x # w
      BY <1>6, <1>7, <2>1, <2>3, <3>1 DEF Inv, WorkOK
    <3>2. CASE u = w
      BY <1>4, <1>6, <1>7, <2>1, <2>3, <3>2
    <3>3. CASE x = w
      BY <1>4, <1>6, <1>7, <2>1, <2>3, <3>3
    <3> QED
      BY <3>1, <3>2, <3>3
  <2> QED
    BY <1>6, <2>2, <2>3 DEF WorkOK
<1>11. ClientOK'
  BY <1>1, <1>8, ClientEndsMeans
<1>12. ImpOK' /\ RowOK' /\ WorldOK' /\ RowsAreTrue'
  BY <1>1, <1>7 DEF Inv, ImpOK, RowOK, WorldOK, RowsAreTrue, Known
<1>13. StatusIsTrue'
  BY <1>1, <1>7 DEF Inv, StatusIsTrue
<1> QED
  BY <1>10, <1>11, <1>12, <1>13 DEF Inv

LEMMA StopInv == ASSUME Inv, NEW p \in Proc, Stop(p) PROVE Inv'
<1>1. UNCHANGED <<imp, row, project, forge, shared, worker, client>>
  BY DEF Stop, db, world
<1>2. ClientOK'
  BY <1>1 DEF Inv, ClientOK, Known
<1> QED
  BY <1>1, <1>2, CalmWorkers

LEMMA DownInv == ASSUME Inv, NEW p \in Proc, Down(p) PROVE Inv'
<1>1. /\ UNCHANGED <<imp, row, project, forge, shared>>
      /\ client' = [c \in Client |-> IF client[c].pc # "idle" /\ client[c].p = p THEN IdleClient ELSE client[c]]
      /\ worker' = [w \in Worker |-> IF Running(w) /\ worker[w].p = p THEN IdleWorker ELSE worker[w]]
  BY DEF Down, db, world
<1>2. /\ worker' \in [Worker -> {IdleWorker} \cup WorkType]
      /\ \A w \in Worker : worker'[w] = worker[w] \/ worker'[w] = IdleWorker
  BY <1>1 DEF Inv, WorkOK
<1>3. /\ client' \in [Client -> {IdleClient} \cup ClientType]
      /\ \A c \in Client : client'[c] = client[c] \/ client'[c] = IdleClient
  BY <1>1 DEF Inv, ClientOK
<1>4. ClientOK'
  BY <1>1, <1>3 DEF Inv, ClientOK, Known, IdleClient
<1>5. WorldGrows /\ imp' \in [Import -> ImpType]
  BY <1>1, WorldSame DEF Inv, ImpOK
<1> QED
  BY <1>1, <1>2, <1>4, <1>5, CalmDb

LEMMA OlderInv ==
    ASSUME Inv, NEW i \in Import, GetsOlder(i), UNCHANGED <<row, project, forge, shared, worker, client>>
    PROVE  Inv'
<1>1. UNCHANGED <<row, project, forge, shared, worker, client>> /\ imp' = [imp EXCEPT ![i].age = @ + 1]
  BY DEF GetsOlder
<1>2. imp \in [Import -> ImpType] /\ imp[i] \in ImpType /\ imp[i].age \in Int
  BY DEF Inv, ImpOK, ImpType
<1>3. PICK age \in Int : age = imp[i].age + 1
  BY <1>2
<1> DEFINE v == [imp[i] EXCEPT !.age = age]
<1>4. v \in ImpType /\ v.status = imp[i].status /\ v.req = imp[i].req
  BY <1>2 DEF ImpType
<1>5. imp' = [imp EXCEPT ![i] = v]
  BY <1>1, <1>2, <1>3
<1> HIDE DEF v
<1>6. /\ imp' \in [Import -> ImpType]
      /\ \A j \in Import : imp'[j].status = imp[j].status /\ imp'[j].req = imp[j].req
  BY <1>2, <1>4, <1>5
<1>7. Keeps /\ WorldGrows
  BY <1>1, <1>6, RowsRefl, WorldSame DEF Keeps, Known
<1>8. ClientOK' /\ worker' \in [Worker -> {IdleWorker} \cup WorkType]
  <2>1. \A c \in Client : client[c].pc \in {"resume", "launch"} => client[c].i \in Import
    BY ClientMeans
  <2> QED
    BY <1>1, <1>6, <2>1 DEF Inv, ClientOK, WorkOK, Known
<1> QED
  BY <1>1, <1>6, <1>7, <1>8, CalmDb

LEMMA OthersCreateInv == ASSUME Inv, NEW s \in Slug, OthersCreate(s) PROVE Inv'
<1>1. /\ UNCHANGED <<imp, row, shared, worker, client>>
      /\ \/ project[s] = Nobody /\ project' = [project EXCEPT ![s] = Others] /\ UNCHANGED forge
         \/ forge[s] = Nobody /\ forge' = [forge EXCEPT ![s] = Others] /\ UNCHANGED project
  BY DEF OthersCreate, db
<1>2. WorldGrows
  BY <1>1 DEF Inv, WorldOK, WorldGrows, Maker
<1>3. /\ ClientOK' /\ imp' \in [Import -> ImpType] /\ worker' \in [Worker -> {IdleWorker} \cup WorkType]
  BY <1>1 DEF Inv, ClientOK, ImpOK, WorkOK, Known
<1> QED
  BY <1>1, <1>2, <1>3, CalmDb
LEMMA AgedRecord ==
    ASSUME NEW x \in ImpType, NEW st
    PROVE  [x EXCEPT !.age = 0, !.status = st] = [status |-> st, req |-> x.req, age |-> 0]
<1>1. [x EXCEPT !.age = 0] = [status |-> x.status, req |-> x.req, age |-> 0]
  BY DEF ImpType
<1>2. \A y, z : [[status |-> y, req |-> z, age |-> 0] EXCEPT !.status = st] = [status |-> st, req |-> z, age |-> 0]
  OBVIOUS
<1> QED
  BY <1>1, <1>2

\* An import that is taken for abandoned gets the status its rows add up to.
LEMMA InterruptedMeans ==
    ASSUME Inv, FailInterrupted, NEW i \in Import
    PROVE  \/ imp'[i] = imp[i] /\ row'[i] = row[i]
           \/ /\ Known(i) /\ row'[i] = Unsuccessful(i, "failed")
              /\ imp'[i] \in ImpType /\ imp'[i].req = imp[i].req
              /\ \/ imp'[i].status = "partial" /\ \E s \in Slug : row[i][s].status = "success"
                 \/ imp'[i].status = "failed"
<1>1. imp[i] \in ImpType
  BY DEF Inv, ImpOK
<1>2. PICK st \in {"partial", "failed"} :
         st = IF \E s \in Slug : row[i][s].status = "success" THEN "partial" ELSE "failed"
  OBVIOUS
<1> DEFINE v == [status |-> st, req |-> imp[i].req, age |-> 0]
<1>3. v \in ImpType /\ v.req = imp[i].req /\ v.status = st
  BY <1>1 DEF ImpType
<1>4. \/ imp'[i] = imp[i] /\ row'[i] = row[i]
      \/ Unfinished(i) /\ imp'[i] = v /\ row'[i] = Unsuccessful(i, "failed")
  <2>1. [imp[i] EXCEPT !.age = 0, !.status = st] = v
    BY <1>1, AgedRecord
  <2>2. \/ imp'[i] = imp[i] /\ row'[i] = row[i]
        \/ /\ Unfinished(i) /\ row'[i] = Unsuccessful(i, "failed")
           /\ imp'[i] = [imp[i] EXCEPT !.age = 0, !.status = st]
    BY <1>2 DEF FailInterrupted
  <2> QED
    BY <2>1, <2>2
<1> HIDE DEF v
<1>5. Unfinished(i) => Known(i)
  BY DEF Unfinished, Known
<1> QED
  BY <1>2, <1>3, <1>4, <1>5

LEMMA FailInterruptedInv ==
    ASSUME Inv, FailInterrupted, UNCHANGED <<project, forge, shared, worker, client>> PROVE Inv'
<1>1. imp' \in [Import -> ImpType] /\ row' \in [Import -> [Slug -> RepoType]]
  <2>1. \A i \in Import : imp'[i] \in ImpType
    BY InterruptedMeans DEF Inv, ImpOK
  <2>2. \A i \in Import : row'[i] \in [Slug -> RepoType]
    BY InterruptedMeans, UnsuccessfulMeans DEF Inv, RowOK
  <2>3. imp' = [i \in Import |-> imp'[i]] /\ row' = [i \in Import |-> row'[i]]
    BY DEF FailInterrupted
  <2> QED
    BY <2>1, <2>2, <2>3
<1>2. ASSUME NEW i \in Import
      PROVE  /\ imp'[i].req = imp[i].req
             /\ imp'[i].status = "none" <=> imp[i].status = "none"
             /\ imp'[i].status = imp[i].status \/ imp'[i].status = "failed"
                \/ (imp'[i].status = "partial" /\ \E s \in Slug : row[i][s].status = "success")
  BY InterruptedMeans DEF Known
<1>3. ASSUME NEW i \in Import, NEW s \in Slug
      PROVE  /\ row'[i][s].created = row[i][s].created
             /\ row'[i][s].attempts = row[i][s].attempts
             /\ row'[i][s].status = "success" <=> row[i][s].status = "success"
             /\ row'[i][s].status = "none" <=> row[i][s].status = "none"
             /\ row[i][s].status = "none" => row'[i][s] = row[i][s]
  <2>1. CASE row'[i] = row[i]
    BY <2>1
  <2>2. CASE row'[i] = Unsuccessful(i, "failed")
    BY <2>2, UnsuccessfulMeans
  <2> QED
    BY <2>1, <2>2, InterruptedMeans
<1>4. \A i \in Import : SameDone(i)
  BY <1>3 DEF SameDone
<1>5. WorldGrows
  BY WorldSame
<1>6. Keeps
  <2>1. \A i \in Import, s \in Slug : row'[i][s].attempts >= row[i][s].attempts
    BY <1>3, RowsRefl
  <2>2. \A i \in Import : Known(i) => imp'[i].status # "none" /\ imp'[i].req = imp[i].req
    BY <1>2 DEF Known
  <2> QED
    BY <1>5, <2>1, <2>2 DEF Keeps, WorldGrows
<1>7. ClientOK'
  <2>1. \A c \in Client : client[c].pc \in {"resume", "launch"} => client[c].i \in Import
    BY ClientMeans
  <2> QED
    BY <1>2, <2>1 DEF Inv, ClientOK, Known
<1>8. \A i \in Import : imp'[i].status = "none" => \A s \in Slug : row'[i][s] = NoRow
  <2> SUFFICES ASSUME NEW i \in Import, imp'[i].status = "none", NEW s \in Slug PROVE row'[i][s] = NoRow
    OBVIOUS
  <2>1. row[i][s] = NoRow
    BY <1>2 DEF Inv, ImpOK, Known
  <2> QED
    BY <1>3, <2>1 DEF NoRow
<1>9. \A i \in Import, s \in Slug : row'[i][s].status # "none" => s \in imp'[i].req.slugs
  BY <1>2, <1>3 DEF Inv, RowOK
<1>10. \A i \in Import : imp'[i].status = imp[i].status \/ imp'[i].status \notin {"success", "partial"} \/ Agrees(i)'
  <2> SUFFICES ASSUME NEW i \in Import, imp'[i].status = "partial", \E s \in Slug : row[i][s].status = "success"
               PROVE  Agrees(i)'
    BY <1>2
  <2>1. PICK s \in Slug : row[i][s].status = "success"
    OBVIOUS
  <2>2. s \in imp'[i].req.slugs /\ row'[i][s].status = "success"
    BY <1>2, <1>3, <2>1 DEF Inv, RowOK
  <2> QED
    BY <2>2 DEF Agrees, Done
<1>11. worker' \in [Worker -> {IdleWorker} \cup WorkType]
  BY DEF Inv, WorkOK
<1>12. \A i \in Import, s \in Slug : row'[i][s].created => row[i][s].created
  BY <1>3
<1> QED
  BY <1>1, <1>4, <1>5, <1>6, <1>7, <1>8, <1>9, <1>10, <1>11, <1>12, CalmStep

LEMMA RecoverInv == ASSUME Inv, NEW p \in Proc, Recover(p) PROVE Inv'
<1>1. UNCHANGED <<project, forge, shared, worker, client>>
  BY DEF Recover, world
<1>2. CASE FailInterrupted
  BY <1>1, <1>2, FailInterruptedInv
<1>3. CASE UNCHANGED db
  <2>1. ClientOK'
    BY <1>1, <1>3 DEF Inv, ClientOK, Known, db
  <2> QED
    BY <1>1, <1>3, <2>1, CalmWorkers DEF db
<1> QED
  BY <1>2, <1>3 DEF Recover
-----------------------------------------------------------------------------
(* The theorem.                                                            *)

LEMMA InitInv == Init => Inv
<1> SUFFICES ASSUME Init PROVE Inv
  OBVIOUS
<1>1. NoImport \in ImpType /\ NoImport.status = "none" /\ NoRow \in RepoType
  BY DEF NoImport, NoRow, ImpType, RepoType, ReqType
<1>2. imp \in [Import -> ImpType] /\ \A i \in Import : imp[i].status = "none"
  BY <1>1 DEF Init
<1>3. row \in [Import -> [Slug -> RepoType]] /\ \A i \in Import, s \in Slug : row[i][s] = NoRow
  BY <1>1 DEF Init
<1>4. ImpOK /\ RowOK
  BY <1>2, <1>3 DEF ImpOK, RowOK, NoRow
<1>5. WorldOK
  BY DEF Init, WorldOK, Maker
<1>6. ClientOK /\ WorkOK
  BY DEF Init, ClientOK, WorkOK, IdleClient, IdleWorker, Running
<1>7. RowsAreTrue /\ StatusIsTrue
  BY <1>2, <1>3 DEF RowsAreTrue, StatusIsTrue, NoRow
<1> QED
  BY <1>4, <1>5, <1>6, <1>7 DEF Inv

LEMMA NextInv == Inv /\ [Next]_vars => Inv'
<1> SUFFICES ASSUME Inv, [Next]_vars PROVE Inv'
  OBVIOUS
<1>1. ASSUME NEW c \in Client, Handle(c) \/ StartFails(c) PROVE Inv'
  BY <1>1, StartCreateInv, StartResumeInv, LaunchInv, StartFailsInv DEF Handle
<1>2. ASSUME NEW c \in Client, NEW p \in Proc, NEW i \in Import, NEW q \in Request, Start(c, p, i, q) PROVE Inv'
  BY <1>2, StartInv
<1>8. ASSUME NEW w \in Worker, ForgeSlow(w) PROVE Inv'
  <2>1. worker[w].pc # "idle"
    BY <1>8 DEF ForgeSlow
  <2>2. worker[w] \in {IdleWorker} \cup WorkType /\ worker[w] # IdleWorker
    BY <2>1 DEF Inv, WorkOK, IdleWorker
  <2>3. worker[w].i \in Import
    BY <2>2 DEF WorkType
  <2> QED
    BY <1>8, <2>3, OlderInv DEF ForgeSlow, Mine, world
<1>3. ASSUME NEW w \in Worker, Step(w) \/ Panic(w) PROVE Inv'
  BY <1>3, LoadInv, MarkRunningInv, BeginRepoInv, GitHubRepoInv, GetBySlugInv, CreateProjectInv, LinkProjectInv,
     GetRepoInv, MigrateInv, MarkReadyInv, SaveInv, FailInv, FinalInv, SetFinalInv, PanicInv DEF Step
<1>4. ASSUME NEW p \in Proc, Stop(p) \/ Down(p) \/ Recover(p) PROVE Inv'
  BY <1>4, StopInv, DownInv, RecoverInv
<1>5. ASSUME NEW i \in Import, TimePasses(i) PROVE Inv'
  BY <1>5, OlderInv DEF TimePasses, world
<1>6. ASSUME NEW s \in Slug, OthersCreate(s) PROVE Inv'
  BY <1>6, OthersCreateInv
<1>7. CASE UNCHANGED vars
  <2>1. UNCHANGED <<imp, row, project, forge, shared, worker, client>>
    BY <1>7 DEF vars
  <2>2. ClientOK'
    BY <2>1 DEF Inv, ClientOK, Known
  <2> QED
    BY <2>1, <2>2, CalmWorkers
<1> QED
  BY <1>1, <1>2, <1>3, <1>4, <1>5, <1>6, <1>7, <1>8 DEF Next

LEMMA InvAlways == Spec => []Inv
BY InitInv, NextInv, PTL DEF Spec

-----------------------------------------------------------------------------
(* The rest of TypeOK: what only the bounds, the processes and the clock   *)
(* write.                                                                  *)

BoundsOK == asks \in 0..MaxAsks /\ faults \in 0..MaxFaults
AgesOK == \A i \in Import : imp[i].age \in Age
PlacesOK == ready \subseteq Slug /\ proc \in [Proc -> {"up", "stopping", "down"}] /\ live \in [Proc -> SUBSET Import]

TypesInv == Inv /\ BoundsOK /\ AgesOK /\ PlacesOK

LEMMA FaultBound == ASSUME BoundsOK, Fault PROVE faults' \in 0..MaxFaults
BY ImportsAssumption DEF BoundsOK, Fault

LEMMA NextBounds == ASSUME BoundsOK, [Next]_vars PROVE BoundsOK'
<1>1. asks' = asks \/ (asks > 0 /\ asks' = asks - 1)
  <2>1. ASSUME NEW c \in Client, Handle(c) \/ StartFails(c) PROVE asks' = asks
    BY <2>1 DEF Handle, StartCreate, StartResume, Launch, StartFails, bounds
  <2>2. ASSUME NEW w \in Worker, Step(w) \/ Panic(w) \/ ForgeSlow(w) PROVE asks' = asks
    BY <2>2 DEF Step, Load, MarkRunning, BeginRepo, GitHubRepo, GetBySlug, CreateProject, LinkProject, GetRepo, Migrate,
                MarkReady, Save, Fail, Final, SetFinal, Panic, ForgeSlow, Mine
  <2>3. ASSUME NEW p \in Proc, Stop(p) \/ Down(p) \/ Recover(p) PROVE asks' = asks
    BY <2>3 DEF Stop, Down, Recover
  <2> QED
    BY <2>1, <2>2, <2>3 DEF Next, Start, TimePasses, OthersCreate, bounds, vars
<1>2. faults' = faults \/ Fault
  <2>1. ASSUME NEW c \in Client, Handle(c) \/ StartFails(c) PROVE faults' = faults \/ Fault
    BY <2>1 DEF Handle, StartCreate, StartResume, Launch, StartFails, bounds
  <2>2. ASSUME NEW w \in Worker, Step(w) \/ Panic(w) \/ ForgeSlow(w) PROVE faults' = faults \/ Fault
    BY <2>2 DEF Step, Load, MarkRunning, BeginRepo, GitHubRepo, GetBySlug, CreateProject, LinkProject, GetRepo, Migrate,
                MarkReady, Save, Fail, Final, SetFinal, Panic, ForgeSlow, EndRepo, Works, Breaks, Saves
  <2>3. ASSUME NEW p \in Proc, Stop(p) \/ Down(p) \/ Recover(p) PROVE faults' = faults \/ Fault
    BY <2>3 DEF Stop, Down, Recover
  <2> QED
    BY <2>1, <2>2, <2>3 DEF Next, Start, TimePasses, OthersCreate, bounds, vars
<1> QED
  BY <1>1, <1>2, FaultBound, ImportsAssumption DEF BoundsOK

\* A step touches an import, leaves its age alone, or makes it older by one while it is below the last.
LEMMA NextAges == ASSUME Inv, AgesOK, [Next]_vars PROVE AgesOK'
<1>0. imp \in [Import -> ImpType] /\ 0 \in Age
  BY DEF Inv, ImpOK, Age
<1>1. ASSUME NEW i, NEW status, imp' = Touched(i, status) PROVE AgesOK'
  BY <1>0, <1>1 DEF AgesOK, Touched, ImpType
<1>2. ASSUME NEW i, Touch(i) PROVE AgesOK'
  BY <1>0, <1>2 DEF AgesOK, Touch, ImpType
<1>3. ASSUME UNCHANGED imp PROVE AgesOK'
  BY <1>3 DEF AgesOK
<1>4. ASSUME NEW i, GetsOlder(i), imp[i].age < 2 PROVE AgesOK'
  BY <1>0, <1>4 DEF AgesOK, GetsOlder, Age, ImpType
<1>5. ASSUME NEW i, NEW q, CreateImport(i, q) PROVE AgesOK'
  BY <1>0, <1>5 DEF AgesOK, CreateImport
<1>6. ASSUME FailInterrupted PROVE AgesOK'
  BY <1>0, <1>6 DEF AgesOK, FailInterrupted, ImpType
<1>7. ASSUME NEW c \in Client, Handle(c) \/ StartFails(c) PROVE AgesOK'
  BY <1>1, <1>3, <1>5, <1>7 DEF Handle, StartCreate, StartResume, Launch, StartFails, Resume, db
<1>8. ASSUME NEW w \in Worker, Step(w) \/ Panic(w) PROVE AgesOK'
  BY <1>1, <1>2, <1>3, <1>8 DEF Step, Load, MarkRunning, BeginRepo, GitHubRepo, GetBySlug, CreateProject, LinkProject,
     GetRepo, Migrate, MarkReady, Save, Fail, Final, SetFinal, Panic, EndRepo, SetStatus, db
<1>9. ASSUME NEW w \in Worker, ForgeSlow(w) PROVE AgesOK'
  BY <1>4, <1>9 DEF ForgeSlow
<1>10. ASSUME NEW p \in Proc, Stop(p) \/ Down(p) \/ Recover(p) PROVE AgesOK'
  BY <1>3, <1>6, <1>10 DEF Stop, Down, Recover, db
<1>11. ASSUME NEW i \in Import, TimePasses(i) PROVE AgesOK'
  BY <1>4, <1>11 DEF TimePasses
<1> QED
  BY <1>3, <1>7, <1>8, <1>9, <1>10, <1>11 DEF Next, Start, OthersCreate, db, vars

\* Whoever runs somewhere is one of the processes, and what it runs one of the imports.
LEMMA Placed ==
    ASSUME Inv
    PROVE  /\ \A w \in Worker : worker[w].pc # "idle" => worker[w].p \in Proc /\ worker[w].i \in Import /\ worker[w].s \in Slug
           /\ \A c \in Client : client[c].pc # "idle" => client[c].p \in Proc /\ client[c].i \in Import
<1>1. ASSUME NEW w \in Worker, worker[w].pc # "idle" PROVE worker[w] \in WorkType
  BY <1>1 DEF Inv, WorkOK, IdleWorker
<1>2. ASSUME NEW c \in Client, client[c].pc # "idle" PROVE client[c] \in ClientType
  BY <1>2 DEF Inv, ClientOK, IdleClient
<1> QED
  BY <1>1, <1>2 DEF WorkType, ClientType

LEMMA NextPlaces == ASSUME Inv, PlacesOK, [Next]_vars PROVE PlacesOK'
<1>1. ASSUME NEW w \in Worker, Exit(w), UNCHANGED <<ready, proc>> PROVE PlacesOK'
  BY <1>1 DEF PlacesOK, Exit
<1>2. ASSUME UNCHANGED <<ready, proc, live>> PROVE PlacesOK'
  BY <1>2 DEF PlacesOK
<1>3. ASSUME NEW c \in Client, Handle(c) \/ StartFails(c) PROVE PlacesOK'
  <2>1. ASSUME NEW w \in Worker, Launch(c, w) PROVE PlacesOK'
    <3>1. client[c].p \in Proc /\ client[c].i \in Import
      BY <2>1, Placed DEF Launch
    <3>2. live' = [live EXCEPT ![client[c].p] = @ \cup {client[c].i}] /\ UNCHANGED <<ready, proc>>
      BY <2>1 DEF Launch, world
    <3> QED
      BY <3>1, <3>2 DEF PlacesOK
  <2> QED
    BY <1>2, <1>3, <2>1 DEF Handle, StartCreate, StartResume, StartFails, world
<1>4. ASSUME NEW w \in Worker, Step(w) \/ Panic(w) \/ ForgeSlow(w) PROVE PlacesOK'
  <2>1. CASE MarkReady(w)
    <3>1. worker[w].s \in Slug
      BY <2>1, Placed DEF MarkReady
    <3> QED
      BY <2>1, <3>1 DEF MarkReady, Mine, PlacesOK
  <2>2. CASE Load(w) \/ Final(w) \/ SetFinal(w) \/ Panic(w)
    BY <1>1, <1>2, <2>2 DEF Load, Final, SetFinal, Panic, Mine, world
  <2>3. CASE MarkRunning(w) \/ BeginRepo(w) \/ GitHubRepo(w) \/ GetBySlug(w) \/ CreateProject(w) \/ LinkProject(w)
             \/ GetRepo(w) \/ Migrate(w) \/ Save(w) \/ Fail(w) \/ ForgeSlow(w)
    BY <1>2, <2>3 DEF MarkRunning, BeginRepo, GitHubRepo, GetBySlug, CreateProject, LinkProject, GetRepo, Migrate, Save,
                      Fail, ForgeSlow, Mine, world
  <2> QED
    BY <1>4, <2>1, <2>2, <2>3 DEF Step
<1>5. ASSUME NEW p \in Proc, Stop(p) \/ Down(p) \/ Recover(p) PROVE PlacesOK'
  BY <1>5 DEF Stop, Down, Recover, PlacesOK, world
<1> QED
  BY <1>2, <1>3, <1>4, <1>5 DEF Next, Start, TimePasses, OthersCreate, world, vars

\* Every reachable state of the imports is type correct: a goroutine, a request and the live list of a process
\* name processes, imports and repositories that exist, whoever created, resumed or recovered them.
THEOREM ImportsTypeCorrect == Spec => []TypeOK
<1>1. Init => TypesInv
  BY InitInv, ImportsAssumption DEF Init, TypesInv, BoundsOK, AgesOK, PlacesOK, NoImport, Age
<1>2. TypesInv /\ [Next]_vars => TypesInv'
  BY NextInv, NextBounds, NextAges, NextPlaces DEF TypesInv
<1>3. TypesInv => TypeOK
  <2> SUFFICES ASSUME TypesInv PROVE TypeOK
    OBVIOUS
  <2>1. imp \in [Import -> [status : {"none", "queued", "running", "partial", "success", "failed"},
                           req : Request \cup {NoImport.req}, age : Age]]
    BY DEF TypesInv, Inv, ImpOK, ImpType, ReqType, AgesOK
  <2> QED
    BY <2>1 DEF TypesInv, TypeOK, Inv, RowOK, WorldOK, ClientOK, WorkOK, RepoType, RowType, ClientType, WorkType, BoundsOK, PlacesOK
<1> QED
  BY <1>1, <1>2, <1>3, PTL DEF Spec

\* What an import reports is so for any number of keys, repositories, processes, requests, goroutines, faults
\* and other people's projects: a row that run and runRepo leave as "success" names a repository this import
\* migrated, or one that was there when a later attempt came back to a project an earlier one had made; and
\* "success" and "partial" agree with the rows across resumes, stops, crashes, panics and Recover, unless two
\* goroutines ran the import at once.
THEOREM ReportsTrue == Spec => []ReportsAreTrue
<1>1. Inv => ReportsAreTrue
  BY DEF Inv, ReportsAreTrue
<1> QED
  BY <1>1, InvAlways, PTL
=============================================================================

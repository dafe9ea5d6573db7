-------------------------- MODULE PromotionsProofs --------------------------
(***************************************************************************)
(* Theorems about Promotions, for any number of environments, people,      *)
(* requests, policy changes and server processes.                          *)
(*                                                                         *)
(* Type correctness (TypeInv) comes first.                                 *)
(*                                                                         *)
(* Queue and finality follow from what one step may do to the promotions   *)
(* (RowStep): it changes one row, never one that is final, and makes it    *)
(* deploying only when the environment's slot is free; or it expires       *)
(* waiting rows.                                                           *)
(*                                                                         *)
(* Quorum, duplicates, source environment and history rest on Strong: what *)
(* requests, policy changes and loops remember (Seen) stays true of rows   *)
(* and policies that only grow, so a write from an old read (Effect) still *)
(* keeps what the rows promise (RowsTrue).                                 *)
(*                                                                         *)
(* What a success was and how many deployments a promotion makes are proved*)
(* for one process: Alone adds that a loop owns the deployment it is about *)
(* to save (LoopsOwn) and charges every deployment to its row, to a pending*)
(* save or to a fault (Ledger).                                            *)
(***************************************************************************)
EXTENDS Promotions, TLAPS, FiniteSetTheorems

(* Type correctness by parts: what the records in flight hold at each stage. *)

ReqShape(r) ==
    /\ r \in ReqType
    /\ r.kind = "create" => r.env \in Env /\ r.pol \in Policies
    /\ r.kind \in {"approve", "reject"} => r.promo \in Promo /\ r.user \in User /\ r.pol \in Policies

PutShape(r) ==
    /\ r \in PutType
    /\ r.pc # "idle" => r.env \in Env /\ r.pol \in Policies

TickShape(t) ==
    /\ t \in TickType
    /\ t.pc \in {"claim", "launch", "save"} => t.cur \in Promo

RowsOK ==
    /\ promo \in [Promo -> Promotion]
    /\ hist \in [Promo -> [status : HistoryStatus, dep : Dep \cup {NoDep}]]

DepsOK == deps \in [Dep -> [status : {"none", "open", "success", "failed", "cancelled"},
                            promo : Promo \cup {0}, src : Source \cup {NoSource}]]

RulesOK == policy \in [Env -> Policies] /\ inForce \in [Env -> SUBSET Policies]
OutsideOK == /\ now \in 0..MaxNow /\ clear \subseteq Sha /\ stored \in [Sha -> Source \cup {NoSource}]
             /\ changes \in 0..MaxChanges
FaultsOK == faults \in 0..MaxFaults
ReqOK == req \in [Client -> ReqType] /\ \A c \in Client : ReqShape(req[c])
PutOK == put \in [Admin -> PutType] /\ \A a \in Admin : PutShape(put[a])
TickOK == tick \in [Proc -> TickType] /\ \A pr \in Proc : TickShape(tick[pr])

TypeInv ==
    RowsOK /\ DepsOK /\ RulesOK /\ OutsideOK /\ FaultsOK /\ ReqOK /\ PutOK /\ TickOK

-----------------------------------------------------------------------------
(* The rows.                                                               *)

USE DEF NoDep, NoTime

LEMMA NoPromoType == NoPromo \in Promotion
BY ConstantsAssumption DEF NoPromo, Promotion, Status, Instant, Requester, Promo, Dep

LEMMA StatusTypes ==
    /\ Waitable \subseteq Active /\ Active \subseteq Status /\ Final \subseteq Status
    /\ \A st \in Status : EnvDeploymentStatus(st) \in HistoryStatus
BY DEF Waitable, Active, Final, Status, HistoryStatus, EnvDeploymentStatus

LEMMA NextAfterQuorumType ==
    ASSUME NEW pol, NEW q, NEW t
    PROVE  NextAfterQuorum(pol, q, t) \in {"waiting", "approved"}
BY DEF NextAfterQuorum

LEMMA AdvancedType ==
    ASSUME NEW pol, NEW old \in Promotion, NEW t \in 0..MaxNow, NEW row \in Promotion
    PROVE  Advanced(pol, old, t, row) \in Promotion
<1>1. t \in Instant
  BY ConstantsAssumption DEF Instant
<1>2. Advance(pol, old, t).status \in Status
  BY NextAfterQuorumType, StatusTypes DEF Advance, Promotion, Active, Waitable
<1>3. Advance(pol, old, t).quorumAt \in Instant \cup {NoTime}
  BY <1>1 DEF Advance, Promotion
<1> QED
  BY <1>2, <1>3 DEF Advanced, Promotion

LEMMA WriteType ==
    ASSUME RowsOK, NEW p \in Promo, NEW row \in Promotion, Write(p, row)
    PROVE  RowsOK'
<1>1. row.status \in Status /\ row.dep \in Dep \cup {NoDep}
  BY DEF Promotion
<1> QED
  BY <1>1, StatusTypes DEF RowsOK, Write

LEMMA StatusWriteType ==
    ASSUME RowsOK, NEW p \in Promo, NEW st \in Status, Write(p, [promo[p] EXCEPT !.status = st])
    PROVE  RowsOK'
<1>1. [promo[p] EXCEPT !.status = st] \in Promotion
  BY DEF RowsOK, Promotion
<1> QED
  BY <1>1, WriteType

LEMMA CheckStaticType ==
    ASSUME RowsOK, DepsOK, OutsideOK, NEW pol, NEW sha \in Sha, NEW from
    PROVE  CheckStatic(pol, sha, from) \in Source \cup {NoSource}
<1>1. \A e : SuccessfulSHA(e, sha) \in Source \cup {NoSource}
  BY DEF SuccessfulSHA, RowsOK, DepsOK
<1> QED
  BY <1>1 DEF CheckStatic, OutsideOK

LEMMA FaultType ==
    ASSUME FaultsOK, Fault \/ NoFault
    PROVE  FaultsOK'
BY ConstantsAssumption DEF FaultsOK, Fault, NoFault

LEMMA ChangeType ==
    ASSUME OutsideOK, Change
    PROVE  changes' \in 0..MaxChanges
BY ConstantsAssumption DEF OutsideOK, Change

LEMMA RestShapes ==
    /\ ReqShape(NoReq) /\ PutShape(NoPut) /\ TickShape(TickIdle)
    /\ NoReq.kind = "none" /\ NoPut.pc = "idle" /\ TickIdle.pc = "idle" /\ TickIdle.todo = {}
<1>1. NoReq \in ReqType /\ NoReq.kind = "none"
  BY ConstantsAssumption DEF NoReq, ReqType, Requester
<1>2. NoPut \in PutType /\ NoPut.pc = "idle"
  BY ConstantsAssumption, NoPromoType DEF NoPut, PutType
<1>3. TickIdle \in TickType /\ TickIdle.pc = "idle" /\ TickIdle.ready = {} /\ TickIdle.todo = {}
  BY ConstantsAssumption, NoPromoType DEF TickIdle, TickType
<1> QED
  BY <1>1, <1>2, <1>3 DEF ReqShape, PutShape, TickShape

\* Replacing one record keeps its function well formed.
LEMMA ReqUpdate ==
    ASSUME ReqOK, NEW c \in Client, NEW r, ReqShape(r), req' = [req EXCEPT ![c] = r]
    PROVE  ReqOK'
BY DEF ReqOK, ReqShape

LEMMA PutUpdate ==
    ASSUME PutOK, NEW a \in Admin, NEW r, PutShape(r), put' = [put EXCEPT ![a] = r]
    PROVE  PutOK'
BY DEF PutOK, PutShape

LEMMA TickUpdate ==
    ASSUME TickOK, NEW pr \in Proc, NEW t, TickShape(t), tick' = [tick EXCEPT ![pr] = t]
    PROVE  TickOK'
BY DEF TickOK, TickShape

\* Single fields of the records.
LEMMA PutFields ==
    ASSUME NEW r \in PutType
    PROVE  /\ r.env \in Env \cup {NoEnv} /\ r.at \in 0..MaxNow /\ r.todo \in SUBSET Promo
           /\ \A p \in Promo : r.snap[p] \in Promotion
           /\ \A S \in SUBSET Promo : [r EXCEPT !.todo = S] \in PutType
BY DEF PutType

LEMMA TickFields ==
    ASSUME NEW t \in TickType
    PROVE  /\ t.at \in 0..MaxNow /\ t.todo \in SUBSET Promo /\ t.ready \in SUBSET Promo
           /\ t.busy \in SUBSET Env /\ t.cache \in [Env -> Policies \cup {Unread, Failed}]
           /\ \A p \in Promo : /\ t.snap[p] \in Promotion /\ t.snap[p].env \in Env
                               /\ t.snap[p].src \in Source \cup {NoSource}
BY DEF TickType, Promotion

LEMMA TickAt ==
    ASSUME TickOK, NEW pr \in Proc
    PROVE  /\ tick[pr] \in TickType
           /\ tick[pr].pc \in {"claim", "launch", "save"} => tick[pr].cur \in Promo
BY DEF TickOK, TickShape

-----------------------------------------------------------------------------
(* Type correctness.                                                       *)

LEMMA TypeInvImpliesTypeOK == TypeInv => TypeOK
BY DEF TypeInv, TypeOK, RowsOK, DepsOK, RulesOK, OutsideOK, FaultsOK, ReqOK, PutOK, TickOK

LEMMA InitTypeInv == Init => TypeInv
<1> SUFFICES ASSUME Init PROVE TypeInv
  OBVIOUS
<1>1. RowsOK
  BY NoPromoType DEF Init, RowsOK, HistoryStatus, Status
<1>2. ReqOK /\ PutOK /\ TickOK
  BY RestShapes DEF Init, ReqOK, PutOK, TickOK, ReqShape, PutShape, TickShape
<1>3. DepsOK /\ RulesOK /\ OutsideOK /\ FaultsOK
  BY ConstantsAssumption DEF Init, DepsOK, RulesOK, OutsideOK, FaultsOK
<1> QED
  BY <1>1, <1>2, <1>3 DEF TypeInv

\* What an action leaves alone stays well formed.
LEMMA Frame ==
    /\ OutsideOK /\ UNCHANGED outside => OutsideOK'
    /\ RulesOK /\ UNCHANGED rules => RulesOK'
    /\ RowsOK /\ UNCHANGED rows => RowsOK'
    /\ DepsOK /\ UNCHANGED deps => DepsOK'
    /\ ReqOK /\ UNCHANGED req => ReqOK'
    /\ PutOK /\ UNCHANGED put => PutOK'
    /\ TickOK /\ UNCHANGED tick => TickOK'
    /\ FaultsOK /\ UNCHANGED faults => FaultsOK'
<1>1. OutsideOK /\ UNCHANGED outside => OutsideOK'
  BY DEF OutsideOK, outside
<1>2. RulesOK /\ UNCHANGED rules => RulesOK'
  BY DEF RulesOK, rules
<1>3. RowsOK /\ UNCHANGED rows => RowsOK'
  BY DEF RowsOK, rows
<1>4. DepsOK /\ UNCHANGED deps => DepsOK'
  BY DEF DepsOK
<1>5. ReqOK /\ UNCHANGED req => ReqOK'
  BY DEF ReqOK
<1>6. PutOK /\ UNCHANGED put => PutOK'
  BY DEF PutOK
<1>7. TickOK /\ UNCHANGED tick => TickOK'
  BY DEF TickOK
<1>8. FaultsOK /\ UNCHANGED faults => FaultsOK'
  BY DEF FaultsOK
<1> QED
  BY <1>1, <1>2, <1>3, <1>4, <1>5, <1>6, <1>7, <1>8

\* A Transition that only changes the status.
LEMMA StatusTransitionType ==
    ASSUME RowsOK, NEW p \in Promo, NEW from, NEW st \in Status,
           \/ Transition(p, from, [promo[p] EXCEPT !.status = st])
           \/ Refused(p, from, st)
    PROVE  RowsOK'
BY StatusWriteType, Frame DEF Transition, Refused

\* The API requests.
LEMMA CreateLoadType ==
    ASSUME TypeInv, NEW c \in Client, NEW u \in Requester, NEW e \in Env, NEW sha \in Sha,
           NEW from \in Env \cup {NoEnv}, NEW key \in Key \cup {NoKey},
           CreateLoad(c, u, e, sha, from, key)
    PROVE  TypeInv'
<1> DEFINE src == CheckStatic(policy[e], sha, from)
           r == [NoReq EXCEPT !.kind = "create", !.user = u, !.env = e, !.sha = sha, !.from = from,
                   !.key = key, !.pol = policy[e], !.src = src, !.at = now]
<1>1. policy[e] \in Policies /\ now \in 0..MaxNow
  BY DEF TypeInv, RulesOK, OutsideOK
<1>2. src \in Source \cup {NoSource}
  BY CheckStaticType DEF TypeInv
<1> HIDE DEF src
<1>3. NoReq \in ReqType
  BY RestShapes DEF ReqShape
<1>4. r \in ReqType /\ r.kind = "create" /\ r.env = e /\ r.pol = policy[e]
  BY <1>1, <1>2, <1>3 DEF ReqType
<1>5. req' = [req EXCEPT ![c] = r]
  BY DEF CreateLoad, src
<1> HIDE DEF r
<1>6. ReqOK'
  BY <1>1, <1>4, <1>5, ReqUpdate DEF ReqShape, TypeInv
<1> QED
  BY <1>6, Frame DEF TypeInv, CreateLoad

LEMMA CreateInsertType ==
    ASSUME TypeInv, NEW c \in Client, CreateInsert(c)
    PROVE  TypeInv'
<1>1. ReqOK'
  BY RestShapes, ReqUpdate DEF TypeInv, CreateInsert
<1>2. ReqShape(req[c]) /\ req[c].kind = "create"
  BY DEF TypeInv, ReqOK, CreateInsert
<1>3. NewRow(req[c]) \in Promotion
  <2>1. /\ req[c].at \in Instant /\ req[c].at + Expiry \in Instant
        /\ "pending_approval" \in Status /\ {"waiting", "approved"} \subseteq Status
    BY <1>2, ConstantsAssumption DEF ReqShape, ReqType, Instant, Status, Active, Waitable
  <2>2. NextAfterQuorum(req[c].pol, req[c].at, req[c].at) \in Status
    BY <2>1, NextAfterQuorumType
  <2>3. /\ req[c].env \in Env /\ req[c].sha \in Sha /\ req[c].from \in Env \cup {NoEnv}
        /\ req[c].user \in Requester /\ req[c].key \in Key \cup {NoKey}
        /\ req[c].src \in Source \cup {NoSource}
    BY <1>2 DEF ReqShape, ReqType
  <2> QED
    BY <2>1, <2>2, <2>3 DEF NewRow, Promotion
<1>4. RowsOK'
  BY <1>3, WriteType, Frame DEF TypeInv, CreateInsert
<1> QED
  BY <1>1, <1>4, Frame DEF TypeInv, CreateInsert

LEMMA DecideLoadType ==
    ASSUME TypeInv, NEW c \in Client, NEW u \in User, NEW p \in Promo, NEW approve \in BOOLEAN,
           DecideLoad(c, u, p, approve)
    PROVE  TypeInv'
<1> DEFINE pol == policy[promo[p].env]
           kind == IF approve THEN "approve" ELSE "reject"
           r == [NoReq EXCEPT !.kind = kind, !.user = u, !.promo = p, !.pol = pol, !.at = now]
<1>1. pol \in Policies /\ now \in 0..MaxNow
  BY DEF TypeInv, RulesOK, OutsideOK, RowsOK, Promotion
<1>2. kind \in {"approve", "reject"}
  OBVIOUS
<1>3. NoReq \in ReqType
  BY RestShapes DEF ReqShape
<1>4. req' = [req EXCEPT ![c] = r]
  BY DEF DecideLoad
<1> HIDE DEF pol, kind
<1>5. r \in ReqType /\ r.kind = kind /\ r.promo = p /\ r.user = u /\ r.pol = pol
  BY <1>1, <1>2, <1>3 DEF ReqType, Requester
<1> HIDE DEF r
<1>6. ReqOK'
  BY <1>1, <1>2, <1>4, <1>5, ReqUpdate DEF ReqShape, TypeInv
<1> QED
  BY <1>6, Frame DEF TypeInv, DecideLoad

LEMMA ApprovedType ==
    ASSUME NEW d \in ReqType, d.user \in User, NEW row \in Promotion
    PROVE  Approved(d, row) \in Promotion
<1> DEFINE next == [row EXCEPT !.approvals = @ \cup {d.user}]
<1>1. next \in Promotion
  BY DEF Promotion
<1>2. d.at \in Instant /\ {"waiting", "approved"} \subseteq Status
  BY ConstantsAssumption DEF ReqType, Instant, Status, Active, Waitable
<1>3. NextAfterQuorum(d.pol, d.at, d.at) \in Status
  BY <1>2, NextAfterQuorumType
<1>4. [next EXCEPT !.status = NextAfterQuorum(d.pol, d.at, d.at), !.quorumAt = d.at] \in Promotion
  <2> HIDE DEF next
  <2> QED BY <1>1, <1>2, <1>3 DEF Promotion
<1> QED
  BY <1>1, <1>4 DEF Approved

LEMMA AddDecisionType ==
    ASSUME TypeInv, NEW c \in Client, AddDecision(c)
    PROVE  TypeInv'
<1>1. ReqOK'
  BY RestShapes, ReqUpdate DEF TypeInv, AddDecision
<1>2. /\ req[c] \in ReqType /\ req[c].promo \in Promo /\ req[c].user \in User
      /\ promo[req[c].promo] \in Promotion /\ "rejected" \in Status
  BY DEF TypeInv, ReqOK, ReqShape, AddDecision, RowsOK, Status, Final
<1>3. Approved(req[c], promo[req[c].promo]) \in Promotion
  BY <1>2, ApprovedType
<1>4. RowsOK'
  BY <1>2, <1>3, WriteType, StatusWriteType, Frame DEF TypeInv, AddDecision
<1> QED
  BY <1>1, <1>4, Frame DEF TypeInv, AddDecision

LEMMA CancelType ==
    ASSUME TypeInv, NEW u \in User, NEW p \in Promo, Cancel(u, p)
    PROVE  TypeInv'
<1>1. "cancelled" \in Status
  BY DEF Status, Final
<1>2. RowsOK'
  BY <1>1, StatusTransitionType DEF TypeInv, Cancel
<1> QED
  BY <1>2, Frame DEF TypeInv, Cancel

LEMMA AbandonRequestType ==
    ASSUME TypeInv, NEW c \in Client, AbandonRequest(c)
    PROVE  TypeInv'
<1>1. ReqOK' /\ FaultsOK'
  BY RestShapes, ReqUpdate, FaultType DEF TypeInv, AbandonRequest
<1> QED
  BY <1>1, Frame DEF TypeInv, AbandonRequest

\* The policy changes.
LEMMA PutEnvType ==
    ASSUME TypeInv, NEW a \in Admin, NEW e \in Env, NEW pol \in Policies, PutEnv(a, e, pol)
    PROVE  TypeInv'
<1> DEFINE r == [NoPut EXCEPT !.pc = "list", !.env = e, !.pol = pol]
<1>1. r \in PutType /\ r.env = e /\ r.pol = pol
  BY RestShapes DEF PutShape, PutType
<1>2. put' = [put EXCEPT ![a] = r]
  BY DEF PutEnv
<1> HIDE DEF r
<1>3. PutOK'
  BY <1>1, <1>2, PutUpdate DEF PutShape, TypeInv
<1>4. RulesOK'
  BY DEF PutEnv, TypeInv, RulesOK
<1>5. OutsideOK'
  BY ChangeType DEF PutEnv, TypeInv, OutsideOK
<1> QED
  BY <1>3, <1>4, <1>5, Frame DEF TypeInv, PutEnv

LEMMA ReevaluateListType ==
    ASSUME TypeInv, NEW a \in Admin, ReevaluateList(a)
    PROVE  TypeInv'
<1> DEFINE todo == {p \in Promo : promo[p].env = put[a].env /\ promo[p].status \in Waitable}
           r == [put[a] EXCEPT !.pc = "visit", !.at = now, !.snap = promo, !.todo = todo]
<1>1. put[a] \in PutType /\ PutShape(put[a]) /\ put[a].pc = "list" /\ put \in [Admin -> PutType]
  BY DEF TypeInv, PutOK, ReevaluateList
<1>2. todo \in SUBSET Promo /\ now \in 0..MaxNow /\ promo \in [Promo -> Promotion]
  BY DEF TypeInv, OutsideOK, RowsOK
<1>3. put' = [put EXCEPT ![a] = r]
  BY <1>1 DEF ReevaluateList
<1> HIDE DEF todo
<1>4. r \in PutType /\ r.env = put[a].env /\ r.pol = put[a].pol
  BY <1>1, <1>2 DEF PutType
<1> HIDE DEF r
<1>5. PutOK'
  BY <1>1, <1>3, <1>4, PutUpdate DEF PutShape, TypeInv
<1> QED
  BY <1>5, Frame DEF TypeInv, ReevaluateList

LEMMA ReevaluateVisitType ==
    ASSUME TypeInv, NEW a \in Admin, ReevaluateVisit(a)
    PROVE  TypeInv'
<1>1. PutOK'
  <2>1. PICK p \in Promo : put' = [put EXCEPT ![a].todo = @ \ {p}]
    BY DEF ReevaluateVisit
  <2> DEFINE r == [put[a] EXCEPT !.todo = @ \ {p}]
  <2>2. put[a] \in PutType /\ PutShape(put[a]) /\ put \in [Admin -> PutType]
    BY DEF TypeInv, PutOK
  <2>3. r \in PutType /\ r.pc = put[a].pc /\ r.env = put[a].env /\ r.pol = put[a].pol
    BY <2>2 DEF PutType
  <2>4. put' = [put EXCEPT ![a] = r]
    BY <2>1, <2>2
  <2> HIDE DEF r
  <2> QED
    BY <2>2, <2>3, <2>4, PutUpdate DEF PutShape, TypeInv
<1>2. FaultsOK'
  BY FaultType DEF TypeInv, ReevaluateVisit
<1>3. RowsOK'
  <2> DEFINE blocked(p) == CheckStatic(put[a].pol, put[a].snap[p].sha, put[a].snap[p].from) = NoSource
             dead(p) == [promo[p] EXCEPT !.status = "cancelled"]
             live(p) == Advanced(put[a].pol, put[a].snap[p], put[a].at, promo[p])
  <2>1. PICK p \in Promo :
            \/ Transition(p, {put[a].snap[p].status}, IF blocked(p) THEN dead(p) ELSE live(p))
            \/ UNCHANGED rows
    BY DEF ReevaluateVisit, Refused
  <2>2. promo[p] \in Promotion /\ put[a].snap[p] \in Promotion /\ put[a].at \in 0..MaxNow
    BY DEF TypeInv, RowsOK, PutOK, PutType
  <2>3. dead(p) \in Promotion
    BY <2>2 DEF Promotion, Status, Final
  <2>4. live(p) \in Promotion
    BY <2>2, AdvancedType
  <2> HIDE DEF blocked, dead, live
  <2> QED
    BY <2>1, <2>3, <2>4, WriteType, Frame DEF TypeInv, Transition
<1> QED
  BY <1>1, <1>2, <1>3, Frame DEF TypeInv, ReevaluateVisit

LEMMA PutEndType ==
    ASSUME TypeInv, NEW a \in Admin, PutEnd(a)
    PROVE  TypeInv'
<1>1. PutOK' /\ FaultsOK'
  BY RestShapes, PutUpdate, FaultType DEF TypeInv, PutEnd
<1> QED
  BY <1>1, Frame DEF TypeInv, PutEnd

\* The loop.
LEMMA TickExpireType ==
    ASSUME TypeInv, NEW pr \in Proc, TickExpire(pr)
    PROVE  TypeInv'
<1>1. TickOK'
  <2>1. PICK S \in SUBSET Promo :
            \/ tick' = [tick EXCEPT ![pr].pc = "sync", ![pr].at = now, ![pr].todo = S]
            \/ tick' = [tick EXCEPT ![pr].pc = "sync", ![pr].at = now]
    BY DEF TickExpire
  <2> DEFINE t(T) == [tick[pr] EXCEPT !.pc = "sync", !.at = now, !.todo = T]
  <2>2. tick[pr] \in TickType /\ tick \in [Proc -> TickType] /\ now \in 0..MaxNow
    BY DEF TypeInv, TickOK, OutsideOK
  <2>3. tick[pr].todo \in SUBSET Promo
    BY <2>2, TickFields
  <2>4. \A T \in SUBSET Promo : t(T) \in TickType /\ t(T).pc = "sync"
    BY <2>2 DEF TickType
  <2>5. \/ tick' = [tick EXCEPT ![pr] = t(S)]
        \/ tick' = [tick EXCEPT ![pr] = t(tick[pr].todo)]
    BY <2>1, <2>2 DEF TickType
  <2> HIDE DEF t
  <2> QED
    BY <2>3, <2>4, <2>5, TickUpdate DEF TickShape, TypeInv
<1>2. FaultsOK'
  BY FaultType DEF TypeInv, TickExpire
<1>3. "expired" \in Status
  BY DEF Status, Final
<1>4. RowsOK'
  <2>1. \A p \in Promo : /\ promo[p] \in Promotion
                         /\ [promo[p] EXCEPT !.status = "expired"] \in Promotion
    BY <1>3 DEF TypeInv, RowsOK, Promotion
  <2> QED
    BY <2>1 DEF TypeInv, RowsOK, TickExpire
<1> QED
  BY <1>1, <1>2, <1>4, Frame DEF TypeInv, TickExpire

\* Taking promotions off the list.
LEMMA TodoType ==
    ASSUME TypeInv, NEW pr \in Proc, NEW S,
           \/ tick' = [tick EXCEPT ![pr].todo = @ \ S]
           \/ tick' = [tick EXCEPT ![pr].todo = {}]
    PROVE  TickOK'
<1> DEFINE t(T) == [tick[pr] EXCEPT !.todo = T]
<1>1. TickShape(tick[pr]) /\ tick[pr] \in TickType /\ tick \in [Proc -> TickType]
  BY DEF TypeInv, TickOK
<1>2. tick[pr].todo \ S \in SUBSET Promo
  BY <1>1, TickFields
<1>3. \A T \in SUBSET Promo :
          t(T) \in TickType /\ t(T).pc = tick[pr].pc /\ t(T).cur = tick[pr].cur
  BY <1>1 DEF TickType
<1>4. \/ tick' = [tick EXCEPT ![pr] = t(tick[pr].todo \ S)]
      \/ tick' = [tick EXCEPT ![pr] = t({})]
  BY <1>1
<1> HIDE DEF t
<1> QED
  BY <1>1, <1>2, <1>3, <1>4, TickUpdate DEF TickShape, TypeInv

LEMMA TickSyncType ==
    ASSUME TypeInv, NEW pr \in Proc, TickSync(pr)
    PROVE  TypeInv'
<1>1. TickOK'
  BY TodoType DEF TickSync
<1>2. FaultsOK'
  BY FaultType DEF TypeInv, TickSync
<1>3. \A p \in Promo : promo[p] \in Promotion
  BY DEF TypeInv, RowsOK
<1>4. RowsOK'
  BY <1>3, WriteType, Frame DEF TypeInv, TickSync
<1> QED
  BY <1>1, <1>2, <1>4, Frame DEF TypeInv, TickSync

LEMMA TickListType ==
    ASSUME TypeInv, NEW pr \in Proc, TickList(pr)
    PROVE  TypeInv'
<1>1. FaultsOK'
  BY FaultType DEF TypeInv, TickList
<1>2. TickOK'
  <2>1. CASE tick' = [tick EXCEPT ![pr] = TickIdle]
    BY <2>1, RestShapes, TickUpdate DEF TypeInv
  <2>2. CASE tick' # [tick EXCEPT ![pr] = TickIdle]
    <3> DEFINE S == {p \in Promo : promo[p].status \in Active}
               t == [tick[pr] EXCEPT !.pc = "loop", !.snap = promo, !.todo = S]
    <3>1. tick[pr] \in TickType /\ tick \in [Proc -> TickType] /\ promo \in [Promo -> Promotion]
      BY DEF TypeInv, TickOK, RowsOK
    <3>2. tick' = [tick EXCEPT ![pr] = t]
      BY <2>2, <3>1 DEF TickList
    <3>3. S \in SUBSET Promo
      OBVIOUS
    <3> HIDE DEF S
    <3>4. t \in TickType /\ t.pc = "loop"
      BY <3>1, <3>3 DEF TickType
    <3> HIDE DEF t
    <3> QED
      BY <3>2, <3>4, TickUpdate DEF TickShape, TypeInv
  <2> QED
    BY <2>1, <2>2
<1> QED
  BY <1>1, <1>2, Frame DEF TypeInv, TickList

LEMMA TickGetEnvType ==
    ASSUME TypeInv, NEW pr \in Proc, TickGetEnv(pr)
    PROVE  TypeInv'
<1>1. FaultsOK'
  BY FaultType DEF TypeInv, TickGetEnv
<1>2. TickOK'
  <2>1. PICK p \in Promo, x \in Policies \cup {Failed} :
            tick' = [tick EXCEPT ![pr].cache[tick[pr].snap[p].env] = x]
    BY TickAt, TickFields DEF TickGetEnv, TypeInv, RulesOK
  <2> DEFINE f == [tick[pr].cache EXCEPT ![tick[pr].snap[p].env] = x]
             t == [tick[pr] EXCEPT !.cache = f]
  <2>2. TickShape(tick[pr]) /\ tick[pr] \in TickType /\ tick \in [Proc -> TickType]
    BY DEF TypeInv, TickOK
  <2>3. f \in [Env -> Policies \cup {Unread, Failed}]
    BY <2>2, TickFields
  <2>4. tick' = [tick EXCEPT ![pr] = t]
    BY <2>1, <2>2
  <2> HIDE DEF f
  <2>5. t \in TickType /\ t.pc = tick[pr].pc /\ t.cur = tick[pr].cur
    BY <2>2, <2>3 DEF TickType
  <2> HIDE DEF t
  <2> QED
    BY <2>2, <2>4, <2>5, TickUpdate DEF TickShape, TypeInv
<1> QED
  BY <1>1, <1>2, Frame DEF TypeInv, TickGetEnv

LEMMA TickSkipType ==
    ASSUME TypeInv, NEW pr \in Proc, TickSkip(pr)
    PROVE  TypeInv'
<1>1. TickOK'
  BY TodoType DEF TickSkip
<1> QED
  BY <1>1, Frame DEF TypeInv, TickSkip

LEMMA TickAdvanceType ==
    ASSUME TypeInv, NEW pr \in Proc, NEW p \in Promo, TickAdvance(pr, p)
    PROVE  TypeInv'
<1> DEFINE new == Advanced(tick[pr].cache[tick[pr].snap[p].env], tick[pr].snap[p], tick[pr].at, promo[p])
<1>1. FaultsOK'
  BY FaultType DEF TypeInv, TickAdvance
<1>2. TickOK'
  <2>1. \/ tick' = [tick EXCEPT ![pr].todo = @ \ {p}, ![pr].ready = @ \cup {p}]
        \/ tick' = [tick EXCEPT ![pr].todo = @ \ {p}, ![pr].ready = @]
    BY DEF TickAdvance
  <2> DEFINE t(R) == [tick[pr] EXCEPT !.todo = @ \ {p}, !.ready = R]
  <2>2. TickShape(tick[pr]) /\ tick[pr] \in TickType /\ tick \in [Proc -> TickType]
    BY DEF TypeInv, TickOK
  <2>3. tick[pr].ready \in SUBSET Promo /\ tick[pr].ready \cup {p} \in SUBSET Promo
    BY <2>2, TickFields
  <2>4. \A R \in SUBSET Promo :
            t(R) \in TickType /\ t(R).pc = tick[pr].pc /\ t(R).cur = tick[pr].cur
    BY <2>2 DEF TickType
  <2>5. \/ tick' = [tick EXCEPT ![pr] = t(tick[pr].ready \cup {p})]
        \/ tick' = [tick EXCEPT ![pr] = t(tick[pr].ready)]
    BY <2>1, <2>2
  <2> HIDE DEF t
  <2> QED
    BY <2>2, <2>3, <2>4, <2>5, TickUpdate DEF TickShape, TypeInv
<1>3. new \in Promotion
  BY AdvancedType DEF TypeInv, RowsOK, TickOK, TickType
<1>4. Transition(p, {tick[pr].snap[p].status}, new) \/ UNCHANGED rows
  BY DEF TickAdvance, Refused
<1> HIDE DEF new
<1>5. RowsOK'
  BY <1>3, <1>4, WriteType, Frame DEF TypeInv, Transition
<1> QED
  BY <1>1, <1>2, <1>5, Frame DEF TypeInv, TickAdvance

LEMMA PolledType ==
    ASSUME TickOK, NEW pr \in Proc, NEW p \in Promo, NEW done, Polled(pr, p, done)
    PROVE  TickOK'
<1> DEFINE b == IF done THEN tick[pr].busy ELSE tick[pr].busy \cup {tick[pr].snap[p].env}
           t == [tick[pr] EXCEPT !.todo = @ \ {p}, !.busy = b]
<1>1. TickShape(tick[pr]) /\ tick[pr] \in TickType /\ tick \in [Proc -> TickType]
  BY DEF TickOK
<1>2. b \in SUBSET Env
  BY <1>1, TickFields
<1>3. tick' = [tick EXCEPT ![pr] = t]
  BY <1>1 DEF Polled
<1> HIDE DEF b
<1>4. t \in TickType /\ t.pc = tick[pr].pc /\ t.cur = tick[pr].cur
  BY <1>1, <1>2 DEF TickType
<1> HIDE DEF t
<1> QED
  BY <1>1, <1>3, <1>4, TickUpdate DEF TickShape

LEMMA TickPollType ==
    ASSUME TypeInv, NEW pr \in Proc, NEW p \in Promo, TickPoll(pr, p)
    PROVE  TypeInv'
<1>1. FaultsOK'
  BY FaultType DEF TypeInv, TickPoll, Finish
<1>2. TickOK'
  BY PolledType DEF TypeInv, TickPoll, Finish
<1>3. \A st, late : Verdict(st, late) # "none" => Verdict(st, late) \in Status
  BY DEF Verdict, Status, Final
<1>4. RowsOK'
  BY <1>3, StatusTransitionType, Frame DEF TypeInv, TickPoll, Finish
<1> QED
  BY <1>1, <1>2, <1>4, Frame DEF TypeInv, TickPoll

LEMMA TickRelaunchType ==
    ASSUME TypeInv, NEW pr \in Proc, NEW p \in Promo, TickRelaunch(pr, p)
    PROVE  TypeInv'
<1>1. FaultsOK'
  BY FaultType DEF TypeInv, TickRelaunch
<1>2. TickOK'
  <2>1. CASE \E done \in BOOLEAN : Polled(pr, p, done)
    BY <2>1, PolledType DEF TypeInv
  <2>2. CASE ~\E done \in BOOLEAN : Polled(pr, p, done)
    <3> DEFINE t == [tick[pr] EXCEPT !.pc = "launch", !.cur = p, !.src = tick[pr].snap[p].src,
                       !.todo = @ \ {p}, !.busy = @ \cup {tick[pr].snap[p].env}]
    <3>1. tick[pr] \in TickType /\ tick \in [Proc -> TickType]
      BY DEF TypeInv, TickOK
    <3>2. tick' = [tick EXCEPT ![pr] = t]
      BY <2>2, <3>1 DEF TickRelaunch
    <3>3. /\ tick[pr].snap[p].src \in Source \cup {NoSource}
          /\ tick[pr].todo \ {p} \in SUBSET Promo
          /\ tick[pr].busy \cup {tick[pr].snap[p].env} \in SUBSET Env
      BY <3>1, TickFields
    <3>4. t \in TickType /\ t.cur = p
      BY <3>1, <3>3 DEF TickType
    <3> HIDE DEF t
    <3> QED
      BY <3>2, <3>4, TickUpdate DEF TickShape, TypeInv
  <2> QED
    BY <2>1, <2>2
<1>3. "failed" \in Status
  BY DEF Status, Final
<1>4. RowsOK'
  BY <1>3, StatusTransitionType, Frame DEF TypeInv, TickRelaunch
<1> QED
  BY <1>1, <1>2, <1>4, Frame DEF TypeInv, TickRelaunch

\* Back to the loops of Tick.
LEMMA ResumeType ==
    ASSUME TickOK, NEW pr \in Proc, NEW left \in SUBSET Promo, Resume(pr, left)
    PROVE  TickOK'
<1> DEFINE t == [tick[pr] EXCEPT !.pc = "loop", !.cur = 0, !.src = NoSource, !.dep = NoDep, !.ready = left]
<1>1. tick[pr] \in TickType /\ tick \in [Proc -> TickType]
  BY DEF TickOK
<1>2. tick' = [tick EXCEPT ![pr] = t]
  BY <1>1 DEF Resume
<1>3. t \in TickType /\ t.pc = "loop"
  BY <1>1 DEF TickType
<1> HIDE DEF t
<1> QED
  BY <1>2, <1>3, TickUpdate DEF TickShape

LEMMA TickStartType ==
    ASSUME TypeInv, NEW pr \in Proc, NEW p \in Promo, TickStart(pr, p)
    PROVE  TypeInv'
<1> DEFINE old == tick[pr].snap[p]
           found == CheckStatic(tick[pr].cache[old.env], old.sha, old.from)
<1>1. /\ TickShape(tick[pr]) /\ tick[pr] \in TickType /\ tick \in [Proc -> TickType]
      /\ old \in Promotion /\ old.src \in Source \cup {NoSource} /\ tick[pr].ready \in SUBSET Promo
  BY TickFields DEF TypeInv, TickOK
<1>2. found \in Source \cup {NoSource}
  <2>1. old.sha \in Sha
    BY <1>1 DEF Promotion
  <2> QED
    BY <2>1, CheckStaticType DEF TypeInv
<1>3. FaultsOK'
  BY FaultType DEF TypeInv, TickStart
<1>4. "cancelled" \in Status
  BY DEF Status, Final
<1>5. RowsOK'
  BY <1>4, StatusTransitionType, Frame DEF TypeInv, TickStart
<1>6. TickOK'
  <2> DEFINE drop == [tick[pr] EXCEPT !.ready = @ \ {p}]
             claim(s) == [tick[pr] EXCEPT !.pc = "claim", !.cur = p, !.src = s]
  <2>1. \/ tick' = [tick EXCEPT ![pr] = drop]
        \/ tick' = [tick EXCEPT ![pr] = claim(old.src)]
        \/ tick' = [tick EXCEPT ![pr] = claim(found)]
    BY <1>1 DEF TickStart
  <2> HIDE DEF old, found
  <2>2. drop \in TickType /\ drop.pc = tick[pr].pc /\ drop.cur = tick[pr].cur
    BY <1>1 DEF TickType
  <2>3. \A s \in Source \cup {NoSource} : claim(s) \in TickType /\ claim(s).cur = p
    BY <1>1 DEF TickType
  <2> HIDE DEF drop, claim
  <2> QED
    BY <1>1, <1>2, <2>1, <2>2, <2>3, TickUpdate DEF TickShape, TypeInv
<1> QED
  BY <1>3, <1>5, <1>6, Frame DEF TypeInv, TickStart

LEMMA TickClaimType ==
    ASSUME TypeInv, NEW pr \in Proc, TickClaim(pr)
    PROVE  TypeInv'
<1> DEFINE others == {q \in tick[pr].ready : tick[pr].snap[q].env # tick[pr].snap[tick[pr].cur].env}
           row == [promo[tick[pr].cur] EXCEPT !.status = "deploying", !.startedAt = tick[pr].at]
           t == [tick[pr] EXCEPT !.pc = "launch", !.ready = others]
<1>1. /\ tick[pr] \in TickType /\ tick \in [Proc -> TickType] /\ tick[pr].cur \in Promo
      /\ tick[pr].at \in Instant /\ others \in SUBSET Promo /\ tick[pr].ready \ {tick[pr].cur} \in SUBSET Promo
  <2>1. tick[pr] \in TickType /\ tick \in [Proc -> TickType] /\ tick[pr].cur \in Promo
    BY DEF TypeInv, TickOK, TickShape, TickClaim
  <2>2. tick[pr].at \in 0..MaxNow /\ tick[pr].ready \in SUBSET Promo
    BY <2>1, TickFields
  <2> QED
    BY <2>1, <2>2, ConstantsAssumption DEF Instant
<1>2. FaultsOK'
  BY FaultType DEF TypeInv, TickClaim
<1>3. Transition(tick[pr].cur, {"approved"}, row) \/ UNCHANGED rows
  BY DEF TickClaim, Refused
<1>4. row \in Promotion
  <2>1. promo[tick[pr].cur] \in Promotion /\ "deploying" \in Status
    BY <1>1 DEF TypeInv, RowsOK, Status, Active
  <2> QED
    BY <1>1, <2>1 DEF Promotion
<1>5. \/ tick' = [tick EXCEPT ![pr] = t]
      \/ Resume(pr, others) \/ Resume(pr, tick[pr].ready \ {tick[pr].cur})
  BY <1>1 DEF TickClaim
<1> HIDE DEF others, row
<1>6. t \in TickType /\ t.cur = tick[pr].cur
  BY <1>1 DEF TickType
<1> HIDE DEF t
<1>7. TickOK'
  BY <1>1, <1>5, <1>6, TickUpdate, ResumeType DEF TickShape, TypeInv
<1>8. RowsOK'
  BY <1>1, <1>3, <1>4, WriteType, Frame DEF TypeInv, Transition
<1> QED
  BY <1>2, <1>7, <1>8, Frame DEF TypeInv, TickClaim

LEMMA TickLaunchType ==
    ASSUME TypeInv, NEW pr \in Proc, TickLaunch(pr)
    PROVE  TypeInv'
<1>1. /\ tick[pr] \in TickType /\ tick \in [Proc -> TickType] /\ tick[pr].cur \in Promo
      /\ tick[pr].ready \in SUBSET Promo /\ tick[pr].src \in Source \cup {NoSource}
  <2>1. tick[pr] \in TickType /\ tick \in [Proc -> TickType] /\ tick[pr].cur \in Promo
    BY DEF TypeInv, TickOK, TickShape, TickLaunch
  <2> QED
    BY <2>1 DEF TickType
<1>2. FaultsOK'
  BY FaultType DEF TypeInv, TickLaunch
<1>3. "failed" \in Status
  BY DEF Status, Final
<1>4. RowsOK'
  BY <1>1, <1>3, StatusTransitionType, Frame DEF TypeInv, TickLaunch
<1>5. DepsOK'
  <2>1. CASE UNCHANGED deps
    BY <2>1, Frame DEF TypeInv
  <2>2. CASE \E d \in Dep :
              deps' = [deps EXCEPT ![d] = [status |-> "open", promo |-> tick[pr].cur, src |-> tick[pr].src]]
    BY <1>1, <2>2 DEF TypeInv, DepsOK
  <2> QED
    BY <2>1, <2>2 DEF TickLaunch
<1>6. TickOK'
  <2> DEFINE t(d) == [tick[pr] EXCEPT !.pc = "save", !.dep = d]
  <2>1. (\E d \in Dep : tick' = [tick EXCEPT ![pr] = t(d)]) \/ Resume(pr, tick[pr].ready)
    BY <1>1 DEF TickLaunch
  <2>2. \A d \in Dep : t(d) \in TickType /\ t(d).cur = tick[pr].cur
    BY <1>1 DEF TickType
  <2> HIDE DEF t
  <2> QED
    BY <1>1, <2>1, <2>2, TickUpdate, ResumeType DEF TickShape, TypeInv
<1> QED
  BY <1>2, <1>4, <1>5, <1>6, Frame DEF TypeInv, TickLaunch

LEMMA TickSaveType ==
    ASSUME TypeInv, NEW pr \in Proc, TickSave(pr)
    PROVE  TypeInv'
<1>1. /\ tick[pr].cur \in Promo /\ tick[pr].ready \in SUBSET Promo /\ tick[pr].dep \in Dep \cup {NoDep}
  <2>1. tick[pr] \in TickType /\ tick[pr].cur \in Promo
    BY DEF TypeInv, TickOK, TickShape, TickSave
  <2> QED
    BY <2>1 DEF TickType
<1>2. FaultsOK'
  BY FaultType DEF TypeInv, TickSave
<1>3. TickOK'
  BY <1>1, ResumeType DEF TypeInv, TickSave
<1>4. RowsOK'
  <2>1. CASE UNCHANGED rows
    BY <2>1, Frame DEF TypeInv
  <2>2. CASE SetDeployment(tick[pr].cur, tick[pr].dep)
    <3>1. /\ promo \in [Promo -> Promotion] /\ promo[tick[pr].cur] \in Promotion
          /\ hist \in [Promo -> [status : HistoryStatus, dep : Dep \cup {NoDep}]]
      BY <1>1 DEF TypeInv, RowsOK
    <3>2. [promo[tick[pr].cur] EXCEPT !.dep = tick[pr].dep] \in Promotion
      BY <1>1, <3>1 DEF Promotion
    <3>3. promo' \in [Promo -> Promotion]
      BY <1>1, <2>2, <3>1, <3>2 DEF SetDeployment
    <3>4. hist' \in [Promo -> [status : HistoryStatus, dep : Dep \cup {NoDep}]]
      BY <1>1, <2>2, <3>1 DEF SetDeployment
    <3> QED
      BY <3>3, <3>4 DEF RowsOK
  <2> QED
    BY <2>1, <2>2 DEF TickSave
<1> QED
  BY <1>2, <1>3, <1>4, Frame DEF TypeInv, TickSave

LEMMA TickStopType ==
    ASSUME TypeInv, NEW pr \in Proc, TickEnd(pr) \/ Crash(pr)
    PROVE  TypeInv'
<1>1. TickOK'
  BY RestShapes, TickUpdate DEF TypeInv, TickEnd, Crash
<1>2. FaultsOK'
  BY FaultType, Frame DEF TypeInv, TickEnd, Crash
<1> QED
  BY <1>1, <1>2, Frame DEF TypeInv, TickEnd, Crash

\* Around the component.
LEMMA WorldType ==
    ASSUME TypeInv, World
    PROVE  TypeInv'
<1>1. CASE Tock
  <2>1. OutsideOK'
    BY <1>1, ConstantsAssumption DEF Tock, TypeInv, OutsideOK
  <2> QED
    BY <1>1, <2>1, Frame DEF TypeInv, Tock
<1>2. CASE \E sha \in Sha : CommitChange(sha)
  <2>1. OutsideOK'
    BY <1>2, ChangeType DEF CommitChange, TypeInv, OutsideOK
  <2> QED
    BY <1>2, <2>1, Frame DEF TypeInv, CommitChange
<1>3. CASE \E sha \in Sha, src \in Source : Redeploy(sha, src)
  <2>1. OutsideOK'
    BY <1>3, ChangeType DEF Redeploy, TypeInv, OutsideOK
  <2> QED
    BY <1>3, <2>1, Frame DEF TypeInv, Redeploy
<1>4. CASE \E d \in Dep, st \in {"success", "failed", "cancelled"} : DeploymentMoves(d, st)
  <2>1. DepsOK'
    BY <1>4 DEF DeploymentMoves, TypeInv, DepsOK
  <2> QED
    BY <1>4, <2>1, Frame DEF TypeInv, DeploymentMoves
<1> QED
  BY <1>1, <1>2, <1>3, <1>4 DEF World

LEMMA NextTypeInv == TypeInv /\ [Next]_vars => TypeInv'
<1> SUFFICES ASSUME TypeInv, [Next]_vars PROVE TypeInv'
  OBVIOUS
<1>1. CASE Request
  BY <1>1, CreateLoadType, CreateInsertType, DecideLoadType, AddDecisionType, CancelType,
     AbandonRequestType DEF Request
<1>2. CASE PolicyChange
  BY <1>2, PutEnvType, ReevaluateListType, ReevaluateVisitType, PutEndType DEF PolicyChange
<1>3. CASE World
  BY <1>3, WorldType
<1>4. CASE \E pr \in Proc : Tick(pr) \/ Crash(pr)
  BY <1>4, TickExpireType, TickSyncType, TickListType, TickGetEnvType, TickSkipType,
     TickAdvanceType, TickPollType, TickRelaunchType, TickStartType, TickClaimType,
     TickLaunchType, TickSaveType, TickStopType DEF Tick
<1>5. CASE UNCHANGED vars
  BY <1>5, Frame DEF vars, TypeInv, outside, rules, rows
<1> QED
  BY <1>1, <1>2, <1>3, <1>4, <1>5 DEF Next

\* Every variable keeps its type, whatever the interleaving of requests,
\* policy changes, ticks and faults.
THEOREM TypeCorrect == Spec => []TypeOK
<1>1. Init => TypeInv
  BY InitTypeInv
<1>2. TypeInv /\ [Next]_vars => TypeInv'
  BY NextTypeInv
<1>3. TypeInv => TypeOK
  BY TypeInvImpliesTypeOK
<1> QED
  BY <1>1, <1>2, <1>3, PTL DEF Spec

-----------------------------------------------------------------------------
(* The queue of an environment and the finality of outcomes. *)

\* What reevaluate still has to visit was not final when it listed it.
PutKnown == \A a \in Admin : \A p \in put[a].todo : put[a].snap[p].status \in Waitable

Inv == TypeInv /\ PutKnown

\* Only the row of p changes, and as the writers of environment_repo.go may.
Moves(p) ==
    /\ \A q \in Promo \ {p} : promo'[q] = promo[q]
    /\ promo[p].status \in Final =>
          promo'[p].status = promo[p].status /\ promo'[p].approvals = promo[p].approvals
    /\ promo'[p].status = "deploying" =>
          promo'[p].env = promo[p].env /\ (promo[p].status = "deploying" \/ SlotFree(p))

Expires ==
    \A p \in Promo : promo'[p] = promo[p] \/ (promo'[p].status = "expired" /\ promo[p].status \in Waitable)

RowStep == UNCHANGED promo \/ Expires \/ \E p \in Promo : Moves(p)

-----------------------------------------------------------------------------
(* The writes.                                                             *)

LEMMA StatusSets ==
    /\ Waitable \cap Final = {} /\ "deploying" \notin Waitable /\ "deploying" \notin Final
    /\ "none" \notin Final /\ "pending_approval" \in Waitable
BY DEF Waitable, Final

LEMMA WriteMoves ==
    ASSUME RowsOK, NEW p \in Promo, NEW row, Write(p, row),
           promo[p].status \notin Final,
           row.status = "deploying" =>
              row.env = promo[p].env /\ (promo[p].status = "deploying" \/ SlotFree(p))
    PROVE  RowStep
<1>1. promo'[p] = row /\ \A q \in Promo \ {p} : promo'[q] = promo[q]
  BY DEF RowsOK, Write
<1>2. Moves(p)
  BY <1>1 DEF Moves
<1> QED
  BY <1>2 DEF RowStep

LEMMA TransitionMoves ==
    ASSUME RowsOK, NEW p \in Promo, NEW from, from \cap Final = {}, NEW row,
           row.env = promo[p].env, Transition(p, from, row)
    PROVE  RowStep
<1>1. promo[p].status \notin Final /\ (row.status = "deploying" => SlotFree(p)) /\ Write(p, row)
  BY DEF Transition, CanTransition
<1> QED
  BY <1>1, WriteMoves

LEMMA StatusMoves ==
    ASSUME RowsOK, NEW p \in Promo, NEW from, from \cap Final = {}, NEW st,
           Transition(p, from, [promo[p] EXCEPT !.status = st])
    PROVE  RowStep
<1>1. [promo[p] EXCEPT !.status = st].env = promo[p].env
  BY DEF RowsOK, Promotion
<1> QED
  BY <1>1, TransitionMoves

LEMMA AdvancedMoves ==
    ASSUME RowsOK, NEW p \in Promo, NEW from, from \cap Final = {}, NEW pol, NEW old, NEW t,
           Transition(p, from, Advanced(pol, old, t, promo[p]))
    PROVE  RowStep
<1>1. Advanced(pol, old, t, promo[p]).env = promo[p].env
  BY DEF RowsOK, Promotion, Advanced
<1> QED
  BY <1>1, TransitionMoves

LEMMA SameRow ==
    ASSUME UNCHANGED rows
    PROVE  RowStep
BY DEF rows, RowStep

LEMMA RefusedStays ==
    ASSUME NEW p, NEW from, NEW to, Refused(p, from, to)
    PROVE  RowStep
BY SameRow DEF Refused

-----------------------------------------------------------------------------
(* One step.                                                               *)

LEMMA RequestStep == Inv /\ Request => RowStep
<1> SUFFICES ASSUME Inv, Request PROVE RowStep
  OBVIOUS
<1> RowsOK /\ ReqOK
  BY DEF Inv, TypeInv
<1>1. ASSUME NEW c \in Client, CreateInsert(c) PROVE RowStep
  <2>1. CASE UNCHANGED rows
    BY <2>1, SameRow
  <2>2. CASE \E p \in Promo : Oldest(p, Unused) /\ Write(p, NewRow(req[c]))
    <3>1. PICK p \in Promo : Oldest(p, Unused) /\ Write(p, NewRow(req[c]))
      BY <2>2
    <3>2. promo[p].status = "none"
      BY <3>1 DEF Oldest, Unused
    <3>3. NewRow(req[c]).status # "deploying"
      BY NextAfterQuorumType DEF NewRow
    <3> QED
      BY <3>1, <3>2, <3>3, StatusSets, WriteMoves
  <2> QED
    BY <1>1, <2>1, <2>2 DEF CreateInsert
<1>2. ASSUME NEW c \in Client, AddDecision(c) PROVE RowStep
  <2> DEFINE d == req[c]
             row == promo[d.promo]
             new == IF d.kind = "approve" THEN Approved(d, row) ELSE [row EXCEPT !.status = "rejected"]
  <2>1. d.kind \in {"approve", "reject"} /\ d.promo \in Promo
    BY <1>2 DEF AddDecision, ReqOK, ReqShape
  <2>2. CASE UNCHANGED rows
    BY <2>2, SameRow
  <2>3. CASE /\ row.status \in (IF d.kind = "approve" THEN {"pending_approval"} ELSE Waitable)
             /\ Write(d.promo, new)
    <3>1. row \in Promotion
      BY <2>1 DEF RowsOK
    <3>2. row.status \in Waitable
      BY <2>3, StatusSets
    <3>3. new.status # "deploying"
      <4>1. CASE d.kind = "approve"
        <5>1. row.status = "pending_approval"
          BY <2>3, <4>1
        <5>2. Approved(d, row).status \in {"pending_approval", "waiting", "approved"}
          BY <3>1, <5>1, NextAfterQuorumType DEF Approved, Promotion
        <5> QED
          BY <4>1, <5>2
      <4>2. CASE d.kind # "approve"
        BY <3>1, <4>2 DEF Promotion
      <4> QED
        BY <4>1, <4>2
    <3> HIDE DEF new
    <3> QED
      BY <2>1, <2>3, <3>2, <3>3, StatusSets, WriteMoves
  <2> QED
    BY <1>2, <2>2, <2>3 DEF AddDecision
<1>3. ASSUME NEW u \in User, NEW p \in Promo, Cancel(u, p) PROVE RowStep
  BY <1>3, StatusMoves, StatusSets DEF Cancel
<1>4. ASSUME NEW c \in Client, NEW u \in Requester, NEW e \in Env, NEW sha \in Sha, NEW from \in Env \cup {NoEnv},
             NEW key \in Key \cup {NoKey}, CreateLoad(c, u, e, sha, from, key)
      PROVE  RowStep
  BY <1>4, SameRow DEF CreateLoad
<1>5. ASSUME NEW c \in Client, NEW u \in User, NEW p \in Promo, NEW approve \in BOOLEAN, DecideLoad(c, u, p, approve)
      PROVE  RowStep
  BY <1>5, SameRow DEF DecideLoad
<1>6. ASSUME NEW c \in Client, AbandonRequest(c) PROVE RowStep
  BY <1>6, SameRow DEF AbandonRequest
<1> QED
  BY <1>1, <1>2, <1>3, <1>4, <1>5, <1>6 DEF Request

LEMMA PolicyStep == Inv /\ PolicyChange => RowStep
<1> SUFFICES ASSUME Inv, PolicyChange PROVE RowStep
  OBVIOUS
<1> RowsOK
  BY DEF Inv, TypeInv
<1>1. ASSUME NEW a \in Admin, ReevaluateVisit(a) PROVE RowStep
  <2> DEFINE old(p) == put[a].snap[p]
             blocked(p) == CheckStatic(put[a].pol, old(p).sha, old(p).from) = NoSource
             new(p) == IF blocked(p) THEN [promo[p] EXCEPT !.status = "cancelled"]
                       ELSE Advanced(put[a].pol, old(p), put[a].at, promo[p])
  <2>1. PICK p \in Promo :
          /\ Oldest(p, put[a].todo)
          /\ \/ Transition(p, {old(p).status}, new(p))
             \/ Refused(p, {old(p).status}, new(p).status)
             \/ UNCHANGED rows
    BY <1>1 DEF ReevaluateVisit
  <2>2. {old(p).status} \cap Final = {}
    BY <2>1, StatusSets DEF Inv, PutKnown, Oldest
  <2>3. CASE Transition(p, {old(p).status}, new(p)) /\ blocked(p)
    BY <2>2, <2>3, StatusMoves
  <2>4. CASE Transition(p, {old(p).status}, new(p)) /\ ~blocked(p)
    BY <2>2, <2>4, AdvancedMoves
  <2> QED
    BY <2>1, <2>3, <2>4, RefusedStays, SameRow
<1>2. CASE UNCHANGED rows
  BY <1>2, SameRow
<1> QED
  BY <1>1, <1>2 DEF PolicyChange, PutEnv, ReevaluateList, PutEnd

LEMMA TickWrites ==
    ASSUME Inv, NEW pr \in Proc,
           TickExpire(pr) \/ TickSync(pr) \/ TickClaim(pr) \/ TickLaunch(pr) \/ TickSave(pr)
    PROVE  RowStep
<1> RowsOK /\ TickOK
  BY DEF Inv, TypeInv
<1>1. CASE TickExpire(pr)
  <2>1. CASE UNCHANGED promo
    BY <2>1 DEF RowStep
  <2>2. CASE promo' = [p \in Promo |->
               IF p \in {q \in Promo : promo[q].status \in Waitable /\ promo[q].expiresAt <= now}
               THEN [promo[p] EXCEPT !.status = "expired"] ELSE promo[p]]
    <3>1. ASSUME NEW p \in Promo
          PROVE promo'[p] = promo[p] \/ (promo'[p].status = "expired" /\ promo[p].status \in Waitable)
      BY <2>2 DEF RowsOK, Promotion
    <3> QED
      BY <3>1 DEF Expires, RowStep
  <2> QED
    BY <1>1, <2>1, <2>2 DEF TickExpire
<1>2. CASE TickSync(pr)
  <2>1. ASSUME NEW p \in Promo, Write(p, promo[p]) PROVE RowStep
    BY <2>1 DEF Write, RowsOK, RowStep
  <2> QED
    BY <1>2, <2>1, SameRow DEF TickSync
<1>3. CASE TickClaim(pr)
  <2>1. tick[pr].cur \in Promo
    BY <1>3, TickAt DEF TickClaim
  <2>2. ASSUME Transition(tick[pr].cur, {"approved"},
                 [promo[tick[pr].cur] EXCEPT !.status = "deploying", !.startedAt = tick[pr].at])
        PROVE RowStep
    <3>1. [promo[tick[pr].cur] EXCEPT !.status = "deploying", !.startedAt = tick[pr].at].env
            = promo[tick[pr].cur].env
      BY <2>1 DEF RowsOK, Promotion
    <3>2. {"approved"} \cap Final = {}
      BY DEF Final
    <3> QED
      BY <2>1, <2>2, <3>1, <3>2, TransitionMoves
  <2> QED
    BY <1>3, <2>2, RefusedStays, SameRow DEF TickClaim
<1>4. CASE TickLaunch(pr)
  <2>1. tick[pr].cur \in Promo
    BY <1>4, TickAt DEF TickLaunch
  <2>2. {"deploying"} \cap Final = {}
    BY DEF Final
  <2> QED
    BY <1>4, <2>1, <2>2, StatusMoves, RefusedStays, SameRow DEF TickLaunch
<1>5. CASE TickSave(pr)
  <2>1. tick[pr].cur \in Promo
    BY <1>5, TickAt DEF TickSave
  <2>2. CASE SetDeployment(tick[pr].cur, tick[pr].dep)
    <3>1. /\ \A q \in Promo \ {tick[pr].cur} : promo'[q] = promo[q]
          /\ promo'[tick[pr].cur].status = promo[tick[pr].cur].status
          /\ promo'[tick[pr].cur].approvals = promo[tick[pr].cur].approvals
          /\ promo'[tick[pr].cur].env = promo[tick[pr].cur].env
      BY <2>1, <2>2 DEF SetDeployment, RowsOK, Promotion
    <3>2. Moves(tick[pr].cur)
      BY <3>1 DEF Moves
    <3> QED
      BY <2>1, <3>2 DEF RowStep
  <2> QED
    BY <1>5, <2>2, SameRow DEF TickSave
<1> QED
  BY <1>1, <1>2, <1>3, <1>4, <1>5

LEMMA TickVisits ==
    ASSUME Inv, NEW pr \in Proc, NEW p \in Promo,
           TickAdvance(pr, p) \/ TickPoll(pr, p) \/ TickRelaunch(pr, p) \/ TickStart(pr, p)
    PROVE  RowStep
<1> RowsOK
  BY DEF Inv, TypeInv
<1> DEFINE old == tick[pr].snap[p]
<1>0. {"deploying"} \cap Final = {} /\ {"approved"} \cap Final = {}
  BY DEF Final
<1>1. CASE TickAdvance(pr, p)
  <2> DEFINE new == Advanced(tick[pr].cache[old.env], old, tick[pr].at, promo[p])
  <2>1. old.status \in Waitable
    BY <1>1 DEF TickAdvance
  <2>2. \/ UNCHANGED rows
        \/ Transition(p, {old.status}, new)
        \/ Refused(p, {old.status}, new.status)
    BY <1>1 DEF TickAdvance
  <2>3. {old.status} \cap Final = {}
    BY <2>1, StatusSets
  <2> QED
    BY <2>2, <2>3, AdvancedMoves, RefusedStays, SameRow
<1>2. CASE TickPoll(pr, p)
  <2>1. \/ UNCHANGED rows
        \/ \E to : \/ Transition(p, {"deploying"}, [promo[p] EXCEPT !.status = to])
                   \/ Refused(p, {"deploying"}, to)
    BY <1>2 DEF TickPoll, Finish
  <2> QED
    BY <1>0, <2>1, StatusMoves, RefusedStays, SameRow
<1>3. CASE TickRelaunch(pr, p)
  BY <1>0, <1>3, StatusMoves, RefusedStays, SameRow DEF TickRelaunch
<1>4. CASE TickStart(pr, p)
  BY <1>0, <1>4, StatusMoves, RefusedStays, SameRow DEF TickStart
<1> QED
  BY <1>1, <1>2, <1>3, <1>4

\* What any step does to the promotions.
LEMMA NextRowStep == Inv /\ [Next]_vars => RowStep
<1> SUFFICES ASSUME Inv, [Next]_vars PROVE RowStep
  OBVIOUS
<1>1. CASE World
  BY <1>1 DEF World, Tock, CommitChange, Redeploy, DeploymentMoves, rows, RowStep
<1>2. CASE \E pr \in Proc : Tick(pr) \/ Crash(pr)
  BY <1>2, TickWrites, TickVisits, SameRow
     DEF Tick, TickList, TickGetEnv, TickSkip, TickEnd, Crash
<1>3. CASE UNCHANGED vars
  BY <1>3 DEF vars, RowStep
<1> QED
  BY <1>1, <1>2, <1>3, RequestStep, PolicyStep DEF Next

-----------------------------------------------------------------------------
(* The inductive invariant.                                                *)

LEMMA InitInv == Init => Inv
<1> SUFFICES ASSUME Init PROVE Inv
  OBVIOUS
<1>1. NoPut.todo = {}
  BY DEF NoPut
<1> QED
  BY <1>1, InitTypeInv DEF Init, Inv, PutKnown

LEMMA NextPutKnown == Inv /\ [Next]_vars => PutKnown'
<1> SUFFICES ASSUME Inv, [Next]_vars PROVE PutKnown'
  OBVIOUS
<1>0. put \in [Admin -> PutType] /\ NoPut.todo = {}
  BY DEF Inv, TypeInv, PutOK, NoPut
<1>1. CASE UNCHANGED put
  BY <1>1 DEF Inv, PutKnown
<1>2. ASSUME NEW a \in Admin, NEW r, put' = [put EXCEPT ![a] = r],
             \A p \in r.todo : r.snap[p].status \in Waitable
      PROVE  PutKnown'
  BY <1>0, <1>2 DEF Inv, PutKnown
<1>3. ASSUME NEW a \in Admin, NEW e \in Env, NEW pol \in Policies, PutEnv(a, e, pol) PROVE PutKnown'
  <2> DEFINE r == [NoPut EXCEPT !.pc = "list", !.env = e, !.pol = pol]
  <2>1. r.todo = {}
    BY DEF NoPut
  <2>2. put' = [put EXCEPT ![a] = r]
    BY <1>3 DEF PutEnv
  <2> HIDE DEF r
  <2> QED
    BY <1>2, <2>1, <2>2
<1>4. ASSUME NEW a \in Admin, ReevaluateList(a) PROVE PutKnown'
  <2> DEFINE S == {p \in Promo : promo[p].env = put[a].env /\ promo[p].status \in Waitable}
             r == [put[a] EXCEPT !.pc = "visit", !.at = now, !.snap = promo, !.todo = S]
  <2>1. put' = [put EXCEPT ![a] = r]
    BY <1>0, <1>4 DEF ReevaluateList
  <2>2. r.todo = S /\ r.snap = promo
    BY <1>0 DEF PutType
  <2> HIDE DEF r
  <2> QED
    BY <1>2, <2>1, <2>2
<1>5. ASSUME NEW a \in Admin, ReevaluateVisit(a) PROVE PutKnown'
  <2>1. PICK p \in Promo : put' = [put EXCEPT ![a].todo = @ \ {p}]
    BY <1>5 DEF ReevaluateVisit
  <2> DEFINE r == [put[a] EXCEPT !.todo = put[a].todo \ {p}]
  <2>2. put' = [put EXCEPT ![a] = r]
    BY <1>0, <2>1
  <2>3. r.todo \subseteq put[a].todo /\ r.snap = put[a].snap
    BY <1>0 DEF PutType
  <2> HIDE DEF r
  <2> QED
    BY <1>2, <2>2, <2>3 DEF Inv, PutKnown
<1>6. ASSUME NEW a \in Admin, PutEnd(a) PROVE PutKnown'
  BY <1>0, <1>2, <1>6 DEF PutEnd
<1>7. CASE PolicyChange
  BY <1>3, <1>4, <1>5, <1>6, <1>7 DEF PolicyChange
<1>8. CASE Request
  <2>1. ASSUME NEW c, NEW u, NEW e, NEW sha, NEW from, NEW key, CreateLoad(c, u, e, sha, from, key)
        PROVE  UNCHANGED put
    BY <2>1 DEF CreateLoad
  <2>2. ASSUME NEW c, NEW u, NEW p, NEW approve, DecideLoad(c, u, p, approve) PROVE UNCHANGED put
    BY <2>2 DEF DecideLoad
  <2>3. ASSUME NEW c, CreateInsert(c) \/ AddDecision(c) \/ AbandonRequest(c) PROVE UNCHANGED put
    BY <2>3 DEF CreateInsert, AddDecision, AbandonRequest
  <2>4. ASSUME NEW u, NEW p, Cancel(u, p) PROVE UNCHANGED put
    BY <2>4 DEF Cancel
  <2> QED
    BY <1>1, <1>8, <2>1, <2>2, <2>3, <2>4 DEF Request
<1>9. CASE World
  BY <1>1, <1>9 DEF World, Tock, CommitChange, Redeploy, DeploymentMoves
<1>10. CASE \E pr \in Proc : Tick(pr) \/ Crash(pr)
  <2>1. ASSUME NEW pr, TickExpire(pr) \/ TickSync(pr) \/ TickList(pr) \/ TickGetEnv(pr) \/ TickSkip(pr)
        PROVE  UNCHANGED put
    BY <2>1 DEF TickExpire, TickSync, TickList, TickGetEnv, TickSkip
  <2>2. ASSUME NEW pr, TickClaim(pr) \/ TickLaunch(pr) \/ TickSave(pr) \/ TickEnd(pr) \/ Crash(pr)
        PROVE  UNCHANGED put
    BY <2>2 DEF TickClaim, TickLaunch, TickSave, TickEnd, Crash
  <2>3. ASSUME NEW pr, NEW p, TickAdvance(pr, p) \/ TickPoll(pr, p) PROVE UNCHANGED put
    BY <2>3 DEF TickAdvance, TickPoll
  <2>4. ASSUME NEW pr, NEW p, TickRelaunch(pr, p) \/ TickStart(pr, p) PROVE UNCHANGED put
    BY <2>4 DEF TickRelaunch, TickStart
  <2> QED
    BY <1>1, <1>10, <2>1, <2>2, <2>3, <2>4 DEF Tick
<1>11. CASE UNCHANGED vars
  BY <1>1, <1>11 DEF vars
<1> QED
  BY <1>7, <1>8, <1>9, <1>10, <1>11 DEF Next

LEMMA NextInv == Inv /\ [Next]_vars => Inv'
BY NextTypeInv, NextPutKnown DEF Inv

-----------------------------------------------------------------------------
(* The theorems.                                                           *)

LEMMA RowStepKeepsOneDeploying == RowStep /\ OneDeploying => OneDeploying'
<1> SUFFICES ASSUME RowStep, OneDeploying PROVE OneDeploying'
  OBVIOUS
<1>1. CASE UNCHANGED promo
  BY <1>1 DEF OneDeploying
<1>2. CASE Expires
  BY <1>2 DEF Expires, OneDeploying
<1>3. ASSUME NEW p \in Promo, Moves(p) PROVE OneDeploying'
  BY <1>3 DEF Moves, SlotFree, OneDeploying
<1> QED
  BY <1>1, <1>2, <1>3 DEF RowStep

\* However many processes tick, crash and claim, at most one promotion of an
\* environment is deploying.
THEOREM EnvironmentQueue == Spec => []OneDeploying
<1>1. Init => Inv /\ OneDeploying
  <2>1. Init => OneDeploying
    <3> SUFFICES ASSUME Init PROVE OneDeploying
      OBVIOUS
    <3>1. \A p \in Promo : promo[p].status = "none"
      BY DEF Init, NoPromo
    <3> QED
      BY <3>1 DEF OneDeploying
  <2> QED
    BY <2>1, InitInv
<1>2. Inv /\ OneDeploying /\ [Next]_vars => Inv' /\ OneDeploying'
  BY NextInv, NextRowStep, RowStepKeepsOneDeploying
<1> QED
  BY <1>1, <1>2, PTL DEF Spec

\* A veto, a cancellation, an expiry or an outcome is never undone by a
\* decision, a policy change or a loop that read the promotion before it.
THEOREM OutcomesFinal == Spec => FinalIsFinal
<1> DEFINE Keep == \A p \in Promo : promo[p].status \in Final =>
                      promo'[p].status = promo[p].status /\ promo'[p].approvals = promo[p].approvals
<1>1. RowStep => Keep
  BY StatusSets DEF RowStep, Expires, Moves
<1>2. Inv /\ [Next]_vars => [Keep]_vars
  BY <1>1, NextRowStep
<1>3. Spec => []Inv
  BY InitInv, NextInv, PTL DEF Spec
<1> QED
  BY <1>2, <1>3, PTL DEF Spec, FinalIsFinal

-----------------------------------------------------------------------------
(* What requests, policy changes and loops remember while the rows go on.  *)

\* The row a snapshot was taken of has the same environment and requester, and no approval fewer.
Older(old, row) ==
    old.status # "none" =>
       row.status # "none" /\ old.env = row.env /\ old.by = row.by /\ old.approvals \subseteq row.approvals

\* Commit sha was deployed in the environment that feeds env, whichever policy env ever had.
Fed(env, sha) ==
    \A e \in Env : (\A pol \in inForce[env] : pol.source = e) =>
       \E q \in Promo : promo[q].env = e /\ promo[q].sha = sha /\ promo[q].status = "success"

BlankOK == \A p \in Promo : promo[p].status = "none" => promo[p].key = NoKey /\ promo[p].dep = NoDep

\* The history row of an expired promotion says where it waited, until it is synced.
ExpiredOK ==
    \A p \in Promo : promo[p].status = "expired" =>
       hist[p].status \in {"pending_approval", "waiting", "queued", "expired"}

\* HistoryMirrors without what it says of expired promotions.
RowsMirror ==
    \A p \in Promo :
       /\ promo[p].status # "expired" => hist[p].status = EnvDeploymentStatus(promo[p].status)
       /\ hist[p].dep = promo[p].dep

PolicyKnown == \A e \in Env : policy[e] \in inForce[e]

ReqSeen(r) ==
    /\ r.kind = "create" => r.pol \in inForce[r.env] /\ Fed(r.env, r.sha)
    /\ r.kind \in {"approve", "reject"} => promo[r.promo].status # "none" /\ r.pol \in inForce[promo[r.promo].env]

PutSeen(r) ==
    /\ r.pc # "idle" => r.pol \in inForce[r.env]
    /\ \A p \in Promo : Older(r.snap[p], promo[p])
    /\ \A p \in r.todo : r.snap[p].env = r.env

InLoop == {"loop", "claim", "launch", "save"}
TickSeen(t) ==
    /\ \A e \in Env : t.cache[e] \in Policies => t.cache[e] \in inForce[e]
    /\ \A p \in Promo : Older(t.snap[p], promo[p])
    /\ t.pc \in InLoop => \A p \in t.todo : t.snap[p].status # "none"
    /\ t.pc = "sync" => t.ready = {}
    /\ \A p \in t.ready : t.snap[p].status # "none"
    /\ t.pc \in {"claim", "launch", "save"} => promo[t.cur].status # "none"

\* The deployment a loop is about to save was created for the promotion it launches.
SaveSeen(t) == t.pc = "save" => t.dep \in Dep /\ deps[t.dep].promo = t.cur /\ deps[t.dep].status # "none"

Seen ==
    /\ \A c \in Client : ReqSeen(req[c])
    /\ \A a \in Admin : PutSeen(put[a])
    /\ \A pr \in Proc : TickSeen(tick[pr]) /\ SaveSeen(tick[pr])

RowsTrue ==
    /\ BlankOK /\ ExpiredOK /\ RowsMirror
    /\ QuorumHonoured /\ QuorumNotMissed /\ NoDuplicateRequest /\ SourceEnvironmentHonoured

Strong == Inv /\ PolicyKnown /\ Seen /\ RowsTrue

-----------------------------------------------------------------------------
(* What a step does to the two tables.                                     *)

\* row may be written over the row of p: p keeps what it is, and passes or misses the quorum under a policy
\* its environment has had.
Amends(p, row) ==
    /\ promo[p].status \in Active /\ row.status \notin {"none", "expired"}
    /\ row.env = promo[p].env /\ row.sha = promo[p].sha /\ row.by = promo[p].by /\ row.key = promo[p].key
    /\ row.dep = promo[p].dep /\ promo[p].approvals \subseteq row.approvals
    /\ row.status \in PastQuorum =>
          \/ promo[p].status \in PastQuorum /\ row.approvals = promo[p].approvals
          \/ \E pol \in inForce[promo[p].env] : CountApprovals(pol, row) >= pol.required
    /\ row.status = "pending_approval" =>
          \/ promo[p].status = "pending_approval" /\ row.approvals = promo[p].approvals
          \/ \E pol \in inForce[promo[p].env] : CountApprovals(pol, row) < pol.required

Amended == \E p \in Promo, row \in Promotion : Write(p, row) /\ Amends(p, row)
Inserted ==
    \E c \in Client, p \in Promo :
       req[c].kind = "create" /\ Insertable(req[c]) /\ promo[p].status = "none" /\ Write(p, NewRow(req[c]))
Overdue(p) == promo[p].status \in Waitable /\ promo'[p] = [promo[p] EXCEPT !.status = "expired"]
Lapsed == UNCHANGED hist /\ \A p \in Promo : promo'[p] = promo[p] \/ Overdue(p)
Synced == \E p \in Promo : Write(p, promo[p])
Saved == \E p \in Promo, d \in Dep : SetDeployment(p, d) /\ promo[p].status # "none"

Effect == UNCHANGED rows \/ Amended \/ Inserted \/ Lapsed \/ Synced \/ Saved

LEMMA CountMonotone ==
    ASSUME NEW pol, NEW a, NEW b, a.by = b.by, a.approvals \subseteq b.approvals, b.approvals \subseteq User
    PROVE  /\ CountApprovals(pol, a) \in Nat /\ CountApprovals(pol, b) \in Nat
           /\ CountApprovals(pol, a) <= CountApprovals(pol, b)
<1> DEFINE S == IF pol.allowSelf THEN a.approvals ELSE a.approvals \ {a.by}
           T == IF pol.allowSelf THEN b.approvals ELSE b.approvals \ {b.by}
<1>1. S \subseteq T /\ T \subseteq User
  OBVIOUS
<1>2. IsFiniteSet(T)
  BY <1>1, FS_Subset, ConstantsAssumption
<1>3. IsFiniteSet(S) /\ Cardinality(S) <= Cardinality(T)
  BY <1>1, <1>2, FS_Subset
<1>4. Cardinality(S) \in Nat /\ Cardinality(T) \in Nat
  BY <1>2, <1>3, FS_CardinalityType
<1> HIDE DEF S, T
<1>5. CountApprovals(pol, a) = Cardinality(S) /\ CountApprovals(pol, b) = Cardinality(T)
  BY DEF CountApprovals, S, T
<1> QED
  BY <1>3, <1>4, <1>5

LEMMA PolicyTypes == ASSUME NEW pol \in Policies PROVE pol.required \in Nat
BY ConstantsAssumption DEF Policy

LEMMA PromotionTypes ==
    ASSUME RowsOK, NEW p \in Promo
    PROVE  /\ promo[p] \in Promotion /\ promo[p].status \in Status /\ promo[p].env \in Env /\ promo[p].sha \in Sha
           /\ promo[p].approvals \subseteq User /\ promo[p].dep \in Dep \cup {NoDep}
<1>1. promo[p] \in Promotion
  BY DEF RowsOK
<1> QED
  BY <1>1 DEF Promotion

LEMMA StatusNames ==
    /\ Waitable \subseteq Active /\ "deploying" \in Active /\ "none" \notin Active /\ "expired" \notin Active
    /\ Active \cap Final = {} /\ Status = {"none"} \cup Active \cup Final
    /\ "pending_approval" \notin PastQuorum /\ "cancelled" \notin PastQuorum /\ "rejected" \notin PastQuorum
    /\ "expired" \notin PastQuorum /\ "none" \notin PastQuorum
    /\ Active \ PastQuorum = {"pending_approval"}
    /\ "approved" \in Active /\ {"waiting", "approved", "deploying", "success", "failed"} = PastQuorum
BY DEF Waitable, Active, Final, Status, PastQuorum

\* Whoever writes one status over another writes the rest of the row as it was.
LEMMA MildAmends ==
    ASSUME RowsOK, NEW p \in Promo, NEW row \in Promotion, promo[p].status \in Active,
           row.status \notin {"none", "expired", "pending_approval"},
           row.status \in PastQuorum => promo[p].status \in PastQuorum,
           row.env = promo[p].env, row.sha = promo[p].sha, row.by = promo[p].by, row.key = promo[p].key,
           row.dep = promo[p].dep, row.approvals = promo[p].approvals, Write(p, row)
    PROVE  Effect
<1>1. Amends(p, row)
  BY DEF Amends
<1> QED
  BY <1>1 DEF Effect, Amended

LEMMA StatusAmends ==
    ASSUME RowsOK, NEW p \in Promo, NEW from, from \subseteq Active,
           NEW st \in Status \ {"none", "expired", "pending_approval"},
           st \in PastQuorum => from \subseteq PastQuorum,
           Transition(p, from, [promo[p] EXCEPT !.status = st])
    PROVE  Effect
<1> DEFINE row == [promo[p] EXCEPT !.status = st]
<1>1. /\ row \in Promotion /\ row.status = st /\ row.env = promo[p].env /\ row.sha = promo[p].sha
      /\ row.by = promo[p].by /\ row.key = promo[p].key /\ row.dep = promo[p].dep
      /\ row.approvals = promo[p].approvals
  BY PromotionTypes DEF Promotion
<1>2. promo[p].status \in from /\ Write(p, row)
  BY DEF Transition, CanTransition
<1> HIDE DEF row
<1> QED
  BY <1>1, <1>2, MildAmends

\* What advance writes from a snapshot and a policy that may both be old.
LEMMA AdvancedAmends ==
    ASSUME RowsOK, RulesOK, NEW p \in Promo, NEW old \in Promotion, old.status \in Waitable, Older(old, promo[p]),
           NEW pol \in Policies, pol \in inForce[promo[p].env], NEW t \in 0..MaxNow,
           Transition(p, {old.status}, Advanced(pol, old, t, promo[p]))
    PROVE  Effect
<1> DEFINE row == Advanced(pol, old, t, promo[p])
           adv == Advance(pol, old, t)
<1>1. row \in Promotion
  BY PromotionTypes, AdvancedType
<1>2. /\ row.status = adv.status /\ row.env = promo[p].env /\ row.sha = promo[p].sha
      /\ row.by = promo[p].by /\ row.key = promo[p].key /\ row.dep = promo[p].dep
      /\ row.approvals = promo[p].approvals
  BY PromotionTypes DEF Promotion, Advanced
<1>3. promo[p].status = old.status /\ Write(p, row)
  BY DEF Transition, CanTransition
<1>4. \/ old.status = "pending_approval" /\ CountApprovals(pol, old) < pol.required /\ adv.status = old.status
      \/ /\ old.status = "pending_approval" /\ ~(CountApprovals(pol, old) < pol.required)
         /\ adv.status \in {"waiting", "approved"}
      \/ old.status \in {"waiting", "approved"} /\ adv.status \in {"waiting", "approved"}
  BY NextAfterQuorumType DEF Advance, Waitable, Promotion
<1> HIDE DEF row, adv
<1>5. CASE old.status = "pending_approval" /\ adv.status = old.status
  <2>1. Amends(p, row)
    BY <1>2, <1>3, <1>5, StatusNames DEF Amends, Waitable
  <2> QED
    BY <1>1, <1>3, <2>1 DEF Effect, Amended
<1>6. CASE /\ old.status = "pending_approval" /\ ~(CountApprovals(pol, old) < pol.required)
           /\ adv.status \in {"waiting", "approved"}
  <2>1. old.by = row.by /\ old.approvals \subseteq row.approvals /\ row.approvals \subseteq User
    BY <1>2, <1>6, PromotionTypes DEF Older
  <2>2. /\ CountApprovals(pol, old) \in Nat /\ CountApprovals(pol, row) \in Nat
        /\ CountApprovals(pol, old) <= CountApprovals(pol, row)
    BY <2>1, CountMonotone
  <2>3. CountApprovals(pol, row) >= pol.required
    BY <1>6, <2>2, PolicyTypes
  <2>4. Amends(p, row)
    BY <1>2, <1>3, <1>6, <2>3, StatusNames DEF Amends
  <2> QED
    BY <1>1, <1>3, <2>4 DEF Effect, Amended
<1>7. CASE old.status \in {"waiting", "approved"} /\ adv.status \in {"waiting", "approved"}
  BY <1>1, <1>2, <1>3, <1>7, StatusNames, MildAmends
<1> QED
  BY <1>4, <1>5, <1>6, <1>7

LEMMA RefusedEffect == ASSUME NEW p, NEW from, NEW to, Refused(p, from, to) PROVE Effect
BY DEF Refused, Effect

LEMMA SameEffect == ASSUME UNCHANGED rows PROVE Effect
BY DEF Effect

LEMMA StrongParts ==
    ASSUME Strong
    PROVE  /\ TypeInv /\ RowsOK /\ DepsOK /\ RulesOK /\ OutsideOK /\ ReqOK /\ PutOK /\ TickOK /\ PutKnown
           /\ \A c \in Client : ReqSeen(req[c]) /\ ReqShape(req[c])
           /\ \A a \in Admin : PutSeen(put[a]) /\ PutShape(put[a])
           /\ \A pr \in Proc : TickSeen(tick[pr]) /\ SaveSeen(tick[pr]) /\ TickShape(tick[pr])
BY DEF Strong, Inv, TypeInv, Seen, ReqOK, PutOK, TickOK

\* An approval counts what it finds under the row's lock, with the policy its request read.
LEMMA ApprovedAmends ==
    ASSUME RowsOK, RulesOK, NEW d, ReqShape(d), d.kind = "approve", NEW p \in Promo, p = d.promo,
           promo[p].status = "pending_approval", d.pol \in inForce[promo[p].env], Write(p, Approved(d, promo[p]))
    PROVE  Effect
<1> DEFINE next == [promo[p] EXCEPT !.approvals = @ \cup {d.user}]
           row == Approved(d, promo[p])
<1>1. d \in ReqType /\ d.user \in User /\ d.pol \in Policies
  BY DEF ReqShape
<1>2. row \in Promotion /\ promo[p] \in Promotion
  BY <1>1, PromotionTypes, ApprovedType
<1>3. /\ next \in Promotion /\ next.status = promo[p].status /\ next.env = promo[p].env /\ next.sha = promo[p].sha
      /\ next.by = promo[p].by /\ next.key = promo[p].key /\ next.dep = promo[p].dep
      /\ next.approvals = promo[p].approvals \cup {d.user}
  BY <1>1, <1>2 DEF Promotion
<1>4. CASE CountApprovals(d.pol, next) >= d.pol.required
  <2>1. row = [next EXCEPT !.status = NextAfterQuorum(d.pol, d.at, d.at), !.quorumAt = d.at]
    BY <1>4 DEF Approved
  <2> HIDE DEF next, row
  <2>2. /\ row.status \in {"waiting", "approved"} /\ row.env = next.env /\ row.sha = next.sha /\ row.by = next.by
        /\ row.key = next.key /\ row.dep = next.dep /\ row.approvals = next.approvals
    BY <1>3, <2>1, NextAfterQuorumType DEF Promotion
  <2>3. CountApprovals(d.pol, row) >= d.pol.required
    BY <1>4, <2>2 DEF CountApprovals
  <2>4. Amends(p, row)
    BY <1>3, <2>2, <2>3, StatusNames DEF Amends, Waitable
  <2> QED
    BY <1>2, <2>4 DEF Effect, Amended, row
<1>5. CASE ~(CountApprovals(d.pol, next) >= d.pol.required)
  <2>1. row = next
    BY <1>5 DEF Approved
  <2>2. CountApprovals(d.pol, next) \in Nat /\ d.pol.required \in Nat
    <3>1. next.approvals \subseteq User
      BY <1>3 DEF Promotion
    <3> HIDE DEF next
    <3> QED
      BY <1>1, <3>1, CountMonotone, PolicyTypes
  <2> HIDE DEF next, row
  <2>3. CountApprovals(d.pol, row) < d.pol.required
    BY <1>5, <2>1, <2>2
  <2>4. Amends(p, row)
    BY <1>3, <2>1, <2>3, StatusNames DEF Amends, Waitable
  <2> QED
    BY <1>2, <2>4 DEF Effect, Amended, row
<1> QED
  BY <1>4, <1>5

LEMMA RequestEffect == Strong /\ Request => Effect
<1> SUFFICES ASSUME Strong, Request PROVE Effect
  OBVIOUS
<1>0. RowsOK /\ RulesOK
  BY StrongParts
<1>1. ASSUME NEW c \in Client, CreateInsert(c) PROVE Effect
  <2>1. \A p \in Promo : Oldest(p, Unused) => promo[p].status = "none"
    BY DEF Oldest, Unused
  <2> QED
    BY <1>1, <2>1 DEF CreateInsert, Effect, Inserted
<1>2. ASSUME NEW c \in Client, AddDecision(c) PROVE Effect
  <2>1. req[c].kind \in {"approve", "reject"}
    BY <1>2 DEF AddDecision
  <2>2. PICK p \in Promo : p = req[c].promo
    BY <2>1, StrongParts DEF ReqShape
  <2>3. req[c].pol \in inForce[promo[p].env] /\ ReqShape(req[c])
    BY <2>1, <2>2, StrongParts DEF ReqSeen
  <2>4. CASE UNCHANGED rows
    BY <2>4 DEF Effect
  <2>5. CASE req[c].kind = "approve" /\ promo[p].status = "pending_approval" /\ Write(p, Approved(req[c], promo[p]))
    BY <1>0, <2>2, <2>3, <2>5, ApprovedAmends
  <2>6. CASE req[c].kind = "reject" /\ promo[p].status \in Waitable /\ Write(p, [promo[p] EXCEPT !.status = "rejected"])
    <3> DEFINE row == [promo[p] EXCEPT !.status = "rejected"]
    <3>1. /\ row \in Promotion /\ row.status = "rejected" /\ row.env = promo[p].env /\ row.sha = promo[p].sha
          /\ row.by = promo[p].by /\ row.key = promo[p].key /\ row.dep = promo[p].dep
          /\ row.approvals = promo[p].approvals
      BY <1>0, PromotionTypes, StatusNames DEF Promotion, Final
    <3>2. Write(p, row)
      BY <2>6
    <3> HIDE DEF row
    <3> QED
      BY <1>0, <2>6, <3>1, <3>2, StatusNames, MildAmends
  <2>7. \/ UNCHANGED rows
        \/ req[c].kind = "approve" /\ promo[p].status = "pending_approval" /\ Write(p, Approved(req[c], promo[p]))
        \/ req[c].kind = "reject" /\ promo[p].status \in Waitable /\ Write(p, [promo[p] EXCEPT !.status = "rejected"])
    BY <1>2, <2>1, <2>2 DEF AddDecision
  <2> QED
    BY <2>4, <2>5, <2>6, <2>7
<1>3. ASSUME NEW u \in User, NEW p \in Promo, Cancel(u, p) PROVE Effect
  <2>1. "cancelled" \in Status \ {"none", "expired", "pending_approval"}
    BY DEF Status, Final
  <2> QED
    BY <1>0, <1>3, <2>1, StatusAmends, StatusNames DEF Cancel
<1>4. ASSUME NEW c \in Client, NEW u \in Requester, NEW e \in Env, NEW sha \in Sha, NEW from \in Env \cup {NoEnv},
             NEW key \in Key \cup {NoKey}, CreateLoad(c, u, e, sha, from, key)
      PROVE  Effect
  BY <1>4 DEF CreateLoad, Effect
<1>5. ASSUME NEW c \in Client, NEW u \in User, NEW p \in Promo, NEW approve \in BOOLEAN, DecideLoad(c, u, p, approve)
      PROVE  Effect
  BY <1>5 DEF DecideLoad, Effect
<1>6. ASSUME NEW c \in Client, AbandonRequest(c) PROVE Effect
  BY <1>6 DEF AbandonRequest, Effect
<1> QED
  BY <1>1, <1>2, <1>3, <1>4, <1>5, <1>6 DEF Request

LEMMA PolicyEffect == Strong /\ PolicyChange => Effect
<1> SUFFICES ASSUME Strong, PolicyChange PROVE Effect
  OBVIOUS
<1>0. RowsOK /\ RulesOK
  BY StrongParts
<1>1. ASSUME NEW a \in Admin, ReevaluateVisit(a) PROVE Effect
  <2> DEFINE old(p) == put[a].snap[p]
             blocked(p) == CheckStatic(put[a].pol, old(p).sha, old(p).from) = NoSource
             new(p) == IF blocked(p) THEN [promo[p] EXCEPT !.status = "cancelled"]
                       ELSE Advanced(put[a].pol, old(p), put[a].at, promo[p])
  <2>1. PICK p \in Promo :
          /\ Oldest(p, put[a].todo)
          /\ \/ Transition(p, {old(p).status}, new(p))
             \/ Refused(p, {old(p).status}, new(p).status)
             \/ UNCHANGED rows
    BY <1>1 DEF ReevaluateVisit
  <2>2. p \in put[a].todo /\ put[a].pc # "idle"
    BY <1>1, <2>1 DEF Oldest, ReevaluateVisit
  <2>3. /\ old(p) \in Promotion /\ old(p).status \in Waitable /\ put[a].at \in 0..MaxNow
        /\ put[a].pol \in Policies
    BY <2>2, StrongParts, PutFields DEF PutShape, PutKnown
  <2>4. Older(old(p), promo[p]) /\ old(p).env = put[a].env /\ put[a].pol \in inForce[put[a].env]
    BY <2>2, StrongParts DEF PutSeen
  <2>5. put[a].pol \in inForce[promo[p].env]
    BY <2>3, <2>4, StatusSets, StatusNames DEF Older
  <2>6. CASE Transition(p, {old(p).status}, new(p)) /\ blocked(p)
    <3>1. "cancelled" \in Status \ {"none", "expired", "pending_approval"} /\ {old(p).status} \subseteq Active
      BY <2>3, StatusNames DEF Final
    <3> QED
      BY <1>0, <2>6, <3>1, StatusAmends, StatusNames
  <2>7. CASE Transition(p, {old(p).status}, new(p)) /\ ~blocked(p)
    BY <1>0, <2>3, <2>4, <2>5, <2>7, AdvancedAmends
  <2> QED
    BY <2>1, <2>6, <2>7, RefusedEffect, SameEffect
<1>2. ASSUME NEW a \in Admin, NEW e \in Env, NEW pol \in Policies, PutEnv(a, e, pol) PROVE Effect
  BY <1>2 DEF PutEnv, Effect
<1>3. ASSUME NEW a \in Admin, ReevaluateList(a) \/ PutEnd(a) PROVE Effect
  BY <1>3 DEF ReevaluateList, PutEnd, Effect
<1> QED
  BY <1>1, <1>2, <1>3 DEF PolicyChange

LEMMA ClaimEffect ==
    ASSUME RowsOK, NEW p \in Promo, NEW at \in Instant,
           Transition(p, {"approved"}, [promo[p] EXCEPT !.status = "deploying", !.startedAt = at])
    PROVE  Effect
<1> DEFINE row == [promo[p] EXCEPT !.status = "deploying", !.startedAt = at]
<1>1. promo[p] \in Promotion /\ "deploying" \in Status
  BY PromotionTypes DEF Status, Active
<1>2. row \in Promotion
  BY <1>1 DEF Promotion
<1>3. /\ row.status = "deploying" /\ row.env = promo[p].env /\ row.sha = promo[p].sha
      /\ row.by = promo[p].by /\ row.key = promo[p].key /\ row.dep = promo[p].dep
      /\ row.approvals = promo[p].approvals
  BY <1>1 DEF Promotion
<1>4. Write(p, row) /\ promo[p].status = "approved"
  BY DEF Transition, CanTransition
<1> HIDE DEF row
<1> QED
  BY <1>2, <1>3, <1>4, StatusNames, MildAmends

LEMMA TickWritesEffect ==
    ASSUME Strong, NEW pr \in Proc,
           TickExpire(pr) \/ TickSync(pr) \/ TickClaim(pr) \/ TickLaunch(pr) \/ TickSave(pr)
    PROVE  Effect
<1>0. RowsOK /\ TickOK /\ TickSeen(tick[pr]) /\ SaveSeen(tick[pr])
  BY StrongParts
<1>1. CASE TickExpire(pr)
  <2>1. CASE UNCHANGED promo
    BY <1>1, <2>1 DEF TickExpire, Effect, rows
  <2>2. CASE promo' = [p \in Promo |->
               IF p \in {q \in Promo : promo[q].status \in Waitable /\ promo[q].expiresAt <= now}
               THEN [promo[p] EXCEPT !.status = "expired"] ELSE promo[p]]
    BY <1>1, <2>2 DEF TickExpire, Effect, Lapsed, Overdue
  <2> QED
    BY <1>1, <2>1, <2>2 DEF TickExpire
<1>2. CASE TickSync(pr)
  BY <1>2 DEF TickSync, Effect, Synced
<1>3. CASE TickClaim(pr)
  <2>1. PICK p \in Promo : p = tick[pr].cur
    BY <1>0, <1>3, TickAt DEF TickClaim
  <2>2. tick[pr].at \in Instant
    BY <1>0, TickAt, TickFields, ConstantsAssumption DEF Instant
  <2>3. ASSUME Transition(p, {"approved"}, [promo[p] EXCEPT !.status = "deploying", !.startedAt = tick[pr].at])
        PROVE Effect
    BY <1>0, <2>2, <2>3, ClaimEffect, Zenon
  <2> QED
    BY <1>3, <2>1, <2>3, RefusedEffect, SameEffect DEF TickClaim
<1>4. CASE TickLaunch(pr)
  <2>1. tick[pr].cur \in Promo
    BY <1>0, <1>4, TickAt DEF TickLaunch
  <2>2. "failed" \in Status \ {"none", "expired", "pending_approval"} /\ {"deploying"} \subseteq PastQuorum
    BY StatusNames DEF Final
  <2>3. \/ UNCHANGED rows
        \/ Transition(tick[pr].cur, {"deploying"}, [promo[tick[pr].cur] EXCEPT !.status = "failed"])
        \/ Refused(tick[pr].cur, {"deploying"}, "failed")
    BY <1>4 DEF TickLaunch
  <2>4. CASE Transition(tick[pr].cur, {"deploying"}, [promo[tick[pr].cur] EXCEPT !.status = "failed"])
    BY <1>0, <2>1, <2>2, <2>4, StatusAmends, StatusNames
  <2> QED
    BY <2>3, <2>4, RefusedEffect, SameEffect
<1>5. CASE TickSave(pr)
  <2>1. tick[pr].cur \in Promo /\ tick[pr].dep \in Dep /\ promo[tick[pr].cur].status # "none"
    BY <1>0, <1>5, TickAt DEF TickSave, TickSeen, SaveSeen
  <2>2. CASE SetDeployment(tick[pr].cur, tick[pr].dep)
    BY <2>1, <2>2 DEF Effect, Saved
  <2> QED
    BY <1>5, <2>2 DEF TickSave, Effect
<1> QED
  BY <1>1, <1>2, <1>3, <1>4, <1>5

LEMMA RelaunchWrites ==
    ASSUME NEW pr \in Proc, NEW p \in Promo, TickRelaunch(pr, p)
    PROVE  \/ UNCHANGED rows
           \/ Transition(p, {"deploying"}, [promo[p] EXCEPT !.status = "failed"])
           \/ Refused(p, {"deploying"}, "failed")
<1>1. \/ UNCHANGED rows
      \/ Fault /\ Transition(p, {"deploying"}, [promo[p] EXCEPT !.status = "failed"])
      \/ Fault /\ Refused(p, {"deploying"}, "failed")
  BY Zenon DEF TickRelaunch
<1> QED
  BY <1>1, Zenon

LEMMA TickVisitsEffect ==
    ASSUME Strong, NEW pr \in Proc, NEW p \in Promo,
           TickAdvance(pr, p) \/ TickPoll(pr, p) \/ TickRelaunch(pr, p) \/ TickStart(pr, p)
    PROVE  Effect
<1>0. RowsOK /\ RulesOK /\ tick[pr] \in TickType /\ TickSeen(tick[pr])
  BY StrongParts, TickAt
<1> DEFINE old == tick[pr].snap[p]
<1>1. /\ "failed" \in Status \ {"none", "expired", "pending_approval"} /\ {"deploying"} \subseteq PastQuorum
      /\ "success" \in Status \ {"none", "expired", "pending_approval"} /\ {"deploying"} \subseteq Active
      /\ "cancelled" \in Status \ {"none", "expired", "pending_approval"} /\ {"approved"} \subseteq Active
  BY StatusNames DEF Final
<1>2. ASSUME NEW to \in {"success", "failed"}, Transition(p, {"deploying"}, [promo[p] EXCEPT !.status = to]) PROVE Effect
  BY <1>0, <1>1, <1>2, StatusAmends
<1>3. CASE TickAdvance(pr, p)
  <2> DEFINE new == Advanced(tick[pr].cache[old.env], old, tick[pr].at, promo[p])
  <2>1. old.status \in Waitable /\ tick[pr].cache[old.env] \in Policies
    BY <1>3 DEF TickAdvance, Visiting
  <2>2. old \in Promotion /\ old.env \in Env /\ tick[pr].at \in 0..MaxNow
    BY <1>0, TickFields
  <2>3. Older(old, promo[p]) /\ tick[pr].cache[old.env] \in inForce[old.env]
    BY <1>0, <2>1, <2>2 DEF TickSeen
  <2>4. tick[pr].cache[old.env] \in inForce[promo[p].env]
    BY <2>1, <2>3, StatusNames DEF Older
  <2>5. \/ UNCHANGED rows
        \/ Transition(p, {old.status}, new)
        \/ Refused(p, {old.status}, new.status)
    BY <1>3 DEF TickAdvance
  <2>6. CASE Transition(p, {old.status}, new)
    BY <1>0, <2>1, <2>2, <2>3, <2>4, <2>6, AdvancedAmends
  <2> QED
    BY <2>5, <2>6, RefusedEffect, SameEffect
<1>4. CASE TickPoll(pr, p)
  <2>1. \/ UNCHANGED rows
        \/ \E to \in {"success", "failed"} : \/ Transition(p, {"deploying"}, [promo[p] EXCEPT !.status = to])
                                             \/ Refused(p, {"deploying"}, to)
    <3>1. \A st, late : Verdict(st, late) \in {"success", "failed", "none"}
      BY DEF Verdict
    <3> QED
      BY <1>4, <3>1 DEF TickPoll, Finish
  <2> QED
    BY <1>2, <2>1, RefusedEffect, SameEffect
<1>5. CASE TickRelaunch(pr, p)
  <2>1. \/ UNCHANGED rows
        \/ Transition(p, {"deploying"}, [promo[p] EXCEPT !.status = "failed"])
        \/ Refused(p, {"deploying"}, "failed")
    BY <1>5, RelaunchWrites
  <2> QED
    BY <1>2, <2>1, RefusedEffect, SameEffect
<1>6. CASE TickStart(pr, p)
  <2>1. \/ UNCHANGED rows
        \/ Transition(p, {"approved"}, [promo[p] EXCEPT !.status = "cancelled"])
        \/ Refused(p, {"approved"}, "cancelled")
    BY <1>6 DEF TickStart
  <2>2. CASE Transition(p, {"approved"}, [promo[p] EXCEPT !.status = "cancelled"])
    BY <1>0, <1>1, <2>2, StatusAmends, StatusNames
  <2> QED
    BY <2>1, <2>2, RefusedEffect, SameEffect
<1> QED
  BY <1>3, <1>4, <1>5, <1>6

LEMMA NextEffect == Strong /\ [Next]_vars => Effect
<1> SUFFICES ASSUME Strong, [Next]_vars PROVE Effect
  OBVIOUS
<1>1. CASE World
  BY <1>1 DEF World, Tock, CommitChange, Redeploy, DeploymentMoves, Effect
<1>2. ASSUME NEW pr \in Proc, Tick(pr) \/ Crash(pr) PROVE Effect
  <2>1. CASE TickList(pr) \/ TickGetEnv(pr) \/ TickSkip(pr) \/ TickEnd(pr) \/ Crash(pr)
    BY <2>1 DEF TickList, TickGetEnv, TickSkip, TickEnd, Crash, Effect
  <2> QED
    BY <1>2, <2>1, TickWritesEffect, TickVisitsEffect DEF Tick
<1>3. CASE UNCHANGED vars
  BY <1>3 DEF vars, rows, Effect
<1> QED
  BY <1>1, <1>2, <1>3, RequestEffect, PolicyEffect DEF Next

-----------------------------------------------------------------------------
(* The rows after a step.                                                  *)

InForceGrows == \A e \in Env : inForce[e] \subseteq inForce'[e]

\* A promotion stays what it was requested as, loses no approval, and a success is one for good.
Grows ==
    \A p \in Promo : promo[p].status # "none" =>
       /\ promo'[p].status # "none" /\ promo'[p].env = promo[p].env /\ promo'[p].sha = promo[p].sha
       /\ promo'[p].by = promo[p].by /\ promo'[p].key = promo[p].key
       /\ promo[p].approvals \subseteq promo'[p].approvals
       /\ promo[p].status = "success" => promo'[p].status = "success"

LEMMA WriteMeans ==
    ASSUME RowsOK, NEW p \in Promo, NEW row, Write(p, row)
    PROVE  /\ promo'[p] = row /\ \A q \in Promo \ {p} : promo'[q] = promo[q] /\ hist'[q] = hist[q]
           /\ hist'[p].status = EnvDeploymentStatus(row.status)
           /\ hist'[p].dep = IF hist[p].dep # NoDep THEN hist[p].dep ELSE row.dep
BY DEF RowsOK, Write

LEMMA SavedMeans ==
    ASSUME RowsOK, NEW p \in Promo, NEW d \in Dep, SetDeployment(p, d)
    PROVE  /\ \A q \in Promo \ {p} : promo'[q] = promo[q] /\ hist'[q] = hist[q]
           /\ hist'[p].status = hist[p].status /\ hist'[p].dep = d
           /\ promo'[p].dep = d /\ promo'[p].status = promo[p].status /\ promo'[p].env = promo[p].env
           /\ promo'[p].sha = promo[p].sha /\ promo'[p].by = promo[p].by /\ promo'[p].key = promo[p].key
           /\ promo'[p].approvals = promo[p].approvals
BY PromotionTypes DEF RowsOK, SetDeployment, Promotion

LEMMA OverdueMeans ==
    ASSUME RowsOK, NEW p \in Promo, Overdue(p)
    PROVE  /\ promo[p].status \in Waitable
           /\ promo'[p].dep = promo[p].dep /\ promo'[p].status = "expired" /\ promo'[p].env = promo[p].env
           /\ promo'[p].sha = promo[p].sha /\ promo'[p].by = promo[p].by /\ promo'[p].key = promo[p].key
           /\ promo'[p].approvals = promo[p].approvals
BY PromotionTypes DEF Overdue, Promotion

\* The row of p after a step, whichever the step is.
Kept(p) == promo'[p] = promo[p] /\ hist'[p] = hist[p]
Resynced(p) == promo'[p] = promo[p] /\ hist'[p].status = EnvDeploymentStatus(promo[p].status) /\ hist'[p].dep = hist[p].dep
Mirrored(p) == hist'[p].status = EnvDeploymentStatus(promo'[p].status) /\ hist'[p].dep = promo'[p].dep
AmendedRow(p) == Amends(p, promo'[p]) /\ Mirrored(p)
InsertedRow(p) ==
    /\ promo[p].status = "none" /\ Mirrored(p) /\ promo'[p].dep = NoDep
    /\ \E c \in Client : req[c].kind = "create" /\ Insertable(req[c]) /\ promo'[p] = NewRow(req[c])
LapsedRow(p) == Overdue(p) /\ hist'[p] = hist[p]
SavedRow(p) ==
    /\ promo[p].status # "none" /\ promo'[p].dep = hist'[p].dep /\ promo'[p].dep \in Dep
    /\ hist'[p].status = hist[p].status
    /\ promo'[p].status = promo[p].status /\ promo'[p].env = promo[p].env
    /\ promo'[p].sha = promo[p].sha /\ promo'[p].by = promo[p].by /\ promo'[p].key = promo[p].key
    /\ promo'[p].approvals = promo[p].approvals

Outcome(p) == Kept(p) \/ Resynced(p) \/ AmendedRow(p) \/ InsertedRow(p) \/ LapsedRow(p) \/ SavedRow(p)

\* At most one promotion is inserted or amended.
Single == \E p \in Promo : \A q \in Promo \ {p} : Kept(q)

LEMMA EffectOutcome ==
    ASSUME Strong, Effect
    PROVE  /\ \A p \in Promo : Outcome(p)
           /\ Single \/ \A p \in Promo : Kept(p) \/ LapsedRow(p)
<1>0. RowsOK /\ RowsMirror
  BY StrongParts DEF Strong, RowsTrue
<1>1. CASE UNCHANGED rows
  BY <1>1 DEF rows, Outcome, Kept
<1>2. ASSUME NEW p \in Promo, NEW row \in Promotion, Write(p, row), Amends(p, row) PROVE AmendedRow(p)
  <2>1. hist'[p].dep = row.dep
    BY <1>0, <1>2, WriteMeans DEF RowsMirror, Amends
  <2> QED
    BY <1>0, <1>2, <2>1, WriteMeans DEF AmendedRow, Mirrored
<1>3. ASSUME NEW c \in Client, NEW p \in Promo, req[c].kind = "create", Insertable(req[c]), promo[p].status = "none",
             Write(p, NewRow(req[c]))
      PROVE  InsertedRow(p)
  <2>1. PICK row : row = NewRow(req[c])
    OBVIOUS
  <2>2. row.dep = NoDep
    BY <2>1 DEF NewRow
  <2>3. hist[p].dep = NoDep
    BY <1>0, <1>3 DEF RowsMirror, Strong, RowsTrue, BlankOK
  <2>4. promo'[p] = row /\ hist'[p].status = EnvDeploymentStatus(row.status) /\ hist'[p].dep = row.dep
    BY <1>0, <1>3, <2>1, <2>2, <2>3, WriteMeans
  <2> QED
    BY <1>3, <2>1, <2>2, <2>4 DEF InsertedRow, Mirrored
<1>4. CASE Amended
  <2>1. PICK p \in Promo, row \in Promotion : Write(p, row) /\ Amends(p, row)
    BY <1>4 DEF Amended
  <2>2. AmendedRow(p) /\ \A q \in Promo \ {p} : Kept(q)
    BY <1>0, <1>2, <2>1, WriteMeans DEF Kept
  <2> QED
    BY <2>2 DEF Outcome, Single
<1>5. CASE Inserted
  <2>1. PICK c \in Client, p \in Promo :
           req[c].kind = "create" /\ Insertable(req[c]) /\ promo[p].status = "none" /\ Write(p, NewRow(req[c]))
    BY <1>5 DEF Inserted
  <2>2. InsertedRow(p) /\ \A q \in Promo \ {p} : Kept(q)
    BY <1>0, <1>3, <2>1, WriteMeans DEF Kept
  <2> QED
    BY <2>2 DEF Outcome, Single
<1>6. CASE Lapsed
  <2>1. \A p \in Promo : Kept(p) \/ LapsedRow(p)
    BY <1>6 DEF Lapsed, Kept, LapsedRow
  <2> QED
    BY <2>1 DEF Outcome
<1>7. CASE Synced
  <2>1. PICK p \in Promo : Write(p, promo[p])
    BY <1>7 DEF Synced
  <2>2. Resynced(p) /\ \A q \in Promo \ {p} : Kept(q)
    BY <1>0, <2>1, WriteMeans DEF Kept, Resynced, RowsMirror
  <2> QED
    BY <2>2 DEF Outcome, Single
<1>8. CASE Saved
  <2>1. PICK p \in Promo, d \in Dep : SetDeployment(p, d) /\ promo[p].status # "none"
    BY <1>8 DEF Saved
  <2>2. SavedRow(p) /\ \A q \in Promo \ {p} : Kept(q)
    BY <1>0, <2>1, SavedMeans DEF Kept, SavedRow
  <2> QED
    BY <2>2 DEF Outcome, Single
<1> QED
  BY <1>1, <1>4, <1>5, <1>6, <1>7, <1>8 DEF Effect

LEMMA NewRowMeans ==
    ASSUME NEW r, ReqShape(r), r.kind = "create"
    PROVE  LET row == NewRow(r) IN
           /\ row.status \in {"pending_approval", "waiting", "approved"} /\ row.env = r.env /\ row.sha = r.sha
           /\ row.by = r.user /\ row.key = r.key /\ row.dep = NoDep /\ row.approvals = {}
           /\ row.status = "pending_approval" <=> r.pol.required # 0
           /\ r.env \in Env /\ r.pol \in Policies
<1> DEFINE row == NewRow(r)
<1>1. /\ row.status = IF r.pol.required = 0 THEN NextAfterQuorum(r.pol, r.at, r.at) ELSE "pending_approval"
      /\ row.env = r.env /\ row.sha = r.sha
      /\ row.by = r.user /\ row.key = r.key /\ row.dep = NoDep /\ row.approvals = {}
  BY DEF NewRow
<1>2. r.env \in Env /\ r.pol \in Policies
  BY DEF ReqShape
<1> HIDE DEF row
<1>3. /\ row.status \in {"pending_approval", "waiting", "approved"}
      /\ row.status = "pending_approval" <=> r.pol.required # 0
  BY <1>1, NextAfterQuorumType
<1> QED
  BY <1>1, <1>2, <1>3 DEF row

LEMMA InsertedMeans ==
    ASSUME Strong, NEW p \in Promo, InsertedRow(p)
    PROVE  \E r : /\ ReqShape(r) /\ ReqSeen(r) /\ r.kind = "create" /\ Insertable(r)
                  /\ promo'[p].status \in {"pending_approval", "waiting", "approved"}
                  /\ promo'[p].env = r.env /\ promo'[p].sha = r.sha /\ promo'[p].by = r.user /\ promo'[p].key = r.key
                  /\ promo'[p].approvals = {} /\ promo'[p].dep = NoDep
                  /\ promo'[p].status = "pending_approval" <=> r.pol.required # 0
                  /\ r.env \in Env /\ r.pol \in Policies
<1>1. PICK c \in Client : req[c].kind = "create" /\ Insertable(req[c]) /\ promo'[p] = NewRow(req[c])
  BY DEF InsertedRow
<1>2. ReqShape(req[c]) /\ ReqSeen(req[c])
  BY StrongParts
<1> QED
  BY <1>1, <1>2, NewRowMeans

\* A row that is not inserted keeps its request, and is active only if it was.
LEMMA Unmoved ==
    ASSUME Strong, NEW p \in Promo, Outcome(p), ~InsertedRow(p)
    PROVE  /\ promo'[p].env = promo[p].env /\ promo'[p].sha = promo[p].sha /\ promo'[p].by = promo[p].by
           /\ promo'[p].key = promo[p].key /\ promo[p].approvals \subseteq promo'[p].approvals
           /\ promo'[p].status \in Active => promo[p].status \in Active
           /\ promo'[p].status = "none" <=> promo[p].status = "none"
           /\ promo[p].status = "success" => promo'[p].status = "success"
<1>0. RowsOK
  BY StrongParts
<1>1. CASE Kept(p) \/ Resynced(p)
  BY <1>1 DEF Kept, Resynced
<1>2. CASE AmendedRow(p)
  BY <1>2, StatusNames DEF AmendedRow, Amends, Final
<1>3. CASE LapsedRow(p)
  BY <1>0, <1>3, OverdueMeans, StatusNames DEF LapsedRow, Waitable
<1>4. CASE SavedRow(p)
  BY <1>4 DEF SavedRow
<1> QED
  BY <1>1, <1>2, <1>3, <1>4 DEF Outcome

LEMMA RowsGrow == ASSUME Strong, \A p \in Promo : Outcome(p) PROVE Grows
<1> SUFFICES ASSUME NEW p \in Promo, promo[p].status # "none"
             PROVE  /\ promo'[p].status # "none" /\ promo'[p].env = promo[p].env /\ promo'[p].sha = promo[p].sha
                    /\ promo'[p].by = promo[p].by /\ promo'[p].key = promo[p].key
                    /\ promo[p].approvals \subseteq promo'[p].approvals
                    /\ promo[p].status = "success" => promo'[p].status = "success"
  BY DEF Grows
<1>1. ~InsertedRow(p)
  BY DEF InsertedRow
<1> QED
  BY <1>1, Unmoved

LEMMA HistoryStep ==
    ASSUME Strong, \A p \in Promo : Outcome(p)
    PROVE  BlankOK' /\ ExpiredOK' /\ RowsMirror'
<1>0. RowsOK /\ BlankOK /\ ExpiredOK /\ RowsMirror
  BY StrongParts DEF Strong, RowsTrue
<1>1. ASSUME NEW p \in Promo
      PROVE  /\ promo'[p].status = "none" => promo'[p].key = NoKey /\ promo'[p].dep = NoDep
             /\ promo'[p].status = "expired" => hist'[p].status \in {"pending_approval", "waiting", "queued", "expired"}
             /\ promo'[p].status # "expired" => hist'[p].status = EnvDeploymentStatus(promo'[p].status)
             /\ hist'[p].dep = promo'[p].dep
  <2>0. Outcome(p)
    OBVIOUS
  <2>1. /\ promo[p].status = "none" => promo[p].key = NoKey /\ promo[p].dep = NoDep
        /\ promo[p].status = "expired" => hist[p].status \in {"pending_approval", "waiting", "queued", "expired"}
        /\ promo[p].status # "expired" => hist[p].status = EnvDeploymentStatus(promo[p].status)
        /\ hist[p].dep = promo[p].dep
    BY <1>0 DEF BlankOK, ExpiredOK, RowsMirror
  <2>2. CASE Kept(p)
    BY <2>1, <2>2 DEF Kept
  <2>3. CASE Resynced(p)
    BY <2>1, <2>3 DEF Resynced, EnvDeploymentStatus
  <2>4. CASE AmendedRow(p)
    BY <2>4 DEF AmendedRow, Amends, Mirrored
  <2>5. CASE InsertedRow(p)
    <3>1. promo'[p].status \in {"pending_approval", "waiting", "approved"}
      BY <2>5, InsertedMeans
    <3> QED
      BY <2>5, <3>1 DEF InsertedRow, Mirrored
  <2>6. CASE LapsedRow(p)
    <3>1. hist[p].status \in {"pending_approval", "waiting", "queued"}
      BY <1>0, <2>1, <2>6, OverdueMeans DEF LapsedRow, EnvDeploymentStatus, Waitable
    <3> QED
      BY <1>0, <2>1, <2>6, <3>1, OverdueMeans DEF LapsedRow
  <2>7. CASE SavedRow(p)
    BY <2>1, <2>7 DEF SavedRow
  <2> QED
    BY <2>0, <2>2, <2>3, <2>4, <2>5, <2>6, <2>7 DEF Outcome
<1> QED
  BY <1>1 DEF BlankOK, ExpiredOK, RowsMirror

\* The approvals of a promotion at any time, under any of the policies its environment has had.
Satisfied(p) == \E pol \in inForce[promo[p].env] : CountApprovals(pol, promo[p]) >= pol.required
Lacking(p) == \E pol \in inForce[promo[p].env] : CountApprovals(pol, promo[p]) < pol.required

LEMMA QuorumKept ==
    ASSUME InForceGrows, NEW p \in Promo, promo[p].env \in Env, promo'[p].env = promo[p].env,
           promo'[p].by = promo[p].by, promo'[p].approvals = promo[p].approvals
    PROVE  (Satisfied(p) => Satisfied(p)') /\ (Lacking(p) => Lacking(p)')
<1>1. \A pol : CountApprovals(pol, promo[p])' = CountApprovals(pol, promo[p])
  BY DEF CountApprovals
<1>2. inForce[promo[p].env] \subseteq inForce'[promo'[p].env]
  BY DEF InForceGrows
<1> QED
  BY <1>1, <1>2 DEF Satisfied, Lacking

LEMMA QuorumStep ==
    ASSUME Strong, \A p \in Promo : Outcome(p), InForceGrows
    PROVE  QuorumHonoured' /\ QuorumNotMissed'
<1>0. RowsOK
  BY StrongParts
<1>1. ASSUME NEW p \in Promo
      PROVE  /\ promo'[p].status \in PastQuorum => Satisfied(p)'
             /\ promo'[p].status = "pending_approval" => Lacking(p)'
  <2>0. Outcome(p)
    OBVIOUS
  <2>1. /\ promo[p].status \in PastQuorum => Satisfied(p)
        /\ promo[p].status = "pending_approval" => Lacking(p)
    BY DEF Strong, RowsTrue, QuorumHonoured, QuorumNotMissed, Satisfied, Lacking
  <2>2. promo[p].env \in Env
    BY <1>0, PromotionTypes
  <2>3. CASE Kept(p) \/ Resynced(p) \/ SavedRow(p)
    <3>1. /\ promo'[p].env = promo[p].env /\ promo'[p].by = promo[p].by
          /\ promo'[p].approvals = promo[p].approvals /\ promo'[p].status = promo[p].status
      BY <2>3 DEF Kept, Resynced, SavedRow
    <3> QED
      BY <2>1, <2>2, <3>1, QuorumKept
  <2>4. CASE AmendedRow(p)
    <3>1. promo'[p].env = promo[p].env /\ promo'[p].by = promo[p].by
      BY <2>4 DEF AmendedRow, Amends
    <3>2. inForce[promo[p].env] \subseteq inForce'[promo'[p].env]
      BY <2>2, <3>1 DEF InForceGrows
    <3>3. ASSUME promo'[p].approvals = promo[p].approvals
          PROVE  (Satisfied(p) => Satisfied(p)') /\ (Lacking(p) => Lacking(p)')
      BY <2>2, <3>1, <3>3, QuorumKept
    <3>4. \A pol : CountApprovals(pol, promo[p])' = CountApprovals(pol, promo'[p])
      BY DEF CountApprovals
    <3>5. ASSUME promo'[p].status \in PastQuorum PROVE Satisfied(p)'
      <4>1. \/ promo[p].status \in PastQuorum /\ promo'[p].approvals = promo[p].approvals
            \/ \E pol \in inForce[promo[p].env] : CountApprovals(pol, promo'[p]) >= pol.required
        BY <2>4, <3>5 DEF AmendedRow, Amends
      <4>2. CASE \E pol \in inForce[promo[p].env] : CountApprovals(pol, promo'[p]) >= pol.required
        BY <3>2, <3>4, <4>2 DEF Satisfied
      <4> QED
        BY <2>1, <3>3, <4>1, <4>2
    <3>6. ASSUME promo'[p].status = "pending_approval" PROVE Lacking(p)'
      <4>1. \/ promo[p].status = "pending_approval" /\ promo'[p].approvals = promo[p].approvals
            \/ \E pol \in inForce[promo[p].env] : CountApprovals(pol, promo'[p]) < pol.required
        BY <2>4, <3>6 DEF AmendedRow, Amends
      <4>2. CASE \E pol \in inForce[promo[p].env] : CountApprovals(pol, promo'[p]) < pol.required
        BY <3>2, <3>4, <4>2 DEF Lacking
      <4> QED
        BY <2>1, <3>3, <4>1, <4>2
    <3> QED
      BY <3>5, <3>6
  <2>5. CASE InsertedRow(p)
    <3>1. PICK r : /\ ReqSeen(r) /\ r.kind = "create" /\ promo'[p].env = r.env /\ promo'[p].approvals = {}
                   /\ promo'[p].status \in {"pending_approval", "waiting", "approved"}
                   /\ promo'[p].status = "pending_approval" <=> r.pol.required # 0
                   /\ r.env \in Env /\ r.pol \in Policies
      BY <2>5, InsertedMeans
    <3>2. r.pol \in inForce'[promo'[p].env]
      BY <3>1 DEF ReqSeen, InForceGrows
    <3>3. CountApprovals(r.pol, promo[p])' = 0
      <4>1. {} \ {promo'[p].by} = {}
        OBVIOUS
      <4>2. CountApprovals(r.pol, promo[p])' = Cardinality({})
        BY <3>1, <4>1 DEF CountApprovals
      <4> QED
        BY <4>2, FS_EmptySet
    <3>4. r.pol.required \in Nat
      BY <3>1, PolicyTypes
    <3>5. CASE r.pol.required = 0
      <4>1. Satisfied(p)'
        BY <3>2, <3>3, <3>5 DEF Satisfied
      <4> QED
        BY <3>1, <3>5, <4>1
    <3>6. CASE r.pol.required # 0
      <4>1. 0 < r.pol.required
        BY <3>4, <3>6
      <4>2. Lacking(p)'
        BY <3>2, <3>3, <4>1 DEF Lacking
      <4> QED
        BY <3>1, <3>6, <4>2, StatusNames
    <3> QED
      BY <3>5, <3>6
  <2>6. CASE LapsedRow(p)
    BY <1>0, <2>6, OverdueMeans, StatusNames DEF LapsedRow
  <2> QED
    BY <2>0, <2>3, <2>4, <2>5, <2>6 DEF Outcome
<1> QED
  BY <1>1 DEF QuorumHonoured, QuorumNotMissed, Satisfied, Lacking

\* Two requests for one thing are one promotion: what is inserted clashes with nothing that is there.
LEMMA DuplicatesStep ==
    ASSUME Strong, \A p \in Promo : Outcome(p), Single \/ \A p \in Promo : Kept(p) \/ LapsedRow(p)
    PROVE  NoDuplicateRequest'
<1>0. NoDuplicateRequest
  BY DEF Strong, RowsTrue
<1>1. \A p \in Promo : InsertedRow(p) => ~Kept(p) /\ ~LapsedRow(p)
  <2> SUFFICES ASSUME NEW p \in Promo, InsertedRow(p) PROVE ~Kept(p) /\ ~LapsedRow(p)
    OBVIOUS
  <2>1. promo[p].status = "none" /\ promo'[p].status # "none"
    BY InsertedMeans DEF InsertedRow
  <2> QED
    BY <2>1 DEF Kept, LapsedRow, Overdue, Waitable
<1>2. ASSUME NEW p \in Promo, NEW q \in Promo, p # q PROVE ~InsertedRow(p) \/ ~InsertedRow(q)
  BY <1>1, <1>2 DEF Single
<1>3. ASSUME NEW p \in Promo, NEW q \in Promo, InsertedRow(p), ~InsertedRow(q)
      PROVE  /\ promo'[p].key # NoKey /\ promo'[p].by = promo'[q].by => promo'[p].key # promo'[q].key
             /\ promo'[q].status \in Active => promo'[p].env # promo'[q].env \/ promo'[p].sha # promo'[q].sha
  <2>1. PICK r : /\ Insertable(r) /\ promo'[p].env = r.env /\ promo'[p].sha = r.sha
                 /\ promo'[p].by = r.user /\ promo'[p].key = r.key
    BY <1>3, InsertedMeans
  <2>2. /\ promo'[q].env = promo[q].env /\ promo'[q].sha = promo[q].sha /\ promo'[q].by = promo[q].by
        /\ promo'[q].key = promo[q].key /\ (promo'[q].status \in Active => promo[q].status \in Active)
    BY <1>3, Unmoved
  <2> QED
    BY <2>1, <2>2 DEF Insertable, KeyUsed
<1>4. ASSUME NEW p \in Promo, NEW q \in Promo, p # q, promo'[p].status # "none", ~InsertedRow(p), ~InsertedRow(q)
      PROVE  /\ promo'[p].key # NoKey /\ promo'[p].by = promo'[q].by => promo'[p].key # promo'[q].key
             /\ promo'[p].status \in Active /\ promo'[q].status \in Active
                   => promo'[p].env # promo'[q].env \/ promo'[p].sha # promo'[q].sha
  <2>1. /\ promo'[q].env = promo[q].env /\ promo'[q].sha = promo[q].sha /\ promo'[q].by = promo[q].by
        /\ promo'[q].key = promo[q].key /\ (promo'[q].status \in Active => promo[q].status \in Active)
    BY <1>4, Unmoved
  <2>2. /\ promo'[p].env = promo[p].env /\ promo'[p].sha = promo[p].sha /\ promo'[p].by = promo[p].by
        /\ promo'[p].key = promo[p].key /\ (promo'[p].status \in Active => promo[p].status \in Active)
        /\ promo[p].status # "none"
    BY <1>4, Unmoved
  <2> QED
    BY <1>0, <1>4, <2>1, <2>2 DEF NoDuplicateRequest
<1> QED
  BY <1>2, <1>3, <1>4 DEF NoDuplicateRequest

LEMMA FedKept == ASSUME Grows, InForceGrows, NEW env \in Env, NEW sha, Fed(env, sha) PROVE Fed(env, sha)'
<1> SUFFICES ASSUME NEW e \in Env, \A pol \in inForce'[env] : pol.source = e
             PROVE  \E q \in Promo : promo'[q].env = e /\ promo'[q].sha = sha /\ promo'[q].status = "success"
  BY DEF Fed
<1>2. \A pol \in inForce[env] : pol.source = e
  BY DEF InForceGrows
<1>3. PICK q \in Promo : promo[q].env = e /\ promo[q].sha = sha /\ promo[q].status = "success"
  BY <1>2 DEF Fed
<1> QED
  BY <1>3 DEF Grows

LEMMA FedStep ==
    ASSUME Strong, \A p \in Promo : Outcome(p), Grows, InForceGrows
    PROVE  SourceEnvironmentHonoured'
<1>0. RowsOK /\ SourceEnvironmentHonoured
  BY StrongParts DEF Strong, RowsTrue
<1>1. ASSUME NEW p \in Promo, promo'[p].status # "none"
      PROVE  promo'[p].env \in Env /\ \E sha : promo'[p].sha = sha /\ Fed(promo'[p].env, sha)
  <2>1. CASE InsertedRow(p)
    BY <2>1, InsertedMeans DEF ReqSeen
  <2>2. CASE ~InsertedRow(p)
    <3>1. promo'[p].env = promo[p].env /\ promo'[p].sha = promo[p].sha /\ promo[p].status # "none"
      BY <1>1, <2>2, Unmoved
    <3>2. Fed(promo[p].env, promo[p].sha)
      BY <1>0, <3>1 DEF SourceEnvironmentHonoured, Fed
    <3> QED
      BY <1>0, <3>1, <3>2, PromotionTypes
  <2> QED
    BY <2>1, <2>2
<1>2. ASSUME NEW p \in Promo, NEW e \in Env, promo'[p].status # "none",
             \A pol \in inForce'[promo'[p].env] : pol.source = e
      PROVE  \E q \in Promo : /\ promo'[q].env = e /\ promo'[q].sha = promo'[p].sha
                              /\ promo'[q].status = "success"
  <2>1. PICK env \in Env : promo'[p].env = env /\ \E sha : promo'[p].sha = sha /\ Fed(env, sha)
    BY <1>1, <1>2
  <2>2. PICK sha : promo'[p].sha = sha /\ Fed(env, sha)
    BY <2>1
  <2>3. Fed(env, sha)'
    BY <2>2, FedKept
  <2> QED
    BY <1>2, <2>1, <2>2, <2>3 DEF Fed
<1> QED
  BY <1>2 DEF SourceEnvironmentHonoured

LEMMA RowsTrueStep == ASSUME Strong, Effect, InForceGrows PROVE RowsTrue' /\ Grows
<1>1. (\A p \in Promo : Outcome(p)) /\ (Single \/ \A p \in Promo : Kept(p) \/ LapsedRow(p))
  BY EffectOutcome
<1>2. Grows
  BY <1>1, RowsGrow
<1> QED
  BY <1>1, <1>2, HistoryStep, QuorumStep, DuplicatesStep, FedStep DEF RowsTrue

-----------------------------------------------------------------------------
(* What a step does to the loop of a process, field by field.              *)

Others(pr) == \A q \in Proc \ {pr} : tick'[q] = tick[q]
Same(t, u) == u.snap = t.snap /\ u.cache = t.cache

\* The loop goes back to rest.
Rests(pr) == Others(pr) /\ tick'[pr] = TickIdle
\* It looks at fewer promotions and has as many ready, or p more.
Visits(pr, p) ==
    LET t == tick[pr]  u == tick'[pr] IN
    /\ Others(pr) /\ Same(t, u) /\ u.pc = t.pc /\ u.todo \subseteq t.todo \ {p} /\ u.cur = t.cur /\ u.dep = t.dep
    /\ u.ready \subseteq t.ready \cup {p}
    /\ p \in u.ready => p \in t.ready \/ (t.pc = "loop" /\ t.snap[p].status \in Waitable)
\* It takes up p, as far as pc.
Takes(pr, p, pc) ==
    LET t == tick[pr]  u == tick'[pr] IN
    /\ Others(pr) /\ Same(t, u) /\ t.pc = "loop" /\ u.pc = pc /\ u.todo = t.todo \ {p} /\ u.cur = p
    /\ u.ready = t.ready
\* It goes on with the promotion it is at.
GoesOn(pr, pc, d) ==
    LET t == tick[pr]  u == tick'[pr] IN
    /\ Others(pr) /\ Same(t, u) /\ u.pc = pc /\ u.todo = t.todo /\ u.cur = t.cur /\ u.dep = d
    /\ u.ready \subseteq t.ready
Resumes(pr) ==
    LET t == tick[pr]  u == tick'[pr] IN
    /\ Others(pr) /\ Same(t, u) /\ u.pc = "loop" /\ u.todo = t.todo /\ u.ready \subseteq t.ready

LEMMA TickSet ==
    ASSUME TickOK, NEW pr \in Proc, NEW u, tick' = [tick EXCEPT ![pr] = u]
    PROVE  tick'[pr] = u /\ Others(pr)
BY DEF TickOK, Others

LEMMA RestsMeans == ASSUME TickOK, NEW pr \in Proc, tick' = [tick EXCEPT ![pr] = TickIdle] PROVE Rests(pr)
BY TickSet DEF Rests

LEMMA ExpireFields ==
    ASSUME TickOK, NEW pr \in Proc, TickExpire(pr)
    PROVE  /\ Others(pr) /\ tick[pr] = TickIdle /\ tick'[pr].pc = "sync" /\ Same(TickIdle, tick'[pr])
           /\ tick'[pr].ready = {}
<1>0. tick[pr] = TickIdle /\ TickIdle \in TickType /\ TickIdle.ready = {} /\ tick \in [Proc -> TickType]
  BY RestShapes DEF TickExpire, TickShape, TickIdle, TickOK
<1> DEFINE over == {p \in Promo : promo[p].status \in Waitable /\ promo[p].expiresAt <= now}
           u == [tick[pr] EXCEPT !.pc = "sync", !.at = now, !.todo = over]
           v == [tick[pr] EXCEPT !.pc = "sync", !.at = now]
<1>1. tick' = [tick EXCEPT ![pr] = u] \/ tick' = [tick EXCEPT ![pr] = v]
  BY <1>0 DEF TickExpire
<1> HIDE DEF over
<1>2. /\ u.pc = "sync" /\ u.snap = TickIdle.snap /\ u.cache = TickIdle.cache /\ u.ready = {}
      /\ v.pc = "sync" /\ v.snap = TickIdle.snap /\ v.cache = TickIdle.cache /\ v.ready = {}
  BY <1>0 DEF TickType
<1> HIDE DEF u, v
<1> QED
  BY <1>0, <1>1, <1>2, TickSet DEF Same

LEMMA TodoFields ==
    ASSUME TickOK, NEW pr \in Proc, NEW p, NEW S, S \subseteq tick[pr].todo \ {p}, tick' = [tick EXCEPT ![pr].todo = S]
    PROVE  Visits(pr, p)
<1>0. tick[pr] \in TickType /\ tick \in [Proc -> TickType]
  BY DEF TickOK
<1> DEFINE u == [tick[pr] EXCEPT !.todo = S]
<1>1. tick' = [tick EXCEPT ![pr] = u]
  BY <1>0
<1>2. /\ u.pc = tick[pr].pc /\ u.snap = tick[pr].snap /\ u.cache = tick[pr].cache /\ u.ready = tick[pr].ready
      /\ u.cur = tick[pr].cur /\ u.dep = tick[pr].dep /\ u.todo = S
  BY <1>0 DEF TickType
<1> HIDE DEF u
<1>3. tick'[pr] = u /\ Others(pr)
  BY <1>1, TickSet
<1> QED
  BY <1>2, <1>3 DEF Visits, Same

LEMMA SyncFields == ASSUME TickOK, NEW pr \in Proc, TickSync(pr) PROVE \E p \in Promo : Visits(pr, p)
<1>1. PICK p \in Promo : tick' = [tick EXCEPT ![pr].todo = @ \ {p}] \/ tick' = [tick EXCEPT ![pr].todo = {}]
  BY DEF TickSync
<1>2. \E S : S \subseteq tick[pr].todo \ {p} /\ tick' = [tick EXCEPT ![pr].todo = S]
  <2>1. CASE tick' = [tick EXCEPT ![pr].todo = @ \ {p}]
    BY <2>1 DEF TickOK
  <2>2. CASE tick' = [tick EXCEPT ![pr].todo = {}]
    BY <2>2
  <2> QED
    BY <1>1, <2>1, <2>2
<1> QED
  BY <1>2, TodoFields

LEMMA SkipFields == ASSUME TickOK, NEW pr \in Proc, TickSkip(pr) PROVE \E p \in Promo : Visits(pr, p)
<1>1. PICK p \in Promo : tick' = [tick EXCEPT ![pr].todo = @ \ {p}]
  BY DEF TickSkip
<1>2. \E S : S \subseteq tick[pr].todo \ {p} /\ tick' = [tick EXCEPT ![pr].todo = S]
  BY <1>1 DEF TickOK
<1> QED
  BY <1>2, TodoFields

LEMMA ListFields ==
    ASSUME TickOK, NEW pr \in Proc, TickList(pr)
    PROVE  \/ Rests(pr)
           \/ /\ Others(pr) /\ tick[pr].pc = "sync" /\ tick'[pr].pc = "loop" /\ tick'[pr].snap = promo
              /\ tick'[pr].cache = tick[pr].cache /\ tick'[pr].todo = {p \in Promo : promo[p].status \in Active}
              /\ tick'[pr].ready = tick[pr].ready
<1>0. tick[pr] \in TickType /\ tick \in [Proc -> TickType]
  BY DEF TickOK
<1>1. CASE tick' = [tick EXCEPT ![pr] = TickIdle]
  BY <1>1, RestsMeans
<1> DEFINE S == {p \in Promo : promo[p].status \in Active}
           u == [tick[pr] EXCEPT !.pc = "loop", !.snap = promo, !.todo = S]
<1>2. CASE tick' = [tick EXCEPT ![pr] = u]
  <2> HIDE DEF S
  <2>1. /\ u.pc = "loop" /\ u.snap = promo /\ u.cache = tick[pr].cache /\ u.todo = S /\ u.ready = tick[pr].ready
    BY <1>0 DEF TickType
  <2> HIDE DEF u
  <2>2. tick'[pr] = u /\ Others(pr) /\ tick[pr].pc = "sync"
    BY <1>2, TickSet DEF TickList
  <2> QED
    BY <2>1, <2>2 DEF S
<1>3. tick' = [tick EXCEPT ![pr] = TickIdle] \/ tick' = [tick EXCEPT ![pr] = u]
  BY <1>0 DEF TickList
<1> QED
  BY <1>1, <1>2, <1>3

LEMMA GetEnvFields ==
    ASSUME TickOK, NEW pr \in Proc, TickGetEnv(pr)
    PROVE  /\ Others(pr) /\ tick'[pr].pc = tick[pr].pc /\ tick'[pr].snap = tick[pr].snap
           /\ tick'[pr].todo = tick[pr].todo /\ tick'[pr].ready = tick[pr].ready /\ tick[pr].pc = "loop"
           /\ tick'[pr].cur = tick[pr].cur
           /\ \A e \in Env : tick'[pr].cache[e] \in {tick[pr].cache[e], policy[e], Failed}
<1>0. tick[pr] \in TickType /\ tick \in [Proc -> TickType] /\ tick[pr].pc = "loop"
      /\ tick[pr].cache \in [Env -> Policies \cup {Unread, Failed}]
  BY DEF TickOK, TickGetEnv, TickType
<1>1. PICK p \in Promo :
         \/ tick' = [tick EXCEPT ![pr].cache[tick[pr].snap[p].env] = policy[tick[pr].snap[p].env]]
         \/ tick' = [tick EXCEPT ![pr].cache[tick[pr].snap[p].env] = Failed]
  BY DEF TickGetEnv
<1>2. PICK e \in Env : e = tick[pr].snap[p].env
  BY <1>0, TickFields
<1>3. PICK x \in {policy[e], Failed} : tick' = [tick EXCEPT ![pr].cache[e] = x]
  BY <1>1, <1>2
<1> DEFINE cache == [tick[pr].cache EXCEPT ![e] = x]
           u == [tick[pr] EXCEPT !.cache = cache]
<1>4. tick' = [tick EXCEPT ![pr] = u]
  BY <1>0, <1>3
<1>5. \A f \in Env : cache[f] \in {tick[pr].cache[f], policy[f], Failed}
  BY <1>0
<1> HIDE DEF cache
<1>6. /\ u.pc = tick[pr].pc /\ u.snap = tick[pr].snap /\ u.cache = cache /\ u.ready = tick[pr].ready
      /\ u.cur = tick[pr].cur /\ u.todo = tick[pr].todo
  BY <1>0 DEF TickType
<1> HIDE DEF u
<1>7. tick'[pr] = u /\ Others(pr)
  BY <1>0, <1>4, TickSet
<1> QED
  BY <1>0, <1>5, <1>6, <1>7

LEMMA AdvanceFields ==
    ASSUME TickOK, NEW pr \in Proc, NEW p \in Promo, TickAdvance(pr, p)
    PROVE  Visits(pr, p)
<1>0. tick[pr] \in TickType /\ tick \in [Proc -> TickType] /\ tick[pr].pc = "loop"
      /\ tick[pr].snap[p].status \in Waitable
  BY DEF TickOK, TickAdvance, Visiting
<1> DEFINE Sees(st) == tick' = [tick EXCEPT ![pr].todo = @ \ {p}, ![pr].ready = IF st = "approved" THEN @ \cup {p} ELSE @]
           new == Advanced(tick[pr].cache[tick[pr].snap[p].env], tick[pr].snap[p], tick[pr].at, promo[p])
<1>1a. Sees(tick[pr].snap[p].status) \/ Sees(new.status)
  BY DEF TickAdvance
<1> HIDE DEF Sees, new
<1>1b. PICK st : Sees(st)
  BY <1>1a
<1>1. tick' = [tick EXCEPT ![pr].todo = @ \ {p}, ![pr].ready = IF st = "approved" THEN @ \cup {p} ELSE @]
  BY <1>1b DEF Sees
<1> DEFINE S == IF st = "approved" THEN tick[pr].ready \cup {p} ELSE tick[pr].ready
           T == tick[pr].todo \ {p}
           u == [tick[pr] EXCEPT !.todo = T, !.ready = S]
<1>2. tick' = [tick EXCEPT ![pr] = u]
  BY <1>0, <1>1
<1>3. S \subseteq tick[pr].ready \cup {p} /\ T \subseteq tick[pr].todo \ {p}
  OBVIOUS
<1> HIDE DEF S, T
<1>4. /\ u.pc = tick[pr].pc /\ u.snap = tick[pr].snap /\ u.cache = tick[pr].cache /\ u.ready = S
      /\ u.cur = tick[pr].cur /\ u.dep = tick[pr].dep /\ u.todo = T
  BY <1>0 DEF TickType
<1> HIDE DEF u
<1>5. tick'[pr] = u /\ Others(pr)
  BY <1>0, <1>2, TickSet
<1> QED
  BY <1>0, <1>3, <1>4, <1>5 DEF Visits, Same

LEMMA PolledFields ==
    ASSUME TickOK, NEW pr \in Proc, NEW p \in Promo, NEW done, Polled(pr, p, done)
    PROVE  Visits(pr, p)
<1>0. tick[pr] \in TickType /\ tick \in [Proc -> TickType]
  BY DEF TickOK
<1> DEFINE S == IF done THEN tick[pr].busy ELSE tick[pr].busy \cup {tick[pr].snap[p].env}
           T == tick[pr].todo \ {p}
           u == [tick[pr] EXCEPT !.todo = T, !.busy = S]
<1>2. tick' = [tick EXCEPT ![pr] = u]
  BY <1>0 DEF Polled
<1> HIDE DEF S
<1>4. /\ u.pc = tick[pr].pc /\ u.snap = tick[pr].snap /\ u.cache = tick[pr].cache /\ u.ready = tick[pr].ready
      /\ u.cur = tick[pr].cur /\ u.dep = tick[pr].dep /\ u.todo = T
  BY <1>0 DEF TickType
<1> HIDE DEF u
<1>5. tick'[pr] = u /\ Others(pr)
  BY <1>0, <1>2, TickSet
<1> QED
  BY <1>4, <1>5 DEF Visits, Same

LEMMA PollFields == ASSUME TickOK, NEW pr \in Proc, NEW p \in Promo, TickPoll(pr, p) PROVE Visits(pr, p)
<1>1. Polled(pr, p, TRUE) \/ Polled(pr, p, FALSE)
  BY DEF TickPoll, Finish
<1> QED
  BY <1>1, PolledFields

LEMMA RelaunchFields ==
    ASSUME TickOK, NEW pr \in Proc, NEW p \in Promo, TickRelaunch(pr, p)
    PROVE  Visits(pr, p) \/ (Takes(pr, p, "launch") /\ p \in tick[pr].todo)
<1>0. tick[pr] \in TickType /\ tick \in [Proc -> TickType] /\ tick[pr].pc = "loop" /\ p \in tick[pr].todo
  BY DEF TickOK, TickRelaunch, Visiting, Oldest
<1> DEFINE S == tick[pr].busy \cup {tick[pr].snap[p].env}
           T == tick[pr].todo \ {p}
           u == [tick[pr] EXCEPT !.pc = "launch", !.cur = p, !.src = tick[pr].snap[p].src, !.todo = T, !.busy = S]
<1>1. tick' = [tick EXCEPT ![pr] = u] \/ Polled(pr, p, TRUE) \/ Polled(pr, p, FALSE)
  BY <1>0 DEF TickRelaunch
<1>2. CASE tick' = [tick EXCEPT ![pr] = u]
  <2> HIDE DEF S
  <2>1. /\ u.pc = "launch" /\ u.snap = tick[pr].snap /\ u.cache = tick[pr].cache /\ u.ready = tick[pr].ready
        /\ u.cur = p /\ u.todo = T
    BY <1>0 DEF TickType
  <2> HIDE DEF u
  <2>2. tick'[pr] = u /\ Others(pr)
    BY <1>0, <1>2, TickSet
  <2> QED
    BY <1>0, <2>1, <2>2 DEF Takes, Same
<1> QED
  BY <1>1, <1>2, PolledFields

LEMMA StartFields ==
    ASSUME TickOK, NEW pr \in Proc, NEW p \in Promo, TickStart(pr, p)
    PROVE  Visits(pr, p) \/ (Takes(pr, p, "claim") /\ p \in tick[pr].ready)
<1>0. /\ tick[pr] \in TickType /\ tick \in [Proc -> TickType] /\ tick[pr].pc = "loop" /\ p \in tick[pr].ready
      /\ tick[pr].todo = {}
  BY DEF TickOK, TickStart, Oldest
<1> DEFINE R == tick[pr].ready \ {p}
           u == [tick[pr] EXCEPT !.ready = R]
           v(src) == [tick[pr] EXCEPT !.pc = "claim", !.cur = p, !.src = src]
<1>1. tick' = [tick EXCEPT ![pr] = u] \/ \E src : tick' = [tick EXCEPT ![pr] = v(src)]
  <2>1. \/ tick' = [tick EXCEPT ![pr].ready = @ \ {p}]
        \/ \E src : tick' = [tick EXCEPT ![pr].pc = "claim", ![pr].cur = p, ![pr].src = src]
    BY DEF TickStart
  <2>2. CASE tick' = [tick EXCEPT ![pr].ready = @ \ {p}]
    BY <1>0, <2>2
  <2>3. ASSUME NEW src, tick' = [tick EXCEPT ![pr].pc = "claim", ![pr].cur = p, ![pr].src = src]
        PROVE  tick' = [tick EXCEPT ![pr] = v(src)]
    BY <1>0, <2>3
  <2> HIDE DEF u, v
  <2> QED
    BY <2>1, <2>2, <2>3
<1>2. CASE tick' = [tick EXCEPT ![pr] = u]
  <2>1. /\ u.pc = tick[pr].pc /\ u.snap = tick[pr].snap /\ u.cache = tick[pr].cache /\ u.ready = R
        /\ u.cur = tick[pr].cur /\ u.dep = tick[pr].dep /\ u.todo = {}
    BY <1>0 DEF TickType
  <2> HIDE DEF u
  <2>2. tick'[pr] = u /\ Others(pr)
    BY <1>0, <1>2, TickSet
  <2> QED
    BY <1>0, <2>1, <2>2 DEF Visits, Same
<1>3. ASSUME NEW src, tick' = [tick EXCEPT ![pr] = v(src)] PROVE Takes(pr, p, "claim")
  <2> DEFINE w == v(src)
  <2>1. /\ w.pc = "claim" /\ w.snap = tick[pr].snap /\ w.cache = tick[pr].cache /\ w.ready = tick[pr].ready
        /\ w.cur = p /\ w.todo = {}
    BY <1>0 DEF TickType
  <2>3. tick' = [tick EXCEPT ![pr] = w]
    BY <1>3
  <2> HIDE DEF w, v
  <2>2. tick'[pr] = w /\ Others(pr)
    BY <1>0, <2>3, TickSet
  <2> QED
    BY <1>0, <2>1, <2>2 DEF Takes, Same
<1> HIDE DEF u, v
<1> QED
  BY <1>0, <1>1, <1>2, <1>3

LEMMA ResumeFields ==
    ASSUME TickOK, NEW pr \in Proc, NEW R, R \subseteq tick[pr].ready, Resume(pr, R)
    PROVE  Resumes(pr)
<1>0. tick[pr] \in TickType /\ tick \in [Proc -> TickType]
  BY DEF TickOK
<1> DEFINE u == [tick[pr] EXCEPT !.pc = "loop", !.cur = 0, !.src = NoSource, !.dep = NoDep, !.ready = R]
<1>1. tick' = [tick EXCEPT ![pr] = u]
  BY <1>0 DEF Resume
<1>2. u.pc = "loop" /\ u.snap = tick[pr].snap /\ u.cache = tick[pr].cache /\ u.ready = R /\ u.todo = tick[pr].todo
  BY <1>0 DEF TickType
<1> HIDE DEF u
<1>3. tick'[pr] = u /\ Others(pr)
  BY <1>0, <1>1, TickSet
<1> QED
  BY <1>2, <1>3 DEF Resumes, Same

LEMMA ClaimFields ==
    ASSUME TickOK, NEW pr \in Proc, TickClaim(pr)
    PROVE  tick[pr].pc = "claim" /\ (Resumes(pr) \/ GoesOn(pr, "launch", tick[pr].dep))
<1>0. tick[pr] \in TickType /\ tick \in [Proc -> TickType] /\ tick[pr].pc = "claim"
  BY DEF TickOK, TickClaim
<1> DEFINE R == {q \in tick[pr].ready : tick[pr].snap[q].env # tick[pr].snap[tick[pr].cur].env}
           u == [tick[pr] EXCEPT !.pc = "launch", !.ready = R]
<1>1. \/ tick' = [tick EXCEPT ![pr] = u] \/ Resume(pr, R) \/ Resume(pr, tick[pr].ready \ {tick[pr].cur})
  BY <1>0 DEF TickClaim
<1>2. R \subseteq tick[pr].ready
  OBVIOUS
<1> HIDE DEF R
<1>3. CASE tick' = [tick EXCEPT ![pr] = u]
  <2>1. /\ u.pc = "launch" /\ u.snap = tick[pr].snap /\ u.cache = tick[pr].cache /\ u.ready = R
        /\ u.cur = tick[pr].cur /\ u.dep = tick[pr].dep /\ u.todo = tick[pr].todo
    BY <1>0 DEF TickType
  <2> HIDE DEF u
  <2>2. tick'[pr] = u /\ Others(pr)
    BY <1>0, <1>3, TickSet
  <2> QED
    BY <1>0, <1>2, <2>1, <2>2 DEF GoesOn, Same
<1> QED
  BY <1>0, <1>1, <1>2, <1>3, ResumeFields

LEMMA LaunchFields ==
    ASSUME TickOK, DepsOK, NEW pr \in Proc, TickLaunch(pr)
    PROVE  /\ tick[pr].pc = "launch"
           /\ \/ Resumes(pr) /\ UNCHANGED deps
              \/ \E d \in Dep : /\ GoesOn(pr, "save", d) /\ deps[d].status = "none"
                                /\ deps'[d].status = "open" /\ deps'[d].promo = tick[pr].cur
                                /\ \A x \in Dep \ {d} : deps'[x] = deps[x]
<1>0. tick[pr] \in TickType /\ tick \in [Proc -> TickType] /\ tick[pr].pc = "launch"
  BY DEF TickOK, TickLaunch
<1>1. CASE Resume(pr, tick[pr].ready) /\ UNCHANGED deps
  BY <1>0, <1>1, ResumeFields
<1>2. ASSUME NEW d \in Dep, Oldest(d, {x \in Dep : deps[x].status = "none"}),
             deps' = [deps EXCEPT ![d] = [status |-> "open", promo |-> tick[pr].cur, src |-> tick[pr].src]],
             tick' = [tick EXCEPT ![pr].pc = "save", ![pr].dep = d]
      PROVE  /\ GoesOn(pr, "save", d) /\ deps[d].status = "none"
             /\ deps'[d].status = "open" /\ deps'[d].promo = tick[pr].cur
             /\ \A x \in Dep \ {d} : deps'[x] = deps[x]
  <2>1. deps[d].status = "none"
    BY <1>2 DEF Oldest
  <2>2. /\ deps'[d].status = "open" /\ deps'[d].promo = tick[pr].cur
        /\ \A x \in Dep \ {d} : deps'[x] = deps[x]
    BY <1>2 DEF DepsOK
  <2> DEFINE u == [tick[pr] EXCEPT !.pc = "save", !.dep = d]
  <2>3. tick' = [tick EXCEPT ![pr] = u]
    BY <1>0, <1>2
  <2>4. /\ u.pc = "save" /\ u.snap = tick[pr].snap /\ u.cache = tick[pr].cache /\ u.ready = tick[pr].ready
        /\ u.cur = tick[pr].cur /\ u.dep = d /\ u.todo = tick[pr].todo
    BY <1>0 DEF TickType
  <2> HIDE DEF u
  <2>5. tick'[pr] = u /\ Others(pr)
    BY <1>0, <2>3, TickSet
  <2>6. GoesOn(pr, "save", d)
    BY <2>4, <2>5 DEF GoesOn, Same
  <2> QED
    BY <2>1, <2>2, <2>6
<1>3. \/ Resume(pr, tick[pr].ready) /\ UNCHANGED deps
      \/ \E d \in Dep : /\ Oldest(d, {x \in Dep : deps[x].status = "none"})
                        /\ deps' = [deps EXCEPT ![d] = [status |-> "open", promo |-> tick[pr].cur, src |-> tick[pr].src]]
                        /\ tick' = [tick EXCEPT ![pr].pc = "save", ![pr].dep = d]
  BY DEF TickLaunch
<1> QED
  BY <1>0, <1>1, <1>2, <1>3

LEMMA SaveFields == ASSUME TickOK, NEW pr \in Proc, TickSave(pr) PROVE tick[pr].pc = "save" /\ Resumes(pr)
BY ResumeFields DEF TickSave


-----------------------------------------------------------------------------
(* What was read stays true of the rows and the rules that grow.           *)

\* A deployment stays the one created for its promotion, and a success is one for good.
DepsGrow ==
    \A d \in Dep : deps[d].status # "none" =>
       /\ deps'[d].status # "none" /\ deps'[d].promo = deps[d].promo
       /\ deps[d].status = "success" => deps'[d].status = "success"

LEMMA OlderKept ==
    ASSUME Grows, NEW p \in Promo, NEW old, Older(old, promo[p])
    PROVE  Older(old, promo[p])'
BY DEF Grows, Older

LEMMA ReqSeenKept ==
    ASSUME RowsOK, Grows, InForceGrows, NEW r, ReqShape(r), ReqSeen(r)
    PROVE  ReqSeen(r)'
<1>1. CASE r.kind = "create"
  <2>1. r.env \in Env /\ r.pol \in inForce[r.env] /\ Fed(r.env, r.sha)
    BY <1>1 DEF ReqShape, ReqSeen
  <2>2. r.pol \in inForce'[r.env] /\ Fed(r.env, r.sha)'
    BY <2>1, FedKept DEF InForceGrows
  <2> QED
    BY <1>1, <2>2 DEF ReqSeen
<1>2. CASE r.kind \in {"approve", "reject"}
  <2>1. r.promo \in Promo /\ promo[r.promo].status # "none" /\ r.pol \in inForce[promo[r.promo].env]
    BY <1>2 DEF ReqShape, ReqSeen
  <2>2. promo'[r.promo].status # "none" /\ promo'[r.promo].env = promo[r.promo].env /\ promo[r.promo].env \in Env
    BY <2>1, PromotionTypes DEF Grows
  <2>3. r.pol \in inForce'[promo'[r.promo].env]
    BY <2>1, <2>2 DEF InForceGrows
  <2> QED
    BY <1>2, <2>2, <2>3 DEF ReqSeen
<1>3. CASE r.kind \notin {"create", "approve", "reject"}
  BY <1>3 DEF ReqSeen
<1> QED
  BY <1>1, <1>2, <1>3

LEMMA PutSeenKept ==
    ASSUME Grows, InForceGrows, NEW r, PutShape(r), PutSeen(r)
    PROVE  PutSeen(r)'
<1>1. \A p \in Promo : Older(r.snap[p], promo[p])'
  BY OlderKept DEF PutSeen
<1>2. r.pc # "idle" => r.pol \in inForce'[r.env]
  BY DEF PutSeen, PutShape, InForceGrows
<1>3. \A p \in r.todo : r.snap[p].env = r.env
  BY DEF PutSeen
<1> QED
  BY <1>1, <1>2, <1>3 DEF PutSeen

\* What a loop remembers of the environments and of the promotions.
Recalls(t) ==
    /\ \A e \in Env : t.cache[e] \in Policies => t.cache[e] \in inForce[e]
    /\ \A p \in Promo : Older(t.snap[p], promo[p])

LEMMA RecallsKept ==
    ASSUME Grows, InForceGrows, NEW t, Recalls(t)
    PROVE  Recalls(t)'
<1>1. \A p \in Promo : Older(t.snap[p], promo[p])'
  BY OlderKept DEF Recalls
<1>2. \A e \in Env : t.cache[e] \in Policies => t.cache[e] \in inForce'[e]
  BY DEF Recalls, InForceGrows
<1> QED
  BY <1>1, <1>2 DEF Recalls

\* What it has still to do, all of it there.
Plans(t) ==
    /\ t.pc \in InLoop => \A p \in t.todo : t.snap[p].status # "none"
    /\ t.pc = "sync" => t.ready = {}
    /\ \A p \in t.ready : t.snap[p].status # "none"

LEMMA TickSeenParts ==
    ASSUME NEW t
    PROVE  TickSeen(t) <=> /\ Recalls(t) /\ Plans(t)
                           /\ t.pc \in {"claim", "launch", "save"} => promo[t.cur].status # "none"
BY DEF TickSeen, Recalls, Plans

LEMMA TickSeenPartsNext ==
    ASSUME NEW t
    PROVE  TickSeen(t)' <=> /\ Recalls(t)' /\ Plans(t)
                            /\ t.pc \in {"claim", "launch", "save"} => promo'[t.cur].status # "none"
BY DEF TickSeen, Recalls, Plans

LEMMA TickSeenKept ==
    ASSUME Grows, InForceGrows, NEW t, TickShape(t), TickSeen(t)
    PROVE  TickSeen(t)'
<1>1. Recalls(t)' /\ Plans(t)
  BY TickSeenParts, RecallsKept
<1>2. t.pc \in {"claim", "launch", "save"} => promo'[t.cur].status # "none"
  BY TickSeenParts DEF TickShape, Grows
<1> QED
  BY <1>1, <1>2, TickSeenPartsNext

LEMMA SaveSeenKept ==
    ASSUME DepsGrow, NEW t, SaveSeen(t)
    PROVE  SaveSeen(t)'
BY DEF SaveSeen, DepsGrow

-----------------------------------------------------------------------------
(* Rules and deployments after a step.                                     *)

LEMMA TickLeaves ==
    ASSUME NEW pr \in Proc, Tick(pr) \/ Crash(pr)
    PROVE  /\ UNCHANGED <<rules, req, put>>
           /\ UNCHANGED deps \/ TickLaunch(pr)
<1>0. CASE TickExpire(pr) \/ TickList(pr)
  BY <1>0 DEF TickExpire, TickList
<1>1. CASE TickSync(pr) \/ TickGetEnv(pr) \/ TickSkip(pr)
  BY <1>1 DEF TickSync, TickGetEnv, TickSkip
<1>2. CASE TickClaim(pr) \/ TickLaunch(pr) \/ TickSave(pr) \/ TickEnd(pr) \/ Crash(pr)
  BY <1>2 DEF TickClaim, TickLaunch, TickSave, TickEnd, Crash
<1>3. ASSUME NEW p \in Promo, TickAdvance(pr, p) \/ TickPoll(pr, p)
      PROVE  UNCHANGED <<rules, req, put, deps>>
  BY <1>3 DEF TickAdvance, TickPoll
<1>4. ASSUME NEW p \in Promo, TickRelaunch(pr, p) \/ TickStart(pr, p)
      PROVE  UNCHANGED <<rules, req, put, deps>>
  BY <1>4 DEF TickRelaunch, TickStart
<1> QED
  BY <1>0, <1>1, <1>2, <1>3, <1>4 DEF Tick

LEMMA RequestLeaves == ASSUME Request PROVE UNCHANGED <<rules, deps, put, tick>>
<1>1. ASSUME NEW c, NEW u, NEW e, NEW sha, NEW from, NEW key, CreateLoad(c, u, e, sha, from, key)
      PROVE  UNCHANGED <<rules, deps, put, tick>>
  BY <1>1 DEF CreateLoad
<1>2. ASSUME NEW c, NEW u, NEW p, NEW approve, DecideLoad(c, u, p, approve)
      PROVE  UNCHANGED <<rules, deps, put, tick>>
  BY <1>2 DEF DecideLoad
<1>3. ASSUME NEW c, CreateInsert(c) \/ AddDecision(c) \/ AbandonRequest(c)
      PROVE  UNCHANGED <<rules, deps, put, tick>>
  BY <1>3 DEF CreateInsert, AddDecision, AbandonRequest
<1>4. ASSUME NEW u, NEW p, Cancel(u, p) PROVE UNCHANGED <<rules, deps, put, tick>>
  BY <1>4 DEF Cancel
<1> QED
  BY <1>1, <1>2, <1>3, <1>4 DEF Request

LEMMA PolicyLeaves ==
    ASSUME PolicyChange
    PROVE  /\ UNCHANGED <<deps, req, tick>>
           /\ \/ UNCHANGED rules
              \/ \E a \in Admin, e \in Env, pol \in Policies : PutEnv(a, e, pol)
<1>1. ASSUME NEW a \in Admin, ReevaluateList(a) \/ ReevaluateVisit(a) \/ PutEnd(a)
      PROVE  UNCHANGED <<rules, deps, req, tick>>
  BY <1>1 DEF ReevaluateList, ReevaluateVisit, PutEnd
<1>2. ASSUME NEW a \in Admin, NEW e \in Env, NEW pol \in Policies, PutEnv(a, e, pol)
      PROVE  UNCHANGED <<deps, req, tick>>
  BY <1>2 DEF PutEnv
<1> QED
  BY <1>1, <1>2 DEF PolicyChange

LEMMA WorldLeaves ==
    ASSUME World
    PROVE  /\ UNCHANGED <<rules, req, put, tick, rows>>
           /\ \/ UNCHANGED deps
              \/ \E d \in Dep, st \in {"success", "failed", "cancelled"} : DeploymentMoves(d, st)
BY DEF World, Tock, CommitChange, Redeploy, DeploymentMoves

LEMMA RulesStep ==
    ASSUME RulesOK, PolicyKnown, [Next]_vars
    PROVE  InForceGrows /\ PolicyKnown'
<1>1. CASE UNCHANGED rules
  BY <1>1 DEF rules, InForceGrows, PolicyKnown
<1>2. ASSUME NEW a \in Admin, NEW e \in Env, NEW pol \in Policies, PutEnv(a, e, pol)
      PROVE  InForceGrows /\ PolicyKnown'
  <2>1. policy' = [policy EXCEPT ![e] = pol] /\ inForce' = [inForce EXCEPT ![e] = @ \cup {pol}]
    BY <1>2 DEF PutEnv
  <2>2. policy'[e] = pol /\ inForce'[e] = inForce[e] \cup {pol}
        /\ \A f \in Env \ {e} : policy'[f] = policy[f] /\ inForce'[f] = inForce[f]
    BY <2>1 DEF RulesOK
  <2>3. \A f \in Env : f = e \/ f \in Env \ {e}
    OBVIOUS
  <2> QED
    BY <2>2, <2>3 DEF InForceGrows, PolicyKnown
<1>3. CASE UNCHANGED vars
  BY <1>1, <1>3 DEF vars, rules
<1> QED
  BY <1>1, <1>2, <1>3, RequestLeaves, PolicyLeaves, WorldLeaves, TickLeaves DEF Next

LEMMA DepsStep ==
    ASSUME DepsOK, TickOK, [Next]_vars
    PROVE  DepsGrow
<1>1. CASE UNCHANGED deps
  BY <1>1 DEF DepsGrow
<1>2. ASSUME NEW pr \in Proc, TickLaunch(pr) PROVE DepsGrow
  BY <1>1, <1>2, LaunchFields DEF DepsGrow
<1>3. ASSUME NEW d \in Dep, NEW st \in {"success", "failed", "cancelled"}, DeploymentMoves(d, st) PROVE DepsGrow
  <2>1. deps' = [deps EXCEPT ![d].status = st] /\ deps[d].status \in {"open", "cancelled"}
    BY <1>3 DEF DeploymentMoves
  <2>2. /\ deps'[d].status = st /\ deps'[d].promo = deps[d].promo
        /\ \A x \in Dep \ {d} : deps'[x] = deps[x]
    BY <2>1 DEF DepsOK
  <2> QED
    BY <2>1, <2>2 DEF DepsGrow
<1>4. CASE UNCHANGED vars
  BY <1>1, <1>4 DEF vars
<1> QED
  BY <1>1, <1>2, <1>3, <1>4, RequestLeaves, PolicyLeaves, WorldLeaves, TickLeaves DEF Next


-----------------------------------------------------------------------------
(* What requests and policy changes remember after a step.                 *)

\* The step keeps what a request, a policy change or a loop may rely on.
Keeps == Strong /\ Grows /\ InForceGrows /\ DepsGrow

LEMMA ReqPlaced ==
    ASSUME Keeps, NEW c \in Client, NEW r, req' = [req EXCEPT ![c] = r], ReqSeen(r)'
    PROVE  \A b \in Client : ReqSeen(req[b])'
<1>0. req \in [Client -> ReqType] /\ RowsOK /\ Grows /\ InForceGrows
  BY StrongParts DEF Keeps, ReqOK
<1> SUFFICES ASSUME NEW b \in Client PROVE ReqSeen(req[b])'
  OBVIOUS
<1>1. PICK x : x = req'[b]
  OBVIOUS
<1>2. ReqSeen(x)'
  <2>1. CASE b = c
    BY <1>0, <1>1, <2>1
  <2>2. CASE b # c
    <3>1. x = req[b] /\ ReqSeen(x) /\ ReqShape(x)
      BY <1>0, <1>1, <2>2, StrongParts DEF Keeps
    <3> QED
      BY <1>0, <3>1, ReqSeenKept
  <2> QED
    BY <2>1, <2>2
<1> QED
  BY <1>1, <1>2 DEF ReqSeen, Fed

LEMMA ReqUnmoved == ASSUME Keeps, UNCHANGED req PROVE \A b \in Client : ReqSeen(req[b])'
<1> SUFFICES ASSUME NEW b \in Client PROVE ReqSeen(req[b])'
  OBVIOUS
<1>1. PICK x : x = req[b]
  OBVIOUS
<1>2. ReqSeen(x) /\ ReqShape(x) /\ RowsOK
  BY <1>1, StrongParts DEF Keeps
<1>3. ReqSeen(x)'
  BY <1>2, ReqSeenKept DEF Keeps
<1> QED
  BY <1>1, <1>3 DEF ReqSeen, Fed

\* A source environment's success is a promotion of that commit that succeeded there.
LEMMA SourceSucceeded ==
    ASSUME RowsMirror, ExpiredOK, NEW e \in Env, NEW sha, SuccessfulSHA(e, sha) # NoSource
    PROVE  \E q \in Promo : promo[q].env = e /\ promo[q].sha = sha /\ promo[q].status = "success"
<1> DEFINE done == {p \in Promo : /\ promo[p].env = e /\ promo[p].sha = sha
                                  /\ hist[p].status = "success" /\ hist[p].dep # NoDep}
           newest == {p \in done : \A q \in done : q <= p}
<1>0. newest = {} => SuccessfulSHA(e, sha) = NoSource
  BY Zenon DEF SuccessfulSHA
<1>1. PICK q \in Promo : promo[q].env = e /\ promo[q].sha = sha /\ hist[q].status = "success"
  <2> HIDE DEF newest
  <2>1. newest # {}
    BY <1>0
  <2>2. PICK q \in newest : TRUE
    BY <2>1
  <2> QED
    BY <2>2 DEF newest
<1>2. promo[q].status # "expired"
  BY <1>1 DEF ExpiredOK
<1>3. EnvDeploymentStatus(promo[q].status) = "success"
  BY <1>1, <1>2 DEF RowsMirror
<1>4. promo[q].status = "success"
  BY <1>3 DEF EnvDeploymentStatus
<1> QED
  BY <1>1, <1>4

LEMMA CreateLoadSeen ==
    ASSUME Keeps, NEW c \in Client, NEW u \in Requester, NEW e \in Env, NEW sha \in Sha, NEW from \in Env \cup {NoEnv},
           NEW key \in Key \cup {NoKey}, CreateLoad(c, u, e, sha, from, key)
    PROVE  \A b \in Client : ReqSeen(req[b])'
<1>0. PolicyKnown /\ RowsMirror /\ ExpiredOK /\ policy[e] \in Policies
  BY StrongParts DEF Keeps, Strong, RowsTrue, RulesOK
<1> DEFINE src == CheckStatic(policy[e], sha, from)
           r == [NoReq EXCEPT !.kind = "create", !.user = u, !.env = e,
                   !.sha = sha, !.from = from, !.key = key, !.pol = policy[e], !.src = src, !.at = now]
<1>1. req' = [req EXCEPT ![c] = r] /\ src # NoSource /\ UNCHANGED <<rules, rows>>
  BY DEF CreateLoad
<1>2. Fed(e, sha)
  <2> SUFFICES ASSUME NEW f \in Env, \A pol \in inForce[e] : pol.source = f
               PROVE  \E q \in Promo : promo[q].env = f /\ promo[q].sha = sha /\ promo[q].status = "success"
    BY DEF Fed
  <2>1. policy[e].source = f /\ f # NoEnv
    BY <1>0, ConstantsAssumption DEF PolicyKnown
  <2>2. SuccessfulSHA(f, sha) # NoSource
    BY <1>1, <2>1 DEF CheckStatic
  <2> QED
    BY <1>0, <2>2, SourceSucceeded
<1> HIDE DEF src
<1>3. r.kind = "create" /\ r.env = e /\ r.sha = sha /\ r.pol = policy[e]
  BY DEF NoReq
<1> HIDE DEF r
<1>4. PICK x : x = r
  OBVIOUS
<1>5. policy[e] \in inForce[e]
  BY <1>0 DEF PolicyKnown
<1>6. ReqSeen(x)'
  BY <1>1, <1>2, <1>3, <1>4, <1>5 DEF ReqSeen, Fed, rules, rows
<1> QED
  BY <1>1, <1>4, <1>6, ReqPlaced

LEMMA DecideLoadSeen ==
    ASSUME Keeps, NEW c \in Client, NEW u \in User, NEW p \in Promo, NEW approve \in BOOLEAN,
           DecideLoad(c, u, p, approve)
    PROVE  \A b \in Client : ReqSeen(req[b])'
<1>0. PolicyKnown /\ RowsOK /\ promo[p].env \in Env
  BY StrongParts, PromotionTypes DEF Keeps, Strong
<1> DEFINE kind == IF approve THEN "approve" ELSE "reject"
           r == [NoReq EXCEPT !.kind = kind, !.user = u, !.promo = p, !.pol = policy[promo[p].env], !.at = now]
<1>1. req' = [req EXCEPT ![c] = r] /\ UNCHANGED <<rules, rows>>
  BY DEF DecideLoad
<1>2. promo[p].status # "none" /\ kind \in {"approve", "reject"}
  <2>1. promo[p].status \in Waitable \cup {"pending_approval"}
    BY DEF DecideLoad, CanDecide
  <2> QED
    BY <2>1 DEF Waitable
<1> HIDE DEF kind
<1>3. r.kind = kind /\ r.promo = p /\ r.pol = policy[promo[p].env]
  BY DEF NoReq
<1> HIDE DEF r
<1>4. PICK x : x = r
  OBVIOUS
<1>5. policy[promo[p].env] \in inForce[promo[p].env]
  BY <1>0 DEF PolicyKnown
<1>6. ReqSeen(x)'
  BY <1>1, <1>2, <1>3, <1>4, <1>5 DEF ReqSeen, rules, rows
<1> QED
  BY <1>1, <1>4, <1>6, ReqPlaced

LEMMA ReqStep == ASSUME Keeps, Request PROVE \A b \in Client : ReqSeen(req[b])'
<1>1. ASSUME NEW c \in Client, CreateInsert(c) \/ AddDecision(c) \/ AbandonRequest(c)
      PROVE  \A b \in Client : ReqSeen(req[b])'
  <2>1. req' = [req EXCEPT ![c] = NoReq]
    BY <1>1 DEF CreateInsert, AddDecision, AbandonRequest
  <2>2. ReqSeen(NoReq)'
    BY RestShapes DEF ReqSeen
  <2> QED
    BY <2>1, <2>2, ReqPlaced
<1>2. ASSUME NEW u \in User, NEW p \in Promo, Cancel(u, p) PROVE \A b \in Client : ReqSeen(req[b])'
  <2>1. UNCHANGED req
    BY <1>2 DEF Cancel
  <2> QED
    BY <2>1, ReqUnmoved
<1> QED
  BY <1>1, <1>2, CreateLoadSeen, DecideLoadSeen DEF Request

LEMMA PutPlaced ==
    ASSUME Keeps, NEW a \in Admin, NEW r, put' = [put EXCEPT ![a] = r], PutSeen(r)'
    PROVE  \A b \in Admin : PutSeen(put[b])'
<1>0. put \in [Admin -> PutType] /\ Grows /\ InForceGrows
  BY StrongParts DEF Keeps, PutOK
<1> SUFFICES ASSUME NEW b \in Admin PROVE PutSeen(put[b])'
  OBVIOUS
<1>1. PICK x : x = put'[b]
  OBVIOUS
<1>2. PutSeen(x)'
  <2>1. CASE b = a
    BY <1>0, <1>1, <2>1
  <2>2. CASE b # a
    <3>1. x = put[b] /\ PutSeen(x) /\ PutShape(x)
      BY <1>0, <1>1, <2>2, StrongParts DEF Keeps
    <3> QED
      BY <1>0, <3>1, PutSeenKept
  <2> QED
    BY <2>1, <2>2
<1> QED
  BY <1>1, <1>2 DEF PutSeen, Older

LEMMA PutUnmoved == ASSUME Keeps, UNCHANGED put PROVE \A b \in Admin : PutSeen(put[b])'
<1> SUFFICES ASSUME NEW b \in Admin PROVE PutSeen(put[b])'
  OBVIOUS
<1>1. PICK x : x = put[b]
  OBVIOUS
<1>2. PutSeen(x) /\ PutShape(x)
  BY <1>1, StrongParts DEF Keeps
<1>3. PutSeen(x)'
  BY <1>2, PutSeenKept DEF Keeps
<1> QED
  BY <1>1, <1>3 DEF PutSeen, Older

LEMMA RestSeen ==
    /\ \A p \in Promo : NoPut.snap[p].status = "none" /\ TickIdle.snap[p].status = "none"
    /\ NoPut.todo = {} /\ TickIdle.todo = {} /\ TickIdle.ready = {} /\ NoPut.pc = "idle" /\ TickIdle.pc = "idle"
    /\ \A e \in Env : TickIdle.cache[e] = Unread
BY DEF NoPut, TickIdle, NoPromo

LEMMA PutStep == ASSUME Keeps, PolicyChange PROVE \A b \in Admin : PutSeen(put[b])'
<1>0. put \in [Admin -> PutType] /\ RulesOK
  BY StrongParts DEF Keeps, PutOK
<1>1. ASSUME NEW a \in Admin, NEW e \in Env, NEW pol \in Policies, PutEnv(a, e, pol)
      PROVE  \A b \in Admin : PutSeen(put[b])'
  <2> DEFINE r == [NoPut EXCEPT !.pc = "list", !.env = e, !.pol = pol]
  <2>1. put' = [put EXCEPT ![a] = r] /\ inForce' = [inForce EXCEPT ![e] = @ \cup {pol}]
    BY <1>1 DEF PutEnv
  <2>2. r.env = e /\ r.pol = pol /\ r.todo = {} /\ r.snap = NoPut.snap
    BY DEF NoPut
  <2> HIDE DEF r
  <2>3. pol \in inForce'[e]
    BY <1>0, <2>1 DEF RulesOK
  <2>4. PICK x : x = r
    OBVIOUS
  <2>5. PutSeen(x)'
    BY <2>2, <2>3, <2>4, RestSeen DEF PutSeen, Older
  <2> QED
    BY <2>1, <2>4, <2>5, PutPlaced
<1>2. ASSUME NEW a \in Admin, ReevaluateList(a) PROVE \A b \in Admin : PutSeen(put[b])'
  <2> DEFINE S == {p \in Promo : promo[p].env = put[a].env /\ promo[p].status \in Waitable}
             r == [put[a] EXCEPT !.pc = "visit", !.at = now, !.snap = promo, !.todo = S]
  <2>1. put' = [put EXCEPT ![a] = r] /\ put[a].pc # "idle" /\ UNCHANGED <<rules, rows>>
    BY <1>0, <1>2 DEF ReevaluateList
  <2>2. r.todo = S /\ r.snap = promo /\ r.env = put[a].env /\ r.pol = put[a].pol
    BY <1>0 DEF PutType
  <2>3. \A p \in S : promo[p].env = put[a].env
    OBVIOUS
  <2> HIDE DEF r, S
  <2>4. PICK x : x = r
    OBVIOUS
  <2>5. put[a].pol \in inForce[put[a].env]
    BY <2>1, StrongParts DEF Keeps, PutSeen
  <2>6. PutSeen(x)'
    BY <2>1, <2>2, <2>3, <2>4, <2>5 DEF PutSeen, Older, rules, rows
  <2> QED
    BY <2>1, <2>4, <2>6, PutPlaced
<1>3. ASSUME NEW a \in Admin, ReevaluateVisit(a) PROVE \A b \in Admin : PutSeen(put[b])'
  <2>1. PICK p \in Promo : put' = [put EXCEPT ![a].todo = @ \ {p}]
    BY <1>3 DEF ReevaluateVisit
  <2> DEFINE r == [put[a] EXCEPT !.todo = put[a].todo \ {p}]
  <2>2. put' = [put EXCEPT ![a] = r]
    BY <1>0, <2>1
  <2>3. r.todo \subseteq put[a].todo /\ r.snap = put[a].snap /\ r.pc = put[a].pc /\ r.env = put[a].env /\ r.pol = put[a].pol
    BY <1>0 DEF PutType
  <2> HIDE DEF r
  <2>4. PICK x : x = r
    OBVIOUS
  <2>5. PICK y : y = put[a]
    OBVIOUS
  <2>6. PutSeen(y) /\ PutShape(y)
    BY <2>5, StrongParts DEF Keeps
  <2>7. PutSeen(y)'
    BY <2>6, PutSeenKept DEF Keeps
  <2>8. PutSeen(x)'
    BY <2>3, <2>4, <2>5, <2>7 DEF PutSeen
  <2> QED
    BY <2>2, <2>4, <2>8, PutPlaced
<1>4. ASSUME NEW a \in Admin, PutEnd(a) PROVE \A b \in Admin : PutSeen(put[b])'
  <2>1. put' = [put EXCEPT ![a] = NoPut]
    BY <1>4 DEF PutEnd
  <2>2. PICK x : x = NoPut
    OBVIOUS
  <2>3. PutSeen(x)'
    BY <2>2, RestSeen DEF PutSeen, Older
  <2> QED
    BY <2>1, <2>2, <2>3, PutPlaced
<1> QED
  BY <1>1, <1>2, <1>3, <1>4 DEF PolicyChange


-----------------------------------------------------------------------------
(* What the loops remember after a step.                                   *)

LoopsSeen == \A q \in Proc : TickSeen(tick[q]) /\ SaveSeen(tick[q])

LEMMA LoopUnmoved ==
    ASSUME Keeps, NEW q \in Proc, tick'[q] = tick[q]
    PROVE  TickSeen(tick[q])' /\ SaveSeen(tick[q])'
<1>1. PICK x : x = tick[q]
  OBVIOUS
<1>2. TickSeen(x) /\ SaveSeen(x) /\ TickShape(x)
  BY <1>1, StrongParts DEF Keeps
<1>3. TickSeen(x)' /\ SaveSeen(x)'
  BY <1>2, TickSeenKept, SaveSeenKept DEF Keeps
<1>4. TickSeen(tick[q])'
  BY <1>1, <1>3 DEF TickSeen, Older
<1>5. SaveSeen(tick[q])'
  BY <1>1, <1>3 DEF SaveSeen
<1> QED
  BY <1>4, <1>5

\* It is enough to look at the loop that moved.
LEMMA LoopPlaced ==
    ASSUME Keeps, NEW pr \in Proc, Others(pr), NEW u, u = tick'[pr], Recalls(u)', Plans(u),
           u.pc \in {"claim", "launch", "save"} => promo'[u.cur].status # "none", SaveSeen(u)'
    PROVE  LoopsSeen'
<1> SUFFICES ASSUME NEW q \in Proc PROVE TickSeen(tick[q])' /\ SaveSeen(tick[q])'
  BY DEF LoopsSeen
<1>1. CASE q # pr
  BY <1>1, LoopUnmoved DEF Others
<1>2. CASE q = pr
  <2>1. TickSeen(u)'
    BY TickSeenPartsNext
  <2>2. TickSeen(tick[q])'
    BY <1>2, <2>1 DEF TickSeen, Older
  <2>3. SaveSeen(tick[q])'
    BY <1>2 DEF SaveSeen
  <2> QED
    BY <2>2, <2>3
<1> QED
  BY <1>1, <1>2

LEMMA LoopFacts ==
    ASSUME Keeps, NEW pr \in Proc
    PROVE  /\ Recalls(tick[pr]) /\ Plans(tick[pr])
           /\ tick[pr].pc \in {"claim", "launch", "save"} => tick[pr].cur \in Promo /\ promo'[tick[pr].cur].status # "none"
           /\ tick[pr].todo \subseteq Promo /\ tick[pr].ready \subseteq Promo
           /\ \A p \in Promo : tick[pr].snap[p].status # "none" => promo'[p].status # "none"
<1>1. TickSeen(tick[pr]) /\ TickShape(tick[pr]) /\ Grows
  BY StrongParts DEF Keeps
<1>2. Recalls(tick[pr]) /\ Plans(tick[pr])
      /\ (tick[pr].pc \in {"claim", "launch", "save"} => promo[tick[pr].cur].status # "none")
  BY <1>1, TickSeenParts
<1>3. tick[pr].todo \subseteq Promo /\ tick[pr].ready \subseteq Promo
  BY <1>1, TickFields DEF TickShape
<1>4. \A p \in Promo : tick[pr].snap[p].status # "none" => promo'[p].status # "none"
  BY <1>1, <1>2 DEF Recalls, Older, Grows
<1>5. tick[pr].pc \in {"claim", "launch", "save"} => tick[pr].cur \in Promo /\ promo'[tick[pr].cur].status # "none"
  BY <1>1, <1>2 DEF TickShape, Grows
<1> QED
  BY <1>2, <1>3, <1>4, <1>5

LEMMA SameRecalls ==
    ASSUME Keeps, NEW pr \in Proc, NEW u, Same(tick[pr], u)
    PROVE  Recalls(u)'
<1>1. Recalls(u)
  BY LoopFacts DEF Recalls, Same
<1> QED
  BY <1>1, RecallsKept DEF Keeps

LEMMA RestsSeen == ASSUME Keeps, NEW pr \in Proc, Rests(pr) PROVE LoopsSeen'
<1>1. PICK u : u = tick'[pr]
  OBVIOUS
<1>2. u = TickIdle /\ Others(pr)
  BY <1>1 DEF Rests
<1>3. Recalls(u)'
  BY <1>2, RestSeen, ConstantsAssumption DEF Recalls, Older
<1>4. Plans(u) /\ u.pc = "idle"
  BY <1>2, RestSeen DEF Plans
<1> QED
  BY <1>1, <1>2, <1>3, <1>4, LoopPlaced DEF SaveSeen

LEMMA VisitsSeen == ASSUME Keeps, NEW pr \in Proc, NEW p \in Promo, Visits(pr, p) PROVE LoopsSeen'
<1>1. PICK u : u = tick'[pr]
  OBVIOUS
<1>2. PICK t : t = tick[pr]
  OBVIOUS
<1>3. /\ Others(pr) /\ Same(t, u) /\ u.pc = t.pc /\ u.todo \subseteq t.todo \ {p} /\ u.cur = t.cur /\ u.dep = t.dep
      /\ u.ready \subseteq t.ready \cup {p}
      /\ p \in u.ready => p \in t.ready \/ (t.pc = "loop" /\ t.snap[p].status \in Waitable)
  BY <1>1, <1>2 DEF Visits
<1>4. Recalls(u)'
  BY <1>2, <1>3, SameRecalls
<1>5. Plans(t)
  BY <1>2, LoopFacts
<1>6. "none" \notin Waitable
  BY DEF Waitable
<1>7. Plans(u)
  BY <1>3, <1>5, <1>6 DEF Plans, Same
<1>8. SaveSeen(t)'
  <2>1. SaveSeen(t)
    BY <1>2, StrongParts DEF Keeps
  <2> QED
    BY <2>1, SaveSeenKept DEF Keeps
<1>9. SaveSeen(u)'
  BY <1>3, <1>8 DEF SaveSeen
<1>10. u.pc \in {"claim", "launch", "save"} => promo'[u.cur].status # "none"
  BY <1>2, <1>3, LoopFacts
<1> QED
  BY <1>1, <1>3, <1>4, <1>7, <1>9, <1>10, LoopPlaced

LEMMA TakesSeen ==
    ASSUME Keeps, NEW pr \in Proc, NEW p \in tick[pr].todo \cup tick[pr].ready, NEW pc \in {"claim", "launch"},
           Takes(pr, p, pc)
    PROVE  LoopsSeen'
<1>1. PICK u : u = tick'[pr]
  OBVIOUS
<1>2. PICK t : t = tick[pr]
  OBVIOUS
<1>3. /\ Others(pr) /\ Same(t, u) /\ t.pc = "loop" /\ u.pc = pc /\ u.todo = t.todo \ {p} /\ u.cur = p
      /\ u.ready = t.ready
  BY <1>1, <1>2 DEF Takes
<1>4. Recalls(u)'
  BY <1>2, <1>3, SameRecalls
<1>5. Plans(t)
  BY <1>2, LoopFacts
<1>6. Plans(u)
  BY <1>3, <1>5 DEF Plans, Same, InLoop
<1>7. t.snap[p].status # "none" /\ p \in Promo
  BY <1>2, <1>3, <1>5, LoopFacts DEF Plans, InLoop
<1>8. promo'[u.cur].status # "none"
  BY <1>2, <1>3, <1>7, LoopFacts
<1> QED
  BY <1>1, <1>3, <1>4, <1>6, <1>8, LoopPlaced DEF SaveSeen

LEMMA ResumesSeen ==
    ASSUME Keeps, NEW pr \in Proc, tick[pr].pc \in {"claim", "launch", "save"}, Resumes(pr)
    PROVE  LoopsSeen'
<1>1. PICK u : u = tick'[pr]
  OBVIOUS
<1>2. PICK t : t = tick[pr]
  OBVIOUS
<1>3. Others(pr) /\ Same(t, u) /\ u.pc = "loop" /\ u.todo = t.todo /\ u.ready \subseteq t.ready
  BY <1>1, <1>2 DEF Resumes
<1>4. Recalls(u)'
  BY <1>2, <1>3, SameRecalls
<1>5. Plans(t) /\ t.pc \in InLoop
  BY <1>2, LoopFacts DEF InLoop
<1>6. Plans(u)
  BY <1>3, <1>5 DEF Plans, Same
<1> QED
  BY <1>1, <1>3, <1>4, <1>6, LoopPlaced DEF SaveSeen

LEMMA GoesOnSeen ==
    ASSUME Keeps, NEW pr \in Proc, tick[pr].pc \in {"claim", "launch"}, NEW pc \in {"launch", "save"}, NEW d,
           GoesOn(pr, pc, d),
           pc = "save" => d \in Dep /\ deps'[d].promo = tick[pr].cur /\ deps'[d].status # "none"
    PROVE  LoopsSeen'
<1>1. PICK u : u = tick'[pr]
  OBVIOUS
<1>2. PICK t : t = tick[pr]
  OBVIOUS
<1>3. /\ Others(pr) /\ Same(t, u) /\ u.pc = pc /\ u.todo = t.todo /\ u.cur = t.cur /\ u.dep = d
      /\ u.ready \subseteq t.ready
  BY <1>1, <1>2 DEF GoesOn
<1>4. Recalls(u)'
  BY <1>2, <1>3, SameRecalls
<1>5. Plans(t) /\ t.pc \in InLoop
  BY <1>2, LoopFacts DEF InLoop
<1>6. Plans(u)
  BY <1>3, <1>5 DEF Plans, Same
<1>7. promo'[u.cur].status # "none"
  BY <1>2, <1>3, LoopFacts
<1>8. SaveSeen(u)'
  BY <1>2, <1>3 DEF SaveSeen
<1> QED
  BY <1>1, <1>3, <1>4, <1>6, <1>7, <1>8, LoopPlaced

LEMMA BeginsSeen ==
    ASSUME Keeps, NEW pr \in Proc, TickExpire(pr) \/ TickList(pr) \/ TickGetEnv(pr)
    PROVE  LoopsSeen'
<1>0. TickOK /\ Grows /\ InForceGrows
  BY StrongParts DEF Keeps
<1>1. PICK u : u = tick'[pr]
  OBVIOUS
<1>2. PICK t : t = tick[pr]
  OBVIOUS
<1>3. CASE TickExpire(pr)
  <2>1. Others(pr) /\ t = TickIdle /\ u.pc = "sync" /\ Same(t, u) /\ u.ready = {}
    BY <1>0, <1>1, <1>2, <1>3, ExpireFields
  <2>2. Recalls(u)'
    BY <1>2, <2>1, SameRecalls
  <2>3. Plans(u)
    BY <2>1 DEF Plans, InLoop
  <2> QED
    BY <1>1, <2>1, <2>2, <2>3, LoopPlaced DEF SaveSeen
<1>4. CASE TickList(pr) /\ ~Rests(pr)
  <2>1. /\ Others(pr) /\ t.pc = "sync" /\ u.pc = "loop" /\ u.snap = promo /\ u.cache = t.cache
        /\ u.todo = {p \in Promo : promo[p].status \in Active} /\ u.ready = t.ready
    BY <1>0, <1>1, <1>2, <1>4, ListFields
  <2>2. Recalls(t) /\ Plans(t)
    BY <1>2, LoopFacts
  <2>3. Recalls(u)
    BY <2>1, <2>2 DEF Recalls, Older
  <2>4. Recalls(u)'
    BY <1>0, <2>3, RecallsKept
  <2>5. \A p \in u.todo : u.snap[p].status # "none"
    BY <2>1, StatusNames
  <2>6. Plans(u)
    BY <2>1, <2>2, <2>5 DEF Plans
  <2> QED
    BY <1>1, <2>1, <2>4, <2>6, LoopPlaced DEF SaveSeen
<1>5. CASE TickGetEnv(pr)
  <2>1. /\ Others(pr) /\ u.pc = t.pc /\ u.snap = t.snap /\ u.todo = t.todo /\ u.ready = t.ready /\ t.pc = "loop"
        /\ \A e \in Env : u.cache[e] \in {t.cache[e], policy[e], Failed}
    BY <1>0, <1>1, <1>2, <1>5, GetEnvFields
  <2>2. Recalls(t) /\ Plans(t) /\ PolicyKnown /\ Failed \notin Policies
    BY <1>2, LoopFacts, ConstantsAssumption DEF Keeps, Strong
  <2>3. \A e \in Env : u.cache[e] \in Policies => u.cache[e] \in inForce[e]
    BY <2>1, <2>2 DEF Recalls, PolicyKnown
  <2>4. \A p \in Promo : Older(u.snap[p], promo[p])
    BY <2>1, <2>2 DEF Recalls
  <2>5. Recalls(u)'
    BY <1>0, <2>3, <2>4, RecallsKept DEF Recalls
  <2>6. Plans(u)
    BY <2>1, <2>2 DEF Plans
  <2> QED
    BY <1>1, <2>1, <2>5, <2>6, LoopPlaced DEF SaveSeen
<1> QED
  BY <1>3, <1>4, <1>5, RestsSeen

LEMMA LoopStep == ASSUME Keeps, NEW pr \in Proc, Tick(pr) \/ Crash(pr) PROVE LoopsSeen'
<1>0. TickOK /\ DepsOK
  BY StrongParts DEF Keeps
<1>1. CASE TickExpire(pr) \/ TickList(pr) \/ TickGetEnv(pr)
  BY <1>1, BeginsSeen
<1>2. CASE TickSync(pr) \/ TickSkip(pr)
  BY <1>0, <1>2, SyncFields, SkipFields, VisitsSeen
<1>3. ASSUME NEW p \in Promo, TickAdvance(pr, p) \/ TickPoll(pr, p) PROVE LoopsSeen'
  BY <1>0, <1>3, AdvanceFields, PollFields, VisitsSeen
<1>4. ASSUME NEW p \in Promo, TickRelaunch(pr, p) \/ TickStart(pr, p) PROVE LoopsSeen'
  BY <1>0, <1>4, RelaunchFields, StartFields, VisitsSeen, TakesSeen
<1>5. CASE TickClaim(pr)
  BY <1>0, <1>5, ClaimFields, ResumesSeen, GoesOnSeen
<1>6. CASE TickLaunch(pr)
  BY <1>0, <1>6, LaunchFields, ResumesSeen, GoesOnSeen
<1>7. CASE TickSave(pr)
  BY <1>0, <1>7, SaveFields, ResumesSeen
<1>8. CASE TickEnd(pr) \/ Crash(pr)
  <2>1. tick' = [tick EXCEPT ![pr] = TickIdle]
    BY <1>8 DEF TickEnd, Crash
  <2> QED
    BY <1>0, <2>1, RestsMeans, RestsSeen
<1> QED
  BY <1>1, <1>2, <1>3, <1>4, <1>5, <1>6, <1>7, <1>8 DEF Tick

-----------------------------------------------------------------------------
(* The stronger invariant, and what follows from it.                       *)

LEMMA NextStrong == Strong /\ [Next]_vars => Strong'
<1> SUFFICES ASSUME Strong, [Next]_vars PROVE Strong'
  OBVIOUS
<1>1. InForceGrows /\ PolicyKnown'
  BY RulesStep, StrongParts DEF Strong
<1>2. Effect
  BY NextEffect
<1>3. RowsTrue' /\ Grows
  BY <1>1, <1>2, RowsTrueStep
<1>4. DepsGrow
  BY DepsStep, StrongParts
<1>5. Keeps
  BY <1>1, <1>3, <1>4 DEF Keeps
<1>6. \A b \in Client : ReqSeen(req[b])'
  <2>1. CASE UNCHANGED req
    BY <1>5, <2>1, ReqUnmoved
  <2>2. CASE UNCHANGED vars
    BY <2>1, <2>2 DEF vars
  <2> QED
    BY <1>5, <2>1, <2>2, ReqStep, PolicyLeaves, WorldLeaves, TickLeaves DEF Next
<1>7. \A b \in Admin : PutSeen(put[b])'
  <2>1. CASE UNCHANGED put
    BY <1>5, <2>1, PutUnmoved
  <2>2. CASE UNCHANGED vars
    BY <2>1, <2>2 DEF vars
  <2> QED
    BY <1>5, <2>1, <2>2, PutStep, RequestLeaves, WorldLeaves, TickLeaves DEF Next
<1>8. LoopsSeen'
  <2>1. CASE UNCHANGED tick
    BY <1>5, <2>1, LoopUnmoved DEF LoopsSeen
  <2>2. CASE UNCHANGED vars
    BY <2>1, <2>2 DEF vars
  <2> QED
    BY <1>5, <2>1, <2>2, LoopStep, RequestLeaves, PolicyLeaves, WorldLeaves DEF Next
<1>9. Seen'
  BY <1>6, <1>7, <1>8 DEF Seen, LoopsSeen
<1>10. Inv'
  BY NextInv DEF Strong
<1> QED
  BY <1>1, <1>3, <1>9, <1>10 DEF Strong

LEMMA InitStrong == Init => Strong
<1> SUFFICES ASSUME Init PROVE Strong
  OBVIOUS
<1>0. Inv
  BY InitInv
<1>1. /\ \A p \in Promo : promo[p].status = "none" /\ promo[p].key = NoKey /\ promo[p].dep = NoDep
      /\ \A p \in Promo : hist[p].status = "none" /\ hist[p].dep = NoDep
  BY DEF Init, NoPromo
<1>2. PolicyKnown
  BY DEF Init, PolicyKnown
<1>3. BlankOK /\ ExpiredOK /\ RowsMirror
  BY <1>1 DEF BlankOK, ExpiredOK, RowsMirror, EnvDeploymentStatus
<1>4. QuorumHonoured /\ QuorumNotMissed
  BY <1>1, StatusNames DEF QuorumHonoured, QuorumNotMissed
<1>5. NoDuplicateRequest /\ SourceEnvironmentHonoured
  BY <1>1 DEF NoDuplicateRequest, SourceEnvironmentHonoured
<1>6. \A c \in Client : ReqSeen(req[c])
  BY RestShapes DEF Init, ReqSeen
<1>7. \A a \in Admin : PutSeen(put[a])
  BY RestSeen DEF Init, PutSeen, Older
<1>8. \A pr \in Proc : TickSeen(tick[pr]) /\ SaveSeen(tick[pr])
  BY RestSeen, ConstantsAssumption DEF Init, TickSeen, SaveSeen, Older, InLoop
<1> QED
  BY <1>0, <1>2, <1>3, <1>4, <1>5, <1>6, <1>7, <1>8 DEF Strong, Seen, RowsTrue

LEMMA AlwaysStrong == Spec => []Strong
BY InitStrong, NextStrong, PTL DEF Spec

\* Whatever decide, create, reevaluate and the loops read before the rows
\* moved on, nothing gets past approval on fewer approvals than a policy the
\* environment really had asks for.
THEOREM QuorumIsHonoured == Spec => []QuorumHonoured
<1>1. Strong => QuorumHonoured
  BY DEF Strong, RowsTrue
<1> QED
  BY <1>1, AlwaysStrong, PTL

\* Two simultaneous approvals cannot both miss the quorum: a promotion that is
\* still pending lacks approvals under a policy its environment has had.
THEOREM QuorumIsNotMissed == Spec => []QuorumNotMissed
<1>1. Strong => QuorumNotMissed
  BY DEF Strong, RowsTrue
<1> QED
  BY <1>1, AlwaysStrong, PTL

\* Retried and concurrent CreatePromotion requests make one promotion per
\* Idempotency-Key, and one active promotion per environment and commit.
THEOREM NoDuplicates == Spec => []NoDuplicateRequest
<1>1. Strong => NoDuplicateRequest
  BY DEF Strong, RowsTrue
<1> QED
  BY <1>1, AlwaysStrong, PTL

\* An environment that was always fed from another one only has promotions of
\* commits that succeeded there, however late checkStatic's answer is used.
THEOREM SourceHonoured == Spec => []SourceEnvironmentHonoured
<1>1. Strong => SourceEnvironmentHonoured
  BY DEF Strong, RowsTrue
<1> QED
  BY <1>1, AlwaysStrong, PTL

-----------------------------------------------------------------------------
(* What one process adds: it does not race itself, so what it is about to   *)
(* launch or to save is deploying and has no deployment yet, and it ends a  *)
(* promotion by the deployment that the row names.                          *)

OneProcess == \A p, q \in Proc : p = q

Running == {"deploying", "success", "failed"}

TickOwn(t) ==
    /\ t.pc \in InLoop => \A p \in t.todo : t.snap[p].status = "deploying" =>
          promo[p].status = "deploying" /\ promo[p].dep = t.snap[p].dep
    /\ t.pc = "claim" => t.todo = {}
    /\ t.pc \in {"launch", "save"} =>
          promo[t.cur].status = "deploying" /\ promo[t.cur].dep = NoDep /\ t.cur \notin t.todo

LoopsOwn == \A q \in Proc : TickOwn(tick[q])

\* The deployment of a promotion was created for it, and only what was started has one.
DepsOwned ==
    \A p \in Promo : promo[p].dep # NoDep => deps[promo[p].dep].promo = p /\ deps[promo[p].dep].status # "none"
Undeployed == \A p \in Promo : promo[p].status \notin Running => promo[p].dep = NoDep

\* A deployment is on its row, about to be saved there, or was paid for by a fault.
Saving(p) == \E pr \in Proc : tick[pr].pc = "save" /\ tick[pr].cur = p
Made(p) == {d \in Dep : deps[d].promo = p}
Charged(p) == promo[p].dep # NoDep \/ Saving(p)
Account(p) == Cardinality(Made(p)) <= (MaxFaults - faults) + (IF Charged(p) THEN 1 ELSE 0)
Ledger == \A p \in Promo : Account(p)

Alone == Strong /\ DepsOwned /\ Undeployed /\ SuccessWasDeployed /\ LoopsOwn /\ Ledger

-----------------------------------------------------------------------------
(* Steps that start and end no deployment of a promotion.                  *)

Quiet ==
    \A p \in Promo : /\ promo'[p].dep = promo[p].dep
                     /\ promo[p].status \in Running => promo'[p] = promo[p]
                     /\ promo'[p].status \in Running => promo[p].status \in Running

LEMMA QuietSame == ASSUME UNCHANGED rows PROVE Quiet
BY DEF rows, Quiet

LEMMA QuietWrite ==
    ASSUME RowsOK, NEW p \in Promo, NEW row, Write(p, row), row.dep = promo[p].dep,
           promo[p].status \notin Running, row.status \notin Running
    PROVE  Quiet
<1>1. promo'[p] = row /\ \A q \in Promo \ {p} : promo'[q] = promo[q]
  BY DEF RowsOK, Write
<1>2. \A q \in Promo : q = p \/ q \in Promo \ {p}
  OBVIOUS
<1> QED
  BY <1>1, <1>2 DEF Quiet

LEMMA WaitableNotRunning == Waitable \cap Running = {} /\ "none" \notin Running
BY DEF Waitable, Running

LEMMA QuietStatus ==
    ASSUME RowsOK, NEW p \in Promo, NEW from, from \subseteq Waitable, NEW st, st \notin Running,
           Transition(p, from, [promo[p] EXCEPT !.status = st])
    PROVE  Quiet
<1> DEFINE row == [promo[p] EXCEPT !.status = st]
<1>1. row.status = st /\ row.dep = promo[p].dep
  BY PromotionTypes DEF Promotion
<1>2. promo[p].status \in from /\ Write(p, row)
  BY DEF Transition, CanTransition
<1> HIDE DEF row
<1> QED
  BY <1>1, <1>2, WaitableNotRunning, QuietWrite

LEMMA QuietAdvanced ==
    ASSUME RowsOK, NEW p \in Promo, NEW old, old \in Promotion, old.status \in Waitable, NEW pol, NEW t,
           Transition(p, {old.status}, Advanced(pol, old, t, promo[p]))
    PROVE  Quiet
<1> DEFINE row == Advanced(pol, old, t, promo[p])
           adv == Advance(pol, old, t)
<1>1. row.status = adv.status /\ row.dep = promo[p].dep
  BY PromotionTypes DEF Promotion, Advanced
<1>2. promo[p].status = old.status /\ Write(p, row)
  BY DEF Transition, CanTransition
<1>3. adv.status \in Waitable
  BY NextAfterQuorumType DEF Advance, Waitable, Promotion
<1> HIDE DEF row, adv
<1> QED
  BY <1>1, <1>2, <1>3, WaitableNotRunning, QuietWrite

LEMMA RequestQuiet == ASSUME Strong, Request PROVE Quiet
<1>0. RowsOK /\ BlankOK
  BY StrongParts DEF Strong, RowsTrue
<1>1. ASSUME NEW c \in Client, CreateInsert(c) PROVE Quiet
  <2>1. CASE UNCHANGED rows
    BY <2>1, QuietSame
  <2>2. ASSUME NEW p \in Promo, Oldest(p, Unused), Write(p, NewRow(req[c])) PROVE Quiet
    <3>1. promo[p].status = "none" /\ promo[p].dep = NoDep
      BY <1>0, <2>2 DEF Oldest, Unused, BlankOK
    <3>2. ReqShape(req[c]) /\ req[c].kind = "create"
      BY <1>1, StrongParts DEF CreateInsert
    <3>3. NewRow(req[c]).dep = NoDep /\ NewRow(req[c]).status \in Waitable
      BY <3>2, NewRowMeans DEF Waitable
    <3> QED
      BY <1>0, <2>2, <3>1, <3>3, WaitableNotRunning, QuietWrite
  <2> QED
    BY <1>1, <2>1, <2>2 DEF CreateInsert
<1>2. ASSUME NEW c \in Client, AddDecision(c) PROVE Quiet
  <2>1. req[c].kind \in {"approve", "reject"}
    BY <1>2 DEF AddDecision
  <2>2. PICK p \in Promo : p = req[c].promo
    BY <2>1, StrongParts DEF ReqShape
  <2>3. promo[p] \in Promotion
    BY <1>0, PromotionTypes
  <2>4. CASE UNCHANGED rows
    BY <2>4, QuietSame
  <2>5. CASE req[c].kind = "approve" /\ promo[p].status = "pending_approval" /\ Write(p, Approved(req[c], promo[p]))
    <3>1. /\ Approved(req[c], promo[p]).dep = promo[p].dep
          /\ Approved(req[c], promo[p]).status \in {"pending_approval", "waiting", "approved"}
      BY <2>3, <2>5, NextAfterQuorumType DEF Approved, Promotion
    <3> QED
      BY <1>0, <2>5, <3>1, QuietWrite DEF Running
  <2>6. CASE req[c].kind = "reject" /\ promo[p].status \in Waitable /\ Write(p, [promo[p] EXCEPT !.status = "rejected"])
    <3> DEFINE row == [promo[p] EXCEPT !.status = "rejected"]
    <3>1. row.status = "rejected" /\ row.dep = promo[p].dep
      BY <2>3 DEF Promotion
    <3> HIDE DEF row
    <3>2. Write(p, row) /\ "rejected" \notin Running
      BY <2>6 DEF row, Running
    <3> QED
      BY <1>0, <2>6, <3>1, <3>2, WaitableNotRunning, QuietWrite
  <2> QED
    BY <1>2, <2>1, <2>2, <2>4, <2>5, <2>6 DEF AddDecision
<1>3. ASSUME NEW u \in User, NEW p \in Promo, Cancel(u, p) PROVE Quiet
  BY <1>0, <1>3, QuietStatus DEF Cancel, Running
<1>4. ASSUME NEW c \in Client, NEW u \in Requester, NEW e \in Env, NEW sha \in Sha, NEW from \in Env \cup {NoEnv},
             NEW key \in Key \cup {NoKey}, CreateLoad(c, u, e, sha, from, key)
      PROVE  Quiet
  BY <1>4, QuietSame DEF CreateLoad
<1>5. ASSUME NEW c \in Client, NEW u \in User, NEW p \in Promo, NEW approve \in BOOLEAN, DecideLoad(c, u, p, approve)
      PROVE  Quiet
  BY <1>5, QuietSame DEF DecideLoad
<1>6. ASSUME NEW c \in Client, AbandonRequest(c) PROVE Quiet
  BY <1>6, QuietSame DEF AbandonRequest
<1> QED
  BY <1>1, <1>2, <1>3, <1>4, <1>5, <1>6 DEF Request

LEMMA PolicyQuiet == ASSUME Strong, PolicyChange PROVE Quiet
<1>0. RowsOK /\ PutKnown /\ put \in [Admin -> PutType]
  BY StrongParts DEF PutOK
<1>1. ASSUME NEW a \in Admin, ReevaluateVisit(a) PROVE Quiet
  <2> DEFINE old(p) == put[a].snap[p]
             blocked(p) == CheckStatic(put[a].pol, old(p).sha, old(p).from) = NoSource
             new(p) == IF blocked(p) THEN [promo[p] EXCEPT !.status = "cancelled"]
                       ELSE Advanced(put[a].pol, old(p), put[a].at, promo[p])
  <2>1. PICK p \in Promo :
          /\ Oldest(p, put[a].todo)
          /\ \/ Transition(p, {old(p).status}, new(p))
             \/ UNCHANGED rows
    BY <1>1 DEF ReevaluateVisit, Refused
  <2>2. old(p).status \in Waitable /\ old(p) \in Promotion
    BY <1>0, <2>1 DEF PutKnown, Oldest, PutType
  <2>3. CASE Transition(p, {old(p).status}, new(p)) /\ blocked(p)
    <3>1. "cancelled" \notin Running /\ {old(p).status} \subseteq Waitable
      BY <2>2 DEF Running
    <3> QED
      BY <1>0, <2>3, <3>1, QuietStatus
  <2>4. CASE Transition(p, {old(p).status}, new(p)) /\ ~blocked(p)
    BY <1>0, <2>2, <2>4, QuietAdvanced
  <2> QED
    BY <2>1, <2>3, <2>4, QuietSame
<1>2. ASSUME NEW a \in Admin, NEW e \in Env, NEW pol \in Policies, PutEnv(a, e, pol) PROVE Quiet
  BY <1>2, QuietSame DEF PutEnv
<1>3. ASSUME NEW a \in Admin, ReevaluateList(a) \/ PutEnd(a) PROVE Quiet
  BY <1>3, QuietSame DEF ReevaluateList, PutEnd
<1> QED
  BY <1>1, <1>2, <1>3 DEF PolicyChange

LEMMA TickQuiet ==
    ASSUME Strong, NEW pr \in Proc,
           \/ TickExpire(pr) \/ TickSync(pr) \/ TickList(pr) \/ TickGetEnv(pr) \/ TickSkip(pr)
           \/ TickEnd(pr) \/ Crash(pr)
    PROVE  Quiet
<1>0. RowsOK
  BY StrongParts
<1>1. CASE TickExpire(pr)
  <2>1. CASE UNCHANGED promo
    BY <2>1 DEF Quiet
  <2>2. CASE promo' = [p \in Promo |->
               IF p \in {q \in Promo : promo[q].status \in Waitable /\ promo[q].expiresAt <= now}
               THEN [promo[p] EXCEPT !.status = "expired"] ELSE promo[p]]
    <3>1. ASSUME NEW p \in Promo
          PROVE \/ promo'[p] = promo[p]
                \/ promo'[p].status = "expired" /\ promo[p].status \in Waitable /\ promo'[p].dep = promo[p].dep
      BY <1>0, <2>2 DEF RowsOK, Promotion
    <3>2. "expired" \notin Running
      BY DEF Running
    <3> QED
      BY <3>1, <3>2, WaitableNotRunning DEF Quiet
  <2> QED
    BY <1>1, <2>1, <2>2 DEF TickExpire
<1>2. CASE TickSync(pr)
  <2>1. ASSUME NEW p \in Promo, Write(p, promo[p]) PROVE Quiet
    BY <1>0, <2>1 DEF Write, RowsOK, Quiet
  <2>2. PICK p \in Promo : Write(p, promo[p]) \/ UNCHANGED rows
    BY <1>2 DEF TickSync
  <2> QED
    BY <2>1, <2>2, QuietSame
<1>3. CASE TickList(pr) \/ TickGetEnv(pr) \/ TickSkip(pr) \/ TickEnd(pr) \/ Crash(pr)
  <2>1. UNCHANGED rows
    BY <1>3 DEF TickList, TickGetEnv, TickSkip, TickEnd, Crash
  <2> QED
    BY <2>1, QuietSame
<1> QED
  BY <1>1, <1>2, <1>3

LEMMA AdvanceQuiet == ASSUME Strong, NEW pr \in Proc, NEW p \in Promo, TickAdvance(pr, p) PROVE Quiet
<1>0. RowsOK /\ tick[pr] \in TickType
  BY StrongParts, TickAt
<1> DEFINE old == tick[pr].snap[p]
           new == Advanced(tick[pr].cache[old.env], old, tick[pr].at, promo[p])
<1>1. old.status \in Waitable
  BY DEF TickAdvance
<1>2. UNCHANGED rows \/ Transition(p, {old.status}, new)
  BY DEF TickAdvance, Refused
<1>3. old \in Promotion
  BY <1>0, TickFields
<1> QED
  BY <1>0, <1>1, <1>2, <1>3, QuietAdvanced, QuietSame

LEMMA StartQuiet == ASSUME Strong, NEW pr \in Proc, NEW p \in Promo, TickStart(pr, p) PROVE Quiet
<1>0. RowsOK
  BY StrongParts
<1>1. UNCHANGED rows \/ Transition(p, {"approved"}, [promo[p] EXCEPT !.status = "cancelled"])
  BY DEF TickStart, Refused
<1>2. {"approved"} \subseteq Waitable /\ "cancelled" \notin Running
  BY DEF Waitable, Running
<1> QED
  BY <1>0, <1>1, <1>2, QuietStatus, QuietSame

\* What the rows and the deployments promise, when no row starts or ends.
Deployed == DepsOwned /\ Undeployed /\ SuccessWasDeployed

LEMMA QuietDeployed ==
    ASSUME RowsOK, Deployed, Quiet, DepsGrow
    PROVE  Deployed'
<1>1. \A p \in Promo : promo[p].dep # NoDep => promo[p].dep \in Dep
  BY PromotionTypes
<1>2. DepsOwned'
  BY <1>1 DEF Deployed, DepsOwned, Quiet, DepsGrow
<1>3. Undeployed'
  BY DEF Deployed, Undeployed, Quiet
<1>4. SuccessWasDeployed'
  <2> SUFFICES ASSUME NEW p \in Promo, promo'[p].status = "success"
               PROVE  /\ promo'[p].dep # NoDep
                      /\ deps'[promo'[p].dep].promo = p /\ deps'[promo'[p].dep].status = "success"
    BY DEF SuccessWasDeployed
  <2>1. promo'[p] = promo[p] /\ promo[p].status = "success"
    BY DEF Quiet, Running
  <2>2. promo[p].dep # NoDep /\ deps[promo[p].dep].promo = p /\ deps[promo[p].dep].status = "success"
    BY <2>1 DEF Deployed, SuccessWasDeployed
  <2> QED
    BY <1>1, <2>1, <2>2 DEF DepsGrow
<1> QED
  BY <1>2, <1>3, <1>4 DEF Deployed


-----------------------------------------------------------------------------
(* Steps that do: claim, launch, save and the end of a deployment.         *)

LEMMA OneRowDeployed ==
    ASSUME RowsOK, Deployed, DepsGrow, NEW p \in Promo, \A q \in Promo \ {p} : promo'[q] = promo[q],
           promo'[p].status \in Running,
           promo'[p].dep # NoDep => deps'[promo'[p].dep].promo = p /\ deps'[promo'[p].dep].status # "none",
           promo'[p].status = "success" => promo'[p].dep # NoDep /\ deps'[promo'[p].dep].status = "success"
    PROVE  Deployed'
<1>1. \A q \in Promo : promo[q].dep # NoDep => promo[q].dep \in Dep
  BY PromotionTypes
<1>2. \A q \in Promo : q = p \/ q \in Promo \ {p}
  OBVIOUS
<1>3. \A q \in Promo \ {p} : promo[q].dep # NoDep => deps'[promo[q].dep].promo = q /\ deps'[promo[q].dep].status # "none"
  BY <1>1 DEF Deployed, DepsOwned, DepsGrow
<1>4. DepsOwned'
  BY <1>2, <1>3 DEF DepsOwned
<1>5. Undeployed'
  BY <1>2 DEF Deployed, Undeployed
<1>6. \A q \in Promo \ {p} : promo[q].status = "success" =>
        promo[q].dep # NoDep /\ deps'[promo[q].dep].promo = q /\ deps'[promo[q].dep].status = "success"
  BY <1>1 DEF Deployed, SuccessWasDeployed, DepsGrow
<1>7. SuccessWasDeployed'
  BY <1>2, <1>6 DEF SuccessWasDeployed
<1> QED
  BY <1>4, <1>5, <1>7 DEF Deployed

\* A promotion ends by its own deployment.
LEMMA FinishDeployed ==
    ASSUME RowsOK, Deployed, UNCHANGED deps, NEW p \in Promo, NEW st \in {"success", "failed"},
           Transition(p, {"deploying"}, [promo[p] EXCEPT !.status = st]),
           st = "success" => promo[p].dep # NoDep /\ deps[promo[p].dep].status = "success"
    PROVE  Deployed' /\ \A q \in Promo \ {p} : promo'[q] = promo[q]
<1> DEFINE row == [promo[p] EXCEPT !.status = st]
<1>1. row.status = st /\ row.dep = promo[p].dep
  BY PromotionTypes DEF Promotion
<1>2. Write(p, row)
  BY DEF Transition
<1> HIDE DEF row
<1>3. promo'[p] = row /\ \A q \in Promo \ {p} : promo'[q] = promo[q]
  BY <1>2 DEF RowsOK, Write
<1>4. DepsGrow /\ st \in Running
  BY DEF DepsGrow, Running
<1>5. promo[p].dep # NoDep => deps[promo[p].dep].promo = p /\ deps[promo[p].dep].status # "none"
  BY DEF Deployed, DepsOwned
<1> QED
  BY <1>1, <1>3, <1>4, <1>5, OneRowDeployed

LEMMA SameDeployed == ASSUME RowsOK, Deployed, UNCHANGED rows, DepsGrow PROVE Deployed'
BY QuietSame, QuietDeployed

LEMMA OwnPlaced == ASSUME OneProcess, NEW pr \in Proc, NEW u, u = tick'[pr], TickOwn(u)' PROVE LoopsOwn'
BY DEF OneProcess, LoopsOwn, TickOwn

\* No row started or ended, and the loop has no more to do than before.
LEMMA OwnQuiet ==
    ASSUME Quiet, NEW t, TickShape(t), TickOwn(t), NEW u, u.snap = t.snap, u.todo \subseteq t.todo,
           u.pc \in InLoop => t.pc \in InLoop, u.pc = "claim" => u.todo = {},
           u.pc \in {"launch", "save"} => t.pc \in {"launch", "save"} /\ u.cur = t.cur
    PROVE  TickOwn(u)'
<1>1. t.todo \subseteq Promo
  BY TickFields DEF TickShape
<1>2. \A p \in Promo : promo[p].status = "deploying" => promo'[p] = promo[p]
  BY DEF Quiet, Running
<1>3. u.pc \in InLoop => \A p \in u.todo : u.snap[p].status = "deploying" =>
         promo'[p].status = "deploying" /\ promo'[p].dep = u.snap[p].dep
  BY <1>1, <1>2 DEF TickOwn
<1>4. u.pc \in {"launch", "save"} =>
         promo'[u.cur].status = "deploying" /\ promo'[u.cur].dep = NoDep /\ u.cur \notin u.todo
  BY <1>2 DEF TickOwn, TickShape
<1> QED
  BY <1>3, <1>4 DEF TickOwn

\* Only a row that the loop no longer has to look at changed.
LEMMA OwnRow ==
    ASSUME NEW t, TickShape(t), TickOwn(t), t.pc \in InLoop, NEW u, u.snap = t.snap, u.todo \subseteq t.todo,
           u.pc = "loop", NEW p, p \notin u.todo, \A q \in Promo \ {p} : promo'[q] = promo[q]
    PROVE  TickOwn(u)'
<1>1. t.todo \subseteq Promo
  BY TickFields DEF TickShape
<1>2. \A q \in u.todo : u.snap[q].status = "deploying" => promo'[q].status = "deploying" /\ promo'[q].dep = u.snap[q].dep
  BY <1>1 DEF TickOwn
<1> QED
  BY <1>2 DEF TickOwn

LEMMA VisitsOwn ==
    ASSUME OneProcess, Alone, Quiet, NEW pr \in Proc, NEW p \in Promo, Visits(pr, p)
    PROVE  LoopsOwn'
<1>1. PICK u : u = tick'[pr]
  OBVIOUS
<1>2. PICK t : t = tick[pr]
  OBVIOUS
<1>3. TickShape(t) /\ TickOwn(t)
  BY <1>2, StrongParts DEF Alone, LoopsOwn
<1>4. u.snap = t.snap /\ u.pc = t.pc /\ u.todo \subseteq t.todo /\ u.cur = t.cur
  BY <1>1, <1>2 DEF Visits, Same
<1>5. u.pc = "claim" => u.todo = {}
  BY <1>3, <1>4 DEF TickOwn
<1>6. TickOwn(u)'
  BY <1>3, <1>4, <1>5, OwnQuiet
<1> QED
  BY <1>1, <1>6, OwnPlaced

LEMMA ResumesOwn ==
    ASSUME OneProcess, Alone, Quiet, NEW pr \in Proc, tick[pr].pc \in InLoop, Resumes(pr)
    PROVE  LoopsOwn'
<1>1. PICK u : u = tick'[pr]
  OBVIOUS
<1>2. PICK t : t = tick[pr]
  OBVIOUS
<1>3. TickShape(t) /\ TickOwn(t) /\ t.pc \in InLoop
  BY <1>2, StrongParts DEF Alone, LoopsOwn
<1>4. u.snap = t.snap /\ u.pc = "loop" /\ u.todo \subseteq t.todo
  BY <1>1, <1>2 DEF Resumes, Same
<1>5. TickOwn(u)'
  BY <1>3, <1>4, OwnQuiet
<1> QED
  BY <1>1, <1>5, OwnPlaced

\* The loop leaves a row behind that it changed.
LEMMA LeavesOwn ==
    ASSUME OneProcess, Alone, NEW pr \in Proc, NEW p, \A q \in Promo \ {p} : promo'[q] = promo[q],
           \/ Visits(pr, p) /\ tick[pr].pc = "loop"
           \/ Resumes(pr) /\ tick[pr].pc \in {"launch", "save"} /\ p = tick[pr].cur
    PROVE  LoopsOwn'
<1>1. PICK u : u = tick'[pr]
  OBVIOUS
<1>2. PICK t : t = tick[pr]
  OBVIOUS
<1>3. TickShape(t) /\ TickOwn(t) /\ t.pc \in InLoop
  BY <1>2, StrongParts DEF Alone, LoopsOwn, InLoop
<1>4. u.snap = t.snap /\ u.pc = "loop" /\ u.todo \subseteq t.todo /\ p \notin u.todo
  BY <1>1, <1>2, <1>3 DEF Visits, Resumes, Same, TickOwn
<1>5. TickOwn(u)'
  BY <1>3, <1>4, OwnRow
<1> QED
  BY <1>1, <1>5, OwnPlaced

LEMMA PollMeans ==
    ASSUME NEW pr \in Proc, NEW p \in Promo, TickPoll(pr, p)
    PROVE  /\ p \in tick[pr].todo /\ tick[pr].pc = "loop" /\ tick[pr].snap[p].status = "deploying"
           /\ tick[pr].snap[p].dep # NoDep /\ UNCHANGED deps
           /\ \/ UNCHANGED rows
              \/ \E st \in {"success", "failed"} :
                    /\ Transition(p, {"deploying"}, [promo[p] EXCEPT !.status = st])
                    /\ st = "success" => deps[tick[pr].snap[p].dep].status = "success"
<1>1. /\ p \in tick[pr].todo /\ tick[pr].pc = "loop" /\ tick[pr].snap[p].status = "deploying"
      /\ tick[pr].snap[p].dep # NoDep /\ UNCHANGED deps
  BY DEF TickPoll, Visiting, Oldest
<1> DEFINE late == tick[pr].at - tick[pr].snap[p].startedAt > DeployTimeout
           st == Verdict(deps[tick[pr].snap[p].dep].status, late)
<1>2. UNCHANGED rows \/ (st # "none" /\ Transition(p, {"deploying"}, [promo[p] EXCEPT !.status = st]))
  BY DEF TickPoll, Finish, Refused
<1> HIDE DEF late
<1>3. st \in {"none", "success", "failed"} /\ (st = "success" => deps[tick[pr].snap[p].dep].status = "success")
  BY DEF Verdict
<1> HIDE DEF st
<1> QED
  BY <1>1, <1>2, <1>3

LEMMA PollAlone ==
    ASSUME OneProcess, Keeps, Alone, NEW pr \in Proc, NEW p \in Promo, TickPoll(pr, p)
    PROVE  Deployed' /\ LoopsOwn'
<1>0. RowsOK /\ TickOK /\ Deployed /\ DepsGrow /\ TickOwn(tick[pr])
  BY StrongParts DEF Alone, Deployed, Keeps, LoopsOwn
<1>1. Visits(pr, p) /\ tick[pr].pc = "loop" /\ UNCHANGED deps
      /\ p \in tick[pr].todo /\ tick[pr].snap[p].status = "deploying" /\ tick[pr].snap[p].dep # NoDep
  BY <1>0, PollFields, PollMeans
<1>2. CASE UNCHANGED rows
  BY <1>0, <1>1, <1>2, SameDeployed, QuietSame, VisitsOwn
<1>3. ASSUME NEW st \in {"success", "failed"}, Transition(p, {"deploying"}, [promo[p] EXCEPT !.status = st]),
             st = "success" => deps[tick[pr].snap[p].dep].status = "success"
      PROVE  Deployed' /\ LoopsOwn'
  <2>1. promo[p].dep = tick[pr].snap[p].dep /\ promo[p].dep # NoDep
    BY <1>0, <1>1 DEF TickOwn, InLoop
  <2>2. Deployed' /\ \A q \in Promo \ {p} : promo'[q] = promo[q]
    BY <1>0, <1>1, <1>3, <2>1, FinishDeployed
  <2> QED
    BY <1>1, <2>2, LeavesOwn
<1> QED
  BY <1>2, <1>3, PollMeans

LEMMA RelaunchMeans ==
    ASSUME TickOK, NEW pr \in Proc, NEW p \in Promo, TickRelaunch(pr, p)
    PROVE  /\ p \in tick[pr].todo /\ tick[pr].pc = "loop" /\ tick[pr].snap[p].status = "deploying"
           /\ tick[pr].snap[p].dep = NoDep /\ UNCHANGED deps
           /\ \/ UNCHANGED rows /\ (Visits(pr, p) \/ Takes(pr, p, "launch"))
              \/ Visits(pr, p) /\ Transition(p, {"deploying"}, [promo[p] EXCEPT !.status = "failed"])
<1>1. /\ p \in tick[pr].todo /\ tick[pr].pc = "loop" /\ tick[pr].snap[p].status = "deploying"
      /\ tick[pr].snap[p].dep = NoDep /\ UNCHANGED deps
  BY DEF TickRelaunch, Visiting, Oldest
<1>2. \/ UNCHANGED rows
      \/ Polled(pr, p, TRUE) /\ Transition(p, {"deploying"}, [promo[p] EXCEPT !.status = "failed"])
  BY DEF TickRelaunch, Refused
<1> QED
  BY <1>1, <1>2, RelaunchFields, PolledFields

LEMMA RelaunchAlone ==
    ASSUME OneProcess, Keeps, Alone, NEW pr \in Proc, NEW p \in Promo, TickRelaunch(pr, p)
    PROVE  Deployed' /\ LoopsOwn'
<1>0. RowsOK /\ TickOK /\ Deployed /\ DepsGrow /\ TickOwn(tick[pr])
  BY StrongParts DEF Alone, Deployed, Keeps, LoopsOwn
<1>1. /\ p \in tick[pr].todo /\ tick[pr].pc = "loop" /\ UNCHANGED deps
      /\ promo[p].status = "deploying" /\ promo[p].dep = NoDep
  BY <1>0, RelaunchMeans DEF TickOwn, InLoop
<1>2. CASE UNCHANGED rows /\ Visits(pr, p)
  BY <1>0, <1>2, SameDeployed, QuietSame, VisitsOwn
<1>3. CASE Visits(pr, p) /\ Transition(p, {"deploying"}, [promo[p] EXCEPT !.status = "failed"])
  <2>1. Deployed' /\ \A q \in Promo \ {p} : promo'[q] = promo[q]
    BY <1>0, <1>1, <1>3, FinishDeployed
  <2> QED
    BY <1>1, <1>3, <2>1, LeavesOwn
<1>4. CASE UNCHANGED rows /\ Takes(pr, p, "launch")
  <2>1. PICK u : u = tick'[pr]
    OBVIOUS
  <2>2. u.snap = tick[pr].snap /\ u.pc = "launch" /\ u.todo = tick[pr].todo \ {p} /\ u.cur = p
    BY <1>4, <2>1 DEF Takes, Same
  <2>3. promo' = promo
    BY <1>4 DEF rows
  <2>4. \A q \in u.todo : u.snap[q].status = "deploying" => promo[q].status = "deploying" /\ promo[q].dep = u.snap[q].dep
    BY <1>0, <1>1, <2>2 DEF TickOwn, InLoop
  <2>5. TickOwn(u)'
    BY <1>1, <2>2, <2>3, <2>4 DEF TickOwn
  <2> QED
    BY <1>0, <1>4, <2>1, <2>5, OwnPlaced, SameDeployed
<1> QED
  BY <1>0, <1>2, <1>3, <1>4, RelaunchMeans


LEMMA ClaimAlone ==
    ASSUME OneProcess, Keeps, Alone, NEW pr \in Proc, TickClaim(pr)
    PROVE  Deployed' /\ LoopsOwn'
<1>0. RowsOK /\ TickOK /\ Deployed /\ DepsGrow /\ TickOwn(tick[pr]) /\ TickShape(tick[pr])
  BY StrongParts DEF Alone, Deployed, Keeps, LoopsOwn
<1>1. tick[pr].pc = "claim" /\ tick[pr].todo = {} /\ tick[pr].pc \in InLoop
  BY <1>0 DEF TickClaim, TickOwn, InLoop
<1>2. PICK p \in Promo : p = tick[pr].cur
  BY <1>0, <1>1 DEF TickShape
<1> DEFINE row == [promo[p] EXCEPT !.status = "deploying", !.startedAt = tick[pr].at]
           R == {q \in tick[pr].ready : tick[pr].snap[q].env # tick[pr].snap[tick[pr].cur].env}
<1>3. \/ UNCHANGED rows /\ (Resume(pr, R) \/ Resume(pr, tick[pr].ready \ {tick[pr].cur}))
      \/ Transition(p, {"approved"}, row) /\ tick' = [tick EXCEPT ![pr].pc = "launch", ![pr].ready = R]
  BY <1>2 DEF TickClaim, Refused
<1>4. row.status = "deploying" /\ row.dep = promo[p].dep
  BY <1>0, PromotionTypes DEF Promotion
<1>5. R \subseteq tick[pr].ready
  OBVIOUS
<1> HIDE DEF row, R
<1>6. CASE UNCHANGED rows /\ (Resume(pr, R) \/ Resume(pr, tick[pr].ready \ {tick[pr].cur}))
  <2>1. Resumes(pr)
    BY <1>0, <1>5, <1>6, ResumeFields
  <2> QED
    BY <1>0, <1>1, <1>6, <2>1, QuietSame, SameDeployed, ResumesOwn
<1>7. CASE Transition(p, {"approved"}, row) /\ tick' = [tick EXCEPT ![pr].pc = "launch", ![pr].ready = R]
  <2>1. promo'[p] = row /\ \A q \in Promo \ {p} : promo'[q] = promo[q]
    BY <1>0, <1>7 DEF RowsOK, Transition, Write
  <2>2. promo[p].dep = NoDep
    BY <1>0, <1>7 DEF Transition, CanTransition, Deployed, Undeployed, Running
  <2>3. Deployed'
    BY <1>0, <1>4, <2>1, <2>2, OneRowDeployed DEF Running
  <2>4. tick'[pr].pc = "launch" /\ tick'[pr].cur = p /\ tick'[pr].todo = {}
    BY <1>0, <1>1, <1>2, <1>7 DEF TickOK, TickType
  <2>5. PICK u : u = tick'[pr]
    OBVIOUS
  <2>6. TickOwn(u)'
    BY <1>4, <2>1, <2>2, <2>4, <2>5 DEF TickOwn
  <2> QED
    BY <2>3, <2>5, <2>6, OwnPlaced
<1> QED
  BY <1>3, <1>6, <1>7

LEMMA LaunchAlone ==
    ASSUME OneProcess, Keeps, Alone, NEW pr \in Proc, TickLaunch(pr)
    PROVE  Deployed' /\ LoopsOwn'
<1>0. RowsOK /\ TickOK /\ DepsOK /\ Deployed /\ DepsGrow /\ TickOwn(tick[pr]) /\ TickShape(tick[pr])
  BY StrongParts DEF Alone, Deployed, Keeps, LoopsOwn
<1>1. tick[pr].pc = "launch" /\ tick[pr].pc \in InLoop
  BY <1>0 DEF TickLaunch, InLoop
<1>2. PICK p \in Promo : p = tick[pr].cur
  BY <1>0, <1>1 DEF TickShape
<1>3. \/ UNCHANGED rows
      \/ /\ Transition(p, {"deploying"}, [promo[p] EXCEPT !.status = "failed"])
         /\ Resume(pr, tick[pr].ready) /\ UNCHANGED deps
  BY <1>2 DEF TickLaunch, Refused
<1>4. CASE /\ Transition(p, {"deploying"}, [promo[p] EXCEPT !.status = "failed"])
           /\ Resume(pr, tick[pr].ready) /\ UNCHANGED deps
  <2>1. Resumes(pr)
    BY <1>0, <1>4, ResumeFields
  <2>2. Deployed' /\ \A q \in Promo \ {p} : promo'[q] = promo[q]
    BY <1>0, <1>4, FinishDeployed
  <2> QED
    BY <1>1, <1>2, <2>1, <2>2, LeavesOwn
<1>5. CASE UNCHANGED rows
  <2>1. Deployed' /\ Quiet
    BY <1>0, <1>5, SameDeployed, QuietSame
  <2>2. CASE Resumes(pr)
    BY <1>1, <2>1, <2>2, ResumesOwn
  <2>3. ASSUME NEW d, GoesOn(pr, "save", d) PROVE LoopsOwn'
    <3>1. PICK u : u = tick'[pr]
      OBVIOUS
    <3>2. u.snap = tick[pr].snap /\ u.pc = "save" /\ u.todo \subseteq tick[pr].todo /\ u.cur = tick[pr].cur
      BY <2>3, <3>1 DEF GoesOn, Same
    <3>3. TickOwn(u)'
      BY <1>0, <1>1, <2>1, <3>2, OwnQuiet
    <3> QED
      BY <3>1, <3>3, OwnPlaced
  <2> QED
    BY <1>0, <2>1, <2>2, <2>3, LaunchFields
<1> QED
  BY <1>3, <1>4, <1>5

LEMMA SaveAlone ==
    ASSUME OneProcess, Keeps, Alone, NEW pr \in Proc, TickSave(pr)
    PROVE  Deployed' /\ LoopsOwn'
<1>0. /\ RowsOK /\ TickOK /\ Deployed /\ DepsGrow /\ TickOwn(tick[pr]) /\ TickShape(tick[pr])
      /\ SaveSeen(tick[pr]) /\ UNCHANGED deps
  BY StrongParts DEF Alone, Deployed, Keeps, LoopsOwn, TickSave
<1>1. Resumes(pr) /\ tick[pr].pc = "save" /\ tick[pr].pc \in InLoop
  BY <1>0, SaveFields DEF InLoop
<1>2. PICK p \in Promo : p = tick[pr].cur
  BY <1>0, <1>1 DEF TickShape
<1>3. PICK d \in Dep : d = tick[pr].dep /\ deps[d].promo = p /\ deps[d].status # "none"
  BY <1>0, <1>1, <1>2 DEF SaveSeen
<1>4. CASE UNCHANGED rows
  BY <1>0, <1>1, <1>4, SameDeployed, QuietSame, ResumesOwn
<1>5. CASE SetDeployment(p, d)
  <2>1. promo'[p].dep = d /\ promo'[p].status = promo[p].status /\ \A q \in Promo \ {p} : promo'[q] = promo[q]
    BY <1>0, <1>5 DEF RowsOK, SetDeployment, Promotion
  <2>2. promo[p].status = "deploying"
    BY <1>0, <1>1, <1>2 DEF TickOwn
  <2>3. Deployed'
    BY <1>0, <1>3, <2>1, <2>2, OneRowDeployed DEF Running
  <2> QED
    BY <1>1, <1>2, <2>1, <2>3, LeavesOwn
<1> QED
  BY <1>2, <1>3, <1>4, <1>5 DEF TickSave

LEMMA RestsOwn == ASSUME OneProcess, NEW pr \in Proc, Rests(pr) PROVE LoopsOwn'
<1>1. PICK u : u = tick'[pr]
  OBVIOUS
<1>2. u.pc = "idle"
  BY <1>1, RestSeen DEF Rests
<1>3. TickOwn(u)'
  BY <1>2 DEF TickOwn, InLoop
<1> QED
  BY <1>1, <1>3, OwnPlaced

LEMMA BeginsOwn ==
    ASSUME OneProcess, Alone, NEW pr \in Proc, TickExpire(pr) \/ TickList(pr) \/ TickGetEnv(pr)
    PROVE  LoopsOwn'
<1>0. TickOK /\ TickOwn(tick[pr]) /\ TickShape(tick[pr])
  BY StrongParts DEF Alone, LoopsOwn
<1>1. PICK u : u = tick'[pr]
  OBVIOUS
<1>2. CASE TickExpire(pr)
  <2>1. u.pc = "sync"
    BY <1>0, <1>1, <1>2, ExpireFields
  <2>2. TickOwn(u)'
    BY <2>1 DEF TickOwn, InLoop
  <2> QED
    BY <1>1, <2>2, OwnPlaced
<1>3. CASE TickList(pr) /\ ~Rests(pr)
  <2>1. u.pc = "loop" /\ u.snap = promo
    BY <1>0, <1>1, <1>3, ListFields
  <2>2. promo' = promo
    BY <1>3 DEF TickList, rows
  <2>3. TickOwn(u)'
    BY <2>1, <2>2 DEF TickOwn
  <2> QED
    BY <1>1, <2>3, OwnPlaced
<1>4. CASE TickGetEnv(pr)
  <2>1. u.pc = "loop" /\ u.snap = tick[pr].snap /\ u.todo \subseteq tick[pr].todo /\ tick[pr].pc \in InLoop
    BY <1>0, <1>1, <1>4, GetEnvFields DEF InLoop
  <2>2. UNCHANGED rows
    BY <1>4 DEF TickGetEnv
  <2>3. TickOwn(u)'
    BY <1>0, <2>1, <2>2, QuietSame, OwnQuiet
  <2> QED
    BY <1>1, <2>3, OwnPlaced
<1> QED
  BY <1>2, <1>3, <1>4, RestsOwn

LEMMA StartOwn ==
    ASSUME OneProcess, Alone, NEW pr \in Proc, NEW p \in Promo, TickStart(pr, p)
    PROVE  LoopsOwn'
<1>0. TickOK /\ TickOwn(tick[pr]) /\ TickShape(tick[pr]) /\ Quiet
  BY StrongParts, StartQuiet DEF Alone, LoopsOwn
<1>1. CASE Visits(pr, p)
  BY <1>0, <1>1, VisitsOwn
<1>2. CASE Takes(pr, p, "claim")
  <2>1. PICK u : u = tick'[pr]
    OBVIOUS
  <2>2. tick[pr].todo = {}
    BY DEF TickStart
  <2>3. u.pc = "claim" /\ u.todo = {}
    BY <1>2, <2>1, <2>2 DEF Takes
  <2>4. TickOwn(u)'
    BY <2>3 DEF TickOwn
  <2> QED
    BY <2>1, <2>4, OwnPlaced
<1> QED
  BY <1>0, <1>1, <1>2, StartFields

LEMMA TickAlone ==
    ASSUME OneProcess, Keeps, Alone, NEW pr \in Proc, Tick(pr) \/ Crash(pr)
    PROVE  Deployed' /\ LoopsOwn'
<1>0. RowsOK /\ TickOK /\ Deployed /\ DepsGrow /\ Strong
  BY StrongParts DEF Alone, Deployed, Keeps
<1>1. CASE TickExpire(pr) \/ TickList(pr) \/ TickGetEnv(pr)
  BY <1>0, <1>1, TickQuiet, QuietDeployed, BeginsOwn
<1>2. CASE TickSync(pr) \/ TickSkip(pr)
  <2>1. Quiet /\ \E p \in Promo : Visits(pr, p)
    BY <1>0, <1>2, TickQuiet, SyncFields, SkipFields
  <2> QED
    BY <1>0, <2>1, QuietDeployed, VisitsOwn
<1>3. ASSUME NEW p \in Promo, TickAdvance(pr, p) PROVE Deployed' /\ LoopsOwn'
  BY <1>0, <1>3, AdvanceQuiet, AdvanceFields, QuietDeployed, VisitsOwn
<1>4. ASSUME NEW p \in Promo, TickStart(pr, p) PROVE Deployed' /\ LoopsOwn'
  BY <1>0, <1>4, StartQuiet, QuietDeployed, StartOwn
<1>5. CASE TickEnd(pr) \/ Crash(pr)
  <2>1. tick' = [tick EXCEPT ![pr] = TickIdle]
    BY <1>5 DEF TickEnd, Crash
  <2> QED
    BY <1>0, <1>5, <2>1, TickQuiet, QuietDeployed, RestsMeans, RestsOwn
<1> QED
  BY <1>1, <1>2, <1>3, <1>4, <1>5, PollAlone, RelaunchAlone, ClaimAlone, LaunchAlone, SaveAlone DEF Tick

LEMMA OtherAlone ==
    ASSUME Keeps, Alone, Quiet, UNCHANGED tick
    PROVE  Deployed' /\ LoopsOwn'
<1>0. RowsOK /\ Deployed /\ DepsGrow
  BY StrongParts DEF Alone, Deployed, Keeps
<1>1. ASSUME NEW q \in Proc PROVE TickOwn(tick[q])'
  <2>1. PICK t : t = tick[q]
    OBVIOUS
  <2>2. TickOwn(t) /\ TickShape(t)
    BY <2>1, StrongParts DEF Alone, LoopsOwn
  <2>3. t.pc = "claim" => t.todo = {}
    BY <2>2 DEF TickOwn
  <2>4. TickOwn(t)'
    BY <2>2, <2>3, OwnQuiet
  <2> QED
    BY <2>1, <2>4 DEF TickOwn
<1> QED
  BY <1>0, <1>1, QuietDeployed DEF LoopsOwn


-----------------------------------------------------------------------------
(* The deployments a promotion created, against the faults.                *)

LEMMA FaultsStep == ASSUME [Next]_vars PROVE UNCHANGED faults \/ Fault
<1>1. CASE Request
  <2>1. ASSUME NEW c, NEW u, NEW e, NEW sha, NEW from, NEW key, CreateLoad(c, u, e, sha, from, key)
        PROVE  UNCHANGED faults
    BY <2>1 DEF CreateLoad
  <2>2. ASSUME NEW c, NEW u, NEW p, NEW approve, DecideLoad(c, u, p, approve) PROVE UNCHANGED faults
    BY <2>2 DEF DecideLoad
  <2>3. ASSUME NEW c, CreateInsert(c) \/ AddDecision(c) \/ AbandonRequest(c) PROVE UNCHANGED faults \/ Fault
    BY <2>3 DEF CreateInsert, AddDecision, AbandonRequest
  <2>4. ASSUME NEW u, NEW p, Cancel(u, p) PROVE UNCHANGED faults
    BY <2>4 DEF Cancel
  <2> QED
    BY <1>1, <2>1, <2>2, <2>3, <2>4 DEF Request
<1>2. CASE PolicyChange
  <2>1. ASSUME NEW a \in Admin, ReevaluateList(a) \/ PutEnd(a) PROVE UNCHANGED faults \/ Fault
    BY <2>1 DEF ReevaluateList, PutEnd, NoFault
  <2>2. ASSUME NEW a \in Admin, ReevaluateVisit(a) PROVE UNCHANGED faults \/ Fault
    BY <2>2 DEF ReevaluateVisit, NoFault
  <2>3. ASSUME NEW a \in Admin, NEW e \in Env, NEW pol \in Policies, PutEnv(a, e, pol) PROVE UNCHANGED faults
    BY <2>3 DEF PutEnv
  <2> QED
    BY <1>2, <2>1, <2>2, <2>3 DEF PolicyChange
<1>3. CASE World
  BY <1>3 DEF World, Tock, CommitChange, Redeploy, DeploymentMoves
<1>4. ASSUME NEW pr \in Proc, Tick(pr) \/ Crash(pr) PROVE UNCHANGED faults \/ Fault
  <2>1. CASE TickExpire(pr) \/ TickList(pr)
    BY <2>1 DEF TickExpire, TickList, NoFault
  <2>2. CASE TickSync(pr) \/ TickGetEnv(pr) \/ TickSkip(pr)
    BY <2>2 DEF TickSync, TickGetEnv, TickSkip, NoFault
  <2>3. CASE TickClaim(pr) \/ TickSave(pr) \/ TickEnd(pr) \/ Crash(pr)
    BY <2>3 DEF TickClaim, TickSave, TickEnd, Crash, NoFault
  <2>4. CASE TickLaunch(pr)
    BY <2>4 DEF TickLaunch, NoFault
  <2>5. ASSUME NEW p \in Promo, TickAdvance(pr, p) PROVE UNCHANGED faults \/ Fault
    BY <2>5 DEF TickAdvance, NoFault
  <2>6. ASSUME NEW p \in Promo, TickPoll(pr, p) PROVE UNCHANGED faults \/ Fault
    BY <2>6 DEF TickPoll, Finish, NoFault
  <2>7. ASSUME NEW p \in Promo, TickRelaunch(pr, p) PROVE UNCHANGED faults \/ Fault
    BY <2>7 DEF TickRelaunch, NoFault
  <2>8. ASSUME NEW p \in Promo, TickStart(pr, p) PROVE UNCHANGED faults \/ Fault
    BY <2>8 DEF TickStart, NoFault
  <2> QED
    BY <1>4, <2>1, <2>2, <2>3, <2>4, <2>5, <2>6, <2>7, <2>8 DEF Tick
<1>5. CASE UNCHANGED vars
  BY <1>5 DEF vars
<1> QED
  BY <1>1, <1>2, <1>3, <1>4, <1>5 DEF Next

LEMMA MadeFinite ==
    ASSUME NEW p
    PROVE  IsFiniteSet(Made(p)) /\ Cardinality(Made(p)) \in Nat
<1>1. IsFiniteSet(Dep)
  BY FS_Interval, ConstantsAssumption DEF Dep
<1>2. Made(p) \subseteq Dep
  BY DEF Made
<1> QED
  BY <1>1, <1>2, FS_Subset, FS_CardinalityType

\* An account is in order after a step that creates nothing and uncharges only for a fault, or that creates one
\* deployment and charges it.
LEMMA AccountKept ==
    ASSUME FaultsOK, UNCHANGED faults \/ Fault, NEW p, Account(p), NEW S, S = {d \in Dep : deps'[d].promo = p},
           \/ S \subseteq Made(p) /\ (Charged(p) => Charged(p)' \/ Fault)
           \/ (\E d : S \subseteq Made(p) \cup {d}) /\ ~Charged(p) /\ Charged(p)'
    PROVE  Account(p)'
<1>1. IsFiniteSet(Made(p)) /\ Cardinality(Made(p)) \in Nat
  BY MadeFinite
<1>2. Made(p)' = S
  BY DEF Made
<1>3. /\ faults \in Int /\ faults' \in Int /\ MaxFaults \in Int /\ faults' <= faults
      /\ Fault => faults' = faults - 1
  BY ConstantsAssumption DEF FaultsOK, Fault
<1>4. CASE S \subseteq Made(p) /\ (Charged(p) => Charged(p)' \/ Fault)
  <2>1. Cardinality(S) <= Cardinality(Made(p)) /\ Cardinality(S) \in Nat
    BY <1>1, <1>4, FS_Subset, FS_CardinalityType
  <2> QED
    BY <1>1, <1>2, <1>3, <1>4, <2>1 DEF Account
<1>5. CASE (\E d : S \subseteq Made(p) \cup {d}) /\ ~Charged(p) /\ Charged(p)'
  <2>1. PICK d : S \subseteq Made(p) \cup {d}
    BY <1>5
  <2>2. IsFiniteSet(Made(p) \cup {d}) /\ Cardinality(Made(p) \cup {d}) <= Cardinality(Made(p)) + 1
    <3>1. CASE d \in Made(p)
      <4>1. Made(p) \cup {d} = Made(p)
        BY <3>1
      <4>2. IsFiniteSet(Made(p) \cup {d}) /\ Cardinality(Made(p) \cup {d}) = Cardinality(Made(p))
        BY <1>1, <4>1, Zenon
      <4> QED
        BY <1>1, <4>2
    <3>2. CASE d \notin Made(p)
      <4>1. /\ IsFiniteSet(Made(p) \cup {d})
            /\ Cardinality(Made(p) \cup {d}) = Cardinality(Made(p)) + 1
        BY <1>1, <3>2, FS_AddElement
      <4> QED
        BY <1>1, <4>1
    <3> QED
      BY <3>1, <3>2
  <2>3. Cardinality(S) <= Cardinality(Made(p) \cup {d}) /\ IsFiniteSet(S)
    BY <2>1, <2>2, FS_Subset
  <2>4. Cardinality(S) \in Nat /\ Cardinality(Made(p) \cup {d}) \in Nat
    BY <2>2, <2>3, FS_CardinalityType
  <2> QED
    BY <1>1, <1>2, <1>3, <1>5, <2>2, <2>3, <2>4 DEF Account
<1> QED
  BY <1>4, <1>5

LEMMA DepStays == ASSUME Strong, Effect, NEW p \in Promo, promo[p].dep # NoDep PROVE promo'[p].dep # NoDep
<1>1. Outcome(p)
  BY EffectOutcome
<1>2. NoDep \notin Dep
  BY DEF NoDep, Dep
<1>3. ~InsertedRow(p)
  BY DEF InsertedRow, Strong, RowsTrue, BlankOK
<1>4. CASE Kept(p) \/ Resynced(p)
  BY <1>4 DEF Kept, Resynced
<1>5. CASE AmendedRow(p)
  BY <1>5 DEF AmendedRow, Amends
<1>6. CASE LapsedRow(p)
  BY <1>6, StrongParts, OverdueMeans DEF LapsedRow
<1>7. CASE SavedRow(p)
  BY <1>2, <1>7 DEF SavedRow
<1> QED
  BY <1>1, <1>3, <1>4, <1>5, <1>6, <1>7 DEF Outcome

\* Only a loop that saves has a charge that is not on its row.
LEMMA NotSaving == ASSUME OneProcess, NEW pr \in Proc, tick[pr].pc # "save", NEW p PROVE ~Saving(p)
BY DEF OneProcess, Saving

LEMMA LoopPlaces ==
    ASSUME NEW pr \in Proc, Tick(pr) \/ Crash(pr)
    PROVE  tick[pr].pc # "save" \/ TickSave(pr) \/ Crash(pr)
<1>1. CASE TickExpire(pr) \/ TickList(pr)
  BY <1>1, RestSeen DEF TickExpire, TickList
<1>2. CASE TickSync(pr) \/ TickGetEnv(pr) \/ TickSkip(pr)
  BY <1>2 DEF TickSync, TickGetEnv, TickSkip
<1>3. CASE TickClaim(pr) \/ TickLaunch(pr) \/ TickEnd(pr)
  BY <1>3 DEF TickClaim, TickLaunch, TickEnd
<1>4. ASSUME NEW p \in Promo, TickAdvance(pr, p) \/ TickPoll(pr, p) PROVE tick[pr].pc # "save"
  BY <1>4 DEF TickAdvance, TickPoll, Visiting
<1>5. ASSUME NEW p \in Promo, TickRelaunch(pr, p) \/ TickStart(pr, p) PROVE tick[pr].pc # "save"
  BY <1>5 DEF TickRelaunch, TickStart, Visiting
<1> QED
  BY <1>1, <1>2, <1>3, <1>4, <1>5 DEF Tick

LEMMA SameMade ==
    ASSUME DepsOK, [Next]_vars, ~(\E pr \in Proc : TickLaunch(pr)), NEW p
    PROVE  {d \in Dep : deps'[d].promo = p} \subseteq Made(p)
<1>1. CASE UNCHANGED deps
  BY <1>1 DEF Made
<1>2. ASSUME NEW d \in Dep, NEW st \in {"success", "failed", "cancelled"}, DeploymentMoves(d, st)
      PROVE  \A x \in Dep : deps'[x].promo = deps[x].promo
  BY <1>2 DEF DeploymentMoves, DepsOK
<1>3. CASE UNCHANGED vars
  BY <1>1, <1>3 DEF vars
<1>4. UNCHANGED deps \/ \E d \in Dep, st \in {"success", "failed", "cancelled"} : DeploymentMoves(d, st)
  BY <1>3, RequestLeaves, PolicyLeaves, WorldLeaves, TickLeaves DEF Next, vars
<1> QED
  BY <1>1, <1>2, <1>4 DEF Made

LEMMA LedgerStep ==
    ASSUME OneProcess, Alone, [Next]_vars, Effect
    PROVE  Ledger'
<1>0. Strong /\ FaultsOK /\ DepsOK /\ TickOK /\ (UNCHANGED faults \/ Fault)
  BY StrongParts, FaultsStep DEF Alone, TypeInv
<1> SUFFICES ASSUME NEW p \in Promo PROVE Account(p)'
  BY DEF Ledger
<1>1. Account(p)
  BY DEF Alone, Ledger
<1> DEFINE S == {d \in Dep : deps'[d].promo = p}
<1>2. CASE UNCHANGED tick /\ ~(\E pr \in Proc : TickLaunch(pr))
  <2>1. Charged(p) => Charged(p)'
    BY <1>0, <1>2, DepStays DEF Charged, Saving
  <2>2. S \subseteq Made(p)
    BY <1>0, <1>2, SameMade
  <2> HIDE DEF S
  <2>3. S = {d \in Dep : deps'[d].promo = p}
    BY DEF S
  <2> QED
    BY <1>0, <1>1, <2>1, <2>2, <2>3, AccountKept
<1>3. ASSUME NEW pr \in Proc, Tick(pr) \/ Crash(pr), ~TickLaunch(pr) PROVE Account(p)'
  <2>1. ~(\E q \in Proc : TickLaunch(q))
    BY <1>3 DEF OneProcess
  <2>2. S \subseteq Made(p)
    BY <1>0, <2>1, SameMade
  <2>3. ASSUME TickSave(pr), ~Fault, Charged(p) PROVE Charged(p)'
    <3>1. SetDeployment(tick[pr].cur, tick[pr].dep) /\ tick[pr].pc = "save"
      BY <2>3 DEF TickSave
    <3>2. tick[pr].dep \in Dep /\ RowsOK
      BY <1>0, <3>1, StrongParts DEF SaveSeen
    <3>3. CASE p = tick[pr].cur
      <4>1. promo'[p].dep = tick[pr].dep /\ NoDep \notin Dep
        BY <3>1, <3>2, <3>3 DEF SetDeployment, RowsOK, Promotion, NoDep, Dep
      <4> QED
        BY <3>2, <4>1 DEF Charged
    <3>4. CASE p # tick[pr].cur
      <4>1. ~Saving(p)
        BY <3>4 DEF OneProcess, Saving
      <4> QED
        BY <1>0, <2>3, <4>1, DepStays DEF Charged
    <3> QED
      BY <3>3, <3>4
  <2>4. ASSUME tick[pr].pc # "save", Charged(p) PROVE Charged(p)'
    BY <1>0, <2>4, NotSaving, DepStays DEF Charged
  <2>5. Crash(pr) => Fault
    BY DEF Crash
  <2>6. Charged(p) => Charged(p)' \/ Fault
    BY <1>3, <2>3, <2>4, <2>5, LoopPlaces
  <2> HIDE DEF S
  <2>7. S = {d \in Dep : deps'[d].promo = p}
    BY DEF S
  <2> QED
    BY <1>0, <1>1, <2>2, <2>6, <2>7, AccountKept
<1>4. ASSUME NEW pr \in Proc, TickLaunch(pr) PROVE Account(p)'
  <2>1. tick[pr].pc = "launch" /\ ~Saving(p)
    BY <1>4, NotSaving DEF TickLaunch
  <2>2. Charged(p) => Charged(p)'
    BY <1>0, <2>1, DepStays DEF Charged
  <2>3. CASE UNCHANGED deps
    <3>1. S \subseteq Made(p)
      BY <2>3 DEF Made
    <3> HIDE DEF S
    <3>2. S = {d \in Dep : deps'[d].promo = p}
      BY DEF S
    <3> QED
      BY <1>0, <1>1, <2>2, <3>1, <3>2, AccountKept
  <2>4. ASSUME NEW d \in Dep, GoesOn(pr, "save", d), deps'[d].promo = tick[pr].cur,
               \A x \in Dep \ {d} : deps'[x] = deps[x]
        PROVE  Account(p)'
    <3>1. S \subseteq Made(p) \cup {d} /\ (p # tick[pr].cur => S \subseteq Made(p))
      BY <2>4 DEF Made
    <3> HIDE DEF S
    <3>2. S = {x \in Dep : deps'[x].promo = p}
      BY DEF S
    <3>3. CASE p # tick[pr].cur
      BY <1>0, <1>1, <2>2, <3>1, <3>2, <3>3, AccountKept
    <3>4. CASE p = tick[pr].cur
      <4>1. promo[p].dep = NoDep
        BY <2>1, <3>4 DEF Alone, LoopsOwn, TickOwn
      <4>2. tick'[pr].pc = "save" /\ tick'[pr].cur = p
        BY <2>4, <3>4 DEF GoesOn
      <4>3. ~Charged(p) /\ Charged(p)'
        BY <2>1, <4>1, <4>2 DEF Charged, Saving
      <4> QED
        BY <1>0, <1>1, <3>1, <3>2, <4>3, AccountKept
    <3> QED
      BY <3>3, <3>4
  <2> QED
    BY <1>0, <1>4, <2>3, <2>4, LaunchFields
<1>5. CASE UNCHANGED vars
  <2>1. Account(p)'
    BY <1>1, <1>5 DEF vars, Account, Charged, Saving, Made
  <2> QED
    BY <2>1
<1>6. CASE Next /\ \A pr \in Proc : ~(Tick(pr) \/ Crash(pr))
  <2>1. UNCHANGED tick
    BY <1>6, RequestLeaves, PolicyLeaves, WorldLeaves DEF Next
  <2>2. \A pr \in Proc : ~TickLaunch(pr)
    BY <1>6 DEF Tick
  <2> QED
    BY <1>2, <2>1, <2>2
<1> QED
  BY <1>3, <1>4, <1>5, <1>6

LEMMA InitAlone == Init => Alone
<1> SUFFICES ASSUME Init PROVE Alone
  OBVIOUS
<1>1. \A p \in Promo : promo[p].status = "none" /\ promo[p].dep = NoDep
  BY DEF Init, NoPromo
<1>2. DepsOwned /\ Undeployed /\ SuccessWasDeployed
  BY <1>1 DEF DepsOwned, Undeployed, SuccessWasDeployed
<1>3. LoopsOwn
  BY RestSeen DEF Init, LoopsOwn, TickOwn, InLoop
<1>4. ASSUME NEW p \in Promo PROVE Account(p)
  <2>1. \A d \in Dep : deps[d].promo = 0
    BY DEF Init
  <2>2. p # 0
    BY ConstantsAssumption DEF Promo
  <2>3. Made(p) = {}
    BY <2>1, <2>2 DEF Made
  <2>4. Cardinality(Made(p)) = 0
    BY <2>3, FS_EmptySet
  <2>5. faults = MaxFaults /\ MaxFaults \in Int
    BY ConstantsAssumption DEF Init
  <2> QED
    BY <2>4, <2>5 DEF Account
<1> QED
  BY <1>2, <1>3, <1>4, InitStrong DEF Alone, Ledger

LEMMA NextAlone == ASSUME OneProcess PROVE Alone /\ [Next]_vars => Alone'
<1> SUFFICES ASSUME Alone, [Next]_vars PROVE Alone'
  OBVIOUS
<1>0. Strong
  BY DEF Alone
<1>1. Strong' /\ Effect /\ InForceGrows /\ DepsGrow
  BY <1>0, NextStrong, NextEffect, RulesStep, DepsStep, StrongParts DEF Strong
<1>2. Keeps
  BY <1>0, <1>1, RowsTrueStep DEF Keeps
<1>3. Deployed' /\ LoopsOwn'
  <2>1. CASE Request
    BY <1>0, <1>2, <2>1, RequestQuiet, RequestLeaves, OtherAlone
  <2>2. CASE PolicyChange
    BY <1>0, <1>2, <2>2, PolicyQuiet, PolicyLeaves, OtherAlone
  <2>3. CASE World
    BY <1>2, <2>3, WorldLeaves, QuietSame, OtherAlone
  <2>4. CASE UNCHANGED vars
    <3>1. UNCHANGED rows /\ UNCHANGED tick
      BY <2>4 DEF vars, rows
    <3> QED
      BY <1>2, <3>1, QuietSame, OtherAlone
  <2> QED
    BY <1>2, <2>1, <2>2, <2>3, <2>4, TickAlone DEF Next
<1>4. Ledger'
  BY <1>1, LedgerStep
<1> QED
  BY <1>1, <1>3, <1>4 DEF Alone, Deployed

LEMMA AlwaysAlone == ASSUME OneProcess PROVE Spec => []Alone
BY InitAlone, NextAlone, PTL DEF Spec

\* With one process, a promotion reported as a success names a deployment that
\* was created for it and succeeded, through lost writes, crashes, relaunches,
\* and deployments that end or are cancelled at any time.
THEOREM SuccessIsDeployed == ASSUME OneProcess PROVE Spec => []SuccessWasDeployed
<1>1. Alone => SuccessWasDeployed
  BY DEF Alone
<1> QED
  BY <1>1, AlwaysAlone, PTL

\* With one process, a promotion creates one deployment, and one more at most
\* for every call that failed and every process that died before the deployment
\* was on its row.
THEOREM DeploymentsAreAccounted == ASSUME OneProcess PROVE Spec => []DeploymentsAccounted
<1>1. Alone => DeploymentsAccounted
  <2> SUFFICES ASSUME Alone, NEW p \in Promo
               PROVE  Cardinality({d \in Dep : deps[d].promo = p}) <= 1 + (MaxFaults - faults)
    BY DEF DeploymentsAccounted
  <2>1. Account(p) /\ FaultsOK
    BY StrongParts DEF Alone, Ledger, TypeInv
  <2>2. Cardinality(Made(p)) \in Nat /\ faults \in Int /\ MaxFaults \in Int
    BY <2>1, MadeFinite, ConstantsAssumption DEF FaultsOK
  <2>3. Cardinality(Made(p)) <= 1 + (MaxFaults - faults)
    BY <2>1, <2>2 DEF Account
  <2> QED
    BY <2>3 DEF Made
<1> QED
  BY <1>1, AlwaysAlone, PTL

-----------------------------------------------------------------------------
(* The history rows of expired promotions: ExpireOverdue writes them after  *)
(* its UPDATE, one at a time.                                              *)

\* The loop of pr still has the history row of p to sync.
Pending(pr, p) == tick[pr].pc = "sync" /\ p \in tick[pr].todo

LagsPending ==
    \A p \in Promo : promo[p].status = "expired" /\ faults = MaxFaults =>
       hist[p].status = "expired" \/ \E pr \in Proc : Pending(pr, p)

\* What every step but ExpireOverdue's UPDATE does to the two tables.
Written == \/ UNCHANGED rows
           \/ \E p, row : Write(p, row)
           \/ \E p, d : SetDeployment(p, d)

LEMMA TransitionWrites == ASSUME NEW p, NEW from, NEW row, Transition(p, from, row) PROVE Written
BY DEF Transition, Written

LEMMA RefusedWrites == ASSUME NEW p, NEW from, NEW to, Refused(p, from, to) PROVE Written
BY DEF Refused, Written

LEMMA RequestWrites == ASSUME Request PROVE Written
<1>1. ASSUME NEW c, NEW u, NEW e, NEW sha, NEW from, NEW key, CreateLoad(c, u, e, sha, from, key) PROVE Written
  BY <1>1 DEF CreateLoad, Written
<1>2. ASSUME NEW c, NEW u, NEW p, NEW approve, DecideLoad(c, u, p, approve) PROVE Written
  BY <1>2 DEF DecideLoad, Written
<1>3. ASSUME NEW c, CreateInsert(c) PROVE Written
  BY <1>3 DEF CreateInsert, Written
<1>4. ASSUME NEW c, AddDecision(c) PROVE Written
  BY <1>4 DEF AddDecision, Written
<1>5. ASSUME NEW c, AbandonRequest(c) PROVE Written
  BY <1>5 DEF AbandonRequest, Written
<1>6. ASSUME NEW u, NEW p, Cancel(u, p) PROVE Written
  BY <1>6, TransitionWrites DEF Cancel
<1> QED
  BY <1>1, <1>2, <1>3, <1>4, <1>5, <1>6 DEF Request

LEMMA PolicyWrites == ASSUME PolicyChange PROVE Written
<1>1. ASSUME NEW a, NEW e, NEW pol, PutEnv(a, e, pol) PROVE Written
  BY <1>1 DEF PutEnv, Written
<1>2. ASSUME NEW a, ReevaluateList(a) \/ PutEnd(a) PROVE Written
  BY <1>2 DEF ReevaluateList, PutEnd, Written
<1>3. ASSUME NEW a, ReevaluateVisit(a) PROVE Written
  BY <1>3, TransitionWrites, RefusedWrites DEF ReevaluateVisit, Written
<1> QED
  BY <1>1, <1>2, <1>3 DEF PolicyChange

LEMMA LoopWrites == ASSUME NEW pr, Tick(pr) \/ Crash(pr), ~TickExpire(pr) PROVE Written
<1>1. CASE TickSync(pr)
  BY <1>1 DEF TickSync, Written
<1>2. CASE TickList(pr) \/ TickGetEnv(pr) \/ TickSkip(pr) \/ TickEnd(pr) \/ Crash(pr)
  BY <1>2 DEF TickList, TickGetEnv, TickSkip, TickEnd, Crash, Written
<1>3. ASSUME NEW p, TickAdvance(pr, p) PROVE Written
  BY <1>3, TransitionWrites, RefusedWrites DEF TickAdvance, Written
<1>4. ASSUME NEW p, TickPoll(pr, p) PROVE Written
  BY <1>4, TransitionWrites, RefusedWrites DEF TickPoll, Finish, Written
<1>5. ASSUME NEW p, TickRelaunch(pr, p) PROVE Written
  BY <1>5, TransitionWrites, RefusedWrites DEF TickRelaunch, Written
<1>6. ASSUME NEW p, TickStart(pr, p) PROVE Written
  BY <1>6, TransitionWrites, RefusedWrites DEF TickStart, Written
<1>7. CASE TickClaim(pr)
  BY <1>7, TransitionWrites, RefusedWrites DEF TickClaim, Written
<1>8. CASE TickLaunch(pr)
  BY <1>8, TransitionWrites, RefusedWrites DEF TickLaunch, Written
<1>9. CASE TickSave(pr)
  BY <1>9 DEF TickSave, Written
<1> QED
  BY <1>1, <1>2, <1>3, <1>4, <1>5, <1>6, <1>7, <1>8, <1>9 DEF Tick

\* A row that such a step leaves expired is mirrored, or was expired and has the history row it had.
LEMMA WrittenMeans ==
    ASSUME RowsOK, Written, NEW p \in Promo, promo'[p].status = "expired"
    PROVE  hist'[p].status = "expired" \/ (promo[p].status = "expired" /\ hist'[p].status = hist[p].status)
<1>1. CASE UNCHANGED rows
  BY <1>1 DEF rows
<1>2. ASSUME NEW q, NEW row, Write(q, row)
      PROVE  hist'[p].status = "expired" \/ (promo[p].status = "expired" /\ hist'[p].status = hist[p].status)
  <2>1. CASE p = q
    BY <1>2, <2>1, WriteMeans DEF EnvDeploymentStatus
  <2>2. CASE p # q
    <3>1. promo'[p] = promo[p] /\ hist'[p] = hist[p]
      BY <1>2, <2>2 DEF Write, RowsOK
    <3> QED
      BY <3>1
  <2> QED
    BY <2>1, <2>2
<1>3. ASSUME NEW q, NEW d, SetDeployment(q, d)
      PROVE  promo[p].status = "expired" /\ hist'[p].status = hist[p].status
  <2>1. promo'[p].status = promo[p].status /\ hist'[p].status = hist[p].status
    BY <1>3, PromotionTypes DEF SetDeployment, RowsOK, Promotion
  <2> QED
    BY <2>1
<1> QED
  BY <1>1, <1>2, <1>3 DEF Written

\* A loop that neither expires nor syncs has no history row to sync.
LEMMA NothingPending ==
    ASSUME Strong, NEW pr \in Proc, Tick(pr), ~TickExpire(pr), ~TickSync(pr)
    PROVE  Others(pr) /\ \A p \in Promo : ~Pending(pr, p)
<1>0. TickOK /\ DepsOK
  BY StrongParts
<1>1. CASE TickList(pr)
  <2>1. tick[pr].todo = {}
    BY <1>1 DEF TickList
  <2> QED
    BY <1>0, <1>1, <2>1, ListFields DEF Rests, Pending
<1>2. CASE TickGetEnv(pr)
  BY <1>0, <1>2, GetEnvFields DEF Pending
<1>3. CASE TickSkip(pr)
  <2>1. tick[pr].pc = "loop"
    BY <1>3 DEF TickSkip
  <2> QED
    BY <1>0, <1>3, <2>1, SkipFields DEF Visits, Pending
<1>4. ASSUME NEW p \in Promo, TickAdvance(pr, p) \/ TickPoll(pr, p)
      PROVE  Others(pr) /\ tick[pr].pc = "loop"
  <2>1. tick[pr].pc = "loop"
    BY <1>4 DEF TickAdvance, TickPoll, Visiting
  <2> QED
    BY <1>0, <1>4, <2>1, AdvanceFields, PollFields DEF Visits
<1>5. ASSUME NEW p \in Promo, TickRelaunch(pr, p) \/ TickStart(pr, p)
      PROVE  Others(pr) /\ tick[pr].pc = "loop"
  <2>1. tick[pr].pc = "loop"
    BY <1>5 DEF TickRelaunch, TickStart, Visiting
  <2> QED
    BY <1>0, <1>5, <2>1, RelaunchFields, StartFields DEF Visits, Takes
<1>6. CASE TickClaim(pr)
  BY <1>0, <1>6, ClaimFields DEF Resumes, GoesOn, Pending
<1>7. CASE TickLaunch(pr)
  BY <1>0, <1>7, LaunchFields DEF Resumes, GoesOn, Pending
<1>8. CASE TickSave(pr)
  BY <1>0, <1>8, SaveFields DEF Resumes, Pending
<1>9. CASE TickEnd(pr)
  <2>1. tick' = [tick EXCEPT ![pr] = TickIdle] /\ tick[pr].pc = "loop"
    BY <1>9 DEF TickEnd
  <2> QED
    BY <1>0, <2>1, RestsMeans DEF Rests, Pending
<1> QED
  BY <1>1, <1>2, <1>3, <1>4, <1>5, <1>6, <1>7, <1>8, <1>9 DEF Tick, Pending

\* The UPDATE leaves every row it expired to its own loop.
LEMMA ExpirePending ==
    ASSUME Strong, LagsPending, NEW pr \in Proc, TickExpire(pr), UNCHANGED faults, faults = MaxFaults,
           NEW p \in Promo, promo'[p].status = "expired"
    PROVE  hist'[p].status = "expired" \/ \E q \in Proc : Pending(q, p)'
<1>0. RowsOK /\ TickOK /\ faults \in Int /\ tick[pr] = TickIdle /\ tick \in [Proc -> TickType]
  BY StrongParts, ConstantsAssumption DEF TypeInv, FaultsOK, TickExpire, TickOK
<1> DEFINE over == {q \in Promo : promo[q].status \in Waitable /\ promo[q].expiresAt <= now}
<1>1. /\ promo' = [q \in Promo |-> IF q \in over THEN [promo[q] EXCEPT !.status = "expired"] ELSE promo[q]]
      /\ tick' = [tick EXCEPT ![pr].pc = "sync", ![pr].at = now, ![pr].todo = over]
      /\ UNCHANGED hist
  BY <1>0 DEF TickExpire, Fault
<1> HIDE DEF over
<1>2. tick'[pr].pc = "sync" /\ tick'[pr].todo = over /\ Others(pr)
  <2> DEFINE u == [tick[pr] EXCEPT !.pc = "sync", !.at = now, !.todo = over]
  <2>1. tick' = [tick EXCEPT ![pr] = u]
    BY <1>0, <1>1
  <2>2. u.pc = "sync" /\ u.todo = over
    BY <1>0 DEF TickType
  <2> HIDE DEF u
  <2> QED
    BY <1>0, <2>1, <2>2, TickSet
<1>3. CASE p \in over
  BY <1>2, <1>3 DEF Pending
<1>4. CASE p \notin over
  <2>1. promo[p].status = "expired" /\ hist'[p] = hist[p]
    BY <1>1, <1>4
  <2>2. hist[p].status = "expired" \/ \E q \in Proc : Pending(q, p)
    BY <2>1 DEF LagsPending
  <2>3. ~Pending(pr, p)
    BY <1>0, RestShapes DEF Pending, TickIdle
  <2>4. ASSUME NEW q \in Proc, Pending(q, p) PROVE Pending(q, p)'
    BY <1>2, <2>3, <2>4 DEF Others, Pending
  <2> QED
    BY <2>1, <2>2, <2>4
<1> QED
  BY <1>3, <1>4

\* Syncing one row leaves the others pending.
LEMMA SyncPending ==
    ASSUME Strong, LagsPending, NEW pr \in Proc, TickSync(pr), UNCHANGED faults, faults = MaxFaults,
           NEW p \in Promo, promo'[p].status = "expired"
    PROVE  hist'[p].status = "expired" \/ \E q \in Proc : Pending(q, p)'
<1>0. RowsOK /\ TickOK /\ faults \in Int /\ tick[pr] \in TickType /\ tick \in [Proc -> TickType]
  BY StrongParts, ConstantsAssumption DEF TypeInv, FaultsOK, TickOK
<1>1. PICK r \in Promo : Write(r, promo[r]) /\ tick' = [tick EXCEPT ![pr].todo = @ \ {r}]
  BY <1>0 DEF TickSync, Fault
<1>2. tick'[pr].pc = tick[pr].pc /\ tick'[pr].todo = tick[pr].todo \ {r} /\ Others(pr)
  BY <1>0, <1>1 DEF TickType, Others
<1>3. CASE p = r
  <2>1. promo'[p] = promo[p] /\ hist'[p].status = EnvDeploymentStatus(promo[p].status)
    BY <1>0, <1>1, <1>3, WriteMeans
  <2> QED
    BY <2>1 DEF EnvDeploymentStatus
<1>4. CASE p # r
  <2>1. promo'[p] = promo[p] /\ hist'[p] = hist[p]
    BY <1>0, <1>1, <1>4, WriteMeans
  <2>2. hist[p].status = "expired" \/ \E q \in Proc : Pending(q, p)
    BY <2>1 DEF LagsPending
  <2>3. ASSUME NEW q \in Proc, Pending(q, p) PROVE Pending(q, p)'
    BY <1>2, <1>4, <2>3 DEF Others, Pending
  <2> QED
    BY <2>1, <2>2, <2>3
<1> QED
  BY <1>3, <1>4

LEMMA NextLagsPending == Strong /\ LagsPending /\ [Next]_vars => LagsPending'
<1> SUFFICES ASSUME Strong, LagsPending, [Next]_vars, faults' = MaxFaults,
                    NEW p \in Promo, promo'[p].status = "expired"
             PROVE  hist'[p].status = "expired" \/ \E q \in Proc : Pending(q, p)'
  BY DEF LagsPending
<1>0. RowsOK /\ faults \in 0..MaxFaults
  BY StrongParts DEF TypeInv, FaultsOK
<1>1. UNCHANGED faults /\ faults = MaxFaults
  BY <1>0, FaultsStep, ConstantsAssumption DEF Fault
<1>2. ASSUME Written, \A q \in Proc : Pending(q, p) => Pending(q, p)'
      PROVE  hist'[p].status = "expired" \/ \E q \in Proc : Pending(q, p)'
  <2>1. hist'[p].status = "expired" \/ (promo[p].status = "expired" /\ hist'[p].status = hist[p].status)
    BY <1>0, <1>2, WrittenMeans
  <2>2. promo[p].status = "expired" => hist[p].status = "expired" \/ \E q \in Proc : Pending(q, p)
    BY <1>1 DEF LagsPending
  <2> QED
    BY <1>2, <2>1, <2>2
<1>3. ASSUME UNCHANGED tick PROVE \A q \in Proc : Pending(q, p) => Pending(q, p)'
  BY <1>3 DEF Pending
<1>4. CASE Request
  BY <1>2, <1>3, <1>4, RequestWrites, RequestLeaves
<1>5. CASE PolicyChange
  BY <1>2, <1>3, <1>5, PolicyWrites, PolicyLeaves
<1>6. CASE World
  BY <1>2, <1>3, <1>6, WorldLeaves DEF Written
<1>7. CASE UNCHANGED vars
  <2>1. UNCHANGED rows /\ UNCHANGED tick
    BY <1>7 DEF vars, rows
  <2> QED
    BY <1>2, <1>3, <2>1 DEF Written
<1>8. ASSUME NEW pr \in Proc, Tick(pr)
      PROVE  hist'[p].status = "expired" \/ \E q \in Proc : Pending(q, p)'
  <2>1. CASE TickExpire(pr)
    BY <1>1, <2>1, ExpirePending
  <2>2. CASE TickSync(pr)
    BY <1>1, <2>2, SyncPending
  <2>3. CASE ~TickExpire(pr) /\ ~TickSync(pr)
    <3>1. Written
      BY <1>8, <2>3, LoopWrites
    <3>2. Others(pr) /\ ~Pending(pr, p)
      BY <1>8, <2>3, NothingPending
    <3>3. \A q \in Proc : Pending(q, p) => Pending(q, p)'
      BY <3>2 DEF Others, Pending
    <3> QED
      BY <1>2, <3>1, <3>3
  <2> QED
    BY <2>1, <2>2, <2>3
<1>9. ASSUME NEW pr \in Proc, Crash(pr) PROVE FALSE
  BY <1>0, <1>1, <1>9 DEF Crash, Fault
<1> QED
  BY <1>4, <1>5, <1>6, <1>7, <1>8, <1>9 DEF Next

\* Every history row says what its promotion says, through all writers.  An
\* expired one's may lag while the loop that expired it has it to sync; it is
\* left behind only if a call failed or a process died.
THEOREM HistoryIsMirrored == Spec => []HistoryMirrors
<1>1. Init => LagsPending
  BY DEF Init, LagsPending, NoPromo
<1>2. Spec => []LagsPending
  BY <1>1, AlwaysStrong, NextLagsPending, PTL DEF Spec
<1>3. Strong /\ LagsPending => HistoryMirrors
  BY DEF Strong, RowsTrue, RowsMirror, LagsPending, Pending, HistoryMirrors
<1> QED
  BY <1>2, <1>3, AlwaysStrong, PTL
=============================================================================

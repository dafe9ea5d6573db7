-------------------------- MODULE AutoMergeProofs ---------------------------
(***************************************************************************)
(* What auto-merge promises, for any number of workers, users, heads,      *)
(* armings, lost calls and crashes.                                        *)
(***************************************************************************)
EXTENDS AutoMerge, TLAPS

Pc == {"idle", "arm", "get", "pull", "authz", "assess", "claim", "merge", "again", "release", "finish"}
AttType == [pc : Pc, head : Head \cup {0}, by : User \cup {NoUser}, gen : 0..MaxArm, tries : Nat,
            to : {"none", "merged", "cancelled"}, count : {0, 1}]
PullType == [state : {"open", "closed", "merged"}, head : Head, block : {"none", "checks", "draft"}]
RowType == [state : {"none", "armed", "merging", "merged", "cancelled"}, head : Head \cup {0},
            by : User \cup {NoUser}, attempts : Nat, lease : BOOLEAN, old : BOOLEAN, gen : 0..MaxArm]

\* The parts of TypeOK.
ForgeOK == pull \in PullType /\ role \in SUBSET User /\ events \in SUBSET {"closed", "merged"}
RowOK == row \in RowType /\ (Active => row.gen > 0)
AttOK == att \in [Actor -> AttType]
HistoryOK == armed \in SUBSET Head /\ auto \in BOOLEAN /\ lost \in SUBSET (1..MaxArm)
BoundOK == moves \in 0..MaxMoves /\ faults \in 0..MaxFaults

\* From the read of the row until the claim is given back an attempt is about
\* a head that was armed, and a request to arm names a head of the pull request.
Informed == {"pull", "authz", "assess", "claim", "merge", "again", "release"}
HeadsArmed ==
    /\ Active => row.head \in armed
    /\ \A a \in Actor : att[a].pc \in Informed => att[a].head \in armed
    /\ \A a \in Actor : att[a].pc = "arm" => att[a].head \in Head

\* Whoever is going to write that the pull request is merged has seen it merged.
MergeSeen ==
    /\ auto => pull.state = "merged"
    /\ "merged" \in events => pull.state = "merged"
    /\ \A a \in Actor : att[a].pc = "finish" /\ att[a].to = "merged" => pull.state = "merged"
    /\ \A a \in Actor : att[a].pc = "release" => att[a].to # "merged"

\* An attempt that holds a claim of the present arming keeps the row from being
\* claimed again; one that holds a claim of an earlier arming of the same head
\* could give back the present one, and then that arming counts as lost.
ClaimKept ==
    \A a \in Actor : Holds(a) =>
       /\ att[a].gen <= row.gen
       /\ att[a].gen = row.gen /\ row.gen \notin lost => ~Active \/ (row.state = "merging" /\ row.lease)
       /\ att[a].gen < row.gen /\ att[a].head = row.head => row.gen \in lost

\* Two attempts hold claims of one arming only when its claim was lost.
HoldsAlone ==
    \A a, b \in Actor : Holds(a) /\ Holds(b) /\ att[a].gen = att[b].gen => a = b \/ att[a].gen \in lost

Inv ==
    /\ ForgeOK /\ RowOK /\ AttOK /\ HistoryOK /\ BoundOK
    /\ HeadsArmed /\ MergeSeen /\ ClaimKept /\ HoldsAlone
    /\ OnlyArmedHead /\ MergedIsTrue

-----------------------------------------------------------------------------
(* What most steps have in common: they neither arm nor claim.             *)

\* The row keeps its arming, is not made active, and says merged only of what is
\* merged; a claim is given up only when no attempt that is left relies on it.
RowKept ==
    /\ row'.gen = row.gen /\ row'.head = row.head
    /\ Active' => Active
    /\ row'.state = "merged" => row.state = "merged" \/ pull'.state = "merged"
    /\ \/ ~Active'
       \/ row'.state = row.state /\ row'.lease = row.lease
       \/ \A b \in Actor : Holds(b)' /\ att'[b].gen = row.gen => row.gen \in lost'

\* A merged pull request stays as it is, and only a merge is taken for one.
ForgeKept ==
    /\ pull.state = "merged" => pull'.state = "merged" /\ pull'.head = pull.head
    /\ auto' => auto \/ (pull'.state = "merged" /\ pull'.head \in armed)
    /\ "merged" \in events' => "merged" \in events \/ pull'.state = "merged"

\* No attempt gets a claim, or a head that was not armed.
AttKept(b) ==
    /\ att'[b].pc \in Informed => att'[b].head \in armed
    /\ att'[b].pc = "arm" => att'[b].head \in Head
    /\ att'[b].pc = "finish" /\ att'[b].to = "merged" => pull'.state = "merged"
    /\ att'[b].pc = "release" => att'[b].to # "merged"
    /\ Holds(b)' => Holds(b) /\ att'[b].gen = att[b].gen /\ att'[b].head = att[b].head

Kept ==
    /\ ForgeOK' /\ RowOK' /\ AttOK' /\ HistoryOK' /\ BoundOK'
    /\ armed' = armed /\ lost \subseteq lost'
    /\ RowKept /\ ForgeKept /\ \A b \in Actor : AttKept(b)

LEMMA KeptInv == Inv /\ Kept => Inv'
<1> SUFFICES ASSUME Inv, Kept PROVE Inv'
  OBVIOUS
<1> USE DEF Inv, Kept
<1>1. HeadsArmed'
  BY DEF HeadsArmed, RowKept, AttKept
<1>2. MergeSeen'
  BY DEF MergeSeen, ForgeKept, AttKept
<1>3. ClaimKept'
  <2> SUFFICES ASSUME NEW a \in Actor, Holds(a)'
               PROVE  /\ att'[a].gen <= row'.gen
                      /\ att'[a].gen = row'.gen /\ row'.gen \notin lost' =>
                            ~Active' \/ (row'.state = "merging" /\ row'.lease)
                      /\ att'[a].gen < row'.gen /\ att'[a].head = row'.head => row'.gen \in lost'
    BY DEF ClaimKept
  <2>1. Holds(a) /\ att'[a].gen = att[a].gen /\ att'[a].head = att[a].head
    BY DEF AttKept
  <2>2. CASE row'.state = row.state /\ row'.lease = row.lease
    BY <2>1, <2>2 DEF ClaimKept, RowKept, Active
  <2>3. CASE ~Active' \/ \A b \in Actor : Holds(b)' /\ att'[b].gen = row.gen => row.gen \in lost'
    BY <2>1, <2>3 DEF ClaimKept, RowKept
  <2> QED
    BY <2>2, <2>3 DEF RowKept
<1>4. HoldsAlone'
  BY DEF HoldsAlone, AttKept
<1>5. OnlyArmedHead' /\ MergedIsTrue'
  BY DEF OnlyArmedHead, MergedIsTrue, MergeSeen, ForgeKept, RowKept
<1> QED
  BY <1>1, <1>2, <1>3, <1>4, <1>5

\* An attempt, or a request, that goes on.
LEMMA AttToMeans ==
    ASSUME AttOK, NEW a \in Actor, NEW v \in AttType, AttTo(a, v)
    PROVE  AttOK' /\ att'[a] = v /\ \A b \in Actor \ {a} : att'[b] = att[b]
BY DEF AttOK, AttTo

LEMMA NoAttType == NoAtt \in AttType /\ NoAtt.pc = "idle"
BY AutoMergeAssumption DEF NoAtt, AttType, Pc, NoUser

\* The others are kept whatever one does.
LEMMA OthersKept ==
    ASSUME Inv, ForgeKept, NEW b \in Actor, att'[b] = att[b]
    PROVE  AttKept(b)
BY DEF Inv, AttKept, HeadsArmed, MergeSeen, ForgeKept, Holds

\* A step of one attempt that leaves the forge and the row alone.
LEMMA AttemptKept ==
    ASSUME Inv, NEW a \in Actor, NEW v \in AttType, AttTo(a, v),
           UNCHANGED <<pull, role, row, events, armed, auto, lost>>, BoundOK',
           v.pc \in Informed => v.head \in armed,
           v.pc = "arm" => v.head \in Head,
           v.pc = "finish" /\ v.to = "merged" => pull.state = "merged",
           v.pc = "release" => v.to # "merged",
           v.pc \in {"merge", "again", "release"} => Holds(a) /\ v.gen = att[a].gen /\ v.head = att[a].head
    PROVE  Inv'
<1>1. AttOK' /\ att'[a] = v /\ \A b \in Actor \ {a} : att'[b] = att[b]
  BY AttToMeans DEF Inv
<1>2. RowKept /\ ForgeKept /\ ForgeOK' /\ RowOK' /\ HistoryOK'
  BY DEF Inv, RowKept, ForgeKept, Active, ForgeOK, RowOK, HistoryOK
<1>3. AttKept(a)
  BY <1>1 DEF AttKept, Holds
<1>4. ASSUME NEW b \in Actor PROVE AttKept(b)
  BY <1>1, <1>2, <1>3, OthersKept
<1> QED
  BY <1>1, <1>2, <1>4, KeptInv DEF Kept

\* What a fault leaves of the bounds.
LEMMA FaultBound == ASSUME BoundOK, Fault \/ UNCHANGED faults, UNCHANGED moves PROVE BoundOK'
BY AutoMergeAssumption DEF BoundOK, Fault

LEMMA EndsInv ==
    ASSUME Inv, NEW a \in Actor, Ends(a), UNCHANGED <<pull, role, row, events, armed, auto, lost>>, BoundOK'
    PROVE  Inv'
BY NoAttType, AttemptKept DEF Ends, Informed

\* An attempt goes on to a step that needs no claim, or keeps the one it has.
LEMMA PcInv ==
    ASSUME Inv, NEW a \in Actor, NEW pc \in Pc, AttPc(a, pc),
           UNCHANGED <<pull, role, row, events, armed, auto, lost>>, BoundOK',
           pc \notin {"arm", "finish", "release"},
           pc \in Informed => att[a].pc \in Informed,
           pc \in {"merge", "again"} => Holds(a)
    PROVE  Inv'
<1> DEFINE v == [att[a] EXCEPT !.pc = pc]
<1>0. att[a] \in AttType
  BY DEF Inv, AttOK
<1>1. v \in AttType /\ v.pc = pc /\ v.head = att[a].head /\ v.gen = att[a].gen
  BY <1>0 DEF AttType
<1>2. v.pc \in Informed => v.head \in armed
  BY <1>1 DEF Inv, HeadsArmed
<1> QED
  BY <1>1, <1>2, AttemptKept DEF AttPc

\* An attempt is going to end the row.
LEMMA ToFinishInv ==
    ASSUME Inv, NEW a \in Actor, NEW to \in {"merged", "cancelled"}, ToFinish(a, to),
           UNCHANGED <<pull, role, row, events, armed, auto, lost>>, BoundOK',
           to = "merged" => pull.state = "merged"
    PROVE  Inv'
<1> DEFINE v == [att[a] EXCEPT !.pc = "finish", !.to = to]
<1>0. att[a] \in AttType
  BY DEF Inv, AttOK
<1>1. v \in AttType /\ v.pc = "finish" /\ v.to = to
  BY <1>0 DEF AttType, Pc
<1> QED
  BY <1>1, AttemptKept DEF ToFinish, Informed

\* An attempt is going to give its claim back, and perhaps to cancel.
LEMMA ToReleaseInv ==
    ASSUME Inv, NEW a \in Actor, Holds(a), NEW count \in {0, 1}, NEW to \in {"none", "cancelled"},
           ToRelease(a, count, to), UNCHANGED <<pull, role, row, events, armed, auto, lost>>, BoundOK'
    PROVE  Inv'
<1> DEFINE v == [att[a] EXCEPT !.pc = "release", !.count = count, !.to = to]
<1>0. att[a] \in AttType /\ att[a].head \in armed
  BY DEF Inv, AttOK, Holds, HeadsArmed, Informed
<1>1. /\ v \in AttType /\ v.pc = "release" /\ v.to = to /\ v.gen = att[a].gen /\ v.head = att[a].head
      /\ v.head \in armed
  BY <1>0 DEF AttType, Pc
<1> QED
  BY <1>1, AttemptKept DEF ToRelease

LEMMA FailedInv ==
    ASSUME Inv, NEW a \in Actor, Holds(a), Failed(a),
           UNCHANGED <<pull, role, row, events, armed, auto, lost>>, BoundOK'
    PROVE  Inv'
BY ToReleaseInv DEF Failed

-----------------------------------------------------------------------------
(* The steps of an attempt.                                                *)

LEMMA EnableInv == ASSUME Inv, NEW u \in User, EnableAutoMerge(u) PROVE Inv'
<1> DEFINE v == [NoAtt EXCEPT !.pc = "arm", !.head = pull.head, !.by = u]
<1>1. v \in AttType /\ v.pc = "arm" /\ v.head \in Head /\ u \in Actor
  BY NoAttType DEF Inv, ForgeOK, PullType, AttType, Pc, Actor
<1>2. BoundOK' /\ AttTo(u, v)
  BY DEF EnableAutoMerge, Inv, BoundOK
<1> QED
  BY <1>1, <1>2, AttemptKept DEF EnableAutoMerge, Informed

LEMMA StartInv == ASSUME Inv, NEW w \in Worker, Start(w) PROVE Inv'
<1>1. w \in Actor /\ BoundOK' /\ UNCHANGED <<pull, role, row, events, armed, auto, lost>>
  BY FaultBound DEF Start, NotAttempting, Inv, Actor
<1> QED
  BY <1>1, PcInv, ToFinishInv DEF Start, Informed, Pc

LEMMA GetInv == ASSUME Inv, NEW a \in Actor, Get(a) PROVE Inv'
<1>1. BoundOK' /\ UNCHANGED <<pull, role, row, events, armed, auto, lost>>
  BY DEF Get, NotAttempting, Inv, BoundOK
<1>2. CASE (~Active /\ Ends(a)) \/ (Active /\ row.old /\ ToFinish(a, "cancelled"))
  BY <1>1, <1>2, EndsInv, ToFinishInv
<1> DEFINE v == [NoAtt EXCEPT !.pc = "pull", !.head = row.head, !.by = row.by, !.gen = row.gen]
<1>3. CASE Active /\ AttTo(a, v)
  <2>1. v \in AttType /\ v.pc = "pull" /\ v.head \in armed
    BY <1>3, NoAttType DEF Inv, RowOK, RowType, HeadsArmed, AttType, Pc
  <2> QED
    BY <1>1, <1>3, <2>1, AttemptKept
<1> QED
  <2>1. (~Active /\ Ends(a)) \/ (Active /\ row.old /\ ToFinish(a, "cancelled")) \/ (Active /\ AttTo(a, v))
    BY DEF Get, Active
  <2> QED
    BY <1>2, <1>3, <2>1

LEMMA GetPullInv == ASSUME Inv, NEW a \in Actor, GetPull(a) PROVE Inv'
<1>1. BoundOK' /\ UNCHANGED <<pull, role, row, events, armed, auto, lost>> /\ att[a].pc = "pull"
  BY FaultBound DEF GetPull, NotAttempting, Inv
<1>2. \/ Ends(a) \/ AttPc(a, "authz") \/ ToFinish(a, "cancelled")
      \/ pull.state = "merged" /\ ToFinish(a, "merged")
  BY DEF GetPull, Inv, ForgeOK, PullType
<1> QED
  BY <1>1, <1>2, EndsInv, PcInv, ToFinishInv DEF Informed, Pc

LEMMA AuthorizeInv == ASSUME Inv, NEW a \in Actor, Authorize(a) PROVE Inv'
<1>1. BoundOK' /\ UNCHANGED <<pull, role, row, events, armed, auto, lost>> /\ att[a].pc = "authz"
  BY FaultBound DEF Authorize, NotAttempting, Inv
<1> QED
  BY <1>1, EndsInv, PcInv, ToFinishInv DEF Authorize, Informed, Pc

LEMMA AssessInv == ASSUME Inv, NEW a \in Actor, Assess(a) PROVE Inv'
<1>1. BoundOK' /\ UNCHANGED <<pull, role, row, events, armed, auto, lost>> /\ att[a].pc = "assess"
  BY FaultBound DEF Assess, NotAttempting, Inv
<1> QED
  BY <1>1, EndsInv, PcInv DEF Assess, Informed, Pc

LEMMA ReadAgainInv == ASSUME Inv, NEW a \in Actor, ReadAgain(a) PROVE Inv'
<1>1. BoundOK' /\ UNCHANGED <<pull, role, row, events, armed, auto, lost>> /\ Holds(a)
  BY FaultBound DEF ReadAgain, NotAttempting, Inv, Holds
<1>2. Failed(a) \/ ToFinish(a, "cancelled") \/ (pull.state = "merged" /\ ToFinish(a, "merged"))
  BY DEF ReadAgain, Inv, ForgeOK, PullType
<1> QED
  BY <1>1, <1>2, FailedInv, ToFinishInv

LEMMA CrashInv == ASSUME Inv, NEW a \in Actor, Crash(a) PROVE Inv'
BY EndsInv, FaultBound DEF Crash, Inv

\* A claim that succeeds finds no attempt that holds one of this arming, unless
\* that was lost.
LEMMA ClaimInv == ASSUME Inv, NEW a \in Actor, Claim(a) PROVE Inv'
<1>0. BoundOK' /\ UNCHANGED <<pull, role, events, armed, auto, lost>> /\ att[a].pc = "claim"
  BY DEF Claim, NotAttempting, Inv, BoundOK
<1> DEFINE v == [att[a] EXCEPT !.pc = "merge", !.by = row.by, !.gen = row.gen, !.tries = row.attempts]
<1>1. CASE Ends(a) /\ UNCHANGED row
  BY <1>0, <1>1, EndsInv
<1>2. CASE /\ row.head = att[a].head /\ (row.state = "armed" \/ (row.state = "merging" /\ ~row.lease))
           /\ row' = [row EXCEPT !.state = "merging", !.lease = TRUE]
           /\ AttTo(a, v)
  <2>1. att[a] \in AttType /\ att[a].head \in armed /\ row \in RowType
    BY <1>0 DEF Inv, AttOK, HeadsArmed, Informed, RowOK
  <2>2. v \in AttType /\ v.pc = "merge" /\ v.head = row.head /\ v.gen = row.gen
    BY <1>2, <2>1 DEF AttType, RowType, Pc
  <2> HIDE DEF v
  <2>3. AttOK' /\ att'[a] = v /\ \A b \in Actor \ {a} : att'[b] = att[b]
    BY <1>2, <2>2, AttToMeans DEF Inv
  <2>4. /\ row' \in RowType /\ row'.state = "merging" /\ row'.lease /\ row'.gen = row.gen /\ row'.head = row.head
        /\ Active /\ Active'
    BY <1>2, <2>1 DEF RowType, Active
  <2>5. ForgeOK' /\ RowOK' /\ HistoryOK'
    BY <1>0, <2>4 DEF Inv, ForgeOK, RowOK, HistoryOK
  <2>6. HeadsArmed' /\ MergeSeen'
    BY <1>0, <2>1, <2>2, <2>3, <2>4 DEF Inv, HeadsArmed, MergeSeen, Informed
  <2>7. ASSUME NEW b \in Actor \ {a}, Holds(b)' PROVE Holds(b) /\ (att[b].gen = row.gen => row.gen \in lost)
    BY <1>2, <2>3, <2>4, <2>7 DEF Inv, ClaimKept, Holds
  <2>8. ClaimKept'
    BY <1>0, <2>2, <2>3, <2>4, <2>7 DEF Inv, ClaimKept, RowType
  <2>9. HoldsAlone'
    BY <1>0, <2>2, <2>3, <2>7 DEF Inv, HoldsAlone
  <2>10. OnlyArmedHead' /\ MergedIsTrue'
    BY <1>0, <2>4 DEF Inv, OnlyArmedHead, MergedIsTrue
  <2> QED
    BY <1>0, <2>3, <2>5, <2>6, <2>8, <2>9, <2>10 DEF Inv
<1> QED
  BY <1>1, <1>2 DEF Claim

\* The merge itself: the forge compared the head, which was armed.
LEMMA MergePullInv == ASSUME Inv, NEW a \in Actor, MergePull(a) PROVE Inv'
<1>0. BoundOK' /\ UNCHANGED <<role, row, armed, lost>> /\ Holds(a) /\ att[a].head \in armed /\ att[a] \in AttType
  BY FaultBound DEF MergePull, Inv, AttOK, HeadsArmed, Informed, Holds
<1>1. CASE UNCHANGED <<pull, auto, events>> /\ (AttPc(a, "again") \/ ToRelease(a, 0, "none") \/ Failed(a))
  BY <1>0, <1>1, PcInv, ToReleaseInv, FailedInv DEF Pc, Informed, Holds
<1>2. CASE pull.state = "open" /\ pull.head = att[a].head /\ Merged /\ (ToFinish(a, "merged") \/ Failed(a))
  <2>1. pull' \in PullType /\ pull'.state = "merged" /\ pull'.head \in armed /\ auto' /\ ForgeOK' /\ HistoryOK'
    BY <1>0, <1>2 DEF Merged, Inv, ForgeOK, HistoryOK, PullType
  <2>2. ForgeKept /\ RowKept /\ RowOK'
    BY <1>0, <1>2, <2>1 DEF ForgeKept, RowKept, Inv, RowOK, Active
  <2>3. PICK v \in AttType : /\ AttTo(a, v) /\ v.head = att[a].head /\ v.gen = att[a].gen
                             /\ v.pc = "finish" \/ (v.pc = "release" /\ v.to # "merged")
    <3>1. CASE ToFinish(a, "merged")
      <4> DEFINE v == [att[a] EXCEPT !.pc = "finish", !.to = "merged"]
      <4>1. v \in AttType /\ v.head = att[a].head /\ v.gen = att[a].gen /\ v.pc = "finish"
        BY <1>0 DEF AttType, Pc
      <4> QED
        BY <3>1, <4>1 DEF ToFinish
    <3>2. CASE ToRelease(a, 1, "none") \/ ToRelease(a, 1, "cancelled")
      <4> PICK to \in {"none", "cancelled"} : ToRelease(a, 1, to)
        BY <3>2
      <4> DEFINE v == [att[a] EXCEPT !.pc = "release", !.count = 1, !.to = to]
      <4>1. v \in AttType /\ v.head = att[a].head /\ v.gen = att[a].gen /\ v.pc = "release" /\ v.to # "merged"
        BY <1>0 DEF AttType, Pc
      <4> QED
        BY <4>1 DEF ToRelease
    <3> QED
      BY <1>2, <3>1, <3>2 DEF Failed
  <2>4. AttOK' /\ att'[a] = v /\ \A b \in Actor \ {a} : att'[b] = att[b]
    BY <2>3, AttToMeans DEF Inv
  <2>5. AttKept(a)
    BY <1>0, <2>1, <2>3, <2>4 DEF AttKept, Holds
  <2>6. ASSUME NEW b \in Actor PROVE AttKept(b)
    BY <2>2, <2>4, <2>5, OthersKept
  <2> QED
    BY <1>0, <2>1, <2>2, <2>4, <2>6, KeptInv DEF Kept
<1> QED
  BY <1>1, <1>2 DEF MergePull

-----------------------------------------------------------------------------
(* The row is given back or ended.                                         *)

LEMMA FinishRowMeans ==
    ASSUME Inv, NEW to \in {"merged", "cancelled"}, FinishRow(to), to = "merged" => pull'.state = "merged"
    PROVE  RowOK' /\ RowKept
<1>1. row \in RowType
  BY DEF Inv, RowOK
<1>2. CASE Active
  BY <1>1, <1>2 DEF FinishRow, RowKept, RowOK, RowType, Active
<1>3. CASE ~Active
  BY <1>1, <1>3 DEF FinishRow, RowKept, RowOK, Active
<1> QED
  BY <1>2, <1>3

LEMMA FinishInv == ASSUME Inv, NEW a \in Actor, Finish(a) PROVE Inv'
<1>0. BoundOK' /\ UNCHANGED <<pull, role, events, armed, auto, lost>> /\ att[a].pc = "finish" /\ Ends(a)
  BY FaultBound DEF Finish, NotAttempting, Inv
<1>1. AttOK' /\ att'[a] = NoAtt /\ \A b \in Actor \ {a} : att'[b] = att[b]
  BY <1>0, NoAttType, AttToMeans DEF Inv, Ends
<1>2. RowOK' /\ RowKept
  <2>1. CASE UNCHANGED row
    BY <2>1 DEF Inv, RowOK, RowKept, Active
  <2>2. CASE FinishRow(att[a].to)
    <3>1. CASE att[a].to \in {"merged", "cancelled"}
      BY <1>0, <2>2, <3>1, FinishRowMeans DEF Inv, MergeSeen
    <3>2. CASE att[a].to = "none"
      <4>1. row \in RowType
        BY DEF Inv, RowOK
      <4>2. CASE Active
        BY <2>2, <3>2, <4>1, <4>2 DEF FinishRow, RowKept, RowOK, RowType, Active
      <4>3. CASE ~Active
        BY <2>2, <4>1, <4>3 DEF FinishRow, RowKept, RowOK, Active
      <4> QED
        BY <4>2, <4>3
    <3> QED
      BY <3>1, <3>2 DEF Inv, AttOK, AttType
  <2> QED
    BY <2>1, <2>2 DEF Finish
<1>3. ForgeKept /\ ForgeOK' /\ HistoryOK'
  BY <1>0 DEF ForgeKept, Inv, ForgeOK, HistoryOK
<1>4. ASSUME NEW b \in Actor PROVE AttKept(b)
  BY <1>1, <1>3, NoAttType, OthersKept DEF AttKept, Informed, Holds
<1> QED
  BY <1>0, <1>1, <1>2, <1>3, <1>4, KeptInv DEF Kept

\* An attempt gives back its own claim, which it alone holds, or one of a later
\* arming of its head, which is counted as lost.
LEMMA ReleaseInv == ASSUME Inv, NEW a \in Actor, Release(a) PROVE Inv'
<1>0. BoundOK' /\ UNCHANGED <<pull, role, events, armed, auto, lost>> /\ Holds(a) /\ att[a].pc = "release"
  BY FaultBound DEF Release, NotAttempting, Inv, Holds
<1>1. att[a] \in AttType /\ att[a].to # "merged" /\ row \in RowType
  BY <1>0 DEF Inv, AttOK, MergeSeen, RowOK
<1>2. PICK v \in AttType : AttTo(a, v) /\ (v.pc = "idle" \/ (v.pc = "finish" /\ v.to # "merged"))
  <2>1. CASE Ends(a)
    BY <2>1, NoAttType DEF Ends
  <2>2. CASE AttPc(a, "finish")
    <3> DEFINE v == [att[a] EXCEPT !.pc = "finish"]
    <3>1. v \in AttType /\ v.pc = "finish" /\ v.to # "merged"
      BY <1>1 DEF AttType, Pc
    <3> QED
      BY <2>2, <3>1 DEF AttPc
  <2> QED
    BY <2>1, <2>2 DEF Release
<1>3. AttOK' /\ att'[a] = v /\ \A b \in Actor \ {a} : att'[b] = att[b]
  BY <1>2, AttToMeans DEF Inv
<1>4. ForgeKept /\ ForgeOK' /\ HistoryOK'
  BY <1>0 DEF ForgeKept, Inv, ForgeOK, HistoryOK
<1>5. ASSUME NEW b \in Actor PROVE AttKept(b)
  BY <1>2, <1>3, <1>4, OthersKept DEF AttKept, Informed, Holds
<1>6. RowOK' /\ RowKept
  <2>1. CASE UNCHANGED row
    BY <2>1 DEF Inv, RowOK, RowKept, Active
  <2>2. CASE row.state = "merging" /\ row.head = att[a].head /\ ReleaseRow(att[a].head, att[a].count)
    <3>1. /\ row' \in RowType /\ row'.gen = row.gen /\ row'.head = row.head /\ row'.state = "armed"
          /\ Active /\ row.gen > 0
      <4>1. row' = [row EXCEPT !.state = "armed", !.lease = FALSE, !.attempts = @ + att[a].count]
        BY <2>2 DEF ReleaseRow
      <4>2. row.attempts \in Nat /\ att[a].count \in Nat /\ row.attempts + att[a].count \in Nat
        BY <1>1 DEF RowType, AttType
      <4>3. Active /\ row.gen > 0
        BY <2>2 DEF Active, Inv, RowOK
      <4> QED
        BY <1>1, <4>1, <4>2, <4>3 DEF RowType
    <3>2. ASSUME NEW b \in Actor, Holds(b)', att'[b].gen = row.gen PROVE row.gen \in lost'
      <4>1. b # a /\ Holds(b) /\ att[b].gen = row.gen
        BY <1>2, <1>3, <1>5, <3>2 DEF AttKept, Holds
      <4>2. att[a].gen <= row.gen /\ (att[a].gen < row.gen => row.gen \in lost)
        BY <1>0, <2>2 DEF Inv, ClaimKept
      <4>3. att[a].gen = row.gen => row.gen \in lost
        BY <1>0, <4>1 DEF Inv, HoldsAlone
      <4> QED
        BY <1>0, <1>1, <4>2, <4>3 DEF RowType, AttType
    <3> QED
      BY <3>1, <3>2 DEF RowOK, RowKept
  <2> QED
    BY <2>1, <2>2 DEF Release, ReleaseRow
<1> QED
  BY <1>0, <1>3, <1>4, <1>5, <1>6, KeptInv DEF Kept

\* Steps that leave every attempt where it is.
LEMMA NoAttemptInv ==
    ASSUME Inv, UNCHANGED <<att, armed>>, lost \subseteq lost', ForgeOK', RowOK', HistoryOK', BoundOK',
           RowKept, ForgeKept
    PROVE  Inv'
<1>1. AttOK'
  BY DEF Inv, AttOK
<1>2. ASSUME NEW b \in Actor PROVE AttKept(b)
  BY OthersKept
<1> QED
  BY <1>1, <1>2, KeptInv DEF Kept

LEMMA DisableInv == ASSUME Inv, NEW u \in User, DisableAutoMerge(u) PROVE Inv'
<1>1. RowOK' /\ RowKept
  BY FinishRowMeans DEF DisableAutoMerge
<1>2. ForgeOK' /\ HistoryOK' /\ BoundOK' /\ ForgeKept
  BY AutoMergeAssumption DEF DisableAutoMerge, Inv, ForgeOK, HistoryOK, BoundOK, ForgeKept
<1> QED
  BY <1>1, <1>2, NoAttemptInv DEF DisableAutoMerge

LEMMA HandleEndInv == ASSUME Inv, NEW e \in events, HandleEnd(e) PROVE Inv'
<1>1. RowOK' /\ RowKept
  <2>1. CASE e = "merged"
    BY <2>1, FinishRowMeans DEF HandleEnd, Inv, MergeSeen
  <2>2. CASE e # "merged"
    BY <2>2, FinishRowMeans DEF HandleEnd
  <2> QED
    BY <2>1, <2>2
<1>2. ForgeOK' /\ HistoryOK' /\ ForgeKept
  BY DEF HandleEnd, Inv, ForgeOK, HistoryOK, ForgeKept
<1>3. BoundOK'
  BY FaultBound DEF HandleEnd, Inv
<1> QED
  BY <1>1, <1>2, <1>3, NoAttemptInv DEF HandleEnd

-----------------------------------------------------------------------------
(* The forge and time.                                                     *)

LEMMA PeopleInv == ASSUME Inv, People PROVE Inv'
<1>1. ForgeOK' /\ ForgeKept
  <2>0. pull \in PullType /\ role \in SUBSET User /\ events \in SUBSET {"closed", "merged"} /\ UNCHANGED auto
    BY DEF Inv, ForgeOK, People
  <2>1. CASE UNCHANGED role /\ (Close \/ Reopen \/ Block \/ MergeByHand)
    BY <2>0, <2>1 DEF Close, Reopen, Block, MergeByHand, ForgeOK, ForgeKept, PullType
  <2>2. CASE UNCHANGED role /\ Push
    <3>1. PICK c \in {"none", "checks"} : pull' = [pull EXCEPT !.head = @ + 1, !.block = c]
      BY <2>2 DEF Push
    <3>2. pull.head + 1 \in Head
      BY <2>0, <2>2, AutoMergeAssumption DEF Push, PullType, Head
    <3> QED
      BY <2>0, <2>2, <3>1, <3>2 DEF Push, ForgeOK, ForgeKept, PullType
  <2>3. CASE (\E u \in role : role' = role \ {u}) /\ UNCHANGED <<pull, events>>
    BY <2>0, <2>3 DEF ForgeOK, ForgeKept
  <2> QED
    BY <2>1, <2>2, <2>3 DEF People
<1>2. RowOK' /\ RowKept /\ HistoryOK' /\ BoundOK'
  BY AutoMergeAssumption DEF People, Inv, RowOK, RowKept, Active, HistoryOK, BoundOK
<1> QED
  BY <1>1, <1>2, NoAttemptInv DEF People

LEMMA ExpireInv == ASSUME Inv, Expire PROVE Inv'
<1>1. RowOK' /\ RowKept
  <2>1. row \in RowType /\ row' = [row EXCEPT !.old = TRUE]
    BY DEF Expire, Inv, RowOK
  <2>2. /\ row' \in RowType /\ row'.state = row.state /\ row'.gen = row.gen /\ row'.head = row.head
        /\ row'.lease = row.lease
    BY <2>1 DEF RowType
  <2> QED
    BY <2>2 DEF Inv, RowOK, RowKept, Active
<1>2. ForgeOK' /\ HistoryOK' /\ BoundOK' /\ ForgeKept
  BY AutoMergeAssumption DEF Expire, Inv, ForgeOK, HistoryOK, BoundOK, ForgeKept
<1> QED
  BY <1>1, <1>2, NoAttemptInv DEF Expire

\* A claim that runs out under an attempt is lost.
LEMMA LeaseEndsInv == ASSUME Inv, LeaseEnds PROVE Inv'
<1>1. /\ row \in RowType /\ row' \in RowType /\ row'.state = "merging" /\ row.state = "merging"
      /\ row'.gen = row.gen /\ row'.head = row.head /\ row.gen \in 1..MaxArm /\ row.gen > 0
  <2>1. row \in RowType /\ row' = [row EXCEPT !.lease = FALSE] /\ row.state = "merging" /\ row.gen > 0
    BY DEF LeaseEnds, Inv, RowOK, Active
  <2>2. row' \in RowType /\ row'.state = row.state /\ row'.gen = row.gen /\ row'.head = row.head
    BY <2>1 DEF RowType
  <2>3. row.gen \in 0..MaxArm
    BY <2>1 DEF RowType
  <2> QED
    BY <2>1, <2>2, <2>3, AutoMergeAssumption
<1>2. lost \subseteq lost' /\ HistoryOK' /\ BoundOK'
  BY <1>1, FaultBound DEF LeaseEnds, Inv, HistoryOK
<1>3. ASSUME NEW b \in Actor, Holds(b)', att'[b].gen = row.gen PROVE row.gen \in lost'
  BY <1>3 DEF LeaseEnds, Holds
<1>4. RowOK' /\ RowKept
  BY <1>1, <1>3 DEF RowOK, RowKept, Active
<1>5. ForgeOK' /\ ForgeKept
  BY DEF LeaseEnds, Inv, ForgeOK, ForgeKept
<1> QED
  BY <1>2, <1>4, <1>5, NoAttemptInv DEF LeaseEnds

\* A new arming: claims that are still held are of earlier ones, and the new one
\* counts as lost when one of them is of the same head.
LEMMA ArmInv == ASSUME Inv, NEW u \in User, Arm(u) PROVE Inv'
<1> DEFINE h == att[u].head
           v == [att[u] EXCEPT !.pc = "get"]
<1>0. /\ u \in Actor /\ att[u] \in AttType /\ att[u].pc = "arm" /\ h \in Head /\ AttTo(u, v)
      /\ UNCHANGED <<pull, role, events, auto, moves, faults>>
  BY DEF Arm, AttPc, Inv, AttOK, HeadsArmed, Actor
<1>1. v \in AttType /\ v.pc = "get"
  BY <1>0 DEF AttType, Pc
<1> HIDE DEF v
<1>2. AttOK' /\ att'[u] = v /\ \A b \in Actor \ {u} : att'[b] = att[b]
  BY <1>0, <1>1, AttToMeans DEF Inv
<1>3. row.gen \in 0..MaxArm /\ row.gen < MaxArm /\ row.gen + 1 \in 1..MaxArm
  BY AutoMergeAssumption DEF Arm, Inv, RowOK, RowType
<1>4. /\ row' \in RowType /\ row'.state = "armed" /\ row'.head = h /\ row'.gen = row.gen + 1
      /\ armed' = armed \cup {h} /\ lost \subseteq lost' /\ lost' \subseteq lost \cup {row.gen + 1}
  BY <1>0, <1>3 DEF Arm, RowType
<1>5. ASSUME NEW b \in Actor, Holds(b), att[b].head = h PROVE row.gen + 1 \in lost'
  BY <1>5 DEF Arm
<1>6. ASSUME NEW b \in Actor, Holds(b)' PROVE Holds(b) /\ att'[b] = att[b] /\ att[b].gen <= row.gen
  BY <1>1, <1>2, <1>6 DEF Inv, Holds, ClaimKept
<1>7. ForgeOK' /\ RowOK' /\ HistoryOK' /\ BoundOK'
  BY <1>0, <1>3, <1>4 DEF Inv, ForgeOK, RowOK, HistoryOK, BoundOK
<1>8. HeadsArmed' /\ MergeSeen'
  BY <1>0, <1>1, <1>2, <1>4 DEF Inv, HeadsArmed, MergeSeen, Informed
<1>9. ClaimKept'
  <2> SUFFICES ASSUME NEW b \in Actor, Holds(b)'
               PROVE  att'[b].gen < row'.gen /\ (att'[b].head = row'.head => row'.gen \in lost')
    BY <1>2, <1>4 DEF ClaimKept, AttOK, AttType, RowType
  <2>1. Holds(b) /\ att'[b] = att[b] /\ att[b].gen <= row.gen /\ att[b].gen \in Int
    BY <1>6 DEF Inv, AttOK, AttType
  <2> QED
    BY <1>3, <1>4, <1>5, <2>1
<1>10. HoldsAlone'
  BY <1>4, <1>6 DEF Inv, HoldsAlone
<1>11. OnlyArmedHead' /\ MergedIsTrue'
  BY <1>0, <1>4 DEF Inv, OnlyArmedHead, MergedIsTrue
<1> QED
  BY <1>2, <1>7, <1>8, <1>9, <1>10, <1>11 DEF Inv

-----------------------------------------------------------------------------
LEMMA InitInv == Init => Inv
<1> SUFFICES ASSUME Init PROVE Inv
  OBVIOUS
<1>1. AttOK /\ \A a \in Actor : att[a].pc = "idle"
  BY NoAttType DEF Init, AttOK
<1>2. ForgeOK /\ HistoryOK /\ BoundOK
  <2>1. pull \in PullType
    BY AutoMergeAssumption DEF Init, PullType, Head
  <2>2. ForgeOK
    BY <2>1 DEF Init, ForgeOK
  <2>3. HistoryOK
    BY DEF Init, HistoryOK
  <2>4. BoundOK
    BY AutoMergeAssumption DEF Init, BoundOK
  <2> QED
    BY <2>2, <2>3, <2>4
<1>3. RowOK /\ ~Active /\ row.state = "none"
  BY AutoMergeAssumption DEF Init, RowOK, RowType, Active, NoUser
<1>4. ~auto /\ events = {}
  BY DEF Init
<1>5. HeadsArmed /\ ClaimKept /\ HoldsAlone
  BY <1>1, <1>3 DEF HeadsArmed, ClaimKept, HoldsAlone, Holds, Informed
<1>6. MergeSeen /\ OnlyArmedHead /\ MergedIsTrue
  BY <1>1, <1>3, <1>4 DEF MergeSeen, OnlyArmedHead, MergedIsTrue
<1> QED
  BY <1>1, <1>2, <1>3, <1>5, <1>6 DEF Inv

LEMMA NextInv == Inv /\ [Next]_vars => Inv'
<1> SUFFICES ASSUME Inv, [Next]_vars PROVE Inv'
  OBVIOUS
<1>1. ASSUME NEW u \in User, EnableAutoMerge(u) \/ Arm(u) \/ DisableAutoMerge(u) PROVE Inv'
  BY <1>1, EnableInv, ArmInv, DisableInv
<1>2. ASSUME NEW w \in Worker, Start(w) PROVE Inv'
  BY <1>2, StartInv
<1>3. ASSUME NEW a \in Actor, Step(a) \/ Crash(a) PROVE Inv'
  BY <1>3, GetInv, GetPullInv, AuthorizeInv, AssessInv, ClaimInv, MergePullInv, ReadAgainInv, ReleaseInv, FinishInv,
     CrashInv DEF Step
<1>4. ASSUME NEW e \in events, HandleEnd(e) PROVE Inv'
  BY <1>4, HandleEndInv
<1>5. CASE People \/ Expire \/ LeaseEnds
  BY <1>5, PeopleInv, ExpireInv, LeaseEndsInv
<1>6. CASE UNCHANGED vars
  <2>1. RowKept /\ ForgeKept /\ ForgeOK' /\ RowOK' /\ HistoryOK' /\ BoundOK'
    BY <1>6 DEF vars, Inv, RowKept, ForgeKept, Active, ForgeOK, RowOK, HistoryOK, BoundOK
  <2> QED
    BY <1>6, <2>1, NoAttemptInv DEF vars
<1> QED
  BY <1>1, <1>2, <1>3, <1>4, <1>5, <1>6 DEF Next

LEMMA InvAlways == Spec => []Inv
BY InitInv, NextInv, PTL DEF Spec

\* Every variable of auto-merge keeps its type: the row and the attempts name heads,
\* users and generations that exist.
THEOREM AutoMergeTypeCorrect == Spec => []TypeOK
<1>1. Inv => TypeOK
  BY DEF Inv, TypeOK, ForgeOK, RowOK, AttOK, HistoryOK, BoundOK, PullType, RowType, AttType, Pc
<1> QED
  BY <1>1, InvAlways, PTL

\* An attempt merges only a head that was armed: what MergePull names was read
\* from the row, and a merged pull request is not pushed to.
THEOREM ArmedHeadOnly == Spec => []OnlyArmedHead
<1>1. Inv => OnlyArmedHead
  BY DEF Inv
<1> QED
  BY <1>1, InvAlways, PTL

\* The row says merged only of a pull request that is merged, whichever attempt
\* or late event wrote it.
THEOREM MergedTruly == Spec => []MergedIsTrue
<1>1. Inv => MergedIsTrue
  BY DEF Inv
<1> QED
  BY <1>1, InvAlways, PTL

\* Two attempts of one arming never merge at the same time, unless its claim was
\* lost or an earlier merge of the head is still out.
THEOREM MergesExclusive == Spec => []MergesAlone
<1>1. Inv => MergesAlone
  BY DEF Inv, HoldsAlone, Holds, MergesAlone
<1> QED
  BY <1>1, InvAlways, PTL

\* What was merged or cancelled stays so until it is armed again: Finish, Release
\* and Claim are conditional on the state they leave.
THEOREM DisarmedForGood == Spec => DisarmedStays
<1>1. Inv /\ [Next]_vars =>
        [row.state \in {"merged", "cancelled"} => row'.state = row.state \/ row'.gen > row.gen]_vars
  <2> SUFFICES ASSUME Inv, Next, row.state \in {"merged", "cancelled"}
               PROVE  row'.state = row.state \/ row'.gen > row.gen
    BY DEF vars
  <2>1. ~Active /\ row.state # "merging" /\ row.state # "armed" /\ row.gen \in Int
    BY DEF Active, Inv, RowOK, RowType
  <2>2. ASSUME NEW u \in User, EnableAutoMerge(u) \/ Arm(u) \/ DisableAutoMerge(u)
        PROVE  row'.state = row.state \/ row'.gen > row.gen
    BY <2>1, <2>2 DEF EnableAutoMerge, Arm, DisableAutoMerge
  <2>3. ASSUME NEW w \in Worker, Start(w) PROVE UNCHANGED row
    BY <2>1, <2>3 DEF Start
  <2>4. ASSUME NEW a \in Actor, Step(a) \/ Crash(a) PROVE UNCHANGED row
    BY <2>1, <2>4 DEF Step, Get, GetPull, Authorize, Assess, Claim, MergePull, ReadAgain, Release, ReleaseRow, Finish,
       FinishRow, Crash
  <2>5. ASSUME NEW e \in events, HandleEnd(e) PROVE UNCHANGED row
    BY <2>1, <2>5 DEF HandleEnd, FinishRow
  <2>6. CASE People \/ Expire \/ LeaseEnds
    BY <2>1, <2>6 DEF People, Expire, LeaseEnds
  <2> QED
    BY <2>2, <2>3, <2>4, <2>5, <2>6 DEF Next
<1> QED
  BY <1>1, InvAlways, PTL DEF Spec, DisarmedStays
=============================================================================

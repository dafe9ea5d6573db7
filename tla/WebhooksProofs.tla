--------------------------- MODULE WebhooksProofs ---------------------------
(***************************************************************************)
(* What the road of a git event promises, for any number of processes,     *)
(* webhooks, events, deliveries and faults: one delivery per event and     *)
(* webhook, none forgotten, and none sent too often or decided twice.      *)
(***************************************************************************)
EXTENDS Webhooks, TLAPS, WellFoundedInduction

EventType == [state : {"new", "recorded", "dispatched"}, fails : Nat]
DispType == [pc : {"idle", "match", "insert", "give up"}, event : Event \cup {"none"}, hooks : SUBSET Hook,
             ok : BOOLEAN, left : SUBSET Event]
HookType == [state : {"none", "live", "deleted"}, active : BOOLEAN]
RowStatus == {"none", "pending", "gone"} \cup Final
RowType == [hook : Hook \cup {"none"}, event : Event \cup {"none"}, kind : {"none", "event", "redelivery", "test"},
            status : RowStatus, attempt : 0..MaxAttempts, due : BOOLEAN, late : BOOLEAN]
AttType == [pc : {"none", "get", "send", "disable", "record"}, n : 0..MaxAttempts, out : {"none", "pending"} \cup Final]
CallType == [pc : {"idle", "create", "update", "redeliver", "test"}, hook : Hook \cup {"none"}, row : Row \cup {0},
             active : BOOLEAN]

-----------------------------------------------------------------------------
(* The inductive invariant.                                                *)

BoundOK == project \in BOOLEAN /\ calls \in 0..MaxCalls /\ faults \in 0..MaxFaults

\* A webhook that was active from the start is so.
HookOK ==
    /\ hook \in [Hook -> HookType] /\ steady \in [Hook -> BOOLEAN]
    /\ \A h \in Hook : steady[h] => hook[h].state = "live" /\ hook[h].active

\* An event is handed on when it is recorded.
EventOK ==
    /\ event \in [Event -> EventType] /\ handled \in [Event -> Nat]
    /\ \A e \in Event : handled[e] <= 1 /\ (event[e].state = "new" => handled[e] = 0)

\* A call in progress has read a webhook, and Redeliver a row.
CallOK ==
    /\ call \in [Client -> CallType]
    /\ \A c \in Client : call[c].pc # "idle" => call[c].hook \in Hook
    /\ \A c \in Client : call[c].pc = "redeliver" => call[c].row \in Row

\* A delivery has a webhook, and is gone only with it; there is one of an event per webhook.
RowOK ==
    /\ row \in [Row -> RowType]
    /\ \A r \in Row : row[r].status = "none" => row[r].kind = "none" /\ row[r].hook = "none"
    /\ \A r \in Row : row[r].status # "none" => row[r].kind # "none" /\ row[r].hook \in Hook
    /\ \A r \in Row : row[r].status = "gone" => hook[row[r].hook].state = "deleted"
    /\ \A r \in Row : row[r].status = "pending" => row[r].attempt < MaxAttempts
    /\ \A q, r \in Row : row[q].kind = "event" /\ row[r].kind = "event" /\ row[q].hook = row[r].hook
                            /\ row[q].event = row[r].event => q = r

HasRow(h, e) == \E r \in Row : row[r].hook = h /\ row[r].event = e /\ row[r].kind = "event"

\* A dispatch without an error so far has served every webhook it has not before it.
DispGood(d) ==
    /\ disp[d].pc # "idle" => disp[d].event \in Event
    /\ disp[d].pc = "give up" => event[disp[d].event].fails >= maxAttempts
    /\ disp[d].pc = "insert" /\ disp[d].ok =>
          \A h \in Hook : steady[h] /\ h \notin disp[d].hooks => HasRow(h, disp[d].event)

DispOK == disp \in [Dispatcher -> DispType] /\ \A d \in Dispatcher : DispGood(d)

\* An attempt is of a delivery that was made, knows its outcome when it records one,
\* and retries only below MaxAttempts; clients attempt their tests only.
AttGood(a, r) ==
    /\ att[a][r].pc # "none" => row[r].status # "none" /\ (a \in Client => row[r].kind = "test")
    /\ att[a][r].pc = "get" \/ att[a][r].out = "pending" => att[a][r].n < MaxAttempts
    /\ att[a][r].pc = "disable" => att[a][r].out = "abandoned"
    /\ att[a][r].pc = "record" => att[a][r].out # "none"

AttOK == att \in [Sender -> [Row -> AttType]] /\ \A a \in Sender, r \in Row : AttGood(a, r)

Used == MaxFaults - faults
Held(r) == ~row[r].late /\ row[r].kind # "test"

\* An attempt knows its number, and how often the delivery was sent before or with it.
Numbered(a, r) ==
    /\ att[a][r].pc = "get" => att[a][r].n = row[r].attempt /\ sends[r] <= row[r].attempt + Used
    /\ att[a][r].pc = "send" => att[a][r].n = row[r].attempt + 1 /\ sends[r] <= row[r].attempt + Used
    /\ att[a][r].pc \in {"disable", "record"} => att[a][r].n <= row[r].attempt + 1 /\ sends[r] <= att[a][r].n + Used

\* While the lease of a delivery holds it is attempted by one sender; requests beyond the
\* number of attempts were paid for by faults.
Lease(r) ==
    /\ sends[r] <= MaxAttempts + Used
    /\ row[r].status = "pending" /\ ~InFlight(r) => sends[r] <= row[r].attempt + Used
    /\ InFlight(r) => ~row[r].due /\ row[r].status \in {"pending", "gone"}
    /\ \A a, b \in Sender : att[a][r].pc # "none" /\ att[b][r].pc # "none" => a = b
    /\ \A a \in Sender : Numbered(a, r)

LeaseOK ==
    /\ sends \in [Row -> Nat]
    /\ \A r \in Row : row[r].status = "none" => sends[r] = 0
    /\ \A r \in Row : Held(r) => Lease(r)

Inv == BoundOK /\ HookOK /\ EventOK /\ CallOK /\ RowOK /\ DispOK /\ AttOK /\ LeaseOK /\ FanOutComplete

-----------------------------------------------------------------------------
(* What a step may do without disturbing the parts.                        *)

\* Deliveries are added and decided, and never become another's.
RowsGrow ==
    \A r \in Row : row[r].status # "none" =>
       /\ row'[r].status # "none" /\ row'[r].hook = row[r].hook /\ row'[r].event = row[r].event
       /\ row'[r].kind = row[r].kind

SteadyShrinks == \A h \in Hook : steady'[h] => steady[h]
FailsGrow == \A e \in Event : event'[e].fails >= event[e].fails

LEMMA HasRowKept == ASSUME RowOK, RowsGrow, NEW h, NEW e, HasRow(h, e) PROVE HasRow(h, e)'
BY DEF RowOK, RowsGrow, HasRow

LEMMA StillEnough == \A x, y, z \in Nat : x >= z /\ y >= x => y >= z
OBVIOUS

LEMMA DispGoodKept ==
    ASSUME RowOK, RowsGrow, SteadyShrinks, FailsGrow, EventOK, EventOK', DispOK, NEW d \in Dispatcher, disp'[d] = disp[d]
    PROVE  DispGood(d)'
<1>1. disp[d] \in DispType /\ DispGood(d)
  BY DEF DispOK
<1>2. disp[d].pc = "give up" => event'[disp[d].event].fails >= maxAttempts
  <2> SUFFICES ASSUME disp[d].pc = "give up" PROVE event'[disp[d].event].fails >= maxAttempts
    OBVIOUS
  <2>1. PICK e \in Event : e = disp[d].event
    BY <1>1 DEF DispGood
  <2>2. event[e].fails >= maxAttempts /\ event'[e].fails >= event[e].fails
    BY <1>1, <2>1 DEF DispGood, FailsGrow
  <2>3. event[e].fails \in Nat /\ event'[e].fails \in Nat /\ maxAttempts \in Nat
    BY WebhooksAssumption DEF EventOK, EventType
  <2>4. event'[e].fails >= maxAttempts
    BY <2>2, <2>3, StillEnough
  <2> QED
    BY <2>1, <2>4
<1>3. \A h \in Hook : HasRow(h, disp[d].event) => HasRow(h, disp[d].event)'
  <2> SUFFICES ASSUME NEW h \in Hook, HasRow(h, disp[d].event) PROVE HasRow(h, disp[d].event)'
    OBVIOUS
  <2>1. PICK e : e = disp[d].event
    OBVIOUS
  <2>2. HasRow(h, e)'
    BY <2>1, HasRowKept
  <2> QED
    BY <2>1, <2>2 DEF HasRow
<1> QED
  BY <1>1, <1>2, <1>3 DEF DispGood, SteadyShrinks

\* No dispatch changed.
LEMMA DispKept ==
    ASSUME DispOK, UNCHANGED disp, RowOK, RowsGrow, SteadyShrinks, FailsGrow, EventOK, EventOK'
    PROVE  DispOK'
<1>1. \A d \in Dispatcher : DispGood(d)'
  BY DispGoodKept
<1> QED
  BY <1>1 DEF DispOK

\* One dispatch changed.
LEMMA DispToMeans ==
    ASSUME DispOK, NEW d \in Dispatcher, NEW v \in DispType, DispTo(d, v), disp'[d] = v => DispGood(d)',
           RowOK, RowsGrow, SteadyShrinks, FailsGrow, EventOK, EventOK'
    PROVE  DispOK'
<1>1. disp' \in [Dispatcher -> DispType] /\ disp'[d] = v /\ \A x \in Dispatcher \ {d} : disp'[x] = disp[x]
  BY DEF DispOK, DispTo
<1>2. \A x \in Dispatcher : DispGood(x)'
  BY <1>1, DispGoodKept
<1> QED
  BY <1>1, <1>2 DEF DispOK

LEMMA FanOutKept ==
    ASSUME FanOutComplete, RowOK, RowsGrow, SteadyShrinks, FailsGrow, EventOK, EventOK', project' => project,
           \A e \in Event : event'[e].state = "dispatched" /\ event'[e].fails < maxAttempts /\ project =>
              event[e].state = "dispatched" \/ \A h \in Hook : steady'[h] => HasRow(h, e)'
    PROVE  FanOutComplete'
<1> SUFFICES ASSUME NEW e \in Event, NEW h \in Hook, event'[e].state = "dispatched", event'[e].fails < maxAttempts,
                    project', steady'[h]
             PROVE  HasRow(h, e)'
  BY DEF FanOutComplete, HasRow
<1>1. CASE event[e].state = "dispatched"
  <2>1. event[e].fails < maxAttempts
    <3>1. event[e].fails \in Nat /\ event'[e].fails \in Nat /\ maxAttempts \in Nat /\ event'[e].fails >= event[e].fails
      BY WebhooksAssumption DEF EventOK, EventType, FailsGrow
    <3> QED
      BY <3>1
  <2>2. HasRow(h, e)
    BY <1>1, <2>1 DEF FanOutComplete, HasRow, SteadyShrinks
  <2> QED
    BY <2>2, HasRowKept
<1> QED
  BY <1>1

\* The attempts are as they were.
LEMMA AttKept == ASSUME AttOK, UNCHANGED att, RowOK, RowsGrow PROVE AttOK'
BY DEF AttOK, AttGood, RowsGrow

FaultsOnly == faults \in Int /\ faults' \in Int /\ faults' <= faults

LEMMA FaultMeans == ASSUME BoundOK, Fault \/ UNCHANGED faults PROVE FaultsOnly /\ faults' \in 0..MaxFaults
<1>1. faults \in 0..MaxFaults /\ MaxFaults \in Nat
  BY WebhooksAssumption DEF BoundOK
<1> QED
  BY <1>1 DEF Fault, FaultsOnly

\* The types behind the counts of a delivery.
LEMMA RowNumbers ==
    ASSUME RowOK, AttOK, LeaseOK, NEW r \in Row
    PROVE  /\ sends[r] \in Nat /\ row[r].attempt \in Nat /\ row[r].attempt <= MaxAttempts /\ MaxAttempts \in Nat \ {0}
           /\ MaxFaults \in Nat
           /\ \A a \in Sender : att[a][r].n \in Nat /\ att[a][r].n <= MaxAttempts
<1>1. MaxAttempts \in Nat \ {0} /\ MaxFaults \in Nat
  BY WebhooksAssumption
<1>2. row[r].attempt \in 0..MaxAttempts /\ sends[r] \in Nat /\ \A a \in Sender : att[a][r].n \in 0..MaxAttempts
  BY DEF RowOK, RowType, AttOK, AttType, LeaseOK
<1> QED
  BY <1>1, <1>2

\* A delivery that a step leaves alone keeps its lease, whatever fault happens elsewhere.
LEMMA LeaseAlone ==
    ASSUME RowOK, AttOK, LeaseOK, FaultsOnly, NEW r \in Row, row'[r] = row[r], sends'[r] = sends[r],
           \A a \in Sender : att'[a][r] = att[a][r] \/ (att'[a][r].pc = "none" /\ att[a][r].pc = "none"), Held(r)'
    PROVE  Lease(r)'
<1>0. Held(r) /\ Lease(r) /\ (InFlight(r)' <=> InFlight(r))
  BY DEF Held, LeaseOK, InFlight
<1>1. Used \in Int /\ Used' \in Int /\ Used' >= Used
  BY RowNumbers DEF Used, FaultsOnly
<1>2. sends'[r] <= MaxAttempts + Used'
  BY <1>0, <1>1, RowNumbers DEF Lease
<1>3. row'[r].status = "pending" /\ ~InFlight(r)' => sends'[r] <= row'[r].attempt + Used'
  <2>1. row[r].status = "pending" /\ ~InFlight(r) => sends[r] <= row[r].attempt + Used
    BY <1>0 DEF Lease
  <2>2. sends[r] <= row[r].attempt + Used => sends[r] <= row[r].attempt + Used'
    BY <1>1, RowNumbers
  <2> QED
    BY <1>0, <2>1, <2>2
<1>4. \A a \in Sender : Numbered(a, r)'
  <2> SUFFICES ASSUME NEW a \in Sender PROVE Numbered(a, r)'
    OBVIOUS
  <2>1. Numbered(a, r) /\ att[a][r].n \in Nat /\ (att'[a][r] = att[a][r] \/ att'[a][r].pc = "none")
    BY <1>0, RowNumbers DEF Lease
  <2>2. /\ sends[r] <= row[r].attempt + Used => sends[r] <= row[r].attempt + Used'
        /\ sends[r] <= att[a][r].n + Used => sends[r] <= att[a][r].n + Used'
    BY <1>1, <2>1, RowNumbers
  <2> QED
    BY <2>1, <2>2 DEF Numbered
<1>5. /\ InFlight(r)' => ~row'[r].due /\ row'[r].status \in {"pending", "gone"}
      /\ \A a, b \in Sender : att'[a][r].pc # "none" /\ att'[b][r].pc # "none" => a = b
  BY <1>0 DEF Lease
<1> QED
  BY <1>2, <1>3, <1>4, <1>5 DEF Lease

LEMMA LeaseKept ==
    ASSUME RowOK, AttOK, LeaseOK, FaultsOnly, UNCHANGED <<row, sends, att>>
    PROVE  LeaseOK'
<1>1. \A r \in Row : Held(r)' => Lease(r)'
  BY LeaseAlone
<1> QED
  BY <1>1 DEF LeaseOK
\* The delivery a step is about, when only its row, its count or one attempt of it changed.
LEMMA LeaseOthers ==
    ASSUME RowOK, AttOK, LeaseOK, FaultsOnly, NEW r \in Row, sends' \in [Row -> Nat],
           \A q \in Row \ {r} : /\ row'[q] = row[q] /\ sends'[q] = sends[q]
                                /\ \A a \in Sender : att'[a][q] = att[a][q]
                                                      \/ (att'[a][q].pc = "none" /\ att[a][q].pc = "none"),
           row'[r].status = "none" => sends'[r] = 0,
           Held(r)' => Lease(r)'
    PROVE  LeaseOK'
<1>1. \A q \in Row : Held(q)' => Lease(q)'
  BY LeaseAlone
<1>2. \A q \in Row : row'[q].status = "none" => sends'[q] = 0
  BY DEF LeaseOK
<1> QED
  BY <1>1, <1>2 DEF LeaseOK

LEMMA AttToMeans ==
    ASSUME AttOK, NEW a \in Sender, NEW r \in Row, NEW v \in AttType, AttTo(a, r, v)
    PROVE  /\ att' \in [Sender -> [Row -> AttType]] /\ att'[a][r] = v
           /\ \A b \in Sender, q \in Row : b # a \/ q # r => att'[b][q] = att[b][q]
BY DEF AttOK, AttTo

\* One attempt changed.
LEMMA AttToKept ==
    ASSUME AttOK, RowOK, RowsGrow, NEW a \in Sender, NEW r \in Row, NEW v \in AttType, AttTo(a, r, v),
           att'[a][r] = v => AttGood(a, r)'
    PROVE  AttOK'
<1>1. /\ att' \in [Sender -> [Row -> AttType]] /\ att'[a][r] = v
      /\ \A b \in Sender, q \in Row : b # a \/ q # r => att'[b][q] = att[b][q]
  BY AttToMeans
<1>2. \A b \in Sender, q \in Row : b # a \/ q # r => AttGood(b, q)'
  <2> SUFFICES ASSUME NEW b \in Sender, NEW q \in Row, b # a \/ q # r PROVE AttGood(b, q)'
    OBVIOUS
  <2>1. att'[b][q] = att[b][q] /\ AttGood(b, q)
    BY <1>1 DEF AttOK
  <2> QED
    BY <2>1 DEF AttGood, RowsGrow
<1> QED
  BY <1>1, <1>2 DEF AttOK

\* The sender that attempts a delivery whose lease holds does so alone: what its step must keep.
LEMMA LeaseOne ==
    ASSUME RowOK, AttOK, LeaseOK, NEW a \in Sender, NEW r \in Row, NEW v \in AttType, AttTo(a, r, v),
           Held(r), att[a][r].pc # "none",
           sends'[r] <= MaxAttempts + Used',
           v.pc = "none" /\ row'[r].status = "pending" => sends'[r] <= row'[r].attempt + Used',
           v.pc # "none" => ~row'[r].due /\ row'[r].status \in {"pending", "gone"},
           att'[a][r] = v => Numbered(a, r)'
    PROVE  Lease(r)'
<1>1. Lease(r)
  BY DEF LeaseOK
<1>2. att'[a][r] = v /\ \A b \in Sender : b # a => att'[b][r].pc = "none"
  <2>1. \A b \in Sender : b # a => att[b][r].pc = "none" /\ att'[b][r] = att[b][r]
    BY <1>1, AttToMeans DEF Lease
  <2> QED
    BY <2>1, AttToMeans
<1>3. \A b \in Sender : Numbered(b, r)'
  BY <1>2 DEF Numbered
<1>4. InFlight(r)' <=> v.pc # "none"
  BY <1>2 DEF InFlight
<1>5. \A b, c \in Sender : att'[b][r].pc # "none" /\ att'[c][r].pc # "none" => b = c
  BY <1>2
<1> QED
  BY <1>3, <1>4, <1>5 DEF Lease

-----------------------------------------------------------------------------
(* A delivery is inserted.                                                 *)

LEMMA NewRowMeans == ASSUME Unused # {} PROVE NewRow \in Unused
<1>1. Unused \subseteq Nat
  BY WebhooksAssumption DEF Unused, Row
<1> DEFINE R == {ss \in Nat \X Nat : ss[1] < ss[2]}
<1>2. IsWellFoundedOn(R, Nat)
  BY NatLessThanWellFounded, Zenon DEF OpToRel
<1>3. PICK r \in Unused : \A q \in Unused : ~(<<q, r>> \in R)
  <2> HIDE DEF R
  <2> QED
    BY <1>1, <1>2, WFMin
<1>4. \A q \in Unused : r <= q
  <2> SUFFICES ASSUME NEW q \in Unused PROVE ~(q < r)
    BY <1>1
  <2>1. r \in Nat /\ q \in Nat /\ <<q, r>> \notin R
    BY <1>1, <1>3
  <2> QED
    BY <2>1
<1> QED
  BY <1>4 DEF NewRow

\* The rows are as they were, or one that was unused is a new delivery of a webhook that is there.
Inserted(h, e, kind) ==
    \E r \in Row :
       /\ row[r].status = "none"
       /\ row' = [row EXCEPT ![r] = [hook |-> h, event |-> e, kind |-> kind, status |-> "pending",
                                     attempt |-> 0, due |-> TRUE, late |-> FALSE]]
       /\ kind = "event" => ~\E q \in Row : row[q].hook = h /\ row[q].event = e /\ row[q].kind = "event"

LEMMA InsertMeans ==
    ASSUME RowOK, NEW h \in Hook, NEW e \in Event \cup {"none"}, NEW kind \in {"event", "redelivery", "test"},
           Live(h), InsertDelivery(h, e, kind)
    PROVE  (UNCHANGED row /\ kind = "event" /\ HasRow(h, e)) \/ Inserted(h, e, kind)
<1> DEFINE known == kind = "event" /\ \E r \in Row : row[r].hook = h /\ row[r].event = e /\ row[r].kind = "event"
                                                      /\ row[r].status # "gone"
<1>1. CASE known
  BY <1>1 DEF InsertDelivery, HasRow
<1>2. CASE ~known
  <2>1. Unused # {} /\ Insert(h, e, kind)
    BY <1>2 DEF InsertDelivery
  <2>2. NewRow \in Row /\ row[NewRow].status = "none"
    BY <2>1, NewRowMeans DEF Unused
  <2>3. kind = "event" => ~\E q \in Row : row[q].hook = h /\ row[q].event = e /\ row[q].kind = "event"
    BY <1>2 DEF RowOK, Live
  <2> QED
    BY <2>1, <2>2, <2>3 DEF Insert, Inserted
<1> QED
  BY <1>1, <1>2

LEMMA InsertedMeans ==
    ASSUME RowOK, UNCHANGED hook, NEW h \in Hook, NEW e \in Event \cup {"none"},
           NEW kind \in {"event", "redelivery", "test"}, Inserted(h, e, kind)
    PROVE  /\ RowOK' /\ RowsGrow /\ (kind = "event" => HasRow(h, e)')
           /\ \E r \in Row : /\ row[r].status = "none" /\ row'[r].status = "pending" /\ row'[r].kind = kind
                             /\ row'[r].attempt = 0 /\ \A q \in Row \ {r} : row'[q] = row[q]
<1> DEFINE new == [hook |-> h, event |-> e, kind |-> kind, status |-> "pending",
                   attempt |-> 0, due |-> TRUE, late |-> FALSE]
<1>1. PICK r \in Row : row[r].status = "none" /\ row' = [row EXCEPT ![r] = new] /\
                       (kind = "event" => ~\E q \in Row : row[q].hook = h /\ row[q].event = e /\ row[q].kind = "event")
  BY DEF Inserted
<1>2. 0 \in 0..MaxAttempts /\ 0 < MaxAttempts
  BY WebhooksAssumption
<1>3. new \in RowType /\ new.hook = h /\ new.event = e /\ new.kind = kind /\ new.status = "pending" /\ new.attempt = 0
  BY <1>2 DEF RowType, RowStatus
<1> HIDE DEF new
<1>4. row' \in [Row -> RowType] /\ row'[r] = new /\ \A q \in Row \ {r} : row'[q] = row[q]
  BY <1>1, <1>3 DEF RowOK
<1>5. RowOK'
  <2>1. /\ \A q \in Row : row'[q].status = "none" => row'[q].kind = "none" /\ row'[q].hook = "none"
        /\ \A q \in Row : row'[q].status # "none" => row'[q].kind # "none" /\ row'[q].hook \in Hook
        /\ \A q \in Row : row'[q].status = "gone" => hook'[row'[q].hook].state = "deleted"
    BY <1>3, <1>4 DEF RowOK
  <2>2. \A q \in Row : row'[q].status = "pending" => row'[q].attempt < MaxAttempts
    BY <1>2, <1>3, <1>4 DEF RowOK
  <2>3. \A p, q \in Row : row'[p].kind = "event" /\ row'[q].kind = "event" /\ row'[p].hook = row'[q].hook
                            /\ row'[p].event = row'[q].event => p = q
    BY <1>1, <1>3, <1>4 DEF RowOK
  <2> QED
    BY <1>4, <2>1, <2>2, <2>3 DEF RowOK
<1>6. RowsGrow
  BY <1>1, <1>4 DEF RowsGrow
<1>7. kind = "event" => HasRow(h, e)'
  BY <1>3, <1>4 DEF HasRow
<1> QED
  BY <1>1, <1>3, <1>4, <1>5, <1>6, <1>7
-----------------------------------------------------------------------------
(* What a step leaves alone.                                               *)

LEMMA RowsSame == ASSUME RowOK, UNCHANGED row PROVE RowsGrow
BY DEF RowsGrow

LEMMA SteadySame == ASSUME UNCHANGED steady PROVE SteadyShrinks
BY DEF SteadyShrinks

LEMMA FailsSame == ASSUME EventOK, UNCHANGED event PROVE FailsGrow
BY DEF FailsGrow, EventOK, EventType

\* A webhook that is deleted stays deleted, and so do its deliveries.
LEMMA RowKept ==
    ASSUME RowOK, UNCHANGED row, \A h \in Hook : hook[h].state = "deleted" => hook'[h].state = "deleted"
    PROVE  RowOK'
BY DEF RowOK

LEMMA HookKept == ASSUME HookOK, UNCHANGED <<hook, steady>> PROVE HookOK'
BY DEF HookOK

LEMMA EventKept == ASSUME EventOK, UNCHANGED <<event, handled>> PROVE EventOK'
BY DEF EventOK

LEMMA CallKept == ASSUME CallOK, UNCHANGED call PROVE CallOK'
BY DEF CallOK

\* Nothing is marked as dispatched.
LEMMA FanOutSame ==
    ASSUME FanOutComplete, RowOK, RowsGrow, SteadyShrinks, EventOK, UNCHANGED <<event, project>>
    PROVE  FanOutComplete'
<1> SUFFICES ASSUME NEW e \in Event, NEW h \in Hook, event[e].state = "dispatched", event[e].fails < maxAttempts,
                    project, steady'[h]
             PROVE  HasRow(h, e)'
  BY DEF FanOutComplete, HasRow
<1>1. HasRow(h, e)
  BY DEF FanOutComplete, HasRow, SteadyShrinks
<1> QED
  BY <1>1, HasRowKept

-----------------------------------------------------------------------------
(* The bus.                                                                *)

LEMMA MarkMeans ==
    ASSUME EventOK, NEW e \in Event, Mark(e), UNCHANGED handled
    PROVE  /\ EventOK' /\ FailsGrow
           /\ \A x \in Event : event'[x].fails = event[x].fails /\ (x # e => event'[x] = event[x])
<1>1. /\ event' \in [Event -> EventType]
      /\ \A x \in Event : event'[x].fails = event[x].fails /\ (x # e => event'[x] = event[x])
      /\ event'[e].state = "dispatched"
  BY DEF EventOK, EventType, Mark
<1>2. FailsGrow
  BY <1>1 DEF FailsGrow, EventOK, EventType
<1>3. EventOK'
  BY <1>1 DEF EventOK
<1> QED
  BY <1>1, <1>2, <1>3

LEMMA FailMeans ==
    ASSUME EventOK, NEW e \in Event, event' = [event EXCEPT ![e].fails = @ + 1], UNCHANGED handled
    PROVE  /\ EventOK' /\ FailsGrow /\ \A x \in Event : event'[x].state = event[x].state
           /\ event'[e].fails = event[e].fails + 1
<1>1. event[e] \in EventType /\ event \in [Event -> EventType]
  BY DEF EventOK
<1>2. /\ event'[e] = [event[e] EXCEPT !.fails = @ + 1] /\ \A x \in Event \ {e} : event'[x] = event[x]
      /\ event' \in [Event -> EventType]
  BY <1>1 DEF EventType
<1>3. event'[e].fails = event[e].fails + 1 /\ event'[e].state = event[e].state /\ event[e].fails \in Nat
  BY <1>1, <1>2 DEF EventType
<1>4. FailsGrow
  <2>1. \A x \in Event : event[x].fails \in Nat /\ (x = e \/ event'[x].fails = event[x].fails)
    BY <1>1, <1>2 DEF EventType
  <2> QED
    BY <1>3, <2>1 DEF FailsGrow
<1>5. EventOK'
  BY <1>2, <1>3 DEF EventOK
<1> QED
  BY <1>2, <1>3, <1>4, <1>5

LEMMA IdleDispatch ==
    ASSUME DispOK, NEW d \in Dispatcher, NEW v \in DispType, DispTo(d, v), v.pc = "idle",
           RowOK, RowsGrow, SteadyShrinks, FailsGrow, EventOK, EventOK'
    PROVE  DispOK'
<1>1. disp'[d] = v => DispGood(d)'
  BY DEF DispGood
<1> QED
  BY <1>1, DispToMeans

\* A step of a dispatch that makes no delivery.
LEMMA DispatchFrame ==
    ASSUME Inv, NotDispatching, UNCHANGED row, Fault \/ UNCHANGED faults, EventOK', DispOK', FanOutComplete'
    PROVE  Inv'
<1>1. BoundOK'
  BY FaultMeans DEF Inv, NotDispatching, BoundOK
<1>2. HookOK' /\ CallOK'
  BY HookKept, CallKept DEF Inv, NotDispatching
<1>3. RowOK' /\ RowsGrow
  BY RowKept, RowsSame DEF Inv, NotDispatching
<1>4. AttOK'
  BY <1>3, AttKept DEF Inv, NotDispatching
<1>5. LeaseOK'
  BY FaultMeans, LeaseKept DEF Inv, NotDispatching
<1> QED
  BY <1>1, <1>2, <1>3, <1>4, <1>5 DEF Inv

LEMMA SweepInv == ASSUME Inv, NEW p \in Proc, Sweep(p) PROVE Inv'
<1> DEFINE listed == {e \in Event : event[e].state = "recorded"}
           v == [NoDisp EXCEPT !.left = listed]
<1>1. /\ DispTo(<<p, "sweep">>, v) /\ NotDispatching /\ UNCHANGED <<event, row, faults>>
      /\ v \in DispType /\ v.pc = "idle" /\ <<p, "sweep">> \in Dispatcher
  BY DEF Sweep, NoDisp, DispType, Dispatcher
<1> HIDE DEF v
<1>2. RowsGrow /\ SteadyShrinks /\ FailsGrow /\ EventOK' /\ RowOK /\ EventOK /\ DispOK /\ FanOutComplete
  BY <1>1, RowsSame, SteadySame, FailsSame, EventKept DEF Inv, NotDispatching
<1>3. DispOK'
  BY <1>1, <1>2, IdleDispatch
<1>4. FanOutComplete'
  BY <1>1, <1>2, FanOutSame DEF NotDispatching
<1> QED
  BY <1>1, <1>2, <1>3, <1>4, DispatchFrame

LEMMA DispatchBeginInv ==
    ASSUME Inv, NEW d \in Dispatcher, NEW e \in Event, DispatchBegin(d, e)
    PROVE  Inv'
<1>1. /\ RowsGrow /\ SteadyShrinks /\ RowOK /\ EventOK /\ DispOK /\ FanOutComplete
      /\ disp[d] \in DispType /\ disp[d].pc = "idle" /\ NotDispatching /\ UNCHANGED <<row, steady, handled, project>>
  BY RowsSame, SteadySame DEF Inv, NotDispatching, DispatchBegin, DispOK
<1> DEFINE next == [disp[d] EXCEPT !.event = e, !.left = @ \ {e}]
<1>2. CASE /\ ~project /\ DispTo(d, [next EXCEPT !.event = "none"])
           /\ (Mark(e) /\ UNCHANGED faults) \/ (Fault /\ UNCHANGED event)
  <2> DEFINE v == [next EXCEPT !.event = "none"]
  <2>1. v \in DispType /\ v.pc = "idle"
    BY <1>1 DEF DispType
  <2>2. DispTo(d, v)
    BY <1>2
  <2> HIDE DEF v
  <2>3. EventOK' /\ FailsGrow
    BY <1>1, <1>2, MarkMeans, EventKept, FailsSame
  <2>4. DispOK'
    BY <1>1, <2>1, <2>2, <2>3, IdleDispatch
  <2>5. FanOutComplete'
    BY <1>1, <1>2 DEF FanOutComplete
  <2> QED
    BY <1>1, <1>2, <2>3, <2>4, <2>5, DispatchFrame
<1>3. ASSUME NEW ok \in BOOLEAN, Fault \/ UNCHANGED faults, UNCHANGED event,
             DispTo(d, [next EXCEPT !.pc = "match", !.ok = ok])
      PROVE  Inv'
  <2> DEFINE v == [next EXCEPT !.pc = "match", !.ok = ok]
  <2>1. v \in DispType /\ v.pc = "match" /\ v.event = e
    BY <1>1 DEF DispType
  <2>2. DispTo(d, v)
    BY <1>3
  <2> HIDE DEF v
  <2>3. EventOK' /\ FailsGrow
    BY <1>1, <1>3, EventKept, FailsSame
  <2>4. disp'[d] = v => DispGood(d)'
    BY <2>1 DEF DispGood
  <2>5. DispOK'
    BY <1>1, <2>1, <2>2, <2>3, <2>4, DispToMeans
  <2>6. FanOutComplete'
    BY <1>1, <1>3, FanOutSame
  <2>7. Fault \/ UNCHANGED faults
    BY <1>3
  <2> QED
    BY <1>1, <2>3, <2>5, <2>6, <2>7, DispatchFrame
<1> QED
  BY <1>2, <1>3 DEF DispatchBegin

LEMMA MatchingWebhooksInv ==
    ASSUME Inv, NEW d \in Dispatcher, MatchingWebhooks(d)
    PROVE  Inv'
<1>1. /\ RowsGrow /\ SteadyShrinks /\ RowOK /\ EventOK /\ DispOK /\ FanOutComplete /\ HookOK /\ FailsGrow /\ EventOK'
      /\ disp[d] \in DispType /\ disp[d].pc = "match" /\ NotDispatching
      /\ UNCHANGED <<row, steady, handled, project, event>>
  BY RowsSame, SteadySame, FailsSame, EventKept DEF Inv, NotDispatching, MatchingWebhooks, DispOK
<1>2. disp[d].event \in Event
  BY <1>1 DEF DispOK, DispGood
<1>3. FanOutComplete'
  BY <1>1, FanOutSame
<1>4. DispOK'
  <2>1. CASE DispTo(d, [disp[d] EXCEPT !.pc = "insert", !.hooks = {h \in Hook : Live(h) /\ hook[h].active}])
    <3> DEFINE hs == {h \in Hook : Live(h) /\ hook[h].active}
               v == [disp[d] EXCEPT !.pc = "insert", !.hooks = hs]
    <3>1. v \in DispType /\ v.pc = "insert" /\ v.hooks = hs /\ v.event = disp[d].event
      BY <1>1 DEF DispType
    <3>2. DispTo(d, v)
      BY <2>1
    <3> HIDE DEF v
    <3>3. disp'[d] = v => DispGood(d)'
      BY <1>1, <1>2, <3>1 DEF DispGood, HookOK, Live
    <3> QED
      BY <1>1, <3>1, <3>2, <3>3, DispToMeans
  <2>2. CASE DispTo(d, [disp[d] EXCEPT !.pc = "insert", !.ok = FALSE])
    <3> DEFINE v == [disp[d] EXCEPT !.pc = "insert", !.ok = FALSE]
    <3>1. v \in DispType /\ v.pc = "insert" /\ v.ok = FALSE /\ v.event = disp[d].event
      BY <1>1 DEF DispType
    <3>2. DispTo(d, v)
      BY <2>2
    <3> HIDE DEF v
    <3>3. disp'[d] = v => DispGood(d)'
      BY <1>2, <3>1 DEF DispGood
    <3> QED
      BY <1>1, <3>1, <3>2, <3>3, DispToMeans
  <2> QED
    BY <2>1, <2>2 DEF MatchingWebhooks
<1>5. Fault \/ UNCHANGED faults
  BY DEF MatchingWebhooks
<1> QED
  BY <1>1, <1>3, <1>4, <1>5, DispatchFrame
\* A dispatch makes a delivery, which has not been attempted yet.
LEMMA LeaseInserted ==
    ASSUME RowOK, AttOK, LeaseOK, UNCHANGED <<sends, att, faults>>, NEW r \in Row, row[r].status = "none",
           row'[r].status = "pending", row'[r].attempt = 0, \A q \in Row \ {r} : row'[q] = row[q], BoundOK
    PROVE  LeaseOK'
<1>1. \A a \in Sender : att[a][r].pc = "none"
  BY DEF AttOK, AttGood
<1>2. sends[r] = 0 /\ MaxAttempts \in Nat /\ Used \in Nat
  <2>1. sends[r] = 0 /\ MaxAttempts \in Nat /\ MaxFaults \in Nat /\ faults \in 0..MaxFaults
    BY WebhooksAssumption DEF LeaseOK, BoundOK
  <2> QED
    BY <2>1 DEF Used
<1>3. ~InFlight(r)' /\ sends'[r] = 0 /\ Used' = Used
  BY <1>1, <1>2 DEF InFlight, Used
<1>4. sends'[r] <= MaxAttempts + Used' /\ sends'[r] <= row'[r].attempt + Used'
  BY <1>2, <1>3
<1>5. /\ \A a, b \in Sender : att'[a][r].pc # "none" /\ att'[b][r].pc # "none" => a = b
      /\ \A a \in Sender : Numbered(a, r)'
  BY <1>1 DEF Numbered
<1>6. Lease(r)'
  BY <1>3, <1>4, <1>5 DEF Lease
<1>7. FaultsOnly /\ sends' \in [Row -> Nat]
  BY FaultMeans DEF LeaseOK
<1> QED
  BY <1>6, <1>7, LeaseOthers

LEMMA HandleInsertInv ==
    ASSUME Inv, NEW d \in Dispatcher, NEW h \in Hook, HandleInsert(d, h)
    PROVE  Inv'
<1>1. /\ SteadyShrinks /\ RowOK /\ EventOK /\ DispOK /\ FanOutComplete /\ FailsGrow /\ EventOK'
      /\ disp[d] \in DispType /\ disp[d].pc = "insert" /\ NotDispatching
      /\ UNCHANGED <<steady, handled, project, event>>
  BY SteadySame, FailsSame, EventKept DEF Inv, NotDispatching, HandleInsert, DispOK
<1>2. PICK e \in Event : e = disp[d].event
  BY <1>1 DEF DispOK, DispGood
<1>3. CASE UNCHANGED row /\ DispTo(d, [disp[d] EXCEPT !.hooks = @ \ {h}, !.ok = FALSE]) /\ (Fault \/ UNCHANGED faults)
  <2> DEFINE v == [disp[d] EXCEPT !.hooks = @ \ {h}, !.ok = FALSE]
  <2>1. v \in DispType /\ v.pc = "insert" /\ v.ok = FALSE /\ v.event = e
    BY <1>1, <1>2 DEF DispType
  <2>2. DispTo(d, v)
    BY <1>3
  <2> HIDE DEF v
  <2>3. disp'[d] = v => DispGood(d)'
    BY <2>1 DEF DispGood
  <2>4. RowsGrow
    BY <1>1, <1>3, RowsSame
  <2>5. DispOK' /\ FanOutComplete'
    BY <1>1, <2>1, <2>2, <2>3, <2>4, DispToMeans, FanOutSame
  <2> QED
    BY <1>1, <1>3, <2>5, DispatchFrame
<1>4. CASE Live(h) /\ InsertDelivery(h, e, "event") /\ UNCHANGED faults /\ DispTo(d, [disp[d] EXCEPT !.hooks = @ \ {h}])
  <2> DEFINE v == [disp[d] EXCEPT !.hooks = @ \ {h}]
  <2>1. v \in DispType /\ v.pc = "insert" /\ v.ok = disp[d].ok /\ v.event = e /\ v.hooks = disp[d].hooks \ {h}
    BY <1>1, <1>2 DEF DispType
  <2>2. DispTo(d, v)
    BY <1>4
  <2> HIDE DEF v
  <2>3. (UNCHANGED row /\ HasRow(h, e)) \/ Inserted(h, e, "event")
    BY <1>1, <1>4, InsertMeans
  <2>4. RowsGrow /\ HasRow(h, e)'
    <3>1. UNCHANGED hook
      BY <1>1 DEF NotDispatching
    <3>2. CASE UNCHANGED row /\ HasRow(h, e)
      BY <1>1, <3>2, RowsSame, HasRowKept
    <3>3. CASE Inserted(h, e, "event")
      BY <1>1, <3>1, <3>3, InsertedMeans
    <3> QED
      BY <2>3, <3>2, <3>3
  <2>5. disp'[d] = v => DispGood(d)'
    <3> SUFFICES ASSUME disp'[d] = v PROVE DispGood(d)'
      OBVIOUS
    <3>1. ASSUME NEW g \in Hook, disp[d].ok, steady[g], g \notin disp[d].hooks \ {h} PROVE HasRow(g, e)'
      <4>1. CASE g = h
        BY <2>4, <4>1
      <4>2. CASE g # h
        <5>1. HasRow(g, e)
          BY <1>1, <1>2, <3>1, <4>2 DEF DispOK, DispGood
        <5> QED
          BY <1>1, <2>4, <5>1, HasRowKept
      <4> QED
        BY <4>1, <4>2
    <3>2. disp'[d].event \in Event /\ disp'[d].pc = "insert"
      BY <2>1
    <3>3. disp'[d].pc = "insert" /\ disp'[d].ok =>
             \A g \in Hook : steady'[g] /\ g \notin disp'[d].hooks => HasRow(g, disp[d].event)'
      BY <1>1, <2>1, <3>1 DEF HasRow
    <3> QED
      BY <3>2, <3>3 DEF DispGood
  <2>6. DispOK' /\ FanOutComplete'
    BY <1>1, <2>1, <2>2, <2>4, <2>5, DispToMeans, FanOutSame
  <2>7. CASE UNCHANGED row
    BY <1>1, <1>4, <2>6, <2>7, DispatchFrame
  <2>8. CASE Inserted(h, e, "event")
    <3>1. BoundOK' /\ HookOK' /\ CallOK'
      BY <1>1, <1>4, HookKept, CallKept DEF Inv, NotDispatching, BoundOK
    <3>2. RowOK'
      BY <1>1, <2>8, InsertedMeans DEF NotDispatching
    <3>3. AttOK'
      BY <1>1, <2>4, AttKept DEF Inv, NotDispatching
    <3>4. LeaseOK'
      <4>1. PICK r \in Row : /\ row[r].status = "none" /\ row'[r].status = "pending"
                             /\ row'[r].attempt = 0 /\ \A q \in Row \ {r} : row'[q] = row[q]
        BY <1>1, <2>8, InsertedMeans DEF NotDispatching
      <4>2. UNCHANGED <<sends, att, faults>> /\ AttOK /\ LeaseOK /\ BoundOK
        BY <1>1, <1>4 DEF Inv, NotDispatching
      <4> QED
        BY <1>1, <4>1, <4>2, LeaseInserted
    <3> QED
      BY <1>1, <2>6, <3>1, <3>2, <3>3, <3>4 DEF Inv
  <2> QED
    BY <2>3, <2>7, <2>8
<1> QED
  BY <1>2, <1>3, <1>4 DEF HandleInsert
LEMMA DispEndsMeans == ASSUME DispOK, NEW d \in Dispatcher PROVE DispEnds(d) \in DispType /\ DispEnds(d).pc = "idle"
<1>1. disp[d] \in DispType
  BY DEF DispOK
<1> QED
  BY <1>1 DEF DispEnds, NoDisp, DispType

LEMMA DispatchEndInv ==
    ASSUME Inv, NEW d \in Dispatcher, DispatchEnd(d)
    PROVE  Inv'
<1>1. /\ RowsGrow /\ SteadyShrinks /\ RowOK /\ EventOK /\ DispOK /\ FanOutComplete
      /\ disp[d] \in DispType /\ disp[d].pc = "insert" /\ disp[d].hooks = {} /\ NotDispatching
      /\ UNCHANGED <<row, steady, handled, project>>
  BY RowsSame, SteadySame DEF Inv, NotDispatching, DispatchEnd, DispOK
<1>2. PICK e \in Event : e = disp[d].event
  BY <1>1 DEF DispOK, DispGood
<1>3. PICK ends \in DispType : ends = DispEnds(d) /\ ends.pc = "idle"
  BY <1>1, DispEndsMeans
<1>4. CASE disp[d].ok /\ Mark(e) /\ DispTo(d, ends) /\ UNCHANGED faults
  <2>1. /\ EventOK' /\ FailsGrow
        /\ \A x \in Event : event'[x].fails = event[x].fails /\ (x # e => event'[x] = event[x])
    BY <1>1, <1>4, MarkMeans
  <2>2. DispOK'
    BY <1>1, <1>3, <1>4, <2>1, IdleDispatch
  <2>3. \A h \in Hook : steady'[h] => HasRow(h, e)'
    <3>1. \A h \in Hook : steady[h] => HasRow(h, e)
      BY <1>1, <1>2, <1>4 DEF DispOK, DispGood
    <3> QED
      BY <1>1, <3>1, HasRowKept DEF SteadyShrinks
  <2>4. FanOutComplete'
    BY <1>1, <2>1, <2>3, FanOutKept
  <2> QED
    BY <1>1, <1>4, <2>1, <2>2, <2>4, DispatchFrame
<1>5. CASE /\ event' = [event EXCEPT ![e].fails = @ + 1] /\ UNCHANGED faults
           /\ DispTo(d, IF event[e].fails + 1 >= maxAttempts THEN [disp[d] EXCEPT !.pc = "give up"] ELSE ends)
  <2>1. /\ \A x \in Event : event'[x].state = event[x].state
        /\ event'[e].fails = event[e].fails + 1
    BY <1>1, <1>5, FailMeans
  <2>2. EventOK' /\ FailsGrow
    BY <1>1, <1>5, FailMeans
  <2>3. DispOK'
    <3>1. CASE DispTo(d, ends)
      BY <1>1, <1>3, <2>2, <3>1, IdleDispatch
    <3>2. CASE event[e].fails + 1 >= maxAttempts /\ DispTo(d, [disp[d] EXCEPT !.pc = "give up"])
      <4> DEFINE v == [disp[d] EXCEPT !.pc = "give up"]
      <4>1. v \in DispType /\ v.pc = "give up" /\ v.event = e
        BY <1>1, <1>2 DEF DispType
      <4>2. DispTo(d, v)
        BY <3>2
      <4> HIDE DEF v
      <4>3. disp'[d] = v => DispGood(d)'
        BY <2>1, <3>2, <4>1 DEF DispGood
      <4> QED
        BY <1>1, <2>2, <4>1, <4>2, <4>3, DispToMeans
    <3> QED
      BY <1>5, <3>1, <3>2
  <2>4. FanOutComplete'
    BY <1>1, <2>1, <2>2, FanOutKept
  <2> QED
    BY <1>1, <1>5, <2>2, <2>3, <2>4, DispatchFrame
<1>6. CASE Fault /\ DispTo(d, ends) /\ UNCHANGED event
  <2>1. EventOK' /\ FailsGrow
    BY <1>1, <1>6, EventKept, FailsSame
  <2>2. DispOK' /\ FanOutComplete'
    BY <1>1, <1>3, <1>6, <2>1, IdleDispatch, FanOutSame
  <2> QED
    BY <1>1, <1>6, <2>1, <2>2, DispatchFrame
<1> QED
  BY <1>2, <1>3, <1>4, <1>5, <1>6 DEF DispatchEnd

LEMMA DispatchGiveUpInv ==
    ASSUME Inv, NEW d \in Dispatcher, DispatchGiveUp(d)
    PROVE  Inv'
<1>1. /\ RowsGrow /\ SteadyShrinks /\ RowOK /\ EventOK /\ DispOK /\ FanOutComplete
      /\ disp[d] \in DispType /\ disp[d].pc = "give up" /\ NotDispatching
      /\ UNCHANGED <<row, steady, handled, project>>
  BY RowsSame, SteadySame DEF Inv, NotDispatching, DispatchGiveUp, DispOK
<1>2. PICK e \in Event : e = disp[d].event /\ event[e].fails >= maxAttempts
  BY <1>1 DEF DispOK, DispGood
<1>3. PICK ends \in DispType : ends = DispEnds(d) /\ ends.pc = "idle" /\ DispTo(d, ends)
  BY <1>1, DispEndsMeans DEF DispatchGiveUp
<1>4. CASE Mark(e) /\ UNCHANGED faults
  <2>1. /\ EventOK' /\ FailsGrow
        /\ \A x \in Event : event'[x].fails = event[x].fails /\ (x # e => event'[x] = event[x])
    BY <1>1, <1>4, MarkMeans
  <2>2. DispOK'
    BY <1>1, <1>3, <2>1, IdleDispatch
  <2>3. ~(event'[e].fails < maxAttempts)
    <3>1. event[e].fails \in Nat /\ maxAttempts \in Nat
      BY <1>1, WebhooksAssumption DEF EventOK, EventType
    <3>2. \A x, y \in Nat : x >= y => ~(x < y)
      OBVIOUS
    <3> QED
      BY <1>2, <2>1, <3>1, <3>2
  <2>4. FanOutComplete'
    BY <1>1, <2>1, <2>3, FanOutKept
  <2> QED
    BY <1>1, <1>4, <2>1, <2>2, <2>4, DispatchFrame
<1>5. CASE Fault /\ UNCHANGED event
  <2>1. EventOK' /\ FailsGrow
    BY <1>1, <1>5, EventKept, FailsSame
  <2>2. DispOK'
    BY <1>1, <1>3, <2>1, IdleDispatch
  <2>3. FanOutComplete'
    BY <1>1, <1>5, FanOutSame
  <2> QED
    BY <1>1, <1>5, <2>1, <2>2, <2>3, DispatchFrame
<1> QED
  BY <1>2, <1>4, <1>5 DEF DispatchGiveUp

-----------------------------------------------------------------------------
(* The forge delivers an event, and processes die.                         *)

LEMMA WithoutKept ==
    ASSUME DispOK, NEW p \in Proc, disp' = Without(p), RowOK, RowsGrow, SteadyShrinks, FailsGrow, EventOK, EventOK'
    PROVE  DispOK'
<1>1. disp' \in [Dispatcher -> DispType] /\ \A d \in Dispatcher : disp'[d] = disp[d] \/ disp'[d].pc = "idle"
  BY DEF DispOK, Without, NoDisp, DispType
<1>2. \A d \in Dispatcher : disp'[d].pc = "idle" => DispGood(d)'
  BY DEF DispGood
<1>3. \A d \in Dispatcher : DispGood(d)'
  BY <1>1, <1>2, DispGoodKept
<1> QED
  BY <1>1, <1>3 DEF DispOK

\* The attempts of a process are lost with it: the delivery may have been sent once more than
\* its row says, which is what the crash pays for.
LEMMA AttWithoutKept ==
    ASSUME RowOK, AttOK, LeaseOK, BoundOK, NEW p \in Proc, att' = AttWithout(p), UNCHANGED <<row, sends>>, Fault
    PROVE  AttOK' /\ LeaseOK'
<1>0. NoAtt \in AttType /\ NoAtt.pc = "none" /\ NoAtt.out = "none" /\ p \in Sender
  BY WebhooksAssumption DEF NoAtt, AttType, Sender
<1>1. /\ att' \in [Sender -> [Row -> AttType]]
      /\ \A a \in Sender, r \in Row : att'[a][r] = IF a = p THEN NoAtt ELSE att[a][r]
  <2> DEFINE none == [r \in Row |-> NoAtt]
  <2>1. none \in [Row -> AttType] /\ \A r \in Row : none[r] = NoAtt
    BY <1>0
  <2>2. att' = [att EXCEPT ![p] = none]
    BY DEF AttWithout
  <2> HIDE DEF none
  <2> QED
    BY <1>0, <2>1, <2>2 DEF AttOK
<1>2. AttOK'
  <2>1. \A a \in Sender, r \in Row : AttGood(a, r)'
    BY <1>0, <1>1 DEF AttOK, AttGood
  <2> QED
    BY <1>1, <2>1 DEF AttOK
<1>3. FaultsOnly /\ faults' = faults - 1
  BY FaultMeans DEF Fault
<1>4. Used \in Int /\ Used' = Used + 1
  BY <1>3, WebhooksAssumption DEF Used, FaultsOnly
<1>5. ASSUME NEW r \in Row, Held(r)' PROVE Lease(r)'
  <2>0. Held(r) /\ Lease(r)
    BY <1>5 DEF Held, LeaseOK
  <2>1. CASE att[p][r].pc = "none"
    <3>1. \A a \in Sender : att'[a][r] = att[a][r] \/ (att'[a][r].pc = "none" /\ att[a][r].pc = "none")
      BY <1>0, <1>1, <2>1
    <3> QED
      BY <1>3, <1>5, <3>1, LeaseAlone
  <2>2. CASE att[p][r].pc # "none"
    <3>1. \A a \in Sender : att'[a][r].pc = "none"
      BY <1>0, <1>1, <2>0, <2>2 DEF Lease
    <3>2. sends[r] <= row[r].attempt + Used'
      <4>1. sends[r] \in Nat /\ row[r].attempt \in Nat /\ att[p][r].n \in Nat
        BY <1>0, RowNumbers
      <4>2. /\ Numbered(p, r) /\ att[p][r] \in AttType
        BY <1>0, <2>0 DEF Lease, AttOK
      <4>3. sends[r] <= row[r].attempt + Used \/ (att[p][r].n <= row[r].attempt + 1 /\ sends[r] <= att[p][r].n + Used)
        BY <2>2, <4>2 DEF Numbered, AttType
      <4> QED
        BY <1>4, <4>1, <4>3
    <3>3. sends[r] <= MaxAttempts + Used'
      <4>1. sends[r] <= MaxAttempts + Used /\ sends[r] \in Nat /\ MaxAttempts \in Nat
        BY <2>0, RowNumbers DEF Lease
      <4> QED
        BY <1>4, <4>1
    <3>4. ~InFlight(r)'
      BY <3>1 DEF InFlight
    <3>5. \A a \in Sender : Numbered(a, r)'
      BY <3>1 DEF Numbered
    <3> QED
      BY <3>1, <3>2, <3>3, <3>4, <3>5 DEF Lease
  <2> QED
    BY <2>1, <2>2
<1>6. LeaseOK'
  BY <1>5 DEF LeaseOK
<1> QED
  BY <1>2, <1>6

LEMMA CrashInv == ASSUME Inv, NEW p \in Proc, Crash(p) PROVE Inv'
<1>1. /\ RowOK /\ AttOK /\ LeaseOK /\ BoundOK /\ DispOK /\ EventOK /\ FanOutComplete
      /\ Fault /\ disp' = Without(p) /\ att' = AttWithout(p)
      /\ UNCHANGED <<project, event, handled, hook, steady, row, sends, call, calls>>
  BY DEF Inv, Crash
<1>2. RowsGrow /\ SteadyShrinks /\ FailsGrow /\ EventOK'
  BY <1>1, RowsSame, SteadySame, FailsSame, EventKept
<1>3. DispOK' /\ FanOutComplete'
  BY <1>1, <1>2, WithoutKept, FanOutSame
<1>4. AttOK' /\ LeaseOK'
  BY <1>1, AttWithoutKept
<1>5. BoundOK' /\ HookOK' /\ CallOK' /\ RowOK'
  BY <1>1, FaultMeans, HookKept, CallKept, RowKept DEF Inv, BoundOK
<1> QED
  BY <1>2, <1>3, <1>4, <1>5 DEF Inv

LEMMA WebhookInv == ASSUME Inv, NEW p \in Proc, NEW e \in Event, Webhook(p, e) PROVE Inv'
<1>1. /\ RowOK /\ AttOK /\ LeaseOK /\ BoundOK /\ DispOK /\ EventOK /\ FanOutComplete
      /\ event[e].state = "new" /\ event' = [event EXCEPT ![e].state = "recorded"]
      /\ UNCHANGED <<project, hook, steady, row, sends, call, calls>>
  BY DEF Inv, Webhook
<1>2. /\ event' \in [Event -> EventType] /\ event'[e].state = "recorded"
      /\ \A x \in Event : event'[x].fails = event[x].fails /\ (x # e => event'[x] = event[x])
  BY <1>1 DEF EventOK, EventType
<1>3. RowsGrow /\ SteadyShrinks /\ FailsGrow
  BY <1>1, <1>2, RowsSame, SteadySame DEF FailsGrow, EventOK, EventType
<1>4. HookOK' /\ CallOK' /\ RowOK'
  BY <1>1, HookKept, CallKept, RowKept DEF Inv
<1>5. EventOK' => FanOutComplete'
  BY <1>1, <1>2, <1>3, FanOutKept
<1>6. CASE /\ handled' = [handled EXCEPT ![e] = @ + 1]
           /\ IF disp[<<p, "async">>] = NoDisp
              THEN DispTo(<<p, "async">>, [NoDisp EXCEPT !.left = {e}]) ELSE UNCHANGED disp
           /\ UNCHANGED <<att, faults>>
  <2>1. handled' \in [Event -> Nat] /\ handled'[e] = 1 /\ \A x \in Event \ {e} : handled'[x] = handled[x]
    BY <1>1, <1>6 DEF EventOK
  <2>2. EventOK'
    BY <1>1, <1>2, <2>1 DEF EventOK
  <2>3. DispOK'
    <3> DEFINE v == [NoDisp EXCEPT !.left = {e}]
    <3>1. v \in DispType /\ v.pc = "idle" /\ <<p, "async">> \in Dispatcher
      BY DEF NoDisp, DispType, Dispatcher
    <3>2. DispTo(<<p, "async">>, v) \/ UNCHANGED disp
      BY <1>6
    <3> HIDE DEF v
    <3> QED
      BY <1>1, <1>3, <2>2, <3>1, <3>2, IdleDispatch, DispKept
  <2>4. AttOK' /\ LeaseOK' /\ BoundOK'
    BY <1>1, <1>3, <1>6, AttKept, LeaseKept, FaultMeans DEF BoundOK
  <2> QED
    BY <1>4, <1>5, <2>2, <2>3, <2>4 DEF Inv
<1>7. CASE Fault /\ disp' = Without(p) /\ att' = AttWithout(p) /\ UNCHANGED handled
  <2>1. EventOK'
    BY <1>1, <1>2, <1>7 DEF EventOK
  <2>2. DispOK' /\ AttOK' /\ LeaseOK' /\ BoundOK'
    BY <1>1, <1>3, <1>7, <2>1, WithoutKept, AttWithoutKept, FaultMeans DEF BoundOK
  <2> QED
    BY <1>4, <1>5, <2>1, <2>2 DEF Inv
<1> QED
  BY <1>6, <1>7 DEF Webhook
-----------------------------------------------------------------------------
(* The sender.                                                             *)

\* A step that changes deliveries and attempts only.
LEMMA SenderFrame ==
    ASSUME Inv, UNCHANGED <<project, event, handled, disp, hook, steady, call, calls>>, Fault \/ UNCHANGED faults,
           RowOK', RowsGrow, AttOK', LeaseOK'
    PROVE  Inv'
<1>1. BoundOK'
  BY FaultMeans DEF Inv, BoundOK
<1>2. HookOK' /\ CallOK' /\ EventOK'
  BY HookKept, CallKept, EventKept DEF Inv
<1>3. SteadyShrinks /\ FailsGrow
  BY SteadySame, FailsSame DEF Inv
<1>4. DispOK'
  BY <1>2, <1>3, DispKept DEF Inv
<1>5. FanOutComplete'
  BY <1>3, FanOutSame DEF Inv
<1> QED
  BY <1>1, <1>2, <1>4, <1>5 DEF Inv

LEMMA LeasedMeans ==
    ASSUME RowOK, NEW S \in SUBSET Row, row' = [r \in Row |-> IF r \in S THEN [row[r] EXCEPT !.due = FALSE] ELSE row[r]]
    PROVE  /\ row' \in [Row -> RowType]
           /\ \A r \in Row : /\ row'[r].hook = row[r].hook /\ row'[r].event = row[r].event /\ row'[r].kind = row[r].kind
                             /\ row'[r].status = row[r].status /\ row'[r].attempt = row[r].attempt
                             /\ row'[r].late = row[r].late /\ (r \in S => ~row'[r].due)
                             /\ (r \notin S => row'[r] = row[r])
<1>1. \A r \in Row : row[r] \in RowType
  BY DEF RowOK
<1>2. \A v \in RowType : /\ [v EXCEPT !.due = FALSE] \in RowType
                         /\ [v EXCEPT !.due = FALSE].hook = v.hook /\ [v EXCEPT !.due = FALSE].event = v.event
                         /\ [v EXCEPT !.due = FALSE].kind = v.kind /\ [v EXCEPT !.due = FALSE].status = v.status
                         /\ [v EXCEPT !.due = FALSE].attempt = v.attempt /\ [v EXCEPT !.due = FALSE].late = v.late
                         /\ [v EXCEPT !.due = FALSE].due = FALSE
  BY DEF RowType
<1> QED
  BY <1>1, <1>2

\* The deliveries are what they were and have the status they had.
LEMMA RowsLike ==
    ASSUME RowOK, row' \in [Row -> RowType], UNCHANGED hook,
           \A r \in Row : /\ row'[r].hook = row[r].hook /\ row'[r].event = row[r].event /\ row'[r].kind = row[r].kind
                          /\ row'[r].status = row[r].status /\ row'[r].attempt = row[r].attempt
    PROVE  RowOK' /\ RowsGrow
<1>1. RowsGrow
  BY DEF RowsGrow
<1>2. /\ \A r \in Row : row'[r].status = "none" => row'[r].kind = "none" /\ row'[r].hook = "none"
      /\ \A r \in Row : row'[r].status # "none" => row'[r].kind # "none" /\ row'[r].hook \in Hook
      /\ \A r \in Row : row'[r].status = "gone" => hook'[row'[r].hook].state = "deleted"
      /\ \A r \in Row : row'[r].status = "pending" => row'[r].attempt < MaxAttempts
  BY DEF RowOK
<1>3. \A q, r \in Row : row'[q].kind = "event" /\ row'[r].kind = "event" /\ row'[q].hook = row'[r].hook
                          /\ row'[q].event = row'[r].event => q = r
  BY DEF RowOK
<1> QED
  BY <1>1, <1>2, <1>3 DEF RowOK

LEMMA ClaimDueInv == ASSUME Inv, NEW p \in Proc, ClaimDue(p) PROVE Inv'
<1> DEFINE due == {r \in Row : row[r].status = "pending" /\ row[r].due}
           mine == [r \in Row |-> IF r \in due THEN [NoAtt EXCEPT !.pc = "get", !.n = row[r].attempt] ELSE NoAtt]
<1>1. /\ RowOK /\ AttOK /\ LeaseOK /\ BoundOK /\ Idle(p) /\ NotSending /\ UNCHANGED <<hook, steady, sends, faults>>
      /\ row' = [r \in Row |-> IF r \in due THEN [row[r] EXCEPT !.due = FALSE] ELSE row[r]]
      /\ att' = [att EXCEPT ![p] = mine] /\ p \in Sender /\ p \notin Client
  BY WebhooksAssumption DEF Inv, ClaimDue, Sender
<1>2. /\ row' \in [Row -> RowType]
      /\ \A r \in Row : /\ row'[r].hook = row[r].hook /\ row'[r].event = row[r].event /\ row'[r].kind = row[r].kind
                        /\ row'[r].status = row[r].status /\ row'[r].attempt = row[r].attempt
                        /\ row'[r].late = row[r].late /\ (r \in due => ~row'[r].due)
                        /\ (r \notin due => row'[r] = row[r])
  BY <1>1, LeasedMeans
<1>0. \A r \in Row : r \in due <=> row[r].status = "pending" /\ row[r].due
  OBVIOUS
<1> HIDE DEF due
<1>3. RowOK' /\ RowsGrow
  BY <1>1, <1>2, RowsLike
<1>4. /\ mine \in [Row -> AttType]
      /\ \A r \in Row : /\ r \in due => mine[r].pc = "get" /\ mine[r].n = row[r].attempt /\ mine[r].out = "none"
                        /\ r \notin due => mine[r].pc = "none" /\ mine[r].out = "none"
  <2>1. \A r \in Row : row[r].attempt \in 0..MaxAttempts
    BY <1>1 DEF RowOK, RowType
  <2>2. NoAtt \in AttType /\ NoAtt.pc = "none" /\ NoAtt.out = "none"
    BY WebhooksAssumption DEF NoAtt, AttType
  <2>3. \A n \in 0..MaxAttempts : /\ [NoAtt EXCEPT !.pc = "get", !.n = n] \in AttType
                                  /\ [NoAtt EXCEPT !.pc = "get", !.n = n].pc = "get"
                                  /\ [NoAtt EXCEPT !.pc = "get", !.n = n].n = n
                                  /\ [NoAtt EXCEPT !.pc = "get", !.n = n].out = "none"
    BY DEF NoAtt, AttType
  <2> HIDE DEF NoAtt
  <2> QED
    BY <2>1, <2>2, <2>3
<1> HIDE DEF mine
<1>5. /\ att' \in [Sender -> [Row -> AttType]]
      /\ \A r \in Row : att'[p][r] = mine[r] /\ \A a \in Sender \ {p} : att'[a][r] = att[a][r]
  BY <1>1, <1>4 DEF AttOK
<1>6. AttOK'
  <2>1. \A r \in Row : AttGood(p, r)'
    <3> SUFFICES ASSUME NEW r \in Row PROVE AttGood(p, r)'
      OBVIOUS
    <3>1. r \in due => row'[r].status # "none" /\ row[r].attempt < MaxAttempts
      BY <1>0, <1>1, <1>2 DEF RowOK
    <3> QED
      BY <1>1, <1>4, <1>5, <3>1 DEF AttGood
  <2>2. \A a \in Sender \ {p}, r \in Row : AttGood(a, r)'
    BY <1>1, <1>2, <1>5 DEF AttOK, AttGood
  <2> QED
    BY <1>5, <2>1, <2>2 DEF AttOK
<1>7. FaultsOnly /\ Used' = Used
  BY <1>1, FaultMeans DEF Used
<1>8. ASSUME NEW r \in Row, Held(r)' PROVE Lease(r)'
  <2>0. Held(r) /\ Lease(r)
    BY <1>1, <1>2, <1>8 DEF Held, LeaseOK
  <2>1. CASE r \notin due
    <3>1. \A a \in Sender : att'[a][r] = att[a][r] \/ (att'[a][r].pc = "none" /\ att[a][r].pc = "none")
      BY <1>1, <1>4, <1>5, <2>1 DEF Idle
    <3>2. row'[r] = row[r] /\ sends'[r] = sends[r]
      BY <1>1, <1>2, <2>1
    <3> QED
      BY <1>1, <1>7, <1>8, <3>1, <3>2, LeaseAlone
  <2>2. CASE r \in due
    <3>1. ~InFlight(r) /\ sends[r] <= row[r].attempt + Used /\ sends[r] <= MaxAttempts + Used
      BY <1>0, <2>0, <2>2 DEF Lease
    <3>2. \A a \in Sender \ {p} : att'[a][r].pc = "none"
      BY <1>5, <3>1 DEF InFlight
    <3>3. att'[p][r].pc = "get" /\ att'[p][r].n = row'[r].attempt /\ row'[r].attempt = row[r].attempt
      BY <1>2, <1>4, <1>5, <2>2
    <3>4. \A a \in Sender : Numbered(a, r)'
      <4>1. Numbered(p, r)'
        BY <1>1, <1>7, <3>1, <3>3 DEF Numbered
      <4>2. \A a \in Sender \ {p} : Numbered(a, r)'
        BY <3>2 DEF Numbered
      <4> QED
        BY <4>1, <4>2
    <3>5. \A a, b \in Sender : att'[a][r].pc # "none" /\ att'[b][r].pc # "none" => a = b
      BY <3>2
    <3>6. sends'[r] <= MaxAttempts + Used' /\ sends'[r] <= row'[r].attempt + Used'
      BY <1>1, <1>7, <3>1, <3>3
    <3>7. ~row'[r].due /\ row'[r].status = "pending"
      BY <1>0, <1>2, <2>2
    <3> QED
      BY <3>4, <3>5, <3>6, <3>7 DEF Lease
  <2> QED
    BY <2>1, <2>2
<1>9. LeaseOK'
  BY <1>1, <1>2, <1>8 DEF LeaseOK
<1> QED
  BY <1>1, <1>3, <1>6, <1>9, SenderFrame DEF NotSending

\* A step of one attempt that leaves the rows alone.
LEMMA AttemptFrame ==
    ASSUME Inv, NEW a \in Sender, NEW r \in Row, NEW v \in AttType, AttTo(a, r, v), NotSending,
           UNCHANGED <<hook, steady, row>>, Fault \/ UNCHANGED faults, sends' \in [Row -> Nat],
           \A q \in Row \ {r} : sends'[q] = sends[q], att[a][r].pc # "none",
           att'[a][r] = v => AttGood(a, r)', Held(r) => Lease(r)'
    PROVE  Inv'
<1>1. RowOK /\ AttOK /\ LeaseOK /\ BoundOK /\ RowsGrow /\ RowOK'
  BY RowsSame, RowKept DEF Inv
<1>2. AttOK'
  BY <1>1, AttToKept
<1>3. FaultsOnly
  BY <1>1, FaultMeans
<1>4. \A q \in Row \ {r} : \A b \in Sender : att'[b][q] = att[b][q]
  BY <1>1, AttToMeans
<1>5. row'[r].status # "none"
  BY <1>1 DEF AttOK, AttGood
<1>6. Held(r)' => Lease(r)'
  BY DEF Held
<1>7. LeaseOK'
  BY <1>1, <1>3, <1>4, <1>5, <1>6, LeaseOthers
<1> QED
  BY <1>1, <1>2, <1>7, SenderFrame DEF NotSending

\* What an attempt in progress knows of its delivery.
LEMMA InProgress ==
    ASSUME Inv, NEW a \in Sender, NEW r \in Row, att[a][r].pc # "none"
    PROVE  /\ RowOK /\ AttOK /\ LeaseOK /\ BoundOK /\ HookOK
           /\ att[a][r] \in AttType /\ AttGood(a, r) /\ row[r] \in RowType /\ row[r].status # "none" /\ row[r].hook \in Hook
           /\ att[a][r].n \in Nat /\ att[a][r].n <= MaxAttempts /\ row[r].attempt \in Nat /\ row[r].attempt <= MaxAttempts
           /\ sends[r] \in Nat /\ MaxAttempts \in Nat \ {0} /\ Used \in Nat
           /\ Held(r) => /\ Numbered(a, r) /\ sends[r] <= MaxAttempts + Used
                         /\ ~row[r].due /\ row[r].status \in {"pending", "gone"}
<1>1. /\ RowOK /\ AttOK /\ LeaseOK /\ BoundOK /\ HookOK /\ att[a][r] \in AttType /\ AttGood(a, r) /\ row[r] \in RowType
  BY DEF Inv, AttOK, RowOK
<1>2. row[r].status # "none" /\ row[r].hook \in Hook
  BY <1>1 DEF AttGood, RowOK
<1>3. Used \in Nat
  BY <1>1, WebhooksAssumption DEF Used, BoundOK
<1>4. Held(r) => /\ Numbered(a, r) /\ sends[r] <= MaxAttempts + Used
                 /\ ~row[r].due /\ row[r].status \in {"pending", "gone"}
  BY <1>1 DEF LeaseOK, Lease, InFlight
<1> QED
  BY <1>1, <1>2, <1>3, <1>4, RowNumbers
LEMMA GetWebhookInv == ASSUME Inv, NEW p \in Sender, NEW r \in Row, GetWebhook(p, r) PROVE Inv'
<1>1. /\ att[p][r].pc = "get" /\ p \in Proc /\ NotSending /\ UNCHANGED <<hook, steady, row, sends>>
  BY DEF GetWebhook
<1>2. /\ RowOK /\ AttOK /\ LeaseOK /\ BoundOK /\ HookOK
      /\ att[p][r] \in AttType /\ AttGood(p, r) /\ row[r] \in RowType /\ row[r].status # "none" /\ row[r].hook \in Hook
      /\ att[p][r].n \in Nat /\ att[p][r].n <= MaxAttempts /\ row[r].attempt \in Nat /\ row[r].attempt <= MaxAttempts
      /\ sends[r] \in Nat /\ MaxAttempts \in Nat \ {0} /\ Used \in Nat
      /\ Held(r) => /\ Numbered(p, r) /\ sends[r] <= MaxAttempts + Used
                    /\ ~row[r].due /\ row[r].status \in {"pending", "gone"}
  BY <1>1, InProgress
<1>3. sends' \in [Row -> Nat]
  BY <1>1, <1>2 DEF LeaseOK
<1>4. att[p][r].n < MaxAttempts /\ p \notin Client
  BY <1>1, <1>2, WebhooksAssumption DEF AttGood
<1>5. Held(r) => att[p][r].n = row[r].attempt /\ sends[r] <= row[r].attempt + Used
  BY <1>1, <1>2 DEF Numbered
<1>6. CASE Live(row[r].hook) /\ Attempt(p, r, att[p][r].n + 1, hook[row[r].hook].active) /\ UNCHANGED faults
  <2> DEFINE active == hook[row[r].hook].active
             v == [pc |-> IF active THEN "send" ELSE "record", n |-> att[p][r].n + 1,
                   out |-> IF active THEN "none" ELSE "abandoned"]
  <2>1. att[p][r].n + 1 \in 0..MaxAttempts
    BY <1>2, <1>4
  <2>2. /\ v \in AttType /\ v.n = att[p][r].n + 1
        /\ (v.pc = "send" /\ v.out = "none") \/ (v.pc = "record" /\ v.out = "abandoned")
    BY <2>1 DEF AttType, Final
  <2>3. AttTo(p, r, v)
    BY <1>6 DEF Attempt
  <2> HIDE DEF v
  <2>4. att'[p][r] = v => AttGood(p, r)'
    BY <1>1, <1>2, <1>4, <2>2 DEF AttGood
  <2>5. Used' = Used
    BY <1>6 DEF Used
  <2>6. Held(r) => (att'[p][r] = v => Numbered(p, r)')
    <3> SUFFICES ASSUME Held(r), att'[p][r] = v PROVE Numbered(p, r)'
      OBVIOUS
    <3>1. v.n = row'[r].attempt + 1 /\ sends'[r] <= row'[r].attempt + Used' /\ sends'[r] <= v.n + Used'
      BY <1>1, <1>2, <1>5, <2>2, <2>5
    <3> QED
      BY <1>2, <2>2, <3>1, <1>1 DEF Numbered
  <2>7. Held(r) => Lease(r)'
    BY <1>1, <1>2, <2>2, <2>3, <2>5, <2>6, LeaseOne
  <2> QED
    BY <1>1, <1>3, <1>6, <2>2, <2>3, <2>4, <2>7, AttemptFrame
<1>7. CASE AttTo(p, r, [att[p][r] EXCEPT !.pc = "record", !.out = "abandoned"]) /\ UNCHANGED faults
  <2> DEFINE v == [att[p][r] EXCEPT !.pc = "record", !.out = "abandoned"]
  <2>2. v \in AttType /\ v.n = att[p][r].n /\ v.pc = "record" /\ v.out = "abandoned"
    BY <1>2 DEF AttType, Final
  <2>3. AttTo(p, r, v)
    BY <1>7
  <2> HIDE DEF v
  <2>4. att'[p][r] = v => AttGood(p, r)'
    BY <1>1, <1>2, <1>4, <2>2 DEF AttGood
  <2>5. Used' = Used
    BY <1>7 DEF Used
  <2>6. Held(r) => (att'[p][r] = v => Numbered(p, r)')
    <3> SUFFICES ASSUME Held(r), att'[p][r] = v PROVE Numbered(p, r)'
      OBVIOUS
    <3>1. v.n <= row'[r].attempt + 1 /\ sends'[r] <= v.n + Used'
      BY <1>1, <1>2, <1>5, <2>2, <2>5
    <3> QED
      BY <2>2, <3>1 DEF Numbered
  <2>7. Held(r) => Lease(r)'
    BY <1>1, <1>2, <2>2, <2>3, <2>5, <2>6, LeaseOne
  <2> QED
    BY <1>1, <1>3, <1>7, <2>2, <2>3, <2>4, <2>7, AttemptFrame
<1>8. CASE Fault /\ AttTo(p, r, NoAtt)
  <2>1. NoAtt \in AttType /\ NoAtt.pc = "none" /\ NoAtt.out = "none"
    BY WebhooksAssumption DEF NoAtt, AttType
  <2>2. att'[p][r] = NoAtt => AttGood(p, r)'
    BY <2>1 DEF AttGood
  <2>3. Used' = Used + 1
    BY <1>2, <1>8, FaultMeans, WebhooksAssumption DEF Used, Fault, FaultsOnly
  <2>4. att'[p][r] = NoAtt => Numbered(p, r)'
    BY <2>1 DEF Numbered
  <2>5. Held(r) => sends'[r] <= MaxAttempts + Used' /\ sends'[r] <= row'[r].attempt + Used'
    BY <1>1, <1>2, <1>5, <2>3
  <2>6. Held(r) => Lease(r)'
    BY <1>1, <1>2, <1>8, <2>1, <2>4, <2>5, LeaseOne
  <2> QED
    BY <1>1, <1>3, <1>8, <2>1, <2>2, <2>6, AttemptFrame
<1> QED
  BY <1>6, <1>7, <1>8 DEF GetWebhook

LEMMA SendInv == ASSUME Inv, NEW a \in Sender, NEW r \in Row, Send(a, r) PROVE Inv'
<1>1. /\ att[a][r].pc = "send" /\ NotSending /\ UNCHANGED <<hook, steady, row, faults>>
      /\ sends' = [sends EXCEPT ![r] = @ + 1]
  BY DEF Send
<1>2. /\ RowOK /\ AttOK /\ LeaseOK /\ BoundOK /\ HookOK
      /\ att[a][r] \in AttType /\ AttGood(a, r) /\ row[r] \in RowType /\ row[r].status # "none" /\ row[r].hook \in Hook
      /\ att[a][r].n \in Nat /\ att[a][r].n <= MaxAttempts /\ row[r].attempt \in Nat /\ row[r].attempt <= MaxAttempts
      /\ sends[r] \in Nat /\ MaxAttempts \in Nat \ {0} /\ Used \in Nat
      /\ Held(r) => /\ Numbered(a, r) /\ sends[r] <= MaxAttempts + Used
                    /\ ~row[r].due /\ row[r].status \in {"pending", "gone"}
  BY <1>1, InProgress
<1>3. sends' \in [Row -> Nat] /\ sends'[r] = sends[r] + 1 /\ \A q \in Row \ {r} : sends'[q] = sends[q]
  BY <1>1, <1>2 DEF LeaseOK
<1>4. Held(r) => att[a][r].n = row[r].attempt + 1 /\ sends[r] <= row[r].attempt + Used
  BY <1>1, <1>2 DEF Numbered
<1>5. ASSUME NEW pc \in {"record", "disable"}, NEW out \in {"pending"} \cup Final,
             AttTo(a, r, [att[a][r] EXCEPT !.pc = pc, !.out = out]),
             out = "pending" => att[a][r].n < MaxAttempts, pc = "disable" => out = "abandoned"
      PROVE  Inv'
  <2> DEFINE v == [att[a][r] EXCEPT !.pc = pc, !.out = out]
  <2>1. v \in AttType /\ v.n = att[a][r].n /\ v.pc = pc /\ v.out = out
    BY <1>2 DEF AttType
  <2>2. AttTo(a, r, v)
    BY <1>5
  <2> HIDE DEF v
  <2>3. att'[a][r] = v => AttGood(a, r)'
    BY <1>1, <1>2, <1>5, <2>1 DEF AttGood, Final
  <2>4. Used' = Used
    BY <1>1 DEF Used
  <2>5. Held(r) => v.n <= row'[r].attempt + 1 /\ sends'[r] <= v.n + Used' /\ sends'[r] <= MaxAttempts + Used'
    BY <1>1, <1>2, <1>3, <1>4, <2>1, <2>4
  <2>6. Held(r) => (att'[a][r] = v => Numbered(a, r)')
    BY <2>1, <2>5 DEF Numbered
  <2>7. Held(r) => Lease(r)'
    BY <1>1, <1>2, <2>1, <2>2, <2>5, <2>6, LeaseOne
  <2> QED
    BY <1>1, <1>3, <2>1, <2>2, <2>3, <2>7, AttemptFrame
<1>6. AfterFailure(a, att[a][r].n) \in {"pending"} \cup Final
      /\ (AfterFailure(a, att[a][r].n) = "pending" => att[a][r].n < MaxAttempts)
  BY <1>2 DEF AfterFailure, Final
<1>7. PICK out \in {"pending"} \cup Final : out = AfterFailure(a, att[a][r].n) /\ (out = "pending" => att[a][r].n < MaxAttempts)
  BY <1>6
<1>8. \/ AttTo(a, r, [att[a][r] EXCEPT !.pc = "record", !.out = "delivered"])
      \/ AttTo(a, r, [att[a][r] EXCEPT !.pc = "disable", !.out = "abandoned"])
      \/ AttTo(a, r, [att[a][r] EXCEPT !.pc = "record", !.out = out])
  BY <1>7 DEF Send
<1>9. "delivered" \in Final /\ "abandoned" \in Final
  BY DEF Final
<1> QED
  BY <1>5, <1>7, <1>8, <1>9

LEMMA DisableWebhookInv == ASSUME Inv, NEW a \in Sender, NEW r \in Row, DisableWebhook(a, r) PROVE Inv'
<1>1. /\ att[a][r].pc = "disable" /\ NotSending /\ UNCHANGED <<row, sends>>
      /\ AttTo(a, r, [att[a][r] EXCEPT !.pc = "record"])
  BY DEF DisableWebhook
<1>2. /\ RowOK /\ AttOK /\ LeaseOK /\ BoundOK /\ HookOK
      /\ att[a][r] \in AttType /\ AttGood(a, r) /\ row[r] \in RowType /\ row[r].status # "none" /\ row[r].hook \in Hook
      /\ att[a][r].n \in Nat /\ att[a][r].n <= MaxAttempts /\ row[r].attempt \in Nat /\ row[r].attempt <= MaxAttempts
      /\ sends[r] \in Nat /\ MaxAttempts \in Nat \ {0} /\ Used \in Nat
      /\ Held(r) => /\ Numbered(a, r) /\ sends[r] <= MaxAttempts + Used
                    /\ ~row[r].due /\ row[r].status \in {"pending", "gone"}
  BY <1>1, InProgress
<1> DEFINE v == [att[a][r] EXCEPT !.pc = "record"]
<1>3. v \in AttType /\ v.n = att[a][r].n /\ v.pc = "record" /\ v.out = "abandoned" /\ AttTo(a, r, v)
  BY <1>1, <1>2 DEF AttType, AttGood
<1> HIDE DEF v
<1>4. Fault \/ UNCHANGED faults
  BY DEF DisableWebhook
<1>5. FaultsOnly /\ Used' \in Int /\ Used' >= Used /\ BoundOK'
  BY <1>1, <1>2, <1>4, FaultMeans, WebhooksAssumption DEF Used, FaultsOnly, BoundOK, NotSending
<1>6. PICK h \in Hook : h = row[r].hook
  BY <1>2
<1>7. /\ HookOK' /\ SteadyShrinks /\ \A g \in Hook : hook[g].state = "deleted" => hook'[g].state = "deleted"
  <2>1. CASE UNCHANGED <<hook, steady>>
    BY <1>2, <2>1 DEF HookOK, SteadyShrinks
  <2>2. CASE /\ hook' = [hook EXCEPT ![h].active = IF Live(h) THEN FALSE ELSE @]
             /\ steady' = [steady EXCEPT ![h] = FALSE]
    <3>1. hook[h] \in HookType
      BY <1>2 DEF HookOK
    <3>2. /\ hook' \in [Hook -> HookType] /\ \A g \in Hook : hook'[g].state = hook[g].state
          /\ \A g \in Hook \ {h} : hook'[g] = hook[g]
      BY <1>2, <2>2, <3>1 DEF HookOK, HookType
    <3> QED
      BY <1>2, <2>2, <3>2 DEF HookOK, SteadyShrinks
  <2> QED
    BY <1>6, <2>1, <2>2 DEF DisableWebhook
<1>8. RowsGrow /\ RowOK'
  BY <1>1, <1>2, <1>7, RowsSame, RowKept
<1>9. AttOK'
  <2>1. att'[a][r] = v => AttGood(a, r)'
    BY <1>1, <1>2, <1>3 DEF AttGood
  <2> QED
    BY <1>2, <1>3, <1>8, <2>1, AttToKept
<1>10. LeaseOK'
  <2>1. Held(r) => att[a][r].n <= row[r].attempt + 1 /\ sends[r] <= att[a][r].n + Used
    BY <1>1, <1>2 DEF Numbered
  <2>2. Held(r) => v.n <= row'[r].attempt + 1 /\ sends'[r] <= v.n + Used' /\ sends'[r] <= MaxAttempts + Used'
    BY <1>1, <1>2, <1>3, <1>5, <2>1
  <2>3. Held(r) => (att'[a][r] = v => Numbered(a, r)')
    BY <1>3, <2>2 DEF Numbered
  <2>4. Held(r) => Lease(r)'
    BY <1>1, <1>2, <1>3, <2>2, <2>3, LeaseOne
  <2>5. Held(r)' => Lease(r)'
    BY <1>1, <2>4 DEF Held
  <2>6. \A q \in Row \ {r} : \A b \in Sender : att'[b][q] = att[b][q]
    BY <1>2, <1>3, AttToMeans
  <2>7. sends' \in [Row -> Nat]
    BY <1>1, <1>2 DEF LeaseOK
  <2> QED
    BY <1>1, <1>2, <1>5, <2>5, <2>6, <2>7, LeaseOthers
<1>11. EventOK' /\ CallOK' /\ FailsGrow
  BY <1>1, EventKept, CallKept, FailsSame DEF Inv, NotSending
<1>12. DispOK' /\ FanOutComplete'
  BY <1>1, <1>7, <1>8, <1>11, DispKept, FanOutSame DEF Inv, NotSending
<1> QED
  BY <1>5, <1>7, <1>8, <1>9, <1>10, <1>11, <1>12 DEF Inv
\* RecordAttempt writes the outcome over whatever the row says: only the lease keeps it from
\* overwriting another attempt's.
LEMMA RecordAttemptInv == ASSUME Inv, NEW a \in Sender, NEW r \in Row, RecordAttempt(a, r) PROVE Inv'
<1>1. /\ att[a][r].pc = "record" /\ NotSending /\ UNCHANGED <<hook, steady, sends>> /\ AttTo(a, r, NoAtt)
  BY DEF RecordAttempt
<1>2. /\ RowOK /\ AttOK /\ LeaseOK /\ BoundOK /\ HookOK
      /\ att[a][r] \in AttType /\ AttGood(a, r) /\ row[r] \in RowType /\ row[r].status # "none" /\ row[r].hook \in Hook
      /\ att[a][r].n \in Nat /\ att[a][r].n <= MaxAttempts /\ row[r].attempt \in Nat /\ row[r].attempt <= MaxAttempts
      /\ sends[r] \in Nat /\ MaxAttempts \in Nat \ {0} /\ Used \in Nat
      /\ Held(r) => /\ Numbered(a, r) /\ sends[r] <= MaxAttempts + Used
                    /\ ~row[r].due /\ row[r].status \in {"pending", "gone"}
  BY <1>1, InProgress
<1>3. NoAtt \in AttType /\ NoAtt.pc = "none" /\ NoAtt.out = "none"
  BY WebhooksAssumption DEF NoAtt, AttType
<1>4. Held(r) => att[a][r].n <= row[r].attempt + 1 /\ sends[r] <= att[a][r].n + Used
  BY <1>1, <1>2 DEF Numbered
<1>5. att'[a][r] = NoAtt => AttGood(a, r)' /\ Numbered(a, r)'
  BY <1>3 DEF AttGood, Numbered
<1>6. sends' \in [Row -> Nat]
  BY <1>1, <1>2 DEF LeaseOK
<1>7. CASE Fault /\ UNCHANGED row
  <2>1. Used' = Used + 1
    BY <1>2, <1>7, FaultMeans, WebhooksAssumption DEF Used, Fault, FaultsOnly
  <2>2. Held(r) => sends'[r] <= MaxAttempts + Used' /\ sends'[r] <= row'[r].attempt + Used'
    BY <1>1, <1>2, <1>4, <1>7, <2>1
  <2>3. Held(r) => Lease(r)'
    BY <1>1, <1>2, <1>3, <1>5, <2>2, LeaseOne
  <2> QED
    BY <1>1, <1>3, <1>5, <1>6, <1>7, <2>3, AttemptFrame
<1>8. CASE UNCHANGED faults /\ row[r].status = "gone" /\ UNCHANGED row
  <2>1. Used' = Used
    BY <1>8 DEF Used
  <2>2. Held(r) => sends'[r] <= MaxAttempts + Used' /\ row'[r].status # "pending"
    BY <1>1, <1>2, <1>8, <2>1
  <2>3. Held(r) => Lease(r)'
    BY <1>1, <1>2, <1>3, <1>5, <2>2, LeaseOne
  <2> QED
    BY <1>1, <1>3, <1>5, <1>6, <1>8, <2>3, AttemptFrame
<1>9. CASE /\ UNCHANGED faults /\ row[r].status # "gone"
           /\ row' = [row EXCEPT ![r].status = att[a][r].out, ![r].attempt = att[a][r].n, ![r].due = FALSE]
  <2>1. PICK out \in {"pending"} \cup Final : out = att[a][r].out
    BY <1>1, <1>2 DEF AttGood, AttType
  <2>2. PICK n \in 0..MaxAttempts : n = att[a][r].n
    BY <1>2
  <2> DEFINE w == [row[r] EXCEPT !.status = out, !.attempt = n, !.due = FALSE]
  <2>3. /\ w \in RowType /\ w.status = out /\ w.attempt = n /\ ~w.due /\ w.hook = row[r].hook
        /\ w.event = row[r].event /\ w.kind = row[r].kind /\ w.late = row[r].late
    BY <1>2 DEF RowType, RowStatus
  <2>4. row' = [row EXCEPT ![r] = w]
    BY <1>2, <1>9, <2>1, <2>2 DEF RowOK
  <2> HIDE DEF w
  <2>5. row' \in [Row -> RowType] /\ row'[r] = w /\ \A q \in Row \ {r} : row'[q] = row[q]
    BY <1>2, <2>3, <2>4 DEF RowOK
  <2>6. out # "none" /\ out # "gone" /\ (out = "pending" => n < MaxAttempts)
    BY <1>2, <2>1, <2>2 DEF AttGood, Final
  <2>7. RowsGrow
    BY <2>3, <2>5, <2>6 DEF RowsGrow
  <2>8. RowOK'
    <3>1. /\ \A q \in Row : row'[q].status = "none" => row'[q].kind = "none" /\ row'[q].hook = "none"
          /\ \A q \in Row : row'[q].status # "none" => row'[q].kind # "none" /\ row'[q].hook \in Hook
          /\ \A q \in Row : row'[q].status = "gone" => hook'[row'[q].hook].state = "deleted"
      BY <1>1, <1>2, <2>3, <2>5, <2>6 DEF RowOK
    <3>2. \A q \in Row : row'[q].status = "pending" => row'[q].attempt < MaxAttempts
      BY <1>2, <2>3, <2>5, <2>6 DEF RowOK
    <3>3. \A p, q \in Row : row'[p].kind = "event" /\ row'[q].kind = "event" /\ row'[p].hook = row'[q].hook
                              /\ row'[p].event = row'[q].event => p = q
      BY <1>2, <2>3, <2>5 DEF RowOK
    <3> QED
      BY <2>5, <3>1, <3>2, <3>3 DEF RowOK
  <2>9. AttOK'
    BY <1>1, <1>2, <1>3, <1>5, <2>7, AttToKept
  <2>10. Used' = Used
    BY <1>9 DEF Used
  <2>11. Held(r) => sends'[r] <= MaxAttempts + Used' /\ sends'[r] <= row'[r].attempt + Used'
    BY <1>1, <1>2, <1>4, <2>2, <2>3, <2>5, <2>10
  <2>12. Held(r) => Lease(r)'
    BY <1>1, <1>2, <1>3, <1>5, <2>11, LeaseOne
  <2>13. Held(r)' => Lease(r)'
    BY <2>3, <2>5, <2>12 DEF Held
  <2>14. \A q \in Row \ {r} : \A b \in Sender : att'[b][q] = att[b][q]
    BY <1>1, <1>2, <1>3, AttToMeans
  <2>15. FaultsOnly /\ row'[r].status # "none"
    BY <1>2, <1>9, <2>3, <2>5, <2>6, FaultMeans
  <2>16. LeaseOK'
    BY <1>1, <1>2, <1>6, <2>5, <2>13, <2>14, <2>15, LeaseOthers
  <2> QED
    BY <1>1, <1>9, <2>7, <2>8, <2>9, <2>16, SenderFrame DEF NotSending
<1>10. \/ Fault /\ UNCHANGED row
       \/ UNCHANGED faults /\ row[r].status = "gone" /\ UNCHANGED row
       \/ UNCHANGED faults /\ row[r].status # "gone"
          /\ row' = [row EXCEPT ![r].status = att[a][r].out, ![r].attempt = att[a][r].n, ![r].due = FALSE]
  BY DEF RecordAttempt
<1> QED
  BY <1>7, <1>8, <1>9, <1>10

LEMMA ElapseInv == ASSUME Inv, NEW r \in Row, Elapse(r) PROVE Inv'
<1>1. /\ RowOK /\ AttOK /\ LeaseOK /\ BoundOK /\ row[r].status = "pending" /\ row[r] \in RowType
      /\ UNCHANGED <<project, event, handled, disp, hook, steady, att, sends, call, calls>>
      /\ Fault \/ UNCHANGED faults
  BY DEF Inv, Elapse, RowOK
<1>2. PICK late \in BOOLEAN : late = (row[r].late \/ InFlight(r))
  BY <1>1 DEF RowType
<1> DEFINE w == [row[r] EXCEPT !.due = TRUE, !.late = late]
<1>3. /\ w \in RowType /\ w.status = "pending" /\ w.attempt = row[r].attempt /\ w.due /\ w.hook = row[r].hook
      /\ w.event = row[r].event /\ w.kind = row[r].kind /\ w.late = late
  BY <1>1 DEF RowType
<1>4. row' = [row EXCEPT ![r] = w]
  BY <1>1, <1>2 DEF Elapse, RowOK
<1> HIDE DEF w
<1>5. row' \in [Row -> RowType] /\ row'[r] = w /\ \A q \in Row \ {r} : row'[q] = row[q]
  BY <1>1, <1>3, <1>4 DEF RowOK
<1>6. RowOK' /\ RowsGrow
  BY <1>1, <1>3, <1>5, RowsLike
<1>7. AttOK'
  BY <1>1, <1>6, AttKept
<1>8. FaultsOnly /\ Used \in Int /\ Used' \in Int /\ Used' >= Used
  BY <1>1, FaultMeans, WebhooksAssumption DEF Used, FaultsOnly
<1>9. Held(r)' => Lease(r)'
  <2> SUFFICES ASSUME Held(r)' PROVE Lease(r)'
    OBVIOUS
  <2>1. Held(r) /\ Lease(r) /\ ~InFlight(r) /\ ~InFlight(r)'
    BY <1>1, <1>2, <1>3, <1>5 DEF Held, LeaseOK, InFlight
  <2>2. sends[r] <= row[r].attempt + Used /\ sends[r] <= MaxAttempts + Used
    BY <1>1, <2>1 DEF Lease
  <2>3. sends'[r] <= row'[r].attempt + Used' /\ sends'[r] <= MaxAttempts + Used'
    BY <1>1, <1>3, <1>5, <1>8, <2>2, RowNumbers
  <2>4. /\ \A a \in Sender : Numbered(a, r)'
        /\ \A a, b \in Sender : att'[a][r].pc # "none" /\ att'[b][r].pc # "none" => a = b
    BY <2>1 DEF Numbered, InFlight
  <2> QED
    BY <2>1, <2>3, <2>4 DEF Lease
<1>10. LeaseOK'
  <2>1. sends' \in [Row -> Nat] /\ row'[r].status # "none"
    BY <1>1, <1>3, <1>5 DEF LeaseOK
  <2> QED
    BY <1>1, <1>5, <1>8, <1>9, <2>1, LeaseOthers
<1> QED
  BY <1>1, <1>6, <1>7, <1>10, SenderFrame

-----------------------------------------------------------------------------
(* The API.                                                                *)

LEMMA CallToMeans ==
    ASSUME CallOK, NEW c \in Client, NEW v \in CallType, CallTo(c, v), v.pc # "idle" => v.hook \in Hook,
           v.pc = "redeliver" => v.row \in Row
    PROVE  CallOK'
BY DEF CallOK, CallTo

LEMMA AskMeans == ASSUME BoundOK, NEW c \in Client, Ask(c) PROVE calls' \in 0..MaxCalls
BY WebhooksAssumption DEF BoundOK, Ask

\* A step that changes a client's call only.
LEMMA CallFrame ==
    ASSUME Inv, NotCalled, UNCHANGED <<hook, steady, row, att>>, CallOK', calls' \in 0..MaxCalls
    PROVE  Inv'
<1>1. RowsGrow /\ RowOK'
  BY RowsSame, RowKept DEF Inv
<1>2. AttOK' /\ LeaseOK'
  BY <1>1, AttKept, LeaseKept, FaultMeans DEF Inv, NotCalled
<1>3. EventOK' /\ HookOK' /\ SteadyShrinks /\ FailsGrow
  BY EventKept, HookKept, SteadySame, FailsSame DEF Inv, NotCalled
<1>4. DispOK' /\ FanOutComplete'
  BY <1>1, <1>3, DispKept, FanOutSame DEF Inv, NotCalled
<1>5. BoundOK'
  BY DEF Inv, BoundOK, NotCalled
<1> QED
  BY <1>1, <1>2, <1>3, <1>4, <1>5 DEF Inv

LEMMA NoCallMeans == NoCall \in CallType /\ NoCall.pc = "idle"
BY DEF NoCall, CallType

LEMMA CreateInv == ASSUME Inv, NEW c \in Client, NEW h \in Hook, Create(c, h) PROVE Inv'
<1>1. PICK active \in BOOLEAN : CallTo(c, [NoCall EXCEPT !.pc = "create", !.hook = h, !.active = active])
  BY DEF Create
<1> DEFINE v == [NoCall EXCEPT !.pc = "create", !.hook = h, !.active = active]
<1>2. v \in CallType /\ v.pc = "create" /\ v.hook = h /\ CallTo(c, v)
  BY <1>1 DEF NoCall, CallType
<1> HIDE DEF v
<1>3. CallOK' /\ calls' \in 0..MaxCalls
  BY <1>2, CallToMeans, AskMeans DEF Create, Inv
<1> QED
  BY <1>3, CallFrame DEF Create

LEMMA UpdateInv == ASSUME Inv, NEW c \in Client, NEW h \in Hook, Update(c, h) PROVE Inv'
<1>0. hook[h].active \in BOOLEAN
  BY DEF Inv, HookOK, HookType
<1>1. PICK active \in BOOLEAN : CallTo(c, [NoCall EXCEPT !.pc = "update", !.hook = h, !.active = active])
  BY <1>0 DEF Update
<1> DEFINE v == [NoCall EXCEPT !.pc = "update", !.hook = h, !.active = active]
<1>2. v \in CallType /\ v.pc = "update" /\ v.hook = h /\ CallTo(c, v)
  BY <1>1 DEF NoCall, CallType
<1> HIDE DEF v
<1>3. CallOK' /\ calls' \in 0..MaxCalls
  BY <1>2, CallToMeans, AskMeans DEF Update, Inv
<1> QED
  BY <1>3, CallFrame DEF Update

LEMMA SendTestInv == ASSUME Inv, NEW c \in Client, NEW h \in Hook, SendTest(c, h) PROVE Inv'
<1>1. PICK active \in BOOLEAN : CallTo(c, [NoCall EXCEPT !.pc = "test", !.hook = h, !.active = active])
  BY DEF SendTest, Inv, HookOK, HookType
<1> DEFINE v == [NoCall EXCEPT !.pc = "test", !.hook = h, !.active = active]
<1>2. v \in CallType /\ v.pc = "test" /\ v.hook = h /\ CallTo(c, v)
  BY <1>1 DEF NoCall, CallType
<1> HIDE DEF v
<1>3. CallOK' /\ calls' \in 0..MaxCalls
  BY <1>2, CallToMeans, AskMeans DEF SendTest, Inv
<1> QED
  BY <1>3, CallFrame DEF SendTest

LEMMA RedeliverInv == ASSUME Inv, NEW c \in Client, NEW r \in Row, Redeliver(c, r) PROVE Inv'
<1>1. PICK h \in Hook : h = row[r].hook
  BY DEF Redeliver, Inv, RowOK
<1> DEFINE v == [NoCall EXCEPT !.pc = "redeliver", !.hook = h, !.row = r]
<1>2. v \in CallType /\ v.pc = "redeliver" /\ v.hook = h /\ v.row = r
  BY DEF NoCall, CallType
<1>3. CallTo(c, v)
  BY <1>1 DEF Redeliver
<1> HIDE DEF v
<1>4. CallOK' /\ calls' \in 0..MaxCalls
  BY <1>2, <1>3, CallToMeans, AskMeans DEF Redeliver, Inv
<1> QED
  BY <1>4, CallFrame DEF Redeliver
\* A step that changes webhooks and a client's call.
LEMMA HookFrame ==
    ASSUME Inv, NotCalled, UNCHANGED <<row, att, calls>>, CallOK', HookOK', SteadyShrinks,
           \A h \in Hook : hook[h].state = "deleted" => hook'[h].state = "deleted"
    PROVE  Inv'
<1>1. RowsGrow /\ RowOK'
  BY RowsSame, RowKept DEF Inv
<1>2. AttOK' /\ LeaseOK'
  BY <1>1, AttKept, LeaseKept, FaultMeans DEF Inv, NotCalled
<1>3. EventOK' /\ FailsGrow
  BY EventKept, FailsSame DEF Inv, NotCalled
<1>4. DispOK' /\ FanOutComplete'
  BY <1>1, <1>3, DispKept, FanOutSame DEF Inv, NotCalled
<1>5. BoundOK'
  BY DEF Inv, BoundOK, NotCalled
<1> QED
  BY <1>1, <1>2, <1>3, <1>4, <1>5 DEF Inv

LEMMA CreateWebhookInv == ASSUME Inv, NEW c \in Client, CreateWebhook(c) PROVE Inv'
<1>1. CallOK /\ HookOK /\ call[c] \in CallType /\ call[c].hook \in Hook /\ CallOK'
  BY NoCallMeans, CallToMeans DEF Inv, CallOK, CreateWebhook
<1>2. PICK h \in Hook : h = call[c].hook
  BY <1>1
<1>3. UNCHANGED hook \/ (hook[h].state = "none" /\ hook' = [hook EXCEPT ![h] = [state |-> "live", active |-> call[c].active]])
  BY <1>2 DEF CreateWebhook
<1>4. UNCHANGED steady /\ SteadyShrinks
  BY SteadySame DEF CreateWebhook
<1>5. /\ hook' \in [Hook -> HookType]
      /\ \A g \in Hook : hook'[g] = hook[g] \/ hook[g].state = "none"
  BY <1>1, <1>3 DEF HookOK, HookType, CallType
<1>6. HookOK' /\ \A g \in Hook : hook[g].state = "deleted" => hook'[g].state = "deleted"
  BY <1>1, <1>4, <1>5 DEF HookOK
<1> QED
  BY <1>1, <1>4, <1>6, HookFrame DEF CreateWebhook

LEMMA UpdateWebhookInv == ASSUME Inv, NEW c \in Client, UpdateWebhook(c) PROVE Inv'
<1>1. CallOK /\ HookOK /\ call[c] \in CallType /\ call[c].hook \in Hook /\ CallOK'
  BY NoCallMeans, CallToMeans DEF Inv, CallOK, UpdateWebhook
<1>2. PICK h \in Hook : h = call[c].hook
  BY <1>1
<1>3. PICK active \in BOOLEAN : active = call[c].active
  BY <1>1 DEF CallType
<1>4. /\ UNCHANGED hook \/ hook' = [hook EXCEPT ![h].active = active]
      /\ hook[h].state = "live" => hook' = [hook EXCEPT ![h].active = active]
      /\ steady' = [steady EXCEPT ![h] = @ /\ active]
  BY <1>2, <1>3 DEF UpdateWebhook, Live
<1>5. hook[h] \in HookType
  BY <1>1 DEF HookOK
<1>6. /\ hook' \in [Hook -> HookType] /\ \A g \in Hook : hook'[g].state = hook[g].state
      /\ \A g \in Hook \ {h} : hook'[g] = hook[g]
      /\ hook[h].state = "live" => hook'[h].active = active
  BY <1>1, <1>4, <1>5 DEF HookOK, HookType
<1>7. /\ steady' \in [Hook -> BOOLEAN] /\ \A g \in Hook : steady'[g] => steady[g]
      /\ steady'[h] => active
  BY <1>1, <1>4 DEF HookOK
<1>8. HookOK' /\ SteadyShrinks
  BY <1>1, <1>6, <1>7 DEF HookOK, SteadyShrinks
<1> QED
  BY <1>1, <1>6, <1>8, HookFrame DEF UpdateWebhook

\* Its deliveries go with a webhook; an attempt of one of them is ignored when it is recorded.
LEMMA DeleteInv == ASSUME Inv, NEW c \in Client, NEW h \in Hook, Delete(c, h) PROVE Inv'
<1>1. /\ RowOK /\ AttOK /\ LeaseOK /\ BoundOK /\ HookOK /\ NotCalled /\ UNCHANGED <<att, call, sends, faults, project, event>>
      /\ hook' = [hook EXCEPT ![h] = [state |-> "deleted", active |-> FALSE]]
      /\ steady' = [steady EXCEPT ![h] = FALSE] /\ calls' \in 0..MaxCalls
      /\ row' = [r \in Row |-> IF row[r].hook = h THEN [row[r] EXCEPT !.status = "gone", !.due = FALSE] ELSE row[r]]
  BY AskMeans DEF Inv, Delete, NotCalled
<1>2. /\ row' \in [Row -> RowType]
      /\ \A r \in Row : /\ row'[r].hook = row[r].hook /\ row'[r].event = row[r].event /\ row'[r].kind = row[r].kind
                        /\ row'[r].attempt = row[r].attempt /\ row'[r].late = row[r].late
                        /\ (row[r].hook # h => row'[r] = row[r])
                        /\ (row[r].hook = h => row'[r].status = "gone" /\ ~row'[r].due)
  <2>1. \A r \in Row : row[r] \in RowType
    BY <1>1 DEF RowOK
  <2>2. \A v \in RowType : /\ [v EXCEPT !.status = "gone", !.due = FALSE] \in RowType
                           /\ [v EXCEPT !.status = "gone", !.due = FALSE].hook = v.hook
                           /\ [v EXCEPT !.status = "gone", !.due = FALSE].event = v.event
                           /\ [v EXCEPT !.status = "gone", !.due = FALSE].kind = v.kind
                           /\ [v EXCEPT !.status = "gone", !.due = FALSE].attempt = v.attempt
                           /\ [v EXCEPT !.status = "gone", !.due = FALSE].late = v.late
                           /\ [v EXCEPT !.status = "gone", !.due = FALSE].status = "gone"
                           /\ [v EXCEPT !.status = "gone", !.due = FALSE].due = FALSE
    BY DEF RowType, RowStatus
  <2> QED
    BY <1>1, <2>1, <2>2
<1>0. RowOK
  BY <1>1
<1>3. \A r \in Row : row[r].hook = h => row[r].status # "none"
  BY <1>1, WebhooksAssumption DEF RowOK
<1>4. RowsGrow
  BY <1>2 DEF RowsGrow
<1>5. /\ HookOK' /\ SteadyShrinks /\ hook'[h].state = "deleted" /\ \A g \in Hook \ {h} : hook'[g] = hook[g]
  BY <1>1 DEF HookOK, HookType, SteadyShrinks
<1>6. RowOK'
  <2>1. /\ \A r \in Row : row'[r].status = "none" => row'[r].kind = "none" /\ row'[r].hook = "none"
        /\ \A r \in Row : row'[r].status # "none" => row'[r].kind # "none" /\ row'[r].hook \in Hook
    BY <1>0, <1>2, <1>3 DEF RowOK
  <2>2. \A r \in Row : row'[r].status = "gone" => hook'[row'[r].hook].state = "deleted"
    <3> SUFFICES ASSUME NEW r \in Row, row'[r].status = "gone" PROVE hook'[row'[r].hook].state = "deleted"
      OBVIOUS
    <3>1. CASE row[r].hook = h
      BY <1>2, <1>5, <3>1
    <3>2. CASE row[r].hook # h
      BY <1>0, <1>2, <1>5, <3>2 DEF RowOK
    <3> QED
      BY <3>1, <3>2
  <2>3. \A r \in Row : row'[r].status = "pending" => row'[r].attempt < MaxAttempts
    BY <1>0, <1>2 DEF RowOK
  <2>4. \A q, r \in Row : row'[q].kind = "event" /\ row'[r].kind = "event" /\ row'[q].hook = row'[r].hook
                            /\ row'[q].event = row'[r].event => q = r
    BY <1>0, <1>2 DEF RowOK
  <2> QED
    BY <1>2, <2>1, <2>2, <2>3, <2>4 DEF RowOK
<1>7. AttOK'
  BY <1>1, <1>4, AttKept
<1>8. FaultsOnly /\ Used' = Used
  BY <1>1, FaultMeans DEF Used
<1>9. ASSUME NEW r \in Row, Held(r)' PROVE Lease(r)'
  <2>1. CASE row[r].hook # h
    BY <1>1, <1>2, <1>8, <1>9, <2>1, LeaseAlone
  <2>2. CASE row[r].hook = h
    <3>1. Lease(r)
      BY <1>1, <1>2, <1>9 DEF Held, LeaseOK
    <3>2. row'[r].status = "gone" /\ ~row'[r].due /\ row'[r].attempt = row[r].attempt
      BY <1>2, <2>2
    <3>3. sends'[r] <= MaxAttempts + Used'
      BY <1>1, <1>8, <3>1 DEF Lease
    <3>4. \A a \in Sender : Numbered(a, r)'
      BY <1>1, <1>8, <3>1, <3>2 DEF Lease, Numbered
    <3>5. \A a, b \in Sender : att'[a][r].pc # "none" /\ att'[b][r].pc # "none" => a = b
      BY <1>1, <3>1 DEF Lease
    <3> QED
      BY <3>2, <3>3, <3>4, <3>5 DEF Lease
  <2> QED
    BY <2>1, <2>2
<1>10. LeaseOK'
  BY <1>1, <1>2, <1>3, <1>9 DEF LeaseOK
<1>11. EventOK' /\ CallOK' /\ FailsGrow /\ BoundOK'
  BY <1>1, EventKept, CallKept, FailsSame DEF Inv, NotCalled, BoundOK
<1>12. DispOK' /\ FanOutComplete'
  BY <1>1, <1>4, <1>5, <1>11, DispKept, FanOutSame DEF Inv, NotCalled
<1> QED
  BY <1>5, <1>6, <1>7, <1>10, <1>11, <1>12 DEF Inv

\* A client's call made a delivery.
LEMMA InsertFrame ==
    ASSUME Inv, NotCalled, UNCHANGED <<hook, steady, calls>>, CallOK', RowOK', RowsGrow, AttOK', LeaseOK'
    PROVE  Inv'
<1>1. EventOK' /\ HookOK' /\ SteadyShrinks /\ FailsGrow
  BY EventKept, HookKept, SteadySame, FailsSame DEF Inv, NotCalled
<1>2. DispOK' /\ FanOutComplete'
  BY <1>1, DispKept, FanOutSame DEF Inv, NotCalled
<1>3. BoundOK'
  BY DEF Inv, BoundOK, NotCalled
<1> QED
  BY <1>1, <1>2, <1>3 DEF Inv

LEMMA RedeliverInsertInv == ASSUME Inv, NEW c \in Client, RedeliverInsert(c) PROVE Inv'
<1>1. /\ CallOK /\ RowOK /\ BoundOK /\ AttOK /\ LeaseOK /\ CallOK' /\ call[c].hook \in Hook /\ call[c].row \in Row
      /\ NotCalled /\ UNCHANGED <<hook, steady, att, calls, sends, faults>>
  BY NoCallMeans, CallToMeans DEF Inv, CallOK, RedeliverInsert, NotCalled
<1>2. PICK h \in Hook : h = call[c].hook
  BY <1>1
<1>3. PICK e \in Event \cup {"none"} : e = row[call[c].row].event
  BY <1>1 DEF RowOK, RowType
<1>4. CASE UNCHANGED row
  BY <1>1, <1>4, CallFrame DEF Inv, BoundOK
<1>5. CASE Live(h) /\ InsertDelivery(h, e, "redelivery")
  <2>1. Inserted(h, e, "redelivery")
    BY <1>1, <1>5, InsertMeans
  <2>2. RowOK' /\ RowsGrow
    BY <1>1, <2>1, InsertedMeans
  <2>3. PICK r \in Row : /\ row[r].status = "none" /\ row'[r].status = "pending"
                         /\ row'[r].attempt = 0 /\ \A q \in Row \ {r} : row'[q] = row[q]
    BY <1>1, <2>1, InsertedMeans
  <2>4. LeaseOK' /\ AttOK'
    BY <1>1, <2>2, <2>3, LeaseInserted, AttKept
  <2> QED
    BY <1>1, <2>2, <2>4, InsertFrame
<1> QED
  BY <1>2, <1>3, <1>4, <1>5 DEF RedeliverInsert

LEMMA SendTestInsertInv == ASSUME Inv, NEW c \in Client, SendTestInsert(c) PROVE Inv'
<1>1. /\ CallOK /\ RowOK /\ BoundOK /\ AttOK /\ LeaseOK /\ CallOK' /\ call[c].hook \in Hook /\ call[c] \in CallType
      /\ NotCalled /\ UNCHANGED <<hook, steady, calls, sends, faults>> /\ c \in Sender
  BY NoCallMeans, CallToMeans DEF Inv, CallOK, SendTestInsert, NotCalled, Sender
<1>2. PICK h \in Hook : h = call[c].hook
  BY <1>1
<1>3. PICK active \in BOOLEAN : active = call[c].active
  BY <1>1 DEF CallType
<1>4. CASE UNCHANGED <<row, att>>
  BY <1>1, <1>4, CallFrame DEF Inv, BoundOK
<1>5. CASE Live(h) /\ InsertDelivery(h, "none", "test") /\ Attempt(c, NewRow, 1, active)
  <2>1. Unused # {} /\ Insert(h, "none", "test")
    BY <1>5 DEF InsertDelivery
  <2>2. PICK r \in Row : r = NewRow /\ row[r].status = "none"
    BY <2>1, NewRowMeans DEF Unused
  <2>3. Inserted(h, "none", "test")
    BY <1>1, <1>5, InsertMeans
  <2>4. RowOK' /\ RowsGrow
    BY <1>1, <2>3, InsertedMeans
  <2> DEFINE w == [hook |-> h, event |-> "none", kind |-> "test", status |-> "pending",
                   attempt |-> 0, due |-> TRUE, late |-> FALSE]
  <2>5. row' = [row EXCEPT ![r] = w] /\ w.kind = "test" /\ w.status = "pending"
    BY <2>1, <2>2 DEF Insert
  <2> HIDE DEF w
  <2>6. row'[r].kind = "test" /\ row'[r].status = "pending" /\ \A q \in Row \ {r} : row'[q] = row[q]
    BY <1>1, <2>5 DEF RowOK
  <2> DEFINE v == [pc |-> IF active THEN "send" ELSE "record", n |-> 1,
                   out |-> IF active THEN "none" ELSE "abandoned"]
  <2>7. 1 \in 0..MaxAttempts
    BY WebhooksAssumption
  <2>8. /\ v \in AttType
        /\ (v.pc = "send" /\ v.out = "none") \/ (v.pc = "record" /\ v.out = "abandoned")
    BY <2>7 DEF AttType, Final
  <2>9. AttTo(c, r, v)
    BY <1>5, <2>2 DEF Attempt
  <2> HIDE DEF v
  <2>10. att'[c][r] = v => AttGood(c, r)'
    BY <2>6, <2>8 DEF AttGood
  <2>11. AttOK'
    BY <1>1, <2>4, <2>8, <2>9, <2>10, AttToKept
  <2>12. \A q \in Row \ {r} : \A b \in Sender : att'[b][q] = att[b][q]
    BY <1>1, <2>8, <2>9, AttToMeans
  <2>13. ~Held(r)' /\ FaultsOnly /\ sends' \in [Row -> Nat] /\ row'[r].status # "none"
    BY <1>1, <2>6, FaultMeans DEF Held, LeaseOK
  <2>14. LeaseOK'
    BY <1>1, <2>6, <2>12, <2>13, LeaseOthers
  <2> QED
    BY <1>1, <2>4, <2>11, <2>14, InsertFrame
<1> QED
  BY <1>2, <1>3, <1>4, <1>5 DEF SendTestInsert

LEMMA DeleteProjectInv == ASSUME Inv, NEW c \in Client, DeleteProject(c) PROVE Inv'
<1>1. /\ calls' \in 0..MaxCalls /\ project' = FALSE
      /\ UNCHANGED <<event, handled, disp, hook, steady, row, att, sends, call, faults>>
  BY AskMeans DEF Inv, DeleteProject
<1>2. RowsGrow /\ RowOK' /\ EventOK' /\ HookOK' /\ SteadyShrinks /\ FailsGrow /\ CallOK'
  BY <1>1, RowsSame, RowKept, EventKept, HookKept, SteadySame, FailsSame, CallKept DEF Inv
<1>3. AttOK' /\ LeaseOK' /\ DispOK'
  BY <1>1, <1>2, AttKept, LeaseKept, FaultMeans, DispKept DEF Inv
<1>4. FanOutComplete' /\ BoundOK'
  BY <1>1 DEF FanOutComplete, Inv, BoundOK
<1> QED
  BY <1>2, <1>3, <1>4 DEF Inv

-----------------------------------------------------------------------------
(* The invariant, and what follows from it.                                *)

LEMMA InitInv == Init => Inv
<1> SUFFICES ASSUME Init PROVE Inv
  OBVIOUS
<1>1. BoundOK /\ EventOK
  BY WebhooksAssumption DEF Init, BoundOK, EventOK, EventType
<1>2. HookOK
  <2>1. PICK live \in SUBSET Hook :
          /\ hook = [h \in Hook |-> [state |-> IF h \in live THEN "live" ELSE "none", active |-> h \in live]]
          /\ steady = [h \in Hook |-> h \in live]
    BY DEF Init
  <2>2. hook \in [Hook -> HookType] /\ steady \in [Hook -> BOOLEAN]
    BY <2>1 DEF HookType
  <2>3. \A h \in Hook : steady[h] => hook[h].state = "live" /\ hook[h].active
    BY <2>1
  <2> QED
    BY <2>2, <2>3 DEF HookOK
<1>3. CallOK
  BY NoCallMeans DEF Init, CallOK
<1> DEFINE none == [hook |-> "none", event |-> "none", kind |-> "none", status |-> "none",
                    attempt |-> 0, due |-> FALSE, late |-> FALSE]
<1>4. none \in RowType /\ none.status = "none" /\ none.kind = "none" /\ none.hook = "none" /\ ~none.late
  BY WebhooksAssumption DEF RowType, RowStatus
<1>5. row = [r \in Row |-> none]
  BY DEF Init
<1> HIDE DEF none
<1>6. RowOK
  BY <1>4, <1>5 DEF RowOK
<1>7. DispOK
  <2>1. NoDisp \in DispType /\ NoDisp.pc = "idle"
    BY DEF NoDisp, DispType
  <2>2. disp = [d \in Dispatcher |-> NoDisp]
    BY DEF Init
  <2> QED
    BY <2>1, <2>2 DEF DispOK, DispGood
<1>8. NoAtt \in AttType /\ NoAtt.pc = "none" /\ NoAtt.out = "none" /\ att = [a \in Sender |-> [r \in Row |-> NoAtt]]
  BY WebhooksAssumption DEF NoAtt, AttType, Init
<1>9. AttOK
  BY <1>8 DEF AttOK, AttGood
<1>10. LeaseOK
  <2>1. \A r \in Row : ~InFlight(r) /\ (\A a \in Sender : att[a][r].pc = "none") /\ sends[r] = 0 /\ row[r].status = "none"
    BY <1>4, <1>5, <1>8 DEF InFlight, Init
  <2>2. 0 <= MaxAttempts + Used /\ sends \in [Row -> Nat]
    BY WebhooksAssumption DEF Init, Used
  <2>3. \A r \in Row : Lease(r)
    BY <2>1, <2>2 DEF Lease, Numbered
  <2> QED
    BY <2>1, <2>2, <2>3 DEF LeaseOK
<1>11. FanOutComplete
  BY DEF Init, FanOutComplete
<1> QED
  BY <1>1, <1>2, <1>3, <1>6, <1>7, <1>9, <1>10, <1>11 DEF Inv

LEMMA NextInv == Inv /\ [Next]_vars => Inv'
<1> SUFFICES ASSUME Inv, [Next]_vars PROVE Inv'
  OBVIOUS
<1>1. ASSUME NEW p \in Proc, Sweep(p) \/ ClaimDue(p) \/ Crash(p) \/ \E e \in Event : Webhook(p, e) PROVE Inv'
  BY <1>1, SweepInv, ClaimDueInv, CrashInv, WebhookInv
<1>2. ASSUME NEW d \in Dispatcher, Dispatch(d) PROVE Inv'
  BY <1>2, DispatchBeginInv, HandleInsertInv, MatchingWebhooksInv, DispatchEndInv, DispatchGiveUpInv DEF Dispatch
<1>3. ASSUME NEW a \in Sender, NEW r \in Row, Attempting(a, r) PROVE Inv'
  BY <1>3, GetWebhookInv, SendInv, DisableWebhookInv, RecordAttemptInv DEF Attempting
<1>4. ASSUME NEW c \in Client, Request(c) PROVE Inv'
  BY <1>4, CreateInv, UpdateInv, DeleteInv, SendTestInv, RedeliverInv, DeleteProjectInv DEF Request
<1>5. ASSUME NEW c \in Client, CallStep(c) PROVE Inv'
  BY <1>5, CreateWebhookInv, UpdateWebhookInv, RedeliverInsertInv, SendTestInsertInv DEF CallStep
<1>6. CASE UNCHANGED vars
  <2>1. UNCHANGED <<project, event, handled, disp, hook, steady, row, att, sends, call, calls, faults>>
    BY <1>6 DEF vars
  <2>2. CallOK' /\ calls' \in 0..MaxCalls
    BY <2>1, CallKept DEF Inv, BoundOK
  <2> QED
    BY <2>1, <2>2, CallFrame DEF NotCalled
<1> QED
  BY <1>1, <1>2, <1>3, <1>4, <1>5, <1>6, ElapseInv DEF Next, Progress

LEMMA InvAlways == Spec => []Inv
BY InitInv, NextInv, PTL DEF Spec
\* The types of all that the road keeps, for any number of everything.
THEOREM WebhooksTypeCorrect == Spec => []TypeOK
<1>1. Inv => TypeOK
  BY DEF Inv, BoundOK, HookOK, EventOK, CallOK, RowOK, DispOK, AttOK, LeaseOK, TypeOK,
     EventType, DispType, HookType, RowStatus, RowType, AttType, CallType
<1> QED
  BY <1>1, InvAlways, PTL

\* However often the forge repeats an event and however many dispatches of it run at once, its push is
\* handed on once and each webhook gets one delivery of it.
THEOREM DeliveredOnce == Spec => []OncePerEvent
<1>1. Inv => OncePerEvent
  BY DEF Inv, EventOK, RowOK, OncePerEvent
<1> QED
  BY <1>1, InvAlways, PTL

\* An event that counts as dispatched, and was not given up, has a delivery for every webhook that was
\* active from the start.
THEOREM NoneForgotten == Spec => []FanOutComplete
<1>1. Inv => FanOutComplete
  BY DEF Inv
<1> QED
  BY <1>1, InvAlways, PTL

\* A delivery that is no test and whose lease never ran out under an attempt is sent MaxAttempts times at
\* most, lost outcomes aside.
THEOREM SendsAreBounded == Spec => []SendsBounded
<1>1. Inv => SendsBounded
  BY DEF Inv, LeaseOK, Held, Lease, Used, SendsBounded
<1> QED
  BY <1>1, InvAlways, PTL

\* No step changes the outcome of delivery r, unless its webhook is deleted.
Stays(r) ==
    row[r].status \in Final /\ ~row[r].late /\ row[r].kind # "test" => row'[r].status \in {row[r].status, "gone"}

LEMMA InsertStays ==
    ASSUME RowOK, UNCHANGED hook, NEW h \in Hook, NEW e \in Event \cup {"none"},
           NEW kind \in {"event", "redelivery", "test"}, Live(h), InsertDelivery(h, e, kind), NEW r \in Row
    PROVE  Stays(r)
<1>1. UNCHANGED row \/ Inserted(h, e, kind)
  BY InsertMeans
<1>2. CASE UNCHANGED row
  BY <1>2 DEF Stays
<1>3. CASE Inserted(h, e, kind)
  <2>1. PICK q \in Row : row[q].status = "none" /\ \A s \in Row \ {q} : row'[s] = row[s]
    BY <1>3, InsertedMeans
  <2> QED
    BY <2>1 DEF Stays, Final
<1> QED
  BY <1>1, <1>2, <1>3

LEMMA NextStays == ASSUME Inv, [Next]_vars, NEW r \in Row PROVE Stays(r)
<1>0. RowOK /\ DispOK /\ CallOK
  BY DEF Inv
<1>1. CASE UNCHANGED row
  BY <1>1 DEF Stays
<1>2. ASSUME NEW d \in Dispatcher, NEW h \in Hook, HandleInsert(d, h) PROVE Stays(r)
  <2>1. PICK e \in Event \cup {"none"} : e = disp[d].event
    BY <1>0 DEF DispOK, DispType
  <2>2. UNCHANGED row \/ (Live(h) /\ InsertDelivery(h, e, "event"))
    BY <1>2, <2>1 DEF HandleInsert
  <2>3. UNCHANGED hook
    BY <1>2 DEF HandleInsert, NotDispatching
  <2> QED
    BY <1>0, <1>1, <2>2, <2>3, InsertStays
<1>3. ASSUME NEW c \in Client, RedeliverInsert(c) PROVE Stays(r)
  <2>1. PICK h \in Hook : h = call[c].hook
    BY <1>0, <1>3 DEF CallOK, RedeliverInsert
  <2>2. PICK e \in Event \cup {"none"} : e = row[call[c].row].event
    BY <1>0, <1>3 DEF CallOK, RowOK, RowType, RedeliverInsert
  <2>3. UNCHANGED hook /\ (UNCHANGED row \/ (Live(h) /\ InsertDelivery(h, e, "redelivery")))
    BY <1>3, <2>1, <2>2 DEF RedeliverInsert
  <2> QED
    BY <1>0, <1>1, <2>3, InsertStays
<1>4. ASSUME NEW c \in Client, SendTestInsert(c) PROVE Stays(r)
  <2>1. PICK h \in Hook : h = call[c].hook
    BY <1>0, <1>4 DEF CallOK, SendTestInsert
  <2>2. UNCHANGED hook /\ (UNCHANGED row \/ (Live(h) /\ InsertDelivery(h, "none", "test")))
    BY <1>4, <2>1 DEF SendTestInsert
  <2> QED
    BY <1>0, <1>1, <2>2, InsertStays
<1>5. ASSUME NEW p \in Proc, ClaimDue(p) PROVE Stays(r)
  <2> DEFINE due == {q \in Row : row[q].status = "pending" /\ row[q].due}
  <2>1. row' = [q \in Row |-> IF q \in due THEN [row[q] EXCEPT !.due = FALSE] ELSE row[q]]
    BY <1>5 DEF ClaimDue
  <2>2. row'[r].status = row[r].status
    BY <1>0, <2>1, LeasedMeans
  <2> QED
    BY <2>2 DEF Stays
<1>6. ASSUME NEW a \in Sender, NEW q \in Row, RecordAttempt(a, q) PROVE Stays(r)
  <2>1. UNCHANGED row \/ \E s, n : row' = [row EXCEPT ![q].status = s, ![q].attempt = n, ![q].due = FALSE]
    BY <1>6 DEF RecordAttempt
  <2>2. CASE q # r
    BY <1>0, <2>1, <2>2 DEF RowOK, Stays
  <2>3. CASE q = r
    <3>1. Held(r) => row[r].status \in {"pending", "gone"}
      <4>1. att[a][r].pc # "none"
        BY <1>6, <2>3 DEF RecordAttempt
      <4> QED
        BY <4>1, InProgress
    <3> QED
      BY <3>1 DEF Held, Stays, Final
  <2> QED
    BY <2>2, <2>3
<1>7. ASSUME NEW q \in Row, Elapse(q) PROVE Stays(r)
  <2>1. row[q].status = "pending" /\ \E w : row' = [row EXCEPT ![q].due = TRUE, ![q].late = w]
    BY <1>7 DEF Elapse
  <2>2. CASE q # r
    BY <1>0, <2>1, <2>2 DEF RowOK, Stays
  <2>3. CASE q = r
    BY <2>1, <2>3 DEF Stays, Final
  <2> QED
    BY <2>2, <2>3
<1>8. ASSUME NEW c \in Client, NEW h \in Hook, Delete(c, h) PROVE Stays(r)
  <2>1. /\ row[r] \in RowType
        /\ row' = [q \in Row |-> IF row[q].hook = h THEN [row[q] EXCEPT !.status = "gone", !.due = FALSE] ELSE row[q]]
    BY <1>0, <1>8 DEF Delete, RowOK
  <2>2. row'[r] = row[r] \/ row'[r] = [row[r] EXCEPT !.status = "gone", !.due = FALSE]
    BY <2>1
  <2>3. row'[r].status \in {row[r].status, "gone"}
    BY <2>1, <2>2 DEF RowType
  <2> QED
    BY <2>3 DEF Stays
<1>9. ASSUME NEW d \in Dispatcher, Dispatch(d) PROVE Stays(r)
  BY <1>1, <1>2, <1>9 DEF Dispatch, DispatchBegin, MatchingWebhooks, DispatchEnd, DispatchGiveUp
<1>10. ASSUME NEW a \in Sender, NEW q \in Row, Attempting(a, q) PROVE Stays(r)
  BY <1>1, <1>6, <1>10 DEF Attempting, GetWebhook, Send, DisableWebhook
<1>11. ASSUME NEW c \in Client, Request(c) PROVE Stays(r)
  BY <1>1, <1>8, <1>11 DEF Request, Create, Update, SendTest, Redeliver, DeleteProject
<1>12. ASSUME NEW c \in Client, CallStep(c) PROVE Stays(r)
  BY <1>1, <1>3, <1>4, <1>12 DEF CallStep, CreateWebhook, UpdateWebhook
<1>13. ASSUME NEW p \in Proc, Sweep(p) \/ Crash(p) \/ \E e \in Event : Webhook(p, e) PROVE Stays(r)
  BY <1>1, <1>13 DEF Sweep, Crash, Webhook
<1>14. CASE UNCHANGED vars
  BY <1>1, <1>14 DEF vars
<1> QED
  BY <1>5, <1>7, <1>9, <1>10, <1>11, <1>12, <1>13, <1>14 DEF Next, Progress

\* A delivery that is no test and has ended stays so while its lease holds, although RecordAttempt writes over
\* whatever it finds: no attempt of it is left.
THEOREM OutcomeIsFinal == Spec => OutcomeStays
<1>1. Inv /\ [Next]_vars => [\A r \in Row : Stays(r)]_vars
  BY NextStays
<1>2. OutcomeStays <=> [][\A r \in Row : Stays(r)]_vars
  BY DEF OutcomeStays, Stays
<1>3. Spec => [][\A r \in Row : Stays(r)]_vars
  BY <1>1, InvAlways, PTL DEF Spec
<1> QED
  BY <1>2, <1>3
=============================================================================

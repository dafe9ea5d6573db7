----------------------------- MODULE Webhooks ------------------------------
(***************************************************************************)
(* The road of a git event through the backend: the inbound webhook        *)
(* handler records it (internal/gitevents), the bus fans it out, now or    *)
(* from its sweeper, and outgoing webhooks (internal/webhookout) become    *)
(* deliveries that are claimed with a lease and attempted until they end.  *)
(*                                                                         *)
(* One project.  A step is one statement on the database or one call to    *)
(* the outside; what was read and not used yet is in disp, att and call.   *)
(***************************************************************************)
EXTENDS Integers, FiniteSets

CONSTANTS
    Proc,         \* backend processes: each has one free dispatch slot, a sweeper and a sender
    Client,       \* users of the webhook API
    Hook,         \* outgoing webhooks
    Event,        \* deliveries of the forge, by their delivery id
    MaxWebhooks,  \* MaxWebhooksPerScope
    maxAttempts,  \* dispatches of an event before the bus gives up
    MaxAttempts,  \* attempts of a delivery
    MaxRow,       \* bound: rows of webhook_deliveries, at least one for each event and webhook
    MaxCalls,     \* bound: changes asked for by clients
    MaxFaults     \* bound: failed statements and subscribers, crashes, attempts that outlive their lease

ASSUME WebhooksAssumption ==
    /\ maxAttempts \in Nat \ {0} /\ MaxAttempts \in Nat \ {0} /\ MaxWebhooks \in Nat
    /\ MaxRow \in Nat /\ MaxCalls \in Nat /\ MaxFaults \in Nat
    /\ Proc \cap Client = {} /\ IsFiniteSet(Hook) /\ IsFiniteSet(Event) /\ "none" \notin Hook

Row == 1..MaxRow
Sender == Proc \cup Client
Dispatcher == Proc \X {"async", "sweep"}
Final == {"delivered", "failed", "abandoned"}

VARIABLES
    project,  \* whether the project is there
    event,    \* git_events: "new" is no row; dispatch_attempts
    handled,  \* history variable: how often the push behind an event was handed to the deploy service
    disp,     \* a dispatch in progress, and the events that are left to dispatch
    hook,     \* outbound_webhooks: "none", "live" or "deleted", active
    steady,   \* history variable: the webhook has been live and active from the start
    row,      \* webhook_deliveries; due is next_attempt_at <= now, late whether a lease ran out under an attempt
    att,      \* an attempt in progress, of a sender or of SendTest
    sends,    \* history variable: requests made for each delivery
    call,     \* the API call of a client, in progress
    calls, faults  \* what is left of them

vars == <<project, event, handled, disp, hook, steady, row, att, sends, call, calls, faults>>

NoDisp == [pc |-> "idle", event |-> "none", hooks |-> {}, ok |-> TRUE, left |-> {}]
NoAtt == [pc |-> "none", n |-> 0, out |-> "none"]
NoCall == [pc |-> "idle", hook |-> "none", row |-> 0, active |-> FALSE]

Init ==
    /\ project = TRUE
    /\ event = [e \in Event |-> [state |-> "new", fails |-> 0]]
    /\ handled = [e \in Event |-> 0]
    /\ disp = [d \in Dispatcher |-> NoDisp]
    /\ \E live \in SUBSET Hook :
          /\ hook = [h \in Hook |-> [state |-> IF h \in live THEN "live" ELSE "none", active |-> h \in live]]
          /\ steady = [h \in Hook |-> h \in live]
    /\ row = [r \in Row |-> [hook |-> "none", event |-> "none", kind |-> "none", status |-> "none",
                             attempt |-> 0, due |-> FALSE, late |-> FALSE]]
    /\ att = [a \in Sender |-> [r \in Row |-> NoAtt]]
    /\ sends = [r \in Row |-> 0]
    /\ call = [c \in Client |-> NoCall]
    /\ calls = MaxCalls /\ faults = MaxFaults

Fault == faults > 0 /\ faults' = faults - 1
Live(h) == hook[h].state = "live"

-----------------------------------------------------------------------------
(* The deliveries' table                                                   *)

Unused == {r \in Row : row[r].status = "none"}
NewRow == CHOOSE r \in Unused : \A q \in Unused : r <= q

Insert(h, e, kind) ==
    row' = [row EXCEPT ![NewRow] = [hook |-> h, event |-> e, kind |-> kind, status |-> "pending",
                                    attempt |-> 0, due |-> TRUE, late |-> FALSE]]

\* Mutant: no unique index over webhook and event.
InsertDeliveryMutant(h, e, kind) == Unused # {} /\ Insert(h, e, kind)

\* ON CONFLICT DO NOTHING: one delivery of an event per webhook, redeliveries and tests aside.
InsertDelivery(h, e, kind) ==
    IF kind = "event" /\ \E r \in Row : row[r].hook = h /\ row[r].event = e /\ row[r].kind = "event"
                                          /\ row[r].status # "gone"
    THEN UNCHANGED row
    ELSE Unused # {} /\ Insert(h, e, kind)

-----------------------------------------------------------------------------
(* The bus                                                                 *)

DispTo(d, v) == disp' = [disp EXCEPT ![d] = v]
DispEnds(d) == [NoDisp EXCEPT !.left = disp[d].left]
NotDispatching == UNCHANGED <<project, handled, hook, steady, att, sends, call, calls>>

\* What a crash of a process leaves of its goroutines.
Without(p) == [d \in Dispatcher |-> IF d[1] = p THEN NoDisp ELSE disp[d]]
AttWithout(p) == [att EXCEPT ![p] = [r \in Row |-> NoAtt]]

\* A delivery of the forge, which may repeat it: Accept records it once, a new one is dispatched (unless
\* the slots are taken, and then the sweeper will) and its push is handed on.  The process may die
\* between the INSERT and the rest.
Webhook(p, e) ==
    /\ project /\ event[e].state = "new"
    /\ event' = [event EXCEPT ![e].state = "recorded"]
    /\ \/ /\ handled' = [handled EXCEPT ![e] = @ + 1]
          /\ IF disp[<<p, "async">>] = NoDisp
             THEN DispTo(<<p, "async">>, [NoDisp EXCEPT !.left = {e}]) ELSE UNCHANGED disp
          /\ UNCHANGED <<att, faults>>
       \/ Fault /\ disp' = Without(p) /\ att' = AttWithout(p) /\ UNCHANGED handled
    /\ UNCHANGED <<project, hook, steady, row, sends, call, calls>>

\* Mutant: only events no dispatch has failed for are swept.
SweepMutant(p) ==
    /\ disp[<<p, "sweep">>] = NoDisp
    /\ LET listed == {e \in Event : event[e].state = "recorded" /\ event[e].fails = 0} IN
       listed # {} /\ DispTo(<<p, "sweep">>, [NoDisp EXCEPT !.left = listed])
    /\ NotDispatching /\ UNCHANGED <<event, row, faults>>

\* Sweep lists what is not dispatched; a dispatch of it may be in progress.
Sweep(p) ==
    /\ disp[<<p, "sweep">>] = NoDisp
    /\ LET listed == {e \in Event : event[e].state = "recorded"} IN
       listed # {} /\ DispTo(<<p, "sweep">>, [NoDisp EXCEPT !.left = listed])
    /\ NotDispatching /\ UNCHANGED <<event, row, faults>>

Mark(e) == event' = [event EXCEPT ![e].state = "dispatched"]

\* dispatch: a swept event of a project that is gone is only marked, if the project can be looked up; else
\* the other subscribers, any of which may fail.
DispatchBegin(d, e) ==
    /\ disp[d].pc = "idle" /\ e \in disp[d].left
    /\ LET next == [disp[d] EXCEPT !.event = e, !.left = @ \ {e}] IN
       \/ /\ ~project /\ d[2] = "sweep" /\ DispTo(d, [next EXCEPT !.event = "none"])
          /\ \/ Mark(e) /\ UNCHANGED faults
             \/ Fault /\ UNCHANGED event
       \/ /\ \E ok \in BOOLEAN :
                /\ IF ok /\ (project \/ d[2] = "async") THEN UNCHANGED faults ELSE Fault
                /\ DispTo(d, [next EXCEPT !.pc = "match", !.ok = ok])
          /\ UNCHANGED event
    /\ NotDispatching /\ UNCHANGED row

\* Handle of the outgoing webhooks: those that are active and want the event.
MatchingWebhooks(d) ==
    /\ disp[d].pc = "match"
    /\ \/ /\ DispTo(d, [disp[d] EXCEPT !.pc = "insert", !.hooks = {h \in Hook : Live(h) /\ hook[h].active}])
          /\ UNCHANGED faults
       \/ Fault /\ DispTo(d, [disp[d] EXCEPT !.pc = "insert", !.ok = FALSE])
    /\ NotDispatching /\ UNCHANGED <<event, row>>

\* Mutant: Handle returns the error of its last insert only.
HandleInsertMutant(d, h) ==
    /\ disp[d].pc = "insert" /\ h \in disp[d].hooks
    /\ \/ Live(h) /\ InsertDelivery(h, disp[d].event, "event") /\ UNCHANGED faults
          /\ DispTo(d, [disp[d] EXCEPT !.hooks = @ \ {h}, !.ok = TRUE])
       \/ ~Live(h) /\ UNCHANGED <<row, faults>> /\ DispTo(d, [disp[d] EXCEPT !.hooks = @ \ {h}, !.ok = FALSE])
       \/ Fault /\ UNCHANGED row /\ DispTo(d, [disp[d] EXCEPT !.hooks = @ \ {h}, !.ok = FALSE])
    /\ NotDispatching /\ UNCHANGED event

\* One delivery per webhook; the first error is returned and the others go on.  The INSERT fails when the
\* webhook was deleted since.
HandleInsert(d, h) ==
    /\ disp[d].pc = "insert" /\ h \in disp[d].hooks
    /\ \/ Live(h) /\ InsertDelivery(h, disp[d].event, "event") /\ UNCHANGED faults
          /\ DispTo(d, [disp[d] EXCEPT !.hooks = @ \ {h}])
       \/ ~Live(h) /\ UNCHANGED <<row, faults>> /\ DispTo(d, [disp[d] EXCEPT !.hooks = @ \ {h}, !.ok = FALSE])
       \/ Fault /\ UNCHANGED row /\ DispTo(d, [disp[d] EXCEPT !.hooks = @ \ {h}, !.ok = FALSE])
    /\ NotDispatching /\ UNCHANGED event

\* MarkDispatched when every subscriber was, else RecordDispatchFailure; both may fail.
DispatchEnd(d) ==
    /\ disp[d].pc = "insert" /\ disp[d].hooks = {}
    /\ LET e == disp[d].event IN
       \/ disp[d].ok /\ Mark(e) /\ DispTo(d, DispEnds(d)) /\ UNCHANGED faults
       \/ /\ ~disp[d].ok /\ event' = [event EXCEPT ![e].fails = @ + 1] /\ UNCHANGED faults
          /\ DispTo(d, IF event[e].fails + 1 >= maxAttempts THEN [disp[d] EXCEPT !.pc = "give up"] ELSE DispEnds(d))
       \/ Fault /\ DispTo(d, DispEnds(d)) /\ UNCHANGED event
    /\ NotDispatching /\ UNCHANGED row

DispatchGiveUp(d) ==
    /\ disp[d].pc = "give up" /\ DispTo(d, DispEnds(d))
    /\ \/ Mark(disp[d].event) /\ UNCHANGED faults
       \/ Fault /\ UNCHANGED event
    /\ NotDispatching /\ UNCHANGED row

Dispatch(d) ==
    \/ \E e \in Event : DispatchBegin(d, e)
    \/ \E h \in Hook : HandleInsert(d, h)
    \/ MatchingWebhooks(d) \/ DispatchEnd(d) \/ DispatchGiveUp(d)

-----------------------------------------------------------------------------
(* The sender                                                              *)

AttTo(a, r, v) == att' = [att EXCEPT ![a][r] = v]
NotSending == UNCHANGED <<project, event, handled, disp, call, calls>>
Idle(a) == \A r \in Row : att[a][r].pc = "none"
InFlight(r) == \E a \in Sender : att[a][r].pc # "none"

\* Mutant: the due rows are read and not leased.
ClaimDueMutant(p) ==
    /\ Idle(p)
    /\ LET due == {r \in Row : row[r].status = "pending" /\ row[r].due} IN
       /\ due # {}
       /\ att' = [att EXCEPT ![p] = [r \in Row |-> IF r \in due THEN [NoAtt EXCEPT !.pc = "get", !.n = row[r].attempt]
                                                   ELSE NoAtt]]
    /\ NotSending /\ UNCHANGED <<hook, steady, row, sends, faults>>

\* Mutant: a delivery that was attempted is not claimed again.
ClaimRetryMutant(p) ==
    /\ Idle(p)
    /\ LET due == {r \in Row : row[r].status = "pending" /\ row[r].due /\ row[r].attempt = 0} IN
       /\ due # {}
       /\ row' = [r \in Row |-> IF r \in due THEN [row[r] EXCEPT !.due = FALSE] ELSE row[r]]
       /\ att' = [att EXCEPT ![p] = [r \in Row |-> IF r \in due THEN [NoAtt EXCEPT !.pc = "get"] ELSE NoAtt]]
    /\ NotSending /\ UNCHANGED <<hook, steady, sends, faults>>

\* ProcessDue waits for its attempts before it claims again: the due rows are read and leased at once.
ClaimDue(p) ==
    /\ Idle(p)
    /\ LET due == {r \in Row : row[r].status = "pending" /\ row[r].due} IN
       /\ due # {}
       /\ row' = [r \in Row |-> IF r \in due THEN [row[r] EXCEPT !.due = FALSE] ELSE row[r]]
       /\ att' = [att EXCEPT ![p] = [r \in Row |-> IF r \in due THEN [NoAtt EXCEPT !.pc = "get", !.n = row[r].attempt]
                                                   ELSE NoAtt]]
    /\ NotSending /\ UNCHANGED <<hook, steady, sends, faults>>

\* The webhook as attempt knows it: an inactive one abandons the delivery.
Attempt(a, r, n, active) ==
    AttTo(a, r, [pc |-> IF active THEN "send" ELSE "record", n |-> n, out |-> IF active THEN "none" ELSE "abandoned"])

GetWebhook(p, r) ==
    /\ p \in Proc /\ att[p][r].pc = "get"
    /\ \/ Live(row[r].hook) /\ Attempt(p, r, att[p][r].n + 1, hook[row[r].hook].active) /\ UNCHANGED faults
       \/ ~Live(row[r].hook) /\ AttTo(p, r, [att[p][r] EXCEPT !.pc = "record", !.out = "abandoned"]) /\ UNCHANGED faults
       \/ Fault /\ AttTo(p, r, NoAtt)
    /\ NotSending /\ UNCHANGED <<hook, steady, row, sends>>

\* A test is not retried, nor is the last attempt.
AfterFailure(a, n) == IF a \in Client \/ n >= MaxAttempts THEN "failed" ELSE "pending"

\* The request: delivered, refused for good (410) or failed, whether it arrived or not.
Send(a, r) ==
    /\ att[a][r].pc = "send"
    /\ \/ AttTo(a, r, [att[a][r] EXCEPT !.pc = "record", !.out = "delivered"])
       \/ AttTo(a, r, [att[a][r] EXCEPT !.pc = "disable", !.out = "abandoned"])
       \/ AttTo(a, r, [att[a][r] EXCEPT !.pc = "record", !.out = AfterFailure(a, att[a][r].n)])
    /\ sends' = [sends EXCEPT ![r] = @ + 1]
    /\ NotSending /\ UNCHANGED <<hook, steady, row, faults>>

DisableWebhook(a, r) ==
    /\ att[a][r].pc = "disable" /\ AttTo(a, r, [att[a][r] EXCEPT !.pc = "record"])
    /\ LET h == row[r].hook IN
       \/ /\ hook' = [hook EXCEPT ![h].active = IF Live(h) THEN FALSE ELSE @]
          /\ steady' = [steady EXCEPT ![h] = FALSE] /\ UNCHANGED faults
       \/ Fault /\ UNCHANGED <<hook, steady>>
    /\ NotSending /\ UNCHANGED <<row, sends>>

\* Mutant: the attempt is not counted.
RecordAttemptMutant(a, r) ==
    /\ att[a][r].pc = "record" /\ AttTo(a, r, NoAtt)
    /\ row' = IF row[r].status = "gone" THEN row ELSE
              [row EXCEPT ![r].status = att[a][r].out, ![r].attempt = 0, ![r].due = FALSE]
    /\ NotSending /\ UNCHANGED <<hook, steady, sends, faults>>

\* RecordAttempt writes status, attempt and time of the row whatever they are by now.
RecordAttempt(a, r) ==
    /\ att[a][r].pc = "record" /\ AttTo(a, r, NoAtt)
    /\ \/ /\ row' = IF row[r].status = "gone" THEN row ELSE
                    [row EXCEPT ![r].status = att[a][r].out, ![r].attempt = att[a][r].n, ![r].due = FALSE]
          /\ UNCHANGED faults
       \/ Fault /\ UNCHANGED row
    /\ NotSending /\ UNCHANGED <<hook, steady, sends>>

Attempting(a, r) == GetWebhook(a, r) \/ Send(a, r) \/ DisableWebhook(a, r) \/ RecordAttempt(a, r)

\* A retry's time comes, or the lease of a claim is over; under an attempt in flight only when it stalls.
Elapse(r) ==
    /\ row[r].status = "pending" /\ ~row[r].due
    /\ row' = [row EXCEPT ![r].due = TRUE, ![r].late = @ \/ InFlight(r)]
    /\ IF InFlight(r) THEN Fault ELSE UNCHANGED faults
    /\ UNCHANGED <<project, event, handled, disp, hook, steady, att, sends, call, calls>>

-----------------------------------------------------------------------------
(* The API                                                                 *)

CallTo(c, v) == call' = [call EXCEPT ![c] = v]
NotCalled == UNCHANGED <<project, event, handled, disp, sends, faults>>
Ask(c) == call[c].pc = "idle" /\ Idle(c) /\ calls > 0 /\ calls' = calls - 1

\* The bound on rows leaves those free that dispatches will need.
Room ==
    LET wanted == {w \in Hook \X Event :
                     /\ Live(w[1]) \/ (hook[w[1]].state = "none" /\ calls > 0)
                     /\ ~\E r \in Row : row[r].hook = w[1] /\ row[r].event = w[2] /\ row[r].kind = "event"}
    IN  Cardinality(wanted) < Cardinality(Unused)

\* Create counts the webhooks, then inserts.
Create(c, h) ==
    /\ Ask(c) /\ hook[h].state = "none" /\ Cardinality({g \in Hook : Live(g)}) < MaxWebhooks
    /\ \E active \in BOOLEAN : CallTo(c, [NoCall EXCEPT !.pc = "create", !.hook = h, !.active = active])
    /\ NotCalled /\ UNCHANGED <<hook, steady, row, att>>

CreateWebhook(c) ==
    /\ call[c].pc = "create" /\ CallTo(c, NoCall)
    /\ hook' = IF hook[call[c].hook].state # "none" THEN hook
               ELSE [hook EXCEPT ![call[c].hook] = [state |-> "live", active |-> call[c].active]]
    /\ NotCalled /\ UNCHANGED <<steady, row, att, calls>>

\* Update reads the webhook, changes what the patch names (active, or something else) ...
Update(c, h) ==
    /\ Ask(c) /\ Live(h)
    /\ \E active \in BOOLEAN \cup {hook[h].active} :
          CallTo(c, [NoCall EXCEPT !.pc = "update", !.hook = h, !.active = active])
    /\ NotCalled /\ UNCHANGED <<hook, steady, row, att>>

\* ... and writes all of it.
UpdateWebhook(c) ==
    /\ call[c].pc = "update" /\ CallTo(c, NoCall)
    /\ LET h == call[c].hook IN
       /\ hook' = IF Live(h) THEN [hook EXCEPT ![h].active = call[c].active] ELSE hook
       /\ steady' = [steady EXCEPT ![h] = @ /\ call[c].active]
    /\ NotCalled /\ UNCHANGED <<row, att, calls>>

\* Its deliveries go with it.
Delete(c, h) ==
    /\ Ask(c) /\ Live(h)
    /\ hook' = [hook EXCEPT ![h] = [state |-> "deleted", active |-> FALSE]]
    /\ steady' = [steady EXCEPT ![h] = FALSE]
    /\ row' = [r \in Row |-> IF row[r].hook = h THEN [row[r] EXCEPT !.status = "gone", !.due = FALSE] ELSE row[r]]
    /\ NotCalled /\ UNCHANGED <<att, call>>

\* Redeliver, of a row of an active webhook.
Redeliver(c, r) ==
    /\ Ask(c) /\ row[r].status \notin {"none", "gone"} /\ hook[row[r].hook].active
    /\ CallTo(c, [NoCall EXCEPT !.pc = "redeliver", !.hook = row[r].hook, !.row = r])
    /\ NotCalled /\ UNCHANGED <<hook, steady, row, att>>

RedeliverInsert(c) ==
    /\ call[c].pc = "redeliver" /\ Room /\ CallTo(c, NoCall)
    /\ IF Live(call[c].hook) THEN InsertDelivery(call[c].hook, row[call[c].row].event, "redelivery") ELSE UNCHANGED row
    /\ NotCalled /\ UNCHANGED <<hook, steady, att, calls>>

\* SendTest reads the webhook ...
SendTest(c, h) ==
    /\ Ask(c) /\ Live(h)
    /\ CallTo(c, [NoCall EXCEPT !.pc = "test", !.hook = h, !.active = hook[h].active])
    /\ NotCalled /\ UNCHANGED <<hook, steady, row, att>>

\* ... inserts a pending delivery, due at once, and attempts it itself.
SendTestInsert(c) ==
    /\ call[c].pc = "test" /\ Room /\ CallTo(c, NoCall)
    /\ IF Live(call[c].hook)
       THEN InsertDelivery(call[c].hook, "none", "test") /\ Attempt(c, NewRow, 1, call[c].active)
       ELSE UNCHANGED <<row, att>>
    /\ NotCalled /\ UNCHANGED <<hook, steady, calls>>

DeleteProject(c) ==
    /\ Ask(c) /\ project /\ project' = FALSE
    /\ UNCHANGED <<event, handled, disp, hook, steady, row, att, sends, call, faults>>

CallStep(c) == CreateWebhook(c) \/ UpdateWebhook(c) \/ RedeliverInsert(c) \/ SendTestInsert(c)

Request(c) ==
    \/ \E h \in Hook : Create(c, h) \/ Update(c, h) \/ Delete(c, h) \/ SendTest(c, h)
    \/ \E r \in Row : Redeliver(c, r)
    \/ DeleteProject(c)

-----------------------------------------------------------------------------
\* A process dies with its dispatches and attempts; Run and Sweep begin again.
Crash(p) ==
    /\ Fault /\ disp' = Without(p) /\ att' = AttWithout(p)
    /\ disp' # disp \/ att' # att
    /\ UNCHANGED <<project, event, handled, hook, steady, row, sends, call, calls>>

\* What the backend does by itself: sweep, dispatch, claim, attempt, and time passing.
Progress ==
    \/ \E p \in Proc : Sweep(p) \/ ClaimDue(p)
    \/ \E d \in Dispatcher : Dispatch(d)
    \/ \E a \in Sender, r \in Row : Attempting(a, r)
    \/ \E r \in Row : Elapse(r)

Next ==
    \/ Progress
    \/ \E p \in Proc : (\E e \in Event : Webhook(p, e)) \/ Crash(p)
    \/ \E c \in Client : Request(c) \/ CallStep(c)

Spec == Init /\ [][Next]_vars

\* As long as the backend has something to do it does something, in any order: the steps left to it are finite.
FairSpec == Spec /\ WF_vars(Progress)

-----------------------------------------------------------------------------
(* Properties                                                              *)

TypeOK ==
    /\ project \in BOOLEAN
    /\ event \in [Event -> [state : {"new", "recorded", "dispatched"}, fails : Nat]]
    /\ handled \in [Event -> Nat] /\ steady \in [Hook -> BOOLEAN] /\ sends \in [Row -> Nat]
    /\ disp \in [Dispatcher -> [pc : {"idle", "match", "insert", "give up"},
                                event : Event \cup {"none"}, hooks : SUBSET Hook, ok : BOOLEAN, left : SUBSET Event]]
    /\ hook \in [Hook -> [state : {"none", "live", "deleted"}, active : BOOLEAN]]
    /\ row \in [Row -> [hook : Hook \cup {"none"}, event : Event \cup {"none"},
                        kind : {"none", "event", "redelivery", "test"},
                        status : {"none", "pending", "gone"} \cup Final, attempt : 0..MaxAttempts,
                        due : BOOLEAN, late : BOOLEAN]]
    /\ att \in [Sender -> [Row -> [pc : {"none", "get", "send", "disable", "record"}, n : 0..MaxAttempts,
                                   out : {"none", "pending"} \cup Final]]]
    /\ call \in [Client -> [pc : {"idle", "create", "update", "redeliver", "test"}, hook : Hook \cup {"none"},
                            row : Row \cup {0}, active : BOOLEAN]]
    /\ calls \in 0..MaxCalls /\ faults \in 0..MaxFaults

\* An event the forge repeats, and that is dispatched by its process and by sweepers at the same time,
\* is handed on once and becomes one delivery per webhook.
OncePerEvent ==
    /\ \A e \in Event : handled[e] <= 1
    /\ \A q, r \in {s \in Row : row[s].kind = "event"} :
          row[q].hook = row[r].hook /\ row[q].event = row[r].event => q = r

\* An event marked as dispatched, unless the bus gave up on it, has reached every webhook that was
\* active all the time, whichever of its dispatches failed or died half way.
FanOutComplete ==
    \A e \in Event, h \in Hook :
        event[e].state = "dispatched" /\ event[e].fails < maxAttempts /\ project /\ steady[h]
            => \E r \in Row : row[r].hook = h /\ row[r].event = e /\ row[r].kind = "event"

\* A delivery whose lease held is sent at most MaxAttempts times, and once more for every attempt whose
\* outcome was lost.
SendsBounded ==
    \A r \in Row : ~row[r].late /\ row[r].kind # "test" => sends[r] <= MaxAttempts + (MaxFaults - faults)

\* A delivery that has ended stays so while its lease holds, although RecordAttempt does not look.
OutcomeStays ==
    [][\A r \in Row : row[r].status \in Final /\ ~row[r].late /\ row[r].kind # "test"
                         => row'[r].status \in {row[r].status, "gone"}]_vars

\* What was recorded is dispatched or given up, although the dispatch may have been skipped or lost.
EveryEventDispatched == \A e \in Event : event[e].state = "recorded" ~> event[e].state = "dispatched"

\* Every delivery ends, whatever the receiver answers.
EveryDeliveryEnds == \A r \in Row : row[r].status = "pending" ~> row[r].status # "pending"

\* SendTest: "sends the synthetic webhook.test event once, synchronously [...] (it is not retried)".
TestSentOnce == \A r \in Row : row[r].kind = "test" => sends[r] <= 1
=============================================================================

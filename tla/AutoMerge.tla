----------------------------- MODULE AutoMerge -----------------------------
(***************************************************************************)
(* Auto-merge of one pull request (internal/gitreview/automerge.go and its *)
(* table pr_auto_merge): users arm and disarm it, and the sweep, the bus   *)
(* and the request that armed it attempt the merge, while the pull request *)
(* changes on the forge.                                                   *)
(*                                                                         *)
(* A step is one statement on the database or one call to the forge; what  *)
(* an attempt knows is in att.                                             *)
(***************************************************************************)
EXTENDS Integers, FiniteSets

CONSTANTS
    Worker,       \* sweeps and subscribers, in any process
    User,
    MaxAttempts,  \* merges that fail before auto-merge is cancelled
    MaxHead,      \* bound: heads of the pull request
    MaxArm,       \* bound: times auto-merge is armed
    MaxMoves,     \* bound: what people do on the forge and to roles
    MaxFaults     \* bound: failed calls, crashes and lost leases

ASSUME AutoMergeAssumption ==
    /\ Worker \cap User = {}
    /\ MaxAttempts \in Nat \ {0} /\ MaxHead \in Nat \ {0} /\ MaxArm \in Nat /\ MaxMoves \in Nat /\ MaxFaults \in Nat

Actor == Worker \cup User
Head == 1..MaxHead
NoUser == "none"

VARIABLES
    pull,    \* the pull request on the forge: state, head, and what blocks it
    role,    \* users who may merge
    row,     \* pr_auto_merge; lease is claimed_until > now, old whether it passed MaxAge, gen counts the armings
    att,     \* an attempt, or a request to arm, in progress
    events,  \* pull request events on the bus
    armed,   \* history variable: heads auto-merge was armed for
    auto,    \* history variable: the merge was made by an attempt
    lost,    \* history variable: armings whose claim was lost, or that another merge of their head outlived
    moves, faults  \* what is left of them

vars == <<pull, role, row, att, events, armed, auto, lost, moves, faults>>

NoAtt == [pc |-> "idle", head |-> 0, by |-> NoUser, gen |-> 0, tries |-> 0, to |-> "none", count |-> 0]

Init ==
    /\ pull = [state |-> "open", head |-> 1, block |-> "none"]
    /\ role = User
    /\ row = [state |-> "none", head |-> 0, by |-> NoUser, attempts |-> 0, lease |-> FALSE, old |-> FALSE, gen |-> 0]
    /\ att = [a \in Actor |-> NoAtt]
    /\ events = {} /\ armed = {} /\ auto = FALSE /\ lost = {}
    /\ moves = MaxMoves /\ faults = MaxFaults

Fault == faults > 0 /\ faults' = faults - 1
Active == row.state \in {"armed", "merging"}
AttTo(a, v) == att' = [att EXCEPT ![a] = v]
AttPc(a, pc) == AttTo(a, [att[a] EXCEPT !.pc = pc])
Ends(a) == AttTo(a, NoAtt)
ToFinish(a, to) == AttTo(a, [att[a] EXCEPT !.pc = "finish", !.to = to])
ToRelease(a, count, to) == AttTo(a, [att[a] EXCEPT !.pc = "release", !.count = count, !.to = to])

\* An attempt that has claimed the row and not given it back.
Holds(a) == att[a].pc \in {"merge", "again", "release"}

-----------------------------------------------------------------------------
(* The store                                                               *)

\* Finish and Cancel: conditional on the state, not on the head.
FinishRow(to) == row' = IF Active THEN [row EXCEPT !.state = to, !.lease = FALSE] ELSE row

\* Mutant: Release does not ask for 'merging'.
ReleaseRowMutant(head, count) ==
    row' = IF row.head = head THEN [row EXCEPT !.state = "armed", !.lease = FALSE] ELSE row

ReleaseRow(head, count) ==
    row' = IF row.state = "merging" /\ row.head = head
           THEN [row EXCEPT !.state = "armed", !.lease = FALSE, !.attempts = @ + count] ELSE row

-----------------------------------------------------------------------------
(* Arming and disarming                                                    *)

\* EnableAutoMerge reads the pull request, for a user who may merge ...
EnableAutoMerge(u) ==
    /\ att[u].pc = "idle" /\ u \in role /\ row.gen < MaxArm
    /\ pull.state = "open" /\ pull.block # "draft"
    /\ AttTo(u, [NoAtt EXCEPT !.pc = "arm", !.head = pull.head, !.by = u])
    /\ UNCHANGED <<pull, role, row, events, armed, auto, lost, moves, faults>>

\* ... and replaces the row; then it attempts the merge.
Arm(u) ==
    /\ att[u].pc = "arm" /\ row.gen < MaxArm
    /\ LET h == att[u].head IN
       /\ row' = [state |-> "armed", head |-> h, by |-> u, attempts |-> 0, lease |-> FALSE, old |-> FALSE, gen |-> row.gen + 1]
       /\ armed' = armed \cup {h}
       /\ lost' = lost \cup {g \in {row.gen + 1} : \E a \in Actor : Holds(a) /\ att[a].head = h}
    /\ AttPc(u, "get")
    /\ UNCHANGED <<pull, role, events, auto, moves, faults>>

DisableAutoMerge(u) ==
    /\ att[u].pc = "idle" /\ Active /\ moves > 0 /\ moves' = moves - 1
    /\ FinishRow("cancelled")
    /\ UNCHANGED <<pull, role, att, events, armed, auto, lost, faults>>

-----------------------------------------------------------------------------
(* Attempt                                                                 *)

NotAttempting == UNCHANGED <<role, events, armed, lost, moves>>

\* Mutant: claims that ran out are not swept.
StartMutant(w) ==
    /\ att[w].pc = "idle" /\ row.state = "armed" /\ AttPc(w, "get")
    /\ NotAttempting /\ UNCHANGED <<pull, row, auto, faults>>

\* A sweep of a due row, or an event, starts it; the row is read.  Sweep takes any error of the project's
\* lookup for a project that is gone.
Start(w) ==
    /\ att[w].pc = "idle" /\ Active
    /\ \/ AttPc(w, "get") /\ UNCHANGED faults
       \/ Fault /\ ToFinish(w, "cancelled")
    /\ NotAttempting /\ UNCHANGED <<pull, row, auto>>

Get(a) ==
    /\ att[a].pc = "get"
    /\ CASE ~Active -> Ends(a)
         [] Active /\ row.old -> ToFinish(a, "cancelled")
         [] OTHER -> AttTo(a, [NoAtt EXCEPT !.pc = "pull", !.head = row.head, !.by = row.by, !.gen = row.gen])
    /\ NotAttempting /\ UNCHANGED <<pull, row, auto, faults>>

\* A call that fails defers the row, which stays armed; a pull request that cannot be found cancels it.
GetPull(a) ==
    /\ att[a].pc = "pull"
    /\ \/ /\ CASE pull.state = "merged" -> ToFinish(a, "merged")
               [] pull.state = "closed" -> ToFinish(a, "cancelled")
               [] pull.state = "open" /\ pull.head # att[a].head -> ToFinish(a, "cancelled")
               [] OTHER -> IF pull.block = "draft" THEN Ends(a) ELSE AttPc(a, "authz")
          /\ UNCHANGED faults
       \/ Fault /\ (Ends(a) \/ ToFinish(a, "cancelled"))
    /\ NotAttempting /\ UNCHANGED <<pull, row, auto>>

Authorize(a) ==
    /\ att[a].pc = "authz"
    /\ \/ (IF att[a].by \in role THEN AttPc(a, "assess") ELSE ToFinish(a, "cancelled")) /\ UNCHANGED faults
       \/ Fault /\ Ends(a)
    /\ NotAttempting /\ UNCHANGED <<pull, row, auto>>

Assess(a) ==
    /\ att[a].pc = "assess"
    /\ \/ (IF pull.block = "none" THEN AttPc(a, "claim") ELSE Ends(a)) /\ UNCHANGED faults
       \/ Fault /\ Ends(a)
    /\ NotAttempting /\ UNCHANGED <<pull, row, auto>>

\* Mutant: a claim ignores the one that is held.
ClaimMutant(a) ==
    /\ att[a].pc = "claim"
    /\ IF row.head = att[a].head /\ Active
       THEN /\ row' = [row EXCEPT !.state = "merging", !.lease = TRUE]
            /\ AttTo(a, [att[a] EXCEPT !.pc = "merge", !.by = row.by, !.gen = row.gen, !.tries = row.attempts])
       ELSE Ends(a) /\ UNCHANGED row
    /\ NotAttempting /\ UNCHANGED <<pull, auto, faults>>

\* The row as claimed replaces the one that was read.
Claim(a) ==
    /\ att[a].pc = "claim"
    /\ IF row.head = att[a].head /\ (row.state = "armed" \/ (row.state = "merging" /\ ~row.lease))
       THEN /\ row' = [row EXCEPT !.state = "merging", !.lease = TRUE]
            /\ AttTo(a, [att[a] EXCEPT !.pc = "merge", !.by = row.by, !.gen = row.gen, !.tries = row.attempts])
       ELSE Ends(a) /\ UNCHANGED row
    /\ NotAttempting /\ UNCHANGED <<pull, auto, faults>>

Failed(a) ==
    IF att[a].tries + 1 >= MaxAttempts THEN ToRelease(a, 1, "cancelled") ELSE ToRelease(a, 1, "none")

Merged == pull' = [pull EXCEPT !.state = "merged"] /\ auto' = TRUE /\ events' = events \cup {"merged"}

\* Mutant: the merge does not name the head.
MergePullMutant(a) ==
    /\ att[a].pc = "merge"
    /\ \/ pull.state = "open" /\ pull.block = "none" /\ Merged /\ ToFinish(a, "merged") /\ UNCHANGED faults
       \/ /\ ~(pull.state = "open" /\ pull.block = "none")
          /\ AttPc(a, "again") /\ UNCHANGED <<pull, auto, events, faults>>
    /\ UNCHANGED <<role, row, armed, lost, moves>>

\* The forge merges if it is still that head and nothing blocks it, else answers with a conflict; its answer
\* may be lost; it may be busy (423), not confirm, or fail.
MergePull(a) ==
    /\ att[a].pc = "merge"
    /\ LET ok == pull.state = "open" /\ pull.head = att[a].head /\ pull.block = "none" IN
       \/ ok /\ Merged /\ ToFinish(a, "merged") /\ UNCHANGED faults
       \/ ok /\ Merged /\ Fault /\ Failed(a)
       \/ ~ok /\ AttPc(a, "again") /\ UNCHANGED <<pull, auto, events, faults>>
       \/ Fault /\ (ToRelease(a, 0, "none") \/ Failed(a)) /\ UNCHANGED <<pull, auto, events>>
    /\ UNCHANGED <<role, row, armed, lost, moves>>

\* After a conflict the pull request is read again; when it explains nothing, the attempt has failed.
ReadAgain(a) ==
    /\ att[a].pc = "again"
    /\ \/ /\ CASE pull.state = "merged" -> ToFinish(a, "merged")
               [] pull.state # "merged" /\ (pull.head # att[a].head \/ pull.state = "closed") -> ToFinish(a, "cancelled")
               [] OTHER -> Failed(a)
          /\ UNCHANGED faults
       \/ Fault /\ Failed(a)
    /\ NotAttempting /\ UNCHANGED <<pull, row, auto>>

Release(a) ==
    /\ att[a].pc = "release"
    /\ IF att[a].to = "none" THEN Ends(a) ELSE AttPc(a, "finish")
    /\ \/ ReleaseRow(att[a].head, att[a].count) /\ UNCHANGED faults
       \/ Fault /\ UNCHANGED row
    /\ NotAttempting /\ UNCHANGED <<pull, auto>>

Finish(a) ==
    /\ att[a].pc = "finish" /\ Ends(a)
    /\ \/ FinishRow(att[a].to) /\ UNCHANGED faults
       \/ Fault /\ UNCHANGED row
    /\ NotAttempting /\ UNCHANGED <<pull, auto>>

Step(a) ==
    \/ Get(a) \/ GetPull(a) \/ Authorize(a) \/ Assess(a) \/ Claim(a)
    \/ MergePull(a) \/ ReadAgain(a) \/ Release(a) \/ Finish(a)

\* Mutant: any end is taken for a merge.
HandleEndMutant(e) ==
    /\ e \in events /\ events' = events \ {e} /\ FinishRow("merged")
    /\ UNCHANGED <<pull, role, att, armed, auto, lost, moves, faults>>

\* Handle of an event that says how the pull request ended: the row is finished without looking.  The bus
\* may deliver it late, and again.
HandleEnd(e) ==
    /\ e \in events
    /\ FinishRow(IF e = "merged" THEN "merged" ELSE "cancelled")
    /\ \/ events' = events \ {e} /\ UNCHANGED faults
       \/ Fault /\ UNCHANGED events
    /\ UNCHANGED <<pull, role, att, armed, auto, lost, moves>>

-----------------------------------------------------------------------------
(* The forge, time and crashes                                             *)

Close == pull.state = "open" /\ pull' = [pull EXCEPT !.state = "closed"] /\ events' = events \cup {"closed"}
Reopen == pull.state = "closed" /\ pull' = [pull EXCEPT !.state = "open"] /\ UNCHANGED events
Push ==
    /\ pull.state = "open" /\ pull.head < MaxHead
    /\ \E b \in {"none", "checks"} : pull' = [pull EXCEPT !.head = @ + 1, !.block = b]
    /\ UNCHANGED events
Block == pull.state = "open" /\ (\E b \in {"none", "checks", "draft"} : pull' = [pull EXCEPT !.block = b]) /\ UNCHANGED events
MergeByHand ==
    /\ pull.state = "open" /\ pull.block = "none"
    /\ pull' = [pull EXCEPT !.state = "merged"] /\ events' = events \cup {"merged"}

People ==
    /\ moves > 0 /\ moves' = moves - 1
    /\ \/ (Close \/ Reopen \/ Push \/ Block \/ MergeByHand) /\ UNCHANGED role
       \/ (\E u \in role : role' = role \ {u}) /\ UNCHANGED <<pull, events>>
    /\ UNCHANGED <<row, att, armed, auto, lost, faults>>

Expire ==
    /\ Active /\ ~row.old /\ moves > 0 /\ moves' = moves - 1
    /\ row' = [row EXCEPT !.old = TRUE]
    /\ UNCHANGED <<pull, role, att, events, armed, auto, lost, faults>>

\* A claim runs out: nobody holds it any more, or who does has stalled.
LeaseEnds ==
    /\ row.state = "merging" /\ row.lease /\ row' = [row EXCEPT !.lease = FALSE]
    /\ IF \E a \in Actor : Holds(a) /\ att[a].gen = row.gen
       THEN Fault /\ lost' = lost \cup {row.gen} ELSE UNCHANGED <<faults, lost>>
    /\ UNCHANGED <<pull, role, att, events, armed, auto, moves>>

Crash(a) ==
    /\ Fault /\ att[a].pc # "idle" /\ Ends(a)
    /\ UNCHANGED <<pull, role, row, events, armed, auto, lost, moves>>

Next ==
    \/ \E u \in User : EnableAutoMerge(u) \/ Arm(u) \/ DisableAutoMerge(u)
    \/ \E w \in Worker : Start(w)
    \/ \E a \in Actor : Step(a) \/ Crash(a)
    \/ \E e \in events : HandleEnd(e)
    \/ People \/ Expire \/ LeaseEnds

Spec == Init /\ [][Next]_vars

\* The sweep keeps running, calls return, claims run out.
FairSpec ==
    /\ Spec
    /\ \A w \in Worker : WF_vars(Start(w))
    /\ \A a \in Actor : WF_vars(Step(a))
    /\ WF_vars(LeaseEnds)

-----------------------------------------------------------------------------
(* Properties                                                              *)

TypeOK ==
    /\ pull \in [state : {"open", "closed", "merged"}, head : Head, block : {"none", "checks", "draft"}]
    /\ role \in SUBSET User
    /\ row \in [state : {"none", "armed", "merging", "merged", "cancelled"}, head : Head \cup {0},
                by : User \cup {NoUser}, attempts : Nat, lease : BOOLEAN, old : BOOLEAN, gen : 0..MaxArm]
    /\ att \in [Actor -> [pc : {"idle", "arm", "get", "pull", "authz", "assess", "claim", "merge", "again", "release", "finish"},
                          head : Head \cup {0}, by : User \cup {NoUser}, gen : 0..MaxArm, tries : Nat,
                          to : {"none", "merged", "cancelled"}, count : {0, 1}]]
    /\ events \in SUBSET {"closed", "merged"} /\ armed \in SUBSET Head /\ auto \in BOOLEAN
    /\ lost \in SUBSET (1..MaxArm) /\ moves \in 0..MaxMoves /\ faults \in 0..MaxFaults

\* An attempt never merges a head nobody armed, however late a push comes.
OnlyArmedHead == auto => pull.head \in armed

\* The row says merged only of a pull request that is.
MergedIsTrue == row.state = "merged" => pull.state = "merged"

\* Two triggers of one arming never merge at the same time, while its claim holds and no merge of an earlier
\* arming of the head is still out.
MergesAlone ==
    \A a, b \in Actor : att[a].pc = "merge" /\ att[b].pc = "merge" /\ att[a].gen = att[b].gen
                           => a = b \/ att[a].gen \in lost

\* What was merged or cancelled stays so until somebody arms it again, whatever attempts are still out.
DisarmedStays == [][row.state \in {"merged", "cancelled"} => row'.state = row.state \/ row'.gen > row.gen]_vars

\* A pull request that stays armed, at its head and ready does not wait for ever, also when the attempt that
\* had claimed it died.
Ready == Active /\ row.by \in role /\ pull.state = "open" /\ pull.head = row.head /\ pull.block = "none"
ReadyIsMerged == []<>~Ready

\* Attempt "claims the row atomically so two triggers at once merge once"; the repository: "two workers racing
\* on the same pull request cannot both win".
CannotBothWin == faults = MaxFaults => \A a, b \in Actor : att[a].pc = "merge" /\ att[b].pc = "merge" /\ att[a].gen = att[b].gen => a = b
=============================================================================

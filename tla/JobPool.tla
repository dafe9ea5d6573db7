------------------------------ MODULE JobPool -------------------------------
(***************************************************************************)
(* What the queues of the backend promise, without saying how: a job is    *)
(* submitted, waits, is executed while fewer than Cap are, and ends for    *)
(* good.  It may also end without having been executed, and several may    *)
(* end at once.                                                            *)
(***************************************************************************)
EXTENDS Integers, FiniteSets

CONSTANTS
    Job,  \* jobs
    Cap   \* how many may be executed at once

VARIABLE phase  \* the phase of each job

In(p) == {j \in Job : phase[j] = p}

Init == phase = [j \in Job |-> "new"]

Submit(j) == phase[j] = "new" /\ phase' = [phase EXCEPT ![j] = "waiting"]

Start(j) ==
    /\ phase[j] = "waiting" /\ Cardinality(In("active")) < Cap
    /\ phase' = [phase EXCEPT ![j] = "active"]

End(jobs) == phase' = [j \in Job |-> IF j \in jobs THEN "ended" ELSE phase[j]]

Next ==
    \/ \E j \in Job : Submit(j) \/ Start(j)
    \/ \E jobs \in SUBSET (In("waiting") \cup In("active")) : End(jobs)

Spec == Init /\ [][Next]_phase
=============================================================================

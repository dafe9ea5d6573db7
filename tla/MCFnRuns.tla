------------------------------ MODULE MCFnRuns ------------------------------
(* Instances of FnRuns for TLC.                                            *)
EXTENDS FnRuns, TLC

Container == [lambda |-> FALSE, tunnel |-> TRUE, cron |-> FALSE]
Lambda == [lambda |-> TRUE, tunnel |-> TRUE, cron |-> FALSE]
Cron == [lambda |-> TRUE, tunnel |-> FALSE, cron |-> TRUE]

ClaimShapes == {Container, [Cron EXCEPT !.lambda = FALSE]}
AllShapes == {Container, Lambda, Cron}

Machines == Permutations(Node) \cup Permutations(Proc)
=============================================================================

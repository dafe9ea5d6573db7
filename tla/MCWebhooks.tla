----------------------------- MODULE MCWebhooks ----------------------------
(* Instances of Webhooks for TLC.                                          *)
EXTENDS Webhooks, TLC

Machines == Permutations(Hook) \cup Permutations(Proc)
=============================================================================

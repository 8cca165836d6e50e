------------------------------ MODULE MCCronJob ------------------------------
(* Two requests, two executions and two entries of one task. *)
EXTENDS CronJob, TLC

Symmetry == Permutations(Client) \cup Permutations(Exec) \cup Permutations(Entry)
=============================================================================

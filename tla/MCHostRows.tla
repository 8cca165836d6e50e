------------------------------ MODULE MCHostRows ------------------------------
(* Two requests at a time on up to three hosts that compete for two domains. *)
EXTENDS HostRows, TLC

Symmetry == Permutations(Client) \cup Permutations(Host) \cup Permutations(Domain)
=============================================================================

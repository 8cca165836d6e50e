----------------------------- MODULE MCSupervisor -----------------------------
(* Small instances of Supervisor for TLC. *)
EXTENDS Supervisor, TLC

Symmetry == Permutations(Client) \cup Permutations(Run) \cup Permutations(Pid)

(* Each flag is switched off in turn; the item is created with both on. *)
EachOff == {[enabled |-> TRUE, auto |-> FALSE], [enabled |-> FALSE, auto |-> TRUE]}

(* The behaviours are followed until a mishap happens: what a mishap leaves *)
(* behind is beyond what the invariants promise.                            *)
NoMishap == mishaps = {}
=============================================================================

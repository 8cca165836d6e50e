---------------------------- MODULE BuildPromise ----------------------------
(***************************************************************************)
(* What Service.Build promises (plugins/deploy/service.go): a build that   *)
(* was accepted or coalesced is followed by a run that begins later, and a *)
(* project is never built twice at the same time.  Nothing is said about   *)
(* slots, flags or goroutines.                                             *)
(***************************************************************************)

CONSTANT Project

VARIABLES
    wanted,   \* projects with a request no run has begun for
    running   \* projects being built

pvars == <<wanted, running>>

Init == wanted = {} /\ running = {}

Ask(p) == wanted' = wanted \cup {p} /\ UNCHANGED running

(* A run nobody waits for is allowed: it does no harm. *)
Begin(p) ==
    /\ p \notin running
    /\ wanted' = wanted \ {p}
    /\ running' = running \cup {p}

Finish(p) ==
    /\ p \in running
    /\ running' = running \ {p}
    /\ UNCHANGED wanted

(* The panel's process dies: nothing of this is persisted. *)
Forget == wanted' = {} /\ running' = {}

Next == Forget \/ \E p \in Project : Ask(p) \/ Begin(p) \/ Finish(p)

Spec ==
    /\ Init /\ [][Next]_pvars
    /\ \A p \in Project : WF_pvars(p \in wanted /\ Begin(p)) /\ WF_pvars(Finish(p))
=============================================================================

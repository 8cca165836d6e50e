---------------------------- MODULE SharedReload ----------------------------
(***************************************************************************)
(* What Manager.RequestReload promises its callers: a call blocks until a  *)
(* reload attempt ends after the call was made, every call outstanding at  *)
(* that moment receives the same result, and each call receives one.       *)
(* Nothing is said about timers, debouncing or who runs the reload.        *)
(***************************************************************************)

CONSTANT Caller   \* goroutines that may be inside RequestReload

VARIABLE status   \* status[c]: where the call of c stands

Results == {"ok", "error"}

Init == status = [c \in Caller |-> "idle"]

Request(c) ==
    /\ status[c] = "idle"
    /\ status' = [status EXCEPT ![c] = "waiting"]

(* One reload attempt ends and answers every outstanding call. *)
Serve(r) ==
    /\ \E c \in Caller : status[c] = "waiting"
    /\ status' = [c \in Caller |-> IF status[c] = "waiting" THEN r ELSE status[c]]

Return(c) ==
    /\ status[c] \in Results
    /\ status' = [status EXCEPT ![c] = "idle"]

Next ==
    \/ \E c \in Caller : Request(c) \/ Return(c)
    \/ \E r \in Results : Serve(r)

(* The callers are free to call or not; an outstanding call is answered and *)
(* an answered one returns.                                                 *)
Spec ==
    /\ Init /\ [][Next]_status
    /\ WF_status(\E r \in Results : Serve(r))
    /\ \A c \in Caller : WF_status(Return(c))
=============================================================================

--------------------------- MODULE ReloadCoalescer ---------------------------
(***************************************************************************)
(* Manager.RequestReload (internal/caddy/manager.go): reload requests made *)
(* within the debounce window are merged into one `caddy reload`.          *)
(*                                                                         *)
(* Both critical sections of reloadMu (the body of RequestReload and the   *)
(* end of the timer callback) are one step each.  The reload itself runs   *)
(* outside the lock, between StartReload and EndReload, so requests arrive *)
(* at any point of it.                                                     *)
(***************************************************************************)

CONSTANT Caller      \* goroutines that call RequestReload

VARIABLES
    timer,    \* reloadTimer: "nil", "armed", or how far its callback has got
    waiters,  \* reloadWaiters: the callers whose channels are in the slice
    outcome,  \* the callback's local err, once Reload has returned
    inbox,    \* inbox[c]: what the callback has drained for c's channel
    begun,    \* history: callers for whom a reload began after they joined
    late      \* history: callers that joined while a reload was in flight

vars == <<timer, waiters, outcome, inbox, begun, late>>

Results  == {"ok", "error"}
InFlight == {"reloading", "reloaded"}

TypeOK ==
    /\ timer \in {"nil", "armed", "fired"} \cup InFlight
    /\ waiters \in SUBSET Caller
    /\ outcome \in Results \cup {"none"}
    /\ inbox \in [Caller -> Results \cup {"none"}]
    /\ begun \in SUBSET Caller
    /\ late \in SUBSET Caller

Init ==
    /\ timer = "nil"
    /\ waiters = {}
    /\ outcome = "none"
    /\ inbox = [c \in Caller |-> "none"]
    /\ begun = {}
    /\ late = {}

Calling(c) == c \in waiters \/ inbox[c] # "none"

(* Timer.Stop reports TRUE exactly when the callback has not been started; *)
(* only then (or when there is no timer) is a new one armed.  Mutants: the *)
(* new timer forgotten, armed whatever Stop said, or left stopped.         *)
StopSucceeds == timer = "armed"
RearmedNever  == IF timer = "nil" THEN "armed" ELSE IF StopSucceeds THEN "nil" ELSE timer
RearmedAlways == "armed"
RearmedStopped == IF StopSucceeds THEN "stopped" ELSE IF timer = "nil" THEN "armed" ELSE timer
Rearmed == IF timer = "nil" \/ StopSucceeds THEN "armed" ELSE timer

Request(c) ==
    /\ ~Calling(c)
    /\ waiters' = waiters \cup {c}
    /\ timer' = Rearmed
    /\ late' = IF timer \in InFlight THEN late \cup {c} ELSE late
    /\ UNCHANGED <<outcome, inbox, begun>>

(* Mutant: a reload is skipped and the last success reported again. *)
FireTimerSkippingReload ==
    /\ timer = "armed"
    /\ timer' = "reloaded"
    /\ outcome' = "ok"
    /\ UNCHANGED <<waiters, inbox, begun, late>>

(* 500ms without another request: the runtime starts the callback. *)
FireTimer ==
    /\ timer = "armed"
    /\ timer' = "fired"
    /\ UNCHANGED <<waiters, outcome, inbox, begun, late>>

(* The callback calls Reload, which reads the Caddyfile. *)
StartReload ==
    /\ timer = "fired"
    /\ timer' = "reloading"
    /\ begun' = begun \cup waiters
    /\ UNCHANGED <<waiters, outcome, inbox, late>>

EndReload(r) ==
    /\ timer = "reloading"
    /\ timer' = "reloaded"
    /\ outcome' = r
    /\ UNCHANGED <<waiters, inbox, begun, late>>

(* Mutant: callers that joined during the reload are dropped unanswered. *)
DrainForgettingLate ==
    /\ timer = "reloaded"
    /\ inbox' = [c \in Caller |-> IF c \in waiters \cap begun THEN outcome ELSE inbox[c]]
    /\ waiters' = {}
    /\ timer' = "nil"
    /\ outcome' = "none"
    /\ UNCHANGED <<begun, late>>

(* The callback takes the slice, clears slice and timer, and unlocks.  The *)
(* sends that follow go to buffered channels and cannot block.             *)
Drain ==
    /\ timer = "reloaded"
    /\ inbox' = [c \in Caller |-> IF c \in waiters THEN outcome ELSE inbox[c]]
    /\ waiters' = {}
    /\ timer' = "nil"
    /\ outcome' = "none"
    /\ UNCHANGED <<begun, late>>

(* The caller receives from its channel and RequestReload returns. *)
Return(c) ==
    /\ inbox[c] # "none"
    /\ inbox' = [inbox EXCEPT ![c] = "none"]
    /\ begun' = begun \ {c}
    /\ late' = late \ {c}
    /\ UNCHANGED <<timer, waiters, outcome>>

Next ==
    \/ \E c \in Caller : Request(c) \/ Return(c)
    \/ FireTimer
    \/ StartReload
    \/ \E r \in Results : EndReload(r)
    \/ Drain

(* The Go runtime fires timers and schedules the callback; `caddy reload`  *)
(* is assumed to exit (the code gives it no timeout).                      *)
Fairness ==
    /\ WF_vars(FireTimer)
    /\ WF_vars(StartReload)
    /\ WF_vars(\E r \in Results : EndReload(r))
    /\ WF_vars(Drain)
    /\ \A c \in Caller : WF_vars(Return(c))

Spec == Init /\ [][Next]_vars /\ Fairness

-----------------------------------------------------------------------------

(* No request is forgotten: as long as a caller's channel is in            *)
(* reloadWaiters, a timer is armed or its callback has yet to drain the    *)
(* slice, so `return <-waiter` (manager.go:168) cannot block for ever.     *)
NoLostWaiter == waiters # {} => timer # "nil"

(* A request that did not arrive in the middle of a reload is answered by  *)
(* a reload that read the Caddyfile after the request was made.            *)
FreshUnlessLate ==
    \A c \in Caller : inbox[c] # "none" => c \in begun \cup late

(* Once the reload of a caller has begun, its answer is the next one: no   *)
(* reload is started for it a second time (requests are merged, not        *)
(* repeated), whatever arrives in the meantime.                            *)
OneReloadPerRequest == [][StartReload => waiters \cap begun = {}]_vars

(* What the callers see of the coalescer. *)
SharedStatus == [c \in Caller |->
    IF c \in waiters THEN "waiting"
    ELSE IF inbox[c] = "none" THEN "idle" ELSE inbox[c]]

Shared == INSTANCE SharedReload WITH status <- SharedStatus

(* The coalescer implements SharedReload: what a caller can observe of it  *)
(* is a reload shared by all outstanding calls, and every call returns.    *)
ImplementsSharedReload == Shared!Spec

-----------------------------------------------------------------------------
(* The inductive invariant behind these properties. *)

WaitersAccounted ==
    IF timer \in InFlight THEN waiters \subseteq begun \cup late
    ELSE waiters \cap (begun \cup late) = {}

HistoryOfCallers == \A c \in begun \cup late : Calling(c)

AnsweredOnce == \A c \in Caller : inbox[c] # "none" => c \notin waiters

OutcomeKnown == IF timer = "reloaded" THEN outcome \in Results ELSE outcome = "none"

IInv ==
    /\ TypeOK /\ NoLostWaiter /\ FreshUnlessLate
    /\ WaitersAccounted /\ HistoryOfCallers /\ AnsweredOnce /\ OutcomeKnown
=============================================================================

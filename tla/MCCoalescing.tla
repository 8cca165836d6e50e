---------------------------- MODULE MCCoalescing ----------------------------
(* Three goroutines that requests leave work to: the timer's, which reloads *)
(* Caddy, the loop that builds a project, and the one that runs a command   *)
(* under supervision.  What is asked while they are at work must be done in *)
(* the end: by the next reload, by the next build, or, when a run is        *)
(* cancelled, by its ending.  They share no state; a behaviour is one of    *)
(* the three.                                                               *)
EXTENDS ReloadCoalescer

CONSTANTS Project, Loop, MaxConcurrent, Nothing, MaxPushes, MaxRequests, MaxFailures, MaxCrashes,
          Client, Run, Pid, NoPid, Requests, Settings, MaxRestarts

VARIABLES
    part,
    inflight, pending, sem, at, proj, pulled, head, built, due, served, missed, looked, asked,
    failed, crashed,
    row, alive, running, run, op, service, closing, apart, told, mishaps, failures

buildVars == <<inflight, pending, sem, at, proj, pulled, head, built, due, served, missed, looked,
               asked, failed, crashed>>
itemVars == <<row, alive, running, run, op, service, closing, apart, told, mishaps, failures>>

Builds == INSTANCE BuildQueue
Items == INSTANCE Supervisor

ASSUME Builds!BuildQueueAssumption

MCInit == Init /\ Builds!Init /\ Items!Init /\ part \in {"reloads", "builds", "runs"}

MCNext ==
    /\ UNCHANGED part
    /\ \/ part = "reloads" /\ Next /\ UNCHANGED <<buildVars, itemVars>>
       \/ part = "builds" /\ Builds!Next /\ UNCHANGED <<vars, itemVars>>
       \/ part = "runs" /\ Items!Next /\ UNCHANGED <<vars, buildVars>>

MCSpec ==
    /\ MCInit /\ [][MCNext]_<<part, vars, buildVars, itemVars>>
    /\ Fairness /\ Builds!Fairness /\ Items!Fairness

(* What an update sets the item's flags to. *)
AutoOff == {[enabled |-> TRUE, auto |-> FALSE]}

(* A build that is asked for while another runs is neither lost nor run at *)
(* the same time.                                                          *)
ImplementsBuildPromise == Builds!ImplementsBuildPromise

(* What was pushed last is deployed in the end, unless its own deploy      *)
(* failed after the commit was recorded.                                   *)
CatchesUp == Builds!CatchesUp

(* A run whose context is cancelled ends.                                  *)
CancelledRunEnds == Items!CancelledRunEnds
=============================================================================

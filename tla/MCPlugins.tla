------------------------------ MODULE MCPlugins ------------------------------
(* The lifecycle of plugins: the manager's Enable, Disable and boot, and    *)
(* what Start and Stop mean to the loops of one plugin, monitoring.  The    *)
(* manager calls them under its lock; a behaviour is one of either.         *)
EXTENDS MCPluginManager

CONSTANTS Rule, Duration, Cooldown, HealWindow, MaxStarts, MaxHeals, MaxTime

VARIABLES
    part,
    stopCh, closed, loop, evaluating, over, unjudged, enabled, mode, lastFired, violations,
    active, heal, lastHeal, acted, now

monitorVars == <<stopCh, closed, loop, evaluating, over, unjudged, enabled, mode, lastFired,
                 violations, active, heal, lastHeal, acted, now>>

Monitor == INSTANCE Monitoring

ASSUME MonitorAssumption == Monitor!MonitoringAssumption

(* The part that does not move starts in one state. *)
MCInit ==
    /\ part \in {"manager", "monitoring"}
    /\ Init /\ (part = "manager" \/ (deps = Needs(database, {docker}) /\ rows = [p \in Plugin |-> "none"]))
    /\ Monitor!Init /\ (part = "monitoring" \/ mode = [r \in Rule |-> "notify"])

MCNext ==
    /\ UNCHANGED part
    /\ \/ part = "manager" /\ Next /\ UNCHANGED monitorVars
       \/ part = "monitoring" /\ Monitor!Next /\ UNCHANGED vars

MCSpec == MCInit /\ [][MCNext]_<<part, vars, monitorVars>>

(* Whichever loops miss a restart, each of them can still be stopped.      *)
NoLoopIsAbandoned == Monitor!NoLoopIsAbandoned

(* A repair keeps its distance from the one before its check.              *)
HealsKeepApart == Monitor!HealsKeepApart
=============================================================================

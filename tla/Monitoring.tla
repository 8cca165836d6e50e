------------------------------ MODULE Monitoring ------------------------------
(***************************************************************************)
(* From a sample to a repair: the loops of the monitoring plugin           *)
(* (plugins/monitoring/service.go), the alerter they call (alerter.go),    *)
(* the event it publishes (internal/plugin/eventbus.go) and the self-heal  *)
(* goroutines the AI plugin starts for it (plugins/ai/selfheal.go).        *)
(*                                                                         *)
(* Start and Stop are called under the plugin manager's lock and are one   *)
(* step each; the collector loops read the field stopCh whenever they come *)
(* round to their select, and the daily cleanup loop does so in the same   *)
(* way.  A rule keeps its mode; creating and deleting one, the web sockets *)
(* and the stored samples are left out.                                    *)
(***************************************************************************)
EXTENDS Integers, FiniteSets

CONSTANTS
    Rule,
    Duration,    \* samples in a row that must violate a rule
    Cooldown,    \* CooldownMin, in steps of the clock
    HealWindow,  \* the five minutes between two repairs
    MaxStarts,   \* bound: calls of Start
    MaxHeals,    \* bound: goroutines of handleAlert
    MaxTime      \* bound: the clock

MonitoringAssumption ==
    /\ {Duration, Cooldown, HealWindow} \subseteq Nat \ {0}
    /\ {MaxStarts, MaxHeals, MaxTime} \subseteq Nat

VARIABLES
    stopCh,      \* the field: the latest channel, numbered; 0 is nil
    closed,      \* channels that are closed
    loop,        \* loop[l]: where it is and the channel its select waits on
    evaluating,  \* the collector that holds the alerter's mu, in a set
    over,        \* rules its sample violates
    unjudged,    \* rules it has loaded and not judged yet
    enabled,     \* rules that are enabled
    mode,        \* auto_heal_mode of each rule
    lastFired,   \* last_fired_at
    violations,  \* the alerter's counters, as far as Duration
    active,      \* the AI plugin is enabled
    heal,        \* heal[h]: goroutine h of handleAlert
    lastHeal,    \* lastHealTime
    acted,       \* history: when a repair was carried out last in this life
    now          \* the clock

vars == <<stopCh, closed, loop, evaluating, over, unjudged, enabled, mode, lastFired,
          violations, active, heal, lastHeal, acted, now>>
lifecycle == <<stopCh, closed>>
alerter == <<evaluating, over, unjudged, lastFired, violations>>
healing == <<heal, lastHeal, acted>>

Channel == 1..MaxStarts
Loop == Channel  \* the collector each Start starts
Healer == 1..MaxHeals
Never == 0 - Cooldown - HealWindow  \* the zero time: longer ago than any limit
Gone == [at |-> "none", ear |-> 0]
NoHeal == [at |-> "none", mode |-> "notify", seen |-> Never]

Init ==
    /\ stopCh = 0 /\ closed = {} /\ loop = [l \in Loop |-> Gone]
    /\ evaluating = {} /\ over = {} /\ unjudged = {}
    /\ enabled = Rule /\ mode \in [Rule -> {"notify", "suggest", "auto"}]
    /\ lastFired = [r \in Rule |-> Never] /\ violations = [r \in Rule |-> 0]
    /\ active = TRUE /\ heal = [h \in Healer |-> NoHeal] /\ lastHeal = Never
    /\ acted = Never /\ now = 0

-----------------------------------------------------------------------------
(* Service.Start and Stop *)

Closing == IF stopCh = 0 THEN closed ELSE closed \cup {stopCh}

StartLoops ==
    /\ stopCh < MaxStarts
    /\ stopCh' = stopCh + 1
    /\ loop' = [loop EXCEPT ![stopCh + 1].at = "sample"]
    /\ UNCHANGED <<alerter, enabled, mode, active, healing, now>>

(* A bug: the channel is replaced without being closed. *)
StartWithoutClosing == StartLoops /\ UNCHANGED closed

Start == StartLoops /\ closed' = Closing

Stop ==
    /\ closed' = Closing
    /\ UNCHANGED <<stopCh, loop, alerter, enabled, mode, active, healing, now>>

-----------------------------------------------------------------------------
(* The loops *)

To(l, stage) == loop' = [loop EXCEPT ![l].at = stage]

(* A sample is taken and, under mu, the enabled rules are loaded. *)
Sample(l) ==
    /\ loop[l].at = "sample" /\ evaluating = {}
    /\ evaluating' = {l} /\ unjudged' = enabled /\ over' \in SUBSET Rule
    /\ To(l, "judge")
    /\ UNCHANGED <<lifecycle, enabled, mode, lastFired, violations, active, healing, now>>

(* The sample or the query fails. *)
SampleFails(l) ==
    /\ loop[l].at = "sample"
    /\ To(l, "look")
    /\ UNCHANGED <<lifecycle, alerter, enabled, mode, active, healing, now>>

Counted(r) == IF r \in over THEN violations[r] + 1 ELSE 0
Fires(r) == r \in over /\ Counted(r) >= Duration /\ now - lastFired[r] >= Cooldown

(* Publish calls the handler, which starts a goroutine and returns. *)
Publish(r) ==
    IF active /\ mode[r] # "notify"
    THEN \E h \in Healer :
            /\ heal[h] = NoHeal /\ \A k \in 1..(h - 1) : heal[k] # NoHeal
            /\ heal' = [heal EXCEPT ![h] = [@ EXCEPT !.at = "check", !.mode = mode[r]]]
    ELSE UNCHANGED heal

(* Evaluate, for one rule; an error of the two writes is ignored. *)
Judge(l, r) ==
    /\ loop[l].at = "judge" /\ r \in unjudged
    /\ unjudged' = unjudged \ {r}
    /\ IF Fires(r)
       THEN /\ lastFired' \in {lastFired, [lastFired EXCEPT ![r] = now]}
            /\ violations' = [violations EXCEPT ![r] = 0]
            /\ Publish(r)
       ELSE /\ violations' = [violations EXCEPT ![r] = IF Counted(r) > Duration THEN Duration
                                                       ELSE Counted(r)]
            /\ UNCHANGED <<lastFired, heal>>
    /\ UNCHANGED <<lifecycle, loop, evaluating, over, enabled, mode, active, lastHeal, acted, now>>

Judged(l) ==
    /\ loop[l].at = "judge" /\ unjudged = {}
    /\ evaluating' = {} /\ over' = {} /\ To(l, "look")
    /\ UNCHANGED <<lifecycle, unjudged, lastFired, violations, enabled, mode, active, healing, now>>

(* The select evaluates s.stopCh. *)
Look(l) ==
    /\ loop[l].at = "look"
    /\ loop' = [loop EXCEPT ![l] = [at |-> "listen", ear |-> stopCh]]
    /\ UNCHANGED <<lifecycle, alerter, enabled, mode, active, healing, now>>

Ring(l) ==
    /\ loop[l].at = "listen"
    /\ To(l, "sample")
    /\ UNCHANGED <<lifecycle, alerter, enabled, mode, active, healing, now>>

Exit(l) ==
    /\ loop[l].at = "listen" /\ loop[l].ear \in closed
    /\ loop' = [loop EXCEPT ![l] = Gone]
    /\ UNCHANGED <<lifecycle, alerter, enabled, mode, active, healing, now>>

LoopStep(l) ==
    \/ Sample(l) \/ SampleFails(l) \/ (\E r \in Rule : Judge(l, r)) \/ Judged(l)
    \/ Look(l) \/ Ring(l) \/ Exit(l)

-----------------------------------------------------------------------------
(* SelfHealEngine.handleAlert *)

HealTo(h, stage) == heal' = [heal EXCEPT ![h].at = stage]

HealCheck(h) ==
    /\ heal[h].at = "check"
    /\ IF now - lastHeal < HealWindow THEN HealTo(h, "done")
       ELSE heal' = [heal EXCEPT ![h] = [@ EXCEPT !.at = "diagnose", !.seen = acted]]
    /\ UNCHANGED <<lifecycle, loop, alerter, enabled, mode, active, lastHeal, acted, now>>

(* DiagnoseSync fails, or answers; without the mode auto that is all. *)
HealDiagnose(h) ==
    /\ heal[h].at = "diagnose"
    /\ \E s \in {"done"} \cup {x \in {"act"} : heal[h].mode = "auto"} : HealTo(h, s)
    /\ UNCHANGED <<lifecycle, loop, alerter, enabled, mode, active, lastHeal, acted, now>>

(* A bug: the time is kept with the rule only. *)
HealForgets(h) ==
    /\ heal[h].at = "act" /\ HealTo(h, "done")
    /\ acted' \in {acted, now}
    /\ UNCHANGED <<lifecycle, loop, alerter, enabled, mode, active, lastHeal, now>>

(* executeAutoHeal: the time counts if any of the actions succeeded. *)
HealAct(h) ==
    /\ heal[h].at = "act" /\ HealTo(h, "done")
    /\ \/ lastHeal' = now /\ acted' = now
       \/ UNCHANGED <<lastHeal, acted>>
    /\ UNCHANGED <<lifecycle, loop, alerter, enabled, mode, active, now>>

HealStep(h) == HealCheck(h) \/ HealDiagnose(h) \/ HealAct(h)

-----------------------------------------------------------------------------
UpdateAlertRule(r) ==
    /\ enabled' = IF r \in enabled THEN enabled \ {r} ELSE enabled \cup {r}
    /\ UNCHANGED <<lifecycle, loop, alerter, mode, active, healing, now>>

(* The AI plugin is disabled or enabled; goroutines under way go on. *)
ToggleAI ==
    /\ active' = ~active
    /\ UNCHANGED <<lifecycle, loop, alerter, enabled, mode, healing, now>>

Tick ==
    /\ now < MaxTime /\ now' = now + 1
    /\ UNCHANGED <<lifecycle, loop, alerter, enabled, mode, active, healing>>

(* The panel dies: only the rules' rows survive. *)
Crash ==
    /\ stopCh # 0
    /\ closed' = Channel /\ loop' = [l \in Loop |-> Gone]
    /\ evaluating' = {} /\ over' = {} /\ unjudged' = {}
    /\ violations' = [r \in Rule |-> 0]
    /\ heal' = [h \in Healer |-> IF heal[h] = NoHeal THEN NoHeal ELSE [heal[h] EXCEPT !.at = "done"]]
    /\ lastHeal' = Never /\ acted' = Never
    /\ UNCHANGED <<stopCh, lastFired, enabled, mode, active, now>>

Next ==
    \/ Start \/ Stop \/ ToggleAI \/ Tick \/ Crash
    \/ \E l \in Loop : LoopStep(l)
    \/ \E h \in Healer : HealStep(h)
    \/ \E r \in Rule : UpdateAlertRule(r)

Spec == Init /\ [][Next]_vars

-----------------------------------------------------------------------------
TypeOK ==
    /\ stopCh \in 0..MaxStarts /\ closed \subseteq Channel
    /\ loop \in [Loop -> [at : {"none", "sample", "judge", "look", "listen"}, ear : 0..MaxStarts]]
    /\ Cardinality(evaluating) <= 1 /\ evaluating \subseteq Loop
    /\ {over, unjudged, enabled} \subseteq SUBSET Rule
    /\ violations \in [Rule -> 0..Duration]

(* "Safe to call multiple times; restarts the collection loop": a loop may *)
(* miss a restart, but never waits on a channel nobody will close.         *)
NoLoopIsAbandoned ==
    \A l \in Loop : loop[l].at = "listen" => loop[l].ear \in closed \cup {stopCh}

(* "At most one heal cycle per 5 minutes", between a repair and a          *)
(* goroutine that makes its check after it.                                *)
HealsKeepApart ==
    [][\A h \in Healer :
          (heal[h].at = "act" /\ acted' # acted /\ heal'[h].at = "done" /\ heal[h].seen = acted)
              => (now - acted >= HealWindow \/ acted' = Never)]_vars
=============================================================================

---------------------------- MODULE PluginManager ----------------------------
(***************************************************************************)
(* The plugin lifecycle of internal/plugin/manager.go: the boot sequence   *)
(* InitAll (order the plugins, seed their rows, install the guard, Init)   *)
(* and StartAll, then Enable, Disable and SetSidebarVisible as requests    *)
(* call them (internal/handler/plugin.go).                                 *)
(*                                                                         *)
(* Enable and Disable hold mu throughout, so one of them is in progress at *)
(* a time and `op` holds its position; the guard middleware and            *)
(* SetSidebarVisible do not take mu and see every position.  The rows      *)
(* survive a crash, the rest is memory.  Routers, data directories and     *)
(* frontend manifests are left out.                                        *)
(***************************************************************************)
EXTENDS Integers, Sequences, FiniteSets

CONSTANTS
    Plugin,       \* registered plugins
    DepGraphs,    \* dependencies the plugins may declare
    Priority,     \* Metadata().Priority
    DefaultOn,    \* plugins seedDefaultStates enables
    MaxFailures   \* bound on failed calls and crashes

ASSUME PluginKinds ==
    /\ Plugin # {} /\ DefaultOn \subseteq Plugin
    /\ Priority \in [Plugin -> Int]
    /\ DepGraphs \subseteq [Plugin -> SUBSET Plugin]
    /\ MaxFailures \in Nat

(* The plugins enabled by default declare no dependency. *)
ASSUME DefaultsStandAlone == \A g \in DepGraphs : \A p \in DefaultOn : g[p] = {}

VARIABLES
    deps,      \* deps[p]: Metadata().Dependencies
    rows,      \* plugin_states: "none" where p has no row
    disabled,  \* the runtime guard
    running,   \* plugins whose background tasks run
    phase,     \* what main is doing
    order,     \* the load order; InitAll and StartAll consume a copy,
    todo,      \*   the plugins of the current phase still to do
    op,        \* the Enable or Disable that holds mu, in a set, or none
    implicit,  \* history: rows SetSidebarVisible created
    wedged,    \* history: the last operation did not do all it should
    failures

memory == <<disabled, running, phase, order, todo, op>>
vars == <<deps, rows, memory, implicit, wedged, failures>>

Phases == {"down", "sort", "seed", "init", "start", "up"}
Ops == [plugin : Plugin, at : {"save", "unguard", "start", "stop", "guard", "unsave"}]

TypeOK ==
    /\ deps \in DepGraphs
    /\ rows \in [Plugin -> {"none", "on", "off"}]
    /\ disabled \subseteq Plugin /\ running \subseteq Plugin
    /\ phase \in Phases
    /\ order \in Seq(Plugin) /\ todo \in Seq(Plugin)
    /\ \/ op = {}
       \/ \E o \in Ops : op = {o}
    /\ implicit \subseteq Plugin /\ wedged \subseteq Plugin
    /\ failures \in 0..MaxFailures

IsEnabled(p) == rows[p] = "on"

(* A bug: the row is created without a value for Enabled. *)
SeededNull(p) == IF p \in DefaultOn THEN "on" ELSE "null"

Seeded(p) == IF p \in DefaultOn THEN "on" ELSE "off"
Ordered == {p \in Plugin : \E i \in 1..Len(order) : order[i] = p}
Rowless == {p \in Plugin : rows[p] = "none"}

(* A fresh database, or one that a release with fewer plugins has seeded. *)
Init ==
    /\ deps \in DepGraphs
    /\ \E old \in SUBSET Plugin :
          rows = [p \in Plugin |-> IF p \in old THEN Seeded(p) ELSE "none"]
    /\ disabled = {} /\ running = {} /\ phase = "down"
    /\ order = <<>> /\ todo = <<>> /\ op = {}
    /\ implicit = {} /\ wedged = {} /\ failures = 0

Fail ==
    /\ failures < MaxFailures
    /\ failures' = failures + 1

(* The process ends: only the rows remain. *)
Down ==
    /\ disabled' = {} /\ running' = {} /\ phase' = "down"
    /\ order' = <<>> /\ todo' = <<>> /\ op' = {} /\ wedged' = {}

-----------------------------------------------------------------------------
(* InitAll, which holds mu: topoSort, seedDefaultStates, the loop. *)

Boot ==
    /\ phase = "down"
    /\ phase' = "sort"
    /\ UNCHANGED <<deps, rows, disabled, running, order, todo, op,
                   implicit, wedged, failures>>

(* A bug: order by priority alone. *)
ReadyByPriority == Plugin \ Ordered

(* The queue of topoSort: nodes whose in-degree has dropped to 0. *)
Ready == {p \in Plugin \ Ordered : deps[p] \subseteq Ordered}

Sort(p) ==
    /\ phase = "sort" /\ p \in Ready
    /\ \A q \in Ready : Priority[p] <= Priority[q]
    /\ order' = Append(order, p)
    /\ UNCHANGED <<deps, rows, disabled, running, phase, todo, op,
                   implicit, wedged, failures>>

(* "circular dependency detected among plugins": main exits. *)
Cyclic ==
    /\ phase = "sort" /\ Ready = {} /\ Ordered # Plugin
    /\ Down
    /\ UNCHANGED <<deps, rows, implicit, failures>>

(* An empty table is seeded row by row; any other is left as it is. *)
Sorted ==
    /\ phase = "sort" /\ Ordered = Plugin
    /\ IF Rowless = Plugin
         THEN phase' = "seed" /\ todo' = todo
         ELSE phase' = "init" /\ todo' = order
    /\ UNCHANGED <<deps, rows, disabled, running, order, op,
                   implicit, wedged, failures>>

SeedRow(p) ==
    /\ phase = "seed" /\ p \in Rowless
    /\ rows' = [rows EXCEPT ![p] = Seeded(p)]
    /\ UNCHANGED <<deps, memory, implicit, wedged, failures>>

(* The errors of Create are ignored: some rows may be missing at the end. *)
SeedDone ==
    /\ phase = "seed"
    /\ \/ Rowless = {} /\ UNCHANGED failures
       \/ Rowless # {} /\ Fail
    /\ phase' = "init" /\ todo' = order
    /\ UNCHANGED <<deps, rows, disabled, running, order, op, implicit, wedged>>

(* A bug: a plugin without a row is not taken for a disabled one. *)
GuardedIfOff(p) == IF rows[p] = "off" THEN disabled \cup {p} ELSE disabled

Guarded(p) == IF IsEnabled(p) THEN disabled ELSE disabled \cup {p}

(* One turn of InitAll's loop; the last one returns to main. *)
InitPlugin ==
    /\ phase = "init" /\ todo # <<>>
    /\ disabled' = Guarded(Head(todo))
    /\ IF Len(todo) = 1
         THEN phase' = "start" /\ todo' = order
         ELSE phase' = phase /\ todo' = Tail(todo)
    /\ UNCHANGED <<deps, rows, running, order, op, implicit, wedged, failures>>

(* One turn of StartAll's loop; after the last one the panel serves. *)
StartPlugin ==
    /\ phase = "start" /\ todo # <<>>
    /\ running' = IF IsEnabled(Head(todo)) THEN running \cup {Head(todo)} ELSE running
    /\ todo' = Tail(todo)
    /\ phase' = IF Len(todo) = 1 THEN "up" ELSE phase
    /\ UNCHANGED <<deps, rows, disabled, order, op, implicit, wedged, failures>>

(* The Init or Start of an enabled plugin fails: log.Fatalf. *)
BootFails ==
    /\ phase \in {"init", "start"} /\ IsEnabled(Head(todo))
    /\ Fail /\ Down
    /\ UNCHANGED <<deps, rows, implicit>>

Crash ==
    /\ phase # "down"
    /\ Fail /\ Down
    /\ UNCHANGED <<deps, rows, implicit>>

-----------------------------------------------------------------------------
(* Enable: the checks and the four steps that follow them.  A call that a  *)
(* check refuses, or that finds nothing to do, changes nothing.            *)

At(p, step) == op = {[plugin |-> p, at |-> step]}
Goto(p, step) == op' = {[plugin |-> p, at |-> step]}
Dependents(p) == {q \in Plugin \ {p} : IsEnabled(q) /\ p \in deps[q]}

(* A bug: the dependency check of the Install handler, on a list read at    *)
(* some earlier time, is not repeated under mu.                             *)
MayEnableUnchecked(p) == ~IsEnabled(p)

MayEnable(p) == ~IsEnabled(p) /\ \A d \in deps[p] : IsEnabled(d)

Enable(p) ==
    /\ phase = "up" /\ op = {}
    /\ MayEnable(p)
    /\ Goto(p, "save")
    /\ UNCHANGED <<deps, rows, disabled, running, phase, order, todo,
                   implicit, wedged, failures>>

SetState(p, state) ==
    /\ rows' = [rows EXCEPT ![p] = state]
    /\ implicit' = implicit \ {p}

EnableSaves(p) ==
    /\ At(p, "save")
    /\ SetState(p, "on")
    /\ Goto(p, "unguard")
    /\ UNCHANGED <<deps, disabled, running, phase, order, todo, wedged, failures>>

EnableNotSaved(p) ==
    /\ At(p, "save") /\ Fail
    /\ op' = {}
    /\ UNCHANGED <<deps, rows, disabled, running, phase, order, todo,
                   implicit, wedged>>

(* A bug: Enable leaves the guard to the next boot. *)
EnableKeepsGuard(p) ==
    /\ At(p, "unguard")
    /\ Goto(p, "start")
    /\ UNCHANGED <<deps, rows, disabled, running, phase, order, todo,
                   implicit, wedged, failures>>

EnableUnguards(p) ==
    /\ At(p, "unguard")
    /\ disabled' = disabled \ {p}
    /\ Goto(p, "start")
    /\ UNCHANGED <<deps, rows, running, phase, order, todo,
                   implicit, wedged, failures>>

EnableStarts(p) ==
    /\ At(p, "start")
    /\ running' = running \cup {p}
    /\ op' = {} /\ wedged' = wedged \ {p}
    /\ UNCHANGED <<deps, rows, disabled, phase, order, todo, implicit, failures>>

(* A failed Start is logged and Enable succeeds. *)
EnableNotStarted(p) ==
    /\ At(p, "start") /\ Fail
    /\ op' = {} /\ wedged' = wedged \cup {p}
    /\ UNCHANGED <<deps, rows, disabled, running, phase, order, todo, implicit>>

-----------------------------------------------------------------------------
(* Disable: refused while an enabled plugin depends on p. *)

MayDisable(p) == IsEnabled(p) /\ Dependents(p) = {}

Disable(p) ==
    /\ phase = "up" /\ op = {}
    /\ MayDisable(p)
    /\ Goto(p, "stop")
    /\ UNCHANGED <<deps, rows, disabled, running, phase, order, todo,
                   implicit, wedged, failures>>

DisableStops(p) ==
    /\ At(p, "stop")
    /\ running' = running \ {p}
    /\ wedged' = wedged \ {p}
    /\ Goto(p, "guard")
    /\ UNCHANGED <<deps, rows, disabled, phase, order, todo, implicit, failures>>

(* A failed Stop is logged and Disable goes on. *)
DisableNotStopped(p) ==
    /\ At(p, "stop") /\ Fail
    /\ wedged' = wedged \cup {p}
    /\ Goto(p, "guard")
    /\ UNCHANGED <<deps, rows, disabled, running, phase, order, todo, implicit>>

DisableGuards(p) ==
    /\ At(p, "guard")
    /\ disabled' = disabled \cup {p}
    /\ Goto(p, "unsave")
    /\ UNCHANGED <<deps, rows, running, phase, order, todo,
                   implicit, wedged, failures>>

DisableSaves(p) ==
    /\ At(p, "unsave")
    /\ SetState(p, "off")
    /\ op' = {}
    /\ UNCHANGED <<deps, disabled, running, phase, order, todo, wedged, failures>>

(* The row stays enabled, so a later Enable(p) finds nothing to do although *)
(* p is stopped and guarded.                                                *)
DisableNotSaved(p) ==
    /\ At(p, "unsave") /\ Fail
    /\ op' = {} /\ wedged' = wedged \cup {p}
    /\ UNCHANGED <<deps, rows, disabled, running, phase, order, todo, implicit>>

(* FirstOrCreate under no lock: a plugin without a row gets one, whose      *)
(* Enabled column takes its default, true.                                  *)
SetSidebarVisible(p) ==
    /\ phase = "up" /\ rows[p] = "none"
    /\ rows' = [rows EXCEPT ![p] = "on"]
    /\ implicit' = implicit \cup {p}
    /\ wedged' = wedged \cup {p}
    /\ UNCHANGED <<deps, memory, failures>>

BootStep ==
    \/ Boot \/ Cyclic \/ Sorted \/ SeedDone \/ InitPlugin \/ StartPlugin \/ BootFails
    \/ \E p \in Plugin : Sort(p) \/ SeedRow(p)

EnableStep(p) ==
    \/ Enable(p) \/ EnableSaves(p) \/ EnableNotSaved(p)
    \/ EnableUnguards(p) \/ EnableStarts(p) \/ EnableNotStarted(p)

DisableStep(p) ==
    \/ Disable(p) \/ DisableStops(p) \/ DisableNotStopped(p)
    \/ DisableGuards(p) \/ DisableSaves(p) \/ DisableNotSaved(p)

Next ==
    \/ BootStep \/ Crash
    \/ \E p \in Plugin : EnableStep(p) \/ DisableStep(p) \/ SetSidebarVisible(p)

Spec == Init /\ [][Next]_vars

-----------------------------------------------------------------------------
(* No plugin that Enable or the seeding enabled has a dependency that is    *)
(* not enabled: Disable refuses while a dependent is enabled, Enable while  *)
(* a dependency is not, also across failed writes and crashes.              *)
DepsClosed ==
    \A p \in Plugin \ implicit :
        IsEnabled(p) => \A d \in deps[p] : IsEnabled(d)

(* While the panel serves, the guard blocks every plugin that is not        *)
(* enabled, in the middle of an Enable or a Disable as well: the row is     *)
(* written before the guard is lifted and after it is set.                  *)
GuardCovers == phase = "up" => \A p \in Plugin : IsEnabled(p) \/ p \in disabled

(* Between two operations the three records agree: a plugin is enabled if   *)
(* and only if its tasks run and its routes are served, save for those a    *)
(* failure or the sidebar left halfway.                                     *)
Consistent ==
    phase = "up" /\ op = {} =>
        \A p \in Plugin \ wedged :
            /\ IsEnabled(p) <=> p \in running
            /\ IsEnabled(p) <=> p \notin disabled

(* StartAll starts no plugin before the enabled plugins it depends on.      *)
BootOrder ==
    phase = "start" =>
        \A p \in running : \A d \in deps[p] : IsEnabled(d) => d \in running

-----------------------------------------------------------------------------
(* The inductive invariant of the proofs. *)

(* Every plugin in the load order follows its dependencies. *)
OrderIsTopological ==
    \A i \in 1..Len(order) : \A d \in deps[order[i]] :
        \E j \in 1..(i - 1) : order[j] = d

(* InitAll and StartAll have `todo`, the tail of the load order, to do. *)
Done(p) == \E i \in 1..(Len(order) - Len(todo)) : order[i] = p

LoopPosition ==
    phase \in {"init", "start"} =>
        /\ Ordered = Plugin
        /\ Len(todo) \in 1..Len(order)
        /\ \A i \in 1..Len(todo) : todo[i] = order[Len(order) - Len(todo) + i]

(* What the boot has established so far. *)
BootProgress ==
    /\ phase # "up" => op = {} /\ wedged = {}
    /\ phase \in {"down", "sort", "seed"} => disabled = {} /\ running = {}
    /\ phase = "seed" => Ordered = Plugin
    /\ phase = "init" =>
          /\ running = {}
          /\ \A p \in Plugin : p \in disabled <=> Done(p) /\ ~IsEnabled(p)
    /\ phase = "start" =>
          /\ \A p \in Plugin : p \in running <=> Done(p) /\ IsEnabled(p)
          /\ \A p \in Plugin : p \in disabled <=> ~IsEnabled(p)

(* What the operation that holds mu may rely on, and has done so far. *)
EnableProgress ==
    \A p \in Plugin :
        /\ At(p, "save") => \A d \in deps[p] : IsEnabled(d)
        /\ At(p, "unguard") \/ At(p, "start") => IsEnabled(p)
        /\ At(p, "start") => p \notin disabled

DisableProgress ==
    \A p \in Plugin :
        At(p, "stop") \/ At(p, "guard") \/ At(p, "unsave") =>
            /\ IsEnabled(p)
            /\ \A q \in Plugin \ (implicit \cup {p}) : p \in deps[q] => ~IsEnabled(q)
            /\ ~At(p, "stop") /\ p \notin wedged => p \notin running
            /\ At(p, "unsave") => p \in disabled

(* Consistent, for every plugin but one an operation has begun to change. *)
OthersConsistent ==
    phase = "up" =>
        \A p \in Plugin \ wedged :
            (\A s \in {"unguard", "start", "stop", "guard", "unsave"} : ~At(p, s)) =>
                /\ IsEnabled(p) <=> p \in running
                /\ IsEnabled(p) <=> p \notin disabled

IInv ==
    /\ TypeOK
    /\ OrderIsTopological /\ LoopPosition /\ BootProgress
    /\ DepsClosed /\ GuardCovers
    /\ EnableProgress /\ DisableProgress /\ OthersConsistent
=============================================================================

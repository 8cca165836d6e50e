------------------------------- MODULE CronJob -------------------------------
(***************************************************************************)
(* One task of the cron job plugin (plugins/cronjob/service.go): its row,  *)
(* its entry in the scheduler, the guard against concurrent executions,    *)
(* the requests that change it, its executions with their retries, and     *)
(* the Start and Stop of the plugin around all of them.                    *)
(***************************************************************************)
EXTENDS Naturals, FiniteSets

CONSTANTS
    Client,       \* goroutines serving a request that changes the task
    Exec,         \* goroutines executing the task
    Entry,        \* ids the scheduler can give to an entry
    NoEntry,      \* the map has no entry id for the task
    MaxAttempts,  \* 1 + the retries of the task
    MaxLives      \* bound: how often the plugin is started

ASSUME CronAssumption ==
    /\ NoEntry \notin Entry
    /\ MaxAttempts \in Nat \ {0}
    /\ MaxLives \in Nat \ {0}

VARIABLES
    row,      \* the task's row: "absent", "on", "off" (enabled or not), "deleted"
    phase,    \* of the plugin: "stopped", the steps of Start, "up"
    life,     \* which Start the current context, runner and maps belong to
    found,    \* whether the query of the Start in progress found the task enabled
    sched,    \* the current runner's entries for the task
    entry,    \* s.entries[task]
    running,  \* s.running[task]
    op,       \* op[g]: the request g serves
    exec,     \* exec[e]: the execution e carries out
    amiss,    \* history: a failure keeps an enabled task out of the schedule
    overlap,  \* history: two changes of this life were in progress at the same time
    straddled \* history: Start replaced the guard of an execution under way

schedVars == <<sched, entry, amiss>>
vars == <<row, phase, life, found, schedVars, running, op, exec, overlap, straddled>>

Row == {"absent", "on", "off", "deleted"}
Phase == {"stopped", "guard", "add", "up"}
OpPc == {"idle", "save", "remove", "add", "event", "find", "evdelete", "unschedule", "drop"}
ExecPc == {"idle", "due", "triggered", "guard", "attempt", "delay", "run", "leave"}

Op == [pc : OpPc, on : BOOLEAN]
Execution == [pc : ExecPc, ctx : Nat, tries : Nat]

NoOp == [pc |-> "idle", on |-> FALSE]
NoExec == [pc |-> "idle", ctx |-> 0, tries |-> 0]

Exists == row \in {"on", "off"}
Enabled(b) == IF b THEN "on" ELSE "off"

(* The executions that hold the guard. *)
Busy == {e \in Exec : exec[e].pc \in {"attempt", "delay", "run", "leave"}}

(* The context an execution runs its command in is not cancelled. *)
Alive(e) == exec[e].ctx = life /\ phase # "stopped"

Init ==
    /\ row \in {"absent", "on", "off"}
    /\ phase = "stopped"
    /\ life = 0
    /\ found = FALSE
    /\ sched = {}
    /\ entry = NoEntry
    /\ amiss = FALSE
    /\ running = FALSE
    /\ op = [g \in Client |-> NoOp]
    /\ exec = [e \in Exec |-> NoExec]
    /\ overlap = FALSE
    /\ straddled = FALSE

-----------------------------------------------------------------------------
(* The scheduler's two critical sections of mu.  The runner refuses an     *)
(* expression that does not parse, as the core API lets an empty one in.   *)

addToScheduler ==
    \/ \E n \in Entry \ sched :
          /\ sched' = sched \cup {n}
          /\ entry' = n
          /\ amiss' = FALSE
    \/ /\ amiss' = TRUE
       /\ UNCHANGED <<sched, entry>>

removeFromScheduler ==
    /\ sched' = sched \ {entry}
    /\ entry' = NoEntry
    /\ UNCHANGED amiss

-----------------------------------------------------------------------------
(* Start and Stop of the plugin. *)

(* A bug: a new runner, but the ids of the old one's entries are kept. *)
StartResetKeepsIds ==
    /\ phase = "stopped"
    /\ life < MaxLives
    /\ phase' = "guard"
    /\ life' = life + 1
    /\ sched' = {}
    /\ overlap' = (\E g \in Client : op[g].pc # "idle")
    /\ UNCHANGED <<row, found, entry, amiss, running, op, exec, straddled>>

(* Start begins: a new runner, no entries, a new context. *)
StartReset ==
    /\ phase = "stopped"
    /\ life < MaxLives
    /\ phase' = "guard"
    /\ life' = life + 1
    /\ sched' = {}
    /\ entry' = NoEntry
    /\ overlap' = (\E g \in Client : op[g].pc # "idle")
    /\ UNCHANGED <<row, found, amiss, running, op, exec, straddled>>

(* The guard's map is replaced, whoever is in it; the enabled tasks are    *)
(* read by a query whose error is ignored.                                 *)
StartGuard ==
    /\ phase = "guard"
    /\ phase' = "add"
    /\ running' = FALSE
    /\ straddled' = (straddled \/ Busy # {})
    /\ \/ found' = (row = "on") /\ UNCHANGED amiss
       \/ found' = FALSE /\ amiss' = (amiss \/ row = "on")
    /\ UNCHANGED <<row, life, sched, entry, op, exec, overlap>>

StartRunner ==
    /\ phase = "add"
    /\ phase' = "up"
    /\ IF found THEN addToScheduler ELSE UNCHANGED schedVars
    /\ found' = FALSE
    /\ UNCHANGED <<row, life, running, op, exec, overlap, straddled>>

(* Stop: the runner ticks no more, the context is cancelled, stopCh closed. *)
Stop ==
    /\ phase = "up"
    /\ phase' = "stopped"
    /\ UNCHANGED <<row, life, found, schedVars, running, op, exec, overlap, straddled>>

Starting == phase \notin {"stopped", "up"}

-----------------------------------------------------------------------------
(* Requests.  The panel's own handlers and the core API, which writes the  *)
(* row itself and tells the scheduler by an event.                         *)

Begin(g, pc, b) ==
    /\ op' = [op EXCEPT ![g] = [pc |-> pc, on |-> b]]
    /\ overlap' = (overlap \/ Starting \/ \E h \in Client \ {g} : op[h].pc # "idle")

Goto(g, pc) == op' = [op EXCEPT ![g] = [NoOp EXCEPT !.pc = pc]]

(* Enabled whatever was asked for: GORM takes false for a missing value,   *)
(* stores the column's default, true, and sets the task's field to it.     *)
CreateTask(g) ==
    /\ op[g].pc = "idle" /\ row = "absent"
    /\ row' = "on"
    /\ Begin(g, "add", FALSE)
    /\ UNCHANGED <<phase, life, found, schedVars, running, exec, straddled>>

(* UpdateTask has read the row and applied the request to what it read. *)
UpdateTask(g, b) ==
    /\ op[g].pc = "idle" /\ Exists
    /\ Begin(g, "save", b)
    /\ UNCHANGED <<row, phase, life, found, schedVars, running, exec, straddled>>

(* Save writes the whole row, and inserts it, with the default for a false *)
(* Enabled, if it has been deleted.                                        *)
SaveRow(g) ==
    /\ op[g].pc = "save"
    /\ LET on == op[g].on \/ ~Exists IN
        /\ row' = Enabled(on)
        /\ op' = [op EXCEPT ![g] = [pc |-> "remove", on |-> on]]
    /\ UNCHANGED <<phase, life, found, schedVars, running, exec, overlap, straddled>>

(* It fails: the request ends here. *)
SaveFails(g) ==
    /\ op[g].pc = "save"
    /\ Goto(g, "idle")
    /\ UNCHANGED <<row, phase, life, found, schedVars, running, exec, overlap, straddled>>

(* A bug: an update adds its entry without removing the one it replaces. *)
RemoveEntryForgets(g) ==
    /\ op[g].pc = "remove"
    /\ Goto(g, IF op[g].on THEN "add" ELSE "idle")
    /\ UNCHANGED <<row, phase, life, found, schedVars, running, exec, overlap, straddled>>

RemoveEntry(g) ==
    /\ op[g].pc = "remove"
    /\ removeFromScheduler
    /\ Goto(g, IF op[g].on THEN "add" ELSE "idle")
    /\ UNCHANGED <<row, phase, life, found, running, exec, overlap, straddled>>

AddEntry(g) ==
    /\ op[g].pc = "add"
    /\ addToScheduler
    /\ Goto(g, "idle")
    /\ UNCHANGED <<row, phase, life, found, running, exec, overlap, straddled>>

DeleteTask(g) ==
    /\ op[g].pc = "idle" /\ Exists
    /\ Begin(g, "unschedule", FALSE)
    /\ UNCHANGED <<row, phase, life, found, schedVars, running, exec, straddled>>

Unschedule(g) ==
    /\ op[g].pc = "unschedule"
    /\ removeFromScheduler
    /\ Goto(g, "drop")
    /\ UNCHANGED <<row, phase, life, found, running, exec, overlap, straddled>>

(* A task that is already deleted is an error and changes nothing. *)
DropRow(g) ==
    /\ op[g].pc = "drop"
    /\ row' = "deleted"
    /\ Goto(g, "idle")
    /\ UNCHANGED <<phase, life, found, schedVars, running, exec, overlap, straddled>>

(* The statement fails, and the entry has been removed before it. *)
DropFails(g) ==
    /\ op[g].pc = "drop"
    /\ amiss' = (amiss \/ row = "on")
    /\ Goto(g, "idle")
    /\ UNCHANGED <<row, phase, life, found, sched, entry, running, exec, overlap, straddled>>

CronJobCreate(g) ==
    /\ op[g].pc = "idle" /\ row = "absent"
    /\ row' = "on"
    /\ Begin(g, "event", FALSE)
    /\ UNCHANGED <<phase, life, found, schedVars, running, exec, straddled>>

CronJobUpdate(g, b) ==
    /\ op[g].pc = "idle" /\ Exists
    /\ row' = Enabled(b)
    /\ Begin(g, "event", FALSE)
    /\ UNCHANGED <<phase, life, found, schedVars, running, exec, straddled>>

CronJobDelete(g) ==
    /\ op[g].pc = "idle" /\ Exists
    /\ Begin(g, "evdelete", FALSE)
    /\ UNCHANGED <<row, phase, life, found, schedVars, running, exec, straddled>>

(* The handler of cronjob.reload: nothing while the scheduler is stopped. *)
ReloadEvent(g) ==
    /\ op[g].pc \in {"event", "evdelete"}
    /\ LET done == IF op[g].pc = "event" THEN "idle" ELSE "drop"
           goOn == IF op[g].pc = "event" THEN "find" ELSE "drop" IN
       \/ /\ phase = "stopped"
          /\ Goto(g, done)
          /\ UNCHANGED schedVars
       \/ /\ phase # "stopped"
          /\ Goto(g, goOn)
          /\ removeFromScheduler
    /\ UNCHANGED <<row, phase, life, found, running, exec, overlap, straddled>>

FindTask(g) ==
    /\ op[g].pc = "find"
    /\ Goto(g, IF row = "on" THEN "add" ELSE "idle")
    /\ UNCHANGED <<row, phase, life, found, schedVars, running, exec, overlap, straddled>>

(* The task cannot be read: it is not put back. *)
FindFails(g) ==
    /\ op[g].pc = "find"
    /\ amiss' = (amiss \/ row = "on")
    /\ Goto(g, "idle")
    /\ UNCHANGED <<row, phase, life, found, sched, entry, running, exec, overlap, straddled>>

-----------------------------------------------------------------------------
(* Executions. *)

Move(e, pc) == exec' = [exec EXCEPT ![e] = [@ EXCEPT !.pc = pc]]

Wake(e, pc) ==
    /\ exec[e].pc = "idle"
    /\ Move(e, pc)
    /\ UNCHANGED <<row, phase, life, found, schedVars, running, op, overlap, straddled>>

(* An entry of the runner is due. *)
Tick(e) == phase = "up" /\ sched # {} /\ Wake(e, "due")

(* A request that has found the row, also one let in before a Stop. *)
TriggerTask(e) == Exists /\ life > 0 /\ Wake(e, "triggered")

ReadTask(e) ==
    /\ exec[e].pc \in {"due", "triggered"}
    /\ Move(e, IF row = "on" \/ (row = "off" /\ exec[e].pc = "triggered")
               THEN "guard" ELSE "idle")
    /\ UNCHANGED <<row, phase, life, found, schedVars, running, op, overlap, straddled>>

(* An execution under way: this one is logged as skipped. *)
Skip(e) ==
    /\ exec[e].pc = "guard" /\ running
    /\ Move(e, "idle")
    /\ UNCHANGED <<row, phase, life, found, schedVars, running, op, overlap, straddled>>

(* A bug: the guard is set without being looked at. *)
EnterAnyway(e) ==
    /\ exec[e].pc = "guard"
    /\ running' = TRUE
    /\ exec' = [exec EXCEPT ![e] = [@ EXCEPT !.pc = "attempt"]]
    /\ UNCHANGED <<row, phase, life, found, schedVars, op, overlap, straddled>>

Enter(e) ==
    /\ exec[e].pc = "guard" /\ ~running
    /\ running' = TRUE
    /\ exec' = [exec EXCEPT ![e] = [@ EXCEPT !.pc = "attempt"]]
    /\ UNCHANGED <<row, phase, life, found, schedVars, op, overlap, straddled>>

(* The first attempt, or the next one when the delay is over, in a context *)
(* made from the plugin's current one.                                     *)
Attempt(e) ==
    /\ exec[e].pc \in {"attempt", "delay"}
    /\ exec' = [exec EXCEPT ![e] =
                  [@ EXCEPT !.pc = "run", !.ctx = life, !.tries = exec[e].tries + 1]]
    /\ UNCHANGED <<row, phase, life, found, schedVars, running, op, overlap, straddled>>

(* The command ends well: a cancelled context starts none and kills one. *)
Succeed(e) ==
    /\ exec[e].pc = "run" /\ Alive(e)
    /\ Move(e, "leave")
    /\ UNCHANGED <<row, phase, life, found, schedVars, running, op, overlap, straddled>>

(* It fails, times out, or its context is cancelled. *)
Fail(e) ==
    /\ exec[e].pc = "run"
    /\ Move(e, IF exec[e].tries < MaxAttempts THEN "delay" ELSE "leave")
    /\ UNCHANGED <<row, phase, life, found, schedVars, running, op, overlap, straddled>>

(* A bug: an execution ends without giving the guard back. *)
LeaveSilently(e) ==
    /\ exec[e].pc = "leave"
    /\ exec' = [exec EXCEPT ![e] = NoExec]
    /\ UNCHANGED <<row, phase, life, found, schedVars, running, op, overlap, straddled>>

(* The deferred function deletes from the map of the moment. *)
Leave(e) ==
    /\ exec[e].pc = "leave"
    /\ running' = FALSE
    /\ exec' = [exec EXCEPT ![e] = NoExec]
    /\ UNCHANGED <<row, phase, life, found, schedVars, op, overlap, straddled>>

-----------------------------------------------------------------------------
Start == StartReset \/ StartGuard \/ StartRunner

Request(g) ==
    \/ \E b \in BOOLEAN : UpdateTask(g, b) \/ CronJobUpdate(g, b)
    \/ CreateTask(g) \/ SaveRow(g) \/ SaveFails(g) \/ RemoveEntry(g) \/ AddEntry(g)
    \/ DeleteTask(g) \/ Unschedule(g) \/ DropRow(g) \/ DropFails(g)
    \/ CronJobCreate(g) \/ CronJobDelete(g) \/ ReloadEvent(g) \/ FindTask(g) \/ FindFails(g)

Progress(e) ==
    ReadTask(e) \/ Skip(e) \/ Enter(e) \/ Attempt(e) \/ Succeed(e) \/ Fail(e) \/ Leave(e)

Next ==
    \/ Start \/ Stop
    \/ \E g \in Client : Request(g)
    \/ \E e \in Exec : Tick(e) \/ TriggerTask(e) \/ Progress(e)

Spec == Init /\ [][Next]_vars

-----------------------------------------------------------------------------
TypeOK ==
    /\ row \in Row
    /\ phase \in Phase
    /\ life \in Nat
    /\ found \in BOOLEAN
    /\ sched \subseteq Entry
    /\ entry \in Entry \cup {NoEntry}
    /\ amiss \in BOOLEAN
    /\ running \in BOOLEAN
    /\ op \in [Client -> Op]
    /\ exec \in [Exec -> Execution]
    /\ overlap \in BOOLEAN
    /\ straddled \in BOOLEAN

(* The guard of executeTask: unless Start has replaced it under an         *)
(* execution, no two executions of the task overlap, retries included.     *)
OneExecution == straddled \/ \A d, e \in Busy : d = e

(* Changes that did not overlap leave the scheduler as the row says: none  *)
(* for a task that is not enabled, never more than one entry, the one the  *)
(* map names, and exactly that one for an enabled task unless a failing    *)
(* statement or a refused expression kept it out.  A restart of the plugin *)
(* that no change overlaps repairs what overlapping changes left.          *)
ScheduleFollowsRow ==
    (phase = "up" /\ ~overlap /\ \A g \in Client : op[g].pc = "idle") =>
        /\ sched \subseteq {entry}
        /\ row # "on" => sched = {}
        /\ row = "on" /\ ~amiss => sched = {entry}

(* Overlapping changes too leave the map without dangling ids: the entry   *)
(* it names is one the current runner has, so it can be removed.           *)
NamesItsEntry == entry # NoEntry => entry \in sched

(* A guard that is taken is held by an execution under way, which gives it *)
(* back when its attempts are over: no task is skipped for ever.           *)
GuardIsHeld == running => Busy # {}

=============================================================================

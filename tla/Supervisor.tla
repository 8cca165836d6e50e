------------------------------ MODULE Supervisor ------------------------------
(***************************************************************************)
(* The supervisor plugin (plugins/supervisor/service.go), for one          *)
(* supervised item: the requests that start, stop, restart, update and     *)
(* delete it, the goroutine that runs its command and restarts it          *)
(* (runProcess), and the plugin's Start and Stop.                          *)
(*                                                                         *)
(* A run is a runningProcess with the goroutine that serves it.  A step is *)
(* one critical section of mu, one database access or one signal.  A crash *)
(* of the panel loses the runs; the row and the processes, each in a group *)
(* of its own, survive it.                                                 *)
(***************************************************************************)
EXTENDS Integers, FiniteSets

CONSTANTS
    Client,        \* goroutines serving requests
    Run,           \* runningProcess structs
    Pid, NoPid,    \* process ids, and the 0 of the column
    Requests,      \* the kinds of requests that are made
    Settings,      \* what updates set enabled and autorestart to
    MaxRestarts,   \* the item's max_restarts
    MaxFailures    \* bound on failed database accesses and crashes

ASSUME SettingsAreFlags == Settings \subseteq [enabled : BOOLEAN, auto : BOOLEAN]
ASSUME Sizes == MaxRestarts \in Nat \ {0} /\ MaxFailures \in Nat
ASSUME NoPidIsNoPid == NoPid \notin Pid

VARIABLES
    row,        \* the item's row
    alive,      \* processes that exist
    running,    \* s.running[id]: {r} or {}
    run,        \* run[r]: the struct and where its goroutine is
    op,         \* op[g]: the request goroutine g serves
    service,    \* "on" while requests are let through, "off" after Disable, or "down"
    closing,    \* s.closing
    apart,      \* history: requests that stop the item while none starts it
    told,       \* history: one of them has succeeded, and none has begun to
                \* start the item since
    mishaps,    \* history: how processes got out of sight
    failures

runs == <<running, run, closing>>
history == <<apart, told>>
vars == <<row, alive, runs, op, service, history, mishaps, failures>>

(* up: the status is "running", the one the code asks for. *)
Row == [exists : BOOLEAN, enabled : BOOLEAN, auto : BOOLEAN, up : BOOLEAN,
        pid : Pid \cup {NoPid}, count : 0..MaxRestarts]

(* What a request has read of the row and will use. *)
Item == [auto : BOOLEAN, up : BOOLEAN, pid : Pid \cup {NoPid}, count : 0..MaxRestarts]

RunState == [at : {"none", "launch", "record", "wait", "end", "tally", "delay"},
             auto : BOOLEAN, manual : BOOLEAN, cancelled : BOOLEAN,
             pid : Pid \cup {NoPid}, count : 0..MaxRestarts]

StartSteps  == {"startRead", "check", "adopt", "adopted", "clear", "enter"}
StopSteps   == {"stopRead", "lookup", "mark", "sayStopping", "cancel", "poll",
                "force", "pollAgain", "sayKilling", "kill", "settle"}
UpdateSteps == {"updateRead", "save"}
Steps == {"idle", "delete"} \cup StartSteps \cup StopSteps \cup UpdateSteps

Op == [at : Steps, then : {"return", "start", "delete", "off"},
       item : Item, run : SUBSET Run]

Mishaps == {"startInDelay", "stopInDelay", "lost"}

TypeOK ==
    /\ row \in Row
    /\ alive \subseteq Pid
    /\ running \in {{}} \cup {{r} : r \in Run}
    /\ run \in [Run -> RunState]
    /\ op \in [Client -> Op]
    /\ service \in {"on", "off", "down"}
    /\ closing \in BOOLEAN
    /\ apart \subseteq Client /\ told \in BOOLEAN
    /\ mishaps \subseteq Mishaps
    /\ failures \in 0..MaxFailures

(* CreateProcess: enabled and autorestart, as the columns' default replaces *)
(* a false that is inserted.                                                *)
Created == [exists |-> TRUE, enabled |-> TRUE, auto |-> TRUE,
            up |-> FALSE, pid |-> NoPid, count |-> 0]
Deleted == [Created EXCEPT !.exists = FALSE]

NoRun == [at |-> "none", auto |-> FALSE, manual |-> FALSE, cancelled |-> FALSE,
          pid |-> NoPid, count |-> 0]
NoItem == [auto |-> FALSE, up |-> FALSE, pid |-> NoPid, count |-> 0]
NoOp == [at |-> "idle", then |-> "return", item |-> NoItem, run |-> {}]

Read == [auto |-> row.auto, up |-> row.up, pid |-> row.pid, count |-> row.count]

Init ==
    /\ row = Created
    /\ alive = {} /\ running = {}
    /\ run = [r \in Run |-> NoRun]
    /\ op = [g \in Client |-> NoOp]
    /\ service = "down" /\ closing = FALSE
    /\ apart = {} /\ told = FALSE /\ mishaps = {} /\ failures = 0

Fail ==
    /\ failures < MaxFailures
    /\ failures' = failures + 1

At(g, step) == op[g].at = step
Goto(g, step) == op' = [op EXCEPT ![g] = [@ EXCEPT !.at = step]]
GotoWith(g, step, item) == op' = [op EXCEPT ![g] = [@ EXCEPT !.at = step, !.item = item]]
Ends(g) == op' = [op EXCEPT ![g] = NoOp]

(* Updates on the row, which may be gone. *)
Write(new) == row' = IF row.exists THEN new ELSE row
Stopped == [row EXCEPT !.up = FALSE, !.pid = NoPid, !.count = 0]

(* A run that is between its two critical sections and will come back.      *)
InDelay == \E r \in Run : run[r].at \in {"tally", "delay"} /\ ~run[r].manual
Notes(mishap, happens) == mishaps' = IF happens THEN mishaps \cup {mishap} ELSE mishaps

-----------------------------------------------------------------------------
(* Requests begin: the handlers, and the plugin's Start and Stop. *)

Serve(g, step, then) ==
    /\ service = "on" /\ At(g, "idle")
    /\ op' = [op EXCEPT ![g] = [@ EXCEPT !.at = step, !.then = then]]

StartBegins == apart' = {} /\ told' = FALSE
StopBegins(g) ==
    /\ told' = told
    /\ apart' = IF \E h \in Client : op[h].at \in StartSteps \/ op[h].then = "start"
                THEN apart \ {g} ELSE apart \cup {g}

StartRequest(g) ==
    /\ "start" \in Requests
    /\ Serve(g, "startRead", "return")
    /\ StartBegins
    /\ UNCHANGED <<row, alive, runs, service, mishaps, failures>>

StopRequest(g) ==
    /\ \/ "stop" \in Requests /\ Serve(g, "stopRead", "return")
       \/ "delete" \in Requests /\ Serve(g, "stopRead", "delete")
    /\ StopBegins(g)
    /\ UNCHANGED <<row, alive, runs, service, mishaps, failures>>

RestartRequest(g) ==
    /\ "restart" \in Requests
    /\ Serve(g, "stopRead", "start")
    /\ StartBegins
    /\ UNCHANGED <<row, alive, runs, service, mishaps, failures>>

UpdateRequest(g) ==
    /\ "update" \in Requests
    /\ Serve(g, "updateRead", "return")
    /\ UNCHANGED <<row, alive, runs, service, history, mishaps, failures>>

(* Stop of the plugin (Disable holds the plugin manager's lock): closing is *)
(* set, and never reset, and the runs in the map are stopped.               *)
ServiceStop(g) ==
    /\ "disable" \in Requests /\ \A h \in Client : op[h].then # "off"
    /\ service = "on" /\ At(g, "idle")
    /\ closing' = TRUE
    /\ IF running = {}
         THEN service' = "off" /\ op' = op
         ELSE service' = service /\ Serve(g, "stopRead", "off")
    /\ StopBegins(g)
    /\ UNCHANGED <<row, alive, running, run, mishaps, failures>>

(* Start of the plugin, at boot or when it is enabled again: an item with   *)
(* autostart is started in a goroutine of its own.                          *)
ServiceStart ==
    /\ service # "on"
    /\ service' = "on"
    /\ \/ \E g \in Client :
            /\ At(g, "idle") /\ row.exists /\ row.enabled
            /\ Goto(g, "startRead")
            /\ StartBegins
       \/ UNCHANGED <<op, history>>
    /\ UNCHANGED <<row, alive, runs, mishaps, failures>>

-----------------------------------------------------------------------------
(* StartProcess. *)

StartRead(g) ==
    /\ At(g, "startRead")
    /\ IF row.exists /\ row.enabled
         THEN GotoWith(g, "check", Read)
         ELSE Ends(g)
    /\ UNCHANGED <<row, alive, runs, service, history, mishaps, failures>>

Check(g) ==
    /\ At(g, "check")
    /\ IF running # {} THEN Ends(g) ELSE Goto(g, "adopt")
    /\ UNCHANGED <<row, alive, runs, service, history, mishaps, failures>>

(* The process the row names may have survived an earlier panel. *)
Survives(g) == op[g].item.pid \in alive

Adopt(g) ==
    /\ At(g, "adopt")
    /\ GotoWith(g, IF Survives(g) THEN "adopted"
                   ELSE IF op[g].item.pid # NoPid /\ op[g].item.up THEN "clear"
                   ELSE "enter",
                   [op[g].item EXCEPT !.pid = NoPid, !.up = FALSE])
    /\ UNCHANGED <<row, alive, runs, service, history, mishaps, failures>>

Adopted(g) ==
    /\ At(g, "adopted")
    /\ Write([row EXCEPT !.up = TRUE])
    /\ Ends(g)
    /\ UNCHANGED <<alive, runs, service, history, mishaps, failures>>

Clear(g) ==
    /\ At(g, "clear")
    /\ Write(Stopped)
    /\ Goto(g, "enter")
    /\ UNCHANGED <<alive, runs, service, history, mishaps, failures>>

(* A bug: the map is not looked at again after the database accesses. *)
MayEnterUnchecked == TRUE

MayEnter == running = {}

Unused(r) == run[r].at = "none" /\ \A g \in Client : r \notin op[g].run

Enter(g) ==
    /\ At(g, "enter")
    /\ \/ /\ ~MayEnter
          /\ UNCHANGED <<running, run, mishaps>>
       \/ /\ MayEnter
          /\ \E r \in Run :
                /\ Unused(r)
                /\ running' = {r}
                /\ run' = [run EXCEPT ![r] =
                     [NoRun EXCEPT !.at = "launch", !.auto = op[g].item.auto,
                                   !.count = op[g].item.count]]
          /\ Notes("startInDelay", InDelay)
    /\ Ends(g)
    /\ UNCHANGED <<row, alive, closing, service, history, failures>>

-----------------------------------------------------------------------------
(* StopProcess, and what a Restart, a Delete or the plugin's Stop does next. *)

StopEnds(g, ok) ==
    LET then == op[g].then IN
    /\ op' = [op EXCEPT ![g] = [NoOp EXCEPT
         !.at = CASE then = "delete" -> "delete"
                  [] then = "start" /\ ok -> "startRead"
                  [] OTHER -> "idle"]]
    /\ service' = IF then = "off" THEN "off" ELSE service

StopRead(g) ==
    /\ At(g, "stopRead")
    /\ IF row.exists
         THEN GotoWith(g, "lookup", [NoItem EXCEPT !.pid = row.pid]) /\ service' = service
         ELSE StopEnds(g, FALSE)
    /\ UNCHANGED <<row, alive, runs, history, mishaps, failures>>

Lookup(g) ==
    /\ At(g, "lookup")
    /\ LET kills == running = {} /\ op[g].item.pid \in alive IN
       op' = [op EXCEPT ![g] = [@ EXCEPT
         !.at = IF running # {} THEN "mark" ELSE IF kills THEN "sayKilling" ELSE "settle",
         !.run = running,
         !.item = IF kills THEN op[g].item ELSE NoItem]]
    /\ Notes("stopInDelay", running = {} /\ InDelay)
    /\ UNCHANGED <<row, alive, runs, service, history, failures>>

Mark(g) ==
    /\ At(g, "mark")
    /\ run' = [r \in Run |-> IF r \in op[g].run THEN [run[r] EXCEPT !.manual = TRUE] ELSE run[r]]
    /\ Goto(g, "sayStopping")
    /\ UNCHANGED <<row, alive, running, closing, service, history, mishaps, failures>>

SayStopping(g) ==
    /\ op[g].at \in {"sayStopping", "sayKilling"}
    /\ Write([row EXCEPT !.up = FALSE])
    /\ Goto(g, IF At(g, "sayStopping") THEN "cancel" ELSE "kill")
    /\ UNCHANGED <<alive, runs, service, history, mishaps, failures>>

Cancel(g) ==
    /\ At(g, "cancel")
    /\ run' = [r \in Run |-> IF r \in op[g].run THEN [run[r] EXCEPT !.cancelled = TRUE] ELSE run[r]]
    /\ Goto(g, "poll")
    /\ UNCHANGED <<row, alive, running, closing, service, history, mishaps, failures>>

(* The entry is gone, or a deadline has passed: the first time the group is *)
(* killed again, the second time an error is returned.                      *)
Poll(g) ==
    /\ op[g].at \in {"poll", "pollAgain"}
    /\ \/ /\ running = {}
          /\ op' = [op EXCEPT ![g] = [@ EXCEPT !.at = "settle", !.run = {}]]
          /\ service' = service
       \/ At(g, "poll") /\ Goto(g, "force") /\ service' = service
       \/ At(g, "pollAgain") /\ StopEnds(g, FALSE)
    /\ UNCHANGED <<row, alive, runs, history, mishaps, failures>>

ForceKill(g) ==
    /\ At(g, "force")
    /\ alive' = alive \ {run[r].pid : r \in op[g].run}
    /\ op' = [op EXCEPT ![g] = [@ EXCEPT !.at = "pollAgain", !.run = {}]]
    /\ UNCHANGED <<row, runs, service, history, mishaps, failures>>

KillByPid(g) ==
    /\ At(g, "kill")
    /\ alive' = alive \ {op[g].item.pid}
    /\ GotoWith(g, "settle", NoItem)
    /\ UNCHANGED <<row, runs, service, history, mishaps, failures>>

Settle(g) ==
    /\ At(g, "settle")
    /\ Write(Stopped)
    /\ told' = (told \/ g \in apart)
    /\ apart' = apart \ {g}
    /\ StopEnds(g, TRUE)
    /\ UNCHANGED <<alive, runs, mishaps, failures>>

(* The process of a panel that is gone is known from its row only. *)
Delete(g) ==
    /\ At(g, "delete")
    /\ row' = Deleted
    /\ Ends(g)
    /\ Notes("lost", running = {} /\ row.pid \in alive)
    /\ UNCHANGED <<alive, runs, service, history, failures>>

-----------------------------------------------------------------------------
(* UpdateProcess reads the row and saves every column of it; the Save of a  *)
(* row deleted meanwhile inserts it again, with the columns' defaults.      *)

UpdateRead(g) ==
    /\ At(g, "updateRead")
    /\ IF row.exists
         THEN GotoWith(g, "save", [Read EXCEPT !.auto = FALSE])
         ELSE Ends(g)
    /\ UNCHANGED <<row, alive, runs, service, history, mishaps, failures>>

Save(g) ==
    /\ At(g, "save")
    /\ \E new \in Settings :
          row' = [exists |-> TRUE, enabled |-> new.enabled \/ ~row.exists,
                  auto |-> new.auto \/ ~row.exists, up |-> op[g].item.up,
                  pid |-> op[g].item.pid, count |-> op[g].item.count]
    /\ Ends(g)
    /\ UNCHANGED <<alive, runs, service, history, mishaps, failures>>

(* A database access of a request fails. *)
RequestFails(g) ==
    /\ op[g].at \in UpdateSteps \cup {"delete", "startRead", "adopted", "clear",
                                      "stopRead", "sayStopping", "sayKilling", "settle"}
    /\ Fail
    /\ IF op[g].at \in StopSteps THEN StopEnds(g, FALSE) ELSE Ends(g) /\ service' = service
    /\ UNCHANGED <<row, alive, runs, history, mishaps>>

-----------------------------------------------------------------------------
(* runProcess.  Its database updates are not checked for errors.            *)

Advance(r, step) == run' = [run EXCEPT ![r] = [@ EXCEPT !.at = step]]
Record(new) ==
    \/ Write(new) /\ UNCHANGED failures
    \/ Fail /\ UNCHANGED row

Fresh(p) ==
    /\ p \notin alive /\ row.pid # p
    /\ \A r \in Run : run[r].pid # p
    /\ \A g \in Client : op[g].item.pid # p

Launch(r) ==
    /\ run[r].at = "launch" /\ ~run[r].cancelled
    /\ \E p \in Pid :
          /\ Fresh(p)
          /\ alive' = alive \cup {p}
          /\ run' = [run EXCEPT ![r] = [@ EXCEPT !.at = "record", !.pid = p]]
    /\ UNCHANGED <<row, running, closing, op, service, history, mishaps, failures>>

(* The command cannot be started, or the context is cancelled: markFailed. *)
LaunchFails(r) ==
    /\ run[r].at = "launch"
    /\ Record([row EXCEPT !.up = FALSE, !.pid = NoPid])
    /\ Advance(r, "end")
    /\ UNCHANGED <<alive, running, closing, op, service, history, mishaps>>

Launched(r) ==
    /\ run[r].at = "record"
    /\ Record([row EXCEPT !.up = TRUE, !.pid = run[r].pid])
    /\ Advance(r, "wait")
    /\ UNCHANGED <<alive, running, closing, op, service, history, mishaps>>

(* A bug: the command is not bound to the context. *)
KillUnbound(r) == FALSE /\ UNCHANGED vars

(* The Cancel hook of the command. *)
KillCancelled(r) ==
    /\ run[r].at \in {"record", "wait"} /\ run[r].cancelled
    /\ run[r].pid \in alive
    /\ alive' = alive \ {run[r].pid}
    /\ UNCHANGED <<row, runs, op, service, history, mishaps, failures>>

ProcessExits ==
    /\ \E p \in alive : alive' = alive \ {p}
    /\ UNCHANGED <<row, runs, op, service, history, mishaps, failures>>

(* Wait returns: the status is stopped or failed. *)
Waited(r) ==
    /\ run[r].at = "wait" /\ run[r].pid \notin alive
    /\ Record(Stopped)
    /\ Advance(r, "end")
    /\ UNCHANGED <<alive, running, closing, op, service, history, mishaps>>

(* A bug: the restarts are compared with > instead of >=. *)
MayRestartOnceMore(r) ==
    ~closing /\ ~run[r].manual /\ run[r].auto /\ run[r].count <= MaxRestarts

MayRestart(r) ==
    ~closing /\ ~run[r].manual /\ run[r].auto /\ run[r].count < MaxRestarts

(* The deferred function deletes the entry, whoever's it is. *)
Leave(r) ==
    /\ run[r].at = "end"
    /\ running' = {}
    /\ run' = [run EXCEPT ![r] =
         IF MayRestart(r)
         THEN [@ EXCEPT !.at = "tally", !.count = run[r].count + 1, !.pid = NoPid]
         ELSE NoRun]
    /\ UNCHANGED <<row, alive, closing, op, service, history, mishaps, failures>>

Tally(r) ==
    /\ run[r].at = "tally"
    /\ Record([row EXCEPT !.count = run[r].count])
    /\ Advance(r, "delay")
    /\ UNCHANGED <<alive, running, closing, op, service, history, mishaps>>

(* A bug: a stop during the delay is not looked for. *)
MayComeBackAnyway(r) == ~closing

MayComeBack(r) == ~closing /\ ~run[r].manual

(* After the delay, with a new context. *)
ComeBack(r) ==
    /\ run[r].at = "delay"
    /\ IF MayComeBack(r)
         THEN /\ running' = {r}
              /\ run' = [run EXCEPT ![r] = [@ EXCEPT !.at = "launch", !.cancelled = FALSE]]
         ELSE running' = running /\ run' = [run EXCEPT ![r] = NoRun]
    /\ UNCHANGED <<row, alive, closing, op, service, history, mishaps, failures>>

(* The panel dies. *)
Crash ==
    /\ service # "down" /\ Fail
    /\ service' = "down" /\ closing' = FALSE
    /\ running' = {} /\ run' = [r \in Run |-> NoRun]
    /\ op' = [g \in Client |-> NoOp]
    /\ Notes("lost", \E p \in alive : row.pid # p)
    /\ UNCHANGED <<row, alive, history>>

RequestBegins(g) ==
    \/ StartRequest(g) \/ StopRequest(g) \/ RestartRequest(g) \/ UpdateRequest(g)
    \/ ServiceStop(g)

RequestStep(g) ==
    \/ StartRead(g) \/ Check(g) \/ Adopt(g) \/ Adopted(g) \/ Clear(g) \/ Enter(g)
    \/ StopRead(g) \/ Lookup(g) \/ Mark(g) \/ SayStopping(g) \/ Cancel(g) \/ Poll(g)
    \/ ForceKill(g) \/ KillByPid(g) \/ Settle(g) \/ Delete(g)
    \/ UpdateRead(g) \/ Save(g)

RunStep(r) ==
    \/ Launch(r) \/ LaunchFails(r) \/ Launched(r) \/ KillCancelled(r) \/ Waited(r)
    \/ Leave(r) \/ Tally(r) \/ ComeBack(r)

Next ==
    \/ ServiceStart \/ ProcessExits \/ Crash
    \/ \E g \in Client : RequestBegins(g) \/ RequestStep(g) \/ RequestFails(g)
    \/ \E r \in Run : RunStep(r)

Spec == Init /\ [][Next]_vars

(* The goroutine of a run goes on, and a kill of the group is obeyed. *)
Fairness == \A r \in Run : WF_vars(RunStep(r))

-----------------------------------------------------------------------------
InSight == mishaps \cap {"startInDelay", "lost"} = {}

(* Whatever starts, stops, restarts and crashes overlap, there is at most   *)
(* one process of the item, unless it was started during the delay before   *)
(* a restart or a crash left a process whose id is not in the row.          *)
OneProcess == InSight => Cardinality(alive) <= 1

(* And that process can be found: by the entry of the map or by the row.    *)
Findable ==
    InSight => \A p \in alive : row.pid = p \/ \E r \in running : run[r].pid = p

(* handler.go:110, "process stopped": once a stop has succeeded there is no *)
(* process, until a start begins: neither a restart that was pending nor    *)
(* a launch in progress escapes it.                                         *)
StoppedIsDead == mishaps = {} /\ told => alive = {}

(* The same without the exceptions. *)
StoppedStaysStopped == told => alive = {}

(* A run marked for a stop starts no further process than the one that may  *)
(* be starting, also when the mark is set after it decided to restart.      *)
NoRestartAfterStop ==
    [][\A r \in Run : run[r].manual /\ run[r].at \in {"wait", "end", "tally", "delay"}
                         => run'[r].at # "launch"]_vars

(* A run whose context is cancelled ends, also when it is cancelled before  *)
(* its command is started or while the start is recorded.                   *)
CancelledRunEnds == \A r \in Run : run[r].cancelled ~> run[r].at = "none"
=============================================================================

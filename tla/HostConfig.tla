------------------------------ MODULE HostConfig ------------------------------
(***************************************************************************)
(* From a change of the hosts table to the configuration Caddy runs:       *)
(* HostService.ApplyConfig (internal/service/host.go), the Caddy manager   *)
(* it calls (internal/caddy/manager.go), the editor's and the operator's   *)
(* handlers that use the same manager (internal/handler/caddy.go), and the *)
(* boot sequence of main.go.                                               *)
(*                                                                         *)
(* A configuration is abstracted to the set of hosts it renders.  Every    *)
(* goroutine runs its request step by step: a step is one database access, *)
(* one critical section of Manager.mu, one access to the Caddyfile or one  *)
(* exchange with Caddy.  mu itself needs no variable, as the sections that *)
(* hold it (WriteCaddyfile, Start, Stop) read and write the file at one    *)
(* point only; Reload takes no lock, so its read of the file and its       *)
(* hand-over to Caddy are separate steps.  The Caddy binary may be missing *)
(* and fail to download; once installed nobody removes it.  Failing reads  *)
(* and writes of the database and of the disk are left out, and so is the  *)
(* test that oldContent is not empty, as the file exists from the boot on. *)
(***************************************************************************)
EXTENDS Integers, FiniteSets

CONSTANTS
    Handler,      \* goroutines serving requests that change hosts
    Editor,       \* those of them that also serve the Caddy page
    Boot,         \* the main goroutine while the panel boots
    Host,         \* the hosts
    Invalid,      \* hosts whose block `caddy validate` refuses
    Unloadable,   \* hosts whose block validates and yet fails to load
    AutoReloads,  \* values the auto_reload setting may be given
    MaxFailures   \* bound on panel crashes, deaths of Caddy and failing commands

Goroutine == Handler \cup {Boot}

ASSUME GoroutineKinds == Editor \subseteq Handler /\ Boot \notin Handler
ASSUME Bounds == AutoReloads \subseteq BOOLEAN /\ MaxFailures \in Nat
ASSUME HostKinds == Invalid \subseteq Host /\ Unloadable \subseteq Host

VARIABLES
    db,           \* enabled hosts in the hosts table
    autoReload,   \* the auto_reload setting
    caddyfile,    \* content of the Caddyfile
    binary,       \* the Caddy binary: "missing" or "found"
    caddy,        \* {conf} while Caddy runs conf, {} while it is down
    pc,           \* what each goroutine does next
    content,      \* content[p]: rendered configuration; for an editor, the
                  \* file its Reload read
    old,          \* old[p]: oldContent, kept for the rollback
    cbRead,       \* what the Reload of the timer callback read
    alone,        \* history: the only goroutine active since it began
    writer,       \* history: binary as it was when the Caddyfile was written
    failures,     \* crashes, deaths of Caddy and failed commands so far
    timer, waiters, outcome, inbox, begun, late  \* see ReloadCoalescer

coalescer == <<timer, waiters, outcome, inbox, begun, late>>
text == <<caddyfile, writer>>
disk == <<db, autoReload, text, binary>>
vars == <<disk, caddy, pc, content, old, cbRead, alone, failures, coalescer>>

RC == INSTANCE ReloadCoalescer WITH Caller <- Goroutine

Config == SUBSET Host
Down == {}
Running(conf) == {conf}

Renders(hosts)  == hosts                        \* RenderCaddyfile
Validates(conf) == conf \cap Invalid = {}       \* caddy validate
Loads(conf)     == conf \cap (Invalid \cup Unloadable) = {}

Found == {"missing", "found"}
Succeeded == {"written", "started", "reloaded"}
Steps == {"idle", "render", "readOld", "write", "check", "request", "await",
          "start", "rollback", "failed", "bootStart",
          "readFile", "load", "pageStart"} \cup Succeeded

TypeOK ==
    /\ db \in Config /\ caddyfile \in Config
    /\ autoReload \in BOOLEAN /\ binary \in Found /\ writer \in Found
    /\ caddy \in {Down} \cup {Running(conf) : conf \in Config}
    /\ pc \in [Goroutine -> Steps]
    /\ content \in [Goroutine -> Config]
    /\ old \in [Goroutine -> Config]
    /\ cbRead \in Config
    /\ alone \in SUBSET Goroutine
    /\ failures \in 0..MaxFailures
    /\ RC!TypeOK

Init ==
    /\ db = {} /\ caddyfile = {} /\ autoReload = TRUE
    /\ binary \in Found /\ writer = "found"
    /\ caddy = Down
    /\ pc = [g \in Goroutine |-> IF g = Boot THEN "render" ELSE "idle"]
    /\ content = [g \in Goroutine |-> {}]
    /\ old = [p \in Goroutine |-> {}]
    /\ cbRead = {}
    /\ alone = {Boot}
    /\ failures = 0
    /\ RC!Init

Goto(g, step) == pc' = [pc EXCEPT ![g] = step]
Booted == pc[Boot] = "idle"
OthersIdle(g) == \A h \in Goroutine \ {g} : pc[h] = "idle"
Begins(g) == alone' = IF OthersIdle(g) THEN {g} ELSE {}

-----------------------------------------------------------------------------
(* HostService: a change of the table, then ApplyConfig. *)

(* Create, Update, Delete, Toggle: the transaction commits; ApplyConfig is *)
(* called next.                                                            *)
ChangeHost(p) ==
    /\ Booted /\ pc[p] = "idle"
    /\ \E h \in Host : db' = IF h \in db THEN db \ {h} ELSE db \cup {h}
    /\ Goto(p, "render")
    /\ Begins(p)
    /\ UNCHANGED <<autoReload, text, binary, caddy, content, old, cbRead, failures, coalescer>>

Render(p) ==
    /\ pc[p] = "render"
    /\ content' = [content EXCEPT ![p] = Renders(db)]
    /\ Goto(p, "readOld")
    /\ UNCHANGED <<disk, caddy, old, cbRead, alone, failures, coalescer>>

ReadOld(p) ==
    /\ pc[p] = "readOld"
    /\ old' = [old EXCEPT ![p] = caddyfile]
    /\ Goto(p, "write")
    /\ UNCHANGED <<disk, caddy, content, cbRead, alone, failures, coalescer>>

(* The validation is skipped when there is no binary to run it. *)
Writable(conf) == binary = "found" => Validates(conf)

(* Mutant: nothing is validated. *)
WriteUnvalidated(conf) == caddyfile' = conf /\ writer' = binary

(* Manager.WriteCaddyfile: a content that does not validate leaves the     *)
(* file as it was; otherwise the rename replaces it.                       *)
WriteCaddyfile(conf) ==
    /\ caddyfile' = IF Writable(conf) THEN conf ELSE caddyfile
    /\ writer' = IF Writable(conf) THEN binary ELSE writer

WriteConfig(p) ==
    /\ pc[p] = "write"
    /\ WriteCaddyfile(content[p])
    /\ Goto(p, IF Writable(content[p]) THEN "check" ELSE "failed")
    /\ content' = [content EXCEPT ![p] = {}]
    /\ UNCHANGED <<db, autoReload, binary, caddy, old, cbRead, alone, failures, coalescer>>

(* The auto_reload setting, then IsRunning. *)
CheckRunning(p) ==
    /\ pc[p] = "check"
    /\ Goto(p, IF ~autoReload THEN "written"
               ELSE IF caddy = Down THEN "start" ELSE "request")
    /\ UNCHANGED <<disk, caddy, content, old, cbRead, alone, failures, coalescer>>

(* Mutant: the reload is requested and its result not awaited. *)
RequestAndForget(p) ==
    /\ pc[p] = "request"
    /\ RC!Request(p)
    /\ Goto(p, "reloaded")
    /\ UNCHANGED <<disk, caddy, content, old, cbRead, alone, failures>>

RequestReload(p) ==
    /\ pc[p] = "request"
    /\ RC!Request(p)
    /\ Goto(p, "await")
    /\ UNCHANGED <<disk, caddy, content, old, cbRead, alone, failures>>

Answered(p) ==
    /\ pc[p] = "await"
    /\ RC!Return(p)
    /\ Goto(p, IF inbox[p] = "ok" THEN "reloaded" ELSE "rollback")
    /\ UNCHANGED <<disk, caddy, content, old, cbRead, alone, failures>>

(* Mutant: the error is returned without restoring the file. *)
RollbackForgotten(p) ==
    /\ pc[p] = "rollback"
    /\ Goto(p, "failed")
    /\ UNCHANGED <<disk, caddy, content, old, cbRead, alone, failures, coalescer>>

Rollback(p) ==
    /\ pc[p] = "rollback"
    /\ WriteCaddyfile(old[p])
    /\ Goto(p, "failed")
    /\ UNCHANGED <<db, autoReload, binary, caddy, content, old, cbRead, alone, failures, coalescer>>

(* Mutant: Start does not look whether Caddy runs already. *)
StartAnother ==
    /\ caddy' = IF Loads(caddyfile) THEN caddy \cup Running(caddyfile) ELSE caddy
    /\ binary' = "found"

(* Manager.Start under mu: it installs a missing binary, which may fail;   *)
(* then nothing if Caddy runs, else it reads the file.                     *)
StartCaddy ==
    \/ binary = "missing" /\ UNCHANGED <<binary, caddy>>
    \/ /\ binary' = "found"
       /\ caddy' = IF caddy = Down /\ Loads(caddyfile) THEN Running(caddyfile) ELSE caddy

(* ApplyConfig only logs an error of Start. *)
StartForApply(p) ==
    /\ pc[p] = "start"
    /\ StartCaddy
    /\ Goto(p, "started")
    /\ UNCHANGED <<db, autoReload, text, content, old, cbRead, alone, failures, coalescer>>

(* ApplyConfig returns: the handler responds, or main.go goes on. *)
Finish(p) ==
    /\ pc[p] \in Succeeded \cup {"failed"}
    /\ Goto(p, IF p = Boot THEN "bootStart" ELSE "idle")
    /\ alone' = IF p = Boot THEN alone ELSE alone \ {p}
    /\ old' = [old EXCEPT ![p] = {}]
    /\ UNCHANGED <<disk, caddy, content, cbRead, failures, coalescer>>

(* main.go starts Caddy if it still does not run; then the server listens. *)
BootStart ==
    /\ pc[Boot] = "bootStart"
    /\ StartCaddy
    /\ Goto(Boot, "idle")
    /\ alone' = alone \ {Boot}
    /\ UNCHANGED <<db, autoReload, text, content, old, cbRead, failures, coalescer>>

-----------------------------------------------------------------------------
(* The callback of RequestReload, and Reload itself. *)

(* Caddy adapts and loads conf, or answers with an error and keeps what it *)
(* runs; with Caddy down the reload command fails.                         *)
Accepts(conf) == caddy # Down /\ Loads(conf)
LoadIntoCaddy(conf) == caddy' = IF Accepts(conf) THEN Running(conf) ELSE caddy

FireTimer ==
    /\ RC!FireTimer
    /\ UNCHANGED <<disk, caddy, pc, content, old, cbRead, alone, failures>>

CallbackReads ==
    /\ RC!StartReload
    /\ cbRead' = caddyfile
    /\ UNCHANGED <<disk, caddy, pc, content, old, alone, failures>>

CallbackLoads ==
    /\ RC!EndReload(IF Accepts(cbRead) THEN "ok" ELSE "error")
    /\ LoadIntoCaddy(cbRead)
    /\ cbRead' = {}
    /\ UNCHANGED <<disk, pc, content, old, alone, failures>>

Drain ==
    /\ RC!Drain
    /\ UNCHANGED <<disk, caddy, pc, content, old, cbRead, alone, failures>>

-----------------------------------------------------------------------------
(* The handlers of the Caddy page. *)

(* SaveCaddyfile, with or without `reload`: a text that does not validate  *)
(* changes nothing.                                                        *)
Save(e) ==
    /\ Booted /\ pc[e] = "idle"
    /\ \E conf \in Config : Writable(conf) /\ WriteCaddyfile(conf)
    /\ \/ Goto(e, "readFile") /\ Begins(e)
       \/ UNCHANGED pc /\ alone' = {}
    /\ UNCHANGED <<db, autoReload, binary, caddy, content, old, cbRead, failures, coalescer>>

(* The reload button and CoreAPI.ReloadCaddy call Reload directly. *)
PressReload(e) ==
    /\ Booted /\ pc[e] = "idle"
    /\ Goto(e, "readFile") /\ Begins(e)
    /\ UNCHANGED <<disk, caddy, content, old, cbRead, failures, coalescer>>

ReloadReads(e) ==
    /\ pc[e] = "readFile"
    /\ content' = [content EXCEPT ![e] = caddyfile]
    /\ Goto(e, "load")
    /\ UNCHANGED <<disk, caddy, old, cbRead, alone, failures, coalescer>>

ReloadLoads(e) ==
    /\ pc[e] = "load"
    /\ LoadIntoCaddy(content[e])
    /\ content' = [content EXCEPT ![e] = {}]
    /\ Goto(e, "idle")
    /\ alone' = alone \ {e}
    /\ UNCHANGED <<disk, old, cbRead, failures, coalescer>>

(* Stop, and Restart, which goes on to Start in a second critical section. *)
StopCaddy(e) ==
    /\ Booted /\ pc[e] = "idle"
    /\ caddy' = Down
    /\ \/ Goto(e, "pageStart") /\ Begins(e)
       \/ UNCHANGED <<pc, alone>>
    /\ UNCHANGED <<disk, content, old, cbRead, failures, coalescer>>

PressStart(e) ==
    /\ Booted /\ pc[e] = "idle"
    /\ Goto(e, "pageStart") /\ Begins(e)
    /\ UNCHANGED <<disk, caddy, content, old, cbRead, failures, coalescer>>

StartFromPage(e) ==
    /\ pc[e] = "pageStart"
    /\ StartCaddy
    /\ Goto(e, "idle")
    /\ alone' = alone \ {e}
    /\ UNCHANGED <<db, autoReload, text, content, old, cbRead, failures, coalescer>>

(* Upgrade, when there is no binary yet (of an installed one: left out). *)
InstallBinary(e) ==
    /\ Booted /\ pc[e] = "idle"
    /\ binary = "missing" /\ binary' = "found"
    /\ UNCHANGED <<db, autoReload, text, caddy, pc, content, old, cbRead, alone, failures, coalescer>>

SetAutoReload ==
    /\ Booted
    /\ autoReload' \in AutoReloads \ {autoReload}
    /\ UNCHANGED <<db, text, binary, caddy, pc, content, old, cbRead, alone, failures, coalescer>>

-----------------------------------------------------------------------------
(* Failures. *)

(* `caddy start` or `caddy reload` fails although the configuration is one *)
(* Caddy loads: no admin API yet, a timeout.  The callback may be told of  *)
(* a failure when the configuration was loaded all the same.               *)
CommandFails(g) ==
    /\ pc[g] \in {"start", "bootStart", "load", "pageStart"}
    /\ failures < MaxFailures
    /\ failures' = failures + 1
    /\ Goto(g, IF pc[g] = "start" THEN "started" ELSE "idle")
    /\ content' = [content EXCEPT ![g] = {}]
    /\ alone' = IF pc[g] = "start" THEN alone ELSE alone \ {g}
    /\ binary' \in {binary, "found"}
    /\ UNCHANGED <<db, autoReload, text, caddy, old, cbRead, coalescer>>

CallbackFails ==
    /\ failures < MaxFailures
    /\ failures' = failures + 1
    /\ RC!EndReload("error")
    /\ LoadIntoCaddy(cbRead) \/ UNCHANGED caddy
    /\ cbRead' = {}
    /\ UNCHANGED <<disk, pc, content, old, alone>>

CaddyDies ==
    /\ caddy # Down /\ failures < MaxFailures
    /\ caddy' = Down
    /\ failures' = failures + 1
    /\ UNCHANGED <<disk, pc, content, old, cbRead, alone, coalescer>>

(* Configurations that a `caddy reload` in flight has read: the command is *)
(* a process of its own and may complete although the panel is gone.       *)
InFlightReads ==
    {content[e] : e \in {f \in Editor : pc[f] = "load"}}
        \cup (IF timer = "reloading" THEN {cbRead} ELSE {})

(* The panel dies and boots again: goroutines, timer and waiters are lost, *)
(* the table, the setting, the Caddyfile and Caddy's process are not.  The *)
(* boot's EnsureBinary installs a missing binary, or only logs that it     *)
(* cannot.                                                                 *)
PanelCrash ==
    /\ failures < MaxFailures
    /\ failures' = failures + 1
    /\ \/ UNCHANGED caddy
       \/ \E conf \in InFlightReads : LoadIntoCaddy(conf)
    /\ pc' = [g \in Goroutine |-> IF g = Boot THEN "render" ELSE "idle"]
    /\ content' = [g \in Goroutine |-> {}]
    /\ old' = [p \in Goroutine |-> {}]
    /\ cbRead' = {}
    /\ alone' = {Boot}
    /\ timer' = "nil" /\ waiters' = {} /\ outcome' = "none"
    /\ inbox' = [p \in Goroutine |-> "none"] /\ begun' = {} /\ late' = {}
    /\ binary' \in {binary, "found"}
    /\ UNCHANGED <<db, autoReload, text>>

-----------------------------------------------------------------------------
ApplyStep(p) ==
    \/ Render(p) \/ ReadOld(p) \/ WriteConfig(p) \/ CheckRunning(p)
    \/ RequestReload(p) \/ Answered(p) \/ Rollback(p) \/ StartForApply(p)
    \/ Finish(p)

PageRequest(e) ==
    Save(e) \/ PressReload(e) \/ StopCaddy(e) \/ PressStart(e) \/ InstallBinary(e)

PageStep(e) == ReloadReads(e) \/ ReloadLoads(e) \/ StartFromPage(e)

(* What a goroutine does once it has been given something to do. *)
Continue(g) ==
    ApplyStep(g) \/ PageStep(g) \/ CommandFails(g) \/ (g = Boot /\ BootStart)

CallbackStep == FireTimer \/ CallbackReads \/ CallbackLoads \/ CallbackFails \/ Drain

Next ==
    \/ \E p \in Handler : ChangeHost(p)
    \/ \E e \in Editor : PageRequest(e)
    \/ \E g \in Goroutine : Continue(g)
    \/ CallbackStep
    \/ SetAutoReload
    \/ CaddyDies
    \/ PanelCrash

Spec == Init /\ [][Next]_vars

-----------------------------------------------------------------------------

(* `caddy validate` guards every write (manager.go:79-89), rollbacks and   *)
(* editor saves included, but it is skipped while the binary is missing.   *)
(* A file it refuses can then be put in place; such a file was written     *)
(* before the binary came, Caddy never runs it, and while Caddy runs the   *)
(* file on disk is one a restart or reload would find valid.               *)
OnlyValidConfig ==
    /\ caddy # Down \/ writer = "found" => Validates(caddyfile)
    /\ \A conf \in caddy : Validates(conf)

(* An ApplyConfig that no other request overlaps repairs whatever earlier  *)
(* races, failures or crashes left behind: when it reports success the     *)
(* Caddyfile renders the table, and Caddy runs it or is down.  The boot    *)
(* sequence is such a run.                                                 *)
UndisturbedApplySyncs ==
    \A p \in alone :
        /\ pc[p] \in Succeeded => caddyfile = Renders(db)
        /\ pc[p] \in {"started", "reloaded"} => caddy \in {Running(caddyfile), Down}

(* An ApplyConfig that nothing overlaps is all or nothing on disk: when it *)
(* reports failure the Caddyfile is what it was.                           *)
UndisturbedFailureRestores ==
    \A p \in alone : pc[p] = "failed" => caddyfile = old[p]

(* host.go:653: "Rollback: restore old Caddyfile so Caddy stays on the     *)
(* last known-good config."  With auto_reload on and no editor, what a     *)
(* rollback is about to restore is a configuration Caddy accepts.          *)
RollbackTargetKnownGood == \A g \in Goroutine : pc[g] = "rollback" => Loads(old[g])

-----------------------------------------------------------------------------
(* The inductive invariants behind the first three properties. *)

CoalescerInUse ==
    /\ \A g \in Goroutine : RC!Calling(g) <=> pc[g] = "await"
    /\ timer # "nil" => waiters # {}
    /\ RC!AnsweredOnce /\ RC!OutcomeKnown

CaddyHasBinary == caddy # Down => binary = "found"

InSync == caddy \in {Running(caddyfile), Down}
AfterWrite == {"check", "request", "await", "start"} \cup Succeeded
Reloading == {"request", "await", "rollback"}

(* Where an undisturbed ApplyConfig stands. *)
AloneIsAlone == \A p \in alone : pc[p] # "idle" /\ OthersIdle(p)

UndisturbedProgress == \A p \in alone :
    /\ pc[p] \in {"readOld", "write"} => content[p] = Renders(db)
    /\ pc[p] \in AfterWrite => caddyfile = Renders(db)
    /\ pc[p] \in {"write", "check"} => caddy = Down \/ Validates(old[p])
    /\ pc[p] \in Reloading => Validates(old[p])
    /\ pc[p] \in {"write", "failed"} => caddyfile = old[p]
    /\ pc[p] = "start" => caddy = Down
    /\ pc[p] \in {"started", "reloaded"} => InSync
    /\ pc[p] = "await" /\ timer = "reloading" => cbRead = caddyfile
    /\ pc[p] = "await" /\ (outcome = "ok" \/ inbox[p] = "ok") => InSync

IInv ==
    /\ TypeOK /\ CoalescerInUse
    /\ OnlyValidConfig /\ CaddyHasBinary
    /\ AloneIsAlone /\ UndisturbedProgress
=============================================================================

------------------------------- MODULE Deploys -------------------------------
(***************************************************************************)
(* One project of the deploy plugin: a run of its build pipeline           *)
(* (plugins/deploy/service.go: runBuildOnce, runBuild, runDockerDeploy,    *)
(* runBareDeploy; process.go, docker_runner.go) next to a request that     *)
(* starts, stops, rolls back or deletes it.  BuildQueue shows that one run *)
(* at a time is made.                                                      *)
(*                                                                         *)
(* A project is served by a unit or a container with two names, main and   *)
(* staging.  live[s] is the port the process known to the service manager  *)
(* under that name listens on: a systemd unit whose file is renamed keeps  *)
(* its process under the old name, a renamed container takes it along.     *)
(* Two processes cannot listen on one port.  A process may also be active  *)
(* and answer nobody; a container that does keeps its published port.      *)
(***************************************************************************)
EXTENDS Naturals, Sequences, FiniteSets

CONSTANTS
    None,       \* no port
    Deaf,       \* in place of a port: active, and listens on none
    MaxBuilds,  \* bound: runs begun
    MaxRequests,\* bound: requests made
    MaxFaults   \* bound: kinds of failures that go unnoticed

ASSUME DeploysAssumption ==
    /\ None \notin {1, 2} /\ Deaf \notin {1, 2, None}
    /\ {MaxBuilds, MaxRequests, MaxFaults} \subseteq Nat

Port == {1, 2}               \* basePort + ID, basePort + ID + 5000
Other(port) == IF port = 2 THEN 1 ELSE 2
Name == {"main", "staging"}
Nowhere == [n \in Name |-> None]

VARIABLES
    mode,     \* deploy_mode: "docker" or "bare"
    row,      \* the projects row
    deps,     \* the deployments rows, in the order of their creation
    file,     \* file[n]: port in the unit file, or of the container, n
    live,     \* live[n]: port the process of n listens on, None without one
    site,     \* upstream of the host of the project's domain, None without
    run,      \* the run in progress
    op,       \* the request in progress
    begun, asked,  \* counters of the bounds
    mishaps   \* history: "overlap" a request and a run at the same time,
              \* "raced" a rollback and a run, "slip" an error that is only
              \* logged, "crash" a run cut short by the panel's death,
              \* "promoted" a staging unit was renamed, "stray" the host of
              \* the domain is not in the row, "leftProcess", "leftHost" and
              \* "leftRows" a deletion failed unnoticed

vars == <<mode, row, deps, file, live, site, run, op, begun, asked, mishaps>>
procs == <<file, live>>
bounds == <<begun, asked>>

Idle == [at |-> "idle", num |-> 0, dep |-> 0, port |-> 1, host |-> FALSE, lit |-> FALSE]
NoOp == [at |-> "idle", num |-> 0, port |-> 1, host |-> FALSE]

Init ==
    /\ mode \in {"docker", "bare"}
    /\ row = [there |-> TRUE, status |-> "pending", port |-> 1, host |-> FALSE, current |-> 0]
    /\ deps = <<>>
    /\ file = Nowhere /\ live = Nowhere /\ site = None
    /\ run = Idle /\ op = NoOp
    /\ begun = 0 /\ asked = 0 /\ mishaps = {}

-----------------------------------------------------------------------------
(* Service manager and Docker *)

Free(port) == \A n \in Name : live[n] # port
Served == \E n \in Name : live[n] = site /\ site # None

(* UPDATE projects ... WHERE id: nothing happens to a deleted row. *)
Put(new) == row' = IF row.there THEN new ELSE row
Status(status) == Put([row EXCEPT !.status = status])

Proc(n, f, l) == file' = [file EXCEPT ![n] = f] /\ live' = [live EXCEPT ![n] = l]

Bound(n, port) ==
    \E m \in Name \ {n} :
        live[m] = port \/ (mode = "docker" /\ live[m] = Deaf /\ file[m] = port)

(* What becomes of a process that is started: it cannot listen when its    *)
(* port is taken, and exits or stays.                                      *)
Launched(n, port) == {Deaf, IF Bound(n, port) THEN None ELSE port}

Unnoticed == {"slip", "crash", "leftProcess", "leftHost", "leftRows"}
Mishap(kinds) ==
    /\ kinds \cap Unnoticed # {} => Cardinality(mishaps \cap Unnoticed) < MaxFaults
    /\ mishaps' = mishaps \cup kinds
Goto(stage) == run' = [run EXCEPT !.at = stage]
EndRun == run' = Idle

-----------------------------------------------------------------------------
(* runBuildOnce: the project is read, then a deployment created. *)
RunRead ==
    /\ run.at = "idle" /\ begun < MaxBuilds /\ row.there
    /\ run' = [Idle EXCEPT !.at = "read", !.num = row.current + 1,
                           !.port = row.port, !.host = row.host]
    /\ begun' = begun + 1
    /\ Mishap(IF op.at = "idle" THEN {} ELSE {"overlap"} \cup
              (IF op.num # 0 THEN {"raced"} ELSE {}))
    /\ UNCHANGED <<mode, row, deps, procs, site, op, asked>>

RunRecord ==
    /\ run.at = "read"
    /\ deps' = Append(deps, [num |-> run.num, status |-> "building"])
    /\ Put([row EXCEPT !.status = "building", !.current = run.num])
    /\ run' \in {[run EXCEPT !.at = "build", !.dep = Len(deps) + 1], Idle}
    /\ UNCHANGED <<mode, procs, site, op, bounds, mishaps>>

(* Save(deployment) writes the whole row, and creates it if it is gone. *)
SaveDeployment(status) == deps' = [deps EXCEPT ![run.dep].status = status]

RunBuildFails ==
    /\ run.at = "build"
    /\ SaveDeployment("failed") /\ Status("error") /\ EndRun
    /\ UNCHANGED <<mode, procs, site, op, bounds, mishaps>>

RunBuilt ==
    /\ run.at = "build"
    /\ SaveDeployment("success") /\ Goto("deploy")
    /\ UNCHANGED <<mode, row, procs, site, op, bounds, mishaps>>

(* First deploy, or zero-downtime: decided by what runs under the main name *)
(* now and by the host id read when the run began.                          *)
RunChoose ==
    /\ run.at = "deploy"
    /\ run' = [run EXCEPT !.at = IF live["main"] = None \/ ~run.host THEN "first" ELSE "stage",
                          !.lit = Served]
    /\ UNCHANGED <<mode, row, deps, procs, site, op, bounds, mishaps>>

(* docker build, docker run, service install or start fails: before        *)
(* anything is touched, or with what ran before stopped.                   *)
RunDeployFails ==
    /\ run.at \in {"deploy", "first"}
    /\ Status("error") /\ EndRun
    /\ \/ UNCHANGED procs
       \/ /\ run.at = "first"
          /\ IF mode = "docker" THEN Proc("main", None, None)
             ELSE \E l \in {None, live["main"]} : Proc("main", run.port, l)
    /\ UNCHANGED <<mode, deps, site, op, bounds, mishaps>>

-----------------------------------------------------------------------------
(* First deploy: what runs as main is replaced. *)
RunFirst ==
    /\ run.at = "first"
    /\ IF mode = "docker" /\ Bound("main", run.port)
       THEN Proc("main", run.port, None) /\ Status("error") /\ EndRun
       ELSE /\ \E l \in Launched("main", run.port) : Proc("main", run.port, l)
            /\ Goto("check") /\ UNCHANGED row
    /\ UNCHANGED <<mode, deps, site, op, bounds, mishaps>>

RunExited ==
    /\ run.at = "check"
    /\ Proc("main", file["main"], None)
    /\ Status("error") /\ EndRun
    /\ UNCHANGED <<mode, deps, site, op, bounds, mishaps>>

(* Active is enough: the health check's verdict is ignored. *)
RunStarted ==
    /\ run.at = "check" /\ live["main"] # None
    /\ Status("running")
    /\ IF run.host THEN EndRun ELSE Goto("proxy")
    /\ UNCHANGED <<mode, deps, procs, site, op, bounds, mishaps>>

(* setupReverseProxy: CreateHost fails and is only logged, before its rows  *)
(* are committed or, when Caddy refuses them, after it.  A host created     *)
(* before for the same domain is replaced.                                  *)
RunProxy ==
    /\ run.at = "proxy"
    /\ \/ EndRun /\ UNCHANGED <<site, mishaps>>
       \/ site' = run.port /\ Mishap({"stray"}) /\ (EndRun \/ Goto("record"))
    /\ UNCHANGED <<mode, row, deps, procs, op, bounds>>

(* The host's id is written; an error is ignored. *)
RunRecordHost ==
    /\ run.at = "record"
    /\ EndRun
    /\ \/ /\ Put([row EXCEPT !.host = TRUE])
          /\ mishaps' = IF row.there THEN mishaps \ {"stray"} ELSE mishaps
       \/ UNCHANGED <<row, mishaps>>
    /\ UNCHANGED <<mode, deps, procs, site, op, bounds>>

-----------------------------------------------------------------------------
(* Zero-downtime deploy. *)

(* RunStaging removes a leftover container first; `systemctl start` does   *)
(* nothing when the unit is active.                                        *)
RunStage ==
    /\ run.at = "stage"
    /\ LET port == Other(run.port) IN
       IF mode = "docker" /\ Bound("staging", port)
       THEN Proc("staging", port, None) /\ Status("error") /\ EndRun
       ELSE /\ \E l \in IF mode = "bare" /\ live["staging"] # None THEN {live["staging"]}
                       ELSE Launched("staging", port) : Proc("staging", port, l)
            /\ Goto("probe") /\ UNCHANGED row
    /\ UNCHANGED <<mode, deps, site, op, bounds, mishaps>>

(* Nothing was installed, or what was is cleaned up; a unit that could not *)
(* be enabled stays, and errors of the cleaning up are ignored.            *)
RunStageFails ==
    /\ run.at \in {"stage", "probe"}
    /\ Status("error") /\ EndRun
    /\ \/ Proc("staging", None, None) /\ UNCHANGED mishaps
       \/ /\ Proc("staging", IF mode = "bare" THEN Other(run.port) ELSE file["staging"],
                  live["staging"])
          /\ Mishap({"slip"})
    /\ UNCHANGED <<mode, deps, site, op, bounds>>

(* A bug: traffic is not switched before the old process is stopped. *)
RunProbeSkipsSwitch ==
    /\ run.at = "probe" /\ live["staging"] # None /\ ~Free(Other(run.port))
    /\ Goto("promote")
    /\ UNCHANGED <<mode, row, deps, procs, site, op, bounds, mishaps>>

(* Still running after two seconds, and its port answers. *)
RunProbe ==
    /\ run.at = "probe" /\ live["staging"] # None /\ ~Free(Other(run.port))
    /\ Goto("switch")
    /\ UNCHANGED <<mode, row, deps, procs, site, op, bounds, mishaps>>

(* updateUpstream; an error is only logged. *)
RunSwitch ==
    /\ run.at = "switch"
    /\ Goto("promote")
    /\ \/ site # None /\ site' = Other(run.port) /\ UNCHANGED mishaps
       \/ UNCHANGED site /\ Mishap({"slip"})
    /\ UNCHANGED <<mode, row, deps, procs, op, bounds>>

(* PromoteStaging: the old unit is stopped and the staging unit's file      *)
(* takes its name, the process does not.  Errors are ignored.               *)
RunPromoteUnit ==
    /\ run.at = "promote" /\ mode = "bare"
    /\ file' = [main |-> file["staging"], staging |-> None]
    /\ \/ live' = [live EXCEPT !["main"] = None] /\ Mishap({"promoted"})
       \/ UNCHANGED live /\ Mishap({"promoted", "slip"})
    /\ Goto("finish")
    /\ UNCHANGED <<mode, row, deps, site, op, bounds>>

(* The old container is removed and the staging one renamed. *)
RunPromoteContainer ==
    /\ run.at = "promote" /\ mode = "docker"
    /\ Goto("finish")
    /\ \/ /\ file' = [main |-> file["staging"], staging |-> None]
          /\ live' = [main |-> live["staging"], staging |-> None]
          /\ UNCHANGED mishaps
       \/ (Proc("main", None, None) \/ UNCHANGED procs) /\ Mishap({"slip"})
    /\ UNCHANGED <<mode, row, deps, site, op, bounds>>

(* A bug: the row keeps the old port. *)
RunFinishKeepsPort ==
    /\ run.at = "finish"
    /\ Status("running")
    /\ EndRun
    /\ UNCHANGED <<mode, deps, procs, site, op, bounds, mishaps>>

RunFinish ==
    /\ run.at = "finish"
    /\ Put([row EXCEPT !.status = "running", !.port = Other(run.port)])
    /\ EndRun
    /\ UNCHANGED <<mode, deps, procs, site, op, bounds, mishaps>>

RunStep ==
    \/ RunRead \/ RunRecord \/ RunBuildFails \/ RunBuilt \/ RunChoose \/ RunDeployFails
    \/ RunFirst \/ RunExited \/ RunStarted \/ RunProxy \/ RunRecordHost
    \/ RunStage \/ RunStageFails \/ RunProbe \/ RunSwitch
    \/ RunPromoteUnit \/ RunPromoteContainer \/ RunFinish

-----------------------------------------------------------------------------
(* A request begins: the project's row is read. *)
Ask(stage, num) ==
    /\ op.at = "idle" /\ asked < MaxRequests /\ row.there
    /\ asked' = asked + 1
    /\ op' = [at |-> stage, num |-> num, port |-> row.port, host |-> row.host]
    /\ Mishap(IF run.at = "idle" THEN {} ELSE {"overlap"} \cup
              (IF num # 0 THEN {"raced"} ELSE {}))

OpGoto(stage) == op' = [op EXCEPT !.at = stage]
EndOp == op' = NoOp

(* StartProject and StopProject act on the main name, then on the status; *)
(* they end in an error when there is nothing of that name.  Starting what *)
(* is active does nothing.                                                *)
StartProject ==
    /\ file["main"] # None
    /\ Ask("started", 0)
    /\ IF live["main"] # None THEN UNCHANGED procs
       ELSE /\ mode = "docker" => ~Bound("main", file["main"])
            /\ \E l \in Launched("main", file["main"]) : Proc("main", file["main"], l)
    /\ UNCHANGED <<mode, row, deps, site, run, begun>>

StopProject ==
    /\ file["main"] # None
    /\ Ask("stopped", 0)
    /\ Proc("main", file["main"], None)
    /\ UNCHANGED <<mode, row, deps, site, run, begun>>

WriteStatus ==
    /\ op.at \in {"started", "stopped"}
    /\ Status(IF op.at = "started" THEN "running" ELSE "stopped")
    /\ EndOp
    /\ UNCHANGED <<mode, deps, procs, site, run, bounds, mishaps>>

(* Rollback to a build that succeeded. *)
Rollback ==
    /\ \E i \in DOMAIN deps : deps[i].status = "success" /\ Ask("mark", deps[i].num)
    /\ UNCHANGED <<mode, row, deps, procs, site, run, begun>>

(* A bug: the deployments after it keep their status. *)
MarkNothing ==
    /\ op.at = "mark"
    /\ Put([row EXCEPT !.current = op.num])
    /\ OpGoto("restore")
    /\ UNCHANGED <<mode, deps, procs, site, run, bounds, mishaps>>

MarkNewer ==
    /\ op.at = "mark"
    /\ deps' = [i \in DOMAIN deps |->
                   IF deps[i].num > op.num /\ deps[i].status # "gone"
                   THEN [deps[i] EXCEPT !.status = "rolled_back"] ELSE deps[i]]
    /\ Put([row EXCEPT !.current = op.num])
    /\ OpGoto("restore")
    /\ UNCHANGED <<mode, procs, site, run, bounds, mishaps>>

(* docker run removes the main container first and may fail; the row then *)
(* says what it said before.                                              *)
RestoreContainer ==
    /\ op.at = "restore" /\ mode = "docker"
    /\ \/ /\ ~Bound("main", op.port)
          /\ \E l \in Launched("main", op.port) : Proc("main", op.port, l)
          /\ OpGoto("verify") /\ UNCHANGED mishaps
       \/ Proc("main", None, None) /\ EndOp /\ Mishap({"slip"})
    /\ UNCHANGED <<mode, row, deps, site, run, bounds>>

RestoreUnit ==
    /\ op.at = "restore" /\ mode = "bare"
    /\ IF file["main"] = None THEN UNCHANGED procs
       ELSE \E l \in Launched("main", file["main"]) : Proc("main", file["main"], l)
    /\ EndOp
    /\ UNCHANGED <<mode, row, deps, site, run, bounds, mishaps>>

VerifyRestored ==
    /\ op.at = "verify"
    /\ EndOp
    /\ IF row.there THEN Status("running") /\ UNCHANGED procs
       ELSE Proc("main", None, None) /\ UNCHANGED row
    /\ UNCHANGED <<mode, deps, site, run, bounds, mishaps>>

(* DeleteProject: process, host, rows.  Errors of all but the last deletion *)
(* are ignored.                                                             *)
DeleteProject ==
    /\ Ask("unprocess", 0)
    /\ UNCHANGED <<mode, row, deps, procs, site, run, begun>>

DeleteProcess ==
    /\ op.at = "unprocess"
    /\ \/ Proc("main", None, None) /\ UNCHANGED mishaps
       \/ UNCHANGED procs /\ Mishap({"leftProcess"})
    /\ OpGoto("unhost")
    /\ UNCHANGED <<mode, row, deps, site, run, bounds>>

(* A bug: the host stays when the project is not running. *)
DeleteHostIfRunning ==
    /\ op.at = "unhost"
    /\ site' = IF op.host /\ row.status = "running" THEN None ELSE site
    /\ OpGoto("unrow")
    /\ UNCHANGED <<mode, row, deps, procs, run, bounds, mishaps>>

DeleteHost ==
    /\ op.at = "unhost"
    /\ \/ site' = (IF op.host THEN None ELSE site) /\ UNCHANGED mishaps
       \/ op.host /\ UNCHANGED site /\ Mishap({"leftHost"})
    /\ OpGoto("unrow")
    /\ UNCHANGED <<mode, row, deps, procs, run, bounds>>

DeleteRows ==
    /\ op.at = "unrow"
    /\ EndOp
    /\ \E kept \in SUBSET {"deployments", "project"} :
          /\ deps' = IF "deployments" \in kept THEN deps
                     ELSE [i \in DOMAIN deps |-> [deps[i] EXCEPT !.status = "gone"]]
          /\ row' = [row EXCEPT !.there = row.there /\ "project" \in kept]
          /\ Mishap((IF "deployments" \in kept THEN {"leftRows"} ELSE {}) \cup
                    (IF "project" \in kept THEN {"slip"} ELSE {}))
    /\ UNCHANGED <<mode, procs, site, run, bounds>>

OpStep ==
    \/ StartProject \/ StopProject \/ WriteStatus
    \/ Rollback \/ MarkNewer \/ RestoreContainer \/ RestoreUnit \/ VerifyRestored
    \/ DeleteProject \/ DeleteProcess \/ DeleteHost \/ DeleteRows

(* The panel dies and is started again: nothing resumes. *)
Crash ==
    /\ run.at # "idle" \/ op.at # "idle"
    /\ Mishap({"crash"}) /\ EndRun /\ EndOp
    /\ UNCHANGED <<mode, row, deps, procs, site, bounds>>

Next == RunStep \/ OpStep \/ Crash

Spec == Init /\ [][Next]_vars

-----------------------------------------------------------------------------
TypeOK ==
    /\ mode \in {"docker", "bare"}
    /\ row \in [there : BOOLEAN, port : Port, host : BOOLEAN, current : 0..MaxBuilds,
                status : {"pending", "building", "running", "stopped", "error"}]
    /\ \A i \in DOMAIN deps :
          deps[i] \in [num : 1..MaxBuilds,
                       status : {"building", "success", "failed", "rolled_back", "gone"}]
    /\ file \in [Name -> Port \cup {None}] /\ live \in [Name -> Port \cup {None, Deaf}]
    /\ site \in Port \cup {None}

Quiet == run.at = "idle" /\ op.at = "idle"
Undisturbed == mishaps \cap {"overlap", "slip", "crash"} = {}

(* A project that is said to run is served: its host's upstream is the     *)
(* port of its row and a process listens there, through first deploys,     *)
(* switches, failed deploys, stops, starts and rollbacks, in any order.    *)
(* The exception is a program that was started under the main name and     *)
(* does not listen, which a first deploy, a start or a rollback takes for   *)
(* running all the same; a zero-downtime deploy never does.                 *)
TrafficFollowsPort ==
    Quiet /\ Undisturbed /\ row.there /\ row.status = "running" /\ row.host
        => site = row.port /\ (Served \/ live["main"] = Deaf)

(* "Zero-downtime": a project that answered when the deploy began answers  *)
(* at every moment of it, whether or not the deploy succeeds.              *)
ZeroDowntime ==
    run.at \in {"stage", "probe", "switch", "promote", "finish"} /\ run.lit /\ Undisturbed
        => Served

(* A rollback makes the next build reuse the numbers after it, and the log  *)
(* and image names made of them: of the deployments with a number, one at   *)
(* most can be rolled back to, unless a rollback overlapped a build.        *)
OneSuccessPerNumber ==
    "raced" \notin mishaps =>
        \A i, j \in DOMAIN deps :
            deps[i].status = "success" /\ deps[j] = deps[i] => i = j

(* "DeleteProject deletes a project and cleans up resources": when no build *)
(* went on meanwhile, what is left of it is only what an ignored error      *)
(* left, a host no row named, or the process of a renamed staging unit; a   *)
(* failure with one of them keeps no other.                                 *)
DeletedLeavesNothing ==
    Quiet /\ ~row.there /\ Undisturbed =>
        /\ mishaps \cap {"promoted", "leftProcess"} = {} => file = Nowhere /\ live = Nowhere
        /\ mishaps \cap {"stray", "leftHost"} = {} => site = None
        /\ "leftRows" \notin mishaps => \A i \in DOMAIN deps : deps[i].status = "gone"

(* "StopProject stops the project process": when it records that the       *)
(* project is stopped, and nothing failed or overlapped, no process is left. *)
StopEndsProcess ==
    [][WriteStatus /\ row'.status = "stopped" /\ run.at = "idle" /\ Undisturbed
           => live = Nowhere]_vars
=============================================================================

------------------------------- MODULE Preview -------------------------------
(***************************************************************************)
(* The preview of one pull request (plugins/deploy/preview.go): webhooks   *)
(* that create or rebuild it, deletions by a user, a closed pull request   *)
(* or the expiry sweep, and the build goroutines they start, cancel and    *)
(* wait for.  Pull requests of the same repository: the approval of forks  *)
(* is left out.                                                            *)
(*                                                                         *)
(* A row has an id and is numbered anew when it is created again; its two  *)
(* containers and its host are named after the id.  The per-PR mutex is    *)
(* looked up in a map whose entry a deletion removes: epoch counts the     *)
(* removals, and a request locks the mutex of the epoch it looked in.      *)
(***************************************************************************)
EXTENDS Integers, FiniteSets

CONSTANTS
    Client,    \* goroutines serving a webhook, a user or the sweep
    MaxJobs,   \* bound: builds asked for
    MaxDeletes,\* bound: deletions asked for
    MaxHosts,  \* bound: hosts created
    MaxFaults  \* bound: failures that leave something behind

Nobody == "nobody"
PreviewAssumption ==
    {MaxJobs, MaxDeletes, MaxHosts, MaxFaults} \subseteq Nat /\ Nobody \notin Client

VARIABLES
    row,      \* the preview's row; id 0: none
    lastId,   \* ids handed out
    box,      \* box: the running containers, as <<id, slot>>
    site,     \* site[i]: host of preview i's domain (0: none) and its upstream
    lastHost, \* hosts created
    job,      \* job[j]: build goroutine j, numbered in the order they are asked for
    jobs,     \* the registry: jobs[i] is the job of preview i, 0 for none
    op,       \* op[g]: the request g serves
    epoch, holder,   \* the mutexes: holder[e] holds the one of epoch e
    deletes,  \* counter of the bound
    overran,  \* history: a job outlived the 30 seconds it is waited for
    split,    \* history: two requests held a mutex of the PR at once
    partial,  \* history: a deletion removed one of host, containers and row
              \* and not the others
    cut,      \* history: generations whose last status was never written, as
              \* <<id, gen>>: the deadline, a database error or the panel's death
    strays,   \* history: hosts whose id no row took, or that were not removed
    lingers   \* history: containers that were to be removed and were not

vars == <<row, lastId, box, site, lastHost, job, jobs, op, epoch, holder, deletes, overran, split,
          partial, cut, strays, lingers>>
faults == <<cut, strays, lingers>>
outside == <<box, site, lastHost>>
locks == <<epoch, holder, split, partial>>

Id == 1..MaxJobs
Job == 1..MaxJobs
Epoch == 0..MaxJobs
NoRow == [id |-> 0, gen |-> 0, status |-> "none", slot |-> -1, host |-> 0]
NoSite == [host |-> 0, slot |-> -1]
NoJob == [at |-> "none", id |-> 0, gen |-> 0, slot |-> -1, host |-> 0, cancelled |-> FALSE]
NoOp == [at |-> "idle", job |-> 0, old |-> 0, id |-> 0, gen |-> 0, lock |-> 0, errs |-> FALSE]

Init ==
    /\ row = NoRow /\ lastId = 0
    /\ box = {} /\ site = [i \in Id |-> NoSite] /\ lastHost = 0
    /\ job = [j \in Job |-> NoJob] /\ jobs = [i \in Id |-> 0]
    /\ op = [g \in Client |-> NoOp]
    /\ epoch = 0 /\ holder = [e \in Epoch |-> Nobody]
    /\ deletes = 0 /\ overran = FALSE /\ split = FALSE /\ partial = FALSE
    /\ cut = {} /\ strays = {} /\ lingers = {}

-----------------------------------------------------------------------------
Goto(g, stage) == op' = [op EXCEPT ![g].at = stage]
EndOp(g) == op' = [op EXCEPT ![g] = NoOp]

Enter(g) ==
    /\ holder[op[g].lock] = Nobody
    /\ split' = (split \/ \E e \in Epoch : holder[e] # Nobody)
    /\ UNCHANGED <<epoch, partial>>
Lock(g) == Enter(g) /\ holder' = [holder EXCEPT ![op[g].lock] = g]
LockBriefly(g) == Enter(g) /\ UNCHANGED holder
Unlock(g) == holder' = [holder EXCEPT ![op[g].lock] = Nobody]

Cancel(j) == IF j = 0 THEN UNCHANGED job ELSE job' = [job EXCEPT ![j].cancelled = TRUE]
Drained(j) == j \notin {k \in Job : job[k].at # "done"}

-----------------------------------------------------------------------------
(* CreatePreviewWithFork *)
CreatePreview(g) ==
    /\ op[g].at = "idle"
    /\ \E j \in Job :
          /\ job[j] = NoJob /\ \A k \in 1..(j - 1) : job[k] # NoJob
          /\ job' = [job EXCEPT ![j].at = "asked"]
          /\ op' = [op EXCEPT ![g] = [NoOp EXCEPT !.at = "lock", !.job = j, !.lock = epoch]]
    /\ UNCHANGED <<row, lastId, outside, jobs, locks, deletes, overran, faults>>

(* upsertPreviewRow: a rebuild keeps slot and host and takes the next      *)
(* generation; a new row gets the next id.                                 *)
Upserted == IF row.id # 0 THEN [row EXCEPT !.gen = @ + 1, !.status = "pending"]
            ELSE [NoRow EXCEPT !.id = lastId + 1, !.gen = 1, !.status = "pending"]

(* A bug: the mutex is released before the job is installed. *)
UpsertAndUnlock(g) ==
    /\ op[g].at = "lock" /\ holder[op[g].lock] = Nobody
    /\ row' = Upserted
    /\ lastId' = IF row.id = 0 THEN lastId + 1 ELSE lastId
    /\ op' = [op EXCEPT ![g] =
                 [@ EXCEPT !.at = "install", !.id = Upserted.id, !.gen = Upserted.gen]]
    /\ UNCHANGED <<outside, job, jobs, locks, deletes, overran, faults>>

Upsert(g) ==
    /\ op[g].at = "lock"
    /\ Lock(g)
    /\ row' = Upserted
    /\ lastId' = IF row.id = 0 THEN lastId + 1 ELSE lastId
    /\ op' = [op EXCEPT ![g] =
                 [@ EXCEPT !.at = "install", !.id = Upserted.id, !.gen = Upserted.gen]]
    /\ UNCHANGED <<outside, job, jobs, deletes, overran, faults>>

(* The new job takes the place of the old one, and the lock is released. *)
Install(g) ==
    /\ op[g].at = "install"
    /\ op' = [op EXCEPT ![g] = [@ EXCEPT !.at = "cancel", !.old = jobs[op[g].id]]]
    /\ jobs' = [jobs EXCEPT ![op[g].id] = op[g].job]
    /\ Unlock(g)
    /\ UNCHANGED <<row, lastId, outside, job, epoch, split, partial, deletes, overran, faults>>

CancelOld(g) ==
    /\ op[g].at = "cancel"
    /\ Cancel(op[g].old) /\ Goto(g, "drain")
    /\ UNCHANGED <<row, lastId, outside, jobs, locks, deletes, overran, faults>>

(* The old job has ended, or 30 seconds have passed. *)
Launch(g) ==
    /\ job' = [job EXCEPT ![op[g].job] =
                  [@ EXCEPT !.at = "start", !.id = op[g].id, !.gen = op[g].gen]]
    /\ EndOp(g)
    /\ UNCHANGED <<row, lastId, outside, jobs, locks, deletes, faults>>

(* A bug: the goroutine is started without waiting for the old one. *)
SpawnAtOnce(g) == op[g].at = "drain" /\ Launch(g) /\ UNCHANGED overran

Spawn(g) ==
    /\ op[g].at = "drain" /\ Drained(op[g].old)
    /\ Launch(g) /\ UNCHANGED overran

SpawnAnyway(g) ==
    /\ op[g].at = "drain" /\ ~Drained(op[g].old)
    /\ Launch(g) /\ overran' = TRUE

-----------------------------------------------------------------------------
(* runPreview *)

NextSlot(j) == IF job[j].slot = 0 THEN 1 ELSE 0
NextBox(j) == <<job[j].id, NextSlot(j)>>
Mine(j) == row.id = job[j].id /\ row.gen = job[j].gen
Move(j, stage) == job' = [job EXCEPT ![j].at = stage]

(* The goroutine returns: clearJob, then its channel is closed. *)
Finish(j) ==
    /\ Move(j, "done")
    /\ jobs' = IF jobs[job[j].id] = j THEN [jobs EXCEPT ![job[j].id] = 0] ELSE jobs

Fault == Cardinality(cut) + Cardinality(strays) + Cardinality(lingers) < MaxFaults

(* A database error, or the deadline where it is not told from a           *)
(* cancellation: the status of the generation stays what it is.            *)
Abandon(j) ==
    /\ Fault /\ UNCHANGED row
    /\ cut' = cut \cup (IF Mine(j) THEN {<<row.id, row.gen>>} ELSE {})

MarkFailed(j) ==
    \/ row' = (IF Mine(j) THEN [row EXCEPT !.status = "failed"] ELSE row) /\ UNCHANGED cut
    \/ Abandon(j)

(* Errors are ignored. *)
StopAndRemove(b) ==
    \/ box' = box \ {b} /\ UNCHANGED lingers
    \/ Fault /\ b \in box /\ lingers' = lingers \cup {b} /\ UNCHANGED box

quiet == <<lastId, op, locks, deletes, overran>>

RunStart(j) ==
    /\ job[j].at = "start"
    /\ \/ /\ Mine(j)
          /\ row' = [row EXCEPT !.status = "building"]
          /\ job' = [job EXCEPT ![j] = [@ EXCEPT !.at = "build", !.slot = row.slot]]
          /\ UNCHANGED <<jobs, cut>>
       \/ ~Mine(j) /\ Finish(j) /\ UNCHANGED <<row, cut>>
       \/ Finish(j) /\ Abandon(j)
    /\ UNCHANGED <<outside, quiet, strays, lingers>>

(* Clone and image build; a cancelled job's commands are killed. *)
RunBuilt(j) ==
    /\ job[j].at = "build" /\ ~job[j].cancelled
    /\ Move(j, "reread")
    /\ UNCHANGED <<row, outside, jobs, quiet, faults>>

(* An error before anything of the new slot runs. *)
RunFails(j) ==
    /\ job[j].at \in {"start", "build", "run"}
    /\ MarkFailed(j) /\ Finish(j)
    /\ UNCHANGED <<outside, quiet, strays, lingers>>

(* A job returns between two commands and leaves the status alone when it  *)
(* is cancelled, or out of time after fifteen minutes.                     *)
RunQuits(j) ==
    /\ job[j].at \in {"build", "reread", "run"}
    /\ (job[j].cancelled /\ UNCHANGED <<row, cut>>) \/ Abandon(j)
    /\ Finish(j)
    /\ UNCHANGED <<outside, quiet, strays, lingers>>

(* The row is read again; the slot that does not serve is cleared.  If the *)
(* row cannot be read, the container it named at first is removed.         *)
RunReread(j) ==
    /\ job[j].at = "reread"
    /\ \/ /\ Mine(j)
          /\ job' = [job EXCEPT ![j] =
                        [@ EXCEPT !.at = "run", !.slot = row.slot, !.host = row.host]]
          /\ StopAndRemove(<<row.id, IF row.slot = 0 THEN 1 ELSE 0>>)
          /\ UNCHANGED <<row, jobs, cut>>
       \/ /\ row.id = job[j].id /\ row.gen # job[j].gen
          /\ Finish(j) /\ UNCHANGED <<row, box, lingers, cut>>
       \/ /\ (row.id # job[j].id /\ UNCHANGED <<row, cut>>) \/ Abandon(j)
          /\ StopAndRemove(<<job[j].id, job[j].slot>>) /\ Finish(j)
    /\ UNCHANGED <<site, lastHost, quiet, strays>>

(* RunWithName removes a container of that name first. *)
RunUp(j) ==
    /\ job[j].at = "run" /\ ~job[j].cancelled
    /\ box' = box \cup {NextBox(j)} /\ lingers' = lingers \ {NextBox(j)}
    /\ Move(j, "probe")
    /\ UNCHANGED <<row, site, lastHost, jobs, quiet, cut, strays>>

Point(j, host) == site' = [site EXCEPT ![job[j].id] = [host |-> host, slot |-> NextSlot(j)]]

(* CreateHost and UpdateHostUpstream return an error before they change    *)
(* anything, or after it, when Caddy refuses the configuration.            *)
HostFails(j) ==
    \/ UNCHANGED <<site, lastHost, strays>>
    \/ /\ job[j].at = "host" /\ job[j].host = 0 /\ lastHost < MaxHosts /\ Fault
       /\ Point(j, lastHost + 1) /\ lastHost' = lastHost + 1
       /\ strays' = strays \cup {lastHost + 1}
    \/ /\ job[j].at = "host" /\ job[j].host # 0 /\ site[job[j].id].host = job[j].host
       /\ Point(j, job[j].host) /\ UNCHANGED <<lastHost, strays>>

(* The container does not answer, the job is cancelled or out of time, or   *)
(* there is no host for it.                                                *)
RunDown(j) ==
    /\ job[j].at \in {"probe", "host"}
    /\ StopAndRemove(NextBox(j))
    /\ MarkFailed(j) \/ (job[j].cancelled /\ UNCHANGED <<row, cut>>)
    /\ HostFails(j) /\ Finish(j)
    /\ UNCHANGED quiet

RunProbe(j) ==
    /\ job[j].at = "probe" /\ ~job[j].cancelled
    /\ Move(j, "host")
    /\ UNCHANGED <<row, outside, jobs, quiet, faults>>

(* CreateHost takes the domain away from a host that has it. *)
RunCreateHost(j) ==
    /\ job[j].at = "host" /\ job[j].host = 0 /\ lastHost < MaxHosts
    /\ lastHost' = lastHost + 1 /\ Point(j, lastHost + 1)
    /\ job' = [job EXCEPT ![j] = [@ EXCEPT !.at = "claim", !.host = lastHost + 1]]
    /\ UNCHANGED <<row, box, jobs, quiet, faults>>

(* A bug: the host stays when its id cannot be written. *)
RunClaimLeavesHost(j) ==
    /\ job[j].at = "claim"
    /\ \/ /\ Mine(j) /\ row.host = 0
          /\ row' = [row EXCEPT !.host = job[j].host] /\ Move(j, "retire")
          /\ UNCHANGED <<box, jobs>>
       \/ /\ ~(Mine(j) /\ row.host = 0)
          /\ box' = box \ {NextBox(j)} /\ Finish(j) /\ UNCHANGED row
    /\ UNCHANGED <<site, lastHost, quiet, faults>>

(* The host's id is written if nobody came in between; else all is undone, *)
(* and an error of that ignored.                                           *)
RunClaim(j) ==
    /\ job[j].at = "claim"
    /\ \/ /\ Mine(j) /\ row.host = 0
          /\ row' = [row EXCEPT !.host = job[j].host] /\ Move(j, "retire")
          /\ UNCHANGED <<box, site, jobs, faults>>
       \/ /\ (~(Mine(j) /\ row.host = 0) /\ UNCHANGED <<row, cut>>) \/ Abandon(j)
          /\ \/ /\ site' = IF site[job[j].id].host = job[j].host
                           THEN [site EXCEPT ![job[j].id] = NoSite] ELSE site
                /\ UNCHANGED strays
             \/ Fault /\ strays' = strays \cup {job[j].host} /\ UNCHANGED site
          /\ StopAndRemove(NextBox(j)) /\ Finish(j)
    /\ UNCHANGED <<lastHost, quiet>>

(* UpdateHostUpstream: no error when the host is gone. *)
RunSwitch(j) ==
    /\ job[j].at = "host" /\ job[j].host # 0
    /\ IF site[job[j].id].host = job[j].host THEN Point(j, job[j].host) ELSE UNCHANGED site
    /\ Move(j, "retire")
    /\ UNCHANGED <<row, box, lastHost, jobs, quiet, faults>>

RunRetire(j) ==
    /\ job[j].at = "retire"
    /\ StopAndRemove(<<job[j].id, job[j].slot>>)
    /\ Move(j, "commit")
    /\ UNCHANGED <<row, site, lastHost, jobs, quiet, cut, strays>>

(* The slot is written if slot and generation are those read; else the new *)
(* container is removed.                                                   *)
RunCommit(j) ==
    /\ job[j].at = "commit"
    /\ \/ /\ Mine(j) /\ row.slot = job[j].slot
          /\ row' = [row EXCEPT !.slot = NextSlot(j), !.status = "running"]
          /\ UNCHANGED <<box, lingers, cut>>
       \/ /\ (~(Mine(j) /\ row.slot = job[j].slot) /\ UNCHANGED <<row, cut>>) \/ Abandon(j)
          /\ StopAndRemove(NextBox(j))
    /\ Finish(j)
    /\ UNCHANGED <<site, lastHost, quiet, strays>>

RunStep(j) ==
    \/ RunStart(j) \/ RunBuilt(j) \/ RunFails(j) \/ RunQuits(j) \/ RunReread(j) \/ RunUp(j)
    \/ RunDown(j) \/ RunProbe(j) \/ RunCreateHost(j) \/ RunClaim(j) \/ RunSwitch(j) \/ RunRetire(j)
    \/ RunCommit(j)

-----------------------------------------------------------------------------
(* DeletePreview, and CleanupExpired and the closed webhook that call it   *)
(* with an id they have read.                                              *)
DeletePreview(g) ==
    /\ op[g].at = "idle" /\ row.id # 0 /\ deletes < MaxDeletes
    /\ deletes' = deletes + 1
    /\ op' = [op EXCEPT ![g] = [NoOp EXCEPT !.at = "bump", !.id = row.id, !.lock = epoch]]
    /\ UNCHANGED <<row, lastId, outside, job, jobs, locks, overran, faults>>

(* Under the lock: the next generation is taken and the job looked up,     *)
(* unless the row cannot be read back.                                     *)
Bump(g) ==
    /\ op[g].at = "bump"
    /\ LockBriefly(g)
    /\ \/ /\ row.id = op[g].id
          /\ row' = [row EXCEPT !.gen = @ + 1]
          /\ op' = [op EXCEPT ![g] = [@ EXCEPT !.at = "stop", !.gen = row.gen + 1,
                                               !.old = jobs[op[g].id]]]
          /\ UNCHANGED cut
       \/ /\ row.id = op[g].id /\ Fault
          /\ row' = [row EXCEPT !.gen = @ + 1]
          /\ EndOp(g) /\ cut' = cut \cup {<<row.id, row.gen + 1>>}
       \/ row.id # op[g].id /\ EndOp(g) /\ UNCHANGED <<row, cut>>
    /\ UNCHANGED <<lastId, outside, job, jobs, deletes, overran, strays, lingers>>

StopJob(g) ==
    /\ op[g].at = "stop"
    /\ Cancel(op[g].old) /\ Goto(g, "wait")
    /\ UNCHANGED <<row, lastId, outside, jobs, locks, deletes, overran, faults>>

Owns(g) == row.id = op[g].id /\ row.gen = op[g].gen

GiveUpWaiting(g) ==
    /\ op[g].at = "wait" /\ ~Drained(op[g].old)
    /\ row' \in IF Owns(g) THEN {row, [row EXCEPT !.status = "cleanup_failed"]} ELSE {row}
    /\ EndOp(g) /\ overran' = TRUE
    /\ UNCHANGED <<lastId, outside, job, jobs, locks, deletes, faults>>

(* A bug: the row is not read again. *)
VerifyNothing(g) ==
    /\ op[g].at = "wait" /\ Drained(op[g].old)
    /\ Lock(g)
    /\ Goto(g, "unhost") /\ UNCHANGED <<row, lastId, outside, job, jobs, deletes, overran, faults>>

(* The row is read again under the lock: a newer request owns it, or the   *)
(* host of the row as it is now goes first.                                *)
Verify(g) ==
    /\ op[g].at = "wait" /\ Drained(op[g].old)
    /\ \/ Owns(g) /\ Lock(g) /\ Goto(g, "unhost") /\ UNCHANGED cut
       \/ ~Owns(g) /\ LockBriefly(g) /\ EndOp(g) /\ UNCHANGED cut
       \/ Fault /\ LockBriefly(g) /\ EndOp(g) /\ Owns(g) /\ cut' = cut \cup {<<row.id, row.gen>>}
    /\ UNCHANGED <<row, lastId, outside, job, jobs, deletes, overran, strays, lingers>>

(* An error, of a host that is gone or before or after the host goes, keeps *)
(* the row.                                                                *)
DeleteHost(g) ==
    /\ op[g].at = "unhost"
    /\ \E failed \in BOOLEAN, gone \in BOOLEAN :
          /\ IF row.host = 0 THEN ~failed /\ ~gone
             ELSE (gone => site[op[g].id].host = row.host) /\ (failed \/ gone)
          /\ site' = IF gone THEN [site EXCEPT ![op[g].id] = NoSite] ELSE site
          /\ op' = [op EXCEPT ![g] = [@ EXCEPT !.at = "unbox", !.errs = failed]]
          /\ partial' = (partial \/ (failed /\ gone))
    /\ UNCHANGED <<row, lastId, box, lastHost, job, jobs, epoch, holder, split, deletes, overran,
                   faults>>

RemoveBoxes(g) ==
    /\ op[g].at = "unbox"
    /\ \/ /\ box' = {b \in box : b[1] # op[g].id}
          /\ Goto(g, "unrow") /\ UNCHANGED partial
       \/ /\ box' = box /\ partial' = TRUE
          /\ op' = [op EXCEPT ![g] = [@ EXCEPT !.at = "unrow", !.errs = TRUE]]
    /\ UNCHANGED <<row, lastId, site, lastHost, job, jobs, epoch, holder, split, deletes, overran,
                   faults>>

(* The row goes, and the mutex from the map; after an error it stays.  The *)
(* statement itself may fail.                                              *)
DeleteRow(g) ==
    /\ op[g].at = "unrow"
    /\ Unlock(g) /\ EndOp(g)
    /\ \/ /\ op[g].errs \/ ~Owns(g)
          /\ row' = IF Owns(g) THEN [row EXCEPT !.status = "cleanup_failed"] ELSE row
          /\ UNCHANGED <<epoch, partial>>
       \/ /\ ~op[g].errs /\ Owns(g)
          /\ row' = NoRow /\ epoch' = epoch + 1 /\ UNCHANGED partial
       \/ partial' = TRUE /\ UNCHANGED <<row, epoch>>
    /\ UNCHANGED <<lastId, outside, job, jobs, split, deletes, overran, faults>>

OpStep(g) ==
    \/ CreatePreview(g) \/ Upsert(g) \/ Install(g) \/ CancelOld(g) \/ Spawn(g) \/ SpawnAnyway(g)
    \/ DeletePreview(g) \/ Bump(g) \/ StopJob(g) \/ GiveUpWaiting(g) \/ Verify(g)
    \/ DeleteHost(g) \/ RemoveBoxes(g) \/ DeleteRow(g)

(* The panel dies and is started again: requests, goroutines, registry and *)
(* mutexes are gone, and nothing resumes.                                  *)
Crash ==
    /\ Fault
    /\ \/ \E g \in Client : op[g].at # "idle"
       \/ \E j \in Job : job[j].at \notin {"none", "done"}
    /\ op' = [g \in Client |-> NoOp]
    /\ job' = [j \in Job |-> IF job[j].at = "none" THEN job[j] ELSE [job[j] EXCEPT !.at = "done"]]
    /\ jobs' = [i \in Id |-> 0] /\ holder' = [e \in Epoch |-> Nobody]
    /\ cut' = cut \cup (IF row.status \in {"pending", "building"}
                       THEN {<<row.id, row.gen>>} ELSE {})
    /\ strays' = strays \cup {job[j].host : j \in {k \in Job : job[k].at = "claim"}}
    /\ partial' = (partial \/ \E g \in Client : op[g].at \in {"unbox", "unrow"})
    /\ UNCHANGED <<row, lastId, outside, epoch, split, deletes, overran, lingers>>

Next == (\E g \in Client : OpStep(g)) \/ (\E j \in Job : RunStep(j)) \/ Crash

Spec == Init /\ [][Next]_vars

-----------------------------------------------------------------------------
TypeOK ==
    /\ row \in [id : 0..MaxJobs, gen : Nat, slot : -1..1, host : 0..MaxHosts,
                status : {"none", "pending", "building", "running", "failed", "cleanup_failed"}]
    /\ box \subseteq Id \X {0, 1}
    /\ site \in [Id -> [host : 0..MaxHosts, slot : -1..1]]
    /\ jobs \in [Id -> 0..MaxJobs]
    /\ holder \in [Epoch -> Client \cup {Nobody}]

Settled ==
    /\ \A g \in Client : op[g].at = "idle"
    /\ \A j \in Job : job[j].at \in {"none", "done"}
Calm == ~overran /\ ~split /\ ~partial

(* "Only one runPreview for a given preview ID is ever running": as long   *)
(* as no job outlives its drain.                                           *)
OneRunPerPreview ==
    Calm => \A j, k \in Job :
        {job[j].at, job[k].at} \cap {"none", "asked", "done"} = {} => j = k

(* Once everything has settled, a preview that is said to run is served by *)
(* the container its row names, behind the host its row names, and has no  *)
(* other but the one whose removal failed when the traffic was switched.   *)
RunningIsServed ==
    Settled /\ Calm /\ row.status = "running" =>
        /\ <<row.id, row.slot>> \in box
        /\ \A b \in box : b[1] = row.id => b[2] = row.slot \/ b \in lingers
        /\ site[row.id] = [host |-> row.host, slot |-> row.slot]

(* No trigger is dropped: whichever builds were cancelled, the preview     *)
(* does not stay pending or building with nobody working on it, unless the *)
(* deadline, an error or the panel's death ended the very build, or        *)
(* deletion, of its present generation.                                    *)
Stranded == row.status \in {"pending", "building"} /\ <<row.id, row.gen>> \notin cut
NoneIsStranded == Settled /\ Calm => ~Stranded

(* Nothing of a deleted preview is left: no container, and no host but one *)
(* whose id no row could take or whose removal failed.                     *)
NoOrphans ==
    Settled /\ Calm =>
        \A i \in Id \ {row.id} :
            /\ site[i] = NoSite \/ site[i].host \in strays
            /\ \A b \in box : b[1] # i

(* evictPreviewLock says that requests that come with the old mutex and    *)
(* with a new one "converge on a clean state": also where two mutexes of   *)
(* the pull request were held at once, a preview that waits for a build    *)
(* has a goroutine that makes it.                                          *)
EvictionConverges ==
    Settled /\ ~overran /\ ~partial => ~Stranded
=============================================================================

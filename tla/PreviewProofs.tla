---------------------------- MODULE PreviewProofs ----------------------------
(* What Preview keeps, for every number of builds asked for, deletions,    *)
(* hosts and requests: as long as no job outlives its drain, nobody enters *)
(* two mutexes of one pull request at once and no deletion fails half way, *)
(* one build at a time works on a preview, and what its row says is what   *)
(* runs, but for what a deadline, an error or the panel's death left       *)
(* behind.  The parts of the invariant are, from the requests to the world: *)
(*   AskedOnce     every request to build has a job of its own;            *)
(*   Queue         the jobs in play stand in the order of their            *)
(*                 generations, each waits for the one before it, and the  *)
(*                 registry knows the last;                                *)
(*   Holds         what the request that holds the mutex may rely on;      *)
(*   RunAt         what a job has made of its slot and its host so far.    *)
EXTENDS MCRollouts, FiniteSetTheorems, TLAPS

LiveStage == {"start", "build", "reread", "run", "probe", "host", "claim", "retire", "commit"}
Stage == LiveStage \cup {"none", "asked", "done"}
Creating(g) == prOp[g].at \in {"lock", "install", "cancel", "drain"}
Deleting(g) == prOp[g].at \in {"stop", "wait"}
Removing(g) == prOp[g].at \in {"unhost", "unbox", "unrow"}
Holding(g) == prOp[g].at = "install" \/ Removing(g)
Waiting(g) == prOp[g].at \in {"cancel", "drain"}
Live(j) == job[j].at \notin {"none", "asked", "done"}

Slot == -1..1
RowRecord == [id : 0..MaxJobs, gen : Nat, slot : Slot, host : Nat,
              status : {"none", "pending", "building", "running", "failed", "cleanup_failed"}]
SiteRecord == [host : Nat, slot : Slot]
JobRecord == [at : Stage, id : 0..MaxJobs, gen : Nat, slot : Slot, host : Nat, cancelled : BOOLEAN]
OpStage == {"idle", "lock", "install", "cancel", "drain", "bump", "stop", "wait", "unhost", "unbox",
            "unrow"}
OpRecord == [at : OpStage,
             job : 0..MaxJobs, old : 0..MaxJobs, id : 0..MaxJobs, gen : Nat, lock : PR!Epoch,
             errs : BOOLEAN]

(* Jobs whose request has written the row. *)
Recorded == {j \in PR!Job : job[j].at # "none"
   /\ \A g \in Client : prOp[g].at = "lock" => prOp[g].job # j}

PreviewTypes ==
    /\ prRow \in RowRecord /\ box \subseteq PR!Id \X {0, 1} /\ prSite \in [PR!Id -> SiteRecord]
    /\ lastHost \in Nat /\ job \in [PR!Job -> JobRecord] /\ jobs \in [PR!Id -> 0..MaxJobs]
    /\ prOp \in [Client -> OpRecord] /\ holder \in [PR!Epoch -> Client \cup {PR!Nobody}]
    /\ overran \in BOOLEAN /\ split \in BOOLEAN /\ partial \in BOOLEAN

(* Ids are given out one per row and epochs one per removed row. *)
Numbered ==
    /\ lastId \in 0..MaxJobs /\ lastId <= Cardinality(Recorded)
    /\ prRow.id \in {0, lastId} /\ epoch = IF prRow.id = 0 THEN lastId ELSE lastId - 1
    /\ prRow.id = 0 => prRow = PR!NoRow
    /\ \A g \in Client : prOp[g].id <= lastId
    /\ \A g \in Client : prOp[g].at \notin {"idle", "lock"} => prOp[g].id # 0
    /\ \A j \in PR!Job : Live(j) => job[j].id # 0

(* Every request has a job of its own, which nobody knows before it is     *)
(* installed.                                                              *)
AskedOnce ==
    /\ \A g \in Client : Creating(g) => prOp[g].job # 0 /\ job[prOp[g].job].at = "asked"
    /\ \A g, h \in Client : Creating(g) /\ Creating(h) /\ prOp[g].job = prOp[h].job => g = h
    /\ \A j \in PR!Job :
          job[j].at = "none"
             \/ (\E g \in Client : prOp[g].at \in {"lock", "install"} /\ prOp[g].job = j)
            => /\ ~job[j].cancelled
               /\ \A i \in PR!Id : jobs[i] # j
               /\ \A h \in Client : prOp[h].old # j

Exclusive ==
    /\ \A g \in Client : Holding(g) => holder[prOp[g].lock] = g
    /\ \A g, h \in Client : Holding(g) /\ Holding(h) => g = h

InPlay(j, n) ==
    \/ Live(j) /\ job[j].gen = n
    \/ \E g \in Client : Waiting(g) /\ prOp[g].job = j /\ prOp[g].gen = n

UpTo(j, n) == \E m \in Nat : InPlay(j, m) /\ n <= m

(* Whatever is in play is a job of the row, no two of one generation. *)
OfTheRow ==
    /\ \A j \in PR!Job : Live(j) => job[j].id = prRow.id
    /\ \A g \in Client : Waiting(g) => prOp[g].id = prRow.id
    /\ \A j \in PR!Job, n \in Nat : InPlay(j, n) => n <= prRow.gen
    /\ \A j, k \in PR!Job, n \in Nat : InPlay(j, n) /\ InPlay(k, n) => j = k

(* The live job is the oldest; every other waits for the one before it;    *)
(* the registry and a request to delete know the youngest.                 *)
Queue ==
    /\ \A j, k \in PR!Job, n \in Nat : Live(j) /\ InPlay(k, n) => job[j].gen <= n
    /\ \A g \in Client, j \in PR!Job, n \in Nat :
          Waiting(g) /\ InPlay(j, n) /\ n < prOp[g].gen =>
             \E i \in PR!Job : prOp[g].old = i /\ UpTo(i, n)
    /\ \A j \in PR!Job, n \in Nat : InPlay(j, n)
          => \E i \in PR!Job : jobs[prRow.id] = i /\ UpTo(i, n)
    /\ \A g \in Client, j \in PR!Job, n \in Nat :
          Deleting(g) /\ PR!Owns(g) /\ InPlay(j, n) =>
             \E i \in PR!Job : prOp[g].old = i /\ UpTo(i, n)

(* Only what is older than the row is cancelled. *)
Cancelled ==
    /\ \A g \in Client, i \in PR!Job, n \in Nat :
          Waiting(g) /\ prOp[g].old = i /\ InPlay(i, n) => n < prOp[g].gen
    /\ \A g \in Client, i \in PR!Job, n \in Nat :
          Deleting(g) /\ prOp[g].old = i /\ InPlay(i, n) => n < prRow.gen
    /\ \A j \in PR!Job, n \in Nat : InPlay(j, n) /\ job[j].cancelled => n < prRow.gen

(* What the request that holds the mutex knows. *)
Holds ==
    /\ \A g \in Client : prOp[g].at = "install" =>
          /\ PR!Owns(g)
          /\ \A j \in PR!Job, n \in Nat : InPlay(j, n) => n < prRow.gen
          /\ \A h \in Client : Deleting(h) => ~PR!Owns(h)
    /\ \A g \in Client : Removing(g) => PR!Owns(g) /\ \A j \in PR!Job, n \in Nat : ~InPlay(j, n)
    /\ \A g \in Client : (Deleting(g) \/ Removing(g)) /\ prOp[g].id = prRow.id
          => prOp[g].gen <= prRow.gen

(* Somebody works for a row that says so, or its last request was cut. *)
Attended ==
    prRow.status \in {"pending", "building"} =>
        \/ \E j \in PR!Job, n \in Nat : InPlay(j, n) /\ n = prRow.gen
        \/ \E g \in Client : prOp[g].at = "install" \/ ((Deleting(g) \/ Removing(g)) /\ PR!Owns(g))
        \/ <<prRow.id, prRow.gen>> \in cut

Chain == Exclusive /\ OfTheRow /\ Queue /\ Cancelled /\ Holds /\ Attended

Standing == \A g \in Client : prOp[g].at \notin {"unbox", "unrow"}

(* The domain of preview i has no host, or one that no row took. *)
Unnamed(i) == prSite[i] = PR!NoSite \/ prSite[i].host \in strays

NothingElse ==
    /\ \A b \in box : b[1] = prRow.id
    /\ \A i \in PR!Id : i # prRow.id => Unnamed(i)
    /\ prRow.slot = -1 => <<prRow.id, 1>> \notin box

(* A request that removes the preview has removed its host, or will keep   *)
(* the row that names it.                                                  *)
HostOfRow ==
    /\ prRow.id # 0 /\ Standing => /\ prRow.host # 0 => prSite[prRow.id].host = prRow.host
                                   /\ prRow.host = 0 /\ (\A j \in PR!Job : job[j].at # "claim")
                                         => Unnamed(prRow.id)
    /\ \A g \in Client : prOp[g].at \in {"unbox", "unrow"} =>
          IF prOp[g].errs THEN prRow.host # 0 /\ prSite[prRow.id].host = prRow.host
          ELSE Unnamed(prRow.id)
    /\ (\E g \in Client : prOp[g].at = "unrow") => box = {}

RunAt(j) ==
    /\ job[j].at \in {"run", "probe", "host", "claim", "retire", "commit"}
          => job[j].slot = prRow.slot
    /\ job[j].at \in {"run", "probe", "host"} => job[j].host = prRow.host
    /\ job[j].at = "claim" => prRow.host = 0 /\ job[j].host # 0
    /\ job[j].at \in {"retire", "commit"} => prRow.host # 0 /\ job[j].host = prRow.host
    /\ job[j].at \in {"claim", "retire", "commit"} =>
          prSite[prRow.id] = [host |-> job[j].host, slot |-> PR!NextSlot(j)]
    /\ job[j].at \in {"probe", "host", "claim", "retire", "commit"} => PR!NextBox(j) \in box
    /\ job[j].at = "commit" =>
          <<job[j].id, job[j].slot>> \notin box \/ <<job[j].id, job[j].slot>> \in lingers

BehindItsHost ==
    /\ <<prRow.id, prRow.slot>> \in box
    /\ \A b \in box : b = <<prRow.id, prRow.slot>> \/ b \in lingers
    /\ prSite[prRow.id] = [host |-> prRow.host, slot |-> prRow.slot]

ServedRow ==
    prRow.status = "running" =>
        /\ \A j \in PR!Job, n \in Nat : ~InPlay(j, n)
        /\ \A g \in Client : prOp[g].at # "install"
        /\ Standing => BehindItsHost

World == NothingElse /\ HostOfRow /\ (\A j \in PR!Job : RunAt(j)) /\ ServedRow

PreviewInv == PreviewTypes /\ Numbered /\ AskedOnce /\ (PR!Calm => Chain /\ World)

-----------------------------------------------------------------------------
LEMMA PreviewLimits ==
    ASSUME PR!PreviewAssumption
    PROVE  /\ MaxJobs \in Nat /\ PR!Nobody \notin Client
           /\ \A i \in 0..MaxJobs : i # 0 => i \in PR!Id /\ i \in PR!Job
           /\ \A i \in PR!Id : i \in 0..MaxJobs /\ i # 0
           /\ \A i \in PR!Job : i \in 0..MaxJobs /\ i # 0
BY DEF PR!PreviewAssumption, PR!Nobody, PR!Id, PR!Job

(* One request moves on, one job does. *)
LEMMA OpMoves ==
    ASSUME prOp \in [Client -> OpRecord], NEW g \in Client, NEW to \in OpRecord,
           prOp' = [prOp EXCEPT ![g] = to]
    PROVE  /\ prOp' \in [Client -> OpRecord] /\ prOp'[g] = to
           /\ \A h \in Client : h # g => prOp'[h] = prOp[h]
OBVIOUS

LEMMA JobMoves ==
    ASSUME job \in [PR!Job -> JobRecord], NEW j \in PR!Job, NEW to \in JobRecord,
           job' = [job EXCEPT ![j] = to]
    PROVE  /\ job' \in [PR!Job -> JobRecord] /\ job'[j] = to
           /\ \A k \in PR!Job : k # j => job'[k] = job[k]
OBVIOUS

LEMMA OpAt ==
    ASSUME NEW r \in OpRecord, NEW at \in OpStage
    PROVE  LET s == [r EXCEPT !.at = at] IN
           /\ s \in OpRecord /\ s.at = at /\ s.job = r.job /\ s.old = r.old /\ s.id = r.id
           /\ s.gen = r.gen /\ s.lock = r.lock /\ s.errs = r.errs
BY DEF OpRecord

LEMMA JobAt ==
    ASSUME NEW r \in JobRecord, NEW at \in Stage
    PROVE  LET s == [r EXCEPT !.at = at] IN
           /\ s \in JobRecord /\ s.at = at /\ s.id = r.id /\ s.gen = r.gen /\ s.slot = r.slot
           /\ s.host = r.host /\ s.cancelled = r.cancelled
BY DEF JobRecord

LEMMA Blank ==
    ASSUME PR!PreviewAssumption
    PROVE  /\ PR!NoOp \in OpRecord /\ PR!NoOp.at = "idle" /\ PR!NoOp.id = 0 /\ PR!NoOp.job = 0
           /\ PR!NoOp.old = 0
           /\ ~PR!NoOp.errs
           /\ PR!NoJob \in JobRecord /\ PR!NoJob.at = "none" /\ ~PR!NoJob.cancelled
           /\ PR!NoRow \in RowRecord /\ PR!NoRow.id = 0 /\ PR!NoRow.status = "none"
           /\ PR!NoRow.slot = -1
           /\ PR!NoRow.host = 0 /\ PR!NoRow.gen = 0
           /\ PR!NoSite \in SiteRecord /\ PR!NoSite.host = 0
BY PreviewLimits
   DEF PR!NoOp, PR!NoJob, PR!NoRow, PR!NoSite, OpStage, OpRecord, JobRecord, RowRecord,
       SiteRecord, PR!Epoch, Stage, LiveStage, Slot

-----------------------------------------------------------------------------
LEMMA InitPreviewInv == ASSUME PR!PreviewAssumption, PR!Init PROVE PreviewInv
<1>1. /\ prOp \in [Client -> OpRecord] /\ \A g \in Client : prOp[g] = PR!NoOp
      /\ job \in [PR!Job -> JobRecord] /\ \A j \in PR!Job : job[j] = PR!NoJob
      /\ prSite \in [PR!Id -> SiteRecord] /\ \A i \in PR!Id : prSite[i] = PR!NoSite
      /\ prRow = PR!NoRow
    BY Blank DEF PR!Init
<1>2. PreviewTypes
    <2>1. holder \in [PR!Epoch -> Client \cup {PR!Nobody}] /\ jobs \in [PR!Id -> 0..MaxJobs]
        BY PreviewLimits DEF PR!Init
    <2>2. box \subseteq PR!Id \X {0, 1} /\ lastHost \in Nat
        BY DEF PR!Init
    <2>3. overran \in BOOLEAN /\ split \in BOOLEAN /\ partial \in BOOLEAN
        BY DEF PR!Init
    <2> QED
        BY <1>1, <2>1, <2>2, <2>3, Blank DEF PreviewTypes
<1>3. Numbered
    <2>1. Recorded = {}
        BY <1>1, Blank DEF Recorded
    <2>2. Cardinality(Recorded) = 0
        BY <2>1, FS_EmptySet
    <2> QED
        BY <1>1, <2>2, Blank, PreviewLimits DEF PR!Init, Numbered, Live
<1>4. AskedOnce
    BY <1>1, Blank, PreviewLimits DEF PR!Init, AskedOnce, Creating
<1>5. \A g \in Client : prOp[g].at = "idle"
    BY <1>1, Blank
<1>6. \A j \in PR!Job : job[j].at = "none"
    BY <1>1, Blank
<1>7. \A j \in PR!Job, n \in Nat : ~InPlay(j, n)
    BY <1>5, <1>6 DEF InPlay, Live, Waiting
<1>8. Chain
    BY <1>1, <1>5, <1>6, <1>7, Blank
       DEF Chain, Exclusive, OfTheRow, Queue, Cancelled, Holds, Attended, Holding, Removing,
           Waiting, Deleting, Live
<1>9. World
    BY <1>1, <1>5, <1>6, <1>7, Blank
       DEF PR!Init, World, NothingElse, Unnamed, HostOfRow, RunAt, ServedRow, Standing
<1> QED
    BY <1>2, <1>3, <1>4, <1>8, <1>9 DEF PreviewInv

-----------------------------------------------------------------------------
(* The steps of a build goroutine. *)

Staying(j) ==
    /\ job' \in [PR!Job -> JobRecord] /\ \A k \in PR!Job : k # j => job'[k] = job[k]
    /\ job'[j].id = job[j].id /\ job'[j].gen = job[j].gen
    /\ job'[j].cancelled = job[j].cancelled

Stays(j) == Staying(j) /\ Live(j)' /\ jobs' = jobs
Ends(j) ==
    /\ Staying(j) /\ job'[j].at = "done"
    /\ jobs' = IF jobs[job[j].id] = j THEN [jobs EXCEPT ![job[j].id] = 0] ELSE jobs

LEMMA Moves ==
    ASSUME PreviewTypes, NEW j \in PR!Job, NEW at \in LiveStage, PR!Move(j, at), UNCHANGED jobs
    PROVE  Stays(j) /\ job'[j].at = at /\ job'[j].slot = job[j].slot /\ job'[j].host = job[j].host
<1> DEFINE to == [job[j] EXCEPT !.at = at]
<1>1. /\ job[j] \in JobRecord /\ job \in [PR!Job -> JobRecord]
      /\ at \in Stage /\ at \notin {"none", "asked", "done"}
    BY DEF PreviewTypes, LiveStage, Stage
<1>2. /\ to \in JobRecord /\ to.at = at /\ to.id = job[j].id /\ to.gen = job[j].gen
      /\ to.cancelled = job[j].cancelled /\ to.slot = job[j].slot /\ to.host = job[j].host
    BY <1>1, JobAt
<1>3. job' = [job EXCEPT ![j] = to]
    BY DEF PR!Move
<1> HIDE DEF to
<1>4. job' \in [PR!Job -> JobRecord] /\ job'[j] = to /\ \A k \in PR!Job : k # j => job'[k] = job[k]
    BY <1>1, <1>2, <1>3, JobMoves
<1> QED
    BY <1>1, <1>2, <1>4 DEF Stays, Staying, Live

LEMMA Finishes ==
    ASSUME PreviewTypes, NEW j \in PR!Job, PR!Finish(j)
    PROVE  Ends(j)
<1> DEFINE to == [job[j] EXCEPT !.at = "done"]
<1>1. job[j] \in JobRecord /\ job \in [PR!Job -> JobRecord] /\ "done" \in Stage
    BY DEF PreviewTypes, Stage
<1>2. /\ to \in JobRecord /\ to.at = "done" /\ to.id = job[j].id /\ to.gen = job[j].gen
      /\ to.cancelled = job[j].cancelled
    BY <1>1, JobAt
<1>3. job' = [job EXCEPT ![j] = to]
    BY DEF PR!Finish, PR!Move
<1> HIDE DEF to
<1>4. job' \in [PR!Job -> JobRecord] /\ job'[j] = to /\ \A k \in PR!Job : k # j => job'[k] = job[k]
    BY <1>1, <1>2, <1>3, JobMoves
<1> QED
    BY <1>2, <1>4 DEF Ends, Staying, PR!Finish

(* What a step of goroutine j does to everything but the containers and    *)
(* the hosts.                                                              *)
RunKeeps(j) ==
    /\ Live(j) /\ UNCHANGED PR!quiet
    /\ Stays(j) \/ Ends(j)
    /\ prRow' \in RowRecord /\ prRow'.id = prRow.id /\ prRow'.gen = prRow.gen
    /\ prRow' = prRow \/ PR!Mine(j)
    /\ box' \subseteq PR!Id \X {0, 1} /\ prSite' \in [PR!Id -> SiteRecord] /\ lastHost' \in Nat
    /\ prRow'.status = "running" => prRow.status = "running" \/ (PR!Mine(j) /\ job[j].at = "commit")
    /\ prRow'.status \in {"pending", "building"} =>
          \/ prRow'.status = prRow.status
          \/ PR!Mine(j) /\ Stays(j)
    /\ Ends(j) /\ PR!Mine(j) /\ RunAt(j)
          => \/ prRow'.status \notin {"pending", "building"} \/ job[j].cancelled
             \/ <<prRow.id, prRow.gen>> \in cut'
    /\ cut \subseteq cut' /\ strays \subseteq strays'

LEMMA Marks ==
    ASSUME PreviewTypes, NEW j \in PR!Job, PR!MarkFailed(j)
    PROVE  /\ prRow' \in RowRecord /\ prRow'.id = prRow.id /\ prRow'.gen = prRow.gen
           /\ prRow'.slot = prRow.slot /\ prRow'.host = prRow.host
           /\ prRow' = prRow \/ (PR!Mine(j) /\ prRow'.status = "failed")
           /\ PR!Mine(j) => prRow'.status = "failed" \/ <<prRow.id, prRow.gen>> \in cut'
           /\ cut \subseteq cut'
<1>1. prRow \in RowRecord
    BY DEF PreviewTypes
<1> DEFINE r == [prRow EXCEPT !.status = "failed"]
<1>2. /\ r \in RowRecord /\ r.id = prRow.id /\ r.gen = prRow.gen /\ r.status = "failed"
      /\ r.slot = prRow.slot /\ r.host = prRow.host
    BY <1>1 DEF RowRecord
<1>3. CASE prRow' = (IF PR!Mine(j) THEN r ELSE prRow) /\ UNCHANGED cut
    <2> HIDE DEF r
    <2> QED
        BY <1>1, <1>2, <1>3
<1>4. CASE PR!Abandon(j)
    BY <1>1, <1>4 DEF PR!Abandon
<1> QED
    BY <1>3, <1>4 DEF PR!MarkFailed

LEMMA Abandons ==
    ASSUME NEW j \in PR!Job, PR!Abandon(j)
    PROVE  /\ prRow' = prRow /\ cut \subseteq cut'
           /\ PR!Mine(j) => <<prRow.id, prRow.gen>> \in cut'
BY DEF PR!Abandon

LEMMA Removes ==
    ASSUME NEW b, PR!StopAndRemove(b)
    PROVE  /\ box' \subseteq box /\ box \ {b} \subseteq box' /\ lingers \subseteq lingers'
           /\ b \notin box' \/ b \in lingers'
BY DEF PR!StopAndRemove

LEMMA Points ==
    ASSUME prSite \in [PR!Id -> SiteRecord], NEW j \in PR!Job, job[j].id \in PR!Id,
           NEW host \in Nat, PR!Point(j, host)
    PROVE  /\ prSite' \in [PR!Id -> SiteRecord]
           /\ prSite'[job[j].id] = [host |-> host, slot |-> PR!NextSlot(j)]
           /\ \A i \in PR!Id : i # job[j].id => prSite'[i] = prSite[i]
<1> DEFINE there == [host |-> host, slot |-> PR!NextSlot(j)]
<1>1. there \in SiteRecord
    BY DEF SiteRecord, Slot, PR!NextSlot
<1>2. prSite' = [prSite EXCEPT ![job[j].id] = there]
    BY DEF PR!Point
<1> HIDE DEF there
<1>3. prSite' \in [PR!Id -> SiteRecord] /\ prSite'[job[j].id] = there
    BY <1>1, <1>2
<1> QED
    BY <1>2, <1>3 DEF there

LEMMA RunStepKeeps ==
    ASSUME PR!PreviewAssumption, PreviewTypes, Numbered, NEW j \in PR!Job, PR!RunStep(j)
    PROVE  RunKeeps(j)
<1>1. /\ prRow \in RowRecord /\ box \subseteq PR!Id \X {0, 1} /\ prSite \in [PR!Id -> SiteRecord]
      /\ lastHost \in Nat /\ job[j] \in JobRecord /\ Live(j) /\ job \in [PR!Job -> JobRecord]
    BY DEF PreviewTypes, PR!RunStep, Live, PR!RunStart, PR!RunBuilt, PR!RunFails, PR!RunQuits,
           PR!RunReread, PR!RunUp, PR!RunDown, PR!RunProbe, PR!RunCreateHost, PR!RunClaim,
           PR!RunSwitch, PR!RunRetire, PR!RunCommit
<1>2. job[j].id \in PR!Id /\ job[j].host \in Nat
    BY <1>1, PreviewLimits DEF Numbered, JobRecord
<1>3. UNCHANGED PR!quiet
    BY DEF PR!RunStep, PR!RunStart, PR!RunBuilt, PR!RunFails, PR!RunQuits, PR!RunReread,
           PR!RunUp, PR!RunDown, PR!RunProbe, PR!RunCreateHost, PR!RunClaim, PR!RunSwitch,
           PR!RunRetire, PR!RunCommit, PR!quiet
<1>4. PR!NextSlot(j) \in {0, 1} /\ PR!NextBox(j) \in PR!Id \X {0, 1}
    BY <1>2 DEF PR!NextSlot, PR!NextBox
<1>5. CASE PR!RunStart(j)
    <2>1. UNCHANGED PR!outside /\ UNCHANGED strays
        BY <1>5 DEF PR!RunStart
    <2>2. CASE /\ PR!Mine(j)
               /\ prRow' = [prRow EXCEPT !.status = "building"]
               /\ job' = [job EXCEPT ![j] = [@ EXCEPT !.at = "build", !.slot = prRow.slot]]
               /\ UNCHANGED <<jobs, cut>>
        <3> DEFINE to == [job[j] EXCEPT !.at = "build", !.slot = prRow.slot]
        <3>1. job' = [job EXCEPT ![j] = to]
            BY <2>2
        <3>2. /\ to \in JobRecord /\ to.at = "build" /\ to.id = job[j].id /\ to.gen = job[j].gen
              /\ to.cancelled = job[j].cancelled
            BY <1>1 DEF JobRecord, RowRecord, Stage, LiveStage
        <3>3. /\ prRow' \in RowRecord /\ prRow'.id = prRow.id /\ prRow'.gen = prRow.gen
              /\ prRow'.status = "building"
            BY <1>1, <2>2 DEF RowRecord
        <3> HIDE DEF to
        <3>4. /\ job' \in [PR!Job -> JobRecord] /\ job'[j] = to
              /\ \A k \in PR!Job : k # j => job'[k] = job[k]
            BY <1>1, <3>1, <3>2, JobMoves
        <3>5. Stays(j) /\ job'[j].at # "done"
            BY <2>2, <3>2, <3>4 DEF Stays, Staying, Live
        <3> QED
            BY <1>1, <1>3, <2>1, <2>2, <3>3, <3>5 DEF RunKeeps, PR!outside, Ends
    <2>3. CASE ~PR!Mine(j) /\ PR!Finish(j) /\ UNCHANGED <<prRow, cut>>
        BY <1>1, <1>3, <2>1, <2>3, Finishes DEF RunKeeps, PR!outside
    <2>4. CASE PR!Finish(j) /\ PR!Abandon(j)
        BY <1>1, <1>3, <2>1, <2>4, Finishes, Abandons DEF RunKeeps, PR!outside
    <2> QED
        BY <1>5, <2>2, <2>3, <2>4 DEF PR!RunStart
<1>6. CASE PR!RunBuilt(j) \/ PR!RunProbe(j)
    <2>1. PICK at \in {"reread", "host"} :
             PR!Move(j, at) /\ UNCHANGED <<prRow, PR!outside, jobs, PR!faults>>
        BY <1>6 DEF PR!RunBuilt, PR!RunProbe
    <2>2. Stays(j) /\ job'[j].at # "done"
        BY <2>1, Moves DEF LiveStage
    <2> QED
        BY <1>1, <1>3, <2>1, <2>2 DEF RunKeeps, PR!outside, PR!faults, Ends
<1>7. CASE PR!RunFails(j)
    <2>1. Ends(j) /\ UNCHANGED PR!outside /\ PR!MarkFailed(j) /\ UNCHANGED strays
        BY <1>7, Finishes DEF PR!RunFails
    <2> QED
        BY <1>1, <1>3, <2>1, Marks DEF RunKeeps, PR!outside
<1>8. CASE PR!RunQuits(j)
    <2>1. /\ Ends(j) /\ UNCHANGED PR!outside /\ UNCHANGED strays
          /\ (job[j].cancelled /\ UNCHANGED <<prRow, cut>>) \/ PR!Abandon(j)
        BY <1>8, Finishes DEF PR!RunQuits
    <2> QED
        BY <1>1, <1>3, <2>1, Abandons DEF RunKeeps, PR!outside
<1>9. CASE PR!RunReread(j)
    <2>1. UNCHANGED <<prSite, lastHost, strays>>
        BY <1>9 DEF PR!RunReread
    <2>2. CASE /\ PR!Mine(j)
               /\ job' = [job EXCEPT ![j] =
                             [@ EXCEPT !.at = "run", !.slot = prRow.slot, !.host = prRow.host]]
               /\ PR!StopAndRemove(<<prRow.id, IF prRow.slot = 0 THEN 1 ELSE 0>>)
               /\ UNCHANGED <<prRow, jobs, cut>>
        <3> DEFINE to == [job[j] EXCEPT !.at = "run", !.slot = prRow.slot, !.host = prRow.host]
        <3>1. job' = [job EXCEPT ![j] = to] /\ box' \subseteq box
            BY <2>2, Removes
        <3>2. /\ to \in JobRecord /\ to.at = "run" /\ to.id = job[j].id /\ to.gen = job[j].gen
              /\ to.cancelled = job[j].cancelled
            BY <1>1 DEF JobRecord, RowRecord, Stage, LiveStage
        <3> HIDE DEF to
        <3>3. /\ job' \in [PR!Job -> JobRecord] /\ job'[j] = to
              /\ \A k \in PR!Job : k # j => job'[k] = job[k]
            BY <1>1, <3>1, <3>2, JobMoves
        <3>4. Stays(j) /\ job'[j].at # "done"
            BY <2>2, <3>2, <3>3 DEF Stays, Staying, Live
        <3> QED
            BY <1>1, <1>3, <2>1, <2>2, <3>1, <3>4 DEF RunKeeps, Ends
    <2>3. CASE /\ prRow.id = job[j].id /\ prRow.gen # job[j].gen
               /\ PR!Finish(j) /\ UNCHANGED <<prRow, box, lingers, cut>>
        BY <1>1, <1>3, <2>1, <2>3, Finishes DEF RunKeeps, PR!Mine
    <2>4. CASE /\ (prRow.id # job[j].id /\ UNCHANGED <<prRow, cut>>) \/ PR!Abandon(j)
               /\ PR!StopAndRemove(<<job[j].id, job[j].slot>>) /\ PR!Finish(j)
        <3>1. box' \subseteq box /\ Ends(j)
            BY <2>4, Removes, Finishes
        <3> QED
            BY <1>1, <1>3, <2>1, <2>4, <3>1, Abandons DEF RunKeeps, PR!Mine
    <2> QED
        BY <1>9, <2>2, <2>3, <2>4 DEF PR!RunReread
<1>10. CASE PR!RunUp(j)
    <2>1. PR!Move(j, "probe") /\ UNCHANGED jobs /\ box' = box \cup {PR!NextBox(j)}
          /\ UNCHANGED <<prRow, prSite, lastHost, cut, strays>>
        BY <1>10 DEF PR!RunUp
    <2>2. Stays(j) /\ job'[j].at # "done"
        BY <2>1, Moves DEF LiveStage
    <2> QED
        BY <1>1, <1>3, <1>4, <2>1, <2>2 DEF RunKeeps, Ends
<1>11. CASE PR!RunDown(j)
    <2>1. Ends(j) /\ box' \subseteq box
        BY <1>11, Finishes, Removes DEF PR!RunDown
    <2>2. PR!MarkFailed(j) \/ (job[j].cancelled /\ UNCHANGED <<prRow, cut>>)
        BY <1>11 DEF PR!RunDown
    <2>3. prSite' \in [PR!Id -> SiteRecord] /\ lastHost' \in Nat /\ strays \subseteq strays'
        <3>1. PR!HostFails(j)
            BY <1>11 DEF PR!RunDown
        <3>2. lastHost + 1 \in Nat
            BY <1>1
        <3> QED
            BY <1>1, <1>2, <3>1, <3>2, Points DEF PR!HostFails
    <2>4. CASE PR!MarkFailed(j)
        BY <1>1, <1>3, <2>1, <2>3, <2>4, Marks DEF RunKeeps
    <2>5. CASE job[j].cancelled /\ UNCHANGED <<prRow, cut>>
        BY <1>1, <1>3, <2>1, <2>3, <2>5 DEF RunKeeps
    <2> QED
        BY <2>2, <2>4, <2>5
<1>12. CASE PR!RunCreateHost(j)
    <2> DEFINE new == lastHost + 1
               to == [job[j] EXCEPT !.at = "claim", !.host = new]
    <2>1. /\ job' = [job EXCEPT ![j] = to] /\ lastHost' = new /\ PR!Point(j, new)
          /\ UNCHANGED <<prRow, box, jobs, cut, strays>>
        BY <1>12 DEF PR!RunCreateHost, PR!faults
    <2>2. new \in Nat /\ "claim" \in Stage
        BY <1>1 DEF Stage, LiveStage
    <2> HIDE DEF new
    <2>3. /\ to \in JobRecord /\ to.at = "claim" /\ to.id = job[j].id /\ to.gen = job[j].gen
          /\ to.cancelled = job[j].cancelled
        <3>1. job[j] \in JobRecord
            BY <1>1
        <3> QED
            BY <2>2, <3>1 DEF JobRecord
    <2> HIDE DEF to
    <2>4. /\ job' \in [PR!Job -> JobRecord] /\ job'[j] = to
          /\ \A k \in PR!Job : k # j => job'[k] = job[k]
        BY <1>1, <2>1, <2>3, JobMoves
    <2>5. Stays(j) /\ job'[j].at # "done"
        BY <2>1, <2>3, <2>4 DEF Stays, Staying, Live
    <2>6. prSite' \in [PR!Id -> SiteRecord] /\ lastHost' \in Nat
        BY <1>1, <1>2, <2>1, <2>2, Points
    <2> QED
        BY <1>1, <1>3, <2>1, <2>5, <2>6 DEF RunKeeps, Ends
<1>13. CASE PR!RunClaim(j)
    <2>1. UNCHANGED lastHost /\ job[j].at = "claim"
        BY <1>13 DEF PR!RunClaim
    <2>2. CASE /\ PR!Mine(j) /\ prRow.host = 0
               /\ prRow' = [prRow EXCEPT !.host = job[j].host] /\ PR!Move(j, "retire")
               /\ UNCHANGED <<box, prSite, jobs, PR!faults>>
        <3>1. /\ prRow' \in RowRecord /\ prRow'.id = prRow.id /\ prRow'.gen = prRow.gen
              /\ prRow'.status = prRow.status
            BY <1>1, <1>2, <2>2 DEF RowRecord
        <3>2. Stays(j) /\ job'[j].at # "done"
            BY <2>2, Moves DEF LiveStage
        <3> QED
            BY <1>1, <1>3, <2>1, <2>2, <3>1, <3>2 DEF RunKeeps, PR!faults, Ends
    <2>3. CASE /\ (~(PR!Mine(j) /\ prRow.host = 0) /\ UNCHANGED <<prRow, cut>>) \/ PR!Abandon(j)
               /\ \/ /\ prSite' = IF prSite[job[j].id].host = job[j].host
                                  THEN [prSite EXCEPT ![job[j].id] = PR!NoSite] ELSE prSite
                     /\ UNCHANGED strays
                  \/ PR!Fault /\ strays' = strays \cup {job[j].host} /\ UNCHANGED prSite
               /\ PR!StopAndRemove(PR!NextBox(j)) /\ PR!Finish(j)
        <3>1. Ends(j) /\ box' \subseteq box
            BY <2>3, Finishes, Removes
        <3>2. prSite' \in [PR!Id -> SiteRecord] /\ strays \subseteq strays'
            BY <1>1, <2>3, Blank
        <3>3. /\ prRow' = prRow /\ cut \subseteq cut'
              /\ PR!Mine(j) /\ RunAt(j) => <<prRow.id, prRow.gen>> \in cut'
            BY <2>1, <2>3, Abandons DEF RunAt
        <3> QED
            BY <1>1, <1>3, <2>1, <3>1, <3>2, <3>3 DEF RunKeeps
    <2> QED
        BY <1>13, <2>2, <2>3 DEF PR!RunClaim
<1>14. CASE PR!RunSwitch(j)
    <2>1. /\ PR!Move(j, "retire") /\ UNCHANGED jobs
          /\ UNCHANGED <<prRow, box, lastHost, cut, strays>>
          /\ PR!Point(j, job[j].host) \/ UNCHANGED prSite
        BY <1>14 DEF PR!RunSwitch, PR!faults
    <2>2. Stays(j) /\ job'[j].at # "done"
        BY <2>1, Moves DEF LiveStage
    <2>3. prSite' \in [PR!Id -> SiteRecord]
        BY <1>1, <1>2, <2>1, Points
    <2> QED
        BY <1>1, <1>3, <2>1, <2>2, <2>3 DEF RunKeeps, Ends
<1>15. CASE PR!RunRetire(j)
    <2>1. PR!Move(j, "commit") /\ UNCHANGED jobs /\ box' \subseteq box
          /\ UNCHANGED <<prRow, prSite, lastHost, cut, strays>>
        BY <1>15, Removes DEF PR!RunRetire
    <2>2. Stays(j) /\ job'[j].at # "done"
        BY <2>1, Moves DEF LiveStage
    <2> QED
        BY <1>1, <1>3, <2>1, <2>2 DEF RunKeeps, Ends
<1>16. CASE PR!RunCommit(j)
    <2>1. Ends(j) /\ UNCHANGED <<prSite, lastHost, strays>> /\ job[j].at = "commit"
        BY <1>16, Finishes DEF PR!RunCommit
    <2>2. CASE /\ PR!Mine(j) /\ prRow.slot = job[j].slot
               /\ prRow' = [prRow EXCEPT !.slot = PR!NextSlot(j), !.status = "running"]
               /\ UNCHANGED <<box, lingers, cut>>
        <3>1. PR!NextSlot(j) \in Slot
            BY <1>4 DEF Slot
        <3>2. /\ prRow' \in RowRecord /\ prRow'.id = prRow.id /\ prRow'.gen = prRow.gen
              /\ prRow'.status = "running"
            BY <1>1, <2>2, <3>1 DEF RowRecord
        <3> QED
            BY <1>1, <1>3, <2>1, <2>2, <3>2 DEF RunKeeps
    <2>3. CASE /\ \/ ~(PR!Mine(j) /\ prRow.slot = job[j].slot) /\ UNCHANGED <<prRow, cut>>
                  \/ PR!Abandon(j)
               /\ PR!StopAndRemove(PR!NextBox(j))
        <3>1. box' \subseteq box
            BY <2>3, Removes
        <3>2. /\ prRow' = prRow /\ cut \subseteq cut'
              /\ PR!Mine(j) /\ RunAt(j) => <<prRow.id, prRow.gen>> \in cut'
            BY <2>1, <2>3, Abandons DEF RunAt
        <3> QED
            BY <1>1, <1>3, <2>1, <3>1, <3>2 DEF RunKeeps
    <2> QED
        BY <1>16, <2>2, <2>3 DEF PR!RunCommit
<1> QED
    BY <1>5, <1>6, <1>7, <1>8, <1>9, <1>10, <1>11, <1>12, <1>13, <1>14, <1>15, <1>16
       DEF PR!RunStep

LEMMA RunKeepsTypes ==
    ASSUME PR!PreviewAssumption, PreviewTypes, Numbered, AskedOnce, NEW j \in PR!Job, RunKeeps(j)
    PROVE  PreviewTypes' /\ Numbered' /\ AskedOnce'
<1>1. /\ Live(j) /\ (Stays(j) \/ Ends(j))
      /\ UNCHANGED <<lastId, prOp, epoch, holder, split, partial, overran>>
      /\ prRow' \in RowRecord /\ prRow'.id = prRow.id /\ (prRow' = prRow \/ PR!Mine(j))
    BY DEF RunKeeps, PR!quiet, PR!locks
<1>2. /\ job' \in [PR!Job -> JobRecord] /\ \A k \in PR!Job : k # j => job'[k] = job[k]
      /\ job'[j].id = job[j].id /\ job'[j].cancelled = job[j].cancelled
      /\ job'[j].at \notin {"none", "asked"} /\ job[j].at \notin {"none", "asked"}
    BY <1>1 DEF Stays, Ends, Staying, Live
<1>3. job[j].id \in PR!Id /\ jobs \in [PR!Id -> 0..MaxJobs]
    BY <1>1, PreviewLimits DEF Numbered, PreviewTypes, JobRecord
<1>4. jobs' \in [PR!Id -> 0..MaxJobs] /\ \A i \in PR!Id : jobs'[i] \in {jobs[i], 0}
    BY <1>1, <1>3, PreviewLimits DEF Stays, Ends
<1>5. PreviewTypes'
    BY <1>1, <1>2, <1>4 DEF PreviewTypes, RunKeeps
<1>6. Numbered'
    <2>1. Recorded' = Recorded
        BY <1>1, <1>2 DEF Recorded
    <2>2. prRow.id = 0 => prRow' = prRow
        BY <1>1, <1>3, PreviewLimits DEF PR!Mine
    <2>3. \A k \in PR!Job : Live(k)' => job'[k].id # 0
        BY <1>1, <1>2 DEF Numbered, Live
    <2> QED
        BY <1>1, <2>1, <2>2, <2>3 DEF Numbered
<1>7. AskedOnce'
    <2>1. \A g \in Client : Creating(g) => prOp[g].job # j
        BY <1>2 DEF AskedOnce
    <2>2. \A g \in Client : Creating(g) => prOp[g].job \in PR!Job
        BY PreviewLimits DEF AskedOnce, PreviewTypes, OpRecord
    <2>3. \A g \in Client : Creating(g)' => prOp'[g].job # 0 /\ job'[prOp'[g].job].at = "asked"
        BY <1>1, <1>2, <2>1, <2>2 DEF AskedOnce, Creating
    <2>4. \A k \in PR!Job :
             job'[k].at = "none"
                \/ (\E g \in Client : prOp'[g].at \in {"lock", "install"} /\ prOp'[g].job = k)
                => /\ ~job'[k].cancelled
                   /\ \A i \in PR!Id : jobs'[i] # k
                   /\ \A h \in Client : prOp'[h].old # k
        <3> SUFFICES ASSUME NEW k \in PR!Job,
                            job'[k].at = "none"
                               \/ (\E g \in Client : prOp'[g].at \in {"lock", "install"}
                                     /\ prOp'[g].job = k)
                     PROVE  /\ ~job'[k].cancelled
                            /\ \A i \in PR!Id : jobs'[i] # k
                            /\ \A h \in Client : prOp'[h].old # k
            OBVIOUS
        <3>1. k # j
            BY <1>1, <1>2, <2>1 DEF Creating
        <3>2. /\ ~job[k].cancelled /\ \A i \in PR!Id : jobs[i] # k
              /\ \A h \in Client : prOp[h].old # k
            BY <1>1, <1>2, <3>1 DEF AskedOnce
        <3>3. \A i \in PR!Id : jobs'[i] # k
            BY <1>4, <3>2, PreviewLimits
        <3> QED
            BY <1>1, <1>2, <3>1, <3>2, <3>3
    <2> QED
        BY <1>1, <2>3, <2>4 DEF AskedOnce, Creating
<1> QED
    BY <1>5, <1>6, <1>7

LEMMA RunKeepsChain ==
    ASSUME PR!PreviewAssumption, PreviewTypes, Numbered, AskedOnce, Chain,
           NEW j \in PR!Job, RunAt(j), RunKeeps(j)
    PROVE  Chain'
<1>1. /\ Live(j) /\ (Stays(j) \/ Ends(j))
      /\ prOp' = prOp /\ holder' = holder
      /\ prRow'.id = prRow.id /\ prRow'.gen = prRow.gen
    BY DEF RunKeeps, PR!quiet, PR!locks
<1>2. /\ \A k \in PR!Job : k # j => job'[k] = job[k]
      /\ job'[j].id = job[j].id /\ job'[j].gen = job[j].gen /\ job'[j].cancelled = job[j].cancelled
    BY <1>1 DEF Stays, Ends, Staying
<1>3. /\ job[j] \in JobRecord /\ job[j].gen \in Nat /\ job[j].id = prRow.id /\ prRow.id \in PR!Id
      /\ prRow.gen \in Nat /\ jobs \in [PR!Id -> 0..MaxJobs]
    <2>1. job[j] \in JobRecord /\ prRow \in RowRecord /\ jobs \in [PR!Id -> 0..MaxJobs]
        BY DEF PreviewTypes
    <2>2. job[j].id = prRow.id
        BY <1>1 DEF Chain, OfTheRow
    <2> QED
        BY <1>1, <2>1, <2>2, PreviewLimits DEF Numbered, JobRecord, RowRecord
<1>4. \A g \in Client : Waiting(g) => prOp[g].job # j
    BY <1>1 DEF AskedOnce, Creating, Waiting, Live
<1>5. \A k \in PR!Job : Live(k)' => Live(k)
    BY <1>1, <1>2 DEF Live
<1>6. \A g \in Client : (Waiting(g)' <=> Waiting(g)) /\ (Deleting(g)' <=> Deleting(g))
                        /\ (Removing(g)' <=> Removing(g)) /\ (PR!Owns(g)' <=> PR!Owns(g))
                        /\ (Holding(g)' <=> Holding(g))
    BY <1>1 DEF Waiting, Deleting, Removing, PR!Owns, Holding
<1>7. \A k \in PR!Job, n \in Nat : InPlay(k, n)' => InPlay(k, n)
    BY <1>1, <1>2, <1>5, <1>6 DEF InPlay
<1>8. \A k \in PR!Job, n \in Nat : InPlay(k, n) /\ (k # j \/ Stays(j)) => InPlay(k, n)'
    <2> SUFFICES ASSUME NEW k \in PR!Job, NEW n \in Nat, k # j \/ Stays(j), InPlay(k, n)
                 PROVE  InPlay(k, n)'
        OBVIOUS
    <2>1. CASE Live(k) /\ job[k].gen = n
        BY <1>2, <2>1 DEF InPlay, Live, Stays
    <2>2. CASE \E g \in Client : Waiting(g) /\ prOp[g].job = k /\ prOp[g].gen = n
        BY <1>1, <1>6, <2>2 DEF InPlay
    <2> QED
        BY <2>1, <2>2 DEF InPlay
<1>9. Ends(j) => \A n \in Nat : ~InPlay(j, n)'
    BY <1>1, <1>4, <1>6 DEF InPlay, Live, Ends
<1>10. \A n \in Nat : InPlay(j, n) => n = job[j].gen
    BY <1>4 DEF InPlay
<1>11. ASSUME NEW i \in PR!Job, NEW k \in PR!Job, NEW n \in Nat, InPlay(k, n)', UpTo(i, n)
       PROVE  UpTo(i, n)' /\ (i # j \/ Stays(j))
    <2>1. PICK m \in Nat : InPlay(i, m) /\ n <= m
        BY <1>11 DEF UpTo
    <2>2. i # j \/ Stays(j)
        <3> SUFFICES ASSUME i = j, Ends(j) PROVE FALSE
            BY <1>1
        <3>1. InPlay(k, n) /\ m = job[j].gen
            BY <1>7, <1>10, <1>11, <2>1
        <3>2. job[j].gen <= n
            BY <1>1, <3>1 DEF Chain, Queue
        <3>3. n = m
            BY <1>3, <2>1, <3>1, <3>2
        <3>4. k = j
            BY <2>1, <3>1, <3>3 DEF Chain, OfTheRow
        <3> QED
            BY <1>9, <1>11, <3>4
    <2>3. InPlay(i, m)'
        BY <1>8, <2>1, <2>2
    <2> QED
        BY <2>1, <2>2, <2>3 DEF UpTo
<1>12. Exclusive'
    BY <1>1, <1>6 DEF Chain, Exclusive
<1>13. OfTheRow'
    BY <1>1, <1>2, <1>5, <1>6, <1>7 DEF Chain, OfTheRow
<1>14. Queue'
    <2>1. \A i, k \in PR!Job, n \in Nat : Live(i)' /\ InPlay(k, n)' => job'[i].gen <= n
        BY <1>2, <1>5, <1>7 DEF Chain, Queue
    <2>2. ASSUME NEW g \in Client, NEW k \in PR!Job, NEW n \in Nat,
                 Waiting(g)', InPlay(k, n)', n < prOp'[g].gen
          PROVE  \E i \in PR!Job : prOp'[g].old = i /\ UpTo(i, n)'
        BY <1>1, <1>6, <1>7, <1>11, <2>2 DEF Chain, Queue
    <2>3. ASSUME NEW k \in PR!Job, NEW n \in Nat, InPlay(k, n)'
          PROVE  \E i \in PR!Job : jobs'[prRow'.id] = i /\ UpTo(i, n)'
        <3>1. PICK i \in PR!Job : jobs[prRow.id] = i /\ UpTo(i, n)
            BY <1>7, <2>3 DEF Chain, Queue
        <3>2. UpTo(i, n)' /\ (i # j \/ Stays(j))
            BY <1>11, <2>3, <3>1
        <3>3. jobs'[prRow.id] = jobs[prRow.id]
            BY <1>1, <1>3, <3>1, <3>2 DEF Stays, Ends
        <3> QED
            BY <1>1, <3>1, <3>2, <3>3
    <2>4. ASSUME NEW g \in Client, NEW k \in PR!Job, NEW n \in Nat,
                 Deleting(g)', PR!Owns(g)', InPlay(k, n)'
          PROVE  \E i \in PR!Job : prOp'[g].old = i /\ UpTo(i, n)'
        BY <1>1, <1>6, <1>7, <1>11, <2>4 DEF Chain, Queue
    <2> QED
        BY <2>1, <2>2, <2>3, <2>4 DEF Queue
<1>15. Cancelled'
    <2>1. \A k \in PR!Job : job'[k].cancelled = job[k].cancelled
        BY <1>2
    <2> QED
        BY <1>1, <1>6, <1>7, <2>1 DEF Chain, Cancelled
<1>16. Holds'
    BY <1>1, <1>6, <1>7 DEF Chain, Holds
<1>17. Attended'
    <2> SUFFICES ASSUME prRow'.status \in {"pending", "building"}
                 PROVE  \/ \E k \in PR!Job, n \in Nat : InPlay(k, n)' /\ n = prRow.gen
                        \/ \E g \in Client :
                              prOp[g].at = "install" \/ ((Deleting(g) \/ Removing(g)) /\ PR!Owns(g))
                        \/ <<prRow.id, prRow.gen>> \in cut'
        BY <1>1, <1>6 DEF Attended
    <2>1. CASE PR!Mine(j) /\ Stays(j)
        <3>1. job[j].gen = prRow.gen
            BY <2>1 DEF PR!Mine
        <3>2. \A n \in Nat : n = job[j].gen => InPlay(j, n)
            BY <1>1 DEF InPlay
        <3> QED
            BY <1>3, <1>8, <2>1, <3>1, <3>2
    <2>2. CASE prRow'.status = prRow.status /\ ~(PR!Mine(j) /\ Stays(j))
        <3>1. ASSUME NEW k \in PR!Job, NEW n \in Nat, InPlay(k, n), n = prRow.gen,
                     <<prRow.id, prRow.gen>> \notin cut'
              PROVE  InPlay(k, n)'
            <4> SUFFICES ASSUME k = j, Ends(j) PROVE FALSE
                BY <1>1, <1>8, <3>1
            <4>1. job[j].gen = prRow.gen
                BY <1>10, <3>1
            <4>2. PR!Mine(j)
                BY <1>3, <4>1 DEF PR!Mine
            <4>3. ~job[j].cancelled
                BY <1>3, <3>1 DEF Chain, Cancelled
            <4> QED
                BY <2>2, <3>1, <4>2, <4>3 DEF RunKeeps
        <3>2. cut \subseteq cut'
            BY DEF RunKeeps
        <3> QED
            BY <2>2, <3>1, <3>2 DEF Chain, Attended
    <2> QED
        BY <2>1, <2>2 DEF RunKeeps
<1> QED
    BY <1>12, <1>13, <1>14, <1>15, <1>16, <1>17 DEF Chain

(* There is no other job, and nobody removes what this one makes. *)
RunsAlone(j) ==
    /\ job[j].id = prRow.id /\ prRow.id \in PR!Id /\ Standing /\ prRow.status # "running"
    /\ job[j].gen <= prRow.gen
    /\ \A k \in PR!Job : k # j => ~Live(k)

LEMMA AloneWhileLive ==
    ASSUME PR!PreviewAssumption, PreviewTypes, Numbered, Chain, World, NEW j \in PR!Job, Live(j)
    PROVE  RunsAlone(j)
<1>1. job[j] \in JobRecord /\ job[j].gen \in Nat /\ job[j].id # 0 /\ job[j].id \in 0..MaxJobs
    BY DEF PreviewTypes, JobRecord, Numbered
<1>2. \A n \in Nat : n = job[j].gen => InPlay(j, n)
    BY DEF InPlay
<1>3. job[j].id = prRow.id
    BY DEF Chain, OfTheRow
<1>4. Standing
    BY <1>1, <1>2 DEF Chain, Holds, Removing, Standing
<1>5. prRow.status # "running"
    BY <1>1, <1>2 DEF World, ServedRow
<1>6. job[j].gen <= prRow.gen
    BY <1>1, <1>2 DEF Chain, OfTheRow
<1>7. ASSUME NEW k \in PR!Job, Live(k) PROVE k = j
    <2>1. job[k].gen \in Nat
        BY DEF PreviewTypes, JobRecord
    <2>2. \A n \in Nat : n = job[k].gen => InPlay(k, n)
        BY <1>7 DEF InPlay
    <2>3. job[k].gen <= job[j].gen /\ job[j].gen <= job[k].gen
        BY <1>1, <1>2, <1>7, <2>1, <2>2 DEF Chain, Queue
    <2>4. job[k].gen = job[j].gen
        BY <1>1, <2>1, <2>3
    <2> QED
        BY <1>1, <1>2, <2>2, <2>4 DEF Chain, OfTheRow
<1> QED
    BY <1>1, <1>3, <1>4, <1>5, <1>6, <1>7, PreviewLimits DEF RunsAlone

(* World, while goroutine j runs alone. *)
Around(j) ==
    /\ \A b \in box : b[1] = prRow.id
    /\ \A i \in PR!Id : i # prRow.id => Unnamed(i)
    /\ prRow.slot = -1 => <<prRow.id, 1>> \notin box
    /\ prRow.host # 0 => prSite[prRow.id].host = prRow.host
    /\ prRow.host = 0 /\ job[j].at # "claim" => Unnamed(prRow.id)
    /\ RunAt(j)

LEMMA WorldIsAround ==
    ASSUME World, NEW j \in PR!Job, RunsAlone(j), Live(j), PR!PreviewAssumption
    PROVE  Around(j)
<1>1. prRow.id # 0 /\ \A k \in PR!Job : job[k].at = "claim" => k = j
    BY PreviewLimits DEF RunsAlone, Live
<1> QED
    BY <1>1 DEF World, NothingElse, HostOfRow, RunsAlone, Around

(* What the rest of World is after a step of the goroutine. *)
LEMMA AroundIsWorld ==
    ASSUME PR!PreviewAssumption, World, NEW j \in PR!Job, RunsAlone(j), RunKeeps(j), Around(j)',
           prRow'.status = "running" =>
              /\ BehindItsHost' /\ job'[j].at = "done"
              /\ \A k \in PR!Job, n \in Nat : ~InPlay(k, n)'
              /\ \A g \in Client : prOp'[g].at # "install"
    PROVE  World'
<1>1. /\ prOp' = prOp /\ prRow'.id = prRow.id /\ (\A k \in PR!Job : k # j => job'[k] = job[k])
    BY DEF RunKeeps, PR!quiet, Stays, Ends, Staying
<1>2. Standing' /\ \A g \in Client : prOp'[g].at \notin {"unbox", "unrow"}
    BY <1>1 DEF RunsAlone, Standing
<1>3. NothingElse'
    BY <1>1 DEF World, NothingElse, Around
<1>4. HostOfRow'
    BY <1>1, <1>2 DEF HostOfRow, Around, Standing
<1>5. \A k \in PR!Job : RunAt(k)'
    <2>1. \A k \in PR!Job : k # j => job'[k].at \in {"none", "asked", "done"}
        BY <1>1 DEF RunsAlone, Live
    <2>2. \A k \in PR!Job : k # j => RunAt(k)'
        BY <2>1 DEF RunAt
    <2> QED
        BY <2>2 DEF Around
<1>6. ServedRow'
    BY DEF ServedRow
<1> QED
    BY <1>3, <1>4, <1>5, <1>6 DEF World

(* A step that leaves the hosts, and of the containers at most removes,    *)
(* by a goroutine that has ended or not yet made anything.                 *)
LEMMA AroundKept ==
    ASSUME NEW j \in PR!Job, Around(j), RunKeeps(j), job[j].at # "claim",
           prRow'.slot = prRow.slot, prRow'.host = prRow.host, box' \subseteq box,
           prSite' = prSite, job'[j].at \in {"build", "reread", "done"}
    PROVE  Around(j)'
<1>1. prRow'.id = prRow.id /\ strays \subseteq strays'
    BY DEF RunKeeps
<1>2. RunAt(j)'
    BY DEF RunAt
<1> QED
    BY <1>1, <1>2 DEF Around, Unnamed

LEMMA RunStepWorld ==
    ASSUME PR!PreviewAssumption, PreviewTypes, Numbered, AskedOnce, Chain, World,
           NEW j \in PR!Job, PR!RunStep(j)
    PROVE  World'
<1>1. RunKeeps(j) /\ Live(j)
    BY RunStepKeeps DEF RunKeeps
<1>2. RunsAlone(j) /\ Around(j)
    BY <1>1, AloneWhileLive, WorldIsAround
<1>3. /\ job[j].id = prRow.id /\ prRow.id \in PR!Id /\ prRow.status # "running"
      /\ prRow \in RowRecord
      /\ job[j] \in JobRecord /\ prSite \in [PR!Id -> SiteRecord] /\ box \subseteq PR!Id \X {0, 1}
      /\ lastHost \in Nat /\ job \in [PR!Job -> JobRecord] /\ job[j].id \in PR!Id
    BY <1>2 DEF RunsAlone, PreviewTypes
<1>4. /\ job[j].slot \in Slot /\ job[j].host \in Nat /\ prRow.slot \in Slot /\ prRow.host \in Nat
      /\ job'[j].id = prRow.id /\ prRow'.id = prRow.id /\ strays \subseteq strays'
    BY <1>1, <1>3 DEF JobRecord, RowRecord, RunKeeps, Stays, Ends, Staying
<1>5. PR!NextBox(j) = <<prRow.id, PR!NextSlot(j)>> /\ PR!NextSlot(j) \in {0, 1}
    BY <1>3 DEF PR!NextBox, PR!NextSlot
<1>6. CASE PR!RunStart(j)
    <2>1. UNCHANGED <<box, prSite>> /\ job[j].at = "start"
        BY <1>6 DEF PR!RunStart, PR!outside
    <2>2. CASE /\ prRow' = [prRow EXCEPT !.status = "building"]
               /\ job' = [job EXCEPT ![j] = [@ EXCEPT !.at = "build", !.slot = prRow.slot]]
        <3>1. job'[j].at = "build"
            BY <1>3, <2>2 DEF JobRecord
        <3>2. prRow'.host = prRow.host /\ prRow'.slot = prRow.slot /\ prRow'.status = "building"
            BY <1>3, <2>2 DEF RowRecord
        <3> QED
            BY <1>1, <1>2, <2>1, <3>1, <3>2, AroundKept, AroundIsWorld
    <2>3. CASE PR!Finish(j) /\ prRow' = prRow
        <3>1. job'[j].at = "done"
            BY <2>3, Finishes DEF Ends
        <3> QED
            BY <1>1, <1>2, <1>3, <2>1, <2>3, <3>1, AroundKept, AroundIsWorld
    <2> QED
        BY <1>6, <2>2, <2>3 DEF PR!RunStart, PR!Abandon
<1>7. CASE PR!RunBuilt(j)
    <2>1. UNCHANGED <<prRow, box, prSite>> /\ job'[j].at = "reread" /\ job[j].at = "build"
        BY <1>7, Moves DEF PR!RunBuilt, LiveStage, PR!outside
    <2> QED
        BY <1>1, <1>2, <1>3, <2>1, AroundKept, AroundIsWorld
<1>8. CASE PR!RunFails(j)
    <2>1. UNCHANGED <<box, prSite>> /\ job'[j].at = "done" /\ job[j].at # "claim"
        BY <1>8, Finishes DEF PR!RunFails, PR!outside, Ends
    <2>2. prRow'.host = prRow.host /\ prRow'.slot = prRow.slot /\ prRow'.status # "running"
        BY <1>3, <1>8, Marks DEF PR!RunFails
    <2> QED
        BY <1>1, <1>2, <2>1, <2>2, AroundKept, AroundIsWorld
<1>9. CASE PR!RunQuits(j)
    <2>1. UNCHANGED <<prRow, box, prSite>> /\ job'[j].at = "done" /\ job[j].at # "claim"
        BY <1>9, Finishes DEF PR!RunQuits, PR!Abandon, PR!outside, Ends
    <2> QED
        BY <1>1, <1>2, <1>3, <2>1, AroundKept, AroundIsWorld
<1>10. CASE PR!RunReread(j)
    <2>1. prSite' = prSite /\ job[j].at = "reread"
        BY <1>10 DEF PR!RunReread
    <2>2. CASE /\ job' = [job EXCEPT ![j] =
                             [@ EXCEPT !.at = "run", !.slot = prRow.slot, !.host = prRow.host]]
               /\ PR!StopAndRemove(<<prRow.id, IF prRow.slot = 0 THEN 1 ELSE 0>>)
               /\ prRow' = prRow
        <3>1. box' \subseteq box
            BY <2>2, Removes
        <3>2. job'[j].at = "run" /\ job'[j].slot = prRow.slot /\ job'[j].host = prRow.host
            BY <1>3, <2>2 DEF JobRecord
        <3>3. RunAt(j)'
            BY <2>2, <3>2 DEF RunAt
        <3>4. Around(j)'
            BY <1>2, <1>4, <2>1, <2>2, <3>1, <3>2, <3>3 DEF Around, Unnamed
        <3> QED
            BY <1>1, <1>2, <1>3, <2>2, <3>4, AroundIsWorld
    <2>3. CASE PR!Finish(j) /\ prRow' = prRow /\ box' \subseteq box
        <3>1. job'[j].at = "done"
            BY <2>3, Finishes DEF Ends
        <3> QED
            BY <1>1, <1>2, <1>3, <2>1, <2>3, <3>1, AroundKept, AroundIsWorld
    <2> QED
        BY <1>10, <2>2, <2>3, Removes DEF PR!RunReread, PR!Abandon
<1>11. CASE PR!RunUp(j)
    <2>1. /\ UNCHANGED <<prRow, prSite>> /\ box' = box \cup {PR!NextBox(j)} /\ job[j].at = "run"
          /\ PR!Move(j, "probe") /\ UNCHANGED jobs
        BY <1>11 DEF PR!RunUp
    <2>2. job'[j].at = "probe" /\ job'[j].slot = job[j].slot /\ job'[j].host = job[j].host
        BY <2>1, Moves DEF LiveStage
    <2>3. PR!NextBox(j)' = PR!NextBox(j)
        BY <1>3, <1>4, <2>2 DEF PR!NextBox, PR!NextSlot
    <2>4. job[j].slot = prRow.slot /\ job[j].host = prRow.host
        BY <1>2, <2>1 DEF Around, RunAt
    <2>5. RunAt(j)'
        BY <2>1, <2>2, <2>3, <2>4 DEF RunAt
    <2>6. prRow.slot = -1 => PR!NextSlot(j) = 0
        BY <2>4 DEF PR!NextSlot
    <2>7. /\ \A b \in box' : b[1] = prRow.id
          /\ prRow.slot = -1 => <<prRow.id, 1>> \notin box'
        BY <1>2, <1>5, <2>1, <2>6 DEF Around
    <2>8. Around(j)'
        BY <1>2, <1>4, <2>1, <2>2, <2>5, <2>7 DEF Around, Unnamed
    <2> QED
        BY <1>1, <1>2, <1>3, <2>1, <2>8, AroundIsWorld
<1>12. CASE PR!RunDown(j)
    <2>1. box' \subseteq box /\ job'[j].at = "done" /\ job[j].at \in {"probe", "host"}
        BY <1>12, Finishes, Removes DEF PR!RunDown, Ends
    <2>2. prRow'.host = prRow.host /\ prRow'.slot = prRow.slot /\ prRow'.status # "running"
        BY <1>3, <1>12, Marks DEF PR!RunDown
    <2>3. CASE prSite' = prSite
        BY <1>1, <1>2, <2>1, <2>2, <2>3, AroundKept, AroundIsWorld
    <2>4. CASE /\ job[j].at = "host" /\ job[j].host = 0
               /\ PR!Point(j, lastHost + 1) /\ strays' = strays \cup {lastHost + 1}
        <3>1. prRow.host = 0
            BY <1>2, <2>4 DEF Around, RunAt
        <3>2. lastHost + 1 \in Nat
            BY <1>3
        <3>3. /\ prSite'[prRow.id] = [host |-> lastHost + 1, slot |-> PR!NextSlot(j)]
              /\ \A i \in PR!Id : i # prRow.id => prSite'[i] = prSite[i]
            BY <1>3, <2>4, <3>2, Points
        <3>4. prSite'[prRow.id].host \in strays' /\ RunAt(j)'
            BY <2>1, <2>4, <3>3 DEF RunAt
        <3>5. Around(j)'
            BY <1>2, <1>4, <2>1, <2>2, <3>1, <3>3, <3>4 DEF Around, Unnamed
        <3> QED
            BY <1>1, <1>2, <2>2, <3>5, AroundIsWorld
    <2>5. CASE job[j].at = "host" /\ job[j].host # 0 /\ PR!Point(j, job[j].host)
        <3>1. prRow.host = job[j].host
            BY <1>2, <2>5 DEF Around, RunAt
        <3>2. /\ prSite'[prRow.id] = [host |-> job[j].host, slot |-> PR!NextSlot(j)]
              /\ \A i \in PR!Id : i # prRow.id => prSite'[i] = prSite[i]
            BY <1>3, <1>4, <2>5, Points
        <3>3. prSite'[prRow.id].host = prRow.host /\ RunAt(j)'
            BY <2>1, <3>1, <3>2 DEF RunAt
        <3>4. Around(j)'
            BY <1>2, <1>4, <2>1, <2>2, <2>5, <3>1, <3>2, <3>3 DEF Around, Unnamed
        <3> QED
            BY <1>1, <1>2, <2>2, <3>4, AroundIsWorld
    <2>6. PR!HostFails(j)
        BY <1>12 DEF PR!RunDown
    <2> QED
        BY <2>3, <2>4, <2>5, <2>6 DEF PR!HostFails
<1>13. CASE PR!RunProbe(j)
    <2>1. /\ UNCHANGED <<prRow, box, prSite>> /\ job[j].at = "probe"
          /\ job'[j].at = "host" /\ job'[j].slot = job[j].slot /\ job'[j].host = job[j].host
        BY <1>13, Moves DEF PR!RunProbe, LiveStage, PR!outside
    <2>2. PR!NextBox(j)' = PR!NextBox(j)
        BY <1>3, <1>4, <2>1 DEF PR!NextBox, PR!NextSlot
    <2>3. RunAt(j)'
        BY <1>2, <2>1, <2>2 DEF Around, RunAt
    <2>4. Around(j)'
        BY <1>2, <1>4, <2>1, <2>3 DEF Around, Unnamed
    <2> QED
        BY <1>1, <1>2, <1>3, <2>1, <2>4, AroundIsWorld
<1>14. CASE PR!RunCreateHost(j)
    <2> DEFINE new == lastHost + 1
               to == [job[j] EXCEPT !.at = "claim", !.host = new]
    <2>1. /\ job' = [job EXCEPT ![j] = to] /\ PR!Point(j, new)
          /\ UNCHANGED <<prRow, box>> /\ job[j].at = "host" /\ job[j].host = 0
        BY <1>14 DEF PR!RunCreateHost
    <2>2. new \in Nat /\ new # 0
        BY <1>3
    <2> HIDE DEF new
    <2>3. to.at = "claim" /\ to.slot = job[j].slot /\ to.host = new
        BY <1>3 DEF JobRecord
    <2>4. job'[j] = to
        BY <1>3, <2>1
    <2> HIDE DEF to
    <2>5. job'[j].at = "claim" /\ job'[j].slot = job[j].slot /\ job'[j].host = new
        BY <2>3, <2>4
    <2>6. PR!NextSlot(j)' = PR!NextSlot(j) /\ PR!NextBox(j)' = PR!NextBox(j)
        BY <1>3, <1>4, <2>5 DEF PR!NextBox, PR!NextSlot
    <2>7. /\ prSite'[prRow.id] = [host |-> new, slot |-> PR!NextSlot(j)]
          /\ \A i \in PR!Id : i # prRow.id => prSite'[i] = prSite[i]
        BY <1>3, <2>1, <2>2, Points
    <2>8. job[j].slot = prRow.slot /\ prRow.host = 0 /\ PR!NextBox(j) \in box
        BY <1>2, <2>1 DEF Around, RunAt
    <2>9. RunAt(j)'
        BY <1>4, <2>1, <2>2, <2>5, <2>6, <2>7, <2>8 DEF RunAt
    <2>10. Around(j)'
        BY <1>2, <1>4, <2>1, <2>5, <2>7, <2>8, <2>9 DEF Around, Unnamed
    <2> QED
        BY <1>1, <1>2, <1>3, <2>1, <2>10, AroundIsWorld
<1>15. CASE PR!RunClaim(j)
    <2>1. /\ job[j].at = "claim" /\ job[j].slot = prRow.slot /\ job[j].host # 0
          /\ PR!NextBox(j) \in box /\ prRow.host = 0
          /\ prSite[prRow.id] = [host |-> job[j].host, slot |-> PR!NextSlot(j)]
        BY <1>2, <1>15 DEF Around, RunAt, PR!RunClaim
    <2>2. CASE /\ prRow' = [prRow EXCEPT !.host = job[j].host] /\ PR!Move(j, "retire")
               /\ UNCHANGED <<box, prSite, jobs, PR!faults>>
        <3>1. job'[j].at = "retire" /\ job'[j].slot = job[j].slot /\ job'[j].host = job[j].host
            BY <2>2, Moves DEF LiveStage
        <3>2. prRow'.host = job[j].host /\ prRow'.slot = prRow.slot /\ prRow'.status = prRow.status
            BY <1>3, <2>2 DEF RowRecord
        <3>3. PR!NextSlot(j)' = PR!NextSlot(j) /\ PR!NextBox(j)' = PR!NextBox(j)
            BY <1>3, <1>4, <3>1 DEF PR!NextBox, PR!NextSlot
        <3>4. RunAt(j)'
            BY <1>4, <2>1, <2>2, <3>1, <3>2, <3>3 DEF RunAt
        <3>5. Around(j)'
            BY <1>2, <1>4, <2>1, <2>2, <3>2, <3>4 DEF Around, Unnamed
        <3> QED
            BY <1>1, <1>2, <1>3, <3>2, <3>5, AroundIsWorld
    <2>3. CASE /\ prRow' = prRow
               /\ \/ /\ prSite' = IF prSite[job[j].id].host = job[j].host
                                  THEN [prSite EXCEPT ![job[j].id] = PR!NoSite] ELSE prSite
                     /\ UNCHANGED strays
                  \/ strays' = strays \cup {job[j].host} /\ UNCHANGED prSite
               /\ PR!StopAndRemove(PR!NextBox(j)) /\ PR!Finish(j)
        <3>1. box' \subseteq box /\ job'[j].at = "done"
            BY <2>3, Removes, Finishes DEF Ends
        <3>2. prSite[prRow.id].host = job[j].host
            BY <2>1
        <3>3. /\ prSite'[prRow.id] = PR!NoSite \/ prSite'[prRow.id].host \in strays'
              /\ \A i \in PR!Id : i # prRow.id => prSite'[i] = prSite[i]
            BY <1>3, <2>3, <3>2
        <3>4. Around(j)'
            BY <1>2, <1>4, <2>1, <2>3, <3>1, <3>3 DEF Around, RunAt, Unnamed
        <3> QED
            BY <1>1, <1>2, <1>3, <2>3, <3>4, AroundIsWorld
    <2> QED
        BY <1>15, <2>2, <2>3 DEF PR!RunClaim, PR!Abandon
<1>16. CASE PR!RunSwitch(j)
    <2>1. /\ UNCHANGED <<prRow, box>> /\ job[j].at = "host" /\ job[j].host # 0
          /\ PR!Move(j, "retire") /\ UNCHANGED jobs
        BY <1>16 DEF PR!RunSwitch
    <2>2. job'[j].at = "retire" /\ job'[j].slot = job[j].slot /\ job'[j].host = job[j].host
        BY <2>1, Moves DEF LiveStage
    <2>3. PR!NextSlot(j)' = PR!NextSlot(j) /\ PR!NextBox(j)' = PR!NextBox(j)
        BY <1>3, <1>4, <2>2 DEF PR!NextBox, PR!NextSlot
    <2>4. /\ job[j].slot = prRow.slot /\ job[j].host = prRow.host /\ PR!NextBox(j) \in box
          /\ prSite[prRow.id].host = prRow.host
        BY <1>2, <2>1 DEF Around, RunAt
    <2>5. PR!Point(j, job[j].host)
        BY <1>3, <1>16, <2>4 DEF PR!RunSwitch
    <2>6. /\ prSite'[prRow.id] = [host |-> job[j].host, slot |-> PR!NextSlot(j)]
          /\ \A i \in PR!Id : i # prRow.id => prSite'[i] = prSite[i]
        BY <1>3, <1>4, <2>5, Points
    <2>7. RunAt(j)'
        BY <1>4, <2>1, <2>2, <2>3, <2>4, <2>6 DEF RunAt
    <2>8. Around(j)'
        BY <1>2, <1>4, <2>1, <2>4, <2>6, <2>7 DEF Around, Unnamed
    <2> QED
        BY <1>1, <1>2, <1>3, <2>1, <2>8, AroundIsWorld
<1>17. CASE PR!RunRetire(j)
    <2> DEFINE old == <<job[j].id, job[j].slot>>
    <2>1. /\ UNCHANGED <<prRow, prSite>> /\ PR!StopAndRemove(old)
          /\ job[j].at = "retire" /\ PR!Move(j, "commit") /\ UNCHANGED jobs
        BY <1>17 DEF PR!RunRetire
    <2>2. job'[j].at = "commit" /\ job'[j].slot = job[j].slot /\ job'[j].host = job[j].host
        BY <2>1, Moves DEF LiveStage
    <2>3. /\ PR!NextSlot(j)' = PR!NextSlot(j) /\ PR!NextBox(j)' = PR!NextBox(j)
          /\ PR!NextBox(j) # old /\ <<job'[j].id, job'[j].slot>> = old
        BY <1>3, <1>4, <2>2 DEF PR!NextBox, PR!NextSlot
    <2>4. box' \subseteq box /\ box \ {old} \subseteq box' /\ (old \notin box' \/ old \in lingers')
        BY <2>1, Removes
    <2> HIDE DEF old
    <2>5. /\ job[j].slot = prRow.slot /\ prRow.host # 0 /\ job[j].host = prRow.host
          /\ PR!NextBox(j) \in box
          /\ prSite[prRow.id] = [host |-> job[j].host, slot |-> PR!NextSlot(j)]
        BY <1>2, <2>1 DEF Around, RunAt
    <2>6. PR!NextBox(j) \in box'
        BY <2>3, <2>4, <2>5
    <2>7. RunAt(j)'
        BY <1>4, <2>1, <2>2, <2>3, <2>4, <2>5, <2>6 DEF RunAt
    <2>8. Around(j)'
        BY <1>2, <1>4, <2>1, <2>2, <2>4, <2>5, <2>7 DEF Around, Unnamed
    <2> QED
        BY <1>1, <1>2, <1>3, <2>1, <2>8, AroundIsWorld
<1>18. CASE PR!RunCommit(j)
    <2>1. UNCHANGED <<prSite, strays>> /\ job'[j].at = "done" /\ job[j].at = "commit" /\ Ends(j)
        BY <1>18, Finishes DEF PR!RunCommit, Ends
    <2>2. /\ job[j].slot = prRow.slot /\ prRow.host # 0 /\ job[j].host = prRow.host
          /\ PR!NextBox(j) \in box
          /\ prSite[prRow.id] = [host |-> prRow.host, slot |-> PR!NextSlot(j)]
          /\ <<prRow.id, prRow.slot>> \notin box \/ <<prRow.id, prRow.slot>> \in lingers
        BY <1>2, <1>3, <2>1 DEF Around, RunAt
    <2>3. CASE prRow' = prRow /\ PR!StopAndRemove(PR!NextBox(j))
        <3>1. box' \subseteq box
            BY <2>3, Removes
        <3> QED
            BY <1>1, <1>2, <1>3, <2>1, <2>3, <3>1, AroundKept, AroundIsWorld
    <2>4. CASE /\ PR!Mine(j)
               /\ prRow' = [prRow EXCEPT !.slot = PR!NextSlot(j), !.status = "running"]
               /\ UNCHANGED <<box, lingers>>
        <3>1. prRow'.slot = PR!NextSlot(j) /\ prRow'.host = prRow.host
            BY <1>3, <2>4 DEF RowRecord
        <3>2. \A b \in box : b = <<prRow.id, PR!NextSlot(j)>> \/ b \in lingers
            <4> SUFFICES ASSUME NEW b \in box, b \notin lingers
                         PROVE  b = <<prRow.id, PR!NextSlot(j)>>
                OBVIOUS
            <4>1. b[1] = prRow.id /\ b[2] \in {0, 1} /\ b = <<b[1], b[2]>>
                BY <1>2, <1>3 DEF Around
            <4>2. prRow.slot = -1 => b[2] # 1
                BY <1>2, <4>1 DEF Around
            <4>3. b[2] # prRow.slot
                BY <2>2, <4>1
            <4>4. prRow.slot \in {-1, 0, 1}
                BY <1>4 DEF Slot
            <4>5. b[2] = PR!NextSlot(j)
                BY <2>2, <4>1, <4>2, <4>3, <4>4 DEF PR!NextSlot
            <4> QED
                BY <4>1, <4>5
        <3>3. BehindItsHost'
            BY <1>4, <1>5, <2>1, <2>2, <2>4, <3>1, <3>2 DEF BehindItsHost
        <3>4. Around(j)'
            BY <1>2, <1>4, <1>5, <2>1, <2>2, <2>4, <3>1 DEF Around, RunAt, Unnamed
        <3>5. job[j].gen = prRow.gen /\ prRow.gen \in Nat
            BY <1>3, <2>4 DEF PR!Mine, RowRecord
        <3>6. \A n \in Nat : n = prRow.gen => InPlay(j, n)
            BY <1>1, <3>5 DEF InPlay
        <3>7. \A k \in PR!Job, n \in Nat : ~InPlay(k, n)'
            <4> SUFFICES ASSUME NEW k \in PR!Job, NEW n \in Nat, InPlay(k, n)' PROVE FALSE
                OBVIOUS
            <4>1. prOp' = prOp /\ \A i \in PR!Job : i # j => job'[i] = job[i]
                BY <1>1, <2>1 DEF RunKeeps, PR!quiet, Ends, Staying
            <4>2. ~Live(k)'
                BY <1>2, <2>1, <4>1 DEF RunsAlone, Live
            <4>3. InPlay(k, n) /\ k # j
                <5>1. PICK g \in Client : Waiting(g) /\ prOp[g].job = k /\ prOp[g].gen = n
                    BY <4>1, <4>2 DEF InPlay, Waiting
                <5>2. job[k].at = "asked"
                    BY <5>1 DEF AskedOnce, Creating, Waiting
                <5> QED
                    BY <1>1, <5>1, <5>2 DEF InPlay, Live
            <4>4. n <= prRow.gen /\ prRow.gen <= n
                BY <1>1, <3>5, <4>3 DEF Chain, OfTheRow, Queue
            <4>5. n = prRow.gen
                BY <3>5, <4>4
            <4> QED
                BY <3>5, <3>6, <4>3, <4>5 DEF Chain, OfTheRow
        <3>8. \A g \in Client : prOp'[g].at # "install"
            <4>1. prOp' = prOp
                BY <1>1 DEF RunKeeps, PR!quiet
            <4>2. \A g \in Client : prOp[g].at = "install" => prRow.gen < prRow.gen
                BY <3>5, <3>6 DEF Chain, Holds
            <4> QED
                BY <3>5, <4>1, <4>2
        <3> QED
            BY <1>1, <1>2, <2>1, <3>3, <3>4, <3>7, <3>8, AroundIsWorld
    <2> QED
        BY <1>18, <2>3, <2>4 DEF PR!RunCommit, PR!Abandon
<1> QED
    BY <1>6, <1>7, <1>8, <1>9, <1>10, <1>11, <1>12, <1>13, <1>14, <1>15, <1>16, <1>17, <1>18
       DEF PR!RunStep

-----------------------------------------------------------------------------
(* What most steps of the requests keep. *)

(* The histories only grow. *)
Remembers == cut \subseteq cut' /\ strays \subseteq strays' /\ lingers \subseteq lingers'

LEMMA OpStepRemembers == ASSUME NEW g \in Client, PR!OpStep(g) PROVE Remembers
BY DEF Remembers, PR!OpStep, PR!CreatePreview, PR!Upsert, PR!Install, PR!CancelOld, PR!Spawn,
       PR!SpawnAnyway, PR!Launch, PR!DeletePreview, PR!Bump, PR!StopJob, PR!GiveUpWaiting,
       PR!Verify, PR!DeleteHost, PR!RemoveBoxes, PR!DeleteRow, PR!faults

SameOp(g) ==
    /\ prOp'[g].job = prOp[g].job /\ prOp'[g].old = prOp[g].old /\ prOp'[g].id = prOp[g].id
    /\ prOp'[g].gen = prOp[g].gen /\ prOp'[g].lock = prOp[g].lock

Others(g) == \A h \in Client : h # g => prOp'[h] = prOp[h]

LEMMA Goes ==
    ASSUME PreviewTypes, NEW g \in Client, NEW at \in OpStage, PR!Goto(g, at)
    PROVE  /\ prOp' \in [Client -> OpRecord] /\ Others(g) /\ SameOp(g) /\ prOp'[g].at = at
           /\ prOp'[g].errs = prOp[g].errs
<1> DEFINE to == [prOp[g] EXCEPT !.at = at]
<1>1. prOp[g] \in OpRecord /\ prOp \in [Client -> OpRecord] /\ prOp' = [prOp EXCEPT ![g] = to]
    BY DEF PreviewTypes, PR!Goto
<1>2. /\ to \in OpRecord /\ to.at = at /\ to.job = prOp[g].job /\ to.old = prOp[g].old
      /\ to.id = prOp[g].id /\ to.gen = prOp[g].gen /\ to.lock = prOp[g].lock
      /\ to.errs = prOp[g].errs
    BY <1>1, OpAt
<1> HIDE DEF to
<1>3. prOp' \in [Client -> OpRecord] /\ prOp'[g] = to
         /\ \A h \in Client : h # g => prOp'[h] = prOp[h]
    BY <1>1, <1>2, OpMoves
<1> QED
    BY <1>2, <1>3 DEF Others, SameOp

LEMMA OpEnds ==
    ASSUME PR!PreviewAssumption, PreviewTypes, NEW g \in Client, PR!EndOp(g)
    PROVE  prOp' \in [Client -> OpRecord] /\ Others(g) /\ prOp'[g] = PR!NoOp
<1>1. prOp \in [Client -> OpRecord] /\ prOp' = [prOp EXCEPT ![g] = PR!NoOp] /\ PR!NoOp \in OpRecord
    BY Blank DEF PreviewTypes, PR!EndOp
<1> QED
    BY <1>1, OpMoves DEF Others

LEMMA RecordedGrows ==
    ASSUME PR!PreviewAssumption,
           \A k \in PR!Job : job[k].at # "none" => job'[k].at # "none",
           \A g \in Client : prOp'[g].at = "lock" =>
              \/ prOp[g].at = "lock" /\ prOp'[g].job = prOp[g].job
              \/ job[prOp'[g].job].at = "none"
    PROVE  /\ Cardinality(Recorded) \in Nat /\ Cardinality(Recorded') \in Nat
           /\ Cardinality(Recorded) <= Cardinality(Recorded')
<1>1. Recorded \subseteq Recorded'
    BY DEF Recorded
<1>2. IsFiniteSet(Recorded')
    <2>1. IsFiniteSet(PR!Job) /\ Recorded' \subseteq PR!Job
        BY PreviewLimits, FS_Interval DEF PR!Job, Recorded
    <2> QED
        BY <2>1, FS_Subset
<1>3. Cardinality(Recorded) <= Cardinality(Recorded') /\ IsFiniteSet(Recorded)
    BY <1>1, <1>2, FS_Subset
<1> QED
    BY <1>2, <1>3, FS_CardinalityType

LEMMA NumberedKept ==
    ASSUME PR!PreviewAssumption, PreviewTypes, Numbered, PreviewTypes',
           UNCHANGED <<lastId, epoch>>, prRow'.id = prRow.id, prRow.id = 0 => prRow' = prRow,
           \A g \in Client : prOp'[g].id = prOp[g].id \/ prOp'[g].id \in {0, prRow.id},
           \A g \in Client : prOp'[g].at \notin {"idle", "lock"} => prOp'[g].id # 0,
           \A k \in PR!Job : Live(k)' => job'[k].id # 0,
           \A k \in PR!Job : job[k].at # "none" => job'[k].at # "none",
           \A g \in Client : prOp'[g].at = "lock" =>
              \/ prOp[g].at = "lock" /\ prOp'[g].job = prOp[g].job
              \/ job[prOp'[g].job].at = "none"
    PROVE  Numbered'
<1>1. /\ Cardinality(Recorded) \in Nat /\ Cardinality(Recorded') \in Nat
      /\ Cardinality(Recorded) <= Cardinality(Recorded')
    BY RecordedGrows
<1>2. lastId \in Nat /\ lastId <= Cardinality(Recorded')
    BY <1>1, PreviewLimits DEF Numbered
<1>3. \A g \in Client : prOp'[g].id <= lastId
    BY <1>2 DEF Numbered
<1> QED
    BY <1>2, <1>3 DEF Numbered

LEMMA AskedKept ==
    ASSUME PR!PreviewAssumption, PreviewTypes, AskedOnce,
           \A g \in Client : Creating(g)' => Creating(g) /\ prOp'[g].job = prOp[g].job,
           \A g \in Client : prOp'[g].at \in {"lock", "install"}
              => prOp[g].at \in {"lock", "install"},
           \A g \in Client : Creating(g)' => job'[prOp'[g].job].at = "asked",
           \A k \in PR!Job : job'[k].at = "none" => job[k].at = "none",
           \A k \in PR!Job : job'[k].cancelled
              => job[k].cancelled \/ \E h \in Client : prOp[h].old = k,
           jobs' = jobs,
           \A g \in Client : \/ prOp'[g].old \in {0, prOp[g].old}
                             \/ \E i \in PR!Id : prOp'[g].old = jobs[i]
    PROVE  AskedOnce'
<1>1. ASSUME NEW k \in PR!Job,
             job'[k].at = "none"
                \/ (\E g \in Client : prOp'[g].at \in {"lock", "install"} /\ prOp'[g].job = k)
      PROVE  /\ ~job'[k].cancelled
             /\ \A i \in PR!Id : jobs'[i] # k
             /\ \A h \in Client : prOp'[h].old # k
    <2>1. job[k].at = "none"
             \/ (\E g \in Client : prOp[g].at \in {"lock", "install"} /\ prOp[g].job = k)
        BY <1>1 DEF Creating
    <2>2. /\ ~job[k].cancelled /\ (\A i \in PR!Id : jobs[i] # k)
          /\ \A h \in Client : prOp[h].old # k
        BY <2>1 DEF AskedOnce
    <2>3. k # 0
        BY PreviewLimits
    <2> QED
        BY <2>2, <2>3
<1>2. \A g \in Client : Creating(g)' => prOp'[g].job # 0 /\ job'[prOp'[g].job].at = "asked"
    BY DEF AskedOnce
<1>3. \A g, h \in Client : Creating(g)' /\ Creating(h)' /\ prOp'[g].job = prOp'[h].job => g = h
    BY DEF AskedOnce
<1> QED
    BY <1>1, <1>2, <1>3 DEF AskedOnce

(* No request enters the queue, leaves it or takes the row. *)
LEMMA ChainKept ==
    ASSUME PreviewTypes, Chain, Exclusive', Remembers,
           prRow'.id = prRow.id, prRow'.gen = prRow.gen, jobs' = jobs,
           prRow'.status \in {"pending", "building"} => prRow.status \in {"pending", "building"},
           \A k \in PR!Job : (Live(k)' <=> Live(k))
                          /\ (Live(k) => job'[k].id = job[k].id /\ job'[k].gen = job[k].gen),
           \A g \in Client : Waiting(g)' <=> Waiting(g),
           \A g \in Client : Waiting(g) => SameOp(g),
           \A g \in Client : Deleting(g)' => Deleting(g) /\ SameOp(g),
           \A g \in Client : prOp'[g].at = "install" <=> prOp[g].at = "install",
           \A g \in Client : prOp[g].at = "install" => SameOp(g),
           \A g \in Client : Removing(g)' =>
              SameOp(g) /\ PR!Owns(g) /\ \A j \in PR!Job, n \in Nat : ~InPlay(j, n),
           \A g \in Client : (Deleting(g) \/ Removing(g)) /\ PR!Owns(g) =>
              \/ (Deleting(g) \/ Removing(g))' /\ SameOp(g)
              \/ <<prRow.id, prRow.gen>> \in cut' \/ prRow'.status \notin {"pending", "building"},
           \A k \in PR!Job, n \in Nat : InPlay(k, n) /\ job'[k].cancelled => n < prRow.gen
    PROVE  Chain'
<1>1. \A k \in PR!Job, n \in Nat : InPlay(k, n)' <=> InPlay(k, n)
    BY DEF InPlay, SameOp
<1>2. \A k \in PR!Job, n \in Nat : UpTo(k, n)' <=> UpTo(k, n)
    BY <1>1 DEF UpTo
<1>3. \A g \in Client : SameOp(g) => (PR!Owns(g)' <=> PR!Owns(g))
    BY DEF SameOp, PR!Owns
<1>4. OfTheRow'
    BY <1>1 DEF Chain, OfTheRow, SameOp
<1>5. Queue'
    BY <1>1, <1>2, <1>3 DEF Chain, Queue, SameOp
<1>6. Cancelled'
    BY <1>1 DEF Chain, Cancelled, SameOp
<1>7. Holds'
    <2>1. ASSUME NEW g \in Client, prOp'[g].at = "install"
          PROVE  /\ PR!Owns(g)'
                 /\ \A j \in PR!Job, n \in Nat : InPlay(j, n)' => n < prRow'.gen
                 /\ \A h \in Client : Deleting(h)' => ~PR!Owns(h)'
        <3>1. prOp[g].at = "install" /\ SameOp(g) /\ PR!Owns(g)
            BY <2>1 DEF Chain, Holds
        <3>2. \A j \in PR!Job, n \in Nat : InPlay(j, n)' => n < prRow'.gen
            BY <1>1, <3>1 DEF Chain, Holds
        <3>3. \A h \in Client : Deleting(h)' => ~PR!Owns(h)'
            BY <1>3, <3>1 DEF Chain, Holds
        <3> QED
            BY <1>3, <3>1, <3>2, <3>3
    <2>2. ASSUME NEW g \in Client, Removing(g)'
          PROVE  PR!Owns(g)' /\ \A j \in PR!Job, n \in Nat : ~InPlay(j, n)'
        BY <1>1, <1>3, <2>2
    <2>3. ASSUME NEW g \in Client, Deleting(g)' \/ Removing(g)', prOp'[g].id = prRow'.id
          PROVE  prOp'[g].gen <= prRow'.gen
        <3>1. prRow.gen \in Nat
            BY DEF PreviewTypes, RowRecord
        <3>2. CASE Deleting(g)'
            BY <2>3, <3>2 DEF Chain, Holds, SameOp
        <3>3. CASE Removing(g)'
            BY <3>1, <3>3 DEF SameOp, PR!Owns
        <3> QED
            BY <2>3, <3>2, <3>3
    <2> QED
        BY <2>1, <2>2, <2>3 DEF Holds
<1>8. Attended'
    BY <1>1, <1>3 DEF Chain, Attended, Remembers
<1> QED
    BY <1>4, <1>5, <1>6, <1>7, <1>8 DEF Chain

(* Nothing that serves the preview is touched. *)
LEMMA WorldKept ==
    ASSUME World, UNCHANGED <<box, prSite>>, Remembers,
           prRow'.id = prRow.id, prRow'.slot = prRow.slot, prRow'.host = prRow.host,
           prRow'.status = "running" => prRow.status = "running",
           \A k \in PR!Job :
              \/ job'[k].at \in {"none", "asked", "start", "done"}
              \/ /\ job'[k].at = job[k].at /\ job'[k].id = job[k].id /\ job'[k].slot = job[k].slot
                 /\ job'[k].host = job[k].host,
           \A k \in PR!Job : job[k].at = "claim" => job'[k].at = "claim",
           \A g \in Client : prOp'[g].at \in {"unbox", "unrow"}
              <=> prOp[g].at \in {"unbox", "unrow"},
           \A g \in Client : prOp'[g].at = "unrow" => prOp[g].at = "unrow",
           \A g \in Client : prOp'[g].at \in {"unbox", "unrow"} => prOp'[g].errs = prOp[g].errs,
           prRow'.status = "running" =>
              /\ \A k \in PR!Job, n \in Nat : ~InPlay(k, n)'
              /\ \A g \in Client : prOp'[g].at # "install"
    PROVE  World'
<1>1. Standing' <=> Standing
    BY DEF Standing
<1>2. (\A i : Unnamed(i) => Unnamed(i)') /\ NothingElse'
    BY DEF World, NothingElse, Unnamed, Remembers
<1>3. HostOfRow'
    <2>1. prRow.id # 0 /\ Standing => /\ prRow.host # 0 => prSite[prRow.id].host = prRow.host
                                      /\ prRow.host = 0 /\ (\A k \in PR!Job : job'[k].at # "claim")
                                            => Unnamed(prRow.id)'
        BY <1>2 DEF World, HostOfRow, Unnamed
    <2>2. \A g \in Client : prOp'[g].at \in {"unbox", "unrow"} =>
             IF prOp'[g].errs THEN prRow.host # 0 /\ prSite[prRow.id].host = prRow.host
             ELSE Unnamed(prRow.id)'
        BY <1>2 DEF World, HostOfRow, Unnamed
    <2>3. (\E g \in Client : prOp'[g].at = "unrow") => box' = {}
        BY DEF World, HostOfRow
    <2> QED
        BY <1>1, <2>1, <2>2, <2>3 DEF HostOfRow, Unnamed
<1>4. ASSUME NEW k \in PR!Job PROVE RunAt(k)'
    <2>1. CASE job'[k].at \in {"none", "asked", "start", "done"}
        BY <2>1 DEF RunAt
    <2>2. CASE /\ job'[k].at = job[k].at /\ job'[k].id = job[k].id /\ job'[k].slot = job[k].slot
               /\ job'[k].host = job[k].host
        BY <2>2 DEF World, RunAt, PR!NextSlot, PR!NextBox, Remembers
    <2> QED
        BY <2>1, <2>2
<1>5. ServedRow'
    BY <1>1 DEF World, ServedRow, BehindItsHost, Remembers
<1> QED
    BY <1>2, <1>3, <1>4, <1>5 DEF World

LEMMA PlayKept ==
    ASSUME \A k \in PR!Job : Live(k)' => Live(k) /\ job'[k].gen = job[k].gen,
           \A g \in Client : Waiting(g)' => Waiting(g) /\ SameOp(g)
    PROVE  \A k \in PR!Job, n \in Nat : InPlay(k, n)' => InPlay(k, n)
BY DEF InPlay, SameOp

LEMMA Ranges ==
    ASSUME PR!PreviewAssumption, PreviewTypes, Numbered
    PROVE  /\ prRow \in RowRecord /\ prRow.gen \in Nat /\ prRow.id \in 0..MaxJobs
           /\ epoch \in PR!Epoch /\ lastId \in 0..MaxJobs
           /\ prOp \in [Client -> OpRecord] /\ job \in [PR!Job -> JobRecord]
           /\ jobs \in [PR!Id -> 0..MaxJobs]
           /\ \A g \in Client : /\ prOp[g] \in OpRecord /\ prOp[g].gen \in Nat
                 /\ prOp[g].lock \in PR!Epoch
                                /\ prOp[g].id \in 0..MaxJobs /\ prOp[g].job \in 0..MaxJobs
                                /\ prOp[g].old \in 0..MaxJobs
           /\ \A j \in PR!Job : job[j] \in JobRecord /\ job[j].gen \in Nat
                 /\ job[j].id \in 0..MaxJobs
<1>1. /\ prRow \in RowRecord /\ prOp \in [Client -> OpRecord] /\ job \in [PR!Job -> JobRecord]
      /\ jobs \in [PR!Id -> 0..MaxJobs]
    BY DEF PreviewTypes
<1>2. prRow.gen \in Nat /\ prRow.id \in 0..MaxJobs
    BY <1>1 DEF RowRecord
<1>3. epoch \in PR!Epoch /\ lastId \in 0..MaxJobs
    BY <1>2, PreviewLimits DEF Numbered, PR!Epoch
<1>4. \A g \in Client : /\ prOp[g] \in OpRecord /\ prOp[g].gen \in Nat /\ prOp[g].lock \in PR!Epoch
                        /\ prOp[g].id \in 0..MaxJobs /\ prOp[g].job \in 0..MaxJobs
                        /\ prOp[g].old \in 0..MaxJobs
    BY <1>1 DEF OpRecord
<1>5. \A j \in PR!Job : job[j] \in JobRecord /\ job[j].gen \in Nat /\ job[j].id \in 0..MaxJobs
    BY <1>1 DEF JobRecord
<1> QED
    BY <1>1, <1>2, <1>3, <1>4, <1>5

(* Who takes the mutex unsplit takes it from nobody. *)
LEMMA NobodyElse ==
    ASSUME PR!PreviewAssumption, PreviewTypes, Numbered, Exclusive, NEW g \in Client, PR!Enter(g),
           ~split'
    PROVE  /\ \A h \in Client : ~Holding(h)
           /\ \A e \in PR!Epoch : holder[e] = PR!Nobody
<1>1. \A e \in PR!Epoch : holder[e] = PR!Nobody
    BY DEF PR!Enter
<1> QED
    BY <1>1, Ranges, PreviewLimits DEF Exclusive

LEMMA Cancels ==
    ASSUME PR!PreviewAssumption, PreviewTypes, NEW i \in 0..MaxJobs, PR!Cancel(i)
    PROVE  /\ job' \in [PR!Job -> JobRecord]
           /\ \A k \in PR!Job : k # i => job'[k] = job[k]
           /\ i # 0 => /\ job'[i].at = job[i].at /\ job'[i].id = job[i].id
                       /\ job'[i].gen = job[i].gen /\ job'[i].slot = job[i].slot
                       /\ job'[i].host = job[i].host
<1>1. job \in [PR!Job -> JobRecord]
    BY DEF PreviewTypes
<1>2. CASE i = 0
    BY <1>1, <1>2 DEF PR!Cancel
<1>3. CASE i # 0
    <2> DEFINE to == [job[i] EXCEPT !.cancelled = TRUE]
    <2>1. i \in PR!Job /\ job[i] \in JobRecord /\ job' = [job EXCEPT ![i] = to]
        BY <1>1, <1>3, PreviewLimits DEF PR!Cancel
    <2>2. /\ to \in JobRecord /\ to.at = job[i].at /\ to.id = job[i].id /\ to.gen = job[i].gen
          /\ to.slot = job[i].slot /\ to.host = job[i].host
        BY <2>1 DEF JobRecord
    <2> HIDE DEF to
    <2>3. job' \in [PR!Job -> JobRecord] /\ job'[i] = to
             /\ \A k \in PR!Job : k # i => job'[k] = job[k]
        BY <1>1, <2>1, <2>2, JobMoves
    <2> QED
        BY <2>2, <2>3
<1> QED
    BY <1>2, <1>3

-----------------------------------------------------------------------------
(* The steps of the requests, one by one. *)

LEMMA CreateKeeps ==
    ASSUME PR!PreviewAssumption, PreviewInv, Remembers, NEW g \in Client, PR!CreatePreview(g)
    PROVE  PreviewInv'
<1> USE DEF PreviewInv
<1>1. PICK j \in PR!Job :
         /\ job[j] = PR!NoJob /\ job' = [job EXCEPT ![j].at = "asked"]
         /\ prOp' = [prOp EXCEPT ![g] = [PR!NoOp EXCEPT !.at = "lock", !.job = j, !.lock = epoch]]
    BY DEF PR!CreatePreview
<1>2. /\ prOp[g].at = "idle"
      /\ UNCHANGED <<prRow, lastId, box, prSite, lastHost, jobs, epoch, holder, split, partial,
         overran>>
      /\ UNCHANGED jobs
    BY DEF PR!CreatePreview, PR!outside, PR!locks
<1> DEFINE to == [PR!NoOp EXCEPT !.at = "lock", !.job = j, !.lock = epoch]
           queued == [job[j] EXCEPT !.at = "asked"]
<1>3. /\ to \in OpRecord /\ to.at = "lock" /\ to.job = j /\ to.old = 0 /\ to.id = 0 /\ ~to.errs
    <2>1. epoch \in PR!Epoch /\ j \in 0..MaxJobs /\ "lock" \in OpStage
        BY Ranges, PreviewLimits DEF OpStage
    <2>2. PR!NoOp \in OpRecord /\ PR!NoOp.old = 0 /\ PR!NoOp.id = 0 /\ ~PR!NoOp.errs
        BY Blank
    <2> QED
        BY <2>1, <2>2 DEF OpRecord
<1>4. /\ queued \in JobRecord /\ queued.at = "asked" /\ ~queued.cancelled
    <2>1. job[j] \in JobRecord /\ ~job[j].cancelled /\ "asked" \in Stage
        BY <1>1, Blank DEF Stage
    <2> QED
        BY <2>1, JobAt
<1>5. prOp' = [prOp EXCEPT ![g] = to] /\ job' = [job EXCEPT ![j] = queued]
    BY <1>1
<1> HIDE DEF to, queued
<1>6. prOp' \in [Client -> OpRecord] /\ prOp'[g] = to /\ Others(g)
    BY <1>3, <1>5, Ranges, OpMoves DEF Others
<1>7. job' \in [PR!Job -> JobRecord] /\ job'[j] = queued
         /\ \A k \in PR!Job : k # j => job'[k] = job[k]
    BY <1>4, <1>5, Ranges, JobMoves
<1>8. job[j].at = "none" /\ ~Live(j) /\ ~Live(j)'
    BY <1>1, <1>4, <1>7, Blank DEF Live
<1>9. PreviewTypes'
    BY <1>2, <1>6, <1>7 DEF PreviewTypes
<1>10. \A k \in PR!Job : (Live(k)' <=> Live(k)) /\ (Live(k) => job'[k] = job[k])
    BY <1>7, <1>8 DEF Live
<1>11. Numbered'
    <2>1. \A h \in Client : prOp'[h].id = prOp[h].id \/ prOp'[h].id \in {0, prRow.id}
        BY <1>3, <1>6 DEF Others
    <2>2. \A h \in Client : prOp'[h].at \notin {"idle", "lock"} => prOp'[h].id # 0
        BY <1>3, <1>6 DEF Others, Numbered
    <2>3. \A h \in Client : prOp'[h].at = "lock" =>
              \/ prOp[h].at = "lock" /\ prOp'[h].job = prOp[h].job
              \/ job[prOp'[h].job].at = "none"
        BY <1>3, <1>6, <1>8 DEF Others
    <2>4. \A k \in PR!Job : Live(k)' => job'[k].id # 0
        BY <1>10 DEF Numbered
    <2>5. \A k \in PR!Job : job[k].at # "none" => job'[k].at # "none"
        BY <1>7, <1>8
    <2> QED
        BY <1>2, <1>9, <2>1, <2>2, <2>3, <2>4, <2>5, NumberedKept
<1>12. AskedOnce'
    <2>1. \A h \in Client : Creating(h) => h # g /\ prOp[h].job # j
        BY <1>2, <1>8 DEF Creating, AskedOnce
    <2>2. \A h \in Client : Creating(h)' => h = g \/ (Creating(h) /\ prOp'[h] = prOp[h])
        BY <1>6 DEF Creating, Others
    <2>3. \A h \in Client : Creating(h)' => prOp'[h].job # 0 /\ job'[prOp'[h].job].at = "asked"
        <3>1. \A h \in Client : Creating(h)
                 => prOp[h].job \in PR!Job /\ job[prOp[h].job].at = "asked"
            BY Ranges, PreviewLimits DEF AskedOnce
        <3> QED
            BY <1>3, <1>4, <1>6, <1>7, <2>1, <2>2, <3>1, PreviewLimits
    <2>4. \A h, i \in Client : Creating(h)' /\ Creating(i)' /\ prOp'[h].job = prOp'[i].job => h = i
        BY <1>3, <1>6, <2>1, <2>2 DEF AskedOnce
    <2>5. ASSUME NEW k \in PR!Job,
                 job'[k].at = "none"
                    \/ (\E h \in Client : prOp'[h].at \in {"lock", "install"} /\ prOp'[h].job = k)
          PROVE  /\ ~job'[k].cancelled
                 /\ \A i \in PR!Id : jobs'[i] # k
                 /\ \A h \in Client : prOp'[h].old # k
        <3>1. job[k].at = "none"
                 \/ (\E h \in Client : prOp[h].at \in {"lock", "install"} /\ prOp[h].job = k)
            BY <1>3, <1>6, <1>7, <1>8, <2>5 DEF Others
        <3>2. /\ ~job[k].cancelled /\ (\A i \in PR!Id : jobs[i] # k)
                    /\ \A h \in Client : prOp[h].old # k
            BY <3>1 DEF AskedOnce
        <3> QED
            BY <1>2, <1>3, <1>4, <1>6, <1>7, <3>2, PreviewLimits DEF Others
    <2> QED
        BY <2>3, <2>4, <2>5 DEF AskedOnce
<1>13. PR!Calm' => Chain' /\ World'
    <2> SUFFICES ASSUME PR!Calm PROVE Chain' /\ World'
        BY <1>2 DEF PR!Calm
    <2>1. \A h \in Client : prOp'[h] = prOp[h]
             \/ (h = g /\ prOp'[h].at = "lock" /\ prOp[h].at = "idle")
        BY <1>2, <1>3, <1>6 DEF Others
    <2>2. \A h \in Client : prOp'[h].at \notin {"idle", "lock"}
             \/ prOp[h].at \notin {"idle", "lock"}
                               => prOp'[h] = prOp[h]
        BY <2>1
    <2>3. Exclusive'
        BY <1>2, <2>2 DEF Chain, Exclusive, Holding, Removing
    <2>4. \A k \in PR!Job, n \in Nat : InPlay(k, n) /\ job'[k].cancelled => n < prRow.gen
        BY <1>4, <1>7 DEF Chain, Cancelled
    <2>5. \A h \in Client : Removing(h)' => PR!Owns(h) /\ \A k \in PR!Job, n \in Nat : ~InPlay(k, n)
        BY <2>2 DEF Chain, Holds, Removing
    <2>6. Chain'
        BY <1>2, <1>10, <2>2, <2>3, <2>4, <2>5, ChainKept
           DEF Waiting, Deleting, Removing, SameOp
    <2>7. \A k \in PR!Job, n \in Nat : InPlay(k, n)' => InPlay(k, n)
        BY <1>10, <2>2, PlayKept DEF Waiting, SameOp
    <2>8. \A h \in Client : prOp'[h].at \in {"unbox", "unrow"} => prOp'[h].errs = prOp[h].errs
        BY <2>2
    <2>9. prRow'.status = "running" =>
              /\ \A k \in PR!Job, n \in Nat : ~InPlay(k, n)'
              /\ \A h \in Client : prOp'[h].at # "install"
        BY <1>2, <2>2, <2>7 DEF World, ServedRow
    <2>10. World'
        BY <1>2, <1>4, <1>7, <1>8, <2>2, <2>8, <2>9, WorldKept
    <2> QED
        BY <2>6, <2>10
<1> QED
    BY <1>9, <1>11, <1>12, <1>13

(* A request cancels the job before its own, or the one it deletes. *)
LEMMA CancelKeeps ==
    ASSUME PR!PreviewAssumption, PreviewInv, Remembers, NEW g \in Client, PR!CancelOld(g) \/ PR!StopJob(g)
    PROVE  PreviewInv'
<1> USE DEF PreviewInv
<1>1. PICK at \in OpStage :
         /\ (prOp[g].at = "cancel" /\ at = "drain") \/ (prOp[g].at = "stop" /\ at = "wait")
         /\ PR!Cancel(prOp[g].old) /\ PR!Goto(g, at)
    BY DEF PR!CancelOld, PR!StopJob, OpStage
<1>2. /\ UNCHANGED <<prRow, lastId, box, prSite, lastHost, jobs, epoch, holder, split, partial,
         overran>>
      /\ UNCHANGED jobs
    BY DEF PR!CancelOld, PR!StopJob, PR!outside, PR!locks
<1>3. /\ prOp' \in [Client -> OpRecord] /\ Others(g) /\ SameOp(g) /\ prOp'[g].at = at
      /\ prOp'[g].errs = prOp[g].errs
    BY <1>1, Goes
<1> DEFINE i == prOp[g].old
<1>4. /\ job' \in [PR!Job -> JobRecord] /\ (\A k \in PR!Job : k # i => job'[k] = job[k])
      /\ \A k \in PR!Job : /\ job'[k].at = job[k].at /\ job'[k].id = job[k].id
                           /\ job'[k].gen = job[k].gen /\ job'[k].slot = job[k].slot
                           /\ job'[k].host = job[k].host
    BY <1>1, Ranges, PreviewLimits, Cancels
<1> HIDE DEF i
<1>5. \A h \in Client : SameOp(h) /\ prOp'[h].errs = prOp[h].errs
    BY <1>3 DEF Others, SameOp
<1>6. \A h \in Client : /\ Waiting(h)' <=> Waiting(h)
                        /\ Deleting(h)' <=> Deleting(h)
                        /\ Creating(h)' <=> Creating(h)
                        /\ prOp'[h].at \notin {"drain", "wait", "cancel", "stop"}
                           \/ prOp[h].at \notin {"drain", "wait", "cancel", "stop"}
                                 => prOp'[h] = prOp[h]
    BY <1>1, <1>3 DEF Others, Waiting, Deleting, Creating
<1>7. PreviewTypes'
    BY <1>2, <1>3, <1>4 DEF PreviewTypes
<1>8. \A k \in PR!Job : (Live(k)' <=> Live(k)) /\ job'[k].id = job[k].id /\ job'[k].gen = job[k].gen
    BY <1>4 DEF Live
<1>9. Numbered'
    <2>1. \A h \in Client : prOp'[h].at \notin {"idle", "lock"} => prOp'[h].id # 0
        BY <1>1, <1>3, <1>5 DEF Others, SameOp, Numbered
    <2>2. \A h \in Client : prOp'[h].id = prOp[h].id
        BY <1>5 DEF SameOp
    <2>3. \A h \in Client : prOp'[h].at = "lock"
             => prOp[h].at = "lock" /\ prOp'[h].job = prOp[h].job
        BY <1>6
    <2>4. \A k \in PR!Job : Live(k)' => job'[k].id # 0
        BY <1>8 DEF Numbered
    <2> QED
        BY <1>2, <1>4, <1>7, <2>1, <2>2, <2>3, <2>4, NumberedKept
<1>10. AskedOnce'
    <2>1. \A h \in Client : Creating(h)' => Creating(h) /\ prOp'[h].job = prOp[h].job
        BY <1>5, <1>6 DEF SameOp
    <2>2. \A h \in Client : prOp'[h].at \in {"lock", "install"}
             => prOp[h].at \in {"lock", "install"}
        BY <1>6
    <2>3. \A h \in Client : Creating(h)' => job'[prOp'[h].job].at = "asked"
        <3>1. \A h \in Client : Creating(h)
                 => prOp[h].job \in PR!Job /\ job[prOp[h].job].at = "asked"
            BY Ranges, PreviewLimits DEF AskedOnce
        <3> QED
            BY <1>4, <2>1, <3>1
    <2>4. \A k \in PR!Job : job'[k].cancelled
             => job[k].cancelled \/ \E h \in Client : prOp[h].old = k
        BY <1>4 DEF i
    <2>5. \A h \in Client : prOp'[h].old = prOp[h].old
        BY <1>5 DEF SameOp
    <2> QED
        BY <1>2, <1>4, <2>1, <2>2, <2>3, <2>4, <2>5, AskedKept
<1>11. PR!Calm' => Chain' /\ World'
    <2> SUFFICES ASSUME PR!Calm PROVE Chain' /\ World'
        BY <1>2 DEF PR!Calm
    <2>1. Exclusive'
        BY <1>2, <1>5, <1>6 DEF Chain, Exclusive, Holding, Removing, SameOp
    <2>2. ASSUME NEW k \in PR!Job, NEW n \in Nat, InPlay(k, n), job'[k].cancelled
          PROVE  n < prRow.gen
        <3>1. CASE job[k].cancelled
            BY <2>2, <3>1 DEF Chain, Cancelled
        <3>2. CASE k = i /\ prOp[g].at = "cancel"
            <4>1. n < prOp[g].gen
                BY <2>2, <3>2 DEF Chain, Cancelled, Waiting, i
            <4>2. prOp[g].job \in PR!Job /\ prOp[g].gen \in Nat /\ prRow.gen \in Nat
                BY <3>2, Ranges, PreviewLimits DEF AskedOnce, Creating
            <4>3. InPlay(prOp[g].job, prOp[g].gen)
                BY <3>2, <4>2 DEF InPlay, Waiting
            <4>4. prOp[g].gen <= prRow.gen
                BY <4>2, <4>3 DEF Chain, OfTheRow
            <4> QED
                BY <4>1, <4>2, <4>4
        <3>3. CASE k = i /\ prOp[g].at = "stop"
            BY <2>2, <3>3 DEF Chain, Cancelled, Deleting, i
        <3> QED
            BY <1>1, <1>4, <2>2, <3>1, <3>2, <3>3
    <2>3. \A h \in Client : Removing(h)' => PR!Owns(h) /\ \A k \in PR!Job, n \in Nat : ~InPlay(k, n)
        BY <1>6 DEF Chain, Holds, Removing
    <2>4. \A h \in Client : prOp'[h].at = "install" <=> prOp[h].at = "install"
        BY <1>6
    <2>5. \A h \in Client : Removing(h) <=> Removing(h)'
        BY <1>6 DEF Removing
    <2>6. Chain'
        BY <1>2, <1>5, <1>6, <1>8, <2>1, <2>2, <2>3, <2>4, <2>5, ChainKept
    <2>7. \A k \in PR!Job, n \in Nat : InPlay(k, n)' => InPlay(k, n)
        BY <1>5, <1>6, <1>8, PlayKept
    <2>8. \A h \in Client : prOp'[h].at \in {"unbox", "unrow"} => prOp'[h].errs = prOp[h].errs
        BY <1>5
    <2>9. prRow'.status = "running" =>
              /\ \A k \in PR!Job, n \in Nat : ~InPlay(k, n)'
              /\ \A h \in Client : prOp'[h].at # "install"
        BY <1>2, <2>4, <2>7 DEF World, ServedRow
    <2>10. World'
        BY <1>2, <1>4, <1>6, <2>8, <2>9, WorldKept
    <2> QED
        BY <2>6, <2>10
<1> QED
    BY <1>7, <1>9, <1>10, <1>11

(* A request to delete begins, with the id of the row.  *)
LEMMA DeleteBegins ==
    ASSUME PR!PreviewAssumption, PreviewInv, NEW g \in Client, PR!DeletePreview(g)
    PROVE  /\ prOp' \in [Client -> OpRecord] /\ Others(g)
           /\ prOp'[g].at = "bump" /\ prOp'[g].id = prRow.id /\ prOp'[g].old = 0 /\ ~prOp'[g].errs
           /\ prOp[g].at = "idle" /\ prRow.id # 0
           /\ UNCHANGED <<prRow, lastId, box, prSite, lastHost, job, epoch, holder, split, partial,
              overran>>
           /\ UNCHANGED jobs
<1> DEFINE to == [PR!NoOp EXCEPT !.at = "bump", !.id = prRow.id, !.lock = epoch]
<1>1. /\ prOp' = [prOp EXCEPT ![g] = to] /\ prOp[g].at = "idle" /\ prRow.id # 0
      /\ UNCHANGED <<prRow, lastId, box, prSite, lastHost, job, epoch, holder, split, partial,
         overran>>
      /\ UNCHANGED jobs
    BY DEF PR!DeletePreview, PR!outside, PR!locks
<1>2. PreviewTypes /\ Numbered
    BY DEF PreviewInv
<1>3. epoch \in PR!Epoch /\ prRow.id \in 0..MaxJobs /\ "bump" \in OpStage
    BY <1>2, Ranges DEF OpStage
<1>4. PR!NoOp \in OpRecord /\ PR!NoOp.old = 0 /\ ~PR!NoOp.errs
    BY Blank
<1>5. to \in OpRecord /\ to.at = "bump" /\ to.id = prRow.id /\ to.old = 0 /\ ~to.errs
    BY <1>3, <1>4 DEF OpRecord
<1> HIDE DEF to
<1>6. prOp' \in [Client -> OpRecord] /\ prOp'[g] = to /\ Others(g)
    BY <1>1, <1>2, <1>5, Ranges, OpMoves DEF Others
<1> QED
    BY <1>1, <1>5, <1>6

LEMMA IdleKeeps ==
    ASSUME PR!PreviewAssumption, PreviewInv, Remembers, NEW g \in Client,
           prOp[g].at \in {"idle", "bump", "wait"},
           Deleting(g) => ~PR!Owns(g) \/ <<prRow.id, prRow.gen>> \in cut',
           prOp' \in [Client -> OpRecord], Others(g), prOp'[g].at \in {"idle", "bump"},
           prOp'[g].id \in {0, prRow.id}, prOp'[g].at = "bump"
              => prOp'[g].id # 0, prOp'[g].old = 0, ~prOp'[g].errs,
           UNCHANGED <<prRow, lastId, box, prSite, lastHost, job, epoch, holder, partial, overran>>,
           UNCHANGED jobs, split' \in BOOLEAN, split => split'
    PROVE  PreviewInv'
<1> USE DEF PreviewInv
<1>1. \A h \in Client : \/ prOp'[h] = prOp[h]
                        \/ h = g /\ prOp[h].at \in {"idle", "bump", "wait"}
                              /\ prOp'[h].at \in {"idle", "bump"}
    BY DEF Others
<1>2. \A h \in Client : prOp'[h].at \notin {"idle", "bump", "wait"}
         \/ prOp[h].at \notin {"idle", "bump", "wait"}
                           => prOp'[h] = prOp[h]
    BY <1>1
<1>3. PreviewTypes'
    BY DEF PreviewTypes
<1>4. \A k \in PR!Job : job'[k] = job[k] /\ (Live(k)' <=> Live(k))
    BY DEF Live
<1>5. Numbered'
    <2>1. \A h \in Client : prOp'[h].at \notin {"idle", "lock"} => prOp'[h].id # 0
        BY <1>1 DEF Numbered, Others
    <2>2. \A h \in Client : prOp'[h].id = prOp[h].id \/ prOp'[h].id \in {0, prRow.id}
        BY <1>1
    <2>3. \A h \in Client : prOp'[h].at = "lock"
             => prOp[h].at = "lock" /\ prOp'[h].job = prOp[h].job
        BY <1>2
    <2>4. \A k \in PR!Job : Live(k)' => job'[k].id # 0
        BY <1>4 DEF Numbered
    <2> QED
        BY <1>3, <1>4, <2>1, <2>2, <2>3, <2>4, NumberedKept
<1>6. AskedOnce'
    <2>1. \A h \in Client : Creating(h)' => Creating(h) /\ prOp'[h].job = prOp[h].job
        BY <1>2 DEF Creating
    <2>2. \A h \in Client : prOp'[h].at \in {"lock", "install"}
             => prOp[h].at \in {"lock", "install"}
        BY <1>2
    <2>3. \A h \in Client : Creating(h)' => job'[prOp'[h].job].at = "asked"
        BY <2>1 DEF AskedOnce
    <2>4. \A h \in Client : prOp'[h].old \in {0, prOp[h].old}
        BY <1>1
    <2> QED
        BY <1>4, <2>1, <2>2, <2>3, <2>4, AskedKept
<1>7. PR!Calm' => Chain' /\ World'
    <2> SUFFICES ASSUME PR!Calm PROVE Chain' /\ World'
        BY DEF PR!Calm
    <2>1. Exclusive'
        BY <1>2 DEF Chain, Exclusive, Holding, Removing
    <2>2. \A k \in PR!Job, n \in Nat : InPlay(k, n) /\ job'[k].cancelled => n < prRow.gen
        BY DEF Chain, Cancelled
    <2>3. \A h \in Client : Removing(h)'
             => prOp'[h] = prOp[h] /\ PR!Owns(h) /\ \A k \in PR!Job, n \in Nat : ~InPlay(k, n)
        BY <1>2 DEF Chain, Holds, Removing
    <2>4. \A h \in Client : (Deleting(h) \/ Removing(h)) /\ PR!Owns(h)
             => prOp'[h] = prOp[h] \/ <<prRow.id, prRow.gen>> \in cut'
        BY <1>1, <1>2 DEF Deleting, Removing
    <2>5. \A h \in Client : Deleting(h)' => prOp'[h] = prOp[h]
        BY <1>1 DEF Deleting
    <2>6. Chain'
        BY <1>2, <1>4, <2>1, <2>2, <2>3, <2>4, <2>5, ChainKept
           DEF Waiting, Deleting, Removing, SameOp
    <2>7. \A k \in PR!Job, n \in Nat : InPlay(k, n)' => InPlay(k, n)
        BY <1>2, <1>4, PlayKept DEF Waiting, SameOp
    <2>8. \A h \in Client : prOp'[h].at \in {"unbox", "unrow"} => prOp'[h].errs = prOp[h].errs
        BY <1>2
    <2>9. prRow'.status = "running" =>
              /\ \A k \in PR!Job, n \in Nat : ~InPlay(k, n)'
              /\ \A h \in Client : prOp'[h].at # "install"
        BY <1>2, <2>7 DEF World, ServedRow
    <2>10. World'
        BY <1>2, <1>4, <2>8, <2>9, WorldKept
    <2> QED
        BY <2>6, <2>10
<1> QED
    BY <1>3, <1>5, <1>6, <1>7

(* Bump and Verify of a row that is no longer the request's, or is not     *)
(* read.                                                                   *)
LEMMA OpEndsKeep ==
    ASSUME PR!PreviewAssumption, PreviewInv, Remembers, NEW g \in Client,
           prOp[g].at \in {"bump", "wait"}, PR!EndOp(g), PR!LockBriefly(g),
           ~PR!Owns(g) \/ prOp[g].at = "bump" \/ <<prRow.id, prRow.gen>> \in cut',
           UNCHANGED <<prRow, lastId, PR!outside, job, jobs, deletes, overran>>
    PROVE  PreviewInv'
<1>1. PreviewTypes
    BY DEF PreviewInv
<1>2. prOp' \in [Client -> OpRecord] /\ Others(g) /\ prOp'[g] = PR!NoOp
    BY <1>1, OpEnds
<1>3. /\ prOp'[g].at = "idle" /\ prOp'[g].id = 0 /\ prOp'[g].old = 0 /\ ~prOp'[g].errs
    BY <1>2, Blank
<1>4. /\ UNCHANGED <<prRow, lastId, box, prSite, lastHost, job, epoch, holder, partial, overran>>
      /\ UNCHANGED jobs
    BY DEF PR!outside, PR!LockBriefly, PR!Enter
<1>5. split' \in BOOLEAN /\ (split => split')
    BY <1>1 DEF PR!LockBriefly, PR!Enter, PreviewTypes
<1>6. Deleting(g) => ~PR!Owns(g) \/ <<prRow.id, prRow.gen>> \in cut'
    BY DEF Deleting
<1> QED
    BY <1>2, <1>3, <1>4, <1>5, <1>6, IdleKeeps

(* The request to delete finds the row as it left it and takes the mutex.  *)
LEMMA VerifyKeeps ==
    ASSUME PR!PreviewAssumption, PreviewInv, Remembers, NEW g \in Client, PR!Verify(g), PR!Owns(g), PR!Lock(g),
           PR!Goto(g, "unhost")
    PROVE  PreviewInv'
<1> USE DEF PreviewInv
<1>1. /\ prOp[g].at = "wait" /\ PR!Drained(prOp[g].old) /\ PR!Lock(g) /\ PR!Goto(g, "unhost")
      /\ UNCHANGED <<prRow, lastId, box, prSite, lastHost, job, epoch, partial, overran>>
      /\ UNCHANGED jobs
    BY DEF PR!Verify, PR!outside, PR!Lock, PR!Enter
<1>2. /\ prOp' \in [Client -> OpRecord] /\ Others(g) /\ SameOp(g) /\ prOp'[g].at = "unhost"
      /\ prOp'[g].errs = prOp[g].errs
    BY <1>1, Goes DEF OpStage
<1>3. \A h \in Client : prOp'[h] = prOp[h]
         \/ (h = g /\ SameOp(h) /\ prOp[h].at = "wait" /\ prOp'[h].at = "unhost")
    BY <1>1, <1>2 DEF Others
<1>4. \A h \in Client : SameOp(h) /\ prOp'[h].errs = prOp[h].errs
    BY <1>2, <1>3 DEF SameOp
<1>5. \A h \in Client : prOp'[h].at \notin {"unhost", "wait"}
         \/ prOp[h].at \notin {"unhost", "wait"}
                           => prOp'[h] = prOp[h]
    BY <1>3
<1>6. prOp[g].lock \in PR!Epoch /\ holder' = [holder EXCEPT ![prOp[g].lock] = g]
         /\ split' \in BOOLEAN
      /\ (split => split')
    BY <1>1, Ranges DEF PR!Lock, PR!Enter, PreviewTypes
<1>7. PreviewTypes'
    BY <1>1, <1>2, <1>6 DEF PreviewTypes
<1>8. \A k \in PR!Job : job'[k] = job[k] /\ (Live(k)' <=> Live(k))
    BY <1>1 DEF Live
<1>9. Numbered'
    <2>1. \A h \in Client : prOp'[h].at \notin {"idle", "lock"} => prOp'[h].id # 0
        BY <1>3 DEF Numbered, SameOp
    <2>2. \A h \in Client : prOp'[h].id = prOp[h].id
        BY <1>4 DEF SameOp
    <2>3. \A h \in Client : prOp'[h].at = "lock"
             => prOp[h].at = "lock" /\ prOp'[h].job = prOp[h].job
        BY <1>5
    <2>4. \A k \in PR!Job : Live(k)' => job'[k].id # 0
        BY <1>8 DEF Numbered
    <2> QED
        BY <1>1, <1>7, <1>8, <2>1, <2>2, <2>3, <2>4, NumberedKept
<1>10. AskedOnce'
    <2>1. \A h \in Client : Creating(h)' => Creating(h) /\ prOp'[h].job = prOp[h].job
        BY <1>5 DEF Creating
    <2>2. \A h \in Client : prOp'[h].at \in {"lock", "install"}
             => prOp[h].at \in {"lock", "install"}
        BY <1>5
    <2>3. \A h \in Client : Creating(h)' => job'[prOp'[h].job].at = "asked"
        BY <1>1, <2>1 DEF AskedOnce
    <2>4. \A h \in Client : prOp'[h].old = prOp[h].old
        BY <1>4 DEF SameOp
    <2> QED
        BY <1>1, <1>8, <2>1, <2>2, <2>3, <2>4, AskedKept
<1>11. PR!Calm' => Chain' /\ World'
    <2> SUFFICES ASSUME PR!Calm, ~split' PROVE Chain' /\ World'
        BY <1>1, <1>6 DEF PR!Calm
    <2>1. \A h \in Client : ~Holding(h)
        BY <1>1, NobodyElse DEF Chain, PR!Lock
    <2>2. \A h \in Client : Holding(h)' => h = g
        BY <1>3, <2>1 DEF Holding, Removing
    <2>3. Exclusive'
        BY <1>2, <1>6, <2>2 DEF Exclusive, SameOp, PreviewTypes
    <2>4. ASSUME NEW k \in PR!Job, NEW n \in Nat PROVE ~InPlay(k, n)
        <3> SUFFICES ASSUME InPlay(k, n) PROVE FALSE
            OBVIOUS
        <3>1. PICK i \in PR!Job : prOp[g].old = i /\ UpTo(i, n)
            BY <1>1 DEF Chain, Queue, Deleting
        <3>2. job[i].at = "done"
            BY <1>1, <3>1 DEF PR!Drained
        <3>3. PICK m \in Nat : InPlay(i, m)
            BY <3>1 DEF UpTo
        <3>4. PICK h \in Client : Waiting(h) /\ prOp[h].job = i
            BY <3>2, <3>3 DEF InPlay, Live
        <3> QED
            BY <3>2, <3>4 DEF AskedOnce, Creating, Waiting
    <2>5. \A k \in PR!Job, n \in Nat : InPlay(k, n) /\ job'[k].cancelled => n < prRow.gen
        BY <2>4
    <2>6. \A h \in Client : Removing(h)' => h = g /\ SameOp(h) /\ PR!Owns(h)
        BY <1>2, <2>2 DEF Holding
    <2>7. \A h \in Client : Deleting(h)' => prOp'[h] = prOp[h]
        BY <1>3 DEF Deleting
    <2>8. \A h \in Client : (Deleting(h) \/ Removing(h)) /\ PR!Owns(h) =>
              (Deleting(h) \/ Removing(h))' /\ SameOp(h)
        BY <1>3, <1>4 DEF Deleting, Removing
    <2>9. Chain'
        BY <1>1, <1>4, <1>5, <1>8, <2>3, <2>4, <2>5, <2>6, <2>7, <2>8, ChainKept
           DEF Waiting, Deleting
    <2>10. \A k \in PR!Job, n \in Nat : InPlay(k, n)' => InPlay(k, n)
        BY <1>4, <1>5, <1>8, PlayKept DEF Waiting
    <2>11. \A h \in Client : prOp'[h].at \in {"unbox", "unrow"} => prOp'[h].errs = prOp[h].errs
        BY <1>4
    <2>12. prRow'.status = "running" =>
              /\ \A k \in PR!Job, n \in Nat : ~InPlay(k, n)'
              /\ \A h \in Client : prOp'[h].at # "install"
        BY <1>1, <1>5, <2>10 DEF World, ServedRow
    <2>13. World'
        BY <1>1, <1>5, <1>8, <2>11, <2>12, WorldKept
    <2> QED
        BY <2>9, <2>13
<1> QED
    BY <1>7, <1>9, <1>10, <1>11

(* The request that removes the preview goes on.  *)
LEMMA RemovalKeeps ==
    ASSUME PR!PreviewAssumption, PreviewInv, Remembers, NEW g \in Client, Removing(g), Removing(g)',
           prOp' \in [Client -> OpRecord], Others(g), SameOp(g),
           UNCHANGED <<prRow, lastId, lastHost, job, epoch, holder, split, overran>>,
           UNCHANGED jobs,
           box' \subseteq box, prSite' \in [PR!Id -> SiteRecord],
           partial' \in BOOLEAN, partial => partial',
           PR!Calm' /\ Chain /\ World =>
              /\ prOp'[g].at \in {"unbox", "unrow"}
              /\ IF prOp'[g].errs THEN prRow.host # 0 /\ prSite'[prRow.id].host = prRow.host
                 ELSE Unnamed(prRow.id)'
              /\ \A i \in PR!Id : i # prRow.id => prSite'[i] = prSite[i]
              /\ prOp'[g].at = "unrow" => box' = {}
    PROVE  PreviewInv'
<1> USE DEF PreviewInv
<1>1. \A h \in Client : prOp'[h] = prOp[h] \/ (h = g /\ Removing(h) /\ Removing(h)')
    BY DEF Others
<1>2. \A h \in Client : prOp'[h].at \notin {"unhost", "unbox", "unrow"}
                        \/ prOp[h].at \notin {"unhost", "unbox", "unrow"} => prOp'[h] = prOp[h]
    BY <1>1 DEF Removing
<1>3. PreviewTypes'
    BY DEF PreviewTypes
<1>4. \A k \in PR!Job : job'[k] = job[k] /\ (Live(k)' <=> Live(k))
    BY DEF Live
<1>5. \A h \in Client : SameOp(h)
    BY <1>1 DEF SameOp
<1>6. Numbered'
    <2>1. \A h \in Client : prOp'[h].at \notin {"idle", "lock"} => prOp'[h].id # 0
        BY <1>1, <1>5 DEF Numbered, SameOp, Removing
    <2>2. \A h \in Client : prOp'[h].id = prOp[h].id
        BY <1>5 DEF SameOp
    <2>3. \A h \in Client : prOp'[h].at = "lock"
             => prOp[h].at = "lock" /\ prOp'[h].job = prOp[h].job
        BY <1>2
    <2>4. \A k \in PR!Job : Live(k)' => job'[k].id # 0
        BY <1>4 DEF Numbered
    <2> QED
        BY <1>3, <1>4, <2>1, <2>2, <2>3, <2>4, NumberedKept
<1>7. AskedOnce'
    <2>1. \A h \in Client : Creating(h)' => Creating(h) /\ prOp'[h].job = prOp[h].job
        BY <1>2 DEF Creating
    <2>2. \A h \in Client : prOp'[h].at \in {"lock", "install"}
             => prOp[h].at \in {"lock", "install"}
        BY <1>2
    <2>3. \A h \in Client : Creating(h)' => job'[prOp'[h].job].at = "asked"
        BY <2>1 DEF AskedOnce
    <2>4. \A h \in Client : prOp'[h].old = prOp[h].old
        BY <1>5 DEF SameOp
    <2> QED
        BY <1>4, <2>1, <2>2, <2>3, <2>4, AskedKept
<1>8. PR!Calm' => Chain' /\ World'
    <2> SUFFICES ASSUME PR!Calm' PROVE Chain' /\ World'
        OBVIOUS
    <2>1. Chain /\ World
        BY DEF PR!Calm, PreviewTypes
    <2>2. \A h \in Client : (Removing(h) <=> Removing(h)') /\ (Holding(h) <=> Holding(h)')
        BY <1>1 DEF Removing, Holding
    <2>3. Exclusive'
        BY <1>5, <2>1, <2>2 DEF Chain, Exclusive, SameOp
    <2>4. PR!Owns(g) /\ \A k \in PR!Job, n \in Nat : ~InPlay(k, n)
        BY <2>1 DEF Chain, Holds
    <2>5. \A h \in Client : Removing(h)' => PR!Owns(h) /\ SameOp(h)
        BY <1>5, <2>1, <2>2 DEF Chain, Holds
    <2>6. Chain'
        BY <1>2, <1>4, <1>5, <2>1, <2>2, <2>3, <2>4, <2>5, ChainKept DEF Waiting, Deleting
    <2>7. \A k \in PR!Job, n \in Nat : ~InPlay(k, n)'
        BY <1>2, <1>4, <1>5, <2>4, PlayKept DEF Waiting
    <2>8. \A h \in Client : h # g => ~Holding(h)
        BY <2>1 DEF Chain, Exclusive, Holding
    <2>9. /\ prOp'[g].at \in {"unbox", "unrow"}
          /\ IF prOp'[g].errs THEN prRow.host # 0 /\ prSite'[prRow.id].host = prRow.host
             ELSE Unnamed(prRow.id)'
          /\ \A i \in PR!Id : i # prRow.id => prSite'[i] = prSite[i]
          /\ prOp'[g].at = "unrow" => box' = {}
        BY <2>1
    <2>10. \A k \in PR!Job : ~Live(k)'
        <3>1. \A k \in PR!Job : job[k].gen \in Nat
            BY Ranges
        <3> QED
            BY <1>4, <2>4, <3>1 DEF InPlay
    <2>11. NothingElse'
        BY <2>1, <2>9 DEF World, NothingElse, Unnamed, Remembers
    <2>12. HostOfRow'
        <3>1. \A h \in Client : prOp'[h].at \in {"unbox", "unrow"} => h = g
            BY <1>1, <2>8 DEF Holding, Removing
        <3>2. ~Standing'
            BY <2>9 DEF Standing
        <3> QED
            BY <2>9, <3>1, <3>2 DEF HostOfRow, Unnamed
    <2>13. \A k \in PR!Job : RunAt(k)'
        BY <2>10 DEF RunAt, Live
    <2>14. ServedRow'
        BY <2>7, <2>8, <2>9 DEF ServedRow, Standing, Holding, Others
    <2> QED
        BY <2>6, <2>11, <2>12, <2>13, <2>14 DEF World
<1> QED
    BY <1>3, <1>6, <1>7, <1>8

LEMMA DeleteHostKeeps ==
    ASSUME PR!PreviewAssumption, PreviewInv, Remembers, NEW g \in Client, PR!DeleteHost(g)
    PROVE  PreviewInv'
<1> USE DEF PreviewInv
<1>1. /\ prOp[g].at = "unhost"
      /\ UNCHANGED <<prRow, lastId, lastHost, job, epoch, holder, split, overran>> /\ UNCHANGED jobs
      /\ UNCHANGED box
    BY DEF PR!DeleteHost
<1>2. /\ prOp[g] \in OpRecord /\ prOp \in [Client -> OpRecord] /\ "unbox" \in OpStage
      /\ prOp[g].id \in PR!Id /\ prSite \in [PR!Id -> SiteRecord] /\ PR!NoSite \in SiteRecord
      /\ partial \in BOOLEAN
    BY <1>1, Ranges, PreviewLimits, Blank DEF Numbered, OpStage, PreviewTypes
<1>3. PICK failed \in BOOLEAN, gone \in BOOLEAN :
         /\ IF prRow.host = 0 THEN ~failed /\ ~gone
            ELSE (gone => prSite[prOp[g].id].host = prRow.host) /\ (failed \/ gone)
         /\ prSite' = IF gone THEN [prSite EXCEPT ![prOp[g].id] = PR!NoSite] ELSE prSite
         /\ prOp' = [prOp EXCEPT ![g] = [@ EXCEPT !.at = "unbox", !.errs = failed]]
         /\ partial' = (partial \/ (failed /\ gone))
    BY DEF PR!DeleteHost
<1> DEFINE to == [prOp[g] EXCEPT !.at = "unbox", !.errs = failed]
<1>4. prOp' = [prOp EXCEPT ![g] = to]
    BY <1>3
<1>5. /\ to \in OpRecord /\ to.at = "unbox" /\ to.job = prOp[g].job /\ to.old = prOp[g].old
      /\ to.id = prOp[g].id /\ to.gen = prOp[g].gen /\ to.lock = prOp[g].lock
      /\ to.errs = failed
    BY <1>2 DEF OpRecord
<1> HIDE DEF to
<1>6. prOp' \in [Client -> OpRecord] /\ prOp'[g] = to
         /\ \A h \in Client : h # g => prOp'[h] = prOp[h]
    BY <1>2, <1>4, <1>5, OpMoves
<1>7. /\ prOp' \in [Client -> OpRecord] /\ Others(g) /\ SameOp(g)
      /\ prOp'[g].at = "unbox" /\ prOp'[g].errs = failed
    BY <1>5, <1>6 DEF Others, SameOp
<1>8. ASSUME PR!Calm', Chain, World
      PROVE  /\ IF failed THEN prRow.host # 0 /\ prSite'[prRow.id].host = prRow.host
                ELSE Unnamed(prRow.id)'
             /\ \A i \in PR!Id : i # prRow.id => prSite'[i] = prSite[i]
    <2>1. prOp[g].id = prRow.id /\ \A k \in PR!Job, n \in Nat : ~InPlay(k, n)
        BY <1>1, <1>8 DEF Chain, Holds, Removing, PR!Owns
    <2>2. \A h \in Client : h # g => ~Holding(h)
        BY <1>1, <1>8 DEF Chain, Exclusive, Holding, Removing
    <2>3. Standing
        BY <1>1, <2>2 DEF Standing, Holding, Removing
    <2>4. \A k \in PR!Job : job[k].at # "claim"
        BY <2>1, Ranges DEF InPlay, Live
    <2>5. /\ prRow.host # 0 => prSite[prRow.id].host = prRow.host
          /\ prRow.host = 0 => Unnamed(prRow.id)
        BY <1>2, <1>8, <2>1, <2>3, <2>4, PreviewLimits DEF World, HostOfRow
    <2>6. ~(failed /\ gone)
        BY <1>3, <1>8 DEF PR!Calm
    <2>7. CASE gone
        <3>1. prSite' = [prSite EXCEPT ![prRow.id] = PR!NoSite] /\ ~failed
            BY <1>3, <2>1, <2>6, <2>7
        <3> QED
            BY <1>1, <1>2, <2>1, <3>1 DEF Unnamed
    <2>8. CASE ~gone
        <3>1. prSite' = prSite /\ (failed <=> prRow.host # 0)
            BY <1>3, <2>8
        <3> QED
            BY <1>1, <2>5, <3>1 DEF Unnamed, Remembers
    <2> QED
        BY <2>7, <2>8
<1>9. Removing(g) /\ Removing(g)' /\ box' \subseteq box
    BY <1>1, <1>7 DEF Removing
<1>10. prSite' \in [PR!Id -> SiteRecord]
    BY <1>2, <1>3
<1>11. partial' \in BOOLEAN /\ (partial => partial')
    BY <1>2, <1>3
<1> QED
    BY <1>1, <1>7, <1>8, <1>9, <1>10, <1>11, RemovalKeeps

LEMMA RemoveBoxesKeeps ==
    ASSUME PR!PreviewAssumption, PreviewInv, Remembers, NEW g \in Client, PR!RemoveBoxes(g)
    PROVE  PreviewInv'
<1> USE DEF PreviewInv
<1>1. /\ prOp[g].at = "unbox"
      /\ UNCHANGED <<prRow, lastId, lastHost, job, epoch, holder, split, overran>>
      /\ UNCHANGED jobs /\ UNCHANGED prSite
    BY DEF PR!RemoveBoxes
<1>2. prOp[g] \in OpRecord /\ prOp \in [Client -> OpRecord] /\ "unrow" \in OpStage
         /\ partial \in BOOLEAN
    BY Ranges DEF OpStage, PreviewTypes
<1>3. CASE box' = {b \in box : b[1] # prOp[g].id} /\ PR!Goto(g, "unrow") /\ UNCHANGED partial
    <2>1. /\ prOp' \in [Client -> OpRecord] /\ Others(g) /\ SameOp(g) /\ prOp'[g].at = "unrow"
          /\ prOp'[g].errs = prOp[g].errs
        BY <1>2, <1>3, Goes
    <2>2. ASSUME Chain, World
          PROVE  /\ IF prOp'[g].errs THEN prRow.host # 0 /\ prSite'[prRow.id].host = prRow.host
                    ELSE Unnamed(prRow.id)'
                 /\ box' = {}
        <3>1. prOp[g].id = prRow.id
            BY <1>1, <2>2 DEF Chain, Holds, Removing, PR!Owns
        <3>2. box' = {}
            BY <1>3, <2>2, <3>1 DEF World, NothingElse
        <3>3. IF prOp[g].errs THEN prRow.host # 0 /\ prSite[prRow.id].host = prRow.host
              ELSE Unnamed(prRow.id)
            BY <1>1, <2>2 DEF World, HostOfRow
        <3> QED
            BY <1>1, <2>1, <3>2, <3>3 DEF Unnamed, Remembers
    <2>3. Removing(g) /\ Removing(g)' /\ prSite' \in [PR!Id -> SiteRecord] /\ box' \subseteq box
        BY <1>1, <1>3, <2>1 DEF Removing, PreviewTypes
    <2> QED
        BY <1>1, <1>2, <1>3, <2>1, <2>2, <2>3, RemovalKeeps
<1>4. CASE /\ box' = box /\ partial' = TRUE
           /\ prOp' = [prOp EXCEPT ![g] = [@ EXCEPT !.at = "unrow", !.errs = TRUE]]
    <2> DEFINE to == [prOp[g] EXCEPT !.at = "unrow", !.errs = TRUE]
    <2>1. prOp' = [prOp EXCEPT ![g] = to]
        BY <1>4
    <2>2. /\ to \in OpRecord /\ to.at = "unrow" /\ to.job = prOp[g].job /\ to.old = prOp[g].old
          /\ to.id = prOp[g].id /\ to.gen = prOp[g].gen /\ to.lock = prOp[g].lock
        BY <1>2 DEF OpRecord
    <2> HIDE DEF to
    <2>3. prOp' \in [Client -> OpRecord] /\ prOp'[g] = to /\ Others(g) /\ SameOp(g)
        BY <1>2, <2>1, <2>2, OpMoves DEF Others, SameOp
    <2>4. Removing(g) /\ Removing(g)' /\ prSite' \in [PR!Id -> SiteRecord] /\ box' \subseteq box
        BY <1>1, <1>4, <2>2, <2>3 DEF Removing, PreviewTypes
    <2>5. ~PR!Calm'
        BY <1>4 DEF PR!Calm
    <2> QED
        BY <1>1, <1>2, <1>4, <2>3, <2>4, <2>5, RemovalKeeps
<1> QED
    BY <1>3, <1>4 DEF PR!RemoveBoxes

(* A request ends, and the preview with it or not. *)
LEMMA LeavesTypes ==
    ASSUME PR!PreviewAssumption, PreviewTypes, Numbered, AskedOnce, NEW g \in Client,
           PR!EndOp(g), prOp[g].at \in {"wait", "unrow"}, prRow' \in RowRecord,
           prRow'.id = prRow.id,
           prRow.id = 0 => prRow' = prRow, UNCHANGED <<lastId, box, prSite, lastHost, job, epoch>>,
           UNCHANGED jobs, holder' \in [PR!Epoch -> Client \cup {PR!Nobody}],
           overran' \in BOOLEAN, split' \in BOOLEAN, partial' \in BOOLEAN
    PROVE  PreviewTypes' /\ Numbered' /\ AskedOnce'
<1>1. prOp' \in [Client -> OpRecord] /\ Others(g) /\ prOp'[g] = PR!NoOp
    BY OpEnds
<1>2. prOp'[g].at = "idle" /\ prOp'[g].id = 0 /\ prOp'[g].old = 0
    BY <1>1, Blank
<1>3. \A h \in Client : prOp'[h] = prOp[h] \/ h = g
    BY <1>1 DEF Others
<1>4. PreviewTypes'
    BY <1>1 DEF PreviewTypes
<1>5. \A k \in PR!Job : job'[k] = job[k] /\ (Live(k)' <=> Live(k))
    BY DEF Live
<1>6. Numbered'
    <2>1. \A h \in Client : prOp'[h].at \notin {"idle", "lock"} => prOp'[h].id # 0
        BY <1>2, <1>3 DEF Numbered
    <2>2. \A h \in Client : prOp'[h].id = prOp[h].id \/ prOp'[h].id \in {0, prRow.id}
        BY <1>2, <1>3
    <2>3. \A h \in Client : prOp'[h].at = "lock"
             => prOp[h].at = "lock" /\ prOp'[h].job = prOp[h].job
        BY <1>2, <1>3
    <2>4. \A k \in PR!Job : Live(k)' => job'[k].id # 0
        BY <1>5 DEF Numbered
    <2> QED
        BY <1>4, <1>5, <2>1, <2>2, <2>3, <2>4, NumberedKept
<1>7. AskedOnce'
    <2>1. \A h \in Client : Creating(h)' => Creating(h) /\ prOp'[h].job = prOp[h].job
        BY <1>2, <1>3 DEF Creating
    <2>2. \A h \in Client : prOp'[h].at \in {"lock", "install"}
             => prOp[h].at \in {"lock", "install"}
        BY <1>2, <1>3
    <2>3. \A h \in Client : Creating(h)' => job'[prOp'[h].job].at = "asked"
        BY <2>1 DEF AskedOnce
    <2>4. \A h \in Client : prOp'[h].old \in {0, prOp[h].old}
        BY <1>2, <1>3
    <2> QED
        BY <1>5, <2>1, <2>2, <2>3, <2>4, AskedKept
<1> QED
    BY <1>4, <1>6, <1>7

LEMMA GiveUpKeeps ==
    ASSUME PR!PreviewAssumption, PreviewInv, NEW g \in Client, PR!GiveUpWaiting(g)
    PROVE  PreviewInv'
<1> USE DEF PreviewInv
<1>1. /\ prOp[g].at = "wait" /\ PR!EndOp(g) /\ overran' = TRUE
      /\ UNCHANGED <<lastId, box, prSite, lastHost, job, epoch, holder, split, partial>>
      /\ UNCHANGED jobs
      /\ prRow' = prRow \/ (PR!Owns(g) /\ prRow' = [prRow EXCEPT !.status = "cleanup_failed"])
    BY DEF PR!GiveUpWaiting, PR!outside, PR!locks
<1>2. prRow' \in RowRecord /\ prRow'.id = prRow.id
    BY <1>1, Ranges DEF RowRecord
<1>3. prRow.id = 0 => prRow' = prRow
    BY <1>1 DEF Numbered, PR!Owns
<1>4. PreviewTypes' /\ Numbered' /\ AskedOnce'
    BY <1>1, <1>2, <1>3, LeavesTypes DEF PreviewTypes
<1>5. ~PR!Calm'
    BY <1>1 DEF PR!Calm
<1> QED
    BY <1>4, <1>5

LEMMA DeleteRowKeeps ==
    ASSUME PR!PreviewAssumption, PreviewInv, Remembers, NEW g \in Client, PR!DeleteRow(g)
    PROVE  PreviewInv'
<1> USE DEF PreviewInv
<1>1. /\ prOp[g].at = "unrow" /\ PR!EndOp(g) /\ PR!Unlock(g)
      /\ UNCHANGED <<lastId, box, prSite, lastHost, job, overran, split>> /\ UNCHANGED jobs
    BY DEF PR!DeleteRow, PR!outside
<1>2. holder' \in [PR!Epoch -> Client \cup {PR!Nobody}]
    BY <1>1 DEF PR!Unlock, PreviewTypes
<1>3. CASE /\ prOp[g].errs \/ ~PR!Owns(g)
           /\ prRow' = IF PR!Owns(g) THEN [prRow EXCEPT !.status = "cleanup_failed"] ELSE prRow
           /\ UNCHANGED <<epoch, partial>>
    <2>1. prRow' \in RowRecord /\ prRow'.id = prRow.id
        BY <1>3, Ranges DEF RowRecord
    <2>2. prRow.id = 0 => prRow' = prRow
        BY <1>1, <1>3 DEF Numbered, PR!Owns
    <2>3. PreviewTypes' /\ Numbered' /\ AskedOnce'
        BY <1>1, <1>2, <1>3, <2>1, <2>2, LeavesTypes DEF PreviewTypes
    <2>4. PR!Calm' => Chain' /\ World'
        <3> SUFFICES ASSUME Chain, World PROVE Chain' /\ World'
            BY <1>1, <1>3 DEF PR!Calm
        <3>1. PR!Owns(g) /\ \A k \in PR!Job, n \in Nat : ~InPlay(k, n)
            BY <1>1 DEF Chain, Holds, Removing
        <3>2. prOp[g].errs
            BY <1>3, <3>1
        <3>3. /\ prRow'.id = prRow.id /\ prRow'.gen = prRow.gen /\ prRow'.slot = prRow.slot
              /\ prRow'.host = prRow.host /\ prRow'.status = "cleanup_failed"
            BY <1>3, <3>1, Ranges DEF RowRecord
        <3>4. Others(g) /\ prOp'[g].at = "idle"
            BY <1>1, OpEnds, Blank
        <3>5. \A h \in Client : prOp'[h] = prOp[h] \/ h = g
            BY <3>4 DEF Others
        <3>6. \A h \in Client : h # g => ~Holding(h)
            BY <1>1 DEF Chain, Exclusive, Holding, Removing
        <3>7. \A h \in Client : ~Holding(h)' /\ ~Removing(h)' /\ prOp'[h].at # "install"
            BY <3>4, <3>5, <3>6 DEF Holding, Removing
        <3>8. \A k \in PR!Job : job'[k] = job[k] /\ (Live(k)' <=> Live(k))
            BY <1>1 DEF Live
        <3>9. \A h \in Client : h # g => SameOp(h)
            BY <3>5 DEF SameOp
        <3>10. \A h \in Client : /\ Waiting(h)' <=> Waiting(h)
                                 /\ Waiting(h) => SameOp(h)
                                 /\ Deleting(h)' => Deleting(h) /\ SameOp(h)
            BY <1>1, <3>4, <3>5, <3>9 DEF Waiting, Deleting
        <3>11. \A h \in Client : prOp[h].at # "install"
            BY <1>1, <3>6 DEF Holding
        <3>12. Exclusive'
            BY <3>7 DEF Exclusive
        <3>13. Chain'
            BY <1>1, <3>1, <3>3, <3>7, <3>8, <3>10, <3>11, <3>12, ChainKept
        <3>14. \A k \in PR!Job : ~Live(k)'
            BY <3>1, <3>8, Ranges DEF InPlay
        <3>15. NothingElse'
            BY <1>1, <3>3 DEF World, NothingElse, Unnamed, Remembers
        <3>16. prRow.host # 0 /\ prSite[prRow.id].host = prRow.host
            BY <1>1, <3>2 DEF World, HostOfRow
        <3>17. HostOfRow'
            BY <1>1, <3>3, <3>7, <3>16 DEF HostOfRow, Removing
        <3>18. \A k \in PR!Job : RunAt(k)'
            BY <3>14 DEF RunAt, Live
        <3>19. ServedRow'
            BY <3>3 DEF ServedRow
        <3> QED
            BY <3>13, <3>15, <3>17, <3>18, <3>19 DEF World
    <2> QED
        BY <2>3, <2>4
<1>4. CASE /\ ~prOp[g].errs /\ PR!Owns(g)
           /\ prRow' = PR!NoRow /\ epoch' = epoch + 1 /\ UNCHANGED partial
    <2>1. prRow' = PR!NoRow /\ epoch' = epoch + 1 /\ partial' = partial
        BY <1>4
    <2>2. prOp' \in [Client -> OpRecord] /\ Others(g) /\ prOp'[g] = PR!NoOp
        BY <1>1, OpEnds
    <2>3. prOp'[g].at = "idle" /\ prOp'[g].id = 0 /\ prOp'[g].old = 0 /\ ~prOp'[g].errs
        BY <2>2, Blank
    <2>4. \A h \in Client : prOp'[h] = prOp[h] \/ h = g
        BY <2>2 DEF Others
    <2>5. PreviewTypes'
        BY <1>1, <1>2, <2>1, <2>2, Blank DEF PreviewTypes
    <2>6. \A k \in PR!Job : job'[k] = job[k] /\ (Live(k)' <=> Live(k))
        BY <1>1 DEF Live
    <2>7. prRow.id # 0 /\ epoch = lastId - 1 /\ lastId \in Nat
        BY <1>1, <1>4, Ranges DEF Numbered, PR!Owns
    <2>8. Numbered'
        <3>1. \A h \in Client : prOp'[h].at \notin {"idle", "lock"} => prOp'[h].id # 0
            BY <2>3, <2>4 DEF Numbered
        <3>2. \A h \in Client : prOp'[h].id <= lastId
            BY <2>3, <2>4, <2>7 DEF Numbered
        <3>3. \A h \in Client : prOp'[h].at = "lock"
                 => prOp[h].at = "lock" /\ prOp'[h].job = prOp[h].job
            BY <2>3, <2>4
        <3>4. \A k \in PR!Job : Live(k)' => job'[k].id # 0
            BY <2>6 DEF Numbered
        <3>5. lastId <= Cardinality(Recorded')
            BY <2>6, <2>7, <3>3, RecordedGrows DEF Numbered
        <3> QED
            BY <1>1, <2>1, <2>7, <3>1, <3>2, <3>4, <3>5, Blank DEF Numbered
    <2>9. AskedOnce'
        <3>1. \A h \in Client : Creating(h)' => Creating(h) /\ prOp'[h].job = prOp[h].job
            BY <2>3, <2>4 DEF Creating
        <3>2. \A h \in Client : prOp'[h].at \in {"lock", "install"}
                 => prOp[h].at \in {"lock", "install"}
            BY <2>3, <2>4
        <3>3. \A h \in Client : Creating(h)' => job'[prOp'[h].job].at = "asked"
            BY <1>1, <3>1 DEF AskedOnce
        <3>4. \A h \in Client : prOp'[h].old \in {0, prOp[h].old}
            BY <2>3, <2>4
        <3> QED
            BY <1>1, <2>6, <3>1, <3>2, <3>3, <3>4, AskedKept
    <2>10. PR!Calm' => Chain' /\ World'
        <3> SUFFICES ASSUME Chain, World PROVE Chain' /\ World'
            BY <1>1, <2>1 DEF PR!Calm
        <3>1. \A k \in PR!Job, n \in Nat : ~InPlay(k, n)
            BY <1>1 DEF Chain, Holds, Removing
        <3>2. \A k \in PR!Job : ~Live(k)
            BY <3>1, Ranges DEF InPlay
        <3>3. \A h \in Client : ~Waiting(h)
            <4> SUFFICES ASSUME NEW h \in Client, Waiting(h) PROVE FALSE
                OBVIOUS
            <4>1. prOp[h].job \in PR!Job /\ prOp[h].gen \in Nat
                BY Ranges, PreviewLimits DEF AskedOnce, Creating, Waiting
            <4> QED
                BY <3>1, <4>1 DEF InPlay
        <3>4. /\ \A k \in PR!Job, n \in Nat : ~InPlay(k, n)'
              /\ \A k \in PR!Job : ~Live(k)'
              /\ \A h \in Client : ~Waiting(h)'
            BY <2>3, <2>4, <2>6, <3>1, <3>2, <3>3 DEF InPlay, Waiting
        <3>5. \A h \in Client : ~Holding(h)'
            BY <1>1, <2>3, <2>4 DEF Chain, Exclusive, Holding, Removing
        <3>6. \A h \in Client : Deleting(h)' => prOp'[h].id # 0
            BY <2>3, <2>4 DEF Numbered, Deleting
        <3>7. \A h \in Client : prOp'[h].at # "install" /\ ~Removing(h)'
            BY <3>5 DEF Holding
        <3>8. prRow'.id = 0 /\ prRow'.status = "none" /\ prRow'.slot = -1 /\ prRow'.host = 0
            BY <2>1, Blank
        <3>9. Chain'
            BY <3>4, <3>5, <3>6, <3>7, <3>8
               DEF Chain, Exclusive, OfTheRow, Queue, Cancelled, Holds, Attended
        <3>10. box = {} /\ \A i \in PR!Id : Unnamed(i)
            BY <1>1, <1>4 DEF World, NothingElse, HostOfRow
        <3>11. NothingElse'
            BY <1>1, <3>10 DEF NothingElse, Unnamed, Remembers
        <3>12. Standing' /\ \A h \in Client : prOp'[h].at # "unrow"
            BY <3>7 DEF Standing, Removing
        <3>13. HostOfRow'
            BY <3>7, <3>8, <3>12 DEF HostOfRow, Removing
        <3>14. \A k \in PR!Job : RunAt(k)'
            BY <3>4 DEF RunAt, Live
        <3>15. ServedRow'
            BY <3>8 DEF ServedRow
        <3> QED
            BY <3>9, <3>11, <3>13, <3>14, <3>15 DEF World
    <2> QED
        BY <2>5, <2>8, <2>9, <2>10
<1>5. CASE partial' = TRUE /\ UNCHANGED <<prRow, epoch>>
    <2>1. PreviewTypes' /\ Numbered' /\ AskedOnce'
        BY <1>1, <1>2, <1>5, LeavesTypes DEF PreviewTypes
    <2>2. ~PR!Calm'
        BY <1>5 DEF PR!Calm
    <2> QED
        BY <2>1, <2>2
<1> QED
    BY <1>3, <1>4, <1>5 DEF PR!DeleteRow

LEMMA DrainedIsOut ==
    ASSUME AskedOnce, NEW i \in PR!Job, PR!Drained(i), NEW n \in Nat
    PROVE  ~UpTo(i, n)
<1>1. job[i].at = "done"
    BY DEF PR!Drained
<1> QED
    BY <1>1 DEF UpTo, InPlay, Live, AskedOnce, Creating, Waiting

(* A request to delete takes the next generation of the row. *)
LEMMA BumpKeeps ==
    ASSUME PR!PreviewAssumption, PreviewInv, Remembers, NEW g \in Client, PR!Bump(g),
           prRow.id = prOp[g].id
    PROVE  PreviewInv'
<1> USE DEF PreviewInv
<1>1. /\ prOp[g].at = "bump" /\ PR!Enter(g)
      /\ UNCHANGED <<lastId, box, prSite, lastHost, job, epoch, holder, partial, overran>>
      /\ UNCHANGED jobs
      /\ prRow' = [prRow EXCEPT !.gen = @ + 1]
      /\ \/ prOp' = [prOp EXCEPT ![g] = [@ EXCEPT !.at = "stop", !.gen = prRow.gen + 1,
               !.old = jobs[prOp[g].id]]]
         \/ PR!EndOp(g) /\ cut' = cut \cup {<<prRow.id, prRow.gen + 1>>}
    BY DEF PR!Bump, PR!outside, PR!LockBriefly, PR!Enter
<1>2. prOp[g].id \in PR!Id /\ jobs[prOp[g].id] \in 0..MaxJobs /\ "stop" \in OpStage
         /\ prRow.gen \in Nat
    BY <1>1, Ranges, PreviewLimits DEF Numbered, OpStage
<1>3. /\ prRow' \in RowRecord /\ prRow'.id = prRow.id /\ prRow'.gen = prRow.gen + 1
      /\ prRow'.slot = prRow.slot
      /\ prRow'.host = prRow.host /\ prRow'.status = prRow.status
    BY <1>1, <1>2, Ranges DEF RowRecord
<1>4. ASSUME prOp' = [prOp EXCEPT ![g] = [@ EXCEPT !.at = "stop", !.gen = prRow.gen + 1,
                         !.old = jobs[prOp[g].id]]]
      PROVE  /\ prOp' \in [Client -> OpRecord] /\ Others(g)
             /\ prOp'[g].at = "stop" /\ prOp'[g].old = jobs[prRow.id] /\ prOp'[g].id = prRow.id
             /\ prOp'[g].gen = prRow'.gen
    <2> DEFINE to == [prOp[g] EXCEPT !.at = "stop", !.gen = prRow.gen + 1,
                         !.old = jobs[prOp[g].id]]
    <2>1. prOp' = [prOp EXCEPT ![g] = to]
        BY <1>4
    <2>2. prOp[g] \in OpRecord /\ prRow.gen + 1 \in Nat
        BY <1>2, Ranges
    <2>3. /\ to \in OpRecord /\ to.at = "stop" /\ to.old = jobs[prRow.id] /\ to.id = prRow.id
          /\ to.gen = prRow'.gen
        BY <1>2, <1>3, <2>2 DEF OpRecord
    <2> HIDE DEF to
    <2> QED
        BY <2>1, <2>3, Ranges, OpMoves DEF Others
<1>5. /\ prOp' \in [Client -> OpRecord] /\ Others(g)
      /\ \/ /\ prOp'[g].at = "stop" /\ prOp'[g].old = jobs[prRow.id] /\ prOp'[g].id = prRow.id
            /\ prOp'[g].gen = prRow'.gen
         \/ /\ prOp'[g].at = "idle" /\ prOp'[g].old = 0 /\ prOp'[g].id = 0
            /\ <<prRow.id, prRow'.gen>> \in cut'
    BY <1>1, <1>3, <1>4, OpEnds, Blank
<1>6. Others(g)
    BY <1>5
<1>7. \A h \in Client : prOp'[h] = prOp[h] \/ h = g
    BY <1>6 DEF Others
<1>8. \A h \in Client : prOp'[h].at \notin {"bump", "stop", "idle"}
         \/ prOp[h].at \notin {"bump", "stop", "idle"}
                           => prOp'[h] = prOp[h]
    BY <1>1, <1>5, <1>6, <1>7
<1>9. split' \in BOOLEAN /\ (split => split')
    BY <1>1 DEF PR!Enter, PreviewTypes
<1>10. PreviewTypes'
    BY <1>1, <1>3, <1>5, <1>9 DEF PreviewTypes
<1>11. \A k \in PR!Job : job'[k] = job[k] /\ (Live(k)' <=> Live(k))
    BY <1>1 DEF Live
<1>12. Numbered'
    <2>1. \A h \in Client : prOp'[h].at \notin {"idle", "lock"} => prOp'[h].id # 0
        BY <1>1, <1>2, <1>5, <1>7, PreviewLimits DEF Numbered
    <2>2. \A h \in Client : prOp'[h].id = prOp[h].id \/ prOp'[h].id \in {0, prRow.id}
        BY <1>5, <1>7
    <2>3. \A h \in Client : prOp'[h].at = "lock"
             => prOp[h].at = "lock" /\ prOp'[h].job = prOp[h].job
        BY <1>8
    <2>4. \A k \in PR!Job : Live(k)' => job'[k].id # 0
        BY <1>11 DEF Numbered
    <2>5. prRow.id # 0
        BY <1>1, <1>2, PreviewLimits
    <2> QED
        BY <1>1, <1>3, <1>10, <1>11, <2>1, <2>2, <2>3, <2>4, <2>5, NumberedKept
<1>13. AskedOnce'
    <2>1. \A h \in Client : Creating(h)' => Creating(h) /\ prOp'[h].job = prOp[h].job
        BY <1>8 DEF Creating
    <2>2. \A h \in Client : prOp'[h].at \in {"lock", "install"}
             => prOp[h].at \in {"lock", "install"}
        BY <1>8
    <2>3. \A h \in Client : Creating(h)' => job'[prOp'[h].job].at = "asked"
        BY <1>1, <2>1 DEF AskedOnce
    <2>4. \A h \in Client : \/ prOp'[h].old \in {0, prOp[h].old}
                             \/ \E i \in PR!Id : prOp'[h].old = jobs[i]
        BY <1>1, <1>2, <1>5, <1>7
    <2> QED
        BY <1>1, <1>11, <2>1, <2>2, <2>3, <2>4, AskedKept
<1>14. PR!Calm' => Chain' /\ World'
    <2> SUFFICES ASSUME PR!Calm, ~split' PROVE Chain' /\ World'
        BY <1>1, <1>9 DEF PR!Calm
    <2>1. \A h \in Client : ~Holding(h)
        BY <1>1, NobodyElse DEF Chain
    <2>2. \A h \in Client : ~Holding(h)' /\ prOp'[h].at # "install" /\ ~Removing(h)'
        BY <1>8, <2>1 DEF Holding, Removing
    <2>3. \A h \in Client : (Waiting(h)' <=> Waiting(h)) /\ (Waiting(h) => prOp'[h] = prOp[h])
        BY <1>8 DEF Waiting
    <2>4. \A k \in PR!Job, n \in Nat : InPlay(k, n)' <=> InPlay(k, n)
        BY <1>11, <2>3 DEF InPlay
    <2>5. \A k \in PR!Job, n \in Nat : UpTo(k, n)' <=> UpTo(k, n)
        BY <2>4 DEF UpTo
    <2>6. \A h \in Client : h # g /\ Deleting(h)' => Deleting(h) /\ prOp'[h] = prOp[h]
        BY <1>7 DEF Deleting
    <2>7. \A h \in Client : Deleting(h) /\ prOp[h].id = prRow.id => prOp[h].gen <= prRow.gen
        BY DEF Chain, Holds
    <2>8. \A h \in Client : h # g /\ Deleting(h)' => ~PR!Owns(h)'
        BY <1>2, <1>3, <2>6, <2>7, Ranges DEF PR!Owns
    <2>9. \A k \in PR!Job, n \in Nat : InPlay(k, n) => n < prRow'.gen
        BY <1>2, <1>3 DEF Chain, OfTheRow
    <2>10. Exclusive'
        BY <2>2 DEF Exclusive
    <2>11. OfTheRow'
        <3>1. \A k \in PR!Job, n \in Nat : InPlay(k, n)' => n <= prRow'.gen
            BY <1>2, <1>3, <2>4, <2>9
        <3> QED
            BY <1>3, <1>11, <2>3, <2>4, <3>1 DEF Chain, OfTheRow
    <2>12. Queue'
        <3>1. ASSUME NEW h \in Client, NEW k \in PR!Job, NEW n \in Nat,
                     Deleting(h)', PR!Owns(h)', InPlay(k, n)'
              PROVE  \E i \in PR!Job : prOp'[h].old = i /\ UpTo(i, n)'
            <4>1. h = g
                BY <2>8, <3>1
            <4> QED
                BY <1>5, <2>4, <2>5, <3>1, <4>1 DEF Chain, Queue, Deleting
        <3> QED
            BY <1>1, <1>3, <1>11, <2>3, <2>4, <2>5, <3>1 DEF Chain, Queue
    <2>13. Cancelled'
        <3>1. ASSUME NEW h \in Client, NEW i \in PR!Job, NEW n \in Nat,
                     Waiting(h)', prOp'[h].old = i, InPlay(i, n)'
              PROVE  n < prOp'[h].gen
            BY <2>3, <2>4, <3>1 DEF Chain, Cancelled
        <3> QED
            BY <2>4, <2>9, <3>1 DEF Cancelled
    <2>14. Holds'
        <3>1. ASSUME NEW h \in Client, Deleting(h)', prOp'[h].id = prRow'.id
              PROVE  prOp'[h].gen <= prRow'.gen
            BY <1>2, <1>3, <1>5, <2>6, <2>7, <3>1, Ranges DEF Deleting
        <3> QED
            BY <2>2, <3>1 DEF Holds
    <2>15. Attended'
        BY <1>3, <1>5 DEF Attended, Deleting, PR!Owns
    <2>16. \A h \in Client : prOp'[h].at \in {"unbox", "unrow"} => prOp'[h].errs = prOp[h].errs
        BY <1>8
    <2>17. prRow'.status = "running" =>
              /\ \A k \in PR!Job, n \in Nat : ~InPlay(k, n)'
              /\ \A h \in Client : prOp'[h].at # "install"
        BY <1>3, <2>2, <2>4 DEF World, ServedRow
    <2>18. World'
        BY <1>1, <1>3, <1>8, <1>11, <2>16, <2>17, WorldKept
    <2> QED
        BY <2>10, <2>11, <2>12, <2>13, <2>14, <2>15, <2>18 DEF Chain
<1> QED
    BY <1>10, <1>12, <1>13, <1>14

(* The new job takes its place in the registry. *)
LEMMA InstallKeeps ==
    ASSUME PR!PreviewAssumption, PreviewInv, Remembers, NEW g \in Client, PR!Install(g)
    PROVE  PreviewInv'
<1> USE DEF PreviewInv
<1>1. /\ prOp[g].at = "install" /\ PR!Unlock(g)
      /\ UNCHANGED <<prRow, lastId, box, prSite, lastHost, job, epoch, split, partial, overran>>
      /\ jobs' = [jobs EXCEPT ![prOp[g].id] = prOp[g].job]
      /\ prOp' = [prOp EXCEPT ![g] = [@ EXCEPT !.at = "cancel", !.old = jobs[prOp[g].id]]]
    BY DEF PR!Install, PR!outside
<1> DEFINE J == prOp[g].job
           to == [prOp[g] EXCEPT !.at = "cancel", !.old = jobs[prOp[g].id]]
<1>2. /\ prOp[g].id \in PR!Id /\ J \in PR!Job /\ job[J].at = "asked" /\ "cancel" \in OpStage
      /\ jobs[prOp[g].id] \in 0..MaxJobs /\ prOp[g].gen \in Nat /\ prRow.gen \in Nat
    BY <1>1, Ranges, PreviewLimits DEF Numbered, AskedOnce, Creating, OpStage
<1>3. prOp' = [prOp EXCEPT ![g] = to]
    BY <1>1
<1>4. /\ to \in OpRecord /\ to.at = "cancel" /\ to.job = J /\ to.old = jobs[prOp[g].id]
      /\ to.id = prOp[g].id /\ to.gen = prOp[g].gen /\ to.errs = prOp[g].errs
    BY <1>2, Ranges DEF OpRecord
<1> HIDE DEF to
<1>5. prOp' \in [Client -> OpRecord] /\ prOp'[g] = to /\ Others(g)
    BY <1>3, <1>4, Ranges, OpMoves DEF Others
<1>6. \A h \in Client : prOp'[h] = prOp[h] \/ h = g
    BY <1>5 DEF Others
<1>7. \A h \in Client : prOp'[h].at \notin {"install", "cancel"}
         \/ prOp[h].at \notin {"install", "cancel"}
                           => prOp'[h] = prOp[h]
    BY <1>1, <1>4, <1>5, <1>6
<1>8. /\ jobs' \in [PR!Id -> 0..MaxJobs] /\ jobs'[prOp[g].id] = J
      /\ \A i \in PR!Id : i # prOp[g].id => jobs'[i] = jobs[i]
    BY <1>1, <1>2, Ranges, PreviewLimits
<1>9. PreviewTypes'
    BY <1>1, <1>5, <1>8 DEF PreviewTypes, PR!Unlock
<1>10. \A k \in PR!Job : job'[k] = job[k] /\ (Live(k)' <=> Live(k))
    BY <1>1 DEF Live
<1>11. Numbered'
    <2>1. \A h \in Client : prOp'[h].at \notin {"idle", "lock"} => prOp'[h].id # 0
        BY <1>1, <1>4, <1>5, <1>6 DEF Numbered
    <2>2. \A h \in Client : prOp'[h].id = prOp[h].id
        BY <1>4, <1>5, <1>6
    <2>3. \A h \in Client : prOp'[h].at = "lock"
             => prOp[h].at = "lock" /\ prOp'[h].job = prOp[h].job
        BY <1>7
    <2>4. \A k \in PR!Job : Live(k)' => job'[k].id # 0
        BY <1>10 DEF Numbered
    <2> QED
        BY <1>1, <1>9, <1>10, <2>1, <2>2, <2>3, <2>4, NumberedKept
<1>12. /\ ~job[J].cancelled /\ (\A i \in PR!Id : jobs[i] # J) /\ (\A h \in Client : prOp[h].old # J)
    BY <1>1, <1>2 DEF AskedOnce
<1>13. AskedOnce'
    <2>1. \A h \in Client : Creating(h)' <=> Creating(h)
        BY <1>1, <1>4, <1>5, <1>6 DEF Creating
    <2>2. \A h \in Client : prOp'[h].job = prOp[h].job
        BY <1>4, <1>5, <1>6
    <2>3. \A h \in Client : Creating(h)' => prOp'[h].job # 0 /\ job'[prOp'[h].job].at = "asked"
        BY <1>1, <2>1, <2>2 DEF AskedOnce
    <2>4. \A h, i \in Client : Creating(h)' /\ Creating(i)' /\ prOp'[h].job = prOp'[i].job => h = i
        BY <2>1, <2>2 DEF AskedOnce
    <2>5. ASSUME NEW k \in PR!Job,
                 job'[k].at = "none"
                    \/ (\E h \in Client : prOp'[h].at \in {"lock", "install"} /\ prOp'[h].job = k)
          PROVE  /\ ~job'[k].cancelled
                 /\ \A i \in PR!Id : jobs'[i] # k
                 /\ \A h \in Client : prOp'[h].old # k
        <3>1. k # J
            <4> SUFFICES ASSUME k = J PROVE FALSE
                OBVIOUS
            <4>1. PICK h \in Client : prOp'[h].at \in {"lock", "install"} /\ prOp'[h].job = J
                BY <1>2, <1>10, <2>5
            <4>2. h # g /\ prOp'[h] = prOp[h]
                BY <1>4, <1>5, <1>6, <4>1
            <4> QED
                BY <1>1, <4>1, <4>2 DEF AskedOnce, Creating
        <3>2. job[k].at = "none"
                 \/ (\E h \in Client : prOp[h].at \in {"lock", "install"} /\ prOp[h].job = k)
            BY <1>1, <1>4, <1>5, <1>6, <2>5
        <3>3. /\ ~job[k].cancelled /\ (\A i \in PR!Id : jobs[i] # k)
                    /\ \A h \in Client : prOp[h].old # k
            BY <3>2 DEF AskedOnce
        <3> QED
            BY <1>2, <1>4, <1>5, <1>6, <1>8, <1>10, <3>1, <3>3
    <2> QED
        BY <2>3, <2>4, <2>5 DEF AskedOnce
<1>14. PR!Calm' => Chain' /\ World'
    <2> SUFFICES ASSUME Chain, World PROVE Chain' /\ World'
        BY <1>1 DEF PR!Calm
    <2> DEFINE G == prOp[g].gen
    <2>1. /\ prOp[g].id = prRow.id /\ G = prRow.gen
          /\ \A k \in PR!Job, n \in Nat : InPlay(k, n) => n < prRow.gen
          /\ \A h \in Client : Deleting(h) => ~PR!Owns(h)
        BY <1>1 DEF Chain, Holds, PR!Owns
    <2>2. \A h \in Client : ~Holding(h)' /\ prOp'[h].at # "install" /\ ~Removing(h)'
        <3>1. \A h \in Client : Holding(h) => h = g
            BY <1>1 DEF Chain, Exclusive, Holding
        <3> QED
            BY <1>4, <1>5, <1>6, <3>1 DEF Holding, Removing
    <2>3. \A h \in Client : Waiting(h)' <=> Waiting(h) \/ h = g
        BY <1>4, <1>5, <1>6 DEF Waiting
    <2>4. \A h \in Client : Waiting(h) => h # g /\ prOp'[h] = prOp[h]
        BY <1>1, <1>6 DEF Waiting
    <2>5. \A k \in PR!Job, n \in Nat : InPlay(k, n)' <=> InPlay(k, n) \/ (k = J /\ n = G)
        BY <1>2, <1>4, <1>5, <1>6, <1>10, <2>3, <2>4 DEF InPlay
    <2>6. \A k \in PR!Job, n \in Nat : UpTo(k, n) => UpTo(k, n)'
        BY <2>5 DEF UpTo
    <2>7. \A k \in PR!Job, n \in Nat : InPlay(k, n)' => n <= prRow.gen
        BY <1>2, <2>1, <2>5
    <2>8. \A h \in Client : (Deleting(h)' <=> Deleting(h)) /\ (Deleting(h) => prOp'[h] = prOp[h])
        BY <1>7 DEF Deleting
    <2>9. \A h \in Client : Deleting(h)' => ~PR!Owns(h)'
        BY <1>1, <2>1, <2>8 DEF PR!Owns
    <2>10. \A h \in Client : Waiting(h) => prOp[h].gen < prRow.gen
        <3>1. \A h \in Client : Waiting(h) => prOp[h].job \in PR!Job /\ prOp[h].gen \in Nat
            BY Ranges, PreviewLimits DEF AskedOnce, Creating, Waiting
        <3> QED
            BY <2>1, <3>1 DEF InPlay
    <2>11. \A k \in PR!Job, n \in Nat : InPlay(k, n)' /\ n < prRow.gen => InPlay(k, n)
        BY <1>2, <2>1, <2>5
    <2>12. Exclusive'
        BY <2>2 DEF Exclusive
    <2>13. OfTheRow'
        <3>1. \A h \in Client : Waiting(h)' => prOp'[h].id = prRow'.id
            BY <1>1, <1>4, <1>5, <2>1, <2>3, <2>4 DEF Chain, OfTheRow
        <3>2. \A j, k \in PR!Job, n \in Nat : InPlay(j, n)' /\ InPlay(k, n)' => j = k
            BY <1>2, <2>1, <2>5 DEF Chain, OfTheRow
        <3> QED
            BY <1>1, <1>10, <2>7, <3>1, <3>2 DEF Chain, OfTheRow
    <2>14. Queue'
        <3>1. \A j, k \in PR!Job, n \in Nat : Live(j)' /\ InPlay(k, n)' => job'[j].gen <= n
            <4>1. \A j \in PR!Job : Live(j) => job[j].gen <= prRow.gen
                BY Ranges DEF Chain, OfTheRow, InPlay
            <4> QED
                BY <1>10, <2>1, <2>5, <4>1 DEF Chain, Queue
        <3>2. ASSUME NEW h \in Client, NEW k \in PR!Job, NEW n \in Nat,
                     Waiting(h)', InPlay(k, n)', n < prOp'[h].gen
              PROVE  \E i \in PR!Job : prOp'[h].old = i /\ UpTo(i, n)'
            <4>1. CASE h = g
                <5>1. InPlay(k, n)
                    BY <1>4, <1>5, <2>1, <2>11, <3>2, <4>1
                <5>2. PICK i \in PR!Job : jobs[prRow.id] = i /\ UpTo(i, n)
                    BY <5>1 DEF Chain, Queue
                <5> QED
                    BY <1>4, <1>5, <2>1, <2>6, <4>1, <5>2
            <4>2. CASE h # g
                <5>1. Waiting(h) /\ prOp'[h] = prOp[h] /\ n < prOp[h].gen
                    BY <1>6, <2>3, <3>2, <4>2
                <5>2. n < prRow.gen
                    BY <1>2, <2>10, <5>1, Ranges
                <5>3. InPlay(k, n)
                    BY <2>11, <3>2, <5>2
                <5>4. PICK i \in PR!Job : prOp[h].old = i /\ UpTo(i, n)
                    BY <5>1, <5>3 DEF Chain, Queue
                <5> QED
                    BY <2>6, <5>1, <5>4
            <4> QED
                BY <4>1, <4>2
        <3>3. ASSUME NEW k \in PR!Job, NEW n \in Nat, InPlay(k, n)'
              PROVE  \E i \in PR!Job : jobs'[prRow'.id] = i /\ UpTo(i, n)'
            <4>1. \A i \in PR!Job, m \in Nat : i = J /\ m = G => InPlay(i, m)'
                BY <1>2, <2>5
            <4>2. n <= G /\ G \in Nat
                BY <1>2, <2>1, <2>7, <3>3
            <4>3. \A i \in PR!Job : i = J => UpTo(i, n)'
                BY <4>1, <4>2 DEF UpTo
            <4> QED
                BY <1>1, <1>2, <1>8, <2>1, <4>3
        <3> QED
            BY <2>9, <3>1, <3>2, <3>3 DEF Queue
    <2>15. Cancelled'
        <3>1. ASSUME NEW h \in Client, NEW i \in PR!Job, NEW n \in Nat,
                     Waiting(h)', prOp'[h].old = i, InPlay(i, n)'
              PROVE  n < prOp'[h].gen
            <4>1. CASE h = g
                <5>1. i # J
                    BY <1>2, <1>4, <1>5, <1>12, <3>1, <4>1
                <5> QED
                    BY <1>4, <1>5, <2>1, <2>5, <3>1, <4>1, <5>1
            <4>2. CASE h # g
                <5>1. Waiting(h) /\ prOp'[h] = prOp[h] /\ i # J
                    BY <1>6, <1>12, <2>3, <3>1, <4>2
                <5>2. InPlay(i, n)
                    BY <2>5, <3>1, <5>1
                <5> QED
                    BY <3>1, <5>1, <5>2 DEF Chain, Cancelled
            <4> QED
                BY <4>1, <4>2
        <3>2. ASSUME NEW h \in Client, NEW i \in PR!Job, NEW n \in Nat,
                     Deleting(h)', prOp'[h].old = i, InPlay(i, n)'
              PROVE  n < prRow'.gen
            BY <1>1, <1>12, <2>1, <2>5, <2>8, <3>2
        <3>3. ASSUME NEW k \in PR!Job, NEW n \in Nat, InPlay(k, n)', job'[k].cancelled
              PROVE  n < prRow'.gen
            BY <1>1, <1>12, <2>1, <2>5, <3>3
        <3> QED
            BY <3>1, <3>2, <3>3 DEF Cancelled
    <2>16. Holds'
        <3>1. \A h \in Client : Deleting(h)' /\ prOp'[h].id = prRow'.id
                 => prOp'[h].gen <= prRow'.gen
            BY <1>1, <2>8 DEF Chain, Holds
        <3> QED
            BY <2>2, <3>1 DEF Holds
    <2>17. Attended'
        BY <1>1, <1>2, <2>1, <2>5 DEF Attended
    <2>18. \A h \in Client : prOp'[h].at \in {"unbox", "unrow"} => prOp'[h].errs = prOp[h].errs
        BY <1>7
    <2>19. prRow'.status # "running"
        BY <1>1 DEF World, ServedRow
    <2>20. World'
        BY <1>1, <1>7, <1>10, <2>18, <2>19, WorldKept
    <2> QED
        BY <2>12, <2>13, <2>14, <2>15, <2>16, <2>17, <2>20 DEF Chain
<1> QED
    BY <1>9, <1>11, <1>13, <1>14

(* The row an upsert writes.  *)
LEMMA UpsertWrites ==
    ASSUME PR!PreviewAssumption, PreviewTypes, Numbered, NEW g \in Client, PR!Upsert(g)
    PROVE  /\ prOp[g].at = "lock" /\ PR!Enter(g) /\ holder' = [holder EXCEPT ![prOp[g].lock] = g]
           /\ UNCHANGED <<box, prSite, lastHost, job, epoch, overran, partial>> /\ UNCHANGED jobs
           /\ lastId' = IF prRow.id = 0 THEN lastId + 1 ELSE lastId
           /\ prRow'.status = "pending" /\ prRow'.gen \in Nat
           /\ prRow.id # 0
                 => /\ prRow' \in RowRecord /\ prRow'.id = prRow.id /\ prRow'.gen = prRow.gen + 1
                              /\ prRow'.slot = prRow.slot /\ prRow'.host = prRow.host
           /\ prRow.id = 0 => /\ prRow'.id = lastId + 1 /\ prRow'.slot = -1 /\ prRow'.host = 0
                              /\ lastId + 1 \in 0..MaxJobs => prRow' \in RowRecord
           /\ prOp' = [prOp EXCEPT ![g] = [@ EXCEPT !.at = "install", !.id = prRow'.id,
              !.gen = prRow'.gen]]
<1>1. /\ prOp[g].at = "lock" /\ PR!Enter(g) /\ holder' = [holder EXCEPT ![prOp[g].lock] = g]
      /\ UNCHANGED <<box, prSite, lastHost, job, epoch, overran, partial>> /\ UNCHANGED jobs
      /\ lastId' = (IF prRow.id = 0 THEN lastId + 1 ELSE lastId)
      /\ prRow' = PR!Upserted
      /\ prOp' = [prOp EXCEPT ![g] = [@ EXCEPT !.at = "install", !.id = PR!Upserted.id,
         !.gen = PR!Upserted.gen]]
    BY DEF PR!Upsert, PR!Lock, PR!Enter, PR!outside
<1>2. prRow \in RowRecord /\ prRow.gen + 1 \in Nat
    BY Ranges
<1>3. CASE prRow.id # 0
    <2> DEFINE to == [prRow EXCEPT !.gen = @ + 1, !.status = "pending"]
    <2>1. prRow' = to
        BY <1>1, <1>3 DEF PR!Upserted
    <2>2. /\ to \in RowRecord /\ to.id = prRow.id /\ to.gen = prRow.gen + 1 /\ to.slot = prRow.slot
          /\ to.host = prRow.host /\ to.status = "pending"
        BY <1>2 DEF RowRecord
    <2> HIDE DEF to
    <2> QED
        BY <1>1, <1>2, <1>3, <2>1, <2>2
<1>4. CASE prRow.id = 0
    <2> DEFINE to == [PR!NoRow EXCEPT !.id = lastId + 1, !.gen = 1, !.status = "pending"]
    <2>1. prRow' = to
        BY <1>1, <1>4 DEF PR!Upserted
    <2>2. PR!NoRow \in RowRecord /\ PR!NoRow.slot = -1 /\ PR!NoRow.host = 0
        BY Blank
    <2>3. /\ to.id = lastId + 1 /\ to.gen = 1 /\ to.slot = -1
          /\ to.host = 0 /\ to.status = "pending"
          /\ lastId + 1 \in 0..MaxJobs => to \in RowRecord
        BY <2>2 DEF RowRecord
    <2> HIDE DEF to
    <2> QED
        BY <1>1, <1>4, <2>1, <2>3
<1> QED
    BY <1>3, <1>4

(* Its request's job was not counted yet. *)
LEMMA RecordedByUpsert ==
    ASSUME PR!PreviewAssumption, PreviewTypes, Numbered, AskedOnce, NEW g \in Client,
           prOp[g].at = "lock", prOp'[g].at = "install", Others(g), UNCHANGED job
    PROVE  lastId + 1 <= Cardinality(Recorded') /\ Cardinality(Recorded') <= MaxJobs
           /\ lastId \in Nat /\ Cardinality(Recorded') \in Nat
<1> DEFINE J == prOp[g].job
<1>1. J \in PR!Job /\ job[J].at = "asked"
    BY Ranges, PreviewLimits DEF AskedOnce, Creating
<1>2. J \notin Recorded
    BY DEF Recorded
<1>3. J \in Recorded'
    BY <1>1 DEF Recorded, Others, AskedOnce, Creating
<1>4. Recorded \subseteq Recorded'
    BY DEF Recorded, Others
<1>5. IsFiniteSet(PR!Job) /\ Cardinality(PR!Job) = MaxJobs
    BY PreviewLimits, FS_Interval DEF PR!Job
<1>6. Recorded' \subseteq PR!Job
    BY DEF Recorded
<1>7. IsFiniteSet(Recorded') /\ Cardinality(Recorded') <= MaxJobs
    BY <1>5, <1>6, FS_Subset
<1>8. IsFiniteSet(Recorded)
    BY <1>4, <1>7, FS_Subset
<1> HIDE DEF J
<1>9. Cardinality(Recorded \cup {J}) = Cardinality(Recorded) + 1 /\ IsFiniteSet(Recorded \cup {J})
    BY <1>2, <1>8, FS_AddElement
<1>10. Recorded \cup {J} \subseteq Recorded'
    BY <1>3, <1>4
<1>11. Cardinality(Recorded \cup {J}) <= Cardinality(Recorded')
    BY <1>7, <1>10, FS_Subset
<1>12. Cardinality(Recorded) \in Nat /\ Cardinality(Recorded') \in Nat
    BY <1>7, <1>8, FS_CardinalityType
<1>13. lastId \in Nat /\ lastId <= Cardinality(Recorded)
    BY PreviewLimits DEF Numbered
<1> QED
    BY <1>7, <1>9, <1>11, <1>12, <1>13

LEMMA UpsertKeeps ==
    ASSUME PR!PreviewAssumption, PreviewInv, Remembers, NEW g \in Client, PR!Upsert(g)
    PROVE  PreviewInv'
<1> USE DEF PreviewInv
<1>1. /\ prOp[g].at = "lock" /\ PR!Enter(g) /\ holder' = [holder EXCEPT ![prOp[g].lock] = g]
      /\ UNCHANGED <<box, prSite, lastHost, job, epoch, overran, partial>> /\ UNCHANGED jobs
      /\ lastId' = (IF prRow.id = 0 THEN lastId + 1 ELSE lastId)
      /\ prRow'.status = "pending" /\ prRow'.gen \in Nat
      /\ prRow.id # 0
            => /\ prRow' \in RowRecord /\ prRow'.id = prRow.id /\ prRow'.gen = prRow.gen + 1
                         /\ prRow'.slot = prRow.slot /\ prRow'.host = prRow.host
      /\ prRow.id = 0 => /\ prRow'.id = lastId + 1 /\ prRow'.slot = -1 /\ prRow'.host = 0
                         /\ lastId + 1 \in 0..MaxJobs => prRow' \in RowRecord
      /\ prOp' = [prOp EXCEPT ![g] = [@ EXCEPT !.at = "install", !.id = prRow'.id,
         !.gen = prRow'.gen]]
    BY UpsertWrites
<1> DEFINE to == [prOp[g] EXCEPT !.at = "install", !.id = prRow'.id, !.gen = prRow'.gen]
<1>2. /\ to.at = "install" /\ to.job = prOp[g].job /\ to.old = prOp[g].old /\ to.id = prRow'.id
      /\ to.gen = prRow'.gen /\ to.lock = prOp[g].lock /\ to.errs = prOp[g].errs
      /\ prRow'.id \in 0..MaxJobs => to \in OpRecord
    <2>1. prOp[g] \in OpRecord /\ "install" \in OpStage
        BY Ranges DEF OpStage
    <2> QED
        BY <1>1, <2>1 DEF OpRecord
<1>3. prOp' = [prOp EXCEPT ![g] = to]
    BY <1>1
<1> HIDE DEF to
<1>4. prOp'[g] = to /\ Others(g)
    BY <1>3, Ranges DEF Others
<1>5. \A h \in Client : prOp'[h] = prOp[h] \/ h = g
    BY <1>4 DEF Others
<1>6. lastId + 1 <= Cardinality(Recorded') /\ lastId + 1 <= MaxJobs /\ lastId \in Nat
    <2>1. /\ lastId + 1 <= Cardinality(Recorded') /\ Cardinality(Recorded') <= MaxJobs
          /\ lastId \in Nat /\ Cardinality(Recorded') \in Nat
        BY <1>1, <1>2, <1>4, RecordedByUpsert
    <2> QED
        BY <2>1, PreviewLimits
<1>7. prRow' \in RowRecord /\ prRow'.id \in 1..MaxJobs /\ prRow'.id = lastId'
      /\ lastId' \in 0..MaxJobs /\ lastId <= lastId' /\ lastId' <= lastId + 1
    BY <1>1, <1>6, Ranges, PreviewLimits DEF Numbered
<1>8. prOp' \in [Client -> OpRecord]
    BY <1>2, <1>3, <1>7, Ranges, OpMoves
<1>9. \A h \in Client : prOp'[h].at \notin {"lock", "install"}
         \/ prOp[h].at \notin {"lock", "install"}
                           => prOp'[h] = prOp[h]
    BY <1>1, <1>2, <1>4, <1>5
<1>10. split' \in BOOLEAN /\ (split => split') /\ prOp[g].lock \in PR!Epoch
    BY <1>1, Ranges DEF PR!Enter, PreviewTypes
<1>11. PreviewTypes'
    BY <1>1, <1>7, <1>8, <1>10 DEF PreviewTypes
<1>12. \A k \in PR!Job : job'[k] = job[k] /\ (Live(k)' <=> Live(k))
    BY <1>1 DEF Live
<1>13. Numbered'
    <2>1. \A h \in Client : prOp'[h].at \notin {"idle", "lock"} => prOp'[h].id # 0
        BY <1>2, <1>4, <1>5, <1>7 DEF Numbered
    <2>2. \A h \in Client : prOp'[h].id <= lastId'
        <3>1. \A h \in Client : prOp[h].id \in Nat /\ prOp[h].id <= lastId
            BY Ranges, PreviewLimits DEF Numbered
        <3> QED
            BY <1>2, <1>4, <1>5, <1>6, <1>7, <3>1
    <2>3. lastId' <= Cardinality(Recorded')
        <3>1. Cardinality(Recorded') \in Nat
            BY <1>1, <1>2, <1>4, RecordedByUpsert
        <3> QED
            BY <1>6, <1>7, <3>1
    <2>4. epoch' = lastId' - 1
        BY <1>1, <1>6 DEF Numbered
    <2>5. \A k \in PR!Job : Live(k)' => job'[k].id # 0
        BY <1>12 DEF Numbered
    <2>6. prRow'.id # 0 /\ prRow'.id = lastId'
        BY <1>7, PreviewLimits
    <2> QED
        BY <1>7, <2>1, <2>2, <2>3, <2>4, <2>5, <2>6 DEF Numbered
<1>14. AskedOnce'
    <2>1. \A h \in Client : Creating(h)' => Creating(h) /\ prOp'[h].job = prOp[h].job
        BY <1>1, <1>2, <1>4, <1>5 DEF Creating
    <2>2. \A h \in Client : prOp'[h].at \in {"lock", "install"}
             => prOp[h].at \in {"lock", "install"}
        BY <1>9
    <2>3. \A h \in Client : Creating(h)' => job'[prOp'[h].job].at = "asked"
        BY <1>1, <2>1 DEF AskedOnce
    <2>4. \A h \in Client : prOp'[h].old = prOp[h].old
        BY <1>2, <1>4, <1>5
    <2> QED
        BY <1>1, <1>12, <2>1, <2>2, <2>3, <2>4, AskedKept
<1>15. PR!Calm' => Chain' /\ World'
    <2> SUFFICES ASSUME PR!Calm, ~split' PROVE Chain' /\ World'
        BY <1>1, <1>10 DEF PR!Calm
    <2>1. \A h \in Client : ~Holding(h)
        BY <1>1, NobodyElse DEF Chain
    <2>2. \A h \in Client : ~Removing(h)' /\ (Holding(h)' => h = g)
             /\ (prOp'[h].at = "install" => h = g)
        BY <1>2, <1>4, <1>5, <2>1 DEF Holding, Removing
    <2>3. \A h \in Client : (Waiting(h)' <=> Waiting(h)) /\ (Waiting(h) => prOp'[h] = prOp[h])
        BY <1>9 DEF Waiting
    <2>4. \A k \in PR!Job, n \in Nat : InPlay(k, n)' <=> InPlay(k, n)
        BY <1>12, <2>3 DEF InPlay
    <2>5. \A k \in PR!Job, n \in Nat : UpTo(k, n)' <=> UpTo(k, n)
        BY <2>4 DEF UpTo
    <2>6. \A h \in Client : (Deleting(h)' <=> Deleting(h)) /\ (Deleting(h) => prOp'[h] = prOp[h])
        BY <1>9 DEF Deleting
    <2>7. ASSUME prRow.id = 0
          PROVE  /\ \A k \in PR!Job : ~Live(k)
                 /\ \A h \in Client : ~Waiting(h)
                 /\ \A k \in PR!Job, n \in Nat : ~InPlay(k, n)
                 /\ \A h \in Client : prOp[h].id # prRow'.id
        <3>1. \A k \in PR!Job : ~Live(k)
            BY <2>7 DEF Chain, OfTheRow, Numbered
        <3>2. \A h \in Client : ~Waiting(h)
            BY <2>7 DEF Chain, OfTheRow, Numbered, Waiting
        <3>3. \A h \in Client : prOp[h].id \in Nat /\ prOp[h].id <= lastId
            BY Ranges, PreviewLimits DEF Numbered
        <3> QED
            BY <1>1, <1>6, <2>7, <3>1, <3>2, <3>3 DEF InPlay
    <2>8. \A k \in PR!Job, n \in Nat : InPlay(k, n) => n < prRow'.gen /\ prRow'.id = prRow.id
        BY <1>1, <2>7, Ranges DEF Chain, OfTheRow
    <2>9. \A h \in Client : Deleting(h)' /\ prOp'[h].id = prRow'.id => prOp'[h].gen < prRow'.gen
        <3> SUFFICES ASSUME NEW h \in Client, Deleting(h), prOp[h].id = prRow'.id
                     PROVE prOp[h].gen < prRow'.gen
            BY <2>6
        <3>1. prRow.id # 0
            BY <2>7
        <3>2. prOp[h].gen <= prRow.gen
            BY <1>1, <3>1 DEF Chain, Holds
        <3> QED
            BY <1>1, <3>1, <3>2, Ranges
    <2>10. \A h \in Client : Deleting(h)' => ~PR!Owns(h)'
        BY <1>1, <1>8, <2>9 DEF PR!Owns
    <2>11. Exclusive'
        BY <1>1, <1>2, <1>4, <1>10, <2>2 DEF Exclusive, PreviewTypes
    <2>12. OfTheRow'
        <3>1. \A k \in PR!Job : Live(k)' => job'[k].id = prRow'.id
            BY <1>1, <1>12, <2>7 DEF Chain, OfTheRow
        <3>2. \A h \in Client : Waiting(h)' => prOp'[h].id = prRow'.id
            BY <1>1, <2>3, <2>7 DEF Chain, OfTheRow
        <3>3. \A k \in PR!Job, n \in Nat : InPlay(k, n)' => n <= prRow'.gen
            BY <1>1, <2>4, <2>8
        <3> QED
            BY <2>4, <3>1, <3>2, <3>3 DEF Chain, OfTheRow
    <2>13. Queue'
        <3>1. \A k \in PR!Job, n \in Nat : InPlay(k, n)'
                 => \E i \in PR!Job : jobs'[prRow'.id] = i /\ UpTo(i, n)'
            BY <1>1, <2>4, <2>5, <2>8 DEF Chain, Queue
        <3> QED
            BY <1>12, <2>3, <2>4, <2>5, <2>10, <3>1 DEF Chain, Queue
    <2>14. Cancelled'
        BY <1>12, <2>3, <2>4, <2>8 DEF Chain, Cancelled
    <2>15. Holds'
        <3>1. PR!Owns(g)'
            BY <1>2, <1>4 DEF PR!Owns
        <3>2. \A k \in PR!Job, n \in Nat : InPlay(k, n)' => n < prRow'.gen
            BY <2>4, <2>8
        <3>3. \A h \in Client : Deleting(h)' /\ prOp'[h].id = prRow'.id
                 => prOp'[h].gen <= prRow'.gen
            BY <1>1, <2>9, Ranges, <1>8 DEF OpRecord
        <3> QED
            BY <2>2, <2>10, <3>1, <3>2, <3>3 DEF Holds
    <2>16. Attended'
        BY <1>2, <1>4 DEF Attended
    <2>17. NothingElse'
        <3>1. CASE prRow.id # 0
            BY <1>1, <3>1 DEF World, NothingElse, Unnamed, Remembers
        <3>2. CASE prRow.id = 0
            <4>1. box = {}
                BY <3>2, PreviewLimits DEF World, NothingElse, PreviewTypes
            <4>2. \A i \in PR!Id : Unnamed(i)
                BY <3>2, PreviewLimits DEF World, NothingElse
            <4> QED
                BY <1>1, <4>1, <4>2 DEF NothingElse, Unnamed, Remembers
        <3> QED
            BY <3>1, <3>2
    <2>18. Standing /\ Standing'
        BY <2>1, <2>2 DEF Standing, Holding, Removing
    <2>19. HostOfRow'
        <3>1. \A h \in Client : prOp'[h].at \notin {"unbox", "unrow"}
            BY <2>2 DEF Removing
        <3>2. CASE prRow.id # 0
            BY <1>1, <2>18, <3>1, <3>2 DEF World, HostOfRow, Unnamed, Remembers
        <3>3. CASE prRow.id = 0
            <4>1. prRow'.id \in PR!Id
                BY <1>7 DEF PR!Id
            <4>2. Unnamed(prRow'.id)
                BY <3>3, <4>1, PreviewLimits DEF World, NothingElse
            <4> QED
                BY <1>1, <2>18, <3>1, <3>3, <4>2 DEF HostOfRow, Unnamed, Remembers
        <3> QED
            BY <3>2, <3>3
    <2>20. \A k \in PR!Job : RunAt(k)'
        <3>1. CASE prRow.id # 0
            BY <1>1, <1>12, <3>1 DEF World, RunAt, PR!NextSlot, PR!NextBox, Remembers
        <3>2. CASE prRow.id = 0
            BY <1>12, <2>7, <3>2 DEF RunAt, Live
        <3> QED
            BY <3>1, <3>2
    <2>21. ServedRow'
        BY <1>1 DEF ServedRow
    <2> QED
        BY <2>11, <2>12, <2>13, <2>14, <2>15, <2>16, <2>17, <2>19, <2>20, <2>21
           DEF Chain, World
<1> QED
    BY <1>11, <1>13, <1>14, <1>15

-----------------------------------------------------------------------------
(* The goroutine is started, in time or not. *)

LEMMA LaunchWrites ==
    ASSUME PR!PreviewAssumption, PreviewTypes, Numbered, AskedOnce, NEW g \in Client,
           prOp[g].at = "drain", PR!Launch(g)
    PROVE  /\ prOp[g].job \in PR!Job /\ job[prOp[g].job].at = "asked"
           /\ job' \in [PR!Job -> JobRecord]
           /\ \A k \in PR!Job : k # prOp[g].job => job'[k] = job[k]
           /\ job'[prOp[g].job].at = "start" /\ job'[prOp[g].job].id = prOp[g].id
           /\ job'[prOp[g].job].gen = prOp[g].gen
           /\ job'[prOp[g].job].cancelled = job[prOp[g].job].cancelled
           /\ prOp' \in [Client -> OpRecord] /\ Others(g)
           /\ prOp'[g].at = "idle" /\ prOp'[g].id = 0 /\ prOp'[g].old = 0 /\ ~prOp'[g].errs
           /\ UNCHANGED <<prRow, lastId, box, prSite, lastHost, epoch, holder, split, partial>>
           /\ UNCHANGED jobs
<1> DEFINE J == prOp[g].job
           to == [job[J] EXCEPT !.at = "start", !.id = prOp[g].id, !.gen = prOp[g].gen]
<1>1. J \in PR!Job /\ job[J].at = "asked" /\ job[J] \in JobRecord /\ "start" \in Stage
      /\ prOp[g].id \in 0..MaxJobs /\ prOp[g].gen \in Nat
    BY Ranges, PreviewLimits DEF AskedOnce, Creating, Stage, LiveStage
<1>2. /\ to \in JobRecord /\ to.at = "start" /\ to.id = prOp[g].id /\ to.gen = prOp[g].gen
      /\ to.cancelled = job[J].cancelled
    BY <1>1 DEF JobRecord
<1>3. job' = [job EXCEPT ![J] = to]
    BY DEF PR!Launch
<1> HIDE DEF to
<1>4. job' \in [PR!Job -> JobRecord] /\ job'[J] = to /\ \A k \in PR!Job : k # J => job'[k] = job[k]
    BY <1>1, <1>2, <1>3, Ranges, JobMoves
<1>5. prOp' \in [Client -> OpRecord] /\ Others(g) /\ prOp'[g] = PR!NoOp
    BY OpEnds DEF PR!Launch
<1>6. /\ prOp'[g].at = "idle" /\ prOp'[g].id = 0 /\ prOp'[g].old = 0 /\ ~prOp'[g].errs
    BY <1>5, Blank
<1>7. UNCHANGED <<prRow, lastId, box, prSite, lastHost, epoch, holder, split, partial>>
         /\ UNCHANGED jobs
    BY DEF PR!Launch, PR!outside, PR!locks
<1> QED
    BY <1>1, <1>2, <1>4, <1>5, <1>6, <1>7

LEMMA LaunchTypes ==
    ASSUME PR!PreviewAssumption, PreviewTypes, Numbered, AskedOnce, NEW g \in Client,
           prOp[g].at = "drain", PR!Launch(g), overran' \in BOOLEAN
    PROVE  PreviewTypes' /\ Numbered' /\ AskedOnce'
<1> DEFINE J == prOp[g].job
<1>1. /\ J \in PR!Job /\ job[J].at = "asked"
      /\ job' \in [PR!Job -> JobRecord] /\ (\A k \in PR!Job : k # J => job'[k] = job[k])
      /\ job'[J].at = "start" /\ job'[J].id = prOp[g].id /\ job'[J].gen = prOp[g].gen
      /\ job'[J].cancelled = job[J].cancelled
      /\ prOp' \in [Client -> OpRecord] /\ Others(g)
      /\ prOp'[g].at = "idle" /\ prOp'[g].id = 0 /\ prOp'[g].old = 0 /\ ~prOp'[g].errs
      /\ UNCHANGED <<prRow, lastId, box, prSite, lastHost, epoch, holder, split, partial>>
      /\ UNCHANGED jobs
    BY LaunchWrites
<1> HIDE DEF J
<1>2. \A h \in Client : prOp'[h] = prOp[h] \/ h = g
    BY <1>1 DEF Others
<1>3. PreviewTypes'
    BY <1>1 DEF PreviewTypes
<1>4. Numbered'
    <2>1. \A h \in Client : prOp'[h].at \notin {"idle", "lock"} => prOp'[h].id # 0
        BY <1>1, <1>2 DEF Numbered
    <2>2. \A h \in Client : prOp'[h].id = prOp[h].id \/ prOp'[h].id \in {0, prRow.id}
        BY <1>1, <1>2
    <2>3. \A h \in Client : prOp'[h].at = "lock"
             => prOp[h].at = "lock" /\ prOp'[h].job = prOp[h].job
        BY <1>1, <1>2
    <2>4. \A k \in PR!Job : Live(k)' => job'[k].id # 0
        BY <1>1 DEF Numbered, Live
    <2>5. \A k \in PR!Job : job[k].at # "none" => job'[k].at # "none"
        BY <1>1
    <2> QED
        BY <1>1, <1>3, <2>1, <2>2, <2>3, <2>4, <2>5, NumberedKept
<1>5. AskedOnce'
    <2>1. \A h \in Client : Creating(h)' => h # g /\ Creating(h) /\ prOp'[h].job = prOp[h].job
        BY <1>1, <1>2 DEF Creating
    <2>2. \A h \in Client : prOp'[h].at \in {"lock", "install"}
             => prOp[h].at \in {"lock", "install"}
        BY <1>1, <1>2
    <2>3. ASSUME NEW h \in Client, Creating(h)' PROVE job'[prOp'[h].job].at = "asked"
        <3>1. prOp[h].job \in PR!Job /\ job[prOp[h].job].at = "asked"
            BY <2>1, <2>3, Ranges, PreviewLimits DEF AskedOnce
        <3>2. prOp[h].job # J
            BY <2>1, <2>3 DEF AskedOnce, Creating, J
        <3> QED
            BY <1>1, <2>1, <2>3, <3>1, <3>2
    <2>4. \A h \in Client : prOp'[h].old \in {0, prOp[h].old}
        BY <1>1, <1>2
    <2>5. \A k \in PR!Job : (job'[k].at = "none" => job[k].at = "none")
                         /\ (job'[k].cancelled => job[k].cancelled)
        BY <1>1
    <2> QED
        BY <1>1, <2>1, <2>2, <2>3, <2>4, <2>5, AskedKept
<1> QED
    BY <1>3, <1>4, <1>5

LEMMA SpawnAnywayKeeps ==
    ASSUME PR!PreviewAssumption, PreviewInv, NEW g \in Client, PR!SpawnAnyway(g)
    PROVE  PreviewInv'
<1>1. PreviewTypes' /\ Numbered' /\ AskedOnce'
    BY LaunchTypes DEF PreviewInv, PR!SpawnAnyway
<1>2. ~PR!Calm'
    BY DEF PR!SpawnAnyway, PR!Calm
<1> QED
    BY <1>1, <1>2 DEF PreviewInv

LEMMA SpawnKeeps ==
    ASSUME PR!PreviewAssumption, PreviewInv, Remembers, NEW g \in Client, PR!Spawn(g)
    PROVE  PreviewInv'
<1> USE DEF PreviewInv
<1> DEFINE J == prOp[g].job
<1>1. prOp[g].at = "drain" /\ PR!Drained(prOp[g].old) /\ PR!Launch(g) /\ overran' = overran
    BY DEF PR!Spawn
<1>2. /\ J \in PR!Job /\ job[J].at = "asked"
      /\ job' \in [PR!Job -> JobRecord] /\ (\A k \in PR!Job : k # J => job'[k] = job[k])
      /\ job'[J].at = "start" /\ job'[J].id = prOp[g].id /\ job'[J].gen = prOp[g].gen
      /\ job'[J].cancelled = job[J].cancelled
      /\ prOp' \in [Client -> OpRecord] /\ Others(g)
      /\ prOp'[g].at = "idle" /\ prOp'[g].id = 0 /\ prOp'[g].old = 0 /\ ~prOp'[g].errs
      /\ UNCHANGED <<prRow, lastId, box, prSite, lastHost, epoch, holder, split, partial>>
      /\ UNCHANGED jobs
    BY <1>1, LaunchWrites
<1>3. PreviewTypes' /\ Numbered' /\ AskedOnce'
    BY <1>1, LaunchTypes DEF PreviewTypes
<1>4. PR!Calm' => Chain' /\ World'
    <2> SUFFICES ASSUME Chain, World PROVE Chain' /\ World'
        BY <1>1, <1>2 DEF PR!Calm
    <2>1. \A h \in Client : prOp'[h] = prOp[h] \/ h = g
        BY <1>2 DEF Others
    <2>2. \A h \in Client : prOp'[h].at \notin {"drain", "idle"}
             \/ prOp[h].at \notin {"drain", "idle"}
                               => prOp'[h] = prOp[h]
        BY <1>1, <1>2, <2>1
    <2>3. \A h \in Client : Waiting(h)' <=> Waiting(h) /\ h # g
        BY <1>2, <2>1 DEF Waiting
    <2>4. \A h \in Client : Waiting(h) /\ h # g => prOp'[h] = prOp[h] /\ prOp[h].job # J
        BY <1>1, <2>1 DEF Waiting, AskedOnce, Creating
    <2>5. \A k \in PR!Job : Live(k)' <=> Live(k) \/ k = J
        BY <1>2 DEF Live
    <2>6. ~Live(J) /\ Waiting(g)
        BY <1>1, <1>2 DEF Live, Waiting
    <2>7. ASSUME NEW k \in PR!Job, NEW n \in Nat PROVE InPlay(k, n)' <=> InPlay(k, n)
        <3>1. CASE k = J
            <4>1. InPlay(k, n) <=> n = prOp[g].gen
                BY <2>4, <2>6, <3>1 DEF InPlay
            <4>2. InPlay(k, n)' <=> n = prOp[g].gen
                BY <1>2, <2>3, <2>4, <2>5, <3>1 DEF InPlay
            <4> QED
                BY <4>1, <4>2
        <3>2. CASE k # J
            BY <1>2, <2>3, <2>4, <2>5, <3>2 DEF InPlay
        <3> QED
            BY <3>1, <3>2
    <2>8. \A k \in PR!Job, n \in Nat : UpTo(k, n)' <=> UpTo(k, n)
        BY <2>7 DEF UpTo
    <2>9. \A h \in Client : (Deleting(h)' <=> Deleting(h)) /\ (Deleting(h) => prOp'[h] = prOp[h])
        BY <2>2 DEF Deleting
    <2>10. \A h \in Client : /\ (Holding(h)' <=> Holding(h)) /\ (Removing(h)' <=> Removing(h))
                             /\ (Holding(h) => prOp'[h] = prOp[h])
                             /\ (prOp'[h].at = "install" <=> prOp[h].at = "install")
        BY <2>2 DEF Holding, Removing
    <2>11. \A k \in PR!Job : job'[k].cancelled = job[k].cancelled
        BY <1>2
    <2>12. Exclusive'
        BY <1>2, <2>10 DEF Chain, Exclusive
    <2>13. OfTheRow'
        <3>1. \A k \in PR!Job : Live(k)' => job'[k].id = prRow'.id
            BY <1>2, <2>5, <2>6 DEF Chain, OfTheRow
        <3>2. \A h \in Client : Waiting(h)' => prOp'[h].id = prRow'.id
            BY <1>2, <2>3, <2>4 DEF Chain, OfTheRow
        <3> QED
            BY <1>2, <2>7, <3>1, <3>2 DEF Chain, OfTheRow
    <2>14. Queue'
        <3>1. ASSUME NEW i \in PR!Job, NEW k \in PR!Job, NEW n \in Nat, Live(i)', InPlay(k, n)'
              PROVE  job'[i].gen <= n
            <4>1. CASE i # J
                BY <1>2, <2>5, <2>7, <3>1, <4>1 DEF Chain, Queue
            <4>2. CASE i = J
                <5>1. ~(n < prOp[g].gen)
                    BY <1>1, <2>6, <2>7, <3>1, DrainedIsOut DEF Chain, Queue
                <5> QED
                    BY <1>2, <4>2, <5>1, Ranges
            <4> QED
                BY <4>1, <4>2
        <3>2. ASSUME NEW h \in Client, NEW k \in PR!Job, NEW n \in Nat,
                     Waiting(h)', InPlay(k, n)', n < prOp'[h].gen
              PROVE  \E i \in PR!Job : prOp'[h].old = i /\ UpTo(i, n)'
            BY <2>3, <2>4, <2>7, <2>8, <3>2 DEF Chain, Queue
        <3>3. ASSUME NEW h \in Client, NEW k \in PR!Job, NEW n \in Nat,
                     Deleting(h)', PR!Owns(h)', InPlay(k, n)'
              PROVE  \E i \in PR!Job : prOp'[h].old = i /\ UpTo(i, n)'
            BY <1>2, <2>7, <2>8, <2>9, <3>3 DEF Chain, Queue, PR!Owns
        <3>4. ASSUME NEW k \in PR!Job, NEW n \in Nat, InPlay(k, n)'
              PROVE  \E i \in PR!Job : jobs'[prRow'.id] = i /\ UpTo(i, n)'
            BY <1>2, <2>7, <2>8, <3>4 DEF Chain, Queue
        <3> QED
            BY <3>1, <3>2, <3>3, <3>4 DEF Queue
    <2>15. Cancelled'
        BY <1>2, <2>3, <2>4, <2>7, <2>9, <2>11 DEF Chain, Cancelled
    <2>16. Holds'
        BY <1>2, <2>7, <2>9, <2>10 DEF Chain, Holds, Holding, PR!Owns
    <2>17. Attended'
        <3>1. \A h \in Client : prOp[h].at = "install"
                 \/ ((Deleting(h) \/ Removing(h)) /\ PR!Owns(h))
                  => prOp'[h].at = "install" \/ ((Deleting(h) \/ Removing(h)) /\ PR!Owns(h))'
            BY <1>2, <2>9, <2>10 DEF Holding, PR!Owns
        <3> QED
            BY <1>2, <2>7, <3>1 DEF Chain, Attended, Remembers
    <2>18. \A h \in Client : prOp'[h].at \in {"unbox", "unrow"} => prOp'[h].errs = prOp[h].errs
        BY <2>2
    <2>19. prRow'.status = "running" =>
              /\ \A k \in PR!Job, n \in Nat : ~InPlay(k, n)'
              /\ \A h \in Client : prOp'[h].at # "install"
        BY <1>2, <2>7, <2>10 DEF World, ServedRow
    <2>20. \A k \in PR!Job : job'[k] = job[k] \/ (job'[k].at = "start" /\ job[k].at = "asked")
        BY <1>2
    <2>21. World'
        BY <1>2, <2>2, <2>18, <2>19, <2>20, WorldKept
    <2> QED
        BY <2>12, <2>13, <2>14, <2>15, <2>16, <2>17, <2>21 DEF Chain
<1> QED
    BY <1>3, <1>4

-----------------------------------------------------------------------------
LEMMA OpStepKeeps ==
    ASSUME PR!PreviewAssumption, PreviewInv, NEW g \in Client, PR!OpStep(g)
    PROVE  PreviewInv'
<1>0. Remembers
    BY OpStepRemembers
<1>1. CASE PR!DeletePreview(g)
    <2>1. /\ prOp' \in [Client -> OpRecord] /\ Others(g)
          /\ prOp'[g].at = "bump" /\ prOp'[g].id = prRow.id /\ prOp'[g].old = 0 /\ ~prOp'[g].errs
          /\ prOp[g].at = "idle" /\ prRow.id # 0
          /\ UNCHANGED <<prRow, lastId, box, prSite, lastHost, job, epoch, holder, split, partial,
             overran>>
          /\ UNCHANGED jobs
        BY <1>1, DeleteBegins
    <2>2. split' \in BOOLEAN /\ (split => split') /\ ~Deleting(g)
        BY <2>1 DEF PreviewInv, PreviewTypes, Deleting
    <2> QED
        BY <1>0, <2>1, <2>2, IdleKeeps
<1>2. CASE PR!Bump(g)
    <2>1. CASE prRow.id = prOp[g].id
        BY <1>0, <1>2, <2>1, BumpKeeps
    <2>2. CASE prRow.id # prOp[g].id
        BY <1>0, <1>2, <2>2, OpEndsKeep DEF PR!Bump
    <2> QED
        BY <2>1, <2>2
<1>3. CASE PR!Verify(g)
    <2>1. CASE PR!Owns(g) /\ PR!Lock(g) /\ PR!Goto(g, "unhost")
        BY <1>0, <1>3, <2>1, VerifyKeeps
    <2>2. CASE /\ PR!LockBriefly(g) /\ PR!EndOp(g)
               /\ ~PR!Owns(g) \/ <<prRow.id, prRow.gen>> \in cut'
        BY <1>0, <1>3, <2>2, OpEndsKeep DEF PR!Verify
    <2> QED
        BY <1>3, <2>1, <2>2 DEF PR!Verify
<1> QED
    BY <1>0, <1>1, <1>2, <1>3, CreateKeeps, UpsertKeeps, InstallKeeps, CancelKeeps, SpawnKeeps,
       SpawnAnywayKeeps, GiveUpKeeps, DeleteHostKeeps, RemoveBoxesKeeps, DeleteRowKeeps
       DEF PR!OpStep

(* The panel dies.  *)
LEMMA CrashKeeps ==
    ASSUME PR!PreviewAssumption, PreviewInv, PR!Crash
    PROVE  PreviewInv'
<1> USE DEF PreviewInv
<1>1. /\ prOp' = [g \in Client |-> PR!NoOp]
      /\ job' = [j \in PR!Job |->
                    IF job[j].at = "none" THEN job[j] ELSE [job[j] EXCEPT !.at = "done"]]
      /\ jobs' = [i \in PR!Id |-> 0] /\ holder' = [e \in PR!Epoch |-> PR!Nobody]
      /\ cut' = cut \cup (IF prRow.status \in {"pending", "building"}
                         THEN {<<prRow.id, prRow.gen>>} ELSE {})
      /\ strays' = strays \cup {job[j].host : j \in {k \in PR!Job : job[k].at = "claim"}}
      /\ partial' = (partial \/ \E g \in Client : prOp[g].at \in {"unbox", "unrow"})
      /\ UNCHANGED <<prRow, lastId, box, prSite, lastHost, epoch, split, overran, lingers>>
    BY DEF PR!Crash, PR!outside
<1>2. /\ prOp' \in [Client -> OpRecord]
      /\ \A g \in Client : prOp'[g].at = "idle" /\ prOp'[g].id = 0 /\ prOp'[g].old = 0
    BY <1>1, Blank
<1>3. job' \in [PR!Job -> JobRecord] /\ \A j \in PR!Job : job'[j] = job[j] \/ job'[j].at = "done"
    <2>1. \A j \in PR!Job : LET to == [job[j] EXCEPT !.at = "done"] IN
                            to \in JobRecord /\ to.at = "done"
        <3>1. "done" \in Stage
            BY DEF Stage
        <3> QED
            BY <3>1, Ranges, JobAt
    <2> QED
        BY <1>1, <2>1, Ranges
<1>4. \A j \in PR!Job : /\ job'[j].at = "none" => job[j].at = "none" /\ job'[j] = job[j]
                        /\ job[j].at # "none" => job'[j].at = "done"
                        /\ ~Live(j)'
    <2>1. \A j \in PR!Job : job[j].at # "none" => job'[j] = [job[j] EXCEPT !.at = "done"]
        BY <1>1
    <2>2. \A j \in PR!Job : job[j].at # "none" => job'[j].at = "done"
        BY <2>1, Ranges DEF JobRecord
    <2>3. \A j \in PR!Job : job[j].at = "none" => job'[j] = job[j]
        BY <1>1
    <2> QED
        BY <2>2, <2>3 DEF Live
<1>5. PreviewTypes'
    <2>1. jobs' \in [PR!Id -> 0..MaxJobs] /\ holder' \in [PR!Epoch -> Client \cup {PR!Nobody}]
        BY <1>1, PreviewLimits
    <2> QED
        BY <1>1, <1>2, <1>3, <2>1 DEF PreviewTypes
<1>6. Numbered'
    <2>1. \A k \in PR!Job : Live(k)' => job'[k].id # 0
        BY <1>4
    <2>2. \A k \in PR!Job : job[k].at # "none" => job'[k].at # "none"
        BY <1>4
    <2>3. prRow'.id = prRow.id /\ (prRow.id = 0 => prRow' = prRow)
        BY <1>1
    <2> QED
        BY <1>1, <1>2, <1>5, <2>1, <2>2, <2>3, NumberedKept
<1>7. AskedOnce'
    <2>1. \A g \in Client : ~Creating(g)' /\ prOp'[g].at \notin {"lock", "install"}
        BY <1>2 DEF Creating
    <2>2. ASSUME NEW k \in PR!Job, job'[k].at = "none"
          PROVE  /\ ~job'[k].cancelled
                 /\ \A i \in PR!Id : jobs'[i] # k
                 /\ \A h \in Client : prOp'[h].old # k
        <3>1. ~job[k].cancelled /\ job'[k] = job[k] /\ k # 0
            BY <1>4, <2>2, PreviewLimits DEF AskedOnce
        <3> QED
            BY <1>1, <1>2, <3>1
    <2> QED
        BY <2>1, <2>2 DEF AskedOnce
<1>8. PR!Calm' => Chain' /\ World'
    <2> SUFFICES ASSUME PR!Calm' PROVE Chain' /\ World'
        OBVIOUS
    <2>1. PR!Calm /\ Standing
        BY <1>1 DEF PR!Calm, Standing
    <2>2. Chain /\ World
        BY <2>1
    <2>3. \A g \in Client : /\ ~Waiting(g)' /\ ~Deleting(g)' /\ ~Removing(g)' /\ ~Holding(g)'
                            /\ prOp'[g].at \notin {"install", "unbox", "unrow"}
        BY <1>2 DEF Waiting, Deleting, Removing, Holding
    <2>4. \A k \in PR!Job, n \in Nat : ~InPlay(k, n)'
        BY <1>4, <2>3 DEF InPlay
    <2>5. Chain'
        BY <1>1, <1>4, <2>3, <2>4
           DEF Chain, Exclusive, OfTheRow, Queue, Cancelled, Holds, Attended
    <2>6. \A i : Unnamed(i) => Unnamed(i)'
        BY <1>1 DEF Unnamed
    <2>7. NothingElse'
        BY <1>1, <2>2, <2>6 DEF World, NothingElse
    <2>8. HostOfRow'
        <3>1. ASSUME prRow.id # 0, prRow.host = 0 PROVE Unnamed(prRow.id)'
            <4>1. CASE \A k \in PR!Job : job[k].at # "claim"
                BY <1>1, <2>1, <2>2, <2>6, <3>1, <4>1 DEF World, HostOfRow, Unnamed
            <4>2. CASE \E k \in PR!Job : job[k].at = "claim"
                <5>1. PICK k \in PR!Job : job[k].at = "claim"
                    BY <4>2
                <5>2. RunAt(k)
                    BY <2>2 DEF World
                <5>3. prSite[prRow.id] = [host |-> job[k].host, slot |-> PR!NextSlot(k)]
                    BY <5>1, <5>2 DEF RunAt
                <5>4. job[k].host \in strays' /\ UNCHANGED <<prRow, prSite>>
                    BY <1>1, <5>1
                <5> QED
                    BY <5>3, <5>4 DEF Unnamed
            <4> QED
                BY <4>1, <4>2
        <3>2. prRow.id # 0 /\ prRow.host # 0 => prSite[prRow.id].host = prRow.host
            BY <2>1, <2>2 DEF World, HostOfRow
        <3> QED
            BY <1>1, <2>3, <3>1, <3>2 DEF HostOfRow
    <2>9. \A k \in PR!Job : RunAt(k)'
        BY <1>4 DEF RunAt, Live
    <2>10. ServedRow'
        BY <1>1, <2>1, <2>2, <2>3, <2>4 DEF World, ServedRow, BehindItsHost
    <2> QED
        BY <2>5, <2>7, <2>8, <2>9, <2>10 DEF World
<1> QED
    BY <1>5, <1>6, <1>7, <1>8

LEMMA PreviewStep ==
    ASSUME PR!PreviewAssumption, PreviewInv, [PR!Next]_(PR!vars)
    PROVE  PreviewInv'
<1>1. ASSUME NEW j \in PR!Job, PR!RunStep(j) PROVE PreviewInv'
    <2>1. PreviewTypes /\ Numbered /\ AskedOnce /\ RunKeeps(j)
        BY <1>1, RunStepKeeps DEF PreviewInv
    <2>2. PreviewTypes' /\ Numbered' /\ AskedOnce'
        BY <2>1, RunKeepsTypes
    <2>3. PR!Calm' => PR!Calm
        BY <2>1 DEF RunKeeps, PR!quiet, PR!locks, PR!Calm
    <2>4. PR!Calm => Chain' /\ World'
        BY <1>1, <2>1, RunKeepsChain, RunStepWorld DEF PreviewInv, World
    <2> QED
        BY <2>2, <2>3, <2>4 DEF PreviewInv
<1>2. CASE UNCHANGED PR!vars
    <2>1. UNCHANGED <<prRow, lastId, box, prSite, lastHost, job, prOp, epoch, holder, overran,
          split, partial, cut, strays, lingers>>
          /\ UNCHANGED jobs
        BY <1>2 DEF PR!vars
    <2>2. \A g \in Client : /\ Waiting(g)' = Waiting(g) /\ Deleting(g)' = Deleting(g)
                            /\ Removing(g)' = Removing(g) /\ PR!Owns(g)' = PR!Owns(g)
                            /\ Holding(g)' = Holding(g)
        BY <2>1 DEF Waiting, Deleting, Removing, PR!Owns, Holding
    <2>3. \A k \in PR!Job : Live(k)' = Live(k)
        BY <2>1 DEF Live
    <2>4. \A k \in PR!Job, n \in Nat : InPlay(k, n)' = InPlay(k, n)
        BY <2>1, <2>2, <2>3 DEF InPlay
    <2>5. \A k \in PR!Job, n \in Nat : UpTo(k, n)' <=> UpTo(k, n)
        BY <2>4 DEF UpTo
    <2>6. PreviewTypes' /\ Numbered' /\ AskedOnce'
        <3>1. PreviewTypes'
            BY <2>1 DEF PreviewInv, PreviewTypes
        <3>2. Recorded' = Recorded
            BY <2>1 DEF Recorded
        <3>3. Numbered'
            BY <2>1, <2>3, <3>2 DEF PreviewInv, Numbered
        <3>4. AskedOnce'
            BY <2>1 DEF PreviewInv, AskedOnce, Creating
        <3> QED
            BY <3>1, <3>3, <3>4
    <2>7. Chain => Chain'
        <3>1. Exclusive /\ OfTheRow => Exclusive' /\ OfTheRow'
            BY <2>1, <2>2, <2>3, <2>4 DEF Exclusive, OfTheRow
        <3>2. Queue => Queue'
            BY <2>1, <2>2, <2>3, <2>4, <2>5 DEF Queue
        <3>3. Cancelled /\ Holds /\ Attended => Cancelled' /\ Holds' /\ Attended'
            BY <2>1, <2>2, <2>4 DEF Cancelled, Holds, Attended
        <3> QED
            BY <3>1, <3>2, <3>3 DEF Chain
    <2>8. World => World'
        BY <2>1, <2>4
           DEF World, NothingElse, Unnamed, HostOfRow, Standing, RunAt, PR!NextBox, PR!NextSlot,
               ServedRow, BehindItsHost
    <2>9. PR!Calm' => PR!Calm
        BY <2>1 DEF PR!Calm
    <2> QED
        BY <2>6, <2>7, <2>8, <2>9 DEF PreviewInv
<1> QED
    BY <1>1, <1>2, OpStepKeeps, CrashKeeps DEF PR!Next

(* Every state a preview gets into satisfies the invariant, for every      *)
(* number of requests, builds, deletions and hosts.                        *)
THEOREM PreviewInvariance ==
    ASSUME PR!PreviewAssumption PROVE PR!Spec => []PreviewInv
<1>1. PR!Init => PreviewInv
    BY InitPreviewInv
<1>2. PreviewInv /\ [PR!Next]_(PR!vars) => PreviewInv'
    BY PreviewStep
<1> QED
    BY <1>1, <1>2, PTL DEF PR!Spec

-----------------------------------------------------------------------------
LEMMA OneLive ==
    ASSUME PR!PreviewAssumption, PreviewInv PROVE PR!OneRunPerPreview
<1> SUFFICES ASSUME PR!Calm, NEW j \in PR!Job, NEW k \in PR!Job, Live(j), Live(k) PROVE j = k
    BY DEF PR!OneRunPerPreview, Live
<1>1. RunsAlone(j)
    BY AloneWhileLive DEF PreviewInv
<1> QED
    BY <1>1 DEF RunsAlone

LEMMA NobodyIsInPlay ==
    ASSUME PR!Settled
    PROVE  /\ \A j \in PR!Job, n \in Nat : ~InPlay(j, n)
           /\ \A g \in Client : prOp[g].at # "install" /\ ~Deleting(g) /\ ~Removing(g)
           /\ Standing
BY DEF PR!Settled, InPlay, Live, Waiting, Deleting, Removing, Standing

LEMMA SettledServes ==
    ASSUME PR!PreviewAssumption, PreviewInv, PR!Settled, PR!Calm
    PROVE  PR!RunningIsServed /\ PR!NoneIsStranded /\ PR!NoOrphans
<1>1. Chain /\ World
    BY DEF PreviewInv
<1>2. PR!RunningIsServed
    <2> SUFFICES ASSUME prRow.status = "running"
                 PROVE  /\ <<prRow.id, prRow.slot>> \in box
                        /\ \A b \in box : b[1] = prRow.id => b[2] = prRow.slot \/ b \in lingers
                        /\ prSite[prRow.id] = [host |-> prRow.host, slot |-> prRow.slot]
        BY DEF PR!RunningIsServed
    <2>1. BehindItsHost
        BY <1>1, NobodyIsInPlay DEF World, ServedRow
    <2> QED
        BY <2>1 DEF BehindItsHost
<1>3. PR!NoneIsStranded
    BY <1>1, NobodyIsInPlay DEF PR!NoneIsStranded, PR!Stranded, Chain, Attended
<1>4. PR!NoOrphans
    BY <1>1 DEF PR!NoOrphans, World, NothingElse, Unnamed
<1> QED
    BY <1>2, <1>3, <1>4

-----------------------------------------------------------------------------
(* The behaviours of the composition are behaviours of a preview.          *)
LEMMA PreviewsPart == MCSpec => PR!Spec
<1>1. MCInit => PR!Init
    BY DEF MCInit
<1>2. [MCNext]_<<part, vars, prVars, updaterVars>> => [PR!Next]_(PR!vars)
    BY DEF MCNext, prVars, updaterVars, PR!vars
<1> QED
    BY <1>1, <1>2, PTL DEF MCSpec, PR!Spec

(* Every state of the composition satisfies the invariant.                 *)
LEMMA InvarianceOfPreviews == MCSpec => []PreviewInv
BY PreviewsPart, PreviewInvariance, RolloutsAssumption, PTL

(* "Only one runPreview for a given preview ID is ever running".           *)
THEOREM OneRunAtATime == MCSpec => []OneRunPerPreview
<1>1. PreviewInv => OneRunPerPreview
    BY OneLive, RolloutsAssumption DEF OneRunPerPreview
<1> QED
    BY <1>1, InvarianceOfPreviews, PTL

(* When all has settled, a preview that is said to run is served by the    *)
(* container its row names, behind the host its row names, and has no      *)
(* other container but one whose removal failed.                           *)
THEOREM PreviewsAreServed == MCSpec => []RunningIsServed
<1>1. PreviewInv => RunningIsServed
    BY SettledServes, RolloutsAssumption DEF RunningIsServed, PR!RunningIsServed
<1> QED
    BY <1>1, InvarianceOfPreviews, PTL

(* When all has settled, no preview says that it is still to be built,     *)
(* unless the deadline, an error or the panel's death cut short the very   *)
(* generation it is at.                                                    *)
THEOREM NobodyWaitsForever == MCSpec => []NoneIsStranded
<1>1. PreviewInv => NoneIsStranded
    BY SettledServes, RolloutsAssumption DEF NoneIsStranded, PR!NoneIsStranded
<1> QED
    BY <1>1, InvarianceOfPreviews, PTL

(* When all has settled, nothing runs for a preview that has no row, and   *)
(* its domain has no host but one whose id no row took, or whose removal   *)
(* by a build failed.                                                      *)
THEOREM DeletedPreviewsAreGone == MCSpec => []NoOrphans
<1>1. PreviewInv => NoOrphans
    BY SettledServes, RolloutsAssumption DEF NoOrphans, PR!NoOrphans
<1> QED
    BY <1>1, InvarianceOfPreviews, PTL
=============================================================================

----------------------------- MODULE BuildQueue -----------------------------
(***************************************************************************)
(* The build queue of the deploy plugin (plugins/deploy/service.go: Build, *)
(* buildLoop) and the git poller (plugins/deploy/poller.go) that feeds it. *)
(*                                                                         *)
(* A critical section of buildMu is one step; a run happens outside it and *)
(* is cut at the points that matter: the pull, which fixes the commit that *)
(* is built, the record of that commit, and the deploy, which comes after  *)
(* the record and may fail.  singleflight.Do, which joins two runs of a    *)
(* project, is left out: the flag below keeps a second caller from         *)
(* reaching it.                                                            *)
(***************************************************************************)
EXTENDS Naturals, FiniteSets

CONSTANTS
    Project,
    Loop,          \* goroutines that may run buildLoop
    MaxConcurrent, \* capacity of buildSem
    Nothing,       \* no project
    MaxPushes,     \* bound: commits pushed to a remote
    MaxRequests,   \* bound: builds asked for by users and webhooks
    MaxFailures,   \* bound: builds, records and deploys that fail
    MaxCrashes     \* bound: deaths of the panel's process

BuildQueueAssumption == Nothing \notin Project

VARIABLES
    inflight,  \* buildInflight
    pending,   \* buildPending
    sem,       \* buildSem: the loops that hold a slot
    at,        \* at[g]: how far loop g has got
    proj,      \* proj[g]: the project it builds
    pulled,    \* pulled[g]: the commit its run builds
    head,      \* head[p]: the remote's newest commit (commits are numbered)
    built,     \* last_deployed_commit
    due,       \* history: projects with an answered request no run followed yet
    served,    \* history: the commit whose build was deployed last
    missed,    \* history: the commit last recorded by a run whose deploy then failed
    looked,    \* projects pollOne has decided to build and not yet asked for
    asked, failed, crashed   \* counters of the bounds

loops == <<at, proj, pulled>>
rows == <<head, built, served, missed>>
vars == <<inflight, pending, sem, loops, due, rows, looked, asked, failed, crashed>>
counts == <<asked, failed, crashed>>

Init ==
    /\ inflight = {} /\ pending = {} /\ sem = {} /\ looked = {} /\ due = {}
    /\ at = [g \in Loop |-> "none"]
    /\ proj = [g \in Loop |-> Nothing]
    /\ pulled = [g \in Loop |-> 0]
    /\ head = [p \in Project |-> 0]
    /\ built = [p \in Project |-> 0]
    /\ served = [p \in Project |-> 0]
    /\ missed = [p \in Project |-> 0]
    /\ asked = 0 /\ failed = 0 /\ crashed = 0

-----------------------------------------------------------------------------
(* Build(projectID) *)

(* A bug: the request is taken for the build in flight. *)
CoalesceSilently(p) ==
    /\ p \in inflight
    /\ due' = due \cup {p}
    /\ UNCHANGED <<inflight, pending, sem, loops>>

(* A build is in flight: it will be followed by another. *)
Coalesce(p) ==
    /\ p \in inflight
    /\ pending' = pending \cup {p}
    /\ due' = due \cup {p}
    /\ UNCHANGED <<inflight, sem, loops>>

QueueFull(p) ==
    /\ p \notin inflight
    /\ Cardinality(sem) >= MaxConcurrent
    /\ UNCHANGED <<due, inflight, pending, sem, loops>>

StartLoop(p, g) ==
    /\ p \notin inflight
    /\ Cardinality(sem) < MaxConcurrent
    /\ at[g] = "none"
    /\ sem' = sem \cup {g}
    /\ inflight' = inflight \cup {p}
    /\ at' = [at EXCEPT ![g] = "begin"]
    /\ proj' = [proj EXCEPT ![g] = p]
    /\ due' = due \cup {p}
    /\ UNCHANGED <<pending, pulled>>

Build(p) == Coalesce(p) \/ QueueFull(p) \/ \E g \in Loop : StartLoop(p, g)

(* A user or a webhook asks. *)
Request(p) ==
    /\ asked < MaxRequests
    /\ asked' = asked + 1
    /\ Build(p)
    /\ UNCHANGED <<rows, looked, failed, crashed>>

-----------------------------------------------------------------------------
(* The poller: pollOne lists the remote, compares with the project's row   *)
(* read after that, looks at the flag, then asks for a build.              *)
PollLook(p) ==
    /\ head[p] # built[p]
    /\ p \notin inflight \cup looked
    /\ looked' = looked \cup {p}
    /\ UNCHANGED <<due, inflight, pending, sem, loops, rows, counts>>

PollBuild(p) ==
    /\ p \in looked
    /\ looked' = looked \ {p}
    /\ Build(p)
    /\ UNCHANGED <<rows, counts>>

Push(p) ==
    /\ head[p] < MaxPushes
    /\ head' = [head EXCEPT ![p] = @ + 1]
    /\ UNCHANGED <<due, inflight, pending, sem, loops, built, served, missed, looked, counts>>

-----------------------------------------------------------------------------
(* buildLoop *)

Goto(g, from, to) == at[g] = from /\ at' = [at EXCEPT ![g] = to]

BeginRun(g) ==
    /\ Goto(g, "begin", "run")
    /\ due' = due \ {proj[g]}
    /\ UNCHANGED <<inflight, pending, sem, proj, pulled, rows, looked, counts>>

Pull(g) ==
    /\ Goto(g, "run", "pulled")
    /\ pulled' = [pulled EXCEPT ![g] = head[proj[g]]]
    /\ UNCHANGED <<due, inflight, pending, sem, proj, rows, looked, counts>>

(* A bug: the commit recorded is the remote's newest, not the one built. *)
RecordWithHead(g) ==
    /\ Goto(g, "pulled", "recorded")
    /\ built' = [built EXCEPT ![proj[g]] = head[proj[g]]]
    /\ UNCHANGED <<due, inflight, pending, sem, proj, pulled, head, served, missed, looked, counts>>

(* The build succeeded: last_deployed_commit, before anything is deployed. *)
Record(g) ==
    /\ Goto(g, "pulled", "recorded")
    /\ built' = [built EXCEPT ![proj[g]] = pulled[g]]
    /\ UNCHANGED <<due, inflight, pending, sem, proj, pulled, head, served, missed, looked, counts>>

(* No commit is known, or the statement's ignored error. *)
RecordFails(g) ==
    /\ failed < MaxFailures
    /\ failed' = failed + 1
    /\ Goto(g, "pulled", "recorded")
    /\ UNCHANGED <<due, inflight, pending, sem, proj, pulled, rows, looked, asked, crashed>>

Deploy(g) ==
    /\ Goto(g, "recorded", "decide")
    /\ served' = [served EXCEPT ![proj[g]] = pulled[g]]
    /\ UNCHANGED <<due, inflight, pending, sem, proj, pulled, head, built, missed, looked, counts>>

(* What is recorded and not deployed: the poller takes it for deployed. *)
Missing(p, g) == at[g] = "recorded" /\ proj[g] = p /\ built[p] = pulled[g]

MissedWith(stopped) ==
    [p \in Project |->
       IF \E g \in stopped : Missing(p, g) THEN built[p] ELSE missed[p]]

DeployFails(g) ==
    /\ failed < MaxFailures
    /\ failed' = failed + 1
    /\ Goto(g, "recorded", "decide")
    /\ missed' = MissedWith({g})
    /\ UNCHANGED <<due, inflight, pending, sem, proj, pulled, head, built, served, looked, asked, crashed>>

(* The pull or the build fails, and nothing is recorded. *)
Fail(g) ==
    /\ failed < MaxFailures
    /\ failed' = failed + 1
    /\ at[g] \in {"run", "pulled"}
    /\ at' = [at EXCEPT ![g] = "decide"]
    /\ UNCHANGED <<due, inflight, pending, sem, proj, pulled, rows, looked, asked, crashed>>

(* Under the lock: another run, or the flag is cleared and the loop ends. *)
Again(g) ==
    /\ proj[g] \in pending
    /\ Goto(g, "decide", "begin")
    /\ pending' = pending \ {proj[g]}
    /\ UNCHANGED <<due, inflight, sem, proj, pulled, rows, looked, counts>>

Finish(g) ==
    /\ proj[g] \notin pending
    /\ Goto(g, "decide", "leave")
    /\ inflight' = inflight \ {proj[g]}
    /\ UNCHANGED <<due, pending, sem, proj, pulled, rows, looked, counts>>

(* The deferred receive gives the slot back. *)
Leave(g) ==
    /\ at[g] = "leave"
    /\ at' = [at EXCEPT ![g] = "none"]
    /\ proj' = [proj EXCEPT ![g] = Nothing]
    /\ pulled' = [pulled EXCEPT ![g] = 0]
    /\ sem' = sem \ {g}
    /\ UNCHANGED <<due, inflight, pending, rows, looked, counts>>

Crash ==
    /\ crashed < MaxCrashes
    /\ crashed' = crashed + 1
    /\ inflight' = {} /\ pending' = {} /\ sem' = {} /\ looked' = {} /\ due' = {}
    /\ at' = [g \in Loop |-> "none"]
    /\ proj' = [g \in Loop |-> Nothing]
    /\ pulled' = [g \in Loop |-> 0]
    /\ missed' = MissedWith(Loop)
    /\ UNCHANGED <<head, built, served, asked, failed>>

LoopStep(g) ==
    \/ BeginRun(g) \/ Pull(g) \/ Record(g) \/ RecordFails(g) \/ Deploy(g) \/ DeployFails(g)
    \/ Fail(g) \/ Again(g) \/ Finish(g) \/ Leave(g)

Next ==
    \/ \E p \in Project : Request(p) \/ PollLook(p) \/ PollBuild(p) \/ Push(p)
    \/ \E g \in Loop : LoopStep(g)
    \/ Crash

(* A run ends because everything it waits for has a timeout; the poller    *)
(* ticks for ever.                                                         *)
Fairness ==
    /\ \A g \in Loop : WF_vars(LoopStep(g))
    /\ \A p \in Project : WF_vars(PollLook(p)) /\ WF_vars(PollBuild(p))

Spec == Init /\ [][Next]_vars /\ Fairness

-----------------------------------------------------------------------------
Of(stages) == {p \in Project : \E g \in Loop : at[g] \in stages /\ proj[g] = p}

Promise == INSTANCE BuildPromise
    WITH wanted <- due,
         running <- Of({"run", "pulled", "recorded"})

(* A request that was accepted or coalesced is never lost: a run of that   *)
(* project begins after it (the window buildLoop's "exit-race guard"       *)
(* closes), and two runs of a project never overlap.                       *)
ImplementsBuildPromise == Promise!Spec

(* A commit pushed while a build runs, refused for want of a slot, whose   *)
(* build failed or whose request died with the panel is still deployed:    *)
(* once pushes, failures and crashes stop, what is served is the remote's  *)
(* newest.  The one exception is the code's: a commit recorded as deployed *)
(* whose deploy then failed is not tried again by the poller.              *)
CatchesUp == <>[](\A p \in Project : served[p] = head[p] \/ missed[p] = head[p])

(* Every loop holds its slot from Build to its end and no slot is held by  *)
(* anyone else: the queue cannot fill up for good.                         *)
SlotsAreHeldByLoops == sem = {g \in Loop : at[g] # "none"}
=============================================================================

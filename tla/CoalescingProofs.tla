-------------------------- MODULE CoalescingProofs --------------------------
(***************************************************************************)
(* Proofs about the reload coalescer, for every set of callers, and about  *)
(* the build queue, for every set of projects, loops and pushes.  IInv and *)
(* QueueInv are the invariants they rest on; the last theorems carry the   *)
(* results over to the specification the run checks, in which one part     *)
(* moves.                                                                  *)
(***************************************************************************)
EXTENDS MCCoalescing, TLAPS

LEMMA InitIInv == Init => IInv
BY DEF Init, IInv, TypeOK, NoLostWaiter, FreshUnlessLate, WaitersAccounted, HistoryOfCallers,
       AnsweredOnce, OutcomeKnown, InFlight, Results, Calling

LEMMA NextIInv == IInv /\ [Next]_vars => IInv'
<1> SUFFICES ASSUME IInv, [Next]_vars PROVE IInv'
    OBVIOUS
<1> USE DEF IInv, TypeOK, NoLostWaiter, FreshUnlessLate, WaitersAccounted,
            HistoryOfCallers, AnsweredOnce, OutcomeKnown, InFlight, Results, Calling
<1>1. ASSUME NEW c \in Caller, Request(c) PROVE IInv'
    BY <1>1 DEF Request, Rearmed, StopSucceeds
<1>2. ASSUME NEW c \in Caller, Return(c) PROVE IInv'
    BY <1>2 DEF Return
<1>3. CASE FireTimer
    BY <1>3 DEF FireTimer
<1>4. CASE StartReload
    BY <1>4 DEF StartReload
<1>5. ASSUME NEW r \in Results, EndReload(r) PROVE IInv'
    BY <1>5 DEF EndReload
<1>6. CASE Drain
    BY <1>6 DEF Drain
<1>7. CASE UNCHANGED vars
    BY <1>7 DEF vars
<1>8. QED
    BY <1>1, <1>2, <1>3, <1>4, <1>5, <1>6, <1>7 DEF Next

(* The strengthened invariant holds in every reachable state. *)
THEOREM Invariance == Spec => []IInv
<1>1. QED
    BY InitIInv, NextIInv, PTL DEF Spec

(* Every variable keeps its type. *)
THEOREM TypeCorrect == Spec => []TypeOK
<1>1. IInv => TypeOK
    BY DEF IInv
<1>2. QED
    BY <1>1, Invariance, PTL

(* A caller whose channel is in reloadWaiters always has an armed timer or *)
(* a running callback that is still to drain the slice.                    *)
THEOREM NoWaiterIsLost == Spec => []NoLostWaiter
<1>1. IInv => NoLostWaiter
    BY DEF IInv
<1>2. QED
    BY <1>1, Invariance, PTL

(* A request that did not arrive in the middle of a reload is answered by  *)
(* a reload that began after it.                                           *)
THEOREM AnswersAreFresh == Spec => []FreshUnlessLate
<1>1. IInv => FreshUnlessLate
    BY DEF IInv
<1>2. QED
    BY <1>1, Invariance, PTL

(* No reload begins on behalf of a caller for whom one has begun already. *)
THEOREM RequestsAreMerged == Spec => OneReloadPerRequest
<1>1. IInv /\ [Next]_vars => [StartReload => waiters \cap begun = {}]_vars
    BY DEF IInv, WaitersAccounted, InFlight, StartReload
<1>2. QED
    BY <1>1, Invariance, PTL DEF Spec, OneReloadPerRequest

-----------------------------------------------------------------------------
(* The coalescer implements SharedReload, up to fairness. *)

LEMMA InitRefines == Init => Shared!Init
BY DEF Init, Shared!Init, SharedStatus

LEMMA StepRefines == IInv /\ [Next]_vars => [Shared!Next]_SharedStatus
<1> SUFFICES ASSUME IInv, [Next]_vars PROVE [Shared!Next]_SharedStatus
    OBVIOUS
<1> USE DEF IInv, TypeOK, AnsweredOnce, SharedStatus, Results
<1>1. ASSUME NEW c \in Caller, Request(c) PROVE Shared!Request(c)
    BY <1>1 DEF Request, Calling, Shared!Request
<1>2. ASSUME NEW c \in Caller, Return(c) PROVE Shared!Return(c)
    BY <1>2 DEF Return, Shared!Return, Shared!Results
<1>3. CASE FireTimer
    BY <1>3 DEF FireTimer
<1>4. CASE StartReload
    BY <1>4 DEF StartReload
<1>5. ASSUME NEW r \in Results, EndReload(r) PROVE UNCHANGED SharedStatus
    BY <1>5 DEF EndReload
<1>6. ASSUME Drain, waiters # {} PROVE Shared!Serve(outcome)
    BY <1>6 DEF Drain, Shared!Serve, OutcomeKnown
<1>7. ASSUME Drain, waiters = {} PROVE UNCHANGED SharedStatus
    BY <1>7 DEF Drain
<1>8. CASE UNCHANGED vars
    BY <1>8 DEF vars
<1>9. Drain => outcome \in Shared!Results
    BY DEF Drain, OutcomeKnown, Shared!Results
<1> HIDE DEF IInv, TypeOK, AnsweredOnce, SharedStatus
<1>10. QED
    BY <1>1, <1>2, <1>3, <1>4, <1>5, <1>6, <1>7, <1>8, <1>9 DEF Next, Shared!Next

(* Safety part of ImplementsSharedReload: outstanding calls are answered   *)
(* together, with one result, each once.                                   *)
THEOREM Refinement == Spec => Shared!Init /\ [][Shared!Next]_SharedStatus
<1>1. QED
    BY InitRefines, StepRefines, Invariance, PTL DEF Spec

-----------------------------------------------------------------------------
Active == {"begin", "run", "pulled", "recorded", "decide"}

Types ==
    /\ at \in [Loop -> Active \cup {"none", "leave"}]
    /\ proj \in [Loop -> Project \cup {Nothing}]
    /\ \A g \in Loop : at[g] \in Active => proj[g] \in Project

(* A flag is set for the projects that have a loop, and a loop has its own. *)
OneLoopPerFlag ==
    /\ inflight = Builds!Of(Active)
    /\ \A g, h \in Loop : at[g] \in Active /\ at[h] \in Active /\ proj[g] = proj[h] => g = h

(* A request no run has begun for is pending or has a loop about to begin. *)
NoRequestIsLost ==
    /\ pending \subseteq inflight
    /\ due \subseteq pending \cup Builds!Of({"begin"})

QueueInv == Types /\ OneLoopPerFlag /\ NoRequestIsLost /\ Builds!SlotsAreHeldByLoops

-----------------------------------------------------------------------------
LEMMA InitQueueInv == Builds!Init => QueueInv
BY DEF Builds!Init, QueueInv, Types, Active, OneLoopPerFlag, NoRequestIsLost,
       Builds!SlotsAreHeldByLoops, Builds!Of

(* Only at and proj say which projects have a loop at a stage. *)
LEMMA SameLoops ==
    ASSUME UNCHANGED <<at, proj>>
    PROVE  \A stages : Builds!Of(stages)' = Builds!Of(stages)
BY DEF Builds!Of

(* A loop moves on with its project: to one of some stages, or out of them. *)
LEMMA LoopComes ==
    ASSUME Types, NEW g \in Loop, at[g] \in Active,
           NEW to \in Active \cup {"leave"}, at' = [at EXCEPT ![g] = to], proj' = proj,
           NEW stages, to \in stages,
           OneLoopPerFlag, stages \subseteq Active
    PROVE  Builds!Of(stages)' = Builds!Of(stages) \cup {proj[g]}
<1>1. \A h \in Loop : at'[h] = IF h = g THEN to ELSE at[h]
    BY DEF Types
<1>2. proj[g] \in Project
    BY DEF Types
<1>3. \A h \in Loop : at[h] \in stages /\ proj[h] = proj[g] => h = g
    BY DEF OneLoopPerFlag
<1> QED
    BY <1>1, <1>2, <1>3 DEF Builds!Of

LEMMA LoopGoes ==
    ASSUME Types, NEW g \in Loop, at[g] \in Active,
           NEW to \in Active \cup {"leave"}, at' = [at EXCEPT ![g] = to], proj' = proj,
           NEW stages, to \notin stages,
           OneLoopPerFlag, stages \subseteq Active
    PROVE  Builds!Of(stages)' = Builds!Of(stages) \ {proj[g]}
<1>1. \A h \in Loop : at'[h] = IF h = g THEN to ELSE at[h]
    BY DEF Types
<1>2. proj[g] \in Project
    BY DEF Types
<1>3. \A h \in Loop : at[h] \in stages /\ proj[h] = proj[g] => h = g
    BY DEF OneLoopPerFlag
<1> QED
    BY <1>1, <1>2, <1>3 DEF Builds!Of

LEMMA MovesKeepTypes ==
    ASSUME Types, OneLoopPerFlag, NEW g \in Loop, at[g] \in Active,
           NEW to \in Active \cup {"leave"}, at' = [at EXCEPT ![g] = to], proj' = proj,
           sem' = sem, Builds!SlotsAreHeldByLoops
    PROVE  /\ Types' /\ Builds!SlotsAreHeldByLoops'
           /\ \A h, k \in Loop :
                 at'[h] \in Active /\ at'[k] \in Active /\ proj'[h] = proj'[k] => h = k
<1>1. \A h \in Loop : at'[h] = IF h = g THEN to ELSE at[h]
    BY DEF Types
<1>2. "none" \notin Active /\ "none" # "leave" /\ "leave" \notin Active
    BY DEF Active
<1>3. Types'
    BY <1>1 DEF Types
<1>4. Builds!SlotsAreHeldByLoops'
    BY <1>1, <1>2 DEF Builds!SlotsAreHeldByLoops
<1>5. \A h \in Loop : at'[h] \in Active => at[h] \in Active
    BY <1>1
<1> QED
    BY <1>3, <1>4, <1>5 DEF OneLoopPerFlag

-----------------------------------------------------------------------------
LEMMA BuildKeeps ==
    ASSUME QueueInv, NEW p \in Project, Builds!Build(p)
    PROVE  QueueInv'
<1>1. CASE Builds!Coalesce(p) \/ Builds!QueueFull(p)
    <2>1. UNCHANGED <<at, proj, inflight, sem>>
        BY <1>1 DEF Builds!Coalesce, Builds!QueueFull, Builds!loops
    <2>2. \A stages : Builds!Of(stages)' = Builds!Of(stages)
        BY <2>1, SameLoops
    <2>3. Types' /\ OneLoopPerFlag' /\ Builds!SlotsAreHeldByLoops'
        BY <2>1, <2>2 DEF QueueInv, Types, OneLoopPerFlag, Builds!SlotsAreHeldByLoops
    <2>4. NoRequestIsLost'
        BY <1>1, <2>1, <2>2 DEF QueueInv, NoRequestIsLost, Builds!Coalesce, Builds!QueueFull
    <2> QED
        BY <2>3, <2>4 DEF QueueInv
<1>2. ASSUME NEW g \in Loop, Builds!StartLoop(p, g) PROVE QueueInv'
    <2>1. /\ at[g] = "none" /\ p \notin inflight
          /\ \A h \in Loop : at'[h] = IF h = g THEN "begin" ELSE at[h]
          /\ \A h \in Loop : proj'[h] = IF h = g THEN p ELSE proj[h]
          /\ sem' = sem \cup {g} /\ inflight' = inflight \cup {p}
          /\ due' = due \cup {p} /\ pending' = pending
        BY <1>2 DEF Builds!StartLoop, QueueInv, Types
    <2>2. at' \in [Loop -> Active \cup {"none", "leave"}]
        BY <1>2 DEF Builds!StartLoop, QueueInv, Types, Active
    <2>3. proj' \in [Loop -> Project \cup {Nothing}]
        BY <1>2 DEF Builds!StartLoop, QueueInv, Types
    <2>4. Types'
        BY <2>1, <2>2, <2>3 DEF QueueInv, Types
    <2>5. Builds!SlotsAreHeldByLoops'
        BY <2>1 DEF QueueInv, Builds!SlotsAreHeldByLoops
    <2>6. Builds!Of(Active)' = Builds!Of(Active) \cup {p}
             /\ Builds!Of({"begin"})' = Builds!Of({"begin"}) \cup {p}
        BY <2>1 DEF Builds!Of, Active
    <2>7. \A h \in Loop : at[h] \in Active => proj[h] # p
        BY <2>1 DEF QueueInv, OneLoopPerFlag, Builds!Of
    <2>8. OneLoopPerFlag'
        BY <2>1, <2>6, <2>7 DEF QueueInv, OneLoopPerFlag
    <2>9. NoRequestIsLost'
        BY <2>1, <2>6 DEF QueueInv, NoRequestIsLost
    <2> QED
        BY <2>4, <2>5, <2>8, <2>9 DEF QueueInv
<1> QED
    BY <1>1, <1>2 DEF Builds!Build

(* A run begins, pulls, ends or fails: the loop keeps its flag. *)
LEMMA RunKeeps ==
    ASSUME QueueInv, NEW g \in Loop,
           \/ Builds!BeginRun(g) \/ Builds!Pull(g) \/ Builds!Record(g) \/ Builds!RecordFails(g)
           \/ Builds!Deploy(g) \/ Builds!DeployFails(g) \/ Builds!Fail(g)
    PROVE  QueueInv'
<1>1. PICK to \in {"run", "pulled", "recorded", "decide"} : at' = [at EXCEPT ![g] = to]
    BY DEF Builds!BeginRun, Builds!Pull, Builds!Record, Builds!RecordFails, Builds!Deploy,
           Builds!DeployFails, Builds!Fail, Builds!Goto
<1>2. /\ at[g] \in Active /\ at[g] \in {"begin", "run", "pulled", "recorded"}
      /\ at[g] # "begin" => due' = due
      /\ at[g] = "begin" => due' = due \ {proj[g]}
      /\ UNCHANGED <<inflight, pending, sem, proj>>
    BY DEF Builds!BeginRun, Builds!Pull, Builds!Record, Builds!RecordFails, Builds!Deploy,
           Builds!DeployFails, Builds!Fail, Builds!Goto, Active
<1>3. to \in Active /\ to # "begin"
    BY DEF Active
<1>4. /\ Types' /\ Builds!SlotsAreHeldByLoops'
      /\ \A h, k \in Loop :
            at'[h] \in Active /\ at'[k] \in Active /\ proj'[h] = proj'[k] => h = k
    BY <1>1, <1>2, <1>3, MovesKeepTypes DEF QueueInv
<1>5. Builds!Of(Active)' = Builds!Of(Active)
    <2>1. proj[g] \in Builds!Of(Active)
        BY <1>2 DEF QueueInv, Types, Builds!Of
    <2>2. Builds!Of(Active)' = Builds!Of(Active) \cup {proj[g]}
        BY <1>1, <1>2, <1>3, LoopComes DEF QueueInv
    <2> QED
        BY <2>1, <2>2
<1>6. Builds!Of({"begin"})' = Builds!Of({"begin"}) \ {proj[g]}
    <2>1. {"begin"} \in SUBSET Active
        BY DEF Active
    <2> QED
        BY <1>1, <1>2, <1>3, <2>1, LoopGoes DEF QueueInv
<1>7. at[g] # "begin" => proj[g] \notin Builds!Of({"begin"})
    BY <1>2 DEF QueueInv, OneLoopPerFlag, Builds!Of, Active
<1>8. NoRequestIsLost'
    BY <1>2, <1>6, <1>7 DEF QueueInv, NoRequestIsLost
<1> QED
    BY <1>2, <1>4, <1>5, <1>8 DEF QueueInv, OneLoopPerFlag

(* Under the lock: the loop goes round, or gives up its flag. *)
LEMMA DecideKeeps ==
    ASSUME QueueInv, NEW g \in Loop, Builds!Again(g) \/ Builds!Finish(g)
    PROVE  QueueInv'
<1>1. at[g] = "decide" /\ at[g] \in Active /\ UNCHANGED <<due, sem, proj>>
    BY DEF Builds!Again, Builds!Finish, Builds!Goto, Active
<1>2. {"begin"} \in SUBSET Active /\ "leave" \notin Active /\ "leave" # "begin"
         /\ "begin" \in Active
    BY DEF Active
<1>3. proj[g] \in inflight
    BY <1>1 DEF QueueInv, Types, OneLoopPerFlag, Builds!Of
<1>4. proj[g] \notin Builds!Of({"begin"})
    BY <1>1, <1>2 DEF QueueInv, OneLoopPerFlag, Builds!Of
<1>5. CASE Builds!Again(g)
    <2>1. at' = [at EXCEPT ![g] = "begin"] /\ inflight' = inflight /\ pending' = pending \ {proj[g]}
        BY <1>5 DEF Builds!Again, Builds!Goto
    <2>2. /\ Types' /\ Builds!SlotsAreHeldByLoops'
          /\ \A h, k \in Loop :
                at'[h] \in Active /\ at'[k] \in Active /\ proj'[h] = proj'[k] => h = k
        BY <1>1, <1>2, <2>1, MovesKeepTypes DEF QueueInv
    <2>3. /\ Builds!Of(Active)' = Builds!Of(Active) \cup {proj[g]}
          /\ Builds!Of({"begin"})' = Builds!Of({"begin"}) \cup {proj[g]}
        BY <1>1, <1>2, <2>1, LoopComes DEF QueueInv
    <2> QED
        BY <1>1, <1>3, <2>1, <2>2, <2>3 DEF QueueInv, OneLoopPerFlag, NoRequestIsLost
<1>6. CASE Builds!Finish(g)
    <2>1. /\ at' = [at EXCEPT ![g] = "leave"] /\ inflight' = inflight \ {proj[g]}
          /\ pending' = pending /\ proj[g] \notin pending
        BY <1>6 DEF Builds!Finish, Builds!Goto
    <2>2. /\ Types' /\ Builds!SlotsAreHeldByLoops'
          /\ \A h, k \in Loop :
                at'[h] \in Active /\ at'[k] \in Active /\ proj'[h] = proj'[k] => h = k
        BY <1>1, <1>2, <2>1, MovesKeepTypes DEF QueueInv
    <2>3. /\ Builds!Of(Active)' = Builds!Of(Active) \ {proj[g]}
          /\ Builds!Of({"begin"})' = Builds!Of({"begin"}) \ {proj[g]}
        BY <1>1, <1>2, <2>1, LoopGoes DEF QueueInv
    <2> QED
        BY <1>1, <1>4, <2>1, <2>2, <2>3 DEF QueueInv, OneLoopPerFlag, NoRequestIsLost
<1> QED
    BY <1>5, <1>6

LEMMA LeaveKeeps ==
    ASSUME QueueInv, NEW g \in Loop, Builds!Leave(g)
    PROVE  QueueInv'
<1>1. /\ at[g] = "leave"
      /\ \A h \in Loop : at'[h] = IF h = g THEN "none" ELSE at[h]
      /\ \A h \in Loop : proj'[h] = IF h = g THEN Nothing ELSE proj[h]
      /\ sem' = sem \ {g} /\ UNCHANGED <<due, inflight, pending>>
    BY DEF Builds!Leave, QueueInv, Types
<1>2. at' \in [Loop -> Active \cup {"none", "leave"}] /\ proj' \in [Loop -> Project \cup {Nothing}]
    BY DEF Builds!Leave, QueueInv, Types
<1>3. "none" \notin Active /\ "leave" \notin Active
    BY DEF Active
<1>4. Types'
    BY <1>1, <1>2, <1>3 DEF QueueInv, Types
<1>5. Builds!SlotsAreHeldByLoops'
    BY <1>1 DEF QueueInv, Builds!SlotsAreHeldByLoops
<1>6. Builds!Of(Active)' = Builds!Of(Active) /\ Builds!Of({"begin"})' = Builds!Of({"begin"})
    BY <1>1, <1>3 DEF Builds!Of, Active
<1>7. OneLoopPerFlag'
    BY <1>1, <1>3, <1>6 DEF QueueInv, OneLoopPerFlag
<1> QED
    BY <1>1, <1>4, <1>5, <1>6, <1>7 DEF QueueInv, NoRequestIsLost

LEMMA CrashKeeps == Builds!Crash => QueueInv'
BY DEF Builds!Crash, QueueInv, Types, Active, OneLoopPerFlag, NoRequestIsLost,
       Builds!SlotsAreHeldByLoops, Builds!Of

LEMMA StepQueueInv == QueueInv /\ [Builds!Next]_(Builds!vars) => QueueInv'
<1> SUFFICES ASSUME QueueInv, [Builds!Next]_(Builds!vars) PROVE QueueInv'
    OBVIOUS
<1>1. ASSUME NEW p \in Project, Builds!Request(p) \/ Builds!PollBuild(p) PROVE QueueInv'
    BY <1>1, BuildKeeps DEF Builds!Request, Builds!PollBuild
<1>2. CASE UNCHANGED <<due, inflight, pending, sem, at, proj>>
    <2>1. \A stages : Builds!Of(stages)' = Builds!Of(stages)
        BY <1>2, SameLoops
    <2> QED
        BY <1>2, <2>1
           DEF QueueInv, Types, OneLoopPerFlag, NoRequestIsLost, Builds!SlotsAreHeldByLoops
<1>3. ASSUME NEW p \in Project, Builds!PollLook(p) \/ Builds!Push(p) PROVE QueueInv'
    BY <1>2, <1>3 DEF Builds!PollLook, Builds!Push, Builds!loops
<1>4. ASSUME NEW g \in Loop, Builds!LoopStep(g) PROVE QueueInv'
    BY <1>4, RunKeeps, DecideKeeps, LeaveKeeps DEF Builds!LoopStep
<1>5. CASE UNCHANGED Builds!vars
    BY <1>2, <1>5 DEF Builds!vars, Builds!loops
<1> QED
    BY <1>1, <1>3, <1>4, <1>5, CrashKeeps DEF Builds!Next

(* The queue's invariant holds in every reachable state of BuildQueue.     *)
THEOREM QueueInvariance == Builds!Spec => []QueueInv
<1> QED
    BY InitQueueInv, StepQueueInv, PTL DEF Builds!Spec

(* A request that was accepted or coalesced waits where a loop will find   *)
(* it: buildLoop cannot clear the flag over it.                            *)
THEOREM RequestsAreNotLost == Builds!Spec => []NoRequestIsLost
<1>1. QueueInv => NoRequestIsLost
    BY DEF QueueInv
<1> QED
    BY <1>1, QueueInvariance, PTL

(* The slots of buildSem are held by the loops that run and by nobody      *)
(* else: the queue cannot fill up for good.                                *)
THEOREM SlotsComeBack == Builds!Spec => []Builds!SlotsAreHeldByLoops
<1>1. QueueInv => Builds!SlotsAreHeldByLoops
    BY DEF QueueInv
<1> QED
    BY <1>1, QueueInvariance, PTL

-----------------------------------------------------------------------------
(* The queue implements BuildPromise, up to fairness. *)

InRun == {"run", "pulled", "recorded"}

Building == Builds!Of(InRun)

LEMMA InitRefinesPromise == Builds!Init => Builds!Promise!Init
BY DEF InRun, Builds!Init, Builds!Promise!Init, Builds!Of

LEMMA BuildRefines ==
    ASSUME QueueInv, NEW p \in Project, Builds!Build(p)
    PROVE  Builds!Promise!Ask(p) \/ UNCHANGED <<due, Building>>
<1> USE DEF InRun
<1>1. CASE Builds!Coalesce(p) \/ Builds!QueueFull(p)
    <2>1. UNCHANGED <<at, proj>>
        BY <1>1 DEF Builds!Coalesce, Builds!QueueFull, Builds!loops
    <2>2. Building' = Building
        BY <2>1, SameLoops DEF Building
    <2> QED
        BY <1>1, <2>2 DEF Builds!Coalesce, Builds!QueueFull, Builds!Promise!Ask, Building
<1>2. ASSUME NEW g \in Loop, Builds!StartLoop(p, g)
      PROVE  Builds!Promise!Ask(p)
    <2>1. /\ at[g] = "none"
          /\ \A h \in Loop : at'[h] = IF h = g THEN "begin" ELSE at[h]
          /\ \A h \in Loop : proj'[h] = IF h = g THEN p ELSE proj[h]
        BY <1>2 DEF Builds!StartLoop, QueueInv, Types
    <2>2. Builds!Of(InRun)' = Builds!Of(InRun)
        BY <2>1 DEF Builds!Of
    <2> QED
        BY <1>2, <2>2 DEF Builds!StartLoop, Builds!Promise!Ask
<1> QED
    BY <1>1, <1>2 DEF Builds!Build

LEMMA LoopRefines ==
    ASSUME QueueInv, NEW g \in Loop, Builds!LoopStep(g)
    PROVE  \/ \E p \in Project : Builds!Promise!Begin(p) \/ Builds!Promise!Finish(p)
           \/ UNCHANGED <<due, Building>>
<1> USE DEF InRun
<1>1. InRun \in SUBSET Active
    BY DEF Active
<1>2. at[g] \in Active => proj[g] \in Project
    BY DEF QueueInv, Types
<1>3. at[g] \in InRun => proj[g] \in Builds!Of(InRun)
    BY <1>1, <1>2 DEF Builds!Of
<1>4. at[g] \in {"begin", "decide"} => proj[g] \notin Builds!Of(InRun)
    BY <1>1 DEF QueueInv, OneLoopPerFlag, Builds!Of, Active
<1>5. CASE Builds!BeginRun(g)
    <2>1. at[g] = "begin" /\ at' = [at EXCEPT ![g] = "run"] /\ proj' = proj
        BY <1>5 DEF Builds!BeginRun, Builds!Goto
    <2>2. Builds!Of(InRun)' = Builds!Of(InRun) \cup {proj[g]}
        BY <1>1, <2>1, LoopComes DEF QueueInv, Active
    <2>3. Builds!Promise!Begin(proj[g])
        BY <1>4, <1>5, <2>1, <2>2 DEF Builds!BeginRun, Builds!Promise!Begin
    <2> QED
        BY <1>2, <2>1, <2>3 DEF Active
<1>6. CASE Builds!Pull(g) \/ Builds!Record(g) \/ Builds!RecordFails(g)
    <2>1. PICK to \in {"pulled", "recorded"} :
              /\ at[g] \in {"run", "pulled"} /\ at' = [at EXCEPT ![g] = to]
              /\ proj' = proj /\ due' = due
        BY <1>6 DEF Builds!Pull, Builds!Record, Builds!RecordFails, Builds!Goto
    <2>2. Builds!Of(InRun)' = Builds!Of(InRun) \cup {proj[g]}
        BY <1>1, <2>1, LoopComes DEF QueueInv, Active
    <2> QED
        BY <1>3, <2>1, <2>2 DEF Building
<1>7. CASE Builds!Deploy(g) \/ Builds!DeployFails(g) \/ Builds!Fail(g)
    <2>1. /\ at[g] \in InRun /\ at' = [at EXCEPT ![g] = "decide"]
          /\ proj' = proj /\ due' = due
        BY <1>7 DEF Builds!Deploy, Builds!DeployFails, Builds!Fail, Builds!Goto
    <2>2. Builds!Of(InRun)' = Builds!Of(InRun) \ {proj[g]}
        <3>1. at[g] \in Active /\ "decide" \in Active \cup {"leave"}
                 /\ "decide" \notin InRun
            BY <2>1 DEF Active
        <3> QED
            BY <1>1, <2>1, <3>1, LoopGoes DEF QueueInv
    <2>3. Builds!Promise!Finish(proj[g])
        BY <1>3, <2>1, <2>2 DEF Builds!Promise!Finish
    <2> QED
        BY <1>1, <1>2, <2>1, <2>3
<1>8. CASE Builds!Again(g) \/ Builds!Finish(g)
    <2>1. at[g] = "decide" /\ proj' = proj /\ due' = due
        BY <1>8 DEF Builds!Again, Builds!Finish, Builds!Goto
    <2>2. PICK to \in {"begin", "leave"} : at' = [at EXCEPT ![g] = to]
        BY <1>8 DEF Builds!Again, Builds!Finish, Builds!Goto
    <2>3. to \in Active \cup {"leave"} /\ to \notin InRun /\ "decide" \in Active
        BY <2>2 DEF Active
    <2>4. Builds!Of(InRun)' = Builds!Of(InRun) \ {proj[g]}
        BY <1>1, <2>1, <2>2, <2>3, LoopGoes DEF QueueInv
    <2> QED
        BY <1>4, <2>1, <2>4 DEF Building
<1>9. CASE Builds!Leave(g)
    <2>1. /\ at[g] = "leave" /\ due' = due
          /\ \A h \in Loop : at'[h] = IF h = g THEN "none" ELSE at[h]
          /\ \A h \in Loop : proj'[h] = IF h = g THEN Nothing ELSE proj[h]
        BY <1>9 DEF Builds!Leave, QueueInv, Types
    <2> QED
        BY <2>1 DEF Building, Builds!Of
<1> QED
    BY <1>5, <1>6, <1>7, <1>8, <1>9 DEF Builds!LoopStep

LEMMA StepRefinesPromise == QueueInv /\ [Builds!Next]_(Builds!vars)
   => [Builds!Promise!Next]_<<due, Building>>
<1> SUFFICES ASSUME QueueInv, [Builds!Next]_(Builds!vars)
             PROVE [Builds!Promise!Next]_<<due, Building>>
    OBVIOUS
<1>1. CASE UNCHANGED <<due, at, proj>>
    BY <1>1, SameLoops DEF Building
<1>2. ASSUME NEW p \in Project, Builds!Request(p) \/ Builds!PollBuild(p)
      PROVE  Builds!Promise!Ask(p) \/ UNCHANGED <<due, Building>>
    BY <1>2, BuildRefines DEF Builds!Request, Builds!PollBuild
<1>3. ASSUME NEW p \in Project, Builds!PollLook(p) \/ Builds!Push(p)
      PROVE  UNCHANGED <<due, at, proj>>
    BY <1>3 DEF Builds!PollLook, Builds!Push, Builds!loops
<1>4. CASE Builds!Crash
    <2>1. Builds!Promise!Forget
        BY <1>4 DEF Builds!Crash, Builds!Promise!Forget, Builds!Of
    <2> QED
        BY <2>1 DEF Builds!Promise!Next
<1>5. CASE UNCHANGED Builds!vars
    BY <1>1, <1>5 DEF Builds!vars, Builds!loops
<1> QED
    BY <1>1, <1>2, <1>3, <1>4, <1>5, LoopRefines DEF Builds!Next, Builds!Promise!Next

(* Safety part of ImplementsBuildPromise: a run begins only for a project  *)
(* that is not being built, and only a run that begins, or the death of    *)
(* the process, takes a request off the list.                              *)
THEOREM BuildsRefinement == Builds!Spec
   => Builds!Promise!Init /\ [][Builds!Promise!Next]_<<due, Building>>
<1> QED
    BY InitRefinesPromise, StepRefinesPromise, QueueInvariance, PTL DEF Builds!Spec

-----------------------------------------------------------------------------
(* A behaviour of the composition is one of each part: the parts that do   *)
(* not move stutter.                                                       *)
THEOREM Composition == MCSpec => Spec /\ Builds!Spec
<1>1. MCInit => Init /\ Builds!Init
    BY DEF MCInit
<1>2. [MCNext]_<<part, vars, buildVars, itemVars>> => [Next]_vars /\ [Builds!Next]_(Builds!vars)
    BY DEF MCNext, buildVars, Builds!vars, Builds!loops, Builds!rows, Builds!counts
<1> QED
    BY <1>1, <1>2, PTL DEF MCSpec, Spec, Builds!Spec
=============================================================================

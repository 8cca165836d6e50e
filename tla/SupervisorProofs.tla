--------------------------- MODULE SupervisorProofs ---------------------------
(***************************************************************************)
(* Proofs about the supervisor, for every set of clients, of runs and of   *)
(* process ids, and for every limit of restarts.                           *)
(***************************************************************************)
EXTENDS Supervisor, FiniteSetTheorems, TLAPS

USE Sizes

(* The records, and what a request's or a run's next position is made of. *)

LEMMA Records ==
    /\ NoItem \in Item /\ NoOp \in Op /\ NoRun \in RunState
    /\ Created \in Row /\ Deleted \in Row
<1>1. NoItem \in Item
    BY DEF NoItem, Item
<1>2. NoOp \in Op
    BY <1>1 DEF NoOp, Op, Steps
<1>3. NoRun \in RunState
    BY DEF NoRun, RunState
<1>4. Created \in Row
    BY DEF Created, Row
<1>5. Deleted \in Row
    BY <1>4 DEF Deleted, Row
<1> QED
    BY <1>1, <1>2, <1>3, <1>4, <1>5

LEMMA ReadType == ASSUME row \in Row PROVE Read \in Item
BY DEF Read, Row, Item

LEMMA GotoType ==
    ASSUME op \in [Client -> Op], NEW g \in Client, NEW s \in Steps, Goto(g, s)
    PROVE  op' \in [Client -> Op]
<1>1. [op[g] EXCEPT !.at = s] \in Op
    BY DEF Op
<1> QED
    BY <1>1 DEF Goto

LEMMA GotoWithType ==
    ASSUME op \in [Client -> Op], NEW g \in Client, NEW s \in Steps, NEW i \in Item,
           GotoWith(g, s, i)
    PROVE  op' \in [Client -> Op]
<1>1. [op[g] EXCEPT !.at = s, !.item = i] \in Op
    BY DEF Op
<1> QED
    BY <1>1 DEF GotoWith

LEMMA GotoRunType ==
    ASSUME op \in [Client -> Op], NEW g \in Client, NEW s \in Steps, NEW R \in SUBSET Run,
           op' = [op EXCEPT ![g] = [@ EXCEPT !.at = s, !.run = R]]
    PROVE  op' \in [Client -> Op]
<1>1. [op[g] EXCEPT !.at = s, !.run = R] \in Op
    BY DEF Op
<1> QED
    BY <1>1

LEMMA ServeType ==
    ASSUME op \in [Client -> Op], NEW g \in Client, NEW s \in Steps,
           NEW t \in {"return", "start", "delete", "off"}, Serve(g, s, t)
    PROVE  op' \in [Client -> Op]
<1>1. [op[g] EXCEPT !.at = s, !.then = t] \in Op
    BY DEF Op
<1> QED
    BY <1>1 DEF Serve

LEMMA EndsType ==
    ASSUME op \in [Client -> Op], NEW g \in Client, Ends(g)
    PROVE  op' \in [Client -> Op]
BY Records DEF Ends

LEMMA StopEndsType ==
    ASSUME op \in [Client -> Op], service \in {"on", "off", "down"},
           NEW g \in Client, NEW ok \in BOOLEAN, StopEnds(g, ok)
    PROVE  op' \in [Client -> Op] /\ service' \in {"on", "off", "down"}
<1> DEFINE next == CASE op[g].then = "delete" -> "delete"
                     [] op[g].then = "start" /\ ok -> "startRead"
                     [] OTHER -> "idle"
<1>1. next \in Steps
    BY DEF Steps, StartSteps
<1> HIDE DEF next
<1>2. [NoOp EXCEPT !.at = next] \in Op
    BY <1>1, Records DEF Op
<1>3. op' = [op EXCEPT ![g] = [NoOp EXCEPT !.at = next]]
    BY DEF StopEnds, next
<1>4. service' \in {"on", "off", "down"}
    BY DEF StopEnds
<1> QED
    BY <1>2, <1>3, <1>4

LEMMA AdvanceType ==
    ASSUME run \in [Run -> RunState], NEW r \in Run, Advance(r, "end") \/ Advance(r, "wait") \/ Advance(r, "delay")
    PROVE  run' \in [Run -> RunState]
<1>1. \A s \in {"end", "wait", "delay"} : [run[r] EXCEPT !.at = s] \in RunState
    BY DEF RunState
<1> QED
    BY <1>1 DEF Advance

LEMMA TallyType ==
    ASSUME NEW x \in RunState, x.count < MaxRestarts
    PROVE  [x EXCEPT !.at = "tally", !.count = x.count + 1, !.pid = NoPid] \in RunState
<1>1. ASSUME NEW y \in RunState PROVE [y EXCEPT !.pid = NoPid] \in RunState
    BY DEF RunState
<1>2. ASSUME NEW y \in RunState
      PROVE  [y EXCEPT !.at = "tally"] \in RunState /\ [y EXCEPT !.at = "tally"].count = y.count
    BY DEF RunState
<1>3. ASSUME NEW y \in RunState, y.count < MaxRestarts
      PROVE  [y EXCEPT !.count = @ + 1] \in RunState
    <2>1. y.count + 1 \in 0..MaxRestarts
        BY <1>3 DEF RunState
    <2>2. ASSUME NEW n \in 0..MaxRestarts PROVE [y EXCEPT !.count = n] \in RunState
        BY <1>3 DEF RunState
    <2> QED
        BY <2>1, <2>2
<1> DEFINE a == [x EXCEPT !.at = "tally"]
           b == [a EXCEPT !.count = @ + 1]
<1>4. a \in RunState /\ a.count < MaxRestarts
    BY <1>2
<1>5. b \in RunState
    BY <1>3, <1>4
<1> QED
    BY <1>1, <1>5

(* What is written to the row. *)
LEMMA WriteType ==
    ASSUME row \in Row, NEW new \in Row, Write(new) PROVE row' \in Row
BY DEF Write

LEMMA RecordType ==
    ASSUME row \in Row, failures \in 0..MaxFailures, NEW new \in Row, Record(new)
    PROVE  row' \in Row /\ failures' \in 0..MaxFailures
<1>1. CASE Write(new) /\ UNCHANGED failures
    BY <1>1, WriteType
<1>2. CASE Fail /\ UNCHANGED row
    BY <1>2 DEF Fail
<1> QED
    BY <1>1, <1>2 DEF Record

LEMMA ClearedType ==
    ASSUME NEW x \in Row PROVE [x EXCEPT !.up = FALSE, !.pid = NoPid, !.count = 0] \in Row
<1>1. [x EXCEPT !.up = FALSE, !.pid = NoPid] \in Row
    BY DEF Row
<1>2. ASSUME NEW y \in Row PROVE [y EXCEPT !.count = 0] \in Row
    BY DEF Row
<1> QED
    BY <1>1, <1>2

LEMMA StoppedType == ASSUME row \in Row PROVE Stopped \in Row
BY ClearedType DEF Stopped

LEMMA NewRows ==
    ASSUME row \in Row
    PROVE  /\ Stopped \in Row
           /\ \A b \in BOOLEAN : [row EXCEPT !.up = b] \in Row
           /\ [row EXCEPT !.up = FALSE, !.pid = NoPid] \in Row
           /\ \A p \in Pid \cup {NoPid} : [row EXCEPT !.up = TRUE, !.pid = p] \in Row
           /\ \A n \in 0..MaxRestarts : [row EXCEPT !.count = n] \in Row
<1>1. Stopped \in Row
    BY StoppedType
<1>2. \A b \in BOOLEAN : [row EXCEPT !.up = b] \in Row
    BY DEF Row
<1>3. [row EXCEPT !.up = FALSE, !.pid = NoPid] \in Row
    BY DEF Row
<1>4. \A p \in Pid \cup {NoPid} : [row EXCEPT !.up = TRUE, !.pid = p] \in Row
    BY DEF Row
<1>5. \A n \in 0..MaxRestarts : [row EXCEPT !.count = n] \in Row
    BY DEF Row
<1> QED
    BY <1>1, <1>2, <1>3, <1>4, <1>5

-----------------------------------------------------------------------------
LEMMA InitType == Init => TypeOK
<1> SUFFICES ASSUME Init PROVE TypeOK
    OBVIOUS
<1>1. row \in Row /\ run \in [Run -> RunState] /\ op \in [Client -> Op]
    BY Records DEF Init
<1>2. failures \in 0..MaxFailures
    BY DEF Init
<1>3. /\ alive \subseteq Pid /\ running \in {{}} \cup {{r} : r \in Run}
      /\ service \in {"on", "off", "down"} /\ closing \in BOOLEAN
      /\ apart \subseteq Client /\ told \in BOOLEAN /\ mishaps \subseteq Mishaps
    BY DEF Init
<1> QED
    BY <1>1, <1>2, <1>3 DEF TypeOK

(* Requests as they begin. *)
LEMMA BeginsType ==
    ASSUME TypeOK, NEW g \in Client, RequestBegins(g) PROVE TypeOK'
<1> USE DEF TypeOK, Steps, StartSteps, StopSteps, UpdateSteps, StartBegins, StopBegins,
            runs, history
<1>1. CASE StartRequest(g)   BY <1>1, ServeType DEF StartRequest
<1>2. CASE StopRequest(g)    BY <1>2, ServeType DEF StopRequest
<1>3. CASE RestartRequest(g) BY <1>3, ServeType DEF RestartRequest
<1>4. CASE UpdateRequest(g)  BY <1>4, ServeType DEF UpdateRequest
<1>5. CASE ServiceStop(g)    BY <1>5, ServeType DEF ServiceStop
<1> QED
    BY <1>1, <1>2, <1>3, <1>4, <1>5 DEF RequestBegins

LEMMA StartType ==
    ASSUME TypeOK, NEW g \in Client,
           \/ StartRead(g) \/ Check(g) \/ Adopt(g) \/ Adopted(g) \/ Clear(g) \/ Enter(g)
    PROVE  TypeOK'
<1> USE GotoType, GotoWithType, EndsType, WriteType, NewRows
    DEF TypeOK, Steps, StartSteps, StopSteps, UpdateSteps, runs, history
<1>1. CASE StartRead(g) BY <1>1, ReadType DEF StartRead
<1>2. CASE Check(g)     BY <1>2 DEF Check
<1>3. CASE Adopt(g)
    <2>1. ASSUME NEW i \in Item PROVE [i EXCEPT !.pid = NoPid, !.up = FALSE] \in Item
        BY DEF Item
    <2>2. op[g].item \in Item
        BY DEF Op
    <2> QED
        BY <1>3, <2>1, <2>2 DEF Adopt
<1>4. CASE Adopted(g)   BY <1>4 DEF Adopted
<1>5. CASE Clear(g)     BY <1>5 DEF Clear
<1>6. CASE Enter(g)
    <2>1. ASSUME NEW i \in Item
          PROVE  [NoRun EXCEPT !.at = "launch", !.auto = i.auto, !.count = i.count] \in RunState
        BY DEF Item, NoRun, RunState
    <2>2. op[g].item \in Item
        BY DEF Op
    <2>3. run' \in [Run -> RunState] /\ running' \in {{}} \cup {{r} : r \in Run}
        BY <1>6, <2>1, <2>2 DEF Enter
    <2>4. mishaps' \subseteq Mishaps
        BY <1>6 DEF Enter, Notes, Mishaps
    <2> QED
        BY <1>6, <2>3, <2>4 DEF Enter
<1> QED
    BY <1>1, <1>2, <1>3, <1>4, <1>5, <1>6

LEMMA StopType ==
    ASSUME TypeOK, NEW g \in Client,
           \/ StopRead(g) \/ Lookup(g) \/ Mark(g) \/ SayStopping(g) \/ Cancel(g) \/ Poll(g)
           \/ ForceKill(g) \/ KillByPid(g) \/ Settle(g)
    PROVE  TypeOK'
<1> USE GotoType, GotoWithType, GotoRunType, StopEndsType, WriteType, NewRows, Records
    DEF TypeOK, Steps, StartSteps, StopSteps, UpdateSteps, runs, history
<1>1. CASE StopRead(g)
    <2>1. [NoItem EXCEPT !.pid = row.pid] \in Item
        BY DEF NoItem, Item, Row
    <2> QED
        BY <1>1, <2>1 DEF StopRead
<1>2. CASE Lookup(g)
    <2>1. ASSUME NEW o \in Op, NEW s \in Steps, NEW R \in SUBSET Run, NEW i \in Item
          PROVE  [o EXCEPT !.at = s, !.run = R, !.item = i] \in Op
        BY DEF Op
    <2>2. op[g].item \in Item
        BY DEF Op
    <2>3. op' \in [Client -> Op]
        BY <1>2, <2>1, <2>2 DEF Lookup
    <2>4. mishaps' \subseteq Mishaps
        BY <1>2 DEF Lookup, Notes, Mishaps
    <2> QED
        BY <1>2, <2>3, <2>4 DEF Lookup
<1>3. CASE Mark(g)
    <2>1. ASSUME NEW x \in RunState PROVE [x EXCEPT !.manual = TRUE] \in RunState
        BY DEF RunState
    <2>2. run' \in [Run -> RunState]
        BY <1>3, <2>1 DEF Mark
    <2> QED
        BY <1>3, <2>2 DEF Mark
<1>4. CASE SayStopping(g) BY <1>4 DEF SayStopping
<1>5. CASE Cancel(g)
    <2>1. ASSUME NEW x \in RunState PROVE [x EXCEPT !.cancelled = TRUE] \in RunState
        BY DEF RunState
    <2>2. run' \in [Run -> RunState]
        BY <1>5, <2>1 DEF Cancel
    <2> QED
        BY <1>5, <2>2 DEF Cancel
<1>6. CASE Poll(g)      BY <1>6 DEF Poll
<1>7. CASE ForceKill(g)
    <2>1. op' = [op EXCEPT ![g] = [@ EXCEPT !.at = "pollAgain", !.run = {}]]
        BY <1>7 DEF ForceKill
    <2>2. [op[g] EXCEPT !.at = "pollAgain", !.run = {}] \in Op
        BY DEF Op
    <2>3. op' \in [Client -> Op]
        BY <2>1, <2>2
    <2> QED
        BY <1>7, <2>3 DEF ForceKill
<1>8. CASE KillByPid(g) BY <1>8 DEF KillByPid
<1>9. CASE Settle(g)    BY <1>9 DEF Settle
<1> QED
    BY <1>1, <1>2, <1>3, <1>4, <1>5, <1>6, <1>7, <1>8, <1>9

LEMMA RowType ==
    ASSUME TypeOK, NEW g \in Client,
           Delete(g) \/ UpdateRead(g) \/ Save(g) \/ RequestFails(g)
    PROVE  TypeOK'
<1> USE GotoWithType, EndsType, StopEndsType, Records
    DEF TypeOK, Steps, StartSteps, StopSteps, UpdateSteps, runs, history
<1>1. CASE Delete(g)
    BY <1>1 DEF Delete, Notes, Mishaps
<1>2. CASE UpdateRead(g)
    <2>1. ASSUME NEW i \in Item PROVE [i EXCEPT !.auto = FALSE] \in Item
        BY DEF Item
    <2> QED
        BY <1>2, <2>1, ReadType DEF UpdateRead
<1>3. CASE Save(g)
    <2>1. op[g].item \in Item
        BY DEF Op
    <2>2. PICK new \in Settings :
            row' = [exists |-> TRUE, enabled |-> new.enabled \/ ~row.exists,
                    auto |-> new.auto \/ ~row.exists, up |-> op[g].item.up,
                    pid |-> op[g].item.pid, count |-> op[g].item.count]
        BY <1>3 DEF Save
    <2>3. op[g].item.up \in BOOLEAN /\ op[g].item.pid \in Pid \cup {NoPid}
             /\ op[g].item.count \in 0..MaxRestarts
        BY <2>1 DEF Item
    <2>4. row' \in Row
        BY <2>2, <2>3 DEF Row
    <2> QED
        BY <1>3, <2>4 DEF Save
<1>4. CASE RequestFails(g)
    <2>1. failures' \in 0..MaxFailures
        BY <1>4 DEF RequestFails, Fail
    <2>2. op' \in [Client -> Op] /\ service' \in {"on", "off", "down"}
        BY <1>4 DEF RequestFails
    <2> QED
        BY <1>4, <2>1, <2>2 DEF RequestFails
<1> QED
    BY <1>1, <1>2, <1>3, <1>4

LEMMA RunType ==
    ASSUME TypeOK, NEW r \in Run, RunStep(r) PROVE TypeOK'
<1> USE AdvanceType, RecordType, NewRows, Records DEF TypeOK, runs, history
<1>1. CASE Launch(r)
    <2>1. ASSUME NEW x \in RunState, NEW p \in Pid
          PROVE  [x EXCEPT !.at = "record", !.pid = p] \in RunState
        BY DEF RunState
    <2>2. PICK p \in Pid :
            /\ alive' = alive \cup {p}
            /\ run' = [run EXCEPT ![r] = [@ EXCEPT !.at = "record", !.pid = p]]
        BY <1>1 DEF Launch
    <2>3. run' \in [Run -> RunState]
        BY <2>1, <2>2
    <2> QED
        BY <1>1, <2>2, <2>3 DEF Launch
<1>2. CASE LaunchFails(r)   BY <1>2 DEF LaunchFails
<1>3. CASE Launched(r)
    <2>1. run[r].pid \in Pid \cup {NoPid}
        BY DEF RunState
    <2> QED
        BY <1>3, <2>1 DEF Launched
<1>4. CASE KillCancelled(r) BY <1>4 DEF KillCancelled
<1>5. CASE Waited(r)        BY <1>5 DEF Waited
<1>6. CASE Leave(r)
    <2>2. CASE MayRestart(r)
        <3>1. [run[r] EXCEPT !.at = "tally", !.count = run[r].count + 1, !.pid = NoPid] \in RunState
            BY <2>2, TallyType DEF MayRestart
        <3>2. run' = [run EXCEPT ![r] =
                        [run[r] EXCEPT !.at = "tally", !.count = run[r].count + 1, !.pid = NoPid]]
            BY <1>6, <2>2 DEF Leave
        <3>3. run' \in [Run -> RunState]
            BY <3>1, <3>2
        <3> QED
            BY <1>6, <3>3 DEF Leave
    <2>3. CASE ~MayRestart(r)
        BY <1>6, <2>3 DEF Leave
    <2> QED
        BY <2>2, <2>3
<1>7. CASE Tally(r)
    <2>1. run[r].count \in 0..MaxRestarts
        BY DEF RunState
    <2> QED
        BY <1>7, <2>1 DEF Tally
<1>8. CASE ComeBack(r)
    <2>1. ASSUME NEW x \in RunState
          PROVE  [x EXCEPT !.at = "launch", !.cancelled = FALSE] \in RunState
        BY DEF RunState
    <2>2. CASE MayComeBack(r)
        <3>1. [run[r] EXCEPT !.at = "launch", !.cancelled = FALSE] \in RunState
            BY <2>1
        <3>2. run' = [run EXCEPT ![r] = [run[r] EXCEPT !.at = "launch", !.cancelled = FALSE]]
            BY <1>8, <2>2 DEF ComeBack
        <3>3. run' \in [Run -> RunState]
            BY <3>1, <3>2
        <3> QED
            BY <1>8, <2>2, <3>3 DEF ComeBack
    <2>3. CASE ~MayComeBack(r)
        BY <1>8, <2>3 DEF ComeBack
    <2> QED
        BY <2>2, <2>3
<1> QED
    BY <1>1, <1>2, <1>3, <1>4, <1>5, <1>6, <1>7, <1>8 DEF RunStep

LEMMA NextType == TypeOK /\ [Next]_vars => TypeOK'
<1> SUFFICES ASSUME TypeOK, [Next]_vars PROVE TypeOK'
    OBVIOUS
<1>1. CASE ServiceStart
    BY <1>1, GotoType DEF ServiceStart, TypeOK, Steps, StartSteps, StartBegins, runs, history
<1>2. CASE ProcessExits
    BY <1>2 DEF ProcessExits, TypeOK, runs, history
<1>3. CASE Crash
    <2>1. run' \in [Run -> RunState] /\ op' \in [Client -> Op]
        BY <1>3, Records DEF Crash
    <2>2. failures' \in 0..MaxFailures
        BY <1>3 DEF Crash, Fail, TypeOK
    <2> QED
        BY <1>3, <2>1, <2>2 DEF Crash, TypeOK, Notes, Mishaps, history
<1>4. ASSUME NEW g \in Client, RequestBegins(g) \/ RequestStep(g) \/ RequestFails(g)
      PROVE  TypeOK'
    BY <1>4, BeginsType, StartType, StopType, RowType DEF RequestStep
<1>5. ASSUME NEW r \in Run, RunStep(r) PROVE TypeOK'
    BY <1>5, RunType
<1>6. CASE UNCHANGED vars
    BY <1>6 DEF vars, TypeOK, runs, history
<1> QED
    BY <1>1, <1>2, <1>3, <1>4, <1>5, <1>6 DEF Next

(* The variables keep their types; the restarts of a run, in the struct and *)
(* in the row, stay within max_restarts.                                    *)
THEOREM TypeCorrect == Spec => []TypeOK
BY InitType, NextType, PTL DEF Spec

-----------------------------------------------------------------------------
(* What a step does to a run that is marked and beyond its launch. *)

Beyond(r) == run[r].manual /\ run[r].at \in {"wait", "end", "tally", "delay"}

LEMMA RequestLeavesRun ==
    ASSUME TypeOK, NEW r \in Run, Beyond(r), NEW g \in Client,
           RequestBegins(g) \/ RequestStep(g) \/ RequestFails(g)
    PROVE  run'[r].at # "launch"
<1>1. CASE Enter(g)
    <2>1. CASE run' = run
        BY <2>1 DEF Beyond
    <2>2. CASE run' # run
        <3>1. PICK q \in Run : run[q].at = "none" /\ \E x : run' = [run EXCEPT ![q] = x]
            BY <1>1, <2>2 DEF Enter, Unused
        <3>2. q # r
            BY <3>1 DEF Beyond
        <3> QED
            BY <3>1, <3>2 DEF Beyond, TypeOK
    <2> QED
        BY <2>1, <2>2
<1>2. CASE Mark(g)
    <2>1. [run[r] EXCEPT !.manual = TRUE].at = run[r].at
        BY DEF TypeOK, RunState
    <2>2. run'[r] = run[r] \/ run'[r] = [run[r] EXCEPT !.manual = TRUE]
        BY <1>2 DEF Mark
    <2> QED
        BY <2>1, <2>2 DEF Beyond
<1>3. CASE Cancel(g)
    <2>1. [run[r] EXCEPT !.cancelled = TRUE].at = run[r].at
        BY DEF TypeOK, RunState
    <2>2. run'[r] = run[r] \/ run'[r] = [run[r] EXCEPT !.cancelled = TRUE]
        BY <1>3 DEF Cancel
    <2> QED
        BY <2>1, <2>2 DEF Beyond
<1>4. CASE run' = run
    BY <1>4 DEF Beyond
<1>5. RequestBegins(g) => run' = run
    BY DEF RequestBegins, StartRequest, StopRequest, RestartRequest, UpdateRequest, ServiceStop,
           runs
<1>6. RequestFails(g) => run' = run
    BY DEF RequestFails, runs
<1>7. RequestStep(g) => Enter(g) \/ Mark(g) \/ Cancel(g) \/ run' = run
    BY DEF RequestStep, StartRead, Check, Adopt, Adopted, Clear, StopRead, Lookup, SayStopping,
           Poll, ForceKill, KillByPid, Settle, Delete, UpdateRead, Save, runs
<1> QED
    BY <1>1, <1>2, <1>3, <1>4, <1>5, <1>6, <1>7

LEMMA RunStaysStopped ==
    ASSUME TypeOK, NEW r \in Run, Beyond(r), NEW q \in Run, RunStep(q)
    PROVE  run'[r].at # "launch"
<1>1. CASE q # r
    <2>1. run'[r] = run[r]
        BY <1>1 DEF RunStep, Launch, LaunchFails, Launched, KillCancelled, Waited, Leave, Tally,
                    ComeBack, Advance, TypeOK, runs
    <2> QED
        BY <2>1 DEF Beyond
<1>2. CASE q = r
    <2>1. \A s \in {"end", "delay"} : [run[r] EXCEPT !.at = s].at = s
        BY DEF TypeOK, RunState
    <2>2. ~Launch(r) /\ ~LaunchFails(r) /\ ~Launched(r)
        BY DEF Beyond, Launch, LaunchFails, Launched
    <2>3. CASE KillCancelled(r)
        BY <2>3 DEF KillCancelled, runs, Beyond
    <2>4. CASE Waited(r) \/ Tally(r)
        <3>1. Advance(r, "end") \/ Advance(r, "delay")
            BY <2>4 DEF Waited, Tally
        <3>2. \E s \in {"end", "delay"} : run'[r] = [run[r] EXCEPT !.at = s]
            BY <3>1 DEF Advance, TypeOK
        <3> QED
            BY <2>1, <3>2
    <2>5. CASE Leave(r) \/ ComeBack(r)
        <3>1. run'[r] = NoRun
            BY <2>5 DEF Leave, ComeBack, MayRestart, MayComeBack, Beyond, TypeOK
        <3> QED
            BY <3>1 DEF NoRun
    <2> QED
        BY <1>2, <2>2, <2>3, <2>4, <2>5 DEF RunStep
<1> QED
    BY <1>1, <1>2

(* For every number of clients, runs and restarts, and across failures and  *)
(* crashes: a run that a stop has marked starts no further process, also if *)
(* the mark comes between its decision to restart and the restart.          *)
THEOREM StopPreventsRestart == Spec => NoRestartAfterStop
<1> DEFINE A == \A r \in Run :
        run[r].manual /\ run[r].at \in {"wait", "end", "tally", "delay"}
            => run'[r].at # "launch"
<1>1. TypeOK /\ [Next]_vars => [A]_vars
    <2> SUFFICES ASSUME TypeOK, Next, NEW r \in Run, Beyond(r) PROVE run'[r].at # "launch"
        BY DEF Beyond
    <2>1. CASE ServiceStart \/ ProcessExits
        BY <2>1 DEF ServiceStart, ProcessExits, runs, Beyond
    <2>2. CASE Crash
        <3>1. run'[r] = NoRun
            BY <2>2 DEF Crash
        <3> QED
            BY <3>1 DEF NoRun
    <2>3. ASSUME NEW g \in Client, RequestBegins(g) \/ RequestStep(g) \/ RequestFails(g)
          PROVE  run'[r].at # "launch"
        BY <2>3, RequestLeavesRun
    <2>4. ASSUME NEW q \in Run, RunStep(q) PROVE run'[r].at # "launch"
        BY <2>4, RunStaysStopped
    <2> QED
        BY <2>1, <2>2, <2>3, <2>4 DEF Next
<1> QED
    BY TypeCorrect, <1>1, PTL DEF Spec, NoRestartAfterStop
-----------------------------------------------------------------------------
(* OneProcess and Findable.  In sight, the map is the runs between Enter   *)
(* and Leave, at most one run is to come back, and then the map is empty   *)
(* (MapIsRuns); a process is that of the run in the map (OwnProcess); a    *)
(* process without an entry in the map has survived a crash, after which   *)
(* no run exists and no request has come past the point where it finds the *)
(* process by the pid of the row (InheritedProcess).                       *)

Started(r) == run[r].at \in {"launch", "record", "wait", "end"}
Waiting(r) == run[r].at \in {"tally", "delay"} /\ ~run[r].manual

MapIsRuns ==
    /\ running = {r \in Run : Started(r)}
    /\ \A r \in Run : Waiting(r) => running = {} /\ \A q \in Run : Waiting(q) => q = r

OwnProcess ==
    \A r \in running :
        alive \subseteq IF run[r].at \in {"record", "wait"} THEN {run[r].pid} ELSE {}

Inherited == running = {} /\ alive # {}

(* The steps a request may have reached, and those at which it has read    *)
(* the row and not yet looked for the process.                             *)
InheritedSteps == {"idle", "startRead", "check", "adopt", "adopted", "stopRead", "lookup",
                   "sayKilling", "kill", "delete", "updateRead", "save"}
KnowingSteps == {"check", "adopt", "lookup", "sayKilling", "kill", "save"}

InheritedProcess ==
    Inherited =>
        /\ alive = {row.pid}
        /\ \A r \in Run : run[r].at = "none"
        /\ \A g \in Client :
              /\ op[g].at \in InheritedSteps
              /\ op[g].at \in KnowingSteps => op[g].item.pid = row.pid

Sighted == MapIsRuns /\ OwnProcess /\ InheritedProcess

(* What the ways of going on do to the fields of a request.                *)
Others(g) == \A h \in Client \ {g} : op'[h] = op[h]

LEMMA AfterGoto ==
    ASSUME op \in [Client -> Op], NEW g \in Client, NEW s, Goto(g, s)
    PROVE  /\ op'[g].at = s /\ op'[g].then = op[g].then
           /\ op'[g].item = op[g].item /\ op'[g].run = op[g].run /\ Others(g)
BY DEF Goto, Op, Others

LEMMA AfterGotoWith ==
    ASSUME op \in [Client -> Op], NEW g \in Client, NEW s, NEW i, GotoWith(g, s, i)
    PROVE  /\ op'[g].at = s /\ op'[g].then = op[g].then
           /\ op'[g].item = i /\ op'[g].run = op[g].run /\ Others(g)
BY DEF GotoWith, Op, Others

LEMMA AfterServe ==
    ASSUME op \in [Client -> Op], NEW g \in Client, NEW s, NEW t, Serve(g, s, t)
    PROVE  op[g].at = "idle" /\ op'[g].at = s /\ op'[g].then = t /\ Others(g)
BY DEF Serve, Op, At, Others

LEMMA AfterEnds ==
    ASSUME op \in [Client -> Op], NEW g \in Client, Ends(g)
    PROVE  op'[g].at = "idle" /\ op'[g].then = "return" /\ Others(g)
BY DEF Ends, NoOp, Others

LEMMA AfterStopEnds ==
    ASSUME op \in [Client -> Op], NEW g \in Client, NEW ok, StopEnds(g, ok)
    PROVE  /\ \/ op'[g].at \in {"idle", "delete"}
              \/ op'[g].at = "startRead" /\ op[g].then = "start" /\ ok
           /\ op'[g].then = "return" /\ Others(g)
<1> DEFINE next == CASE op[g].then = "delete" -> "delete"
                     [] op[g].then = "start" /\ ok -> "startRead"
                     [] OTHER -> "idle"
<1>1. op'[g] = [NoOp EXCEPT !.at = next] /\ Others(g)
    BY DEF StopEnds, Others
<1>2. next \in {"idle", "delete"} \/ (next = "startRead" /\ op[g].then = "start" /\ ok)
    OBVIOUS
<1> HIDE DEF next
<1> QED
    BY <1>1, <1>2 DEF NoOp

LEMMA MishapsStay == [Next]_vars => mishaps \subseteq mishaps'
BY DEF Next, ServiceStart, ProcessExits, Crash, RequestBegins, StartRequest, StopRequest,
       RestartRequest, UpdateRequest, ServiceStop, RequestFails, RequestStep, StartRead, Check,
       Adopt, Adopted, Clear, Enter, StopRead, Lookup, Mark, SayStopping, Cancel, Poll, ForceKill,
       KillByPid, Settle, Delete, UpdateRead, Save, RunStep, Launch, LaunchFails, Launched,
       KillCancelled, Waited, Leave, Tally, ComeBack, Notes, vars

(* A step of a request that changes no run and starts no process.          *)
LEMMA RequestKeepsSight ==
    ASSUME Sighted, NEW g \in Client, UNCHANGED <<run, running>>, alive' \subseteq alive, Others(g),
           Inherited /\ Inherited' =>
              /\ row'.pid = row.pid
              /\ op'[g].at \in InheritedSteps
              /\ op'[g].at \in KnowingSteps => op'[g].item.pid = row.pid
    PROVE  Sighted'
<1>1. MapIsRuns'
    BY DEF Sighted, MapIsRuns, Started, Waiting
<1>2. OwnProcess'
    BY DEF Sighted, OwnProcess
<1>3. InheritedProcess'
    <2> SUFFICES ASSUME Inherited' PROVE InheritedProcess!2'
        BY DEF InheritedProcess
    <2>1. Inherited
        BY DEF Inherited
    <2>2. alive = {row.pid} /\ alive' = {row'.pid}
        BY <2>1 DEF Sighted, InheritedProcess, Inherited
    <2>3. ASSUME NEW h \in Client
          PROVE  /\ op'[h].at \in InheritedSteps
                 /\ op'[h].at \in KnowingSteps => op'[h].item.pid = row'.pid
        BY <2>1, <2>3 DEF Others, Sighted, InheritedProcess
    <2> QED
        BY <2>1, <2>2, <2>3 DEF Sighted, InheritedProcess
<1> QED
    BY <1>1, <1>2, <1>3 DEF Sighted

LEMMA BeginKeepsSight ==
    ASSUME TypeOK, Sighted, NEW g \in Client, RequestBegins(g) PROVE Sighted'
<1>1. op \in [Client -> Op]
    BY DEF TypeOK
<1>2. UNCHANGED <<run, running, row, alive>>
    BY DEF RequestBegins, StartRequest, StopRequest, RestartRequest, UpdateRequest, ServiceStop, runs
<1>3. \/ op' = op
      \/ \E s \in {"startRead", "stopRead", "updateRead"}, t \in {"return", "delete", "start", "off"} :
            Serve(g, s, t)
    BY DEF RequestBegins, StartRequest, StopRequest, RestartRequest, UpdateRequest, ServiceStop
<1>4. CASE op' = op
    BY <1>2, <1>4, RequestKeepsSight DEF Others, Sighted, InheritedProcess
<1>5. ASSUME NEW s \in {"startRead", "stopRead", "updateRead"}, NEW t, Serve(g, s, t)
      PROVE  Sighted'
    <2>1. op'[g].at = s /\ Others(g)
        BY <1>1, <1>5, AfterServe
    <2> QED
        BY <1>2, <2>1, RequestKeepsSight DEF InheritedSteps, KnowingSteps
<1> QED
    BY <1>3, <1>4, <1>5

LEMMA StartKeepsSight ==
    ASSUME TypeOK, Sighted, NEW g \in Client,
           StartRead(g) \/ Check(g) \/ Adopt(g) \/ Adopted(g) \/ Clear(g)
    PROVE  Sighted'
<1>1. op \in [Client -> Op] /\ row \in Row
    BY DEF TypeOK
<1>2. UNCHANGED <<run, running, alive>>
    BY DEF StartRead, Check, Adopt, Adopted, Clear, runs
<1>3. ASSUME Inherited
      PROVE  /\ alive = {row.pid} /\ running = {}
             /\ op[g].at \in InheritedSteps
             /\ op[g].at \in KnowingSteps => op[g].item.pid = row.pid
    BY <1>3 DEF Sighted, InheritedProcess, Inherited
<1>4. CASE StartRead(g)
    <2>1. CASE row.exists /\ row.enabled
        <3>1. GotoWith(g, "check", Read) /\ row' = row
            BY <1>4, <2>1 DEF StartRead
        <3>2. op'[g].at = "check" /\ op'[g].item.pid = row.pid /\ Others(g)
            BY <1>1, <3>1, AfterGotoWith DEF Read
        <3> QED
            BY <1>2, <3>1, <3>2, RequestKeepsSight DEF InheritedSteps
    <2>2. CASE ~(row.exists /\ row.enabled)
        <3>1. Ends(g) /\ row' = row
            BY <1>4, <2>2 DEF StartRead
        <3> QED
            BY <1>1, <1>2, <3>1, AfterEnds, RequestKeepsSight DEF InheritedSteps, KnowingSteps
    <2> QED
        BY <2>1, <2>2
<1>5. CASE Check(g)
    <2>1. row' = row /\ op[g].at = "check" /\ (Ends(g) \/ Goto(g, "adopt"))
        BY <1>5 DEF Check, At
    <2>2. CASE Ends(g)
        BY <1>1, <1>2, <2>1, <2>2, AfterEnds, RequestKeepsSight DEF InheritedSteps, KnowingSteps
    <2>3. CASE Goto(g, "adopt")
        <3>1. op'[g].at = "adopt" /\ op'[g].item = op[g].item /\ Others(g)
            BY <1>1, <2>3, AfterGoto
        <3> QED
            BY <1>2, <1>3, <2>1, <3>1, RequestKeepsSight DEF InheritedSteps, KnowingSteps
    <2> QED
        BY <2>1, <2>2, <2>3
<1>6. CASE Adopt(g)
    <2>1. PICK s, i : GotoWith(g, s, i) /\ (Survives(g) => s = "adopted")
        BY <1>6 DEF Adopt
    <2>2. row' = row /\ op[g].at = "adopt"
        BY <1>6 DEF Adopt, At
    <2>3. Inherited => Survives(g)
        BY <1>3, <2>2 DEF Survives, KnowingSteps
    <2>4. op'[g].at = s /\ Others(g)
        BY <1>1, <2>1, AfterGotoWith
    <2> QED
        BY <1>2, <2>1, <2>2, <2>3, <2>4, RequestKeepsSight DEF InheritedSteps, KnowingSteps
<1>7. CASE Adopted(g)
    <2>1. row'.pid = row.pid /\ Ends(g)
        BY <1>1, <1>7 DEF Adopted, Write, Row
    <2> QED
        BY <1>1, <1>2, <2>1, AfterEnds, RequestKeepsSight DEF InheritedSteps, KnowingSteps
<1>8. CASE Clear(g)
    <2>1. ~Inherited
        BY <1>3, <1>8 DEF Clear, At, InheritedSteps
    <2>2. Others(g)
        BY <1>1, <1>8, AfterGoto DEF Clear
    <2> QED
        BY <1>2, <2>1, <2>2, RequestKeepsSight
<1> QED
    BY <1>4, <1>5, <1>6, <1>7, <1>8

LEMMA EnterKeepsSight ==
    ASSUME TypeOK, Sighted, InSight', NEW g \in Client, Enter(g) PROVE Sighted'
<1>1. op \in [Client -> Op] /\ run \in [Run -> RunState]
    BY DEF TypeOK
<1>2. op[g].at = "enter" /\ Ends(g) /\ alive' = alive /\ row' = row
    BY DEF Enter, At
<1>3. ~Inherited
    BY <1>2 DEF Sighted, InheritedProcess, InheritedSteps
<1>4. Others(g)
    BY <1>1, <1>2, AfterEnds
<1>5. CASE UNCHANGED <<running, run>>
    BY <1>2, <1>3, <1>4, <1>5, RequestKeepsSight
<1>6. CASE MayEnter /\ Notes("startInDelay", InDelay) /\
           \E r \in Run : /\ Unused(r) /\ running' = {r}
                          /\ run' = [run EXCEPT ![r] = [NoRun EXCEPT !.at = "launch",
                                       !.auto = op[g].item.auto, !.count = op[g].item.count]]
    <2>1. PICK r \in Run : /\ Unused(r) /\ running' = {r}
                          /\ run' = [run EXCEPT ![r] = [NoRun EXCEPT !.at = "launch",
                                       !.auto = op[g].item.auto, !.count = op[g].item.count]]
        BY <1>6
    <2>2. run'[r].at = "launch" /\ \A q \in Run \ {r} : run'[q] = run[q]
        BY <1>1, <2>1 DEF NoRun
    <2>3. running = {} /\ alive = {}
        BY <1>3, <1>6 DEF MayEnter, Inherited
    <2>4. ~InDelay
        BY <1>6 DEF InSight, Notes
    <2>5. \A q \in Run : ~Started(q) /\ ~Waiting(q)
        BY <2>3, <2>4 DEF Sighted, MapIsRuns, InDelay, Waiting
    <2>6. MapIsRuns'
        BY <2>1, <2>2, <2>5 DEF MapIsRuns, Started, Waiting
    <2>7. OwnProcess' /\ InheritedProcess'
        BY <1>2, <2>3 DEF OwnProcess, InheritedProcess, Inherited
    <2> QED
        BY <2>6, <2>7 DEF Sighted
<1> QED
    BY <1>5, <1>6 DEF Enter

(* Mark and Cancel leave every run where it is.                            *)
LEMMA FlagsKeepSight ==
    ASSUME TypeOK, Sighted, NEW g \in Client, Mark(g) \/ Cancel(g) PROVE Sighted'
<1>1. op \in [Client -> Op] /\ run \in [Run -> RunState]
    BY DEF TypeOK
<1>2. UNCHANGED <<running, alive, row>> /\ op[g].at \in {"mark", "cancel"}
    BY DEF Mark, Cancel, At
<1>3. ~Inherited
    BY <1>2 DEF Sighted, InheritedProcess, InheritedSteps
<1>4. \A r \in Run : /\ run'[r].at = run[r].at /\ run'[r].pid = run[r].pid
                     /\ run[r].manual => run'[r].manual
    BY <1>1 DEF Mark, Cancel, RunState
<1>5. MapIsRuns'
    BY <1>2, <1>4 DEF Sighted, MapIsRuns, Started, Waiting
<1>6. OwnProcess'
    BY <1>2, <1>4 DEF Sighted, OwnProcess, MapIsRuns
<1>7. InheritedProcess'
    BY <1>2, <1>3 DEF InheritedProcess, Inherited
<1> QED
    BY <1>5, <1>6, <1>7 DEF Sighted

LEMMA StopKeepsSight ==
    ASSUME TypeOK, Sighted, NEW g \in Client,
           \/ StopRead(g) \/ Lookup(g) \/ SayStopping(g) \/ Poll(g)
           \/ ForceKill(g) \/ KillByPid(g) \/ Settle(g)
    PROVE  Sighted'
<1>1. op \in [Client -> Op] /\ row \in Row
    BY DEF TypeOK
<1>2. UNCHANGED <<run, running>> /\ alive' \subseteq alive
    BY DEF StopRead, Lookup, SayStopping, Poll, ForceKill, KillByPid, Settle, runs
<1>3. ASSUME Inherited
      PROVE  /\ alive = {row.pid} /\ running = {}
             /\ op[g].at \in InheritedSteps
             /\ op[g].at \in KnowingSteps => op[g].item.pid = row.pid
    BY <1>3 DEF Sighted, InheritedProcess, Inherited
<1>4. CASE StopRead(g)
    <2>1. CASE row.exists
        <3>1. GotoWith(g, "lookup", [NoItem EXCEPT !.pid = row.pid]) /\ row' = row
            BY <1>4, <2>1 DEF StopRead
        <3>2. op'[g].at = "lookup" /\ op'[g].item.pid = row.pid /\ Others(g)
            BY <1>1, <3>1, AfterGotoWith DEF NoItem
        <3> QED
            BY <1>2, <3>1, <3>2, RequestKeepsSight DEF InheritedSteps
    <2>2. CASE ~row.exists
        <3>1. StopEnds(g, FALSE) /\ row' = row
            BY <1>4, <2>2 DEF StopRead
        <3>2. op'[g].at \in {"idle", "delete"} /\ Others(g)
            BY <1>1, <3>1, AfterStopEnds
        <3> QED
            BY <1>2, <3>1, <3>2, RequestKeepsSight DEF InheritedSteps, KnowingSteps
    <2> QED
        BY <2>1, <2>2
<1>5. CASE Lookup(g)
    <2>1. op[g].at = "lookup" /\ row' = row
        BY <1>5 DEF Lookup, At
    <2>2. Others(g)
        BY <1>1, <1>5 DEF Lookup, Others
    <2>3. ASSUME Inherited PROVE op'[g].at = "sayKilling" /\ op'[g].item = op[g].item
        <3>1. running = {} /\ op[g].item.pid \in alive
            BY <1>3, <2>1, <2>3 DEF KnowingSteps
        <3>2. op' = [op EXCEPT ![g] = [@ EXCEPT !.at = "sayKilling", !.run = running,
                                               !.item = op[g].item]]
            BY <1>5, <3>1 DEF Lookup
        <3> QED
            BY <1>1, <3>2 DEF Op
    <2> QED
        BY <1>2, <1>3, <2>1, <2>2, <2>3, RequestKeepsSight DEF InheritedSteps, KnowingSteps
<1>6. CASE SayStopping(g)
    <2>1. row'.pid = row.pid
        BY <1>1, <1>6 DEF SayStopping, Write, Row
    <2>2. PICK s : Goto(g, s) /\ (op[g].at = "sayKilling" => s = "kill")
        BY <1>6 DEF SayStopping, At
    <2>3. op'[g].at = s /\ op'[g].item = op[g].item /\ Others(g)
        BY <1>1, <2>2, AfterGoto
    <2>4. Inherited => op[g].at = "sayKilling"
        BY <1>3, <1>6 DEF SayStopping, InheritedSteps
    <2> QED
        BY <1>2, <1>3, <2>1, <2>2, <2>3, <2>4, RequestKeepsSight DEF InheritedSteps, KnowingSteps
<1>7. CASE Poll(g) \/ ForceKill(g) \/ Settle(g)
    <2>1. ~Inherited
        BY <1>3, <1>7 DEF Poll, ForceKill, Settle, At, InheritedSteps
    <2>2. Others(g)
        <3>1. CASE ForceKill(g)
            BY <1>1, <3>1 DEF ForceKill, Others
        <3>2. CASE Settle(g)
            BY <1>1, <3>2, AfterStopEnds DEF Settle
        <3>3. CASE Poll(g)
            <4>1. \/ Goto(g, "force") \/ StopEnds(g, FALSE)
                  \/ op' = [op EXCEPT ![g] = [@ EXCEPT !.at = "settle", !.run = {}]]
                BY <3>3 DEF Poll
            <4> QED
                BY <1>1, <4>1, AfterGoto, AfterStopEnds DEF Others
        <3> QED
            BY <1>7, <3>1, <3>2, <3>3
    <2> QED
        BY <1>2, <2>1, <2>2, RequestKeepsSight
<1>8. CASE KillByPid(g)
    <2>1. op[g].at = "kill" /\ alive' = alive \ {op[g].item.pid} /\ GotoWith(g, "settle", NoItem)
        BY <1>8 DEF KillByPid, At
    <2>2. Inherited => alive' = {}
        BY <1>3, <2>1 DEF KnowingSteps
    <2>3. Others(g)
        BY <1>1, <2>1, AfterGotoWith
    <2> QED
        BY <1>2, <2>2, <2>3, RequestKeepsSight DEF Inherited
<1> QED
    BY <1>4, <1>5, <1>6, <1>7, <1>8

LEMMA RowKeepsSight ==
    ASSUME TypeOK, Sighted, InSight', NEW g \in Client,
           Delete(g) \/ UpdateRead(g) \/ Save(g) \/ RequestFails(g)
    PROVE  Sighted'
<1>1. op \in [Client -> Op] /\ row \in Row
    BY DEF TypeOK
<1>2. UNCHANGED <<run, running, alive>>
    BY DEF Delete, UpdateRead, Save, RequestFails, runs
<1>3. ASSUME Inherited
      PROVE  /\ alive = {row.pid} /\ running = {}
             /\ op[g].at \in KnowingSteps => op[g].item.pid = row.pid
    BY <1>3 DEF Sighted, InheritedProcess, Inherited
<1>4. CASE Delete(g)
    <2>1. ~Inherited
        BY <1>3, <1>4 DEF Delete, Notes, InSight
    <2> QED
        BY <1>1, <1>2, <1>4, <2>1, AfterEnds, RequestKeepsSight DEF Delete
<1>5. CASE UpdateRead(g)
    <2>1. CASE row.exists
        <3>1. GotoWith(g, "save", [Read EXCEPT !.auto = FALSE]) /\ row' = row
            BY <1>5, <2>1 DEF UpdateRead
        <3>2. op'[g].at = "save" /\ op'[g].item.pid = row.pid /\ Others(g)
            BY <1>1, <3>1, AfterGotoWith DEF Read
        <3> QED
            BY <1>2, <3>1, <3>2, RequestKeepsSight DEF InheritedSteps
    <2>2. CASE ~row.exists
        <3>1. Ends(g) /\ row' = row
            BY <1>5, <2>2 DEF UpdateRead
        <3> QED
            BY <1>1, <1>2, <3>1, AfterEnds, RequestKeepsSight DEF InheritedSteps, KnowingSteps
    <2> QED
        BY <2>1, <2>2
<1>6. CASE Save(g)
    <2>1. op[g].at = "save" /\ row'.pid = op[g].item.pid /\ Ends(g)
        BY <1>6 DEF Save, At
    <2> QED
        BY <1>1, <1>2, <1>3, <2>1, AfterEnds, RequestKeepsSight DEF InheritedSteps, KnowingSteps
<1>7. CASE RequestFails(g)
    <2>1. row' = row /\ (Ends(g) \/ StopEnds(g, FALSE))
        BY <1>7 DEF RequestFails
    <2>2. op'[g].at \in {"idle", "delete"} /\ Others(g)
        BY <1>1, <2>1, AfterEnds, AfterStopEnds
    <2> QED
        BY <1>2, <2>1, <2>2, RequestKeepsSight DEF InheritedSteps, KnowingSteps
<1> QED
    BY <1>4, <1>5, <1>6, <1>7

(* The run's goroutine.                                                    *)
LEMMA AfterAdvance ==
    ASSUME run \in [Run -> RunState], NEW r \in Run, NEW s, Advance(r, s)
    PROVE  /\ run'[r].at = s /\ run'[r].pid = run[r].pid /\ run'[r].manual = run[r].manual
           /\ \A q \in Run \ {r} : run'[q] = run[q]
BY DEF Advance, RunState

LEMMA RunKeepsSight ==
    ASSUME TypeOK, Sighted, NEW r \in Run, RunStep(r) PROVE Sighted'
<1>1. run \in [Run -> RunState] /\ \A x \in RunState : x.manual \in BOOLEAN
    BY DEF TypeOK, RunState
<1>2. MapIsRuns /\ OwnProcess /\ InheritedProcess
    BY DEF Sighted
<1>3. op' = op
    BY DEF RunStep, Launch, LaunchFails, Launched, KillCancelled, Waited, Leave, Tally, ComeBack
<1>4. CASE KillCancelled(r)
    BY <1>2, <1>4 DEF KillCancelled, runs, Sighted, MapIsRuns, Started, Waiting, OwnProcess,
                      InheritedProcess, Inherited
<1>5. ASSUME ~KillCancelled(r) PROVE run[r].at # "none"
    BY <1>5 DEF RunStep, Launch, LaunchFails, Launched, Waited, Leave, Tally, ComeBack
<1>6. ASSUME ~KillCancelled(r) PROVE ~Inherited
    BY <1>2, <1>5, <1>6 DEF InheritedProcess
<1>7. ASSUME ~Inherited, alive' = alive, running' = running PROVE InheritedProcess'
    BY <1>7 DEF InheritedProcess, Inherited
<1>8. ASSUME Started(r) PROVE running = {r} /\ \A q \in Run : (Started(q) => q = r) /\ ~Waiting(q)
    <2>1. r \in running
        BY <1>2, <1>8 DEF MapIsRuns
    <2>2. running = {r}
        BY <2>1 DEF TypeOK
    <2> QED
        BY <1>2, <2>2 DEF MapIsRuns
<1>9. CASE Launch(r)
    <2>1. PICK p \in Pid :
            /\ alive' = alive \cup {p}
            /\ run' = [run EXCEPT ![r] = [@ EXCEPT !.at = "record", !.pid = p]]
        BY <1>9 DEF Launch
    <2>2. running' = running /\ run[r].at = "launch" /\ Started(r)
        BY <1>9 DEF Launch, Started
    <2>3. /\ run'[r].at = "record" /\ run'[r].pid = p
          /\ \A q \in Run \ {r} : run'[q] = run[q]
        BY <1>1, <2>1 DEF RunState
    <2>4. alive = {} /\ running = {r}
        BY <1>2, <1>8, <2>2 DEF OwnProcess
    <2>5. MapIsRuns'
        BY <1>8, <2>2, <2>3 DEF MapIsRuns, Started, Waiting
    <2>6. OwnProcess' /\ InheritedProcess'
        BY <2>1, <2>2, <2>3, <2>4 DEF OwnProcess, InheritedProcess, Inherited
    <2> QED
        BY <2>5, <2>6 DEF Sighted
<1>10. CASE LaunchFails(r) \/ Launched(r) \/ Waited(r)
    <2>1. alive' = alive /\ running' = running /\ Started(r)
        BY <1>10 DEF LaunchFails, Launched, Waited, Started
    <2>2. PICK s \in {"wait", "end"} : Advance(r, s)
        BY <1>10 DEF LaunchFails, Launched, Waited
    <2>3. /\ run'[r].at = s /\ run'[r].pid = run[r].pid
          /\ \A q \in Run \ {r} : run'[q] = run[q]
        BY <1>1, <2>2, AfterAdvance
    <2>4. MapIsRuns'
        BY <1>8, <2>1, <2>3 DEF MapIsRuns, Started, Waiting
    <2>5. alive \subseteq IF run[r].at \in {"record", "wait"} THEN {run[r].pid} ELSE {}
        BY <1>2, <1>8, <2>1 DEF OwnProcess
    <2>6. alive \subseteq IF s = "wait" THEN {run[r].pid} ELSE {}
        <3>1. CASE LaunchFails(r)
            BY <2>5, <3>1 DEF LaunchFails
        <3>2. CASE Launched(r)
            <4>1. Advance(r, "wait")
                BY <3>2 DEF Launched
            <4>2. s = "wait"
                BY <1>1, <2>3, <4>1, AfterAdvance
            <4> QED
                BY <2>5, <4>2
        <3>3. CASE Waited(r)
            BY <2>5, <3>3 DEF Waited
        <3> QED
            BY <1>10, <3>1, <3>2, <3>3
    <2>7. OwnProcess'
        BY <1>8, <2>1, <2>3, <2>6 DEF OwnProcess
    <2>8. InheritedProcess'
        BY <1>8, <2>1 DEF InheritedProcess, Inherited
    <2> QED
        BY <2>4, <2>7, <2>8 DEF Sighted
<1>11. CASE Leave(r)
    <2>1. run[r].at = "end" /\ running' = {} /\ alive' = alive /\ Started(r)
        BY <1>11 DEF Leave, Started
    <2>2. run'[r].at \in {"tally", "none"} /\ \A q \in Run \ {r} : run'[q] = run[q]
        BY <1>1, <1>11 DEF Leave, NoRun, RunState
    <2>3. alive = {}
        BY <1>2, <1>8, <2>1 DEF OwnProcess
    <2>4. MapIsRuns'
        BY <1>8, <2>1, <2>2 DEF MapIsRuns, Started, Waiting
    <2> QED
        BY <2>1, <2>3, <2>4 DEF Sighted, OwnProcess, InheritedProcess, Inherited
<1>12. CASE Tally(r)
    <2>1. run[r].at = "tally" /\ alive' = alive /\ running' = running /\ Advance(r, "delay")
        BY <1>12 DEF Tally
    <2>2. /\ run'[r].at = "delay" /\ run'[r].manual = run[r].manual
          /\ \A q \in Run \ {r} : run'[q] = run[q]
        BY <1>1, <2>1, AfterAdvance
    <2>3. \A q \in Run : (Started(q) <=> Started(q)') /\ (Waiting(q) <=> Waiting(q)')
        BY <2>1, <2>2 DEF Started, Waiting
    <2>4. MapIsRuns'
        BY <1>2, <2>1, <2>3 DEF MapIsRuns
    <2>5. r \notin running
        BY <1>2, <2>1 DEF MapIsRuns, Started
    <2>6. OwnProcess'
        BY <1>2, <2>1, <2>2, <2>5 DEF OwnProcess, MapIsRuns
    <2>7. ~Inherited
        BY <1>2, <2>1 DEF InheritedProcess
    <2> QED
        BY <1>7, <2>1, <2>4, <2>6, <2>7 DEF Sighted
<1>13. CASE ComeBack(r)
    <2>1. run[r].at = "delay" /\ alive' = alive /\ r \notin running
        BY <1>2, <1>13 DEF ComeBack, MapIsRuns, Started
    <2>2. ~Inherited
        BY <1>2, <2>1 DEF InheritedProcess
    <2>3. CASE MayComeBack(r)
        <3>1. running' = {r} /\ Waiting(r)
            BY <1>13, <2>1, <2>3 DEF ComeBack, MayComeBack, Waiting
        <3>2. run'[r].at = "launch" /\ \A q \in Run \ {r} : run'[q] = run[q]
            BY <1>1, <1>13, <2>3 DEF ComeBack, RunState
        <3>3. running = {} /\ alive = {}
            BY <1>2, <2>2, <3>1 DEF MapIsRuns, Inherited
        <3>4. MapIsRuns'
            BY <1>2, <3>1, <3>2, <3>3 DEF MapIsRuns, Started, Waiting
        <3> QED
            BY <2>1, <3>3, <3>4 DEF Sighted, OwnProcess, InheritedProcess, Inherited
    <2>4. CASE ~MayComeBack(r)
        <3>1. /\ running' = running /\ run'[r].at = "none"
              /\ \A q \in Run \ {r} : run'[q] = run[q]
            BY <1>1, <1>13, <2>4 DEF ComeBack, NoRun
        <3>2. MapIsRuns'
            BY <1>2, <2>1, <3>1 DEF MapIsRuns, Started, Waiting
        <3>3. OwnProcess'
            BY <1>2, <2>1, <3>1 DEF OwnProcess, MapIsRuns
        <3> QED
            BY <1>7, <2>1, <2>2, <3>1, <3>2, <3>3 DEF Sighted
    <2> QED
        BY <2>3, <2>4
<1> QED
    BY <1>4, <1>9, <1>10, <1>11, <1>12, <1>13 DEF RunStep

LEMMA OutsideKeepsSight ==
    ASSUME TypeOK, Sighted, InSight', ServiceStart \/ ProcessExits \/ Crash PROVE Sighted'
<1>1. op \in [Client -> Op] /\ running \in {{}} \cup {{r} : r \in Run}
    BY DEF TypeOK
<1>2. CASE ServiceStart
    <2>1. UNCHANGED <<run, running, alive, row>>
        BY <1>2 DEF ServiceStart, runs
    <2>2. CASE op' = op
        BY <2>1, <2>2 DEF Sighted, MapIsRuns, Started, Waiting, OwnProcess, InheritedProcess, Inherited
    <2>3. CASE \E g \in Client : Goto(g, "startRead")
        <3>1. PICK g \in Client : Goto(g, "startRead")
            BY <2>3
        <3> QED
            BY <1>1, <2>1, <3>1, AfterGoto, RequestKeepsSight DEF InheritedSteps, KnowingSteps
    <2> QED
        BY <1>2, <2>2, <2>3 DEF ServiceStart
<1>3. CASE ProcessExits
    <2>1. UNCHANGED <<run, running, op, row>> /\ alive' \subseteq alive
        BY <1>3 DEF ProcessExits, runs
    <2>2. Inherited => alive' = {}
        BY <1>3 DEF ProcessExits, Sighted, InheritedProcess, Inherited
    <2> QED
        BY <2>1, <2>2 DEF Sighted, MapIsRuns, Started, Waiting, OwnProcess, InheritedProcess, Inherited
<1>4. CASE Crash
    <2>1. /\ running' = {} /\ run' = [r \in Run |-> NoRun] /\ op' = [g \in Client |-> NoOp]
          /\ alive' = alive /\ row' = row
        BY <1>4 DEF Crash
    <2>2. alive \subseteq {row.pid}
        BY <1>4 DEF Crash, Notes, InSight
    <2>3. \A r \in Run : run'[r].at = "none"
        BY <2>1 DEF NoRun
    <2>4. \A g \in Client : op'[g].at = "idle"
        BY <2>1 DEF NoOp
    <2>5. MapIsRuns'
        BY <2>1, <2>3 DEF MapIsRuns, Started, Waiting
    <2>6. OwnProcess'
        BY <2>1 DEF OwnProcess
    <2>7. InheritedProcess'
        BY <2>1, <2>2, <2>3, <2>4 DEF InheritedProcess, Inherited, InheritedSteps, KnowingSteps
    <2> QED
        BY <2>5, <2>6, <2>7 DEF Sighted
<1> QED
    BY <1>2, <1>3, <1>4

LEMMA NextSighted == TypeOK /\ (InSight => Sighted) /\ [Next]_vars => (InSight => Sighted)'
<1> SUFFICES ASSUME TypeOK, InSight => Sighted, [Next]_vars, InSight' PROVE Sighted'
    OBVIOUS
<1>1. Sighted
    BY MishapsStay DEF InSight
<1>2. CASE UNCHANGED vars
    BY <1>1, <1>2 DEF vars, runs, Sighted, MapIsRuns, Started, Waiting, OwnProcess,
                      InheritedProcess, Inherited
<1>3. ASSUME NEW g \in Client, RequestBegins(g) \/ RequestStep(g) \/ RequestFails(g)
      PROVE  Sighted'
    BY <1>1, <1>3, BeginKeepsSight, StartKeepsSight, EnterKeepsSight, FlagsKeepSight,
       StopKeepsSight, RowKeepsSight DEF RequestStep
<1> QED
    BY <1>1, <1>2, <1>3, RunKeepsSight, OutsideKeepsSight DEF Next

LEMMA InitSighted == Init => Sighted
BY DEF Init, Sighted, MapIsRuns, Started, Waiting, OwnProcess, InheritedProcess, Inherited, NoRun

(* As long as nothing has put a process out of the panel's sight, every    *)
(* process is accounted for: the current run's, or one a row names.        *)
THEOREM SightInvariance == Spec => [](InSight => Sighted)
BY InitSighted, TypeCorrect, NextSighted, PTL DEF Spec

LEMMA SightedProcesses ==
    ASSUME TypeOK, Sighted
    PROVE  /\ Cardinality(alive) <= 1
           /\ \A p \in alive : row.pid = p \/ \E r \in running : run[r].pid = p
<1>1. running = {} \/ \E r \in Run : running = {r}
    BY DEF TypeOK
<1>2. \A p \in alive : alive = {p} /\ (row.pid = p \/ \E r \in running : run[r].pid = p)
    BY <1>1 DEF Sighted, OwnProcess, InheritedProcess, Inherited
<1>3. alive = {} \/ \E p : alive = {p}
    BY <1>2
<1>4. Cardinality(alive) \in {0, 1}
    BY <1>3, FS_EmptySet, FS_Singleton
<1> QED
    BY <1>2, <1>4

(* For every number of clients, runs, pids and restarts, and across         *)
(* failures, crashes and stale saves: at most one process of the item, as   *)
(* long as none was started in a restart delay and no crash lost one.       *)
THEOREM NeverTwoProcesses == Spec => []OneProcess
<1>1. TypeOK /\ (InSight => Sighted) => OneProcess
    BY SightedProcesses DEF OneProcess
<1> QED
    BY <1>1, TypeCorrect, SightInvariance, PTL

(* And that process is named by the map's entry or by the row.             *)
THEOREM ProcessIsFound == Spec => []Findable
<1>1. TypeOK /\ (InSight => Sighted) => Findable
    BY SightedProcesses DEF Findable
<1> QED
    BY <1>1, TypeCorrect, SightInvariance, PTL

-----------------------------------------------------------------------------
(* StoppedIsDead.  A stop may only count (apart) while no start or restart *)
(* is in progress (StartsApart).  From the moment it has found the run     *)
(* every run is marked, so none comes back or is launched, and it settles  *)
(* when neither a run nor a process is left (StopFacts).                   *)

Starting(g) == op[g].at \in StartSteps \/ op[g].then = "start"
Marked(r) == run[r].at = "none" \/ run[r].manual
AllMarked == \A r \in Run : Marked(r)
Dead == AllMarked /\ running = {} /\ alive = {}
NoStopCounts == apart = {} /\ ~told

StartsApart == \A g \in Client : Starting(g) => NoStopCounts

StopAt(g) ==
    /\ op[g].at = "mark" => \A r \in Run \ op[g].run : Marked(r)
    /\ op[g].at \in {"sayStopping", "cancel", "poll", "force", "pollAgain"} => AllMarked
    /\ op[g].at \in {"sayKilling", "kill"} => AllMarked /\ running = {}
    /\ op[g].at = "settle" => Dead

StopFacts == (told => Dead) /\ \A g \in apart : StopAt(g)

(* A step that is not the beginning of a start makes no request a start.   *)
LEMMA StartsStayApart ==
    ASSUME StartsApart, NEW g \in Client, Others(g), Starting(g)' => Starting(g),
           (\E h \in Client : Starting(h)) /\ NoStopCounts => NoStopCounts'
    PROVE  StartsApart'
<1> SUFFICES ASSUME NEW h \in Client, Starting(h)' PROVE NoStopCounts'
    BY DEF StartsApart
<1>1. Starting(h)
    BY DEF Starting, Others
<1> QED
    BY <1>1 DEF StartsApart

LEMMA StepNames ==
    /\ {"idle", "delete"} \cap StartSteps = {}
    /\ StopSteps \cap StartSteps = {} /\ UpdateSteps \cap StartSteps = {}
BY DEF StartSteps, StopSteps, UpdateSteps

LEMMA BeginKeepsApart ==
    ASSUME TypeOK, StartsApart, NEW g \in Client, RequestBegins(g) PROVE StartsApart'
<1>1. op \in [Client -> Op]
    BY DEF TypeOK
<1>2. CASE StartRequest(g) \/ RestartRequest(g)
    BY <1>2 DEF StartRequest, RestartRequest, StartBegins, StartsApart, NoStopCounts
<1>3. CASE StopRequest(g) \/ UpdateRequest(g) \/ ServiceStop(g)
    <2>1. \/ op' = op
          \/ \E s \in {"stopRead", "updateRead"}, t \in {"return", "delete", "off"} : Serve(g, s, t)
        BY <1>3 DEF StopRequest, UpdateRequest, ServiceStop
    <2>2. Others(g) /\ (Starting(g)' => Starting(g))
        <3>1. CASE op' = op
            BY <3>1 DEF Others, Starting
        <3>2. ASSUME NEW s \in {"stopRead", "updateRead"}, NEW t \in {"return", "delete", "off"},
                     Serve(g, s, t)
              PROVE  Others(g) /\ ~Starting(g)'
            <4>1. op'[g].at = s /\ op'[g].then = t /\ Others(g)
                BY <1>1, <3>2, AfterServe
            <4> QED
                BY <4>1 DEF Starting, StartSteps
        <3> QED
            BY <2>1, <3>1, <3>2
    <2>3. StopBegins(g) \/ UNCHANGED history
        BY <1>3 DEF StopRequest, UpdateRequest, ServiceStop
    <2>4. (\E h \in Client : Starting(h)) /\ NoStopCounts => NoStopCounts'
        BY <2>3 DEF StopBegins, history, NoStopCounts, Starting
    <2> QED
        BY <2>2, <2>4, StartsStayApart
<1> QED
    BY <1>2, <1>3 DEF RequestBegins

LEMMA RequestKeepsApart ==
    ASSUME TypeOK, StartsApart, NEW g \in Client, RequestStep(g) \/ RequestFails(g)
    PROVE  StartsApart'
<1>1. op \in [Client -> Op]
    BY DEF TypeOK
<1>2. NoStopCounts => NoStopCounts'
    BY DEF RequestStep, RequestFails, StartRead, Check, Adopt, Adopted, Clear, Enter, StopRead,
           Lookup, Mark, SayStopping, Cancel, Poll, ForceKill, KillByPid, Settle, Delete,
           UpdateRead, Save, history, NoStopCounts
<1>3. CASE StartRead(g) \/ Check(g) \/ Adopt(g) \/ Adopted(g) \/ Clear(g) \/ Enter(g)
    <2>1. Starting(g)
        BY <1>3 DEF StartRead, Check, Adopt, Adopted, Clear, Enter, At, Starting, StartSteps
    <2>2. Others(g)
        <3>1. Ends(g) \/ (\E s : Goto(g, s)) \/ (\E s, i : GotoWith(g, s, i))
            BY <1>3 DEF StartRead, Check, Adopt, Adopted, Clear, Enter
        <3> QED
            BY <1>1, <3>1, AfterEnds, AfterGoto, AfterGotoWith
    <2> QED
        BY <1>2, <2>1, <2>2, StartsStayApart
<1>4. ASSUME Others(g), op'[g].then = op[g].then, op'[g].at \notin StartSteps PROVE StartsApart'
    BY <1>2, <1>4, StartsStayApart DEF Starting
<1>5. ASSUME StopEnds(g, TRUE) \/ StopEnds(g, FALSE) PROVE StartsApart'
    <2>1. /\ op'[g].at \in {"idle", "delete"} \/ (op'[g].at = "startRead" /\ op[g].then = "start")
          /\ op'[g].then = "return" /\ Others(g)
        BY <1>1, <1>5, AfterStopEnds
    <2>2. Starting(g)' => Starting(g)
        BY <2>1, StepNames DEF Starting
    <2> QED
        BY <1>2, <2>1, <2>2, StartsStayApart
<1>6. ASSUME Ends(g) PROVE StartsApart'
    <2>1. op'[g].at = "idle" /\ op'[g].then = "return" /\ Others(g)
        BY <1>1, <1>6, AfterEnds
    <2>2. ~Starting(g)'
        BY <2>1, StepNames DEF Starting
    <2> QED
        BY <1>2, <2>1, <2>2, StartsStayApart
<1>7. ASSUME NEW s \in StopSteps \cup UpdateSteps, Goto(g, s) \/ \E i : GotoWith(g, s, i)
      PROVE  StartsApart'
    <2>1. op'[g].at = s /\ op'[g].then = op[g].then /\ Others(g)
        BY <1>1, <1>7, AfterGoto, AfterGotoWith
    <2> QED
        BY <1>4, <2>1, StepNames
<1>8. /\ {"lookup", "mark", "sayStopping", "cancel", "poll", "force", "pollAgain",
          "sayKilling", "kill", "settle"} \subseteq StopSteps
      /\ "save" \in UpdateSteps
    BY DEF StopSteps, UpdateSteps
<1>9. CASE StopRead(g) \/ Mark(g) \/ SayStopping(g) \/ Cancel(g) \/ KillByPid(g) \/ Settle(g)
    BY <1>5, <1>7, <1>8, <1>9 DEF StopRead, Mark, SayStopping, Cancel, KillByPid, Settle
<1>10. CASE Lookup(g)
    <2>1. Others(g) /\ op'[g].then = op[g].then /\ op'[g].at \in {"mark", "sayKilling", "settle"}
        BY <1>1, <1>10 DEF Lookup, Op, Others
    <2> QED
        BY <1>4, <1>8, <2>1, StepNames
<1>11. CASE Poll(g)
    <2>1. CASE op' = [op EXCEPT ![g] = [@ EXCEPT !.at = "settle", !.run = {}]]
        <3>1. Others(g) /\ op'[g].then = op[g].then /\ op'[g].at = "settle"
            BY <1>1, <2>1 DEF Op, Others
        <3> QED
            BY <1>4, <1>8, <3>1, StepNames
    <2>2. CASE Goto(g, "force") \/ StopEnds(g, FALSE)
        BY <1>5, <1>7, <1>8, <2>2
    <2> QED
        BY <1>11, <2>1, <2>2 DEF Poll
<1>12. CASE ForceKill(g)
    <2>1. Others(g) /\ op'[g].then = op[g].then /\ op'[g].at = "pollAgain"
        BY <1>1, <1>12 DEF ForceKill, Op, Others
    <2> QED
        BY <1>4, <1>8, <2>1, StepNames
<1>13. CASE Delete(g) \/ UpdateRead(g) \/ Save(g) \/ RequestFails(g)
    BY <1>5, <1>6, <1>7, <1>8, <1>13 DEF Delete, UpdateRead, Save, RequestFails
<1> QED
    BY <1>3, <1>9, <1>10, <1>11, <1>12, <1>13 DEF RequestStep

LEMMA NextApart == TypeOK /\ StartsApart /\ [Next]_vars => StartsApart'
<1> SUFFICES ASSUME TypeOK, StartsApart, [Next]_vars PROVE StartsApart'
    OBVIOUS
<1>1. ASSUME op' = op, UNCHANGED history PROVE StartsApart'
    BY <1>1 DEF StartsApart, Starting, NoStopCounts, history
<1>2. CASE ServiceStart
    <2>1. StartBegins \/ (op' = op /\ UNCHANGED history)
        BY <1>2 DEF ServiceStart
    <2> QED
        BY <1>1, <2>1 DEF StartBegins, StartsApart, NoStopCounts
<1>3. CASE Crash
    <2>1. \A g \in Client : op'[g] = NoOp
        BY <1>3 DEF Crash
    <2> QED
        BY <2>1, StepNames DEF StartsApart, Starting, NoOp
<1>4. CASE ProcessExits
    BY <1>1, <1>4 DEF ProcessExits
<1>5. ASSUME NEW r \in Run, RunStep(r) PROVE StartsApart'
    BY <1>1, <1>5 DEF RunStep, Launch, LaunchFails, Launched, KillCancelled, Waited, Leave, Tally,
                      ComeBack
<1>6. CASE UNCHANGED vars
    BY <1>1, <1>6 DEF vars, history
<1> QED
    BY <1>2, <1>3, <1>4, <1>5, <1>6, BeginKeepsApart, RequestKeepsApart DEF Next

(* What the steps of all others leave a stop with.                         *)
LEMMA StopWaits ==
    ASSUME StopFacts,
           \A r \in Run : Marked(r) => Marked(r)',
           AllMarked /\ running = {} => running' = {},
           Dead => alive' = {}
    PROVE  /\ told => Dead'
           /\ \A h \in apart : op'[h] = op[h] => StopAt(h)'
<1>1. AllMarked => AllMarked'
    BY DEF AllMarked
<1>2. Dead => Dead'
    BY <1>1 DEF Dead
<1> QED
    BY <1>1, <1>2 DEF StopFacts, StopAt

LEMMA RequestKeepsStop ==
    ASSUME StopFacts, NEW g \in Client, Others(g), apart \subseteq Client,
           \A r \in Run : Marked(r) => Marked(r)',
           running' = running, alive' \subseteq alive,
           apart' \subseteq apart \cup {g}, told' => told \/ Dead',
           g \in apart' => StopAt(g)'
    PROVE  StopFacts'
<1>1. (told => Dead') /\ \A h \in apart : op'[h] = op[h] => StopAt(h)'
    BY StopWaits DEF Dead
<1> QED
    BY <1>1 DEF StopFacts, Others

LEMMA UnmarkedWaits ==
    ASSUME TypeOK, MapIsRuns, NEW r \in Run, r \notin running, ~Marked(r)
    PROVE  running = {} /\ InDelay
<1>1. run[r].at \in {"none", "launch", "record", "wait", "end", "tally", "delay"}
    BY DEF TypeOK, RunState
<1>2. ~Started(r)
    BY DEF MapIsRuns
<1>3. run[r].at \in {"tally", "delay"} /\ ~run[r].manual
    BY <1>1, <1>2 DEF Started, Marked
<1> QED
    BY <1>3 DEF MapIsRuns, Waiting, InDelay

LEMMA StopKeepsStop ==
    ASSUME TypeOK, Sighted, StopFacts, mishaps' = {}, NEW g \in Client,
           \/ StopRead(g) \/ Lookup(g) \/ Mark(g) \/ SayStopping(g) \/ Cancel(g) \/ Poll(g)
           \/ ForceKill(g) \/ KillByPid(g) \/ Settle(g)
    PROVE  StopFacts'
<1>1. /\ op \in [Client -> Op] /\ run \in [Run -> RunState] /\ apart \subseteq Client
      /\ MapIsRuns
    BY DEF TypeOK, Sighted
<1>2. running' = running /\ alive' \subseteq alive
    BY DEF StopRead, Lookup, Mark, SayStopping, Cancel, Poll, ForceKill, KillByPid, Settle, runs
<1>3. \A r \in Run : Marked(r) => Marked(r)'
    <2>1. CASE Mark(g)
        <3>1. ASSUME NEW r \in Run PROVE run'[r].at = run[r].at /\ (run[r].manual => run'[r].manual)
            BY <1>1, <2>1 DEF Mark, RunState
        <3> QED
            BY <3>1 DEF Marked
    <2>2. CASE Cancel(g)
        <3>1. ASSUME NEW r \in Run PROVE run'[r].at = run[r].at /\ run'[r].manual = run[r].manual
            BY <1>1, <2>2 DEF Cancel, RunState
        <3> QED
            BY <3>1 DEF Marked
    <2>3. CASE UNCHANGED run
        BY <2>3 DEF Marked
    <2> QED
        BY <2>1, <2>2, <2>3
           DEF StopRead, Lookup, SayStopping, Poll, ForceKill, KillByPid, Settle, runs
<1>4. AllMarked => AllMarked'
    BY <1>3 DEF AllMarked
<1>5. g \in apart => StopAt(g)
    BY DEF StopFacts
<1>6. ASSUME UNCHANGED history, Others(g), g \in apart => StopAt(g)' PROVE StopFacts'
    BY <1>1, <1>2, <1>3, <1>6, RequestKeepsStop DEF history
<1>7. ASSUME Inherited
      PROVE  /\ alive = {row.pid}
             /\ op[g].at \in InheritedSteps
             /\ op[g].at \in KnowingSteps => op[g].item.pid = row.pid
    BY <1>7 DEF Sighted, InheritedProcess
<1>8. CASE StopRead(g)
    <2>1. /\ UNCHANGED history /\ Others(g)
          /\ op'[g].at \in {"lookup", "idle", "delete", "startRead"}
        BY <1>1, <1>8, AfterGotoWith, AfterStopEnds DEF StopRead
    <2> QED
        BY <1>6, <2>1 DEF StopAt
<1>9. CASE Lookup(g)
    <2>1. UNCHANGED history /\ UNCHANGED run /\ op[g].at = "lookup" /\ Others(g) /\ alive' = alive
        BY <1>1, <1>9 DEF Lookup, At, Others, runs
    <2>2. running = {} => ~InDelay
        BY <1>9 DEF Lookup, Notes
    <2>3. \A r \in Run \ running : Marked(r)
        BY <1>1, <2>2, UnmarkedWaits
    <2>4. CASE running # {}
        <3>1. op'[g].at = "mark" /\ op'[g].run = running
            BY <1>1, <1>9, <2>4 DEF Lookup, Op
        <3>2. StopAt(g)'
            BY <1>3, <2>3, <3>1 DEF StopAt
        <3> QED
            BY <1>6, <2>1, <3>2
    <2>5. CASE running = {}
        <3>1. AllMarked'
            BY <1>4, <2>3, <2>5 DEF AllMarked
        <3>2. CASE op[g].item.pid \in alive
            <4>1. op'[g].at = "sayKilling"
                BY <1>1, <1>9, <2>5, <3>2 DEF Lookup, Op
            <4>2. StopAt(g)'
                BY <1>2, <2>5, <3>1, <4>1 DEF StopAt
            <4> QED
                BY <1>6, <2>1, <4>2
        <3>3. CASE op[g].item.pid \notin alive
            <4>1. op'[g].at = "settle"
                BY <1>1, <1>9, <2>5, <3>3 DEF Lookup, Op
            <4>2. alive = {}
                BY <1>7, <2>1, <2>5, <3>3 DEF Inherited, KnowingSteps
            <4>3. StopAt(g)'
                BY <1>2, <2>1, <2>5, <3>1, <4>1, <4>2 DEF StopAt, Dead
            <4> QED
                BY <1>6, <2>1, <4>3
        <3> QED
            BY <3>2, <3>3
    <2> QED
        BY <2>4, <2>5
<1>10. CASE Mark(g)
    <2>1. UNCHANGED history /\ op[g].at = "mark" /\ Goto(g, "sayStopping")
        BY <1>10 DEF Mark, At
    <2>2. op'[g].at = "sayStopping" /\ Others(g)
        BY <1>1, <2>1, AfterGoto
    <2>3. \A r \in op[g].run \cap Run : Marked(r)'
        BY <1>1, <1>10 DEF Mark, Marked, RunState
    <2>4. g \in apart => AllMarked'
        BY <1>3, <1>5, <2>1, <2>3 DEF StopAt, AllMarked
    <2> QED
        BY <1>6, <2>1, <2>2, <2>4 DEF StopAt
<1>11. CASE SayStopping(g)
    <2>1. /\ UNCHANGED history /\ op[g].at \in {"sayStopping", "sayKilling"}
          /\ Goto(g, IF op[g].at = "sayStopping" THEN "cancel" ELSE "kill")
        BY <1>11 DEF SayStopping, At
    <2>2. op'[g].at = (IF op[g].at = "sayStopping" THEN "cancel" ELSE "kill") /\ Others(g)
        BY <1>1, <2>1, AfterGoto
    <2>3. g \in apart => StopAt(g)'
        BY <1>2, <1>4, <1>5, <2>1, <2>2 DEF StopAt
    <2> QED
        BY <1>6, <2>1, <2>2, <2>3
<1>12. CASE Cancel(g)
    <2>1. UNCHANGED history /\ op[g].at = "cancel" /\ Goto(g, "poll")
        BY <1>12 DEF Cancel, At
    <2>2. op'[g].at = "poll" /\ Others(g)
        BY <1>1, <2>1, AfterGoto
    <2> QED
        BY <1>4, <1>5, <1>6, <2>1, <2>2 DEF StopAt
<1>13. CASE Poll(g)
    <2>1. UNCHANGED history /\ op[g].at \in {"poll", "pollAgain"} /\ alive' = alive
        BY <1>13 DEF Poll
    <2>2. CASE running = {} /\ op' = [op EXCEPT ![g] = [@ EXCEPT !.at = "settle", !.run = {}]]
        <3>1. op'[g].at = "settle" /\ Others(g)
            BY <1>1, <2>2 DEF Op, Others
        <3>2. alive = {}
            BY <1>7, <2>1, <2>2 DEF Inherited, InheritedSteps
        <3>3. g \in apart => StopAt(g)'
            BY <1>2, <1>4, <1>5, <2>1, <2>2, <3>1, <3>2 DEF StopAt, Dead
        <3> QED
            BY <1>6, <2>1, <3>1, <3>3
    <2>3. CASE op[g].at = "poll" /\ Goto(g, "force")
        <3>1. op'[g].at = "force" /\ Others(g)
            BY <1>1, <2>3, AfterGoto
        <3> QED
            BY <1>4, <1>5, <1>6, <2>1, <2>3, <3>1 DEF StopAt
    <2>4. CASE StopEnds(g, FALSE)
        <3>1. op'[g].at \in {"idle", "delete"} /\ Others(g)
            BY <1>1, <2>4, AfterStopEnds
        <3> QED
            BY <1>6, <2>1, <3>1 DEF StopAt
    <2> QED
        BY <1>13, <2>2, <2>3, <2>4 DEF Poll, At
<1>14. CASE ForceKill(g)
    <2>1. /\ UNCHANGED history /\ op[g].at = "force"
          /\ op'[g].at = "pollAgain" /\ Others(g)
        BY <1>1, <1>14 DEF ForceKill, At, Op, Others
    <2> QED
        BY <1>4, <1>5, <1>6, <2>1 DEF StopAt
<1>15. CASE KillByPid(g)
    <2>1. /\ UNCHANGED history /\ op[g].at = "kill" /\ alive' = alive \ {op[g].item.pid}
          /\ GotoWith(g, "settle", NoItem)
        BY <1>15 DEF KillByPid, At
    <2>2. op'[g].at = "settle" /\ Others(g)
        BY <1>1, <2>1, AfterGotoWith
    <2>3. running = {} => alive' = {}
        BY <1>7, <2>1 DEF Inherited, KnowingSteps
    <2>4. g \in apart => StopAt(g)'
        BY <1>2, <1>4, <1>5, <2>1, <2>2, <2>3 DEF StopAt, Dead
    <2> QED
        BY <1>6, <2>1, <2>2, <2>4
<1>16. CASE Settle(g)
    <2>1. /\ op[g].at = "settle" /\ told' = (told \/ g \in apart) /\ apart' = apart \ {g}
          /\ StopEnds(g, TRUE)
        BY <1>16 DEF Settle, At
    <2>2. Others(g)
        BY <1>1, <2>1, AfterStopEnds
    <2>3. g \in apart => Dead'
        BY <1>2, <1>4, <1>5, <2>1 DEF StopAt, Dead
    <2> QED
        BY <1>1, <1>2, <1>3, <2>1, <2>2, <2>3, RequestKeepsStop
<1> QED
    BY <1>8, <1>9, <1>10, <1>11, <1>12, <1>13, <1>14, <1>15, <1>16

(* Requests that begin, and the steps of a start, an update or a deletion. *)
LEMMA OtherRequestKeepsStop ==
    ASSUME TypeOK, StartsApart, StopFacts, NEW g \in Client,
           \/ RequestBegins(g) \/ RequestFails(g)
           \/ StartRead(g) \/ Check(g) \/ Adopt(g) \/ Adopted(g) \/ Clear(g) \/ Enter(g)
           \/ Delete(g) \/ UpdateRead(g) \/ Save(g)
    PROVE  StopFacts'
<1>1. op \in [Client -> Op] /\ apart \subseteq Client
    BY DEF TypeOK
<1>2. CASE NoStopCounts'
    BY <1>2 DEF NoStopCounts, StopFacts
<1>3. CASE StartRead(g) \/ Check(g) \/ Adopt(g) \/ Adopted(g) \/ Clear(g) \/ Enter(g)
    <2>1. Starting(g) /\ UNCHANGED history
        BY <1>3 DEF StartRead, Check, Adopt, Adopted, Clear, Enter, At, Starting, StartSteps
    <2>2. NoStopCounts'
        BY <2>1 DEF StartsApart, NoStopCounts, history
    <2> QED
        BY <1>2, <2>2
<1>4. CASE StartRequest(g) \/ RestartRequest(g)
    BY <1>2, <1>4 DEF StartRequest, RestartRequest, StartBegins, NoStopCounts
<1>5. ASSUME UNCHANGED <<run, running, alive, told>>, Others(g), apart' \subseteq apart \cup {g},
             op'[g].at \in {"idle", "stopRead", "updateRead", "save", "delete"}
      PROVE  StopFacts'
    <2>1. \A r \in Run : Marked(r) => Marked(r)'
        BY <1>5 DEF Marked
    <2>2. StopAt(g)'
        BY <1>5 DEF StopAt
    <2> QED
        BY <1>1, <1>5, <2>1, <2>2, RequestKeepsStop
<1>6. CASE StopRequest(g) \/ UpdateRequest(g) \/ ServiceStop(g)
    <2>1. UNCHANGED <<run, running, alive, told>> /\ apart' \subseteq apart \cup {g}
        BY <1>6 DEF StopRequest, UpdateRequest, ServiceStop, StopBegins, runs, history
    <2>2. \/ op' = op /\ op[g].at = "idle"
          \/ \E s \in {"stopRead", "updateRead"}, t \in {"return", "delete", "off"} : Serve(g, s, t)
        BY <1>6 DEF StopRequest, UpdateRequest, ServiceStop, At
    <2>3. Others(g) /\ op'[g].at \in {"idle", "stopRead", "updateRead"}
        BY <1>1, <2>2, AfterServe DEF Others
    <2> QED
        BY <1>5, <2>1, <2>3
<1>7. CASE Delete(g) \/ UpdateRead(g) \/ Save(g) \/ RequestFails(g)
    <2>1. UNCHANGED <<run, running, alive, told, apart>>
        BY <1>7 DEF Delete, UpdateRead, Save, RequestFails, runs, history
    <2>2. Ends(g) \/ StopEnds(g, FALSE) \/ \E i : GotoWith(g, "save", i)
        BY <1>7 DEF Delete, UpdateRead, Save, RequestFails
    <2>3. Others(g) /\ op'[g].at \in {"idle", "save", "delete"}
        BY <1>1, <2>2, AfterEnds, AfterStopEnds, AfterGotoWith
    <2> QED
        BY <1>5, <2>1, <2>3
<1> QED
    BY <1>3, <1>4, <1>6, <1>7 DEF RequestBegins

LEMMA RunKeepsStop ==
    ASSUME TypeOK, Sighted, StopFacts, NEW r \in Run, RunStep(r) PROVE StopFacts'
<1>1. run \in [Run -> RunState] /\ MapIsRuns
    BY DEF TypeOK, Sighted
<1>2. UNCHANGED <<op, told, apart>>
    BY DEF RunStep, Launch, LaunchFails, Launched, KillCancelled, Waited, Leave, Tally, ComeBack,
           history
<1>3. \A q \in Run \ {r} : run'[q] = run[q]
    BY <1>1 DEF RunStep, Launch, LaunchFails, Launched, KillCancelled, Waited, Leave, Tally, ComeBack,
                Advance, runs
<1>4. Marked(r) => Marked(r)'
    <2>1. CASE Launch(r)
        <3>1. PICK p \in Pid : run' = [run EXCEPT ![r] = [@ EXCEPT !.at = "record", !.pid = p]]
            BY <2>1 DEF Launch
        <3>2. run'[r].manual = run[r].manual /\ run[r].at # "none"
            BY <1>1, <2>1, <3>1 DEF Launch, RunState
        <3> QED
            BY <3>2 DEF Marked
    <2>2. CASE LaunchFails(r) \/ Launched(r) \/ Waited(r) \/ Tally(r)
        <3>1. PICK s \in {"wait", "end", "delay"} : Advance(r, s)
            BY <2>2 DEF LaunchFails, Launched, Waited, Tally
        <3>2. run'[r].manual = run[r].manual /\ run[r].at # "none"
            BY <1>1, <2>2, <3>1, AfterAdvance DEF LaunchFails, Launched, Waited, Tally
        <3> QED
            BY <3>2 DEF Marked
    <2>3. CASE KillCancelled(r)
        BY <2>3 DEF KillCancelled, runs, Marked
    <2>4. CASE Leave(r)
        BY <1>1, <2>4 DEF Leave, MayRestart, Marked, NoRun
    <2>5. CASE ComeBack(r)
        BY <1>1, <2>5 DEF ComeBack, MayComeBack, Marked, NoRun
    <2> QED
        BY <2>1, <2>2, <2>3, <2>4, <2>5 DEF RunStep
<1>5. \A q \in Run : Marked(q) => Marked(q)'
    BY <1>3, <1>4 DEF Marked
<1>6. running = {} => ~Started(r)
    BY <1>1 DEF MapIsRuns
<1>7. AllMarked /\ running = {} => running' = {}
    BY <1>6 DEF RunStep, Launch, LaunchFails, Launched, KillCancelled, Waited, Leave, Tally, ComeBack,
                runs, MayComeBack, AllMarked, Marked, Started
<1>8. Dead => alive' = {}
    BY <1>6 DEF RunStep, Launch, LaunchFails, Launched, KillCancelled, Waited, Leave, Tally, ComeBack,
                Dead, Started
<1> QED
    BY <1>2, <1>5, <1>7, <1>8, StopWaits DEF StopFacts

LEMMA OutsideKeepsStop ==
    ASSUME TypeOK, StopFacts, ServiceStart \/ ProcessExits \/ Crash PROVE StopFacts'
<1>1. CASE ServiceStart
    <2>1. UNCHANGED <<run, running, alive>> /\ (StartBegins \/ UNCHANGED <<op, apart, told>>)
        BY <1>1 DEF ServiceStart, runs, history
    <2>2. CASE StartBegins
        BY <2>2 DEF StartBegins, StopFacts
    <2>3. CASE UNCHANGED <<op, apart, told>>
        BY <2>1, <2>3 DEF StopFacts, StopAt, Dead, AllMarked, Marked
    <2> QED
        BY <2>1, <2>2, <2>3
<1>2. CASE ProcessExits
    <2>1. UNCHANGED <<run, running, op, apart, told>> /\ alive' \subseteq alive
        BY <1>2 DEF ProcessExits, runs, history
    <2> QED
        BY <2>1 DEF StopFacts, StopAt, Dead, AllMarked, Marked
<1>3. CASE Crash
    <2>1. /\ running' = {} /\ alive' = alive /\ told' = told /\ apart' = apart
          /\ \A r \in Run : run'[r] = NoRun
          /\ \A g \in Client : op'[g] = NoOp
        BY <1>3 DEF Crash, history
    <2>2. told' => Dead'
        BY <2>1 DEF StopFacts, Dead, AllMarked, Marked, NoRun
    <2>3. \A g \in Client : StopAt(g)'
        BY <2>1 DEF StopAt, NoOp
    <2> QED
        BY <2>1, <2>2, <2>3 DEF StopFacts, TypeOK
<1> QED
    BY <1>1, <1>2, <1>3

SInv == /\ TypeOK /\ StartsApart /\ (InSight => Sighted)
        /\ mishaps = {} => StopFacts

LEMMA NextStops == SInv /\ [Next]_vars => SInv'
<1> SUFFICES ASSUME SInv, [Next]_vars PROVE SInv'
    OBVIOUS
<1>1. TypeOK' /\ StartsApart' /\ (InSight => Sighted)'
    BY NextType, NextApart, NextSighted DEF SInv
<1>2. ASSUME mishaps' = {} PROVE StopFacts'
    <2>1. TypeOK /\ StartsApart /\ Sighted /\ StopFacts
        BY <1>2, MishapsStay DEF SInv, InSight
    <2>2. ASSUME NEW g \in Client, RequestBegins(g) \/ RequestStep(g) \/ RequestFails(g)
          PROVE  StopFacts'
        BY <1>2, <2>1, <2>2, StopKeepsStop, OtherRequestKeepsStop DEF RequestStep
    <2>3. CASE UNCHANGED vars
        BY <2>1, <2>3 DEF vars, runs, history, StopFacts, StopAt, Dead, AllMarked, Marked
    <2> QED
        BY <2>1, <2>2, <2>3, RunKeepsStop, OutsideKeepsStop DEF Next
<1> QED
    BY <1>1, <1>2 DEF SInv

LEMMA InitStops == Init => SInv
<1> SUFFICES ASSUME Init PROVE SInv
    OBVIOUS
<1>1. TypeOK /\ Sighted
    BY InitType, InitSighted
<1>2. apart = {} /\ ~told
    BY DEF Init
<1> QED
    BY <1>1, <1>2 DEF SInv, StartsApart, NoStopCounts, StopFacts

(* For every number of clients, runs, pids and restarts, and across         *)
(* failures and crashes: once a stop that no start overlapped has reported  *)
(* success there is no process until a start begins, unless the stop came   *)
(* in a restart delay or one of the exceptions of OneProcess happened.      *)
THEOREM StopLeavesNoProcess == Spec => []StoppedIsDead
<1>1. SInv => StoppedIsDead
    BY DEF SInv, StopFacts, Dead, StoppedIsDead
<1> QED
    BY <1>1, InitStops, NextStops, PTL DEF Spec
=============================================================================

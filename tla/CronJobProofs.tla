---------------------------- MODULE CronJobProofs ----------------------------
(***************************************************************************)
(* The guard against concurrent executions and the map of entry ids of the *)
(* cron job plugin, for every number of requests, executions, entries,     *)
(* attempts and lives of the plugin.                                       *)
(*                                                                         *)
(* GuardIsHeld and OneExecution are not inductive: a free guard would let  *)
(* an execution in next to one under way.  GuardIsTaken, what the flag     *)
(* says when Start has not replaced it, closes the gap.                    *)
(***************************************************************************)
EXTENDS CronJob, TLAPS

GuardIsTaken == straddled \/ (Busy # {} => running)

IInv == TypeOK /\ NamesItsEntry /\ OneExecution /\ GuardIsHeld /\ GuardIsTaken

Guard == OneExecution /\ GuardIsHeld /\ GuardIsTaken

-----------------------------------------------------------------------------
LEMMA InitIInv == Init => IInv
<1> SUFFICES ASSUME Init PROVE IInv
    OBVIOUS
<1>1. TypeOK
    <2>1. NoOp \in Op /\ NoExec \in Execution
        BY DEF NoOp, Op, OpPc, NoExec, Execution, ExecPc
    <2> QED
        BY <2>1 DEF Init, TypeOK, Row, Phase
<1>2. Busy = {}
    BY DEF Init, Busy, NoExec
<1> QED
    BY <1>1, <1>2 DEF Init, IInv, NamesItsEntry, OneExecution, GuardIsHeld, GuardIsTaken

-----------------------------------------------------------------------------
(* Types.  The records of op and exec first.                               *)

LEMMA NewOp ==
    ASSUME op \in [Client -> Op], NEW g \in Client,
           NEW o \in Op, op' = [op EXCEPT ![g] = o]
    PROVE  op' \in [Client -> Op]
OBVIOUS

LEMMA GotoType ==
    ASSUME op \in [Client -> Op], NEW g \in Client, NEW pc \in OpPc, Goto(g, pc)
    PROVE  op' \in [Client -> Op]
<1>1. [NoOp EXCEPT !.pc = pc] \in Op
    BY DEF NoOp, Op
<1> QED
    BY <1>1 DEF Goto

LEMMA BeginType ==
    ASSUME op \in [Client -> Op], overlap \in BOOLEAN,
           NEW g \in Client, NEW pc \in OpPc, NEW b \in BOOLEAN, Begin(g, pc, b)
    PROVE  op' \in [Client -> Op] /\ overlap' \in BOOLEAN
<1>1. [pc |-> pc, on |-> b] \in Op
    BY DEF Op
<1>2. op' \in [Client -> Op]
    BY <1>1 DEF Begin
<1>3. overlap' \in BOOLEAN
    BY DEF Begin
<1> QED
    BY <1>2, <1>3

LEMMA MoveType ==
    ASSUME exec \in [Exec -> Execution], NEW e \in Exec, NEW pc \in ExecPc, Move(e, pc)
    PROVE  exec' \in [Exec -> Execution]
<1>1. [exec[e] EXCEPT !.pc = pc] \in Execution
    BY DEF Execution
<1> QED
    BY <1>1 DEF Move

LEMMA NewExec ==
    ASSUME exec \in [Exec -> Execution], NEW e \in Exec,
           NEW x \in Execution, exec' = [exec EXCEPT ![e] = x]
    PROVE  exec' \in [Exec -> Execution]
OBVIOUS

SchedulerFits ==
    /\ sched \subseteq Entry /\ entry \in Entry \cup {NoEntry} /\ amiss \in BOOLEAN
    /\ NamesItsEntry

LEMMA SchedulerTypes ==
    ASSUME sched \subseteq Entry, entry \in Entry \cup {NoEntry}, amiss \in BOOLEAN,
           NamesItsEntry, addToScheduler \/ removeFromScheduler
    PROVE  SchedulerFits'
BY DEF SchedulerFits, addToScheduler, removeFromScheduler, NamesItsEntry

-----------------------------------------------------------------------------
(* Start and Stop. *)

LEMMA LifecycleKeeps == IInv /\ (Start \/ Stop) => IInv'
<1> SUFFICES ASSUME IInv, Start \/ Stop PROVE IInv'
    OBVIOUS
<1>1. TypeOK /\ NamesItsEntry /\ Guard
    BY DEF IInv, Guard
<1>2. CASE StartReset
    <2>1. TypeOK'
        BY <1>1, <1>2 DEF StartReset, TypeOK, Phase
    <2>2. NamesItsEntry'
        BY <1>2 DEF StartReset, NamesItsEntry
    <2>3. Busy' = Busy
        BY <1>2 DEF StartReset, Busy
    <2>4. Guard'
        BY <1>1, <1>2, <2>3 DEF StartReset, Guard, OneExecution, GuardIsHeld, GuardIsTaken
    <2> QED
        BY <2>1, <2>2, <2>4 DEF IInv, Guard
<1>3. CASE StartGuard
    <2>1. TypeOK'
        BY <1>1, <1>3 DEF StartGuard, schedVars, TypeOK, Phase
    <2>2. NamesItsEntry'
        BY <1>1, <1>3 DEF StartGuard, schedVars, NamesItsEntry
    <2>3. Busy' = Busy
        BY <1>3 DEF StartGuard, Busy
    <2>4. Guard'
        BY <1>1, <1>3, <2>3 DEF StartGuard, Guard, OneExecution, GuardIsHeld, GuardIsTaken
    <2> QED
        BY <2>1, <2>2, <2>4 DEF IInv, Guard
<1>4. CASE StartRunner
    <2>1. SchedulerFits'
        <3>1. CASE found
            BY <1>1, <1>4, <3>1, SchedulerTypes DEF StartRunner, TypeOK
        <3>2. CASE ~found
            BY <1>1, <1>4, <3>2 DEF StartRunner, schedVars, TypeOK, NamesItsEntry, SchedulerFits
        <3> QED
            BY <3>1, <3>2
    <2>2. TypeOK'
        BY <1>1, <1>4, <2>1 DEF StartRunner, TypeOK, Phase, SchedulerFits
    <2>3. Busy' = Busy
        BY <1>4 DEF StartRunner, Busy
    <2>4. Guard'
        BY <1>1, <1>4, <2>3 DEF StartRunner, Guard, OneExecution, GuardIsHeld, GuardIsTaken
    <2> QED
        BY <2>1, <2>2, <2>4 DEF IInv, Guard, SchedulerFits
<1>5. CASE Stop
    <2>1. TypeOK'
        BY <1>1, <1>5 DEF Stop, schedVars, TypeOK, Phase
    <2>2. NamesItsEntry'
        BY <1>1, <1>5 DEF Stop, schedVars, NamesItsEntry
    <2>3. Busy' = Busy
        BY <1>5 DEF Stop, Busy
    <2>4. Guard'
        BY <1>1, <1>5, <2>3 DEF Stop, Guard, OneExecution, GuardIsHeld, GuardIsTaken
    <2> QED
        BY <2>1, <2>2, <2>4 DEF IInv, Guard
<1> QED
    BY <1>2, <1>3, <1>4, <1>5 DEF Start

-----------------------------------------------------------------------------
(* Requests change neither the guard nor the executions. *)

LEMMA RequestKeepsGuard ==
    ASSUME IInv, NEW g \in Client, Request(g)
    PROVE  Guard' /\ running' = running /\ exec' = exec /\ straddled' = straddled
                  /\ phase' = phase /\ life' = life /\ found' = found
<1>1. /\ running' = running /\ exec' = exec /\ straddled' = straddled
      /\ phase' = phase /\ life' = life /\ found' = found
    BY DEF Request, CreateTask, UpdateTask, CronJobUpdate, SaveRow, RemoveEntry, AddEntry,
           DeleteTask, Unschedule, DropRow, CronJobCreate, CronJobDelete, ReloadEvent, FindTask,
           SaveFails, DropFails, FindFails
<1>2. Busy' = Busy
    BY <1>1 DEF Busy
<1> QED
    BY <1>1, <1>2 DEF IInv, Guard, OneExecution, GuardIsHeld, GuardIsTaken

LEMMA RequestKeepsScheduler ==
    ASSUME IInv, NEW g \in Client, Request(g)
    PROVE  SchedulerFits'
<1>1. \/ UNCHANGED schedVars \/ addToScheduler \/ removeFromScheduler
      \/ UNCHANGED <<sched, entry>> /\ amiss' = (amiss \/ row = "on")
    BY DEF Request, CreateTask, UpdateTask, CronJobUpdate, SaveRow, RemoveEntry, AddEntry,
           DeleteTask, Unschedule, DropRow, CronJobCreate, CronJobDelete, ReloadEvent, FindTask,
           SaveFails, DropFails, FindFails
<1>2. /\ sched \subseteq Entry /\ entry \in Entry \cup {NoEntry} /\ amiss \in BOOLEAN
      /\ NamesItsEntry
    BY DEF IInv, TypeOK
<1>3. CASE UNCHANGED <<sched, entry>> /\ amiss' \in BOOLEAN
    BY <1>2, <1>3 DEF NamesItsEntry, SchedulerFits
<1>4. CASE UNCHANGED schedVars
    BY <1>2, <1>3, <1>4 DEF schedVars
<1> QED
    BY <1>1, <1>2, <1>3, <1>4, SchedulerTypes

LEMMA RequestTypes ==
    ASSUME IInv, NEW g \in Client, Request(g)
    PROVE  row' \in Row /\ op' \in [Client -> Op] /\ overlap' \in BOOLEAN
<1>1. row \in Row /\ op \in [Client -> Op] /\ overlap \in BOOLEAN
    BY DEF IInv, TypeOK
<1>2. OpPc = {"idle", "save", "remove", "add", "event", "find", "evdelete", "unschedule", "drop"}
    BY DEF OpPc
<1>3. CASE CreateTask(g)
    BY <1>1, <1>2, <1>3, BeginType DEF CreateTask, Row
<1>4. ASSUME NEW b \in BOOLEAN, UpdateTask(g, b)
      PROVE  row' \in Row /\ op' \in [Client -> Op] /\ overlap' \in BOOLEAN
    BY <1>1, <1>2, <1>4, BeginType DEF UpdateTask
<1>5. ASSUME NEW b \in BOOLEAN, CronJobUpdate(g, b)
      PROVE  row' \in Row /\ op' \in [Client -> Op] /\ overlap' \in BOOLEAN
    BY <1>1, <1>2, <1>5, BeginType DEF CronJobUpdate, Enabled, Row
<1>6. CASE SaveRow(g)
    <2> DEFINE o == [pc |-> "remove", on |-> op[g].on \/ ~Exists]
    <2>1. op[g].on \in BOOLEAN
        BY <1>1 DEF Op
    <2>2. o \in Op
        BY <1>2, <2>1 DEF Op
    <2>3. op' = [op EXCEPT ![g] = o]
        BY <1>6 DEF SaveRow
    <2>4. op' \in [Client -> Op]
        BY <1>1, <2>2, <2>3
    <2> QED
        BY <1>1, <1>6, <2>4 DEF SaveRow, Enabled, Row
<1>7. CASE RemoveEntry(g)
    <2>1. \E pc \in OpPc : Goto(g, pc)
        BY <1>2, <1>7 DEF RemoveEntry
    <2> QED
        BY <1>1, <1>7, <2>1, GotoType DEF RemoveEntry
<1>8. CASE AddEntry(g)
    BY <1>1, <1>2, <1>8, GotoType DEF AddEntry
<1>9. CASE DeleteTask(g)
    BY <1>1, <1>2, <1>9, BeginType DEF DeleteTask
<1>10. CASE Unschedule(g)
    BY <1>1, <1>2, <1>10, GotoType DEF Unschedule
<1>11. CASE DropRow(g)
    BY <1>1, <1>2, <1>11, GotoType DEF DropRow, Row
<1>12. CASE CronJobCreate(g)
    BY <1>1, <1>2, <1>12, BeginType DEF CronJobCreate, Row
<1>13. CASE CronJobDelete(g)
    BY <1>1, <1>2, <1>13, BeginType DEF CronJobDelete
<1>14. CASE ReloadEvent(g)
    <2>1. \E pc \in OpPc : Goto(g, pc)
        BY <1>2, <1>14 DEF ReloadEvent
    <2> QED
        BY <1>1, <1>14, <2>1, GotoType DEF ReloadEvent
<1>15. CASE FindTask(g)
    <2>1. \E pc \in OpPc : Goto(g, pc)
        BY <1>2, <1>15 DEF FindTask
    <2> QED
        BY <1>1, <1>15, <2>1, GotoType DEF FindTask
<1>16. CASE SaveFails(g) \/ DropFails(g) \/ FindFails(g)
    BY <1>1, <1>2, <1>16, GotoType DEF SaveFails, DropFails, FindFails
<1> QED
    BY <1>3, <1>4, <1>5, <1>6, <1>7, <1>8, <1>9, <1>10, <1>11, <1>12, <1>13, <1>14, <1>15, <1>16
       DEF Request

LEMMA RequestKeeps ==
    ASSUME IInv, NEW g \in Client, Request(g)
    PROVE  IInv'
<1>1. TypeOK'
    BY RequestKeepsGuard, RequestKeepsScheduler, RequestTypes DEF IInv, TypeOK, SchedulerFits
<1> QED
    BY <1>1, RequestKeepsGuard, RequestKeepsScheduler DEF IInv, Guard, SchedulerFits

-----------------------------------------------------------------------------
(* Executions. *)

(* What a step leaves alone, and the types of what it changes. *)
LEMMA ProgressTypes ==
    ASSUME IInv, NEW e \in Exec, Tick(e) \/ TriggerTask(e) \/ Progress(e)
    PROVE  /\ UNCHANGED <<row, phase, life, found, sched, entry, amiss, op, overlap, straddled>>
           /\ running' \in BOOLEAN
           /\ exec' \in [Exec -> Execution]
<1>1. UNCHANGED <<row, phase, life, found, sched, entry, amiss, op, overlap, straddled>>
    BY DEF Tick, TriggerTask, Wake, Progress, ReadTask, Skip, Enter, Attempt, Succeed, Fail, Leave,
           schedVars
<1>2. running \in BOOLEAN /\ exec \in [Exec -> Execution] /\ life \in Nat
    BY DEF IInv, TypeOK
<1>3. running' \in BOOLEAN
    BY <1>2 DEF Tick, TriggerTask, Wake, Progress, ReadTask, Skip, Enter, Attempt, Succeed, Fail,
                Leave
<1>4. \/ \E pc \in ExecPc : Move(e, pc)
      \/ Attempt(e) \/ Leave(e)
    BY DEF Tick, TriggerTask, Wake, Progress, ReadTask, Skip, Enter, Succeed, Fail, ExecPc, Move
<1>5. CASE Attempt(e)
    <2>1. exec[e].tries + 1 \in Nat
        BY <1>2 DEF Execution
    <2>2. [exec[e] EXCEPT !.pc = "run", !.ctx = life, !.tries = exec[e].tries + 1] \in Execution
        BY <1>2, <2>1 DEF Execution, ExecPc
    <2>3. exec' = [exec EXCEPT ![e] =
                     [exec[e] EXCEPT !.pc = "run", !.ctx = life, !.tries = exec[e].tries + 1]]
        BY <1>5 DEF Attempt
    <2>4. exec' \in [Exec -> Execution]
        BY <1>2, <2>2, <2>3, NewExec
    <2> QED
        BY <1>1, <1>3, <2>4
<1>6. CASE Leave(e)
    <2>1. NoExec \in Execution
        BY DEF NoExec, Execution, ExecPc
    <2>2. exec' = [exec EXCEPT ![e] = NoExec]
        BY <1>6 DEF Leave
    <2>3. exec' \in [Exec -> Execution]
        BY <1>2, <2>1, <2>2, NewExec
    <2> QED
        BY <1>1, <1>3, <2>3
<1> QED
    BY <1>1, <1>2, <1>3, <1>4, <1>5, <1>6, MoveType

(* An execution enters, leaves, or stays where it is with respect to Busy. *)
LEMMA BusyStep ==
    ASSUME IInv, NEW e \in Exec, Tick(e) \/ TriggerTask(e) \/ Progress(e)
    PROVE  \/ Enter(e) /\ Busy' = Busy \cup {e}
           \/ Leave(e) /\ e \in Busy /\ Busy' = Busy \ {e}
           \/ UNCHANGED running /\ Busy' = Busy
<1>1. exec \in [Exec -> Execution]
    BY DEF IInv, TypeOK
<1>2. \A x \in Execution : x.pc \in ExecPc
    BY DEF Execution
<1>3. \A d \in Exec : d # e => exec'[d] = exec[d]
    BY <1>1 DEF Tick, TriggerTask, Wake, Progress, ReadTask, Skip, Enter, Attempt, Succeed, Fail,
                Leave, Move
<1>4. CASE Enter(e)
    <2>1. exec'[e].pc = "attempt"
        BY <1>1, <1>4 DEF Enter, Execution
    <2> QED
        BY <1>3, <1>4, <2>1 DEF Busy
<1>5. CASE Leave(e)
    <2>1. exec[e].pc = "leave" /\ exec'[e].pc = "idle"
        BY <1>1, <1>5 DEF Leave, NoExec
    <2> QED
        BY <1>3, <1>5, <2>1 DEF Busy
<1>6. CASE Tick(e) \/ TriggerTask(e) \/ ReadTask(e) \/ Skip(e)
    <2>1. /\ exec[e].pc \in {"idle", "due", "triggered", "guard"}
          /\ exec'[e].pc \in {"idle", "due", "triggered", "guard"}
          /\ running' = running
        BY <1>1, <1>6 DEF Tick, TriggerTask, Wake, ReadTask, Skip, Move, Execution
    <2> QED
        BY <1>3, <2>1 DEF Busy
<1>7. CASE Attempt(e) \/ Succeed(e) \/ Fail(e)
    <2>1. /\ exec[e].pc \in {"attempt", "delay", "run"}
          /\ exec'[e].pc \in {"run", "delay", "leave"}
          /\ running' = running
        <3>1. CASE Attempt(e)
            BY <1>1, <3>1 DEF Attempt, Execution
        <3>2. CASE Succeed(e) \/ Fail(e)
            BY <1>1, <3>2 DEF Succeed, Fail, Move, Execution
        <3> QED
            BY <1>7, <3>1, <3>2
    <2> QED
        BY <1>3, <2>1 DEF Busy
<1> QED
    BY <1>4, <1>5, <1>6, <1>7 DEF Progress

LEMMA ProgressKeeps ==
    ASSUME IInv, NEW e \in Exec, Tick(e) \/ TriggerTask(e) \/ Progress(e)
    PROVE  IInv'
<1>1. TypeOK' /\ NamesItsEntry'
    BY ProgressTypes DEF IInv, TypeOK, NamesItsEntry
<1>2. straddled' = straddled
    BY ProgressTypes
<1>3. CASE Enter(e) /\ Busy' = Busy \cup {e}
    <2>1. ~running /\ running'
        BY <1>3 DEF Enter
    <2>2. straddled \/ Busy = {}
        BY <2>1 DEF IInv, GuardIsTaken
    <2> QED
        BY <1>1, <1>2, <1>3, <2>1, <2>2 DEF IInv, OneExecution, GuardIsHeld, GuardIsTaken
<1>4. CASE Leave(e) /\ e \in Busy /\ Busy' = Busy \ {e}
    <2>1. ~running'
        BY <1>4 DEF Leave
    <2>2. straddled \/ Busy' = {}
        BY <1>4 DEF IInv, OneExecution
    <2> QED
        BY <1>1, <1>2, <2>1, <2>2 DEF IInv, OneExecution, GuardIsHeld, GuardIsTaken
<1>5. CASE UNCHANGED running /\ Busy' = Busy
    BY <1>1, <1>2, <1>5 DEF IInv, OneExecution, GuardIsHeld, GuardIsTaken
<1> QED
    BY <1>3, <1>4, <1>5, BusyStep

-----------------------------------------------------------------------------
LEMMA StepIInv == IInv /\ [Next]_vars => IInv'
<1> SUFFICES ASSUME IInv, [Next]_vars PROVE IInv'
    OBVIOUS
<1>1. CASE UNCHANGED vars
    BY <1>1 DEF IInv, TypeOK, NamesItsEntry, OneExecution, GuardIsHeld, GuardIsTaken, Busy, vars, schedVars
<1> QED
    BY <1>1, LifecycleKeeps, RequestKeeps, ProgressKeeps DEF Next

(* The account of guards, executions and entries that the properties of a  *)
(* task's schedule rest on.                                                *)
THEOREM Invariance == Spec => []IInv
<1> QED
    BY InitIInv, StepIInv, PTL DEF Spec

(* Every variable keeps its type.                                          *)
THEOREM TypeCorrect == Spec => []TypeOK
<1>1. IInv => TypeOK
    BY DEF IInv
<1> QED
    BY <1>1, Invariance, PTL

(* The guard of executeTask: two executions of the task overlap only after *)
(* a Start has replaced the guard of one under way, retries included.      *)
THEOREM ExecutionsDoNotOverlap == Spec => []OneExecution
<1>1. IInv => OneExecution
    BY DEF IInv
<1> QED
    BY <1>1, Invariance, PTL

(* A guard that is taken is held by an execution under way, also when      *)
(* starts and stops have come between: no task is skipped for ever.        *)
THEOREM GuardIsNeverLost == Spec => []GuardIsHeld
<1>1. IInv => GuardIsHeld
    BY DEF IInv
<1> QED
    BY <1>1, Invariance, PTL

(* The entry the map names is one of the current runner's, whatever        *)
(* requests, events, starts and stops overlap.                             *)
THEOREM MapHasNoDanglingId == Spec => []NamesItsEntry
<1>1. IInv => NamesItsEntry
    BY DEF IInv
<1> QED
    BY <1>1, Invariance, PTL

-----------------------------------------------------------------------------
(* ScheduleFollowsRow speaks of the moments when no request is midway.     *)
(* Between them, as long as no two changes overlap, Start and the requests *)
(* alternate (OneChange); Alternates says where the scheduler stands at    *)
(* each step of either.                                                    *)

AllIdle == \A g \in Client : op[g].pc = "idle"

OneChange ==
    \A g \in Client : op[g].pc # "idle" =>
        ~Starting /\ \A h \in Client \ {g} : op[h].pc = "idle"

StartProgress ==
    /\ phase \in {"guard", "add"} => sched = {}
    /\ phase = "add" => (found => row = "on") /\ (row = "on" => found \/ amiss)

InStep ==
    /\ row # "on" => sched = {}
    /\ row = "on" /\ ~amiss => sched = {entry}

OpProgress ==
    phase = "up" =>
        /\ sched \subseteq {entry}
        /\ AllIdle => InStep
        /\ \A g \in Client :
              /\ op[g].pc = "save" => InStep
              /\ op[g].pc = "remove" => row = Enabled(op[g].on)
              /\ op[g].pc = "add" => sched = {} /\ row = "on"
              /\ op[g].pc \in {"find", "drop"} => sched = {}

Alternates == ~overlap => OneChange /\ StartProgress /\ OpProgress

LEMMA InitAlternates == Init => Alternates
BY DEF Init, Alternates, OneChange, StartProgress, OpProgress, NoOp

LEMMA LifecycleAlternates == IInv /\ Alternates /\ (Start \/ Stop) => Alternates'
<1> SUFFICES ASSUME IInv, Alternates, Start \/ Stop, ~overlap' PROVE Alternates'
    BY DEF Alternates
<1>1. CASE StartReset
    <2>1. AllIdle /\ op' = op /\ sched' = {} /\ phase' = "guard"
        BY <1>1 DEF StartReset, AllIdle
    <2> QED
        BY <2>1 DEF Alternates, OneChange, StartProgress, OpProgress, AllIdle
<1>2. ASSUME StartGuard \/ StartRunner \/ Stop
      PROVE  op' = op /\ OneChange /\ StartProgress /\ OpProgress
    BY <1>2 DEF StartGuard, StartRunner, Stop, Alternates
<1>3. CASE StartGuard
    <2>1. AllIdle
        BY <1>2, <1>3 DEF StartGuard, OneChange, Starting, AllIdle
    <2> QED
        BY <1>2, <1>3, <2>1
           DEF StartGuard, Alternates, OneChange, StartProgress, OpProgress, AllIdle
<1>4. CASE StartRunner
    <2>1. AllIdle
        BY <1>2, <1>4 DEF StartRunner, OneChange, Starting, AllIdle
    <2>2. sched = {} /\ (found => row = "on") /\ (row = "on" => found \/ amiss)
        BY <1>2, <1>4 DEF StartRunner, StartProgress
    <2>3. row' = row /\ phase' = "up" /\ sched' \subseteq {entry'} /\ InStep'
        <3>1. CASE found
            BY <1>4, <2>2, <3>1 DEF StartRunner, addToScheduler, InStep
        <3>2. CASE ~found
            BY <1>4, <2>2, <3>2 DEF StartRunner, schedVars, InStep
        <3> QED
            BY <3>1, <3>2
    <2>4. \A g \in Client : op'[g].pc = "idle"
        BY <1>2, <1>4, <2>1 DEF AllIdle
    <2>5. OneChange' /\ StartProgress'
        BY <2>3, <2>4 DEF OneChange, StartProgress
    <2>6. OpProgress'
        BY <2>3, <2>4 DEF OpProgress
    <2> QED
        BY <2>5, <2>6 DEF Alternates
<1>5. CASE Stop
    BY <1>2, <1>5 DEF Stop, Alternates, OneChange, StartProgress, OpProgress, Starting
<1> QED
    BY <1>1, <1>3, <1>4, <1>5 DEF Start

(* A request begins only while nothing else is in progress.                *)
LEMMA BeginAlternates ==
    ASSUME IInv, Alternates, ~overlap', NEW g \in Client, op[g].pc = "idle",
           NEW pc \in OpPc, NEW b \in BOOLEAN, Begin(g, pc, b)
    PROVE  /\ ~overlap /\ ~Starting /\ AllIdle /\ OneChange /\ StartProgress /\ OpProgress
           /\ op'[g].pc = pc
           /\ \A h \in Client \ {g} : op'[h].pc = "idle"
<1>1. op \in [Client -> Op]
    BY DEF IInv, TypeOK
<1>2. ~overlap /\ ~Starting /\ \A h \in Client \ {g} : op[h].pc = "idle"
    BY DEF Begin
<1> QED
    BY <1>1, <1>2 DEF Begin, Alternates, AllIdle

(* A request that goes on is alone.                                        *)
LEMMA GotoAlternates ==
    ASSUME IInv, Alternates, ~overlap, NEW g \in Client, op[g].pc # "idle",
           NEW pc \in OpPc, Goto(g, pc)
    PROVE  /\ ~Starting /\ OneChange /\ StartProgress /\ OpProgress
           /\ op'[g].pc = pc
           /\ \A h \in Client \ {g} : op'[h].pc = "idle"
<1>1. op \in [Client -> Op]
    BY DEF IInv, TypeOK
<1>2. ~Starting /\ \A h \in Client \ {g} : op[h].pc = "idle"
    BY DEF Alternates, OneChange
<1> QED
    BY <1>1, <1>2 DEF Goto, Alternates, NoOp

LEMMA RequestAlternates ==
    ASSUME IInv, Alternates, NEW g \in Client, Request(g)
    PROVE  Alternates'
<1> SUFFICES ASSUME ~overlap' PROVE OneChange' /\ StartProgress' /\ OpProgress'
    BY DEF Alternates
<1>1. op \in [Client -> Op] /\ op' \in [Client -> Op]
    BY RequestTypes DEF IInv, TypeOK
<1>2. OpPc = {"idle", "save", "remove", "add", "event", "find", "evdelete", "unschedule", "drop"}
    BY DEF OpPc
<1>3. phase' = phase /\ found' = found
    BY RequestKeepsGuard
<1> DEFINE Alone == \A h \in Client \ {g} : op'[h].pc = "idle"
<1>4. ASSUME ~Starting, Alone,
             phase = "up" =>
                /\ sched' \subseteq {entry'}
                /\ op'[g].pc \in {"idle", "save"} => InStep'
                /\ op'[g].pc = "remove" => row' = Enabled(op'[g].on)
                /\ op'[g].pc = "add" => sched' = {} /\ row' = "on"
                /\ op'[g].pc \in {"find", "drop"} => sched' = {}
      PROVE  OneChange' /\ StartProgress' /\ OpProgress'
    <2>1. phase \notin {"guard", "add"}
        BY <1>4 DEF Starting
    <2>2. OneChange'
        BY <1>3, <1>4 DEF OneChange, Starting
    <2>3. StartProgress'
        BY <1>3, <2>1 DEF StartProgress
    <2>4. OpProgress'
        BY <1>3, <1>4 DEF OpProgress, AllIdle
    <2> QED
        BY <2>2, <2>3, <2>4
<1>5. CASE CreateTask(g)
    <2>1. ~Starting /\ AllIdle /\ OpProgress /\ Alone /\ op'[g].pc = "add"
        BY <1>2, <1>5, BeginAlternates DEF CreateTask
    <2>2. phase = "up" => sched = {}
        BY <1>5, <2>1 DEF CreateTask, OpProgress, InStep
    <2>3. row' = "on" /\ sched' = sched /\ entry' = entry
        BY <1>5 DEF CreateTask, schedVars
    <2> QED
        BY <1>4, <2>1, <2>2, <2>3
<1>6. ASSUME NEW pc \in OpPc, NEW b \in BOOLEAN, Begin(g, pc, b), op[g].pc = "idle",
             pc \notin {"idle", "remove", "add", "find", "drop"}, UNCHANGED schedVars,
             pc = "save" => row' = row
      PROVE  OneChange' /\ StartProgress' /\ OpProgress'
    <2>1. ~Starting /\ AllIdle /\ OpProgress /\ Alone /\ op'[g].pc = pc
        BY <1>6, BeginAlternates
    <2>2. phase = "up" /\ pc = "save" => InStep'
        BY <1>6, <2>1 DEF OpProgress, InStep, schedVars
    <2> QED
        BY <1>4, <1>6, <2>1, <2>2 DEF OpProgress, schedVars
<1>7. CASE \E b \in BOOLEAN : UpdateTask(g, b) \/ CronJobUpdate(g, b)
    BY <1>2, <1>6, <1>7 DEF UpdateTask, CronJobUpdate
<1>8. CASE DeleteTask(g) \/ CronJobCreate(g) \/ CronJobDelete(g)
    BY <1>2, <1>6, <1>8 DEF DeleteTask, CronJobCreate, CronJobDelete
<1>9. CASE SaveRow(g)
    <2>1. ~overlap /\ ~Starting /\ OpProgress /\ \A h \in Client \ {g} : op[h].pc = "idle"
        BY <1>9 DEF SaveRow, Alternates, OneChange
    <2>2. /\ op'[g].pc = "remove" /\ Alone /\ sched' = sched /\ entry' = entry
          /\ row' = Enabled(op'[g].on)
        BY <1>1, <1>9, <2>1 DEF SaveRow, schedVars
    <2> QED
        BY <1>4, <2>1, <2>2 DEF OpProgress
<1>10. ASSUME NEW pc \in OpPc, Goto(g, pc), op[g].pc # "idle", overlap' = overlap
       PROVE  ~Starting /\ OpProgress /\ Alone /\ op'[g].pc = pc
    BY <1>10, GotoAlternates
<1>11. CASE RemoveEntry(g)
    <2>1. /\ ~Starting /\ OpProgress /\ Alone
          /\ op'[g].pc = (IF op[g].on THEN "add" ELSE "idle")
        BY <1>2, <1>10, <1>11 DEF RemoveEntry
    <2>2. row' = row /\ (phase = "up" => row = Enabled(op[g].on) /\ sched' = {})
        BY <1>11, <2>1 DEF RemoveEntry, removeFromScheduler, OpProgress
    <2> QED
        BY <1>4, <2>1, <2>2 DEF Enabled, InStep
<1>12. CASE AddEntry(g)
    <2>1. ~Starting /\ OpProgress /\ Alone /\ op'[g].pc = "idle"
        BY <1>2, <1>10, <1>12 DEF AddEntry
    <2>2. phase = "up" => sched' \subseteq {entry'} /\ InStep'
        BY <1>12, <2>1 DEF AddEntry, addToScheduler, OpProgress, InStep
    <2> QED
        BY <1>4, <2>1, <2>2
<1>13. CASE Unschedule(g)
    <2>1. ~Starting /\ OpProgress /\ Alone /\ op'[g].pc = "drop"
        BY <1>2, <1>10, <1>13 DEF Unschedule
    <2>2. phase = "up" => sched' = {}
        BY <1>13, <2>1 DEF Unschedule, removeFromScheduler, OpProgress
    <2> QED
        BY <1>4, <2>1, <2>2
<1>14. CASE DropRow(g)
    <2>1. ~Starting /\ OpProgress /\ Alone /\ op'[g].pc = "idle"
        BY <1>2, <1>10, <1>14 DEF DropRow
    <2>2. row' = "deleted" /\ (phase = "up" => sched' = {})
        BY <1>14, <2>1 DEF DropRow, schedVars, OpProgress
    <2> QED
        BY <1>4, <2>1, <2>2 DEF InStep
<1>15. CASE ReloadEvent(g)
    <2>1. CASE phase = "stopped"
        <3>1. PICK pc \in OpPc : Goto(g, pc)
            BY <1>2, <1>15 DEF ReloadEvent
        <3>2. ~Starting /\ Alone
            BY <1>10, <1>15, <3>1 DEF ReloadEvent
        <3> QED
            BY <1>4, <2>1, <3>2
    <2>2. CASE phase # "stopped"
        <3>1. PICK pc \in {"find", "drop"} : Goto(g, pc)
            BY <1>15, <2>2 DEF ReloadEvent
        <3>2. ~Starting /\ OpProgress /\ Alone /\ op'[g].pc \in {"find", "drop"}
            BY <1>2, <1>10, <1>15, <3>1 DEF ReloadEvent
        <3>3. phase = "up" => sched' = {}
            BY <1>15, <2>2, <3>2 DEF ReloadEvent, removeFromScheduler, OpProgress
        <3> QED
            BY <1>4, <3>2, <3>3
    <2> QED
        BY <2>1, <2>2
<1>16. CASE FindTask(g)
    <2>1. /\ ~Starting /\ OpProgress /\ Alone
          /\ op'[g].pc = (IF row = "on" THEN "add" ELSE "idle")
        BY <1>2, <1>10, <1>16 DEF FindTask
    <2>2. row' = row /\ (phase = "up" => sched' = {})
        BY <1>16, <2>1 DEF FindTask, schedVars, OpProgress
    <2> QED
        BY <1>4, <2>1, <2>2 DEF InStep
<1>17. CASE DropFails(g) \/ FindFails(g)
    <2>1. ~Starting /\ OpProgress /\ Alone /\ op'[g].pc = "idle"
        BY <1>2, <1>10, <1>17 DEF DropFails, FindFails
    <2>2. row' = row /\ amiss' = (amiss \/ row = "on") /\ (phase = "up" => sched' = {})
        BY <1>17, <2>1 DEF DropFails, FindFails, OpProgress
    <2> QED
        BY <1>4, <2>1, <2>2 DEF InStep
<1>18. CASE SaveFails(g)
    <2>1. ~Starting /\ OpProgress /\ Alone /\ op'[g].pc = "idle"
        BY <1>2, <1>10, <1>18 DEF SaveFails
    <2>2. phase = "up" => sched' \subseteq {entry'} /\ InStep'
        BY <1>18, <2>1 DEF SaveFails, schedVars, OpProgress, InStep
    <2> QED
        BY <1>4, <2>1, <2>2
<1> QED
    BY <1>5, <1>7, <1>8, <1>9, <1>11, <1>12, <1>13, <1>14, <1>15, <1>16, <1>17, <1>18 DEF Request

LEMMA StepAlternates == IInv /\ Alternates /\ [Next]_vars => Alternates'
<1> SUFFICES ASSUME IInv, Alternates, [Next]_vars PROVE Alternates'
    OBVIOUS
<1>1. ASSUME UNCHANGED <<row, phase, found, sched, entry, amiss, op, overlap>>
      PROVE  Alternates'
    BY <1>1 DEF Alternates, OneChange, StartProgress, OpProgress, AllIdle, InStep, Starting
<1>2. ASSUME NEW e \in Exec, Tick(e) \/ TriggerTask(e) \/ Progress(e)
      PROVE  Alternates'
    BY <1>1, <1>2, ProgressTypes
<1>3. CASE UNCHANGED vars
    BY <1>1, <1>3 DEF vars, schedVars
<1> QED
    BY <1>2, <1>3, LifecycleAlternates, RequestAlternates DEF Next

(* Changes that did not overlap leave the scheduler as the row says: no    *)
(* entry but the one the map names, none for a task that is not enabled,   *)
(* and one for an enabled task that no failure kept out.                   *)
THEOREM ScheduleIsTheRows == Spec => []ScheduleFollowsRow
<1>1. Init => IInv /\ Alternates
    BY InitIInv, InitAlternates
<1>2. (IInv /\ Alternates) /\ [Next]_vars => (IInv /\ Alternates)'
    BY StepIInv, StepAlternates
<1>3. Alternates => ScheduleFollowsRow
    BY DEF Alternates, OpProgress, AllIdle, InStep, ScheduleFollowsRow
<1> QED
    BY <1>1, <1>2, <1>3, PTL DEF Spec
=============================================================================

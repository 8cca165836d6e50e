---------------------------- MODULE RolloutsProofs ----------------------------
(***************************************************************************)
(* What the properties of Deploys and of Updater rest on, for any number   *)
(* of builds, requests, versions and helpers.                              *)
(*                                                                         *)
(* Numbers says what a run may take its build number for: it is above      *)
(* every build that can be rolled back to.  Layout says, of a run or a     *)
(* request that nothing has disturbed, which process listens where at each *)
(* of its steps, and what the project's row and host say of it.            *)
(***************************************************************************)
EXTENDS MCRollouts, SequenceTheorems, TLAPS

Zero == {"stage", "probe", "switch", "promote", "finish"}
Building == Zero \cup {"build", "deploy", "first", "check"}
Stage == Building \cup {"idle", "read", "proxy", "record"}
Asked == {"idle", "started", "stopped", "mark", "restore", "verify", "unprocess", "unhost",
          "unrow"}
Verdict == {"building", "success", "failed", "rolled_back", "gone"}

Row == [there : BOOLEAN, port : Port, host : BOOLEAN, current : Nat,
        status : {"pending", "building", "running", "stopped", "error"}]
Run == [at : Stage, num : Nat, dep : Nat, port : Port, host : BOOLEAN, lit : BOOLEAN]
Op == [at : Asked, num : Nat, port : Port, host : BOOLEAN]
Deployment == [num : Nat, status : Verdict]
Deployments == Seq(Deployment)
Files == [Name -> Port \cup {None}]
Processes == [Name -> Port \cup {None, Deaf}]

Bounded ==
    /\ begun <= MaxBuilds
    /\ row.current <= begun /\ run.num <= begun /\ op.num <= begun
    /\ \A i \in DOMAIN deps : deps[i].num > 0 /\ deps[i].num <= begun
    /\ run.at = "read" => run.num > 0
    /\ run.at = "build" => run.dep \in DOMAIN deps

Typed ==
    /\ mode \in {"docker", "bare"} /\ row \in Row /\ deps \in Deployments
    /\ file \in Files /\ live \in Processes /\ site \in Port \cup {None}
    /\ run \in Run /\ op \in Op /\ begun \in Nat /\ asked \in Nat
    /\ Bounded

-----------------------------------------------------------------------------
(* Unless a rollback overlapped a build: *)

Succeeded(i) == i \in DOMAIN deps /\ deps[i].status = "success"

RunIsNotRolledBack == run.at = "idle" \/ op.num = 0
RollbackHasNumber == op.num # 0 <=> op.at \in {"mark", "restore", "verify"}
NumberIsNew == run.at = "read" => \A i \in DOMAIN deps : Succeeded(i) => deps[i].num < run.num
NumberIsNext == run.at = "read" /\ row.there => run.num = row.current + 1
NumberIsTaken ==
    run.at = "build" =>
        /\ deps[run.dep].num = run.num
        /\ \A i \in DOMAIN deps : Succeeded(i) => deps[i].num < run.num \/ i = run.dep
        /\ row.there => row.current = run.num
CurrentIsLast ==
    row.there => \A i \in DOMAIN deps : Succeeded(i) => deps[i].num <= row.current
Distinct == \A i, j \in DOMAIN deps : Succeeded(i) /\ deps[j] = deps[i] => i = j

Numbers ==
    "raced" \notin mishaps =>
        /\ RunIsNotRolledBack /\ NumberIsNew /\ NumberIsNext /\ NumberIsTaken
        /\ CurrentIsLast /\ Distinct

-----------------------------------------------------------------------------
(* So long as nothing overlapped, failed unnoticed or crashed: *)

Alive == \E n \in Name : live[n] = row.port
Serving == Alive \/ live["main"] = Deaf

OneAtATime ==
    /\ run.at = "idle" \/ op.at = "idle"
    /\ run.at # "idle" => row.there /\ run.port = row.port /\ run.host = row.host
    /\ op.at # "idle" => row.there /\ op.port = row.port /\ op.host = row.host

Routed ==
    /\ row.there /\ row.host /\ op.at # "unrow" =>
          site = IF run.at \in {"promote", "finish"} THEN Other(row.port) ELSE row.port
    /\ row.there /\ ~row.host => site = None \/ (site = row.port /\ "stray" \in mishaps)
    /\ op.at = "unrow" \/ ~row.there => site = None \/ mishaps \cap {"stray", "leftHost"} # {}
    /\ run.at \in Zero => row.host
    /\ run.at = "record" => site = row.port

(* What a renamed unit leaves under the staging name. *)
Leftover == mode = "bare" /\ "promoted" \in mishaps /\ live["main"] \in {None, Deaf}

Staged ==
    /\ run.at \in Zero \ {"finish"} => live["main"] \in {row.port, Deaf}
    /\ run.at \in {"stage", "probe", "switch"} /\ run.lit => Alive
    /\ run.at \in {"probe", "switch", "promote"} => file["staging"] = Other(row.port)
    /\ run.at = "probe" =>
          \/ live["staging"] \in {Other(row.port), Deaf}
          \/ live["staging"] = row.port /\ Leftover
    /\ run.at \in {"switch", "promote"} => live["staging"] = Other(row.port)
    /\ run.at = "finish" =>
          /\ file["main"] = Other(row.port) /\ file["staging"] = None
          /\ \E n \in Name : live[n] = Other(row.port)
          /\ \A n \in Name : live[n] \in {None, Other(row.port)}

Settled ==
    /\ run.at # "finish" =>
          file["main"] \in {None, row.port} /\ live["main"] \in {None, row.port, Deaf}
    /\ run.at \notin {"probe", "switch", "promote", "finish"} =>
          /\ file["staging"] = None
          /\ live["staging"] = None \/ (live["staging"] = row.port /\ Leftover)
    /\ run.at = "finish" => live["staging"] = None \/ Leftover

Running ==
    /\ run.at \in Building => row.status = "building"
    /\ op.at \in {"started", "verify"} => Serving
    /\ row.status = "running" /\ op.at \notin {"stopped", "unhost", "unrow"} /\ row.there => Serving

Removed ==
    /\ op.at \in {"unhost", "unrow"} \/ ~row.there =>
          "leftProcess" \in mishaps \/ (live["main"] = None /\ file["main"] = None)
    /\ ~row.there => "leftRows" \in mishaps \/ \A i \in DOMAIN deps : deps[i].status = "gone"

Layout == Undisturbed => OneAtATime /\ Routed /\ Staged /\ Settled /\ Running /\ Removed

IInv == Typed /\ RollbackHasNumber /\ Numbers /\ Layout

-----------------------------------------------------------------------------
(* What the helpers of the actions write, field by field. *)

SameRun == run'.num = run.num /\ run'.dep = run.dep /\ run'.port = run.port /\ run'.host = run.host
SameRow == /\ row'.there = row.there /\ row'.port = row.port
           /\ row'.host = row.host /\ row'.current = row.current

LEMMA GotoFacts ==
    ASSUME run \in Run, NEW stage \in Stage, Goto(stage)
    PROVE  run' \in Run /\ run'.at = stage /\ SameRun /\ run'.lit = run.lit
BY DEF Goto, Run, SameRun

LEMMA EndRunFacts ==
    ASSUME EndRun
    PROVE  run' \in Run /\ run'.at = "idle" /\ run'.num = 0
BY DEF EndRun, Idle, Run, Stage, Port

LEMMA OpGotoFacts ==
    ASSUME op \in Op, NEW stage \in Asked, OpGoto(stage)
    PROVE  op' \in Op /\ op'.at = stage /\ op'.num = op.num /\ op'.port = op.port
           /\ op'.host = op.host
BY DEF OpGoto, Op

LEMMA EndOpFacts ==
    ASSUME EndOp
    PROVE  op' \in Op /\ op'.at = "idle" /\ op'.num = 0
BY DEF EndOp, NoOp, Op, Asked, Port

LEMMA StatusFacts ==
    ASSUME row \in Row, NEW status \in {"pending", "building", "running", "stopped", "error"},
           Status(status)
    PROVE  /\ row' \in Row /\ SameRow
           /\ row'.status = IF row.there THEN status ELSE row.status
<1>1. CASE row.there
    BY <1>1 DEF Status, Put, Row, SameRow
<1>2. CASE ~row.there
    BY <1>2 DEF Status, Put, SameRow
<1> QED
    BY <1>1, <1>2

LEMMA ProcFacts ==
    ASSUME file \in Files, live \in Processes, NEW n \in Name,
           NEW f \in Port \cup {None}, NEW l \in Port \cup {None, Deaf}, Proc(n, f, l)
    PROVE  /\ file' \in Files /\ live' \in Processes
           /\ file'[n] = f /\ live'[n] = l
           /\ \A m \in Name \ {n} : file'[m] = file[m] /\ live'[m] = live[m]
BY DEF Proc, Files, Processes

LEMMA LaunchedFacts ==
    ASSUME NEW n \in Name, NEW port \in Port, NEW l \in Launched(n, port)
    PROVE  /\ l \in Port \cup {None, Deaf} /\ l \in {None, port, Deaf}
           /\ l = None => Bound(n, port)
           /\ l = None /\ mode = "bare" => \E m \in Name \ {n} : live[m] = port
           /\ l = port => \A m \in Name \ {n} : live[m] # port
BY DeploysAssumption DEF Launched, Bound, Port

LEMMA AskFacts ==
    ASSUME row \in Row, asked \in Nat, NEW stage \in Asked, NEW num \in Nat, Ask(stage, num)
    PROVE  /\ op.at = "idle" /\ row.there /\ asked' \in Nat
           /\ op' \in Op /\ op'.at = stage /\ op'.num = num
           /\ op'.port = row.port /\ op'.host = row.host
           /\ mishaps \subseteq mishaps'
           /\ run.at # "idle" => "overlap" \in mishaps' /\ (num # 0 => "raced" \in mishaps')
           /\ run.at = "idle" => mishaps' = mishaps
BY DEF Ask, Mishap, Op, Row

LEMMA Ports ==
    /\ \A port \in Port : port # None /\ port # Deaf /\ Other(port) \in Port
                          /\ Other(port) # port /\ Other(Other(port)) = port
    /\ None \notin Port /\ Deaf \notin Port /\ Deaf # None
BY DeploysAssumption DEF Port, Other

(* A step that leaves the builds and the number of the current one alone.  *)
LEMMA NumbersKept ==
    ASSUME Numbers, deps' = deps, row'.there = row.there, row'.current = row.current,
           "raced" \in mishaps => "raced" \in mishaps', run' = run \/ run'.at \notin {"read", "build"},
           run.at = "idle" => run'.at = "idle", op'.num \in {op.num, 0}
    PROVE  Numbers'
BY DEF Numbers, RunIsNotRolledBack, NumberIsNew, NumberIsNext, NumberIsTaken, CurrentIsLast,
       Distinct, Succeeded

LEMMA ChooseKeeps ==
    ASSUME IInv, RunChoose
    PROVE  IInv'
<1>1. /\ run.at = "deploy" /\ run' \in Run /\ run'.at \in {"first", "stage"} /\ SameRun
      /\ run'.at = "stage" => live["main"] # None /\ run.host
      /\ run'.lit => \E n \in Name : live[n] = site
      /\ UNCHANGED <<mode, row, deps, file, live, site, op, begun, asked, mishaps>>
    BY DEF IInv, Typed, RunChoose, Run, SameRun, Served, procs, bounds, Stage, Building, Zero,
           Asked, Name
<1>2. Typed' /\ RollbackHasNumber'
    BY <1>1 DEF IInv, Typed, Bounded, RollbackHasNumber, SameRun, SameRow
<1>3. Numbers'
    BY <1>1, NumbersKept DEF IInv, SameRow
<1>4. Layout'
    BY <1>1, Ports
       DEF IInv, Typed, Layout, Undisturbed, OneAtATime, Routed, Staged, Settled, Leftover, Running,
           Alive, Serving, Removed, SameRun, SameRow, Stage, Building, Zero, Asked, Name
<1> QED
    BY <1>2, <1>3, <1>4 DEF IInv

LEMMA DeployFailsKeeps ==
    ASSUME IInv, RunDeployFails
    PROVE  IInv'
<1>1. /\ run.at \in {"deploy", "first"} /\ run' \in Run /\ run'.at = "idle" /\ run'.num = 0
      /\ row' \in Row /\ SameRow /\ (row.there => row'.status = "error")
      /\ file' \in Files /\ live' \in Processes
      /\ \/ file' = file /\ live' = live
         \/ /\ file'["main"] \in {None, run.port} /\ live'["main"] \in {None, live["main"]}
            /\ file'["staging"] = file["staging"] /\ live'["staging"] = live["staging"]
      /\ UNCHANGED <<mode, deps, site, op, begun, asked, mishaps>>
    <2>1. /\ run.at \in {"deploy", "first"} /\ run' \in Run /\ run'.at = "idle" /\ run'.num = 0
          /\ row' \in Row /\ SameRow /\ (row.there => row'.status = "error")
          /\ UNCHANGED <<mode, deps, site, op, begun, asked, mishaps>>
        BY StatusFacts, EndRunFacts DEF IInv, Typed, RunDeployFails, bounds
    <2>2. \/ file' = file /\ live' = live
          \/ Proc("main", None, None)
          \/ \E l \in {None, live["main"]} : Proc("main", run.port, l)
        BY DEF RunDeployFails, procs
    <2>3. live["main"] \in Port \cup {None, Deaf} /\ run.port \in Port /\ "main" \in Name
          /\ file \in Files /\ live \in Processes /\ "staging" \in Name \ {"main"}
        BY DEF IInv, Typed, Processes, Run, Name
    <2> QED
        BY <2>1, <2>2, <2>3, ProcFacts
<1>2. Typed' /\ RollbackHasNumber'
    BY <1>1 DEF IInv, Typed, Bounded, RollbackHasNumber, SameRun, SameRow
<1>3. Numbers'
    BY <1>1, NumbersKept DEF IInv, SameRow
<1>4. Layout'
    BY <1>1, Ports
       DEF IInv, Typed, Layout, Undisturbed, OneAtATime, Routed, Staged, Settled, Leftover,
           Running, Alive, Serving, Removed, SameRun, SameRow, Stage, Building, Zero, Asked,
           Name
<1> QED
    BY <1>2, <1>3, <1>4 DEF IInv

LEMMA FirstKeeps ==
    ASSUME IInv, RunFirst
    PROVE  IInv'
<1>1. /\ run.at = "first" /\ run' \in Run /\ row' \in Row /\ SameRow
      /\ file' \in Files /\ live' \in Processes /\ file'["main"] = run.port
      /\ live'["main"] \in {None, run.port, Deaf}
      /\ live'["main"] = run.port => live["staging"] # run.port
      /\ file'["staging"] = file["staging"] /\ live'["staging"] = live["staging"]
      /\ \/ run'.at = "check" /\ SameRun /\ row' = row
         \/ /\ run'.at = "idle" /\ run'.num = 0 /\ (row.there => row'.status = "error")
            /\ live'["main"] = None
      /\ UNCHANGED <<mode, deps, site, op, begun, asked, mishaps>>
    <2>1. /\ run \in Run /\ run.port \in Port /\ row \in Row /\ file \in Files /\ live \in Processes
          /\ "main" \in Name /\ "staging" \in Name \ {"main"} /\ "check" \in Stage
        BY DEF IInv, Typed, Run, Name, Stage, Building
    <2>2. run.at = "first" /\ UNCHANGED <<mode, deps, site, op, begun, asked, mishaps>>
        BY DEF RunFirst, bounds
    <2>3. CASE Proc("main", run.port, None) /\ Status("error") /\ EndRun
        BY <2>1, <2>2, <2>3, Ports, ProcFacts, StatusFacts, EndRunFacts
    <2>4. CASE (\E l \in Launched("main", run.port) : Proc("main", run.port, l)) /\ Goto("check")
               /\ UNCHANGED row
        <3>1. PICK l \in Launched("main", run.port) : Proc("main", run.port, l)
            BY <2>4
        <3>2. /\ l \in Port \cup {None, Deaf} /\ l \in {None, run.port, Deaf}
              /\ l = run.port => live["staging"] # run.port
            BY <2>1, LaunchedFacts
        <3>3. /\ file' \in Files /\ live' \in Processes
              /\ file'["main"] = run.port /\ live'["main"] = l
              /\ file'["staging"] = file["staging"] /\ live'["staging"] = live["staging"]
            BY <2>1, <3>1, <3>2, ProcFacts
        <3>4. run' \in Run /\ run'.at = "check" /\ SameRun /\ row' = row
            BY <2>1, <2>4, GotoFacts
        <3> QED
            BY <2>1, <2>2, <3>2, <3>3, <3>4 DEF SameRow
    <2> QED
        BY <2>3, <2>4 DEF RunFirst
<1>2. Typed' /\ RollbackHasNumber'
    BY <1>1 DEF IInv, Typed, Bounded, RollbackHasNumber, SameRun, SameRow
<1>3. Numbers'
    BY <1>1, NumbersKept DEF IInv, SameRow
<1>4. Layout'
    BY <1>1, Ports
       DEF IInv, Typed, Layout, Undisturbed, OneAtATime, Routed, Staged, Settled, Leftover,
           Running, Alive, Serving, Removed, SameRun, SameRow, Stage, Building, Zero, Asked,
           Name
<1> QED
    BY <1>2, <1>3, <1>4 DEF IInv

LEMMA ExitedKeeps ==
    ASSUME IInv, RunExited
    PROVE  IInv'
<1>1. /\ run.at = "check" /\ run' \in Run /\ run'.at = "idle" /\ run'.num = 0
      /\ row' \in Row /\ SameRow /\ (row.there => row'.status = "error")
      /\ file' \in Files /\ live' \in Processes
      /\ file'["main"] = file["main"] /\ live'["main"] = None
      /\ file'["staging"] = file["staging"] /\ live'["staging"] = live["staging"]
      /\ UNCHANGED <<mode, deps, site, op, begun, asked, mishaps>>
    BY StatusFacts, EndRunFacts, ProcFacts DEF IInv, Typed, RunExited, Files, Processes, Name, bounds
<1>2. Typed' /\ RollbackHasNumber'
    BY <1>1 DEF IInv, Typed, Bounded, RollbackHasNumber, SameRun, SameRow
<1>3. Numbers'
    BY <1>1, NumbersKept DEF IInv, SameRow
<1>4. Layout'
    BY <1>1, Ports
       DEF IInv, Typed, Layout, Undisturbed, OneAtATime, Routed, Staged, Settled, Leftover, Running,
           Alive, Serving, Removed, SameRun, SameRow, Stage, Building, Zero, Asked, Name
<1> QED
    BY <1>2, <1>3, <1>4 DEF IInv

LEMMA StartedKeeps ==
    ASSUME IInv, RunStarted
    PROVE  IInv'
<1>1. /\ run.at = "check" /\ live["main"] # None /\ run' \in Run /\ row' \in Row /\ SameRow
      /\ row.there => row'.status = "running"
      /\ \/ run'.at = "idle" /\ run'.num = 0
         \/ run'.at = "proxy" /\ SameRun /\ ~run.host
      /\ UNCHANGED <<mode, deps, file, live, site, op, begun, asked, mishaps>>
    BY StatusFacts, EndRunFacts, GotoFacts DEF IInv, Typed, RunStarted, procs, bounds, Stage
<1>2. Typed' /\ RollbackHasNumber'
    BY <1>1 DEF IInv, Typed, Bounded, RollbackHasNumber, SameRun, SameRow
<1>3. Numbers'
    BY <1>1, NumbersKept DEF IInv, SameRow
<1>4. Layout'
    BY <1>1, Ports
       DEF IInv, Typed, Layout, Undisturbed, OneAtATime, Routed, Staged, Settled, Leftover, Running,
           Alive, Serving, Removed, SameRun, SameRow, Stage, Building, Zero, Asked, Name
<1> QED
    BY <1>2, <1>3, <1>4 DEF IInv

LEMMA ProxyKeeps ==
    ASSUME IInv, RunProxy
    PROVE  IInv'
<1>1. /\ run.at = "proxy" /\ run' \in Run
      /\ \/ run'.at = "idle" /\ run'.num = 0
         \/ run'.at = "record" /\ SameRun
      /\ \/ site' = run.port /\ mishaps' = mishaps \cup {"stray"}
         \/ site' = site /\ mishaps' = mishaps /\ run'.at = "idle"
      /\ site' \in Port \cup {None}
      /\ UNCHANGED <<mode, row, deps, file, live, op, begun, asked>>
    BY EndRunFacts, GotoFacts DEF IInv, Typed, RunProxy, Run, Mishap, procs, bounds, Stage
<1>2. Typed' /\ RollbackHasNumber'
    BY <1>1 DEF IInv, Typed, Bounded, RollbackHasNumber, SameRun, SameRow
<1>3. Numbers'
    BY <1>1, NumbersKept DEF IInv, SameRow
<1>4. Layout'
    BY <1>1, Ports
       DEF IInv, Typed, Layout, Undisturbed, OneAtATime, Routed, Staged, Settled, Leftover,
           Running, Alive, Serving, Removed, SameRun, SameRow, Stage, Building, Zero, Asked,
           Name
<1> QED
    BY <1>2, <1>3, <1>4 DEF IInv

LEMMA RecordHostKeeps ==
    ASSUME IInv, RunRecordHost
    PROVE  IInv'
<1>1. /\ run.at = "record" /\ run' \in Run /\ run'.at = "idle" /\ run'.num = 0
      /\ row' \in Row /\ row'.there = row.there /\ row'.port = row.port
      /\ row'.current = row.current /\ row'.status = row.status
      /\ \/ mishaps' = (IF row.there THEN mishaps \ {"stray"} ELSE mishaps)
            /\ (row.there => row'.host)
         \/ mishaps' = mishaps /\ row' = row
      /\ UNCHANGED <<mode, deps, file, live, site, op, begun, asked>>
    BY EndRunFacts DEF IInv, Typed, RunRecordHost, Put, Row, procs, bounds
<1>2. Typed' /\ RollbackHasNumber'
    BY <1>1 DEF IInv, Typed, Bounded, RollbackHasNumber
<1>3. Numbers'
    BY <1>1, NumbersKept DEF IInv
<1>4. Layout'
    <2> SUFFICES ASSUME Undisturbed' PROVE Layout'
        BY DEF Layout
    <2>1. Undisturbed /\ OneAtATime /\ Routed /\ Staged /\ Settled /\ Running /\ Removed
        BY <1>1 DEF IInv, Layout, Undisturbed
    <2>2. row.there /\ op.at = "idle" /\ site = row.port
        BY <1>1, <2>1 DEF OneAtATime, Routed
    <2> QED
        BY <1>1, <2>1, <2>2
           DEF Layout, OneAtATime, Routed, Staged, Settled, Leftover, Running, Alive, Serving,
               Removed, Building, Zero
<1> QED
    BY <1>2, <1>3, <1>4 DEF IInv

LEMMA StageUpKeeps ==
    ASSUME IInv, RunStage
    PROVE  IInv'
<1>1. /\ run.at = "stage" /\ run' \in Run /\ row' \in Row /\ SameRow
      /\ file' \in Files /\ live' \in Processes
      /\ file'["main"] = file["main"] /\ live'["main"] = live["main"]
      /\ file'["staging"] = Other(run.port)
      /\ \/ /\ run'.at = "probe" /\ SameRun /\ run'.lit = run.lit /\ row' = row
            /\ \/ mode = "bare" /\ live["staging"] # None /\ live'["staging"] = live["staging"]
               \/ /\ live'["staging"] \in {None, Other(run.port), Deaf}
                  /\ live'["staging"] = None => Bound("staging", Other(run.port))
                  /\ mode = "docker" \/ live["staging"] = None
         \/ /\ run'.at = "idle" /\ run'.num = 0 /\ live'["staging"] = None
            /\ (row.there => row'.status = "error")
      /\ UNCHANGED <<mode, deps, site, op, begun, asked, mishaps>>
    <2>1. /\ run \in Run /\ Other(run.port) \in Port /\ row \in Row /\ file \in Files
          /\ live \in Processes /\ mode \in {"docker", "bare"}
          /\ "staging" \in Name /\ "main" \in Name \ {"staging"} /\ "probe" \in Stage
        BY Ports DEF IInv, Typed, Run, Name, Stage, Building, Zero
    <2>2. run.at = "stage" /\ UNCHANGED <<mode, deps, site, op, begun, asked, mishaps>>
        BY DEF RunStage, bounds
    <2>3. CASE Proc("staging", Other(run.port), None) /\ Status("error") /\ EndRun
        BY <2>1, <2>2, <2>3, ProcFacts, StatusFacts, EndRunFacts
    <2>4. CASE /\ \E l \in IF mode = "bare" /\ live["staging"] # None THEN {live["staging"]}
                           ELSE Launched("staging", Other(run.port)) :
                     Proc("staging", Other(run.port), l)
               /\ Goto("probe") /\ UNCHANGED row
        <3>1. PICK l \in IF mode = "bare" /\ live["staging"] # None THEN {live["staging"]}
                         ELSE Launched("staging", Other(run.port)) :
                     Proc("staging", Other(run.port), l)
            BY <2>4
        <3>2. /\ l \in Port \cup {None, Deaf}
              /\ \/ mode = "bare" /\ live["staging"] # None /\ l = live["staging"]
                 \/ /\ l \in {None, Other(run.port), Deaf}
                    /\ l = None => Bound("staging", Other(run.port))
                    /\ mode = "docker" \/ live["staging"] = None
            BY <2>1, <3>1, LaunchedFacts DEF Processes
        <3>3. /\ file' \in Files /\ live' \in Processes
              /\ file'["staging"] = Other(run.port) /\ live'["staging"] = l
              /\ file'["main"] = file["main"] /\ live'["main"] = live["main"]
            BY <2>1, <3>1, <3>2, ProcFacts
        <3>4. run' \in Run /\ run'.at = "probe" /\ SameRun /\ run'.lit = run.lit /\ row' = row
            BY <2>1, <2>4, GotoFacts
        <3> QED
            BY <2>1, <2>2, <3>2, <3>3, <3>4 DEF SameRow
    <2> QED
        BY <2>3, <2>4 DEF RunStage
<1>2. Typed' /\ RollbackHasNumber'
    BY <1>1 DEF IInv, Typed, Bounded, RollbackHasNumber, SameRun, SameRow
<1>3. Numbers'
    BY <1>1, NumbersKept DEF IInv, SameRow
<1>4. Layout'
    <2> SUFFICES ASSUME Undisturbed' PROVE Layout'
        BY DEF Layout
    <2>1. Undisturbed /\ OneAtATime /\ Routed /\ Staged /\ Settled /\ Running /\ Removed
        BY <1>1 DEF IInv, Layout, Undisturbed
    <2>2. /\ live["main"] \in {row.port, Deaf} /\ run.port \in Port /\ run.port = row.port
          /\ op.at = "idle" /\ file["main"] \in {None, row.port} /\ row.there
          /\ live["staging"] = None \/ (live["staging"] = row.port /\ Leftover)
        BY <1>1, <2>1 DEF IInv, Typed, Run, OneAtATime, Staged, Settled, Zero
    <2>3. ~Bound("staging", Other(run.port))
        BY <2>2, Ports DEF Bound, Name
    <2>4. CASE run'.at = "probe"
        <3>1. live'["staging"] \in {Other(row.port), Deaf} \/ (live'["staging"] = row.port /\ Leftover)
            BY <1>1, <2>2, <2>3, <2>4
        <3>2. run'.lit => \E n \in Name : live'[n] = row.port
            <4>1. run.lit => live["main"] = row.port \/ live["staging"] = row.port
                BY <1>1, <2>1 DEF Staged, Alive, Name
            <4>2. live["staging"] = row.port => live'["staging"] = row.port
                BY <1>1, <2>2, <2>4, Ports DEF Leftover
            <4> QED
                BY <1>1, <2>4, <4>1, <4>2 DEF Name
        <3>3. SameRun /\ row' = row /\ run'.lit = run.lit
            BY <1>1, <2>4
        <3> QED
            BY <1>1, <2>1, <2>2, <2>4, <3>1, <3>2, <3>3, Ports
               DEF Layout, OneAtATime, Routed, Staged, Settled, Leftover, Running, Alive,
                   Serving, Removed, SameRun, Building, Zero
    <2>5. CASE run'.at = "idle"
        BY <1>1, <2>1, <2>2, <2>3, <2>5, Ports
           DEF RunStage, Layout, OneAtATime, Routed, Staged, Settled, Leftover, Running, Alive,
               Serving, Removed, SameRow, Building, Zero
    <2> QED
        BY <1>1, <2>4, <2>5
<1> QED
    BY <1>2, <1>3, <1>4 DEF IInv

LEMMA StageFailsKeeps ==
    ASSUME IInv, RunStageFails
    PROVE  IInv'
<1>1. /\ run.at \in {"stage", "probe"} /\ run' \in Run /\ run'.at = "idle" /\ run'.num = 0
      /\ row' \in Row /\ SameRow /\ (row.there => row'.status = "error")
      /\ file' \in Files /\ live' \in Processes
      /\ file'["main"] = file["main"] /\ live'["main"] = live["main"]
      /\ \/ file'["staging"] = None /\ live'["staging"] = None /\ mishaps' = mishaps
         \/ mishaps' = mishaps \cup {"slip"}
      /\ UNCHANGED <<mode, deps, site, op, begun, asked>>
    BY StatusFacts, EndRunFacts, ProcFacts, Ports
       DEF IInv, Typed, RunStageFails, Mishap, Files, Processes, Run, Name, bounds
<1>2. Typed' /\ RollbackHasNumber'
    BY <1>1 DEF IInv, Typed, Bounded, RollbackHasNumber, SameRun, SameRow
<1>3. Numbers'
    BY <1>1, NumbersKept DEF IInv, SameRow
<1>4. Layout'
    <2>1. CASE "slip" \in mishaps'
        BY <2>1 DEF Layout, Undisturbed
    <2>2. CASE "slip" \notin mishaps'
        <3>1. file'["staging"] = None /\ live'["staging"] = None /\ mishaps' = mishaps
            BY <1>1, <2>2
        <3> QED
            BY <1>1, <3>1, Ports
               DEF IInv, Typed, Layout, Undisturbed, OneAtATime, Routed, Staged, Settled,
                   Leftover, Running, Alive, Serving, Removed, SameRun, SameRow, Stage, Building, Zero,
                   Asked, Name
    <2> QED
        BY <2>1, <2>2
<1> QED
    BY <1>2, <1>3, <1>4 DEF IInv

LEMMA ProbeKeeps ==
    ASSUME IInv, RunProbe
    PROVE  IInv'
<1>1. /\ run.at = "probe" /\ run' \in Run /\ run'.at = "switch" /\ SameRun
      /\ run'.lit = run.lit /\ \E n \in Name : live[n] = Other(run.port)
      /\ UNCHANGED <<mode, row, deps, file, live, site, op, begun, asked, mishaps>>
    BY GotoFacts DEF IInv, Typed, RunProbe, Free, procs, bounds, Stage, Building, Zero
<1>2. Typed' /\ RollbackHasNumber'
    BY <1>1 DEF IInv, Typed, Bounded, RollbackHasNumber, SameRun, SameRow
<1>3. Numbers'
    BY <1>1, NumbersKept DEF IInv, SameRow
<1>4. Layout'
    <2> SUFFICES ASSUME Undisturbed' PROVE Layout'
        BY DEF Layout
    <2>1. Undisturbed /\ OneAtATime /\ Routed /\ Staged /\ Settled /\ Running /\ Removed
        BY <1>1 DEF IInv, Layout, Undisturbed
    <2>2. /\ live["main"] \in {row.port, Deaf} /\ run.port = row.port /\ row.port \in Port
        BY <1>1, <2>1 DEF IInv, Typed, Row, OneAtATime, Staged, Zero
    <2>3. live["staging"] = Other(row.port)
        BY <1>1, <2>1, <2>2, Ports DEF Staged, Name
    <2>4. Staged'
        BY <1>1, <2>1, <2>3 DEF Staged, Alive, SameRun, Zero
    <2> QED
        BY <1>1, <2>1, <2>4, Ports
           DEF Layout, OneAtATime, Routed, Settled, Leftover, Running, Alive, Serving, Removed,
               SameRun, Building, Zero
<1> QED
    BY <1>2, <1>3, <1>4 DEF IInv

LEMMA SwitchKeeps ==
    ASSUME IInv, RunSwitch
    PROVE  IInv'
<1>1. /\ run.at = "switch" /\ run' \in Run /\ run'.at = "promote" /\ SameRun
      /\ run'.lit = run.lit /\ site' \in Port \cup {None}
      /\ \/ site' = Other(run.port) /\ mishaps' = mishaps
         \/ mishaps' = mishaps \cup {"slip"}
      /\ UNCHANGED <<mode, row, deps, file, live, op, begun, asked>>
    BY GotoFacts, Ports
       DEF IInv, Typed, RunSwitch, Run, Mishap, procs, bounds, Stage, Building, Zero
<1>2. Typed' /\ RollbackHasNumber'
    BY <1>1 DEF IInv, Typed, Bounded, RollbackHasNumber, SameRun, SameRow
<1>3. Numbers'
    BY <1>1, NumbersKept DEF IInv, SameRow
<1>4. Layout'
    <2>1. CASE "slip" \in mishaps'
        BY <2>1 DEF Layout, Undisturbed
    <2>2. CASE "slip" \notin mishaps'
        <3>1. site' = Other(run.port) /\ mishaps' = mishaps
            BY <1>1, <2>2
        <3> QED
            BY <1>1, <3>1, Ports
               DEF IInv, Typed, Layout, Undisturbed, OneAtATime, Routed, Staged, Settled,
                   Leftover, Running, Alive, Serving, Removed, SameRun, SameRow, Stage, Building, Zero,
                   Asked, Name
    <2> QED
        BY <2>1, <2>2
<1> QED
    BY <1>2, <1>3, <1>4 DEF IInv

LEMMA PromoteUnitKeeps ==
    ASSUME IInv, RunPromoteUnit
    PROVE  IInv'
<1>1. /\ run.at = "promote" /\ mode = "bare" /\ run' \in Run /\ run'.at = "finish" /\ SameRun
      /\ file' \in Files /\ live' \in Processes
      /\ file'["main"] = file["staging"] /\ file'["staging"] = None
      /\ \/ /\ live'["main"] = None /\ live'["staging"] = live["staging"]
            /\ mishaps' = mishaps \cup {"promoted"}
         \/ mishaps' = mishaps \cup {"promoted", "slip"}
      /\ UNCHANGED <<mode, row, deps, site, op, begun, asked>>
    BY GotoFacts
       DEF IInv, Typed, RunPromoteUnit, Files, Processes, Mishap, bounds, Name, Stage, Building,
           Zero
<1>2. Typed' /\ RollbackHasNumber'
    BY <1>1 DEF IInv, Typed, Bounded, RollbackHasNumber, SameRun, SameRow
<1>3. Numbers'
    BY <1>1, NumbersKept DEF IInv, SameRow
<1>4. Layout'
    <2>1. CASE "slip" \in mishaps'
        BY <2>1 DEF Layout, Undisturbed
    <2>2. CASE "slip" \notin mishaps'
        <3>1. /\ live'["main"] = None /\ live'["staging"] = live["staging"]
              /\ mishaps' = mishaps \cup {"promoted"}
            BY <1>1, <2>2
        <3> QED
            BY <1>1, <3>1, Ports
               DEF IInv, Typed, Layout, Undisturbed, OneAtATime, Routed, Staged, Settled,
                   Leftover, Running, Alive, Serving, Removed, SameRun, SameRow, Stage,
                   Building, Zero, Asked, Name
    <2> QED
        BY <2>1, <2>2
<1> QED
    BY <1>2, <1>3, <1>4 DEF IInv

LEMMA PromoteContainerKeeps ==
    ASSUME IInv, RunPromoteContainer
    PROVE  IInv'
<1>1. /\ run.at = "promote" /\ mode = "docker" /\ run' \in Run /\ run'.at = "finish" /\ SameRun
      /\ file' \in Files /\ live' \in Processes
      /\ \/ /\ file'["main"] = file["staging"] /\ file'["staging"] = None
            /\ live'["main"] = live["staging"] /\ live'["staging"] = None
            /\ mishaps' = mishaps
         \/ mishaps' = mishaps \cup {"slip"}
      /\ UNCHANGED <<mode, row, deps, site, op, begun, asked>>
    BY GotoFacts, ProcFacts
       DEF IInv, Typed, RunPromoteContainer, Files, Processes, Mishap, procs, bounds, Name,
           Stage, Building, Zero
<1>2. Typed' /\ RollbackHasNumber'
    BY <1>1 DEF IInv, Typed, Bounded, RollbackHasNumber, SameRun, SameRow
<1>3. Numbers'
    BY <1>1, NumbersKept DEF IInv, SameRow
<1>4. Layout'
    <2>1. CASE "slip" \in mishaps'
        BY <2>1 DEF Layout, Undisturbed
    <2>2. CASE "slip" \notin mishaps'
        <3>1. /\ file'["main"] = file["staging"] /\ file'["staging"] = None
              /\ live'["main"] = live["staging"] /\ live'["staging"] = None
              /\ mishaps' = mishaps
            BY <1>1, <2>2
        <3> QED
            BY <1>1, <3>1, Ports
               DEF IInv, Typed, Layout, Undisturbed, OneAtATime, Routed, Staged, Settled,
                   Leftover, Running, Alive, Serving, Removed, SameRun, SameRow, Stage, Building, Zero,
                   Asked, Name
    <2> QED
        BY <2>1, <2>2
<1> QED
    BY <1>2, <1>3, <1>4 DEF IInv

LEMMA FinishKeeps ==
    ASSUME IInv, RunFinish
    PROVE  IInv'
<1>1. /\ run.at = "finish" /\ run' \in Run /\ run'.at = "idle" /\ run'.num = 0
      /\ row' \in Row /\ row'.there = row.there /\ row'.host = row.host
      /\ row'.current = row.current
      /\ row.there => row'.port = Other(run.port) /\ row'.status = "running"
      /\ UNCHANGED <<mode, deps, file, live, site, op, begun, asked, mishaps>>
    BY EndRunFacts, Ports DEF IInv, Typed, RunFinish, Put, Row, Run, procs, bounds
<1>2. Typed' /\ RollbackHasNumber'
    BY <1>1 DEF IInv, Typed, Bounded, RollbackHasNumber, SameRun, SameRow
<1>3. Numbers'
    BY <1>1, NumbersKept DEF IInv, SameRow
<1>4. Layout'
    BY <1>1, Ports
       DEF IInv, Typed, Layout, Undisturbed, OneAtATime, Routed, Staged, Settled, Leftover, Running,
           Alive, Serving, Removed, SameRun, SameRow, Stage, Building, Zero, Asked, Name
<1> QED
    BY <1>2, <1>3, <1>4 DEF IInv

LEMMA StartKeeps ==
    ASSUME IInv, StartProject
    PROVE  IInv'
<1>1. /\ op.at = "idle" /\ row.there /\ op' \in Op /\ op'.at = "started" /\ op'.num = 0
      /\ op'.port = row.port /\ op'.host = row.host /\ asked' \in Nat
      /\ mishaps \subseteq mishaps' /\ (run.at # "idle" => "overlap" \in mishaps')
      /\ run.at = "idle" => mishaps' = mishaps
      /\ file' \in Files /\ live' \in Processes /\ file["main"] # None
      /\ \/ live["main"] # None /\ file' = file /\ live' = live
         \/ /\ live["main"] = None /\ file'["main"] = file["main"]
            /\ live'["main"] \in {None, file["main"], Deaf}
            /\ file'["staging"] = file["staging"] /\ live'["staging"] = live["staging"]
            /\ live'["main"] = None => live["staging"] = file["main"]
            /\ live'["main"] = file["main"] => live["staging"] # file["main"]
      /\ UNCHANGED <<mode, row, deps, site, run, begun>>
    <2>1. /\ file \in Files /\ live \in Processes /\ row \in Row /\ asked \in Nat
          /\ mode \in {"docker", "bare"} /\ 0 \in Nat /\ "started" \in Asked
          /\ "main" \in Name /\ "staging" \in Name \ {"main"} /\ Name \ {"main"} = {"staging"}
        BY DEF IInv, Typed, Name, Asked
    <2>2. /\ file["main"] # None /\ Ask("started", 0)
          /\ UNCHANGED <<mode, row, deps, site, run, begun>>
        BY DEF StartProject
    <2>3. CASE live["main"] # None /\ UNCHANGED procs
        BY <2>1, <2>2, <2>3, AskFacts DEF procs
    <2>4. CASE /\ live["main"] = None
               /\ mode = "docker" => ~Bound("main", file["main"])
               /\ \E l \in Launched("main", file["main"]) : Proc("main", file["main"], l)
        <3>1. PICK l \in Launched("main", file["main"]) : Proc("main", file["main"], l)
            BY <2>4
        <3>2. file["main"] \in Port
            BY <2>1, <2>2 DEF Files
        <3>3. /\ l \in Port \cup {None, Deaf} /\ l \in {None, file["main"], Deaf}
              /\ l = None => live["staging"] = file["main"] /\ mode = "bare"
              /\ l = file["main"] => live["staging"] # file["main"]
            BY <2>1, <2>4, <3>1, <3>2, LaunchedFacts
        <3>4. /\ file' \in Files /\ live' \in Processes
              /\ file'["main"] = file["main"] /\ live'["main"] = l
              /\ file'["staging"] = file["staging"] /\ live'["staging"] = live["staging"]
            BY <2>1, <3>1, <3>2, <3>3, ProcFacts
        <3> QED
            BY <2>1, <2>2, <2>4, <3>3, <3>4, AskFacts
    <2> QED
        BY <2>3, <2>4 DEF StartProject
<1>2. Typed' /\ RollbackHasNumber'
    BY <1>1 DEF IInv, Typed, Bounded, RollbackHasNumber, SameRun, SameRow
<1>3. Numbers'
    BY <1>1, NumbersKept DEF IInv, SameRow
<1>4. Layout'
    BY <1>1, Ports
       DEF IInv, Typed, Layout, Undisturbed, OneAtATime, Routed, Staged, Settled, Leftover,
           Running, Alive, Serving, Removed, SameRun, SameRow, Stage, Building, Zero, Asked,
           Name
<1> QED
    BY <1>2, <1>3, <1>4 DEF IInv

LEMMA StopKeeps ==
    ASSUME IInv, StopProject
    PROVE  IInv'
<1>1. /\ op.at = "idle" /\ row.there /\ op' \in Op /\ op'.at = "stopped" /\ op'.num = 0
      /\ op'.port = row.port /\ op'.host = row.host /\ asked' \in Nat
      /\ mishaps \subseteq mishaps' /\ (run.at # "idle" => "overlap" \in mishaps')
      /\ run.at = "idle" => mishaps' = mishaps
      /\ file' \in Files /\ live' \in Processes
      /\ file'["main"] = file["main"] /\ live'["main"] = None
      /\ file'["staging"] = file["staging"] /\ live'["staging"] = live["staging"]
      /\ UNCHANGED <<mode, row, deps, site, run, begun>>
    BY AskFacts, ProcFacts DEF IInv, Typed, StopProject, Files, Processes, Name, Asked
<1>2. Typed' /\ RollbackHasNumber'
    BY <1>1 DEF IInv, Typed, Bounded, RollbackHasNumber, SameRun, SameRow
<1>3. Numbers'
    BY <1>1, NumbersKept DEF IInv, SameRow
<1>4. Layout'
    BY <1>1, Ports
       DEF IInv, Typed, Layout, Undisturbed, OneAtATime, Routed, Staged, Settled, Leftover, Running,
           Alive, Serving, Removed, SameRun, SameRow, Stage, Building, Zero, Asked, Name
<1> QED
    BY <1>2, <1>3, <1>4 DEF IInv

LEMMA WriteStatusKeeps ==
    ASSUME IInv, WriteStatus
    PROVE  IInv'
<1>1. /\ op.at \in {"started", "stopped"} /\ op' \in Op /\ op'.at = "idle" /\ op'.num = 0
      /\ row' \in Row /\ SameRow
      /\ row.there => row'.status = IF op.at = "started" THEN "running" ELSE "stopped"
      /\ UNCHANGED <<mode, deps, file, live, site, run, begun, asked, mishaps>>
    BY StatusFacts, EndOpFacts DEF IInv, Typed, WriteStatus, procs, bounds
<1>2. Typed' /\ RollbackHasNumber'
    BY <1>1 DEF IInv, Typed, Bounded, RollbackHasNumber, SameRun, SameRow
<1>3. Numbers'
    BY <1>1, NumbersKept DEF IInv, SameRow
<1>4. Layout'
    BY <1>1, Ports
       DEF IInv, Typed, Layout, Undisturbed, OneAtATime, Routed, Staged, Settled, Leftover, Running,
           Alive, Serving, Removed, SameRun, SameRow, Stage, Building, Zero, Asked, Name
<1> QED
    BY <1>2, <1>3, <1>4 DEF IInv

LEMMA RestoreContainerKeeps ==
    ASSUME IInv, RestoreContainer
    PROVE  IInv'
<1>1. /\ op.at = "restore" /\ mode = "docker" /\ op' \in Op
      /\ file' \in Files /\ live' \in Processes
      /\ \/ /\ op'.at = "verify" /\ op'.num = op.num /\ op'.port = op.port /\ op'.host = op.host
            /\ file'["main"] = op.port /\ live'["main"] \in {op.port, Deaf}
            /\ file'["staging"] = file["staging"] /\ live'["staging"] = live["staging"]
            /\ live'["main"] = op.port => live["staging"] # op.port
            /\ mishaps' = mishaps
         \/ op'.at = "idle" /\ op'.num = 0 /\ mishaps' = mishaps \cup {"slip"}
      /\ UNCHANGED <<mode, row, deps, site, run, begun, asked>>
    <2>1. /\ file \in Files /\ live \in Processes /\ op \in Op /\ op.port \in Port
          /\ "verify" \in Asked /\ "main" \in Name /\ "staging" \in Name \ {"main"}
        BY DEF IInv, Typed, Op, Name, Asked
    <2>2. op.at = "restore" /\ mode = "docker" /\ UNCHANGED <<mode, row, deps, site, run, begun, asked>>
        BY DEF RestoreContainer, bounds
    <2>3. CASE Proc("main", None, None) /\ EndOp /\ Mishap({"slip"})
        BY <2>1, <2>2, <2>3, ProcFacts, EndOpFacts DEF Mishap
    <2>4. CASE /\ ~Bound("main", op.port)
               /\ \E l \in Launched("main", op.port) : Proc("main", op.port, l)
               /\ OpGoto("verify") /\ UNCHANGED mishaps
        <3>1. PICK l \in Launched("main", op.port) : Proc("main", op.port, l)
            BY <2>4
        <3>2. /\ l \in Port \cup {None, Deaf} /\ l \in {op.port, Deaf}
              /\ l = op.port => live["staging"] # op.port
            BY <2>1, <2>4, <3>1, LaunchedFacts
        <3>3. /\ file' \in Files /\ live' \in Processes
              /\ file'["main"] = op.port /\ live'["main"] = l
              /\ file'["staging"] = file["staging"] /\ live'["staging"] = live["staging"]
            BY <2>1, <3>1, <3>2, ProcFacts
        <3> QED
            BY <2>1, <2>2, <2>4, <3>2, <3>3, OpGotoFacts
    <2> QED
        BY <2>3, <2>4 DEF RestoreContainer
<1>2. Typed' /\ RollbackHasNumber'
    BY <1>1 DEF IInv, Typed, Bounded, RollbackHasNumber, SameRun, SameRow
<1>3. Numbers'
    BY <1>1, NumbersKept DEF IInv, SameRow
<1>4. Layout'
    <2>1. CASE "slip" \in mishaps'
        BY <2>1 DEF Layout, Undisturbed
    <2>2. CASE "slip" \notin mishaps'
        <3>1. /\ op'.at = "verify" /\ op'.port = op.port /\ op'.host = op.host
              /\ file'["main"] = op.port /\ live'["main"] \in {op.port, Deaf}
              /\ file'["staging"] = file["staging"] /\ live'["staging"] = live["staging"]
              /\ live'["main"] = op.port => live["staging"] # op.port
              /\ mishaps' = mishaps
            BY <1>1, <2>2
        <3> QED
            BY <1>1, <3>1, Ports
               DEF IInv, Typed, Layout, Undisturbed, OneAtATime, Routed, Staged, Settled,
                   Leftover, Running, Alive, Serving, Removed, SameRun, SameRow, Stage,
                   Building, Zero, Asked, Name
    <2> QED
        BY <2>1, <2>2
<1> QED
    BY <1>2, <1>3, <1>4 DEF IInv

LEMMA RestoreUnitKeeps ==
    ASSUME IInv, RestoreUnit
    PROVE  IInv'
<1>1. /\ op.at = "restore" /\ mode = "bare" /\ op' \in Op /\ op'.at = "idle" /\ op'.num = 0
      /\ file' \in Files /\ live' \in Processes /\ file'["main"] = file["main"]
      /\ file'["staging"] = file["staging"] /\ live'["staging"] = live["staging"]
      /\ file["main"] = None => live'["main"] = live["main"]
      /\ file["main"] # None =>
           /\ live'["main"] \in {None, file["main"], Deaf}
           /\ live'["main"] = None => live["staging"] = file["main"]
           /\ live'["main"] = file["main"] => live["staging"] # file["main"]
      /\ UNCHANGED <<mode, row, deps, site, run, begun, asked, mishaps>>
    <2>1. /\ file \in Files /\ live \in Processes /\ "main" \in Name
          /\ Name \ {"main"} = {"staging"}
        BY DEF IInv, Typed, Name
    <2>2. /\ op.at = "restore" /\ mode = "bare" /\ op' \in Op /\ op'.at = "idle" /\ op'.num = 0
          /\ UNCHANGED <<mode, row, deps, site, run, begun, asked, mishaps>>
        BY EndOpFacts DEF RestoreUnit, bounds
    <2>3. CASE file["main"] = None
        BY <2>1, <2>2, <2>3 DEF RestoreUnit, procs
    <2>4. CASE file["main"] # None
        <3>1. PICK l \in Launched("main", file["main"]) : Proc("main", file["main"], l)
            BY <2>4 DEF RestoreUnit
        <3>2. file["main"] \in Port
            BY <2>1, <2>4 DEF Files
        <3>3. /\ l \in Port \cup {None, Deaf} /\ l \in {None, file["main"], Deaf}
              /\ l = None => live["staging"] = file["main"]
              /\ l = file["main"] => live["staging"] # file["main"]
            BY <2>1, <2>2, <3>1, <3>2, LaunchedFacts
        <3>4. /\ file' \in Files /\ live' \in Processes
              /\ file'["main"] = file["main"] /\ live'["main"] = l
              /\ file'["staging"] = file["staging"] /\ live'["staging"] = live["staging"]
            BY <2>1, <3>1, <3>2, <3>3, ProcFacts
        <3> QED
            BY <2>1, <2>2, <2>4, <3>3, <3>4
    <2> QED
        BY <2>3, <2>4
<1>2. Typed' /\ RollbackHasNumber'
    BY <1>1 DEF IInv, Typed, Bounded, RollbackHasNumber, SameRun, SameRow
<1>3. Numbers'
    BY <1>1, NumbersKept DEF IInv, SameRow
<1>4. Layout'
    BY <1>1, Ports
       DEF IInv, Typed, Layout, Undisturbed, OneAtATime, Routed, Staged, Settled, Leftover,
           Running, Alive, Serving, Removed, SameRun, SameRow, Stage, Building, Zero, Asked,
           Name
<1> QED
    BY <1>2, <1>3, <1>4 DEF IInv

LEMMA VerifyKeeps ==
    ASSUME IInv, VerifyRestored
    PROVE  IInv'
<1>1. /\ op.at = "verify" /\ op' \in Op /\ op'.at = "idle" /\ op'.num = 0
      /\ row' \in Row /\ SameRow /\ file' \in Files /\ live' \in Processes
      /\ row.there => row'.status = "running" /\ file' = file /\ live' = live
      /\ ~row.there => /\ file'["main"] = None /\ live'["main"] = None
                       /\ file'["staging"] = file["staging"] /\ live'["staging"] = live["staging"]
      /\ UNCHANGED <<mode, deps, site, run, begun, asked, mishaps>>
    BY StatusFacts, EndOpFacts, ProcFacts
       DEF IInv, Typed, VerifyRestored, SameRow, Name, procs, bounds
<1>2. Typed' /\ RollbackHasNumber'
    BY <1>1 DEF IInv, Typed, Bounded, RollbackHasNumber, SameRun, SameRow
<1>3. Numbers'
    BY <1>1, NumbersKept DEF IInv, SameRow
<1>4. Layout'
    BY <1>1, Ports
       DEF IInv, Typed, Layout, Undisturbed, OneAtATime, Routed, Staged, Settled, Leftover, Running,
           Alive, Serving, Removed, SameRun, SameRow, Stage, Building, Zero, Asked, Name
<1> QED
    BY <1>2, <1>3, <1>4 DEF IInv

LEMMA DeleteKeeps ==
    ASSUME IInv, DeleteProject
    PROVE  IInv'
<1>1. /\ op.at = "idle" /\ row.there /\ op' \in Op /\ op'.at = "unprocess" /\ op'.num = 0
      /\ op'.port = row.port /\ op'.host = row.host /\ asked' \in Nat
      /\ mishaps \subseteq mishaps' /\ (run.at # "idle" => "overlap" \in mishaps')
      /\ run.at = "idle" => mishaps' = mishaps
      /\ UNCHANGED <<mode, row, deps, file, live, site, run, begun>>
    BY AskFacts DEF IInv, Typed, DeleteProject, procs, Asked
<1>2. Typed' /\ RollbackHasNumber'
    BY <1>1 DEF IInv, Typed, Bounded, RollbackHasNumber, SameRun, SameRow
<1>3. Numbers'
    BY <1>1, NumbersKept DEF IInv, SameRow
<1>4. Layout'
    BY <1>1, Ports
       DEF IInv, Typed, Layout, Undisturbed, OneAtATime, Routed, Staged, Settled, Leftover, Running,
           Alive, Serving, Removed, SameRun, SameRow, Stage, Building, Zero, Asked, Name
<1> QED
    BY <1>2, <1>3, <1>4 DEF IInv

LEMMA DeleteProcessKeeps ==
    ASSUME IInv, DeleteProcess
    PROVE  IInv'
<1>1. /\ op.at = "unprocess" /\ op' \in Op /\ op'.at = "unhost"
      /\ op'.num = op.num /\ op'.port = op.port /\ op'.host = op.host
      /\ file' \in Files /\ live' \in Processes
      /\ \/ /\ file'["main"] = None /\ live'["main"] = None /\ mishaps' = mishaps
            /\ file'["staging"] = file["staging"] /\ live'["staging"] = live["staging"]
         \/ file' = file /\ live' = live /\ mishaps' = mishaps \cup {"leftProcess"}
      /\ UNCHANGED <<mode, row, deps, site, run, begun, asked>>
    BY OpGotoFacts, ProcFacts DEF IInv, Typed, DeleteProcess, Mishap, Name, Asked, procs, bounds
<1>2. Typed' /\ RollbackHasNumber'
    BY <1>1 DEF IInv, Typed, Bounded, RollbackHasNumber, SameRun, SameRow
<1>3. Numbers'
    BY <1>1, NumbersKept DEF IInv, SameRow
<1>4. Layout'
    BY <1>1, Ports
       DEF IInv, Typed, Layout, Undisturbed, OneAtATime, Routed, Staged, Settled, Leftover,
           Running, Alive, Serving, Removed, SameRun, SameRow, Stage, Building, Zero, Asked,
           Name
<1> QED
    BY <1>2, <1>3, <1>4 DEF IInv

LEMMA DeleteHostKeeps ==
    ASSUME IInv, DeleteHost
    PROVE  IInv'
<1>1. /\ op.at = "unhost" /\ op' \in Op /\ op'.at = "unrow"
      /\ op'.num = op.num /\ op'.port = op.port /\ op'.host = op.host
      /\ \/ site' = (IF op.host THEN None ELSE site) /\ mishaps' = mishaps
         \/ op.host /\ site' = site /\ mishaps' = mishaps \cup {"leftHost"}
      /\ UNCHANGED <<mode, row, deps, file, live, run, begun, asked>>
    BY OpGotoFacts DEF IInv, Typed, DeleteHost, Mishap, Asked, procs, bounds
<1>2. Typed' /\ RollbackHasNumber'
    BY <1>1 DEF IInv, Typed, Bounded, RollbackHasNumber, SameRun, SameRow
<1>3. Numbers'
    BY <1>1, NumbersKept DEF IInv, SameRow
<1>4. Layout'
    BY <1>1, Ports
       DEF IInv, Typed, Layout, Undisturbed, OneAtATime, Routed, Staged, Settled, Leftover,
           Running, Alive, Serving, Removed, SameRun, SameRow, Stage, Building, Zero, Asked,
           Name
<1> QED
    BY <1>2, <1>3, <1>4 DEF IInv

LEMMA CrashKeeps ==
    ASSUME IInv, Crash
    PROVE  IInv'
<1>1. /\ run' \in Run /\ run'.at = "idle" /\ run'.num = 0
      /\ op' \in Op /\ op'.at = "idle" /\ op'.num = 0
      /\ mishaps' = mishaps \cup {"crash"}
      /\ UNCHANGED <<mode, row, deps, file, live, site, begun, asked>>
    BY EndRunFacts, EndOpFacts DEF Crash, Mishap, procs, bounds
<1>2. Typed' /\ RollbackHasNumber'
    BY <1>1 DEF IInv, Typed, Bounded, RollbackHasNumber, SameRun, SameRow
<1>3. Numbers'
    BY <1>1, NumbersKept DEF IInv, SameRow
<1>4. Layout'
    BY <1>1, Ports
       DEF IInv, Typed, Layout, Undisturbed, OneAtATime, Routed, Staged, Settled, Leftover, Running,
           Alive, Serving, Removed, SameRun, SameRow, Stage, Building, Zero, Asked, Name
<1> QED
    BY <1>2, <1>3, <1>4 DEF IInv

LEMMA DeploymentsFacts ==
    ASSUME deps \in Deployments
    PROVE  /\ Len(deps) \in Nat /\ DOMAIN deps = 1..Len(deps)
           /\ \A i \in DOMAIN deps : deps[i] \in Deployment
           /\ \A i \in DOMAIN deps : deps[i].num \in Nat /\ deps[i].status \in Verdict
<1>1. /\ Len(deps) \in Nat /\ deps \in [1..Len(deps) -> Deployment] /\ DOMAIN deps = 1..Len(deps)
    BY LenProperties DEF Deployments
<1> QED
    BY <1>1 DEF Deployment

LEMMA DeploymentsAre ==
    ASSUME NEW n \in Nat, NEW s \in [1..n -> Deployment]
    PROVE  s \in Deployments
BY DEF Deployments

LEMMA ReadKeeps ==
    ASSUME IInv, RunRead
    PROVE  IInv'
<1>1. /\ run.at = "idle" /\ row.there /\ begun < MaxBuilds /\ begun' = begun + 1
      /\ run' = [Idle EXCEPT !.at = "read", !.num = row.current + 1,
                             !.port = row.port, !.host = row.host]
      /\ UNCHANGED <<mode, row, deps, file, live, site, op, asked>>
    BY DEF RunRead, procs
<1>2. /\ mishaps \subseteq mishaps' /\ (op.at = "idle" => mishaps' = mishaps)
      /\ op.at # "idle" => "overlap" \in mishaps'
      /\ op.at # "idle" /\ op.num # 0 => "raced" \in mishaps'
    BY DEF RunRead, Mishap
<1>3. /\ run' \in Run /\ run'.at = "read" /\ run'.num = row.current + 1
      /\ run'.port = row.port /\ run'.host = row.host
    <2>1. run' = [at |-> "read", num |-> row.current + 1, dep |-> 0, port |-> row.port,
                  host |-> row.host, lit |-> FALSE]
        BY <1>1 DEF Idle
    <2>2. row.current + 1 \in Nat /\ row.port \in Port /\ row.host \in BOOLEAN
        BY DEF IInv, Typed, Row
    <2> QED
        BY <2>1, <2>2 DEF Run, Stage
<1>4. Typed' /\ RollbackHasNumber'
    <2>1. /\ begun \in Nat /\ begun <= MaxBuilds /\ row.current \in Nat /\ op.num \in Nat
          /\ \A i \in DOMAIN deps : deps[i].num \in Nat
        BY DeploymentsFacts DEF IInv, Typed, Bounded, Row, Op
    <2>2. Bounded'
        BY <1>1, <1>3, <2>1, DeploysAssumption DEF IInv, Typed, Bounded
    <2> QED
        BY <1>1, <1>3, <2>1, <2>2 DEF IInv, Typed, RollbackHasNumber
<1>5. Numbers'
    <2> SUFFICES ASSUME "raced" \notin mishaps' PROVE Numbers'
        BY DEF Numbers
    <2>1. /\ RunIsNotRolledBack /\ CurrentIsLast /\ Distinct /\ op.num = 0
        BY <1>2 DEF IInv, RollbackHasNumber, Numbers
    <2>2. NumberIsNew'
        <3>1. \A i \in DOMAIN deps : deps[i].num \in Nat /\ row.current \in Nat
            BY DeploymentsFacts DEF IInv, Typed, Row
        <3> QED
            BY <1>1, <1>3, <2>1, <3>1 DEF NumberIsNew, CurrentIsLast, Succeeded
    <2>3. RunIsNotRolledBack' /\ NumberIsNext' /\ NumberIsTaken'
        BY <1>1, <1>3, <2>1 DEF RunIsNotRolledBack, NumberIsNext, NumberIsTaken
    <2>4. CurrentIsLast' /\ Distinct'
        BY <1>1, <2>1 DEF CurrentIsLast, Distinct, Succeeded
    <2> QED
        BY <2>2, <2>3, <2>4 DEF Numbers
<1>6. Layout'
    BY <1>1, <1>2, <1>3, Ports
       DEF IInv, Typed, Layout, Undisturbed, OneAtATime, Routed, Staged, Settled, Leftover, Running,
           Alive, Serving, Removed, SameRun, SameRow, Stage, Building, Zero, Asked, Name
<1> QED
    BY <1>4, <1>5, <1>6 DEF IInv

LEMMA RecordKeeps ==
    ASSUME IInv, RunRecord
    PROVE  IInv'
<1> DEFINE new == Len(deps) + 1
<1>1. /\ run.at = "read" /\ deps' = Append(deps, [num |-> run.num, status |-> "building"])
      /\ Put([row EXCEPT !.status = "building", !.current = run.num])
      /\ run' \in {[run EXCEPT !.at = "build", !.dep = new], Idle}
      /\ UNCHANGED <<mode, file, live, site, op, begun, asked, mishaps>>
    BY DEF RunRecord, procs, bounds
<1>2. /\ row \in Row /\ run \in Run /\ deps \in Deployments
      /\ Len(deps) \in Nat /\ new \in Nat /\ DOMAIN deps = 1..Len(deps)
      /\ \A i \in DOMAIN deps : deps[i].num \in Nat
    BY DeploymentsFacts DEF IInv, Typed
<1>3. /\ deps' \in Deployments /\ DOMAIN deps' = 1..new
      /\ \A i \in DOMAIN deps : i \in DOMAIN deps' /\ i # new /\ deps'[i] = deps[i]
      /\ \A i \in DOMAIN deps' : i = new \/ i \in DOMAIN deps
      /\ deps'[new].num = run.num /\ deps'[new].status = "building"
    <2>1. [num |-> run.num, status |-> "building"] \in Deployment
        BY <1>2 DEF Run, Deployment, Verdict
    <2>2. deps' \in Deployments
        BY <1>1, <1>2, <2>1 DEF Deployments
    <2>3. DOMAIN deps' = 1..new /\ \A i \in 1..new :
             deps'[i] = IF i = new THEN [num |-> run.num, status |-> "building"] ELSE deps[i]
        BY <1>1, <1>2, <2>1 DEF Deployments
    <2> QED
        BY <1>2, <2>2, <2>3
<1>4. /\ row' \in Row /\ row'.there = row.there /\ row'.port = row.port /\ row'.host = row.host
      /\ row'.current = IF row.there THEN run.num ELSE row.current
      /\ row.there => row'.status = "building"
    BY <1>1, <1>2 DEF Put, Row, Run
<1>5. /\ run' \in Run
      /\ \/ /\ run'.at = "build" /\ run'.num = run.num /\ run'.dep = new
            /\ run'.port = run.port /\ run'.host = run.host
         \/ run'.at = "idle" /\ run'.num = 0
    <2>1. CASE run' = [run EXCEPT !.at = "build", !.dep = new]
        BY <1>2, <2>1 DEF Run, Stage, Building
    <2>2. CASE run' = Idle
        BY <2>2 DEF Run, Idle, Stage, Port
    <2> QED
        BY <1>1, <2>1, <2>2
<1> HIDE DEF new
<1>6. Typed' /\ RollbackHasNumber'
    <2>1. Bounded'
        BY <1>1, <1>2, <1>3, <1>4, <1>5 DEF IInv, Typed, Bounded, Run, Row
    <2> QED
        BY <1>1, <1>3, <1>4, <1>5, <2>1 DEF IInv, Typed, RollbackHasNumber
<1>7. Numbers'
    <2> SUFFICES ASSUME "raced" \notin mishaps' PROVE Numbers'
        BY DEF Numbers
    <2>1. /\ RunIsNotRolledBack /\ NumberIsNew /\ CurrentIsLast /\ Distinct
          /\ row.there => run.num = row.current + 1
        BY <1>1 DEF IInv, Numbers, NumberIsNext
    <2>2. \A i \in DOMAIN deps' : Succeeded(i)' => i \in DOMAIN deps /\ Succeeded(i)
        BY <1>3 DEF Succeeded
    <2>3. \A i \in DOMAIN deps : Succeeded(i) => deps[i].num < run.num
        BY <1>1, <2>1 DEF NumberIsNew
    <2>4. RunIsNotRolledBack' /\ NumberIsNew' /\ NumberIsNext'
        BY <1>1, <1>5, <2>1 DEF RunIsNotRolledBack, NumberIsNew, NumberIsNext
    <2>5. NumberIsTaken'
        BY <1>3, <1>4, <1>5, <2>2, <2>3 DEF NumberIsTaken
    <2>6. CurrentIsLast'
        BY <1>2, <1>3, <1>4, <2>2, <2>3 DEF CurrentIsLast, Run, Row
    <2>7. Distinct'
        <3> SUFFICES ASSUME NEW i \in DOMAIN deps', NEW j \in DOMAIN deps', Succeeded(i)',
                            (deps[j] = deps[i])'
                     PROVE  i = j
            BY DEF Distinct
        <3>1. Succeeded(i) /\ i \in DOMAIN deps /\ deps'[i] = deps[i] /\ deps[i].status = "success"
            BY <1>3, <2>2 DEF Succeeded
        <3>2. j # new
            BY <1>3, <3>1
        <3> QED
            BY <1>3, <2>1, <3>1, <3>2 DEF Distinct
    <2> QED
        BY <2>4, <2>5, <2>6, <2>7 DEF Numbers
<1>8. Layout'
    BY <1>1, <1>3, <1>4, <1>5, Ports
       DEF IInv, Typed, Layout, Undisturbed, OneAtATime, Routed, Staged, Settled, Leftover, Running,
           Alive, Serving, Removed, SameRun, SameRow, Stage, Building, Zero, Asked, Name
<1> QED
    BY <1>6, <1>7, <1>8 DEF IInv

(* The verdict of a build is written to its deployment. *)
LEMMA SaveFacts ==
    ASSUME IInv, run.at = "build", NEW status \in Verdict, SaveDeployment(status)
    PROVE  /\ run.dep \in DOMAIN deps /\ deps' \in Deployments /\ DOMAIN deps' = DOMAIN deps
           /\ deps'[run.dep].num = deps[run.dep].num /\ deps'[run.dep].status = status
           /\ \A i \in DOMAIN deps : i # run.dep => deps'[i] = deps[i]
           /\ \A i \in DOMAIN deps : deps'[i].num = deps[i].num
<1>1. /\ run.dep \in DOMAIN deps /\ deps' = [deps EXCEPT ![run.dep].status = status]
      /\ Len(deps) \in Nat /\ DOMAIN deps = 1..Len(deps)
      /\ \A i \in DOMAIN deps : deps[i] \in Deployment
    BY DeploymentsFacts DEF IInv, Typed, Bounded, SaveDeployment
<1>2. /\ DOMAIN deps' = DOMAIN deps
      /\ \A i \in DOMAIN deps :
            deps'[i] = IF i = run.dep THEN [deps[i] EXCEPT !.status = status] ELSE deps[i]
    BY <1>1, DeploymentsFacts DEF IInv, Typed, Deployments
<1>3. ASSUME NEW i \in DOMAIN deps
      PROVE  /\ [deps[i] EXCEPT !.status = status] \in Deployment
             /\ [deps[i] EXCEPT !.status = status].num = deps[i].num
             /\ [deps[i] EXCEPT !.status = status].status = status
    BY <1>1 DEF Deployment
<1>4. \A i \in DOMAIN deps : deps'[i] \in Deployment
    BY <1>1, <1>2, <1>3
<1>5. deps' = [i \in DOMAIN deps |-> deps'[i]]
    BY <1>1
<1>6. deps' \in [1..Len(deps) -> Deployment]
    BY <1>1, <1>4, <1>5
<1>7. deps' \in Deployments
    BY <1>1, <1>6, DeploymentsAre
<1> QED
    BY <1>1, <1>2, <1>3, <1>7

LEMMA BuildFailsKeeps ==
    ASSUME IInv, RunBuildFails
    PROVE  IInv'
<1>1. /\ run.at = "build" /\ run' \in Run /\ run'.at = "idle" /\ run'.num = 0
      /\ row' \in Row /\ SameRow /\ (row.there => row'.status = "error")
      /\ UNCHANGED <<mode, file, live, site, op, begun, asked, mishaps>>
    BY StatusFacts, EndRunFacts DEF IInv, Typed, RunBuildFails, procs, bounds
<1>2. /\ run.dep \in DOMAIN deps /\ deps' \in Deployments /\ DOMAIN deps' = DOMAIN deps
      /\ deps'[run.dep].status = "failed"
      /\ \A i \in DOMAIN deps : i # run.dep => deps'[i] = deps[i]
      /\ \A i \in DOMAIN deps : deps'[i].num = deps[i].num
    BY <1>1, SaveFacts DEF RunBuildFails, Verdict
<1>3. Typed' /\ RollbackHasNumber'
    BY <1>1, <1>2 DEF IInv, Typed, Bounded, RollbackHasNumber, SameRow
<1>4. Numbers'
    <2>1. \A i \in DOMAIN deps : Succeeded(i)' => Succeeded(i) /\ deps'[i] = deps[i] /\ i # run.dep
        BY <1>2 DEF Succeeded
    <2>2. \A i, j \in DOMAIN deps : Succeeded(i)' /\ deps'[j] = deps'[i] => deps[j] = deps[i]
        BY <1>2, <2>1 DEF Succeeded
    <2> QED
        BY <1>1, <1>2, <2>1, <2>2
           DEF IInv, Numbers, RunIsNotRolledBack, NumberIsNew, NumberIsNext, NumberIsTaken,
               CurrentIsLast, Distinct, SameRow
<1>5. Layout'
    BY <1>1, <1>2, Ports
       DEF IInv, Typed, Layout, Undisturbed, OneAtATime, Routed, Staged, Settled, Leftover, Running,
           Alive, Serving, Removed, SameRun, SameRow, Stage, Building, Zero, Asked, Name
<1> QED
    BY <1>3, <1>4, <1>5 DEF IInv

LEMMA BuiltKeeps ==
    ASSUME IInv, RunBuilt
    PROVE  IInv'
<1>1. /\ run.at = "build" /\ run' \in Run /\ run'.at = "deploy" /\ SameRun /\ row' = row
      /\ UNCHANGED <<mode, file, live, site, op, begun, asked, mishaps>>
    BY GotoFacts DEF IInv, Typed, RunBuilt, procs, bounds, Stage, Building
<1>2. /\ run.dep \in DOMAIN deps /\ deps' \in Deployments /\ DOMAIN deps' = DOMAIN deps
      /\ deps'[run.dep].num = deps[run.dep].num /\ deps'[run.dep].status = "success"
      /\ \A i \in DOMAIN deps : i # run.dep => deps'[i] = deps[i]
      /\ \A i \in DOMAIN deps : deps'[i].num = deps[i].num
    BY <1>1, SaveFacts DEF RunBuilt, Verdict
<1>3. Typed' /\ RollbackHasNumber'
    BY <1>1, <1>2 DEF IInv, Typed, Bounded, RollbackHasNumber, SameRun
<1>4. Numbers'
    <2> SUFFICES ASSUME "raced" \notin mishaps' PROVE Numbers'
        BY DEF Numbers
    <2>1. /\ RunIsNotRolledBack /\ NumberIsTaken /\ CurrentIsLast /\ Distinct
        BY <1>1 DEF IInv, Numbers
    <2>2. /\ \A i \in DOMAIN deps : deps[i].num \in Nat
          /\ run.num \in Nat /\ deps[run.dep].num = run.num
          /\ \A i \in DOMAIN deps : Succeeded(i) => deps[i].num < run.num \/ i = run.dep
          /\ row.there => row.current = run.num
        BY <1>1, <2>1, DeploymentsFacts DEF IInv, Typed, Run, NumberIsTaken
    <2>3. \A i \in DOMAIN deps : Succeeded(i)' =>
             i = run.dep \/ (Succeeded(i) /\ deps'[i] = deps[i] /\ deps[i].num < run.num)
        BY <1>2, <2>2 DEF Succeeded
    <2>4. RunIsNotRolledBack' /\ NumberIsNew' /\ NumberIsNext' /\ NumberIsTaken'
        BY <1>1, <2>1 DEF RunIsNotRolledBack, NumberIsNew, NumberIsNext, NumberIsTaken
    <2>5. CurrentIsLast'
        BY <1>1, <1>2, <2>2, <2>3 DEF CurrentIsLast
    <2>6. Distinct'
        <3> SUFFICES ASSUME NEW i \in DOMAIN deps', NEW j \in DOMAIN deps', Succeeded(i)',
                            (deps[j] = deps[i])'
                     PROVE  i = j
            BY DEF Distinct
        <3>1. Succeeded(j)' /\ deps'[i].num = deps'[j].num
            BY DEF Succeeded
        <3>2. CASE i = run.dep \/ j = run.dep
            BY <1>2, <2>2, <2>3, <3>1, <3>2
        <3>3. CASE i # run.dep /\ j # run.dep
            BY <1>2, <2>1, <2>3, <3>3 DEF Distinct
        <3> QED
            BY <3>2, <3>3
    <2> QED
        BY <2>4, <2>5, <2>6 DEF Numbers
<1>5. Layout'
    BY <1>1, <1>2, Ports
       DEF IInv, Typed, Layout, Undisturbed, OneAtATime, Routed, Staged, Settled, Leftover, Running,
           Alive, Serving, Removed, SameRun, SameRow, Stage, Building, Zero, Asked, Name
<1> QED
    BY <1>3, <1>4, <1>5 DEF IInv

LEMMA RollbackKeeps ==
    ASSUME IInv, Rollback
    PROVE  IInv'
<1>1. PICK i \in DOMAIN deps : deps[i].status = "success" /\ Ask("mark", deps[i].num)
    BY DEF Rollback
<1>2. UNCHANGED <<mode, row, deps, file, live, site, run, begun>>
    BY DEF Rollback, procs
<1>3. deps[i].num \in Nat /\ deps[i].num > 0 /\ deps[i].num <= begun
    BY DeploymentsFacts DEF IInv, Typed, Bounded
<1>4. /\ op.at = "idle" /\ row.there /\ op' \in Op /\ op'.at = "mark" /\ op'.num = deps[i].num
      /\ op'.port = row.port /\ op'.host = row.host /\ asked' \in Nat
      /\ mishaps \subseteq mishaps' /\ (run.at = "idle" => mishaps' = mishaps)
      /\ run.at # "idle" => "overlap" \in mishaps' /\ "raced" \in mishaps'
    BY <1>1, <1>3, AskFacts DEF IInv, Typed, Asked
<1>5. Typed' /\ RollbackHasNumber'
    BY <1>2, <1>3, <1>4 DEF IInv, Typed, Bounded, RollbackHasNumber
<1>6. Numbers'
    BY <1>2, <1>4
       DEF IInv, Numbers, RunIsNotRolledBack, NumberIsNew, NumberIsNext, NumberIsTaken,
           CurrentIsLast, Distinct, Succeeded
<1>7. Layout'
    BY <1>2, <1>4, Ports
       DEF IInv, Typed, Layout, Undisturbed, OneAtATime, Routed, Staged, Settled, Leftover, Running,
           Alive, Serving, Removed, SameRun, SameRow, Stage, Building, Zero, Asked, Name
<1> QED
    BY <1>5, <1>6, <1>7 DEF IInv

LEMMA MarkKeeps ==
    ASSUME IInv, MarkNewer
    PROVE  IInv'
<1>1. /\ op.at = "mark" /\ op' \in Op /\ op'.at = "restore"
      /\ op'.num = op.num /\ op'.port = op.port /\ op'.host = op.host /\ op.num \in Nat
      /\ UNCHANGED <<mode, file, live, site, run, begun, asked, mishaps>>
    BY OpGotoFacts DEF IInv, Typed, MarkNewer, Asked, Op, procs, bounds
<1>2. /\ row' \in Row /\ row'.there = row.there /\ row'.port = row.port /\ row'.host = row.host
      /\ row'.status = row.status /\ row'.current = IF row.there THEN op.num ELSE row.current
    BY <1>1 DEF IInv, Typed, MarkNewer, Put, Row
<1>3. /\ Len(deps) \in Nat /\ DOMAIN deps = 1..Len(deps)
      /\ \A i \in DOMAIN deps : deps[i] \in Deployment
    BY DeploymentsFacts DEF IInv, Typed
<1>4. /\ DOMAIN deps' = DOMAIN deps
      /\ \A i \in DOMAIN deps :
            deps'[i] = IF deps[i].num > op.num /\ deps[i].status # "gone"
                       THEN [deps[i] EXCEPT !.status = "rolled_back"] ELSE deps[i]
      /\ deps' = [i \in 1..Len(deps) |-> deps'[i]]
    BY <1>3 DEF MarkNewer
<1>5. ASSUME NEW i \in DOMAIN deps
      PROVE  /\ [deps[i] EXCEPT !.status = "rolled_back"] \in Deployment
             /\ [deps[i] EXCEPT !.status = "rolled_back"].num = deps[i].num
             /\ [deps[i] EXCEPT !.status = "rolled_back"].status = "rolled_back"
             /\ deps[i].num \in Nat
    BY <1>3 DEF Deployment, Verdict
<1>6. /\ \A i \in DOMAIN deps : deps'[i] \in Deployment /\ deps'[i].num = deps[i].num
      /\ \A i \in DOMAIN deps : deps[i].status = "gone" => deps'[i] = deps[i]
      /\ \A i \in DOMAIN deps : deps'[i].status = "success" =>
            deps'[i] = deps[i] /\ deps[i].num <= op.num
    <2> SUFFICES ASSUME NEW i \in DOMAIN deps
                 PROVE  /\ deps'[i] \in Deployment /\ deps'[i].num = deps[i].num
                        /\ deps[i].status = "gone" => deps'[i] = deps[i]
                        /\ deps'[i].status = "success"
                              => deps'[i] = deps[i] /\ deps[i].num <= op.num
        BY <1>4
    <2>1. CASE deps[i].num > op.num /\ deps[i].status # "gone"
        BY <1>4, <1>5, <2>1
    <2>2. CASE deps[i].status = "gone"
        BY <1>3, <1>4, <2>2
    <2>3. CASE ~(deps[i].num > op.num)
        <3>1. op.num \in Nat /\ deps[i].num \in Nat /\ deps[i] \in Deployment
            BY <1>1, <1>3, <1>5
        <3>2. deps'[i] = deps[i]
            BY <1>4, <2>3
        <3>3. deps[i].num <= op.num
            BY <2>3, <3>1
        <3> QED
            BY <3>1, <3>2, <3>3
    <2> QED
        BY <2>1, <2>2, <2>3
<1>7. deps' \in [1..Len(deps) -> Deployment]
    BY <1>3, <1>4, <1>6
<1>8. deps' \in Deployments
    BY <1>3, <1>7, DeploymentsAre
<1>9. Typed' /\ RollbackHasNumber'
    BY <1>1, <1>2, <1>4, <1>6, <1>8 DEF IInv, Typed, Bounded, RollbackHasNumber
<1>10. Numbers'
    <2> SUFFICES ASSUME "raced" \notin mishaps' PROVE Numbers'
        BY DEF Numbers
    <2>1. run.at = "idle" /\ Distinct
        BY <1>1 DEF IInv, RollbackHasNumber, Numbers, RunIsNotRolledBack
    <2>2. CurrentIsLast'
        BY <1>2, <1>4, <1>6 DEF CurrentIsLast, Succeeded
    <2>3. Distinct'
        <3> SUFFICES ASSUME NEW i \in DOMAIN deps', NEW j \in DOMAIN deps', Succeeded(i)',
                            (deps[j] = deps[i])'
                     PROVE  i = j
            BY DEF Distinct
        <3>1. Succeeded(i) /\ deps'[i] = deps[i] /\ deps'[j] = deps[j]
            BY <1>4, <1>6 DEF Succeeded
        <3> QED
            BY <1>4, <2>1, <3>1 DEF Distinct
    <2> QED
        BY <1>1, <2>1, <2>2, <2>3
           DEF Numbers, RunIsNotRolledBack, NumberIsNew, NumberIsNext, NumberIsTaken
<1>11. Layout'
    BY <1>1, <1>2, <1>4, <1>6, Ports
       DEF IInv, Typed, Layout, Undisturbed, OneAtATime, Routed, Staged, Settled, Leftover, Running,
           Alive, Serving, Removed, SameRun, SameRow, Stage, Building, Zero, Asked, Name
<1> QED
    BY <1>9, <1>10, <1>11 DEF IInv

LEMMA DeleteRowsKeeps ==
    ASSUME IInv, DeleteRows
    PROVE  IInv'
<1>1. /\ op.at = "unrow" /\ op' \in Op /\ op'.at = "idle" /\ op'.num = 0
      /\ row' \in Row /\ row'.current = row.current /\ row'.port = row.port
      /\ row'.there => row.there /\ "slip" \in mishaps'
      /\ mishaps \subseteq mishaps' /\ mishaps' \subseteq mishaps \cup {"leftRows", "slip"}
      /\ UNCHANGED <<mode, file, live, site, run, begun, asked>>
    BY EndOpFacts DEF IInv, Typed, DeleteRows, Mishap, Row, procs, bounds
<1>2. /\ Len(deps) \in Nat /\ DOMAIN deps = 1..Len(deps)
      /\ \A i \in DOMAIN deps : deps[i] \in Deployment
    BY DeploymentsFacts DEF IInv, Typed
<1>3. \/ /\ DOMAIN deps' = DOMAIN deps /\ deps' = [i \in 1..Len(deps) |-> deps'[i]]
         /\ \A i \in DOMAIN deps : deps'[i] = [deps[i] EXCEPT !.status = "gone"]
      \/ deps' = deps /\ "leftRows" \in mishaps'
    BY <1>2 DEF DeleteRows, Mishap
<1>4. \/ /\ DOMAIN deps' = DOMAIN deps
         /\ \A i \in DOMAIN deps :
               deps'[i] \in Deployment /\ deps'[i].num = deps[i].num /\ deps'[i].status = "gone"
      \/ deps' = deps /\ "leftRows" \in mishaps'
    BY <1>2, <1>3 DEF Deployment, Verdict
<1>5. deps' \in Deployments
    <2>1. CASE deps' = deps
        BY <2>1 DEF IInv, Typed
    <2>2. CASE deps' # deps
        <3>1. deps' \in [1..Len(deps) -> Deployment]
            BY <1>2, <1>3, <1>4, <2>2
        <3> QED
            BY <1>2, <3>1, DeploymentsAre
    <2> QED
        BY <2>1, <2>2
<1>6. /\ DOMAIN deps' = DOMAIN deps /\ \A i \in DOMAIN deps : deps'[i].num = deps[i].num
      /\ \A i \in DOMAIN deps : Succeeded(i)' => deps' = deps
    BY <1>4 DEF Succeeded
<1>7. Typed' /\ RollbackHasNumber'
    BY <1>1, <1>5, <1>6 DEF IInv, Typed, Bounded, RollbackHasNumber
<1>8. Numbers'
    <2>1. CASE deps' = deps
        BY <1>1, <2>1
           DEF IInv, Numbers, RunIsNotRolledBack, NumberIsNew, NumberIsNext, NumberIsTaken,
               CurrentIsLast, Distinct, Succeeded
    <2>2. CASE deps' # deps
        <3>1. \A i \in DOMAIN deps' : ~Succeeded(i)'
            BY <1>6, <2>2
        <3>2. run.at = "build" => deps'[run.dep].num = deps[run.dep].num
            BY <1>6 DEF IInv, Typed, Bounded
        <3> QED
            BY <1>1, <3>1, <3>2
               DEF IInv, Numbers, RunIsNotRolledBack, NumberIsNew, NumberIsNext, NumberIsTaken,
                   CurrentIsLast, Distinct
    <2> QED
        BY <2>1, <2>2
<1>9. Layout'
    <2> SUFFICES ASSUME Undisturbed' PROVE Layout'
        BY DEF Layout
    <2>1. Undisturbed /\ OneAtATime /\ Routed /\ Staged /\ Settled /\ Running /\ Removed
        BY <1>1 DEF IInv, Layout, Undisturbed
    <2>2. ~row'.there
        BY <1>1 DEF Undisturbed
    <2>3. /\ run.at = "idle" /\ (site = None \/ mishaps' \cap {"stray", "leftHost"} # {})
          /\ "leftProcess" \in mishaps' \/ (live["main"] = None /\ file["main"] = None)
        BY <1>1, <2>1 DEF OneAtATime, Routed, Removed
    <2>4. "leftRows" \in mishaps' \/ \A i \in DOMAIN deps' : deps'[i].status = "gone"
        BY <1>4
    <2> QED
        BY <1>1, <2>1, <2>2, <2>3, <2>4
           DEF Layout, OneAtATime, Routed, Staged, Settled, Leftover, Running, Alive, Serving,
               Removed, Building, Zero
<1> QED
    BY <1>7, <1>8, <1>9 DEF IInv

-----------------------------------------------------------------------------
LEMMA InitIInv == Init => IInv
<1> SUFFICES ASSUME Init PROVE IInv
    OBVIOUS
<1>1. Typed /\ RollbackHasNumber
    BY DeploysAssumption
       DEF Init, Typed, Bounded, RollbackHasNumber, Row, Run, Op, Deployments, Files, Processes,
           Idle, NoOp, Nowhere, Stage, Asked, Port, Name
<1>2. Numbers
    BY DEF Init, Numbers, RunIsNotRolledBack, NumberIsNew, NumberIsNext, NumberIsTaken,
           CurrentIsLast, Distinct, Succeeded, Idle, NoOp
<1>3. Layout
    BY Ports
       DEF Init, Layout, OneAtATime, Routed, Staged, Settled, Running, Alive, Serving, Removed, Idle,
           NoOp, Nowhere, Building, Zero, Name
<1> QED
    BY <1>1, <1>2, <1>3 DEF IInv

LEMMA StepIInv == IInv /\ [Next]_vars => IInv'
<1> SUFFICES ASSUME IInv, [Next]_vars PROVE IInv'
    OBVIOUS
<1>1. CASE Next
    BY <1>1, ChooseKeeps, DeployFailsKeeps, FirstKeeps, ExitedKeeps, StartedKeeps, ProxyKeeps,
       RecordHostKeeps,
       StageUpKeeps, StageFailsKeeps, ProbeKeeps, SwitchKeeps, PromoteUnitKeeps,
       PromoteContainerKeeps, FinishKeeps, StartKeeps, StopKeeps, WriteStatusKeeps,
       RestoreContainerKeeps, RestoreUnitKeeps, VerifyKeeps, DeleteKeeps, DeleteProcessKeeps,
       DeleteHostKeeps, CrashKeeps, ReadKeeps, RecordKeeps, BuildFailsKeeps, BuiltKeeps,
       RollbackKeeps, MarkKeeps, DeleteRowsKeeps
       DEF Next, RunStep, OpStep
<1>2. CASE UNCHANGED vars
    <2>1. Typed' /\ RollbackHasNumber'
        BY <1>2 DEF IInv, Typed, Bounded, RollbackHasNumber, vars, procs, bounds
    <2>2. Numbers'
        BY <1>2, NumbersKept DEF IInv, vars, procs, bounds
    <2>3. Layout'
        BY <1>2
           DEF IInv, Layout, Undisturbed, OneAtATime, Routed, Staged, Settled, Leftover,
               Running, Alive, Serving, Removed, vars, procs, bounds
    <2> QED
        BY <2>1, <2>2, <2>3 DEF IInv
<1> QED
    BY <1>1, <1>2

(* The numbers of a project's builds and the layout of its processes, in   *)
(* every reachable state.                                                  *)
THEOREM Invariance == Spec => []IInv
<1> QED
    BY InitIInv, StepIInv, PTL DEF Spec

(* Every variable keeps its type.                                          *)
THEOREM TypeCorrect == Spec => []TypeOK
<1>1. IInv => TypeOK
    BY DeploysAssumption, DeploymentsFacts
       DEF IInv, Typed, Bounded, TypeOK, Row, Deployment, Files, Processes, Verdict
<1> QED
    BY <1>1, Invariance, PTL

(* A project that is said to run is served, through any number of deploys, *)
(* switches, stops, starts and rollbacks: its port answers, or the program  *)
(* started under the main name does not listen, which a first deploy, a     *)
(* start or a rollback takes for running.                                   *)
THEOREM TrafficIsServed == Spec => []TrafficFollowsPort
<1>1. IInv => TrafficFollowsPort
    BY Ports
       DEF IInv, Typed, Row, TrafficFollowsPort, Quiet, Served, Layout, OneAtATime, Routed,
           Running, Alive, Serving
<1> QED
    BY <1>1, Invariance, PTL

(* A project that answered when the deploy began answers at every moment   *)
(* of it.                                                                  *)
THEOREM DeploysHaveNoDowntime == Spec => []ZeroDowntime
<1>1. IInv => ZeroDowntime
    BY Ports
       DEF IInv, Typed, Row, ZeroDowntime, Served, Layout, OneAtATime, Routed, Staged, Zero,
           Alive, Name
<1> QED
    BY <1>1, Invariance, PTL

(* Of the deployments with a number, one at most can be rolled back to.    *)
THEOREM NumbersAreNotReused == Spec => []OneSuccessPerNumber
<1>1. IInv => OneSuccessPerNumber
    BY DEF IInv, Numbers, Distinct, Succeeded, OneSuccessPerNumber
<1> QED
    BY <1>1, Invariance, PTL

(* What is left of a deleted project that nothing overlapped is only what   *)
(* an ignored error left, a host no row named, or the process of a renamed  *)
(* staging unit.                                                            *)
THEOREM DeletionIsComplete == Spec => []DeletedLeavesNothing
<1>1. IInv => DeletedLeavesNothing
    <2> SUFFICES ASSUME IInv, Quiet, ~row.there, Undisturbed
                 PROVE  DeletedLeavesNothing
        BY DEF DeletedLeavesNothing
    <2>1. Routed /\ Settled /\ Removed
        BY DEF IInv, Layout, Undisturbed
    <2>2. mishaps \cap {"promoted", "leftProcess"} = {} => file = Nowhere /\ live = Nowhere
        <3> SUFFICES ASSUME mishaps \cap {"promoted", "leftProcess"} = {}
                     PROVE  file = Nowhere /\ live = Nowhere
            OBVIOUS
        <3>1. \A n \in Name : file[n] = None /\ live[n] = None
            BY <2>1 DEF Quiet, Settled, Leftover, Removed, Name
        <3> QED
            BY <3>1 DEF IInv, Typed, Files, Processes, Nowhere
    <2> QED
        BY <2>1, <2>2 DEF DeletedLeavesNothing, Routed, Removed, Quiet
<1> QED
    BY <1>1, Invariance, PTL

-----------------------------------------------------------------------------
(* What the update helper installs is whole.  The proof needs to know what *)
(* Prepare may not touch: the version that is prepared, and the version a  *)
(* helper waits to install, which Prepare never fetches again because it   *)
(* is older than the release or recorded as prepared.                      *)

PrepRecord == [at : {"idle", "download", "extract", "stage"}, version : Nat]
HelperRecord ==
    [at : {"none", "wait", "swap", "launch", "done", "failed", "killed"}, version : Nat]

UpdaterTypes ==
    /\ latest \in Updates!Version /\ prepared \in 0..MaxVersion /\ panel \in Int
    /\ exe \in [version : Updates!Version, whole : BOOLEAN]
    /\ staged \in [Updates!Version -> {"absent", "partial", "whole"}]
    /\ writer \in [Updates!Version -> Request \cup {Updates!Nobody}]
    /\ prep \in [Request -> PrepRecord]
    /\ \A p \in Request : prep[p].at # "idle" => prep[p].version \in Updates!Version
    /\ helper \in [Helper -> HelperRecord]
    /\ \A h \in Helper : Updates!Busy(h) => helper[h].version \in Updates!Version
    /\ asUnit \in BOOLEAN /\ exiting \in BOOLEAN /\ overlapped \in BOOLEAN

Preparing(p) == prep[p].at # "idle"

(* Prepare and the helpers are alone so long as nothing overlapped. *)
Alone ==
    /\ \A p, q \in Request : Preparing(p) /\ Preparing(q) => p = q
    /\ \A h, k \in Helper : Updates!Busy(h) /\ Updates!Busy(k) => h = k

(* A panel that is down prepares nothing; a unit's takes its helpers along. *)
DownIsIdle ==
    panel = 0 =>
        /\ prepared = 0 /\ \A p \in Request : ~Preparing(p)
        /\ asUnit => \A h \in Helper : ~Updates!Busy(h)

PreparedIsWhole ==
    /\ prepared <= latest
    /\ prepared # 0 => staged[prepared] = "whole"

PrepareIsNewer ==
    \A p \in Request : Preparing(p) =>
        /\ prep[p].version <= latest /\ prep[p].version > prepared
        /\ prep[p].at = "extract" =>
              staged[prep[p].version] = "partial" /\ writer[prep[p].version] = p
        /\ prep[p].at = "stage" => staged[prep[p].version] = "whole"

HelpersVersion ==
    \A h \in Helper :
        /\ helper[h].at \in {"wait", "swap"} =>
              /\ staged[helper[h].version] = "whole"
              /\ panel # 0 => helper[h].version = prepared \/ helper[h].version < latest
              /\ helper[h].version <= latest
              /\ \A p \in Request : Preparing(p) => prep[p].version > helper[h].version
        /\ helper[h].at \in {"swap", "launch"} => panel = 0

UpdateInOrder ==
    /\ exe.whole /\ Alone /\ DownIsIdle /\ PreparedIsWhole /\ PrepareIsNewer /\ HelpersVersion

UpdaterInv == UpdaterTypes /\ (~overlapped => UpdateInOrder)

-----------------------------------------------------------------------------
LEMMA InitUpdaterInv == Updates!UpdaterAssumption /\ Updates!Init => UpdaterInv
<1> SUFFICES ASSUME Updates!UpdaterAssumption, Updates!Init PROVE UpdaterInv
    OBVIOUS
<1>1. 1 \in Updates!Version /\ latest \in Updates!Version /\ MaxVersion \in Nat
    BY DEF Updates!UpdaterAssumption, Updates!Init, Updates!Version
<1>2. /\ \A p \in Request : prep[p].at = "idle" /\ prep[p].version = 0
      /\ \A h \in Helper : helper[h].at = "none" /\ helper[h].version = 0
    BY DEF Updates!Init, Updates!NoPrep, Updates!NoHelper
<1>3. UpdaterTypes
    <2>1. Updates!NoPrep \in PrepRecord /\ Updates!NoHelper \in HelperRecord
        BY DEF Updates!NoPrep, Updates!NoHelper, PrepRecord, HelperRecord
    <2>2. prep \in [Request -> PrepRecord] /\ helper \in [Helper -> HelperRecord]
        BY <2>1 DEF Updates!Init
    <2>3. /\ staged \in [Updates!Version -> {"absent", "partial", "whole"}]
          /\ writer \in [Updates!Version -> Request \cup {Updates!Nobody}]
        BY DEF Updates!Init
    <2>4. prepared \in 0..MaxVersion /\ panel \in Int
        BY <1>1 DEF Updates!Init
    <2>5. exe \in [version : Updates!Version, whole : BOOLEAN]
        BY <1>1 DEF Updates!Init
    <2>6. asUnit \in BOOLEAN /\ exiting \in BOOLEAN /\ overlapped \in BOOLEAN
        BY DEF Updates!Init
    <2> QED
        BY <1>1, <1>2, <2>2, <2>3, <2>4, <2>5, <2>6 DEF UpdaterTypes, Updates!Busy
<1>4. UpdateInOrder
    BY <1>1, <1>2
       DEF Updates!Init, UpdateInOrder, Alone, DownIsIdle, PreparedIsWhole, PrepareIsNewer,
           HelpersVersion, Updates!Busy, Preparing, Updates!Version
<1> QED
    BY <1>3, <1>4 DEF UpdaterInv

-----------------------------------------------------------------------------
(* One request of Prepare moves on, one helper moves on. *)

LEMMA PrepMoves ==
    ASSUME UpdaterTypes, NEW p \in Request, NEW to \in PrepRecord,
           to.at # "idle" => to.version \in Updates!Version,
           prep' = [prep EXCEPT ![p] = to]
    PROVE  /\ prep' \in [Request -> PrepRecord]
           /\ \A q \in Request : prep'[q] = IF q = p THEN to ELSE prep[q]
           /\ \A q \in Request : prep'[q].at # "idle" => prep'[q].version \in Updates!Version
<1>1. \A q \in Request : prep'[q] = IF q = p THEN to ELSE prep[q]
    BY DEF UpdaterTypes
<1> QED
    BY <1>1 DEF UpdaterTypes

LEMMA HelperMoves ==
    ASSUME UpdaterTypes, NEW h \in Helper, NEW to \in HelperRecord,
           to.version \in Updates!Version, helper' = [helper EXCEPT ![h] = to]
    PROVE  /\ helper' \in [Helper -> HelperRecord]
           /\ \A k \in Helper : helper'[k] = IF k = h THEN to ELSE helper[k]
           /\ \A k \in Helper : Updates!Busy(k)' => helper'[k].version \in Updates!Version
<1>1. \A k \in Helper : helper'[k] = IF k = h THEN to ELSE helper[k]
    BY DEF UpdaterTypes
<1> QED
    BY <1>1 DEF UpdaterTypes, Updates!Busy

LEMMA VersionFacts ==
    ASSUME Updates!UpdaterAssumption
    PROVE  /\ MaxVersion \in Nat /\ MaxVersion > 0
           /\ \A v \in Updates!Version : v \in Nat /\ v > 0 /\ v <= MaxVersion
BY DEF Updates!UpdaterAssumption, Updates!Version

(* Where the other variables do not move, the types need these three. *)
LEMMA PrepareTypes ==
    ASSUME UpdaterTypes, UNCHANGED Updates!other, prepared' \in 0..MaxVersion,
           overlapped' \in BOOLEAN,
           staged' \in [Updates!Version -> {"absent", "partial", "whole"}],
           writer' \in [Updates!Version -> Request \cup {Updates!Nobody}],
           prep' \in [Request -> PrepRecord],
           \A q \in Request : prep'[q].at # "idle" => prep'[q].version \in Updates!Version
    PROVE  UpdaterTypes'
BY DEF UpdaterTypes, Updates!other, Updates!installed, Updates!Busy

LEMMA FetchKeeps ==
    ASSUME Updates!UpdaterAssumption, UpdaterInv, NEW p \in Request, Updates!Fetch(p)
    PROVE  UpdaterInv'
<1> DEFINE to == [at |-> "download", version |-> latest]
<1>1. UpdaterTypes /\ \A v \in Updates!Version : v \in Nat /\ v > 0 /\ v <= MaxVersion
    BY VersionFacts DEF UpdaterInv
<1>2. /\ prep' = [prep EXCEPT ![p] = to] /\ UNCHANGED <<Updates!other, Updates!files, prepared>>
      /\ overlapped' = (overlapped \/ \E q \in Request : Preparing(q))
      /\ panel # 0 /\ latest > panel
      /\ prepared # latest \/ staged[latest] = "absent"
    BY DEF Updates!Fetch, Updates!Begin, Preparing
<1>3. to \in PrepRecord /\ to.version \in Updates!Version /\ to.at = "download"
         /\ to.version = latest
    BY <1>1 DEF UpdaterTypes, PrepRecord
<1>4. /\ prep' \in [Request -> PrepRecord]
      /\ \A q \in Request : prep'[q] = IF q = p THEN to ELSE prep[q]
      /\ \A q \in Request : prep'[q].at # "idle" => prep'[q].version \in Updates!Version
    BY <1>1, <1>2, <1>3, PrepMoves
<1>5. UpdaterTypes'
    BY <1>1, <1>2, <1>4, PrepareTypes DEF UpdaterTypes, Updates!files
<1>6. ASSUME ~overlapped' PROVE UpdateInOrder'
    <2>1. UpdateInOrder /\ \A q \in Request : ~Preparing(q)
        BY <1>2, <1>6 DEF UpdaterInv
    <2>2. latest > prepared
        BY <1>1, <1>2, <2>1, VersionFacts DEF UpdateInOrder, PreparedIsWhole, UpdaterTypes
    <2>3. \A h \in Helper : helper[h].at \in {"wait", "swap"} => helper[h].version < latest
        BY <1>1, <1>2, <2>1, <2>2 DEF UpdateInOrder, HelpersVersion, UpdaterTypes
    <2>4. \A q \in Request : Preparing(q)' => q = p
        BY <1>4, <2>1 DEF Preparing
    <2>5. Alone' /\ exe'.whole
        BY <1>2, <2>1, <2>4
           DEF UpdateInOrder, Alone, Updates!other, Updates!installed, Updates!Busy
    <2>6. DownIsIdle' /\ PreparedIsWhole'
        BY <1>2, <2>1
           DEF UpdateInOrder, DownIsIdle, PreparedIsWhole, Updates!files, Updates!other
    <2>7. PrepareIsNewer'
        BY <1>2, <1>3, <1>4, <2>2, <2>4, <1>1
           DEF PrepareIsNewer, Updates!files, Updates!other, UpdaterTypes
    <2>8. HelpersVersion'
        BY <1>2, <1>3, <1>4, <2>1, <2>3, <2>4
           DEF UpdateInOrder, HelpersVersion, Updates!files, Updates!other
    <2> QED
        BY <2>5, <2>6, <2>7, <2>8 DEF UpdateInOrder
<1> QED
    BY <1>5, <1>6 DEF UpdaterInv

(* A step of one request that is alone: it goes on with the version it     *)
(* prepares or ends, and touches no other version's file.                  *)
LEMMA PrepareStep ==
    ASSUME Updates!UpdaterAssumption, UpdaterInv, NEW p \in Request, Preparing(p),
           UNCHANGED <<Updates!other, overlapped>>,
           NEW to \in PrepRecord, prep' = [prep EXCEPT ![p] = to],
           to.at # "idle" => to.version = prep[p].version,
           staged' \in [Updates!Version -> {"absent", "partial", "whole"}],
           writer' \in [Updates!Version -> Request \cup {Updates!Nobody}],
           \A v \in Updates!Version : v # prep[p].version => staged'[v] = staged[v],
           \/ prepared' = prepared
           \/ prepared' = prep[p].version /\ to.at = "idle" /\ staged'[prepared'] # "absent",
           to.at = "extract" => staged'[to.version] = "partial" /\ writer'[to.version] = p,
           ~overlapped => (to.at = "stage" => staged'[to.version] = "whole"),
           ~overlapped /\ prepared' # prepared => staged'[prepared'] = "whole"
    PROVE  UpdaterInv'
<1>1. UpdaterTypes /\ \A v \in Updates!Version : v \in Nat /\ v > 0 /\ v <= MaxVersion
    BY VersionFacts DEF UpdaterInv
<1>2. prep[p].version \in Updates!Version /\ prep[p] \in PrepRecord /\ prep[p].at # "idle"
    BY <1>1 DEF UpdaterTypes, Preparing
<1>3. /\ prep' \in [Request -> PrepRecord]
      /\ \A q \in Request : prep'[q] = IF q = p THEN to ELSE prep[q]
      /\ \A q \in Request : prep'[q].at # "idle" => prep'[q].version \in Updates!Version
    BY <1>1, <1>2, PrepMoves
<1>4. prepared' \in 0..MaxVersion
    BY <1>1, <1>2, VersionFacts DEF UpdaterTypes
<1>5. UpdaterTypes'
    BY <1>1, <1>3, <1>4, PrepareTypes DEF UpdaterTypes
<1>6. ASSUME ~overlapped' PROVE UpdateInOrder'
    <2>1. UpdateInOrder /\ \A q \in Request : Preparing(q) => q = p
        BY <1>6 DEF UpdaterInv, UpdateInOrder, Alone
    <2>2. prep[p].version <= latest /\ prep[p].version > prepared
        BY <2>1 DEF UpdateInOrder, PrepareIsNewer
    <2>3. \A q \in Request : Preparing(q)' => q = p /\ to.at # "idle" /\ prep'[q] = to
        BY <1>3, <2>1 DEF Preparing
    <2>4. Alone' /\ exe'.whole
        BY <2>1, <2>3 DEF UpdateInOrder, Alone, Updates!other, Updates!installed, Updates!Busy
    <2>5. DownIsIdle'
        BY <2>1 DEF UpdateInOrder, DownIsIdle, Updates!other, Updates!Busy
    <2>6. PreparedIsWhole'
        <3>1. CASE prepared' = prepared
            <4>1. prepared # 0 => prepared \in Updates!Version /\ prepared # prep[p].version
                BY <1>1, <1>2, <2>2, VersionFacts DEF UpdaterTypes, Updates!Version
            <4> QED
                BY <2>1, <3>1, <4>1 DEF UpdateInOrder, PreparedIsWhole, Updates!other
        <3>2. CASE prepared' # prepared
            BY <1>6, <2>2, <3>2 DEF PreparedIsWhole, Updates!other
        <3> QED
            BY <3>1, <3>2
    <2>7. PrepareIsNewer'
        BY <1>2, <1>6, <2>2, <2>3 DEF PrepareIsNewer, Updates!other
    <2>8. HelpersVersion'
        <3> SUFFICES ASSUME NEW h \in Helper
                     PROVE  /\ helper'[h].at \in {"wait", "swap"} =>
                                  /\ staged'[helper'[h].version] = "whole"
                                  /\ panel' # 0 => \/ helper'[h].version = prepared'
                                                  \/ helper'[h].version < latest'
                                  /\ helper'[h].version <= latest'
                                  /\ \A q \in Request :
                                        Preparing(q)' => prep'[q].version > helper'[h].version
                            /\ helper'[h].at \in {"swap", "launch"} => panel' = 0
            BY DEF HelpersVersion
        <3>2. helper'[h].at \in {"swap", "launch"} => panel' = 0
            BY <2>1 DEF UpdateInOrder, HelpersVersion, Updates!other
        <3>3. ASSUME helper'[h].at \in {"wait", "swap"}
              PROVE  /\ staged'[helper'[h].version] = "whole"
                     /\ panel' # 0 =>
                          helper'[h].version = prepared' \/ helper'[h].version < latest'
                     /\ helper'[h].version <= latest'
                     /\ \A q \in Request : Preparing(q)' => prep'[q].version > helper'[h].version
            <4>1. /\ helper[h].at \in {"wait", "swap"} /\ helper' = helper /\ latest' = latest
                  /\ panel' = panel /\ helper[h].version \in Updates!Version
                BY <1>1, <3>3 DEF Updates!other, UpdaterTypes, Updates!Busy
            <4>2. /\ staged[helper[h].version] = "whole" /\ helper[h].version <= latest
                  /\ prep[p].version > helper[h].version
                  /\ panel # 0 => helper[h].version = prepared \/ helper[h].version < latest
                BY <2>1, <4>1 DEF UpdateInOrder, HelpersVersion
            <4>3. helper[h].version < latest /\ helper[h].version # prep[p].version
                BY <1>1, <1>2, <2>2, <4>1, <4>2 DEF UpdaterTypes
            <4> QED
                BY <2>3, <4>1, <4>2, <4>3
        <3> QED
            BY <3>2, <3>3
    <2> QED
        BY <2>4, <2>5, <2>6, <2>7, <2>8 DEF UpdateInOrder
<1> QED
    BY <1>5, <1>6 DEF UpdaterInv

LEMMA PrepareKeeps ==
    ASSUME Updates!UpdaterAssumption, UpdaterInv, NEW p \in Request, Updates!Prepare(p)
    PROVE  UpdaterInv'
<1>1. UpdaterTypes /\ \A v \in Updates!Version : v \in Nat /\ v > 0 /\ v <= MaxVersion
    BY VersionFacts DEF UpdaterInv
<1>2. /\ Updates!NoPrep \in PrepRecord /\ Updates!NoPrep.at = "idle" /\ prep[p] \in PrepRecord
      /\ Preparing(p) => prep[p].version \in Updates!Version
    BY <1>1 DEF Updates!NoPrep, PrepRecord, UpdaterTypes, Preparing
<1>3. \A at \in {"extract", "stage"} :
        LET to == [prep[p] EXCEPT !.at = at] IN
        to \in PrepRecord /\ to.at = at /\ to.version = prep[p].version
    BY <1>2 DEF PrepRecord
<1>4. /\ staged \in [Updates!Version -> {"absent", "partial", "whole"}]
      /\ writer \in [Updates!Version -> Request \cup {Updates!Nobody}]
    BY <1>1 DEF UpdaterTypes
<1>5. CASE Updates!Fetch(p)
    BY <1>5, FetchKeeps
<1>6. CASE Updates!DownloadFails(p)
    <2>1. /\ Preparing(p) /\ prep' = [prep EXCEPT ![p] = Updates!NoPrep]
          /\ UNCHANGED <<Updates!other, Updates!files, prepared, overlapped>>
        BY <1>6 DEF Updates!DownloadFails, Updates!EndPrep, Preparing
    <2> QED
        BY <1>2, <1>4, <2>1, PrepareStep DEF Updates!files
<1>7. CASE Updates!Download(p)
    <2> DEFINE to == [prep[p] EXCEPT !.at = "extract"]
    <2>1. /\ Preparing(p) /\ prep' = [prep EXCEPT ![p] = to]
          /\ UNCHANGED <<Updates!other, prepared, overlapped>>
          /\ staged' = [staged EXCEPT ![prep[p].version] = "partial"]
          /\ writer' = [writer EXCEPT ![prep[p].version] = p]
        BY <1>7 DEF Updates!Download, Preparing
    <2>2. to \in PrepRecord /\ to.at = "extract" /\ to.version = prep[p].version
        BY <1>3
    <2>3. /\ staged' \in [Updates!Version -> {"absent", "partial", "whole"}]
          /\ writer' \in [Updates!Version -> Request \cup {Updates!Nobody}]
          /\ \A v \in Updates!Version : v # prep[p].version => staged'[v] = staged[v]
          /\ staged'[to.version] = "partial" /\ writer'[to.version] = p
        BY <1>2, <1>4, <2>1, <2>2
    <2> HIDE DEF to
    <2> QED
        BY <2>1, <2>2, <2>3, PrepareStep
<1>8. CASE Updates!Extracted(p)
    <2> DEFINE to == [prep[p] EXCEPT !.at = "stage"]
    <2>1. /\ Preparing(p) /\ prep[p].at = "extract" /\ prep' = [prep EXCEPT ![p] = to]
          /\ UNCHANGED <<Updates!other, writer, prepared, overlapped>>
          /\ staged' = IF writer[prep[p].version] = p /\ staged[prep[p].version] = "partial"
                       THEN [staged EXCEPT ![prep[p].version] = "whole"] ELSE staged
        BY <1>8 DEF Updates!Extracted, Preparing
    <2>2. to \in PrepRecord /\ to.at = "stage" /\ to.version = prep[p].version
        BY <1>3
    <2>3. ~overlapped => staged'[to.version] = "whole"
        BY <1>2, <1>4, <2>1, <2>2 DEF UpdaterInv, UpdateInOrder, PrepareIsNewer
    <2>4. /\ staged' \in [Updates!Version -> {"absent", "partial", "whole"}]
          /\ writer' \in [Updates!Version -> Request \cup {Updates!Nobody}]
          /\ \A v \in Updates!Version : v # prep[p].version => staged'[v] = staged[v]
        BY <1>2, <1>4, <2>1
    <2> HIDE DEF to
    <2> QED
        BY <2>1, <2>2, <2>3, <2>4, PrepareStep
<1>9. CASE Updates!ExtractFails(p)
    <2>1. /\ Preparing(p) /\ prep' = [prep EXCEPT ![p] = Updates!NoPrep]
          /\ UNCHANGED <<Updates!other, writer, prepared, overlapped>>
          /\ staged' = [staged EXCEPT ![prep[p].version] = "absent"]
        BY <1>9 DEF Updates!ExtractFails, Updates!EndPrep, Preparing
    <2>2. /\ staged' \in [Updates!Version -> {"absent", "partial", "whole"}]
          /\ \A v \in Updates!Version : v # prep[p].version => staged'[v] = staged[v]
        BY <1>2, <1>4, <2>1
    <2> QED
        BY <1>2, <1>4, <2>1, <2>2, PrepareStep
<1>10. CASE Updates!Stage(p)
    <2>1. /\ Preparing(p) /\ prep[p].at = "stage" /\ prep' = [prep EXCEPT ![p] = Updates!NoPrep]
          /\ UNCHANGED <<Updates!other, Updates!files, overlapped>>
          /\ prepared' = IF staged[prep[p].version] = "absent" THEN prepared
                         ELSE prep[p].version
        BY <1>10 DEF Updates!Stage, Updates!EndPrep, Preparing
    <2>2. ~overlapped => staged[prep[p].version] = "whole"
        BY <2>1 DEF UpdaterInv, UpdateInOrder, PrepareIsNewer
    <2> QED
        BY <1>2, <1>4, <2>1, <2>2, PrepareStep DEF Updates!files
<1> QED
    BY <1>5, <1>6, <1>7, <1>8, <1>9, <1>10 DEF Updates!Prepare

-----------------------------------------------------------------------------
LEMMA ReleaseKeeps ==
    ASSUME Updates!UpdaterAssumption, UpdaterInv, Updates!Release
    PROVE  UpdaterInv'
<1>1. UpdaterTypes /\ \A v \in Updates!Version : v \in Nat /\ v > 0 /\ v <= MaxVersion
    BY VersionFacts DEF UpdaterInv
<1>2. /\ latest' = latest + 1 /\ latest' \in Updates!Version
      /\ UNCHANGED <<Updates!files, prep, prepared, Updates!installed, panel, asUnit, helper,
         exiting, overlapped>>
    BY <1>1, VersionFacts DEF Updates!Release, UpdaterTypes, Updates!Version
<1>3. UpdaterTypes'
    BY <1>1, <1>2 DEF UpdaterTypes, Updates!files, Updates!installed, Updates!Busy
<1>4. ASSUME ~overlapped' PROVE UpdateInOrder'
    <2>1. UpdateInOrder
        BY <1>2, <1>4 DEF UpdaterInv
    <2>2. exe'.whole /\ Alone' /\ DownIsIdle'
        BY <1>2, <2>1
           DEF UpdateInOrder, Alone, DownIsIdle, Updates!installed, Updates!Busy, Preparing
    <2>3. PreparedIsWhole'
        BY <1>1, <1>2, <2>1 DEF UpdateInOrder, PreparedIsWhole, Updates!files, UpdaterTypes
    <2>4. /\ \A v \in Updates!Version : v <= latest => v <= latest'
          /\ \A v \in Updates!Version : v < latest => v < latest'
          /\ \A p \in Request : Preparing(p) => prep[p].version \in Updates!Version
          /\ \A h \in Helper : Updates!Busy(h) => helper[h].version \in Updates!Version
        BY <1>1, <1>2 DEF UpdaterTypes, Preparing
    <2>5. PrepareIsNewer'
        BY <1>2, <2>1, <2>4 DEF UpdateInOrder, PrepareIsNewer, Updates!files, Preparing
    <2>6. HelpersVersion'
        BY <1>2, <2>1, <2>4
           DEF UpdateInOrder, HelpersVersion, Updates!files, Preparing, Updates!Busy
    <2> QED
        BY <2>2, <2>3, <2>5, <2>6 DEF UpdateInOrder
<1> QED
    BY <1>3, <1>4 DEF UpdaterInv

LEMMA PanelEndsKeeps ==
    ASSUME Updates!UpdaterAssumption, UpdaterInv, Updates!PanelEnds
    PROVE  UpdaterInv'
<1>1. UpdaterTypes /\ \A v \in Updates!Version : v \in Nat /\ v > 0 /\ v <= MaxVersion
    BY VersionFacts DEF UpdaterInv
<1>2. /\ panel' = 0 /\ prepared' = 0 /\ exiting' = FALSE
      /\ prep' = [p \in Request |-> Updates!NoPrep]
      /\ UNCHANGED <<latest, Updates!files, Updates!installed, asUnit, overlapped>>
    BY DEF Updates!PanelEnds
<1>3. Updates!NoPrep \in PrepRecord /\ Updates!NoPrep.at = "idle"
    BY DEF Updates!NoPrep, PrepRecord
<1>4. prep' \in [Request -> PrepRecord] /\ \A p \in Request : prep'[p].at = "idle"
    BY <1>2, <1>3
<1>5. /\ helper' \in [Helper -> HelperRecord]
      /\ \A h \in Helper : Updates!Busy(h)' => helper'[h] = helper[h] /\ Updates!Busy(h) /\ ~asUnit
    <2>1. CASE asUnit
        <3>1. \A h \in Helper : [helper[h] EXCEPT !.at = "killed"] \in HelperRecord
                                /\ [helper[h] EXCEPT !.at = "killed"].at = "killed"
            BY <1>1 DEF UpdaterTypes, HelperRecord
        <3>2. \A h \in Helper : helper'[h] = IF Updates!Busy(h) THEN [helper[h] EXCEPT !.at = "killed"]
                                             ELSE helper[h]
            BY <2>1 DEF Updates!PanelEnds, Updates!Killed
        <3>3. helper' \in [Helper -> HelperRecord]
            BY <1>1, <2>1, <3>1 DEF Updates!PanelEnds, Updates!Killed, UpdaterTypes
        <3> QED
            BY <3>1, <3>2, <3>3 DEF Updates!Busy
    <2>2. CASE ~asUnit
        BY <1>1, <2>2 DEF Updates!PanelEnds, Updates!Busy, UpdaterTypes
    <2> QED
        BY <2>1, <2>2
<1>6. UpdaterTypes'
    <2>1. prepared' \in 0..MaxVersion /\ panel' \in Int
        BY <1>2, VersionFacts
    <2>2. \A h \in Helper : Updates!Busy(h)' => helper'[h].version \in Updates!Version
        BY <1>1, <1>5 DEF UpdaterTypes
    <2>3. \A p \in Request : prep'[p].at # "idle" => prep'[p].version \in Updates!Version
        BY <1>4
    <2>4. /\ latest' \in Updates!Version /\ exe' \in [version : Updates!Version, whole : BOOLEAN]
          /\ staged' \in [Updates!Version -> {"absent", "partial", "whole"}]
          /\ writer' \in [Updates!Version -> Request \cup {Updates!Nobody}]
          /\ asUnit' \in BOOLEAN /\ overlapped' \in BOOLEAN
        BY <1>1, <1>2 DEF UpdaterTypes, Updates!files, Updates!installed
    <2> QED
        BY <1>2, <1>4, <1>5, <2>1, <2>2, <2>3, <2>4 DEF UpdaterTypes
<1>7. ASSUME ~overlapped' PROVE UpdateInOrder'
    <2>1. UpdateInOrder
        BY <1>2, <1>7 DEF UpdaterInv
    <2>2. exe'.whole /\ Alone'
        BY <1>2, <1>4, <1>5, <2>1 DEF UpdateInOrder, Alone, Preparing, Updates!installed
    <2>3. DownIsIdle' /\ PreparedIsWhole' /\ PrepareIsNewer'
        BY <1>1, <1>2, <1>4, <1>5
           DEF DownIsIdle, Preparing, PreparedIsWhole, PrepareIsNewer, UpdaterTypes
    <2>4. HelpersVersion'
        BY <1>2, <1>4, <1>5, <2>1
           DEF UpdateInOrder, HelpersVersion, Updates!Busy, Updates!files, Preparing
    <2> QED
        BY <2>2, <2>3, <2>4 DEF UpdateInOrder
<1> QED
    BY <1>6, <1>7 DEF UpdaterInv

LEMMA PanelStartsKeeps ==
    ASSUME Updates!UpdaterAssumption, UpdaterInv, Updates!PanelStarts
    PROVE  UpdaterInv'
<1>1. UpdaterTypes /\ \A v \in Updates!Version : v \in Nat /\ v > 0 /\ v <= MaxVersion
    BY VersionFacts DEF UpdaterInv
<1>2. /\ panel' = exe.version /\ exe.version \in Updates!Version /\ panel = 0
      /\ asUnit \/ \A h \in Helper : ~Updates!Busy(h)
      /\ UNCHANGED <<latest, Updates!files, prep, prepared, Updates!installed, asUnit, helper,
         exiting, overlapped>>
    BY <1>1 DEF Updates!PanelStarts, UpdaterTypes
<1>3. UpdaterTypes'
    BY <1>1, <1>2 DEF UpdaterTypes, Updates!files, Updates!installed, Updates!Busy
<1>4. ASSUME ~overlapped' PROVE UpdateInOrder'
    <2>1. UpdateInOrder
        BY <1>2, <1>4 DEF UpdaterInv
    <2>2. \A h \in Helper : ~Updates!Busy(h)
        BY <1>2, <2>1 DEF UpdateInOrder, DownIsIdle
    <2>3. exe'.whole /\ Alone' /\ PreparedIsWhole' /\ PrepareIsNewer'
        BY <1>2, <2>1
           DEF UpdateInOrder, Alone, PreparedIsWhole, PrepareIsNewer, Updates!installed,
               Updates!files, Updates!Busy, Preparing
    <2>4. DownIsIdle' /\ HelpersVersion'
        BY <1>1, <1>2, <2>2 DEF DownIsIdle, HelpersVersion, Updates!Busy
    <2> QED
        BY <2>3, <2>4 DEF UpdateInOrder
<1> QED
    BY <1>3, <1>4 DEF UpdaterInv

-----------------------------------------------------------------------------
LEMMA RestartKeeps ==
    ASSUME Updates!UpdaterAssumption, UpdaterInv, NEW h \in Helper, Updates!Restart(h)
    PROVE  UpdaterInv'
<1> DEFINE to == [at |-> "wait", version |-> prepared]
<1>1. UpdaterTypes /\ \A v \in Updates!Version : v \in Nat /\ v > 0 /\ v <= MaxVersion
    BY VersionFacts DEF UpdaterInv
<1>2. /\ panel # 0 /\ prepared # 0 /\ exiting' = TRUE
      /\ helper' = [helper EXCEPT ![h] = to]
      /\ overlapped' = (overlapped \/ \E k \in Helper : Updates!Busy(k))
      /\ UNCHANGED <<latest, Updates!files, prep, prepared, Updates!installed, panel, asUnit>>
    BY DEF Updates!Restart
<1>3. to \in HelperRecord /\ to.version \in Updates!Version /\ to.at = "wait"
         /\ to.version = prepared
    BY <1>1, <1>2, VersionFacts DEF UpdaterTypes, HelperRecord, Updates!Version
<1>4. /\ helper' \in [Helper -> HelperRecord]
      /\ \A k \in Helper : helper'[k] = IF k = h THEN to ELSE helper[k]
      /\ \A k \in Helper : Updates!Busy(k)' => helper'[k].version \in Updates!Version
    BY <1>1, <1>2, <1>3, HelperMoves
<1> HIDE DEF to
<1>5. UpdaterTypes'
    BY <1>1, <1>2, <1>4 DEF UpdaterTypes, Updates!files, Updates!installed
<1>6. ASSUME ~overlapped' PROVE UpdateInOrder'
    <2>1. UpdateInOrder /\ \A k \in Helper : ~Updates!Busy(k)
        BY <1>2, <1>6 DEF UpdaterInv
    <2>2. \A k \in Helper : Updates!Busy(k)' => k = h
        BY <1>4, <2>1 DEF Updates!Busy
    <2>3. exe'.whole /\ Alone' /\ DownIsIdle' /\ PreparedIsWhole' /\ PrepareIsNewer'
        BY <1>2, <2>1, <2>2
           DEF UpdateInOrder, Alone, DownIsIdle, PreparedIsWhole, PrepareIsNewer,
               Updates!installed, Updates!files, Preparing
    <2>4. HelpersVersion'
        BY <1>2, <1>3, <1>4, <2>1, <2>2
           DEF UpdateInOrder, HelpersVersion, PreparedIsWhole, PrepareIsNewer, Updates!files,
               Preparing, Updates!Busy
    <2> QED
        BY <2>3, <2>4 DEF UpdateInOrder
<1> QED
    BY <1>5, <1>6 DEF UpdaterInv

(* A step of a helper that is alone. *)
LEMMA HelperStep ==
    ASSUME Updates!UpdaterAssumption, UpdaterInv, NEW h \in Helper, Updates!Busy(h),
           UNCHANGED <<latest, writer, prep, prepared, asUnit, exiting, overlapped>>,
           NEW to \in HelperRecord, helper' = [helper EXCEPT ![h] = to],
           to.version = helper[h].version,
           exe' \in [version : Updates!Version, whole : BOOLEAN], panel' \in Int,
           staged' \in [Updates!Version -> {"absent", "partial", "whole"}],
           ~overlapped => panel = 0 /\ exe'.whole,
           ~overlapped /\ to.at \in {"swap", "launch"} => panel' = 0,
           to.at # "wait", to.at = "swap" => staged' = staged /\ helper[h].at = "wait"
    PROVE  UpdaterInv'
<1>1. UpdaterTypes /\ \A v \in Updates!Version : v \in Nat /\ v > 0 /\ v <= MaxVersion
    BY VersionFacts DEF UpdaterInv
<1>2. helper[h].version \in Updates!Version
    BY <1>1 DEF UpdaterTypes
<1>3. /\ helper' \in [Helper -> HelperRecord]
      /\ \A k \in Helper : helper'[k] = IF k = h THEN to ELSE helper[k]
      /\ \A k \in Helper : Updates!Busy(k)' => helper'[k].version \in Updates!Version
    BY <1>1, <1>2, HelperMoves
<1>4. UpdaterTypes'
    BY <1>1, <1>3 DEF UpdaterTypes
<1>5. ASSUME ~overlapped' PROVE UpdateInOrder'
    <2>1. UpdateInOrder /\ panel = 0 /\ exe'.whole
        BY <1>5 DEF UpdaterInv
    <2>2. \A k \in Helper : Updates!Busy(k)' => k = h
        BY <1>3, <2>1 DEF UpdateInOrder, Alone, Updates!Busy
    <2>3. prepared = 0 /\ ~asUnit /\ \A p \in Request : ~Preparing(p)
        BY <1>1, <2>1 DEF UpdateInOrder, DownIsIdle, UpdaterTypes
    <2>4. Alone' /\ DownIsIdle' /\ PrepareIsNewer'
        BY <2>2, <2>3 DEF Alone, DownIsIdle, PrepareIsNewer, Preparing
    <2>5. PreparedIsWhole'
        BY <1>1, <2>3 DEF PreparedIsWhole, UpdaterTypes
    <2>6. HelpersVersion'
        <3> SUFFICES ASSUME NEW k \in Helper
                     PROVE  /\ helper'[k].at \in {"wait", "swap"} =>
                                  /\ staged'[helper'[k].version] = "whole"
                                  /\ panel' # 0 => \/ helper'[k].version = prepared'
                                                  \/ helper'[k].version < latest'
                                  /\ helper'[k].version <= latest'
                                  /\ \A q \in Request :
                                        Preparing(q)' => prep'[q].version > helper'[k].version
                            /\ helper'[k].at \in {"swap", "launch"} => panel' = 0
            BY DEF HelpersVersion
        <3>1. CASE k = h
            BY <1>3, <1>5, <2>1, <2>3, <3>1
               DEF UpdateInOrder, HelpersVersion, Updates!Busy, Preparing
        <3>2. CASE k # h
            BY <2>2, <3>2 DEF Updates!Busy
        <3> QED
            BY <3>1, <3>2
    <2> QED
        BY <2>1, <2>4, <2>5, <2>6 DEF UpdateInOrder
<1> QED
    BY <1>4, <1>5 DEF UpdaterInv

LEMMA HelperKeeps ==
    ASSUME Updates!UpdaterAssumption, UpdaterInv, NEW h \in Helper, Updates!Backup(h)
              \/ Updates!Swap(h) \/ Updates!Launch(h)
    PROVE  UpdaterInv'
<1>1. UpdaterTypes /\ \A v \in Updates!Version : v \in Nat /\ v > 0 /\ v <= MaxVersion
    BY VersionFacts DEF UpdaterInv
<1>2. \A at \in {"swap", "launch", "failed", "done"} :
        LET to == [helper[h] EXCEPT !.at = at] IN
        to \in HelperRecord /\ to.at = at /\ to.version = helper[h].version
    BY <1>1 DEF UpdaterTypes, HelperRecord
<1>3. /\ exe \in [version : Updates!Version, whole : BOOLEAN] /\ panel \in Int
      /\ staged \in [Updates!Version -> {"absent", "partial", "whole"}]
      /\ Updates!Busy(h) => helper[h].version \in Updates!Version
    BY <1>1 DEF UpdaterTypes
<1>4. ~overlapped => /\ exe.whole
                     /\ helper[h].at \in {"swap", "launch"} => panel = 0
                     /\ helper[h].at = "swap" => staged[helper[h].version] = "whole"
    BY DEF UpdaterInv, UpdateInOrder, HelpersVersion
<1>5. CASE Updates!Backup(h)
    <2> DEFINE to == [helper[h] EXCEPT !.at = "swap"]
    <2>1. /\ Updates!Busy(h) /\ helper[h].at = "wait" /\ panel = 0
          /\ helper' = [helper EXCEPT ![h] = to]
          /\ UNCHANGED <<latest, Updates!files, prep, prepared, exe, panel, asUnit, exiting,
             overlapped>>
        BY <1>5 DEF Updates!Backup, Updates!Busy
    <2>2. to \in HelperRecord /\ to.at = "swap" /\ to.version = helper[h].version
        BY <1>2
    <2> HIDE DEF to
    <2> QED
        BY <1>3, <1>4, <2>1, <2>2, HelperStep DEF Updates!files
<1>6. CASE Updates!Swap(h) /\ staged[helper[h].version] = "absent"
    <2> DEFINE to == [helper[h] EXCEPT !.at = "failed"]
    <2>1. /\ Updates!Busy(h) /\ helper[h].at = "swap" /\ helper' = [helper EXCEPT ![h] = to]
          /\ UNCHANGED <<latest, Updates!files, prep, prepared, exe, panel, asUnit, exiting,
             overlapped>>
        BY <1>6 DEF Updates!Swap, Updates!Busy, Updates!files
    <2>2. to \in HelperRecord /\ to.at = "failed" /\ to.version = helper[h].version
        BY <1>2
    <2> HIDE DEF to
    <2> QED
        BY <1>3, <1>4, <2>1, <2>2, HelperStep DEF Updates!files
<1>7. CASE Updates!Swap(h) /\ staged[helper[h].version] # "absent"
    <2> DEFINE to == [helper[h] EXCEPT !.at = "launch"]
               v == helper[h].version
    <2>1. /\ Updates!Busy(h) /\ helper[h].at = "swap" /\ helper' = [helper EXCEPT ![h] = to]
          /\ exe' = [version |-> v, whole |-> staged[v] = "whole"]
          /\ staged' = [staged EXCEPT ![v] = "absent"]
          /\ UNCHANGED <<latest, writer, prep, prepared, panel, asUnit, exiting, overlapped>>
        BY <1>7 DEF Updates!Swap, Updates!Busy
    <2>2. to \in HelperRecord /\ to.at = "launch" /\ to.version = v
        BY <1>2
    <2>3. exe' \in [version : Updates!Version, whole : BOOLEAN]
             /\ exe'.whole = (staged[v] = "whole")
        BY <1>3, <2>1
    <2>4. staged' \in [Updates!Version -> {"absent", "partial", "whole"}]
        BY <1>3, <2>1
    <2> HIDE DEF to
    <2> QED
        BY <1>3, <1>4, <2>1, <2>2, <2>3, <2>4, HelperStep
<1>8. CASE Updates!Launch(h)
    <2> DEFINE to == [helper[h] EXCEPT !.at = "done"]
    <2>1. /\ Updates!Busy(h) /\ helper[h].at = "launch" /\ helper' = [helper EXCEPT ![h] = to]
          /\ panel' = IF panel = 0 /\ exe.whole THEN exe.version ELSE panel
          /\ UNCHANGED <<latest, Updates!files, prep, prepared, exe, asUnit, exiting, overlapped>>
        BY <1>8 DEF Updates!Launch, Updates!Busy, Updates!installed
    <2>2. to \in HelperRecord /\ to.at = "done" /\ to.version = helper[h].version
        BY <1>2
    <2>3. panel' \in Int
        BY <1>1, <1>3, <2>1
    <2> HIDE DEF to
    <2> QED
        BY <1>3, <1>4, <2>1, <2>2, <2>3, HelperStep DEF Updates!files
<1> QED
    BY <1>5, <1>6, <1>7, <1>8

LEMMA UpdaterStep == Updates!UpdaterAssumption /\ UpdaterInv /\ [Updates!Next]_(Updates!vars)
   => UpdaterInv'
<1> SUFFICES ASSUME Updates!UpdaterAssumption, UpdaterInv, [Updates!Next]_(Updates!vars)
             PROVE UpdaterInv'
    OBVIOUS
<1>1. CASE Updates!Release
    BY <1>1, ReleaseKeeps
<1>2. CASE Updates!PanelExits \/ Updates!PanelCrashes
    BY <1>2, PanelEndsKeeps DEF Updates!PanelExits, Updates!PanelCrashes
<1>3. CASE Updates!PanelStarts
    BY <1>3, PanelStartsKeeps
<1>4. CASE \E p \in Request : Updates!Prepare(p)
    BY <1>4, PrepareKeeps
<1>5. CASE \E h \in Helper : Updates!Restart(h) \/ Updates!Backup(h) \/ Updates!Swap(h)
              \/ Updates!Launch(h)
    BY <1>5, RestartKeeps, HelperKeeps
<1>6. CASE UNCHANGED Updates!vars
    BY <1>6
       DEF Updates!vars, Updates!files, Updates!installed, UpdaterInv, UpdaterTypes,
           UpdateInOrder, Alone, DownIsIdle, PreparedIsWhole, PrepareIsNewer, HelpersVersion,
           Updates!Busy, Preparing
<1> QED
    BY <1>1, <1>2, <1>3, <1>4, <1>5, <1>6 DEF Updates!Next

(* Every reachable state of the update is in order. *)
THEOREM UpdaterInvariance == Updates!UpdaterAssumption /\ Updates!Spec => []UpdaterInv
<1> SUFFICES ASSUME Updates!UpdaterAssumption PROVE Updates!Spec => []UpdaterInv
    OBVIOUS
<1>1. Updates!Init => UpdaterInv
    BY InitUpdaterInv
<1>2. UpdaterInv /\ [Updates!Next]_(Updates!vars) => UpdaterInv'
    BY UpdaterStep
<1> QED
    BY <1>1, <1>2, PTL DEF Updates!Spec

(* The executable is never replaced by part of a binary (manager.go and    *)
(* its helper script), unless two prepare, or restart, at once.            *)
THEOREM InstallsWhole == Updates!UpdaterAssumption /\ Updates!Spec => []Updates!InstalledIsWhole
<1>1. UpdaterInv => Updates!InstalledIsWhole
    BY DEF UpdaterInv, UpdateInOrder, Updates!InstalledIsWhole
<1> QED
    BY <1>1, UpdaterInvariance, PTL

-----------------------------------------------------------------------------
(* A behaviour of the composition is one of each part: the parts that do   *)
(* not move stutter.                                                       *)
THEOREM Composition == MCSpec => Spec /\ PR!Spec /\ Updates!Spec
<1>1. MCInit => Init /\ PR!Init /\ Updates!Init
    BY DEF MCInit
<1>2. [MCNext]_<<part, vars, prVars, updaterVars>> =>
        [Next]_vars /\ [PR!Next]_(PR!vars) /\ [Updates!Next]_(Updates!vars)
    BY DEF MCNext, prVars, updaterVars, PR!vars, Updates!vars
<1> QED
    BY <1>1, <1>2, PTL DEF MCSpec, Spec, PR!Spec, Updates!Spec

(* The panel is not replaced by a part of a binary.                        *)
THEOREM PanelStaysWhole == MCSpec => []InstalledIsWhole
<1>1. Updates!InstalledIsWhole => InstalledIsWhole
    BY DEF InstalledIsWhole
<1> QED
    BY <1>1, Composition, InstallsWhole, RolloutsAssumption, PTL
=============================================================================

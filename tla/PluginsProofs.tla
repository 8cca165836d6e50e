------------------------- MODULE PluginsProofs -------------------------
(***************************************************************************)
(* IInv, from PluginManager, is inductive; its conjuncts are the safety    *)
(* properties of the plugin lifecycle, here for every set of plugins,      *)
(* every dependency graph, priority and set of defaults.  MonitoringInv is *)
(* the invariant of the collector loops and the repairs, for any number of *)
(* starts, rules and repairs and any cooldown and heal window.             *)
(***************************************************************************)
EXTENDS MCPlugins, TLAPS

(* Facts about load orders. *)

LEMMA OneLess == \A n \in Nat : \A m \in 1..n : m # 1 => m - 1 \in 1..n
OBVIOUS

(* Appending a plugin whose dependencies are there keeps the order. *)
LEMMA AppendKeepsOrder ==
    ASSUME NEW S, NEW ord \in Seq(S), NEW p \in S, NEW dep \in [S -> SUBSET S],
           \A i \in 1..Len(ord) : \A d \in dep[ord[i]] : \E j \in 1..(i - 1) : ord[j] = d,
           \A d \in dep[p] : \E j \in 1..Len(ord) : ord[j] = d,
           NEW new, new = Append(ord, p)
    PROVE  \A i \in 1..Len(new) : \A d \in dep[new[i]] : \E j \in 1..(i - 1) : new[j] = d
<1>1. /\ Len(new) = Len(ord) + 1 /\ Len(ord) \in Nat
      /\ new[Len(ord) + 1] = p
      /\ \A i \in 1..Len(ord) : new[i] = ord[i]
    OBVIOUS
<1>2. ASSUME NEW i \in 1..Len(new), NEW d \in dep[new[i]]
      PROVE  \E j \in 1..(i - 1) : new[j] = d
    <2>1. CASE i = Len(ord) + 1
        BY <1>1, <1>2, <2>1
    <2>2. CASE i \in 1..Len(ord)
        BY <1>1, <1>2, <2>2
    <2> QED
        BY <1>1, <2>1, <2>2
<1> QED
    BY <1>2

-----------------------------------------------------------------------------
LEMMA InitIInv == Init => IInv
<1> SUFFICES ASSUME Init PROVE IInv
    OBVIOUS
<1> USE PluginKinds, DefaultsStandAlone
<1>1. TypeOK
    BY DEF Init, TypeOK, Seeded, Phases
<1>2. OrderIsTopological /\ LoopPosition /\ BootProgress
    BY DEF Init, OrderIsTopological, LoopPosition, BootProgress
<1>3. DepsClosed /\ GuardCovers
    BY <1>1 DEF Init, DepsClosed, GuardCovers, IsEnabled, Seeded
<1>4. EnableProgress /\ DisableProgress /\ OthersConsistent
    BY DEF Init, EnableProgress, DisableProgress, OthersConsistent, At
<1> QED
    BY <1>1, <1>2, <1>3, <1>4 DEF IInv

-----------------------------------------------------------------------------
(* The boot: the sequences and what they say of the order. *)

(* A turn of InitAll's or StartAll's loop does the next plugin of the order. *)
LEMMA LoopTurn ==
    ASSUME IInv, phase \in {"init", "start"}
    PROVE  /\ Len(order) \in Nat /\ Len(todo) \in 1..Len(order)
           /\ Head(todo) \in Plugin
           /\ Tail(todo) \in Seq(Plugin) /\ Len(Tail(todo)) = Len(todo) - 1
           /\ \A i \in 1..(Len(todo) - 1) :
                 Tail(todo)[i] = order[Len(order) - (Len(todo) - 1) + i]
           /\ \A p : (\E i \in 1..(Len(order) - (Len(todo) - 1)) : order[i] = p)
                    <=> Done(p) \/ p = Head(todo)
<1>1. /\ order \in Seq(Plugin) /\ todo \in Seq(Plugin)
      /\ Len(todo) \in 1..Len(order)
      /\ \A i \in 1..Len(todo) : todo[i] = order[Len(order) - Len(todo) + i]
    BY DEF IInv, TypeOK, LoopPosition
<1>2. /\ Len(order) \in Nat /\ Len(todo) \in Nat
      /\ Head(todo) = todo[1] /\ Head(todo) \in Plugin
      /\ Tail(todo) \in Seq(Plugin) /\ Len(Tail(todo)) = Len(todo) - 1
      /\ \A i \in 1..(Len(todo) - 1) : Tail(todo)[i] = todo[i + 1]
    BY <1>1
<1>3. Head(todo) = order[(Len(order) - Len(todo)) + 1]
    BY <1>1, <1>2
<1>4. ASSUME NEW i \in 1..(Len(todo) - 1)
      PROVE  Tail(todo)[i] = order[Len(order) - (Len(todo) - 1) + i]
    <2>1. i + 1 \in 1..Len(todo)
        BY <1>2
    <2>2. Len(order) - Len(todo) + (i + 1) = Len(order) - (Len(todo) - 1) + i
        BY <1>2
    <2> QED
        BY <1>1, <1>2, <2>1, <2>2
<1>5. ASSUME NEW p
      PROVE  (\E i \in 1..(Len(order) - (Len(todo) - 1)) : order[i] = p)
             <=> Done(p) \/ p = Head(todo)
    <2>1. \A i \in 1..(Len(order) - (Len(todo) - 1)) :
             i \in 1..(Len(order) - Len(todo)) \/ i = (Len(order) - Len(todo)) + 1
        BY <1>2
    <2>2. (Len(order) - Len(todo)) + 1 \in 1..(Len(order) - (Len(todo) - 1))
        BY <1>1, <1>2
    <2>3. \A i \in 1..(Len(order) - Len(todo)) : i \in 1..(Len(order) - (Len(todo) - 1))
        BY <1>2
    <2> QED
        BY <1>3, <2>1, <2>2, <2>3 DEF Done
<1> QED
    BY <1>1, <1>2, <1>4, <1>5

(* The last turn completes Plugin. *)
LEMMA LastTurn ==
    ASSUME IInv, phase \in {"init", "start"}, Len(todo) = 1
    PROVE  \A p \in Plugin : Done(p) \/ p = Head(todo)
<1>1. \A p \in Plugin : \E i \in 1..Len(order) : order[i] = p
    BY DEF IInv, LoopPosition, Ordered
<1>2. Len(order) - (Len(todo) - 1) = Len(order)
    BY LoopTurn
<1> QED
    BY <1>1, <1>2, LoopTurn

LEMMA BootTypes == IInv /\ (BootStep \/ Crash) => TypeOK'
<1> SUFFICES ASSUME IInv, BootStep \/ Crash PROVE TypeOK'
    OBVIOUS
<1> USE PluginKinds DEF IInv, TypeOK, Phases
<1>1. CASE Boot         BY <1>1 DEF Boot
<1>2. CASE Cyclic       BY <1>2 DEF Cyclic, Down
<1>3. CASE Sorted       BY <1>3 DEF Sorted
<1>4. CASE SeedDone     BY <1>4 DEF SeedDone, Fail
<1>5. CASE InitPlugin
    <2>1. Head(todo) \in Plugin /\ Tail(todo) \in Seq(Plugin)
        BY <1>5 DEF InitPlugin
    <2>2. disabled' \subseteq Plugin
        BY <1>5, <2>1 DEF InitPlugin, Guarded
    <2>3. todo' \in Seq(Plugin) /\ phase' \in Phases
        BY <1>5, <2>1 DEF InitPlugin
    <2> QED BY <1>5, <2>2, <2>3 DEF InitPlugin
<1>6. CASE StartPlugin  BY <1>6 DEF StartPlugin
<1>7. CASE BootFails    BY <1>7 DEF BootFails, Down, Fail
<1>8. CASE Crash        BY <1>8 DEF Crash, Down, Fail
<1>9. ASSUME NEW p \in Plugin, Sort(p) PROVE TypeOK'
    BY <1>9 DEF Sort
<1>10. ASSUME NEW p \in Plugin, SeedRow(p) PROVE TypeOK'
    BY <1>10 DEF SeedRow, Seeded, memory
<1> QED
    BY <1>1, <1>2, <1>3, <1>4, <1>5, <1>6, <1>7, <1>8, <1>9, <1>10 DEF BootStep

LEMMA BootOrders == IInv /\ (BootStep \/ Crash) => OrderIsTopological'
<1> SUFFICES ASSUME IInv, BootStep \/ Crash PROVE OrderIsTopological'
    OBVIOUS
<1> USE PluginKinds DEF IInv, TypeOK, OrderIsTopological
<1>1. CASE deps' = deps /\ order' = order
    BY <1>1
<1>2. CASE order' = <<>>
    BY <1>2
<1>3. ASSUME NEW p \in Plugin, Sort(p) PROVE OrderIsTopological'
    <2>1. \A d \in deps[p] : \E j \in 1..Len(order) : order[j] = d
        BY <1>3 DEF Sort, Ready, Ordered
    <2>2. deps' = deps /\ order' = Append(order, p)
        BY <1>3 DEF Sort
    <2>3. deps \in [Plugin -> SUBSET Plugin]
        OBVIOUS
    <2> QED
        BY <2>1, <2>2, <2>3, AppendKeepsOrder
<1> QED
    BY <1>1, <1>2, <1>3
       DEF BootStep, Boot, Cyclic, Sorted, SeedDone, InitPlugin, StartPlugin, BootFails,
           Crash, SeedRow, Down, memory

LEMMA BootLoops == IInv /\ (BootStep \/ Crash) => LoopPosition'
<1> SUFFICES ASSUME IInv, BootStep \/ Crash PROVE LoopPosition'
    OBVIOUS
<1> USE PluginKinds DEF IInv, TypeOK, LoopPosition
<1>1. CASE Sorted
    <2>1. Ordered' = Plugin
        BY <1>1 DEF Sorted, Ordered
    <2>2. Len(order) >= 1
        BY <1>1 DEF Sorted, Ordered
    <2> QED BY <1>1, <2>1, <2>2 DEF Sorted
<1>2. CASE SeedDone
    <2>1. Ordered = Plugin /\ Ordered' = Plugin
        BY <1>2 DEF SeedDone, Ordered, BootProgress
    <2>2. Len(order) >= 1
        BY <2>1 DEF Ordered
    <2> QED BY <1>2, <2>1, <2>2 DEF SeedDone
<1>3. CASE InitPlugin
    <2>1. Ordered' = Plugin
        BY <1>3 DEF InitPlugin, Ordered
    <2>2. CASE Len(todo) = 1
        BY <1>3, <2>1, <2>2 DEF InitPlugin
    <2>3. CASE Len(todo) # 1
        <3>1. order' = order /\ todo' = Tail(todo) /\ phase = "init"
            BY <1>3, <2>3 DEF InitPlugin
        <3>2. Len(order) \in Nat /\ Len(todo) \in 1..Len(order)
            BY <3>1, LoopTurn
        <3>3. Len(todo') = Len(todo) - 1
            BY <3>1, LoopTurn
        <3>4. Len(todo') \in 1..Len(order')
            BY <2>3, <3>1, <3>2, <3>3, OneLess, Zenon
        <3> QED
            BY <2>1, <3>1, <3>3, <3>4, LoopTurn
    <2> QED BY <2>2, <2>3
<1>4. CASE StartPlugin
    <2>1. Ordered' = Plugin
        BY <1>4 DEF StartPlugin, Ordered
    <2>2. CASE Len(todo) # 1
        <3>1. order' = order /\ todo' = Tail(todo) /\ phase = "start"
            BY <1>4 DEF StartPlugin
        <3>2. Len(order) \in Nat /\ Len(todo) \in 1..Len(order)
            BY <3>1, LoopTurn
        <3>3. Len(todo') = Len(todo) - 1
            BY <3>1, LoopTurn
        <3>4. Len(todo') \in 1..Len(order')
            BY <2>2, <3>1, <3>2, <3>3, OneLess, Zenon
        <3> QED
            BY <2>1, <3>1, <3>3, <3>4, LoopTurn
    <2> QED BY <1>4, <2>2 DEF StartPlugin
<1>5. CASE Cyclic \/ BootFails \/ Crash
    BY <1>5 DEF Cyclic, BootFails, Crash, Down
<1>6. CASE Boot \/ \E p \in Plugin : Sort(p) \/ SeedRow(p)
    BY <1>6 DEF Boot, Sort, SeedRow, memory, Ordered
<1> QED
    BY <1>1, <1>2, <1>3, <1>4, <1>5, <1>6 DEF BootStep

LEMMA BootProgresses == IInv /\ (BootStep \/ Crash) => BootProgress'
<1> SUFFICES ASSUME IInv, BootStep \/ Crash PROVE BootProgress'
    OBVIOUS
<1> USE PluginKinds DEF IInv, TypeOK, BootProgress
<1>1. CASE Sorted \/ SeedDone
    <2>1. op' = {} /\ wedged' = {} /\ disabled' = {} /\ running' = {}
        BY <1>1 DEF Sorted, SeedDone
    <2>2. phase' = "seed" => Ordered' = Plugin
        BY <1>1 DEF Sorted, SeedDone, Ordered
    <2>3. phase' \in {"seed", "init"}
        BY <1>1 DEF Sorted, SeedDone
    <2>4. phase' = "init" => \A p : ~Done(p)'
        BY <1>1 DEF Sorted, SeedDone, Done
    <2> QED
        BY <2>1, <2>2, <2>3, <2>4
<1>2. CASE InitPlugin
    <2>1. /\ phase = "init" /\ phase' \in {"init", "start"}
          /\ op' = {} /\ wedged' = {} /\ running' = {}
          /\ \A p : IsEnabled(p)' = IsEnabled(p)
        BY <1>2 DEF InitPlugin, IsEnabled
    <2>2. \A p \in Plugin : p \in disabled' <=> (Done(p) \/ p = Head(todo)) /\ ~IsEnabled(p)
        BY <1>2, <2>1, LoopTurn DEF InitPlugin, Guarded
    <2>3. CASE Len(todo) = 1
        <3>1. phase' = "start" /\ \A p : ~Done(p)'
            BY <1>2, <2>3 DEF InitPlugin, Done
        <3>2. \A p \in Plugin : p \in disabled' <=> ~IsEnabled(p)
            BY <2>1, <2>2, <2>3, LastTurn
        <3> QED
            BY <2>1, <3>1, <3>2
    <2>4. CASE Len(todo) # 1
        <3>1. phase' = "init" /\ order' = order /\ todo' = Tail(todo)
            BY <1>2, <2>1, <2>4 DEF InitPlugin
        <3>2. \A p : Done(p)' <=> Done(p) \/ p = Head(todo)
            BY <2>1, <3>1, LoopTurn DEF Done
        <3> QED
            BY <2>1, <2>2, <3>1, <3>2
    <2> QED
        BY <2>3, <2>4
<1>3. CASE StartPlugin
    <2>1. /\ phase = "start" /\ phase' \in {"start", "up"}
          /\ op' = {} /\ wedged' = {} /\ disabled' = disabled
          /\ order' = order /\ todo' = Tail(todo)
          /\ \A p : IsEnabled(p)' = IsEnabled(p)
        BY <1>3 DEF StartPlugin, IsEnabled
    <2>2. \A p : Done(p)' <=> Done(p) \/ p = Head(todo)
        BY <2>1, LoopTurn DEF Done
    <2>3. \A p \in Plugin : p \in running' <=> Done(p)' /\ IsEnabled(p)
        BY <1>3, <2>1, <2>2, LoopTurn DEF StartPlugin
    <2> QED
        BY <2>1, <2>3
<1>4. CASE Cyclic \/ BootFails \/ Crash
    BY <1>4 DEF Cyclic, BootFails, Crash, Down
<1>5. CASE Boot \/ \E p \in Plugin : Sort(p)
    BY <1>5 DEF Boot, Sort
<1>6. CASE \E p \in Plugin : SeedRow(p)
    BY <1>6 DEF SeedRow, memory, Ordered
<1> QED
    BY <1>1, <1>2, <1>3, <1>4, <1>5, <1>6 DEF BootStep

LEMMA BootKeepsTheRest ==
    IInv /\ (BootStep \/ Crash) =>
        DepsClosed' /\ GuardCovers' /\ EnableProgress' /\ DisableProgress'
<1> SUFFICES ASSUME IInv, BootStep \/ Crash
             PROVE  DepsClosed' /\ GuardCovers' /\ EnableProgress' /\ DisableProgress'
    OBVIOUS
<1> USE PluginKinds, DefaultsStandAlone DEF IInv, TypeOK
<1>1. DepsClosed'
    <2>1. CASE deps' = deps /\ rows' = rows /\ implicit' = implicit
        BY <2>1 DEF DepsClosed, IsEnabled
    <2>2. ASSUME NEW p \in Plugin, SeedRow(p) PROVE DepsClosed'
        BY <2>2 DEF SeedRow, Seeded, Rowless, DepsClosed, IsEnabled
    <2> QED
        BY <2>1, <2>2
           DEF BootStep, Boot, Cyclic, Sorted, SeedDone, InitPlugin, StartPlugin, BootFails,
               Crash, Down, Sort
<1>2. GuardCovers'
    <2>1. CASE phase' # "up"
        BY <2>1 DEF GuardCovers
    <2>2. CASE StartPlugin
        BY <2>2 DEF StartPlugin, GuardCovers, BootProgress, IsEnabled
    <2>3. CASE InitPlugin
        BY <2>1, <2>3 DEF InitPlugin
    <2>4. CASE Boot \/ Cyclic \/ Sorted \/ SeedDone \/ BootFails \/ Crash
        BY <2>1, <2>4 DEF Boot, Cyclic, Sorted, SeedDone, BootFails, Crash, Down
    <2>5. CASE \E p \in Plugin : Sort(p) \/ SeedRow(p)
        BY <2>1, <2>5 DEF Sort, SeedRow, memory
    <2> QED
        BY <2>2, <2>3, <2>4, <2>5 DEF BootStep
<1>3. op' = {}
    <2>1. phase # "up" => op = {}
        BY DEF BootProgress
    <2> QED
        BY <2>1
           DEF BootStep, Boot, Cyclic, Sorted, SeedDone, InitPlugin, StartPlugin, BootFails,
               Crash, Down, Sort, SeedRow, memory
<1>4. EnableProgress' /\ DisableProgress'
    BY <1>3 DEF EnableProgress, DisableProgress, At
<1> QED
    BY <1>1, <1>2, <1>4

LEMMA BootMakesConsistent == IInv /\ (BootStep \/ Crash) => OthersConsistent'
<1> SUFFICES ASSUME IInv, BootStep \/ Crash PROVE OthersConsistent'
    OBVIOUS
<1> USE DEF IInv, TypeOK
<1>1. CASE phase' # "up"
    BY <1>1 DEF OthersConsistent
<1>2. CASE StartPlugin /\ phase' = "up"
    <2>1. Len(todo) = 1 /\ phase = "start"
        BY <1>2 DEF StartPlugin
    <2>2. \A p \in Plugin : Done(p) \/ p = Head(todo)
        BY <2>1, LastTurn
    <2>3. Head(todo) \in Plugin
        BY <2>1, LoopTurn
    <2>4. \A p \in Plugin : p \in running' <=> IsEnabled(p)
        BY <1>2, <2>1, <2>2, <2>3 DEF StartPlugin, BootProgress
    <2>5. \A p \in Plugin : p \in disabled' <=> ~IsEnabled(p)
        BY <1>2, <2>1 DEF StartPlugin, BootProgress
    <2>6. \A p : IsEnabled(p)' <=> IsEnabled(p)
        BY <1>2 DEF StartPlugin, IsEnabled
    <2> QED
        BY <2>4, <2>5, <2>6 DEF OthersConsistent
<1>3. CASE InitPlugin
    BY <1>1, <1>3 DEF InitPlugin
<1>4. CASE Boot \/ Cyclic \/ Sorted \/ SeedDone \/ BootFails \/ Crash
    BY <1>1, <1>4 DEF Boot, Cyclic, Sorted, SeedDone, BootFails, Crash, Down
<1>5. CASE \E p \in Plugin : Sort(p) \/ SeedRow(p)
    BY <1>1, <1>5 DEF Sort, SeedRow, memory
<1> QED
    BY <1>1, <1>2, <1>3, <1>4, <1>5 DEF BootStep

LEMMA BootKeepsInv == IInv /\ (BootStep \/ Crash) => IInv'
BY BootTypes, BootOrders, BootLoops, BootProgresses, BootKeepsTheRest, BootMakesConsistent
   DEF IInv

-----------------------------------------------------------------------------
(* Enable, Disable and the sidebar, while the panel is up. *)

(* They leave what the boot established alone. *)
LEMMA OpsKeepBoot ==
    ASSUME IInv, NEW p \in Plugin,
           EnableStep(p) \/ DisableStep(p) \/ SetSidebarVisible(p)
    PROVE  /\ phase = "up"
           /\ phase' = phase /\ deps' = deps /\ order' = order /\ todo' = todo
           /\ OrderIsTopological' /\ LoopPosition' /\ BootProgress'
<1>1. phase = "up"
    BY DEF IInv, BootProgress, At, EnableStep, DisableStep, SetSidebarVisible, Enable,
           EnableSaves, EnableNotSaved, EnableUnguards, EnableStarts, EnableNotStarted,
           Disable, DisableStops, DisableNotStopped, DisableGuards, DisableSaves,
           DisableNotSaved
<1>2. phase' = phase /\ deps' = deps /\ order' = order /\ todo' = todo
    BY DEF EnableStep, DisableStep, SetSidebarVisible, Enable, memory, EnableSaves,
           EnableNotSaved, EnableUnguards, EnableStarts, EnableNotStarted, Disable,
           DisableStops, DisableNotStopped, DisableGuards, DisableSaves, DisableNotSaved
<1>3. OrderIsTopological'
    BY <1>2, PluginKinds DEF IInv, TypeOK, OrderIsTopological
<1>4. LoopPosition' /\ BootProgress'
    BY <1>1, <1>2 DEF LoopPosition, BootProgress
<1> QED
    BY <1>1, <1>2, <1>3, <1>4

LEMMA OpsKeepTypes ==
    ASSUME IInv, NEW p \in Plugin,
           EnableStep(p) \/ DisableStep(p) \/ SetSidebarVisible(p)
    PROVE  TypeOK'
<1> USE PluginKinds
<1>1. /\ deps' \in DepGraphs /\ phase' \in Phases
      /\ order' \in Seq(Plugin) /\ todo' \in Seq(Plugin)
    BY OpsKeepBoot DEF IInv, TypeOK
<1>2. /\ rows' \in [Plugin -> {"none", "on", "off"}]
      /\ disabled' \subseteq Plugin /\ running' \subseteq Plugin
      /\ implicit' \subseteq Plugin /\ wedged' \subseteq Plugin
      /\ failures' \in 0..MaxFailures
    <2> USE DEF IInv, TypeOK, Fail, SetState
    <2>1. CASE EnableStep(p)
        <3>1. CASE EnableSaves(p)      BY <3>1 DEF EnableSaves
        <3>2. CASE EnableStarts(p)     BY <3>2 DEF EnableStarts
        <3>3. CASE EnableNotStarted(p) BY <3>3 DEF EnableNotStarted
        <3> QED
            BY <2>1, <3>1, <3>2, <3>3 DEF EnableStep, Enable, EnableNotSaved, EnableUnguards
    <2>2. CASE DisableStep(p)
        BY <2>2
           DEF DisableStep, Disable, DisableStops, DisableNotStopped, DisableGuards,
               DisableSaves, DisableNotSaved
    <2>3. CASE SetSidebarVisible(p)
        BY <2>3 DEF SetSidebarVisible, memory
    <2> QED
        BY <2>1, <2>2, <2>3
<1>3. op' = {} \/ \E o \in Ops : op' = {o}
    <2>1. ASSUME NEW s \in {"save", "unguard", "start", "stop", "guard", "unsave"},
                 Goto(p, s)
          PROVE  \E o \in Ops : op' = {o}
        BY <2>1 DEF Ops, Goto
    <2>2. CASE op' = op
        BY <2>2 DEF IInv, TypeOK
    <2> QED
        BY <2>1, <2>2
           DEF EnableStep, Enable, EnableSaves, EnableNotSaved, EnableUnguards, EnableStarts,
               EnableNotStarted, DisableStep, Disable, DisableStops, DisableNotStopped,
               DisableGuards, DisableSaves, DisableNotSaved, SetSidebarVisible, memory
<1> QED
    BY <1>1, <1>2, <1>3 DEF TypeOK

LEMMA OpsKeepDeps ==
    ASSUME IInv, NEW p \in Plugin,
           EnableStep(p) \/ DisableStep(p) \/ SetSidebarVisible(p)
    PROVE  DepsClosed' /\ GuardCovers'
<1> USE PluginKinds DEF IInv, TypeOK, DepsClosed, GuardCovers, IsEnabled, SetState
<1>1. deps' = deps /\ phase = "up" /\ phase' = "up"
    BY OpsKeepBoot
<1>2. CASE rows' = rows /\ implicit' = implicit /\ disabled \subseteq disabled'
    BY <1>1, <1>2
<1>3. CASE EnableSaves(p)
    BY <1>1, <1>3 DEF EnableSaves, EnableProgress
<1>4. CASE EnableUnguards(p)
    BY <1>1, <1>4 DEF EnableUnguards, EnableProgress
<1>5. CASE DisableSaves(p)
    BY <1>1, <1>5 DEF DisableSaves, DisableProgress
<1>6. CASE SetSidebarVisible(p)
    BY <1>1, <1>6 DEF SetSidebarVisible, memory
<1> QED
    BY <1>2, <1>3, <1>4, <1>5, <1>6
       DEF EnableStep, DisableStep, Enable, EnableNotSaved, EnableStarts, EnableNotStarted,
           Disable, DisableStops, DisableNotStopped, DisableGuards, DisableNotSaved

(* op names one plugin and one position. *)
LEMMA SamePosition ==
    ASSUME NEW p, NEW s, NEW q, NEW t,
           [plugin |-> q, at |-> t] = [plugin |-> p, at |-> s]
    PROVE  q = p /\ t = s
<1>1. [plugin |-> q, at |-> t].plugin = [plugin |-> p, at |-> s].plugin
    BY Zenon
<1>2. [plugin |-> q, at |-> t].at = [plugin |-> p, at |-> s].at
    BY Zenon
<1> QED
    BY <1>1, <1>2

LEMMA Held == ASSUME NEW p, NEW s, At(p, s)
              PROVE  \A q, t : At(q, t) <=> q = p /\ t = s
<1>1. ASSUME NEW q, NEW t, At(q, t) PROVE q = p /\ t = s
    <2>1. [plugin |-> q, at |-> t] = [plugin |-> p, at |-> s]
        BY <1>1, Zenon DEF At
    <2> QED
        BY <2>1, SamePosition, Zenon
<1> QED
    BY <1>1, Zenon

LEMMA Moved == ASSUME NEW p, NEW s, Goto(p, s)
               PROVE  \A q, t : At(q, t)' <=> q = p /\ t = s
<1>1. ASSUME NEW q, NEW t, At(q, t)' PROVE q = p /\ t = s
    <2>1. [plugin |-> q, at |-> t] = [plugin |-> p, at |-> s]
        BY <1>1, Zenon DEF At, Goto
    <2> QED
        BY <2>1, SamePosition, Zenon
<1>2. At(p, s)'
    BY Zenon DEF At, Goto
<1> QED
    BY <1>1, <1>2, Zenon

LEMMA Ended == ASSUME op' = {} PROVE \A q, t : ~At(q, t)'
BY DEF At

LEMMA Stayed == ASSUME op' = op PROVE \A q, t : At(q, t)' <=> At(q, t)
BY DEF At

LEMMA OpsKeepEnable ==
    ASSUME IInv, NEW p \in Plugin,
           EnableStep(p) \/ DisableStep(p) \/ SetSidebarVisible(p)
    PROVE  EnableProgress'
<1>1. deps' = deps /\ rows \in [Plugin -> {"none", "on", "off"}]
    BY OpsKeepBoot DEF IInv, TypeOK
<1>2. deps \in [Plugin -> SUBSET Plugin]
    BY PluginKinds DEF IInv, TypeOK
<1>3. CASE op' = {}
    BY <1>3, Ended DEF EnableProgress
<1>4. CASE Enable(p)
    <2>1. \A q, t : At(q, t)' <=> q = p /\ t = "save"
        BY <1>4, Moved DEF Enable
    <2> QED
        BY <1>1, <1>4, <2>1 DEF Enable, MayEnable, EnableProgress, IsEnabled
<1>5. CASE EnableSaves(p)
    <2>1. \A q, t : At(q, t)' <=> q = p /\ t = "unguard"
        BY <1>5, Moved DEF EnableSaves
    <2> QED
        BY <1>1, <1>5, <2>1 DEF EnableSaves, SetState, EnableProgress, IsEnabled
<1>6. CASE EnableUnguards(p)
    <2>1. \A q, t : At(q, t)' <=> q = p /\ t = "start"
        BY <1>6, Moved DEF EnableUnguards
    <2> QED
        BY <1>1, <1>6, <2>1 DEF IInv, EnableUnguards, EnableProgress, IsEnabled
<1>7. ASSUME NEW s \in {"stop", "guard", "unsave"}, Goto(p, s) PROVE EnableProgress'
    <2>1. \A q, t : At(q, t)' <=> q = p /\ t = s
        BY <1>7, Moved
    <2> QED
        BY <2>1 DEF EnableProgress
<1>8. CASE SetSidebarVisible(p)
    <2>1. \A q, t : At(q, t)' <=> At(q, t)
        BY <1>8, Stayed DEF SetSidebarVisible, memory
    <2> QED
        BY <1>1, <1>2, <1>8, <2>1
           DEF IInv, SetSidebarVisible, memory, EnableProgress, IsEnabled
<1> QED
    BY <1>3, <1>4, <1>5, <1>6, <1>7, <1>8
       DEF EnableStep, DisableStep, EnableNotSaved, EnableStarts, EnableNotStarted, Disable,
           DisableStops, DisableNotStopped, DisableGuards, DisableSaves, DisableNotSaved

LEMMA OpsKeepDisable ==
    ASSUME IInv, NEW p \in Plugin,
           EnableStep(p) \/ DisableStep(p) \/ SetSidebarVisible(p)
    PROVE  DisableProgress'
<1>1. deps' = deps /\ rows \in [Plugin -> {"none", "on", "off"}]
    BY OpsKeepBoot DEF IInv, TypeOK
<1>2. CASE op' = {}
    BY <1>2, Ended DEF DisableProgress
<1>3. CASE Disable(p)
    <2>1. \A q, t : At(q, t)' <=> q = p /\ t = "stop"
        BY <1>3, Moved DEF Disable
    <2> QED
        BY <1>1, <1>3, <2>1 DEF Disable, MayDisable, Dependents, DisableProgress, IsEnabled
<1>4. CASE DisableStops(p) \/ DisableNotStopped(p)
    <2>1. At(p, "stop") /\ \A q, t : At(q, t)' <=> q = p /\ t = "guard"
        BY <1>4, Moved DEF DisableStops, DisableNotStopped
    <2>2. rows' = rows /\ implicit' = implicit /\ (p \notin wedged' => p \notin running')
        BY <1>4 DEF DisableStops, DisableNotStopped
    <2> QED
        BY <1>1, <2>1, <2>2 DEF IInv, DisableProgress, IsEnabled
<1>5. CASE DisableGuards(p)
    <2>1. At(p, "guard") /\ \A q, t : At(q, t)' <=> q = p /\ t = "unsave"
        BY <1>5, Moved DEF DisableGuards
    <2>2. At(p, "stop") => FALSE
        BY <2>1, Held
    <2> QED
        BY <1>1, <1>5, <2>1, <2>2 DEF IInv, DisableGuards, DisableProgress, IsEnabled
<1>6. ASSUME NEW s \in {"save", "unguard", "start"}, Goto(p, s) PROVE DisableProgress'
    <2>1. \A q, t : At(q, t)' <=> q = p /\ t = s
        BY <1>6, Moved
    <2> QED
        BY <2>1 DEF DisableProgress
<1>7. CASE SetSidebarVisible(p)
    <2>1. \A q, t : At(q, t)' <=> At(q, t)
        BY <1>7, Stayed DEF SetSidebarVisible, memory
    <2> QED
        BY <1>1, <1>7, <2>1 DEF IInv, SetSidebarVisible, memory, DisableProgress, IsEnabled
<1> QED
    BY <1>2, <1>3, <1>4, <1>5, <1>6, <1>7
       DEF EnableStep, DisableStep, Enable, EnableSaves, EnableNotSaved, EnableUnguards,
           EnableStarts, EnableNotStarted, DisableSaves, DisableNotSaved

LEMMA OpsKeepConsistent ==
    ASSUME IInv, NEW p \in Plugin,
           EnableStep(p) \/ DisableStep(p) \/ SetSidebarVisible(p)
    PROVE  OthersConsistent'
<1> USE DEF OthersConsistent, IsEnabled
<1>1. /\ phase = "up" /\ phase' = "up"
      /\ rows \in [Plugin -> {"none", "on", "off"}]
      /\ OthersConsistent /\ EnableProgress /\ DisableProgress
    BY OpsKeepBoot DEF IInv, TypeOK
<1>2. CASE EnableStep(p)
    <2>1. CASE Enable(p)
        <3>1. \A q, t : ~At(q, t) /\ (At(q, t)' <=> q = p /\ t = "save")
            BY <2>1, Moved DEF Enable, At
        <3> QED
            BY <1>1, <2>1, <3>1 DEF Enable
    <2>2. CASE EnableSaves(p)
        <3>1. \A q, t : /\ At(q, t) <=> q = p /\ t = "save"
                        /\ At(q, t)' <=> q = p /\ t = "unguard"
            BY <2>2, Held, Moved DEF EnableSaves
        <3> QED
            BY <1>1, <2>2, <3>1 DEF EnableSaves, SetState
    <2>3. CASE EnableNotSaved(p)
        <3>1. \A q, t : (At(q, t) <=> q = p /\ t = "save") /\ ~At(q, t)'
            BY <2>3, Held, Ended DEF EnableNotSaved
        <3> QED
            BY <1>1, <2>3, <3>1 DEF EnableNotSaved
    <2>4. CASE EnableUnguards(p)
        <3>1. \A q, t : /\ At(q, t) <=> q = p /\ t = "unguard"
                        /\ At(q, t)' <=> q = p /\ t = "start"
            BY <2>4, Held, Moved DEF EnableUnguards
        <3> QED
            BY <1>1, <2>4, <3>1 DEF EnableUnguards
    <2>5. CASE EnableStarts(p) \/ EnableNotStarted(p)
        <3>1. \A q, t : (At(q, t) <=> q = p /\ t = "start") /\ ~At(q, t)'
            BY <2>5, Held, Ended DEF EnableStarts, EnableNotStarted
        <3>2. rows[p] = "on" /\ p \notin disabled
            BY <1>1, <3>1 DEF EnableProgress
        <3>3. CASE EnableStarts(p)
            BY <1>1, <3>1, <3>2, <3>3 DEF EnableStarts
        <3>4. CASE EnableNotStarted(p)
            BY <1>1, <3>1, <3>4 DEF EnableNotStarted
        <3> QED
            BY <2>5, <3>3, <3>4
    <2> QED
        BY <1>2, <2>1, <2>2, <2>3, <2>4, <2>5 DEF EnableStep
<1>3. CASE DisableStep(p)
    <2>1. CASE Disable(p)
        <3>1. \A q, t : ~At(q, t) /\ (At(q, t)' <=> q = p /\ t = "stop")
            BY <2>1, Moved DEF Disable, At
        <3> QED
            BY <1>1, <2>1, <3>1 DEF Disable
    <2>2. CASE DisableStops(p) \/ DisableNotStopped(p)
        <3>1. \A q, t : /\ At(q, t) <=> q = p /\ t = "stop"
                        /\ At(q, t)' <=> q = p /\ t = "guard"
            BY <2>2, Held, Moved DEF DisableStops, DisableNotStopped
        <3>2. /\ rows' = rows /\ disabled' = disabled
              /\ \A q \in Plugin \ {p} : /\ q \in running' <=> q \in running
                                         /\ q \in wedged' <=> q \in wedged
            BY <2>2 DEF DisableStops, DisableNotStopped
        <3> QED
            BY <1>1, <3>1, <3>2
    <2>3. CASE DisableGuards(p)
        <3>1. \A q, t : /\ At(q, t) <=> q = p /\ t = "guard"
                        /\ At(q, t)' <=> q = p /\ t = "unsave"
            BY <2>3, Held, Moved DEF DisableGuards
        <3> QED
            BY <1>1, <2>3, <3>1 DEF DisableGuards
    <2>4. CASE DisableSaves(p)
        <3>1. \A q, t : (At(q, t) <=> q = p /\ t = "unsave") /\ ~At(q, t)'
            BY <2>4, Held, Ended DEF DisableSaves
        <3>2. p \in disabled /\ (p \notin wedged => p \notin running)
            BY <1>1, <3>1 DEF DisableProgress
        <3> QED
            BY <1>1, <2>4, <3>1, <3>2 DEF DisableSaves, SetState
    <2>5. CASE DisableNotSaved(p)
        <3>1. \A q, t : (At(q, t) <=> q = p /\ t = "unsave") /\ ~At(q, t)'
            BY <2>5, Held, Ended DEF DisableNotSaved
        <3> QED
            BY <1>1, <2>5, <3>1 DEF DisableNotSaved
    <2> QED
        BY <1>3, <2>1, <2>2, <2>3, <2>4, <2>5 DEF DisableStep
<1>4. CASE SetSidebarVisible(p)
    <2>1. \A q, t : At(q, t)' <=> At(q, t)
        BY <1>4, Stayed DEF SetSidebarVisible, memory
    <2> QED
        BY <1>1, <1>4, <2>1 DEF SetSidebarVisible, memory
<1> QED
    BY <1>2, <1>3, <1>4

-----------------------------------------------------------------------------
LEMMA NextIInv == IInv /\ [Next]_vars => IInv'
<1> SUFFICES ASSUME IInv, [Next]_vars PROVE IInv'
    OBVIOUS
<1>1. CASE BootStep \/ Crash
    BY <1>1, BootKeepsInv
<1>2. ASSUME NEW p \in Plugin,
             EnableStep(p) \/ DisableStep(p) \/ SetSidebarVisible(p)
      PROVE  IInv'
    BY <1>2, OpsKeepBoot, OpsKeepTypes, OpsKeepDeps, OpsKeepEnable, OpsKeepDisable,
       OpsKeepConsistent
       DEF IInv
<1>3. CASE UNCHANGED vars
    <2> USE <1>3, PluginKinds DEF vars, memory, IInv
    <2>1. TypeOK'
        BY DEF TypeOK
    <2>2. OrderIsTopological' /\ LoopPosition' /\ BootProgress'
        <3>1. OrderIsTopological'
            BY DEF TypeOK, OrderIsTopological
        <3>2. LoopPosition'
            BY DEF LoopPosition, Ordered
        <3>3. BootProgress'
            BY DEF BootProgress, Ordered, Done, IsEnabled
        <3> QED
            BY <3>1, <3>2, <3>3
    <2>3. DepsClosed' /\ GuardCovers'
        BY DEF TypeOK, DepsClosed, GuardCovers, IsEnabled
    <2>4. EnableProgress' /\ DisableProgress' /\ OthersConsistent'
        BY DEF TypeOK, EnableProgress, DisableProgress, OthersConsistent, IsEnabled, At
    <2> QED
        BY <2>1, <2>2, <2>3, <2>4
<1> QED
    BY <1>1, <1>2, <1>3 DEF Next

(* The manager's invariant holds in every reachable state, at boot,        *)
(* between operations and inside each of them.                             *)
THEOREM Invariance == Spec => []IInv
BY InitIInv, NextIInv, PTL DEF Spec

(* The state of the plugin manager is well typed. *)
THEOREM TypeCorrect == Spec => []TypeOK
<1>1. IInv => TypeOK
    BY DEF IInv
<1> QED
    BY <1>1, Invariance, PTL

(* Whatever the dependency graph, no plugin enabled by Enable or by default *)
(* has a dependency that is not enabled.                                    *)
THEOREM EnabledWithDeps == Spec => []DepsClosed
<1>1. IInv => DepsClosed
    BY DEF IInv
<1> QED
    BY <1>1, Invariance, PTL

(* The guard middleware never lets a request reach a plugin that is not     *)
(* enabled.                                                                 *)
THEOREM DisabledIsGuarded == Spec => []GuardCovers
<1>1. IInv => GuardCovers
    BY DEF IInv
<1> QED
    BY <1>1, Invariance, PTL

(* Rows, background tasks and guard agree between two operations. *)
THEOREM RecordsAgree == Spec => []Consistent
<1>1. IInv => Consistent
    BY DEF IInv, OthersConsistent, Consistent, At
<1> QED
    BY <1>1, Invariance, PTL

(* StartAll starts an enabled plugin after the enabled plugins it needs.    *)
THEOREM BootInOrder == Spec => []BootOrder
<1>1. IInv => BootOrder
    <2> SUFFICES ASSUME IInv, phase = "start", NEW p \in running, NEW d \in deps[p],
                        IsEnabled(d)
                 PROVE  d \in running
        BY DEF BootOrder
    <2>1. p \in Plugin /\ d \in Plugin
        BY PluginKinds DEF IInv, TypeOK
    <2>2. PICK i \in 1..(Len(order) - Len(todo)) : order[i] = p
        BY <2>1 DEF IInv, BootProgress, Done
    <2>3. Len(order) \in Nat /\ Len(todo) \in Nat
        BY LoopTurn
    <2>4. i \in 1..Len(order)
        BY <2>2, <2>3
    <2>5. PICK j \in 1..(i - 1) : order[j] = d
        BY <2>2, <2>4 DEF IInv, OrderIsTopological
    <2>6. j \in 1..(Len(order) - Len(todo))
        BY <2>2, <2>3, <2>5
    <2> QED
        BY <2>1, <2>5, <2>6 DEF IInv, BootProgress, Done
<1> QED
    BY <1>1, Invariance, PTL

-----------------------------------------------------------------------------
(* The loops and the repairs of monitoring.  A loop that waits listens on  *)
(* the channel that the field holds now, or on one that has been closed    *)
(* (Stoppable); the time on record is that of the last repair, and a repair *)
(* that has passed its check saw one that is long over (ChecksHold).       *)

LoopRecord == [at : {"none", "sample", "judge", "look", "listen"}, ear : Int]
HealRecord == [at : {"none", "check", "diagnose", "act", "done"},
               mode : {"notify", "suggest", "auto"}, seen : Int]

MonitoringTypes ==
    /\ stopCh \in 0..MaxStarts /\ closed \subseteq Monitor!Channel
    /\ loop \in [Monitor!Loop -> LoopRecord]
    /\ mode \in [Rule -> {"notify", "suggest", "auto"}]
    /\ heal \in [Monitor!Healer -> HealRecord] /\ acted \in Int /\ now \in Int

(* A loop that exists was started, so that its channel is not nil; the one *)
(* it listens to is the field's, or was closed when the field moved on.    *)
Stoppable ==
    \A l \in Monitor!Loop :
        /\ loop[l].at # "none" => stopCh # 0
        /\ loop[l].at = "listen" => loop[l].ear \in closed \cup {stopCh}

(* A repair that has passed its check saw one long over, or none.          *)
ChecksHold ==
    /\ lastHeal = acted
    /\ \A h \in Monitor!Healer : heal[h].at \in {"diagnose", "act"}
          => now - heal[h].seen >= HealWindow

MonitoringInv == MonitoringTypes /\ Stoppable /\ ChecksHold

LEMMA Limits ==
    ASSUME Monitor!MonitoringAssumption
    PROVE  /\ Duration \in Nat /\ Cooldown \in Nat /\ HealWindow \in Nat /\ HealWindow > 0
           /\ MaxStarts \in Nat /\ MaxHeals \in Nat /\ MaxTime \in Nat /\ Monitor!Never \in Int
BY DEF Monitor!MonitoringAssumption, Monitor!Never

LEMMA InitMonitoringInv ==
    ASSUME Monitor!MonitoringAssumption, Monitor!Init PROVE MonitoringInv
<1>1. Monitor!Gone \in LoopRecord /\ Monitor!Gone.at = "none" /\ Monitor!NoHeal \in HealRecord
         /\ Monitor!NoHeal.at = "none"
    BY Limits DEF Monitor!Gone, Monitor!NoHeal, LoopRecord, HealRecord
<1>2. loop \in [Monitor!Loop -> LoopRecord] /\ \A l \in Monitor!Loop : loop[l].at = "none"
    BY <1>1 DEF Monitor!Init
<1>3. heal \in [Monitor!Healer -> HealRecord] /\ \A h \in Monitor!Healer : heal[h].at = "none"
    BY <1>1 DEF Monitor!Init
<1>4. MonitoringTypes
    BY <1>2, <1>3, Limits DEF Monitor!Init, MonitoringTypes
<1>5. Stoppable /\ ChecksHold
    BY <1>2, <1>3 DEF Monitor!Init, Stoppable, ChecksHold
<1> QED
    BY <1>4, <1>5 DEF MonitoringInv

(* A loop that moves without listening anew. *)
LEMMA LoopMoves ==
    ASSUME MonitoringTypes, Stoppable, NEW l \in Monitor!Loop,
           NEW at \in {"sample", "judge", "look"},
           loop' = [loop EXCEPT ![l].at = at], closed \subseteq closed',
           stopCh' = stopCh \/ stopCh \in closed' \/ stopCh = 0,
           stopCh' # 0
    PROVE  loop' \in [Monitor!Loop -> LoopRecord] /\ Stoppable'
<1>1. /\ \A k \in Monitor!Loop : k # l => loop'[k] = loop[k]
      /\ loop'[l] = [loop[l] EXCEPT !.at = at] /\ loop[l] \in LoopRecord
    BY DEF MonitoringTypes
<1>2. loop'[l] \in LoopRecord /\ loop'[l].at = at
    BY <1>1 DEF LoopRecord
<1>3. loop' \in [Monitor!Loop -> LoopRecord]
    BY <1>1, <1>2 DEF MonitoringTypes
<1>4. Stoppable'
    BY <1>1, <1>2 DEF Stoppable
<1> QED
    BY <1>3, <1>4

LEMMA LoopsKeep ==
    ASSUME Monitor!MonitoringAssumption, MonitoringTypes, Stoppable, Monitor!Start \/ Monitor!Stop
              \/ Monitor!Crash
    PROVE  stopCh' \in 0..MaxStarts /\ closed' \subseteq Monitor!Channel
              /\ loop' \in [Monitor!Loop -> LoopRecord]
           /\ Stoppable'
<1>1. CASE Monitor!Start
    <2>1. /\ stopCh' = stopCh + 1 /\ closed' = Monitor!Closing /\ stopCh + 1 \in Monitor!Loop
          /\ loop' = [loop EXCEPT ![stopCh + 1].at = "sample"]
        BY <1>1, Limits
           DEF Monitor!Start, Monitor!StartLoops, MonitoringTypes, Monitor!Loop,
               Monitor!Channel
    <2>2. /\ stopCh' \in 0..MaxStarts /\ stopCh' # 0 /\ closed' \subseteq Monitor!Channel
          /\ closed \subseteq closed' /\ (stopCh \in closed' \/ stopCh = 0)
        BY <2>1, Limits DEF MonitoringTypes, Monitor!Closing, Monitor!Channel, Monitor!Loop
    <2> QED
        BY <2>1, <2>2, LoopMoves
<1>2. CASE Monitor!Stop
    BY <1>2, Limits
       DEF Monitor!Stop, Monitor!Closing, Stoppable, MonitoringTypes, Monitor!Channel
<1>3. CASE Monitor!Crash
    <2>1. Monitor!Gone \in LoopRecord /\ Monitor!Gone.at = "none"
        BY DEF Monitor!Gone, LoopRecord
    <2>2. loop' \in [Monitor!Loop -> LoopRecord] /\ \A l \in Monitor!Loop : loop'[l].at = "none"
        BY <1>3, <2>1 DEF Monitor!Crash
    <2> QED
        BY <1>3, <2>2 DEF Monitor!Crash, Stoppable, MonitoringTypes
<1> QED
    BY <1>1, <1>2, <1>3

LEMMA LoopStepKeeps ==
    ASSUME Monitor!MonitoringAssumption, MonitoringTypes, Stoppable, NEW l \in Monitor!Loop,
           Monitor!LoopStep(l)
    PROVE  UNCHANGED Monitor!lifecycle /\ loop' \in [Monitor!Loop -> LoopRecord] /\ Stoppable'
<1>1. UNCHANGED Monitor!lifecycle /\ loop[l] \in LoopRecord
    BY DEF MonitoringTypes, Monitor!LoopStep, Monitor!Sample, Monitor!SampleFails,
           Monitor!Judge, Monitor!Judged, Monitor!Look, Monitor!Ring, Monitor!Exit
<1>2. UNCHANGED <<stopCh, closed>>
    BY <1>1 DEF Monitor!lifecycle
<1>3. CASE Monitor!Sample(l) \/ Monitor!SampleFails(l) \/ Monitor!Judged(l) \/ Monitor!Ring(l)
    <2>1. PICK at \in {"sample", "judge", "look"} : loop' = [loop EXCEPT ![l].at = at]
        BY <1>3
           DEF Monitor!Sample, Monitor!SampleFails, Monitor!Judged, Monitor!Ring, Monitor!To
    <2>2. stopCh # 0
        BY <1>3
           DEF Stoppable, Monitor!Sample, Monitor!SampleFails, Monitor!Judged, Monitor!Ring
    <2> QED
        BY <1>1, <1>2, <2>1, <2>2, LoopMoves
<1>4. CASE \E r \in Rule : Monitor!Judge(l, r)
    BY <1>1, <1>2, <1>4 DEF Monitor!Judge, MonitoringTypes, Stoppable
<1>5. CASE Monitor!Look(l)
    <2> DEFINE to == [at |-> "listen", ear |-> stopCh]
    <2>1. to \in LoopRecord /\ to.at = "listen" /\ to.ear = stopCh /\ stopCh # 0
        BY <1>5, Limits DEF LoopRecord, MonitoringTypes, Monitor!Look, Stoppable
    <2>2. loop' = [loop EXCEPT ![l] = to]
        BY <1>5 DEF Monitor!Look
    <2> HIDE DEF to
    <2>3. loop' \in [Monitor!Loop -> LoopRecord]
             /\ \A k \in Monitor!Loop : loop'[k] = IF k = l THEN to ELSE loop[k]
        BY <2>1, <2>2 DEF MonitoringTypes
    <2> QED
        BY <1>1, <1>2, <2>1, <2>3 DEF Stoppable
<1>6. CASE Monitor!Exit(l)
    <2>1. Monitor!Gone \in LoopRecord /\ Monitor!Gone.at = "none"
        BY DEF LoopRecord, Monitor!Gone
    <2>2. loop' \in [Monitor!Loop -> LoopRecord]
          /\ \A k \in Monitor!Loop : loop'[k] = IF k = l THEN Monitor!Gone ELSE loop[k]
        BY <1>6, <2>1 DEF MonitoringTypes, Monitor!Exit
    <2> QED
        BY <1>1, <1>2, <2>1, <2>2 DEF Stoppable
<1> QED
    BY <1>3, <1>4, <1>5, <1>6 DEF Monitor!LoopStep

(* A goroutine of handleAlert moves to a stage before its check or after   *)
(* its repair, or goes on from the check it has passed.                    *)
LEMMA HealMoves ==
    ASSUME MonitoringTypes, ChecksHold, NEW h \in Monitor!Healer, NEW to \in HealRecord,
           to.at \in {"diagnose", "act"} => now - to.seen >= HealWindow,
           heal' = [heal EXCEPT ![h] = to], lastHeal' = acted', UNCHANGED now
    PROVE  heal' \in [Monitor!Healer -> HealRecord] /\ ChecksHold'
<1>1. \A k \in Monitor!Healer : heal'[k] = IF k = h THEN to ELSE heal[k]
    BY DEF MonitoringTypes
<1>2. heal' \in [Monitor!Healer -> HealRecord]
    BY DEF MonitoringTypes
<1>3. ChecksHold'
    BY <1>1 DEF ChecksHold
<1> QED
    BY <1>2, <1>3

LEMMA HealStepKeeps ==
    ASSUME Monitor!MonitoringAssumption, MonitoringTypes, ChecksHold, NEW h \in Monitor!Healer,
           Monitor!HealStep(h)
    PROVE  /\ UNCHANGED <<Monitor!lifecycle, loop, mode, now>> /\ acted' \in Int
           /\ heal' \in [Monitor!Healer -> HealRecord] /\ ChecksHold'
<1>1. /\ UNCHANGED <<Monitor!lifecycle, loop, mode, now>> /\ acted' \in {acted, now}
      /\ lastHeal' = acted'
    BY DEF ChecksHold, Monitor!HealStep, Monitor!HealCheck, Monitor!HealDiagnose,
           Monitor!HealAct
<1>2. heal[h] \in HealRecord /\ acted \in Int /\ now \in Int /\ HealWindow \in Int /\ acted' \in Int
    BY <1>1, Limits DEF MonitoringTypes
<1>3. \A at \in {"act", "done"} :
         /\ [heal[h] EXCEPT !.at = at] \in HealRecord
         /\ [heal[h] EXCEPT !.at = at].at = at
         /\ [heal[h] EXCEPT !.at = at].seen = heal[h].seen
    BY <1>2 DEF HealRecord
<1>4. ASSUME NEW at \in {"act", "done"}, Monitor!HealTo(h, at),
             at = "act" => heal[h].at = "diagnose"
      PROVE  heal' \in [Monitor!Healer -> HealRecord] /\ ChecksHold'
    <2> DEFINE to == [heal[h] EXCEPT !.at = at]
    <2>1. to \in HealRecord /\ to.at = at /\ to.seen = heal[h].seen
        BY <1>3
    <2>2. heal' = [heal EXCEPT ![h] = to]
        BY <1>4 DEF Monitor!HealTo
    <2>3. to.at \in {"diagnose", "act"} => now - to.seen >= HealWindow
        BY <1>4, <2>1 DEF ChecksHold
    <2> HIDE DEF to
    <2> QED
        BY <1>1, <2>1, <2>2, <2>3, HealMoves
<1>5. CASE Monitor!HealCheck(h) /\ now - lastHeal < HealWindow
    BY <1>1, <1>2, <1>4, <1>5 DEF Monitor!HealCheck
<1>6. CASE Monitor!HealCheck(h) /\ ~(now - lastHeal < HealWindow)
    <2> DEFINE to == [heal[h] EXCEPT !.at = "diagnose", !.seen = acted]
    <2>1. to \in HealRecord /\ to.seen = acted
        BY <1>2 DEF HealRecord
    <2>2. heal' = [heal EXCEPT ![h] = to]
        BY <1>6 DEF Monitor!HealCheck
    <2>3. now - to.seen >= HealWindow
        BY <1>2, <1>6, <2>1 DEF ChecksHold
    <2> HIDE DEF to
    <2> QED
        BY <1>1, <1>2, <2>1, <2>2, <2>3, HealMoves
<1>7. CASE Monitor!HealDiagnose(h)
    BY <1>1, <1>2, <1>4, <1>7 DEF Monitor!HealDiagnose
<1>8. CASE Monitor!HealAct(h)
    BY <1>1, <1>2, <1>4, <1>8 DEF Monitor!HealAct
<1> QED
    BY <1>5, <1>6, <1>7, <1>8 DEF Monitor!HealStep

(* A goroutine that Publish starts has its check before it. *)
LEMMA PublishKeeps ==
    ASSUME MonitoringTypes, ChecksHold, NEW r \in Rule, Monitor!Publish(r) \/ UNCHANGED heal,
           UNCHANGED <<lastHeal, acted, now>>
    PROVE  heal' \in [Monitor!Healer -> HealRecord] /\ ChecksHold'
<1>1. CASE UNCHANGED heal
    BY <1>1 DEF MonitoringTypes, ChecksHold
<1>2. CASE ~UNCHANGED heal
    <2>1. PICK h \in Monitor!Healer :
             heal' = [heal EXCEPT ![h] = [heal[h] EXCEPT !.at = "check", !.mode = mode[r]]]
        BY <1>2 DEF Monitor!Publish
    <2> DEFINE to == [heal[h] EXCEPT !.at = "check", !.mode = mode[r]]
    <2>2. heal[h] \in HealRecord /\ mode[r] \in {"notify", "suggest", "auto"}
        BY DEF MonitoringTypes
    <2>3. to \in HealRecord /\ to.at = "check"
        BY <2>2 DEF HealRecord
    <2>4. lastHeal' = acted'
        BY DEF ChecksHold
    <2>5. heal' = [heal EXCEPT ![h] = to]
        BY <2>1
    <2> HIDE DEF to
    <2> QED
        BY <2>3, <2>4, <2>5, HealMoves
<1> QED
    BY <1>1, <1>2

LEMMA MonitoringStep ==
    ASSUME Monitor!MonitoringAssumption, MonitoringInv, [Monitor!Next]_(Monitor!vars)
    PROVE  MonitoringInv'
<1>1. MonitoringTypes /\ Stoppable /\ ChecksHold
    BY DEF MonitoringInv
<1>2. CASE Monitor!Start \/ Monitor!Stop
    <2>1. UNCHANGED <<mode, Monitor!healing, now>>
        BY <1>2 DEF Monitor!Start, Monitor!StartLoops, Monitor!Stop
    <2>2. stopCh' \in 0..MaxStarts /\ closed' \subseteq Monitor!Channel
             /\ loop' \in [Monitor!Loop -> LoopRecord]
          /\ Stoppable'
        BY <1>1, <1>2, LoopsKeep
    <2> QED
        BY <1>1, <2>1, <2>2 DEF MonitoringInv, MonitoringTypes, ChecksHold, Monitor!healing
<1>3. CASE Monitor!Crash
    <2>1. stopCh' \in 0..MaxStarts /\ closed' \subseteq Monitor!Channel
             /\ loop' \in [Monitor!Loop -> LoopRecord]
          /\ Stoppable'
        BY <1>1, <1>3, LoopsKeep
    <2>2. \A h \in Monitor!Healer : /\ [heal[h] EXCEPT !.at = "done"] \in HealRecord
                            /\ [heal[h] EXCEPT !.at = "done"].at = "done"
        BY <1>1 DEF MonitoringTypes, HealRecord
    <2>3. Monitor!NoHeal \in HealRecord /\ Monitor!NoHeal.at = "none"
        BY Limits DEF Monitor!NoHeal, HealRecord
    <2>4. heal' = [h \in Monitor!Healer |-> IF heal[h] = Monitor!NoHeal THEN Monitor!NoHeal
                                    ELSE [heal[h] EXCEPT !.at = "done"]]
        BY <1>3 DEF Monitor!Crash
    <2>5. heal' \in [Monitor!Healer -> HealRecord]
             /\ \A h \in Monitor!Healer : heal'[h].at \in {"none", "done"}
        BY <2>2, <2>3, <2>4
    <2>6. UNCHANGED <<mode, now>> /\ lastHeal' = Monitor!Never /\ acted' = Monitor!Never
             /\ Monitor!Never \in Int
        BY <1>3, Limits DEF Monitor!Crash
    <2> QED
        BY <1>1, <2>1, <2>5, <2>6 DEF MonitoringInv, MonitoringTypes, ChecksHold
<1>4. CASE \E l \in Monitor!Loop : Monitor!LoopStep(l)
    <2>1. PICK l \in Monitor!Loop : Monitor!LoopStep(l)
        BY <1>4
    <2>2. UNCHANGED Monitor!lifecycle /\ loop' \in [Monitor!Loop -> LoopRecord] /\ Stoppable'
        BY <1>1, <2>1, LoopStepKeeps
    <2>3. UNCHANGED <<mode, lastHeal, acted, now>>
        BY <2>1
           DEF Monitor!LoopStep, Monitor!Sample, Monitor!SampleFails, Monitor!Judge,
               Monitor!Judged, Monitor!Look, Monitor!Ring, Monitor!Exit, Monitor!healing
    <2>4. UNCHANGED heal \/ \E r \in Rule : Monitor!Publish(r)
        BY <2>1
           DEF Monitor!LoopStep, Monitor!Sample, Monitor!SampleFails, Monitor!Judge,
               Monitor!Judged, Monitor!Look, Monitor!Ring, Monitor!Exit, Monitor!healing
    <2>5. heal' \in [Monitor!Healer -> HealRecord] /\ ChecksHold'
        BY <1>1, <2>3, <2>4, PublishKeeps DEF MonitoringTypes, ChecksHold
    <2> QED
        BY <1>1, <2>2, <2>3, <2>5 DEF MonitoringInv, MonitoringTypes, Monitor!lifecycle
<1>5. CASE \E h \in Monitor!Healer : Monitor!HealStep(h)
    <2>1. /\ UNCHANGED <<Monitor!lifecycle, loop, mode, now>> /\ acted' \in Int
          /\ heal' \in [Monitor!Healer -> HealRecord] /\ ChecksHold'
        BY <1>1, <1>5, HealStepKeeps
    <2> QED
        BY <1>1, <2>1 DEF MonitoringInv, MonitoringTypes, Stoppable, Monitor!lifecycle
<1>6. CASE Monitor!ToggleAI \/ (\E r \in Rule : Monitor!UpdateAlertRule(r))
              \/ UNCHANGED Monitor!vars
    <2>1. UNCHANGED <<stopCh, closed, loop, mode, heal, lastHeal, acted, now>>
        BY <1>6
           DEF Monitor!ToggleAI, Monitor!UpdateAlertRule, Monitor!vars, Monitor!lifecycle,
               Monitor!healing
    <2> QED
        BY <1>1, <2>1 DEF MonitoringInv, MonitoringTypes, Stoppable, ChecksHold
<1>7. CASE Monitor!Tick
    <2>1. UNCHANGED <<stopCh, closed, loop, mode, heal, lastHeal, acted>> /\ now' = now + 1
        BY <1>7 DEF Monitor!Tick, Monitor!lifecycle, Monitor!healing
    <2>2. \A h \in Monitor!Healer : heal[h].seen \in Int
        BY <1>1 DEF MonitoringTypes, HealRecord
    <2>3. ChecksHold'
        BY <1>1, <2>1, <2>2, Limits DEF MonitoringTypes, ChecksHold
    <2> QED
        BY <1>1, <2>1, <2>3 DEF MonitoringInv, MonitoringTypes, Stoppable
<1> QED
    BY <1>2, <1>3, <1>4, <1>5, <1>6, <1>7 DEF Monitor!Next

(* MonitoringInv holds in every state of monitoring. *)
THEOREM MonitoringInvariance == Monitor!MonitoringAssumption /\ Monitor!Spec => []MonitoringInv
<1> SUFFICES ASSUME Monitor!MonitoringAssumption PROVE Monitor!Spec => []MonitoringInv
    OBVIOUS
<1>1. Monitor!Init => MonitoringInv
    BY InitMonitoringInv
<1>2. MonitoringInv /\ [Monitor!Next]_(Monitor!vars) => MonitoringInv'
    BY MonitoringStep
<1> QED
    BY <1>1, <1>2, PTL DEF Monitor!Spec

(* Whatever Start and Stop are called meanwhile, the channel a collector   *)
(* listens to is closed or is the one the next Stop closes.                *)
THEOREM LoopsCanBeStopped == Monitor!MonitoringAssumption /\ Monitor!Spec
   => []Monitor!NoLoopIsAbandoned
<1>1. MonitoringInv => Monitor!NoLoopIsAbandoned
    BY DEF MonitoringInv, Stoppable, Monitor!NoLoopIsAbandoned
<1> QED
    BY <1>1, MonitoringInvariance, PTL

(* A repair carried out keeps five minutes from the last one its goroutine *)
(* saw (selfheal.go), unless another goroutine's came between.             *)
THEOREM RepairsKeepApart == Monitor!MonitoringAssumption /\ Monitor!Spec => Monitor!HealsKeepApart
<1>1. MonitoringInv /\ [Monitor!Next]_(Monitor!vars) =>
        [\A h \in Monitor!Healer :
          (heal[h].at = "act" /\ acted' # acted /\ heal'[h].at = "done" /\ heal[h].seen = acted)
              => (now - acted >= HealWindow \/ acted' = Monitor!Never)]_(Monitor!vars)
    BY DEF MonitoringInv, ChecksHold
<1> QED
    BY <1>1, MonitoringInvariance, PTL DEF Monitor!Spec, Monitor!HealsKeepApart

-----------------------------------------------------------------------------
(* A behaviour of the composition is one of each part: the part that does  *)
(* not move stutters.                                                      *)
THEOREM Composition == MCSpec => Spec /\ Monitor!Spec
<1>1. MCInit => Init /\ Monitor!Init
    BY DEF MCInit
<1>2. [MCNext]_<<part, vars, monitorVars>> => [Next]_vars /\ [Monitor!Next]_(Monitor!vars)
    BY DEF MCNext, monitorVars, Monitor!vars
<1> QED
    BY <1>1, <1>2, PTL DEF MCSpec, Spec, Monitor!Spec

(* Whichever loops of monitoring miss a restart, each of them can still be *)
(* stopped.                                                                *)
THEOREM NoLoopIsLeft == MCSpec => []NoLoopIsAbandoned
<1>1. Monitor!NoLoopIsAbandoned => NoLoopIsAbandoned
    BY DEF NoLoopIsAbandoned
<1> QED
    BY <1>1, Composition, LoopsCanBeStopped, MonitorAssumption, PTL

(* A repair keeps its distance from the one before its check.              *)
THEOREM HealsKeepTheirDistance == MCSpec => HealsKeepApart
BY Composition, RepairsKeepApart, MonitorAssumption, PTL DEF HealsKeepApart
=============================================================================

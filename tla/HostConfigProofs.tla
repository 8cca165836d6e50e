--------------------------- MODULE HostConfigProofs ---------------------------
(***************************************************************************)
(* Proofs about the configuration pipeline, for every set of goroutines,   *)
(* of hosts and of hosts that fail to validate or to load.                 *)
(***************************************************************************)
EXTENDS HostConfig, TLAPS

USE GoroutineKinds, HostKinds, Bounds

LEMMA InitIInv == Init => IInv
BY DEF Init, IInv, TypeOK, CoalescerInUse, OnlyValidConfig, CaddyHasBinary, AloneIsAlone,
       UndisturbedProgress, RC!Init, RC!TypeOK, RC!Calling, RC!AnsweredOnce, RC!OutcomeKnown, RC!Results,
       RC!InFlight, Goroutine, Steps, Succeeded, Found, Config, Down, OthersIdle, Validates,
       AfterWrite, Reloading

-----------------------------------------------------------------------------
(* Each conjunct of the invariant is kept by every step. *)

LEMMA TypeStep == IInv /\ [Next]_vars => TypeOK'
<1> SUFFICES ASSUME IInv, [Next]_vars PROVE TypeOK'
    OBVIOUS
<1> USE DEF IInv, TypeOK, disk, text, coalescer, RC!TypeOK, RC!Results, RC!InFlight,
            Config, Down, Running, Found, Steps, Succeeded, Goto, Begins, Goroutine
<1>1. ASSUME NEW p \in Handler, ChangeHost(p) PROVE TypeOK'
    BY <1>1 DEF ChangeHost
<1>2. ASSUME NEW e \in Editor, PageRequest(e) PROVE TypeOK'
    BY <1>2 DEF PageRequest, Save, PressReload, StopCaddy, PressStart, InstallBinary, WriteCaddyfile, Writable
<1>3. ASSUME NEW p \in Goroutine, ApplyStep(p) PROVE TypeOK'
    <2>1. CASE Render(p)        BY <2>1 DEF Render, Renders
    <2>2. CASE ReadOld(p)       BY <2>2 DEF ReadOld
    <2>3. CASE WriteConfig(p)   BY <2>3 DEF WriteConfig, WriteCaddyfile, Writable
    <2>4. CASE CheckRunning(p)  BY <2>4 DEF CheckRunning
    <2>5. CASE RequestReload(p)
        BY <2>5 DEF RequestReload, RC!Request, RC!Rearmed, RC!StopSucceeds
    <2>6. CASE Answered(p)      BY <2>6 DEF Answered, RC!Return
    <2>7. CASE Rollback(p)      BY <2>7 DEF Rollback, WriteCaddyfile, Writable
    <2>8. CASE StartForApply(p) BY <2>8 DEF StartForApply, StartCaddy
    <2>9. CASE Finish(p)        BY <2>9 DEF Finish
    <2>10. QED
        BY <1>3, <2>1, <2>2, <2>3, <2>4, <2>5, <2>6, <2>7, <2>8, <2>9 DEF ApplyStep
<1>4. ASSUME NEW e \in Goroutine, PageStep(e) PROVE TypeOK'
    BY <1>4 DEF PageStep, ReloadReads, ReloadLoads, LoadIntoCaddy, Accepts,
                StartFromPage, StartCaddy
<1>5. CASE BootStart
    BY <1>5 DEF BootStart, StartCaddy
<1>6. CASE CallbackStep
    <2>1. CASE FireTimer     BY <2>1 DEF FireTimer, RC!FireTimer
    <2>2. CASE CallbackReads BY <2>2 DEF CallbackReads, RC!StartReload
    <2>3. CASE CallbackLoads
        BY <2>3 DEF CallbackLoads, RC!EndReload, LoadIntoCaddy, Accepts
    <2>4. CASE Drain         BY <2>4 DEF Drain, RC!Drain
    <2>5. CASE CallbackFails BY <2>5 DEF CallbackFails, RC!EndReload, LoadIntoCaddy, Accepts
    <2>6. QED
        BY <1>6, <2>1, <2>2, <2>3, <2>4, <2>5 DEF CallbackStep
<1>7. CASE SetAutoReload
    BY <1>7 DEF SetAutoReload
<1>8. CASE CaddyDies
    BY <1>8 DEF CaddyDies
<1>9. CASE PanelCrash
    <2>1. InFlightReads \in SUBSET Config
        BY DEF InFlightReads
    <2>2. caddy' \in {Down} \cup {Running(conf) : conf \in Config}
        BY <1>9, <2>1 DEF PanelCrash, LoadIntoCaddy
    <2>3. RC!TypeOK'
        BY <1>9 DEF PanelCrash
    <2>4. QED
        BY <1>9, <2>2, <2>3 DEF PanelCrash
<1>10. ASSUME NEW g \in Goroutine, CommandFails(g) PROVE TypeOK'
    BY <1>10 DEF CommandFails
<1>11. CASE UNCHANGED vars
    BY <1>11 DEF vars, disk, text, coalescer
<1>12. QED
    BY <1>1, <1>2, <1>3, <1>4, <1>5, <1>6, <1>7, <1>8, <1>9, <1>10, <1>11
       DEF Next, Continue

LEMMA CoalescerStep == IInv /\ [Next]_vars => CoalescerInUse'
<1> SUFFICES ASSUME IInv, [Next]_vars PROVE CoalescerInUse'
    OBVIOUS
<1> USE DEF IInv, TypeOK, Found, CoalescerInUse, disk, text, coalescer, RC!TypeOK, RC!Results,
            RC!InFlight, RC!Calling, RC!AnsweredOnce, RC!OutcomeKnown, Goto, Goroutine, Steps, Succeeded
<1>1. ASSUME NEW p \in Handler, ChangeHost(p) PROVE CoalescerInUse'
    BY <1>1 DEF ChangeHost
<1>2. ASSUME NEW e \in Editor, PageRequest(e) PROVE CoalescerInUse'
    BY <1>2 DEF PageRequest, Save, PressReload, StopCaddy, PressStart, InstallBinary
<1>3. ASSUME NEW p \in Goroutine, ApplyStep(p) PROVE CoalescerInUse'
    <2>1. CASE Render(p)        BY <2>1 DEF Render
    <2>2. CASE ReadOld(p)       BY <2>2 DEF ReadOld
    <2>3. CASE WriteConfig(p)   BY <2>3 DEF WriteConfig
    <2>4. CASE CheckRunning(p)  BY <2>4 DEF CheckRunning
    <2>5. CASE RequestReload(p)
        BY <2>5 DEF RequestReload, RC!Request, RC!Rearmed, RC!StopSucceeds
    <2>6. CASE Answered(p)      BY <2>6 DEF Answered, RC!Return
    <2>7. CASE Rollback(p)      BY <2>7 DEF Rollback
    <2>8. CASE StartForApply(p) BY <2>8 DEF StartForApply
    <2>9. CASE Finish(p)        BY <2>9 DEF Finish
    <2>10. QED
        BY <1>3, <2>1, <2>2, <2>3, <2>4, <2>5, <2>6, <2>7, <2>8, <2>9 DEF ApplyStep
<1>4. ASSUME NEW e \in Goroutine, PageStep(e) PROVE CoalescerInUse'
    BY <1>4 DEF PageStep, ReloadReads, ReloadLoads, StartFromPage
<1>5. CASE BootStart
    BY <1>5 DEF BootStart
<1>6. CASE CallbackStep
    <2>1. CASE FireTimer     BY <2>1 DEF FireTimer, RC!FireTimer
    <2>2. CASE CallbackReads BY <2>2 DEF CallbackReads, RC!StartReload
    <2>3. CASE CallbackLoads BY <2>3 DEF CallbackLoads, RC!EndReload
    <2>4. CASE Drain         BY <2>4 DEF Drain, RC!Drain
    <2>5. CASE CallbackFails BY <2>5 DEF CallbackFails, RC!EndReload
    <2>6. QED
        BY <1>6, <2>1, <2>2, <2>3, <2>4, <2>5 DEF CallbackStep
<1>7. CASE SetAutoReload
    BY <1>7 DEF SetAutoReload
<1>8. CASE CaddyDies
    BY <1>8 DEF CaddyDies
<1>9. CASE PanelCrash
    BY <1>9 DEF PanelCrash
<1>10. ASSUME NEW g \in Goroutine, CommandFails(g) PROVE CoalescerInUse'
    BY <1>10 DEF CommandFails
<1>11. CASE UNCHANGED vars
    BY <1>11 DEF vars, disk, text, coalescer
<1>12. QED
    BY <1>1, <1>2, <1>3, <1>4, <1>5, <1>6, <1>7, <1>8, <1>9, <1>10, <1>11
       DEF Next, Continue

(* Caddy loads nothing that does not validate. *)
LEMMA LoadsValidates == \A conf \in Config : Loads(conf) => Validates(conf)
BY DEF Loads, Validates

LEMMA ValidStep == IInv /\ [Next]_vars => (OnlyValidConfig /\ CaddyHasBinary)'
<1> SUFFICES ASSUME IInv, [Next]_vars PROVE (OnlyValidConfig /\ CaddyHasBinary)'
    OBVIOUS
<1> USE DEF IInv, TypeOK, Found, OnlyValidConfig, CaddyHasBinary, Validates, Running,
            Down, Config, Goto, disk, text, coalescer, Goroutine, RC!TypeOK
<1>1. ASSUME NEW p \in Handler, ChangeHost(p) PROVE (OnlyValidConfig /\ CaddyHasBinary)'
    BY <1>1 DEF ChangeHost
<1>2. ASSUME NEW e \in Editor, PageRequest(e) PROVE (OnlyValidConfig /\ CaddyHasBinary)'
    <2>1. CASE Save(e)        BY <2>1 DEF Save, WriteCaddyfile, Writable
    <2>2. CASE PressReload(e) BY <2>2 DEF PressReload
    <2>3. CASE StopCaddy(e)   BY <2>3 DEF StopCaddy
    <2>4. CASE PressStart(e)  BY <2>4 DEF PressStart
    <2>5. CASE InstallBinary(e) BY <2>5 DEF InstallBinary
    <2>6. QED
        BY <1>2, <2>1, <2>2, <2>3, <2>4, <2>5 DEF PageRequest
<1>3. ASSUME NEW p \in Goroutine, ApplyStep(p) PROVE (OnlyValidConfig /\ CaddyHasBinary)'
    <2>1. CASE Render(p)        BY <2>1 DEF Render
    <2>2. CASE ReadOld(p)       BY <2>2 DEF ReadOld
    <2>3. CASE WriteConfig(p)   BY <2>3 DEF WriteConfig, WriteCaddyfile, Writable
    <2>4. CASE CheckRunning(p)  BY <2>4 DEF CheckRunning
    <2>5. CASE RequestReload(p) BY <2>5 DEF RequestReload
    <2>6. CASE Answered(p)      BY <2>6 DEF Answered
    <2>7. CASE Rollback(p)      BY <2>7 DEF Rollback, WriteCaddyfile, Writable
    <2>8. CASE StartForApply(p) BY <2>8, LoadsValidates DEF StartForApply, StartCaddy
    <2>9. CASE Finish(p)        BY <2>9 DEF Finish
    <2>10. QED
        BY <1>3, <2>1, <2>2, <2>3, <2>4, <2>5, <2>6, <2>7, <2>8, <2>9 DEF ApplyStep
<1>4. ASSUME NEW e \in Goroutine, PageStep(e) PROVE (OnlyValidConfig /\ CaddyHasBinary)'
    <2>1. CASE ReloadReads(e)   BY <2>1 DEF ReloadReads
    <2>2. CASE ReloadLoads(e)   BY <2>2, LoadsValidates DEF ReloadLoads, LoadIntoCaddy, Accepts
    <2>3. CASE StartFromPage(e) BY <2>3, LoadsValidates DEF StartFromPage, StartCaddy
    <2>4. QED
        BY <1>4, <2>1, <2>2, <2>3 DEF PageStep
<1>5. CASE BootStart
    BY <1>5, LoadsValidates DEF BootStart, StartCaddy
<1>6. CASE CallbackStep
    <2>1. CASE FireTimer     BY <2>1 DEF FireTimer
    <2>2. CASE CallbackReads BY <2>2 DEF CallbackReads
    <2>3. CASE CallbackLoads BY <2>3, LoadsValidates DEF CallbackLoads, LoadIntoCaddy, Accepts
    <2>4. CASE Drain         BY <2>4 DEF Drain
    <2>5. CASE CallbackFails BY <2>5, LoadsValidates DEF CallbackFails, LoadIntoCaddy, Accepts
    <2>6. QED
        BY <1>6, <2>1, <2>2, <2>3, <2>4, <2>5 DEF CallbackStep
<1>7. CASE SetAutoReload
    BY <1>7 DEF SetAutoReload
<1>8. CASE CaddyDies
    BY <1>8 DEF CaddyDies
<1>9. CASE PanelCrash
    BY <1>9, LoadsValidates DEF PanelCrash, InFlightReads, LoadIntoCaddy, Accepts
<1>10. ASSUME NEW g \in Goroutine, CommandFails(g) PROVE (OnlyValidConfig /\ CaddyHasBinary)'
    BY <1>10 DEF CommandFails
<1>11. CASE UNCHANGED vars
    BY <1>11 DEF vars, disk, text, coalescer
<1>12. QED
    BY <1>1, <1>2, <1>3, <1>4, <1>5, <1>6, <1>7, <1>8, <1>9, <1>10, <1>11
       DEF Next, Continue

LEMMA AloneStep == IInv /\ [Next]_vars => AloneIsAlone'
<1> SUFFICES ASSUME IInv, [Next]_vars PROVE AloneIsAlone'
    OBVIOUS
<1> USE DEF IInv, TypeOK, Found, AloneIsAlone, OthersIdle, Begins, Goto, Booted,
            disk, text, coalescer, Goroutine, Succeeded
<1>1. ASSUME NEW p \in Handler, ChangeHost(p) PROVE AloneIsAlone'
    BY <1>1 DEF ChangeHost
<1>2. ASSUME NEW e \in Editor, PageRequest(e) PROVE AloneIsAlone'
    <2>1. CASE Save(e)        BY <2>1 DEF Save
    <2>2. CASE PressReload(e) BY <2>2 DEF PressReload
    <2>3. CASE StopCaddy(e)   BY <2>3 DEF StopCaddy
    <2>4. CASE PressStart(e)  BY <2>4 DEF PressStart
    <2>5. CASE InstallBinary(e) BY <2>5 DEF InstallBinary
    <2>6. QED
        BY <1>2, <2>1, <2>2, <2>3, <2>4, <2>5 DEF PageRequest
<1>3. ASSUME NEW p \in Goroutine, ApplyStep(p) PROVE AloneIsAlone'
    <2>1. CASE Render(p)        BY <2>1 DEF Render
    <2>2. CASE ReadOld(p)       BY <2>2 DEF ReadOld
    <2>3. CASE WriteConfig(p)   BY <2>3 DEF WriteConfig
    <2>4. CASE CheckRunning(p)  BY <2>4 DEF CheckRunning
    <2>5. CASE RequestReload(p) BY <2>5 DEF RequestReload
    <2>6. CASE Answered(p)      BY <2>6 DEF Answered
    <2>7. CASE Rollback(p)      BY <2>7 DEF Rollback
    <2>8. CASE StartForApply(p) BY <2>8 DEF StartForApply
    <2>9. CASE Finish(p)        BY <2>9 DEF Finish
    <2>10. QED
        BY <1>3, <2>1, <2>2, <2>3, <2>4, <2>5, <2>6, <2>7, <2>8, <2>9 DEF ApplyStep
<1>4. ASSUME NEW e \in Goroutine, PageStep(e) PROVE AloneIsAlone'
    <2>1. CASE ReloadReads(e)   BY <2>1 DEF ReloadReads
    <2>2. CASE ReloadLoads(e)   BY <2>2 DEF ReloadLoads
    <2>3. CASE StartFromPage(e) BY <2>3 DEF StartFromPage
    <2>4. QED
        BY <1>4, <2>1, <2>2, <2>3 DEF PageStep
<1>5. CASE BootStart
    BY <1>5 DEF BootStart
<1>6. CASE CallbackStep
    <2>1. CASE FireTimer     BY <2>1 DEF FireTimer
    <2>2. CASE CallbackReads BY <2>2 DEF CallbackReads
    <2>3. CASE CallbackLoads BY <2>3 DEF CallbackLoads
    <2>4. CASE Drain         BY <2>4 DEF Drain
    <2>5. CASE CallbackFails BY <2>5 DEF CallbackFails
    <2>6. QED
        BY <1>6, <2>1, <2>2, <2>3, <2>4, <2>5 DEF CallbackStep
<1>7. CASE SetAutoReload
    BY <1>7 DEF SetAutoReload
<1>8. CASE CaddyDies
    BY <1>8 DEF CaddyDies
<1>9. CASE PanelCrash
    BY <1>9 DEF PanelCrash
<1>10. ASSUME NEW g \in Goroutine, CommandFails(g) PROVE AloneIsAlone'
    BY <1>10 DEF CommandFails
<1>11. CASE UNCHANGED vars
    BY <1>11 DEF vars, disk, text, coalescer
<1>12. QED
    BY <1>1, <1>2, <1>3, <1>4, <1>5, <1>6, <1>7, <1>8, <1>9, <1>10, <1>11
       DEF Next, Continue

LEMMA UndisturbedStep == IInv /\ [Next]_vars => UndisturbedProgress'
<1> SUFFICES ASSUME IInv, [Next]_vars PROVE UndisturbedProgress'
    OBVIOUS
<1> USE DEF IInv, TypeOK, Found, OnlyValidConfig, CaddyHasBinary, CoalescerInUse, AloneIsAlone,
            UndisturbedProgress, InSync, AfterWrite, Reloading, Renders, Validates,
            OthersIdle, Begins, Goto, Booted, disk, text, coalescer, Goroutine, Steps, Succeeded,
            Down, Running, RC!TypeOK, RC!Results, RC!InFlight, RC!Calling,
            RC!AnsweredOnce, RC!OutcomeKnown
<1>1. ASSUME NEW p \in Handler, ChangeHost(p) PROVE UndisturbedProgress'
    BY <1>1 DEF ChangeHost
<1>2. ASSUME NEW e \in Editor, PageRequest(e) PROVE UndisturbedProgress'
    <2>1. CASE Save(e)        BY <2>1 DEF Save, WriteCaddyfile, Writable
    <2>2. CASE PressReload(e) BY <2>2 DEF PressReload
    <2>3. CASE StopCaddy(e)   BY <2>3 DEF StopCaddy
    <2>4. CASE PressStart(e)  BY <2>4 DEF PressStart
    <2>5. CASE InstallBinary(e) BY <2>5 DEF InstallBinary
    <2>6. QED
        BY <1>2, <2>1, <2>2, <2>3, <2>4, <2>5 DEF PageRequest
<1>3. ASSUME NEW p \in Goroutine, ApplyStep(p) PROVE UndisturbedProgress'
    <2>1. CASE Render(p)        BY <2>1 DEF Render
    <2>2. CASE ReadOld(p)       BY <2>2 DEF ReadOld
    <2>3. CASE WriteConfig(p)   BY <2>3 DEF WriteConfig, WriteCaddyfile, Writable
    <2>4. CASE CheckRunning(p)  BY <2>4 DEF CheckRunning
    <2>5. CASE RequestReload(p) BY <2>5 DEF RequestReload, RC!Request, RC!Rearmed, RC!StopSucceeds
    <2>6. CASE Answered(p)      BY <2>6 DEF Answered, RC!Return
    <2>7. CASE Rollback(p)      BY <2>7 DEF Rollback, WriteCaddyfile, Writable
    <2>8. CASE StartForApply(p) BY <2>8 DEF StartForApply, StartCaddy
    <2>9. CASE Finish(p)        BY <2>9 DEF Finish
    <2>10. QED
        BY <1>3, <2>1, <2>2, <2>3, <2>4, <2>5, <2>6, <2>7, <2>8, <2>9 DEF ApplyStep
<1>4. ASSUME NEW e \in Goroutine, PageStep(e) PROVE UndisturbedProgress'
    <2>1. CASE ReloadReads(e)   BY <2>1 DEF ReloadReads
    <2>2. CASE ReloadLoads(e)   BY <2>2 DEF ReloadLoads, LoadIntoCaddy, Accepts
    <2>3. CASE StartFromPage(e) BY <2>3 DEF StartFromPage, StartCaddy
    <2>4. QED
        BY <1>4, <2>1, <2>2, <2>3 DEF PageStep
<1>5. CASE BootStart
    BY <1>5 DEF BootStart, StartCaddy
<1>6. CASE CallbackStep
    <2>1. CASE FireTimer     BY <2>1 DEF FireTimer, RC!FireTimer
    <2>2. CASE CallbackReads BY <2>2 DEF CallbackReads, RC!StartReload
    <2>3. CASE CallbackLoads BY <2>3 DEF CallbackLoads, RC!EndReload, LoadIntoCaddy, Accepts
    <2>4. CASE Drain         BY <2>4 DEF Drain, RC!Drain
    <2>5. CASE CallbackFails BY <2>5 DEF CallbackFails, RC!EndReload, LoadIntoCaddy, Accepts
    <2>6. QED
        BY <1>6, <2>1, <2>2, <2>3, <2>4, <2>5 DEF CallbackStep
<1>7. CASE SetAutoReload
    BY <1>7 DEF SetAutoReload
<1>8. CASE CaddyDies
    BY <1>8 DEF CaddyDies
<1>9. CASE PanelCrash
    BY <1>9 DEF PanelCrash, InFlightReads, LoadIntoCaddy, Accepts
<1>10. ASSUME NEW g \in Goroutine, CommandFails(g) PROVE UndisturbedProgress'
    BY <1>10 DEF CommandFails
<1>11. CASE UNCHANGED vars
    BY <1>11 DEF vars, disk, text, coalescer
<1>12. QED
    BY <1>1, <1>2, <1>3, <1>4, <1>5, <1>6, <1>7, <1>8, <1>9, <1>10, <1>11
       DEF Next, Continue

-----------------------------------------------------------------------------
(* What is on disk, in Caddy and in flight, and where an apply stands that *)
(* nothing overlaps, in every reachable state.                             *)
THEOREM Invariance == Spec => []IInv
<1>1. IInv /\ [Next]_vars => IInv'
    BY TypeStep, CoalescerStep, ValidStep, AloneStep, UndisturbedStep DEF IInv
<1>2. QED
    BY InitIInv, <1>1, PTL DEF Spec

(* Every variable keeps its type. *)
THEOREM TypeCorrect == Spec => []TypeOK
<1>1. IInv => TypeOK
    BY DEF IInv
<1>2. QED
    BY <1>1, Invariance, PTL

(* Caddy never runs what `caddy validate` refuses, and the Caddyfile holds *)
(* it only if it was written without a binary, and never while Caddy runs. *)
THEOREM ConfigIsValid == Spec => []OnlyValidConfig
<1>1. IInv => OnlyValidConfig
    BY DEF IInv
<1>2. QED
    BY <1>1, Invariance, PTL

(* A successful ApplyConfig that nothing overlaps, the boot's included,     *)
(* leaves table, Caddyfile and Caddy in agreement.                          *)
THEOREM UndisturbedApply == Spec => []UndisturbedApplySyncs
<1>1. IInv => UndisturbedApplySyncs
    BY DEF IInv, UndisturbedProgress, UndisturbedApplySyncs, AfterWrite, InSync
<1>2. QED
    BY <1>1, Invariance, PTL

(* A failed ApplyConfig that nothing overlaps leaves the Caddyfile as it was. *)
THEOREM UndisturbedFailure == Spec => []UndisturbedFailureRestores
<1>1. IInv => UndisturbedFailureRestores
    BY DEF IInv, UndisturbedProgress, UndisturbedFailureRestores
<1>2. QED
    BY <1>1, Invariance, PTL
=============================================================================

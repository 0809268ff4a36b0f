------------------------- MODULE Bcm4313Mac_proofs -------------------------
(***************************************************************************)
(* Theorems about Bcm4313Mac, for every length of the watchdog timer and   *)
(* every choice of what the hardware does.                                 *)
(***************************************************************************)
EXTENDS Bcm4313Mac, TLAPS

(***************************************************************************)
(* RunningIsArmed and the type invariant need each other: a tick subtracts *)
(* one from the timer without looking, which stays in 0 .. TMax only       *)
(* because the timer of a running interface is positive.  Their            *)
(* conjunction is inductive; it is split into three parts that the steps   *)
(* below establish one after the other.                                    *)
(***************************************************************************)

\* The timer.
Fed == timer \in 0 .. TMax /\ (running => timer > 0)

\* The types of everything else: the driver's own state and the device's.
TypedDriver ==
  /\ running \in BOOLEAN /\ dead \in BOOLEAN /\ armed \in BOOLEAN
  /\ imask \subseteq Bits /\ radioOff \in BOOLEAN
  /\ task \in BOOLEAN /\ reason \subseteq Bits
  /\ ipc \in {"idle", "harvest", "input", "rest", "hung"}
  /\ up \in BOOLEAN /\ ptask \in BOOLEAN

TypedDevice ==
  /\ hwmask \subseteq Bits /\ ints \subseteq Bits /\ enMac \in BOOLEAN
  /\ core \in {"ok", "gone"} /\ eng \in {"off", "live", "stuck"}
  /\ fault \in BOOLEAN /\ rfd \in BOOLEAN

Typed == TypedDriver /\ TypedDevice

\* What RunningIsArmed says of everything else.
Alive ==
  running => eng = "live" /\ armed /\ imask = Bits /\ ~dead /\ ~radioOff

Armed == Fed /\ Typed /\ Alive

LEMMA ArmedIs == Armed <=> TypeOK /\ RunningIsArmed
  BY Zenon DEF Armed, Fed, Typed, TypedDriver, TypedDevice, Alive, TypeOK, RunningIsArmed

LEMMA ArmedInit == Init => Armed
<1>1. Init => Fed
  BY TMaxAssumption DEF Init, Fed
<1>2. Init => Typed /\ Alive
  BY DEF Init, Typed, TypedDriver, TypedDevice, Alive, Bits
<1> QED
  BY <1>1, <1>2 DEF Armed

-----------------------------------------------------------------------------
(* The timer.  A step leaves it, refills it, or counts it down and stops   *)
(* the interface when it has run out.                                      *)

Left == timer' = timer /\ (running' => running)
Refilled == timer' = TMax
Counted == running /\ timer' = timer - 1 /\ (running' => ~(timer - 1 <= 0))

LEMMA TimerMoves ==
  ASSUME running \in BOOLEAN, [Next]_vars
  PROVE  Left \/ Refilled \/ Counted
<1> USE DEF Left, Refilled, Counted, flags, wdog
<1>1. CASE HwIo
  BY <1>1 DEF HwIo
<1>2. CASE HwGp0
  BY <1>2 DEF HwGp0
<1>3. CASE HwRfSwitch
  BY <1>3 DEF HwRfSwitch
<1>4. CASE HwDmaFault
  BY <1>4 DEF HwDmaFault
<1>5. CASE HwCoreLost
  BY <1>5 DEF HwCoreLost
<1>6. CASE Filter
  BY <1>6 DEF Filter
<1>7. CASE IntrTaskEmpty
  BY <1>7 DEF IntrTaskEmpty
<1>8. CASE IntrTaskBegin
  BY <1>8 DEF IntrTaskBegin
<1>9. CASE Harvest
  BY <1>9 DEF Harvest
<1>10. CASE HarvestInput
  BY <1>10 DEF HarvestInput
<1>11. CASE InputDone
  BY <1>11 DEF InputDone
<1>12. CASE HarvestHangs
  BY <1>12 DEF HarvestHangs
<1>13. CASE IntrTaskEnd
  BY <1>13 DEF IntrTaskEnd
<1>14. CASE TickIdle
  BY <1>14 DEF TickIdle, vars
<1>15. CASE TickCoreLost
  BY <1>15 DEF TickCoreLost, Halt
<1>16. CASE TickDmaFault
  BY <1>16 DEF TickDmaFault, Halt
<1>17. CASE TickTimeout
  BY <1>17, Zenon DEF TickTimeout, HealthyTick, Halt
<1>18. CASE TickHealthy
  BY <1>18 DEF TickHealthy, HealthyTick, Expired
<1>19. CASE InitRefused
  BY <1>19 DEF InitRefused
<1>20. CASE InitResetFails
  BY <1>20 DEF InitResetFails
<1>21. CASE InitStopsEarly
  BY <1>21 DEF InitStopsEarly
<1>22. CASE InitCompletes
  BY <1>22 DEF InitCompletes
<1>23. CASE ParentPromisc
  BY <1>23 DEF ParentPromisc
<1>24. CASE ParentStop
  BY <1>24 DEF ParentStop
<1>25. CASE ParentIgnored
  BY <1>25 DEF ParentIgnored
<1>26. CASE NetUpDown
  BY <1>26 DEF NetUpDown
<1>27. CASE Transmit
  BY <1>27 DEF Transmit
<1>28. CASE NewStateRun
  BY <1>28 DEF NewStateRun
<1>29. CASE NewStateInit
  BY <1>29 DEF NewStateInit
<1>30. CASE UNCHANGED vars
  BY <1>30 DEF vars
<1> QED
  BY <1>1, <1>2, <1>3, <1>4, <1>5, <1>6, <1>7, <1>8, <1>9, <1>10, <1>11, <1>12,
     <1>13, <1>14, <1>15, <1>16, <1>17, <1>18, <1>19, <1>20, <1>21, <1>22, <1>23,
     <1>24, <1>25, <1>26, <1>27, <1>28, <1>29, <1>30
     DEF Next, Hardware, IntrTask, IntrEntry, Tick, Parent, Net80211

LEMMA FedStep == Fed /\ Typed /\ [Next]_vars => Fed'
<1>1. ASSUME Fed, Left \/ Refilled \/ Counted PROVE Fed'
  BY <1>1, TMaxAssumption, SMT DEF Fed, Left, Refilled, Counted
<1> QED
  BY <1>1, TimerMoves DEF Typed, TypedDriver

-----------------------------------------------------------------------------
(* The types.                                                              *)

LEMMA DriverTyped == ASSUME Typed, [Next]_vars PROVE TypedDriver'
<1> USE DEF Typed, TypedDriver, Bits, flags, wdog, intr, net
<1>1. CASE HwIo
  BY <1>1 DEF HwIo
<1>2. CASE HwGp0
  BY <1>2 DEF HwGp0
<1>3. CASE HwRfSwitch
  BY <1>3 DEF HwRfSwitch
<1>4. CASE HwDmaFault
  BY <1>4 DEF HwDmaFault
<1>5. CASE HwCoreLost
  BY <1>5 DEF HwCoreLost
<1>6. CASE Filter
  BY <1>6 DEF Filter
<1>7. CASE IntrTaskEmpty
  BY <1>7 DEF IntrTaskEmpty
<1>8. CASE IntrTaskBegin
  BY <1>8 DEF IntrTaskBegin
<1>9. CASE Harvest
  BY <1>9 DEF Harvest
<1>10. CASE HarvestInput
  BY <1>10 DEF HarvestInput
<1>11. CASE InputDone
  BY <1>11 DEF InputDone
<1>12. CASE HarvestHangs
  BY <1>12 DEF HarvestHangs
<1>13. CASE IntrTaskEnd
  BY <1>13 DEF IntrTaskEnd
<1>14. CASE TickIdle
  BY <1>14 DEF TickIdle, vars
<1>15. CASE TickCoreLost
  BY <1>15 DEF TickCoreLost, Halt
<1>16. CASE TickDmaFault
  BY <1>16 DEF TickDmaFault, Halt
<1>17. CASE TickTimeout
  BY <1>17 DEF TickTimeout, Halt, HealthyTick
<1>18. CASE TickHealthy
  BY <1>18 DEF TickHealthy, HealthyTick
<1>19. CASE InitRefused
  BY <1>19 DEF InitRefused, ParentTask
<1>20. CASE InitResetFails
  BY <1>20 DEF InitResetFails, CoreReset, ParentTask
<1>21. CASE InitStopsEarly
  BY <1>21 DEF InitStopsEarly, ResetDone, CoreReset, ParentTask
<1>22. CASE InitCompletes
  BY <1>22 DEF InitCompletes, ResetDone, CoreReset, ParentTask
<1>23. CASE ParentPromisc
  BY <1>23 DEF ParentPromisc, ParentTask
<1>24. CASE ParentStop
  BY <1>24 DEF ParentStop, ParentTask
<1>25. CASE ParentIgnored
  BY <1>25 DEF ParentIgnored, ParentTask
<1>26. CASE NetUpDown
  BY <1>26 DEF NetUpDown
<1>27. CASE Transmit
  BY <1>27 DEF Transmit
<1>28. CASE NewStateRun
  BY <1>28 DEF NewStateRun
<1>29. CASE NewStateInit
  BY <1>29 DEF NewStateInit
<1>30. CASE UNCHANGED vars
  BY <1>30 DEF vars
<1> QED
  BY <1>1, <1>2, <1>3, <1>4, <1>5, <1>6, <1>7, <1>8, <1>9, <1>10, <1>11, <1>12,
     <1>13, <1>14, <1>15, <1>16, <1>17, <1>18, <1>19, <1>20, <1>21, <1>22, <1>23,
     <1>24, <1>25, <1>26, <1>27, <1>28, <1>29, <1>30
     DEF Next, Hardware, IntrTask, IntrEntry, Tick, Parent, Net80211

LEMMA DeviceTyped == ASSUME Typed, [Next]_vars PROVE TypedDevice'
<1> USE DEF Typed, TypedDriver, TypedDevice, Bits, mac, hw
<1>1. CASE HwIo
  BY <1>1 DEF HwIo
<1>2. CASE HwGp0
  BY <1>2 DEF HwGp0
<1>3. CASE HwRfSwitch
  BY <1>3 DEF HwRfSwitch
<1>4. CASE HwDmaFault
  BY <1>4 DEF HwDmaFault
<1>5. CASE HwCoreLost
  BY <1>5 DEF HwCoreLost
<1>6. CASE Filter
  BY <1>6 DEF Filter
<1>7. CASE IntrTaskEmpty
  BY <1>7 DEF IntrTaskEmpty
<1>8. CASE IntrTaskBegin
  BY <1>8 DEF IntrTaskBegin
<1>9. CASE Harvest
  BY <1>9 DEF Harvest
<1>10. CASE HarvestInput
  BY <1>10 DEF HarvestInput
<1>11. CASE InputDone
  BY <1>11 DEF InputDone
<1>12. CASE HarvestHangs
  BY <1>12 DEF HarvestHangs
<1>13. CASE IntrTaskEnd
  BY <1>13 DEF IntrTaskEnd, MacDisable, Write
<1>14. CASE TickIdle
  BY <1>14 DEF TickIdle, vars
<1>15. CASE TickCoreLost
  BY <1>15 DEF TickCoreLost, Halt, MacDisable, Write
<1>16. CASE TickDmaFault
  BY <1>16 DEF TickDmaFault, Halt, MacDisable, Write
<1>17. CASE TickTimeout
  BY <1>17 DEF TickTimeout, Halt, MacDisable, Write, HealthyTick
<1>18. CASE TickHealthy
  BY <1>18 DEF TickHealthy, HealthyTick
<1>19. CASE InitRefused
  BY <1>19 DEF InitRefused
<1>20. CASE InitResetFails
  BY <1>20 DEF InitResetFails
<1>21. CASE InitStopsEarly
  BY <1>21 DEF InitStopsEarly, ResetDone
<1>22. CASE InitCompletes
  BY <1>22 DEF InitCompletes, ResetDone
<1>23. CASE ParentPromisc
  BY <1>23 DEF ParentPromisc
<1>24. CASE ParentStop
  BY <1>24 DEF ParentStop, MacDisable, Write
<1>25. CASE ParentIgnored
  BY <1>25 DEF ParentIgnored
<1>26. CASE NetUpDown
  BY <1>26 DEF NetUpDown
<1>27. CASE Transmit
  BY <1>27 DEF Transmit
<1>28. CASE NewStateRun
  BY <1>28 DEF NewStateRun, MacEnable, Write
<1>29. CASE NewStateInit
  BY <1>29 DEF NewStateInit, MacDisable, Write
<1>30. CASE UNCHANGED vars
  BY <1>30 DEF vars
<1> QED
  BY <1>1, <1>2, <1>3, <1>4, <1>5, <1>6, <1>7, <1>8, <1>9, <1>10, <1>11, <1>12,
     <1>13, <1>14, <1>15, <1>16, <1>17, <1>18, <1>19, <1>20, <1>21, <1>22, <1>23,
     <1>24, <1>25, <1>26, <1>27, <1>28, <1>29, <1>30
     DEF Next, Hardware, IntrTask, IntrEntry, Tick, Parent, Net80211

-----------------------------------------------------------------------------
(* Steps that change nothing of what RUNNING stands for: most of them.     *)

Quiet ==
  UNCHANGED <<running, dead, armed, imask, radioOff, eng, reason>>

QuietStep ==
  \/ HwIo \/ HwGp0 \/ HwRfSwitch \/ HwDmaFault \/ HwCoreLost \/ Filter
  \/ IntrTaskEmpty \/ Harvest \/ HarvestInput \/ InputDone \/ HarvestHangs
  \/ TickIdle \/ TickHealthy
  \/ InitRefused \/ ParentPromisc \/ ParentIgnored
  \/ Net80211

LEMMA QuietStepIsQuiet == ASSUME QuietStep PROVE Quiet
<1> USE DEF Quiet, flags, wdog, hw, intr
<1>1. CASE HwIo
  BY <1>1 DEF HwIo
<1>2. CASE HwGp0
  BY <1>2 DEF HwGp0
<1>3. CASE HwRfSwitch
  BY <1>3 DEF HwRfSwitch
<1>4. CASE HwDmaFault
  BY <1>4 DEF HwDmaFault
<1>5. CASE HwCoreLost
  BY <1>5 DEF HwCoreLost
<1>6. CASE Filter
  BY <1>6 DEF Filter
<1>7. CASE IntrTaskEmpty
  BY <1>7 DEF IntrTaskEmpty
<1>8. CASE Harvest
  BY <1>8 DEF Harvest
<1>9. CASE HarvestInput
  BY <1>9 DEF HarvestInput
<1>10. CASE InputDone
  BY <1>10 DEF InputDone
<1>11. CASE HarvestHangs
  BY <1>11 DEF HarvestHangs
<1>12. CASE TickIdle
  BY <1>12 DEF TickIdle, vars
<1>13. CASE TickHealthy
  BY <1>13 DEF TickHealthy
<1>14. CASE InitRefused
  BY <1>14 DEF InitRefused
<1>15. CASE ParentPromisc
  BY <1>15 DEF ParentPromisc
<1>16. CASE ParentIgnored
  BY <1>16 DEF ParentIgnored
<1>17. CASE NetUpDown
  BY <1>17 DEF NetUpDown
<1>18. CASE Transmit
  BY <1>18 DEF Transmit
<1>19. CASE NewStateRun
  BY <1>19 DEF NewStateRun
<1>20. CASE NewStateInit
  BY <1>20 DEF NewStateInit
<1> QED
  BY <1>1, <1>2, <1>3, <1>4, <1>5, <1>6, <1>7, <1>8, <1>9, <1>10, <1>11, <1>12,
     <1>13, <1>14, <1>15, <1>16, <1>17, <1>18, <1>19, <1>20
     DEF QuietStep, Net80211

\* The three fatal branches of the watchdog.
HaltStep == TickCoreLost \/ TickDmaFault \/ TickTimeout

LEMMA HaltStepHalts ==
  ASSUME HaltStep
  PROVE  ~running' /\ UNCHANGED <<dead, armed, imask, radioOff, reason>>
<1>1. CASE TickCoreLost
  BY <1>1 DEF TickCoreLost, Halt, intr
<1>2. CASE TickDmaFault
  BY <1>2 DEF TickDmaFault, Halt, intr
<1>3. CASE TickTimeout
  BY <1>3 DEF TickTimeout, Halt, intr
<1> QED
  BY <1>1, <1>2, <1>3 DEF HaltStep

\* The steps that are neither.
LEMMA StepKinds ==
  Next => \/ QuietStep \/ HaltStep
          \/ IntrTaskBegin \/ IntrTaskEnd
          \/ InitResetFails \/ InitStopsEarly \/ InitCompletes \/ ParentStop
  BY DEF Next, Hardware, IntrTask, IntrEntry, Tick, Parent, QuietStep, HaltStep

-----------------------------------------------------------------------------
(* A running driver is armed.                                              *)

LEMMA AliveStep == ASSUME Typed, Alive, [Next]_vars PROVE Alive'
<1> USE DEF Alive
<1>1. CASE QuietStep
  BY <1>1, QuietStepIsQuiet DEF Quiet
<1>2. CASE HaltStep
  BY <1>2, HaltStepHalts
<1>3. CASE IntrTaskBegin
  BY <1>3 DEF IntrTaskBegin, flags, wdog, hw
<1>4. CASE IntrTaskEnd
  <2>1. running' => running /\ "GP0" \notin reason
    BY <1>4 DEF IntrTaskEnd, Typed, TypedDriver
  <2>2. running' => ~radioOff'
    BY <1>4 DEF IntrTaskEnd, Typed, TypedDriver
  <2> QED
    BY <1>4, <2>1, <2>2 DEF IntrTaskEnd, wdog, hw
<1>5. CASE InitResetFails
  BY <1>5 DEF InitResetFails, CoreReset
<1>6. CASE InitStopsEarly
  BY <1>6 DEF InitStopsEarly, ResetDone, CoreReset, flags
<1>7. CASE InitCompletes
  BY <1>7 DEF InitCompletes, ResetDone, CoreReset
<1>8. CASE ParentStop
  BY <1>8 DEF ParentStop
<1>9. CASE UNCHANGED vars
  BY <1>9 DEF vars, flags, wdog, hw
<1> QED
  BY StepKinds, <1>1, <1>2, <1>3, <1>4, <1>5, <1>6, <1>7, <1>8, <1>9

LEMMA ArmedStep == Armed /\ [Next]_vars => Armed'
  BY FedStep, DriverTyped, DeviceTyped, AliveStep DEF Armed, Typed

LEMMA ArmedAlways == Spec => []Armed
  BY ArmedInit, ArmedStep, PTL DEF Spec

\* Every variable keeps its type, in particular the watchdog timer.
THEOREM TypeCorrect == Spec => []TypeOK
  BY ArmedIs, ArmedAlways, PTL

\* A running driver is armed: engines live, watchdog scheduled and not run
\* out, all interrupt reasons accepted, core not given up, radio not blocked.
THEOREM RunningArmed == Spec => []RunningIsArmed
  BY ArmedIs, ArmedAlways, PTL

-----------------------------------------------------------------------------
(* A dead core.                                                            *)

\* No step takes DEAD back, sets RUNNING on a dead core, or resets it.
LEMMA DeadStep ==
  ASSUME Armed, dead, Next
  PROVE  dead' /\ ~running' /\ ~CoreReset
<1>1. ~running /\ dead \in BOOLEAN /\ running \in BOOLEAN
  BY DEF Armed, Alive, Typed, TypedDriver
<1>2. ~CoreReset
  BY DEF CoreReset
<1>3. dead' /\ ~running'
  <2>1. CASE QuietStep
    BY <1>1, <2>1, QuietStepIsQuiet DEF Quiet
  <2>2. CASE HaltStep
    BY <2>2, HaltStepHalts
  <2>3. CASE IntrTaskBegin
    BY <1>1, <2>3 DEF IntrTaskBegin, flags
  <2>4. CASE IntrTaskEnd
    BY <1>1, <2>4 DEF IntrTaskEnd
  <2>5. CASE InitResetFails \/ InitStopsEarly \/ InitCompletes
    BY <1>2, <2>5 DEF InitResetFails, InitStopsEarly, InitCompletes, ResetDone
  <2>6. CASE ParentStop
    BY <1>1, <2>6 DEF ParentStop
  <2> QED
    BY StepKinds, <2>1, <2>2, <2>3, <2>4, <2>5, <2>6
<1> QED
  BY <1>2, <1>3

\* A core that failed its reset is never reset or started again.
THEOREM DeadStaysDead == Spec => DeadIsFinal
<1>1. Armed /\ [Next]_vars => [dead => dead' /\ ~running' /\ ~CoreReset]_vars
  BY DeadStep
<1> QED
  BY <1>1, ArmedAlways, PTL DEF Spec, DeadIsFinal

-----------------------------------------------------------------------------
(* The microcode watchdog.                                                 *)

\* What intrtask has taken up was in the mask, and GP0 is still there when it
\* comes to serve it: nothing but this service removes GP0, and an init_locked
\* that slips into the unlocked harvest puts everything into the mask.
TakenIsMasked == "GP0" \in reason => "GP0" \in imask

LEMMA TakenStep == ASSUME TakenIsMasked, [Next]_vars PROVE TakenIsMasked'
<1> USE DEF TakenIsMasked
<1>1. CASE QuietStep
  BY <1>1, QuietStepIsQuiet DEF Quiet
<1>2. CASE HaltStep
  BY <1>2, HaltStepHalts
<1>3. CASE IntrTaskBegin
  BY <1>3 DEF IntrTaskBegin
<1>4. CASE IntrTaskEnd
  BY <1>4 DEF IntrTaskEnd
<1>5. CASE InitResetFails
  BY <1>5 DEF InitResetFails, intr
<1>6. CASE InitStopsEarly
  BY <1>6 DEF InitStopsEarly, intr
<1>7. CASE InitCompletes
  BY <1>7 DEF InitCompletes, Bits
<1>8. CASE ParentStop
  BY <1>8 DEF ParentStop, intr
<1>9. CASE UNCHANGED vars
  BY <1>9 DEF vars, intr
<1> QED
  BY StepKinds, <1>1, <1>2, <1>3, <1>4, <1>5, <1>6, <1>7, <1>8, <1>9

\* Once GP0 is out of the mask, a step neither takes it up nor changes the
\* mask, unless it completes an init_locked.
LEMMA Gp0Step ==
  ASSUME TakenIsMasked, Next, "GP0" \notin imask
  PROVE  "GP0" \notin reason' /\ (imask' = imask \/ InitCompletes)
<1>1. "GP0" \notin reason
  BY DEF TakenIsMasked
<1>2. CASE QuietStep
  BY <1>1, <1>2, QuietStepIsQuiet DEF Quiet
<1>3. CASE HaltStep
  BY <1>1, <1>3, HaltStepHalts
<1>4. CASE IntrTaskBegin
  BY <1>4 DEF IntrTaskBegin
<1>5. CASE IntrTaskEnd
  BY <1>1, <1>5 DEF IntrTaskEnd
<1>6. CASE InitResetFails
  BY <1>1, <1>6 DEF InitResetFails, intr
<1>7. CASE InitStopsEarly
  BY <1>1, <1>7 DEF InitStopsEarly, intr
<1>8. CASE InitCompletes
  <2>1. "GP0" \notin reason'
    BY <1>1, <1>8 DEF InitCompletes, intr
  <2> QED
    BY <1>8, <2>1
<1>9. CASE ParentStop
  BY <1>1, <1>9 DEF ParentStop, intr
<1> QED
  BY StepKinds, <1>2, <1>3, <1>4, <1>5, <1>6, <1>7, <1>8, <1>9

\* The microcode watchdog is served at most once per bring-up.
THEOREM Gp0Once == Spec => Gp0ServedOnce
<1>1. Init => TakenIsMasked
  BY DEF Init, TakenIsMasked
<1>2. TakenIsMasked /\ [Next]_vars =>
        [imask # {} /\ "GP0" \notin imask =>
           "GP0" \notin reason' /\ (imask' = imask \/ InitCompletes)]_vars
  BY Gp0Step
<1> QED
  BY <1>1, <1>2, TakenStep, PTL DEF Spec, Gp0ServedOnce

=============================================================================

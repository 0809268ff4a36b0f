---------------------------- MODULE Bcm4313Mac ----------------------------
(***************************************************************************)
(* The life of the MAC: bring-up, teardown, interrupts, the one-second     *)
(* watchdog, the RF-kill switch, fatal stops, and the net80211 callbacks   *)
(* that change the MAC's state.                                            *)
(*                                                                         *)
(* The actors are net80211's threads, the interrupt filter (no lock), the  *)
(* intrtask of the driver's taskqueue, the watchdog callout, and the       *)
(* hardware.  Everything but the filter holds sc_mtx; intrtask keeps it    *)
(* from one of its steps to the next, except while rx_harvest hands a      *)
(* frame to net80211.                                                      *)
(***************************************************************************)
EXTENDS Integers

CONSTANTS
  TMax,   (* sc_watchdog_timer is set to this many ticks (5 in the driver). *)
  Events  (* What the hardware may do in a run.                             *)

ASSUME TMaxAssumption == TMax \in Nat \ {0}
ASSUME EventsAssumption ==
  Events \subseteq {"Io", "Gp0", "RfSwitch", "DmaFault", "CoreLost"}

(***************************************************************************)
(* Interrupt reasons.  "IO" stands for MI_DMAINT and MI_TFS, which are     *)
(* both served by harvesting the rings; the two TX error bits only count.  *)
(***************************************************************************)
Bits == {"IO", "GP0", "RFDISABLE"}

VARIABLES
  running,    (* BCM4313_FLAG_RUNNING.                                      *)
  dead,       (* BCM4313_FLAG_DEAD.                                         *)
  timer,      (* sc_watchdog_timer.                                         *)
  armed,      (* The watchdog callout is scheduled.                         *)
  imask,      (* sc_intr_mask.                                              *)
  radioOff,   (* sc_radio_off.                                              *)
  enMac,      (* MACCONTROL.EN_MAC; its filter bits are in Bcm4313Cal.       *)
  hwmask,     (* MACINTMASK.                                                *)
  ints,       (* MACINTSTATUS.                                              *)
  core,       (* The D11 core: "ok", or "gone": every read is all ones.     *)
  eng,        (* DMA engines: "off", "live", or "stuck": did not disarm.    *)
  fault,      (* An error bit is latched in a DMA intstatus register.       *)
  rfd,        (* The RF-kill switch blocks the radio (PDBG_RFD).            *)
  task,       (* intrtask is queued.                                        *)
  ipc,        (* Where intrtask is.                                         *)
  reason,     (* Its local "reason".                                        *)
  up,         (* ic_nrunning > 0.                                           *)
  ptask       (* net80211's parent task is queued.                          *)

flags == <<running, dead>>
wdog == <<timer, armed>>
mac == <<enMac, hwmask, ints>>
hw == <<core, eng, fault, rfd>>
intr == <<task, ipc, reason>>
net == <<up, ptask>>
vars == <<flags, wdog, imask, radioOff, mac, hw, intr, net>>

TypeOK ==
  /\ running \in BOOLEAN /\ dead \in BOOLEAN
  /\ timer \in 0 .. TMax /\ armed \in BOOLEAN
  /\ imask \subseteq Bits /\ hwmask \subseteq Bits /\ ints \subseteq Bits
  /\ radioOff \in BOOLEAN
  /\ enMac \in BOOLEAN
  /\ core \in {"ok", "gone"} /\ eng \in {"off", "live", "stuck"}
  /\ fault \in BOOLEAN /\ rfd \in BOOLEAN
  /\ task \in BOOLEAN /\ reason \subseteq Bits
  /\ ipc \in {"idle", "harvest", "input", "rest", "hung"}
  /\ up \in BOOLEAN /\ ptask \in BOOLEAN

\* Attached, never brought up.
Init ==
  /\ running = FALSE /\ dead = FALSE
  /\ timer = 0 /\ armed = FALSE
  /\ imask = {} /\ hwmask = {} /\ ints = {} /\ enMac = FALSE
  /\ radioOff = FALSE
  /\ core = "ok" /\ eng = "off" /\ fault = FALSE /\ rfd \in BOOLEAN
  /\ task = FALSE /\ ipc = "idle" /\ reason = {}
  /\ up = FALSE /\ ptask = FALSE

\* sc_mtx: held by intrtask, but not while it is in ieee80211_input().
LockFree == ipc \in {"idle", "input"}

-----------------------------------------------------------------------------
(* Register access.  A core that is gone loses every write.                *)

Write(reg, val) == IF core = "ok" THEN val ELSE reg

\* mac_enable(); mac_disable() and the read-modify-writes of the fatal paths.
MacEnable == enMac' = Write(enMac, TRUE)
MacDisable == enMac' = Write(enMac, FALSE)

-----------------------------------------------------------------------------
(* The hardware.                                                           *)

\* A frame arrived, or one was sent and its status posted.
HwIo ==
  /\ "Io" \in Events /\ core = "ok" /\ eng = "live" /\ enMac
  /\ ints' = ints \cup {"IO"}
  /\ UNCHANGED <<flags, wdog, imask, radioOff, enMac, hwmask, hw, intr, net>>

\* The PSM microcode watchdog fired.
HwGp0 ==
  /\ "Gp0" \in Events /\ core = "ok" /\ enMac
  /\ ints' = ints \cup {"GP0"}
  /\ UNCHANGED <<flags, wdog, imask, radioOff, enMac, hwmask, hw, intr, net>>

\* The RF-kill switch is flipped (an edge interrupt).
HwRfSwitch ==
  /\ "RfSwitch" \in Events /\ core = "ok"
  /\ rfd' = ~rfd
  /\ ints' = ints \cup {"RFDISABLE"}
  /\ UNCHANGED <<flags, wdog, imask, radioOff, enMac, hwmask, core, eng, fault, intr, net>>

HwDmaFault ==
  /\ "DmaFault" \in Events /\ core = "ok" /\ eng = "live"
  /\ fault' = TRUE
  /\ UNCHANGED <<flags, wdog, imask, radioOff, mac, core, eng, rfd, intr, net>>

HwCoreLost ==
  /\ "CoreLost" \in Events
  /\ core' = "gone"
  /\ UNCHANGED <<flags, wdog, imask, radioOff, mac, eng, fault, rfd, intr, net>>

-----------------------------------------------------------------------------
(* Interrupts.                                                             *)

\* bcm4313_intr(): acknowledges what it saw and queues intrtask.  The line is
\* shared, so it may run without an interrupt of this device.
Filter ==
  /\ core = "ok" /\ ints \cap imask # {}
  /\ ints' = ints \ imask
  /\ task' = TRUE
  /\ UNCHANGED <<flags, wdog, imask, radioOff, enMac, hwmask, hw, ipc, reason, net>>

\* The device's own interrupt, raised and not masked.
OwnInterrupt == ints \cap hwmask # {} /\ Filter

\* intrtask takes the lock and reads the status again.
IntrTaskEmpty ==
  /\ task /\ ipc = "idle"
  /\ core = "gone" \/ ints \cap imask = {}
  /\ task' = FALSE
  /\ UNCHANGED <<flags, wdog, imask, radioOff, mac, hw, ipc, reason, net>>

\* Deviation: the status is not masked.
IntrTaskUnmasked ==
  /\ task /\ ipc = "idle"
  /\ core = "ok" /\ ints # {}
  /\ task' = FALSE
  /\ reason' = ints
  /\ ints' = {}
  /\ ipc' = IF "IO" \in ints THEN "harvest" ELSE "rest"
  /\ UNCHANGED <<flags, wdog, imask, radioOff, enMac, hwmask, hw, net>>

IntrTaskBegin ==
  /\ task /\ ipc = "idle"
  /\ core = "ok" /\ ints \cap imask # {}
  /\ task' = FALSE
  /\ reason' = ints \cap imask
  /\ ints' = ints \ imask
  /\ ipc' = IF "IO" \in ints \cap imask THEN "harvest" ELSE "rest"
  /\ UNCHANGED <<flags, wdog, imask, radioOff, enMac, hwmask, hw, net>>

\* Rings without received frames: reclaim, refill, feed the watchdog.
Harvest ==
  /\ ipc = "harvest" /\ core = "ok"
  /\ timer' = TMax
  /\ ipc' = "rest"
  /\ UNCHANGED <<flags, armed, imask, radioOff, mac, hw, task, reason, net>>

\* rx_harvest unlocks to hand a frame to ieee80211_input().
HarvestInput ==
  /\ ipc = "harvest" /\ core = "ok"
  /\ ipc' = "input"
  /\ UNCHANGED <<flags, wdog, imask, radioOff, mac, hw, task, reason, net>>

InputDone ==
  /\ ipc = "input"
  /\ ipc' = "harvest"
  /\ UNCHANGED <<flags, wdog, imask, radioOff, mac, hw, task, reason, net>>

\* The ring status registers read all ones: the position they give is no slot
\* of the ring, and the harvest loop runs for ever with the lock held.
HarvestHangs ==
  /\ ipc = "harvest" /\ core = "gone"
  /\ ipc' = "hung"
  /\ UNCHANGED <<flags, wdog, imask, radioOff, mac, hw, task, reason, net>>

\* The rest of intrtask: PSM watchdog, then RF kill, then unlock.
IntrTaskEnd ==
  LET gp0 == "GP0" \in reason
      blocked == rfd \/ core = "gone"
      kill == "RFDISABLE" \in reason /\ blocked /\ ~radioOff
      halt == gp0 \/ (kill /\ running)
  IN /\ ipc = "rest"
     /\ ipc' = "idle" /\ reason' = {}
     /\ IF halt THEN MacDisable ELSE UNCHANGED enMac
     /\ running' = (running /\ ~halt)
     /\ imask' = IF gp0 THEN imask \ {"GP0"} ELSE imask
     /\ hwmask' = IF gp0 THEN Write(hwmask, imask \ {"GP0"}) ELSE hwmask
     /\ radioOff' = IF "RFDISABLE" \in reason THEN blocked ELSE radioOff
     /\ UNCHANGED <<dead, wdog, ints, hw, task, net>>

-----------------------------------------------------------------------------
(* The watchdog callout, once per second.                                  *)

TickIdle ==
  /\ armed /\ LockFree /\ ~running
  /\ UNCHANGED vars

\* Deviation: RUNNING stays.
HaltRunning ==
  /\ MacDisable
  /\ UNCHANGED <<flags, armed, imask, radioOff, hwmask, ints, intr, net>>

\* Every fatal branch halts the MAC and drops RUNNING.
Halt ==
  /\ running' = FALSE
  /\ MacDisable
  /\ UNCHANGED <<dead, armed, imask, radioOff, hwmask, ints, intr, net>>

\* fifo_errors_locked() read all ones.
TickCoreLost ==
  /\ armed /\ LockFree /\ running
  /\ core = "gone"
  /\ Halt
  /\ UNCHANGED <<timer, hw>>

\* fifo_errors_locked() found and cleared error bits.
TickDmaFault ==
  /\ armed /\ LockFree /\ running
  /\ core = "ok" /\ fault
  /\ Halt
  /\ fault' = FALSE
  /\ UNCHANGED <<timer, core, eng, rfd>>

HealthyTick ==
  /\ armed /\ LockFree /\ running
  /\ core = "ok" /\ ~fault
  /\ timer' = timer - 1

\* Deviation: off by one.
ExpiredLate == timer - 1 < 0

Expired == timer - 1 <= 0

TickTimeout ==
  /\ HealthyTick
  /\ Expired
  /\ Halt
  /\ UNCHANGED hw

\* A healthy tick ends in lcnphy_watchdog(); a calibration that suspends an
\* enabled MAC enables it again.
TickHealthy ==
  /\ HealthyTick
  /\ ~Expired
  /\ UNCHANGED <<flags, armed, imask, radioOff, mac, hw, intr, net>>

-----------------------------------------------------------------------------
(* Bring-up and teardown: bcm4313_parent().                                *)

ParentTask == ptask /\ LockFree /\ ptask' = FALSE

\* init_locked refuses a dead core.
InitRefused ==
  /\ ParentTask /\ up /\ ~running
  /\ dead
  /\ UNCHANGED <<flags, wdog, imask, radioOff, mac, hw, intr, up>>

\* Deviation: a dead core is not refused.
CoreResetAnyway == ParentTask /\ up /\ ~running

\* init_locked orders the core reset.
CoreReset == ParentTask /\ up /\ ~running /\ ~dead

\* bhnd_reset_hw() fails: it cannot handshake with a core that is gone or
\* whose engines still hold the backplane.
InitResetFails ==
  /\ CoreReset
  /\ core = "gone" \/ eng # "off"
  /\ dead' = TRUE
  /\ UNCHANGED <<running, wdog, imask, radioOff, mac, hw, intr, up>>

ResetDone ==
  /\ CoreReset
  /\ core = "ok"
  /\ fault' = FALSE
  /\ ints' = {}

\* After the reset: an ioctl or the clock request fails, or the radio is
\* blocked.
InitStopsEarly ==
  /\ ResetDone
  /\ eng' = "off" /\ enMac' = FALSE /\ hwmask' = {}
  /\ UNCHANGED radioOff \/ (rfd /\ radioOff' = TRUE)
  /\ UNCHANGED <<flags, wdog, imask, core, rfd, intr, up>>

InitCompletes ==
  /\ ResetDone
  /\ ~rfd
  /\ radioOff' = FALSE
  /\ eng' = "live"
  /\ imask' = Bits /\ hwmask' = Bits
  /\ enMac' = TRUE
  /\ running' = TRUE
  /\ timer' = TMax /\ armed' = TRUE
  /\ UNCHANGED <<dead, core, rfd, intr, up>>

\* Already running: only the promiscuous bit is brought up to date.
ParentPromisc ==
  /\ ParentTask /\ up /\ running
  /\ UNCHANGED <<flags, wdog, imask, radioOff, mac, hw, intr, up>>

\* stop_locked.
ParentStop ==
  /\ ParentTask /\ ~up /\ running
  /\ running' = FALSE
  /\ armed' = FALSE
  /\ hwmask' = Write(hwmask, {}) /\ ints' = Write(ints, {})
  /\ MacDisable
  /\ eng' \in IF core = "ok" THEN {"off", "stuck"} ELSE {"stuck"}
  /\ UNCHANGED <<dead, timer, imask, radioOff, core, fault, rfd, intr, up>>

\* Down, and not running: nothing is torn down.
ParentIgnored ==
  /\ ParentTask /\ ~up /\ ~running
  /\ UNCHANGED <<flags, wdog, imask, radioOff, mac, hw, intr, up>>

-----------------------------------------------------------------------------
(* net80211.                                                               *)

\* The first VAP comes up or the last one goes down: the parent task is
\* queued, and reads ic_nrunning when it runs.
NetUpDown ==
  /\ up' = ~up
  /\ ptask' = TRUE
  /\ UNCHANGED <<flags, wdog, imask, radioOff, mac, hw, intr>>

Transmit ==
  /\ LockFree /\ running
  /\ timer' = TMax
  /\ UNCHANGED <<flags, armed, imask, radioOff, mac, hw, intr, net>>

\* bcm4313_newstate(): S_RUN and S_INIT; other states change nothing here.
NewStateRun ==
  /\ LockFree /\ up
  /\ MacEnable
  /\ UNCHANGED <<flags, wdog, imask, radioOff, hwmask, ints, hw, intr, net>>

NewStateInit ==
  /\ LockFree
  /\ MacDisable
  /\ UNCHANGED <<flags, wdog, imask, radioOff, hwmask, ints, hw, intr, net>>

-----------------------------------------------------------------------------
Hardware == HwIo \/ HwGp0 \/ HwRfSwitch \/ HwDmaFault \/ HwCoreLost
IntrEntry == IntrTaskEmpty \/ IntrTaskBegin
IntrTask == IntrEntry \/ Harvest \/ HarvestInput \/ InputDone \/ HarvestHangs
              \/ IntrTaskEnd
Tick == TickIdle \/ TickCoreLost \/ TickDmaFault \/ TickTimeout \/ TickHealthy
Parent == InitRefused \/ InitResetFails \/ InitStopsEarly \/ InitCompletes
            \/ ParentPromisc \/ ParentStop \/ ParentIgnored
Net80211 == NetUpDown \/ Transmit \/ NewStateRun \/ NewStateInit

Next == Hardware \/ Filter \/ IntrTask \/ Tick \/ Parent \/ Net80211

\* An unmasked interrupt is delivered, intrtask goes on, a harvest ends (it
\* visits finitely many slots), and the callout gets the mutex in the end.
Fairness ==
  /\ WF_vars(OwnInterrupt) /\ WF_vars(IntrTask)
  /\ SF_vars(Harvest) /\ SF_vars(Tick)

Spec == Init /\ [][Next]_vars
FairSpec == Spec /\ Fairness

-----------------------------------------------------------------------------
(* Properties.                                                             *)

\* While the driver says RUNNING, everything that keeps it alive is in place:
\* the engines were armed, the watchdog is scheduled and its timer has not run
\* out, every interrupt reason is accepted, the core is not given up and the
\* radio is not known to be blocked.  Each fatal path that spoils one of these
\* must also drop RUNNING, and only a complete init_locked may set it.
RunningIsArmed ==
  running =>
    /\ eng = "live" /\ armed /\ timer > 0
    /\ imask = Bits
    /\ ~dead /\ ~radioOff

\* A core that failed its reset is never reset or started again ("every
\* further attempt would only repeat the timeout"), whatever net80211 asks.
DeadIsFinal == [][dead => dead' /\ ~running' /\ ~CoreReset]_vars

\* The microcode watchdog is served at most once per bring-up: after MI_GP0
\* was handled, intrtask does not take it up again, whoever comes and goes,
\* until an init_locked completes.
Gp0ServedOnce ==
  [][imask # {} /\ "GP0" \notin imask =>
       "GP0" \notin reason' /\ (imask' = imask \/ InitCompletes)]_vars

\* A latched DMA error or a core that reads all ones takes the interface out
\* of RUNNING, unless intrtask is already lost in a harvest loop.
FaultsStopTheMac ==
  ((fault \/ core = "gone") /\ running) ~> (~running \/ ipc = "hung")

\* stop_locked: "the up path that follows must still disarm the DMA engines
\* before it resets the core".  No core reset meets a live engine.
ResetAfterDisarm == [][CoreReset => eng # "live"]_vars

\* "While blocked stop the MAC and drop FLAG_RUNNING": a blocked radio is
\* noticed, whoever acknowledged the interrupt.
RfKillStopsTheMac == (rfd /\ running) ~> (~rfd \/ ~running \/ ipc = "hung")

=============================================================================

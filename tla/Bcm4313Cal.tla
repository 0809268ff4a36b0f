----------------------------- MODULE Bcm4313Cal -----------------------------
(***************************************************************************)
(* Who turns the MAC on and off, and when the PHY is calibrated: the       *)
(* MACCONTROL bits that init, the net80211 callbacks and the calibrations  *)
(* share, and the temperature-based recalibration of the watchdog.         *)
(*                                                                         *)
(* A calibration brackets its work with "suspend the MAC unless it is      *)
(* suspended already" and "enable it if I suspended it"; brackets nest.    *)
(* Everything runs under sc_mtx, but the radio is live meanwhile, so what  *)
(* a calibration or an init does is a program of small operations ("todo") *)
(* and the properties hold between any two of them.                        *)
(***************************************************************************)
EXTENDS Integers, Sequences

CONSTANTS
  CalInterval, (* BCM4313_LCNPHY_CAL_INTERVAL, in watchdog ticks (120).     *)
  CountLimit,  (* lcnphy_cal_counter may exceed this once (90).             *)
  AgeMax,      (* Bound: the age of a calibration is counted up to here,    *)
               (* past the age at which an undisturbed one comes.           *)
  Temps,       (* Temperatures the die can have, as LCN_TEMPSENSE gives them. *)
  Scans,       (* How much else happens in a run: scans, promiscuous mode,  *)
  Others       (* other callbacks and fatal stops.                          *)

ASSUME IntervalAssumption ==
  CalInterval \in Nat \ {0} /\ CountLimit \in Nat /\ AgeMax \in Nat
ASSUME AgeMaxAssumption == AgeMax > CalInterval + CountLimit
ASSUME TempsAssumption == Temps \subseteq Int /\ Temps # {}
ASSUME SwitchAssumption == {Scans, Others} \subseteq BOOLEAN

VARIABLES
  tempPwr,  (* sc_temppwrctrl_capable, read at attach; sc_hwpwrctrl_capable *)
            (* is its opposite.                                             *)
  running,  (* BCM4313_FLAG_RUNNING.                                        *)
  scan,     (* BCM4313_FLAG_SCAN.                                           *)
  nscan,    (* net80211 is scanning.                                        *)
  mctl,     (* MACCONTROL: which of EN_MAC, PROMISC, BCNS_PROMISC are set.  *)
  age,      (* lcnphy_now - lcnphy_lastcal.                                 *)
  deferred, (* A tick was deferred since the last calibration.              *)
  counter,  (* lcnphy_cal_counter.                                          *)
  calTemp,  (* lcnphy_cal_temper.                                           *)
  temp,     (* The temperature of the die.                                  *)
  todo,     (* What the thread that holds sc_mtx has yet to do.             *)
  saved,    (* The "suspend" locals of its open brackets, innermost first.  *)
  deaf,     (* The argument of the last lcnphy_deaf_mode().                 *)
  wanted    (* The last order to the MAC: enabled, or disabled.             *)

timers == <<age, deferred, counter, calTemp>>
code == <<todo, saved, deaf>>
vars == <<tempPwr, running, scan, nscan, mctl, timers, temp, code, wanted>>

Ops == {"open", "close", "lastcal", "deaf", "hear", "sampled", "start"}

TypeOK ==
  /\ tempPwr \in BOOLEAN
  /\ running \in BOOLEAN /\ scan \in BOOLEAN /\ nscan \in BOOLEAN
  /\ mctl \subseteq {"EN_MAC", "PROMISC", "BCNS_PROMISC"}
  /\ age \in 0 .. AgeMax /\ deferred \in BOOLEAN
  /\ counter \in 0 .. CountLimit + 1
  /\ calTemp \in Temps /\ temp \in Temps
  /\ todo \in Seq(Ops) /\ saved \in Seq(BOOLEAN)
  /\ deaf \in BOOLEAN /\ wanted \in BOOLEAN

\* Attached.  RAWTEMPSENSE of the board is what calTemp starts from.
Init ==
  /\ tempPwr \in BOOLEAN
  /\ running = FALSE /\ scan = FALSE /\ nscan = FALSE /\ mctl = {}
  /\ age = 0 /\ deferred = FALSE /\ counter = 0
  /\ calTemp \in Temps /\ temp \in Temps
  /\ todo = <<>> /\ saved = <<>> /\ deaf = FALSE /\ wanted = FALSE

LockFree == todo = <<>>

-----------------------------------------------------------------------------
(* The register.                                                           *)

Enabled == "EN_MAC" \in mctl

\* mac_enable() writes a fixed value: the filter bits are lost.
MacEnable == mctl' = {"EN_MAC"}
MacDisable == mctl' = mctl \ {"EN_MAC"}

-----------------------------------------------------------------------------
(* The programs.                                                           *)

\* idle_tssi_est() or vbat_temp_sense_setup(): a bracket of its own.
Measure == <<"open", "close">>

\* start_tx_tone() and stop_tx_tone() deafen and hear on their own: a
\* calibration that has played a tone goes on with the receiver open.
Tone == <<"deaf", "hear">>

\* lcnphy_init(): tx_pwr_ctrl_init(), then periodic_cal(): a TX and an RX
\* calibration, after which boards with hardware power control measure again.
PhyInit ==
  <<"open">> \o Measure \o <<"close", "lastcal", "open", "deaf">> \o Tone \o Tone
    \o (IF tempPwr THEN <<>> ELSE Measure) \o <<"hear", "close">>

\* glacial_timer_based_cal(), and what calib_modes() does after it.
Glacial ==
  <<"open", "deaf", "lastcal">> \o Tone \o <<"hear", "close", "sampled">>

\* Deviations: every bracket enables the MAC; the MAC is not suspended.
CloseBlindly == MacEnable
OpenLive == UNCHANGED mctl

Open == MacDisable
Close == IF Head(saved) THEN UNCHANGED mctl ELSE MacEnable

\* One operation of the program.
Step ==
  LET op == Head(todo)
  IN /\ todo # <<>>
     /\ todo' = Tail(todo)
     /\ CASE op = "open" -> Open
          [] op = "close" -> Close
          [] op = "start" -> MacEnable
          [] OTHER -> UNCHANGED mctl
     /\ saved' = CASE op = "open" -> <<~Enabled>> \o saved
                   [] op = "close" -> Tail(saved)
                   [] OTHER -> saved
     /\ deaf' = CASE op = "deaf" -> TRUE [] op = "hear" -> FALSE [] OTHER -> deaf
     /\ age' = IF op = "lastcal" THEN 0 ELSE age
     /\ deferred' = (op # "lastcal" /\ deferred)
     /\ counter' = IF op = "sampled" THEN 0 ELSE counter
     /\ calTemp' = IF op = "sampled" THEN temp ELSE calTemp
     /\ running' = (running \/ op = "start")
     /\ wanted' = (wanted \/ op = "start")
     /\ UNCHANGED <<tempPwr, scan, nscan, temp>>

-----------------------------------------------------------------------------
(* Bring-up and teardown.                                                  *)

\* init_locked: the core reset clears MACCONTROL, lcnphy_init() starts its
\* counter from the factory temperature; after the PHY come the rings, the
\* interrupts and mac_enable().
Up ==
  /\ LockFree /\ ~running
  /\ mctl' = {}
  /\ counter' = 0 /\ calTemp' \in Temps
  /\ todo' = PhyInit \o <<"start">>
  /\ wanted' = FALSE
  /\ UNCHANGED <<tempPwr, running, scan, nscan, age, deferred, temp, saved, deaf>>

\* stop_locked.  It clears the driver's flag; net80211's scan goes on until it
\* calls scan_end, and the interface may be up again before that.
Down ==
  /\ LockFree /\ running
  /\ running' = FALSE /\ wanted' = FALSE
  /\ scan' = FALSE
  /\ MacDisable
  /\ UNCHANGED <<tempPwr, nscan, timers, temp, code>>

FatalStop ==
  /\ Others /\ LockFree /\ running
  /\ running' = FALSE /\ wanted' = FALSE
  /\ MacDisable
  /\ UNCHANGED <<tempPwr, scan, nscan, timers, temp, code>>

-----------------------------------------------------------------------------
(* net80211 callbacks.                                                     *)

SetBit(bit, on) == mctl' = IF on THEN mctl \cup {bit} ELSE mctl \ {bit}

\* scan_start() and scan_end().
ScanStart ==
  /\ Scans /\ LockFree /\ ~nscan
  /\ nscan' = TRUE /\ scan' = TRUE
  /\ IF running THEN SetBit("BCNS_PROMISC", TRUE) ELSE UNCHANGED mctl
  /\ UNCHANGED <<tempPwr, running, timers, temp, code, wanted>>

\* Deviation: the bit is cleared if the MAC is on, not if the interface is up.
ScanEndEnabled ==
  /\ LockFree /\ nscan
  /\ nscan' = FALSE /\ scan' = FALSE
  /\ IF Enabled THEN SetBit("BCNS_PROMISC", FALSE) ELSE UNCHANGED mctl
  /\ UNCHANGED <<tempPwr, running, timers, temp, code, wanted>>

ScanEnd ==
  /\ LockFree /\ nscan
  /\ nscan' = FALSE /\ scan' = FALSE
  /\ IF running THEN SetBit("BCNS_PROMISC", FALSE) ELSE UNCHANGED mctl
  /\ UNCHANGED <<tempPwr, running, timers, temp, code, wanted>>

\* update_promisc(), and parent() while running.
SetPromisc ==
  /\ Others /\ LockFree
  /\ \E on \in BOOLEAN : SetBit("PROMISC", on)
  /\ UNCHANGED <<tempPwr, running, scan, nscan, timers, temp, code, wanted>>

\* newstate() to S_RUN and to S_INIT, of any VAP.
NewStateRun ==
  /\ Others /\ LockFree
  /\ MacEnable /\ wanted' = TRUE
  /\ UNCHANGED <<tempPwr, running, scan, nscan, timers, temp, code>>

NewStateInit ==
  /\ Others /\ LockFree
  /\ MacDisable /\ wanted' = FALSE
  /\ UNCHANGED <<tempPwr, running, scan, nscan, timers, temp, code>>

-----------------------------------------------------------------------------
(* lcnphy_watchdog(), on a healthy tick.                                   *)

Older == IF age < AgeMax THEN age + 1 ELSE age

\* Deviations: scans are not waited for; the interval is not, or is met only
\* once; the counter is compared with the wrong limit.
DueAnyway == age + 1 >= CalInterval
DueAtOnce == ~scan
DueOnce == ~scan /\ age + 1 = CalInterval
TiredNever == counter > CountLimit + 1

Due == ~scan /\ age + 1 >= CalInterval

\* The temperature changed by more than 60 since the last calibration.
Jumped == temp - calTemp > 60 \/ temp - calTemp < -60

Tired == counter > CountLimit

Tick == LockFree /\ running /\ age' = Older

TickDeferred ==
  /\ Tick /\ ~(Due /\ tempPwr)
  /\ deferred' = (deferred \/ scan)
  /\ UNCHANGED <<tempPwr, running, scan, nscan, mctl, counter, calTemp, temp, code, wanted>>

TickSample ==
  /\ Tick /\ Due /\ tempPwr
  /\ ~(Tired \/ Jumped)
  /\ counter' = counter + 1
  /\ UNCHANGED <<tempPwr, running, scan, nscan, mctl, deferred, calTemp, temp, code, wanted>>

TickGlacial ==
  /\ Tick /\ Due /\ tempPwr
  /\ Tired \/ Jumped
  /\ todo' = Glacial
  /\ UNCHANGED <<tempPwr, running, scan, nscan, mctl, deferred, counter, calTemp, temp,
                 saved, deaf, wanted>>

\* The die warms up or cools down.
HwTemp ==
  /\ temp' \in Temps \ {temp}
  /\ UNCHANGED <<tempPwr, running, scan, nscan, mctl, timers, code, wanted>>

-----------------------------------------------------------------------------
Watchdog == TickDeferred \/ TickSample \/ TickGlacial

Next ==
  \/ Step
  \/ Up \/ Down \/ FatalStop
  \/ ScanStart \/ ScanEnd \/ SetPromisc \/ NewStateRun \/ NewStateInit
  \/ Watchdog \/ HwTemp

\* A thread that holds the mutex goes on; the callout gets it once a second,
\* however busy net80211 is.
Fairness == WF_vars(Step) /\ SF_vars(Watchdog)

Spec == Init /\ [][Next]_vars
FairSpec == Spec /\ Fairness

-----------------------------------------------------------------------------
(* Properties.                                                             *)

\* While a calibration has the PHY deafened the MAC is suspended, through
\* nested brackets and tones: the hardware neither transmits nor acknowledges
\* with detuned gains.  (About the order of the calls; what deaf_mode() leaves
\* in the registers is not modelled.)
DeafIsSuspended == deaf => ~Enabled

\* Calibrations are transparent: outside of one, the MAC is enabled exactly if
\* the last init, stop or state change wanted it so.  A calibration never
\* turns on a MAC that was off, nor leaves it off, and an init does not turn
\* it on before rings and interrupts are ready.
EnabledAsOrdered ==
  /\ todo = <<>> => (Enabled <=> wanted)
  /\ ~running /\ todo # <<>> => ~Enabled

\* "Defer periodic PHY recalibration while net80211 scans": as long as a running
\* interface has MCTL_BCNS_PROMISC set, letting the beacons of other BSSes in,
\* net80211 scans, the driver knows it, and no calibration detunes the receiver;
\* so over fatal stops, re-inits and state changes inside a scan.  (A scan that
\* outlives stop_locked is one the driver does not know of.)
ForeignBeaconsOnlyInScan ==
  running /\ "BCNS_PROMISC" \in mctl => scan /\ nscan /\ todo = <<>>

\* "calfires must increment roughly every 3-4 minutes": a recalibration that no
\* temperature jump caused and no scan deferred comes one tick after an interval
\* and as many samples as the counter takes, whatever else the interface did;
\* with the driver's 120 and 90, after three and a half minutes.
RoughlyEvery3To4Minutes ==
  [][TickGlacial /\ ~Jumped /\ ~deferred => age' = CalInterval + CountLimit + 1]_vars

\* A running interface on a tempsense board is recalibrated again and again,
\* unless it scans.
Recalibrates == running /\ tempPwr ~> (~running \/ scan \/ todo = Glacial)

\* "During a scan the MAC must pass beacons from any BSSID": on a running
\* interface MCTL_BCNS_PROMISC stays set while net80211 scans, through ticks,
\* promiscuous mode and S_INIT; only mac_enable() on a change to S_RUN, by
\* another VAP, takes it away.
ScanKeepsBeacons ==
  [][nscan /\ nscan' /\ running /\ running'
     /\ "BCNS_PROMISC" \in mctl /\ "BCNS_PROMISC" \notin mctl' => NewStateRun]_vars

=============================================================================

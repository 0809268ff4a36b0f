----------------------------- MODULE Bcm4313Phy -----------------------------
(***************************************************************************)
(* The LCN PHY layer: bring-up, change of channel and the watchdog's       *)
(* recalibration, on a die that warms and cools.                           *)
(***************************************************************************)
EXTENDS Bcm4313LcnCal

CONSTANTS
  XtalMHz,   (* sc_xtalfreq *)
  Chans,     (* The channels that net80211 sets. *)
  Boots,     (* The words registers may have when the PHY comes out of reset. *)
  Outcomes   (* What the hardware may answer to a calibration.            *)

ASSUME PhyAssumption ==
  /\ XtalMHz \in Nat \ {0}
  /\ Chans \subseteq 1 .. 14
  /\ Boots \subseteq SUBSET Word
  /\ \A o \in Outcomes : o.search \in Searches

\* A PHY that comes out of reset plays no samples: where it has the bit that starts
\* them set, it has the one that stops them set, too (SamplesPlay).
ASSUME ResetAssumption == \A boot \in Boots : 0 \in boot => 1 \in boot

VARIABLES
  phy,   (* The PHY, with the channel, chan, and 0 before the first. *)
  op     (* History: the operation that ran last.                    *)

vars == <<phy, op>>

-----------------------------------------------------------------------------
(* The synthesizer.                                                        *)

Channels == 1 .. 14
Freq(c) == IF c = 14 THEN 2484 ELSE 2407 + 5 * c

\* What the 2064 divides its VCO by on channel c: an integer and a fraction
\* of 20 bits.
Divider(c) ==
  [int |-> (3 * Freq(c)) \div (4 * XtalMHz),
   frac |-> DivRoundUp(((3 * Freq(c)) % (4 * XtalMHz)) * 2^20, 4 * XtalMHz)]

\* The divider that the registers hold.
DividerIn(p) ==
  [int |-> 16 * Number(p.reg[R(\h045)] \cap (0 .. 4)) + Number(p.reg[R(\h046)] \cap (4 .. 7)) \div 16,
   frac |-> 2^16 * Number(p.reg[R(\h046)] \cap (0 .. 3)) + 2^8 * Number(p.reg[R(\h047)])
            + Number(p.reg[R(\h048)])]

\* The VCO calibration's counters.
FcalDiv == IF XtalMHz > 52 THEN 4 ELSE IF XtalMHz > 26 THEN 2 ELSE 1
QFcal == XtalMHz * FcalDiv
D15 == (QFcal * 4) \div 5 - 1
D16 == (QFcal * 8) \div (D15 + 1) - 1
SetCount(c) == ((((D16 + 1) * (D15 + 1)) \div QFcal) * 3 * Freq(c)) \div 32 - 1

Byte(n) == Bits(n % 256)

\* 2064_vco_cal().
VcoCal(p) ==
  LET kept == p.reg[R(\h056)] \cap (3 .. 7)
  IN <<Mod(R(\h057), {3}, {3}), Wr(R(\h056), kept), Wr(R(\h056), kept \cup {0, 1}),
       Wr(R(\h056), kept \cup (0 .. 2)), Mod(R(\h057), {3}, {})>>

\* radio_2064_channel_tune_4313(): not for a channel that is not in the table.
\* The words that only tune the filters and amplifiers, the table's for a channel
\* (1901-1916, 2005-2020) and the fixed ones, are left out: only this routine
\* touches their registers, and no property depends on them.
ChannelTune(p, c) ==
  LET d == Divider(c)
      begin == <<Mod(R(\h09d), {2}, {2}), Wr(R(\h09e), 0 .. 3)>>
      tune ==
        <<Or(R(\h044), 0 .. 2), Or(R(\h12b), 1 .. 3),
          Wr(R(\h052), Bits((D15 \div 4) % 8)), Wr(R(\h053), Bits(32 * (D15 % 4))),
          Wr(R(\h051), Bits(D16)), Mod(R(\h053), 0 .. 3, Byte(SetCount(c) \div 256)),
          Or(R(\h053), {4}), Wr(R(\h054), Byte(SetCount(c))),
          Mod(R(\h045), 0 .. 4, Bits(d.int \div 16)), Mod(R(\h046), 4 .. 8, Byte(d.int * 16)),
          Mod(R(\h046), 0 .. 3, Bits(d.frac \div 2^16)), Wr(R(\h047), Byte(d.frac \div 2^8)),
          Wr(R(\h048), Byte(d.frac)), Wr(R(\h03c), IF c <= 5 THEN {3} ELSE 0 .. 2),
          Mod(R(\h044), {2, 3}, {2, 3})>>
      back == <<Wr(R(\h044), p.reg[R(\h044)]), Wr(R(\h12b), p.reg[R(\h12b)])>>
  IN IF c \notin Channels THEN Run(p, begin)
     ELSE Run(p, begin \o tune \o VcoCal(p) \o back)

-----------------------------------------------------------------------------
(* The channel.                                                            *)

\* toggle_afe_pwdn().
ToggleAfePwdn(p) ==
  LET ovr == p.reg[\h43b]
      val == p.reg[\h43c]
  IN Run(p, <<Wr(\h43c, val \cup {0}), Wr(\h43b, ovr \cup {0}), Wr(\h43c, val \ {0}),
              Wr(\h43b, ovr \ {0}), Wr(\h43c, val), Wr(\h43b, ovr)>>)

\* set_chanspec_tweaks(): channels between the spurs are tuned without
\* avoidance.  The clocks of the PMU are outside.
Tweaks(c) ==
  LET quiet == c \in {1, 2, 3, 4, 9, 10, 11, 12}
  IN <<Mod(\h448, {8, 9}, IF c = 14 THEN {9} ELSE {8}), Wr(\h942, If(~quiet, 0 .. 2)),
       Wr(\h93b, Bits(23) \cup If(~quiet, {13})), Wr(\h93c, Bits(1989) \cup If(~quiet, {13})),
       Mod(\h424, 8 .. 15, IF quiet THEN Bits(\h1b) ELSE Bits(\h1f)),
       Wr(\h425, IF quiet THEN Bits(\h5907) ELSE Bits(\h590a)), Wr(\h44a, {7})>>

\* set_chanspec().  The SFO words of the channel and the filters' coefficients
\* are data; channel 0 reads the word before the table.
SetChanspec(p, c) ==
  LET tweaked == [Run(p, Tweaks(c)) EXCEPT !.edge = IF c = 1 THEN 4 ELSE 2]
      tuned == ToggleAfePwdn(ChannelTune(tweaked, c))
  IN Run(tuned, <<Mod(\h448, {8, 9}, IF c = 14 THEN {9} ELSE {8}), Mod(\h4eb, 3 .. 5, {3})>> \o
                (IF p.hw THEN TssiSetup(p.fem) ELSE <<>>))

-----------------------------------------------------------------------------
(* Calibrations.                                                           *)

\* Deviation: the end of a calibration forgets the index.
CalEndForgets(busy, p) == Run(SetTxPwrCtrl(busy, Mode(p)), DeafMode(FALSE))

\* The end of glacial_timer_based_cal() and periodic_cal() that began in p.
CalEnd(busy, p) ==
  Run(SetTxPwrCtrl(SetTxPwrByIndex(busy, p.current), Mode(p)), DeafMode(FALSE))

\* glacial_timer_based_cal().
GlacialCal(p, o) == CalEnd(TxPwrTblIqloCal(Run(p, DeafMode(TRUE)), o), p)

\* periodic_cal().
PeriodicCal(p, o) ==
  LET Tssi(q) == IF q.hw THEN IdleTssiEst(q) ELSE q
  IN CalEnd(Tssi(RxIqCal(TxPwrTblIqloCal(Run(p, DeafMode(TRUE)), o), o)), p)

-----------------------------------------------------------------------------
(* Bring-up.                                                               *)

\* rev0_baseband_init() and bu_tweaks(), after the tables.
BasebandInit(p) ==
  LET clear == Run(p, [i \in 1 .. 9 |-> Wr(<<\h43b, \h43c, \h44c, \h4e6, \h4f9, \h4b0, \h938,
                                            \h4b0, \h44e>>[i], {})] \o <<Wr(\h44a, {7})>>)
      powered == IF p.fem THEN clear ELSE SetTxPwrByIndex(clear, 52)
  IN Run(powered,
         <<Mod(\h448, {8, 9}, {8}), Wr(\h44a, {7}), Mod(\h44d, {2}, {2}), Mod(R(\h11f), {1}, {1}),
           Mod(\h4d0, 6 .. 14, Bits(640))>>)

\* radio_2064_init(), with rcal().  The one row of the radio's table that is
\* used on 2.4 GHz is for register 0x105; eight bits of the address are left.
RadioInit(p) ==
  Run(p, <<Wr(R(\h005), {3}), Wr(R(\h01d), {1}),
           Mod(\h4eb, 0 .. 2, IF p.fem THEN {1} ELSE {0, 1}), Mod(\h4eb, 6 .. 8, {}),
           Or(R(\h078), {7}), Or(R(\h057), {0}), And(R(\h057), 1 .. 7)>>)

\* What a reset of the core leaves.
Reset(p, boot) ==
  [p EXCEPT !.reg = [a \in DOMAIN @ |-> IF a < 4096 THEN boot ELSE boot \cap (0 .. 7)],
            !.bbmult = <<"table", 0>>, !.coef = "table", !.coefs = "table"]

\* lcnphy_init(), to the first periodic_cal().
Ready(p) ==
  LET afe == ToggleAfePwdn(Run(p, <<Or(\h44a, {7}), Mod(\h44a, 0 .. 6, {}), Mod(\h6d1, {7}, {7})>>))
      radio == RadioInit(BasebandInit(afe))
      tuned == SetChanspec(TxPwrCtrlInit(radio), p.chan)
      Powered(q) == IF q.fem /\ ~q.hw THEN SetTxPwrByIndex(q, FixedIndex) ELSE q
  IN SetTxPwrCtrl(Run(Powered(tuned), <<Mod(\h448, {14}, {14}), Mod(\h448, {14}, {})>>), Hw)

-----------------------------------------------------------------------------
Regs ==
  {\h40d, \h410, \h424, \h425, \h439, \h43b, \h43c, \h448, \h44a, \h44c, \h44d, \h44e, \h453,
   \h49a, \h4a2, \h4a4, \h4a5, \h4a6, \h4a7, \h4a8, \h4a9, \h4b0, \h4b1, \h4b5, \h4d0, \h4d3,
   \h4d7, \h4d8, \h4d9, \h4da, \h4db, \h4e5, \h4e6, \h4eb, \h4f9, \h4fa, \h4fb, \h503, \h631,
   \h637, \h63f, \h64b, \h6a3, \h6d1, \h6d6, \h6da, \h6db, \h938, \h939, \h93b, \h93c, \h942}
  \cup LoopbackRegs \cup RxRfRegs
  \cup {R(a) : a \in {\h029, \h035, \h03c, \h044, \h045, \h046, \h047, \h048, \h051, \h052, \h053,
                      \h054, \h056, \h07c, \h07f, \h082, \h09d, \h09e, \h12b}}

\* sc_hwpwrctrl_capable and BCM4313_BFL_FEM are the board's.
Attached(hw, fem, t) ==
  [reg |-> [a \in Regs |-> {}], bbmult |-> <<"table", 0>>, coef |-> "table", coefs |-> "table",
   current |-> 0, temp |-> IF hw THEN RawTemp ELSE t, edge |-> 0, chan |-> 0, hw |-> hw, fem |-> fem]

\* The first bring-up has reset the core; set_channel() has not run yet.
Init ==
  \E hw, fem \in BOOLEAN, t \in Temps, boot \in Boots :
     /\ phy = Reset(Attached(hw, fem, t), boot)
     /\ op = "reset"

Running == op # "reset"

\* stop_locked() and the core reset of the next bring_up(), which leaves the
\* PHY there when the RF kill switch is on.
CoreReset ==
  /\ Running
  /\ \E boot \in Boots : phy' = Reset(phy, boot)
  /\ op' = "reset"

\* lcnphy_init(), called by bring_up().
PhyInit ==
  /\ ~Running
  /\ LET Calibrated(p) == \E o \in Outcomes : phy' = PeriodicCal(p, o)
     IN Calibrated(Ready(phy))
  /\ op' = "init"

\* set_channel().
SetChannel ==
  /\ Running
  /\ \E c \in Chans : phy' = SetChanspec([phy EXCEPT !.chan = c], c)
  /\ op' = "channel"

\* lcnphy_watchdog() when a recalibration may be due (Bcm4313Cal says when):
\* an adjustment, and on boards with temperature-based control sometimes a
\* glacial calibration and one of the VCO.
Recalibrated(p, o) ==
  LET VcoCalibrated(q) == Run(q, VcoCal(q))
  IN VcoCalibrated(GlacialCal(p, o))

Adjust == Running /\ phy' = Adjusted(phy) /\ op' = "adjusted"

Recalibrate ==
  /\ Running
  /\ ~phy.hw
  /\ \E o \in Outcomes :
        /\ phy' = Recalibrated(Adjusted(phy), o)
        /\ op' = IF o.wait THEN "calibrated" ELSE "timed out"

\* Only temperature-based control looks at the sensor.
Warm ==
  /\ ~phy.hw
  /\ \E t \in Temps \ {phy.temp} : phy' = [phy EXCEPT !.temp = t]
  /\ op' = IF Running THEN "warmed" ELSE op

Next == CoreReset \/ PhyInit \/ SetChannel \/ Adjust \/ Recalibrate \/ Warm

Spec == Init /\ [][Next]_vars

-----------------------------------------------------------------------------
\* The registers are words and the index is one of the gain table's, whatever
\* the registers held at the reset: the index is read back from a register.
TypeOK ==
  /\ phy.reg \in [Regs -> SUBSET Word]
  /\ phy.current \in 0 .. 127
  /\ phy.chan \in Chans \cup {0}
  /\ phy.temp \in Temps \cup {RawTemp}

\* What the VCO's calibration leaves behind, and 0x44c, where
\* tx_iqlo_loopback() sets bit 11 and its cleanup keeps it.
VcoRegs == {R(\h056), R(\h057)}
LeakRegs == {\h44c}

\* A glacial calibration is transparent: it lends dozens of registers to
\* loopbacks, tones and overrides and calls routines that do the same, and all
\* of them, and the index, are back when it ends, also when the hardware timed
\* out or the calibration ran twice.
RecalibrationRestores ==
  [][op' \in {"calibrated", "timed out"} =>
       /\ \A a \in Regs \ (VcoRegs \cup LeakRegs) : phy'.reg[a] = Adjusted(phy).reg[a]
       /\ phy'.current = Adjusted(phy).current]_vars

\* lcnphy_init() ends with power control on: by the hardware where the board
\* can, else with the index of the temperature, although its calibrations
\* change both some ten times and although it asks for hardware control.
InitOnTarget ==
  op = "init" =>
    IF phy.hw THEN Mode(phy) = Hw ELSE phy.current = TargetIndex(phy) /\ Mode(phy) # Off

\* No operation leaves a tone on the air: samples and IQ calibrations that
\* start are stopped, on every path through the calibrations.
NoToneLeft == Running => ~SamplesPlay(phy) /\ ~IqcalPlays(phy)

\* The coefficients in use are the ones of the power table, so that a write of
\* the index with hardware control does not lose a calibration.
CoefficientsAgree == phy.coef = phy.coefs

\* A calibration whose commands time out keeps the coefficients of the last
\* one that succeeded, although it copies them to the power table again.
FailureKeepsCoefficients ==
  [][op' = "timed out" => phy'.coef = phy.coef /\ phy'.coefs = phy.coefs]_vars

\* The header of the file (if_bcm4313_phy_lcn.c:9-11) says that the port tunes
\* the radio exactly as Linux does: after set_channel(), the synthesizer holds
\* the divider of the channel.
Tuned == op = "channel" => DividerIn(phy) = Divider(phy.chan)

\* RESEARCH.md:218-220 says that the watchdog's adjustment keeps the index at
\* the one for the temperature.
IndexOnTarget == op = "adjusted" /\ ~phy.hw => phy.current = TargetIndex(phy)

=============================================================================

---------------------------- MODULE Bcm4313TxPwr ----------------------------
(***************************************************************************)
(* TX power control of the LCN PHY, as operators on the PHY of LcnRegs: by *)
(* the driver from the die's temperature, or by the hardware from TSSI     *)
(* (sc_hwpwrctrl_capable, here hw).  Mode and index are in 0x4a4 and 0x4a9. *)
(***************************************************************************)
EXTENDS LcnRegs, Bcm4313Qmath

CONSTANTS
  Temps,      (* What bcm4313_lcnphy_tempsense() may return, 9 bits wide.   *)
  Slope,      (* lcnphy_tempsense_slope                                     *)
  RawTemp,    (* lcnphy_rawtempsense                                        *)
  MeasPower,  (* lcnphy_measPower                                           *)
  MinPower    (* sc_tx_power_min                                            *)

ASSUME TempsAssumption == Temps \subseteq 0 .. 511 /\ RawTemp \in 0 .. 511
ASSUME SpromAssumption == {Slope, MeasPower, MinPower} \subseteq 0 .. 255

-----------------------------------------------------------------------------
(* The index for a temperature.                                            *)

FixedIndex == 78

\* tempcompensated_txpwrctrl(), with its int8_t arithmetic.
TargetIndex(p) ==
  LET board == IF MinPower # 0 THEN Int8(MeasPower - MinPower) ELSE 0
      diff == Signed(RawTemp) - Signed(p.temp)
      Drift(sign) == Int8(sign * Int8(DivRoundUp(sign * diff * 192, Slope * 10)))
      Clip(new) == IF new \in 0 .. 126 THEN new ELSE 127
  IN IF Slope = 0 THEN FixedIndex
     ELSE Clip(Int8(Int8(FixedIndex + board + Drift(IF diff < 0 THEN -1 ELSE 1) - p.edge) + 4))

\* Deviation: the register is taken for the index.
ReadIndexRaw(p) == Number(p.reg[\h4a9] \cap (0 .. 7))

\* The index as the driver reads it back.
ReadIndex(p) == Number(p.reg[\h4a9] \cap (0 .. 7)) \div 2

-----------------------------------------------------------------------------
(* The mode.                                                               *)

ModeBits == 13 .. 15
Off == {}
Hw == ModeBits
TempBased == ModeBits \cup {0}

\* get_tx_pwr_ctrl().
Mode(p) == p.reg[\h4a4] \cap ModeBits

\* Deviation: HW control is not replaced.
EffectiveModePlain(p, mode) == mode

\* set_tx_pwr_ctrl_mode(): without hardware control, HW stands for
\* temperature-based control.
EffectiveMode(p, mode) == IF mode = Hw /\ ~p.hw THEN TempBased ELSE mode

\* set_tx_pwr_soft_ctrl().
SoftCtrl(index) ==
  <<Mod(\h4a4, {14}, {14}), Mod(\h4a4, {14}, {}), Or(\h6da, {6}),
    Mod(\h4a4, {15}, {15}), Mod(\h4a4, {14}, {14}), Mod(\h4a4, {13}, {13}),
    Mod(\h4b0, {7}, {}), Mod(\h43b, {6}, {}), Mod(\h4a9, {15}, {15}),
    Mod(\h4a9, 0 .. 8, Bits(2 * index)), Mod(\h6a3, {4}, {})>>

\* What set_tx_pwr_ctrl() does before it hands over to the hardware; the start
\* index is wiped by the write of the mode, and the NPT's value is left out.
SetTarget == <<Mod(\h4a7, 0 .. 7, Bits(MinPower))>>

HandOver(p) ==
  (IF p.reg[\h4a7] \cap (0 .. 7) # Bits(MinPower) THEN SetTarget ELSE <<>>) \o
  <<Mod(\h4a4, 0 .. 8, {}), Mod(\h4a5, 8 .. 10, {}), Mod(R(\h11f), {2}, {})>> \o
  TxGainOverride(FALSE)

\* set_tx_pwr_ctrl().
SetTxPwrCtrl(p, mode) ==
  LET old == EffectiveMode(p, Mode(p))
      new == EffectiveMode(p, mode)
      clocks == <<Mod(\h6da, {6}, If(new = Hw, {6})), Mod(\h6a3, {4}, If(new # Hw, {4}))>>
      switch ==
        (IF new = Hw THEN HandOver(p) ELSE TxGainOverride(TRUE)) \o <<Mod(\h4a4, ModeBits, new)>> \o
        (IF new = TempBased THEN SoftCtrl(TargetIndex(p)) ELSE <<>>)
      ReadBack(q) ==
        IF old # new /\ new = TempBased THEN [q EXCEPT !.current = ReadIndex(q)] ELSE q
  IN ReadBack(Run(p, clocks \o (IF old = new THEN <<>> ELSE switch)))

-----------------------------------------------------------------------------
(* The index.                                                              *)

\* The pad gain is 31 at index 0 and one less past each of these indexes; the
\* tables for an external and an internal PA differ at the low end.
CommonSteps ==
  {2, 3, 4, 5, 6, 7, 8, 9, 11, 12, 18, 19, 21, 23, 25, 30, 32, 35, 37, 40, 44, 47, 51}
ExtPaSteps == CommonSteps \cup {56, 61, 68, 75, 86, 100, 123}
IntPaSteps == CommonSteps \cup {60, 69, 76, 86, 100}

Pad(fem, i) == 31 - Cardinality({s \in IF fem THEN ExtPaSteps ELSE IntPaSteps : s < i})

\* load_tx_gain_table(): with a front-end module gm is 3 throughout.
GainOf(p, i) == [gm |-> IF p.fem THEN {0, 1} ELSE 0 .. 3, pad |-> Bits(Pad(p.fem, i)), dac |-> {}]
PaOf(p) == IF p.fem THEN {12} ELSE {13, 14}

\* set_tx_pwr_by_index().  Entry 87 of the IQLOCAL table gets the multiplier
\* of the index; with hardware control, the others its coefficients.
SetTxPwrByIndex(p, index) ==
  LET off == SetTxPwrCtrl([p EXCEPT !.current = index], Off)
      set == Run(SetPaGain(SetTxGain(off, GainOf(p, index)), PaOf(p)), TxGainOverride(TRUE))
  IN [set EXCEPT !.bbmult = <<"index", index>>, !.coef = IF p.hw THEN p.coefs ELSE @]

\* tx_power_adjustment().
Adjusted(p) ==
  LET ReadBack(q) == [q EXCEPT !.current = ReadIndex(q)]
  IN IF p.hw \/ Mode(p) = Off THEN p
     ELSE ReadBack(Run(p, <<Mod(\h4a9, 0 .. 8, Bits(2 * TargetIndex(p)))>>))

=============================================================================

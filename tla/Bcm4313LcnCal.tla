---------------------------- MODULE Bcm4313LcnCal ----------------------------
(***************************************************************************)
(* The calibrations of the LCN PHY, as operators on the PHY of LcnRegs.    *)
(* What the hardware answers is an outcome o: wait, every command of the   *)
(* TX calibration ends before the time-out; coef, what it found; again,    *)
(* its local-oscillator values are extreme; search, how the search for an  *)
(* RX gain ends.  The boards are LCN rev 1, as the driver's comments say   *)
(* of the 4313.                                                            *)
(***************************************************************************)
EXTENDS Bcm4313TxPwr

-----------------------------------------------------------------------------
(* TX IQ and LO.                                                           *)

LoopbackRegs ==
  {R(a) : a \in {\h036, \h11a, \h03a, \h025, \h028, \h005, \h112, \h0ff, \h11f, \h00b,
                 \h113, \h007, \h0fc, \h0fd, \h012, \h057, \h059, \h05c, \h078, \h092}}

\* tx_iqlo_loopback().
Loopback ==
  <<Mod(\h44c, {12}, {12}), Mod(\h44d, {14}, {14}), Mod(\h44c, {11}, {11}), Mod(\h44d, {13}, {}),
    Mod(\h43b, {1}, {1}), Mod(\h43c, {1}, {}), Mod(\h43b, {0}, {0}), Mod(\h43c, {0}, {}),
    And(R(\h03a), Bits(\hf9)), Or(R(\h11a), {0}), Or(R(\h036), {0}), Or(R(\h11a), {3, 4}),
    Or(R(\h03a), {0, 1}), Wr(R(\h025), Bits(\hf)), Mod(R(\h028), 1 .. 4, Bits(\hc)),
    Wr(R(\h005), {3}), Or(R(\h112), {7}), Or(R(\h0ff), {4}), Or(R(\h11f), {2, 6}),
    Or(R(\h00b), 0 .. 2), Or(R(\h113), {4}), Wr(R(\h007), {0}), Mod(R(\h0fc), {0, 1}, {1}),
    Wr(R(\h0fd), Bits(\ha6)), Or(R(\h11f), {2, 6}), Or(R(\h0ff), {4}), Wr(R(\h012), {1}),
    Or(R(\h112), {1, 2}), Wr(R(\h036), {0, 4}), Wr(R(\h059), Bits(\hcc)),
    Wr(R(\h05c), Bits(\h2e)), Wr(R(\h078), Bits(\hd7)), Wr(R(\h092), Bits(\h15))>>

\* tx_iqlo_loopback_cleanup(), of the loopback that began in p.
LoopbackCleanup(q, p) ==
  Restore(Run(q, <<And(\h44c, {}), And(\h43b, {2, 3})>>), p, LoopbackRegs)

\* Deviation: the IQ calibration's tone is left to stop_tx_tone().
IqcalEndPlain(old) == <<Wr(\h4db, old[\h4db])>>

\* The end of tx_iqlo_cal(), before the gains: tone and power-control override.
IqcalEnd(old) == <<Wr(\h4db, old[\h4db]), Wr(\h453, {})>>

\* Deviation: the results are stored whatever the commands did.
StoreAlways(p, o) == [p EXCEPT !.coef = o.coef]

\* Entries 80, 81 and 85 are written when the last command has ended.
Store(p, o) == IF o.wait THEN [p EXCEPT !.coef = o.coef] ELSE p

\* tx_iqlo_cal().  No row of the gain parameters' table matches the gains that
\* its callers ask for.
TxIqloCal(p, gains, o) ==
  LET clocks == Run(p, <<Or(\h6da, {6}), Or(\h6db, {0, 1}), Wr(\h6da, Word), Mod(\h503, {3}, {3}),
                         Mod(\h4a4, {12}, {12})>>)
      Looped(off, lent) ==
        LET looped == Run(lent, Loopback)
            toned == Run(SetTxGain(looped, gains),
                         <<Wr(\h453, Bits(\haa9))>> \o StartTxTone(TRUE) \o <<Wr(\h6da, Word)>>)
            quiet == StopTxTone(LoopbackCleanup(Store(toned, o), lent))
            Regained(q) == IF TxGainOverridden(looped) THEN SetTxGain(q, TxGain(looped)) ELSE q
        IN Regained(Run(quiet, IqcalEnd(off.reg)))
      Measured(off) ==
        Looped(off, Run(off, <<Mod(\h4db, 0 .. 9, Bits(\h2a6)), Mod(\h4db, 12 .. 14, {13})>>))
  IN Restore(SetTxPwrCtrl(Measured(SetTxPwrCtrl(clocks, Off)), Mode(p)), p, {\h6da, \h6db})

\* Deviation: only hardware control gets the coefficients.
CopyCoefsHw(p) == IF p.hw THEN [p EXCEPT !.coefs = p.coef] ELSE p

\* The coefficients go to every index of the power table.
CopyCoefs(p) == [p EXCEPT !.coefs = p.coef]

\* txpwrtbl_iqlo_cal(): again when the local-oscillator values are extreme.
CalGain(pad) == [gm |-> 0 .. 2, pad |-> Bits(pad), dac |-> {}]

TxPwrTblIqloCal(p, o) ==
  LET set == SetTxPwrByIndex(SetTxGain(SetTxPwrCtrl(p, Off), CalGain(21)), 30)
      Again(q) == IF o.again THEN TxIqloCal(SetTxPwrByIndex(q, 16), CalGain(30), o) ELSE q
      kept == [CopyCoefs(Again(TxIqloCal(set, CalGain(21), o))) EXCEPT !.bbmult = p.bbmult]
      Back(q) == IF Mode(p) # Off THEN SetTxPwrCtrl(q, Mode(p)) ELSE SetTxPwrByIndex(q, p.current)
  IN Back(SetTxGain(SetPaGain(kept, PaGain(p)), TxGain(p)))

-----------------------------------------------------------------------------
(* RX IQ.                                                                  *)

\* rx_iq_est(): 0x481 bit 9 tells when it is ready.
RxIqEst == <<Mod(\h6da, {5}, {5}), Mod(\h410, {3}, {}), Mod(\h410, {3}, {3}), Mod(\h6da, {5}, {})>>

\* One step of rx_iq_cal_gain(), with LNA1 gain 0; a first estimate that times
\* out is the last.
RxIqCalGain(both) ==
  LET tone == StartTxTone(FALSE) \o <<Wr(R(\h112), {})>> \o RxIqEst
  IN <<Mod(\h4b1, {11, 12}, {}), Mod(\h4b1, {9}, {}), Mod(\h4b1, {10}, {})>> \o
     RxGainOverride(TRUE) \o tone \o (IF both THEN tone ELSE <<>>)

\* calc_rx_iq_comp(); two early returns leave 0x64b and the coefficients.
CalcRxIqComp(ended) ==
  <<Mod(\h6d1, {2}, {}), Mod(\h64b, {6}, {6})>> \o RxIqEst \o
  (IF ended THEN <<Mod(\h64b, {0}, {0}), Mod(\h64b, {3}, {3})>> ELSE <<>>)

Searches == {"none", "early", "found", "stuck"}

\* The search tries 140 gains; each step leaves the registers as the last.
RxSearch(search) ==
  RxIqCalGain(TRUE) \o RxIqCalGain(search # "early") \o
  (IF search \in {"found", "stuck"} THEN CalcRxIqComp(search = "found") ELSE <<>>)

RxRfRegs ==
  {R(a) : a \in {\h098, \h116, \h12c, \h06a, \h00b, \h01b, \h113, \h01d, \h114, \h02e, \h12a}}

RxPhyRegs == {\h44d, \h4b0, \h4b1, \h4f9, \h4fa, \h938, \h939, \h43b, \h43c, \h6da, \h6db}

\* The registers that rx_iq_cal() sets before the search.
RxIqCalSetup ==
  <<Mod(\h4f9, {0}, {0}), Mod(\h4fa, {0}, {}), Mod(\h43b, {1}, {1}), Mod(\h43c, {1}, {}),
    Wr(R(\h116), Bits(\h06)), Wr(R(\h12c), Bits(\h07)), Wr(R(\h06a), Bits(\hd3)),
    Wr(R(\h098), Bits(\h03)), Wr(R(\h00b), Bits(\h7)), Mod(R(\h113), {4}, {4}),
    Wr(R(\h01d), {0}), Wr(R(\h114), {0}), Wr(R(\h02e), {4}), Wr(R(\h12a), {3}),
    Mod(\h938, {0}, {0}), Mod(\h939, {0}, {}), Mod(\h938, {1}, {1}), Mod(\h939, {1}, {1}),
    Mod(\h938, {2}, {2}), Mod(\h939, {2}, {2}), Mod(\h938, {3}, {3}), Mod(\h939, {3}, {3}),
    Mod(\h938, {5}, {5}), Mod(\h939, {5}, {}), Mod(\h43b, {0}, {0}), Mod(\h43c, {0}, {}),
    Wr(\h6da, Word), Or(\h6db, {0, 1})>> \o TrswOverride(TRUE, FALSE)

\* rx_iq_cal(), on module 1 with index 40.  0x44c gets what 0x44d held.
RxIqCal(p, o) ==
  LET Searched(off) ==
        LET set == Run(SetTxPwrByIndex(off, 40), RxIqCalSetup)
            quiet == StopTxTone(Run(set, RxSearch(o.search)))
            back == Run(Restore(quiet, off, RxPhyRegs),
                        <<Wr(\h631, p.reg[\h631]), Wr(\h44c, off.reg[\h44d])>> \o
                        TrswOverride(FALSE, FALSE) \o <<Mod(\h44c, {2}, {})>>)
            Regained(q) == IF TxGainOverridden(off) THEN SetTxPwrByIndex(q, off.current)
                           ELSE Run(q, TxGainOverride(FALSE))
        IN Regained(Restore(back, off, RxRfRegs))
      measured == Searched(Run(SetTxPwrCtrl(p, Off), <<Or(\h631, {0, 2, 4})>>))
  IN Run(SetTxPwrCtrl(measured, Mode(p)), RxGainOverride(FALSE))

-----------------------------------------------------------------------------
(* TSSI and temperature sense.                                             *)

\* The auxiliary PGA's levels, from the SPROM, as they are in 0x4db.
AuxPga == {2, 5, 9, 12}

\* set_tssi_mux(): external with a front-end module, else after the PA.
TssiMux(fem) ==
  <<Mod(\h4d7, {0}, {0}), Mod(\h4d7, {6}, {6})>> \o
  (IF fem
   THEN <<Mod(\h4d9, {2}, {2}), Mod(\h4d9, {3}, {}), Mod(R(\h03a), {0}, {}),
          Mod(R(\h11a), {3}, {3}), Mod(\h637, {14, 15}, {}), Wr(R(\h07f), {0}),
          Mod(R(\h005), 0 .. 2, {1}), Mod(R(\h112), {7}, {7}), Mod(R(\h028), 0 .. 4, {0, 1})>>
   ELSE <<Mod(\h4d9, {2}, {}), Mod(\h4d9, {3}, {3}), Mod(R(\h03a), {0}, {0}),
          Mod(R(\h11a), {3}, {3}), Mod(R(\h028), {0}, {}), Mod(R(\h11a), {2}, {2}),
          Mod(R(\h036), {4}, {}), Mod(R(\h11a), {4}, {4}), Mod(R(\h036), {0, 1}, {}),
          Mod(R(\h035), 0 .. 7, Bits(\h77)), Mod(R(\h028), 1 .. 4, 2 .. 4),
          Mod(R(\h112), {7}, {7}), Mod(R(\h005), 0 .. 2, {1}), Mod(R(\h029), 4 .. 7, {}),
          Mod(\h637, {14, 15}, {})>>)

\* tssi_setup(), with pwrctrl_rssiparams(); only boards with hardware control
\* come here.
TssiSetup(fem) ==
  <<Mod(\h503, {0}, {}), Mod(\h503, {2}, {}), Mod(\h503, {4}, {4})>> \o TssiMux(fem) \o
  <<Mod(\h4a4, {14}, {}), Mod(\h4a4, {15}, {15}), Mod(\h4d0, {5}, {}), Mod(\h4a4, 0 .. 8, {}),
    Mod(\h4a5, 0 .. 7, 0 .. 7), Mod(\h4a5, 12 .. 14, {12, 14}), Mod(\h4a5, 8 .. 10, {}),
    Mod(\h40d, 0 .. 7, {6}), Mod(\h40d, 8 .. 10, {10}), Mod(\h4a2, 0 .. 7, {6}),
    Mod(\h4a2, 8 .. 10, {10}), Mod(\h4d0, 6 .. 14, {}), Mod(\h4a8, 0 .. 7, {0}),
    Mod(\h4a6, {15}, {15}), Mod(\h4a6, 0 .. 8, 0 .. 7), Mod(\h49a, 0 .. 8, 0 .. 7),
    Mod(R(\h028), 1 .. 4, IF fem THEN {1} ELSE 2 .. 4), Mod(R(\h03a), {0}, {0}),
    Mod(R(\h11a), {3}, {3}), Wr(R(\h025), {2, 3}), Mod(R(\h03a), {1}, {1}),
    Mod(R(\h03a), {2}, {2}), Mod(R(\h11a), {0}, {0}), Mod(R(\h005), {3}, {3}),
    Mod(\h4d7, {3, 12, 13, 14}, {13}), Mod(\h938, {2}, {2}), Mod(\h939, {2}, {2}),
    Mod(\h4a4, {12}, {12}), Mod(\h4d7, {2}, {2}), Mod(\h4d7, 8 .. 11, {}),
    Mod(R(\h035), 0 .. 7, {}), Mod(R(\h036), {0, 1}, {}), Mod(R(\h11a), {3}, {3}),
    Mod(\h4d8, {0}, {}), Mod(\h4d8, {1}, {}), Mod(\h4d7, {3}, {}),
    Mod(\h4db, (0 .. 9) \cup (12 .. 14), AuxPga), Mod(R(\h082), {5}, {5}), Mod(R(\h07c), {0}, {0})>>

\* idle_tssi_est(), with an idle TSSI of 0.
IdleTssiEst(p) ==
  LET Sensed(off) ==
        LET quiet == SetTxPwrByIndex(Run(off, TxGainOverride(TRUE)), 127)
            sensed == Run(quiet,
                          <<Wr(R(\h112), {1, 2}), Mod(R(\h007), {0}, {0}), Mod(R(\h0ff), {4}, {4}),
                            Mod(R(\h11f), {2}, {2})>> \o TssiSetup(p.fem) \o
                          <<Mod(\h4d7, {0}, {0}), Mod(\h4d7, {6}, {6}), Mod(\h4a6, 0 .. 8, {}),
                            Mod(\h44c, {12}, {})>> \o TxGainOverride(TxGainOverridden(off)))
        IN SetTxGain([sensed EXCEPT !.bbmult = p.bbmult], TxGain(off))
  IN Run(SetTxPwrCtrl(Sensed(SetTxPwrCtrl(p, Off)), Mode(p)),
         <<Wr(R(\h112), p.reg[R(\h112)]), Mod(R(\h007), {0}, p.reg[R(\h007)] \cap {0}),
           Mod(R(\h0ff), {4}, p.reg[R(\h0ff)] \cap {4}),
           Mod(R(\h11f), {2}, p.reg[R(\h11f)] \cap {2}), Mod(R(\h112), {7}, {7})>>)

\* vbat_temp_sense_setup(), for the temperature.  It also reads and writes
\* back radio register 0x4a4, which nothing else uses.
TempSensePhyRegs ==
  {\h503, \h4a4, \h4d0, \h4d9, \h4da, \h4a6, \h938, \h939, \h4d8, \h4d7, \h4a5, \h40d, \h4a2}
TempSenseRfRegs == {R(a) : a \in {\h007, \h0ff, \h11f, \h005, \h025, \h112}}

TempSenseSetup(p) ==
  LET Sensed(off) ==
        LET sensed == Run(SetTxPwrByIndex(off, 127),
                          <<Mod(R(\h007), {0}, {0}), Mod(R(\h0ff), {4}, {4}), Mod(R(\h11f), {2}, {2}),
                            Mod(R(\h082), {5}, {5})>>)
        IN SetTxPwrByIndex(Restore(sensed, p, TempSensePhyRegs \cup TempSenseRfRegs), off.current)
  IN Sensed(SetTxPwrCtrl(p, Off))

\* tx_pwr_ctrl_init().
TxPwrCtrlInit(p) ==
  LET set == SetTxGain(p, [gm |-> {2, 10, 11}, pad |-> {2, 3}, dac |-> {}])
      idle == Run(IdleTssiEst(p),
                  <<Mod(\h4d0, {0}, {}), Mod(\h4d3, 0 .. 7, {}), Mod(\h4d3, 8 .. 15, {}),
                    Mod(\h4d0, {4}, {}), Mod(\h4d0, {2}, {}), Mod(\h410, {7}, {}),
                    Wr(\h4a8, {1, 3}), Mod(\h4a7, 0 .. 7, Bits(60))>>)
  IN IF p.hw THEN SetTxPwrCtrl(idle, Hw)
     ELSE TempSenseSetup([set EXCEPT !.bbmult = <<"init", 150>>])

=============================================================================

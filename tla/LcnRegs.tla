------------------------------ MODULE LcnRegs ------------------------------
(***************************************************************************)
(* The registers of the LCN PHY and of the 2064 radio, and the sequences   *)
(* that more than one routine runs on them: overrides, gains, tones.       *)
(*                                                                         *)
(* A register is a set of bits.  A sequence of accesses is a tuple of      *)
(* instructions: keep these bits, then set those.  A PHY is a record: reg, *)
(* the registers; bbmult, entry 87 of the IQLOCAL table; coef, its entries *)
(* 80, 81 and 85; current, lcnphy_current_index; and what does not change  *)
(* from the attach to the detach (hw, fem).  MAC suspension is in          *)
(* Bcm4313Cal; the delays, the copies 0x4fc and 0x4fd of the gains, the    *)
(* samples and the tables that nothing reads back are left out.            *)
(***************************************************************************)
EXTENDS Integers, FiniteSetsExt, SequencesExt

Word == 0 .. 15

\* The bits of n, from bit "at" up.
Field(n, at) == {b \in at .. 15 : (n \div 2^(b - at)) % 2 = 1}
Bits(n) == Field(n, 0)

Number(bits) == MapThenSumSet(LAMBDA b : 2^b, bits)

If(on, bits) == IF on THEN bits ELSE {}

\* A radio register, among the PHY's.
R(a) == 4096 + a

-----------------------------------------------------------------------------
(* Instructions.                                                           *)

\* phy_write() and radio_write().
Wr(a, v) == [addr |-> a, keep |-> {}, set |-> v]

\* phy_maskset() and radio_maskset(): the mask says which bits to keep.
Mod(a, mask, v) == [addr |-> a, keep |-> mask, set |-> v]

\* maskset(a, 0xffff, read(a) | v).
Or(a, v) == Mod(a, Word, v)

\* maskset(a, 0xffff, read(a) & v): the old word stays, and what the AND left
\* of it is ORed to it.
And(a, v) == Mod(a, Word, {})

Apply(reg, prog) ==
  LET after[i \in 0 .. Len(prog)] ==
        IF i = 0 THEN reg
        ELSE [after[i - 1] EXCEPT ![prog[i].addr] = (@ \cap prog[i].keep) \cup prog[i].set]
  IN after[Len(prog)]

Run(p, prog) == [p EXCEPT !.reg = Apply(@, prog)]

\* Write back what was read in "old".
Restore(p, old, addrs) ==
  [p EXCEPT !.reg = [a \in DOMAIN @ |-> IF a \in addrs THEN old.reg[a] ELSE @[a]]]

-----------------------------------------------------------------------------
(* Overrides and gains.                                                    *)

\* set_tx_gain_override(), TX_GAIN_OVERRIDE_ENABLED().
TxGainOverride(on) == <<Mod(\h4b0, {8}, If(on, {8})), Mod(\h43b, {6}, If(on, {6}))>>
TxGainOverridden(p) == 6 \in p.reg[\h43b]

\* set_trsw_override().
TrswOverride(tx, rx) ==
  <<Mod(\h4b0, {7}, If(tx, {7})), Mod(\h4b0, {6}, If(rx, {6})), Mod(\h4b0, {5}, If(rx, {5}))>>

\* rx_gain_override_enable(), on LCN rev 1.
RxGainOverride(on) ==
  <<Mod(\h4b0, {8}, If(on, {8})), Mod(\h44c, {0}, If(on, {0})),
    Mod(\h44c, {4}, If(on, {4})), Mod(\h44c, {6}, If(on, {6})),
    Mod(\h4b0, {5}, If(on, {5})), Mod(\h4b0, {6}, If(on, {6})),
    Mod(\h4b0, {10}, If(on, {10})), Mod(\h4e5, {3}, If(on, {3}))>>

\* get_tx_gain() and get_pa_gain(); gm and pga are both in 0x4b5.
TxGain(p) ==
  [gm |-> p.reg[\h4b5], pad |-> p.reg[\h4fb] \cap (0 .. 7), dac |-> p.reg[\h439] \cap (7 .. 9)]
PaGain(p) == p.reg[\h4fb] \cap (8 .. 14)

SetPaGain(p, pa) == Run(p, <<Mod(\h4fb, 8 .. 14, pa)>>)

\* set_tx_gain().
SetTxGain(p, g) ==
  Run(p, <<Mod(\h4b5, Word, g.gm), Mod(\h4fb, 0 .. 14, g.pad \cup PaGain(p)),
           Mod(\h439, 7 .. 9, g.dac)>> \o TxGainOverride(TRUE))

\* deaf_mode(), on a 20 MHz channel.
DeafMode(on) ==
  <<Mod(\h4b0, {5}, If(on, {5})), Mod(\h4b1, {9}, {}),
    Mod(\h410, {5, 6}, If(~on, {5, 6})), Mod(\h410, {7}, If(on, {7}))>>

-----------------------------------------------------------------------------
(* Tones.                                                                  *)

\* tx_pu().
TxPuOn ==
  <<Mod(\h43b, {1}, {1}), Mod(\h43c, {1}, {}), Mod(\h43b, {4}, {4}), Mod(\h43c, {6}, {}),
    Mod(\h44c, {12}, {12}), Mod(\h44d, {14}, {14})>> \o TrswOverride(TRUE, FALSE) \o
  <<Mod(\h44d, {2}, {}), Mod(\h44c, {2}, {2}), Mod(\h44c, {3}, {3}), Mod(\h44d, {3}, {3}),
    Mod(\h44c, {5}, {5}), Mod(\h44d, {5}, {}), Mod(\h4f9, {1}, {1}), Mod(\h4fa, {1}, {1}),
    Mod(\h4f9, {2}, {2}), Mod(\h4fa, {2}, {2}), Mod(\h4f9, {0}, {0}), Mod(\h4fa, {0}, {0})>>

TxPuOff ==
  <<And(\h43b, Word \ {1, 4}), Mod(\h43c, {1}, {1}),
    And(\h44c, Word \ {0, 1, 2, 3, 5, 12}), And(\h44d, Word \ {3, 5, 14}),
    Mod(\h44d, {2}, {2}), Mod(\h44d, {0, 1}, {0}),
    And(\h4f9, 3 .. 15), And(\h4fa, 3 .. 15)>>

\* run_samples(), endlessly; the numbers of samples stay the same.
RunSamples(iqcal) ==
  <<Or(\h6da, {7, 15})>> \o
  (IF iqcal THEN <<And(\h453, 0 .. 14), Or(\h453, {15})>> ELSE <<Wr(\h63f, {0})>> \o TxPuOn) \o
  <<Or(R(\h112), {1, 2})>>

\* start_tx_tone().  lcnphy_spurmod is never set.
StartTxTone(iqcal) ==
  DeafMode(TRUE) \o <<Mod(\h6d6, {0, 1}, {}), Mod(\h6da, {3}, {3})>> \o RunSamples(iqcal)

\* The playback status, 0x644: samples play from the start (0x63f bit 0) to
\* the stop (bit 1), or for the IQ calibration while 0x453 bit 15 is set.
SamplesPlay(p) == 0 \in p.reg[\h63f] /\ 1 \notin p.reg[\h63f]
IqcalPlays(p) == 15 \in p.reg[\h453]

\* stop_tx_tone().
StopTxTone(p) ==
  Run(p,
    (IF SamplesPlay(p) THEN TxPuOff \o <<Mod(\h63f, {1}, {1})>>
     ELSE IF IqcalPlays(p) THEN <<Mod(\h453, {15}, {})>>
     ELSE <<>>) \o
    <<Mod(\h6d6, {0, 1}, {0}), Mod(\h6da, {3}, {}), Mod(\h6da, {7}, {}),
      Mod(R(\h112), Word \ {1, 2}, {})>> \o DeafMode(FALSE))

=============================================================================

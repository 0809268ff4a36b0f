# TLA+ models of the bcm4313 driver

This directory models the run-time core of the FreeBSD driver for the
Broadcom BCM4313 (`if_bcm4313.c`, `if_bcm4313_phy_lcn.c`,
`if_bcm4313var.h`): the DMA rings, the transmit and receive paths, the life of
the MAC (interrupts, watchdog, bring-up, teardown), attach and detach, the
recalibration loop, and the LCN PHY register by register: bring-up, change of
channel, calibrations, TX power control; besides, the PHY's integer arithmetic
and the upload of the microcode.
TLC checks the models on small instances; TLAPS proves the theorems listed
below for every value of the constants.  Line numbers without a file name are
those of `if_bcm4313.c`; `lcn:` stands for `if_bcm4313_phy_lcn.c`.

## 1. Inventory of the system

| Part | State it keeps | Operations | Hard because |
|---|---|---|---|
| dma64 rings (312-606) | `r_in`, `r_out`, slots, descriptors, TX header cache, engine position | alloc, init, stop, refill, reclaim | hardware advances on its own; full/empty; re-init over old contents |
| transmit path (608-649, 777-1045) | `sc_snd`, `sc_tx`, mbufs, node references | `transmit`, `raw_xmit`, `start_locked`, `tx_start_locked`, `tx_reclaim` | many error exits, each owing an mbuf and a node; requeue after encapsulation |
| receive and TX status path (562-606, 651-769) | `sc_rx`, `sc_txstatus` | `rx_refill`, `rx_harvest`, `txstatus_harvest` | the lock is dropped in the middle of a harvest |
| interrupts, watchdog, bring-up, teardown (1371-1943) | `sc_flags`, `sc_watchdog_timer`, `sc_intr_mask`, `sc_radio_off`, MACCONTROL, MACINTMASK, MACINTSTATUS | filter, `intrtask`, `watchdog`, `parent`, `init_locked`, `stop_locked`, `newstate` | five fatal paths; net80211 brings the interface up and down meanwhile |
| MACCONTROL and recalibration (1187-1349, lcn:165-189, 3662-3825, 4288-4335) | EN_MAC and filter bits, `lcnphy_*` counters | suspend brackets, scan hooks, `lcnphy_watchdog`, `calib_modes` | nested brackets; a radio that is live while the driver works |
| PHY register access, TX power control (200-260, lcn:502-691, 1333-1603, 3827-3845) | PHY and radio registers, gain table, power index | `phy_maskset`, `set_tx_pwr_ctrl`, `set_tx_pwr_by_index`, `tx_power_adjustment` | read-modify-write conventions; accumulated index; two kinds of boards |
| LCN PHY sequences (lcn:849-1240, 1781-2041, 2115-2459, 2478-2874, 3167-3554, 3664-3750, 3937-4374) | the same, and the IQLOCAL table | `lcnphy_init`, `set_chanspec`, `periodic_cal`, `glacial_timer_based_cal` and what they call | a calibration lends dozens of registers to loopbacks and tones and calls routines that lend them too; time-outs and early returns in the middle |
| Q-format arithmetic, power tables (lcn:98-160, 431-493, 782-847, 1278, 1604-1775, 3585-3640) | none | fixed-point helpers | widths, signs and rounding |
| attach, detach (312-450, 2100-2469) | resources, ATTACHED | acquire, unwind, drain | failure in the middle; detach against callout and task |
| microcode upload (1062-1166) | none | section lookup, init tables | bounds; sizes that come from the image |
| PCI front end, sysctls, generated tables and microcode, vendored `brcmsmac/`, scripts | none of their own | glue, data, host tooling | - |

How they interact: net80211 calls `transmit`, `raw_xmit`, `parent` (from its
own task), `newstate`, the scan hooks and `set_channel`; the interrupt filter
runs without a lock and queues `intrtask` on the driver's taskqueue; the
watchdog is a callout.  All but the filter take `sc_mtx`.  The only place that
gives it up in the middle of its work is `rx_harvest`, around
`ieee80211_input()` (711-719).  The hardware shares the descriptor rings and
the registers and obeys no lock.

## 2. Modules

| Module | Models | Code |
|---|---|---|
| `DmaRing` | index arithmetic of a ring: `Adv`, `Active`, `Window` | 575-577, 630-647, 718-724 |
| `Bcm4313Tx` | transmit path with ring, header cache, mbuf ownership, node references | 451-560, 608-649, 777-1045 |
| `TxPipe` | abstract specification: a FIFO queue in front of a FIFO pipe | - |
| `Bcm4313Rx` | one receive ring, RX data or TX status | 473-606, 651-769 |
| `RxPipe` | abstract specification: a FIFO queue of buffers, filled and passed up in order | - |
| `Bcm4313Mac` | flags, watchdog, interrupts, init/stop, RF kill | 1371-1430, 1482-1943 |
| `Bcm4313Attach` | attach, its failures, detach beside a busy driver, `ring_alloc`, `ring_free` | 312-450, 1371-1394, 1498-1609, 2100-2469 |
| `LcnRegs` | registers as sets of bits, sequences of accesses; overrides, gains, tones | 200-254, lcn:502-660, 2681-2874 |
| `Bcm4313Qmath` | division, roots, logarithm, LO leakage words, temperature | lcn:98-115, 431-493, 782-841, 1383-1387, 1617-1771, 3585-3640 |
| `Bcm4313TxPwr` | power control, by temperature or by the hardware: target index, mode, `set_tx_pwr_ctrl`, `set_tx_pwr_by_index` | lcn:1303-1603, 3827-3882 |
| `Bcm4313LcnCal` | the calibrations: TX IQ and LO, RX IQ, TSSI, temperature sense | lcn:911-1240, 2115-2459, 2478-2672, 3167-3554 |
| `Bcm4313Phy` | state machine on top: core reset, bring-up, change of channel, adjustment, recalibration | 1354-1370, 1832-1910, lcn:1781-2041, 3662-3845, 4044-4374 |
| `Bcm4313Ucode` | sections of the microcode image, bounds, lists of initial values | 1062-1166, `bcm4313_ucode.c`:33-50 |
| `Bcm4313Cal` | MACCONTROL, suspend brackets, scan bits, recalibration | 1187-1349, lcn:165-189, 3662-3825, 4288-4335 |
| `MCTx`, `MCRx`, `MCMac`, `MCCal`, `MCAttach`, `MCPhy`, `MCPure` | small values of the constants for TLC | - |
| `DmaRing_proofs` | lemmas about the index arithmetic, for every ring size | - |
| `Bcm4313Tx_proofs`, `Bcm4313Rx_proofs`, `Bcm4313Mac_proofs`, `Bcm4313Cal_proofs`, `Bcm4313Attach_proofs`, `Bcm4313Phy_proofs` | theorems about the module of that name; the last one also has the lemmas about `LcnRegs`, `Bcm4313TxPwr` and `Bcm4313LcnCal` | - |
| `Pure_proofs` | theorems about the functions of `Bcm4313Qmath` and `Bcm4313Ucode` | - |

Atomicity follows the lock.  A function that holds `sc_mtx` from beginning to
end and whose intermediate states nobody can see is one action.  Loops that
the hardware can overtake are one action per iteration (`start_locked`,
`rx_refill`, `rx_harvest`), with a variable saying that the lock is held
(`lock` in `Bcm4313Tx`, `parent`/`ipc` in `Bcm4313Rx`, `ipc` in `Bcm4313Mac`,
`todo` in `Bcm4313Cal`).  The engine's step (`HwFetch`, `HwReceive`)
interleaves with each iteration.

What is abstracted, by module:

- `Bcm4313Tx`: an mbuf is a model value; what a descriptor points at is the
  frame or the header-cache entry it names; the D11 header's contents are
  whose header it is.  A frame that cannot be mapped is a nondeterministic
  rejection; its mbuf is freed, or, where `m_defrag()` failed (891-894), stays
  the driver's and is in no place ("leaked"; section 5).
  A stuck engine (`ring_stop` gave up after its spin bound) fetches no more.
- `Bcm4313Rx`: `delivers` says whether the ring is `sc_rx` or `sc_txstatus`;
  the status ring's harvest may come after an unlock by the RX ring
  (`RxRingFirst`).  `raced` and `forgot` are history variables: a stop or
  bring-up slipped into an unlocked harvest; `ring_rx_init` met a ring that
  still held mbufs.  Properties that the driver can keep only without such an
  event say so.
- `Bcm4313Mac`: the rings are "live", "off" or "stuck"; a core that is gone
  answers all ones and loses writes.  `bhnd_reset_hw()` is external: it may fail
  when the core is gone or an engine was not disarmed.  MI_DMAINT and MI_TFS
  are one reason, "IO".
- `Bcm4313Cal`: the PHY's registers are not modelled here.  A calibration is a
  program of the operations that others can notice: open or close a suspend
  bracket, deafen, hear, note the time.  `deaf` is the argument of the last
  `lcnphy_deaf_mode()` call.
- `Bcm4313Attach`: attach and detach are two sequences of steps
  (`AttachOrder`, `DetachOrder`); a step that waits (for the lock, for the
  parent task, for `intrtask`) has the wait as its guard.  The driver at work is
  reduced to what detach has to end: RUNNING, engines, callout, interrupt, task.
  `ieee80211_ifdetach()` and `bhnd_*()` are external.
- `LcnRegs`, `Bcm4313TxPwr`, `Bcm4313LcnCal`: operators, without a state of
  their own, on a PHY that is a record; `Bcm4313Phy` is the state machine.  The
  whole of an operation is one action, because it runs under `sc_mtx` and
  nothing else touches the PHY.  A core reset is an action of its own, because
  `bring_up` stops behind it when the RF kill switch is on, and the channel is
  refused until the next bring-up.  100 registers are there bit by bit, as
  `phy_maskset` and `radio_maskset` leave them: the ones that a sequence saves, or
  reads, or that decide what the PHY does.  The tables keep what tells a
  calibration's results apart: entry 87 of IQLOCAL (`bbmult`), entries 80, 81, 85
  (`coef`) and their copies in the power table (`coefs`); the gain table is
  computed (`GainOf`).  The hardware's answers (does a command end in time, what
  did it find, are the values extreme, how does the search for an RX gain end) are
  the `Outcomes`.
- Left out of the PHY's model: MAC suspension (`Bcm4313Cal`), the copies 0x4fc and
  0x4fd of the gains, 0x4b6/0x4b7, the RX compensation's registers (0x645-0x64a,
  0x451/0x452, 0x93d, 0x481/0x482, 0x640-0x642), 0x6a6, registers that
  one bring-up sets to fixed values and nothing reads (most of `bu_tweaks`), the
  radio's words that tune filters and amplifiers, which only the change of channel
  touches (lcn:1901-1916, 1943, 1974-1978, 2005-2020), what
  `vbat_temp_sense_setup` writes and then restores, the idle TSSI (taken as 0),
  sample data, filter coefficients, PMU clocks, antennas, delays.  The
  boards are LCN rev 1, as the comments of the driver say.
- `Bcm4313Qmath`: the loops over bits are recursive functions next to what they
  compute; the PHY's modules use the latter (`DivRoundUp`), which `QdivIsExact`
  (section 4) shows to be the same for the quotients that fit 32 bits, as theirs do.  CORDIC, the TSSI to
  dBm tables and the saturation of the 32-bit operations are left out.
- `Bcm4313Ucode`: the driver's own header, with offsets and lengths; the words
  and values are not.

Definitions that stand for code are listed with their lines in `PROJECT.json`.
Operators marked "Deviation" are plausible slips (a forgotten check, an index
off by one); nothing in the specifications uses them.  They exist to see that
each property notices such a slip.

## 3. Runs

| Run | Bounds | Shows |
|---|---|---|
| `MCTx` | 6 slots, queue of 2, four frames: plain, protected, too short, without node | `TypeOK`; what the engine fetches is what was posted (`FetchedIsOwned`); each mbuf in one place (`OneOwner`); node references balanced on all exits (`NodeRefBalanced`); bodies freed only after the fetch (`FreedAfterFetch`); refinement of `TxPipe` (`ImplementsPipe`) |
| `MCTxSmall` | 4 slots, queue of 2, three frames that fit, one of them protected | posting never meets `r_in` (`RingNeverOverflows`); repeated encapsulation only behind a forgotten slot (`EncapTwiceOnlyWhenStale`); a reclaim leaves posted exactly what a running engine has yet to read (`ReclaimCatchesUp`) |
| `MCMac` | timer of 2 ticks, all hardware events | `TypeOK`; RUNNING means armed (`RunningIsArmed`); a dead core stays dead (`DeadIsFinal`); the PSM watchdog is served once (`Gp0ServedOnce`); faults end RUNNING (`FaultsStopTheMac`) |
| `MCRx` | 3 slots, 3 mbufs, both kinds of ring | `TypeOK`; DMA goes into owned buffers (`DmaIntoOwned`); no mbuf in two places (`HeldOnce`) or lost (`NothingLeaks`); refinement of `RxPipe` (`ImplementsPipe`): filled buffers only, in order; a harvest ends, and takes all that it found received (`HarvestTakesAll`) |
| `MCCal` | interval 3, limit 2, ages up to 8, three temperatures, both kinds of board | `TypeOK`; never deaf with the MAC on (`DeafIsSuspended`); calibrations are transparent (`EnabledAsOrdered`); beacons of other BSSes come in during a scan (`ScanKeepsBeacons`) and at no other time, never in a calibration (`ForeignBeaconsOnlyInScan`); recalibrations are on time (`RoughlyEvery3To4Minutes`) and come again and again (`Recalibrates`) |
| `MCAttach` | none; the model is finite | `TypeOK`; nothing is left when the device is gone (`EverythingReleased`); callout, tasks and filter find what they use (`ActorsFindWhatTheyUse`); live engines have ring memory (`EngineHasMemory`); detach ends (`DetachEnds`) |
| `MCPhy` | two temperatures, two channels, registers all clear or all set at the reset, three outcomes; all four kinds of boards (hardware control, front-end module) | `TypeOK`: the index stays in the gain table whatever the registers held; bring-up ends with power control on and the right index (`InitOnTarget`); no tone stays on (`NoToneLeft`); coefficients in use and in the power table agree (`CoefficientsAgree`), a time-out changes neither (`FailureKeepsCoefficients`); a recalibration restores every register it borrows (`RecalibrationRestores`) |
| `MCPure` | inputs 0 to 1099 | `ArithmeticIsExact`: rounded division, roots, radio words, temperatures and logarithms are what the callers rely on; `ImageIsApplied`: all lists of five entries of four kinds, and microcode sizes up to 43,960 in steps of 40 (the section has 40,288 bytes) |
| `MCMacRfKill`, `MCMacDisarm`, `MCRxStale`, `MCPhyTarget` | as above | divergences, section 5 |

Why the bounds are enough: six TX slots hold two frames (the ring keeps two
slots of slack), wrap around, and reuse header-cache entries; four slots are
the smallest ring a frame fits in, where one frame fills it.  Three RX slots
hold two buffers, and the third mbuf is the one with net80211 or the one that
overwrites a forgotten slot.  Two ticks let the timer run down in one step or be
fed in between.  Three temperatures give differences of exactly 60 and of 61
degrees in both directions, the two sides of the threshold.  `AgeMax` is
above interval plus limit plus one, the age at which an undisturbed
recalibration comes; with the driver's 120 and 90 that is 211 ticks, three and a
half minutes, and the theorem in section 4 is about any interval and limit.  Two
temperatures, one on either side of the one at which the board was measured, make an
adjustment move the index in either direction.  A register holds the words it
had at the reset until something writes it, so two words, all bits clear and all
set, show every bit that a sequence takes for granted.  The three outcomes have
each value of each field, early returns of the searches included, and the
sequences of operations between them are unbounded.  1100 inputs are all lists
of five entries (1024), and a little more than two rounds of the 9-bit readings.
The other bounds: `enc` counts to 2, since "more than once" is all that matters.

Deadlock is checked in every run.

Fairness, and why the code justifies it:

- A thread that holds the mutex goes on (`WF` on `StartLocked`, on `Refill` and
  `Harvest`, on `Step`, on the parts of `intrtask`).
- A callout that waits for the mutex gets it although others take it again and
  again (`SF` on `Tick`, `Watchdog`): the kernel's mutexes hand over to
  sleepers, and the callout is a thread of its own.
- In `Bcm4313Mac`, an unmasked interrupt is delivered (`WF` on
  `OwnInterrupt`, not on spurious calls of the filter), and `SF` on `Harvest`
  says that a harvest, of finitely many slots, ends.
- In `Bcm4313Attach`, no thread sleeps with `sc_mtx`, so `WF` is enough for
  detach, the parent task and `intrtask`.
- Nothing more is assumed of the rings.  An interrupt may be lost between the
  filter, which acknowledges it (1510-1512), and `intrtask`, which reads the status
  again and returns on 0 (1522-1530), and an engine stops when EN_MAC is cleared.
  So it is no property of this code that every posted frame completes or that every
  received one is harvested: they wait for the next interrupt.  What holds is about
  the calls that are made: `ReclaimCatchesUp` (an invariant, in `MCTxSmall`) and
  `HarvestTakesAll` (`WF` on `Refill` and `Harvest` only, in `MCRx`).

## 4. Proofs

`Bcm4313Mac_proofs` proves, for every timer length `TMax` (assumed a
positive natural number) and every set of hardware events:

- `TypeCorrect` (`TypeOK`) and `RunningArmed` (`RunningIsArmed`).  Neither is
  inductive alone: a tick subtracts one from the timer without looking, so the
  timer's type rests on "running implies a positive timer", and that in turn on
  the types.  Their conjunction `Armed` is inductive; it is split into the
  timer (`Fed`), the other types and the rest (`Alive`), and `StepKinds` sorts
  the steps into those that leave everything alone (`QuietStep`), those that
  halt (`HaltStep`), and the six that need an argument of their own.
- `DeadStaysDead` (`DeadIsFinal`), from `Armed`: a dead core is not running, only
  `InitCompletes` sets RUNNING, and it needs a core that is not dead.
- `Gp0Once` (`Gp0ServedOnce`), from the invariant `TakenIsMasked`: a GP0 that
  `intrtask` has taken up is still in `sc_intr_mask` when it is served, although
  the parent task may stop and restart the interface while a frame is with
  net80211.

`DmaRing_proofs` takes the modulus out of the rings: the offset of a slot from
`r_in` grows by one as a slot is posted (`ActivePost`), shrinks by one as one is
reclaimed (`ActiveReclaim`), and tells slots apart (`ActiveInjective`).  The
theorems about both rings speak of offsets only.

`Bcm4313Rx_proofs` proves, for every ring of two or more slots, every set of
mbufs and both kinds of ring:

- `TypeCorrect` (`TypeOK`), inductive alone; `HeldOnceAlways` (`HeldOnce`), which
  holds even when a stop or re-init slipped into a harvest.
- `DmaSafe` (`DmaIntoOwned`), `NoLeak` (`NothingLeaks`) and `DeliversWritten` (a
  harvest passes up filled buffers only), from `RingInv`.  None is inductive alone: that a
  refill overwrites nothing needs the slots beyond `r_out` to be empty, and that a
  harvest takes nothing the engine may still write needs the position it read to
  be behind the engine.  `RingInv` says: from `r_in` on there come first the
  buffers the engine has written (`Written`), then from its position to `r_out`
  those it may write, each held by its slot (`Ordered`, `Posted`), then empty slots
  (`OutsideEmpty`); a harvest runs up to a position the engine has passed, and
  while its frame is with net80211 that slot is empty (`HarvestBehind`); what the
  ring owns is in a slot (`OwnedIsHeld`).  Each conjunct was checked with TLC
  first and is preserved by a lemma of its own, one case per action.
- `RxImplementsPipe` (`ImplementsPipe`): the ring is a first-in first-out queue.  The
  pipe's `posted` is mapped to `Queue`, the mbufs of the slots up to `r_out`, from
  `r_in` on, or from the next slot while the frame of slot `r_in` is with net80211
  (`Lent`): the code moves `r_in` only afterwards.  The frame counts as passed up, and
  what the engine wrote beyond it as filled.  `QueueInv` adds to `RingInv` that no
  slot of the queue is empty (`WindowHeld`), that net80211 has a frame only while a
  harvest waits for it (`NoneAbove`), and that a stopped ring is empty
  (`StoppedEmpty`).  `QueueAppends` and `QueueShortens` say what a refill and a
  harvest do to the queue, `QueueStep` goes through the actions.  A stop or a re-init
  is the pipe's `Restart`.  Once one has slipped into a harvest (`raced`), the old
  position meets a new ring: from then on the mapping is empty, and nothing is
  promised (`MCRxStale` shows what may happen).
- `QueueShowsTheRing` says that this mapping hides nothing: the queue has exactly
  the mbufs that the driver owns, unless a re-init forgot some.

`Bcm4313Tx_proofs` proves, for every even ring of four or more slots, every queue
limit and every set of frames:

- `TypeCorrect` (`TypeOK`): the header-cache index stays inside the cache.
- `NodeRefs` (`NodeRefBalanced`), inductive with the types.
- `NoOverflow` (`RingNeverOverflows`): only a post fills a slot, and the full-ring
  test leaves it two offsets below the size.
- `OneOwnerAlways` (`OneOwner`), from `EvenEmpty`: `r_out` stays even (although
  `r_in` may be odd), so that only odd slots ever hold an mbuf, and the header slot
  that a post clears without looking held none.
- `ReclaimLeavesUnread` (`ReclaimCatchesUp`) and `FreedOnlyFetched`
  (`FreedAfterFetch`), from `EngineInOrder`: a running engine is
  between `r_in` and `r_out`, so a reclaim ends where the window of descriptors
  still to fetch begins (`WindowSplit`); the rest of the window, behind the engine,
  is what it releases, and its mbufs are in body slots (`BodyMarked`).
- `EngineFetchesOwned` (`FetchedIsOwned`), from `Fetchable`: even slots to fetch are
  headers with the cache entry of their slot, odd ones bodies that their slot
  holds.  Cache entries of different header slots differ, because the cache has
  half as many entries as the ring has slots; so a post, or a rejected frame,
  rewrites no entry that is still to be fetched.  That the driver owns the mbuf
  follows from `OneOwner`'s invariant.
- `ForgottenForever`: a slot with an mbuf outside the window of posted slots stays
  that way.  Posting extends the window by two slots that were empty, reclaim and
  teardown only shrink it and empty slots inside it, and a re-init makes it empty.
  Every later bring-up therefore transmits at most up to that slot.
- `EncapsulatedOnce` (`EncapTwiceOnlyWhenStale`), from `OnceEncapsulated`: as long as
  no slot is forgotten, a queued frame has not been encapsulated.  The requeue after
  ENOBUFS needs a busy body slot on a ring that is not full, which is a slot outside
  the window, and by `ForgottenStep` that cannot change back.

`Bcm4313Cal_proofs` proves the invariants and action properties of `Bcm4313Cal` for
every interval, counter limit and set of temperatures (assumed: `AgeMax` above
`CalInterval + CountLimit`, so that the bound on the age is out of the way).  None of
them is inductive: between two operations of a program it matters how many brackets
are open, what each found, and what is left to do.  `IInv` says where the thread that
holds the mutex is: idle, at place `k` of the bring-up (whose table `Depth` gives the
number of brackets open there, each of which found the MAC suspended, since the core
reset cleared EN_MAC), or at place `k` of a recalibration (whose one bracket found
what was ordered).  `StepOfBringing` and `StepOfRecalibrating` show that one
operation leads to the next place, over tables that `BringIsProgram` and
`RecalIsProgram` show to be the programs.  While idle, `OnTime` ties the age of the
calibration to the counter, unless a scan deferred a tick.  `ScanKnown` says
that a scan that the driver knows of is one of net80211's, and that a running interface
has MCTL_BCNS_PROMISC set in such a scan only.  While a program of
operations is open, the interface is not RUNNING (`Bringing`) or the driver knows of no
scan (`Recalibrating`), so
`ForeignBeaconsInScan` (`ForeignBeaconsOnlyInScan`) follows.

The refinement of `TxPipe` is proved in `Bcm4313Tx_proofs`, too:

- `TxImplementsPipe` (`ImplementsPipe`), for every ring, queue limit and set of
  frames.  The pipe's `flight` is mapped to `Flight`: the mbufs of the `Outstanding`
  body slots behind `r_out`, oldest first.  Counting back from `r_out`, and not
  forward from `r_in`, makes the mapping a function of the two indexes: the header
  of the oldest frame may be reclaimed already, and then `r_in` is odd.
  `PostAppends` and `ReclaimShortens` say what the two ends of the ring do to it;
  `PipeStep` goes through the actions, with `EvenEmpty` (a posted frame meets an
  empty body slot), `EngineInOrder` (a reclaim ends inside the window) and
  `Holders` (a frame that comes in is in neither queue nor ring) as invariants.
- `PipeIsTheRing` says that this mapping hides nothing: `Flight` has exactly the
  mbufs of the slots from `r_in` to `r_out`.  It needs `WindowFull`: no odd slot of
  the window is empty.

`Bcm4313Attach_proofs` proves the three invariants and `TypeOK` of
`Bcm4313Attach`.  The model has no constants and TLC's run explores all of it; the
proof adds the reason why the order of `bcm4313_detach()` is right.  `Place` says
that what is left to do is the rest of one of the two programs.  `HeldByPlace` and
`RingsByPlace` tie what is held to that: what attach has done, or at most what detach
has left.  `Guards` says what must be there while someone may run (net80211, filter,
task, callouts); `EngineByPlace`, that a live engine belongs to an interface that
`stop_locked` will still be called for, by detach's own stop or by the parent task
that `ieee80211_ifdetach()` waits for.  From these follow `AttachTypes`
(`TypeOK`), `NothingIsLeft` (`EverythingReleased`), `ActorsAreEquipped`
(`ActorsFindWhatTheyUse`) and `EngineMemoryStays` (`EngineHasMemory`).

`Bcm4313Phy_proofs` proves, for every set of temperatures and channels, every content
of the registers after a reset and every outcome of the calibrations (assumed:
`PhyAssumption`), `PhyTypes` (`TypeOK`), `TonesEnd` (`NoToneLeft`), `InitIsOnTarget`
(`InitOnTarget`), `CoefficientsAreTheTables` (`CoefficientsAgree`),
`TimeoutsKeepCoefficients` (`FailureKeepsCoefficients`) and
`RecalibrationIsTransparent` (`RecalibrationRestores`; assumed, too:
`ResetAssumption`):

- A sequence of register accesses is run by `Apply`, a recursive function.  That its
  definition has a solution, and that a property of the registers that every
  instruction keeps is kept by the sequence, is proved by way of the first
  instruction for which it would fail (`LeastElement`).  What the proofs use of
  it: registers stay words (`ApplyType`), a register that no instruction accesses
  keeps its value (the sequences of `Outside(A)`), and one that the last instruction
  accesses has what that one leaves (`ApplyLast`).
- A routine is then a relation between the PHY before and after it, and a lemma each
  shows that the relations compose: `Still` (neither tone nor power control is
  touched), `Stopped` (what `stop_tx_tone` does), `Fixed` (board, channel and table
  stay), `Loose` (starts no tone, keeps the coefficients), `Tame` (keeps the mode,
  too).  `Measured`, `Tabled` and `Calibrated` say what `tx_iqlo_cal`,
  `txpwrtbl_iqlo_cal` and an operation with calibrations leave; `NewChannel`, what
  `set_chanspec` does; `On`, that power control is on.
- `IInv` is the typing with `CoefficientsAgree`, `NoToneLeft` and `InitOnTarget`.
  The coefficients need the power control's mode on the way: a calibration reads
  them back from the table on boards with hardware control, and on the others only
  because `tx_iqlo_cal`, which clears the mode bits, ends in software control;
  `set_tx_pwr_ctrl(OFF)`, which keeps the mode bits (section 5), changes nothing
  of that.
- `TargetInTable` bounds `TargetIndex`: whatever the temperature, the index stays in
  the gain table.
- `RecalibrationRestores` needs an invariant of its own, `AtEase`, about boards without
  hardware control (on the others the watchdog does not calibrate).  What the
  routines save, borrow and give back is not enough: many of their writes are not
  undone, and change nothing only because the register holds already what the write
  leaves of it.  `Fit` is the set of the instructions that change nothing for that
  reason; `Calm(A, p)` says, register by register, what those in `A` hold, and
  `Rest(p)` that all of them are calm (`AtRest`) and that the five that a calibration
  changes and sets again (0x4fb, 0x4a4, 0x4b0, 0x43b, 0x410) have the values that it
  sets.  `TblLeaves` and `RxLeaves` say what the two calibrations leave as it was,
  `CalEndRests` that the end of a calibration, which is also the end of
  bring-up, brings rest from whatever the reset and bring-up left.  So the PHY
  rests from its bring-up to the next reset (`NextAtEase`), and a calibration that
  begins at rest gives everything back (`RecalibratedRests`).
- `ResetAssumption` says that a PHY that comes out of reset is not playing samples,
  and is used for this theorem only (`ResetStops`).  Without it the theorem is
  false: the first `stop_tx_tone` of bring-up would find samples that the reset left
  on, where a calibration's own tone is to be stopped, and switch the transmitter's
  power override for them; 0x43c and 0x44d would hold what that writes until the
  next calibration changes them.  With `Boots` = {{0}}, and without the assumption,
  TLC finds that counterexample.

`Pure_proofs` proves what the functions without state compute, for every input.  A
loop over bits is a recursive function; `Solvable` and `Reaches` give it a
solution and carry an invariant along it.

- `QdivIsExact`: `qdiv_roundup` rounds once, for every dividend and divisor that an
  uint32_t holds and up to 31 bits after the point, as long as the result fits the
  uint32_t quotient, which wraps at lcn:442 otherwise (2 by 1 with 31 bits gives 0).
  The invariant, `Divides`, is that of long division; `HalfQuotient` and `DoublesFit`
  show that no shift on the way to a quotient that fits wraps.
- `IsqrtIsExact`: `isqrt` is the root rounded down, for every number below 2^30.  The
  invariant, `Roots`, says that the rest is what is left of the number after the
  square of the digits found.  The powers of 2 and 4 are told apart case by case,
  because the provers do not know the exponents' law.
- `LoftReadsBack`, for every coefficient of four bits and a sign; `TempSenseBetween`, for
  all pairs of readings.
- `Log10AddsUp`: `qm_log10` of twice a number is log10(2) more, up to 1.3 / 1024, for
  every number whose double is an int32_t.  `Norm32Is` shows that both have the same
  mantissa; the table and its interpolation (`FractionIs`) then give the same
  fraction, and the binary logarithms differ by 2^15 exactly.  What is left is the
  product with log10(2), whose shift depends on the size of the logarithm:
  `DecimalIs` bounds its error, one of 20 sizes after the other.
- `ArithmeticAlwaysExact` (`ArithmeticIsExact`) puts these together, for every `Inputs`
  up to 2^15 - 1: the roots go up to `n^2 + 2n`, and `nbits` measures up to 2^30.
- `ListAppliedUpToEnd`: `dump_inits` applies every list, of any length, up to its first
  end mark; `UploadStaysInside`: for every size that the image might give;
  `ImageAlwaysApplied` (`ImageIsApplied`), for every `Inputs` (assumed positive).

Only model-checked:

- Liveness (`HarvestTakesAll`, `FaultsStopTheMac`, `Recalibrates`, `DetachEnds`), which is out of the prover's reach.
- The divergences of section 5.

## 5. Divergences

Each of these runs ends in a counterexample to something that a comment or a
document of the repository says.

- `MCMacRfKill`: the filter acknowledges MACINTSTATUS (1510-1512); `intrtask`
  reads it again (1522) and, if nothing new was raised, returns.  An RF-kill
  edge is lost and the MAC goes on with a blocked radio (1576-1590).
- `MCMacDisarm`: the comment in 1777-1788 wants the teardown even when not
  RUNNING; `init_locked` calls `stop_locked` only if RUNNING (1832), and
  `parent` does not stop an interface that is not RUNNING.  A re-up after a
  fatal stop resets the core with live engines.
- `MCRxStale`: `rx_harvest` uses the engine position it read before it
  unlocked; after a stop and re-init in that window, buffers that were never
  filled go to net80211.
- `MCPhyTarget`: `tx_power_adjustment` (lcn:3838) sets the index with `phy_maskset`,
  which ORs it into the old one (225-231).  As the die warms the index collects
  bits instead of staying "on target" (RESEARCH.md:218-219).

### Divergences without a run

Seen while modelling, and not kept as runs of their own:

- 944: `start_locked` ("Dequeue and transmit queued frames") is called from
  `transmit` only.  A frame left in `sc_snd` by a full ring is not taken up when
  `tx_reclaim` empties the ring; it waits for the next call of `transmit`.
- 891-894: the comment says that `m_defrag()` freed the original chain; mbuf(9) says
  that it leaves the chain unchanged when it fails.  EIO is returned without
  `m_freem()`, and the callers (987: "already consumed/freed m", 1039: "other errors
  free it") free nothing either: the mbuf is leaked (`Fates` in `Bcm4313Tx`).
- 1789: `stop_locked` clears FLAG_SCAN, but net80211's scan goes on until it calls
  `scan_end` (1319).  If the interface comes up again before that, the driver does
  not know of the scan, and a recalibration may begin in it.
- 871-874: after a fatal stop and a re-init, ENOBUFS comes from a ring that is
  empty but holds an old mbuf in the body slot (the comment in 847 says "when
  the ring is full"), and the queue is stuck behind it.
- 1736: the watchdog timer counts down although no frame is posted; an
  interface that neither hears nor sends for five seconds is stopped for a "TX
  timeout" (INSTALL.md:286).
- 1423: `newstate` to S_RUN enables the MAC without looking at `sc_radio_off`.
- 1570-1571: `intrtask`'s GP0 branch writes `sc_intr_mask` to the hardware even
  if `stop_locked` masked all interrupts while `rx_harvest` was unlocked.
- 1640-1653: an all-ones read in the fifo poll drops RUNNING but does not set
  FLAG_DEAD (RESEARCH.md:195-198); that happens when the next reset fails.
- 668-670: an all-ones ring status gives an end index outside of the ring; the
  harvest loop then has no end and holds the lock (`HarvestHangs`).
- 579-582: a refill that finds no mbuf may leave the ring empty, and nothing
  refills it (RESEARCH.md:235-238).
- 723: a harvest that was unlocked while `ring_stop` ran refills the stopped
  ring.
- 1187-1197: `mac_enable` writes a fixed MACCONTROL value and so drops the scan
  and promiscuous bits; on a running interface only a change to S_RUN meets a
  scan (`ScanKeepsBeacons`).  No path sets MCTL_PSM_RUN.
- lcn:3775: the sample counter reaches 91 ("0..90", 2080).
- 2117, 1694: `callout_init_mtx` calls the handler with `sc_mtx` held, and the
  handler locks it again; the mutex is not recursive (`MTX_DEF`).
- 225-231: `phy_maskset` computes `(old & mask) | set`, where its callers use
  the brcmsmac convention `(old & ~mask) | (set & mask)`, as does the comment in
  lcn:19-26.  `MCPhyTarget` shows one effect.  Others: `set_tx_pwr_ctrl(OFF)`
  leaves the mode bits as they are and wipes the others; fields written one
  after the other in a register wipe each other (NPT and start index in 0x4a4 and
  0x4a5, the divider in radio 0x046); `maskset(a, 0xffff, read & v)`, meant to clear
  bits, changes nothing (`And` in `LcnRegs`); `deaf_mode(false)` leaves bits 5 and 6
  of 0x410 to what it had ORed; the idle TSSI in 0x4a6 is ORed.
- lcn:1968-1970: the integer part of the synthesizer's divider is written to
  bits 4-7 of radio 0x046 and wiped by the write of the fraction; 0x045 collects
  bits.  After a change of channel the registers do not hold the channel's
  divider (`Tuned` in `Bcm4313Phy`), while lcn:9-11 says that the port
  programs the radio as Linux does.
- lcn:127, 140: CORDIC compares a signed angle with an unsigned one, and
  `start_tx_tone`'s rotation (lcn:2812) is not in its fixed point: the samples are not
  a tone.
- lcn:4351: on the first bring-up `sc_curchan` is 0: the radio is not tuned
  (the channel is not in its table) and the word before `lcnphy_sfo_cfg[]` is read.
- lcn:1195-1220: `rx_iq_cal` writes to 0x44c what it saved from 0x44d; bit 11 of
  0x44c, set by the loopback, stays (`LeakRegs`).
- lcn:3374: `vbat_temp_sense_setup` saves and restores PHY register 0x4a4 through
  the radio's accessor.
- lcn:2202, 4373: on boards with hardware control a change of channel ends
  with `tssi_setup`, which wipes the mode bits of 0x4a4; power control
  stays off until the next bring-up.
- lcn:4044-4108: the radio's table is written with 8-bit addresses, so that
  0x105 becomes 0x005.
- lcn:4441, 3762: `txpower_recalc_target` and the full calibration have no
  caller; `lcnphy_spurmod` is never set.
- `if_bcm4313var.h`:728 says that the microcode's size section counts words; it
  counts bytes, as 1130 says.  `sc_ucode_loaded` is never cleared, although 1838
  resets the core.
- 1092: `dump_inits` compares a count of entries with a count of bytes; the
  lists of the image all have an end mark, which is what ends the loop
  (`AppliesUpToEnd`).
- 2435, 2447: `ieee80211_ifdetach()` runs before the interrupt is torn down and
  the taskqueue drained; an `intrtask` inside `ieee80211_input()` then works on a
  net80211 that is gone.  `ActorsFindWhatTheyUse` says nothing of this pair.
- 2433-2435: a VAP may come up again between detach's `stop_locked` and
  `ieee80211_ifdetach()`; `bcm4313_parent` stops it, unless a fatal stop has
  dropped RUNNING first.  Then the rings are freed under live engines
  (`orphaned` in `Bcm4313Attach`).
- 2466: `bhnd_release_pmu()` is called even when attach failed before
  `bhnd_alloc_pmu()` (2151).  `EverythingReleased` says that what was acquired is
  released; that nothing else is released, no property says.  2460: `mbufq_drain()` frees mbufs without their node
  references, should any be left.
- RESEARCH.md:237-238 ("no window where RX slots are consumed without
  replacement"): 579-582 above is one.

## 6. Not modelled, and the plan

Left out for good: the PCI front end, sysctls, generated tables and microcode
(beyond the gain and channel tables and the image's header), the vendored
`brcmsmac/`, which is not compiled, host scripts (no state of their own, or
data), and what is analogue about the PHY: what a register's bits do to the
signal.  Of the PHY's routines, the soft calibration and sample capture
(lcn:2876-3165) are never called on LCN rev 1.

Next, in this order:

1. Bring-up composed with the rings, so that one stop or re-init acts on TX, RX
   and status ring together; several VAPs in `newstate`; DMA after `ring_stop` gave
   up on an engine.
2. CORDIC, the TSSI-to-dBm tables and the rounding of `load_rfpower` in
   `Bcm4313Qmath`.

----------------------------- MODULE Bcm4313Rx -----------------------------
(***************************************************************************)
(* A receive dma64 ring: RX data (rx_harvest) or TX status                 *)
(* (txstatus_harvest), which share rx_refill, ring_rx_init and ring_stop;  *)
(* "delivers" says which of the two it is.                                 *)
(*                                                                         *)
(* intrtask harvests; net80211's parent task brings the ring up and down.  *)
(* Both hold sc_mtx, except that rx_harvest drops it while                 *)
(* ieee80211_input() has a frame; what it read before ("hwpos") is then    *)
(* used after.  Loops run one action per iteration, so that the engine     *)
(* interleaves with them.                                                  *)
(***************************************************************************)
EXTENDS Integers, DmaRing

CONSTANTS
  Mbufs,    (* The mbuf clusters m_getcl() can return.                      *)
  NRX,      (* Slots of the ring (BCM4313_NRX, BCM4313_NTXSTATUS).          *)
  None      (* No mbuf.                                                     *)

ASSUME MbufsAssumption == None \notin Mbufs
ASSUME NRXAssumption == NRX \in Nat /\ NRX >= 2

VARIABLES
  delivers, (* Never changes: frames go to net80211 (sc_rx, not sc_txstatus). *)
  running, (* BCM4313_FLAG_RUNNING.                                         *)
  parent,  (* The parent task: "idle", or "refill" inside ring_rx_init.     *)
  ipc,     (* intrtask: "idle", "loop", "input" (unlocked) or "refill".     *)
  hwpos,   (* Its local "hw": the engine's position when it was read.       *)
  rin,     (* r_in.                                                         *)
  rout,    (* r_out.                                                        *)
  slot,    (* r_slots[i].s_m.                                               *)
  desc,    (* r_desc[i]: the buffer the descriptor points at.               *)
  eng,     (* Whether the engine is enabled.                                *)
  cd,      (* The engine's current descriptor (RS0_CD).                     *)
  ptr,     (* The engine's PTR register.                                    *)
  owner,   (* Who owns each mbuf: "free", "ring" or "stack".                *)
  filled,  (* The mbufs the engine has written since they were posted.      *)
  raced,   (* The ring was stopped or re-initialised under a harvest.       *)
  forgot   (* The ring was re-initialised with mbufs in its slots.          *)

ring == <<rin, rout, slot, desc>>
hw == <<eng, cd, ptr>>
past == <<raced, forgot>>
pcs == <<parent, ipc, hwpos>>
vars == <<delivers, running, pcs, ring, hw, owner, filled, past>>

RxSlots == Slots(NRX)
InFlight == Window(rin, rout, NRX)
ToFill == Window(cd, ptr, NRX)

Held == {slot[i] : i \in RxSlots} \ {None}

TypeOK ==
  /\ delivers \in BOOLEAN /\ running \in BOOLEAN
  /\ parent \in {"idle", "refill"}
  /\ ipc \in {"idle", "loop", "input", "refill"}
  /\ hwpos \in RxSlots /\ rin \in RxSlots /\ rout \in RxSlots
  /\ slot \in [RxSlots -> Mbufs \cup {None}]
  /\ desc \in [RxSlots -> Mbufs \cup {None}]
  /\ eng \in BOOLEAN /\ cd \in RxSlots /\ ptr \in RxSlots
  /\ owner \in [Mbufs -> {"free", "ring", "stack"}]
  /\ filled \subseteq Mbufs
  /\ raced \in BOOLEAN /\ forgot \in BOOLEAN

Init ==
  /\ delivers \in BOOLEAN
  /\ running = FALSE
  /\ parent = "idle" /\ ipc = "idle" /\ hwpos = 0
  /\ rin = 0 /\ rout = 0
  /\ slot = [i \in RxSlots |-> None]
  /\ desc = [i \in RxSlots |-> None]
  /\ eng = FALSE /\ cd = 0 /\ ptr = 0
  /\ owner = [m \in Mbufs |-> "free"]
  /\ filled = {}
  /\ raced = FALSE /\ forgot = FALSE

\* sc_mtx, for a thread other than the one in the loops.
LockFree == parent = "idle" /\ ipc \in {"idle", "input"}

-----------------------------------------------------------------------------
\* The engine writes a frame, or a status, into the next posted buffer.
HwReceive ==
  /\ eng /\ cd # ptr
  /\ filled' = filled \cup ({desc[cd]} \ {None})
  /\ cd' = Adv(cd, NRX)
  /\ UNCHANGED <<delivers, running, pcs, ring, eng, ptr, owner, past>>

-----------------------------------------------------------------------------
(* rx_refill(): posts buffers up to NRX - 1, stopping when m_getcl() or the *)
(* DMA map fails, then writes PTR.                                         *)

Refilling == parent = "refill" \/ ipc = "refill"
Full == Active(rin, rout, NRX) >= NRX - 1

RefillOne(m) ==
  /\ Refilling /\ ~Full
  /\ owner[m] = "free"
  /\ owner' = [owner EXCEPT ![m] = "ring"]
  /\ filled' = filled \ {m}
  /\ slot' = [slot EXCEPT ![rout] = m]
  /\ desc' = [desc EXCEPT ![rout] = m]
  /\ rout' = Adv(rout, NRX)
  /\ UNCHANGED <<delivers, running, pcs, rin, hw, past>>

\* All posted, or out of mbufs.  In ring_rx_init's case init_locked goes on
\* to set RUNNING.
RefillEnd ==
  /\ Refilling
  /\ ptr' = rout
  /\ IF parent = "refill"
       THEN parent' = "idle" /\ running' = TRUE /\ UNCHANGED ipc
       ELSE ipc' = "idle" /\ UNCHANGED <<parent, running>>
  /\ UNCHANGED <<delivers, hwpos, ring, eng, cd, owner, filled, past>>

-----------------------------------------------------------------------------
(* rx_harvest() and txstatus_harvest(), called by intrtask.                *)

\* intrtask comes to the status ring after it has harvested the RX ring, and
\* may have unlocked there.
RxRingFirst ==
  /\ LockFree /\ ipc = "idle" /\ eng /\ ~delivers
  /\ ipc' = "input"
  /\ UNCHANGED <<delivers, running, parent, hwpos, ring, hw, owner, filled, past>>

HarvestBegin ==
  /\ parent = "idle"
  /\ (ipc = "idle" /\ eng) \/ (ipc = "input" /\ ~delivers)
  /\ hwpos' = cd
  /\ ipc' = "loop"
  /\ UNCHANGED <<delivers, running, parent, ring, hw, owner, filled, past>>

\* Deviations: one slot too many, one too few.
LoopingLong == ipc = "loop" /\ rin # Adv(hwpos, NRX)
LoopingShort == ipc = "loop" /\ hwpos \notin {rin, Adv(rin, NRX)}

Looping == ipc = "loop" /\ rin # hwpos

\* Deviation: the slot keeps its pointer.
KeepSlot == UNCHANGED slot

EmptySlot == slot' = [slot EXCEPT ![rin] = None]

\* Deviation: m_freem() is forgotten.
LoseMbuf == UNCHANGED owner

FreeMbuf == owner' = [m \in Mbufs |-> IF m = slot[rin] THEN "free" ELSE owner[m]]

\* The slot's mbuf leaves the ring: a frame that is short, giant or has a bad
\* FCS is dropped, a status is consumed.  A slot may also be empty.
HarvestDrop ==
  /\ Looping
  /\ EmptySlot
  /\ FreeMbuf
  /\ rin' = Adv(rin, NRX)
  /\ UNCHANGED <<delivers, running, pcs, rout, desc, hw, filled, past>>

\* A good frame: unlock and call ieee80211_input().
HarvestDeliver ==
  /\ Looping /\ delivers /\ slot[rin] # None
  /\ EmptySlot
  /\ owner' = [owner EXCEPT ![slot[rin]] = "stack"]
  /\ ipc' = "input"
  /\ UNCHANGED <<delivers, running, parent, hwpos, rin, rout, desc, hw, filled, past>>

\* net80211 is done with the mbuf; rx_harvest locks again and goes on from
\* whatever r_in is now.
InputReturn ==
  /\ ipc = "input" /\ parent = "idle" /\ delivers
  /\ owner' = [m \in Mbufs |-> IF owner[m] = "stack" THEN "free" ELSE owner[m]]
  /\ rin' = Adv(rin, NRX)
  /\ ipc' = "loop"
  /\ UNCHANGED <<delivers, running, parent, hwpos, rout, slot, desc, hw, filled, past>>

HarvestEnd ==
  /\ ipc = "loop" /\ ~Looping
  /\ ipc' = "refill"
  /\ UNCHANGED <<delivers, running, parent, hwpos, ring, hw, owner, filled, past>>

-----------------------------------------------------------------------------
(* Bring-up and teardown.                                                  *)

\* init_locked: core reset, then ring_rx_init().
Up ==
  /\ LockFree /\ ~running
  /\ rin' = 0 /\ rout' = 0
  /\ desc' = [i \in RxSlots |-> None]
  /\ eng' = TRUE /\ cd' = 0 /\ ptr' = 0
  /\ parent' = "refill"
  /\ raced' = (raced \/ ipc = "input")
  /\ forgot' = (forgot \/ Held # {})
  /\ UNCHANGED <<delivers, running, ipc, hwpos, slot, owner, filled>>

\* A fatal condition drops RUNNING and leaves the ring as it is.
FatalStop ==
  /\ LockFree /\ running
  /\ running' = FALSE
  /\ UNCHANGED <<delivers, pcs, ring, hw, owner, filled, past>>

\* stop_locked: ring_stop() disables the engine and frees what is posted.
Down ==
  LET gone == {slot[i] : i \in InFlight}
  IN /\ LockFree /\ running
     /\ running' = FALSE
     /\ eng' = FALSE
     /\ slot' = [i \in RxSlots |-> IF i \in InFlight THEN None ELSE slot[i]]
     /\ owner' = [m \in Mbufs |-> IF m \in gone THEN "free" ELSE owner[m]]
     /\ rin' = rout
     /\ raced' = (raced \/ ipc = "input")
     /\ UNCHANGED <<delivers, forgot, pcs, rout, desc, cd, ptr, filled>>

-----------------------------------------------------------------------------
RefillSome == \E m \in Mbufs : RefillOne(m)
Refill == RefillSome \/ RefillEnd
Harvest == HarvestDrop \/ HarvestDeliver \/ InputReturn \/ HarvestEnd

Next ==
  \/ HwReceive
  \/ Refill
  \/ RxRingFirst \/ HarvestBegin \/ Harvest
  \/ Up \/ FatalStop \/ Down

\* intrtask, once it harvests, gets to the end of it, and so does init_locked.
\* That a harvest begins is owed to nobody: the interrupt of a received frame
\* can get lost between the filter and the task.
Fairness == WF_vars(Refill) /\ WF_vars(Harvest)

Spec == Init /\ [][Next]_vars
FairSpec == Spec /\ Fairness

-----------------------------------------------------------------------------
(* Properties.                                                             *)

\* The engine only ever writes into a buffer that its slot still holds, as
\* long as no teardown or bring-up slipped into the unlocked part of a
\* harvest: refilling, harvesting, stopping and a re-init over a non-empty
\* ring never leave a descriptor to a freed mbuf within the engine's reach.
DmaIntoOwned ==
  eng /\ ~raced =>
    \A i \in ToFill : desc[i] # None /\ slot[i] = desc[i] /\ owner[desc[i]] = "ring"

\* An mbuf is held by at most one slot, and only while the ring owns it: it is
\* never in a slot and free, or in a slot and with net80211, even when a
\* harvest went wrong.
HeldOnce ==
  /\ \A m \in Held : owner[m] = "ring"
  /\ \A i, j \in RxSlots : i # j /\ slot[i] # None => slot[i] # slot[j]

\* No mbuf is lost: what the ring owns is in one of its slots, so refilling
\* never overwrites a slot that is in use, however full the ring is.  (A ring
\* that was re-initialised without ring_stop, or under a harvest, does leak.)
NothingLeaks ==
  ~raced /\ ~forgot => {m \in Mbufs : owner[m] = "ring"} \subseteq Held

\* The mbufs that a harvest has ahead of it: received when it read the position.
Ahead == {slot[i] : i \in Window(rin, hwpos, NRX)} \ {None}

\* A harvest takes all that the engine had received when it read the position,
\* over every unlock, and it comes to an end although the engine goes on and
\* net80211 takes the lock in between; a stop or re-init under it excepted.
HarvestTakesAll ==
  /\ \A m \in Mbufs :
       (ipc = "loop" /\ ~raced /\ m \in Ahead) ~> (m \notin Held \/ raced)
  /\ (ipc = "loop" /\ ~raced) ~> (ipc = "idle" \/ raced)

\* Only buffers that the engine has filled are handed to net80211, unless the
\* ring was stopped or re-initialised under the harvest.
DeliversReceived == [][HarvestDeliver /\ ~raced => slot[rin] \in filled]_vars

\* "Harvest received frames from an RX ring and feed them to net80211": the same
\* without exception.
DeliversOnlyReceived == [][HarvestDeliver => slot[rin] \in filled]_vars

-----------------------------------------------------------------------------
(* The abstract specification: RxPipe, until a stop or a re-init slips     *)
(* into a harvest.                                                         *)

\* r_in stays on the slot whose frame is with net80211.
Lent == IF ipc = "input" /\ delivers THEN 1 ELSE 0

Waiting == IF raced THEN 0 ELSE Active(rin, rout, NRX) - Lent

\* The buffers from the next one to harvest to the last one posted.
Queue == [k \in 1 .. Waiting |-> slot[Behind(rout, Waiting + 1 - k, NRX)]]
Received == IF raced \/ ~eng THEN 0 ELSE Active(rin, cd, NRX) - Lent
Passed == IF raced THEN {} ELSE {m \in Mbufs : owner[m] = "stack"}

Pipe == INSTANCE RxPipe
  WITH posted <- Queue, written <- Received, up <- Passed, Buffers <- Mbufs, Cap <- NRX - 1

\* The receive path implements its abstract specification: buffers are filled,
\* harvested and passed up in the order in which they were posted, none before
\* it was filled and none left out or twice.
ImplementsPipe == Pipe!PipeSpec

=============================================================================

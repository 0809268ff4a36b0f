----------------------------- MODULE Bcm4313Tx -----------------------------
(***************************************************************************)
(* The transmit path of the driver: the software queue sc_snd, the TX      *)
(* dma64 ring with its header cache, and the life of the mbufs and node    *)
(* references that net80211 hands over.                                    *)
(*                                                                         *)
(* Everything runs under sc_mtx.  All paths but one hold it for a single   *)
(* short section and are one action each; start_locked loops over the      *)
(* queue with the lock held, so it is one action per iteration and "lock"  *)
(* says that it is in progress.  The DMA engine needs no lock: its step    *)
(* interleaves with every iteration.                                       *)
(***************************************************************************)
EXTENDS Integers, Sequences, DmaRing

CONSTANTS
  Frames,   (* mbufs that net80211 hands to the driver.                     *)
  Short,    (* Those shorter than IEEE80211_MIN_LEN.                        *)
  Secure,   (* Those with FC1_PROTECTED: encapsulated by start_locked.      *)
  Nodeless, (* Those without a node in m_pkthdr.rcvif.                      *)
  NTX,      (* Slots of the TX ring (BCM4313_NTX, 64 in the driver).        *)
  QMax,     (* Limit of sc_snd (ifqmaxlen).                                 *)
  None      (* No mbuf.                                                     *)

ASSUME FramesAssumption == Short \subseteq Frames /\ Secure \subseteq Frames
                             /\ Nodeless \subseteq Frames /\ None \notin Frames
ASSUME RingAssumption == NTX \in Nat /\ NTX >= 4 /\ NTX % 2 = 0
ASSUME QMaxAssumption == QMax \in Nat

VARIABLES
  running,  (* BCM4313_FLAG_RUNNING.                                        *)
  lock,     (* "free", or "start" while start_locked loops.                 *)
  snd,      (* sc_snd.                                                      *)
  rin,      (* sc_tx.r_in.                                                  *)
  rout,     (* sc_tx.r_out.                                                 *)
  slot,     (* sc_tx.r_slots[i].s_m; s_ni is set and cleared with it.       *)
  body,     (* Whether sc_tx.r_slots[i].s_type is BCM4313_SLOT_BODY.        *)
  desc,     (* sc_tx.r_desc[i]: what the descriptor points at.              *)
  hdr,      (* sc_tx.r_txhdr: whose D11 header each cache entry holds.      *)
  eng,      (* The DMA engine: "off", "on", or "stuck" on the backplane.    *)
  cd,       (* The engine's current descriptor (XS0_CD).                    *)
  ptr,      (* The engine's PTR register.                                   *)
  owner,    (* Who owns each mbuf: "stack", "driver", "freed", or "leaked": *)
            (* still the driver's, which has lost its last pointer to it.   *)
  ref,      (* Whether the driver holds the frame's node reference.         *)
  enc       (* How often the driver encapsulated the frame (0, 1, 2).       *)

queue == <<lock, snd>>
ring == <<rin, rout, slot, body, desc, hdr>>
hw == <<eng, cd, ptr>>
ledger == <<owner, ref, enc>>
vars == <<running, queue, ring, hw, ledger>>

NFrames == NTX \div 2
TxSlots == Slots(NTX)
Zero == [kind |-> "zero", of |-> None]
Header(fi) == [kind |-> "header", of |-> fi]
Body(f) == [kind |-> "body", of |-> f]

\* Deviation: one entry too few.
CacheEntryShort(i) == (i \div 2) % (NFrames - 1)

\* Entry of the header cache for a frame whose first slot is i.
CacheEntry(i) == (i \div 2) % NFrames

InFlight == Window(rin, rout, NTX)   \* slots the driver considers posted
ToFetch == Window(cd, ptr, NTX)      \* descriptors the engine has yet to read

TypeOK ==
  /\ running \in BOOLEAN
  /\ lock \in {"free", "start"}
  /\ snd \in Seq(Frames)
  /\ rin \in TxSlots /\ rout \in TxSlots
  /\ slot \in [TxSlots -> Frames \cup {None}]
  /\ body \in [TxSlots -> BOOLEAN]
  /\ desc \in [TxSlots -> [kind : {"zero", "header", "body"},
                           of : Frames \cup {None} \cup 0 .. NFrames - 1]]
  /\ hdr \in [0 .. NFrames - 1 -> Frames \cup {None}]
  /\ eng \in {"off", "on", "stuck"}
  /\ cd \in TxSlots /\ ptr \in TxSlots
  /\ owner \in [Frames -> {"stack", "driver", "freed", "leaked"}]
  /\ ref \in [Frames -> BOOLEAN]
  /\ enc \in [Frames -> 0 .. 2]

Init ==
  /\ running = FALSE
  /\ lock = "free"
  /\ snd = <<>>
  /\ rin = 0 /\ rout = 0
  /\ slot = [i \in TxSlots |-> None]
  /\ body = [i \in TxSlots |-> FALSE]
  /\ desc = [i \in TxSlots |-> Zero]
  /\ hdr = [k \in 0 .. NFrames - 1 |-> None]
  /\ eng = "off"
  /\ cd = 0 /\ ptr = 0
  /\ owner = [f \in Frames |-> "stack"]
  /\ ref = [f \in Frames |-> FALSE]
  /\ enc = [f \in Frames |-> 0]

-----------------------------------------------------------------------------
(* Posting one frame: tx_start_locked().                                   *)

\* Deviations: one slot of slack too few; no check for stale slots.
RingFullLate == Active(rin, rout, NTX) >= NTX - 1
BodySlotUnchecked == FALSE

\* The ring has no room for a header and a body.
RingFull == Active(rin, rout, NTX) >= NTX - 2

\* The body slot still holds an mbuf of an earlier life of the ring.
BodySlotBusy == slot[Adv(rout, NTX)] # None

\* Both ENOBUFS exits: the caller keeps the frame.
NoBufs(f) == f \notin Short /\ (RingFull \/ BodySlotBusy)

\* Too short (EINVAL), or not mappable as one segment (EIO).
Rejected(f) == f \in Short \/ ~(RingFull \/ BodySlotBusy)

\* What becomes of a rejected mbuf.  Every exit frees it but one: m_defrag()
\* that fails leaves the chain as it was, and EIO is returned without freeing
\* it; no caller frees it either.
Fates(f) == {"freed"} \cup (IF f \in Short THEN {} ELSE {"leaked"})

\* The header entry is written before the body is mapped, so a mapping that
\* fails has already rewritten it.
RewritesHeader(f) == f \notin Short

WriteHeader(f) == hdr' = [hdr EXCEPT ![CacheEntry(rout)] = f]

\* The last statement is the write to PTR that makes the engine look.
Post(f) ==
  LET a == rout
      b == Adv(rout, NTX)
  IN /\ f \notin Short /\ ~RingFull /\ ~BodySlotBusy
     /\ WriteHeader(f)
     /\ desc' = [desc EXCEPT ![a] = Header(CacheEntry(a)), ![b] = Body(f)]
     /\ slot' = [slot EXCEPT ![a] = None, ![b] = f]
     /\ body' = [body EXCEPT ![a] = FALSE, ![b] = TRUE]
     /\ rout' = Adv(b, NTX)
     /\ ptr' = Adv(b, NTX)
     /\ UNCHANGED <<rin, eng, cd>>

Reject(f) ==
  /\ Rejected(f)
  /\ IF RewritesHeader(f) THEN WriteHeader(f) ELSE UNCHANGED hdr
  /\ UNCHANGED <<rin, rout, slot, body, desc, hw>>

-----------------------------------------------------------------------------
(* The entry points of net80211.                                           *)

\* A frame the stack may hand over: not with the driver, nor lost there.
Fresh(f) == owner[f] \notin {"driver", "leaked"}

\* ic_transmit refused: not RUNNING (ENXIO) or the queue is full; the stack
\* keeps the frame and its node.
TransmitRefused(f) ==
  /\ lock = "free" /\ Fresh(f)
  /\ ~running \/ Len(snd) >= QMax
  /\ owner' = [owner EXCEPT ![f] = "stack"]
  /\ UNCHANGED <<running, queue, ring, hw, ref, enc>>

\* ic_transmit: enqueue, then run start_locked under the same lock.
Transmit(f) ==
  /\ lock = "free" /\ Fresh(f)
  /\ running /\ Len(snd) < QMax
  /\ snd' = Append(snd, f)
  /\ lock' = "start"
  /\ owner' = [owner EXCEPT ![f] = "driver"]
  /\ ref' = [ref EXCEPT ![f] = f \notin Nodeless]
  /\ enc' = [enc EXCEPT ![f] = 0]
  /\ UNCHANGED <<running, ring, hw>>

\* ic_raw_xmit: posts at once.  It frees the mbuf after ENOBUFS, takes it for
\* freed after any other error, and leaves the node to net80211.
RawXmit(f) ==
  /\ lock = "free" /\ Fresh(f) /\ f \notin Nodeless
  /\ enc' = [enc EXCEPT ![f] = 0]
  /\ \/ /\ running /\ Post(f)
        /\ owner' = [owner EXCEPT ![f] = "driver"]
        /\ ref' = [ref EXCEPT ![f] = TRUE]
     \/ /\ running /\ Reject(f)
        /\ \E fate \in Fates(f) : owner' = [owner EXCEPT ![f] = fate]
        /\ UNCHANGED ref
     \/ /\ f \in Short \/ ~running \/ NoBufs(f)
        /\ owner' = [owner EXCEPT ![f] = "freed"]
        /\ UNCHANGED <<ring, hw, ref>>
  /\ UNCHANGED <<running, queue>>

-----------------------------------------------------------------------------
(* start_locked(): one action per way an iteration of its loop can go.     *)

\* Deviation: the node reference is not released.
DropKeepsNode(f, fate) ==
  /\ snd' = Tail(snd)
  /\ owner' = [owner EXCEPT ![f] = fate]
  /\ UNCHANGED ref

\* The frame is out of the queue with its node released.
Drop(f, fate) ==
  /\ snd' = Tail(snd)
  /\ owner' = [owner EXCEPT ![f] = fate]
  /\ ref' = [ref EXCEPT ![f] = FALSE]

\* The queue is empty, or the ring is full and the frame goes back in front.
StartDone ==
  /\ lock = "start"
  /\ snd = <<>> \/ RingFull
  /\ lock' = "free"
  /\ UNCHANGED <<running, snd, ring, hw, ledger>>

\* Deviation: the room in the ring is not looked at first.
IteratingBlind == lock = "start" /\ snd # <<>>

Iterating == lock = "start" /\ snd # <<>> /\ ~RingFull

\* No node, or no key for a protected frame: the frame is dropped.
StartDrop ==
  /\ Iterating
  /\ Head(snd) \in Nodeless \cup Secure
  /\ Drop(Head(snd), "freed")
  /\ UNCHANGED <<running, lock, ring, hw, enc>>

\* ieee80211_crypto_encap() rewrites a protected frame in place.
Encap(f) ==
  enc' = [enc EXCEPT ![f] = IF f \in Secure /\ @ < 2 THEN @ + 1 ELSE @]

StartPost ==
  /\ Iterating
  /\ LET f == Head(snd)
     IN f \notin Nodeless /\ Post(f) /\ Encap(f)
  /\ snd' = Tail(snd)
  /\ UNCHANGED <<running, lock, owner, ref>>

\* tx_start_locked() freed the mbuf, or lost it; the node is released here.
StartReject ==
  /\ Iterating
  /\ LET f == Head(snd)
     IN /\ f \notin Nodeless /\ Reject(f) /\ Encap(f)
        /\ \E fate \in Fates(f) : Drop(f, fate)
  /\ UNCHANGED <<running, lock>>

\* Deviation: the frame goes back in the rear.
StartRequeueLast ==
  /\ Iterating
  /\ LET f == Head(snd)
     IN f \notin Nodeless /\ NoBufs(f) /\ Encap(f)
          /\ snd' = Append(Tail(snd), f)
  /\ lock' = "free"
  /\ UNCHANGED <<running, ring, hw, owner, ref>>

\* ENOBUFS: the frame, already encapsulated, goes back in front.
StartRequeue ==
  /\ Iterating
  /\ LET f == Head(snd)
     IN f \notin Nodeless /\ NoBufs(f) /\ Encap(f)
  /\ lock' = "free"
  /\ UNCHANGED <<running, snd, ring, hw, owner, ref>>

-----------------------------------------------------------------------------
(* Completion: the engine and tx_reclaim().                                *)

HwFetch ==
  /\ eng = "on" /\ cd # ptr
  /\ cd' = Adv(cd, NTX)
  /\ UNCHANGED <<running, queue, ring, eng, ptr, ledger>>

\* The body slots among S are emptied (map unloaded, mbuf freed, node
\* released), and the frames in Q are freed with them.
ReleaseWith(S, Q) ==
  LET gone == Q \cup {slot[i] : i \in {j \in S : body[j]}}
  IN /\ slot' = [i \in TxSlots |-> IF i \in S /\ body[i] THEN None ELSE slot[i]]
     /\ owner' = [f \in Frames |-> IF f \in gone THEN "freed" ELSE owner[f]]
     /\ ref' = [f \in Frames |-> IF f \in gone THEN FALSE ELSE ref[f]]

\* Deviation: everything posted is taken for complete.
ReclaimEverything == rout

\* Deviation: an idle engine is taken for one that made no progress.
ReclaimIdleNothing == IF cd # ptr THEN cd ELSE rin

\* Where a reclaim stops: at the engine's current descriptor; a caught-up
\* (idle) engine has its current descriptor at PTR, which is r_out.
ReclaimEnd == IF cd # ptr THEN cd ELSE rout

\* intrtask, for MI_DMAINT and MI_TFS.  It does not look at RUNNING, but
\* those interrupts come from an engine that runs.
Reclaim ==
  /\ lock = "free" /\ eng = "on"
  /\ rin # rout
  /\ ReleaseWith(Window(rin, ReclaimEnd, NTX), {})
  /\ rin' = ReclaimEnd
  /\ UNCHANGED <<running, queue, rout, body, desc, hdr, hw, enc>>

-----------------------------------------------------------------------------
(* Bring-up and teardown, as far as the TX path sees them.                 *)

\* init_locked: core reset, then ring_tx_init().  The slots' mbufs are not
\* looked at.
Up ==
  /\ lock = "free" /\ ~running
  /\ running' = TRUE
  /\ rin' = 0 /\ rout' = 0
  /\ desc' = [i \in TxSlots |-> Zero]
  /\ eng' = "on" /\ cd' = 0 /\ ptr' = 0
  /\ UNCHANGED <<queue, slot, body, hdr, ledger>>

\* init_locked returns early: at the reset, which leaves the engine as it
\* was, or after it (ioctl, clock request, RF kill), the engine being reset.
UpFails ==
  /\ lock = "free" /\ ~running
  /\ \/ UNCHANGED hw
     \/ eng' = "off" /\ cd' = 0 /\ ptr' = 0
  /\ UNCHANGED <<running, queue, ring, ledger>>

\* A fatal condition (PSM watchdog, DMA fault, dead core, RF kill, watchdog
\* timeout) halts the MAC and drops RUNNING; rings and queue stay.
FatalStop ==
  /\ lock = "free" /\ running
  /\ running' = FALSE
  /\ UNCHANGED <<queue, ring, hw, ledger>>

\* stop_locked (the interface goes down): ring_stop() disarms the engine, or
\* gives up on it after its spin bound; everything posted is reclaimed either
\* way, and sc_snd is drained.
Down ==
  LET queued == {snd[k] : k \in 1 .. Len(snd)}
  IN /\ lock = "free" /\ running
     /\ running' = FALSE
     /\ eng' \in {"off", "stuck"}
     /\ ReleaseWith(InFlight, queued)
     /\ rin' = rout
     /\ snd' = <<>>
     /\ UNCHANGED <<lock, rout, body, desc, hdr, cd, ptr, enc>>

-----------------------------------------------------------------------------
\* What net80211 can call with a frame.
Handover(f) == TransmitRefused(f) \/ Transmit(f) \/ RawXmit(f)
StartLocked == StartDone \/ StartDrop \/ StartPost \/ StartReject \/ StartRequeue

Next ==
  \/ \E f \in Frames : Handover(f)
  \/ StartLocked
  \/ HwFetch
  \/ Reclaim
  \/ Up \/ UpFails \/ FatalStop \/ Down

Spec == Init /\ [][Next]_vars

-----------------------------------------------------------------------------
(* Properties.                                                             *)

Queued == {snd[k] : k \in 1 .. Len(snd)}
Posted == {slot[i] : i \in TxSlots} \ {None}

\* A slot outside the window holds an mbuf: ring_tx_init forgot it.
Stale == \E i \in TxSlots \ InFlight : slot[i] # None

\* What the engine will fetch is what the driver posted: each header
\* descriptor still finds its own frame's D11 header in the cache, each body
\* descriptor an mbuf that its slot holds and nobody has freed.  Posting
\* reuses cache entries and slots, reclaiming frees the mbufs.
FetchedIsOwned ==
  eng = "on" =>
    \A i \in ToFetch :
      \/ /\ desc[i].kind = "header"
         /\ desc[Adv(i, NTX)].kind = "body"
         /\ hdr[desc[i].of] = desc[Adv(i, NTX)].of
      \/ /\ desc[i].kind = "body"
         /\ slot[i] = desc[i].of
         /\ owner[slot[i]] = "driver"

\* An mbuf the driver owns is in exactly one place, the queue or one slot, and
\* no mbuf it gave back or freed is in any: on every path of tx_start_locked,
\* start_locked, tx_reclaim, stop_locked and a re-init over a non-empty ring,
\* nothing is freed twice or used after it was freed.  Nothing is lost either,
\* with the one exception that the code makes: the mbuf that m_defrag() fails
\* on ("leaked") is the driver's and in no place.
OneOwner ==
  /\ Queued \cup Posted = {f \in Frames : owner[f] = "driver"}
  /\ Queued \cap Posted = {}
  /\ \A j, k \in 1 .. Len(snd) : j # k => snd[j] # snd[k]
  /\ \A i, j \in TxSlots : i # j /\ slot[i] # None => slot[i] # slot[j]

\* The driver holds a frame's node reference exactly while it owns the mbuf:
\* no error path forgets the reference or drops it twice.
NodeRefBalanced ==
  \A f \in Frames : ref[f] <=> owner[f] = "driver" /\ f \notin Nodeless

\* Posting never runs into r_in: a frame that enters a slot is in the window
\* of posted slots.  Two slots of slack are enough even when the engine has
\* stopped between a header and its body, and r_in is odd.
RingNeverOverflows ==
  [][\A i \in TxSlots : slot[i] = None /\ slot'[i] # None => i \in InFlight']_vars

\* A protected frame is encapsulated again only behind a slot that a
\* re-initialised ring forgot: requeueing after ENOBUFS is otherwise never
\* reached with an encapsulated frame.
EncapTwiceOnlyWhenStale ==
  (\E f \in Frames : owner[f] = "driver" /\ enc[f] > 1)
    => Stale

\* tx_reclaim frees an mbuf only after the engine fetched its descriptor;
\* otherwise only teardown, with the engine told to stop, may take it.
FreedAfterFetch ==
  [][eng' = "on" =>
       \A i \in ToFetch : slot[i] # None /\ body[i] => slot'[i] = slot[i]]_vars

\* Whenever tx_reclaim is called on a running engine, it leaves posted exactly
\* what the engine has yet to read, and frees every mbuf the engine is done
\* with: no completed frame stays behind on the ring, whether the engine has
\* caught up and is idle, has stopped between a header and its body, or had
\* frames posted meanwhile.  (It need not be called soon: an interrupt can get
\* lost, and the frames then wait for the next one.)
ReclaimCatchesUp ==
  eng = "on" =>
    /\ Window(ReclaimEnd, rout, NTX) = ToFetch
    /\ \A i \in InFlight \ ToFetch : slot[i] # None =>
         i \in Window(rin, ReclaimEnd, NTX) /\ body[i]

\* The slot that holds the body of the m-th youngest frame on the ring.
BodySlot(m) == Behind(rout, 2 * m - 1, NTX)

\* How many frames are on the ring: each has two slots, a header and a body,
\* but the header of the oldest may be reclaimed already.
Outstanding == (Active(rin, rout, NTX) + 1) \div 2

\* The frames on the ring, oldest first.
Flight == [k \in 1 .. Outstanding |-> slot[BodySlot(Outstanding + 1 - k)]]

Pipe == INSTANCE TxPipe WITH waiting <- snd, flight <- Flight, Cap <- NFrames

\* The transmit path implements its abstract specification: frames go through
\* queue and ring in order, each in one place, at most NTX/2 on the ring.
ImplementsPipe == Pipe!PipeSpec

=============================================================================

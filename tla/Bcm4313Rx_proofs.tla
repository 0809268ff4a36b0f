-------------------------- MODULE Bcm4313Rx_proofs --------------------------
(***************************************************************************)
(* Theorems about Bcm4313Rx, for every ring size and every set of mbufs.   *)
(***************************************************************************)
EXTENDS Bcm4313Rx, DmaRing_proofs, Sequences, SequenceTheorems

\* The ring has slots.
LEMMA RingSize == NRX \in Nat \ {0} /\ RxSlots = Slots(NRX) /\ 0 \in RxSlots
  BY NRXAssumption DEF RxSlots, Slots

\* The next index of a ring is an index of the ring.
LEMMA AdvInRing == ASSUME NEW i \in RxSlots PROVE Adv(i, NRX) \in RxSlots
  BY RingSize, AdvInSlots

\* The types of the two threads, of the engine and of the history.
TypeControl ==
  /\ delivers \in BOOLEAN /\ running \in BOOLEAN
  /\ parent \in {"idle", "refill"}
  /\ ipc \in {"idle", "loop", "input", "refill"}
  /\ eng \in BOOLEAN
  /\ raced \in BOOLEAN /\ forgot \in BOOLEAN

\* The types of the ring's indexes.
TypeIndex ==
  hwpos \in RxSlots /\ rin \in RxSlots /\ rout \in RxSlots /\ cd \in RxSlots /\ ptr \in RxSlots

\* The types of the ring's contents.
TypeData ==
  /\ slot \in [RxSlots -> Mbufs \cup {None}]
  /\ desc \in [RxSlots -> Mbufs \cup {None}]
  /\ owner \in [Mbufs -> {"free", "ring", "stack"}]
  /\ filled \subseteq Mbufs

LEMMA TypeParts == TypeOK <=> TypeControl /\ TypeIndex /\ TypeData
  BY DEF TypeOK, TypeControl, TypeIndex, TypeData

LEMMA TypeInit == Init => TypeOK
<1> SUFFICES ASSUME Init PROVE TypeOK
  OBVIOUS
<1> QED
  BY RingSize DEF Init, TypeOK

LEMMA ControlStep == ASSUME TypeControl, [Next]_vars PROVE TypeControl'
<1> USE DEF TypeControl
<1>1. CASE HwReceive
  BY <1>1 DEF HwReceive, pcs, past
<1>2. CASE RefillSome
  BY <1>2 DEF RefillSome, RefillOne, pcs, past, hw
<1>3. CASE RefillEnd
  BY <1>3 DEF RefillEnd, past
<1>4. CASE RxRingFirst
  BY <1>4 DEF RxRingFirst, past, hw
<1>5. CASE HarvestBegin
  BY <1>5 DEF HarvestBegin, past, hw
<1>6. CASE HarvestDrop
  BY <1>6 DEF HarvestDrop, pcs, past, hw
<1>7. CASE HarvestDeliver
  BY <1>7 DEF HarvestDeliver, past, hw
<1>8. CASE InputReturn
  BY <1>8 DEF InputReturn, past, hw
<1>9. CASE HarvestEnd
  BY <1>9 DEF HarvestEnd, past, hw
<1>10. CASE Up
  BY <1>10 DEF Up
<1>11. CASE FatalStop
  BY <1>11 DEF FatalStop, pcs, past, hw
<1>12. CASE Down
  BY <1>12 DEF Down, pcs
<1>13. CASE UNCHANGED vars
  BY <1>13 DEF vars, pcs, past, hw
<1> QED
  BY <1>1, <1>2, <1>3, <1>4, <1>5, <1>6, <1>7, <1>8, <1>9, <1>10, <1>11, <1>12, <1>13
     DEF Next, Refill, Harvest

LEMMA IndexStep == ASSUME TypeIndex, [Next]_vars PROVE TypeIndex'
<1> USE DEF TypeIndex
<1>0. 0 \in RxSlots /\ Adv(rin, NRX) \in RxSlots /\ Adv(rout, NRX) \in RxSlots
      /\ Adv(cd, NRX) \in RxSlots
  BY AdvInRing, RingSize
<1>1. CASE HwReceive
  BY <1>0, <1>1 DEF HwReceive, pcs, ring
<1>2. CASE RefillSome
  BY <1>0, <1>2 DEF RefillSome, RefillOne, pcs, hw
<1>3. CASE RefillEnd
  BY <1>3 DEF RefillEnd, ring
<1>4. CASE RxRingFirst
  BY <1>4 DEF RxRingFirst, ring, hw
<1>5. CASE HarvestBegin
  BY <1>5 DEF HarvestBegin, ring, hw
<1>6. CASE HarvestDrop
  BY <1>0, <1>6 DEF HarvestDrop, pcs, hw
<1>7. CASE HarvestDeliver
  BY <1>7 DEF HarvestDeliver, hw
<1>8. CASE InputReturn
  BY <1>0, <1>8 DEF InputReturn, hw
<1>9. CASE HarvestEnd
  BY <1>9 DEF HarvestEnd, ring, hw
<1>10. CASE Up
  BY <1>0, <1>10 DEF Up
<1>11. CASE FatalStop
  BY <1>11 DEF FatalStop, pcs, ring, hw
<1>12. CASE Down
  BY <1>12 DEF Down, pcs
<1>13. CASE UNCHANGED vars
  BY <1>13 DEF vars, pcs, ring, hw
<1> QED
  BY <1>1, <1>2, <1>3, <1>4, <1>5, <1>6, <1>7, <1>8, <1>9, <1>10, <1>11, <1>12, <1>13
     DEF Next, Refill, Harvest

LEMMA DataStep == ASSUME TypeIndex, TypeData, [Next]_vars PROVE TypeData'
<1> USE DEF TypeData
<1>0. rin \in RxSlots /\ rout \in RxSlots /\ cd \in RxSlots
  BY DEF TypeIndex
<1>1. CASE HwReceive
  BY <1>0, <1>1 DEF HwReceive, ring
<1>2. CASE RefillSome
  BY <1>0, <1>2 DEF RefillSome, RefillOne
<1>3. CASE RefillEnd
  BY <1>3 DEF RefillEnd, ring
<1>4. CASE RxRingFirst
  BY <1>4 DEF RxRingFirst, ring
<1>5. CASE HarvestBegin
  BY <1>5 DEF HarvestBegin, ring
<1>6. CASE HarvestDrop
  BY <1>0, <1>6 DEF HarvestDrop, EmptySlot, FreeMbuf
<1>7. CASE HarvestDeliver
  BY <1>0, <1>7 DEF HarvestDeliver, EmptySlot
<1>8. CASE InputReturn
  BY <1>8 DEF InputReturn
<1>9. CASE HarvestEnd
  BY <1>9 DEF HarvestEnd, ring
<1>10. CASE Up
  BY <1>10 DEF Up
<1>11. CASE FatalStop
  BY <1>11 DEF FatalStop, ring
<1>12. CASE Down
  BY <1>12 DEF Down
<1>13. CASE UNCHANGED vars
  BY <1>13 DEF vars, ring
<1> QED
  BY <1>1, <1>2, <1>3, <1>4, <1>5, <1>6, <1>7, <1>8, <1>9, <1>10, <1>11, <1>12, <1>13
     DEF Next, Refill, Harvest

LEMMA TypeStep == TypeOK /\ [Next]_vars => TypeOK'
<1> SUFFICES ASSUME TypeOK, [Next]_vars PROVE TypeOK'
  OBVIOUS
<1>1. TypeControl /\ TypeIndex /\ TypeData
  BY TypeParts
<1>2. TypeControl' /\ TypeIndex' /\ TypeData'
  BY <1>1, ControlStep, IndexStep, DataStep
<1> QED
  BY <1>2 DEF TypeOK, TypeControl, TypeIndex, TypeData

\* Type correctness of the receive and status rings: every index stays inside
\* the ring, for every ring size.
THEOREM TypeCorrect == Spec => []TypeOK
  BY TypeInit, TypeStep, PTL DEF Spec

-----------------------------------------------------------------------------
(* Ownership.                                                              *)

\* HeldOnce, slot by slot.
HeldBySlot ==
  \A i \in RxSlots : slot[i] # None =>
    /\ owner[slot[i]] = "ring"
    /\ \A j \in RxSlots : i # j => slot[j] # slot[i]

LEMMA HeldOnceBySlot == HeldOnce <=> HeldBySlot
  BY DEF HeldOnce, HeldBySlot, Held

LEMMA HeldInit == Init => HeldBySlot
  BY DEF Init, HeldBySlot

LEMMA HeldStep == ASSUME TypeOK, HeldBySlot, [Next]_vars PROVE HeldBySlot'
<1> USE DEF HeldBySlot
<1>0. /\ rin \in RxSlots /\ rout \in RxSlots
      /\ slot \in [RxSlots -> Mbufs \cup {None}]
      /\ owner \in [Mbufs -> {"free", "ring", "stack"}]
      /\ None \notin Mbufs
  BY MbufsAssumption DEF TypeOK
<1>1. CASE HwReceive
  BY <1>1 DEF HwReceive, ring
<1>2. CASE RefillSome
  <2>1. PICK m \in Mbufs : RefillOne(m)
    BY <1>2 DEF RefillSome
  <2>2. \A i \in RxSlots : slot[i] # m
    BY <1>0, <2>1 DEF RefillOne
  <2> QED
    BY <1>0, <2>1, <2>2 DEF RefillOne
<1>3. CASE RefillEnd
  BY <1>3 DEF RefillEnd, ring
<1>4. CASE RxRingFirst
  BY <1>4 DEF RxRingFirst, ring
<1>5. CASE HarvestBegin
  BY <1>5 DEF HarvestBegin, ring
<1>6. CASE HarvestDrop
  BY <1>0, <1>6 DEF HarvestDrop, EmptySlot, FreeMbuf
<1>7. CASE HarvestDeliver
  BY <1>0, <1>7 DEF HarvestDeliver, EmptySlot
<1>8. CASE InputReturn
  BY <1>0, <1>8 DEF InputReturn
<1>9. CASE HarvestEnd
  BY <1>9 DEF HarvestEnd, ring
<1>10. CASE Up
  BY <1>10 DEF Up
<1>11. CASE FatalStop
  BY <1>11 DEF FatalStop, ring
<1>12. CASE Down
  <2>1. InFlight \subseteq RxSlots
    BY DEF InFlight, Window, RxSlots
  <2>2. \A i \in RxSlots : slot'[i] # None => i \notin InFlight /\ slot'[i] = slot[i]
    BY <1>0, <1>12 DEF Down
  <2>3. \A i \in RxSlots : slot'[i] # None =>
          owner'[slot[i]] = owner[slot[i]]
    BY <1>0, <1>12, <2>1, <2>2 DEF Down
  <2>4. \A i \in RxSlots : slot'[i] \in {slot[i], None}
    BY <1>12 DEF Down
  <2> QED
    BY <2>2, <2>3, <2>4
<1>13. CASE UNCHANGED vars
  BY <1>13 DEF vars, ring
<1> QED
  BY <1>1, <1>2, <1>3, <1>4, <1>5, <1>6, <1>7, <1>8, <1>9, <1>10, <1>11, <1>12, <1>13
     DEF Next, Refill, Harvest

\* An mbuf is never in two slots, nor in a slot and free or with net80211: the
\* receive path frees nothing twice, whatever stops and re-inits do to a harvest.
THEOREM HeldOnceAlways == Spec => []HeldOnce
<1>1. TypeOK /\ HeldBySlot /\ [Next]_vars => HeldBySlot'
  BY HeldStep
<1> QED
  BY TypeCorrect, HeldInit, HeldOnceBySlot, <1>1, PTL DEF Spec

-----------------------------------------------------------------------------
(* The order of the indexes.                                               *)

\* How far slot x is from r_in.
Off(x) == Active(rin, x, NRX)

\* A thread in a loop holds the lock.
OneHolder == ipc \in {"loop", "refill"} => parent = "idle"

\* As long as nothing slipped into an unlocked harvest, the engine is between
\* r_in and PTR, and PTR is not beyond r_out.
Ordered == eng /\ ~raced => Off(cd) <= Off(ptr) /\ Off(ptr) <= Off(rout)

\* A harvest runs on a live ring, up to a position that the engine has reached;
\* the slot whose frame is with net80211 is empty.
HarvestBehind ==
  ipc \in {"loop", "input"} /\ ~raced =>
    /\ eng
    /\ ipc = "loop" \/ delivers => Off(hwpos) <= Off(cd)
    /\ ipc = "input" => parent = "idle"
    /\ ipc = "input" /\ delivers => rin # hwpos /\ slot[rin] = None

\* Offsets are natural numbers below NRX.
LEMMA OffRange ==
  ASSUME rin \in RxSlots, NEW x \in RxSlots
  PROVE  Off(x) \in 0 .. NRX - 1 /\ (Off(x) = 0 <=> x = rin)
  BY RingSize, ActiveRange DEF Off

\* The slot being harvested lies behind the engine, and the ring is not empty.
LEMMA HarvestOffsets ==
  ASSUME TypeOK, Ordered, HarvestBehind, ~raced, ipc = "loop" \/ (ipc = "input" /\ delivers),
         rin # hwpos
  PROVE  eng /\ 0 < Off(hwpos) /\ 0 < Off(cd) /\ 0 < Off(ptr) /\ 0 < Off(rout)
         /\ rin # cd /\ rin # ptr /\ rin # rout
<1>0. rin \in RxSlots /\ hwpos \in RxSlots /\ cd \in RxSlots /\ ptr \in RxSlots /\ rout \in RxSlots
  BY DEF TypeOK
<1>1. eng /\ Off(hwpos) <= Off(cd)
  BY DEF HarvestBehind
<1>2. Off(cd) <= Off(ptr) /\ Off(ptr) <= Off(rout)
  BY <1>1 DEF Ordered
<1>3. /\ Off(hwpos) \in 0 .. NRX - 1 /\ Off(cd) \in 0 .. NRX - 1
      /\ Off(ptr) \in 0 .. NRX - 1 /\ Off(rout) \in 0 .. NRX - 1
      /\ Off(hwpos) # 0
  BY <1>0, OffRange
<1>4. 0 < Off(hwpos) /\ 0 < Off(cd) /\ 0 < Off(ptr) /\ 0 < Off(rout)
  BY <1>1, <1>2, <1>3, NRXAssumption
<1>5. rin # cd /\ rin # ptr /\ rin # rout
  BY <1>0, <1>4, OffRange
<1> QED
  BY <1>1, <1>4, <1>5

\* What advancing r_in does to the offsets.
LEMMA OffReclaim ==
  ASSUME rin \in RxSlots, rin' = Adv(rin, NRX), NEW x \in RxSlots
  PROVE  Active(rin', x, NRX) = IF x = rin THEN NRX - 1 ELSE Off(x) - 1
  BY RingSize, ActiveReclaim, ActiveBehind DEF Off

LEMMA HolderStep == ASSUME OneHolder, [Next]_vars PROVE OneHolder'
<1> USE DEF OneHolder
<1>1. CASE HwReceive
  BY <1>1 DEF HwReceive, pcs
<1>2. CASE RefillSome
  BY <1>2 DEF RefillSome, RefillOne, pcs
<1>3. CASE RefillEnd
  BY <1>3 DEF RefillEnd, Refilling
<1>4. CASE RxRingFirst
  BY <1>4 DEF RxRingFirst
<1>5. CASE HarvestBegin
  BY <1>5 DEF HarvestBegin
<1>6. CASE HarvestDrop
  BY <1>6 DEF HarvestDrop, pcs
<1>7. CASE HarvestDeliver
  BY <1>7 DEF HarvestDeliver
<1>8. CASE InputReturn
  BY <1>8 DEF InputReturn
<1>9. CASE HarvestEnd
  BY <1>9 DEF HarvestEnd
<1>10. CASE Up
  BY <1>10 DEF Up, LockFree
<1>11. CASE FatalStop
  BY <1>11 DEF FatalStop, pcs
<1>12. CASE Down
  BY <1>12 DEF Down, pcs
<1>13. CASE UNCHANGED vars
  BY <1>13 DEF vars, pcs
<1> QED
  BY <1>1, <1>2, <1>3, <1>4, <1>5, <1>6, <1>7, <1>8, <1>9, <1>10, <1>11, <1>12, <1>13
     DEF Next, Refill, Harvest

\* A reception moves the engine by one, towards PTR.
LEMMA ReceiveMoves ==
  ASSUME TypeOK, Ordered, ~raced, HwReceive
  PROVE  /\ eng /\ Off(cd) < Off(ptr) /\ Off(ptr) <= Off(rout)
         /\ Active(rin, cd', NRX) = Off(cd) + 1
         /\ UNCHANGED <<rin, rout, slot, desc, ptr, ipc, hwpos, parent, eng, raced, forgot, delivers>>
<1>1. eng /\ cd # ptr /\ cd' = Adv(cd, NRX) /\ rin \in RxSlots /\ cd \in RxSlots /\ ptr \in RxSlots
      /\ rout \in RxSlots
      /\ UNCHANGED <<rin, rout, slot, desc, ptr, ipc, hwpos, parent, eng, raced, forgot, delivers>>
  BY DEF HwReceive, TypeOK, ring, pcs, past
<1>2. /\ Off(cd) \in 0 .. NRX - 1 /\ Off(ptr) \in 0 .. NRX - 1 /\ Off(rout) \in 0 .. NRX - 1
      /\ NRX \in Nat
  BY <1>1, OffRange, NRXAssumption
<1>3. Off(cd) # Off(ptr)
  BY <1>1, RingSize, ActiveInjective DEF Off
<1>4. Off(cd) <= Off(ptr) /\ Off(ptr) <= Off(rout)
  BY <1>1 DEF Ordered
<1>5. Off(cd) < Off(ptr) /\ Off(cd) < NRX - 1
  BY <1>2, <1>3, <1>4
<1>6. Active(rin, Adv(cd, NRX), NRX) = Off(cd) + 1
  BY <1>1, <1>5, RingSize, ActivePost DEF Off
<1> QED
  BY <1>1, <1>4, <1>5, <1>6

\* Posting a buffer moves r_out by one.
LEMMA RefillMoves ==
  ASSUME TypeOK, NEW m \in Mbufs, RefillOne(m)
  PROVE  /\ Active(rin, rout', NRX) = Off(rout) + 1
         /\ slot' = [slot EXCEPT ![rout] = m] /\ desc' = [desc EXCEPT ![rout] = m]
         /\ owner[m] = "free" /\ owner' = [owner EXCEPT ![m] = "ring"]
         /\ filled' = filled \ {m} /\ m # None
         /\ UNCHANGED <<rin, cd, ptr, eng, raced, forgot, ipc, parent, hwpos, delivers>>
<1>1. ~Full /\ rout' = Adv(rout, NRX) /\ rin \in RxSlots /\ rout \in RxSlots
  BY DEF RefillOne, TypeOK
<1>2. Off(rout) \in 0 .. NRX - 1 /\ NRX \in Nat
  BY <1>1, OffRange, NRXAssumption
<1>3. Off(rout) < NRX - 1
  BY <1>1, <1>2 DEF Full, Off
<1>4. Active(rin, rout', NRX) = Off(rout) + 1
  BY <1>1, <1>3, RingSize, ActivePost DEF Off
<1> QED
  BY <1>4, MbufsAssumption DEF RefillOne, hw, past, pcs

\* A harvest moves r_in by one and leaves an empty slot behind it.
LEMMA HarvestMoves ==
  ASSUME TypeOK, Ordered, HarvestBehind, ~raced, HarvestDrop \/ InputReturn
  PROVE  /\ eng /\ rin # cd /\ rin # ptr /\ rin # rout /\ rin # hwpos
         /\ Active(rin', rin, NRX) = NRX - 1
         /\ \A x \in RxSlots : x # rin => Active(rin', x, NRX) = Off(x) - 1
         /\ slot'[rin] = None /\ \A x \in RxSlots : x # rin => slot'[x] = slot[x]
         /\ ipc' = "loop"
         /\ UNCHANGED <<cd, ptr, rout, hwpos, desc, eng, raced, forgot, filled, delivers>>
<1>0. rin \in RxSlots /\ slot \in [RxSlots -> Mbufs \cup {None}]
  BY DEF TypeOK
<1>1. /\ rin' = Adv(rin, NRX) /\ rin # hwpos /\ ipc' = "loop"
      /\ ipc = "loop" \/ (ipc = "input" /\ delivers)
      /\ UNCHANGED <<cd, ptr, rout, hwpos, desc, eng, raced, forgot, filled, delivers>>
      /\ slot'[rin] = None /\ \A x \in RxSlots : x # rin => slot'[x] = slot[x]
  <2>1. CASE HarvestDrop
    BY <1>0, <2>1 DEF HarvestDrop, Looping, EmptySlot, hw, past, pcs
  <2>2. CASE InputReturn
    BY <2>2 DEF InputReturn, hw, past, HarvestBehind
  <2> QED
    BY <2>1, <2>2
<1>2. eng /\ rin # cd /\ rin # ptr /\ rin # rout
  BY <1>1, HarvestOffsets
<1>3. /\ Active(rin', rin, NRX) = NRX - 1
      /\ \A x \in RxSlots : x # rin => Active(rin', x, NRX) = Off(x) - 1
  BY <1>0, <1>1, OffReclaim
<1> QED
  BY <1>1, <1>2, <1>3

LEMMA OrderStep == ASSUME TypeOK, Ordered, HarvestBehind, [Next]_vars PROVE Ordered'
<1> SUFFICES ASSUME eng', ~raced'
             PROVE  Active(rin', cd', NRX) <= Active(rin', ptr', NRX)
                    /\ Active(rin', ptr', NRX) <= Active(rin', rout', NRX)
  BY DEF Ordered, Off
<1>0. rin \in RxSlots /\ cd \in RxSlots /\ ptr \in RxSlots /\ rout \in RxSlots
  BY DEF TypeOK
<1>a. /\ Off(cd) \in 0 .. NRX - 1 /\ Off(ptr) \in 0 .. NRX - 1 /\ Off(rout) \in 0 .. NRX - 1
      /\ NRX \in Nat
  BY <1>0, OffRange, NRXAssumption
<1>b. ASSUME eng, ~raced PROVE Off(cd) <= Off(ptr) /\ Off(ptr) <= Off(rout)
  BY <1>b DEF Ordered
<1>c. ASSUME UNCHANGED <<rin, cd, ptr, rout, eng, raced>>
      PROVE  Active(rin', cd', NRX) <= Active(rin', ptr', NRX)
             /\ Active(rin', ptr', NRX) <= Active(rin', rout', NRX)
  BY <1>b, <1>c DEF Off
<1>1. CASE HwReceive
  <2>1. Off(cd) < Off(ptr) /\ Off(ptr) <= Off(rout) /\ Active(rin, cd', NRX) = Off(cd) + 1
        /\ UNCHANGED <<rin, ptr, rout>>
    BY <1>1, ReceiveMoves DEF HwReceive, past
  <2>2. Off(cd) + 1 <= Off(ptr)
    BY <1>a, <2>1
  <2> QED
    BY <2>1, <2>2 DEF Off
<1>2. CASE RefillSome
  <2>1. eng /\ ~raced /\ Active(rin, rout', NRX) = Off(rout) + 1 /\ UNCHANGED <<rin, cd, ptr>>
    BY <1>2, RefillMoves DEF RefillSome
  <2>2. Off(cd) <= Off(ptr) /\ Off(ptr) <= Off(rout) + 1
    BY <1>a, <1>b, <2>1
  <2> QED
    BY <2>1, <2>2 DEF Off
<1>3. CASE RefillEnd
  <2>1. eng /\ ~raced /\ ptr' = rout /\ UNCHANGED <<rin, cd, rout>>
    BY <1>3 DEF RefillEnd, ring, past
  <2>2. Off(cd) <= Off(rout) /\ Off(rout) <= Off(rout)
    BY <1>a, <1>b, <2>1
  <2> QED
    BY <2>1, <2>2 DEF Off
<1>4. CASE RxRingFirst
  BY <1>c, <1>4 DEF RxRingFirst, ring, hw, past
<1>5. CASE HarvestBegin
  BY <1>c, <1>5 DEF HarvestBegin, ring, hw, past
<1>6. CASE HarvestDrop \/ InputReturn
  <2>0. ~raced
    BY <1>6 DEF HarvestDrop, InputReturn, past
  <2>1. /\ eng /\ UNCHANGED <<cd, ptr, rout>>
        /\ Active(rin', cd, NRX) = Off(cd) - 1
        /\ Active(rin', ptr, NRX) = Off(ptr) - 1
        /\ Active(rin', rout, NRX) = Off(rout) - 1
    BY <1>0, <1>6, <2>0, HarvestMoves
  <2>2. Off(cd) - 1 <= Off(ptr) - 1 /\ Off(ptr) - 1 <= Off(rout) - 1
    BY <1>a, <1>b, <2>0, <2>1
  <2> QED
    BY <2>1, <2>2
<1>7. CASE HarvestDeliver
  BY <1>c, <1>7 DEF HarvestDeliver, hw, past
<1>9. CASE HarvestEnd
  BY <1>c, <1>9 DEF HarvestEnd, ring, hw, past
<1>10. CASE Up
  <2>1. rin' = 0 /\ rout' = 0 /\ cd' = 0 /\ ptr' = 0
    BY <1>10 DEF Up
  <2>2. Active(0, 0, NRX) = 0
    BY RingSize, ActiveRange
  <2> QED
    BY <2>1, <2>2
<1>11. CASE FatalStop
  BY <1>c, <1>11 DEF FatalStop, ring, hw, past
<1>12. CASE Down
  BY <1>12 DEF Down
<1>13. CASE UNCHANGED vars
  BY <1>c, <1>13 DEF vars, ring, hw, past
<1> QED
  BY <1>1, <1>2, <1>3, <1>4, <1>5, <1>6, <1>7, <1>9, <1>10, <1>11, <1>12, <1>13
     DEF Next, Refill, Harvest

LEMMA HarvestBehindStep ==
  ASSUME TypeOK, OneHolder, Ordered, HarvestBehind, [Next]_vars PROVE HarvestBehind'
<1> SUFFICES ASSUME ipc' \in {"loop", "input"}, ~raced'
             PROVE  /\ eng'
                    /\ ipc' = "loop" \/ delivers' =>
                         Active(rin', hwpos', NRX) <= Active(rin', cd', NRX)
                    /\ ipc' = "input" => parent' = "idle"
                    /\ ipc' = "input" /\ delivers' => rin' # hwpos' /\ slot'[rin'] = None
  BY DEF HarvestBehind, Off
<1>0. /\ rin \in RxSlots /\ cd \in RxSlots /\ hwpos \in RxSlots
      /\ slot \in [RxSlots -> Mbufs \cup {None}]
  BY DEF TypeOK
<1>a. Off(cd) \in 0 .. NRX - 1 /\ Off(hwpos) \in 0 .. NRX - 1 /\ NRX \in Nat
  BY <1>0, OffRange, NRXAssumption
<1>b. ~Refilling \/ raced \/ ipc \notin {"loop", "input"}
  BY DEF Refilling, OneHolder, HarvestBehind
<1>1. CASE HwReceive
  <2>0. ~raced
    BY <1>1 DEF HwReceive, past
  <2>1. /\ Active(rin, cd', NRX) = Off(cd) + 1
        /\ UNCHANGED <<rin, slot, ipc, hwpos, parent, eng, delivers>>
    BY <1>1, <2>0, ReceiveMoves
  <2>2. ipc = "loop" \/ delivers => Off(hwpos) <= Off(cd) + 1
    BY <1>a, <2>0, <2>1 DEF HarvestBehind
  <2> QED
    BY <2>0, <2>1, <2>2 DEF HarvestBehind, Off
<1>2. CASE RefillSome
  BY <1>b, <1>2 DEF RefillSome, RefillOne, past, pcs
<1>3. CASE RefillEnd
  BY <1>b, <1>3 DEF RefillEnd, past
<1>4. CASE RxRingFirst
  BY <1>4 DEF RxRingFirst, LockFree, hw
<1>5. CASE HarvestBegin
  <2>1. /\ hwpos' = cd /\ ipc' = "loop" /\ ~raced /\ UNCHANGED <<rin, cd, eng>>
        /\ eng \/ ipc = "input"
    BY <1>5 DEF HarvestBegin, ring, hw, past
  <2>2. Off(cd) <= Off(cd)
    BY <1>a
  <2> QED
    BY <2>1, <2>2 DEF HarvestBehind, Off
<1>6. CASE HarvestDrop \/ InputReturn
  <2>0. ~raced
    BY <1>6 DEF HarvestDrop, InputReturn, past
  <2>1. /\ eng /\ ipc' = "loop" /\ UNCHANGED <<cd, hwpos, eng>>
        /\ Active(rin', cd, NRX) = Off(cd) - 1
        /\ Active(rin', hwpos, NRX) = Off(hwpos) - 1
    BY <1>0, <1>6, <2>0, HarvestMoves
  <2>2. Off(hwpos) <= Off(cd)
    <3>1. ipc \in {"loop", "input"} /\ (ipc = "loop" \/ delivers)
      BY <1>6 DEF HarvestDrop, InputReturn, Looping
    <3> QED
      BY <2>0, <3>1 DEF HarvestBehind
  <2>3. Off(hwpos) - 1 <= Off(cd) - 1
    BY <1>a, <2>2
  <2> QED
    BY <2>1, <2>3
<1>7. CASE HarvestDeliver
  <2>1. /\ ipc = "loop" /\ ipc' = "input" /\ rin # hwpos /\ ~raced /\ slot'[rin] = None
        /\ UNCHANGED <<rin, hwpos, cd, eng, parent>>
    BY <1>0, <1>7 DEF HarvestDeliver, Looping, EmptySlot, hw, past
  <2> QED
    BY <2>1 DEF HarvestBehind, OneHolder, Off
<1>9. CASE HarvestEnd
  BY <1>9 DEF HarvestEnd
<1>10. CASE Up
  BY <1>10 DEF Up, LockFree
<1>11. CASE FatalStop
  BY <1>11 DEF FatalStop, pcs, ring, hw, past, HarvestBehind, Off
<1>12. CASE Down
  BY <1>12 DEF Down, LockFree, pcs
<1>13. CASE UNCHANGED vars
  BY <1>13 DEF vars, pcs, ring, hw, past, HarvestBehind, Off
<1> QED
  BY <1>1, <1>2, <1>3, <1>4, <1>5, <1>6, <1>7, <1>9, <1>10, <1>11, <1>12, <1>13
     DEF Next, Refill, Harvest

-----------------------------------------------------------------------------
(* What the slots and descriptors hold.                                    *)

\* From the engine to r_out, each descriptor points at its slot's buffer.
Posted ==
  eng /\ ~raced =>
    \A i \in RxSlots :
      Off(cd) <= Off(i) /\ Off(i) < Off(rout) => desc[i] # None /\ slot[i] = desc[i]

\* From r_in to the engine, the buffers have been written.
Written ==
  eng /\ ~raced =>
    \A i \in RxSlots : Off(i) < Off(cd) /\ slot[i] # None => slot[i] \in filled

\* From r_out to r_in, the slots are empty.
OutsideEmpty ==
  ~raced /\ ~forgot => \A i \in RxSlots : Off(rout) <= Off(i) => slot[i] = None

LEMMA PostedStep ==
  ASSUME TypeOK, Ordered, HarvestBehind, Posted, [Next]_vars PROVE Posted'
<1> SUFFICES ASSUME eng', ~raced', NEW i \in RxSlots,
                    Active(rin', cd', NRX) <= Active(rin', i, NRX),
                    Active(rin', i, NRX) < Active(rin', rout', NRX)
             PROVE  desc'[i] # None /\ slot'[i] = desc'[i]
  BY DEF Posted, Off
<1>0. /\ rin \in RxSlots /\ cd \in RxSlots /\ rout \in RxSlots
      /\ slot \in [RxSlots -> Mbufs \cup {None}] /\ desc \in [RxSlots -> Mbufs \cup {None}]
  BY DEF TypeOK
<1>a. Off(cd) \in 0 .. NRX - 1 /\ Off(rout) \in 0 .. NRX - 1 /\ Off(i) \in 0 .. NRX - 1 /\ NRX \in Nat
  BY <1>0, OffRange, NRXAssumption
<1>b. ASSUME UNCHANGED <<rin, rout, slot, desc, cd, eng, raced>>
      PROVE  desc'[i] # None /\ slot'[i] = desc'[i]
  BY <1>b DEF Posted, Off
<1>1. CASE HwReceive
  <2>1. /\ eng /\ ~raced /\ UNCHANGED <<rin, rout, slot, desc>>
        /\ Active(rin, cd', NRX) = Off(cd) + 1
    BY <1>1, ReceiveMoves DEF HwReceive, past
  <2>2. Off(cd) + 1 <= Off(i) /\ Off(i) < Off(rout)
    BY <2>1 DEF Off
  <2>3. Off(cd) <= Off(i)
    BY <1>a, <2>2
  <2> QED
    BY <2>1, <2>2, <2>3 DEF Posted
<1>2. CASE RefillSome
  <2>1. PICK m \in Mbufs : RefillOne(m)
    BY <1>2 DEF RefillSome
  <2>2. /\ Active(rin, rout', NRX) = Off(rout) + 1 /\ m # None /\ eng /\ ~raced
        /\ slot' = [slot EXCEPT ![rout] = m] /\ desc' = [desc EXCEPT ![rout] = m]
        /\ UNCHANGED <<rin, cd>>
    BY <2>1, RefillMoves
  <2>3. CASE i = rout
    BY <1>0, <2>2, <2>3
  <2>4. CASE i # rout
    <3>1. Off(i) # Off(rout)
      BY <1>0, <2>4, RingSize, ActiveInjective DEF Off
    <3>2. Off(cd) <= Off(i) /\ Off(i) < Off(rout) + 1
      BY <2>2 DEF Off
    <3>3. Off(i) < Off(rout)
      BY <1>a, <3>1, <3>2
    <3> QED
      BY <1>0, <2>2, <2>4, <3>2, <3>3 DEF Posted
  <2> QED
    BY <2>3, <2>4
<1>3. CASE RefillEnd
  BY <1>b, <1>3 DEF RefillEnd, ring, past
<1>4. CASE RxRingFirst
  BY <1>b, <1>4 DEF RxRingFirst, ring, hw, past
<1>5. CASE HarvestBegin
  BY <1>b, <1>5 DEF HarvestBegin, ring, hw, past
<1>6. CASE HarvestDrop \/ InputReturn
  <2>0. ~raced
    BY <1>6 DEF HarvestDrop, InputReturn, past
  <2>1. /\ eng /\ UNCHANGED <<cd, rout, desc>>
        /\ Active(rin', cd, NRX) = Off(cd) - 1
        /\ Active(rin', rout, NRX) = Off(rout) - 1
        /\ Active(rin', rin, NRX) = NRX - 1
        /\ i # rin => Active(rin', i, NRX) = Off(i) - 1 /\ slot'[i] = slot[i]
    BY <1>0, <1>6, <2>0, HarvestMoves
  <2>2. i # rin
    <3>1. ~(NRX - 1 < Off(rout) - 1)
      BY <1>a
    <3> QED
      BY <2>1, <3>1
  <2>3. Off(cd) - 1 <= Off(i) - 1 /\ Off(i) - 1 < Off(rout) - 1
    BY <2>1, <2>2
  <2>4. Off(cd) <= Off(i) /\ Off(i) < Off(rout)
    BY <1>a, <2>3
  <2> QED
    BY <2>0, <2>1, <2>2, <2>4 DEF Posted
<1>7. CASE HarvestDeliver
  <2>1. /\ ipc = "loop" /\ rin # hwpos /\ eng /\ ~raced
        /\ \A x \in RxSlots : x # rin => slot'[x] = slot[x]
        /\ UNCHANGED <<rin, rout, desc, cd>>
    BY <1>0, <1>7 DEF HarvestDeliver, Looping, EmptySlot, hw, past
  <2>2. 0 < Off(cd) /\ Off(rin) = 0
    BY <1>0, <2>1, HarvestOffsets, OffRange
  <2>3. Off(cd) <= Off(i) /\ Off(i) < Off(rout)
    BY <2>1 DEF Off
  <2>4. i # rin
    BY <1>a, <2>2, <2>3
  <2> QED
    BY <2>1, <2>3, <2>4 DEF Posted
<1>9. CASE HarvestEnd
  BY <1>b, <1>9 DEF HarvestEnd, ring, hw, past
<1>10. CASE Up
  <2>1. rin' = 0 /\ rout' = 0
    BY <1>10 DEF Up
  <2>2. Active(0, 0, NRX) = 0 /\ Active(0, i, NRX) \in 0 .. NRX - 1
    BY RingSize, ActiveRange
  <2>3. ~(Active(0, i, NRX) < 0)
    BY <2>2
  <2> QED
    BY <2>1, <2>2, <2>3
<1>11. CASE FatalStop
  BY <1>b, <1>11 DEF FatalStop, ring, hw, past
<1>12. CASE Down
  BY <1>12 DEF Down
<1>13. CASE UNCHANGED vars
  BY <1>b, <1>13 DEF vars, ring, hw, past
<1> QED
  BY <1>1, <1>2, <1>3, <1>4, <1>5, <1>6, <1>7, <1>9, <1>10, <1>11, <1>12, <1>13
     DEF Next, Refill, Harvest

LEMMA WrittenStep ==
  ASSUME TypeOK, HeldBySlot, Ordered, HarvestBehind, Posted, Written, [Next]_vars PROVE Written'
<1> SUFFICES ASSUME eng', ~raced', NEW i \in RxSlots, slot'[i] # None,
                    Active(rin', i, NRX) < Active(rin', cd', NRX)
             PROVE  slot'[i] \in filled'
  BY DEF Written, Off
<1>0. /\ rin \in RxSlots /\ cd \in RxSlots /\ rout \in RxSlots
      /\ slot \in [RxSlots -> Mbufs \cup {None}] /\ desc \in [RxSlots -> Mbufs \cup {None}]
  BY DEF TypeOK
<1>a. /\ Off(cd) \in 0 .. NRX - 1 /\ Off(rout) \in 0 .. NRX - 1 /\ Off(ptr) \in 0 .. NRX - 1
      /\ Off(i) \in 0 .. NRX - 1 /\ NRX \in Nat
  BY <1>0, OffRange, NRXAssumption DEF TypeOK
<1>b. ASSUME UNCHANGED <<rin, slot, cd, eng, raced, filled>> PROVE slot'[i] \in filled'
  BY <1>b DEF Written, Off
<1>1. CASE HwReceive
  <2>1. /\ eng /\ ~raced /\ UNCHANGED <<rin, rout, slot, desc>>
        /\ Active(rin, cd', NRX) = Off(cd) + 1 /\ Off(cd) < Off(ptr) /\ Off(ptr) <= Off(rout)
        /\ filled' = filled \cup ({desc[cd]} \ {None})
    BY <1>1, ReceiveMoves DEF HwReceive, past
  <2>2. CASE i = cd
    <3>1. Off(cd) <= Off(cd) /\ Off(cd) < Off(rout)
      BY <1>a, <2>1
    <3>2. desc[cd] # None /\ slot[cd] = desc[cd]
      BY <1>0, <2>1, <3>1 DEF Posted
    <3> QED
      BY <2>1, <2>2, <3>2
  <2>3. CASE i # cd
    <3>1. Off(i) # Off(cd)
      BY <1>0, <2>3, RingSize, ActiveInjective DEF Off
    <3>2. Off(i) < Off(cd) + 1
      BY <2>1 DEF Off
    <3>3. Off(i) < Off(cd)
      BY <1>a, <3>1, <3>2
    <3> QED
      BY <2>1, <3>3 DEF Written
  <2> QED
    BY <2>2, <2>3
<1>2. CASE RefillSome
  <2>1. PICK m \in Mbufs : RefillOne(m)
    BY <1>2 DEF RefillSome
  <2>2. /\ m # None /\ eng /\ ~raced /\ owner[m] = "free" /\ filled' = filled \ {m}
        /\ slot' = [slot EXCEPT ![rout] = m]
        /\ UNCHANGED <<rin, cd>>
    BY <2>1, RefillMoves
  <2>3. Off(i) < Off(cd) /\ Off(cd) <= Off(ptr) /\ Off(ptr) <= Off(rout)
    BY <2>2 DEF Off, Ordered
  <2>4. Off(i) < Off(rout)
    BY <1>a, <2>3
  <2>5. i # rout /\ slot'[i] = slot[i]
    BY <1>0, <1>a, <2>2, <2>4
  <2>6. slot[i] # m
    BY <2>2, <2>5 DEF HeldBySlot
  <2> QED
    BY <2>2, <2>3, <2>5, <2>6 DEF Written
<1>3. CASE RefillEnd
  BY <1>b, <1>3 DEF RefillEnd, ring, past
<1>4. CASE RxRingFirst
  BY <1>b, <1>4 DEF RxRingFirst, ring, hw, past
<1>5. CASE HarvestBegin
  BY <1>b, <1>5 DEF HarvestBegin, ring, hw, past
<1>6. CASE HarvestDrop \/ InputReturn
  <2>0. ~raced
    BY <1>6 DEF HarvestDrop, InputReturn, past
  <2>1. /\ eng /\ UNCHANGED <<cd, filled>>
        /\ Active(rin', cd, NRX) = Off(cd) - 1
        /\ slot'[rin] = None
        /\ i # rin => Active(rin', i, NRX) = Off(i) - 1 /\ slot'[i] = slot[i]
    BY <1>0, <1>6, <2>0, HarvestMoves
  <2>2. Off(i) - 1 < Off(cd) - 1 /\ slot'[i] = slot[i]
    BY <2>1
  <2>3. Off(i) < Off(cd)
    BY <1>a, <2>2
  <2> QED
    BY <2>0, <2>1, <2>2, <2>3 DEF Written
<1>7. CASE HarvestDeliver
  <2>1. eng /\ ~raced /\ slot'[i] = slot[i] /\ UNCHANGED <<rin, cd, filled>>
    BY <1>0, <1>7 DEF HarvestDeliver, EmptySlot, hw, past
  <2> QED
    BY <2>1 DEF Written, Off
<1>9. CASE HarvestEnd
  BY <1>b, <1>9 DEF HarvestEnd, ring, hw, past
<1>10. CASE Up
  <2>1. rin' = 0 /\ cd' = 0
    BY <1>10 DEF Up
  <2>2. Active(0, 0, NRX) = 0 /\ Active(0, i, NRX) \in 0 .. NRX - 1
    BY RingSize, ActiveRange
  <2>3. ~(Active(0, i, NRX) < 0)
    BY <2>2
  <2> QED
    BY <2>1, <2>2, <2>3
<1>11. CASE FatalStop
  BY <1>b, <1>11 DEF FatalStop, ring, hw, past
<1>12. CASE Down
  BY <1>12 DEF Down
<1>13. CASE UNCHANGED vars
  BY <1>b, <1>13 DEF vars, ring, hw, past
<1> QED
  BY <1>1, <1>2, <1>3, <1>4, <1>5, <1>6, <1>7, <1>9, <1>10, <1>11, <1>12, <1>13
     DEF Next, Refill, Harvest

LEMMA OutsideStep ==
  ASSUME TypeOK, Ordered, HarvestBehind, OutsideEmpty, [Next]_vars PROVE OutsideEmpty'
<1> SUFFICES ASSUME ~raced', ~forgot', NEW i \in RxSlots,
                    Active(rin', rout', NRX) <= Active(rin', i, NRX)
             PROVE  slot'[i] = None
  BY DEF OutsideEmpty, Off
<1>0. /\ rin \in RxSlots /\ rout \in RxSlots /\ slot \in [RxSlots -> Mbufs \cup {None}]
  BY DEF TypeOK
<1>a. Off(rout) \in 0 .. NRX - 1 /\ Off(i) \in 0 .. NRX - 1 /\ NRX \in Nat
  BY <1>0, OffRange, NRXAssumption
<1>b. ASSUME UNCHANGED <<rin, rout, slot, raced, forgot>> PROVE slot'[i] = None
  BY <1>b DEF OutsideEmpty, Off
<1>1. CASE HwReceive
  BY <1>b, <1>1 DEF HwReceive, ring, past
<1>2. CASE RefillSome
  <2>1. PICK m \in Mbufs : RefillOne(m)
    BY <1>2 DEF RefillSome
  <2>2. /\ Active(rin, rout', NRX) = Off(rout) + 1 /\ ~raced /\ ~forgot
        /\ slot' = [slot EXCEPT ![rout] = m] /\ UNCHANGED rin
    BY <2>1, RefillMoves
  <2>3. Off(rout) + 1 <= Off(i)
    BY <2>2 DEF Off
  <2>4. Off(rout) <= Off(i) /\ i # rout
    BY <1>a, <2>3
  <2> QED
    BY <1>0, <2>2, <2>4 DEF OutsideEmpty
<1>3. CASE RefillEnd
  BY <1>b, <1>3 DEF RefillEnd, ring, past
<1>4. CASE RxRingFirst
  BY <1>b, <1>4 DEF RxRingFirst, ring, hw, past
<1>5. CASE HarvestBegin
  BY <1>b, <1>5 DEF HarvestBegin, ring, hw, past
<1>6. CASE HarvestDrop \/ InputReturn
  <2>0. ~raced
    BY <1>6 DEF HarvestDrop, InputReturn, past
  <2>1. /\ ~forgot /\ rout' = rout /\ Active(rin', rout, NRX) = Off(rout) - 1
        /\ slot'[rin] = None
        /\ i # rin => Active(rin', i, NRX) = Off(i) - 1 /\ slot'[i] = slot[i]
    BY <1>0, <1>6, <2>0, HarvestMoves
  <2>2. CASE i = rin
    BY <2>1, <2>2
  <2>3. CASE i # rin
    <3>1. Off(rout) - 1 <= Off(i) - 1
      BY <2>1, <2>3
    <3>2. Off(rout) <= Off(i)
      BY <1>a, <3>1
    <3> QED
      BY <2>0, <2>1, <2>3, <3>2 DEF OutsideEmpty
  <2> QED
    BY <2>2, <2>3
<1>7. CASE HarvestDeliver
  <2>1. ~raced /\ ~forgot /\ slot'[i] \in {slot[i], None} /\ UNCHANGED <<rin, rout>>
    BY <1>0, <1>7 DEF HarvestDeliver, EmptySlot, hw, past
  <2> QED
    BY <2>1 DEF OutsideEmpty, Off
<1>9. CASE HarvestEnd
  BY <1>b, <1>9 DEF HarvestEnd, ring, hw, past
<1>10. CASE Up
  BY <1>10 DEF Up, Held
<1>11. CASE FatalStop
  BY <1>b, <1>11 DEF FatalStop, ring, hw, past
<1>12. CASE Down
  <2>1. ~raced /\ ~forgot /\ slot' = [x \in RxSlots |-> IF x \in InFlight THEN None ELSE slot[x]]
    BY <1>12 DEF Down
  <2>2. CASE i \in InFlight
    BY <2>1, <2>2
  <2>3. CASE i \notin InFlight
    <3>1. ~(Off(i) < Off(rout))
      BY <2>3 DEF InFlight, Window, RxSlots, Off
    <3>2. Off(rout) <= Off(i)
      BY <1>a, <3>1
    <3> QED
      BY <2>1, <2>3, <3>2 DEF OutsideEmpty
  <2> QED
    BY <2>2, <2>3
<1>13. CASE UNCHANGED vars
  BY <1>b, <1>13 DEF vars, ring, hw, past
<1> QED
  BY <1>1, <1>2, <1>3, <1>4, <1>5, <1>6, <1>7, <1>9, <1>10, <1>11, <1>12, <1>13
     DEF Next, Refill, Harvest

-----------------------------------------------------------------------------
(* The theorems.                                                           *)

\* NothingLeaks, mbuf by mbuf.
OwnedIsHeld ==
  ~raced /\ ~forgot =>
    \A m \in Mbufs : owner[m] = "ring" => \E i \in RxSlots : slot[i] = m

LEMMA LeakStep ==
  ASSUME TypeOK, OutsideEmpty, OwnedIsHeld, [Next]_vars PROVE OwnedIsHeld'
<1> SUFFICES ASSUME ~raced', ~forgot', NEW m \in Mbufs, owner'[m] = "ring"
             PROVE  \E i \in RxSlots : slot'[i] = m
  BY DEF OwnedIsHeld
<1>0. /\ rin \in RxSlots /\ rout \in RxSlots /\ slot \in [RxSlots -> Mbufs \cup {None}]
      /\ owner \in [Mbufs -> {"free", "ring", "stack"}] /\ m # None
  BY MbufsAssumption DEF TypeOK
<1>b. ASSUME UNCHANGED <<slot, owner, raced, forgot>>
      PROVE  \E i \in RxSlots : slot'[i] = m
  BY <1>b DEF OwnedIsHeld
<1>1. CASE HwReceive
  BY <1>b, <1>1 DEF HwReceive, ring, past
<1>2. CASE RefillSome
  <2>1. PICK n \in Mbufs : RefillOne(n)
    BY <1>2 DEF RefillSome
  <2>2. /\ ~raced /\ ~forgot /\ slot' = [slot EXCEPT ![rout] = n]
        /\ owner' = [owner EXCEPT ![n] = "ring"]
    BY <2>1, RefillMoves
  <2>3. CASE m = n
    BY <1>0, <2>2, <2>3
  <2>4. CASE m # n
    <3>1. PICK i \in RxSlots : slot[i] = m
      BY <1>0, <2>2, <2>4 DEF OwnedIsHeld
    <3>2. Off(rout) <= Off(rout)
      BY <1>0, OffRange
    <3>3. slot[rout] = None
      BY <1>0, <2>2, <3>2 DEF OutsideEmpty
    <3> QED
      BY <1>0, <2>2, <3>1, <3>3
  <2> QED
    BY <2>3, <2>4
<1>3. CASE RefillEnd
  BY <1>b, <1>3 DEF RefillEnd, ring, past
<1>4. CASE RxRingFirst
  BY <1>b, <1>4 DEF RxRingFirst, ring, past
<1>5. CASE HarvestBegin
  BY <1>b, <1>5 DEF HarvestBegin, ring, past
<1>6. CASE HarvestDrop
  <2>1. ~raced /\ ~forgot /\ m # slot[rin] /\ owner[m] = "ring"
    BY <1>0, <1>6 DEF HarvestDrop, FreeMbuf, past
  <2>2. PICK i \in RxSlots : slot[i] = m
    BY <2>1 DEF OwnedIsHeld
  <2> QED
    BY <1>0, <1>6, <2>1, <2>2 DEF HarvestDrop, EmptySlot
<1>7. CASE HarvestDeliver
  <2>1. ~raced /\ ~forgot /\ m # slot[rin] /\ owner[m] = "ring"
    BY <1>0, <1>7 DEF HarvestDeliver, past
  <2>2. PICK i \in RxSlots : slot[i] = m
    BY <2>1 DEF OwnedIsHeld
  <2> QED
    BY <1>0, <1>7, <2>1, <2>2 DEF HarvestDeliver, EmptySlot
<1>8. CASE InputReturn
  <2>1. ~raced /\ ~forgot /\ owner[m] = "ring" /\ UNCHANGED slot
    BY <1>0, <1>8 DEF InputReturn, past
  <2> QED
    BY <2>1 DEF OwnedIsHeld
<1>9. CASE HarvestEnd
  BY <1>b, <1>9 DEF HarvestEnd, ring, past
<1>10. CASE Up
  BY <1>10 DEF Up, OwnedIsHeld
<1>11. CASE FatalStop
  BY <1>b, <1>11 DEF FatalStop, ring, past
<1>12. CASE Down
  <2>1. ~raced /\ ~forgot /\ owner[m] = "ring" /\ m \notin {slot[i] : i \in InFlight}
    BY <1>0, <1>12 DEF Down
  <2>2. PICK i \in RxSlots : slot[i] = m
    BY <2>1 DEF OwnedIsHeld
  <2> QED
    BY <1>12, <2>1, <2>2 DEF Down
<1>13. CASE UNCHANGED vars
  BY <1>b, <1>13 DEF vars, ring, past
<1> QED
  BY <1>1, <1>2, <1>3, <1>4, <1>5, <1>6, <1>7, <1>8, <1>9, <1>10, <1>11, <1>12, <1>13
     DEF Next, Refill, Harvest

\* The inductive invariant.
RingInv ==
  /\ TypeOK /\ HeldBySlot
  /\ OneHolder /\ Ordered /\ HarvestBehind
  /\ Posted /\ Written /\ OutsideEmpty /\ OwnedIsHeld

LEMMA RingInit == Init => RingInv
<1> SUFFICES ASSUME Init PROVE RingInv
  OBVIOUS
<1>1. TypeOK /\ HeldBySlot
  BY TypeInit, HeldInit
<1>2. OneHolder /\ Ordered /\ HarvestBehind /\ Posted /\ Written
  BY DEF Init, OneHolder, Ordered, HarvestBehind, Posted, Written
<1>3. OutsideEmpty /\ OwnedIsHeld
  BY DEF Init, OutsideEmpty, OwnedIsHeld
<1> QED
  BY <1>1, <1>2, <1>3 DEF RingInv

LEMMA RingStep == RingInv /\ [Next]_vars => RingInv'
<1> SUFFICES ASSUME RingInv, [Next]_vars PROVE RingInv'
  OBVIOUS
<1>1. TypeOK' /\ HeldBySlot'
  BY TypeStep, HeldStep DEF RingInv
<1>2. OneHolder' /\ Ordered' /\ HarvestBehind'
  BY HolderStep, OrderStep, HarvestBehindStep DEF RingInv
<1>3. Posted' /\ Written' /\ OutsideEmpty' /\ OwnedIsHeld'
  BY PostedStep, WrittenStep, OutsideStep, LeakStep DEF RingInv
<1> QED
  BY <1>1, <1>2, <1>3 DEF RingInv

LEMMA RingInvariant == Spec => []RingInv
  BY RingInit, RingStep, PTL DEF Spec

\* Every buffer the engine may write into is in its slot and owned by the ring.
THEOREM DmaSafe == Spec => []DmaIntoOwned
<1>1. RingInv => DmaIntoOwned
  <2> SUFFICES ASSUME RingInv, eng, ~raced, NEW i \in ToFill
               PROVE  desc[i] # None /\ slot[i] = desc[i] /\ owner[desc[i]] = "ring"
    BY DEF DmaIntoOwned
  <2>0. /\ rin \in RxSlots /\ cd \in RxSlots /\ ptr \in RxSlots /\ rout \in RxSlots
    BY DEF RingInv, TypeOK
  <2>1. Off(cd) <= Off(ptr) /\ Off(ptr) <= Off(rout)
    BY DEF RingInv, Ordered
  <2>2. i \in RxSlots /\ Off(cd) <= Off(i) /\ Off(i) < Off(ptr)
    BY <2>0, <2>1, RingSize, WindowOffsets DEF ToFill, Off
  <2>3. Off(i) < Off(rout)
    <3>1. Off(i) \in 0 .. NRX - 1 /\ Off(ptr) \in 0 .. NRX - 1 /\ Off(rout) \in 0 .. NRX - 1
          /\ NRX \in Nat
      BY <2>0, <2>2, OffRange, NRXAssumption
    <3> QED
      BY <2>1, <2>2, <3>1
  <2>4. desc[i] # None /\ slot[i] = desc[i]
    BY <2>2, <2>3 DEF RingInv, Posted
  <2> QED
    BY <2>2, <2>4 DEF RingInv, HeldBySlot
<1> QED
  BY RingInvariant, <1>1, PTL

\* Without a forced re-init and without a stop under a harvest, every mbuf that
\* the ring owns is in one of its slots.
THEOREM NoLeak == Spec => []NothingLeaks
<1>1. RingInv => NothingLeaks
  <2> SUFFICES ASSUME RingInv, ~raced, ~forgot, NEW m \in Mbufs, owner[m] = "ring"
               PROVE  m \in Held
    BY DEF NothingLeaks
  <2>1. PICK i \in RxSlots : slot[i] = m
    BY DEF RingInv, OwnedIsHeld
  <2> QED
    BY <2>1, MbufsAssumption DEF Held
<1> QED
  BY RingInvariant, <1>1, PTL

\* A harvest that nothing slipped into hands net80211 written buffers only.
THEOREM DeliversWritten == Spec => DeliversReceived
<1>1. RingInv /\ [Next]_vars => [HarvestDeliver /\ ~raced => slot[rin] \in filled]_vars
  <2> SUFFICES ASSUME RingInv, HarvestDeliver, ~raced PROVE slot[rin] \in filled
    OBVIOUS
  <2>1. ipc = "loop" /\ rin # hwpos /\ slot[rin] # None
    BY DEF HarvestDeliver, Looping
  <2>2. eng /\ 0 < Off(cd)
    BY <2>1, HarvestOffsets DEF RingInv
  <2>3. rin \in RxSlots /\ Off(rin) = 0
    BY OffRange DEF RingInv, TypeOK
  <2> QED
    BY <2>1, <2>2, <2>3 DEF RingInv, Written
<1> QED
  BY RingInvariant, <1>1, PTL DEF Spec, DeliversReceived

-----------------------------------------------------------------------------
(* The refinement of RxPipe.                                               *)

\* From r_in to r_out, no slot is empty, except the one whose frame is lent.
WindowHeld ==
  eng /\ ~raced =>
    \A i \in RxSlots : Off(i) < Off(rout) /\ (i = rin => Lent = 0) => slot[i] # None

\* net80211 has a frame only while the harvest waits for it.
NoneAbove == ~raced /\ Lent = 0 => \A m \in Mbufs : owner[m] # "stack"

\* A ring whose engine was stopped is empty, and nobody posts to it.
StoppedEmpty == ~eng /\ ~raced => rin = rout /\ ~Refilling

LEMMA WindowHeldStep ==
  ASSUME TypeOK, Ordered, HarvestBehind, WindowHeld, [Next]_vars PROVE WindowHeld'
<1> SUFFICES ASSUME eng', ~raced', NEW i \in RxSlots, i = rin' => Lent' = 0,
                    Active(rin', i, NRX) < Active(rin', rout', NRX)
             PROVE  slot'[i] # None
  BY DEF WindowHeld, Off
<1>0. /\ rin \in RxSlots /\ rout \in RxSlots /\ slot \in [RxSlots -> Mbufs \cup {None}]
  BY DEF TypeOK
<1>a. Off(rout) \in 0 .. NRX - 1 /\ Off(i) \in 0 .. NRX - 1 /\ NRX \in Nat
  BY <1>0, OffRange, NRXAssumption
<1>b. ASSUME UNCHANGED <<rin, rout, slot, eng, raced>>, Lent' = Lent PROVE slot'[i] # None
  BY <1>b DEF WindowHeld, Off
<1>1. CASE HwReceive
  BY <1>b, <1>1 DEF HwReceive, ring, past, pcs, Lent
<1>2. CASE RefillSome
  <2>1. PICK m \in Mbufs : RefillOne(m)
    BY <1>2 DEF RefillSome
  <2>2. /\ Active(rin, rout', NRX) = Off(rout) + 1 /\ m # None /\ eng /\ ~raced
        /\ slot' = [slot EXCEPT ![rout] = m] /\ UNCHANGED <<rin, ipc, delivers>>
    BY <2>1, RefillMoves
  <2>a. Lent' = Lent
    BY <2>2 DEF Lent
  <2>3. CASE i = rout
    BY <1>0, <2>2, <2>3
  <2>4. CASE i # rout
    <3>1. Off(i) # Off(rout)
      BY <1>0, <2>4, RingSize, ActiveInjective DEF Off
    <3>2. Off(i) < Off(rout) + 1
      BY <2>2 DEF Off
    <3>3. Off(i) < Off(rout)
      BY <1>a, <3>1, <3>2
    <3> QED
      BY <1>0, <2>2, <2>a, <2>4, <3>3 DEF WindowHeld
  <2> QED
    BY <2>3, <2>4
<1>3. CASE RefillEnd
  BY <1>b, <1>3 DEF RefillEnd, ring, past, Lent, Refilling
<1>4. CASE RxRingFirst
  BY <1>b, <1>4 DEF RxRingFirst, ring, hw, past, Lent
<1>5. CASE HarvestBegin
  BY <1>b, <1>5 DEF HarvestBegin, ring, hw, past, Lent
<1>6. CASE HarvestDrop \/ InputReturn
  <2>0. ~raced
    BY <1>6 DEF HarvestDrop, InputReturn, past
  <2>1. /\ eng /\ rout' = rout
        /\ Active(rin', rout, NRX) = Off(rout) - 1
        /\ Active(rin', rin, NRX) = NRX - 1
        /\ i # rin => Active(rin', i, NRX) = Off(i) - 1 /\ slot'[i] = slot[i]
    BY <1>0, <1>6, <2>0, HarvestMoves
  <2>2. i # rin
    <3>1. ~(NRX - 1 < Off(rout) - 1)
      BY <1>a
    <3> QED
      BY <2>1, <3>1
  <2>3. Off(i) - 1 < Off(rout) - 1
    BY <2>1, <2>2
  <2>4. Off(i) < Off(rout)
    BY <1>a, <2>3
  <2> QED
    BY <2>0, <2>1, <2>2, <2>4 DEF WindowHeld
<1>7. CASE HarvestDeliver
  <2>1. /\ eng /\ ~raced /\ Lent' = 1
        /\ \A x \in RxSlots : x # rin => slot'[x] = slot[x]
        /\ UNCHANGED <<rin, rout>>
    BY <1>0, <1>7 DEF HarvestDeliver, EmptySlot, hw, past, Lent
  <2>2. i # rin /\ Off(i) < Off(rout)
    BY <2>1 DEF Off
  <2> QED
    BY <2>1, <2>2 DEF WindowHeld
<1>9. CASE HarvestEnd
  BY <1>b, <1>9 DEF HarvestEnd, ring, hw, past, Lent
<1>10. CASE Up
  <2>1. rin' = 0 /\ rout' = 0
    BY <1>10 DEF Up
  <2>2. Active(0, 0, NRX) = 0 /\ Active(0, i, NRX) \in 0 .. NRX - 1
    BY RingSize, ActiveRange
  <2>3. ~(Active(0, i, NRX) < 0)
    BY <2>2
  <2> QED
    BY <2>1, <2>2, <2>3
<1>11. CASE FatalStop
  BY <1>b, <1>11 DEF FatalStop, ring, hw, past, pcs, Lent
<1>12. CASE Down
  BY <1>12 DEF Down
<1>13. CASE UNCHANGED vars
  BY <1>b, <1>13 DEF vars, ring, hw, past, pcs, Lent
<1> QED
  BY <1>1, <1>2, <1>3, <1>4, <1>5, <1>6, <1>7, <1>9, <1>10, <1>11, <1>12, <1>13
     DEF Next, Refill, Harvest

LEMMA NoneAboveStep ==
  ASSUME TypeOK, HarvestBehind, NoneAbove, [Next]_vars PROVE NoneAbove'
<1> SUFFICES ASSUME ~raced', Lent' = 0, NEW m \in Mbufs PROVE owner'[m] # "stack"
  BY DEF NoneAbove
<1>0. rin \in RxSlots /\ slot \in [RxSlots -> Mbufs \cup {None}]
      /\ owner \in [Mbufs -> {"free", "ring", "stack"}]
  BY DEF TypeOK
<1>b. ASSUME UNCHANGED <<owner, raced>>, Lent' = Lent PROVE owner'[m] # "stack"
  BY <1>b DEF NoneAbove
<1>1. CASE HwReceive
  BY <1>b, <1>1 DEF HwReceive, past, pcs, Lent
<1>2. CASE RefillSome
  BY <1>0, <1>2 DEF RefillSome, RefillOne, past, pcs, Lent, NoneAbove
<1>3. CASE RefillEnd
  BY <1>b, <1>3 DEF RefillEnd, past, Lent, Refilling
<1>4. CASE RxRingFirst
  BY <1>b, <1>4 DEF RxRingFirst, past, Lent
<1>5. CASE HarvestBegin
  BY <1>b, <1>5 DEF HarvestBegin, past, Lent
<1>6. CASE HarvestDrop
  BY <1>0, <1>6 DEF HarvestDrop, FreeMbuf, Looping, past, pcs, Lent, NoneAbove
<1>7. CASE HarvestDeliver
  BY <1>7 DEF HarvestDeliver, Lent
<1>8. CASE InputReturn
  BY <1>0, <1>8 DEF InputReturn
<1>9. CASE HarvestEnd
  BY <1>b, <1>9 DEF HarvestEnd, past, Lent
<1>10. CASE Up
  BY <1>10 DEF Up, LockFree, Lent, NoneAbove
<1>11. CASE FatalStop
  BY <1>b, <1>11 DEF FatalStop, past, pcs, Lent
<1>12. CASE Down
  <2>1. ~raced /\ ipc # "input" /\ owner'[m] \in {owner[m], "free"}
    BY <1>0, <1>12 DEF Down
  <2> QED
    BY <2>1 DEF NoneAbove, Lent
<1>13. CASE UNCHANGED vars
  BY <1>b, <1>13 DEF vars, past, pcs, Lent
<1> QED
  BY <1>1, <1>2, <1>3, <1>4, <1>5, <1>6, <1>7, <1>8, <1>9, <1>10, <1>11, <1>12, <1>13
     DEF Next, Refill, Harvest

LEMMA StoppedStep ==
  ASSUME HarvestBehind, StoppedEmpty, [Next]_vars PROVE StoppedEmpty'
<1> SUFFICES ASSUME ~eng', ~raced' PROVE rin' = rout' /\ ~Refilling'
  BY DEF StoppedEmpty
<1>b. ASSUME UNCHANGED <<rin, rout, eng, raced>>, Refilling' => Refilling
      PROVE  rin' = rout' /\ ~Refilling'
  BY <1>b DEF StoppedEmpty
<1>1. CASE HwReceive
  BY <1>1 DEF HwReceive
<1>2. CASE Refill
  BY <1>2 DEF Refill, RefillSome, RefillOne, RefillEnd, StoppedEmpty, hw, past
<1>4. CASE RxRingFirst
  BY <1>4 DEF RxRingFirst, hw
<1>5. CASE HarvestBegin
  BY <1>b, <1>5 DEF HarvestBegin, ring, hw, past, Refilling
<1>6. CASE Harvest
  BY <1>6 DEF Harvest, HarvestDrop, HarvestDeliver, InputReturn, HarvestEnd, Looping,
              HarvestBehind, hw, past
<1>10. CASE Up
  BY <1>10 DEF Up
<1>11. CASE FatalStop
  BY <1>b, <1>11 DEF FatalStop, ring, hw, past, pcs, Refilling
<1>12. CASE Down
  BY <1>12 DEF Down, LockFree, pcs, Refilling
<1>13. CASE UNCHANGED vars
  BY <1>b, <1>13 DEF vars, ring, hw, past, pcs, Refilling
<1> QED
  BY <1>1, <1>2, <1>4, <1>5, <1>6, <1>10, <1>11, <1>12, <1>13 DEF Next

\* With what the refinement rests on.
QueueInv == RingInv /\ WindowHeld /\ NoneAbove /\ StoppedEmpty

LEMMA QueueInvInit == Init => QueueInv
<1> SUFFICES ASSUME Init PROVE QueueInv
  OBVIOUS
<1>1. RingInv
  BY RingInit
<1>2. WindowHeld /\ NoneAbove /\ StoppedEmpty
  BY DEF Init, WindowHeld, NoneAbove, StoppedEmpty, Refilling
<1> QED
  BY <1>1, <1>2 DEF QueueInv

LEMMA QueueInvStep == QueueInv /\ [Next]_vars => QueueInv'
<1> SUFFICES ASSUME QueueInv, [Next]_vars PROVE QueueInv'
  OBVIOUS
<1>1. RingInv'
  BY RingStep DEF QueueInv
<1>2. WindowHeld' /\ NoneAbove' /\ StoppedEmpty'
  BY WindowHeldStep, NoneAboveStep, StoppedStep DEF QueueInv, RingInv
<1> QED
  BY <1>1, <1>2 DEF QueueInv

\* The length of the queue, and of what was received of it.
LEMMA WaitingIs ==
  ASSUME QueueInv, ~raced
  PROVE  /\ Lent \in {0, 1} /\ Off(rout) \in 0 .. NRX - 1
         /\ Waiting = Off(rout) - Lent /\ Waiting \in 0 .. NRX - 1
         /\ Received \in 0 .. Waiting
         /\ eng => Received = Off(cd) - Lent
         /\ rin \in RxSlots /\ rout \in RxSlots /\ cd \in RxSlots
<1>1. /\ rin \in RxSlots /\ rout \in RxSlots /\ cd \in RxSlots /\ ptr \in RxSlots
  BY DEF QueueInv, RingInv, TypeOK
<1>2. /\ Off(rout) \in 0 .. NRX - 1 /\ Off(cd) \in 0 .. NRX - 1 /\ Off(ptr) \in 0 .. NRX - 1
      /\ NRX \in Nat
  BY <1>1, OffRange, NRXAssumption
<1>3. Waiting = Off(rout) - Lent /\ (eng => Received = Off(cd) - Lent) /\ (~eng => Received = 0)
  BY DEF Waiting, Received, Off
<1>4. CASE Lent = 0
  <2>1. eng => Off(cd) <= Off(ptr) /\ Off(ptr) <= Off(rout)
    BY DEF QueueInv, RingInv, Ordered
  <2> QED
    BY <1>1, <1>2, <1>3, <1>4, <2>1
<1>5. CASE Lent # 0
  <2>1. Lent = 1 /\ ipc = "input" /\ delivers
    BY <1>5 DEF Lent
  <2>2. rin # hwpos
    BY <2>1 DEF QueueInv, RingInv, HarvestBehind
  <2>3. eng /\ 0 < Off(cd) /\ 0 < Off(rout)
    BY <2>1, <2>2, HarvestOffsets DEF QueueInv, RingInv
  <2>4. Off(cd) <= Off(ptr) /\ Off(ptr) <= Off(rout)
    BY <2>3 DEF QueueInv, RingInv, Ordered
  <2> QED
    BY <1>1, <1>2, <1>3, <2>1, <2>3, <2>4
<1> QED
  BY <1>4, <1>5

\* The slot d before r_out.
LEMMA QueueSlot ==
  ASSUME QueueInv, ~raced, NEW d \in 1 .. Waiting
  PROVE  /\ Behind(rout, d, NRX) \in RxSlots
         /\ Off(Behind(rout, d, NRX)) = Off(rout) - d
         /\ Behind(rout, d, NRX) = rin <=> d = Off(rout)
<1> DEFINE b == Behind(rout, d, NRX)
<1>1. /\ Lent \in {0, 1} /\ Off(rout) \in 0 .. NRX - 1 /\ Waiting = Off(rout) - Lent
      /\ rin \in RxSlots /\ rout \in RxSlots
  BY WaitingIs
<1>2. d \in 0 .. NRX - 1 /\ d <= Off(rout) /\ d >= 1
  BY <1>1, NRXAssumption
<1>3. b \in RxSlots /\ Off(b) = Off(rout) - d
  BY <1>1, <1>2, RingSize, BehindOffset DEF Off
<1>4. Off(b) = 0 <=> b = rin
  BY <1>1, <1>3, OffRange
<1> QED
  BY <1>1, <1>2, <1>3, <1>4

\* Its buffers.
LEMMA QueueIs ==
  ASSUME QueueInv, ~raced
  PROVE  /\ Queue \in Seq(Mbufs) /\ Len(Queue) = Waiting /\ DOMAIN Queue = 1 .. Waiting
         /\ \A k \in 1 .. Waiting : /\ Queue[k] = slot[Behind(rout, Waiting + 1 - k, NRX)]
                                    /\ owner[Queue[k]] = "ring"
<1>1. Lent \in {0, 1} /\ Off(rout) \in 0 .. NRX - 1 /\ Waiting = Off(rout) - Lent /\ Waiting \in Nat
  BY WaitingIs
<1>2. ASSUME NEW k \in 1 .. Waiting
      PROVE  LET b == Behind(rout, Waiting + 1 - k, NRX)
             IN slot[b] \in Mbufs /\ owner[slot[b]] = "ring"
  <2> DEFINE d == Waiting + 1 - k
             b == Behind(rout, d, NRX)
  <2>1. d \in 1 .. Waiting
    BY <1>1
  <2> HIDE DEF d
  <2>2. b \in RxSlots /\ Off(b) = Off(rout) - d /\ (b = rin <=> d = Off(rout))
    BY <2>1, QueueSlot
  <2> HIDE DEF b
  <2>3. Off(b) < Off(rout) /\ (b = rin => Lent = 0)
    BY <1>1, <2>1, <2>2
  <2>4. eng
    <3>1. rin # rout
      BY <1>1, <2>1, OffRange DEF QueueInv, RingInv, TypeOK
    <3> QED
      BY <3>1 DEF QueueInv, StoppedEmpty
  <2>5. slot[b] # None
    BY <2>2, <2>3, <2>4 DEF QueueInv, WindowHeld
  <2>6. slot[b] \in Mbufs /\ owner[slot[b]] = "ring"
    BY <2>2, <2>5 DEF QueueInv, RingInv, TypeOK, HeldBySlot
  <2> QED
    BY <2>6 DEF b, d
<1>3. Queue \in [1 .. Waiting -> Mbufs]
  BY <1>2 DEF Queue
<1>4. \A k \in 1 .. Waiting : Queue[k] = slot[Behind(rout, Waiting + 1 - k, NRX)]
  BY DEF Queue
<1> QED
  BY <1>1, <1>2, <1>3, <1>4

\* An mbuf that the ring does not own is not in the queue.
LEMMA NotQueued ==
  ASSUME QueueInv, ~raced, NEW m \in Mbufs, owner[m] # "ring"
  PROVE  m \notin {Queue[k] : k \in DOMAIN Queue}
  BY QueueIs

\* A harvest shortens the queue by its head.
LEMMA QueueShortens ==
  ASSUME QueueInv, ~raced, Lent = 0, Waiting > 0, rout' = rout, Waiting' = Waiting - 1,
         \A x \in RxSlots : x # rin => slot'[x] = slot[x]
  PROVE  Head(Queue) = slot[rin] /\ Queue' = Tail(Queue)
<1>1. Off(rout) \in 0 .. NRX - 1 /\ Waiting = Off(rout) /\ Waiting \in Nat
  BY WaitingIs
<1>2. /\ Queue \in Seq(Mbufs) /\ Len(Queue) = Waiting /\ Waiting \in Nat \ {0}
      /\ \A k \in 1 .. Waiting : Queue[k] = slot[Behind(rout, Waiting + 1 - k, NRX)]
  BY <1>1, QueueIs
<1>3. Head(Queue) = slot[rin]
  <2>1. Queue # <<>> /\ Head(Queue) = Queue[1]
    BY <1>2
  <2>2. 1 \in 1 .. Waiting /\ Waiting \in 1 .. Waiting /\ Waiting + 1 - 1 = Waiting
    BY <1>2
  <2>3. Behind(rout, Waiting, NRX) = rin
    BY <1>1, <2>2, QueueSlot
  <2>4. Queue[1] = slot[Behind(rout, Waiting, NRX)]
    BY <1>2, <2>2
  <2> QED
    BY <2>1, <2>3, <2>4
<1>4. Queue' = [k \in 1 .. Waiting - 1 |-> slot'[Behind(rout, Waiting - 1 + 1 - k, NRX)]]
  BY DEF Queue
<1>5. ASSUME NEW k \in 1 .. Waiting - 1
      PROVE  slot'[Behind(rout, Waiting - 1 + 1 - k, NRX)] = Queue[k + 1]
  <2> DEFINE d == Waiting - k
  <2>1. /\ d \in 1 .. Waiting /\ d # Off(rout) /\ Waiting - 1 + 1 - k = d
        /\ Waiting + 1 - (k + 1) = d /\ k + 1 \in 1 .. Waiting
    BY <1>1, <1>2
  <2> HIDE DEF d
  <2>2. Behind(rout, d, NRX) \in RxSlots /\ Behind(rout, d, NRX) # rin
    BY <2>1, QueueSlot
  <2>3. slot'[Behind(rout, d, NRX)] = slot[Behind(rout, d, NRX)]
    BY <2>2
  <2>4. Queue[k + 1] = slot[Behind(rout, d, NRX)]
    BY <1>2, <2>1
  <2> QED
    BY <2>1, <2>3, <2>4
<1>6. Queue' = [k \in 1 .. Waiting - 1 |-> Queue[k + 1]]
  BY <1>4, <1>5
<1> DEFINE short == [k \in 1 .. Waiting - 1 |-> Queue[k + 1]]
<1>7. short \in Seq(Mbufs) /\ Len(short) = Waiting - 1
  <2>1. \A k \in 1 .. Waiting - 1 : Queue[k + 1] \in Mbufs
    BY <1>2
  <2>2. short \in [1 .. Waiting - 1 -> Mbufs] /\ Waiting - 1 \in Nat
    BY <1>2, <2>1
  <2> HIDE DEF short
  <2> QED
    BY <2>2
<1>8. /\ Tail(Queue) \in Seq(Mbufs) /\ Len(Tail(Queue)) = Waiting - 1
      /\ \A k \in 1 .. Waiting - 1 : Tail(Queue)[k] = Queue[k + 1]
  BY <1>2
<1>9. Tail(Queue) = short
  <2>1. \A k \in 1 .. Len(short) : short[k] = Tail(Queue)[k]
    BY <1>7, <1>8
  <2> QED
    BY <1>7, <1>8, <2>1, SeqEqual
<1> QED
  BY <1>3, <1>6, <1>9

\* A refill appends to it.
LEMMA QueueAppends ==
  ASSUME QueueInv, ~raced, Lent = 0, NEW m \in Mbufs, RefillOne(m)
  PROVE  Len(Queue) < NRX - 1 /\ Queue' = Append(Queue, m) /\ Lent' = 0 /\ raced' = raced
<1>1. /\ Off(rout) \in 0 .. NRX - 1 /\ Waiting = Off(rout) /\ Waiting \in Nat
      /\ rin \in RxSlots /\ rout \in RxSlots /\ NRX \in Nat \ {0}
  BY WaitingIs, RingSize
<1>2. /\ Active(rin, rout', NRX) = Off(rout) + 1 /\ slot' = [slot EXCEPT ![rout] = m]
      /\ rin' = rin /\ raced' = raced /\ Lent' = 0
  BY RefillMoves DEF QueueInv, RingInv, Lent
<1>3. ~Full /\ rout' = Adv(rout, NRX)
  BY DEF RefillOne
<1>4. Waiting < NRX - 1
  BY <1>1, <1>3 DEF Full, Off
<1>5. Waiting' = Waiting + 1
  BY <1>1, <1>2 DEF Waiting
<1>6. /\ Queue \in Seq(Mbufs) /\ Len(Queue) = Waiting
      /\ \A k \in 1 .. Waiting : Queue[k] = slot[Behind(rout, Waiting + 1 - k, NRX)]
  BY QueueIs
<1>7. ASSUME NEW d \in 0 .. Waiting PROVE Behind(rout', d + 1, NRX) = Behind(rout, d, NRX)
  <2>1. d \in 0 .. NRX - 2
    BY <1>1, <1>4
  <2> QED
    BY <1>1, <1>3, <2>1, RingSize, BehindAdvances
<1>8. Behind(rout, 0, NRX) = rout
  BY <1>1, RingSize, BehindIs DEF RxSlots, Slots
<1>9. Queue' = [k \in 1 .. Waiting + 1 |-> slot'[Behind(rout', Waiting + 1 + 1 - k, NRX)]]
  BY <1>5 DEF Queue
<1>10. ASSUME NEW k \in 1 .. Waiting
       PROVE  slot'[Behind(rout', Waiting + 1 + 1 - k, NRX)] = Queue[k]
  <2> DEFINE d == Waiting + 1 - k
  <2>1. d \in 1 .. Waiting /\ d \in 0 .. Waiting /\ Waiting + 1 + 1 - k = d + 1
    BY <1>1
  <2>2. Queue[k] = slot[Behind(rout, d, NRX)]
    BY <1>6
  <2> HIDE DEF d
  <2>3. Behind(rout, d, NRX) \in RxSlots /\ Off(Behind(rout, d, NRX)) = Off(rout) - d
    BY <2>1, QueueSlot
  <2>4. Behind(rout, d, NRX) # rout
    BY <1>1, <2>1, <2>3
  <2>5. slot'[Behind(rout, d, NRX)] = slot[Behind(rout, d, NRX)]
    BY <1>2, <2>3, <2>4 DEF QueueInv, RingInv, TypeOK
  <2> QED
    BY <1>7, <2>1, <2>2, <2>5
<1>11. slot'[Behind(rout', Waiting + 1 + 1 - (Waiting + 1), NRX)] = m
  <2>1. Waiting + 1 + 1 - (Waiting + 1) = 0 + 1 /\ 0 \in 0 .. Waiting
    BY <1>1
  <2>2. Behind(rout', 0 + 1, NRX) = rout
    BY <1>7, <1>8, <2>1
  <2>3. slot'[rout] = m
    BY <1>1, <1>2 DEF QueueInv, RingInv, TypeOK
  <2> QED
    BY <2>1, <2>2, <2>3
<1>12. Queue' = [k \in 1 .. Waiting + 1 |-> IF k = Waiting + 1 THEN m ELSE Queue[k]]
  <2>1. \A k \in 1 .. Waiting + 1 : k = Waiting + 1 \/ k \in 1 .. Waiting
    BY <1>1
  <2>2. \A k \in 1 .. Waiting + 1 : slot'[Behind(rout', Waiting + 1 + 1 - k, NRX)]
                                      = IF k = Waiting + 1 THEN m ELSE Queue[k]
    BY <1>1, <1>10, <1>11, <2>1
  <2> QED
    BY <1>9, <2>2
<1> DEFINE long == [k \in 1 .. Waiting + 1 |-> IF k = Waiting + 1 THEN m ELSE Queue[k]]
<1>13. long \in Seq(Mbufs) /\ Len(long) = Waiting + 1
  <2>1. \A k \in 1 .. Waiting + 1 : long[k] \in Mbufs
    BY <1>1, <1>6
  <2>2. long \in [1 .. Waiting + 1 -> Mbufs] /\ Waiting + 1 \in Nat
    BY <1>1, <2>1
  <2> QED
    BY <2>2
<1>14. /\ Append(Queue, m) \in Seq(Mbufs) /\ Len(Append(Queue, m)) = Waiting + 1
       /\ \A k \in 1 .. Waiting : Append(Queue, m)[k] = Queue[k]
       /\ Append(Queue, m)[Waiting + 1] = m
  BY <1>6, AppendProperties
<1>15. Append(Queue, m) = long
  <2>1. \A k \in 1 .. Len(long) : long[k] = Append(Queue, m)[k]
    BY <1>1, <1>13, <1>14
  <2> QED
    BY <1>13, <1>14, <2>1, SeqEqual
<1> QED
  BY <1>2, <1>4, <1>6, <1>12, <1>15

\* Every step of the ring is one of the pipe, or none.
LEMMA QueueStep ==
  ASSUME QueueInv, QueueInv', [Next]_vars PROVE [Pipe!PipeNext]_(Pipe!pvars)
<1>a. ASSUME UNCHANGED <<rin, rout, slot, cd, eng, raced, owner>>, Lent' = Lent
      PROVE  UNCHANGED Pipe!pvars
  <2>1. Waiting' = Waiting
    BY <1>a DEF Waiting
  <2> QED
    BY <1>a, <2>1 DEF Pipe!pvars, Queue, Received, Passed
<1>b. ASSUME raced, raced' PROVE UNCHANGED Pipe!pvars
  <2>1. Queue = <<>> /\ Received = 0 /\ Passed = {}
    BY <1>b DEF Queue, Waiting, Received, Passed
  <2>2. Queue' = <<>> /\ Received' = 0 /\ Passed' = {}
    BY <1>b DEF Queue, Waiting, Received, Passed
  <2> QED
    BY <2>1, <2>2 DEF Pipe!pvars
<1>c. ASSUME UNCHANGED past, ~(UNCHANGED Pipe!pvars) PROVE ~raced /\ ~raced'
  BY <1>b, <1>c DEF past
<1>e. (Lent = 0 => Passed = {}) /\ (Lent' = 0 => Passed' = {})
  BY DEF QueueInv, NoneAbove, Passed
<1>0. rin \in RxSlots /\ slot \in [RxSlots -> Mbufs \cup {None}]
      /\ owner \in [Mbufs -> {"free", "ring", "stack"}]
  BY DEF QueueInv, RingInv, TypeOK
<1>g. Off(cd) \in Nat /\ Off(rout) \in Nat
  <2>1. cd \in RxSlots /\ rout \in RxSlots
    BY DEF QueueInv, RingInv, TypeOK
  <2> QED
    BY <1>0, <2>1, OffRange
<1>1. CASE HwReceive
  <2>0. UNCHANGED past
    BY <1>1 DEF HwReceive
  <2>1. SUFFICES ASSUME ~raced, ~raced' PROVE Pipe!Receive
    BY <1>c, <2>0 DEF Pipe!PipeNext
  <2>2. /\ eng /\ Off(cd) < Off(ptr) /\ Off(ptr) <= Off(rout) /\ Active(rin, cd', NRX) = Off(cd) + 1
        /\ UNCHANGED <<rin, rout, slot, eng, raced, owner, ipc, delivers>>
    BY <1>1, <2>1, ReceiveMoves DEF QueueInv, RingInv, HwReceive
  <2>3. Lent' = Lent /\ Waiting' = Waiting
    BY <2>2 DEF Lent, Waiting
  <2>4. /\ Waiting = Off(rout) - Lent /\ Waiting \in Nat /\ Received = Off(cd) - Lent
        /\ Off(rout) \in Nat /\ Lent \in {0, 1}
    BY <2>1, <2>2, WaitingIs
  <2>5. Off(cd) \in Nat /\ Off(ptr) \in Nat
    <3>1. rin \in RxSlots /\ cd \in RxSlots /\ ptr \in RxSlots
      BY DEF QueueInv, RingInv, TypeOK
    <3> QED
      BY <3>1, OffRange
  <2>6. Received' = Off(cd) + 1 - Lent
    <3>0. ~(raced' \/ ~eng')
      BY <2>1, <2>2, Zenon
    <3>1. Received' = Active(rin', cd', NRX) - Lent'
      BY <3>0, Zenon DEF Received
    <3>2. rin' = rin /\ Lent' = Lent
      BY <2>2, <2>3
    <3>3. Active(rin', cd', NRX) = Off(cd) + 1
      BY <2>2, <3>2
    <3>4. Active(rin', cd', NRX) - Lent' = Off(cd) + 1 - Lent
      BY <2>4, <2>5, <3>2, <3>3
    <3> QED
      BY <3>1, <3>4, Zenon
  <2>7. Received < Waiting /\ Received' = Received + 1
    BY <2>2, <2>4, <2>5, <2>6
  <2>8. Queue' = Queue /\ Passed' = Passed
    BY <2>2, <2>3 DEF Queue, Passed
  <2>9. Len(Queue) = Waiting
    BY <2>1, QueueIs
  <2> QED
    BY <2>7, <2>8, <2>9 DEF Pipe!Receive
<1>2. CASE RefillSome
  <2>1. PICK m \in Mbufs : RefillOne(m)
    BY <1>2 DEF RefillSome
  <2>2. UNCHANGED past
    BY <2>1 DEF RefillOne
  <2>3. SUFFICES ASSUME ~raced, ~raced' PROVE Pipe!Post(m)
    BY <1>c, <2>2 DEF Pipe!PipeNext
  <2>4. Lent = 0
    BY <2>1, <2>3 DEF RefillOne, Refilling, Lent, QueueInv, RingInv, HarvestBehind
  <2>5. Len(Queue) < NRX - 1 /\ Queue' = Append(Queue, m) /\ Lent' = 0
    BY <2>1, <2>3, <2>4, QueueAppends
  <2>6. /\ UNCHANGED <<rin, cd, eng, raced>> /\ owner[m] = "free"
        /\ owner' = [owner EXCEPT ![m] = "ring"]
    BY <2>1, RefillMoves DEF QueueInv, RingInv
  <2>7. m \notin {Queue[k] : k \in DOMAIN Queue}
    BY <2>3, <2>6, NotQueued
  <2>8. Passed = {} /\ Passed' = {}
    BY <1>e, <2>4, <2>5
  <2>9. Received' = Received
    BY <2>4, <2>5, <2>6 DEF Received
  <2> QED
    BY <2>5, <2>7, <2>8, <2>9 DEF Pipe!Post
<1>3. CASE RefillEnd
  BY <1>a, <1>3 DEF RefillEnd, ring, past, Lent, Refilling
<1>4. CASE RxRingFirst
  BY <1>a, <1>4 DEF RxRingFirst, ring, hw, past, Lent
<1>5. CASE HarvestBegin
  BY <1>a, <1>5 DEF HarvestBegin, ring, hw, past, Lent
<1>6. CASE HarvestDrop
  <2>0. UNCHANGED past
    BY <1>6 DEF HarvestDrop
  <2>1. SUFFICES ASSUME ~raced, ~raced' PROVE Pipe!Drop
    BY <1>c, <2>0 DEF Pipe!PipeNext
  <2>2. Lent = 0 /\ Lent' = 0
    BY <1>6 DEF HarvestDrop, Looping, pcs, Lent
  <2>3. /\ eng /\ rin # cd /\ rin # rout
        /\ \A x \in RxSlots : x # rin => Active(rin', x, NRX) = Off(x) - 1 /\ slot'[x] = slot[x]
        /\ UNCHANGED <<cd, rout, eng, raced>>
    BY <1>6, <2>1, HarvestMoves DEF QueueInv, RingInv
  <2>4. /\ Waiting = Off(rout) /\ Received = Off(cd) /\ Waiting \in Nat /\ Received \in Nat
        /\ rout \in RxSlots /\ cd \in RxSlots
    BY <1>g, <2>1, <2>2, <2>3, WaitingIs
  <2>5. Waiting > 0 /\ Received > 0
    BY <1>0, <2>3, <2>4, OffRange
  <2>6. Waiting' = Waiting - 1 /\ Received' = Received - 1
    BY <2>1, <2>2, <2>3, <2>4 DEF Waiting, Received
  <2>7. Queue' = Tail(Queue)
    BY <2>1, <2>2, <2>3, <2>5, <2>6, QueueShortens
  <2>8. Passed = {} /\ Passed' = {}
    BY <1>e, <2>2
  <2> QED
    BY <2>5, <2>6, <2>7, <2>8 DEF Pipe!Drop, Pipe!Take
<1>7. CASE HarvestDeliver
  <2>0. UNCHANGED past
    BY <1>7 DEF HarvestDeliver
  <2>1. SUFFICES ASSUME ~raced, ~raced' PROVE Pipe!Deliver
    BY <1>c, <2>0 DEF Pipe!PipeNext
  <2>2. /\ Lent = 0 /\ Lent' = 1 /\ UNCHANGED <<rin, rout, cd, eng, raced>>
        /\ ipc = "loop" /\ rin # hwpos /\ slot[rin] # None
        /\ \A x \in RxSlots : x # rin => slot'[x] = slot[x]
        /\ owner' = [owner EXCEPT ![slot[rin]] = "stack"]
    BY <1>0, <1>7 DEF HarvestDeliver, Looping, EmptySlot, hw, past, Lent
  <2>3. eng /\ 0 < Off(cd) /\ 0 < Off(rout)
    BY <2>1, <2>2, HarvestOffsets DEF QueueInv, RingInv
  <2>4. Waiting = Off(rout) /\ Received = Off(cd) /\ Waiting \in Nat /\ Received \in Nat
    BY <1>g, <2>1, <2>2, <2>3, WaitingIs
  <2>5. Waiting' = Waiting - 1 /\ Received' = Received - 1
    BY <2>1, <2>2, <2>3, <2>4 DEF Waiting, Received, Off
  <2>6. Head(Queue) = slot[rin] /\ Queue' = Tail(Queue)
    BY <2>1, <2>2, <2>3, <2>4, <2>5, QueueShortens
  <2>7. Passed = {}
    BY <1>e, <2>2
  <2>8. Passed' = {slot[rin]}
    <3>1. slot[rin] \in Mbufs /\ \A m \in Mbufs : owner[m] # "stack"
      BY <1>0, <2>1, <2>2 DEF QueueInv, NoneAbove
    <3> QED
      BY <1>0, <2>1, <2>2, <3>1 DEF Passed
  <2> QED
    BY <2>3, <2>4, <2>5, <2>6, <2>7, <2>8 DEF Pipe!Deliver, Pipe!Take
<1>8. CASE InputReturn
  <2>0. UNCHANGED past
    BY <1>8 DEF InputReturn
  <2>1. SUFFICES ASSUME ~raced, ~raced' PROVE Pipe!Return
    BY <1>c, <2>0 DEF Pipe!PipeNext
  <2>2. Lent = 1 /\ Lent' = 0 /\ UNCHANGED slot
    BY <1>8 DEF InputReturn, Lent
  <2>3. /\ eng /\ rin # cd /\ rin # rout
        /\ \A x \in RxSlots : x # rin => Active(rin', x, NRX) = Off(x) - 1
        /\ UNCHANGED <<cd, rout, eng, raced>>
    BY <1>8, <2>1, HarvestMoves DEF QueueInv, RingInv
  <2>4. Waiting = Off(rout) - 1 /\ Received = Off(cd) - 1 /\ rout \in RxSlots /\ cd \in RxSlots
        /\ Waiting \in Nat /\ Received \in Nat
    BY <1>g, <2>1, <2>2, <2>3, WaitingIs
  <2>5. Waiting' = Waiting /\ Received' = Received
    BY <2>1, <2>2, <2>3, <2>4 DEF Waiting, Received
  <2>6. Queue' = Queue
    BY <2>2, <2>3, <2>5 DEF Queue
  <2>7. Passed' = {}
    BY <1>e, <2>2
  <2> QED
    BY <2>5, <2>6, <2>7 DEF Pipe!Return
<1>9. CASE HarvestEnd
  BY <1>a, <1>9 DEF HarvestEnd, ring, hw, past, Lent
<1>d. ASSUME rin' = rout', ~raced' => Lent' = 0, ~raced' => Received' = 0 PROVE Pipe!Restart
  <2>1. rin' \in RxSlots /\ rout' \in RxSlots
    BY DEF QueueInv, RingInv, TypeOK
  <2>2. Active(rin', rout', NRX) = 0
    BY <1>d, <2>1, RingSize, ActiveRange
  <2>3. Waiting' = 0
    BY <1>d, <2>2 DEF Waiting
  <2>4. Queue' = <<>>
    BY <2>3 DEF Queue
  <2>5. Received' = 0 /\ Passed' = {}
    <3>1. CASE raced'
      BY <3>1 DEF Received, Passed
    <3>2. CASE ~raced'
      BY <1>d, <1>e, <3>2
    <3> QED
      BY <3>1, <3>2
  <2> QED
    BY <2>4, <2>5 DEF Pipe!Restart
<1>10. CASE Up
  <2>1. /\ rin' = 0 /\ rout' = 0 /\ cd' = 0
        /\ ipc' = ipc /\ (~raced' => ipc # "input")
    BY <1>10 DEF Up
  <2>2. Active(0, 0, NRX) = 0
    BY RingSize, ActiveRange
  <2>3. ~raced' => Lent' = 0
    BY <2>1 DEF Lent
  <2>4. ~raced' => Received' = 0
    BY <2>1, <2>2, <2>3 DEF Received
  <2>5. Pipe!Restart
    BY <1>d, <2>1, <2>3, <2>4
  <2> QED
    BY <2>5 DEF Pipe!PipeNext
<1>11. CASE FatalStop
  BY <1>a, <1>11 DEF FatalStop, ring, hw, past, pcs, Lent
<1>12. CASE Down
  <2>1. /\ rin' = rout' /\ ~eng' /\ (~raced' => ipc # "input") /\ ipc' = ipc
    BY <1>12 DEF Down, pcs
  <2>2. (~raced' => Lent' = 0) /\ Received' = 0
    BY <2>1 DEF Lent, Received
  <2>3. Pipe!Restart
    BY <1>d, <2>1, <2>2
  <2> QED
    BY <2>3 DEF Pipe!PipeNext
<1>13. CASE UNCHANGED vars
  BY <1>a, <1>13 DEF vars, ring, hw, past, pcs, Lent
<1> QED
  BY <1>1, <1>2, <1>3, <1>4, <1>5, <1>6, <1>7, <1>8, <1>9, <1>10, <1>11, <1>12, <1>13
     DEF Next, Refill, Harvest

LEMMA QueueStart == Init => Pipe!PipeInit
<1> SUFFICES ASSUME Init PROVE Queue = <<>> /\ Received = 0 /\ Passed = {}
  BY DEF Pipe!PipeInit
<1>1. rin = 0 /\ rout = 0 /\ ~eng /\ ipc = "idle" /\ ~raced /\ owner = [m \in Mbufs |-> "free"]
  BY DEF Init
<1>2. Active(0, 0, NRX) = 0
  BY RingSize, ActiveRange
<1>3. Waiting = 0
  BY <1>1, <1>2 DEF Waiting, Lent
<1>4. Queue = <<>>
  BY <1>3 DEF Queue
<1> QED
  BY <1>1, <1>4 DEF Received, Passed

\* The receive ring implements RxPipe: net80211 gets the buffers in the order in
\* which they were posted and filled, each once and none left out, until a stop
\* or a re-init slips into a harvest.
THEOREM RxImplementsPipe == Spec => ImplementsPipe
<1>1. Init => QueueInv
  BY QueueInvInit
<1>2. QueueInv /\ [Next]_vars => QueueInv'
  BY QueueInvStep
<1>3. QueueInv /\ QueueInv' /\ [Next]_vars => [Pipe!PipeNext]_(Pipe!pvars)
  BY QueueStep
<1>4. Init => Pipe!PipeInit
  BY QueueStart
<1> QED
  BY <1>1, <1>2, <1>3, <1>4, PTL DEF Spec, ImplementsPipe, Pipe!PipeSpec

\* What the mapping of the refinement shows are the mbufs of the ring: as long as
\* nothing slipped into a harvest or was forgotten by a re-init, the queue has every
\* mbuf that the driver owns.
QueueIsTheRing ==
  ~raced /\ ~forgot => {Queue[k] : k \in DOMAIN Queue} = {m \in Mbufs : owner[m] = "ring"}

LEMMA QueueHasOwned ==
  ASSUME QueueInv, ~raced, ~forgot, NEW m \in Mbufs, owner[m] = "ring"
  PROVE  \E k \in 1 .. Waiting : Queue[k] = m
<1>1. PICK i \in RxSlots : slot[i] = m
  BY DEF QueueInv, RingInv, OwnedIsHeld
<1>2. /\ Lent \in {0, 1} /\ Off(rout) \in 0 .. NRX - 1 /\ Waiting = Off(rout) - Lent
      /\ rin \in RxSlots /\ rout \in RxSlots
  BY WaitingIs
<1>3. slot[i] # None
  BY <1>1, MbufsAssumption
<1>4. Off(i) \in 0 .. NRX - 1 /\ Off(i) < Off(rout)
  <2>1. Off(i) \in Nat /\ Off(i) \in 0 .. NRX - 1
    BY <1>2, RingSize, ActiveRange DEF Off
  <2>2. ~(Off(rout) <= Off(i))
    BY <1>3 DEF QueueInv, RingInv, OutsideEmpty
  <2> QED
    BY <1>2, <2>1, <2>2
<1>5. Lent = 1 => Off(i) # 0
  <2> SUFFICES ASSUME Lent = 1, Off(i) = 0 PROVE FALSE
    OBVIOUS
  <2>1. i = rin
    BY <1>2, RingSize, ActiveRange DEF Off
  <2>2. slot[rin] = None
    BY DEF Lent, QueueInv, RingInv, HarvestBehind
  <2> QED
    BY <1>3, <2>1, <2>2
<1> DEFINE d == Off(rout) - Off(i)
<1>6. d \in 1 .. Waiting /\ Off(rout) - d = Off(i)
  BY <1>2, <1>4, <1>5
<1>7. Behind(rout, d, NRX) = i
  <2>1. Behind(rout, d, NRX) \in RxSlots /\ Off(Behind(rout, d, NRX)) = Off(i)
    BY <1>6, QueueSlot
  <2> HIDE DEF d
  <2> QED
    BY <1>2, <2>1, RingSize, ActiveInjective DEF Off
<1> HIDE DEF d
<1> DEFINE k == Waiting + 1 - d
<1>8. k \in 1 .. Waiting /\ Waiting + 1 - k = d
  BY <1>2, <1>6
<1>9. Queue[k] = slot[Behind(rout, Waiting + 1 - k, NRX)]
  BY <1>8, QueueIs
<1> QED
  BY <1>1, <1>7, <1>8, <1>9

\* The refinement hides nothing: RxImplementsPipe's queue has every mbuf of the ring.
THEOREM QueueShowsTheRing == Spec => []QueueIsTheRing
<1>1. QueueInv => QueueIsTheRing
  <2> SUFFICES ASSUME QueueInv, ~raced, ~forgot
               PROVE  {Queue[k] : k \in DOMAIN Queue} = {m \in Mbufs : owner[m] = "ring"}
    BY DEF QueueIsTheRing
  <2>1. DOMAIN Queue = 1 .. Waiting /\ Queue \in Seq(Mbufs) /\ Len(Queue) = Waiting
        /\ \A k \in 1 .. Waiting : owner[Queue[k]] = "ring"
    BY QueueIs
  <2>2. \A k \in 1 .. Waiting : Queue[k] \in Mbufs
    BY <2>1, ElementOfSeq
  <2>3. \A m \in Mbufs : owner[m] = "ring" => \E k \in 1 .. Waiting : Queue[k] = m
    BY QueueHasOwned
  <2> QED
    BY <2>1, <2>2, <2>3
<1> QED
  BY <1>1, QueueInvInit, QueueInvStep, PTL DEF Spec

=============================================================================

-------------------------- MODULE Bcm4313Tx_proofs --------------------------
(***************************************************************************)
(* Theorems about Bcm4313Tx, for every ring size, queue limit and set of   *)
(* frames.                                                                 *)
(***************************************************************************)
EXTENDS Bcm4313Tx, DmaRing_proofs, SequenceTheorems

\* The ring and its header cache have entries.
LEMMA Sizes ==
  /\ NTX \in Nat \ {0} /\ TxSlots = Slots(NTX) /\ 0 \in TxSlots
  /\ NFrames \in Nat \ {0} /\ NTX = 2 * NFrames
<1>1. NTX \in Nat /\ NTX >= 4 /\ NTX % 2 = 0
  BY RingAssumption
<1>2. NTX = 2 * (NTX \div 2) /\ NTX \div 2 \in Nat /\ NTX \div 2 >= 2
  BY <1>1
<1> QED
  BY <1>1, <1>2 DEF TxSlots, Slots, NFrames

LEMMA AdvInRing == ASSUME NEW i \in TxSlots PROVE Adv(i, NTX) \in TxSlots
  BY Sizes, AdvInSlots

LEMMA CacheEntryRange == ASSUME NEW i \in TxSlots PROVE CacheEntry(i) \in 0 .. NFrames - 1
<1>1. i \in Nat /\ i \div 2 \in Nat
  BY Sizes DEF Slots
<1> QED
  BY <1>1, Sizes DEF CacheEntry

-----------------------------------------------------------------------------
(* Types.                                                                  *)

TypeControl ==
  /\ running \in BOOLEAN /\ lock \in {"free", "start"} /\ eng \in {"off", "on", "stuck"}

TypeFrames ==
  /\ snd \in Seq(Frames)
  /\ owner \in [Frames -> {"stack", "driver", "freed", "leaked"}]
  /\ ref \in [Frames -> BOOLEAN]
  /\ enc \in [Frames -> 0 .. 2]

TypeIndex == rin \in TxSlots /\ rout \in TxSlots /\ cd \in TxSlots /\ ptr \in TxSlots

TypeSlots == slot \in [TxSlots -> Frames \cup {None}] /\ body \in [TxSlots -> BOOLEAN]

TypeDesc ==
  /\ desc \in [TxSlots -> [kind : {"zero", "header", "body"},
                           of : Frames \cup {None} \cup 0 .. NFrames - 1]]
  /\ hdr \in [0 .. NFrames - 1 -> Frames \cup {None}]

LEMMA TypeParts ==
  TypeOK <=> TypeControl /\ TypeFrames /\ TypeIndex /\ TypeSlots /\ TypeDesc
  BY DEF TypeOK, TypeControl, TypeFrames, TypeIndex, TypeSlots, TypeDesc

LEMMA TypeInit == Init => TypeOK
<1> SUFFICES ASSUME Init PROVE TypeOK
  OBVIOUS
<1>1. TypeControl /\ TypeIndex
  BY Sizes DEF Init, TypeControl, TypeIndex
<1>2. TypeFrames
  BY DEF Init, TypeFrames
<1>3. TypeSlots /\ TypeDesc
  BY DEF Init, TypeSlots, TypeDesc, Zero
<1> QED
  BY <1>1, <1>2, <1>3, TypeParts

\* Every step is one of these.
LEMMA StepCases ==
  ASSUME [Next]_vars
  PROVE  \/ \E f \in Frames : TransmitRefused(f) \/ Transmit(f) \/ RawXmit(f)
         \/ StartDone \/ StartDrop \/ StartPost \/ StartReject \/ StartRequeue
         \/ HwFetch \/ Reclaim
         \/ Up \/ UpFails \/ FatalStop \/ Down
         \/ UNCHANGED vars
  BY DEF Next, Handover, StartLocked

LEMMA ControlStep == ASSUME TypeControl, [Next]_vars PROVE TypeControl'
<1> USE DEF TypeControl
<1>1. ASSUME NEW f \in Frames, TransmitRefused(f) PROVE TypeControl'
  BY <1>1 DEF TransmitRefused, queue, hw
<1>2. ASSUME NEW f \in Frames, Transmit(f) PROVE TypeControl'
  BY <1>2 DEF Transmit, hw
<1>3. ASSUME NEW f \in Frames, RawXmit(f) PROVE TypeControl'
  BY <1>3 DEF RawXmit, Post, Reject, queue, hw
<1>4. CASE StartDone
  BY <1>4 DEF StartDone, hw
<1>5. CASE StartDrop
  BY <1>5 DEF StartDrop, hw
<1>6. CASE StartPost
  BY <1>6 DEF StartPost, Post
<1>7. CASE StartReject
  BY <1>7 DEF StartReject, Reject, hw
<1>8. CASE StartRequeue
  BY <1>8 DEF StartRequeue, hw
<1>9. CASE HwFetch
  BY <1>9 DEF HwFetch, queue
<1>10. CASE Reclaim
  BY <1>10 DEF Reclaim, queue, hw
<1>11. CASE Up
  BY <1>11 DEF Up, queue
<1>12. CASE UpFails
  BY <1>12 DEF UpFails, queue, hw
<1>13. CASE FatalStop
  BY <1>13 DEF FatalStop, queue, hw
<1>14. CASE Down
  BY <1>14 DEF Down
<1>15. CASE UNCHANGED vars
  BY <1>15 DEF vars, queue, hw
<1> QED
  BY <1>1, <1>2, <1>3, <1>4, <1>5, <1>6, <1>7, <1>8, <1>9, <1>10, <1>11, <1>12, <1>13, <1>14,
     <1>15, StepCases

\* The queue without its head.
LEMMA TailOf ==
  ASSUME snd \in Seq(Frames), snd # <<>>
  PROVE  Head(snd) \in Frames /\ Tail(snd) \in Seq(Frames)
  OBVIOUS

\* A rejected mbuf is freed or leaked.
LEMMA FateIs == ASSUME NEW f, NEW fate \in Fates(f) PROVE fate \in {"freed", "leaked"}
  BY DEF Fates

LEMMA FramesStep == ASSUME TypeFrames, [Next]_vars PROVE TypeFrames'
<1> USE DEF TypeFrames
<1>1. ASSUME NEW f \in Frames, TransmitRefused(f) PROVE TypeFrames'
  BY <1>1 DEF TransmitRefused, queue
<1>2. ASSUME NEW f \in Frames, Transmit(f) PROVE TypeFrames'
  <2>1. Append(snd, f) \in Seq(Frames) /\ (f \notin Nodeless) \in BOOLEAN
    OBVIOUS
  <2> QED
    BY <1>2, <2>1 DEF Transmit
<1>3. ASSUME NEW f \in Frames, RawXmit(f) PROVE TypeFrames'
  <2>1. snd' = snd /\ enc' = [enc EXCEPT ![f] = 0]
    BY <1>3 DEF RawXmit, queue
  <2>2. owner' \in {[owner EXCEPT ![f] = o] : o \in {"driver", "freed", "leaked"}}
    BY <1>3, FateIs DEF RawXmit
  <2>3. owner' \in [Frames -> {"stack", "driver", "freed", "leaked"}]
    BY <2>2
  <2>4. ref' \in {[ref EXCEPT ![f] = TRUE], ref}
    BY <1>3 DEF RawXmit
  <2>5. [ref EXCEPT ![f] = TRUE] \in [Frames -> BOOLEAN]
    OBVIOUS
  <2>6. ref' \in [Frames -> BOOLEAN]
    BY <2>4, <2>5
  <2>7. enc' \in [Frames -> 0 .. 2] /\ snd' \in Seq(Frames)
    BY <2>1
  <2> QED
    BY <2>3, <2>6, <2>7
<1>4. CASE StartDone
  BY <1>4 DEF StartDone, ledger
<1>5. CASE StartDrop
  BY <1>5, TailOf DEF StartDrop, Iterating, Drop
<1>6. CASE StartPost
  BY <1>6, TailOf DEF StartPost, Iterating, Encap
<1>7. CASE StartReject
  <2>1. PICK fate \in {"freed", "leaked"} : Drop(Head(snd), fate)
    BY <1>7, FateIs DEF StartReject
  <2> QED
    BY <1>7, <2>1, TailOf DEF StartReject, Iterating, Drop, Encap
<1>8. CASE StartRequeue
  BY <1>8, TailOf DEF StartRequeue, Iterating, Encap
<1>9. CASE HwFetch
  BY <1>9 DEF HwFetch, queue, ledger
<1>10. CASE Reclaim
  BY <1>10 DEF Reclaim, ReleaseWith, queue
<1>11. CASE Up
  BY <1>11 DEF Up, queue, ledger
<1>12. CASE UpFails
  BY <1>12 DEF UpFails, queue, ledger
<1>13. CASE FatalStop
  BY <1>13 DEF FatalStop, queue, ledger
<1>14. CASE Down
  <2>1. snd' = <<>> /\ enc' = enc
    BY <1>14 DEF Down
  <2>2. owner' \in [Frames -> {"stack", "driver", "freed", "leaked"}]
    BY <1>14 DEF Down, ReleaseWith
  <2>3. ref' \in [Frames -> BOOLEAN]
    BY <1>14 DEF Down, ReleaseWith
  <2> QED
    BY <2>1, <2>2, <2>3
<1>15. CASE UNCHANGED vars
  BY <1>15 DEF vars, queue, ledger
<1> QED
  BY <1>1, <1>2, <1>3, <1>4, <1>5, <1>6, <1>7, <1>8, <1>9, <1>10, <1>11, <1>12, <1>13, <1>14,
     <1>15, StepCases

LEMMA IndexStep == ASSUME TypeIndex, [Next]_vars PROVE TypeIndex'
<1> USE DEF TypeIndex
<1>0. /\ 0 \in TxSlots /\ Adv(cd, NTX) \in TxSlots
      /\ Adv(Adv(rout, NTX), NTX) \in TxSlots /\ ReclaimEnd \in TxSlots
  BY Sizes, AdvInRing DEF ReclaimEnd
<1>1. ASSUME NEW f \in Frames, TransmitRefused(f) PROVE TypeIndex'
  BY <1>1 DEF TransmitRefused, ring, hw
<1>2. ASSUME NEW f \in Frames, Transmit(f) PROVE TypeIndex'
  BY <1>2 DEF Transmit, ring, hw
<1>3. ASSUME NEW f \in Frames, RawXmit(f) PROVE TypeIndex'
  BY <1>0, <1>3 DEF RawXmit, Post, Reject, ring, hw
<1>4. CASE StartDone
  BY <1>4 DEF StartDone, ring, hw
<1>5. CASE StartDrop
  BY <1>5 DEF StartDrop, ring, hw
<1>6. CASE StartPost
  BY <1>0, <1>6 DEF StartPost, Post
<1>7. CASE StartReject
  BY <1>7 DEF StartReject, Reject, hw
<1>8. CASE StartRequeue
  BY <1>8 DEF StartRequeue, ring, hw
<1>9. CASE HwFetch
  BY <1>0, <1>9 DEF HwFetch, ring
<1>10. CASE Reclaim
  BY <1>0, <1>10 DEF Reclaim, hw
<1>11. CASE Up
  BY <1>0, <1>11 DEF Up
<1>12. CASE UpFails
  BY <1>0, <1>12 DEF UpFails, ring, hw
<1>13. CASE FatalStop
  BY <1>13 DEF FatalStop, ring, hw
<1>14. CASE Down
  BY <1>14 DEF Down
<1>15. CASE UNCHANGED vars
  BY <1>15 DEF vars, ring, hw
<1> QED
  BY <1>1, <1>2, <1>3, <1>4, <1>5, <1>6, <1>7, <1>8, <1>9, <1>10, <1>11, <1>12, <1>13, <1>14,
     <1>15, StepCases

\* Posting keeps the types of slots, descriptors and cache.
LEMMA PostTypes ==
  ASSUME TypeIndex, TypeSlots, TypeDesc, NEW f \in Frames, Post(f) PROVE TypeSlots' /\ TypeDesc'
<1>0. rout \in TxSlots /\ Adv(rout, NTX) \in TxSlots /\ CacheEntry(rout) \in 0 .. NFrames - 1
  BY AdvInRing, CacheEntryRange DEF TypeIndex
<1>1. TypeSlots'
  BY <1>0 DEF TypeSlots, Post
<1>2. hdr' \in [0 .. NFrames - 1 -> Frames \cup {None}]
  BY <1>0 DEF TypeDesc, Post, WriteHeader
<1> DEFINE D == [kind : {"zero", "header", "body"}, of : Frames \cup {None} \cup 0 .. NFrames - 1]
<1>3. Header(CacheEntry(rout)) \in D /\ Body(f) \in D
  BY <1>0 DEF Header, Body
<1>4. desc \in [TxSlots -> D]
  BY DEF TypeDesc
<1>5. desc' = [desc EXCEPT ![rout] = Header(CacheEntry(rout)), ![Adv(rout, NTX)] = Body(f)]
  BY DEF Post
<1> HIDE DEF D
<1>6. desc' \in [TxSlots -> D]
  BY <1>0, <1>3, <1>4, <1>5
<1> QED
  BY <1>1, <1>2, <1>6 DEF TypeDesc, D

\* A rejected frame may have rewritten its cache entry.
LEMMA RejectTypes ==
  ASSUME TypeIndex, TypeSlots, TypeDesc, NEW f \in Frames, Reject(f) PROVE TypeSlots' /\ TypeDesc'
<1>0. CacheEntry(rout) \in 0 .. NFrames - 1
  BY CacheEntryRange DEF TypeIndex
<1> QED
  BY <1>0 DEF TypeSlots, TypeDesc, Reject, WriteHeader

LEMMA DataStep ==
  ASSUME TypeFrames, TypeIndex, TypeSlots, TypeDesc, [Next]_vars PROVE TypeSlots' /\ TypeDesc'
<1>a. ASSUME UNCHANGED <<slot, body, desc, hdr>> PROVE TypeSlots' /\ TypeDesc'
  BY <1>a DEF TypeSlots, TypeDesc
<1>1. ASSUME NEW f \in Frames, TransmitRefused(f) PROVE TypeSlots' /\ TypeDesc'
  BY <1>a, <1>1 DEF TransmitRefused, ring
<1>2. ASSUME NEW f \in Frames, Transmit(f) PROVE TypeSlots' /\ TypeDesc'
  BY <1>a, <1>2 DEF Transmit, ring
<1>3. ASSUME NEW f \in Frames, RawXmit(f) PROVE TypeSlots' /\ TypeDesc'
  <2>1. CASE Post(f)
    BY <2>1, PostTypes
  <2>2. CASE Reject(f)
    BY <2>2, RejectTypes
  <2>3. CASE UNCHANGED ring
    BY <1>a, <2>3 DEF ring
  <2> QED
    BY <1>3, <2>1, <2>2, <2>3 DEF RawXmit
<1>4. CASE StartDone
  BY <1>a, <1>4 DEF StartDone, ring
<1>5. CASE StartDrop
  BY <1>a, <1>5 DEF StartDrop, ring
<1>6. CASE StartPost
  BY <1>6, TailOf, PostTypes DEF StartPost, Iterating, TypeFrames
<1>7. CASE StartReject
  BY <1>7, TailOf, RejectTypes DEF StartReject, Iterating, TypeFrames
<1>8. CASE StartRequeue
  BY <1>a, <1>8 DEF StartRequeue, ring
<1>9. CASE HwFetch
  BY <1>a, <1>9 DEF HwFetch, ring
<1>10. CASE Reclaim
  BY <1>10 DEF Reclaim, ReleaseWith, TypeSlots, TypeDesc
<1>11. CASE Up
  BY <1>11 DEF Up, TypeSlots, TypeDesc, Zero
<1>12. CASE UpFails
  BY <1>a, <1>12 DEF UpFails, ring
<1>13. CASE FatalStop
  BY <1>a, <1>13 DEF FatalStop, ring
<1>14. CASE Down
  BY <1>14 DEF Down, ReleaseWith, TypeSlots, TypeDesc
<1>15. CASE UNCHANGED vars
  BY <1>a, <1>15 DEF vars, ring
<1> QED
  BY <1>1, <1>2, <1>3, <1>4, <1>5, <1>6, <1>7, <1>8, <1>9, <1>10, <1>11, <1>12, <1>13, <1>14,
     <1>15, StepCases

LEMMA TypeStep == TypeOK /\ [Next]_vars => TypeOK'
<1> SUFFICES ASSUME TypeOK, [Next]_vars PROVE TypeOK'
  OBVIOUS
<1>1. TypeControl /\ TypeFrames /\ TypeIndex /\ TypeSlots /\ TypeDesc
  BY TypeParts
<1>2. TypeControl' /\ TypeFrames' /\ TypeIndex' /\ TypeSlots' /\ TypeDesc'
  BY <1>1, ControlStep, FramesStep, IndexStep, DataStep
<1> QED
  BY <1>2 DEF TypeOK, TypeControl, TypeFrames, TypeIndex, TypeSlots, TypeDesc

\* Type correctness of the transmit path, for every ring size: indexes stay
\* inside the ring and inside the header cache.
THEOREM TypeCorrect == Spec => []TypeOK
  BY TypeInit, TypeStep, PTL DEF Spec

-----------------------------------------------------------------------------
(* Node references.                                                        *)

\* Dropping the head of the queue releases its reference with the mbuf.
LEMMA DropKeepsBalance ==
  ASSUME TypeFrames, NodeRefBalanced, NEW f \in Frames, NEW fate \in {"freed", "leaked"},
         Drop(f, fate)
  PROVE  NodeRefBalanced'
  BY DEF TypeFrames, NodeRefBalanced, Drop

\* What leaves the ring or the queue at teardown leaves with its reference.
LEMMA ReleaseKeepsBalance ==
  ASSUME TypeFrames, NodeRefBalanced, NEW S, NEW Q, ReleaseWith(S, Q) PROVE NodeRefBalanced'
<1> DEFINE gone == Q \cup {slot[i] : i \in {j \in S : body[j]}}
<1>1. /\ owner' = [f \in Frames |-> IF f \in gone THEN "freed" ELSE owner[f]]
      /\ ref' = [f \in Frames |-> IF f \in gone THEN FALSE ELSE ref[f]]
  BY DEF ReleaseWith
<1> HIDE DEF gone
<1> QED
  BY <1>1 DEF TypeFrames, NodeRefBalanced

LEMMA BalanceStep ==
  ASSUME TypeFrames, NodeRefBalanced, [Next]_vars PROVE NodeRefBalanced'
<1>a. ASSUME UNCHANGED <<owner, ref>> PROVE NodeRefBalanced'
  BY <1>a DEF NodeRefBalanced
<1>1. ASSUME NEW f \in Frames, TransmitRefused(f) PROVE NodeRefBalanced'
  BY <1>1 DEF TypeFrames, NodeRefBalanced, TransmitRefused, Fresh
<1>2. ASSUME NEW f \in Frames, Transmit(f) PROVE NodeRefBalanced'
  BY <1>2 DEF TypeFrames, NodeRefBalanced, Transmit
<1>3. ASSUME NEW f \in Frames, RawXmit(f) PROVE NodeRefBalanced'
  <2>1. CASE owner' = [owner EXCEPT ![f] = "driver"] /\ ref' = [ref EXCEPT ![f] = TRUE]
    BY <1>3, <2>1 DEF TypeFrames, NodeRefBalanced, RawXmit
  <2>2. ASSUME NEW o \in {"freed", "leaked"}, owner' = [owner EXCEPT ![f] = o], ref' = ref
        PROVE  NodeRefBalanced'
    BY <1>3, <2>2 DEF TypeFrames, NodeRefBalanced, RawXmit, Fresh
  <2> QED
    BY <1>3, <2>1, <2>2, FateIs DEF RawXmit
<1>4. CASE StartDone
  BY <1>a, <1>4 DEF StartDone, ledger
<1>5. CASE StartDrop
  BY <1>5, TailOf, DropKeepsBalance DEF StartDrop, Iterating, TypeFrames
<1>6. CASE StartPost
  BY <1>a, <1>6 DEF StartPost
<1>7. CASE StartReject
  BY <1>7, TailOf, FateIs, DropKeepsBalance DEF StartReject, Iterating, TypeFrames
<1>8. CASE StartRequeue
  BY <1>a, <1>8 DEF StartRequeue
<1>9. CASE HwFetch
  BY <1>a, <1>9 DEF HwFetch, ledger
<1>10. CASE Reclaim
  BY <1>10, ReleaseKeepsBalance DEF Reclaim
<1>11. CASE Up
  BY <1>a, <1>11 DEF Up, ledger
<1>12. CASE UpFails
  BY <1>a, <1>12 DEF UpFails, ledger
<1>13. CASE FatalStop
  BY <1>a, <1>13 DEF FatalStop, ledger
<1>14. CASE Down
  BY <1>14, ReleaseKeepsBalance DEF Down
<1>15. CASE UNCHANGED vars
  BY <1>a, <1>15 DEF vars, ledger
<1> QED
  BY <1>1, <1>2, <1>3, <1>4, <1>5, <1>6, <1>7, <1>8, <1>9, <1>10, <1>11, <1>12, <1>13, <1>14,
     <1>15, StepCases

\* The driver holds a node reference exactly while it owns the frame: on no
\* error path of tx_start_locked, start_locked, raw_xmit, tx_reclaim or
\* stop_locked is one leaked or released twice.
THEOREM NodeRefs == Spec => []NodeRefBalanced
<1>1. Init => NodeRefBalanced
  BY DEF Init, NodeRefBalanced
<1>2. TypeOK /\ NodeRefBalanced /\ [Next]_vars => NodeRefBalanced'
  BY BalanceStep, TypeParts
<1> QED
  BY <1>1, <1>2, TypeCorrect, PTL DEF Spec

-----------------------------------------------------------------------------
(* The window of posted slots.                                             *)

\* Posting moves r_out over the two slots it fills, and does not reach r_in.
LEMMA PostInWindow ==
  ASSUME TypeIndex, TypeSlots, NEW f \in Frames, Post(f),
         NEW i \in TxSlots, slot[i] = None, slot'[i] # None
  PROVE  i \in Window(rin', rout', NTX)
<1> DEFINE b == Adv(rout, NTX)
<1>1. rin \in Slots(NTX) /\ rout \in Slots(NTX) /\ b \in Slots(NTX) /\ i \in Slots(NTX)
  BY Sizes, AdvInRing DEF TypeIndex
<1>2. i = b /\ rin' = rin /\ rout' = Adv(b, NTX)
  BY Sizes DEF Post, TypeSlots
<1>3. ~(Active(rin, rout, NTX) >= NTX - 2) /\ Active(rin, rout, NTX) \in 0 .. NTX - 1
  BY <1>1, Sizes, ActiveRange DEF Post, RingFull
<1>4. Active(rin, b, NTX) = Active(rin, rout, NTX) + 1
  BY <1>1, <1>3, Sizes, ActivePost
<1>5. Active(rin, Adv(b, NTX), NTX) = Active(rin, b, NTX) + 1
  BY <1>1, <1>3, <1>4, Sizes, ActivePost
<1>6. Active(rin, b, NTX) < Active(rin, Adv(b, NTX), NTX)
  BY <1>3, <1>4, <1>5, Sizes
<1> QED
  BY <1>1, <1>2, <1>6 DEF Window

LEMMA OverflowStep ==
  ASSUME TypeOK, [Next]_vars,
         NEW i \in TxSlots, slot[i] = None, slot'[i] # None
  PROVE  i \in InFlight'
<1>0. TypeFrames /\ TypeIndex /\ TypeSlots
  BY TypeParts
<1>1. PICK f \in Frames : Post(f)
  <2>1. slot' # slot
    OBVIOUS
  <2>2. ~ReleaseWith(Window(rin, ReclaimEnd, NTX), {}) /\ ~ReleaseWith(InFlight, Queued)
    BY DEF ReleaseWith
  <2>3. ASSUME NEW f \in Frames, Handover(f) PROVE Post(f)
    BY <2>1, <2>3 DEF Handover, TransmitRefused, Transmit, RawXmit, Reject, ring
  <2>4. CASE StartLocked
    <3>1. StartPost
      BY <2>1, <2>4 DEF StartLocked, StartDone, StartDrop, StartReject, StartRequeue, Reject, ring
    <3> QED
      BY <3>1, <1>0, TailOf DEF StartPost, Iterating, TypeFrames
  <2>5. ~HwFetch /\ ~Reclaim /\ ~Up /\ ~UpFails /\ ~FatalStop
    BY <2>1, <2>2 DEF HwFetch, Reclaim, Up, UpFails, FatalStop, ring
  <2>6. ~Down
    BY <2>2 DEF Down, Queued
  <2>7. ~UNCHANGED vars
    BY <2>1 DEF vars, ring
  <2> QED
    BY <2>3, <2>4, <2>5, <2>6, <2>7 DEF Next
<1>2. i \in Window(rin', rout', NTX)
  BY <1>0, <1>1, PostInWindow
<1> QED
  BY <1>2 DEF InFlight

\* Posting never runs into r_in, whatever the ring size: the full-ring test of
\* tx_start_locked, with its two slots of slack, leaves room for header and body.
THEOREM NoOverflow == Spec => RingNeverOverflows
<1>1. TypeOK /\ [Next]_vars
        => [\A i \in TxSlots : slot[i] = None /\ slot'[i] # None => i \in InFlight']_vars
  BY OverflowStep
<1> QED
  BY <1>1, TypeCorrect, PTL DEF Spec, RingNeverOverflows

-----------------------------------------------------------------------------
(* One owner for each mbuf.                                                *)

\* r_out stays even, and only the odd slots ever hold an mbuf: those tx_start
\* posts a body in.
EvenEmpty ==
  /\ rout % 2 = 0
  /\ \A i \in TxSlots : i % 2 = 0 => slot[i] = None

InQueue(f) == \E k \in 1 .. Len(snd) : snd[k] = f
OnRing(f) == \E i \in TxSlots : slot[i] = f

\* OneOwner, slot by slot.
Ownership == \A f \in Frames : owner[f] = "driver" <=> InQueue(f) \/ OnRing(f)
Apart == \A k \in 1 .. Len(snd), i \in TxSlots : snd[k] # slot[i]
QueueOnce == \A j, k \in 1 .. Len(snd) : j # k => snd[j] # snd[k]
RingOnce == \A i, j \in TxSlots : i # j /\ slot[i] # None => slot[i] # slot[j]
Holders == Ownership /\ Apart /\ QueueOnce /\ RingOnce

LEMMA HoldersAreOwners ==
  ASSUME TypeFrames, TypeSlots PROVE Holders <=> OneOwner
<1>1. \A k \in 1 .. Len(snd) : snd[k] \in Frames
  BY DEF TypeFrames
<1>2. \A i \in TxSlots : slot[i] \in Frames \cup {None}
  BY DEF TypeSlots
<1>3. None \notin Frames
  BY FramesAssumption
<1>4. \A f \in Frames : (f \in Queued <=> InQueue(f)) /\ (f \in Posted <=> OnRing(f))
  BY <1>3 DEF Queued, Posted, InQueue, OnRing
<1>5. Queued \subseteq Frames /\ Posted \subseteq Frames
  BY <1>1, <1>2 DEF Queued, Posted
<1>6. Ownership <=> Queued \cup Posted = {f \in Frames : owner[f] = "driver"}
  BY <1>4, <1>5 DEF Ownership
<1>7. Apart <=> Queued \cap Posted = {}
  <2>1. ASSUME Apart PROVE Queued \cap Posted = {}
    BY <2>1 DEF Apart, Queued, Posted
  <2>2. ASSUME Queued \cap Posted = {},
               NEW k \in 1 .. Len(snd), NEW i \in TxSlots, snd[k] = slot[i]
        PROVE  FALSE
    BY <2>2, <1>1, <1>3 DEF Queued, Posted
  <2> QED
    BY <2>1, <2>2 DEF Apart
<1> QED
  BY <1>6, <1>7 DEF Holders, OneOwner, QueueOnce, RingOnce

\* The two slots a post uses.
LEMMA PostSlots ==
  ASSUME TypeIndex, EvenEmpty
  PROVE  /\ Adv(rout, NTX) \in TxSlots /\ Adv(rout, NTX) # rout
         /\ Adv(rout, NTX) % 2 = 1 /\ Adv(Adv(rout, NTX), NTX) % 2 = 0
<1>1. NTX \in Nat \ {0} /\ rout \in Slots(NTX) /\ rout \in 0 .. NTX - 1
  BY Sizes DEF TypeIndex, Slots
<1>2. NTX % 2 = 0 /\ rout % 2 = 0
  BY RingAssumption DEF EvenEmpty
<1>3. rout # NTX - 1
  BY <1>1, <1>2
<1>4. Adv(rout, NTX) = rout + 1
  BY <1>1, <1>3, AdvIs
<1>5. rout + 1 \in TxSlots /\ (rout + 1) % 2 = 1
  BY <1>1, <1>2, <1>3, Sizes DEF Slots
<1>6. Adv(rout + 1, NTX) = IF rout + 1 = NTX - 1 THEN 0 ELSE rout + 2
  BY <1>1, <1>5, AdvIs, Sizes
<1>7. Adv(rout + 1, NTX) % 2 = 0
  BY <1>1, <1>2, <1>6
<1> QED
  BY <1>1, <1>4, <1>5, <1>7

\* A post fills one empty slot and disturbs no other.
LEMMA PostFills ==
  ASSUME TypeIndex, TypeSlots, EvenEmpty, NEW f \in Frames, Post(f)
  PROVE  /\ Adv(rout, NTX) \in TxSlots /\ slot[Adv(rout, NTX)] = None
         /\ slot' = [slot EXCEPT ![Adv(rout, NTX)] = f]
         /\ EvenEmpty'
<1>1. rout \in TxSlots /\ slot[rout] = None
  BY DEF TypeIndex, EvenEmpty
<1>2. slot[Adv(rout, NTX)] = None
  BY DEF Post, BodySlotBusy
<1>3. slot' = [slot EXCEPT ![rout] = None, ![Adv(rout, NTX)] = f]
  BY DEF Post
<1>4. slot' = [slot EXCEPT ![Adv(rout, NTX)] = f]
  BY <1>1, <1>3, PostSlots DEF TypeSlots
<1>5. rout' % 2 = 0
  BY PostSlots DEF Post
<1>6. \A i \in TxSlots : i % 2 = 0 => slot'[i] = None
  BY <1>4, PostSlots DEF TypeSlots, EvenEmpty
<1>7. EvenEmpty'
  BY <1>5, <1>6 DEF EvenEmpty, TxSlots
<1> QED
  BY <1>2, <1>4, <1>7, PostSlots

\* Emptying slots leaves the empty ones empty.
LEMMA ReleaseKeepsEven ==
  ASSUME EvenEmpty, rout' = rout, NEW S, NEW Q, ReleaseWith(S, Q) PROVE EvenEmpty'
  BY DEF EvenEmpty, ReleaseWith, TxSlots

LEMMA EvenStep ==
  ASSUME TypeOK, EvenEmpty, [Next]_vars PROVE EvenEmpty'
<1>0. TypeFrames /\ TypeIndex /\ TypeSlots
  BY TypeParts
<1>a. ASSUME UNCHANGED <<slot, rout>> PROVE EvenEmpty'
  BY <1>a DEF EvenEmpty, TxSlots
<1>1. ASSUME NEW f \in Frames, TransmitRefused(f) PROVE EvenEmpty'
  BY <1>a, <1>1 DEF TransmitRefused, ring
<1>2. ASSUME NEW f \in Frames, Transmit(f) PROVE EvenEmpty'
  BY <1>a, <1>2 DEF Transmit, ring
<1>3. ASSUME NEW f \in Frames, RawXmit(f) PROVE EvenEmpty'
  <2>1. CASE Post(f)
    BY <1>0, <2>1, PostFills
  <2>2. CASE Reject(f) \/ UNCHANGED ring
    BY <1>a, <2>2 DEF Reject, ring
  <2> QED
    BY <1>3, <2>1, <2>2 DEF RawXmit
<1>4. CASE StartDone
  BY <1>a, <1>4 DEF StartDone, ring
<1>5. CASE StartDrop
  BY <1>a, <1>5 DEF StartDrop, ring
<1>6. CASE StartPost
  BY <1>0, <1>6, TailOf, PostFills DEF StartPost, Iterating, TypeFrames
<1>7. CASE StartReject
  BY <1>a, <1>7 DEF StartReject, Reject
<1>8. CASE StartRequeue
  BY <1>a, <1>8 DEF StartRequeue, ring
<1>9. CASE HwFetch
  BY <1>a, <1>9 DEF HwFetch, ring
<1>10. CASE Reclaim
  BY <1>10, ReleaseKeepsEven DEF Reclaim
<1>11. CASE Up
  BY <1>11 DEF Up, EvenEmpty, TxSlots
<1>12. CASE UpFails
  BY <1>a, <1>12 DEF UpFails, ring
<1>13. CASE FatalStop
  BY <1>a, <1>13 DEF FatalStop, ring
<1>14. CASE Down
  BY <1>14, ReleaseKeepsEven DEF Down
<1>15. CASE UNCHANGED vars
  BY <1>a, <1>15 DEF vars, ring
<1> QED
  BY <1>1, <1>2, <1>3, <1>4, <1>5, <1>6, <1>7, <1>8, <1>9, <1>10, <1>11, <1>12, <1>13, <1>14,
     <1>15, StepCases

\* A frame the stack still has is nowhere in the driver.
LEMMA FreshNowhere ==
  ASSUME Ownership, NEW f \in Frames, owner[f] # "driver"
  PROVE  ~InQueue(f) /\ ~OnRing(f)
  BY DEF Ownership

\* A frame joins the queue.
LEMMA Enqueued ==
  ASSUME TypeFrames, TypeSlots, Holders, NEW f \in Frames, owner[f] # "driver",
         snd' = Append(snd, f), owner' = [owner EXCEPT ![f] = "driver"], slot' = slot
  PROVE  Holders'
<1>1. /\ Len(snd) \in Nat /\ Len(snd') = Len(snd) + 1
      /\ \A k \in 1 .. Len(snd) : snd'[k] = snd[k] /\ snd[k] \in Frames
      /\ snd'[Len(snd) + 1] = f
  BY DEF TypeFrames
<1>2. /\ \A k \in 1 .. Len(snd) : snd[k] # f
      /\ \A i \in TxSlots : slot[i] # f
  BY FreshNowhere DEF Holders, InQueue, OnRing
<1>3. Apart'
  BY <1>1, <1>2 DEF Holders, Apart, TxSlots
<1>4. QueueOnce'
  BY <1>1, <1>2 DEF Holders, QueueOnce
<1>5. RingOnce'
  BY DEF Holders, RingOnce, TxSlots
<1>6. \A g \in Frames : InQueue(g)' <=> InQueue(g) \/ g = f
  BY <1>1 DEF InQueue
<1>7. \A g \in Frames : OnRing(g)' <=> OnRing(g)
  BY DEF OnRing, TxSlots
<1>8. Ownership'
  BY <1>6, <1>7 DEF Holders, Ownership, TypeFrames
<1> QED
  BY <1>3, <1>4, <1>5, <1>8 DEF Holders

\* The queue loses its head.
LEMMA TailElements ==
  ASSUME TypeFrames, snd # <<>>, snd' = Tail(snd), QueueOnce
  PROVE  /\ Len(snd) \in Nat \ {0} /\ Len(snd') = Len(snd) - 1
         /\ Head(snd) = snd[1]
         /\ \A k \in 1 .. Len(snd') : k + 1 \in 1 .. Len(snd) /\ snd'[k] = snd[k + 1]
         /\ QueueOnce'
         /\ \A g \in Frames : InQueue(g)' <=> InQueue(g) /\ g # Head(snd)
<1>1. /\ Len(snd) \in Nat \ {0} /\ Len(snd') = Len(snd) - 1
      /\ Head(snd) = snd[1]
      /\ \A k \in 1 .. Len(snd') : k + 1 \in 1 .. Len(snd) /\ snd'[k] = snd[k + 1]
  BY DEF TypeFrames
<1>2. QueueOnce'
  BY <1>1 DEF QueueOnce
<1>3. ASSUME NEW g \in Frames, InQueue(g)' PROVE InQueue(g) /\ g # Head(snd)
  <2>1. PICK k \in 1 .. Len(snd') : snd'[k] = g
    BY <1>3 DEF InQueue
  <2>2. k + 1 \in 1 .. Len(snd) /\ snd[k + 1] = g /\ k + 1 # 1 /\ 1 \in 1 .. Len(snd)
    BY <1>1, <2>1
  <2> QED
    BY <1>1, <2>2 DEF InQueue, QueueOnce
<1>4. ASSUME NEW g \in Frames, InQueue(g), g # Head(snd) PROVE InQueue(g)'
  <2>1. PICK k \in 1 .. Len(snd) : snd[k] = g
    BY <1>4 DEF InQueue
  <2>2. k # 1
    BY <1>1, <1>4, <2>1
  <2>3. k - 1 \in 1 .. Len(snd') /\ snd'[k - 1] = g
    BY <1>1, <2>1, <2>2
  <2> QED
    BY <2>3 DEF InQueue
<1> QED
  BY <1>1, <1>2, <1>3, <1>4

\* The head of the queue is dropped.
LEMMA Dropped ==
  ASSUME TypeFrames, TypeSlots, Holders, snd # <<>>, slot' = slot,
         NEW fate \in {"freed", "leaked"}, Drop(Head(snd), fate)
  PROVE  Holders'
<1>1. Head(snd) \in Frames /\ snd' = Tail(snd) /\ owner' = [owner EXCEPT ![Head(snd)] = fate]
  BY TailOf DEF TypeFrames, Drop
<1>2. /\ Head(snd) = snd[1] /\ 1 \in 1 .. Len(snd)
      /\ \A k \in 1 .. Len(snd') : k + 1 \in 1 .. Len(snd) /\ snd'[k] = snd[k + 1]
      /\ QueueOnce'
      /\ \A g \in Frames : InQueue(g)' <=> InQueue(g) /\ g # Head(snd)
  BY <1>1, TailElements DEF Holders
<1>3. Apart'
  BY <1>2 DEF Holders, Apart, TxSlots
<1>4. RingOnce'
  BY DEF Holders, RingOnce, TxSlots
<1>5. ~OnRing(Head(snd))
  BY <1>2 DEF Holders, Apart, OnRing
<1>6. \A g \in Frames : OnRing(g)' <=> OnRing(g)
  BY DEF OnRing, TxSlots
<1>7. Ownership'
  BY <1>1, <1>2, <1>5, <1>6 DEF Holders, Ownership, TypeFrames
<1> QED
  BY <1>2, <1>3, <1>4, <1>7 DEF Holders

\* The ring gains a frame that was nowhere on it.
LEMMA Filled ==
  ASSUME TypeSlots, RingOnce, NEW f \in Frames, ~OnRing(f),
         NEW b \in TxSlots, slot[b] = None, slot' = [slot EXCEPT ![b] = f]
  PROVE  /\ RingOnce'
         /\ \A g \in Frames : OnRing(g)' <=> OnRing(g) \/ g = f
<1>1. None \notin Frames
  BY FramesAssumption
<1>2. \A i \in TxSlots : slot'[i] = IF i = b THEN f ELSE slot[i]
  BY DEF TypeSlots
<1>3. RingOnce'
  BY <1>1, <1>2 DEF RingOnce, OnRing, TxSlots
<1>4. \A g \in Frames : OnRing(g)' <=> OnRing(g) \/ g = f
  BY <1>1, <1>2 DEF OnRing, TxSlots
<1> QED
  BY <1>3, <1>4

\* raw_xmit posts a frame that the stack had.
LEMMA PostedRaw ==
  ASSUME TypeFrames, TypeSlots, Holders, NEW f \in Frames, owner[f] # "driver",
         NEW b \in TxSlots, slot[b] = None, slot' = [slot EXCEPT ![b] = f],
         snd' = snd, owner' = [owner EXCEPT ![f] = "driver"]
  PROVE  Holders'
<1>1. ~InQueue(f) /\ ~OnRing(f)
  BY FreshNowhere DEF Holders
<1>2. RingOnce' /\ \A g \in Frames : OnRing(g)' <=> OnRing(g) \/ g = f
  BY <1>1, Filled DEF Holders
<1>3. \A k \in 1 .. Len(snd) : snd[k] # f
  BY <1>1 DEF InQueue
<1>4. Apart'
  BY <1>3 DEF Holders, Apart, TxSlots, TypeSlots
<1>5. QueueOnce'
  BY DEF Holders, QueueOnce
<1>6. \A g \in Frames : InQueue(g)' <=> InQueue(g)
  BY DEF InQueue
<1>7. Ownership'
  BY <1>2, <1>6 DEF Holders, Ownership, TypeFrames
<1> QED
  BY <1>2, <1>4, <1>5, <1>7 DEF Holders

\* start_locked moves the head of the queue to the ring.
LEMMA PostedHead ==
  ASSUME TypeFrames, TypeSlots, Holders, snd # <<>>, snd' = Tail(snd), owner' = owner,
         NEW b \in TxSlots, slot[b] = None, slot' = [slot EXCEPT ![b] = Head(snd)]
  PROVE  Holders'
<1>1. /\ Head(snd) = snd[1] /\ 1 \in 1 .. Len(snd) /\ Head(snd) \in Frames
      /\ Len(snd') = Len(snd) - 1 /\ Len(snd) \in Nat
      /\ \A k \in 1 .. Len(snd') : k + 1 \in 1 .. Len(snd) /\ snd'[k] = snd[k + 1]
      /\ QueueOnce'
      /\ \A g \in Frames : InQueue(g)' <=> InQueue(g) /\ g # Head(snd)
  BY TailElements, TailOf DEF Holders, TypeFrames
<1>2. InQueue(Head(snd)) /\ ~OnRing(Head(snd))
  BY <1>1 DEF Holders, Apart, OnRing, InQueue
<1>3. RingOnce' /\ \A g \in Frames : OnRing(g)' <=> OnRing(g) \/ g = Head(snd)
  BY <1>1, <1>2, Filled DEF Holders
<1>4. ASSUME NEW k \in 1 .. Len(snd'), NEW i \in TxSlots PROVE snd'[k] # slot'[i]
  <2>1. k + 1 \in 1 .. Len(snd) /\ snd'[k] = snd[k + 1] /\ k + 1 # 1
    BY <1>1
  <2>2. CASE i = b
    <3>1. slot'[i] = snd[1]
      BY <1>1, <2>2 DEF TypeSlots
    <3> QED
      BY <1>1, <2>1, <3>1 DEF Holders, QueueOnce
  <2>3. CASE i # b
    <3>1. slot'[i] = slot[i]
      BY <2>3 DEF TypeSlots
    <3> QED
      BY <2>1, <3>1 DEF Holders, Apart
  <2> QED
    BY <2>2, <2>3
<1>5. Apart'
  BY <1>4 DEF Apart, TxSlots
<1>6. Ownership'
  BY <1>1, <1>2, <1>3 DEF Holders, Ownership
<1> QED
  BY <1>1, <1>3, <1>5, <1>6 DEF Holders

\* Slots are emptied, and their frames freed; the queue keeps its frames or
\* loses and frees them all.
LEMMA Released ==
  ASSUME TypeFrames, TypeSlots, Holders, NEW S \in SUBSET TxSlots, NEW Q, ReleaseWith(S, Q),
         \/ Q = {} /\ snd' = snd
         \/ Q = {snd[k] : k \in 1 .. Len(snd)} /\ snd' = <<>>
  PROVE  Holders'
<1> DEFINE gone == Q \cup {slot[i] : i \in {j \in S : body[j]}}
           out == {i \in S : body[i]}
<1>1. owner' = [f \in Frames |-> IF f \in gone THEN "freed" ELSE owner[f]]
  BY DEF ReleaseWith
<1>2. \A i \in TxSlots : slot'[i] = IF i \in out THEN None ELSE slot[i]
  BY DEF ReleaseWith
<1>3. out \subseteq TxSlots
  OBVIOUS
<1>4. \A f : f \in gone <=> f \in Q \/ \E i \in out : f = slot[i]
  OBVIOUS
<1>5. None \notin Frames
  BY FramesAssumption
<1>6. \A f \in Frames : f \in Q => InQueue(f)
  BY DEF InQueue
<1>7. \A f \in Frames : InQueue(f)' <=> InQueue(f) /\ f \notin Q
  BY DEF InQueue
<1> HIDE DEF gone, out
<1>8. ASSUME NEW f \in Frames PROVE OnRing(f)' <=> OnRing(f) /\ ~\E i \in out : f = slot[i]
  BY <1>2, <1>3, <1>5 DEF Holders, RingOnce, OnRing, TxSlots
<1>9. \A f \in Frames : ~(InQueue(f) /\ OnRing(f))
  BY DEF Holders, Apart, InQueue, OnRing
<1>10. ASSUME NEW f \in Frames PROVE owner'[f] = "driver" <=> InQueue(f)' \/ OnRing(f)'
  <2>1. owner'[f] = "driver" <=> owner[f] = "driver" /\ f \notin gone
    BY <1>1 DEF TypeFrames
  <2>2. owner[f] = "driver" <=> InQueue(f) \/ OnRing(f)
    BY DEF Holders, Ownership
  <2>3. ASSUME NEW i \in out, f = slot[i] PROVE OnRing(f)
    BY <1>3, <2>3 DEF OnRing
  <2> QED
    BY <2>1, <2>2, <2>3, <1>4, <1>6, <1>7, <1>8, <1>9
<1>11. Ownership'
  BY <1>10 DEF Ownership
<1>12. \A k \in 1 .. Len(snd') : k \in 1 .. Len(snd) /\ snd'[k] = snd[k] /\ snd[k] \in Frames
  BY DEF TypeFrames
<1>13. Apart'
  BY <1>2, <1>5, <1>12 DEF Holders, Apart, TxSlots
<1>14. QueueOnce'
  BY <1>12 DEF Holders, QueueOnce
<1>15. RingOnce'
  BY <1>2 DEF Holders, RingOnce, TxSlots
<1> QED
  BY <1>11, <1>13, <1>14, <1>15 DEF Holders

\* What the driver empties are slots of the ring.
LEMMA ReleasedSlots ==
  ASSUME NEW from, NEW to PROVE Window(from, to, NTX) \in SUBSET TxSlots
  BY Sizes DEF Window

LEMMA HoldersStep ==
  ASSUME TypeOK, EvenEmpty, Holders, [Next]_vars PROVE Holders'
<1>0. TypeFrames /\ TypeIndex /\ TypeSlots
  BY TypeParts
<1>a. ASSUME UNCHANGED <<slot, snd, owner>> PROVE Holders'
  BY <1>a DEF Holders, Ownership, Apart, QueueOnce, RingOnce, InQueue, OnRing, TxSlots
\* The owner of a frame the stack has changes, but the driver does not keep it.
<1>b. ASSUME NEW f \in Frames, owner[f] # "driver", NEW o \in {"stack", "freed", "leaked"},
             owner' = [owner EXCEPT ![f] = o], UNCHANGED <<slot, snd>>
      PROVE  Holders'
  <2>1. Ownership'
    BY <1>0, <1>b DEF Holders, Ownership, TypeFrames, InQueue, OnRing, TxSlots
  <2> QED
    BY <1>b, <2>1 DEF Holders, Apart, QueueOnce, RingOnce, TxSlots
<1>1. ASSUME NEW f \in Frames, TransmitRefused(f) PROVE Holders'
  BY <1>b, <1>1 DEF TransmitRefused, Fresh, ring, queue
<1>2. ASSUME NEW f \in Frames, Transmit(f) PROVE Holders'
  BY <1>0, <1>2, Enqueued DEF Transmit, Fresh, ring
<1>3. ASSUME NEW f \in Frames, RawXmit(f) PROVE Holders'
  <2>0. owner[f] # "driver" /\ snd' = snd
    BY <1>3 DEF RawXmit, Fresh, queue
  <2>1. CASE Post(f) /\ owner' = [owner EXCEPT ![f] = "driver"]
    BY <1>0, <2>0, <2>1, PostFills, PostedRaw
  <2>2. ASSUME Reject(f) \/ UNCHANGED ring,
               NEW o \in {"freed", "leaked"}, owner' = [owner EXCEPT ![f] = o]
        PROVE  Holders'
    BY <1>b, <2>0, <2>2 DEF Reject, ring
  <2> QED
    BY <1>3, <2>1, <2>2, FateIs DEF RawXmit
<1>4. CASE StartDone
  BY <1>a, <1>4 DEF StartDone, ring, ledger
<1>5. CASE StartDrop
  BY <1>0, <1>5, Dropped DEF StartDrop, Iterating, ring
<1>6. CASE StartPost
  <2>1. snd # <<>> /\ Head(snd) \in Frames /\ Post(Head(snd)) /\ snd' = Tail(snd) /\ owner' = owner
    BY <1>0, <1>6, TailOf DEF StartPost, Iterating, TypeFrames
  <2> QED
    BY <1>0, <2>1, PostFills, PostedHead
<1>7. CASE StartReject
  BY <1>0, <1>7, Dropped, FateIs DEF StartReject, Iterating, Reject
<1>8. CASE StartRequeue
  BY <1>a, <1>8 DEF StartRequeue, ring
<1>9. CASE HwFetch
  BY <1>a, <1>9 DEF HwFetch, ring, queue, ledger
<1>10. CASE Reclaim
  BY <1>0, <1>10, Released, ReleasedSlots DEF Reclaim, queue
<1>11. CASE Up
  BY <1>a, <1>11 DEF Up, queue, ledger
<1>12. CASE UpFails
  BY <1>a, <1>12 DEF UpFails, ring, queue, ledger
<1>13. CASE FatalStop
  BY <1>a, <1>13 DEF FatalStop, ring, queue, ledger
<1>14. CASE Down
  BY <1>0, <1>14, Released, ReleasedSlots DEF Down, InFlight
<1>15. CASE UNCHANGED vars
  BY <1>a, <1>15 DEF vars, ring, queue, ledger
<1> QED
  BY <1>1, <1>2, <1>3, <1>4, <1>5, <1>6, <1>7, <1>8, <1>9, <1>10, <1>11, <1>12, <1>13, <1>14,
     <1>15, StepCases

\* Every mbuf the driver owns is in exactly one place, the queue or one slot of
\* the ring, but for those that a failing m_defrag() leaves without a place; and
\* none that it gave back, freed or lost is in any.
THEOREM OneOwnerAlways == Spec => []OneOwner
<1>1. Init => EvenEmpty /\ Holders
  BY Sizes DEF Init, EvenEmpty, Holders, Ownership, Apart, QueueOnce, RingOnce, InQueue, OnRing
<1>2. TypeOK /\ EvenEmpty /\ Holders /\ [Next]_vars => EvenEmpty' /\ Holders'
  BY EvenStep, HoldersStep
<1>3. TypeOK /\ Holders => OneOwner
  BY TypeParts, HoldersAreOwners
<1> QED
  BY <1>1, <1>2, <1>3, TypeCorrect, PTL DEF Spec

-----------------------------------------------------------------------------
(* What the engine fetches.                                                *)

\* A running engine is between r_in and r_out, and PTR is r_out.
EngineInOrder ==
  eng = "on" => ptr = rout /\ Active(rin, cd, NTX) <= Active(rin, rout, NTX)

LEMMA OrderStep ==
  ASSUME TypeOK, EngineInOrder, [Next]_vars PROVE EngineInOrder'
<1>0. TypeFrames /\ TypeIndex /\ TypeSlots
  BY TypeParts
<1>00. /\ NTX \in Nat \ {0} /\ rin \in Slots(NTX) /\ rout \in Slots(NTX)
       /\ cd \in Slots(NTX) /\ ptr \in Slots(NTX) /\ 0 \in Slots(NTX)
  BY <1>0, Sizes DEF TypeIndex
<1>a. ASSUME UNCHANGED <<eng, ptr, cd, rin, rout>> PROVE EngineInOrder'
  BY <1>a DEF EngineInOrder
<1>b. ASSUME NEW f \in Frames, Post(f) PROVE EngineInOrder'
  <2>1. Active(rin, rout, NTX) \in 0 .. NTX - 1 /\ Active(rin, rout, NTX) < NTX - 2
    BY <1>00, <1>b, ActiveRange DEF Post, RingFull
  <2>2. Adv(rout, NTX) \in Slots(NTX) /\ Active(rin, Adv(rout, NTX), NTX) = Active(rin, rout, NTX) + 1
    BY <1>00, <2>1, AdvInSlots, ActivePost
  <2>3. Active(rin, Adv(Adv(rout, NTX), NTX), NTX) = Active(rin, Adv(rout, NTX), NTX) + 1
    BY <1>00, <2>1, <2>2, ActivePost
  <2>4. Active(rin, cd, NTX) \in 0 .. NTX - 1
    BY <1>00, ActiveRange
  <2> QED
    BY <1>00, <1>b, <2>1, <2>2, <2>3, <2>4 DEF Post, EngineInOrder
<1>1. ASSUME NEW f \in Frames, TransmitRefused(f) PROVE EngineInOrder'
  BY <1>a, <1>1 DEF TransmitRefused, ring, hw
<1>2. ASSUME NEW f \in Frames, Transmit(f) PROVE EngineInOrder'
  BY <1>a, <1>2 DEF Transmit, ring, hw
<1>3. ASSUME NEW f \in Frames, RawXmit(f) PROVE EngineInOrder'
  <2>1. Post(f) \/ UNCHANGED <<eng, ptr, cd, rin, rout>>
    BY <1>3 DEF RawXmit, Reject, ring, hw
  <2> QED
    BY <1>a, <1>b, <2>1
<1>4. CASE StartDone
  BY <1>a, <1>4 DEF StartDone, ring, hw
<1>5. CASE StartDrop
  BY <1>a, <1>5 DEF StartDrop, ring, hw
<1>6. CASE StartPost
  BY <1>0, <1>b, <1>6, TailOf DEF StartPost, Iterating, TypeFrames
<1>7. CASE StartReject
  BY <1>a, <1>7 DEF StartReject, Reject, hw
<1>8. CASE StartRequeue
  BY <1>a, <1>8 DEF StartRequeue, ring, hw
<1>9. CASE HwFetch
  <2>1. eng = "on" /\ cd # ptr /\ cd' = Adv(cd, NTX) /\ UNCHANGED <<eng, ptr, rin, rout>>
    BY <1>9 DEF HwFetch, ring
  <2>2. ptr = rout /\ Active(rin, cd, NTX) <= Active(rin, rout, NTX)
    BY <2>1 DEF EngineInOrder
  <2>3. /\ Active(rin, cd, NTX) \in 0 .. NTX - 1 /\ Active(rin, rout, NTX) \in 0 .. NTX - 1
        /\ Active(rin, cd, NTX) # Active(rin, rout, NTX)
    BY <1>00, <2>1, <2>2, ActiveRange, ActiveInjective
  <2>4. Active(rin, cd, NTX) < NTX - 1
    BY <1>00, <2>2, <2>3
  <2>5. Active(rin, Adv(cd, NTX), NTX) = Active(rin, cd, NTX) + 1
    BY <1>00, <2>4, ActivePost
  <2> QED
    BY <2>1, <2>2, <2>3, <2>5 DEF EngineInOrder
<1>10. CASE Reclaim
  <2>1. eng = "on" /\ rin' = ReclaimEnd /\ UNCHANGED <<eng, ptr, cd, rout>>
    BY <1>10 DEF Reclaim, hw
  <2>2. rin' = cd
    BY <2>1 DEF ReclaimEnd, EngineInOrder
  <2>3. Active(cd, cd, NTX) = 0 /\ Active(cd, rout, NTX) \in 0 .. NTX - 1
    BY <1>00, ActiveRange
  <2> QED
    BY <1>00, <2>1, <2>2, <2>3 DEF EngineInOrder
<1>11. CASE Up
  <2>1. Active(0, 0, NTX) \in 0 .. NTX - 1
    BY <1>00, ActiveRange
  <2>2. ptr' = rout' /\ rin' = 0 /\ cd' = 0 /\ rout' = 0
    BY <1>11 DEF Up
  <2> QED
    BY <1>00, <2>1, <2>2 DEF EngineInOrder
<1>12. CASE UpFails
  BY <1>12 DEF UpFails, ring, hw, EngineInOrder
<1>13. CASE FatalStop
  BY <1>a, <1>13 DEF FatalStop, ring, hw
<1>14. CASE Down
  BY <1>14 DEF Down, EngineInOrder
<1>15. CASE UNCHANGED vars
  BY <1>a, <1>15 DEF vars, ring, hw
<1> QED
  BY <1>1, <1>2, <1>3, <1>4, <1>5, <1>6, <1>7, <1>8, <1>9, <1>10, <1>11, <1>12, <1>13, <1>14,
     <1>15, StepCases

\* A reclaim empties only slots that the engine has passed.
LEMMA ReclaimBehindEngine ==
  ASSUME TypeOK, EngineInOrder, eng = "on"
  PROVE  Window(rin, ReclaimEnd, NTX) \cap ToFetch = {}
<1>1. /\ NTX \in Nat \ {0} /\ rin \in Slots(NTX) /\ cd \in Slots(NTX) /\ rout \in Slots(NTX)
      /\ ptr = rout /\ Active(rin, cd, NTX) <= Active(rin, rout, NTX)
  BY TypeParts, Sizes DEF TypeIndex, EngineInOrder
<1>2. ReclaimEnd = cd
  BY <1>1 DEF ReclaimEnd
<1> QED
  BY <1>1, <1>2, WindowsApart DEF ToFetch

LEMMA FreedStep ==
  ASSUME TypeOK, EvenEmpty, EngineInOrder, [Next]_vars, eng' = "on",
         NEW i \in ToFetch, slot[i] # None
  PROVE  slot'[i] = slot[i]
<1>0. TypeFrames /\ TypeIndex /\ TypeSlots /\ i \in TxSlots
  BY TypeParts, Sizes DEF ToFetch, Window
<1>b. ASSUME NEW f \in Frames, Post(f) PROVE slot'[i] = slot[i]
  BY <1>0, <1>b, PostFills DEF TypeSlots
<1>1. ASSUME NEW f \in Frames, Handover(f) PROVE slot'[i] = slot[i]
  <2>1. Post(f) \/ slot' = slot
    BY <1>1 DEF Handover, TransmitRefused, Transmit, RawXmit, Reject, ring
  <2> QED
    BY <1>b, <2>1
<1>2. CASE StartPost
  BY <1>0, <1>b, <1>2, TailOf DEF StartPost, Iterating, TypeFrames
<1>3. CASE StartDone \/ StartDrop \/ StartReject \/ StartRequeue
  BY <1>3 DEF StartDone, StartDrop, StartReject, StartRequeue, Reject, ring
<1>4. CASE Reclaim
  <2>1. eng = "on" /\ ReleaseWith(Window(rin, ReclaimEnd, NTX), {})
    BY <1>4 DEF Reclaim
  <2>2. i \notin Window(rin, ReclaimEnd, NTX)
    BY <2>1, ReclaimBehindEngine
  <2> QED
    BY <1>0, <2>1, <2>2 DEF ReleaseWith
<1>5. CASE HwFetch \/ Up \/ UpFails \/ FatalStop
  BY <1>5 DEF HwFetch, Up, UpFails, FatalStop, ring
<1>6. CASE Down
  BY <1>6 DEF Down
<1>7. CASE UNCHANGED vars
  BY <1>7 DEF vars, ring
<1> QED
  BY <1>1, <1>2, <1>3, <1>4, <1>5, <1>6, <1>7 DEF Next, StartLocked

LEMMA RingInvariants == Spec => [](TypeOK /\ EvenEmpty /\ Holders /\ EngineInOrder)
<1>1. Init => EvenEmpty /\ Holders /\ EngineInOrder
  BY Sizes DEF Init, EvenEmpty, Holders, Ownership, Apart, QueueOnce, RingOnce, InQueue, OnRing,
     EngineInOrder
<1>2. TypeOK /\ EvenEmpty /\ Holders /\ EngineInOrder /\ [Next]_vars
        => EvenEmpty' /\ Holders' /\ EngineInOrder'
  BY EvenStep, HoldersStep, OrderStep
<1> QED
  BY <1>1, <1>2, TypeCorrect, PTL DEF Spec

\* While the engine runs, tx_reclaim, start_locked and a re-init leave every mbuf
\* alone whose descriptor the engine has yet to fetch.
THEOREM FreedOnlyFetched == Spec => FreedAfterFetch
<1>1. TypeOK /\ EvenEmpty /\ EngineInOrder /\ [Next]_vars
        => [eng' = "on" =>
              \A i \in ToFetch : slot[i] # None /\ body[i] => slot'[i] = slot[i]]_vars
  BY FreedStep
<1> QED
  BY <1>1, RingInvariants, PTL DEF Spec, FreedAfterFetch

\* A slot with an mbuf is a body slot: tx_reclaim frees what it passes.
BodyMarked == \A i \in TxSlots : slot[i] # None => body[i]

LEMMA MarkedStep ==
  ASSUME TypeOK, EvenEmpty, BodyMarked, [Next]_vars PROVE BodyMarked'
<1>0. TypeFrames /\ TypeIndex /\ TypeSlots
  BY TypeParts
<1>a. ASSUME UNCHANGED <<slot, body>> PROVE BodyMarked'
  BY <1>a DEF BodyMarked, TxSlots
<1>b. ASSUME NEW f \in Frames, Post(f) PROVE BodyMarked'
  <2>1. Adv(rout, NTX) \in TxSlots /\ Adv(rout, NTX) # rout
    BY <1>0, PostSlots
  <2>2. /\ slot' = [slot EXCEPT ![rout] = None, ![Adv(rout, NTX)] = f]
        /\ body' = [body EXCEPT ![rout] = FALSE, ![Adv(rout, NTX)] = TRUE]
    BY <1>b DEF Post
  <2> QED
    BY <1>0, <2>1, <2>2 DEF BodyMarked, TypeSlots, TypeIndex, TxSlots
<1>1. ASSUME NEW f \in Frames, Handover(f) PROVE BodyMarked'
  <2>1. Post(f) \/ UNCHANGED <<slot, body>>
    BY <1>1 DEF Handover, TransmitRefused, Transmit, RawXmit, Reject, ring
  <2> QED
    BY <1>a, <1>b, <2>1
<1>2. CASE StartPost
  BY <1>0, <1>b, <1>2, TailOf DEF StartPost, Iterating, TypeFrames
<1>3. CASE StartDone \/ StartDrop \/ StartReject \/ StartRequeue
  BY <1>a, <1>3 DEF StartDone, StartDrop, StartReject, StartRequeue, Reject, ring
<1>4. CASE Reclaim \/ Down
  <2>1. body' = body /\ \A i \in TxSlots : slot'[i] # None => slot'[i] = slot[i]
    BY <1>4 DEF Reclaim, Down, ReleaseWith
  <2> QED
    BY <2>1 DEF BodyMarked, TxSlots
<1>5. CASE HwFetch \/ UpFails \/ FatalStop \/ Up
  BY <1>a, <1>5 DEF HwFetch, UpFails, FatalStop, Up, ring
<1>6. CASE UNCHANGED vars
  BY <1>a, <1>6 DEF vars, ring
<1> QED
  BY <1>1, <1>2, <1>3, <1>4, <1>5, <1>6 DEF Next, StartLocked

\* Wherever the engine is, tx_reclaim leaves posted exactly what the engine has
\* yet to read, and frees every mbuf behind it: also when the engine is idle,
\* between a header and its body, or on a ring that was initialised again.
THEOREM ReclaimLeavesUnread == Spec => []ReclaimCatchesUp
<1>1. Init => BodyMarked
  BY DEF Init, BodyMarked
<1>2. TypeOK /\ EvenEmpty /\ BodyMarked /\ [Next]_vars => BodyMarked'
  BY MarkedStep
<1>3. TypeOK /\ BodyMarked /\ EngineInOrder => ReclaimCatchesUp
  <2> SUFFICES ASSUME TypeOK, BodyMarked, EngineInOrder, eng = "on" PROVE ReclaimCatchesUp
    BY DEF ReclaimCatchesUp
  <2>1. /\ NTX \in Nat \ {0} /\ TxSlots = Slots(NTX)
        /\ rin \in Slots(NTX) /\ rout \in Slots(NTX) /\ cd \in Slots(NTX)
        /\ Active(rin, cd, NTX) <= Active(rin, rout, NTX) /\ ptr = rout
    BY TypeParts, Sizes DEF TypeIndex, EngineInOrder
  <2>2. ReclaimEnd = cd
    BY <2>1 DEF ReclaimEnd
  <2>3. Window(ReclaimEnd, rout, NTX) = ToFetch
    BY <2>1, <2>2 DEF ToFetch
  <2>4. ASSUME NEW i \in InFlight \ ToFetch, slot[i] # None
        PROVE  i \in Window(rin, ReclaimEnd, NTX) /\ body[i]
    <3>1. i \in Slots(NTX) /\ i \in Window(rin, rout, NTX) /\ i \notin Window(cd, rout, NTX)
      BY <2>1, <2>4 DEF InFlight, ToFetch, Window
    <3>2. i \in Window(rin, cd, NTX)
      BY <2>1, <3>1, WindowSplit
    <3> QED
      BY <2>1, <2>2, <2>4, <3>1, <3>2 DEF BodyMarked
  <2> QED
    BY <2>3, <2>4 DEF ReclaimCatchesUp
<1> QED
  BY <1>1, <1>2, <1>3, RingInvariants, PTL DEF Spec

\* FetchedIsOwned, by parity: headers are posted in even slots and bodies in odd
\* ones, and each header has the cache entry that its slot calls for.
Fetchable ==
  eng = "on" =>
    \A i \in ToFetch :
      /\ i % 2 = 0 => /\ desc[i] = Header(CacheEntry(i))
                      /\ desc[Adv(i, NTX)].kind = "body"
                      /\ hdr[CacheEntry(i)] = desc[Adv(i, NTX)].of
      /\ i % 2 = 1 => /\ desc[i].kind = "body"
                      /\ slot[i] = desc[i].of
                      /\ slot[i] # None

\* The cache entry of a slot without the modulus.
LEMMA CacheEntryIs ==
  ASSUME NEW i \in TxSlots PROVE CacheEntry(i) = i \div 2
<1>1. i \in Nat /\ i < 2 * NFrames /\ NFrames \in Nat \ {0}
  BY Sizes DEF Slots
<1>2. i \div 2 \in Nat /\ i \div 2 < NFrames
  BY <1>1
<1>3. \A m \in Nat, n \in Nat \ {0} : m < n => m % n = m
  OBVIOUS
<1> QED
  BY <1>1, <1>2, <1>3 DEF CacheEntry

\* Two header slots have two cache entries.
LEMMA CacheEntryInjective ==
  ASSUME NEW i \in TxSlots, NEW j \in TxSlots, i % 2 = 0, j % 2 = 0,
         CacheEntry(i) = CacheEntry(j)
  PROVE  i = j
<1>1. i \in Nat /\ j \in Nat
  BY Sizes DEF Slots
<1>2. i \div 2 = j \div 2
  BY CacheEntryIs
<1> QED
  BY <1>1, <1>2

\* Rewriting the cache entry of the next frame leaves those on the ring alone.
LEMMA RejectKeepsFetchable ==
  ASSUME TypeOK, EvenEmpty, EngineInOrder, Fetchable, NEW f \in Frames, Reject(f)
  PROVE  Fetchable'
<1>0. TypeIndex /\ TypeDesc /\ CacheEntry(rout) \in 0 .. NFrames - 1
  BY TypeParts, CacheEntryRange DEF TypeIndex
<1>1. UNCHANGED <<eng, cd, ptr, slot, desc>>
  BY DEF Reject, hw
<1>2. SUFFICES ASSUME eng = "on", NEW i \in ToFetch
               PROVE  /\ i % 2 = 0 => /\ desc[i] = Header(CacheEntry(i))
                                      /\ desc[Adv(i, NTX)].kind = "body"
                                      /\ hdr'[CacheEntry(i)] = desc[Adv(i, NTX)].of
                      /\ i % 2 = 1 => /\ desc[i].kind = "body"
                                      /\ slot[i] = desc[i].of
                                      /\ slot[i] # None
  BY <1>1 DEF Fetchable, ToFetch
<1>3. i \in TxSlots /\ i # rout
  <2>1. ptr = rout /\ i \in Window(cd, rout, NTX)
    BY <1>2 DEF ToFetch, EngineInOrder
  <2>2. rout \notin Window(cd, rout, NTX)
    BY <1>0, Sizes, WindowEnd DEF TypeIndex
  <2> QED
    BY <2>1, <2>2, Sizes DEF Window
<1>4. i % 2 = 0 => CacheEntry(i) # CacheEntry(rout)
  BY <1>0, <1>3, CacheEntryInjective DEF TypeIndex, EvenEmpty
<1>5. i % 2 = 0 => hdr'[CacheEntry(i)] = hdr[CacheEntry(i)]
  BY <1>0, <1>3, <1>4, CacheEntryRange DEF TypeDesc, Reject, WriteHeader
<1> QED
  BY <1>2, <1>5 DEF Fetchable

\* A post adds two fetchable slots and leaves the others alone.
LEMMA PostKeepsFetchable ==
  ASSUME TypeOK, EvenEmpty, EngineInOrder, Fetchable, NEW f \in Frames, Post(f)
  PROVE  Fetchable'
<1> DEFINE b == Adv(rout, NTX)
<1>0. TypeIndex /\ TypeSlots /\ TypeDesc
  BY TypeParts
<1>1. /\ NTX \in Nat \ {0} /\ rout \in TxSlots /\ b \in TxSlots /\ b # rout
      /\ cd \in TxSlots /\ rin \in TxSlots /\ TxSlots = Slots(NTX)
      /\ rout % 2 = 0 /\ b % 2 = 1
      /\ CacheEntry(rout) \in 0 .. NFrames - 1
  BY <1>0, Sizes, PostSlots, CacheEntryRange DEF TypeIndex, EvenEmpty
<1>2. /\ eng' = eng /\ cd' = cd /\ ptr' = Adv(b, NTX)
      /\ slot[b] = None /\ slot' = [slot EXCEPT ![b] = f]
  BY <1>0, PostFills DEF Post
<1>3. /\ desc' = [desc EXCEPT ![rout] = Header(CacheEntry(rout)), ![b] = Body(f)]
      /\ hdr' = [hdr EXCEPT ![CacheEntry(rout)] = f]
  BY DEF Post, WriteHeader
<1>4. /\ desc'[rout] = Header(CacheEntry(rout)) /\ desc'[b] = Body(f)
      /\ \A i \in TxSlots : i # rout /\ i # b => desc'[i] = desc[i]
  BY <1>0, <1>1, <1>3 DEF TypeDesc
<1>5. /\ hdr'[CacheEntry(rout)] = f
      /\ \A i \in TxSlots : i # rout /\ i % 2 = 0 => hdr'[CacheEntry(i)] = hdr[CacheEntry(i)]
  BY <1>0, <1>1, <1>3, CacheEntryInjective, CacheEntryRange DEF TypeDesc
<1>6. SUFFICES ASSUME eng = "on", NEW i \in Window(cd, Adv(b, NTX), NTX)
               PROVE  /\ i % 2 = 0 => /\ desc'[i] = Header(CacheEntry(i))
                                      /\ desc'[Adv(i, NTX)].kind = "body"
                                      /\ hdr'[CacheEntry(i)] = desc'[Adv(i, NTX)].of
                      /\ i % 2 = 1 => /\ desc'[i].kind = "body"
                                      /\ slot'[i] = desc'[i].of
                                      /\ slot'[i] # None
  BY <1>2 DEF Fetchable, ToFetch
<1>7. ptr = rout /\ Active(cd, rout, NTX) < NTX - 2
  <2>1. Active(rin, rout, NTX) < NTX - 2 /\ Active(rin, rout, NTX) \in 0 .. NTX - 1
    BY <1>1, ActiveRange DEF Post, RingFull
  <2>2. Active(rin, cd, NTX) \in 0 .. NTX - 1
    BY <1>1, ActiveRange
  <2>3. ptr = rout /\ Active(rin, cd, NTX) <= Active(rin, rout, NTX)
    BY <1>6 DEF EngineInOrder
  <2>4. Active(cd, rout, NTX) = Active(rin, rout, NTX) - Active(rin, cd, NTX)
    BY <1>1, <2>3, ActiveDifference
  <2> QED
    BY <1>1, <2>1, <2>2, <2>3, <2>4
<1>8. i \in TxSlots /\ (i \in ToFetch \/ i = rout \/ i = b)
  BY <1>1, <1>6, <1>7, WindowGrows DEF ToFetch, Window
<1>9. None \notin Frames
  BY FramesAssumption
<1>10. CASE i = rout
  BY <1>1, <1>4, <1>5, <1>10 DEF Body
<1>11. CASE i = b
  BY <1>0, <1>1, <1>2, <1>4, <1>9, <1>11 DEF Body, TypeSlots
<1>12. CASE i \in ToFetch
  <2>1. i # rout
    BY <1>1, <1>7, <1>12, WindowEnd DEF ToFetch
  <2>2. i # b
    BY <1>1, <1>2, <1>6, <1>12 DEF Fetchable
  <2>3. desc'[i] = desc[i] /\ slot'[i] = slot[i]
    BY <1>0, <1>2, <1>4, <1>8, <2>1, <2>2 DEF TypeSlots
  <2>4. ASSUME i % 2 = 0 PROVE desc'[Adv(i, NTX)] = desc[Adv(i, NTX)]
    <3>1. Adv(i, NTX) \in TxSlots /\ Adv(i, NTX) % 2 = 1
      BY <1>1, <1>8, <2>4, RingAssumption, AdvEven, AdvInSlots
    <3>2. Adv(i, NTX) # b
      BY <1>1, <1>8, <2>1, AdvInjective
    <3>3. Adv(i, NTX) # rout
      BY <1>1, <3>1
    <3> QED
      BY <1>4, <3>1, <3>2, <3>3
  <2> QED
    BY <1>5, <1>6, <1>8, <1>12, <2>1, <2>3, <2>4 DEF Fetchable
<1> QED
  BY <1>8, <1>10, <1>11, <1>12

\* An engine that has fetched one descriptor has that many fewer to fetch.
LEMMA FetchKeepsFetchable ==
  ASSUME TypeOK, Fetchable, HwFetch PROVE Fetchable'
<1>1. /\ NTX \in Nat \ {0} /\ cd \in Slots(NTX) /\ ptr \in Slots(NTX)
      /\ cd # ptr /\ cd' = Adv(cd, NTX)
      /\ UNCHANGED <<eng, ptr, slot, desc, hdr>>
  BY TypeParts, Sizes DEF TypeIndex, HwFetch, ring
<1>2. ToFetch' \subseteq ToFetch
  BY <1>1, WindowAdvances DEF ToFetch
<1> QED
  BY <1>1, <1>2 DEF Fetchable

LEMMA FetchableStep ==
  ASSUME TypeOK, EvenEmpty, EngineInOrder, Fetchable, [Next]_vars PROVE Fetchable'
<1>0. TypeFrames /\ TypeIndex
  BY TypeParts
<1>a. ASSUME UNCHANGED <<eng, cd, ptr, slot, desc, hdr>> PROVE Fetchable'
  BY <1>a DEF Fetchable, ToFetch
<1>1. ASSUME NEW f \in Frames, TransmitRefused(f) PROVE Fetchable'
  BY <1>a, <1>1 DEF TransmitRefused, ring, hw
<1>2. ASSUME NEW f \in Frames, Transmit(f) PROVE Fetchable'
  BY <1>a, <1>2 DEF Transmit, ring, hw
<1>3. ASSUME NEW f \in Frames, RawXmit(f) PROVE Fetchable'
  <2>1. Post(f) \/ Reject(f) \/ UNCHANGED <<eng, cd, ptr, slot, desc, hdr>>
    BY <1>3 DEF RawXmit, ring, hw
  <2> QED
    BY <1>a, <2>1, PostKeepsFetchable, RejectKeepsFetchable
<1>4. CASE StartDone
  BY <1>a, <1>4 DEF StartDone, ring, hw
<1>5. CASE StartDrop
  BY <1>a, <1>5 DEF StartDrop, ring, hw
<1>6. CASE StartPost
  BY <1>0, <1>6, TailOf, PostKeepsFetchable DEF StartPost, Iterating, TypeFrames
<1>7. CASE StartReject
  BY <1>0, <1>7, TailOf, RejectKeepsFetchable DEF StartReject, Iterating, TypeFrames
<1>8. CASE StartRequeue
  BY <1>a, <1>8 DEF StartRequeue, ring, hw
<1>9. CASE HwFetch
  BY <1>9, FetchKeepsFetchable
<1>10. CASE Reclaim
  <2>1. /\ eng = "on" /\ ReleaseWith(Window(rin, ReclaimEnd, NTX), {})
        /\ UNCHANGED <<eng, cd, ptr, desc, hdr>>
    BY <1>10 DEF Reclaim, hw
  <2>2. ASSUME NEW i \in ToFetch PROVE slot'[i] = slot[i]
    <3>1. i \notin Window(rin, ReclaimEnd, NTX)
      BY <2>1, ReclaimBehindEngine
    <3>2. i \in TxSlots
      BY Sizes DEF ToFetch, Window
    <3> QED
      BY <2>1, <3>1, <3>2 DEF ReleaseWith
  <2>3. ToFetch' = ToFetch
    BY <2>1 DEF ToFetch
  <2> QED
    BY <2>1, <2>2, <2>3 DEF Fetchable
<1>11. CASE Up
  <2>1. Active(0, 0, NTX) \in 0 .. NTX - 1 /\ cd' = 0 /\ ptr' = 0
    BY <1>11, Sizes, ActiveRange DEF Up
  <2>2. \A i \in TxSlots : Active(0, i, NTX) \in Nat /\ Active(0, 0, NTX) = 0
    BY Sizes, ActiveRange
  <2>3. ToFetch' = {}
    BY <2>1, <2>2, Sizes DEF ToFetch, Window
  <2> QED
    BY <2>3 DEF Fetchable
<1>12. CASE UpFails
  <2>1. CASE UNCHANGED hw
    BY <1>a, <1>12, <2>1 DEF UpFails, ring, hw
  <2>2. CASE eng' = "off"
    BY <2>2 DEF Fetchable
  <2> QED
    BY <1>12, <2>1, <2>2 DEF UpFails
<1>13. CASE FatalStop
  BY <1>a, <1>13 DEF FatalStop, ring, hw
<1>14. CASE Down
  BY <1>14 DEF Down, Fetchable
<1>15. CASE UNCHANGED vars
  BY <1>a, <1>15 DEF vars, ring, hw
<1> QED
  BY <1>1, <1>2, <1>3, <1>4, <1>5, <1>6, <1>7, <1>8, <1>9, <1>10, <1>11, <1>12, <1>13, <1>14,
     <1>15, StepCases

\* Whatever the engine has yet to fetch is what the driver posted: a header with
\* its own frame's entry of the cache, or the body of an mbuf that the slot holds
\* and the driver owns.
THEOREM EngineFetchesOwned == Spec => []FetchedIsOwned
<1>1. Init => Fetchable
  BY DEF Init, Fetchable
<1>2. TypeOK /\ EvenEmpty /\ EngineInOrder /\ Fetchable /\ [Next]_vars => Fetchable'
  BY FetchableStep
<1>3. TypeOK /\ Holders /\ Fetchable => FetchedIsOwned
  <2> SUFFICES ASSUME TypeOK, Holders, Fetchable, eng = "on", NEW i \in ToFetch
               PROVE  \/ /\ desc[i].kind = "header"
                         /\ desc[Adv(i, NTX)].kind = "body"
                         /\ hdr[desc[i].of] = desc[Adv(i, NTX)].of
                      \/ /\ desc[i].kind = "body"
                         /\ slot[i] = desc[i].of
                         /\ owner[slot[i]] = "driver"
    BY DEF FetchedIsOwned
  <2>1. i \in TxSlots /\ (i % 2 = 0 \/ i % 2 = 1)
    BY Sizes DEF ToFetch, Window, Slots
  <2>2. CASE i % 2 = 0
    <3>1. /\ desc[i] = Header(CacheEntry(i)) /\ desc[Adv(i, NTX)].kind = "body"
          /\ hdr[CacheEntry(i)] = desc[Adv(i, NTX)].of
      BY <2>2 DEF Fetchable
    <3>2. Header(CacheEntry(i)).kind = "header" /\ Header(CacheEntry(i)).of = CacheEntry(i)
      BY DEF Header
    <3> QED
      BY <3>1, <3>2
  <2>3. CASE i % 2 = 1
    <3>1. desc[i].kind = "body" /\ slot[i] = desc[i].of /\ slot[i] # None
      BY <2>3 DEF Fetchable
    <3>2. slot[i] \in Frames /\ OnRing(slot[i])
      BY <2>1, <3>1, TypeParts DEF TypeSlots, OnRing
    <3>3. owner[slot[i]] = "driver"
      BY <3>2 DEF Holders, Ownership
    <3> QED
      BY <3>1, <3>3
  <2> QED
    BY <2>1, <2>2, <2>3
<1> QED
  BY <1>1, <1>2, <1>3, RingInvariants, PTL DEF Spec

-----------------------------------------------------------------------------
(* Slots that a re-init forgot, and frames that are encapsulated twice.    *)

\* A slot outside the window that holds an mbuf.
Forgotten(i) == i \in TxSlots /\ i \notin InFlight /\ slot[i] # None

\* Nothing gets it back: posting stops in front of it, reclaim and teardown
\* look at the window only.
LEMMA ForgottenStep ==
  ASSUME TypeOK, EvenEmpty, EngineInOrder, [Next]_vars, NEW i, Forgotten(i)
  PROVE  Forgotten(i)'
<1>0. TypeFrames /\ TypeIndex /\ TypeSlots
  BY TypeParts
<1>00. /\ NTX \in Nat \ {0} /\ rin \in Slots(NTX) /\ rout \in Slots(NTX)
       /\ cd \in Slots(NTX) /\ 0 \in Slots(NTX) /\ TxSlots = Slots(NTX)
  BY <1>0, Sizes DEF TypeIndex
<1>a. ASSUME UNCHANGED <<slot, rin, rout>> PROVE Forgotten(i)'
  BY <1>a DEF Forgotten, InFlight, TxSlots
<1>b. ASSUME NEW f \in Frames, Post(f) PROVE Forgotten(i)'
  <2>1. Active(rin, rout, NTX) \in 0 .. NTX - 1 /\ Active(rin, rout, NTX) < NTX - 2
    BY <1>00, <1>b, ActiveRange DEF Post, RingFull
  <2>2. Window(rin, Adv(Adv(rout, NTX), NTX), NTX)
          \subseteq Window(rin, rout, NTX) \cup {rout, Adv(rout, NTX)}
    BY <1>00, <2>1, WindowGrows
  <2>3. InFlight' = Window(rin, Adv(Adv(rout, NTX), NTX), NTX)
    BY <1>b DEF Post, InFlight
  <2>4. slot[rout] = None /\ slot[Adv(rout, NTX)] = None
    BY <1>0, <1>b, PostFills DEF EvenEmpty, TypeIndex
  <2>5. i \notin InFlight'
    BY <2>2, <2>3, <2>4 DEF Forgotten, InFlight
  <2>6. slot'[i] = slot[i]
    BY <1>0, <1>b, <2>4, PostFills DEF Forgotten, TypeSlots
  <2> QED
    BY <2>5, <2>6 DEF Forgotten, TxSlots
<1>c. ASSUME rin' = rout' PROVE i \notin InFlight' \/ rout' \notin Slots(NTX)
  <2>1. rout' \in Slots(NTX) => Active(rout', rout', NTX) = 0
    BY <1>00, ActiveRange
  <2>2. i \in Slots(NTX) /\ rout' \in Slots(NTX) => Active(rout', i, NTX) \in Nat
    BY <1>00, ActiveRange
  <2> QED
    BY <1>c, <2>1, <2>2 DEF InFlight, Window
<1>1. ASSUME NEW f \in Frames, Handover(f) PROVE Forgotten(i)'
  <2>1. Post(f) \/ UNCHANGED <<slot, rin, rout>>
    BY <1>1 DEF Handover, TransmitRefused, Transmit, RawXmit, Reject, ring
  <2> QED
    BY <1>a, <1>b, <2>1
<1>2. CASE StartPost
  BY <1>0, <1>b, <1>2, TailOf DEF StartPost, Iterating, TypeFrames
<1>3. CASE StartDone \/ StartDrop \/ StartReject \/ StartRequeue
  BY <1>a, <1>3 DEF StartDone, StartDrop, StartReject, StartRequeue, Reject, ring
<1>4. CASE Reclaim
  <2>1. /\ ReleaseWith(Window(rin, ReclaimEnd, NTX), {}) /\ rin' = ReclaimEnd
        /\ rout' = rout /\ eng = "on"
    BY <1>4 DEF Reclaim
  <2>2. Active(rin, cd, NTX) <= Active(rin, rout, NTX) /\ ReclaimEnd = cd
    BY <2>1 DEF EngineInOrder, ReclaimEnd
  <2>3. ASSUME i \in Window(cd, rout, NTX) PROVE i \in InFlight
    <3>1. i \in Slots(NTX) /\ Active(rin, i, NTX) < Active(rin, rout, NTX)
      BY <1>00, <2>2, <2>3, WindowOffsets
    <3> QED
      BY <3>1 DEF InFlight, Window
  <2>4. ASSUME i \in Window(rin, cd, NTX) PROVE i \in InFlight
    <3>1. /\ i \in Slots(NTX) /\ Active(rin, i, NTX) < Active(rin, cd, NTX)
          /\ Active(rin, i, NTX) \in Int /\ Active(rin, cd, NTX) \in Int
          /\ Active(rin, rout, NTX) \in Int
      BY <1>00, <2>4, ActiveRange DEF Window
    <3> QED
      BY <2>2, <3>1 DEF InFlight, Window
  <2>5. slot'[i] = slot[i]
    BY <2>1, <2>2, <2>4 DEF ReleaseWith, Forgotten
  <2> QED
    BY <2>1, <2>2, <2>3, <2>5 DEF Forgotten, InFlight, TxSlots
<1>5. CASE HwFetch \/ UpFails \/ FatalStop
  BY <1>a, <1>5 DEF HwFetch, UpFails, FatalStop, ring
<1>6. CASE Up
  <2>1. rin' = rout' /\ rout' = 0 /\ slot' = slot
    BY <1>6 DEF Up
  <2> QED
    BY <2>1, <1>00, <1>c DEF Forgotten, TxSlots
<1>7. CASE Down
  <2>1. rin' = rout' /\ rout' = rout /\ ReleaseWith(InFlight, Queued)
    BY <1>7 DEF Down, Queued
  <2>2. slot'[i] = slot[i]
    BY <2>1 DEF ReleaseWith, Forgotten
  <2> QED
    BY <2>1, <2>2, <1>00, <1>c DEF Forgotten, TxSlots
<1>8. CASE UNCHANGED vars
  BY <1>a, <1>8 DEF vars, ring
<1> QED
  BY <1>1, <1>2, <1>3, <1>4, <1>5, <1>6, <1>7, <1>8 DEF Next, StartLocked

\* The driver never finds an mbuf again that a re-init over a ring with posted
\* frames forgot: it stays in its slot, with its node reference, until detach.
THEOREM ForgottenForever == Spec => [][\A i \in TxSlots : Forgotten(i) => Forgotten(i)']_vars
<1>1. TypeOK /\ EvenEmpty /\ EngineInOrder /\ [Next]_vars
        => [\A i \in TxSlots : Forgotten(i) => Forgotten(i)']_vars
  BY ForgottenStep
<1> QED
  BY <1>1, RingInvariants, PTL DEF Spec

\* EncapTwiceOnlyWhenStale, with what it rests on: an encapsulated frame can be
\* back in the queue only once something is forgotten.
OnceEncapsulated ==
  ~Stale => \A f \in Frames : owner[f] = "driver" =>
              /\ enc[f] <= 1
              /\ InQueue(f) => enc[f] = 0

LEMMA StaleStep ==
  ASSUME TypeOK, EvenEmpty, EngineInOrder, [Next]_vars, Stale PROVE Stale'
<1>1. PICK i \in TxSlots : Forgotten(i)
  BY DEF Stale, Forgotten
<1>2. Forgotten(i)'
  BY <1>1, ForgottenStep
<1> QED
  BY <1>2 DEF Stale, Forgotten

\* The frame at the head of the queue is requeued only behind a forgotten slot.
LEMMA RequeueIsStale ==
  ASSUME TypeOK, EvenEmpty, ~RingFull, BodySlotBusy PROVE Stale
<1>0. TypeIndex
  BY TypeParts
<1>1. /\ NTX \in Nat \ {0} /\ NTX >= 4 /\ rin \in Slots(NTX) /\ rout \in Slots(NTX)
      /\ Adv(rout, NTX) \in TxSlots /\ TxSlots = Slots(NTX)
  BY <1>0, Sizes, RingAssumption, PostSlots DEF TypeIndex
<1>2. Active(rin, rout, NTX) \in 0 .. NTX - 1 /\ Active(rin, rout, NTX) < NTX - 2
  BY <1>1, ActiveRange DEF RingFull
<1>3. Active(rin, Adv(rout, NTX), NTX) = Active(rin, rout, NTX) + 1
  BY <1>1, <1>2, ActivePost
<1>4. Adv(rout, NTX) \notin InFlight
  BY <1>2, <1>3 DEF InFlight, Window
<1> QED
  BY <1>1, <1>4 DEF Stale, BodySlotBusy

LEMMA EncapStep ==
  ASSUME TypeOK, EvenEmpty, EngineInOrder, Holders, OnceEncapsulated, [Next]_vars
  PROVE  OnceEncapsulated'
<1> SUFFICES ASSUME ~Stale', NEW f \in Frames, owner'[f] = "driver"
             PROVE  enc'[f] <= 1 /\ (InQueue(f)' => enc'[f] = 0)
  BY DEF OnceEncapsulated
<1>0. TypeFrames /\ TypeIndex /\ TypeSlots /\ ~Stale /\ Holders'
  BY TypeParts, StaleStep, HoldersStep
<1>a. owner[f] = "driver" => enc[f] <= 1 /\ (InQueue(f) => enc[f] = 0)
  BY <1>0 DEF OnceEncapsulated
<1>b. ASSUME UNCHANGED <<snd, enc>>, owner[f] = "driver"
      PROVE  enc'[f] <= 1 /\ (InQueue(f)' => enc'[f] = 0)
  BY <1>a, <1>b DEF InQueue
<1>c. ASSUME NEW g \in Frames, enc' = [enc EXCEPT ![g] = 0], snd' = snd \/ snd' = Append(snd, g),
             f # g => owner'[f] = owner[f]
      PROVE  enc'[f] <= 1 /\ (InQueue(f)' => enc'[f] = 0)
  <2>1. CASE f = g
    BY <1>0, <1>c, <2>1 DEF TypeFrames
  <2>2. CASE f # g
    <3>1. InQueue(f)' => InQueue(f)
      BY <1>0, <1>c, <2>2 DEF InQueue, TypeFrames
    <3> QED
      BY <1>0, <1>a, <1>c, <2>2, <3>1 DEF TypeFrames
  <2> QED
    BY <2>1, <2>2
<1>d. ASSUME snd # <<>>, snd' = Tail(snd), owner'[f] = owner[f],
             enc'[f] = enc[f] \/ (f = Head(snd) /\ enc'[f] <= enc[f] + 1)
      PROVE  enc'[f] <= 1 /\ (InQueue(f)' => enc'[f] = 0)
  <2>1. InQueue(f)' => \E k \in 2 .. Len(snd) : snd[k] = f
    <3>1. \A k \in 1 .. Len(snd') : k + 1 \in 2 .. Len(snd) /\ snd'[k] = snd[k + 1]
      BY <1>0, <1>d DEF TypeFrames
    <3> QED
      BY <3>1 DEF InQueue
  <2>2. InQueue(f)' => f # Head(snd) /\ InQueue(f)
    BY <1>0, <1>d, <2>1 DEF TypeFrames, Holders, QueueOnce, InQueue
  <2>3. f = Head(snd) => InQueue(f)
    <3>1. Head(snd) = snd[1] /\ 1 \in 1 .. Len(snd)
      BY <1>0, <1>d DEF TypeFrames
    <3> QED
      BY <3>1 DEF InQueue
  <2>4. enc[f] \in 0 .. 2 /\ owner[f] = "driver"
    BY <1>0, <1>d DEF TypeFrames
  <2> QED
    BY <1>a, <1>d, <2>2, <2>3, <2>4
<1>1. ASSUME NEW g \in Frames, TransmitRefused(g) PROVE enc'[f] <= 1 /\ (InQueue(f)' => enc'[f] = 0)
  <2>1. owner[f] = "driver"
    BY <1>0, <1>1 DEF TransmitRefused, TypeFrames
  <2> QED
    BY <1>1, <1>b, <2>1 DEF TransmitRefused, queue
<1>2. ASSUME NEW g \in Frames, Transmit(g) PROVE enc'[f] <= 1 /\ (InQueue(f)' => enc'[f] = 0)
  <2>1. f # g => owner'[f] = owner[f]
    BY <1>0, <1>2 DEF Transmit, TypeFrames
  <2> QED
    BY <1>2, <1>c, <2>1 DEF Transmit
<1>3. ASSUME NEW g \in Frames, RawXmit(g) PROVE enc'[f] <= 1 /\ (InQueue(f)' => enc'[f] = 0)
  <2>1. f # g => owner'[f] = owner[f]
    BY <1>0, <1>3 DEF RawXmit, TypeFrames
  <2> QED
    BY <1>3, <1>c, <2>1 DEF RawXmit, queue
<1>4. CASE StartDone
  BY <1>4, <1>b DEF StartDone, ledger
<1>5. CASE StartDrop \/ StartReject
  <2>1. /\ snd # <<>> /\ Head(snd) \in Frames
        /\ \E fate \in {"freed", "leaked"} : Drop(Head(snd), fate)
    BY <1>0, <1>5, TailOf, FateIs DEF StartDrop, StartReject, Iterating, TypeFrames
  <2>2. f # Head(snd) /\ owner'[f] = owner[f] /\ snd' = Tail(snd)
    BY <1>0, <2>1 DEF Drop, TypeFrames
  <2>3. enc'[f] = enc[f]
    BY <1>0, <1>5, <2>1, <2>2 DEF StartDrop, StartReject, Encap, TypeFrames
  <2> QED
    BY <1>d, <2>1, <2>2, <2>3
<1>6. CASE StartPost
  <2>1. snd # <<>> /\ Head(snd) \in Frames /\ Encap(Head(snd)) /\ snd' = Tail(snd) /\ owner' = owner
    BY <1>0, <1>6, TailOf DEF StartPost, Iterating, TypeFrames
  <2>2. enc'[f] = enc[f] \/ (f = Head(snd) /\ enc'[f] = enc[f] + 1)
    BY <1>0, <2>1 DEF Encap, TypeFrames
  <2>3. enc[f] \in 0 .. 2
    BY <1>0 DEF TypeFrames
  <2> QED
    BY <1>d, <2>1, <2>2, <2>3
<1>7. CASE StartRequeue
  <2>1. ~RingFull /\ BodySlotBusy
    BY <1>7 DEF StartRequeue, Iterating, NoBufs
  <2> QED
    BY <1>0, <2>1, RequeueIsStale
<1>8. CASE HwFetch \/ Up \/ UpFails \/ FatalStop
  BY <1>8, <1>b DEF HwFetch, Up, UpFails, FatalStop, queue, ledger
<1>9. ASSUME NEW S, NEW Q, ReleaseWith(S, Q) PROVE owner[f] = "driver"
  BY <1>9 DEF ReleaseWith
<1>10. CASE Reclaim
  <2>1. owner[f] = "driver"
    BY <1>9, <1>10 DEF Reclaim
  <2> QED
    BY <1>10, <1>b, <2>1 DEF Reclaim, queue
<1>11. CASE Down
  <2>1. owner[f] = "driver" /\ enc' = enc /\ snd' = <<>>
    BY <1>9, <1>11 DEF Down
  <2>2. ~InQueue(f)'
    BY <2>1 DEF InQueue
  <2> QED
    BY <1>a, <2>1, <2>2
<1>12. CASE UNCHANGED vars
  BY <1>12, <1>b DEF vars, queue, ledger
<1> QED
  BY <1>1, <1>2, <1>3, <1>4, <1>5, <1>6, <1>7, <1>8, <1>10, <1>11, <1>12, StepCases

\* start_locked hands a protected frame to ieee80211_crypto_encap() a second time
\* only once a re-init has forgotten a posted frame: the requeue after ENOBUFS,
\* which follows the encapsulation, is reached in no other way.
THEOREM EncapsulatedOnce == Spec => []EncapTwiceOnlyWhenStale
<1>1. Init => OnceEncapsulated
  BY DEF Init, OnceEncapsulated
<1>2. TypeOK /\ EvenEmpty /\ Holders /\ EngineInOrder /\ OnceEncapsulated /\ [Next]_vars
        => OnceEncapsulated'
  BY EncapStep
<1>3. TypeOK /\ OnceEncapsulated => EncapTwiceOnlyWhenStale
  <2> SUFFICES ASSUME TypeOK, OnceEncapsulated, ~Stale, NEW f \in Frames, owner[f] = "driver"
               PROVE  ~(enc[f] > 1)
    BY DEF EncapTwiceOnlyWhenStale
  <2>1. enc[f] \in 0 .. 2
    BY TypeParts DEF TypeFrames
  <2> QED
    BY <2>1 DEF OnceEncapsulated
<1> QED
  BY <1>1, <1>2, <1>3, RingInvariants, TypeCorrect, PTL DEF Spec

-----------------------------------------------------------------------------
(* The frames on the ring, as a sequence.                                  *)

\* Where the m-th youngest body is, without the modulus.
LEMMA BodySlotIs ==
  ASSUME TypeIndex, EvenEmpty, NEW m \in 1 .. NFrames
  PROVE  /\ BodySlot(m) = (IF rout < 2 * m - 1 THEN rout - (2 * m - 1) + NTX ELSE rout - (2 * m - 1))
         /\ BodySlot(m) \in TxSlots /\ BodySlot(m) % 2 = 1
         /\ Active(BodySlot(m), rout, NTX) = 2 * m - 1
<1>1. /\ NTX \in Nat \ {0} /\ NFrames \in Nat /\ NTX = 2 * NFrames /\ TxSlots = Slots(NTX)
      /\ rout \in Slots(NTX) /\ rout % 2 = 0 /\ 2 * m - 1 \in 0 .. NTX - 1
  BY Sizes DEF TypeIndex, EvenEmpty
<1>2. /\ BodySlot(m) = (IF rout < 2 * m - 1 THEN rout - (2 * m - 1) + NTX ELSE rout - (2 * m - 1))
      /\ BodySlot(m) \in Slots(NTX) /\ Active(BodySlot(m), rout, NTX) = 2 * m - 1
  BY <1>1, BehindIs DEF BodySlot
<1>3. BodySlot(m) % 2 = 1
  BY <1>1, <1>2 DEF Slots
<1> QED
  BY <1>1, <1>2, <1>3

\* The ring holds half as many frames as it has slots, at most.
LEMMA OutstandingIs ==
  ASSUME TypeIndex
  PROVE  /\ Outstanding \in 0 .. NFrames
         /\ Active(rin, rout, NTX) \in {2 * Outstanding - 1, 2 * Outstanding}
<1>1. /\ NTX \in Nat \ {0} /\ NFrames \in Nat /\ NTX = 2 * NFrames
      /\ Active(rin, rout, NTX) \in 0 .. NTX - 1
  BY Sizes, ActiveRange DEF TypeIndex
<1> QED
  BY <1>1 DEF Outstanding

\* The youngest bodies are the ones the slots before r_out hold.
LEMMA BodySlotWithin ==
  ASSUME TypeIndex, EvenEmpty, NEW r \in TxSlots,
         NEW m \in 1 .. NFrames, 2 * m - 1 <= Active(r, rout, NTX)
  PROVE  BodySlot(m) \in Window(r, rout, NTX)
<1>1. NTX \in Nat \ {0} /\ r \in Slots(NTX) /\ rout \in Slots(NTX) /\ m \in Nat \ {0}
  BY Sizes DEF TypeIndex
<1>2. BodySlot(m) \in Slots(NTX) /\ Active(BodySlot(m), rout, NTX) = 2 * m - 1
  BY Sizes, BodySlotIs
<1>3. /\ Active(BodySlot(m), rout, NTX)
           = (IF rout < BodySlot(m) THEN rout - BodySlot(m) + NTX ELSE rout - BodySlot(m))
      /\ Active(r, rout, NTX) = (IF rout < r THEN rout - r + NTX ELSE rout - r)
      /\ Active(r, BodySlot(m), NTX)
           = (IF BodySlot(m) < r THEN BodySlot(m) - r + NTX ELSE BodySlot(m) - r)
  BY <1>1, <1>2, ActiveIs
<1>4. Active(r, BodySlot(m), NTX) = Active(r, rout, NTX) - (2 * m - 1)
  BY <1>1, <1>2, <1>3 DEF Slots
<1>5. Active(r, rout, NTX) \in Nat
  BY <1>1, ActiveRange
<1> QED
  BY <1>1, <1>2, <1>4, <1>5 DEF Window

\* The bodies that Flight looks at are posted ...
LEMMA BodySlotPosted ==
  ASSUME TypeIndex, EvenEmpty, NEW m \in 1 .. Outstanding
  PROVE  m \in 1 .. NFrames /\ BodySlot(m) \in InFlight
<1>1. /\ Outstanding \in 0 .. NFrames /\ NFrames \in Nat /\ rin \in TxSlots
      /\ Active(rin, rout, NTX) \in {2 * Outstanding - 1, 2 * Outstanding}
  BY Sizes, OutstandingIs DEF TypeIndex
<1>2. m \in 1 .. NFrames /\ 2 * m - 1 <= Active(rin, rout, NTX)
  BY <1>1
<1> QED
  BY <1>1, <1>2, BodySlotWithin DEF InFlight

\* ... and there is no other posted body.
LEMMA PostedBodySlot ==
  ASSUME TypeIndex, EvenEmpty, NEW i \in InFlight, i % 2 = 1
  PROVE  \E m \in 1 .. Outstanding : i = BodySlot(m)
<1>1. /\ NTX \in Nat \ {0} /\ rin \in Slots(NTX) /\ rout \in Slots(NTX) /\ TxSlots = Slots(NTX)
      /\ Outstanding \in 0 .. NFrames /\ NFrames \in Nat /\ NTX = 2 * NFrames
      /\ Active(rin, rout, NTX) \in {2 * Outstanding - 1, 2 * Outstanding}
      /\ rout % 2 = 0 /\ i \in Slots(NTX) /\ Active(rin, i, NTX) < Active(rin, rout, NTX)
  BY Sizes, OutstandingIs DEF TypeIndex, EvenEmpty, InFlight, Window
<1>2. /\ Active(rin, i, NTX) \in Nat
      /\ Active(i, rout, NTX) = Active(rin, rout, NTX) - Active(rin, i, NTX)
  BY <1>1, ActiveDifference, ActiveRange
<1>3. Active(i, rout, NTX) = (IF rout < i THEN rout - i + NTX ELSE rout - i)
  BY <1>1, ActiveIs
<1> DEFINE m == (Active(i, rout, NTX) + 1) \div 2
<1>4. Active(i, rout, NTX) = 2 * m - 1 /\ m \in 1 .. Outstanding
  <2>1. PICK h \in Int : rout = 2 * h
    BY <1>1 DEF Slots
  <2>2. PICK j \in Int : i = 2 * j + 1
    BY <1>1 DEF Slots
  <2>3. PICK d \in Int : Active(i, rout, NTX) = 2 * d - 1
    <3>1. CASE rout < i
      <4>1. Active(i, rout, NTX) = 2 * (h - j + NFrames) - 1
        BY <1>1, <1>3, <2>1, <2>2, <3>1
      <4>2. h - j + NFrames \in Int
        BY <1>1
      <4> QED
        BY <4>1, <4>2
    <3>2. CASE ~(rout < i)
      <4>1. Active(i, rout, NTX) = 2 * (h - j) - 1
        BY <1>1, <1>3, <2>1, <2>2, <3>2
      <4>2. h - j \in Int
        OBVIOUS
      <4> QED
        BY <4>1, <4>2
    <3> QED
      BY <3>1, <3>2
  <2>4. m = d
    BY <2>3
  <2>5. d >= 1 /\ d <= Outstanding
    BY <1>1, <1>2, <2>3
  <2> QED
    BY <1>1, <2>3, <2>4, <2>5
<1> HIDE DEF m
<1>5. m \in 1 .. NFrames
  BY <1>1, <1>4
<1>6. BodySlot(m) = (IF rout < 2 * m - 1 THEN rout - (2 * m - 1) + NTX ELSE rout - (2 * m - 1))
  BY <1>5, BodySlotIs
<1>7. i = BodySlot(m)
  BY <1>1, <1>3, <1>4, <1>5, <1>6 DEF Slots
<1> QED
  BY <1>4, <1>7

\* The length of Flight and its elements.
LEMMA FlightIs ==
  ASSUME TypeIndex, TypeSlots, EvenEmpty
  PROVE  /\ Flight \in Seq(Frames \cup {None}) /\ Len(Flight) = Outstanding
         /\ DOMAIN Flight = 1 .. Outstanding /\ Outstanding \in Nat
         /\ \A k \in 1 .. Outstanding : /\ Outstanding + 1 - k \in 1 .. Outstanding
                                        /\ Flight[k] = slot[BodySlot(Outstanding + 1 - k)]
<1>1. Outstanding \in Nat
  BY OutstandingIs
<1>2. \A k \in 1 .. Outstanding : /\ Outstanding + 1 - k \in 1 .. Outstanding
                                  /\ Flight[k] = slot[BodySlot(Outstanding + 1 - k)]
  BY <1>1 DEF Flight
<1>3. \A m \in 1 .. Outstanding : BodySlot(m) \in TxSlots
  BY BodySlotIs, BodySlotPosted
<1>4. \A k \in 1 .. Outstanding : slot[BodySlot(Outstanding + 1 - k)] \in Frames \cup {None}
  BY <1>2, <1>3 DEF TypeSlots
<1>5. Flight \in [1 .. Outstanding -> Frames \cup {None}]
  BY <1>4 DEF Flight
<1> QED
  BY <1>1, <1>2, <1>5

\* Posting a frame appends it.
LEMMA PostAppends ==
  ASSUME TypeIndex, TypeSlots, EvenEmpty, NEW f \in Frames, Post(f)
  PROVE  Len(Flight) < NFrames /\ Flight' = Append(Flight, f)
<1> DEFINE b == Adv(rout, NTX)
<1>1. /\ NTX \in Nat \ {0} /\ NFrames \in Nat \ {0} /\ NTX = 2 * NFrames /\ TxSlots = Slots(NTX)
      /\ rin \in Slots(NTX) /\ rout \in Slots(NTX) /\ b \in Slots(NTX)
      /\ Outstanding \in 0 .. NFrames
      /\ Active(rin, rout, NTX) \in {2 * Outstanding - 1, 2 * Outstanding}
  BY Sizes, AdvInRing, OutstandingIs DEF TypeIndex
<1>2. /\ Active(rin, rout, NTX) \in 0 .. NTX - 1 /\ Active(rin, rout, NTX) < NTX - 2
      /\ rin' = rin /\ rout' = Adv(b, NTX) /\ slot' = [slot EXCEPT ![b] = f]
  <2>1. slot' = [slot EXCEPT ![b] = f] /\ rin' = rin /\ rout' = Adv(b, NTX) /\ ~RingFull
    BY PostFills DEF Post
  <2>2. Active(rin, rout, NTX) \in 0 .. NTX - 1
    BY <1>1, ActiveRange
  <2> QED
    BY <1>1, <2>1, <2>2 DEF RingFull
<1>3. Active(rin, Adv(b, NTX), NTX) = Active(rin, rout, NTX) + 2
  <2>1. Active(rin, b, NTX) = Active(rin, rout, NTX) + 1
    BY <1>1, <1>2, ActivePost
  <2>2. Active(rin, Adv(b, NTX), NTX) = Active(rin, b, NTX) + 1
    BY <1>1, <1>2, <2>1, ActivePost
  <2> QED
    BY <1>2, <2>1, <2>2
<1>4. Outstanding < NFrames /\ Outstanding' = Outstanding + 1
  <2>1. Outstanding' = (Active(rin, rout, NTX) + 2 + 1) \div 2
    BY <1>2, <1>3 DEF Outstanding
  <2> QED
    BY <1>1, <1>2, <2>1
<1>5. Behind(rout', 1, NTX) = b
  <2>1. Behind(Adv(b, NTX), 1, NTX) = Behind(b, 0, NTX)
    BY <1>1, RingAssumption, BehindAdvances
  <2>2. Behind(b, 0, NTX) = b
    BY <1>1, BehindIs DEF Slots
  <2> QED
    BY <1>2, <2>1, <2>2
<1>6. ASSUME NEW m \in 1 .. Outstanding PROVE Behind(rout', 2 * m + 1, NTX) = BodySlot(m)
  <2>1. 2 * m - 1 \in 0 .. NTX - 2 /\ 2 * m \in 0 .. NTX - 2
        /\ (2 * m - 1) + 1 = 2 * m
    BY <1>1, <1>4
  <2>2. Behind(b, 2 * m, NTX) = Behind(rout, 2 * m - 1, NTX)
    BY <1>1, <2>1, BehindAdvances
  <2>3. Behind(Adv(b, NTX), 2 * m + 1, NTX) = Behind(b, 2 * m, NTX)
    BY <1>1, <2>1, BehindAdvances
  <2> QED
    BY <1>2, <2>1, <2>2, <2>3 DEF BodySlot
<1>7. ASSUME NEW m \in 1 .. Outstanding PROVE BodySlot(m) \in TxSlots /\ BodySlot(m) # b
  <2>1. BodySlot(m) \in Slots(NTX) /\ Active(rin, BodySlot(m), NTX) < Active(rin, rout, NTX)
    BY BodySlotPosted DEF InFlight, Window
  <2>2. Active(rin, b, NTX) = Active(rin, rout, NTX) + 1
    BY <1>1, <1>2, ActivePost
  <2> QED
    BY <1>1, <1>2, <2>1, <2>2
<1> HIDE DEF b
<1>8. /\ Flight \in Seq(Frames \cup {None}) /\ Len(Flight) = Outstanding
      /\ DOMAIN Flight = 1 .. Outstanding
      /\ \A k \in 1 .. Outstanding : /\ Outstanding + 1 - k \in 1 .. Outstanding
                                     /\ Flight[k] = slot[BodySlot(Outstanding + 1 - k)]
  BY FlightIs
<1>9. Flight' = [k \in 1 .. Outstanding + 1 |-> slot'[Behind(rout', 2 * (Outstanding + 2 - k) - 1, NTX)]]
  <2>1. Flight' = [k \in 1 .. Outstanding' |-> slot'[Behind(rout', 2 * (Outstanding' + 1 - k) - 1, NTX)]]
    BY DEF Flight, BodySlot
  <2>2. \A k \in 1 .. Outstanding + 1 : Outstanding + 1 + 1 - k = Outstanding + 2 - k
    BY <1>1
  <2> QED
    BY <1>4, <2>1, <2>2
<1>10. Flight'[Outstanding + 1] = f
  <2>1. 2 * (Outstanding + 2 - (Outstanding + 1)) - 1 = 1 /\ Outstanding + 1 \in 1 .. Outstanding + 1
    BY <1>1
  <2>2. Flight'[Outstanding + 1] = slot'[b]
    BY <1>5, <1>9, <2>1
  <2> QED
    BY <1>1, <1>2, <2>2 DEF TypeSlots
<1>11. ASSUME NEW k \in 1 .. Outstanding PROVE Flight'[k] = Flight[k]
  <2>1. PICK m \in 1 .. Outstanding : m = Outstanding + 1 - k
    BY <1>8
  <2>2. 2 * (Outstanding + 2 - k) - 1 = 2 * m + 1 /\ k \in 1 .. Outstanding + 1
    BY <1>1, <2>1
  <2>3. Flight'[k] = slot'[BodySlot(m)]
    BY <1>6, <1>9, <2>2
  <2>4. slot'[BodySlot(m)] = slot[BodySlot(m)]
    BY <1>2, <1>7 DEF TypeSlots
  <2> QED
    BY <1>8, <2>1, <2>3, <2>4
<1>12. Flight' \in Seq(Frames \cup {None}) /\ Len(Flight') = Outstanding + 1
  <2>1. \A k \in 1 .. Outstanding + 1 : k \in 1 .. Outstanding \/ k = Outstanding + 1
    BY <1>1
  <2>2. \A k \in 1 .. Outstanding + 1 : Flight'[k] \in Frames \cup {None}
    BY <1>8, <1>10, <1>11, <2>1
  <2>3. Flight' \in [1 .. Outstanding + 1 -> Frames \cup {None}]
    BY <1>9, <2>2
  <2> QED
    BY <1>1, <2>3
<1>13. /\ Append(Flight, f) \in Seq(Frames \cup {None}) /\ Len(Append(Flight, f)) = Outstanding + 1
       /\ \A k \in 1 .. Outstanding : Append(Flight, f)[k] = Flight[k]
       /\ Append(Flight, f)[Outstanding + 1] = f
  BY <1>8, AppendProperties
<1>14. \A k \in 1 .. Len(Flight') : Flight'[k] = Append(Flight, f)[k]
  <2>1. \A k \in 1 .. Outstanding + 1 : k \in 1 .. Outstanding \/ k = Outstanding + 1
    BY <1>1
  <2> QED
    BY <1>10, <1>11, <1>12, <1>13, <2>1
<1>15. Flight' = Append(Flight, f)
  BY <1>12, <1>13, <1>14, SeqEqual
<1> QED
  BY <1>1, <1>4, <1>8, <1>15

\* Nothing is on a ring without posted slots.
LEMMA FlightEmpty ==
  ASSUME rin' \in TxSlots, rout' = rin' PROVE Flight' = <<>>
<1>1. Active(rin', rout', NTX) = 0
  BY Sizes, ActiveRange
<1>2. Outstanding' = 0
  BY <1>1 DEF Outstanding
<1> QED
  BY <1>2 DEF Flight

\* The reclaim takes frames from the front, as many as the engine has completed.
LEMMA ReclaimShortens ==
  ASSUME TypeOK, EvenEmpty, EngineInOrder, Reclaim
  PROVE  \E k \in 0 .. Len(Flight) : Flight' = SubSeq(Flight, k + 1, Len(Flight))
<1>0. TypeIndex /\ TypeSlots
  BY TypeParts
<1>1. /\ NTX \in Nat \ {0} /\ NFrames \in Nat \ {0} /\ TxSlots = Slots(NTX)
      /\ rin \in Slots(NTX) /\ rout \in Slots(NTX) /\ cd \in Slots(NTX)
      /\ Outstanding \in 0 .. NFrames
      /\ Active(rin, rout, NTX) \in {2 * Outstanding - 1, 2 * Outstanding}
      /\ Active(rin, cd, NTX) <= Active(rin, rout, NTX) /\ ptr = rout
  BY <1>0, Sizes, OutstandingIs DEF TypeIndex, Reclaim, EngineInOrder
<1>2. ReclaimEnd = cd /\ rin' = cd /\ rout' = rout /\ ReleaseWith(Window(rin, cd, NTX), {})
  BY <1>1 DEF ReclaimEnd, Reclaim
<1>3. /\ Active(cd, rout, NTX) = Active(rin, rout, NTX) - Active(rin, cd, NTX)
      /\ Active(rin, cd, NTX) \in Nat /\ Active(cd, rout, NTX) \in Nat
  BY <1>1, ActiveDifference, ActiveRange
<1> DEFINE left == (Active(cd, rout, NTX) + 1) \div 2
<1>4. left \in 0 .. Outstanding /\ Outstanding' = left /\ left \in Nat
  <2>1. Outstanding' = left
    BY <1>2 DEF Outstanding
  <2> QED
    BY <1>1, <1>3, <2>1
<1>5. ASSUME NEW m \in 1 .. left
      PROVE  slot'[BodySlot(m)] = slot[BodySlot(m)]
  <2>1. m \in 1 .. NFrames /\ 2 * m - 1 <= Active(cd, rout, NTX)
    BY <1>1, <1>3, <1>4
  <2>2. BodySlot(m) \in Window(cd, rout, NTX)
    BY <1>0, <1>1, <2>1, BodySlotWithin
  <2>3. BodySlot(m) \notin Window(rin, cd, NTX) /\ BodySlot(m) \in TxSlots
    BY <1>1, <2>2, WindowsApart DEF Window
  <2> QED
    BY <1>2, <2>3 DEF ReleaseWith
<1> HIDE DEF left
<1>6. /\ Flight \in Seq(Frames \cup {None}) /\ Len(Flight) = Outstanding
      /\ \A k \in 1 .. Outstanding : Flight[k] = slot[BodySlot(Outstanding + 1 - k)]
  BY <1>0, FlightIs
<1>7. Flight' = [k \in 1 .. left |-> slot'[BodySlot(left + 1 - k)]]
  <2>1. Flight' = [k \in 1 .. Outstanding' |-> slot'[Behind(rout', 2 * (Outstanding' + 1 - k) - 1, NTX)]]
    BY DEF Flight, BodySlot
  <2>2. Flight' = [k \in 1 .. left |-> slot'[Behind(rout, 2 * (left + 1 - k) - 1, NTX)]]
    BY <1>2, <1>4, <2>1
  <2> QED
    BY <2>2 DEF BodySlot
<1> DEFINE gone == Outstanding - left
<1>8. gone \in 0 .. Outstanding
  BY <1>1, <1>4
<1>9. ASSUME NEW k \in 1 .. left PROVE Flight'[k] = Flight[gone + k]
  <2>1. left + 1 - k \in 1 .. left /\ gone + k \in 1 .. Outstanding
        /\ Outstanding + 1 - (gone + k) = left + 1 - k
    BY <1>1, <1>4
  <2>2. Flight'[k] = slot'[BodySlot(left + 1 - k)]
    BY <1>7
  <2>3. slot'[BodySlot(left + 1 - k)] = slot[BodySlot(left + 1 - k)]
    BY <1>5, <2>1
  <2> QED
    BY <1>6, <2>1, <2>2, <2>3
<1>10. SubSeq(Flight, gone + 1, Outstanding) = [k \in 1 .. left |-> Flight[gone + k]]
  <2>1. SubSeq(Flight, gone + 1, Outstanding)
          = [k \in 1 .. (1 + Outstanding - (gone + 1)) |-> Flight[k + (gone + 1) - 1]]
    BY <1>1, <1>6, <1>8
  <2>2. 1 + Outstanding - (gone + 1) = left
    BY <1>1, <1>4
  <2>3. \A k \in 1 .. left : k + (gone + 1) - 1 = gone + k
    BY <1>1, <1>4
  <2> QED
    BY <2>1, <2>2, <2>3
<1>11. Flight' = SubSeq(Flight, gone + 1, Outstanding)
  BY <1>7, <1>9, <1>10
<1> QED
  BY <1>6, <1>8, <1>11

\* What is inside the abstract pipe is in the queue or on the ring.
LEMMA InsideIs ==
  ASSUME TypeFrames, TypeIndex, TypeSlots, EvenEmpty, NEW f \in Frames, ~InQueue(f), ~OnRing(f)
  PROVE  f \notin Pipe!Inside
<1>1. f \notin {snd[k] : k \in DOMAIN snd}
  BY DEF InQueue, TypeFrames
<1>2. ASSUME NEW k \in DOMAIN Flight PROVE Flight[k] # f
  <2>1. /\ k \in 1 .. Outstanding /\ Outstanding + 1 - k \in 1 .. Outstanding
        /\ Flight[k] = slot[BodySlot(Outstanding + 1 - k)]
    BY <1>2, FlightIs
  <2>2. BodySlot(Outstanding + 1 - k) \in TxSlots
    BY <2>1, BodySlotPosted, BodySlotIs
  <2> QED
    BY <2>1, <2>2 DEF OnRing
<1> QED
  BY <1>1, <1>2 DEF Pipe!Inside

\* A step of the ring is a step of the pipe, or the pipe does not see it.
LEMMA PipeStep ==
  ASSUME TypeOK, EvenEmpty, Holders, EngineInOrder, [Next]_vars
  PROVE  [Pipe!PipeNext]_(Pipe!pvars)
<1>0. TypeFrames /\ TypeIndex /\ TypeSlots
  BY TypeParts
<1>a. ASSUME UNCHANGED <<rin, rout, slot>> PROVE Flight' = Flight
  BY <1>a DEF Flight, Outstanding, BodySlot
<1>b. ASSUME UNCHANGED <<rin, rout, slot, snd>> PROVE UNCHANGED Pipe!pvars
  BY <1>a, <1>b DEF Pipe!pvars
<1>c. ASSUME NEW f \in Frames, owner[f] # "driver" PROVE f \notin Pipe!Inside
  BY <1>0, <1>c, FreshNowhere, InsideIs DEF Holders
<1>d. ASSUME UNCHANGED <<rin, rout, slot>>, snd # <<>>, snd' = Tail(snd) PROVE Pipe!PipeNext
  <2>1. Pipe!Discard
    BY <1>a, <1>d DEF Pipe!Discard
  <2> QED
    BY <2>1 DEF Pipe!PipeNext
<1>1. ASSUME NEW f \in Frames, TransmitRefused(f) PROVE UNCHANGED Pipe!pvars
  BY <1>1, <1>b DEF TransmitRefused, queue, ring
<1>2. ASSUME NEW f \in Frames, Transmit(f) PROVE Pipe!PipeNext
  <2>1. Pipe!Accept(f)
    BY <1>2, <1>a, <1>c DEF Transmit, Fresh, ring, Pipe!Accept
  <2> QED
    BY <2>1 DEF Pipe!PipeNext
<1>3. ASSUME NEW f \in Frames, RawXmit(f) PROVE Pipe!PipeNext \/ UNCHANGED Pipe!pvars
  <2>1. snd' = snd /\ owner[f] # "driver"
    BY <1>3 DEF RawXmit, queue, Fresh
  <2>2. CASE Post(f)
    <3>1. Pipe!Inject(f)
      BY <1>0, <1>c, <2>1, <2>2, PostAppends DEF Pipe!Inject
    <3> QED
      BY <3>1 DEF Pipe!PipeNext
  <2>3. CASE Reject(f) \/ UNCHANGED ring
    BY <1>b, <2>1, <2>3 DEF Reject, ring
  <2> QED
    BY <1>3, <2>2, <2>3 DEF RawXmit
<1>4. CASE StartDone \/ StartRequeue
  BY <1>4, <1>b DEF StartDone, StartRequeue, ring
<1>5. CASE StartDrop
  BY <1>5, <1>d DEF StartDrop, Iterating, Drop, ring
<1>6. CASE StartPost
  <2>1. snd # <<>> /\ Head(snd) \in Frames /\ Post(Head(snd)) /\ snd' = Tail(snd)
    BY <1>0, <1>6, TailOf DEF StartPost, Iterating, TypeFrames
  <2>2. Pipe!Admit
    BY <1>0, <2>1, PostAppends DEF Pipe!Admit
  <2> QED
    BY <2>2 DEF Pipe!PipeNext
<1>7. CASE StartReject
  BY <1>7, <1>d DEF StartReject, Iterating, Drop, Reject
<1>8. CASE HwFetch \/ UpFails \/ FatalStop
  BY <1>8, <1>b DEF HwFetch, UpFails, FatalStop, queue, ring
<1>9. CASE Reclaim
  <2>1. PICK k \in 0 .. Len(Flight) : Flight' = SubSeq(Flight, k + 1, Len(Flight))
    BY <1>9, ReclaimShortens
  <2>2. snd' = snd
    BY <1>9 DEF Reclaim, queue
  <2>3. Flight \in Seq(Frames \cup {None}) /\ Len(Flight) \in Nat
    BY <1>0, FlightIs
  <2>4. CASE k = 0
    <3>1. SubSeq(Flight, 1, Len(Flight)) = Flight
      BY <2>3, SubSeqFull
    <3> QED
      BY <2>1, <2>2, <2>4, <3>1 DEF Pipe!pvars
  <2>5. CASE k # 0
    <3>1. k \in 1 .. Len(Flight) /\ Pipe!Retire(k)
      BY <2>1, <2>2, <2>3, <2>5 DEF Pipe!Retire
    <3> QED
      BY <3>1 DEF Pipe!PipeNext
  <2> QED
    BY <2>4, <2>5
<1>10. CASE Up
  <2>1. Pipe!Restart
    BY <1>10, Sizes, FlightEmpty DEF Up, queue, Pipe!Restart
  <2> QED
    BY <2>1 DEF Pipe!PipeNext
<1>11. CASE Down
  <2>1. rin' \in TxSlots /\ rout' = rin' /\ snd' = <<>>
    BY <1>0, <1>11 DEF Down, TypeIndex
  <2>2. Pipe!Stop
    BY <2>1, FlightEmpty DEF Pipe!Stop
  <2> QED
    BY <2>2 DEF Pipe!PipeNext
<1>12. CASE UNCHANGED vars
  BY <1>12, <1>b DEF vars, queue, ring
<1> QED
  BY <1>1, <1>2, <1>3, <1>4, <1>5, <1>6, <1>7, <1>8, <1>9, <1>10, <1>11, <1>12, StepCases

LEMMA PipeStart == Init => Pipe!PipeInit
<1> SUFFICES ASSUME Init PROVE snd = <<>> /\ Flight = <<>>
  BY DEF Pipe!PipeInit
<1>1. rin = 0 /\ rout = 0 /\ snd = <<>> /\ 0 \in Slots(NTX) /\ NTX \in Nat \ {0}
  BY Sizes DEF Init
<1>2. Active(rin, rout, NTX) = 0
  BY <1>1, ActiveRange
<1>3. Outstanding = 0
  BY <1>2 DEF Outstanding
<1>4. Flight = <<>>
  BY <1>3 DEF Flight
<1> QED
  BY <1>1, <1>4

\* start_locked, raw_xmit, tx_reclaim, stop_locked and a re-init implement the
\* first-in first-out pipe of TxPipe, whatever the ring size and wherever the
\* engine stops: queue and ring keep the order, a frame is in one of them once,
\* and the ring takes frames from the front of the queue and gives them up at its
\* own front.
THEOREM TxImplementsPipe == Spec => ImplementsPipe
<1>1. TypeOK /\ EvenEmpty /\ Holders /\ EngineInOrder /\ [Next]_vars
        => [Pipe!PipeNext]_(Pipe!pvars)
  BY PipeStep
<1> QED
  BY <1>1, PipeStart, RingInvariants, PTL DEF Spec, ImplementsPipe, Pipe!PipeSpec

-----------------------------------------------------------------------------
(* The sequence that the pipe sees is what the ring holds.                 *)

\* A slot of the window that a body goes in is occupied.
WindowFull == \A i \in InFlight : i % 2 = 1 => slot[i] # None

LEMMA WindowFullStep ==
  ASSUME TypeOK, EvenEmpty, EngineInOrder, WindowFull, [Next]_vars PROVE WindowFull'
<1>0. /\ TypeFrames /\ TypeIndex /\ TypeSlots
      /\ NTX \in Nat \ {0} /\ rin \in Slots(NTX) /\ rout \in Slots(NTX)
      /\ cd \in Slots(NTX) /\ 0 \in Slots(NTX) /\ TxSlots = Slots(NTX)
  BY TypeParts, Sizes DEF TypeIndex
<1>a. ASSUME UNCHANGED <<slot, rin, rout>> PROVE WindowFull'
  BY <1>a DEF WindowFull, InFlight
<1>b. ASSUME NEW f \in Frames, Post(f) PROVE WindowFull'
  <2>1. Active(rin, rout, NTX) \in 0 .. NTX - 1 /\ Active(rin, rout, NTX) < NTX - 2
    BY <1>0, <1>b, ActiveRange DEF Post, RingFull
  <2>2. InFlight' \subseteq InFlight \cup {rout, Adv(rout, NTX)}
    BY <1>0, <1>b, <2>1, WindowGrows DEF Post, InFlight
  <2>3. /\ slot' = [slot EXCEPT ![Adv(rout, NTX)] = f] /\ Adv(rout, NTX) \in TxSlots
        /\ rout % 2 = 0 /\ f # None
    BY <1>0, <1>b, PostFills, FramesAssumption DEF EvenEmpty
  <2>4. ASSUME NEW i \in InFlight', i % 2 = 1 PROVE slot'[i] # None
    <3>1. i \in InFlight \/ i = Adv(rout, NTX)
      BY <2>2, <2>3, <2>4
    <3>2. i \in TxSlots
      BY <1>0, <2>3, <3>1 DEF InFlight, Window
    <3> QED
      BY <1>0, <2>3, <2>4, <3>1, <3>2 DEF WindowFull, TypeSlots
  <2> QED
    BY <2>4 DEF WindowFull
<1>c. ASSUME rin' = rout', rout' \in Slots(NTX) PROVE WindowFull'
  <2>1. Active(rout', rout', NTX) = 0 /\ \A i \in Slots(NTX) : Active(rout', i, NTX) \in Nat
    BY <1>0, <1>c, ActiveRange
  <2>2. InFlight' = {}
    BY <1>c, <2>1 DEF InFlight, Window
  <2> QED
    BY <2>2 DEF WindowFull
<1>1. ASSUME NEW f \in Frames, Handover(f) PROVE WindowFull'
  <2>1. Post(f) \/ UNCHANGED <<slot, rin, rout>>
    BY <1>1 DEF Handover, TransmitRefused, Transmit, RawXmit, Reject, ring
  <2> QED
    BY <1>a, <1>b, <2>1
<1>2. CASE StartPost
  BY <1>0, <1>b, <1>2, TailOf DEF StartPost, Iterating, TypeFrames
<1>3. CASE StartDone \/ StartDrop \/ StartReject \/ StartRequeue
  BY <1>a, <1>3 DEF StartDone, StartDrop, StartReject, StartRequeue, Reject, ring
<1>4. CASE Reclaim
  <2>1. /\ ReleaseWith(Window(rin, ReclaimEnd, NTX), {}) /\ rin' = ReclaimEnd
        /\ rout' = rout /\ eng = "on"
    BY <1>4 DEF Reclaim
  <2>2. Active(rin, cd, NTX) <= Active(rin, rout, NTX) /\ ReclaimEnd = cd
    BY <2>1 DEF EngineInOrder, ReclaimEnd
  <2>3. ASSUME NEW i \in Window(cd, rout, NTX) PROVE i \in InFlight /\ slot'[i] = slot[i]
    <3>1. i \in Slots(NTX) /\ Active(rin, i, NTX) < Active(rin, rout, NTX)
      BY <1>0, <2>2, <2>3, WindowOffsets
    <3>2. i \notin Window(rin, cd, NTX)
      BY <1>0, <2>2, <2>3, WindowsApart
    <3> QED
      BY <1>0, <2>1, <2>2, <3>1, <3>2 DEF InFlight, Window, ReleaseWith
  <2> QED
    BY <2>1, <2>2, <2>3 DEF WindowFull, InFlight
<1>5. CASE HwFetch \/ UpFails \/ FatalStop
  BY <1>a, <1>5 DEF HwFetch, UpFails, FatalStop, ring
<1>6. CASE Up
  BY <1>0, <1>6, <1>c DEF Up
<1>7. CASE Down
  BY <1>0, <1>7, <1>c DEF Down
<1>8. CASE UNCHANGED vars
  BY <1>a, <1>8 DEF vars, ring
<1> QED
  BY <1>1, <1>2, <1>3, <1>4, <1>5, <1>6, <1>7, <1>8 DEF Next, StartLocked

\* Flight has the mbufs of the posted slots, all of them and no hole.
FlightIsTheRing ==
  /\ Flight \in Seq(Frames)
  /\ {Flight[k] : k \in DOMAIN Flight} = {slot[i] : i \in InFlight} \ {None}

\* The refinement hides nothing: the pipe that TxImplementsPipe speaks of carries
\* exactly the mbufs that sc_tx.r_slots holds from r_in to r_out.
THEOREM PipeIsTheRing == Spec => []FlightIsTheRing
<1>1. Init => WindowFull
  <2> SUFFICES ASSUME Init PROVE InFlight = {}
    BY DEF WindowFull
  <2>1. rin = 0 /\ rout = 0 /\ 0 \in Slots(NTX) /\ NTX \in Nat \ {0}
    BY Sizes DEF Init
  <2>2. Active(rin, rout, NTX) = 0 /\ \A i \in Slots(NTX) : Active(rin, i, NTX) \in Nat
    BY <2>1, ActiveRange
  <2> QED
    BY <2>2 DEF InFlight, Window
<1>2. TypeOK /\ EvenEmpty /\ EngineInOrder /\ WindowFull /\ [Next]_vars => WindowFull'
  BY WindowFullStep
<1>3. TypeOK /\ EvenEmpty /\ WindowFull => FlightIsTheRing
  <2> SUFFICES ASSUME TypeOK, EvenEmpty, WindowFull PROVE FlightIsTheRing
    OBVIOUS
  <2>0. TypeIndex /\ TypeSlots
    BY TypeParts
  <2>1. /\ DOMAIN Flight = 1 .. Outstanding /\ Outstanding \in Nat
        /\ Flight = [k \in 1 .. Outstanding |-> slot[BodySlot(Outstanding + 1 - k)]]
        /\ \A k \in 1 .. Outstanding : /\ Outstanding + 1 - k \in 1 .. Outstanding
                                       /\ Flight[k] = slot[BodySlot(Outstanding + 1 - k)]
    BY <2>0, FlightIs DEF Flight
  <2>2. ASSUME NEW m \in 1 .. Outstanding
        PROVE  BodySlot(m) \in InFlight /\ slot[BodySlot(m)] \in Frames
    <3>1. BodySlot(m) \in InFlight /\ BodySlot(m) \in TxSlots /\ BodySlot(m) % 2 = 1
      BY <2>0, BodySlotPosted, BodySlotIs
    <3> QED
      BY <2>0, <3>1 DEF WindowFull, TypeSlots
  <2>3. Flight \in Seq(Frames)
    <3>1. Flight \in [1 .. Outstanding -> Frames]
      BY <2>1, <2>2
    <3> QED
      BY <2>1, <3>1
  <2>4. ASSUME NEW k \in 1 .. Outstanding PROVE Flight[k] \in {slot[i] : i \in InFlight} \ {None}
    BY <2>1, <2>2, FramesAssumption
  <2>5. ASSUME NEW i \in InFlight, slot[i] # None PROVE \E k \in 1 .. Outstanding : Flight[k] = slot[i]
    <3>1. i \in TxSlots /\ i % 2 = 1
      BY <2>5, Sizes DEF InFlight, Window, EvenEmpty, Slots
    <3>2. PICK m \in 1 .. Outstanding : i = BodySlot(m)
      BY <2>0, <3>1, PostedBodySlot
    <3>3. Outstanding + 1 - m \in 1 .. Outstanding /\ Outstanding + 1 - (Outstanding + 1 - m) = m
      BY <2>1
    <3> QED
      BY <2>1, <3>2, <3>3
  <2> QED
    BY <2>1, <2>3, <2>4, <2>5 DEF FlightIsTheRing
<1> QED
  BY <1>1, <1>2, <1>3, RingInvariants, PTL DEF Spec

=============================================================================

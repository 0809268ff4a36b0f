--------------------------- MODULE DmaRing_proofs ---------------------------
(***************************************************************************)
(* Lemmas about the index arithmetic of a ring, for every size.  They take *)
(* the modulus away: the offset of a slot from r_in moves by one as the    *)
(* indexes do.                                                             *)
(***************************************************************************)
EXTENDS DmaRing, Integers, TLAPS

\* The successor of an index without the modulus.
LEMMA AdvIs ==
  ASSUME NEW n \in Nat \ {0}, NEW i \in Slots(n)
  PROVE  Adv(i, n) = (IF i = n - 1 THEN 0 ELSE i + 1)
  BY DEF Adv, Slots

\* The number of posted descriptors without the modulus.
LEMMA ActiveIs ==
  ASSUME NEW n \in Nat \ {0}, NEW i \in Slots(n), NEW j \in Slots(n)
  PROVE  Active(i, j, n) = (IF j < i THEN j - i + n ELSE j - i)
<1>1. CASE j < i
  BY <1>1 DEF Active, Slots
<1>2. CASE ~(j < i)
  <2>1. j - i \in 0 .. n - 1
    BY <1>2 DEF Slots
  <2>2. (j - i + n) % n = j - i
    BY <2>1
  <2> QED
    BY <1>2, <2>2 DEF Active
<1> QED
  BY <1>1, <1>2

\* An index that advances stays on the ring.
LEMMA AdvInSlots ==
  ASSUME NEW n \in Nat \ {0}, NEW i \in Slots(n)
  PROVE  Adv(i, n) \in Slots(n)
  BY AdvIs DEF Slots

\* The count is below the size, and zero only on an empty ring.
LEMMA ActiveRange ==
  ASSUME NEW n \in Nat \ {0}, NEW i \in Slots(n), NEW j \in Slots(n)
  PROVE  Active(i, j, n) \in 0 .. n - 1 /\ (Active(i, j, n) = 0 <=> i = j)
  BY ActiveIs DEF Slots

\* Posting one descriptor adds one to the count, unless the ring is full.
LEMMA ActivePost ==
  ASSUME NEW n \in Nat \ {0}, NEW i \in Slots(n), NEW j \in Slots(n),
         Active(i, j, n) < n - 1
  PROVE  Active(i, Adv(j, n), n) = Active(i, j, n) + 1
<1>1. Adv(j, n) = (IF j = n - 1 THEN 0 ELSE j + 1) /\ Adv(j, n) \in Slots(n)
  BY AdvIs, AdvInSlots
<1>2. Active(i, Adv(j, n), n) = (IF Adv(j, n) < i THEN Adv(j, n) - i + n ELSE Adv(j, n) - i)
  BY <1>1, ActiveIs
<1>3. Active(i, j, n) = (IF j < i THEN j - i + n ELSE j - i)
  BY ActiveIs
<1> QED
  BY <1>1, <1>2, <1>3 DEF Slots

\* Reclaiming one descriptor takes one off every offset but its own.
LEMMA ActiveReclaim ==
  ASSUME NEW n \in Nat \ {0}, NEW i \in Slots(n), NEW j \in Slots(n), i # j
  PROVE  Active(Adv(i, n), j, n) = Active(i, j, n) - 1
  BY ActiveIs, AdvIs, AdvInSlots DEF Slots

\* The slot just reclaimed is the one farthest from r_in.
LEMMA ActiveBehind ==
  ASSUME NEW n \in Nat \ {0}, NEW i \in Slots(n)
  PROVE  Active(Adv(i, n), i, n) = n - 1
<1>1. Adv(i, n) = (IF i = n - 1 THEN 0 ELSE i + 1) /\ Adv(i, n) \in Slots(n)
  BY AdvIs, AdvInSlots
<1>2. Active(Adv(i, n), i, n) = (IF i < Adv(i, n) THEN i - Adv(i, n) + n ELSE i - Adv(i, n))
  BY <1>1, ActiveIs
<1> QED
  BY <1>1, <1>2 DEF Slots

\* The index d descriptors behind another, without the modulus.
LEMMA BehindIs ==
  ASSUME NEW n \in Nat \ {0}, NEW j \in Slots(n), NEW d \in 0 .. n - 1
  PROVE  /\ Behind(j, d, n) = (IF j < d THEN j - d + n ELSE j - d)
         /\ Behind(j, d, n) \in Slots(n)
         /\ Active(Behind(j, d, n), j, n) = d
<1>1. Behind(j, d, n) = Active(d, j, n)
  BY DEF Behind, Active
<1>2. d \in Slots(n)
  BY DEF Slots
<1>3. Behind(j, d, n) = (IF j < d THEN j - d + n ELSE j - d)
  BY <1>1, <1>2, ActiveIs
<1>4. Behind(j, d, n) \in Slots(n)
  BY <1>3 DEF Slots
<1> QED
  BY <1>3, <1>4, ActiveIs DEF Slots

\* It stays where it is when the other advances and the distance grows.
LEMMA BehindAdvances ==
  ASSUME NEW n \in Nat \ {0}, NEW j \in Slots(n), NEW d \in 0 .. n - 2
  PROVE  Behind(Adv(j, n), d + 1, n) = Behind(j, d, n)
<1>1. /\ d \in 0 .. n - 1 /\ d + 1 \in 0 .. n - 1
      /\ Adv(j, n) \in Slots(n) /\ Adv(j, n) = (IF j = n - 1 THEN 0 ELSE j + 1)
  BY AdvIs, AdvInSlots
<1>2. /\ Behind(j, d, n) = (IF j < d THEN j - d + n ELSE j - d)
      /\ Behind(Adv(j, n), d + 1, n)
           = (IF Adv(j, n) < d + 1 THEN Adv(j, n) - (d + 1) + n ELSE Adv(j, n) - (d + 1))
  BY <1>1, BehindIs
<1> QED
  BY <1>1, <1>2 DEF Slots

\* Going back from a slot whose offset is known.
LEMMA BehindOffset ==
  ASSUME NEW n \in Nat \ {0}, NEW i \in Slots(n), NEW j \in Slots(n), NEW d \in 0 .. n - 1,
         d <= Active(i, j, n)
  PROVE  Behind(j, d, n) \in Slots(n) /\ Active(i, Behind(j, d, n), n) = Active(i, j, n) - d
<1> DEFINE b == Behind(j, d, n)
<1>1. b \in Slots(n) /\ b = (IF j < d THEN j - d + n ELSE j - d)
  BY BehindIs
<1> HIDE DEF b
<1>2. /\ Active(i, j, n) = (IF j < i THEN j - i + n ELSE j - i)
      /\ Active(i, b, n) = (IF b < i THEN b - i + n ELSE b - i)
  BY <1>1, ActiveIs
<1>3. Active(i, b, n) = Active(i, j, n) - d
  BY <1>1, <1>2 DEF Slots
<1> QED
  BY <1>1, <1>3 DEF b

\* Two slots with the same offset are the same.
LEMMA ActiveInjective ==
  ASSUME NEW n \in Nat \ {0}, NEW i \in Slots(n), NEW j \in Slots(n), NEW k \in Slots(n),
         Active(i, j, n) = Active(i, k, n)
  PROVE  j = k
  BY ActiveIs DEF Slots

\* A window that begins and ends between r_in and r_out holds the slots with the
\* offsets in between.
LEMMA WindowOffsets ==
  ASSUME NEW n \in Nat \ {0}, NEW i \in Slots(n), NEW from \in Slots(n), NEW to \in Slots(n),
         Active(i, from, n) <= Active(i, to, n), NEW k \in Window(from, to, n)
  PROVE  k \in Slots(n) /\ Active(i, from, n) <= Active(i, k, n) /\ Active(i, k, n) < Active(i, to, n)
  BY ActiveIs DEF Slots, Window

\* Between two positions that lie in order lies the difference of their offsets.
LEMMA ActiveDifference ==
  ASSUME NEW n \in Nat \ {0}, NEW i \in Slots(n), NEW j \in Slots(n), NEW k \in Slots(n),
         Active(i, j, n) <= Active(i, k, n)
  PROVE  Active(j, k, n) = Active(i, k, n) - Active(i, j, n)
  BY ActiveIs DEF Slots

\* Two windows that follow each other have no slot in common.
LEMMA WindowsApart ==
  ASSUME NEW n \in Nat \ {0}, NEW i \in Slots(n), NEW j \in Slots(n), NEW k \in Slots(n),
         Active(i, j, n) <= Active(i, k, n)
  PROVE  Window(i, j, n) \cap Window(j, k, n) = {}
<1>1. ASSUME NEW x \in Slots(n), Active(i, x, n) < Active(i, j, n)
      PROVE  ~(Active(j, x, n) < Active(j, k, n))
  <2>1. /\ Active(i, x, n) = (IF x < i THEN x - i + n ELSE x - i)
        /\ Active(i, j, n) = (IF j < i THEN j - i + n ELSE j - i)
    BY ActiveIs
  <2>2. /\ Active(i, k, n) = (IF k < i THEN k - i + n ELSE k - i)
        /\ Active(j, x, n) = (IF x < j THEN x - j + n ELSE x - j)
    BY ActiveIs
  <2>3. Active(j, k, n) = Active(i, k, n) - Active(i, j, n)
    BY ActiveDifference
  <2> QED
    BY <1>1, <2>1, <2>2, <2>3 DEF Slots
<1> QED
  BY <1>1 DEF Window

\* What is posted up to k and not after j is posted up to j.
LEMMA WindowSplit ==
  ASSUME NEW n \in Nat \ {0}, NEW i \in Slots(n), NEW j \in Slots(n), NEW k \in Slots(n),
         Active(i, j, n) <= Active(i, k, n),
         NEW x \in Window(i, k, n), x \notin Window(j, k, n)
  PROVE  x \in Window(i, j, n)
<1>1. x \in Slots(n) /\ Active(i, x, n) < Active(i, k, n) /\ ~(Active(j, x, n) < Active(j, k, n))
  BY DEF Window
<1>2. /\ Active(i, x, n) = (IF x < i THEN x - i + n ELSE x - i)
      /\ Active(i, j, n) = (IF j < i THEN j - i + n ELSE j - i)
      /\ Active(i, k, n) = (IF k < i THEN k - i + n ELSE k - i)
      /\ Active(j, x, n) = (IF x < j THEN x - j + n ELSE x - j)
      /\ Active(j, k, n) = (IF k < j THEN k - j + n ELSE k - j)
  BY <1>1, ActiveIs
<1>3. Active(i, x, n) < Active(i, j, n)
  BY <1>1, <1>2 DEF Slots
<1> QED
  BY <1>1, <1>3 DEF Window

\* Consuming the first slot of a window leaves the others.
LEMMA WindowAdvances ==
  ASSUME NEW n \in Nat \ {0}, NEW i \in Slots(n), NEW j \in Slots(n), i # j
  PROVE  Window(Adv(i, n), j, n) = Window(i, j, n) \ {i}
  BY ActiveReclaim, ActiveBehind, ActiveRange, AdvInSlots DEF Window

\* Posting two slots adds them to the window.
LEMMA WindowGrows ==
  ASSUME NEW n \in Nat \ {0}, NEW i \in Slots(n), NEW j \in Slots(n),
         Active(i, j, n) < n - 2
  PROVE  Window(i, Adv(Adv(j, n), n), n) \subseteq Window(i, j, n) \cup {j, Adv(j, n)}
<1>1. Adv(j, n) \in Slots(n) /\ Active(i, j, n) \in Nat
  BY AdvInSlots, ActiveRange
<1>2. Active(i, Adv(j, n), n) = Active(i, j, n) + 1
  BY <1>1, ActivePost
<1>3. Active(i, Adv(Adv(j, n), n), n) = Active(i, j, n) + 2
  BY <1>1, <1>2, ActivePost
<1>4. ASSUME NEW k \in Window(i, Adv(Adv(j, n), n), n),
             k \notin Window(i, j, n)
      PROVE  k = j \/ k = Adv(j, n)
  <2>1. k \in Slots(n) /\ Active(i, k, n) \in Nat /\ Active(i, k, n) < Active(i, j, n) + 2
    BY <1>3, <1>4, ActiveRange DEF Window
  <2>2. ~(Active(i, k, n) < Active(i, j, n))
    BY <1>4, <2>1 DEF Window
  <2>3. Active(i, k, n) = Active(i, j, n) \/ Active(i, k, n) = Active(i, Adv(j, n), n)
    BY <1>1, <1>2, <2>1, <2>2
  <2> QED
    BY <1>1, <2>1, <2>3, ActiveInjective
<1> QED
  BY <1>4

\* A window ends before the position it runs up to.
LEMMA WindowEnd ==
  ASSUME NEW n \in Nat \ {0}, NEW i \in Slots(n), NEW j \in Slots(n)
  PROVE  j \notin Window(i, j, n)
<1>1. Active(i, j, n) \in Nat
  BY ActiveRange
<1> QED
  BY <1>1 DEF Window

\* Two indexes with the same successor are the same.
LEMMA AdvInjective ==
  ASSUME NEW n \in Nat \ {0}, NEW i \in Slots(n), NEW j \in Slots(n), Adv(i, n) = Adv(j, n)
  PROVE  i = j
<1>1. /\ Adv(i, n) = (IF i = n - 1 THEN 0 ELSE i + 1)
      /\ Adv(j, n) = (IF j = n - 1 THEN 0 ELSE j + 1)
  BY AdvIs
<1>2. i \in Nat /\ j \in Nat
  BY DEF Slots
<1>3. CASE i = n - 1 /\ j # n - 1
  <2>1. 0 = j + 1
    BY <1>1, <1>3
  <2> QED
    BY <1>2, <2>1
<1>4. CASE i # n - 1 /\ j = n - 1
  <2>1. i + 1 = 0
    BY <1>1, <1>4
  <2> QED
    BY <1>2, <2>1
<1>5. CASE i # n - 1 /\ j # n - 1
  <2>1. i + 1 = j + 1
    BY <1>1, <1>5
  <2> QED
    BY <1>2, <2>1
<1> QED
  BY <1>3, <1>4, <1>5

\* On a ring of even size, the successor of an even index is odd.
LEMMA AdvEven ==
  ASSUME NEW n \in Nat \ {0}, NEW i \in Slots(n), n % 2 = 0, i % 2 = 0
  PROVE  Adv(i, n) % 2 = 1
<1>1. i # n - 1 /\ i \in Nat
  BY DEF Slots
<1>2. Adv(i, n) = i + 1
  BY <1>1, AdvIs
<1> QED
  BY <1>1, <1>2

=============================================================================

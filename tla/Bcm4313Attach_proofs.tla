------------------------- MODULE Bcm4313Attach_proofs -------------------------
(***************************************************************************)
(* Proofs about the device's life.  The module proved about has no         *)
(* constants: TLC explores all of it, and what the proofs add is the       *)
(* argument, step by step, for why the order of bcm4313_detach() is right. *)
(*                                                                         *)
(* The order matters at three places.  What is held is never beyond the    *)
(* place detach has got to (HeldByPlace), so that "still to be released"   *)
(* stands for "held" (HeldByPlace, RingsByPlace).  As long as net80211     *)
(* knows the device, the filter is set up, or intrtask is queued or in     *)
(* ieee80211_input(), all that they use is there (Guards): the steps that  *)
(* take the equipment away come after the ones that wait for them.  And an *)
(* engine that runs belongs to an interface that somebody will stop        *)
(* (EngineByPlace): detach's own stop, or the parent task that             *)
(* ieee80211_ifdetach() waits for.                                         *)
(***************************************************************************)
EXTENDS Bcm4313Attach, TLAPS, SequenceTheorems

-----------------------------------------------------------------------------
(* The invariant.                                                          *)

Left == Range(todo)

\* Where the function that runs has got to.
Place ==
  /\ phase \in {"attach", "up", "detach", "gone"}
  /\ phase = "attach" => \E n \in 1 .. 15 : todo = SubSeq(AttachOrder, n, 14)
  /\ phase \in {"up", "gone"} => todo = <<>>
  /\ phase = "detach" => \E n \in 1 .. 16 : todo = SubSeq(DetachOrder, n, 15)

Flags ==
  /\ attached \in BOOLEAN /\ locked \in BOOLEAN /\ running \in BOOLEAN /\ live \in BOOLEAN
  /\ ints \in BOOLEAN /\ armed \in BOOLEAN /\ orphaned \in BOOLEAN
  /\ task \in BOOLEAN /\ input \in BOOLEAN /\ up \in BOOLEAN /\ ptask \in BOOLEAN

\* A resource is held from its step of attach to its step of detach; what a
\* detach finds held and does not reach yet is held still.
HeldByPlace ==
  /\ held \subseteq Resources
  /\ phase = "attach" => held = Resources \ Left
  /\ phase = "up" => held = Resources
  /\ phase = "detach" => held \subseteq Left
  /\ phase = "gone" => held = {}

RingsByPlace ==
  /\ ring \in [Rings -> SUBSET {"dtag", "desc", "slots", "maps", "txhdr"}]
  /\ \A r \in Rings : ring[r] = {} \/ RingReady(r)
  /\ phase = "attach" => \A r \in Rings : r \notin Left => RingReady(r)
  /\ phase = "attach" => \A r \in Rings : r \in Left => ring[r] = {}
  /\ phase = "up" => \A r \in Rings : RingReady(r)
  /\ phase = "detach" => \A r \in Rings : r \notin Left => ring[r] = {}
  /\ phase = "gone" => \A r \in Rings : ring[r] = {}

\* Everything that the driver at work uses.
Equipped ==
  {"mtx", "tq", "mem", "pmu", "bufdtag"} \subseteq held /\ \A r \in Rings : RingReady(r)

\* What must be there while someone may run.
Guards ==
  /\ attached <=> "ic" \in held
  /\ "ic" \in held \/ "ih" \in held \/ task \/ input => Equipped
  /\ armed => {"mtx", "mem"} \subseteq held /\ (phase = "detach" => "callout" \in Left)
  /\ ptask \/ up \/ running \/ locked => "ic" \in held
  /\ locked => phase = "detach" /\ "stop" \notin Left /\ "unlock" \in Left
  /\ running => up \/ ptask
  /\ phase = "detach" /\ "vaps" \notin Left => ~up

\* An engine that runs is one that stop_locked() will still be called for.
EngineByPlace ==
  live /\ ~orphaned => /\ "ic" \in held
                       /\ phase = "detach" /\ "stop" \notin Left => running

IInv == Place /\ Flags /\ HeldByPlace /\ RingsByPlace /\ Guards /\ EngineByPlace

-----------------------------------------------------------------------------
(* The two programs.                                                       *)

AttachSteps == Resources \cup Checks \cup Rings
DetachSteps == Resources \cup Rings \cup {"stop", "unlock", "vaps", "callout"}

\* Their steps and their lengths.
LEMMA Orders ==
  /\ AttachOrder \in Seq(AttachSteps) /\ Len(AttachOrder) = 14
  /\ DetachOrder \in Seq(DetachSteps) /\ Len(DetachOrder) = 15
<1>1. AttachOrder \in Seq(AttachSteps)
  BY DEF AttachOrder, AttachSteps, Resources, Checks, Rings
<1>2. DetachOrder \in Seq(DetachSteps)
  BY DEF DetachOrder, DetachSteps, Resources, Rings
<1>3. Len(AttachOrder) = 14
  BY DEF AttachOrder
<1>4. Len(DetachOrder) = 15
  BY DEF DetachOrder
<1> QED
  BY <1>1, <1>2, <1>3, <1>4

\* What is left of a program of n steps before its k-th step.
LEMMA Rest ==
  ASSUME NEW S, NEW s \in Seq(S), NEW k \in 1 .. Len(s) + 1, NEW t, t = SubSeq(s, k, Len(s))
  PROVE  /\ t \in Seq(S) /\ Len(t) = Len(s) + 1 - k
         /\ \A i \in 1 .. Len(t) : t[i] = s[k + i - 1]
         /\ t = <<>> => k = Len(s) + 1
         /\ k = Len(s) + 1 => t = <<>>
         /\ k <= Len(s) => Head(t) = s[k] /\ Tail(t) = SubSeq(s, k + 1, Len(s))
<1>1. Len(s) \in Nat /\ k \in Int /\ \A i \in k .. Len(s) : s[i] \in S
  OBVIOUS
<1>2. /\ t \in Seq(S) /\ Len(t) = (IF k <= Len(s) THEN Len(s) - k + 1 ELSE 0)
      /\ \A i \in 1 .. Len(s) - k + 1 : t[i] = s[k + i - 1]
  BY <1>1, SubSeqProperties
<1>3. Len(t) = Len(s) + 1 - k
  BY <1>1, <1>2
<1>4. \A i \in 1 .. Len(t) : t[i] = s[k + i - 1]
  BY <1>1, <1>2, <1>3
<1>5. t = <<>> <=> k = Len(s) + 1
  <2>1. t = <<>> <=> Len(t) = 0
    BY <1>2, EmptySeq
  <2> QED
    BY <1>1, <1>3, <2>1
<1>7. ASSUME k <= Len(s) PROVE Head(t) = s[k] /\ Tail(t) = SubSeq(s, k + 1, Len(s))
  <2>1. t # <<>> /\ 1 \in 1 .. Len(t) /\ k + 1 - 1 = k
    BY <1>1, <1>3, <1>5, <1>7
  <2>2. Head(t) = t[1]
    BY <1>2, <2>1
  <2>3. Head(t) = s[k]
    BY <1>4, <2>1, <2>2
  <2>4. Tail(t) = SubSeq(t, 2, Len(t))
    BY <1>2, <2>1, TailIsSubSeq
  <2>5. /\ SubSeq(s, k + 1, Len(s)) \in Seq(S)
        /\ Len(SubSeq(s, k + 1, Len(s))) = (IF k + 1 <= Len(s) THEN Len(s) - (k + 1) + 1 ELSE 0)
        /\ \A i \in 1 .. Len(s) - (k + 1) + 1 : SubSeq(s, k + 1, Len(s))[i] = s[(k + 1) + i - 1]
    <3>1. k + 1 \in Int /\ Len(s) \in Int /\ \A i \in k + 1 .. Len(s) : s[i] \in S
      BY <1>1
    <3> QED
      BY <3>1, SubSeqProperties
  <2>6. /\ Tail(t) \in Seq(S) /\ Len(Tail(t)) = Len(t) - 1
        /\ \A i \in 1 .. Len(t) - 1 : Tail(t)[i] = t[i + 1]
    BY <1>2, <2>1
  <2>7. Len(Tail(t)) = Len(SubSeq(s, k + 1, Len(s)))
    BY <1>1, <1>3, <1>7, <2>5, <2>6
  <2>8. ASSUME NEW i \in 1 .. Len(Tail(t)) PROVE Tail(t)[i] = SubSeq(s, k + 1, Len(s))[i]
    <3>1. /\ i \in 1 .. Len(t) - 1 /\ i + 1 \in 1 .. Len(t) /\ i \in 1 .. Len(s) - (k + 1) + 1
          /\ k + (i + 1) - 1 = (k + 1) + i - 1
      BY <1>1, <1>3, <1>7, <2>6
    <3> QED
      BY <1>4, <2>5, <2>6, <3>1
  <2>9. Tail(t) = SubSeq(s, k + 1, Len(s))
    BY <2>5, <2>6, <2>7, <2>8, SeqEqual
  <2> QED
    BY <2>3, <2>9
<1> QED
  BY <1>2, <1>3, <1>4, <1>5, <1>7

\* The steps in it.
LEMMA RestRange ==
  ASSUME NEW S, NEW s \in Seq(S), NEW k \in 1 .. Len(s) + 1
  PROVE  Range(SubSeq(s, k, Len(s))) = {s[i] : i \in k .. Len(s)}
<1> DEFINE t == SubSeq(s, k, Len(s))
<1>1. /\ t \in Seq(S) /\ Len(t) = Len(s) + 1 - k /\ Len(s) \in Nat
      /\ \A i \in 1 .. Len(t) : t[i] = s[k + i - 1]
  BY Rest
<1> HIDE DEF t
<1>2. Range(t) = {s[i] : i \in k .. Len(s)}
  <2>1. DOMAIN t = 1 .. Len(t)
    BY <1>1
  <2>2. ASSUME NEW i \in 1 .. Len(t) PROVE k + i - 1 \in k .. Len(s) /\ t[i] = s[k + i - 1]
    BY <1>1
  <2>3. ASSUME NEW i \in k .. Len(s) PROVE i - k + 1 \in 1 .. Len(t) /\ t[i - k + 1] = s[i]
    <3>1. i - k + 1 \in 1 .. Len(t) /\ k + (i - k + 1) - 1 = i
      BY <1>1
    <3> QED
      BY <1>1, <3>1
  <2> QED
    BY <2>1, <2>2, <2>3 DEF Range
<1> QED
  BY <1>2 DEF t

\* A function on 1 .. n is a sequence.
LEMMA FunctionIsSeq ==
  ASSUME NEW S, NEW n \in Nat, NEW f \in [1 .. n -> S]
  PROVE  f \in Seq(S) /\ Len(f) = n
  OBVIOUS

\* A rest is a suffix, as TypeOK has it.
LEMMA RestIsSuffix ==
  ASSUME NEW S, NEW s \in Seq(S), NEW k \in 1 .. Len(s) + 1, NEW t, t = SubSeq(s, k, Len(s))
  PROVE  IsSuffix(t, s)
<1>1. /\ t \in Seq(S) /\ Len(t) = Len(s) + 1 - k /\ Len(s) \in Nat /\ Len(t) \in Nat
      /\ \A i \in 1 .. Len(t) : t[i] = s[k + i - 1]
  BY Rest
<1>2. Len(t) <= Len(s)
  BY <1>1
<1> DEFINE rt == Reverse(t)
           rs == Reverse(s)
<1>3. /\ rt = [i \in 1 .. Len(t) |-> t[(Len(t) - i) + 1]]
      /\ rs = [i \in 1 .. Len(s) |-> s[(Len(s) - i) + 1]]
  BY DEF Reverse
<1>4. ASSUME NEW i \in 1 .. Len(t) PROVE rt[i] = rs[i] /\ rt[i] \in S
  <2>1. /\ (Len(t) - i) + 1 \in 1 .. Len(t) /\ i \in 1 .. Len(s)
        /\ k + ((Len(t) - i) + 1) - 1 = (Len(s) - i) + 1
    BY <1>1, <1>2
  <2>2. rt[i] = t[(Len(t) - i) + 1] /\ rs[i] = s[(Len(s) - i) + 1]
    BY <1>3, <2>1
  <2> QED
    BY <1>1, <2>1, <2>2
<1>5. rt \in Seq(S) /\ Len(rt) = Len(t)
  <2>1. rt \in [1 .. Len(t) -> S]
    BY <1>3, <1>4
  <2> QED
    BY <1>1, <2>1, FunctionIsSeq
<1>6. rs \in Seq(S) /\ Len(rs) = Len(s)
  <2>1. ASSUME NEW i \in 1 .. Len(s) PROVE s[(Len(s) - i) + 1] \in S
    <3>1. (Len(s) - i) + 1 \in 1 .. Len(s)
      BY <1>1
    <3> QED
      BY <3>1
  <2>2. rs \in [1 .. Len(s) -> S]
    BY <1>3, <2>1
  <2> QED
    BY <1>1, <2>2, FunctionIsSeq
<1> HIDE DEF rt, rs
<1>7. SubSeq(rt, 1, Len(rt)) = rt
  BY <1>5, SubSeqFull
<1>8. /\ SubSeq(rs, 1, Len(t)) \in Seq(S) /\ Len(SubSeq(rs, 1, Len(t))) = Len(t)
      /\ \A i \in 1 .. Len(t) : SubSeq(rs, 1, Len(t))[i] = rs[i]
  <2>1. 1 \in Int /\ Len(t) \in Int /\ \A i \in 1 .. Len(t) : rs[i] \in S
    BY <1>1, <1>4
  <2>2. /\ SubSeq(rs, 1, Len(t)) \in Seq(S)
        /\ Len(SubSeq(rs, 1, Len(t))) = (IF 1 <= Len(t) THEN Len(t) - 1 + 1 ELSE 0)
        /\ \A i \in 1 .. Len(t) - 1 + 1 : SubSeq(rs, 1, Len(t))[i] = rs[1 + i - 1]
    BY <2>1, SubSeqProperties
  <2> QED
    BY <1>1, <2>2
<1>9. SubSeq(rs, 1, Len(t)) = rt
  BY <1>4, <1>5, <1>8, SeqEqual
<1>10. IsPrefix(rt, rs)
  BY <1>2, <1>5, <1>6, <1>7, <1>9 DEF IsPrefix
<1> QED
  BY <1>10 DEF IsSuffix, rt, rs

\* What is left before the n-th step of attach.
LEMMA AttachRest ==
  ASSUME NEW n \in 1 .. 15, NEW t, t = SubSeq(AttachOrder, n, 14)
  PROVE  /\ Range(t) = {AttachOrder[i] : i \in n .. 14}
         /\ t = <<>> <=> n = 15
         /\ n # 15 => Head(t) = AttachOrder[n] /\ Tail(t) = SubSeq(AttachOrder, n + 1, 14)
<1> DEFINE s == AttachOrder
<1>1. s \in Seq(AttachSteps) /\ Len(s) = 14
  BY Orders
<1> HIDE DEF s
<1>2. n \in 1 .. Len(s) + 1 /\ t = SubSeq(s, n, Len(s))
  BY <1>1 DEF s
<1>3. /\ t = <<>> => n = Len(s) + 1
      /\ n = Len(s) + 1 => t = <<>>
      /\ n <= Len(s) => Head(t) = s[n] /\ Tail(t) = SubSeq(s, n + 1, Len(s))
  <2>1. t = <<>> => n = Len(s) + 1
    <3>1. Len(t) = Len(s) + 1 - n
      BY <1>1, <1>2, Rest
    <3>2. t = <<>> => Len(t) = 0
      OBVIOUS
    <3>3. Len(t) = 0 => n = Len(s) + 1
      BY <1>1, <3>1
    <3> QED
      BY <3>2, <3>3, Zenon
  <2>2. n = Len(s) + 1 => t = <<>>
    BY <1>1, <1>2, Rest
  <2>3. n <= Len(s) => Head(t) = s[n]
    BY <1>1, <1>2, Rest
  <2>4. n <= Len(s) => Tail(t) = SubSeq(s, n + 1, Len(s))
    BY <1>1, <1>2, Rest
  <2> QED
    BY <2>1, <2>2, <2>3, <2>4
<1>4. Range(t) = {s[i] : i \in n .. Len(s)}
  BY <1>1, <1>2, RestRange
<1>5. n # 15 => n <= Len(s)
  BY <1>1
<1>6. Range(t) = {AttachOrder[i] : i \in n .. 14}
  BY <1>1, <1>4 DEF s
<1>7. t = <<>> <=> n = 15
  <2>1. n = Len(s) + 1 <=> n = 15
    BY <1>1
  <2> QED
    BY <1>3, <2>1, Zenon
<1>8. n # 15 => Head(t) = AttachOrder[n] /\ Tail(t) = SubSeq(AttachOrder, n + 1, 14)
  BY <1>1, <1>3, <1>5 DEF s
<1> QED
  BY <1>6, <1>7, <1>8

\* It has no step twice.
LEMMA AttachDistinct ==
  ASSUME NEW i \in 1 .. 14, NEW j \in 1 .. 14, AttachOrder[i] = AttachOrder[j] PROVE i = j
  BY SMTT(60) DEF AttachOrder

\* A step of attach.
LEMMA AttachMoves ==
  ASSUME Place, phase = "attach", todo # <<>>, todo' = Tail(todo), phase' = phase
  PROVE  /\ Place' /\ Left' = Left \ {Head(todo)} /\ Head(todo) \in Left
<1>1. PICK n \in 1 .. 15 : todo = SubSeq(AttachOrder, n, 14)
  BY DEF Place
<1>2. /\ Left = {AttachOrder[i] : i \in n .. 14} /\ n # 15
      /\ Head(todo) = AttachOrder[n] /\ todo' = SubSeq(AttachOrder, n + 1, 14)
  BY <1>1, AttachRest DEF Left
<1>3. Left' = {AttachOrder[i] : i \in n + 1 .. 14}
  <2>1. n + 1 \in 1 .. 15
    BY <1>2
  <2> QED
    BY <1>2, <2>1, AttachRest DEF Left
<1>4. ASSUME NEW i \in n .. 14, AttachOrder[i] = AttachOrder[n] PROVE i = n
  <2>1. i \in 1 .. 14 /\ n \in 1 .. 14
    BY <1>2
  <2> QED
    BY <1>4, <2>1, AttachDistinct
<1>5. Left' = Left \ {Head(todo)} /\ Head(todo) \in Left
  <2>1. (\A i \in n .. 14 : i # n <=> i \in n + 1 .. 14) /\ n \in n .. 14 /\ n + 1 .. 14 \subseteq n .. 14
    BY <1>2
  <2> QED
    BY <1>2, <1>3, <1>4, <2>1
<1>6. Place'
  <2>1. n + 1 \in 1 .. 15
    BY <1>2
  <2> QED
    BY <1>2, <2>1 DEF Place
<1> QED
  BY <1>5, <1>6

\* What is left before the n-th step of detach.
LEMMA DetachRest ==
  ASSUME NEW n \in 1 .. 16, NEW t, t = SubSeq(DetachOrder, n, 15)
  PROVE  /\ Range(t) = {DetachOrder[i] : i \in n .. 15}
         /\ t = <<>> <=> n = 16
         /\ n # 16 => Head(t) = DetachOrder[n] /\ Tail(t) = SubSeq(DetachOrder, n + 1, 15)
<1> DEFINE s == DetachOrder
<1>1. s \in Seq(DetachSteps) /\ Len(s) = 15
  BY Orders
<1> HIDE DEF s
<1>2. n \in 1 .. Len(s) + 1 /\ t = SubSeq(s, n, Len(s))
  BY <1>1 DEF s
<1>3. /\ t = <<>> => n = Len(s) + 1
      /\ n = Len(s) + 1 => t = <<>>
      /\ n <= Len(s) => Head(t) = s[n] /\ Tail(t) = SubSeq(s, n + 1, Len(s))
  <2>1. t = <<>> => n = Len(s) + 1
    <3>1. Len(t) = Len(s) + 1 - n
      BY <1>1, <1>2, Rest
    <3>2. t = <<>> => Len(t) = 0
      OBVIOUS
    <3>3. Len(t) = 0 => n = Len(s) + 1
      BY <1>1, <3>1
    <3> QED
      BY <3>2, <3>3, Zenon
  <2>2. n = Len(s) + 1 => t = <<>>
    BY <1>1, <1>2, Rest
  <2>3. n <= Len(s) => Head(t) = s[n]
    BY <1>1, <1>2, Rest
  <2>4. n <= Len(s) => Tail(t) = SubSeq(s, n + 1, Len(s))
    BY <1>1, <1>2, Rest
  <2> QED
    BY <2>1, <2>2, <2>3, <2>4
<1>4. Range(t) = {s[i] : i \in n .. Len(s)}
  BY <1>1, <1>2, RestRange
<1>5. n # 16 => n <= Len(s)
  BY <1>1
<1>6. Range(t) = {DetachOrder[i] : i \in n .. 15}
  BY <1>1, <1>4 DEF s
<1>7. t = <<>> <=> n = 16
  <2>1. n = Len(s) + 1 <=> n = 16
    BY <1>1
  <2> QED
    BY <1>3, <2>1, Zenon
<1>8. n # 16 => Head(t) = DetachOrder[n] /\ Tail(t) = SubSeq(DetachOrder, n + 1, 15)
  BY <1>1, <1>3, <1>5 DEF s
<1> QED
  BY <1>6, <1>7, <1>8

\* It has no step twice.
LEMMA DetachDistinct ==
  ASSUME NEW i \in 1 .. 15, NEW j \in 1 .. 15, DetachOrder[i] = DetachOrder[j] PROVE i = j
  BY SMTT(60) DEF DetachOrder

\* A step of detach.
LEMMA DetachMoves ==
  ASSUME Place, phase = "detach", todo # <<>>, todo' = Tail(todo), phase' = phase
  PROVE  /\ Place' /\ Left' = Left \ {Head(todo)} /\ Head(todo) \in Left
<1>1. PICK n \in 1 .. 16 : todo = SubSeq(DetachOrder, n, 15)
  BY DEF Place
<1>2. /\ Left = {DetachOrder[i] : i \in n .. 15} /\ n # 16
      /\ Head(todo) = DetachOrder[n] /\ todo' = SubSeq(DetachOrder, n + 1, 15)
  BY <1>1, DetachRest DEF Left
<1>3. Left' = {DetachOrder[i] : i \in n + 1 .. 15}
  <2>1. n + 1 \in 1 .. 16
    BY <1>2
  <2> QED
    BY <1>2, <2>1, DetachRest DEF Left
<1>4. ASSUME NEW i \in n .. 15, DetachOrder[i] = DetachOrder[n] PROVE i = n
  <2>1. i \in 1 .. 15 /\ n \in 1 .. 15
    BY <1>2
  <2> QED
    BY <1>4, <2>1, DetachDistinct
<1>5. Left' = Left \ {Head(todo)} /\ Head(todo) \in Left
  <2>1. (\A i \in n .. 15 : i # n <=> i \in n + 1 .. 15) /\ n \in n .. 15 /\ n + 1 .. 15 \subseteq n .. 15
    BY <1>2
  <2> QED
    BY <1>2, <1>3, <1>4, <2>1
<1>6. Place'
  <2>1. n + 1 \in 1 .. 16
    BY <1>2
  <2> QED
    BY <1>2, <2>1 DEF Place
<1> QED
  BY <1>5, <1>6

\* What attach has not reached yet, for the steps the invariant speaks of.
LEMMA AttachLeft ==
  ASSUME Place, phase = "attach"
  PROVE  /\ \A s \in {"mtx", "tq", "mem", "pmu", "bufdtag"} \cup Rings : s \in Left => "ic" \in Left
         /\ "ic" \in Left => "ih" \in Left
         /\ todo = <<>> => Left = {}
         /\ todo # <<>> /\ Head(todo) = "ih" => "ic" \notin Left
         /\ todo # <<>> /\ Head(todo) \in AttachSteps \ {"ic", "irq", "ih"} => "ic" \in Left
         /\ todo # <<>> /\ Head(todo) = "ic" =>
              \A s \in {"mtx", "tq", "mem", "pmu", "bufdtag"} \cup Rings : s \notin Left
<1>1. PICK n \in 1 .. 15 : todo = SubSeq(AttachOrder, n, 14)
  BY DEF Place
<1>2. /\ Left = {AttachOrder[i] : i \in n .. 14}
      /\ todo = <<>> <=> n = 15
      /\ n # 15 => Head(todo) = AttachOrder[n]
  BY <1>1, AttachRest DEF Left
<1>3. \A s \in Left : s = "ic" \/ s = "irq" \/ s = "ih" \/ "ic" \in Left
  BY <1>2 DEF AttachOrder
<1>4. "ic" \in Left => "ih" \in Left
  BY <1>2 DEF AttachOrder
<1>5. todo # <<>> /\ Head(todo) = "ih" => "ic" \notin Left
  BY <1>2 DEF AttachOrder
<1>6. todo # <<>> => Head(todo) \in Left
  BY <1>2
<1>7. todo = <<>> => Left = {}
  BY <1>2
<1>8. todo # <<>> /\ Head(todo) = "ic" => Left = {"ic", "irq", "ih"}
  BY <1>2 DEF AttachOrder
<1> QED
  BY <1>3, <1>4, <1>5, <1>6, <1>7, <1>8 DEF Rings

\* What detach has not reached yet.
LEMMA DetachLeft ==
  ASSUME Place, phase = "detach"
  PROVE  /\ "stop" \in Left => "unlock" \in Left
         /\ "unlock" \in Left => "vaps" \in Left
         /\ "vaps" \in Left => "ic" \in Left
         /\ "ic" \in Left => "ih" \in Left
         /\ "ih" \in Left => "tq" \in Left
         /\ "tq" \in Left => {"tx", "rx", "txstatus", "bufdtag"} \subseteq Left
         /\ "tx" \in Left => "rx" \in Left
         /\ "rx" \in Left => "txstatus" \in Left
         /\ "txstatus" \in Left => "bufdtag" \in Left
         /\ "bufdtag" \in Left => "callout" \in Left
         /\ "callout" \in Left => {"mem", "pmu", "mtx"} \subseteq Left
         /\ todo = <<>> => Left = {}
         /\ todo # <<>> => Head(todo) \in Left
         /\ todo # <<>> /\ Head(todo) = "unlock" => "stop" \notin Left
         /\ todo # <<>> /\ Head(todo) = "vaps" => "unlock" \notin Left
         /\ todo # <<>> /\ Head(todo) = "ic" => "vaps" \notin Left
         /\ todo # <<>> /\ Head(todo) = "ih" => "ic" \notin Left
         /\ todo # <<>> /\ Head(todo) \in {"irq", "tq"} => "ih" \notin Left
         /\ todo # <<>> /\ Head(todo) \in {"tx", "rx", "txstatus", "bufdtag"} => "tq" \notin Left
         /\ todo # <<>> /\ Head(todo) = "callout" => "bufdtag" \notin Left
         /\ todo # <<>> /\ Head(todo) \in {"mem", "pmu", "mtx"} => "callout" \notin Left
<1>1. PICK n \in 1 .. 16 : todo = SubSeq(DetachOrder, n, 15)
  BY DEF Place
<1>2. /\ Left = {DetachOrder[i] : i \in n .. 15}
      /\ todo = <<>> <=> n = 16
      /\ n # 16 => Head(todo) = DetachOrder[n]
  BY <1>1, DetachRest DEF Left
<1>3. /\ "stop" \in Left <=> n <= 1 
      /\ "unlock" \in Left <=> n <= 2
      /\ "vaps" \in Left <=> n <= 3
      /\ "ic" \in Left <=> n <= 4
      /\ "ih" \in Left <=> n <= 5
      /\ "tq" \in Left <=> n <= 7
  BY <1>2 DEF DetachOrder
<1>4. /\ "tx" \in Left <=> n <= 8 
      /\ "rx" \in Left <=> n <= 9
      /\ "txstatus" \in Left <=> n <= 10
      /\ "bufdtag" \in Left <=> n <= 11
      /\ "callout" \in Left <=> n <= 12
      /\ "mem" \in Left <=> n <= 13
      /\ "pmu" \in Left <=> n <= 14
      /\ "mtx" \in Left <=> n <= 15
  BY <1>2 DEF DetachOrder
<1>5. n # 16 => /\ Head(todo) = "unlock" => n = 2
                /\ Head(todo) = "vaps" => n = 3
                /\ Head(todo) = "ic" => n = 4
                /\ Head(todo) = "ih" => n = 5
                /\ Head(todo) \in {"irq", "tq"} => n \in {6, 7}
                /\ Head(todo) \in {"tx", "rx", "txstatus", "bufdtag"} => n \in {8, 9, 10, 11}
                /\ Head(todo) = "callout" => n = 12
                /\ Head(todo) \in {"mem", "pmu", "mtx"} => n \in {13, 14, 15}
  BY <1>2 DEF DetachOrder
<1>6. (todo # <<>> => Head(todo) \in Left) /\ (todo = <<>> => Left = {})
  BY <1>2
<1> QED
  BY <1>2, <1>3, <1>4, <1>5, <1>6

-----------------------------------------------------------------------------
(* Every step keeps the invariant, one conjunct at a time.                 *)

\* The steps of those who run beside attach and detach.
Beside ==
  NetUpDown \/ Parent \/ WatchdogStops \/ HwInterrupt \/ Filter \/ IntrTask

\* They take and release nothing.
LEMMA BesideKeepsLife == ASSUME Beside PROVE UNCHANGED life
  BY DEF Beside, NetUpDown, Parent, ParentInit, ParentInitFails, ParentStop, ParentIgnored,
     ParentTask, WatchdogStops, HwInterrupt, Filter, IntrTask, IntrTaskEmpty, IntrTaskInput,
     IntrTaskEnds

\* Every step is one of these.
LEMMA StepCases ==
  ASSUME [Next]_vars
  PROVE  \/ \E res \in Resources : Take(res)
         \/ \E step \in Checks : Check(step)
         \/ \E r \in Rings : RingAlloc(r)
         \/ AttachEnds \/ AttachFails \/ Unload \/ Load
         \/ DetachStop \/ DetachUnlock \/ DetachVaps \/ DetachNet \/ DetachTaskqueue
         \/ \E r \in Rings : DetachRing(r)
         \/ DetachCallout
         \/ \E res \in {"ih", "irq", "bufdtag", "mem", "pmu", "mtx"} : Release(res)
         \/ DetachEnd
         \/ Beside
         \/ UNCHANGED vars
  BY DEF Next, Attach, Detach, Beside

\* Steps of attach, and steps of detach.
AttachMove == phase = "attach" /\ todo # <<>> /\ todo' = Tail(todo) /\ phase' = phase
DetachMove == phase = "detach" /\ todo # <<>> /\ todo' = Tail(todo) /\ phase' = phase

\* Which step of which program an action is.
LEMMA Moves ==
  /\ \A res \in Resources : Take(res) => AttachMove /\ Head(todo) = res
  /\ \A step \in Checks : Check(step) => AttachMove /\ Head(todo) = step
  /\ \A r \in Rings : RingAlloc(r) => AttachMove /\ Head(todo) = r
  /\ DetachStop => DetachMove /\ Head(todo) = "stop"
  /\ DetachUnlock => DetachMove /\ Head(todo) = "unlock"
  /\ DetachVaps => DetachMove /\ Head(todo) = "vaps"
  /\ DetachNet => DetachMove /\ Head(todo) = "ic"
  /\ DetachTaskqueue => DetachMove /\ Head(todo) = "tq"
  /\ \A r \in Rings : DetachRing(r) => DetachMove /\ Head(todo) = r
  /\ DetachCallout => DetachMove /\ Head(todo) = "callout"
  /\ \A res \in {"ih", "irq", "bufdtag", "mem", "pmu", "mtx"} :
       Release(res) => DetachMove /\ Head(todo) = res
<1>1. \A s : AttachNext(s) => AttachMove /\ Head(todo) = s
  BY DEF AttachNext, AttachMove
<1>2. \A s : DetachNext(s) => DetachMove /\ Head(todo) = s
  BY DEF DetachNext, DetachMove
<1> QED
  BY <1>1, <1>2 DEF Take, Check, RingAlloc, DetachStop, DetachUnlock, DetachVaps, DetachNet,
     DetachTaskqueue, DetachRing, DetachCallout, Release

\* The function that runs goes on in its program, or another one begins.
LEMMA PlaceStep == ASSUME Place, [Next]_vars PROVE Place'
<1>a. ASSUME UNCHANGED <<phase, todo>> PROVE Place'
  BY <1>a DEF Place
<1>b. ASSUME AttachMove PROVE Place'
  BY <1>b, AttachMoves DEF AttachMove
<1>c. ASSUME DetachMove PROVE Place'
  BY <1>c, DetachMoves DEF DetachMove
<1>1. CASE AttachEnds
  BY <1>1 DEF AttachEnds, Place
<1>2. CASE AttachFails \/ Unload
  <2>1. phase' = "detach" /\ todo' = DetachOrder
    BY <1>2 DEF AttachFails, Unload
  <2>2. SubSeq(DetachOrder, 1, 15) = DetachOrder
    BY Orders, SubSeqFull
  <2> QED
    BY <2>1, <2>2 DEF Place
<1>3. CASE Load
  <2>1. phase' = "attach" /\ todo' = AttachOrder
    BY <1>3 DEF Load
  <2>2. SubSeq(AttachOrder, 1, 14) = AttachOrder
    BY Orders, SubSeqFull
  <2> QED
    BY <2>1, <2>2 DEF Place
<1>4. CASE DetachEnd
  BY <1>4 DEF DetachEnd, Place
<1>5. CASE Beside \/ UNCHANGED vars
  BY <1>a, <1>5, BesideKeepsLife DEF life, vars
<1> QED
  BY <1>b, <1>c, <1>1, <1>2, <1>3, <1>4, <1>5, StepCases, Moves

\* The flags stay Boolean.
LEMMA FlagsStep == ASSUME Flags, [Next]_vars PROVE Flags'
<1> USE DEF Flags
<1>1. CASE Attach
  <2>1. CASE \E res \in Resources : Take(res)
    BY <2>1 DEF Take, AttachNext, mac, intr, net
  <2>2. CASE \E step \in Checks : Check(step)
    BY <2>2 DEF Check, AttachNext, intr, net
  <2>3. CASE \E r \in Rings : RingAlloc(r)
    BY <2>3 DEF RingAlloc, AttachNext, mac, intr, net
  <2>4. CASE AttachEnds \/ AttachFails
    BY <2>4 DEF AttachEnds, AttachFails, mac, intr, net
  <2> QED
    BY <1>1, <2>1, <2>2, <2>3, <2>4 DEF Attach
<1>2. CASE Unload \/ Load
  BY <1>2 DEF Unload, Load, mac, intr, net
<1>3. CASE Detach
  <2>1. CASE DetachStop
    BY <2>1 DEF DetachStop, StopLocked, mac, intr, net
  <2>2. CASE DetachUnlock \/ DetachNet
    BY <2>2 DEF DetachUnlock, DetachNet, mac, intr, net
  <2>7. CASE DetachTaskqueue \/ DetachEnd
    BY <2>7 DEF DetachTaskqueue, DetachEnd, mac, intr, net
  <2>3. CASE DetachVaps
    BY <2>3 DEF DetachVaps, mac, intr
  <2>4. CASE \E r \in Rings : DetachRing(r)
    BY <2>4 DEF DetachRing, mac, intr, net
  <2>5. CASE DetachCallout
    BY <2>5 DEF DetachCallout, intr, net
  <2>6. CASE \E res \in {"ih", "irq", "bufdtag", "mem", "pmu", "mtx"} : Release(res)
    BY <2>6 DEF Release, mac, intr, net
  <2> QED
    BY <1>3, <2>1, <2>2, <2>3, <2>4, <2>5, <2>6, <2>7 DEF Detach
<1>4. CASE NetUpDown
  BY <1>4 DEF NetUpDown, life, mac, intr
<1>5. CASE Parent
  BY <1>5 DEF Parent, ParentInit, ParentInitFails, ParentStop, ParentIgnored, ParentTask,
     StopLocked, life, mac, intr
<1>6. CASE WatchdogStops
  BY <1>6 DEF WatchdogStops, FatalStop, life, intr, net
<1>7. CASE HwInterrupt \/ Filter
  BY <1>7 DEF HwInterrupt, Filter, life, intr, net
<1>8. CASE IntrTask
  BY <1>8 DEF IntrTask, IntrTaskEmpty, IntrTaskInput, IntrTaskEnds, FatalStop, life, mac, net
<1>9. CASE UNCHANGED vars
  BY <1>9 DEF vars, life, mac, intr, net
<1> QED
  BY <1>1, <1>2, <1>3, <1>4, <1>5, <1>6, <1>7, <1>8, <1>9 DEF Next

\* What is held follows the place.
LEMMA HeldStep == ASSUME Place, HeldByPlace, [Next]_vars PROVE HeldByPlace'
<1>a. ASSUME UNCHANGED <<phase, todo, held>> PROVE HeldByPlace'
  BY <1>a DEF HeldByPlace, Left
<1>b. ASSUME AttachMove, held' = held \cup ({Head(todo)} \cap Resources) PROVE HeldByPlace'
  BY <1>b, AttachMoves DEF AttachMove, HeldByPlace
<1>c. ASSUME DetachMove, held' = held \ {Head(todo)} PROVE HeldByPlace'
  BY <1>c, DetachMoves DEF DetachMove, HeldByPlace
<1>d. ASSUME DetachMove, held' = held, Head(todo) \notin Resources PROVE HeldByPlace'
  <2>1. held = held \ {Head(todo)}
    BY <1>d DEF HeldByPlace
  <2> QED
    BY <1>c, <1>d, <2>1
<1>1. ASSUME NEW res \in Resources, Take(res) PROVE HeldByPlace'
  BY <1>1, <1>b, Moves DEF Take
<1>2. ASSUME NEW s \in Checks \cup Rings, AttachMove, Head(todo) = s, held' = held PROVE HeldByPlace'
  <2>1. s \notin Resources
    BY DEF Checks, Rings, Resources
  <2> QED
    BY <1>2, <1>b, <2>1
<1>3. ASSUME NEW s \in Checks, Check(s) PROVE HeldByPlace'
  BY <1>2, <1>3, Moves DEF Check
<1>4. ASSUME NEW r \in Rings, RingAlloc(r) PROVE HeldByPlace'
  BY <1>2, <1>4, Moves DEF RingAlloc
<1>5. CASE AttachEnds
  BY <1>5, AttachLeft DEF AttachEnds, HeldByPlace
<1>6. CASE AttachFails \/ Unload
  <2>1. phase' = "detach" /\ todo' = DetachOrder /\ held' = held
    BY <1>6 DEF AttachFails, Unload
  <2>2. Resources \subseteq Left'
    BY <2>1 DEF Left, Range, DetachOrder, Resources
  <2> QED
    BY <2>1, <2>2 DEF HeldByPlace
<1>7. CASE Load
  <2>1. phase' = "attach" /\ todo' = AttachOrder /\ held' = {}
    BY <1>7 DEF Load, HeldByPlace
  <2>2. Resources \subseteq Left'
    BY <2>1 DEF Left, Range, AttachOrder, Resources
  <2> QED
    BY <2>1, <2>2 DEF HeldByPlace
<1>8. CASE DetachStop \/ DetachUnlock \/ DetachVaps \/ DetachCallout
  <2>1. held' = held /\ DetachMove /\ Head(todo) \in {"stop", "unlock", "vaps", "callout"}
    BY <1>8, Moves DEF DetachStop, DetachUnlock, DetachVaps, DetachCallout
  <2> QED
    BY <1>d, <2>1 DEF Resources
<1>9. CASE DetachNet \/ DetachTaskqueue
  BY <1>9, <1>c, Moves DEF DetachNet, DetachTaskqueue
<1>10. ASSUME NEW r \in Rings, DetachRing(r) PROVE HeldByPlace'
  <2>1. r \notin Resources
    BY DEF Rings, Resources
  <2> QED
    BY <1>10, <1>d, <2>1, Moves DEF DetachRing
<1>11. ASSUME NEW res \in {"ih", "irq", "bufdtag", "mem", "pmu", "mtx"}, Release(res) PROVE HeldByPlace'
  BY <1>11, <1>c, Moves DEF Release
<1>12. CASE DetachEnd
  BY <1>12, DetachLeft DEF DetachEnd, HeldByPlace
<1>13. CASE Beside \/ UNCHANGED vars
  BY <1>13, <1>a, BesideKeepsLife DEF life, vars
<1> QED
  BY <1>1, <1>3, <1>4, <1>5, <1>6, <1>7, <1>8, <1>9, <1>10, <1>11, <1>12, <1>13, StepCases

-----------------------------------------------------------------------------
(* Rings.                                                                  *)

AllParts == {"dtag", "desc", "slots", "maps", "txhdr"}

\* The parts of a ring are few, the tag is the first and the slots the third.
LEMMA PartsOf ==
  ASSUME NEW r \in Rings
  PROVE  /\ Parts(r) \in Seq(AllParts) /\ Len(Parts(r)) \in {4, 5}
         /\ Parts(r)[1] = "dtag" /\ Parts(r)[3] = "slots"
<1> DEFINE p == <<"dtag", "desc", "slots", "maps">>
           q == IF r = "tx" THEN <<"txhdr">> ELSE <<>>
<1>1. p \in Seq(AllParts) /\ Len(p) = 4 /\ p[1] = "dtag" /\ p[3] = "slots"
  BY DEF AllParts
<1>2. q \in Seq(AllParts) /\ Len(q) \in {0, 1}
  BY DEF AllParts
<1>3. Parts(r) = p \o q
  BY DEF Parts
<1> HIDE DEF p, q
<1>4. /\ p \o q \in Seq(AllParts) /\ Len(p \o q) = Len(p) + Len(q)
      /\ \A i \in 1 .. Len(p) + Len(q) : (p \o q)[i] = IF i <= Len(p) THEN p[i] ELSE q[i - Len(p)]
  BY <1>1, <1>2, ConcatProperties
<1>5. (p \o q)[1] = p[1] /\ (p \o q)[3] = p[3]
  <2>1. 1 \in 1 .. Len(p) + Len(q) /\ 3 \in 1 .. Len(p) + Len(q) /\ 1 <= Len(p) /\ 3 <= Len(p)
    BY <1>1, <1>2
  <2> QED
    BY <1>4, <2>1
<1> QED
  BY <1>1, <1>2, <1>3, <1>4, <1>5

\* The first parts of a ring.
LEMMA FirstPartsIs ==
  ASSUME NEW r \in Rings, NEW n \in 0 .. Len(Parts(r))
  PROVE  FirstParts(r, n) = {Parts(r)[i] : i \in 1 .. n}
<1> DEFINE p == Parts(r)
           t == SubSeq(p, 1, n)
<1>1. p \in Seq(AllParts) /\ Len(p) \in Nat /\ n \in Nat /\ \A i \in 1 .. n : p[i] \in AllParts
  BY PartsOf
<1> HIDE DEF p
<1>2. /\ t \in Seq(AllParts) /\ Len(t) = (IF 1 <= n THEN n - 1 + 1 ELSE 0)
      /\ \A i \in 1 .. n - 1 + 1 : t[i] = p[1 + i - 1]
  BY <1>1, SubSeqProperties
<1> HIDE DEF t
<1>3. DOMAIN t = 1 .. n /\ \A i \in 1 .. n : t[i] = p[i]
  BY <1>1, <1>2
<1>4. Range(t) = {p[i] : i \in 1 .. n}
  BY <1>3 DEF Range
<1> QED
  BY <1>4 DEF FirstParts, t, p

\* All of them or none: what a ring can have between two steps.
LEMMA WholeRing ==
  ASSUME NEW r \in Rings
  PROVE  /\ Range(Parts(r)) = FirstParts(r, Len(Parts(r)))
         /\ FirstParts(r, 0) = {}
         /\ Range(Parts(r)) \subseteq AllParts
         /\ Len(Parts(r)) \in Nat
<1>1. Parts(r) \in Seq(AllParts) /\ Len(Parts(r)) \in Nat
  BY PartsOf
<1>2. SubSeq(Parts(r), 1, Len(Parts(r))) = Parts(r)
  BY <1>1, SubSeqFull
<1>3. FirstParts(r, 0) = {}
  BY <1>1, FirstPartsIs
<1>4. Range(Parts(r)) \subseteq AllParts
  BY <1>1 DEF Range
<1> QED
  BY <1>1, <1>2, <1>3, <1>4 DEF FirstParts

\* ring_free() leaves nothing of a ring that has its tag and its slots.
LEMMA FreeFrees ==
  ASSUME NEW parts \in SUBSET AllParts, "dtag" \in parts, "slots" \in parts
  PROVE  RingFree(parts) = {}
  BY DEF RingFree, AllParts

\* Whatever part of ring_alloc() fails, nothing is left of the ring.
LEMMA AllocUndone ==
  ASSUME NEW r \in Rings, NEW n \in 0 .. Len(Parts(r)) PROVE RingAllocFailed(r, n) = {}
<1>1. CASE n <= 2
  BY <1>1 DEF RingAllocFailed
<1>2. CASE ~(n <= 2)
  <2>1. /\ Parts(r) \in Seq(AllParts) /\ Len(Parts(r)) \in Nat /\ 1 \in 1 .. n /\ 3 \in 1 .. n
        /\ Parts(r)[1] = "dtag" /\ Parts(r)[3] = "slots"
    BY <1>2, PartsOf
  <2>2. FirstParts(r, n) = {Parts(r)[i] : i \in 1 .. n}
    BY FirstPartsIs
  <2>3. FirstParts(r, n) \in SUBSET AllParts
    <3>1. \A i \in 1 .. n : Parts(r)[i] \in AllParts
      BY <2>1
    <3> QED
      BY <2>2, <3>1
  <2>4. "dtag" \in FirstParts(r, n) /\ "slots" \in FirstParts(r, n)
    BY <2>1, <2>2
  <2> QED
    BY <1>2, <2>3, <2>4, FreeFrees DEF RingAllocFailed
<1> QED
  BY <1>1, <1>2

\* ring_free() leaves nothing of any ring that it can meet.
LEMMA RingFreed ==
  ASSUME RingsByPlace, NEW r \in Rings PROVE RingFree(ring[r]) = {}
<1>1. CASE ring[r] = {}
  BY <1>1 DEF RingFree
<1>2. CASE RingReady(r)
  <2>1. "dtag" \in Range(Parts(r)) /\ "slots" \in Range(Parts(r))
    <3>1. 1 \in DOMAIN Parts(r) /\ 3 \in DOMAIN Parts(r)
      BY PartsOf
    <3> QED
      BY <3>1, PartsOf DEF Range
  <2> QED
    BY <1>2, <2>1, FreeFrees, WholeRing DEF RingReady
<1> QED
  BY <1>1, <1>2 DEF RingsByPlace

\* The rings follow the place.
LEMMA RingsStep ==
  ASSUME Place, Flags, RingsByPlace, [Next]_vars PROVE RingsByPlace'
<1>a. ASSUME UNCHANGED <<phase, todo, ring>> PROVE RingsByPlace'
  BY <1>a DEF RingsByPlace, RingReady, Left
<1>b. ASSUME AttachMove, Head(todo) \notin Rings, ring' = ring PROVE RingsByPlace'
  BY <1>b, AttachMoves DEF AttachMove, RingsByPlace, RingReady
<1>c. ASSUME DetachMove, Head(todo) \notin Rings, ring' = ring PROVE RingsByPlace'
  BY <1>c, DetachMoves DEF DetachMove, RingsByPlace, RingReady
<1>d. \A s \in Resources \cup Checks \cup {"stop", "unlock", "vaps", "callout"} : s \notin Rings
  BY DEF Resources, Checks, Rings
<1>1. ASSUME NEW s \in Resources \cup Checks, Take(s) \/ Check(s) PROVE RingsByPlace'
  <2>1. AttachMove /\ Head(todo) = s /\ ring' = ring
    BY <1>1 DEF Take, Check, AttachNext, AttachMove
  <2> QED
    BY <1>b, <1>d, <2>1
<1>2. ASSUME NEW r \in Rings, RingAlloc(r) PROVE RingsByPlace'
  <2>1. AttachMove /\ Head(todo) = r /\ ring' = [ring EXCEPT ![r] = Range(Parts(r))]
    BY <1>2, Moves DEF RingAlloc
  <2>2. Left' = Left \ {r} /\ phase' = "attach" /\ phase = "attach"
    BY <2>1, AttachMoves DEF AttachMove
  <2>3. Range(Parts(r)) \in SUBSET AllParts
    BY WholeRing
  <2> QED
    BY <2>1, <2>2, <2>3 DEF RingsByPlace, RingReady, AllParts
<1>3. CASE AttachEnds
  BY <1>3, AttachLeft DEF AttachEnds, RingsByPlace, RingReady
<1>4. CASE AttachFails
  <2>1. phase = "attach" /\ phase' = "detach" /\ todo' = DetachOrder /\ todo # <<>>
    BY <1>4 DEF AttachFails
  <2>2. Rings \subseteq Left'
    BY <2>1 DEF Left, Range, DetachOrder, Rings
  <2>3. CASE ring' = ring
    BY <2>1, <2>2, <2>3 DEF RingsByPlace, RingReady
  <2>4. ASSUME NEW r \in Rings, NEW n \in 0 .. Len(Parts(r)),
               ring' = [ring EXCEPT ![r] = RingAllocFailed(r, n)]
        PROVE  RingsByPlace'
    <3>1. ring' = [ring EXCEPT ![r] = {}]
      BY <2>4, AllocUndone
    <3> QED
      BY <2>1, <2>2, <3>1 DEF RingsByPlace, RingReady
  <2> QED
    BY <1>4, <2>3, <2>4 DEF AttachFails
<1>5. CASE Unload
  <2>1. phase' = "detach" /\ todo' = DetachOrder /\ ring' = ring
    BY <1>5 DEF Unload
  <2>2. Rings \subseteq Left'
    BY <2>1 DEF Left, Range, DetachOrder, Rings
  <2> QED
    BY <2>1, <2>2 DEF RingsByPlace, RingReady
<1>6. CASE Load
  <2>1. phase' = "attach" /\ todo' = AttachOrder /\ ring' = ring /\ \A r \in Rings : ring[r] = {}
    BY <1>6 DEF Load, RingsByPlace
  <2>2. Rings \subseteq Left'
    BY <2>1 DEF Left, Range, AttachOrder, Rings
  <2> QED
    BY <2>1, <2>2 DEF RingsByPlace, RingReady
<1>7. CASE DetachStop \/ DetachUnlock \/ DetachVaps \/ DetachNet \/ DetachTaskqueue \/ DetachCallout
  <2>1. ring' = ring
    BY <1>7 DEF DetachStop, DetachUnlock, DetachVaps, DetachNet, DetachTaskqueue, DetachCallout
  <2>2. DetachMove /\ Head(todo) \in {"stop", "unlock", "vaps", "ic", "tq", "callout"}
    BY <1>7, Moves
  <2>3. Head(todo) \notin Rings
    BY <2>2 DEF Rings
  <2> QED
    BY <1>c, <2>1, <2>2, <2>3
<1>8. ASSUME NEW r \in Rings, DetachRing(r) PROVE RingsByPlace'
  <2>1. DetachMove /\ Head(todo) = r /\ ring' = [ring EXCEPT ![r] = RingFree(@)]
    BY <1>8, Moves DEF DetachRing
  <2>2. ring' = [ring EXCEPT ![r] = {}]
    BY <2>1, RingFreed
  <2>3. Left' = Left \ {r} /\ phase' = "detach" /\ phase = "detach"
    BY <2>1, DetachMoves DEF DetachMove
  <2> QED
    BY <2>2, <2>3 DEF RingsByPlace, RingReady
<1>9. ASSUME NEW res \in {"ih", "irq", "bufdtag", "mem", "pmu", "mtx"}, Release(res) PROVE RingsByPlace'
  <2>1. DetachMove /\ Head(todo) = res /\ ring' = ring /\ res \in Resources
    BY <1>9, Moves DEF Release, Resources
  <2> QED
    BY <1>c, <1>d, <2>1
<1>10. CASE DetachEnd
  BY <1>10, DetachLeft DEF DetachEnd, RingsByPlace, RingReady
<1>11. CASE Beside \/ UNCHANGED vars
  BY <1>11, <1>a, BesideKeepsLife DEF life, vars
<1> QED
  BY <1>1, <1>2, <1>3, <1>4, <1>5, <1>6, <1>7, <1>8, <1>9, <1>10, <1>11, StepCases

-----------------------------------------------------------------------------
(* Who may run, and what must be there for him.                            *)

\* What Equipped depends on.
LEMMA EquippedStays ==
  ASSUME Equipped, {"mtx", "tq", "mem", "pmu", "bufdtag"} \cap held \subseteq held', ring' = ring
  PROVE  Equipped'
  BY DEF Equipped, RingReady

\* Nothing that needs the equipment is there any more once tq is released.
LEMMA NobodyLeft ==
  ASSUME Place, HeldByPlace, Guards, phase = "detach", "tq" \notin Left
  PROVE  /\ "ic" \notin held /\ "ih" \notin held /\ ~task /\ ~input
         /\ ~attached /\ ~ptask /\ ~up /\ ~running /\ ~locked
<1>1. "tq" \notin held
  BY DEF HeldByPlace
<1>2. ~Equipped
  BY <1>1 DEF Equipped
<1> QED
  BY <1>2 DEF Guards

\* A step of attach adds to the equipment only.
LEMMA GuardsAttach ==
  ASSUME Place, Flags, HeldByPlace, RingsByPlace, Guards, AttachMove, Place', HeldByPlace',
         \/ \E res \in Resources : Take(res)
         \/ \E step \in Checks : Check(step)
         \/ \E r \in Rings : RingAlloc(r)
  PROVE  Guards'
<1>0. phase = "attach" /\ phase' = "attach" /\ UNCHANGED <<locked, task, input, up, ptask>> /\ ~locked
  BY DEF AttachMove, Take, Check, RingAlloc, AttachNext, intr, net, Guards
<1>1. ASSUME NEW res \in Resources, Take(res) PROVE Guards'
  <2>1. /\ held' = held \cup {res} /\ attached' = (attached \/ res = "ic") /\ Head(todo) = res
        /\ UNCHANGED <<ring, running, armed>> /\ todo # <<>>
    BY <1>1, Moves DEF Take, mac, AttachMove
  <2>2. CASE res = "ic"
    <3>1. \A s \in {"mtx", "tq", "mem", "pmu", "bufdtag"} \cup Rings : s \notin Left
      BY <1>0, <2>1, <2>2, AttachLeft
    <3>2. Equipped
      BY <1>0, <3>1 DEF Equipped, HeldByPlace, RingsByPlace, Resources
    <3>3. Equipped'
      BY <2>1, <3>2, EquippedStays
    <3> QED
      BY <1>0, <2>1, <2>2, <3>3 DEF Guards
  <2>3. CASE res = "ih"
    <3>1. "ic" \notin Left
      BY <1>0, <2>1, <2>3, AttachLeft
    <3>2. "ic" \in held
      BY <1>0, <3>1 DEF HeldByPlace, Resources
    <3>3. Equipped'
      BY <2>1, <3>2, EquippedStays DEF Guards
    <3> QED
      BY <1>0, <2>1, <2>3, <3>3 DEF Guards
  <2>4. CASE res \notin {"ic", "ih"}
    <3>1. Equipped => Equipped'
      BY <2>1, EquippedStays
    <3> QED
      BY <1>0, <2>1, <2>4, <3>1 DEF Guards
  <2> QED
    BY <2>2, <2>3, <2>4
<1>2. ASSUME NEW step \in Checks, Check(step) PROVE Guards'
  <2>1. UNCHANGED <<held, ring, attached, running, armed>>
    BY <1>2 DEF Check
  <2>2. Equipped => Equipped'
    BY <2>1, EquippedStays
  <2> QED
    BY <1>0, <2>1, <2>2 DEF Guards
<1>3. ASSUME NEW r \in Rings, RingAlloc(r) PROVE Guards'
  <2>1. /\ UNCHANGED <<held, attached, running, armed>>
        /\ ring' = [ring EXCEPT ![r] = Range(Parts(r))]
    BY <1>3 DEF RingAlloc, mac
  <2>2. Equipped => Equipped'
    BY <2>1 DEF Equipped, RingReady, RingsByPlace
  <2> QED
    BY <1>0, <2>1, <2>2 DEF Guards
<1> QED
  BY <1>1, <1>2, <1>3

\* Where one function ends and another begins.
LEMMA GuardsTurn ==
  ASSUME Place, Flags, HeldByPlace, RingsByPlace, Guards,
         AttachEnds \/ AttachFails \/ Unload \/ Load \/ DetachEnd
  PROVE  Guards'
<1>1. UNCHANGED <<held, attached, locked, running, armed, task, input, up, ptask>>
  BY DEF AttachEnds, AttachFails, Unload, Load, DetachEnd, mac, intr, net
<1>2. CASE AttachEnds
  <2>1. ring' = ring /\ phase' = "up" /\ phase = "attach"
    BY <1>2 DEF AttachEnds
  <2>2. Equipped => Equipped'
    BY <1>1, <2>1, EquippedStays
  <2> QED
    BY <1>1, <2>1, <2>2 DEF Guards
<1>3. CASE AttachFails \/ Unload
  <2>1. phase # "detach" /\ phase' = "detach" /\ todo' = DetachOrder
    BY <1>3 DEF AttachFails, Unload
  <2>2. "callout" \in Left' /\ "vaps" \in Left'
    BY <2>1 DEF Left, Range, DetachOrder
  <2>3. Equipped => Equipped'
    <3>1. CASE ring' = ring
      BY <1>1, <3>1, EquippedStays
    <3>2. CASE ring' # ring
      <4>1. phase = "attach" /\ todo # <<>> /\ Head(todo) \in Rings
        BY <1>3, <3>2 DEF AttachFails, Unload
      <4>2. Head(todo) \in Left
        <5>1. PICK n \in 1 .. 15 : todo = SubSeq(AttachOrder, n, 14)
          BY <4>1 DEF Place
        <5>2. /\ Left = {AttachOrder[i] : i \in n .. 14}
              /\ todo = <<>> <=> n = 15
              /\ n # 15 => Head(todo) = AttachOrder[n]
          BY <5>1, AttachRest DEF Left
        <5> QED
          BY <4>1, <5>2
      <4>3. ring[Head(todo)] = {}
        BY <4>1, <4>2 DEF RingsByPlace
      <4>4. Range(Parts(Head(todo))) # {}
        <5>1. 1 \in DOMAIN Parts(Head(todo))
          BY <4>1, PartsOf
        <5> QED
          BY <5>1 DEF Range
      <4> QED
        BY <4>1, <4>3, <4>4 DEF Equipped, RingReady
    <3> QED
      BY <3>1, <3>2
  <2> QED
    BY <1>1, <2>1, <2>2, <2>3 DEF Guards
<1>4. CASE Load
  <2>1. phase = "gone" /\ phase' = "attach" /\ held = {}
    BY <1>4 DEF Load, HeldByPlace
  <2>2. ~Equipped
    BY <2>1 DEF Equipped
  <2> QED
    BY <1>1, <2>1, <2>2 DEF Guards
<1>5. CASE DetachEnd
  <2>1. phase = "detach" /\ phase' = "gone" /\ todo = <<>>
    BY <1>5 DEF DetachEnd
  <2>2. Left = {}
    BY <2>1, DetachLeft
  <2> QED
    BY <1>1, <2>1, <2>2, NobodyLeft DEF Guards
<1> QED
  BY <1>2, <1>3, <1>4, <1>5

\* A step of detach takes away what nobody uses any more.
LEMMA GuardsDetach ==
  ASSUME Place, Flags, HeldByPlace, RingsByPlace, Guards,
         \/ DetachStop \/ DetachUnlock \/ DetachVaps \/ DetachNet \/ DetachTaskqueue
         \/ \E r \in Rings : DetachRing(r)
         \/ DetachCallout
         \/ \E res \in {"ih", "irq", "bufdtag", "mem", "pmu", "mtx"} : Release(res)
  PROVE  Guards'
<1>0. /\ DetachMove /\ phase = "detach" /\ phase' = "detach" /\ todo # <<>>
      /\ Left' = Left \ {Head(todo)} /\ held \subseteq Left
  BY Moves, DetachMoves DEF DetachMove, HeldByPlace
<1>1. CASE DetachStop
  <2>1. /\ Head(todo) = "stop" /\ locked' = attached /\ running' \in {running, FALSE}
        /\ armed' \in {armed, FALSE}
        /\ UNCHANGED <<held, ring, attached, task, input, up, ptask>>
    BY <1>1, Moves DEF DetachStop, StopLocked, mac, intr, net
  <2>2. "unlock" \in Left /\ Head(todo) \in Left
    BY <1>0, <2>1, DetachLeft
  <2>3. Equipped => Equipped'
    BY <2>1, EquippedStays
  <2>4. (attached' <=> "ic" \in held')
        /\ ("ic" \in held' \/ "ih" \in held' \/ task' \/ input' => Equipped')
    BY <2>1, <2>3 DEF Guards
  <2>5. armed' => {"mtx", "mem"} \subseteq held' /\ (phase' = "detach" => "callout" \in Left')
    BY <1>0, <2>1 DEF Guards, Flags
  <2>6. ptask' \/ up' \/ running' \/ locked' => "ic" \in held'
    BY <2>1 DEF Guards, Flags
  <2>7. locked' => phase' = "detach" /\ "stop" \notin Left' /\ "unlock" \in Left'
    BY <1>0, <2>1, <2>2
  <2>8. running' => up' \/ ptask'
    <3>1. running' => running
      BY <2>1 DEF Flags
    <3> QED
      BY <2>1, <3>1 DEF Guards
  <2>9. phase' = "detach" /\ "vaps" \notin Left' => ~up'
    BY <1>0, <2>1 DEF Guards
  <2> QED
    BY <2>4, <2>5, <2>6, <2>7, <2>8, <2>9 DEF Guards
<1>2. CASE DetachUnlock
  <2>1. /\ Head(todo) = "unlock" /\ locked' = FALSE
        /\ UNCHANGED <<held, ring, attached, running, armed, task, input, up, ptask>>
    BY <1>2, Moves DEF DetachUnlock, mac, intr, net
  <2>2. Equipped => Equipped'
    BY <2>1, EquippedStays
  <2> QED
    BY <1>0, <2>1, <2>2 DEF Guards
<1>3. CASE DetachVaps
  <2>1. /\ Head(todo) = "vaps" /\ up' = FALSE /\ ptask' = (ptask \/ up)
        /\ UNCHANGED <<held, ring, attached, locked, running, armed, task, input>>
    BY <1>3, Moves DEF DetachVaps, mac, intr
  <2>2. Equipped => Equipped'
    BY <2>1, EquippedStays
  <2> QED
    BY <1>0, <2>1, <2>2 DEF Guards
<1>4. CASE DetachNet
  <2>1. /\ Head(todo) = "ic" /\ held' = held \ {"ic"} /\ attached' = FALSE /\ ~ptask
        /\ UNCHANGED <<ring, locked, running, armed, task, input, up, ptask>>
    BY <1>4, Moves DEF DetachNet, mac, intr, net
  <2>2. "vaps" \notin Left /\ "unlock" \notin Left
    BY <1>0, <2>1, DetachLeft
  <2>3. ~up /\ ~running /\ ~locked
    BY <1>0, <2>1, <2>2 DEF Guards
  <2>4. Equipped => Equipped'
    BY <2>1, EquippedStays
  <2> QED
    BY <1>0, <2>1, <2>3, <2>4 DEF Guards
<1>5. CASE DetachTaskqueue
  <2>1. /\ Head(todo) = "tq" /\ held' = held \ {"tq"} /\ ~task /\ ~input
        /\ UNCHANGED <<ring, attached, locked, running, armed, task, input, up, ptask>>
    BY <1>5, Moves DEF DetachTaskqueue, mac, intr, net
  <2>2. "ih" \notin Left
    BY <1>0, <2>1, DetachLeft
  <2>3. "ic" \notin held /\ "ih" \notin held
    BY <1>0, <2>2, DetachLeft
  <2> QED
    BY <1>0, <2>1, <2>3 DEF Guards
<1>6. ASSUME NEW r \in Rings, DetachRing(r) PROVE Guards'
  <2>1. /\ Head(todo) = r
        /\ UNCHANGED <<held, attached, locked, running, armed, task, input, up, ptask>>
    BY <1>6, Moves DEF DetachRing, mac, intr, net
  <2>2. "tq" \notin Left /\ r # "callout"
    BY <1>0, <2>1, DetachLeft DEF Rings
  <2> QED
    BY <1>0, <2>1, <2>2, NobodyLeft DEF Guards
<1>7. CASE DetachCallout
  <2>1. /\ Head(todo) = "callout" /\ armed' = FALSE
        /\ UNCHANGED <<held, ring, attached, locked, running, task, input, up, ptask>>
    BY <1>7, Moves DEF DetachCallout, intr, net
  <2>2. Equipped => Equipped'
    BY <2>1, EquippedStays
  <2> QED
    BY <1>0, <2>1, <2>2 DEF Guards
<1>8. ASSUME NEW res \in {"ih", "irq", "bufdtag", "mem", "pmu", "mtx"}, Release(res) PROVE Guards'
  <2>1. /\ Head(todo) = res /\ held' = held \ {res}
        /\ UNCHANGED <<ring, attached, locked, running, armed, task, input, up, ptask>>
    BY <1>8, Moves DEF Release, mac, intr, net
  <2>2. CASE res \in {"ih", "irq"}
    <3>1. Equipped => Equipped'
      BY <2>1, <2>2, EquippedStays
    <3> QED
      BY <1>0, <2>1, <2>2, <3>1 DEF Guards
  <2>3. CASE res = "bufdtag"
    <3>1. "tq" \notin Left
      BY <1>0, <2>1, <2>3, DetachLeft
    <3> QED
      BY <1>0, <2>1, <2>3, <3>1, NobodyLeft DEF Guards
  <2>4. CASE res \in {"mem", "pmu", "mtx"}
    <3>1. "callout" \notin Left /\ "tq" \notin Left
      BY <1>0, <2>1, <2>4, DetachLeft
    <3> QED
      BY <1>0, <2>1, <2>4, <3>1, NobodyLeft DEF Guards
  <2> QED
    BY <1>8, <2>2, <2>3, <2>4
<1> QED
  BY <1>1, <1>2, <1>3, <1>4, <1>5, <1>6, <1>7, <1>8

\* Who runs beside them starts nobody without the equipment.
LEMMA GuardsBeside ==
  ASSUME Place, Flags, HeldByPlace, Guards, Beside PROVE Guards'
<1>0. /\ UNCHANGED <<phase, todo, held, ring, attached, locked, Left>>
      /\ Equipped => Equipped'
      /\ "ic" \in held => {"mtx", "mem"} \subseteq held /\ (phase = "detach" => "callout" \in Left)
  <2>1. UNCHANGED <<phase, todo, held, ring, attached, locked, Left>>
    BY BesideKeepsLife DEF life, Left
  <2>2. "ic" \in held => {"mtx", "mem"} \subseteq held
    BY DEF Guards, Equipped
  <2>3. "ic" \in held /\ phase = "detach" => "callout" \in Left
    BY DetachLeft DEF HeldByPlace
  <2> QED
    BY <2>1, <2>2, <2>3, EquippedStays
<1>1. CASE NetUpDown
  <2>1. /\ "ic" \in held /\ ~Closing /\ up' = ~up /\ ptask' = TRUE
        /\ UNCHANGED <<running, armed, task, input>>
    BY <1>1 DEF NetUpDown, mac, intr
  <2> QED
    BY <1>0, <2>1 DEF Guards, Closing, Left
<1>2. CASE Parent
  <2>1. ParentTask /\ ptask /\ ptask' = FALSE /\ UNCHANGED <<task, input, up>> /\ "ic" \in held
    BY <1>2 DEF Parent, ParentInit, ParentInitFails, ParentStop, ParentIgnored, ParentTask, intr,
       Guards
  <2>2. CASE ParentInit
    BY <1>0, <2>1, <2>2 DEF Guards, ParentInit
  <2>3. CASE ParentInitFails
    BY <1>0, <2>1, <2>3 DEF Guards, ParentInitFails
  <2>4. CASE ParentStop
    BY <1>0, <2>1, <2>4 DEF Guards, ParentStop, StopLocked
  <2>5. CASE ParentIgnored
    BY <1>0, <2>1, <2>5 DEF Guards, ParentIgnored, mac
  <2> QED
    BY <1>2, <2>2, <2>3, <2>4, <2>5 DEF Parent
<1>3. CASE WatchdogStops
  BY <1>0, <1>3 DEF WatchdogStops, FatalStop, intr, net, Guards
<1>4. CASE HwInterrupt \/ Filter
  BY <1>0, <1>4 DEF HwInterrupt, Filter, intr, net, Guards
<1>5. CASE IntrTask
  BY <1>0, <1>5 DEF IntrTask, IntrTaskEmpty, IntrTaskInput, IntrTaskEnds, FatalStop, mac, net, Guards
<1> QED
  BY <1>1, <1>2, <1>3, <1>4, <1>5 DEF Beside

\* All of Guards.
LEMMA GuardsStep ==
  ASSUME Place, Flags, HeldByPlace, RingsByPlace, Guards, [Next]_vars PROVE Guards'
<1>1. Place' /\ HeldByPlace'
  BY PlaceStep, HeldStep
<1>2. CASE \/ \E res \in Resources : Take(res)
           \/ \E step \in Checks : Check(step)
           \/ \E r \in Rings : RingAlloc(r)
  <2>1. AttachMove
    BY <1>2, Moves
  <2> QED
    BY <1>1, <1>2, <2>1, GuardsAttach
<1>3. CASE UNCHANGED vars
  BY <1>3 DEF vars, life, mac, intr, net, Guards, Equipped, RingReady, Left
<1> QED
  BY <1>2, <1>3, GuardsTurn, GuardsDetach, GuardsBeside, StepCases

-----------------------------------------------------------------------------
(* The engines.                                                            *)

\* No step leaves an engine on that nobody will stop.
LEMMA EngineStep ==
  ASSUME Place, Flags, HeldByPlace, Guards, EngineByPlace, [Next]_vars PROVE EngineByPlace'
<1>1. ASSUME AttachMove, live' => live, orphaned' = orphaned \/ ~live', held \subseteq held'
      PROVE  EngineByPlace'
  BY <1>1 DEF AttachMove, EngineByPlace
<1>2. ASSUME NEW res \in Resources, Take(res) PROVE EngineByPlace'
  BY <1>1, <1>2, Moves DEF Take, mac
<1>3. ASSUME NEW step \in Checks, Check(step) PROVE EngineByPlace'
  BY <1>1, <1>3, Moves DEF Check, Flags
<1>4. ASSUME NEW r \in Rings, RingAlloc(r) PROVE EngineByPlace'
  BY <1>1, <1>4, Moves DEF RingAlloc, mac
<1>5. CASE AttachEnds \/ AttachFails \/ Unload
  <2>1. UNCHANGED <<held, live, orphaned>> /\ (phase' = "detach" => todo' = DetachOrder)
    BY <1>5 DEF AttachEnds, AttachFails, Unload, mac
  <2>2. phase' = "detach" => "stop" \in Left'
    BY <2>1 DEF Left, Range, DetachOrder
  <2> QED
    BY <2>1, <2>2 DEF EngineByPlace
<1>6. CASE Load \/ DetachEnd
  <2>1. UNCHANGED <<held, live, orphaned>> /\ phase' # "detach"
    BY <1>6 DEF Load, DetachEnd, mac
  <2> QED
    BY <2>1 DEF EngineByPlace
<1>7. CASE DetachStop
  <2>1. /\ phase = "detach" /\ held' = held
        /\ IF attached THEN live' = FALSE ELSE UNCHANGED <<live, orphaned>>
    BY <1>7 DEF DetachStop, DetachNext, MustStop, StopLocked, mac
  <2> QED
    BY <2>1 DEF EngineByPlace, Guards
<1>8. ASSUME DetachMove, Head(todo) # "stop", live' = live, orphaned' = orphaned, running' = running,
             ("ic" \in held => "ic" \in held') \/ (~running /\ "stop" \notin Left)
      PROVE  EngineByPlace'
  <2>1. Left' = Left \ {Head(todo)} /\ phase = "detach" /\ phase' = "detach"
    BY <1>8, DetachMoves DEF DetachMove
  <2> QED
    BY <1>8, <2>1 DEF EngineByPlace
<1>9. CASE DetachUnlock \/ DetachVaps \/ DetachTaskqueue \/ DetachCallout
  <2>1. /\ live' = live /\ orphaned' = orphaned /\ running' = running /\ ("ic" \in held => "ic" \in held')
    BY <1>9 DEF DetachUnlock, DetachVaps, DetachTaskqueue, DetachCallout, mac
  <2>2. DetachMove /\ Head(todo) # "stop"
    BY <1>9, Moves
  <2> QED
    BY <1>8, <2>1, <2>2
<1>10. CASE DetachNet
  <2>1. /\ DetachMove /\ Head(todo) = "ic" /\ ~ptask /\ phase = "detach" /\ todo # <<>>
        /\ live' = live /\ orphaned' = orphaned /\ running' = running
    BY <1>10, Moves DEF DetachNet, DetachMove, mac
  <2>2. "vaps" \notin Left /\ "stop" \notin Left
    BY <2>1, DetachLeft
  <2>3. ~running
    BY <2>1, <2>2 DEF Guards
  <2> QED
    BY <1>8, <2>1, <2>2, <2>3
<1>11. ASSUME NEW r \in Rings, DetachRing(r) PROVE EngineByPlace'
  <2>1. /\ DetachMove /\ Head(todo) = r /\ r # "stop"
        /\ live' = live /\ orphaned' = orphaned /\ running' = running /\ held' = held
    BY <1>11, Moves DEF DetachRing, mac, Rings
  <2> QED
    BY <1>8, <2>1
<1>12. ASSUME NEW res \in {"ih", "irq", "bufdtag", "mem", "pmu", "mtx"}, Release(res)
       PROVE  EngineByPlace'
  <2>1. /\ DetachMove /\ Head(todo) = res /\ live' = live /\ orphaned' = orphaned /\ running' = running
        /\ held' = held \ {res}
    BY <1>12, Moves DEF Release, mac
  <2> QED
    BY <1>8, <2>1
<1>13. CASE Beside
  <2>1. UNCHANGED <<phase, todo, held, Left>>
    BY <1>13, BesideKeepsLife DEF life, Left
  <2>2. CASE NetUpDown \/ HwInterrupt \/ Filter
    BY <2>1, <2>2 DEF NetUpDown, HwInterrupt, Filter, mac, EngineByPlace
  <2>3. CASE Parent
    <3>1. CASE ParentInit
      BY <2>1, <3>1 DEF ParentInit, ParentTask, Guards, EngineByPlace
    <3>2. CASE ParentInitFails
      <4>1. CASE UNCHANGED <<live, orphaned>>
        BY <2>1, <3>2, <4>1 DEF ParentInitFails, EngineByPlace
      <4>2. CASE live' = FALSE
        BY <4>2 DEF EngineByPlace
      <4> QED
        BY <3>2, <4>1, <4>2 DEF ParentInitFails
    <3>3. CASE ParentStop \/ ParentIgnored
      BY <2>1, <3>3 DEF ParentStop, ParentIgnored, StopLocked, mac, EngineByPlace
    <3> QED
      BY <2>3, <3>1, <3>2, <3>3 DEF Parent
  <2>4. ASSUME running, FatalStop PROVE EngineByPlace'
    BY <2>1, <2>4 DEF FatalStop, Guards, EngineByPlace
  <2>5. CASE WatchdogStops
    BY <2>4, <2>5 DEF WatchdogStops
  <2>6. CASE IntrTask
    BY <2>1, <2>4, <2>6 DEF IntrTask, IntrTaskEmpty, IntrTaskInput, IntrTaskEnds, mac, EngineByPlace
  <2> QED
    BY <1>13, <2>2, <2>3, <2>5, <2>6 DEF Beside
<1>14. CASE UNCHANGED vars
  BY <1>14 DEF vars, life, mac, EngineByPlace, Left
<1> QED
  BY <1>2, <1>3, <1>4, <1>5, <1>6, <1>7, <1>9, <1>10, <1>11, <1>12, <1>13, <1>14, StepCases

-----------------------------------------------------------------------------
(* The theorems.                                                           *)

\* A device that nobody has attached yet.
LEMMA IInvInit == ASSUME Init PROVE IInv
<1>1. Place
  <2>1. SubSeq(AttachOrder, 1, 14) = AttachOrder
    BY Orders, SubSeqFull
  <2> QED
    BY <2>1 DEF Init, Place
<1>2. Resources \cup Rings \subseteq Left
  BY DEF Init, Left, Range, AttachOrder, Resources, Rings
<1>3. HeldByPlace /\ RingsByPlace
  BY <1>2 DEF Init, HeldByPlace, RingsByPlace
<1>4. Flags /\ Guards /\ EngineByPlace
  BY DEF Init, Flags, Guards, EngineByPlace
<1> QED
  BY <1>1, <1>3, <1>4 DEF IInv

\* The invariant holds in every behaviour.
LEMMA Invariant == Spec => []IInv
<1>1. Init => IInv
  BY IInvInit
<1>2. IInv /\ [Next]_vars => IInv'
  BY PlaceStep, FlagsStep, HeldStep, RingsStep, GuardsStep, EngineStep DEF IInv
<1> QED
  BY <1>1, <1>2, PTL DEF Spec

\* Every variable keeps its type in every behaviour: what is left to do is the
\* rest of one of the two programs, and a ring is the outcome of ring_alloc()
\* or ring_free() (bcm4313_attach(), bcm4313_detach()).
THEOREM AttachTypes == Spec => []TypeOK
<1>1. IInv => TypeOK
  <2> SUFFICES ASSUME IInv PROVE TypeOK
    OBVIOUS
  <2>1. phase \in {"attach", "up", "detach", "gone"}
    BY DEF IInv, Place
  <2>2. IsSuffix(todo, IF phase = "attach" THEN AttachOrder ELSE DetachOrder)
    <3>1. CASE phase = "attach"
      <4>1. PICK n \in 1 .. 15 : todo = SubSeq(AttachOrder, n, 14)
        BY <3>1 DEF IInv, Place
      <4>2. IsSuffix(todo, AttachOrder)
        <5>1. n \in 1 .. Len(AttachOrder) + 1 /\ todo = SubSeq(AttachOrder, n, Len(AttachOrder))
          BY <4>1, Orders
        <5> QED
          BY <5>1, Orders, RestIsSuffix
      <4> QED
        BY <3>1, <4>2
    <3>2. CASE phase # "attach"
      <4>1. PICK n \in 1 .. 16 : todo = SubSeq(DetachOrder, n, 15)
        <5>1. CASE phase = "detach"
          BY <5>1 DEF IInv, Place
        <5>2. CASE phase # "detach"
          <6>1. todo = <<>>
            BY <2>1, <3>2, <5>2 DEF IInv, Place
          <6>2. SubSeq(DetachOrder, 16, 15) = <<>>
            BY DetachRest
          <6> QED
            BY <6>1, <6>2
        <5> QED
          BY <5>1, <5>2
      <4>2. IsSuffix(todo, DetachOrder)
        <5>1. n \in 1 .. Len(DetachOrder) + 1 /\ todo = SubSeq(DetachOrder, n, Len(DetachOrder))
          BY <4>1, Orders
        <5> QED
          BY <5>1, Orders, RestIsSuffix
      <4> QED
        BY <3>2, <4>2
    <3> QED
      BY <3>1, <3>2
  <2>3. held \subseteq Resources
    BY DEF IInv, HeldByPlace
  <2>4. ASSUME NEW r \in Rings PROVE \E n \in 0 .. Len(Parts(r)) : ring[r] = FirstParts(r, n)
    <3>1. 0 \in 0 .. Len(Parts(r)) /\ Len(Parts(r)) \in 0 .. Len(Parts(r))
      BY WholeRing
    <3> QED
      BY <3>1, WholeRing DEF IInv, RingsByPlace, RingReady
  <2>5. /\ {attached, locked, running, live, ints, armed, orphaned} \subseteq BOOLEAN
        /\ {task, input, up, ptask} \subseteq BOOLEAN
    BY DEF IInv, Flags
  <2> QED
    BY <2>1, <2>2, <2>3, <2>4, <2>5 DEF TypeOK
<1> QED
  BY <1>1, Invariant, PTL

\* Whatever step of bcm4313_attach() failed and whoever ran beside it, when
\* bcm4313_detach() returns nothing is held, allocated, scheduled or queued.
THEOREM NothingIsLeft == Spec => []EverythingReleased
<1>1. IInv => EverythingReleased
  <2> SUFFICES ASSUME IInv, phase = "gone" PROVE EverythingReleased
    BY DEF EverythingReleased
  <2>1. held = {} /\ \A r \in Rings : ring[r] = {}
    BY DEF IInv, HeldByPlace, RingsByPlace
  <2>2. ~Equipped
    BY <2>1 DEF Equipped
  <2> QED
    BY <2>1, <2>2 DEF IInv, Guards, EverythingReleased
<1> QED
  BY <1>1, Invariant, PTL

\* The watchdog, intrtask, the filter, the parent task and the holder of sc_mtx
\* find the registers, the lock, the taskqueue and the rings that they use, at
\* every step of attach and of detach: the order in which bcm4313_detach()
\* takes them away is right.
THEOREM ActorsAreEquipped == Spec => []ActorsFindWhatTheyUse
<1>1. IInv => ActorsFindWhatTheyUse
  BY DEF IInv, Guards, Equipped, ActorsFindWhatTheyUse
<1> QED
  BY <1>1, Invariant, PTL

\* A DMA engine that is on has its descriptors and its buffers, unless a fatal
\* stop came in between detach's stop_locked() and the end of the parent task.
THEOREM EngineMemoryStays == Spec => []EngineHasMemory
<1>1. IInv => EngineHasMemory
  BY DEF IInv, Guards, EngineByPlace, Equipped, EngineHasMemory
<1> QED
  BY <1>1, Invariant, PTL

=============================================================================

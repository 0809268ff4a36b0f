------------------------- MODULE Bcm4313Cal_proofs -------------------------
(***************************************************************************)
(* Theorems about Bcm4313Cal, for every interval, limit and set of         *)
(* temperatures.                                                           *)
(***************************************************************************)
EXTENDS Bcm4313Cal, SequenceTheorems, TLAPS

(***************************************************************************)
(* None of the invariants is inductive: they rest on where in its program  *)
(* the thread that holds the lock is.  The two programs, and for each      *)
(* place in the bring-up the number of brackets that are open.             *)
(***************************************************************************)

Bring ==
  IF tempPwr
  THEN <<"open", "open", "close", "close", "lastcal", "open", "deaf", "deaf", "hear", "deaf",
         "hear", "hear", "close", "start">>
  ELSE <<"open", "open", "close", "close", "lastcal", "open", "deaf", "deaf", "hear", "deaf",
         "hear", "open", "close", "hear", "close", "start">>

Depth ==
  IF tempPwr THEN <<0, 1, 2, 1, 0, 0, 1, 1, 1, 1, 1, 1, 1, 0>>
  ELSE <<0, 1, 2, 1, 0, 0, 1, 1, 1, 1, 1, 1, 2, 1, 1, 0>>

Recal == <<"open", "deaf", "lastcal", "deaf", "hear", "hear", "close", "sampled">>

From(prog, k) == SubSeq(prog, k, Len(prog))

\* Brackets that found the MAC suspended.
Nested(d) == [i \in 1 .. d |-> TRUE]

-----------------------------------------------------------------------------
(* The inductive invariant.                                                *)

TypedFlags ==
  /\ tempPwr \in BOOLEAN /\ running \in BOOLEAN /\ scan \in BOOLEAN /\ nscan \in BOOLEAN
  /\ deaf \in BOOLEAN /\ wanted \in BOOLEAN /\ deferred \in BOOLEAN
  /\ mctl \subseteq {"EN_MAC", "PROMISC", "BCNS_PROMISC"}
  /\ calTemp \in Temps /\ temp \in Temps

TypedTimers == age \in 0 .. AgeMax /\ counter \in 0 .. CountLimit + 1

\* When nothing has put it off, the counter tells the age of the calibration.
OnTime ==
  tempPwr /\ ~deferred =>
    IF counter = 0 THEN age < CalInterval ELSE age = CalInterval + counter - 1

Idle ==
  /\ todo = <<>> /\ saved = <<>> /\ ~deaf
  /\ Enabled <=> wanted
  /\ OnTime

\* Place k of the bring-up.
BringingAt(k) ==
  /\ todo = From(Bring, k) /\ saved = Nested(Depth[k])
  /\ ~running /\ ~Enabled /\ ~wanted
  /\ counter = 0
  /\ k > 5 => age = 0 /\ ~deferred
  /\ k >= Len(Bring) - 1 => ~deaf

\* Place k of a recalibration.
RecalibratingAt(k) ==
  /\ todo = From(Recal, k)
  /\ saved = IF k \in 2 .. 7 THEN <<~wanted>> ELSE <<>>
  /\ running /\ tempPwr /\ ~scan
  /\ IF k \in 2 .. 7 THEN ~Enabled ELSE Enabled <=> wanted
  /\ deaf => k \in 3 .. 6
  /\ k > 3 => age = 0 /\ ~deferred

Bringing == \E k \in 1 .. Len(Bring) : BringingAt(k)
Recalibrating == \E k \in 1 .. Len(Recal) : RecalibratingAt(k)

Where == Idle \/ Bringing \/ Recalibrating

\* FLAG_SCAN is not longer set than net80211 scans, and on a running interface it
\* is as long as the bit that the scan has set.
ScanKnown ==
  /\ scan => nscan
  /\ running /\ "BCNS_PROMISC" \in mctl => scan

IInv == TypedFlags /\ TypedTimers /\ ScanKnown /\ Where

-----------------------------------------------------------------------------
(* Sequences.                                                              *)

\* One operation of a program leaves the rest of it.
LEMMA OneOperation ==
  ASSUME NEW prog \in Seq(Ops), NEW k \in 1 .. Len(prog)
  PROVE  /\ From(prog, k) # <<>>
         /\ Head(From(prog, k)) = prog[k]
         /\ Tail(From(prog, k)) = From(prog, k + 1)
         /\ k = Len(prog) => Tail(From(prog, k)) = <<>>
         /\ From(prog, k) \in Seq(Ops)
         /\ From(prog, 1) = prog
<1>1. From(prog, 1) = prog
  BY SubSeqFull DEF From
<1>3. From(prog, k) \in Seq(Ops) /\ Len(From(prog, k)) = Len(prog) - k + 1
  BY DEF From
<1>6. From(prog, k)[1] = prog[k]
  BY DEF From
<1>2. From(prog, k) # <<>> /\ Head(From(prog, k)) = prog[k]
  BY <1>3, <1>6
<1>4. Tail(From(prog, k)) = From(prog, k + 1)
  BY DEF From
<1>5. k = Len(prog) => Tail(From(prog, k)) = <<>>
  BY DEF From
<1> QED
  BY <1>1, <1>2, <1>3, <1>4, <1>5

LEMMA NestedMore ==
  ASSUME NEW d \in Nat
  PROVE  /\ Nested(d) \in Seq(BOOLEAN)
         /\ <<TRUE>> \o Nested(d) = Nested(d + 1)
         /\ Tail(Nested(d + 1)) = Nested(d)
         /\ Head(Nested(d + 1)) = TRUE
<1>1. Nested(d) \in Seq(BOOLEAN) /\ Nested(d + 1) \in Seq(BOOLEAN)
  BY DEF Nested
<1>2. Len(Nested(d)) = d /\ Len(Nested(d + 1)) = d + 1
  BY DEF Nested
<1>6. /\ \A i \in 1 .. d : Nested(d)[i] = TRUE
      /\ \A i \in 1 .. d + 1 : Nested(d + 1)[i] = TRUE
  BY Zenon DEF Nested
<1>3. <<TRUE>> \o Nested(d) = Nested(d + 1)
  <2>1. <<TRUE>> \in Seq(BOOLEAN)
    OBVIOUS
  <2>2. <<TRUE>> \o Nested(d) \in Seq(BOOLEAN)
    BY <1>1, <2>1
  <2>3. Len(<<TRUE>> \o Nested(d)) = d + 1
    BY <1>1, <1>2
  <2>4. ASSUME NEW i \in 1 .. d + 1 PROVE (<<TRUE>> \o Nested(d))[i] = TRUE
    <3>1. CASE i = 1
      BY <1>1, <1>2, <2>1, <3>1
    <3>2. CASE i # 1
      <4>1. (<<TRUE>> \o Nested(d))[i] = Nested(d)[i - 1] /\ i - 1 \in 1 .. d
        BY <1>1, <1>2, <2>1, <3>2
      <4> QED
        BY <4>1, <1>6
    <3> QED
      BY <3>1, <3>2
  <2> QED
    BY <1>1, <1>2, <1>6, <2>2, <2>3, <2>4, SeqEqual
<1>4. Tail(Nested(d + 1)) = Nested(d)
  <2>1. Tail(Nested(d + 1)) \in Seq(BOOLEAN) /\ Len(Tail(Nested(d + 1))) = d
    BY <1>1, <1>2
  <2>2. ASSUME NEW i \in 1 .. d PROVE Tail(Nested(d + 1))[i] = TRUE
    <3>1. Tail(Nested(d + 1))[i] = Nested(d + 1)[i + 1] /\ i + 1 \in 1 .. d + 1
      BY <1>1, <1>2
    <3> QED
      BY <3>1, <1>6
  <2> QED
    BY <1>1, <1>2, <1>6, <2>1, <2>2, SeqEqual
<1>5. Head(Nested(d + 1)) = TRUE
  <2>1. Head(Nested(d + 1)) = Nested(d + 1)[1] /\ 1 \in 1 .. d + 1
    BY <1>1, <1>2
  <2> QED
    BY <2>1, <1>6
<1> QED
  BY <1>1, <1>3, <1>4, <1>5

-----------------------------------------------------------------------------
(* The programs.                                                           *)

LEMMA BringIsProgram == ASSUME tempPwr \in BOOLEAN PROVE PhyInit \o <<"start">> = Bring
<1>1. CASE tempPwr
  <2>1. PhyInit \o <<"start">> \in Seq(Ops) /\ Bring \in Seq(Ops)
    BY <1>1 DEF PhyInit, Measure, Tone, Ops, Bring
  <2>2. Len(PhyInit \o <<"start">>) = Len(Bring)
    BY <1>1 DEF PhyInit, Measure, Tone, Bring
  <2>3. \A i \in 1 .. Len(PhyInit \o <<"start">>) : (PhyInit \o <<"start">>)[i] = Bring[i]
    BY <1>1 DEF PhyInit, Measure, Tone, Bring
  <2> QED
    BY <2>1, <2>2, <2>3, SeqEqual, Zenon
<1>2. CASE ~tempPwr
  <2>1. PhyInit \o <<"start">> \in Seq(Ops) /\ Bring \in Seq(Ops)
    BY <1>2 DEF PhyInit, Measure, Tone, Ops, Bring
  <2>2. Len(PhyInit \o <<"start">>) = Len(Bring)
    BY <1>2 DEF PhyInit, Measure, Tone, Bring
  <2>3. \A i \in 1 .. Len(PhyInit \o <<"start">>) : (PhyInit \o <<"start">>)[i] = Bring[i]
    BY <1>2 DEF PhyInit, Measure, Tone, Bring
  <2> QED
    BY <2>1, <2>2, <2>3, SeqEqual, Zenon
<1> QED
  BY <1>1, <1>2

LEMMA RecalIsProgram == Glacial = Recal
<1>1. Glacial \in Seq(Ops) /\ Recal \in Seq(Ops)
  BY DEF Glacial, Tone, Ops, Recal
<1>2. Len(Glacial) = Len(Recal)
  BY DEF Glacial, Tone, Recal
<1>3. \A i \in 1 .. Len(Glacial) : Glacial[i] = Recal[i]
  BY DEF Glacial, Tone, Recal
<1> QED
  BY <1>1, <1>2, <1>3, SeqEqual, Zenon

\* The table of depths is the one of the program, which ends with "start".
LEMMA BringTable ==
  ASSUME tempPwr \in BOOLEAN
  PROVE  /\ Bring \in Seq(Ops) /\ Len(Bring) \in Nat /\ Len(Bring) > 6
         /\ Depth[1] = 0 /\ Depth[Len(Bring)] = 0
         /\ \A k \in 1 .. Len(Bring) : Depth[k] \in Nat /\ (Bring[k] = "start" <=> k = Len(Bring))
         /\ \A k \in 1 .. Len(Bring) - 1 :
              Depth[k + 1] = CASE Bring[k] = "open" -> Depth[k] + 1
                               [] Bring[k] = "close" -> Depth[k] - 1
                               [] OTHER -> Depth[k]
         /\ \A k \in 1 .. Len(Bring) : Bring[k] = "close" => Depth[k] > 0
         /\ \A k \in 1 .. Len(Bring) : Bring[k] # "sampled" /\ (Bring[k] = "lastcal" <=> k = 5)
         /\ Bring[Len(Bring) - 2] = "hear" /\ Bring[Len(Bring) - 1] = "close"
<1>1. CASE tempPwr
  BY <1>1 DEF Bring, Depth, Ops
<1>2. CASE ~tempPwr
  BY <1>2 DEF Bring, Depth, Ops
<1> QED
  BY <1>1, <1>2

LEMMA RecalTable == Recal \in Seq(Ops) /\ Len(Recal) = 8
  BY DEF Recal, Ops

-----------------------------------------------------------------------------
(* One operation of the bring-up, and of a recalibration.                  *)

LEMMA NoBracket == Nested(0) = <<>> /\ Nested(0) \in Seq(BOOLEAN)
<1>1. Nested(0) \in Seq(BOOLEAN) /\ Len(Nested(0)) = 0
  BY DEF Nested
<1> QED
  BY <1>1

\* What Step leaves of the flags and timers, wherever it is.
LEMMA StepTyped ==
  ASSUME TypedFlags, TypedTimers, ScanKnown, Step
  PROVE  TypedFlags' /\ TypedTimers' /\ ScanKnown'
<1>1. tempPwr' \in BOOLEAN /\ scan' \in BOOLEAN /\ nscan' \in BOOLEAN
  BY DEF TypedFlags, Step
<1> DEFINE op == Head(todo)
<1>7. mctl' = mctl \/ mctl' = mctl \ {"EN_MAC"} \/ mctl' = {"EN_MAC"}
  <2>1. CASE op = "open"
    BY <2>1 DEF Step, Open, MacDisable
  <2>2. CASE op = "close"
    BY <2>2 DEF Step, Close, MacEnable
  <2>3. CASE op = "start"
    BY <2>3 DEF Step, MacEnable
  <2>4. CASE op # "open" /\ op # "close" /\ op # "start"
    BY <2>4 DEF Step
  <2> QED
    BY <2>1, <2>2, <2>3, <2>4
<1>2. mctl' \subseteq {"EN_MAC", "PROMISC", "BCNS_PROMISC"}
  BY <1>7 DEF TypedFlags
<1>3. age' \in 0 .. AgeMax /\ counter' \in 0 .. CountLimit + 1
  BY IntervalAssumption DEF TypedTimers, Step
<1>4. calTemp' \in Temps /\ temp' \in Temps
  BY DEF TypedFlags, Step
<1>5. running' \in BOOLEAN /\ wanted' \in BOOLEAN /\ deferred' \in BOOLEAN /\ deaf' \in BOOLEAN
  BY Zenon DEF TypedFlags, Step
<1>6. ScanKnown'
  <2>1. CASE op = "start"
    BY <2>1 DEF ScanKnown, Step, MacEnable
  <2>2. CASE op # "start"
    <3>1. running' = running
      BY <2>2, Zenon DEF TypedFlags, Step
    <3>2. "BCNS_PROMISC" \in mctl' => "BCNS_PROMISC" \in mctl
      <4>1. mctl' = mctl \/ mctl' = mctl \ {"EN_MAC"} \/ mctl' = {"EN_MAC"}
        BY <1>7
      <4> QED
        BY <4>1
    <3> QED
      BY <3>1, <3>2 DEF ScanKnown, Step
  <2> QED
    BY <2>1, <2>2
<1> QED
  BY <1>1, <1>2, <1>3, <1>4, <1>5, <1>6 DEF TypedFlags, TypedTimers

LEMMA StepOfBringing ==
  ASSUME TypedFlags, NEW k \in 1 .. Len(Bring), BringingAt(k), Step
  PROVE  Where'
<1> DEFINE op == Head(todo)
<1>t. tempPwr \in BOOLEAN /\ deaf \in BOOLEAN /\ deferred \in BOOLEAN
  BY DEF TypedFlags
<1>0. Bring' = Bring /\ Depth' = Depth
  BY DEF Bring, Depth, Step
<1>1. op = Bring[k] /\ todo' = From(Bring, k + 1) /\ (k = Len(Bring) => todo' = <<>>)
  BY <1>t, BringTable, OneOperation DEF BringingAt, Step
<1>2. Depth[k] \in Nat /\ saved = Nested(Depth[k]) /\ saved \in Seq(BOOLEAN)
  BY <1>t, BringTable, NestedMore DEF BringingAt
<1>3. CASE k = Len(Bring)
  <2>1. op = "start"
    BY <1>1, <1>3, <1>t, BringTable
  <2>2. todo' = <<>> /\ mctl' = {"EN_MAC"} /\ wanted' = TRUE /\ saved' = saved
    BY <1>1, <1>3, <2>1 DEF Step, MacEnable
  <2>3. saved' = <<>>
    BY <2>2, <1>2, <1>3, <1>t, BringTable, NoBracket
  <2>4. ~deaf'
    BY <2>1, <1>3, <1>t, BringTable DEF BringingAt, Step
  <2>5. age' = 0 /\ counter' = 0
    BY <2>1, <1>3, <1>t, BringTable DEF BringingAt, Step
  <2>6. OnTime'
    BY <2>5, IntervalAssumption DEF OnTime
  <2> QED
    BY <2>2, <2>3, <2>4, <2>6 DEF Where, Idle, Enabled
<1>4. CASE k # Len(Bring)
  <2> DEFINE d == Depth[k]
  <2>1. /\ k + 1 \in 1 .. Len(Bring) /\ op # "start" /\ op # "sampled"
        /\ op = "close" => d \in Nat /\ d > 0
        /\ Depth[k + 1] = CASE op = "open" -> d + 1 [] op = "close" -> d - 1 [] OTHER -> d
    <3>1. k \in 1 .. Len(Bring) - 1
      BY <1>4, <1>t, BringTable
    <3> QED
      BY <3>1, <1>1, <1>2, <1>4, <1>t, BringTable
  <2>2. ~Enabled /\ ~wanted /\ ~running
    BY DEF BringingAt
  <2>3. saved' = Nested(Depth[k + 1]) /\ ~Enabled'
    <3>1. CASE op = "open"
      <4>1. saved' = <<~Enabled>> \o saved /\ mctl' = mctl \ {"EN_MAC"}
        BY <3>1 DEF Step, Open, MacDisable
      <4>2. <<~Enabled>> = <<TRUE>>
        BY <2>2
      <4>3. saved' = Nested(d + 1)
        BY <4>1, <4>2, <1>2, NestedMore
      <4> QED
        BY <4>1, <4>3, <3>1, <2>1 DEF Enabled
    <3>2. CASE op = "close"
      <4>1. saved' = Tail(saved) /\ (Head(saved) = TRUE => mctl' = mctl)
        BY <3>2 DEF Step, Close
      <4>2. d - 1 \in Nat /\ d = (d - 1) + 1
        BY <2>1, <3>2
      <4>3. saved = Nested((d - 1) + 1)
        BY <4>2, <1>2
      <4>4. Head(saved) = TRUE /\ Tail(saved) = Nested(d - 1)
        BY <4>2, <4>3, NestedMore
      <4> QED
        BY <4>1, <4>4, <3>2, <2>1, <2>2 DEF Enabled
    <3>3. CASE op # "open" /\ op # "close"
      <4>1. saved' = saved /\ mctl' = mctl
        BY <3>3, <2>1 DEF Step
      <4> QED
        BY <4>1, <3>3, <2>1, <2>2, <1>2 DEF Enabled
    <3> QED
      BY <3>1, <3>2, <3>3
  <2>4. ~running' /\ ~wanted' /\ counter' = 0
    BY <2>1, <2>2 DEF BringingAt, Step
  <2>5. k + 1 > 5 => age' = 0 /\ ~deferred'
    <3>1. k + 1 > 5 => op = "lastcal" \/ (age = 0 /\ ~deferred)
      BY <1>1, <1>t, BringTable DEF BringingAt
    <3>2. op = "lastcal" \/ age = 0 => age' = 0
      BY DEF Step
    <3>3. op = "lastcal" \/ ~deferred => ~deferred'
      BY Zenon DEF Step
    <3> QED
      BY <3>1, <3>2, <3>3
  <2>6. k + 1 >= Len(Bring) - 1 => ~deaf'
    <3>1. ASSUME k + 1 >= Len(Bring) - 1
          PROVE  op = "hear" \/ (op = "close" /\ ~deaf)
      BY <3>1, <1>1, <1>4, <1>t, BringTable DEF BringingAt
    <3>2. op = "hear" => ~deaf'
      BY DEF Step
    <3>3. op = "close" /\ ~deaf => ~deaf'
      BY DEF Step
    <3> QED
      BY <3>1, <3>2, <3>3
  <2>7. BringingAt(k + 1)'
    BY <1>0, <1>1, <2>3, <2>4, <2>5, <2>6 DEF BringingAt
  <2>8. k + 1 \in 1 .. Len(Bring')
    BY <1>0, <2>1
  <2> QED
    BY <2>7, <2>8 DEF Where, Bringing
<1> QED
  BY <1>3, <1>4

LEMMA StepOfRecalibrating ==
  ASSUME TypedFlags, NEW k \in 1 .. Len(Recal), RecalibratingAt(k), Step
  PROVE  Where'
<1> DEFINE op == Head(todo)
<1>t. wanted \in BOOLEAN /\ deaf \in BOOLEAN /\ deferred \in BOOLEAN
  BY DEF TypedFlags
<1>0. k \in 1 .. 8 /\ Recal \in Seq(Ops) /\ Len(Recal) = 8
  BY RecalTable
<1>1. op = Recal[k] /\ todo' = From(Recal, k + 1) /\ (k = 8 => todo' = <<>>)
  <2>1. todo = From(Recal, k) /\ todo' = Tail(todo)
    BY DEF RecalibratingAt, Step
  <2>2. /\ Head(From(Recal, k)) = Recal[k]
        /\ Tail(From(Recal, k)) = From(Recal, k + 1)
        /\ k = Len(Recal) => Tail(From(Recal, k)) = <<>>
    BY <1>0, OneOperation
  <2> QED
    BY <2>1, <2>2, <1>0
<1>2. running /\ tempPwr /\ ~scan /\ UNCHANGED <<tempPwr, scan>>
  BY DEF RecalibratingAt, Step
<1>3. op # "start" /\ UNCHANGED wanted /\ running'
  <2>1. op # "start"
    BY <1>0, <1>1 DEF Recal
  <2> QED
    BY <2>1, <1>2, <1>t, Zenon DEF Step
<1>4. /\ k = 1 <=> op = "open"
      /\ k = 7 <=> op = "close"
      /\ k = 3 <=> op = "lastcal"
      /\ k = 8 <=> op = "sampled"
      /\ k = 5 \/ k = 6 <=> op = "hear"
      /\ k = 2 \/ k = 4 <=> op = "deaf"
  BY <1>0, <1>1 DEF Recal
<1>5. IF k + 1 \in 2 .. 7 THEN ~Enabled' ELSE (Enabled' <=> wanted')
  <2>1. CASE k = 1
    BY <2>1, <1>4 DEF Step, Open, MacDisable, Enabled
  <2>2. CASE k = 7
    <3>1. saved = <<~wanted>> /\ ~Enabled
      BY <2>2 DEF RecalibratingAt
    <3>2. mctl' = IF Head(saved) THEN mctl ELSE {"EN_MAC"}
      BY <2>2, <1>4 DEF Step, Close, MacEnable
    <3>3. Head(saved) = ~wanted
      BY <3>1
    <3>4. mctl' = IF wanted THEN {"EN_MAC"} ELSE mctl
      BY <3>2, <3>3, <1>t, Zenon
    <3> QED
      BY <3>1, <3>4, <2>2, <1>3 DEF Enabled
  <2>3. CASE k # 1 /\ k # 7
    <3>1. mctl' = mctl
      BY <2>3, <1>3, <1>4 DEF Step
    <3> QED
      BY <3>1, <2>3, <1>0, <1>3 DEF RecalibratingAt, Enabled
  <2> QED
    BY <2>1, <2>2, <2>3
<1>6. saved' = IF k + 1 \in 2 .. 7 THEN <<~wanted'>> ELSE <<>>
  <2>1. CASE k = 1
    <3>1. saved = <<>> /\ (Enabled <=> wanted)
      BY <2>1 DEF RecalibratingAt
    <3>2. saved' = <<~Enabled>> \o saved
      BY <2>1, <1>4 DEF Step
    <3>3. (~Enabled) = (~wanted')
      BY <3>1, <1>3, <1>t DEF Enabled
    <3>4. saved' = <<~wanted'>> \o <<>>
      BY <3>1, <3>2, <3>3, Zenon
    <3>5. <<~wanted'>> \o <<>> = <<~wanted'>>
      OBVIOUS
    <3> QED
      BY <3>4, <3>5, <2>1
  <2>2. CASE k = 7
    <3>1. saved = <<~wanted>> /\ saved' = Tail(saved)
      BY <2>2, <1>4 DEF RecalibratingAt, Step
    <3> QED
      BY <3>1, <2>2
  <2>3. CASE k # 1 /\ k # 7
    <3>1. saved' = saved
      BY <2>3, <1>4 DEF Step
    <3> QED
      BY <3>1, <2>3, <1>0, <1>3 DEF RecalibratingAt
  <2> QED
    BY <2>1, <2>2, <2>3
<1>7. deaf' => k + 1 \in 3 .. 6
  <2>1. op = "hear" => ~deaf'
    BY DEF Step
  <2>2. op # "hear" /\ op # "deaf" => deaf' = deaf
    BY DEF Step
  <2>3. deaf => k >= 3 /\ k <= 6
    BY DEF RecalibratingAt
  <2>4. CASE k = 2 \/ k = 3 \/ k = 4
    BY <2>4
  <2>5. CASE k = 5 \/ k = 6
    BY <2>1, <2>5, <1>4
  <2>6. CASE k = 1 \/ k = 7 \/ k = 8
    <3>1. op # "hear" /\ op # "deaf"
      BY <2>6, <1>4
    <3>2. ~deaf
      BY <2>3, <2>6
    <3> QED
      BY <3>1, <3>2, <2>2
  <2> QED
    BY <2>4, <2>5, <2>6, <1>0
<1>8. k >= 3 => age' = 0 /\ ~deferred'
  <2>1. k >= 3 => op = "lastcal" \/ (age = 0 /\ ~deferred)
    BY <1>0, <1>4 DEF RecalibratingAt
  <2>2. op = "lastcal" \/ age = 0 => age' = 0
    BY DEF Step
  <2>3. op = "lastcal" \/ ~deferred => ~deferred'
    BY Zenon DEF Step
  <2> QED
    BY <2>1, <2>2, <2>3
<1>9. CASE k = 8
  <2>1. todo' = <<>> /\ saved' = <<>> /\ ~deaf' /\ (Enabled' <=> wanted')
    BY <1>9, <1>1, <1>5, <1>6, <1>7
  <2>2. counter' = 0 /\ age' = 0
    BY <1>9, <1>4, <1>8 DEF Step
  <2>3. OnTime'
    BY <2>2, IntervalAssumption DEF OnTime
  <2> QED
    BY <2>1, <2>3 DEF Where, Idle, Enabled
<1>10. CASE k # 8
  <2>1. k + 1 \in 1 .. Len(Recal')
    BY <1>10, <1>0 DEF Recal
  <2>2. todo' = From(Recal', k + 1)
    BY <1>1 DEF Recal
  <2>3. RecalibratingAt(k + 1)'
    BY <2>2, <1>0, <1>2, <1>3, <1>5, <1>6, <1>7, <1>8 DEF RecalibratingAt, From
  <2> QED
    BY <2>1, <2>3 DEF Where, Recalibrating
<1> QED
  BY <1>9, <1>10

-----------------------------------------------------------------------------
(* The other actions.                                                      *)

\* The lock is free between programs only.
LEMMA FreeIsIdle ==
  ASSUME TypedFlags, Where, LockFree
  PROVE  Idle
<1>t. tempPwr \in BOOLEAN
  BY DEF TypedFlags
<1>1. ASSUME NEW k \in 1 .. Len(Bring), BringingAt(k) PROVE FALSE
  BY <1>1, <1>t, BringTable, OneOperation DEF BringingAt, LockFree
<1>2. ASSUME NEW k \in 1 .. Len(Recal), RecalibratingAt(k) PROVE FALSE
  <2>1. From(Recal, k) # <<>>
    BY RecalTable, OneOperation
  <2> QED
    BY <2>1, <1>2 DEF RecalibratingAt, LockFree
<1> QED
  BY <1>1, <1>2 DEF Where, Bringing, Recalibrating

LEMMA UpBrings ==
  ASSUME TypedFlags, Idle, Up
  PROVE  Where'
<1>t. tempPwr \in BOOLEAN /\ tempPwr' = tempPwr
  BY DEF TypedFlags, Up
<1>0. Bring' = Bring /\ Depth' = Depth
  BY <1>t DEF Bring, Depth
<1>1. Bring \in Seq(Ops) /\ Len(Bring) \in Nat /\ Len(Bring) > 6 /\ Depth[1] = 0
  BY <1>t, BringTable
<1>2. 1 \in 1 .. Len(Bring)
  BY <1>1
<1>3. todo' = From(Bring, 1)
  BY <1>t, <1>1, <1>2, BringIsProgram, OneOperation DEF Up
<1>4. saved' = Nested(Depth[1])
  BY <1>1, NoBracket DEF Idle, Up
<1>5. ~running' /\ ~Enabled' /\ ~wanted' /\ counter' = 0 /\ ~deaf'
  BY DEF Idle, Up, Enabled
<1>6. BringingAt(1)'
  BY <1>0, <1>1, <1>3, <1>4, <1>5 DEF BringingAt
<1> QED
  BY <1>0, <1>2, <1>6 DEF Where, Bringing

LEMMA GlacialRecalibrates ==
  ASSUME TypedFlags, ScanKnown, Idle, TickGlacial
  PROVE  Where'
<1>1. todo' = From(Recal, 1)
  <2>1. From(Recal, 1) = Recal
    <3>1. Recal \in Seq(Ops) /\ 1 \in 1 .. Len(Recal)
      BY RecalTable
    <3> QED
      BY <3>1, OneOperation
  <2>2. todo' = Recal
    BY RecalIsProgram DEF TickGlacial
  <2> QED
    BY <2>1, <2>2
<1>2. /\ running' /\ tempPwr' /\ ~scan' /\ ~deaf' /\ saved' = <<>>
      /\ Enabled' <=> wanted'
  BY DEF Idle, TickGlacial, Tick, Due, Enabled
<1>3. RecalibratingAt(1)'
  BY <1>1, <1>2 DEF RecalibratingAt, Recal, From
<1>4. 1 \in 1 .. Len(Recal')
  BY RecalTable DEF Recal
<1> QED
  BY <1>3, <1>4 DEF Where, Recalibrating

LEMMA TickKeepsTime ==
  ASSUME TypedFlags, TypedTimers, ScanKnown, Idle, TickDeferred \/ TickSample
  PROVE  Idle' /\ TypedTimers'
<1>t. age \in 0 .. AgeMax /\ counter \in 0 .. CountLimit + 1
  BY DEF TypedTimers
<1>1. UNCHANGED <<todo, saved, deaf, mctl, wanted, tempPwr>>
  BY DEF TickDeferred, TickSample, Tick, code, LockFree
<1>2. todo' = <<>> /\ saved' = <<>> /\ ~deaf' /\ (Enabled' <=> wanted')
  BY <1>1 DEF Idle, Enabled
<1>3. age' = (IF age < AgeMax THEN age + 1 ELSE age)
  BY DEF TickDeferred, TickSample, Tick, Older
<1>4. age' \in 0 .. AgeMax
  BY <1>t, <1>3, IntervalAssumption
<1>5. CASE TickDeferred
  <2>1. counter' = counter
    BY <1>5 DEF TickDeferred
  <2>2. ASSUME tempPwr, ~deferred' PROVE ~deferred /\ ~scan /\ age + 1 < CalInterval
    <3>1. ~deferred /\ ~scan
      BY <2>2, <1>5, Zenon DEF TickDeferred
    <3> QED
      BY <2>2, <3>1, <1>5, <1>t, IntervalAssumption DEF TickDeferred, Due
  <2>3. ASSUME tempPwr, ~deferred' PROVE counter = 0 /\ age' < CalInterval
    <3>1. IF counter = 0 THEN age < CalInterval ELSE age = CalInterval + counter - 1
      BY <2>2, <2>3 DEF Idle, OnTime
    <3> QED
      BY <2>2, <2>3, <3>1, <1>3, <1>t, IntervalAssumption, AgeMaxAssumption
  <2>4. OnTime'
    BY <2>1, <2>3, <1>1 DEF OnTime
  <2> QED
    BY <2>1, <2>4, <1>2, <1>4, <1>t DEF Idle, TypedTimers, Enabled
<1>6. CASE TickSample
  <2>1. counter' = counter + 1 /\ deferred' = deferred /\ counter <= CountLimit
    BY <1>6, <1>t, IntervalAssumption DEF TickSample, Tired
  <2>2. ASSUME tempPwr, ~deferred PROVE age' = CalInterval + counter
    <3>1. IF counter = 0 THEN age < CalInterval ELSE age = CalInterval + counter - 1
      BY <2>2 DEF Idle, OnTime
    <3>2. age + 1 >= CalInterval
      BY <1>6 DEF TickSample, Due
    <3> QED
      BY <2>1, <3>1, <3>2, <1>3, <1>t, IntervalAssumption, AgeMaxAssumption
  <2>3. OnTime'
    <3>1. counter' # 0 /\ CalInterval + counter' - 1 = CalInterval + counter
      BY <2>1, <1>t, IntervalAssumption
    <3> QED
      BY <2>1, <2>2, <3>1, <1>1 DEF OnTime
  <2>4. counter' \in 0 .. CountLimit + 1
    BY <2>1, <1>t, IntervalAssumption
  <2> QED
    BY <2>3, <2>4, <1>2, <1>4 DEF Idle, TypedTimers, Enabled
<1> QED
  BY <1>5, <1>6

\* Callbacks, stops and the temperature, outside of a program.
LEMMA CallbacksKeepIdle ==
  ASSUME TypedFlags, Idle,
         Down \/ FatalStop \/ ScanStart \/ ScanEnd \/ SetPromisc \/ NewStateRun \/ NewStateInit
  PROVE  Idle'
<1>1. UNCHANGED <<todo, saved, deaf, tempPwr, age, deferred, counter>>
  BY DEF Down, FatalStop, ScanStart, ScanEnd, SetPromisc, NewStateRun, NewStateInit, code, timers
<1>2. Enabled' <=> wanted'
  <2>1. CASE Down \/ FatalStop \/ NewStateInit
    BY <2>1 DEF Down, FatalStop, NewStateInit, MacDisable, Enabled
  <2>2. CASE NewStateRun
    BY <2>2 DEF NewStateRun, MacEnable, Enabled
  <2>3. CASE ScanStart \/ ScanEnd \/ SetPromisc
    <3>1. wanted' = wanted /\ ("EN_MAC" \in mctl' <=> "EN_MAC" \in mctl)
      BY <2>3 DEF ScanStart, ScanEnd, SetPromisc, SetBit
    <3> QED
      BY <3>1 DEF Idle, Enabled
  <2> QED
    BY <2>1, <2>2, <2>3
<1>3. OnTime'
  BY <1>1 DEF Idle, OnTime
<1> QED
  BY <1>1, <1>2, <1>3 DEF Idle, Enabled

\* Where the program is does not depend on the temperature.
LEMMA WhereStays ==
  ASSUME Where,
         UNCHANGED <<tempPwr, running, scan, mctl, age, deferred, counter, todo, saved, deaf, wanted>>
  PROVE  Where'
<1>0. Bring' = Bring /\ Depth' = Depth /\ Recal' = Recal
  BY DEF Bring, Depth, Recal
<1>1. CASE Idle
  BY <1>1 DEF Where, Idle, OnTime, Enabled
<1>2. ASSUME NEW k \in 1 .. Len(Bring), BringingAt(k) PROVE Where'
  <2>1. BringingAt(k)'
    BY <1>0, <1>2 DEF BringingAt, Enabled
  <2> QED
    BY <1>0, <2>1 DEF Where, Bringing
<1>3. ASSUME NEW k \in 1 .. Len(Recal), RecalibratingAt(k) PROVE Where'
  <2>1. RecalibratingAt(k)'
    BY <1>0, <1>3 DEF RecalibratingAt, Enabled
  <2> QED
    BY <1>0, <2>1 DEF Where, Recalibrating
<1> QED
  BY <1>1, <1>2, <1>3 DEF Where, Bringing, Recalibrating

-----------------------------------------------------------------------------
(* The invariant.                                                          *)

LEMMA InitIInv == Init => IInv
<1> SUFFICES ASSUME Init PROVE IInv
  OBVIOUS
<1>3. TypedFlags /\ ScanKnown
  BY DEF Init, TypedFlags, ScanKnown
<1>4. 0 \in 0 .. AgeMax /\ 0 \in 0 .. CountLimit + 1
  BY IntervalAssumption
<1>1. TypedFlags /\ TypedTimers /\ ScanKnown
  BY <1>3, <1>4 DEF Init, TypedTimers
<1>2. Idle
  BY IntervalAssumption DEF Init, Idle, OnTime, Enabled
<1> QED
  BY <1>1, <1>2 DEF IInv, Where

LEMMA QuietTyped ==
  ASSUME TypedFlags, TypedTimers,
         \/ Up \/ Down \/ FatalStop \/ ScanStart \/ ScanEnd \/ SetPromisc
         \/ NewStateRun \/ NewStateInit \/ TickGlacial \/ HwTemp
  PROVE  TypedFlags' /\ TypedTimers'
<1> DEFINE Bits == {"EN_MAC", "PROMISC", "BCNS_PROMISC"}
<1>1. CASE Up
  <2>1. TypedFlags'
    BY <1>1 DEF Up, TypedFlags
  <2>2. age' = age /\ counter' = 0
    BY <1>1 DEF Up
  <2>3. 0 \in 0 .. CountLimit + 1
    BY IntervalAssumption
  <2> QED
    BY <2>1, <2>2, <2>3 DEF TypedTimers
<1>2. CASE Down \/ FatalStop \/ NewStateInit
  BY <1>2 DEF Down, FatalStop, NewStateInit, MacDisable, TypedFlags, TypedTimers, timers, code
<1>3. CASE NewStateRun
  BY <1>3 DEF NewStateRun, MacEnable, TypedFlags, TypedTimers, timers, code
<1>4. CASE ScanStart \/ ScanEnd
  <2>1. mctl' \subseteq Bits
    BY <1>4 DEF ScanStart, ScanEnd, SetBit, TypedFlags
  <2> QED
    BY <1>4, <2>1 DEF ScanStart, ScanEnd, TypedFlags, TypedTimers, timers, code
<1>5. CASE SetPromisc
  <2>1. mctl' \subseteq Bits
    BY <1>5 DEF SetPromisc, SetBit, TypedFlags
  <2> QED
    BY <1>5, <2>1 DEF SetPromisc, TypedFlags, TypedTimers, timers, code
<1>6. CASE TickGlacial
  BY <1>6, IntervalAssumption DEF TickGlacial, Tick, Older, TypedFlags, TypedTimers
<1>7. CASE HwTemp
  BY <1>7 DEF HwTemp, TypedFlags, TypedTimers, timers, code
<1> QED
  BY <1>1, <1>2, <1>3, <1>4, <1>5, <1>6, <1>7

\* A step other than an operation of a program leaves the driver's knowledge of
\* the scan and the bit in agreement.
LEMMA KnownStays ==
  ASSUME ScanKnown,
         \/ Up \/ Down \/ FatalStop \/ ScanStart \/ ScanEnd \/ SetPromisc
         \/ NewStateRun \/ NewStateInit \/ Watchdog \/ HwTemp \/ UNCHANGED vars
  PROVE  ScanKnown'
<1> USE DEF ScanKnown
<1>1. CASE Up \/ Down \/ FatalStop
  BY <1>1 DEF Up, Down, FatalStop
<1>2. CASE ScanStart \/ ScanEnd
  BY <1>2 DEF ScanStart, ScanEnd, SetBit
<1>3. CASE SetPromisc
  BY <1>3 DEF SetPromisc, SetBit
<1>4. CASE NewStateRun \/ NewStateInit
  BY <1>4 DEF NewStateRun, NewStateInit, MacEnable, MacDisable
<1>5. CASE Watchdog
  BY <1>5 DEF Watchdog, TickDeferred, TickSample, TickGlacial, Tick
<1>6. CASE HwTemp \/ UNCHANGED vars
  BY <1>6 DEF HwTemp, vars
<1> QED
  BY <1>1, <1>2, <1>3, <1>4, <1>5, <1>6

LEMMA NextIInv == IInv /\ [Next]_vars => IInv'
<1> SUFFICES ASSUME IInv, [Next]_vars PROVE IInv'
  OBVIOUS
<1>0. TypedFlags /\ TypedTimers /\ ScanKnown /\ Where
  BY DEF IInv
<1>1. CASE Step
  <2>1. TypedFlags' /\ TypedTimers' /\ ScanKnown'
    BY <1>0, <1>1, StepTyped
  <2>2. ~Idle
    BY <1>1 DEF Step, Idle
  <2>3. Where'
    BY <1>0, <1>1, <2>2, StepOfBringing, StepOfRecalibrating DEF Where, Bringing, Recalibrating
  <2> QED
    BY <2>1, <2>3 DEF IInv
<1>2. CASE Up
  <2>1. Idle
    BY <1>0, <1>2, FreeIsIdle DEF Up
  <2> QED
    BY <1>0, <1>2, <2>1, UpBrings, QuietTyped, KnownStays DEF IInv
<1>3. CASE Down \/ FatalStop \/ ScanStart \/ ScanEnd \/ SetPromisc \/ NewStateRun \/ NewStateInit
  <2>1. LockFree
    BY <1>3 DEF Down, FatalStop, ScanStart, ScanEnd, SetPromisc, NewStateRun, NewStateInit
  <2>2. Idle
    BY <1>0, <2>1, FreeIsIdle
  <2>3. Idle'
    BY <1>0, <1>3, <2>2, CallbacksKeepIdle
  <2>4. TypedFlags' /\ TypedTimers' /\ ScanKnown'
    BY <1>0, <1>3, QuietTyped, KnownStays
  <2> QED
    BY <2>3, <2>4 DEF IInv, Where
<1>4. CASE TickDeferred \/ TickSample
  <2>1. Idle
    BY <1>0, <1>4, FreeIsIdle DEF TickDeferred, TickSample, Tick
  <2>2. Idle' /\ TypedTimers'
    BY <1>0, <1>4, <2>1, TickKeepsTime
  <2>3. deferred' \in BOOLEAN
    BY <1>0, <1>4, Zenon DEF TickDeferred, TickSample, TypedFlags
  <2>4. TypedFlags'
    BY <1>0, <1>4, <2>3 DEF TickDeferred, TickSample, Tick, TypedFlags, code, LockFree
  <2>5. ScanKnown'
    BY <1>0, <1>4, KnownStays DEF Watchdog
  <2> QED
    BY <2>2, <2>4, <2>5 DEF IInv, Where
<1>5. CASE TickGlacial
  <2>1. Idle
    BY <1>0, <1>5, FreeIsIdle DEF TickGlacial, Tick
  <2> QED
    BY <1>0, <1>5, <2>1, GlacialRecalibrates, QuietTyped, KnownStays DEF IInv, Watchdog
<1>6. CASE HwTemp
  <2>1. Where'
    BY <1>0, <1>6, WhereStays DEF HwTemp, timers, code
  <2> QED
    BY <1>0, <1>6, <2>1, QuietTyped, KnownStays DEF IInv
<1>7. CASE UNCHANGED vars
  <2>1. Where'
    BY <1>0, <1>7, WhereStays DEF vars, timers, code
  <2> QED
    BY <1>0, <1>7, <2>1, KnownStays DEF IInv, TypedFlags, TypedTimers, vars, timers, code
<1> QED
  BY <1>1, <1>2, <1>3, <1>4, <1>5, <1>6, <1>7 DEF Next, Watchdog

LEMMA Inductive == Spec => []IInv
  BY InitIInv, NextIInv, PTL DEF Spec

-----------------------------------------------------------------------------
(* The theorems.                                                           *)

LEMMA Programs ==
  ASSUME IInv
  PROVE  todo \in Seq(Ops) /\ saved \in Seq(BOOLEAN)
<1>1. TypedFlags /\ Where
  BY DEF IInv
<1>t. tempPwr \in BOOLEAN
  BY <1>1 DEF TypedFlags
<1>2. CASE Idle
  BY <1>2 DEF Idle
<1>3. ASSUME NEW k \in 1 .. Len(Bring), BringingAt(k)
      PROVE  todo \in Seq(Ops) /\ saved \in Seq(BOOLEAN)
  <2>1. todo = From(Bring, k) /\ saved = Nested(Depth[k])
    BY <1>3 DEF BringingAt
  <2> QED
    BY <2>1, <1>t, BringTable, OneOperation, NestedMore
<1>4. ASSUME NEW k \in 1 .. Len(Recal), RecalibratingAt(k)
      PROVE  todo \in Seq(Ops) /\ saved \in Seq(BOOLEAN)
  <2>1. todo \in Seq(Ops)
    BY <1>4, RecalTable, OneOperation DEF RecalibratingAt
  <2>2. (~wanted) \in BOOLEAN
    BY <1>1 DEF TypedFlags
  <2>3. saved = <<~wanted>> \/ saved = <<>>
    BY <1>4 DEF RecalibratingAt
  <2>4. ASSUME NEW b \in BOOLEAN PROVE <<b>> \in Seq(BOOLEAN)
    OBVIOUS
  <2>5. <<~wanted>> \in Seq(BOOLEAN)
    BY <2>2, <2>4, Zenon
  <2>6. <<>> \in Seq(BOOLEAN)
    OBVIOUS
  <2>7. saved \in Seq(BOOLEAN)
    BY <2>3, <2>5, <2>6, Zenon
  <2> QED
    BY <2>1, <2>7, Zenon
<1> QED
  BY <1>1, <1>2, <1>3, <1>4 DEF Where, Bringing, Recalibrating

\* Type correctness: in every state each variable, the program and the open
\* brackets of the thread that holds sc_mtx included, has its type.
THEOREM TypeCorrect == Spec => []TypeOK
<1>1. IInv => TypeOK
  BY Programs DEF IInv, TypedFlags, TypedTimers, TypeOK
<1> QED
  BY <1>1, Inductive, PTL

\* While lcnphy_deaf_mode() has the receiver detuned the MAC is suspended, at
\* every operation of lcnphy_init() and glacial_timer_based_cal().
THEOREM DeafSuspended == Spec => []DeafIsSuspended
<1>1. IInv => DeafIsSuspended
  <2> SUFFICES ASSUME IInv, deaf PROVE ~Enabled
    BY DEF DeafIsSuspended
  <2> QED
    BY DEF IInv, Where, Idle, Bringing, BringingAt, Recalibrating, RecalibratingAt
<1> QED
  BY <1>1, Inductive, PTL

\* Outside of a calibration the MAC is on exactly if the last init, stop or
\* newstate() ordered it, and an init does not turn it on before its end.
THEOREM OrderedEnabled == Spec => []EnabledAsOrdered
<1>1. IInv => EnabledAsOrdered
  <2> SUFFICES ASSUME IInv PROVE EnabledAsOrdered
    OBVIOUS
  <2>1. TypedFlags /\ Where
    BY DEF IInv
  <2>2. LockFree => (Enabled <=> wanted)
    BY <2>1, FreeIsIdle DEF Idle
  <2>3. ~running /\ todo # <<>> => ~Enabled
    BY <2>1 DEF Where, Idle, Bringing, BringingAt, Recalibrating, RecalibratingAt
  <2> QED
    BY <2>2, <2>3, Zenon DEF EnabledAsOrdered, LockFree
<1> QED
  BY <1>1, Inductive, PTL

\* A running interface lets the beacons of other BSSes in only while net80211
\* scans, FLAG_SCAN is set and no calibration is in progress, whichever fatal
\* stops, re-inits and state changes came between scan_start() and scan_end().
THEOREM ForeignBeaconsInScan == Spec => []ForeignBeaconsOnlyInScan
<1>1. IInv => ForeignBeaconsOnlyInScan
  <2> SUFFICES ASSUME IInv, running, "BCNS_PROMISC" \in mctl PROVE scan /\ nscan /\ todo = <<>>
    BY DEF ForeignBeaconsOnlyInScan
  <2>1. scan /\ nscan
    BY DEF IInv, ScanKnown
  <2>2. Idle
    BY <2>1 DEF IInv, Where, Bringing, BringingAt, Recalibrating, RecalibratingAt
  <2> QED
    BY <2>1, <2>2 DEF Idle
<1> QED
  BY <1>1, Inductive, PTL

\* A recalibration that no temperature jump caused and no scan deferred comes
\* CalInterval + CountLimit + 1 ticks after the last one: the counter of
\* lcnphy_watchdog() and its clock never drift apart.
THEOREM OnTimeRecalibration == Spec => RoughlyEvery3To4Minutes
<1>1. ASSUME IInv, TickGlacial, ~Jumped, ~deferred
      PROVE  age' = CalInterval + CountLimit + 1
  <2>1. TypedFlags /\ TypedTimers /\ LockFree /\ Where
    BY <1>1 DEF IInv, TickGlacial, Tick
  <2>2. Idle
    BY <2>1, FreeIsIdle
  <2>3. tempPwr /\ counter > CountLimit /\ age' = (IF age < AgeMax THEN age + 1 ELSE age)
    BY <1>1 DEF TickGlacial, Tick, Tired, Older
  <2>4. IF counter = 0 THEN age < CalInterval ELSE age = CalInterval + counter - 1
    BY <1>1, <2>2, <2>3 DEF Idle, OnTime
  <2>5. counter = CountLimit + 1 /\ age \in 0 .. AgeMax
    BY <2>1, <2>3, IntervalAssumption DEF TypedTimers
  <2> QED
    BY <2>3, <2>4, <2>5, IntervalAssumption, AgeMaxAssumption
<1>2. IInv /\ [Next]_vars
        => [TickGlacial /\ ~Jumped /\ ~deferred => age' = CalInterval + CountLimit + 1]_vars
  BY <1>1
<1> QED
  BY <1>2, Inductive, PTL DEF Spec, RoughlyEvery3To4Minutes

\* While net80211 scans on an interface that runs, the MAC keeps passing the
\* beacons of any BSSID: no tick, calibration, promiscuous mode or S_INIT clears
\* MCTL_BCNS_PROMISC; mac_enable() on a change to S_RUN is what does.
THEOREM BeaconsKept == Spec => ScanKeepsBeacons
<1> DEFINE Lost == /\ nscan /\ nscan' /\ running /\ running'
                   /\ "BCNS_PROMISC" \in mctl /\ "BCNS_PROMISC" \notin mctl'
<1>1. ASSUME IInv, Next, Lost PROVE NewStateRun
  <2>0. Where /\ TypedFlags
    BY <1>1 DEF IInv
  <2>1. CASE Step
    <3>1. ~Idle
      BY <2>1 DEF Step, Idle
    <3>2. scan
      BY <1>1 DEF IInv, ScanKnown
    <3> QED
      BY <1>1, <2>0, <3>1, <3>2
      DEF Where, Bringing, BringingAt, Recalibrating, RecalibratingAt
  <2>2. CASE Up \/ Down \/ FatalStop \/ ScanStart \/ ScanEnd
    BY <1>1, <2>2 DEF Up, Down, FatalStop, ScanStart, ScanEnd
  <2>3. CASE SetPromisc \/ NewStateInit
    BY <1>1, <2>3 DEF SetPromisc, SetBit, NewStateInit, MacDisable
  <2>4. CASE Watchdog \/ HwTemp
    BY <1>1, <2>4 DEF Watchdog, TickDeferred, TickSample, TickGlacial, HwTemp
  <2> QED
    BY <1>1, <2>1, <2>2, <2>3, <2>4 DEF Next
<1>2. IInv /\ [Next]_vars => [Lost => NewStateRun]_vars
  BY <1>1
<1> QED
  BY <1>2, Inductive, PTL DEF Spec, ScanKeepsBeacons

=============================================================================

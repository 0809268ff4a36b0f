------------------------- MODULE Bcm4313Phy_proofs -------------------------
(***************************************************************************)
(* Theorems about Bcm4313Phy, for every set of temperatures, channels and  *)
(* register contents after a reset, and every outcome of a calibration.    *)
(* First what running a sequence of register accesses does, for every      *)
(* sequence and every content of the registers; then which registers the   *)
(* sequences of the routines access, what each routine leaves, and the     *)
(* operations.  The last part is about what a calibration borrows: which   *)
(* registers bring-up leaves at rest, and that a calibration gives them    *)
(* back.                                                                   *)
(***************************************************************************)
EXTENDS Bcm4313Phy, WellFoundedInduction, SequenceTheorems, FiniteSetTheorems, TLAPS

\* Every set of natural numbers that is not empty has a least element.
LEMMA LeastElement ==
  ASSUME NEW T, T \subseteq Nat, T # {} PROVE \E x \in T : \A y \in T : ~(y < x)
<1>1. IsWellFoundedOn(OpToRel(<, Nat), Nat)
  BY NatLessThanWellFounded, Zenon
<1>2. \E x \in T : \A y \in T : <<y, x>> \notin OpToRel(<, Nat)
  BY <1>1, WFMin, Zenon
<1> QED
  BY <1>2, Zenon DEF OpToRel

-----------------------------------------------------------------------------
(* Running a sequence of instructions.                                     *)

\* What one instruction makes of the registers.
Effect(reg, ins) == [reg EXCEPT ![ins.addr] = (@ \cap ins.keep) \cup ins.set]

\* f is what the registers hold after each of the instructions.
IsTrace(f, reg, prog) ==
  /\ DOMAIN f = 0 .. Len(prog)
  /\ f[0] = reg
  /\ \A i \in 1 .. Len(prog) : f[i] = Effect(f[i - 1], prog[i])

\* The definition of Apply as a recursive function has a solution.
LEMMA TraceExists ==
  ASSUME NEW reg, NEW prog, Len(prog) \in Nat
  PROVE  \E f : IsTrace(f, reg, prog)
<1> DEFINE Good(g, n) == /\ DOMAIN g = 0 .. n
                         /\ g[0] = reg
                         /\ \A i \in 1 .. n : g[i] = Effect(g[i - 1], prog[i])
           T == {n \in Nat : ~ \E g : Good(g, n)}
<1>1. T = {}
  <2>1. SUFFICES ASSUME T # {} PROVE FALSE
    OBVIOUS
  <2>2. PICK n \in T : \A m \in T : ~(m < n)
    BY <2>1, LeastElement
  <2>3. n # 0
    <3>1. Good([i \in 0 .. 0 |-> reg], 0)
      OBVIOUS
    <3> QED
      BY <2>2, <3>1
  <2>4. n \in Nat /\ n - 1 \in Nat /\ n - 1 < n
    BY <2>2, <2>3
  <2>5. n - 1 \notin T
    BY <2>2, <2>4
  <2>6. PICK g : Good(g, n - 1)
    BY <2>4, <2>5
  <2> DEFINE h == [i \in 0 .. n |-> IF i = n THEN Effect(g[n - 1], prog[n]) ELSE g[i]]
  <2>7. Good(h, n)
    <3>1. DOMAIN h = 0 .. n /\ h[0] = reg
      BY <2>3, <2>4, <2>6
    <3>2. ASSUME NEW i \in 1 .. n PROVE h[i] = Effect(h[i - 1], prog[i])
      <4>1. i - 1 \in 0 .. n /\ i - 1 # n /\ i \in 0 .. n
        BY <2>4
      <4>2. h[i - 1] = g[i - 1]
        BY <4>1
      <4>3. CASE i = n
        <5>1. h[i] = Effect(g[n - 1], prog[n])
          BY <4>1, <4>3
        <5> QED
          BY <4>2, <4>3, <5>1
      <4>4. CASE i # n
        <5>1. i \in 1 .. n - 1 /\ h[i] = g[i]
          BY <2>4, <4>1, <4>4
        <5> QED
          BY <2>6, <4>2, <5>1
      <4> QED
        BY <4>3, <4>4
    <3> QED
      BY <3>1, <3>2
  <2> QED
    BY <2>2, <2>7
<1>2. \E g : Good(g, Len(prog))
  BY <1>1
<1> QED
  BY <1>2 DEF IsTrace

\* Apply is where the trace ends.
LEMMA ApplyTrace ==
  ASSUME NEW reg, NEW prog, Len(prog) \in Nat
  PROVE  \E f : IsTrace(f, reg, prog) /\ Apply(reg, prog) = f[Len(prog)]
<1> DEFINE Solves(f) ==
             f = [i \in 0 .. Len(prog) |->
                    IF i = 0 THEN reg
                    ELSE [f[i - 1] EXCEPT ![prog[i].addr] = (@ \cap prog[i].keep) \cup prog[i].set]]
           after == CHOOSE f : Solves(f)
<1>1. Apply(reg, prog) = after[Len(prog)]
  BY DEF Apply
<1>2. \E f : Solves(f)
  <2>1. PICK f : IsTrace(f, reg, prog)
    BY TraceExists
  <2> DEFINE g == [i \in 0 .. Len(prog) |-> f[i]]
  <2>2. /\ DOMAIN g = 0 .. Len(prog) /\ g[0] = reg
        /\ \A i \in 1 .. Len(prog) : g[i] = Effect(g[i - 1], prog[i])
    <3>1. \A i \in 1 .. Len(prog) : i - 1 \in 0 .. Len(prog) /\ i \in 0 .. Len(prog)
      OBVIOUS
    <3> QED
      BY <2>1, <3>1 DEF IsTrace
  <2>3. \A i \in 0 .. Len(prog) : i # 0 => i \in 1 .. Len(prog)
    OBVIOUS
  <2>4. g = [i \in 0 .. Len(prog) |-> g[i]]
    OBVIOUS
  <2> HIDE DEF g
  <2>5. Solves(g)
    BY <2>2, <2>3, <2>4 DEF Effect
  <2> QED
    BY <2>5
<1>3. Solves(after)
  BY <1>2
<1> HIDE DEF after
<1>4. IsTrace(after, reg, prog)
  <2>1. DOMAIN after = 0 .. Len(prog)
    BY <1>3
  <2>2. after[0] = reg
    <3>1. 0 \in 0 .. Len(prog)
      OBVIOUS
    <3> QED
      BY <1>3, <3>1
  <2>3. ASSUME NEW i \in 1 .. Len(prog) PROVE after[i] = Effect(after[i - 1], prog[i])
    <3>1. i \in 0 .. Len(prog) /\ i # 0
      OBVIOUS
    <3> QED
      BY <1>3, <3>1 DEF Effect
  <2> QED
    BY <2>1, <2>2, <2>3 DEF IsTrace
<1> QED
  BY <1>1, <1>4

\* What every instruction keeps, the sequence keeps.
LEMMA ApplyKeeps ==
  ASSUME NEW reg, NEW prog, Len(prog) \in Nat,
         NEW V, reg \in V,
         \A i \in 1 .. Len(prog) : \A r \in V : Effect(r, prog[i]) \in V
  PROVE  Apply(reg, prog) \in V
<1>1. PICK f : IsTrace(f, reg, prog) /\ Apply(reg, prog) = f[Len(prog)]
  BY ApplyTrace
<1> DEFINE T == {n \in 0 .. Len(prog) : f[n] \notin V}
<1>2. T = {}
  <2>1. SUFFICES ASSUME T # {} PROVE FALSE
    OBVIOUS
  <2>2. T \subseteq Nat
    OBVIOUS
  <2>3. PICK n \in T : \A m \in T : ~(m < n)
    BY <2>1, <2>2, LeastElement
  <2>4. n # 0
    BY <1>1, <2>3 DEF IsTrace
  <2>5. n \in 1 .. Len(prog) /\ n - 1 \in 0 .. Len(prog) /\ n - 1 < n
    BY <2>3, <2>4
  <2>6. f[n - 1] \in V
    BY <2>3, <2>5
  <2>7. f[n] \in V
    BY <1>1, <2>5, <2>6 DEF IsTrace
  <2> QED
    BY <2>3, <2>7
<1>3. Len(prog) \in 0 .. Len(prog)
  OBVIOUS
<1> QED
  BY <1>1, <1>2, <1>3

\* A sequence is determined by what the registers hold before it.
LEMMA TraceUnique ==
  ASSUME NEW reg, NEW prog, Len(prog) \in Nat, NEW n \in 0 .. Len(prog), NEW f, NEW g,
         f[0] = g[0],
         \A i \in 1 .. n : f[i] = Effect(f[i - 1], prog[i]),
         \A i \in 1 .. n : g[i] = Effect(g[i - 1], prog[i])
  PROVE  f[n] = g[n]
<1> DEFINE T == {m \in 0 .. n : f[m] # g[m]}
<1>1. SUFFICES ASSUME T # {} PROVE FALSE
  <2>1. n \in 0 .. n
    OBVIOUS
  <2> QED
    BY <2>1
<1>2. T \subseteq Nat
  OBVIOUS
<1>3. PICK k \in T : \A m \in T : ~(m < k)
  BY <1>1, <1>2, LeastElement
<1>4. k # 0
  BY <1>3
<1>5. k \in 1 .. n /\ k - 1 \in 0 .. n /\ k - 1 < k
  BY <1>3, <1>4
<1>6. f[k - 1] = g[k - 1]
  BY <1>3, <1>5
<1>7. f[k] = g[k]
  BY <1>5, <1>6
<1> QED
  BY <1>3, <1>7

\* One sequence after another.
LEMMA ApplyConcat ==
  ASSUME NEW reg, NEW S, NEW s \in Seq(S), NEW t \in Seq(S)
  PROVE  Apply(reg, s \o t) = Apply(Apply(reg, s), t)
<1>1. /\ s \o t \in Seq(S) /\ Len(s \o t) = Len(s) + Len(t) /\ Len(s) \in Nat /\ Len(t) \in Nat
      /\ \A i \in 1 .. Len(s) + Len(t) : (s \o t)[i] = IF i <= Len(s) THEN s[i] ELSE t[i - Len(s)]
  BY ConcatProperties
<1>2. PICK f : IsTrace(f, reg, s \o t) /\ Apply(reg, s \o t) = f[Len(s \o t)]
  <2>1. Len(s \o t) \in Nat
    BY <1>1
  <2> QED
    BY <2>1, ApplyTrace
<1>3. PICK g : IsTrace(g, reg, s) /\ Apply(reg, s) = g[Len(s)]
  BY <1>1, ApplyTrace
<1>4. PICK h : IsTrace(h, Apply(reg, s), t) /\ Apply(Apply(reg, s), t) = h[Len(t)]
  BY <1>1, ApplyTrace
<1>5. f[Len(s)] = g[Len(s)]
  <2>1. f[0] = g[0]
    BY <1>2, <1>3 DEF IsTrace
  <2>2. ASSUME NEW i \in 1 .. Len(s) PROVE f[i] = Effect(f[i - 1], s[i])
    <3>1. i \in 1 .. Len(s \o t) /\ (s \o t)[i] = s[i]
      BY <1>1
    <3> QED
      BY <1>2, <3>1 DEF IsTrace
  <2>3. \A i \in 1 .. Len(s) : g[i] = Effect(g[i - 1], s[i])
    BY <1>3 DEF IsTrace
  <2>4. Len(s) \in 0 .. Len(s)
    BY <1>1
  <2> QED
    BY <1>1, <2>1, <2>2, <2>3, <2>4, TraceUnique
<1> DEFINE k == [i \in 0 .. Len(t) |-> f[Len(s) + i]]
<1>6. k[Len(t)] = h[Len(t)]
  <2>1. k[0] = h[0]
    <3>1. k[0] = f[Len(s)]
      BY <1>1
    <3> QED
      BY <1>3, <1>4, <1>5, <3>1 DEF IsTrace
  <2>2. ASSUME NEW i \in 1 .. Len(t) PROVE k[i] = Effect(k[i - 1], t[i])
    <3>1. /\ Len(s) + i \in 1 .. Len(s \o t) /\ (s \o t)[Len(s) + i] = t[i]
          /\ (Len(s) + i) - 1 = Len(s) + (i - 1) /\ i \in 0 .. Len(t) /\ i - 1 \in 0 .. Len(t)
      <4>1. Len(s) + i \in 1 .. Len(s) + Len(t) /\ ~(Len(s) + i <= Len(s)) /\ (Len(s) + i) - Len(s) = i
        BY <1>1
      <4>2. (s \o t)[Len(s) + i] = t[i]
        BY <1>1, <4>1
      <4> QED
        BY <1>1, <4>1, <4>2
    <3>2. f[Len(s) + i] = Effect(f[Len(s) + (i - 1)], t[i])
      <4>1. f[Len(s) + i] = Effect(f[(Len(s) + i) - 1], (s \o t)[Len(s) + i])
        BY <1>2, <3>1 DEF IsTrace
      <4> QED
        BY <3>1, <4>1
    <3> QED
      BY <3>1, <3>2
  <2>3. \A i \in 1 .. Len(t) : h[i] = Effect(h[i - 1], t[i])
    BY <1>4 DEF IsTrace
  <2>4. Len(t) \in 0 .. Len(t)
    BY <1>1
  <2> HIDE DEF k
  <2> QED
    BY <1>1, <2>1, <2>2, <2>3, <2>4, TraceUnique
<1>7. k[Len(t)] = f[Len(s \o t)]
  BY <1>1
<1> QED
  BY <1>2, <1>4, <1>6, <1>7

\* One instruction.
LEMMA ApplyOne ==
  ASSUME NEW reg, NEW ins PROVE Apply(reg, <<ins>>) = Effect(reg, ins)
<1>1. Len(<<ins>>) = 1 /\ <<ins>>[1] = ins
  OBVIOUS
<1>2. PICK f : IsTrace(f, reg, <<ins>>) /\ Apply(reg, <<ins>>) = f[1]
  BY <1>1, ApplyTrace
<1>3. 1 \in 1 .. 1 /\ 1 - 1 = 0
  OBVIOUS
<1> QED
  BY <1>1, <1>2, <1>3 DEF IsTrace

Instr == [addr : Nat, keep : SUBSET Word, set : SUBSET Word]

\* The instructions that access none of the registers A.
Outside(A) == {i \in Instr : i.addr \notin A}

\* The registers are words, whatever runs.
LEMMA ApplyType ==
  ASSUME NEW D, NEW reg \in [D -> SUBSET Word], NEW prog \in Seq(Instr)
  PROVE  Apply(reg, prog) \in [D -> SUBSET Word]
<1> DEFINE V == [D -> SUBSET Word]
<1>1. ASSUME NEW i \in 1 .. Len(prog), NEW r \in V PROVE Effect(r, prog[i]) \in V
  <2>1. prog[i] \in Instr
    OBVIOUS
  <2>2. prog[i].keep \in SUBSET Word /\ prog[i].set \in SUBSET Word
    BY <2>1 DEF Instr
  <2> QED
    BY <2>2 DEF Effect
<1>2. Len(prog) \in Nat /\ reg \in V
  OBVIOUS
<1> HIDE DEF V
<1>3. Apply(reg, prog) \in V
  BY <1>1, <1>2, ApplyKeeps
<1> QED
  BY <1>3 DEF V

\* A sequence leaves alone what it does not access.
LEMMA ApplyOutside ==
  ASSUME NEW D, NEW reg \in [D -> SUBSET Word], NEW A, A \subseteq D,
         NEW prog \in Seq(Outside(A))
  PROVE  \A a \in A : Apply(reg, prog)[a] = reg[a]
<1> DEFINE V == {r \in [D -> SUBSET Word] : \A a \in A : r[a] = reg[a]}
<1>1. ASSUME NEW i \in 1 .. Len(prog), NEW r \in V PROVE Effect(r, prog[i]) \in V
  <2>1. prog[i] \in Outside(A)
    OBVIOUS
  <2>2. prog[i].keep \in SUBSET Word /\ prog[i].set \in SUBSET Word /\ prog[i].addr \notin A
    BY <2>1 DEF Instr, Outside
  <2>3. Effect(r, prog[i]) \in [D -> SUBSET Word]
    BY <2>2 DEF Effect
  <2>4. \A a \in A : Effect(r, prog[i])[a] = r[a]
    BY <2>2 DEF Effect
  <2> QED
    BY <2>3, <2>4
<1>2. Len(prog) \in Nat /\ reg \in V
  OBVIOUS
<1> HIDE DEF V
<1>3. Apply(reg, prog) \in V
  BY <1>1, <1>2, ApplyKeeps
<1> QED
  BY <1>3 DEF V

-----------------------------------------------------------------------------
(* The sequences that are used all over.                                   *)

\* The registers that tell whether a tone plays, and the ones that hold the
\* mode and the index of the power control.
Tones == {\h63f, \h453}
Power == {\h4a4, \h4a9}
Elsewhere == Outside(Tones \cup Power)

\* A value that a routine writes is a word.
LEMMA BitsAreWords == \A n : Bits(n) \in SUBSET Word
  BY DEF Bits, Field, Word

\* The sets of instructions, by size.
LEMMA ElsewhereIs ==
  /\ Elsewhere \subseteq Instr /\ Outside(Tones) \subseteq Instr /\ Outside(Power) \subseteq Instr
  /\ Elsewhere \subseteq Outside(Tones) /\ Elsewhere \subseteq Outside(Power)
  BY DEF Elsewhere, Outside

\* Sequences of more special instructions.
LEMMA SeqSubset ==
  ASSUME NEW S, NEW T, S \subseteq T, NEW s \in Seq(S) PROVE s \in Seq(T)
<1>1. \A i \in 1 .. Len(s) : s[i] \in T
  OBVIOUS
<1> QED
  BY <1>1

\* A sequence that accesses neither is good for all of them.
LEMMA InstrSeqs ==
  ASSUME NEW s \in Seq(Elsewhere)
  PROVE  s \in Seq(Instr) /\ s \in Seq(Outside(Tones)) /\ s \in Seq(Outside(Power))
  BY ElsewhereIs, SeqSubset

\* Sequences of such instructions are closed under the ways routines build them.
LEMMA ConcatSeqs ==
  ASSUME NEW S, NEW s \in Seq(S), NEW t \in Seq(S) PROVE s \o t \in Seq(S)
  OBVIOUS

\* ... and under a choice.
LEMMA IfSeqs ==
  ASSUME NEW on \in BOOLEAN, NEW S, NEW s \in Seq(S), NEW t \in Seq(S)
  PROVE  (IF on THEN s ELSE t) \in Seq(S)
  OBVIOUS

\* The overrides that routines set and clear touch neither tones nor power.
LEMMA Overrides ==
  ASSUME NEW on \in BOOLEAN, NEW tx \in BOOLEAN
  PROVE  /\ TxGainOverride(on) \in Seq(Elsewhere)
         /\ TrswOverride(tx, on) \in Seq(Elsewhere)
         /\ RxGainOverride(on) \in Seq(Elsewhere)
         /\ DeafMode(on) \in Seq(Elsewhere)
<1> USE DEF If, Word, Elsewhere, Outside, Instr, Mod, Tones, Power
<1>1. TxGainOverride(on) \in Seq(Elsewhere)
  BY SMTT(30) DEF TxGainOverride
<1>2. TrswOverride(tx, on) \in Seq(Elsewhere)
  BY SMTT(30) DEF TrswOverride
<1>3. RxGainOverride(on) \in Seq(Elsewhere)
  BY SMTT(30) DEF RxGainOverride
<1>4. DeafMode(on) \in Seq(Elsewhere)
  BY SMTT(30) DEF DeafMode
<1> QED
  BY <1>1, <1>2, <1>3, <1>4

\* Nor does powering the transmitter up and down.
LEMMA TxPu == TxPuOn \in Seq(Elsewhere) /\ TxPuOff \in Seq(Elsewhere)
<1> USE DEF Word, Elsewhere, Outside, Instr, Mod, And, Tones, Power
<1>1. TxPuOn \in Seq(Elsewhere)
  BY SMTT(30) DEF TxPuOn, TrswOverride, If
<1>2. TxPuOff \in Seq(Elsewhere)
  BY SMTT(30) DEF TxPuOff
<1> QED
  BY <1>1, <1>2

\* A tone starts and stops; neither touches the power control.
LEMMA StartsTone ==
  ASSUME NEW iqcal \in BOOLEAN
  PROVE  StartTxTone(iqcal) \in Seq(Outside(Power))
<1> DEFINE a == <<Mod(\h6d6, {0, 1}, {}), Mod(\h6da, {3}, {3})>>
           b == <<Or(\h6da, {7, 15})>>
           c == <<And(\h453, 0 .. 14), Or(\h453, {15})>>
           d == <<Wr(\h63f, {0})>>
           e == <<Or(R(\h112), {1, 2})>>
<1>1. /\ a \in Seq(Outside(Power)) /\ b \in Seq(Outside(Power)) /\ c \in Seq(Outside(Power))
      /\ d \in Seq(Outside(Power)) /\ e \in Seq(Outside(Power))
  BY SMTT(30) DEF Word, Outside, Instr, Mod, Wr, Or, And, R, Power
<1>2. TxPuOn \in Seq(Outside(Power)) /\ DeafMode(TRUE) \in Seq(Outside(Power))
  BY TxPu, Overrides, InstrSeqs
<1>3. StartTxTone(iqcal) = DeafMode(TRUE) \o a \o (b \o (IF iqcal THEN c ELSE d \o TxPuOn) \o e)
  BY DEF StartTxTone, RunSamples
<1> HIDE DEF a, b, c, d, e
<1>4. (IF iqcal THEN c ELSE d \o TxPuOn) \in Seq(Outside(Power))
  BY <1>1, <1>2, ConcatSeqs, IfSeqs
<1>5. b \o (IF iqcal THEN c ELSE d \o TxPuOn) \o e \in Seq(Outside(Power))
  BY <1>1, <1>4, ConcatSeqs
<1>6. DeafMode(TRUE) \o a \in Seq(Outside(Power))
  BY <1>1, <1>2, ConcatSeqs
<1>7. (DeafMode(TRUE) \o a) \o (b \o (IF iqcal THEN c ELSE d \o TxPuOn) \o e) \in Seq(Outside(Power))
  BY <1>5, <1>6, ConcatSeqs
<1> QED
  BY <1>3, <1>7

\* The last instruction that accesses a register decides what it holds.
LEMMA ApplyLast ==
  ASSUME NEW D, NEW reg \in [D -> SUBSET Word], NEW a \in D, NEW s \in Seq(Instr),
         NEW ins \in Instr, ins.addr = a, NEW t \in Seq(Outside({a}))
  PROVE  /\ Apply(reg, s \o <<ins>> \o t)[a] = (Apply(reg, s)[a] \cap ins.keep) \cup ins.set
         /\ Apply(reg, s) \in [D -> SUBSET Word]
<1> DEFINE one == <<ins>>
           r1 == Apply(reg, s)
           r2 == Apply(r1, one)
<1>1. one \in Seq(Instr) /\ t \in Seq(Instr) /\ s \o one \in Seq(Instr)
  <2>1. Outside({a}) \subseteq Instr
    BY DEF Outside
  <2>2. one \in Seq(Instr)
    OBVIOUS
  <2> HIDE DEF one
  <2> QED
    BY <2>1, <2>2, SeqSubset, ConcatSeqs
<1>2. r1 \in [D -> SUBSET Word]
  BY ApplyType
<1>3. r2 = Effect(r1, ins)
  BY ApplyOne
<1> HIDE DEF r1, one
<1>4. r2 \in [D -> SUBSET Word]
  BY <1>1, <1>2, ApplyType
<1>5. r2[a] = (r1[a] \cap ins.keep) \cup ins.set
  BY <1>2, <1>3 DEF Effect
<1>6. Apply(reg, (s \o one) \o t) = Apply(r2, t)
  <2> DEFINE u == s \o one
  <2>1. Apply(reg, u \o t) = Apply(Apply(reg, u), t)
    <3>1. u \in Seq(Instr) /\ t \in Seq(Instr)
      BY <1>1
    <3> HIDE DEF u
    <3> QED
      BY <3>1, ApplyConcat
  <2>2. Apply(reg, s \o one) = Apply(r1, one)
    BY <1>1, ApplyConcat DEF r1
  <2> QED
    BY <2>1, <2>2
<1> HIDE DEF r2
<1>7. Apply(r2, t)[a] = r2[a]
  <2>1. {a} \subseteq D
    OBVIOUS
  <2>2. \A x \in {a} : Apply(r2, t)[x] = r2[x]
    BY <1>4, <2>1, ApplyOutside
  <2> QED
    BY <2>2
<1>8. r1 = Apply(reg, s) /\ one = <<ins>>
  BY DEF r1, one
<1> QED
  BY <1>2, <1>5, <1>6, <1>7, <1>8

\* The start of a sequence: it leads to registers that agree on what it did not access.
LEMMA ApplyStart ==
  ASSUME NEW D, NEW reg \in [D -> SUBSET Word], NEW A, A \subseteq D, NEW s \in Seq(Outside(A)),
         NEW t \in Seq(Instr)
  PROVE  \E r \in [D -> SUBSET Word] : Apply(reg, s \o t) = Apply(r, t) /\ \A a \in A : r[a] = reg[a]
<1>1. Outside(A) \subseteq Instr
  BY DEF Outside
<1>2. s \in Seq(Instr)
  BY <1>1, SeqSubset
<1>3. Apply(reg, s \o t) = Apply(Apply(reg, s), t)
  BY <1>2, ApplyConcat
<1>4. Apply(reg, s) \in [D -> SUBSET Word]
  BY <1>2, ApplyType
<1>5. \A a \in A : Apply(reg, s)[a] = reg[a]
  BY ApplyOutside
<1> QED
  BY <1>3, <1>4, <1>5

-----------------------------------------------------------------------------
(* Numbers.                                                                *)

\* What the bits of a byte weigh.
Weight(s) ==
  (IF 0 \in s THEN 1 ELSE 0) + (IF 1 \in s THEN 2 ELSE 0) + (IF 2 \in s THEN 4 ELSE 0)
  + (IF 3 \in s THEN 8 ELSE 0) + (IF 4 \in s THEN 16 ELSE 0) + (IF 5 \in s THEN 32 ELSE 0)
  + (IF 6 \in s THEN 64 ELSE 0) + (IF 7 \in s THEN 128 ELSE 0)

\* A bit's share of the sum.
LEMMA WeightStep ==
  ASSUME NEW s \in SUBSET (0 .. 7), NEW x \in s
  PROVE  Weight(s) = 2^x + Weight(s \ {x})
<1>1. CASE x = 0
  <2>1. 2^x = 1
    BY <1>1
  <2> QED
    BY <1>1, <2>1 DEF Weight
<1>2. CASE x = 1
  <2>1. 2^x = 2
    BY <1>2
  <2> QED
    BY <1>2, <2>1 DEF Weight
<1>3. CASE x = 2
  <2>1. 2^x = 4
    BY <1>3
  <2> QED
    BY <1>3, <2>1 DEF Weight
<1>4. CASE x = 3
  <2>1. 2^x = 8
    BY <1>4
  <2> QED
    BY <1>4, <2>1 DEF Weight
<1>5. CASE x = 4
  <2>1. 2^x = 16
    BY <1>5
  <2> QED
    BY <1>5, <2>1 DEF Weight
<1>6. CASE x = 5
  <2>1. 2^x = 32
    BY <1>6
  <2> QED
    BY <1>6, <2>1 DEF Weight
<1>7. CASE x = 6
  <2>1. 2^x = 64
    BY <1>7
  <2> QED
    BY <1>7, <2>1 DEF Weight
<1>8. CASE x = 7
  <2>1. 2^x = 128
    BY <1>8
  <2> QED
    BY <1>8, <2>1 DEF Weight
<1> QED
  BY <1>1, <1>2, <1>3, <1>4, <1>5, <1>6, <1>7, <1>8

\* Number adds them up, in whatever order it chooses.
LEMMA NumberIsWeight ==
  ASSUME NEW s \in SUBSET (0 .. 7) PROVE Number(s) = Weight(s)
<1> DEFINE Solves(f) ==
             f = [t \in SUBSET s |->
                    IF t = {} THEN 0
                    ELSE 2^(CHOOSE x \in t : TRUE) + f[t \ {CHOOSE x \in t : TRUE}]]
           iter == CHOOSE f : Solves(f)
<1>1. Number(s) = iter[s]
  BY DEF Number, MapThenSumSet, MapThenFoldSet
<1> DEFINE w == [t \in SUBSET s |-> Weight(t)]
<1>2. Solves(w)
  <2>1. ASSUME NEW t \in SUBSET s, t = {} PROVE w[t] = 0
    BY <2>1 DEF Weight
  <2>2. ASSUME NEW t \in SUBSET s, t # {}
        PROVE  w[t] = 2^(CHOOSE x \in t : TRUE) + w[t \ {CHOOSE x \in t : TRUE}]
    <3> DEFINE y == CHOOSE x \in t : TRUE
    <3>1. y \in t
      BY <2>2
    <3> HIDE DEF y
    <3>2. t \ {y} \in SUBSET s /\ t \in SUBSET (0 .. 7)
      OBVIOUS
    <3>3. Weight(t) = 2^y + Weight(t \ {y})
      BY <3>1, <3>2, WeightStep
    <3>4. w[t] = 2^y + w[t \ {y}]
      BY <3>2, <3>3
    <3> QED
      BY <3>4 DEF y
  <2>3. w = [t \in SUBSET s |-> w[t]]
    OBVIOUS
  <2> HIDE DEF w
  <2> QED
    BY <2>1, <2>2, <2>3
<1>3. Solves(iter)
  BY <1>2
<1> HIDE DEF iter, w
<1>4. ASSUME NEW t \in SUBSET s PROVE IsFiniteSet(t) /\ Cardinality(t) \in Nat
  <2>1. IsFiniteSet(0 .. 7)
    <3>1. 0 \in Int /\ 7 \in Int
      OBVIOUS
    <3> QED
      BY <3>1, FS_Interval, Zenon
  <2>2. IsFiniteSet(t)
    BY <2>1, FS_Subset
  <2> QED
    BY <2>2, FS_CardinalityType
<1> DEFINE T == {n \in Nat : \E t \in SUBSET s : Cardinality(t) = n /\ iter[t] # w[t]}
<1>5. T = {}
  <2>1. SUFFICES ASSUME T # {} PROVE FALSE
    OBVIOUS
  <2>2. PICK n \in T : \A m \in T : ~(m < n)
    BY <2>1, LeastElement
  <2>3. PICK t \in SUBSET s : Cardinality(t) = n /\ iter[t] # w[t]
    BY <2>2
  <2>4. t # {}
    BY <1>2, <1>3, <2>3
  <2> DEFINE y == CHOOSE x \in t : TRUE
  <2>5. y \in t
    BY <2>4
  <2>6. iter[t] = 2^y + iter[t \ {y}] /\ w[t] = 2^y + w[t \ {y}]
    BY <1>2, <1>3, <2>4
  <2> HIDE DEF y
  <2>7. Cardinality(t \ {y}) = Cardinality(t) - 1
    BY <1>4, <2>5, FS_RemoveElement
  <2>8. Cardinality(t \ {y}) \in Nat /\ Cardinality(t \ {y}) < n
    <3>1. t \ {y} \in SUBSET s
      OBVIOUS
    <3> QED
      BY <1>4, <2>3, <2>7, <3>1
  <2>9. iter[t \ {y}] = w[t \ {y}]
    <3>1. Cardinality(t \ {y}) \notin T
      BY <2>2, <2>8
    <3>2. t \ {y} \in SUBSET s
      OBVIOUS
    <3> QED
      BY <2>8, <3>1, <3>2
  <2> QED
    BY <2>3, <2>6, <2>9
<1>6. iter[s] = w[s]
  <2>1. s \in SUBSET s
    OBVIOUS
  <2> QED
    BY <1>4, <1>5, <2>1
<1> QED
  BY <1>1, <1>6 DEF w

\* The number in eight bits is below 256.
LEMMA NumberOfByte ==
  ASSUME NEW s \in SUBSET (0 .. 7) PROVE Number(s) \in 0 .. 255
  BY NumberIsWeight DEF Weight

\* A number of eight bits survives its way through a register.
ByteBack(n) == Number(Bits(n) \cap (0 .. 7))

\* So what is read back is what was written.
LEMMA BitsAndBack ==
  ASSUME NEW n \in 0 .. 255 PROVE ByteBack(n) = n
<1> DEFINE s == Bits(n) \cap (0 .. 7)
<1>1. /\ 0 \in s <=> n % 2 = 1 
      /\ 1 \in s <=> (n \div 2) % 2 = 1
      /\ 2 \in s <=> (n \div 4) % 2 = 1
      /\ 3 \in s <=> (n \div 8) % 2 = 1
      /\ 4 \in s <=> (n \div 16) % 2 = 1
      /\ 5 \in s <=> (n \div 32) % 2 = 1
      /\ 6 \in s <=> (n \div 64) % 2 = 1
      /\ 7 \in s <=> (n \div 128) % 2 = 1
  <2>1. \A b \in 0 .. 7 : b \in s <=> (n \div 2^(b - 0)) % 2 = 1
    BY DEF Bits, Field
  <2>2. /\ 2^(0 - 0) = 1 /\ 2^(1 - 0) = 2 /\ 2^(2 - 0) = 4 /\ 2^(3 - 0) = 8
        /\ 2^(4 - 0) = 16 /\ 2^(5 - 0) = 32 /\ 2^(6 - 0) = 64 /\ 2^(7 - 0) = 128
    OBVIOUS
  <2> QED
    BY <2>1, <2>2
<1> HIDE DEF s
<1>2. Weight(s) = n
  <2> DEFINE b0 == n % 2
             n1 == n \div 2
             b1 == n1 % 2
             n2 == n1 \div 2
             b2 == n2 % 2
             n3 == n2 \div 2
             b3 == n3 % 2
             n4 == n3 \div 2
             b4 == n4 % 2
             n5 == n4 \div 2
             b5 == n5 % 2
             n6 == n5 \div 2
             b6 == n6 % 2
             n7 == n6 \div 2
             b7 == n7 % 2
  <2>1. /\ n1 = n \div 2 /\ n2 = n \div 4 /\ n3 = n \div 8 /\ n4 = n \div 16
        /\ n5 = n \div 32 /\ n6 = n \div 64 /\ n7 = n \div 128
    OBVIOUS
  <2>2. n7 \in 0 .. 1
    OBVIOUS
  <2>3. /\ n = 2 * n1 + b0 /\ n1 = 2 * n2 + b1 /\ n2 = 2 * n3 + b2 /\ n3 = 2 * n4 + b3
        /\ n4 = 2 * n5 + b4 /\ n5 = 2 * n6 + b5 /\ n6 = 2 * n7 + b6 /\ n7 = b7
        /\ b0 \in 0 .. 1 /\ b1 \in 0 .. 1 /\ b2 \in 0 .. 1 /\ b3 \in 0 .. 1
        /\ b4 \in 0 .. 1 /\ b5 \in 0 .. 1 /\ b6 \in 0 .. 1 /\ b7 \in 0 .. 1
        /\ n1 \in Nat /\ n2 \in Nat /\ n3 \in Nat /\ n4 \in Nat /\ n5 \in Nat /\ n6 \in Nat
    OBVIOUS
  <2>4. /\ 0 \in s <=> b0 = 1 
        /\ 1 \in s <=> b1 = 1
        /\ 2 \in s <=> b2 = 1
        /\ 3 \in s <=> b3 = 1
        /\ 4 \in s <=> b4 = 1
        /\ 5 \in s <=> b5 = 1
        /\ 6 \in s <=> b6 = 1
        /\ 7 \in s <=> b7 = 1
    BY <1>1, <2>1
  <2> HIDE DEF b0, b1, b2, b3, b4, b5, b6, b7, n1, n2, n3, n4, n5, n6, n7
  <2>5. n = b0 + 2 * b1 + 4 * b2 + 8 * b3 + 16 * b4 + 32 * b5 + 64 * b6 + 128 * b7
    BY <2>3
  <2> QED
    BY <2>3, <2>4, <2>5 DEF Weight
<1>3. s \in SUBSET (0 .. 7)
  BY DEF s
<1> QED
  BY <1>2, <1>3, NumberIsWeight DEF s, ByteBack
-----------------------------------------------------------------------------
(* The sequences of the routines, and which registers they access.         *)

\* Neither the power control's registers nor the IQ calibration's tone.
Sampled == Outside({\h453} \cup Power)

\* They lie between the other sets of instructions.
LEMMA SampledIs ==
  /\ Sampled \subseteq Instr /\ Elsewhere \subseteq Sampled
  /\ Sampled \subseteq Outside(Power) /\ Sampled \subseteq Outside({\h453})
  BY DEF Sampled, Elsewhere, Outside, Tones, Power

\* Sequences of them.
LEMMA SampledSeqs == ASSUME NEW s \in Seq(Elsewhere) PROVE s \in Seq(Sampled)
<1>1. Elsewhere \subseteq Sampled
  BY SampledIs
<1> QED
  BY <1>1, SeqSubset

\* Switching to software control, and setting the target power.
LEMMA PowerSequences ==
  ASSUME NEW i
  PROVE  SoftCtrl(i) \in Seq(Outside(Tones)) /\ SetTarget \in Seq(Elsewhere)
<1> USE BitsAreWords DEF Word, Elsewhere, Outside, Instr, Mod, Or, Tones, Power
<1>1. SoftCtrl(i) \in Seq(Outside(Tones))
  BY SMTT(30) DEF SoftCtrl
<1>2. SetTarget \in Seq(Elsewhere)
  BY SMTT(30) DEF SetTarget
<1> QED
  BY <1>1, <1>2

\* Handing the power control to the hardware plays nothing.
LEMMA HandsOver ==
  ASSUME NEW p PROVE HandOver(p) \in Seq(Outside(Tones))
<1> DEFINE a == <<Mod(\h4a4, 0 .. 8, {}), Mod(\h4a5, 8 .. 10, {}), Mod(R(\h11f), {2}, {})>>
<1>1. a \in Seq(Outside(Tones))
  BY SMTT(30) DEF Word, Outside, Instr, Mod, R, Tones
<1>2. SetTarget \in Seq(Outside(Tones)) /\ TxGainOverride(FALSE) \in Seq(Outside(Tones))
  BY PowerSequences, Overrides, InstrSeqs
<1> DEFINE b == IF p.reg[\h4a7] \cap (0 .. 7) # Bits(MinPower) THEN SetTarget ELSE <<>>
<1>3. b \in Seq(Outside(Tones))
  BY <1>2
<1>4. HandOver(p) = b \o a \o TxGainOverride(FALSE)
  BY DEF HandOver
<1> HIDE DEF a, b
<1>5. b \o a \in Seq(Outside(Tones))
  BY <1>1, <1>3, ConcatSeqs
<1> QED
  BY <1>2, <1>4, <1>5, ConcatSeqs

\* The loopback of the calibrations touches neither tones nor power.
LEMMA LoopbackSequences ==
  /\ Loopback \in Seq(Elsewhere)
  /\ <<And(\h44c, {}), And(\h43b, {2, 3})>> \in Seq(Elsewhere)
<1> USE BitsAreWords DEF Word, Elsewhere, Outside, Instr, Mod, Wr, Or, And, R, Tones, Power
<1>1. Loopback \in Seq(Elsewhere)
  BY SMTT(60) DEF Loopback
<1>2. <<And(\h44c, {}), And(\h43b, {2, 3})>> \in Seq(Elsewhere)
  BY SMTT(30)
<1> QED
  BY <1>1, <1>2

\* Nor do the set-up and the measurement of the RX calibration.
LEMMA RxSetups ==
  RxIqCalSetup \in Seq(Elsewhere) /\ RxIqEst \in Seq(Elsewhere)
<1> USE BitsAreWords DEF Word, Elsewhere, Outside, Instr, Mod, Wr, Or, And, R, Tones, Power
<1>1. RxIqCalSetup \in Seq(Elsewhere)
  BY SMTT(60) DEF RxIqCalSetup, TrswOverride, If
<1>2. RxIqEst \in Seq(Elsewhere)
  BY SMTT(30) DEF RxIqEst
<1> QED
  BY <1>1, <1>2

\* The tone for the samples.
LEMMA SamplesSequence == StartTxTone(FALSE) \in Seq(Sampled)
<1> DEFINE a == <<Mod(\h6d6, {0, 1}, {}), Mod(\h6da, {3}, {3})>>
           b == <<Or(\h6da, {7, 15})>>
           d == <<Wr(\h63f, {0})>>
           e == <<Or(R(\h112), {1, 2})>>
<1>1. a \in Seq(Sampled) /\ b \in Seq(Sampled) /\ d \in Seq(Sampled) /\ e \in Seq(Sampled)
  BY SMTT(30) DEF Word, Sampled, Outside, Instr, Mod, Wr, Or, R, Power
<1>2. TxPuOn \in Seq(Sampled) /\ DeafMode(TRUE) \in Seq(Sampled)
  BY TxPu, Overrides, SampledSeqs
<1>3. StartTxTone(FALSE) = (DeafMode(TRUE) \o a) \o ((b \o (d \o TxPuOn)) \o e)
  BY DEF StartTxTone, RunSamples
<1> HIDE DEF a, b, d, e
<1>4. d \o TxPuOn \in Seq(Sampled)
  BY <1>1, <1>2, ConcatSeqs
<1>5. b \o (d \o TxPuOn) \in Seq(Sampled)
  BY <1>1, <1>4, ConcatSeqs
<1>6. (b \o (d \o TxPuOn)) \o e \in Seq(Sampled)
  BY <1>1, <1>5, ConcatSeqs
<1>7. DeafMode(TRUE) \o a \in Seq(Sampled)
  BY <1>1, <1>2, ConcatSeqs
<1> QED
  BY <1>3, <1>6, <1>7, ConcatSeqs

\* The sequences of the RX calibration's search, whatever their instructions avoid.
SearchOne == <<Wr(R(\h112), {})>>
SearchBegin == <<Mod(\h4b1, {11, 12}, {}), Mod(\h4b1, {9}, {}), Mod(\h4b1, {10}, {})>>
SearchFirst == <<Mod(\h6d1, {2}, {}), Mod(\h64b, {6}, {6})>>
SearchLast == <<Mod(\h64b, {0}, {0}), Mod(\h64b, {3}, {3})>>

\* The search is made of them.
LEMMA SearchMade ==
  ASSUME NEW S, SearchOne \in Seq(S), SearchBegin \in Seq(S), SearchFirst \in Seq(S), SearchLast \in Seq(S),
         StartTxTone(FALSE) \in Seq(S), RxGainOverride(TRUE) \in Seq(S), RxIqEst \in Seq(S), NEW search
  PROVE  RxSearch(search) \in Seq(S)
<1> DEFINE tone == StartTxTone(FALSE) \o SearchOne \o RxIqEst
<1>1. tone \in Seq(S)
  <2>1. StartTxTone(FALSE) \o SearchOne \in Seq(S)
    BY ConcatSeqs
  <2> QED
    BY <2>1, ConcatSeqs
<1>2. ASSUME NEW both \in BOOLEAN PROVE RxIqCalGain(both) \in Seq(S)
  <2>1. RxIqCalGain(both) = ((SearchBegin \o RxGainOverride(TRUE)) \o tone) \o (IF both THEN tone ELSE <<>>)
    BY DEF RxIqCalGain, SearchBegin, SearchOne
  <2> HIDE DEF tone
  <2>2. SearchBegin \o RxGainOverride(TRUE) \in Seq(S)
    BY ConcatSeqs
  <2>3. (SearchBegin \o RxGainOverride(TRUE)) \o tone \in Seq(S)
    BY <1>1, <2>2, ConcatSeqs
  <2>4. (IF both THEN tone ELSE <<>>) \in Seq(S)
    BY <1>1
  <2> QED
    BY <2>1, <2>3, <2>4, ConcatSeqs
<1>3. ASSUME NEW ended \in BOOLEAN PROVE CalcRxIqComp(ended) \in Seq(S)
  <2>1. CalcRxIqComp(ended) = (SearchFirst \o RxIqEst) \o (IF ended THEN SearchLast ELSE <<>>)
    BY DEF CalcRxIqComp, SearchFirst, SearchLast
  <2>2. SearchFirst \o RxIqEst \in Seq(S)
    BY ConcatSeqs
  <2>3. (IF ended THEN SearchLast ELSE <<>>) \in Seq(S)
    OBVIOUS
  <2> QED
    BY <2>1, <2>2, <2>3, ConcatSeqs
<1> DEFINE both == search # "early"
           ended == search = "found"
           comp == IF search \in {"found", "stuck"} THEN CalcRxIqComp(ended) ELSE <<>>
<1>4. RxIqCalGain(TRUE) \in Seq(S) /\ RxIqCalGain(both) \in Seq(S)
  BY <1>2
<1>5. comp \in Seq(S)
  <2>1. CalcRxIqComp(ended) \in Seq(S)
    BY <1>3
  <2> QED
    BY <2>1
<1>6. RxSearch(search) = (RxIqCalGain(TRUE) \o RxIqCalGain(both)) \o comp
  BY DEF RxSearch
<1> HIDE DEF both, comp
<1>7. RxIqCalGain(TRUE) \o RxIqCalGain(both) \in Seq(S)
  BY <1>4, ConcatSeqs
<1> QED
  BY <1>5, <1>6, <1>7, ConcatSeqs

\* The search for the RX gain plays samples, and no tone of the IQ calibration.
LEMMA SearchSequences ==
  ASSUME NEW search PROVE RxSearch(search) \in Seq(Sampled)
<1>1. SearchOne \in Seq(Sampled) /\ SearchBegin \in Seq(Sampled)
  BY SMTT(30) DEF SearchOne, SearchBegin, Word, Sampled, Outside, Instr, Mod, Wr, R, Power
<1>2. SearchFirst \in Seq(Sampled) /\ SearchLast \in Seq(Sampled)
  BY SMTT(30) DEF SearchFirst, SearchLast, Word, Sampled, Outside, Instr, Mod, Power
<1>3. RxGainOverride(TRUE) \in Seq(Sampled) /\ RxIqEst \in Seq(Sampled)
  BY Overrides, RxSetups, SampledSeqs
<1>4. StartTxTone(FALSE) \in Seq(Sampled)
  BY SamplesSequence
<1> HIDE DEF Sampled
<1> QED
  BY <1>1, <1>2, <1>3, <1>4, SearchMade

\* The TSSI multiplexer touches neither tones nor power ...
LEMMA TssiMuxSequence ==
  ASSUME NEW fem \in BOOLEAN PROVE TssiMux(fem) \in Seq(Elsewhere)
<1> USE BitsAreWords DEF Word, Elsewhere, Outside, Instr, Mod, Wr, R, Tones, Power
<1>1. CASE fem
  BY <1>1, SMTT(60) DEF TssiMux
<1>2. CASE ~fem
  BY <1>2, SMTT(60) DEF TssiMux
<1> QED
  BY <1>1, <1>2

\* ... but the TSSI's set-up wipes the mode of the power control.
LEMMA TssiSequences ==
  ASSUME NEW fem \in BOOLEAN PROVE TssiSetup(fem) \in Seq(Outside(Tones))
<1> DEFINE a == <<Mod(\h503, {0}, {}), Mod(\h503, {2}, {}), Mod(\h503, {4}, {4})>>
           b ==
  <<Mod(\h4a4, {14}, {}), Mod(\h4a4, {15}, {15}), Mod(\h4d0, {5}, {}), Mod(\h4a4, 0 .. 8, {}),
    Mod(\h4a5, 0 .. 7, 0 .. 7), Mod(\h4a5, 12 .. 14, {12, 14}), Mod(\h4a5, 8 .. 10, {}),
    Mod(\h40d, 0 .. 7, {6}), Mod(\h40d, 8 .. 10, {10}), Mod(\h4a2, 0 .. 7, {6}),
    Mod(\h4a2, 8 .. 10, {10}), Mod(\h4d0, 6 .. 14, {}), Mod(\h4a8, 0 .. 7, {0}),
    Mod(\h4a6, {15}, {15}), Mod(\h4a6, 0 .. 8, 0 .. 7), Mod(\h49a, 0 .. 8, 0 .. 7),
    Mod(R(\h028), 1 .. 4, IF fem THEN {1} ELSE 2 .. 4), Mod(R(\h03a), {0}, {0}),
    Mod(R(\h11a), {3}, {3}), Wr(R(\h025), {2, 3}), Mod(R(\h03a), {1}, {1}),
    Mod(R(\h03a), {2}, {2}), Mod(R(\h11a), {0}, {0}), Mod(R(\h005), {3}, {3}),
    Mod(\h4d7, {3, 12, 13, 14}, {13}), Mod(\h938, {2}, {2}), Mod(\h939, {2}, {2}),
    Mod(\h4a4, {12}, {12}), Mod(\h4d7, {2}, {2}), Mod(\h4d7, 8 .. 11, {}),
    Mod(R(\h035), 0 .. 7, {}), Mod(R(\h036), {0, 1}, {}), Mod(R(\h11a), {3}, {3}),
    Mod(\h4d8, {0}, {}), Mod(\h4d8, {1}, {}), Mod(\h4d7, {3}, {}),
    Mod(\h4db, (0 .. 9) \cup (12 .. 14), AuxPga), Mod(R(\h082), {5}, {5}), Mod(R(\h07c), {0}, {0})>>
<1>1. a \in Seq(Outside(Tones))
  BY SMTT(30) DEF Word, Outside, Instr, Mod, Tones
<1>2. b \in Seq(Outside(Tones))
  BY SMTT(90) DEF Word, Outside, Instr, Mod, Wr, R, Tones, AuxPga
<1>3. TssiMux(fem) \in Seq(Outside(Tones))
  BY TssiMuxSequence, InstrSeqs
<1>4. TssiSetup(fem) = (a \o TssiMux(fem)) \o b
  BY DEF TssiSetup
<1> HIDE DEF a, b
<1>5. a \o TssiMux(fem) \in Seq(Outside(Tones))
  BY <1>1, <1>3, ConcatSeqs
<1> QED
  BY <1>2, <1>4, <1>5, ConcatSeqs

\* The radio's registers, but the mixer's.
Tuners == {i \in Instr : i.addr >= 4096 /\ i.addr # R(\h112)}

\* Those of the VCO's calibration.
VcoWrites == {i \in Instr : i.addr \in VcoRegs}

\* The registers of the PHY that a change of channel writes.
ChannelRegs == {\h448, \h942, \h93b, \h93c, \h424, \h425, \h44a, \h4eb}
Selectors == {i \in Instr : i.addr \in ChannelRegs}

\* They are apart from tones and power.
LEMMA ChannelApart ==
  Tuners \subseteq Elsewhere /\ VcoWrites \subseteq Tuners /\ Selectors \subseteq Elsewhere
<1>1. Tuners \subseteq Elsewhere
  BY SMTT(30) DEF Tuners, Elsewhere, Outside, Instr, Tones, Power
<1>2. VcoWrites \subseteq Tuners
  BY SMTT(30) DEF VcoWrites, VcoRegs, Tuners, Instr, R
<1>3. Selectors \subseteq Elsewhere
  BY SMTT(30) DEF Selectors, ChannelRegs, Elsewhere, Outside, Instr, Tones, Power
<1> QED
  BY <1>1, <1>2, <1>3

\* The calibration of the VCO, whatever the radio holds.
LEMMA VcoSequence ==
  ASSUME NEW p, NEW w \in SUBSET Word, p.reg[R(\h056)] = w PROVE VcoCal(p) \in Seq(VcoWrites)
<1> DEFINE kept == w \cap (3 .. 7)
<1>1. kept \in SUBSET Word
  OBVIOUS
<1>2. VcoCal(p) = <<Mod(R(\h057), {3}, {3}), Wr(R(\h056), kept), Wr(R(\h056), kept \cup {0, 1}),
                    Wr(R(\h056), kept \cup (0 .. 2)), Mod(R(\h057), {3}, {})>>
  BY DEF VcoCal
<1> HIDE DEF kept
<1> QED
  BY <1>1, <1>2, SMTT(30) DEF Word, VcoWrites, VcoRegs, Instr, Mod, Wr, R

\* The tuning of a channel.
TuneProg(c, d) ==
  <<Or(R(\h044), 0 .. 2), Or(R(\h12b), 1 .. 3),
    Wr(R(\h052), Bits((D15 \div 4) % 8)), Wr(R(\h053), Bits(32 * (D15 % 4))),
    Wr(R(\h051), Bits(D16)), Mod(R(\h053), 0 .. 3, Byte(SetCount(c) \div 256)),
    Or(R(\h053), {4}), Wr(R(\h054), Byte(SetCount(c))),
    Mod(R(\h045), 0 .. 4, Bits(d.int \div 16)), Mod(R(\h046), 4 .. 8, Byte(d.int * 16)),
    Mod(R(\h046), 0 .. 3, Bits(d.frac \div 2^16)), Wr(R(\h047), Byte(d.frac \div 2^8)),
    Wr(R(\h048), Byte(d.frac)), Wr(R(\h03c), IF c <= 5 THEN {3} ELSE 0 .. 2),
    Mod(R(\h044), {2, 3}, {2, 3})>>

\* Whatever the divider, the tuning writes the radio only.
LEMMA TuneProgIs == ASSUME NEW c, NEW d PROVE TuneProg(c, d) \in Seq(Tuners)
<1> DEFINE b1 == Bits((D15 \div 4) % 8)
           b2 == Bits(32 * (D15 % 4))
           b3 == Bits(D16)
           b4 == Byte(SetCount(c) \div 256)
           b5 == Byte(SetCount(c))
           b6 == Bits(d.int \div 16)
           b7 == Byte(d.int * 16)
           b8 == Bits(d.frac \div 2^16)
           b9 == Byte(d.frac \div 2^8)
           b10 == Byte(d.frac)
           b11 == IF c <= 5 THEN {3} ELSE 0 .. 2
<1>1. TuneProg(c, d) =
      <<Or(R(\h044), 0 .. 2), Or(R(\h12b), 1 .. 3),
        Wr(R(\h052), b1), Wr(R(\h053), b2),
        Wr(R(\h051), b3), Mod(R(\h053), 0 .. 3, b4),
        Or(R(\h053), {4}), Wr(R(\h054), b5),
        Mod(R(\h045), 0 .. 4, b6), Mod(R(\h046), 4 .. 8, b7),
        Mod(R(\h046), 0 .. 3, b8), Wr(R(\h047), b9),
        Wr(R(\h048), b10), Wr(R(\h03c), b11),
        Mod(R(\h044), {2, 3}, {2, 3})>>
  BY DEF TuneProg
<1>2. /\ b1 \in SUBSET Word /\ b2 \in SUBSET Word /\ b3 \in SUBSET Word /\ b4 \in SUBSET Word
      /\ b5 \in SUBSET Word /\ b6 \in SUBSET Word /\ b7 \in SUBSET Word /\ b8 \in SUBSET Word
      /\ b9 \in SUBSET Word /\ b10 \in SUBSET Word
  BY BitsAreWords, Zenon DEF Byte
<1>3. b11 \in SUBSET Word
  BY DEF Word
<1> HIDE DEF b1, b2, b3, b4, b5, b6, b7, b8, b9, b10, b11
<1>4. <<Or(R(\h044), 0 .. 2), Or(R(\h12b), 1 .. 3),
        Wr(R(\h052), b1), Wr(R(\h053), b2),
        Wr(R(\h051), b3), Mod(R(\h053), 0 .. 3, b4),
        Or(R(\h053), {4}), Wr(R(\h054), b5),
        Mod(R(\h045), 0 .. 4, b6), Mod(R(\h046), 4 .. 8, b7),
        Mod(R(\h046), 0 .. 3, b8), Wr(R(\h047), b9),
        Wr(R(\h048), b10), Wr(R(\h03c), b11),
        Mod(R(\h044), {2, 3}, {2, 3})>> \in Seq(Tuners)
  BY <1>2, <1>3, SMTT(60) DEF Word, Tuners, Instr, Mod, Wr, Or, R
<1> QED
  BY <1>1, <1>4

\* The channel's tweaks of the baseband.
LEMMA TweakSequence == ASSUME NEW c PROVE Tweaks(c) \in Seq(Selectors)
<1> DEFINE quiet == c \in {1, 2, 3, 4, 9, 10, 11, 12}
           b1 == IF c = 14 THEN {9} ELSE {8}
           b2 == If(~quiet, 0 .. 2)
           b3 == Bits(23) \cup If(~quiet, {13})
           b4 == Bits(1989) \cup If(~quiet, {13})
           b5 == IF quiet THEN Bits(\h1b) ELSE Bits(\h1f)
           b6 == IF quiet THEN Bits(\h5907) ELSE Bits(\h590a)
<1>1. /\ b1 \in SUBSET Word /\ b2 \in SUBSET Word /\ b3 \in SUBSET Word /\ b4 \in SUBSET Word
      /\ b5 \in SUBSET Word /\ b6 \in SUBSET Word
  <2>1. Bits(23) \in SUBSET Word /\ Bits(1989) \in SUBSET Word /\ Bits(\h1b) \in SUBSET Word
        /\ Bits(\h1f) \in SUBSET Word /\ Bits(\h5907) \in SUBSET Word /\ Bits(\h590a) \in SUBSET Word
    BY BitsAreWords
  <2>2. {9} \in SUBSET Word /\ {8} \in SUBSET Word /\ 0 .. 2 \in SUBSET Word /\ {13} \in SUBSET Word
    BY DEF Word
  <2> HIDE DEF quiet
  <2> QED
    BY <2>1, <2>2 DEF If
<1>2. Tweaks(c) =
        <<Mod(\h448, {8, 9}, b1), Wr(\h942, b2), Wr(\h93b, b3), Wr(\h93c, b4),
          Mod(\h424, 8 .. 15, b5), Wr(\h425, b6), Wr(\h44a, {7})>>
  BY DEF Tweaks
<1> HIDE DEF b1, b2, b3, b4, b5, b6
<1>3. <<Mod(\h448, {8, 9}, b1), Wr(\h942, b2), Wr(\h93b, b3), Wr(\h93c, b4),
        Mod(\h424, 8 .. 15, b5), Wr(\h425, b6), Wr(\h44a, {7})>> \in Seq(Selectors)
  BY <1>1, SMTT(30) DEF Word, Selectors, ChannelRegs, Instr, Mod, Wr
<1> QED
  BY <1>2, <1>3

-----------------------------------------------------------------------------
(* The PHY as a record, and what a routine leaves of it.                   *)

Coefs == {"table"} \cup {o.coef : o \in Outcomes}

Mults == {"table", "index", "init"} \X Nat

Phys ==
  [reg : [Regs -> SUBSET Word], bbmult : Mults, coef : Coefs,
   coefs : Coefs, current : 0 .. 127, temp : Temps \cup {RawTemp}, edge : {0, 2, 4},
   chan : Chans \cup {0}, hw : BOOLEAN, fem : BOOLEAN]

SameIn(A, p, q) == \A a \in A : q.reg[a] = p.reg[a]

\* Nothing but registers changes.
Plain(p, q) ==
  /\ p \in Phys /\ q \in Phys
  /\ q.hw = p.hw /\ q.fem = p.fem /\ q.temp = p.temp /\ q.edge = p.edge /\ q.chan = p.chan
  /\ q.coefs = p.coefs /\ q.coef = p.coef /\ q.current = p.current

\* The index may change too; with hardware control it brings the coefficients
\* of the power table with it.
Keeps(p, q) ==
  /\ p \in Phys /\ q \in Phys
  /\ q.hw = p.hw /\ q.fem = p.fem /\ q.temp = p.temp /\ q.edge = p.edge /\ q.chan = p.chan
  /\ q.coefs = p.coefs
  /\ q.coef = p.coef \/ (p.hw /\ q.coef = p.coefs)

\* The relations between a PHY and what a routine makes of it compose.
LEMMA PlainKeeps == ASSUME NEW p, NEW q, Plain(p, q) PROVE Keeps(p, q)
  BY DEF Plain, Keeps

\* Routine after routine: registers only.
LEMMA PlainTwice ==
  ASSUME NEW p, NEW q, NEW r, Plain(p, q), Plain(q, r) PROVE Plain(p, r)
  BY DEF Plain

\* Routine after routine: the index may change.
LEMMA KeepsTwice ==
  ASSUME NEW p, NEW q, NEW r, Keeps(p, q), Keeps(q, r) PROVE Keeps(p, r)
  BY DEF Keeps

\* Routine after routine: the registers A stay.
LEMMA SameTwice ==
  ASSUME NEW A, NEW p, NEW q, NEW r, SameIn(A, p, q), SameIn(A, q, r) PROVE SameIn(A, p, r)
  BY DEF SameIn

\* The registers that the invariant looks at exist.
LEMMA Watched == Tones \subseteq Regs /\ Power \subseteq Regs
<1>1. Tones \subseteq Regs
  BY DEF Tones, Regs
<1>2. Power \subseteq Regs
  BY DEF Power, Regs
<1> QED
  BY <1>1, <1>2

\* What the registers may hold.
Files == [Regs -> SUBSET Word]

\* Register files.
LEMMA RegsOf == ASSUME NEW p \in Phys PROVE p.reg \in Files
  BY DEF Phys, Files

\* Every sequence leads from a file to a file.
LEMMA FilesApply ==
  ASSUME NEW r \in Files, NEW prog \in Seq(Instr) PROVE Apply(r, prog) \in Files
  BY ApplyType DEF Files

\* What is not accessed stays.
LEMMA FilesOutside ==
  ASSUME NEW r \in Files, NEW A, A \subseteq Regs, NEW prog \in Seq(Outside(A))
  PROVE  \A a \in A : Apply(r, prog)[a] = r[a]
<1> DEFINE D == Regs
<1>1. r \in [D -> SUBSET Word] /\ A \subseteq D
  BY DEF Files
<1> HIDE DEF D
<1> QED
  BY <1>1, ApplyOutside

\* What an instruction leaves when no later one accesses its register.
Progs == Seq(Instr)
Later(a) == Seq(Outside({a}))
Then(s, ins, t) == s \o <<ins>> \o t

\* The last access decides.
LEMMA FilesLast ==
  ASSUME NEW r \in Files, NEW s \in Progs, NEW ins \in Instr, ins.addr \in Regs,
         NEW t \in Later(ins.addr)
  PROVE  Apply(r, Then(s, ins, t))[ins.addr] = (Apply(r, s)[ins.addr] \cap ins.keep) \cup ins.set
<1> DEFINE D == Regs
           a == ins.addr
<1>1. r \in [D -> SUBSET Word] /\ a \in D /\ ins.addr = a /\ t \in Seq(Outside({a})) /\ s \in Seq(Instr)
  BY DEF Files, Progs, Later
<1> HIDE DEF D, a
<1>2. Apply(r, s \o <<ins>> \o t)[a] = (Apply(r, s)[a] \cap ins.keep) \cup ins.set
  BY <1>1, ApplyLast
<1> QED
  BY <1>1, <1>2 DEF Then

\* What the start of a sequence does not access is there for its end.
LEMMA FilesStart ==
  ASSUME NEW f \in Files, NEW A, A \subseteq Regs, NEW s \in Seq(Outside(A)), NEW t \in Seq(Instr)
  PROVE  \E r \in Files : Apply(f, s \o t) = Apply(r, t) /\ \A a \in A : r[a] = f[a]
<1> DEFINE D == Regs
<1>1. f \in [D -> SUBSET Word] /\ A \subseteq D /\ Files = [D -> SUBSET Word]
  BY DEF Files
<1> HIDE DEF D
<1> QED
  BY <1>1, ApplyStart

\* The fields of a PHY.
LEMMA Words ==
  ASSUME NEW p \in Phys, NEW a \in Regs
  PROVE  p.reg[a] \in SUBSET Word /\ p.reg \in [Regs -> SUBSET Word]
  BY DEF Phys

\* Replacing the registers changes nothing else.
LEMMA NewRegs ==
  ASSUME NEW p \in Phys, NEW r \in [Regs -> SUBSET Word]
  PROVE  Plain(p, [p EXCEPT !.reg = r]) /\ [p EXCEPT !.reg = r].reg = r
  BY DEF Phys, Plain

\* Running a sequence changes the registers and nothing else.
LEMMA RunIs ==
  ASSUME NEW p \in Phys, NEW prog \in Seq(Instr)
  PROVE  Plain(p, Run(p, prog)) /\ Run(p, prog).reg = Apply(p.reg, prog)
<1>1. Run(p, prog) = [p EXCEPT !.reg = Apply(p.reg, prog)]
  BY DEF Run
<1>2. Apply(p.reg, prog) \in [Regs -> SUBSET Word]
  <2>1. p.reg \in [Regs -> SUBSET Word]
    BY DEF Phys
  <2> QED
    BY <2>1, ApplyType
<1> QED
  BY <1>1, <1>2, NewRegs

\* Running a sequence keeps the registers that it does not access.
LEMMA RunOutside ==
  ASSUME NEW p \in Phys, NEW A, A \subseteq Regs, NEW prog \in Seq(Outside(A))
  PROVE  Plain(p, Run(p, prog)) /\ SameIn(A, p, Run(p, prog))
<1>1. prog \in Seq(Instr)
  <2>1. Outside(A) \subseteq Instr
    BY DEF Outside
  <2> QED
    BY <2>1, SeqSubset
<1>2. p.reg \in [Regs -> SUBSET Word]
  BY DEF Phys
<1>3. \A a \in A : Apply(p.reg, prog)[a] = p.reg[a]
  BY <1>2, ApplyOutside
<1> QED
  BY <1>1, <1>3, RunIs DEF SameIn

\* A sequence that accesses neither tones nor power keeps both.
LEMMA RunElsewhere ==
  ASSUME NEW p \in Phys, NEW prog \in Seq(Elsewhere)
  PROVE  /\ Plain(p, Run(p, prog)) /\ SameIn(Tones, p, Run(p, prog))
         /\ SameIn(Power, p, Run(p, prog))
  BY InstrSeqs, RunOutside, Watched

\* Writing back saved registers keeps the others.
LEMMA RestoreIs ==
  ASSUME NEW p \in Phys, NEW old \in Phys, NEW A, NEW B, B \cap A = {}, B \subseteq Regs
  PROVE  Plain(p, Restore(p, old, A)) /\ SameIn(B, p, Restore(p, old, A))
<1> DEFINE r == [a \in DOMAIN p.reg |-> IF a \in A THEN old.reg[a] ELSE p.reg[a]]
<1>1. Restore(p, old, A) = [p EXCEPT !.reg = r]
  BY DEF Restore
<1>2. p.reg \in [Regs -> SUBSET Word] /\ old.reg \in [Regs -> SUBSET Word]
  BY DEF Phys
<1>3. r \in [Regs -> SUBSET Word]
  BY <1>2
<1>4. \A b \in B : r[b] = p.reg[b]
  BY <1>2
<1> HIDE DEF r
<1> QED
  BY <1>1, <1>3, <1>4, NewRegs DEF SameIn

\* Noting the index changes no register.
LEMMA NewCurrent ==
  ASSUME NEW p \in Phys, NEW i \in 0 .. 127, NEW q, q = [p EXCEPT !.current = i]
  PROVE  /\ Keeps(p, q) /\ q.current = i /\ q.coef = p.coef /\ q.reg = p.reg
         /\ \A A : SameIn(A, p, q)
  BY DEF Phys, Keeps, SameIn

\* Nor does the baseband multiplier, which is in a table.
LEMMA NewBbmult ==
  ASSUME NEW p \in Phys, NEW b \in Mults
  PROVE  Plain(p, [p EXCEPT !.bbmult = b]) /\ \A A : SameIn(A, p, [p EXCEPT !.bbmult = b])
  BY DEF Phys, Plain, SameIn

\* What an index may bring with it.
Brings(p, c) == c = p.coef \/ (p.hw /\ c = p.coefs)

\* Nor do the coefficients that come with an index.
LEMMA NewIndex ==
  ASSUME NEW p \in Phys, NEW b \in Mults,
         NEW c \in Coefs, Brings(p, c),
         NEW q, q = [p EXCEPT !.bbmult = b, !.coef = c]
  PROVE  /\ Keeps(p, q) /\ q.current = p.current /\ q.coef = c /\ q.reg = p.reg
         /\ \A A : SameIn(A, p, q)
  BY DEF Phys, Keeps, SameIn, Brings

-----------------------------------------------------------------------------
(* Gains.                                                                  *)

Gains == [gm : SUBSET Word, pad : SUBSET Word, dac : SUBSET Word]

\* The gains that are read back, looked up or calibrated with.
LEMMA TheGains ==
  ASSUME NEW p \in Phys
  PROVE  /\ TxGain(p) \in Gains /\ PaGain(p) \in SUBSET Word /\ PaOf(p) \in SUBSET Word
         /\ \A i : GainOf(p, i) \in Gains
         /\ \A i : CalGain(i) \in Gains
<1>1. p.reg \in [Regs -> SUBSET Word]
  BY DEF Phys
<1>2. \h4b5 \in Regs /\ \h4fb \in Regs /\ \h439 \in Regs
  BY DEF Regs
<1>3. p.reg[\h4b5] \in SUBSET Word /\ p.reg[\h4fb] \in SUBSET Word /\ p.reg[\h439] \in SUBSET Word
  BY <1>1, <1>2
<1>4. TxGain(p) \in Gains /\ PaGain(p) \in SUBSET Word
  BY <1>3 DEF TxGain, PaGain, Gains
<1>5. PaOf(p) \in SUBSET Word
  BY DEF PaOf, Word
<1>6. ASSUME NEW i PROVE GainOf(p, i) \in Gains /\ CalGain(i) \in Gains
  <2>1. Bits(Pad(p.fem, i)) \in SUBSET Word /\ Bits(i) \in SUBSET Word
    BY BitsAreWords
  <2>2. {} \in SUBSET Word /\ 0 .. 2 \in SUBSET Word /\ 0 .. 3 \in SUBSET Word
        /\ {0, 1} \in SUBSET Word
    BY DEF Word
  <2> QED
    BY <2>1, <2>2 DEF GainOf, CalGain, Gains
<1> QED
  BY <1>4, <1>5, <1>6

\* set_pa_gain() touches neither tones nor power.
LEMMA SetPaGainIs ==
  ASSUME NEW p \in Phys, NEW pa \in SUBSET Word
  PROVE  /\ Plain(p, SetPaGain(p, pa)) /\ SameIn(Tones, p, SetPaGain(p, pa))
         /\ SameIn(Power, p, SetPaGain(p, pa))
<1> DEFINE a == <<Mod(\h4fb, 8 .. 14, pa)>>
<1>1. a \in Seq(Elsewhere)
  BY DEF Word, Elsewhere, Outside, Instr, Mod, Tones, Power
<1>2. SetPaGain(p, pa) = Run(p, a)
  BY DEF SetPaGain
<1> HIDE DEF a
<1> QED
  BY <1>1, <1>2, RunElsewhere

\* Nor does set_tx_gain().
LEMMA SetTxGainIs ==
  ASSUME NEW p \in Phys, NEW g \in Gains
  PROVE  /\ Plain(p, SetTxGain(p, g)) /\ SameIn(Tones, p, SetTxGain(p, g))
         /\ SameIn(Power, p, SetTxGain(p, g))
<1> DEFINE gm == g.gm
           pad == g.pad \cup PaGain(p)
           dac == g.dac
           a == <<Mod(\h4b5, Word, gm), Mod(\h4fb, 0 .. 14, pad), Mod(\h439, 7 .. 9, dac)>>
<1>1. gm \in SUBSET Word /\ pad \in SUBSET Word /\ dac \in SUBSET Word
  BY TheGains DEF Gains
<1> HIDE DEF gm, pad, dac
<1>2. a \in Seq(Elsewhere)
  BY <1>1, SMTT(30) DEF Word, Elsewhere, Outside, Instr, Mod, Tones, Power
<1>3. SetTxGain(p, g) = Run(p, a \o TxGainOverride(TRUE))
  BY DEF SetTxGain, gm, pad, dac
<1> HIDE DEF a
<1>4. a \o TxGainOverride(TRUE) \in Seq(Elsewhere)
  BY <1>2, Overrides, ConcatSeqs
<1> QED
  BY <1>3, <1>4, RunElsewhere

-----------------------------------------------------------------------------
(* The power control.                                                      *)

\* Software control: of the mode's bits one remains, and the index is in its register.
LEMMA SoftCtrlEnds ==
  ASSUME NEW reg \in Files, NEW i
  PROVE  Apply(reg, SoftCtrl(i))[\h4a4] = {13} /\ Apply(reg, SoftCtrl(i))[\h4a9] = Bits(2 * i)
<1> DEFINE b == Bits(2 * i)
           s5 == <<Mod(\h4a4, {14}, {14}), Mod(\h4a4, {14}, {}), Or(\h6da, {6}),
                   Mod(\h4a4, {15}, {15}), Mod(\h4a4, {14}, {14})>>
           m13 == Mod(\h4a4, {13}, {13})
           t5 == <<Mod(\h4b0, {7}, {}), Mod(\h43b, {6}, {}), Mod(\h4a9, {15}, {15}),
                   Mod(\h4a9, 0 .. 8, b), Mod(\h6a3, {4}, {})>>
           s8 == <<Mod(\h4a4, {14}, {14}), Mod(\h4a4, {14}, {}), Or(\h6da, {6}),
                   Mod(\h4a4, {15}, {15}), Mod(\h4a4, {14}, {14}), Mod(\h4a4, {13}, {13}),
                   Mod(\h4b0, {7}, {}), Mod(\h43b, {6}, {})>>
           m15 == Mod(\h4a9, {15}, {15})
           mi == Mod(\h4a9, 0 .. 8, b)
           t1 == <<Mod(\h6a3, {4}, {})>>
           none == <<>>
<1>1. b \in SUBSET Word
  BY BitsAreWords
<1> HIDE DEF b
<1>2. SoftCtrl(i) = s5 \o <<m13>> \o t5 /\ SoftCtrl(i) = (s8 \o <<m15>> \o none) \o <<mi>> \o t1
  BY DEF SoftCtrl, b
<1>3. s5 \in Seq(Instr) /\ t5 \in Seq(Outside({\h4a4}))
  BY <1>1, SMTT(30) DEF Word, Outside, Instr, Mod, Or
<1>4. /\ s8 \in Seq(Instr) /\ t1 \in Seq(Outside({\h4a9})) /\ none \in Seq(Outside({\h4a9}))
  BY <1>1, SMTT(30) DEF Word, Outside, Instr, Mod, Or
<1>5. /\ m13 \in Instr /\ m13.addr = \h4a4 /\ m13.keep = {13} /\ m13.set = {13}
      /\ m15 \in Instr /\ m15.addr = \h4a9 /\ m15.keep = {15} /\ m15.set = {15}
      /\ mi \in Instr /\ mi.addr = \h4a9 /\ mi.keep = 0 .. 8 /\ mi.set = b
  BY <1>1, SMTT(30) DEF Word, Instr, Mod
<1> HIDE DEF s5, m13, t5, s8, m15, mi, t1, none
<1>6. \h4a4 \in Regs /\ \h4a9 \in Regs
  BY Watched DEF Power
<1>7. Apply(reg, s5 \o <<m13>> \o t5)[\h4a4] = (Apply(reg, s5)[\h4a4] \cap {13}) \cup {13}
  <2>1. s5 \in Progs /\ m13.addr \in Regs /\ t5 \in Later(m13.addr)
    BY <1>3, <1>5, <1>6 DEF Progs, Later
  <2>2. Apply(reg, Then(s5, m13, t5))[m13.addr] = (Apply(reg, s5)[m13.addr] \cap m13.keep) \cup m13.set
    BY <1>5, <2>1, FilesLast
  <2> QED
    BY <1>5, <2>2 DEF Then
<1> DEFINE u == s8 \o <<m15>> \o none
<1>8. Apply(reg, u)[\h4a9] = (Apply(reg, s8)[\h4a9] \cap {15}) \cup {15}
  <2>1. s8 \in Progs /\ m15.addr \in Regs /\ none \in Later(m15.addr)
    BY <1>4, <1>5, <1>6 DEF Progs, Later
  <2>2. Apply(reg, Then(s8, m15, none))[m15.addr] = (Apply(reg, s8)[m15.addr] \cap m15.keep) \cup m15.set
    BY <1>5, <2>1, FilesLast
  <2> QED
    BY <1>5, <2>2 DEF Then
<1>9. u \in Seq(Instr)
  <2>1. none \in Seq(Instr) /\ <<m15>> \in Seq(Instr)
    BY <1>5 DEF none
  <2>2. s8 \o <<m15>> \in Seq(Instr)
    BY <1>4, <2>1, ConcatSeqs
  <2> QED
    BY <2>1, <2>2, ConcatSeqs
<1> HIDE DEF u
<1>10. Apply(reg, u \o <<mi>> \o t1)[\h4a9] = (Apply(reg, u)[\h4a9] \cap (0 .. 8)) \cup b
  <2>1. u \in Progs /\ mi.addr \in Regs /\ t1 \in Later(mi.addr)
    BY <1>4, <1>5, <1>6, <1>9 DEF Progs, Later
  <2>2. Apply(reg, Then(u, mi, t1))[mi.addr] = (Apply(reg, u)[mi.addr] \cap mi.keep) \cup mi.set
    BY <1>5, <2>1, FilesLast
  <2> QED
    BY <1>5, <2>2 DEF Then
<1>11. Apply(reg, SoftCtrl(i))[\h4a4] = {13}
  BY <1>2, <1>7
<1>12. SoftCtrl(i) = u \o <<mi>> \o t1
  BY <1>2 DEF u
<1>13. Apply(reg, SoftCtrl(i))[\h4a9] = b
  <2> DEFINE x == Apply(reg, s8)[\h4a9]
             y == Apply(reg, u)[\h4a9]
             z == Apply(reg, SoftCtrl(i))[\h4a9]
  <2>1. y = (x \cap {15}) \cup {15} /\ z = (y \cap (0 .. 8)) \cup b
    BY <1>8, <1>10, <1>12
  <2> HIDE DEF x, y, z
  <2>2. z = b
    BY <2>1
  <2> QED
    BY <2>2 DEF z
<1> QED
  BY <1>11, <1>13 DEF b

\* The target is an index of the power table.
LEMMA TargetInTable == ASSUME NEW p PROVE TargetIndex(p) \in 0 .. 127
<1>1. \A n : (IF n \in 0 .. 126 THEN n ELSE 127) \in 0 .. 127
  OBVIOUS
<1>2. FixedIndex \in 0 .. 127
  BY DEF FixedIndex
<1> QED
  BY <1>1, <1>2 DEF TargetIndex

\* The target depends on the temperature and on the edge only.
LEMMA SameTarget ==
  ASSUME NEW p, NEW q, q.temp = p.temp, q.edge = p.edge PROVE TargetIndex(q) = TargetIndex(p)
  BY DEF TargetIndex

\* So is the index that is read back from the hardware.
LEMMA ReadIndexType == ASSUME NEW p \in Phys PROVE ReadIndex(p) \in 0 .. 127
<1>1. p.reg[\h4a9] \cap (0 .. 7) \in SUBSET (0 .. 7)
  OBVIOUS
<1>2. Number(p.reg[\h4a9] \cap (0 .. 7)) \in 0 .. 255
  BY <1>1, NumberOfByte
<1> QED
  BY <1>2 DEF ReadIndex

\* The index that software wrote is the one that is read.
LEMMA IndexReadsBack ==
  ASSUME NEW p, NEW i \in 0 .. 127, p.reg[\h4a9] = Bits(2 * i) PROVE ReadIndex(p) = i
<1>1. PICK n \in 0 .. 255 : n = 2 * i /\ n \div 2 = i
  OBVIOUS
<1>2. ByteBack(n) = n
  BY BitsAndBack
<1>3. p.reg[\h4a9] \cap (0 .. 7) = Bits(n) \cap (0 .. 7)
  BY <1>1
<1> QED
  BY <1>1, <1>2, <1>3 DEF ReadIndex, ByteBack

\* Without a working sensor, hardware control becomes control by temperature.
LEMMA EffectiveModes ==
  ASSUME NEW p \in Phys, NEW mode \in SUBSET ModeBits
  PROVE  /\ EffectiveMode(p, mode) \in SUBSET Word
         /\ EffectiveMode(p, mode) # TempBased => EffectiveMode(p, mode) = mode
         /\ EffectiveMode(p, mode) = TempBased <=> mode = Hw /\ ~p.hw
         /\ EffectiveMode(p, mode) = Hw <=> mode = Hw /\ p.hw
<1>1. p.hw \in BOOLEAN
  BY DEF Phys
<1>2. mode # TempBased /\ Hw # TempBased
  <2>1. 0 \in TempBased /\ 0 \notin ModeBits
    BY DEF TempBased, ModeBits
  <2> QED
    BY <2>1 DEF Hw
<1>3. mode \in SUBSET Word /\ TempBased \in SUBSET Word
  BY DEF Word, TempBased, ModeBits
<1> QED
  BY <1>1, <1>2, <1>3 DEF EffectiveMode

\* The mode is a set of mode bits.
LEMMA ModeIs == ASSUME NEW p \in Phys PROVE Mode(p) \in SUBSET ModeBits
  BY DEF Mode

\* What set_tx_pwr_ctrl() leaves, by the modes it finds and gets.
LEMMA SetTxPwrCtrlIs ==
  ASSUME NEW p \in Phys, NEW mode \in SUBSET ModeBits, NEW q, q = SetTxPwrCtrl(p, mode)
  PROVE  /\ Keeps(p, q) /\ q.coef = p.coef /\ SameIn(Tones, p, q)
         /\ EffectiveMode(p, Mode(p)) = EffectiveMode(p, mode) =>
              Mode(q) = Mode(p) /\ q.current = p.current
         /\ p.hw /\ mode = Hw => Mode(q) = Hw
         /\ EffectiveMode(p, Mode(p)) # EffectiveMode(p, mode) /\ mode = Hw /\ ~p.hw =>
              Mode(q) = {13} /\ q.current = TargetIndex(p)
         /\ EffectiveMode(p, Mode(p)) # EffectiveMode(p, mode) /\ mode # Hw =>
              Mode(q) = Mode(p) \cup mode
         /\ mode # Hw => q.current = p.current
<1> DEFINE old == EffectiveMode(p, Mode(p))
           new == EffectiveMode(p, mode)
           clocks == <<Mod(\h6da, {6}, If(new = Hw, {6})), Mod(\h6a3, {4}, If(new # Hw, {4}))>>
           before == IF new = Hw THEN HandOver(p) ELSE TxGainOverride(TRUE)
           write == Mod(\h4a4, ModeBits, new)
           after == IF new = TempBased THEN SoftCtrl(TargetIndex(p)) ELSE <<>>
           switch == before \o <<write>> \o after
           prog == clocks \o (IF old = new THEN <<>> ELSE switch)
           ran == Run(p, prog)
<1>1. q = IF old # new /\ new = TempBased THEN [ran EXCEPT !.current = ReadIndex(ran)] ELSE ran
  BY DEF SetTxPwrCtrl
<1>2. /\ new \in SUBSET Word /\ (new # TempBased => new = mode)
      /\ (new = TempBased <=> mode = Hw /\ ~p.hw) /\ (new = Hw <=> mode = Hw /\ p.hw)
  BY EffectiveModes
<1>3. clocks \in Seq(Elsewhere)
  <2>1. If(new = Hw, {6}) \in SUBSET Word /\ If(new # Hw, {4}) \in SUBSET Word
    BY DEF If, Word
  <2> HIDE DEF new
  <2> QED
    BY <2>1, SMTT(30) DEF Word, Elsewhere, Outside, Instr, Mod, Tones, Power
<1>4. before \in Seq(Outside(Tones)) /\ after \in Seq(Outside(Tones))
  <2>1. HandOver(p) \in Seq(Outside(Tones)) /\ SoftCtrl(TargetIndex(p)) \in Seq(Outside(Tones))
    BY HandsOver, PowerSequences
  <2>2. TxGainOverride(TRUE) \in Seq(Outside(Tones))
    BY Overrides, InstrSeqs
  <2>3. before \in Seq(Outside(Tones))
    <3> HIDE DEF new
    <3> QED
      BY <2>1, <2>2
  <2>4. after \in Seq(Outside(Tones))
    <3> HIDE DEF new
    <3> QED
      BY <2>1
  <2> QED
    BY <2>3, <2>4
<1>5. write \in Outside(Tones) /\ write.addr = \h4a4 /\ write.keep = ModeBits /\ write.set = new
  <2> HIDE DEF new
  <2> QED
    BY <1>2 DEF Word, Outside, Instr, Mod, Tones, ModeBits
<1>6. before \in Seq(Instr) /\ after \in Seq(Instr) /\ write \in Instr /\ clocks \in Seq(Instr)
      /\ clocks \in Seq(Outside(Tones)) /\ clocks \in Seq(Outside(Power))
  <2> HIDE DEF clocks, before, write, after
  <2>1. before \in Seq(Instr) /\ after \in Seq(Instr)
    BY <1>4, ElsewhereIs, SeqSubset
  <2>2. write \in Instr
    BY <1>5, ElsewhereIs
  <2>3. clocks \in Seq(Instr) /\ clocks \in Seq(Outside(Tones)) /\ clocks \in Seq(Outside(Power))
    BY <1>3, InstrSeqs
  <2> QED
    BY <2>1, <2>2, <2>3
<1> HIDE DEF clocks, before, write, after
<1>7. switch \in Seq(Outside(Tones))
  <2>1. <<write>> \in Seq(Outside(Tones))
    BY <1>5
  <2>2. before \o <<write>> \in Seq(Outside(Tones))
    BY <1>4, <2>1, ConcatSeqs
  <2> QED
    BY <1>4, <2>2, ConcatSeqs
<1>8. prog \in Seq(Outside(Tones))
  <2>1. (IF old = new THEN <<>> ELSE switch) \in Seq(Outside(Tones))
    BY <1>7
  <2> HIDE DEF switch
  <2> QED
    BY <1>6, <2>1, ConcatSeqs
<1>9. Plain(p, ran) /\ SameIn(Tones, p, ran) /\ ran.reg = Apply(p.reg, prog)
  <2>1. prog \in Seq(Instr)
    BY <1>8, ElsewhereIs, SeqSubset
  <2> HIDE DEF prog
  <2> QED
    BY <1>8, <2>1, RunOutside, RunIs, Watched
<1> HIDE DEF ran
<1>10. Keeps(p, q) /\ q.coef = p.coef /\ SameIn(Tones, p, q) /\ q.reg = ran.reg
  <2>1. CASE q = ran
    BY <1>9, <2>1, PlainKeeps DEF Plain
  <2>2. CASE q = [ran EXCEPT !.current = ReadIndex(ran)]
    <3>1. ran \in Phys /\ ReadIndex(ran) \in 0 .. 127
      BY <1>9, ReadIndexType DEF Plain
    <3>2. /\ Keeps(ran, q) /\ q.coef = ran.coef
      <4> DEFINE i == ReadIndex(ran)
      <4>1. i \in 0 .. 127 /\ q = [ran EXCEPT !.current = i]
        BY <2>2, <3>1
      <4> HIDE DEF i
      <4> QED
        BY <3>1, <4>1, NewCurrent
    <3>3. q.reg = ran.reg
      BY <2>2, <3>1 DEF Phys
    <3> QED
      BY <1>9, <3>2, <3>3, PlainKeeps, KeepsTwice DEF Plain, SameIn
  <2> QED
    BY <1>1, <2>1, <2>2
<1>11. p.reg \in Files /\ \h4a4 \in Regs /\ \h4a9 \in Regs
  BY Watched, RegsOf DEF Power
<1>12. old = new => Mode(q) = Mode(p) /\ q.current = p.current
  <2>1. SUFFICES ASSUME old = new PROVE Mode(q) = Mode(p) /\ q.current = p.current
    OBVIOUS
  <2>2. q = ran /\ prog = clocks \o <<>>
    BY <1>1, <2>1
  <2>3. <<>> \in Seq(Outside(Power))
    OBVIOUS
  <2>4. prog \in Seq(Outside(Power))
    BY <1>6, <2>2, <2>3, ConcatSeqs
  <2>5. \A a \in Power : Apply(p.reg, prog)[a] = p.reg[a]
    <3> HIDE DEF prog
    <3> QED
      BY <1>11, <2>4, FilesOutside, Watched
  <2> QED
    BY <1>9, <2>2, <2>5 DEF Mode, Power, Plain
<1>13. ASSUME old # new
       PROVE  \E r \in Files :
                /\ r[\h4a4] = p.reg[\h4a4]
                /\ ran.reg = Apply(r, switch)
  <2>1. prog = clocks \o switch /\ switch \in Seq(Instr)
    BY <1>7, <1>13, ElsewhereIs, SeqSubset
  <2> HIDE DEF switch
  <2>2. PICK r \in Files : Apply(p.reg, clocks \o switch) = Apply(r, switch)
                                           /\ \A a \in Power : r[a] = p.reg[a]
    BY <1>6, <1>11, <2>1, FilesStart, Watched
  <2> QED
    BY <1>9, <2>1, <2>2 DEF Power
<1>14. ASSUME old # new, new # TempBased
       PROVE  \E w \in SUBSET Word : /\ q.reg[\h4a4] = (w \cap ModeBits) \cup new
                                     /\ new # Hw => w = p.reg[\h4a4]
  <2>1. PICK r \in Files : r[\h4a4] = p.reg[\h4a4] /\ ran.reg = Apply(r, switch)
    BY <1>13, <1>14
  <2>2. after = <<>>
    BY <1>14 DEF after
  <2>3. after \in Seq(Outside({\h4a4}))
    BY <2>2
  <2>4. /\ Apply(r, switch)[\h4a4] = (Apply(r, before)[\h4a4] \cap ModeBits) \cup new
        /\ Apply(r, before) \in Files
    <3>1. before \in Progs /\ write.addr \in Regs /\ after \in Later(write.addr)
      BY <1>5, <1>6, <1>11, <2>3 DEF Progs, Later
    <3>2. Apply(r, Then(before, write, after))[write.addr]
            = (Apply(r, before)[write.addr] \cap write.keep) \cup write.set
      BY <1>6, <3>1, FilesLast
    <3>3. Apply(r, before) \in Files
      BY <1>6, FilesApply
    <3> QED
      BY <1>5, <3>2, <3>3 DEF Then
  <2>5. new # Hw => Apply(r, before)[\h4a4] = r[\h4a4]
    <3>1. SUFFICES ASSUME new # Hw PROVE Apply(r, before)[\h4a4] = r[\h4a4]
      OBVIOUS
    <3>2. before \in Seq(Outside(Power))
      BY <3>1, Overrides, InstrSeqs DEF before
    <3>3. \A a \in Power : Apply(r, before)[a] = r[a]
      BY <3>2, FilesOutside, Watched
    <3> QED
      BY <3>3 DEF Power
  <2>6. Apply(r, before)[\h4a4] \in SUBSET Word
    BY <1>11, <2>4 DEF Files
  <2> QED
    BY <1>10, <2>1, <2>4, <2>5, <2>6
<1>15. ASSUME old # new, new = TempBased PROVE q.reg[\h4a4] = {13} /\ q.current = TargetIndex(p)
  <2>1. PICK r \in Files : r[\h4a4] = p.reg[\h4a4] /\ ran.reg = Apply(r, switch)
    BY <1>13, <1>15
  <2>2. after = SoftCtrl(TargetIndex(p))
    BY <1>15 DEF after
  <2> DEFINE u == before \o <<write>>
  <2>3. u \in Seq(Instr)
    <3>1. <<write>> \in Seq(Instr)
      BY <1>6
    <3> QED
      BY <1>6, <3>1, ConcatSeqs
  <2>4. Apply(r, u \o after) = Apply(Apply(r, u), after) /\ Apply(r, u) \in Files
    <3> HIDE DEF u
    <3> QED
      BY <1>6, <2>3, ApplyConcat, FilesApply
  <2>5. ran.reg[\h4a4] = {13} /\ ran.reg[\h4a9] = Bits(2 * TargetIndex(p))
    <3> HIDE DEF u
    <3>1. Apply(r, switch) = Apply(Apply(r, u), after)
      BY <2>4 DEF u
    <3> QED
      BY <2>1, <2>2, <2>4, <3>1, SoftCtrlEnds
  <2>6. ReadIndex(ran) = TargetIndex(p)
    BY <2>5, TargetInTable, IndexReadsBack
  <2>7. q.current = ReadIndex(ran)
    <3>1. ran \in Phys /\ ReadIndex(ran) \in 0 .. 127
      BY <1>9, ReadIndexType DEF Plain
    <3> DEFINE i == ReadIndex(ran)
    <3>2. i \in 0 .. 127 /\ q = [ran EXCEPT !.current = i]
      BY <1>1, <1>15, <3>1
    <3> HIDE DEF i
    <3>3. q.current = i
      BY <3>1, <3>2, NewCurrent
    <3> QED
      BY <3>3 DEF i
  <2> QED
    BY <1>10, <2>5, <2>6, <2>7
<1>16. p.hw /\ mode = Hw => Mode(q) = Hw
  <2>1. SUFFICES ASSUME p.hw, mode = Hw PROVE Mode(q) = Hw
    OBVIOUS
  <2>2. new = Hw /\ new # TempBased
    BY <1>2, <2>1
  <2>3. CASE old = new
    <3>1. Mode(p) = Hw
      BY <2>1, <2>2, <2>3, EffectiveModes, ModeIs
    <3> QED
      BY <1>12, <2>3, <3>1
  <2>4. CASE old # new
    <3>1. PICK w \in SUBSET Word : q.reg[\h4a4] = (w \cap ModeBits) \cup new
      BY <1>14, <2>2, <2>4
    <3> QED
      BY <2>2, <3>1 DEF Mode, Hw
  <2> QED
    BY <2>3, <2>4
<1>17. old # new /\ mode = Hw /\ ~p.hw => Mode(q) = {13} /\ q.current = TargetIndex(p)
  BY <1>2, <1>15 DEF Mode, ModeBits
<1>18. old # new /\ mode # Hw => Mode(q) = Mode(p) \cup mode
  <2>1. SUFFICES ASSUME old # new, mode # Hw PROVE Mode(q) = Mode(p) \cup mode
    OBVIOUS
  <2>2. new # TempBased /\ new # Hw /\ new = mode
    BY <1>2, <2>1
  <2>3. q.reg[\h4a4] = (p.reg[\h4a4] \cap ModeBits) \cup mode
    BY <1>14, <2>1, <2>2
  <2> QED
    BY <2>3 DEF Mode
<1>19. mode # Hw => q.current = p.current
  BY <1>1, <1>2, <1>9 DEF Plain
<1> QED
  BY <1>10, <1>12, <1>16, <1>17, <1>18, <1>19

-----------------------------------------------------------------------------
(* Routines that leave tones and power control alone, and the index.       *)

\* Registers change, but no tone's and no power control's.
Still(p, q) == Plain(p, q) /\ SameIn(Tones, p, q) /\ SameIn(Power, p, q)

\* Nothing plays.
Silent(p) == ~SamplesPlay(p) /\ ~IqcalPlays(p)

\* Two such routines make one.
LEMMA StillTwice ==
  ASSUME NEW p, NEW q, NEW r, Still(p, q), Still(q, r) PROVE Still(p, r)
  BY PlainTwice, SameTwice DEF Still

\* A sequence that accesses neither tones nor power is one.
LEMMA StillRun ==
  ASSUME NEW p \in Phys, NEW prog \in Seq(Elsewhere) PROVE Still(p, Run(p, prog))
  BY RunElsewhere DEF Still

\* What follows from it.
LEMMA StillIs ==
  ASSUME NEW p, NEW q, Still(p, q)
  PROVE  /\ p \in Phys /\ q \in Phys /\ Keeps(p, q) /\ Plain(p, q) /\ SameIn(Tones, p, q)
         /\ q.coef = p.coef /\ q.current = p.current /\ q.reg[\h4a4] = p.reg[\h4a4]
  BY PlainKeeps DEF Still, Plain, SameIn, Power

\* Restoring other registers is one.
LEMMA StillRestore ==
  ASSUME NEW p \in Phys, NEW old \in Phys, NEW A, A \cap (Tones \cup Power) = {}
  PROVE  Still(p, Restore(p, old, A))
<1>1. Plain(p, Restore(p, old, A)) /\ SameIn(Tones, p, Restore(p, old, A))
  BY RestoreIs, Watched
<1>2. SameIn(Power, p, Restore(p, old, A))
  BY RestoreIs, Watched
<1> QED
  BY <1>1, <1>2 DEF Still

\* So is setting the gain ...
LEMMA StillGain == ASSUME NEW p \in Phys, NEW g \in Gains PROVE Still(p, SetTxGain(p, g))
  BY SetTxGainIs DEF Still

\* ... the gain of the PA ...
LEMMA StillPaGain ==
  ASSUME NEW p \in Phys, NEW pa \in SUBSET Word PROVE Still(p, SetPaGain(p, pa))
  BY SetPaGainIs DEF Still

\* ... and the baseband multiplier.
LEMMA StillBbmult ==
  ASSUME NEW p \in Phys, NEW b \in Mults
  PROVE  Still(p, [p EXCEPT !.bbmult = b])
  BY NewBbmult DEF Still

\* What routines keep.
LEMMA KeepsIs ==
  ASSUME NEW p, NEW q, Keeps(p, q) PROVE p \in Phys /\ q \in Phys /\ q.hw = p.hw /\ q.coefs = p.coefs
  BY DEF Keeps

\* The mode is in one register.
LEMMA ModeOf == ASSUME NEW p, NEW q, q.reg[\h4a4] = p.reg[\h4a4] PROVE Mode(q) = Mode(p)
  BY DEF Mode

\* Whether something plays is in two.
LEMMA SilentToo ==
  ASSUME NEW p, NEW q, SameIn(Tones, p, q), Silent(p) PROVE Silent(q)
  BY DEF SameIn, Tones, Silent, SamplesPlay, IqcalPlays

\* The mode stays when an index is written, whatever it was.
Indexed(p, q, i) ==
  Keeps(p, q) /\ SameIn(Tones, p, q) /\ Mode(q) = Mode(p) /\ q.current = i

\* set_tx_pwr_by_index() turns the control off and back on: the mode is what it was, and the
\* index is the new one.
LEMMA SetTxPwrByIndexIs ==
  ASSUME NEW p \in Phys, NEW i \in 0 .. 127 PROVE Indexed(p, SetTxPwrByIndex(p, i), i)
<1> DEFINE p1 == [p EXCEPT !.current = i]
           off == SetTxPwrCtrl(p1, Off)
           g1 == SetTxGain(off, GainOf(p, i))
           g2 == SetPaGain(g1, PaOf(p))
           on == TxGainOverride(TRUE)
           set == Run(g2, on)
           c == IF p.hw THEN p.coefs ELSE set.coef
           b == <<"index", i>>
           q == SetTxPwrByIndex(p, i)
<1>1. q = [set EXCEPT !.bbmult = b, !.coef = c]
  BY DEF SetTxPwrByIndex
<1>2. Keeps(p, p1) /\ p1.current = i /\ p1.coef = p.coef /\ p1.reg = p.reg /\ SameIn(Tones, p, p1)
      /\ p1 \in Phys
  <2>1. p1 = [p EXCEPT !.current = i]
    OBVIOUS
  <2> HIDE DEF p1
  <2> QED
    BY <2>1, NewCurrent, KeepsIs
<1> HIDE DEF p1
<1>3. Off \in SUBSET ModeBits /\ Off # Hw
  BY DEF Off, Hw, ModeBits
<1>4. Keeps(p1, off) /\ off.coef = p1.coef /\ SameIn(Tones, p1, off) /\ Mode(off) = Mode(p1)
      /\ off.current = i /\ off \in Phys
  <2>1. /\ Keeps(p1, off) /\ off.coef = p1.coef /\ SameIn(Tones, p1, off)
        /\ off.current = p1.current
    BY <1>2, <1>3, SetTxPwrCtrlIs
  <2>2. CASE EffectiveMode(p1, Mode(p1)) = EffectiveMode(p1, Off)
    <3>1. Mode(off) = Mode(p1)
      BY <1>2, <1>3, <2>2, SetTxPwrCtrlIs
    <3> QED
      BY <2>1, <3>1, <1>2, KeepsIs
  <2>3. CASE EffectiveMode(p1, Mode(p1)) # EffectiveMode(p1, Off)
    <3>1. Mode(off) = Mode(p1) \cup Off
      BY <1>2, <1>3, <2>3, SetTxPwrCtrlIs
    <3> QED
      BY <2>1, <3>1, <1>2, KeepsIs DEF Off
  <2>4. Mode(off) = Mode(p1)
    BY <2>2, <2>3
  <2> QED
    BY <1>2, <2>1, <2>4, KeepsIs
<1> HIDE DEF off
<1>5. Still(off, g1) /\ g1 \in Phys
  <2>1. GainOf(p, i) \in Gains
    BY TheGains
  <2> QED
    BY <1>4, <2>1, StillGain, StillIs
<1> HIDE DEF g1
<1>6. Still(g1, g2) /\ g2 \in Phys
  <2>1. PaOf(p) \in SUBSET Word
    BY TheGains
  <2> QED
    BY <1>5, <2>1, StillPaGain, StillIs
<1> HIDE DEF g2
<1>7. Still(g2, set) /\ set \in Phys
  <2>1. on \in Seq(Elsewhere)
    BY Overrides
  <2> HIDE DEF on
  <2>2. Still(g2, set)
    BY <1>6, <2>1, StillRun
  <2> QED
    BY <2>2, StillIs
<1> HIDE DEF set
<1>8. Still(off, set)
  BY <1>5, <1>6, <1>7, StillTwice
<1>9. /\ Keeps(off, set) /\ SameIn(Tones, off, set) /\ set.coef = off.coef
      /\ set.current = off.current /\ set.reg[\h4a4] = off.reg[\h4a4]
  BY <1>8, StillIs
<1>10. /\ Keeps(p, set) /\ SameIn(Tones, p, set) /\ set.coef = p.coef /\ set.current = i
  BY <1>2, <1>4, <1>9, KeepsTwice, SameTwice
<1>11. Mode(set) = Mode(p)
  BY <1>2, <1>4, <1>9, ModeOf
<1>12. set.hw = p.hw /\ set.coefs = p.coefs /\ c \in Coefs /\ (c = set.coef \/ (set.hw /\ c = set.coefs))
  BY <1>7, <1>10 DEF Keeps, Phys
<1> HIDE DEF q
<1>13. b \in Mults
  BY DEF Mults
<1> HIDE DEF b, c
<1>15. /\ Keeps(set, q) /\ q.current = set.current /\ q.coef = c /\ SameIn(Tones, set, q)
       /\ q.reg = set.reg
  <2>1. set \in Phys /\ c \in Coefs /\ b \in Mults
    BY <1>7, <1>12, <1>13
  <2>2. Brings(set, c)
    BY <1>12 DEF Brings
  <2>3. q = [set EXCEPT !.bbmult = b, !.coef = c]
    BY <1>1
  <2>4. Keeps(set, q)
    BY <2>1, <2>2, <2>3, NewIndex
  <2>5. q.current = set.current /\ q.coef = c /\ q.reg = set.reg
    BY <2>1, <2>3 DEF Phys
  <2>6. SameIn(Tones, set, q)
    BY <2>5 DEF SameIn
  <2> QED
    BY <2>4, <2>5, <2>6
<1>16. Mode(q) = Mode(p)
  BY <1>11, <1>15, ModeOf
<1> QED
  BY <1>10, <1>15, <1>16, KeepsTwice, SameTwice DEF Indexed, q

-----------------------------------------------------------------------------
(* Tones.                                                                  *)

\* Running one sequence after another.
LEMMA RunTwice ==
  ASSUME NEW p \in Phys, NEW s \in Progs, NEW t \in Progs
  PROVE  Run(p, s \o t) = Run(Run(p, s), t)
<1>1. s \in Seq(Instr) /\ t \in Seq(Instr)
  BY DEF Progs
<1>2. Run(p, s).reg = Apply(p.reg, s)
  BY <1>1, RunIs
<1>3. Apply(p.reg, s \o t) = Apply(Apply(p.reg, s), t)
  BY <1>1, ApplyConcat
<1> DEFINE r == Apply(p.reg, s)
           u == Apply(r, t)
<1>4. Run(p, s \o t) = [p EXCEPT !.reg = u]
  BY <1>3 DEF Run
<1>5. Run(p, s) = [p EXCEPT !.reg = r]
  BY DEF Run
<1>6. Run(Run(p, s), t) = [Run(p, s) EXCEPT !.reg = u]
  BY <1>2 DEF Run
<1> HIDE DEF r, u
<1>7. [[p EXCEPT !.reg = r] EXCEPT !.reg = u] = [p EXCEPT !.reg = u]
  BY DEF Phys
<1> QED
  BY <1>4, <1>5, <1>6, <1>7

\* Running one instruction.
LEMMA RunOne ==
  ASSUME NEW p \in Phys, NEW ins \in Instr, NEW q, q = Run(p, <<ins>>)
  PROVE  /\ Plain(p, q)
         /\ \A a \in Regs : q.reg[a] = IF a = ins.addr THEN (p.reg[a] \cap ins.keep) \cup ins.set
                                       ELSE p.reg[a]
<1>1. <<ins>> \in Seq(Instr)
  OBVIOUS
<1> DEFINE prog == <<ins>>
<1>2. Apply(p.reg, prog) = Effect(p.reg, ins)
  BY ApplyOne
<1> HIDE DEF prog
<1>3. Plain(p, q) /\ q.reg = Apply(p.reg, prog)
  BY <1>1, RunIs DEF prog
<1>4. p.reg \in [Regs -> SUBSET Word]
  BY DEF Phys
<1> QED
  BY <1>2, <1>3, <1>4 DEF Effect

\* Sequences of instructions.
LEMMA ProgsAre ==
  ASSUME NEW s \in Seq(Elsewhere) PROVE s \in Progs
  BY InstrSeqs DEF Progs

\* What stop_tx_tone() does: no samples play, and no IQ calibration that did not.
Stopped(p, q) ==
  /\ Plain(p, q) /\ SameIn(Power, p, q)
  /\ ~SamplesPlay(q) /\ q.reg[\h453] \subseteq p.reg[\h453]

\* What comes after the tone has stopped does not start it.
LEMMA StoppedStill ==
  ASSUME NEW p, NEW q, NEW r, Stopped(p, q), Still(q, r) PROVE Stopped(p, r)
<1>1. r.reg[\h453] = q.reg[\h453] /\ r.reg[\h63f] = q.reg[\h63f]
  BY DEF Still, SameIn, Tones
<1> QED
  BY <1>1, PlainTwice, SameTwice DEF Stopped, Still, SamplesPlay

\* stop_tx_tone() stops the samples, or else the tone of the IQ calibration.
LEMMA StopTxToneIs == ASSUME NEW p \in Phys PROVE Stopped(p, StopTxTone(p))
<1> DEFINE rest == <<Mod(\h6d6, {0, 1}, {0}), Mod(\h6da, {3}, {}), Mod(\h6da, {7}, {}),
                     Mod(R(\h112), Word \ {1, 2}, {})>>
           deaf == DeafMode(FALSE)
           ms == Mod(\h63f, {1}, {1})
           mi == Mod(\h453, {15}, {})
           first == IF SamplesPlay(p) THEN TxPuOff \o <<ms>>
                    ELSE IF IqcalPlays(p) THEN <<mi>> ELSE <<>>
<1>1. StopTxTone(p) = Run(p, (first \o rest) \o deaf)
  BY DEF StopTxTone
<1>2. rest \in Seq(Elsewhere)
  BY SMTT(30) DEF Word, Elsewhere, Outside, Instr, Mod, R, Tones, Power
<1>3. deaf \in Seq(Elsewhere) /\ TxPuOff \in Seq(Elsewhere)
  BY Overrides, TxPu
<1>4. /\ ms \in Instr /\ ms.addr = \h63f /\ ms.keep = {1} /\ ms.set = {1}
      /\ mi \in Instr /\ mi.addr = \h453 /\ mi.keep = {15} /\ mi.set = {}
  BY DEF Word, Instr, Mod
<1> HIDE DEF rest, deaf, ms, mi
<1>5. first \in Progs
  <2>1. TxPuOff \o <<ms>> \in Seq(Instr)
    <3>1. TxPuOff \in Seq(Instr) /\ <<ms>> \in Seq(Instr)
      BY <1>3, <1>4, InstrSeqs
    <3> QED
      BY <3>1, ConcatSeqs
  <2>2. <<mi>> \in Seq(Instr) /\ <<>> \in Seq(Instr)
    BY <1>4
  <2> QED
    BY <2>1, <2>2 DEF Progs
<1>6. rest \in Progs /\ deaf \in Progs
  BY <1>2, <1>3, ProgsAre
<1>7. Stopped(p, Run(p, first))
  <2> HIDE DEF first
  <2>0. \h453 \in Regs /\ \h63f \in Regs /\ \h4a4 \in Regs /\ \h4a9 \in Regs
    BY Watched DEF Tones, Power
  <2>1. CASE SamplesPlay(p)
    <3> DEFINE off == Run(p, TxPuOff)
               q == Run(off, <<ms>>)
    <3>1. first = TxPuOff \o <<ms>>
      BY <2>1 DEF first
    <3>2. Still(p, off) /\ off \in Phys
      BY <1>3, StillRun, StillIs
    <3> HIDE DEF off
    <3>3. Plain(off, q) /\ \A a \in Regs : q.reg[a] = IF a = ms.addr THEN (off.reg[a] \cap ms.keep) \cup ms.set
                                                      ELSE off.reg[a]
      BY <1>4, <3>2, RunOne
    <3>4. Run(p, first) = q
      <4>1. <<ms>> \in Progs /\ TxPuOff \in Progs
        BY <1>3, <1>4, ProgsAre DEF Progs
      <4> DEFINE one == <<ms>>
      <4> HIDE DEF one
      <4>2. Run(p, TxPuOff \o one) = Run(Run(p, TxPuOff), one)
        BY <4>1, RunTwice DEF one
      <4> QED
        BY <3>1, <4>2 DEF off, one
    <3> HIDE DEF q
    <3>5. q.reg[\h63f] = (off.reg[\h63f] \cap {1}) \cup {1} /\ q.reg[\h453] = off.reg[\h453]
          /\ q.reg[\h4a4] = off.reg[\h4a4] /\ q.reg[\h4a9] = off.reg[\h4a9]
      BY <1>4, <2>0, <3>3
    <3>6. off.reg[\h453] = p.reg[\h453] /\ off.reg[\h4a4] = p.reg[\h4a4] /\ off.reg[\h4a9] = p.reg[\h4a9]
      BY <3>2 DEF Still, SameIn, Tones, Power
    <3>7. Plain(p, q)
      BY <3>2, <3>3, PlainTwice DEF Still
    <3>8. ~SamplesPlay(q)
      BY <3>5 DEF SamplesPlay
    <3>9. SameIn(Power, p, q) /\ q.reg[\h453] \subseteq p.reg[\h453]
      BY <3>5, <3>6 DEF SameIn, Power
    <3> QED
      BY <3>4, <3>7, <3>8, <3>9 DEF Stopped
  <2>2. CASE ~SamplesPlay(p) /\ IqcalPlays(p)
    <3> DEFINE q == Run(p, <<mi>>)
    <3>1. first = <<mi>>
      BY <2>2 DEF first
    <3>2. Plain(p, q) /\ \A a \in Regs : q.reg[a] = IF a = mi.addr THEN (p.reg[a] \cap mi.keep) \cup mi.set
                                                      ELSE p.reg[a]
      BY <1>4, RunOne
    <3>3. Run(p, first) = q
      BY <3>1
    <3> HIDE DEF q
    <3>4. q.reg[\h63f] = p.reg[\h63f] /\ q.reg[\h453] = (p.reg[\h453] \cap {15}) \cup {}
          /\ q.reg[\h4a4] = p.reg[\h4a4] /\ q.reg[\h4a9] = p.reg[\h4a9]
      BY <1>4, <2>0, <3>2
    <3>5. ~SamplesPlay(q)
      BY <2>2, <3>4 DEF SamplesPlay
    <3>6. SameIn(Power, p, q) /\ q.reg[\h453] \subseteq p.reg[\h453]
      BY <3>4 DEF SameIn, Power
    <3> QED
      BY <3>2, <3>3, <3>5, <3>6 DEF Stopped
  <2>3. CASE ~SamplesPlay(p) /\ ~IqcalPlays(p)
    <3>1. first = <<>>
      BY <2>3 DEF first
    <3>2. <<>> \in Seq(Elsewhere)
      OBVIOUS
    <3>3. Still(p, Run(p, <<>>))
      BY <3>2, StillRun
    <3> DEFINE q == Run(p, <<>>)
    <3> HIDE DEF q
    <3>4. Still(p, q)
      BY <3>3 DEF q
    <3>5. q.reg[\h453] = p.reg[\h453] /\ q.reg[\h63f] = p.reg[\h63f]
      BY <3>4 DEF Still, SameIn, Tones
    <3>6. Stopped(p, q)
      BY <2>3, <3>4, <3>5 DEF Stopped, Still, SamplesPlay
    <3> QED
      BY <3>1, <3>6 DEF q
  <2> QED
    BY <2>1, <2>2, <2>3
<1> HIDE DEF first
<1> DEFINE q1 == Run(p, first)
           q2 == Run(q1, rest)
           q3 == Run(q2, deaf)
<1>8. StopTxTone(p) = q3
  <2>1. first \o rest \in Progs
    <3>1. first \in Seq(Instr) /\ rest \in Seq(Instr)
      BY <1>5, <1>6 DEF Progs
    <3> QED
      BY <3>1, ConcatSeqs DEF Progs
  <2>2. Run(p, (first \o rest) \o deaf) = Run(Run(p, first \o rest), deaf)
    BY <1>6, <2>1, RunTwice
  <2>3. Run(p, first \o rest) = q2
    BY <1>5, <1>6, RunTwice
  <2> QED
    BY <1>1, <2>2, <2>3
<1>9. Stopped(p, q1) /\ q1 \in Phys
  BY <1>7 DEF Stopped, Plain
<1> HIDE DEF q1
<1>10. Stopped(p, q2) /\ q2 \in Phys
  BY <1>2, <1>9, StillRun, StoppedStill, StillIs
<1> HIDE DEF q2
<1>11. Stopped(p, q3)
  BY <1>3, <1>10, StillRun, StoppedStill
<1> QED
  BY <1>8, <1>11

-----------------------------------------------------------------------------
(* The TX calibration.                                                     *)

\* What no routine changes but the ones that say so.
Fixed(p, q) ==
  /\ p \in Phys /\ q \in Phys
  /\ q.hw = p.hw /\ q.fem = p.fem /\ q.temp = p.temp /\ q.edge = p.edge /\ q.chan = p.chan
  /\ q.coefs = p.coefs

\* Routine after routine.
LEMMA FixedTwice ==
  ASSUME NEW p, NEW q, NEW r, Fixed(p, q), Fixed(q, r) PROVE Fixed(p, r)
  BY DEF Fixed

\* The board stays the same.
LEMMA FixedIs ==
  ASSUME NEW p, NEW q, Fixed(p, q) PROVE p \in Phys /\ q \in Phys /\ q.hw = p.hw
  BY DEF Fixed

\* The index's routines are among these ...
LEMMA KeepsFixed == ASSUME NEW p, NEW q, Keeps(p, q) PROVE Fixed(p, q)
  BY DEF Keeps, Fixed

\* ... the ones that touch neither tones nor power too ...
LEMMA StillFixed ==
  ASSUME NEW p, NEW q, Still(p, q)
  PROVE  Fixed(p, q) /\ q.coef = p.coef /\ Mode(q) = Mode(p) /\ SameIn(Tones, p, q)
  BY DEF Still, Plain, Fixed, SameIn, Power, Mode

\* ... and stop_tx_tone().
LEMMA StoppedFixed ==
  ASSUME NEW p, NEW q, Stopped(p, q)
  PROVE  Fixed(p, q) /\ q.coef = p.coef /\ Mode(q) = Mode(p) /\ ~SamplesPlay(q)
  BY DEF Stopped, Plain, Fixed, SameIn, Power, Mode

\* The modes in which the driver controls the power, without the hardware.
Soft == {{13}, Hw}

\* The modes differ.
LEMMA SoftIs == Soft \subseteq SUBSET ModeBits /\ Off \in SUBSET ModeBits /\ Off # Hw /\ {13} # Hw /\ Off # {13}
  BY DEF Soft, Hw, Off, ModeBits

\* Without the hardware, turning the control on leaves software control's bit.
LEMMA ModeAfter ==
  ASSUME NEW p \in Phys, NEW mode \in Soft, ~p.hw, Mode(p) \in {Off, {13}}
  PROVE  Mode(SetTxPwrCtrl(p, mode)) = {13}
<1> DEFINE q == SetTxPwrCtrl(p, mode)
           old == EffectiveMode(p, Mode(p))
           new == EffectiveMode(p, mode)
<1>1. old = Mode(p)
  BY SoftIs DEF EffectiveMode
<1>2. mode \in SUBSET ModeBits
  BY SoftIs
<1>3. /\ old = new => Mode(q) = Mode(p)
      /\ old # new /\ mode = Hw /\ ~p.hw => Mode(q) = {13}
      /\ old # new /\ mode # Hw => Mode(q) = Mode(p) \cup mode
  BY <1>2, SetTxPwrCtrlIs
<1> HIDE DEF q
<1>4. CASE mode = Hw
  <2>1. old # new
    <3>1. new = TempBased
      BY <1>4 DEF EffectiveMode
    <3>2. TempBased # Off /\ TempBased # {13}
      <4>1. 0 \in TempBased
        BY DEF TempBased
      <4> QED
        BY <4>1 DEF Off
    <3> QED
      BY <1>1, <3>1, <3>2
  <2> QED
    BY <1>3, <1>4, <2>1 DEF q
<1>5. CASE mode = {13}
  <2>1. new = {13} /\ mode # Hw
    BY <1>5, SoftIs DEF EffectiveMode
  <2>2. CASE old = new
    BY <1>1, <1>3, <2>1, <2>2 DEF q
  <2>3. CASE old # new
    <3>1. Mode(q) = Mode(p) \cup {13}
      BY <1>3, <1>5, <2>1, <2>3
    <3> QED
      BY <3>1 DEF Off, q
  <2> QED
    BY <2>2, <2>3
<1> QED
  BY <1>4, <1>5 DEF Soft

\* Turning off what is off changes nothing.
LEMMA OffStays ==
  ASSUME NEW p \in Phys, Mode(p) = Off PROVE Mode(SetTxPwrCtrl(p, Off)) = Off
<1>1. EffectiveMode(p, Mode(p)) = EffectiveMode(p, Off)
  OBVIOUS
<1> DEFINE q == SetTxPwrCtrl(p, Off)
<1>2. Mode(q) = Mode(p)
  BY <1>1, SoftIs, SetTxPwrCtrlIs
<1> QED
  BY <1>2

\* The calibration saves and restores neither tones nor power.
LEMMA LoopbackIs == LoopbackRegs \cap (Tones \cup Power) = {}
  BY SMTT(30) DEF LoopbackRegs, Tones, Power, R

\* The tone of the IQ calibration starts with a write of its register.
IqcalToneProg ==
  <<Wr(\h453, Bits(\haa9))>> \o StartTxTone(TRUE) \o <<Wr(\h6da, Word)>>

\* Starting that tone does not touch the power control.
LEMMA IqcalTone == IqcalToneProg \in Seq(Outside(Power))
<1> DEFINE w == Bits(\haa9)
           a == <<Wr(\h453, w)>>
           b == <<Wr(\h6da, Word)>>
           c == StartTxTone(TRUE)
<1>1. IqcalToneProg = (a \o c) \o b
  BY DEF IqcalToneProg
<1>2. w \in SUBSET Word
  BY BitsAreWords
<1> HIDE DEF w
<1>3. a \in Seq(Outside(Power)) /\ b \in Seq(Outside(Power))
  BY <1>2, SMTT(30) DEF Word, Outside, Instr, Wr, Power
<1>4. c \in Seq(Outside(Power))
  BY StartsTone
<1> HIDE DEF a, b, c
<1>5. a \o c \in Seq(Outside(Power))
  BY <1>3, <1>4, ConcatSeqs
<1> QED
  BY <1>1, <1>3, <1>5, ConcatSeqs

\* The calibration's result: new coefficients if the hardware answered, else the old ones.
LEMMA StoreIs ==
  ASSUME NEW p \in Phys, NEW o \in Outcomes
  PROVE  /\ Fixed(p, Store(p, o)) /\ Mode(Store(p, o)) = Mode(p)
         /\ Store(p, o).coef = IF o.wait THEN o.coef ELSE p.coef
<1>1. o.coef \in Coefs
  BY DEF Coefs
<1>2. CASE o.wait
  BY <1>1, <1>2 DEF Store, Fixed, Phys, Mode
<1>3. CASE ~o.wait
  BY <1>3 DEF Store, Fixed
<1> QED
  BY <1>2, <1>3

\* The end of the loopback.
LEMMA CleanupIs ==
  ASSUME NEW p \in Phys, NEW old \in Phys PROVE Still(p, LoopbackCleanup(p, old))
<1> DEFINE a == <<And(\h44c, {}), And(\h43b, {2, 3})>>
           r == Run(p, a)
<1>1. a \in Seq(Elsewhere)
  BY LoopbackSequences
<1> HIDE DEF a
<1>2. Still(p, r) /\ r \in Phys
  BY <1>1, StillRun, StillIs
<1> HIDE DEF r
<1>3. Still(r, Restore(r, old, LoopbackRegs))
  BY <1>2, LoopbackIs, StillRestore
<1>4. LoopbackCleanup(p, old) = Restore(r, old, LoopbackRegs)
  BY DEF LoopbackCleanup, r, a
<1> QED
  BY <1>2, <1>3, <1>4, StillTwice

\* The tone of the IQ calibration is off and the power-control override is back
\* when tx_iqlo_cal() ends.
LEMMA IqcalEnds ==
  ASSUME NEW p \in Phys, NEW old \in Files
  PROVE  /\ Fixed(p, Run(p, IqcalEnd(old))) /\ Mode(Run(p, IqcalEnd(old))) = Mode(p)
         /\ Run(p, IqcalEnd(old)).coef = p.coef
         /\ ~SamplesPlay(p) => Silent(Run(p, IqcalEnd(old)))
<1> DEFINE w == old[\h4db]
           m == Wr(\h4db, w)
           z == Wr(\h453, {})
           a == Run(p, <<m>>)
           q == Run(a, <<z>>)
<1>1. w \in SUBSET Word
  BY DEF Files, Regs
<1>2. IqcalEnd(old) = <<m>> \o <<z>>
  BY DEF IqcalEnd
<1> HIDE DEF w
<1>3. m \in Elsewhere
  BY <1>1 DEF Word, Elsewhere, Outside, Instr, Wr, Tones, Power
<1>4. z \in Instr /\ z.addr = \h453 /\ z.keep = {} /\ z.set = {}
  BY DEF Instr, Wr, Word
<1> HIDE DEF m, z
<1>5. <<m>> \in Seq(Elsewhere)
  BY <1>3
<1>6. <<m>> \in Progs /\ <<z>> \in Progs
  <2>1. <<m>> \in Seq(Instr)
    BY <1>5, InstrSeqs
  <2>2. <<z>> \in Seq(Instr)
    BY <1>4
  <2> QED
    BY <2>1, <2>2 DEF Progs
<1> DEFINE s == <<m>>
           t == <<z>>
<1> HIDE DEF s, t
<1>7. Run(p, IqcalEnd(old)) = Run(Run(p, s), t)
  BY <1>2, <1>6, RunTwice DEF s, t
<1>8. Still(p, a) /\ a \in Phys
  BY <1>5, StillRun, StillIs
<1> HIDE DEF a
<1>9. /\ Plain(a, q)
      /\ \A r \in Regs : q.reg[r] = IF r = z.addr THEN (a.reg[r] \cap z.keep) \cup z.set ELSE a.reg[r]
  BY <1>4, <1>8, RunOne
<1> HIDE DEF q
<1>10. \h453 \in Regs /\ \h63f \in Regs /\ \h4a4 \in Regs
  BY Watched DEF Tones, Power
<1>11. q.reg[\h453] = {} /\ q.reg[\h63f] = a.reg[\h63f] /\ q.reg[\h4a4] = a.reg[\h4a4]
  BY <1>4, <1>9, <1>10
<1>12. a.reg[\h63f] = p.reg[\h63f]
  BY <1>8 DEF Still, SameIn, Tones
<1>13. Fixed(p, a) /\ a.coef = p.coef /\ Mode(a) = Mode(p)
  BY <1>8, StillFixed
<1>14. Fixed(a, q) /\ q.coef = a.coef
  BY <1>9 DEF Plain, Fixed
<1>15. Mode(q) = Mode(a)
  BY <1>11, ModeOf
<1>16. ~SamplesPlay(p) => Silent(q)
  BY <1>11, <1>12 DEF Silent, SamplesPlay, IqcalPlays
<1>17. Run(p, IqcalEnd(old)) = q
  BY <1>7 DEF q, a, s, t
<1> QED
  BY <1>13, <1>14, <1>15, <1>16, <1>17, FixedTwice

\* What the calibration sets first turns the power control off.
LEMMA ClocksIs ==
  ASSUME NEW p \in Phys,
         NEW q, q = Run(p, <<Or(\h6da, {6}), Or(\h6db, {0, 1}), Wr(\h6da, Word), Mod(\h503, {3}, {3}),
                             Mod(\h4a4, {12}, {12})>>)
  PROVE  Fixed(p, q) /\ q.coef = p.coef /\ Mode(q) = Off
<1> DEFINE prog == <<Or(\h6da, {6}), Or(\h6db, {0, 1}), Wr(\h6da, Word), Mod(\h503, {3}, {3}),
                     Mod(\h4a4, {12}, {12})>>
           s == <<Or(\h6da, {6}), Or(\h6db, {0, 1}), Wr(\h6da, Word), Mod(\h503, {3}, {3})>>
           m == Mod(\h4a4, {12}, {12})
           t == <<m>>
           a == Run(p, s)
           r == Run(a, t)
<1>0. q = Run(p, prog)
  OBVIOUS
<1>1. prog = s \o t
  OBVIOUS
<1> HIDE DEF prog
<1>2. s \in Seq(Elsewhere)
  BY SMTT(30) DEF Word, Elsewhere, Outside, Instr, Mod, Wr, Or, Tones, Power
<1>3. m \in Instr /\ m.addr = \h4a4 /\ m.keep = {12} /\ m.set = {12}
  BY DEF Word, Instr, Mod
<1> HIDE DEF s, m
<1>4. s \in Progs /\ t \in Progs
  BY <1>2, <1>3, ProgsAre DEF Progs
<1>5. Still(p, a) /\ a \in Phys
  BY <1>2, StillRun, StillIs
<1> HIDE DEF a
<1>6. /\ Plain(a, r)
      /\ \A x \in Regs : r.reg[x] = IF x = m.addr THEN (a.reg[x] \cap m.keep) \cup m.set ELSE a.reg[x]
  BY <1>3, <1>5, RunOne
<1> HIDE DEF r, t
<1>7. q = r
  <2> HIDE DEF s, t
  <2>1. q = Run(p, s \o t)
    BY <1>0, <1>1
  <2> QED
    BY <2>1, <1>4, RunTwice DEF r, a
<1>8. r.reg[\h4a4] = (a.reg[\h4a4] \cap {12}) \cup {12}
  <2>1. \h4a4 \in Regs
    BY Watched DEF Power
  <2> QED
    BY <1>3, <1>6, <2>1
<1>9. Mode(r) = Off
  <2> DEFINE w == a.reg[\h4a4]
             u == r.reg[\h4a4]
  <2>1. u = (w \cap {12}) \cup {12}
    BY <1>8
  <2> HIDE DEF u, w
  <2>2. u \cap ModeBits = Off
    BY <2>1 DEF ModeBits, Off
  <2> QED
    BY <2>2 DEF Mode, u
<1> QED
  BY <1>5, <1>6, <1>7, <1>9, StillFixed, FixedTwice DEF Plain, Fixed

\* What tx_iqlo_cal() leaves.
Measured(p, q, o) ==
  /\ Fixed(p, q) /\ Silent(q)
  /\ q.coef = IF o.wait THEN o.coef ELSE p.coef
  /\ ~p.hw /\ Mode(p) \in Soft => Mode(q) = {13}

\* tx_iqlo_cal() plays the tone and stops it, and clears the mode on its way; without the
\* hardware's control it ends in software control.
LEMMA TxIqloCalIs ==
  ASSUME NEW p \in Phys, NEW gains \in Gains, NEW o \in Outcomes
  PROVE  Measured(p, TxIqloCal(p, gains, o), o)
<1> DEFINE clocks == Run(p, <<Or(\h6da, {6}), Or(\h6db, {0, 1}), Wr(\h6da, Word), Mod(\h503, {3}, {3}),
                              Mod(\h4a4, {12}, {12})>>)
           off == SetTxPwrCtrl(clocks, Off)
           w == Bits(\h2a6)
           lend == <<Mod(\h4db, 0 .. 9, w), Mod(\h4db, 12 .. 14, {13})>>
           lent == Run(off, lend)
           looped == Run(lent, Loopback)
           gained == SetTxGain(looped, gains)
           tone == IqcalToneProg
           toned == Run(gained, tone)
           stored == Store(toned, o)
           clean == LoopbackCleanup(stored, lent)
           quiet == StopTxTone(clean)
           ended == Run(quiet, IqcalEnd(off.reg))
           back == IF TxGainOverridden(looped) THEN SetTxGain(ended, TxGain(looped)) ELSE ended
           ctrl == SetTxPwrCtrl(back, Mode(p))
           lentRegs == {\h6da, \h6db}
           q == Restore(ctrl, p, lentRegs)
<1>1. TxIqloCal(p, gains, o) = q
  BY DEF TxIqloCal, IqcalToneProg
<1>2. Fixed(p, clocks) /\ clocks.coef = p.coef /\ Mode(clocks) = Off /\ clocks \in Phys
  <2>1. Fixed(p, clocks) /\ clocks.coef = p.coef /\ Mode(clocks) = Off
    BY ClocksIs
  <2> QED
    BY <2>1, FixedIs
<1> HIDE DEF clocks
<1>3. Fixed(p, off) /\ off.coef = p.coef /\ Mode(off) = Off /\ off \in Phys
  <2>1. Keeps(clocks, off) /\ off.coef = clocks.coef
    BY <1>2, SoftIs, SetTxPwrCtrlIs
  <2>2. Mode(off) = Off
    BY <1>2, OffStays
  <2> QED
    BY <1>2, <2>1, <2>2, KeepsFixed, FixedTwice, FixedIs
<1> HIDE DEF off
<1>4. lend \in Seq(Elsewhere)
  <2>1. w \in SUBSET Word
    BY BitsAreWords
  <2> HIDE DEF w
  <2> QED
    BY <2>1, SMTT(30) DEF Word, Elsewhere, Outside, Instr, Mod, Tones, Power
<1> HIDE DEF lend
<1>5. Still(off, lent) /\ lent \in Phys
  BY <1>3, <1>4, StillRun, StillIs
<1> HIDE DEF lent
<1>6. Still(lent, looped) /\ looped \in Phys
  BY <1>5, LoopbackSequences, StillRun, StillIs
<1> HIDE DEF looped
<1>7. Still(looped, gained) /\ gained \in Phys
  BY <1>6, StillGain, StillIs
<1> HIDE DEF gained
<1>8. Still(off, gained)
  BY <1>5, <1>6, <1>7, StillTwice
<1>9. Fixed(p, gained) /\ gained.coef = p.coef /\ Mode(gained) = Off
  BY <1>3, <1>8, StillFixed, FixedTwice
<1>10. Plain(gained, toned) /\ SameIn(Power, gained, toned) /\ toned \in Phys
  <2>1. tone \in Seq(Outside(Power))
    BY IqcalTone
  <2> HIDE DEF tone
  <2> QED
    BY <1>7, <2>1, RunOutside, Watched DEF Plain
<1> HIDE DEF toned
<1>11. Fixed(p, toned) /\ toned.coef = p.coef /\ Mode(toned) = Off
  <2>1. Fixed(gained, toned) /\ toned.coef = gained.coef
    BY <1>10 DEF Plain, Fixed
  <2>2. Mode(toned) = Mode(gained)
    BY <1>10, ModeOf DEF SameIn, Power
  <2> QED
    BY <1>9, <2>1, <2>2, FixedTwice
<1>12. Fixed(p, stored) /\ stored.coef = (IF o.wait THEN o.coef ELSE p.coef) /\ Mode(stored) = Off
       /\ stored \in Phys
  <2>1. Fixed(toned, stored) /\ Mode(stored) = Mode(toned)
        /\ stored.coef = IF o.wait THEN o.coef ELSE toned.coef
    BY <1>10, StoreIs
  <2> HIDE DEF stored
  <2> QED
    BY <1>11, <2>1, FixedTwice, FixedIs
<1> HIDE DEF stored
<1>13. Still(stored, clean) /\ clean \in Phys
  BY <1>5, <1>12, CleanupIs, StillIs
<1> HIDE DEF clean
<1>14. Stopped(clean, quiet) /\ quiet \in Phys
  BY <1>13, StopTxToneIs, StoppedFixed, FixedIs
<1> HIDE DEF quiet
<1>15. /\ Fixed(quiet, ended) /\ Mode(ended) = Mode(quiet) /\ ended.coef = quiet.coef
       /\ Silent(ended)
  <2>1. off.reg \in Files /\ ~SamplesPlay(quiet)
    BY <1>3, <1>14, RegsOf, StoppedFixed
  <2> QED
    BY <1>14, <2>1, IqcalEnds
<1> HIDE DEF ended
<1>16. Fixed(stored, ended) /\ ended.coef = stored.coef /\ Mode(ended) = Mode(stored) /\ ended \in Phys
  BY <1>13, <1>14, <1>15, StillFixed, StoppedFixed, FixedTwice, FixedIs
<1>17. /\ Fixed(ended, back) /\ back.coef = ended.coef /\ Mode(back) = Mode(ended) /\ Silent(back)
       /\ back \in Phys
  <2>1. CASE TxGainOverridden(looped)
    <3>1. TxGain(looped) \in Gains
      BY <1>6, TheGains
    <3>2. Still(ended, back)
      BY <1>16, <2>1, <3>1, StillGain
    <3> QED
      BY <1>15, <3>2, StillFixed, StillIs, SilentToo
  <2>2. CASE ~TxGainOverridden(looped)
    <3>1. back = ended
      BY <2>2
    <3> QED
      BY <1>15, <1>16, <3>1 DEF Fixed
  <2> QED
    BY <2>1, <2>2
<1> HIDE DEF back
<1>18. Fixed(p, back) /\ back.coef = (IF o.wait THEN o.coef ELSE p.coef) /\ Mode(back) = Off
       /\ Silent(back) /\ back \in Phys
  BY <1>12, <1>16, <1>17, FixedTwice
<1>19. Fixed(back, ctrl) /\ ctrl.coef = back.coef /\ Silent(ctrl) /\ ctrl \in Phys
  <2>1. Mode(p) \in SUBSET ModeBits
    BY ModeIs
  <2>2. Keeps(back, ctrl) /\ ctrl.coef = back.coef /\ SameIn(Tones, back, ctrl)
    BY <1>18, <2>1, SetTxPwrCtrlIs
  <2> QED
    BY <1>18, <2>2, KeepsFixed, FixedIs, SilentToo
<1>20. ~p.hw /\ Mode(p) \in Soft => Mode(ctrl) = {13}
  <2>1. SUFFICES ASSUME ~p.hw, Mode(p) \in Soft PROVE Mode(ctrl) = {13}
    OBVIOUS
  <2>2. ~back.hw /\ Mode(back) \in {Off, {13}}
    BY <1>18, <2>1, FixedIs
  <2> QED
    BY <1>18, <2>1, <2>2, ModeAfter
<1> HIDE DEF ctrl
<1>21. Still(ctrl, q)
  <2>1. lentRegs \cap (Tones \cup Power) = {}
    BY DEF Tones, Power
  <2> HIDE DEF lentRegs
  <2> QED
    BY <1>19, <2>1, StillRestore
<1> HIDE DEF q
<1>22. Fixed(p, q) /\ Silent(q) /\ q.coef = (IF o.wait THEN o.coef ELSE p.coef) /\ Mode(q) = Mode(ctrl)
  BY <1>18, <1>19, <1>21, StillFixed, SilentToo, FixedTwice
<1> QED
  BY <1>1, <1>20, <1>22 DEF Measured

-----------------------------------------------------------------------------
(* Routines that may be composed.                                          *)

\* Nothing starts to play.
Quieter(p, q) == (Silent(p) => Silent(q)) /\ (~SamplesPlay(p) => ~SamplesPlay(q))

\* And the coefficients are kept.
Loose(p, q) == Keeps(p, q) /\ Quieter(p, q)

\* Routines that do not touch the tones.
LEMMA QuieterToo == ASSUME NEW p, NEW q, SameIn(Tones, p, q) PROVE Quieter(p, q)
  BY DEF SameIn, Tones, Quieter, Silent, SamplesPlay, IqcalPlays

\* And the power control keeps its mode.
Tame(p, q) == Loose(p, q) /\ Mode(q) = Mode(p)

\* Loose routines compose ...
LEMMA LooseTwice ==
  ASSUME NEW p, NEW q, NEW r, Loose(p, q), Loose(q, r) PROVE Loose(p, r)
  BY KeepsTwice DEF Loose, Quieter

\* ... and tame ones do.
LEMMA TameTwice ==
  ASSUME NEW p, NEW q, NEW r, Tame(p, q), Tame(q, r) PROVE Tame(p, r)
  BY LooseTwice DEF Tame

\* What a loose routine keeps.
LEMMA LooseIs ==
  ASSUME NEW p, NEW q, Loose(p, q)
  PROVE  p \in Phys /\ q \in Phys /\ q.hw = p.hw /\ q.coefs = p.coefs /\ Keeps(p, q) /\ Fixed(p, q)
  BY KeepsIs, KeepsFixed DEF Loose

\* What a tame one keeps.
LEMMA TameIs ==
  ASSUME NEW p, NEW q, Tame(p, q)
  PROVE  /\ p \in Phys /\ q \in Phys /\ q.hw = p.hw /\ Loose(p, q) /\ Mode(q) = Mode(p)
         /\ Fixed(p, q)
  BY LooseIs DEF Tame

\* Routines that leave tones and power alone are tame.
LEMMA TameStill == ASSUME NEW p, NEW q, Still(p, q) PROVE Tame(p, q)
  BY StillIs, StillFixed, QuieterToo DEF Tame, Loose

\* A sequence of accesses is tame ...
LEMMA TameRun == ASSUME NEW p \in Phys, NEW s \in Seq(Elsewhere) PROVE Tame(p, Run(p, s))
  BY StillRun, TameStill

\* ... and a gain ...
LEMMA TameGain == ASSUME NEW p \in Phys, NEW g \in Gains PROVE Tame(p, SetTxGain(p, g))
  BY StillGain, TameStill

\* ... and the gain of the PA.
LEMMA TamePaGain == ASSUME NEW p \in Phys, NEW pa \in SUBSET Word PROVE Tame(p, SetPaGain(p, pa))
  BY StillPaGain, TameStill

\* So is an index, which brings the mode back.
LEMMA TameIndex ==
  ASSUME NEW p \in Phys, NEW i \in 0 .. 127 PROVE Tame(p, SetTxPwrByIndex(p, i))
<1> DEFINE q == SetTxPwrByIndex(p, i)
<1>1. Keeps(p, q) /\ SameIn(Tones, p, q) /\ Mode(q) = Mode(p)
  BY SetTxPwrByIndexIs DEF Indexed
<1> HIDE DEF q
<1>2. Tame(p, q)
  BY <1>1, QuieterToo DEF Tame, Loose
<1> QED
  BY <1>2 DEF q

\* Changing the mode is loose.
LEMMA LooseCtrl ==
  ASSUME NEW p \in Phys, NEW mode \in SUBSET ModeBits
  PROVE  Loose(p, SetTxPwrCtrl(p, mode)) /\ SetTxPwrCtrl(p, mode).coef = p.coef
<1> DEFINE q == SetTxPwrCtrl(p, mode)
<1>1. Keeps(p, q) /\ SameIn(Tones, p, q) /\ q.coef = p.coef
  BY SetTxPwrCtrlIs
<1> HIDE DEF q
<1>2. Loose(p, q)
  BY <1>1, QuieterToo DEF Loose
<1> QED
  BY <1>1, <1>2 DEF q

\* Turning the power control off leaves the mode's bits: the write keeps them.
LEMMA TameOff == ASSUME NEW p \in Phys PROVE Tame(p, SetTxPwrCtrl(p, Off))
<1> DEFINE q == SetTxPwrCtrl(p, Off)
           old == EffectiveMode(p, Mode(p))
           new == EffectiveMode(p, Off)
<1>1. Loose(p, q)
  BY SoftIs, LooseCtrl
<1>2. old = new => Mode(q) = Mode(p)
  BY SoftIs, SetTxPwrCtrlIs
<1>3. old # new => Mode(q) = Mode(p) \cup Off
  BY SoftIs, SetTxPwrCtrlIs
<1> HIDE DEF q, old, new
<1>4. Mode(q) = Mode(p)
  BY <1>2, <1>3 DEF Off
<1>5. Tame(p, q)
  BY <1>1, <1>4 DEF Tame
<1> QED
  BY <1>5 DEF q

\* Restoring registers of the power control is loose ...
LEMMA LooseRestore ==
  ASSUME NEW p \in Phys, NEW old \in Phys, NEW A, A \cap Tones = {}
  PROVE  Loose(p, Restore(p, old, A))
<1> DEFINE q == Restore(p, old, A)
<1>1. Plain(p, q) /\ SameIn(Tones, p, q)
  BY RestoreIs, Watched
<1> HIDE DEF q
<1>2. Loose(p, q)
  BY <1>1, PlainKeeps, QuieterToo DEF Loose
<1> QED
  BY <1>2 DEF q

\* ... and restoring others is tame.
LEMMA TameRestore ==
  ASSUME NEW p \in Phys, NEW old \in Phys, NEW A, A \cap (Tones \cup Power) = {}
  PROVE  Tame(p, Restore(p, old, A))
  BY StillRestore, TameStill

\* A sequence that accesses no tone is loose.
LEMMA LooseRun ==
  ASSUME NEW p \in Phys, NEW s \in Seq(Outside(Tones)) PROVE Loose(p, Run(p, s))
<1> DEFINE q == Run(p, s)
<1>1. Plain(p, q) /\ SameIn(Tones, p, q)
  BY RunOutside, Watched
<1> HIDE DEF q
<1>2. Loose(p, q)
  BY <1>1, PlainKeeps, QuieterToo DEF Loose
<1> QED
  BY <1>2 DEF q

\* What the hardware does not do, nothing does: without it the coefficients stay.
LEMMA CoefStays ==
  ASSUME NEW p, NEW q, Keeps(p, q)
  PROVE  /\ ~p.hw => q.coef = p.coef
         /\ p.coef = p.coefs => q.coef = q.coefs
  BY DEF Keeps

-----------------------------------------------------------------------------
(* The calibration of the power table.                                     *)

Board(p, q) ==
  /\ p \in Phys /\ q \in Phys
  /\ q.hw = p.hw /\ q.fem = p.fem /\ q.temp = p.temp /\ q.edge = p.edge /\ q.chan = p.chan

\* Routine after routine.
LEMMA BoardTwice ==
  ASSUME NEW p, NEW q, NEW r, Board(p, q), Board(q, r) PROVE Board(p, r)
  BY DEF Board

\* A routine of the calibrations leaves the board alone.
LEMMA FixedBoard == ASSUME NEW p, NEW q, Fixed(p, q) PROVE Board(p, q)
  BY DEF Fixed, Board

\* What txpwrtbl_iqlo_cal() leaves.
Tabled(p, q, o) ==
  /\ Board(p, q) /\ Silent(q)
  /\ q.coef = q.coefs
  /\ ~p.hw /\ ~o.wait => q.coef = p.coef
  /\ ~p.hw /\ Mode(p) \in Soft => Mode(q) = {13}

\* What follows from it.
LEMMA MeasuredIs ==
  ASSUME NEW p, NEW q, NEW o, Measured(p, q, o)
  PROVE  /\ Fixed(p, q) /\ p \in Phys /\ q \in Phys /\ q.hw = p.hw /\ Silent(q)
         /\ ~o.wait => q.coef = p.coef
         /\ ~p.hw /\ Mode(p) \in Soft => Mode(q) = {13}
  BY FixedIs DEF Measured

Copied(p, q) ==
  /\ Board(p, q) /\ q.coef = p.coef /\ q.coefs = p.coef /\ Mode(q) = Mode(p)
  /\ Silent(p) => Silent(q)

\* Copying the coefficients to the table makes table and use agree.
LEMMA CopyIs ==
  ASSUME NEW p \in Phys, NEW b \in Mults PROVE Copied(p, [CopyCoefs(p) EXCEPT !.bbmult = b])
<1> DEFINE c == CopyCoefs(p)
           q == [c EXCEPT !.bbmult = b]
<1>1. /\ c \in Phys /\ c.reg = p.reg /\ c.coef = p.coef /\ c.coefs = p.coef
      /\ c.hw = p.hw /\ c.fem = p.fem /\ c.temp = p.temp /\ c.edge = p.edge /\ c.chan = p.chan
  BY DEF CopyCoefs, Phys
<1> HIDE DEF c
<1>2. /\ q \in Phys /\ q.reg = c.reg /\ q.coef = c.coef /\ q.coefs = c.coefs
      /\ q.hw = c.hw /\ q.fem = c.fem /\ q.temp = c.temp /\ q.edge = c.edge /\ q.chan = c.chan
  BY <1>1 DEF Phys
<1> HIDE DEF q
<1>3. q.reg = p.reg
  BY <1>1, <1>2
<1>4. Mode(q) = Mode(p) /\ (Silent(p) => Silent(q))
  BY <1>3 DEF Mode, Silent, SamplesPlay, IqcalPlays
<1>5. Copied(p, q)
  BY <1>1, <1>2, <1>4 DEF Copied, Board
<1> QED
  BY <1>5 DEF q, c

\* Both calibrations of txpwrtbl_iqlo_cal() end silent, and the table holds what is in use.
LEMMA TxPwrTblIqloCalIs ==
  ASSUME NEW p \in Phys, NEW o \in Outcomes PROVE Tabled(p, TxPwrTblIqloCal(p, o), o)
<1> DEFINE off == SetTxPwrCtrl(p, Off)
           gained == SetTxGain(off, CalGain(21))
           set == SetTxPwrByIndex(gained, 30)
           once == TxIqloCal(set, CalGain(21), o)
           low == SetTxPwrByIndex(once, 16)
           twice == IF o.again THEN TxIqloCal(low, CalGain(30), o) ELSE once
           kept == [CopyCoefs(twice) EXCEPT !.bbmult = p.bbmult]
           pa == SetPaGain(kept, PaGain(p))
           gain == SetTxGain(pa, TxGain(p))
           q == IF Mode(p) # Off THEN SetTxPwrCtrl(gain, Mode(p)) ELSE SetTxPwrByIndex(gain, p.current)
           g21 == CalGain(21)
           g30 == CalGain(30)
<1>1. TxPwrTblIqloCal(p, o) = q
  BY DEF TxPwrTblIqloCal
<1>2. g21 \in Gains /\ g30 \in Gains
  BY TheGains
<1> HIDE DEF g21, g30
<1>3. Tame(p, off) /\ off \in Phys
  BY TameOff, TameIs
<1> HIDE DEF off
<1>4. Tame(off, gained) /\ gained \in Phys
  BY <1>2, <1>3, TameGain, TameIs DEF g21
<1> HIDE DEF gained
<1>5. Tame(gained, set) /\ set \in Phys
  BY <1>4, TameIndex, TameIs
<1> HIDE DEF set
<1>6. Tame(p, set)
  BY <1>3, <1>4, <1>5, TameTwice
<1>7. Measured(set, once, o) /\ once \in Phys
  BY <1>2, <1>5, TxIqloCalIs, MeasuredIs DEF g21
<1> HIDE DEF once
<1>8. /\ Fixed(p, once) /\ once.hw = p.hw /\ Silent(once)
      /\ ~p.hw /\ ~o.wait => once.coef = p.coef
      /\ ~p.hw /\ Mode(p) \in Soft => Mode(once) = {13}
  <2>1. set.hw = p.hw /\ Mode(set) = Mode(p) /\ Fixed(p, set) /\ (~p.hw => set.coef = p.coef)
    BY <1>6, TameIs, CoefStays DEF Loose
  <2> QED
    BY <1>7, <2>1, MeasuredIs, FixedTwice
<1>9. Tame(once, low) /\ low \in Phys
  BY <1>7, TameIndex, TameIs
<1> HIDE DEF low
<1>10. /\ Fixed(p, twice) /\ twice.hw = p.hw /\ Silent(twice) /\ twice \in Phys
       /\ ~p.hw /\ ~o.wait => twice.coef = p.coef
       /\ ~p.hw /\ Mode(p) \in Soft => Mode(twice) = {13}
  <2>1. CASE o.again
    <3>1. Measured(low, twice, o)
      BY <1>2, <1>9, <2>1, TxIqloCalIs DEF g30
    <3> HIDE DEF twice
    <3>2. low.hw = once.hw /\ Mode(low) = Mode(once) /\ Fixed(once, low) /\ (~once.hw => low.coef = once.coef)
      BY <1>9, TameIs, CoefStays DEF Loose
    <3>3. {13} \in Soft
      BY DEF Soft
    <3> QED
      BY <1>8, <3>1, <3>2, <3>3, MeasuredIs, FixedTwice
  <2>2. CASE ~o.again
    BY <1>7, <1>8, <2>2
  <2> QED
    BY <2>1, <2>2
<1> HIDE DEF twice
<1>11. /\ Board(twice, kept) /\ kept.coef = twice.coef /\ kept.coefs = twice.coef
       /\ Mode(kept) = Mode(twice) /\ Silent(kept) /\ kept \in Phys
  <2>1. p.bbmult \in Mults
    BY DEF Phys
  <2>2. Copied(twice, kept)
    BY <1>10, <2>1, CopyIs
  <2> HIDE DEF kept
  <2> QED
    BY <1>10, <2>2 DEF Copied, Board
<1> HIDE DEF kept
<1>12. Tame(kept, pa) /\ pa \in Phys
  BY <1>11, TheGains, TamePaGain, TameIs
<1> HIDE DEF pa
<1>13. Tame(pa, gain) /\ gain \in Phys
  BY <1>12, TheGains, TameGain, TameIs
<1> HIDE DEF gain
<1>14. Tame(kept, gain)
  BY <1>12, <1>13, TameTwice
<1>15. Loose(gain, q)
  <2>1. CASE Mode(p) # Off
    <3>1. q = SetTxPwrCtrl(gain, Mode(p)) /\ Mode(p) \in SUBSET ModeBits
      BY <2>1, ModeIs
    <3> HIDE DEF q
    <3> QED
      BY <1>13, <3>1, LooseCtrl
  <2>2. CASE Mode(p) = Off
    <3>1. q = SetTxPwrByIndex(gain, p.current) /\ p.current \in 0 .. 127
      BY <2>2 DEF Phys
    <3> HIDE DEF q
    <3> QED
      BY <1>13, <3>1, TameIndex, TameIs
  <2> QED
    BY <2>1, <2>2
<1>16. ~p.hw /\ Mode(p) \in Soft => Mode(q) = {13}
  <2>1. SUFFICES ASSUME ~p.hw, Mode(p) \in Soft PROVE Mode(q) = {13}
    OBVIOUS
  <2>2. Mode(p) # Off
    <3>1. {13} # Off /\ Hw # Off
      BY SoftIs
    <3> QED
      BY <2>1, <3>1 DEF Soft
  <2>3. Mode(gain) = {13} /\ gain.hw = p.hw
    BY <1>10, <1>11, <1>14, <2>1, TameIs DEF Board
  <2>4. Mode(SetTxPwrCtrl(gain, Mode(p))) = {13}
    BY <1>13, <2>1, <2>3, ModeAfter
  <2> QED
    BY <2>2, <2>4
<1> HIDE DEF q
<1>17. Loose(kept, q)
  BY <1>14, <1>15, TameIs, LooseTwice
<1>18. Board(p, q)
  BY <1>10, <1>11, <1>17, LooseIs, FixedBoard, BoardTwice
<1>19. Silent(q)
  BY <1>11, <1>17 DEF Loose, Quieter
<1>20. q.coef = q.coefs /\ (~kept.hw => q.coef = kept.coef)
  BY <1>11, <1>17, CoefStays DEF Loose
<1>21. kept.hw = p.hw
  BY <1>10, <1>11 DEF Board
<1> QED
  BY <1>1, <1>10, <1>11, <1>16, <1>18, <1>19, <1>20, <1>21 DEF Tabled

-----------------------------------------------------------------------------
(* The RX calibration.                                                     *)

\* The RX calibration saves and restores neither tones nor power.
LEMMA RxRegsAre ==
  RxPhyRegs \cap (Tones \cup Power) = {} /\ RxRfRegs \cap (Tones \cup Power) = {}
<1>1. RxPhyRegs \cap (Tones \cup Power) = {}
  BY SMTT(30) DEF RxPhyRegs, Tones, Power
<1>2. RxRfRegs \cap (Tones \cup Power) = {}
  BY SMTT(30) DEF RxRfRegs, Tones, Power, R
<1> QED
  BY <1>1, <1>2

\* The search plays samples, and stop_tx_tone() stops them; the tone of the IQ
\* calibration stays off.
LEMMA TameSearch ==
  ASSUME NEW p \in Phys, NEW search PROVE Tame(p, StopTxTone(Run(p, RxSearch(search))))
<1> DEFINE A == {\h453} \cup Power
           prog == RxSearch(search)
           q == Run(p, prog)
           r == StopTxTone(q)
<1>1. A \subseteq Regs
  BY Watched DEF Tones
<1>2. prog \in Seq(Outside(A))
  BY SearchSequences DEF Sampled
<1> HIDE DEF A, prog
<1>3. Plain(p, q) /\ SameIn(A, p, q) /\ q \in Phys
  BY <1>1, <1>2, RunOutside DEF Plain
<1> HIDE DEF q
<1>4. Stopped(q, r)
  BY <1>3, StopTxToneIs
<1> HIDE DEF r
<1>5. Plain(p, r)
  BY <1>3, <1>4, PlainTwice DEF Stopped
<1>6. /\ r.reg[\h453] \subseteq p.reg[\h453] /\ r.reg[\h4a4] = p.reg[\h4a4]
      /\ ~SamplesPlay(r)
  BY <1>3, <1>4 DEF Stopped, SameIn, A, Power
<1>7. Silent(p) => Silent(r)
  BY <1>6 DEF Silent, IqcalPlays
<1>8. Tame(p, r)
  BY <1>5, <1>6, <1>7, PlainKeeps, ModeOf DEF Tame, Loose, Quieter
<1> QED
  BY <1>8 DEF r, q, prog

\* What rx_iq_cal() writes back.
RxBack(v, w) ==
  <<Wr(\h631, v), Wr(\h44c, w)>> \o TrswOverride(FALSE, FALSE) \o <<Mod(\h44c, {2}, {})>>

\* It accesses neither tones nor power.
LEMMA TrswSequence ==
  ASSUME NEW v \in SUBSET Word, NEW w \in SUBSET Word PROVE RxBack(v, w) \in Seq(Elsewhere)
<1> DEFINE a == <<Wr(\h631, v), Wr(\h44c, w)>>
           b == TrswOverride(FALSE, FALSE)
           c == <<Mod(\h44c, {2}, {})>>
<1>0. RxBack(v, w) = (a \o b) \o c
  BY DEF RxBack
<1>1. a \in Seq(Elsewhere) /\ c \in Seq(Elsewhere)
  BY SMTT(30) DEF Word, Elsewhere, Outside, Instr, Mod, Wr, Tones, Power
<1>2. b \in Seq(Elsewhere)
  BY Overrides
<1> HIDE DEF a, b, c
<1>3. a \o b \in Seq(Elsewhere)
  BY <1>1, <1>2, ConcatSeqs
<1>4. (a \o b) \o c \in Seq(Elsewhere)
  BY <1>1, <1>3, ConcatSeqs
<1> QED
  BY <1>0, <1>4

\* rx_iq_cal() is tame: its samples have stopped on every way out of the search.
LEMMA RxIqCalIs ==
  ASSUME NEW p \in Phys, NEW o \in Outcomes
  PROVE  /\ Loose(p, RxIqCal(p, o))
         /\ ~p.hw /\ Mode(p) = {13} => Mode(RxIqCal(p, o)) = {13}
<1> DEFINE off0 == SetTxPwrCtrl(p, Off)
           lend == <<Or(\h631, {0, 2, 4})>>
           off == Run(off0, lend)
           set0 == SetTxPwrByIndex(off, 40)
           set == Run(set0, RxIqCalSetup)
           quiet == StopTxTone(Run(set, RxSearch(o.search)))
           rest == Restore(quiet, off, RxPhyRegs)
           v == p.reg[\h631]
           w == off.reg[\h44d]
           prog == RxBack(v, w)
           back == Run(rest, prog)
           radio == Restore(back, off, RxRfRegs)
           free == TxGainOverride(FALSE)
           gained == IF TxGainOverridden(off) THEN SetTxPwrByIndex(radio, off.current)
                     ELSE Run(radio, free)
           ctrl == SetTxPwrCtrl(gained, Mode(p))
           done == RxGainOverride(FALSE)
           q == Run(ctrl, done)
<1>1. RxIqCal(p, o) = q
  BY DEF RxIqCal, RxBack
<1>2. lend \in Seq(Elsewhere)
  BY SMTT(30) DEF Word, Elsewhere, Outside, Instr, Mod, Or, Tones, Power
<1>3. free \in Seq(Elsewhere) /\ done \in Seq(Elsewhere)
  BY Overrides
<1> HIDE DEF lend, free, done
<1>4. Tame(p, off0) /\ off0 \in Phys
  BY TameOff, TameIs
<1> HIDE DEF off0
<1>5. Tame(off0, off) /\ off \in Phys
  BY <1>2, <1>4, TameRun, TameIs
<1> HIDE DEF off
<1>6. Tame(off, set0) /\ set0 \in Phys
  BY <1>5, TameIndex, TameIs
<1> HIDE DEF set0
<1>7. Tame(set0, set) /\ set \in Phys
  BY <1>6, RxSetups, TameRun, TameIs
<1> HIDE DEF set
<1>8. Tame(set, quiet) /\ quiet \in Phys
  BY <1>7, TameSearch, TameIs
<1> HIDE DEF quiet
<1>9. Tame(quiet, rest) /\ rest \in Phys
  BY <1>5, <1>8, RxRegsAre, TameRestore, TameIs
<1> HIDE DEF rest
<1>10. prog \in Seq(Elsewhere)
  <2>1. v \in SUBSET Word /\ w \in SUBSET Word
    <3>1. \h631 \in Regs /\ \h44d \in Regs
      BY DEF Regs
    <3> QED
      BY <1>5, <3>1, Words
  <2> HIDE DEF v, w
  <2> QED
    BY <2>1, TrswSequence
<1> HIDE DEF prog
<1>11. Tame(rest, back) /\ back \in Phys
  BY <1>9, <1>10, TameRun, TameIs
<1> HIDE DEF back
<1>12. Tame(back, radio) /\ radio \in Phys
  BY <1>5, <1>11, RxRegsAre, TameRestore, TameIs
<1> HIDE DEF radio
<1>13. Tame(radio, gained) /\ gained \in Phys
  <2>1. CASE TxGainOverridden(off)
    <3>1. gained = SetTxPwrByIndex(radio, off.current) /\ off.current \in 0 .. 127
      BY <1>5, <2>1 DEF Phys
    <3> HIDE DEF gained
    <3> QED
      BY <1>12, <3>1, TameIndex, TameIs
  <2>2. CASE ~TxGainOverridden(off)
    <3>1. gained = Run(radio, free)
      BY <2>2
    <3> HIDE DEF gained
    <3> QED
      BY <1>3, <1>12, <3>1, TameRun, TameIs
  <2> QED
    BY <2>1, <2>2
<1> HIDE DEF gained
<1>14. Tame(p, gained)
  <2>1. Tame(p, set)
    BY <1>4, <1>5, <1>6, <1>7, TameTwice
  <2>2. Tame(set, back)
    BY <1>8, <1>9, <1>11, TameTwice
  <2>3. Tame(back, gained)
    BY <1>12, <1>13, TameTwice
  <2> QED
    BY <2>1, <2>2, <2>3, TameTwice
<1>15. Loose(gained, ctrl) /\ ctrl \in Phys
  BY <1>13, ModeIs, LooseCtrl, LooseIs
<1>16. ~p.hw /\ Mode(p) = {13} => Mode(ctrl) = {13}
  <2>1. SUFFICES ASSUME ~p.hw, Mode(p) = {13} PROVE Mode(ctrl) = {13}
    OBVIOUS
  <2>2. ~gained.hw /\ Mode(gained) \in {Off, {13}}
    BY <1>14, <2>1, TameIs
  <2>3. Mode(p) \in Soft
    BY <2>1 DEF Soft
  <2> QED
    BY <1>13, <2>1, <2>2, <2>3, ModeAfter
<1> HIDE DEF ctrl
<1>17. Tame(ctrl, q)
  BY <1>3, <1>15, TameRun
<1> HIDE DEF q
<1>18. Loose(p, q) /\ Mode(q) = Mode(ctrl)
  BY <1>14, <1>15, <1>17, TameIs, LooseTwice
<1> QED
  BY <1>1, <1>16, <1>18

-----------------------------------------------------------------------------
(* The senses.                                                             *)

\* Writing back the multiplier.
LEMMA BackToBbmult ==
  ASSUME NEW p \in Phys, NEW b \in Mults PROVE Tame(p, [p EXCEPT !.bbmult = b])
  BY StillBbmult, TameStill

\* idle_tssi_est() plays nothing; it may change the mode.
LEMMA IdleTssiEstIs == ASSUME NEW p \in Phys PROVE Loose(p, IdleTssiEst(p))
<1> DEFINE off == SetTxPwrCtrl(p, Off)
           on == TxGainOverride(TRUE)
           run == Run(off, on)
           quiet == SetTxPwrByIndex(run, 127)
           a == <<Wr(R(\h112), {1, 2}), Mod(R(\h007), {0}, {0}), Mod(R(\h0ff), {4}, {4}),
                  Mod(R(\h11f), {2}, {2})>>
           b == TssiSetup(p.fem)
           c == <<Mod(\h4d7, {0}, {0}), Mod(\h4d7, {6}, {6}), Mod(\h4a6, 0 .. 8, {}),
                  Mod(\h44c, {12}, {})>>
           d == TxGainOverride(TxGainOverridden(off))
           sensed == Run(quiet, ((a \o b) \o c) \o d)
           same == [sensed EXCEPT !.bbmult = p.bbmult]
           gained == SetTxGain(same, TxGain(off))
           ctrl == SetTxPwrCtrl(gained, Mode(p))
           v == p.reg[R(\h112)]
           v1 == p.reg[R(\h007)] \cap {0}
           v2 == p.reg[R(\h0ff)] \cap {4}
           v3 == p.reg[R(\h11f)] \cap {2}
           e == <<Wr(R(\h112), v), Mod(R(\h007), {0}, v1), Mod(R(\h0ff), {4}, v2),
                  Mod(R(\h11f), {2}, v3), Mod(R(\h112), {7}, {7})>>
           q == Run(ctrl, e)
<1>1. IdleTssiEst(p) = q
  BY DEF IdleTssiEst
<1>2. a \in Seq(Outside(Tones)) /\ c \in Seq(Outside(Tones))
  BY SMTT(30) DEF Word, Outside, Instr, Mod, Wr, R, Tones
<1>3. p.fem \in BOOLEAN /\ TxGainOverridden(off) \in BOOLEAN
  BY DEF Phys, TxGainOverridden
<1>4. e \in Seq(Elsewhere)
  <2>1. R(\h112) \in Regs /\ R(\h007) \in Regs /\ R(\h0ff) \in Regs /\ R(\h11f) \in Regs
    BY DEF Regs, LoopbackRegs
  <2>2. v \in SUBSET Word /\ v1 \in SUBSET Word /\ v2 \in SUBSET Word /\ v3 \in SUBSET Word
    BY <2>1, Words
  <2> HIDE DEF v, v1, v2, v3
  <2> QED
    BY <2>2, SMTT(30) DEF Word, Elsewhere, Outside, Instr, Mod, Wr, R, Tones, Power
<1> HIDE DEF a, c, e
<1>5. b \in Seq(Outside(Tones)) /\ d \in Seq(Outside(Tones)) /\ on \in Seq(Elsewhere)
  BY <1>3, TssiSequences, Overrides, InstrSeqs
<1> HIDE DEF b, d, on
<1>6. Tame(p, off) /\ off \in Phys
  BY TameOff, TameIs
<1> HIDE DEF off
<1>7. Tame(off, run) /\ run \in Phys
  BY <1>5, <1>6, TameRun, TameIs
<1> HIDE DEF run
<1>8. Tame(run, quiet) /\ quiet \in Phys
  BY <1>7, TameIndex, TameIs
<1> HIDE DEF quiet
<1>9. Loose(quiet, sensed) /\ sensed \in Phys
  <2> DEFINE prog == ((a \o b) \o c) \o d
  <2>1. prog \in Seq(Outside(Tones))
    <3>1. a \o b \in Seq(Outside(Tones))
      BY <1>2, <1>5, ConcatSeqs
    <3>2. (a \o b) \o c \in Seq(Outside(Tones))
      BY <1>2, <3>1, ConcatSeqs
    <3> QED
      BY <1>5, <3>2, ConcatSeqs
  <2> HIDE DEF prog
  <2>2. Loose(quiet, Run(quiet, prog))
    BY <1>8, <2>1, LooseRun
  <2> QED
    BY <2>2, LooseIs DEF prog
<1> HIDE DEF sensed
<1>10. Tame(sensed, same) /\ same \in Phys
  <2>1. p.bbmult \in Mults
    BY DEF Phys
  <2> QED
    BY <1>9, <2>1, BackToBbmult, TameIs
<1> HIDE DEF same
<1>11. Tame(same, gained) /\ gained \in Phys
  <2>1. TxGain(off) \in Gains
    BY <1>6, TheGains
  <2> QED
    BY <1>10, <2>1, TameGain, TameIs
<1> HIDE DEF gained
<1>12. Loose(gained, ctrl) /\ ctrl \in Phys
  BY <1>11, ModeIs, LooseCtrl, LooseIs
<1> HIDE DEF ctrl
<1>13. Tame(ctrl, q)
  BY <1>4, <1>12, TameRun
<1> HIDE DEF q
<1>14. Loose(p, quiet)
  BY <1>6, <1>7, <1>8, TameIs, LooseTwice
<1>15. Loose(quiet, gained)
  BY <1>9, <1>10, <1>11, TameIs, LooseTwice
<1>16. Loose(gained, q)
  BY <1>12, <1>13, TameIs, LooseTwice
<1> QED
  BY <1>1, <1>14, <1>15, <1>16, LooseTwice

\* The temperature sensor's set-up saves no register of a tone.
LEMMA SenseRegsAre == (TempSensePhyRegs \cup TempSenseRfRegs) \cap Tones = {}
  BY SMTT(30) DEF TempSensePhyRegs, TempSenseRfRegs, Tones, R

\* It plays nothing; the mode's register is among those it restores.
LEMMA TempSenseSetupIs == ASSUME NEW p \in Phys PROVE Loose(p, TempSenseSetup(p))
<1> DEFINE off == SetTxPwrCtrl(p, Off)
           quiet == SetTxPwrByIndex(off, 127)
           a == <<Mod(R(\h007), {0}, {0}), Mod(R(\h0ff), {4}, {4}), Mod(R(\h11f), {2}, {2}),
                  Mod(R(\h082), {5}, {5})>>
           sensed == Run(quiet, a)
           rest == Restore(sensed, p, TempSensePhyRegs \cup TempSenseRfRegs)
           q == SetTxPwrByIndex(rest, off.current)
<1>1. TempSenseSetup(p) = q
  BY DEF TempSenseSetup
<1>2. a \in Seq(Elsewhere)
  BY SMTT(30) DEF Word, Elsewhere, Outside, Instr, Mod, R, Tones, Power
<1> HIDE DEF a
<1>3. Tame(p, off) /\ off \in Phys /\ off.current \in 0 .. 127
  <2>1. Tame(p, off) /\ off \in Phys
    BY TameOff, TameIs
  <2> QED
    BY <2>1 DEF Phys
<1> HIDE DEF off
<1>4. Tame(off, quiet) /\ quiet \in Phys
  BY <1>3, TameIndex, TameIs
<1> HIDE DEF quiet
<1>5. Tame(quiet, sensed) /\ sensed \in Phys
  BY <1>2, <1>4, TameRun, TameIs
<1> HIDE DEF sensed
<1>6. Loose(sensed, rest) /\ rest \in Phys
  BY <1>5, SenseRegsAre, LooseRestore, LooseIs
<1> HIDE DEF rest
<1>7. Tame(rest, q)
  BY <1>3, <1>6, TameIndex
<1> HIDE DEF q
<1>8. Loose(p, sensed)
  BY <1>3, <1>4, <1>5, TameIs, LooseTwice
<1> QED
  BY <1>1, <1>6, <1>7, <1>8, TameIs, LooseTwice

\* tx_pwr_ctrl_init() plays nothing.
LEMMA TxPwrCtrlInitIs == ASSUME NEW p \in Phys PROVE Loose(p, TxPwrCtrlInit(p))
<1> DEFINE g == [gm |-> {2, 10, 11}, pad |-> {2, 3}, dac |-> {}]
           set == SetTxGain(p, g)
           b == <<"init", 150>>
           mult == [set EXCEPT !.bbmult = b]
           w == Bits(60)
           a == <<Mod(\h4d0, {0}, {}), Mod(\h4d3, 0 .. 7, {}), Mod(\h4d3, 8 .. 15, {}),
                  Mod(\h4d0, {4}, {}), Mod(\h4d0, {2}, {}), Mod(\h410, {7}, {}),
                  Wr(\h4a8, {1, 3}), Mod(\h4a7, 0 .. 7, w)>>
           sensed == IdleTssiEst(p)
           idle == Run(sensed, a)
<1>1. TxPwrCtrlInit(p) = IF p.hw THEN SetTxPwrCtrl(idle, Hw) ELSE TempSenseSetup(mult)
  BY DEF TxPwrCtrlInit
<1>2. g \in Gains /\ b \in Mults
  <2>1. g \in Gains
    BY DEF Gains, Word
  <2> QED
    BY <2>1 DEF Mults
<1>3. a \in Seq(Elsewhere)
  <2>1. w \in SUBSET Word
    BY BitsAreWords
  <2> HIDE DEF w
  <2> QED
    BY <2>1, SMTT(30) DEF Word, Elsewhere, Outside, Instr, Mod, Wr, Tones, Power
<1> HIDE DEF a, b, g
<1>4. Loose(p, TempSenseSetup(mult))
  <2>1. Tame(p, set) /\ set \in Phys
    BY <1>2, TameGain, TameIs
  <2> HIDE DEF set
  <2>2. Tame(set, mult) /\ mult \in Phys
    BY <1>2, <2>1, BackToBbmult, TameIs
  <2> HIDE DEF mult
  <2>3. Loose(mult, TempSenseSetup(mult))
    BY <2>2, TempSenseSetupIs
  <2> QED
    BY <2>1, <2>2, <2>3, TameIs, LooseTwice
<1>5. Loose(p, SetTxPwrCtrl(idle, Hw))
  <2>1. Loose(p, sensed) /\ sensed \in Phys
    BY IdleTssiEstIs, LooseIs
  <2> HIDE DEF sensed
  <2>2. Tame(sensed, idle) /\ idle \in Phys
    BY <1>3, <2>1, TameRun, TameIs
  <2> HIDE DEF idle
  <2>3. Hw \in SUBSET ModeBits
    BY DEF Hw
  <2>4. Loose(idle, SetTxPwrCtrl(idle, Hw))
    BY <2>2, <2>3, LooseCtrl
  <2> QED
    BY <2>1, <2>2, <2>4, TameIs, LooseTwice
<1> QED
  BY <1>1, <1>4, <1>5

-----------------------------------------------------------------------------
(* The channel.                                                            *)

\* Toggling the AFE's power is tame.
LEMMA TameAfe == ASSUME NEW p \in Phys PROVE Tame(p, ToggleAfePwdn(p))
<1> DEFINE ovr == p.reg[\h43b]
           val == p.reg[\h43c]
           a == <<Wr(\h43c, val \cup {0}), Wr(\h43b, ovr \cup {0}), Wr(\h43c, val \ {0}),
              Wr(\h43b, ovr \ {0}), Wr(\h43c, val), Wr(\h43b, ovr)>>
<1>1. ToggleAfePwdn(p) = Run(p, a)
  BY DEF ToggleAfePwdn
<1>2. ovr \in SUBSET Word /\ val \in SUBSET Word
  <2>1. \h43b \in Regs /\ \h43c \in Regs
    BY DEF Regs
  <2> QED
    BY <2>1, Words
<1> HIDE DEF ovr, val
<1>3. a \in Seq(Elsewhere)
  BY <1>2, SMTT(30) DEF Word, Elsewhere, Outside, Instr, Wr, Tones, Power
<1> HIDE DEF a
<1> QED
  BY <1>1, <1>3, TameRun

\* Whatever the radio holds, the VCO's calibration leaves tones and power alone.
LEMMA VcoOf == ASSUME NEW p \in Phys PROVE VcoCal(p) \in Seq(VcoWrites) /\ VcoCal(p) \in Seq(Tuners)
<1>1. R(\h056) \in Regs
  BY DEF Regs
<1>2. PICK w \in SUBSET Word : p.reg[R(\h056)] = w
  BY <1>1, Words
<1>3. VcoCal(p) \in Seq(VcoWrites)
  BY <1>2, VcoSequence
<1> QED
  BY <1>3, ChannelApart, SeqSubset

\* Tuning is a sequence of them.
LEMMA TuneSequence ==
  ASSUME NEW p \in Phys, NEW c PROVE \E s \in Seq(Tuners) : ChannelTune(p, c) = Run(p, s)
<1> DEFINE d == Divider(c)
           begin == <<Mod(R(\h09d), {2}, {2}), Wr(R(\h09e), 0 .. 3)>>
           tune == TuneProg(c, d)
           vco == VcoCal(p)
           v == p.reg[R(\h044)]
           w == p.reg[R(\h12b)]
           back == <<Wr(R(\h044), v), Wr(R(\h12b), w)>>
           prog == ((begin \o tune) \o vco) \o back
<1>1. ChannelTune(p, c) = IF c \notin Channels THEN Run(p, begin) ELSE Run(p, prog)
  BY DEF ChannelTune, TuneProg
<1>2. begin \in Seq(Tuners)
  BY SMTT(30) DEF Word, Tuners, Instr, Mod, Wr, R
<1>3. tune \in Seq(Tuners)
  BY TuneProgIs
<1>4. vco \in Seq(Tuners)
  BY VcoOf
<1>5. back \in Seq(Tuners)
  <2>1. R(\h044) \in Regs /\ R(\h12b) \in Regs
    BY DEF Regs
  <2>2. v \in SUBSET Word /\ w \in SUBSET Word
    BY <2>1, Words
  <2> HIDE DEF v, w
  <2> QED
    BY <2>2, SMTT(30) DEF Word, Tuners, Instr, Wr, R
<1> HIDE DEF begin, tune, vco, back
<1>6. prog \in Seq(Tuners)
  <2>1. begin \o tune \in Seq(Tuners)
    BY <1>2, <1>3, ConcatSeqs
  <2>2. (begin \o tune) \o vco \in Seq(Tuners)
    BY <1>4, <2>1, ConcatSeqs
  <2> QED
    BY <1>5, <2>2, ConcatSeqs
<1> HIDE DEF prog
<1> QED
  BY <1>1, <1>2, <1>6

\* So it is tame.
LEMMA TameTune == ASSUME NEW p \in Phys, NEW c PROVE Tame(p, ChannelTune(p, c))
<1>1. PICK s \in Seq(Tuners) : ChannelTune(p, c) = Run(p, s)
  BY TuneSequence
<1>2. s \in Seq(Elsewhere)
  BY ChannelApart, SeqSubset
<1> QED
  BY <1>1, <1>2, TameRun

\* set_chanspec() also sets the edge.
NewChannel(p, q) ==
  /\ q \in Phys /\ q.hw = p.hw /\ q.chan = p.chan
  /\ p.coef = p.coefs => q.coef = q.coefs
  /\ q.fem = p.fem
  /\ Quieter(p, q)

\* set_chanspec() plays nothing and leaves the coefficients in agreement.
LEMMA SetChanspecIs == ASSUME NEW p \in Phys, NEW c PROVE NewChannel(p, SetChanspec(p, c))
<1> DEFINE e == IF c = 1 THEN 4 ELSE 2
           b == IF c = 14 THEN {9} ELSE {8}
           ran == Run(p, Tweaks(c))
           edged == [ran EXCEPT !.edge = e]
           channel == ChannelTune(edged, c)
           tuned == ToggleAfePwdn(channel)
           a == <<Mod(\h448, {8, 9}, b), Mod(\h4eb, 3 .. 5, {3})>>
           t == IF p.hw THEN TssiSetup(p.fem) ELSE <<>>
           prog == a \o t
           q == Run(tuned, prog)
<1>1. SetChanspec(p, c) = q
  BY DEF SetChanspec
<1>2. a \in Seq(Outside(Tones))
  <2>1. b \in SUBSET Word
    BY DEF Word
  <2> HIDE DEF b
  <2> QED
    BY <2>1, SMTT(30) DEF Word, Outside, Instr, Mod, Tones
<1>3. t \in Seq(Outside(Tones))
  <2>1. CASE p.hw
    <3>1. p.fem \in BOOLEAN
      BY DEF Phys
    <3>2. t = TssiSetup(p.fem)
      BY <2>1
    <3> QED
      BY <3>1, <3>2, TssiSequences
  <2>2. CASE ~p.hw
    BY <2>2
  <2> QED
    BY <2>1, <2>2
<1> HIDE DEF a, t
<1>4. prog \in Seq(Outside(Tones))
  BY <1>2, <1>3, ConcatSeqs
<1> HIDE DEF prog
<1>5. Still(p, ran) /\ ran \in Phys
  <2>1. Tweaks(c) \in Seq(Elsewhere)
    BY TweakSequence, ChannelApart, SeqSubset
  <2> QED
    BY <2>1, StillRun, StillIs
<1> HIDE DEF ran
<1>6. e \in {0, 2, 4}
  OBVIOUS
<1> HIDE DEF e
<1>7. /\ edged \in Phys /\ edged.reg = ran.reg /\ edged.coefs = ran.coefs /\ edged.coef = ran.coef
      /\ edged.hw = ran.hw /\ edged.chan = ran.chan /\ edged.fem = ran.fem /\ edged.current = ran.current
  BY <1>5, <1>6 DEF Phys
<1> HIDE DEF edged
<1>8. NewChannel(p, edged)
  <2>1. SameIn(Tones, p, edged)
    BY <1>5, <1>7 DEF Still, SameIn
  <2> QED
    BY <1>5, <1>7, <2>1, QuieterToo DEF Still, Plain, NewChannel
<1>9. Tame(edged, channel) /\ channel \in Phys
  BY <1>7, TameTune, TameIs
<1> HIDE DEF channel
<1>10. Tame(channel, tuned) /\ tuned \in Phys
  BY <1>9, TameAfe, TameIs
<1> HIDE DEF tuned
<1>11. Loose(tuned, q)
  BY <1>4, <1>10, LooseRun
<1> HIDE DEF q
<1>12. Loose(edged, q)
  BY <1>9, <1>10, <1>11, TameIs, LooseTwice
<1> QED
  BY <1>1, <1>8, <1>12 DEF NewChannel, Loose, Keeps, Quieter

-----------------------------------------------------------------------------
(* Bring-up.                                                               *)

\* Routine after routine.
LEMMA NewChannelTwice ==
  ASSUME NEW p, NEW q, NEW r, NewChannel(p, q), NewChannel(q, r) PROVE NewChannel(p, r)
  BY DEF NewChannel, Quieter

\* A loose routine may come before or after a change of channel ...
LEMMA LooseChannel == ASSUME NEW p, NEW q, Loose(p, q) PROVE NewChannel(p, q) /\ q \in Phys
  BY DEF Loose, Keeps, NewChannel

\* ... and a tame one.
LEMMA TameChannel == ASSUME NEW p, NEW q, Tame(p, q) PROVE NewChannel(p, q) /\ q \in Phys
  BY LooseChannel DEF Tame

\* Clearing the baseband's overrides.
LEMMA ClearSequence ==
  [i \in 1 .. 9 |-> Wr(<<\h43b, \h43c, \h44c, \h4e6, \h4f9, \h4b0, \h938, \h4b0, \h44e>>[i], {})]
    \in Seq(Elsewhere)
<1> DEFINE a == <<\h43b, \h43c, \h44c, \h4e6, \h4f9, \h4b0, \h938, \h4b0, \h44e>>
           prog == [i \in 1 .. 9 |-> Wr(a[i], {})]
<1>1. \A i \in 1 .. 9 : a[i] \in Nat \ (Tones \cup Power)
  <2>1. /\ a[1] = \h43b /\ a[2] = \h43c /\ a[3] = \h44c /\ a[4] = \h4e6 /\ a[5] = \h4f9
        /\ a[6] = \h4b0 /\ a[7] = \h938 /\ a[8] = \h4b0 /\ a[9] = \h44e
    OBVIOUS
  <2> HIDE DEF a
  <2> QED
    BY <2>1, SMTT(30) DEF Tones, Power
<1> HIDE DEF a
<1>2. \A i \in 1 .. 9 : Wr(a[i], {}) \in Elsewhere
  BY <1>1 DEF Wr, Elsewhere, Outside, Instr, Word
<1>3. prog \in [1 .. 9 -> Elsewhere]
  BY <1>2
<1>4. prog \in Seq(Elsewhere)
  BY <1>3
<1> QED
  BY <1>4 DEF a

\* The baseband's set-up is tame ...
LEMMA TameBaseband == ASSUME NEW p \in Phys PROVE Tame(p, BasebandInit(p))
<1> DEFINE zeros == [i \in 1 .. 9 |-> Wr(<<\h43b, \h43c, \h44c, \h4e6, \h4f9, \h4b0, \h938,
                                            \h4b0, \h44e>>[i], {})]
           one == <<Wr(\h44a, {7})>>
           a == zeros \o one
           clear == Run(p, a)
           powered == IF p.fem THEN clear ELSE SetTxPwrByIndex(clear, 52)
           w == Bits(640)
           b == <<Mod(\h448, {8, 9}, {8}), Wr(\h44a, {7}), Mod(\h44d, {2}, {2}), Mod(R(\h11f), {1}, {1}),
                  Mod(\h4d0, 6 .. 14, w)>>
           q == Run(powered, b)
<1>1. BasebandInit(p) = q
  BY DEF BasebandInit
<1>2. zeros \in Seq(Elsewhere)
  BY ClearSequence
<1>3. one \in Seq(Elsewhere)
  BY SMTT(30) DEF Word, Elsewhere, Outside, Instr, Wr, Tones, Power
<1>4. b \in Seq(Elsewhere)
  <2>1. w \in SUBSET Word
    BY BitsAreWords
  <2> HIDE DEF w
  <2> QED
    BY <2>1, SMTT(30) DEF Word, Elsewhere, Outside, Instr, Mod, Wr, R, Tones, Power
<1> HIDE DEF zeros, one, b
<1>5. a \in Seq(Elsewhere)
  BY <1>2, <1>3, ConcatSeqs
<1> HIDE DEF a
<1>6. Tame(p, clear) /\ clear \in Phys
  BY <1>5, TameRun, TameIs
<1> HIDE DEF clear
<1>7. Tame(p, powered) /\ powered \in Phys
  <2>1. Tame(clear, SetTxPwrByIndex(clear, 52))
    BY <1>6, TameIndex
  <2>2. Tame(p, SetTxPwrByIndex(clear, 52))
    BY <1>6, <2>1, TameTwice
  <2> QED
    BY <1>6, <2>2, TameIs
<1> HIDE DEF powered
<1> QED
  BY <1>1, <1>4, <1>7, TameRun, TameTwice

\* ... and the radio's.
LEMMA TameRadio == ASSUME NEW p \in Phys PROVE Tame(p, RadioInit(p))
<1> DEFINE w == IF p.fem THEN {1} ELSE {0, 1}
           a == <<Wr(R(\h005), {3}), Wr(R(\h01d), {1}),
                  Mod(\h4eb, 0 .. 2, w), Mod(\h4eb, 6 .. 8, {}),
                  Or(R(\h078), {7}), Or(R(\h057), {0}), And(R(\h057), 1 .. 7)>>
<1>1. RadioInit(p) = Run(p, a)
  BY DEF RadioInit
<1>2. w \in SUBSET Word
  BY DEF Word
<1> HIDE DEF w
<1>3. a \in Seq(Elsewhere)
  BY <1>2, SMTT(30) DEF Word, Elsewhere, Outside, Instr, Mod, Wr, Or, And, R, Tones, Power
<1> HIDE DEF a
<1> QED
  BY <1>1, <1>3, TameRun

\* The power control is on: by the hardware, or with the target's index, or,
\* when its mode was HW already, left to the calibration that follows.
On(q) == IF q.hw THEN Mode(q) = Hw
         ELSE Mode(q) = Hw \/ (Mode(q) = {13} /\ q.current = TargetIndex(q))

\* Asking for the hardware's control turns the power control on.
LEMMA TurnsOn == ASSUME NEW p \in Phys PROVE On(SetTxPwrCtrl(p, Hw))
<1> DEFINE q == SetTxPwrCtrl(p, Hw)
           old == EffectiveMode(p, Mode(p))
           new == EffectiveMode(p, Hw)
<1>1. Hw \in SUBSET ModeBits
  BY DEF Hw
<1>2. /\ Keeps(p, q)
      /\ p.hw => Mode(q) = Hw
      /\ old = new => Mode(q) = Mode(p)
      /\ old # new /\ ~p.hw => Mode(q) = {13} /\ q.current = TargetIndex(p)
  BY <1>1, SetTxPwrCtrlIs
<1>3. old = new /\ ~p.hw => Mode(p) = Hw
  <2>1. ~p.hw => new = TempBased
    BY DEF EffectiveMode
  <2>2. old = TempBased => Mode(p) = Hw
    BY ModeIs, EffectiveModes
  <2> QED
    BY <2>1, <2>2
<1> HIDE DEF q, old, new
<1>4. TargetIndex(q) = TargetIndex(p) /\ q.hw = p.hw /\ p.hw \in BOOLEAN
  BY <1>2, SameTarget DEF Keeps, Phys
<1>5. On(q)
  BY <1>2, <1>3, <1>4 DEF On
<1> QED
  BY <1>5 DEF q

\* What lcnphy_init() does before it calibrates: the PHY is ready, silent if it was, and the
\* power control is on.
LEMMA ReadyIs == ASSUME NEW p \in Phys PROVE NewChannel(p, Ready(p)) /\ On(Ready(p))
<1> DEFINE a == <<Or(\h44a, {7}), Mod(\h44a, 0 .. 6, {}), Mod(\h6d1, {7}, {7})>>
           begun == Run(p, a)
           afe == ToggleAfePwdn(begun)
           baseband == BasebandInit(afe)
           radio == RadioInit(baseband)
           ctrl == TxPwrCtrlInit(radio)
           tuned == SetChanspec(ctrl, p.chan)
           powered == IF tuned.fem /\ ~tuned.hw THEN SetTxPwrByIndex(tuned, FixedIndex) ELSE tuned
           b == <<Mod(\h448, {14}, {14}), Mod(\h448, {14}, {})>>
           last == Run(powered, b)
           q == SetTxPwrCtrl(last, Hw)
<1>1. Ready(p) = q
  BY DEF Ready
<1>2. a \in Seq(Elsewhere) /\ b \in Seq(Elsewhere)
  BY SMTT(30) DEF Word, Elsewhere, Outside, Instr, Mod, Or, Tones, Power
<1> HIDE DEF a, b
<1>3. NewChannel(p, begun) /\ begun \in Phys
  BY <1>2, TameRun, TameChannel
<1> HIDE DEF begun
<1>4. NewChannel(begun, afe) /\ afe \in Phys
  BY <1>3, TameAfe, TameChannel
<1> HIDE DEF afe
<1>5. NewChannel(afe, baseband) /\ baseband \in Phys
  BY <1>4, TameBaseband, TameChannel
<1> HIDE DEF baseband
<1>6. NewChannel(baseband, radio) /\ radio \in Phys
  BY <1>5, TameRadio, TameChannel
<1> HIDE DEF radio
<1>7. NewChannel(radio, ctrl) /\ ctrl \in Phys
  BY <1>6, TxPwrCtrlInitIs, LooseChannel
<1> HIDE DEF ctrl
<1>8. NewChannel(ctrl, tuned) /\ tuned \in Phys
  BY <1>7, SetChanspecIs DEF NewChannel
<1> HIDE DEF tuned
<1>9. NewChannel(tuned, powered) /\ powered \in Phys
  <2>1. FixedIndex \in 0 .. 127
    BY DEF FixedIndex
  <2>2. NewChannel(tuned, SetTxPwrByIndex(tuned, FixedIndex)) /\ SetTxPwrByIndex(tuned, FixedIndex) \in Phys
    BY <1>8, <2>1, TameIndex, TameChannel
  <2>3. NewChannel(tuned, tuned)
    BY <1>8 DEF NewChannel, Quieter
  <2> QED
    BY <1>8, <2>2, <2>3
<1> HIDE DEF powered
<1>10. NewChannel(powered, last) /\ last \in Phys
  BY <1>2, <1>9, TameRun, TameChannel
<1> HIDE DEF last
<1>11. NewChannel(last, q)
  <2>1. Hw \in SUBSET ModeBits
    BY DEF Hw
  <2> QED
    BY <1>10, <2>1, LooseCtrl, LooseChannel
<1>12. On(q)
  BY <1>10, TurnsOn
<1> HIDE DEF q
<1>13. NewChannel(p, baseband)
  BY <1>3, <1>4, <1>5, NewChannelTwice
<1>14. NewChannel(baseband, tuned)
  BY <1>6, <1>7, <1>8, NewChannelTwice
<1>15. NewChannel(tuned, q)
  BY <1>9, <1>10, <1>11, NewChannelTwice
<1> QED
  BY <1>1, <1>12, <1>13, <1>14, <1>15, NewChannelTwice

-----------------------------------------------------------------------------
(* The calibrations that the operations run.                               *)

\* The end of a calibration sets the index and the mode that the board calls for.
LEMMA CalEndIs ==
  ASSUME NEW busy \in Phys, NEW p \in Phys, Board(p, busy)
  PROVE  /\ Loose(busy, CalEnd(busy, p))
         /\ On(p) /\ (p.hw \/ Mode(busy) = {13}) =>
              IF p.hw THEN Mode(CalEnd(busy, p)) = Hw
              ELSE Mode(CalEnd(busy, p)) = {13} /\ CalEnd(busy, p).current = TargetIndex(CalEnd(busy, p))
<1> DEFINE index == SetTxPwrByIndex(busy, p.current)
           ctrl == SetTxPwrCtrl(index, Mode(p))
           deaf == DeafMode(FALSE)
           q == Run(ctrl, deaf)
           old == EffectiveMode(index, Mode(index))
           new == EffectiveMode(index, Mode(p))
<1>1. CalEnd(busy, p) = q
  BY DEF CalEnd
<1>2. deaf \in Seq(Elsewhere)
  BY Overrides
<1> HIDE DEF deaf
<1>3. p.current \in 0 .. 127 /\ p.hw \in BOOLEAN
  BY DEF Phys
<1>4. Tame(busy, index) /\ index \in Phys
  BY <1>3, TameIndex, TameIs
<1>5. index.current = p.current
  BY <1>3, SetTxPwrByIndexIs DEF Indexed
<1> HIDE DEF index
<1>6. Loose(index, ctrl) /\ ctrl \in Phys
  BY <1>4, ModeIs, LooseCtrl, LooseIs
<1>7. /\ index.hw /\ Mode(p) = Hw => Mode(ctrl) = Hw
      /\ old # new /\ Mode(p) = Hw /\ ~index.hw => Mode(ctrl) = {13} /\ ctrl.current = TargetIndex(index)
      /\ Mode(p) # Hw => ctrl.current = index.current
  BY <1>4, ModeIs, SetTxPwrCtrlIs
<1>8. ASSUME ~index.hw, Mode(index) = {13}, Mode(p) \in Soft PROVE Mode(ctrl) = {13}
  BY <1>4, <1>8, ModeAfter
<1> HIDE DEF ctrl
<1>9. Still(ctrl, q)
  BY <1>2, <1>6, StillRun
<1> HIDE DEF q
<1>10. /\ Mode(q) = Mode(ctrl) /\ q.current = ctrl.current /\ Loose(busy, q) /\ Loose(ctrl, q)
  BY <1>4, <1>6, <1>9, StillIs, StillFixed, TameStill, TameIs, LooseTwice
<1>11. index.hw = p.hw /\ Mode(index) = Mode(busy)
  BY <1>4, TameIs DEF Board
<1>12. TargetIndex(index) = TargetIndex(q) /\ TargetIndex(p) = TargetIndex(q)
  BY <1>4, <1>10, SameTarget DEF Board, Tame, Loose, Keeps
<1>13. ASSUME On(p), p.hw PROVE Mode(q) = Hw
  BY <1>7, <1>10, <1>11, <1>13 DEF On
<1>14. ASSUME On(p), ~p.hw, Mode(busy) = {13} PROVE Mode(q) = {13} /\ q.current = TargetIndex(q)
  <2>1. Mode(p) \in Soft
    BY <1>14 DEF On, Soft
  <2>2. Mode(q) = {13}
    BY <1>8, <1>10, <1>11, <1>14, <2>1
  <2>3. CASE Mode(p) = Hw
    <3>1. old # new
      <4>1. new = TempBased /\ old = {13}
        BY <1>11, <1>14, <2>3, SoftIs DEF EffectiveMode
      <4>2. 0 \in TempBased /\ 0 \notin {13}
        BY DEF TempBased
      <4> QED
        BY <4>1, <4>2
    <3> QED
      BY <1>7, <1>10, <1>11, <1>12, <1>14, <2>2, <2>3, <3>1
  <2>4. CASE Mode(p) # Hw
    <3>1. p.current = TargetIndex(p)
      BY <1>14, <2>4 DEF On
    <3> QED
      BY <1>5, <1>7, <1>10, <1>12, <2>2, <2>4, <3>1
  <2> QED
    BY <2>3, <2>4
<1> QED
  BY <1>1, <1>3, <1>10, <1>13, <1>14

\* What an operation with calibrations leaves.
Calibrated(p, q) == Board(p, q) /\ Silent(q) /\ q.coef = q.coefs

\* Loose routines after a calibration.
LEMMA CalibratedLoose ==
  ASSUME NEW p, NEW q, NEW r, Calibrated(p, q), Loose(q, r) PROVE Calibrated(p, r)
  BY LooseIs, FixedBoard, BoardTwice, CoefStays DEF Calibrated, Loose, Quieter

\* A calibration begins with the receiver detuned.
LEMMA BeginsDeaf ==
  ASSUME NEW p \in Phys
  PROVE  Tame(p, Run(p, DeafMode(TRUE))) /\ Run(p, DeafMode(TRUE)) \in Phys
<1> DEFINE deaf == DeafMode(TRUE)
           q == Run(p, deaf)
<1>1. deaf \in Seq(Elsewhere)
  BY Overrides
<1> HIDE DEF deaf
<1>2. Tame(p, q)
  BY <1>1, TameRun
<1> HIDE DEF q
<1>3. q \in Phys
  BY <1>2, TameIs
<1> QED
  BY <1>2, <1>3 DEF q, deaf

\* The calibration of the power table and of the receiver, with whatever the hardware answers.
LEMMA GlacialCalIs ==
  ASSUME NEW p \in Phys, NEW o \in Outcomes
  PROVE  /\ Calibrated(p, GlacialCal(p, o))
         /\ ~p.hw /\ ~o.wait => GlacialCal(p, o).coef = p.coef
<1> DEFINE deaf == Run(p, DeafMode(TRUE))
           table == TxPwrTblIqloCal(deaf, o)
           q == CalEnd(table, p)
<1>1. GlacialCal(p, o) = q
  BY DEF GlacialCal
<1>2. Tame(p, deaf) /\ deaf \in Phys
  BY BeginsDeaf
<1> HIDE DEF deaf
<1>3. Tabled(deaf, table, o) /\ table \in Phys
  BY <1>2, TxPwrTblIqloCalIs DEF Tabled, Board
<1> HIDE DEF table
<1>4. Board(p, deaf) /\ deaf.hw = p.hw /\ (~p.hw => deaf.coef = p.coef)
  BY <1>2, TameIs, FixedBoard, CoefStays DEF Loose
<1>5. Calibrated(p, table) /\ Board(p, table) /\ table.hw = p.hw
  BY <1>3, <1>4, BoardTwice DEF Tabled, Calibrated, Board
<1>6. Loose(table, q)
  BY <1>3, <1>5, CalEndIs
<1> HIDE DEF q
<1>7. Calibrated(p, q)
  BY <1>5, <1>6, CalibratedLoose
<1>8. ~p.hw /\ ~o.wait => q.coef = p.coef
  BY <1>3, <1>4, <1>5, <1>6, CoefStays DEF Tabled, Loose
<1> QED
  BY <1>1, <1>7, <1>8

\* lcnphy_init()'s calibration ends on target, with the power control on.
LEMMA PeriodicCalIs ==
  ASSUME NEW p \in Phys, NEW o \in Outcomes
  PROVE  /\ Calibrated(p, PeriodicCal(p, o))
         /\ On(p) => IF p.hw THEN Mode(PeriodicCal(p, o)) = Hw
                     ELSE /\ Mode(PeriodicCal(p, o)) = {13}
                          /\ PeriodicCal(p, o).current = TargetIndex(PeriodicCal(p, o))
<1> DEFINE deaf == Run(p, DeafMode(TRUE))
           table == TxPwrTblIqloCal(deaf, o)
           rx == RxIqCal(table, o)
           tssi == IF rx.hw THEN IdleTssiEst(rx) ELSE rx
           q == CalEnd(tssi, p)
<1>1. PeriodicCal(p, o) = q
  BY DEF PeriodicCal
<1>2. Tame(p, deaf) /\ deaf \in Phys
  BY BeginsDeaf
<1> HIDE DEF deaf
<1>3. Tabled(deaf, table, o) /\ table \in Phys
  BY <1>2, TxPwrTblIqloCalIs DEF Tabled, Board
<1> HIDE DEF table
<1>4. Board(p, deaf) /\ deaf.hw = p.hw /\ Mode(deaf) = Mode(p)
  BY <1>2, TameIs, FixedBoard
<1>5. Calibrated(p, table) /\ Board(p, table) /\ table.hw = p.hw
  BY <1>3, <1>4, BoardTwice DEF Tabled, Calibrated, Board
<1>6. Loose(table, rx) /\ rx \in Phys /\ rx.hw = p.hw
      /\ (~table.hw /\ Mode(table) = {13} => Mode(rx) = {13})
  BY <1>3, <1>5, RxIqCalIs, LooseIs
<1> HIDE DEF rx
<1>7. Loose(rx, tssi) /\ tssi \in Phys /\ (~rx.hw => tssi = rx)
  <2>1. Loose(rx, IdleTssiEst(rx))
    BY <1>6, IdleTssiEstIs
  <2>2. Loose(rx, rx)
    BY <1>6 DEF Loose, Keeps, Quieter
  <2>3. Loose(rx, tssi)
    BY <2>1, <2>2
  <2> QED
    BY <2>3, LooseIs
<1> HIDE DEF tssi
<1>8. Calibrated(p, tssi) /\ Board(p, tssi)
  <2>1. Calibrated(p, rx)
    BY <1>5, <1>6, CalibratedLoose
  <2>2. Calibrated(p, tssi)
    BY <1>7, <2>1, CalibratedLoose
  <2> QED
    BY <2>2 DEF Calibrated
<1>9. /\ Loose(tssi, q)
      /\ On(p) /\ (p.hw \/ Mode(tssi) = {13}) =>
           IF p.hw THEN Mode(q) = Hw ELSE Mode(q) = {13} /\ q.current = TargetIndex(q)
  BY <1>7, <1>8, CalEndIs
<1> HIDE DEF q
<1>10. Calibrated(p, q)
  BY <1>8, <1>9, CalibratedLoose
<1>11. On(p) => p.hw \/ Mode(tssi) = {13}
  <2>1. SUFFICES ASSUME On(p), ~p.hw PROVE Mode(tssi) = {13}
    OBVIOUS
  <2>2. Mode(deaf) \in Soft
    BY <1>4, <2>1 DEF On, Soft
  <2>3. Mode(table) = {13}
    BY <1>3, <1>4, <2>1, <2>2 DEF Tabled
  <2> QED
    BY <1>5, <1>6, <1>7, <2>1, <2>3
<1> QED
  BY <1>1, <1>9, <1>10, <1>11

\* tx_power_adjustment() changes the index only.
LEMMA AdjustedIs ==
  ASSUME NEW p \in Phys
  PROVE  Loose(p, Adjusted(p)) /\ Adjusted(p).coef = p.coef /\ Adjusted(p) \in Phys
<1> DEFINE t == Bits(2 * TargetIndex(p))
           a == <<Mod(\h4a9, 0 .. 8, t)>>
           ran == Run(p, a)
           i == ReadIndex(ran)
           back == [ran EXCEPT !.current = i]
           q == Adjusted(p)
<1>1. q = IF p.hw \/ Mode(p) = Off THEN p ELSE back
  BY DEF Adjusted
<1>2. a \in Seq(Outside(Tones))
  <2>1. t \in SUBSET Word
    BY BitsAreWords
  <2> HIDE DEF t
  <2> QED
    BY <2>1, SMTT(30) DEF Word, Outside, Instr, Mod, Tones
<1> HIDE DEF a, q
<1>3. Loose(p, ran) /\ ran \in Phys
  BY <1>2, LooseRun, LooseIs
<1>4. ran.coef = p.coef
  <2>1. Plain(p, ran)
    BY <1>2, RunOutside, Watched
  <2> QED
    BY <2>1 DEF Plain
<1> HIDE DEF ran
<1>5. i \in 0 .. 127
  BY <1>3, ReadIndexType
<1> HIDE DEF i
<1>6. Keeps(ran, back) /\ back.coef = ran.coef /\ SameIn(Tones, ran, back)
  BY <1>3, <1>5, NewCurrent
<1> HIDE DEF back
<1>7. Loose(ran, back)
  BY <1>6, QuieterToo DEF Loose
<1>8. Loose(p, back)
  BY <1>3, <1>7, LooseTwice
<1>9. Loose(p, p)
  BY DEF Loose, Keeps, Quieter
<1>10. Loose(p, q) /\ q.coef = p.coef
  BY <1>1, <1>4, <1>6, <1>8, <1>9
<1>11. q \in Phys
  BY <1>10, LooseIs
<1> QED
  BY <1>10, <1>11 DEF q

\* The watchdog's calibration ends silent; after a timeout the coefficients are the old ones.
LEMMA RecalibratedIs ==
  ASSUME NEW p \in Phys, NEW o \in Outcomes
  PROVE  /\ Calibrated(p, Recalibrated(p, o))
         /\ ~p.hw /\ ~o.wait => Recalibrated(p, o).coef = p.coef
<1> DEFINE cal == GlacialCal(p, o)
           vco == VcoCal(cal)
           q == Run(cal, vco)
<1>1. Recalibrated(p, o) = q
  BY DEF Recalibrated
<1>2. /\ Calibrated(p, cal) /\ cal \in Phys
      /\ ~p.hw /\ ~o.wait => cal.coef = p.coef
  BY GlacialCalIs DEF Calibrated, Board
<1> HIDE DEF cal
<1>3. vco \in Seq(Elsewhere)
  BY <1>2, VcoOf, ChannelApart, SeqSubset
<1> HIDE DEF vco
<1>4. Still(cal, q)
  BY <1>2, <1>3, StillRun
<1> HIDE DEF q
<1>5. Loose(cal, q) /\ q.coef = cal.coef
  BY <1>4, StillIs, TameStill DEF Tame
<1> QED
  BY <1>1, <1>2, <1>5, CalibratedLoose

-----------------------------------------------------------------------------
(* The inductive invariant.                                                *)

\* After a reset, the registers may hold anything; while the PHY runs, nothing
\* plays.
IInv ==
  /\ phy \in Phys
  /\ CoefficientsAgree
  /\ NoToneLeft
  /\ InitOnTarget

\* A reset core's registers may hold anything that fits.
LEMMA ResetIs ==
  ASSUME NEW p \in Phys, NEW boot \in Boots
  PROVE  Reset(p, boot) \in Phys /\ Reset(p, boot).coef = Reset(p, boot).coefs
<1> DEFINE r == [a \in DOMAIN p.reg |-> IF a < 4096 THEN boot ELSE boot \cap (0 .. 7)]
           b == <<"table", 0>>
           q == [p EXCEPT !.reg = r, !.bbmult = b, !.coef = "table", !.coefs = "table"]
<1>1. Reset(p, boot) = q
  BY DEF Reset
<1>2. boot \in SUBSET Word
  BY PhyAssumption
<1>3. r \in [Regs -> SUBSET Word]
  <2>1. DOMAIN p.reg = Regs
    BY DEF Phys
  <2> QED
    BY <1>2, <2>1
<1>4. b \in Mults /\ "table" \in Coefs
  BY DEF Mults, Coefs
<1> HIDE DEF r, b
<1>5. q \in Phys /\ q.coef = q.coefs
  BY <1>3, <1>4 DEF Phys
<1> QED
  BY <1>1, <1>5

\* What attach sets up.
LEMMA AttachedIs ==
  ASSUME NEW hw \in BOOLEAN, NEW fem \in BOOLEAN, NEW t \in Temps
  PROVE  Attached(hw, fem, t) \in Phys
<1>1. [a \in Regs |-> {}] \in [Regs -> SUBSET Word] /\ <<"table", 0>> \in Mults /\ "table" \in Coefs
  BY DEF Mults, Coefs
<1> DEFINE r == [a \in Regs |-> {}]
           b == <<"table", 0>>
           u == IF hw THEN RawTemp ELSE t
<1>2. u \in Temps \cup {RawTemp}
  OBVIOUS
<1>3. Attached(hw, fem, t) =
        [reg |-> r, bbmult |-> b, coef |-> "table", coefs |-> "table", current |-> 0, temp |-> u,
         edge |-> 0, chan |-> 0, hw |-> hw, fem |-> fem]
  BY DEF Attached
<1>4. r \in [Regs -> SUBSET Word] /\ b \in Mults /\ "table" \in Coefs
  BY <1>1
<1> HIDE DEF r, b, u
<1> QED
  BY <1>2, <1>3, <1>4 DEF Phys

\* It holds at first ...
LEMMA InitIInv == Init => IInv
<1>1. SUFFICES ASSUME Init PROVE IInv
  OBVIOUS
<1>2. PICK hw \in BOOLEAN, fem \in BOOLEAN, t \in Temps, boot \in Boots :
         phy = Reset(Attached(hw, fem, t), boot) /\ op = "reset"
  BY <1>1 DEF Init
<1>3. phy \in Phys /\ phy.coef = phy.coefs
  BY <1>2, AttachedIs, ResetIs
<1> QED
  BY <1>2, <1>3 DEF IInv, CoefficientsAgree, NoToneLeft, InitOnTarget, Running

\* Noting the channel.
LEMMA ChanOf ==
  ASSUME NEW p \in Phys, NEW c \in Chans
  PROVE  /\ [p EXCEPT !.chan = c] \in Phys
         /\ [p EXCEPT !.chan = c].coef = p.coef /\ [p EXCEPT !.chan = c].coefs = p.coefs
         /\ Silent(p) => Silent([p EXCEPT !.chan = c])
  BY DEF Phys, Silent, SamplesPlay, IqcalPlays

\* The die's temperature is not the driver's.
LEMMA Warms ==
  ASSUME NEW p \in Phys, NEW t \in Temps
  PROVE  /\ [p EXCEPT !.temp = t] \in Phys
         /\ [p EXCEPT !.temp = t].coef = p.coef /\ [p EXCEPT !.temp = t].coefs = p.coefs
         /\ Silent(p) => Silent([p EXCEPT !.temp = t])
  BY DEF Phys, Silent, SamplesPlay, IqcalPlays

\* What the invariant says, of a state in which nothing was just initialized.
LEMMA RunningState ==
  ASSUME NEW p \in Phys, p.coef = p.coefs, Silent(p), phy' = p, op' # "init"
  PROVE  IInv'
  BY DEF IInv, CoefficientsAgree, NoToneLeft, InitOnTarget, Silent, SamplesPlay, IqcalPlays

\* ... and every operation keeps it.
LEMMA NextIInv == IInv /\ [Next]_vars => IInv'
<1>1. SUFFICES ASSUME IInv, [Next]_vars PROVE IInv'
  OBVIOUS
<1>2. phy \in Phys /\ phy.coef = phy.coefs /\ (Running => Silent(phy))
  BY <1>1 DEF IInv, CoefficientsAgree, NoToneLeft, Silent
<1>3. CASE UNCHANGED vars
  BY <1>1, <1>3 DEF vars, IInv, CoefficientsAgree, NoToneLeft, InitOnTarget, Running, SamplesPlay,
                    IqcalPlays, TargetIndex, Mode
<1>4. CASE CoreReset
  <2>1. PICK boot \in Boots : phy' = Reset(phy, boot) /\ op' = "reset"
    BY <1>4 DEF CoreReset
  <2>2. phy' \in Phys /\ phy'.coef = phy'.coefs
    BY <1>2, <2>1, ResetIs
  <2> QED
    BY <2>1, <2>2 DEF IInv, CoefficientsAgree, NoToneLeft, InitOnTarget, Running
<1>5. CASE PhyInit
  <2> DEFINE ready == Ready(phy)
  <2>1. PICK o \in Outcomes : phy' = PeriodicCal(ready, o) /\ op' = "init"
    BY <1>5 DEF PhyInit
  <2>2. ready \in Phys /\ On(ready)
    BY <1>2, ReadyIs DEF NewChannel
  <2> HIDE DEF ready
  <2> DEFINE q == PeriodicCal(ready, o)
  <2>3. /\ Calibrated(ready, q)
        /\ IF ready.hw THEN Mode(q) = Hw ELSE Mode(q) = {13} /\ q.current = TargetIndex(q)
    BY <2>2, PeriodicCalIs
  <2> HIDE DEF q
  <2>4. phy' = q
    BY <2>1 DEF q
  <2>5. q \in Phys /\ q.coef = q.coefs /\ Silent(q) /\ q.hw = ready.hw
    BY <2>3 DEF Calibrated, Board
  <2>6. IF q.hw THEN Mode(q) = Hw ELSE q.current = TargetIndex(q) /\ Mode(q) # Off
    <3>1. {13} # Off
      BY SoftIs
    <3> QED
      BY <2>3, <2>5, <3>1
  <2>7. InitOnTarget'
    BY <2>4, <2>6 DEF InitOnTarget, Mode, TargetIndex
  <2>8. NoToneLeft' /\ CoefficientsAgree'
    BY <2>4, <2>5 DEF NoToneLeft, CoefficientsAgree, Silent, SamplesPlay, IqcalPlays
  <2> QED
    BY <2>4, <2>5, <2>7, <2>8 DEF IInv
<1>6. CASE SetChannel
  <2>1. PICK c \in Chans : phy' = SetChanspec([phy EXCEPT !.chan = c], c) /\ op' = "channel"
    BY <1>6 DEF SetChannel
  <2> DEFINE p == [phy EXCEPT !.chan = c]
             q == SetChanspec(p, c)
  <2>2. p \in Phys /\ p.coef = p.coefs /\ Silent(p)
    <3>1. Silent(phy)
      BY <1>2, <1>6 DEF SetChannel
    <3> QED
      BY <1>2, <3>1, ChanOf
  <2> HIDE DEF p
  <2>3. NewChannel(p, q)
    BY <2>2, SetChanspecIs
  <2> HIDE DEF q
  <2>4. q \in Phys /\ q.coef = q.coefs /\ Silent(q)
    BY <2>2, <2>3 DEF NewChannel, Quieter
  <2>5. phy' = q /\ op' # "init"
    BY <2>1 DEF q, p
  <2> QED
    BY <2>4, <2>5, RunningState
<1>7. CASE Adjust
  <2> DEFINE q == Adjusted(phy)
  <2>1. phy' = q /\ op' # "init" /\ Silent(phy)
    BY <1>2, <1>7 DEF Adjust
  <2>2. Loose(phy, q) /\ q \in Phys
    BY <1>2, AdjustedIs
  <2> HIDE DEF q
  <2>3. q.coef = q.coefs /\ Silent(q)
    BY <1>2, <2>1, <2>2, CoefStays DEF Loose, Quieter
  <2> QED
    BY <2>1, <2>2, <2>3, RunningState
<1>8. CASE Recalibrate
  <2> DEFINE p == Adjusted(phy)
  <2>1. PICK o \in Outcomes : phy' = Recalibrated(p, o) /\ op' = IF o.wait THEN "calibrated" ELSE "timed out"
    BY <1>8 DEF Recalibrate
  <2>2. p \in Phys
    BY <1>2, AdjustedIs
  <2> HIDE DEF p
  <2> DEFINE q == Recalibrated(p, o)
  <2>3. Calibrated(p, q)
    BY <2>2, RecalibratedIs
  <2> HIDE DEF q
  <2>4. q \in Phys /\ q.coef = q.coefs /\ Silent(q)
    BY <2>3 DEF Calibrated, Board
  <2>5. phy' = q /\ op' # "init"
    BY <2>1 DEF q
  <2> QED
    BY <2>4, <2>5, RunningState
<1>9. CASE Warm
  <2>1. PICK t \in Temps : phy' = [phy EXCEPT !.temp = t] /\ op' = IF Running THEN "warmed" ELSE op
    BY <1>9 DEF Warm
  <2> DEFINE q == [phy EXCEPT !.temp = t]
  <2>2. q \in Phys /\ q.coef = q.coefs /\ (Silent(phy) => Silent(q))
    BY <1>2, Warms
  <2>3. phy' = q
    BY <2>1
  <2> HIDE DEF q
  <2>4. CASE Running
    BY <1>2, <2>1, <2>2, <2>3, <2>4, RunningState
  <2>5. CASE ~Running
    <3>1. op' = "reset"
      BY <2>1, <2>5 DEF Running
    <3> QED
      BY <2>2, <2>3, <3>1 DEF IInv, CoefficientsAgree, NoToneLeft, InitOnTarget, Running
  <2> QED
    BY <2>4, <2>5
<1> QED
  BY <1>1, <1>3, <1>4, <1>5, <1>6, <1>7, <1>8, <1>9 DEF Next

\* So it always holds.
LEMMA Inductive == Spec => []IInv
  BY InitIInv, NextIInv, PTL DEF Spec

-----------------------------------------------------------------------------
(* What a routine borrows and gives back.                                  *)

\* Of the register with both amplifiers' gains, the PA's counts.
Part(a, w) == IF a = \h4fb THEN w \cap (8 .. 14) ELSE w

\* It is all of any other.
LEMMA PartIs == ASSUME NEW a, NEW w PROVE (a # \h4fb => Part(a, w) = w) /\ Part(\h4fb, w) = w \cap (8 .. 14)
  BY Zenon DEF Part

\* The registers A hold what they held.
Kept(A, p, q) == \A a \in A : Part(a, q.reg[a]) = Part(a, p.reg[a])

\* The instructions that leave a register of A as it is in p.
Fit(A, p) ==
  {i \in Instr : i.addr \in A =>
     IF i.addr = \h4fb THEN 8 .. 14 \subseteq i.keep /\ i.set \cap (8 .. 14) \subseteq p.reg[i.addr]
     ELSE (p.reg[i.addr] \cap i.keep) \cup i.set = p.reg[i.addr]}

\* Registers that a calibration writes to and that hold, when it begins, what the
\* writes leave of them.
Calm(A, p) ==
  /\ A \subseteq Regs
  /\ \h4a4 \notin A /\ \h4b0 \notin A /\ \h43b \notin A /\ \h410 \notin A /\ \h44c \notin A
  /\ \h4b1 \in A => p.reg[\h4b1] \subseteq {9}
  /\ \h6d6 \in A => 0 \in p.reg[\h6d6] /\ p.reg[\h6d6] \subseteq {0, 1}
  /\ \h503 \in A => p.reg[\h503] = {3}
  /\ \h6a3 \in A => p.reg[\h6a3] = {4}
  /\ \h6da \in A => p.reg[\h6da] \subseteq {6}
  /\ \h43c \in A => p.reg[\h43c] = {}
  /\ \h44d \in A => p.reg[\h44d] = {}
  /\ \h453 \in A => p.reg[\h453] = {}
  /\ \h439 \in A => p.reg[\h439] \subseteq 7 .. 9
  /\ R(\h112) \in A => p.reg[R(\h112)] \cap {1, 2} = {}
  /\ \h4b5 \in A => (0 .. 2) \cup GainOf(p, 0).gm \subseteq p.reg[\h4b5]
  /\ \h4fb \in A => PaOf(p) \subseteq p.reg[\h4fb]

\* Routine after routine.
LEMMA KeptTwice ==
  ASSUME NEW A, NEW p, NEW q, NEW r, Kept(A, p, q), Kept(A, q, r) PROVE Kept(A, p, r)
  BY DEF Kept

\* Fewer registers.
LEMMA KeptLess ==
  ASSUME NEW A, NEW B, B \subseteq A, NEW p, NEW q, Kept(A, p, q) PROVE Kept(B, p, q)
  BY DEF Kept

\* The other way of saying it, without the gains.
LEMMA KeptSame ==
  ASSUME NEW A, \h4fb \notin A, NEW p, NEW q PROVE Kept(A, p, q) <=> SameIn(A, p, q)
<1>1. \A a \in A : \A w : Part(a, w) = w
  BY PartIs
<1> QED
  BY <1>1 DEF Kept, SameIn

\* Nothing changed.
LEMMA KeptReg == ASSUME NEW A, NEW p, NEW q, q.reg = p.reg PROVE Kept(A, p, q)
  BY DEF Kept

\* Fewer registers are calm, too.
LEMMA CalmLess ==
  ASSUME NEW A, NEW B, B \subseteq A, NEW p, Calm(A, p) PROVE Calm(B, p)
  BY DEF Calm

\* What the gains of an index have in common.
LEMMA GainsOf ==
  ASSUME NEW p, NEW q, q.fem = p.fem
  PROVE  PaOf(q) = PaOf(p) /\ \A i, j : GainOf(q, i).gm = GainOf(p, j).gm
  BY DEF PaOf, GainOf

\* They stay calm.
LEMMA CalmKept ==
  ASSUME NEW p, NEW q, q.fem = p.fem, NEW A, Calm(A, p), Kept(A, p, q) PROVE Calm(A, q)
<1>1. \A a \in A : a # \h4fb => q.reg[a] = p.reg[a]
  BY PartIs DEF Kept
<1>2. \h4fb \in A => q.reg[\h4fb] \cap (8 .. 14) = p.reg[\h4fb] \cap (8 .. 14)
  BY PartIs DEF Kept
<1>3. PaOf(p) \subseteq 8 .. 14 /\ PaOf(q) = PaOf(p) /\ GainOf(q, 0).gm = GainOf(p, 0).gm
  BY GainsOf DEF PaOf
<1>4. \h4fb \in A => PaOf(q) \subseteq q.reg[\h4fb]
  BY <1>2, <1>3 DEF Calm
<1> QED
  BY <1>1, <1>3, <1>4 DEF Calm, R

\* A sequence of such instructions leaves A as it is.
LEMMA KeptRun ==
  ASSUME NEW p \in Phys, NEW A, A \subseteq Regs, NEW prog \in Seq(Fit(A, p))
  PROVE  Plain(p, Run(p, prog)) /\ Kept(A, p, Run(p, prog))
<1> DEFINE V == {r \in Files : \A a \in A : Part(a, r[a]) = Part(a, p.reg[a])}
<1>1. Fit(A, p) \subseteq Instr
  BY DEF Fit
<1>2. prog \in Seq(Instr)
  BY <1>1, SeqSubset
<1>3. p.reg \in V
  BY RegsOf
<1>4. ASSUME NEW i \in 1 .. Len(prog), NEW r \in V PROVE Effect(r, prog[i]) \in V
  <2> DEFINE ins == prog[i]
             w == (r[ins.addr] \cap ins.keep) \cup ins.set
  <2>1. ins \in Fit(A, p)
    OBVIOUS
  <2> HIDE DEF ins
  <2>2. r \in [Regs -> SUBSET Word] /\ Effect(r, ins) = [r EXCEPT ![ins.addr] = w]
    BY DEF Files, Effect
  <2>3. Effect(r, ins) \in Files
    <3>1. ins.addr \in Regs => w \in SUBSET Word
      <4>1. ins.set \in SUBSET Word
        BY <2>1 DEF Fit, Instr
      <4>2. ins.addr \in Regs => r[ins.addr] \in SUBSET Word
        BY <2>2
      <4> QED
        BY <4>1, <4>2
    <3> QED
      BY <2>2, <3>1 DEF Files
  <2>4. ASSUME NEW a \in A PROVE Part(a, Effect(r, ins)[a]) = Part(a, p.reg[a])
    <3>1. a \in Regs /\ Part(a, r[a]) = Part(a, p.reg[a])
      OBVIOUS
    <3>2. CASE a # ins.addr
      BY <2>2, <3>1, <3>2
    <3>3. CASE a = ins.addr /\ a = \h4fb
      <4>1. 8 .. 14 \subseteq ins.keep /\ ins.set \cap (8 .. 14) \subseteq p.reg[a]
        <5>1. ins.addr = \h4fb /\ ins.addr \in A
          BY <3>3
        <5> QED
          BY <2>1, <3>3, <5>1 DEF Fit
      <4>2. r[a] \cap (8 .. 14) = p.reg[a] \cap (8 .. 14)
        BY <3>1, <3>3, PartIs
      <4>3. w \cap (8 .. 14) = p.reg[a] \cap (8 .. 14)
        BY <3>3, <4>1, <4>2
      <4>4. Effect(r, ins)[a] = w
        BY <2>2, <3>1, <3>3
      <4> QED
        <5>1. Part(a, w) = w \cap (8 .. 14) /\ Part(a, p.reg[a]) = p.reg[a] \cap (8 .. 14)
          BY <3>3, PartIs
        <5> QED
          BY <4>3, <4>4, <5>1
    <3>4. CASE a = ins.addr /\ a # \h4fb
      <4>1. (p.reg[a] \cap ins.keep) \cup ins.set = p.reg[a]
        BY <2>1, <3>4 DEF Fit
      <4>2. r[a] = p.reg[a]
        BY <3>1, <3>4, PartIs
      <4>3. Effect(r, ins)[a] = w
        BY <2>2, <3>1, <3>4
      <4> QED
        <5>1. w = p.reg[a]
          BY <3>4, <4>1, <4>2
        <5> QED
          BY <4>3, <5>1
    <3> QED
      BY <3>2, <3>3, <3>4
  <2> QED
    BY <2>3, <2>4 DEF ins
<1>5. Len(prog) \in Nat
  OBVIOUS
<1> HIDE DEF V
<1>6. Apply(p.reg, prog) \in V
  BY <1>3, <1>4, <1>5, ApplyKeeps
<1>7. Plain(p, Run(p, prog)) /\ Run(p, prog).reg = Apply(p.reg, prog)
  BY <1>2, RunIs
<1> QED
  BY <1>6, <1>7 DEF V, Kept

\* Instructions that access no register of A.
LEMMA OutsideFits ==
  ASSUME NEW A, NEW p, NEW s \in Seq(Outside(A)) PROVE s \in Seq(Fit(A, p))
<1>1. Outside(A) \subseteq Fit(A, p)
  BY DEF Outside, Fit
<1> QED
  BY <1>1, SeqSubset

\* Registers that are written back as they were.
LEMMA KeptRestore ==
  ASSUME NEW p \in Phys, NEW old \in Phys, NEW A, A \subseteq Regs, NEW B,
         \A a \in A \cap B : Part(a, old.reg[a]) = Part(a, p.reg[a])
  PROVE  Kept(A, p, Restore(p, old, B))
<1> DEFINE r == [a \in DOMAIN p.reg |-> IF a \in B THEN old.reg[a] ELSE p.reg[a]]
<1>1. Restore(p, old, B) = [p EXCEPT !.reg = r]
  BY DEF Restore
<1>2. p.reg \in [Regs -> SUBSET Word] /\ old.reg \in [Regs -> SUBSET Word]
  BY DEF Phys
<1>3. r \in [Regs -> SUBSET Word] /\ \A a \in A : Part(a, r[a]) = Part(a, p.reg[a])
  BY <1>2
<1> HIDE DEF r
<1>4. Restore(p, old, B).reg = r
  BY <1>1, <1>3, NewRegs
<1> QED
  BY <1>3, <1>4 DEF Kept

\* The overrides and the detuned receiver.
LEMMA OverridesFit ==
  ASSUME NEW p, NEW A, Calm(A, p)
  PROVE  /\ TxGainOverride(TRUE) \in Seq(Fit(A, p)) /\ TxGainOverride(FALSE) \in Seq(Fit(A, p))
         /\ DeafMode(TRUE) \in Seq(Fit(A, p)) /\ DeafMode(FALSE) \in Seq(Fit(A, p))
<1>1. TxGainOverride(TRUE) \in Seq(Fit(A, p)) /\ TxGainOverride(FALSE) \in Seq(Fit(A, p))
  BY SMTT(30) DEF Calm, Fit, TxGainOverride, Instr, Mod, If, Word
<1>2. DeafMode(TRUE) \in Seq(Fit(A, p)) /\ DeafMode(FALSE) \in Seq(Fit(A, p))
  BY SMTT(30) DEF Calm, Fit, DeafMode, Instr, Mod, If, Word
<1> QED
  BY <1>1, <1>2

\* The registers hold the gains already.
GainFits(A, p, g) ==
  /\ \h4b5 \in A => g.gm \subseteq p.reg[\h4b5]
  /\ \h439 \in A => g.dac \subseteq p.reg[\h439]
  /\ g.pad \cap (8 .. 14) = {}

\* set_tx_gain() with gains that the registers have.
LEMMA KeptGain ==
  ASSUME NEW p \in Phys, NEW A, Calm(A, p), NEW g \in Gains, GainFits(A, p, g)
  PROVE  Kept(A, p, SetTxGain(p, g))
<1>9. TxGainOverride(TRUE) \in Seq(Fit(A, p))
  BY OverridesFit
<1> DEFINE pad == g.pad \cup PaGain(p)
           a == <<Mod(\h4b5, Word, g.gm), Mod(\h4fb, 0 .. 14, pad), Mod(\h439, 7 .. 9, g.dac)>>
           b == TxGainOverride(TRUE)
<1>1. g.gm \in SUBSET Word /\ pad \in SUBSET Word /\ g.dac \in SUBSET Word
  BY TheGains DEF Gains
<1>2. pad \cap (8 .. 14) \subseteq p.reg[\h4fb]
  BY DEF PaGain, GainFits
<1>6. A \subseteq Regs
  BY DEF Calm
<1> HIDE DEF pad
<1>3. a \in Seq(Fit(A, p))
  <2>1. Mod(\h4b5, Word, g.gm) \in Fit(A, p)
    <3>1. \h4b5 \in A => p.reg[\h4b5] \in SUBSET Word
      BY Words DEF Calm
    <3> QED
      BY <1>1, <3>1 DEF Fit, Instr, Mod, GainFits
  <2>2. Mod(\h4fb, 0 .. 14, pad) \in Fit(A, p)
    BY <1>1, <1>2 DEF Fit, Instr, Mod, Word
  <2>3. Mod(\h439, 7 .. 9, g.dac) \in Fit(A, p)
    BY <1>1 DEF Fit, Instr, Mod, Word, Calm, GainFits
  <2> QED
    BY <2>1, <2>2, <2>3
<1>4. b \in Seq(Fit(A, p))
  BY <1>9
<1> DEFINE c == a \o b
<1>5. SetTxGain(p, g) = Run(p, c)
  BY DEF SetTxGain, pad
<1> HIDE DEF a, b
<1>7. c \in Seq(Fit(A, p))
  BY <1>3, <1>4, ConcatSeqs
<1> HIDE DEF c
<1> QED
  BY <1>5, <1>6, <1>7, KeptRun

\* set_pa_gain(), likewise.
LEMMA KeptPaGain ==
  ASSUME NEW p \in Phys, NEW A, Calm(A, p), NEW pa \in SUBSET Word,
         \h4fb \in A => pa \cap (8 .. 14) \subseteq p.reg[\h4fb]
  PROVE  Kept(A, p, SetPaGain(p, pa))
<1> DEFINE a == <<Mod(\h4fb, 8 .. 14, pa)>>
<1>1. a \in Seq(Fit(A, p))
  BY DEF Fit, Instr, Mod, Word
<1>2. SetPaGain(p, pa) = Run(p, a)
  BY DEF SetPaGain
<1> HIDE DEF a
<1> QED
  BY <1>1, <1>2, KeptRun DEF Calm

\* A board with temperature-based control, calm in A, is led to one that holds
\* the registers of A.
Apt(A, p) == p \in Phys /\ ~p.hw /\ Calm(A, p)
Held(A, p, q) == Apt(A, p) /\ Apt(A, q) /\ Board(p, q) /\ Kept(A, p, q)

\* What that says.
LEMMA HeldIs ==
  ASSUME NEW A, NEW p, NEW q, Held(A, p, q)
  PROVE  /\ p \in Phys /\ q \in Phys /\ Apt(A, p) /\ Apt(A, q) /\ Board(p, q) /\ q.fem = p.fem
         /\ Kept(A, p, q) /\ A \subseteq Regs
  BY DEF Held, Apt, Board, Calm

\* Routine after routine.
LEMMA HeldTwice ==
  ASSUME NEW A, NEW p, NEW q, NEW r, Held(A, p, q), Held(A, q, r) PROVE Held(A, p, r)
  BY BoardTwice, KeptTwice DEF Held

\* How it is shown.
LEMMA HeldBy ==
  ASSUME NEW A, NEW p, NEW q, Apt(A, p), Board(p, q), Kept(A, p, q) PROVE Held(A, p, q)
<1>1. q.fem = p.fem /\ q.hw = p.hw /\ q \in Phys
  BY DEF Board
<1>2. Calm(A, p)
  BY DEF Apt
<1>3. Calm(A, q)
  BY <1>1, <1>2, CalmKept
<1> QED
  BY <1>1, <1>3 DEF Held, Apt

\* A routine that writes what is not in a register.
LEMMA HeldReg ==
  ASSUME NEW A, NEW p, NEW q, Apt(A, p), Board(p, q), q.reg = p.reg PROVE Held(A, p, q)
  BY HeldBy, KeptReg

\* Fewer registers.
LEMMA AptLess == ASSUME NEW A, NEW B, B \subseteq A, NEW p, Apt(A, p) PROVE Apt(B, p)
  BY CalmLess DEF Apt

\* Fewer registers.
LEMMA HeldLess ==
  ASSUME NEW A, NEW B, B \subseteq A, NEW p, NEW q, Held(A, p, q) PROVE Held(B, p, q)
  BY AptLess, KeptLess DEF Held

\* More registers, that are back.
LEMMA GivenBack ==
  ASSUME NEW A, NEW B, NEW p, NEW q, Apt(A, p), Held(A \ B, p, q),
         \A b \in A \cap B : q.reg[b] = p.reg[b]
  PROVE  Held(A, p, q)
<1>1. Board(p, q) /\ Kept(A \ B, p, q)
  BY HeldIs
<1>2. Kept(A, p, q)
  BY <1>1 DEF Kept
<1> QED
  BY <1>1, <1>2, HeldBy

\* A sequence of accesses.
LEMMA HeldRun ==
  ASSUME NEW A, NEW p, Apt(A, p), NEW s \in Seq(Fit(A, p)) PROVE Held(A, p, Run(p, s))
<1>1. p \in Phys /\ A \subseteq Regs
  BY DEF Apt, Calm
<1>2. Plain(p, Run(p, s)) /\ Kept(A, p, Run(p, s))
  BY <1>1, KeptRun
<1>3. Board(p, Run(p, s))
  BY <1>2 DEF Plain, Board
<1> QED
  BY <1>2, <1>3, HeldBy

\* A sequence of accesses to other registers.
LEMMA HeldOutside ==
  ASSUME NEW A, NEW p, Apt(A, p), NEW s \in Seq(Outside(A)) PROVE Held(A, p, Run(p, s))
  BY OutsideFits, HeldRun

\* Gains.
LEMMA HeldGain ==
  ASSUME NEW A, NEW p, Apt(A, p), NEW g \in Gains, GainFits(A, p, g)
  PROVE  Held(A, p, SetTxGain(p, g))
<1>1. p \in Phys /\ Calm(A, p)
  BY DEF Apt
<1>2. Kept(A, p, SetTxGain(p, g))
  BY <1>1, KeptGain
<1>3. Board(p, SetTxGain(p, g))
  BY <1>1, StillGain, StillFixed, FixedBoard
<1> QED
  BY <1>2, <1>3, HeldBy

\* The PA's gain is the one in the register.
PaFits(A, p, pa) == \h4fb \in A => pa \cap (8 .. 14) \subseteq p.reg[\h4fb]

\* The PA's gain.
LEMMA HeldPaGain ==
  ASSUME NEW A, NEW p, Apt(A, p), NEW pa \in SUBSET Word, PaFits(A, p, pa)
  PROVE  Held(A, p, SetPaGain(p, pa))
<1>1. p \in Phys /\ Calm(A, p)
  BY DEF Apt
<1>2. Kept(A, p, SetPaGain(p, pa))
  BY <1>1, KeptPaGain DEF PaFits
<1>3. Board(p, SetPaGain(p, pa))
  BY <1>1, StillPaGain, StillFixed, FixedBoard
<1> QED
  BY <1>2, <1>3, HeldBy

\* A finite set of that many elements.
LEMMA StepsAtMost ==
  ASSUME NEW S, NEW f, f \in Seq(S), Len(f) \in 0 .. 31, \A x \in S : \E k \in 1 .. Len(f) : f[k] = x
  PROVE  IsFiniteSet(S) /\ Cardinality(S) <= 31
<1> DEFINE n == Len(f)
<1>1. f \in [1 .. n -> S]
  OBVIOUS
<1>2. f \in Surjection(1 .. n, S)
  BY <1>1 DEF Surjection
<1>3. ExistsSurjection(1 .. n, S)
  BY <1>2 DEF ExistsSurjection
<1>4. Cardinality(S) <= n
  BY <1>3, FS_SurjCardinalityBound
<1>5. IsFiniteSet(S)
  BY <1>2, FS_Interval, FS_Surjection
<1>6. n \in 0 .. 31
  OBVIOUS
<1>7. Cardinality(S) \in Nat
  BY <1>5, FS_CardinalityType
<1> HIDE DEF n
<1> QED
  BY <1>4, <1>5, <1>6, <1>7

\* The pad's gain has five bits.
LEMMA PadIs == ASSUME NEW fem \in BOOLEAN, NEW i PROVE Pad(fem, i) \in 0 .. 31
<1> DEFINE S == IF fem THEN ExtPaSteps ELSE IntPaSteps
           T == {s \in S : s < i}
<1>1. IsFiniteSet(S) /\ Cardinality(S) <= 31
  <2>1. IsFiniteSet(ExtPaSteps) /\ Cardinality(ExtPaSteps) <= 31
    <3> DEFINE f == <<2, 3, 4, 5, 6, 7, 8, 9, 11, 12, 18, 19, 21, 23, 25, 30, 32, 35, 37, 40, 44, 47, 51,
                      56, 61, 68, 75, 86, 100, 123>>
    <3>1. f \in Seq(ExtPaSteps) /\ Len(f) = 30
      BY DEF ExtPaSteps, CommonSteps
    <3>2. /\ f[1] = 2 /\ f[2] = 3 /\ f[3] = 4 /\ f[4] = 5 /\ f[5] = 6 /\ f[6] = 7 /\ f[7] = 8 /\ f[8] = 9
          /\ f[9] = 11 /\ f[10] = 12 /\ f[11] = 18 /\ f[12] = 19 /\ f[13] = 21 /\ f[14] = 23 /\ f[15] = 25 /\ f[16] = 30
          /\ f[17] = 32 /\ f[18] = 35 /\ f[19] = 37 /\ f[20] = 40 /\ f[21] = 44 /\ f[22] = 47 /\ f[23] = 51 /\ f[24] = 56
          /\ f[25] = 61 /\ f[26] = 68 /\ f[27] = 75 /\ f[28] = 86 /\ f[29] = 100 /\ f[30] = 123
      OBVIOUS
    <3>3. ASSUME NEW x \in ExtPaSteps PROVE \E k \in 1 .. Len(f) : f[k] = x
      <4>1. \/ x = 2 \/ x = 3 \/ x = 4 \/ x = 5 \/ x = 6 \/ x = 7 \/ x = 8 \/ x = 9
            \/ x = 11 \/ x = 12 \/ x = 18 \/ x = 19 \/ x = 21 \/ x = 23 \/ x = 25 \/ x = 30
            \/ x = 32 \/ x = 35 \/ x = 37 \/ x = 40 \/ x = 44 \/ x = 47 \/ x = 51 \/ x = 56
            \/ x = 61 \/ x = 68 \/ x = 75 \/ x = 86 \/ x = 100 \/ x = 123
        BY DEF ExtPaSteps, CommonSteps
      <4> HIDE DEF f
      <4>2. \/ f[1] = x \/ f[2] = x \/ f[3] = x \/ f[4] = x \/ f[5] = x \/ f[6] = x \/ f[7] = x \/ f[8] = x
            \/ f[9] = x \/ f[10] = x \/ f[11] = x \/ f[12] = x \/ f[13] = x \/ f[14] = x \/ f[15] = x \/ f[16] = x
            \/ f[17] = x \/ f[18] = x \/ f[19] = x \/ f[20] = x \/ f[21] = x \/ f[22] = x \/ f[23] = x \/ f[24] = x
            \/ f[25] = x \/ f[26] = x \/ f[27] = x \/ f[28] = x \/ f[29] = x \/ f[30] = x
        BY <3>2, <4>1
      <4>3. \A k \in 1 .. 30 : f[k] = x => \E m \in 1 .. Len(f) : f[m] = x
        BY <3>1
      <4> QED
        BY <4>2, <4>3, SMTT(60)
    <3>4. \A x \in ExtPaSteps : \E k \in 1 .. Len(f) : f[k] = x
      BY <3>3
    <3>5. Len(f) \in 0 .. 31
      BY <3>1
    <3> HIDE DEF f
    <3> QED
      BY <3>1, <3>4, <3>5, StepsAtMost, Zenon
  <2>2. IsFiniteSet(IntPaSteps) /\ Cardinality(IntPaSteps) <= 31
    <3> DEFINE f == <<2, 3, 4, 5, 6, 7, 8, 9, 11, 12, 18, 19, 21, 23, 25, 30, 32, 35, 37, 40, 44, 47, 51,
                      60, 69, 76, 86, 100>>
    <3>1. f \in Seq(IntPaSteps) /\ Len(f) = 28
      BY DEF IntPaSteps, CommonSteps
    <3>2. /\ f[1] = 2 /\ f[2] = 3 /\ f[3] = 4 /\ f[4] = 5 /\ f[5] = 6 /\ f[6] = 7 /\ f[7] = 8 /\ f[8] = 9
          /\ f[9] = 11 /\ f[10] = 12 /\ f[11] = 18 /\ f[12] = 19 /\ f[13] = 21 /\ f[14] = 23 /\ f[15] = 25 /\ f[16] = 30
          /\ f[17] = 32 /\ f[18] = 35 /\ f[19] = 37 /\ f[20] = 40 /\ f[21] = 44 /\ f[22] = 47 /\ f[23] = 51 /\ f[24] = 60
          /\ f[25] = 69 /\ f[26] = 76 /\ f[27] = 86 /\ f[28] = 100
      OBVIOUS
    <3>3. ASSUME NEW x \in IntPaSteps PROVE \E k \in 1 .. Len(f) : f[k] = x
      <4>1. \/ x = 2 \/ x = 3 \/ x = 4 \/ x = 5 \/ x = 6 \/ x = 7 \/ x = 8 \/ x = 9
            \/ x = 11 \/ x = 12 \/ x = 18 \/ x = 19 \/ x = 21 \/ x = 23 \/ x = 25 \/ x = 30
            \/ x = 32 \/ x = 35 \/ x = 37 \/ x = 40 \/ x = 44 \/ x = 47 \/ x = 51 \/ x = 60
            \/ x = 69 \/ x = 76 \/ x = 86 \/ x = 100
        BY DEF IntPaSteps, CommonSteps
      <4> HIDE DEF f
      <4>2. \/ f[1] = x \/ f[2] = x \/ f[3] = x \/ f[4] = x \/ f[5] = x \/ f[6] = x \/ f[7] = x \/ f[8] = x
            \/ f[9] = x \/ f[10] = x \/ f[11] = x \/ f[12] = x \/ f[13] = x \/ f[14] = x \/ f[15] = x \/ f[16] = x
            \/ f[17] = x \/ f[18] = x \/ f[19] = x \/ f[20] = x \/ f[21] = x \/ f[22] = x \/ f[23] = x \/ f[24] = x
            \/ f[25] = x \/ f[26] = x \/ f[27] = x \/ f[28] = x
        BY <3>2, <4>1
      <4>3. \A k \in 1 .. 28 : f[k] = x => \E m \in 1 .. Len(f) : f[m] = x
        BY <3>1
      <4> QED
        BY <4>2, <4>3, SMTT(60)
    <3>4. \A x \in IntPaSteps : \E k \in 1 .. Len(f) : f[k] = x
      BY <3>3
    <3>5. Len(f) \in 0 .. 31
      BY <3>1
    <3> HIDE DEF f
    <3> QED
      BY <3>1, <3>4, <3>5, StepsAtMost, Zenon
  <2> QED
    BY <2>1, <2>2
<1> HIDE DEF S
<1>2. T \in SUBSET S
  OBVIOUS
<1>3. IsFiniteSet(T) /\ Cardinality(T) <= Cardinality(S)
  BY <1>1, <1>2, FS_Subset
<1>4. Cardinality(T) \in Nat /\ Cardinality(S) \in Nat
  BY <1>1, <1>3, FS_CardinalityType
<1>5. Pad(fem, i) = 31 - Cardinality(T)
  BY DEF Pad, S
<1> QED
  BY <1>1, <1>3, <1>4, <1>5

\* So it fits below the PA's.
LEMMA PadBits == ASSUME NEW n \in 0 .. 255 PROVE Bits(n) \cap (8 .. 14) = {}
<1>1. /\ 2^(8 - 0) = 256 /\ 2^(9 - 0) = 512 /\ 2^(10 - 0) = 1024 /\ 2^(11 - 0) = 2048
      /\ 2^(12 - 0) = 4096 /\ 2^(13 - 0) = 8192 /\ 2^(14 - 0) = 16384
  OBVIOUS
<1>2. /\ n \div 256 = 0 /\ n \div 512 = 0 /\ n \div 1024 = 0 /\ n \div 2048 = 0
      /\ n \div 4096 = 0 /\ n \div 8192 = 0 /\ n \div 16384 = 0
  OBVIOUS
<1>3. /\ 8 \notin Bits(n) /\ 9 \notin Bits(n) /\ 10 \notin Bits(n) /\ 11 \notin Bits(n)
      /\ 12 \notin Bits(n) /\ 13 \notin Bits(n) /\ 14 \notin Bits(n)
  BY <1>1, <1>2 DEF Bits, Field
<1> QED
  BY <1>3

\* The gains of an index fit where the registers are calm.
LEMMA IndexFits ==
  ASSUME NEW A, NEW p, Apt(A, p), NEW q, q.fem = p.fem, NEW i PROVE GainFits(A, p, GainOf(q, i))
<1>1. p.fem \in BOOLEAN
  BY DEF Apt, Phys
<1>2. GainOf(q, i).gm = GainOf(p, 0).gm
  BY GainsOf
<1>3. \h4b5 \in A => GainOf(p, 0).gm \subseteq p.reg[\h4b5]
  BY DEF Apt, Calm
<1>4. GainOf(q, i).dac = {} /\ GainOf(q, i).pad = Bits(Pad(p.fem, i))
  BY DEF GainOf
<1>5. Pad(p.fem, i) \in 0 .. 255
  BY <1>1, PadIs
<1>6. GainOf(q, i).pad \cap (8 .. 14) = {}
  BY <1>4, <1>5, PadBits
<1> DEFINE g == GainOf(q, i)
<1> HIDE DEF g
<1>7. g.gm = GainOf(p, 0).gm /\ g.dac = {} /\ g.pad \cap (8 .. 14) = {}
  BY <1>2, <1>4, <1>6 DEF g
<1>8. GainFits(A, p, g)
  BY <1>3, <1>7 DEF GainFits
<1> QED
  BY <1>8 DEF g

\* So do the ones of the calibration.
LEMMA CalFits ==
  ASSUME NEW A, NEW p, Apt(A, p), NEW n \in 0 .. 255 PROVE GainFits(A, p, CalGain(n))
<1>1. CalGain(n).gm = 0 .. 2 /\ CalGain(n).dac = {} /\ CalGain(n).pad \cap (8 .. 14) = {}
  BY PadBits DEF CalGain
<1>2. \h4b5 \in A => 0 .. 2 \subseteq p.reg[\h4b5]
  BY DEF Apt, Calm
<1> DEFINE g == CalGain(n)
<1> HIDE DEF g
<1>3. g.gm = 0 .. 2 /\ g.dac = {} /\ g.pad \cap (8 .. 14) = {}
  BY <1>1 DEF g
<1>4. GainFits(A, p, g)
  BY <1>2, <1>3 DEF GainFits
<1> QED
  BY <1>4 DEF g

\* So do gains that were read while the registers held the same.
LEMMA ReadFits ==
  ASSUME NEW A, NEW p, NEW q, Held(A, p, q) PROVE GainFits(A, q, TxGain(p))
<1>1. p \in Phys /\ q \in Phys /\ A \subseteq Regs /\ Kept(A, p, q)
  BY HeldIs
<1>2. \h4b5 \in A => q.reg[\h4b5] = p.reg[\h4b5]
  BY <1>1, PartIs DEF Kept
<1>3. \h439 \in A => q.reg[\h439] = p.reg[\h439]
  BY <1>1, PartIs DEF Kept
<1> DEFINE g == TxGain(p)
<1>4. /\ g.gm = p.reg[\h4b5] /\ g.dac = p.reg[\h439] \cap (7 .. 9)
      /\ g.pad = p.reg[\h4fb] \cap (0 .. 7)
  BY DEF TxGain
<1> HIDE DEF g
<1>5. GainFits(A, q, g)
  BY <1>2, <1>3, <1>4 DEF GainFits
<1> QED
  BY <1>5 DEF g

\* The PA's gain, likewise.
LEMMA ReadPaFits ==
  ASSUME NEW A, NEW p, NEW q, Held(A, p, q) PROVE PaFits(A, q, PaGain(p))
<1>1. Kept(A, p, q)
  BY HeldIs
<1>2. \h4fb \in A => q.reg[\h4fb] \cap (8 .. 14) = p.reg[\h4fb] \cap (8 .. 14)
  BY <1>1, PartIs DEF Kept
<1> QED
  BY <1>2 DEF PaFits, PaGain

\* The PA's gain of an index.
LEMMA PaOfFits ==
  ASSUME NEW A, NEW p, Apt(A, p), NEW q, q.fem = p.fem PROVE PaFits(A, p, PaOf(q))
<1>1. PaOf(q) = PaOf(p)
  BY GainsOf
<1>2. \h4fb \in A => PaOf(p) \subseteq p.reg[\h4fb]
  BY DEF Apt, Calm
<1> QED
  BY <1>1, <1>2 DEF PaFits

\* The registers of software control that a mode may change.
Free(A) == \h4a9 \notin A /\ \h6da \notin A

\* Software control writes its index, and clocks that are calm otherwise.
LEMMA SoftFits ==
  ASSUME NEW A, NEW p, Calm(A, p), Free(A), NEW i
  PROVE  SoftCtrl(i) \in Seq(Fit(A, p))
<1> DEFINE w == Bits(2 * i)
<1>1. w \in SUBSET Word
  BY BitsAreWords
<1>2. \h4a4 \notin A /\ \h4b0 \notin A /\ \h43b \notin A /\ (\h6a3 \in A => p.reg[\h6a3] = {4})
  BY DEF Calm
<1>3. SoftCtrl(i) =
        <<Mod(\h4a4, {14}, {14}), Mod(\h4a4, {14}, {}), Or(\h6da, {6}),
          Mod(\h4a4, {15}, {15}), Mod(\h4a4, {14}, {14}), Mod(\h4a4, {13}, {13}),
          Mod(\h4b0, {7}, {}), Mod(\h43b, {6}, {}), Mod(\h4a9, {15}, {15}),
          Mod(\h4a9, 0 .. 8, w), Mod(\h6a3, {4}, {})>>
  BY DEF SoftCtrl
<1> HIDE DEF w
<1> QED
  BY <1>1, <1>2, <1>3, SMTT(60) DEF Fit, Instr, Mod, Or, Word, Free

\* set_tx_pwr_ctrl() without the hardware.
LEMMA HeldCtrl ==
  ASSUME NEW A, NEW p, Apt(A, p), NEW mode \in SUBSET ModeBits,
         mode = Hw => Free(A)
  PROVE  Held(A, p, SetTxPwrCtrl(p, mode))
<1>1. p \in Phys /\ ~p.hw /\ Calm(A, p)
  BY DEF Apt
<1>12. TxGainOverride(TRUE) \in Seq(Fit(A, p))
  BY <1>1, OverridesFit
<1> DEFINE old == EffectiveMode(p, Mode(p))
           new == EffectiveMode(p, mode)
           clocks == <<Mod(\h6da, {6}, If(new = Hw, {6})), Mod(\h6a3, {4}, If(new # Hw, {4}))>>
           soft == IF new = TempBased THEN SoftCtrl(TargetIndex(p)) ELSE <<>>
           head == IF new = Hw THEN HandOver(p) ELSE TxGainOverride(TRUE)
           switch == head \o <<Mod(\h4a4, ModeBits, new)>> \o soft
           part == IF old = new THEN <<>> ELSE switch
           s == clocks \o part
<1>2. new # Hw /\ new \in SUBSET Word /\ (new = TempBased => mode = Hw)
  BY <1>1, EffectiveModes
<1>3. SetTxPwrCtrl(p, mode).reg = Run(p, s).reg
  <2>1. SetTxPwrCtrl(p, mode) = IF old # new /\ new = TempBased
                                THEN [Run(p, s) EXCEPT !.current = ReadIndex(Run(p, s))] ELSE Run(p, s)
    BY DEF SetTxPwrCtrl
  <2>2. [Run(p, s) EXCEPT !.current = ReadIndex(Run(p, s))].reg = Run(p, s).reg
    <3>1. Run(p, s) = [p EXCEPT !.reg = Apply(p.reg, s)]
      BY DEF Run
    <3> HIDE DEF s
    <3> QED
      BY <1>1, <3>1 DEF Phys
  <2> HIDE DEF s
  <2> QED
    BY <2>1, <2>2
<1>4. clocks \in Seq(Fit(A, p))
  <2> HIDE DEF new
  <2>1. (\h6da \in A => p.reg[\h6da] \subseteq {6}) /\ (\h6a3 \in A => p.reg[\h6a3] = {4})
    BY <1>1 DEF Calm
  <2> QED
    BY <1>2, <2>1, SMTT(30) DEF Fit, Instr, Mod, If, Word
<1>5. soft \in Seq(Fit(A, p))
  <2>1. CASE new = TempBased
    BY <1>1, <1>2, <2>1, SoftFits
  <2>2. CASE new # TempBased
    BY <2>2
  <2> QED
    BY <2>1, <2>2
<1>6. switch \in Seq(Fit(A, p))
  <2>1. head \in Seq(Fit(A, p))
    BY <1>2, <1>12
  <2>2. Mod(\h4a4, ModeBits, new) \in Fit(A, p)
    <3> HIDE DEF new
    <3> QED
      BY <1>1, <1>2 DEF Calm, Fit, Instr, Mod, Word, ModeBits
  <2>3. <<Mod(\h4a4, ModeBits, new)>> \in Seq(Fit(A, p))
    BY <2>2
  <2> DEFINE mid == <<Mod(\h4a4, ModeBits, new)>>
  <2> HIDE DEF soft, head, mid
  <2> QED
    BY <1>5, <2>1, <2>3, ConcatSeqs DEF mid
<1> HIDE DEF clocks, switch, head
<1>7. part \in Seq(Fit(A, p))
  BY <1>6
<1> HIDE DEF part
<1>8. s \in Seq(Fit(A, p))
  BY <1>4, <1>7, ConcatSeqs
<1> HIDE DEF s
<1>9. Held(A, p, Run(p, s))
  BY <1>8, HeldRun
<1>10. Kept(A, p, SetTxPwrCtrl(p, mode))
  BY <1>3, <1>9, HeldIs DEF Kept
<1>11. Board(p, SetTxPwrCtrl(p, mode))
  BY <1>1, SetTxPwrCtrlIs, KeepsFixed, FixedBoard
<1> QED
  BY <1>10, <1>11, HeldBy

\* set_tx_pwr_by_index().
LEMMA HeldIndex ==
  ASSUME NEW A, NEW p, Apt(A, p), NEW i \in 0 .. 127 PROVE Held(A, p, SetTxPwrByIndex(p, i))
<1>1. p \in Phys /\ ~p.hw
  BY DEF Apt
<1> DEFINE p1 == [p EXCEPT !.current = i]
           off == SetTxPwrCtrl(p1, Off)
           gained == SetTxGain(off, GainOf(p, i))
           pa == SetPaGain(gained, PaOf(p))
           set == Run(pa, TxGainOverride(TRUE))
           q == SetTxPwrByIndex(p, i)
<1>2. Held(A, p, p1)
  <2>1. Keeps(p, p1) /\ p1.reg = p.reg
    BY <1>1, NewCurrent
  <2> QED
    BY <2>1, KeepsFixed, FixedBoard, HeldReg
<1> HIDE DEF p1
<1>3. Held(A, p1, off)
  BY <1>2, HeldIs, SoftIs, HeldCtrl
<1> HIDE DEF off
<1>4. Held(A, p, off) /\ off.fem = p.fem
  BY <1>2, <1>3, HeldTwice, HeldIs
<1>5. Held(A, off, gained)
  <2>1. GainFits(A, off, GainOf(p, i)) /\ Apt(A, off)
    BY <1>4, HeldIs, IndexFits
  <2>2. GainOf(p, i) \in Gains
    BY <1>1, TheGains
  <2> QED
    BY <2>1, <2>2, HeldGain
<1> HIDE DEF gained
<1>6. Held(A, p, gained) /\ gained.fem = p.fem
  BY <1>4, <1>5, HeldTwice, HeldIs
<1>7. Held(A, gained, pa)
  <2>1. PaFits(A, gained, PaOf(p)) /\ Apt(A, gained)
    BY <1>6, HeldIs, PaOfFits
  <2>2. PaOf(p) \in SUBSET Word
    BY <1>1, TheGains
  <2> QED
    BY <2>1, <2>2, HeldPaGain
<1> HIDE DEF pa
<1>8. Held(A, pa, set)
  <2>1. Apt(A, pa) /\ Calm(A, pa)
    BY <1>7, HeldIs DEF Apt
  <2>2. TxGainOverride(TRUE) \in Seq(Fit(A, pa))
    BY <2>1, OverridesFit
  <2> QED
    BY <2>1, <2>2, HeldRun
<1>9. Held(A, p, set)
  BY <1>6, <1>7, <1>8, HeldTwice
<1>10. q.reg = set.reg
  <2>1. q = [set EXCEPT !.bbmult = <<"index", i>>, !.coef = IF p.hw THEN p.coefs ELSE set.coef]
    BY DEF SetTxPwrByIndex, set, pa, gained, off, p1
  <2>2. set \in Phys
    BY <1>9, HeldIs
  <2> HIDE DEF set, q
  <2> QED
    BY <2>1, <2>2 DEF Phys
<1>11. Board(p, q)
  BY <1>1, SetTxPwrByIndexIs, KeepsFixed, FixedBoard DEF Indexed
<1> HIDE DEF set, q
<1>12. Kept(A, p, q)
  BY <1>9, <1>10, HeldIs DEF Kept
<1> QED
  BY <1>11, <1>12, HeldBy DEF q

-----------------------------------------------------------------------------
(* The stages of a TX calibration, and what they hold.                     *)

\* The registers A have none of B.
Apart(A, B) == A \cap B = {}

\* What that says.
LEMMA ApartIs ==
  /\ \A A, B : Apart(A \ B, B)
  /\ \A A, B, C : Apart(A, B) /\ C \subseteq B => Apart(A, C)
  /\ \A A, B, C : Apart(A, B) /\ C \subseteq A => Apart(C, B)
  BY DEF Apart

\* No samples start unless their register is written.
LEMMA SamplesKept ==
  ASSUME NEW A, NEW p, NEW q, Held(A, p, q), \h63f \in A PROVE SamplesPlay(q) = SamplesPlay(p)
<1>1. q.reg[\h63f] = p.reg[\h63f]
  BY HeldIs, PartIs DEF Kept
<1> QED
  BY <1>1 DEF SamplesPlay

\* Gains fit later if they fit before, ...
LEMMA FitsLater ==
  ASSUME NEW A, NEW p, NEW q, Held(A, p, q), NEW g, GainFits(A, p, g) PROVE GainFits(A, q, g)
<1>1. \A a \in A : a # \h4fb => q.reg[a] = p.reg[a]
  BY HeldIs, PartIs DEF Kept
<1>2. \h4b5 \in A => q.reg[\h4b5] = p.reg[\h4b5]
  BY <1>1
<1>3. \h439 \in A => q.reg[\h439] = p.reg[\h439]
  BY <1>1
<1> QED
  BY <1>2, <1>3 DEF GainFits

\* ... and fewer registers.
LEMMA FitsLess ==
  ASSUME NEW A, NEW B, B \subseteq A, NEW p, NEW g, GainFits(A, p, g) PROVE GainFits(B, p, g)
  BY DEF GainFits

\* The clocks and the mode that tx_iqlo_cal() begins with.
Clocked(p) ==
  Run(p, <<Or(\h6da, {6}), Or(\h6db, {0, 1}), Wr(\h6da, Word), Mod(\h503, {3}, {3}),
           Mod(\h4a4, {12}, {12})>>)

\* It holds the others.
LEMMA HeldClocked ==
  ASSUME NEW A, NEW p, Apt(A, p), Apart(A, {\h6da, \h6db}) PROVE Held(A, p, Clocked(p))
<1> DEFINE s == <<Or(\h6da, {6}), Or(\h6db, {0, 1}), Wr(\h6da, Word), Mod(\h503, {3}, {3}),
                  Mod(\h4a4, {12}, {12})>>
<1>1. \h6da \notin A /\ \h6db \notin A /\ \h4a4 \notin A /\ (\h503 \in A => p.reg[\h503] = {3})
  BY DEF Apart, Apt, Calm
<1>2. s \in Seq(Fit(A, p))
  BY <1>1, SMTT(30) DEF Fit, Instr, Mod, Or, Wr, Word
<1> HIDE DEF s
<1>3. Clocked(p) = Run(p, s)
  BY DEF Clocked, s
<1> QED
  BY <1>2, <1>3, HeldRun

\* The power-control override.
LentBy(p) == Run(p, <<Mod(\h4db, 0 .. 9, Bits(\h2a6)), Mod(\h4db, 12 .. 14, {13})>>)

\* It holds the others.
LEMMA HeldLent == ASSUME NEW A, NEW p, Apt(A, p), Apart(A, {\h4db}) PROVE Held(A, p, LentBy(p))
<1> DEFINE w == Bits(\h2a6)
           s == <<Mod(\h4db, 0 .. 9, w), Mod(\h4db, 12 .. 14, {13})>>
<1>1. w \in SUBSET Word /\ \h4db \notin A
  BY BitsAreWords DEF Apart
<1>2. LentBy(p) = Run(p, s)
  BY DEF LentBy
<1> HIDE DEF w
<1>3. s \in Seq(Outside(A))
  BY <1>1, SMTT(30) DEF Outside, Instr, Mod, Word
<1> HIDE DEF s
<1> QED
  BY <1>2, <1>3, HeldOutside

\* The registers that the loopback writes, but the overrides.
Lease == LoopbackRegs \cup {\h44d}

\* It holds the others.
LEMMA HeldLooped ==
  ASSUME NEW A, NEW p, Apt(A, p), Apart(A, Lease) PROVE Held(A, p, Run(p, Loopback))
<1>1. /\ \h44c \notin A /\ \h43b \notin A /\ (\h43c \in A => p.reg[\h43c] = {})
      /\ \h44d \notin A /\ \A a \in LoopbackRegs : a \notin A
  BY DEF Apart, Apt, Calm, Lease
<1>2. /\ R(\h036) \notin A /\ R(\h11a) \notin A /\ R(\h03a) \notin A /\ R(\h025) \notin A
      /\ R(\h028) \notin A /\ R(\h005) \notin A /\ R(\h112) \notin A /\ R(\h0ff) \notin A
      /\ R(\h11f) \notin A /\ R(\h00b) \notin A /\ R(\h113) \notin A /\ R(\h007) \notin A
      /\ R(\h0fc) \notin A /\ R(\h0fd) \notin A /\ R(\h012) \notin A /\ R(\h057) \notin A
      /\ R(\h059) \notin A /\ R(\h05c) \notin A /\ R(\h078) \notin A /\ R(\h092) \notin A
  BY <1>1 DEF LoopbackRegs, R
<1>3. Loopback \in Seq(Fit(A, p))
  BY <1>1, <1>2, BitsAreWords, SMTT(90) DEF Loopback, Fit, Instr, Mod, Wr, Or, And, R, Word
<1> QED
  BY <1>3, HeldRun

\* The overrides fit.
LEMMA AptOverrides ==
  ASSUME NEW A, NEW p, Apt(A, p)
  PROVE  /\ TxGainOverride(TRUE) \in Seq(Fit(A, p)) /\ TxGainOverride(FALSE) \in Seq(Fit(A, p))
         /\ DeafMode(TRUE) \in Seq(Fit(A, p)) /\ DeafMode(FALSE) \in Seq(Fit(A, p))
  BY OverridesFit DEF Apt

\* The registers of that tone.
IqcalTones == {\h6da, \h453, R(\h112)}

\* The tone of the IQ calibration.
LEMMA ToneFits ==
  ASSUME NEW A, NEW p, Apt(A, p), Apart(A, IqcalTones)
  PROVE  IqcalToneProg \in Seq(Fit(A, p))
<1>1. DeafMode(TRUE) \in Seq(Fit(A, p))
  BY AptOverrides
<1> DEFINE w == Bits(\haa9)
           a == <<Wr(\h453, w)>>
           b == <<Mod(\h6d6, {0, 1}, {}), Mod(\h6da, {3}, {3})>>
           c == <<Or(\h6da, {7, 15})>>
           d == <<And(\h453, 0 .. 14), Or(\h453, {15})>>
           e == <<Or(R(\h112), {1, 2})>>
           f == <<Wr(\h6da, Word)>>
           deaf == DeafMode(TRUE)
<1>0. Calm(A, p)
  BY DEF Apt
<1>2. /\ \h6da \notin A /\ \h453 \notin A /\ R(\h112) \notin A
      /\ (\h6d6 \in A => p.reg[\h6d6] \subseteq {0, 1})
  BY <1>0 DEF Apart, Calm, IqcalTones
<1>3. w \in SUBSET Word
  BY BitsAreWords
<1>4. IqcalToneProg = a \o (deaf \o b \o (c \o d \o e)) \o f
  BY DEF IqcalToneProg, StartTxTone, RunSamples
<1> HIDE DEF w
<1>5. /\ a \in Seq(Fit(A, p)) /\ b \in Seq(Fit(A, p)) /\ c \in Seq(Fit(A, p))
      /\ d \in Seq(Fit(A, p)) /\ e \in Seq(Fit(A, p)) /\ f \in Seq(Fit(A, p))
  BY <1>2, <1>3, SMTT(60) DEF Fit, Instr, Mod, Wr, Or, And, R, Word
<1> DEFINE S == Seq(Fit(A, p))
<1> HIDE DEF a, b, c, d, e, f, deaf
<1>6. \A x, y \in S : x \o y \in S
  BY ConcatSeqs
<1> HIDE DEF S
<1>7. a \in S /\ b \in S /\ c \in S /\ d \in S /\ e \in S /\ f \in S /\ deaf \in S
  BY <1>1, <1>5 DEF S, deaf
<1>8. c \o d \o e \in S
  BY <1>6, <1>7
<1>9. deaf \o b \o (c \o d \o e) \in S
  BY <1>6, <1>7, <1>8
<1>10. a \o (deaf \o b \o (c \o d \o e)) \o f \in S
  BY <1>6, <1>7, <1>9
<1> QED
  BY <1>4, <1>10 DEF S

\* What samples that were played leave alone.
Unplayed == {\h453, \h503, \h4b5}

\* The clocks that a tone needs.
ToneClock == {\h6da}

\* When samples play, the registers A are among these.
Quietly(A, p) == SamplesPlay(p) => A \subseteq Unplayed

\* stop_tx_tone(): when samples play, less stays.
LEMMA HeldStop ==
  ASSUME NEW A, NEW p, Apt(A, p), Apart(A, ToneClock), Quietly(A, p)
  PROVE  Held(A, p, StopTxTone(p))
<1>1. DeafMode(FALSE) \in Seq(Fit(A, p))
  BY AptOverrides
<1>2. \h6da \notin A /\ (\h6d6 \in A => 0 \in p.reg[\h6d6] /\ p.reg[\h6d6] \subseteq {0, 1})
      /\ (R(\h112) \in A => p.reg[R(\h112)] \cap {1, 2} = {}) /\ (\h453 \in A => p.reg[\h453] = {})
      /\ A \subseteq Regs
  BY DEF Apart, Apt, Calm, ToneClock
<1>3. R(\h112) \in A => p.reg[R(\h112)] \in SUBSET Word
  BY <1>2, Words DEF Apt
<1> DEFINE i == <<Mod(\h453, {15}, {})>>
           z == TxPuOff \o <<Mod(\h63f, {1}, {1})>>
           head == IF SamplesPlay(p) THEN z ELSE IF IqcalPlays(p) THEN i ELSE <<>>
           tail == <<Mod(\h6d6, {0, 1}, {0}), Mod(\h6da, {3}, {}), Mod(\h6da, {7}, {}),
                     Mod(R(\h112), Word \ {1, 2}, {})>>
           deaf == DeafMode(FALSE)
<1>4. i \in Seq(Fit(A, p)) /\ tail \in Seq(Fit(A, p))
  BY <1>2, <1>3, SMTT(60) DEF Fit, Instr, Mod, R, Word
<1>5. ASSUME SamplesPlay(p) PROVE z \in Seq(Fit(A, p))
  <2>1. z \in Seq(Outside(Unplayed))
    <3>1. TxPuOff \in Seq(Outside(Unplayed))
      BY SMTT(30) DEF TxPuOff, Outside, Instr, Mod, And, Word, Unplayed
    <3>2. <<Mod(\h63f, {1}, {1})>> \in Seq(Outside(Unplayed))
      BY SMTT(30) DEF Outside, Instr, Mod, Word, Unplayed
    <3> QED
      BY <3>1, <3>2, ConcatSeqs
  <2>2. Outside(Unplayed) \subseteq Outside(A)
    BY <1>5 DEF Outside, Quietly
  <2> HIDE DEF z
  <2>3. z \in Seq(Outside(A))
    BY <2>1, <2>2, SeqSubset
  <2> QED
    BY <2>3, OutsideFits
<1> HIDE DEF i, z, tail
<1>6. head \in Seq(Fit(A, p))
  BY <1>4, <1>5
<1>7. StopTxTone(p) = Run(p, head \o tail \o deaf)
  BY DEF StopTxTone, head, tail, deaf, i, z
<1>8. deaf \in Seq(Fit(A, p))
  BY <1>1
<1> HIDE DEF head, deaf
<1> DEFINE s == head \o tail \o deaf
<1>9. s \in Seq(Fit(A, p))
  <2>1. head \o tail \in Seq(Fit(A, p))
    BY <1>4, <1>6, ConcatSeqs
  <2> QED
    BY <1>8, <2>1, ConcatSeqs
<1> HIDE DEF s
<1>10. Held(A, p, Run(p, s))
  BY <1>9, HeldRun
<1> QED
  BY <1>7, <1>10 DEF s

\* The end of the loopback.
LEMMA HeldCleanup ==
  ASSUME NEW A, NEW p, Apt(A, p), NEW old \in Phys, Apart(A, LoopbackRegs)
  PROVE  Held(A, p, LoopbackCleanup(p, old))
<1> DEFINE s == <<And(\h44c, {}), And(\h43b, {2, 3})>>
           a == Run(p, s)
           q == Restore(a, old, LoopbackRegs)
<1>1. \h44c \notin A /\ \h43b \notin A
  BY DEF Apt, Calm
<1>2. s \in Seq(Outside(A))
  BY <1>1, SMTT(30) DEF Outside, Instr, Mod, And, Word
<1>3. LoopbackCleanup(p, old) = q
  BY DEF LoopbackCleanup
<1> HIDE DEF s
<1>4. Held(A, p, a)
  BY <1>2, HeldOutside
<1> HIDE DEF a
<1>5. a \in Phys /\ A \subseteq Regs /\ Apt(A, a)
  BY <1>4, HeldIs
<1>6. Kept(A, a, q)
  <2>1. \A x \in A \cap LoopbackRegs : Part(x, old.reg[x]) = Part(x, a.reg[x])
    BY DEF Apart
  <2> QED
    BY <1>5, <2>1, KeptRestore
<1>7. Board(a, q)
  BY <1>5, LoopbackIs, StillRestore, StillFixed, FixedBoard
<1> HIDE DEF q
<1>8. Held(A, a, q)
  BY <1>5, <1>6, <1>7, HeldBy
<1> QED
  BY <1>3, <1>4, <1>8, HeldTwice

\* The registers of the loopback are as they were before it.
LEMMA CleanupRestores ==
  ASSUME NEW p \in Phys, NEW old, NEW a \in LoopbackRegs
  PROVE  LoopbackCleanup(p, old).reg[a] = old.reg[a]
<1> DEFINE s == <<And(\h44c, {}), And(\h43b, {2, 3})>>
           r == Run(p, s)
<1>0. s \in Seq(Elsewhere)
  BY LoopbackSequences
<1> HIDE DEF s
<1>1. r \in Phys
  BY <1>0, StillRun, StillIs
<1>2. LoopbackCleanup(p, old) = Restore(r, old, LoopbackRegs)
  BY DEF LoopbackCleanup, s
<1> HIDE DEF r
<1>3. a \in DOMAIN r.reg
  <2>1. LoopbackRegs \subseteq Regs
    BY DEF Regs
  <2> QED
    BY <1>1, <2>1 DEF Phys
<1> DEFINE f == [x \in DOMAIN r.reg |-> IF x \in LoopbackRegs THEN old.reg[x] ELSE r.reg[x]]
<1>4. Restore(r, old, LoopbackRegs) = [r EXCEPT !.reg = f]
  BY DEF Restore
<1>5. f[a] = old.reg[a]
  BY <1>3
<1> HIDE DEF f
<1>6. [r EXCEPT !.reg = f].reg = f
  BY <1>1 DEF Phys
<1> QED
  BY <1>2, <1>4, <1>5, <1>6

\* The gains, the tone and the commands of the calibration.
Tried(p, gains, o) == Store(Run(SetTxGain(p, gains), IqcalToneProg), o)

\* What it holds.
LEMMA HeldTried ==
  ASSUME NEW A, NEW p, Apt(A, p), NEW gains \in Gains, GainFits(A, p, gains), NEW o \in Outcomes,
         Apart(A, IqcalTones)
  PROVE  Held(A, p, Tried(p, gains, o))
<1> DEFINE a == SetTxGain(p, gains)
           b == Run(a, IqcalToneProg)
           q == Store(b, o)
<1>1. Held(A, p, a)
  BY HeldGain
<1> HIDE DEF a
<1>2. Apt(A, a)
  BY <1>1, HeldIs
<1>3. Held(A, a, b)
  BY <1>2, ToneFits, HeldRun
<1> HIDE DEF b
<1>4. Apt(A, b) /\ b \in Phys
  BY <1>3, HeldIs
<1>5. q.reg = b.reg
  <2>1. [b EXCEPT !.coef = o.coef].reg = b.reg
    BY <1>4 DEF Phys
  <2> QED
    BY <2>1 DEF Store
<1>6. Board(b, q)
  BY <1>4, StoreIs, FixedBoard
<1>7. Held(A, b, q)
  BY <1>4, <1>5, <1>6, HeldReg
<1>8. Held(A, p, q)
  BY <1>1, <1>3, <1>7, HeldTwice
<1> QED
  BY <1>8 DEF Tried, q, b, a

-----------------------------------------------------------------------------
(* What the stages leave calm.                                             *)

\* Calm in both.
LEMMA AptBoth == ASSUME NEW A, NEW B, NEW p, Apt(A, p), Apt(B, p) PROVE Apt(A \cup B, p)
<1>1. Calm(A, p) /\ Calm(B, p) /\ p \in Phys /\ ~p.hw
  BY DEF Apt
<1>2. Calm(A \cup B, p)
  BY <1>1 DEF Calm
<1> QED
  BY <1>1, <1>2 DEF Apt

\* A sequence leads from PHY to PHY.
LEMMA RunPhys ==
  ASSUME NEW p \in Phys, ~p.hw, NEW s \in Progs PROVE Run(p, s) \in Phys /\ ~Run(p, s).hw
  BY RunIs DEF Progs, Plain

\* The enables of a tone's samples and of its mixer.
Enable == {\h6d6}
Mixer == {R(\h112)}
Stops == {\h6d6, R(\h112)}

\* Whatever plays, stop_tx_tone() leaves them calm.
LEMMA StopLeaves ==
  ASSUME NEW p \in Phys, ~p.hw PROVE Apt(Stops, StopTxTone(p))
<1> DEFINE i == <<Mod(\h453, {15}, {})>>
           y == <<Mod(\h63f, {1}, {1})>>
           head == IF SamplesPlay(p) THEN TxPuOff \o y ELSE IF IqcalPlays(p) THEN i ELSE <<>>
           a == Mod(\h6d6, {0, 1}, {0})
           b == Mod(\h6da, {3}, {})
           c == Mod(\h6da, {7}, {})
           d == Mod(R(\h112), Word \ {1, 2}, {})
           tail == <<a, b, c, d>>
           two == <<b, c>>
           deaf == DeafMode(FALSE)
           r0 == Run(p, head)
           r1 == Run(r0, <<a>>)
           r2 == Run(r1, two)
           r3 == Run(r2, <<d>>)
           q == Run(r3, deaf)
<1>1. head \in Progs
  <2>1. i \in Progs /\ y \in Progs
    BY SMTT(30) DEF Progs, Instr, Mod, Word
  <2>2. TxPuOff \in Progs
    BY TxPu, ProgsAre
  <2> HIDE DEF i, y
  <2>3. TxPuOff \o y \in Progs
    BY <2>1, <2>2, ConcatSeqs DEF Progs
  <2>4. <<>> \in Progs
    BY DEF Progs
  <2> QED
    BY <2>1, <2>3, <2>4
<1>2. /\ a \in Instr /\ a.addr = \h6d6 /\ a.keep = {0, 1} /\ a.set = {0}
      /\ b \in Outside(Stops) /\ c \in Outside(Stops)
      /\ d \in Outside(Enable) /\ d \in Instr /\ d.addr = R(\h112) /\ d.keep = Word \ {1, 2} /\ d.set = {}
  BY SMTT(30) DEF Outside, Stops, Enable, Instr, Mod, Word, R
<1>3. deaf \in Progs /\ deaf \in Seq(Outside(Stops))
  <2>1. deaf \in Seq(Outside(Stops))
    BY SMTT(30) DEF DeafMode, Outside, Stops, Instr, Mod, Word, R, If
  <2>2. Outside(Stops) \subseteq Instr
    BY DEF Outside
  <2> HIDE DEF deaf
  <2> QED
    BY <2>1, <2>2, SeqSubset DEF Progs
<1>4. StopTxTone(p) = Run(p, head \o tail \o deaf)
  BY DEF StopTxTone
<1> HIDE DEF head, deaf, a, b, c, d
<1>5. tail = <<a>> \o two \o <<d>>
  OBVIOUS
<1>6. <<a>> \in Progs /\ two \in Progs /\ <<d>> \in Progs /\ two \in Seq(Outside(Stops))
      /\ <<d>> \in Seq(Outside(Enable))
  <2>1. b \in Instr /\ c \in Instr
    BY <1>2 DEF Outside
  <2> QED
    BY <1>2, <2>1 DEF Progs
<1> DEFINE sa == <<a>>
           sd == <<d>>
<1> HIDE DEF tail, two, sa, sd
<1>7. tail \in Progs /\ head \o tail \in Progs /\ sa \o two \in Progs
  BY <1>1, <1>5, <1>6, ConcatSeqs DEF Progs, sa, sd
<1>8. r0 \in Phys /\ ~r0.hw
  BY <1>1, RunPhys
<1> HIDE DEF r0
<1>9. r1 \in Phys /\ ~r1.hw /\ Apt(Enable, r1)
  <2>1. r1 \in Phys /\ ~r1.hw
    BY <1>6, <1>8, RunPhys DEF sa
  <2>2. \h6d6 \in Regs
    BY DEF Regs
  <2>3. r1.reg[\h6d6] = (r0.reg[\h6d6] \cap {0, 1}) \cup {0}
    <3>1. \A x \in Regs : r1.reg[x] = IF x = a.addr THEN (r0.reg[x] \cap a.keep) \cup a.set ELSE r0.reg[x]
      BY <1>2, <1>8, RunOne
    <3> HIDE DEF r1
    <3> QED
      BY <1>2, <2>2, <3>1
  <2> HIDE DEF r1
  <2> QED
    BY <2>1, <2>2, <2>3, SMTT(30) DEF Apt, Calm, R, Enable, Mixer
<1> HIDE DEF r1
<1>10. Held(Enable, r1, r2) /\ r2 \in Phys /\ ~r2.hw
  <2>1. Outside(Stops) \subseteq Outside(Enable)
    BY DEF Outside, Stops, Enable
  <2>2. two \in Seq(Outside(Enable))
    BY <1>6, <2>1, SeqSubset
  <2>3. Held(Enable, r1, r2)
    BY <1>9, <2>2, HeldOutside
  <2> QED
    BY <2>3, HeldIs DEF Apt
<1> HIDE DEF r2
<1>11. Held(Enable, r2, r3)
  BY <1>6, <1>10, HeldIs, HeldOutside
<1>12. Apt(Enable, r3) /\ r3 \in Phys /\ ~r3.hw
  BY <1>11, HeldIs DEF Apt
<1>13. Apt(Mixer, r3)
  <2>1. R(\h112) \in Regs
    BY DEF Regs, LoopbackRegs
  <2>2. r3.reg[R(\h112)] = (r2.reg[R(\h112)] \cap (Word \ {1, 2})) \cup {}
    <3>1. \A x \in Regs : r3.reg[x] = IF x = d.addr THEN (r2.reg[x] \cap d.keep) \cup d.set ELSE r2.reg[x]
      BY <1>2, <1>10, RunOne
    <3> HIDE DEF r3
    <3>2. d.addr \in Regs /\ d.addr = R(\h112) /\ d.keep = Word \ {1, 2} /\ d.set = {}
      BY <1>2, <2>1
    <3>3. r3.reg[d.addr] = (r2.reg[d.addr] \cap d.keep) \cup d.set
      BY <3>1, <3>2
    <3> QED
      BY <3>2, <3>3
  <2>3. r3.reg[R(\h112)] \cap {1, 2} = {}
    BY <2>2
  <2> HIDE DEF r3
  <2> QED
    BY <1>12, <2>1, <2>3, SMTT(30) DEF Apt, Calm, R, Enable, Mixer
<1> HIDE DEF r3
<1>14. Apt(Stops, r3)
  <2>1. Stops = Enable \cup Mixer
    BY DEF Stops, Enable, Mixer
  <2> QED
    BY <1>12, <1>13, <2>1, AptBoth
<1>15. Held(Stops, r3, q)
  BY <1>3, <1>14, HeldOutside
<1> HIDE DEF q
<1>16. StopTxTone(p) = q
  <2>1. Run(p, head \o tail \o deaf) = Run(Run(p, head \o tail), deaf)
    BY <1>3, <1>7, RunTwice
  <2>2. Run(p, head \o tail) = Run(r0, tail)
    BY <1>1, <1>7, RunTwice DEF r0
  <2>3. Run(r0, tail) = Run(Run(r0, sa \o two), sd)
    BY <1>5, <1>6, <1>7, <1>8, RunTwice DEF sa, sd
  <2>4. Run(r0, sa \o two) = r2
    BY <1>6, <1>8, RunTwice DEF sa, r1, r2
  <2> QED
    BY <1>4, <2>1, <2>2, <2>3, <2>4 DEF q, r3, sd
<1> QED
  BY <1>15, <1>16, HeldIs

\* A register that is held.
LEMMA HeldAt ==
  ASSUME NEW A, NEW p, NEW q, Held(A, p, q), NEW a \in A, a # \h4fb PROVE q.reg[a] = p.reg[a]
  BY HeldIs, PartIs DEF Kept

\* Writing back registers leaves the others.
LEMMA HeldRestore ==
  ASSUME NEW A, NEW p, Apt(A, p), NEW old \in Phys, NEW B, Apart(A, B), B \cap (Tones \cup Power) = {}
  PROVE  Held(A, p, Restore(p, old, B))
<1>1. p \in Phys /\ A \subseteq Regs
  BY DEF Apt, Calm
<1>2. \A a \in A \cap B : Part(a, old.reg[a]) = Part(a, p.reg[a])
  BY DEF Apart
<1>3. Kept(A, p, Restore(p, old, B))
  BY <1>1, <1>2, KeptRestore
<1>4. Board(p, Restore(p, old, B))
  BY <1>1, StillRestore, StillFixed, FixedBoard
<1> QED
  BY <1>3, <1>4, HeldBy

\* What is written back is there.
LEMMA RestoredAt ==
  ASSUME NEW p \in Phys, NEW old, NEW B, B \subseteq Regs, NEW a \in B
  PROVE  Restore(p, old, B).reg[a] = old.reg[a]
<1> DEFINE f == [x \in DOMAIN p.reg |-> IF x \in B THEN old.reg[x] ELSE p.reg[x]]
<1>1. Restore(p, old, B) = [p EXCEPT !.reg = f]
  BY DEF Restore
<1>2. f[a] = old.reg[a]
  BY DEF Phys
<1> HIDE DEF f
<1>3. [p EXCEPT !.reg = f].reg = f
  BY DEF Phys
<1> QED
  BY <1>1, <1>2, <1>3

\* The end of tx_iqlo_cal(), but the mode.
Closed(p, looped, old) ==
  IF TxGainOverridden(looped) THEN SetTxGain(Run(p, IqcalEnd(old)), TxGain(looped))
  ELSE Run(p, IqcalEnd(old))

\* The register of the power-control override.
Override == {\h4db}

\* The end holds the others.
LEMMA HeldClosed ==
  ASSUME NEW A, NEW p, Apt(A, p), NEW looped \in Phys, NEW old \in Files,
         GainFits(A, p, TxGain(looped)), Apart(A, Override)
  PROVE  Held(A, p, Closed(p, looped, old))
<1> DEFINE w == old[\h4db]
           s == <<Wr(\h4db, w), Wr(\h453, {})>>
           e == Run(p, s)
           g == TxGain(looped)
<1>1. w \in SUBSET Word /\ \h4db \notin A /\ (\h453 \in A => p.reg[\h453] = {})
  BY DEF Files, Regs, Apart, Override, Apt, Calm
<1>2. IqcalEnd(old) = s
  BY DEF IqcalEnd
<1> HIDE DEF w
<1>3. s \in Seq(Fit(A, p))
  BY <1>1, SMTT(30) DEF Fit, Instr, Wr, Word
<1> HIDE DEF s
<1>4. Held(A, p, e)
  BY <1>3, HeldRun
<1> HIDE DEF e
<1>5. GainFits(A, e, g) /\ Apt(A, e) /\ g \in Gains
  BY <1>4, FitsLater, HeldIs, TheGains
<1> HIDE DEF g
<1>6. Held(A, e, SetTxGain(e, g))
  BY <1>5, HeldGain
<1>7. Held(A, p, SetTxGain(e, g))
  BY <1>4, <1>6, HeldTwice
<1> QED
  BY <1>2, <1>4, <1>7 DEF Closed, e, g

\* One access.
LEMMA RunAt ==
  ASSUME NEW p \in Phys, ~p.hw, NEW m \in Instr, m.addr \in Regs
  PROVE  /\ Run(p, <<m>>) \in Phys /\ ~Run(p, <<m>>).hw
         /\ Run(p, <<m>>).reg[m.addr] = (p.reg[m.addr] \cap m.keep) \cup m.set
         /\ \A x \in Regs : x # m.addr => Run(p, <<m>>).reg[x] = p.reg[x]
<1> DEFINE q == Run(p, <<m>>)
<1>1. <<m>> \in Progs
  BY DEF Progs
<1>2. q \in Phys /\ ~q.hw
  BY <1>1, RunPhys
<1>3. \A x \in Regs : q.reg[x] = IF x = m.addr THEN (p.reg[x] \cap m.keep) \cup m.set ELSE p.reg[x]
  BY RunOne
<1> HIDE DEF q
<1>4. q.reg[m.addr] = (p.reg[m.addr] \cap m.keep) \cup m.set /\ \A x \in Regs : x # m.addr => q.reg[x] = p.reg[x]
  BY <1>3
<1> QED
  BY <1>2, <1>4 DEF q

\* The tone and the override of the IQ calibration.
IqTone == {\h453}
IqEnds == {\h453, \h4db}

\* The override is back, and the tone is off.
LEMMA ClosedLeaves ==
  ASSUME NEW p \in Phys, ~p.hw, NEW looped \in Phys, NEW old \in Files
  PROVE  Apt(IqTone, Closed(p, looped, old)) /\ Closed(p, looped, old).reg[\h4db] = old[\h4db]
<1> DEFINE w == old[\h4db]
           m == Wr(\h4db, w)
           z == Wr(\h453, {})
           s == <<m>>
           t == <<z>>
           a == Run(p, s)
           e == Run(a, t)
           g == TxGain(looped)
           q == SetTxGain(e, g)
<1>1. w \in SUBSET Word
  BY DEF Files, Regs
<1>2. IqcalEnd(old) = s \o t
  BY DEF IqcalEnd
<1> HIDE DEF w
<1>3. /\ m \in Instr /\ m.addr = \h4db /\ m.keep = {} /\ m.set = w
      /\ z \in Instr /\ z.addr = \h453 /\ z.keep = {} /\ z.set = {}
  BY <1>1 DEF Instr, Wr, Word
<1> HIDE DEF m, z
<1>4. s \in Progs /\ t \in Progs
  BY <1>3 DEF Progs
<1>5. \h4db \in Regs /\ \h453 \in Regs
  BY DEF Regs
<1> HIDE DEF s, t
<1>6. a \in Phys /\ ~a.hw /\ a.reg[\h4db] = w
  <2>1. m.addr \in Regs
    BY <1>3, <1>5
  <2>2. a \in Phys /\ ~a.hw /\ a.reg[m.addr] = (p.reg[m.addr] \cap m.keep) \cup m.set
    <3>1. p \in Phys /\ ~p.hw /\ m \in Instr
      BY <1>3
    <3> QED
      BY <2>1, <3>1, RunAt, Zenon DEF a, s
  <2> HIDE DEF a
  <2> QED
    BY <1>3, <2>2
<1> HIDE DEF a
<1>7. e \in Phys /\ ~e.hw /\ e.reg[\h4db] = w /\ e.reg[\h453] = {}
  <2>1. z.addr \in Regs
    BY <1>3, <1>5
  <2>2. /\ e \in Phys /\ ~e.hw /\ e.reg[z.addr] = (a.reg[z.addr] \cap z.keep) \cup z.set
        /\ \A x \in Regs : x # z.addr => e.reg[x] = a.reg[x]
    BY <1>3, <1>6, <2>1, RunAt DEF e, t
  <2> HIDE DEF e
  <2>3. e.reg[z.addr] = {}
    BY <1>3, <2>2
  <2>4. \h4db # z.addr
    BY <1>3
  <2>5. e.reg[\h4db] = w
    BY <1>5, <1>6, <2>2, <2>4
  <2> QED
    BY <1>3, <2>2, <2>3, <2>5
<1>8. Run(p, IqcalEnd(old)) = e
  <2> HIDE DEF s, t
  <2> QED
    BY <1>2, <1>4, RunTwice DEF e, a
<1> HIDE DEF e
<1>9. Apt(IqEnds, e)
  BY <1>5, <1>7, SMTT(30) DEF Apt, Calm, IqEnds, R
<1>10. GainFits(IqEnds, e, g)
  <2>1. g.pad \cap (8 .. 14) = {}
    BY DEF TxGain
  <2> QED
    BY <2>1 DEF GainFits, IqEnds
<1>11. g \in Gains
  BY TheGains
<1> HIDE DEF g
<1>12. Held(IqEnds, e, q)
  BY <1>9, <1>10, <1>11, HeldGain
<1>13. q.reg[\h4db] = w
  BY <1>7, <1>12, HeldAt DEF IqEnds
<1>14. Apt(IqTone, q) /\ Apt(IqTone, e)
  BY <1>9, <1>12, HeldIs, AptLess DEF IqTone, IqEnds
<1> HIDE DEF q
<1>15. Closed(p, looped, old) = IF TxGainOverridden(looped) THEN q ELSE e
  BY <1>8 DEF Closed, q, g
<1> QED
  BY <1>7, <1>13, <1>14, <1>15 DEF w

\* The last write of a sequence decides.
LEMMA LastWrite ==
  ASSUME NEW p \in Phys, NEW s \in Progs, NEW m \in Instr, m.addr \in Regs, NEW t \in Later(m.addr),
         NEW prog, prog = Then(s, m, t)
  PROVE  /\ prog \in Progs
         /\ Run(p, prog).reg[m.addr] = (Apply(p.reg, s)[m.addr] \cap m.keep) \cup m.set
<1>1. t \in Progs
  <2>1. Outside({m.addr}) \subseteq Instr
    BY DEF Outside
  <2> QED
    BY <2>1, SeqSubset DEF Later, Progs
<1>2. <<m>> \in Progs
  BY DEF Progs
<1>3. prog \in Progs
  <2>1. s \o <<m>> \in Progs
    BY <1>2, ConcatSeqs DEF Progs
  <2> QED
    BY <1>1, <2>1, ConcatSeqs DEF Progs, Then
<1>4. p.reg \in Files
  BY RegsOf
<1>5. Run(p, prog).reg = Apply(p.reg, prog)
  BY <1>3, RunIs DEF Progs
<1> QED
  BY <1>3, <1>4, <1>5, FilesLast

\* Two writes to a register.
LEMMA TwoWrites ==
  ASSUME NEW p \in Phys, NEW s \in Progs, NEW m \in Instr, NEW n \in Instr, m.addr \in Regs,
         n.addr = m.addr, NEW t \in Later(m.addr), NEW u \in Later(m.addr),
         NEW prog, prog = Then(Then(s, m, t), n, u)
  PROVE  \E w \in SUBSET Word :
           Run(p, prog).reg[m.addr] = (((w \cap m.keep) \cup m.set) \cap n.keep) \cup n.set
<1> DEFINE one == Then(s, m, t)
           a == m.addr
<1>1. one \in Progs /\ Run(p, one).reg[a] = (Apply(p.reg, s)[a] \cap m.keep) \cup m.set
  BY LastWrite
<1>2. Run(p, one).reg = Apply(p.reg, one)
  BY <1>1, RunIs DEF Progs
<1>3. u \in Later(n.addr) /\ n.addr \in Regs /\ prog = Then(one, n, u)
  OBVIOUS
<1> HIDE DEF one
<1>4. Run(p, prog).reg[n.addr] = (Apply(p.reg, one)[n.addr] \cap n.keep) \cup n.set
  BY <1>1, <1>3, LastWrite
<1>5. Apply(p.reg, s) \in Files
  BY RegsOf, FilesApply DEF Progs
<1>6. Apply(p.reg, s)[a] \in SUBSET Word
  BY <1>5 DEF Files
<1> QED
  BY <1>1, <1>2, <1>4, <1>6

\* The samples' mode.
SampleMode == {\h503}

\* The clocks of tx_iqlo_cal() set it.
LEMMA ClockedLeaves == ASSUME NEW p \in Phys, ~p.hw PROVE Apt(SampleMode, Clocked(p))
<1> DEFINE a == Or(\h6da, {6})
           b == Or(\h6db, {0, 1})
           c == Wr(\h6da, Word)
           d == Mod(\h4a4, {12}, {12})
           s == <<a, b, c>>
           m == Mod(\h503, {3}, {3})
           t == <<d>>
           prog == Then(s, m, t)
           q == Run(p, prog)
<1>1. Clocked(p) = q
  <2>1. prog = <<a, b, c, m, d>>
    <3> HIDE DEF a, b, c, m, d
    <3> DEFINE four == <<a, b, c, m>>
    <3>1. four = s \o <<m>>
      OBVIOUS
    <3>2. <<a, b, c, m, d>> = four \o t
      OBVIOUS
    <3> HIDE DEF s, t, four
    <3> QED
      BY <3>1, <3>2 DEF Then
  <2> HIDE DEF prog
  <2> QED
    BY <2>1 DEF Clocked
<1>2. s \in Progs /\ m \in Instr /\ m.addr = \h503 /\ m.keep = {3} /\ m.set = {3} /\ t \in Later(\h503)
  BY SMTT(30) DEF Progs, Later, Outside, Instr, Mod, Or, Wr, Word
<1>3. \h503 \in Regs
  BY DEF Regs
<1> HIDE DEF s, m, t
<1>4. m.addr \in Regs /\ t \in Later(m.addr)
  BY <1>2, <1>3
<1>5. prog \in Progs /\ q.reg[m.addr] = (Apply(p.reg, s)[m.addr] \cap m.keep) \cup m.set
  BY <1>2, <1>4, LastWrite
<1> HIDE DEF prog
<1>6. q \in Phys /\ ~q.hw
  BY <1>5, RunPhys
<1> HIDE DEF q
<1>7. q.reg[\h503] = {3}
  BY <1>2, <1>5
<1>8. Apt(SampleMode, q)
  BY <1>3, <1>6, <1>7, SMTT(30) DEF Apt, Calm, SampleMode, R
<1> QED
  BY <1>1, <1>8

\* The loopback's overrides of the front end.
FrontEnd == {\h44d}
Supply == {\h43c}

\* The sequence, from the writes that clear the first.
LEMMA LoopbackParts ==
  \E s \in Progs, t \in Later(\h44d), u \in Later(\h44d) :
    Loopback = Then(Then(s, Mod(\h44d, {14}, {14}), t), Mod(\h44d, {13}, {}), u)
<1> DEFINE s == <<Mod(\h44c, {12}, {12})>>
           t == <<Mod(\h44c, {11}, {11})>>
           u ==
    <<Mod(\h43b, {1}, {1}), Mod(\h43c, {1}, {}), Mod(\h43b, {0}, {0}), Mod(\h43c, {0}, {}),
    And(R(\h03a), Bits(\hf9)), Or(R(\h11a), {0}), Or(R(\h036), {0}), Or(R(\h11a), {3, 4}),
    Or(R(\h03a), {0, 1}), Wr(R(\h025), Bits(\hf)), Mod(R(\h028), 1 .. 4, Bits(\hc)),
    Wr(R(\h005), {3}), Or(R(\h112), {7}), Or(R(\h0ff), {4}), Or(R(\h11f), {2, 6}),
    Or(R(\h00b), 0 .. 2), Or(R(\h113), {4}), Wr(R(\h007), {0}), Mod(R(\h0fc), {0, 1}, {1}),
    Wr(R(\h0fd), Bits(\ha6)), Or(R(\h11f), {2, 6}), Or(R(\h0ff), {4}), Wr(R(\h012), {1}),
    Or(R(\h112), {1, 2}), Wr(R(\h036), {0, 4}), Wr(R(\h059), Bits(\hcc)),
    Wr(R(\h05c), Bits(\h2e)), Wr(R(\h078), Bits(\hd7)), Wr(R(\h092), Bits(\h15))>>
<1>1. s \in Progs /\ t \in Later(\h44d)
  BY SMTT(30) DEF Progs, Later, Outside, Instr, Mod, Word
<1>2. u \in Later(\h44d)
  BY BitsAreWords, SMTT(90) DEF Later, Outside, Instr, Mod, Or, Wr, And, R, Word
<1>3. Loopback = Then(Then(s, Mod(\h44d, {14}, {14}), t), Mod(\h44d, {13}, {}), u)
  BY DEF Loopback, Then
<1> HIDE DEF s, t, u
<1> QED
  BY <1>1, <1>2, <1>3

\* The sequence, from the writes that clear the second.
LEMMA LoopbackSupplies ==
  \E s \in Progs, t \in Later(\h43c), u \in Later(\h43c) :
    Loopback = Then(Then(s, Mod(\h43c, {1}, {}), t), Mod(\h43c, {0}, {}), u)
<1> DEFINE s == <<Mod(\h44c, {12}, {12}), Mod(\h44d, {14}, {14}), Mod(\h44c, {11}, {11}),
                  Mod(\h44d, {13}, {}), Mod(\h43b, {1}, {1})>>
           t == <<Mod(\h43b, {0}, {0})>>
           u ==
    <<And(R(\h03a), Bits(\hf9)), Or(R(\h11a), {0}), Or(R(\h036), {0}), Or(R(\h11a), {3, 4}),
    Or(R(\h03a), {0, 1}), Wr(R(\h025), Bits(\hf)), Mod(R(\h028), 1 .. 4, Bits(\hc)),
    Wr(R(\h005), {3}), Or(R(\h112), {7}), Or(R(\h0ff), {4}), Or(R(\h11f), {2, 6}),
    Or(R(\h00b), 0 .. 2), Or(R(\h113), {4}), Wr(R(\h007), {0}), Mod(R(\h0fc), {0, 1}, {1}),
    Wr(R(\h0fd), Bits(\ha6)), Or(R(\h11f), {2, 6}), Or(R(\h0ff), {4}), Wr(R(\h012), {1}),
    Or(R(\h112), {1, 2}), Wr(R(\h036), {0, 4}), Wr(R(\h059), Bits(\hcc)),
    Wr(R(\h05c), Bits(\h2e)), Wr(R(\h078), Bits(\hd7)), Wr(R(\h092), Bits(\h15))>>
<1>1. s \in Progs /\ t \in Later(\h43c)
  BY SMTT(30) DEF Progs, Later, Outside, Instr, Mod, Word
<1>2. u \in Later(\h43c)
  BY BitsAreWords, SMTT(90) DEF Later, Outside, Instr, Mod, Or, Wr, And, R, Word
<1>3. Loopback = Then(Then(s, Mod(\h43c, {1}, {}), t), Mod(\h43c, {0}, {}), u)
  BY DEF Loopback, Then
<1> HIDE DEF s, t, u
<1> QED
  BY <1>1, <1>2, <1>3

\* It clears the first.
LEMMA FrontCleared == ASSUME NEW p \in Phys, ~p.hw PROVE Apt(FrontEnd, Run(p, Loopback))
<1> DEFINE m == Mod(\h44d, {14}, {14})
           n == Mod(\h44d, {13}, {})
           q == Run(p, Loopback)
<1>1. PICK s \in Progs, t \in Later(\h44d), u \in Later(\h44d) : Loopback = Then(Then(s, m, t), n, u)
  BY LoopbackParts
<1>2. /\ m \in Instr /\ m.addr = \h44d /\ m.keep = {14} /\ m.set = {14}
      /\ n \in Instr /\ n.addr = \h44d /\ n.keep = {13} /\ n.set = {}
  BY SMTT(30) DEF Instr, Mod, Word
<1>3. \h44d \in Regs
  BY DEF Regs
<1> HIDE DEF m, n
<1>4. /\ p \in Phys /\ s \in Progs /\ m \in Instr /\ n \in Instr /\ m.addr \in Regs
      /\ t \in Later(m.addr) /\ u \in Later(m.addr) /\ n.addr = m.addr
      /\ Loopback = Then(Then(s, m, t), n, u)
  BY <1>1, <1>2, <1>3
<1>5. \E w \in SUBSET Word : q.reg[m.addr] = (((w \cap m.keep) \cup m.set) \cap n.keep) \cup n.set
  BY <1>4, TwoWrites
<1>6. q \in Phys /\ ~q.hw
  BY LoopbackSequences, ProgsAre, RunPhys
<1> HIDE DEF q
<1>7. q.reg[\h44d] = {}
  BY <1>2, <1>5
<1>8. Apt(FrontEnd, q)
  BY <1>3, <1>6, <1>7, SMTT(30) DEF Apt, Calm, FrontEnd, R
<1> QED
  BY <1>8 DEF q

\* It clears the second.
LEMMA SupplyCleared == ASSUME NEW p \in Phys, ~p.hw PROVE Apt(Supply, Run(p, Loopback))
<1> DEFINE m == Mod(\h43c, {1}, {})
           n == Mod(\h43c, {0}, {})
           q == Run(p, Loopback)
<1>1. PICK s \in Progs, t \in Later(\h43c), u \in Later(\h43c) : Loopback = Then(Then(s, m, t), n, u)
  BY LoopbackSupplies
<1>2. /\ m \in Instr /\ m.addr = \h43c /\ m.keep = {1} /\ m.set = {}
      /\ n \in Instr /\ n.addr = \h43c /\ n.keep = {0} /\ n.set = {}
  BY SMTT(30) DEF Instr, Mod, Word
<1>3. \h43c \in Regs
  BY DEF Regs
<1> HIDE DEF m, n
<1>4. /\ p \in Phys /\ s \in Progs /\ m \in Instr /\ n \in Instr /\ m.addr \in Regs
      /\ t \in Later(m.addr) /\ u \in Later(m.addr) /\ n.addr = m.addr
      /\ Loopback = Then(Then(s, m, t), n, u)
  BY <1>1, <1>2, <1>3
<1>5. \E w \in SUBSET Word : q.reg[m.addr] = (((w \cap m.keep) \cup m.set) \cap n.keep) \cup n.set
  BY <1>4, TwoWrites
<1>6. q \in Phys /\ ~q.hw
  BY LoopbackSequences, ProgsAre, RunPhys
<1> HIDE DEF q
<1>7. q.reg[\h43c] = {}
  BY <1>2, <1>5
<1>8. Apt(Supply, q)
  BY <1>3, <1>6, <1>7, SMTT(30) DEF Apt, Calm, Supply, R
<1> QED
  BY <1>8 DEF q

-----------------------------------------------------------------------------
(* The whole of tx_iqlo_cal().                                             *)

\* tx_iqlo_cal(), in stages: the override is lent, the loopback is on, it is off, ...
IqOff(p) == SetTxPwrCtrl(Clocked(p), Off)
IqLent(p) == LentBy(IqOff(p))
IqLooped(p) == Run(IqLent(p), Loopback)
IqClean(p, g, o) == LoopbackCleanup(Tried(IqLooped(p), g, o), IqLent(p))
IqQuiet(p, g, o) == StopTxTone(IqClean(p, g, o))
IqClosed(p, g, o) == Closed(IqQuiet(p, g, o), IqLooped(p), IqOff(p).reg)
IqCtrl(p, g, o) == SetTxPwrCtrl(IqClosed(p, g, o), Mode(p))
IqClocks == {\h6da, \h6db}

\* ... and together.
LEMMA TxIqloIs ==
  ASSUME NEW p, NEW g, NEW o PROVE TxIqloCal(p, g, o) = Restore(IqCtrl(p, g, o), p, IqClocks)
  BY DEF TxIqloCal, IqCtrl, IqClosed, IqQuiet, IqClean, IqLooped, IqLent, IqOff, IqClocks, Clocked, LentBy,
     Tried, Closed, IqcalToneProg

\* The registers that it gives back one by one.
Switched == IqClocks \cup Override

\* The stages are PHYs.
LEMMA IqPhys ==
  ASSUME NEW p \in Phys, ~p.hw
  PROVE  /\ Clocked(p) \in Phys /\ IqOff(p) \in Phys /\ IqLent(p) \in Phys /\ IqLooped(p) \in Phys
         /\ ~Clocked(p).hw /\ ~IqOff(p).hw /\ ~IqLent(p).hw /\ ~IqLooped(p).hw
<1>1. Apt({}, p) /\ Apart({}, IqClocks) /\ Apart({}, Override) /\ Apart({}, Lease)
  BY DEF Apt, Calm, Apart
<1>2. Apt({}, Clocked(p))
  BY <1>1, HeldClocked, HeldIs DEF IqClocks
<1>3. Apt({}, IqOff(p))
  BY <1>2, SoftIs, HeldCtrl, HeldIs DEF IqOff
<1>4. Apt({}, IqLent(p))
  BY <1>1, <1>3, HeldLent, HeldIs DEF IqLent, Override
<1>5. Apt({}, IqLooped(p))
  BY <1>1, <1>4, HeldLooped, HeldIs DEF IqLooped
<1> QED
  BY <1>2, <1>3, <1>4, <1>5 DEF Apt

\* The first stages hold what is calm when they begin, ...
LEMMA HeldIqOff ==
  ASSUME NEW A, NEW p, Apt(A, p), Apart(A, Switched) PROVE Held(A, p, IqOff(p))
<1>1. Apart(A, IqClocks)
  BY ApartIs DEF Switched
<1>2. Held(A, p, Clocked(p))
  BY <1>1, HeldClocked DEF IqClocks
<1>3. Held(A, Clocked(p), IqOff(p))
  BY <1>2, SoftIs, HeldIs, HeldCtrl DEF IqOff
<1> QED
  BY <1>2, <1>3, HeldTwice

\* ... also while the override is lent.
LEMMA HeldIqLent ==
  ASSUME NEW A, NEW p, Apt(A, p), Apart(A, Switched) PROVE Held(A, p, IqLent(p))
<1>1. Held(A, p, IqOff(p)) /\ Apart(A, Override)
  BY HeldIqOff, ApartIs DEF Switched
<1>2. Held(A, IqOff(p), IqLent(p))
  BY <1>1, HeldIs, HeldLent DEF IqLent, Override
<1> QED
  BY <1>1, <1>2, HeldTwice

\* What the loopback and the tone write.
Loops == LoopbackRegs \cup IqcalTones

\* ... the loopback, with the calibration's gains and its tone, ...
LEMMA HeldIqClean ==
  ASSUME NEW A, NEW p \in Phys, ~p.hw, Apt(A, IqLooped(p)), Apart(A, Loops),
         NEW g \in Gains, GainFits(A, IqLooped(p), g), NEW o \in Outcomes
  PROVE  Held(A, IqLooped(p), IqClean(p, g, o))
<1> DEFINE looped == IqLooped(p)
           lent == IqLent(p)
           tried == Tried(looped, g, o)
<1>1. Apart(A, LoopbackRegs) /\ Apart(A, IqcalTones)
  BY ApartIs DEF Loops
<1>2. IqClean(p, g, o) = LoopbackCleanup(tried, lent)
  BY DEF IqClean
<1>3. lent \in Phys
  BY IqPhys
<1>4. Held(A, looped, tried)
  BY <1>1, HeldTried
<1> HIDE DEF looped, lent, tried
<1>5. Held(A, tried, LoopbackCleanup(tried, lent))
  BY <1>1, <1>3, <1>4, HeldIs, HeldCleanup
<1>6. Held(A, looped, IqClean(p, g, o))
  BY <1>2, <1>4, <1>5, HeldTwice
<1> QED
  BY <1>6 DEF looped

\* ... its end, ...
LEMMA HeldIqClosed ==
  ASSUME NEW A, NEW p \in Phys, ~p.hw, NEW g, NEW o, Apt(A, IqQuiet(p, g, o)),
         GainFits(A, IqQuiet(p, g, o), TxGain(IqLooped(p))), Apart(A, Override)
  PROVE  Held(A, IqQuiet(p, g, o), IqClosed(p, g, o))
<1> DEFINE quiet == IqQuiet(p, g, o)
           looped == IqLooped(p)
           old == IqOff(p).reg
<1>1. looped \in Phys /\ old \in Files
  BY IqPhys, RegsOf
<1>2. IqClosed(p, g, o) = Closed(quiet, looped, old)
  BY DEF IqClosed
<1>3. Apt(A, quiet) /\ GainFits(A, quiet, TxGain(looped))
  OBVIOUS
<1> HIDE DEF quiet, looped, old
<1>4. Held(A, quiet, Closed(quiet, looped, old))
  BY <1>1, <1>3, HeldClosed
<1> QED
  BY <1>2, <1>4 DEF quiet

\* ... and the mode and the clocks.
LEMMA HeldIqCal ==
  ASSUME NEW A, NEW p \in Phys, NEW g, NEW o, Apt(A, IqClosed(p, g, o)), Apart(A, IqClocks),
         Mode(p) = Hw => Free(A)
  PROVE  Held(A, IqClosed(p, g, o), TxIqloCal(p, g, o))
<1> DEFINE closed == IqClosed(p, g, o)
           ctrl == SetTxPwrCtrl(closed, Mode(p))
           q == Restore(ctrl, p, IqClocks)
<1>1. TxIqloCal(p, g, o) = q
  BY TxIqloIs DEF IqCtrl
<1>2. Held(A, closed, ctrl)
  BY ModeIs, HeldCtrl
<1>3. IqClocks \cap (Tones \cup Power) = {}
  BY DEF IqClocks, Tones, Power
<1> HIDE DEF closed, ctrl
<1>4. Held(A, ctrl, q)
  BY <1>2, <1>3, HeldIs, HeldRestore
<1>5. Held(A, closed, q)
  BY <1>2, <1>4, HeldTwice
<1> QED
  BY <1>1, <1>5 DEF closed

\* The start and the stop of the samples.
Played == {\h63f}

\* They play as before.
LEMMA PlayedKept ==
  ASSUME NEW A, NEW p, NEW q, Held(A, p, q), Played \subseteq A PROVE SamplesPlay(q) = SamplesPlay(p)
<1>1. \h63f \in A
  BY DEF Played
<1> QED
  BY <1>1, SamplesKept

\* Registers about which nothing is asked are calm.
LEMMA AptPlayed == ASSUME NEW p \in Phys, ~p.hw PROVE Apt(Played, p)
<1>1. Played \subseteq Regs
  BY Watched DEF Played, Tones
<1> QED
  BY <1>1, SMTT(30) DEF Apt, Calm, Played, R

\* What tx_iqlo_cal() leaves calm, whatever it was before.
Quiets == {\h43c, \h44d, \h453, \h503, \h6d6, R(\h112)}

\* The sets in which it gathers them.
First == Played \cup SampleMode
Second == First \cup (FrontEnd \cup Supply)
Third == Second \cup Stops
Fourth == Third \cup IqTone

\* They are apart from what the stages write.
LEMMA GatheredApart ==
  /\ Apart(First, IqClocks) /\ Apart(First, Override) /\ Apart(First, Lease)
  /\ Apart(Played, IqClocks)
  /\ Apart(Second, Loops) /\ Apart(Second, ToneClock)
  /\ Apart(Third, Override) /\ Apart(Fourth, IqClocks) /\ Free(Fourth)
  /\ Quiets \subseteq Fourth /\ Played \subseteq First /\ Played \subseteq Second
<1> USE DEF Apart, First, Second, Third, Fourth, Played, SampleMode, FrontEnd, Supply, Stops, IqTone, R
<1>1. Apart(First, IqClocks) /\ Apart(First, Override) /\ Apart(Played, IqClocks)
  BY SMTT(30) DEF IqClocks, Override
<1>2. Apart(First, Lease)
  BY SMTT(30) DEF Lease, LoopbackRegs
<1>3. Apart(Second, Loops)
  BY SMTT(30) DEF Loops, LoopbackRegs, IqcalTones
<1>4. Apart(Second, ToneClock) /\ Apart(Third, Override) /\ Apart(Fourth, IqClocks) /\ Free(Fourth)
  BY SMTT(30) DEF ToneClock, Override, IqClocks, Free
<1>5. Quiets \subseteq Fourth /\ Played \subseteq First /\ Played \subseteq Second
  BY SMTT(30) DEF Quiets
<1> QED
  BY <1>1, <1>2, <1>3, <1>4, <1>5

\* Gains that were read fit there.
LEMMA ReadFitsThird == ASSUME NEW p, NEW q PROVE GainFits(Third, p, TxGain(q))
<1>1. \h4b5 \notin Third /\ \h439 \notin Third
  BY SMTT(30) DEF Third, Second, First, Played, SampleMode, FrontEnd, Supply, Stops, R
<1>2. TxGain(q).pad \cap (8 .. 14) = {}
  BY DEF TxGain
<1> DEFINE g == TxGain(q)
<1> HIDE DEF g
<1>3. g.pad \cap (8 .. 14) = {}
  BY <1>2 DEF g
<1>4. GainFits(Third, p, g)
  BY <1>1, <1>3 DEF GainFits
<1> QED
  BY <1>4 DEF g

\* It leaves them calm.
LEMMA TxIqloLeaves ==
  ASSUME NEW p \in Phys, ~p.hw, ~SamplesPlay(p), NEW n \in 0 .. 255, NEW o \in Outcomes
  PROVE  Apt(Quiets, TxIqloCal(p, CalGain(n), o))
<1> DEFINE clocked == Clocked(p)
           off == IqOff(p)
           lent == IqLent(p)
           looped == IqLooped(p)
           g == CalGain(n)
           clean == IqClean(p, g, o)
           quiet == IqQuiet(p, g, o)
           closed == IqClosed(p, g, o)
           q == TxIqloCal(p, g, o)
<1>1. Held(Played, p, clocked)
  BY AptPlayed, GatheredApart, HeldClocked DEF IqClocks
<1>2. ~SamplesPlay(clocked)
  BY <1>1, PlayedKept
<1>3. Apt(First, clocked)
  BY <1>1, ClockedLeaves, HeldIs, AptBoth DEF First
<1>4. Held(First, clocked, off)
  BY <1>3, SoftIs, HeldCtrl DEF IqOff
<1>5. Held(First, off, lent)
  BY <1>4, GatheredApart, HeldIs, HeldLent DEF IqLent, Override
<1>6. Held(First, lent, looped)
  BY <1>5, GatheredApart, HeldIs, HeldLooped DEF IqLooped
<1>7. ~SamplesPlay(looped)
  BY <1>2, <1>4, <1>5, <1>6, HeldTwice, GatheredApart, PlayedKept
<1>8. Apt(Second, looped)
  <2>1. lent \in Phys /\ ~lent.hw
    BY IqPhys
  <2>2. Apt(FrontEnd, looped) /\ Apt(Supply, looped)
    BY <2>1, FrontCleared, SupplyCleared DEF IqLooped
  <2>3. Apt(First, looped)
    BY <1>6, HeldIs
  <2> QED
    BY <2>2, <2>3, AptBoth DEF Second
<1>9. Held(Second, looped, clean)
  <2>1. GainFits(Second, looped, g) /\ g \in Gains
    BY <1>8, CalFits, TheGains
  <2> QED
    BY <1>8, <2>1, GatheredApart, HeldIqClean
<1>10. ~SamplesPlay(clean) /\ clean \in Phys /\ ~clean.hw
  <2>1. ~SamplesPlay(clean)
    BY <1>7, <1>9, GatheredApart, PlayedKept
  <2> QED
    BY <1>9, <2>1, HeldIs DEF Apt
<1>11. Held(Second, clean, quiet)
  <2>1. Quietly(Second, clean)
    BY <1>10 DEF Quietly
  <2> QED
    BY <1>9, <2>1, GatheredApart, HeldIs, HeldStop DEF IqQuiet
<1>12. Apt(Third, quiet) /\ quiet \in Phys /\ ~quiet.hw
  <2>1. Apt(Stops, quiet)
    BY <1>10, StopLeaves DEF IqQuiet
  <2>2. Apt(Third, quiet)
    BY <1>11, <2>1, HeldIs, AptBoth DEF Third
  <2> QED
    BY <2>2 DEF Apt
<1>13. Held(Third, quiet, closed)
  <2>1. GainFits(Third, quiet, TxGain(looped))
    BY ReadFitsThird
  <2> QED
    BY <1>12, <2>1, GatheredApart, HeldIqClosed
<1>14. Apt(Fourth, closed)
  <2>1. looped \in Phys /\ off.reg \in Files
    BY IqPhys, RegsOf
  <2>2. Apt(IqTone, closed)
    BY <1>12, <2>1, ClosedLeaves DEF IqClosed
  <2> QED
    BY <1>13, <2>2, HeldIs, AptBoth DEF Fourth
<1>15. Held(Fourth, closed, q)
  BY <1>14, GatheredApart, HeldIqCal
<1> QED
  BY <1>15, GatheredApart, HeldIs, AptLess

\* Fewer registers are free of the mode.
LEMMA FreeLess == ASSUME NEW A, NEW B, B \subseteq A, Free(A) PROVE Free(B)
  BY DEF Free

\* The loopback does not write gains.
LEMMA FitsMore ==
  ASSUME NEW A, NEW p, NEW g, GainFits(A \ LoopbackRegs, p, g) PROVE GainFits(A, p, g)
<1>1. \h4b5 \notin LoopbackRegs /\ \h439 \notin LoopbackRegs
  BY SMTT(30) DEF LoopbackRegs, R
<1> QED
  BY <1>1 DEF GainFits

\* The samples are apart from what the calibration gives back.
Returned == Switched \cup (FrontEnd \cup IqTone)

\* They are apart.
LEMMA ReturnedApart ==
  /\ Apart(Played, Returned) /\ Switched \subseteq Returned /\ Override \subseteq Returned
  /\ ToneClock \subseteq Returned /\ IqClocks \subseteq Returned
  /\ Loops \subseteq Returned \cup LoopbackRegs /\ Lease \subseteq Returned \cup LoopbackRegs
<1>1. Apart(Played, Returned) /\ ToneClock \subseteq Returned
  BY SMTT(30) DEF Apart, Played, Returned, Switched, IqClocks, Override, FrontEnd, IqTone, ToneClock
<1>2. Switched \subseteq Returned /\ Override \subseteq Returned /\ IqClocks \subseteq Returned
  BY DEF Returned, Switched
<1>3. Loops \subseteq Returned \cup LoopbackRegs
  <2>1. R(\h112) \in LoopbackRegs
    BY DEF LoopbackRegs
  <2> QED
    BY <2>1, SMTT(30) DEF Loops, IqcalTones, Returned, Switched, IqClocks, IqTone
<1>4. Lease \subseteq Returned \cup LoopbackRegs
  BY DEF Lease, Returned, FrontEnd
<1> QED
  BY <1>1, <1>2, <1>3, <1>4

\* What the loopback writes back is as it was before.
LEMMA CleanRestores ==
  ASSUME NEW p \in Phys, ~p.hw, NEW g \in Gains, g.pad \cap (8 .. 14) = {}, NEW o \in Outcomes, NEW a \in LoopbackRegs
  PROVE  IqClean(p, g, o).reg[a] = IqLent(p).reg[a]
<1> DEFINE looped == IqLooped(p)
           tried == Tried(looped, g, o)
           lent == IqLent(p)
<1>1. looped \in Phys /\ ~looped.hw
  BY IqPhys
<1>2. tried \in Phys
  <2>1. Apt({}, looped) /\ Apart({}, IqcalTones) /\ GainFits({}, looped, g)
    BY <1>1 DEF Apt, Calm, Apart, GainFits
  <2> HIDE DEF looped
  <2> QED
    BY <2>1, HeldTried, HeldIs
<1>3. IqClean(p, g, o) = LoopbackCleanup(tried, lent)
  BY DEF IqClean
<1> HIDE DEF tried, lent
<1>4. LoopbackCleanup(tried, lent).reg[a] = lent.reg[a]
  BY <1>2, CleanupRestores
<1> QED
  BY <1>3, <1>4 DEF lent

\* The override is back at the end, ...
LEMMA OverrideBack ==
  ASSUME NEW p \in Phys, ~p.hw, NEW g, NEW o, IqQuiet(p, g, o) \in Phys, ~IqQuiet(p, g, o).hw,
         Apt({}, IqClosed(p, g, o)), NEW a \in Override
  PROVE  TxIqloCal(p, g, o).reg[a] = p.reg[a]
<1> DEFINE off == IqOff(p)
           quiet == IqQuiet(p, g, o)
           looped == IqLooped(p)
           old == off.reg
           closed == IqClosed(p, g, o)
           q == TxIqloCal(p, g, o)
<1>1. Apart(Override, IqClocks) /\ Free(Override) /\ Override \subseteq Regs
  BY SMTT(30) DEF Apart, Override, IqClocks, Free, Regs
<1>2. Apt(Override, p) /\ Apt(Override, closed)
  <2>1. \A r \in Phys : ~r.hw => Apt(Override, r)
    BY <1>1, SMTT(30) DEF Apt, Calm, Override, R
  <2>2. closed \in Phys /\ ~closed.hw
    BY DEF Apt
  <2> QED
    BY <2>1, <2>2
<1>3. Held(Override, p, Clocked(p))
  BY <1>1, <1>2, HeldClocked DEF IqClocks
<1>4. Held(Override, Clocked(p), off)
  BY <1>3, SoftIs, HeldIs, HeldCtrl DEF IqOff
<1>5. Held(Override, p, off)
  BY <1>3, <1>4, HeldTwice
<1>6. Held(Override, closed, q)
  BY <1>1, <1>2, HeldIqCal
<1>7. looped \in Phys /\ old \in Files
  BY IqPhys, RegsOf
<1>8. closed = Closed(quiet, looped, old)
  BY DEF IqClosed
<1>9. a = \h4db
  BY DEF Override
<1>10. quiet \in Phys /\ ~quiet.hw
  OBVIOUS
<1> HIDE DEF off, quiet, looped, closed, q, old
<1>11. Closed(quiet, looped, old).reg[\h4db] = old[\h4db]
  BY <1>7, <1>10, ClosedLeaves
<1>12. closed.reg[a] = old[a]
  BY <1>8, <1>9, <1>11
<1>13. a # \h4fb
  BY <1>9
<1>14. off.reg[a] = p.reg[a] /\ q.reg[a] = closed.reg[a]
  BY <1>5, <1>6, <1>13, HeldAt
<1> QED
  BY <1>12, <1>14 DEF old, q

\* ... and so are the clocks.
LEMMA ClocksBack ==
  ASSUME NEW p \in Phys, NEW g, NEW o, Apt({}, IqClosed(p, g, o)), NEW a \in IqClocks
  PROVE  TxIqloCal(p, g, o).reg[a] = p.reg[a]
<1> DEFINE closed == IqClosed(p, g, o)
           ctrl == SetTxPwrCtrl(closed, Mode(p))
<1>1. TxIqloCal(p, g, o) = Restore(ctrl, p, IqClocks)
  BY TxIqloIs DEF IqCtrl
<1>2. Apt({}, closed) /\ Free({})
  BY DEF Free
<1> HIDE DEF closed
<1>3. Held({}, closed, ctrl)
  BY <1>2, ModeIs, HeldCtrl
<1>4. ctrl \in Phys
  BY <1>3, HeldIs
<1> HIDE DEF ctrl
<1>5. IqClocks \subseteq Regs
  BY DEF IqClocks, Regs
<1>6. Restore(ctrl, p, IqClocks).reg[a] = p.reg[a]
  BY <1>4, <1>5, RestoredAt
<1> QED
  BY <1>1, <1>6

\* What is calm in two states is the same.
LEMMA ClearSame ==
  ASSUME NEW A, NEW p, NEW q, NEW k, k \in A => p.reg[k] = {}, q.reg[k] = {}
  PROVE  \A a \in A : a = k => q.reg[a] = p.reg[a]
  OBVIOUS

\* So are the front end's and the tone's registers.
LEMMA FrontSame ==
  ASSUME NEW A, NEW p, Apt(A, p), NEW B, NEW q, Apt(B, q), FrontEnd \subseteq B, IqTone \subseteq B
  PROVE  \A a \in A \cap (FrontEnd \cup IqTone) : q.reg[a] = p.reg[a]
<1> DEFINE k == \h44d
           m == \h453
<1>1. Calm(A, p) /\ Calm(B, q)
  BY DEF Apt
<1>2. k \in B /\ m \in B
  BY DEF FrontEnd, IqTone
<1>3. q.reg[k] = {} /\ q.reg[m] = {}
  BY <1>1, <1>2 DEF Calm
<1>4. (k \in A => p.reg[k] = {}) /\ (m \in A => p.reg[m] = {})
  BY <1>1 DEF Calm
<1>5. FrontEnd \cup IqTone = {k, m}
  BY DEF FrontEnd, IqTone
<1> HIDE DEF k, m
<1>6. \A a \in A : a = k => q.reg[a] = p.reg[a]
  BY <1>3, <1>4, ClearSame
<1>7. \A a \in A : a = m => q.reg[a] = p.reg[a]
  BY <1>3, <1>4, ClearSame
<1> QED
  BY <1>5, <1>6, <1>7

\* tx_iqlo_cal() gives everything back.
LEMMA HeldTxIqlo ==
  ASSUME NEW A, NEW p, Apt(A, p), Played \subseteq A, ~SamplesPlay(p), NEW n \in 0 .. 255,
         NEW o \in Outcomes, Mode(p) = Hw => Free(A)
  PROVE  Held(A, p, TxIqloCal(p, CalGain(n), o))
<1> DEFINE g == CalGain(n)
           A3 == A \ Returned
           A2 == A3 \ LoopbackRegs
           off == IqOff(p)
           lent == IqLent(p)
           looped == IqLooped(p)
           clean == IqClean(p, g, o)
           quiet == IqQuiet(p, g, o)
           closed == IqClosed(p, g, o)
           q == TxIqloCal(p, g, o)
<1>0. p \in Phys /\ ~p.hw
  BY DEF Apt
<1>1. /\ Apart(A3, Switched) /\ Apart(A3, Override) /\ Apart(A3, ToneClock) /\ Apart(A3, IqClocks)
      /\ Apart(A2, Loops) /\ Apart(A2, Lease) /\ Played \subseteq A3 /\ A2 \subseteq A3 /\ A3 \subseteq A
  BY ReturnedApart DEF Apart
<1>2. Apt(A3, p)
  BY AptLess
<1>3. Held(A3, p, lent)
  BY <1>1, <1>2, HeldIqLent
<1>4. Held(A2, p, lent)
  BY <1>1, <1>3, HeldLess
<1>5. Held(A2, lent, looped)
  BY <1>1, <1>4, HeldIs, HeldLooped DEF IqLooped
<1>6. GainFits(A2, looped, g) /\ g \in Gains
  BY <1>5, HeldIs, CalFits, TheGains
<1>7. Held(A2, looped, clean)
  BY <1>0, <1>1, <1>5, <1>6, HeldIs, HeldIqClean
<1>8. Held(A3, lent, clean)
  <2>1. Held(A2, lent, clean)
    BY <1>5, <1>7, HeldTwice
  <2>2. g.pad \cap (8 .. 14) = {}
    BY PadBits DEF CalGain
  <2>3. \A a \in LoopbackRegs : clean.reg[a] = lent.reg[a]
    BY <1>0, <1>6, <2>2, CleanRestores
  <2>4. Apt(A3, lent)
    BY <1>3, HeldIs
  <2> HIDE DEF A3, clean, lent
  <2> QED
    BY <2>1, <2>3, <2>4, GivenBack
<1>9. Held(A3, p, clean) /\ ~SamplesPlay(clean)
  BY <1>1, <1>3, <1>8, HeldTwice, PlayedKept
<1>10. Held(A3, clean, quiet)
  <2>1. Quietly(A3, clean)
    BY <1>9 DEF Quietly
  <2> QED
    BY <1>1, <1>9, <2>1, HeldIs, HeldStop DEF IqQuiet
<1>11. GainFits(A3, quiet, TxGain(looped))
  <2>1. Held(A2, looped, quiet)
    BY <1>1, <1>7, <1>10, HeldLess, HeldTwice
  <2>2. GainFits(A2, quiet, TxGain(looped))
    BY <2>1, ReadFits
  <2> QED
    BY <2>2, FitsMore
<1>12. Held(A3, quiet, closed)
  BY <1>0, <1>1, <1>10, <1>11, HeldIs, HeldIqClosed
<1>13. Held(A3, closed, q)
  <2>1. Mode(p) = Hw => Free(A3)
    BY <1>1, FreeLess
  <2> QED
    BY <1>0, <1>1, <1>12, <2>1, HeldIs, HeldIqCal
<1>14. Held(A3, p, q)
  BY <1>9, <1>10, <1>12, <1>13, HeldTwice
<1>15. \A a \in A \cap Returned : q.reg[a] = p.reg[a]
  <2>1. Apt({}, closed) /\ quiet \in Phys /\ ~quiet.hw
    BY <1>12, HeldIs, AptLess DEF Apt
  <2>2. \A a \in IqClocks : q.reg[a] = p.reg[a]
    BY <1>0, <2>1, ClocksBack
  <2>3. \A a \in Override : q.reg[a] = p.reg[a]
    BY <1>0, <2>1, OverrideBack
  <2>4. Apt(Quiets, q)
    BY <1>0, TxIqloLeaves
  <2>5. FrontEnd \subseteq Quiets /\ IqTone \subseteq Quiets
    BY DEF FrontEnd, IqTone, Quiets
  <2>6. \A a \in A \cap (FrontEnd \cup IqTone) : q.reg[a] = p.reg[a]
    BY <2>4, <2>5, FrontSame
  <2> HIDE DEF q
  <2> QED
    BY <2>2, <2>3, <2>6 DEF Returned, Switched
<1> HIDE DEF q
<1>16. Held(A, p, q)
  BY <1>14, <1>15, GivenBack
<1> QED
  BY <1>16 DEF q

-----------------------------------------------------------------------------
(* The whole of txpwrtbl_iqlo_cal().                                       *)

\* txpwrtbl_iqlo_cal(), in stages.
TblOff(p) == SetTxPwrCtrl(p, Off)
TblSet(p) == SetTxPwrByIndex(SetTxGain(TblOff(p), CalGain(21)), 30)
TblOnce(p, o) == TxIqloCal(TblSet(p), CalGain(21), o)
TblLow(p, o) == SetTxPwrByIndex(TblOnce(p, o), 16)
TblTwice(p, o) == IF o.again THEN TxIqloCal(TblLow(p, o), CalGain(30), o) ELSE TblOnce(p, o)
TblKept(p, o) == [CopyCoefs(TblTwice(p, o)) EXCEPT !.bbmult = p.bbmult]
TblGain(p, o) == SetTxGain(SetPaGain(TblKept(p, o), PaGain(p)), TxGain(p))

\* They are the routine.
LEMMA TblIs ==
  ASSUME NEW p, NEW o, Mode(p) # Off
  PROVE  TxPwrTblIqloCal(p, o) = SetTxPwrCtrl(TblGain(p, o), Mode(p))
  BY DEF TxPwrTblIqloCal, TblGain, TblKept, TblTwice, TblLow, TblOnce, TblSet, TblOff

\* Software control is on.
LEMMA SoftOn == ASSUME NEW p, Mode(p) \in Soft PROVE Mode(p) # Off
  BY SoftIs DEF Soft

\* The modes and the tones on the way.
LEMMA TblModes ==
  ASSUME NEW p \in Phys, ~p.hw, Mode(p) \in Soft, NEW o \in Outcomes
  PROVE  /\ TblSet(p) \in Phys /\ ~TblSet(p).hw /\ Mode(TblSet(p)) = Mode(p)
         /\ (~SamplesPlay(p) => ~SamplesPlay(TblSet(p)))
         /\ TblOnce(p, o) \in Phys /\ ~TblOnce(p, o).hw /\ Mode(TblOnce(p, o)) = {13}
         /\ ~SamplesPlay(TblOnce(p, o))
         /\ TblLow(p, o) \in Phys /\ ~TblLow(p, o).hw /\ Mode(TblLow(p, o)) = {13}
         /\ ~SamplesPlay(TblLow(p, o))
<1> DEFINE off == TblOff(p)
           g == CalGain(21)
           gained == SetTxGain(off, g)
           set == TblSet(p)
           once == TblOnce(p, o)
           low == TblLow(p, o)
<1>1. Tame(p, off)
  BY TameOff DEF TblOff
<1>2. g \in Gains
  BY TheGains
<1>3. Tame(off, gained)
  BY <1>1, <1>2, TameIs, TameGain
<1>4. Tame(gained, set)
  <2>1. gained \in Phys
    BY <1>3, TameIs
  <2> HIDE DEF gained
  <2>2. Tame(gained, SetTxPwrByIndex(gained, 30))
    BY <2>1, TameIndex
  <2> QED
    BY <2>2 DEF TblSet, gained, g, off
<1> HIDE DEF off, gained, g
<1>5. Tame(p, set)
  BY <1>1, <1>3, <1>4, TameTwice
<1>6. /\ set \in Phys /\ ~set.hw /\ Mode(set) = Mode(p) /\ (~SamplesPlay(p) => ~SamplesPlay(set))
  BY <1>5, TameIs DEF Loose, Quieter
<1>7. Measured(set, once, o)
  BY <1>2, <1>6, TxIqloCalIs DEF TblOnce, g
<1>8. once \in Phys /\ ~once.hw /\ Mode(once) = {13} /\ ~SamplesPlay(once)
  BY <1>6, <1>7, MeasuredIs DEF Silent
<1>9. Tame(once, low)
  <2> HIDE DEF once
  <2>1. Tame(once, SetTxPwrByIndex(once, 16))
    BY <1>8, TameIndex
  <2> QED
    BY <2>1 DEF TblLow, once
<1>10. low \in Phys /\ ~low.hw /\ Mode(low) = {13} /\ ~SamplesPlay(low)
  BY <1>8, <1>9, TameIs DEF Loose, Quieter
<1> QED
  BY <1>6, <1>8, <1>10

\* {13} is not the hardware's mode.
LEMMA NotHw == ASSUME NEW p, Mode(p) = {13} PROVE Mode(p) # Hw
  BY SoftIs

\* The second half holds what is calm after the first calibration.
LEMMA HeldKept ==
  ASSUME NEW A, NEW p \in Phys, ~p.hw, Mode(p) \in Soft, NEW o \in Outcomes, Played \subseteq A,
         Apt(A, TblOnce(p, o))
  PROVE  Held(A, TblOnce(p, o), TblKept(p, o))
<1> DEFINE once == TblOnce(p, o)
           low == TblLow(p, o)
           twice == TblTwice(p, o)
           kept == TblKept(p, o)
<1>1. /\ once \in Phys /\ ~SamplesPlay(once)
      /\ low \in Phys /\ Mode(low) # Hw /\ ~SamplesPlay(low)
  BY TblModes, NotHw
<1>2. Held(A, once, low)
  <2> HIDE DEF once
  <2>1. Held(A, once, SetTxPwrByIndex(once, 16))
    BY HeldIndex DEF once
  <2> QED
    BY <2>1 DEF TblLow, once
<1>3. Held(A, once, twice)
  <2>1. CASE o.again
    <3>1. Held(A, low, TxIqloCal(low, CalGain(30), o))
      BY <1>1, <1>2, HeldIs, HeldTxIqlo
    <3> QED
      BY <1>2, <2>1, <3>1, HeldTwice DEF TblTwice
  <2>2. CASE ~o.again
    <3>1. twice = once
      BY <2>2 DEF TblTwice
    <3> HIDE DEF twice, once
    <3>2. Held(A, once, once)
      BY <1>1, HeldReg, FixedBoard DEF once, Fixed
    <3> QED
      BY <3>1, <3>2
  <2> QED
    BY <2>1, <2>2
<1>4. Held(A, twice, kept)
  <2>1. twice \in Phys /\ Apt(A, twice)
    BY <1>3, HeldIs
  <2>2. p.bbmult \in Mults
    BY DEF Phys
  <2>3. Copied(twice, kept)
    BY <2>1, <2>2, CopyIs DEF TblKept
  <2>4. kept.reg = twice.reg
    <3> DEFINE b == p.bbmult
               x == TblTwice(p, o)
    <3>1. x \in Phys
      BY <2>1
    <3> HIDE DEF b, x
    <3>2. CopyCoefs(x) \in Phys /\ CopyCoefs(x).reg = x.reg
      BY <3>1 DEF CopyCoefs, Phys
    <3>3. [CopyCoefs(x) EXCEPT !.bbmult = b].reg = CopyCoefs(x).reg
      BY <3>2 DEF Phys
    <3> QED
      BY <3>2, <3>3 DEF TblKept, x, b
  <2> HIDE DEF twice, kept
  <2> QED
    BY <2>1, <2>3, <2>4, HeldReg DEF Copied
<1> QED
  BY <1>3, <1>4, HeldTwice

\* So does the end.
LEMMA HeldTblEnd ==
  ASSUME NEW A, NEW p, NEW o, Apt(A, TblGain(p, o)), p \in Phys, Mode(p) \in Soft, Mode(p) = Hw => Free(A)
  PROVE  Held(A, TblGain(p, o), TxPwrTblIqloCal(p, o))
<1> DEFINE gain == TblGain(p, o)
<1>1. TxPwrTblIqloCal(p, o) = SetTxPwrCtrl(gain, Mode(p))
  BY SoftOn, TblIs
<1> HIDE DEF gain
<1>2. Held(A, gain, SetTxPwrCtrl(gain, Mode(p)))
  BY ModeIs, HeldCtrl DEF gain
<1> QED
  BY <1>1, <1>2 DEF gain

\* txpwrtbl_iqlo_cal() gives everything back.
LEMMA HeldTxPwrTbl ==
  ASSUME NEW A, NEW p, Apt(A, p), Played \subseteq A, ~SamplesPlay(p), Mode(p) \in Soft,
         Mode(p) = Hw => Free(A), NEW o \in Outcomes
  PROVE  Held(A, p, TxPwrTblIqloCal(p, o))
<1> DEFINE off == TblOff(p)
           g == CalGain(21)
           gained == SetTxGain(off, g)
           set == TblSet(p)
           once == TblOnce(p, o)
           kept == TblKept(p, o)
           pa == SetPaGain(kept, PaGain(p))
           gain == TblGain(p, o)
<1>1. p \in Phys /\ ~p.hw
  BY DEF Apt
<1>2. Held(A, p, off)
  BY SoftIs, HeldCtrl DEF TblOff
<1>3. Held(A, off, gained)
  BY <1>2, HeldIs, CalFits, TheGains, HeldGain
<1>4. Held(A, gained, set)
  <2>1. Apt(A, gained)
    BY <1>3, HeldIs
  <2> HIDE DEF gained
  <2>2. Held(A, gained, SetTxPwrByIndex(gained, 30))
    BY <2>1, HeldIndex
  <2> QED
    BY <2>2 DEF TblSet, gained, g, off
<1> HIDE DEF off, gained, g
<1>5. Held(A, p, set)
  BY <1>2, <1>3, <1>4, HeldTwice
<1>6. Held(A, set, once)
  <2>1. Mode(set) = Mode(p) /\ ~SamplesPlay(set)
    BY <1>1, TblModes
  <2> QED
    BY <1>5, <2>1, HeldIs, HeldTxIqlo DEF TblOnce
<1>7. Held(A, once, kept)
  BY <1>1, <1>6, HeldIs, HeldKept
<1>8. Held(A, p, kept)
  BY <1>5, <1>6, <1>7, HeldTwice
<1> HIDE DEF set, once, kept
<1>9. Held(A, kept, pa)
  <2>1. PaFits(A, kept, PaGain(p)) /\ PaGain(p) \in SUBSET Word
    BY <1>1, <1>8, ReadPaFits, TheGains
  <2> QED
    BY <1>8, <2>1, HeldIs, HeldPaGain
<1> HIDE DEF pa
<1>10. Held(A, p, pa)
  BY <1>8, <1>9, HeldTwice
<1>11. Held(A, pa, gain)
  <2>1. GainFits(A, pa, TxGain(p)) /\ TxGain(p) \in Gains
    BY <1>1, <1>10, ReadFits, TheGains
  <2>2. Held(A, pa, SetTxGain(pa, TxGain(p)))
    BY <1>10, <2>1, HeldIs, HeldGain
  <2> QED
    BY <2>2 DEF TblGain, pa, kept
<1>12. Held(A, gain, TxPwrTblIqloCal(p, o))
  BY <1>1, <1>11, HeldIs, HeldTblEnd
<1> QED
  BY <1>10, <1>11, <1>12, HeldTwice

\* The amplifiers' first gains.
Gm == {\h4b5}

\* They are a register that has the gains of every index.
LEMMA AptGm ==
  ASSUME NEW p \in Phys, ~p.hw, NEW a \in Gm, (0 .. 2) \cup GainOf(p, 0).gm \subseteq p.reg[a]
  PROVE  Apt(Gm, p)
<1>1. a = \h4b5 /\ Gm \subseteq Regs
  BY DEF Gm, Regs
<1>2. (0 .. 2) \cup GainOf(p, 0).gm \subseteq p.reg[\h4b5]
  BY <1>1
<1>3. Gm = {\h4b5}
  BY DEF Gm
<1> QED
  BY <1>1, <1>2, <1>3, SMTT(30) DEF Apt, Calm, R

\* The override does not write it.
LEMMA OverrideGm == TxGainOverride(TRUE) \in Seq(Outside(Gm))
  BY SMTT(30) DEF TxGainOverride, Instr, Outside, Mod, Gm, Word, If

\* set_tx_gain() only adds to it.
LEMMA GainGrows ==
  ASSUME NEW p \in Phys, NEW g \in Gains, NEW a \in Gm
  PROVE  SetTxGain(p, g).reg[a] = p.reg[a] \cup g.gm
<1> DEFINE m == Mod(\h4b5, Word, g.gm)
           b == Mod(\h4fb, 0 .. 14, g.pad \cup PaGain(p))
           c == Mod(\h439, 7 .. 9, g.dac)
           ovr == TxGainOverride(TRUE)
           bc == <<b, c>>
           none == <<>>
           rest == bc \o ovr
           prog == Then(none, m, rest)
           all == <<m, b, c>>
<1>1. SetTxGain(p, g) = Run(p, all \o ovr)
  BY DEF SetTxGain
<1>2. g.gm \in SUBSET Word /\ g.pad \cup PaGain(p) \in SUBSET Word /\ g.dac \in SUBSET Word
  BY TheGains DEF Gains
<1>3. m \in Instr /\ m.addr = a /\ m.keep = Word /\ m.set = g.gm /\ b \in Outside(Gm) /\ c \in Outside(Gm)
  BY <1>2, SMTT(30) DEF Instr, Outside, Mod, Gm, Word
<1>4. ovr \in Seq(Outside(Gm))
  BY OverrideGm
<1>5. Gm = {m.addr} /\ m.addr \in Regs
  <2>1. Gm = {a} /\ a \in Regs
    BY DEF Gm, Regs
  <2> QED
    BY <1>3, <2>1
<1> HIDE DEF m, b, c, ovr
<1>6. bc \in Seq(Outside(Gm)) /\ none \in Progs
  BY <1>3 DEF Progs
<1>7. all \o ovr = prog
  <2>1. all = <<m>> \o bc /\ none \o <<m>> = <<m>>
    OBVIOUS
  <2>2. bc \in Seq(Outside(Gm)) /\ <<m>> \in Seq(Instr) /\ ovr \in Seq(Outside(Gm))
    BY <1>3, <1>4, <1>6
  <2> DEFINE one == <<m>>
  <2> HIDE DEF all, bc, none, one
  <2>3. (one \o bc) \o ovr = one \o (bc \o ovr)
    <3>1. \A S, T, U : \A x \in Seq(S), y \in Seq(T), z \in Seq(U) : (x \o y) \o z = x \o (y \o z)
      OBVIOUS
    <3> QED
      BY <2>2, <3>1 DEF one
  <2> QED
    BY <2>1, <2>3 DEF Then, one
<1> HIDE DEF all, bc, none
<1>8. rest \in Later(m.addr)
  <2>1. rest \in Seq(Outside(Gm))
    BY <1>4, <1>6, ConcatSeqs
  <2> HIDE DEF rest
  <2> QED
    BY <1>5, <2>1 DEF Later
<1> HIDE DEF rest
<1>9. Run(p, prog).reg[m.addr] = (Apply(p.reg, none)[m.addr] \cap m.keep) \cup m.set
  BY <1>3, <1>5, <1>6, <1>8, LastWrite
<1>10. Apply(p.reg, none) = p.reg
  <2>1. none \in Seq(Outside(Gm)) /\ Gm \subseteq Regs /\ none = <<>>
    BY <1>5 DEF none
  <2>2. Apply(p.reg, none) \in Files /\ \A x \in Regs : Apply(p.reg, none)[x] = p.reg[x]
    <3>1. none \in Seq(Outside(Regs)) /\ none \in Seq(Instr) /\ p.reg \in Files
      BY <2>1, RegsOf
    <3> QED
      BY <3>1, FilesOutside, FilesApply
  <2>3. p.reg \in Files
    BY RegsOf
  <2> QED
    BY <2>2, <2>3 DEF Files
<1>11. p.reg[a] \subseteq Word
  BY <1>3, <1>5, Words
<1>12. Run(p, prog).reg[a] = p.reg[a] \cup g.gm
  BY <1>3, <1>9, <1>10, <1>11
<1> QED
  BY <1>1, <1>7, <1>12

\* Turning the control off does not write it.
LEMMA OffKeepsGm ==
  ASSUME NEW p \in Phys, ~p.hw, NEW a \in Gm PROVE SetTxPwrCtrl(p, Off).reg[a] = p.reg[a]
<1> DEFINE old == EffectiveMode(p, Mode(p))
           new == EffectiveMode(p, Off)
           clocks == <<Mod(\h6da, {6}, If(new = Hw, {6})), Mod(\h6a3, {4}, If(new # Hw, {4}))>>
           soft == IF new = TempBased THEN SoftCtrl(TargetIndex(p)) ELSE <<>>
           head == IF new = Hw THEN HandOver(p) ELSE TxGainOverride(TRUE)
           mid == <<Mod(\h4a4, ModeBits, new)>>
           switch == head \o mid \o soft
           part == IF old = new THEN <<>> ELSE switch
           s == clocks \o part
           S == Seq(Outside(Gm))
<1>1. new # Hw /\ new # TempBased /\ new \in SUBSET Word
  BY SoftIs, EffectiveModes
<1>2. SetTxPwrCtrl(p, Off) = Run(p, s)
  BY <1>1 DEF SetTxPwrCtrl
<1>3. head = TxGainOverride(TRUE) /\ soft = <<>>
  BY <1>1
<1>4. head \in S /\ soft \in S
  <2>1. TxGainOverride(TRUE) \in S
    BY OverrideGm
  <2>2. <<>> \in S
    OBVIOUS
  <2> HIDE DEF head, soft, S
  <2> QED
    BY <1>3, <2>1, <2>2
<1> HIDE DEF head, soft
<1>5. clocks \in S /\ mid \in S
  <2> HIDE DEF new
  <2> QED
    BY <1>1, SMTT(30) DEF Instr, Outside, Mod, Gm, Word, If, ModeBits
<1> HIDE DEF clocks, mid
<1>6. switch \in S
  BY <1>4, <1>5, ConcatSeqs
<1> HIDE DEF switch
<1>7. part \in S
  BY <1>6
<1> HIDE DEF part
<1>8. s \in Seq(Outside(Gm))
  BY <1>5, <1>7, ConcatSeqs
<1> HIDE DEF s
<1>9. Gm \subseteq Regs
  BY DEF Gm, Regs
<1> QED
  BY <1>2, <1>8, <1>9, RunOutside DEF SameIn

\* set_tx_pwr_by_index() only adds the gains of the index.
LEMMA IndexGrows ==
  ASSUME NEW p \in Phys, ~p.hw, NEW i \in 0 .. 127, NEW a \in Gm
  PROVE  SetTxPwrByIndex(p, i).reg[a] = p.reg[a] \cup GainOf(p, i).gm
<1> DEFINE p1 == [p EXCEPT !.current = i]
           off == SetTxPwrCtrl(p1, Off)
           g == GainOf(p, i)
           gained == SetTxGain(off, g)
           pa == SetPaGain(gained, PaOf(p))
           set == Run(pa, TxGainOverride(TRUE))
           q == SetTxPwrByIndex(p, i)
<1>1. p1 \in Phys /\ p1.reg = p.reg /\ ~p1.hw
  BY DEF Phys
<1> HIDE DEF p1
<1>2. off.reg[a] = p.reg[a] /\ off \in Phys
  BY <1>1, OffKeepsGm, TameOff, TameIs
<1> HIDE DEF off
<1>3. g \in Gains
  BY TheGains
<1>4. gained.reg[a] = p.reg[a] \cup g.gm /\ gained \in Phys
  BY <1>2, <1>3, GainGrows, TameGain, TameIs
<1>5. Gm \subseteq Regs
  BY DEF Gm, Regs
<1>6. PaOf(p) \in SUBSET Word
  BY TheGains
<1> HIDE DEF gained
<1>7. pa.reg[a] = gained.reg[a] /\ pa \in Phys
  <2> DEFINE w == PaOf(p)
             s == <<Mod(\h4fb, 8 .. 14, w)>>
  <2>1. w \in SUBSET Word
    BY <1>6
  <2> HIDE DEF w
  <2>2. s \in Seq(Outside(Gm))
    BY <2>1, SMTT(30) DEF Instr, Outside, Mod, Gm, Word
  <2>3. pa = Run(gained, s)
    BY DEF SetPaGain, w
  <2> HIDE DEF s
  <2> QED
    BY <1>4, <1>5, <2>2, <2>3, RunOutside DEF SameIn, Plain
<1> HIDE DEF pa
<1>8. set.reg[a] = pa.reg[a] /\ set \in Phys
  <2>1. TxGainOverride(TRUE) \in Seq(Outside(Gm))
    BY OverrideGm
  <2> DEFINE ovr == TxGainOverride(TRUE)
             r == Run(pa, ovr)
  <2>2. ovr \in Seq(Outside(Gm))
    BY <2>1
  <2> HIDE DEF ovr
  <2>3. r.reg[a] = pa.reg[a] /\ r \in Phys
    BY <1>5, <1>7, <2>2, RunOutside DEF SameIn, Plain
  <2> QED
    BY <2>3 DEF ovr
<1>9. q.reg = set.reg
  <2>1. q = [set EXCEPT !.bbmult = <<"index", i>>, !.coef = IF p.hw THEN p.coefs ELSE set.coef]
    BY DEF SetTxPwrByIndex, set, pa, gained, g, off, p1
  <2> HIDE DEF set, q
  <2> QED
    BY <1>8, <2>1 DEF Phys
<1> HIDE DEF set, q, g
<1> QED
  BY <1>4, <1>7, <1>8, <1>9 DEF q, g

\* What txpwrtbl_iqlo_cal() leaves calm.
Calmed == Quiets \cup Gm
Watch == Calmed \cup Played

\* Neither the power control's nor the amplifiers' registers are among them.
LEMMA CalmedIs ==
  /\ Free(Calmed) /\ \h4fb \notin Watch /\ \h4b5 \notin Quiets /\ \h439 \notin Watch
  /\ Calmed \subseteq Regs
<1>1. Free(Calmed) /\ \h4fb \notin Watch /\ \h4b5 \notin Quiets /\ \h439 \notin Watch
  BY SMTT(30) DEF Free, Calmed, Watch, Quiets, Gm, Played, R
<1>2. Calmed \subseteq Regs
  <2>1. R(\h112) \in Regs
    BY DEF Regs, LoopbackRegs
  <2> QED
    BY <2>1, SMTT(30) DEF Calmed, Quiets, Gm, Regs
<1> QED
  BY <1>1, <1>2

\* Gains that fit there.
LEMMA WatchPa == ASSUME NEW p, NEW pa PROVE PaFits(Watch, p, pa)
  BY CalmedIs DEF PaFits

\* ... nor the gains that are read back.
LEMMA QuietsFit == ASSUME NEW p, NEW q PROVE GainFits(Quiets, p, TxGain(q))
<1>1. \h4b5 \notin Quiets /\ \h439 \notin Quiets
  BY CalmedIs DEF Watch, Calmed
<1>2. TxGain(q).pad \cap (8 .. 14) = {}
  BY DEF TxGain
<1> DEFINE g == TxGain(q)
<1> HIDE DEF g
<1>3. g.pad \cap (8 .. 14) = {}
  BY <1>2 DEF g
<1>4. GainFits(Quiets, p, g)
  BY <1>1, <1>3 DEF GainFits
<1> QED
  BY <1>4 DEF g

\* What it says of the gains.
LEMMA GmIs ==
  ASSUME NEW p, Apt(Gm, p), NEW a \in Gm PROVE (0 .. 2) \cup GainOf(p, 0).gm \subseteq p.reg[a]
<1>1. a = \h4b5 /\ \h4b5 \in Gm
  BY DEF Gm
<1>2. (0 .. 2) \cup GainOf(p, 0).gm \subseteq p.reg[\h4b5]
  BY <1>1 DEF Apt, Calm
<1> QED
  BY <1>1, <1>2

\* The gains of an index come on top.
LEMMA SetLeaves ==
  ASSUME NEW p \in Phys, ~p.hw PROVE Apt(Gm, TblSet(p))
<1> DEFINE off == TblOff(p)
           g == CalGain(21)
           gained == SetTxGain(off, g)
           set == TblSet(p)
           a == \h4b5
<1>0. a \in Gm
  BY DEF Gm
<1> HIDE DEF a
<1>1. off \in Phys /\ ~off.hw
  BY TameOff, TameIs DEF TblOff
<1>2. g \in Gains /\ g.gm = 0 .. 2
  BY TheGains DEF CalGain
<1> HIDE DEF off, g
<1>3. gained.reg[a] = off.reg[a] \cup g.gm
  BY <1>0, <1>1, <1>2, GainGrows
<1>4. gained \in Phys /\ ~gained.hw
  BY <1>1, <1>2, TameGain, TameIs
<1> HIDE DEF gained
<1> DEFINE r == SetTxPwrByIndex(gained, 30)
<1>5. r.reg[a] = gained.reg[a] \cup GainOf(gained, 30).gm
  BY <1>0, <1>4, IndexGrows
<1>6. r \in Phys /\ ~r.hw /\ r.fem = gained.fem
  <2>1. Tame(gained, r)
    BY <1>4, TameIndex
  <2> QED
    BY <1>4, <2>1, TameIs DEF Fixed
<1>7. set = r
  BY DEF TblSet, gained, g, off
<1> HIDE DEF set, r
<1>8. GainOf(r, 0).gm = GainOf(gained, 30).gm
  BY <1>6, GainsOf
<1>9. (0 .. 2) \cup GainOf(r, 0).gm \subseteq r.reg[a]
  BY <1>2, <1>3, <1>5, <1>8
<1> QED
  BY <1>0, <1>6, <1>7, <1>9, AptGm DEF set

\* It leaves them calm, whatever they were before.
LEMMA TblLeaves ==
  ASSUME NEW p \in Phys, ~p.hw, ~SamplesPlay(p), Mode(p) \in Soft, NEW o \in Outcomes
  PROVE  Apt(Calmed, TxPwrTblIqloCal(p, o))
<1> DEFINE set == TblSet(p)
           once == TblOnce(p, o)
           kept == TblKept(p, o)
           pa == SetPaGain(kept, PaGain(p))
           gain == TblGain(p, o)
<1>1. set \in Phys /\ ~set.hw /\ ~SamplesPlay(set) /\ Mode(set) = Mode(p)
  BY TblModes
<1>2. Apt(Gm \cup Played, set)
  BY <1>1, SetLeaves, AptPlayed, AptBoth
<1>3. Held(Gm \cup Played, set, once)
  <2>1. Free(Gm \cup Played)
    BY SMTT(30) DEF Free, Gm, Played
  <2> QED
    BY <1>1, <1>2, <2>1, HeldTxIqlo DEF TblOnce
<1>4. Apt(Watch, once)
  <2>1. Apt(Quiets, once)
    BY <1>1, TxIqloLeaves DEF TblOnce
  <2>2. Apt(Gm \cup Played, once)
    BY <1>3, HeldIs
  <2>3. Apt(Quiets \cup (Gm \cup Played), once)
    BY <2>1, <2>2, AptBoth
  <2>4. Watch = Quiets \cup (Gm \cup Played)
    BY DEF Watch, Calmed
  <2> QED
    BY <2>3, <2>4
<1>5. Held(Watch, once, kept)
  <2>1. Played \subseteq Watch
    BY DEF Watch
  <2> QED
    BY <1>4, <2>1, HeldKept
<1> HIDE DEF set, once, kept
<1>6. Held(Watch, kept, pa)
  <2>1. PaGain(p) \in SUBSET Word
    BY TheGains
  <2> QED
    BY <1>5, <2>1, WatchPa, HeldIs, HeldPaGain
<1>7. Apt(Watch, pa) /\ pa \in Phys /\ ~pa.hw
  BY <1>6, HeldIs DEF Apt
<1> HIDE DEF pa
<1> DEFINE g == TxGain(p)
           r == SetTxGain(pa, g)
<1>8. g \in Gains /\ gain = r
  BY TheGains DEF TblGain, pa, kept
<1>9. Apt(Quiets, pa) /\ Apt(Gm, pa)
  BY <1>7, AptLess DEF Watch, Calmed
<1>10. Held(Quiets, pa, r)
  BY <1>8, <1>9, QuietsFit, HeldGain
<1> HIDE DEF g
<1>11. Apt(Gm, r)
  <2>1. r \in Phys /\ ~r.hw /\ r.fem = pa.fem
    <3>1. Tame(pa, r)
      BY <1>7, <1>8, TameGain
    <3> QED
      BY <1>7, <3>1, TameIs DEF Fixed
  <2> DEFINE a == \h4b5
  <2>2. a \in Gm
    BY DEF Gm
  <2> HIDE DEF a
  <2>3. (0 .. 2) \cup GainOf(pa, 0).gm \subseteq pa.reg[a]
    BY <1>9, <2>2, GmIs
  <2>4. r.reg[a] = pa.reg[a] \cup g.gm
    BY <1>7, <1>8, <2>2, GainGrows
  <2>5. GainOf(r, 0).gm = GainOf(pa, 0).gm
    BY <2>1, GainsOf
  <2> HIDE DEF r
  <2>6. (0 .. 2) \cup GainOf(r, 0).gm \subseteq r.reg[a]
    BY <2>3, <2>4, <2>5
  <2> QED
    BY <2>1, <2>2, <2>6, AptGm
<1>12. Apt(Calmed, gain)
  BY <1>8, <1>10, <1>11, HeldIs, AptBoth DEF Calmed
<1>13. Held(Calmed, gain, TxPwrTblIqloCal(p, o))
  BY <1>12, CalmedIs, HeldTblEnd
<1> QED
  BY <1>13, HeldIs

-----------------------------------------------------------------------------
(* The whole of rx_iq_cal().                                               *)

\* The tone for the samples does not write what samples leave alone, ...
LEMMA SamplesUnplayed == StartTxTone(FALSE) \in Seq(Outside(Unplayed))
<1> DEFINE S == Outside(Unplayed)
           a == <<Mod(\h6d6, {0, 1}, {}), Mod(\h6da, {3}, {3})>>
           b == <<Or(\h6da, {7, 15})>>
           d == <<Wr(\h63f, {0})>>
           e == <<Or(R(\h112), {1, 2})>>
<1>1. a \in Seq(S) /\ b \in Seq(S) /\ d \in Seq(S) /\ e \in Seq(S)
  BY SMTT(30) DEF Word, Unplayed, Outside, Instr, Mod, Wr, Or, R
<1>2. TxPuOn \in Seq(S) /\ DeafMode(TRUE) \in Seq(S)
  <2>1. TrswOverride(TRUE, FALSE) \in Seq(S) /\ DeafMode(TRUE) \in Seq(S)
    BY SMTT(30) DEF Word, Unplayed, Outside, Instr, Mod, TrswOverride, DeafMode, If
  <2> DEFINE f == <<Mod(\h43b, {1}, {1}), Mod(\h43c, {1}, {}), Mod(\h43b, {4}, {4}), Mod(\h43c, {6}, {}),
                    Mod(\h44c, {12}, {12}), Mod(\h44d, {14}, {14})>>
             g == <<Mod(\h44d, {2}, {}), Mod(\h44c, {2}, {2}), Mod(\h44c, {3}, {3}), Mod(\h44d, {3}, {3}),
                    Mod(\h44c, {5}, {5}), Mod(\h44d, {5}, {}), Mod(\h4f9, {1}, {1}), Mod(\h4fa, {1}, {1}),
                    Mod(\h4f9, {2}, {2}), Mod(\h4fa, {2}, {2}), Mod(\h4f9, {0}, {0}), Mod(\h4fa, {0}, {0})>>
  <2>2. f \in Seq(S) /\ g \in Seq(S)
    BY SMTT(30) DEF Word, Unplayed, Outside, Instr, Mod
  <2>3. TxPuOn = (f \o TrswOverride(TRUE, FALSE)) \o g
    BY DEF TxPuOn
  <2> HIDE DEF f, g, S
  <2>4. f \o TrswOverride(TRUE, FALSE) \in Seq(S)
    BY <2>1, <2>2, ConcatSeqs
  <2> QED
    BY <2>1, <2>2, <2>3, <2>4, ConcatSeqs
<1>3. StartTxTone(FALSE) = (DeafMode(TRUE) \o a) \o ((b \o (d \o TxPuOn)) \o e)
  BY DEF StartTxTone, RunSamples
<1> HIDE DEF S, a, b, d, e
<1>4. d \o TxPuOn \in Seq(S)
  BY <1>1, <1>2, ConcatSeqs
<1>5. b \o (d \o TxPuOn) \in Seq(S)
  BY <1>1, <1>4, ConcatSeqs
<1>6. (b \o (d \o TxPuOn)) \o e \in Seq(S)
  BY <1>1, <1>5, ConcatSeqs
<1>7. DeafMode(TRUE) \o a \in Seq(S)
  BY <1>1, <1>2, ConcatSeqs
<1>8. StartTxTone(FALSE) \in Seq(S)
  BY <1>3, <1>6, <1>7, ConcatSeqs
<1> QED
  BY <1>8 DEF S

\* ... nor does the search, or what the RX calibration sets before it.
LEMMA SearchUnplayed ==
  ASSUME NEW search PROVE RxSearch(search) \in Seq(Outside(Unplayed)) /\ RxIqCalSetup \in Seq(Outside(Unplayed))
<1>1. RxIqCalSetup \in Seq(Outside(Unplayed))
  BY BitsAreWords, SMTT(60) DEF RxIqCalSetup, TrswOverride, If, Word, Unplayed, Outside, Instr, Mod, Wr, Or, R
<1>2. /\ SearchOne \in Seq(Outside(Unplayed)) /\ SearchBegin \in Seq(Outside(Unplayed))
      /\ SearchFirst \in Seq(Outside(Unplayed)) /\ SearchLast \in Seq(Outside(Unplayed))
  BY SMTT(30) DEF SearchOne, SearchBegin, SearchFirst, SearchLast, Word, Unplayed, Outside, Instr, Mod, Wr, R
<1>3. RxGainOverride(TRUE) \in Seq(Outside(Unplayed)) /\ RxIqEst \in Seq(Outside(Unplayed))
  BY SMTT(30) DEF RxGainOverride, RxIqEst, If, Word, Unplayed, Outside, Instr, Mod
<1> QED
  BY <1>1, <1>2, <1>3, SamplesUnplayed, SearchMade

\* The registers of the RX calibration that are not given back with others.
LEMMA RxRegsApart ==
  /\ Apart(Unplayed \cup Stops, RxPhyRegs) /\ Apart(Calmed, RxRfRegs) /\ Apart(Unplayed, ToneClock)
  /\ Calmed = (Unplayed \cup Stops) \cup (FrontEnd \cup Supply) /\ RxPhyRegs \subseteq Regs
  /\ FrontEnd \cup Supply \subseteq RxPhyRegs /\ FrontEnd \cup Supply \subseteq Calmed /\ Unplayed \subseteq Calmed
<1>1. Apart(Unplayed \cup Stops, RxPhyRegs) /\ Apart(Unplayed, ToneClock)
  BY SMTT(30) DEF Apart, Unplayed, Stops, RxPhyRegs, ToneClock, R
<1>2. Apart(Calmed, RxRfRegs)
  BY SMTT(60) DEF Apart, Calmed, Quiets, Gm, RxRfRegs, R
<1>3. Calmed = (Unplayed \cup Stops) \cup (FrontEnd \cup Supply) /\ FrontEnd \cup Supply \subseteq RxPhyRegs
      /\ FrontEnd \cup Supply \subseteq Calmed /\ Unplayed \subseteq Calmed
  BY DEF Calmed, Quiets, Gm, Unplayed, Stops, FrontEnd, Supply, RxPhyRegs
<1>4. RxPhyRegs \subseteq Regs
  BY DEF RxPhyRegs, Regs
<1> QED
  BY <1>1, <1>2, <1>3, <1>4

\* Those that hold what they held when they were calm are calm.
LEMMA AptAgain ==
  ASSUME NEW A, NEW p, Apt(A, p), NEW q, Board(p, q), \A a \in A : q.reg[a] = p.reg[a]
  PROVE  Apt(A, q)
<1>1. Kept(A, p, q)
  BY DEF Kept
<1> QED
  BY <1>1, HeldBy, HeldIs

\* The sequences at the start and at the end.
RxLend == <<Or(\h631, {0, 2, 4})>>

\* They leave the calm registers alone.
LEMMA RxEnds ==
  ASSUME NEW v \in SUBSET Word, NEW w \in SUBSET Word
  PROVE  /\ RxBack(v, w) \in Seq(Outside(Calmed)) /\ RxGainOverride(FALSE) \in Seq(Outside(Calmed))
         /\ RxLend \in Seq(Outside(Calmed))
<1>1. RxLend \in Seq(Outside(Calmed)) /\ RxGainOverride(FALSE) \in Seq(Outside(Calmed))
  BY SMTT(30) DEF RxLend, RxGainOverride, If, Word, Calmed, Quiets, Gm, Outside, Instr, Mod, Wr, Or, R
<1> DEFINE a == <<Wr(\h631, v), Wr(\h44c, w)>>
           b == TrswOverride(FALSE, FALSE)
           c == <<Mod(\h44c, {2}, {})>>
<1>2. RxBack(v, w) = (a \o b) \o c
  BY DEF RxBack
<1>3. a \in Seq(Outside(Calmed)) /\ b \in Seq(Outside(Calmed)) /\ c \in Seq(Outside(Calmed))
  BY SMTT(30) DEF TrswOverride, If, Word, Calmed, Quiets, Gm, Outside, Instr, Mod, Wr, R
<1> HIDE DEF a, b, c
<1>4. a \o b \in Seq(Outside(Calmed))
  BY <1>3, ConcatSeqs
<1>5. (a \o b) \o c \in Seq(Outside(Calmed))
  BY <1>3, <1>4, ConcatSeqs
<1> QED
  BY <1>1, <1>2, <1>5

\* rx_iq_cal() leaves calm what was calm: its samples have stopped, and what it set is back.
LEMMA RxLeaves ==
  ASSUME NEW p, Apt(Calmed, p), NEW o \in Outcomes PROVE Apt(Calmed, RxIqCal(p, o))
<1> DEFINE off0 == SetTxPwrCtrl(p, Off)
           off == Run(off0, RxLend)
           set0 == SetTxPwrByIndex(off, 40)
           set == Run(set0, RxIqCalSetup)
           found == Run(set, RxSearch(o.search))
           quiet == StopTxTone(found)
           rest == Restore(quiet, off, RxPhyRegs)
           v == p.reg[\h631]
           w == off.reg[\h44d]
           prog == RxBack(v, w)
           back == Run(rest, prog)
           radio == Restore(back, off, RxRfRegs)
           free == TxGainOverride(FALSE)
           gained == IF TxGainOverridden(off) THEN SetTxPwrByIndex(radio, off.current)
                     ELSE Run(radio, free)
           ctrl == SetTxPwrCtrl(gained, Mode(p))
           done == RxGainOverride(FALSE)
           q == Run(ctrl, done)
           U == Unplayed \cup Stops
<1>1. RxIqCal(p, o) = q
  BY DEF RxIqCal, RxBack, RxLend
<1>2. p \in Phys /\ \h631 \in Regs /\ \h44d \in Regs
  BY DEF Apt, Regs
<1>3. RxLend \in Seq(Outside(Calmed)) /\ done \in Seq(Outside(Calmed))
  <2>1. {} \in SUBSET Word
    OBVIOUS
  <2> QED
    BY <2>1, RxEnds
<1> HIDE DEF done
<1>4. Held(Calmed, p, off0)
  BY SoftIs, HeldCtrl
<1> HIDE DEF off0
<1>5. Held(Calmed, off0, off)
  BY <1>3, <1>4, HeldIs, HeldOutside
<1> HIDE DEF off
<1>6. Apt(Calmed, off) /\ off \in Phys
  BY <1>5, HeldIs
<1>7. Held(Unplayed, off, set0)
  BY <1>6, HeldIndex, HeldLess, RxRegsApart
<1> HIDE DEF set0
<1>8. Held(Unplayed, set0, set)
  BY <1>7, SearchUnplayed, HeldIs, HeldOutside
<1> HIDE DEF set
<1>9. Held(Unplayed, set, found)
  BY <1>8, SearchUnplayed, HeldIs, HeldOutside
<1> HIDE DEF found
<1>10. Held(Unplayed, found, quiet)
  <2>1. Quietly(Unplayed, found)
    BY DEF Quietly
  <2> QED
    BY <1>9, <2>1, RxRegsApart, HeldIs, HeldStop
<1>11. Apt(U, quiet) /\ quiet \in Phys
  <2>1. found \in Phys /\ ~found.hw
    BY <1>9, HeldIs DEF Apt
  <2>2. Apt(Stops, quiet)
    BY <2>1, StopLeaves
  <2>3. Apt(Unplayed, quiet) /\ quiet \in Phys
    BY <1>10, HeldIs
  <2> HIDE DEF quiet
  <2> QED
    BY <2>2, <2>3, AptBoth
<1>12. Board(off, quiet)
  <2>1. Held(Unplayed, off, quiet)
    BY <1>7, <1>8, <1>9, <1>10, HeldTwice
  <2> QED
    BY <2>1, HeldIs
<1> HIDE DEF quiet
<1>13. Held(U, quiet, rest)
  <2>1. RxPhyRegs \cap (Tones \cup Power) = {} /\ Apart(U, RxPhyRegs)
    BY RxRegsAre, RxRegsApart
  <2> HIDE DEF U
  <2> QED
    BY <1>6, <1>11, <2>1, HeldRestore
<1>14. Apt(Calmed, rest)
  <2>1. \A a \in RxPhyRegs : rest.reg[a] = off.reg[a]
    BY <1>11, RxRegsApart, RestoredAt
  <2>2. Board(off, rest) /\ Apt(U, rest)
    BY <1>12, <1>13, HeldIs, BoardTwice
  <2> HIDE DEF rest
  <2>3. Apt(FrontEnd \cup Supply, off)
    BY <1>6, AptLess, RxRegsApart
  <2>4. \A a \in FrontEnd \cup Supply : rest.reg[a] = off.reg[a]
    BY <2>1, RxRegsApart
  <2>5. Apt(FrontEnd \cup Supply, rest)
    BY <2>2, <2>3, <2>4, AptAgain
  <2> QED
    BY <2>2, <2>5, AptBoth, RxRegsApart
<1> HIDE DEF rest
<1>15. prog \in Seq(Outside(Calmed))
  <2>1. v \in SUBSET Word /\ w \in SUBSET Word
    BY <1>2, <1>6, Words
  <2> HIDE DEF v, w
  <2>2. RxBack(v, w) \in Seq(Outside(Calmed))
    BY <2>1, RxEnds
  <2> QED
    BY <2>2
<1> HIDE DEF prog
<1>16. Held(Calmed, rest, back)
  BY <1>14, <1>15, HeldOutside
<1> HIDE DEF back
<1>17. Held(Calmed, back, radio)
  BY <1>6, <1>16, RxRegsAre, RxRegsApart, HeldIs, HeldRestore
<1> HIDE DEF radio
<1>18. Apt(Calmed, radio)
  BY <1>17, HeldIs
<1>19. Held(Calmed, radio, gained)
  <2>1. Held(Calmed, radio, SetTxPwrByIndex(radio, off.current))
    <3>1. off.current \in 0 .. 127
      BY <1>6 DEF Phys
    <3> QED
      BY <1>18, <3>1, HeldIndex
  <2>2. Held(Calmed, radio, Run(radio, free))
    BY <1>18, AptOverrides, HeldRun
  <2> QED
    BY <2>1, <2>2
<1> HIDE DEF gained
<1>20. Held(Calmed, gained, ctrl)
  BY <1>2, <1>19, ModeIs, CalmedIs, HeldIs, HeldCtrl
<1> HIDE DEF ctrl
<1>21. Held(Calmed, ctrl, q)
  BY <1>3, <1>20, HeldIs, HeldOutside
<1> QED
  BY <1>1, <1>21, HeldIs

-----------------------------------------------------------------------------
(* What an index leaves.                                                   *)

\* The clocks without the hardware's control.
CtrlClocks == <<Mod(\h6da, {6}, {}), Mod(\h6a3, {4}, {4})>>

\* Turning the control off.
OffProg ==
  <<Mod(\h6da, {6}, {}), Mod(\h6a3, {4}, {4}), Mod(\h4b0, {8}, {8}), Mod(\h43b, {6}, {6}),
    Mod(\h4a4, ModeBits, {})>>

\* Setting an index, the gains of which are gm, w, dac and pa.
IndexProg(gm, w, dac, pa) ==
  <<Mod(\h6da, {6}, {}), Mod(\h6a3, {4}, {4}), Mod(\h4b0, {8}, {8}), Mod(\h43b, {6}, {6}),
    Mod(\h4a4, ModeBits, {}), Mod(\h4b5, Word, gm), Mod(\h4fb, 0 .. 14, w), Mod(\h439, 7 .. 9, dac),
    Mod(\h4b0, {8}, {8}), Mod(\h43b, {6}, {6}), Mod(\h4fb, 8 .. 14, pa),
    Mod(\h4b0, {8}, {8}), Mod(\h43b, {6}, {6})>>

\* The modes differ, and neither is the temperature's.
LEMMA Modes13 == {13} # Off /\ {13} # Hw /\ Off # Hw /\ TempBased # {13} /\ TempBased # Off /\ TempBased # Hw
<1>1. 0 \in TempBased /\ 0 \notin {13} /\ 0 \notin Off /\ 0 \notin Hw
  BY DEF TempBased, Off, Hw, ModeBits
<1> QED
  BY <1>1, SoftIs

\* Turning off the control by temperature.
LEMMA OffRun ==
  ASSUME NEW p \in Phys, ~p.hw, Mode(p) = {13} PROVE SetTxPwrCtrl(p, Off) = Run(p, OffProg)
<1> DEFINE old == EffectiveMode(p, Mode(p))
           new == EffectiveMode(p, Off)
           clocks == <<Mod(\h6da, {6}, If(new = Hw, {6})), Mod(\h6a3, {4}, If(new # Hw, {4}))>>
           switch == (IF new = Hw THEN HandOver(p) ELSE TxGainOverride(TRUE)) \o <<Mod(\h4a4, ModeBits, new)>> \o
                     (IF new = TempBased THEN SoftCtrl(TargetIndex(p)) ELSE <<>>)
           prog == clocks \o (IF old = new THEN <<>> ELSE switch)
<1>1. old = {13} /\ new = Off
  BY Modes13 DEF EffectiveMode
<1>2. SetTxPwrCtrl(p, Off) = Run(p, prog)
  <2>1. SetTxPwrCtrl(p, Off) = IF old # new /\ new = TempBased
                               THEN [Run(p, prog) EXCEPT !.current = ReadIndex(Run(p, prog))] ELSE Run(p, prog)
    BY DEF SetTxPwrCtrl
  <2> HIDE DEF prog, new, old
  <2>2. new # TempBased
    BY <1>1, Modes13
  <2> QED
    BY <2>1, <2>2
<1>3. clocks = CtrlClocks
  BY <1>1, Modes13 DEF CtrlClocks, If
<1>4. switch = TxGainOverride(TRUE) \o <<Mod(\h4a4, ModeBits, Off)>> \o <<>>
  <2> DEFINE u == TxGainOverride(TRUE)
             v(m) == <<Mod(\h4a4, ModeBits, m)>>
             x == SoftCtrl(TargetIndex(p))
             y == HandOver(p)
  <2>1. switch = (IF new = Hw THEN y ELSE u) \o v(new) \o (IF new = TempBased THEN x ELSE <<>>)
    OBVIOUS
  <2>2. new = Off /\ new # Hw /\ new # TempBased
    BY <1>1, Modes13
  <2> HIDE DEF u, v, x, y, new, switch
  <2>3. switch = u \o v(Off) \o <<>>
    BY <2>1, <2>2
  <2> QED
    BY <2>3 DEF u, v
<1>5. OffProg = CtrlClocks \o (TxGainOverride(TRUE) \o <<Mod(\h4a4, ModeBits, Off)>> \o <<>>)
  BY DEF OffProg, CtrlClocks, TxGainOverride, If, Off
<1> HIDE DEF clocks, switch, old, new
<1>6. prog = CtrlClocks \o switch
  <2>1. old # new
    BY <1>1, Modes13
  <2> QED
    BY <1>3, <2>1
<1> HIDE DEF prog
<1>7. prog = OffProg
  BY <1>4, <1>5, <1>6
<1> QED
  BY <1>2, <1>7

\* What is not a register is not looked at.
LEMMA RunReg ==
  ASSUME NEW p \in Phys, NEW q \in Phys, q.reg = p.reg, NEW s \in Progs
  PROVE  Run(q, s).reg = Run(p, s).reg
<1>1. Run(q, s).reg = Apply(q.reg, s) /\ Run(p, s).reg = Apply(p.reg, s)
  BY RunIs DEF Progs
<1> QED
  BY <1>1

\* Setting an index, as one sequence.
LEMMA IndexRun ==
  ASSUME NEW p \in Phys, ~p.hw, Mode(p) = {13}, NEW i \in 0 .. 127
  PROVE  \E gm, w \in SUBSET Word :
           SetTxPwrByIndex(p, i).reg = Run(p, IndexProg(gm, w, {}, PaOf(p))).reg
<1> DEFINE p1 == [p EXCEPT !.current = i]
           off == SetTxPwrCtrl(p1, Off)
           g == GainOf(p, i)
           gm == g.gm
           w == g.pad \cup PaGain(off)
           pa == PaOf(p)
           on == TxGainOverride(TRUE)
           a == <<Mod(\h4b5, Word, gm), Mod(\h4fb, 0 .. 14, w), Mod(\h439, 7 .. 9, {})>> \o on
           b == <<Mod(\h4fb, 8 .. 14, pa)>>
           gained == Run(off, a)
           padded == Run(gained, b)
           set == Run(padded, on)
           q == SetTxPwrByIndex(p, i)
<1>1. p1 \in Phys /\ p1.reg = p.reg /\ ~p1.hw /\ Mode(p1) = {13}
  BY DEF Phys, Mode
<1> HIDE DEF p1
<1>2. off = Run(p1, OffProg)
  BY <1>1, OffRun
<1>3. OffProg \in Progs
  BY SMTT(30) DEF OffProg, Progs, Instr, Mod, Word, ModeBits
<1>4. off \in Phys
  BY <1>1, <1>2, <1>3, RunPhys
<1> HIDE DEF off
<1>5. g \in Gains /\ g.dac = {} /\ pa \in SUBSET Word
  BY TheGains DEF GainOf
<1>6. SetTxPwrByIndex(p, i).reg = set.reg
  <2>1. SetTxGain(off, g) = gained
    BY <1>5 DEF SetTxGain
  <2>2. SetPaGain(gained, pa) = padded
    BY DEF SetPaGain
  <2>3. /\ SetTxPwrByIndex(p, i) =
             [Run(SetPaGain(SetTxGain(off, g), pa), on) EXCEPT
                !.bbmult = <<"index", i>>,
                !.coef = IF p.hw THEN p.coefs ELSE Run(SetPaGain(SetTxGain(off, g), pa), on).coef]
    BY DEF SetTxPwrByIndex, off, p1
  <2> HIDE DEF gained, padded, g, pa, on
  <2>4. Run(SetPaGain(SetTxGain(off, g), pa), on) = set
    BY <2>1, <2>2
  <2>5. set = [padded EXCEPT !.reg = Apply(padded.reg, on)]
    BY DEF Run
  <2>6. padded \in Phys
    BY <2>1, <2>2, <1>4, <1>5, StillGain, StillPaGain, StillIs
  <2> HIDE DEF set
  <2> QED
    BY <2>3, <2>4, <2>5, <2>6 DEF Phys
<1>7. gm \in SUBSET Word /\ w \in SUBSET Word
  BY <1>4, <1>5, TheGains DEF Gains
<1> HIDE DEF g, gm, w, pa
<1>8. a \in Progs /\ b \in Progs /\ on \in Progs
  <2>1. on \in Progs
    BY SMTT(30) DEF Progs, TxGainOverride, If, Instr, Mod, Word
  <2>2. b \in Progs
    BY <1>5, SMTT(30) DEF Progs, Instr, Mod, Word
  <2> DEFINE c == <<Mod(\h4b5, Word, gm), Mod(\h4fb, 0 .. 14, w), Mod(\h439, 7 .. 9, {})>>
  <2>3. c \in Progs
    BY <1>7, SMTT(30) DEF Progs, Instr, Mod, Word
  <2> HIDE DEF c, on
  <2>4. c \o on \in Progs
    BY <2>1, <2>3, ConcatSeqs DEF Progs
  <2> QED
    BY <2>1, <2>2, <2>4 DEF c
<1>9. IndexProg(gm, w, {}, pa) = OffProg \o (a \o (b \o on))
  <2> DEFINE c == <<Mod(\h4b5, Word, gm), Mod(\h4fb, 0 .. 14, w), Mod(\h439, 7 .. 9, {}),
                    Mod(\h4b0, {8}, {8}), Mod(\h43b, {6}, {6})>>
             d == <<Mod(\h4fb, 8 .. 14, pa), Mod(\h4b0, {8}, {8}), Mod(\h43b, {6}, {6})>>
             e == <<Mod(\h4b5, Word, gm), Mod(\h4fb, 0 .. 14, w), Mod(\h439, 7 .. 9, {}),
                    Mod(\h4b0, {8}, {8}), Mod(\h43b, {6}, {6}),
                    Mod(\h4fb, 8 .. 14, pa), Mod(\h4b0, {8}, {8}), Mod(\h43b, {6}, {6})>>
  <2>1. c = a
    BY DEF TxGainOverride, If
  <2>2. d = b \o on
    BY DEF TxGainOverride, If
  <2>3. e = c \o d
    OBVIOUS
  <2>4. IndexProg(gm, w, {}, pa) = OffProg \o e
    BY DEF IndexProg, OffProg
  <2> HIDE DEF a, b, on, c, d, e
  <2> QED
    BY <2>1, <2>2, <2>3, <2>4
<1> HIDE DEF a, b, on
<1>10. b \o on \in Progs /\ a \o (b \o on) \in Progs
  BY <1>8, ConcatSeqs DEF Progs
<1>11. Run(p1, IndexProg(gm, w, {}, pa)) = Run(off, a \o (b \o on))
  <2> DEFINE t == a \o (b \o on)
  <2>1. t \in Progs /\ IndexProg(gm, w, {}, pa) = OffProg \o t
    BY <1>9, <1>10
  <2> HIDE DEF t
  <2>2. Run(p1, OffProg \o t) = Run(Run(p1, OffProg), t)
    BY <1>1, <1>3, <2>1, RunTwice
  <2>3. Run(p1, IndexProg(gm, w, {}, pa)) = Run(off, t)
    BY <1>2, <2>1, <2>2
  <2> QED
    BY <2>3 DEF t
<1>12. Run(off, a \o (b \o on)) = Run(gained, b \o on)
  BY <1>4, <1>8, <1>10, RunTwice
<1>13. gained \in Phys
  <2>1. Plain(off, gained)
    BY <1>4, <1>8, RunIs DEF Progs
  <2> QED
    BY <2>1 DEF Plain
<1>14. Run(gained, b \o on) = set
  BY <1>8, <1>13, RunTwice
<1>15. IndexProg(gm, w, {}, pa) \in Progs
  BY <1>3, <1>9, <1>10, ConcatSeqs DEF Progs
<1>16. Run(p1, IndexProg(gm, w, {}, pa)).reg = Run(p, IndexProg(gm, w, {}, pa)).reg
  BY <1>1, <1>15, RunReg
<1> HIDE DEF set, gained
<1>17. SetTxPwrByIndex(p, i).reg = Run(p, IndexProg(gm, w, {}, pa)).reg
  BY <1>6, <1>11, <1>12, <1>14, <1>16
<1> QED
  BY <1>7, <1>17 DEF pa

\* An access that a sequence contains, after which its register stays.
Ends(prog, m) == \E s \in Progs, t \in Later(m.addr) : prog = Then(s, m, t)

\* The last accesses to registers, by the sequence for an index.
LEMMA IndexParts ==
  ASSUME NEW gm \in SUBSET Word, NEW w \in SUBSET Word, NEW pa \in SUBSET Word,
         NEW prog, prog = IndexProg(gm, w, {}, pa)
  PROVE  /\ Ends(prog, Mod(\h6da, {6}, {}))
         /\ Ends(prog, Mod(\h6a3, {4}, {4}))
         /\ Ends(prog, Mod(\h4a4, ModeBits, {}))
         /\ Ends(prog, Mod(\h439, 7 .. 9, {}))
         /\ Ends(prog, Mod(\h4fb, 8 .. 14, pa))
         /\ Ends(prog, Mod(\h4b0, {8}, {8}))
         /\ Ends(prog, Mod(\h43b, {6}, {6}))
<1>1. Ends(prog, Mod(\h6da, {6}, {}))
  <2> DEFINE s == <<>>
             t == <<Mod(\h6a3, {4}, {4}), Mod(\h4b0, {8}, {8}), Mod(\h43b, {6}, {6}), Mod(\h4a4, ModeBits, {}),
                  Mod(\h4b5, Word, gm), Mod(\h4fb, 0 .. 14, w), Mod(\h439, 7 .. 9, {}), Mod(\h4b0, {8}, {8}),
                  Mod(\h43b, {6}, {6}), Mod(\h4fb, 8 .. 14, pa), Mod(\h4b0, {8}, {8}), Mod(\h43b, {6}, {6})>>
             m == Mod(\h6da, {6}, {})
  <2>1. s \in Progs
    BY SMTT(30) DEF Progs, Instr, Mod, Word, ModeBits
  <2>2. t \in Later(m.addr)
    BY SMTT(30) DEF Later, Outside, Instr, Mod, Word, ModeBits
  <2>3. prog = Then(s, m, t)
    BY DEF IndexProg, Then
  <2> HIDE DEF s, t, m
  <2>4. Ends(prog, m)
    BY <2>1, <2>2, <2>3 DEF Ends
  <2> QED
    BY <2>4 DEF m
<1>2. Ends(prog, Mod(\h6a3, {4}, {4}))
  <2> DEFINE s == <<Mod(\h6da, {6}, {})>>
             t == <<Mod(\h4b0, {8}, {8}), Mod(\h43b, {6}, {6}), Mod(\h4a4, ModeBits, {}), Mod(\h4b5, Word, gm),
                  Mod(\h4fb, 0 .. 14, w), Mod(\h439, 7 .. 9, {}), Mod(\h4b0, {8}, {8}), Mod(\h43b, {6}, {6}),
                  Mod(\h4fb, 8 .. 14, pa), Mod(\h4b0, {8}, {8}), Mod(\h43b, {6}, {6})>>
             m == Mod(\h6a3, {4}, {4})
  <2>1. s \in Progs
    BY SMTT(30) DEF Progs, Instr, Mod, Word, ModeBits
  <2>2. t \in Later(m.addr)
    BY SMTT(30) DEF Later, Outside, Instr, Mod, Word, ModeBits
  <2>3. prog = Then(s, m, t)
    BY DEF IndexProg, Then
  <2> HIDE DEF s, t, m
  <2>4. Ends(prog, m)
    BY <2>1, <2>2, <2>3 DEF Ends
  <2> QED
    BY <2>4 DEF m
<1>3. Ends(prog, Mod(\h4a4, ModeBits, {}))
  <2> DEFINE s == <<Mod(\h6da, {6}, {}), Mod(\h6a3, {4}, {4}), Mod(\h4b0, {8}, {8}), Mod(\h43b, {6}, {6})>>
             t == <<Mod(\h4b5, Word, gm), Mod(\h4fb, 0 .. 14, w), Mod(\h439, 7 .. 9, {}), Mod(\h4b0, {8}, {8}),
                  Mod(\h43b, {6}, {6}), Mod(\h4fb, 8 .. 14, pa), Mod(\h4b0, {8}, {8}), Mod(\h43b, {6}, {6})>>
             m == Mod(\h4a4, ModeBits, {})
  <2>1. s \in Progs
    BY SMTT(30) DEF Progs, Instr, Mod, Word, ModeBits
  <2>2. t \in Later(m.addr)
    BY SMTT(30) DEF Later, Outside, Instr, Mod, Word, ModeBits
  <2>3. prog = Then(s, m, t)
    BY DEF IndexProg, Then
  <2> HIDE DEF s, t, m
  <2>4. Ends(prog, m)
    BY <2>1, <2>2, <2>3 DEF Ends
  <2> QED
    BY <2>4 DEF m
<1>4. Ends(prog, Mod(\h439, 7 .. 9, {}))
  <2> DEFINE s == <<Mod(\h6da, {6}, {}), Mod(\h6a3, {4}, {4}), Mod(\h4b0, {8}, {8}), Mod(\h43b, {6}, {6}),
                  Mod(\h4a4, ModeBits, {}), Mod(\h4b5, Word, gm), Mod(\h4fb, 0 .. 14, w)>>
             t == <<Mod(\h4b0, {8}, {8}), Mod(\h43b, {6}, {6}), Mod(\h4fb, 8 .. 14, pa), Mod(\h4b0, {8}, {8}),
                  Mod(\h43b, {6}, {6})>>
             m == Mod(\h439, 7 .. 9, {})
  <2>1. s \in Progs
    BY SMTT(30) DEF Progs, Instr, Mod, Word, ModeBits
  <2>2. t \in Later(m.addr)
    BY SMTT(30) DEF Later, Outside, Instr, Mod, Word, ModeBits
  <2>3. prog = Then(s, m, t)
    BY DEF IndexProg, Then
  <2> HIDE DEF s, t, m
  <2>4. Ends(prog, m)
    BY <2>1, <2>2, <2>3 DEF Ends
  <2> QED
    BY <2>4 DEF m
<1>5. Ends(prog, Mod(\h4fb, 8 .. 14, pa))
  <2> DEFINE s == <<Mod(\h6da, {6}, {}), Mod(\h6a3, {4}, {4}), Mod(\h4b0, {8}, {8}), Mod(\h43b, {6}, {6}),
                  Mod(\h4a4, ModeBits, {}), Mod(\h4b5, Word, gm), Mod(\h4fb, 0 .. 14, w), Mod(\h439, 7 .. 9, {}),
                  Mod(\h4b0, {8}, {8}), Mod(\h43b, {6}, {6})>>
             t == <<Mod(\h4b0, {8}, {8}), Mod(\h43b, {6}, {6})>>
             m == Mod(\h4fb, 8 .. 14, pa)
  <2>1. s \in Progs
    BY SMTT(30) DEF Progs, Instr, Mod, Word, ModeBits
  <2>2. t \in Later(m.addr)
    BY SMTT(30) DEF Later, Outside, Instr, Mod, Word, ModeBits
  <2>3. prog = Then(s, m, t)
    BY DEF IndexProg, Then
  <2> HIDE DEF s, t, m
  <2>4. Ends(prog, m)
    BY <2>1, <2>2, <2>3 DEF Ends
  <2> QED
    BY <2>4 DEF m
<1>6. Ends(prog, Mod(\h4b0, {8}, {8}))
  <2> DEFINE s == <<Mod(\h6da, {6}, {}), Mod(\h6a3, {4}, {4}), Mod(\h4b0, {8}, {8}), Mod(\h43b, {6}, {6}),
                  Mod(\h4a4, ModeBits, {}), Mod(\h4b5, Word, gm), Mod(\h4fb, 0 .. 14, w), Mod(\h439, 7 .. 9, {}),
                  Mod(\h4b0, {8}, {8}), Mod(\h43b, {6}, {6}), Mod(\h4fb, 8 .. 14, pa)>>
             t == <<Mod(\h43b, {6}, {6})>>
             m == Mod(\h4b0, {8}, {8})
  <2>1. s \in Progs
    BY SMTT(30) DEF Progs, Instr, Mod, Word, ModeBits
  <2>2. t \in Later(m.addr)
    BY SMTT(30) DEF Later, Outside, Instr, Mod, Word, ModeBits
  <2>3. prog = Then(s, m, t)
    BY DEF IndexProg, Then
  <2> HIDE DEF s, t, m
  <2>4. Ends(prog, m)
    BY <2>1, <2>2, <2>3 DEF Ends
  <2> QED
    BY <2>4 DEF m
<1>7. Ends(prog, Mod(\h43b, {6}, {6}))
  <2> DEFINE s == <<Mod(\h6da, {6}, {}), Mod(\h6a3, {4}, {4}), Mod(\h4b0, {8}, {8}), Mod(\h43b, {6}, {6}),
                  Mod(\h4a4, ModeBits, {}), Mod(\h4b5, Word, gm), Mod(\h4fb, 0 .. 14, w), Mod(\h439, 7 .. 9, {}),
                  Mod(\h4b0, {8}, {8}), Mod(\h43b, {6}, {6}), Mod(\h4fb, 8 .. 14, pa), Mod(\h4b0, {8}, {8})>>
             t == <<>>
             m == Mod(\h43b, {6}, {6})
  <2>1. s \in Progs
    BY SMTT(30) DEF Progs, Instr, Mod, Word, ModeBits
  <2>2. t \in Later(m.addr)
    BY SMTT(30) DEF Later, Outside, Instr, Mod, Word, ModeBits
  <2>3. prog = Then(s, m, t)
    BY DEF IndexProg, Then
  <2> HIDE DEF s, t, m
  <2>4. Ends(prog, m)
    BY <2>1, <2>2, <2>3 DEF Ends
  <2> QED
    BY <2>4 DEF m
<1> QED
  BY <1>1, <1>2, <1>3, <1>4, <1>5, <1>6, <1>7

\* What the access leaves.
LEMMA EndsIs ==
  ASSUME NEW p \in Phys, NEW m \in Instr, m.addr \in Regs, NEW prog, Ends(prog, m)
  PROVE  /\ prog \in Progs
         /\ \E w \in SUBSET Word : Run(p, prog).reg[m.addr] = (w \cap m.keep) \cup m.set
<1>1. PICK s \in Progs, t \in Later(m.addr) : prog = Then(s, m, t)
  BY DEF Ends
<1>2. /\ prog \in Progs
      /\ Run(p, prog).reg[m.addr] = (Apply(p.reg, s)[m.addr] \cap m.keep) \cup m.set
  BY <1>1, LastWrite
<1>3. Apply(p.reg, s) \in Files
  BY RegsOf, FilesApply DEF Progs
<1>4. Apply(p.reg, s)[m.addr] \in SUBSET Word
  BY <1>3 DEF Files
<1> QED
  BY <1>2, <1>4

\* Overrides, clocks and gains between the setting of an index and the end of a
\* calibration.
Level(pa) ==
  {r \in Files :
     /\ r[\h43b] = {6} /\ r[\h4b0] \subseteq {8} /\ r[\h6da] \subseteq {6} /\ r[\h6a3] = {4}
     /\ r[\h439] \subseteq 7 .. 9 /\ r[\h4fb] \subseteq 8 .. 14 /\ pa \subseteq r[\h4fb]}

\* The control by temperature is on, and nothing else of its register.
By13(p) == p.reg[\h4a4] = {13}

\* An index levels them.
LEMMA IndexLevels ==
  ASSUME NEW p \in Phys, ~p.hw, Mode(p) = {13}, NEW i \in 0 .. 127
  PROVE  SetTxPwrByIndex(p, i).reg \in Level(PaOf(p)) /\ By13(SetTxPwrByIndex(p, i))
<1> DEFINE q == SetTxPwrByIndex(p, i)
           pa == PaOf(p)
<1>1. pa \in SUBSET Word /\ pa \subseteq 8 .. 14
  BY DEF PaOf, Word
<1>2. q \in Phys /\ Mode(q) = {13}
  BY SetTxPwrByIndexIs DEF Indexed, Keeps
<1>3. PICK gm \in SUBSET Word, w \in SUBSET Word : q.reg = Run(p, IndexProg(gm, w, {}, pa)).reg
  BY IndexRun
<1> HIDE DEF q, pa
<1> DEFINE prog == IndexProg(gm, w, {}, pa)
           r == Run(p, prog).reg
<1>4. /\ Ends(prog, Mod(\h6da, {6}, {}))
      /\ Ends(prog, Mod(\h6a3, {4}, {4}))
      /\ Ends(prog, Mod(\h4a4, ModeBits, {}))
      /\ Ends(prog, Mod(\h439, 7 .. 9, {}))
      /\ Ends(prog, Mod(\h4fb, 8 .. 14, pa))
      /\ Ends(prog, Mod(\h4b0, {8}, {8}))
      /\ Ends(prog, Mod(\h43b, {6}, {6}))
  BY <1>1, IndexParts
<1> HIDE DEF prog
<1>5. /\ \h6da \in Regs /\ \h6a3 \in Regs /\ \h4a4 \in Regs /\ \h439 \in Regs /\ \h4fb \in Regs
      /\ \h4b0 \in Regs /\ \h43b \in Regs
  BY DEF Regs
<1>6. r[\h6da] \subseteq {6}
  <2> DEFINE m == Mod(\h6da, {6}, {})
  <2>1. m \in Instr /\ m.addr = \h6da /\ m.keep = {6} /\ m.set = {} /\ Ends(prog, m)
    BY <1>1, <1>4 DEF Instr, Mod, Word, ModeBits
  <2> HIDE DEF m
  <2>2. p \in Phys /\ m \in Instr /\ m.addr \in Regs /\ Ends(prog, m)
    BY <1>5, <2>1
  <2>3. \E v \in SUBSET Word : r[m.addr] = (v \cap m.keep) \cup m.set
    BY <2>2, EndsIs
  <2> HIDE DEF r
  <2> QED
    BY <1>1, <2>1, <2>3
<1>7. r[\h6a3] = {4}
  <2> DEFINE m == Mod(\h6a3, {4}, {4})
  <2>1. m \in Instr /\ m.addr = \h6a3 /\ m.keep = {4} /\ m.set = {4} /\ Ends(prog, m)
    BY <1>1, <1>4 DEF Instr, Mod, Word, ModeBits
  <2> HIDE DEF m
  <2>2. p \in Phys /\ m \in Instr /\ m.addr \in Regs /\ Ends(prog, m)
    BY <1>5, <2>1
  <2>3. \E v \in SUBSET Word : r[m.addr] = (v \cap m.keep) \cup m.set
    BY <2>2, EndsIs
  <2> HIDE DEF r
  <2> QED
    BY <1>1, <2>1, <2>3
<1>8. r[\h4a4] \subseteq ModeBits
  <2> DEFINE m == Mod(\h4a4, ModeBits, {})
  <2>1. m \in Instr /\ m.addr = \h4a4 /\ m.keep = ModeBits /\ m.set = {} /\ Ends(prog, m)
    BY <1>1, <1>4 DEF Instr, Mod, Word, ModeBits
  <2> HIDE DEF m
  <2>2. p \in Phys /\ m \in Instr /\ m.addr \in Regs /\ Ends(prog, m)
    BY <1>5, <2>1
  <2>3. \E v \in SUBSET Word : r[m.addr] = (v \cap m.keep) \cup m.set
    BY <2>2, EndsIs
  <2> HIDE DEF r
  <2> QED
    BY <1>1, <2>1, <2>3
<1>9. r[\h439] \subseteq 7 .. 9
  <2> DEFINE m == Mod(\h439, 7 .. 9, {})
  <2>1. m \in Instr /\ m.addr = \h439 /\ m.keep = 7 .. 9 /\ m.set = {} /\ Ends(prog, m)
    BY <1>1, <1>4 DEF Instr, Mod, Word, ModeBits
  <2> HIDE DEF m
  <2>2. p \in Phys /\ m \in Instr /\ m.addr \in Regs /\ Ends(prog, m)
    BY <1>5, <2>1
  <2>3. \E v \in SUBSET Word : r[m.addr] = (v \cap m.keep) \cup m.set
    BY <2>2, EndsIs
  <2> HIDE DEF r
  <2> QED
    BY <1>1, <2>1, <2>3
<1>10. r[\h4fb] \subseteq 8 .. 14 /\ pa \subseteq r[\h4fb]
  <2> DEFINE m == Mod(\h4fb, 8 .. 14, pa)
  <2>1. m \in Instr /\ m.addr = \h4fb /\ m.keep = 8 .. 14 /\ m.set = pa /\ Ends(prog, m)
    BY <1>1, <1>4 DEF Instr, Mod, Word, ModeBits
  <2> HIDE DEF m
  <2>2. p \in Phys /\ m \in Instr /\ m.addr \in Regs /\ Ends(prog, m)
    BY <1>5, <2>1
  <2>3. \E v \in SUBSET Word : r[m.addr] = (v \cap m.keep) \cup m.set
    BY <2>2, EndsIs
  <2> HIDE DEF r
  <2> QED
    BY <1>1, <2>1, <2>3
<1>11. r[\h4b0] \subseteq {8}
  <2> DEFINE m == Mod(\h4b0, {8}, {8})
  <2>1. m \in Instr /\ m.addr = \h4b0 /\ m.keep = {8} /\ m.set = {8} /\ Ends(prog, m)
    BY <1>1, <1>4 DEF Instr, Mod, Word, ModeBits
  <2> HIDE DEF m
  <2>2. p \in Phys /\ m \in Instr /\ m.addr \in Regs /\ Ends(prog, m)
    BY <1>5, <2>1
  <2>3. \E v \in SUBSET Word : r[m.addr] = (v \cap m.keep) \cup m.set
    BY <2>2, EndsIs
  <2> HIDE DEF r
  <2> QED
    BY <1>1, <2>1, <2>3
<1>12. r[\h43b] = {6}
  <2> DEFINE m == Mod(\h43b, {6}, {6})
  <2>1. m \in Instr /\ m.addr = \h43b /\ m.keep = {6} /\ m.set = {6} /\ Ends(prog, m)
    BY <1>1, <1>4 DEF Instr, Mod, Word, ModeBits
  <2> HIDE DEF m
  <2>2. p \in Phys /\ m \in Instr /\ m.addr \in Regs /\ Ends(prog, m)
    BY <1>5, <2>1
  <2>3. \E v \in SUBSET Word : r[m.addr] = (v \cap m.keep) \cup m.set
    BY <2>2, EndsIs
  <2> HIDE DEF r
  <2> QED
    BY <1>1, <2>1, <2>3
<1> HIDE DEF r
<1>13. q.reg = r /\ r \in Files
  BY <1>2, <1>3, RegsOf DEF r, prog
<1>14. r[\h4a4] = {13}
  <2>1. r[\h4a4] \cap ModeBits = {13}
    BY <1>2, <1>13 DEF Mode
  <2> QED
    BY <1>8, <2>1
<1>15. r \in Level(pa)
  BY <1>6, <1>7, <1>9, <1>10, <1>11, <1>12, <1>13 DEF Level
<1>16. By13(q)
  BY <1>13, <1>14 DEF By13
<1> QED
  BY <1>13, <1>15, <1>16 DEF q, pa

\* Instructions that leave them level.
Gentle ==
  {i \in Instr :
     /\ i.addr \notin {\h439, \h4fb}
     /\ i.addr = \h43b => 6 \in i.keep /\ i.set \subseteq {6}
     /\ i.addr = \h4b0 => i.set \subseteq {8}
     /\ i.addr = \h6da => i.set \subseteq {6}
     /\ i.addr = \h6a3 => i.set \subseteq {4} /\ 4 \in i.keep}

\* Gentle accesses keep a register file level.
LEMMA GentleKeeps ==
  ASSUME NEW pa, NEW r \in Level(pa), NEW s \in Seq(Gentle) PROVE Apply(r, s) \in Level(pa)
<1> DEFINE V == Level(pa)
<1>1. r \in V /\ Len(s) \in Nat
  OBVIOUS
<1>2. ASSUME NEW k \in 1 .. Len(s), NEW f \in V PROVE Effect(f, s[k]) \in V
  <2> DEFINE i == s[k]
             w == (f[i.addr] \cap i.keep) \cup i.set
  <2>1. i \in Gentle
    OBVIOUS
  <2> HIDE DEF i
  <2>2. f \in [Regs -> SUBSET Word] /\ Effect(f, i) = [f EXCEPT ![i.addr] = w]
    BY DEF Files, Effect, Level
  <2>3. Effect(f, i) \in Files
    <3>1. i.addr \in Regs => w \in SUBSET Word
      <4>1. i.set \in SUBSET Word
        BY <2>1 DEF Gentle, Instr
      <4>2. i.addr \in Regs => f[i.addr] \in SUBSET Word
        BY <2>2
      <4> QED
        BY <4>1, <4>2
    <3> QED
      BY <2>2, <3>1 DEF Files
  <2>4. \A a \in Regs : Effect(f, i)[a] = IF a = i.addr THEN w ELSE f[a]
    BY <2>2
  <2>5. /\ \h6da \in Regs /\ \h6a3 \in Regs /\ \h439 \in Regs /\ \h4fb \in Regs
        /\ \h4b0 \in Regs /\ \h43b \in Regs
    BY DEF Regs
  <2>6. f[\h43b] = {6} /\ f[\h4b0] \subseteq {8} /\ f[\h6da] \subseteq {6} /\ f[\h6a3] = {4}
        /\ f[\h439] \subseteq 7 .. 9 /\ f[\h4fb] \subseteq 8 .. 14 /\ pa \subseteq f[\h4fb]
    BY DEF Level
  <2> DEFINE g == Effect(f, i)
  <2> HIDE DEF g
  <2>7. g[\h439] = f[\h439] /\ g[\h4fb] = f[\h4fb]
    BY <2>1, <2>4, <2>5 DEF g, Gentle
  <2>8. g[\h43b] = {6}
    <3>1. CASE i.addr = \h43b
      BY <2>1, <2>4, <2>5, <2>6, <3>1 DEF g, Gentle
    <3> QED
      BY <2>4, <2>5, <2>6, <3>1 DEF g
  <2>9. g[\h4b0] \subseteq {8}
    <3>1. CASE i.addr = \h4b0
      BY <2>1, <2>4, <2>5, <2>6, <3>1 DEF g, Gentle
    <3> QED
      BY <2>4, <2>5, <2>6, <3>1 DEF g
  <2>10. g[\h6da] \subseteq {6}
    <3>1. CASE i.addr = \h6da
      BY <2>1, <2>4, <2>5, <2>6, <3>1 DEF g, Gentle
    <3> QED
      BY <2>4, <2>5, <2>6, <3>1 DEF g
  <2>11. g[\h6a3] = {4}
    <3>1. CASE i.addr = \h6a3
      BY <2>1, <2>4, <2>5, <2>6, <3>1 DEF g, Gentle
    <3> QED
      BY <2>4, <2>5, <2>6, <3>1 DEF g
  <2>12. g \in Level(pa)
    BY <2>3, <2>6, <2>7, <2>8, <2>9, <2>10, <2>11 DEF g, Level
  <2> QED
    BY <2>12 DEF g, i
<1> HIDE DEF V
<1>3. Apply(r, s) \in V
  BY <1>1, <1>2, ApplyKeeps
<1> QED
  BY <1>3 DEF V

\* The sequences after an index was set leave level what is.
LEMMA GentleSequences ==
  /\ CtrlClocks \in Seq(Gentle) /\ TxGainOverride(TRUE) \in Seq(Gentle) /\ DeafMode(FALSE) \in Seq(Gentle)
  /\ \A i : SoftCtrl(i) \in Seq(Gentle)
  /\ <<Mod(\h4a4, ModeBits, TempBased)>> \in Seq(Gentle)
<1>1. CtrlClocks \in Seq(Gentle) /\ TxGainOverride(TRUE) \in Seq(Gentle) /\ DeafMode(FALSE) \in Seq(Gentle)
  BY SMTT(30) DEF CtrlClocks, TxGainOverride, DeafMode, If, Gentle, Instr, Mod, Word
<1>2. ASSUME NEW i PROVE SoftCtrl(i) \in Seq(Gentle)
  <2> DEFINE w == Bits(2 * i)
  <2>1. w \in SUBSET Word
    BY BitsAreWords
  <2>2. SoftCtrl(i) =
          <<Mod(\h4a4, {14}, {14}), Mod(\h4a4, {14}, {}), Or(\h6da, {6}),
            Mod(\h4a4, {15}, {15}), Mod(\h4a4, {14}, {14}), Mod(\h4a4, {13}, {13}),
            Mod(\h4b0, {7}, {}), Mod(\h43b, {6}, {}), Mod(\h4a9, {15}, {15}),
            Mod(\h4a9, 0 .. 8, w), Mod(\h6a3, {4}, {})>>
    BY DEF SoftCtrl
  <2> HIDE DEF w
  <2> QED
    BY <2>1, <2>2, SMTT(60) DEF Gentle, Instr, Mod, Or, Word
<1>3. <<Mod(\h4a4, ModeBits, TempBased)>> \in Seq(Gentle)
  BY SMTT(30) DEF Gentle, Instr, Mod, Word, ModeBits, TempBased
<1> QED
  BY <1>1, <1>2, <1>3

\* They are instructions.
LEMMA GentleProgs == ASSUME NEW s \in Seq(Gentle) PROVE s \in Progs
<1>1. Gentle \subseteq Instr
  BY DEF Gentle
<1> QED
  BY <1>1, SeqSubset DEF Progs

\* The control by temperature is on already.
LEMMA SameRun ==
  ASSUME NEW p \in Phys, ~p.hw, Mode(p) = {13} PROVE SetTxPwrCtrl(p, {13}) = Run(p, CtrlClocks)
<1> DEFINE old == EffectiveMode(p, Mode(p))
           new == EffectiveMode(p, {13})
           clocks == <<Mod(\h6da, {6}, If(new = Hw, {6})), Mod(\h6a3, {4}, If(new # Hw, {4}))>>
           switch == (IF new = Hw THEN HandOver(p) ELSE TxGainOverride(TRUE)) \o <<Mod(\h4a4, ModeBits, new)>> \o
                     (IF new = TempBased THEN SoftCtrl(TargetIndex(p)) ELSE <<>>)
           prog == clocks \o (IF old = new THEN <<>> ELSE switch)
<1>1. old = {13} /\ new = {13}
  BY Modes13 DEF EffectiveMode
<1>2. SetTxPwrCtrl(p, {13}) = IF old # new /\ new = TempBased
                              THEN [Run(p, prog) EXCEPT !.current = ReadIndex(Run(p, prog))] ELSE Run(p, prog)
  BY DEF SetTxPwrCtrl
<1>3. clocks = CtrlClocks
  BY <1>1, Modes13 DEF CtrlClocks, If
<1> HIDE DEF old, new, clocks, switch
<1>4. prog = CtrlClocks
  <2>1. prog = CtrlClocks \o <<>>
    BY <1>1, <1>3
  <2>2. CtrlClocks \in Seq(Gentle)
    BY GentleSequences
  <2> HIDE DEF prog
  <2> QED
    BY <2>1, <2>2
<1> HIDE DEF prog
<1> QED
  BY <1>1, <1>2, <1>4

\* Turning it on for the board that asks for the hardware's.
LEMMA SoftRun ==
  ASSUME NEW p \in Phys, ~p.hw, Mode(p) = {13}
  PROVE  \E s \in Seq(Gentle) : \E i : SetTxPwrCtrl(p, Hw).reg = Run(p, s \o SoftCtrl(i)).reg
<1> DEFINE old == EffectiveMode(p, Mode(p))
           new == EffectiveMode(p, Hw)
           clocks == <<Mod(\h6da, {6}, If(new = Hw, {6})), Mod(\h6a3, {4}, If(new # Hw, {4}))>>
           write(m) == <<Mod(\h4a4, ModeBits, m)>>
           switch == (IF new = Hw THEN HandOver(p) ELSE TxGainOverride(TRUE)) \o write(new) \o
                     (IF new = TempBased THEN SoftCtrl(TargetIndex(p)) ELSE <<>>)
           prog == clocks \o (IF old = new THEN <<>> ELSE switch)
           s == CtrlClocks \o (TxGainOverride(TRUE) \o write(TempBased))
           soft == SoftCtrl(TargetIndex(p))
<1>1. old = {13} /\ new = TempBased /\ new # Hw /\ old # new
  BY Modes13 DEF EffectiveMode
<1>2. SetTxPwrCtrl(p, Hw) = IF old # new /\ new = TempBased
                            THEN [Run(p, prog) EXCEPT !.current = ReadIndex(Run(p, prog))] ELSE Run(p, prog)
  BY DEF SetTxPwrCtrl
<1>3. clocks = CtrlClocks
  BY <1>1 DEF CtrlClocks, If
<1>4. switch = (TxGainOverride(TRUE) \o write(TempBased)) \o soft
  <2> HIDE DEF write, soft
  <2> DEFINE u == TxGainOverride(TRUE)
  <2> HIDE DEF u, new
  <2> QED
    BY <1>1 DEF u, soft
<1>5. s \in Seq(Gentle) /\ soft \in Seq(Gentle)
  <2>1. write(TempBased) \in Seq(Gentle)
    BY GentleSequences
  <2> HIDE DEF write
  <2> QED
    BY <2>1, GentleSequences, ConcatSeqs
<1>6. CtrlClocks \in Seq(Gentle) /\ TxGainOverride(TRUE) \o write(TempBased) \in Seq(Gentle)
  <2>1. write(TempBased) \in Seq(Gentle)
    BY GentleSequences
  <2> HIDE DEF write
  <2> QED
    BY <2>1, GentleSequences, ConcatSeqs
<1> HIDE DEF clocks, switch, old, new, write, soft
<1>7. prog = s \o soft
  <2> DEFINE u == TxGainOverride(TRUE) \o write(TempBased)
  <2>1. prog = CtrlClocks \o (u \o soft) /\ s = CtrlClocks \o u /\ u \in Seq(Gentle)
    BY <1>1, <1>3, <1>4, <1>6
  <2> HIDE DEF u, prog, s
  <2>2. CtrlClocks \o (u \o soft) = (CtrlClocks \o u) \o soft
    BY <1>5, <1>6, <2>1
  <2> QED
    BY <2>1, <2>2
<1> HIDE DEF prog, s
<1>8. SetTxPwrCtrl(p, Hw) = [Run(p, prog) EXCEPT !.current = ReadIndex(Run(p, prog))]
  BY <1>1, <1>2
<1>9. Run(p, prog) = [p EXCEPT !.reg = Apply(p.reg, prog)]
  BY DEF Run
<1>10. SetTxPwrCtrl(p, Hw).reg = Run(p, prog).reg
  BY <1>8, <1>9 DEF Phys
<1>11. SetTxPwrCtrl(p, Hw).reg = Run(p, s \o SoftCtrl(TargetIndex(p))).reg
  BY <1>7, <1>10 DEF soft
<1> QED
  BY <1>5, <1>11

\* Either way the rest stays level, and the mode is the temperature's.
LEMMA CtrlLevels ==
  ASSUME NEW p \in Phys, ~p.hw, By13(p), NEW pa, p.reg \in Level(pa), NEW mode \in Soft
  PROVE  SetTxPwrCtrl(p, mode).reg \in Level(pa) /\ By13(SetTxPwrCtrl(p, mode))
<1>1. Mode(p) = {13}
  BY DEF Mode, ModeBits, By13
<1>2. CASE mode = {13}
  <2>1. SetTxPwrCtrl(p, mode).reg = Apply(p.reg, CtrlClocks)
    <3>1. CtrlClocks \in Progs
      BY GentleSequences, GentleProgs
    <3> QED
      BY <1>1, <1>2, <3>1, SameRun, RunIs DEF Progs
  <2>2. Apply(p.reg, CtrlClocks) \in Level(pa)
    BY GentleSequences, GentleKeeps
  <2>3. Apply(p.reg, CtrlClocks)[\h4a4] = p.reg[\h4a4]
    <3> DEFINE A == {\h4a4}
               a == \h4a4
    <3>1. CtrlClocks \in Seq(Outside(A)) /\ A \subseteq Regs /\ a \in A /\ p.reg \in Files
      BY RegsOf, SMTT(30) DEF CtrlClocks, Outside, Instr, Mod, Word, Regs
    <3> HIDE DEF A, a
    <3>2. Apply(p.reg, CtrlClocks)[a] = p.reg[a]
      BY <3>1, FilesOutside
    <3> QED
      BY <3>2 DEF a
  <2> QED
    BY <2>1, <2>2, <2>3 DEF By13
<1>3. CASE mode = Hw
  <2>1. PICK s \in Seq(Gentle) : \E i : SetTxPwrCtrl(p, Hw).reg = Run(p, s \o SoftCtrl(i)).reg
    BY <1>1, SoftRun
  <2>2. PICK i : SetTxPwrCtrl(p, Hw).reg = Run(p, s \o SoftCtrl(i)).reg
    BY <2>1
  <2>3. s \in Progs /\ SoftCtrl(i) \in Progs /\ SoftCtrl(i) \in Seq(Gentle)
    BY GentleSequences, GentleProgs
  <2>4. Run(p, s \o SoftCtrl(i)).reg = Apply(Apply(p.reg, s), SoftCtrl(i))
    <3>1. Run(p, s \o SoftCtrl(i)) = Run(Run(p, s), SoftCtrl(i))
      BY <2>3, RunTwice
    <3>2. Run(p, s).reg = Apply(p.reg, s) /\ Run(p, s) \in Phys
      BY <2>3, RunIs DEF Progs, Plain
    <3> QED
      BY <2>3, <3>1, <3>2, RunIs DEF Progs
  <2>5. Apply(p.reg, s) \in Level(pa)
    BY GentleKeeps
  <2>6. Apply(Apply(p.reg, s), SoftCtrl(i)) \in Level(pa)
    BY <2>3, <2>5, GentleKeeps
  <2>7. Apply(p.reg, s) \in Files
    BY <2>5 DEF Level
  <2>8. Apply(Apply(p.reg, s), SoftCtrl(i))[\h4a4] = {13}
    BY <2>7, SoftCtrlEnds
  <2> QED
    BY <1>3, <2>2, <2>4, <2>6, <2>8 DEF By13
<1> QED
  BY <1>2, <1>3 DEF Soft

\* The registers that a calibration begins with as it left them, ...
Levels == {\h4b1, \h6a3, \h6da, \h439, \h4fb}
AtRest == Calmed \cup Levels

\* ... with those that it changes and sets again.
Rest(p) ==
  /\ Apt(AtRest, p)
  /\ p.reg[\h4fb] \subseteq 8 .. 14 /\ p.reg[\h4a4] = {13} /\ p.reg[\h4b0] = {} /\ p.reg[\h43b] = {6}
  /\ p.reg[\h410] = {}

-----------------------------------------------------------------------------
(* The end of a calibration.                                               *)

\* The first access decides what no later one accesses.
LEMMA FirstWrite ==
  ASSUME NEW p \in Phys, NEW m \in Instr, m.addr \in Regs, NEW t \in Later(m.addr)
  PROVE  Run(p, <<m>> \o t).reg[m.addr] = (p.reg[m.addr] \cap m.keep) \cup m.set
<1> DEFINE a == m.addr
           one == <<m>>
           q == Run(p, one)
           A == {a}
<1>1. one \in Progs /\ t \in Progs
  <2>1. Outside(A) \subseteq Instr
    BY DEF Outside
  <2>2. one \in Seq(Instr)
    OBVIOUS
  <2> HIDE DEF one
  <2> QED
    BY <2>1, <2>2, SeqSubset DEF Later, Progs
<1>2. Plain(p, q) /\ \A x \in Regs : q.reg[x] = IF x = m.addr THEN (p.reg[x] \cap m.keep) \cup m.set ELSE p.reg[x]
  BY RunOne
<1>3. q \in Phys /\ q.reg[a] = (p.reg[a] \cap m.keep) \cup m.set
  BY <1>2 DEF Plain
<1> HIDE DEF one
<1>4. Run(p, one \o t) = Run(q, t)
  BY <1>1, RunTwice
<1>5. A \subseteq Regs /\ t \in Seq(Outside(A)) /\ a \in A
  BY DEF Later
<1> HIDE DEF q, A, a
<1>6. SameIn(A, q, Run(q, t))
  BY <1>3, <1>5, RunOutside
<1>7. Run(q, t).reg[a] = q.reg[a]
  BY <1>5, <1>6 DEF SameIn
<1> QED
  BY <1>3, <1>4, <1>7 DEF one, a

\* A sequence that begins with an access, after which its register stays.
Starts(prog, m) == \E t \in Later(m.addr) : prog = <<m>> \o t

\* A sequence that ends with two accesses to a register.
EndsTwice(prog, m, n) ==
  \E s \in Progs, t \in Later(m.addr), u \in Later(m.addr) : prog = Then(Then(s, m, t), n, u)

\* The receiver's sequence.
Tuning == <<Mod(\h4b0, {5}, {}), Mod(\h4b1, {9}, {}), Mod(\h410, {5, 6}, {5, 6}), Mod(\h410, {7}, {})>>

\* Its accesses.
TuneOverride == Mod(\h4b0, {5}, {})
TuneGain == Mod(\h4b1, {9}, {})
TuneOn == Mod(\h410, {5, 6}, {5, 6})
TuneLast == Mod(\h410, {7}, {})

\* How the receiver is tuned again.
LEMMA TuneParts ==
  /\ Starts(DeafMode(FALSE), TuneOverride) /\ Ends(DeafMode(FALSE), TuneGain)
  /\ EndsTwice(DeafMode(FALSE), TuneOn, TuneLast)
<1>0. DeafMode(FALSE) = Tuning
  BY DEF DeafMode, If, Tuning
<1>1. Starts(Tuning, TuneOverride)
  <2> DEFINE t == <<Mod(\h4b1, {9}, {}), Mod(\h410, {5, 6}, {5, 6}), Mod(\h410, {7}, {})>>
             m == TuneOverride
  <2>1. t \in Later(m.addr)
    BY SMTT(30) DEF Later, Outside, Instr, Mod, Word, TuneOverride
  <2>2. Tuning = <<m>> \o t
    BY DEF Tuning, TuneOverride
  <2> HIDE DEF t, m
  <2>3. Starts(Tuning, m)
    BY <2>1, <2>2 DEF Starts
  <2> QED
    BY <2>3 DEF m
<1>2. Ends(Tuning, TuneGain)
  <2> DEFINE s == <<Mod(\h4b0, {5}, {})>>
             m == TuneGain
             t == <<Mod(\h410, {5, 6}, {5, 6}), Mod(\h410, {7}, {})>>
  <2>1. s \in Progs /\ t \in Later(m.addr)
    BY SMTT(30) DEF Progs, Later, Outside, Instr, Mod, Word, TuneGain, TuneOn
  <2>2. Tuning = Then(s, m, t)
    BY DEF Then, Tuning, TuneGain, TuneOn, TuneLast
  <2> HIDE DEF s, m, t
  <2>3. Ends(Tuning, m)
    BY <2>1, <2>2 DEF Ends
  <2> QED
    BY <2>3 DEF m
<1>3. EndsTwice(Tuning, TuneOn, TuneLast)
  <2> DEFINE s == <<Mod(\h4b0, {5}, {}), Mod(\h4b1, {9}, {})>>
             m == TuneOn
             n == TuneLast
             none == <<>>
  <2>1. s \in Progs /\ none \in Later(m.addr)
    BY SMTT(30) DEF Progs, Later, Outside, Instr, Mod, Word, TuneGain, TuneOn
  <2>2. Tuning = Then(Then(s, m, none), n, none)
    BY DEF Then, Tuning, TuneGain, TuneOn, TuneLast
  <2> HIDE DEF s, m, n, none
  <2>3. EndsTwice(Tuning, m, n)
    BY <2>1, <2>2 DEF EndsTwice
  <2> QED
    BY <2>3 DEF m, n
<1> QED
  BY <1>0, <1>1, <1>2, <1>3

\* The registers of the receiver: not detuned, ...
Undeaf(p) == p.reg[\h4b1] \subseteq {9} /\ p.reg[\h410] = {}

\* The receiver is tuned again, ...
LEMMA Tunes == ASSUME NEW p \in Phys PROVE Undeaf(Run(p, DeafMode(FALSE)))
<1> DEFINE prog == DeafMode(FALSE)
           q == Run(p, prog)
           j == TuneGain
           m == TuneOn
           n == TuneLast
<1>1. Ends(prog, j)
  BY TuneParts
<1>2. EndsTwice(prog, m, n)
  BY TuneParts
<1>3. /\ j \in Instr /\ j.addr = \h4b1 /\ j.keep = {9} /\ j.set = {}
      /\ m \in Instr /\ m.addr = \h410 /\ m.keep = {5, 6} /\ m.set = {5, 6}
      /\ n \in Instr /\ n.addr = \h410 /\ n.keep = {7} /\ n.set = {}
  BY SMTT(30) DEF Instr, Mod, Word, TuneGain, TuneOn, TuneLast, TuneOverride
<1>4. \h4b1 \in Regs /\ \h410 \in Regs
  BY DEF Regs
<1> HIDE DEF j, m, n, prog
<1>5. p \in Phys /\ j \in Instr /\ j.addr \in Regs /\ Ends(prog, j)
  BY <1>1, <1>3, <1>4
<1>6. \E w \in SUBSET Word : q.reg[j.addr] = (w \cap j.keep) \cup j.set
  BY <1>5, EndsIs
<1>7. /\ p \in Phys /\ m \in Instr /\ n \in Instr /\ m.addr \in Regs /\ n.addr = m.addr
  BY <1>3, <1>4
<1>8. \E w \in SUBSET Word : q.reg[m.addr] = (((w \cap m.keep) \cup m.set) \cap n.keep) \cup n.set
  <2>1. PICK s \in Progs, t \in Later(m.addr), u \in Later(m.addr) : prog = Then(Then(s, m, t), n, u)
    BY <1>2 DEF EndsTwice
  <2> QED
    BY <1>7, <2>1, TwoWrites
<1> HIDE DEF q
<1>9. q.reg[\h4b1] \subseteq {9}
  BY <1>3, <1>6
<1>10. q.reg[\h410] = {}
  BY <1>3, <1>8
<1>11. Undeaf(q)
  BY <1>9, <1>10 DEF Undeaf
<1> QED
  BY <1>11 DEF q, prog

\* The override of the gains may be on, or nothing is.
Overridden(p) == p.reg[\h4b0] \subseteq {8}
Free4b0(p) == p.reg[\h4b0] = {}

\* deaf_mode() ends it.
LEMMA TunesFree ==
  ASSUME NEW p \in Phys, Overridden(p) PROVE Free4b0(Run(p, DeafMode(FALSE)))
<1> DEFINE m == TuneOverride
           q == Run(p, DeafMode(FALSE))
<1>1. Starts(DeafMode(FALSE), m)
  BY TuneParts
<1>2. m \in Instr /\ m.addr = \h4b0 /\ m.keep = {5} /\ m.set = {}
  BY SMTT(30) DEF Instr, Mod, Word, TuneGain, TuneOn, TuneLast, TuneOverride
<1>3. \h4b0 \in Regs
  BY DEF Regs
<1> HIDE DEF m
<1>4. PICK t \in Later(m.addr) : DeafMode(FALSE) = <<m>> \o t
  BY <1>1 DEF Starts
<1>5. q.reg[m.addr] = (p.reg[m.addr] \cap m.keep) \cup m.set
  <2>1. m \in Instr /\ m.addr \in Regs
    BY <1>2, <1>3
  <2>2. Run(p, <<m>> \o t).reg[m.addr] = (p.reg[m.addr] \cap m.keep) \cup m.set
    BY <1>4, <2>1, FirstWrite
  <2> QED
    BY <1>4, <2>2
<1> HIDE DEF q
<1>6. q.reg[\h4b0] = {}
  BY <1>2, <1>5 DEF Overridden
<1>7. Free4b0(q)
  BY <1>6 DEF Free4b0
<1> QED
  BY <1>7 DEF q

\* What is level is calm.
LEMMA LevelRests ==
  ASSUME NEW p \in Phys, ~p.hw, Apt(Calmed, p), p.reg \in Level(PaOf(p)), By13(p), Free4b0(p), Undeaf(p)
  PROVE  Rest(p)
<1>1. Apt(Levels, p)
  <2>1. Levels \subseteq Regs
    BY DEF Levels, Regs
  <2>2. Calm(Levels, p)
    BY <2>1, SMTT(30) DEF Calm, Levels, Level, Undeaf, R
  <2> QED
    BY <2>2 DEF Apt
<1>2. Apt(AtRest, p)
  BY <1>1, AptBoth DEF AtRest
<1> QED
  BY <1>2 DEF Rest, Level, By13, Free4b0, Undeaf

\* A calibration ends at rest, if what it did left the others calm.
LEMMA CalEndRests ==
  ASSUME NEW busy, Apt(Calmed, busy), Mode(busy) = {13}, NEW p \in Phys, Mode(p) \in Soft
  PROVE  Rest(CalEnd(busy, p))
<1> DEFINE index == SetTxPwrByIndex(busy, p.current)
           ctrl == SetTxPwrCtrl(index, Mode(p))
           q == Run(ctrl, DeafMode(FALSE))
           pa == PaOf(busy)
<1>1. CalEnd(busy, p) = q
  BY DEF CalEnd
<1>2. busy \in Phys /\ ~busy.hw /\ p.current \in 0 .. 127
  BY DEF Apt, Phys
<1>3. Held(Calmed, busy, index)
  BY <1>2, HeldIndex
<1>4. index.reg \in Level(pa) /\ By13(index)
  <2> DEFINE i == p.current
  <2>1. busy \in Phys /\ ~busy.hw /\ Mode(busy) = {13} /\ i \in 0 .. 127
    BY <1>2
  <2> HIDE DEF i
  <2>2. SetTxPwrByIndex(busy, i).reg \in Level(PaOf(busy)) /\ By13(SetTxPwrByIndex(busy, i))
    BY <2>1, IndexLevels
  <2> QED
    BY <2>2 DEF i
<1> HIDE DEF index
<1>5. Apt(Calmed, index) /\ index \in Phys /\ ~index.hw
  BY <1>3, HeldIs DEF Apt
<1>6. Held(Calmed, index, ctrl)
  BY <1>5, ModeIs, CalmedIs, HeldCtrl
<1>7. ctrl.reg \in Level(pa) /\ By13(ctrl)
  <2> HIDE DEF pa
  <2> QED
    BY <1>4, <1>5, CtrlLevels
<1> HIDE DEF ctrl
<1>8. Apt(Calmed, ctrl) /\ ctrl \in Phys
  BY <1>6, HeldIs
<1>9. Held(Calmed, ctrl, q)
  BY <1>8, AptOverrides, HeldRun
<1>10. q.reg \in Level(pa)
  <2> DEFINE s == DeafMode(FALSE)
             r == ctrl.reg
  <2>1. s \in Seq(Gentle) /\ s \in Progs
    BY GentleSequences, GentleProgs
  <2> HIDE DEF s
  <2>2. q.reg = Apply(r, s)
    BY <1>8, <2>1, RunIs DEF Progs, s
  <2>3. r \in Level(pa)
    BY <1>7
  <2> HIDE DEF q, pa, r
  <2>4. Apply(r, s) \in Level(pa)
    BY <2>1, <2>3, GentleKeeps
  <2> QED
    BY <2>2, <2>4
<1>11. Undeaf(q) /\ Free4b0(q)
  <2>1. Overridden(ctrl)
    BY <1>7 DEF Level, Overridden
  <2> QED
    BY <1>8, <2>1, Tunes, TunesFree
<1>12. By13(q)
  <2> DEFINE A == {\h4a4}
             a == \h4a4
  <2>1. DeafMode(FALSE) \in Seq(Outside(A)) /\ A \subseteq Regs /\ a \in A
    BY SMTT(30) DEF DeafMode, If, Outside, Instr, Mod, Word, Regs
  <2> HIDE DEF A, a
  <2>2. SameIn(A, ctrl, q)
    BY <1>8, <2>1, RunOutside
  <2> HIDE DEF q
  <2>3. q.reg[a] = ctrl.reg[a]
    BY <2>1, <2>2 DEF SameIn
  <2> QED
    BY <1>7, <2>3 DEF a, By13
<1>13. pa = PaOf(q)
  <2>1. q.fem = busy.fem
    <3>1. index.fem = busy.fem
      BY <1>3, HeldIs
    <3>2. ctrl.fem = index.fem
      BY <1>6, HeldIs
    <3>3. q.fem = ctrl.fem
      BY <1>9, HeldIs
    <3> QED
      BY <3>1, <3>2, <3>3
  <2> QED
    BY <2>1, GainsOf
<1>14. Apt(Calmed, q) /\ q \in Phys /\ ~q.hw
  BY <1>9, HeldIs DEF Apt
<1> HIDE DEF q, pa
<1>15. Rest(q)
  BY <1>10, <1>11, <1>12, <1>13, <1>14, LevelRests
<1> QED
  BY <1>1, <1>15 DEF q

-----------------------------------------------------------------------------
(* A glacial calibration is transparent.                                   *)

\* The registers but those that are set again, and the one that leaks.
SetAgain == {\h4a4, \h4b0, \h43b, \h410}
Lent == Regs \ (SetAgain \cup LeakRegs)

\* They are registers, and the samples' is one of them.
LEMMA LentIs ==
  /\ Lent \subseteq Regs /\ Played \subseteq Lent /\ AtRest \subseteq Regs
<1>1. Played \subseteq Lent
  BY SMTT(30) DEF Played, Lent, Regs, SetAgain, LeakRegs
<1>2. Levels \subseteq Regs
  BY DEF Levels, Regs
<1> QED
  BY <1>1, <1>2, CalmedIs DEF Lent, AtRest

\* At rest, all of them are calm.
LEMMA RestIsCalm == ASSUME NEW p, Rest(p) PROVE Apt(Lent, p)
<1>1. p \in Phys /\ ~p.hw /\ Calm(AtRest, p)
  BY DEF Rest, Apt
<1>2. {\h4b1, \h6d6, \h503, \h6a3, \h6da, \h43c, \h44d, \h453, \h439, R(\h112), \h4b5, \h4fb} \subseteq AtRest
  BY DEF AtRest, Calmed, Levels, Quiets, Gm
<1>3. Calm(Lent, p)
  BY <1>1, <1>2 DEF Calm, Lent, SetAgain, LeakRegs
<1> QED
  BY <1>1, <1>3 DEF Apt

\* The control by temperature is on.
LEMMA RestMode == ASSUME NEW p, Rest(p) PROVE Mode(p) = {13} /\ Mode(p) \in Soft /\ p \in Phys /\ ~p.hw
<1>1. p.reg[\h4a4] = {13} /\ p \in Phys /\ ~p.hw
  BY DEF Rest, Apt
<1>2. Mode(p) = {13}
  BY <1>1 DEF Mode, ModeBits
<1> QED
  BY <1>1, <1>2 DEF Soft

\* The end of a calibration that began at rest, with the table measured.
LEMMA EndGivesBack ==
  ASSUME NEW p, Rest(p), NEW busy, Held(Lent, p, busy), Mode(busy) = {13}
  PROVE  Held(Lent, p, CalEnd(busy, p)) /\ CalEnd(busy, p).current = p.current
<1> DEFINE index == SetTxPwrByIndex(busy, p.current)
           ctrl == SetTxPwrCtrl(index, Mode(p))
           q == Run(ctrl, DeafMode(FALSE))
<1>1. CalEnd(busy, p) = q
  BY DEF CalEnd
<1>2. Mode(p) = {13} /\ p.current \in 0 .. 127 /\ busy \in Phys /\ Apt(Lent, busy)
  BY RestMode, HeldIs DEF Phys
<1>3. Held(Lent, busy, index)
  BY <1>2, HeldIndex
<1>4. index.current = p.current
  BY <1>2, SetTxPwrByIndexIs DEF Indexed
<1> HIDE DEF index
<1>5. index \in Phys /\ Apt(Lent, index)
  BY <1>3, HeldIs
<1>6. Held(Lent, index, ctrl)
  BY <1>2, <1>5, ModeIs, NotHw, HeldCtrl
<1>7. ctrl.current = index.current
  BY <1>2, <1>5, ModeIs, NotHw, SetTxPwrCtrlIs
<1> HIDE DEF ctrl
<1>8. ctrl \in Phys /\ Apt(Lent, ctrl)
  BY <1>6, HeldIs
<1>9. Held(Lent, ctrl, q)
  BY <1>8, AptOverrides, HeldRun
<1>10. q.current = ctrl.current
  BY DEF Run
<1> HIDE DEF q
<1>11. Held(Lent, p, q)
  BY <1>3, <1>6, <1>9, HeldTwice
<1> QED
  BY <1>1, <1>4, <1>7, <1>10, <1>11

\* The calibration borrows and gives back.
LEMMA GlacialGivesBack ==
  ASSUME NEW p, Rest(p), ~SamplesPlay(p), NEW o \in Outcomes
  PROVE  /\ Held(Lent, p, GlacialCal(p, o)) /\ Rest(GlacialCal(p, o))
         /\ GlacialCal(p, o).current = p.current
<1> DEFINE deaf == Run(p, DeafMode(TRUE))
           busy == TxPwrTblIqloCal(deaf, o)
           q == CalEnd(busy, p)
<1>1. GlacialCal(p, o) = q
  BY DEF GlacialCal
<1>2. Apt(Lent, p) /\ Mode(p) \in Soft /\ Mode(p) = {13} /\ p \in Phys /\ ~p.hw
  BY RestIsCalm, RestMode
<1>3. Held(Lent, p, deaf)
  BY <1>2, AptOverrides, HeldRun
<1>4. Mode(deaf) = Mode(p)
  BY <1>2, BeginsDeaf, TameIs
<1> HIDE DEF deaf
<1>5. deaf \in Phys /\ Apt(Lent, deaf) /\ ~deaf.hw
  BY <1>3, HeldIs DEF Apt
<1>6. ~SamplesPlay(deaf)
  BY <1>3, LentIs, PlayedKept
<1>7. Held(Lent, deaf, busy)
  BY <1>2, <1>4, <1>5, <1>6, LentIs, NotHw, HeldTxPwrTbl
<1>8. Mode(busy) = {13}
  BY <1>2, <1>4, <1>5, TxPwrTblIqloCalIs DEF Tabled
<1>9. Apt(Calmed, busy)
  BY <1>2, <1>4, <1>5, <1>6, TblLeaves
<1> HIDE DEF busy
<1>10. Held(Lent, p, busy)
  BY <1>3, <1>7, HeldTwice
<1>11. Rest(q)
  BY <1>2, <1>8, <1>9, CalEndRests
<1>12. Held(Lent, p, q) /\ q.current = p.current
  BY <1>8, <1>10, EndGivesBack
<1> QED
  BY <1>1, <1>11, <1>12

\* What it set again is as it was.
LEMMA GlacialRestores ==
  ASSUME NEW p, Rest(p), NEW q, Rest(q), Held(Lent, p, q), NEW a \in Regs \ LeakRegs
  PROVE  q.reg[a] = p.reg[a]
<1>1. CASE a \in SetAgain
  <2> DEFINE k == \h4a4
             l == \h4b0
             m == \h43b
             n == \h410
  <2>1. q.reg[k] = p.reg[k] /\ q.reg[l] = p.reg[l] /\ q.reg[m] = p.reg[m] /\ q.reg[n] = p.reg[n]
    BY DEF Rest
  <2>2. a = k \/ a = l \/ a = m \/ a = n
    BY <1>1 DEF SetAgain
  <2> HIDE DEF k, l, m, n
  <2> QED
    BY <2>1, <2>2
<1>2. CASE a = \h4fb
  <2>1. a \in Lent
    BY <1>2 DEF Lent, SetAgain
  <2>2. Part(\h4fb, q.reg[\h4fb]) = Part(\h4fb, p.reg[\h4fb])
    BY <1>2, <2>1, HeldIs DEF Kept
  <2>3. q.reg[\h4fb] \cap (8 .. 14) = p.reg[\h4fb] \cap (8 .. 14)
    BY <2>2, PartIs
  <2>4. q.reg[\h4fb] \subseteq 8 .. 14 /\ p.reg[\h4fb] \subseteq 8 .. 14
    BY DEF Rest
  <2> QED
    BY <1>2, <2>3, <2>4
<1>3. CASE a \notin SetAgain /\ a # \h4fb
  <2>1. a \in Lent
    BY <1>3 DEF Lent
  <2> QED
    BY <1>3, <2>1, HeldAt
<1> QED
  BY <1>1, <1>2, <1>3

-----------------------------------------------------------------------------
(* What the other operations leave at rest.                                *)

\* The registers that rest is about.
Resting == AtRest \cup SetAgain

\* They hold what they held.
Rested(p, q) ==
  p \in Phys /\ q \in Phys /\ q.hw = p.hw /\ q.fem = p.fem /\ SameIn(Resting, p, q)

\* They are registers.
LEMMA RestingAre == Resting \subseteq Regs
<1>1. SetAgain \subseteq Regs
  BY SMTT(30) DEF SetAgain, Regs
<1> QED
  BY <1>1, LentIs DEF Resting

\* Operation after operation.
LEMMA RestedTwice ==
  ASSUME NEW p, NEW q, NEW r, Rested(p, q), Rested(q, r) PROVE Rested(p, r)
  BY DEF Rested, SameIn

\* Then the PHY rests as it did.
LEMMA RestAgain == ASSUME NEW p, Rest(p), NEW q, Rested(p, q) PROVE Rest(q)
<1>1. Apt(AtRest, q)
  <2>1. \A a \in AtRest : q.reg[a] = p.reg[a]
    BY DEF Rested, SameIn, Resting
  <2>2. Kept(AtRest, p, q)
    BY <2>1 DEF Kept
  <2>3. Apt(AtRest, p) /\ q \in Phys /\ q.hw = p.hw /\ q.fem = p.fem
    BY DEF Rest, Rested
  <2> QED
    BY <2>2, <2>3, CalmKept DEF Apt
<1>2. \A a \in Resting : q.reg[a] = p.reg[a]
  BY DEF Rested, SameIn
<1>3. \h4fb \in Resting /\ \h4a4 \in Resting /\ \h4b0 \in Resting /\ \h43b \in Resting /\ \h410 \in Resting
  BY DEF Resting, AtRest, Levels, SetAgain
<1>4. /\ q.reg[\h4fb] = p.reg[\h4fb] /\ q.reg[\h4a4] = p.reg[\h4a4] /\ q.reg[\h4b0] = p.reg[\h4b0]
      /\ q.reg[\h43b] = p.reg[\h43b] /\ q.reg[\h410] = p.reg[\h410]
  BY <1>2, <1>3
<1> QED
  BY <1>1, <1>4 DEF Rest

\* A sequence that accesses others.
LEMMA RestedRun ==
  ASSUME NEW p \in Phys, NEW s \in Seq(Outside(Resting)) PROVE Rested(p, Run(p, s))
  BY RestingAre, RunOutside DEF Rested, Plain

\* No access.
LEMMA RestedReg ==
  ASSUME NEW p \in Phys, NEW q \in Phys, q.hw = p.hw, q.fem = p.fem, q.reg = p.reg PROVE Rested(p, q)
  BY DEF Rested, SameIn

\* Tuning accesses others ...
LEMMA TunersAre == Tuners \subseteq Outside(Resting)
<1>1. \A a \in Resting : a = R(\h112) \/ a < 4096
  <2>1. \A a \in SetAgain : a < 4096
    BY DEF SetAgain
  <2>2. \A a \in Levels : a < 4096
    BY DEF Levels
  <2>3. \A a \in Quiets : a = R(\h112) \/ a < 4096
    BY DEF Quiets
  <2>4. \A a \in Gm : a < 4096
    BY DEF Gm
  <2> QED
    BY <2>1, <2>2, <2>3, <2>4 DEF Resting, AtRest, Calmed
<1>2. \A i \in Tuners : i \in Instr /\ i.addr >= 4096 /\ i.addr # R(\h112) /\ i.addr \in Nat
  BY DEF Tuners, Instr
<1> HIDE DEF R, Resting, Tuners
<1> QED
  BY <1>1, <1>2 DEF Outside

-----------------------------------------------------------------------------
(* The channel, at rest.                                                   *)

\* ... and so does a change of channel.
LEMMA SelectorsAre == Selectors \subseteq Outside(Resting)
<1>1. ChannelRegs \cap Resting = {}
  <2>1. ChannelRegs \cap SetAgain = {}
    BY SMTT(30) DEF ChannelRegs, SetAgain
  <2>2. ChannelRegs \cap Levels = {}
    BY SMTT(30) DEF ChannelRegs, Levels
  <2>3. ChannelRegs \cap Quiets = {}
    BY SMTT(30) DEF ChannelRegs, Quiets, R
  <2>4. ChannelRegs \cap Gm = {}
    BY SMTT(30) DEF ChannelRegs, Gm
  <2> QED
    BY <2>1, <2>2, <2>3, <2>4 DEF Resting, AtRest, Calmed
<1> QED
  BY <1>1 DEF Selectors, Outside

\* What sets a channel up.
LEMMA SelectRun ==
  ASSUME NEW p \in Phys, NEW s \in Seq(Selectors) PROVE Rested(p, Run(p, s))
<1>1. s \in Seq(Outside(Resting))
  BY SelectorsAre, SeqSubset
<1> QED
  BY <1>1, RestedRun

\* What tunes.
LEMMA TuneRun == ASSUME NEW p \in Phys, NEW s \in Seq(Tuners) PROVE Rested(p, Run(p, s))
<1>1. s \in Seq(Outside(Resting))
  BY TunersAre, SeqSubset
<1> QED
  BY <1>1, RestedRun

\* The tuning of the radio.
LEMMA TuneRested == ASSUME NEW p \in Phys, NEW c PROVE Rested(p, ChannelTune(p, c))
  BY TuneSequence, TuneRun

\* The AFE's power: the two registers are written back.
AfeRegs == {\h43b, \h43c}
AfeProg(ovr, val) ==
  <<Wr(\h43c, val \cup {0}), Wr(\h43b, ovr \cup {0}), Wr(\h43c, val \ {0}),
    Wr(\h43b, ovr \ {0}), Wr(\h43c, val), Wr(\h43b, ovr)>>

\* The last writes to them.
AfeEnds(prog, ovr, val) ==
  /\ \E s \in Progs, t \in Later(\h43c) : prog = Then(s, Wr(\h43c, val), t)
  /\ \E s \in Progs, t \in Later(\h43b) : prog = Then(s, Wr(\h43b, ovr), t)
  /\ prog \in Seq({i \in Instr : i.addr \in AfeRegs})

\* Where the sequence has them.
LEMMA AfeParts ==
  ASSUME NEW ovr \in SUBSET Word, NEW val \in SUBSET Word
  PROVE  AfeEnds(AfeProg(ovr, val), ovr, val)
<1> DEFINE a == Wr(\h43c, val \cup {0})
           b == Wr(\h43b, ovr \cup {0})
           c == Wr(\h43c, val \ {0})
           d == Wr(\h43b, ovr \ {0})
           e == Wr(\h43c, val)
           f == Wr(\h43b, ovr)
           I == {i \in Instr : i.addr \in AfeRegs}
<1>1. a \in I /\ b \in I /\ c \in I /\ d \in I /\ e \in I /\ f \in I
  BY SMTT(30) DEF Instr, AfeRegs, Wr, Word
<1>2. f \in Outside({\h43c})
  BY SMTT(30) DEF Outside, Instr, Wr, Word
<1>3. AfeProg(ovr, val) = <<a, b, c, d, e, f>>
  BY DEF AfeProg
<1>4. I \subseteq Instr
  OBVIOUS
<1> HIDE DEF a, b, c, d, e, f, I
<1>5. /\ <<a, b, c, d>> \in Seq(Instr) /\ <<a, b, c, d, e>> \in Seq(Instr)
      /\ <<a, b, c, d, e, f>> \in Seq(I) /\ <<f>> \in Seq(Outside({\h43c}))
  BY <1>1, <1>2, <1>4
<1>6. <<>> \in Later(\h43b)
  BY DEF Later
<1>7. <<a, b, c, d, e, f>> = Then(<<a, b, c, d>>, e, <<f>>)
  <2>1. <<a, b, c, d, e>> = <<a, b, c, d>> \o <<e>>
    OBVIOUS
  <2>2. <<a, b, c, d, e, f>> = <<a, b, c, d, e>> \o <<f>>
    OBVIOUS
  <2> QED
    BY <2>1, <2>2 DEF Then
<1>8. <<a, b, c, d, e, f>> = Then(<<a, b, c, d, e>>, f, <<>>)
  <2>1. <<a, b, c, d, e, f>> = <<a, b, c, d, e>> \o <<f>>
    OBVIOUS
  <2>2. <<a, b, c, d, e, f>> = <<a, b, c, d, e, f>> \o <<>>
    OBVIOUS
  <2> QED
    BY <2>1, <2>2 DEF Then
<1>9. \E s \in Progs, t \in Later(\h43c) : AfeProg(ovr, val) = Then(s, e, t)
  <2> DEFINE s == <<a, b, c, d>>
             t == <<f>>
  <2>1. s \in Progs /\ t \in Later(\h43c) /\ AfeProg(ovr, val) = Then(s, e, t)
    BY <1>3, <1>5, <1>7 DEF Progs, Later
  <2> HIDE DEF s, t
  <2> QED
    BY <2>1
<1>10. \E s \in Progs, t \in Later(\h43b) : AfeProg(ovr, val) = Then(s, f, t)
  <2> DEFINE s == <<a, b, c, d, e>>
             t == <<>>
  <2>1. s \in Progs /\ t \in Later(\h43b) /\ AfeProg(ovr, val) = Then(s, f, t)
    BY <1>3, <1>5, <1>6, <1>8 DEF Progs
  <2> HIDE DEF s, t
  <2> QED
    BY <2>1
<1> QED
  BY <1>3, <1>5, <1>9, <1>10 DEF e, f, I, AfeEnds

\* They hold what they held.
LEMMA AfeRested == ASSUME NEW p \in Phys, ~p.hw PROVE Rested(p, ToggleAfePwdn(p))
<1> DEFINE k == \h43b
           l == \h43c
           ovr == p.reg[k]
           val == p.reg[l]
           prog == AfeProg(ovr, val)
           q == Run(p, prog)
           m == Wr(k, ovr)
           n == Wr(l, val)
           B == Resting \ AfeRegs
<1>1. ToggleAfePwdn(p) = q
  BY DEF ToggleAfePwdn, AfeProg
<1>2. k \in Regs /\ l \in Regs
  BY DEF Regs
<1>3. ovr \in SUBSET Word /\ val \in SUBSET Word
  BY <1>2, Words
<1>4. /\ m \in Instr /\ m.addr = k /\ m.keep = {} /\ m.set = ovr
      /\ n \in Instr /\ n.addr = l /\ n.keep = {} /\ n.set = val
  <2>1. k \in Nat /\ l \in Nat
    OBVIOUS
  <2> HIDE DEF k, l, ovr, val
  <2> QED
    BY <1>3, <2>1 DEF Instr, Wr
<1>5. /\ \E s \in Progs, t \in Later(l) : prog = Then(s, n, t)
      /\ \E s \in Progs, t \in Later(k) : prog = Then(s, m, t)
      /\ prog \in Seq({i \in Instr : i.addr \in AfeRegs})
  <2> HIDE DEF ovr, val
  <2>1. AfeEnds(AfeProg(ovr, val), ovr, val)
    BY <1>3, AfeParts
  <2> QED
    BY <2>1 DEF AfeEnds
<1>6. AfeRegs = {k, l}
  BY DEF AfeRegs
<1> HIDE DEF k, l, m, n, prog
<1>7. q.reg[l] = val /\ q \in Phys /\ q.hw = p.hw /\ q.fem = p.fem
  <2>1. PICK s \in Progs, t \in Later(n.addr) : prog = Then(s, n, t)
    BY <1>4, <1>5
  <2>2. n.addr \in Regs
    BY <1>2, <1>4
  <2>3. n \in Instr
    BY <1>4
  <2>4. prog \in Progs /\ q.reg[n.addr] = (Apply(p.reg, s)[n.addr] \cap n.keep) \cup n.set
    BY <2>1, <2>2, <2>3, LastWrite
  <2>5. Plain(p, q)
    BY <2>4, RunIs DEF Progs
  <2> HIDE DEF q
  <2> QED
    BY <1>4, <2>4, <2>5 DEF Plain
<1>8. q.reg[k] = ovr
  <2>1. PICK s \in Progs, t \in Later(m.addr) : prog = Then(s, m, t)
    BY <1>4, <1>5
  <2>2. m.addr \in Regs
    BY <1>2, <1>4
  <2>3. m \in Instr
    BY <1>4
  <2>4. prog \in Progs /\ q.reg[m.addr] = (Apply(p.reg, s)[m.addr] \cap m.keep) \cup m.set
    BY <2>1, <2>2, <2>3, LastWrite
  <2> HIDE DEF q
  <2> QED
    BY <1>4, <2>4
<1>9. SameIn(B, p, q)
  <2>1. {i \in Instr : i.addr \in AfeRegs} \subseteq Outside(B)
    BY DEF Outside
  <2>2. prog \in Seq(Outside(B))
    BY <1>5, <2>1, SeqSubset
  <2>3. B \subseteq Regs
    BY RestingAre
  <2> HIDE DEF B
  <2> QED
    BY <2>2, <2>3, RunOutside
<1> HIDE DEF q
<1>10. \A a \in Resting : q.reg[a] = p.reg[a]
  BY <1>6, <1>7, <1>8, <1>9 DEF SameIn
<1>11. Rested(p, q)
  BY <1>7, <1>10 DEF Rested, SameIn
<1> QED
  BY <1>1, <1>11

-----------------------------------------------------------------------------
(* The operations, at rest.                                                *)

\* set_chanspec() leaves rest alone, on boards without hardware control.
LEMMA ChanspecRested == ASSUME NEW p \in Phys, ~p.hw, NEW c PROVE Rested(p, SetChanspec(p, c))
<1> DEFINE e == IF c = 1 THEN 4 ELSE 2
           b == IF c = 14 THEN {9} ELSE {8}
           ran == Run(p, Tweaks(c))
           edged == [ran EXCEPT !.edge = e]
           channel == ChannelTune(edged, c)
           tuned == ToggleAfePwdn(channel)
           a == <<Mod(\h448, {8, 9}, b), Mod(\h4eb, 3 .. 5, {3})>>
           q == Run(tuned, a)
<1>1. SetChanspec(p, c) = q
  <2> DEFINE n == <<>>
  <2>1. a \o n = a
    <3>1. a \in Seq({a[1], a[2]})
      OBVIOUS
    <3> HIDE DEF a
    <3> QED
      BY <3>1
  <2> HIDE DEF a, n
  <2>2. SetChanspec(p, c) = Run(tuned, a \o n)
    BY DEF SetChanspec, a, n
  <2> QED
    BY <2>1, <2>2
<1>2. a \in Seq(Selectors)
  <2>1. b \in SUBSET Word
    BY DEF Word
  <2> HIDE DEF b
  <2> QED
    BY <2>1, SMTT(30) DEF Word, Selectors, ChannelRegs, Instr, Mod
<1> HIDE DEF a
<1>3. Rested(p, ran)
  BY TweakSequence, SelectRun
<1> HIDE DEF ran
<1>4. Rested(ran, edged) /\ edged \in Phys
  <2>1. e \in {0, 2, 4}
    OBVIOUS
  <2> HIDE DEF e
  <2>2. ran \in Phys
    BY <1>3 DEF Rested
  <2>3. edged \in Phys /\ edged.reg = ran.reg /\ edged.hw = ran.hw /\ edged.fem = ran.fem
    BY <2>1, <2>2 DEF Phys
  <2> HIDE DEF edged
  <2> QED
    BY <2>2, <2>3, RestedReg
<1> HIDE DEF edged
<1>5. Rested(edged, channel)
  BY <1>4, TuneRested
<1> HIDE DEF channel
<1>6. channel \in Phys /\ ~channel.hw
  BY <1>3, <1>4, <1>5 DEF Rested
<1>7. Rested(channel, tuned) /\ tuned \in Phys
  BY <1>6, AfeRested DEF Rested
<1> HIDE DEF tuned
<1>8. Rested(tuned, q)
  BY <1>2, <1>7, SelectRun
<1> HIDE DEF q
<1>9. Rested(p, channel)
  BY <1>3, <1>4, <1>5, RestedTwice
<1> QED
  BY <1>1, <1>7, <1>8, <1>9, RestedTwice

\* The index is not part of it.
LEMMA AdjustedRested == ASSUME NEW p \in Phys PROVE Rested(p, Adjusted(p))
<1> DEFINE t == Bits(2 * TargetIndex(p))
           a == <<Mod(\h4a9, 0 .. 8, t)>>
           ran == Run(p, a)
           i == ReadIndex(ran)
           back == [ran EXCEPT !.current = i]
<1>1. Adjusted(p) = IF p.hw \/ Mode(p) = Off THEN p ELSE back
  BY DEF Adjusted
<1>3. a \in Seq(Outside(Resting))
  <2>1. t \in SUBSET Word
    BY BitsAreWords
  <2> HIDE DEF t
  <2>2. \h4a9 \notin Resting
    BY SMTT(30) DEF Resting, AtRest, SetAgain, Levels, Calmed, Quiets, Gm, R
  <2>3. Mod(\h4a9, 0 .. 8, t) \in Outside(Resting)
    <3> DEFINE k == \h4a9
    <3>1. k \in Nat /\ k \notin Resting /\ 0 .. 8 \in SUBSET Word
      BY <2>2 DEF Word
    <3> HIDE DEF k
    <3>2. Mod(k, 0 .. 8, t) \in Outside(Resting)
      BY <2>1, <3>1 DEF Outside, Instr, Mod
    <3> QED
      BY <3>2 DEF k
  <2> QED
    BY <2>3
<1> HIDE DEF a
<1>4. Rested(p, ran) /\ ran \in Phys
  BY <1>3, RestedRun DEF Rested
<1> HIDE DEF ran
<1>5. i \in 0 .. 127
  BY <1>4, ReadIndexType
<1> HIDE DEF i
<1>6. Keeps(ran, back) /\ back.reg = ran.reg
  BY <1>4, <1>5, NewCurrent
<1> HIDE DEF back
<1>7. Rested(ran, back)
  BY <1>4, <1>6, RestedReg DEF Keeps
<1>8. Rested(p, p)
  BY RestedReg
<1> QED
  BY <1>1, <1>4, <1>7, <1>8, RestedTwice

\* The watchdog's calibration, of a PHY at rest.
LEMMA RecalibratedRests ==
  ASSUME NEW p, Rest(p), ~SamplesPlay(p), NEW o \in Outcomes
  PROVE  /\ Rest(Recalibrated(p, o)) /\ Recalibrated(p, o).current = p.current
         /\ \A a \in Regs \ (VcoRegs \cup LeakRegs) : Recalibrated(p, o).reg[a] = p.reg[a]
<1> DEFINE cal == GlacialCal(p, o)
           vco == VcoCal(cal)
           q == Run(cal, vco)
<1>1. Recalibrated(p, o) = q
  BY DEF Recalibrated
<1>2. Held(Lent, p, cal) /\ Rest(cal) /\ cal.current = p.current
  BY GlacialGivesBack
<1> HIDE DEF cal
<1>3. cal \in Phys
  BY <1>2, HeldIs
<1>4. Rested(cal, q)
  BY <1>3, VcoOf, TuneRun
<1>5. SameIn(Regs \ VcoRegs, cal, q)
  <2> DEFINE A == Regs \ VcoRegs
  <2>1. A \subseteq Regs /\ VcoWrites \subseteq Outside(A)
    BY DEF VcoWrites, Outside
  <2>2. vco \in Seq(Outside(A))
    BY <1>3, <2>1, VcoOf, SeqSubset
  <2> HIDE DEF A, vco
  <2> QED
    BY <1>3, <2>1, <2>2, RunOutside DEF A
<1>6. q.current = cal.current
  BY DEF Run
<1> HIDE DEF q
<1>7. Rest(q)
  BY <1>2, <1>4, RestAgain
<1>8. \A a \in Regs \ LeakRegs : cal.reg[a] = p.reg[a]
  BY <1>2, GlacialRestores
<1>9. \A a \in Regs \ (VcoRegs \cup LeakRegs) : q.reg[a] = p.reg[a]
  BY <1>5, <1>8 DEF SameIn
<1> QED
  BY <1>1, <1>2, <1>6, <1>7, <1>9

\* lcnphy_init() brings the PHY to rest.
LEMMA InitRests ==
  ASSUME NEW p \in Phys, ~p.hw, ~SamplesPlay(p), On(p), NEW o \in Outcomes
  PROVE  Rest(PeriodicCal(p, o))
<1> DEFINE deaf == Run(p, DeafMode(TRUE))
           table == TxPwrTblIqloCal(deaf, o)
           rx == RxIqCal(table, o)
<1>1. Tame(p, deaf) /\ deaf \in Phys
  BY BeginsDeaf
<1>2. Mode(p) \in Soft
  BY DEF On, Soft
<1> HIDE DEF deaf
<1>3. ~deaf.hw /\ Mode(deaf) \in Soft /\ ~SamplesPlay(deaf)
  BY <1>1, <1>2, TameIs DEF Loose, Quieter
<1>4. Apt(Calmed, table)
  BY <1>1, <1>3, TblLeaves
<1>5. Mode(table) = {13}
  BY <1>1, <1>3, TxPwrTblIqloCalIs DEF Tabled
<1> HIDE DEF table
<1>6. Apt(Calmed, rx)
  BY <1>4, RxLeaves
<1>7. Mode(rx) = {13}
  BY <1>4, <1>5, RxIqCalIs DEF Apt
<1> HIDE DEF rx
<1>8. PeriodicCal(p, o) = CalEnd(rx, p)
  <2>1. ~rx.hw
    BY <1>6 DEF Apt
  <2> QED
    BY <2>1 DEF PeriodicCal, rx, table, deaf
<1>9. Rest(CalEnd(rx, p))
  BY <1>2, <1>6, <1>7, CalEndRests
<1> QED
  BY <1>8, <1>9

\* A reset stops the samples.
LEMMA ResetStops ==
  ASSUME NEW p \in Phys, NEW boot \in Boots PROVE ~SamplesPlay(Reset(p, boot))
<1> DEFINE r == [a \in DOMAIN p.reg |-> IF a < 4096 THEN boot ELSE boot \cap (0 .. 7)]
<1>1. Reset(p, boot).reg = r
  BY DEF Reset, Phys
<1>2. DOMAIN p.reg = Regs /\ \h63f \in Regs
  BY DEF Phys, Regs
<1>3. r[\h63f] = boot
  BY <1>2
<1>4. 0 \in boot => 1 \in boot
  BY ResetAssumption
<1> QED
  BY <1>1, <1>3, <1>4 DEF SamplesPlay

-----------------------------------------------------------------------------
(* Rest is kept.                                                           *)

\* On boards without hardware control the PHY rests from the bring-up to the
\* next reset; until then it plays nothing.
AtEase == ~phy.hw => IF Running THEN Rest(phy) ELSE ~SamplesPlay(phy)

\* It holds at first ...
LEMMA InitAtEase == Init => AtEase
<1>1. SUFFICES ASSUME Init PROVE AtEase
  OBVIOUS
<1>2. PICK hw \in BOOLEAN, fem \in BOOLEAN, t \in Temps, boot \in Boots :
         phy = Reset(Attached(hw, fem, t), boot) /\ op = "reset"
  BY <1>1 DEF Init
<1>3. ~SamplesPlay(phy)
  BY <1>2, AttachedIs, ResetStops
<1> QED
  BY <1>2, <1>3 DEF AtEase, Running

\* What an adjustment does, of a running PHY without hardware control.
LEMMA AdjustedState ==
  ASSUME IInv, AtEase, Running, ~phy.hw
  PROVE  Rest(Adjusted(phy)) /\ ~SamplesPlay(Adjusted(phy)) /\ ~Adjusted(phy).hw
<1>1. phy \in Phys /\ ~SamplesPlay(phy)
  BY DEF IInv, NoToneLeft
<1>2. Rest(phy)
  BY DEF AtEase
<1>3. Rested(phy, Adjusted(phy)) /\ Loose(phy, Adjusted(phy))
  BY <1>1, AdjustedRested, AdjustedIs
<1> QED
  BY <1>1, <1>2, <1>3, RestAgain DEF Rested, Loose, Quieter

\* ... and every operation keeps it.
LEMMA NextAtEase == IInv /\ AtEase /\ [Next]_vars => AtEase'
<1>1. SUFFICES ASSUME IInv, AtEase, [Next]_vars PROVE AtEase'
  OBVIOUS
<1>2. phy \in Phys /\ (Running => ~SamplesPlay(phy))
  BY <1>1 DEF IInv, NoToneLeft
<1>3. ASSUME NEW p, phy' = p, op' # "reset", ~p.hw => Rest(p) PROVE AtEase'
  BY <1>3 DEF AtEase, Running
<1>4. CASE UNCHANGED vars
  <2>1. phy' = phy /\ op' = op
    BY <1>4 DEF vars
  <2>2. CASE Running
    BY <1>1, <1>3, <2>1, <2>2 DEF AtEase, Running
  <2>3. CASE ~Running
    BY <1>1, <2>1, <2>3 DEF AtEase, Running, SamplesPlay
  <2> QED
    BY <2>2, <2>3
<1>5. CASE CoreReset
  <2>1. PICK boot \in Boots : phy' = Reset(phy, boot) /\ op' = "reset"
    BY <1>5 DEF CoreReset
  <2> DEFINE q == Reset(phy, boot)
  <2>2. ~SamplesPlay(q)
    BY <1>2, ResetStops
  <2> HIDE DEF q
  <2>3. phy' = q
    BY <2>1 DEF q
  <2> QED
    BY <2>1, <2>2, <2>3 DEF AtEase, Running, SamplesPlay
<1>6. CASE PhyInit
  <2> DEFINE ready == Ready(phy)
  <2>1. PICK o \in Outcomes : phy' = PeriodicCal(ready, o) /\ op' = "init"
    BY <1>6 DEF PhyInit
  <2>2. ready \in Phys /\ On(ready) /\ ready.hw = phy.hw /\ (~SamplesPlay(phy) => ~SamplesPlay(ready))
    BY <1>2, ReadyIs DEF NewChannel, Quieter
  <2>3. ~phy.hw => ~SamplesPlay(phy)
    BY <1>1, <1>6 DEF AtEase, PhyInit
  <2> HIDE DEF ready
  <2> DEFINE q == PeriodicCal(ready, o)
  <2>4. q.hw = ready.hw
    BY <2>2, PeriodicCalIs DEF Calibrated, Board
  <2>5. ~ready.hw => Rest(q)
    BY <2>2, <2>3, InitRests
  <2>6. phy' = q /\ op' # "reset"
    BY <2>1
  <2> HIDE DEF q
  <2> QED
    BY <1>3, <2>4, <2>5, <2>6
<1>7. CASE SetChannel
  <2>1. PICK c \in Chans : phy' = SetChanspec([phy EXCEPT !.chan = c], c) /\ op' = "channel"
    BY <1>7 DEF SetChannel
  <2> DEFINE p == [phy EXCEPT !.chan = c]
             q == SetChanspec(p, c)
  <2>2. p \in Phys /\ p.reg = phy.reg /\ p.hw = phy.hw /\ p.fem = phy.fem
    BY <1>2, ChanOf DEF Phys
  <2> HIDE DEF p
  <2>3. Rested(phy, p)
    BY <1>2, <2>2, RestedReg
  <2>4. q.hw = p.hw
    BY <2>2, SetChanspecIs DEF NewChannel
  <2>5. ~p.hw => Rested(p, q)
    BY <2>2, ChanspecRested
  <2>6. phy' = q /\ op' # "reset"
    BY <2>1 DEF q, p
  <2> HIDE DEF q
  <2>7. ~phy.hw => Rest(phy)
    BY <1>1, <1>7 DEF AtEase, SetChannel
  <2>8. ~q.hw => Rest(q)
    BY <2>2, <2>3, <2>4, <2>5, <2>7, RestedTwice, RestAgain
  <2> QED
    BY <1>3, <2>6, <2>8
<1>8. CASE Adjust
  <2> DEFINE q == Adjusted(phy)
  <2>1. phy' = q /\ op' # "reset" /\ Running
    BY <1>8 DEF Adjust
  <2>2. q.hw = phy.hw
    BY <1>2, AdjustedIs, LooseIs
  <2>3. ~phy.hw => Rest(q)
    BY <1>1, <2>1, AdjustedState
  <2> HIDE DEF q
  <2> QED
    BY <1>3, <2>1, <2>2, <2>3
<1>9. CASE Recalibrate
  <2> DEFINE p == Adjusted(phy)
  <2>1. PICK o \in Outcomes : phy' = Recalibrated(p, o) /\ op' = IF o.wait THEN "calibrated" ELSE "timed out"
    BY <1>9 DEF Recalibrate
  <2>2. Rest(p) /\ ~SamplesPlay(p)
    BY <1>1, <1>9, AdjustedState DEF Recalibrate
  <2> HIDE DEF p
  <2> DEFINE q == Recalibrated(p, o)
  <2>3. Rest(q)
    BY <2>2, RecalibratedRests
  <2>4. phy' = q /\ op' # "reset"
    BY <2>1
  <2> HIDE DEF q
  <2> QED
    BY <1>3, <2>3, <2>4
<1>10. CASE Warm
  <2>1. PICK t \in Temps : phy' = [phy EXCEPT !.temp = t] /\ op' = IF Running THEN "warmed" ELSE op
    BY <1>10 DEF Warm
  <2> DEFINE q == [phy EXCEPT !.temp = t]
  <2>2. q \in Phys /\ q.reg = phy.reg /\ q.hw = phy.hw /\ q.fem = phy.fem
    BY <1>2, Warms DEF Phys
  <2>3. phy' = q
    BY <2>1
  <2> HIDE DEF q
  <2>4. Rested(phy, q)
    BY <1>2, <2>2, RestedReg
  <2>5. CASE Running
    <3>1. ~phy.hw => Rest(phy)
      BY <1>1, <2>5 DEF AtEase
    <3>2. ~q.hw => Rest(q)
      BY <2>2, <2>4, <3>1, RestAgain
    <3>3. op' # "reset"
      BY <2>1, <2>5
    <3> QED
      BY <1>3, <2>3, <3>2, <3>3
  <2>6. CASE ~Running
    <3>1. op' = op /\ op = "reset"
      BY <2>1, <2>6 DEF Running
    <3>2. ~phy.hw => ~SamplesPlay(phy)
      BY <1>1, <2>6 DEF AtEase
    <3>3. SamplesPlay(q) = SamplesPlay(phy)
      BY <2>2 DEF SamplesPlay
    <3> QED
      BY <2>2, <2>3, <3>1, <3>2, <3>3 DEF AtEase, Running, SamplesPlay
  <2> QED
    BY <2>5, <2>6
<1> QED
  BY <1>1, <1>4, <1>5, <1>6, <1>7, <1>8, <1>9, <1>10 DEF Next

\* So it always holds.
LEMMA AlwaysAtEase == Spec => [](IInv /\ AtEase)
<1>1. Init => IInv /\ AtEase
  BY InitIInv, InitAtEase
<1>2. (IInv /\ AtEase) /\ [Next]_vars => (IInv /\ AtEase)'
  BY NextIInv, NextAtEase
<1> QED
  BY <1>1, <1>2, PTL DEF Spec

-----------------------------------------------------------------------------
(* Theorems.                                                               *)

\* The registers stay words and the index stays in the table, whatever the
\* core's reset left and the hardware answers: every routine's sequence of
\* accesses is run (if_bcm4313_phy_lcn.c).
THEOREM PhyTypes == Spec => []TypeOK
<1>1. IInv => TypeOK
  BY DEF IInv, TypeOK, Phys
<1> QED
  BY <1>1, Inductive, PTL

\* No operation leaves a tone on the air, on no path through the calibrations.
THEOREM TonesEnd == Spec => []NoToneLeft
<1>1. IInv => NoToneLeft
  BY DEF IInv
<1> QED
  BY <1>1, Inductive, PTL

\* lcnphy_init() ends with the power control on and the index on target.
THEOREM InitIsOnTarget == Spec => []InitOnTarget
<1>1. IInv => InitOnTarget
  BY DEF IInv
<1> QED
  BY <1>1, Inductive, PTL

\* The coefficients in use are the power table's.
THEOREM CoefficientsAreTheTables == Spec => []CoefficientsAgree
<1>1. IInv => CoefficientsAgree
  BY DEF IInv
<1> QED
  BY <1>1, Inductive, PTL

\* A calibration that times out keeps the coefficients.
THEOREM TimeoutsKeepCoefficients == Spec => FailureKeepsCoefficients
<1>1. ASSUME IInv, [Next]_vars
      PROVE  [op' = "timed out" => phy'.coef = phy.coef /\ phy'.coefs = phy.coefs]_vars
  <2>1. phy \in Phys /\ phy.coef = phy.coefs
    BY <1>1 DEF IInv, CoefficientsAgree
  <2>2. CASE Recalibrate
    <3> DEFINE p == Adjusted(phy)
    <3>1. PICK o \in Outcomes : phy' = Recalibrated(p, o) /\ op' = IF o.wait THEN "calibrated" ELSE "timed out"
      BY <2>2 DEF Recalibrate
    <3>2. p \in Phys /\ p.hw = phy.hw /\ p.coef = phy.coef /\ ~phy.hw
      BY <2>1, <2>2, AdjustedIs, LooseIs DEF Recalibrate
    <3> HIDE DEF p
    <3> DEFINE q == Recalibrated(p, o)
    <3>3. Calibrated(p, q) /\ (~p.hw /\ ~o.wait => q.coef = p.coef)
      BY <3>2, RecalibratedIs
    <3> HIDE DEF q
    <3>4. phy' = q /\ q.coef = q.coefs
      BY <3>1, <3>3 DEF q, Calibrated
    <3> QED
      BY <2>1, <3>1, <3>2, <3>3, <3>4
  <2>3. CASE CoreReset \/ PhyInit \/ SetChannel \/ Adjust
    BY <2>3 DEF CoreReset, PhyInit, SetChannel, Adjust
  <2>4. CASE Warm
    <3>1. PICK t \in Temps : phy' = [phy EXCEPT !.temp = t]
      BY <2>4 DEF Warm
    <3> DEFINE q == [phy EXCEPT !.temp = t]
    <3>2. q.coef = phy.coef /\ q.coefs = phy.coefs
      BY <2>1, Warms
    <3>3. phy' = q
      BY <3>1
    <3> HIDE DEF q
    <3> QED
      BY <3>2, <3>3
  <2>5. CASE UNCHANGED vars
    BY <2>5
  <2> QED
    BY <1>1, <2>2, <2>3, <2>4, <2>5 DEF Next
<1> QED
  BY <1>1, Inductive, PTL DEF Spec, FailureKeepsCoefficients

\* A glacial calibration is transparent: every register it lends to loopbacks,
\* tones and overrides, and the index, are back when it ends, whatever the reset
\* left, the hardware answers and came before.
THEOREM RecalibrationIsTransparent == Spec => RecalibrationRestores
<1> DEFINE Restored(p, q) ==
             /\ \A a \in Regs \ (VcoRegs \cup LeakRegs) : q.reg[a] = p.reg[a]
             /\ q.current = p.current
<1>1. ASSUME IInv, AtEase, [Next]_vars
      PROVE  [op' \in {"calibrated", "timed out"} => Restored(Adjusted(phy), phy')]_vars
  <2>1. CASE Recalibrate
    <3> DEFINE p == Adjusted(phy)
    <3>1. PICK o \in Outcomes : phy' = Recalibrated(p, o)
      BY <2>1 DEF Recalibrate
    <3>2. Rest(p) /\ ~SamplesPlay(p)
      BY <1>1, <2>1, AdjustedState DEF Recalibrate
    <3> HIDE DEF p
    <3> DEFINE q == Recalibrated(p, o)
    <3>3. Restored(p, q)
      BY <3>2, RecalibratedRests
    <3>4. phy' = q
      BY <3>1
    <3> HIDE DEF q, Restored
    <3> QED
      BY <3>3, <3>4 DEF p
  <2>2. CASE CoreReset \/ PhyInit \/ SetChannel \/ Adjust
    <3>1. op' \notin {"calibrated", "timed out"}
      BY <2>2 DEF CoreReset, PhyInit, SetChannel, Adjust
    <3> HIDE DEF Restored
    <3> QED
      BY <3>1
  <2>3. CASE Warm
    <3>1. op' \in {"warmed", "reset"}
      BY <2>3 DEF Warm, Running
    <3> HIDE DEF Restored
    <3> QED
      BY <3>1
  <2>4. CASE UNCHANGED vars
    BY <2>4
  <2> QED
    BY <1>1, <2>1, <2>2, <2>3, <2>4 DEF Next
<1> QED
  BY <1>1, AlwaysAtEase, PTL DEF Spec, RecalibrationRestores

=============================================================================

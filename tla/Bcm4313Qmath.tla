---------------------------- MODULE Bcm4313Qmath ----------------------------
(***************************************************************************)
(* The integer arithmetic of the LCN PHY: the power index, the             *)
(* synthesizer, the RX compensation and the power tables rest on it.  What *)
(* the code computes in loops over bits is next to what it stands for.     *)
(***************************************************************************)
EXTENDS Integers, FiniteSetsExt

\* Conversion to int8_t; C's division, towards zero; the bytes and the 9-bit
\* readings of the sensors as the code reads them.
Int8(x) == ((x + 128) % 256) - 128
CDiv(a, b) == IF a < 0 THEN -((-a) \div b) ELSE a \div b
Signed(reading) == IF reading > 255 THEN reading - 512 ELSE reading

-----------------------------------------------------------------------------
(* Division.                                                               *)

\* Conversion to uint32_t: what is below 2^32 stays.  (TLC has no number above.)
Uint32(x) == IF x \div 2^30 < 4 THEN x ELSE x % 2^32

\* The quotient rounded to the nearest integer, halves up.
DivRoundUp(dividend, divisor) ==
  dividend \div divisor +
    (IF dividend % divisor >= (divisor \div 2) + (divisor % 2) THEN 1 ELSE 0)

\* Deviation: the bit that an odd divisor loses is not given back.
NextBitEven(s, divisor) ==
  LET roundup == (divisor \div 2) + (divisor % 2)
  IN IF s.rem >= roundup THEN [quo |-> Uint32(2 * s.quo + 1), rem |-> 2 * (s.rem - roundup)]
     ELSE [quo |-> Uint32(2 * s.quo), rem |-> 2 * s.rem]

\* One more bit of the quotient.
NextBit(s, divisor) ==
  LET roundup == (divisor \div 2) + (divisor % 2)
  IN IF s.rem >= roundup
     THEN [quo |-> Uint32(2 * s.quo + 1), rem |-> 2 * (s.rem - roundup) + (divisor % 2)]
     ELSE [quo |-> Uint32(2 * s.quo), rem |-> 2 * s.rem]

\* qdiv_roundup(): "precision" bits after the point, in a quotient of 32 bits.
QdivRoundup(dividend, divisor, precision) ==
  LET bits[k \in 0 .. precision] ==
        IF k = 0 THEN [quo |-> dividend \div divisor, rem |-> dividend % divisor]
        ELSE NextBit(bits[k - 1], divisor)
      last == bits[precision]
  IN IF last.rem >= (divisor \div 2) + (divisor % 2) THEN Uint32(last.quo + 1) ELSE last.quo

-----------------------------------------------------------------------------
(* Roots and sizes.                                                        *)

\* nbits(): the bits of |value|, of numbers below 2^30.
Nbits(value) ==
  LET size == IF value < 0 THEN -value ELSE value
  IN Min({n \in 0 .. 30 : size \div 2^n = 0})

\* isqrt(): one binary digit of the root at a time, from the highest.
Isqrt(x) ==
  LET top == (Nbits(x) - 1) \div 2
      digits[i \in 0 .. top + 1] ==
        IF i = 0 THEN [x |-> x, y |-> 0]
        ELSE LET s == digits[i - 1]
                 m == 4^(top + 1 - i)
             IN IF s.x >= s.y + m THEN [x |-> s.x - (s.y + m), y |-> s.y \div 2 + m]
                ELSE [x |-> s.x, y |-> s.y \div 2]
  IN IF x <= 1 THEN x ELSE digits[top + 1].y

-----------------------------------------------------------------------------
(* Local-oscillator leakage: the radio's words for a coefficient.          *)

\* calc_floor(): half of x, rounded down or up.
CalcFloor(x) == IF x < 0 THEN CDiv(x - 1, 2) ELSE CDiv(x, 2)
CalcCeil(x) == IF x + 1 < 0 THEN CDiv(x, 2) ELSE CDiv(x + 1, 2)

\* set_cc() of types 3 and 4, and get_radio_loft().
LoftWord(x) == (8 - CalcCeil(x)) * 16 + 8 + CalcFloor(x)
LoftRead(word) == ((word % 16) - ((word \div 16) % 16)) % 256

-----------------------------------------------------------------------------
(* The temperature.                                                        *)

\* tempsense(), where the board averages its two sensors.
TempSense(val1, val2) ==
  LET avg == CDiv(Signed(val1) + Signed(val2), 2)
  IN IF avg < 0 THEN avg + 512 ELSE avg

-----------------------------------------------------------------------------
(* Q formats: a value and the number of its bits after the point.          *)

Sat16(x) == IF x > 32767 THEN 32767 ELSE IF x < -32768 THEN -32768 ELSE x
Int16(x) == ((x + 32768) % 65536) - 32768

MulS16(a, b) ==
  Int16((IF a = -32768 /\ b = -32768 THEN 2147483647 ELSE a * b) \div 2^15)

\* norm32(): how far the number can be shifted before it changes its sign.
Norm32(op) ==
  IF op = 0 THEN 31 ELSE Min({k \in 0 .. 30 : op >= 2^(30 - k) \/ op < -(2^(30 - k))})

\* shl32(), for numbers that it does not saturate.
Shl32(op, shift) == IF shift >= 0 THEN op * 2^shift ELSE op \div 2^(-shift)

\* log2(1 + i / 32), 15 bits after the point.
LogTable ==
  <<0, 1455, 2866, 4236, 5568, 6863, 8124, 9352, 10549, 11716, 12855, 13968, 15055, 16117,
    17156, 18173, 19168, 20143, 21098, 22034, 22952, 23852, 24736, 25604, 26455, 27292,
    28114, 28922, 29717, 30498, 31267, 32024, 32767>>
Log10Of2 == 19728

\* log10() of n, with qn bits after the point.
QmLog10(n, qn) ==
  LET norm == Norm32(n)
      mantissa == n * 2^norm
      i == ((mantissa \div 2^25) % 32) + 1
      offset == (mantissa % 2^25) \div 2^9
      step == (offset * (LogTable[i + 1] - LogTable[i])) \div 2^16
      log2 == Sat16(LogTable[i] + step) - (qn + norm - 30) * 2^15
  IN [log |-> MulS16(Int16(Shl32(log2, Norm32(log2) - 16)), Log10Of2), q |-> Norm32(log2)]

-----------------------------------------------------------------------------
(* Properties, of the input n and what the driver combines it with.        *)

\* qdiv_roundup() rounds once, whatever the number of bits it is asked for:
\* Bcm4313TxPwr and Bcm4313Phy divide with DivRoundUp in its place, and their
\* quotients fit its 32 bits.
QdivRounds(n) ==
  \A divisor \in 1 .. 24, p \in {0, 1, 2, 5, 10} :
     QdivRoundup(n, divisor, p) = DivRoundUp(n * 2^p, divisor)

\* isqrt() is the root rounded down, also next to squares.
IsqrtFloors(n) ==
  \A x \in {n, n * n, n * n + 2 * n, n * 1021} :
     LET root == Isqrt(x) IN root * root <= x /\ x < (root + 1) * (root + 1)

\* What set_cc() writes to the radio for a leakage coefficient of 4 bits and a
\* sign, get_cc() reads back.
LoftRoundTrips(n) ==
  LET x == (n % 31) - 15 IN LoftWord(x) \in 0 .. 255 /\ LoftRead(LoftWord(x)) = x % 256

\* The temperature that the driver reads back from tempsense()'s 9 bits lies
\* between what the two sensors say, below zero too.
TempSenseAverages(n) ==
  LET val1 == n % 512
  IN \A val2 \in {0, 1, 255, 256, 257, 511, (7 * n) % 512} :
       LET t == Signed(TempSense(val1, val2))
       IN t \in Min({Signed(val1), Signed(val2)}) .. Max({Signed(val1), Signed(val2)})

\* log10() in 1024ths.
Log10Value(n) ==
  LET r == QmLog10(n, 0) IN r.log \div 2^(r.q - 10)

\* log10() of twice a number is log10(2) more, 308.25 / 1024, up to the rounding.
Log10Doubles(n) ==
  n \in 1 .. 2^30 - 1 => Log10Value(2 * n) - Log10Value(n) \in 307 .. 309

=============================================================================

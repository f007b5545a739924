----------------------------- MODULE CpuAverage -----------------------------
(***************************************************************************)
(* What a reduction with kAvg does to an element once MPI has summed it.   *)
(* The host makes an integer a double, multiplies it by scale, a float     *)
(* next to 1/n, and cuts the product to its whole part: three roundings,   *)
(* and a cast that C++ leaves undefined when the whole part is not in the  *)
(* range of the type.  The casts of a float to Float16 (cut to its         *)
(* mantissa) and BFloat16 (rounded) are the program's own and work on      *)
(* bits; MPI sums no 16 bit type (type_map.h 22-23), so an average does    *)
(* not reach them on this backend and they are looked at for themselves.   *)
(*                                                                         *)
(* The formats have fewer bits than float32 (8 and 23), double (52),       *)
(* Float16 (5 and 10) and BFloat16 (8 and 7) and the same relations        *)
(* between them; an integer type may be wider than the mantissa of a       *)
(* double or not.  A pattern is a natural number, the sign its highest     *)
(* bit.  Values are counted in the smallest positive float.                *)
(***************************************************************************)
EXTENDS Integers

CONSTANTS
  FloatExponent, FloatMantissa,  \* bits of a float
  DoubleMantissa,                \* of a double, whose exponents suffice
  HalfExponent, HalfMantissa,    \* bits of a Float16
  BFloatMantissa,                \* a BFloat16 has the exponent of a float
  IntWidth,                      \* bits of an integer type
  MaxRanks                       \* bound on the size of the communicator

Bias(exponentBits) == 2 ^ (exponentBits - 1) - 1
FloatBias == Bias(FloatExponent)
HalfBias == Bias(HalfExponent)

\* Every Float16 that is not 0 is a float that is not subnormal, and so is 1/n
\* (25 <= 127 for the real formats, and an int is less than 2 ^ 126).  A size of
\* at most 2 ^ 24 is a float.  No integer type is too wide.
ASSUME FormatAssumption ==
  /\ FloatExponent \in Nat /\ FloatMantissa \in Nat
  /\ HalfExponent \in 2 .. FloatExponent - 1
  /\ HalfMantissa \in 1 .. FloatMantissa - 1
  /\ BFloatMantissa \in 1 .. FloatMantissa - 1
  /\ IntWidth \in Nat \ {0, 1} /\ MaxRanks \in Nat \ {0}
  /\ HalfBias + HalfMantissa <= FloatBias /\ MaxRanks <= 2 ^ (FloatBias - 1)
  /\ MaxRanks <= 2 ^ (FloatMantissa + 1)
  /\ DoubleMantissa \in Nat /\ FloatMantissa + 2 <= DoubleMantissa

VARIABLES
  type,   \* "int", "uint", "Float16" or "BFloat16"
  ranks,  \* comm->size()
  value,  \* the sum (of an integer) or the bits of the product (f_val)
  stored  \* "no", or the element after the loop has stored it

vars == <<type, ranks, value, stored>>

Sign(bits) == bits \div 2 ^ (FloatExponent + FloatMantissa)
Exponent(bits) == (bits \div 2 ^ FloatMantissa) % 2 ^ FloatExponent
Mantissa(bits) == bits % 2 ^ FloatMantissa

FloatPatterns == 0 .. 2 ^ (1 + FloatExponent + FloatMantissa) - 1

\* The absolute value of a float.  The pattern of infinity counts as the
\* number that would come after the largest one.
Magnitude(bits) ==
  IF Exponent(bits) = 0 THEN Mantissa(bits)
  ELSE (2 ^ FloatMantissa + Mantissa(bits)) * 2 ^ (Exponent(bits) - 1)

IsNaN(bits) == Exponent(bits) = 2 ^ FloatExponent - 1 /\ Mantissa(bits) # 0

One == 2 ^ (FloatBias + FloatMantissa - 1)

\* 1.0f / static_cast<float>(size), rounded to the nearest float.
Scale(n) ==
  LET low == CHOOSE p \in FloatPatterns :
               /\ Sign(p) = 0
               /\ Magnitude(p) * n <= One /\ One < Magnitude(p + 1) * n
      rest == 2 * One - n * (Magnitude(low) + Magnitude(low + 1))
  IN  IF rest > 0 \/ (rest = 0 /\ low % 2 = 1) THEN low + 1 ELSE low

-----------------------------------------------------------------------------
\* The values of an integer type.
Values(integer) == IF integer = "int"
                   THEN -2 ^ (IntWidth - 1) .. 2 ^ (IntWidth - 1) - 1
                   ELSE 0 .. 2 ^ IntWidth - 1

\* More than the number of bits of any product.
WidestProduct == IntWidth + FloatBias + FloatMantissa

\* The distance of the doubles around x >= 0.
DoubleUnit(x) ==
  2 ^ (CHOOSE e \in 0 .. WidestProduct :
         /\ x < 2 ^ (DoubleMantissa + 1 + e)
         /\ e > 0 => 2 ^ (DoubleMantissa + e) <= x)

\* The double nearest to x >= 0; of two, the one with an even mantissa.
NearestDouble(x) ==
  LET unit == DoubleUnit(x)
      steps == x \div unit
      rest == x % unit
  IN  IF 2 * rest > unit \/ (2 * rest = unit /\ steps % 2 = 1)
      THEN (steps + 1) * unit ELSE steps * unit

Double(x) == IF x < 0 THEN -NearestDouble(-x) ELSE NearestDouble(x)

Cut(x, y) == IF x < 0 THEN -((-x) \div y) ELSE x \div y

\* Defect: the scale is cast to the integer type.
IntegerScaled(sum, n) == Double(sum) * Cut(Magnitude(Scale(n)), One)

\* The whole part of static_cast<double>(sum) * scale.
IntegerAverage(sum, n) == Cut(Double(Double(sum) * Magnitude(Scale(n))), One)

HalfSign(bits) == Sign(bits) * 2 ^ (HalfExponent + HalfMantissa)
HalfInfinity == (2 ^ HalfExponent - 1) * 2 ^ HalfMantissa

\* Defect: the hidden bit is not put in front of the mantissa of a subnormal.
Float16NoHiddenBit(bits) ==
  LET exponent == Exponent(bits) - FloatBias
      cut == 2 ^ (FloatMantissa - HalfMantissa)
  IN  HalfSign(bits) +
      CASE exponent > HalfBias -> HalfInfinity +
             (IF IsNaN(bits) THEN 2 ^ (HalfMantissa - 1) ELSE 0)
        [] exponent \in 1 - HalfBias .. HalfBias ->
             (exponent + HalfBias) * 2 ^ HalfMantissa + Mantissa(bits) \div cut
        [] exponent \in 1 - HalfBias - HalfMantissa .. - HalfBias ->
             Mantissa(bits) \div (cut * 2 ^ (1 - HalfBias - exponent))
        [] OTHER -> 0

\* Float16::FromFloat: too large, normal, subnormal, too small.
Float16FromFloat(bits) ==
  LET exponent == Exponent(bits) - FloatBias
      cut == 2 ^ (FloatMantissa - HalfMantissa)
  IN  HalfSign(bits) +
      CASE exponent > HalfBias -> HalfInfinity +
             (IF IsNaN(bits) THEN 2 ^ (HalfMantissa - 1) ELSE 0)
        [] exponent \in 1 - HalfBias .. HalfBias ->
             (exponent + HalfBias) * 2 ^ HalfMantissa + Mantissa(bits) \div cut
        [] exponent \in 1 - HalfBias - HalfMantissa .. - HalfBias ->
             (2 ^ FloatMantissa + Mantissa(bits))
               \div (cut * 2 ^ (1 - HalfBias - exponent))
        [] OTHER -> 0

\* Float16::ToFloat shifts the mantissa of a subnormal until its first bit is
\* the hidden one.
Float16ToFloat(bits) ==
  LET sign == bits \div 2 ^ (HalfExponent + HalfMantissa)
      exponent == (bits \div 2 ^ HalfMantissa) % 2 ^ HalfExponent
      mantissa == bits % 2 ^ HalfMantissa
      shift == CHOOSE s \in 0 .. HalfMantissa :
                 (mantissa * 2 ^ s) \div 2 ^ HalfMantissa = 1
      Float(e, m) == sign * 2 ^ (FloatExponent + FloatMantissa)
                       + e * 2 ^ FloatMantissa
                       + m * 2 ^ (FloatMantissa - HalfMantissa)
  IN  CASE exponent = 2 ^ HalfExponent - 1 ->
             Float(2 ^ FloatExponent - 1, mantissa)
        [] exponent = 0 /\ mantissa = 0 -> Float(0, 0)
        [] exponent = 0 /\ mantissa # 0 ->
             Float(1 - HalfBias - shift + FloatBias,
                   mantissa * 2 ^ shift - 2 ^ HalfMantissa)
        [] OTHER -> Float(exponent + FloatBias - HalfBias, mantissa)

\* BFloat16::FromFloat adds just under a half, or a half if the last bit that
\* stays is odd, and drops the low bits; the sum wraps at the width of a float.
BFloat16FromFloat(bits) ==
  LET low == 2 ^ (FloatMantissa - BFloatMantissa)
      roundingBias == low \div 2 - 1 + ((bits \div low) % 2)
      width == 2 ^ (1 + FloatExponent + FloatMantissa)
  IN  ((bits + roundingBias) % width) \div low

BFloat16ToFloat(bits) == bits * 2 ^ (FloatMantissa - BFloatMantissa)

-----------------------------------------------------------------------------
Init ==
  /\ \/ /\ type \in {"int", "uint"} /\ ranks \in 1 .. MaxRanks
        /\ value \in Values(type)
     \/ /\ type \in {"Float16", "BFloat16"} /\ ranks = 1
        /\ value \in FloatPatterns
  /\ stored = "no"

\* A cast of a number out of range is undefined and may store anything.
CastBack(integer, average) ==
  IF average \in Values(integer) THEN {average} ELSE Values(integer)

StoreInteger ==
  /\ type \in {"int", "uint"} /\ stored = "no"
  /\ \E average \in CastBack(type, IntegerAverage(value, ranks)) :
       stored' = <<average>>
  /\ UNCHANGED <<type, ranks, value>>

StoreFloat16 ==
  /\ type = "Float16" /\ stored = "no"
  /\ stored' = <<Float16FromFloat(value)>>
  /\ UNCHANGED <<type, ranks, value>>

StoreBFloat16 ==
  /\ type = "BFloat16" /\ stored = "no"
  /\ stored' = <<BFloat16FromFloat(value)>>
  /\ UNCHANGED <<type, ranks, value>>

Next == StoreInteger \/ StoreFloat16 \/ StoreBFloat16

Spec == Init /\ [][Next]_vars
-----------------------------------------------------------------------------
Distance(x, y) == IF x < y THEN y - x ELSE x - y

\* The average of integers has the sign of the sum and is the mean cut to a
\* whole number, up to the precision of the float scale: less than one plus one
\* part in 2 ^ FloatMantissa of the mean away from it.  For a power of two it
\* is exactly what integer division gives for the sum made a double, which is
\* the sum itself up to 2 ^ (DoubleMantissa + 1): always in a type of at most
\* that many bits.  The cast back is in range, except that on one rank the sum
\* made a double may be one past the largest number of a wider type; then
\* nothing is known (the scaling in all_reduce.h 70-74).
MeanOfIntegers ==
  type \in {"int", "uint"} /\ stored # "no" =>
    LET average == stored[1]
        double == Double(value)
        error == Distance(average * ranks, value)
        PowerOfTwo == \E k \in 0 .. MaxRanks : ranks = 2 ^ k
    IN  /\ Distance(value, 0) <= 2 ^ (DoubleMantissa + 1) => double = value
        /\ ranks > 1 \/ double \in Values(type) =>
             /\ average * value >= 0
             /\ PowerOfTwo => average = Cut(double, ranks)
             /\ \/ error < ranks
                \/ (error - ranks) * 2 ^ FloatMantissa < Distance(value, 0)

\* The casts to the 16 bit types round as their formats ask, over normal and
\* subnormal numbers, into infinity and across powers of two: Float16 towards
\* zero (but to infinity from the first power of two that it lacks), BFloat16
\* to the nearest and a tie to the even one.  Both keep the sign, and casting
\* back and forth again changes nothing (the bit arithmetic of data_type_.h).
\* Of NaNs only the usual quiet one is sure to stay a NaN in BFloat16.
HalvesRound ==
  /\ type = "Float16" /\ stored # "no" =>
       LET half == stored[1]
           float == Float16ToFloat(half)
       IN  /\ Sign(float) = Sign(value)
           /\ IsNaN(value) <=> IsNaN(float)
           /\ ~IsNaN(value) => Float16FromFloat(float) = half
           /\ ~IsNaN(value) /\ Exponent(value) - FloatBias <= HalfBias =>
                /\ Magnitude(float) <= Magnitude(value)
                /\ Magnitude(value) < Magnitude(Float16ToFloat(half + 1))
           /\ ~IsNaN(value) /\ Exponent(value) - FloatBias > HalfBias =>
                half % 2 ^ (HalfExponent + HalfMantissa) = HalfInfinity
  /\ type = "BFloat16" /\ stored # "no" /\ ~IsNaN(value) =>
       LET low == value - (value % BFloat16ToFloat(1))
           high == low + BFloat16ToFloat(1)
           float == BFloat16ToFloat(stored[1])
           above == Distance(Magnitude(value), Magnitude(low))
           below == Distance(Magnitude(high), Magnitude(value))
       IN  /\ float \in {low, high}
           /\ above < below => float = low
           /\ below < above => float = high
           /\ above = below => stored[1] % 2 = 0
           /\ BFloat16FromFloat(float) = stored[1]
  /\ type = "BFloat16" /\ stored # "no" /\ IsNaN(value)
       /\ Mantissa(value) = 2 ^ (FloatMantissa - 1) =>
       IsNaN(BFloat16ToFloat(stored[1]))
=============================================================================

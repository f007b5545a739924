------------------------- MODULE CpuAverage_proofs --------------------------
(***************************************************************************)
(* The average of integers and the casts to 16 bits, for all formats.      *)
(***************************************************************************)
EXTENDS CpuAverage, FiniteSetTheorems, WellFoundedInduction, TLAPS

\* Sets of numbers have a least element.
LEMMA LeastNumber ==
  ASSUME NEW S \in SUBSET Nat, S # {}
  PROVE  \E n \in S : \A m \in S : n <= m
<1> DEFINE R == OpToRel(<, Nat)
<1>1. IsWellFoundedOn(R, Nat)
  BY NatLessThanWellFounded
<1> HIDE DEF R
<1>2. PICK n \in S : \A m \in S : ~(<<m, n>> \in R)
  BY <1>1, WFMin
<1>3. \A m \in S : ~(m < n)
  BY <1>2 DEF R, OpToRel
<1> QED
  BY <1>2, <1>3

-----------------------------------------------------------------------------
\* Powers of two.  The library knows 2 ^ n as the number of subsets of a set of
\* n elements, and the laws of powers follow from those of cardinality.
LEMMA PowerIsCardinality ==
  ASSUME NEW n \in Nat
  PROVE  /\ IsFiniteSet(SUBSET (1 .. n))
         /\ 2 ^ n = Cardinality(SUBSET (1 .. n))
<1>1. IsFiniteSet(1 .. n) /\ Cardinality(1 .. n) = n
  BY FS_Interval
<1> QED
  BY <1>1, FS_SUBSET

\* Powers of two are natural numbers.
LEMMA PowerNat ==
  ASSUME NEW n \in Nat
  PROVE  2 ^ n \in Nat
BY PowerIsCardinality, FS_CardinalityType

\* The empty set has one subset.
LEMMA PowerZero == 2 ^ 0 = 1
<1>1. 2 ^ 0 = Cardinality(SUBSET (1 .. 0))
  BY PowerIsCardinality
<1>2. SUBSET (1 .. 0) = {{}}
  OBVIOUS
<1> QED
  BY <1>1, <1>2, FS_Singleton

\* With one element more there are twice as many subsets.
LEMMA PowerNext ==
  ASSUME NEW n \in Nat
  PROVE  2 ^ (n + 1) = 2 * 2 ^ n
<1> DEFINE S == SUBSET (1 .. n)
           T == {s \cup {n + 1} : s \in S}
<1>1. IsFiniteSet(S) /\ Cardinality(S) = 2 ^ n
  BY PowerIsCardinality
<1>2. Cardinality(SUBSET (1 .. n + 1)) = 2 ^ (n + 1)
  BY PowerIsCardinality
<1>3. SUBSET (1 .. n + 1) = S \cup T
  <2>1. ASSUME NEW s \in SUBSET (1 .. n + 1), s \notin S
        PROVE  s \in T
    <3>1. n + 1 \in s
      BY <2>1
    <3>2. s \ {n + 1} \in S /\ s = (s \ {n + 1}) \cup {n + 1}
      BY <3>1
    <3> QED
      BY <3>2
  <2>2. S \subseteq SUBSET (1 .. n + 1)
    OBVIOUS
  <2>3. n + 1 \in 1 .. n + 1 /\ 1 .. n \subseteq 1 .. n + 1
    OBVIOUS
  <2>4. T \subseteq SUBSET (1 .. n + 1)
    BY <2>3, Zenon
  <2> HIDE DEF S, T
  <2> QED
    BY <2>1, <2>2, <2>4
<1>4. S \cap T = {}
  OBVIOUS
<1> DEFINE f == [s \in S |-> s \cup {n + 1}]
<1>5. f \in Bijection(S, T)
  <2>1. f \in [S -> T]
    OBVIOUS
  <2>2. \A s, t \in S : f[s] = f[t] => s = t
    <3>1. TAKE s, t \in S
    <3>2. n + 1 \notin s /\ n + 1 \notin t
      OBVIOUS
    <3> QED
      BY <3>2
  <2>3. \A t \in T : \E s \in S : f[s] = t
    OBVIOUS
  <2> QED
    BY <2>1, <2>2, <2>3 DEF Bijection, Injection, Surjection, IsInjective
<1>6. IsFiniteSet(T) /\ Cardinality(T) = 2 ^ n
  BY <1>1, <1>5, FS_Bijection DEF ExistsBijection
<1>7. 2 ^ (n + 1) = Cardinality(S) + Cardinality(T) - Cardinality(S \cap T)
  <2> HIDE DEF S, T
  <2> QED
  BY <1>1, <1>2, <1>3, <1>6, FS_Union
<1>8. Cardinality(S \cap T) = 0
  BY <1>4, FS_EmptySet
<1> QED
  BY <1>1, <1>6, <1>7, <1>8, PowerNat

\* Powers of two are at least 1: by PowerNext a least exception has none before it.
LEMMA PowerPositive ==
  ASSUME NEW n \in Nat
  PROVE  2 ^ n \in Nat /\ 2 ^ n >= 1
<1> DEFINE S == {m \in Nat : 2 ^ m < 1}
<1>1. SUFFICES S = {}
  BY <1>1, PowerNat
<1>2. SUFFICES ASSUME S # {} PROVE FALSE
  OBVIOUS
<1>3. PICK m \in S : \A k \in S : m <= k
  BY <1>2, LeastNumber
<1>4. m # 0
  <2>1. ASSUME m = 0 PROVE 2 ^ m = 1
    BY <2>1, PowerZero, Zenon
  <2> QED
    BY <1>3, <2>1
<1>5. m - 1 \in Nat /\ 2 ^ m = 2 * 2 ^ (m - 1) /\ 2 ^ (m - 1) \in Nat
  <2>1. m - 1 \in Nat /\ (m - 1) + 1 = m
    BY <1>4
  <2> QED
    BY <2>1, PowerNext, PowerNat
<1>6. m - 1 \notin S
  BY <1>3, <1>5
<1> QED
  BY <1>3, <1>5, <1>6

\* The law of exponents, on the least exponent for which it could fail.
LEMMA PowerOfSum ==
  ASSUME NEW m \in Nat, NEW n \in Nat
  PROVE  2 ^ (m + n) = 2 ^ m * 2 ^ n
<1> DEFINE S == {k \in Nat : 2 ^ (m + k) # 2 ^ m * 2 ^ k}
<1>1. SUFFICES ASSUME S # {} PROVE FALSE
  OBVIOUS
<1>2. PICK k \in S : \A j \in S : k <= j
  BY <1>1, LeastNumber
<1>3. 2 ^ m \in Nat
  BY PowerNat
<1>4. k # 0
  <2>1. ASSUME k = 0 PROVE 2 ^ k = 1 /\ m + k = m
    BY <2>1, PowerZero
  <2>2. 2 ^ m * 1 = 2 ^ m
    BY <1>3
  <2>3. ASSUME k = 0 PROVE 2 ^ (m + k) = 2 ^ m * 2 ^ k
    BY <2>1, <2>2, <2>3, Zenon
  <2> QED
    BY <1>2, <2>3
<1>5. k - 1 \in Nat /\ k - 1 \notin S /\ (k - 1) + 1 = k /\ m + k = (m + (k - 1)) + 1
  BY <1>2, <1>4
<1>6. 2 ^ (m + (k - 1)) = 2 ^ m * 2 ^ (k - 1)
  BY <1>5
<1>7. 2 ^ (m + k) = 2 * 2 ^ (m + (k - 1)) /\ 2 ^ k = 2 * 2 ^ (k - 1)
  BY <1>5, PowerNext
<1>8. 2 ^ (k - 1) \in Nat
  BY <1>5, PowerNat
<1>9. \A a, b \in Nat : 2 * (a * b) = a * (2 * b)
  OBVIOUS
<1>10. 2 ^ (m + k) = 2 ^ m * 2 ^ k
  BY <1>3, <1>6, <1>7, <1>8, <1>9
<1> QED
  BY <1>2, <1>10

-----------------------------------------------------------------------------
\* Products and quotients.
LEMMA TimesNat ==
  ASSUME NEW a \in Nat, NEW b \in Nat
  PROVE  a * b \in Nat
OBVIOUS

\* Products grow with their factors.
LEMMA TimesMonotone ==
  ASSUME NEW a \in Int, NEW b \in Int, a <= b, NEW c \in Nat
  PROVE  a * c <= b * c /\ c * a <= c * b
OBVIOUS

\* They grow strictly if the other factor is not 0.
LEMMA TimesStrict ==
  ASSUME NEW a \in Int, NEW b \in Int, a < b, NEW c \in Nat, c > 0
  PROVE  a * c < b * c /\ c * a < c * b
OBVIOUS

\* Quotient and remainder make up the number.
LEMMA DivMod ==
  ASSUME NEW a \in Nat, NEW b \in Nat, b > 0
  PROVE  /\ a \div b \in Nat /\ a % b \in Nat /\ a % b < b
         /\ a = b * (a \div b) + (a % b)
<1>1. a \div b \in Int /\ a % b \in 0 .. b - 1
  OBVIOUS
<1>2. a = b * (a \div b) + (a % b)
  OBVIOUS
<1>3. a \div b >= 0
  OBVIOUS
<1> QED
  BY <1>1, <1>2, <1>3

\* A quotient and a remainder are the only ones.
LEMMA DivModUnique ==
  ASSUME NEW a \in Nat, NEW b \in Nat, b > 0, NEW q \in Nat, NEW r \in Nat, r < b,
         a = b * q + r
  PROVE  a \div b = q /\ a % b = r
<1>1. /\ a \div b \in Nat /\ a % b \in Nat /\ a % b < b
      /\ a = b * (a \div b) + (a % b)
  BY DivMod
<1> DEFINE p == a \div b
           s == a % b
<1> HIDE DEF p, s
<1>2. /\ p \in Nat /\ s \in Nat /\ s < b /\ b * p + s = b * q + r
  BY <1>1 DEF p, s
<1>3. ~(p + 1 <= q)
  <2>1. SUFFICES ASSUME p + 1 <= q PROVE FALSE
    OBVIOUS
  <2>2. b * (p + 1) <= b * q
    BY <1>2, <2>1, TimesMonotone
  <2>3. b * (p + 1) = b * p + b
    BY <1>2
  <2> QED
    BY <1>2, <2>2, <2>3, TimesNat
<1>4. ~(q + 1 <= p)
  <2>1. SUFFICES ASSUME q + 1 <= p PROVE FALSE
    OBVIOUS
  <2>2. b * (q + 1) <= b * p
    BY <1>2, <2>1, TimesMonotone
  <2>3. b * (q + 1) = b * q + b
    OBVIOUS
  <2> QED
    BY <1>2, <2>2, <2>3, TimesNat
<1>5. p = q
  BY <1>2, <1>3, <1>4
<1>6. s = r
  BY <1>2, <1>5, TimesNat
<1> QED
  BY <1>5, <1>6 DEF p, s

\* Powers grow with the exponent.
LEMMA PowerMonotone ==
  ASSUME NEW a \in Nat, NEW b \in Nat, a <= b
  PROVE  2 ^ a <= 2 ^ b
<1> DEFINE d == b - a
<1>1. d \in Nat /\ a + d = b
  OBVIOUS
<1> HIDE DEF d
<1>2. 2 ^ b = 2 ^ a * 2 ^ d /\ 2 ^ a \in Nat /\ 2 ^ d \in Nat /\ 2 ^ d >= 1
  BY <1>1, PowerOfSum, PowerPositive
<1>3. 2 ^ a * 1 <= 2 ^ a * 2 ^ d
  BY <1>2, TimesMonotone
<1> QED
  BY <1>2, <1>3

\* A number in three fields, the highest of any size.
LEMMA ThreeFields ==
  ASSUME NEW E \in Nat, E > 0, NEW F \in Nat, F > 0,
         NEW s \in Nat, NEW e \in 0 .. E - 1, NEW m \in 0 .. F - 1,
         NEW p \in Nat, p = s * (E * F) + e * F + m
  PROVE  p \div (E * F) = s /\ p \div F = E * s + e /\ (p \div F) % E = e /\ p % F = m
<1> DEFINE q == E * s + e
<1>1. s * E \in Nat /\ e * F \in Nat /\ E * F \in Nat /\ E * F > 0 /\ s * (E * F) \in Nat
  BY TimesNat
<1>2. q \in Nat
  BY <1>1
<1>3. p = F * q + m
  BY <1>1
<1>4. p \div F = q /\ p % F = m
  <2> HIDE DEF q
  <2> QED
    BY <1>2, <1>3, DivModUnique
<1>5. q % E = e
  BY <1>2, DivModUnique
<1>6. p \div (E * F) = s
  <2>1. e * F + m \in Nat
    BY <1>1
  <2>2. e * F <= (E - 1) * F
    BY TimesMonotone
  <2>3. (E - 1) * F = E * F - F
    OBVIOUS
  <2>4. e * F + m < E * F
    BY <1>1, <2>2, <2>3
  <2>5. p = (E * F) * s + (e * F + m)
    BY <1>1
  <2> DEFINE G == E * F
             r == e * F + m
  <2>6. G \in Nat /\ G > 0 /\ r \in Nat /\ r < G /\ p = G * s + r
    BY <1>1, <2>1, <2>4, <2>5
  <2> HIDE DEF G, r
  <2>7. p \div G = s
    BY <1>2, <2>6, DivModUnique
  <2> QED
    BY <2>7 DEF G
<1> QED
  BY <1>2, <1>4, <1>5, <1>6

\* Every number has three such fields.
LEMMA ThreeParts ==
  ASSUME NEW E \in Nat, E > 0, NEW F \in Nat, F > 0, NEW p \in Nat
  PROVE  /\ p \div (E * F) \in Nat /\ (p \div F) % E \in 0 .. E - 1 /\ p % F \in 0 .. F - 1
         /\ p = (p \div (E * F)) * (E * F) + ((p \div F) % E) * F + (p % F)
<1> DEFINE q == p \div F
           m == p % F
           s == q \div E
           e == q % E
<1>1. q \in Nat /\ m \in 0 .. F - 1 /\ p = F * q + m
  BY DivMod
<1> HIDE DEF q, m
<1>2. s \in Nat /\ e \in 0 .. E - 1 /\ q = E * s + e
  BY <1>1, DivMod
<1> HIDE DEF s, e
<1>3. p = s * (E * F) + e * F + m
  BY <1>1, <1>2
<1>4. p \div (E * F) = s
  BY <1>1, <1>2, <1>3, ThreeFields
<1> QED
  BY <1>1, <1>2, <1>3, <1>4 DEF q, m, s, e

-----------------------------------------------------------------------------
\* The bounds on the widths of the formats.
LEMMA Widths ==
  /\ FloatExponent \in Nat /\ FloatExponent >= 3
  /\ FloatMantissa \in Nat /\ FloatMantissa >= 2
  /\ HalfExponent \in Nat /\ HalfExponent >= 2
  /\ HalfMantissa \in Nat /\ HalfMantissa >= 1 /\ HalfMantissa < FloatMantissa
  /\ BFloatMantissa \in Nat /\ BFloatMantissa >= 1 /\ BFloatMantissa < FloatMantissa
  /\ IntWidth \in Nat \ {0} /\ MaxRanks \in Nat \ {0}
BY FormatAssumption

\* The biases are one less than half the number of exponents.
LEMMA Biases ==
  /\ FloatBias \in Nat /\ HalfBias \in Nat /\ HalfBias >= 1 /\ HalfMantissa >= 1
  /\ HalfBias + HalfMantissa <= FloatBias
  /\ 2 ^ FloatExponent = 2 * FloatBias + 2
  /\ 2 ^ HalfExponent = 2 * HalfBias + 2
<1>1. /\ FloatExponent - 1 \in Nat /\ (FloatExponent - 1) + 1 = FloatExponent
      /\ HalfExponent - 1 \in Nat /\ (HalfExponent - 1) + 1 = HalfExponent
      /\ HalfExponent - 2 \in Nat /\ (HalfExponent - 2) + 1 = HalfExponent - 1
  BY Widths
<1>2. /\ 2 ^ FloatExponent = 2 * 2 ^ (FloatExponent - 1)
      /\ 2 ^ HalfExponent = 2 * 2 ^ (HalfExponent - 1)
      /\ 2 ^ (HalfExponent - 1) = 2 * 2 ^ (HalfExponent - 2)
  <2>1. 2 ^ ((FloatExponent - 1) + 1) = 2 * 2 ^ (FloatExponent - 1)
    BY <1>1, PowerNext
  <2>2. 2 ^ ((HalfExponent - 1) + 1) = 2 * 2 ^ (HalfExponent - 1)
    BY <1>1, PowerNext
  <2>3. 2 ^ ((HalfExponent - 2) + 1) = 2 * 2 ^ (HalfExponent - 2)
    BY <1>1, PowerNext
  <2> QED
    BY <1>1, <2>1, <2>2, <2>3
<1>3. /\ 2 ^ (FloatExponent - 1) \in Nat /\ 2 ^ (FloatExponent - 1) >= 1
      /\ 2 ^ (HalfExponent - 2) \in Nat /\ 2 ^ (HalfExponent - 2) >= 1
      /\ 2 ^ (HalfExponent - 1) \in Nat
  BY <1>1, PowerPositive
<1>4. FloatBias = 2 ^ (FloatExponent - 1) - 1 /\ HalfBias = 2 ^ (HalfExponent - 1) - 1
  BY DEF FloatBias, HalfBias, Bias
<1>5. HalfBias + HalfMantissa <= FloatBias
  BY FormatAssumption
<1> QED
  BY <1>2, <1>3, <1>4, <1>5, Widths

\* The places of a float with a given exponent are this far apart.
Ulp(exponent) == IF exponent = 0 THEN 1 ELSE 2 ^ (exponent - 1)

\* The float with the three fields.
Pattern(sign, exponent, mantissa) ==
  sign * 2 ^ (FloatExponent + FloatMantissa) + exponent * 2 ^ FloatMantissa + mantissa

\* The places of the fields of a float.
LEMMA FloatPowers ==
  /\ 2 ^ (FloatExponent + FloatMantissa) = 2 ^ FloatExponent * 2 ^ FloatMantissa
  /\ 2 ^ FloatExponent \in Nat /\ 2 ^ FloatExponent > 0
  /\ 2 ^ FloatMantissa \in Nat /\ 2 ^ FloatMantissa > 0
  /\ 2 ^ (FloatExponent + FloatMantissa) \in Nat /\ 2 ^ (FloatExponent + FloatMantissa) > 0
  /\ 2 ^ (1 + FloatExponent + FloatMantissa) = 2 * 2 ^ (FloatExponent + FloatMantissa)
<1>1. 2 ^ FloatExponent \in Nat /\ 2 ^ FloatExponent >= 1
  BY Widths, PowerPositive
<1>2. 2 ^ FloatMantissa \in Nat /\ 2 ^ FloatMantissa >= 1
  BY Widths, PowerPositive
<1>3. FloatExponent + FloatMantissa \in Nat
  BY Widths
<1>4. 2 ^ (FloatExponent + FloatMantissa) \in Nat /\ 2 ^ (FloatExponent + FloatMantissa) >= 1
  BY <1>3, PowerPositive
<1>5. 2 ^ (FloatExponent + FloatMantissa) = 2 ^ FloatExponent * 2 ^ FloatMantissa
  BY Widths, PowerOfSum
<1>6. 2 ^ ((FloatExponent + FloatMantissa) + 1) = 2 * 2 ^ (FloatExponent + FloatMantissa)
  BY <1>3, PowerNext
<1>7. (FloatExponent + FloatMantissa) + 1 = 1 + FloatExponent + FloatMantissa
  BY Widths
<1> QED
  BY <1>1, <1>2, <1>4, <1>5, <1>6, <1>7

\* The fields of a pattern are those it is made of.
LEMMA FieldsOfPattern ==
  ASSUME NEW s \in Nat, NEW e \in 0 .. 2 ^ FloatExponent - 1,
         NEW m \in 0 .. 2 ^ FloatMantissa - 1
  PROVE  /\ Pattern(s, e, m) \in Nat
         /\ Sign(Pattern(s, e, m)) = s
         /\ Exponent(Pattern(s, e, m)) = e
         /\ Mantissa(Pattern(s, e, m)) = m
<1> DEFINE E == 2 ^ FloatExponent
           F == 2 ^ FloatMantissa
           p == Pattern(s, e, m)
<1>1. E \in Nat /\ E > 0 /\ F \in Nat /\ F > 0
  BY FloatPowers
<1>2. 2 ^ (FloatExponent + FloatMantissa) = E * F
  BY FloatPowers
<1>3. Sign(p) = p \div (E * F) /\ Exponent(p) = (p \div F) % E /\ Mantissa(p) = p % F
  BY <1>2 DEF Sign, Exponent, Mantissa
<1>4. p = s * (E * F) + e * F + m
  BY <1>2 DEF Pattern
<1>5. e \in 0 .. E - 1 /\ m \in 0 .. F - 1
  OBVIOUS
<1> HIDE DEF E, F, p
<1>6. p \in Nat
  <2>1. s * (E * F) \in Nat /\ e * F \in Nat /\ m \in Nat
    BY <1>1, <1>5, TimesNat
  <2> QED
    BY <1>4, <2>1
<1>7. p \div F \in Nat /\ E * F \in Nat /\ E * F > 0
  BY <1>1, <1>6, DivMod, TimesNat
<1>8. p \div (E * F) = s
  BY <1>1, <1>4, <1>5, <1>6, ThreeFields
<1>9. (p \div F) % E = e
  <2>1. p \div F = E * s + e
    BY <1>1, <1>4, <1>5, <1>6, ThreeFields
  <2>2. E * s + e \in Nat
    BY <1>1, <1>5, TimesNat
  <2>3. (E * s + e) % E = e
    BY <1>1, <1>5, <2>2, DivModUnique
  <2> QED
    BY <2>1, <2>3
<1>10. p % F = m
  BY <1>1, <1>4, <1>5, <1>6, <1>7, ThreeFields
<1> QED
  BY <1>3, <1>6, <1>8, <1>9, <1>10, Zenon DEF p

\* A pattern is made of its fields.
LEMMA PatternOfFields ==
  ASSUME NEW p \in Nat
  PROVE  /\ Sign(p) \in Nat /\ Exponent(p) \in 0 .. 2 ^ FloatExponent - 1
         /\ Mantissa(p) \in 0 .. 2 ^ FloatMantissa - 1
         /\ p = Pattern(Sign(p), Exponent(p), Mantissa(p))
<1> DEFINE E == 2 ^ FloatExponent
           F == 2 ^ FloatMantissa
<1>1. /\ E \in Nat /\ E > 0 /\ F \in Nat /\ F > 0
      /\ 2 ^ (FloatExponent + FloatMantissa) = E * F
  BY FloatPowers
<1>2. /\ Sign(p) = p \div (E * F) /\ Exponent(p) = (p \div F) % E /\ Mantissa(p) = p % F
      /\ \A s, e, m : Pattern(s, e, m) = s * (E * F) + e * F + m
  BY <1>1 DEF Pattern, Sign, Exponent, Mantissa
<1>3. SUFFICES /\ p \div (E * F) \in Nat /\ (p \div F) % E \in 0 .. E - 1 /\ p % F \in 0 .. F - 1
               /\ p = (p \div (E * F)) * (E * F) + ((p \div F) % E) * F + (p % F)
  BY <1>2
<1> HIDE DEF E, F
<1> QED
  BY <1>1, ThreeParts

\* The distance is never 0.
LEMMA UlpPositive ==
  ASSUME NEW e \in Nat
  PROVE  Ulp(e) \in Nat /\ Ulp(e) > 0
<1>1. CASE e = 0
  BY <1>1 DEF Ulp
<1>2. CASE e # 0
  <2>1. e - 1 \in Nat
    BY <1>2
  <2>2. 2 ^ (e - 1) \in Nat /\ 2 ^ (e - 1) >= 1
    BY <2>1, PowerPositive
  <2> QED
    BY <1>2, <2>2 DEF Ulp
<1> QED
  BY <1>1, <1>2

\* The exponent of a float that is not zero or subnormal.
LEMMA UlpNext ==
  ASSUME NEW e \in Nat, e > 0
  PROVE  Ulp(e + 1) = 2 * Ulp(e) /\ Ulp(e + 1) = 2 ^ e
<1>1. e - 1 \in Nat /\ (e - 1) + 1 = e /\ (e + 1) - 1 = e /\ e + 1 # 0
  OBVIOUS
<1>2. 2 ^ ((e - 1) + 1) = 2 * 2 ^ (e - 1)
  BY <1>1, PowerNext
<1> QED
  BY <1>1, <1>2 DEF Ulp

\* The magnitude, subnormal or not, as a product.
LEMMA MagnitudeOfFields ==
  ASSUME NEW p \in Nat
  PROVE  /\ Magnitude(p) \in Nat
         /\ Magnitude(p) = ((IF Exponent(p) = 0 THEN 0 ELSE 2 ^ FloatMantissa) + Mantissa(p))
                              * Ulp(Exponent(p))
<1>1. Exponent(p) \in Nat /\ Mantissa(p) \in Nat
  BY PatternOfFields, FloatPowers
<1>2. Ulp(Exponent(p)) \in Nat
  BY <1>1, UlpPositive
<1>3. CASE Exponent(p) = 0
  BY <1>1, <1>3 DEF Magnitude, Ulp
<1>4. CASE Exponent(p) # 0
  <2> DEFINE n == 2 ^ FloatMantissa + Mantissa(p)
  <2>1. n \in Nat
    BY <1>1, FloatPowers
  <2>2. Magnitude(p) = n * Ulp(Exponent(p))
    BY <1>4 DEF Magnitude, Ulp
  <2>3. n * Ulp(Exponent(p)) \in Nat
    BY <1>2, <2>1, TimesNat
  <2> QED
    BY <1>4, <2>2, <2>3
<1> QED
  BY <1>3, <1>4

\* Up to the next exponent the magnitudes are evenly spaced.
LEMMA MagnitudeAfter ==
  ASSUME NEW p \in Nat, NEW d \in Nat, Mantissa(p) + d <= 2 ^ FloatMantissa,
         \/ Mantissa(p) + d < 2 ^ FloatMantissa
         \/ Exponent(p) + 1 < 2 ^ FloatExponent
  PROVE  /\ Magnitude(p + d) = Magnitude(p) + d * Ulp(Exponent(p))
         /\ Sign(p + d) = Sign(p)
<1> DEFINE s == Sign(p)
           e == Exponent(p)
           m == Mantissa(p)
           F == 2 ^ FloatMantissa
           u == Ulp(e)
           N == IF e = 0 THEN 0 ELSE F
<1>1. /\ s \in Nat /\ e \in 0 .. 2 ^ FloatExponent - 1 /\ m \in 0 .. F - 1
      /\ p = Pattern(s, e, m)
  BY PatternOfFields
<1>2. u \in Nat /\ F \in Nat /\ F > 0 /\ e \in Nat /\ 2 ^ FloatExponent \in Nat
  BY <1>1, UlpPositive, FloatPowers
<1>3. Magnitude(p) = (N + m) * u
  BY MagnitudeOfFields
<1>4. CASE m + d < F
  <2>1. p + d = Pattern(s, e, m + d)
    <3>1. \A G \in Nat : s * G + e * F + m + d = s * G + e * F + (m + d)
      BY <1>1, <1>2
    <3> QED
      BY <1>1, <3>1, FloatPowers DEF Pattern
  <2>2. m + d \in 0 .. F - 1
    BY <1>1, <1>2, <1>4
  <2>3. Sign(p + d) = s /\ Exponent(p + d) = e /\ Mantissa(p + d) = m + d
    BY <1>1, <2>1, <2>2, FieldsOfPattern
  <2>4. Magnitude(p + d) = (N + (m + d)) * u
    BY <2>3, MagnitudeOfFields
  <2>5. \A a, b, c, v \in Nat : (a + (b + c)) * v = (a + b) * v + c * v
    OBVIOUS
  <2>6. N \in Nat /\ m \in Nat
    BY <1>1, <1>2
  <2> HIDE DEF N, u, m
  <2>7. (N + (m + d)) * u = (N + m) * u + d * u
    BY <1>2, <2>5, <2>6
  <2> QED
    BY <1>3, <2>3, <2>4, <2>7 DEF u
<1>5. CASE m + d = F /\ e + 1 < 2 ^ FloatExponent
  <2>1. p + d = Pattern(s, e + 1, 0)
    <3>1. p + d = s * 2 ^ (FloatExponent + FloatMantissa) + e * F + F
      BY <1>1, <1>2, <1>5, FloatPowers DEF Pattern
    <3>2. e * F + F = (e + 1) * F
      BY <1>1, <1>2
    <3> QED
      BY <1>1, <1>2, <3>1, <3>2, FloatPowers DEF Pattern
  <2>2. e + 1 \in 0 .. 2 ^ FloatExponent - 1 /\ 0 \in 0 .. 2 ^ FloatMantissa - 1
    BY <1>1, <1>2, <1>5
  <2>3. Sign(p + d) = s /\ Exponent(p + d) = e + 1 /\ Mantissa(p + d) = 0
    BY <1>1, <2>1, <2>2, FieldsOfPattern
  <2>4. Magnitude(p + d) = F * Ulp(e + 1)
    BY <1>1, <1>2, <2>3, MagnitudeOfFields
  <2>5. Ulp(e + 1) \in Nat /\ m \in Nat
    BY <1>1, <1>2, UlpPositive
  <2>6. CASE e = 0
    <3>1. Ulp(e + 1) = 1 /\ u = 1 /\ N = 0
      BY <2>6, PowerZero DEF Ulp
    <3> HIDE DEF u, N, m
    <3> QED
      BY <1>2, <1>3, <1>5, <2>3, <2>4, <2>5, <3>1 DEF u
  <2>7. CASE e # 0
    <3>1. Ulp(e + 1) = 2 * u /\ N = F
      BY <1>2, <2>7, UlpNext
    <3>2. \A a, b, c, v \in Nat : b + c = a => a * (2 * v) = (a + b) * v + c * v
      <4>1. TAKE a, b, c, v \in Nat
      <4>2. HAVE b + c = a
      <4>3. (a + b) * v + c * v = a * v + (b + c) * v
        OBVIOUS
      <4> QED
        BY <4>2, <4>3
    <3> HIDE DEF u, N, m, F
    <3>3. F * (2 * u) = (F + m) * u + d * u
      BY <1>2, <1>5, <2>5, <3>2
    <3> QED
      BY <1>3, <2>3, <2>4, <3>1, <3>3 DEF u
  <2> QED
    BY <2>6, <2>7
<1> QED
  BY <1>1, <1>2, <1>4, <1>5

-----------------------------------------------------------------------------
\* One is the float 1 in the smallest positive floats.
LEMMA OneIs ==
  /\ FloatBias - 1 \in Nat
  /\ 2 ^ (FloatBias - 1) \in Nat /\ 2 ^ (FloatBias - 1) >= 1
  /\ One = 2 ^ FloatMantissa * 2 ^ (FloatBias - 1)
  /\ One \in Nat /\ One > 0
<1>1. FloatBias - 1 \in Nat
  BY Biases, Widths
<1>2. FloatBias + FloatMantissa - 1 = FloatMantissa + (FloatBias - 1)
  BY Biases, Widths
<1>3. One = 2 ^ FloatMantissa * 2 ^ (FloatBias - 1)
  BY <1>1, <1>2, Widths, PowerOfSum DEF One
<1>4. FloatMantissa + (FloatBias - 1) \in Nat
  BY <1>1, Widths
<1>5. One \in Nat /\ One >= 1
  BY <1>2, <1>4, PowerPositive DEF One
<1> QED
  BY <1>1, <1>3, <1>5, PowerPositive

\* low is the last float that is at most 1/n.
IsLow(low, n) ==
  /\ Sign(low) = 0
  /\ Magnitude(low) * n <= One /\ One < Magnitude(low + 1) * n

\* There is such a float, so the CHOOSE of Scale finds one.
LEMMA LowExists ==
  ASSUME NEW n \in Nat, n > 0
  PROVE  \E low \in FloatPatterns : IsLow(low, n)
<1> DEFINE F == 2 ^ FloatMantissa
           top == Pattern(0, FloatBias, 0)
           S == {p \in Nat : p <= top /\ One < Magnitude(p + 1) * n}
<1>1. /\ F \in Nat /\ F > 1 /\ 2 ^ FloatExponent \in Nat
      /\ FloatBias \in Nat /\ FloatBias > 0 /\ FloatBias + 1 < 2 ^ FloatExponent
  <2>1. FloatMantissa - 1 \in Nat /\ (FloatMantissa - 1) + 1 = FloatMantissa
    BY Widths
  <2>2. F = 2 * 2 ^ (FloatMantissa - 1)
    BY <2>1, PowerNext
  <2>3. 2 ^ (FloatMantissa - 1) \in Nat /\ 2 ^ (FloatMantissa - 1) >= 1
    BY <2>1, PowerPositive
  <2> QED
    BY <2>2, <2>3, FloatPowers, Biases, Widths
<1>2. top \in Nat /\ Sign(top) = 0 /\ Exponent(top) = FloatBias /\ Mantissa(top) = 0
  <2>1. FloatBias \in 0 .. 2 ^ FloatExponent - 1 /\ 0 \in 0 .. 2 ^ FloatMantissa - 1
    BY <1>1
  <2> QED
    BY <2>1, FieldsOfPattern
<1>3. Ulp(FloatBias) = 2 ^ (FloatBias - 1)
  BY <1>1 DEF Ulp
<1>4. Magnitude(top) = One
  BY <1>1, <1>2, <1>3, OneIs, MagnitudeOfFields
<1>5. Magnitude(top + 1) = One + Ulp(FloatBias)
  BY <1>1, <1>2, <1>4, MagnitudeAfter, UlpPositive
<1>6. top \in S
  <2>1. Magnitude(top + 1) \in Nat /\ Magnitude(top + 1) > One
    BY <1>1, <1>5, UlpPositive, OneIs
  <2>2. Magnitude(top + 1) * 1 <= Magnitude(top + 1) * n
    BY <2>1, TimesMonotone
  <2> QED
    BY <1>2, <2>1, <2>2, OneIs
<1>7. PICK low \in S : \A p \in S : low <= p
  <2>1. S \in SUBSET Nat /\ S # {}
    BY <1>6
  <2> QED
    BY <2>1, LeastNumber
<1>8. Magnitude(low) * n <= One
  <2>1. CASE low = 0
    <3>1. 0 = Pattern(0, 0, 0)
      BY FloatPowers DEF Pattern
    <3>2. Exponent(low) = 0 /\ Mantissa(low) = 0
      BY <2>1, <3>1, <1>1, FieldsOfPattern
    <3>3. Magnitude(low) = 0
      BY <3>2 DEF Magnitude
    <3> QED
      BY <3>3, OneIs
  <2>2. CASE low # 0
    <3>1. low - 1 \in Nat /\ low - 1 <= top /\ low - 1 \notin S /\ (low - 1) + 1 = low
      BY <1>2, <1>7, <2>2
    <3>2. Magnitude(low) \in Nat
      BY <1>7, MagnitudeOfFields
    <3>3. ~(One < Magnitude((low - 1) + 1) * n)
      BY <3>1
    <3>4. Magnitude(low) * n \in Nat
      BY <3>2, TimesNat
    <3> QED
      BY <3>1, <3>3, <3>4, OneIs
  <2> QED
    BY <2>1, <2>2
<1>9. low < 2 ^ (FloatExponent + FloatMantissa)
  <2> DEFINE E == 2 ^ FloatExponent
  <2>1. top = FloatBias * F
    BY <1>1, FloatPowers DEF Pattern
  <2>2. FloatBias * F < E * F
    BY <1>1, TimesStrict
  <2> QED
    BY <1>2, <1>7, <2>1, <2>2, FloatPowers
<1>10. Sign(low) = 0
  <2> DEFINE G == 2 ^ (FloatExponent + FloatMantissa)
  <2>1. G \in Nat /\ G > 0 /\ low \in Nat /\ low < G
    BY <1>7, <1>9, FloatPowers
  <2> HIDE DEF G
  <2>2. low = G * 0 + low
    BY <2>1
  <2>3. low \div G = 0
    BY <2>1, <2>2, DivModUnique
  <2> QED
    BY <2>3 DEF G, Sign
<1>11. low \in FloatPatterns
  BY <1>7, <1>9, FloatPowers DEF FloatPatterns
<1> QED
  BY <1>7, <1>8, <1>10, <1>11 DEF IsLow

\* Scale(n) is M or M + u, whichever is nearer to One / n.
Nearest(s, n, e, m) ==
  LET u == 2 ^ (e - 1)
      M == (2 ^ FloatMantissa + m) * u
  IN  /\ M * n <= One /\ One < (M + u) * n
      /\ \/ s = M /\ 2 * One <= n * (M + (M + u))
         \/ s = M + u /\ n * (M + (M + u)) <= 2 * One

\* The scale is that float or the next one.
LEMMA ScaleIsNearest ==
  ASSUME NEW n \in Nat, n > 0, n <= 2 ^ (FloatBias - 1)
  PROVE  \E e \in Nat \ {0} : \E m \in 0 .. 2 ^ FloatMantissa - 1 :
           Nearest(Magnitude(Scale(n)), n, e, m)
<1> DEFINE low == CHOOSE p \in FloatPatterns :
                    /\ Sign(p) = 0
                    /\ Magnitude(p) * n <= One /\ One < Magnitude(p + 1) * n
           F == 2 ^ FloatMantissa
<1>1. low \in FloatPatterns /\ IsLow(low, n)
  BY LowExists DEF IsLow
<1>2. Scale(n) =
        LET rest == 2 * One - n * (Magnitude(low) + Magnitude(low + 1))
        IN  IF rest > 0 \/ (rest = 0 /\ low % 2 = 1) THEN low + 1 ELSE low
  BY DEF Scale
<1> HIDE DEF low
<1>3. low \in Nat
  BY <1>1, FloatPowers DEF FloatPatterns
<1> DEFINE e == Exponent(low)
           m == Mantissa(low)
           M == Magnitude(low)
           u == Ulp(e)
<1>4. /\ e \in 0 .. 2 ^ FloatExponent - 1 /\ m \in 0 .. F - 1 /\ Sign(low) = 0
      /\ low = Pattern(0, e, m)
  BY <1>1, <1>3, PatternOfFields DEF IsLow
<1>5. F \in Nat /\ F > 0 /\ e \in Nat /\ M \in Nat /\ u \in Nat /\ u > 0
  BY <1>3, <1>4, FloatPowers, UlpPositive, MagnitudeOfFields
<1>6. m + 1 < F \/ e + 1 < 2 ^ FloatExponent
  <2>1. SUFFICES ASSUME m = F - 1, e = 2 ^ FloatExponent - 1 PROVE FALSE
    BY <1>4, <1>5, FloatPowers
  <2>2. low + 1 = 2 ^ (FloatExponent + FloatMantissa)
    <3> DEFINE E == 2 ^ FloatExponent
    <3>1. low = (E - 1) * F + (F - 1)
      BY <1>4, <2>1, FloatPowers DEF Pattern
    <3>2. (E - 1) * F = E * F - F /\ E * F \in Nat
      BY <1>5, FloatPowers
    <3> QED
      BY <1>5, <3>1, <3>2, FloatPowers
  <2>3. low + 1 = Pattern(1, 0, 0)
    BY <2>2, FloatPowers DEF Pattern
  <2>4. Exponent(low + 1) = 0 /\ Mantissa(low + 1) = 0
    BY <2>3, FloatPowers, FieldsOfPattern
  <2>5. Magnitude(low + 1) = 0
    BY <2>4 DEF Magnitude
  <2> QED
    BY <1>1, <2>5, OneIs DEF IsLow
<1>7. Magnitude(low + 1) = M + u
  <2>1. m + 1 <= F
    BY <1>4, <1>5
  <2>2. Magnitude(low + 1) = M + 1 * u
    BY <1>3, <1>6, <2>1, MagnitudeAfter
  <2> QED
    BY <1>5, <2>2
<1>8. e # 0
  <2>1. SUFFICES ASSUME e = 0 PROVE FALSE
    OBVIOUS
  <2>2. M + u <= F
    BY <1>4, <2>1, <1>5 DEF Magnitude, Ulp
  <2>3. (M + u) * n <= F * n /\ F * n <= F * 2 ^ (FloatBias - 1)
    BY <1>5, <2>2, OneIs, TimesMonotone
  <2>4. (M + u) * n \in Nat /\ F * n \in Nat
    BY <1>5
  <2> QED
    BY <1>1, <1>7, <2>3, <2>4, OneIs DEF IsLow
<1>9. u = 2 ^ (e - 1) /\ M = (F + m) * u
  BY <1>3, <1>8, MagnitudeOfFields DEF Ulp
<1>10. M * n <= One /\ One < (M + u) * n
  BY <1>1, <1>7 DEF IsLow
<1> DEFINE s == Magnitude(Scale(n))
           rest == 2 * One - n * (M + (M + u))
<1>11. n * (M + (M + u)) \in Nat
  BY <1>5
<1>12. s = (IF rest > 0 \/ (rest = 0 /\ low % 2 = 1) THEN M + u ELSE M)
  BY <1>2, <1>7
<1> HIDE DEF s, M, u, e, m
<1>13. \/ s = M /\ 2 * One <= n * (M + (M + u))
       \/ s = M + u /\ n * (M + (M + u)) <= 2 * One
  BY <1>11, <1>12, OneIs
<1>14. Nearest(s, n, e, m)
  BY <1>9, <1>10, <1>13 DEF Nearest
<1> QED
  BY <1>4, <1>5, <1>8, <1>14 DEF s

\* No float is strictly between the two.
LEMMA NoneBetween ==
  ASSUME NEW g \in Nat, g > 0, NEW a \in Nat, NEW b \in Nat, a * g <= b * g, b * g < (a + 1) * g
  PROVE  a * g = b * g
<1>1. ~(b + 1 <= a)
  <2>1. SUFFICES ASSUME b + 1 <= a PROVE FALSE
    OBVIOUS
  <2>2. b * g < a * g
    BY <2>1, TimesStrict
  <2> QED
    BY <2>2, TimesNat
<1>2. ~(a + 1 <= b)
  <2>1. SUFFICES ASSUME a + 1 <= b PROVE FALSE
    OBVIOUS
  <2>2. (a + 1) * g <= b * g
    BY <2>1, TimesMonotone
  <2> QED
    BY <2>2, TimesNat
<1> QED
  BY <1>1, <1>2

\* 1/n is a float if n is a power of two.
LEMMA PowersHaveExactScale ==
  ASSUME NEW k \in Nat, 2 ^ k <= 2 ^ (FloatBias - 1)
  PROVE  Magnitude(Scale(2 ^ k)) * 2 ^ k = One
<1> DEFINE n == 2 ^ k
           F == 2 ^ FloatMantissa
           s == Magnitude(Scale(n))
<1>1. n \in Nat /\ n > 0 /\ F \in Nat /\ F > 0
  BY PowerPositive, FloatPowers
<1>2. PICK e \in Nat \ {0}, m \in 0 .. F - 1 : Nearest(s, n, e, m)
  BY <1>1, ScaleIsNearest
<1> DEFINE u == 2 ^ (e - 1)
           M == (F + m) * u
           g == n * u
           j == FloatBias - (k + e)
<1>3. /\ M * n <= One /\ One < (M + u) * n
      /\ \/ s = M /\ 2 * One <= n * (M + (M + u))
         \/ s = M + u /\ n * (M + (M + u)) <= 2 * One
  BY <1>2 DEF Nearest
<1>4. e - 1 \in Nat /\ k + (e - 1) \in Nat /\ FloatBias - 1 \in Nat
  BY OneIs
<1>5. u \in Nat /\ u > 0 /\ g = 2 ^ (k + (e - 1)) /\ g \in Nat /\ g > 0
  <2>1. u \in Nat /\ u >= 1
    BY <1>4, PowerPositive
  <2>2. g = 2 ^ (k + (e - 1))
    BY <1>4, PowerOfSum
  <2>3. 2 ^ (k + (e - 1)) \in Nat /\ 2 ^ (k + (e - 1)) >= 1
    BY <1>4, PowerPositive
  <2> QED
    BY <2>1, <2>2, <2>3
<1>6. F + m \in Nat /\ F + m >= F
  BY <1>1
<1>7. M * n = (F + m) * g /\ (M + u) * n = ((F + m) + 1) * g
  <2>1. \A a, b, c \in Nat : (a * b) * c = a * (c * b) /\ (a * b + b) * c = (a + 1) * (c * b)
    OBVIOUS
  <2> HIDE DEF u, n, F
  <2> QED
    BY <1>1, <1>5, <1>6, <2>1
<1>8. j \in Nat
  <2>1. SUFFICES ASSUME j < 0 PROVE FALSE
    BY <1>4, Biases
  <2> DEFINE h == (k + (e - 1)) - (FloatBias - 1)
  <2>2. h \in Nat /\ h > 0 /\ (FloatBias - 1) + h = k + (e - 1)
    BY <1>4, <2>1, Biases
  <2>3. g = 2 ^ (FloatBias - 1) * 2 ^ h
    BY <1>4, <1>5, <2>2, PowerOfSum
  <2>4. 2 ^ h >= 2 /\ 2 ^ h \in Nat
    <3>1. h - 1 \in Nat /\ (h - 1) + 1 = h
      BY <2>2
    <3>2. 2 ^ h = 2 * 2 ^ (h - 1) /\ 2 ^ (h - 1) \in Nat /\ 2 ^ (h - 1) >= 1
      <4>1. 2 ^ ((h - 1) + 1) = 2 * 2 ^ (h - 1)
        BY <3>1, PowerNext
      <4> QED
        BY <3>1, <4>1, PowerPositive
    <3> QED
      BY <3>2
  <2> DEFINE b == 2 ^ (FloatBias - 1)
  <2>5. b \in Nat /\ b >= 1 /\ One = F * b /\ One \in Nat /\ One > 0
    BY OneIs
  <2>6. b * 2 <= g
    BY <2>3, <2>4, <2>5, TimesMonotone
  <2>7. F * (b * 2) <= F * g /\ F * g <= (F + m) * g
    BY <1>1, <1>5, <1>6, <2>5, <2>6, TimesMonotone
  <2>8. F * (b * 2) = 2 * One
    BY <1>1, <2>5
  <2>9. F * g \in Nat /\ (F + m) * g \in Nat
    BY <1>1, <1>5, <1>6
  <2> QED
    BY <1>3, <1>7, <2>5, <2>7, <2>8, <2>9
<1>9. One = (F * 2 ^ j) * g
  <2>1. j + (k + (e - 1)) = FloatBias - 1
    BY <1>4, Biases
  <2>2. 2 ^ (FloatBias - 1) = 2 ^ j * g
    BY <1>4, <1>5, <1>8, <2>1, PowerOfSum
  <2>3. 2 ^ j \in Nat
    BY <1>8, PowerNat
  <2>4. \A a, b, c \in Nat : a * (b * c) = (a * b) * c
    OBVIOUS
  <2> HIDE DEF g, F, j
  <2> QED
    BY <1>1, <1>5, <2>2, <2>3, <2>4, OneIs DEF F
<1>10. M * n = One
  <2> DEFINE a == F + m
             b == F * 2 ^ j
  <2>1. b \in Nat /\ a \in Nat
    BY <1>1, <1>6, <1>8, PowerNat
  <2>2. a * g <= b * g /\ b * g < (a + 1) * g
    BY <1>3, <1>7, <1>9
  <2>3. M * n = a * g /\ One = b * g
    BY <1>7, <1>9
  <2> HIDE DEF a, b, g
  <2>4. a * g = b * g
    BY <1>5, <2>1, <2>2, NoneBetween
  <2> QED
    BY <2>3, <2>4
<1>11. M \in Nat /\ n * u > 0 /\ n * u \in Nat
  BY <1>1, <1>5, <1>6
<1>12. s = M
  <2>1. n * (M + (M + u)) = M * n + (M * n + n * u)
    <3> HIDE DEF M, u, n
    <3> QED
      BY <1>1, <1>5, <1>11
  <2> QED
    BY <1>3, <1>10, <1>11, <2>1, OneIs
<1> QED
  BY <1>10, <1>12

-----------------------------------------------------------------------------
\* The scale misses 1/n by at most half a place.
LEMMA ScalePrecision ==
  ASSUME NEW n \in Nat, n > 0, n <= 2 ^ (FloatBias - 1)
  PROVE  LET s == Magnitude(Scale(n))
             F == 2 ^ FloatMantissa
         IN  /\ s \in Nat /\ s > 0 /\ s <= One
             /\ (2 * F) * (s * n - One) <= One /\ (2 * F) * (One - s * n) <= One
<1> DEFINE F == 2 ^ FloatMantissa
           s == Magnitude(Scale(n))
<1>1. F \in Nat /\ F > 0
  BY FloatPowers
<1>2. PICK e \in Nat \ {0}, m \in 0 .. F - 1 : Nearest(s, n, e, m)
  BY ScaleIsNearest
<1> DEFINE u == 2 ^ (e - 1)
           M == (F + m) * u
<1>3. /\ M * n <= One /\ One < (M + u) * n
      /\ \/ s = M /\ 2 * One <= n * (M + (M + u))
         \/ s = M + u /\ n * (M + (M + u)) <= 2 * One
  BY <1>2 DEF Nearest
<1>4. u \in Nat /\ u > 0
  <2>1. e - 1 \in Nat
    OBVIOUS
  <2> QED
    BY <2>1, PowerPositive
<1>5. M \in Nat /\ F * u \in Nat /\ F * u <= M /\ u <= F * u
  <2>1. F + m \in Nat /\ F <= F + m /\ 1 <= F
    BY <1>1
  <2>2. F * u <= (F + m) * u /\ 1 * u <= F * u
    BY <1>1, <1>4, <2>1, TimesMonotone
  <2> QED
    BY <1>1, <1>4, <2>1, <2>2
<1>6. One \in Nat /\ One > 0
  BY OneIs
<1> HIDE DEF F, s, u, M
<1> DEFINE X == M * n
           Y == u * n
<1>7. /\ X \in Nat /\ Y \in Nat /\ X <= One /\ One < X + Y
      /\ \/ s = M /\ s * n = X /\ 2 * One <= 2 * X + Y
         \/ s = M + u /\ s * n = X + Y /\ 2 * X + Y <= 2 * One
  BY <1>3, <1>4, <1>5
<1>8. F * Y <= One
  <2>1. (F * u) * n <= M * n
    BY <1>5, TimesMonotone
  <2>2. (F * u) * n = F * (u * n)
    BY <1>1, <1>4
  <2>3. F * (u * n) \in Nat
    BY <1>1, <1>4
  <2> QED
    BY <1>6, <1>7, <2>1, <2>2, <2>3
<1>9. s \in Nat /\ s > 0
  BY <1>4, <1>5, <1>7
<1>10. 2 * (s * n - One) <= Y /\ 2 * (One - s * n) <= Y
  <2> HIDE DEF X, Y
  <2>1. s * n \in Nat
    BY <1>9
  <2> QED
    BY <1>6, <1>7, <2>1
<1>11. (2 * F) * (s * n - One) <= One /\ (2 * F) * (One - s * n) <= One
  <2>1. s * n - One \in Int /\ One - s * n \in Int
    BY <1>6, <1>9
  <2>2. \A d \in Int : 2 * d <= Y => (2 * F) * d <= F * Y
    <3>1. TAKE d \in Int
    <3>2. HAVE 2 * d <= Y
    <3> HIDE DEF X, Y
    <3>3. F * (2 * d) <= F * Y
      BY <1>1, <1>7, <3>2, TimesMonotone
    <3>4. F * (2 * d) = (2 * F) * d
      BY <1>1
    <3> QED
      BY <3>3, <3>4
  <2>3. \A d \in Int : (2 * F) * d \in Int
    BY <1>1
  <2>4. F * Y \in Int
    BY <1>1, <1>7
  <2>5. \A d \in Int : 2 * d <= Y => (2 * F) * d <= One
    BY <1>6, <1>8, <2>2, <2>3, <2>4
  <2> QED
    BY <1>10, <2>1, <2>5
<1>12. s <= One
  <2>1. CASE n = 1
    <3>1. 2 ^ 0 = 1
      BY PowerZero
    <3>2. Magnitude(Scale(2 ^ 0)) * 2 ^ 0 = One
      BY <2>1, <3>1, PowersHaveExactScale
    <3>3. s * 1 = One
      BY <2>1, <3>1, <3>2 DEF s
    <3> QED
      BY <1>9, <3>3
  <2>2. CASE n >= 2
    <3>1. M * 2 <= M * n
      BY <1>5, <2>2, TimesMonotone
    <3> QED
      BY <1>4, <1>5, <1>6, <1>7, <3>1
  <2> QED
    BY <2>1, <2>2
<1> QED
  BY <1>9, <1>11, <1>12 DEF s, F

\* Products by what is not zero can be compared by their other factor.
LEMMA Cancel ==
  ASSUME NEW a \in Int, NEW b \in Int, NEW c \in Nat, c > 0
  PROVE  /\ c * a <= c * b => a <= b
         /\ c * a < c * b => a < b
<1>1. ~(a <= b) => c * b < c * a
  BY TimesStrict
<1>2. ~(a < b) => c * b <= c * a
  BY TimesMonotone
<1>3. c * a \in Int /\ c * b \in Int
  OBVIOUS
<1> QED
  BY <1>1, <1>2, <1>3

\* A quotient by a scale that is nearly 1 / n, of roundings that are nearly what
\* they round, is nearly the mean.
LEMMA NearlyTheMean ==
  ASSUME NEW x \in Nat, NEW n \in Nat, n > 0, NEW s \in Nat, NEW O \in Nat, O > 0,
         NEW g \in Nat, g > 0, NEW X \in Nat, NEW P \in Nat,
         (8 * g) * (X - x) <= x, (8 * g) * (x - X) <= x,
         (2 * g) * (s * n - O) <= O, (2 * g) * (O - s * n) <= O,
         (8 * g) * (P - X * s) <= X * s, (8 * g) * (X * s - P) <= X * s,
         NEW b \in Nat, NEW c \in Nat, c < O, P = O * b + c
  PROVE  LET error == Distance(b * n, x)
         IN  error \in Nat /\ (error < n \/ (error - n) * g < x)
<1> DEFINE y == (X * s) * n
           z == (x * s) * n
           t == x * O
           p == P * n
           A == (p - y) * g
           B == (y - z) * g
           C == (z - t) * g
<1>1. /\ y \in Nat /\ z \in Nat /\ t \in Nat /\ p \in Nat
      /\ A \in Int /\ B \in Int /\ C \in Int /\ X * s \in Nat /\ s * n \in Nat
      /\ (p - t) * g \in Int
  <2>1. \A i, j, k \in Nat : i * j \in Nat /\ (i - j) * k \in Int
    OBVIOUS
  <2>2. X * s \in Nat /\ x * s \in Nat /\ s * n \in Nat
    BY <2>1
  <2>3. y \in Nat /\ z \in Nat /\ t \in Nat /\ p \in Nat
    BY <2>1, <2>2
  <2> HIDE DEF y, z, t, p
  <2> QED
    BY <2>1, <2>2, <2>3
<1>2. 8 * A <= y /\ -(8 * A) <= y
  <2> DEFINE h == X * s
  <2>1. h \in Nat
    BY <1>1
  <2> HIDE DEF h
  <2>2. /\ ((8 * g) * (P - h)) * n <= h * n /\ ((8 * g) * (h - P)) * n <= h * n
    <3>1. (8 * g) * (P - h) \in Int /\ (8 * g) * (h - P) \in Int
      BY <2>1
    <3> QED
      BY <2>1, <3>1, TimesMonotone DEF h
  <2>3. /\ ((8 * g) * (P - h)) * n = 8 * ((P * n - h * n) * g)
        /\ ((8 * g) * (h - P)) * n = -(8 * ((P * n - h * n) * g))
    BY <2>1
  <2> QED
    BY <2>2, <2>3 DEF h
<1>3. 8 * B <= z /\ -(8 * B) <= z
  <2> DEFINE k == s * n
  <2>1. k \in Nat /\ z = x * k /\ y = X * k
    <3>1. \A i, j \in Nat : (i * s) * n = i * (s * n)
      OBVIOUS
    <3> QED
      BY <1>1, <3>1
  <2> HIDE DEF k, y, z
  <2>2. ((8 * g) * (X - x)) * k <= x * k /\ ((8 * g) * (x - X)) * k <= x * k
    <3>1. (8 * g) * (X - x) \in Int /\ (8 * g) * (x - X) \in Int
      OBVIOUS
    <3> QED
      BY <2>1, <3>1, TimesMonotone
  <2>3. /\ ((8 * g) * (X - x)) * k = 8 * ((X * k - x * k) * g)
        /\ ((8 * g) * (x - X)) * k = -(8 * ((X * k - x * k) * g))
    BY <2>1
  <2> QED
    BY <2>1, <2>2, <2>3
<1>4. 2 * C <= t /\ -(2 * C) <= t
  <2> DEFINE k == s * n
  <2>1. k \in Nat /\ z = x * k
    BY <1>1
  <2> HIDE DEF k, z
  <2>2. x * ((2 * g) * (k - O)) <= x * O /\ x * ((2 * g) * (O - k)) <= x * O
    <3>1. (2 * g) * (k - O) \in Int /\ (2 * g) * (O - k) \in Int
      BY <2>1
    <3> QED
      BY <2>1, <3>1, TimesMonotone DEF k
  <2>3. /\ x * ((2 * g) * (k - O)) = 2 * ((x * k - x * O) * g)
        /\ x * ((2 * g) * (O - k)) = -(2 * ((x * k - x * O) * g))
    BY <2>1
  <2> QED
    BY <2>1, <2>2, <2>3
<1> HIDE DEF A, B, C, y, z, t, p
<1>5. (y <= z \/ y - z <= B) /\ (z <= t \/ z - t <= C)
  <2>1. \A d \in Int : d >= 0 => d <= d * g
    <3>1. TAKE d \in Int
    <3>2. HAVE d >= 0
    <3>3. 1 <= g /\ d * 1 = d
      OBVIOUS
    <3> QED
      BY <3>2, <3>3, TimesMonotone
  <2>2. y - z \in Int /\ z - t \in Int
    BY <1>1
  <2>3. (y - z >= 0 => y - z <= B) /\ (z - t >= 0 => z - t <= C)
    BY <2>1, <2>2 DEF B, C
  <2> QED
    BY <1>1, <2>3
<1>6. (p - t) * g = A + B + C
  <2>1. \A i, j, k, l \in Nat :
          (i - l) * g = (i - j) * g + (j - k) * g + (k - l) * g
    OBVIOUS
  <2> QED
    BY <1>1, <2>1 DEF A, B, C
<1>7. (p - t) * g <= t /\ -t <= (p - t) * g
  BY <1>1, <1>2, <1>3, <1>4, <1>5, <1>6
<1> DEFINE e == b * n - x
<1>8. /\ e \in Int /\ c * n \in Nat /\ c * n < O * n /\ O * n \in Nat
      /\ p - t = O * e + c * n /\ O * e \in Int
  <2>1. c * n < O * n
    BY TimesStrict
  <2>2. p = O * (b * n) + c * n
    BY DEF p
  <2>3. O * (b * n - x) = O * (b * n) - x * O
    OBVIOUS
  <2>4. c * n \in Nat /\ O * n \in Nat /\ b * n \in Nat /\ O * (b * n) \in Nat /\ x * O \in Nat
    OBVIOUS
  <2> QED
    BY <2>1, <2>2, <2>3, <2>4 DEF t
<1>9. CASE e >= 0
  <2>1. Distance(b * n, x) = e /\ e \in Nat
    BY <1>8, <1>9 DEF Distance
  <2> HIDE DEF e
  <2>2. O * (e * g) <= O * x
    <3>1. (O * e) * g <= (p - t) * g
      BY <1>1, <1>8, TimesMonotone
    <3>2. (O * e) * g = O * (e * g) /\ t = O * x
      BY <1>8 DEF t
    <3>3. O * (e * g) \in Int
      BY <1>8
    <3> QED
      BY <1>1, <1>7, <3>1, <3>2, <3>3
  <2>3. e * g <= x
    <3>1. e * g \in Int
      BY <1>8
    <3> QED
      BY <2>2, <3>1, Cancel
  <2>4. (e - n) * g < x
    <3>1. (e - n) * g < e * g
      BY <1>8, TimesStrict
    <3>2. (e - n) * g \in Int /\ e * g \in Int
      BY <1>8
    <3> QED
      BY <2>3, <3>1, <3>2
  <2> QED
    BY <2>1, <2>4
<1>10. CASE e < 0
  <2> DEFINE f == 0 - e
  <2>1. Distance(b * n, x) = f /\ f \in Nat
    BY <1>8, <1>10 DEF Distance
  <2>2. O * (f - n) < 0 - (p - t)
    <3> HIDE DEF e
    <3>1. O * (f - n) = 0 - O * e - O * n
      BY <1>8
    <3> QED
      BY <1>1, <1>8, <3>1
  <2> HIDE DEF e, f
  <2>3. O * ((f - n) * g) < O * x
    <3>1. (O * (f - n)) * g < (0 - (p - t)) * g
      <4>1. O * (f - n) \in Int /\ 0 - (p - t) \in Int
        BY <1>1, <2>1
      <4> QED
        BY <2>2, <4>1, TimesStrict
    <3>2. (O * (f - n)) * g = O * ((f - n) * g) /\ t = O * x
      BY <2>1 DEF t
    <3>3. (0 - (p - t)) * g = 0 - (p - t) * g
      BY <1>1
    <3>4. O * ((f - n) * g) \in Int
      BY <2>1
    <3> QED
      BY <1>1, <1>7, <3>1, <3>2, <3>3, <3>4
  <2>4. (f - n) * g < x
    <3>1. (f - n) * g \in Int
      BY <2>1
    <3> QED
      BY <2>3, <3>1, Cancel
  <2> QED
    BY <2>1, <2>4
<1> QED
  BY <1>8, <1>9, <1>10

-----------------------------------------------------------------------------
\* No product of the loop is larger than the doubles the model has.
Widest == 2 ^ (DoubleMantissa + 1 + WidestProduct)

\* steps doubles of distance 2 ^ e make the one that is nearest to x.
IsNearest(x, e, steps) ==
  /\ DoubleUnit(x) = 2 ^ e /\ NearestDouble(x) = steps * 2 ^ e
  /\ x < 2 ^ (DoubleMantissa + 1 + e)
  /\ e > 0 => 2 ^ (DoubleMantissa + e) <= x
  /\ 2 * (steps * 2 ^ e - x) <= 2 ^ e /\ 2 * (x - steps * 2 ^ e) <= 2 ^ e
  /\ \A c \in Nat : x <= c * 2 ^ e => steps <= c
  /\ \A c \in Nat : x = c * 2 ^ e => steps = c

\* The CHOOSE of DoubleUnit finds a power of two.
LEMMA UnitExists ==
  ASSUME NEW x \in Nat, x < Widest
  PROVE  \E e \in Nat : /\ DoubleUnit(x) = 2 ^ e
                        /\ x < 2 ^ (DoubleMantissa + 1 + e)
                        /\ e > 0 => 2 ^ (DoubleMantissa + e) <= x
<1> DEFINE S == {e \in Nat : x < 2 ^ (DoubleMantissa + 1 + e)}
<1>1. WidestProduct \in Nat /\ DoubleMantissa \in Nat
  BY Widths, Biases, FormatAssumption DEF WidestProduct
<1>2. WidestProduct \in S
  BY <1>1 DEF Widest
<1>3. PICK l \in S : \A k \in S : l <= k
  <2>1. S \in SUBSET Nat /\ S # {}
    BY <1>2
  <2> QED
    BY <2>1, LeastNumber
<1>4. l \in 0 .. WidestProduct /\ x < 2 ^ (DoubleMantissa + 1 + l)
  BY <1>1, <1>2, <1>3
<1>5. ASSUME l > 0 PROVE 2 ^ (DoubleMantissa + l) <= x
  <2>1. l - 1 \in Nat /\ l - 1 \notin S
    BY <1>3, <1>5
  <2>2. ~(x < 2 ^ (DoubleMantissa + 1 + (l - 1)))
    BY <2>1
  <2>3. DoubleMantissa + 1 + (l - 1) = DoubleMantissa + l
    BY <1>1, <1>3
  <2>4. DoubleMantissa + l \in Nat
    BY <1>1, <1>3
  <2> QED
    BY <2>2, <2>3, <2>4, PowerNat
<1> HIDE DEF S
<1> DEFINE Q(e) == /\ x < 2 ^ (DoubleMantissa + 1 + e)
                   /\ e > 0 => 2 ^ (DoubleMantissa + e) <= x
           d == CHOOSE e \in 0 .. WidestProduct : Q(e)
<1>6. d \in 0 .. WidestProduct /\ Q(d)
  <2>1. \E e \in 0 .. WidestProduct : Q(e)
    BY <1>4, <1>5
  <2> HIDE DEF Q
  <2> QED
    BY <2>1
<1>7. DoubleUnit(x) = 2 ^ d
  BY DEF DoubleUnit
<1> HIDE DEF d
<1> QED
  BY <1>1, <1>6, <1>7

\* NearestDouble rounds to the nearest multiple of the unit.
LEMMA NearestExists ==
  ASSUME NEW x \in Nat, x < Widest
  PROVE  \E e, steps \in Nat : IsNearest(x, e, steps)
<1>1. PICK e \in Nat : /\ DoubleUnit(x) = 2 ^ e
                       /\ x < 2 ^ (DoubleMantissa + 1 + e)
                       /\ e > 0 => 2 ^ (DoubleMantissa + e) <= x
  BY UnitExists
<1> DEFINE u == 2 ^ e
           q == x \div u
           r == x % u
           up == 2 * r > u \/ (2 * r = u /\ q % 2 = 1)
           steps == IF up THEN q + 1 ELSE q
<1>2. u \in Nat /\ u > 0
  BY PowerPositive
<1>3. NearestDouble(x) = IF up THEN (q + 1) * u ELSE q * u
  BY <1>1 DEF NearestDouble
<1> HIDE DEF u
<1>4. q \in Nat /\ r \in Nat /\ r < u /\ x = u * q + r
  BY <1>2, DivMod
<1> HIDE DEF q, r
<1>5. steps \in Nat /\ NearestDouble(x) = steps * u
  BY <1>3, <1>4
<1>6. up => 2 * r >= u
  BY <1>2, <1>4
<1>7. ~up => 2 * r <= u
  BY <1>2, <1>4
<1> HIDE DEF up
<1> DEFINE Y == u * q
<1>8. Y \in Nat /\ q * u = Y /\ (q + 1) * u = Y + u /\ x = Y + r
  BY <1>2, <1>4
<1>9. 2 * (steps * u - x) <= u /\ 2 * (x - steps * u) <= u
  <2> HIDE DEF Y
  <2> QED
    BY <1>2, <1>4, <1>6, <1>7, <1>8
<1>10. ASSUME NEW c \in Nat, x <= c * u PROVE steps <= c
  <2>1. ~(c + 1 <= q)
    <3>1. SUFFICES ASSUME c + 1 <= q PROVE FALSE
      OBVIOUS
    <3>2. c * u < q * u
      BY <1>2, <1>4, <3>1, TimesStrict
    <3> HIDE DEF Y
    <3> QED
      BY <1>2, <1>4, <1>8, <1>10, <3>2, TimesNat
  <2>2. CASE c = q
    <3>1. r = 0
      <4> HIDE DEF Y
      <4> QED
        BY <1>4, <1>8, <1>10, <2>2
    <3>2. ~up
      BY <1>2, <1>6, <3>1
    <3> QED
      BY <1>4, <2>2, <3>2
  <2> QED
    BY <1>4, <2>1, <2>2
<1>11. ASSUME NEW c \in Nat, x = c * u PROVE steps = c
  <2>1. c * u \in Nat
    BY <1>2
  <2>2. steps <= c
    BY <1>10, <1>11, <2>1
  <2>3. x = u * c + 0 /\ u * c \in Nat
    BY <1>2, <1>11
  <2>4. x \div u = c
    BY <1>2, <2>3, DivModUnique
  <2> QED
    BY <1>4, <2>2, <2>4 DEF q
<1> HIDE DEF steps
<1>12. IsNearest(x, e, steps)
  BY <1>1, <1>5, <1>9, <1>10, <1>11 DEF IsNearest, u
<1> QED
  BY <1>5, <1>12

\* A double misses what it stands for by at most half a unit.
LEMMA DoublePrecision ==
  ASSUME NEW x \in Nat, x < Widest
  PROVE  LET T == 8 * 2 ^ FloatMantissa
             X == NearestDouble(x)
         IN  X \in Nat /\ T * (X - x) <= x /\ T * (x - X) <= x
<1>1. PICK e, steps \in Nat : IsNearest(x, e, steps)
  BY NearestExists
<1> DEFINE T == 8 * 2 ^ FloatMantissa
           X == NearestDouble(x)
           u == 2 ^ e
           M == 2 ^ DoubleMantissa
<1>2. u \in Nat /\ u > 0 /\ M \in Nat /\ M > 0 /\ DoubleMantissa \in Nat
      /\ T \in Nat /\ T <= 2 * M
  <2>1. FloatMantissa + 2 \in Nat /\ DoubleMantissa \in Nat
        /\ FloatMantissa + 2 <= DoubleMantissa /\ FloatMantissa + 1 \in Nat
    BY Widths, FormatAssumption
  <2>2. 2 ^ (FloatMantissa + 2) <= M
    BY <2>1, PowerMonotone
  <2>3. 2 ^ ((FloatMantissa + 1) + 1) = 2 * 2 ^ (FloatMantissa + 1)
        /\ 2 ^ (FloatMantissa + 1) = 2 * 2 ^ FloatMantissa
    BY <2>1, Widths, PowerNext
  <2>4. (FloatMantissa + 1) + 1 = FloatMantissa + 2
    BY <2>1, Widths
  <2>5. 2 ^ FloatMantissa \in Nat /\ M \in Nat /\ M >= 1 /\ u \in Nat /\ u >= 1
    BY <2>1, Widths, PowerPositive
  <2> HIDE DEF M, u
  <2> QED
    BY <2>1, <2>2, <2>3, <2>4, <2>5
<1>3. X = steps * u /\ 2 * (X - x) <= u /\ 2 * (x - X) <= u /\ X \in Nat
  <2>1. steps * u \in Nat
    BY <1>2
  <2> QED
    BY <1>1, <2>1 DEF IsNearest
<1>4. CASE e = 0
  <2>1. u = 1
    BY <1>4, PowerZero
  <2>2. X = x
    <3> HIDE DEF X, u
    <3> QED
      BY <1>3, <2>1
  <2> HIDE DEF X, T
  <2>3. X - x = 0 /\ x - X = 0 /\ T * 0 = 0
    BY <1>2, <2>2
  <2> QED
    BY <1>3, <2>3 DEF X, T
<1>5. CASE e > 0
  <2>1. M * u <= x
    <3>1. 2 ^ (DoubleMantissa + e) = M * u
      BY <1>2, PowerOfSum
    <3> QED
      BY <1>1, <1>5, <3>1 DEF IsNearest
  <2> HIDE DEF X, T, u, M
  <2>2. ASSUME NEW d \in Int, 2 * d <= u PROVE T * d <= x
    <3>1. CASE d <= 0
      <4>1. T * d <= T * 0 /\ T * 0 = 0 /\ T * d \in Int
        BY <1>2, <3>1, TimesMonotone
      <4> QED
        BY <4>1
    <3>2. CASE d > 0
      <4>1. d \in Nat /\ T * d <= (2 * M) * d
        BY <1>2, <3>2, TimesMonotone
      <4>2. M * (2 * d) <= M * u
        BY <1>2, <2>2, TimesMonotone
      <4>3. (2 * M) * d = M * (2 * d) /\ M * (2 * d) \in Int /\ M * u \in Int /\ T * d \in Int
        BY <1>2
      <4> QED
        BY <2>1, <4>1, <4>2, <4>3
    <3> QED
      BY <3>1, <3>2
  <2>3. X - x \in Int /\ x - X \in Int
    BY <1>3
  <2> QED
    BY <1>3, <2>2, <2>3 DEF X, T
<1> QED
  BY <1>4, <1>5

\* No rounding passes a power of two.
LEMMA DoubleBound ==
  ASSUME NEW x \in Nat, x < Widest, NEW k \in Nat, x <= 2 ^ k
  PROVE  NearestDouble(x) <= 2 ^ k
<1>1. PICK e, steps \in Nat : IsNearest(x, e, steps)
  BY NearestExists
<1>2. DoubleMantissa \in Nat
  BY FormatAssumption
<1>3. e <= k
  <2>1. CASE e = 0
    BY <2>1
  <2>2. CASE e > 0
    <3>1. 2 ^ (DoubleMantissa + e) <= 2 ^ k
      <4>1. DoubleMantissa + e \in Nat
        BY <1>2
      <4> QED
        BY <1>1, <2>2, <4>1, PowerNat DEF IsNearest
    <3>2. SUFFICES ASSUME k + 1 <= e PROVE FALSE
      OBVIOUS
    <3>3. k + 1 <= DoubleMantissa + e /\ k + 1 \in Nat /\ DoubleMantissa + e \in Nat
      BY <1>2, <3>2
    <3>4. 2 ^ (k + 1) <= 2 ^ (DoubleMantissa + e)
      BY <3>3, PowerMonotone
    <3>5. 2 ^ (k + 1) = 2 * 2 ^ k /\ 2 ^ k \in Nat /\ 2 ^ k >= 1
      BY PowerNext, PowerPositive
    <3>6. 2 ^ (DoubleMantissa + e) \in Nat
      BY <3>3, PowerNat
    <3> QED
      BY <3>1, <3>4, <3>5, <3>6
  <2> QED
    BY <2>1, <2>2
<1> DEFINE c == 2 ^ (k - e)
           u == 2 ^ e
<1>4. k - e \in Nat /\ (k - e) + e = k
  BY <1>3
<1>5. c \in Nat /\ u \in Nat /\ 2 ^ k = c * u
  BY <1>4, PowerNat, PowerOfSum
<1>6. steps <= c
  BY <1>1, <1>5 DEF IsNearest
<1>7. NearestDouble(x) = steps * u
  BY <1>1 DEF IsNearest
<1> HIDE DEF c, u
<1> QED
  BY <1>5, <1>6, <1>7, TimesMonotone

\* A number of few digits and zeros behind is a double.
LEMMA ExactDouble ==
  ASSUME NEW a \in Nat, NEW j \in Nat, a <= 2 ^ (DoubleMantissa + 1), a * 2 ^ j < Widest
  PROVE  NearestDouble(a * 2 ^ j) = a * 2 ^ j
<1> DEFINE x == a * 2 ^ j
<1>1. x \in Nat /\ x < Widest /\ 2 ^ j \in Nat /\ 2 ^ j > 0
  BY PowerPositive
<1>2. PICK e, steps \in Nat : IsNearest(x, e, steps)
  BY <1>1, NearestExists
<1>3. DoubleMantissa \in Nat /\ DoubleMantissa + 1 \in Nat /\ DoubleMantissa + e \in Nat
  BY FormatAssumption
<1> DEFINE M == 2 ^ (DoubleMantissa + 1)
<1>4. M \in Nat /\ M > 0
  BY <1>3, PowerPositive
<1>5. SUFFICES \E c \in Nat : x = c * 2 ^ e
  <2>1. PICK c \in Nat : x = c * 2 ^ e
    BY <1>5
  <2>2. steps = c
    BY <1>2, <2>1 DEF IsNearest
  <2> QED
    BY <1>2, <2>1, <2>2 DEF IsNearest
<1>6. CASE e <= j
  <2>1. j - e \in Nat /\ (j - e) + e = j
    BY <1>6
  <2>2. 2 ^ j = 2 ^ (j - e) * 2 ^ e /\ 2 ^ (j - e) \in Nat /\ 2 ^ e \in Nat
    BY <2>1, PowerOfSum, PowerNat
  <2>3. \A k, l, m \in Nat : k * (l * m) = (k * l) * m /\ k * l \in Nat
    OBVIOUS
  <2>4. x = (a * 2 ^ (j - e)) * 2 ^ e /\ a * 2 ^ (j - e) \in Nat
    BY <2>2, <2>3
  <2> QED
    BY <2>4
<1>7. CASE e > j
  <2>1. 2 ^ (DoubleMantissa + e) <= x
    BY <1>2, <1>7 DEF IsNearest
  <2> DEFINE h == e - (j + 1)
  <2>2. h \in Nat /\ DoubleMantissa + e = (DoubleMantissa + 1) + (j + h) /\ j + h \in Nat
    BY <1>3, <1>7
  <2> HIDE DEF h
  <2>3. 2 ^ (DoubleMantissa + e) = M * (2 ^ j * 2 ^ h) /\ 2 ^ h \in Nat /\ 2 ^ h >= 1
    <3>1. 2 ^ (j + h) = 2 ^ j * 2 ^ h
      BY <2>2, PowerOfSum
    <3>2. 2 ^ ((DoubleMantissa + 1) + (j + h)) = M * 2 ^ (j + h)
      BY <1>3, <2>2, PowerOfSum
    <3> QED
      BY <2>2, <3>1, <3>2, PowerPositive
  <2>4. \E c \in Nat : x = c * M /\ c = 2 ^ j
    <3> DEFINE J == 2 ^ j
               H == 2 ^ h
    <3>1. J \in Nat /\ J > 0 /\ H \in Nat /\ H >= 1 /\ M * (J * H) <= a * J /\ a <= M
      BY <1>1, <2>1, <2>3
    <3> HIDE DEF J, H, M
    <3>2. M * J <= M * (J * H)
      <4>1. J * 1 <= J * H /\ J * 1 = J /\ J * H \in Nat
        BY <3>1, TimesMonotone
      <4> QED
        BY <1>4, <3>1, <4>1, TimesMonotone
    <3>3. a * J <= M * J
      BY <1>4, <3>1, TimesMonotone
    <3>4. a * J = M * J
      BY <1>4, <3>1, <3>2, <3>3, TimesNat
    <3>5. a * J = J * M
      BY <1>4, <3>1, <3>4
    <3> QED
      BY <3>1, <3>5 DEF J
  <2>5. x = 2 ^ j * M
    BY <2>4
  <2>6. e = j + 1 \/ e > j + 1
    BY <1>7
  <2>7. CASE e = j + 1
    <3>1. x = 2 ^ DoubleMantissa * 2 ^ e /\ 2 ^ DoubleMantissa \in Nat
      <4>1. M = 2 * 2 ^ DoubleMantissa /\ 2 ^ e = 2 * 2 ^ j /\ 2 ^ DoubleMantissa \in Nat
        BY <1>3, <2>7, PowerNext, PowerNat
      <4>2. \A k, l \in Nat : k * (2 * l) = l * (2 * k)
        OBVIOUS
      <4> QED
        BY <1>1, <2>5, <4>1, <4>2
    <3> QED
      BY <3>1
  <2>8. CASE e > j + 1
    <3>1. 2 ^ (DoubleMantissa + e) <= 2 ^ ((DoubleMantissa + 1) + j)
      <4>1. 2 ^ ((DoubleMantissa + 1) + j) = M * 2 ^ j
        BY <1>3, PowerOfSum
      <4>2. M * 2 ^ j = 2 ^ j * M
        BY <1>1, <1>4
      <4> QED
        BY <2>1, <2>5, <4>1, <4>2
    <3>2. (DoubleMantissa + 1) + j \in Nat /\ ((DoubleMantissa + 1) + j) + 1 <= DoubleMantissa + e
      BY <1>3, <2>8
    <3>3. 2 ^ (((DoubleMantissa + 1) + j) + 1) <= 2 ^ (DoubleMantissa + e)
      BY <1>3, <3>2, PowerMonotone
    <3> DEFINE z == 2 ^ ((DoubleMantissa + 1) + j)
    <3>4. 2 ^ (((DoubleMantissa + 1) + j) + 1) = 2 * z /\ z \in Nat /\ z >= 1
      BY <3>2, PowerNext, PowerPositive
    <3>5. 2 ^ (DoubleMantissa + e) \in Nat
      BY <1>3, PowerNat
    <3> HIDE DEF z
    <3> QED
      BY <3>1, <3>3, <3>4, <3>5 DEF z
  <2> QED
    BY <2>6, <2>7, <2>8
<1> QED
  BY <1>6, <1>7

\* What rounding gives has few digits and zeros behind.
LEMMA DoubleDigits ==
  ASSUME NEW x \in Nat, x < Widest
  PROVE  \E a, j \in Nat : a <= 2 ^ (DoubleMantissa + 1) /\ NearestDouble(x) = a * 2 ^ j
<1>1. PICK e, steps \in Nat : IsNearest(x, e, steps)
  BY NearestExists
<1>2. DoubleMantissa + 1 \in Nat /\ DoubleMantissa + 1 + e = (DoubleMantissa + 1) + e
  BY FormatAssumption
<1>3. 2 ^ (DoubleMantissa + 1 + e) = 2 ^ (DoubleMantissa + 1) * 2 ^ e
      /\ 2 ^ (DoubleMantissa + 1) \in Nat /\ 2 ^ e \in Nat
  BY <1>2, PowerOfSum, PowerNat
<1>4. x <= 2 ^ (DoubleMantissa + 1) * 2 ^ e
  <2>1. 2 ^ (DoubleMantissa + 1) * 2 ^ e \in Nat
    BY <1>3
  <2> QED
    BY <1>1, <1>3, <2>1 DEF IsNearest
<1>5. steps <= 2 ^ (DoubleMantissa + 1)
  BY <1>1, <1>3, <1>4 DEF IsNearest
<1> QED
  BY <1>1, <1>5 DEF IsNearest

\* All that the loop makes doubles of is in their range.
LEMMA SumsAreSmall ==
  /\ FloatBias + FloatMantissa - 1 \in Nat
  /\ \A x \in Nat : x <= 2 ^ IntWidth \/ x <= 2 ^ IntWidth * One => x < Widest
<1> DEFINE i == FloatBias + FloatMantissa - 1
           h == IntWidth + i
           full == DoubleMantissa + 1 + WidestProduct
<1>1. i \in Nat /\ IntWidth \in Nat /\ h \in Nat /\ full \in Nat /\ IntWidth <= h /\ h + 1 <= full
  BY Widths, Biases, FormatAssumption DEF WidestProduct
<1>2. 2 ^ IntWidth * One = 2 ^ h
  BY <1>1, PowerOfSum DEF One
<1>3. 2 ^ (h + 1) = 2 * 2 ^ h /\ 2 ^ h \in Nat /\ 2 ^ h >= 1
  BY <1>1, PowerNext, PowerPositive
<1>4. 2 ^ (h + 1) <= 2 ^ full /\ 2 ^ IntWidth <= 2 ^ h
  BY <1>1, PowerMonotone
<1>5. 2 ^ IntWidth \in Nat /\ 2 ^ full \in Nat /\ Widest = 2 ^ full
  BY <1>1, PowerNat DEF Widest
<1> HIDE DEF h, full
<1>6. 2 ^ h < Widest
  BY <1>3, <1>4, <1>5
<1>7. 2 ^ IntWidth < Widest
  BY <1>3, <1>4, <1>5, <1>6
<1>8. ASSUME NEW x \in Nat, x <= 2 ^ IntWidth PROVE x < Widest
  BY <1>5, <1>7, <1>8
<1>9. ASSUME NEW x \in Nat, x <= 2 ^ IntWidth * One PROVE x < Widest
  BY <1>2, <1>3, <1>5, <1>6, <1>9
<1> QED
  BY <1>1, <1>8, <1>9

\* A negative number is made a double like its absolute value.
LEMMA DoubleMirrors ==
  ASSUME NEW x \in Nat, x < Widest
  PROVE  /\ NearestDouble(x) \in Nat
         /\ Double(x) = NearestDouble(x) /\ Double(0 - x) = 0 - NearestDouble(x)
<1>1. NearestDouble(x) \in Nat
  BY DoublePrecision
<1>2. Double(x) = NearestDouble(x)
  BY DEF Double
<1>3. CASE x = 0
  <2>1. 0 * 2 ^ 0 = 0 /\ 0 <= 2 ^ (DoubleMantissa + 1)
    <3>1. DoubleMantissa + 1 \in Nat
      BY FormatAssumption
    <3> QED
      BY <3>1, PowerZero, PowerNat
  <2>2. NearestDouble(0 * 2 ^ 0) = 0 * 2 ^ 0
    BY <1>3, <2>1, ExactDouble
  <2>3. NearestDouble(0) = 0
    BY <2>1, <2>2
  <2> QED
    BY <1>2, <1>3, <2>3
<1>4. CASE x > 0
  <2>1. 0 - x < 0 /\ -(0 - x) = x
    BY <1>4
  <2>2. Double(0 - x) = -NearestDouble(x)
    BY <2>1 DEF Double
  <2> QED
    BY <1>1, <1>2, <2>2
<1> QED
  BY <1>3, <1>4

\* It is cut like its absolute value, too.
LEMMA CutMirrors ==
  ASSUME NEW x \in Nat, NEW n \in Nat, n > 0
  PROVE  /\ x \div n \in Nat
         /\ Cut(x, n) = x \div n /\ Cut(0 - x, n) = 0 - (x \div n)
<1>1. x \div n \in Nat
  BY DivMod
<1>2. Cut(x, n) = x \div n
  BY DEF Cut
<1>3. CASE x = 0
  <2>1. 0 = n * 0 + 0
    OBVIOUS
  <2>2. 0 \div n = 0
    BY <2>1, DivModUnique
  <2> QED
    BY <1>1, <1>2, <1>3, <2>2
<1>4. CASE x > 0
  <2>1. 0 - x < 0 /\ -(0 - x) = x
    BY <1>4
  <2>2. Cut(0 - x, n) = -(x \div n)
    BY <2>1 DEF Cut
  <2> QED
    BY <1>1, <1>2, <2>2
<1> QED
  BY <1>3, <1>4

\* The average of a sum mirrors that of its absolute value.
LEMMA AverageOfSum ==
  ASSUME NEW v \in Int, NEW w \in Nat, w = IF v < 0 THEN 0 - v ELSE v, w <= 2 ^ IntWidth,
         NEW n \in Nat, n > 0, n <= 2 ^ (FloatBias - 1)
  PROVE  LET s == Magnitude(Scale(n))
             X == NearestDouble(w)
             P == NearestDouble(X * s)
             b == P \div One
         IN  /\ w < Widest /\ X \in Nat /\ X * s \in Nat /\ X * s < Widest
             /\ P \in Nat /\ b \in Nat
             /\ Double(v) = IF v < 0 THEN 0 - X ELSE X
             /\ IntegerAverage(v, n) = IF v < 0 THEN 0 - b ELSE b
<1> DEFINE s == Magnitude(Scale(n))
           X == NearestDouble(w)
           Y == X * s
           P == NearestDouble(Y)
           b == P \div One
<1>1. s \in Nat /\ s <= One /\ One \in Nat /\ One > 0
  BY ScalePrecision, OneIs
<1>2. IntegerAverage(v, n) = Cut(Double(Double(v) * s), One)
  BY DEF IntegerAverage
<1>3. w < Widest
  BY SumsAreSmall
<1>4. X \in Nat /\ X <= 2 ^ IntWidth /\ 2 ^ IntWidth \in Nat
      /\ Double(w) = X /\ Double(0 - w) = 0 - X
  BY <1>3, DoubleMirrors, DoubleBound, Widths, PowerNat
<1> HIDE DEF s, X
<1>5. Y \in Nat /\ Y < Widest
  <2> DEFINE t == 2 ^ IntWidth
  <2>1. X * s <= t * s /\ t * s <= t * One
    <3> HIDE DEF t
    <3> QED
      BY <1>1, <1>4, TimesMonotone DEF t
  <2>2. Y \in Nat /\ t * s \in Nat /\ t * One \in Nat
    BY <1>1, <1>4
  <2>3. Y <= t * One
    <3> HIDE DEF t
    <3> QED
      BY <2>1, <2>2
  <2> QED
    BY <2>2, <2>3, SumsAreSmall
<1>6. P \in Nat /\ Double(Y) = P /\ Double(0 - Y) = 0 - P
  <2> HIDE DEF Y
  <2> QED
    BY <1>5, DoubleMirrors
<1> HIDE DEF P
<1>7. b \in Nat /\ Cut(P, One) = b /\ Cut(0 - P, One) = 0 - b
  BY <1>1, <1>6, CutMirrors
<1> HIDE DEF b
<1>8. CASE v < 0
  <2>1. v = 0 - w
    BY <1>8
  <2>2. Double(v) = 0 - X
    BY <1>4, <2>1
  <2>3. Double(v) * s = 0 - Y
    BY <1>1, <1>4, <2>2
  <2>4. IntegerAverage(v, n) = 0 - b
    BY <1>2, <1>6, <1>7, <2>3
  <2> QED
    BY <1>3, <1>4, <1>5, <1>6, <1>7, <1>8, <2>2, <2>4 DEF s, X, P, b
<1>9. CASE ~(v < 0)
  <2>1. Double(v) = X
    BY <1>4, <1>9
  <2>2. IntegerAverage(v, n) = b
    BY <1>2, <1>6, <1>7, <2>1
  <2> QED
    BY <1>3, <1>4, <1>5, <1>6, <1>7, <1>9, <2>1, <2>2 DEF s, X, P, b
<1> QED
  BY <1>8, <1>9

\* A scale of a power of two is one.
LEMMA PowersHavePowerScale ==
  ASSUME NEW k \in Nat, 2 ^ k <= 2 ^ (FloatBias - 1)
  PROVE  \E i \in Nat : Magnitude(Scale(2 ^ k)) = 2 ^ i
<1> DEFINE s == Magnitude(Scale(2 ^ k))
           n == 2 ^ k
           i == FloatBias + FloatMantissa - 1 - k
<1>1. s * n = One
  BY PowersHaveExactScale
<1>2. n \in Nat /\ n > 0
  BY PowerPositive
<1>3. s \in Nat
  BY <1>2, ScalePrecision
<1>4. k <= FloatBias - 1 /\ FloatBias - 1 \in Nat
  <2>1. FloatBias - 1 \in Nat
    BY OneIs
  <2>2. SUFFICES ASSUME (FloatBias - 1) + 1 <= k PROVE FALSE
    BY <2>1
  <2>3. (FloatBias - 1) + 1 \in Nat
    BY <2>1
  <2>4. 2 ^ ((FloatBias - 1) + 1) <= 2 ^ k
    BY <2>2, <2>3, PowerMonotone
  <2>5. 2 ^ ((FloatBias - 1) + 1) = 2 * 2 ^ (FloatBias - 1)
        /\ 2 ^ (FloatBias - 1) \in Nat /\ 2 ^ (FloatBias - 1) >= 1
    BY <2>1, PowerNext, PowerPositive
  <2> QED
    BY <1>2, <2>4, <2>5
<1>5. i \in Nat /\ i + k = FloatBias + FloatMantissa - 1
  BY <1>4, Widths, Biases
<1>6. One = 2 ^ i * n /\ 2 ^ i \in Nat
  BY <1>5, PowerOfSum, PowerNat DEF One
<1> DEFINE j == 2 ^ i
<1>7. s = j
  <2>1. n * s = n * j /\ j \in Nat
    <3>1. s * n = j * n /\ j \in Nat
      BY <1>1, <1>6
    <3> HIDE DEF s, n, j
    <3> QED
      BY <1>2, <1>3, <3>1
  <2> HIDE DEF s, n, j
  <2> QED
    BY <1>2, <1>3, <2>1, Cancel
<1> QED
  BY <1>5, <1>7

\* For a power of two the product is a double, and cutting it divides.
LEMMA PowersDivide ==
  ASSUME NEW k \in Nat, 2 ^ k <= 2 ^ (FloatBias - 1), NEW w \in Nat, w < Widest,
         NearestDouble(w) * Magnitude(Scale(2 ^ k)) < Widest
  PROVE  NearestDouble(NearestDouble(w) * Magnitude(Scale(2 ^ k))) \div One
           = NearestDouble(w) \div 2 ^ k
<1> DEFINE s == Magnitude(Scale(2 ^ k))
           n == 2 ^ k
           X == NearestDouble(w)
<1>1. PICK i \in Nat : s = 2 ^ i
  BY PowersHavePowerScale
<1>2. PICK a, j \in Nat : a <= 2 ^ (DoubleMantissa + 1) /\ X = a * 2 ^ j
  BY DoubleDigits
<1>3. X * s = a * 2 ^ (j + i) /\ j + i \in Nat
  <2>1. 2 ^ (j + i) = 2 ^ j * 2 ^ i /\ 2 ^ j \in Nat /\ 2 ^ i \in Nat
    BY PowerOfSum, PowerNat
  <2>2. \A x, y, z \in Nat : (x * y) * z = x * (y * z)
    OBVIOUS
  <2>3. X * s = (a * 2 ^ j) * 2 ^ i
    BY <1>1, <1>2
  <2> QED
    BY <2>1, <2>2, <2>3
<1>4. NearestDouble(X * s) = X * s
  BY <1>2, <1>3, ExactDouble
<1>5. /\ s \in Nat /\ s > 0 /\ n \in Nat /\ n > 0 /\ X \in Nat
      /\ s * n = One /\ One \in Nat /\ One > 0
  <2>1. n \in Nat /\ n > 0
    BY PowerPositive
  <2> QED
    BY <2>1, ScalePrecision, PowersHaveExactScale, DoubleMirrors, OneIs
<1> HIDE DEF s, n, X
<1> DEFINE q == X \div n
           r == X % n
<1>6. q \in Nat /\ r \in Nat /\ r < n /\ X = n * q + r
  BY <1>5, DivMod
<1> HIDE DEF q, r
<1>7. X * s = One * q + r * s
  <2>1. X * s = (n * q + r) * s
    BY <1>6
  <2>2. (n * q + r) * s = (s * n) * q + r * s
    BY <1>5, <1>6
  <2> QED
    BY <1>5, <2>1, <2>2
<1>8. r * s \in Nat /\ r * s < One
  <2>1. r * s < n * s
    BY <1>5, <1>6, TimesStrict
  <2>2. n * s = s * n
    BY <1>5
  <2> QED
    BY <1>5, <1>6, <2>1, <2>2
<1> DEFINE t == r * s
           z == X * s
<1>9. z \in Nat /\ z = One * q + t /\ t \in Nat /\ t < One
  BY <1>5, <1>7, <1>8
<1> HIDE DEF t, z
<1>10. z \div One = q
  BY <1>5, <1>6, <1>9, DivModUnique
<1> QED
  BY <1>4, <1>10 DEF z, q, s, n, X

\* On two ranks and more the average is at most half as wide as the sum.
LEMMA AverageIsSmaller ==
  ASSUME NEW w \in Nat, w < Widest, NEW t \in Nat, w <= 2 ^ (t + 1),
         NEW n \in Nat, n > 1, n <= 2 ^ (FloatBias - 1),
         NearestDouble(w) * Magnitude(Scale(n)) < Widest
  PROVE  NearestDouble(NearestDouble(w) * Magnitude(Scale(n))) \div One <= 2 ^ t
<1> DEFINE s == Magnitude(Scale(n))
           X == NearestDouble(w)
           P == NearestDouble(X * s)
           T == 2 ^ t
           F == 2 ^ FloatMantissa
<1>1. /\ s \in Nat /\ s > 0 /\ s <= One /\ One \in Nat /\ One > 0
      /\ (2 * F) * (s * n - One) <= One
  BY ScalePrecision, OneIs
<1>2. F \in Nat /\ F >= 2
  <2> DEFINE e == FloatMantissa - 1
  <2>1. e \in Nat /\ e + 1 = FloatMantissa
    BY Widths
  <2> HIDE DEF e
  <2>2. 2 ^ (e + 1) = 2 * 2 ^ e /\ 2 ^ e \in Nat /\ 2 ^ e >= 1
    BY <2>1, PowerNext, PowerPositive
  <2> QED
    BY <2>1, <2>2
<1>3. 2 * s <= One
  <2>1. CASE n = 2
    <3>1. 2 ^ (0 + 1) = 2 * 2 ^ 0 /\ 2 ^ 0 = 1 /\ 0 + 1 = 1
      BY PowerNext, PowerZero
    <3>2. 2 ^ 1 = n
      BY <2>1, <3>1
    <3>3. Magnitude(Scale(2 ^ 1)) * 2 ^ 1 = One
      BY <3>2, PowersHaveExactScale
    <3>4. s * 2 = One
      BY <2>1, <3>2, <3>3
    <3> HIDE DEF s
    <3> QED
      BY <1>1, <3>4
  <2>2. CASE n >= 3
    <3> HIDE DEF s, F
    <3> DEFINE y == s * n
    <3>1. s * 3 <= y /\ y \in Nat
      BY <1>1, <2>2, TimesMonotone
    <3> HIDE DEF y
    <3>2. CASE y <= One
      BY <1>1, <3>1, <3>2
    <3>3. CASE y > One
      <4> DEFINE d == y - One
      <4>1. d \in Nat /\ (2 * F) * d <= One /\ 4 <= 2 * F
        BY <1>1, <1>2, <3>1, <3>3 DEF y
      <4>2. 4 * d <= (2 * F) * d
        <5> HIDE DEF d
        <5> QED
          BY <1>2, <4>1, TimesMonotone
      <4>3. 4 * d <= One
        <5> HIDE DEF d
        <5>1. (2 * F) * d \in Int
          BY <1>2, <4>1
        <5> QED
          BY <1>1, <4>1, <4>2, <5>1
      <4> QED
        BY <1>1, <3>1, <4>3
    <3> QED
      BY <1>1, <3>1, <3>2, <3>3
  <2> QED
    BY <2>1, <2>2
<1>4. X \in Nat /\ X <= 2 * T /\ T \in Nat
  <2>1. t + 1 \in Nat /\ 2 ^ (t + 1) = 2 * T
    BY PowerNext
  <2>2. X <= 2 ^ (t + 1)
    BY <2>1, DoubleBound
  <2> QED
    BY <2>1, <2>2, DoubleMirrors, PowerNat
<1>5. X * s <= T * One /\ X * s \in Nat /\ T * One \in Nat
  <2> HIDE DEF X, s, T
  <2>1. X * s <= (2 * T) * s /\ T * (2 * s) <= T * One
    BY <1>1, <1>3, <1>4, TimesMonotone
  <2>2. (2 * T) * s = T * (2 * s) /\ T * (2 * s) \in Nat /\ X * s \in Nat /\ T * One \in Nat
    BY <1>1, <1>4
  <2> QED
    BY <2>1, <2>2
<1>6. P <= T * One /\ P \in Nat
  <2> DEFINE i == FloatBias + FloatMantissa - 1
  <2>1. i \in Nat /\ One = 2 ^ i
    BY SumsAreSmall DEF One
  <2> HIDE DEF i
  <2>2. T * One = 2 ^ (t + i) /\ t + i \in Nat
    BY <2>1, PowerOfSum
  <2> DEFINE Y == X * s
  <2>3. Y \in Nat /\ Y < Widest /\ Y <= 2 ^ (t + i)
    BY <1>5, <2>2
  <2> HIDE DEF Y
  <2>4. NearestDouble(Y) <= 2 ^ (t + i) /\ NearestDouble(Y) \in Nat
    BY <2>2, <2>3, DoubleBound, DoubleMirrors
  <2> QED
    BY <2>2, <2>4 DEF Y
<1> HIDE DEF P, T
<1> DEFINE b == P \div One
           c == P % One
<1>7. b \in Nat /\ c \in Nat /\ P = One * b + c
  BY <1>1, <1>6, DivMod
<1> HIDE DEF b, c
<1>8. One * b <= One * T
  <2>1. One * b \in Nat /\ One * T = T * One
    BY <1>1, <1>4, <1>7
  <2> QED
    BY <1>5, <1>6, <1>7, <2>1
<1>9. b <= T
  BY <1>1, <1>4, <1>7, <1>8, Cancel
<1> QED
  BY <1>9 DEF b, P, T

\* All that MeanOfIntegers claims of one sum.
LEMMA MeanOfSum ==
  ASSUME NEW v \in Int, NEW w \in Nat, w = IF v < 0 THEN 0 - v ELSE v, w <= 2 ^ IntWidth,
         NEW n \in Nat, n > 0, n <= 2 ^ (FloatBias - 1)
  PROVE  LET average == IntegerAverage(v, n)
             error == Distance(average * n, v)
         IN  /\ average \in Int /\ Double(v) \in Int
             /\ w <= 2 ^ (DoubleMantissa + 1) => Double(v) = v
             /\ average * v >= 0
             /\ (\E k \in Nat : n = 2 ^ k) => average = Cut(Double(v), n)
             /\ error < n \/ (error - n) * 2 ^ FloatMantissa < Distance(v, 0)
             /\ IF v < 0 THEN average <= 0 ELSE average >= 0
             /\ n > 1 => \A t \in Nat : w <= 2 ^ (t + 1) => -2 ^ t <= average /\ average <= 2 ^ t
<1> DEFINE s == Magnitude(Scale(n))
           X == NearestDouble(w)
           Y == X * s
           P == NearestDouble(Y)
           b == P \div One
           c == P % One
           g == 2 ^ FloatMantissa
           average == IntegerAverage(v, n)
<1>1. /\ s \in Nat /\ s > 0 /\ One \in Nat /\ One > 0
      /\ (2 * g) * (s * n - One) <= One /\ (2 * g) * (One - s * n) <= One
  BY ScalePrecision, OneIs
<1>2. g \in Nat /\ g > 0
  BY FloatPowers
<1>3. /\ w < Widest /\ X \in Nat /\ Y \in Nat /\ Y < Widest /\ P \in Nat /\ b \in Nat
      /\ Double(v) = IF v < 0 THEN 0 - X ELSE X
      /\ average = IF v < 0 THEN 0 - b ELSE b
  BY AverageOfSum
<1>4. /\ (8 * g) * (X - w) <= w /\ (8 * g) * (w - X) <= w
      /\ (8 * g) * (P - Y) <= Y /\ (8 * g) * (Y - P) <= Y
  <2>1. (8 * g) * (X - w) <= w /\ (8 * g) * (w - X) <= w
    BY <1>3, DoublePrecision
  <2> HIDE DEF Y
  <2>2. (8 * g) * (P - Y) <= Y /\ (8 * g) * (Y - P) <= Y
    BY <1>3, DoublePrecision
  <2> QED
    BY <2>1, <2>2
<1>5. c \in Nat /\ c < One /\ P = One * b + c
  <2> HIDE DEF P
  <2> QED
    BY <1>1, <1>3, DivMod
<1>6. w <= 2 ^ (DoubleMantissa + 1) => X = w
  <2>1. w * 2 ^ 0 = w
    BY PowerZero
  <2>2. w <= 2 ^ (DoubleMantissa + 1) => NearestDouble(w * 2 ^ 0) = w * 2 ^ 0
    BY <1>3, <2>1, ExactDouble
  <2> QED
    BY <2>1, <2>2
<1>7. (\E k \in Nat : n = 2 ^ k) => b = X \div n
  <2>1. ASSUME NEW k \in Nat, n = 2 ^ k PROVE b = X \div n
    <3>1. NearestDouble(w) * Magnitude(Scale(2 ^ k)) < Widest
      BY <1>3, <2>1
    <3>2. NearestDouble(NearestDouble(w) * Magnitude(Scale(2 ^ k))) \div One
            = NearestDouble(w) \div 2 ^ k
      BY <1>3, <2>1, <3>1, PowersDivide
    <3> QED
      BY <2>1, <3>2
  <2> HIDE DEF b, X
  <2> QED
    BY <2>1
<1>8. n > 1 => \A t \in Nat : w <= 2 ^ (t + 1) => b <= 2 ^ t
  BY <1>3, AverageIsSmaller
<1> HIDE DEF s, P, g, average
<1>9. LET error == Distance(b * n, w)
      IN  error \in Nat /\ (error < n \/ (error - n) * g < w)
  <2> HIDE DEF X, b, c
  <2> QED
    BY <1>1, <1>2, <1>3, <1>4, <1>5, NearlyTheMean
<1> HIDE DEF b, c, X, Y
<1>10. Distance(average * n, v) = Distance(b * n, w) /\ Distance(v, 0) = w
  <2>1. CASE v < 0
    <3>1. average * n = 0 - b * n /\ v = 0 - w
      BY <1>3, <2>1
    <3>2. b * n \in Nat
      BY <1>3
    <3> QED
      BY <2>1, <3>1, <3>2 DEF Distance
  <2>2. CASE ~(v < 0)
    <3>1. b * n \in Nat
      BY <1>3
    <3> QED
      BY <1>3, <2>2, <3>1 DEF Distance
  <2> QED
    BY <2>1, <2>2
<1>11. average * v >= 0
  <2>1. average * v = b * w
    <3>1. CASE v < 0
      <4>1. average = 0 - b /\ v = 0 - w
        BY <1>3, <3>1
      <4>2. \A x, y \in Nat : (0 - x) * (0 - y) = x * y
        OBVIOUS
      <4> QED
        BY <1>3, <4>1, <4>2
    <3>2. CASE ~(v < 0)
      BY <1>3, <3>2
    <3> QED
      BY <3>1, <3>2
  <2>2. b * w \in Nat
    BY <1>3
  <2> QED
    BY <2>1, <2>2
<1>12. (\E k \in Nat : n = 2 ^ k) => average = Cut(Double(v), n)
  <2>1. X \div n \in Nat /\ Cut(X, n) = X \div n /\ Cut(0 - X, n) = 0 - (X \div n)
    BY <1>3, CutMirrors
  <2> QED
    BY <1>3, <1>7, <2>1
<1>13. average \in Int /\ Double(v) \in Int /\ (w <= 2 ^ (DoubleMantissa + 1) => Double(v) = v)
  BY <1>3, <1>6
<1>14. IF v < 0 THEN average <= 0 ELSE average >= 0
  BY <1>3
<1>15. ASSUME n > 1, NEW t \in Nat, w <= 2 ^ (t + 1)
       PROVE  -2 ^ t <= average /\ average <= 2 ^ t
  <2>1. b <= 2 ^ t /\ 2 ^ t \in Nat
    BY <1>8, <1>15, PowerNat
  <2> QED
    BY <1>3, <2>1
<1>16. LET error == Distance(average * n, v)
       IN  error < n \/ (error - n) * g < Distance(v, 0)
  BY <1>9, <1>10
<1> QED
  BY <1>11, <1>12, <1>13, <1>14, <1>15, <1>16 DEF average, g

-----------------------------------------------------------------------------
\* The values of the low bits of a float that a BFloat16 has no place for.
Low == 2 ^ (FloatMantissa - BFloatMantissa)
\* Half of what the low bits can hold.
HalfLow == 2 ^ (FloatMantissa - BFloatMantissa - 1)

\* The places of the low bits.
LEMMA LowPowers ==
  /\ HalfLow \in Nat /\ HalfLow >= 1 /\ Low = 2 * HalfLow /\ Low \div 2 = HalfLow
  /\ 2 ^ BFloatMantissa \in Nat /\ 2 ^ BFloatMantissa >= 2
  /\ 2 ^ FloatMantissa = Low * 2 ^ BFloatMantissa
  /\ 2 ^ (FloatMantissa - 1) \in Nat /\ 2 ^ FloatMantissa = 2 * 2 ^ (FloatMantissa - 1)
  /\ 2 ^ (FloatMantissa - 1) = HalfLow * 2 ^ BFloatMantissa
<1> DEFINE k == FloatMantissa - BFloatMantissa - 1
<1>1. /\ k \in Nat /\ k + 1 = FloatMantissa - BFloatMantissa
      /\ k + BFloatMantissa = FloatMantissa - 1 /\ FloatMantissa - 1 \in Nat
      /\ (FloatMantissa - 1) + 1 = FloatMantissa
      /\ BFloatMantissa - 1 \in Nat /\ (BFloatMantissa - 1) + 1 = BFloatMantissa
  BY Widths
<1>2. 2 ^ k \in Nat /\ 2 ^ k >= 1 /\ 2 ^ (k + 1) = 2 * 2 ^ k
  BY <1>1, PowerPositive, PowerNext
<1>3. 2 ^ (BFloatMantissa - 1) \in Nat /\ 2 ^ (BFloatMantissa - 1) >= 1
  BY <1>1, PowerPositive
<1>4. 2 ^ ((BFloatMantissa - 1) + 1) = 2 * 2 ^ (BFloatMantissa - 1)
  BY <1>1, PowerNext
<1>5. 2 ^ BFloatMantissa \in Nat /\ 2 ^ BFloatMantissa >= 2
  BY <1>1, <1>3, <1>4
<1>6. HalfLow = 2 ^ k /\ Low = 2 ^ (k + 1)
  BY <1>1 DEF HalfLow, Low
<1>7. 2 ^ (FloatMantissa - 1) = 2 ^ k * 2 ^ BFloatMantissa
  BY <1>1, Widths, PowerOfSum
<1>8. 2 ^ ((FloatMantissa - 1) + 1) = 2 * 2 ^ (FloatMantissa - 1)
  BY <1>1, PowerNext
<1>9. HalfLow \in Nat /\ HalfLow >= 1 /\ Low = 2 * HalfLow
  BY <1>2, <1>6
<1> HIDE DEF k
<1>10. 2 ^ (FloatMantissa - 1) = HalfLow * 2 ^ BFloatMantissa
  BY <1>6, <1>7
<1>11. 2 ^ (FloatMantissa - 1) \in Nat
  BY <1>1, PowerNat
<1>12. 2 ^ FloatMantissa = 2 * 2 ^ (FloatMantissa - 1)
  BY <1>1, <1>8
<1>13. 2 ^ FloatMantissa = Low * 2 ^ BFloatMantissa
  <2> DEFINE B == 2 ^ BFloatMantissa
  <2>1. B \in Nat
    BY <1>5
  <2> HIDE DEF B
  <2>2. 2 * (HalfLow * B) = (2 * HalfLow) * B
    BY <1>9, <2>1
  <2> QED
    BY <1>9, <1>10, <1>12, <2>2 DEF B
<1>14. Low \div 2 = HalfLow
  BY <1>9
<1> QED
  BY <1>5, <1>9, <1>10, <1>11, <1>12, <1>13, <1>14

\* A pattern is below its next exponent, and there is one for each sign.
LEMMA PatternBounds ==
  ASSUME NEW v \in FloatPatterns
  PROVE  /\ v \in Nat /\ Sign(v) \in {0, 1}
         /\ v < 2 ^ (1 + FloatExponent + FloatMantissa)
         /\ \A d \in Nat : \/ Exponent(v) + 1 < 2 ^ FloatExponent /\ d < 2 ^ FloatMantissa
                           \/ Mantissa(v) + d < 2 ^ FloatMantissa
              => v + d < 2 ^ (1 + FloatExponent + FloatMantissa)
<1> DEFINE E == 2 ^ FloatExponent
           F == 2 ^ FloatMantissa
           G == E * F
           s == Sign(v)
           e == Exponent(v)
           m == Mantissa(v)
<1>1. /\ E \in Nat /\ E > 0 /\ F \in Nat /\ F > 0 /\ G \in Nat /\ G > 0
      /\ 2 ^ (FloatExponent + FloatMantissa) = G /\ 2 ^ (1 + FloatExponent + FloatMantissa) = 2 * G
  BY FloatPowers
<1>2. v \in Nat /\ v < 2 * G
  BY <1>1 DEF FloatPatterns
<1>3. s \in Nat /\ e \in 0 .. E - 1 /\ m \in 0 .. F - 1 /\ v = s * G + e * F + m
  BY <1>1, <1>2, PatternOfFields DEF Pattern
<1> HIDE DEF s, e, m
<1>4. s < 2
  <2>1. SUFFICES ASSUME s >= 2 PROVE FALSE
    BY <1>3
  <2> HIDE DEF G
  <2>2. 2 * G <= s * G
    BY <1>1, <1>3, <2>1, TimesMonotone
  <2>3. e * F \in Nat /\ s * G \in Nat /\ m \in Nat
    BY <1>1, <1>3
  <2> QED
    BY <1>1, <1>2, <1>3, <2>2, <2>3
<1>5. s * G <= G
  <2> HIDE DEF G
  <2> QED
  BY <1>1, <1>3, <1>4
<1>6. \A d \in Nat : (e + 1 < E /\ d < F) \/ m + d < F => v + d < 2 * G
  <2>1. TAKE d \in Nat
  <2>2. CASE e + 1 < E /\ d < F
    <3>1. (e + 2) * F <= E * F
      BY <1>1, <1>3, <2>2, TimesMonotone
    <3>2. (e + 2) * F = e * F + 2 * F /\ e * F \in Nat
      BY <1>1, <1>3
    <3>3. s * G \in Nat
      BY <1>1, <1>3
    <3> QED
      BY <1>1, <1>3, <1>5, <2>2, <3>1, <3>2, <3>3
  <2>3. CASE m + d < F
    <3>1. (e + 1) * F <= E * F
      BY <1>1, <1>3, TimesMonotone
    <3>2. (e + 1) * F = e * F + F /\ e * F \in Nat
      BY <1>1, <1>3
    <3>3. s * G \in Nat
      BY <1>1, <1>3
    <3> QED
      BY <1>1, <1>3, <1>5, <2>3, <3>1, <3>2, <3>3
  <2> QED
    BY <2>2, <2>3
<1> QED
  BY <1>1, <1>2, <1>3, <1>4, <1>6 DEF s, e, m

\* The low bits round the high ones up, or not.
LEMMA BFloatOf ==
  ASSUME NEW q \in Nat, NEW t \in 0 .. Low - 1, NEW v \in Nat, v = Low * q + t,
         v + HalfLow < 2 ^ (1 + FloatExponent + FloatMantissa)
  PROVE  BFloat16FromFloat(v) = IF t + HalfLow - 1 + (q % 2) < Low THEN q ELSE q + 1
<1> DEFINE width == 2 ^ (1 + FloatExponent + FloatMantissa)
           c == t + HalfLow - 1 + (q % 2)
           r == v + (HalfLow - 1 + (q % 2))
<1>1. /\ Low \in Nat /\ Low > 0 /\ HalfLow \in Nat /\ HalfLow >= 1 /\ Low = 2 * HalfLow
      /\ q % 2 \in {0, 1}
  BY LowPowers
<1>2. v \div Low = q
  BY <1>1, DivModUnique
<1>3. BFloat16FromFloat(v) = (r % width) \div Low
  BY <1>2, LowPowers DEF BFloat16FromFloat, Low
<1>4. r \in Nat /\ r < width /\ width \in Nat /\ width > 0
  BY <1>1, FloatPowers
<1>5. r % width = r
  <2> HIDE DEF r, width
  <2>1. r = width * 0 + r
    BY <1>4
  <2> QED
    BY <1>4, <2>1, DivModUnique
<1>6. CASE c < Low
  <2>1. r = Low * q + c /\ c \in Nat
    BY <1>1
  <2> HIDE DEF r, c
  <2>2. r \div Low = q
    BY <1>1, <1>4, <1>6, <2>1, DivModUnique
  <2> QED
    BY <1>3, <1>5, <1>6, <2>2 DEF c
<1>7. CASE ~(c < Low)
  <2>1. c - Low \in Nat /\ c - Low < Low
    BY <1>1, <1>7
  <2>2. r = Low * (q + 1) + (c - Low)
    BY <1>1
  <2> DEFINE x == c - Low
  <2> HIDE DEF r, c, x
  <2>3. r \div Low = q + 1
    <3>1. x \in Nat /\ x < Low /\ r = Low * (q + 1) + x
      BY <2>1, <2>2 DEF x
    <3> QED
      BY <1>1, <1>4, <3>1, DivModUnique
  <2> QED
    BY <1>3, <1>5, <1>7, <2>3 DEF c
<1> QED
  BY <1>6, <1>7

\* The low bits of a float are those of its mantissa.
LEMMA LowBits ==
  ASSUME NEW v \in Nat
  PROVE  /\ v % Low = Mantissa(v) % Low
         /\ v \div Low \in Nat /\ v % Low \in 0 .. Low - 1 /\ v = Low * (v \div Low) + (v % Low)
         /\ (v % Low) <= Mantissa(v) /\ Mantissa(v) - (v % Low) + Low <= 2 ^ FloatMantissa
<1> DEFINE F == 2 ^ FloatMantissa
           B == 2 ^ BFloatMantissa
           m == Mantissa(v)
           x == m \div Low
           t == m % Low
           y == v \div F
<1>1. Low \in Nat /\ Low > 0 /\ B \in Nat /\ F = Low * B /\ F \in Nat /\ F > 0
  BY LowPowers, FloatPowers
<1> HIDE DEF B, F
<1>2. y \in Nat /\ m \in Nat /\ m < F /\ v = F * y + m
  BY <1>1, DivMod DEF Mantissa, F
<1> HIDE DEF m, y
<1>3. x \in Nat /\ t \in Nat /\ t < Low /\ m = Low * x + t
  BY <1>1, <1>2, DivMod
<1> HIDE DEF x, t
<1>4. B * y + x \in Nat
  BY <1>1, <1>2, <1>3
<1>5. v = Low * (B * y + x) + t
  <2>1. (Low * B) * y + (Low * x + t) = Low * (B * y + x) + t
    BY <1>1, <1>2, <1>3
  <2> QED
    BY <1>1, <1>2, <1>3, <2>1
<1> DEFINE z == B * y + x
<1> HIDE DEF z
<1>6. v % Low = t /\ v \div Low = z
  <2>1. z \in Nat /\ v = Low * z + t
    BY <1>4, <1>5 DEF z
  <2> QED
    BY <1>1, <1>3, <2>1, DivModUnique
<1>7. x + 1 <= B
  <2>1. SUFFICES ASSUME B <= x PROVE FALSE
    BY <1>1, <1>3
  <2>2. Low * B <= Low * x
    BY <1>1, <1>3, <2>1, TimesMonotone
  <2>3. Low * B \in Nat /\ Low * x \in Nat
    BY <1>1, <1>3
  <2> QED
    BY <1>1, <1>2, <1>3, <2>2, <2>3
<1>8. m - t + Low <= F /\ t <= m
  <2>1. Low * (x + 1) <= Low * B
    BY <1>1, <1>3, <1>7, TimesMonotone
  <2>2. Low * (x + 1) = Low * x + Low /\ Low * x \in Nat
    BY <1>1, <1>3
  <2> QED
    BY <1>1, <1>3, <2>1, <2>2
<1>9. z \in Nat /\ v = Low * z + t
  BY <1>4, <1>5 DEF z
<1>10. /\ v % Low = t /\ v \div Low \in Nat /\ t \in 0 .. Low - 1
       /\ v = Low * (v \div Low) + (v % Low) /\ (v % Low) <= m
       /\ m - (v % Low) + Low <= F
  <2>1. t \in 0 .. Low - 1
    BY <1>1, <1>3
  <2> QED
    BY <1>6, <1>8, <1>9, <2>1
<1> QED
  BY <1>10, Zenon DEF t, m, F

\* A BFloat16 as a float.
LEMMA NumberOfBFloat ==
  ASSUME NEW j \in Int
  PROVE  BFloat16ToFloat(j) = j * Low /\ BFloat16ToFloat(1) = Low
BY LowPowers DEF BFloat16ToFloat, Low

\* A BFloat16 stays what it is.
LEMMA BFloatAgain ==
  ASSUME NEW j \in Nat, j * Low < 2 ^ (1 + FloatExponent + FloatMantissa)
  PROVE  BFloat16FromFloat(j * Low) = j
<1> DEFINE v == j * Low
           B == 2 ^ (1 + FloatExponent + BFloatMantissa)
<1>1. Low \in Nat /\ Low > 0 /\ HalfLow \in Nat /\ HalfLow >= 1 /\ Low = 2 * HalfLow /\ j % 2 \in {0, 1}
  BY LowPowers
<1>2. v \in Nat /\ v = Low * j + 0 /\ 0 \in 0 .. Low - 1
  BY <1>1
<1>3. B \in Nat /\ 2 ^ (1 + FloatExponent + FloatMantissa) = B * Low
  <2> DEFINE a == 1 + FloatExponent + BFloatMantissa
             b == FloatMantissa - BFloatMantissa
  <2>1. a \in Nat /\ b \in Nat /\ a + b = 1 + FloatExponent + FloatMantissa
    BY Widths
  <2>2. 2 ^ (a + b) = 2 ^ a * 2 ^ b /\ 2 ^ a \in Nat
    BY <2>1, PowerOfSum, PowerNat
  <2> QED
    BY <2>1, <2>2 DEF Low
<1>4. v + HalfLow < 2 ^ (1 + FloatExponent + FloatMantissa)
  <2> HIDE DEF B
  <2>1. ~(B <= j)
    <3>1. SUFFICES ASSUME B <= j PROVE FALSE
      OBVIOUS
    <3>2. B * Low <= j * Low
      BY <1>1, <1>3, <3>1, TimesMonotone
    <3> QED
      BY <1>1, <1>3, <3>2
  <2>2. (j + 1) * Low <= B * Low
    BY <1>1, <1>3, <2>1, TimesMonotone
  <2>3. (j + 1) * Low = j * Low + Low /\ B * Low \in Nat
    BY <1>1, <1>3
  <2> QED
    BY <1>1, <1>2, <1>3, <2>2, <2>3
<1>5. 0 + HalfLow - 1 + (j % 2) < Low
  BY <1>1
<1> HIDE DEF v
<1>6. BFloat16FromFloat(v) = j
  BY <1>2, <1>4, <1>5, BFloatOf
<1> QED
  BY <1>6 DEF v

\* Without a NaN there is room for rounding.
LEMMA RoomToRound ==
  ASSUME NEW v \in FloatPatterns,
         Exponent(v) = 2 ^ FloatExponent - 1 => Mantissa(v) <= 2 ^ (FloatMantissa - 1)
  PROVE  v + HalfLow < 2 ^ (1 + FloatExponent + FloatMantissa)
<1> DEFINE F == 2 ^ FloatMantissa
           B == 2 ^ BFloatMantissa
           N == 2 ^ (FloatMantissa - 1)
<1>1. HalfLow \in Nat /\ HalfLow >= 1 /\ B \in Nat /\ B >= 2 /\ N = HalfLow * B /\ F = 2 * N /\ N \in Nat
  BY LowPowers
<1> HIDE DEF F, B, N
<1>2. HalfLow * 2 <= HalfLow * B
  BY <1>1, TimesMonotone
<1>3. HalfLow < N /\ HalfLow < F
  BY <1>1, <1>2
<1>4. v \in Nat /\ Exponent(v) \in 0 .. 2 ^ FloatExponent - 1 /\ Mantissa(v) \in Nat
  BY PatternBounds, PatternOfFields, FloatPowers
<1>5. \/ Exponent(v) + 1 < 2 ^ FloatExponent /\ HalfLow < F
      \/ Mantissa(v) + HalfLow < F
  BY <1>1, <1>3, <1>4, FloatPowers DEF N
<1> QED
  BY <1>1, <1>5, PatternBounds DEF F

\* All that HalvesRound claims of one cast of a number to BFloat16.
LEMMA BFloatRounds ==
  ASSUME NEW v \in FloatPatterns, ~IsNaN(v)
  PROVE  LET half == BFloat16FromFloat(v)
             low == v - (v % BFloat16ToFloat(1))
             high == low + BFloat16ToFloat(1)
             float == BFloat16ToFloat(half)
             above == Distance(Magnitude(v), Magnitude(low))
             below == Distance(Magnitude(high), Magnitude(v))
         IN  /\ float \in {low, high}
             /\ above < below => float = low
             /\ below < above => float = high
             /\ above = below => half % 2 = 0
             /\ BFloat16FromFloat(float) = half
<1> DEFINE F == 2 ^ FloatMantissa
           width == 2 ^ (1 + FloatExponent + FloatMantissa)
           half == BFloat16FromFloat(v)
           q == v \div Low
           t == v % Low
           low == v - t
           high == low + Low
           u == Ulp(Exponent(v))
           M == Magnitude(v)
<1>1. Low \in Nat /\ Low > 0 /\ HalfLow \in Nat /\ HalfLow >= 1 /\ Low = 2 * HalfLow
  BY LowPowers
<1>2. v \in Nat /\ Exponent(v) \in 0 .. 2 ^ FloatExponent - 1 /\ Mantissa(v) \in 0 .. F - 1
  BY PatternBounds, PatternOfFields
<1>3. F \in Nat /\ F > 0 /\ 2 ^ FloatExponent \in Nat /\ width \in Nat
  BY FloatPowers
<1>4. /\ q \in Nat /\ t \in 0 .. Low - 1 /\ v = Low * q + t
      /\ t <= Mantissa(v) /\ Mantissa(v) - t + Low <= F
  BY <1>2, LowBits
<1>5. Exponent(v) = 2 ^ FloatExponent - 1 => Mantissa(v) = 0
  BY DEF IsNaN
<1>6. v + HalfLow < width
  <2>1. Exponent(v) = 2 ^ FloatExponent - 1 => Mantissa(v) <= 2 ^ (FloatMantissa - 1)
    BY <1>5, LowPowers
  <2> QED
    BY <2>1, RoomToRound
<1> HIDE DEF width
<1>7. half = IF t + HalfLow - 1 + (q % 2) < Low THEN q ELSE q + 1
  <2> HIDE DEF half, q, t
  <2> QED
    BY <1>2, <1>4, <1>6, BFloatOf DEF half, width
<1>8. u \in Nat /\ u > 0 /\ M \in Nat
  BY <1>2, <1>3, UlpPositive, MagnitudeOfFields
<1>9. low \in Nat /\ low = q * Low /\ high = (q + 1) * Low
  <2> HIDE DEF q, t
  <2> QED
    BY <1>1, <1>2, <1>4
<1>10. Magnitude(high) = M + (Low - t) * u
  <2> DEFINE d == Low - t
  <2>1. d \in Nat /\ Mantissa(v) + d <= F
    BY <1>1, <1>2, <1>3, <1>4
  <2>2. Mantissa(v) + d < F \/ Exponent(v) + 1 < 2 ^ FloatExponent
    <3>1. Exponent(v) = 2 ^ FloatExponent - 1 => Mantissa(v) + d < F
      <4>1. Low < F
        <5> DEFINE B == 2 ^ BFloatMantissa
        <5>1. B \in Nat /\ B >= 2 /\ F = Low * B
          BY LowPowers
        <5> HIDE DEF B, F
        <5>2. Low * 2 <= Low * B
          BY <1>1, <5>1, TimesMonotone
        <5> QED
          BY <1>1, <1>3, <5>1, <5>2
      <4>2. Exponent(v) = 2 ^ FloatExponent - 1 => Mantissa(v) = 0 /\ d = Low
        BY <1>1, <1>4, <1>5
      <4> QED
        BY <1>1, <4>1, <4>2
    <3> QED
      BY <1>2, <1>3, <3>1
  <2>3. high = v + d
    BY <1>1, <1>2, <1>4
  <2> HIDE DEF d
  <2>4. Magnitude(v + d) = M + d * u
    BY <1>2, <2>1, <2>2, MagnitudeAfter
  <2> QED
    BY <2>3, <2>4 DEF d
<1>11. M = Magnitude(low) + t * u /\ Magnitude(low) \in Nat
  <2>1. low = Pattern(Sign(v), Exponent(v), Mantissa(v) - t)
    <3>1. v = Sign(v) * 2 ^ (FloatExponent + FloatMantissa) + Exponent(v) * F + Mantissa(v)
      BY <1>2, PatternOfFields DEF Pattern
    <3>2. Sign(v) * 2 ^ (FloatExponent + FloatMantissa) \in Nat /\ Exponent(v) * F \in Nat
      BY <1>2, <1>3, FloatPowers, PatternOfFields
    <3>3. t \in Nat
      BY <1>1, <1>4
    <3>4. \A a, b, c, d \in Int : (a + b + c) - d = a + b + (c - d)
      OBVIOUS
    <3> HIDE DEF t
    <3> QED
      BY <1>2, <1>3, <3>1, <3>2, <3>3, <3>4 DEF Pattern
  <2>2. Mantissa(v) - t \in 0 .. 2 ^ FloatMantissa - 1 /\ Sign(v) \in Nat
    <3>1. t \in Nat /\ t <= Mantissa(v)
      BY <1>1, <1>4
    <3> HIDE DEF t
    <3> QED
      BY <1>2, <1>3, <3>1, PatternOfFields
  <2>3. Exponent(low) = Exponent(v) /\ Mantissa(low) = Mantissa(v) - t
    BY <1>2, <2>1, <2>2, FieldsOfPattern
  <2>4. Mantissa(low) + t = Mantissa(v) /\ low + t = v /\ t \in Nat
    BY <1>1, <1>2, <1>4, <2>3
  <2>5. Mantissa(low) + t < 2 ^ FloatMantissa /\ Mantissa(low) + t <= 2 ^ FloatMantissa
    BY <1>2, <1>3, <2>4
  <2> HIDE DEF t, low
  <2>6. Magnitude(low + t) = Magnitude(low) + t * Ulp(Exponent(low))
    BY <1>9, <2>4, <2>5, MagnitudeAfter
  <2> QED
    BY <1>9, <2>3, <2>4, <2>6, MagnitudeOfFields
<1> DEFINE above == Distance(M, Magnitude(low))
           below == Distance(Magnitude(high), M)
<1>12. above = t * u /\ below = (Low - t) * u
  <2>1. t * u \in Nat /\ (Low - t) * u \in Nat
    <3>1. t \in Nat /\ Low - t \in Nat
      BY <1>1, <1>4
    <3> HIDE DEF t, u
    <3> QED
      BY <1>8, <3>1
  <2> HIDE DEF t, u, M, low, high
  <2> QED
    BY <1>8, <1>10, <1>11, <2>1 DEF Distance
<1>13. /\ above < below => t < HalfLow
       /\ below < above => t > HalfLow
       /\ above = below => t = HalfLow
  <2>1. t \in Nat /\ Low - t \in Nat
    BY <1>1, <1>4
  <2> HIDE DEF t, u
  <2>2. /\ t <= Low - t => t * u <= (Low - t) * u
        /\ Low - t <= t => (Low - t) * u <= t * u
        /\ t < Low - t => t * u < (Low - t) * u
        /\ Low - t < t => (Low - t) * u < t * u
    BY <1>8, <2>1, TimesMonotone, TimesStrict
  <2>3. t * u \in Nat /\ (Low - t) * u \in Nat
    BY <1>8, <2>1
  <2> QED
    BY <1>1, <1>12, <2>1, <2>2, <2>3
<1>14. q % 2 \in {0, 1} /\ (q % 2 = 1 => (q + 1) % 2 = 0)
  <2> HIDE DEF q
  <2> QED
    BY <1>4
<1>15. half \in Nat /\ half * Low \in {low, high}
  BY <1>4, <1>7, <1>9
<1> HIDE DEF half, q, t, low, high, above, below
<1>16. above < below => half * Low = low
  BY <1>1, <1>4, <1>7, <1>9, <1>13, <1>14
<1>17. below < above => half * Low = high
  BY <1>1, <1>4, <1>7, <1>9, <1>13, <1>14
<1>18. above = below => half % 2 = 0
  BY <1>1, <1>4, <1>7, <1>13, <1>14
<1>19. half * Low < width
  <2>1. half * Low <= v + HalfLow
    <3>1. CASE half = q
      BY <1>1, <1>2, <1>4, <1>9, <3>1
    <3>2. CASE half = q + 1 /\ ~(t + HalfLow - 1 + (q % 2) < Low)
      BY <1>1, <1>2, <1>4, <1>9, <1>14, <3>2
    <3> QED
      BY <1>7, <3>1, <3>2
  <2>2. half * Low \in Nat
    BY <1>1, <1>15
  <2> QED
    BY <1>1, <1>2, <1>3, <1>6, <2>1, <2>2
<1>20. BFloat16FromFloat(half * Low) = half
  BY <1>15, <1>19, BFloatAgain DEF width
<1>21. BFloat16ToFloat(half) = half * Low /\ BFloat16ToFloat(1) = Low
  BY <1>15, NumberOfBFloat
<1> QED
  BY <1>15, <1>16, <1>17, <1>18, <1>20, <1>21 DEF half, t, low, high, above, below

\* The usual quiet NaN.
LEMMA QuietStaysNaN ==
  ASSUME NEW v \in FloatPatterns, IsNaN(v), Mantissa(v) = 2 ^ (FloatMantissa - 1)
  PROVE  IsNaN(BFloat16ToFloat(BFloat16FromFloat(v)))
<1> DEFINE B == 2 ^ BFloatMantissa
           C == 2 ^ (BFloatMantissa - 1)
           q == v \div Low
<1>1. /\ Low \in Nat /\ Low > 0 /\ HalfLow \in Nat /\ HalfLow >= 1 /\ Low = 2 * HalfLow
      /\ v \in Nat
  BY LowPowers, PatternBounds
<1>2. Mantissa(v) = Low * C /\ C \in Nat
  <2>1. BFloatMantissa - 1 \in Nat /\ (FloatMantissa - BFloatMantissa) + (BFloatMantissa - 1) = FloatMantissa - 1
        /\ FloatMantissa - BFloatMantissa \in Nat
    BY Widths
  <2>2. 2 ^ (FloatMantissa - 1) = Low * C
    BY <2>1, PowerOfSum DEF Low
  <2> QED
    BY <2>1, <2>2, PowerNat
<1>3. v % Low = 0
  <2> DEFINE x == Mantissa(v)
  <2>1. x = Low * C + 0 /\ x \in Nat
    BY <1>1, <1>2
  <2> HIDE DEF x, C
  <2>2. x % Low = 0
    BY <1>1, <1>2, <2>1, DivModUnique
  <2> QED
    BY <1>1, <2>2, LowBits DEF x
<1>4. q \in Nat /\ v = Low * q + 0 /\ 0 \in 0 .. Low - 1 /\ q % 2 \in {0, 1}
  BY <1>1, <1>3, LowBits
<1>5. v + HalfLow < 2 ^ (1 + FloatExponent + FloatMantissa)
  <2>1. Mantissa(v) <= 2 ^ (FloatMantissa - 1)
    BY LowPowers
  <2> QED
    BY <2>1, RoomToRound
<1> HIDE DEF q
<1>6. 0 + HalfLow - 1 + (q % 2) < Low
  BY <1>1, <1>4
<1>7. BFloat16FromFloat(v) = q
  BY <1>1, <1>4, <1>5, <1>6, BFloatOf
<1>8. BFloat16ToFloat(q) = v
  BY <1>1, <1>4, NumberOfBFloat
<1> QED
  BY <1>7, <1>8

-----------------------------------------------------------------------------
\* The values of the bits of a mantissa that a Float16 has no place for.
Dropped == 2 ^ (FloatMantissa - HalfMantissa)

\* The Float16 with the three fields.
HalfPattern(sign, exponent, mantissa) ==
  sign * 2 ^ (HalfExponent + HalfMantissa) + exponent * 2 ^ HalfMantissa + mantissa

\* The smallest Float16 above zero.
Unit == Dropped * 2 ^ (FloatBias - HalfBias)

\* The places of the fields of a Float16.
LEMMA HalfPowers ==
  /\ 2 ^ HalfMantissa \in Nat /\ 2 ^ HalfMantissa >= 2
  /\ 2 ^ HalfExponent \in Nat /\ 2 ^ HalfExponent >= 4
  /\ 2 ^ (HalfExponent + HalfMantissa) = 2 ^ HalfExponent * 2 ^ HalfMantissa
  /\ 2 ^ (HalfExponent + HalfMantissa) \in Nat
  /\ Dropped \in Nat /\ Dropped > 0
  /\ 2 ^ FloatMantissa = Dropped * 2 ^ HalfMantissa
  /\ 2 ^ (HalfMantissa - 1) \in Nat /\ 2 ^ (HalfMantissa - 1) > 0
  /\ 2 ^ (HalfMantissa - 1) < 2 ^ HalfMantissa
<1>1. /\ HalfMantissa - 1 \in Nat /\ (HalfMantissa - 1) + 1 = HalfMantissa
      /\ FloatMantissa - HalfMantissa \in Nat
      /\ (FloatMantissa - HalfMantissa) + HalfMantissa = FloatMantissa
  BY Widths
<1>2. 2 ^ ((HalfMantissa - 1) + 1) = 2 * 2 ^ (HalfMantissa - 1)
  BY <1>1, PowerNext
<1>3. 2 ^ (HalfMantissa - 1) \in Nat /\ 2 ^ (HalfMantissa - 1) >= 1
  BY <1>1, PowerPositive
<1>4. 2 ^ HalfExponent >= 4 /\ 2 ^ HalfExponent \in Nat
  BY Biases
<1>5. Dropped \in Nat /\ Dropped >= 1
  BY <1>1, PowerPositive DEF Dropped
<1>6. 2 ^ FloatMantissa = Dropped * 2 ^ HalfMantissa
  BY <1>1, Widths, PowerOfSum DEF Dropped
<1>7. 2 ^ HalfMantissa = 2 * 2 ^ (HalfMantissa - 1)
  BY <1>1, <1>2
<1>8. 2 ^ (HalfExponent + HalfMantissa) = 2 ^ HalfExponent * 2 ^ HalfMantissa
  BY Widths, PowerOfSum
<1>9. 2 ^ (HalfExponent + HalfMantissa) \in Nat
  <2>1. HalfExponent + HalfMantissa \in Nat
    BY Widths
  <2> QED
    BY <2>1, PowerNat
<1> QED
  BY <1>3, <1>4, <1>5, <1>6, <1>7, <1>8, <1>9

\* The unit is not 0.
LEMMA UnitPositive ==
  /\ FloatBias - HalfBias \in Nat /\ FloatBias - HalfBias >= HalfMantissa
  /\ Unit \in Nat /\ Unit > 0
<1>1. FloatBias - HalfBias \in Nat /\ FloatBias - HalfBias >= HalfMantissa
  BY Biases, Widths
<1>2. 2 ^ (FloatBias - HalfBias) \in Nat /\ 2 ^ (FloatBias - HalfBias) >= 1
  BY <1>1, PowerPositive
<1> DEFINE a == 2 ^ (FloatBias - HalfBias)
<1>3. Dropped * a \in Nat /\ Dropped * a >= Dropped * 1
  <2> HIDE DEF a
  <2> QED
    BY <1>2, HalfPowers, TimesMonotone DEF a
<1> QED
  BY <1>1, <1>3, HalfPowers DEF Unit

\* The fields of a Float16 are those it is made of.
LEMMA FieldsOfHalf ==
  ASSUME NEW s \in Nat, NEW x \in 0 .. 2 ^ HalfExponent - 1, NEW y \in 0 .. 2 ^ HalfMantissa - 1
  PROVE  LET bits == HalfPattern(s, x, y)
         IN  /\ bits \in Nat
             /\ bits \div 2 ^ (HalfExponent + HalfMantissa) = s
             /\ (bits \div 2 ^ HalfMantissa) % 2 ^ HalfExponent = x
             /\ bits % 2 ^ HalfMantissa = y
<1> DEFINE E == 2 ^ HalfExponent
           F == 2 ^ HalfMantissa
           p == HalfPattern(s, x, y)
<1>1. E \in Nat /\ E > 0 /\ F \in Nat /\ F > 0
  BY HalfPowers
<1>2. 2 ^ (HalfExponent + HalfMantissa) = E * F
  BY HalfPowers
<1>3. p = s * (E * F) + x * F + y
  BY <1>2 DEF HalfPattern
<1>4. x \in 0 .. E - 1 /\ y \in 0 .. F - 1
  OBVIOUS
<1> HIDE DEF E, F, p
<1>5. p \in Nat
  <2>1. s * (E * F) \in Nat /\ x * F \in Nat /\ y \in Nat
    BY <1>1, <1>4, TimesNat
  <2> QED
    BY <1>3, <2>1
<1>6. p \div (E * F) = s
  BY <1>1, <1>3, <1>4, <1>5, ThreeFields
<1> DEFINE q == E * s + x
<1>7. q \in Nat /\ y \in Nat /\ y < F /\ p = F * q + y
  BY <1>1, <1>3, <1>4
<1>9. p % F = y /\ p \div F = q
  <2> HIDE DEF q
  <2> QED
    BY <1>1, <1>5, <1>7, DivModUnique
<1>8. (p \div F) % E = x
  <2>1. p \div F = E * s + x
    BY <1>9
  <2>2. E * s + x \in Nat
    BY <1>1, <1>4, TimesNat
  <2>3. (E * s + x) % E = x
    BY <1>1, <1>4, <2>2, DivModUnique
  <2> QED
    BY <2>1, <2>3
<1> QED
  BY <1>2, <1>5, <1>6, <1>8, <1>9, Zenon DEF p, E, F

\* ToFloat in terms of the three fields.
ShiftOf(y) == CHOOSE k \in 0 .. HalfMantissa : (y * 2 ^ k) \div 2 ^ HalfMantissa = 1

\* The float of a Float16 by the kind of its exponent.
Decoded(s, x, y) ==
  CASE x = 2 ^ HalfExponent - 1 -> Pattern(s, 2 ^ FloatExponent - 1, y * Dropped)
    [] x = 0 /\ y = 0 -> Pattern(s, 0, 0 * Dropped)
    [] x = 0 /\ y # 0 -> Pattern(s, 1 - HalfBias - ShiftOf(y) + FloatBias,
                                  (y * 2 ^ ShiftOf(y) - 2 ^ HalfMantissa) * Dropped)
    [] OTHER -> Pattern(s, x + FloatBias - HalfBias, y * Dropped)

\* Float16ToFloat depends on the fields in this way.
LEMMA Decode ==
  ASSUME NEW s \in Nat, NEW x \in 0 .. 2 ^ HalfExponent - 1, NEW y \in 0 .. 2 ^ HalfMantissa - 1
  PROVE  Float16ToFloat(HalfPattern(s, x, y)) = Decoded(s, x, y)
<1> DEFINE bits == HalfPattern(s, x, y)
<1>1. Float16ToFloat(bits)
        = Decoded(bits \div 2 ^ (HalfExponent + HalfMantissa),
                  (bits \div 2 ^ HalfMantissa) % 2 ^ HalfExponent, bits % 2 ^ HalfMantissa)
  <2> HIDE DEF bits
  <2> QED
    BY Zenon DEF Float16ToFloat, Decoded, Pattern, Dropped, ShiftOf
<1>2. /\ bits \div 2 ^ (HalfExponent + HalfMantissa) = s
      /\ (bits \div 2 ^ HalfMantissa) % 2 ^ HalfExponent = x
      /\ bits % 2 ^ HalfMantissa = y
  BY FieldsOfHalf
<1> HIDE DEF bits
<1> QED
  BY <1>1, <1>2, Zenon DEF bits

\* Infinity and NaN.
LEMMA DecodeLarge ==
  ASSUME NEW s \in Nat, NEW y \in 0 .. 2 ^ HalfMantissa - 1
  PROVE  Float16ToFloat(HalfPattern(s, 2 ^ HalfExponent - 1, y))
           = Pattern(s, 2 ^ FloatExponent - 1, y * Dropped)
<1>1. 2 ^ HalfExponent - 1 \in 0 .. 2 ^ HalfExponent - 1 /\ 2 ^ HalfExponent - 1 # 0
  BY HalfPowers
<1>2. Float16ToFloat(HalfPattern(s, 2 ^ HalfExponent - 1, y)) = Decoded(s, 2 ^ HalfExponent - 1, y)
  BY <1>1, Decode
<1>3. Decoded(s, 2 ^ HalfExponent - 1, y) = Pattern(s, 2 ^ FloatExponent - 1, y * Dropped)
  BY <1>1, Zenon DEF Decoded
<1> QED
  BY <1>2, <1>3

\* Zero.
LEMMA DecodeZero ==
  ASSUME NEW s \in Nat
  PROVE  Float16ToFloat(HalfPattern(s, 0, 0)) = Pattern(s, 0, 0)
<1>1. /\ 0 \in 0 .. 2 ^ HalfExponent - 1 /\ 0 \in 0 .. 2 ^ HalfMantissa - 1
      /\ 0 # 2 ^ HalfExponent - 1
  BY HalfPowers
<1>2. 0 * Dropped = 0
  BY HalfPowers
<1>3. Float16ToFloat(HalfPattern(s, 0, 0)) = Decoded(s, 0, 0)
  BY <1>1, Decode
<1>4. Decoded(s, 0, 0) = Pattern(s, 0, 0 * Dropped)
  BY <1>1, Zenon DEF Decoded
<1> QED
  BY <1>2, <1>3, <1>4

\* A Float16 with a hidden bit.
LEMMA DecodeNormal ==
  ASSUME NEW s \in Nat, NEW x \in 1 .. 2 ^ HalfExponent - 2, NEW y \in 0 .. 2 ^ HalfMantissa - 1
  PROVE  Float16ToFloat(HalfPattern(s, x, y))
           = Pattern(s, x + FloatBias - HalfBias, y * Dropped)
<1>1. /\ x \in 0 .. 2 ^ HalfExponent - 1
      /\ x # 2 ^ HalfExponent - 1 /\ x # 0
  BY HalfPowers
<1> QED
  BY <1>1, Decode DEF Decoded

\* The shift that puts the first bit of a mantissa in the place of the hidden one.
LEMMA ShiftExists ==
  ASSUME NEW y \in Nat, y > 0, y < 2 ^ HalfMantissa
  PROVE  \E k \in 0 .. HalfMantissa : (y * 2 ^ k) \div 2 ^ HalfMantissa = 1
<1> DEFINE H == 2 ^ HalfMantissa
           S == {k \in Nat : H <= y * 2 ^ k}
<1>1. H \in Nat /\ H >= 2 /\ HalfMantissa \in Nat
  BY HalfPowers, Widths
<1>2. HalfMantissa \in S
  <2>1. 1 * H <= y * H
    BY <1>1, TimesMonotone
  <2> QED
    BY <1>1, <2>1
<1>3. PICK k \in S : \A j \in S : k <= j
  <2>1. S \in SUBSET Nat /\ S # {}
    BY <1>2
  <2> QED
    BY <2>1, LeastNumber
<1>4. k # 0
  <2>1. SUFFICES ASSUME k = 0 PROVE FALSE
    OBVIOUS
  <2>2. 2 ^ k = 1
    BY <2>1, PowerZero, Zenon
  <2> QED
    BY <1>1, <1>3, <2>2
<1>5. k - 1 \in Nat /\ k - 1 \notin S /\ (k - 1) + 1 = k /\ k \in Nat /\ k <= HalfMantissa
  BY <1>2, <1>3, <1>4
<1> DEFINE a == 2 ^ (k - 1)
           b == 2 ^ k
<1>6. a \in Nat /\ b \in Nat /\ b = 2 * a
  BY <1>5, PowerNat, PowerNext
<1>7. ~(H <= y * a) /\ H <= y * b
  BY <1>3, <1>5
<1> HIDE DEF a, b, H
<1>8. y * b = 2 * (y * a) /\ y * a \in Nat /\ y * b \in Nat
  BY <1>6
<1>9. y * b - H \in Nat /\ y * b - H < H
  BY <1>1, <1>7, <1>8
<1> DEFINE z == y * b
           r == z - H
<1>10. z \in Nat /\ r \in Nat /\ r < H /\ z = H * 1 + r
  BY <1>1, <1>8, <1>9
<1> HIDE DEF z, r
<1>11. z \div H = 1
  BY <1>1, <1>10, DivModUnique
<1> QED
  BY <1>1, <1>5, <1>11 DEF z, b, H

\* A Float16 without a hidden bit.
LEMMA DecodeSubnormal ==
  ASSUME NEW s \in Nat, NEW y \in Nat, y > 0, y < 2 ^ HalfMantissa
  PROVE  \E k \in 1 .. HalfMantissa :
           /\ 2 ^ HalfMantissa <= y * 2 ^ k /\ y * 2 ^ k < 2 * 2 ^ HalfMantissa
           /\ Float16ToFloat(HalfPattern(s, 0, y))
                = Pattern(s, 1 - HalfBias - k + FloatBias, (y * 2 ^ k - 2 ^ HalfMantissa) * Dropped)
<1> DEFINE H == 2 ^ HalfMantissa
           k == ShiftOf(y)
<1>1. k \in 0 .. HalfMantissa /\ (y * 2 ^ k) \div H = 1
  BY ShiftExists DEF ShiftOf
<1>2. /\ 0 \in 0 .. 2 ^ HalfExponent - 1 /\ y \in 0 .. 2 ^ HalfMantissa - 1
      /\ 0 # 2 ^ HalfExponent - 1 /\ ~(y = 0)
  BY HalfPowers
<1>3. Float16ToFloat(HalfPattern(s, 0, y))
        = Pattern(s, 1 - HalfBias - k + FloatBias, (y * 2 ^ k - H) * Dropped)
  BY <1>2, Decode DEF Decoded
<1> HIDE DEF k
<1>4. H <= y * 2 ^ k /\ y * 2 ^ k < 2 * H
  <2> DEFINE b == 2 ^ k
             z == y * b
  <2>1. b \in Nat
    BY <1>1, PowerNat, Widths
  <2>2. H \in Nat /\ H > 0
    BY HalfPowers
  <2> HIDE DEF b, H
  <2>3. z \in Nat
    BY <2>1
  <2>4. z \div H = 1
    BY <1>1 DEF b
  <2> HIDE DEF z
  <2>5. z % H \in Nat /\ z % H < H /\ z = H * 1 + (z % H)
    BY <2>2, <2>3, <2>4, DivMod
  <2>6. H <= z /\ z < 2 * H
    BY <2>2, <2>3, <2>5
  <2> QED
    BY <2>6 DEF z, b
<1>5. k # 0
  <2>1. SUFFICES ASSUME k = 0 PROVE FALSE
    OBVIOUS
  <2>2. 2 ^ k = 1
    BY <2>1, PowerZero, Zenon
  <2> QED
    BY <1>4, <2>2, HalfPowers
<1>6. k \in 1 .. HalfMantissa
  BY <1>1, <1>5, Widths
<1> QED
  BY <1>3, <1>4, <1>6

\* FromFloat in terms of the exponent.
Encoded(bits, exponent) ==
  HalfSign(bits) +
  CASE exponent > HalfBias -> HalfInfinity +
         (IF IsNaN(bits) THEN 2 ^ (HalfMantissa - 1) ELSE 0)
    [] exponent \in 1 - HalfBias .. HalfBias ->
         (exponent + HalfBias) * 2 ^ HalfMantissa + (Mantissa(bits) \div Dropped)
    [] exponent \in 1 - HalfBias - HalfMantissa .. - HalfBias ->
         (2 ^ FloatMantissa + Mantissa(bits))
           \div (Dropped * 2 ^ (1 - HalfBias - exponent))
    [] OTHER -> 0

\* Float16FromFloat depends on the exponent in this way.
LEMMA Encode ==
  ASSUME NEW bits
  PROVE  Float16FromFloat(bits) = Encoded(bits, Exponent(bits) - FloatBias)
BY Zenon DEF Float16FromFloat, Encoded, Dropped

\* By the exponent: a float too large, or infinity, or a NaN.
LEMMA EncodeLarge ==
  ASSUME NEW v \in Nat, Exponent(v) > FloatBias + HalfBias
  PROVE  Float16FromFloat(v)
           = HalfPattern(Sign(v), 2 ^ HalfExponent - 1, IF IsNaN(v) THEN 2 ^ (HalfMantissa - 1) ELSE 0)
<1>1. Exponent(v) \in Nat
  BY PatternOfFields, FloatPowers
<1>2. /\ Exponent(v) - FloatBias > HalfBias
      /\ ~(Exponent(v) - FloatBias \in 1 - HalfBias .. HalfBias)
      /\ ~(Exponent(v) - FloatBias \in 1 - HalfBias - HalfMantissa .. - HalfBias)
  BY <1>1, Biases
<1>3. Float16FromFloat(v) = HalfSign(v) + (HalfInfinity + (IF IsNaN(v) THEN 2 ^ (HalfMantissa - 1) ELSE 0))
  <2>1. Encoded(v, Exponent(v) - FloatBias)
          = HalfSign(v) + (HalfInfinity + (IF IsNaN(v) THEN 2 ^ (HalfMantissa - 1) ELSE 0))
    BY <1>2, Zenon DEF Encoded
  <2> QED
    BY <2>1, Encode
<1>4. HalfSign(v) \in Nat /\ HalfInfinity \in Nat
  BY HalfPowers, PatternOfFields DEF HalfSign, HalfInfinity
<1> QED
  BY <1>3, <1>4, HalfPowers DEF HalfPattern, HalfSign, HalfInfinity

\* A float with the exponent of a Float16.
LEMMA EncodeNormal ==
  ASSUME NEW v \in Nat, NEW x \in 1 .. 2 * HalfBias, Exponent(v) = x + FloatBias - HalfBias
  PROVE  Float16FromFloat(v) = HalfPattern(Sign(v), x, Mantissa(v) \div Dropped)
<1>1. /\ ~(Exponent(v) - FloatBias > HalfBias)
      /\ Exponent(v) - FloatBias \in 1 - HalfBias .. HalfBias
      /\ Exponent(v) - FloatBias + HalfBias = x
  BY Biases
<1>2. Float16FromFloat(v) = HalfSign(v) + (x * 2 ^ HalfMantissa + (Mantissa(v) \div Dropped))
  <2> DEFINE z == Exponent(v) - FloatBias
  <2>1. /\ ~(z > HalfBias) /\ z \in 1 - HalfBias .. HalfBias /\ z + HalfBias = x
        /\ ~(z \in 1 - HalfBias - HalfMantissa .. - HalfBias)
    BY <1>1, Biases
  <2> HIDE DEF z
  <2>2. Encoded(v, z) = HalfSign(v) + (x * 2 ^ HalfMantissa + (Mantissa(v) \div Dropped))
    BY <2>1, Zenon DEF Encoded
  <2> QED
    BY <2>2, Encode DEF z
<1>3. HalfSign(v) \in Nat /\ x * 2 ^ HalfMantissa \in Nat /\ Mantissa(v) \div Dropped \in Nat
  BY HalfPowers, PatternOfFields, FloatPowers, DivMod DEF HalfSign
<1> QED
  BY <1>2, <1>3 DEF HalfPattern, HalfSign

\* A float that is g places below these exponents.
LEMMA EncodeSubnormal ==
  ASSUME NEW v \in Nat, NEW g \in 1 .. HalfMantissa, Exponent(v) = 1 - HalfBias - g + FloatBias
  PROVE  Float16FromFloat(v)
           = HalfPattern(Sign(v), 0, (2 ^ FloatMantissa + Mantissa(v)) \div (Dropped * 2 ^ g))
<1>1. /\ ~(Exponent(v) - FloatBias > HalfBias)
      /\ ~(Exponent(v) - FloatBias \in 1 - HalfBias .. HalfBias)
      /\ Exponent(v) - FloatBias \in 1 - HalfBias - HalfMantissa .. - HalfBias
      /\ 1 - HalfBias - (Exponent(v) - FloatBias) = g
  BY Biases, Widths
<1> DEFINE y == (2 ^ FloatMantissa + Mantissa(v)) \div (Dropped * 2 ^ g)
<1>2. Float16FromFloat(v) = HalfSign(v) + y
  BY <1>1, Encode DEF Encoded
<1>3. HalfSign(v) \in Nat
  BY HalfPowers, PatternOfFields DEF HalfSign
<1>4. 0 * 2 ^ HalfMantissa = 0
  BY HalfPowers
<1> HIDE DEF y
<1>5. HalfPattern(Sign(v), 0, y) = HalfSign(v) + y
  BY <1>3, <1>4 DEF HalfPattern, HalfSign
<1> QED
  BY <1>2, <1>5 DEF y

\* A float below the smallest Float16.
LEMMA EncodeSmall ==
  ASSUME NEW v \in Nat, Exponent(v) <= FloatBias - HalfBias - HalfMantissa
  PROVE  Float16FromFloat(v) = HalfPattern(Sign(v), 0, 0)
<1>1. Exponent(v) \in Nat
  BY PatternOfFields, FloatPowers
<1>2. /\ ~(Exponent(v) - FloatBias > HalfBias)
      /\ ~(Exponent(v) - FloatBias \in 1 - HalfBias .. HalfBias)
      /\ ~(Exponent(v) - FloatBias \in 1 - HalfBias - HalfMantissa .. - HalfBias)
  BY <1>1, Biases, Widths
<1>3. Float16FromFloat(v) = HalfSign(v) + 0
  BY <1>2, Encode DEF Encoded
<1>4. HalfSign(v) \in Nat /\ 0 * 2 ^ HalfMantissa = 0
  BY HalfPowers, PatternOfFields DEF HalfSign
<1> QED
  BY <1>3, <1>4 DEF HalfPattern, HalfSign

\* A float is smaller than the next power of two.
LEMMA MagnitudeBelow ==
  ASSUME NEW p \in Nat
  PROVE  Magnitude(p) < 2 ^ FloatMantissa * 2 ^ Exponent(p)
<1> DEFINE F == 2 ^ FloatMantissa
           e == Exponent(p)
           m == Mantissa(p)
           u == Ulp(e)
<1>1. F \in Nat /\ F > 0 /\ e \in Nat /\ m \in 0 .. F - 1
  BY PatternOfFields, FloatPowers
<1>2. u \in Nat /\ u > 0
  BY <1>1, UlpPositive
<1>3. CASE e = 0
  <2>1. Magnitude(p) = m
    BY <1>3 DEF Magnitude
  <2>2. 2 ^ e = 1
    BY <1>3, PowerZero, Zenon
  <2> QED
    BY <1>1, <2>1, <2>2
<1>4. CASE e # 0
  <2>1. Magnitude(p) = (F + m) * u
    BY <1>4, MagnitudeOfFields
  <2>2. 2 ^ e = 2 * u
    BY <1>1, <1>4, UlpNext
  <2> HIDE DEF F, u, m, e
  <2>3. (F + m) * u < (2 * F) * u
    BY <1>1, <1>2, TimesStrict
  <2>4. (2 * F) * u = F * (2 * u)
    BY <1>1, <1>2
  <2> QED
    BY <2>1, <2>2, <2>3, <2>4 DEF F, e
<1> QED
  BY <1>3, <1>4

\* The mantissa of a Float16 fits into that of a float.
LEMMA MantissaOfHalf ==
  ASSUME NEW y \in 0 .. 2 ^ HalfMantissa - 1
  PROVE  y * Dropped \in 0 .. 2 ^ FloatMantissa - 1
<1> DEFINE H == 2 ^ HalfMantissa
<1>1. H \in Nat /\ Dropped \in Nat /\ Dropped > 0 /\ 2 ^ FloatMantissa = Dropped * H /\ y \in Nat /\ y < H
  BY HalfPowers
<1> HIDE DEF H
<1>2. y * Dropped < H * Dropped /\ H * Dropped = Dropped * H
  BY <1>1, TimesStrict
<1>3. y * Dropped \in Nat /\ Dropped * H \in Nat
  BY <1>1
<1> QED
  BY <1>1, <1>2, <1>3

\* What is claimed of the cast of v to half.
Float16IsRight(v, half) ==
  LET float == Float16ToFloat(half)
  IN  /\ Sign(float) = Sign(v)
      /\ IsNaN(v) <=> IsNaN(float)
      /\ ~IsNaN(v) => Float16FromFloat(float) = half
      /\ ~IsNaN(v) /\ Exponent(v) - FloatBias <= HalfBias =>
           /\ Magnitude(float) <= Magnitude(v)
           /\ Magnitude(v) < Magnitude(Float16ToFloat(half + 1))
      /\ ~IsNaN(v) /\ Exponent(v) - FloatBias > HalfBias =>
           half % 2 ^ (HalfExponent + HalfMantissa) = HalfInfinity

\* A float beyond the largest Float16, or infinity, or a NaN.
LEMMA LargeIsRight ==
  ASSUME NEW v \in Nat, Exponent(v) > FloatBias + HalfBias
  PROVE  Float16IsRight(v, Float16FromFloat(v))
<1> DEFINE s == Sign(v)
           y == IF IsNaN(v) THEN 2 ^ (HalfMantissa - 1) ELSE 0
           half == HalfPattern(s, 2 ^ HalfExponent - 1, y)
           float == Pattern(s, 2 ^ FloatExponent - 1, y * Dropped)
<1>1. s \in Nat /\ Exponent(v) \in Nat
  BY PatternOfFields, FloatPowers
<1>2. y \in 0 .. 2 ^ HalfMantissa - 1
  BY HalfPowers
<1>3. Float16FromFloat(v) = half
  BY EncodeLarge
<1>4. Float16ToFloat(half) = float
  BY <1>1, <1>2, DecodeLarge
<1>5. y * Dropped \in 0 .. 2 ^ FloatMantissa - 1
  BY <1>2, MantissaOfHalf
<1>6. 2 ^ FloatExponent - 1 \in 0 .. 2 ^ FloatExponent - 1
  BY FloatPowers
<1> HIDE DEF y
<1>7. float \in Nat /\ Sign(float) = s /\ Exponent(float) = 2 ^ FloatExponent - 1 /\ Mantissa(float) = y * Dropped
  BY <1>1, <1>5, <1>6, FieldsOfPattern
<1>8. y * Dropped = 0 <=> ~IsNaN(v)
  <2>1. CASE IsNaN(v)
    <3> DEFINE x == 2 ^ (HalfMantissa - 1)
    <3>1. x \in Nat /\ x > 0 /\ Dropped \in Nat /\ Dropped > 0 /\ y = x
      BY <2>1, HalfPowers DEF y
    <3> HIDE DEF x
    <3>2. x * Dropped > 0 * Dropped
      BY <3>1, TimesStrict
    <3> QED
      BY <2>1, <3>1, <3>2
  <2>2. CASE ~IsNaN(v)
    BY <2>2, HalfPowers DEF y
  <2> QED
    BY <2>1, <2>2
<1>9. IsNaN(float) <=> IsNaN(v)
  BY <1>7, <1>8 DEF IsNaN
<1>10. ~IsNaN(v) => Float16FromFloat(float) = half
  <2>1. Exponent(float) > FloatBias + HalfBias
    BY <1>7, Biases, Widths
  <2>2. Float16FromFloat(float) = HalfPattern(s, 2 ^ HalfExponent - 1, IF IsNaN(float) THEN 2 ^ (HalfMantissa - 1) ELSE 0)
    BY <1>7, <2>1, EncodeLarge
  <2> QED
    BY <1>9, <2>2 DEF y
<1>11. Exponent(v) - FloatBias > HalfBias /\ ~(Exponent(v) - FloatBias <= HalfBias)
  BY <1>1, Biases
<1>12. ~IsNaN(v) => half % 2 ^ (HalfExponent + HalfMantissa) = HalfInfinity
  <2> DEFINE K == 2 ^ HalfExponent
             H == 2 ^ HalfMantissa
             W == K * H
             r == (K - 1) * H
  <2>1. K \in Nat /\ H \in Nat /\ H > 0 /\ K >= 4 /\ 2 ^ (HalfExponent + HalfMantissa) = W
    BY HalfPowers
  <2>2. ~IsNaN(v) => y = 0
    BY DEF y
  <2>3. HalfInfinity = r
    BY DEF HalfInfinity
  <2>4. half = s * W + r + y
    BY <2>1 DEF HalfPattern
  <2> HIDE DEF half, K, H
  <2>5. r \in Nat /\ W \in Nat /\ r < W
    <3>1. (K - 1) * H = K * H - H /\ K * H \in Nat
      BY <2>1
    <3>2. (K - 1) * H \in Nat
      BY <2>1
    <3> QED
      BY <2>1, <3>1, <3>2
  <2> HIDE DEF W, r
  <2>6. ~IsNaN(v) => half = W * s + r
    BY <1>1, <2>2, <2>4, <2>5
  <2>7. ASSUME ~IsNaN(v) PROVE half % W = r
    <3>1. half \in Nat /\ W > 0 /\ s \in Nat /\ half = W * s + r
      BY <1>1, <2>5, <2>6, <2>7
    <3> QED
      BY <2>5, <3>1, DivModUnique
  <2> QED
    BY <2>1, <2>3, <2>7 DEF W
<1> QED
  BY <1>3, <1>4, <1>7, <1>9, <1>10, <1>11, <1>12 DEF Float16IsRight

\* A float with a whole number of Float16 mantissas, and the one after it.
LEMMA NormalIsRight ==
  ASSUME NEW v \in Nat, NEW x \in 1 .. 2 * HalfBias, Exponent(v) = x + FloatBias - HalfBias
  PROVE  Float16IsRight(v, Float16FromFloat(v))
<1> DEFINE F == 2 ^ FloatMantissa
           H == 2 ^ HalfMantissa
           s == Sign(v)
           e == Exponent(v)
           m == Mantissa(v)
           y == m \div Dropped
           u == 2 ^ (e - 1)
           half == HalfPattern(s, x, y)
           float == Pattern(s, e, y * Dropped)
<1>1. /\ F \in Nat /\ F > 0 /\ H \in Nat /\ H >= 2 /\ F = Dropped * H
      /\ Dropped \in Nat /\ Dropped > 0
  BY FloatPowers, HalfPowers
<1>2. s \in Nat /\ e \in 0 .. 2 ^ FloatExponent - 1 /\ m \in 0 .. F - 1
  BY PatternOfFields
<1>3. /\ e - 1 \in Nat /\ e \in Nat /\ e > 0 /\ e = x + FloatBias - HalfBias /\ e <= FloatBias + HalfBias
      /\ 2 ^ FloatExponent = 2 * FloatBias + 2 /\ 2 ^ HalfExponent = 2 * HalfBias + 2
      /\ FloatBias \in Nat /\ HalfBias \in Nat /\ HalfBias < FloatBias
  BY Biases, Widths
<1>4. u \in Nat /\ u > 0 /\ Ulp(e) = u
  BY <1>3, PowerPositive DEF Ulp
<1>5. y \in 0 .. H - 1 /\ m = y * Dropped + (m % Dropped) /\ m % Dropped \in 0 .. Dropped - 1
  <2>1. y \in Nat /\ m % Dropped \in Nat /\ m % Dropped < Dropped /\ m = Dropped * y + (m % Dropped)
    <3>1. m \in Nat
      BY <1>1, <1>2
    <3> HIDE DEF m
    <3> QED
      BY <1>1, <3>1, DivMod
  <2> HIDE DEF y, m, F, H
  <2>2. ~(H <= y)
    <3>1. SUFFICES ASSUME H <= y PROVE FALSE
      OBVIOUS
    <3>2. Dropped * H <= Dropped * y
      BY <1>1, <2>1, <3>1, TimesMonotone
    <3>3. Dropped * y \in Nat /\ Dropped * H \in Nat
      BY <1>1, <2>1
    <3> QED
      BY <1>1, <1>2, <2>1, <3>2, <3>3
  <2>3. Dropped * y = y * Dropped
    BY <1>1, <2>1
  <2> QED
    BY <1>1, <2>1, <2>2, <2>3
<1>6. Float16FromFloat(v) = half
  BY EncodeNormal
<1> HIDE DEF y
<1>7. Float16ToFloat(half) = float
  <2>1. x \in 1 .. 2 ^ HalfExponent - 2
    BY <1>3
  <2> QED
    BY <1>2, <1>3, <1>5, <2>1, DecodeNormal
<1>8. y * Dropped \in 0 .. F - 1
  BY <1>5, MantissaOfHalf
<1>9. float \in Nat /\ Sign(float) = s /\ Exponent(float) = e /\ Mantissa(float) = y * Dropped
  BY <1>2, <1>8, FieldsOfPattern
<1>10. ~IsNaN(v) /\ ~IsNaN(float)
  BY <1>3, <1>9 DEF IsNaN
<1>11. Float16FromFloat(float) = half
  <2>1. (y * Dropped) \div Dropped = y
    <3> DEFINE z == y * Dropped
    <3>1. z \in Nat /\ z = Dropped * y + 0 /\ y \in Nat
      BY <1>1, <1>5
    <3> HIDE DEF z
    <3>2. z \div Dropped = y
      BY <1>1, <3>1, DivModUnique
    <3> QED
      BY <3>2 DEF z
  <2>2. Float16FromFloat(float) = HalfPattern(Sign(float), x, Mantissa(float) \div Dropped)
    BY <1>3, <1>9, EncodeNormal
  <2> QED
    BY <1>9, <2>1, <2>2
<1>12. Magnitude(v) = (F + m) * u /\ Magnitude(float) = (F + y * Dropped) * u
  BY <1>3, <1>4, <1>9, MagnitudeOfFields
<1>13. Magnitude(float) <= Magnitude(v)
  <2>1. F + y * Dropped <= F + m /\ F + y * Dropped \in Int /\ F + m \in Int
    BY <1>1, <1>2, <1>5, <1>8
  <2> HIDE DEF F, m, u, float
  <2> QED
    BY <1>4, <1>12, <2>1, TimesMonotone
<1>14. Magnitude(v) < Magnitude(Float16ToFloat(half + 1))
  <2>1. CASE y + 1 < H
    <3> DEFINE next == Pattern(s, e, (y + 1) * Dropped)
    <3>1. half + 1 = HalfPattern(s, x, y + 1)
      <4>1. s * 2 ^ (HalfExponent + HalfMantissa) \in Nat /\ x * H \in Nat /\ y \in Nat
        BY <1>1, <1>2, <1>5, HalfPowers
      <4> QED
        BY <4>1 DEF HalfPattern
    <3>2. y + 1 \in 0 .. H - 1 /\ x \in 1 .. 2 ^ HalfExponent - 2
      BY <1>1, <1>3, <1>5, <2>1
    <3>3. Float16ToFloat(half + 1) = next
      BY <1>2, <1>3, <3>1, <3>2, DecodeNormal
    <3>4. (y + 1) * Dropped \in 0 .. F - 1
      BY <3>2, MantissaOfHalf
    <3>5. next \in Nat /\ Exponent(next) = e /\ Mantissa(next) = (y + 1) * Dropped
      BY <1>2, <3>4, FieldsOfPattern
    <3>6. Magnitude(next) = (F + (y + 1) * Dropped) * u
      BY <1>3, <1>4, <3>5, MagnitudeOfFields
    <3>7. F + m < F + (y + 1) * Dropped
      <4>1. (y + 1) * Dropped = y * Dropped + Dropped
        BY <1>1, <1>5
      <4> QED
        BY <1>1, <1>2, <1>5, <1>8, <4>1
    <3> DEFINE a == F + m
               b == F + (y + 1) * Dropped
    <3>8. a \in Int /\ b \in Int /\ a < b
      BY <1>1, <1>2, <3>4, <3>7
    <3> HIDE DEF a, b, u
    <3>9. a * u < b * u
      BY <1>4, <3>8, TimesStrict
    <3> QED
      BY <1>12, <3>3, <3>6, <3>9 DEF a, b
  <2>2. CASE y + 1 = H
    <3>1. half + 1 = HalfPattern(s, x + 1, 0)
      <4>1. s * 2 ^ (HalfExponent + HalfMantissa) \in Nat /\ x * H \in Nat /\ y \in Nat
        BY <1>1, <1>2, <1>5, HalfPowers
      <4>2. (x + 1) * H = x * H + H
        BY <1>1
      <4> QED
        BY <1>1, <2>2, <4>1, <4>2 DEF HalfPattern
    <3>2. 0 \in 0 .. H - 1 /\ 0 \in 0 .. F - 1 /\ 0 * Dropped = 0
      BY <1>1
    <3>3. Magnitude(v) < F * 2 ^ e
      BY MagnitudeBelow
    <3>4. CASE x + 1 <= 2 * HalfBias
      <4> DEFINE next == Pattern(s, e + 1, 0)
      <4>1. x + 1 \in 1 .. 2 ^ HalfExponent - 2 /\ e + 1 \in 0 .. 2 ^ FloatExponent - 1
        BY <1>3, <3>4
      <4>2. (x + 1) + FloatBias - HalfBias = e + 1
        BY <1>3
      <4>3. Float16ToFloat(half + 1) = next
        BY <1>2, <3>1, <3>2, <4>1, <4>2, DecodeNormal
      <4>4. next \in Nat /\ Exponent(next) = e + 1 /\ Mantissa(next) = 0
        BY <1>2, <3>2, <4>1, FieldsOfPattern
      <4>5. Ulp(e + 1) = 2 ^ e
        BY <1>3, UlpNext
      <4>6. Magnitude(next) = F * 2 ^ e
        BY <1>1, <1>3, <4>4, <4>5, MagnitudeOfFields
      <4> QED
        BY <3>3, <4>3, <4>6
    <3>5. CASE x = 2 * HalfBias
      <4> DEFINE next == Pattern(s, 2 ^ FloatExponent - 1, 0)
                 f == 2 ^ FloatExponent - 1
      <4>1. x + 1 = 2 ^ HalfExponent - 1 /\ f \in 0 .. 2 ^ FloatExponent - 1 /\ f \in Nat
            /\ f - 1 \in Nat /\ f # 0 /\ e <= f - 1
        BY <1>3, <3>5
      <4>2. Float16ToFloat(half + 1) = next
        BY <1>2, <3>1, <3>2, <4>1, DecodeLarge
      <4>3. next \in Nat /\ Exponent(next) = f /\ Mantissa(next) = 0
        BY <1>2, <3>2, <4>1, FieldsOfPattern
      <4> HIDE DEF f, next
      <4>4. Ulp(f) = 2 ^ (f - 1)
        BY <4>1 DEF Ulp
      <4>5. Magnitude(next) = F * 2 ^ (f - 1)
        BY <1>1, <4>1, <4>3, <4>4, MagnitudeOfFields
      <4>6. 2 ^ e <= 2 ^ (f - 1) /\ 2 ^ e \in Nat /\ 2 ^ (f - 1) \in Nat
        BY <1>3, <4>1, PowerMonotone, PowerNat
      <4>7. F * 2 ^ e <= F * 2 ^ (f - 1)
        BY <1>1, <4>6, TimesMonotone
      <4>8. F * 2 ^ e \in Nat /\ F * 2 ^ (f - 1) \in Nat /\ Magnitude(v) \in Nat
        BY <1>1, <4>6, MagnitudeOfFields, TimesNat
      <4> QED
        BY <3>3, <4>2, <4>5, <4>7, <4>8
    <3> QED
      BY <1>3, <3>4, <3>5
  <2> QED
    BY <1>1, <1>5, <2>1, <2>2
<1>15. ~(Exponent(v) - FloatBias > HalfBias)
  BY <1>3
<1> QED
  BY <1>6, <1>7, <1>9, <1>10, <1>11, <1>13, <1>14, <1>15 DEF Float16IsRight

\* A subnormal Float16 counts units, and it comes back unchanged from a float.
LEMMA SubnormalFloat ==
  ASSUME NEW s \in Nat, NEW y \in Nat, y > 0, y < 2 ^ HalfMantissa
  PROVE  LET float == Float16ToFloat(HalfPattern(s, 0, y))
         IN  /\ float \in Nat /\ Sign(float) = s /\ ~IsNaN(float)
             /\ Magnitude(float) = y * Unit
             /\ Float16FromFloat(float) = HalfPattern(s, 0, y)
<1> DEFINE F == 2 ^ FloatMantissa
           H == 2 ^ HalfMantissa
<1>1. /\ F \in Nat /\ F > 0 /\ H \in Nat /\ H >= 2 /\ F = Dropped * H
      /\ Dropped \in Nat /\ Dropped > 0
  BY FloatPowers, HalfPowers
<1>2. PICK k \in 1 .. HalfMantissa :
        /\ H <= y * 2 ^ k /\ y * 2 ^ k < 2 * H
        /\ Float16ToFloat(HalfPattern(s, 0, y))
             = Pattern(s, 1 - HalfBias - k + FloatBias, (y * 2 ^ k - H) * Dropped)
  BY DecodeSubnormal
<1> DEFINE K == 2 ^ k
           w == y * K - H
           e == 1 - HalfBias - k + FloatBias
           u == 2 ^ (e - 1)
           float == Pattern(s, e, w * Dropped)
<1>3. /\ e \in Nat /\ e > 0 /\ e - 1 \in Nat /\ k \in Nat /\ k + (e - 1) = FloatBias - HalfBias
      /\ e \in 0 .. 2 ^ FloatExponent - 1 /\ e < 2 ^ FloatExponent - 1
  BY Biases, Widths
<1>4. K \in Nat /\ K >= 1 /\ u \in Nat /\ u >= 1 /\ K * u = 2 ^ (FloatBias - HalfBias) /\ Ulp(e) = u
  BY <1>3, PowerPositive, PowerOfSum DEF Ulp
<1> HIDE DEF K
<1>5. y * K \in Nat /\ w \in 0 .. H - 1
  BY <1>1, <1>2, <1>4 DEF K
<1>6. w * Dropped \in 0 .. F - 1
  BY <1>5, MantissaOfHalf
<1>7. F + w * Dropped = (Dropped * K) * y
  <2> HIDE DEF F, H
  <2>1. w * Dropped = (y * K) * Dropped - H * Dropped
    BY <1>1, <1>5
  <2>2. (y * K) * Dropped = (Dropped * K) * y /\ H * Dropped = Dropped * H
    BY <1>1, <1>4
  <2>3. (y * K) * Dropped \in Nat /\ H * Dropped \in Nat
    BY <1>1, <1>5
  <2> QED
    BY <1>1, <2>1, <2>2, <2>3
<1>8. Float16ToFloat(HalfPattern(s, 0, y)) = float
  BY <1>2 DEF K
<1>9. float \in Nat /\ Sign(float) = s /\ Exponent(float) = e /\ Mantissa(float) = w * Dropped
  BY <1>3, <1>6, FieldsOfPattern
<1>10. ~IsNaN(float)
  BY <1>3, <1>9 DEF IsNaN
<1>11. Magnitude(float) = y * Unit
  <2>1. Magnitude(float) = ((Dropped * K) * y) * u
    BY <1>3, <1>4, <1>7, <1>9, MagnitudeOfFields
  <2>2. Unit = Dropped * (K * u)
    BY <1>4 DEF Unit
  <2> HIDE DEF u
  <2>3. ((Dropped * K) * y) * u = y * (Dropped * (K * u))
    BY <1>1, <1>4
  <2> QED
    BY <2>1, <2>2, <2>3
<1>12. Float16FromFloat(float) = HalfPattern(s, 0, y)
  <2>1. Float16FromFloat(float) = HalfPattern(s, 0, (F + w * Dropped) \div (Dropped * K))
    BY <1>3, <1>9, EncodeSubnormal DEF K
  <2> DEFINE C == Dropped * K
             a == F + w * Dropped
  <2>2. C \in Nat /\ C > 0
    BY <1>1, <1>4
  <2>3. a \in Nat /\ a = C * y + 0
    <3>1. C * y \in Nat
      BY <2>2
    <3> QED
      BY <1>7, <3>1
  <2> HIDE DEF C, a
  <2>4. a \div C = y
    BY <2>2, <2>3, DivModUnique
  <2> QED
    BY <2>1, <2>4 DEF a, C
<1> QED
  BY <1>8, <1>9, <1>10, <1>11, <1>12

\* The Float16 that is zero.
LEMMA ZeroHalf ==
  ASSUME NEW s \in Nat
  PROVE  LET float == Float16ToFloat(HalfPattern(s, 0, 0))
         IN  /\ float \in Nat /\ Sign(float) = s /\ ~IsNaN(float)
             /\ Exponent(float) = 0 /\ Magnitude(float) = 0
<1> DEFINE float == Pattern(s, 0, 0)
<1>1. Float16ToFloat(HalfPattern(s, 0, 0)) = float
  BY DecodeZero
<1>2. 0 \in 0 .. 2 ^ FloatExponent - 1 /\ 0 \in 0 .. 2 ^ FloatMantissa - 1
  BY FloatPowers
<1>3. float \in Nat /\ Sign(float) = s /\ Exponent(float) = 0 /\ Mantissa(float) = 0
  BY <1>2, FieldsOfPattern
<1>4. ~IsNaN(float) /\ Magnitude(float) = 0
  BY <1>3 DEF IsNaN, Magnitude
<1> QED
  BY <1>1, <1>3, <1>4

\* The Float16 after a subnormal one is one unit larger, the first normal one too.
LEMMA NextSubnormal ==
  ASSUME NEW s \in Nat, NEW y \in Nat, y < 2 ^ HalfMantissa
  PROVE  Magnitude(Float16ToFloat(HalfPattern(s, 0, y) + 1)) = (y + 1) * Unit
<1> DEFINE F == 2 ^ FloatMantissa
           H == 2 ^ HalfMantissa
<1>1. /\ F \in Nat /\ F > 0 /\ H \in Nat /\ H >= 2 /\ F = Dropped * H
      /\ Dropped \in Nat /\ Dropped > 0
      /\ s * 2 ^ (HalfExponent + HalfMantissa) \in Nat
  BY FloatPowers, HalfPowers
<1>2. CASE y + 1 < H
  <2>1. HalfPattern(s, 0, y) + 1 = HalfPattern(s, 0, y + 1)
    BY <1>1 DEF HalfPattern
  <2>2. y + 1 \in Nat /\ y + 1 > 0
    OBVIOUS
  <2> QED
    BY <1>2, <2>1, <2>2, SubnormalFloat
<1>3. CASE y + 1 = H
  <2> DEFINE e == 1 + FloatBias - HalfBias
             next == Pattern(s, e, 0)
  <2>1. HalfPattern(s, 0, y) + 1 = HalfPattern(s, 1, 0)
    BY <1>1, <1>3 DEF HalfPattern
  <2>2. /\ 1 \in 1 .. 2 ^ HalfExponent - 2 /\ e \in 0 .. 2 ^ FloatExponent - 1 /\ e > 0
        /\ e - 1 = FloatBias - HalfBias /\ e \in Nat
    BY Biases, Widths
  <2>3. 0 \in 0 .. H - 1 /\ 0 \in 0 .. F - 1 /\ 0 * Dropped = 0
    BY <1>1
  <2>4. Float16ToFloat(HalfPattern(s, 1, 0)) = next
    BY <2>2, <2>3, DecodeNormal
  <2>5. next \in Nat /\ Exponent(next) = e /\ Mantissa(next) = 0
    BY <2>2, <2>3, FieldsOfPattern
  <2> HIDE DEF next
  <2> DEFINE u == 2 ^ (FloatBias - HalfBias)
  <2>6. u \in Nat /\ Ulp(e) = u
    BY <2>2, PowerNat DEF Ulp
  <2>7. Magnitude(next) = F * u
    BY <1>1, <2>2, <2>5, <2>6, MagnitudeOfFields
  <2> HIDE DEF u
  <2>8. F * u = H * (Dropped * u)
    BY <1>1, <2>6
  <2> QED
    BY <1>3, <2>1, <2>4, <2>7, <2>8 DEF Unit, u
<1> QED
  BY <1>1, <1>2, <1>3

\* A float that becomes a subnormal Float16.
LEMMA SubnormalIsRight ==
  ASSUME NEW v \in Nat, NEW g \in 1 .. HalfMantissa, Exponent(v) = 1 - HalfBias - g + FloatBias
  PROVE  Float16IsRight(v, Float16FromFloat(v))
<1> DEFINE F == 2 ^ FloatMantissa
           H == 2 ^ HalfMantissa
           G == 2 ^ g
           C == Dropped * G
           s == Sign(v)
           e == Exponent(v)
           m == Mantissa(v)
           y == (F + m) \div C
           r == (F + m) % C
           u == 2 ^ (e - 1)
           half == HalfPattern(s, 0, y)
           float == Float16ToFloat(half)
<1>1. /\ F \in Nat /\ F > 0 /\ H \in Nat /\ H >= 2 /\ F = Dropped * H
      /\ Dropped \in Nat /\ Dropped > 0
  BY FloatPowers, HalfPowers
<1>2. s \in Nat /\ m \in 0 .. F - 1
  BY PatternOfFields
<1>3. /\ e \in Nat /\ e > 0 /\ e - 1 \in Nat /\ g \in Nat /\ g + (e - 1) = FloatBias - HalfBias
      /\ e < 2 ^ FloatExponent - 1
      /\ g - 1 \in Nat /\ g <= HalfMantissa /\ HalfMantissa \in Nat
  BY Biases, Widths
<1>4. u \in Nat /\ u >= 1 /\ G * u = 2 ^ (FloatBias - HalfBias) /\ Ulp(e) = u
  BY <1>3, PowerPositive, PowerOfSum DEF Ulp
<1>5. G \in Nat /\ G >= 2 /\ G <= H
  <2>1. G <= H
    BY <1>3, PowerMonotone
  <2>2. G = 2 * 2 ^ (g - 1) /\ 2 ^ (g - 1) \in Nat /\ 2 ^ (g - 1) >= 1
    BY <1>3, PowerNext, PowerPositive
  <2> QED
    BY <2>1, <2>2
<1>6. C * u = Unit
  <2> HIDE DEF u, G
  <2>1. (Dropped * G) * u = Dropped * (G * u)
    BY <1>1, <1>4, <1>5
  <2> QED
    BY <1>4, <2>1 DEF Unit
<1> HIDE DEF G, u
<1>7. C \in Nat /\ C > 0 /\ C <= F /\ 2 * F <= C * H
  <2> HIDE DEF F, H
  <2>1. C \in Nat
    BY <1>1, <1>5
  <2>2. Dropped * 2 <= Dropped * G /\ Dropped * G <= Dropped * H
    BY <1>1, <1>5, TimesMonotone
  <2>3. Dropped * 2 > 0
    BY <1>1
  <2>4. (Dropped * 2) * H <= (Dropped * G) * H
    BY <1>1, <2>1, <2>2, TimesMonotone
  <2>5. (Dropped * 2) * H = 2 * (Dropped * H)
    BY <1>1
  <2> QED
    BY <1>1, <2>1, <2>2, <2>3, <2>4, <2>5
<1> HIDE DEF C
<1>8. F + m \in Nat /\ F + m < C * H /\ C <= F + m
  BY <1>1, <1>2, <1>7, TimesNat
<1>9. y \in Nat /\ r \in Nat /\ r < C /\ F + m = C * y + r
  <2> DEFINE a == F + m
  <2>1. a \in Nat
    BY <1>8
  <2> HIDE DEF a
  <2>2. a \div C \in Nat /\ a % C \in Nat /\ a % C < C /\ a = C * (a \div C) + (a % C)
    BY <1>7, <2>1, DivMod
  <2> QED
    BY <2>2 DEF a
<1> HIDE DEF F, H, m, y, r
<1>10. y > 0 /\ y < H
  <2>1. CASE y = 0
    BY <1>7, <1>8, <1>9, <2>1
  <2>2. CASE y >= H
    <3>1. C * H <= C * y /\ C * H \in Nat /\ C * y \in Nat
      BY <1>1, <1>7, <1>9, <2>2, TimesMonotone
    <3> QED
      BY <1>8, <1>9, <3>1
  <2> QED
    BY <1>1, <1>9, <2>1, <2>2
<1>11. Float16FromFloat(v) = half
  BY EncodeSubnormal DEF y, C, G, F, m
<1>12. /\ float \in Nat /\ Sign(float) = s /\ ~IsNaN(float)
       /\ Magnitude(float) = y * Unit /\ Float16FromFloat(float) = half
  BY <1>2, <1>9, <1>10, SubnormalFloat DEF H
<1>13. Magnitude(Float16ToFloat(half + 1)) = (y + 1) * Unit
  BY <1>2, <1>9, <1>10, NextSubnormal DEF H
<1>14. Magnitude(v) = (F + m) * u
  BY <1>3, <1>4, MagnitudeOfFields DEF F, m
<1>15. y * Unit <= (F + m) * u /\ (F + m) * u < (y + 1) * Unit
  <2> DEFINE lo == C * y
             hi == C * (y + 1)
  <2>1. lo \in Nat /\ hi \in Nat /\ hi = C * y + C
    BY <1>7, <1>9
  <2>2. lo <= F + m /\ F + m < hi
    BY <1>7, <1>9, <2>1
  <2>3. lo * u = y * (C * u) /\ hi * u = (y + 1) * (C * u)
    BY <1>4, <1>7, <1>9
  <2> DEFINE a == F + m
  <2>4. a \in Int /\ lo \in Int /\ hi \in Int /\ lo <= a /\ a < hi
    BY <1>8, <2>1, <2>2
  <2> HIDE DEF lo, hi, a
  <2>5. lo * u <= a * u /\ a * u < hi * u
    BY <1>4, <2>4, TimesMonotone, TimesStrict
  <2> QED
    BY <1>6, <2>3, <2>5 DEF a
<1>16. ~IsNaN(v)
  BY <1>3 DEF IsNaN
<1>17. ~(Exponent(v) - FloatBias > HalfBias)
  BY Biases, Widths
<1> QED
  BY <1>11, <1>12, <1>13, <1>14, <1>15, <1>16, <1>17 DEF Float16IsRight

\* A float less than the smallest Float16.
LEMMA SmallIsRight ==
  ASSUME NEW v \in Nat, Exponent(v) <= FloatBias - HalfBias - HalfMantissa
  PROVE  Float16IsRight(v, Float16FromFloat(v))
<1> DEFINE F == 2 ^ FloatMantissa
           H == 2 ^ HalfMantissa
           s == Sign(v)
           e == Exponent(v)
           half == HalfPattern(s, 0, 0)
           float == Float16ToFloat(half)
<1>1. /\ F \in Nat /\ F > 0 /\ H \in Nat /\ H >= 2 /\ F = Dropped * H
      /\ Dropped \in Nat /\ Dropped > 0
  BY FloatPowers, HalfPowers
<1>2. s \in Nat /\ e \in Nat
  BY PatternOfFields, FloatPowers
<1>3. /\ FloatBias - HalfBias \in Nat /\ HalfMantissa \in Nat
      /\ e + HalfMantissa <= FloatBias - HalfBias /\ e + HalfMantissa \in Nat
      /\ e < 2 ^ FloatExponent - 1 /\ ~(e - FloatBias > HalfBias)
      /\ e <= FloatBias - HalfBias - HalfMantissa
  BY <1>2, Biases, Widths
<1>4. ~IsNaN(v)
  BY <1>2, <1>3, FloatPowers DEF IsNaN
<1>5. Float16FromFloat(v) = half
  BY EncodeSmall
<1>6. /\ float \in Nat /\ Sign(float) = s /\ ~IsNaN(float)
      /\ Exponent(float) = 0 /\ Magnitude(float) = 0
  BY <1>2, ZeroHalf
<1>7. Float16FromFloat(float) = half
  <2>1. Exponent(float) <= FloatBias - HalfBias - HalfMantissa
    BY <1>2, <1>3, <1>6
  <2> QED
    BY <1>6, <2>1, EncodeSmall
<1>8. Magnitude(Float16ToFloat(half + 1)) = Unit
  <2>1. 0 \in Nat /\ 0 < H /\ (0 + 1) * Unit = Unit
    BY <1>1, UnitPositive
  <2> QED
    BY <1>2, <2>1, NextSubnormal
<1>9. Magnitude(v) < Unit /\ 0 <= Magnitude(v)
  <2> DEFINE p == 2 ^ e
             t == 2 ^ (FloatBias - HalfBias)
  <2>1. p \in Nat /\ t \in Nat /\ p * H <= t
    <3>1. 2 ^ (e + HalfMantissa) = p * H
      BY <1>2, <1>3, PowerOfSum
    <3> QED
      BY <1>2, <1>3, <3>1, PowerMonotone, PowerNat
  <2>2. Magnitude(v) < F * p /\ Magnitude(v) \in Nat
    BY MagnitudeBelow, MagnitudeOfFields
  <2>3. Unit = Dropped * t
    BY DEF Unit
  <2> HIDE DEF F, H, p, t
  <2>4. F * p = Dropped * (p * H) /\ p * H \in Nat
    BY <1>1, <2>1
  <2>5. Dropped * (p * H) <= Dropped * t
    BY <1>1, <2>1, <2>4, TimesMonotone
  <2>6. Dropped * (p * H) \in Nat /\ Dropped * t \in Nat
    BY <1>1, <2>1, <2>4
  <2> QED
    BY <2>2, <2>3, <2>4, <2>5, <2>6
<1> QED
  BY <1>3, <1>4, <1>5, <1>6, <1>7, <1>8, <1>9 DEF Float16IsRight

\* Every exponent is of one of the four kinds.
LEMMA Float16Rounds ==
  ASSUME NEW v \in Nat
  PROVE  Float16IsRight(v, Float16FromFloat(v))
<1> DEFINE e == Exponent(v)
           x == e - FloatBias + HalfBias
           g == 1 - HalfBias - e + FloatBias
<1>1. e \in Nat /\ FloatBias \in Nat /\ HalfBias \in Nat /\ HalfMantissa \in Nat
  BY PatternOfFields, FloatPowers, Biases, Widths
<1>2. CASE e > FloatBias + HalfBias
  BY <1>2, LargeIsRight
<1>3. CASE x \in 1 .. 2 * HalfBias
  <2>1. Exponent(v) = x + FloatBias - HalfBias
    BY <1>1
  <2> QED
    BY <1>3, <2>1, NormalIsRight
<1>4. CASE g \in 1 .. HalfMantissa
  <2>1. Exponent(v) = 1 - HalfBias - g + FloatBias
    BY <1>1
  <2> QED
    BY <1>4, <2>1, SubnormalIsRight
<1>5. CASE e <= FloatBias - HalfBias - HalfMantissa
  BY <1>5, SmallIsRight
<1> QED
  BY <1>1, <1>2, <1>3, <1>4, <1>5

-----------------------------------------------------------------------------
\* What every state keeps: the reduction is of one of the four types, over
\* values it has, and the element is stored by the cast of its own type.
StoredByItsCast ==
  \/ /\ type \in {"int", "uint"} /\ ranks \in 1 .. MaxRanks /\ value \in Values(type)
     /\ \/ stored = "no"
        \/ \E average \in CastBack(type, IntegerAverage(value, ranks)) : stored = <<average>>
  \/ /\ type = "Float16" /\ value \in FloatPatterns
     /\ stored \in {"no", <<Float16FromFloat(value)>>}
  \/ /\ type = "BFloat16" /\ value \in FloatPatterns
     /\ stored \in {"no", <<BFloat16FromFloat(value)>>}

\* Only the store of its type changes the element.
LEMMA StoresWithItsCast == Spec => []StoredByItsCast
<1>1. Init => StoredByItsCast
  BY DEF Init, StoredByItsCast
<1>2. StoredByItsCast /\ [Next]_vars => StoredByItsCast'
  <2> SUFFICES ASSUME StoredByItsCast, [Next]_vars PROVE StoredByItsCast'
    OBVIOUS
  <2> USE DEF StoredByItsCast
  <2>1. CASE StoreInteger
    BY <2>1 DEF StoreInteger
  <2>2. CASE StoreFloat16
    BY <2>2 DEF StoreFloat16
  <2>3. CASE StoreBFloat16
    BY <2>3 DEF StoreBFloat16
  <2>4. CASE UNCHANGED vars
    BY <2>4 DEF vars
  <2> QED
    BY <2>1, <2>2, <2>3, <2>4 DEF Next
<1> QED
  BY <1>1, <1>2, PTL DEF Spec

\* The integers of a type, in powers of two.
LEMMA IntegerBounds ==
  /\ IntWidth - 2 \in Nat /\ IntWidth - 1 \in Nat /\ IntWidth \in Nat
  /\ 2 ^ (IntWidth - 2) \in Nat /\ 2 ^ (IntWidth - 2) >= 1
  /\ 2 ^ (IntWidth - 1) = 2 * 2 ^ (IntWidth - 2) /\ 2 ^ IntWidth = 2 * 2 ^ (IntWidth - 1)
<1> DEFINE k == IntWidth - 2
<1>1. k \in Nat /\ k + 1 = IntWidth - 1 /\ (k + 1) + 1 = IntWidth /\ k + 1 \in Nat
  BY FormatAssumption
<1> HIDE DEF k
<1>2. 2 ^ (k + 1) = 2 * 2 ^ k /\ 2 ^ ((k + 1) + 1) = 2 * 2 ^ (k + 1)
      /\ 2 ^ k \in Nat /\ 2 ^ k >= 1
  BY <1>1, PowerNext, PowerPositive
<1>3. (k + 1) + 1 \in Nat
  BY <1>1
<1> QED
  BY <1>1, <1>2, <1>3 DEF k

\* All that MeanOfIntegers claims of one sum of the type; on two ranks and more
\* the average is a value of the type.
LEMMA MeanIsInRange ==
  ASSUME NEW integer \in {"int", "uint"}, NEW v \in Values(integer), NEW n \in 1 .. MaxRanks
  PROVE  LET average == IntegerAverage(v, n)
             error == Distance(average * n, v)
         IN  /\ Distance(v, 0) <= 2 ^ (DoubleMantissa + 1) => Double(v) = v
             /\ average * v >= 0
             /\ n > 1 \/ Double(v) \in Values(integer) => average \in Values(integer)
             /\ (\E k \in 0 .. MaxRanks : n = 2 ^ k) => average = Cut(Double(v), n)
             /\ error < n \/ (error - n) * 2 ^ FloatMantissa < Distance(v, 0)
<1> DEFINE w == IF v < 0 THEN 0 - v ELSE v
           q == 2 ^ (IntWidth - 2)
           h == 2 ^ (IntWidth - 1)
           f == 2 ^ IntWidth
           average == IntegerAverage(v, n)
           error == Distance(average * n, v)
<1>1. q \in Nat /\ q >= 1 /\ h = 2 * q /\ f = 2 * h
  BY IntegerBounds
<1>2. n \in Nat /\ n > 0 /\ n <= 2 ^ (FloatBias - 1)
  BY FormatAssumption, OneIs
<1> HIDE DEF q, h, f
<1>3. /\ v \in Int
      /\ IF integer = "int" THEN -h <= v /\ v <= h - 1 ELSE 0 <= v /\ v <= f - 1
  BY <1>1 DEF Values, h, f
<1>4. w \in Nat /\ w <= f /\ (integer = "int" => w <= h) /\ Distance(v, 0) = w
  BY <1>1, <1>3 DEF Distance
<1> HIDE DEF w, error, average
<1>5. /\ average \in Int /\ Double(v) \in Int
      /\ w <= 2 ^ (DoubleMantissa + 1) => Double(v) = v
      /\ average * v >= 0
      /\ (\E k \in Nat : n = 2 ^ k) => average = Cut(Double(v), n)
      /\ error < n \/ (error - n) * 2 ^ FloatMantissa < Distance(v, 0)
      /\ IF v < 0 THEN average <= 0 ELSE average >= 0
      /\ n > 1 => \A t \in Nat : w <= 2 ^ (t + 1) => -2 ^ t <= average /\ average <= 2 ^ t
  BY <1>2, <1>3, <1>4, MeanOfSum DEF average, error, w, f
<1>6. (\E k \in 0 .. MaxRanks : n = 2 ^ k) => (\E k \in Nat : n = 2 ^ k)
  BY FormatAssumption
<1>7. ASSUME n > 1 PROVE average \in Values(integer)
  <2>1. CASE integer = "int"
    <3>1. IntWidth - 2 \in Nat /\ (IntWidth - 2) + 1 = IntWidth - 1
      BY IntegerBounds
    <3>2. w <= 2 ^ ((IntWidth - 2) + 1)
      BY <1>4, <2>1, <3>1 DEF h
    <3>3. -q <= average /\ average <= q
      BY <1>5, <1>7, <3>1, <3>2 DEF q
    <3>4. average \in -h .. h - 1
      BY <1>1, <1>5, <3>3
    <3> QED
      BY <2>1, <3>4 DEF Values, h
  <2>2. CASE integer = "uint"
    <3>1. IntWidth - 1 \in Nat /\ (IntWidth - 1) + 1 = IntWidth
      BY IntegerBounds
    <3>2. w <= 2 ^ ((IntWidth - 1) + 1)
      BY <1>4, <3>1 DEF f
    <3>3. average <= h
      BY <1>5, <1>7, <3>1, <3>2 DEF h
    <3>4. average \in 0 .. f - 1
      BY <1>1, <1>3, <1>5, <2>2, <3>3
    <3> QED
      BY <2>2, <3>4 DEF Values, f
  <2> QED
    BY <2>1, <2>2
<1>8. n = 1 => average = Double(v)
  <2>1. SUFFICES ASSUME n = 1 PROVE average = Double(v)
    OBVIOUS
  <2>2. n = 2 ^ 0
    BY <2>1, PowerZero
  <2>3. average = Cut(Double(v), 1)
    BY <1>5, <2>1, <2>2
  <2>4. \A d \in Int : Cut(d, 1) = d
    BY DEF Cut
  <2> QED
    BY <1>5, <2>3, <2>4
<1>9. n > 1 \/ Double(v) \in Values(integer) => average \in Values(integer)
  BY <1>2, <1>7, <1>8
<1> QED
  BY <1>4, <1>5, <1>6, <1>9 DEF average, error

\* The averages of integers are right for every width, format, size and sum that
\* FormatAssumption allows, 64 bits and a double of 52 among them: the scaling
\* loop of all_reduce.h cuts the sum made a double as integer division does for
\* a power of two, for any size it is as near to the mean as MeanOfIntegers says
\* and keeps its sign, and the cast back is in range on two ranks and more, and
\* on one if the sum made a double is a value of the type.
THEOREM IntegersMean == Spec => []MeanOfIntegers
<1>1. StoredByItsCast => MeanOfIntegers
  <2> SUFFICES ASSUME StoredByItsCast, type \in {"int", "uint"}, stored # "no"
               PROVE  MeanOfIntegers
    BY DEF MeanOfIntegers
  <2>1. ranks \in 1 .. MaxRanks /\ value \in Values(type)
    BY DEF StoredByItsCast
  <2>2. PICK average \in CastBack(type, IntegerAverage(value, ranks)) : stored = <<average>>
    BY DEF StoredByItsCast
  <2>3. stored[1] = average
    BY <2>2
  <2>4. ranks > 1 \/ Double(value) \in Values(type) => average = IntegerAverage(value, ranks)
    BY <2>1, <2>2, MeanIsInRange DEF CastBack
  <2> QED
    BY <2>1, <2>3, <2>4, MeanIsInRange DEF MeanOfIntegers
<1> QED
  BY <1>1, StoresWithItsCast, PTL

\* The casts of data_type_.h round every float as their formats ask, whatever
\* the widths of the formats.
THEOREM HalvesAreRounded == Spec => []HalvesRound
<1>1. StoredByItsCast => HalvesRound
  <2> SUFFICES ASSUME StoredByItsCast PROVE HalvesRound
    OBVIOUS
  <2>1. FloatPatterns \subseteq Nat
    BY FloatPowers DEF FloatPatterns
  <2>2. ASSUME type = "Float16", stored # "no"
        PROVE  Float16IsRight(value, stored[1])
    <3>1. value \in Nat /\ stored = <<Float16FromFloat(value)>>
      BY <2>1, <2>2 DEF StoredByItsCast
    <3>2. stored[1] = Float16FromFloat(value)
      BY <3>1
    <3> QED
      BY <3>1, <3>2, Float16Rounds
  <2>3. ASSUME type = "BFloat16", stored # "no"
        PROVE  value \in FloatPatterns /\ stored[1] = BFloat16FromFloat(value)
    <3>1. value \in FloatPatterns /\ stored = <<BFloat16FromFloat(value)>>
      BY <2>3 DEF StoredByItsCast
    <3> QED
      BY <3>1
  <2> DEFINE low == value - (value % BFloat16ToFloat(1))
             high == low + BFloat16ToFloat(1)
             float == BFloat16ToFloat(stored[1])
             above == Distance(Magnitude(value), Magnitude(low))
             below == Distance(Magnitude(high), Magnitude(value))
  <2>4. ASSUME type = "BFloat16", stored # "no", ~IsNaN(value)
        PROVE  /\ float \in {low, high}
               /\ above < below => float = low
               /\ below < above => float = high
               /\ above = below => stored[1] % 2 = 0
               /\ BFloat16FromFloat(float) = stored[1]
    BY <2>3, <2>4, BFloatRounds
  <2>5. ASSUME type = "BFloat16", stored # "no", IsNaN(value),
               Mantissa(value) = 2 ^ (FloatMantissa - 1)
        PROVE  IsNaN(BFloat16ToFloat(stored[1]))
    BY <2>3, <2>5, QuietStaysNaN
  <2> QED
    BY <2>2, <2>4, <2>5 DEF HalvesRound, Float16IsRight
<1> QED
  BY <1>1, StoresWithItsCast, PTL

=============================================================================

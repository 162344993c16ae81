---------------------------- MODULE TargetProofs ----------------------------
(***************************************************************************)
(* The compact form of targets and the median of timestamps, for every     *)
(* width of a digit, number of digits and number of timestamps.             *)
(***************************************************************************)
EXTENDS LightClient, LeastNumber, FiniteSetTheorems, FunctionTheorems, TLAPS

-----------------------------------------------------------------------------
(* Powers of two.                                                           *)

\* f has the first powers, up to the n-th
IsPow2(f, n) ==
  /\ f \in [0..n -> Nat \ {0}]
  /\ \A k \in 0..n : f[k] = IF k = 0 THEN 1 ELSE 2 * f[k - 1]

\* Powers can be computed up to any argument.
LEMMA Pow2Exists == \A n \in Nat : \E f : IsPow2(f, n)
<1> DEFINE bad == {n \in Nat : ~ \E f : IsPow2(f, n)}
<1>1. SUFFICES ASSUME bad # {} PROVE FALSE
  OBVIOUS
<1>2. PICK n \in bad : \A m \in bad : n <= m
  <2> HIDE DEF bad
  <2> bad \in SUBSET Nat BY DEF bad
  <2> QED BY <1>1, LeastNumber
<1>3. n # 0
  <2> DEFINE h == [k \in 0..0 |-> 1]
  <2> IsPow2(h, 0)
    BY DEF IsPow2
  <2> QED OBVIOUS
<1>4. n - 1 \in Nat /\ n - 1 \notin bad
  BY <1>2, <1>3
<1>5. PICK f : IsPow2(f, n - 1)
  BY <1>4
<1> DEFINE h == [k \in 0..n |-> IF k = n THEN 2 * f[n - 1] ELSE f[k]]
<1>6. IsPow2(h, n)
  <2>1. \A k \in 0..(n - 1) : k \in 0..n /\ k # n
    BY <1>4
  <2>2. \A k \in 0..n : k # n => k \in 0..(n - 1)
    BY <1>4
  <2>3. f[n - 1] \in Nat \ {0}
    BY <1>4, <1>5 DEF IsPow2
  <2>4. h \in [0..n -> Nat \ {0}]
    BY <2>2, <2>3, <1>5 DEF IsPow2
  <2>5. ASSUME NEW k \in 0..n PROVE h[k] = IF k = 0 THEN 1 ELSE 2 * h[k - 1]
    <3>1. CASE k = n
      BY <3>1, <1>3, <1>4
    <3>2. CASE k # n
      <4>1. k \in 0..(n - 1)
        BY <3>2, <2>2
      <4>2. k # 0 => k - 1 \in 0..(n - 1)
        BY <4>1
      <4> QED BY <3>2, <4>1, <4>2, <1>5 DEF IsPow2
    <3> QED BY <3>1, <3>2
  <2> QED BY <2>4, <2>5 DEF IsPow2
<1> QED BY <1>6

\* Powers computed up to different arguments agree.
LEMMA Pow2Unique ==
  ASSUME NEW f, NEW g, NEW n \in Nat, NEW m \in Nat, IsPow2(f, n), IsPow2(g, m)
  PROVE  \A k \in Nat : k <= n /\ k <= m => f[k] = g[k]
<1> DEFINE bad == {k \in Nat : k <= n /\ k <= m /\ f[k] # g[k]}
<1>1. SUFFICES ASSUME bad # {} PROVE FALSE
  OBVIOUS
<1>2. PICK k \in bad : \A l \in bad : k <= l
  <2> HIDE DEF bad
  <2> bad \in SUBSET Nat BY DEF bad
  <2> QED BY <1>1, LeastNumber
<1>3. CASE k = 0
  BY <1>3 DEF IsPow2
<1>4. CASE k # 0
  <2>1. k - 1 \in Nat /\ k - 1 <= n /\ k - 1 <= m /\ k - 1 \notin bad
    BY <1>2, <1>4
  <2>2. f[k - 1] = g[k - 1]
    BY <2>1
  <2>3. f[k] = 2 * f[k - 1] /\ g[k] = 2 * g[k - 1]
    BY <1>4 DEF IsPow2
  <2> QED BY <2>2, <2>3
<1> QED BY <1>3, <1>4

\* Pow2 is the function its definition recurs to.
LEMMA Pow2Is ==
  /\ Pow2 \in [Nat -> Nat \ {0}]
  /\ Pow2[0] = 1
  /\ \A n \in Nat : Pow2[n + 1] = 2 * Pow2[n]
<1> DEFINE f(n) == CHOOSE f : IsPow2(f, n)
           g == [n \in Nat |-> f(n)[n]]
<1>1. ASSUME NEW n \in Nat PROVE IsPow2(f(n), n)
  BY Pow2Exists
<1> HIDE DEF f
<1>2. ASSUME NEW n \in Nat PROVE g[n] = IF n = 0 THEN 1 ELSE 2 * g[n - 1]
  <2>1. f(n)[n] = IF n = 0 THEN 1 ELSE 2 * f(n)[n - 1]
    BY <1>1 DEF IsPow2
  <2>2. CASE n = 0
    BY <2>1, <2>2
  <2>3. CASE n # 0
    <3>1. n - 1 \in Nat /\ n - 1 <= n
      BY <2>3
    <3>2. IsPow2(f(n), n) /\ IsPow2(f(n - 1), n - 1)
      BY <1>1, <3>1
    <3>3. f(n)[n - 1] = f(n - 1)[n - 1]
      BY <3>1, <3>2, Pow2Unique
    <3> QED BY <2>1, <2>3, <3>1, <3>3
  <2> QED BY <2>2, <2>3
<1>3. g = [n \in Nat |-> IF n = 0 THEN 1 ELSE 2 * g[n - 1]]
  BY <1>2
<1> HIDE DEF g
<1>4. Pow2 = [n \in Nat |-> IF n = 0 THEN 1 ELSE 2 * Pow2[n - 1]]
  BY <1>3, Zenon DEF Pow2
<1>5. Pow2[0] = 1
  BY <1>4
<1>6. ASSUME NEW n \in Nat PROVE Pow2[n + 1] = 2 * Pow2[n]
  <2>1. n + 1 \in Nat /\ n + 1 # 0 /\ n + 1 - 1 = n
    OBVIOUS
  <2>2. Pow2[n + 1] = IF n + 1 = 0 THEN 1 ELSE 2 * Pow2[n + 1 - 1]
    BY <1>4, <2>1
  <2> QED BY <2>1, <2>2
<1>7. ASSUME NEW n \in Nat PROVE Pow2[n] \in Nat \ {0}
  <2> DEFINE bad == {k \in Nat : Pow2[k] \notin Nat \ {0}}
  <2>1. SUFFICES ASSUME bad # {} PROVE FALSE
    OBVIOUS
  <2>2. PICK k \in bad : \A l \in bad : k <= l
    <3> HIDE DEF bad
    <3> bad \in SUBSET Nat BY DEF bad
    <3> QED BY <2>1, LeastNumber
  <2>3. k # 0
    BY <1>5, <2>2
  <2>4. k - 1 \in Nat /\ k - 1 \notin bad
    BY <2>2, <2>3
  <2>5. Pow2[k] = 2 * Pow2[k - 1]
    BY <1>6, <2>4
  <2> QED BY <2>2, <2>4, <2>5
<1>8. Pow2 \in [Nat -> Nat \ {0}]
  BY <1>4, <1>7
<1> QED BY <1>5, <1>6, <1>8

\* A sum of exponents is a product of powers.
LEMMA Pow2Sum ==
  \A m, n \in Nat : Pow2[m + n] = Pow2[m] * Pow2[n]
<1> SUFFICES ASSUME NEW m \in Nat PROVE \A n \in Nat : Pow2[m + n] = Pow2[m] * Pow2[n]
  OBVIOUS
<1> DEFINE bad == {n \in Nat : Pow2[m + n] # Pow2[m] * Pow2[n]}
<1>1. SUFFICES ASSUME bad # {} PROVE FALSE
  OBVIOUS
<1>2. PICK n \in bad : \A l \in bad : n <= l
  <2> HIDE DEF bad
  <2> bad \in SUBSET Nat BY DEF bad
  <2> QED BY <1>1, LeastNumber
<1>3. Pow2[m] \in Nat \ {0}
  BY Pow2Is
<1>4. n # 0
  BY <1>2, <1>3, Pow2Is
<1>5. n - 1 \in Nat /\ n - 1 \notin bad
  BY <1>2, <1>4
<1>6. Pow2[m + (n - 1)] = Pow2[m] * Pow2[n - 1]
  BY <1>5
<1>7. Pow2[n] = 2 * Pow2[n - 1]
  <2> n - 1 + 1 = n OBVIOUS
  <2> QED BY <1>5, Pow2Is
<1>8. Pow2[m + n] = 2 * Pow2[m + (n - 1)]
  <2> m + (n - 1) \in Nat /\ m + (n - 1) + 1 = m + n BY <1>5
  <2> QED BY Pow2Is
<1>9. Pow2[n - 1] \in Nat
  BY <1>5, Pow2Is
<1>10. 2 * (Pow2[m] * Pow2[n - 1]) = Pow2[m] * (2 * Pow2[n - 1])
  BY <1>3, <1>9
<1> QED BY <1>2, <1>6, <1>7, <1>8, <1>10

\* Powers grow with the exponent.
LEMMA Pow2Grows ==
  \A m, n \in Nat : m <= n => Pow2[m] <= Pow2[n]
<1> SUFFICES ASSUME NEW m \in Nat, NEW n \in Nat, m <= n PROVE Pow2[m] <= Pow2[n]
  OBVIOUS
<1>1. PICK d \in Nat : n = m + d
  <2> n - m \in Nat /\ n = m + (n - m) OBVIOUS
  <2> QED OBVIOUS
<1>2. Pow2[n] = Pow2[m] * Pow2[d]
  BY <1>1, Pow2Sum
<1>3. Pow2[m] \in Nat /\ Pow2[d] \in Nat /\ Pow2[d] >= 1
  BY Pow2Is
<1> QED BY <1>2, <1>3

-----------------------------------------------------------------------------
(* Compact targets.                                                         *)

\* The widths are numbers that are not zero.
LEMMA WidthTypes ==
  /\ DigitBits \in Nat \ {0} /\ Digits \in Nat \ {0} /\ DigitBits * Digits \in Nat
  /\ TimestampCount \in Nat \ {0} /\ BLOCKS_PER_EPOCH \in Nat \ {0}
  /\ EXPECTED_EPOCH_TIMESPAN \in Nat \ {0} /\ MinDifficultyGap \in Nat \ {0}
  /\ WordBits \in Nat \ {0} /\ MaxExponent \in Nat \ {0} /\ MaxBatch \in Nat \ {0}
<1>1. /\ DigitBits \in Nat \ {0} /\ Digits \in Nat \ {0}
      /\ TimestampCount \in Nat \ {0} /\ BLOCKS_PER_EPOCH \in Nat \ {0}
      /\ EXPECTED_EPOCH_TIMESPAN \in Nat \ {0} /\ MinDifficultyGap \in Nat \ {0}
      /\ WordBits \in Nat \ {0} /\ MaxExponent \in Nat \ {0} /\ MaxBatch \in Nat \ {0}
  BY LightClientAssumption
<1>2. DigitBits * Digits \in Nat
  BY <1>1
<1> QED BY <1>1, <1>2

\* The number of bits of a target: the least power above it.
LEMMA BitLengthIs ==
  ASSUME NEW t \in 0..(U256 - 1)
  PROVE  /\ BitLength(t) \in 0..(DigitBits * Digits)
         /\ t < Pow2[BitLength(t)]
         /\ BitLength(t) > 0 => Pow2[BitLength(t) - 1] <= t
<1> DEFINE N == DigitBits * Digits
           S == {b \in 0..N : t < Pow2[b]}
<1>1. N \in Nat /\ N \in S
  BY WidthTypes, Pow2Is DEF U256
<1>2. S \in SUBSET Nat
  BY <1>1
<1> HIDE DEF S
<1>3. PICK b \in S : \A c \in S : b <= c
  BY <1>1, <1>2, LeastNumber
<1>4. BitLength(t) \in S /\ \A c \in S : BitLength(t) <= c
  <2>1. BitLength(t) = Min(S)
    BY DEF BitLength, S
  <2> QED BY <2>1, <1>3 DEF Min
<1>5. BitLength(t) \in 0..N /\ t < Pow2[BitLength(t)]
  BY <1>4 DEF S
<1>6. ASSUME BitLength(t) > 0 PROVE Pow2[BitLength(t) - 1] <= t
  <2>1. PICK l \in Nat : l = BitLength(t)
    BY <1>1, <1>5
  <2>2. l - 1 \in 0..N /\ ~(l <= l - 1)
    BY <2>1, <1>1, <1>5, <1>6
  <2>3. l - 1 \notin S
    BY <2>1, <2>2, <1>4
  <2>4. ~(t < Pow2[l - 1])
    BY <2>2, <2>3 DEF S
  <2>5. Pow2[l - 1] \in Nat /\ t \in Int
    BY <2>2, <1>1, Pow2Is
  <2> QED BY <2>1, <2>4, <2>5
<1> QED BY <1>5, <1>6

\* The position of the leading digit: target_to_bits leaves out the last k
\* digits and keeps at least one bit of the three before them.
LEMMA LeadingDigit ==
  ASSUME NEW t \in 0..(U256 - 1), Compact(t),
         NEW size, size = (DigitBits * Digits + DigitBits - 1 - BitLength(t)) \div DigitBits
  PROVE  \E k \in Nat :
           /\ size \in Int /\ Digits - size = k + 2
           /\ DigitBits * k + 2 * DigitBits <= BitLength(t)
           /\ BitLength(t) < DigitBits * k + 3 * DigitBits
<1> DEFINE D == DigitBits
           N == D * Digits
           L == BitLength(t)
           a == N + D - 1 - L
<1>1. D \in Nat \ {0} /\ Digits \in Nat \ {0} /\ N \in Nat
  BY WidthTypes
<1>2. L \in Int /\ L <= N /\ L >= 2 * D
  BY <1>1, BitLengthIs DEF Compact
<1> HIDE DEF L
<1>3. a \in Nat
  BY <1>1, <1>2
<1>4. size \in Nat /\ D * size <= a /\ a < D * size + D
  BY <1>1, <1>3 DEF L
<1>5. size <= Digits - 2
  <2>1. D * size < D * (Digits - 1)
    BY <1>1, <1>2, <1>4
  <2>2. size < Digits - 1
    BY <2>1, <1>1, <1>4
  <2> QED BY <2>2, <1>1, <1>4
<1>6. PICK k \in Nat : Digits = size + k + 2
  <2> Digits - size - 2 \in Nat BY <1>1, <1>4, <1>5
  <2> Digits = size + (Digits - size - 2) + 2 BY <1>1, <1>4
  <2> QED OBVIOUS
<1>7. N = D * size + D * k + 2 * D
  BY <1>1, <1>4, <1>6
<1>8. D * k + 2 * D <= L /\ L < D * k + 3 * D
  <2> D * size \in Int /\ D * k \in Int BY <1>1, <1>4
  <2> HIDE DEF N
  <2> QED BY <1>1, <1>2, <1>4, <1>7
<1>9. Digits - size = k + 2
  BY <1>1, <1>4, <1>6
<1> QED BY <1>4, <1>8, <1>9 DEF L

\* Multiples of the width of a digit are products of its powers.
LEMMA DigitPowers ==
  /\ Pow2[DigitBits] \in Nat /\ Pow2[DigitBits] >= 2
  /\ Pow2[2 * DigitBits] = Pow2[DigitBits] * Pow2[DigitBits]
  /\ Mantissas = Pow2[DigitBits] * Pow2[DigitBits] * Pow2[DigitBits]
<1>1. DigitBits \in Nat /\ DigitBits >= 1
  BY WidthTypes
<1>2. Pow2[DigitBits] \in Nat /\ Pow2[DigitBits] >= 2
  <2>1. Pow2[0 + 1] = 2 * Pow2[0]
    BY Pow2Is
  <2>2. Pow2[1] = 2 /\ Pow2[1] <= Pow2[DigitBits]
    BY <2>1, <1>1, Pow2Is, Pow2Grows
  <2> QED BY <2>2, <1>1, Pow2Is
<1>3. Pow2[2 * DigitBits] = Pow2[DigitBits] * Pow2[DigitBits]
  <2> 2 * DigitBits = DigitBits + DigitBits BY <1>1
  <2> QED BY <1>1, Pow2Sum
<1>4. Pow2[3 * DigitBits] = Pow2[2 * DigitBits] * Pow2[DigitBits]
  <2> 3 * DigitBits = 2 * DigitBits + DigitBits /\ 2 * DigitBits \in Nat BY <1>1
  <2> QED BY <1>1, Pow2Sum
<1> QED BY <1>2, <1>3, <1>4 DEF Mantissas

\* Three digits of a number below the cube of the base put it together again.
LEMMA ThreeDigits ==
  ASSUME NEW B \in Nat, B >= 2, NEW q \in Nat, q < B * B * B
  PROVE  ((q \div (B * B)) % B) * (B * B) + ((q \div B) % B) * B + (q % B) = q
<1> DEFINE q1 == q \div B
           q2 == q1 \div B
<1>1. q = B * q1 + (q % B) /\ q1 \in Nat /\ q % B \in Nat
  OBVIOUS
<1>2. q1 = B * q2 + (q1 % B) /\ q2 \in Nat /\ q1 % B \in Nat
  <2> q1 \in Nat BY <1>1
  <2> HIDE DEF q1
  <2> QED OBVIOUS
<1>3. q \div (B * B) = q2
  OBVIOUS
<1>4. q2 < B
  <2>1. q2 * (B * B) <= q
    <3>1. B * q2 <= q1
      <4> HIDE DEF q1, q2
      <4> QED BY <1>2
    <3>2. B * (B * q2) <= B * q1
      <4> HIDE DEF q1, q2
      <4> B * q2 \in Int /\ q1 \in Int BY <1>1, <1>2
      <4> QED BY <3>1
    <3>3. B * (B * q2) = q2 * (B * B)
      <4> HIDE DEF q1, q2
      <4> QED BY <1>2
    <3>4. B * q1 <= q
      <4> HIDE DEF q1, q2
      <4> QED BY <1>1
    <3> HIDE DEF q1, q2
    <3> B * (B * q2) \in Int /\ B * q1 \in Int BY <1>1, <1>2
    <3> QED BY <3>2, <3>3, <3>4
  <2>2. ASSUME q2 >= B PROVE FALSE
    <3> HIDE DEF q1, q2
    <3>1. q2 * (B * B) >= B * (B * B)
      BY <1>2, <2>2
    <3>2. B * (B * B) = B * B * B /\ B * (B * B) \in Int /\ q2 * (B * B) \in Int
      BY <1>2
    <3> QED BY <2>1, <3>1, <3>2
  <2> HIDE DEF q1, q2
  <2> QED BY <1>2, <2>2
<1>5. q2 % B = q2
  <2> HIDE DEF q1, q2
  <2> QED BY <1>2, <1>4
<1>6. q = q2 * (B * B) + (q1 % B) * B + (q % B)
  <2> HIDE DEF q1, q2
  <2>1. PICK r1 \in Nat : r1 = q1 % B
    BY <1>2
  <2>2. PICK r \in Nat : r = q % B
    BY <1>1
  <2>3. B * q1 = B * (B * q2) + B * r1
    BY <1>1, <1>2, <2>1
  <2>4. B * (B * q2) = q2 * (B * B) /\ B * r1 = r1 * B
    BY <1>2
  <2> QED BY <1>1, <2>1, <2>2, <2>3, <2>4
<1> QED BY <1>3, <1>5, <1>6

\* The compact form of a target stands for the target without its last k digits.
LEMMA CompactRounds ==
  ASSUME NEW t \in 0..(U256 - 1), Compact(t)
  PROVE  /\ target_to_bits(t) \in Nat
         /\ bits_to_target(target_to_bits(t)) \in 1..t
<1> DEFINE D == DigitBits
           B == Pow2[D]
           size == (D * Digits + D - 1 - BitLength(t)) \div D
<1>1. PICK k \in Nat : /\ size \in Int /\ Digits - size = k + 2
                       /\ D * k + 2 * D <= BitLength(t)
                       /\ BitLength(t) < D * k + 3 * D
  BY LeadingDigit
<1> DEFINE P == Pow2[D * k]
           q == t \div P
<1>2. D \in Nat /\ D >= 1 /\ D * k \in Nat /\ Digits \in Nat
  BY WidthTypes
<1>3. B \in Nat /\ B >= 2 /\ P \in Nat /\ P >= 1
  BY <1>2, DigitPowers, Pow2Is
<1>4. t \in Nat /\ U256 \in Nat /\ t < U256
  BY WidthTypes, Pow2Is DEF U256
<1>5. Mantissas = B * B * B /\ Pow2[2 * D] = B * B
  BY DigitPowers
<1>6. P <= t
  <2> DEFINE l == BitLength(t)
  <2>1. l \in Nat /\ l >= 1 /\ l - 1 \in Nat /\ D * k <= l - 1
    BY <1>1, <1>2, BitLengthIs, WidthTypes
  <2>2. Pow2[l - 1] <= t /\ Pow2[l - 1] \in Nat
    BY <2>1, BitLengthIs, Pow2Is
  <2>3. P <= Pow2[l - 1]
    BY <2>1, <1>2, Pow2Grows
  <2> QED BY <2>2, <2>3, <1>3, <1>4
<1>7. t < P * (B * B * B)
  <2> DEFINE l == BitLength(t)
  <2>1. l \in Nat /\ l <= D * k + 3 * D /\ 3 * D \in Nat
    BY <1>1, <1>2, BitLengthIs, WidthTypes
  <2>2. t < Pow2[l] /\ Pow2[l] \in Nat
    BY <2>1, BitLengthIs, Pow2Is
  <2>3. Pow2[l] <= Pow2[D * k + 3 * D] /\ Pow2[D * k + 3 * D] = P * Pow2[3 * D]
    <3>1. D * k + 3 * D \in Nat
      BY <2>1, <1>2
    <3>2. Pow2[l] <= Pow2[D * k + 3 * D]
      BY <3>1, <2>1, Pow2Grows
    <3>3. Pow2[D * k + 3 * D] = P * Pow2[3 * D]
      BY <2>1, <1>2, Pow2Sum
    <3> QED BY <3>2, <3>3
  <2>4. Pow2[3 * D] = B * B * B
    BY <1>5 DEF Mantissas
  <2> QED BY <2>2, <2>3, <2>4, <1>3, <1>4
<1> HIDE DEF P, B, size
<1>8. q \in Nat /\ q >= 1 /\ P * q <= t
  BY <1>3, <1>4, <1>6
<1>9. q < B * B * B
  <2>1. PICK c \in Nat : c = B * B * B
    BY <1>3
  <2>2. t < P * c
    BY <2>1, <1>7
  <2>3. ASSUME q >= c PROVE FALSE
    <3> HIDE DEF q
    <3> P * q >= P * c BY <1>3, <1>8, <2>3
    <3> P * q \in Int /\ P * c \in Int BY <1>3, <1>8
    <3> QED BY <1>4, <1>8, <2>2
  <2> HIDE DEF q
  <2> QED BY <1>8, <2>1, <2>3
<1>10. target_to_bits(t) = (k + 3) * Mantissas + q
  <2>1. /\ DigitOf(t, size) = (q \div (B * B)) % B
        /\ DigitOf(t, size + 1) = (q \div B) % B
        /\ DigitOf(t, size + 2) = q % B
    <3>1. /\ D * (Digits - size) = D * k + 2 * D
          /\ D * (Digits - (size + 1)) = D * k + D
          /\ D * (Digits - (size + 2)) = D * k
      <4> /\ Digits - (size + 1) = k + 1
          /\ Digits - (size + 2) = k
        BY <1>1, <1>2
      <4> QED BY <1>1, <1>2
    <3>2. Pow2[D * k + 2 * D] = P * (B * B) /\ Pow2[D * k + D] = P * B
      <4> 2 * D \in Nat BY <1>2
      <4> QED BY <1>2, <1>5, Pow2Sum DEF P, B
    <3>3. /\ t \div (P * (B * B)) = q \div (B * B)
          /\ t \div (P * B) = q \div B
      <4> B * B \in Nat /\ B * B >= 1 BY <1>3
      <4> QED BY <1>3, <1>4
    <3> QED BY <3>1, <3>2, <3>3 DEF DigitOf, P, B
  <2>2. ((q \div (B * B)) % B) * (B * B) + ((q \div B) % B) * B + (q % B) = q
    <3> HIDE DEF q
    <3> QED BY <1>3, <1>8, <1>9, ThreeDigits
  <2>3. target_to_bits(t) = (Digits + 1 - size) * Mantissas
          + DigitOf(t, size) * (B * B) + DigitOf(t, size + 1) * B + DigitOf(t, size + 2)
    BY <1>5 DEF target_to_bits, size, B
  <2>4. Digits + 1 - size = k + 3
    BY <1>1, <1>2
  <2> DEFINE d1 == (q \div (B * B)) % B
             d2 == (q \div B) % B
             d3 == q % B
  <2>5. d1 * (B * B) \in Int /\ d2 * B \in Int /\ d3 \in Int
    <3> HIDE DEF q
    <3> d1 \in Int /\ d2 \in Int /\ d3 \in Int BY <1>3, <1>8
    <3> HIDE DEF d1, d2, d3
    <3> QED BY <1>3
  <2>6. (k + 3) * Mantissas \in Int
    BY <1>3, <1>5
  <2>7. d1 * (B * B) + d2 * B + d3 = q
    BY <2>2
  <2>8. target_to_bits(t) = (k + 3) * Mantissas + d1 * (B * B) + d2 * B + d3
    BY <2>1, <2>3, <2>4
  <2> HIDE DEF d1, d2, d3, q
  <2> QED BY <1>8, <2>5, <2>6, <2>7, <2>8
<1>11. /\ Mantissas \in Nat /\ Mantissas >= 1 /\ q < Mantissas
  BY <1>3, <1>5, <1>8, <1>9
<1>12. /\ ((k + 3) * Mantissas + q) \div Mantissas = k + 3
       /\ ((k + 3) * Mantissas + q) % Mantissas = q
  <2> HIDE DEF q
  <2> QED BY <1>8, <1>11
<1>13. bits_to_target(target_to_bits(t)) = P * q
  <2>1. bits_to_target(target_to_bits(t))
          = IF k + 3 <= 3 THEN q \div Pow2[D * (3 - (k + 3))]
            ELSE (q * Pow2[D * ((k + 3) - 3)]) % U256
    BY <1>10, <1>12, Zenon DEF bits_to_target
  <2>2. CASE k = 0
    <3>1. D * (3 - (k + 3)) = 0 /\ D * k = 0
      BY <2>2, <1>2
    <3>2. Pow2[D * (3 - (k + 3))] = 1 /\ P = 1
      BY <3>1, Pow2Is DEF P
    <3> HIDE DEF q
    <3>3. q \div 1 = q /\ P * q = q
      BY <3>2, <1>8
    <3> QED BY <2>1, <2>2, <3>2, <3>3
  <2>3. CASE k # 0
    <3>1. D * ((k + 3) - 3) = D * k /\ ~(k + 3 <= 3)
      BY <2>3, <1>2
    <3>2. (P * q) % U256 = P * q /\ q * P = P * q
      <4> HIDE DEF q
      <4> PICK p \in Nat : p = P * q BY <1>3, <1>8
      <4> QED BY <1>3, <1>4, <1>8
    <3> QED BY <2>1, <3>1, <3>2 DEF P
  <2> QED BY <2>2, <2>3
<1>14. P * q \in 1..t
  <2> HIDE DEF q
  <2> P * q \in Int /\ P * q >= 1 BY <1>3, <1>8
  <2> QED BY <1>4, <1>8
<1>15. (k + 3) * Mantissas + q \in Nat
  <2> HIDE DEF q
  <2> QED BY <1>8, <1>11
<1> QED BY <1>10, <1>13, <1>14, <1>15

\* Words are numbers, and no chain fills them.
LEMMA WordTypes ==
  /\ U32 \in Nat
  /\ Len(TxCounts) \in Nat /\ Len(TxCounts) < U32
<1>1. Len(TxCounts) \in Nat
  BY LightClientAssumption
<1>2. U32 \in Nat
  BY WidthTypes, Pow2Is DEF U32
<1> QED BY <1>1, <1>2, HeightAssumption

\* The easiest target is one of 256 bits.
LEMMA MaxTarget ==
  /\ U256 \in Nat /\ U256 >= 1
  /\ max_bits \in Nat /\ max_target \in 1..(U256 - 1)
<1> DEFINE D == DigitBits
           B == Pow2[D]
           e == MaxExponent
           P == Pow2[D * (e - 3)]
<1>1. D \in Nat /\ e \in Nat /\ Digits \in Nat /\ 3 <= e /\ e <= Digits
  BY WidthTypes, LightClientAssumption
<1>2. B \in Nat /\ B >= 2
  BY DigitPowers
<1>3. U256 \in Nat /\ U256 >= 1
  BY WidthTypes, Pow2Is DEF U256
<1>4. Mantissas = B * B * B /\ Pow2[2 * D] = B * B
  BY DigitPowers
<1>5. max_bits = e * Mantissas + (B * B - 1)
  <2> PICK c \in Nat : c = B * B BY <1>2
  <2> PICK d \in Nat : d = e * Mantissas BY <1>1, <1>2, <1>4
  <2> d + c - 1 = d + (c - 1) OBVIOUS
  <2> QED BY <1>4 DEF max_bits
<1>6. D * (e - 3) \in Nat
  <2> PICK f \in Nat : f = e - 3 BY <1>1
  <2> QED BY <1>1
<1>7. P \in Nat /\ P >= 1
  BY <1>6, Pow2Is
<1>8. (B * B) * P <= U256
  <2>1. 2 * D + D * (e - 3) \in Nat /\ 2 * D + D * (e - 3) <= D * Digits
    <3> PICK f \in Nat : f = e - 3 BY <1>1
    <3> PICK g \in Nat : g = Digits - e BY <1>1
    <3> D * Digits = 3 * D + D * f + D * g BY <1>1
    <3> D * f \in Nat /\ D * g \in Nat BY <1>1
    <3> QED BY <1>1
  <2>2. Pow2[2 * D + D * (e - 3)] <= U256
    BY <2>1, WidthTypes, Pow2Grows DEF U256
  <2>3. Pow2[2 * D + D * (e - 3)] = Pow2[2 * D] * P
    BY <1>1, <1>6, Pow2Sum
  <2> QED BY <2>2, <2>3, <1>4
<1> HIDE DEF B, P, e
<1>9. PICK q \in Nat : q = B * B - 1 /\ q >= 1 /\ q < B * B * B
  <2>1. PICK c \in Nat : c = B * B /\ c >= 2
    BY <1>2
  <2>2. c <= c * B /\ c * B = B * B * B
    BY <1>2, <2>1
  <2> QED BY <1>2, <2>1, <2>2
<1>10. Mantissas \in Nat /\ Mantissas >= 1 /\ q < Mantissas
  BY <1>2, <1>4, <1>9
<1>11. max_bits \div Mantissas = e /\ max_bits % Mantissas = q /\ max_bits \in Nat
  BY <1>1, <1>5, <1>9, <1>10
<1>12. max_target = IF e <= 3 THEN q \div Pow2[D * (3 - e)] ELSE (q * P) % U256
  BY <1>11 DEF max_target, bits_to_target, P
<1>13. q * P >= 1 /\ q * P < U256 /\ q * P \in Nat
  <2>1. PICK c \in Nat : c = B * B
    BY <1>2
  <2>2. q = c - 1 /\ c * P <= U256
    BY <1>8, <1>9, <2>1
  <2>3. q * P = c * P - P
    BY <1>7, <1>9, <2>1, <2>2
  <2>4. q * P \in Nat /\ q * P >= 1 /\ c * P \in Nat
    BY <1>7, <1>9, <2>1
  <2> QED BY <1>3, <1>7, <2>2, <2>3, <2>4
<1>14. CASE e = 3
  <2>1. D * (3 - e) = 0 /\ D * (e - 3) = 0
    BY <1>1, <1>14
  <2>2. Pow2[D * (3 - e)] = 1 /\ P = 1
    BY <2>1, Pow2Is DEF P
  <2>3. q \div 1 = q /\ q * P = q
    BY <2>2, <1>9
  <2> QED BY <1>3, <1>11, <1>12, <1>13, <1>14, <2>2, <2>3
<1>15. CASE e # 3
  <2>1. ~(e <= 3)
    BY <1>1, <1>15
  <2>2. PICK p \in Nat : p = q * P /\ p >= 1 /\ p < U256
    BY <1>13
  <2>3. p % U256 = p
    BY <1>3, <2>2
  <2> QED BY <1>3, <1>11, <1>12, <2>1, <2>2, <2>3
<1> QED BY <1>14, <1>15

\* A retarget gives a target that is not easier than the easiest one.
LEMMA NewDifficulty ==
  ASSUME NEW first \in Int, NEW last \in Int, NEW bits, bits_to_target(bits) \in Int
  PROVE  calculate_new_difficulty(first, last, bits) \in 0..max_target
<1> DEFINE elapsed == (last - first) % U32
           E == EXPECTED_EPOCH_TIMESPAN
           span == CASE elapsed < E \div 4 -> E \div 4
                     [] elapsed > E * 4 -> E * 4
                     [] OTHER -> elapsed
           new == ((bits_to_target(bits) * span) % U256) \div E
<1>1. E \in Nat /\ E >= 1 /\ U256 \in Nat /\ U256 >= 1
  BY WidthTypes, MaxTarget
<1>2. elapsed \in Int
  BY WordTypes
<1>3. E \div 4 \in Int /\ E * 4 \in Int
  BY <1>1
<1> HIDE DEF elapsed
<1>4. span \in Int
  BY <1>2, <1>3
<1> HIDE DEF span
<1>5. (bits_to_target(bits) * span) % U256 \in Nat
  BY <1>1, <1>4
<1>6. new \in Nat
  <2> PICK c \in Nat : c = (bits_to_target(bits) * span) % U256 BY <1>5
  <2> QED BY <1>1
<1> HIDE DEF new
<1>7. calculate_new_difficulty(first, last, bits) = IF new > max_target THEN max_target ELSE new
  BY DEF calculate_new_difficulty, new, span, elapsed
<1> QED BY <1>6, <1>7, MaxTarget

\* An easier target takes no more work.
LEMMA WorkFalls ==
  ASSUME NEW s \in Nat, NEW t \in Nat, s <= t
  PROVE  /\ calculate_work(s) \in Nat /\ calculate_work(t) \in Nat
         /\ calculate_work(t) <= calculate_work(s)
<1>1. PICK u \in Nat : u = U256 - 1
  BY MaxTarget
<1>2. PICK a \in Nat : a = u \div (s + 1)
  OBVIOUS
<1>3. PICK b \in Nat : b = u \div (t + 1)
  OBVIOUS
<1>4. u < (s + 1) * (a + 1)
  BY <1>2
<1>5. (t + 1) * b <= u
  BY <1>3
<1>6. ASSUME a + 1 <= b PROVE FALSE
  <2>1. (s + 1) * (a + 1) <= (t + 1) * (a + 1)
    BY <1>2
  <2>2. (t + 1) * (a + 1) <= (t + 1) * b
    BY <1>2, <1>3, <1>6
  <2>3. (s + 1) * (a + 1) \in Int /\ (t + 1) * (a + 1) \in Int /\ (t + 1) * b \in Int
    BY <1>2, <1>3
  <2> QED BY <1>1, <1>4, <1>5, <2>1, <2>2, <2>3
<1> QED BY <1>1, <1>2, <1>3, <1>6 DEF calculate_work

-----------------------------------------------------------------------------
(* The median of the timestamps.                                            *)

Slots == 0..(TimestampCount - 1)

\* The slots whose timestamps satisfy a bound are finitely many.
LEMMA SlotsFinite ==
  /\ Slots \subseteq Int
  /\ IsFiniteSet(Slots) /\ Cardinality(Slots) = TimestampCount
  /\ \A S \in SUBSET Slots : IsFiniteSet(S) /\ Cardinality(S) \in Nat
  /\ \A S \in SUBSET Slots : \A T \in SUBSET S : Cardinality(T) <= Cardinality(S)
<1>1. IsFiniteSet(Slots) /\ Cardinality(Slots) = TimestampCount
  BY WidthTypes, FS_Interval DEF Slots
<1>2. ASSUME NEW S \in SUBSET Slots PROVE IsFiniteSet(S) /\ Cardinality(S) \in Nat
  BY <1>1, FS_Subset, FS_CardinalityType
<1>3. ASSUME NEW S \in SUBSET Slots, NEW T \in SUBSET S PROVE Cardinality(T) <= Cardinality(S)
  BY <1>2, FS_Subset
<1>4. Slots \subseteq Int
  BY WidthTypes DEF Slots
<1> QED BY <1>1, <1>2, <1>3, <1>4

\* There is a middle one of the timestamps.
LEMMA MiddleExists ==
  ASSUME NEW times \in [Slots -> Nat], NEW top \in Nat, \A i \in Slots : times[i] <= top,
         NEW k \in 1..TimestampCount
  PROVE  \E m \in {times[i] : i \in Slots} :
           /\ Cardinality({i \in Slots : times[i] < m}) < k
           /\ Cardinality({i \in Slots : times[i] <= m}) >= k
<1> DEFINE upTo(v) == {i \in Slots : times[i] <= v}
           S == {v \in Nat : Cardinality(upTo(v)) >= k}
<1>1. top \in S
  <2> upTo(top) = Slots OBVIOUS
  <2> QED BY SlotsFinite, WidthTypes
<1>2. PICK v \in S : \A w \in S : v <= w
  <2> HIDE DEF S
  <2> S \in SUBSET Nat BY DEF S
  <2> QED BY <1>1, LeastNumber
<1>3. v \in Nat /\ Cardinality(upTo(v)) >= k
  BY <1>2
<1>4. k \in Nat /\ k >= 1
  BY WidthTypes
<1>5. Cardinality({i \in Slots : times[i] < v}) < k
  <2>1. CASE v = 0
    <3>1. {i \in Slots : times[i] < v} = {}
      <4> ASSUME NEW i \in Slots PROVE ~(times[i] < v)
        <5> times[i] \in Nat OBVIOUS
        <5> QED BY <2>1
      <4> QED OBVIOUS
    <3> HIDE DEF upTo, S
    <3> QED BY <3>1, <1>4, FS_EmptySet
  <2>2. CASE v # 0
    <3>1. v - 1 \in Nat /\ ~(v <= v - 1)
      BY <1>3, <2>2
    <3>2. v - 1 \notin S
      BY <3>1, <1>2
    <3>3. ~(Cardinality(upTo(v - 1)) >= k)
      BY <3>1, <3>2
    <3>4. {i \in Slots : times[i] < v} = upTo(v - 1)
      <4> ASSUME NEW i \in Slots PROVE times[i] < v <=> times[i] <= v - 1
        <5> times[i] \in Nat OBVIOUS
        <5> QED BY <1>3
      <4> QED OBVIOUS
    <3>5. Cardinality(upTo(v - 1)) \in Nat
      BY SlotsFinite
    <3> HIDE DEF upTo
    <3>6. PICK c \in Nat : c = Cardinality(upTo(v - 1))
      BY <3>5
    <3> QED BY <3>3, <3>4, <3>6, <1>4
  <2> QED BY <2>1, <2>2
<1>6. v \in {times[i] : i \in Slots}
  <2>1. SUFFICES ASSUME \A i \in Slots : times[i] # v PROVE FALSE
    OBVIOUS
  <2>2. upTo(v) = {i \in Slots : times[i] < v}
    <3> ASSUME NEW i \in Slots PROVE times[i] < v <=> times[i] <= v
      <4> times[i] \in Nat /\ times[i] # v BY <2>1
      <4> QED BY <1>3
    <3> QED OBVIOUS
  <2>3. Cardinality(upTo(v)) \in Nat
    BY SlotsFinite
  <2> HIDE DEF upTo
  <2> QED BY <2>2, <2>3, <1>3, <1>4, <1>5
<1> QED BY <1>3, <1>5, <1>6

\* A time is later than the median exactly when it is later than most timestamps.
LEMMA MedianIs ==
  ASSUME NEW times \in [Slots -> Nat], NEW top \in Nat, \A i \in Slots : times[i] <= top,
         NEW time \in Nat
  PROVE  validate_timestamp(time, times) <=>
           2 * Cardinality({i \in Slots : times[i] < time}) > TimestampCount
<1> DEFINE k == (TimestampCount + 1) \div 2
           m == median(times)
           below(t) == Cardinality({i \in Slots : times[i] < t})
           upTo(t)  == Cardinality({i \in Slots : times[i] <= t})
<1>1. TimestampCount = 2 * k - 1 /\ k \in 1..TimestampCount /\ k \in Nat
  <2> TimestampCount % 2 = 1 BY LightClientAssumption
  <2> QED BY WidthTypes
<1> HIDE DEF k
<1>2. /\ m \in {times[i] : i \in Slots}
      /\ below(m) < k /\ upTo(m) >= k
  <2>1. \E n \in {times[i] : i \in Slots} : below(n) < k /\ upTo(n) >= k
    BY <1>1, MiddleExists
  <2>2. m = CHOOSE n \in {times[i] : i \in Slots} : below(n) < k /\ upTo(n) >= k
    BY DEF median, Sorted, Slots, k
  <2> HIDE DEF below, upTo, m
  <2> QED BY <2>1, <2>2
<1> HIDE DEF m
<1>3. m \in Nat
  BY <1>2
<1>4. \A t \in Nat : below(t) \in Nat /\ upTo(t) \in Nat
  BY SlotsFinite
<1>5. ASSUME time > m PROVE below(time) >= k
  <2>1. {i \in Slots : times[i] <= m} \in SUBSET {i \in Slots : times[i] < time}
    <3> ASSUME NEW i \in Slots, times[i] <= m PROVE times[i] < time
      <4> times[i] \in Nat OBVIOUS
      <4> QED BY <1>3, <1>5
    <3> QED OBVIOUS
  <2>2. upTo(m) <= below(time)
    BY <2>1, SlotsFinite
  <2> HIDE DEF upTo, below
  <2> QED BY <2>2, <1>1, <1>2, <1>3, <1>4
<1>6. ASSUME ~(time > m) PROVE below(time) < k
  <2>1. {i \in Slots : times[i] < time} \in SUBSET {i \in Slots : times[i] < m}
    <3> ASSUME NEW i \in Slots, times[i] < time PROVE times[i] < m
      <4> times[i] \in Nat OBVIOUS
      <4> QED BY <1>3, <1>6
    <3> QED OBVIOUS
  <2>2. below(time) <= below(m)
    BY <2>1, SlotsFinite
  <2> HIDE DEF upTo, below
  <2> QED BY <2>2, <1>1, <1>2, <1>3, <1>4
<1>7. below(time) \in Nat
  BY <1>4
<1>8. validate_timestamp(time, times) <=> time > m
  BY DEF validate_timestamp, m
<1> HIDE DEF below
<1>9. time > m <=> 2 * below(time) > TimestampCount
  BY <1>1, <1>5, <1>6, <1>7
<1> QED BY <1>8, <1>9 DEF below

\* Division with remainder is unique.
LEMMA RemainderIs ==
  \A q \in Int, r \in Int, b \in Nat \ {0} : 0 <= r /\ r < b => (b * q + r) % b = r
OBVIOUS

\* A number below the divisor is its own remainder.
LEMMA SmallRemainder ==
  \A r \in Nat, b \in Nat \ {0} : r < b => r % b = r
OBVIOUS

\* The ring has the last timestamps, in another order: as many of them are
\* earlier than a time.
LEMMA RingCounts ==
  ASSUME NEW n \in Nat, NEW ring \in [Slots -> Nat], NEW last \in [1..TimestampCount -> Nat],
         \A i \in 1..TimestampCount : ring[(n - i) % TimestampCount] = last[i],
         NEW time \in Nat
  PROVE  Cardinality({j \in Slots : ring[j] < time})
           = Cardinality({i \in 1..TimestampCount : last[i] < time})
<1> DEFINE C == TimestampCount
           S == {i \in 1..C : last[i] < time}
           T == {j \in Slots : ring[j] < time}
           f == [i \in S |-> (n - i) % C]
<1>1. C \in Nat /\ C >= 1
  BY WidthTypes
<1>2. \A i \in 1..C : (n - i) % C \in Slots
  BY <1>1 DEF Slots
<1>3. f \in [S -> T]
  BY <1>2
<1>4. ASSUME NEW i \in S, NEW j \in S, f[i] = f[j] PROVE i = j
  <2>1. i \in 1..C /\ j \in 1..C /\ (n - i) % C = (n - j) % C
    BY <1>4
  <2> DEFINE a == n - i
             b == n - j
             q == a \div C
             r == b \div C
             x == a % C
  <2>2. a \in Int /\ b \in Int /\ j - i = a - b
    BY <1>1, <2>1
  <2>3. x = b % C
    BY <2>1
  <2> HIDE DEF a, b
  <2>4. a = C * q + x /\ b = C * r + x /\ q \in Int /\ r \in Int /\ x \in Int
    <3>1. a = C * q + x /\ q \in Int /\ x \in Int
      BY <1>1, <2>2
    <3>2. b = C * r + (b % C) /\ r \in Int
      BY <1>1, <2>2
    <3> QED BY <3>1, <3>2, <2>3
  <2> HIDE DEF q, r, x
  <2>5. j - i = C * q - C * r
    <3> C * q \in Int /\ C * r \in Int BY <1>1, <2>4
    <3> QED BY <2>2, <2>4
  <2>6. PICK d \in Int : d = q - r
    BY <2>4
  <2>7. j - i = C * d /\ j - i < C /\ i - j < C
    BY <1>1, <2>1, <2>4, <2>5, <2>6
  <2>8. d < 1 /\ d > -1
    <3>1. d >= 1 => C * d >= C
      BY <1>1
    <3>2. d <= -1 => C * d <= -C
      BY <1>1
    <3> PICK p \in Int : p = C * d BY <1>1
    <3> QED BY <3>1, <3>2, <1>1, <2>1, <2>7
  <2> QED BY <1>1, <2>1, <2>7, <2>8
<1>5. ASSUME NEW j \in T PROVE \E i \in S : f[i] = j
  <2> DEFINE i == ((n - 1 - j) % C) + 1
  <2>1. j \in Int /\ 0 <= j /\ j < C
    BY <1>1 DEF Slots
  <2>2. i \in 1..C
    BY <1>1, <2>1
  <2>3. (n - i) % C = j
    <3> DEFINE a == n - 1 - j
               q == a \div C
               r == a % C
    <3>1. a \in Int /\ n - i = a - r + j /\ r \in Int
      BY <1>1, <2>1
    <3>2. a = C * q + r /\ q \in Int
      BY <1>1, <2>1
    <3> HIDE DEF a, q, r
    <3>3. C * q \in Int
      BY <1>1, <3>2
    <3>4. n - i = C * q + j
      BY <2>1, <3>1, <3>2, <3>3
    <3> HIDE DEF i
    <3>5. (C * q + j) % C = j
      <4> C \in Nat \ {0} /\ j \in Int /\ 0 <= j /\ j < C BY <1>1, <2>1
      <4> HIDE DEF C
      <4> QED BY <3>2, RemainderIs
    <3> QED BY <3>4, <3>5
  <2>4. i \in S /\ f[i] = j
    BY <2>2, <2>3
  <2> QED BY <2>4
<1> HIDE DEF f, S, T
<1>6. f \in Bijection(S, T)
  BY <1>3, <1>4, <1>5, Fun_IsBij
<1>7. IsFiniteSet(S)
  <2> IsFiniteSet(1..C) BY <1>1, FS_Interval
  <2> S \in SUBSET (1..C) BY DEF S
  <2> QED BY FS_Subset
<1>8. Cardinality(T) = Cardinality(S)
  <2> ExistsBijection(S, T) BY <1>6 DEF ExistsBijection
  <2> QED BY <1>7, FS_Bijection
<1> QED BY <1>8 DEF S, T
=============================================================================

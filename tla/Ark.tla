-------------------------------- MODULE Ark ---------------------------------
(***************************************************************************)
(* The arkworks arithmetic that the Rust code computes hints with: the     *)
(* prime field, its extensions by i^2 = -1, v^3 = NONRESIDUE and w^2 = v,  *)
(* and the curves over them.  External to the repository: ordinary field   *)
(* and curve arithmetic, over any prime below 2^15.  An element of an      *)
(* extension is the tuple of its coefficients; the point at infinity is    *)
(* the pair of zeros.                                                      *)
(***************************************************************************)
EXTENDS Integers, Sequences

\* NONRESIDUE is <<9, 1>> in the code.
CONSTANTS PRIME, NONRESIDUE

Sub1(a, b) == (a - b + PRIME) % PRIME
Neg1(a) == (PRIME - a) % PRIME
Pow1(a, n) ==
  LET pow[k \in Nat] ==
        IF k = 0 THEN 1
        ELSE LET h == pow[k \div 2]
                 s == (h * h) % PRIME
             IN  IF k % 2 = 1 THEN (s * a) % PRIME ELSE s
  IN  pow[n]
Inv1(a) == Pow1(a, PRIME - 2)

Add2(x, y) == <<(x[1] + y[1]) % PRIME, (x[2] + y[2]) % PRIME>>
Sub2(x, y) == <<Sub1(x[1], y[1]), Sub1(x[2], y[2])>>
Neg2(x) == <<Neg1(x[1]), Neg1(x[2])>>
Mul2(x, y) == <<(x[1] * y[1] + (PRIME - x[2]) * y[2]) % PRIME,
                (x[1] * y[2] + x[2] * y[1]) % PRIME>>
Scale2(k, x) == <<(k * x[1]) % PRIME, (k * x[2]) % PRIME>>
Conj2(x) == <<x[1], Neg1(x[2])>>
Inv2(x) == LET n == Inv1((x[1] * x[1] + x[2] * x[2]) % PRIME) IN Scale2(n, Conj2(x))
Zero2 == <<0, 0>>
One2 == <<1, 0>>
Xi(x) == Mul2(NONRESIDUE, x)

Add6(x, y) == [i \in 1 .. 3 |-> Add2(x[i], y[i])]
Sub6(x, y) == [i \in 1 .. 3 |-> Sub2(x[i], y[i])]
Neg6(x) == [i \in 1 .. 3 |-> Neg2(x[i])]
Mul6(x, y) ==
  <<Add2(Mul2(x[1], y[1]), Xi(Add2(Mul2(x[2], y[3]), Mul2(x[3], y[2])))),
    Add2(Add2(Mul2(x[1], y[2]), Mul2(x[2], y[1])), Xi(Mul2(x[3], y[3]))),
    Add2(Add2(Mul2(x[1], y[3]), Mul2(x[3], y[1])), Mul2(x[2], y[2]))>>
TimesV(x) == <<Xi(x[3]), x[1], x[2]>>
Zero6 == <<Zero2, Zero2, Zero2>>
One6 == <<One2, Zero2, Zero2>>
Inv6(x) ==
  LET A == Sub2(Mul2(x[1], x[1]), Xi(Mul2(x[2], x[3])))
      B == Sub2(Xi(Mul2(x[3], x[3])), Mul2(x[1], x[2]))
      C == Sub2(Mul2(x[2], x[2]), Mul2(x[1], x[3]))
      t == Inv2(Add2(Mul2(x[1], A), Xi(Add2(Mul2(x[3], B), Mul2(x[2], C)))))
  IN  <<Mul2(A, t), Mul2(B, t), Mul2(C, t)>>

Add12(x, y) == <<Add6(x[1], y[1]), Add6(x[2], y[2])>>
Mul12(x, y) == <<Add6(Mul6(x[1], y[1]), TimesV(Mul6(x[2], y[2]))),
                 Add6(Mul6(x[1], y[2]), Mul6(x[2], y[1]))>>

Pow2(x, n) ==
  LET pow[k \in Nat] ==
        IF k = 0 THEN One2
        ELSE LET h == pow[k \div 2]
                 s == Mul2(h, h)
             IN  IF k % 2 = 1 THEN Mul2(s, x) ELSE s
  IN  pow[n]
\* x to the power p^i, on the coefficients of one level.
Frob2(i, x) == IF i % 2 = 0 THEN x ELSE Conj2(x)
\* FROBENIUS_COEFF_FP6_C1, _C2 and FROBENIUS_COEFF_FP12_C1: NONRESIDUE to
\* the powers (p^i - 1) / 3, 2 (p^i - 1) / 3 and (p^i - 1) / 6.
FrobeniusCoefficient(i, k) ==
  LET base == Pow2(NONRESIDUE, k * ((PRIME - 1) \div 6))
      pow[j \in 0 .. i] == IF j = 0 THEN One2 ELSE Mul2(base, Frob2(1, pow[j - 1]))
  IN  pow[i]
FrobeniusMap6(i, a) ==
  <<Frob2(i, a[1]), Mul2(Frob2(i, a[2]), FrobeniusCoefficient(i, 2)),
    Mul2(Frob2(i, a[3]), FrobeniusCoefficient(i, 4))>>

\* The curves y^2 = x^3 + b, over the prime field and over its quadratic
\* extension: the line through two points (the tangent if they are equal),
\* the sum, and the multiples of a point.
Div1(a, b) == (a * Inv1(b)) % PRIME
Infinity1 == <<0, 0>>
NegPoint1(t) == <<t[1], Neg1(t[2])>>
Slope1(t, q) ==
  IF t = q THEN Div1((3 * ((t[1] * t[1]) % PRIME)) % PRIME, (2 * t[2]) % PRIME)
  ELSE Div1(Sub1(t[2], q[2]), Sub1(t[1], q[1]))
AddPoint1(t, q) ==
  CASE t = Infinity1 -> q
    [] q = Infinity1 -> t
    [] t = NegPoint1(q) -> Infinity1
    [] OTHER -> LET s == Slope1(t, q)
                    x == Sub1(Sub1((s * s) % PRIME, t[1]), q[1])
                IN  <<x, Sub1((s * Sub1(t[1], x)) % PRIME, t[2])>>
Multiple1(k, t) ==
  LET mul[n \in Nat] ==
        IF n = 0 THEN Infinity1
        ELSE LET d == AddPoint1(mul[n \div 2], mul[n \div 2])
             IN  IF n % 2 = 1 THEN AddPoint1(d, t) ELSE d
  IN  mul[k]

Infinity2 == <<Zero2, Zero2>>
NegPoint2(t) == <<t[1], Neg2(t[2])>>
Slope2(t, q) ==
  IF t = q THEN Mul2(Scale2(3, Mul2(t[1], t[1])), Inv2(Scale2(2, t[2])))
  ELSE Mul2(Sub2(t[2], q[2]), Inv2(Sub2(t[1], q[1])))
AddPoint2(t, q) ==
  CASE t = Infinity2 -> q
    [] q = Infinity2 -> t
    [] t = NegPoint2(q) -> Infinity2
    [] OTHER -> LET s == Slope2(t, q)
                    x == Sub2(Sub2(Mul2(s, s), t[1]), q[1])
                IN  <<x, Sub2(Mul2(s, Sub2(t[1], x)), t[2])>>
Multiple2(k, t) ==
  LET mul[n \in Nat] ==
        IF n = 0 THEN Infinity2
        ELSE LET d == AddPoint2(mul[n \div 2], mul[n \div 2])
             IN  IF n % 2 = 1 THEN AddPoint2(d, t) ELSE d
  IN  mul[k]
=============================================================================

------------------------------ MODULE Pairing -------------------------------
(***************************************************************************)
(* The pairing that the off-chain code of bitvm computes in affine         *)
(* coordinates (bn254/ell_coeffs.rs) and the witness of a residue          *)
(* (groth16/offchain_checker.rs).  An element of the extension of degree   *)
(* 12 is taken up to a factor of the extension of degree 6: 1 + f w is     *)
(* written f, so that one is zero and the inverse of f is -f.              *)
(***************************************************************************)
EXTENDS Ark

\* The digits of 6 x + 2, the least significant first; the constants of the
\* Frobenius maps on the second group; and the exponent, as digits to the base
\* 16 with the most significant first, of a root of order
\* LAMBDA = 6 x + 2 + p - p^2 + p^3.
CONSTANTS ATE_LOOP_COUNT, BETA_12, BETA_13, BETA_22, BETA_32, BETA_33, ROOT_EXPONENT

\* F(x).  TLC evaluates x first, so that a long recursion stays shallow.
Applied(F(_), x) == CHOOSE y \in {F(z) : z \in {x}} : TRUE

Denominator(f, g) == Add6(One6, TimesV(Mul6(f, g)))
Product(f, g) ==
  IF f = Zero6 THEN g ELSE Mul6(Add6(f, g), Inv6(Denominator(f, g)))
Power(f, n) ==
  LET pow[k \in Nat] ==
        IF k = 0 THEN Zero6
        ELSE LET h == pow[k \div 2] IN Product(Product(h, h), IF k % 2 = 1 THEN f ELSE Zero6)
  IN  pow[n]

\* phi(q), -phi(phi(q)) and phi(phi(phi(q)))
frob_q_power(q, ate) ==
  CASE ate = 1 -> <<Mul2(Conj2(q[1]), BETA_12), Mul2(Conj2(q[2]), BETA_13)>>
    [] ate = -1 -> <<Mul2(q[1], BETA_22), q[2]>>
    [] ate = 3 -> <<Mul2(Conj2(q[1]), BETA_32), Mul2(Conj2(q[2]), BETA_33)>>

\* The line through t and u, as its slope and minus its intercept, and its
\* value at a point given as (-x / y, 1 / y).
Line(t, u) == LET alpha == Slope2(t, u) IN <<alpha, Sub2(Mul2(alpha, t[1]), t[2])>>
ell_affine(line, p) == <<Scale2(p[1], line[1]), Scale2(p[2], line[2]), Zero2>>
EvalPoint(p) == <<Div1(Neg1(p[1]), p[2]), Inv1(p[2])>>

\* Every pair contributes the line through its point and the next one.
AddLines(s, ps, us) ==
  LET f[i \in 0 .. Len(ps)] ==
        IF i = 0 THEN s.f ELSE Product(f[i - 1], ell_affine(Line(s.ts[i], us[i]), ps[i]))
  IN  [f |-> f[Len(ps)], ts |-> [i \in 1 .. Len(ps) |-> AddPoint2(s.ts[i], us[i])]]
multi_miller_loop_affine(pairs) ==
  LET finite == SelectSeq(pairs, LAMBDA e: e[1] # Infinity1 /\ e[2] # Infinity2)
      Each(F(_)) == [i \in DOMAIN finite |-> F(finite[i][2])]
      ps == [i \in DOMAIN finite |-> EvalPoint(finite[i][1])]
      digits == Len(ATE_LOOP_COUNT)
      loop[j \in 1 .. digits] ==
        IF j = digits THEN [f |-> Zero6, ts |-> Each(LAMBDA q: q)]
        ELSE LET Doubled(s) == AddLines([s EXCEPT !.f = Product(@, @)], ps, s.ts)
                 Added(d) ==
                   CASE ATE_LOOP_COUNT[j] = 0 -> d
                     [] ATE_LOOP_COUNT[j] = 1 -> AddLines(d, ps, Each(LAMBDA q: q))
                     [] ATE_LOOP_COUNT[j] = -1 -> AddLines(d, ps, Each(NegPoint2))
             IN  Applied(Added, Applied(Doubled, loop[j + 1]))
  IN  AddLines(AddLines(loop[1], ps, Each(LAMBDA q: frob_q_power(q, 1))),
               ps, Each(LAMBDA q: frob_q_power(q, -1))).f

\* By what it computes: a root of f of order LAMBDA if f is a residue.  The
\* cube root and the cubic non-residue that the code needs for its prime
\* differ from this by a factor of the extension of degree 6.
compute_c_wi(f) ==
  LET root[k \in 0 .. Len(ROOT_EXPONENT)] ==
        IF k = 0 THEN Zero6
        ELSE LET h == root[k - 1]
             IN  IF h = Zero6 THEN Power(f, ROOT_EXPONENT[k])
                 ELSE Product(Power(h, 16), Power(f, ROOT_EXPONENT[k]))
  IN  IF f = Zero6 THEN f ELSE root[Len(ROOT_EXPONENT)]
=============================================================================

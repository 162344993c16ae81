--------------------------------- MODULE G2 ---------------------------------
(***************************************************************************)
(* bn254/g2.rs: points of the twisted curve y^2 = x^3 + TWIST_B over the   *)
(* quadratic extension on the Script stack, the lines of the Miller loop   *)
(* and their product with an element of degree 12.  A line's slope and     *)
(* minus its intercept are checked on the stack.  The constants BETA are   *)
(* the literals of the code, by their Rust names.                          *)
(***************************************************************************)
EXTENDS Script

CONSTANTS N_BITS, LIMB_SIZE, MODULUS, MODULUS_LIMBS,
          P_PLUS_ONE_DIV2, TWO_P_PLUS_ONE_DIV3, P_PLUS_TWO_DIV3, PRIME,
          TWIST_B, BETA_12, BETA_13, BETA_22, BETA_32, BETA_33

Fq == INSTANCE Fq
Fq2 == INSTANCE Fq2
Fq6 == INSTANCE Fq6
A == INSTANCE Ark WITH NONRESIDUE <- <<9, 1>>

is_zero_keep_element ==
  For(0, 4, LAMBDA i: Fq!copy(i) \o Fq!is_zero(0) \o <<OP_TOALTSTACK>>) \o <<OP_1>>
  \o Repeat(4, <<OP_FROMALTSTACK, OP_BOOLAND>>)
drop == Fq2!drop \o Fq2!drop
roll(a) == Repeat(4, Fq!roll(a + 3))
copy(a) == Repeat(4, Fq!copy(a + 3))
equal == Fq2!roll(4) \o Fq2!equal \o <<OP_TOALTSTACK>> \o Fq2!equal \o <<OP_FROMALTSTACK, OP_BOOLAND>>
toaltstack == Fq2!toaltstack \o Fq2!toaltstack
fromaltstack == Fq2!fromaltstack \o Fq2!fromaltstack
push(t) == Fq2!push(t[1]) \o Fq2!push(t[2])

hinted_is_on_curve(x, y) ==
  LET h == <<Fq2!hinted_square(y), Fq2!hinted_square(x), Fq2!hinted_mul(0, x, 2, A!Mul2(x, x))>>
  IN  Fq!Hinted(
        Flat(<<h[1].script, Fq2!copy(2), h[2].script, Fq2!roll(4), h[3].script, Fq2!push(TWIST_B),
               Fq2!add(2, 0), Fq2!equal>>), Fq6!AllHints(h))

\* The Frobenius maps of a point: to the powers p, p^2 (negated) and p^3.
hinted_mul_by_char_on_phi_q(q) ==
  LET h == Fq2!hinted_mul(2, q[1], 0, BETA_22)
  IN  Fq!Hinted(Fq2!toaltstack \o Fq2!push(BETA_22) \o h.script \o Fq2!fromaltstack, h.hints)
ConjugateTimes(q, beta_x, beta_y) ==
  LET hx == Fq2!hinted_mul(2, A!Conj2(q[1]), 0, beta_x)
      hy == Fq2!hinted_mul(2, A!Conj2(q[2]), 0, beta_y)
  IN  Fq!Hinted(
        Flat(<<Fq!neg(0), Fq2!push(beta_y), hy.script, Fq2!toaltstack,
               Fq!neg(0), Fq2!push(beta_x), hx.script, Fq2!fromaltstack>>), hy.hints \o hx.hints)
hinted_mul_by_char_on_q(q) == ConjugateTimes(q, BETA_12, BETA_13)
hinted_mul_by_char_on_phi_sq_q(q) == ConjugateTimes(q, BETA_32, BETA_33)

\* The line at a point of the first curve, as (-x / y, 1 / y).
hinted_ell_by_constant_affine(x, y, slope, bias) ==
  LET h == <<Fq!hinted_mul(1, x, 0, slope[1]), Fq!hinted_mul(1, x, 0, slope[2]),
             Fq!hinted_mul(1, y, 0, bias[1]), Fq!hinted_mul(1, y, 0, bias[2])>>
  IN  Fq!Hinted(
        Flat(<<Fq!copy(1), Fq!roll(6), h[1].script, Fq!roll(2), Fq!roll(5), h[2].script,
               Fq!copy(2), Fq!roll(5), h[3].script, Fq!roll(3), Fq!roll(4), h[4].script>>),
        Fq6!AllHints(h))
hinted_ell_by_constant_affine_and_sparse_mul(f, x, y, slope, bias) ==
  LET h == <<hinted_ell_by_constant_affine(x, y, slope, bias),
             Fq6!hinted_mul_by_34(f, A!Scale2(x, slope), A!Scale2(y, bias))>>
  IN  Fq!Hinted(
        Repeat(4, Fq!TakeHint \o Fq!check_validity_and_keep_element)
        \o Fq2!roll(4) \o h[1].script \o h[2].script,
        slope \o bias \o Fq6!AllHints(h))

(***************************************************************************)
(* Lines and the points they lead to.  [c3, c4] stay on the stack.         *)
(***************************************************************************)
NewPoint(neg_sum, square, product) ==
  Fq!Hinted(
    Flat(<<neg_sum, Fq2!copy(4), Fq2!copy(0), square.script, Fq2!add(4, 0), Fq2!copy(0),
           product.script, Fq2!neg(0), Fq2!copy(4), Fq2!add(2, 0)>>), square.hints \o product.hints)
hinted_affine_add_line(tx, qx, c3) ==
  NewPoint(Flat(<<Fq2!neg(0), Fq2!roll(2), Fq2!neg(0), Fq2!add(2, 0)>>), Fq2!hinted_square(c3),
           Fq2!hinted_mul_w4(4, c3, 0, A!Sub2(A!Sub2(A!Mul2(c3, c3), tx), qx)))
hinted_affine_double_line(tx, c3) ==
  NewPoint(Fq2!double(0) \o Fq2!neg(0), Fq2!hinted_square(c3),
           Fq2!hinted_mul(4, c3, 0, A!Sub2(A!Sub2(A!Mul2(c3, c3), tx), tx)))

\* Mutant: the line's intercept is not added before the comparison with zero.
LineThroughOrigin(x, c3) ==
  LET h == Fq2!hinted_mul(2, x, 0, c3)
  IN  Fq!Hinted(
        Flat(<<Fq2!roll(2), Fq2!copy(6), h.script, Fq2!neg(0), Fq2!add(2, 0), Fq2!drop>>), h.hints)
hinted_check_line_through_point(x, c3) ==
  LET h == Fq2!hinted_mul(2, x, 0, c3)
  IN  Fq!Hinted(
        Flat(<<Fq2!roll(2), Fq2!copy(6), h.script, Fq2!neg(0), Fq2!add(2, 0), Fq2!copy(2),
               Fq2!add(2, 0), Fq2!push_zero, Fq2!equalverify>>), h.hints)
\* alpha * 2 y = 3 x^2
TangentSlope(product, square) ==
  Flat(<<Fq2!copy(0), Fq2!double(0), Fq2!copy(8), product.script, Fq2!copy(4), square.script,
         Fq2!copy(0), Fq2!double(0), Fq2!add(2, 0), Fq2!neg(0), Fq2!add(2, 0), Fq2!push_zero,
         Fq2!equalverify>>)
TangentHints(t, c3) ==
  <<Fq2!hinted_mul(2, A!Scale2(2, t[2]), 0, c3), Fq2!hinted_square(t[1]),
    hinted_check_line_through_point(t[1], c3)>>
hinted_check_tangent_line(t, c3) ==
  LET h == TangentHints(t, c3)
  IN  Fq!Hinted(TangentSlope(h[1], h[2]) \o h[3].script, Fq6!AllHints(h))
hinted_check_tangent_line_keep_elements(t, c3) ==
  LET h == TangentHints(t, c3)
  IN  Fq!Hinted(
        Flat(<<Fq2!copy(2), Fq2!copy(2), Fq2!toaltstack, Fq2!toaltstack, h[3].script,
               Fq2!fromaltstack, Fq2!fromaltstack, TangentSlope(h[1], h[2])>>),
        h[3].hints \o h[1].hints \o h[2].hints)
hinted_check_chord_line(t, q, c3) ==
  LET h == <<hinted_check_line_through_point(q[1], c3), hinted_check_line_through_point(t[1], c3)>>
  IN  Fq!Hinted(
        Flat(<<Fq2!copy(10), Fq2!copy(10), Fq2!roll(6), Fq2!roll(6), h[1].script,
               Fq2!roll(6), Fq2!roll(6), h[2].script, Fq2!drop, Fq2!drop>>), Fq6!AllHints(h))
=============================================================================

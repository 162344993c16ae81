-------------------------------- MODULE Fq2 ---------------------------------
(***************************************************************************)
(* bn254/fq2.rs: the quadratic extension on the Script stack, c0 below c1. *)
(* Depths count elements of the prime field.                               *)
(***************************************************************************)
EXTENDS Script

CONSTANTS N_BITS, LIMB_SIZE, MODULUS, MODULUS_LIMBS,
          P_PLUS_ONE_DIV2, TWO_P_PLUS_ONE_DIV3, P_PLUS_TWO_DIV3, PRIME

Fq == INSTANCE Fq
A == INSTANCE Ark WITH NONRESIDUE <- <<9, 1>>

copy(a) == Fq!copy(a + 1) \o Fq!copy(a + 1)
roll(a) == Fq!roll(a + 1) \o Fq!roll(a + 1)
drop == Fq!drop \o Fq!drop
toaltstack == Fq!toaltstack \o Fq!toaltstack
fromaltstack == Fq!fromaltstack \o Fq!fromaltstack
push(x) == Fq!push(x[1]) \o Fq!push(x[2])
push_zero == Fq!push_zero \o Fq!push_zero
push_one == Fq!push_one \o Fq!push_zero
equalverify == Fq!equalverify(3, 1) \o Fq!equalverify(1, 0)
equal == Fq!equal(3, 1) \o <<OP_TOALTSTACK>> \o Fq!equal(1, 0) \o <<OP_FROMALTSTACK, OP_BOOLAND>>
add(a, b) ==
  LET deep == Fq!Larger(a, b)
      high == Fq!Smaller(a, b)
  IN  Fq!add(deep + 1, high + 1) \o Fq!add(deep, high + 1)
\* Mutant: the second difference forgets that the first is now on top.
SubUncounted(a, b) == Fq!sub(a + 1, b + 1) \o Fq!sub(a, b + 1)
sub(a, b) ==
  Fq!sub(a + 1, b + 1) \o (IF a > b THEN Fq!sub(a, b + 1) ELSE Fq!sub(a + 1, b))
double(a) == Fq!double(a + 1) \o Fq!double(a + 1)
triple(a) == copy(a) \o double(a + 2) \o add(2, 0)
div2 == Fq!roll(1) \o Fq!div2 \o Fq!roll(1) \o Fq!div2
div3 == Fq!roll(1) \o Fq!div3 \o Fq!roll(1) \o Fq!div3
neg(a) == Fq!neg(a + 1) \o Fq!neg(a + 1)
check_validity_and_keep_element ==
  Fq!check_validity \o Fq!check_validity_and_keep_element
  \o Repeat(Fq!N_LIMBS, <<OP_FROMALTSTACK>>)
check_validity == Fq!check_validity \o Fq!check_validity

\* a*b with the two linear combinations of c0 and c1 that are given.
MulBy(keep, lc2, a_depth, b_depth) ==
  Fq!Hinted(
    Flat(<<roll(Fq!Larger(a_depth, b_depth)), roll(Fq!Smaller(a_depth, b_depth) + 2), Fq!roll(1),
           keep.script, Fq!toaltstack, Fq!roll(1), Fq!neg(0), lc2.script, Fq!fromaltstack>>),
    keep.hints \o lc2.hints)
\* The deeper operand is a.
Ordered(a_depth, a, b_depth, b) == IF a_depth < b_depth THEN <<b, a>> ELSE <<a, b>>
Cross(x) == <<x[1][1], x[1][2], x[2][2], x[2][1]>>
Norm(x) == <<x[1][1], x[1][2], x[2][1], A!Neg1(x[2][2])>>
hinted_mul(a_depth, a, b_depth, b) ==
  LET x == Ordered(a_depth, a, b_depth, b)
  IN  MulBy(Fq!hinted_mul_lc2_keep_elements(<<3, 2, 1, 0>>, Cross(x)),
            Fq!hinted_mul_lc2(<<3, 2, 1, 0>>, Norm(x)), a_depth, b_depth)
hinted_mul_w4(a_depth, a, b_depth, b) ==
  LET x == Ordered(a_depth, a, b_depth, b)
  IN  MulBy(Fq!hinted_mul_lc2_keep_elements_w4(<<3, 2, 1, 0>>, Cross(x)),
            Fq!hinted_mul_lc2_w4(<<3, 2, 1, 0>>, Norm(x)), a_depth, b_depth)

hinted_mul_by_constant(a, constant) ==
  LET h1 == Fq!hinted_mul_by_constant(a[1], constant[1])
      h2 == Fq!hinted_mul_by_constant(a[2], constant[2])
      h3 == Fq!hinted_mul_by_constant((a[1] + a[2]) % PRIME, (constant[1] + constant[2]) % PRIME)
  IN  Fq!Hinted(
        Flat(<<Fq!copy(1), h1.script, Fq!copy(1), h2.script, Fq!add(3, 2), h3.script,
               Fq!copy(2), Fq!copy(2), Fq!add(1, 0), Fq!sub(1, 0), Fq!sub(2, 1), Fq!roll(1)>>),
        h1.hints \o h2.hints \o h3.hints)

\* a*b + c*d
hinted_mul_lc4_keep_elements(a, b, c, d) ==
  LET depths == <<7, 6, 5, 4, 3, 2, 1, 0>>
      h1 == Fq!hinted_mul_lc4(depths, <<a[1], A!Neg1(a[2]), c[1], A!Neg1(c[2]),
                                        b[1], b[2], d[1], d[2]>>)
      h2 == Fq!hinted_mul_lc4(depths, <<a[1], a[2], c[1], c[2], b[2], b[1], d[2], d[1]>>)
  IN  Fq!Hinted(
        Flat(<<copy(6), Fq!neg(0), copy(4), Fq!neg(0), copy(8), copy(6), h1.script, Fq!toaltstack,
               copy(6), copy(6), copy(6), copy(6), toaltstack, roll(2), Fq!roll(1), fromaltstack,
               Fq!roll(1), h2.script, Fq!fromaltstack, Fq!roll(1)>>),
        h1.hints \o h2.hints)

hinted_square(a) ==
  LET h1 == Fq!hinted_mul_keep_element(1, a[1], 0, a[2])
      h2 == Fq!hinted_mul(1, A!Sub1(a[1], a[2]), 0, (a[1] + a[2]) % PRIME)
  IN  Fq!Hinted(
        Flat(<<Fq!copy(1), Fq!copy(1), h1.script, Fq!double(0), Fq!sub(2, 1), Fq!add(3, 2),
               h2.script, Fq!roll(1)>>), h1.hints \o h2.hints)

\* FROBENIUS_COEFF_FP2_C1 is 1, -1.
hinted_frobenius_map(i, a) ==
  Fq!hinted_mul_by_constant(a[2], IF i % 2 = 0 THEN 1 ELSE PRIME - 1)
=============================================================================

-------------------------------- MODULE Fq6 ---------------------------------
(***************************************************************************)
(* bn254/fq6.rs and fq12.rs: the sextic extension on the Script stack, its *)
(* three quadratic coefficients c0 deepest, and the extension of degree 12 *)
(* by two of those.  Depths count elements of the prime field.  The Rust   *)
(* names of Fq12 have the suffix 12 here.                                  *)
(***************************************************************************)
EXTENDS Script

CONSTANTS N_BITS, LIMB_SIZE, MODULUS, MODULUS_LIMBS,
          P_PLUS_ONE_DIV2, TWO_P_PLUS_ONE_DIV3, P_PLUS_TWO_DIV3, PRIME

Fq2 == INSTANCE Fq2
Fq == INSTANCE Fq
A == INSTANCE Ark WITH NONRESIDUE <- <<9, 1>>

copy(a) == Repeat(3, Fq2!copy(a + 4))
roll(a) == Repeat(3, Fq2!roll(a + 4))
drop == Repeat(3, Fq2!drop)
toaltstack == Repeat(3, Fq2!toaltstack)
fromaltstack == Repeat(3, Fq2!fromaltstack)
is_zero ==
  Repeat(6, Fq!push(0) \o Fq!equal(1, 0) \o <<OP_TOALTSTACK>>) \o <<OP_1>>
  \o Repeat(6, <<OP_FROMALTSTACK, OP_BOOLAND>>)
push(x) == For(1, 4, LAMBDA i: Fq2!push(x[i]))
push_zero == Repeat(3, Fq2!push_zero)
equalverify == For(0, 6, LAMBDA i: Fq!equalverify(11 - i * 2, 5 - i))
add(a, b) ==
  LET deep == Fq!Larger(a, b)
      high == Fq!Smaller(a, b)
  IN  For(0, 3, LAMBDA i: Fq2!add(deep + 4 - 2 * i, high + 4))
sub(a, b) ==
  For(0, 3, LAMBDA i: IF a > b THEN Fq2!sub(a + 4 - 2 * i, b + 4) ELSE Fq2!sub(a + 4, b + 4 - 2 * i))
double(a) == Repeat(3, Fq2!double(a + 4))
neg(a) == Repeat(3, Fq2!neg(a + 4))
check_validity == Repeat(3, Fq2!check_validity)

\* Multiplication by 9 + i.
mul_fq2_by_nonresidue ==
  Flat(<<Fq2!copy(0), Fq2!double(0), Fq2!double(0), Fq2!double(0), Fq!copy(3), Fq!add(2, 0),
         Fq!copy(2), Fq!sub(1, 0), Fq!add(2, 1), Fq!add(2, 0)>>)

\* The hints of the operations of a script, in their order.
AllHints(hs) == Flat([i \in 1 .. Len(hs) |-> hs[i].hints])

Sum3(x) == A!Add2(A!Add2(x[1], x[2]), x[3])
Alternate3(x) == A!Add2(A!Sub2(x[1], x[2]), x[3])
At2(x) == A!Add2(A!Add2(x[1], A!Scale2(2, x[2])), A!Scale2(4, x[3]))

hinted_square(a) ==
  LET h == <<Fq2!hinted_square(a[1]), Fq2!hinted_square(Sum3(a)),
             Fq2!hinted_square(Alternate3(a)), Fq2!hinted_mul(2, a[2], 0, a[3]),
             Fq2!hinted_square(a[3])>>
  IN  Fq!Hinted(
        Flat(<<Fq2!copy(4), h[1].script, Fq2!roll(6), Fq2!copy(4), Fq2!add(2, 0), Fq2!copy(0),
               Fq2!copy(8), Fq2!add(2, 0), h[2].script, Fq2!copy(8), Fq2!sub(4, 0), h[3].script,
               Fq2!roll(8), Fq2!copy(8), h[4].script, Fq2!double(0), Fq2!roll(8), h[5].script,
               Fq2!copy(6), Fq2!roll(6), Fq2!add(2, 0), Fq2!div2,
               \* s0, s1, s3, s4, t1
               Fq2!copy(4), mul_fq2_by_nonresidue, Fq2!copy(10), Fq2!add(2, 0),
               Fq2!copy(4), mul_fq2_by_nonresidue, Fq2!copy(4), Fq2!add(10, 0), Fq2!sub(10, 0),
               Fq2!add(2, 0), Fq2!add(8, 6), Fq2!sub(6, 0)>>), AllHints(h))

\* Toom-Cook: the values of both factors at 0, 1, -1, 2 and infinity are
\* multiplied.  The two variants differ in how they fetch the coefficients.
PairAtPlusMinus(depth, above) ==
  <<Fq2!copy(depth + above), Fq2!copy(depth + above - 2), Fq2!add(2, 0), Fq2!copy(0),
    Fq2!copy(depth + above + 2), Fq2!copy(0), Fq2!add(4, 0), Fq2!sub(4, 2)>>
FourTimes == <<Fq2!double(0), Fq2!double(0)>>
Interpolation ==
  \* 3 v0, 3 v1 and 6 v4
  <<Fq2!triple(8), Fq2!triple(8), Fq2!triple(4), Fq2!double(0),
    \* c0
    Fq2!copy(4), Fq2!copy(4), Fq2!sub(2, 0), Fq2!copy(10), Fq2!sub(2, 0), Fq2!copy(8),
    Fq2!add(2, 0), Fq2!copy(2), Fq2!double(0), Fq2!sub(2, 0), mul_fq2_by_nonresidue,
    Fq2!copy(6), Fq2!double(0), Fq2!add(2, 0),
    \* c1
    Fq2!copy(4), Fq2!double(0), Fq2!copy(8), Fq2!sub(2, 0), Fq2!copy(12), Fq2!double(0),
    Fq2!sub(2, 0), Fq2!roll(10), Fq2!sub(2, 0), Fq2!copy(4), Fq2!double(0), Fq2!add(2, 0),
    Fq2!copy(4), mul_fq2_by_nonresidue, Fq2!add(2, 0),
    \* c2
    Fq2!roll(6), Fq2!roll(8), Fq2!double(0), Fq2!sub(2, 0), Fq2!roll(8), Fq2!triple(0),
    Fq2!add(2, 0), Fq2!sub(0, 6),
    Fq2!roll(4), Fq2!div2, Fq2!div3, Fq2!roll(4), Fq2!div2, Fq2!div3,
    Fq2!roll(4), Fq2!div2, Fq2!div3>>
ToomHints(x, y) ==
  <<Fq2!hinted_mul(2, x[1], 0, y[1]), Fq2!hinted_mul(6, Sum3(x), 2, Sum3(y)),
    Fq2!hinted_mul(4, Alternate3(x), 2, Alternate3(y)), Fq2!hinted_mul(2, At2(x), 0, At2(y)),
    Fq2!hinted_mul(2, x[3], 0, y[3])>>
ToomCook(h, a, b, at_two, at_infinity) ==
  Fq!Hinted(
    Flat(<<Fq2!copy(a + 4), Fq2!copy(b + 6), h[1].script>>
         \o PairAtPlusMinus(a, 6) \o PairAtPlusMinus(b, 10)
         \o <<h[2].script, h[3].script>> \o at_two \o <<h[4].script>>
         \o at_infinity \o <<h[5].script>> \o Interpolation), AllHints(h))
hinted_mul(a_depth, x, b_depth, y) ==
  LET a == Fq!Larger(a_depth, b_depth)
      b == Fq!Smaller(a_depth, b_depth)
      v == Fq2!Ordered(a_depth, x, b_depth, y)
  IN  ToomCook(ToomHints(v[1], v[2]), a, b,
        <<Fq2!roll(a + 8), Fq2!double(0), Fq2!copy(a + 8)>> \o FourTimes
        \o <<Fq2!add(2, 0), Fq2!roll(a + 10), Fq2!add(2, 0),
             Fq2!roll(b + 10), Fq2!double(0), Fq2!copy(b + 10)>> \o FourTimes
        \o <<Fq2!add(2, 0), Fq2!roll(b + 12), Fq2!add(2, 0)>>,
        <<Fq2!roll(a + 4), Fq2!roll(b + 10)>>)
hinted_mul_keep_elements(a_depth, x, b_depth, y) ==
  LET a == Fq!Larger(a_depth, b_depth)
      b == Fq!Smaller(a_depth, b_depth)
      v == Fq2!Ordered(a_depth, x, b_depth, y)
  IN  ToomCook(ToomHints(v[1], v[2]), a, b,
        <<Fq2!copy(a + 8), Fq2!double(0), Fq2!copy(a + 8)>> \o FourTimes
        \o <<Fq2!add(2, 0), Fq2!copy(a + 12), Fq2!add(2, 0),
             Fq2!copy(b + 10), Fq2!double(0), Fq2!copy(b + 10)>> \o FourTimes
        \o <<Fq2!add(2, 0), Fq2!copy(b + 14), Fq2!add(2, 0)>>,
        <<Fq2!copy(a + 8), Fq2!copy(b + 10)>>)

\* p times c0 + c1 v
hinted_mul_by_01(p, c0, c1) ==
  LET h == <<Fq2!hinted_mul(2, p[1], 0, c0), Fq2!hinted_mul(2, p[2], 0, c1),
             Fq2!hinted_mul(2, A!Add2(p[2], p[3]), 0, c1),
             Fq2!hinted_mul(2, A!Add2(p[1], p[2]), 0, A!Add2(c0, c1)),
             Fq2!hinted_mul(10, c0, 0, A!Add2(p[1], p[3]))>>
  IN  Fq!Hinted(
        Flat(<<Fq2!copy(8), Fq2!copy(4), h[1].script, Fq2!copy(8), Fq2!copy(4), h[2].script,
               Fq2!copy(10), Fq2!copy(10), Fq2!add(2, 0), Fq2!copy(6), h[3].script, Fq2!copy(2),
               Fq2!sub(2, 0), mul_fq2_by_nonresidue, Fq2!copy(4), Fq2!add(2, 0), Fq2!copy(14),
               Fq2!roll(14), Fq2!add(2, 0), Fq2!copy(10), Fq2!roll(10), Fq2!add(2, 0), h[4].script,
               Fq2!copy(6), Fq2!sub(2, 0), Fq2!copy(4), Fq2!sub(2, 0), Fq2!add(12, 10), h[5].script,
               Fq2!sub(0, 8), Fq2!add(0, 6)>>), AllHints(h))

hinted_mul_by_fp2_constant(a, constant) ==
  LET h == [i \in 1 .. 3 |-> Fq2!hinted_mul_by_constant(a[i], constant)]
  IN  Fq!Hinted(For(1, 4, LAMBDA i: Fq2!roll(4) \o h[i].script), AllHints(h))

hinted_frobenius_map(i, a) ==
  LET h == <<Fq2!hinted_frobenius_map(i, a[1]), Fq2!hinted_frobenius_map(i, a[2]),
             Fq2!hinted_mul_by_constant(A!Frob2(i, a[2]), A!FrobeniusCoefficient(i, 2)),
             Fq2!hinted_frobenius_map(i, a[3]),
             Fq2!hinted_mul_by_constant(A!Frob2(i, a[3]), A!FrobeniusCoefficient(i, 4))>>
  IN  Fq!Hinted(
        Flat(<<Fq2!roll(4), h[1].script, Fq2!roll(4), h[2].script, h[3].script,
               Fq2!roll(4), h[4].script, h[5].script>>), AllHints(h))

(***************************************************************************)
(* fq12.rs                                                                 *)
(***************************************************************************)
copy12(a) == copy(a + 6) \o copy(a + 6)
roll12(a) == roll(a + 6) \o roll(a + 6)
equalverify12 == For(0, 12, LAMBDA i: Fq!equalverify(23 - i * 2, 11 - i))
add12(a, b) ==
  LET deep == Fq!Larger(a, b)
      high == Fq!Smaller(a, b)
  IN  add(deep + 6, high + 6) \o add(deep, high + 6)
sub12(a, b) == sub(a + 6, b + 6) \o (IF a > b THEN sub(a, b + 6) ELSE sub(a + 6, b))
double12(a) == double(a + 6) \o double(a + 6)
mul_fq6_by_nonresidue == mul_fq2_by_nonresidue \o Fq2!roll(4) \o Fq2!roll(4)

hinted_mul12(a_depth, x, b_depth, y) ==
  LET a == Fq!Larger(a_depth, b_depth)
      b == Fq!Smaller(a_depth, b_depth)
      v == Fq2!Ordered(a_depth, x, b_depth, y)
      h == <<hinted_mul(6, v[1][1], 0, v[2][1]), hinted_mul(6, v[1][2], 0, v[2][2]),
             hinted_mul(6, A!Add6(v[1][1], v[1][2]), 0, A!Add6(v[2][1], v[2][2]))>>
  IN  Fq!Hinted(
        Flat(<<copy(a + 6), copy(b + 12), h[1].script, copy(a + 6), copy(b + 12), h[2].script,
               add(a + 12, a + 18), add(b + 18, b + 24), h[3].script, copy(12), copy(12),
               mul_fq6_by_nonresidue, add(6, 0), add(18, 12), sub(12, 0)>>), AllHints(h))

\* p times 1 + (c3 + c4 v) w
hinted_mul_by_34(p, c3, c4) ==
  LET h == <<hinted_mul_by_01(p[2], c3, c4),
             hinted_mul_by_01(A!Add6(p[1], p[2]), A!Add2(c3, A!One2), c4)>>
  IN  Fq!Hinted(
        Flat(<<copy(4), Fq2!copy(8), Fq2!copy(8), h[1].script, copy(16), copy(6),
               mul_fq6_by_nonresidue, copy(6), add(6, 0), add(28, 22), Fq2!roll(26), Fq2!push_one,
               Fq2!add(2, 0), Fq2!roll(26), h[2].script, add(18, 12), sub(6, 0)>>), AllHints(h))

hinted_square12(a) ==
  LET h == <<hinted_mul(12, a[2], 18, a[1]),
             hinted_mul(12, A!Add6(a[1], a[2]), 6, A!Add6(a[1], A!TimesV(a[2])))>>
  IN  Fq!Hinted(
        Flat(<<copy(6), copy(6), add(6, 0), copy(6), mul_fq6_by_nonresidue, copy(18), add(0, 6),
               h[1].script, h[2].script, copy(6), mul_fq6_by_nonresidue, copy(12), add(6, 0),
               sub(6, 0), double(6)>>), AllHints(h))

hinted_frobenius_map12(i, a) ==
  LET h == <<hinted_frobenius_map(i, a[1]), hinted_frobenius_map(i, a[2]),
             hinted_mul_by_fp2_constant(A!FrobeniusMap6(i, a[2]), A!FrobeniusCoefficient(i, 1))>>
  IN  Fq!Hinted(Flat(<<roll(6), h[1].script, roll(6), h[2].script, h[3].script>>), AllHints(h))
=============================================================================

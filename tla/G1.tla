--------------------------------- MODULE G1 ---------------------------------
(***************************************************************************)
(* bn254/g1.rs and msm.rs: points of the curve y^2 = x^3 + COEFF_B on the  *)
(* Script stack, x below y, the point at infinity as two zeros, and the    *)
(* multiplication of constant points by scalars through lookup tables.     *)
(* The slope of a line is a hint, which the script checks before it uses   *)
(* it.  The code's curve has COEFF_B 3, windows of 8 bits and batches of 8 *)
(* tables.                                                                 *)
(***************************************************************************)
EXTENDS Script

CONSTANTS N_BITS, LIMB_SIZE, MODULUS, MODULUS_LIMBS,
          P_PLUS_ONE_DIV2, TWO_P_PLUS_ONE_DIV3, P_PLUS_TWO_DIV3, PRIME,
          COEFF_B, WINDOW_G1_MSM, BATCH_SIZE_PER_CHUNK

Fq == INSTANCE Fq
Fq2 == INSTANCE Fq2
A == INSTANCE Ark WITH NONRESIDUE <- <<9, 1>>
\* The scalars have as many bits and limbs.
Fr == INSTANCE BigInt

push(t) == Fq!push(t[1]) \o Fq!push(t[2])
toaltstack == Fq!toaltstack \o Fq!toaltstack
fromaltstack == Fq!fromaltstack \o Fq!fromaltstack
identity == Fq!push_zero \o Fq!push_zero
equalverify == Fq!roll(2) \o Fq!equalverify(1, 0) \o Fq!equalverify(1, 0)
is_zero == Fq!is_zero(0) \o <<OP_TOALTSTACK>> \o Fq!is_zero(0) \o <<OP_FROMALTSTACK, OP_BOOLAND>>
is_zero_keep_element ==
  Fq!is_zero_keep_element(0) \o <<OP_TOALTSTACK>> \o Fq!is_zero_keep_element(1)
  \o <<OP_FROMALTSTACK, OP_BOOLAND>>
drop == Fq!drop \o Fq!drop
roll(a) == Fq!roll(a + 1) \o Fq!roll(a + 1)

AllHints(hs) == Flat([i \in 1 .. Len(hs) |-> hs[i].hints])
NegBias(t, alpha) == A!Sub1((alpha * t[1]) % PRIME, t[2])

(***************************************************************************)
(* Lines: slope c3 and minus the intercept c4                              *)
(***************************************************************************)
hinted_check_line_through_point(x, c3) ==
  LET h == Fq!hinted_mul(1, x, 3, c3)
  IN  Fq!Hinted(h.script \o Fq!sub(1, 0) \o Fq!add(1, 0) \o Fq!push_zero \o Fq!equal(1, 0), h.hints)
hinted_check_chord_line(t, q, c3) ==
  LET h == <<hinted_check_line_through_point(q[1], c3), hinted_check_line_through_point(t[1], c3)>>
  IN  Fq!Hinted(
        Flat(<<Fq!copy(5), Fq!copy(5), Fq!roll(3), Fq!roll(3), h[1].script, <<OP_TOALTSTACK>>,
               h[2].script, <<OP_FROMALTSTACK, OP_BOOLAND>>>>), AllHints(h))
\* Mutant: the tangent's slope is not compared with the curve's.
TangentUnchecked(t, c3) == hinted_check_line_through_point(t[1], c3)
hinted_check_tangent_line(t, c3) ==
  LET h == <<Fq!hinted_mul(1, (2 * t[2]) % PRIME, 0, c3), Fq!hinted_square(t[1]),
             hinted_check_line_through_point(t[1], c3)>>
  IN  Fq!Hinted(
        Flat(<<Fq!copy(0), Fq!double(0), Fq!copy(4), h[1].script, Fq!copy(2), h[2].script,
               Fq!copy(0), Fq!double(0), Fq!add(1, 0), Fq!sub(1, 0), Fq!is_zero(0),
               <<OP_TOALTSTACK>>, h[3].script, <<OP_FROMALTSTACK, OP_BOOLAND>>>>), AllHints(h))

\* The third point of a line through points with these x, or its tangent.
ThirdPoint(sum_x, x, c3) ==
  LET h == <<Fq!hinted_square(c3), Fq!hinted_mul(2, c3, 0, x)>>
  IN  Fq!Hinted(
        Flat(<<sum_x, Fq!roll(2), Fq!copy(0), h[1].script, Fq!sub(0, 2), Fq!copy(0), h[2].script,
               Fq!sub(2, 0)>>), AllHints(h))
hinted_add(tx, qx, c3) ==
  ThirdPoint(Fq!add(1, 0), A!Sub1(A!Sub1((c3 * c3) % PRIME, qx), tx), c3)
hinted_double(t, c3) ==
  ThirdPoint(Fq!double(0), A!Sub1(A!Sub1((c3 * c3) % PRIME, t[1]), t[1]), c3)

(***************************************************************************)
(* Sums.  Slope and intercept are the first two hints.                     *)
(***************************************************************************)
TakeLine == Repeat(2, Fq!TakeHint \o Fq!check_validity_and_keep_element)
            \o Fq!copy(1) \o Fq!copy(1) \o Fq!copy(5) \o Fq!roll(5)
\* Neither point is at infinity in the else branch, [q, t] on the stack.
UnlessZero(else) ==
  is_zero_keep_element
  \o <<OP_IF(drop, roll(2) \o is_zero_keep_element \o <<OP_IF(drop, else)>>)>>
ThroughChord(chord) == Fq!copy(8) \o Fq!roll(8) \o chord.script \o <<OP_VERIFY>>

\* The assertions that the code makes before it builds the script.
NotDegenerate(t, q) == t # q /\ t # A!NegPoint1(q)
hinted_check_add_prevent_degenerate(t, q) ==
  LET finite == t # A!Infinity1 /\ q # A!Infinity1
      alpha == IF finite THEN A!Slope1(t, q) ELSE 0
      h == <<hinted_check_chord_line(t, q, alpha), hinted_add(t[1], q[1], alpha)>>
  IN  Fq!Hinted(
        UnlessZero(TakeLine \o ThroughChord(h[1]) \o Fq!roll(2) \o Fq!roll(3) \o h[2].script),
        IF finite THEN <<alpha, NegBias(t, alpha)>> \o AllHints(h) ELSE <<>>)

hinted_check_add(t, q) ==
  LET finite == t # A!Infinity1 /\ q # A!Infinity1 /\ t # A!NegPoint1(q)
      alpha == IF finite THEN A!Slope1(t, q) ELSE 0
      chord == hinted_check_chord_line(t, q, alpha)
      tangent == hinted_check_tangent_line(t, alpha)
      sum == hinted_add(t[1], q[1], alpha)
      Opposite == <<OP_FROMALTSTACK, OP_DROP>> \o drop \o drop \o identity
      General ==
        TakeLine
        \o <<OP_FROMALTSTACK,
             OP_IF(tangent.script \o <<OP_VERIFY>> \o Fq!roll(3) \o Fq!drop, ThroughChord(chord))>>
        \o Fq!roll(2) \o Fq!roll(3) \o sum.script
  IN  Fq!Hinted(
        UnlessZero(
          Fq!U254!equal_keep_elements(3, 1) \o <<OP_DUP, OP_TOALTSTACK, OP_TOALTSTACK>>
          \o Fq!U254!equal_keep_elements(2, 0) \o <<OP_NOT, OP_FROMALTSTACK, OP_BOOLAND>>
          \o <<OP_IF(Opposite, General)>>),
        IF finite THEN <<alpha, NegBias(t, alpha)>>
                       \o (IF t = q THEN tangent.hints ELSE chord.hints) \o sum.hints
        ELSE <<>>)

hinted_check_double(t) ==
  LET finite == t # A!Infinity1
      alpha == IF finite THEN A!Slope1(t, t) ELSE 0
      h == <<hinted_check_tangent_line(t, alpha), hinted_double(t, alpha)>>
  IN  Fq!Hinted(
        is_zero_keep_element
        \o <<Fq!OP_NOTIF(TakeLine \o h[1].script \o <<OP_VERIFY>> \o Fq!roll(2) \o h[2].script)>>,
        IF finite THEN <<alpha, NegBias(t, alpha)>> \o AllHints(h) ELSE <<>>)

hinted_is_on_curve(x, y) ==
  LET h == <<Fq!hinted_square(y), Fq!hinted_square(x), Fq!hinted_mul(0, x, 1, (x * x) % PRIME)>>
  IN  Fq!Hinted(
        Flat(<<h[1].script, Fq!copy(1), h[2].script, Fq!roll(2), h[3].script, Fq!push(COEFF_B),
               Fq!add(1, 0), Fq!equal(1, 0)>>), AllHints(h))

\* (-x / y, 1 / y): the inverse of y is on the stack, or the first hint.
EvalPoint(p) ==
  LET y_inv == A!Inv1(p[2])
      h == <<Fq!hinted_mul(1, p[2], 0, y_inv), Fq!hinted_mul(1, y_inv, 0, A!Neg1(p[1]))>>
  IN  Fq!Hinted(
        Flat(<<Fq!copy(2), h[1].script, Fq!push_one, Fq!equalverify(1, 0), Fq!copy(1),
               Fq!toaltstack, Fq!neg(0), h[2].script, Fq!fromaltstack>>), AllHints(h))
hinted_from_eval_point(p) == EvalPoint(p)
hinted_from_eval_points(p) ==
  LET h == EvalPoint(p)
  IN  Fq!Hinted(Fq2!toaltstack \o Fq!TakeHint \o Fq!check_validity_and_keep_element
                \o Fq2!fromaltstack \o h.script, <<A!Inv1(p[2])>> \o h.hints)

(***************************************************************************)
(* msm.rs.  The table of index i holds the multiples of 2^(w i) times the  *)
(* base; w bits of the scalar choose a row, which is added to the          *)
(* accumulator.  A batch of tables makes one script.                       *)
(***************************************************************************)
num_tables == Fq!U254!DivCeil(N_BITS, WINDOW_G1_MSM)
table(base, index) ==
  LET doubled == A!Multiple1(2 ^ (WINDOW_G1_MSM * index), base)
      p_mul[i \in 0 .. 2 ^ WINDOW_G1_MSM - 1] ==
        IF i = 0 THEN A!Infinity1 ELSE A!AddPoint1(p_mul[i - 1], doubled)
  IN  p_mul
\* A tree of conditions on the bits, the least significant on top.
dfs_with_constant_mul(p_mul) ==
  LET w == WINDOW_G1_MSM
      tree[n \in 0 .. w] ==
        [mask \in 0 .. 2 ^ w - 1 |->
           IF n = w THEN (IF mask = 0 THEN identity ELSE push(p_mul[mask]))
           ELSE IF mask < 2 ^ n THEN <<OP_IF(tree[n + 1][mask + 2 ^ n], tree[n + 1][mask])>>
           ELSE <<>>]
  IN  tree[0][0]
scalar_slice(scalar, index) == (scalar \div 2 ^ (WINDOW_G1_MSM * index)) % 2 ^ WINDOW_G1_MSM
get_query_for_table_index(index) ==
  LET size == num_tables * WINDOW_G1_MSM
  IN  Fr!convert_to_le_bits_toaltstack
      \o Repeat(size - N_BITS, <<OP_0>>) \o Repeat(N_BITS, <<OP_FROMALTSTACK>>)
      \o For(0, size, LAMBDA i: IF i \div WINDOW_G1_MSM = index THEN <<OP_TOALTSTACK>> ELSE <<OP_DROP>>)
      \o Repeat(WINDOW_G1_MSM, <<OP_FROMALTSTACK>>)

\* The accumulator after the tables below index.
Accumulated(init_acc, base, scalar) ==
  LET acc[i \in 0 .. num_tables] ==
        IF i = 0 THEN init_acc
        ELSE A!AddPoint1(acc[i - 1], table(base, i - 1)[scalar_slice(scalar, i - 1)])
  IN  acc
\* Does every assertion hold while the scripts are built?
ScalarMulAsserts(init_acc, base, scalar) ==
  \A i \in 0 .. num_tables - 1 :
    NotDegenerate(Accumulated(init_acc, base, scalar)[i], table(base, i)[scalar_slice(scalar, i)])
\* One record for each chunk: the accumulator it ends with, script and hints.
accumulate_addition_chain_for_a_scalar_mul(init_acc, base, scalar) ==
  LET acc == Accumulated(init_acc, base, scalar)
      Batch(c) == {i \in 0 .. num_tables - 1 : i \div BATCH_SIZE_PER_CHUNK = c}
      Add(i) == hinted_check_add_prevent_degenerate(acc[i], table(base, i)[scalar_slice(scalar, i)])
      Indices(c) == [k \in 1 .. Cardinality(Batch(c)) |-> BATCH_SIZE_PER_CHUNK * c + k - 1]
      Row(i) == Fr!copy(0) \o Fr!toaltstack \o get_query_for_table_index(i)
                \o dfs_with_constant_mul(table(base, i)) \o Add(i).script \o Fr!fromaltstack
      Chunk(c) ==
        LET is == Indices(c)
        IN  [out |-> acc[is[Len(is)] + 1],
             script |-> Fq2!copy(1) \o Fq2!toaltstack
                        \o Flat([k \in 1 .. Len(is) |-> Row(is[k])])
                        \o Fr!drop \o Fq2!fromaltstack \o Fq2!roll(2),
             hints |-> Flat([k \in 1 .. Len(is) |-> Add(is[k]).hints])]
  IN  [c \in 1 .. Fq!U254!DivCeil(num_tables, BATCH_SIZE_PER_CHUNK) |-> Chunk(c - 1)]
\* The chunks of all the products; one scalar starts where the last one ended.
g1_multi_scalar_mul(bases, scalars) ==
  LET from[i \in 1 .. Len(bases)] ==
        IF i = 1 THEN A!Infinity1
        ELSE Accumulated(from[i - 1], bases[i - 1], scalars[i - 1])[num_tables]
      Of(i) == accumulate_addition_chain_for_a_scalar_mul(from[i], bases[i], scalars[i])
      Chunks(i) ==
        LET chunks == Of(i)
        IN  [k \in 1 .. Len(chunks) |->
               [from |-> IF k = 1 THEN from[i] ELSE chunks[k - 1].out, scalar |-> scalars[i],
                out |-> chunks[k].out, script |-> chunks[k].script, hints |-> chunks[k].hints]]
  IN  Flat([i \in 1 .. Len(bases) |-> Chunks(i)])
=============================================================================

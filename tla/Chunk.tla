------------------------------- MODULE Chunk --------------------------------
(***************************************************************************)
(* bitvm/src/chunk: the Groth16 verifier cut into segments.  The operator  *)
(* commits to the inputs of the proof and to the result of every segment;  *)
(* one tapscript for each segment spends the bond of an operator whose     *)
(* result does not follow from the results the segment depends on.         *)
(*                                                                         *)
(* A segment is modelled by what its script computes; the arithmetic on    *)
(* the stack is the subject of the modules Fq to G2.  The hash of a value  *)
(* is the value, so a commitment is an integer (an input) or the value     *)
(* behind a hash, or Unknown when nobody has a preimage.  Identifiers are  *)
(* one more than the code's.                                               *)
(***************************************************************************)
EXTENDS Pairing

CONSTANTS ORDER, COEFF_B, TWIST_B,
          N_BITS, LIMB_SIZE, MODULUS, MODULUS_LIMBS, P_PLUS_ONE_DIV2, TWO_P_PLUS_ONE_DIV3,
          P_PLUS_TWO_DIV3, WINDOW_G1_MSM, BATCH_SIZE_PER_CHUNK,
          vk \* alpha_g1, beta_g2, gamma_g2, delta_g2, gamma_abc_g1

M == INSTANCE G1
S == INSTANCE SequencesExt

Unknown == <<>>
Fq6Of(s) == <<<<s[1], s[2]>>, <<s[3], s[4]>>, <<s[5], s[6]>>>>
InField(s) == \A i \in DOMAIN s : s[i] < PRIME
is_on_curve1(p) == (p[2] * p[2]) % PRIME = (((p[1] * p[1]) % PRIME) * p[1] + COEFF_B) % PRIME
is_on_curve2(q) == Mul2(q[2], q[2]) = Add2(Mul2(q[1], Mul2(q[1], q[1])), TWIST_B)

(***************************************************************************)
(* The segments' results, with is_valid_input: FALSE when the inputs alone *)
(* are enough to disprove.                                                 *)
(***************************************************************************)
Result(value, valid) == [value |-> value, is_valid_input |-> valid]

chunk_precompute_p_from_hash(p) ==
  LET valid == p[2] # 0 /\ is_on_curve1(p)
  IN  Result(IF valid THEN EvalPoint(p) ELSE <<1, 1>>, valid)
chunk_precompute_p(py, px) ==
  IF InField(<<px, py>>) THEN chunk_precompute_p_from_hash(<<px, py>>) ELSE Result(<<1, 1>>, FALSE)

\* The sums while the rows of one batch of tables are added to t.
FirstTable(chunk) == BATCH_SIZE_PER_CHUNK * (chunk - 1)
AfterTable(chunk) == S!Min({FirstTable(chunk + 1), M!num_tables})
Row(base, k, i) == M!table(base, i)[M!scalar_slice(k, i)]
RowsAdded(t, base, k, chunk) ==
  LET acc[i \in FirstTable(chunk) .. AfterTable(chunk)] ==
        IF i = FirstTable(chunk) THEN t ELSE AddPoint1(acc[i - 1], Row(base, k, i - 1))
  IN  acc
num_chunks_per_scalar == M!Fr!DivCeil(N_BITS, WINDOW_G1_MSM * BATCH_SIZE_PER_CHUNK)
\* A scalar that is not below the order is replaced.
ValidScalar(k) == IF k < ORDER THEN k ELSE 1
chunk_msm(t, base, k, chunk) ==
  Result(RowsAdded(t, base, ValidScalar(k), chunk)[AfterTable(chunk)], k < ORDER)
chunk_hash_p(t, q) == Result(AddPoint1(t, q), TRUE)

chunk_hash_c(fs) == Result(IF InField(fs) THEN Fq6Of(fs) ELSE One6, InField(fs))
chunk_hash_c_inv(fs) == Result(IF InField(fs) THEN Neg6(Fq6Of(fs)) ELSE One6, InField(fs))

\* ElemG2Eval: the point, and the terms of the product of the lines' values:
\* a_plus_b, one_plus_ab_j_sq and p2le.
G2Eval(t, a_plus_b, one_plus_ab, p2le) ==
  <<t, <<a_plus_b[1], a_plus_b[2], one_plus_ab[1], one_plus_ab[2], one_plus_ab[3],
         p2le[1], p2le[2]>>>>
chunk_init_t4(q) ==
  LET t == IF InField(q) THEN <<<<q[1], q[2]>>, <<q[3], q[4]>>>> ELSE <<One2, One2>>
  IN  Result(G2Eval(t, Zero6, Zero6, Zero6), InField(q) /\ is_on_curve2(t))

\* The point that an addition step adds.
Addend(q, is_frob, ate) ==
  IF is_frob THEN frob_q_power(q, ate) ELSE IF ate = -1 THEN NegPoint2(q) ELSE q
\* t + u and the line's value at p: zeros if a point is at infinity or the
\* points are opposite.  The line through a point twice is the tangent.
utils_point_eval(t, u, p) ==
  IF t = Infinity2 \/ u = Infinity2 \/ t = NegPoint2(u)
  THEN [t |-> Infinity2, le |-> Zero6]
  ELSE [t |-> AddPoint2(t, u), le |-> ell_affine(Line(t, u), p)]
chunk_point_ops_and_multiply_line_evals_step_1(t4, u4, p4, line3, p3, line2, p2) ==
  LET n == utils_point_eval(t4, u4, p4)
      g == ell_affine(line3, p3)
      one_plus_ab == Denominator(n.le, g)
  IN  Result(G2Eval(n.t, Add6(n.le, g), one_plus_ab, ell_affine(line2, p2)),
             one_plus_ab # Zero6 /\ n.t # Infinity2)
chunk_point_ops_and_multiply_line_evals_step_2(le) ==
  LET apb == <<le[1], le[2], Zero2>>
      ab == <<le[3], le[4], le[5]>>
      c == <<le[6], le[7], Zero2>>
      denom == Add6(ab, TimesV(Mul6(apb, c)))
      valid == denom # Zero6
  IN  Result(IF valid THEN Mul6(Add6(apb, Mul6(ab, c)), Inv6(denom)) ELSE One6, valid)

chunk_dense_dense_mul(a, b) ==
  LET valid == Denominator(a, b) # Zero6
  IN  Result(IF valid THEN Product(a, b) ELSE One6, valid)
\* Its denominator is never zero: v has no square root.
chunk_fq12_square(a) == Result(Product(a, a), TRUE)
chunk_frob_fp12(f, power) ==
  Result([i \in 1 .. 3 |-> Mul2(FrobeniusMap6(power, f)[i], FrobeniusCoefficient(power, 1))], TRUE)

\* PublicParams, from the verifying key.
q2 == NegPoint2(vk.delta_g2)
q3 == NegPoint2(vk.gamma_g2)
fixed_acc == multi_miller_loop_affine(<<<<vk.alpha_g1, NegPoint2(vk.beta_g2)>>>>)
vky0 == vk.gamma_abc_g1[1]
ks_vks == S!Reverse(Tail(vk.gamma_abc_g1))
\* Is the product of the pairings one, and q4 in the group of prime order?
chunk_final_verify(f, t4, q4) ==
  Result(IF Add6(f, fixed_acc) = Zero6 /\ t4 = NegPoint2(frob_q_power(q4, 3))
         THEN 1 ELSE 0, TRUE)

(***************************************************************************)
(* groth16_generate_segments: the segments, with the identifiers and types *)
(* of their parameters.  The inputs come first.                            *)
(***************************************************************************)
NUM_PUBS == Len(vk.gamma_abc_g1) - 1
NUM_U256 == 14
KS == [i \in 1 .. NUM_PUBS |-> i]
P4Y == NUM_PUBS + 1
P4X == NUM_PUBS + 2
P2Y == NUM_PUBS + 3
P2X == NUM_PUBS + 4
GC == [i \in 1 .. 6 |-> NUM_PUBS + 4 + i]
Q4 == [i \in 1 .. 4 |-> NUM_PUBS + 10 + i]
P4 == NUM_PUBS + NUM_U256 + 1
P2 == P4 + 1
FIRST_MSM == P2 + 1
P_VK0 == FIRST_MSM + NUM_PUBS * num_chunks_per_scalar
P3 == P_VK0 + 1
C == P3 + 1
CINV == C + 1
T4 == CINV + 1

Typed(ids, type) == [i \in 1 .. Len(ids) |-> <<ids[i], type>>]
Segment(scr_type, parameter_ids) == [scr_type |-> scr_type, parameter_ids |-> parameter_ids]
NonDeterministic == Segment("NonDeterministic", <<>>)
wrap_hint_msm ==
  [j \in 1 .. NUM_PUBS * num_chunks_per_scalar |->
     LET scalar == 1 + (j - 1) \div num_chunks_per_scalar
     IN  [scr_type |-> "MSM", scalar |-> scalar,
          chunk |-> 1 + ((j - 1) % num_chunks_per_scalar),
          parameter_ids |-> (IF j = 1 THEN <<>> ELSE <<<<FIRST_MSM + j - 2, "G1">>>>)
                            \o <<<<KS[scalar], "ScalarElem">>>>]]
BeforeMiller ==
  [i \in 1 .. NUM_PUBS + NUM_U256 |-> NonDeterministic]
  \o <<Segment("PreMillerPrecomputeP", Typed(<<P4Y, P4X>>, "FieldElem")),
       Segment("PreMillerPrecomputeP", Typed(<<P2Y, P2X>>, "FieldElem"))>>
  \o wrap_hint_msm
  \o <<Segment("PreMillerHashP", <<<<P_VK0 - 1, "G1">>>>),
       Segment("PreMillerPrecomputePFromHash", <<<<P_VK0, "G1">>>>),
       Segment("PreMillerHashC", Typed(S!Reverse(GC), "FieldElem")),
       Segment("PreMillerHashCInv", Typed(S!Reverse(GC), "FieldElem")),
       Segment("PreMillerInitT4", Typed(S!Reverse(Q4), "FieldElem"))>>

\* The state of the loop: the segments so far, the identifiers of the value
\* and of the fourth point, and the points known from the verifying key.
Start == [segments |-> BeforeMiller, f |-> CINV, t4 |-> T4,
          t2 |-> q2, t3 |-> q3]
WithValue(s, segment) ==
  [s EXCEPT !.segments = Append(@, segment), !.f = Len(s.segments) + 1]
wrap_hint_squaring(s) == WithValue(s, Segment("MillerSquaring", <<<<s.f, "Fp6">>>>))
wrap_hints_dense_dense_mul(s, b) ==
  WithValue(s, Segment("FoldedFp12Multiply", <<<<b, "Fp6">>, <<s.f, "Fp6">>>>))
wrap_hints_frob_fp12(s, f, power) ==
  [s EXCEPT !.segments = Append(@, [scr_type |-> "PostMillerFrobFp12", power |-> power,
                                    parameter_ids |-> <<<<f, "Fp6">>>>])]
\* Both steps on the lines, and the product with their value.
PointOps(s, is_dbl, is_frob, ate) ==
  LET u2 == IF is_dbl THEN s.t2 ELSE Addend(q2, is_frob, ate)
      u3 == IF is_dbl THEN s.t3 ELSE Addend(q3, is_frob, ate)
      step_1 == [scr_type |-> "MillerPointOpsStep1", is_dbl |-> is_dbl, is_frob |-> is_frob,
                 ate |-> ate, line3 |-> Line(s.t3, u3), line2 |-> Line(s.t2, u2),
                 parameter_ids |-> Typed(<<P2, P3, P4>>, "G1") \o <<<<s.t4, "G2EvalPoint">>>>
                   \o (IF is_dbl THEN <<>> ELSE Typed(S!Reverse(Q4), "FieldElem"))]
      id == Len(s.segments) + 1
      step_2 == Segment("MillerPointOpsStep2", <<<<id, "G2EvalMul">>>>)
  IN  wrap_hints_dense_dense_mul(
        [s EXCEPT !.segments = @ \o <<step_1, step_2>>, !.t4 = id,
                  !.t2 = AddPoint2(@, u2), !.t3 = AddPoint2(@, u3)], id + 1)
MillerIteration(s, ate) ==
  LET doubled == PointOps(wrap_hint_squaring(s), TRUE, FALSE, 0)
  IN  IF ate = 0 THEN doubled
      ELSE PointOps(wrap_hints_dense_dense_mul(doubled, IF ate = -1 THEN C ELSE CINV),
                    FALSE, FALSE, ate)
MillerLoop(ate_loop_count) ==
  LET loop[j \in 1 .. Len(ate_loop_count)] ==
        IF j = Len(ate_loop_count) THEN Start
        ELSE Applied(LAMBDA s: MillerIteration(s, ate_loop_count[j]), loop[j + 1])
  IN  loop[1]
AfterMiller(s) ==
  LET n == Len(s.segments)
      frobs == wrap_hints_frob_fp12(wrap_hints_frob_fp12(wrap_hints_frob_fp12(s, CINV, 1), C, 2),
                                    CINV, 3)
      product == wrap_hints_dense_dense_mul(
                   wrap_hints_dense_dense_mul(wrap_hints_dense_dense_mul(frobs, n + 1), n + 2), n + 3)
      last == PointOps(PointOps(product, FALSE, TRUE, 1), FALSE, TRUE, -1)
  IN  Append(last.segments,
             Segment("PostMillerFinalVerify",
                     <<<<last.t4, "G2EvalPoint">>, <<last.f, "Fp6">>>>
                     \o Typed(S!Reverse(Q4), "FieldElem")))
SegmentsOf(ate_loop_count) == AfterMiller(MillerLoop(ate_loop_count))
Segments == SegmentsOf(ATE_LOOP_COUNT)

\* The result of a segment on the values of its parameters.
EvaluateWith(seg, v, q4) ==
  CASE seg.scr_type = "PreMillerPrecomputeP" -> chunk_precompute_p(v[1], v[2])
    [] seg.scr_type = "MSM" ->
         chunk_msm(IF Len(v) = 1 THEN Infinity1 ELSE v[1], ks_vks[seg.scalar], v[Len(v)], seg.chunk)
    [] seg.scr_type = "PreMillerHashP" -> chunk_hash_p(v[1], vky0)
    [] seg.scr_type = "PreMillerPrecomputePFromHash" -> chunk_precompute_p_from_hash(v[1])
    [] seg.scr_type = "PreMillerHashC" -> chunk_hash_c(S!Reverse(v))
    [] seg.scr_type = "PreMillerHashCInv" -> chunk_hash_c_inv(S!Reverse(v))
    [] seg.scr_type = "PreMillerInitT4" -> chunk_init_t4(S!Reverse(v))
    [] seg.scr_type = "MillerSquaring" -> chunk_fq12_square(v[1])
    [] seg.scr_type = "FoldedFp12Multiply" -> chunk_dense_dense_mul(v[2], v[1])
    [] seg.scr_type = "PostMillerFrobFp12" -> chunk_frob_fp12(v[1], seg.power)
    [] seg.scr_type = "MillerPointOpsStep1" ->
         chunk_point_ops_and_multiply_line_evals_step_1(
           v[4][1], IF seg.is_dbl THEN v[4][1] ELSE Addend(q4, seg.is_frob, seg.ate),
           v[3], seg.line3, v[2], seg.line2, v[1])
    [] seg.scr_type = "MillerPointOpsStep2" ->
         chunk_point_ops_and_multiply_line_evals_step_2(v[1][2])
    [] seg.scr_type = "PostMillerFinalVerify" -> chunk_final_verify(v[2], v[1][1], q4)
Evaluate(seg, v) ==
  LET n == Len(v)
  IN  EvaluateWith(seg, v, <<<<v[n], v[n - 1]>>, <<v[n - 2], v[n - 3]>>>>)
ParametersOf(seg, values) ==
  [i \in DOMAIN seg.parameter_ids |-> values[seg.parameter_ids[i][1]]]

(***************************************************************************)
(* The runner.  It stops at the first segment whose inputs are invalid or  *)
(* whose result is not the claimed one, and at a final result that is not  *)
(* one.  Building the script of a sum panics when the points are equal or  *)
(* opposite (the point at infinity twice, too).                            *)
(***************************************************************************)
None == <<>>
MsmPanics(ks) ==
  LET init[j \in 1 .. NUM_PUBS + 1] ==
        IF j = 1 THEN Infinity1
        ELSE AddPoint1(init[j - 1], Multiple1(ValidScalar(ks[j - 1]), ks_vks[j - 1]))
  IN  \E j \in 1 .. NUM_PUBS : ~M!ScalarMulAsserts(init[j], ks_vks[j], ValidScalar(ks[j]))
Panics(i, values) ==
  \/ i = FIRST_MSM /\ MsmPanics([j \in 1 .. NUM_PUBS |-> values[KS[j]]])
  \/ i = P_VK0 /\ ~M!NotDegenerate(values[P_VK0 - 1], vky0)
groth16_generate_segments(segments, eval_ins, claimed_assertions) ==
  LET first == Len(eval_ins)
      final == Len(segments)
      Next(i, values) ==
        LET r == Evaluate(segments[i], ParametersOf(segments[i], values))
            matches == IF i = final THEN r.value = 1
                       ELSE \/ claimed_assertions = None
                            \/ r.value = claimed_assertions[i]
        IN  [values |-> Append(values, r.value), panics |-> FALSE,
             going |-> matches /\ r.is_valid_input]
      run[i \in first .. final] ==
        IF i = first THEN [values |-> eval_ins, panics |-> FALSE, going |-> TRUE]
        ELSE LET s == run[i - 1]
             IN  IF ~s.going THEN s
                 ELSE IF Panics(i, s.values) THEN [s EXCEPT !.panics = TRUE, !.going = FALSE]
                 ELSE Next(i, s.values)
  IN  run[final]

(***************************************************************************)
(* The operator                                                            *)
(***************************************************************************)
\* The inputs in their order, from a proof [a, b, c] and its public inputs.
get_segments_from_groth16_proof(segments, proof, scalars) ==
  LET ks == S!Reverse(scalars)
      msm == S!FoldLeft(AddPoint1, vky0,
                        [i \in 1 .. NUM_PUBS |-> Multiple1(ks[i], ks_vks[i])])
      f == multi_miller_loop_affine(
             <<<<vk.alpha_g1, NegPoint2(vk.beta_g2)>>, <<proof.c, q2>>, <<msm, q3>>,
               <<proof.a, proof.b>>>>)
      c == compute_c_wi(f)
  IN  groth16_generate_segments(
        segments,
        ks \o <<proof.a[2], proof.a[1], proof.c[2], proof.c[1]>>
        \o c[1] \o c[2] \o c[3] \o proof.b[1] \o proof.b[2], None)
\* generate_segments_using_mock_vk_and_mock_proof: fixed values, by type.
Mock(scr_type) ==
  CASE scr_type \in {"PreMillerPrecomputeP", "MSM", "PreMillerHashP",
                     "PreMillerPrecomputePFromHash"} -> Infinity1
    [] scr_type \in {"PreMillerInitT4", "MillerPointOpsStep1"} ->
         G2Eval(vk.beta_g2, <<One2, One2, Zero2>>, One6, <<One2, One2, Zero2>>)
    [] OTHER -> One6
\* The results up to where the runner stopped, then the mocked ones; all but
\* the last are committed to.
generate_signatures_for_any_proof(segments, proof, scalars) ==
  LET values == get_segments_from_groth16_proof(segments, proof, scalars).values
  IN  [i \in 1 .. Len(segments) - 1 |->
         IF i \in DOMAIN values THEN values[i] ELSE Mock(segments[i].scr_type)]

(***************************************************************************)
(* The challenger                                                          *)
(***************************************************************************)
\* Can the value behind a commitment be shown to the script of a segment?
Shown(seg, type, value) ==
  CASE type = "ScalarElem" -> TRUE
    [] type = "FieldElem" ->
         seg.scr_type \in {"MillerPointOpsStep1", "PostMillerFinalVerify"} => value < PRIME
    [] OTHER -> value # Unknown
\* A claimed result is refuted by invalid inputs or by another result.
HashesOnly(valid, equal) == ~equal
hash_messages(valid, equal) == IF valid THEN ~equal ELSE TRUE
\* Does the script of segment i succeed on the commitments, for some witness?
Disproves(segments, a, i) ==
  LET seg == segments[i]
      v == ParametersOf(seg, a)
      r == Evaluate(seg, v)
  IN  /\ \A k \in DOMAIN v : Shown(seg, seg.parameter_ids[k][2], v[k])
      /\ IF i = Len(segments) THEN r.value = 0
         ELSE hash_messages(r.is_valid_input, r.value = a[i])
\* The runner on the commitments, and the first script that succeeds.
get_segments_from_assertion(segments, a) ==
  groth16_generate_segments(segments, SubSeq(a, 1, NUM_PUBS + NUM_U256), a)
=============================================================================

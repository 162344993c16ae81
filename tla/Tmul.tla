-------------------------------- MODULE Tmul --------------------------------
(***************************************************************************)
(* The multiplication that fq.rs generates with fp_lc_mul!: the sum of     *)
(* N_LC products modulo MODULUS, by windows of VAR_WIDTH bits.  The prover *)
(* of the script supplies the quotient q; the script subtracts q times the *)
(* modulus as it goes and insists that what is left is below the modulus.  *)
(* U are the operands' integers, T the wider ones of the accumulator.      *)
(* MODULUS is the sequence of its N_BITS bits, least significant first.    *)
(***************************************************************************)
EXTENDS Script

CONSTANTS N_BITS, LIMB_SIZE, MODULUS, WIDTH, N_LC

LC_BITS == BitLength(N_LC - 1)
U == INSTANCE BigInt
T_BITS == N_BITS + WIDTH + LC_BITS + 1
T == INSTANCE BigInt WITH N_BITS <- T_BITS

MOD_WIDTH == WIDTH
VAR_WIDTH == WIDTH
MAIN_LOOP_START == WIDTH
MAIN_LOOP_END == T!DivCeil(N_BITS, WIDTH) * WIDTH
N_VAR_WINDOW == MAIN_LOOP_END \div VAR_WIDTH
N_MOD_WINDOW == MAIN_LOOP_END \div MOD_WIDTH

PickAt(n) == <<Push(n), OP_PICK>>
RollAt(n) == <<Push(n), OP_ROLL>>
ToAlt(n) == Repeat(n, <<OP_TOALTSTACK>>)
FromAlt(n) == Repeat(n, <<OP_FROMALTSTACK>>)

\* The multiples 1 .. 2^window - 1 of the integer on top, the last on top.
size_table(window) == 2 ^ window - 1
init_table(window) ==
  For(2, 2 ^ window, LAMBDA j:
        IF j % 2 = 0 THEN T!double_prevent_overflow_keep_element(j \div 2 - 1)
                     ELSE T!add_ref_with_top(j - 2))
drop_table(window) == Repeat(size_table(window), T!drop)

mod_window(index) ==
  LET low == MOD_WIDTH * (N_MOD_WINDOW - index - 1)
      bit(i) == IF i < N_BITS THEN MODULUS[i + 1] ELSE 0
  IN  T!BitsValue([i \in 1 .. MOD_WIDTH |-> bit(low + i - 1)])

\* The next window of every y: the value of a limb's rest, the accumulator,
\* stays on the alt stack until the limb is used up.
var_windows_script(index) ==
  LET iter == N_VAR_WINDOW - index
      s_bit == iter * VAR_WIDTH - 1
      e_bit == (iter - 1) * VAR_WIDTH
      s_limb == s_bit \div LIMB_SIZE
      e_limb == e_bit \div LIMB_SIZE
      split == s_limb > e_limb
      whole == e_bit % LIMB_SIZE = 0 \/ split
      st == IF whole THEN (s_bit % LIMB_SIZE) + 1 ELSE 0
      y(j) == T!N_LIMBS * (j + 1)
      power(i) == 2 ^ ((s_bit - i) % LIMB_SIZE)
      twice(i) == When(i < VAR_WIDTH - 1, NMUL(2))
      Accumulator(j) ==
        CASE iter = N_VAR_WINDOW -> PickAt(y(j) + s_limb)
          [] (s_bit + 1) % LIMB_SIZE = 0 -> <<OP_FROMALTSTACK, OP_DROP>> \o PickAt(y(j) + s_limb)
          [] OTHER -> <<OP_FROMALTSTACK>>
      Bit(j, i) ==
        When(split /\ i % LIMB_SIZE = (s_bit % LIMB_SIZE) + 1, PickAt(y(j) + e_limb + 1))
        \o CASE i = 0 ->
                  <<Push(power(i)), OP_2DUP, OP_GREATERTHANOREQUAL,
                    OP_IF(<<OP_SUB, Push(2)>>, <<OP_DROP, OP_0>>), OP_SWAP>>
             [] (s_bit - i) % LIMB_SIZE > 7 /\ i > 0 ->
                  <<Push(power(i)), OP_2DUP, OP_GREATERTHANOREQUAL,
                    OP_IF(<<OP_SUB, OP_SWAP, OP_1ADD>>, <<OP_DROP, OP_SWAP>>)>>
                  \o twice(i) \o <<OP_SWAP>>
             [] OTHER ->
                  <<OP_TUCK, Push(power(i) - 1), OP_GREATERTHAN, OP_TUCK, OP_ADD>>
                  \o twice(i) \o <<OP_ROT, OP_ROT, OP_IF(<<Push(power(i)), OP_SUB>>, <<>>)>>
      Store(j) ==
        LET left == N_LC - j - 1
        IN  CASE left = 0 -> <<>>
              [] iter = N_VAR_WINDOW -> ToAlt(2)
              [] OTHER -> FromAlt(left) \o Repeat(2, RollAt(left) \o <<OP_TOALTSTACK>>)
                          \o ToAlt(left)
  IN  For(0, N_LC, LAMBDA j:
            Accumulator(j)
            \o When(whole, IF split THEN NMUL(2) ELSE <<OP_0>>)
            \o For(st, VAR_WIDTH, LAMBDA i: Bit(j, i))
            \o Store(j))
      \o FromAlt(2 * (N_LC - 1))
      \o ForRev(0, N_LC, LAMBDA j:
                  When(j # 0, RollAt(2 * j))
                  \o (IF iter = 1 THEN <<OP_DROP>> ELSE <<OP_TOALTSTACK>>))

push_modulus(n_limbs) ==
  LET limbs == U!biguint_to_limbs(MODULUS, LIMB_SIZE)
  IN  For(0, n_limbs, LAMBDA i:
            <<Push(IF n_limbs - i <= Len(limbs) THEN limbs[n_limbs - i] ELSE 0)>>)

\* z += x * y[i], from the tables of the multiples of the x.
AddWindow(i) ==
  LET Entry(j) == 1 + N_LC + (N_LC - j) * size_table(VAR_WIDTH)
      First == Repeat(T!N_LIMBS, <<OP_NIP>>) \o NMUL(T!N_LIMBS) \o <<OP_DUP, OP_PICK>>
               \o Repeat(T!N_LIMBS - 1, <<OP_SWAP, OP_DUP, OP_PICK>>) \o <<OP_NIP>>
  IN  var_windows_script(i \div VAR_WIDTH - 1) \o ToAlt(N_LC - 1)
      \o For(0, N_LC, LAMBDA j:
               When(j # 0, <<OP_FROMALTSTACK>>)
               \o <<OP_DUP, OP_NOT,
                    OP_IF(<<OP_DROP>>,
                          <<Push(Entry(j)), OP_SWAP, OP_SUB>>
                          \o (IF i + j = MAIN_LOOP_START /\ j = 0 THEN First
                              ELSE T!add_ref_stack))>>)
\* z -= q * p[i], from the table of the multiples of -q.
SubtractWindow(i) ==
  LET w == mod_window(i \div MOD_WIDTH - 1)
  IN  When(w # 0, T!add_ref(1 + N_LC + size_table(MOD_WIDTH)
                            + N_LC * size_table(VAR_WIDTH) - w))

\* Mutant: the result is not compared with the modulus.
UncheckedRemainder ==
  Repeat(N_LC, T!drop) \o Repeat(N_LC, drop_table(VAR_WIDTH)) \o drop_table(MOD_WIDTH)
  \o T!fromaltstack \o T!resize(N_BITS)
Remainder ==
  Repeat(N_LC, T!drop) \o Repeat(N_LC, drop_table(VAR_WIDTH)) \o drop_table(MOD_WIDTH)
  \o push_modulus(T!N_LIMBS) \o T!fromaltstack \o T!copy(0) \o T!lessthan(0, 2)
  \o <<OP_VERIFY>> \o T!resize(N_BITS)

tmul ==
  Repeat(2 * N_LC, U!copy(0) \o push_modulus(U!N_LIMBS) \o U!lessthan(1, 0)
                   \o <<OP_VERIFY>> \o U!toaltstack)
  \o T!copy(0) \o T!check_validity \o T!neg \o init_table(MOD_WIDTH)
  \o Repeat(N_LC, U!fromaltstack \o U!resize(T_BITS) \o init_table(VAR_WIDTH))
  \o Repeat(N_LC, U!fromaltstack \o U!resize(T_BITS))
  \o T!push_zero
  \o For(1, N_VAR_WINDOW + 1, LAMBDA k:
           AddWindow(k * WIDTH) \o SubtractWindow(k * WIDTH)
           \o When(k < N_VAR_WINDOW, T!lshift_prevent_overflow(VAR_WIDTH)))
  \o T!toaltstack \o Remainder
=============================================================================

------------------------------- MODULE BigInt -------------------------------
(***************************************************************************)
(* bigint/: multi-limb integers on the Script stack, for any width N_BITS  *)
(* and limb size LIMB_SIZE (the code uses 254/29, 256/29 and 64/16).  The  *)
(* head limb is deepest and may be shorter; the least significant limb is  *)
(* on top.  Depths a and b count whole integers.  The constants satisfy    *)
(* N_LIMBS > 1 and LIMB_SIZE < 31.                                         *)
(***************************************************************************)
EXTENDS Script

CONSTANTS N_BITS, LIMB_SIZE

DivCeil(a, b) == (a + b - 1) \div b
N_LIMBS == DivCeil(N_BITS, LIMB_SIZE)
HEAD == N_BITS - (N_LIMBS - 1) * LIMB_SIZE
HEAD_OFFSET == 2 ^ HEAD
BASE == 2 ^ LIMB_SIZE

PickAt(n) == <<Push(n), OP_PICK>>
RollAt(n) == <<Push(n), OP_ROLL>>
ToAlt(n) == Repeat(n, <<OP_TOALTSTACK>>)
FromAlt(n) == Repeat(n, <<OP_FROMALTSTACK>>)
OP_NOTIF(else) == OP_IF(<<>>, else)

(***************************************************************************)
(* std.rs.  A number outside the stack is its sequence of bits, least      *)
(* significant first; its limbs are pushed head first.                     *)
(***************************************************************************)
RECURSIVE BitsValue(_)
BitsValue(bits) == IF bits = <<>> THEN 0 ELSE Head(bits) + 2 * BitsValue(Tail(bits))
Chunk(bits, size, i) ==
  LET end == IF (i + 1) * size > Len(bits) THEN Len(bits) ELSE (i + 1) * size
  IN  SubSeq(bits, i * size + 1, end)
biguint_to_limbs(bits, size) ==
  [i \in 1 .. DivCeil(Len(bits), size) |-> BitsValue(Chunk(bits, size, i - 1))]
push_biguint(bits, size) ==
  LET limbs == biguint_to_limbs(bits, size)
  IN  For(0, Len(limbs), LAMBDA i: <<Push(limbs[Len(limbs) - i])>>)
read_u32_le(stack) ==
  LET limb(i) == stack[Len(stack) - i]
  IN  SubSeq(Flat([i \in 1 .. Len(stack) |->
                     [j \in 1 .. LIMB_SIZE |-> BitAt(limb(i - 1), j - 1)]]), 1, N_BITS)

Top(a) == (a + 1) * N_LIMBS - 1
\* Mutant: what was already rolled is not counted for the deeper operand.
ZipUncounted(a, b) == For(0, N_LIMBS, LAMBDA i: RollAt(Top(a) + i) \o RollAt(Top(b)))
zip(a, b) ==
  For(0, N_LIMBS, LAMBDA i:
        IF a < b THEN RollAt(Top(a) + i) \o RollAt(Top(b))
                 ELSE RollAt(Top(a)) \o RollAt(Top(b) + i + 1))
copy_zip(a, b) == For(0, N_LIMBS, LAMBDA i: PickAt(Top(a) + i) \o PickAt(Top(b) + 1 + i))
dup_zip(a) == For(0, N_LIMBS, LAMBDA i: RollAt(Top(a) + i) \o <<OP_DUP>>)
copy(a) ==
  IF Top(a) < 128 THEN Repeat(N_LIMBS, PickAt(Top(a)))
  ELSE <<Push(Top(a) + 1)>> \o Repeat(N_LIMBS - 1, <<OP_DUP, OP_PICK, OP_SWAP>>)
       \o <<OP_1SUB, OP_PICK>>
roll(a) == When(a # 0, Repeat(N_LIMBS, RollAt(Top(a))))
drop == Repeat(N_LIMBS \div 2, <<OP_2DROP>>) \o When(N_LIMBS % 2 = 1, <<OP_DROP>>)
push_zero == push_to_stack(0, N_LIMBS)
push_one == push_to_stack(0, N_LIMBS - 1) \o <<Push(1)>>
toaltstack == ToAlt(N_LIMBS)
fromaltstack == FromAlt(N_LIMBS)

is_zero_keep_element(a) ==
  <<Push(1)>> \o For(0, N_LIMBS, LAMBDA i:
                       PickAt(N_LIMBS * a + i + 1) \o <<OP_NOT, OP_BOOLAND>>)
is_zero(a) == <<Push(1)>> \o Repeat(N_LIMBS, RollAt(N_LIMBS * a + 1) \o <<OP_NOT, OP_BOOLAND>>)
is_one_keep_element(a) ==
  <<Push(1)>> \o PickAt(N_LIMBS * a + 1) \o <<Push(1), OP_EQUAL, OP_BOOLAND>>
  \o For(1, N_LIMBS, LAMBDA i: PickAt(N_LIMBS * a + i + 1) \o <<OP_NOT, OP_BOOLAND>>)
is_one(a) ==
  <<Push(1)>> \o RollAt(N_LIMBS * a + 1) \o <<Push(1), OP_EQUAL, OP_BOOLAND>>
  \o Repeat(N_LIMBS - 1, RollAt(N_LIMBS * a + 1) \o <<OP_NOT, OP_BOOLAND>>)
is_negative(depth) ==
  PickAt(Top(depth)) \o <<Push(HEAD_OFFSET \div 2), OP_GREATERTHANOREQUAL>>
is_positive(depth) ==
  is_zero_keep_element(depth) \o <<OP_NOT>> \o PickAt((1 + depth) * N_LIMBS)
  \o <<Push(HEAD_OFFSET \div 2), OP_LESSTHAN, OP_BOOLAND>>

check_validity ==
  <<Push(BASE)>>
  \o Repeat(N_LIMBS - 2, <<OP_TUCK, OP_0, OP_SWAP, OP_WITHIN, OP_VERIFY>>)
  \o <<OP_0, OP_SWAP, OP_WITHIN, OP_VERIFY, OP_0, Push(HEAD_OFFSET), OP_WITHIN, OP_VERIFY>>

InRange(bound) ==
  <<OP_DUP, OP_0, OP_GREATERTHANOREQUAL, OP_SWAP, Push(bound), OP_LESSTHAN,
    OP_BOOLAND, OP_BOOLAND>>
is_valid_bigint_with_limb_size(limb_size) ==
  LET n_limbs == DivCeil(N_BITS, limb_size)
      head == N_BITS - (n_limbs - 1) * limb_size
  IN  <<Push(1)>>
      \o For(0, n_limbs - 1, LAMBDA i: PickAt(i + 1) \o InRange(2 ^ limb_size))
      \o PickAt(n_limbs) \o InRange(2 ^ head)
verify_bigint_on_stack_with_limb_size(limb_size) ==
  is_valid_bigint_with_limb_size(limb_size) \o <<OP_VERIFY>>

resize(T_BITS) ==
  LET target == DivCeil(T_BITS, LIMB_SIZE)
  IN  CASE target = N_LIMBS -> <<>>
        [] target > N_LIMBS ->
             <<OP_0>> \o OP_NDUP(target - N_LIMBS - 1) \o Repeat(N_LIMBS, RollAt(target - 1))
        [] OTHER -> Repeat(N_LIMBS - target, RollAt(target) \o <<OP_DROP>>)

extract_digits(start_index, window) ==
  LET bit(i) == Push(2 ^ (start_index - i - 1))
  IN  <<OP_0, OP_SWAP>>
      \o For(0, window, LAMBDA i:
           <<OP_TUCK, bit(i), OP_GREATERTHANOREQUAL, OP_TUCK, OP_ADD>>
           \o When(i < window - 1, NMUL(2))
           \o <<OP_ROT, OP_ROT, OP_IF(<<bit(i), OP_SUB>>, <<>>)>>)

\* Mutant: a limb that ends with the target limb is not dropped.
StepsKeepingLimb(source, target) ==
  LET left(size, done) == ((N_BITS - done - 1) % size) + 1
      cuts == {done \in 0 .. N_BITS - 1 :
                 done = 0 \/ (N_BITS - done) % source = 0 \/ (N_BITS - done) % target = 0}
      At(i) == CHOOSE done \in cuts : Cardinality({c \in cuts : c < done}) = i - 1
      Cut1(s, t, first) ==
        [remaining |-> s, extract_window |-> IF s <= t THEN s ELSE t,
         drop_currentlimb |-> s < t, initiate_targetlimb |-> first]
  IN  [i \in 1 .. Cardinality(cuts) |->
         Cut1(left(source, At(i)), left(target, At(i)),
              At(i) = 0 \/ (N_BITS - At(i)) % target = 0)]

\* The windows that cut both representations, the most significant first.
\* remaining: bits left in the source limb; filled: it starts a target limb.
get_transform_steps(source, target) ==
  LET left(size, done) == ((N_BITS - done - 1) % size) + 1
      cuts == {done \in 0 .. N_BITS - 1 :
                 \/ done = 0
                 \/ (N_BITS - done) % source = 0
                 \/ (N_BITS - done) % target = 0}
      Step1(done) ==
        LET s == left(source, done)
            t == left(target, done)
        IN  [remaining |-> s,
             extract_window |-> IF s <= t THEN s ELSE t,
             drop_currentlimb |-> s <= t,
             initiate_targetlimb |-> done = 0 \/ (N_BITS - done) % target = 0]
      Nth(i) == CHOOSE done \in cuts : Cardinality({c \in cuts : c < done}) = i - 1
  IN  [i \in 1 .. Cardinality(cuts) |-> Step1(Nth(i))]

transform_limbsize(source, target) ==
  LET steps == get_transform_steps(source, target)
      One(i) ==
        extract_digits(steps[i].remaining, steps[i].extract_window)
        \o When(~steps[i].initiate_targetlimb,
                <<OP_ROT>> \o op_2k_mul(steps[i].extract_window) \o <<OP_ROT, OP_ADD, OP_SWAP>>)
        \o When(steps[i].drop_currentlimb,
                <<OP_DROP>> \o When(i # Len(steps), <<OP_FROMALTSTACK>>))
  IN  IF source = target THEN <<>>
      ELSE ToAlt(DivCeil(N_BITS, source) - 1) \o For(1, Len(steps) + 1, One)

(***************************************************************************)
(* add.rs                                                                  *)
(***************************************************************************)
limb_add_create_carry ==
  <<OP_2DUP, OP_LESSTHANOREQUAL, OP_TUCK, OP_IF(PickAt(2) \o <<OP_SUB>>, <<>>)>>
limb_add_carry == <<OP_ROT, OP_ROT, OP_ADD>> \o limb_add_create_carry
limb_add_nocarry(head_offset) ==
  <<OP_ADD, Push(head_offset), OP_2DUP, OP_GREATERTHANOREQUAL, OP_IF(<<OP_SUB>>, <<OP_DROP>>)>>
\* Mutant: the sum of two negative numbers may wrap to a positive one.
AddAllowingUnderflow(head_offset) ==
  <<OP_3DUP, OP_ADD, OP_ADD, OP_NIP, Push(head_offset \div 2), OP_TUCK, OP_DUP, OP_ADD,
    OP_2DUP, OP_GREATERTHANOREQUAL, OP_NOTIF(<<OP_NOT>>), OP_SUB, OP_SWAP, OP_2DUP, OP_2ROT>>
  \o PickAt(2)
  \o <<OP_LESSTHAN, OP_2SWAP, OP_GREATERTHANOREQUAL, OP_2SWAP, OP_GREATERTHAN,
       OP_ADD, OP_ADD, Push(0), Push(3), OP_WITHIN, OP_VERIFY>>
limb_add_with_carry_prevent_overflow(head_offset) ==
  <<OP_3DUP, OP_ADD, OP_ADD, OP_NIP, Push(head_offset \div 2), OP_TUCK, OP_DUP, OP_ADD,
    OP_2DUP, OP_GREATERTHANOREQUAL, OP_NOTIF(<<OP_NOT>>), OP_SUB, OP_SWAP, OP_2DUP, OP_2ROT>>
  \o PickAt(2)
  \o <<OP_LESSTHAN, OP_2SWAP, OP_GREATERTHANOREQUAL, OP_2SWAP, OP_GREATERTHAN,
       OP_ADD, OP_ADD, Push(1), Push(3), OP_WITHIN, OP_VERIFY>>
limb_double_without_carry == NMUL(2) \o limb_add_create_carry
limb_double_with_carry == NMUL(2) \o <<OP_ADD>> \o limb_add_create_carry
limb_double_with_carry_allow_overflow(head_offset) ==
  NMUL(2) \o limb_add_nocarry(head_offset)
limb_double_with_carry_prevent_overflow(head_offset) ==
  <<OP_OVER, OP_DUP, OP_ADD, OP_ADD, Push(head_offset \div 2), OP_TUCK, OP_DUP, OP_ADD,
    OP_2DUP, OP_GREATERTHANOREQUAL, OP_NOTIF(<<OP_NOT>>), OP_SUB,
    OP_2DUP, OP_LESSTHANOREQUAL, OP_2SWAP, OP_LESSTHAN, OP_NUMNOTEQUAL, OP_VERIFY>>
KeepOrStore(i, bits) ==
  IF i < bits THEN <<OP_ROT, OP_SWAP>> ELSE <<OP_TOALTSTACK, OP_SWAP>>
limb_lshift_without_carry(bits) ==
  <<OP_SWAP>>
  \o For(1, bits + 1, LAMBDA i: NMUL(2) \o limb_add_create_carry \o KeepOrStore(i, bits))
limb_lshift_with_carry(bits) ==
  RollAt(1 + bits)
  \o For(1, bits + 1, LAMBDA i:
           NMUL(2) \o RollAt(1 + bits) \o <<OP_ADD>> \o limb_add_create_carry
           \o KeepOrStore(i, bits))
limb_lshift_with_carry_prevent_overflow(bits, head) ==
  RollAt(bits)
  \o <<Push(2 ^ (head - 1)), OP_DUP, OP_TOALTSTACK, OP_2DUP, OP_LESSTHAN,
       OP_IF(<<OP_NOT>>, <<>>), OP_DUP, OP_ADD, OP_SUB>>
  \o For(0, bits, LAMBDA i: NMUL(2) \o When(i < bits - 1, RollAt(bits - i)) \o <<OP_ADD>>)
  \o <<OP_FROMALTSTACK, OP_OVER, OP_2DUP, OP_SWAP, OP_DUP, OP_NEGATE, OP_SWAP, OP_WITHIN,
       OP_VERIFY, OP_0, OP_GREATERTHANOREQUAL, OP_IF(<<OP_NOT>>, <<>>), OP_DUP, OP_ADD, OP_ADD>>

\* Both operands are interleaved on the stack: limb by limb, then the head.
LimbByLimb(limb, head) ==
  <<Push(BASE)>> \o limb \o <<OP_TOALTSTACK>>
  \o Repeat(N_LIMBS - 2, <<OP_ROT, OP_ADD, OP_SWAP>> \o limb \o <<OP_TOALTSTACK>>)
  \o <<OP_NIP, OP_ADD>> \o head \o FromAlt(N_LIMBS - 1)
double(a) == dup_zip(a) \o LimbByLimb(limb_add_carry, limb_add_nocarry(HEAD_OFFSET))
add(a, b) == zip(a, b) \o LimbByLimb(limb_add_carry, limb_add_nocarry(HEAD_OFFSET))

add1 ==
  <<OP_1ADD, Push(BASE), OP_SWAP>>
  \o Repeat(N_LIMBS - 1, <<OP_2DUP, OP_EQUAL, OP_TUCK, OP_IF(<<OP_NOT>>, <<>>), OP_TOALTSTACK,
                           OP_ROT, OP_ADD>>)
  \o <<OP_NIP, Push(HEAD_OFFSET), OP_OVER, OP_EQUAL, OP_IF(<<OP_NOT>>, <<>>)>>
  \o FromAlt(N_LIMBS - 1)

double_allow_overflow ==
  <<Push(BASE), OP_SWAP>> \o limb_double_without_carry \o <<OP_TOALTSTACK>>
  \o Repeat(N_LIMBS - 2, <<OP_ROT>> \o limb_double_with_carry \o <<OP_TOALTSTACK>>)
  \o <<OP_NIP, OP_SWAP>> \o limb_double_with_carry_allow_overflow(HEAD_OFFSET)
  \o FromAlt(N_LIMBS - 1)
double_prevent_overflow ==
  <<Push(BASE), OP_SWAP>> \o limb_double_without_carry \o <<OP_TOALTSTACK>>
  \o Repeat(N_LIMBS - 2, <<OP_ROT>> \o limb_double_with_carry \o <<OP_TOALTSTACK>>)
  \o <<OP_NIP>> \o limb_double_with_carry_prevent_overflow(HEAD_OFFSET)
  \o FromAlt(N_LIMBS - 1)
KeptLimbs(n) ==
  <<Push(BASE)>> \o PickAt(n * N_LIMBS + 1) \o limb_double_without_carry \o <<OP_TOALTSTACK>>
  \o For(0, N_LIMBS - 2, LAMBDA i:
           PickAt(n * N_LIMBS + i + 3) \o limb_double_with_carry \o <<OP_TOALTSTACK>>)
  \o <<OP_NIP>> \o PickAt(n * N_LIMBS + N_LIMBS)
double_allow_overflow_keep_element(n) ==
  KeptLimbs(n) \o limb_double_with_carry_allow_overflow(HEAD_OFFSET) \o FromAlt(N_LIMBS - 1)
double_prevent_overflow_keep_element(n) ==
  KeptLimbs(n) \o <<OP_SWAP>> \o limb_double_with_carry_prevent_overflow(HEAD_OFFSET)
  \o FromAlt(N_LIMBS - 1)

lshift_prevent_overflow(bits) ==
  <<Push(BASE)>> \o limb_lshift_without_carry(bits)
  \o Repeat(N_LIMBS - 2, limb_lshift_with_carry(bits))
  \o <<OP_DROP>> \o limb_lshift_with_carry_prevent_overflow(bits, HEAD)
  \o FromAlt(N_LIMBS - 1)

add_ref_with_top(b) ==
  LET b_depth == b * N_LIMBS
  IN  PickAt(b_depth) \o <<OP_OVER, OP_ADD, Push(BASE), OP_SWAP>>
      \o limb_add_create_carry \o <<OP_TOALTSTACK>>
      \o For(0, N_LIMBS - 2, LAMBDA i:
               PickAt(i + 3) \o <<OP_ADD>> \o PickAt(b_depth + i + 3) \o <<OP_ADD>>
               \o limb_add_create_carry \o <<OP_TOALTSTACK>>)
      \o <<OP_NIP>> \o PickAt(b_depth + N_LIMBS) \o PickAt(N_LIMBS + 1) \o <<OP_ROT>>
      \o limb_add_with_carry_prevent_overflow(HEAD_OFFSET) \o FromAlt(N_LIMBS - 1)
add_ref(b) ==
  LET b_depth == b * N_LIMBS
  IN  PickAt(b_depth) \o <<OP_ADD, Push(BASE), OP_SWAP>>
      \o limb_add_create_carry \o <<OP_TOALTSTACK>>
      \o Repeat(N_LIMBS - 2, <<OP_ROT>> \o PickAt(b_depth + 2) \o <<OP_ADD, OP_ADD>>
                             \o limb_add_create_carry \o <<OP_TOALTSTACK>>)
      \o <<OP_NIP>> \o PickAt(b_depth + 1) \o <<OP_SWAP>>
      \o limb_add_with_carry_prevent_overflow(HEAD_OFFSET) \o FromAlt(N_LIMBS - 1)
_add_ref_inner ==
  <<Push(3), OP_ADD, Push(BASE)>>
  \o For(0, N_LIMBS - 1, LAMBDA i:
           (IF i = 0 THEN <<OP_OVER, OP_1SUB, OP_PICK>>
                     ELSE PickAt(2) \o <<OP_PICK, OP_ADD>>)
           \o RollAt(3) \o <<OP_ADD>> \o limb_add_create_carry \o <<OP_TOALTSTACK>>)
  \o <<OP_NIP, OP_SWAP, Push(2), OP_SUB, OP_PICK, OP_SWAP>>
  \o limb_add_with_carry_prevent_overflow(HEAD_OFFSET) \o FromAlt(N_LIMBS - 1)
add_ref_stack == NMUL(N_LIMBS) \o _add_ref_inner

(***************************************************************************)
(* sub.rs                                                                  *)
(***************************************************************************)
limb_sub_borrow ==
  <<OP_ROT, OP_ROT, OP_SUB, OP_DUP, OP_0, OP_LESSTHAN, OP_TUCK,
    OP_IF(PickAt(2) \o <<OP_ADD>>, <<>>)>>
limb_sub_noborrow(head_offset) ==
  <<OP_SUB, OP_DUP, OP_0, OP_LESSTHAN, OP_IF(<<Push(head_offset), OP_ADD>>, <<>>)>>
sub(a, b) == zip(a, b) \o LimbByLimb(limb_sub_borrow, limb_sub_noborrow(HEAD_OFFSET))
neg ==
  <<Push(BASE - 1)>>
  \o Repeat(N_LIMBS - 2, <<OP_TUCK, OP_SWAP, OP_SUB, OP_TOALTSTACK>>)
  \o <<OP_SWAP, OP_SUB, OP_TOALTSTACK, Push(HEAD_OFFSET - 1), OP_SWAP, OP_SUB>>
  \o FromAlt(N_LIMBS - 1) \o add1

(***************************************************************************)
(* cmp.rs                                                                  *)
(***************************************************************************)
equalverify(a, b) == zip(a, b) \o Repeat(N_LIMBS, <<OP_EQUALVERIFY>>)
AllEqual ==
  Repeat(N_LIMBS, <<OP_EQUAL, OP_TOALTSTACK>>) \o FromAlt(N_LIMBS)
  \o Repeat(N_LIMBS - 1, <<OP_BOOLAND>>)
equal(a, b) == zip(a, b) \o AllEqual
equal_keep_elements(a, b) == copy_zip(a, b) \o AllEqual
notequal(a, b) == equal(a, b) \o <<OP_NOT>>
lessthan(a, b) ==
  zip(a, b)
  \o Repeat(N_LIMBS, <<OP_2DUP, OP_GREATERTHAN, OP_TOALTSTACK, OP_LESSTHAN, OP_TOALTSTACK>>)
  \o <<OP_FROMALTSTACK, OP_FROMALTSTACK, OP_OVER, OP_BOOLOR>>
  \o Repeat(N_LIMBS - 1,
            <<OP_FROMALTSTACK, OP_FROMALTSTACK, OP_ROT,
              OP_IF(<<OP_2DROP, Push(1)>>, <<OP_ROT, OP_DROP, OP_OVER, OP_BOOLOR>>)>>)
  \o <<OP_BOOLAND>>
greaterthanorequal(a, b) == lessthan(a, b) \o <<OP_NOT>>
lessthanorequal(a, b) == greaterthanorequal(b, a)
greaterthan(a, b) == lessthanorequal(a, b) \o <<OP_NOT>>

(***************************************************************************)
(* bits.rs                                                                 *)
(***************************************************************************)
limb_to_be_bits_common(num_bits) ==
  LET min_i == IF num_bits - 1 < 22 THEN num_bits - 1 ELSE 22
      Bit == <<OP_2DUP, OP_LESSTHANOREQUAL,
               OP_IF(<<OP_SWAP, OP_SUB, Push(1)>>, <<OP_NIP, OP_0>>)>>
  IN  <<OP_TOALTSTACK>>
      \o For(0, min_i, LAMBDA i: <<Push(2 ^ (i + 1))>>)
      \o Repeat(num_bits - 1 - min_i, <<OP_DUP, OP_DUP, OP_ADD>>)
      \o <<OP_FROMALTSTACK>>
      \o Repeat(num_bits - 2, Bit \o <<OP_TOALTSTACK>>) \o Bit
limb_to_le_bits_common(num_bits) ==
  LET min_i == IF num_bits - 1 < 22 THEN num_bits - 1 ELSE 22
      Bit == <<OP_FROMALTSTACK, OP_2DUP, OP_GREATERTHANOREQUAL,
               OP_IF(<<OP_SUB, Push(1)>>, <<OP_DROP, OP_0>>), OP_SWAP>>
  IN  For(0, min_i - 1, LAMBDA i: <<Push(2 ^ (i + 1)), OP_TOALTSTACK>>)
      \o <<Push(2 ^ min_i)>>
      \o (IF num_bits - 1 > min_i
          THEN <<OP_DUP, OP_TOALTSTACK>>
               \o Repeat(num_bits - 2 - min_i, <<OP_DUP, OP_ADD, OP_DUP, OP_TOALTSTACK>>)
               \o <<OP_DUP, OP_ADD, OP_TOALTSTACK>>
          ELSE <<OP_TOALTSTACK>>)
      \o Repeat(num_bits - 1, Bit)
limb_to_be_bits(n) == When(n >= 2, limb_to_be_bits_common(n) \o FromAlt(n - 2))
limb_to_le_bits(n) == When(n >= 2, limb_to_le_bits_common(n))
limb_to_be_bits_toaltstack(n) ==
  IF n >= 2 THEN limb_to_be_bits_common(n) \o ToAlt(2) ELSE ToAlt(1)
limb_to_le_bits_toaltstack(n) ==
  IF n >= 2 THEN limb_to_le_bits_common(n) \o ToAlt(n) ELSE ToAlt(1)

convert_to_be_bits ==
  For(0, N_LIMBS - 1, LAMBDA i: limb_to_be_bits(LIMB_SIZE) \o RollAt(LIMB_SIZE * (i + 1)))
  \o limb_to_be_bits(HEAD)
convert_to_le_bits ==
  ToAlt(N_LIMBS - 1) \o limb_to_le_bits(HEAD)
  \o Repeat(N_LIMBS - 1, <<OP_FROMALTSTACK>> \o limb_to_le_bits(LIMB_SIZE))
convert_to_be_bits_toaltstack ==
  RollAt(N_LIMBS - 1) \o limb_to_be_bits_toaltstack(HEAD)
  \o For(0, N_LIMBS - 1, LAMBDA i:
           RollAt(N_LIMBS - 2 - i) \o limb_to_be_bits_toaltstack(LIMB_SIZE))
convert_to_le_bits_toaltstack ==
  Repeat(N_LIMBS - 1, limb_to_le_bits_toaltstack(LIMB_SIZE))
  \o limb_to_le_bits_toaltstack(HEAD)

(***************************************************************************)
(* mul.rs: the bits of the top integer select what is added; the other is  *)
(* doubled each time.  inv.rs: division by two and three, from the head    *)
(* down, the remainder of a limb being the carry into the next.            *)
(***************************************************************************)
mul ==
  convert_to_be_bits_toaltstack
  \o <<OP_FROMALTSTACK, OP_IF(copy(0), push_zero)>>
  \o Repeat(N_BITS - 2, double(1) \o roll(1)
                        \o <<OP_FROMALTSTACK, OP_IF(copy(1) \o add(1, 0), <<>>)>>)
  \o double(1) \o <<OP_FROMALTSTACK, OP_IF(add(1, 0), drop)>>

limb_shr1_carry(num_bits) ==
  LET Powers == IF num_bits < 7 THEN For(1, num_bits, LAMBDA i: <<Push(2 ^ i)>>)
                ELSE For(1, 7, LAMBDA i: <<Push(2 ^ i)>>)
                     \o Repeat(num_bits - 7, <<OP_DUP, OP_DUP, OP_ADD>>)
  IN  Powers \o RollAt(num_bits - 1) \o <<OP_IF(<<OP_DUP>>, <<OP_0>>), OP_TOALTSTACK>>
      \o RollAt(num_bits - 1)
      \o Repeat(num_bits - 2,
           <<OP_2DUP, OP_LESSTHANOREQUAL,
             OP_IF(<<OP_SWAP, OP_SUB, OP_SWAP, OP_DUP, OP_FROMALTSTACK, OP_ADD, OP_TOALTSTACK,
                     OP_SWAP>>, <<OP_NIP>>)>>)
      \o <<OP_2DUP, OP_LESSTHANOREQUAL,
           OP_IF(<<OP_SWAP, OP_SUB, OP_FROMALTSTACK, OP_1ADD>>, <<OP_NIP, OP_FROMALTSTACK>>),
           OP_SWAP>>

limb_div3_carry(limb_size) ==
  LET max_limb == 2 ^ limb_size
      k == CHOOSE n \in 0 .. 19 : 3 ^ n >= max_limb /\ (n = 0 \/ 3 ^ (n - 1) < max_limb)
  IN  <<Push(1), Push(2), Push(3), Push(6), Push(9), Push(18), Push(27), Push(54)>>
      \o Repeat(IF k > 4 THEN k - 4 ELSE 0, <<OP_2DUP, OP_ADD, OP_DUP, OP_DUP, OP_ADD>>)
      \o RollAt(2 * k)
      \o <<OP_DUP, OP_0, OP_GREATERTHAN,
           OP_IF(<<OP_1SUB,
                   OP_IF(<<Push((max_limb * 2) % 3), Push((max_limb * 2) \div 3)>>,
                         <<Push(max_limb % 3), Push(max_limb \div 3)>>)>>,
                 <<OP_0>>), OP_TOALTSTACK>>
      \o RollAt(2 * k + 1) \o <<OP_ADD>>
      \o Repeat(2 * k - 2,
           <<OP_2DUP, OP_LESSTHANOREQUAL,
             OP_IF(<<OP_SWAP, OP_SUB>> \o PickAt(2) \o <<OP_FROMALTSTACK, OP_ADD, OP_TOALTSTACK>>,
                   <<OP_NIP>>)>>)
      \o <<OP_NIP, OP_NIP, OP_FROMALTSTACK, OP_SWAP>>

\* The limbs from the head down, each with the remainder of the one above.
HeadDown(limb(_)) ==
  RollAt(N_LIMBS - 1) \o <<OP_0>> \o limb(HEAD)
  \o Repeat(N_LIMBS - 1, RollAt(N_LIMBS) \o <<OP_SWAP>> \o limb(LIMB_SIZE))
div2rem == HeadDown(limb_shr1_carry)
div2 == div2rem \o <<OP_DROP>>
div3rem == HeadDown(limb_div3_carry)
div3 == div3rem \o <<OP_DROP>>
=============================================================================

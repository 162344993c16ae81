--------------------------------- MODULE Fq ---------------------------------
(***************************************************************************)
(* bn254/fp254impl.rs and fq.rs: the prime field on the Script stack.  An  *)
(* element is the N_LIMBS limbs of a BigInt below MODULUS; depths count    *)
(* elements.  The code's field has 254 bits in limbs of 29; any prime and  *)
(* limb size will do.  MODULUS and the three other constants are sequences *)
(* of bits, least significant first; MODULUS_LIMBS has the limbs in that   *)
(* order.                                                                  *)
(*                                                                         *)
(* A hinted operation is a script and the hints it expects, computed by    *)
(* the Rust code beside the script from the operands' values.  Hints wait  *)
(* at the bottom of the stack, the first to be used deepest.               *)
(***************************************************************************)
EXTENDS Script

CONSTANTS N_BITS, LIMB_SIZE, MODULUS, MODULUS_LIMBS,
          P_PLUS_ONE_DIV2, TWO_P_PLUS_ONE_DIV3, P_PLUS_TWO_DIV3

U254 == INSTANCE BigInt
\* fp_lc_mul!(Mul, 4, 4, [true]) and its siblings
Mul == INSTANCE Tmul WITH WIDTH <- 4, N_LC <- 1
Mul2LC == INSTANCE Tmul WITH WIDTH <- 3, N_LC <- 2
Mul2LCW4 == INSTANCE Tmul WITH WIDTH <- 4, N_LC <- 2
Mul4LC == INSTANCE Tmul WITH WIDTH <- 3, N_LC <- 4

N_LIMBS == U254!N_LIMBS
BASE == U254!BASE
LAST == MODULUS_LIMBS[N_LIMBS]
limb_add_carry == U254!limb_add_carry
limb_sub_borrow == U254!limb_sub_borrow
OP_NOTIF(else) == OP_IF(<<>>, else)

copy(a) == U254!copy(a)
roll(a) == U254!roll(a)
drop == U254!drop
toaltstack == U254!toaltstack
fromaltstack == U254!fromaltstack
zip(a, b) == U254!zip(a, b)
push_modulus == U254!push_biguint(MODULUS, LIMB_SIZE)
push_zero == U254!push_zero
push_one == U254!push_one
equal(a, b) == U254!equal(a, b)
equalverify(a, b) == U254!equalverify(a, b)
is_zero(a) == U254!is_zero(a)
is_zero_keep_element(a) == U254!is_zero_keep_element(a)
is_one == push_one \o equal(1, 0)
is_one_verify == <<OP_1, OP_EQUALVERIFY>> \o Repeat(N_LIMBS - 1, <<OP_NOT, OP_VERIFY>>)
is_one_keep_element(a) == copy(a) \o is_one

(***************************************************************************)
(* fp254impl.rs.  The result and its correction by the modulus go to the   *)
(* alt stack limb by limb, interleaved; the last borrow selects one.       *)
(***************************************************************************)
\* Drops one of the interleaved results: the correction if skip is left.
Select(drop_first, drop_last) ==
  <<OP_DUP>> \o drop_first \o <<OP_FROMALTSTACK>>
  \o Repeat(N_LIMBS - 1, <<OP_FROMALTSTACK, OP_DROP, OP_FROMALTSTACK>>)
  \o <<Push(N_LIMBS), OP_ROLL>> \o drop_last
DropOne == <<OP_FROMALTSTACK, OP_DROP>>
DropIf == <<OP_IF(DropOne, <<>>)>>
DropUnless == <<OP_NOTIF(DropOne)>>

\* Mutant: an element equal to the modulus is taken for zero's other name.
AddKeepingModulus(a, b) == U254!add(a, b)
add(a, b) ==
  zip(a, b)
  \o <<Push(BASE)>> \o limb_add_carry
  \o <<OP_DUP, OP_TOALTSTACK, OP_ROT, Push(MODULUS_LIMBS[1]), OP_SWAP>>
  \o limb_sub_borrow \o <<OP_TOALTSTACK>>
  \o For(1, N_LIMBS - 1, LAMBDA i:
           <<OP_2SWAP, OP_ADD, OP_2SWAP>> \o limb_add_carry
           \o <<OP_DUP, OP_TOALTSTACK, OP_2SWAP, OP_SWAP, Push(MODULUS_LIMBS[i + 1]), OP_ADD,
                OP_SWAP>> \o limb_sub_borrow \o <<OP_TOALTSTACK>>)
  \o <<OP_2SWAP, OP_ADD, OP_2SWAP, OP_ROT, OP_ROT, OP_ADD, OP_DUP, OP_TOALTSTACK, OP_ROT,
       Push(LAST), OP_ADD, OP_ROT>> \o limb_sub_borrow \o <<OP_TOALTSTACK, OP_NIP>>
  \o Select(DropIf, DropUnless)

neg(a) ==
  roll(a) \o is_zero_keep_element(0)
  \o <<OP_NOTIF(
         For(0, N_LIMBS - 1, LAMBDA i:
               <<Push(MODULUS_LIMBS[i + 1]), OP_SWAP, IF i = 0 THEN Push(BASE) ELSE OP_ROT>>
               \o limb_sub_borrow
               \o <<OP_TOALTSTACK, IF i = N_LIMBS - 2 THEN OP_NIP ELSE OP_ROT, OP_ADD>>)
         \o <<Push(LAST), OP_SWAP, OP_SUB>> \o Repeat(N_LIMBS - 1, <<OP_FROMALTSTACK>>))>>

sub(a, b) ==
  LET Third == <<OP_TOALTSTACK, OP_SWAP, OP_FROMALTSTACK>>
  IN  zip(a, b)
      \o <<Push(BASE)>> \o limb_sub_borrow
      \o <<OP_DUP, OP_TOALTSTACK, OP_ROT, Push(MODULUS_LIMBS[1]), OP_SWAP>>
      \o limb_add_carry \o <<OP_TOALTSTACK>>
      \o For(1, N_LIMBS - 1, LAMBDA i:
               <<OP_2SWAP, OP_ADD, OP_2SWAP>> \o Third \o limb_sub_borrow
               \o <<OP_DUP, OP_TOALTSTACK, OP_2SWAP, OP_SWAP, Push(MODULUS_LIMBS[i + 1]), OP_ADD,
                    OP_SWAP>> \o limb_add_carry \o <<OP_TOALTSTACK>>)
      \o <<OP_2SWAP, OP_ADD, OP_2SWAP>> \o Third \o limb_sub_borrow
      \o <<OP_DUP, OP_TOALTSTACK, OP_ROT, OP_TOALTSTACK, OP_ROT, Push(LAST), OP_ADD, OP_ADD,
           OP_FROMALTSTACK, OP_2DUP, OP_GREATERTHANOREQUAL, OP_IF(<<OP_SUB>>, <<OP_DROP>>),
           OP_TOALTSTACK>>
      \o Select(DropUnless, DropIf)

double(a) ==
  roll(a)
  \o <<OP_DUP, Push(BASE)>> \o limb_add_carry
  \o <<OP_DUP, OP_TOALTSTACK, OP_ROT, Push(MODULUS_LIMBS[1]), OP_SWAP>>
  \o limb_sub_borrow \o <<OP_TOALTSTACK>>
  \o For(1, N_LIMBS - 1, LAMBDA i:
           <<OP_SWAP, OP_2SWAP, OP_OVER, OP_ADD, OP_ROT>> \o limb_add_carry
           \o <<OP_DUP, OP_TOALTSTACK, OP_ROT, OP_TOALTSTACK, OP_ROT, Push(MODULUS_LIMBS[i + 1]),
                OP_ADD, OP_FROMALTSTACK>> \o limb_sub_borrow \o <<OP_TOALTSTACK>>)
  \o <<OP_2SWAP, OP_OVER, OP_ADD, OP_ADD, OP_DUP, OP_TOALTSTACK, OP_SWAP, Push(LAST), OP_ADD,
       OP_ROT>> \o limb_sub_borrow \o <<OP_TOALTSTACK, OP_NIP>>
  \o Select(DropIf, DropUnless)

PlusConstant(bits) == U254!push_biguint(bits, LIMB_SIZE) \o add(1, 0)
div2 == U254!div2rem \o <<OP_IF(PlusConstant(P_PLUS_ONE_DIV2), <<>>)>>
div3 ==
  U254!div3rem
  \o <<OP_DUP, OP_0, OP_GREATERTHAN,
       OP_IF(<<OP_1SUB, OP_IF(PlusConstant(P_PLUS_TWO_DIV3), PlusConstant(TWO_P_PLUS_ONE_DIV3))>>,
             <<OP_DROP>>)>>

\* From the least significant limb up: is what was seen so far at least the
\* modulus?  check_validity leaves the limbs on the alt stack.
LimbAbove(i, limb) ==
  IF i = 0 THEN <<Push(limb), OP_GREATERTHANOREQUAL>>
  ELSE <<Push(limb), OP_2DUP, OP_GREATERTHAN, OP_TOALTSTACK, OP_GREATERTHANOREQUAL, OP_BOOLAND,
         OP_FROMALTSTACK, OP_BOOLOR>>
InLimb == <<OP_0, Push(BASE), OP_WITHIN>>
limbs_of_c == U254!biguint_to_limbs(MODULUS, LIMB_SIZE)
check_validity ==
  For(0, N_LIMBS, LAMBDA i:
        <<OP_DUP, OP_DUP, OP_TOALTSTACK>> \o InLimb \o <<OP_VERIFY>>
        \o LimbAbove(i, limbs_of_c[i + 1])
        \o (IF i = N_LIMBS - 1 THEN <<OP_NOT, OP_VERIFY>> ELSE <<OP_SWAP>>))
check_validity_and_keep_element == check_validity \o Repeat(N_LIMBS, <<OP_FROMALTSTACK>>)
is_valid ==
  For(0, N_LIMBS, LAMBDA i:
        <<OP_DUP>> \o InLimb
        \o When(i > 0, <<OP_FROMALTSTACK, OP_BOOLAND>>) \o <<OP_TOALTSTACK>>
        \o LimbAbove(i, limbs_of_c[i + 1])
        \o (IF i = N_LIMBS - 1 THEN <<OP_NOT, OP_FROMALTSTACK, OP_BOOLAND>> ELSE <<OP_SWAP>>))

(***************************************************************************)
(* fq.rs                                                                   *)
(***************************************************************************)
Modulus == U254!BitsValue(MODULUS)
ValueBits(v) == [i \in 1 .. N_BITS |-> BitAt(v, i - 1)]
push(v) == U254!push_biguint(ValueBits(v), LIMB_SIZE)
tmul == Mul!tmul
tmul_lc2 == Mul2LC!tmul
tmul_lc2_w4 == Mul2LCW4!tmul
tmul_lc4 == Mul4LC!tmul

Hinted(script, hints) == [script |-> script, hints |-> hints]
\* The next hint is at the bottom of the stack.
TakeHint == Repeat(N_LIMBS, <<OP_DEPTH, OP_1SUB, OP_ROLL>>)
\* The quotient of the sum of the products.
Quotient(products) ==
  LET n == Len(products)
      whole[i \in 0 .. n] == IF i = 0 THEN 0 ELSE whole[i - 1] + (products[i] \div Modulus)
      rest[i \in 0 .. n] == IF i = 0 THEN 0 ELSE rest[i - 1] + (products[i] % Modulus)
  IN  whole[n] + rest[n] \div Modulus

Larger(a, b) == IF a > b THEN a ELSE b
Smaller(a, b) == IF a > b THEN b ELSE a
hinted_mul(a_depth, a, b_depth, b) ==
  Hinted(TakeHint \o roll(Smaller(a_depth, b_depth) + 1) \o roll(Larger(a_depth, b_depth) + 1)
         \o tmul, <<Quotient(<<a * b>>)>>)
hinted_mul_by_constant(a, constant) ==
  Hinted(TakeHint \o roll(1) \o push(constant) \o tmul, <<Quotient(<<a * constant>>)>>)
hinted_mul_keep_element(a_depth, a, b_depth, b) ==
  Hinted(TakeHint \o copy(Smaller(a_depth, b_depth) + 1) \o copy(Larger(a_depth, b_depth) + 2)
         \o tmul, <<Quotient(<<a * b>>)>>)
Rolled(depths) == For(1, Len(depths) + 1, LAMBDA i: roll(depths[i] + i))
Copied(depths) == For(1, Len(depths) + 1, LAMBDA i: copy(depths[i] + i))
\* Depths and values of a, b, c and d.
hinted_mul_lc2(d, v) ==
  Hinted(TakeHint \o Rolled(d) \o tmul_lc2, <<Quotient(<<v[1] * v[3], v[2] * v[4]>>)>>)
hinted_mul_lc2_w4(d, v) ==
  Hinted(TakeHint \o Rolled(d) \o tmul_lc2_w4, <<Quotient(<<v[1] * v[3], v[2] * v[4]>>)>>)
hinted_mul_lc4(d, v) ==
  Hinted(TakeHint \o Rolled(d) \o tmul_lc4,
         <<Quotient([i \in 1 .. 4 |-> v[i] * v[i + 4]])>>)
hinted_mul_lc2_keep_elements(d, v) ==
  Hinted(TakeHint \o Copied(d) \o tmul_lc2, <<Quotient(<<v[1] * v[3], v[2] * v[4]>>)>>)
hinted_mul_lc2_keep_elements_w4(d, v) ==
  Hinted(TakeHint \o Copied(d) \o tmul_lc2_w4, <<Quotient(<<v[1] * v[3], v[2] * v[4]>>)>>)
hinted_square(a) == Hinted(TakeHint \o roll(1) \o copy(0) \o tmul, <<Quotient(<<a * a>>)>>)
modinv(a) == CHOOSE y \in 1 .. Modulus - 1 : (a * y) % Modulus = 1
hinted_inv(a) ==
  Hinted(TakeHint \o TakeHint \o roll(2) \o copy(2) \o tmul \o push_one \o equalverify(1, 0),
         <<modinv(a), Quotient(<<a * modinv(a)>>)>>)
=============================================================================

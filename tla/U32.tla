-------------------------------- MODULE U32 ---------------------------------
(***************************************************************************)
(* Arithmetic on words held as four bytes (bitvm/src/u32), the most        *)
(* significant byte deepest on the stack.                                  *)
(***************************************************************************)
EXTENDS U4

(***************************************************************************)
(* u32_zip.rs: bring the bytes of the a-th and the b-th word together.     *)
(***************************************************************************)
Last(n) == (n + 1) * 4 - 1
u32_zip(x, y) ==
  LET a == Last(IF x < y THEN x ELSE y)
      b == Last(IF x < y THEN y ELSE x)
  IN  For(0, 4, LAMBDA i: <<Push(a + i), OP_ROLL, Push(b), OP_ROLL>>)
_u32_copy_zip(a, b) ==
  For(0, 4, LAMBDA i: <<Push(Last(a) + i), OP_PICK, Push(Last(b) + 1 + i), OP_ROLL>>)
_u32_zip_copy(a, b) ==
  For(0, 4, LAMBDA i: <<Push(Last(a) + i), OP_ROLL, Push(Last(b)), OP_PICK>>)
u32_copy_zip(a, b) == IF a < b THEN _u32_copy_zip(a, b) ELSE _u32_zip_copy(b, a)

(***************************************************************************)
(* u32_std.rs                                                              *)
(***************************************************************************)
u32_push(w) ==
  IF \A i \in 2 .. 4 : w[i] = w[1] THEN push_to_stack(w[1], 4)
  ELSE For(1, 5, LAMBDA i: <<Push(w[i])>>)
u32_equalverify ==
  <<Push(4), OP_ROLL, OP_EQUALVERIFY, Push(3), OP_ROLL, OP_EQUALVERIFY,
    OP_ROT, OP_EQUALVERIFY, OP_EQUALVERIFY>>
u32_equal ==
  <<Push(4), OP_ROLL, OP_EQUAL, OP_TOALTSTACK, Push(3), OP_ROLL, OP_EQUAL, OP_TOALTSTACK,
    OP_ROT, OP_EQUAL, OP_TOALTSTACK, OP_EQUAL>>
  \o Repeat(3, <<OP_FROMALTSTACK, OP_BOOLAND>>)
u32_roll(n) == Repeat(4, <<Push(Last(n)), OP_ROLL>>)
u32_pick(n) == Repeat(4, <<Push(Last(n)), OP_PICK>>)
Reverse4 == <<OP_SWAP, OP_2SWAP, OP_SWAP>>
u32_compress ==
  Reverse4
  \o <<Push(128), OP_2DUP, OP_GREATERTHANOREQUAL, OP_DUP, OP_TOALTSTACK,
       OP_IF(<<OP_SUB>>, <<OP_DROP>>)>>
  \o Repeat(3, OP_256MUL \o <<OP_ADD>>)
  \o <<OP_FROMALTSTACK, OP_IF(<<Push(2147483647), OP_SUB, OP_1SUB>>, <<>>)>>

\* Move the bit of weight w of the top element to the end of the byte on the alt stack.
ShiftBitOut(w) ==
  <<Push(w), OP_2DUP, OP_GREATERTHANOREQUAL,
    OP_FROMALTSTACK, OP_DUP, OP_ADD, OP_OVER, OP_ADD, OP_TOALTSTACK,
    OP_IF(<<OP_SUB>>, <<OP_DROP>>)>>
StartByte(w) ==
  <<Push(w), OP_2DUP, OP_GREATERTHANOREQUAL, OP_DUP, OP_TOALTSTACK,
    OP_IF(<<OP_SUB>>, <<OP_DROP>>)>>
u32_uncompress ==
  <<OP_SIZE, Push(5), OP_EQUAL, OP_TUCK,
    OP_IF(<<OP_DROP, OP_0>>,
          <<OP_TUCK, OP_GREATERTHAN, OP_TUCK,
            OP_IF(<<Push(2147483647), OP_ADD, OP_1ADD>>, <<>>)>>),
    OP_SWAP, OP_TOALTSTACK>>
  \o For(1, 8, LAMBDA i: ShiftBitOut(2 ^ (31 - i)))
  \o StartByte(2 ^ 23) \o For(1, 8, LAMBDA i: ShiftBitOut(2 ^ (23 - i)))
  \o StartByte(2 ^ 15) \o For(1, 8, LAMBDA i: ShiftBitOut(2 ^ (15 - i)))
  \o u4_fromaltstack(3) \o Reverse4

(***************************************************************************)
(* u32_add.rs                                                              *)
(***************************************************************************)
\* Mutant: a sum of exactly 256 does not carry.
CarryAbove256 ==
  <<OP_ADD, Push(256), OP_2DUP, OP_GREATERTHAN, OP_IF(<<OP_SUB, OP_1>>, <<OP_DROP, OP_0>>)>>
u8_add_carry ==
  <<OP_ADD, Push(256), OP_2DUP, OP_GREATERTHANOREQUAL,
    OP_IF(<<OP_SUB, OP_1>>, <<OP_DROP, OP_0>>)>>
u8_add ==
  <<OP_ADD, Push(256), OP_2DUP, OP_GREATERTHANOREQUAL, OP_IF(<<OP_SUB, OP_0>>, <<>>), OP_DROP>>
AddZipped ==
  u8_add_carry \o Repeat(2, <<OP_SWAP, OP_TOALTSTACK, OP_ADD>> \o u8_add_carry)
  \o <<OP_SWAP, OP_TOALTSTACK, OP_ADD>> \o u8_add \o u4_fromaltstack(3)
u32_add(a, b) == u32_copy_zip(a, b) \o AddZipped
u32_add_drop(a, b) == u32_zip(a, b) \o AddZipped

(***************************************************************************)
(* u32_xor.rs and u32_and.rs: f(x) = (x & 0b10101010) >> 1 is tabulated,   *)
(* so that the even and the odd bits of two bytes can be added without a   *)
(* carry from one bit to the next.                                         *)
(***************************************************************************)
Quads(base) ==
  For(0, 2, LAMBDA k: <<Push(base - 4 * k), OP_DUP, Push(base - 1 - 4 * k), OP_DUP,
                        OP_2OVER, OP_2OVER>>)
u8_push_xor_table ==
  LET half(base) == Repeat(2, Repeat(2, Quads(base)) \o Repeat(2, Quads(base - 16)))
  IN  half(85) \o half(21)
u8_drop_xor_table == Repeat(128, <<OP_2DROP>>)

\* <<f_A, A_odd, f_B, B_odd>>, then the sum of the f, for u8_and and u8_xor.
SplitBits(i) ==
  <<OP_DUP, Push(i), OP_ADD, OP_PICK, OP_DUP, OP_DUP, OP_ADD, OP_ROT, OP_SWAP, OP_SUB,
    OP_ROT, OP_DUP, Push(i + 1), OP_ADD, OP_PICK, OP_DUP, OP_DUP, OP_ADD, OP_ROT, OP_SWAP, OP_SUB,
    OP_SWAP, Push(3), OP_ROLL, OP_ADD>>
u8_and(i) ==
  SplitBits(i)
  \o <<Push(i), OP_ADD, OP_PICK, OP_SWAP, OP_ROT, OP_ADD, Push(i - 1), OP_ADD, OP_PICK,
       OP_OVER, OP_ADD, OP_ADD>>
u8_xor(i) ==
  SplitBits(i)
  \o <<OP_DUP, Push(i + 1), OP_ADD, OP_PICK, OP_DUP, OP_ADD, OP_SUB, OP_SWAP, OP_ROT, OP_ADD,
       OP_DUP, Push(i), OP_ADD, OP_PICK, OP_DUP, OP_ADD, OP_SUB, OP_OVER, OP_ADD, OP_ADD>>
Bytewise(a, b, stack_size, F(_)) ==
  u32_copy_zip(a, b)
  \o For(0, 4, LAMBDA k: F(8 - 2 * k + (stack_size - 2) * 4) \o When(k < 3, <<OP_TOALTSTACK>>))
  \o u4_fromaltstack(3)
u32_and(a, b, stack_size) == Bytewise(a, b, stack_size, u8_and)
u32_xor(a, b, stack_size) == Bytewise(a, b, stack_size, u8_xor)

(***************************************************************************)
(* u32_rrot.rs                                                             *)
(***************************************************************************)
u32_rrot16 == <<OP_2SWAP>>
u32_rrot8 == <<OP_2SWAP, Push(3), OP_ROLL>>
u8_rrot7(i) ==
  (CASE i = 0 -> <<>> [] i = 1 -> <<OP_SWAP>> [] i = 2 -> <<OP_ROT>>
     [] OTHER -> <<Push(i), OP_ROLL>>)
  \o <<Push(128), OP_2DUP, OP_GREATERTHANOREQUAL, OP_IF(<<OP_SUB, OP_1>>, <<OP_DROP, OP_0>>)>>
u32_rrot7 ==
  u8_rrot7(0)
  \o For(2, 5, LAMBDA i: u8_rrot7(i) \o <<OP_TOALTSTACK, OP_DUP, OP_ADD, OP_ADD, OP_FROMALTSTACK>>)
  \o <<Push(4), OP_ROLL, OP_DUP, OP_ADD, OP_ADD>> \o Reverse4
u8_extract_1bit ==
  <<OP_DUP, OP_ADD, Push(256), OP_2DUP, OP_GREATERTHANOREQUAL,
    OP_IF(<<OP_SUB, OP_1>>, <<OP_DROP, OP_0>>)>>
u8_extract_hbit(hbit) ==
  IF hbit = 1 THEN u8_extract_1bit
  ELSE <<OP_0, OP_TOALTSTACK>>
       \o For(0, hbit, LAMBDA i:
            <<Push(128), OP_2DUP, OP_GREATERTHANOREQUAL,
              OP_IF(<<OP_SUB, OP_FROMALTSTACK, Push(2 ^ (hbit - 1 - i)), OP_ADD, OP_TOALTSTACK,
                      OP_DUP>>, <<>>),
              OP_DROP, OP_DUP, OP_ADD>>)
       \o <<OP_FROMALTSTACK>>
byte_reorder(offset) ==
  CASE offset = 0 -> Reverse4
    [] offset = 1 -> <<OP_SWAP, OP_ROT>>
    [] offset = 2 -> Reverse4 \o <<OP_2SWAP>>
    [] offset = 3 -> <<OP_SWAP, OP_ROT, OP_2SWAP>>
u32_rrot(rot_num) ==
  LET hbit == 8 - (rot_num % 8)
  IN  CASE rot_num = 0 -> <<>>
        [] rot_num = 7 -> u32_rrot7
        [] rot_num = 8 -> u32_rrot8
        [] rot_num = 16 -> u32_rrot16
        [] rot_num = 23 -> u32_rrot16 \o u32_rrot7
        [] rot_num = 24 -> <<Push(3), OP_ROLL>>
        [] OTHER ->
             u8_extract_hbit(hbit) \o <<OP_ROT>> \o u8_extract_hbit(hbit)
             \o <<Push(4), OP_ROLL>> \o u8_extract_hbit(hbit)
             \o <<Push(6), OP_ROLL>> \o u8_extract_hbit(hbit)
             \o <<Push(7), OP_ROLL>> \o Repeat(4, <<OP_ADD, OP_TOALTSTACK>>)
             \o u4_fromaltstack(4) \o byte_reorder(rot_num \div 8)
=============================================================================

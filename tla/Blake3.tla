------------------------------- MODULE Blake3 -------------------------------
(***************************************************************************)
(* BLAKE3 of one chunk (hash/blake3.rs, hash/blake3_utils.rs) on words of  *)
(* nibbles.  The rounds are written with StackTracker, which keeps the     *)
(* place of every variable: they are operators on values that look up the  *)
(* tables their scripts push.  Unpacking, padding and the table lookup by  *)
(* depth are scripts.                                                      *)
(***************************************************************************)
EXTENDS U4

U256 == INSTANCE BigInt WITH N_BITS <- 256, LIMB_SIZE <- 29

\* A constant word, given as its two halves, and a small number as nibbles.
Nibbles(hi, lo) ==
  [i \in 1 .. 8 |-> ((IF i <= 4 THEN hi ELSE lo) \div 16 ^ (3 - ((i - 1) % 4))) % 16]
number_u32(n) == Nibbles(0, n)
IV == <<Nibbles(27145, 58983), Nibbles(47975, 44677), Nibbles(15470, 62322),
        Nibbles(42319, 62778), Nibbles(20750, 21119), Nibbles(39685, 26764),
        Nibbles(8067, 55723), Nibbles(23520, 52505)>>
MSG_PERMUTATION == <<2, 6, 3, 10, 7, 0, 4, 13, 1, 11, 12, 5, 9, 14, 15, 8>>

(***************************************************************************)
(* The tables.  The row of a XOR table is found from the bottom of the     *)
(* stack: an entry of the lookup added to the depth is an index.           *)
(***************************************************************************)
u4_push_from_depth_full_lookup(delta) ==
  ForRev(0, 16, LAMBDA i: <<Push((i + 1) * (-16) + delta)>>)
u4_push_from_depth_half_lookup(delta) ==
  ForRev(1, 17, LAMBDA i: <<Push(delta - ((16 - i) * (17 - i)) \div 2)>>)
DepthTables(use_full_tables) ==
  IF use_full_tables THEN u4_push_from_depth_full_lookup(-17) \o u4_push_full_xor_table
  ELSE u4_push_from_depth_half_lookup(-18) \o u4_push_half_xor_table

\* y and then x are on top of the stack; y is copied and x is consumed.
xor_2_nibbles(use_full_tables) ==
  <<OP_DEPTH, OP_DUP, Push(3), OP_PICK>>
  \o (IF use_full_tables
      THEN <<OP_SUB, OP_PICK, OP_ADD, Push(1), OP_ROLL, OP_ADD, OP_PICK>>
      ELSE <<Push(3), OP_ROLL, OP_2DUP, OP_MIN, OP_TOALTSTACK, OP_MAX, OP_SUB, OP_1SUB, OP_PICK,
             OP_ADD, OP_FROMALTSTACK, OP_SUB, OP_PICK>>)
\* above: what lies between the tables and the operands
XorLookup(use_full_tables, above) ==
  LET below == Contents(DepthTables(use_full_tables)) \o above
      script == xor_2_nibbles(use_full_tables)
  IN  [x \in 0 .. 15, y \in 0 .. 15 |->
         LET s == Result(script, below \o <<y, x>>) IN s[Len(s)]]

TablesVars(use_full_tables) ==
  [xor |-> XorLookup(use_full_tables, <<>>),
   shift |-> Contents(u4_push_shift_for_blake),
   modulo |-> Contents(u4_push_modulo_table(48)),
   quotient |-> Contents(u4_push_quotient_table(48))]

(***************************************************************************)
(* blake3_utils.rs.  x loses the nibble that is moved, so an index into x  *)
(* counts what is left of it.                                              *)
(***************************************************************************)
Without(x, n) == SubSeq(x, 1, n) \o SubSeq(x, n + 2, Len(x))
RECURSIVE XorNibbles(_, _, _, _)
XorNibbles(x, y, steps, tables) ==
  IF steps = <<>> THEN <<>>
  ELSE LET nibble_x == Head(steps)[1]
           nibble_y == Head(steps)[2]
       IN  <<tables.xor[x[nibble_x + 1], y[nibble_y + 1]]>>
           \o XorNibbles(Without(x, nibble_x), y, Tail(steps), tables)

xor_and_rotate_right_by_multiple_of_4(x, y, rotation, tables) ==
  LET pos_shift == 8 - rotation \div 4
  IN  XorNibbles(x, y, [i \in 1 .. 8 |-> <<IF pos_shift + i - 1 < 8 THEN pos_shift ELSE 0,
                                           (pos_shift + i - 1) % 8>>], tables)

xor_and_rotate_right_by_7(x, y, tables) ==
  LET z == XorNibbles(x, y, <<<<6, 6>>, <<6, 7>>, <<0, 0>>, <<0, 1>>, <<0, 2>>, <<0, 3>>,
                              <<0, 4>>, <<0, 5>>>>, tables)
  IN  [i \in 1 .. 8 |-> u4_2_nib_shift_blake(z[i], z[(i % 8) + 1], tables.shift)]

u4_add_direct(words, tables) ==
  u4_add_internal_stack(words, 8, 0, tables.quotient, tables.modulo)

\* state: 0 .. 15 -> words
g(state, a, b, c, d, m_two_i, m_two_i_plus_one, tables) ==
  LET a1 == u4_add_direct(<<state[b], m_two_i, state[a]>>, tables)
      d1 == xor_and_rotate_right_by_multiple_of_4(state[d], a1, 16, tables)
      c1 == u4_add_direct(<<d1, state[c]>>, tables)
      b1 == xor_and_rotate_right_by_multiple_of_4(state[b], c1, 12, tables)
      a2 == u4_add_direct(<<b1, m_two_i_plus_one, a1>>, tables)
      d2 == xor_and_rotate_right_by_multiple_of_4(d1, a2, 8, tables)
      c2 == u4_add_direct(<<d2, c1>>, tables)
      b2 == xor_and_rotate_right_by_7(b1, c2, tables)
  IN  [state EXCEPT ![a] = a2, ![b] = b2, ![c] = c2, ![d] = d2]

Quarters == <<<<0, 4, 8, 12>>, <<1, 5, 9, 13>>, <<2, 6, 10, 14>>, <<3, 7, 11, 15>>,
              <<0, 5, 10, 15>>, <<1, 6, 11, 12>>, <<2, 7, 8, 13>>, <<3, 4, 9, 14>>>>
RECURSIVE RoundFrom(_, _, _, _)
RoundFrom(q, state, message, tables) ==
  IF q > 8 THEN state
  ELSE LET v == Quarters[q]
       IN  RoundFrom(q + 1, g(state, v[1], v[2], v[3], v[4], message[2 * q - 2],
                              message[2 * q - 1], tables), message, tables)
round(state, message, tables) == RoundFrom(1, state, message, tables)
permutate(message) == [i \in 0 .. 15 |-> message[MSG_PERMUTATION[i + 1]]]
RECURSIVE Rounds(_, _, _, _)
Rounds(n, state, message, tables) ==
  IF n = 0 THEN state
  ELSE Rounds(n - 1, round(state, message, tables), permutate(message), tables)

init_state(chaining, counter, block_len, flags) ==
  LET words == chaining \o SubSeq(IV, 1, 4)
               \o <<number_u32(counter), number_u32(0), number_u32(block_len), number_u32(flags)>>
  IN  [i \in 0 .. 15 |-> words[i + 1]]

\* The chaining words for the next block; each pair of nibbles of the last
\* block is swapped on its way through the alt stack, the words of the hash
\* being little endian.
compress(chaining, counter, block_len, flags, message, tables, last_round) ==
  LET state == Rounds(7, init_state(chaining, counter, block_len, flags), message, tables)
      Mixed(i) == XorNibbles(state[i], state[i + 8], [n \in 1 .. 8 |-> <<0, n - 1>>], tables)
      Order == IF last_round THEN <<7, 8, 5, 6, 3, 4, 1, 2>> ELSE <<1, 2, 3, 4, 5, 6, 7, 8>>
  IN  [i \in 1 .. 8 |-> LET w == Mixed(i - 1) IN [n \in 1 .. 8 |-> w[Order[n]]]]

\* Mutant: the last of several blocks is not flagged as the end of the chunk.
FlagsWithoutEnd(i, num_blocks) ==
  CASE num_blocks = 1 -> 11
    [] num_blocks # 1 /\ i = 0 -> 1
    [] OTHER -> 0

get_flags_for_block(i, num_blocks) ==
  CASE num_blocks = 1 -> 11
    [] num_blocks # 1 /\ i = 0 -> 1
    [] num_blocks # 1 /\ i # 0 /\ i = num_blocks - 1 -> 10
    [] OTHER -> 0

(***************************************************************************)
(* blake3.rs.  A message is a sequence of bytes; a block is pushed as two  *)
(* packed 256-bit integers, the last block deepest.                        *)
(***************************************************************************)
chunk_message(message) ==
  LET blocks == (Len(message) + 63) \div 64
      byte(k) == IF k < Len(message) THEN message[k + 1] ELSE 0
  IN  [b \in 1 .. blocks |->
         [i \in 1 .. 64 |-> byte(64 * (b - 1) + 4 * ((i - 1) \div 4) + 3 - ((i - 1) % 4))]]

PushBytes(bytes) == [i \in 1 .. Len(bytes) |-> Push(bytes[i])]
blake3_push_message_script_with_limb(message, limb_len) ==
  LET chunks == chunk_message(message)
      pack == U256!transform_limbsize(8, limb_len)
  IN  ForRev(1, Len(chunks) + 1, LAMBDA b:
        PushBytes(SubSeq(chunks[b], 1, 32)) \o pack \o PushBytes(SubSeq(chunks[b], 33, 64)) \o pack)

\* Two packed integers on top of the stack become the nibbles of the block.
unpack(limb_len) ==
  LET one == U256!verify_bigint_on_stack_with_limb_size(limb_len)
             \o U256!transform_limbsize(limb_len, 4)
  IN  one \o Repeat(64, <<OP_TOALTSTACK>>) \o one \o Repeat(64, <<OP_FROMALTSTACK>>)

Zeros(n) == For(0, n, LAMBDA j: IF j <= 1 THEN <<OP_0>> ELSE When(j % 2 = 1, <<OP_2DUP>>))
padding(msg_len) ==
  LET j == msg_len % 4
      pad_bytes == 64 + j - msg_len - 4
  IN  Repeat(pad_bytes, <<OP_2DROP>>) \o Repeat(2 * j, <<OP_TOALTSTACK>>)
      \o Repeat(4 - j, <<OP_2DROP>>) \o Zeros((4 - j) * 2)
      \o Repeat(2 * j, <<OP_FROMALTSTACK>>) \o Zeros(pad_bytes * 2)

empty_msg_hash ==
  <<175, 19, 73, 185, 245, 249, 161, 166, 160, 64, 77, 234, 54, 220, 201, 73,
    155, 203, 37, 201, 173, 193, 18, 183, 204, 154, 147, 202, 228, 31, 50, 98>>

\* packed: the stack with the message; i: the block, msg_len: bytes left.
RECURSIVE Blocks(_, _, _, _, _, _, _)
Blocks(packed, i, num_blocks, msg_len, chaining, limb_len, tables) ==
  LET last == i = num_blocks - 1
      stack == Result(unpack(limb_len) \o When(last /\ msg_len # 64, padding(msg_len)), packed)
      depth == Len(stack) - 128
      message == [m \in 0 .. 15 |-> SubSeq(stack, depth + 8 * m + 1, depth + 8 * m + 8)]
      words == compress(chaining, 0, IF msg_len < 64 THEN msg_len ELSE 64,
                        get_flags_for_block(i, num_blocks), message, tables, last)
  IN  IF last THEN Flat(words)
      ELSE Blocks(SubSeq(stack, 1, depth), i + 1, num_blocks,
                  IF msg_len > 64 THEN msg_len - 64 ELSE msg_len, words, limb_len, tables)

\* The nibbles of the hash, from a stack that holds only the packed message.
blake3(packed, msg_len, use_full_tables, limb_len) ==
  IF msg_len = 0 THEN Result(PushBytes(empty_msg_hash) \o U256!transform_limbsize(8, 4), <<>>)
  ELSE Blocks(packed, 0, (msg_len + 63) \div 64, msg_len, IV, limb_len,
              TablesVars(use_full_tables))

blake3_verify_output_script(expected_output) ==
  PushBytes(expected_output) \o U256!transform_limbsize(8, 4)
  \o ForRev(2, 65, LAMBDA i: <<Push(i), OP_ROLL, OP_EQUALVERIFY>>) \o <<OP_EQUAL>>
=============================================================================

------------------------------- MODULE Sha256 -------------------------------
(***************************************************************************)
(* The SHA-256 scripts: on words of bytes (bitvm/src/hash/sha256.rs) and   *)
(* on words of nibbles (bitvm/src/hash/sha256_u4.rs).  Everything a round  *)
(* needs (tables, constants, message schedule, working variables) lies on  *)
(* one stack, and every offset below counts the elements above it at that  *)
(* point of the script.                                                    *)
(***************************************************************************)
EXTENDS U32

\* A constant word, as its two halves, and its bytes.
Pairs(halves) == [i \in 1 .. Len(halves) \div 2 |-> <<halves[2 * i - 1], halves[2 * i]>>]
BytesOf(w) == <<w[1] \div 256, w[1] % 256, w[2] \div 256, w[2] % 256>>
K ==
  Pairs(<<17034, 12184, 28983, 17553, 46528, 64463, 59829, 56229, 14678, 49755, 23025, 4593,
          37439, 33444, 43804, 24277, 55303, 43672, 4739, 23297, 9265, 34238, 21772, 32195,
          29374, 23924, 32990, 45566, 39900, 1703, 49563, 61812, 58523, 27073, 61374, 18310,
          4033, 40390, 9228, 41420, 11753, 11375, 19060, 33962, 23728, 43484, 30457, 35034,
          38974, 20818, 43057, 50797, 45059, 10184, 48985, 32711, 50912, 3059, 54695, 37191,
          1738, 25425, 5161, 10599, 10167, 2693, 11803, 8504, 19756, 28156, 21304, 3347, 25866,
          29524, 30314, 2747, 33218, 51502, 37490, 11397, 41663, 59553, 43034, 26187, 49739,
          35696, 51052, 20899, 53650, 59417, 54937, 1572, 62478, 13701, 4202, 41072, 6564,
          49430, 7735, 27656, 10056, 30540, 13488, 48309, 14620, 3251, 20184, 43594, 23452,
          51791, 26670, 28659, 29839, 33518, 30885, 25455, 33992, 30740, 36039, 520, 37054,
          65530, 42064, 27883, 48889, 41975, 50801, 30962>>)
INITSTATE ==
  Pairs(<<27145, 58983, 47975, 44677, 15470, 62322, 42319, 62778, 20750, 21119, 39685, 26764,
          8067, 55723, 23520, 52505>>)

(***************************************************************************)
(* sha256.rs                                                               *)
(***************************************************************************)
Sum == u32_add_drop(0, 1)
u32_toaltstack == Repeat(4, <<OP_TOALTSTACK>>)
u32_fromaltstack == Repeat(4, <<OP_FROMALTSTACK>>)
u32_drop == <<OP_2DROP, OP_2DROP>>
u32_dup == OP_4DUP
\* Drop the n words under the top one.
KeepTop(n) == u32_toaltstack \o Repeat(n, u32_drop) \o u32_fromaltstack
u32_not == Repeat(4, <<Push(255), Push(4), OP_ROLL, OP_SUB>>)

u32_shr(rot_num, stack_depth) ==
  LET low == 2 ^ (32 - rot_num - 16) - 1
  IN  u32_rrot(rot_num) \o u32_push(BytesOf(<<low, 65535>>))
      \o u32_and(0, 1, stack_depth + 1) \o KeepTop(1)
XorOfThree(first, second, third, stack_depth) ==
  u32_dup \o u32_dup \o u32_toaltstack \o u32_toaltstack
  \o first \o u32_fromaltstack \o second \o u32_fromaltstack \o third
  \o u32_xor(0, 1, stack_depth + 2) \o u32_xor(0, 2, stack_depth + 2) \o KeepTop(2)
sig0(d) == XorOfThree(u32_shr(3, d), u32_rrot(7), u32_rrot(18), d)
sig1(d) == XorOfThree(u32_shr(10, d), u32_rrot(19), u32_rrot(17), d)
ep0(d) == XorOfThree(u32_rrot(2), u32_rrot(13), u32_rrot(22), d)
ep1(d) == XorOfThree(u32_rrot(6), u32_rrot(11), u32_rrot(25), d)
ch(x, y, z, d) ==
  u32_pick(x) \o u32_pick(y + 1) \o u32_and(0, 1, d + 2) \o KeepTop(1)
  \o u32_pick(x + 1) \o u32_not \o u32_pick(z + 2) \o u32_and(0, 1, d + 3) \o KeepTop(1)
  \o u32_xor(0, 1, d + 2) \o KeepTop(1)
maj(x, y, z, d) ==
  u32_pick(x) \o u32_pick(y + 1) \o u32_and(0, 1, d + 2) \o KeepTop(1)
  \o u32_pick(x + 1) \o u32_pick(z + 2) \o u32_and(0, 1, d + 3) \o KeepTop(1)
  \o u32_pick(y + 2) \o u32_pick(z + 3) \o u32_and(0, 1, d + 4) \o KeepTop(1)
  \o u32_xor(0, 1, d + 3) \o u32_xor(0, 2, d + 3) \o KeepTop(2)

\* The 16 words of the block, in order, with the old state on the alt stack.
LoadBlock == Repeat(8, u32_toaltstack) \o For(1, 16, u32_roll)
\* m_i for i in first..64 when all four terms are needed.
ScheduleFrom(first, xor_depth) ==
  For(first, 64, LAMBDA i:
    u32_pick(1) \o sig1(xor_depth - 6 + i - 16 - 1) \o u32_pick(7) \o Sum
    \o u32_pick(15) \o sig0(xor_depth - 6 + i - 16) \o Sum \o u32_pick(16) \o Sum)
Rounds(xor_depth, k_depth) ==
  Repeat(8, u32_fromaltstack) \o Repeat(8, u32_pick(7)) \o Repeat(8, u32_toaltstack)
  \o For(0, 64, LAMBDA i:
       Repeat(4, u32_toaltstack)
       \o u32_roll(3) \o u32_pick(1) \o ep1(xor_depth + 45) \o Sum
       \o ch(1, 2, 3, xor_depth + 44) \o Sum
       \o u32_pick(k_depth + 44 + i) \o Sum \o u32_pick(4 + 63 - i) \o Sum
       \o u32_dup \o u32_fromaltstack \o Sum \o Repeat(3, u32_fromaltstack) \o u32_roll(4)
       \o u32_pick(1) \o ep0(xor_depth + 49) \o Sum \o maj(1, 2, 3, xor_depth + 48) \o Sum)
  \o Repeat(8, u32_fromaltstack)
  \o For(0, 8, LAMBDA i: u32_roll(8 - i) \o Sum \o u32_toaltstack)
  \o Repeat(64, u32_drop) \o Repeat(8, u32_fromaltstack)

sha256_transform(xor_depth, k_depth) ==
  LoadBlock \o ScheduleFrom(16, xor_depth) \o Rounds(xor_depth, k_depth)

\* The schedules of a 32-byte message and of the second block of an 80-byte
\* one leave out the terms that are zero and push those that are constant.
PlusConst(high, low) == u32_push(BytesOf(<<high, low>>)) \o Sum
Sig1(xor_depth, k) == u32_pick(1) \o sig1(xor_depth + k)
Sig0(xor_depth, k) == u32_pick(15) \o sig0(xor_depth + k) \o Sum
M7 == u32_pick(7) \o Sum
M16 == u32_pick(16) \o Sum
First(xor_depth, high) ==
  u32_pick(14) \o sig0(xor_depth - 7) \o M16
  \o u32_push(BytesOf(<<high, 0>>)) \o Sig0(xor_depth, -5) \o M16

sha256_transform_32bytes(xor_depth, k_depth) ==
  LoadBlock \o First(xor_depth, 160)
  \o For(18, 22, LAMBDA i: Sig1(xor_depth, i - 23) \o Sig0(xor_depth, i - 22) \o M16)
  \o Sig1(xor_depth, -1) \o PlusConst(0, 256) \o Sig0(xor_depth, 0) \o M16
  \o Sig1(xor_depth, 0) \o M7 \o PlusConst(4352, 8192) \o M16
  \o Sig1(xor_depth, 1) \o M7 \o PlusConst(32768, 0)
  \o For(25, 30, LAMBDA i: Sig1(xor_depth, i - 23) \o M7)
  \o Sig1(xor_depth, 7) \o M7 \o PlusConst(64, 34)
  \o Sig1(xor_depth, 8) \o M7 \o Sig0(xor_depth, 9) \o PlusConst(0, 256)
  \o ScheduleFrom(32, xor_depth) \o Rounds(xor_depth, k_depth)

sha256_transform_80bytes_chunk2(xor_depth, k_depth) ==
  LoadBlock \o First(xor_depth, 272)
  \o Sig1(xor_depth, -5) \o Sig0(xor_depth, -4) \o M16
  \o Sig1(xor_depth, -4) \o PlusConst(4352, 8192) \o M16
  \o Sig1(xor_depth, -3) \o PlusConst(32768, 0)
  \o Sig1(xor_depth, -2)
  \o Sig1(xor_depth, -1) \o PlusConst(0, 640)
  \o For(23, 30, LAMBDA i: Sig1(xor_depth, i - 23) \o M7)
  \o Sig1(xor_depth, 7) \o M7 \o PlusConst(160, 85)
  \o Sig1(xor_depth, 8) \o M7 \o Sig0(xor_depth, 9) \o PlusConst(0, 640)
  \o ScheduleFrom(32, xor_depth) \o Rounds(xor_depth, k_depth)

push_reverse_bytes_to_alt(num_bytes) ==
  For(1, num_bytes + 1, LAMBDA i: <<Push(num_bytes - i), OP_ROLL, OP_TOALTSTACK>>)
padding_add_roll(num_bytes) ==
  LET rest == num_bytes % 64
      padding_num == IF rest < 56 THEN 55 - rest ELSE 64 + 55 - rest
  IN  Repeat(num_bytes, <<OP_FROMALTSTACK>>) \o <<Push(128)>> \o push_to_stack(0, padding_num)
      \o u32_push(<<0, 0, 0, 0>>) \o u32_push(BytesOf(<<0, num_bytes * 8>>))
      \o For(1, (num_bytes + padding_num + 9) \div 4, u32_roll)
sha256_init == ForRev(1, 9, LAMBDA i: u32_push(BytesOf(INITSTATE[i])))
sha256_k == ForRev(1, 65, LAMBDA i: u32_push(BytesOf(K[i])))
sha256_final ==
  Repeat(8, Reverse4 \o u32_toaltstack) \o Repeat(8, u32_fromaltstack)

sha256(num_bytes) ==
  LET chunks == num_bytes \div 64 + (IF num_bytes % 64 > 55 THEN 2 ELSE 1)
      transforms ==
        CASE num_bytes = 32 -> sha256_transform_32bytes(8 + 16 + 64 + 1, 8 + 16)
          [] num_bytes = 80 -> sha256_transform(8 + 2 * 16 + 64 + 1, 8 + 2 * 16)
                               \o sha256_transform_80bytes_chunk2(8 + 16 + 64 + 1, 8 + 16)
          [] OTHER -> For(0, chunks, LAMBDA i:
                        sha256_transform(8 + (chunks - i) * 16 + 64 + 1, 8 + (chunks - i) * 16))
  IN  push_reverse_bytes_to_alt(num_bytes) \o u8_push_xor_table \o sha256_k
      \o padding_add_roll(num_bytes) \o sha256_init \o transforms \o sha256_final
      \o Repeat(8, u32_toaltstack) \o Repeat(64, u32_drop) \o u8_drop_xor_table
      \o Repeat(8, u32_fromaltstack)

(***************************************************************************)
(* sha256_u4.rs                                                            *)
(***************************************************************************)
padding(num_bytes) ==
  LET l == num_bytes * 8
      k == (512 - l - 8 - 32) % 512
  IN  <<Push(8), OP_0>> \o When(k >= 16, <<OP_0, OP_DUP, OP_2DUP>>)
      \o Repeat(k \div 16 - 1, <<OP_2DUP, OP_2DUP>>) \o When(k % 16 > 0, <<OP_0, OP_0>>)
      \o u4_number_to_nibble(0, l)
\* Mutant: the length is put behind 56 bytes of the last block.
PaddingTooFull(num_bytes) ==
  LET chunks == num_bytes \div 64 + 1
  IN  [c \in 1 .. chunks |-> IF c = chunks THEN padding(num_bytes) ELSE <<>>]
\* The padding of each block.
double_padding(num_bytes) ==
  LET chunks == num_bytes \div 64 + 1
      first == <<Push(8), OP_0>> \o Repeat(63 - (num_bytes % 64), <<OP_0, OP_0>>)
      second == <<OP_0, OP_DUP>> \o Repeat(59, <<OP_2DUP>>) \o u4_number_to_nibble(0, num_bytes * 8)
  IN  IF num_bytes % 64 > 55
      THEN [c \in 1 .. chunks + 1 |->
              CASE c = chunks -> first [] c = chunks + 1 -> second [] OTHER -> <<>>]
      ELSE [c \in 1 .. chunks |-> IF c = chunks THEN padding(num_bytes) ELSE <<>>]

calculate_s(offset_number, offset_rrot, offset_and, shifts, last_is_shift, do_xor_with_and) ==
  For(1, 4, LAMBDA i: u4_rrot(shifts[i], offset_number, offset_rrot, i = 3 /\ last_is_shift))
  \o u4_fromaltstack(24) \o u4_logic_nibs(8, <<0, 8, 16>>, offset_and + 24, do_xor_with_and)
get_w_pos(i) == (i + 1) * 8
get_extra_pos(i) == (i - 16) * 8
\* The place of the working variables a..h, numbered 0..7.
get_pos_var(i) == 56 - i * 8

ch_calculation(e, f, g, offset_and) ==
  For(0, 8, LAMBDA nib:
    <<Push(e + 7), OP_PICK, OP_DUP, OP_NEGATE, Push(15), OP_ADD, Push(g + 7 + 2), OP_PICK>>
    \o u4_half_table_operation(nib + offset_and + 3) \o <<OP_SWAP, Push(f + 7 + 2), OP_PICK>>
    \o u4_half_table_operation(nib + offset_and + 3)
    \o u4_xor_with_half_and_table(nib + offset_and + 2))
maj_calculation(a, b, c, offset_and) ==
  For(0, 8, LAMBDA nib:
    <<Push(a + 7), OP_PICK, Push(b + 7 + 1), OP_PICK, OP_2DUP>>
    \o u4_xor_with_half_and_table(nib + offset_and + 4) \o <<Push(c + 7 + 3), OP_PICK>>
    \o u4_half_table_operation(nib + offset_and + 4) \o <<OP_ROT, OP_ROT>>
    \o u4_half_table_operation(nib + offset_and + 3)
    \o u4_xor_with_half_and_table(nib + offset_and + 2))
schedule_iteration(i, offset_top_sched, offset_rot, offset_and, offset_add, use_add_table) ==
  calculate_s(offset_top_sched - get_w_pos(i - 15), offset_rot, offset_and, <<7, 18, 3>>, TRUE, FALSE)
  \o calculate_s(offset_top_sched - get_w_pos(i - 2), offset_rot, offset_and, <<17, 19, 10>>, TRUE, FALSE)
  \o u4_fromaltstack(16)
  \o u4_copy_u32_from(offset_top_sched - get_w_pos(i - 16) + 16)
  \o u4_copy_u32_from(offset_top_sched - get_w_pos(i - 7) + 24)
  \o u4_add(8, <<0, 8, 16, 24>>, offset_add + 32, use_add_table) \o u4_fromaltstack(8)

half_logic_size == 136 + 16
rrot_size == 16 * 5
u4_round(i, use_add_table) ==
  LET vars_top == 64 + 512
      rrot == vars_top + half_logic_size
      add == rrot + rrot_size
      w == K[i + 1]
  IN  calculate_s(get_pos_var(4), rrot, vars_top, <<6, 11, 25>>, FALSE, TRUE) \o u4_fromaltstack(8)
      \o ch_calculation(8 + get_pos_var(4), 8 + get_pos_var(5), 8 + get_pos_var(6), 8 + vars_top)
      \o u4_copy_u32_from(16 + vars_top - (i + 1) * 8) \o u4_number_to_nibble(w[1], w[2])
      \o (IF use_add_table
          THEN u4_add(8, <<0, 8>>, 32 + add, TRUE) \o u4_fromaltstack(8)
               \o u4_add(8, <<0, 8, 16, 24 + get_pos_var(7)>>, 24 + add, TRUE)
          ELSE u4_add(8, <<0, 8, 16, 24, 32 + get_pos_var(7)>>, 0, FALSE))
      \o u4_fromaltstack(8)
      \o calculate_s(get_pos_var(0), rrot, vars_top, <<2, 13, 22>>, FALSE, TRUE)
      \o maj_calculation(get_pos_var(0), get_pos_var(1), get_pos_var(2), vars_top)
      \o u4_copy_u32_from(8) \o u4_fromaltstack(8)
      \o u4_add(8, <<0, 8, 16>>, add + 24, use_add_table) \o u4_fromaltstack(8)
      \o Repeat(3, u4_move_u32_from(64))
      \o u4_add(8, <<32, 64>>, add + 8, use_add_table) \o u4_fromaltstack(8)
      \o Repeat(3, u4_move_u32_from(64 - 8))

sha256_u4(num_bytes) ==
  LET paddings == double_padding(num_bytes)
      chunks == Len(paddings)
      bytes(c) == LET rest == num_bytes - 64 * c IN IF rest > 64 THEN 64 ELSE IF rest < 0 THEN 0 ELSE rest
      use_add_table == chunks = 1
      tables_size == rrot_size + half_logic_size + (IF use_add_table THEN 128 ELSE 0)
      add == 64 + 512 + half_logic_size + rrot_size
      drop_half == u4_drop(16) \o u4_drop(136)
      xor_tables == u4_push_half_xor_table \o u4_push_half_lookup
      and_tables == u4_push_half_and_table \o u4_push_half_lookup
      load(c) == Repeat(2 * bytes(c), <<Push(tables_size + 2 * num_bytes - 1 - c * 128), OP_ROLL>>)
      schedule ==
        For(16, 64, LAMBDA i:
          LET x == get_extra_pos(i)
          IN  schedule_iteration(i, 128 + x, 128 + half_logic_size + x,
                                 128 + x, 128 + half_logic_size + rrot_size + x, use_add_table))
      start(c) == IF c = 0 THEN For(1, 9, LAMBDA i: u4_number_to_nibble(INITSTATE[i][1], INITSTATE[i][2]))
                  ELSE u4_fromaltstack(64)
      finish(c) ==
        IF c = 0
        THEN ForRev(0, 8, LAMBDA i:
               u4_number_to_nibble(INITSTATE[i + 1][1], INITSTATE[i + 1][2])
               \o u4_add(8, <<0, 8>>, add + 8 - (7 - i) * 8, use_add_table))
        ELSE u4_fromaltstack(64) \o For(0, 8, LAMBDA i: u4_add(8, <<0, 64 - i * 8>>, 0, FALSE))
  IN  When(use_add_table, u4_push_add_tables) \o u4_push_2_nib_rshift_tables \o xor_tables
      \o For(0, chunks, LAMBDA c:
           When(c > 0, drop_half \o xor_tables) \o load(c) \o paddings[c + 1] \o schedule
           \o u4_toaltstack(512) \o drop_half \o and_tables \o u4_fromaltstack(512)
           \o start(c) \o For(0, 64, LAMBDA i: u4_round(i, use_add_table)) \o finish(c)
           \o u4_drop(64 * 8)
           \o When(c < chunks - 1,
                   u4_fromaltstack(64) \o Repeat(64, <<Push(63), OP_PICK>>) \o u4_toaltstack(128)))
      \o drop_half \o u4_drop(32) \o u4_drop(48) \o When(use_add_table, u4_drop_add_tables)
      \o u4_fromaltstack(64)
=============================================================================

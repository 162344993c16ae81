--------------------------------- MODULE U4 ---------------------------------
(***************************************************************************)
(* Arithmetic on words held as nibbles (bitvm/src/u4): lookup tables lie   *)
(* on the stack under the operands, and every access computes how deep the *)
(* table is from the number of elements above it.  A word of n nibbles has *)
(* its most significant nibble deepest.                                    *)
(***************************************************************************)
EXTENDS Script

(***************************************************************************)
(* u4_std.rs                                                               *)
(***************************************************************************)
u4_toaltstack(n) == Repeat(n, <<OP_TOALTSTACK>>)
u4_fromaltstack(n) == Repeat(n, <<OP_FROMALTSTACK>>)
u4_copy_u32_from(address) == Repeat(8, <<Push(address + 7), OP_PICK>>)
u4_move_u32_from(address) == Repeat(8, <<Push(address + 7), OP_ROLL>>)
verify_n(n) == For(0, n, LAMBDA i: <<Push(n - i), OP_ROLL, OP_EQUALVERIFY>>)
u4_u32_verify_from_altstack == u4_fromaltstack(8) \o verify_n(8)
u4_drop(n) == Repeat(n \div 2, <<OP_2DROP>>) \o When(n % 2 = 1, <<OP_DROP>>)
\* The nibbles of the low 16 bits of n follow those of its high 16 bits.
u4_number_to_nibble(high, low) ==
  LET part(n) == ForRev(0, 4, LAMBDA i: <<Push((n \div 16 ^ i) % 16)>>)
  IN  part(high) \o part(low)
RECURSIVE u4_repeat_number(_, _)
u4_repeat_number(n, count) ==
  CASE count = 0 -> <<>>
    [] count = 1 -> <<Push(n)>>
    [] count = 2 -> <<Push(n), OP_DUP>>
    [] OTHER -> u4_repeat_number(n, 2) \o Repeat((count - 2) \div 2, <<OP_2DUP>>)
                \o When(count % 2 = 1, <<OP_DUP>>)

(***************************************************************************)
(* u4_add.rs and u4_add_stack.rs.  sums is 64 or 80: how many sums of a    *)
(* column the tables cover.                                                *)
(***************************************************************************)
u4_push_quotient_table(sums) ==
  ForRev(0, sums \div 16,
         LAMBDA i: <<Push(i), OP_DUP, OP_2DUP, OP_3DUP, OP_3DUP, OP_3DUP, OP_3DUP>>)
u4_push_modulo_table(sums) == ForRev(0, sums, LAMBDA i: <<Push(i % 16)>>)
u4_push_add_tables == u4_push_modulo_table(64) \o u4_push_quotient_table(64)
u4_drop_add_tables == u4_drop(64) \o u4_drop(64)

\* bases: a sequence of distinct positions.
SortedDown(bases) ==
  [i \in 1 .. Len(bases) |->
     CHOOSE b \in {bases[j] : j \in 1 .. Len(bases)} :
       Cardinality({j \in 1 .. Len(bases) : bases[j] > b}) = i - 1]
u4_arrange_nibbles(nibble_count, bases) ==
  LET sorted == SortedDown(bases)
  IN  For(0, nibble_count, LAMBDA i:
        For(0, Len(bases), LAMBDA n:
          <<Push(sorted[n + 1] + nibble_count - 1 - i + (n + 1) * (i + 1) - 1), OP_ROLL>>))

RECURSIVE u4_add_carry_nested(_, _)
u4_add_carry_nested(current, limit) ==
  <<OP_DUP, Push(16), OP_GREATERTHANOREQUAL,
    OP_IF(<<Push(16), OP_SUB>> \o (IF current + 1 = limit THEN <<Push(current)>>
                                   ELSE u4_add_carry_nested(current + 1, limit)),
          <<Push(current)>>)>>
RECURSIVE u4_add_nested(_, _)
u4_add_nested(current, limit) ==
  <<OP_DUP, Push(16), OP_GREATERTHANOREQUAL,
    OP_IF(<<Push(16), OP_SUB>>
          \o When(current + 1 < limit, u4_add_nested(current + 1, limit)), <<>>)>>

u4_add_no_table_internal(nibble_count, number_count) ==
  For(0, nibble_count, LAMBDA i:
    Repeat(number_count - 1, <<OP_ADD>>)
    \o (IF i < nibble_count - 1
        THEN u4_add_carry_nested(0, number_count) \o <<OP_SWAP, OP_TOALTSTACK, OP_ADD>>
        ELSE u4_add_nested(0, number_count) \o <<OP_TOALTSTACK>>))

\* Mutant: the carry on top of the stack is not counted in the table's depth.
AddUncountedCarry(nibble_count, number_count, tables_offset) ==
  For(0, nibble_count, LAMBDA i:
    LET last == i = nibble_count - 1
        offset_calc == -number_count * (i + 1) + 1
    IN  When(i > 0, <<OP_ADD>>) \o Repeat(number_count - 1, <<OP_ADD>>)
        \o When(~last, <<OP_DUP>>)
        \o <<Push(offset_calc - 1 + tables_offset + 64), OP_ADD, OP_PICK, OP_TOALTSTACK>>
        \o When(~last, <<Push(offset_calc - 2 + tables_offset), OP_ADD, OP_PICK>>))

\* offset_calc, the change of the stack since the start of the addition, is
\* -number_count * i after i columns, plus the carry of the last one.
u4_add_internal(nibble_count, number_count, tables_offset) ==
  For(0, nibble_count, LAMBDA i:
    LET last == i = nibble_count - 1
        added == -number_count * (i + 1) + 1
        offset_calc == IF last THEN added ELSE added + 1
    IN  When(i > 0, <<OP_ADD>>) \o Repeat(number_count - 1, <<OP_ADD>>)
        \o When(~last, <<OP_DUP>>)
        \o <<Push(offset_calc - 1 + tables_offset + 64), OP_ADD, OP_PICK, OP_TOALTSTACK>>
        \o When(~last, <<Push(offset_calc - 2 + tables_offset), OP_ADD, OP_PICK>>))

u4_add(nibble_count, bases, tables_offset, use_add_table) ==
  u4_arrange_nibbles(nibble_count, bases)
  \o (IF use_add_table THEN u4_add_internal(nibble_count, Len(bases), tables_offset)
      ELSE u4_add_no_table_internal(nibble_count, Len(bases)))

(***************************************************************************)
(* u4_logic.rs.  The half tables hold f(i, j) for i <= j only, so that the *)
(* operands are sorted first; the lookup table gives the start of row i.   *)
(***************************************************************************)
RECURSIVE Xor(_, _)
Xor(a, b) == IF a = 0 /\ b = 0 THEN 0
             ELSE ((a + b) % 2) + 2 * Xor(a \div 2, b \div 2)
And(a, b) == (a + b - Xor(a, b)) \div 2

u4_push_full_xor_table ==
  ForRev(0, 16, LAMBDA i: ForRev(0, 16, LAMBDA j: <<Push(Xor(i, j))>>))
u4_push_full_lookup == ForRev(0, 17, LAMBDA i: <<Push(16 * i)>>)
u4_push_half_xor_table ==
  ForRev(0, 16, LAMBDA i: ForRev(i, 16, LAMBDA j: <<Push(Xor(i, j))>>))

\* Numbers stand for OP_0 to OP_15, the codes of Dups for the OP_nDUP.
D1 == 101
D2 == 102
D3 == 103
O2 == 104
Table(codes) ==
  [i \in 1 .. Len(codes) |->
     CASE codes[i] = D1 -> OP_DUP
       [] codes[i] = D2 -> OP_2DUP
       [] codes[i] = D3 -> OP_3DUP
       [] codes[i] = O2 -> OP_2OVER
       [] OTHER -> Push(codes[i])]

u4_push_half_and_table ==
  Table(<<15, 14, D1, 13, 12, D2, D1, D2, 11, 10, 9, 8, 11, 10, D1, 8, D1, 10, D1, 9, 8,
          D2, D2, D2, D1, D2, D2, D2, 7, 6, 5, 4, 3, 2, 1, 0, 7, 6, D1, 4, D1, 2, D1, 0, D1,
          6, D1, 5, 4, D2, 1, 0, D2, 5, 4, D2, D1, D2, 0, D1, D2, 4, D1, D2, 3, 2, 1, 0,
          O2, O2, O2, O2, 3, 2, D1, 0, D1, 2, D1, 0, D1, 2, D1, 0, D1, 2, D1, 1, 0,
          D2, D2, D2, D2, D2, D2, D2, D1, D2, D3, D3, D3, D3>>)
u4_push_half_lookup ==
  Table(<<136, 135, 133, 130, 126, 121, 115, 108, 100, 91, 81, 70, 58, 45, 31, 16>>)
u4_sort == <<OP_2DUP, OP_MIN, OP_TOALTSTACK, OP_MAX, OP_FROMALTSTACK>>
u4_half_table_operation(lookup) ==
  u4_sort \o <<Push(lookup - 1), OP_ADD, OP_PICK, Push(lookup - 2), OP_ADD, OP_ADD, OP_PICK>>
u4_full_table_operation(lookup, table) ==
  <<Push(lookup), OP_ADD, OP_PICK, Push(table), OP_ADD, OP_ADD, OP_PICK>>
u4_xor_with_half_and_table(lookup) ==
  <<OP_2DUP>> \o u4_half_table_operation(lookup + 2) \o <<OP_DUP, OP_ADD, OP_SUB, OP_ADD>>
u4_logic_nibs(nibble_count, bases, offset, do_xor_with_half_and_table) ==
  LET numbers == Len(bases)
  IN  u4_arrange_nibbles(nibble_count, bases)
      \o For(0, nibble_count, LAMBDA nib:
           For(0, numbers - 1, LAMBDA i:
             IF do_xor_with_half_and_table
             THEN u4_xor_with_half_and_table(offset - i - nib * numbers)
             ELSE u4_half_table_operation(offset - i - nib * numbers))
           \o <<OP_TOALTSTACK>>)

(***************************************************************************)
(* u4_shift.rs and u4_rot.rs                                               *)
(***************************************************************************)
u4_push_lshift_tables ==
  Table(<<8, 0, D2, D2, D2, D2, D2, D2, D2, 12, 8, 4, 0, O2, O2, O2, O2, O2, O2,
          14, 12, 10, 8, 6, 4, 2, 0, 14, 12, 10, 8, 6, 4, 2, 0>>)
u4_push_rshift_tables ==
  Table(<<3, D1, D2, 2, D1, D2, 1, D1, D2, 0, D1, D2,
          7, D1, 6, D1, 5, D1, 4, D1, 3, D1, 2, D1, 1, D1, 0, D1>>)
u4_push_2_nib_rshift_tables == u4_push_lshift_tables \o u4_push_rshift_tables
u4_lshift(n, lshift_offset) == <<Push(lshift_offset + 16 * (n - 1)), OP_ADD, OP_PICK>>
u4_rshift(n, rshift_offset) ==
  IF n = 3 THEN <<Push(8), OP_GREATERTHANOREQUAL>>
  ELSE <<Push(rshift_offset + 16 * (n - 1)), OP_ADD, OP_PICK>>
u4_2_nib_rshift_n(n, tables_offset) ==
  u4_lshift(4 - n, tables_offset + 32 + 1) \o <<OP_SWAP>>
  \o u4_rshift(n, tables_offset + 1) \o <<OP_ADD>>

u4_prepare_number(shift, number_pos, is_shift) ==
  LET extra == shift \div 4 + 1
  IN  Repeat(extra, IF is_shift THEN <<OP_0>> ELSE <<Push(number_pos + 7 - (8 - extra)), OP_PICK>>)
      \o Repeat(8 - shift \div 4, <<Push(number_pos + 7 + extra), OP_PICK>>)
u4_rrot(shift, number_pos, shift_tables, is_shift) ==
  LET bit_shift == shift % 4
  IN  u4_prepare_number(shift, number_pos, is_shift)
      \o (IF bit_shift = 0 THEN u4_toaltstack(8) \o <<OP_DROP>>
          ELSE For(0, 8, LAMBDA i:
                 (IF i = 7 THEN <<OP_SWAP>> \o u4_2_nib_rshift_n(bit_shift, shift_tables - 2 + (9 - i))
                  ELSE <<OP_OVER>> \o u4_2_nib_rshift_n(bit_shift, shift_tables - 2 + (10 - i)))
                 \o <<OP_TOALTSTACK>>))
(***************************************************************************)
(* The variants for the stack tracker library (u4_add_stack.rs,            *)
(* u4_logic_stack.rs, u4_shift_stack.rs), which finds the tables by itself: *)
(* they are operators on values, and a table is what its script leaves on  *)
(* the stack.                                                              *)
(***************************************************************************)
get_value_from_table(table, n) == table[Len(table) - n]
Contents(push) == Result(push, <<>>)

\* words: sequences of nibbles, most significant first.
RECURSIVE u4_add_internal_stack(_, _, _, _, _)
u4_add_internal_stack(words, i, carry, quotient_table, modulo_table) ==
  IF i = 0 THEN <<>>
  ELSE LET sum[k \in 0 .. Len(words)] == IF k = 0 THEN carry ELSE sum[k - 1] + words[k][i]
           total == sum[Len(words)]
           next == IF i = 1 THEN 0 ELSE get_value_from_table(quotient_table, total)
       IN  Append(u4_add_internal_stack(words, i - 1, next, quotient_table, modulo_table),
                  get_value_from_table(modulo_table, total))

u4_push_half_lookup_0_based ==
  Table(<<120, 119, 117, 114, 110, 105, 99, 92, 84, 75, 65, 54, 42, 29, 15, 0>>)
u4_logic_with_table_stack(x, y, lookup_table, logic_table) ==
  LET sorted == Result(u4_sort, <<x, y>>)
      p == IF Len(logic_table) > 136 THEN <<x, y>> ELSE sorted
  IN  get_value_from_table(logic_table, p[1] + get_value_from_table(lookup_table, p[2]))

u4_push_rshift_tables_stack ==
  Table(<<3, D1, D2, 2, D1, D2, 1, D1, D2, 0, D1, D2>>)
  \o ForRev(0, 16, LAMBDA i: <<Push(i), OP_DUP>>)
u4_push_shift_tables_stack == u4_push_lshift_tables \o u4_push_rshift_tables_stack
u4_rshift_stack(x, tables, n) ==
  IF n = 3 THEN Bool(x >= 8) ELSE get_value_from_table(tables, x + 32 * (n - 1))
u4_lshift_stack(x, tables, n) == get_value_from_table(tables, x + 16 * 3 + 16 * (n - 1))
u4_2_nib_shift_stack(x, y, tables, n) ==
  u4_lshift_stack(y, tables, 4 - n) + u4_rshift_stack(x, tables, n)
u4_and_with_xor_stack(x, y, lookup_table, logic_table, shift_table) ==
  u4_rshift_stack(x + y - u4_logic_with_table_stack(x, y, lookup_table, logic_table),
                  shift_table, 1)

u4_push_shift_for_blake == Table(<<14, 12, 10, 8, 6, 4, 2, 0, 14, 12, 10, 8, 6, 4, 2, 0>>)
u4_2_nib_shift_blake(x, y, tables) == Bool(y >= 8) + get_value_from_table(tables, x)
=============================================================================

------------------------------ MODULE Winternitz ------------------------------
(***************************************************************************)
(* signatures/: Winternitz one-time signatures and the scripts that check  *)
(* them.  A digest is an integer of Digests: the chain of digit i starts   *)
(* at secret_key_for_digit(i) and hashing adds one, so a party that holds  *)
(* one element of a chain can compute the later ones and no earlier one.   *)
(* A message is a sequence of bytes, a witness the sequence of stack       *)
(* elements, the top last.                                                 *)
(***************************************************************************)
EXTENDS U32

(***************************************************************************)
(* utils.rs                                                                *)
(***************************************************************************)
log_base_ceil(n, base) == CHOOSE r \in 0 .. 31 : base ^ r >= n /\ (r = 0 \/ base ^ (r - 1) < n)

checksum_to_digits(checksum, base, n_digits) ==
  [i \in 1 .. n_digits |-> (checksum \div base ^ (n_digits - i)) % base]

\* Bit k of the message, the first byte being the least significant.
MessageBit(message, k) ==
  IF k < 8 * Len(message) THEN BitAt(message[k \div 8 + 1], k % 8) ELSE 0
RECURSIVE BitsFrom(_, _, _)
BitsFrom(message, k, n) ==
  IF n = 0 THEN 0 ELSE MessageBit(message, k) + 2 * BitsFrom(message, k + 1, n - 1)
message_to_digits(n_digits, log2_base, message) ==
  [i \in 1 .. n_digits |-> BitsFrom(message, (n_digits - i) * log2_base, log2_base)]

digits_to_number(n_digits, log2_base) ==
  Repeat(n_digits - 1, <<OP_TOALTSTACK>>)
  \o Repeat(n_digits - 1, op_2k_mul(log2_base) \o <<OP_FROMALTSTACK, OP_ADD>>)

(***************************************************************************)
(* Parameters and keys.                                                    *)
(***************************************************************************)
Parameters(message_digit_len, log2_base) ==
  [message_digit_len |-> message_digit_len,
   log2_base |-> log2_base,
   checksum_digit_len |->
     log_base_ceil((2 ^ log2_base - 1) * message_digit_len + 1, 2 ^ log2_base)]
new_by_bit_length(message_n_bits, log2_base) ==
  Parameters((message_n_bits + log2_base - 1) \div log2_base, log2_base)
max_digit(ps) == 2 ^ ps.log2_base - 1
message_byte_len(ps) == (ps.message_digit_len * ps.log2_base + 7) \div 8
total_digit_len(ps) == ps.message_digit_len + ps.checksum_digit_len

secret_key_for_digit(secret_key, digit_index) == 1000000000 + secret_key + 1000 * digit_index
digit_signature(secret_key, digit_index, digit) ==
  secret_key_for_digit(secret_key, digit_index) + digit
public_key_for_digit(ps, secret_key, digit_index) ==
  digit_signature(secret_key, digit_index, max_digit(ps))
generate_public_key(ps, secret_key) ==
  [i \in 1 .. total_digit_len(ps) |-> public_key_for_digit(ps, secret_key, i - 1)]

RECURSIVE SumOf(_)
SumOf(s) == IF s = <<>> THEN 0 ELSE Head(s) + SumOf(Tail(s))
checksum(ps, message_digits) == max_digit(ps) * ps.message_digit_len - SumOf(message_digits)
add_message_checksum(ps, message_digits) ==
  message_digits \o checksum_to_digits(checksum(ps, message_digits), max_digit(ps) + 1,
                                       ps.checksum_digit_len)

(***************************************************************************)
(* Signing: the witness has each digit after its digest, or, in the        *)
(* compact form, the digests alone.                                        *)
(***************************************************************************)
SignedDigits(secret_key, digits) ==
  Flat([i \in 1 .. Len(digits) |-> <<digit_signature(secret_key, i - 1, digits[i]), digits[i]>>])
CompactDigits(secret_key, digits) ==
  [i \in 1 .. Len(digits) |-> digit_signature(secret_key, i - 1, digits[i])]
sign_digits(ps, secret_key, message_digits) ==
  SignedDigits(secret_key, add_message_checksum(ps, message_digits))
compact_sign_digits(ps, secret_key, message_digits) ==
  CompactDigits(secret_key, add_message_checksum(ps, message_digits))
sign(ps, secret_key, message) ==
  sign_digits(ps, secret_key, message_to_digits(ps.message_digit_len, ps.log2_base, message))

\* public.rs: a signature is the sequence of [digest, digit] pairs.
raw_witness_to_signature(witness) ==
  [i \in 1 .. Len(witness) \div 2 |-> [hash |-> witness[2 * i - 1], digit |-> witness[2 * i]]]
signature_to_raw_witness(signature) ==
  Flat([i \in 1 .. Len(signature) |-> <<signature[i].hash, signature[i].digit>>])
signature_to_compact_signature(signature) == [i \in DOMAIN signature |-> signature[i].hash]
signature_to_message(ps, signature) ==
  LET n == ps.message_digit_len
      digit(k) == signature[n - k].digit
  IN  [i \in 1 .. n \div 2 |-> 16 * digit(2 * i - 1) + digit(2 * i - 2)]

(***************************************************************************)
(* The verifiers, from the last digit to the first: the digits end up on   *)
(* the alt stack, the first on top.                                        *)
(***************************************************************************)
Size20 == <<OP_SIZE, Push(20), OP_EQUALVERIFY>>
EachDigit(ps, public_key, Script1(_)) ==
  For(0, total_digit_len(ps), LAMBDA i: Script1(public_key[total_digit_len(ps) - i]))

ListpickVerifier(ps, public_key) ==
  LET D == max_digit(ps)
      half == (D + 1) \div 2
  IN  EachDigit(ps, public_key, LAMBDA pk:
        <<OP_SWAP>> \o Size20
        \o <<OP_SWAP, Push(D), OP_MIN, OP_DUP, OP_TOALTSTACK, Push(half), OP_2DUP, OP_LESSTHAN,
             OP_IF(<<OP_DROP, OP_TOALTSTACK>> \o Repeat(half, <<OP_HASH160>>),
                   <<OP_SUB, OP_TOALTSTACK>>)>>
        \o Repeat(D \div 2, <<OP_DUP, OP_HASH160>>)
        \o <<OP_FROMALTSTACK, OP_PICK, Push(pk), OP_EQUALVERIFY>>
        \o Repeat((D + 1) \div 4, <<OP_2DROP>>))

BruteforceVerifier(ps, public_key) ==
  LET D == max_digit(ps)
      Found(digit) == <<OP_2DUP, OP_EQUAL, OP_IF(<<Push(digit), OP_TOALTSTACK>>, <<>>)>>
  IN  EachDigit(ps, public_key, LAMBDA pk:
        Size20 \o <<Push(pk), OP_SWAP, Push(-1), OP_TOALTSTACK>> \o Found(D)
        \o For(0, D, LAMBDA i: <<OP_HASH160>> \o Found(D - i - 1))
        \o <<OP_2DROP, OP_FROMALTSTACK, OP_DUP, Push(-1), OP_NUMNOTEQUAL, OP_VERIFY,
             OP_FROMALTSTACK, Push(-1), OP_EQUALVERIFY, OP_TOALTSTACK>>)

BinarysearchVerifier(ps, public_key) ==
  LET Halve(bit) ==
        IF bit = 0 THEN <<OP_IF(<<OP_HASH160>>, <<>>)>>
        ELSE <<Push(2 ^ bit), OP_2DUP, OP_GREATERTHANOREQUAL,
               OP_IF(<<OP_SUB, OP_SWAP>> \o Repeat(2 ^ bit, <<OP_HASH160>>)
                     \o <<OP_SWAP, OP_DUP>>, <<>>), OP_DROP>>
  IN  EachDigit(ps, public_key, LAMBDA pk:
        <<OP_SWAP>> \o Size20
        \o <<OP_SWAP, OP_DUP, OP_TOALTSTACK, Push(max_digit(ps)), OP_SWAP, OP_SUB>>
        \o ForRev(0, ps.log2_base, Halve) \o <<Push(pk), OP_EQUALVERIFY>>)

\* Mutant: the checksum is computed and not compared.
ChecksumIgnored(ps) ==
  <<OP_FROMALTSTACK>> \o Repeat(ps.message_digit_len - 1, <<OP_FROMALTSTACK>>)
  \o Repeat(ps.checksum_digit_len, <<OP_FROMALTSTACK, OP_DROP>>)
verify_checksum(ps) ==
  <<OP_FROMALTSTACK, OP_DUP, OP_NEGATE>>
  \o Repeat(ps.message_digit_len - 1, <<OP_FROMALTSTACK, OP_TUCK, OP_SUB>>)
  \o <<Push(max_digit(ps) * ps.message_digit_len), OP_ADD, OP_FROMALTSTACK>>
  \o Repeat(ps.checksum_digit_len - 1,
            op_2k_mul(ps.log2_base) \o <<OP_FROMALTSTACK, OP_ADD>>)
  \o <<OP_EQUALVERIFY>>

(***************************************************************************)
(* ToBytesConverter: for bases between a nibble and a byte a digit that    *)
(* crosses a byte boundary is split in two.                                *)
(***************************************************************************)
HalfBytes(ps) ==
  LET bytes == ps.message_digit_len \div 2
  IN  For(0, bytes, LAMBDA i:
            <<OP_SWAP>> \o op_2k_mul(ps.log2_base) \o <<OP_ADD>>
            \o When(i # bytes - 1, <<OP_TOALTSTACK>>))
      \o Repeat(bytes - 1, <<OP_FROMALTSTACK>>)

\* Mutant: the digit that ends a byte is split at the next border.
SplitOneLate(ps, i) == 8 - (((i + 1) * ps.log2_base) % 8)
Split(ps, i) == 8 - ((i * ps.log2_base) % 8)
Lens(ps) ==
  LET Parts(i) == IF Split(ps, i) >= ps.log2_base THEN <<ps.log2_base>>
                  ELSE <<Split(ps, i), ps.log2_base - Split(ps, i)>>
      lens == For(0, ps.message_digit_len, Parts)
  IN  [i \in 1 .. Len(lens) |-> lens[Len(lens) + 1 - i]]

\* The bits of the current byte that are filled before each part is added,
\* 8 when the byte is complete and the next one starts.
RECURSIVE LastBytes(_, _)
LastBytes(lens, filled) ==
  IF lens = <<>> THEN <<>>
  ELSE <<filled>> \o LastBytes(Tail(lens), (IF filled >= 8 THEN 0 ELSE filled) + Head(lens))

SplitDigit(ps, split) ==
  IF split >= ps.log2_base THEN <<OP_TOALTSTACK>>
  ELSE <<OP_0>>
       \o ForRev(split, ps.log2_base, LAMBDA j:
            When(j # ps.log2_base - 1, OP_2MUL)
            \o <<OP_SWAP, Push(2 ^ j), OP_2DUP, OP_GREATERTHANOREQUAL,
                 OP_IF(<<OP_SUB, OP_SWAP, OP_1ADD, OP_SWAP, OP_DUP>>, <<>>), OP_DROP, OP_SWAP>>)
       \o <<OP_SWAP, OP_TOALTSTACK, OP_TOALTSTACK>>

ToBytesConverter(ps) ==
  LET lens == Lens(ps)
      last_bytes == LastBytes(lens, (8 - ((ps.message_digit_len * ps.log2_base) % 8)) % 8)
      Join(i) == When(last_bytes[i] >= 8, <<OP_0>>)
                 \o When(i # 1 /\ last_bytes[i] < 8, op_2k_mul(lens[i]))
                 \o <<OP_FROMALTSTACK, OP_ADD>>
  IN  CASE ps.log2_base = 8 -> <<>>
        [] ps.log2_base = 4 -> HalfBytes(ps)
        [] OTHER -> For(0, ps.message_digit_len, LAMBDA i: SplitDigit(ps, Split(ps, i)))
                    \o <<OP_0>> \o For(1, Len(lens) + 1, Join)

\* The verification script of Winternitz<Verifier, Converter>.
checksig_verify(ps, verifier, converter) == verifier \o verify_checksum(ps) \o converter
checksig_verify_and_clear_stack(ps, verifier) ==
  verifier \o verify_checksum(ps) \o Repeat(ps.message_digit_len \div 2, <<OP_2DROP>>)
  \o When(ps.message_digit_len % 2 = 1, <<OP_DROP>>)

(***************************************************************************)
(* signing_winternitz.rs: what the bridge's scripts start with.            *)
(***************************************************************************)
generate_winternitz_checksig_leave_hash(ps, public_key, message_size) ==
  checksig_verify(ps, ListpickVerifier(ps, public_key), ToBytesConverter(ps))
  \o For(1, message_size, LAMBDA i: <<Push(i), OP_ROLL>>)
generate_winternitz_checksig_leave_variable(ps, public_key, message_size) ==
  LET u32s_size == message_size \div 4
  IN  checksig_verify(ps, ListpickVerifier(ps, public_key), ToBytesConverter(ps))
      \o Repeat(u32s_size, u32_compress \o <<OP_TOALTSTACK>>)
      \o Repeat(u32s_size, <<OP_FROMALTSTACK>>)
      \o For(1, u32s_size, LAMBDA i: <<Push(i), OP_ROLL>>)
winternitz_message_checksig(ps, public_key) ==
  checksig_verify(ps, ListpickVerifier(ps, public_key), <<>>)
winternitz_message_checksig_verify(ps, public_key, message_size) ==
  winternitz_message_checksig(ps, public_key) \o Repeat(message_size, <<OP_DROP>>)
=============================================================================

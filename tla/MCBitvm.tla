------------------------------- MODULE MCBitvm ------------------------------
(***************************************************************************)
(* The script algorithms of the bitvm crate for TLC.  A state is one case: *)
(* a suite and the inputs that its properties are evaluated on.  A first   *)
(* step chooses the suite and its first input, a second one the other      *)
(* input.  References are on the bits of a word, on integers, or are       *)
(* known answers.                                                          *)
(***************************************************************************)
EXTENDS Sha256

W == INSTANCE Winternitz
B3 == INSTANCE Blake3
\* Five bits in limbs of two (the head has one), eight in limbs of three,
\* 17 in limbs of six, and 36 bits for the conversions between limb sizes.
Int5 == INSTANCE BigInt WITH N_BITS <- 5, LIMB_SIZE <- 2
Int8 == INSTANCE BigInt WITH N_BITS <- 8, LIMB_SIZE <- 3
Int17 == INSTANCE BigInt WITH N_BITS <- 17, LIMB_SIZE <- 6
Int36 == INSTANCE BigInt WITH N_BITS <- 36, LIMB_SIZE <- 29

\* A field of the same family as the code's (BN with x = 5, the same
\* extensions), in two limbs whose head is shorter.
Prime == 27631
Bits(n, v) == [i \in 1 .. n |-> BitAt(v, i - 1)]
Limbs(v) == <<v \div 2048, v % 2048>>
F6 == INSTANCE Fq6 WITH
        N_BITS <- 16, LIMB_SIZE <- 11, PRIME <- Prime, MODULUS <- Bits(16, Prime),
        MODULUS_LIMBS <- <<Prime % 2048, Prime \div 2048>>,
        P_PLUS_ONE_DIV2 <- Bits(16, (Prime + 1) \div 2),
        TWO_P_PLUS_ONE_DIV3 <- Bits(16, (2 * Prime + 1) \div 3),
        P_PLUS_TWO_DIV3 <- Bits(16, (Prime + 2) \div 3)
\* Curves over it, and points of their groups of order Order.
Order == 27481
C1 == INSTANCE G1 WITH
        N_BITS <- 16, LIMB_SIZE <- 11, PRIME <- Prime, MODULUS <- Bits(16, Prime),
        MODULUS_LIMBS <- <<Prime % 2048, Prime \div 2048>>,
        P_PLUS_ONE_DIV2 <- Bits(16, (Prime + 1) \div 2),
        TWO_P_PLUS_ONE_DIV3 <- Bits(16, (2 * Prime + 1) \div 3),
        P_PLUS_TWO_DIV3 <- Bits(16, (Prime + 2) \div 3),
        COEFF_B <- 6, WINDOW_G1_MSM <- 4, BATCH_SIZE_PER_CHUNK <- 3
C2 == INSTANCE G2 WITH
        N_BITS <- 16, LIMB_SIZE <- 11, PRIME <- Prime, MODULUS <- Bits(16, Prime),
        MODULUS_LIMBS <- <<Prime % 2048, Prime \div 2048>>,
        P_PLUS_ONE_DIV2 <- Bits(16, (Prime + 1) \div 2),
        TWO_P_PLUS_ONE_DIV3 <- Bits(16, (2 * Prime + 1) \div 3),
        P_PLUS_TWO_DIV3 <- Bits(16, (Prime + 2) \div 3),
        TWIST_B <- <<54, 6>>, BETA_12 <- <<9413, 16480>>, BETA_13 <- <<16083, 21039>>,
        BETA_22 <- <<24884, 0>>, BETA_32 <- <<5105, 16649>>, BETA_33 <- <<11548, 6592>>
Point1 == <<6, 9010>>
Point2 == <<<<20143, 9789>>, <<19527, 7038>>>>
\* The multiplication alone with three limbs.
Prime19 == 523433
Mul19 == INSTANCE Tmul WITH
           N_BITS <- 19, LIMB_SIZE <- 9, MODULUS <- Bits(19, Prime19), WIDTH <- 4, N_LC <- 1
A == INSTANCE Ark WITH PRIME <- Prime, NONRESIDUE <- <<9, 1>>
\* The chunked verifier over the same curves.  Their twist is the other one,
\* so the tower of the pairing is built on the inverse of 9 + i.
G16 == INSTANCE Chunk WITH
         N_BITS <- 16, LIMB_SIZE <- 11, PRIME <- Prime, MODULUS <- Bits(16, Prime),
         MODULUS_LIMBS <- <<Prime % 2048, Prime \div 2048>>,
         P_PLUS_ONE_DIV2 <- Bits(16, (Prime + 1) \div 2),
         TWO_P_PLUS_ONE_DIV3 <- Bits(16, (2 * Prime + 1) \div 3),
         P_PLUS_TWO_DIV3 <- Bits(16, (Prime + 2) \div 3),
         COEFF_B <- 6, WINDOW_G1_MSM <- 4, BATCH_SIZE_PER_CHUNK <- 3,
         TWIST_B <- <<54, 6>>, BETA_12 <- <<9413, 16480>>, BETA_13 <- <<16083, 21039>>,
         BETA_22 <- <<24884, 0>>, BETA_32 <- <<5105, 16649>>, BETA_33 <- <<11548, 6592>>,
         NONRESIDUE <- <<1011, 9098>>, ORDER <- Order, ATE_LOOP_COUNT <- <<0, 0, 0, 0, 0, -1, 1>>,
         ROOT_EXPONENT <- <<1, 5, 0, 4, 3, 7, 1, 0, 12, 13, 12, 10, 15, 8, 6, 6, 11, 5, 13>>,
         vk <- [alpha_g1 |-> A!Multiple1(3, Point1), beta_g2 |-> A!Multiple2(5, Point2),
                gamma_g2 |-> A!Multiple2(7, Point2), delta_g2 |-> A!Multiple2(11, Point2),
                gamma_abc_g1 |-> <<A!Multiple1(13, Point1), A!Multiple1(17, Point1)>>]

\* The scripts of the hash functions under test, by the length of the message;
\* the digest that BLAKE3's leaves.  The configuration names them.
CONSTANTS Sha256Script(_), Sha256U4Script(_), Blake3Digest(_)
\* Runs of the field's scripts, by two inputs, as pairs of the stack that a
\* script leaves and the stack it should leave.
CONSTANTS FieldRuns(_, _), TowerRuns(_, _), SumRuns(_, _), ScalarRuns(_, _), LineRuns(_, _),
          ChunkRuns(_, _)

VARIABLE case

(***************************************************************************)
(* Words of 32 bits, as their two halves, and the reference operations.    *)
(***************************************************************************)
Words == {<<0, 0>>, <<65535, 65535>>, <<4660, 22136>>, <<33023, 33023>>, <<32768, 1>>}
BitOf(w, i) == IF i < 16 THEN BitAt(w[2], i) ELSE BitAt(w[1], i - 16)
WordOf(bit) ==
  LET half(s) == LET sum[k \in 0 .. 16] ==
                       IF k = 0 THEN 0 ELSE sum[k - 1] + bit[s + k - 1] * 2 ^ (k - 1)
                 IN  sum[16]
  IN  <<half(16), half(0)>>
RrotRef(w, n) == WordOf([i \in 0 .. 31 |-> BitOf(w, (i + n) % 32)])
ShrRef(w, n) == WordOf([i \in 0 .. 31 |-> IF i + n < 32 THEN BitOf(w, i + n) ELSE 0])
AndRef(v, w) == WordOf([i \in 0 .. 31 |-> BitOf(v, i) * BitOf(w, i)])
XorRef(v, w) == WordOf([i \in 0 .. 31 |-> (BitOf(v, i) + BitOf(w, i)) % 2])
AddRef(v, w) == LET low == v[2] + w[2]
                IN  <<(v[1] + w[1] + low \div 65536) % 65536, low % 65536>>
NibblesOf(w) ==
  [i \in 1 .. 8 |-> ((IF i <= 4 THEN w[1] ELSE w[2]) \div 16 ^ ((8 - i) % 4)) % 16]

Shifts == {1, 2, 3, 4, 6, 7, 10, 11, 13, 17, 18, 19, 22, 25, 31}
Junk == <<7, 8, 9>>

(***************************************************************************)
(* Known answers: the digests of the messages of Message.                  *)
(***************************************************************************)
Message(n) == [i \in 1 .. n |-> (7 * (i - 1) + 3) % 256]
Sha256Answers ==
  <<[len |-> 0, digest |-> <<227, 176, 196, 66, 152, 252, 28, 20, 154, 251, 244, 200, 153, 111,
      185, 36, 39, 174, 65, 228, 100, 155, 147, 76, 164, 149, 153, 27, 120, 82, 184, 85>>],
    [len |-> 3, digest |-> <<106, 176, 219, 161, 244, 241, 223, 187, 55, 180, 249, 238, 176,
      146, 192, 159, 202, 73, 0, 173, 50, 189, 205, 20, 125, 141, 222, 53, 214, 200, 124, 53>>],
    [len |-> 32, digest |-> <<171, 95, 139, 92, 185, 67, 83, 84, 199, 181, 134, 3, 89, 45, 95,
      175, 8, 30, 23, 206, 176, 95, 122, 124, 103, 244, 182, 102, 241, 44, 164, 87>>],
    [len |-> 55, digest |-> <<231, 49, 61, 51, 60, 39, 46, 99, 159, 121, 9, 120, 40, 63, 158,
      179, 146, 232, 67, 208, 242, 155, 112, 22, 130, 139, 177, 218, 164, 170, 199, 11>>],
    [len |-> 56, digest |-> <<67, 36, 214, 95, 60, 16, 53, 103, 245, 88, 156, 113, 11, 192, 143,
      133, 35, 249, 41, 169, 39, 46, 58, 243, 111, 201, 104, 229, 42, 188, 108, 39>>],
    [len |-> 80, digest |-> <<198, 179, 55, 125, 129, 194, 51, 18, 225, 26, 196, 163, 62, 158,
      135, 176, 14, 193, 203, 22, 123, 19, 201, 125, 105, 101, 123, 142, 56, 32, 167, 78>>]>>
Blake3Answers ==
  <<[len |-> 0, digest |-> <<175, 19, 73, 185, 245, 249, 161, 166, 160, 64, 77, 234, 54, 220,
      201, 73, 155, 203, 37, 201, 173, 193, 18, 183, 204, 154, 147, 202, 228, 31, 50, 98>>],
    [len |-> 1, digest |-> <<225, 224, 232, 29, 110, 163, 155, 12, 248, 184, 111, 253, 68, 9,
      33, 1, 31, 87, 64, 12, 188, 63, 118, 168, 161, 113, 144, 106, 155, 141, 117, 5>>],
    [len |-> 3, digest |-> <<224, 212, 180, 62, 46, 220, 187, 190, 164, 13, 166, 2, 157, 250,
      81, 185, 21, 48, 137, 52, 138, 207, 201, 4, 43, 61, 69, 238, 19, 208, 23, 170>>],
    [len |-> 4, digest |-> <<50, 193, 56, 195, 194, 236, 197, 216, 3, 202, 133, 230, 131, 31,
      71, 49, 130, 159, 244, 145, 157, 244, 227, 12, 14, 71, 156, 204, 81, 246, 135, 123>>],
    [len |-> 63, digest |-> <<162, 44, 6, 10, 211, 168, 240, 106, 137, 66, 206, 78, 215, 228,
      10, 31, 156, 78, 101, 215, 34, 206, 108, 242, 3, 24, 7, 218, 100, 34, 86, 77>>],
    [len |-> 64, digest |-> <<91, 226, 78, 73, 155, 133, 36, 37, 27, 60, 41, 162, 191, 100, 198,
      49, 31, 6, 209, 237, 69, 182, 219, 208, 252, 121, 105, 202, 29, 64, 168, 161>>],
    [len |-> 65, digest |-> <<203, 205, 137, 199, 222, 21, 115, 127, 184, 199, 154, 195, 144,
      113, 253, 244, 48, 223, 167, 203, 119, 29, 20, 12, 14, 83, 104, 32, 14, 180, 90, 97>>],
    [len |-> 130, digest |-> <<104, 54, 252, 179, 115, 247, 105, 175, 112, 58, 82, 234, 169,
      112, 85, 132, 132, 128, 132, 19, 169, 19, 56, 96, 192, 216, 40, 140, 146, 112, 153, 59>>]>>

(***************************************************************************)
(* The suites and their inputs.                                            *)
(***************************************************************************)
\* A conversion: from limbs of one size to another.
LimbSizes == {1, 4, 5, 8, 16, 29}
Values36 == <<[i \in 1 .. 36 |-> 0], [i \in 1 .. 36 |-> 1], [i \in 1 .. 36 |-> i % 2],
              [i \in 1 .. 36 |-> IF i % 5 = 3 \/ i > 34 THEN 1 ELSE 0]>>
\* Winternitz: digit values, what was signed, and message lengths per base.
SignedPairs == {<<0, 0>>, <<7, 9>>, <<3, 15>>, <<15, 15>>}
ClaimedDigits == {0, 3, 4, 7, 8, 9, 14, 15}
LogBases == 4 .. 8
\* Field elements; how a tower element is made of a seed.
Elements == {0, 1, 2, 2047, 2048, 13816, 27630}
Towers == {"fq2", "fq6", "fq12"}
\* Points as multiples of one (none at infinity, then opposite ones, and
\* equal ones), and scalars.
Multiples == {0, 1, 2, Order - 1}
Scalars == {0, 1, 15, 16, 17, 4096, 4097, Order - 1}
\* Proofs by the multiples of the points they are made of, and the public
\* input k: the equation is a b = 3 * 5 + (13 + 17 k) 7 + 11 c.  For b = 0 the
\* point is one outside the group of that order.
Proofs ==
  <<[a |-> 3, b |-> 241, c |-> 2, k |-> 5], [a |-> 1, b |-> Order - 2, c |-> 1, k |-> Order - 1],
    [a |-> 3, b |-> 240, c |-> 2, k |-> 5], [a |-> 3, b |-> 241, c |-> 2, k |-> 6],
    [a |-> 0, b |-> 241, c |-> 24919, k |-> 5], [a |-> 701, b |-> 1, c |-> 0, k |-> 5],
    [a |-> 701, b |-> 0, c |-> 1, k |-> 5],
    [a |-> 3, b |-> 241, c |-> 2, k |-> 16], [a |-> 3, b |-> 241, c |-> 2, k |-> 14548]>>
Texts == <<<<165>>, <<255, 1>>, <<0, 128, 7>>, <<18, 52, 86, 200>>>>

FirstInputs ==
  [u4 |-> Words, u32 |-> Words, bigint |-> 0 .. 31, division |-> 0 .. 15,
   limbs |-> LimbSizes \X LimbSizes, sha256 |-> DOMAIN Sha256Answers,
   blake3 |-> DOMAIN Blake3Answers, digit |-> 0 .. 17, forgery |-> SignedPairs,
   message |-> LogBases, field |-> Elements, tower |-> Towers, sum |-> Multiples,
   scalar |-> Scalars, line |-> 1 .. 2,
   chunk |-> {"proof", "larger input", "other input", "unknown", "other result"}]
SecondInputs ==
  [u4 |-> Words, u32 |-> Words, bigint |-> 0 .. 31, division |-> 0 .. 15,
   limbs |-> DOMAIN Values36, sha256 |-> {"bytes", "nibbles"},
   blake3 |-> {"digest"}, digit |-> -2 .. 18, forgery |-> ClaimedDigits \X ClaimedDigits,
   message |-> DOMAIN Texts, field |-> Elements, tower |-> 1 .. 2, sum |-> Multiples,
   scalar |-> {1, 300}, line |-> {3, Order - 3}, chunk |-> 1 .. 64]

Init == case = [suite |-> "none", ready |-> FALSE]
Choose(suite) ==
  /\ case.suite = "none"
  /\ \E x \in FirstInputs[suite] : case' = [suite |-> suite, ready |-> FALSE, x |-> x]
Complete(suite) ==
  /\ case.suite = suite /\ ~case.ready
  /\ \E y \in SecondInputs[suite] :
       case' = [suite |-> suite, ready |-> TRUE, x |-> case.x, y |-> y]
Next == \E suite \in DOMAIN FirstInputs : Choose(suite) \/ Complete(suite)
Spec == Init /\ [][Next]_case

Ready(suite) == case.suite = suite /\ case.ready

(***************************************************************************)
(* Words                                                                   *)
(***************************************************************************)
HalfAnd == Contents(u4_push_half_and_table \o u4_push_half_lookup)
HalfXor == Contents(u4_push_half_xor_table \o u4_push_half_lookup)
AddTables == Contents(u4_push_add_tables)
ShiftTables == Contents(u4_push_2_nib_rshift_tables)
\* The nibbles a script leaves on the alt stack, above the stack it was given.
ToWord(script, stack) ==
  LET s == Result(script \o u4_fromaltstack(8), stack) IN SubSeq(s, Len(s) - 7, Len(s))

(* The nibble scripts of u4/ add, combine, rotate and shift words exactly:  *)
(* every table is found at the depth the offset arithmetic computes, with   *)
(* and without the addition tables, and with the half tables that are only  *)
(* right for sorted operands.                                               *)
U4Exact ==
  Ready("u4") =>
    LET v == NibblesOf(case.x)
        w == NibblesOf(case.y)
        sum == NibblesOf(AddRef(case.x, case.y))
        three == NibblesOf(AddRef(AddRef(case.x, case.y), case.x))
    IN  /\ ToWord(u4_add(8, <<0, 8>>, 16, TRUE), AddTables \o v \o w) = sum
        /\ ToWord(u4_add(8, <<8, 0>>, 0, FALSE), v \o w) = sum
        /\ ToWord(u4_add(8, <<0, 8, 16>>, 24, TRUE), AddTables \o v \o w \o v) = three
        /\ ToWord(u4_add(8, <<0, 8, 16>>, 0, FALSE), v \o w \o v) = three
        /\ ToWord(u4_logic_nibs(8, <<0, 8>>, 16, FALSE), HalfAnd \o v \o w)
             = NibblesOf(AndRef(case.x, case.y))
        /\ ToWord(u4_logic_nibs(8, <<0, 8>>, 16, TRUE), HalfAnd \o v \o w)
             = NibblesOf(XorRef(case.x, case.y))
        /\ ToWord(u4_logic_nibs(8, <<0, 8, 16>>, 24, FALSE), HalfXor \o v \o w \o v)
             = NibblesOf(case.y)
        /\ \A n \in Shifts :
             /\ ToWord(u4_rrot(n, 0, 8, FALSE), ShiftTables \o v) = NibblesOf(RrotRef(case.x, n))
             /\ ToWord(u4_rrot(n, 8, 16, TRUE), ShiftTables \o v \o w) = NibblesOf(ShrRef(case.x, n))

XorTable8 == Contents(u8_push_xor_table)
Signed32(w) == IF w[1] >= 32768 THEN (w[1] - 32768) * 65536 + w[2] - 2147483647 - 1
               ELSE w[1] * 65536 + w[2]

(* The byte scripts of u32/ add, combine, rotate, shift and compare words   *)
(* exactly and leave what lies below untouched; compressing a word into one *)
(* script number and back is the identity, the word 0x80000000, whose       *)
(* number does not fit in four bytes, included.                             *)
U32Exact ==
  Ready("u32") =>
    LET v == BytesOf(case.x)
        w == BytesOf(case.y)
        sum == BytesOf(AddRef(case.x, case.y))
    IN  /\ Result(u32_add(0, 1), Junk \o v \o w) = Junk \o w \o sum
        /\ Result(u32_add(1, 0), Junk \o v \o w) = Junk \o v \o sum
        /\ Result(u32_add_drop(0, 1), Junk \o v \o w) = Junk \o sum
        /\ Result(u32_and(0, 1, 3), XorTable8 \o v \o w)
             = XorTable8 \o w \o BytesOf(AndRef(case.x, case.y))
        /\ Result(u32_xor(0, 1, 3), XorTable8 \o v \o w)
             = XorTable8 \o w \o BytesOf(XorRef(case.x, case.y))
        /\ Result(u32_equal, Junk \o v \o w) = Append(Junk, Bool(case.x = case.y))
        /\ Result(u32_equalverify, Junk \o v \o w) = (IF case.x = case.y THEN Junk ELSE <<>>)
        /\ Result(u32_compress, v) = <<Signed32(case.x)>>
        /\ Result(u32_compress \o u32_uncompress, v) = v
        /\ \A n \in Shifts \cup {0, 8, 16, 23, 24} :
             Result(u32_rrot(n), Junk \o v) = Junk \o BytesOf(RrotRef(case.x, n))

(***************************************************************************)
(* Hash functions                                                          *)
(***************************************************************************)
Reversed(s) == [i \in 1 .. Len(s) |-> s[Len(s) + 1 - i]]
NibblesOfBytes(bytes) ==
  [i \in 1 .. 2 * Len(bytes) |->
     IF i % 2 = 1 THEN bytes[(i + 1) \div 2] \div 16 ELSE bytes[i \div 2] % 16]

(* Both SHA-256 scripts leave the digest of the message and nothing else:   *)
(* with the schedules specialised for 32 and 80 bytes, with padding that    *)
(* does and does not need a block of its own, and with the addition tables  *)
(* that only fit beside a single block.                                     *)
Sha256Exact ==
  Ready("sha256") =>
    LET answer == Sha256Answers[case.x]
        message == Message(answer.len)
    IN  /\ case.y = "bytes" /\ answer.len \in {3, 32, 80} =>
             Result(Sha256Script(answer.len), Reversed(message)) = Reversed(answer.digest)
        /\ case.y = "nibbles" /\ answer.len \in {3, 55, 56} =>
             Result(Sha256U4Script(answer.len), NibblesOfBytes(message))
               = NibblesOfBytes(answer.digest)

Blake3Of(len) ==
  LET packed == Result(B3!blake3_push_message_script_with_limb(Message(len), 29), <<>>)
  IN  B3!blake3(packed, len, len % 2 = 0, 29)

(* The BLAKE3 script leaves the digest of every message of one chunk, from  *)
(* the empty one to several blocks, full or partly padded, with the full    *)
(* and with the half XOR tables; the output script accepts that digest.     *)
Blake3Exact ==
  Ready("blake3") =>
    LET answer == Blake3Answers[case.x]
        hash == Blake3Digest(answer.len)
    IN  /\ hash = NibblesOfBytes(answer.digest)
        /\ Result(B3!blake3_verify_output_script(answer.digest), hash) = <<1>>

(***************************************************************************)
(* Big integers                                                            *)
(***************************************************************************)
FromAlt5 == Repeat(5, <<OP_FROMALTSTACK>>)
Limbs5(v) == <<(v % 32) \div 16, (v % 16) \div 4, v % 4>>
Signed5(v) == IF v >= 16 THEN v - 32 ELSE v
LimbsOf(n, size, v) == Reversed(Int5!biguint_to_limbs(Bits(n, v), size))

(* Addition, subtraction, negation, doubling, multiplication, comparison    *)
(* and conversion to bits agree with integers modulo 2^N_BITS whichever     *)
(* operand is deeper and whatever lies below or between, although the head  *)
(* limb is shorter than the others; division by two and by three gives      *)
(* quotient and remainder.                                                  *)
BigIntExact ==
  /\ Ready("bigint") =>
       LET x == case.x
           y == case.y
           X == Limbs5(x)
           Y == Limbs5(y)
       IN  /\ Result(Int5!add(0, 1), Junk \o Y \o X) = Junk \o Limbs5(x + y)
           /\ Result(Int5!add(2, 0), Y \o Junk \o X) = Junk \o Limbs5(x + y)
           /\ Result(Int5!sub(2, 0), Y \o Junk \o X) = Junk \o Limbs5(32 + y - x)
           /\ Result(Int5!sub(0, 1), Junk \o Y \o X) = Junk \o Limbs5(32 + x - y)
           /\ Result(Int5!mul, Junk \o Y \o X) = Junk \o Limbs5(x * y)
           /\ Result(Int5!lessthan(1, 0), Y \o X) = <<Bool(y < x)>>
           /\ Result(Int5!lessthanorequal(1, 0), Y \o X) = <<Bool(y <= x)>>
           /\ Result(Int5!greaterthan(1, 0), Y \o X) = <<Bool(y > x)>>
           /\ Result(Int5!equal(0, 1), Junk \o Y \o X) = Append(Junk, Bool(x = y))
           /\ Result(Int5!equal_keep_elements(0, 1), Y \o X) = Y \o X \o <<Bool(x = y)>>
           /\ y = 0 => /\ Result(Int5!double(0), Junk \o X) = Junk \o Limbs5(2 * x)
                       /\ Result(Int5!double_allow_overflow, Junk \o X) = Junk \o Limbs5(2 * x)
                       /\ Result(Int5!neg, Junk \o X) = Junk \o Limbs5(32 - x)
                       /\ Result(Int5!add1, Junk \o X) = Junk \o Limbs5(x + 1)
                       /\ Result(Int5!is_zero(1), X \o Junk) = Append(Junk, Bool(x = 0))
                       /\ Result(Int5!is_one(1), X \o Junk) = Append(Junk, Bool(x = 1))
                       /\ Result(Int5!is_negative(1), X \o Junk) = X \o Junk \o <<Bool(x >= 16)>>
                       /\ Result(Int5!is_positive(1), X \o Junk)
                            = X \o Junk \o <<Bool(x \in 1 .. 15)>>
                       /\ Result(Int5!convert_to_be_bits, X) = Bits(5, x)
                       /\ Result(Int5!convert_to_le_bits, X) = Reversed(Bits(5, x))
                       /\ Result(Int5!convert_to_be_bits_toaltstack \o FromAlt5, X) = Bits(5, x)
                       /\ Result(Int5!convert_to_le_bits_toaltstack \o FromAlt5, X)
                            = Reversed(Bits(5, x))
  /\ Ready("division") =>
       LET small == 16 * case.x + case.y
           large == 8191 * case.x + 511 * case.y
       IN  /\ Result(Int8!div2rem, LimbsOf(8, 3, small))
                = LimbsOf(8, 3, small \div 2) \o <<small % 2>>
           /\ Result(Int17!div3rem, LimbsOf(17, 6, large))
                = LimbsOf(17, 6, large \div 3) \o <<large % 3>>

(* The scripts that must not overflow fail exactly when the result does not *)
(* fit the signed range, and are exact otherwise, for operands of either    *)
(* sign and at any depth; a limb out of range is always rejected.           *)
OverflowCaught ==
  Ready("bigint") =>
    LET x == case.x
        y == case.y
        X == Limbs5(x)
        Y == Limbs5(y)
        Kept(v, below) == IF v \in -16 .. 15 THEN below \o Limbs5(v + 32) ELSE <<>>
        sum == Signed5(x) + Signed5(y)
        Valid(limbs) == limbs[1] \in 0 .. 1 /\ limbs[2] \in 0 .. 3 /\ limbs[3] \in 0 .. 3
        odd == <<(x % 4) - 1, (y % 6) - 1, ((x \div 4) % 6) - 1>>
    IN  /\ Result(Int5!add_ref(2), Y \o Junk \o X) = Kept(sum, Y \o Junk)
        /\ Result(Int5!add_ref_with_top(2), Y \o Junk \o X) = Kept(sum, Y \o Junk \o X)
        /\ Result(Int5!add_ref_stack, Y \o Junk \o X \o <<2>>) = Kept(sum, Y \o Junk)
        /\ y = 0 => /\ Result(Int5!double_prevent_overflow, Junk \o X) = Kept(2 * Signed5(x), Junk)
                    /\ Result(Int5!double_prevent_overflow_keep_element(1), X \o Junk)
                         = Kept(2 * Signed5(x), X \o Junk)
        /\ y \in 1 .. 2 => Result(Int5!lshift_prevent_overflow(y), Junk \o X)
                             = Kept(2 ^ y * Signed5(x), Junk)
        /\ Result(Int5!check_validity, Junk \o odd) = (IF Valid(odd) THEN Junk ELSE <<>>)
        /\ Result(Int5!is_valid_bigint_with_limb_size(2), odd) = odd \o <<Bool(Valid(odd))>>

(* Cutting an integer into limbs of another size gives the limbs of the     *)
(* same number for every pair of sizes, also when one limb feeds several,   *)
(* several feed one, or their borders never meet.                           *)
LimbsConvert ==
  Ready("limbs") =>
    LET limbs(size) == Reversed(Int36!biguint_to_limbs(Values36[case.y], size))
    IN  Result(Int36!transform_limbsize(case.x[1], case.x[2]), limbs(case.x[1])) = limbs(case.x[2])

(***************************************************************************)
(* Winternitz signatures                                                   *)
(***************************************************************************)
OneDigit == [message_digit_len |-> 1, log2_base |-> 4, checksum_digit_len |-> 0]
Nibbles2 == W!Parameters(2, 4)
SecretKey == 5
Element(i, exponent) == W!digit_signature(SecretKey, i, exponent)
Accepts(verifier, witness) == Run(verifier, On(witness)).ok

(* Who holds a signature can only hash its digests onward: with those no    *)
(* verifier takes another digit for the signed one (a claim above the base  *)
(* included), and no other message passes, because raising a digit lowers   *)
(* the checksum.  A key that signs once therefore commits to one message.   *)
OneMessagePerKey ==
  /\ Ready("digit") =>
       LET pk == W!generate_public_key(OneDigit, SecretKey)
           honest == case.x = case.y /\ case.x <= 15
           element == Element(0, case.x)
       IN  /\ Accepts(W!ListpickVerifier(OneDigit, pk), <<element, case.y>>)
                <=> (honest \/ (case.x = 15 /\ case.y > 15))
           /\ Accepts(W!BinarysearchVerifier(OneDigit, pk), <<element, case.y>>) <=> honest
           /\ Accepts(W!BruteforceVerifier(OneDigit, pk), <<element>>) <=> case.x <= 15
  /\ Ready("forgery") =>
       LET pk == W!generate_public_key(Nibbles2, SecretKey)
           signed == W!add_message_checksum(Nibbles2, case.x)
           script == W!checksig_verify(Nibbles2, W!ListpickVerifier(Nibbles2, pk), <<>>)
       IN  \A high \in {0, 1, 2}, low \in {0, 1, 14, 15, signed[4]} :
             LET claimed == case.y \o <<high, low>>
             IN  (\A i \in 1 .. 4 : claimed[i] >= signed[i]) =>
                   (Accepts(script, W!SignedDigits(SecretKey, claimed)) <=> claimed = signed)

(* Checking a signature of a message leaves that message on the stack, for  *)
(* every base (digits that cross byte borders included), every verifier and *)
(* every way the bridge's scripts ask for it; the signature read back from  *)
(* a witness names the same message.                                        *)
MessageReturned ==
  Ready("message") =>
    LET text == Texts[case.y]
        n == Len(text)
        ps == W!new_by_bit_length(8 * n, case.x)
        pk == W!generate_public_key(ps, SecretKey)
        witness == W!sign(ps, SecretKey, text)
        compact == W!compact_sign_digits(ps, SecretKey,
                                         W!message_to_digits(ps.message_digit_len, ps.log2_base, text))
        bytes == [i \in 1 .. W!message_byte_len(ps) - n |-> 0] \o Reversed(text)
        signature == W!raw_witness_to_signature(witness)
        words == [i \in 1 .. n \div 4 |->
                    Signed32(<<256 * text[4 * i] + text[4 * i - 1],
                               256 * text[4 * i - 2] + text[4 * i - 3]>>)]
        Check(verifier) == W!checksig_verify(ps, verifier, W!ToBytesConverter(ps))
    IN  /\ Result(Check(W!ListpickVerifier(ps, pk)), Junk \o witness) = Junk \o bytes
        /\ Result(Check(W!BinarysearchVerifier(ps, pk)), Junk \o witness) = Junk \o bytes
        /\ Result(Check(W!BruteforceVerifier(ps, pk)), Junk \o compact) = Junk \o bytes
        /\ Result(W!checksig_verify_and_clear_stack(ps, W!ListpickVerifier(ps, pk)),
                  Junk \o witness) = Junk
        /\ W!signature_to_raw_witness(signature) = witness
        /\ W!signature_to_compact_signature(signature) = compact
        /\ case.x = 4 =>
             /\ W!signature_to_message(ps, signature) = text
             /\ Result(W!generate_winternitz_checksig_leave_hash(ps, pk, n), Junk \o witness)
                  = Junk \o text
             /\ Result(W!winternitz_message_checksig_verify(ps, pk, 2 * n), Junk \o witness) = Junk
             /\ n = 4 => Result(W!generate_winternitz_checksig_leave_variable(ps, pk, n),
                                Junk \o witness) = Junk \o words

(***************************************************************************)
(* The prime field and its extensions                                      *)
(***************************************************************************)
Stack(elements) == Flat([i \in 1 .. Len(elements) |-> Limbs(elements[i])])
Pair(got, want) == [got |-> got, want |-> want]
\* A hinted script on its operands, with the hints given or with its own.
Hinting(h, hints, operands) == Result(h.script, Stack(hints) \o Stack(operands))
Hinted(h, operands, want) == Pair(Hinting(h, h.hints, operands), Stack(want))
Rejected(got) == Pair(got, <<>>)
AsExpected(runs) == \A i \in DOMAIN runs : runs[i].got = runs[i].want

Limbs19(v) == <<v \div 262144, (v \div 512) % 512, v % 512>>
FieldRunsOf(x, y) ==
  LET X == Limbs(x)
      Y == Limbs(y)
      product == (x * y) % Prime
      squares == (x * y + y * y) % Prime
      four == (2 * product + ((y * y) % Prime) + ((x * x) % Prime)) % Prime
      mul == F6!Fq!hinted_mul(1, x, 0, y)
      q == mul.hints[1]
  IN  <<Pair(Result(F6!Fq!add(2, 0), X \o Limbs(5) \o Y), Limbs(5) \o Limbs((x + y) % Prime)),
        Pair(Result(F6!Fq!sub(1, 0), Junk \o X \o Y), Junk \o Limbs((Prime + x - y) % Prime)),
        Pair(Result(F6!Fq!sub(0, 2), Y \o Limbs(5) \o X), Limbs(5) \o Limbs((Prime + x - y) % Prime)),
        Pair(Result(F6!Fq!neg(1), X \o Y), Y \o Limbs((Prime - x) % Prime)),
        Pair(Result(F6!Fq!double(1), X \o Y), Y \o Limbs((2 * x) % Prime)),
        Pair(Result(F6!Fq!div2 \o F6!Fq!double(0), Junk \o X), Junk \o X),
        Pair(Result(F6!Fq!div3 \o F6!Fq!copy(0) \o F6!Fq!double(0) \o F6!Fq!add(1, 0), Junk \o X),
             Junk \o X),
        Pair(Result(F6!Fq!is_one_keep_element(1), X \o Y), X \o Y \o <<Bool(x = 1)>>),
        Pair(Result(F6!Fq!check_validity_and_keep_element, X), X),
        Pair(Result(F6!Fq!is_valid, X), <<1>>),
        Pair(Result(F6!Fq!is_valid, Limbs(Prime + x)), <<0>>),
        Pair(Result(F6!Fq!is_valid, <<x % 2048, (y % 2048) - 2048>>), <<0>>),
        Rejected(Result(F6!Fq!check_validity, Limbs(Prime + x))),
        Rejected(Result(F6!Fq!check_validity, <<0, 2048 + y>>)),
        Hinted(mul, <<x, y>>, <<product>>),
        Rejected(Hinting(mul, <<q + 1>>, <<x, y>>)),
        Rejected(Hinting(mul, <<(q + Prime - 1) % Prime>>, <<x, y>>)),
        Rejected(Hinting(mul, <<q>>, <<x + Prime, y>>)),
        Rejected(Hinting(mul, <<q>>, <<x, Prime>>)),
        Hinted(F6!Fq!hinted_mul_by_constant(x, y), <<x>>, <<product>>),
        Hinted(F6!Fq!hinted_mul_keep_element(2, x, 0, y), <<x, 5, y>>, <<x, 5, y, product>>),
        Hinted(F6!Fq!hinted_mul_lc2(<<3, 2, 1, 0>>, <<x, y, y, y>>), <<x, y, y, y>>, <<squares>>),
        Hinted(F6!Fq!hinted_mul_lc2_w4(<<3, 2, 1, 0>>, <<x, y, y, y>>), <<x, y, y, y>>, <<squares>>),
        Hinted(F6!Fq!hinted_mul_lc2_keep_elements(<<5, 3, 2, 1>>, <<x, y, y, y>>),
               <<x, 5, y, y, y, 7>>, <<x, 5, y, y, y, 7, squares>>),
        Hinted(F6!Fq!hinted_mul_lc2_keep_elements_w4(<<3, 2, 1, 0>>, <<x, y, y, y>>),
               <<x, y, y, y>>, <<x, y, y, y, squares>>),
        Hinted(F6!Fq!hinted_mul_lc4(<<7, 6, 5, 4, 3, 2, 1, 0>>,
                                    <<x, y, y, x, y, x, y, x>>), <<x, y, y, x, y, x, y, x>>, <<four>>),
        Hinted(F6!Fq!hinted_square(y), <<y>>, <<(y * y) % Prime>>)>>
      \o When(x # 0 /\ y < 2,
              <<Hinted(F6!Fq!hinted_inv(x), <<x>>, <<A!Inv1(x)>>),
                Rejected(Hinting(F6!Fq!hinted_inv(x), <<y, (x * y) \div Prime>>,
                                 <<IF x * y = 1 THEN 2 ELSE x>>)),
                \* (16 x) (p - 1) = (16 x - 1) p + (p - 16 x)
                Pair(Result(Mul19!tmul, Limbs19(16 * x - 1) \o Limbs19(16 * x) \o Limbs19(Prime19 - 1)),
                     Limbs19(Prime19 - 16 * x))>>)

E2(s) == <<(s * 9973) % Prime, Prime - s>>
E6(s) == <<E2(s), IF s = 1 THEN <<0, Prime - 1>> ELSE E2(s + 1), <<(s * 12345) % Prime, s - 1>>>>
E12(s) == <<E6(s), E6(s + 3)>>
C6(x) == x[1] \o x[2] \o x[3]
C12(x) == C6(x[1]) \o C6(x[2])
TowerRunsOf(field, s) ==
  LET a == E2(s)
      b == E2(s + 5)
      x == E6(s)
      y == E6(s + 1)
      z == E12(s)
      c3 == E2(s + 7)
      line == <<A!One6, <<c3, b, A!Zero2>>>>
      \* x^p, computed as a power
      Pow6(base, n) == LET pow[k \in Nat] == IF k = 0 THEN A!One6
                             ELSE LET h == pow[k \div 2]
                                      h2 == A!Mul6(h, h)
                                  IN  IF k % 2 = 1 THEN A!Mul6(h2, base) ELSE h2
                       IN  pow[n]
      Pow12(base, n) == LET pow[k \in Nat] ==
                              IF k = 0 THEN <<A!One6, A!Zero6>>
                              ELSE LET h == pow[k \div 2]
                                       h2 == A!Mul12(h, h)
                                   IN  IF k % 2 = 1 THEN A!Mul12(h2, base) ELSE h2
                        IN  pow[n]
  IN CASE field = "fq2" ->
       <<Pair(Result(F6!Fq2!add(3, 0), Stack(a \o <<7>> \o b)), Stack(<<7>> \o A!Add2(a, b))),
         Pair(Result(F6!Fq2!sub(2, 0), Stack(a \o b)), Stack(A!Sub2(a, b))),
         Pair(Result(F6!Fq2!sub(0, 3), Stack(a \o <<7>> \o b)), Stack(<<7>> \o A!Sub2(b, a))),
         Pair(Result(F6!Fq2!triple(1), Stack(a \o <<7>>)), Stack(<<7>> \o A!Scale2(3, a))),
         Pair(Result(F6!Fq2!div2 \o F6!Fq2!double(0), Stack(a)), Stack(a)),
         Pair(Result(F6!Fq2!div3 \o F6!Fq2!triple(0), Stack(a)), Stack(a)),
         Pair(Result(F6!Fq2!neg(0), Stack(a)), Stack(A!Neg2(a))),
         Pair(Result(F6!Fq2!copy(2) \o F6!Fq2!equal, Stack(a \o b)), Stack(a) \o <<0>>),
         Pair(Result(F6!Fq2!check_validity_and_keep_element, Stack(a)), Stack(a)),
         Rejected(Result(F6!Fq2!check_validity, Stack(<<Prime + s, 1>>))),
         Hinted(F6!Fq2!hinted_mul(2, a, 0, b), a \o b, A!Mul2(a, b)),
         Hinted(F6!Fq2!hinted_mul_w4(0, b, 3, a), a \o <<7>> \o b, <<7>> \o A!Mul2(a, b)),
         Hinted(F6!Fq2!hinted_mul_by_constant(a, b), a, A!Mul2(a, b)),
         Hinted(F6!Fq2!hinted_mul_lc4_keep_elements(a, b, b, c3), a \o b \o b \o c3,
                a \o b \o b \o c3 \o A!Add2(A!Mul2(a, b), A!Mul2(b, c3))),
         Hinted(F6!Fq2!hinted_square(a), a, A!Mul2(a, a)),
         Hinted(F6!Fq2!hinted_frobenius_map(s, a), a, A!Pow2(a, (Prime ^ s) % (Prime * Prime - 1)))>>
       [] field = "fq6" ->
       <<Pair(Result(F6!add(7, 0), Stack(C6(x) \o <<7>> \o C6(y))), Stack(<<7>> \o C6(A!Add6(x, y)))),
         Pair(Result(F6!sub(6, 0), Stack(C6(x) \o C6(y))), Stack(C6(A!Sub6(x, y)))),
         Pair(Result(F6!sub(0, 6), Stack(C6(x) \o C6(y))), Stack(C6(A!Sub6(y, x)))),
         Pair(Result(F6!mul_fq2_by_nonresidue, Stack(a)), Stack(A!Xi(a))),
         Pair(Result(F6!mul_fq6_by_nonresidue, Stack(C6(x))), Stack(C6(A!TimesV(x)))),
         Pair(Result(F6!copy(6) \o F6!equalverify, Stack(C6(x) \o C6(x))), Stack(C6(x))),
         Hinted(F6!hinted_mul(6, x, 0, y), C6(x) \o C6(y), C6(A!Mul6(x, y))),
         Hinted(F6!hinted_mul_keep_elements(6, x, 0, y), C6(x) \o C6(y),
                C6(x) \o C6(y) \o C6(A!Mul6(x, y))),
         Hinted(F6!hinted_square(x), C6(x), C6(A!Mul6(x, x))),
         Hinted(F6!hinted_mul_by_01(x, c3, b), C6(x) \o c3 \o b,
                C6(A!Mul6(x, <<c3, b, A!Zero2>>))),
         Hinted(F6!hinted_mul_by_fp2_constant(x, b), C6(x), C6(A!Mul6(x, <<b, A!Zero2, A!Zero2>>))),
         Hinted(F6!hinted_frobenius_map(s, x), C6(x),
                C6(IF s = 1 THEN Pow6(x, Prime) ELSE Pow6(Pow6(x, Prime), Prime)))>>
       [] OTHER ->
       <<Hinted(F6!hinted_mul12(12, z, 0, <<y, x>>), C12(z) \o C12(<<y, x>>),
                C12(A!Mul12(z, <<y, x>>))),
         Hinted(F6!hinted_square12(z), C12(z), C12(A!Mul12(z, z))),
         Hinted(F6!hinted_mul_by_34(z, c3, b), C12(z) \o c3 \o b, C12(A!Mul12(z, line))),
         Hinted(F6!hinted_frobenius_map12(s, z), C12(z),
                C12(IF s = 1 THEN Pow12(z, Prime) ELSE Pow12(Pow12(z, Prime), Prime)))>>

(* The scripts of the prime field agree with arithmetic modulo the prime,   *)
(* at zero, at the prime less one and where a limb carries: sums and        *)
(* differences that wrap, halves and thirds, and the products by windows.   *)
(* The quotient that the witness supplies cannot change a product: another  *)
(* one makes the script fail, and so does an operand not below the prime.   *)
(* In the extensions of degree 2, 6 and 12 the products with few            *)
(* multiplications (linear combinations, Toom-Cook, sparse factors) are the *)
(* products of polynomials, at any depth, and the Frobenius maps are the    *)
(* powers of the prime.                                                     *)
FieldExact ==
  /\ Ready("field") => AsExpected(FieldRuns(case.x, case.y))
  /\ Ready("tower") => AsExpected(TowerRuns(case.x, case.y))

(***************************************************************************)
(* The curves                                                              *)
(***************************************************************************)
Truth(h, operands, want) == Pair(Hinting(h, h.hints, operands), <<Bool(want)>>)
SumRunsOf(j, k) ==
  LET t == A!Multiple1(j, Point1)
      q == A!Multiple1(k, Point1)
      sum == A!AddPoint1(t, q)
      chord == A!Slope1(t, q)
      tangent == A!Slope1(t, t)
      Line(alpha) == <<alpha, C1!NegBias(t, alpha)>>
      finite == j # 0 /\ k # 0
  IN  <<Hinted(C1!hinted_check_add(t, q), t \o q, sum),
        Hinted(C1!hinted_check_double(t), t, A!AddPoint1(t, t)),
        Pair(Result(C1!is_zero_keep_element, Stack(t)), Stack(t) \o <<Bool(j = 0)>>)>>
      \o When(C1!NotDegenerate(t, q),
              <<Hinted(C1!hinted_check_add_prevent_degenerate(t, q), t \o q, sum)>>)
      \* A line through t with another slope
      \o When(finite /\ t # q /\ t # A!NegPoint1(q),
              <<Truth(C1!hinted_check_chord_line(t, q, chord), Line(chord) \o t \o q, TRUE),
                Truth(C1!hinted_check_chord_line(t, q, chord + 1), Line(chord + 1) \o t \o q, FALSE)>>)
      \o When(finite,
              <<Truth(C1!hinted_check_tangent_line(t, tangent), Line(tangent) \o t, TRUE),
                Truth(C1!hinted_check_tangent_line(t, tangent + 1), Line(tangent + 1) \o t, FALSE),
                Truth(C1!hinted_check_tangent_line(t, tangent), <<tangent, 5>> \o t, FALSE),
                Truth(C1!hinted_is_on_curve(t[1], t[2]), t, TRUE),
                Truth(C1!hinted_is_on_curve(t[1], t[2] - 1), <<t[1], t[2] - 1>>, FALSE),
                Hinted(C1!hinted_from_eval_point(t), <<A!Inv1(t[2])>> \o t,
                       <<A!Div1(A!Neg1(t[1]), t[2]), A!Inv1(t[2])>>),
                Hinted(C1!hinted_from_eval_points(t), t,
                       <<A!Div1(A!Neg1(t[1]), t[2]), A!Inv1(t[2])>>)>>)

ScalarRunsOf(k, l) ==
  LET bases == <<Point1, A!Multiple1(7, Point1)>>
      chunks == C1!g1_multi_scalar_mul(bases, <<k, l>>)
      first == C1!ScalarMulAsserts(A!Infinity1, bases[1], k)
      second == C1!ScalarMulAsserts(A!Multiple1(k, Point1), bases[2], l)
  IN  <<Pair(first, k % 16 # 0)>>
      \o When(first /\ second,
              Append([i \in 1 .. Len(chunks) |->
                        Hinted(chunks[i], chunks[i].from \o <<chunks[i].scalar>>,
                               chunks[i].from \o chunks[i].out)],
                     Pair(chunks[Len(chunks)].out, A!Multiple1(k + 7 * l, Point1))))

C4(q) == q[1] \o q[2]
LineRunsOf(j, k) ==
  LET t == A!Multiple2(j, Point2)
      q == A!Multiple2(k, Point2)
      c3 == A!Slope2(t, q)
      tangent == A!Slope2(t, t)
      Line(alpha) == alpha \o A!Sub2(A!Mul2(alpha, t[1]), t[2])
      double == C2!hinted_check_tangent_line(t, tangent)
      wrong == A!Add2(tangent, A!One2)
      f == E12(j)
      x == 1234 * j
      y == Prime - k
      slope == E2(k)
      bias == E2(j + 20)
      line == <<A!One6, <<A!Scale2(x, slope), A!Scale2(y, bias), A!Zero2>>>>
  IN  <<Hinted(C2!hinted_check_chord_line(t, q, c3), Line(c3) \o C4(t) \o C4(q), Line(c3)),
        Rejected(Hinting(C2!hinted_check_chord_line(t, q, tangent),
                         C2!hinted_check_chord_line(t, q, tangent).hints,
                         Line(tangent) \o C4(t) \o C4(q))),
        Hinted(C2!hinted_affine_add_line(t[1], q[1], c3), Line(c3) \o t[1] \o q[1],
               Line(c3) \o C4(A!AddPoint2(t, q))),
        Hinted(double, Line(tangent) \o C4(t), Line(tangent)),
        Rejected(Hinting(double, double.hints, tangent \o <<1, 2>> \o C4(t))),
        Rejected(Hinting(C2!hinted_check_tangent_line(t, wrong),
                         C2!hinted_check_tangent_line(t, wrong).hints, Line(wrong) \o C4(t))),
        Hinted(C2!hinted_check_tangent_line_keep_elements(t, tangent), Line(tangent) \o C4(t),
               Line(tangent) \o C4(t)),
        Hinted(C2!hinted_affine_double_line(t[1], tangent), Line(tangent) \o t[1],
               Line(tangent) \o C4(A!AddPoint2(t, t))),
        Truth(C2!hinted_is_on_curve(q[1], q[2]), C4(q), TRUE),
        Truth(C2!hinted_is_on_curve(q[2], q[1]), q[2] \o q[1], FALSE),
        Pair(Result(C2!copy(4) \o C2!equal, Stack(C4(q) \o C4(t))), Stack(C4(q)) \o <<0>>),
        Pair(Result(C2!is_zero_keep_element, Stack(C4(t))), Stack(C4(t)) \o <<0>>),
        \* the powers of the prime modulo the order
        Hinted(C2!hinted_mul_by_char_on_q(q), C4(q), C4(A!Multiple2(150, q))),
        Hinted(C2!hinted_mul_by_char_on_phi_q(q), C4(q), C4(A!NegPoint2(A!Multiple2(22500, q)))),
        Hinted(C2!hinted_mul_by_char_on_phi_sq_q(q), C4(q), C4(A!Multiple2(22318, q))),
        Hinted(C2!hinted_ell_by_constant_affine_and_sparse_mul(f, x, y, slope, bias),
               C12(f) \o <<x, y>>, C12(A!Mul12(f, line)))>>

(* Sums of points are those of the group in every case the scripts branch   *)
(* on (a point at infinity, equal and opposite points), and a slope that is *)
(* not the chord's or the tangent's is refused, on both curves.  The chunks *)
(* of a multi-scalar multiplication end at the sum of the multiples         *)
(* whatever windows of a scalar are zero; building them panics exactly when *)
(* the first scalar's lowest window is zero, the sum of two points at       *)
(* infinity.  The Frobenius maps multiply a point of the second group by    *)
(* the powers of the prime.                                                 *)
CurveExact ==
  /\ Ready("sum") => AsExpected(SumRuns(case.x, case.y))
  /\ Ready("scalar") => AsExpected(ScalarRuns(case.x, case.y))
  /\ Ready("line") => AsExpected(LineRuns(case.x, case.y))

(***************************************************************************)
(* The chunked verifier                                                    *)
(***************************************************************************)
Outside == <<<<1, 1>>, <<23044, 12168>>>>
ProofOf(e) == [a |-> A!Multiple1(e.a, Point1), c |-> A!Multiple1(e.c, Point1),
               b |-> IF e.b = 0 THEN Outside ELSE A!Multiple2(e.b, Point2)]
\* The equation of the verifier on the multiples, points at infinity refused.
Verifies(e) == /\ e.b # 0 /\ e.a # 0 /\ e.c # 0
               /\ (e.a * e.b) % Order = (15 + (((13 + 17 * e.k) % Order) * 7) + 11 * e.c) % Order
InputIds == 1 .. 15
ResultIds == 16 .. Len(G16!Segments) - 1
Honest == G16!generate_signatures_for_any_proof(G16!Segments, ProofOf(Proofs[1]), <<Proofs[1].k>>)
\* The commitments that begin with some and follow the segments from there.
Following(segments, begin) ==
  LET from == Len(begin)
      a[i \in from .. Len(segments) - 1] ==
        IF i = from THEN begin
        ELSE LET before == a[i - 1]
             IN  Append(before, G16!Evaluate(segments[i], G16!ParametersOf(segments[i], before)).value)
  IN  a[Len(segments) - 1]
OtherThan(scr_type, v, i) ==
  CASE scr_type \in {"PreMillerInitT4", "MillerPointOpsStep1"} /\ i % 2 = 0 ->
         [v EXCEPT ![1][2][1] = (@ + 1) % Prime]
    [] scr_type \in {"PreMillerInitT4", "MillerPointOpsStep1"} -> [v EXCEPT ![2][1][1] = (@ + 1) % Prime]
    [] scr_type \in {"MSM", "PreMillerPrecomputeP", "PreMillerHashP",
                     "PreMillerPrecomputePFromHash"} -> [v EXCEPT ![1] = (@ + 1) % Prime]
    [] OTHER -> [v EXCEPT ![1][1] = (@ + 1) % Prime]

\* The digits for the code's curve, and the number of segments for any digits:
\* four for a digit, four more unless it is zero.  NUM_HASH counts four chunks of
\* the scalar.
BN254_ATE_LOOP_COUNT ==
  <<0, 0, 0, 1, 0, 1, 0, -1, 0, 0, -1, 0, 0, 0, 1, 0, 0, -1, 0, -1, 0, 0, 0, 1, 0, -1, 0, 0, 0, 0,
    -1, 0, 0, 1, 0, -1, 0, 0, 1, 0, 0, 0, 0, 0, -1, 0, 0, -1, 0, 1, 0, -1, 0, 0, 0, -1, 0, -1, 0,
    0, 0, 1, 0, 1, 1>>
NUM_HASH == 363
CountOf(ate_loop_count, chunks) ==
  LET after == Len(ate_loop_count) - 1
  IN  35 + chunks + 4 * after + 4 * Cardinality({j \in 1 .. after : ate_loop_count[j] # 0})
SegmentCount ==
  <<Pair(Len(G16!Segments), CountOf(<<0, 0, 0, 0, 0, -1, 1>>, G16!num_chunks_per_scalar)),
    Pair(Len(G16!SegmentsOf(<<1, 0, -1, 1>>)), CountOf(<<1, 0, -1, 1>>, G16!num_chunks_per_scalar)),
    Pair(CountOf(BN254_ATE_LOOP_COUNT, 4), 1 + 14 + NUM_HASH + 1)>>

\* What the challenger finds, and the first script that succeeds on commitments.
Challenged(segments, a, accepted, first) ==
  LET run == G16!get_segments_from_assertion(segments, a)
      disproving == {i \in 16 .. Len(segments) : G16!Disproves(segments, a, i)}
      lowest == IF disproving = {} THEN 0 ELSE CHOOSE i \in disproving : \A j \in disproving : i <= j
  IN  <<Pair(run.panics, FALSE), Pair(run.going, accepted), Pair(disproving = {}, accepted),
        Pair(lowest, IF accepted THEN 0 ELSE Len(run.values))>>
      \o When(first # 0, <<Pair(lowest, first)>>)
ChunkRunsOf(kind, y) ==
  LET segments == G16!Segments
      Proof == ProofOf(Proofs[y])
      scalars == <<Proofs[y].k>>
      built == G16!get_segments_from_groth16_proof(segments, Proof, scalars)
      changed == CASE kind = "larger input" -> Honest[y] + (IF y = 1 THEN Order ELSE Prime)
                   [] kind = "other input" -> (Honest[y] + 1) % Prime
                   [] kind = "other result" -> OtherThan(segments[y].scr_type, Honest[y], y)
  IN  IF kind = "proof" /\ y \in DOMAIN Proofs
      THEN IF y > 7 THEN <<Pair(built.panics, TRUE)>>
           ELSE SegmentCount \o <<Pair(built.going, Verifies(Proofs[y]))>>
                \o Challenged(segments, G16!generate_signatures_for_any_proof(segments, Proof, scalars),
                              Verifies(Proofs[y]), 0)
      ELSE IF kind \in {"larger input", "other input"} /\ y \in InputIds
      THEN Challenged(segments,
                      Following(segments, SubSeq([Honest EXCEPT ![y] = changed], 1, 15)), FALSE, 0)
      ELSE IF kind = "unknown" /\ y \in ResultIds
      THEN Challenged(segments, [Honest EXCEPT ![y] = G16!Unknown], FALSE, y)
      ELSE IF kind = "other result" /\ y \in ResultIds
      THEN Challenged(segments,
                      Following(segments, SubSeq([Honest EXCEPT ![y] = changed], 1, y)), FALSE, y)
      ELSE <<>>

(* The operator's commitments survive every disprove script exactly when    *)
(* they are those of a proof that the Groth16 equation accepts: a false     *)
(* statement, a point at infinity or outside the group, an input not below  *)
(* its modulus, a result that does not follow, and a commitment nobody can  *)
(* open are each refuted, the last two by the script of that very segment   *)
(* even if all later results follow from it.  The runner's verdict and the  *)
(* segment it stops at are those of the scripts, which validate_assertions  *)
(* asserts; it panics where a sum's script cannot be built.  There are as   *)
(* many segments as the constants of the code say.                          *)
DisproveExact == Ready("chunk") => AsExpected(ChunkRuns(case.x, case.y))
=============================================================================

------------------------------- MODULE Script -------------------------------
(***************************************************************************)
(* The Bitcoin Script machine on which every algorithm of the bitvm crate  *)
(* runs, and the helpers of pseudo.rs.  The machine is external to the     *)
(* repository: its opcodes are modelled as src/bitvm uses them.  A script  *)
(* is a sequence of opcodes, built by operators that have the name of the  *)
(* Rust function whose script! they stand for; the offsets given to        *)
(* OP_PICK and OP_ROLL are kept, because they are where such code goes     *)
(* wrong.  A machine state is the stack and the alt stack, top last, and   *)
(* whether the script is still valid.                                      *)
(*                                                                         *)
(* Stack elements are integers.  Numbers that arithmetic accepts have at   *)
(* most four bytes.  The integers of Digests stand for 20-byte digests;    *)
(* hashing adds one, so the i-th preimage chain is an interval.            *)
(***************************************************************************)
EXTENDS Integers, Sequences, FiniteSets

(***************************************************************************)
(* Opcodes.  Those that only rearrange the top of the stack are given by   *)
(* how many elements they take and which of them they leave.               *)
(***************************************************************************)
Push(n) == [op |-> "push", n |-> n]
Shuffle(n, order) == [op |-> "shuffle", n |-> n, order |-> order]
Unary(f) == [op |-> "unary", f |-> f]
Binary(f) == [op |-> "binary", f |-> f]
OP_IF(then, else) == [op |-> "if", then |-> then, else |-> else]

OP_0 == Push(0)
OP_1 == Push(1)
OP_DROP == Shuffle(1, <<>>)
OP_2DROP == Shuffle(2, <<>>)
OP_NIP == Shuffle(2, <<2>>)
OP_DUP == Shuffle(1, <<1, 1>>)
OP_2DUP == Shuffle(2, <<1, 2, 1, 2>>)
OP_3DUP == Shuffle(3, <<1, 2, 3, 1, 2, 3>>)
OP_SWAP == Shuffle(2, <<2, 1>>)
OP_OVER == Shuffle(2, <<1, 2, 1>>)
OP_TUCK == Shuffle(2, <<2, 1, 2>>)
OP_ROT == Shuffle(3, <<2, 3, 1>>)
OP_2SWAP == Shuffle(4, <<3, 4, 1, 2>>)
OP_2OVER == Shuffle(4, <<1, 2, 3, 4, 1, 2>>)
OP_2ROT == Shuffle(6, <<3, 4, 5, 6, 1, 2>>)
OP_1ADD == Unary("1ADD")
OP_1SUB == Unary("1SUB")
OP_NEGATE == Unary("NEGATE")
OP_NOT == Unary("NOT")
OP_ADD == Binary("ADD")
OP_SUB == Binary("SUB")
OP_MIN == Binary("MIN")
OP_MAX == Binary("MAX")
OP_BOOLAND == Binary("BOOLAND")
OP_BOOLOR == Binary("BOOLOR")
OP_LESSTHAN == Binary("LESSTHAN")
OP_LESSTHANOREQUAL == Binary("LESSTHANOREQUAL")
OP_GREATERTHAN == Binary("GREATERTHAN")
OP_GREATERTHANOREQUAL == Binary("GREATERTHANOREQUAL")
OP_NUMNOTEQUAL == Binary("NUMNOTEQUAL")
OP_EQUAL == [op |-> "equal"]
OP_VERIFY == [op |-> "verify"]
OP_PICK == [op |-> "pick"]
OP_ROLL == [op |-> "roll"]
OP_TOALTSTACK == [op |-> "toalt"]
OP_FROMALTSTACK == [op |-> "fromalt"]
OP_DEPTH == [op |-> "depth"]
OP_SIZE == [op |-> "size"]
OP_HASH160 == [op |-> "hash"]
OP_EQUALVERIFY == [op |-> "equalverify"]
OP_WITHIN == [op |-> "within"]

(***************************************************************************)
(* What the opcodes do.                                                    *)
(***************************************************************************)
Digests == 1000000000 .. 1001000000
IsNumber(x) == -2147483647 <= x /\ x \notin Digests

\* The length in bytes of the element that stands for x.
Size(x) ==
  CASE x \in Digests -> 20
    [] x = 0 -> 0
    [] x \in -127 .. 127 -> 1
    [] x \in -32767 .. 32767 -> 2
    [] x \in -8388607 .. 8388607 -> 3
    [] OTHER -> IF IsNumber(x) THEN 4 ELSE 5

Bool(b) == IF b THEN 1 ELSE 0

Apply1(f, x) ==
  CASE f = "1ADD" -> x + 1
    [] f = "1SUB" -> x - 1
    [] f = "NEGATE" -> -x
    [] f = "NOT" -> Bool(x = 0)

Apply2(f, x, y) ==
  CASE f = "ADD" -> x + y
    [] f = "SUB" -> x - y
    [] f = "MIN" -> IF x < y THEN x ELSE y
    [] f = "MAX" -> IF x > y THEN x ELSE y
    [] f = "BOOLAND" -> Bool(x # 0 /\ y # 0)
    [] f = "BOOLOR" -> Bool(x # 0 \/ y # 0)
    [] f = "LESSTHAN" -> Bool(x < y)
    [] f = "LESSTHANOREQUAL" -> Bool(x <= y)
    [] f = "GREATERTHAN" -> Bool(x > y)
    [] f = "GREATERTHANOREQUAL" -> Bool(x >= y)
    [] f = "NUMNOTEQUAL" -> Bool(x # y)

Machine(stack, alt) == [stack |-> stack, alt |-> alt, ok |-> TRUE]
On(stack) == Machine(stack, <<>>)
Fail(m) == [m EXCEPT !.ok = FALSE]

Cut(s, n) == SubSeq(s, 1, Len(s) - n)
Pushed(m, n, out) == [m EXCEPT !.stack = Cut(@, n) \o out]

\* The number of elements an opcode needs on the stack.
Arity(o) ==
  CASE o.op \in {"push", "fromalt", "depth"} -> 0
    [] o.op = "shuffle" -> o.n
    [] o.op \in {"binary", "equal", "equalverify"} -> 2
    [] o.op = "within" -> 3
    [] OTHER -> 1

Pick(m, roll) ==
  LET s == m.stack
      n == s[Len(s)]
      k == Len(s) - 1 - n
  IN  IF ~IsNumber(n) \/ n < 0 \/ k < 1 THEN Fail(m)
      ELSE [m EXCEPT !.stack =
              (IF roll THEN SubSeq(s, 1, k - 1) \o SubSeq(s, k + 1, Len(s) - 1)
                       ELSE Cut(s, 1)) \o <<s[k]>>]

RECURSIVE Exec(_, _, _, _)

Step(o, m) ==
  LET s == m.stack
      d == Len(s)
      x == s[d]
      y == s[d - 1]
  IN  IF d < Arity(o) THEN Fail(m)
      ELSE CASE o.op = "push" -> [m EXCEPT !.stack = Append(s, o.n)]
             [] o.op = "shuffle" ->
                  Pushed(m, o.n, [i \in 1 .. Len(o.order) |-> s[d - o.n + o.order[i]]])
             [] o.op = "unary" ->
                  IF IsNumber(x) THEN Pushed(m, 1, <<Apply1(o.f, x)>>) ELSE Fail(m)
             [] o.op = "binary" ->
                  IF IsNumber(x) /\ IsNumber(y) THEN Pushed(m, 2, <<Apply2(o.f, y, x)>>)
                                                ELSE Fail(m)
             [] o.op = "within" ->
                  IF IsNumber(x) /\ IsNumber(y) /\ IsNumber(s[d - 2])
                  THEN Pushed(m, 3, <<Bool(y <= s[d - 2] /\ s[d - 2] < x)>>)
                  ELSE Fail(m)
             [] o.op = "pick" -> Pick(m, FALSE)
             [] o.op = "roll" -> Pick(m, TRUE)
             [] o.op = "toalt" ->
                  [m EXCEPT !.stack = Cut(s, 1), !.alt = Append(@, x)]
             [] o.op = "fromalt" ->
                  IF m.alt = <<>> THEN Fail(m)
                  ELSE [m EXCEPT !.stack = Append(s, m.alt[Len(m.alt)]),
                                 !.alt = Cut(@, 1)]
             [] o.op = "if" ->
                  \* tapscript requires the condition to be exactly 0 or 1
                  IF x \notin {0, 1} THEN Fail(m)
                  ELSE LET branch == IF x = 1 THEN o.then ELSE o.else
                       IN  Exec(branch, 1, Len(branch), Pushed(m, 1, <<>>))
             [] o.op = "equal" -> Pushed(m, 2, <<Bool(x = y)>>)
             [] o.op = "equalverify" -> IF x = y THEN Pushed(m, 2, <<>>) ELSE Fail(m)
             [] o.op = "verify" -> IF x # 0 THEN Pushed(m, 1, <<>>) ELSE Fail(m)
             [] o.op = "depth" -> [m EXCEPT !.stack = Append(s, d)]
             [] o.op = "size" -> [m EXCEPT !.stack = Append(s, Size(x))]
             [] o.op = "hash" -> IF x \in Digests THEN Pushed(m, 1, <<x + 1>>) ELSE Fail(m)

Exec(script, first, last, m) ==
  CASE first > last -> m
    [] first = last -> Step(script[first], m)
    [] OTHER -> LET mid == (first + last) \div 2
                    left == Exec(script, first, mid, m)
                IN  IF left.ok THEN Exec(script, mid + 1, last, left) ELSE left

Run(script, m) == Exec(script, 1, Len(script), m)

\* What a script that succeeds leaves on the stack; a failed one leaves nothing.
Result(script, stack) ==
  LET m == Run(script, On(stack)) IN IF m.ok THEN m.stack ELSE <<>>

(***************************************************************************)
(* The loops of script!.                                                   *)
(***************************************************************************)
RECURSIVE Flat(_)
Flat(parts) ==
  LET n == Len(parts)
      h == n \div 2
  IN  CASE n = 0 -> <<>>
        [] n = 1 -> parts[1]
        [] OTHER -> Flat(SubSeq(parts, 1, h)) \o Flat(SubSeq(parts, h + 1, n))

\* for i in first..end { F(i) }
For(first, end, F(_)) ==
  IF end <= first THEN <<>>
  ELSE Flat([i \in 1 .. end - first |-> F(first + i - 1)])
\* for i in (first..end).rev() { F(i) }
ForRev(first, end, F(_)) == For(first, end, LAMBDA i: F(first + end - 1 - i))
Repeat(n, script) == For(0, n, LAMBDA i: script)
When(condition, script) == IF condition THEN script ELSE <<>>

(***************************************************************************)
(* pseudo.rs                                                               *)
(***************************************************************************)
OP_2MUL == <<OP_DUP, OP_ADD>>
op_2k_mul(k) == Repeat(k, OP_2MUL)
OP_4MUL == op_2k_mul(2)
OP_16MUL == op_2k_mul(4)
OP_256MUL == op_2k_mul(8)
OP_4DUP == <<OP_2OVER, OP_2OVER>>
OP_4DROP == <<OP_2DROP, OP_2DROP>>
OP_4ROLL ==
  <<Push(4), OP_ADD>> \o Repeat(3, <<OP_DUP, OP_ROLL, OP_SWAP>>) \o <<OP_1SUB, OP_ROLL>>
OP_4SWAP == Repeat(4, <<Push(7), OP_ROLL>>)
OP_4TOALTSTACK == Repeat(4, <<OP_TOALTSTACK>>)
OP_4FROMALTSTACK == Repeat(4, <<OP_FROMALTSTACK>>)

OP_NDUP(n) ==
  LET more == IF n > 3 THEN n - 3 ELSE 0
  IN  When(n >= 1, <<OP_DUP>>)
      \o (IF n >= 3 THEN <<OP_2DUP>> ELSE When(n >= 2, <<OP_DUP>>))
      \o Repeat(more \div 3, <<OP_3DUP>>)
      \o (CASE more % 3 = 2 -> <<OP_2DUP>> [] more % 3 = 1 -> <<OP_DUP>> [] OTHER -> <<>>)

push_to_stack(element, n) == When(n >= 1, <<Push(element)>> \o OP_NDUP(n - 1))

BitAt(n, i) == (n \div 2 ^ i) % 2
BitLength(n) == CHOOSE b \in 0 .. 31 : (IF b = 31 THEN TRUE ELSE n < 2 ^ b)
                                       /\ (b > 0 => n >= 2 ^ (b - 1))
NMUL(n) ==
  LET n_bits == BitLength(n)
      ones == {i \in 0 .. n_bits - 1 : BitAt(n, i) = 1}
  IN  IF n = 0 THEN <<OP_DROP, OP_0>>
      ELSE For(0, n_bits - 1, LAMBDA i: When(i \in ones, <<OP_DUP>>) \o OP_2MUL)
           \o Repeat(Cardinality(ones) - 1, <<OP_ADD>>)
=============================================================================

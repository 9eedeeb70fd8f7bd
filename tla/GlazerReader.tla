---------------------------- MODULE GlazerReader ----------------------------
(***************************************************************************)
(* A file read as the virtual machine reads it, next to the source: where  *)
(* each item of the source is in it, and whether what is there means what  *)
(* the source says.  Only the numbers of the instructions and the value of *)
(* an expression are taken from the assembler; where labels are is taken   *)
(* from the file.                                                          *)
(***************************************************************************)
EXTENDS GlazerWriter

ByteAt(file, a) == file[a + 1]
WordAt(file, a) == 256 * ByteAt(file, a) + ByteAt(file, a + 1)
LongAt(file, a) == (IF WordAt(file, a) < 32768 THEN WordAt(file, a) ELSE WordAt(file, a) - 65536) * 65536
                   + WordAt(file, a + 2)
SignedAt(file, a, size) ==
  CASE size = 0 -> 0
    [] size = 1 -> ((ByteAt(file, a) + 128) % 256) - 128
    [] size = 2 -> ((WordAt(file, a) + 32768) % 65536) - 32768
    [] size = 4 -> LongAt(file, a)

\* Header fields, by their place.
RamStart(file) == LongAt(file, 8)
ExtStart(file) == LongAt(file, 12)
EndMem(file)   == LongAt(file, 16)
Entry(file)    == LongAt(file, 24)
Decoding(file) == LongAt(file, 28)

\* The words of the file without the checksum, summed as the machine does.
SumOfWords(file) ==
  LET words   == 1 .. Len(file) \div 4
      Sum(at) == SumFunctionOnSet([k \in words |-> WordAt(file, 4 * (k - 1) + at)], words \ {9})
      low     == Sum(2)
  IN  <<(Sum(0) + low \div 65536) % 65536, low % 65536>>

----------------------------------------------------------------------------
(***************************************************************************)
(* Instructions.  An operand is a constant, a place in memory, a local or  *)
(* the stack; to store to a constant is to drop the value.                 *)
(***************************************************************************)

Operands(info) == info.loads + info.stores + (IF info.jump THEN 1 ELSE 0)
Known(codes, code) == {name \in DOMAIN codes : codes[name].code = code}
OperandsIn(codes, known) == IF known = {} THEN 0 ELSE Operands(codes[CHOOSE name \in known : TRUE])
OperandsOf(code) == OperandsIn(AllOpcodes, Known(AllOpcodes, code))

At(place, n) == [at |-> place, n |-> n]
Stack == At("stack", 0)

OperandAt(file, a, mode) ==
  LET size == CASE mode % 4 = 3 -> 4 [] OTHER -> mode % 4
      unsigned == IF size = 1 THEN ByteAt(file, a) ELSE WordAt(file, a)
  IN  [size |-> size,
       op |-> CASE mode \in 0 .. 3 -> At("const", SignedAt(file, a, size))
                [] mode \in 5 .. 7 -> At("memory", SignedAt(file, a, size))
                [] mode = 8 -> Stack
                [] mode \in {9, 10} -> At("local", unsigned)
                [] OTHER -> At("none", mode)]

InstructionAt(file, a) ==
  LET long  == ByteAt(file, a) >= 128
      code  == IF long THEN WordAt(file, a) - 32768 ELSE ByteAt(file, a)
      n     == OperandsOf(code)
      modes == a + (IF long THEN 2 ELSE 1)
      Mode(i) == LET b == ByteAt(file, modes + (i - 1) \div 2) IN IF i % 2 = 1 THEN b % 16 ELSE b \div 16
      Take(st, i) == LET o == OperandAt(file, st.next, Mode(i))
                     IN  [next |-> st.next + o.size, ops |-> Append(st.ops, o.op)]
  IN  [code |-> code] @@ FoldLeftDomain(Take, [next |-> modes + CeilDiv(n, 2), ops |-> <<>>],
                                        [i \in 1 .. n |-> i])

----------------------------------------------------------------------------
(***************************************************************************)
(* Strings.  The characters and indirect strings that a string prints.     *)
(***************************************************************************)

IndirectAt(file, a) ==
  LET type  == ByteAt(file, a)
      count == IF type >= 10 THEN LongAt(file, a + 5) ELSE 0
  IN  [double |-> type % 2 = 1, base |-> LongAt(file, a + 1),
       args |-> [i \in 1 .. count |-> LongAt(file, a + 5 + 4 * i)]]

BitAt(file, bit) == (ByteAt(file, bit \div 8) \div 2 ^ (bit % 8)) % 2

\* From a bit and a node on; at the end of the file or of the table nothing fits.
HuffmanAt(file, start, root) ==
  LET Go[s \in Nat \X Nat] ==
        LET bit == s[1]  node == s[2]
            leaf(x) == LET rest == Go[<<bit, root>>] IN [rest EXCEPT !.text = <<x>> \o @]
        IN  IF node \notin 1 .. Len(file) - 9 \/ (ByteAt(file, node) = 0 /\ bit = 8 * Len(file))
            THEN [text |-> <<"none">>, bit |-> bit]
            ELSE CASE ByteAt(file, node) = 0 ->
                        Go[<<bit + 1, LongAt(file, node + (IF BitAt(file, bit) = 0 THEN 1 ELSE 5))>>]
                   [] ByteAt(file, node) = 1 -> [text |-> <<>>, bit |-> bit]
                   [] ByteAt(file, node) = 2 -> leaf([is |-> "char", c |-> ByteAt(file, node + 1)])
                   [] ByteAt(file, node) = 4 -> leaf([is |-> "char", c |-> LongAt(file, node + 1)])
                   [] ByteAt(file, node) \in 8 .. 11 -> leaf([is |-> "indirect"] @@ IndirectAt(file, node))
                   [] OTHER -> [text |-> <<"none">>, bit |-> bit]
  IN  Go[<<8 * start, root>>]

\* Characters of a size up to a zero.
PlainAt(file, a, size) ==
  LET end == CHOOSE n \in 0 .. Len(file) :
               /\ SignedAt(file, a + n * size, size) = 0
               /\ \A m \in 0 .. n - 1 : SignedAt(file, a + m * size, size) # 0
  IN  [text |-> [i \in 1 .. end |->
                  [is |-> "char",
                   c |-> IF size = 1 THEN ByteAt(file, a + i - 1) ELSE LongAt(file, a + 4 * (i - 1))]],
       next |-> a + (end + 1) * size]

StringAt(file, a) ==
  CASE ByteAt(file, a) = 224 -> PlainAt(file, a + 1, 1)
    [] ByteAt(file, a) = 226 -> PlainAt(file, a + 4, 4)
    [] ByteAt(file, a) = 225 ->
         LET s == HuffmanAt(file, a + 1, LongAt(file, Decoding(file) + 8))
         IN  [text |-> s.text, next |-> CeilDiv(s.bit, 8)]
    [] OTHER -> [text |-> <<"none">>, next |-> a]

----------------------------------------------------------------------------
(***************************************************************************)
(* Where the items of a section are.  The source says what comes next, the *)
(* file how long it is; data and space are as long as the source says.     *)
(***************************************************************************)

\* A value of the source, once it is known where the labels are.
Placing(env, r) == IF r.kind = "address" THEN Evaluate(env, "assemble", r) ELSE r
Meaning(env, v) == Placing(env, Evaluate(env, "resolve", v))

\* The number of locals a function declares, and the end of their list.
LocalsAt(file, a) ==
  LET pairs == CHOOSE k \in 0 .. Len(file) : /\ WordAt(file, a + 2 * k) = 0
                                             /\ \A j \in 0 .. k - 1 : WordAt(file, a + 2 * j) # 0
  IN  [count |-> SumOf(LAMBDA k : ByteAt(file, a + 2 * k - 1), [k \in 1 .. pairs |-> k]),
       next |-> a + 2 * pairs + 2]

ItemEnd(file, env, item, a) ==
  CASE item.kind = "label" -> a
    [] item.kind = "opcode" /\ item.op \in FakePairs -> InstructionAt(file, InstructionAt(file, a).next).next
    [] item.kind = "opcode" /\ item.op \notin FakePairs -> InstructionAt(file, a).next
    [] item.kind = "function" -> LocalsAt(file, a + 1).next
    [] item.kind = "data" -> a + SumOf(LAMBDA v : ElementSize(v, item.num), item.args)
    [] item.kind = "reserve" -> a + Meaning(env, item.args[1]).num * item.num
    [] item.kind = "align" -> a + PadTo(a, Meaning(env, item.args[1]).num)
    [] item.kind = "string" -> StringAt(file, a).next

\* The items with the address and the function each is in, and where they end.
Walk(file, env, items, start) ==
  LET Step(st, item) ==
        LET fun == IF item.kind = "function" THEN item.fun ELSE st.fun
        IN  [fun |-> fun, a |-> ItemEnd(file, [env EXCEPT !.fun = fun], item, st.a),
             found |-> Append(st.found, [item |-> item, a |-> st.a, fun |-> fun])]
  IN  FoldLeft(Step, [fun |-> NoFunction, a |-> start, found |-> <<>>], items)

TextStart(file) ==
  IF Decoding(file) = 0 THEN HeaderSize ELSE Decoding(file) + LongAt(file, Decoding(file))

WalkAll(file, env, streams) ==
  LET starts == [text |-> TextStart(file), data |-> RamStart(file), bss |-> ExtStart(file)]
  IN  [s \in ToSet(Sections) |-> Walk(file, env, streams[s], starts[s])]

LabelsOf(walk) ==
  LET all == walk["text"].found \o walk["data"].found \o walk["bss"].found
      labels == SelectSeq(all, LAMBDA x : x.item.kind = "label")
  IN  [id \in {labels[i].item.id : i \in DOMAIN labels} |->
        labels[CHOOSE i \in DOMAIN labels : labels[i].item.id = id].a]

----------------------------------------------------------------------------
(* What an item should be. *)

ExpectedOf(v, m, next) ==
  CASE v.kind = "jumpdest" -> At("const", m.num - next + 2)
    [] v.kind = "memory" -> At("memory", m.num)
    [] OTHER -> CASE m.kind = "local" -> At("local", m.num)
                  [] m.kind = "float" -> At("const", GetRawFloat(m.flt))
                  [] m.kind = "fltspec" -> At("const", GetFloatSpecial(m.spec))
                  [] OTHER -> At("const", m.num)

Expected(env, next, v) ==
  CASE v.kind \in {"pop", "push"} -> Stack
    [] v.kind = "drop" -> At("const", 0)
    [] v.kind = "return" -> At("const", v.num)
    [] OTHER -> ExpectedOf(v, Meaning(env, IF v.kind \in {"jumpdest", "memory"} THEN v.parts[1] ELSE v), next)

\* `hilo` and a float are two operands, the halves of the double.
WithoutHilo(env, args) ==
  [i \in DOMAIN args |->
    CASE HiloAt(args, i) -> Integer(DoubleOf(Meaning(env, args[i + 1]))[1])
      [] HiloAt(args, i - 1) -> Integer(DoubleOf(Meaning(env, args[i]))[2])
      [] OTHER -> args[i]]

OpIs(env, ins, read) ==
  /\ read.code = AllOpcodes[ins.op].code
  /\ read.ops = [i \in DOMAIN ins.args |-> Expected(env, read.next, ins.args[i])]

(***************************************************************************)
(* A machine that has run the two instructions of a pair: what places now  *)
(* hold, each value known by the place it was in, and the stack, whose top *)
(* is last.                                                                *)
(***************************************************************************)

Fresh == [held |-> <<>>, stack |-> <<At("pushed", 2), At("pushed", 1)>>]

ValueOf(m, op) == CASE op = Stack -> Last(m.stack) [] op \in DOMAIN m.held -> m.held[op] [] OTHER -> op
Popped(m, op) == IF op = Stack THEN [m EXCEPT !.stack = Front(@)] ELSE m
Stored(m, op, v) ==
  CASE op = Stack -> [m EXCEPT !.stack = Append(@, v)]
    [] op.at = "const" -> m
    [] OTHER -> [m EXCEPT !.held = (op :> v) @@ @]

\* The nth long word from where a value points to.
Element(base, n) ==
  IF base.at = "const" THEN At("memory", base.n + 4 * n) ELSE [at |-> "element", of |-> base, n |-> n]

Executed(m, ins) ==
  LET ops == ins.ops  base == ValueOf(m, ops[1])  m1 == Popped(m, ops[1])
  IN  CASE ins.code = AllOpcodes["copy"].code -> Stored(m1, ops[2], base)
        [] ins.code = AllOpcodes["aload"].code -> Stored(m1, ops[3], ValueOf(m1, Element(base, ops[2].n)))
        [] ins.code = AllOpcodes["astore"].code ->
             Stored(Popped(m1, ops[3]), Element(base, ops[2].n), ValueOf(m1, ops[3]))

\* What an instruction on a pair promises: the high half is first in memory and
\* on top of the stack, first among loads and last among stores.
Pair(op, a) ==
  LET m1 == Popped(Fresh, a[1])  m2 == Popped(m1, a[2])
      Move(m, hi, lo, toHi, toLo) == Stored(Stored(m, toLo, lo), toHi, hi)
  IN  CASE op = "dcopy" -> Move(m2, ValueOf(Fresh, a[1]), ValueOf(m1, a[2]), a[4], a[3])
        [] op = "dpush" -> Move(m2, ValueOf(Fresh, a[1]), ValueOf(m1, a[2]), Stack, Stack)
        [] op = "dpull" -> Move([Fresh EXCEPT !.stack = <<>>], At("pushed", 1), At("pushed", 2), a[2], a[1])
        [] op = "dload" -> Move(m1, Element(ValueOf(Fresh, a[1]), 0), Element(ValueOf(Fresh, a[1]), 1), a[3], a[2])
        [] op = "dstore" -> Move(Popped(m2, a[3]), ValueOf(m1, a[2]), ValueOf(m2, a[3]),
                                 Element(ValueOf(Fresh, a[1]), 0), Element(ValueOf(Fresh, a[1]), 1))

PairIs(file, op, first, args) ==
  Executed(Executed(Fresh, first), InstructionAt(file, first.next)) = Pair(op, args)

InstructionIs(file, env, item, a) ==
  IF item.op \in FakePairs
  THEN PairIs(file, item.op, InstructionAt(file, a),
              [i \in DOMAIN WithoutHilo(env, item.args) |->
                Expected(env, 0, WithoutHilo(env, item.args)[i])])
  ELSE OpIs(env, Op(item.op, WithoutHilo(env, item.args)), InstructionAt(file, a))

\* Numbers are there modulo their size.
NumberIs(file, a, size, n) ==
  CASE size = 1 -> ByteAt(file, a) = n % 256
    [] size = 2 -> WordAt(file, a) = n % 65536
    [] size = 4 -> LongAt(file, a) = n
    [] size = 8 -> LongAt(file, a) = (IF n < 0 THEN -1 ELSE 0) /\ LongAt(file, a + 4) = n

ElementIs(file, a, size, m) ==
  CASE m.kind = "string" -> \A i \in DOMAIN m.chars : NumberIs(file, a + size * (i - 1), size, m.chars[i])
    [] m.kind \in FloatKinds ->
         IF size = 4 THEN LongAt(file, a) = (IF m.kind = "float" THEN GetRawFloat(m.flt) ELSE GetFloatSpecial(m.spec))
         ELSE <<LongAt(file, a), LongAt(file, a + 4)>> = DoubleOf(m)
    [] OTHER -> NumberIs(file, a, size, m.num)

DataIs(file, env, item, a) ==
  \A i \in DOMAIN item.args :
    ElementIs(file, a + SumOf(LAMBDA v : ElementSize(v, item.num), SubSeq(item.args, 1, i - 1)),
              item.num, Meaning(env, item.args[i]))

\* What a string says: its parts as text, indirect strings as references.
Printed(chars) == [i \in DOMAIN chars |-> [is |-> "char", c |-> chars[i]]]

TextOf(env, part) ==
  IF part.kind = "indirect"
  THEN <<[is |-> "indirect", double |-> part.parts[1].kind = "memory",
          base |-> Meaning(env, IF part.parts[1].kind = "memory" THEN part.parts[1].parts[1]
                                ELSE part.parts[1]).num,
          args |-> [i \in 1 .. Len(part.parts) - 1 |-> Meaning(env, part.parts[i + 1]).num]]>>
  ELSE Printed(Simplify(Meaning(env, part)).chars)

StringIs(file, env, item, a) ==
  LET v     == item.args[1]
      parts == IF v.kind = "complex" THEN v.parts ELSE <<v>>
  IN  StringAt(file, a).text = FlattenSeq([i \in DOMAIN parts |-> TextOf(env, parts[i])])

FunctionIs(file, env, item, a) ==
  /\ ByteAt(file, a) = (IF item.type = "func_va" THEN 192 ELSE 193)
  /\ LocalsAt(file, a + 1).count = Len(env.funs[item.fun].locals)

ItemIs(file, env, item, a) ==
  CASE item.kind = "opcode" -> InstructionIs(file, env, item, a)
    [] item.kind = "data" -> DataIs(file, env, item, a)
    [] item.kind = "function" -> FunctionIs(file, env, item, a)
    [] item.kind = "string" -> StringIs(file, env, item, a)
    [] OTHER -> TRUE
=============================================================================

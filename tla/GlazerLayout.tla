---------------------------- MODULE GlazerLayout ----------------------------
(***************************************************************************)
(* The resolving pass: the size of every item is settled, and with it the  *)
(* address of every label.  Expressions with labels stay for the writing.  *)
(***************************************************************************)
EXTENDS GlazerHuffman, GlazerParse

CONSTANTS PageSize,      \* sections are padded to a multiple, 256 in the code
          LocalsAtOnce,  \* locals that one pair of bytes declares, 255 in the code
          MaxLocals,     \* locals of a function, 16000 in the code
          MaxSize        \* the address space, a little over 2 GB in the code

ASSUME LayoutAssumption ==
  /\ {PageSize, LocalsAtOnce} \subseteq Nat \ {0}
  /\ {MaxLocals, MaxSize} \subseteq Nat

CeilDiv(n, d) == (n + d - 1) \div d
PadTo(addr, n) == (n - (addr % n)) % n
Least(a, b) == IF a < b THEN a ELSE b

----------------------------------------------------------------------------
(* Operands: the addressing mode, whose low bits give the size. *)

ModeOfInteger(n) ==
  CASE n = 0 -> 0
    [] n # 0 /\ n \in -127 .. 127 -> 1
    [] n \notin -127 .. 127 /\ n \in -32767 .. 32767 -> 2
    [] OTHER -> 3

\* An address and a memory operand always take four bytes.
CalcAddressingMode(v) ==
  CASE v.kind = "drop" -> 0
    [] v.kind \in {"pop", "push"} -> 8
    [] v.kind = "return" -> 1
    [] v.kind = "jumpdest" -> 2
    [] v.kind \in {"address", "float", "fltspec"} -> 3
    [] v.kind = "memory" -> 7
    [] v.kind = "local" -> IF v.num < 256 THEN 9 ELSE 10
    [] v.kind \in {"integer", "char"} -> ModeOfInteger(v.num)

OperandSize(v) == LET low == CalcAddressingMode(v) % 4 IN IF low = 3 THEN 4 ELSE low

SumOf(f(_), seq) == FoldLeft(LAMBDA sum, x : sum + f(x), 0, seq)

InstructionSize(ins) ==
  (IF LookupOp(ins.op).code > 127 THEN 2 ELSE 1)
  + CeilDiv(Len(ins.args), 2) + SumOf(OperandSize, ins.args)

----------------------------------------------------------------------------
(***************************************************************************)
(* `hilo` and a float become the halves of a double.  The bits of a float  *)
(* that is whole and below 2^20, as signed numbers.                        *)
(***************************************************************************)

Exponent(f) == CHOOSE e \in 0 .. 20 : 2 ^ e <= Abs(f) /\ Abs(f) < 2 ^ (e + 1)
Negated(bits) == (bits - 2 ^ 30) - 2 ^ 30

RawBits(f, bias, width) ==
  LET e    == Exponent(f)
      bits == (bias + e) * 2 ^ width + (Abs(f) - 2 ^ e) * 2 ^ (width - e)
  IN  CASE f = 0 -> 0 [] f > 0 -> bits [] f < 0 -> Negated(bits)

GetRawFloat(f) == RawBits(f, 127, 23)
GetRawDouble(f) == <<RawBits(f, 1023, 20), 0>>

SpecialBits(s, infinity, nan) ==
  CASE s = "NAN" -> nan [] s = "+INFINITY" -> infinity [] s = "-INFINITY" -> Negated(infinity)

GetFloatSpecial(s) == SpecialBits(s, 255 * 2 ^ 23, 255 * 2 ^ 23 + 2 ^ 22 + 1)
GetDoubleSpecial(s) == <<SpecialBits(s, 2047 * 2 ^ 20, 2047 * 2 ^ 20 + 2 ^ 19), IF s = "NAN" THEN 1 ELSE 0>>

DoubleOf(v) == IF v.kind = "float" THEN GetRawDouble(v.flt) ELSE GetDoubleSpecial(v.spec)

HiloAt(args, i) == i \in DOMAIN args /\ args[i].kind = "hilo"

ResolveHilos(args) ==
  IF \E i \in DOMAIN args : HiloAt(args, i) /\ (i = Len(args) \/ args[i + 1].kind \notin FloatKinds)
  THEN Fail
  ELSE [kind |-> "parts",
        parts |-> <<>> \o [i \in DOMAIN args |->
          CASE HiloAt(args, i) -> Integer(DoubleOf(args[i + 1])[1])
            [] HiloAt(args, i - 1) -> Integer(DoubleOf(args[i])[2])
            [] OTHER -> args[i]]]

----------------------------------------------------------------------------
(***************************************************************************)
(* An instruction on a pair becomes two.  A copy of a node is made without *)
(* what is below it.                                                       *)
(***************************************************************************)

NodeCopy(v) ==
  CASE v.kind = "address" -> [v EXCEPT !.post = <<>>]
    [] v.kind = "memory" -> [v EXCEPT !.parts = <<>>]
    [] OTHER -> v

Op(name, args) == [kind |-> "opcode", op |-> name, args |-> args]

(* Mutant: the first half is copied first, also to the stack. *)
DCopyInOrder(a) == <<Op("copy", <<a[1], a[4]>>), Op("copy", <<a[2], a[3]>>)>>

\* To the stack the low half goes first.
DCopy(a) ==
  IF a[4].kind = "push" THEN <<Op("copy", <<a[2], a[3]>>), Op("copy", <<a[1], a[4]>>)>>
  ELSE <<Op("copy", <<a[1], a[4]>>), Op("copy", <<a[2], a[3]>>)>>

FakeIns(op, a) ==
  CASE op = "dcopy" -> DCopy(a)
    [] op = "dload" -> <<Op("aload", <<a[1], Integer(1), a[2]>>),
                         Op("aload", <<NodeCopy(a[1]), Integer(0), a[3]>>)>>
    [] op = "dstore" -> <<Op("astore", <<a[1], Integer(0), a[2]>>),
                          Op("astore", <<NodeCopy(a[1]), Integer(1), a[3]>>)>>
    [] op = "dpush" -> <<Op("copy", <<a[2], Plain("push")>>), Op("copy", <<a[1], Plain("push")>>)>>
    [] op = "dpull" -> <<Op("copy", <<Plain("pop"), a[2]>>), Op("copy", <<Plain("pop"), a[1]>>)>>
    [] OTHER -> <<Op(op, a)>>

\* The target of a jump remembers the address after the instruction.
WithPc(ins, pc) ==
  IF LookupOp(ins.op).jump /\ Last(ins.args).kind = "jumpdest"
  THEN [ins EXCEPT !.args[Len(ins.args)].num = pc] ELSE ins

----------------------------------------------------------------------------
(***************************************************************************)
(* An item at an address: the items it becomes, of which the first is      *)
(* done, and the address after that one.  The section and the function it  *)
(* is in are those of the items before it.                                 *)
(***************************************************************************)

Placed(items, addr) == [kind |-> "placed", items |-> items, addr |-> addr]

PlacedFirst(two, next) == Placed(<<WithPc(two[1], next)>> \o Tail(two), next)
PlacedBoth(two, addr) == PlacedFirst(two, addr + InstructionSize(two[1]))

ResolveInstruction(section, fun, op, args, addr) ==
  IF ResolveHilos(args) = Fail \/ section = "bss" \/ fun = NoFunction THEN Fail
  ELSE PlacedBoth(FakeIns(op, ResolveHilos(args).parts), addr)

ResolveFunction(section, locals, item, addr) ==
  IF section = "bss" \/ locals > MaxLocals THEN Fail
  ELSE Placed(<<item>>, addr + 3 + 2 * CeilDiv(locals, LocalsAtOnce))

ElementSize(v, size) == IF v.kind = "string" THEN Len(v.chars) * size ELSE size

ResolveData(section, item, addr) ==
  IF section = "bss" \/ \E i \in DOMAIN item.args : item.args[i].kind \notin LiteralKinds \union {"address"}
  THEN Fail
  ELSE Placed(<<item>>, addr + SumOf(LAMBDA v : ElementSize(v, item.num), item.args))

ResolveReserve(item, addr) ==
  LET v == item.args[1]
  IN  IF v.kind # "integer" \/ v.num * item.num \notin 1 .. 2 ^ 30 - 1 THEN Fail
      ELSE Placed(<<[item EXCEPT !.num = v.num * @]>>, Least(addr + v.num * item.num, MaxSize))

ResolveAlign(item, addr) ==
  LET v == item.args[1]
  IN  IF v.kind # "integer" \/ v.num \notin 1 .. 2 ^ 24 THEN Fail
      ELSE LET pad == PadTo(addr, v.num) IN Placed(<<[item EXCEPT !.num = pad]>>, Least(addr + pad, MaxSize))

CharSize(type) == IF type = "unistr" THEN 4 ELSE 1
StringLength(v) == IF v.kind = "string" THEN Len(v.chars) ELSE 0

\* Of a complex string only the parts that are text count.
ResolveString(section, item, addr) ==
  LET v    == item.args[1]
      text == IF v.kind = "complex" THEN SumOf(StringLength, v.parts) ELSE StringLength(v)
  IN  CASE section = "bss" -> Fail
        [] section # "bss" /\ item.type = "huffstr" -> Placed(<<item>>, addr + CeilDiv(Len(item.bits), 8) + 1)
        [] OTHER -> IF v.kind \notin {"string", "complex"} THEN Fail
                    ELSE Placed(<<item>>, addr + (text + 2) * CharSize(item.type))

ResolveLabel(fun, item, addr) ==
  IF item.id[1] # NoFunction /\ fun = NoFunction THEN Fail ELSE Placed(<<item>>, addr)

ResolveEvaluated(fun, section, item, locals, addr) ==
  CASE item.kind = "opcode" -> ResolveInstruction(section, fun, item.op, item.args, addr)
    [] item.kind = "label" -> ResolveLabel(fun, item, addr)
    [] item.kind = "function" -> ResolveFunction(section, locals, item, addr)
    [] item.kind = "data" -> ResolveData(section, item, addr)
    [] item.kind = "reserve" -> ResolveReserve(item, addr)
    [] item.kind = "align" -> ResolveAlign(item, addr)
    [] item.kind = "string" -> ResolveString(section, item, addr)

ResolveWith(fun, section, given, locals, addr, args) ==
  IF args.kind # "parts" THEN args
  ELSE ResolveEvaluated(fun, section, [given EXCEPT !.args = args.parts], locals, addr)

\* `env` has the function the item is in; `locals` are those of the function it begins.
ResolveItem(env, section, given, locals, addr) ==
  ResolveWith(env.fun, section, given, locals, addr, ExpressionsInNode(env, "resolve", given.args))
=============================================================================

---------------------------- MODULE GlazerWriter ----------------------------
(***************************************************************************)
(* The bytes that are written: of each item, of the header and of the      *)
(* table of strings.  An item with an error writes part of itself or       *)
(* nothing; the file is deleted then, so what it wrote is left out.        *)
(***************************************************************************)
EXTENDS GlazerLayout

(* Mutant: the upper byte is not cut. *)
WordUncut(n) == <<n \div 256, n % 256>>

Word16(n) == <<(n \div 256) % 256, n % 256>>

Long(n) == Word16(n \div 65536) \o Word16(n)
Quad(n) == Long(IF n < 0 THEN -1 ELSE 0) \o Long(n)
Zeros(n) == [i \in 1 .. n |-> 0]

RawDataElem(n, size) ==
  CASE size = 1 -> <<n % 256>> [] size = 2 -> Word16(n) [] size = 4 -> Long(n) [] size = 8 -> Quad(n)

Written(bytes) == [kind |-> "written", bytes |-> bytes]
Written1(ok, bytes) == IF ok THEN Written(bytes) ELSE Fail

\* The bytes of parts in order, or the first that is none.
InOrder(parts) ==
  LET bad == {i \in DOMAIN parts : parts[i].kind # "written"}
  IN  IF bad = {} THEN Written(FlattenSeq([i \in DOMAIN parts |-> parts[i].bytes]))
      ELSE parts[CHOOSE i \in bad : \A j \in bad : i <= j]

----------------------------------------------------------------------------
(* Instructions. *)

OpcodeBytes(code) == IF code < 128 THEN <<code>> ELSE Word16(32768 + code)

\* Two modes in a byte, the first in the low half.
ModeBytes(args) ==
  [k \in 1 .. CeilDiv(Len(args), 2) |->
    CalcAddressingMode(args[2 * k - 1])
    + (IF 2 * k <= Len(args) THEN 16 * CalcAddressingMode(args[2 * k]) ELSE 0)]

(* Mutant: from the end of the offset itself, as in a branch of another machine. *)
JumpOffsetOfBranch(v) == v.parts[1].num - v.num

JumpOffset(v) == v.parts[1].num - v.num + 2

OperandJump(v) ==
  CASE v.parts[1].kind # "address" -> Crash
    [] v.parts[1].kind = "address" /\ JumpOffset(v) \in {0, 1} -> Crash
    [] OTHER -> Written1(JumpOffset(v) \in -32767 .. 32767, Word16(JumpOffset(v)))

OperandMemory(v) ==
  IF v.parts = <<>> THEN Crash
  ELSE Written1(v.parts[1].kind \in {"address", "integer"}, Long(v.parts[1].num))

Operand(v) ==
  CASE v.kind \in {"push", "drop", "pop"} -> Written(<<>>)
    [] v.kind = "return" -> Written(<<v.num>>)
    [] v.kind = "address" -> Written(Long(v.num))
    [] v.kind = "jumpdest" -> OperandJump(v)
    [] v.kind = "memory" -> OperandMemory(v)
    [] v.kind = "local" -> Written(IF v.num < 256 THEN <<v.num>> ELSE Word16(v.num))
    [] v.kind \in {"integer", "char"} ->
         Written(IF v.num = 0 THEN <<>> ELSE RawDataElem(v.num, OperandSize(v)))
    [] v.kind = "float" -> Written(Long(GetRawFloat(v.flt)))
    [] v.kind = "fltspec" -> Written(Long(GetFloatSpecial(v.spec)))

\* A constant cannot be stored to, except that zero means to drop the value.
AsmInstruction(op, args) ==
  LET info == LookupOp(op)
  IN  IF \/ op = "getiosys" /\ CalcAddressingMode(args[1]) # CalcAddressingMode(args[2])
         \/ ~info.jump /\ \E i \in DOMAIN args : i > info.loads /\ CalcAddressingMode(args[i]) \in 1 .. 3
         \/ op \in {"copyb", "copys"} /\ \E i \in DOMAIN args : args[i].kind = "local"
      THEN Fail
      ELSE InOrder(<<Written(OpcodeBytes(info.code) \o ModeBytes(args))>>
                   \o [i \in DOMAIN args |-> Operand(args[i])])

\* C1 for a function, C0 for one with its arguments on the stack.
AsmFunction(type, locals) ==
  LET pairs == CeilDiv(locals, LocalsAtOnce)
  IN  Written(<<IF type = "func_va" THEN 192 ELSE 193>>
              \o FlattenSeq([i \in 1 .. pairs |->
                   <<4, IF i < pairs THEN LocalsAtOnce ELSE locals - (pairs - 1) * LocalsAtOnce>>])
              \o <<0, 0>>)

----------------------------------------------------------------------------
(* Data and strings. *)

RawString(chars, size) ==
  Written1(\A i \in DOMAIN chars : chars[i] <= (CASE size = 1 -> 255 [] size = 2 -> 65535 [] OTHER -> 2 ^ 30),
           FlattenSeq([i \in DOMAIN chars |-> RawDataElem(chars[i], size)]))

RawInteger(n, size) ==
  Written1(\/ size = 1 /\ n \in -128 .. 255
           \/ size = 2 /\ n \in -32768 .. 65535
           \/ size > 2,
           RawDataElem(n, size))

RawDouble(halves) == Long(halves[1]) \o Long(halves[2])

AsmElement(v, size) ==
  CASE v.kind \in {"integer", "char", "address"} -> RawInteger(v.num, size)
    [] v.kind = "float" ->
         Written1(size > 4 \/ (size = 4 /\ Abs(v.flt) < FloatLimit),
                  IF size = 4 THEN Long(GetRawFloat(v.flt)) ELSE RawDouble(GetRawDouble(v.flt)))
    [] v.kind = "fltspec" ->
         Written1(size >= 4, IF size = 4 THEN Long(GetFloatSpecial(v.spec)) ELSE RawDouble(GetDoubleSpecial(v.spec)))
    [] v.kind = "string" -> RawString(v.chars, size)

AsmString(item, v) ==
  LET size  == CharSize(item.type)
      parts == IF v.kind = "complex" THEN SelectSeq(v.parts, LAMBDA part : part.kind = "string") ELSE <<v>>
  IN  IF item.type = "huffstr" THEN Written(<<225>> \o BytesOfBits(item.bits))
      ELSE InOrder(<<Written(IF size = 4 THEN <<226, 0, 0, 0>> ELSE <<224>>)>>
                   \o [i \in DOMAIN parts |-> RawString(parts[i].chars, size)]
                   \o <<Written(Zeros(size))>>)

AssembleWith(item, locals, args) ==
  CASE item.kind = "opcode" -> AsmInstruction(item.op, args)
    [] item.kind = "label" -> Written(<<>>)
    [] item.kind = "function" -> AsmFunction(item.type, locals)
    [] item.kind = "data" -> InOrder([i \in DOMAIN args |-> AsmElement(args[i], item.num)])
    [] item.kind \in {"reserve", "align"} -> Written(Zeros(item.num))
    [] item.kind = "string" -> AsmString(item, args[1])

AssembleParts(item, locals, args) ==
  IF args.kind # "parts" THEN args ELSE AssembleWith(item, locals, args.parts)

\* The values of names are settled with no function at hand; `locals` are those of a function item.
AssembleItem(env, item, locals) ==
  AssembleParts(item, locals, ExpressionsInNode(env, "assemble", item.args))

----------------------------------------------------------------------------
(* The table of strings. *)

\* Numbers take four bytes here; the base does only when it is an integer.
IndirectArg(v, kinds) == IF v.kind \in kinds THEN Written(Long(v.num)) ELSE Operand(v)

IndirectBytes(base, rest) ==
  LET type == (IF rest # <<>> THEN 10 ELSE 8) + (IF base.kind = "memory" THEN 1 ELSE 0)
  IN  InOrder(<<Written(<<type>>), IndirectArg(base, {"integer"})>>
              \o (IF rest # <<>> THEN <<Written(Long(Len(rest)))>> ELSE <<>>)
              \o [i \in DOMAIN rest |-> IndirectArg(rest[i], {"integer", "char"})])

WriteParts(args) ==
  IF args.kind # "parts" THEN args ELSE IndirectBytes(args.parts[1], Tail(args.parts))

WriteIndirect(env, part) == WriteParts(ExpressionsInNode(env, "assemble", part))

WriteNode(env, node, places) ==
  CASE node.kind = "branch" -> Written(<<0>> \o Long(places[node.left]) \o Long(places[node.right]))
    [] node.kind = "terminator" -> Written(<<1>>)
    [] node.kind = "char" -> Written(IF node.ch < 256 THEN <<2, node.ch>> ELSE <<4>> \o Long(node.ch))
    [] node.kind = "indirect" -> WriteIndirect(env, node.part)

WriteTable(env, h, table) ==
  IF ~HasTree(h) THEN Written(<<>>)
  ELSE InOrder(<<Written(Long(table.end - table.start) \o Long(Len(table.order)) \o Long(table.places[RootOf(h)]))>>
               \o [i \in DOMAIN table.order |-> WriteNode(env, h.nodes[table.order[i]], table.places)])

----------------------------------------------------------------------------
(* The header and the checksum. *)

HeaderSize == 36
DefaultStack == 65536

\* Anything wrong here ends the program, with the file open.
HeaderOf(env, starts, end, table) ==
  LET entry == <<NoFunction, "entry_point">>
      stack == IF "stack_size" \in DOMAIN env.values THEN env.values["stack_size"] ELSE Integer(DefaultStack)
  IN  IF \/ "stack_size" \in env.labels
         \/ "entry_point" \notin env.labels
         \/ stack.kind # "integer"
         \/ stack.kind = "integer" /\ stack.num \notin 256 .. 2 ^ 24
      THEN Crash
      ELSE Written(<<71, 108, 117, 108, 0, 3, 1, 3>>
                   \o Long(starts["data"]) \o Long(starts["bss"]) \o Long(end) \o Long(stack.num)
                   \o Long(env.addresses[entry]) \o Long(table.start) \o Long(0))

(* Mutant: the bytes count from the right. *)
ShiftFromRight(size) == size % 4

\* How far left of the end of its word a byte is.
Shift(size) == 3 - (size % 4)

\* What bytes with these shifts add to their half of a word.
SumOfBytes(size, bytes, shifts) ==
  SumFunctionOnSet([i \in DOMAIN bytes |-> bytes[i] * (IF Shift(size + i - 1) \in {1, 3} THEN 256 ELSE 1)],
                   {i \in DOMAIN bytes : Shift(size + i - 1) \in shifts})

\* A sum of four-byte words is kept as two halves.
ChecksumWith(sum, size, bytes) ==
  LET low  == sum[2] + SumOfBytes(size, bytes, {0, 1})
      high == sum[1] + SumOfBytes(size, bytes, {2, 3}) + low \div 65536
  IN  <<high % 65536, low % 65536>>

CloseFile(file, sum) ==
  SubSeq(file, 1, 32) \o Word16(sum[1]) \o Word16(sum[2]) \o SubSeq(file, 37, Len(file))
=============================================================================

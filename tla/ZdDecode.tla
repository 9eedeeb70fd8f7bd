------------------------------ MODULE ZdDecode ------------------------------
(***************************************************************************)
(* How the disassembler zd reads one instruction (the body of the loop of  *)
(* interpret, zd/src/dis.rs): the form and the operand types, the opcode   *)
(* table of the story's version, the store and branch bytes, the string,   *)
(* and the address execution may continue at.                              *)
(*                                                                         *)
(* c is what zd is given, one of Config.                                   *)
(***************************************************************************)
EXTENDS Integers, Sequences, FiniteSets

CONSTANT NoAddress   \* no address: not a number

ASSUME NoAddressAssumption == NoAddress \notin Int

Config ==
  [zversion : 1..8,
   story : BOOLEAN,         \* a story file, or the bytes of the -b option
   code : Seq(0..255),      \* memory; of a story, what follows its header
   start : Nat,             \* the header's initial program counter
   r_o : Nat, s_o : Nat,    \* V6 and V7's routine and string offset, in bytes
   ignore_errors : BOOLEAN,         \* -i; the others are <<>> if not given:
   max_instructions : Seq(Nat),     \* --max-instructions
   addresses : Seq(Seq(Nat)),       \* -a
   start_offset : Seq(Nat)]         \* --start-offset

----------------------------------------------------------------------------
(* Memory.  Of the header of a story only the words zd reads are not zero. *)

Base(c) == IF c.story THEN 64 ELSE 0
Size(c) == Base(c) + Len(c.code)
InMemory(c, a) == 0 <= a /\ a < Size(c)

HeaderByte(c, a) ==
  CASE a = 0  -> c.zversion
    [] a = 6  -> c.start \div 256
    [] a = 7  -> c.start % 256
    [] a = 41 -> c.r_o \div 8
    [] a = 43 -> c.s_o \div 8
    [] OTHER  -> 0

ByteAt(c, a) ==
  IF a >= Base(c) THEN c.code[(a - Base(c)) + 1] ELSE HeaderByte(c, a)

WordAt(c, a) == ByteAt(c, a) * 256 + ByteAt(c, a + 1)

(* Where a read that runs off the end of memory is said to end.            *)
Beyond(c) == Size(c) + 1

(* as_signed, and the sign extension of a 14-bit branch offset.            *)
Signed(w, half) == IF w >= half THEN w - 2 * half ELSE w

----------------------------------------------------------------------------
(* The opcode table (setup_opcodes): sets of opcode numbers for each count *)
(* of operands.  V7 and V8 have the opcodes of V5.                         *)

OpVersion(c) == IF c.zversion > 6 THEN 5 ELSE c.zversion

From(v, min, numbers) == IF v >= min THEN numbers ELSE {}
UpTo(v, max, numbers) == IF v <= max THEN numbers ELSE {}
Only(v, at, numbers) == IF v = at THEN numbers ELSE {}

Known == [v \in 1..6 |->
  [Zero |-> (0..4) \cup UpTo(v, 4, {5, 6}) \cup (7..11) \cup Only(v, 3, {12})
              \cup Only(v, 5, {12}) \cup From(v, 3, {13}) \cup From(v, 5, {15}),
   One  |-> (0..7) \cup From(v, 4, {8}) \cup (9..15),
   Two  |-> (1..24) \cup From(v, 4, {25}) \cup From(v, 5, 26..28),
   Var  |-> (0..9) \cup From(v, 3, {10, 11, 19, 20, 21})
              \cup From(v, 4, (12..18) \cup {22, 23}) \cup From(v, 5, 24..31),
   Ext  |-> From(v, 5, (0..4) \cup (9..13) \cup (128..131))
              \cup Only(v, 6, (5..8) \cup (16..29))]]

Stores == [v \in 1..6 |->
  [Zero |-> Only(v, 4, {5, 6}) \cup From(v, 5, {9}),
   One  |-> {1, 2, 3, 4, 8, 14} \cup UpTo(v, 4, {15}),
   Two  |-> {8, 9, 25} \cup (15..24),
   Var  |-> {0, 7, 12, 22, 23} \cup From(v, 5, {4, 24}) \cup Only(v, 6, {9}),
   Ext  |-> (0..4) \cup {9, 10, 12, 19, 130}]]

Branches == [v \in 1..6 |->
  [Zero |-> UpTo(v, 3, {5, 6}) \cup {13, 15},
   One  |-> {0, 1, 2},
   Two  |-> (1..7) \cup {10},
   Var  |-> {23, 31},
   Ext  |-> {6, 24, 27}]]

Returns ==
  [Zero |-> {0, 1, 3, 7, 8, 10}, One |-> {11, 12}, Two |-> {}, Var |-> {},
   Ext |-> {}]

(* The operand that is the routine an opcode calls: 1, 3 or 4, or 0.       *)
CallOperand(c, s) ==
  LET v == OpVersion(c)
      is(count, numbers) == s.count = count /\ s.number \in numbers
  IN CASE is("One", {8} \cup From(v, 5, {15})) -> 1
       [] is("Two", {25, 26})                  -> 1
       [] is("Var", {0, 12, 25, 26})           -> 1
       [] is("Var", {22})                      -> 3
       [] is("Var", From(v, 4, {4}) \cup From(v, 5, {21})) -> 4
       [] OTHER -> 0

IsJump(s) == s.count = "One" /\ s.number = 12
IsPrint(s) == s.count = "Zero" /\ s.number \in {2, 3}
IsPrintAddr(s) == s.count = "One" /\ s.number = 7
IsPrintPaddr(s) == s.count = "One" /\ s.number = 13

----------------------------------------------------------------------------
(* Packed addresses.                                                       *)

PackFactor(c) ==
  IF c.zversion <= 3 THEN 2 ELSE IF c.zversion <= 7 THEN 4 ELSE 8

HasOffsets(c) == c.zversion \in {6, 7}

(* The offsets are only asked for in V6 and V7, where bytes have none: the *)
(* program panics.                                                         *)
Panics(c) == HasOffsets(c) /\ ~c.story

Unpack(c, packed, offset) ==
  packed * PackFactor(c) + (IF HasOffsets(c) THEN offset ELSE 0)

(* In V6 and V7 the code subtracts a quarter of the offset.                *)
Pack(c, addr) ==
  IF HasOffsets(c) THEN addr - (c.r_o \div 4) ELSE addr \div PackFactor(c)

(* handle_routine: whether the header of the routine can be read, and the  *)
(* address of its first instruction.                                       *)
RoutineEntry(c, packed) ==
  LET addr == Unpack(c, packed, c.r_o)
      nlocals == IF c.story THEN ByteAt(c, addr) ELSE 0
      entry == IF c.zversion <= 4 THEN (addr + 1) + 2 * nlocals ELSE addr + 1
  IN IF c.story /\ (~InMemory(c, addr) \/ (c.zversion <= 4 /\ entry > Size(c)))
       THEN [ok |-> FALSE, entry |-> NoAddress]
       ELSE [ok |-> TRUE, entry |-> entry]

----------------------------------------------------------------------------
(* Operands.                                                               *)

Large == 0
Variable == 2
Omitted == 3

(* decode_var: the types a type byte lists, up to the first omitted one.   *)
TypesIn(byte) ==
  LET t == <<byte \div 64, (byte \div 16) % 4, (byte \div 4) % 4, byte % 4>>
      n == Cardinality({i \in 1..4 : \A j \in 1..i : t[j] # Omitted})
  IN SubSeq(t, 1, n)

(* The count, the opcode number, the operand types and the address of the  *)
(* first operand.  A byte missing at the end of memory counts as no types: *)
(* `at` is then past the end.                                              *)
Shape(c, pc) ==
  LET op == ByteAt(c, pc)
      byte(i) == IF InMemory(c, pc + i) THEN ByteAt(c, pc + i) ELSE 255
      shape(count, number, types, at) ==
        [count |-> count, number |-> number, types |-> types, at |-> at]
  IN IF op < 128
       THEN shape("Two", op % 32,
                  <<1 + ((op \div 64) % 2), 1 + ((op \div 32) % 2)>>, pc + 1)
     ELSE IF op < 176
       THEN shape("One", op % 16, <<(op \div 16) % 4>>, pc + 1)
     ELSE IF op = 190 /\ c.zversion >= 5
       THEN shape("Ext", byte(1), TypesIn(byte(2)), pc + 3)
     ELSE IF op < 192
       THEN shape("Zero", op % 16, <<>>, pc + 1)
     ELSE IF op < 224
       THEN shape("Two", op % 32, TypesIn(byte(1)), pc + 2)
     ELSE IF op \in {236, 250}
       THEN shape("Var", op % 32, TypesIn(byte(1)) \o TypesIn(byte(2)), pc + 3)
     ELSE shape("Var", op % 32, TypesIn(byte(1)), pc + 2)

(* The address of operand i; with one more than the last, the end.         *)
OperandAt(s, i) ==
  (s.at + (i - 1)) + Cardinality({j \in 1..(i - 1) : s.types[j] = Large})

OperandsEnd(s) == OperandAt(s, Len(s.types) + 1)

IsConstant(s, i) == i \in 1..Len(s.types) /\ s.types[i] # Variable

Constant(c, s, i) ==
  IF s.types[i] = Large THEN WordAt(c, OperandAt(s, i))
                        ELSE ByteAt(c, OperandAt(s, i))

----------------------------------------------------------------------------
(* What follows the operands.                                              *)

(* decode_string reads words up to the one with its top bit set.  (The     *)
(* abbreviations a string may name, which it also reads, are left out.)    *)
StringEnd(c, a) ==
  LET words == (Size(c) - a) \div 2
      inner == {n \in 1..words :
                  \A m \in 1..n : ByteAt(c, a + 2 * (m - 1)) < 128}
      n == Cardinality(inner)
  IN IF n >= words THEN Beyond(c) ELSE a + 2 * (n + 1)

ShortBranch(c, a) == (ByteAt(c, a) \div 64) % 2 = 1
BranchEnd(c, a) ==
  IF ~InMemory(c, a) THEN Beyond(c)
  ELSE IF ShortBranch(c, a) THEN a + 1 ELSE a + 2
BranchOffset(c, a) ==
  IF ShortBranch(c, a) THEN ByteAt(c, a) % 64
                       ELSE Signed(WordAt(c, a) % 16384, 8192)

Has(table, s) == s.number \in table[s.count]

StoreEnd(c, s) ==
  OperandsEnd(s) + (IF Has(Stores[OpVersion(c)], s) THEN 1 ELSE 0)

IsBranch(c, s) == Has(Branches[OpVersion(c)], s)

AfterBranch(c, s) ==
  IF IsBranch(c, s) THEN BranchEnd(c, StoreEnd(c, s)) ELSE StoreEnd(c, s)

End(c, s) ==
  IF IsPrint(s) THEN StringEnd(c, AfterBranch(c, s)) ELSE AfterBranch(c, s)

(* A string shown with the instruction that prints it, at its address.     *)
TextLost(c, s) ==
  /\ c.story
  /\ IsPrintAddr(s) \/ IsPrintPaddr(s)
  /\ IsConstant(s, 1)
  /\ LET text == IF IsPrintAddr(s) THEN Constant(c, s, 1)
                 ELSE Unpack(c, Constant(c, s, 1), c.s_o)
     IN StringEnd(c, text) = Beyond(c)

(* The packed address of the routine called: 0 is none.                    *)
Calls(c, s) == CallOperand(c, s) # 0 /\ IsConstant(s, CallOperand(c, s))
Packed(c, s) == IF Calls(c, s) THEN Constant(c, s, CallOperand(c, s)) ELSE 0

(* Where an instruction whose fields end at `End` may transfer control to. *)
Target(c, s) ==
  IF IsBranch(c, s)
    THEN LET offset == BranchOffset(c, StoreEnd(c, s))
         IN IF offset \in {0, 1} THEN NoAddress
                                 ELSE (AfterBranch(c, s) + offset) - 2
  ELSE IF Packed(c, s) # 0
    THEN RoutineEntry(c, Packed(c, s)).entry
  ELSE IF IsJump(s) /\ IsConstant(s, 1)
    THEN (End(c, s) + Signed(Constant(c, s, 1), 32768)) - 2
  ELSE NoAddress

(* The result of reading at pc: "quit", "fail" or "panic" when reading     *)
(* ends the disassembly, "unknown" for an opcode that is not in the table, *)
(* else "ok" with the address of the next instruction, the address the     *)
(* instruction may transfer control to, the entry of the routine it calls, *)
(* and whether control never reaches the next instruction.                 *)
Result(status, next, to, routine, returns) ==
  [status |-> status, next |-> next, to |-> to, routine |-> routine,
   returns |-> returns]

Ends(status) == Result(status, NoAddress, NoAddress, NoAddress, FALSE)

Instruction(c, s) ==
  LET routine == RoutineEntry(c, Packed(c, s))
  IN IF Packed(c, s) # 0 /\ ~routine.ok THEN Ends("fail")
     ELSE Result("ok", End(c, s), Target(c, s),
                 IF Packed(c, s) # 0 THEN routine.entry ELSE NoAddress,
                 Has(Returns, s))

Decode(c, pc) ==
  LET s == Shape(c, pc)
  IN IF ~InMemory(c, pc) THEN Ends(IF c.story THEN "fail" ELSE "quit")
     ELSE IF OperandsEnd(s) > Size(c) THEN Ends("fail")
     ELSE IF ~Has(Known[OpVersion(c)], s) THEN Ends("unknown")
     ELSE IF End(c, s) > Size(c) \/ TextLost(c, s) THEN Ends("fail")
     ELSE IF Calls(c, s) /\ Panics(c) THEN Ends("panic")
     ELSE Instruction(c, s)
============================================================================

------------------------- MODULE ZdTraversal_proof --------------------------
(***************************************************************************)
(* zd visits exactly what can be reached, for every story and under every  *)
(* option: the theorems of ZdTraversal.                                    *)
(***************************************************************************)
EXTENDS ZdTraversal, FiniteSetTheorems, TLAPS

----------------------------------------------------------------------------
(***************************************************************************)
(* The addresses that zd decodes are numbers, and an instruction it lists  *)
(* lies in memory: each byte the decoding of ZdDecode reads is one of the  *)
(* memory's, whatever the memory holds.                                    *)
(***************************************************************************)

Address == Int \cup {NoAddress}

LEMMA ElementOf ==
  ASSUME NEW S, NEW q \in Seq(S), NEW i \in 1..Len(q)
  PROVE  q[i] \in S
OBVIOUS

LEMMA SizeType ==
  ASSUME NEW c \in Config
  PROVE  Base(c) \in Nat /\ Size(c) \in Nat /\ Len(c.code) \in Nat
BY DEF Config, Base, Size

LEMMA HeaderByteType ==
  ASSUME NEW c \in Config, NEW a \in Int
  PROVE  HeaderByte(c, a) \in Nat
<1>1. c.zversion \in Nat /\ c.start \in Nat /\ c.r_o \in Nat /\ c.s_o \in Nat
  BY DEF Config
<1>2. /\ c.start \div 256 \in Nat /\ c.start % 256 \in Nat
      /\ c.r_o \div 8 \in Nat /\ c.s_o \div 8 \in Nat
  BY <1>1
<1> QED BY <1>1, <1>2 DEF HeaderByte

LEMMA ByteAtType ==
  ASSUME NEW c \in Config, NEW a \in Int, InMemory(c, a)
  PROVE  ByteAt(c, a) \in Nat
<1>1. CASE a >= Base(c)
  <2>1. c.code \in Seq(0..255) BY DEF Config
  <2>2. (a - Base(c)) + 1 \in 1..Len(c.code)
    BY <1>1, SizeType DEF InMemory, Size
  <2>3. c.code[(a - Base(c)) + 1] \in 0..255
    BY <2>1, <2>2, ElementOf
  <2>4. c.code[(a - Base(c)) + 1] \in Nat BY <2>3
  <2> QED BY <1>1, <2>4 DEF ByteAt
<1>2. CASE ~(a >= Base(c))
  BY <1>2, HeaderByteType DEF ByteAt
<1> QED BY <1>1, <1>2

LEMMA WordAtType ==
  ASSUME NEW c \in Config, NEW a \in Int, InMemory(c, a), InMemory(c, a + 1)
  PROVE  WordAt(c, a) \in Nat
BY ByteAtType, a + 1 \in Int DEF WordAt

LEMMA SignedType ==
  ASSUME NEW w \in Nat, NEW half \in Nat
  PROVE  Signed(w, half) \in Int
BY DEF Signed

LEMMA CountType ==
  ASSUME NEW k \in Int, NEW S \in SUBSET (1..k)
  PROVE  /\ IsFiniteSet(S)
         /\ Cardinality(S) \in Nat
         /\ k \in Nat => Cardinality(S) <= k
<1>1. /\ IsFiniteSet(1..k)
      /\ Cardinality(1..k) = IF 1 > k THEN 0 ELSE (k - 1) + 1
  BY 1 \in Int, FS_Interval
<1>2. IsFiniteSet(S) /\ Cardinality(S) <= Cardinality(1..k)
  BY <1>1, FS_Subset
<1> QED BY <1>1, <1>2, FS_CardinalityType

LEMMA PrefixType ==
  ASSUME NEW S, NEW q \in Seq(S), NEW n \in Nat, n <= Len(q)
  PROVE  SubSeq(q, 1, n) \in Seq(S) /\ Len(SubSeq(q, 1, n)) = n
OBVIOUS

LEMMA StringEndType ==
  ASSUME NEW c \in Config, NEW a \in Int
  PROVE  StringEnd(c, a) \in Int
<1> DEFINE words == (Size(c) - a) \div 2
           inner == {n \in 1..words :
                       \A m \in 1..n : ByteAt(c, a + 2 * (m - 1)) < 128}
<1>1. words \in Int BY SizeType
<1>2. inner \in SUBSET (1..words) OBVIOUS
<1> HIDE DEF words, inner
<1>3. Cardinality(inner) \in Nat BY <1>1, <1>2, CountType
<1>4. Beyond(c) \in Int BY SizeType DEF Beyond
<1>5. StringEnd(c, a) = IF Cardinality(inner) >= words THEN Beyond(c)
                        ELSE a + 2 * (Cardinality(inner) + 1)
  BY DEF StringEnd, words, inner
<1> QED BY <1>3, <1>4, <1>5

----------------------------------------------------------------------------
(* Operands.                                                               *)

LEMMA TypesInType ==
  ASSUME NEW byte \in Nat
  PROVE  /\ TypesIn(byte) \in Seq(Int)
         /\ Len(TypesIn(byte)) \in Nat
<1> DEFINE t == <<byte \div 64, (byte \div 16) % 4, (byte \div 4) % 4, byte % 4>>
           present == {i \in 1..4 : \A j \in 1..i : t[j] # Omitted}
           n == Cardinality(present)
<1>1. t \in Seq(Int) /\ Len(t) = 4
  <2>1. /\ byte \div 64 \in Int /\ (byte \div 16) % 4 \in Int
        /\ (byte \div 4) % 4 \in Int /\ byte % 4 \in Int
    OBVIOUS
  <2>2. ASSUME NEW w \in Int, NEW x \in Int, NEW y \in Int, NEW z \in Int
        PROVE  <<w, x, y, z>> \in Seq(Int) /\ Len(<<w, x, y, z>>) = 4
    OBVIOUS
  <2> QED BY <2>1, <2>2
<1>2. n \in Nat /\ n <= 4
  <2>1. PICK k \in Nat : k = 4 OBVIOUS
  <2>2. present \in SUBSET (1..k) BY <2>1
  <2> HIDE DEF present
  <2>3. n \in Nat /\ n <= k BY <2>2, CountType
  <2> QED BY <2>1, <2>3
<1>3. TypesIn(byte) = SubSeq(t, 1, n)
  BY DEF TypesIn
<1> HIDE DEF t, n
<1>4. SubSeq(t, 1, n) \in Seq(Int)
  BY <1>1, <1>2, PrefixType
<1> QED BY <1>3, <1>4

ShapeOK(s, from) ==
  /\ s.at \in Int /\ s.at > from
  /\ s.types \in Seq(Int)

LEMMA ShapeType ==
  ASSUME NEW c \in Config, NEW from \in Int, InMemory(c, from)
  PROVE  ShapeOK(Shape(c, from), from)
<1> DEFINE byte(i) == IF InMemory(c, from + i) THEN ByteAt(c, from + i) ELSE 255
<1>1. ASSUME NEW i \in Nat PROVE byte(i) \in Nat
  BY ByteAtType, from + i \in Int
<1>2. TypesIn(byte(1)) \in Seq(Int) /\ TypesIn(byte(2)) \in Seq(Int)
  <2> HIDE DEF byte
  <2> QED BY <1>1, TypesInType
<1>3. TypesIn(byte(1)) \o TypesIn(byte(2)) \in Seq(Int)
  BY <1>2
<1>4. ByteAt(c, from) \in Nat
  BY ByteAtType
<1>5. /\ <<1 + ((ByteAt(c, from) \div 64) % 2), 1 + ((ByteAt(c, from) \div 32) % 2)>>
           \in Seq(Int)
      /\ <<(ByteAt(c, from) \div 16) % 4>> \in Seq(Int)
      /\ <<>> \in Seq(Int)
  BY <1>4
<1> DEFINE s == Shape(c, from)
<1> DEFINE op == ByteAt(c, from)
<1> HIDE DEF byte
<1>6. CASE op < 128
  <2>1. /\ s.at = from + 1
        /\ s.types = <<1 + ((op \div 64) % 2), 1 + ((op \div 32) % 2)>>
    BY <1>6 DEF Shape
  <2> QED BY <1>5, <2>1 DEF ShapeOK
<1>7. CASE ~(op < 128) /\ op < 176
  <2>1. s.at = from + 1 /\ s.types = <<(op \div 16) % 4>>
    BY <1>7 DEF Shape
  <2> QED BY <1>5, <2>1 DEF ShapeOK
<1>8. CASE ~(op < 128) /\ ~(op < 176) /\ op < 192
  <2>1. CASE op = 190 /\ c.zversion >= 5
    <3>1. s.at = from + 3 /\ s.types = TypesIn(byte(2))
      BY <1>8, <2>1 DEF Shape, byte
    <3> QED BY <1>2, <3>1 DEF ShapeOK
  <2>2. CASE ~(op = 190 /\ c.zversion >= 5)
    <3>1. s.at = from + 1 /\ s.types = <<>>
      BY <1>8, <2>2 DEF Shape, byte
    <3> QED BY <1>5, <3>1 DEF ShapeOK
  <2> QED BY <2>1, <2>2
<1>9. CASE ~(op < 128) /\ ~(op < 176) /\ ~(op < 192)
  <2>1. CASE ~(op < 224) /\ op \in {236, 250}
    <3>1. s.at = from + 3 /\ s.types = TypesIn(byte(1)) \o TypesIn(byte(2))
      BY <1>9, <2>1 DEF Shape, byte
    <3> QED BY <1>3, <3>1 DEF ShapeOK
  <2>2. CASE op < 224 \/ op \notin {236, 250}
    <3>1. s.at = from + 2 /\ s.types = TypesIn(byte(1))
      BY <1>9, <2>2 DEF Shape, byte
    <3> QED BY <1>2, <3>1 DEF ShapeOK
  <2> QED BY <2>1, <2>2
<1> QED BY <1>4, <1>6, <1>7, <1>8, <1>9

(* How many of the first n operands take two bytes.                        *)
LargeIn(s, n) == {j \in 1..n : s.types[j] = Large}

LEMMA OperandAtIs ==
  ASSUME NEW s, NEW i \in Int
  PROVE  OperandAt(s, i) = (s.at + (i - 1)) + Cardinality(LargeIn(s, i - 1))
BY DEF OperandAt, LargeIn

LEMMA OperandAtType ==
  ASSUME NEW s, s.at \in Int, NEW i \in Int
  PROVE  /\ OperandAt(s, i) \in Int
         /\ OperandAt(s, i) >= s.at + (i - 1)
<1>1. LargeIn(s, i - 1) \in SUBSET (1..(i - 1)) BY DEF LargeIn
<1>2. Cardinality(LargeIn(s, i - 1)) \in Nat BY <1>1, CountType, i - 1 \in Int
<1> QED BY <1>2, OperandAtIs

LEMMA OperandOrder ==
  ASSUME NEW h \in Int, NEW k \in Int, NEW n \in Nat, NEW x \in Nat, NEW y \in Nat,
         1 <= k, k <= n, x <= y
  PROVE  /\ (h + (k - 1)) + x \in Int /\ (h + n) + y \in Int
         /\ h <= (h + (k - 1)) + x
         /\ (h + (k - 1)) + x < (h + n) + y
         /\ x + 1 <= y => ((h + (k - 1)) + x) + 1 < (h + n) + y
OBVIOUS

(* Each operand ends where the next begins or before.                      *)
LEMMA OperandInside ==
  ASSUME NEW s, NEW from, ShapeOK(s, from), NEW i \in 1..Len(s.types)
  PROVE  /\ OperandAt(s, i) \in Int /\ OperandsEnd(s) \in Int
         /\ s.at <= OperandAt(s, i)
         /\ OperandAt(s, i) < OperandsEnd(s)
         /\ s.types[i] = Large => OperandAt(s, i) + 1 < OperandsEnd(s)
<1>1. s.at \in Int /\ s.types \in Seq(Int) BY DEF ShapeOK
<1>2. PICK n \in Nat : n = Len(s.types) BY <1>1
<1>3. i \in Int /\ 1 <= i /\ i <= n BY <1>2
<1> DEFINE A == LargeIn(s, i - 1)
           B == LargeIn(s, n)
<1>4. A \in SUBSET (1..(i - 1)) /\ B \in SUBSET (1..n) BY DEF LargeIn
<1>5. /\ IsFiniteSet(A) /\ Cardinality(A) \in Nat
      /\ IsFiniteSet(B) /\ Cardinality(B) \in Nat
  BY <1>3, <1>4, CountType, i - 1 \in Int
<1>6. A \subseteq B BY <1>3 DEF LargeIn
<1>7. Cardinality(A) <= Cardinality(B) BY <1>5, <1>6, FS_Subset
<1>8. s.types[i] = Large => Cardinality(A) + 1 <= Cardinality(B)
  <2> SUFFICES ASSUME s.types[i] = Large
               PROVE  Cardinality(A) + 1 <= Cardinality(B)
    OBVIOUS
  <2>1. A \cup {i} \subseteq B BY <1>3, <1>6 DEF LargeIn
  <2>2. i \notin A BY <1>3, <1>4
  <2>3. Cardinality(A \cup {i}) = Cardinality(A) + 1
    BY <1>5, <2>2, FS_AddElement
  <2>4. Cardinality(A \cup {i}) <= Cardinality(B)
    BY <1>5, <2>1, FS_Subset
  <2> QED BY <2>3, <2>4
<1>9. /\ OperandAt(s, i) = (s.at + (i - 1)) + Cardinality(A)
      /\ OperandsEnd(s) = (s.at + n) + Cardinality(B)
  <2>1. (n + 1) - 1 = n BY <1>2
  <2>2. OperandAt(s, i) = (s.at + (i - 1)) + Cardinality(A)
    BY <1>3, OperandAtIs
  <2>3. n + 1 \in Int BY <1>2
  <2>4. OperandAt(s, n + 1) = (s.at + ((n + 1) - 1)) + Cardinality(LargeIn(s, (n + 1) - 1))
    BY <2>3, OperandAtIs
  <2>5. OperandsEnd(s) = (s.at + n) + Cardinality(B)
    BY <1>2, <2>1, <2>4 DEF OperandsEnd
  <2> QED BY <2>2, <2>5
<1>10. PICK x \in Nat : x = Cardinality(A) BY <1>5
<1>11. PICK y \in Nat : y = Cardinality(B) BY <1>5
<1>12. x <= y /\ (s.types[i] = Large => x + 1 <= y)
  BY <1>7, <1>8, <1>10, <1>11
<1>13. PICK h \in Int : h = s.at BY <1>1
<1>14. /\ OperandAt(s, i) = (h + (i - 1)) + x
       /\ OperandsEnd(s) = (h + n) + y
  BY <1>9, <1>10, <1>11, <1>13
<1> HIDE DEF A, B
<1> SUFFICES /\ (h + (i - 1)) + x \in Int /\ (h + n) + y \in Int
             /\ h <= (h + (i - 1)) + x
             /\ (h + (i - 1)) + x < (h + n) + y
             /\ s.types[i] = Large => ((h + (i - 1)) + x) + 1 < (h + n) + y
  BY <1>13, <1>14
<1>15. PICK k \in Int : k = i BY <1>3
<1>16. 1 <= k /\ k <= n BY <1>3, <1>15
<1> QED BY <1>12, <1>15, <1>16, OperandOrder

LEMMA OperandsEndType ==
  ASSUME NEW s, NEW from, ShapeOK(s, from)
  PROVE  OperandsEnd(s) \in Int /\ OperandsEnd(s) >= s.at
<1>1. s.at \in Int /\ Len(s.types) \in Nat BY DEF ShapeOK
<1>2. PICK n \in Nat : n = Len(s.types) BY <1>1
<1>3. n + 1 \in Int BY <1>2
<1>4. OperandAt(s, n + 1) \in Int /\ OperandAt(s, n + 1) >= s.at + ((n + 1) - 1)
  BY <1>1, <1>3, OperandAtType
<1> QED BY <1>1, <1>2, <1>4 DEF OperandsEnd

LEMMA ConstantType ==
  ASSUME NEW c \in Config, NEW from \in Nat, NEW s, ShapeOK(s, from),
         OperandsEnd(s) <= Size(c), NEW i, IsConstant(s, i)
  PROVE  Constant(c, s, i) \in Nat
<1>1. i \in 1..Len(s.types) BY DEF IsConstant
<1>2. s.at \in Int /\ s.at > from BY DEF ShapeOK
<1>3. /\ OperandAt(s, i) \in Int /\ OperandAt(s, i) >= 0
      /\ OperandAt(s, i) < Size(c)
      /\ s.types[i] = Large => OperandAt(s, i) + 1 < Size(c)
  BY <1>1, <1>2, OperandInside, SizeType
<1>4. InMemory(c, OperandAt(s, i)) BY <1>3 DEF InMemory
<1>5. s.types[i] = Large => InMemory(c, OperandAt(s, i) + 1)
  BY <1>3, SizeType DEF InMemory
<1> QED BY <1>3, <1>4, <1>5, ByteAtType, WordAtType DEF Constant

----------------------------------------------------------------------------
(* What an instruction ends with.                                          *)

LEMMA BranchType ==
  ASSUME NEW c \in Config, NEW a \in Nat
  PROVE  /\ BranchEnd(c, a) \in Int
         /\ BranchEnd(c, a) <= Size(c) => BranchOffset(c, a) \in Int
<1>1. CASE ~InMemory(c, a)
  BY <1>1, SizeType DEF BranchEnd, Beyond
<1>2. CASE InMemory(c, a) /\ ShortBranch(c, a)
  <2>1. ByteAt(c, a) % 64 \in Int BY <1>2, ByteAtType
  <2> QED BY <1>2, <2>1 DEF BranchEnd, BranchOffset
<1>3. CASE InMemory(c, a) /\ ~ShortBranch(c, a)
  <2>1. BranchEnd(c, a) = a + 2 BY <1>3 DEF BranchEnd
  <2>2. ASSUME a + 2 <= Size(c) PROVE BranchOffset(c, a) \in Int
    <3>1. InMemory(c, a + 1) BY <2>2, SizeType DEF InMemory
    <3>2. WordAt(c, a) \in Nat BY <1>3, <3>1, WordAtType
    <3>3. WordAt(c, a) % 16384 \in Nat BY <3>2
    <3>4. Signed(WordAt(c, a) % 16384, 8192) \in Int
      BY <3>3, SignedType, 8192 \in Nat
    <3> QED BY <1>3, <3>4 DEF BranchOffset
  <2> QED BY <2>1, <2>2
<1> QED BY <1>1, <1>2, <1>3

LEMMA RoutineEntryType ==
  ASSUME NEW c \in Config, NEW packed \in Nat, RoutineEntry(c, packed).ok
  PROVE  RoutineEntry(c, packed).entry \in Int
<1> DEFINE addr == Unpack(c, packed, c.r_o)
<1>1. addr \in Int
  <2>1. c.r_o \in Nat BY DEF Config
  <2> QED BY <2>1 DEF Unpack, PackFactor
<1>2. c.story => InMemory(c, addr)
  BY DEF RoutineEntry
<1>3. c.story => ByteAt(c, addr) \in Nat
  BY <1>1, <1>2, ByteAtType
<1> HIDE DEF addr
<1> DEFINE nlocals == IF c.story THEN ByteAt(c, addr) ELSE 0
           entry == IF c.zversion <= 4 THEN (addr + 1) + 2 * nlocals ELSE addr + 1
<1>4. nlocals \in Nat BY <1>3
<1>5. entry \in Int
  <2> HIDE DEF nlocals
  <2> QED BY <1>1, <1>4
<1>6. RoutineEntry(c, packed).entry = entry
  BY DEF RoutineEntry, addr
<1> QED BY <1>5, <1>6

LEMMA StoreEndType ==
  ASSUME NEW c \in Config, NEW from \in Nat, NEW s, ShapeOK(s, from)
  PROVE  StoreEnd(c, s) \in Nat /\ AfterBranch(c, s) \in Int /\ End(c, s) \in Int
<1>1. StoreEnd(c, s) \in Nat
  BY OperandsEndType DEF StoreEnd, ShapeOK
<1>2. AfterBranch(c, s) \in Int
  BY <1>1, BranchType DEF AfterBranch
<1>3. End(c, s) \in Int
  BY <1>2, StringEndType DEF End
<1> QED BY <1>1, <1>2, <1>3

LEMMA PackedType ==
  ASSUME NEW c \in Config, NEW from \in Nat, NEW s, ShapeOK(s, from),
         OperandsEnd(s) <= Size(c)
  PROVE  Packed(c, s) \in Nat
BY ConstantType DEF Packed, Calls

LEMMA TargetType ==
  ASSUME NEW c \in Config, NEW from \in Nat, NEW s, ShapeOK(s, from),
         OperandsEnd(s) <= Size(c), End(c, s) <= Size(c),
         Packed(c, s) # 0 => RoutineEntry(c, Packed(c, s)).ok
  PROVE  Target(c, s) \in Address
<1>1. CASE IsBranch(c, s)
  <2>1. AfterBranch(c, s) = BranchEnd(c, StoreEnd(c, s))
    BY <1>1 DEF AfterBranch
  <2>2. ~IsPrint(s)
    <3>1. PICK v \in 1..6 : v = OpVersion(c)
      BY DEF OpVersion, Config
    <3>2. Branches[v].Zero = UpTo(v, 3, {5, 6}) \cup {13, 15}
      BY DEF Branches
    <3>3. UpTo(v, 3, {5, 6}) \cup {13, 15} \subseteq {5, 6, 13, 15}
      BY DEF UpTo
    <3>4. ASSUME IsPrint(s) PROVE FALSE
      <4>1. s.count = "Zero" /\ s.number \in {2, 3} BY <3>4 DEF IsPrint
      <4>2. s.number \in Branches[v]["Zero"]
        BY <1>1, <3>1, <4>1 DEF IsBranch, Has
      <4>3. s.number \in {5, 6, 13, 15}
        BY <3>2, <3>3, <4>2
      <4> QED BY <4>1, <4>3
    <3> QED BY <3>4
  <2>3. BranchEnd(c, StoreEnd(c, s)) <= Size(c)
    BY <2>1, <2>2 DEF End
  <2>4. BranchOffset(c, StoreEnd(c, s)) \in Int
    BY <2>3, StoreEndType, BranchType
  <2> QED BY <1>1, <2>4, StoreEndType DEF Target, Address
<1>2. CASE ~IsBranch(c, s) /\ Packed(c, s) # 0
  BY <1>2, PackedType, RoutineEntryType DEF Target, Address
<1>3. CASE ~IsBranch(c, s) /\ Packed(c, s) = 0 /\ IsJump(s) /\ IsConstant(s, 1)
  <2>1. Constant(c, s, 1) \in Nat BY <1>3, ConstantType
  <2>2. Signed(Constant(c, s, 1), 32768) \in Int
    BY <2>1, SignedType, 32768 \in Nat
  <2> QED BY <1>3, <2>2, StoreEndType DEF Target, Address
<1>4. CASE ~IsBranch(c, s) /\ Packed(c, s) = 0 /\ ~(IsJump(s) /\ IsConstant(s, 1))
  BY <1>4 DEF Target, Address
<1> QED BY <1>1, <1>2, <1>3, <1>4

Decoded ==
  [status : {"ok", "quit", "fail", "panic", "unknown"}, next : Address,
   to : Address, routine : Address, returns : BOOLEAN]

LEMMA EndsType ==
  ASSUME NEW status \in {"quit", "fail", "panic", "unknown"}
  PROVE  Ends(status) \in Decoded /\ Ends(status).status # "ok"
BY DEF Ends, Result, Decoded, Address

(* What Decode finds at an address is an instruction within memory, with   *)
(* addresses that are numbers, or one of the ways to stop.                 *)
THEOREM DecodeType ==
  ASSUME NEW c \in Config, NEW a \in Int
  PROVE  /\ Decode(c, a) \in Decoded
         /\ Decode(c, a).status = "ok" =>
              /\ Decode(c, a).next \in Int
              /\ Decode(c, a).next <= Size(c)
<1> DEFINE s == Shape(c, a)
<1>1. CASE ~InMemory(c, a)
  BY <1>1, EndsType DEF Decode
<1>2. CASE InMemory(c, a)
  <2>1. a \in Nat BY <1>2 DEF InMemory
  <2>2. ShapeOK(s, a) BY <1>2, ShapeType
  <2> HIDE DEF s
  <2>3. CASE \/ OperandsEnd(s) > Size(c)
             \/ ~Has(Known[OpVersion(c)], s)
             \/ End(c, s) > Size(c) \/ TextLost(c, s)
             \/ Calls(c, s) /\ Panics(c)
    BY <1>2, <2>3, EndsType DEF Decode, s
  <2>4. CASE /\ ~(OperandsEnd(s) > Size(c))
             /\ Has(Known[OpVersion(c)], s)
             /\ ~(End(c, s) > Size(c)) /\ ~TextLost(c, s)
             /\ ~(Calls(c, s) /\ Panics(c))
    <3>1. Decode(c, a) = Instruction(c, s)
      BY <1>2, <2>4 DEF Decode, s
    <3>2. OperandsEnd(s) <= Size(c) /\ End(c, s) <= Size(c) /\ End(c, s) \in Int
      BY <2>1, <2>2, <2>4, OperandsEndType, StoreEndType, SizeType
    <3>3. CASE Packed(c, s) # 0 /\ ~RoutineEntry(c, Packed(c, s)).ok
      BY <3>1, <3>3, EndsType DEF Instruction
    <3>4. CASE ~(Packed(c, s) # 0 /\ ~RoutineEntry(c, Packed(c, s)).ok)
      <4>1. Target(c, s) \in Address
        BY <2>1, <2>2, <3>2, <3>4, TargetType
      <4>2. Packed(c, s) # 0 => RoutineEntry(c, Packed(c, s)).entry \in Int
        BY <2>1, <2>2, <3>2, <3>4, PackedType, RoutineEntryType
      <4>3. Has(Returns, s) \in BOOLEAN BY DEF Has
      <4>4. Instruction(c, s) =
              Result("ok", End(c, s), Target(c, s),
                     IF Packed(c, s) # 0 THEN RoutineEntry(c, Packed(c, s)).entry
                                         ELSE NoAddress,
                     Has(Returns, s))
        BY <3>4 DEF Instruction
      <4> QED BY <3>1, <3>2, <4>1, <4>2, <4>3, <4>4 DEF Result, Decoded, Address
    <3> QED BY <3>3, <3>4
  <2> QED BY <2>3, <2>4
<1> QED BY <1>1, <1>2

----------------------------------------------------------------------------
(***************************************************************************)
(* The walk: what it has seen and has still to visit.                      *)
(***************************************************************************)

----------------------------------------------------------------------------
(* Types.                                                                  *)

LEMMA ConfigType ==
  ASSUME TypeOK
  PROVE  config \in Config
BY DEF TypeOK

LEMMA GivenType ==
  ASSUME config \in Config
  PROVE  Given \in Seq(Nat)
<1>1. CASE config.start_offset # <<>> \/ config.addresses = <<>>
  BY <1>1 DEF Given
<1>2. CASE ~(config.start_offset # <<>> \/ config.addresses = <<>>)
  <2>1. config.addresses \in Seq(Seq(Nat)) /\ 1 \in 1..Len(config.addresses)
    BY <1>2 DEF Config
  <2> QED BY <1>2, <2>1, ElementOf DEF Given
<1> QED BY <1>1, <1>2

LEMMA MainType ==
  ASSUME config \in Config, ~MainFails
  PROVE  MainRoutine \in Int
<1>1. config.start \in Nat BY DEF Config
<1>2. CASE config.zversion = 6
  BY <1>1, <1>2, RoutineEntryType DEF MainFails, MainRoutine, Enterable
<1>3. CASE config.zversion # 6
  BY <1>1, <1>3 DEF MainRoutine
<1> QED BY <1>2, <1>3

LEMMA PackType ==
  ASSUME config \in Config, NEW addr \in Nat
  PROVE  Pack(config, addr) \in Int
<1>1. config.r_o \in Nat BY DEF Config
<1>2. config.r_o \div 4 \in Nat BY <1>1
<1>3. addr \div 2 \in Int /\ addr \div 4 \in Int /\ addr \div 8 \in Int OBVIOUS
<1> QED BY <1>2, <1>3 DEF Pack, PackFactor

LEMMA RootType ==
  ASSUME config \in Config, ~MainFails, NEW addr \in Nat, ~AddressFails(addr)
  PROVE  Root(addr) \in Int
<1>1. CASE config.start_offset # <<>>
  <2>1. config.start_offset \in Seq(Nat) /\ 1 \in 1..Len(config.start_offset)
    BY <1>1 DEF Config
  <2> QED BY <1>1, <2>1, ElementOf DEF Root
<1>2. CASE config.start_offset = <<>> /\ addr = 0
  BY <1>2, MainType DEF Root
<1>3. CASE config.start_offset = <<>> /\ addr # 0
  <2>1. Packable(addr) /\ Enterable(Pack(config, addr)) BY <1>3 DEF AddressFails
  <2>2. Pack(config, addr) \in Nat BY <2>1, PackType DEF Packable
  <2> QED BY <1>3, <2>1, <2>2, RoutineEntryType DEF Root, Enterable
<1> QED BY <1>1, <1>2, <1>3

LEMMA RootsType ==
  ASSUME config \in Config, ~MainFails,
         ~\E i \in 1..Len(Given) : AddressFails(Given[i])
  PROVE  /\ [i \in 1..Len(Given) |-> Root(Given[i])] \in Seq(Int)
         /\ RootRoutines \subseteq Int
<1>1. Given \in Seq(Nat) BY GivenType
<1>2. PICK n \in Nat : n = Len(Given) BY <1>1
<1>3. \A i \in 1..n : Root(Given[i]) \in Int
  BY <1>1, <1>2, ElementOf, RootType
<1>4. [i \in 1..n |-> Root(Given[i])] \in Seq(Int) BY <1>3
<1>5. RootRoutines \subseteq Int BY <1>2, <1>3, MainType DEF RootRoutines
<1> QED BY <1>2, <1>4, <1>5

LEMMA PopType ==
  ASSUME NEW S, NEW q \in Seq(S), q # <<>>
  PROVE  /\ Len(q) \in 1..Len(q) /\ q[Len(q)] \in S
         /\ SubSeq(q, 1, Len(q) - 1) \in Seq(S)
OBVIOUS

(* Nothing has been found or entered before the addresses to begin at.     *)
Unstarted ==
  phase = "start" =>
    /\ rooted = 0 /\ control = "return" /\ stack = <<>>
    /\ seen = {} /\ instructions = <<>> /\ routines = {} /\ roots = <<>>

LEMMA UnstartedStep == Unstarted /\ [Next]_vars => Unstarted'
BY DEF Unstarted, Next, Begin, NextRoot, Finish, CheckAddress, StopAtLimit,
       StopAtSeen, VisitNothing, VisitInstruction, Visit, Return, Ended,
       Running, vars, interpreter, found

LEMMA UnstartedHolds == Spec => []Unstarted
<1>1. Init => Unstarted
  BY DEF Init, Idle, Unstarted
<1> QED BY <1>1, UnstartedStep, PTL DEF Spec

(* Each step keeps the types.                                              *)
LEMMA TypeStep == TypeOK /\ Unstarted /\ [Next]_vars => TypeOK'
<1> SUFFICES ASSUME TypeOK, Unstarted, [Next]_vars PROVE TypeOK'
  OBVIOUS
<1> USE DEF TypeOK
<1>0. config \in Config BY ConfigType
<1>1. CASE Begin
  <2>1. CASE MainFails \/ \E i \in 1..Len(Given) : AddressFails(Given[i])
    BY <1>1, <2>1 DEF Begin, interpreter
  <2>2. CASE ~(MainFails \/ \E i \in 1..Len(Given) : AddressFails(Given[i]))
    <3>1. roots' \in Seq(Int) /\ routines' \subseteq Int
      BY <1>0, <1>1, <2>2, RootsType DEF Begin
    <3>2. rooted' = 0 BY <1>1 DEF Begin, Unstarted
    <3> QED BY <1>1, <2>2, <3>1, <3>2 DEF Begin, interpreter
  <2> QED BY <2>1, <2>2
<1>2. CASE NextRoot
  <2>1. rooted + 1 \in 1..Len(roots) BY <1>2 DEF NextRoot
  <2>2. roots[rooted + 1] \in Int BY <2>1, ElementOf
  <2> QED BY <1>2, <2>1, <2>2 DEF NextRoot, Enter, found
<1>3. CASE Finish
  BY <1>3 DEF Finish, found, interpreter
<1>4. CASE CheckAddress
  BY <1>4 DEF CheckAddress, found
<1>5. CASE StopAtLimit
  BY <1>5 DEF StopAtLimit, found
<1>6. CASE StopAtSeen
  BY <1>6 DEF StopAtSeen, found
<1>7. CASE VisitNothing
  BY <1>7 DEF VisitNothing, Visit
<1>8. CASE VisitInstruction
  <2> DEFINE d == Decode(config, pc)
  <2>1. d \in Decoded /\ d.next \in Int
    BY <1>0, <1>8, DecodeType DEF VisitInstruction
  <2> HIDE DEF d
  <2>2. d.returns \in BOOLEAN /\ d.to \in Address /\ d.routine \in Address
    BY <2>1 DEF Decoded
  <2>3. Called(d) \subseteq Int BY <2>2 DEF Called, Address
  <2>4. Follows(d) => d.to \in Int BY <2>2 DEF Follows, Address
  <2>5. Frame(d.next, d.returns) \in [pc : Int, returns : BOOLEAN]
    BY <2>1, <2>2 DEF Frame
  <2>6. instructions' \in Seq(Int) /\ routines' \subseteq Int /\ seen' \subseteq Int
    <3>1. instructions' = Append(instructions, pc) BY <1>8 DEF VisitInstruction
    <3>2. Append(instructions, pc) \in Seq(Int) OBVIOUS
    <3>3. seen' = seen \cup {pc} BY <1>8 DEF VisitInstruction, Visit
    <3>4. routines' = routines \cup Called(d) BY <1>8 DEF VisitInstruction, d
    <3> QED BY <2>3, <3>1, <3>2, <3>3, <3>4
  <2>7. control' \in {"enter", "loop", "return"} /\ pc' \in Int
    BY <1>8, <2>1, <2>4 DEF VisitInstruction, Enter, d
  <2>8. stack' \in Seq([pc : Int, returns : BOOLEAN])
    <3> DEFINE f == Frame(d.next, d.returns)
    <3>1. stack' = stack \/ stack' = Append(stack, f)
      BY <1>8 DEF VisitInstruction, d
    <3>2. Append(stack, f) \in Seq([pc : Int, returns : BOOLEAN])
      BY <2>5
    <3> QED BY <3>1, <3>2
  <2> QED BY <1>8, <2>6, <2>7, <2>8 DEF VisitInstruction, Visit
<1>9. CASE Return
  <2>1. stack[Len(stack)] \in [pc : Int, returns : BOOLEAN]
    BY <1>9, PopType DEF Return
  <2>2. stack' \in Seq([pc : Int, returns : BOOLEAN])
    BY <1>9, PopType DEF Return, Popped
  <2> QED BY <1>9, <2>1, <2>2 DEF Return, found
<1>10. CASE Ended
  BY <1>10 DEF Ended, vars, interpreter, found
<1>11. CASE UNCHANGED vars
  BY <1>11 DEF vars, interpreter, found
<1> QED
  BY <1>1, <1>2, <1>3, <1>4, <1>5, <1>6, <1>7, <1>8, <1>9, <1>10, <1>11 DEF Next

(* Addresses are numbers throughout, also those a branch or a call         *)
(* computes, and the frames of the nested calls are well formed.           *)
THEOREM TypeCorrect == Spec => []TypeOK
<1>1. Init => TypeOK
  BY ConfigsAssumption DEF Init, Idle, TypeOK
<1> QED BY <1>1, TypeStep, UnstartedHolds, PTL DEF Spec

----------------------------------------------------------------------------
(* What is left to visit: the address the running call is at, those the    *)
(* calls that wait for it continue at, and the starting addresses not yet  *)
(* taken up.                                                               *)
Here ==
  IF control = "loop" \/ (control = "enter" /\ InMemory(config, pc)) THEN {pc}
                                                                    ELSE {}
WaitingIn(frames) ==
  {frames[i].pc : i \in {j \in 1..Len(frames) : ~frames[j].returns}}
LeftAfter(n) ==
  {roots[i] : i \in {j \in (n + 1)..Len(roots) : InMemory(config, roots[j])}}
Pending == Here \cup WaitingIn(stack) \cup LeftAfter(rooted)

ReachedNow ==
  RootsIn(config) \cup UNION {Successors(config, a) : a \in seen}

(* Whatever has a way to it has been seen or is pending, unless the limit  *)
(* was reached; what is pending has a way to it.                           *)
Explored == phase = "run" /\ ~Limited => ReachedNow \subseteq seen \cup Pending
Justified == phase = "run" => Pending \subseteq ReachedNow
SearchInv == Explored /\ Justified /\ NothingMissed

LEMMA WaitingPush ==
  ASSUME NEW S, NEW q \in Seq(S), NEW f
  PROVE  WaitingIn(Append(q, f)) =
           WaitingIn(q) \cup (IF f.returns THEN {} ELSE {f.pc})
<1> DEFINE p == Append(q, f)
<1>1. PICK n \in Nat : n = Len(q) OBVIOUS
<1>2. /\ Len(p) = n + 1 /\ p[n + 1] = f
      /\ \A i \in 1..n : p[i] = q[i]
  BY <1>1
<1>3. WaitingIn(p) = {p[i].pc : i \in {j \in 1..(n + 1) : ~p[j].returns}}
  BY <1>2 DEF WaitingIn
<1>4. WaitingIn(q) = {q[i].pc : i \in {j \in 1..n : ~q[j].returns}}
  BY <1>1 DEF WaitingIn
<1> HIDE DEF p
<1>5. 1..(n + 1) = (1..n) \cup {n + 1} BY <1>1
<1> DEFINE D == {j \in 1..n : ~q[j].returns}
           E == {j \in 1..(n + 1) : ~p[j].returns}
<1>6. \A i \in D : p[i] = q[i] BY <1>2
<1>7. CASE f.returns
  <2>1. E = D BY <1>2, <1>5, <1>7
  <2> HIDE DEF D, E
  <2>2. {p[i].pc : i \in E} = {q[i].pc : i \in D} BY <1>6, <2>1
  <2> QED BY <1>3, <1>4, <1>7, <2>2 DEF p, D, E
<1>8. CASE ~f.returns
  <2>1. E = D \cup {n + 1} BY <1>2, <1>5, <1>8
  <2> HIDE DEF D, E
  <2>2. {p[i].pc : i \in E} = {q[i].pc : i \in D} \cup {f.pc}
    BY <1>2, <1>6, <2>1
  <2> QED BY <1>3, <1>4, <1>8, <2>2 DEF p, D, E
<1> QED BY <1>7, <1>8

LEMMA WaitingPop ==
  ASSUME NEW S, NEW q \in Seq(S), q # <<>>
  PROVE  WaitingIn(q) =
           WaitingIn(SubSeq(q, 1, Len(q) - 1))
             \cup (IF q[Len(q)].returns THEN {} ELSE {q[Len(q)].pc})
<1>1. SubSeq(q, 1, Len(q) - 1) \in Seq(S) OBVIOUS
<1>2. q = Append(SubSeq(q, 1, Len(q) - 1), q[Len(q)]) OBVIOUS
<1> QED BY <1>1, <1>2, WaitingPush

(* A step that drops from what is pending only what is seen, and adds to   *)
(* it only what can be reached, with all that follows what it visits.      *)
LEMMA Progress ==
  ASSUME SearchInv, phase = "run", phase' = "run", UNCHANGED <<config, roots>>,
         seen \subseteq seen', ~Limited' => ~Limited,
         Pending \subseteq Pending' \cup seen',
         \A a \in seen' \ seen : Successors(config, a) \subseteq Pending' \cup seen',
         Pending' \subseteq
           Pending \cup UNION {Successors(config, a) : a \in seen'}
  PROVE  SearchInv'
<1>1. RootsIn(config)' = RootsIn(config) BY DEF RootsIn
<1>2. \A a : Successors(config, a)' = Successors(config, a)
  BY DEF Successors
<1>3. ReachedNow' = RootsIn(config) \cup UNION {Successors(config, a) : a \in seen'}
  BY <1>1, <1>2 DEF ReachedNow
<1>4. Explored'
  BY <1>3 DEF SearchInv, Explored, ReachedNow
<1>5. Justified'
  BY <1>3 DEF SearchInv, Justified, ReachedNow
<1>6. NothingMissed' BY DEF NothingMissed
<1> QED BY <1>4, <1>5, <1>6 DEF SearchInv

LEMMA LeftNext ==
  ASSUME TypeOK, rooted < Len(roots)
  PROVE  LeftAfter(rooted) =
           LeftAfter(rooted + 1) \cup
             (IF InMemory(config, roots[rooted + 1]) THEN {roots[rooted + 1]}
                                                     ELSE {})
<1>1. PICK n \in Nat : n = Len(roots) BY DEF TypeOK
<1>2. PICK k \in Nat : k = rooted BY <1>1 DEF TypeOK
<1>3. (k + 1)..n = {k + 1} \cup ((k + 1) + 1)..n BY <1>1, <1>2
<1> QED BY <1>1, <1>2, <1>3 DEF LeftAfter

LEMMA VisitMeets ==
  ASSUME TypeOK, VisitInstruction
  PROVE  LET d == Decode(config, pc)
         IN /\ Pending \subseteq Pending' \cup {pc}
            /\ Successors(config, pc) \subseteq Pending'
            /\ Pending' \subseteq Pending \cup Successors(config, pc)
<1> DEFINE d == Decode(config, pc)
           rest == WaitingIn(stack) \cup LeftAfter(rooted)
           next == IF d.returns THEN {} ELSE {d.next}
           to == IF d.to # NoAddress /\ config.story /\ InMemory(config, d.to)
                   THEN {d.to} ELSE {}
<1>1. Successors(config, pc) = next \cup to
  BY DEF Successors, VisitInstruction
<1>2. Pending = {pc} \cup rest
  BY DEF Pending, Here, VisitInstruction, Visit, Running
<1>3. LeftAfter(rooted)' = LeftAfter(rooted)
  BY DEF VisitInstruction, Visit, LeftAfter
<1>4. Pending' = (next \cup to) \cup rest
  <2>1. CASE Follows(d)
    <3>1. /\ stack' = Append(stack, Frame(d.next, d.returns))
          /\ control' = "enter" /\ pc' = d.to /\ config' = config
      BY <2>1 DEF VisitInstruction, Enter, Visit
    <3>2. WaitingIn(stack') = WaitingIn(stack) \cup next
      <4>1. stack \in Seq([pc : Int, returns : BOOLEAN]) BY DEF TypeOK
      <4>2. /\ Frame(d.next, d.returns).returns = d.returns
            /\ Frame(d.next, d.returns).pc = d.next
        BY DEF Frame
      <4> HIDE DEF d
      <4> QED BY <3>1, <4>1, <4>2, WaitingPush
    <3>3. Here' = to BY <2>1, <3>1 DEF Here, Follows
    <3> HIDE DEF next, to
    <3> QED BY <1>3, <3>2, <3>3 DEF Pending
  <2>2. CASE ~Follows(d)
    <3>1. /\ stack' = stack /\ pc' = d.next
          /\ control' = IF d.returns THEN "return" ELSE "loop"
      BY <2>2 DEF VisitInstruction
    <3>2. Here' = next BY <3>1 DEF Here
    <3>3. to = {} BY <2>2 DEF Follows
    <3> HIDE DEF next, to, d
    <3> QED BY <1>3, <3>1, <3>2, <3>3 DEF Pending
  <2> QED BY <2>1, <2>2
<1> HIDE DEF rest, next, to
<1> QED BY <1>1, <1>2, <1>4

LEMMA SearchStep == TypeOK /\ Unstarted /\ SearchInv /\ [Next]_vars => SearchInv'
<1> SUFFICES ASSUME TypeOK, Unstarted, SearchInv, [Next]_vars PROVE SearchInv'
  OBVIOUS
<1>1. CASE Begin
  <2>1. CASE phase' = "run"
    <3>1. /\ seen' = {} /\ stack' = <<>> /\ control' = "return" /\ rooted' = 0
      BY <1>1 DEF Begin, Unstarted, interpreter
    <3>2. Here' = {} BY <3>1 DEF Here
    <3>3. WaitingIn(stack)' = {} BY <3>1 DEF WaitingIn
    <3>4. LeftAfter(rooted)' = RootsIn(config)'
      BY <3>1 DEF LeftAfter, RootsIn
    <3>5. ReachedNow' = RootsIn(config)' BY <3>1 DEF ReachedNow
    <3> QED BY <2>1, <3>1, <3>2, <3>3, <3>4, <3>5
             DEF SearchInv, Explored, Justified, NothingMissed, Pending
  <2>2. CASE phase' = "error"
    BY <2>2 DEF SearchInv, Explored, Justified, NothingMissed
  <2> QED BY <1>1, <2>1, <2>2 DEF Begin
<1>2. CASE NextRoot
  <2>1. /\ phase = "run" /\ phase' = "run" /\ UNCHANGED <<config, roots>>
        /\ seen' = seen /\ instructions' = instructions /\ stack = <<>>
        /\ stack' = stack /\ rooted < Len(roots) /\ rooted' = rooted + 1
        /\ control = "return" /\ control' = "enter" /\ pc' = roots[rooted + 1]
    BY <1>2 DEF NextRoot, Running, Enter, found
  <2>2. Here = {} BY <2>1 DEF Here
  <2>3. Here' = IF InMemory(config, roots[rooted + 1]) THEN {roots[rooted + 1]} ELSE {}
    BY <2>1 DEF Here
  <2>4. LeftAfter(rooted) = LeftAfter(rooted)' \cup Here'
    BY <2>1, <2>3, LeftNext DEF LeftAfter
  <2>5. Pending' = Pending BY <2>1, <2>2, <2>4 DEF Pending
  <2>6. Limited' <=> Limited BY <2>1 DEF Limited
  <2> QED BY <2>1, <2>5, <2>6, Progress
<1>3. CASE Finish
  <2>1. /\ phase = "run" /\ phase' = "done" /\ control = "return" /\ stack = <<>>
        /\ rooted = Len(roots) /\ UNCHANGED <<config, roots, seen, instructions>>
    BY <1>3 DEF Finish, Running, found
  <2>2. Here = {} /\ WaitingIn(stack) = {} BY <2>1 DEF Here, WaitingIn
  <2>3. LeftAfter(rooted) = {}
    <3>1. PICK n \in Nat : n = Len(roots) BY DEF TypeOK
    <3>2. (n + 1)..n = {} BY <3>1
    <3> QED BY <2>1, <3>1, <3>2 DEF LeftAfter
  <2>4. Pending = {} BY <2>2, <2>3 DEF Pending
  <2>5. ~Limited => ReachedNow \subseteq seen
    BY <2>1, <2>4 DEF SearchInv, Explored
  <2>6. Limited' <=> Limited BY <2>1 DEF Limited
  <2>7. \A a : Successors(config, a)' = Successors(config, a)
    BY <2>1 DEF Successors
  <2>8. RootsIn(config)' = RootsIn(config) BY <2>1 DEF RootsIn
  <2>9. NothingMissed'
    BY <2>1, <2>5, <2>6, <2>7, <2>8 DEF NothingMissed, ReachedNow
  <2> QED BY <2>1, <2>9 DEF SearchInv, Explored, Justified
<1>4. CASE CheckAddress
  <2>1. CASE phase' = "run"
    <3>1. /\ phase = "run" /\ UNCHANGED <<config, roots, seen, instructions, stack>>
          /\ rooted' = rooted /\ pc' = pc
      BY <1>4 DEF CheckAddress, Running, found
    <3>2. Here' = Here BY <1>4, <2>1 DEF CheckAddress, Here, Running
    <3>3. Pending' = Pending BY <3>1, <3>2 DEF Pending, LeftAfter
    <3>4. Limited' <=> Limited BY <3>1 DEF Limited
    <3> QED BY <2>1, <3>1, <3>3, <3>4, Progress
  <2>2. CASE phase' = "error"
    BY <2>2 DEF SearchInv, Explored, Justified, NothingMissed
  <2> QED BY <1>4, <2>1, <2>2 DEF CheckAddress, Running
<1>5. CASE StopAtLimit
  <2>1. /\ phase' = "run" /\ UNCHANGED <<config, roots, seen, instructions, stack>>
        /\ phase = "run" /\ rooted' = rooted /\ Limited /\ control' = "return"
    BY <1>5 DEF StopAtLimit, Running, found
  <2>2. Limited' BY <2>1 DEF Limited
  <2>3. Pending' \subseteq Pending BY <2>1 DEF Pending, LeftAfter, Here
  <2>4. ReachedNow' = ReachedNow
    BY <2>1 DEF ReachedNow, RootsIn, Successors
  <2> QED BY <2>1, <2>2, <2>3, <2>4
       DEF SearchInv, Explored, Justified, NothingMissed
<1>6. CASE StopAtSeen
  <2>1. /\ phase' = "run" /\ UNCHANGED <<config, roots, seen, instructions, stack>>
        /\ phase = "run" /\ rooted' = rooted /\ pc \in seen /\ control' = "return"
        /\ control = "loop"
    BY <1>6 DEF StopAtSeen, Running, found
  <2>2. Here = {pc} /\ Here' = {} BY <2>1 DEF Here
  <2>3. Pending' \subseteq Pending /\ Pending \subseteq Pending' \cup seen
    BY <2>1, <2>2 DEF Pending, LeftAfter
  <2>4. Limited' <=> Limited BY <2>1 DEF Limited
  <2> QED BY <2>1, <2>3, <2>4, Progress
<1>7. CASE VisitNothing
  <2>1. /\ phase = "run" /\ UNCHANGED <<config, roots, instructions, stack>>
        /\ rooted' = rooted /\ pc' = pc /\ seen' = seen \cup {pc}
        /\ control = "loop" /\ Decode(config, pc).status # "ok"
    BY <1>7 DEF VisitNothing, Visit, Running
  <2>2. CASE phase' = "run"
    <3>1. control' = "return" \/ control' = "loop"
      BY <1>7, <2>1 DEF VisitNothing
    <3>2. Here = {pc} /\ Here' \subseteq {pc} BY <2>1, <3>1 DEF Here
    <3>3. Pending' \subseteq Pending /\ Pending \subseteq Pending' \cup {pc}
      BY <2>1, <3>2 DEF Pending, LeftAfter
    <3>4. Limited' <=> Limited BY <2>1 DEF Limited
    <3>5. Successors(config, pc) = {} BY <2>1 DEF Successors
    <3>6. \A a \in seen' \ seen : Successors(config, a) = {} BY <2>1, <3>5
    <3> QED BY <2>1, <2>2, <3>3, <3>4, <3>6, Progress
  <2>3. CASE phase' \in {"error", "panic"}
    BY <2>3 DEF SearchInv, Explored, Justified, NothingMissed
  <2> QED BY <1>7, <2>1, <2>2, <2>3 DEF VisitNothing
<1>8. CASE VisitInstruction
  <2>1. /\ phase = "run" /\ phase' = "run" /\ UNCHANGED <<config, roots>>
        /\ seen' = seen \cup {pc} /\ instructions' = Append(instructions, pc)
    BY <1>8 DEF VisitInstruction, Visit, Running
  <2>2. /\ Pending \subseteq Pending' \cup {pc}
        /\ Successors(config, pc) \subseteq Pending'
        /\ Pending' \subseteq Pending \cup Successors(config, pc)
    BY <1>8, VisitMeets
  <2>3. ~Limited BY <1>8 DEF VisitInstruction, Visit
  <2>4. \A a \in seen' \ seen : Successors(config, a) \subseteq Pending'
    BY <2>1, <2>2
  <2>5. Pending' \subseteq
          Pending \cup UNION {Successors(config, a) : a \in seen'}
    BY <2>1, <2>2
  <2> QED BY <2>1, <2>2, <2>3, <2>4, <2>5, Progress
<1>9. CASE Return
  <2> DEFINE f == stack[Len(stack)]
  <2>1. /\ phase = "run" /\ phase' = "run" /\ UNCHANGED <<config, roots>>
        /\ seen' = seen /\ instructions' = instructions /\ stack # <<>>
        /\ stack' = SubSeq(stack, 1, Len(stack) - 1)
        /\ control = "return" /\ pc' = f.pc /\ rooted' = rooted
        /\ control' = IF f.returns THEN "return" ELSE "loop"
    BY <1>9 DEF Return, Running, found, Popped
  <2>2. stack \in Seq([pc : Int, returns : BOOLEAN]) BY DEF TypeOK
  <2>3. Here = {} /\ Here' = IF f.returns THEN {} ELSE {f.pc}
    BY <2>1 DEF Here
  <2>4. WaitingIn(stack) = WaitingIn(SubSeq(stack, 1, Len(stack) - 1))
                             \cup (IF f.returns THEN {} ELSE {f.pc})
    BY <2>1, <2>2, WaitingPop
  <2>5. WaitingIn(stack)' = WaitingIn(SubSeq(stack, 1, Len(stack) - 1))
    BY <2>1 DEF WaitingIn
  <2>6. LeftAfter(rooted)' = LeftAfter(rooted) BY <2>1 DEF LeftAfter
  <2> HIDE DEF f
  <2>7. Pending' = Pending BY <2>3, <2>4, <2>5, <2>6 DEF Pending
  <2>8. Limited' <=> Limited BY <2>1 DEF Limited
  <2> QED BY <2>1, <2>7, <2>8, Progress
<1>10. CASE Ended \/ UNCHANGED vars
  <2>1. UNCHANGED vars BY <1>10 DEF Ended
  <2>2. /\ phase' = phase /\ seen' = seen /\ config' = config /\ roots' = roots
        /\ instructions' = instructions /\ stack' = stack /\ control' = control
        /\ pc' = pc /\ rooted' = rooted
    BY <2>1 DEF vars, interpreter, found
  <2>3. RootsIn(config)' = RootsIn(config) BY <2>2 DEF RootsIn
  <2>4. \A a : Successors(config, a)' = Successors(config, a)
    BY <2>2 DEF Successors
  <2>5. Pending' = Pending BY <2>2 DEF Pending, Here, LeftAfter
  <2>6. Limited' <=> Limited BY <2>2 DEF Limited
  <2>7. ReachedNow' = ReachedNow BY <2>2, <2>3, <2>4 DEF ReachedNow
  <2> QED BY <2>2, <2>3, <2>4, <2>5, <2>6, <2>7
          DEF SearchInv, Explored, Justified, NothingMissed
<1> QED
  BY <1>1, <1>2, <1>3, <1>4, <1>5, <1>6, <1>7, <1>8, <1>9, <1>10 DEF Next

LEMMA SearchInvariant == Spec => []SearchInv
<1>1. Init => SearchInv
  BY DEF Init, Idle, SearchInv, Explored, Justified, NothingMissed
<1> QED BY <1>1, SearchStep, TypeCorrect, UnstartedHolds, PTL DEF Spec

(* When zd lists what it has found, no limit having cut it short, it has   *)
(* seen every address it can reach from where it starts: in every story,   *)
(* with -i or without, through any nesting of branches, jumps and calls.   *)
THEOREM NothingMissedHolds == Spec => []NothingMissed
<1>1. SearchInv => NothingMissed BY DEF SearchInv
<1> QED BY <1>1, SearchInvariant, PTL

----------------------------------------------------------------------------
(* Every instruction is listed once, and lies in memory to its last byte.  *)
THEOREM ListedOnceHolds == Spec => []ListedOnce
<1>1. Init => ListedOnce
  BY DEF Init, Idle, ListedOnce
<1>2. TypeOK /\ ListedOnce /\ [Next]_vars => ListedOnce'
  <2> SUFFICES ASSUME TypeOK, ListedOnce, [Next]_vars PROVE ListedOnce'
    OBVIOUS
  <2>1. CASE VisitInstruction
    <3>1. /\ pc \notin seen /\ seen' = seen \cup {pc} /\ config' = config
          /\ instructions' = Append(instructions, pc)
          /\ Decode(config, pc).status = "ok"
      BY <2>1 DEF VisitInstruction, Visit
    <3>2. Decode(config, pc).next <= Size(config)
      BY <3>1, ConfigType, DecodeType DEF TypeOK
    <3>3. PICK n \in Nat : n = Len(instructions) BY DEF TypeOK
    <3>4. /\ Len(instructions') = n + 1 /\ instructions'[n + 1] = pc
          /\ \A i \in 1..n : instructions'[i] = instructions[i]
      BY <3>1, <3>3 DEF TypeOK
    <3>5. \A i \in 1..(n + 1) : i = n + 1 \/ i \in 1..n BY <3>3
    <3>6. \A i, j \in 1..(n + 1) : instructions'[i] = instructions'[j] => i = j
      BY <3>1, <3>3, <3>4, <3>5 DEF ListedOnce
    <3>7. ASSUME NEW i \in 1..(n + 1)
          PROVE  /\ instructions'[i] \in seen'
                 /\ Decode(config, instructions'[i]).next <= Size(config)
      BY <3>1, <3>2, <3>3, <3>4, <3>5 DEF ListedOnce
    <3> QED BY <3>1, <3>4, <3>6, <3>7 DEF ListedOnce
  <2>2. CASE ~VisitInstruction
    <3>1. UNCHANGED <<config, instructions>> /\ seen \subseteq seen'
      BY <2>2 DEF Next, Begin, NextRoot, Finish, CheckAddress, StopAtLimit,
                  StopAtSeen, VisitNothing, Visit, Return, Ended, vars, found,
                  interpreter
    <3> QED BY <3>1 DEF ListedOnce
  <2> QED BY <2>1, <2>2
<1> QED BY <1>1, <1>2, TypeCorrect, PTL DEF Spec

(* The limit of --max-instructions is never exceeded.                      *)
THEOREM WithinLimitHolds == Spec => []WithinLimit
<1>1. Init /\ TypeOK => WithinLimit
  <2> SUFFICES ASSUME Init, TypeOK, config.max_instructions # <<>>
               PROVE  Len(instructions) <= config.max_instructions[1]
    BY DEF WithinLimit
  <2>1. config.max_instructions \in Seq(Nat) /\ 1 \in 1..Len(config.max_instructions)
    BY ConfigType DEF Config
  <2>2. config.max_instructions[1] \in Nat BY <2>1, ElementOf
  <2> QED BY <2>2 DEF Init, Idle
<1>2. TypeOK /\ WithinLimit /\ [Next]_vars => WithinLimit'
  <2> SUFFICES ASSUME TypeOK, WithinLimit, [Next]_vars PROVE WithinLimit'
    OBVIOUS
  <2>1. CASE VisitInstruction
    <3>1. /\ ~Limited /\ config' = config /\ instructions' = Append(instructions, pc)
      BY <2>1 DEF VisitInstruction, Visit
    <3>2. CASE config.max_instructions # <<>>
      <4>1. config.max_instructions \in Seq(Nat)
            /\ 1 \in 1..Len(config.max_instructions)
        BY <3>2, ConfigType DEF Config
      <4>2. PICK m \in Nat : m = config.max_instructions[1] BY <4>1, ElementOf
      <4>3. PICK n \in Nat : n = Len(instructions) BY DEF TypeOK
      <4>4. Len(instructions') = n + 1 BY <3>1, <4>3 DEF TypeOK
      <4>5. n < m BY <3>1, <3>2, <4>2, <4>3 DEF Limited
      <4> QED BY <3>1, <4>2, <4>4, <4>5 DEF WithinLimit
    <3>3. CASE config.max_instructions = <<>>
      BY <3>1, <3>3 DEF WithinLimit
    <3> QED BY <3>2, <3>3
  <2>2. CASE ~VisitInstruction
    <3>1. UNCHANGED <<config, instructions>>
      BY <2>2 DEF Next, Begin, NextRoot, Finish, CheckAddress, StopAtLimit,
                  StopAtSeen, VisitNothing, Visit, Return, Ended, vars, found,
                  interpreter
    <3> QED BY <3>1 DEF WithinLimit
  <2> QED BY <2>1, <2>2
<1> QED BY <1>1, <1>2, TypeCorrect, PTL DEF Spec

CalledFrom(c, q) == {Decode(c, q[i]).routine : i \in 1..Len(q)}

(* The routines listed are those of the addresses given and of the calls   *)
(* decoded, neither more nor less.                                         *)
THEOREM RoutinesOfCallsHolds == Spec => []RoutinesOfCalls
<1>1. Init => RoutinesOfCalls
  BY DEF Init, Idle, RoutinesOfCalls
<1>2. TypeOK /\ Unstarted /\ RoutinesOfCalls /\ [Next]_vars => RoutinesOfCalls'
  <2> SUFFICES ASSUME TypeOK, Unstarted, RoutinesOfCalls, [Next]_vars
               PROVE  RoutinesOfCalls'
    OBVIOUS
  <2>1. CASE Begin
    <3>1. /\ phase' = "error" \/ (phase' = "run" /\ routines' = RootRoutines)
          /\ config' = config /\ instructions' = <<>>
      BY <2>1 DEF Begin, Unstarted
    <3>2. RootRoutines' = RootRoutines
      BY <3>1 DEF RootRoutines, Root, Given, MainRoutine
    <3>3. {Decode(config', instructions'[i]).routine : i \in 1..Len(instructions')} = {}
      BY <3>1
    <3> QED BY <3>1, <3>2, <3>3 DEF RoutinesOfCalls
  <2>2. CASE VisitInstruction
    <3> DEFINE d == Decode(config, pc)
    <3>1. /\ phase = "run" /\ phase' = "run" /\ config' = config
          /\ instructions' = Append(instructions, pc)
          /\ routines' = routines \cup ({d.routine} \ {NoAddress})
      BY <2>2 DEF VisitInstruction, Visit, Running, Called
    <3>2. RootRoutines' = RootRoutines
      BY <3>1 DEF RootRoutines, Root, Given, MainRoutine
    <3>3. CalledFrom(config, instructions') = CalledFrom(config, instructions) \cup {d.routine}
      <4>1. PICK n \in Nat : n = Len(instructions) BY DEF TypeOK
      <4>2. /\ Len(instructions') = n + 1 /\ instructions'[n + 1] = pc
            /\ \A i \in 1..n : instructions'[i] = instructions[i]
        BY <3>1, <4>1 DEF TypeOK
      <4>3. 1..(n + 1) = (1..n) \cup {n + 1} BY <4>1
      <4> QED BY <4>1, <4>2, <4>3 DEF CalledFrom
    <3> HIDE DEF d
    <3>4. routines = RootRoutines \cup (CalledFrom(config, instructions) \ {NoAddress})
      BY <3>1 DEF RoutinesOfCalls, CalledFrom
    <3>5. routines' = RootRoutines' \cup (CalledFrom(config, instructions') \ {NoAddress})
      BY <3>1, <3>2, <3>3, <3>4
    <3> QED BY <3>1, <3>5 DEF RoutinesOfCalls, CalledFrom
  <2>3. CASE ~Begin /\ ~VisitInstruction
    <3>1. /\ UNCHANGED <<config, instructions, routines>>
          /\ phase' \in {"run", "done"} => phase \in {"run", "done"}
      BY <2>3 DEF Next, NextRoot, Finish, CheckAddress, StopAtLimit,
                  StopAtSeen, VisitNothing, Visit, Return, Ended, vars, found,
                  interpreter, Running
    <3>2. RootRoutines' = RootRoutines
      BY <3>1 DEF RootRoutines, Root, Given, MainRoutine
    <3> QED BY <3>1, <3>2 DEF RoutinesOfCalls
  <2> QED BY <2>1, <2>2, <2>3
<1> QED BY <1>1, <1>2, TypeCorrect, UnstartedHolds, PTL DEF Spec

----------------------------------------------------------------------------
(* The refinement of Reachability.                                         *)
OutcomeNow ==
  CASE phase = "start" -> "idle"
    [] phase = "run"   -> "searching"
    [] phase = "done"  -> IF Limited THEN "partial" ELSE "complete"
    [] OTHER           -> "failed"

LEMMA SearchStepsIs ==
  /\ Search!Init <=> /\ config \in Configs /\ OutcomeNow = "idle"
                     /\ RootsIn(config) = {} /\ seen = {}
  /\ Search!Begin <=> /\ OutcomeNow = "idle" /\ OutcomeNow' = "searching"
                      /\ UNCHANGED <<config, seen>>
  /\ Search!Finish <=> /\ OutcomeNow = "searching" /\ ReachedNow \subseteq seen
                       /\ OutcomeNow' = "complete"
                       /\ UNCHANGED <<config, RootsIn(config), seen>>
  /\ Search!GiveUp <=> /\ OutcomeNow \in {"idle", "searching"}
                       /\ OutcomeNow' \in {"partial", "failed"}
                       /\ UNCHANGED <<config, RootsIn(config), seen>>
  /\ Search!Reached = ReachedNow
  /\ \A n : Search!Visit(n) <=>
       /\ OutcomeNow = "searching" /\ n \notin seen /\ seen' = seen \cup {n}
       /\ OutcomeNow' \in {"searching", "failed"}
       /\ UNCHANGED <<config, RootsIn(config)>>
  /\ UNCHANGED Search!vars <=> UNCHANGED <<config, OutcomeNow, RootsIn(config), seen>>
BY DEF Search!Init, Search!Begin, Search!Finish, Search!GiveUp, Search!Reached,
       Search!Visit, Search!vars, OutcomeNow, ReachedNow

LEMMA PcReached ==
  ASSUME SearchInv, Visit
  PROVE  pc \in ReachedNow
<1>1. pc \in Pending BY DEF Visit, Running, Pending, Here
<1>2. phase = "run" BY DEF Visit, Running
<1> QED BY <1>1, <1>2 DEF SearchInv, Justified

LEMMA SearchSimulates ==
  ASSUME TypeOK, SearchInv, SearchInv', [Next]_vars
  PROVE  Search!Next \/ UNCHANGED Search!vars
<1> USE SearchStepsIs
<1>1. CASE Begin
  <2>1. phase = "start" /\ config' = config /\ seen' = seen
    BY <1>1 DEF Begin
  <2>2. CASE phase' = "run"
    BY <2>1, <2>2 DEF OutcomeNow, Search!Next
  <2>3. CASE phase' = "error" /\ roots' = roots
    BY <2>1, <2>3 DEF OutcomeNow, Search!Next, RootsIn
  <2> QED BY <1>1, <2>2, <2>3 DEF Begin
<1>2. CASE NextRoot \/ StopAtLimit \/ StopAtSeen \/ Return \/ Ended \/ UNCHANGED vars
  <2>1. UNCHANGED <<phase, config, roots, seen, instructions>>
    BY <1>2 DEF NextRoot, StopAtLimit, StopAtSeen, Return, Ended, vars, found,
                interpreter
  <2>2. OutcomeNow' = OutcomeNow BY <2>1 DEF OutcomeNow, Limited
  <2> QED BY <2>1, <2>2 DEF RootsIn
<1>3. CASE CheckAddress
  <2>1. /\ phase = "run" /\ UNCHANGED <<config, roots, seen>>
        /\ phase' \in {"run", "error"}
    BY <1>3 DEF CheckAddress, Running, found
  <2> QED BY <2>1 DEF OutcomeNow, RootsIn, Search!Next
<1>4. CASE Finish
  <2>1. /\ phase = "run" /\ phase' = "done"
        /\ UNCHANGED <<config, roots, seen, instructions>>
    BY <1>4 DEF Finish, Running, found
  <2>2. Limited' <=> Limited BY <2>1 DEF Limited
  <2>3. CASE Limited
    BY <2>1, <2>2, <2>3 DEF OutcomeNow, RootsIn, Search!Next
  <2>4. CASE ~Limited
    <3>1. ReachedNow' = ReachedNow
      BY <2>1 DEF ReachedNow, RootsIn, Successors
    <3>2. ReachedNow' \subseteq seen'
      BY <2>1, <2>2, <2>4 DEF SearchInv, NothingMissed, ReachedNow
    <3>3. ReachedNow \subseteq seen BY <2>1, <3>1, <3>2
    <3> QED BY <2>1, <2>2, <2>4, <3>3 DEF OutcomeNow, RootsIn, Search!Next
  <2> QED BY <2>3, <2>4
<1>5. CASE VisitNothing \/ VisitInstruction
  <2>1. /\ phase = "run" /\ UNCHANGED <<config, roots>> /\ pc \notin seen
        /\ seen' = seen \cup {pc} /\ phase' \in {"run", "error", "panic"}
        /\ pc \in ReachedNow
    BY <1>5, PcReached DEF VisitNothing, VisitInstruction, Visit, Running
  <2>2. OutcomeNow = "searching" /\ OutcomeNow' \in {"searching", "failed"}
    BY <2>1 DEF OutcomeNow
  <2>3. Search!Visit(pc) BY <2>1, <2>2 DEF RootsIn
  <2> QED BY <2>1, <2>3 DEF Search!Next
<1> QED BY <1>1, <1>2, <1>3, <1>4, <1>5 DEF Next

(* zd's nested calls make a search: each of its steps visits an address    *)
(* that has a way to it, once, and it says it is complete only when no     *)
(* such address is left.  With SoundHolds and CompleteHolds of             *)
(* Reachability_proof, a complete listing is exactly what can be reached.  *)
THEOREM SearchesHolds == Spec => Searches
<1>1. Init => Search!Init
  BY SearchStepsIs DEF Init, Idle, OutcomeNow, RootsIn
<1>2. TypeOK /\ SearchInv /\ SearchInv' /\ [Next]_vars
        => [Search!Next]_Search!vars
  BY SearchSimulates
<1> QED
  BY <1>1, <1>2, TypeCorrect, SearchInvariant, PTL DEF Spec, Searches, Search!Spec
=============================================================================

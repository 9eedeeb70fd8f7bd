------------------------------ MODULE ZaEncode ------------------------------
(***************************************************************************)
(* What za writes for one instruction (za/src/asm/mod.rs): the operands    *)
(* decide the form of the opcode and the type bytes, and a string becomes  *)
(* Z-characters, three to a word.  Which instructions a source may contain *)
(* is decided by the grammars za/src/asm/parser/z1..z6.lalrpop.            *)
(*                                                                         *)
(* Here v is a version 1..8, a character is its code point, and a text is  *)
(* what the quoted string of the source stands for.  A label is the word it *)
(* comes to: za writes zeros and patches them in the end (ZaAssembler).    *)
(***************************************************************************)
EXTENDS Integers, Sequences, SequencesExt

CONSTANT MaxUnicode   \* entries a Unicode table may hold: 97 in the code

----------------------------------------------------------------------------
(* The grammars: for each version the instructions that are accepted, each *)
(* with its number of operands and whether it stores, branches, has text.  *)
(* V7 and V8 use the grammar of V5.                                        *)

Grammar(v) == IF v > 6 THEN 5 ELSE v

Since(v, first, numbers) == IF Grammar(v) >= first THEN numbers ELSE {}
Until(v, last, numbers) == IF Grammar(v) <= last THEN numbers ELSE {}
In(v, only, numbers) == IF Grammar(v) = only THEN numbers ELSE {}

Form(count, number, args, store, branch, text) ==
  [count |-> count, number |-> number, args |-> args, store |-> store,
   branch |-> branch, text |-> text]

Plain(count, args, numbers) ==
  {Form(count, n, a, FALSE, FALSE, FALSE) : n \in numbers, a \in args}
Storing(count, args, numbers) ==
  {Form(count, n, a, TRUE, FALSE, FALSE) : n \in numbers, a \in args}
Branching(count, args, numbers) ==
  {Form(count, n, a, FALSE, TRUE, FALSE) : n \in numbers, a \in args}
StoringAndBranching(count, args, numbers) ==
  {Form(count, n, a, TRUE, TRUE, FALSE) : n \in numbers, a \in args}

ZeroForms(v) ==
  UNION {
    Plain("Zero", {0}, {0, 1, 4, 7, 8, 10, 11} \cup Until(v, 4, {9})
                         \cup In(v, 3, {12})),
    {Form("Zero", n, 0, FALSE, FALSE, TRUE) : n \in {2, 3}},
    Branching("Zero", {0}, {13} \cup Until(v, 3, {5, 6})),
    Storing("Zero", {0}, In(v, 4, {5, 6}) \cup Since(v, 5, {9}))}

OneForms(v) ==
  UNION {
    Plain("One", {1}, {5, 6, 7} \cup (9..13) \cup Since(v, 5, {15})),
    Branching("One", {1}, {0, 3, 4}),
    Storing("One", {1}, {14} \cup Since(v, 4, {8}) \cup Until(v, 4, {15})),
    StoringAndBranching("One", {1}, {1, 2})}

TwoForms(v) ==
  UNION {
    Plain("Two", {2}, (11..14) \cup {28} \cup Since(v, 5, {26, 27})),
    Plain("Two", {3}, In(v, 6, {27})),
    Branching("Two", {2}, (2..7) \cup {10}),
    Branching("Two", 1..4, {1}),
    Storing("Two", {2}, {8, 9} \cup (15..24) \cup Since(v, 4, {25}))}

VarForms(v) ==
  UNION {
    Plain("Var", {1}, {5, 6, 8} \cup Until(v, 5, {9})
                        \cup Since(v, 3, {10, 11, 19, 20})
                        \cup Since(v, 4, {13, 14, 16, 17, 18})
                        \cup In(v, 6, {15})),
    Plain("Var", {2}, Until(v, 4, {4}) \cup Since(v, 4, {15})
                        \cup Since(v, 5, {19})),
    Plain("Var", {3}, (1..3) \cup Since(v, 5, {29}) \cup In(v, 6, {15, 19})),
    Plain("Var", {4}, In(v, 4, {4}) \cup Since(v, 5, {28})),
    Plain("Var", 1..3, Since(v, 3, {21})),
    Plain("Var", {4}, Since(v, 5, {21})),
    Plain("Var", 1..4, Since(v, 5, {25})),
    Plain("Var", 2..4, Since(v, 5, {30})),
    Plain("Var", {6}, Since(v, 5, {27})),
    Branching("Var", {1}, Since(v, 5, {31})),
    Storing("Var", 1..4, {0}),
    Storing("Var", {1}, {7} \cup Since(v, 5, {24})),
    Storing("Var", {0, 1}, In(v, 6, {9})),
    Storing("Var", {1, 3}, Since(v, 4, {22})),
    Storing("Var", {2, 4}, Since(v, 5, {4})),
    StoringAndBranching("Var", {3, 4}, Since(v, 4, {23})),
    Storing("VarDouble", 1..8, Since(v, 4, {12})),
    Plain("VarDouble", 1..8, Since(v, 5, {26}))}

ExtForms(v) ==
  UNION {
    Plain("Ext", {0}, Since(v, 5, {128, 129, 131})),
    Storing("Ext", {0}, Since(v, 5, {0, 1, 9, 10, 130})),
    Plain("Ext", {1}, Since(v, 5, {11}) \cup In(v, 6, {21, 22, 23, 26, 28})),
    Storing("Ext", {1}, Since(v, 5, {4, 12})),
    Plain("Ext", {2}, In(v, 5, {13}) \cup In(v, 6, {18, 20, 21})),
    Branching("Ext", {2}, In(v, 6, {6, 24, 27})),
    Storing("Ext", {2}, Since(v, 5, {2, 3}) \cup In(v, 6, {19})),
    Plain("Ext", {3}, In(v, 6, {7, 8, 13, 16, 17, 18, 25})),
    Plain("Ext", 1..3, In(v, 6, {5})),
    Storing("Ext", {3}, Since(v, 5, {0, 1}))}

Forms ==
  [v \in 1..8 |-> UNION {ZeroForms(v), OneForms(v), TwoForms(v), VarForms(v),
                         ExtForms(v)}]

----------------------------------------------------------------------------
(* Operands: a constant, a label (a word), or a variable, by its number:   *)
(* 0 is the stack, 1..15 the locals, 16..255 the globals.  A variable that *)
(* an instruction takes by reference is written as a small constant.       *)

SmallConstant == 1
Variable == 2
Omitted == 3

MakeType(a) ==
  CASE a.kind = "variable"  -> Variable
    [] a.kind = "reference" -> SmallConstant
    [] a.kind = "constant"  -> IF a.value <= 255 THEN SmallConstant ELSE 0
    [] a.kind = "label"     -> 0

Word(w) == <<w \div 256, w % 256>>

Written(a) ==
  CASE a.kind \in {"variable", "reference"} -> <<a.value>>
    [] a.kind = "constant" -> IF a.value <= 255 THEN <<a.value>>
                                                ELSE Word(a.value)
    [] a.kind = "label"    -> Word(a.value)

(* The type byte of operands first to first + 3.                           *)
Types(args, first) ==
  LET type(i) == IF i > Len(args) THEN Omitted ELSE MakeType(args[i])
  IN type(first) * 64 + type(first + 1) * 16 + type(first + 2) * 4
       + type(first + 3)

Shortened(number, type1, type2) ==
  number + (type1 - 1) * 64 + (type2 - 1) * 32

(* Mutant: one type byte for up to eight operands.                         *)
OpcodeBytesCut(count, number, args) ==
  CASE count = "Zero" -> <<176 + number>>
    [] count = "One"  -> <<128 + MakeType(args[1]) * 16 + number>>
    [] count = "Two"  -> <<192 + number, Types(args, 1)>>
    [] count \in {"Var", "VarDouble"} -> <<224 + number, Types(args, 1)>>
    [] count = "Ext"  -> <<190, number, Types(args, 1)>>

(* Opcode::encode, before the operands.                                    *)
OpcodeBytes(count, number, args) ==
  CASE count = "Zero" -> <<176 + number>>
    [] count = "One"  -> <<128 + MakeType(args[1]) * 16 + number>>
    [] count = "Two" ->
         IF Len(args) = 2 /\ \A i \in 1..2 : MakeType(args[i]) # 0
           THEN <<Shortened(number, MakeType(args[1]), MakeType(args[2]))>>
           ELSE <<192 + number, Types(args, 1)>>
    [] count = "Var" -> <<224 + number, Types(args, 1)>>
    [] count = "VarDouble" -> <<224 + number, Types(args, 1), Types(args, 5)>>
    [] count = "Ext" -> <<190, number, Types(args, 1)>>

----------------------------------------------------------------------------
(* Strings.                                                                *)

Run(first, n) == [i \in 1..n |-> first + i - 1]

(* The rows A0 and A1, and the rest of the string of atable_index.  In V1  *)
(* it is one character longer than a row.                                  *)
Alphabet(v) ==
  Run(97, 26) \o Run(65, 26)
    \o (IF v = 1 THEN <<32>> ELSE <<0>>)
    \o <<94>> \o Run(48, 10) \o <<46, 44, 33, 63, 95, 35, 39, 34, 47, 92>>
    \o (IF v = 1 THEN <<60>> ELSE <<>>) \o <<45, 58, 40, 41>>

(* Where atable_index finds c; position 52, counted from 0, is never used. *)
Positions(v, c) ==
  {i \in 0..(Len(Alphabet(v)) - 1) : i # 52 /\ Alphabet(v)[i + 1] = c}

(* v4_unicode_to_zscii: the characters of the codes 155 to 223, in order.  *)
Latin ==
  <<228, 246, 252, 196, 214, 220, 223, 187, 171, 235, 239, 255, 203, 207, 225,
    233, 237, 243, 250, 253, 193, 201, 205, 211, 218, 221, 224, 232, 236, 242,
    249, 192, 200, 204, 210, 217, 226, 234, 238, 244, 251, 194, 202, 206, 212,
    219, 229, 197, 248, 216, 227, 241, 245, 195, 209, 213, 230, 198, 231, 199,
    254, 240, 222, 208, 163, 339, 338, 161, 191>>

Replacement == 65533

Cut(c) == IF c > 65535 THEN Replacement ELSE c

(* The characters of a text that need a code of their own.                 *)
Coded(v, c) == c > 126 /\ Positions(v, c) = {}

Learn(v, table, c) ==
  IF Coded(v, Cut(c)) /\ v >= 5 /\ ~Contains(table, Cut(c))
    THEN Append(table, Cut(c)) ELSE table

(* unicode_table once text is encoded.                                     *)
TableAfter(v, table, text) ==
  FoldLeft(LAMBDA t, c : Learn(v, t, c), table, text)

TextFails(v, table, text) ==
  IF v < 5 THEN \E i \in 1..Len(text) :
                  Coded(v, Cut(text[i])) /\ ~Contains(Latin, Cut(text[i]))
           ELSE Len(TableAfter(v, table, text)) > MaxUnicode

IndexIn(table, c) == CHOOSE i \in 1..Len(table) : table[i] = c

UnicodeToZscii(v, table, c) ==
  154 + (IF v < 5 THEN IndexIn(Latin, c) ELSE IndexIn(table, c))

(* Mutant: the V3 shift codes in every version. *)
ShiftBaseLate(v) == 3
ShiftBase(v) == IF v <= 2 THEN 1 ELSE 3

(* The Z-characters of c, given the table after its text.  (The one V1 has *)
(* for a newline is left out: a line of the source has no newline in it.)  *)
ZChars(v, table, c) ==
  LET at == CHOOSE i \in Positions(v, c) : TRUE
      zscii == IF c > 126 THEN UnicodeToZscii(v, table, c) ELSE c
  IN IF Positions(v, c) # {}
       THEN (IF at < 26 THEN <<>> ELSE <<ShiftBase(v) + at \div 26>>)
              \o <<(at % 26) + 6>>
     ELSE IF c = 32 THEN <<0>>
     ELSE <<ShiftBase(v) + 2, 6, zscii \div 32, zscii % 32>>

(* Mutant: no word for an empty string. *)
PaddingNone(n) == (3 - (n % 3)) % 3

Padding(n) == IF n = 0 THEN 3 ELSE (3 - (n % 3)) % 3

(* encode_string: the bytes of the words, the last one marked.             *)
EncodeString(v, table, text) ==
  LET chars == FlattenSeq([i \in 1..Len(text) |-> ZChars(v, table, Cut(text[i]))])
      padded == chars \o [i \in 1..Padding(Len(chars)) |-> 5]
      n == Len(padded) \div 3
      word(i) == padded[3 * i - 2] * 1024 + padded[3 * i - 1] * 32 + padded[3 * i]
                   + (IF i = n THEN 32768 ELSE 0)
  IN FlattenSeq([i \in 1..n |-> Word(word(i))])

----------------------------------------------------------------------------
(* Mutant: a branch on false returns where one on true should. *)
ReturnByteInverted(value, invert) ==
  (IF invert THEN 192 ELSE 64) + value

ReturnByte(value, invert) == (IF invert THEN 64 ELSE 192) + value

(* handle_opcode: an instruction is [form, args, store, branch, text],     *)
(* where store is << >> or << variable >>, branch is << >> or a return     *)
(* value and whether it is inverted, and text is << >> or << text >>.      *)
Bytes(v, table, i) ==
  OpcodeBytes(i.form.count, i.form.number, i.args)
    \o FlattenSeq([n \in 1..Len(i.args) |-> Written(i.args[n])])
    \o (IF i.branch = <<>> THEN <<>>
        ELSE <<ReturnByte(i.branch[1], i.branch[2])>>)
    \o (IF i.text = <<>> THEN <<>> ELSE EncodeString(v, table, i.text[1]))
    \o i.store
============================================================================

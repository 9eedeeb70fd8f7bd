----------------------------- MODULE ZdListing -----------------------------
(***************************************************************************)
(* What zd lists for one instruction (zd/src/dis.rs): its operands, store  *)
(* variable and branch, as interpret reads them, and its string, as        *)
(* decode_string_helper reads it.  A character is its code point; c is one *)
(* of Config of ZdDecode.                                                  *)
(***************************************************************************)
EXTENDS ZdDecode, SequencesExt

Newline == 10
Unreadable == 65533   \* shown for a code without a character

----------------------------------------------------------------------------
(* The alphabet of a story without one of its own, and the Unicode table:  *)
(* the entries the story's own table has replace the first of the default. *)

Letters(first) == [i \in 1..26 |-> first + i - 1]
Digits == [i \in 1..10 |-> 47 + i]

AlphabetTable(v) ==
  Letters(97) \o Letters(65) \o
    (IF v = 1
       THEN <<32>> \o Digits \o <<46, 44, 33, 63, 95, 35, 39, 34, 47, 92, 60,
                                  45, 58, 40, 41>>
       ELSE <<0, 13>> \o Digits \o <<46, 44, 33, 63, 95, 35, 39, 34, 47, 92,
                                     45, 58, 40, 41>>)

DefaultUnicodeTable ==
  <<228, 246, 252, 196, 214, 220, 223, 187, 171,
    235, 239, 255, 203, 207, 225, 233, 237, 243,
    250, 253, 193, 201, 205, 211, 218, 221, 224,
    232, 236, 242, 249, 192, 200, 204, 210, 217,
    226, 234, 238, 244, 251, 194, 202, 206, 212,
    219, 229, 197, 248, 216, 227, 241, 245, 195,
    209, 213, 230, 198, 231, 199, 254, 240, 222,
    208, 163, 339, 338, 161, 191>> \o [i \in 1..28 |-> 0]

UnicodeTable(own) ==
  [i \in 1..97 |-> IF i <= Len(own) THEN own[i] ELSE DefaultUnicodeTable[i]]

(* zscii_to_unicode; `own` is the story's table.  The three codes that zd  *)
(* shows as a picture of a control character are left as they are.         *)
ZsciiToUnicode(v, own, code) ==
  CASE code = 13 -> Newline
    [] code = 0 \/ (v = 6 /\ code \in {9, 11}) -> code
    [] code \in 32..126  -> code
    [] code \in 155..251 -> UnicodeTable(own)[code - 154]
    [] OTHER -> Unreadable

----------------------------------------------------------------------------
(* decode_string_helper: a state machine fed the Z-characters of a string. *)
(* What an abbreviation stands for is left out: a string with one is not   *)
(* ok.                                                                     *)

Fresh ==
  [alphabet |-> 0, shift |-> 0, tenbit |-> <<>>, text |-> <<>>, ok |-> TRUE]

Show(s, v, own, code) ==
  [s EXCEPT !.text = Append(@, ZsciiToUnicode(v, own, code)), !.shift = 0]

Row(s) == (s.alphabet + s.shift) % 3

(* In the middle of a ten-bit code, which <<-1>> begins.                   *)
TenBit(s, v, own, z) ==
  IF s.tenbit = <<-1>> THEN [s EXCEPT !.tenbit = <<z>>]
  ELSE [Show(s, v, own, s.tenbit[1] * 32 + z) EXCEPT !.tenbit = <<>>]

Control(s, v, own, z) ==
  CASE z = 0 -> Show(s, v, own, 32)
    [] z = 1 /\ v = 1 -> Show(s, v, own, 13)
    [] z \in {2, 3} /\ v <= 2 -> [s EXCEPT !.shift = z - 1]
    [] z \in {4, 5} /\ v <= 2 ->
         [s EXCEPT !.alphabet = ((@ + z) - 3) % 3, !.shift = 0]
    [] z \in {4, 5} /\ v > 2 -> [s EXCEPT !.shift = z - 3]
    [] OTHER -> [s EXCEPT !.ok = FALSE]

Letter(s, v, own, z) ==
  IF z = 6 /\ Row(s) = 2
    THEN [s EXCEPT !.tenbit = <<-1>>, !.shift = 0]
    ELSE Show(s, v, own, AlphabetTable(v)[26 * Row(s) + (z - 5)])

Character(s, v, own, z) ==
  IF ~s.ok THEN s
  ELSE IF s.tenbit # <<>> THEN TenBit(s, v, own, z)
  ELSE IF z < 6 THEN Control(s, v, own, z)
  ELSE Letter(s, v, own, z)

(* The Z-characters of the string at address a.                            *)
CharactersAt(c, a) ==
  LET end == StringEnd(c, a)
      word(i) == WordAt(c, a + 2 * (i - 1))
  IN FlattenSeq([i \in 1..((end - a) \div 2) |->
                  <<(word(i) \div 1024) % 32, (word(i) \div 32) % 32,
                    word(i) % 32>>])

(* The text of the string at a, or << >> if it has an abbreviation.        *)
DecodeString(c, a, own) ==
  LET s == FoldLeft(LAMBDA t, z : Character(t, c.zversion, own, z),
                    Fresh, CharactersAt(c, a))
  IN IF s.ok THEN <<s.text>> ELSE <<>>

----------------------------------------------------------------------------
(* The instruction at pc, and the address of the one after it.  The value  *)
(* of an operand is a constant or the number of a variable; a branch is    *)
(* << >> or what it returns and whether it is inverted.                    *)

Arguments(c, s) ==
  [i \in 1..Len(s.types) |->
     [variable |-> s.types[i] = Variable, value |-> Constant(c, s, i)]]

Listing(c, pc, own) ==
  LET s == Shape(c, pc)
      v == OpVersion(c)
      at == StoreEnd(c, s)
  IN [count |-> s.count,
      number |-> s.number,
      args |-> Arguments(c, s),
      store |-> IF Has(Stores[v], s) THEN <<ByteAt(c, at - 1)>> ELSE <<>>,
      branch |-> IF IsBranch(c, s)
                   THEN <<BranchOffset(c, at), ByteAt(c, at) < 128>> ELSE <<>>,
      text |-> IF IsPrint(s)
                 THEN DecodeString(c, AfterBranch(c, s), own) ELSE <<>>]

(* Whether there is a whole instruction, and one that zd knows, at pc.      *)
Readable(c, pc) ==
  LET s == Shape(c, pc)
  IN /\ OperandsEnd(s) <= Size(c)
     /\ Has(Known[OpVersion(c)], s)
     /\ End(c, s) <= Size(c)

NextAddress(c, pc) == End(c, Shape(c, pc))
============================================================================

----------------------------- MODULE RoundTrip -----------------------------
(***************************************************************************)
(* za and zd together: za assembles the instructions of a source one after *)
(* another (ZaEncode) and ends the file with the table of the characters   *)
(* its strings need; then zd disassembles the file (ZdInterpret), with all *)
(* that it does to a story: it goes into the routines that are called and  *)
(* the addresses that are jumped to, shows the texts printed from an       *)
(* address, and ends in an error where one of them lies outside memory.    *)
(***************************************************************************)
EXTENDS ZdInterpret, ZdListing

CONSTANTS
  Sources,      \* what za may be given: [version, before, lines]
  MaxUnicode

Za == INSTANCE ZaEncode

ZaForms == Za!Forms

(* An operand: a number, a variable by its value or by reference, a label, *)
(* which comes to a word (that it is the right one is for ZaAssembler).    *)
Argument ==
  [kind : {"constant", "label"}, value : {n \in Nat : n <= 65535}]
    \cup [kind : {"variable", "reference"}, value : 0..255]

(* A line: the form of its instruction, its operands, and the variable, the *)
(* branch and the text that the form asks for.                             *)
SourceLine ==
  [form : UNION {ZaForms[v] : v \in 1..8}, args : Seq(Argument),
   store : Seq(0..255), branch : {<<>>} \cup {0, 1} \X BOOLEAN,
   text : Seq(Seq(Nat))]

Accepted(v, i) ==
  /\ i.form \in ZaForms[v]
  /\ Len(i.args) = i.form.args
  /\ Len(i.store) = IF i.form.store THEN 1 ELSE 0
  /\ i.branch = <<>> <=> ~i.form.branch
  /\ Len(i.text) = IF i.form.text THEN 1 ELSE 0

(* What za has written, after the header, before the first instruction:    *)
(* from V5 on the header extension, three words, of which the last is for  *)
(* a Unicode table and is 0 as long as there is none; globals, objects, a  *)
(* dictionary; and in V6 the byte of the main routine at a packed address. *)
Extension == <<0, 3, 0, 0, 0, 0, 0, 0>>

Preceding(v, before) ==
  /\ before \in Seq(0..255)
  /\ 64 + Len(before) <= 65535
  /\ v >= 5 => /\ Len(before) >= 8
               /\ \A k \in 1..8 : before[k] = Extension[k]
  /\ v = 6 => Len(before) % 4 = 1

ASSUME SourcesAssumption ==
  \A s \in Sources :
    /\ s.version \in 1..8
    /\ Preceding(s.version, s.before)
    /\ s.lines \in Seq(SourceLine)
    /\ \A i \in 1..Len(s.lines) : Accepted(s.version, s.lines[i])

ASSUME TableAssumption == MaxUnicode \in 0..97

VARIABLES
  source,         \* one of Sources
  za_phase,       \* "assembling", then "done" or "failed"
  bytes,          \* the instructions za has written
  ends,           \* the address after each of them
  unicode_table   \* za's Unicode table

za_vars == <<source, za_phase, bytes, ends, unicode_table>>

Version == source.version

(* Where the instructions begin, and where line n + 1 does.                *)
CodeStart == 64 + Len(source.before)
Start(n) == IF n = 0 THEN CodeStart ELSE ends[n]
Line(n) == source.lines[n]

TripInit ==
  /\ source \in Sources
  /\ za_phase = "assembling"
  /\ bytes = <<>>
  /\ ends = <<>>
  /\ unicode_table = <<>>
  /\ config = <<>>
  /\ Idle

(* One instruction of the source; a string with a character that has no    *)
(* code ends za.                                                           *)
Assemble ==
  LET i == Line(Len(ends) + 1)
      text == IF i.text = <<>> THEN <<>> ELSE i.text[1]
      table == Za!TableAfter(Version, unicode_table, text)
      written == bytes \o Za!Bytes(Version, table, i)
  IN /\ za_phase = "assembling"
     /\ Len(ends) < Len(source.lines)
     /\ unicode_table' = table
     /\ IF Za!TextFails(Version, unicode_table, text)
          THEN za_phase' = "failed" /\ UNCHANGED <<bytes, ends>>
          ELSE /\ bytes' = written
               /\ ends' = Append(ends, CodeStart + Len(written))
               /\ UNCHANGED za_phase
     /\ UNCHANGED <<source, vars>>

----------------------------------------------------------------------------
(* The end of the file.                                                    *)

(* The Unicode table, if za has one to write, and the header extension     *)
(* that then names it.                                                     *)
TableBytes ==
  IF Version < 5 \/ unicode_table = <<>> THEN <<>>
  ELSE <<Len(unicode_table)>>
         \o FlattenSeq([n \in 1..Len(unicode_table) |->
                          Za!Word(unicode_table[n])])

TableAddress == CodeStart + Len(bytes)

Named ==
  IF TableBytes = <<>> THEN source.before
  ELSE [source.before EXCEPT ![7] = TableAddress \div 256,
                               ![8] = TableAddress % 256]

Alignment == IF Version <= 3 THEN 2 ELSE IF Version <= 7 THEN 4 ELSE 8
Divisor == IF Version <= 3 THEN 2 ELSE IF Version <= 5 THEN 4 ELSE 8

(* From V3 on the length is a multiple of the alignment (and 64 is one).   *)
PaddingAfter(length) == IF Version < 3 THEN 0 ELSE (-length) % Alignment

File ==
  LET unpadded == Named \o bytes \o TableBytes
  IN unpadded \o [n \in 1..PaddingAfter(Len(unpadded)) |-> 0]

TooLong ==
  \/ TableBytes # <<>> /\ TableAddress > 65535
  \/ Version >= 3 /\ (64 + Len(File)) \div Divisor > 65535

(* zd is given the file, without options.                                  *)
Story ==
  [zversion |-> Version, story |-> TRUE, code |-> File,
   start |-> IF Version = 6 THEN (CodeStart - 1) \div 4 ELSE CodeStart,
   r_o |-> 0, s_o |-> 0, ignore_errors |-> FALSE, max_instructions |-> <<>>,
   addresses |-> <<>>, start_offset |-> <<>>]

EndFile ==
  /\ za_phase = "assembling"
  /\ Len(ends) = Len(source.lines)
  /\ IF TooLong THEN za_phase' = "failed" /\ UNCHANGED config
                ELSE za_phase' = "done" /\ config' = Story
  /\ UNCHANGED <<source, bytes, ends, unicode_table>>
  /\ UNCHANGED <<phase, roots, rooted, interpreter, found>>

(* From then on za is done with the file and zd takes its steps.           *)
Disassemble == za_phase = "done" /\ Next /\ UNCHANGED za_vars

Failed == za_phase = "failed" /\ UNCHANGED <<za_vars, vars>>

TripNext == Assemble \/ EndFile \/ Disassemble \/ Failed

TripSpec == TripInit /\ [][TripNext]_<<za_vars, vars>>

(* The story's own Unicode table, as zd takes it from the file: the one    *)
(* the header extension names, which za writes at 64.                      *)
OwnTable(c) ==
  LET at == WordAt(c, 70)
  IN IF c.zversion < 5 \/ WordAt(c, 64) < 3 \/ at = 0 THEN <<>>
     ELSE [n \in 1..ByteAt(c, at) |-> WordAt(c, (at + 1) + 2 * (n - 1))]

----------------------------------------------------------------------------
(* What a line of the source means, in the terms of zd.                    *)

Operand(a) ==
  [variable |-> a.kind = "variable", value |-> a.value]

(* In a text ^ stands for a newline, and a character with no code of 16    *)
(* bits for the replacement character.                                     *)
Meant(text) ==
  [i \in 1..Len(text) |->
     IF text[i] = 94 THEN Newline
     ELSE IF text[i] > 65535 THEN 65533 ELSE text[i]]

Meaning(i) ==
  [count |-> IF i.form.count = "VarDouble" THEN "Var" ELSE i.form.count,
   number |-> i.form.number,
   args |-> [n \in 1..Len(i.args) |-> Operand(i.args[n])],
   store |-> i.store,
   branch |-> i.branch,
   text |-> IF i.text = <<>> THEN <<>> ELSE <<Meant(i.text[1])>>]

WithoutText(l) == [l EXCEPT !.text = <<>>]

(* What za and zd do not agree on: the order of a store variable and a     *)
(* branch; the result of get_parent and get_prop_len, which za takes for a *)
(* branch; tokenise, written with more operands than types; and throw and  *)
(* verify, which zd has in later versions only.                            *)
Disagreed(v, form) ==
  \/ form.store /\ form.branch
  \/ form.count = "One" /\ form.number \in {3, 4}
  \/ form.count = "Var" /\ form.number = 27
  \/ form.count = "Two" /\ form.number = 28 /\ v <= 4
  \/ form.count = "Zero" /\ form.number = 13 /\ v <= 2

(* A line after which control does not go on, and the lines that control   *)
(* comes to if it goes on after each that precedes them.                   *)
Returning(i) == Has(Returns, Meaning(i))
Reached(n) == \A m \in 1..(n - 1) : ~Returning(Line(m))

(* A line that names, other than by a variable, a text to be shown or a    *)
(* routine that is called; and one that jumps.                             *)
Names(i) ==
  LET m == Meaning(i)
      number(k) == k \in 1..Len(m.args) /\ ~m.args[k].variable
  IN \/ (IsPrintAddr(m) \/ IsPrintPaddr(m)) /\ number(1)
     \/ number(CallOperand(config, m))

Jumps(i) == IsJump(Meaning(i)) /\ i.args[1].kind # "variable"

Listed(n) == \E k \in 1..Len(instructions) : instructions[k] = Start(n - 1)

Outermost == IF stack = <<>> THEN pc ELSE stack[1].pc

(* zd never loses its place: its outermost call goes from line to line, in *)
(* the order za wrote them and wherever the calls within it lead, up to    *)
(* the first that returns; only if none does, it comes to what za wrote    *)
(* behind them.                                                            *)
InStep ==
  rooted = 1 =>
    \/ \E n \in 0..Len(source.lines) : Reached(n) /\ Outermost = Start(n)
    \/ /\ Reached(Len(source.lines) + 1)
       /\ Outermost > Start(Len(source.lines))

(* Every instruction za writes is one that zd knows, and whole: zd is in   *)
(* error at a line only over a text or a routine that the line names, and  *)
(* elsewhere only if a line names or jumps to an address, or none returns. *)
ErrorsNamed ==
  phase \in {"error", "panic"} =>
    /\ \A n \in 1..Len(source.lines) : pc = Start(n - 1) => Names(Line(n))
    /\ \/ \E n \in 1..Len(source.lines) : Names(Line(n)) \/ Jumps(Line(n))
       \/ Reached(Len(source.lines) + 1)

(* And it leaves none out: in the end it has listed each line up to the    *)
(* first that returns, whatever was called and jumped to in between.       *)
AllListed ==
  phase = "done" =>
    \A n \in 1..Len(source.lines) : Reached(n) => Listed(n)

Entry(n) == Listing(config, Start(n - 1), OwnTable(config))

(* Each instruction reads as the source has it: the opcode, each operand's *)
(* type and value, the variable stored to, and what the branch returns.    *)
InstructionsReadBack ==
  \A n \in 1..Len(source.lines) :
    za_phase = "done" /\ Listed(n) =>
      WithoutText(Entry(n)) = WithoutText(Meaning(Line(n)))

(* Each string reads as the source has it, through shifts, ten-bit codes   *)
(* and padding, and, with the table the file has in the end, the           *)
(* characters that earlier and later strings added to it.                  *)
TextsReadBack ==
  \A n \in 1..Len(source.lines) :
    za_phase = "done" /\ Listed(n) => Entry(n).text = Meaning(Line(n)).text

(* "If you are using an opcode which takes both a store and a branch       *)
(* (get_sibling, get_child, or scan_table), you must put the store before  *)
(* the branch" (za/README.md:248): the variable and the branch of such an  *)
(* instruction read as the source has them.                                *)
ResultsReadBack ==
  \A n \in 1..Len(source.lines) :
    za_phase = "done" /\ Listed(n) =>
      /\ Entry(n).store = Line(n).store
      /\ Entry(n).branch = Line(n).branch
============================================================================

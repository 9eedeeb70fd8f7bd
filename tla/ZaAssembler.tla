---------------------------- MODULE ZaAssembler ----------------------------
(***************************************************************************)
(* The single-pass assembler of za (za/src/asm/mod.rs).  A source line is  *)
(* one directive; each directive appends bytes to the output file at the   *)
(* current position, patches a header word, defines a label, or records    *)
(* that an operand or a branch refers to a label.  When the source ends,   *)
(* apply_label_targets patches every recorded reference with the address   *)
(* its label turned out to have, and end_file writes the Unicode table,    *)
(* the padding, the file length and the checksum.                          *)
(*                                                                         *)
(* The output file is modelled from the address Origin on: `file` is the   *)
(* sequence of the cells written there, and the position (tell) is         *)
(* Origin + Len(file).  Below Origin lie the header, kept as a record, the *)
(* globals, and zeros that no directive touches again.  A cell is a byte;  *)
(* the bytes of an encoded string are all the opaque value TextCell: how   *)
(* characters become bytes is left out, and so is how an instruction's     *)
(* operands decide its form.  Definitions that mutants use are marked so.  *)
(***************************************************************************)
EXTENDS Integers, Sequences, TLC

CONSTANTS
  ZVersion,      \* the -z option: 1..8
  Preallocate,   \* the --preallocate-unicode-table option
  Origin,        \* address of the first modelled cell (see above)
  Labels,        \* label names of the source
  Instructions,  \* the instructions the source may contain
  Texts,         \* the strings the source may contain
  Latin,         \* characters the pre-V5 ZSCII set has a code for
  Tables,        \* character lists a unicode_table directive may give
  ByteLists,     \* arguments of a byte directive
  Sizes,         \* arguments of seek, seeknop and align
  Offsets,       \* arguments of seekabs and seeknopabs
  LocalCounts,   \* local counts of a routine or V6 start directive
  LocalValues,   \* lists of initial local values of a routine directive
  GlobalValues,  \* values a set_global directive may give
  MaxUnicode,    \* entries a Unicode table may hold: 97 in the code
  MaxLines,      \* bound: source lines
  NoLabel, NoText, TextCell

Byte == 0..255
Word == {n \in Nat : n <= 65535}
Cell == Byte \cup {TextCell}

(***************************************************************************)
(* An operand is the bytes it occupies, or a reference to a label, which   *)
(* occupies a zero word until it is patched.                               *)
(***************************************************************************)
Operand ==
  [kind : {"bytes"}, bytes : Seq(Byte), label : {NoLabel}]
    \cup [kind : {"packed", "unpacked", "jump"}, bytes : {<<0, 0>>},
          label : Labels]

BranchPart ==
  [kind : {"none"}, byte : {0}, label : {NoLabel},
   invert : {FALSE}, small : {FALSE}]
    \cup [kind : {"return"}, byte : {193, 65, 192, 64}, label : {NoLabel},
          invert : {FALSE}, small : {FALSE}]
    \cup [kind : {"label"}, byte : {0}, label : Labels,
          invert : BOOLEAN, small : BOOLEAN]

(* A string is its encoded length and the one character outside the        *)
(* alphabet tables it may hold (0 for none): several characters in one     *)
(* string reach the Unicode table as those of several strings would.       *)
Text == [len : Nat \ {0}, char : Nat]

(* `head` is the opcode byte or bytes with the operand types.              *)
Instruction ==
  [head : Seq(Byte), args : Seq(Operand), branch : BranchPart,
   text : Texts \cup {NoText}, store : Seq(Byte)]

(* A recorded reference: Target and LabelTarget of the code.               *)
Target ==
  [kind : {"packed", "unpacked", "jump", "branch"}, label : Labels,
   from : Nat, invert : BOOLEAN, small : BOOLEAN]

ASSUME OptionsAssumption ==
  /\ ZVersion \in 1..8
  /\ Preallocate \in BOOLEAN
  /\ Preallocate => ZVersion >= 5         \* main.rs refuses it otherwise
  /\ Origin \in Nat /\ Origin >= 64
  /\ Preallocate => Origin >= 64 + 195 /\ Origin - 195 \in Word
  /\ MaxUnicode \in Byte
  /\ MaxLines \in Nat

ASSUME SourceAssumption ==
  /\ Texts \subseteq Text
  /\ Instructions \subseteq Instruction
  /\ Tables \subseteq Seq(Nat)
  /\ ByteLists \subseteq Seq(Nat)
  /\ Sizes \subseteq Nat /\ Offsets \subseteq Nat
  /\ LocalCounts \subseteq Nat
  /\ LocalValues \subseteq Seq(Nat)
  /\ GlobalValues \subseteq Nat

ASSUME DistinctAssumption ==
  /\ NoLabel \notin Labels
  /\ NoText \notin Texts
  /\ TextCell \notin Byte

VARIABLES
  phase,      \* what the program is doing, see TypeOK
  lineno,     \* lines read so far
  file,       \* cells of the output file from Origin on
  header,     \* the header words the assembler fills in
  started,    \* a start directive was seen
  labels,     \* label name -> address
  label_targets,  \* the references recorded so far, in order
  applied,    \* how many of them apply_label_targets has patched
  ins,        \* the instruction being encoded, its written operands removed
  buf,        \* the bytes of that instruction so far
  unicode_table,         \* characters used, in order of first use
  custom_unicode_table,  \* << >> or << table >> once a directive gave one
  preallocated           \* the table held by the preallocated space

text_vars == <<unicode_table, custom_unicode_table, preallocated>>
vars == <<phase, lineno, file, header, started, labels, label_targets,
          applied, ins, buf, text_vars>>

----------------------------------------------------------------------------
(* Addresses and widths.                                                   *)

Alignment == IF ZVersion <= 3 THEN 2 ELSE IF ZVersion <= 7 THEN 4 ELSE 8

(* Mutant: rounds down. *)
RoundDown(v, multiple) == multiple * (v \div multiple)
RoundUp(v, multiple) == multiple * (((v - 1) \div multiple) + 1)

Fill(n, b) == [i \in 1..n |-> b]

(* The bytes of a sequence of words.                                       *)
Words(w) ==
  [i \in 1..(2 * Len(w)) |-> IF i % 2 = 1 THEN w[(i + 1) \div 2] \div 256
                                          ELSE w[i \div 2] % 256]

Position == Origin + Len(file)

(* seekalign: the file, padded with zeros to a routine boundary.           *)
Aligned == file \o Fill(RoundUp(Position, Alignment) - Position, 0)

Max16 == 65535

----------------------------------------------------------------------------
(* start_file reserves 195 bytes as the last thing it does: a count and 97 *)
(* words (no seek may open a source modelled with the option).             *)
PreallocatedAt == Origin - 195

NoInstruction ==
  [head |-> <<>>, args |-> <<>>,
   branch |-> [kind |-> "none", byte |-> 0, label |-> NoLabel,
               invert |-> FALSE, small |-> FALSE],
   text |-> NoText, store |-> <<>>]

EmptyHeader ==
  [static |-> 0, dict |-> 0, pc |-> 0, unicode |-> 0, length |-> 0,
   flags1 |-> 0, global |-> 0, checksum |-> <<>>]

Init ==
  /\ phase = "source"
  /\ lineno = 0
  /\ file = <<>>
  /\ header = [EmptyHeader EXCEPT
                 !.global = IF ZVersion <= 3 THEN 1 ELSE 0,
                 !.unicode = IF Preallocate THEN PreallocatedAt ELSE 0]
  /\ started = FALSE
  /\ labels = [l \in {} |-> 0]
  /\ label_targets = <<>>
  /\ applied = 0
  /\ ins = NoInstruction
  /\ buf = <<>>
  /\ unicode_table = <<>>
  /\ custom_unicode_table = <<>>
  /\ preallocated = <<>>

(* Every directive reads a line; a failing one ends the program with the   *)
(* writes made before the failure left in the file.                        *)
ReadLine ==
  /\ phase = "source"
  /\ lineno < MaxLines
  /\ lineno' = lineno + 1

Fail == phase' = "error"

----------------------------------------------------------------------------
(* Directives that append to the file.                                     *)

not_appending == <<header, started, labels, label_targets, applied, ins,
                   buf, text_vars>>

Seek(n, b) ==
  /\ ReadLine
  /\ file' = file \o Fill(n, b)
  /\ UNCHANGED <<phase, not_appending>>

SeekAbs(offset, b) ==
  /\ ReadLine
  /\ IF offset < Position
       THEN Fail /\ UNCHANGED file
       ELSE file' = file \o Fill(offset - Position, b) /\ UNCHANGED phase
  /\ UNCHANGED not_appending

DefaultAlign ==
  /\ ReadLine
  /\ file' = Aligned
  /\ UNCHANGED <<phase, not_appending>>

Align(n) ==
  /\ ReadLine
  /\ IF n = 0
       THEN Fail /\ UNCHANGED file
       ELSE /\ file' = file \o Fill(RoundUp(Position, n) - Position, 0)
            /\ UNCHANGED phase
  /\ UNCHANGED not_appending

ByteDirective(bytes) ==
  /\ ReadLine
  /\ IF \E i \in 1..Len(bytes) : bytes[i] > 255
       THEN Fail /\ UNCHANGED file
       ELSE file' = file \o bytes /\ UNCHANGED phase
  /\ UNCHANGED not_appending

----------------------------------------------------------------------------
(* Labels and routines.                                                    *)

(* HashMap::insert replaces the old address before the duplicate is seen.  *)
DefineLabel(l, at) ==
  labels' = [k \in DOMAIN labels \cup {l} |-> IF k = l THEN at ELSE labels[k]]

Label(l) ==
  /\ ReadLine
  /\ DefineLabel(l, Position)
  /\ IF l \in DOMAIN labels THEN Fail ELSE UNCHANGED phase
  /\ UNCHANGED <<file, header, started, label_targets, applied, ins, buf,
                 text_vars>>

AlignedLabel(l) ==
  /\ ReadLine
  /\ file' = Aligned
  /\ DefineLabel(l, Origin + Len(Aligned))
  /\ IF l \in DOMAIN labels THEN Fail ELSE UNCHANGED phase
  /\ UNCHANGED <<header, started, label_targets, applied, ins, buf,
                 text_vars>>

(* The initial values of n locals that follow a V1-4 routine header.       *)
LocalWords(values, n) ==
  Words([i \in 1..n |-> IF i <= Len(values) THEN values[i] ELSE 0])

(* routine_directive, on the file f it finds; nlocals arrives as a u8.  Of *)
(* a list of values with one too large for a word, the words before it,    *)
(* which the code still writes, are left out.                              *)
RoutineAt(f, l, nlocals, values) ==
  LET n == nlocals % 256
      valid == /\ n <= 15
               /\ Len(values) <= n
               /\ ZVersion <= 4 => \A i \in 1..Len(values) : values[i] <= Max16
  IN /\ DefineLabel(l, Origin + Len(f))
     /\ \/ /\ l \in DOMAIN labels
           /\ Fail
           /\ file' = f
        \/ /\ l \notin DOMAIN labels
           /\ ~valid
           /\ Fail
           /\ file' = f \o <<n>>
        \/ /\ l \notin DOMAIN labels
           /\ valid
           /\ file' = f \o (<<n>> \o IF ZVersion <= 4 THEN LocalWords(values, n)
                                                    ELSE <<>>)
           /\ UNCHANGED phase

Routine(l, nlocals, values) ==
  /\ ReadLine
  /\ RoutineAt(Aligned, l, nlocals, values)
  /\ UNCHANGED <<header, started, label_targets, applied, ins, buf,
                 text_vars>>

----------------------------------------------------------------------------
(* Start, and the directives that write the header and the globals.        *)

(* Mutant: the number of entries in three bytes. *)
LongDictionary == <<0, 6, 0, 0, 0>>
Dictionary == <<0, 6, 0, 0>>

(* The static-memory, high-memory and dictionary words are patched, then   *)
(* the empty dictionary is written, then the entry point is known.         *)
Start(l, nlocals) ==
  LET withDict == file \o Dictionary
      pc == Origin + Len(withDict)
      main == withDict \o Fill(RoundUp(pc, Alignment) - pc, 0)
      packed == (Origin + Len(main)) \div Alignment
      tables == [header EXCEPT !.static = Position, !.dict = Position]
  IN /\ ReadLine
     /\ UNCHANGED <<label_targets, applied, ins, buf, text_vars>>
     /\ \/ /\ started \/ Position > Max16
           /\ Fail
           /\ UNCHANGED <<file, header, started, labels>>
        \/ /\ ~started /\ Position <= Max16
           /\ ZVersion # 6
           /\ file' = withDict
           /\ UNCHANGED labels
           /\ IF pc > Max16
                THEN Fail /\ header' = tables /\ UNCHANGED started
                ELSE /\ header' = [tables EXCEPT !.pc = pc]
                     /\ started' = TRUE
                     /\ UNCHANGED phase
        \/ /\ ~started /\ Position <= Max16
           /\ ZVersion = 6
           /\ header' = [tables EXCEPT !.pc = packed]
           /\ RoutineAt(main, l, nlocals, <<>>)
           /\ started' = (phase' # "error")

Status(flags) ==
  /\ ReadLine
  /\ ZVersion = 3                        \* only the V3 grammar has `status`
  /\ header' = [header EXCEPT !.flags1 = flags]
  /\ UNCHANGED <<phase, file, started, labels, label_targets, applied, ins,
                 buf, text_vars>>

(* One global stands for all: G00, which V1-3 preset to the object 1.      *)
SetGlobal(value) ==
  /\ ReadLine
  /\ IF started \/ value > Max16
       THEN Fail /\ UNCHANGED header
       ELSE header' = [header EXCEPT !.global = value] /\ UNCHANGED phase
  /\ UNCHANGED <<file, started, labels, label_targets, applied, ins, buf,
                 text_vars>>

----------------------------------------------------------------------------
(* Characters and Unicode tables.                                          *)

InTable(table, c) == \E i \in 1..Len(table) : table[i] = c

(* encode_string's use of the table for a string t: the table afterwards   *)
(* and whether encoding fails.  A character not yet in the table is pushed *)
(* before the limit is checked.                                            *)
TableAfter(t) ==
  IF t.char = 0 \/ ZVersion < 5 \/ InTable(unicode_table, t.char)
    THEN unicode_table
    ELSE Append(unicode_table, t.char)

TextFails(t) ==
  /\ t.char # 0
  /\ IF ZVersion < 5 THEN t.char \notin Latin
                     ELSE Len(TableAfter(t)) > MaxUnicode

TextBytes(t) == Fill(t.len, TextCell)

String(t) ==
  /\ ReadLine
  /\ unicode_table' = TableAfter(t)
  /\ IF TextFails(t)
       THEN Fail /\ UNCHANGED file
       ELSE file' = file \o TextBytes(t) /\ UNCHANGED phase
  /\ UNCHANGED <<header, started, labels, label_targets, applied, ins, buf,
                 custom_unicode_table, preallocated>>

(* write_unicode_table: to the preallocated space, or appended with the    *)
(* header extension pointing at it.                                        *)
TableFails(table) ==
  \/ Len(table) > MaxUnicode
  \/ \E i \in 1..Len(table) : table[i] > Max16
  \/ /\ ZVersion >= 5 /\ Len(table) > 0 /\ ~Preallocate
     /\ Position > Max16

WritesTable(table) == ZVersion >= 5 /\ Len(table) > 0

TableBytes(table) ==
  IF WritesTable(table) /\ ~Preallocate
    THEN <<Len(table)>> \o Words(table)
    ELSE <<>>

(* Mutant: does not ask where the table is. *)
TablePointerMoved(table) ==
  IF WritesTable(table) THEN Position ELSE header.unicode

TablePointer(table) ==
  IF WritesTable(table) /\ ~Preallocate THEN Position ELSE header.unicode

PreallocatedAfter(table) ==
  IF WritesTable(table) /\ Preallocate THEN table ELSE preallocated

UnicodeTable(table) ==
  /\ ReadLine
  /\ ZVersion >= 5
  /\ UNCHANGED <<started, labels, label_targets, applied, ins, buf,
                 unicode_table>>
  /\ \/ /\ custom_unicode_table # <<>>
        /\ Fail
        /\ UNCHANGED <<file, header, custom_unicode_table, preallocated>>
     \/ /\ custom_unicode_table = <<>>
        /\ custom_unicode_table' = <<table>>
        /\ IF TableFails(table)
             THEN Fail /\ UNCHANGED <<file, header, preallocated>>
             ELSE /\ file' = file \o TableBytes(table)
                  /\ header' = [header EXCEPT !.unicode = TablePointer(table)]
                  /\ preallocated' = PreallocatedAfter(table)
                  /\ UNCHANGED phase

----------------------------------------------------------------------------
(* Instructions.  HandleOpcode starts one; Opcode::encode writes the head  *)
(* and the operands one by one into buf; EndOpcode adds the branch, the    *)
(* string and the store variable and writes buf to the file.               *)

Reference(kind, label, from, invert, small) ==
  [kind |-> kind, label |-> label, from |-> from, invert |-> invert,
   small |-> small]

HandleOpcode(i) ==
  /\ ReadLine
  /\ phase' = "operands"
  /\ ins' = i
  /\ buf' = i.head
  /\ UNCHANGED <<file, header, started, labels, label_targets, applied,
                 text_vars>>

WriteOperand ==
  LET a == Head(ins.args)
  IN /\ phase = "operands"
     /\ ins.args # <<>>
     /\ ins' = [ins EXCEPT !.args = Tail(@)]
     /\ buf' = buf \o a.bytes
     /\ label_targets' =
          IF a.kind = "bytes" THEN label_targets
          ELSE Append(label_targets,
                      Reference(a.kind, a.label, Position + Len(buf),
                                FALSE, FALSE))
     /\ UNCHANGED <<phase, lineno, file, header, started, labels, applied,
                    text_vars>>

(* Mutant: one byte for every branch. *)
BranchBytesShort(b) ==
  CASE b.kind = "none"   -> <<>>
    [] b.kind = "return" -> <<b.byte>>
    [] b.kind = "label"  -> <<0>>

BranchBytes(b) ==
  CASE b.kind = "none"   -> <<>>
    [] b.kind = "return" -> <<b.byte>>
    [] b.kind = "label"  -> IF b.small THEN <<0>> ELSE <<0, 0>>

EndOpcode ==
  LET b == ins.branch
      t == ins.text
      fails == t # NoText /\ TextFails(t)
  IN /\ phase = "operands"
     /\ ins.args = <<>>
     /\ label_targets' =
          IF b.kind = "label"
            THEN Append(label_targets,
                        Reference("branch", b.label, Position + Len(buf),
                                  b.invert, b.small))
            ELSE label_targets
     /\ unicode_table' = IF t = NoText THEN unicode_table ELSE TableAfter(t)
     /\ file' = IF fails THEN file
                ELSE file \o (buf \o BranchBytes(b)
                       \o (IF t = NoText THEN <<>> ELSE TextBytes(t))
                       \o ins.store)
     /\ phase' = IF fails THEN "error" ELSE "source"
     /\ ins' = NoInstruction
     /\ buf' = <<>>
     /\ UNCHANGED <<lineno, header, started, labels, applied,
                    custom_unicode_table, preallocated>>

----------------------------------------------------------------------------
(* The end of the source: end_file.                                        *)

EndOfSource ==
  /\ phase = "source"
  /\ phase' = "link"
  /\ UNCHANGED <<lineno, file, header, started, labels, label_targets,
                 applied, ins, buf, text_vars>>

Width(t) == IF t.kind = "branch" /\ t.small THEN 1 ELSE 2

(* Mutant: a small branch counted from the end of a long one. *)
TargetValueLong(t, to) ==
  CASE t.kind = "packed"   -> to \div Alignment
    [] t.kind = "unpacked" -> to
    [] t.kind \in {"jump", "branch"} -> to - t.from

(* The number a reference t to the address `to` is patched with, before it *)
(* is cut to the width of its field.                                       *)
TargetValue(t, to) ==
  CASE t.kind = "packed"   -> to \div Alignment
    [] t.kind = "unpacked" -> to
    [] t.kind = "jump"     -> to - t.from
    [] t.kind = "branch"   -> IF t.small THEN (to - t.from) + 1 ELSE to - t.from

(* Mutants: no check of the alignment, of a negative small branch. *)
ValueFitsUnaligned(t, to) ==
  LET v == TargetValue(t, to)
  IN CASE t.kind \in {"packed", "unpacked"} -> v <= Max16
       [] t.kind = "jump"   -> -32768 <= v /\ v <= 32767
       [] t.kind = "branch" -> IF t.small THEN 0 <= v /\ v <= 63
                               ELSE -8192 <= v /\ v <= 8191

ValueFitsBackwards(t, to) ==
  LET v == TargetValue(t, to)
  IN CASE t.kind = "packed"   -> to % Alignment = 0 /\ v <= Max16
       [] t.kind = "unpacked" -> v <= Max16
       [] t.kind = "jump"     -> v <= 32767
       [] t.kind = "branch"   -> v <= (IF t.small THEN 63 ELSE 8191)

ValueFits(t, to) ==
  LET v == TargetValue(t, to)
  IN CASE t.kind = "packed"   -> to % Alignment = 0 /\ v <= Max16
       [] t.kind = "unpacked" -> v <= Max16
       [] t.kind = "jump"     -> -32768 <= v /\ v <= 32767
       [] t.kind = "branch"   -> IF t.small THEN 0 <= v /\ v <= 63
                                 ELSE -8192 <= v /\ v <= 8191

(* Mutant: a jump backwards keeps its sign. *)
FieldSigned(t, to) ==
  LET v == TargetValue(t, to)
  IN CASE t.kind \in {"packed", "unpacked", "jump"} -> v
       [] t.kind = "branch" ->
            IF t.small THEN (v % 64) + 64 + (IF t.invert THEN 0 ELSE 128)
            ELSE (v % 16384) + (IF t.invert THEN 0 ELSE 32768)

(* The field: the value in two's complement, with the branch flags.        *)
Field(t, to) ==
  LET v == TargetValue(t, to)
  IN CASE t.kind \in {"packed", "unpacked"} -> v
       [] t.kind = "jump"   -> v % 65536
       [] t.kind = "branch" ->
            IF t.small THEN (v % 64) + 64 + (IF t.invert THEN 0 ELSE 128)
            ELSE (v % 16384) + (IF t.invert THEN 0 ELSE 32768)

(* Mutant: two bytes whatever the width. *)
PatchWord(f, t, field) ==
  LET i == (t.from - Origin) + 1
  IN [f EXCEPT ![i] = field \div 256, ![i + 1] = field % 256]

(* The cell at address a once the field of t is written over file f.       *)
Patch(f, t, field) ==
  LET i == (t.from - Origin) + 1
  IN IF Width(t) = 1
       THEN [f EXCEPT ![i] = field]
       ELSE [f EXCEPT ![i] = field \div 256, ![i + 1] = field % 256]

ApplyTarget ==
  LET t == label_targets[applied + 1]
  IN /\ phase = "link"
     /\ applied < Len(label_targets)
     /\ IF t.label \in DOMAIN labels /\ ValueFits(t, labels[t.label])
          THEN /\ file' = Patch(file, t, Field(t, labels[t.label]))
               /\ applied' = applied + 1
               /\ UNCHANGED phase
          ELSE Fail /\ UNCHANGED <<file, applied>>
     /\ UNCHANGED <<lineno, header, started, labels, label_targets, ins, buf,
                    text_vars>>

Divisor == IF ZVersion <= 3 THEN 2 ELSE IF ZVersion <= 5 THEN 4 ELSE 8

(* The rest of end_file.  V1 and V2 have no length and no checksum.  The   *)
(* checksum is modelled by the cells it adds up.  A missing start          *)
(* directive is only reported once the file is complete.                   *)
FinishFile ==
  LET table == IF custom_unicode_table = <<>> THEN unicode_table ELSE <<>>
      whole == file \o TableBytes(table)
      size == RoundUp(Origin + Len(whole), Alignment)
      padding == Fill(size - (Origin + Len(whole)), 0)
      pointed == [header EXCEPT !.unicode = TablePointer(table)]
      length == size \div Divisor
  IN /\ phase = "link"
     /\ applied = Len(label_targets)
     /\ UNCHANGED <<lineno, started, labels, label_targets, applied, ins, buf,
                    unicode_table, custom_unicode_table>>
     /\ \/ /\ TableFails(table)
           /\ Fail
           /\ UNCHANGED <<file, header, preallocated>>
        \/ /\ ~TableFails(table)
           /\ preallocated' = PreallocatedAfter(table)
           /\ IF ZVersion < 3
                THEN file' = whole /\ header' = pointed
                ELSE /\ file' = whole \o padding
                     /\ header' = IF length > Max16 THEN pointed
                                  ELSE [pointed EXCEPT !.length = length,
                                                       !.checksum = whole]
           /\ phase' = IF started /\ (ZVersion >= 3 => length <= Max16)
                         THEN "done" ELSE "error"

Finished == phase \in {"done", "error"} /\ UNCHANGED vars

Next ==
  \/ \E n \in Sizes, b \in {0, 180} : Seek(n, b)
  \/ \E o \in Offsets, b \in {0, 180} : SeekAbs(o, b)
  \/ DefaultAlign
  \/ \E n \in Sizes : Align(n)
  \/ \E bytes \in ByteLists : ByteDirective(bytes)
  \/ \E l \in Labels : Label(l)
  \/ \E l \in Labels : AlignedLabel(l)
  \/ \E l \in Labels, n \in LocalCounts, v \in LocalValues : Routine(l, n, v)
  \/ \E l \in Labels, n \in LocalCounts : Start(l, n)
  \/ \E flags \in {0, 2} : Status(flags)
  \/ \E v \in GlobalValues : SetGlobal(v)
  \/ \E t \in Texts : String(t)
  \/ \E table \in Tables : UnicodeTable(table)
  \/ \E i \in Instructions : HandleOpcode(i)
  \/ WriteOperand
  \/ EndOpcode
  \/ EndOfSource
  \/ ApplyTarget
  \/ FinishFile
  \/ Finished

Spec == Init /\ [][Next]_vars

----------------------------------------------------------------------------
(* Types.                                                                  *)

Header ==
  [static : Word, dict : Word, pc : Word, unicode : Word, length : Word,
   flags1 : {0, 2}, global : Word, checksum : Seq(Cell)]

ControlType ==
  /\ phase \in {"source", "operands", "link", "done", "error"}
  /\ lineno \in 0..MaxLines
  /\ started \in BOOLEAN

LabelsType ==
  /\ DOMAIN labels \subseteq Labels
  /\ \A l \in DOMAIN labels : labels[l] \in Nat

TargetsType ==
  /\ label_targets \in Seq(Target)
  /\ applied \in 0..Len(label_targets)

InstructionType ==
  /\ ins \in Instruction
  /\ buf \in Seq(Byte)

TablesType ==
  /\ unicode_table \in Seq(Nat)
  /\ \/ custom_unicode_table = <<>>
     \/ \E table \in Tables : custom_unicode_table = <<table>>
  /\ preallocated \in Seq(Nat)

(* The types of the state: in particular every header word fits 16 bits    *)
(* and no label address is negative.                                       *)
TypeOK ==
  /\ ControlType
  /\ file \in Seq(Cell)
  /\ header \in Header
  /\ LabelsType
  /\ TargetsType
  /\ InstructionType
  /\ TablesType

----------------------------------------------------------------------------
(* What the file says, read the way the disassembler zd reads it           *)
(* (zd/src/dis.rs).                                                        *)

ByteAt(a) == file[(a - Origin) + 1]
WordAt(a) == ByteAt(a) * 256 + ByteAt(a + 1)

(* The number that w encodes in two's complement, in 2 * half values.      *)
Signed(w, half) == IF w >= half THEN w - 2 * half ELSE w

(* The branch data at address a: how many bytes, and the offset.           *)
ShortBranch(a) == (ByteAt(a) \div 64) % 2 = 1
BranchOffset(a) ==
  IF ShortBranch(a) THEN ByteAt(a) % 64 ELSE Signed(WordAt(a) % 16384, 8192)
BranchNext(a) == IF ShortBranch(a) THEN a + 1 ELSE a + 2
BranchIfTrue(a) == ByteAt(a) >= 128

(* The address that the field of reference t denotes.                      *)
Denotes(t) ==
  CASE t.kind = "packed"   -> WordAt(t.from) * Alignment
    [] t.kind = "unpacked" -> WordAt(t.from)
    [] t.kind = "jump"     -> ((t.from + 2) + Signed(WordAt(t.from), 32768)) - 2
    [] t.kind = "branch"   -> (BranchNext(t.from) + BranchOffset(t.from)) - 2

----------------------------------------------------------------------------
(* Safety.                                                                 *)

(* The fields the assembler will patch lie inside what is written or about *)
(* to be written, in the order they were recorded, and never overlap:      *)
(* patching one reference cannot damage another, however the operands,     *)
(* branches and directives that recorded them alternate.                   *)
FieldsApart ==
  phase # "error" =>
    /\ \A i \in 1..Len(label_targets) :
         /\ Origin <= label_targets[i].from
         /\ label_targets[i].from + Width(label_targets[i])
              <= Position + Len(buf)
    /\ \A i, j \in 1..Len(label_targets) :
         i < j => label_targets[i].from + Width(label_targets[i])
                    <= label_targets[j].from

Resolved(t) ==
  /\ t.label \in DOMAIN labels
  /\ Denotes(t) = labels[t.label]
  /\ t.kind = "branch" => /\ ShortBranch(t.from) = t.small
                          /\ BranchIfTrue(t.from) = ~t.invert

(* Once a reference is patched it denotes, for zd, the address its label   *)
(* was defined at, and a branch keeps its sense: and it goes on doing so   *)
(* while later references, the Unicode table and the padding are written.  *)
ReferencesResolved ==
  phase \in {"link", "done"} => \A i \in 1..applied : Resolved(label_targets[i])

(* Nothing ends well with a reference left unpatched.                      *)
AllLinked == phase = "done" => applied = Len(label_targets)

(* A byte once written is changed only as part of the field of the         *)
(* reference being patched: no directive, table or padding writes back.    *)
WrittenOnce ==
  [][\A i \in 1..Len(file) :
       \/ /\ i <= Len(file')
          /\ file'[i] = file[i]
       \/ /\ applied < Len(label_targets)
          /\ applied' = applied + 1
          /\ LET t == label_targets[applied + 1]
             IN (Origin + i) - 1 \in t.from..(t.from + Width(t)) - 1]_vars

(* The entry point an interpreter finds in the header is the code that     *)
(* follows the dictionary in static memory: in V6 the packed address of    *)
(* the main routine, which is a label with its local count.                *)
EntryPoint ==
  started /\ phase # "error" =>
    /\ header.static = header.dict
    /\ \A i \in 1..4 : ByteAt(header.dict + (i - 1)) = Dictionary[i]
    /\ ZVersion # 6 => header.pc = header.dict + 4
    /\ ZVersion = 6 =>
         \E l \in DOMAIN labels :
           /\ labels[l] = header.pc * Alignment
           /\ labels[l] >= header.dict + 4
           /\ labels[l] < header.dict + 4 + Alignment
           /\ ByteAt(labels[l]) <= 15

(* The header's length is that of the file and the bytes the checksum adds *)
(* up are those of the finished file, so that `verify` succeeds.           *)
LengthAndChecksum ==
  phase = "done" /\ ZVersion >= 3 =>
    /\ header.length * Divisor = Position
    /\ Len(header.checksum) <= Len(file)
    /\ \A i \in 1..Len(file) :
         IF i <= Len(header.checksum) THEN file[i] = header.checksum[i]
                                      ELSE file[i] = 0

(* A finished V5+ story whose strings used characters of their own has     *)
(* them, in order of first use, in the table its header extension names.   *)
UnicodeTableFound ==
  /\ phase = "done"
  /\ ZVersion >= 5
  /\ custom_unicode_table = <<>>
  /\ unicode_table # <<>>
  => LET at == header.unicode
     IN IF Preallocate
          THEN at = PreallocatedAt /\ preallocated = unicode_table
          ELSE /\ ByteAt(at) = Len(unicode_table)
               /\ \A i \in 1..Len(unicode_table) :
                    WordAt(at + 2 * i - 1) = unicode_table[i]

(* A branch to a label is a branch: its field is none of the two offsets   *)
(* that mean "return false" and "return true".                             *)
LabelledBranchesBranch ==
  phase \in {"link", "done"} =>
    \A i \in 1..applied :
      label_targets[i].kind = "branch" =>
        BranchOffset(label_targets[i].from) \notin {0, 1}
============================================================================

------------------------- MODULE ZaAssembler_proof -------------------------
(***************************************************************************)
(* Theorems about ZaAssembler, for every ZVersion, source and bound.       *)
(***************************************************************************)
EXTENDS ZaAssembler, SequenceTheorems, TLAPS

----------------------------------------------------------------------------
(* Sequences the directives append.                                        *)

(* A file g that begins with the cells of the file f.                      *)
Extends(f, g) ==
  /\ g \in Seq(Cell)
  /\ Len(f) <= Len(g)
  /\ \A i \in 1..Len(f) : g[i] = f[i]

LEMMA CellsOfBytes ==
  ASSUME NEW s \in Seq(Byte)
  PROVE  s \in Seq(Cell)
<1>1. Byte \subseteq Cell
  BY DEF Cell
<1>2. QED
  BY <1>1, SeqMonotonic

(* What is appended leaves the cells before it alone.                      *)
LEMMA AppendedExtends ==
  ASSUME NEW f \in Seq(Cell), NEW s \in Seq(Cell)
  PROVE  Extends(f, f \o s) /\ Len(f \o s) = Len(f) + Len(s)
<1>1. /\ f \o s \in Seq(Cell)
      /\ Len(f \o s) = Len(f) + Len(s)
      /\ \A i \in 1..(Len(f) + Len(s)) :
           (f \o s)[i] = IF i <= Len(f) THEN f[i] ELSE s[i - Len(f)]
  BY ConcatProperties
<1>2. Len(f) \in Nat /\ Len(s) \in Nat
  BY LenProperties
<1>3. QED
  BY <1>1, <1>2 DEF Extends

LEMMA ExtendsReflexive ==
  ASSUME NEW f \in Seq(Cell)
  PROVE  Extends(f, f)
<1>1. Len(f) \in Nat
  BY LenProperties
<1>2. QED
  BY <1>1 DEF Extends

LEMMA ExtendsTransitive ==
  ASSUME NEW f \in Seq(Cell), NEW g, NEW h, Extends(f, g), Extends(g, h)
  PROVE  Extends(f, h)
<1>1. Len(f) \in Nat /\ Len(g) \in Nat /\ Len(h) \in Nat
  BY LenProperties DEF Extends
<1>2. QED
  BY <1>1 DEF Extends

LEMMA ExtendsAppended ==
  ASSUME NEW f \in Seq(Cell), NEW g, Extends(f, g), NEW s \in Seq(Cell)
  PROVE  Extends(f, g \o s)
<1>1. g \in Seq(Cell)
  BY DEF Extends
<1>2. Extends(g, g \o s)
  BY <1>1, AppendedExtends
<1>3. QED
  BY <1>2, ExtendsTransitive

LEMMA Singleton ==
  ASSUME NEW S, NEW x \in S
  PROVE  <<x>> \in Seq(S)
OBVIOUS

(* Padding of any computed width, none when the width is not positive.     *)
LEMMA FillType ==
  ASSUME NEW S, NEW b \in S, NEW n \in Int
  PROVE  Fill(n, b) \in Seq(S)
<1>1. CASE n \in Nat
  <2>1. Fill(n, b) \in [1..n -> S]
    BY DEF Fill
  <2>2. QED
    BY <1>1, <2>1, SeqDef
<1>2. CASE n \notin Nat
  <2>1. 1..n = 1..0
    BY <1>2
  <2>2. Fill(n, b) \in [1..0 -> S]
    BY <2>1 DEF Fill
  <2>3. QED
    BY <2>2, SeqDef
<1>3. QED
  BY <1>1, <1>2

LEMMA FillLength ==
  ASSUME NEW b, NEW n \in Nat
  PROVE  Len(Fill(n, b)) = n
<1>1. Fill(n, b) \in [1..n -> {b}]
  BY DEF Fill
<1>2. Fill(n, b) \in Seq({b})
  BY <1>1, SeqDef
<1>3. QED
  BY <1>1, <1>2, LenProperties

LEMMA FillCells ==
  ASSUME NEW b \in Cell, NEW n \in Int
  PROVE  Fill(n, b) \in Seq(Cell)
BY FillType

LEMMA SmallByte ==
  ASSUME NEW v \in Nat, ~(v > 255)
  PROVE  v \in Byte
BY DEF Byte

LEMMA RoundUpType ==
  ASSUME NEW v \in Int, NEW n \in Nat, n # 0
  PROVE  RoundUp(v, n) \in Int
  BY DEF RoundUp

(* Alignment moves a position forward, and by less than a whole multiple.  *)
LEMMA RoundUpAlignment ==
  ASSUME NEW v \in Int
  PROVE  /\ RoundUp(v, Alignment) - v \in Nat
         /\ RoundUp(v, Alignment) - v < Alignment
<1>1. CASE Alignment = 2
  BY <1>1 DEF RoundUp
<1>2. CASE Alignment = 4
  BY <1>2 DEF RoundUp
<1>3. CASE Alignment = 8
  BY <1>3 DEF RoundUp
<1>4. QED
  BY <1>1, <1>2, <1>3 DEF Alignment

LEMMA AlignmentType == Alignment \in Nat /\ Alignment # 0
  BY DEF Alignment

(* The two bytes of a word.                                                *)
LEMMA WordBytes ==
  ASSUME NEW v \in Word
  PROVE  v \div 256 \in Byte /\ v % 256 \in Byte
<1>1. v \in Int /\ 0 <= v /\ v <= 65535
  BY DEF Word
<1>2. v \div 256 \in Int /\ 0 <= v \div 256 /\ v \div 256 <= 255
  BY <1>1
<1>3. v % 256 \in 0..255
  BY <1>1
<1>4. QED
  BY <1>2, <1>3 DEF Byte

LEMMA WordsType ==
  ASSUME NEW w \in Seq(Word)
  PROVE  Words(w) \in Seq(Byte)
<1>1. Len(w) \in Nat /\ w \in [1..Len(w) -> Word]
  BY LenProperties
<1>2. ASSUME NEW i \in 1..(2 * Len(w)), i % 2 = 1
      PROVE  w[(i + 1) \div 2] \div 256 \in Byte
  <2>1. (i + 1) \div 2 \in 1..Len(w)
    BY <1>1, <1>2
  <2>2. w[(i + 1) \div 2] \in Word
    BY <1>1, <2>1
  <2>3. QED
    BY <2>2, WordBytes
<1>3. ASSUME NEW i \in 1..(2 * Len(w)), i % 2 # 1
      PROVE  w[i \div 2] % 256 \in Byte
  <2>1. i \div 2 \in 1..Len(w)
    BY <1>1, <1>3
  <2>2. w[i \div 2] \in Word
    BY <1>1, <2>1
  <2>3. QED
    BY <2>2, WordBytes
<1>4. Words(w) \in [1..(2 * Len(w)) -> Byte]
  BY <1>2, <1>3 DEF Words
<1>5. 2 * Len(w) \in Nat
  BY <1>1
<1>6. QED
  BY <1>4, <1>5, SeqDef

----------------------------------------------------------------------------
(* What each kind of directive does to the file.                           *)

LEMMA PositionType ==
  ASSUME TypeOK
  PROVE  Position \in Nat /\ Position >= Origin
<1>1. Len(file) \in Nat
  BY LenProperties DEF TypeOK
<1>2. QED
  BY <1>1, OptionsAssumption DEF Position

LEMMA FillExtends ==
  ASSUME NEW f \in Seq(Cell), NEW b \in Byte, NEW n \in Int
  PROVE  Extends(f, f \o Fill(n, b))
<1>1. Fill(n, b) \in Seq(Cell)
  BY FillType, CellsOfBytes
<1>2. QED
  BY <1>1, AppendedExtends

LEMMA AlignedExtends ==
  ASSUME TypeOK
  PROVE  Extends(file, Aligned)
<1>1. RoundUp(Position, Alignment) - Position \in Int
  BY PositionType, AlignmentType, RoundUpType
<1>2. file \in Seq(Cell) /\ 0 \in Byte
  BY DEF TypeOK, Byte
<1>3. QED
  BY <1>1, <1>2, FillExtends DEF Aligned

LEMMA DefineLabelType ==
  ASSUME TypeOK, NEW l \in Labels, NEW at \in Nat, DefineLabel(l, at)
  PROVE  LabelsType'
BY DEF TypeOK, LabelsType, DefineLabel

LEMMA LocalWordsType ==
  ASSUME NEW values \in Seq(Nat), NEW n \in Nat,
         \A i \in 1..Len(values) : values[i] <= Max16
  PROVE  LocalWords(values, n) \in Seq(Byte)
<1> DEFINE w == [i \in 1..n |-> IF i <= Len(values) THEN values[i] ELSE 0]
<1>1. Len(values) \in Nat /\ values \in [1..Len(values) -> Nat]
  BY LenProperties
<1>2. w \in [1..n -> Word]
  BY <1>1 DEF Word, Max16
<1>3. w \in Seq(Word)
  BY <1>2, SeqDef
<1>4. QED
  BY <1>3, WordsType DEF LocalWords

LEMMA RoutineAtType ==
  ASSUME TypeOK,
         NEW f, Extends(file, f),
         NEW l \in Labels, NEW n \in Nat, NEW values \in Seq(Nat),
         RoutineAt(f, l, n, values)
  PROVE  /\ Extends(file, file')
         /\ phase' \in {phase, "error"}
         /\ LabelsType'
<1> DEFINE m == n % 256
           local == IF ZVersion <= 4 THEN LocalWords(values, m) ELSE <<>>
<1>1. f \in Seq(Cell) /\ file \in Seq(Cell)
  BY DEF Extends, TypeOK
<1>2. m \in Byte /\ m \in Nat
  BY DEF Byte
<1>3. \/ file' = f
      \/ file' = f \o <<m>>
      \/ /\ file' = f \o (<<m>> \o local)
         /\ ZVersion <= 4 => \A i \in 1..Len(values) : values[i] <= Max16
  BY DEF RoutineAt
<1>4. /\ DefineLabel(l, Origin + Len(f))
      /\ phase' \in {phase, "error"}
      /\ Origin + Len(f) \in Nat
  BY <1>1, LenProperties, OptionsAssumption DEF RoutineAt, Fail
<1> HIDE DEF m
<1>5. <<m>> \in Seq(Cell)
  BY <1>2, Singleton, CellsOfBytes
<1>6. ASSUME ZVersion <= 4 => \A i \in 1..Len(values) : values[i] <= Max16
      PROVE  local \in Seq(Cell)
  <2>1. CASE ZVersion <= 4
    BY <1>2, <1>6, <2>1, LocalWordsType, CellsOfBytes
  <2>2. CASE ~(ZVersion <= 4)
    BY <2>2, EmptySeq
  <2>3. QED
    BY <2>1, <2>2
<1> HIDE DEF local
<1>7. Extends(file, file')
  <2>1. CASE file' = f
    BY <2>1
  <2>2. CASE file' = f \o <<m>>
    BY <2>2, <1>1, <1>5, ExtendsAppended
  <2>3. CASE /\ file' = f \o (<<m>> \o local)
             /\ local \in Seq(Cell)
    <3>1. <<m>> \o local \in Seq(Cell)
      BY <2>3, <1>5, ConcatProperties
    <3>2. QED
      BY <2>3, <3>1, <1>1, ExtendsAppended
  <2>4. QED
    BY <1>3, <1>6, <2>1, <2>2, <2>3
<1>8. QED
  BY <1>4, <1>7, DefineLabelType

----------------------------------------------------------------------------
(* Each step but ApplyTarget preserves the types and appends.              *)

(* A directive line that changes at most the file and the labels.          *)
LineFrame ==
  /\ ReadLine
  /\ phase' \in {phase, "error"}
  /\ UNCHANGED <<header, started, label_targets, applied, ins, buf, text_vars>>

LEMMA LineControl ==
  ASSUME TypeOK, ReadLine, phase' \in {phase, "error"}, started' \in BOOLEAN
  PROVE  ControlType'
BY OptionsAssumption DEF TypeOK, ControlType, ReadLine

LEMMA LineType ==
  ASSUME TypeOK, LineFrame, Extends(file, file'),
         UNCHANGED labels \/ LabelsType'
  PROVE  TypeOK'
<1>1. ControlType'
  BY LineControl DEF LineFrame, TypeOK, ControlType
<1>2. LabelsType' /\ TargetsType' /\ InstructionType' /\ TablesType'
  BY DEF TypeOK, LineFrame, LabelsType, TargetsType, InstructionType,
         TablesType, text_vars
<1>3. QED
  BY <1>1, <1>2 DEF TypeOK, LineFrame, Extends

LEMMA SeekType ==
  ASSUME TypeOK, NEW n \in Sizes, NEW b \in {0, 180}, Seek(n, b)
  PROVE  TypeOK' /\ Extends(file, file')
<1>1. file \in Seq(Cell) /\ b \in Byte /\ n \in Int
  BY SourceAssumption DEF TypeOK, Byte
<1>2. Extends(file, file')
  BY <1>1, FillExtends DEF Seek
<1>3. LineFrame /\ UNCHANGED labels
  BY DEF Seek, LineFrame, not_appending
<1>4. QED
  BY <1>2, <1>3, LineType

LEMMA SeekAbsType ==
  ASSUME TypeOK, NEW o \in Offsets, NEW b \in {0, 180}, SeekAbs(o, b)
  PROVE  TypeOK' /\ Extends(file, file')
<1>1. file \in Seq(Cell) /\ b \in Byte /\ o - Position \in Int
  BY SourceAssumption, PositionType DEF TypeOK, Byte
<1>2. Extends(file, file')
  BY <1>1, FillExtends, ExtendsReflexive DEF SeekAbs
<1>3. LineFrame /\ UNCHANGED labels
  BY DEF SeekAbs, Fail, LineFrame, not_appending
<1>4. QED
  BY <1>2, <1>3, LineType

LEMMA DefaultAlignType ==
  ASSUME TypeOK, DefaultAlign
  PROVE  TypeOK' /\ Extends(file, file')
<1>1. Extends(file, file')
  BY AlignedExtends DEF DefaultAlign
<1>2. LineFrame /\ UNCHANGED labels
  BY DEF DefaultAlign, LineFrame, not_appending
<1>3. QED
  BY <1>1, <1>2, LineType

LEMMA AlignType ==
  ASSUME TypeOK, NEW n \in Sizes, Align(n)
  PROVE  TypeOK' /\ Extends(file, file')
<1>1. file \in Seq(Cell) /\ 0 \in Byte
  BY DEF TypeOK, Byte
<1>2. Extends(file, file')
  <2>1. CASE n = 0
    BY <1>1, <2>1, ExtendsReflexive DEF Align
  <2>2. CASE n # 0
    <3>1. RoundUp(Position, n) - Position \in Int
      BY <2>2, PositionType, RoundUpType, SourceAssumption
    <3>2. QED
      BY <1>1, <2>2, <3>1, FillExtends DEF Align
  <2>3. QED
    BY <2>1, <2>2
<1>3. LineFrame /\ UNCHANGED labels
  BY DEF Align, Fail, LineFrame, not_appending
<1>4. QED
  BY <1>2, <1>3, LineType

LEMMA ByteDirectiveType ==
  ASSUME TypeOK, NEW bytes \in ByteLists, ByteDirective(bytes)
  PROVE  TypeOK' /\ Extends(file, file')
<1>1. file \in Seq(Cell) /\ bytes \in Seq(Nat)
  BY SourceAssumption DEF TypeOK
<1>2. Extends(file, file')
  <2>1. CASE \E i \in 1..Len(bytes) : bytes[i] > 255
    BY <1>1, <2>1, ExtendsReflexive DEF ByteDirective
  <2>2. CASE ~\E i \in 1..Len(bytes) : bytes[i] > 255
    <3>1. Len(bytes) \in Nat /\ bytes \in [1..Len(bytes) -> Nat]
      BY <1>1, LenProperties
    <3>2. \A i \in 1..Len(bytes) : bytes[i] \in Byte
      <4>1. SUFFICES ASSUME NEW i \in 1..Len(bytes)
                     PROVE  bytes[i] \in Byte
        OBVIOUS
      <4>2. bytes[i] \in Nat /\ ~(bytes[i] > 255)
        BY <2>2, <3>1
      <4>3. QED
        BY <4>2, SmallByte
    <3>3. bytes \in [1..Len(bytes) -> Byte]
      BY <3>1, <3>2
    <3>4. bytes \in Seq(Cell)
      BY <3>1, <3>3, SeqDef, CellsOfBytes
    <3>5. QED
      BY <1>1, <2>2, <3>4, AppendedExtends DEF ByteDirective
  <2>3. QED
    BY <2>1, <2>2
<1>3. LineFrame /\ UNCHANGED labels
  BY DEF ByteDirective, Fail, LineFrame, not_appending
<1>4. QED
  BY <1>2, <1>3, LineType

LEMMA LabelType ==
  ASSUME TypeOK, NEW l \in Labels, Label(l)
  PROVE  TypeOK' /\ Extends(file, file')
<1>1. Extends(file, file')
  BY ExtendsReflexive DEF TypeOK, Label
<1>2. LabelsType'
  BY PositionType, DefineLabelType DEF Label
<1>3. LineFrame
  BY DEF Label, Fail, LineFrame
<1>4. QED
  BY <1>1, <1>2, <1>3, LineType

LEMMA AlignedLabelType ==
  ASSUME TypeOK, NEW l \in Labels, AlignedLabel(l)
  PROVE  TypeOK' /\ Extends(file, file')
<1>1. Extends(file, file') /\ Extends(file, Aligned)
  BY AlignedExtends DEF AlignedLabel
<1>2. Origin + Len(Aligned) \in Nat
  BY <1>1, LenProperties, OptionsAssumption DEF Extends
<1>3. LabelsType'
  BY <1>2, DefineLabelType DEF AlignedLabel
<1>4. LineFrame
  BY DEF AlignedLabel, Fail, LineFrame
<1>5. QED
  BY <1>1, <1>3, <1>4, LineType

LEMMA RoutineType ==
  ASSUME TypeOK, NEW l \in Labels, NEW n \in LocalCounts,
         NEW values \in LocalValues, Routine(l, n, values)
  PROVE  TypeOK' /\ Extends(file, file')
<1>1. n \in Nat /\ values \in Seq(Nat)
  BY SourceAssumption
<1>2. Extends(file, Aligned) /\ RoutineAt(Aligned, l, n, values)
  BY AlignedExtends DEF Routine
<1>3. Extends(file, file') /\ phase' \in {phase, "error"} /\ LabelsType'
  BY <1>1, <1>2, RoutineAtType
<1>4. LineFrame
  BY <1>3 DEF Routine, LineFrame
<1>5. QED
  BY <1>3, <1>4, LineType

(* start_file: the header words it fills in fit their width.               *)
LEMMA StartType ==
  ASSUME TypeOK, NEW l \in Labels, NEW n \in LocalCounts, Start(l, n)
  PROVE  TypeOK' /\ Extends(file, file')
<1> DEFINE withDict == file \o Dictionary
           pc == Origin + Len(withDict)
           main == withDict \o Fill(RoundUp(pc, Alignment) - pc, 0)
           packed == (Origin + Len(main)) \div Alignment
           tables == [header EXCEPT !.static = Position, !.dict = Position]
<1>1. /\ file \in Seq(Cell)
      /\ Dictionary \in Seq(Cell)
  <2>1. Dictionary \in Seq(Byte)
    BY DEF Dictionary, Byte
  <2>2. QED
    BY <2>1, CellsOfBytes DEF TypeOK
<1>2. Extends(file, withDict) /\ withDict \in Seq(Cell)
      /\ Len(withDict) = Len(file) + 4
  BY <1>1, AppendedExtends DEF Extends, Dictionary
<1>3. pc \in Nat /\ pc = Position + 4 /\ Position \in Nat
  BY <1>1, <1>2, LenProperties, OptionsAssumption DEF Position
<1>4. Extends(file, main)
  <2>1. RoundUp(pc, Alignment) - pc \in Int /\ 0 \in Byte
    BY <1>3, AlignmentType, RoundUpType DEF Byte
  <2>2. Extends(withDict, main)
    BY <1>2, <2>1, FillExtends
  <2>3. QED
    BY <1>1, <1>2, <2>2, ExtendsTransitive
<1> HIDE DEF withDict
<1>5. ZVersion = 6 /\ Position <= Max16 => packed \in Word
  <2>1. SUFFICES ASSUME ZVersion = 6, Position <= Max16
                 PROVE  packed \in Word
    OBVIOUS
  <2>2. Alignment = 4
    BY <2>1 DEF Alignment
  <2>3. Len(main) < Len(withDict) + 4
    <3> DEFINE pad == RoundUp(pc, Alignment) - pc
    <3>1. pad \in Nat /\ pad < 4
      BY <1>3, <2>2, RoundUpAlignment
    <3> HIDE DEF pad
    <3>2. Fill(pad, 0) \in Seq(Cell) /\ Len(Fill(pad, 0)) = pad
      <4>1. 0 \in Cell
        BY DEF Cell, Byte
      <4>2. QED
        BY <3>1, <4>1, FillCells, FillLength
    <3>3. Len(withDict \o Fill(pad, 0)) = Len(withDict) + pad
      BY <1>2, <3>2, AppendedExtends
    <3>4. QED
      BY <1>2, <3>1, <3>3, LenProperties DEF pad
  <2>4. Len(main) \in Nat
    BY <1>4, LenProperties DEF Extends
  <2>5. Origin + Len(main) < pc + 4 /\ Origin + Len(main) \in Nat
    BY <1>2, <2>3, <2>4, LenProperties, OptionsAssumption
  <2> HIDE DEF main, pc
  <2>6. QED
    BY <1>3, <2>1, <2>2, <2>5 DEF Word, Max16
<1>6. CASE Fail /\ UNCHANGED <<file, header, started, labels>>
  <2>1. ControlType'
    BY <1>6, LineControl DEF Start, Fail, TypeOK, ControlType
  <2>2. QED
    BY <1>6, <2>1, ExtendsReflexive
       DEF Start, TypeOK, LabelsType, TargetsType, InstructionType,
           TablesType, text_vars
<1>7. CASE /\ Position <= Max16
           /\ file' = withDict
           /\ UNCHANGED labels
           /\ \/ Fail /\ header' = tables /\ UNCHANGED started
              \/ /\ ~(pc > Max16)
                 /\ header' = [tables EXCEPT !.pc = pc]
                 /\ started' = TRUE
                 /\ UNCHANGED phase
  <2>1. ControlType'
    BY <1>7, LineControl DEF Start, Fail, TypeOK, ControlType
  <2>2. header' \in Header
    <3>1. Position \in Word /\ (~(pc > Max16) => pc \in Word)
      BY <1>3, <1>7 DEF Word, Max16
    <3>2. header \in Header
      BY DEF TypeOK
    <3> HIDE DEF pc
    <3>3. QED
      BY <1>7, <3>1, <3>2 DEF Header
  <2>3. QED
    BY <1>2, <1>7, <2>1, <2>2
       DEF Start, TypeOK, LabelsType, TargetsType, InstructionType,
           TablesType, text_vars
<1>8. CASE /\ Position <= Max16 /\ ZVersion = 6
           /\ header' = [tables EXCEPT !.pc = packed]
           /\ RoutineAt(main, l, n, <<>>)
           /\ started' = (phase' # "error")
  <2>1. /\ Extends(file, file')
        /\ phase' \in {phase, "error"}
        /\ LabelsType'
    <3>1. n \in Nat /\ <<>> \in Seq(Nat)
      BY SourceAssumption
    <3>2. QED
      BY <1>4, <1>8, <3>1, RoutineAtType
  <2>2. ControlType'
    BY <1>8, <2>1, LineControl DEF Start
  <2> HIDE DEF main, packed
  <2>3. header' \in Header
    <3>1. Position \in Word /\ packed \in Word
      BY <1>3, <1>5, <1>8 DEF Word, Max16
    <3>2. header \in Header
      BY DEF TypeOK
    <3>3. QED
      BY <1>8, <3>1, <3>2 DEF Header
  <2>4. QED
    BY <2>1, <2>2, <2>3
       DEF Start, TypeOK, Extends, TargetsType, InstructionType, TablesType,
           text_vars
<1>9. QED
  BY <1>6, <1>7, <1>8 DEF Start, withDict

LEMMA StatusType ==
  ASSUME TypeOK, NEW flags \in {0, 2}, Status(flags)
  PROVE  TypeOK' /\ Extends(file, file')
<1>1. ControlType'
  BY LineControl DEF Status, TypeOK, ControlType
<1>2. header' \in Header
  BY DEF Status, TypeOK, Header
<1>3. QED
  BY <1>1, <1>2, ExtendsReflexive
     DEF Status, TypeOK, LabelsType, TargetsType, InstructionType, TablesType,
         text_vars

LEMMA SetGlobalType ==
  ASSUME TypeOK, NEW v \in GlobalValues, SetGlobal(v)
  PROVE  TypeOK' /\ Extends(file, file')
<1>1. ControlType'
  BY LineControl DEF SetGlobal, Fail, TypeOK, ControlType
<1>2. ~(v > Max16) => v \in Word
  BY SourceAssumption DEF Word, Max16
<1>3. header' \in Header
  BY <1>2 DEF SetGlobal, TypeOK, Header
<1>4. QED
  BY <1>1, <1>3, ExtendsReflexive
     DEF SetGlobal, TypeOK, LabelsType, TargetsType, InstructionType,
         TablesType, text_vars

LEMMA TableAfterType ==
  ASSUME TypeOK, NEW t \in Texts
  PROVE  TableAfter(t) \in Seq(Nat) /\ TextBytes(t) \in Seq(Cell)
<1>1. t.char \in Nat /\ t.len \in Int
  BY SourceAssumption DEF Text
<1>2. TableAfter(t) \in Seq(Nat)
  BY <1>1 DEF TableAfter, TypeOK, TablesType
<1>3. TextCell \in Cell
  BY DEF Cell
<1>4. QED
  BY <1>1, <1>2, <1>3, FillCells DEF TextBytes

LEMMA StringType ==
  ASSUME TypeOK, NEW t \in Texts, String(t)
  PROVE  TypeOK' /\ Extends(file, file')
<1>1. ControlType'
  BY LineControl DEF String, Fail, TypeOK, ControlType
<1>2. TablesType'
  BY TableAfterType DEF String, TypeOK, TablesType
<1>3. Extends(file, file')
  BY TableAfterType, AppendedExtends, ExtendsReflexive DEF String, TypeOK
<1>4. QED
  BY <1>1, <1>2, <1>3
     DEF String, TypeOK, Extends, LabelsType, TargetsType, InstructionType

(* write_unicode_table fails or writes bytes, and a pointer to them that   *)
(* fits the header extension.                                              *)
LEMMA TableWriteType ==
  ASSUME TypeOK, NEW table \in Seq(Nat), ~TableFails(table)
  PROVE  /\ TableBytes(table) \in Seq(Cell)
         /\ TablePointer(table) \in Word
         /\ PreallocatedAfter(table) \in Seq(Nat)
<1>1. Len(table) \in Nat /\ table \in [1..Len(table) -> Nat]
  BY LenProperties
<1>2. \A i \in 1..Len(table) : table[i] \in Word
  <2>1. SUFFICES ASSUME NEW i \in 1..Len(table)
                 PROVE  table[i] \in Word
    OBVIOUS
  <2>2. table[i] \in Nat /\ ~(table[i] > Max16)
    BY <1>1 DEF TableFails
  <2>3. QED
    BY <2>2 DEF Word, Max16
<1>3. table \in [1..Len(table) -> Word]
  BY <1>1, <1>2
<1>4. Words(table) \in Seq(Byte)
  BY <1>1, <1>3, SeqDef, WordsType
<1>5. Len(table) \in Byte
  <2>1. ~(Len(table) > MaxUnicode)
    BY DEF TableFails
  <2>2. MaxUnicode \in Nat /\ MaxUnicode <= 255
    BY OptionsAssumption DEF Byte
  <2>3. QED
    BY <1>1, <2>1, <2>2, SmallByte
<1>6. <<Len(table)>> \in Seq(Byte)
  BY <1>5, Singleton
<1>7. <<Len(table)>> \o Words(table) \in Seq(Cell)
  BY <1>4, <1>6, ConcatProperties, CellsOfBytes
<1>8. TableBytes(table) \in Seq(Cell)
  BY <1>7, EmptySeq DEF TableBytes
<1>9. header.unicode \in Word
  BY DEF TypeOK, Header
<1>10. WritesTable(table) /\ ~Preallocate => Position \in Word
  BY PositionType DEF WritesTable, TableFails, Word, Max16
<1>11. TablePointer(table) \in Word
  BY <1>9, <1>10 DEF TablePointer
<1>12. PreallocatedAfter(table) \in Seq(Nat)
  BY DEF PreallocatedAfter, TypeOK, TablesType
<1>13. QED
  BY <1>8, <1>11, <1>12

LEMMA UnicodeTableType ==
  ASSUME TypeOK, NEW table \in Tables, UnicodeTable(table)
  PROVE  TypeOK' /\ Extends(file, file')
<1>1. ControlType'
  BY LineControl DEF UnicodeTable, Fail, TypeOK, ControlType
<1>2. table \in Seq(Nat) /\ file \in Seq(Cell) /\ header \in Header
  BY SourceAssumption DEF TypeOK
<1>3. header' \in Header /\ Extends(file, file') /\ TablesType'
  <2>1. CASE UNCHANGED <<file, header, custom_unicode_table, preallocated>>
    BY <1>2, <2>1, ExtendsReflexive DEF UnicodeTable, TypeOK, TablesType
  <2>2. CASE /\ custom_unicode_table' = <<table>>
             /\ UNCHANGED <<file, header, preallocated>>
    BY <1>2, <2>2, ExtendsReflexive DEF UnicodeTable, TypeOK, TablesType
  <2>3. CASE /\ custom_unicode_table' = <<table>>
             /\ ~TableFails(table)
             /\ file' = file \o TableBytes(table)
             /\ header' = [header EXCEPT !.unicode = TablePointer(table)]
             /\ preallocated' = PreallocatedAfter(table)
    <3>1. Extends(file, file')
      BY <1>2, <2>3, TableWriteType, AppendedExtends
    <3>2. header' \in Header
      BY <1>2, <2>3, TableWriteType DEF Header
    <3>3. TablesType'
      BY <1>2, <2>3, TableWriteType DEF UnicodeTable, TypeOK, TablesType
    <3>4. QED
      BY <3>1, <3>2, <3>3
  <2>4. QED
    BY <2>1, <2>2, <2>3 DEF UnicodeTable
<1>4. QED
  BY <1>1, <1>3
     DEF UnicodeTable, TypeOK, Extends, LabelsType, TargetsType,
         InstructionType

LEMMA HandleOpcodeType ==
  ASSUME TypeOK, NEW i \in Instructions, HandleOpcode(i)
  PROVE  TypeOK' /\ Extends(file, file')
<1>1. i \in Instruction
  BY SourceAssumption
<1>2. InstructionType'
  BY <1>1 DEF HandleOpcode, InstructionType, Instruction
<1>3. ControlType'
  BY OptionsAssumption DEF HandleOpcode, ReadLine, TypeOK, ControlType
<1>4. QED
  BY <1>2, <1>3, ExtendsReflexive
     DEF HandleOpcode, TypeOK, LabelsType, TargetsType, TablesType, text_vars

(* A reference recorded at a position of the output is a Target.           *)
LEMMA ReferenceType ==
  ASSUME NEW kind \in {"packed", "unpacked", "jump", "branch"},
         NEW l \in Labels, NEW from \in Nat,
         NEW invert \in BOOLEAN, NEW small \in BOOLEAN
  PROVE  Reference(kind, l, from, invert, small) \in Target
BY DEF Reference, Target

LEMMA TargetsAppended ==
  ASSUME TypeOK, NEW t \in Target, label_targets' = Append(label_targets, t),
         UNCHANGED applied
  PROVE  TargetsType'
<1>1. /\ label_targets' \in Seq(Target)
      /\ Len(label_targets') = Len(label_targets) + 1
  BY AppendProperties DEF TypeOK, TargetsType
<1>2. Len(label_targets) \in Nat
  BY LenProperties DEF TypeOK, TargetsType
<1>3. QED
  BY <1>1, <1>2 DEF TypeOK, TargetsType

LEMMA WriteOperandType ==
  ASSUME TypeOK, WriteOperand
  PROVE  TypeOK' /\ Extends(file, file')
<1> DEFINE a == Head(ins.args)
<1>1. /\ ins \in Instruction
      /\ ins.args \in Seq(Operand) /\ ins.args # <<>>
      /\ buf \in Seq(Byte)
  BY DEF TypeOK, InstructionType, Instruction, WriteOperand
<1>2. a \in Operand /\ Tail(ins.args) \in Seq(Operand)
  BY <1>1, HeadTailProperties
<1>3. /\ a.bytes \in Seq(Byte)
      /\ a.kind \in {"bytes", "packed", "unpacked", "jump"}
      /\ a.kind # "bytes" => a.label \in Labels
  <2>1. <<0, 0>> \in Seq(Byte)
    BY DEF Byte
  <2>2. QED
    BY <1>2, <2>1 DEF Operand
<1> HIDE DEF a
<1>4. buf' \in Seq(Byte)
  BY <1>1, <1>3, ConcatProperties DEF WriteOperand, a
<1>5. ins' \in Instruction
  BY <1>1, <1>2 DEF WriteOperand, Instruction
<1>6. TargetsType'
  <2>1. Len(buf) \in Nat
    BY <1>1, LenProperties
  <2>2. CASE a.kind = "bytes"
    BY <2>2 DEF WriteOperand, a, TypeOK, TargetsType
  <2>3. CASE a.kind # "bytes"
    <3>1. Reference(a.kind, a.label, Position + Len(buf), FALSE, FALSE)
            \in Target
      <4>1. a.kind \in {"packed", "unpacked", "jump", "branch"}
        BY <1>3, <2>3
      <4>2. a.label \in Labels /\ Position + Len(buf) \in Nat
        BY <1>3, <2>1, <2>3, PositionType
      <4>3. QED
        BY <4>1, <4>2, ReferenceType
    <3>2. QED
      BY <2>3, <3>1, TargetsAppended DEF WriteOperand, a
  <2>4. QED
    BY <2>2, <2>3
<1>7. QED
  BY <1>4, <1>5, <1>6, ExtendsReflexive
     DEF WriteOperand, TypeOK, ControlType, LabelsType, InstructionType,
         TablesType, text_vars

LEMMA BranchBytesType ==
  ASSUME NEW b \in BranchPart
  PROVE  BranchBytes(b) \in Seq(Byte)
<1>1. <<0>> \in Seq(Byte) /\ <<0, 0>> \in Seq(Byte) /\ <<>> \in Seq(Byte)
  BY DEF Byte
<1>2. CASE b.kind = "none"
  BY <1>1, <1>2 DEF BranchBytes
<1>3. CASE b.kind = "return"
  <2>1. b.byte \in Byte
    <3>1. b.byte \in {193, 65, 192, 64}
      BY <1>3 DEF BranchPart
    <3>2. QED
      BY <3>1 DEF Byte
  <2>2. QED
    BY <1>3, <2>1, Singleton DEF BranchBytes
<1>4. CASE b.kind = "label"
  BY <1>1, <1>4 DEF BranchBytes
<1>5. QED
  BY <1>2, <1>3, <1>4 DEF BranchPart

LEMMA EndOpcodeType ==
  ASSUME TypeOK, EndOpcode
  PROVE  TypeOK' /\ Extends(file, file')
<1> DEFINE b == ins.branch
           t == ins.text
           text == IF t = NoText THEN <<>> ELSE TextBytes(t)
           code == buf \o BranchBytes(b) \o text \o ins.store
<1>1. /\ b \in BranchPart
      /\ t = NoText \/ t \in Texts
      /\ ins.store \in Seq(Byte)
      /\ buf \in Seq(Byte)
      /\ file \in Seq(Cell)
  BY DEF TypeOK, InstructionType, Instruction
<1> HIDE DEF b
<1>2. b.kind = "label" => /\ b.label \in Labels
                          /\ b.invert \in BOOLEAN
                          /\ b.small \in BOOLEAN
  BY <1>1 DEF BranchPart
<1>3. code \in Seq(Cell)
  <2>1. /\ buf \in Seq(Cell) /\ ins.store \in Seq(Cell)
        /\ BranchBytes(b) \in Seq(Cell)
    BY <1>1, BranchBytesType, CellsOfBytes
  <2>2. text \in Seq(Cell)
    BY <1>1, TableAfterType, EmptySeq
  <2> HIDE DEF text
  <2>3. buf \o BranchBytes(b) \in Seq(Cell)
    BY <2>1, ConcatProperties
  <2>4. buf \o BranchBytes(b) \o text \in Seq(Cell)
    BY <2>2, <2>3, ConcatProperties
  <2>5. QED
    BY <2>1, <2>4, ConcatProperties
<1>4. Extends(file, file')
  <2>1. file' = file \/ file' = file \o code
    BY DEF EndOpcode, b
  <2> HIDE DEF code
  <2>2. QED
    BY <1>1, <1>3, <2>1, AppendedExtends, ExtendsReflexive
<1>5. TargetsType'
  <2>1. CASE b.kind = "label"
    <3> DEFINE r == Reference("branch", b.label, Position + Len(buf),
                              b.invert, b.small)
    <3>1. Position + Len(buf) \in Nat
      BY <1>1, LenProperties, PositionType
    <3>2. r \in Target
      BY <1>2, <2>1, <3>1, ReferenceType
    <3>3. label_targets' = Append(label_targets, r) /\ UNCHANGED applied
      BY <2>1 DEF EndOpcode, b
    <3> HIDE DEF r
    <3>4. QED
      BY <3>2, <3>3, TargetsAppended
  <2>2. CASE b.kind # "label"
    BY <2>2 DEF EndOpcode, b, TypeOK, TargetsType
  <2>3. QED
    BY <2>1, <2>2
<1>6. TablesType'
  BY <1>1, TableAfterType DEF EndOpcode, TypeOK, TablesType
<1>7. InstructionType'
  <2>1. NoInstruction \in Instruction
    BY EmptySeq DEF NoInstruction, Instruction, BranchPart
  <2>2. QED
    BY <2>1, EmptySeq DEF EndOpcode, InstructionType
<1>8. ControlType' /\ LabelsType' /\ header' \in Header
  BY DEF EndOpcode, TypeOK, ControlType, LabelsType
<1>9. QED
  BY <1>4, <1>5, <1>6, <1>7, <1>8 DEF TypeOK, Extends

LEMMA EndOfSourceType ==
  ASSUME TypeOK, EndOfSource
  PROVE  TypeOK' /\ Extends(file, file')
BY ExtendsReflexive
   DEF EndOfSource, TypeOK, ControlType, LabelsType, TargetsType,
       InstructionType, TablesType, text_vars

----------------------------------------------------------------------------
(* Patching.                                                               *)

(* The field of a reference whose value fits holds one byte or two.        *)
LEMMA FieldType ==
  ASSUME NEW t \in Target, NEW to \in Nat, ValueFits(t, to)
  PROVE  /\ Width(t) = 1 => Field(t, to) \in Byte
         /\ Width(t) = 2 => Field(t, to) \in Word
         /\ Width(t) \in {1, 2}
<1>1. t.from \in Nat
  BY DEF Target
<1>2. Width(t) \in {1, 2}
  BY DEF Width
<1>3. CASE t.kind = "packed"
  BY <1>3, AlignmentType
     DEF Width, ValueFits, TargetValue, Field, Word, Max16
<1>4. CASE t.kind = "unpacked"
  BY <1>4 DEF Width, ValueFits, TargetValue, Field, Word, Max16
<1>5. CASE t.kind = "jump"
  <2>1. (to - t.from) % 65536 \in Word
    BY <1>1 DEF Word
  <2>2. QED
    BY <1>5, <2>1 DEF Width, TargetValue, Field
<1>6. CASE t.kind = "branch" /\ t.small
  <2> DEFINE v == (to - t.from) + 1
  <2>1. (v % 64) + 64 + 0 \in Byte /\ (v % 64) + 64 + 128 \in Byte
    BY <1>1 DEF Byte
  <2>2. QED
    BY <1>6, <2>1 DEF Width, TargetValue, Field
<1>7. CASE t.kind = "branch" /\ ~t.small
  <2> DEFINE v == to - t.from
  <2>1. (v % 16384) + 0 \in Word /\ (v % 16384) + 32768 \in Word
    BY <1>1 DEF Word
  <2>2. QED
    BY <1>7, <2>1 DEF Width, TargetValue, Field
<1>8. QED
  BY <1>2, <1>3, <1>4, <1>5, <1>6, <1>7 DEF Target

(* A patch changes the cells of its field and no other.                    *)
LEMMA PatchType ==
  ASSUME NEW f \in Seq(Cell), NEW t \in Target, NEW field,
         Width(t) = 1 => field \in Byte,
         Width(t) # 1 => field \in Word
  PROVE  /\ Patch(f, t, field) \in Seq(Cell)
         /\ Len(Patch(f, t, field)) = Len(f)
         /\ \A i \in 1..Len(f) :
              \/ Patch(f, t, field)[i] = f[i]
              \/ (Origin + i) - 1 \in t.from..(t.from + Width(t)) - 1
<1> DEFINE k == (t.from - Origin) + 1
<1>1. t.from \in Nat /\ Origin \in Nat /\ k \in Int
  BY OptionsAssumption DEF Target
<1>2. Len(f) \in Nat /\ f \in [1..Len(f) -> Cell]
  BY LenProperties
<1>3. CASE Width(t) = 1
  <2> DEFINE g == [f EXCEPT ![k] = field]
  <2>1. field \in Cell
    BY <1>3 DEF Cell
  <2>2. g \in [1..Len(f) -> Cell]
    BY <1>2, <2>1
  <2>3. g \in Seq(Cell) /\ Len(g) = Len(f)
    BY <1>2, <2>2, SeqDef, LenProperties
  <2>4. \A i \in 1..Len(f) : i = k \/ g[i] = f[i]
    BY <1>2
  <2>5. k \in Int /\ (Origin + k) - 1 = t.from
    BY <1>1
  <2>6. Patch(f, t, field) = g
    BY <1>3 DEF Patch
  <2> HIDE DEF g, k
  <2>7. QED
    BY <1>1, <1>3, <2>3, <2>4, <2>5, <2>6
<1>4. CASE Width(t) # 1
  <2> DEFINE g == [f EXCEPT ![k] = field \div 256, ![k + 1] = field % 256]
  <2>1. field \div 256 \in Cell /\ field % 256 \in Cell
    BY <1>4, WordBytes DEF Cell
  <2>2. g \in [1..Len(f) -> Cell]
    BY <1>2, <2>1
  <2>3. \A i \in 1..Len(f) : i = k \/ i = k + 1 \/ g[i] = f[i]
    BY <1>2
  <2>4. Patch(f, t, field) = g
    BY <1>4 DEF Patch
  <2> HIDE DEF g
  <2>5. g \in Seq(Cell) /\ Len(g) = Len(f)
    BY <1>2, <2>2, SeqDef, LenProperties
  <2>6. \A i \in {k, k + 1} : (Origin + i) - 1 \in t.from..(t.from + 2) - 1
    BY <1>1
  <2>7. Width(t) = 2
    BY <1>4 DEF Width
  <2> HIDE DEF k
  <2>8. QED
    BY <2>3, <2>4, <2>5, <2>6, <2>7
<1>5. QED
  BY <1>3, <1>4

(* The reference ApplyTarget is about to patch, and what it does to it.    *)
LEMMA ApplyTargetPatches ==
  ASSUME TypeOK, ApplyTarget, phase' # "error"
  PROVE  LET t == label_targets[applied + 1]
         IN /\ t \in Target /\ applied + 1 \in 1..Len(label_targets)
            /\ t.label \in DOMAIN labels
            /\ labels[t.label] \in Nat
            /\ ValueFits(t, labels[t.label])
            /\ file' = Patch(file, t, Field(t, labels[t.label]))
            /\ applied' = applied + 1
            /\ phase' = phase
<1>1. Len(label_targets) \in Nat /\ applied \in Nat
  BY LenProperties DEF TypeOK, TargetsType
<1>2. /\ applied + 1 \in 1..Len(label_targets)
      /\ label_targets[applied + 1] \in Target
  BY <1>1, ElementOfSeq DEF ApplyTarget, TypeOK, TargetsType
<1>3. QED
  BY <1>2 DEF ApplyTarget, Fail, TypeOK, LabelsType

LEMMA ApplyTargetType ==
  ASSUME TypeOK, ApplyTarget
  PROVE  TypeOK' /\ (file' = file \/ applied' = applied + 1)
<1>1. file' \in Seq(Cell) /\ applied' \in 0..Len(label_targets)
  <2>1. CASE phase' = "error" /\ UNCHANGED <<file, applied>>
    BY <2>1 DEF TypeOK, TargetsType
  <2>2. CASE phase' # "error"
    <3> DEFINE t == label_targets[applied + 1]
    <3>1. /\ t \in Target /\ applied + 1 \in 1..Len(label_targets)
          /\ labels[t.label] \in Nat
          /\ ValueFits(t, labels[t.label])
          /\ file' = Patch(file, t, Field(t, labels[t.label]))
          /\ applied' = applied + 1
      BY <2>2, ApplyTargetPatches
    <3> HIDE DEF t
    <3>2. file \in Seq(Cell)
      BY DEF TypeOK
    <3>3. Len(label_targets) \in Nat /\ applied \in Nat
      BY LenProperties DEF TypeOK, TargetsType
    <3>4. file' \in Seq(Cell)
      BY <3>1, <3>2, FieldType, PatchType
    <3>5. QED
      BY <3>1, <3>3, <3>4
  <2>3. QED
    BY <2>1, <2>2 DEF ApplyTarget, Fail
<1>2. ControlType'
  BY DEF ApplyTarget, Fail, TypeOK, ControlType
<1>3. QED
  BY <1>1, <1>2
     DEF ApplyTarget, TypeOK, LabelsType, TargetsType, InstructionType,
         TablesType, text_vars

(* end_file appends the table and the padding, and fills in a length that  *)
(* fits its word.                                                          *)
LEMMA FinishFileType ==
  ASSUME TypeOK, FinishFile
  PROVE  TypeOK' /\ Extends(file, file')
<1> DEFINE table == IF custom_unicode_table = <<>> THEN unicode_table ELSE <<>>
           whole == file \o TableBytes(table)
           size == RoundUp(Origin + Len(whole), Alignment)
           padding == Fill(size - (Origin + Len(whole)), 0)
           pointed == [header EXCEPT !.unicode = TablePointer(table)]
           length == size \div Divisor
<1>1. table \in Seq(Nat) /\ file \in Seq(Cell) /\ header \in Header
  BY EmptySeq DEF TypeOK, TablesType
<1> HIDE DEF table
<1>2. ControlType' /\ LabelsType' /\ TargetsType' /\ InstructionType'
  BY DEF FinishFile, Fail, TypeOK, ControlType, LabelsType, TargetsType,
         InstructionType
<1>3. CASE TableFails(table) /\ UNCHANGED <<file, header, preallocated>>
  BY <1>1, <1>2, <1>3, ExtendsReflexive DEF FinishFile, TypeOK, TablesType
<1>4. CASE /\ ~TableFails(table)
           /\ preallocated' = PreallocatedAfter(table)
           /\ \/ file' = whole /\ header' = pointed
              \/ /\ file' = whole \o padding
                 /\ \/ header' = pointed
                    \/ /\ ~(length > Max16)
                       /\ header' = [pointed EXCEPT !.length = length,
                                                    !.checksum = whole]
  <2>1. Extends(file, whole) /\ whole \in Seq(Cell)
    BY <1>1, <1>4, TableWriteType, AppendedExtends DEF Extends
  <2>2. pointed \in Header
    BY <1>1, <1>4, TableWriteType DEF Header
  <2> HIDE DEF whole, pointed
  <2>3. Origin + Len(whole) \in Nat
    BY <2>1, LenProperties, OptionsAssumption
  <2> DEFINE end == Origin + Len(whole)
             pad == size - end
  <2>4. pad \in Nat /\ size \in Nat
    <3>1. end \in Nat
      BY <2>3
    <3> HIDE DEF end
    <3>2. RoundUp(end, Alignment) - end \in Nat
      BY <3>1, RoundUpAlignment
    <3>3. RoundUp(end, Alignment) \in Int
      BY <3>1, RoundUpType, AlignmentType
    <3>4. QED
      BY <3>1, <3>2, <3>3 DEF end
  <2>5. Extends(file, whole \o padding)
    <3> HIDE DEF pad
    <3>1. 0 \in Byte /\ pad \in Int
      BY <2>4 DEF Byte
    <3>2. Extends(whole, whole \o Fill(pad, 0))
      BY <2>1, <3>1, FillExtends
    <3>3. QED
      BY <1>1, <2>1, <3>2, ExtendsTransitive DEF pad
  <2> HIDE DEF size
  <2>6. ~(length > Max16) => length \in Word
    BY <2>4 DEF Divisor, Word, Max16
  <2> HIDE DEF length, padding
  <2>7. header' \in Header
    BY <1>4, <2>1, <2>2, <2>6 DEF Header
  <2>8. Extends(file, file')
    BY <1>4, <2>1, <2>5
  <2>9. TablesType'
    BY <1>1, <1>4, TableWriteType DEF FinishFile, TypeOK, TablesType
  <2>10. QED
    BY <1>2, <2>7, <2>8, <2>9 DEF TypeOK, Extends
<1>5. QED
  BY <1>3, <1>4 DEF FinishFile, Fail, table

----------------------------------------------------------------------------
(* Type correctness, and that nothing already written is overwritten.      *)

LEMMA InitType == Init => TypeOK
<1> SUFFICES ASSUME Init
             PROVE  TypeOK
  OBVIOUS
<1>1. NoInstruction \in Instruction
  BY EmptySeq DEF NoInstruction, Instruction, BranchPart
<1>2. header \in Header
  <2>1. 0 \in Word /\ 1 \in Word /\ <<>> \in Seq(Cell)
    BY EmptySeq DEF Word
  <2>2. Preallocate => PreallocatedAt \in Word
    BY OptionsAssumption DEF PreallocatedAt
  <2>3. QED
    BY <2>1, <2>2 DEF Init, EmptyHeader, Header
<1>3. ControlType /\ LabelsType
  <2>1. ControlType
    <3>1. MaxLines \in Nat /\ 0 \in 0..MaxLines
      BY OptionsAssumption
    <3>2. QED
      BY <3>1 DEF Init, ControlType
  <2>2. LabelsType
    BY DEF Init, LabelsType
  <2>3. QED
    BY <2>1, <2>2
<1>4. TargetsType /\ InstructionType /\ TablesType
  BY <1>1, EmptySeq DEF Init, TargetsType, InstructionType, TablesType
<1>5. QED
  BY <1>2, <1>3, <1>4, EmptySeq DEF Init, TypeOK

(* Every step keeps the types, and every step but ApplyTarget leaves what  *)
(* was written as it is.                                                   *)
LEMMA StepAppends ==
  ASSUME TypeOK, [Next]_vars
  PROVE  TypeOK' /\ (Extends(file, file') \/ ApplyTarget)
<1>1. ASSUME NEW n \in Sizes, NEW b \in {0, 180}, Seek(n, b)
      PROVE  TypeOK' /\ Extends(file, file')
  BY <1>1, SeekType
<1>2. ASSUME NEW o \in Offsets, NEW b \in {0, 180}, SeekAbs(o, b)
      PROVE  TypeOK' /\ Extends(file, file')
  BY <1>2, SeekAbsType
<1>3. CASE DefaultAlign
  BY <1>3, DefaultAlignType
<1>4. ASSUME NEW n \in Sizes, Align(n)
      PROVE  TypeOK' /\ Extends(file, file')
  BY <1>4, AlignType
<1>5. ASSUME NEW bytes \in ByteLists, ByteDirective(bytes)
      PROVE  TypeOK' /\ Extends(file, file')
  BY <1>5, ByteDirectiveType
<1>6. ASSUME NEW l \in Labels, Label(l)
      PROVE  TypeOK' /\ Extends(file, file')
  BY <1>6, LabelType
<1>7. ASSUME NEW l \in Labels, AlignedLabel(l)
      PROVE  TypeOK' /\ Extends(file, file')
  BY <1>7, AlignedLabelType
<1>8. ASSUME NEW l \in Labels, NEW n \in LocalCounts, NEW v \in LocalValues,
             Routine(l, n, v)
      PROVE  TypeOK' /\ Extends(file, file')
  BY <1>8, RoutineType
<1>9. ASSUME NEW l \in Labels, NEW n \in LocalCounts, Start(l, n)
      PROVE  TypeOK' /\ Extends(file, file')
  BY <1>9, StartType
<1>10. ASSUME NEW flags \in {0, 2}, Status(flags)
       PROVE  TypeOK' /\ Extends(file, file')
  BY <1>10, StatusType
<1>11. ASSUME NEW v \in GlobalValues, SetGlobal(v)
       PROVE  TypeOK' /\ Extends(file, file')
  BY <1>11, SetGlobalType
<1>12. ASSUME NEW t \in Texts, String(t)
       PROVE  TypeOK' /\ Extends(file, file')
  BY <1>12, StringType
<1>13. ASSUME NEW table \in Tables, UnicodeTable(table)
       PROVE  TypeOK' /\ Extends(file, file')
  BY <1>13, UnicodeTableType
<1>14. ASSUME NEW i \in Instructions, HandleOpcode(i)
       PROVE  TypeOK' /\ Extends(file, file')
  BY <1>14, HandleOpcodeType
<1>15. CASE WriteOperand
  BY <1>15, WriteOperandType
<1>16. CASE EndOpcode
  BY <1>16, EndOpcodeType
<1>17. CASE EndOfSource
  BY <1>17, EndOfSourceType
<1>18. CASE ApplyTarget
  BY <1>18, ApplyTargetType
<1>19. CASE FinishFile
  BY <1>19, FinishFileType
<1>20. CASE UNCHANGED vars
  BY <1>20, ExtendsReflexive
     DEF vars, TypeOK, ControlType, LabelsType, TargetsType, InstructionType,
         TablesType, text_vars
<1>21. CASE Finished
  BY <1>20, <1>21 DEF Finished
<1>22. QED
  BY <1>1, <1>2, <1>3, <1>4, <1>5, <1>6, <1>7, <1>8, <1>9, <1>10, <1>11,
     <1>12, <1>13, <1>14, <1>15, <1>16, <1>17, <1>18, <1>19, <1>20, <1>21
     DEF Next

(* The state keeps its types whatever the source: in particular every      *)
(* header word the assembler fills in fits its 16 bits, and every cell of  *)
(* the output is a byte.                                                   *)
THEOREM TypeCorrect == Spec => []TypeOK
<1>1. TypeOK /\ [Next]_vars => TypeOK'
  BY StepAppends
<1>2. QED
  BY InitType, <1>1, PTL DEF Spec

(* A cell once written changes only while the reference whose field it     *)
(* belongs to is patched, for any source and any version.                  *)
THEOREM WrittenOnceHolds == Spec => WrittenOnce
<1> DEFINE Step == \A i \in 1..Len(file) :
                     \/ /\ i <= Len(file')
                        /\ file'[i] = file[i]
                     \/ /\ applied < Len(label_targets)
                        /\ applied' = applied + 1
                        /\ LET t == label_targets[applied + 1]
                           IN (Origin + i) - 1 \in t.from..(t.from + Width(t)) - 1
<1>1. ASSUME TypeOK, [Next]_vars
      PROVE  Step
  <2>1. Len(file) \in Nat /\ file \in Seq(Cell)
    BY <1>1, LenProperties DEF TypeOK
  <2>2. CASE Extends(file, file')
    <3>1. Len(file') \in Nat
      BY <2>2, LenProperties DEF Extends
    <3>2. QED
      BY <2>1, <2>2, <3>1 DEF Extends
  <2>3. CASE ApplyTarget /\ phase' = "error"
    <3>1. file' = file
      BY <2>3 DEF ApplyTarget, Fail
    <3>2. QED
      BY <2>1, <3>1
  <2>4. CASE ApplyTarget /\ phase' # "error"
    <3> DEFINE t == label_targets[applied + 1]
    <3>1. /\ t \in Target
          /\ labels[t.label] \in Nat
          /\ ValueFits(t, labels[t.label])
          /\ file' = Patch(file, t, Field(t, labels[t.label]))
          /\ applied' = applied + 1
      BY <1>1, <2>4, ApplyTargetPatches
    <3> HIDE DEF t
    <3>2. /\ Len(file') = Len(file)
          /\ \A i \in 1..Len(file) :
               \/ file'[i] = file[i]
               \/ (Origin + i) - 1 \in t.from..(t.from + Width(t)) - 1
      BY <2>1, <3>1, FieldType, PatchType
    <3>3. applied < Len(label_targets)
      BY <2>4 DEF ApplyTarget
    <3>4. QED
      BY <2>1, <3>1, <3>2, <3>3 DEF t
  <2>5. QED
    BY <1>1, <2>2, <2>3, <2>4, StepAppends
<1>2. Spec => [][Step]_vars
  <2>1. TypeOK /\ [Next]_vars => [Step]_vars
    BY <1>1
  <2>2. QED
    BY <2>1, TypeCorrect, PTL DEF Spec
<1>3. QED
  BY <1>2, PTL DEF WrittenOnce

----------------------------------------------------------------------------
(* What is read back in a patched field.                                   *)

LEMMA WordReads ==
  ASSUME NEW v \in Word
  PROVE  (v \div 256) * 256 + (v % 256) = v
BY DEF Word

LEMMA JumpReads ==
  ASSUME NEW v \in Int, -32768 <= v, v <= 32767
  PROVE  Signed(v % 65536, 32768) = v
<1>1. CASE v >= 0
  BY <1>1 DEF Signed
<1>2. CASE v < 0
  <2>1. v % 65536 = v + 65536
    BY <1>2
  <2>2. QED
    BY <1>2, <2>1 DEF Signed
<1>3. QED
  BY <1>1, <1>2

LEMMA LongBranchReads ==
  ASSUME NEW t \in Target, t.kind = "branch", ~t.small,
         NEW to \in Nat, ValueFits(t, to)
  PROVE  /\ Signed(Field(t, to) % 16384, 8192) = to - t.from
         /\ ((Field(t, to) \div 256) \div 64) % 2 = 0
         /\ (Field(t, to) \div 256 >= 128) <=> ~t.invert
<1> DEFINE v == to - t.from
           r == v % 16384
<1>1. t.from \in Nat /\ t.invert \in BOOLEAN
  BY DEF Target
<1>2. v \in Int /\ -8192 <= v /\ v <= 8191
  BY <1>1 DEF ValueFits, TargetValue
<1>3. Field(t, to) = r + (IF t.invert THEN 0 ELSE 32768)
  BY DEF Field, TargetValue
<1> HIDE DEF v
<1>4. r \in Int /\ 0 <= r /\ r < 16384 /\ r = IF v >= 0 THEN v ELSE v + 16384
  <2>1. CASE v >= 0
    BY <1>2, <2>1
  <2>2. CASE v < 0
    BY <1>2, <2>2
  <2>3. QED
    BY <1>2, <2>1, <2>2
<1> SUFFICES /\ Signed(Field(t, to) % 16384, 8192) = v
             /\ ((Field(t, to) \div 256) \div 64) % 2 = 0
             /\ (Field(t, to) \div 256 >= 128) <=> ~t.invert
  BY DEF v
<1> HIDE DEF r
<1>5. CASE t.invert
  <2>1. Field(t, to) = r
    BY <1>3, <1>4, <1>5
  <2>2. QED
    BY <1>2, <1>4, <1>5, <2>1 DEF Signed
<1>6. CASE ~t.invert
  <2>1. Field(t, to) = r + 32768
    BY <1>3, <1>4, <1>6
  <2>2. QED
    BY <1>2, <1>4, <1>6, <2>1 DEF Signed
<1>7. QED
  BY <1>1, <1>5, <1>6

LEMMA SmallBranchReads ==
  ASSUME NEW t \in Target, t.kind = "branch", t.small,
         NEW to \in Nat, ValueFits(t, to)
  PROVE  /\ Field(t, to) % 64 = (to - t.from) + 1
         /\ (Field(t, to) \div 64) % 2 = 1
         /\ (Field(t, to) >= 128) <=> ~t.invert
<1> DEFINE v == (to - t.from) + 1
<1>1. t.from \in Nat /\ t.invert \in BOOLEAN
  BY DEF Target
<1>2. v \in Int /\ 0 <= v /\ v <= 63
  BY <1>1 DEF ValueFits, TargetValue
<1>3. Field(t, to) = (v % 64) + 64 + (IF t.invert THEN 0 ELSE 128)
  BY DEF Field, TargetValue
<1>4. v % 64 = v
  BY <1>2
<1> SUFFICES /\ Field(t, to) % 64 = v
             /\ (Field(t, to) \div 64) % 2 = 1
             /\ (Field(t, to) >= 128) <=> ~t.invert
  OBVIOUS
<1> HIDE DEF v
<1>5. CASE t.invert
  <2>1. Field(t, to) = v + 64
    BY <1>2, <1>3, <1>4, <1>5
  <2>2. QED
    BY <1>2, <1>5, <2>1
<1>6. CASE ~t.invert
  <2>1. Field(t, to) = v + 192
    BY <1>2, <1>3, <1>4, <1>6
  <2>2. QED
    BY <1>2, <1>6, <2>1
<1>7. QED
  BY <1>1, <1>5, <1>6

LEMMA PackedReads ==
  ASSUME NEW to \in Nat, to % Alignment = 0
  PROVE  (to \div Alignment) * Alignment = to
<1>1. CASE Alignment = 2
  BY <1>1
<1>2. CASE Alignment = 4
  BY <1>2
<1>3. CASE Alignment = 8
  BY <1>3
<1>4. QED
  BY <1>1, <1>2, <1>3 DEF Alignment

(* The cells of a field that lies in the file, once patched.               *)
LEMMA PatchReads ==
  ASSUME NEW f \in Seq(Cell), NEW t \in Target, NEW field,
         Origin <= t.from, t.from + Width(t) <= Origin + Len(f)
  PROVE  LET k == (t.from - Origin) + 1
         IN /\ Width(t) = 1 => Patch(f, t, field)[k] = field
            /\ Width(t) # 1 => /\ Patch(f, t, field)[k] = field \div 256
                               /\ Patch(f, t, field)[k + 1] = field % 256
<1> DEFINE k == (t.from - Origin) + 1
<1>1. t.from \in Nat /\ Origin \in Nat /\ Len(f) \in Nat
  BY OptionsAssumption, LenProperties DEF Target
<1>2. f \in [1..Len(f) -> Cell]
  BY LenProperties
<1>3. CASE Width(t) = 1
  <2>1. k \in 1..Len(f)
    BY <1>1, <1>3
  <2> HIDE DEF k
  <2>2. [f EXCEPT ![k] = field][k] = field
    BY <1>2, <2>1
  <2>3. QED
    BY <1>3, <2>2 DEF Patch, k
<1>4. CASE Width(t) # 1
  <2>1. k \in 1..Len(f) /\ k + 1 \in 1..Len(f) /\ k \in Int
    BY <1>1, <1>4 DEF Width
  <2> HIDE DEF k
  <2> DEFINE g == [f EXCEPT ![k] = field \div 256, ![k + 1] = field % 256]
  <2>2. g[k] = field \div 256 /\ g[k + 1] = field % 256
    BY <1>2, <2>1
  <2>3. QED
    BY <1>4, <2>2 DEF Patch, k
<1>5. QED
  BY <1>3, <1>4

(* A reference whose field does not change stays resolved.                 *)
LEMMA ResolvedStays ==
  ASSUME NEW t \in Target, Resolved(t), UNCHANGED labels,
         ByteAt(t.from)' = ByteAt(t.from),
         Width(t) = 2 => ByteAt(t.from + 1)' = ByteAt(t.from + 1)
  PROVE  Resolved(t)'
<1>1. t.kind \in {"packed", "unpacked", "jump", "branch"} /\ t.small \in BOOLEAN
  BY DEF Target
<1>2. ShortBranch(t.from)' = ShortBranch(t.from)
      /\ BranchIfTrue(t.from)' = BranchIfTrue(t.from)
      /\ BranchNext(t.from)' = BranchNext(t.from)
  BY DEF ShortBranch, BranchIfTrue, BranchNext
<1>3. Width(t) = 2 => WordAt(t.from)' = WordAt(t.from)
  BY DEF WordAt
<1>4. Denotes(t)' = Denotes(t)
  <2>1. CASE t.kind = "branch"
    <3>1. ShortBranch(t.from) <=> t.small
      BY <2>1, <1>1 DEF Resolved
    <3>2. BranchOffset(t.from)' = BranchOffset(t.from)
      BY <3>1, <2>1, <1>2, <1>3 DEF BranchOffset, Width
    <3>3. QED
      BY <2>1, <1>2, <3>2 DEF Denotes
  <2>2. CASE t.kind # "branch"
    BY <2>2, <1>1, <1>3 DEF Denotes, Width
  <2>3. QED
    BY <2>1, <2>2
<1>5. QED
  BY <1>2, <1>4 DEF Resolved

(* A reference just patched is resolved.                                   *)
LEMMA PatchResolves ==
  ASSUME NEW t \in Target, file \in Seq(Cell),
         Origin <= t.from, t.from + Width(t) <= Position,
         t.label \in DOMAIN labels, labels[t.label] \in Nat,
         ValueFits(t, labels[t.label]),
         file' = Patch(file, t, Field(t, labels[t.label])),
         UNCHANGED labels
  PROVE  Resolved(t)'
<1> DEFINE to == labels[t.label]
           v == TargetValue(t, to)
           field == Field(t, to)
<1>1. t.from \in Nat /\ t.small \in BOOLEAN /\ t.invert \in BOOLEAN
  BY DEF Target
<1>2. /\ Width(t) = 1 => ByteAt(t.from)' = field
      /\ Width(t) # 1 => /\ ByteAt(t.from)' = field \div 256
                         /\ ByteAt(t.from + 1)' = field % 256
  <2>1. t.from + Width(t) <= Origin + Len(file)
    BY DEF Position
  <2>2. ((t.from + 1) - Origin) + 1 = ((t.from - Origin) + 1) + 1
    BY <1>1, OptionsAssumption
  <2>3. QED
    BY <2>1, <2>2, PatchReads DEF ByteAt
<1>3. Width(t) # 1 => field \in Word /\ WordAt(t.from)' = field
  <2>1. Width(t) # 1 => field \in Word
    BY FieldType
  <2>2. QED
    BY <1>2, <2>1, WordReads DEF WordAt
<1>4. t.label \in DOMAIN labels' /\ labels'[t.label] = to /\ to \in Nat
  OBVIOUS
<1> HIDE DEF to
<1>5. CASE t.kind = "packed"
  <2>1. field = to \div Alignment /\ to % Alignment = 0
    BY <1>5 DEF Field, TargetValue, ValueFits, to
  <2>2. Denotes(t)' = to
    BY <1>3, <1>4, <1>5, <2>1, PackedReads DEF Denotes, Width
  <2>3. QED
    BY <1>4, <1>5, <2>2 DEF Resolved
<1>6. CASE t.kind = "unpacked"
  <2>1. field = to
    BY <1>6 DEF Field, TargetValue
  <2>2. Denotes(t)' = to
    BY <1>3, <1>6, <2>1 DEF Denotes, Width
  <2>3. QED
    BY <1>4, <1>6, <2>2 DEF Resolved
<1>7. CASE t.kind = "jump"
  <2>1. /\ field = v % 65536 /\ v = to - t.from
        /\ v \in Int /\ -32768 <= v /\ v <= 32767
    BY <1>1, <1>4, <1>7 DEF Field, TargetValue, ValueFits, to
  <2> HIDE DEF v, field
  <2>2. Signed(WordAt(t.from)', 32768) = v
    BY <1>3, <1>7, <2>1, JumpReads DEF Width
  <2>3. Denotes(t)' = ((t.from + 2) + v) - 2
    BY <1>7, <2>2 DEF Denotes
  <2>4. QED
    BY <1>1, <1>4, <1>7, <2>1, <2>3 DEF Resolved
<1>8. CASE t.kind = "branch" /\ ~t.small
  <2>1. /\ Signed(field % 16384, 8192) = to - t.from
        /\ ((field \div 256) \div 64) % 2 = 0
        /\ (field \div 256 >= 128) <=> ~t.invert
    BY <1>4, <1>8, LongBranchReads DEF to
  <2> HIDE DEF field
  <2>2. /\ ByteAt(t.from)' = field \div 256
        /\ WordAt(t.from)' = field
    BY <1>2, <1>3, <1>8 DEF Width
  <2>3. ShortBranch(t.from)' = FALSE /\ BranchIfTrue(t.from)' = ~t.invert
    BY <1>1, <2>1, <2>2 DEF ShortBranch, BranchIfTrue
  <2>4. BranchNext(t.from)' = t.from + 2
        /\ BranchOffset(t.from)' = to - t.from
    BY <2>1, <2>2, <2>3 DEF BranchNext, BranchOffset
  <2>5. Denotes(t)' = to
    BY <1>1, <1>4, <1>8, <2>4 DEF Denotes
  <2>6. QED
    BY <1>1, <1>4, <1>8, <2>3, <2>5 DEF Resolved
<1>9. CASE t.kind = "branch" /\ t.small
  <2>1. /\ field % 64 = (to - t.from) + 1
        /\ (field \div 64) % 2 = 1
        /\ (field >= 128) <=> ~t.invert
    BY <1>4, <1>9, SmallBranchReads DEF to
  <2> HIDE DEF field
  <2>2. ByteAt(t.from)' = field
    BY <1>2, <1>9 DEF Width
  <2>3. ShortBranch(t.from)' = TRUE /\ BranchIfTrue(t.from)' = ~t.invert
    BY <1>1, <2>1, <2>2 DEF ShortBranch, BranchIfTrue
  <2>4. BranchNext(t.from)' = t.from + 1
        /\ BranchOffset(t.from)' = (to - t.from) + 1
    BY <2>1, <2>2, <2>3 DEF BranchNext, BranchOffset
  <2>5. Denotes(t)' = to
    BY <1>1, <1>4, <1>9, <2>4 DEF Denotes
  <2>6. QED
    BY <1>1, <1>4, <1>9, <2>3, <2>5 DEF Resolved
<1>10. QED
  BY <1>5, <1>6, <1>7, <1>8, <1>9 DEF Target

----------------------------------------------------------------------------
(* The inductive invariant: besides the invariants to prove, nothing is    *)
(* buffered between instructions, and nothing is patched before the source *)
(* has ended.                                                              *)

LinkInv ==
  /\ TypeOK
  /\ FieldsApart
  /\ phase \in {"source", "link", "done"} => buf = <<>>
  /\ phase \in {"source", "operands"} => applied = 0
  /\ ReferencesResolved
  /\ AllLinked

LEMMA Lengths ==
  ASSUME TypeOK
  PROVE  /\ Len(file) \in Nat /\ Len(buf) \in Nat
         /\ Len(label_targets) \in Nat /\ applied \in Nat
         /\ \A i \in 1..Len(label_targets) :
              /\ label_targets[i] \in Target
              /\ label_targets[i].from \in Nat
              /\ Width(label_targets[i]) \in {1, 2}
<1>1. file \in Seq(Cell) /\ buf \in Seq(Byte) /\ label_targets \in Seq(Target)
  BY DEF TypeOK, InstructionType, TargetsType
<1>2. /\ Len(file) \in Nat /\ Len(buf) \in Nat /\ Len(label_targets) \in Nat
      /\ applied \in Nat
  BY <1>1, LenProperties DEF TypeOK, TargetsType
<1>3. \A i \in 1..Len(label_targets) : label_targets[i] \in Target
  BY <1>1, ElementOfSeq
<1>4. QED
  BY <1>2, <1>3 DEF Target, Width

(* Recording no reference, and losing no ground, keeps the fields apart.   *)
LEMMA FieldsStay ==
  ASSUME TypeOK, FieldsApart, phase # "error", TypeOK',
         UNCHANGED label_targets,
         Position + Len(buf) <= Position' + Len(buf')
  PROVE  FieldsApart'
<1>1. Position \in Nat /\ Position' \in Nat
  <2>1. Len(file') \in Nat
    BY LenProperties DEF TypeOK
  <2>2. QED
    BY <2>1, PositionType, OptionsAssumption DEF Position
<1>2. Len(buf) \in Nat /\ Len(buf') \in Nat
  BY LenProperties DEF TypeOK, InstructionType
<1>3. ASSUME NEW i \in 1..Len(label_targets)
      PROVE  /\ Origin <= label_targets[i].from
             /\ label_targets[i].from + Width(label_targets[i])
                  <= Position' + Len(buf')
  <2> DEFINE u == label_targets[i]
  <2>1. /\ Origin <= u.from /\ u.from + Width(u) <= Position + Len(buf)
        /\ u.from \in Nat /\ Width(u) \in {1, 2}
    BY Lengths DEF FieldsApart
  <2> HIDE DEF u
  <2>2. u.from + Width(u) <= Position' + Len(buf')
    BY <1>1, <1>2, <2>1
  <2>3. QED
    BY <2>1, <2>2 DEF u
<1>4. QED
  BY <1>3 DEF FieldsApart, Width

(* Recording the field that is being written keeps the fields apart.       *)
LEMMA FieldAppended ==
  ASSUME TypeOK, FieldsApart, phase # "error", TypeOK',
         NEW t \in Target, label_targets' = Append(label_targets, t),
         t.from = Position + Len(buf),
         t.from + Width(t) <= Position' + Len(buf')
  PROVE  FieldsApart'
<1> DEFINE n == Len(label_targets)
<1>1. /\ Len(label_targets') = n + 1 /\ n \in Nat
      /\ \A i \in 1..n : label_targets'[i] = label_targets[i]
      /\ label_targets'[n + 1] = t
  BY AppendProperties, Lengths DEF TypeOK, TargetsType
<1>2. /\ Position \in Nat /\ Position' \in Nat /\ Position >= Origin
      /\ Len(buf) \in Nat /\ Len(buf') \in Nat /\ Origin \in Nat
  <2>1. Len(file') \in Nat /\ Len(buf') \in Nat
    BY LenProperties DEF TypeOK, InstructionType
  <2>2. QED
    BY <2>1, Lengths, PositionType, OptionsAssumption DEF Position
<1>3. /\ \A i \in 1..n :
           /\ Origin <= label_targets[i].from
           /\ label_targets[i].from + Width(label_targets[i]) <= t.from
      /\ \A i, j \in 1..n :
           i < j => label_targets[i].from + Width(label_targets[i])
                      <= label_targets[j].from
  BY <1>1 DEF FieldsApart
<1>4. /\ \A i \in 1..n : label_targets[i].from \in Nat
      /\ \A i \in 1..n : Width(label_targets[i]) \in {1, 2}
      /\ t.from \in Nat /\ Width(t) \in {1, 2}
  BY Lengths DEF Target, Width
<1>5. ASSUME NEW i \in 1..(n + 1)
      PROVE  /\ Origin <= label_targets'[i].from
             /\ label_targets'[i].from + Width(label_targets'[i])
                  <= Position' + Len(buf')
  <2>1. CASE i = n + 1
    BY <1>1, <1>2, <1>4, <2>1
  <2>2. CASE i \in 1..n
    <3> DEFINE u == label_targets[i]
    <3>1. label_targets'[i] = u
      BY <1>1, <2>2
    <3>2. /\ Origin <= u.from /\ u.from + Width(u) <= t.from
          /\ u.from \in Nat /\ Width(u) \in {1, 2}
      BY <1>3, <1>4, <2>2
    <3> HIDE DEF u
    <3>3. t.from <= Position' + Len(buf')
      BY <1>2, <1>4
    <3>4. u.from + Width(u) \in Int /\ Position' + Len(buf') \in Int
      BY <1>2, <3>2
    <3>5. u.from + Width(u) <= Position' + Len(buf')
      BY <1>4, <3>2, <3>3, <3>4
    <3>6. QED
      BY <3>1, <3>2, <3>5
  <2>3. QED
    BY <1>1, <2>1, <2>2
<1>6. ASSUME NEW i \in 1..(n + 1), NEW j \in 1..(n + 1), i < j
      PROVE  label_targets'[i].from + Width(label_targets'[i])
               <= label_targets'[j].from
  <2>1. i \in 1..n
    BY <1>1, <1>6
  <2>2. CASE j = n + 1
    BY <1>1, <1>3, <2>1, <2>2
  <2>3. CASE j \in 1..n
    BY <1>1, <1>3, <1>6, <2>1, <2>3
  <2>4. QED
    BY <1>1, <2>2, <2>3
<1>7. QED
  BY <1>1, <1>5, <1>6 DEF FieldsApart, Width

(* A step while the source is read that records and buffers nothing.       *)
Quiet ==
  /\ phase = "source" /\ phase' \in {"source", "error"}
  /\ Extends(file, file')
  /\ UNCHANGED <<label_targets, applied, buf>>

LEMMA ExtendsPosition ==
  ASSUME TypeOK, Extends(file, file')
  PROVE  Position <= Position' /\ Position' \in Nat
<1>1. Len(file) \in Nat /\ Len(file') \in Nat /\ Len(file) <= Len(file')
  BY LenProperties DEF TypeOK, Extends
<1>2. QED
  BY <1>1, OptionsAssumption DEF Position

LEMMA QuietLinks ==
  ASSUME LinkInv, TypeOK', Quiet
  PROVE  LinkInv'
<1>1. FieldsApart'
  <2>1. Position <= Position' /\ Position' \in Nat /\ Position \in Nat
    BY ExtendsPosition, PositionType DEF LinkInv, Quiet
  <2>2. Len(buf) \in Nat /\ buf' = buf
    BY Lengths DEF LinkInv, Quiet
  <2>3. Position + Len(buf) <= Position' + Len(buf')
    BY <2>1, <2>2
  <2>4. QED
    BY <2>3, FieldsStay DEF LinkInv, Quiet
<1>2. QED
  BY <1>1 DEF LinkInv, Quiet, ReferencesResolved, AllLinked

LEMMA HandleOpcodeLinks ==
  ASSUME LinkInv, TypeOK', NEW i \in Instructions, HandleOpcode(i)
  PROVE  LinkInv'
<1>1. /\ phase = "source" /\ phase' = "operands" /\ buf = <<>>
      /\ UNCHANGED <<file, label_targets, applied>>
  BY DEF LinkInv, HandleOpcode, ReadLine
<1>2. Position + Len(buf) <= Position' + Len(buf')
  <2>1. Position' = Position /\ Position \in Nat
    BY <1>1, PositionType DEF LinkInv, Position
  <2>2. Len(buf) = 0 /\ Len(buf') \in Nat
    BY <1>1, EmptySeq, LenProperties DEF TypeOK, InstructionType
  <2>3. QED
    BY <2>1, <2>2
<1>3. FieldsApart'
  BY <1>1, <1>2, FieldsStay DEF LinkInv
<1>4. QED
  BY <1>1, <1>3 DEF LinkInv, ReferencesResolved, AllLinked

LEMMA WriteOperandLinks ==
  ASSUME LinkInv, TypeOK', WriteOperand
  PROVE  LinkInv'
<1> DEFINE a == Head(ins.args)
           t == Reference(a.kind, a.label, Position + Len(buf), FALSE, FALSE)
<1>1. /\ phase = "operands" /\ UNCHANGED <<phase, file, applied>>
      /\ buf' = buf \o a.bytes
      /\ label_targets' = IF a.kind = "bytes" THEN label_targets
                          ELSE Append(label_targets, t)
  BY DEF WriteOperand
<1>2. a \in Operand /\ buf \in Seq(Byte)
  BY HeadTailProperties
     DEF LinkInv, TypeOK, InstructionType, Instruction, WriteOperand
<1> HIDE DEF a
<1>3. /\ a.bytes \in Seq(Byte)
      /\ a.kind # "bytes" => Len(a.bytes) = 2
      /\ a.kind \in {"bytes", "packed", "unpacked", "jump"}
      /\ a.kind # "bytes" => a.label \in Labels
  <2>1. <<0, 0>> \in Seq(Byte) /\ Len(<<0, 0>>) = 2
    BY DEF Byte
  <2>2. QED
    BY <1>2, <2>1 DEF Operand
<1>4. /\ Len(buf') = Len(buf) + Len(a.bytes)
      /\ Len(buf) \in Nat /\ Len(a.bytes) \in Nat
  BY <1>1, <1>2, <1>3, ConcatProperties, LenProperties
<1>5. Position' = Position /\ Position \in Nat
  BY <1>1, PositionType DEF LinkInv, Position
<1>6. FieldsApart'
  <2>1. CASE a.kind = "bytes"
    <3>1. Position + Len(buf) <= Position' + Len(buf')
      BY <1>4, <1>5
    <3>2. QED
      BY <1>1, <2>1, <3>1, FieldsStay DEF LinkInv
  <2>2. CASE a.kind # "bytes"
    <3>1. t \in Target
      <4>1. a.kind \in {"packed", "unpacked", "jump", "branch"}
        BY <1>3, <2>2
      <4>2. a.label \in Labels /\ Position + Len(buf) \in Nat
        BY <1>3, <1>4, <1>5, <2>2
      <4>3. QED
        BY <4>1, <4>2, ReferenceType
    <3>2. t.from = Position + Len(buf) /\ t.kind = a.kind
      BY DEF Reference
    <3>3. Width(t) = 2
      BY <1>3, <2>2, <3>2 DEF Width
    <3>4. label_targets' = Append(label_targets, t)
      BY <1>1, <2>2
    <3> HIDE DEF t
    <3>5. t.from + Width(t) <= Position' + Len(buf')
      <4>1. Len(buf') = Len(buf) + 2
        BY <1>3, <1>4, <2>2
      <4>2. QED
        BY <1>4, <1>5, <3>2, <3>3, <4>1
    <3>6. QED
      BY <1>1, <3>1, <3>2, <3>4, <3>5, FieldAppended DEF LinkInv
  <2>3. QED
    BY <2>1, <2>2
<1>7. QED
  BY <1>1, <1>6 DEF LinkInv, ReferencesResolved, AllLinked

LEMMA EndOpcodeLinks ==
  ASSUME LinkInv, TypeOK', EndOpcode
  PROVE  LinkInv'
<1> DEFINE b == ins.branch
           text == IF ins.text = NoText THEN <<>> ELSE TextBytes(ins.text)
           code == buf \o BranchBytes(b) \o text \o ins.store
           t == Reference("branch", b.label, Position + Len(buf), b.invert,
                          b.small)
<1>1. /\ phase = "operands" /\ phase' \in {"source", "error"} /\ buf' = <<>>
      /\ UNCHANGED applied
      /\ phase' # "error" => file' = file \o code
      /\ label_targets' = IF b.kind = "label" THEN Append(label_targets, t)
                          ELSE label_targets
  BY DEF EndOpcode
<1>2. /\ b \in BranchPart /\ buf \in Seq(Byte) /\ file \in Seq(Cell)
      /\ ins.text = NoText \/ ins.text \in Texts
      /\ ins.store \in Seq(Byte)
  BY DEF LinkInv, TypeOK, InstructionType, Instruction
<1> HIDE DEF b
<1>3. /\ text \in Seq(Cell) /\ BranchBytes(b) \in Seq(Cell)
      /\ buf \in Seq(Cell) /\ ins.store \in Seq(Cell)
  BY <1>2, TableAfterType, EmptySeq, BranchBytesType, CellsOfBytes DEF LinkInv
<1> HIDE DEF text
<1>4. code \in Seq(Cell)
      /\ Len(code) = Len(buf) + Len(BranchBytes(b)) + Len(text) + Len(ins.store)
  <2>1. /\ buf \o BranchBytes(b) \in Seq(Cell)
        /\ Len(buf \o BranchBytes(b)) = Len(buf) + Len(BranchBytes(b))
    BY <1>3, ConcatProperties
  <2>2. /\ (buf \o BranchBytes(b)) \o text \in Seq(Cell)
        /\ Len((buf \o BranchBytes(b)) \o text)
             = Len(buf) + Len(BranchBytes(b)) + Len(text)
    BY <1>3, <2>1, ConcatProperties
  <2>3. QED
    BY <1>3, <2>2, ConcatProperties
<1> HIDE DEF code
<1>5. /\ Len(buf) \in Nat /\ Len(BranchBytes(b)) \in Nat
      /\ Len(text) \in Nat /\ Len(ins.store) \in Nat
  BY <1>3, LenProperties
<1>6. phase' # "error" => /\ Position' = Position + Len(code)
                          /\ Len(buf') = 0
  <2>1. Len(file) \in Nat /\ Len(code) \in Nat
    BY <1>2, <1>4, LenProperties
  <2>2. phase' # "error" => Len(file') = Len(file) + Len(code)
    BY <1>1, <1>2, <1>4, AppendedExtends
  <2>3. QED
    BY <1>1, <2>1, <2>2, EmptySeq, OptionsAssumption DEF Position
<1>7. Position \in Nat
  BY PositionType DEF LinkInv
<1>8. phase' # "error" =>
         /\ Position + Len(buf) <= Position' + Len(buf')
         /\ (Position + Len(buf)) + Len(BranchBytes(b)) <= Position' + Len(buf')
  <2> DEFINE p == Len(buf)
             q == Len(BranchBytes(b))
             r == Len(text)
             u == Len(ins.store)
  <2>1. /\ p \in Nat /\ q \in Nat /\ r \in Nat /\ u \in Nat
        /\ Len(code) = p + q + r + u
    BY <1>4, <1>5
  <2> HIDE DEF p, q, r, u
  <2>2. /\ Position + p <= Position + Len(code)
        /\ (Position + p) + q <= Position + Len(code)
    BY <1>7, <2>1
  <2>3. phase' # "error" => Position' + Len(buf') = Position + Len(code)
    BY <1>6, <1>7, <2>1
  <2>4. QED
    BY <2>2, <2>3 DEF p, q
<1>9. CASE phase' = "error"
  BY <1>1, <1>9 DEF LinkInv, FieldsApart, ReferencesResolved, AllLinked
<1>10. CASE phase' # "error"
  <2>1. FieldsApart'
    <3>1. CASE b.kind # "label"
      <4>1. Position + Len(buf) <= Position' + Len(buf')
        BY <1>10, <1>8
      <4>2. QED
        BY <1>1, <1>10, <3>1, <4>1, FieldsStay DEF LinkInv
    <3>2. CASE b.kind = "label"
      <4>1. /\ b.label \in Labels /\ b.invert \in BOOLEAN
            /\ b.small \in BOOLEAN
        BY <1>2, <3>2 DEF BranchPart
      <4>2. t \in Target
        <5>1. Position + Len(buf) \in Nat
          BY <1>5, <1>7
        <5>2. QED
          BY <4>1, <5>1, ReferenceType
      <4>3. /\ t.from = Position + Len(buf)
            /\ Width(t) = Len(BranchBytes(b))
        BY <3>2, <4>1 DEF Reference, Width, BranchBytes
      <4>4. label_targets' = Append(label_targets, t)
        BY <1>1, <3>2
      <4> HIDE DEF t
      <4>5. t.from + Width(t) <= Position' + Len(buf')
        BY <1>10, <1>8, <4>3
      <4>6. QED
        BY <1>1, <4>2, <4>3, <4>4, <4>5, FieldAppended DEF LinkInv
    <3>3. QED
      BY <3>1, <3>2
  <2>2. QED
    BY <1>1, <1>10, <2>1 DEF LinkInv, ReferencesResolved, AllLinked
<1>11. QED
  BY <1>9, <1>10

LEMMA EndOfSourceLinks ==
  ASSUME LinkInv, TypeOK', EndOfSource
  PROVE  LinkInv'
<1>1. /\ phase = "source" /\ phase' = "link" /\ applied = 0
      /\ UNCHANGED <<file, label_targets, applied, buf>>
  BY DEF LinkInv, EndOfSource
<1>2. FieldsApart'
  BY <1>1 DEF LinkInv, FieldsApart, Position, Width
<1>3. QED
  BY <1>1, <1>2 DEF LinkInv, ReferencesResolved, AllLinked

(* The field of the reference being patched meets no other field, so the   *)
(* references patched before it stay resolved.                             *)
LEMMA ApplyTargetLinks ==
  ASSUME LinkInv, TypeOK', ApplyTarget
  PROVE  LinkInv'
<1>1. /\ phase = "link" /\ buf = <<>>
      /\ UNCHANGED <<labels, label_targets, buf>>
  BY DEF LinkInv, ApplyTarget
<1>2. CASE phase' = "error"
  BY <1>1, <1>2 DEF LinkInv, FieldsApart, ReferencesResolved, AllLinked
<1>3. CASE phase' # "error"
  <2>1. PICK n \in Int : n = applied + 1
    BY Lengths DEF LinkInv
  <2>2. PICK t \in Target : t = label_targets[n]
    BY <1>3, <2>1, ApplyTargetPatches DEF LinkInv
  <2> DEFINE field == Field(t, labels[t.label])
  <2>3. /\ n \in 1..Len(label_targets)
        /\ t.label \in DOMAIN labels /\ labels[t.label] \in Nat
        /\ ValueFits(t, labels[t.label])
        /\ file' = Patch(file, t, field)
        /\ applied' = n
        /\ phase' = "link"
    BY <1>1, <1>3, <2>1, <2>2, ApplyTargetPatches DEF LinkInv
  <2>4. /\ file \in Seq(Cell)
        /\ Len(file) \in Nat /\ Origin \in Nat /\ Len(buf) = 0
        /\ \A i \in 1..Len(label_targets) :
             /\ label_targets[i] \in Target
             /\ label_targets[i].from \in Nat
             /\ Width(label_targets[i]) \in {1, 2}
    BY <1>1, Lengths, OptionsAssumption, EmptySeq DEF LinkInv, TypeOK
  <2>5. /\ \A i \in 1..Len(label_targets) :
             /\ Origin <= label_targets[i].from
             /\ label_targets[i].from + Width(label_targets[i]) <= Position
        /\ \A i, j \in 1..Len(label_targets) :
             i < j => label_targets[i].from + Width(label_targets[i])
                        <= label_targets[j].from
    <3>1. Position + Len(buf) = Position
      BY <2>4, PositionType DEF LinkInv
    <3>2. QED
      BY <1>1, <3>1 DEF LinkInv, FieldsApart
  <2> HIDE DEF field
  <2>6. /\ Len(file') = Len(file)
        /\ \A i \in 1..Len(file) :
             \/ file'[i] = file[i]
             \/ (Origin + i) - 1 \in t.from..(t.from + Width(t)) - 1
    BY <2>3, <2>4, FieldType, PatchType DEF field
  <2>7. Position' = Position
    BY <2>6 DEF Position
  <2>8. FieldsApart'
    BY <1>1, <2>7 DEF LinkInv, FieldsApart, Width
  <2>9. Resolved(t)'
    <3>1. Origin <= t.from /\ t.from + Width(t) <= Position
      BY <2>2, <2>3, <2>5
    <3>2. QED
      BY <1>1, <2>3, <2>4, <3>1, PatchResolves DEF field
  <2>10. ASSUME NEW i \in 1..applied
        PROVE  Resolved(label_targets[i])'
    <3>1. PICK u \in Target : u = label_targets[i]
      <4>1. i \in 1..Len(label_targets)
        BY <2>1, <2>3, Lengths DEF LinkInv
      <4>2. QED
        BY <2>4, <4>1
    <3>2. Resolved(u) /\ i \in 1..Len(label_targets) /\ i < n
      BY <1>1, <2>1, <2>3, <3>1, Lengths DEF LinkInv, ReferencesResolved
    <3>3. /\ u.from \in Nat /\ Width(u) \in {1, 2} /\ t.from \in Nat
          /\ Origin <= u.from /\ u.from + Width(u) <= Position
          /\ u.from + Width(u) <= t.from
      BY <2>2, <2>3, <2>4, <2>5, <3>1, <3>2
    <3> DEFINE k == (u.from - Origin) + 1
    <3>4. Position = Origin + Len(file)
      BY DEF Position
    <3>5. /\ k \in Int /\ (Origin + k) - 1 = u.from
          /\ (Origin + (k + 1)) - 1 = u.from + 1
      BY <2>4, <3>3
    <3>6. k \in 1..Len(file) /\ (Width(u) = 2 => k + 1 \in 1..Len(file))
      <4>1. CASE Width(u) = 1
        BY <2>4, <3>3, <3>4, <4>1
      <4>2. CASE Width(u) = 2
        BY <2>4, <3>3, <3>4, <4>2
      <4>3. QED
        BY <3>3, <4>1, <4>2
    <3>7. ((u.from + 1) - Origin) + 1 = k + 1
      BY <2>4, <3>3
    <3> HIDE DEF k
    <3>8. /\ file'[k] = file[k]
          /\ Width(u) = 2 => file'[k + 1] = file[k + 1]
      BY <2>6, <3>3, <3>5, <3>6
    <3>9. /\ ByteAt(u.from)' = ByteAt(u.from)
          /\ Width(u) = 2 => ByteAt(u.from + 1)' = ByteAt(u.from + 1)
      BY <3>7, <3>8 DEF ByteAt, k
    <3>10. Resolved(u)'
      BY <1>1, <3>2, <3>9, ResolvedStays
    <3>11. QED
      BY <1>1, <3>1, <3>10
  <2>11. ReferencesResolved'
    <3>1. applied \in Nat
      BY Lengths DEF LinkInv
    <3>2. Resolved(label_targets[n])'
      BY <1>1, <2>2, <2>9
    <3>3. \A i \in 1..n : Resolved(label_targets[i])'
      BY <2>1, <2>10, <3>1, <3>2
    <3>4. QED
      BY <1>1, <2>3, <3>3 DEF ReferencesResolved
  <2>12. QED
    BY <1>1, <2>3, <2>8, <2>11 DEF LinkInv, AllLinked
<1>4. QED
  BY <1>2, <1>3

(* A cell of a field that lies in the file survives an extension of it.    *)
LEMMA ResolvedExtends ==
  ASSUME TypeOK, NEW t \in Target, Resolved(t), UNCHANGED labels,
         Extends(file, file'),
         Origin <= t.from, t.from + Width(t) <= Position
  PROVE  Resolved(t)'
<1> DEFINE k == (t.from - Origin) + 1
<1>1. /\ t.from \in Nat /\ Width(t) \in {1, 2} /\ Origin \in Nat
      /\ Len(file) \in Nat /\ Position = Origin + Len(file)
  BY Lengths, OptionsAssumption DEF Target, Width, Position
<1>2. k \in 1..Len(file) /\ (Width(t) = 2 => k + 1 \in 1..Len(file))
  <2>1. CASE Width(t) = 1
    BY <1>1, <2>1
  <2>2. CASE Width(t) = 2
    BY <1>1, <2>2
  <2>3. QED
    BY <1>1, <2>1, <2>2
<1>3. ((t.from + 1) - Origin) + 1 = k + 1
  BY <1>1
<1> HIDE DEF k
<1>4. file'[k] = file[k] /\ (Width(t) = 2 => file'[k + 1] = file[k + 1])
  BY <1>2 DEF Extends
<1>5. /\ ByteAt(t.from)' = ByteAt(t.from)
      /\ Width(t) = 2 => ByteAt(t.from + 1)' = ByteAt(t.from + 1)
  BY <1>3, <1>4 DEF ByteAt, k
<1>6. QED
  BY <1>5, ResolvedStays

LEMMA FinishFileLinks ==
  ASSUME LinkInv, TypeOK', FinishFile
  PROVE  LinkInv'
<1>1. /\ phase = "link" /\ phase' \in {"done", "error"} /\ buf = <<>>
      /\ applied = Len(label_targets)
      /\ UNCHANGED <<labels, label_targets, applied, buf>>
  BY DEF LinkInv, FinishFile, Fail
<1>2. Extends(file, file')
  BY FinishFileType DEF LinkInv
<1>3. Len(buf) = 0 /\ Len(buf') = 0 /\ Position \in Nat
  BY <1>1, EmptySeq, PositionType DEF LinkInv
<1>4. FieldsApart'
  <2>1. Position + Len(buf) <= Position' + Len(buf')
    BY <1>2, <1>3, ExtendsPosition DEF LinkInv
  <2>2. QED
    BY <1>1, <2>1, FieldsStay DEF LinkInv
<1>5. ASSUME NEW i \in 1..applied
      PROVE  Resolved(label_targets[i])'
  <2>1. PICK t \in Target : t = label_targets[i]
    BY <1>1, Lengths DEF LinkInv
  <2>2. Origin <= t.from /\ t.from + Width(t) <= Position
    <3>1. Position + Len(buf) = Position
      BY <1>3
    <3>2. QED
      BY <1>1, <2>1, <3>1 DEF LinkInv, FieldsApart
  <2>3. Resolved(t)
    BY <1>1, <2>1 DEF LinkInv, ReferencesResolved
  <2>4. Resolved(t)'
    BY <1>1, <1>2, <2>2, <2>3, ResolvedExtends DEF LinkInv
  <2>5. QED
    BY <1>1, <2>1, <2>4
<1>6. QED
  BY <1>1, <1>4, <1>5 DEF LinkInv, ReferencesResolved, AllLinked

LEMMA InitLinks == Init => LinkInv
<1> SUFFICES ASSUME Init
             PROVE  LinkInv
  OBVIOUS
<1>1. Len(label_targets) = 0
  BY EmptySeq DEF Init
<1>2. QED
  BY <1>1, InitType
     DEF Init, LinkInv, FieldsApart, ReferencesResolved, AllLinked

LEMMA StepLinks ==
  ASSUME LinkInv, [Next]_vars
  PROVE  LinkInv'
<1>1. TypeOK' /\ (Extends(file, file') \/ ApplyTarget)
  BY StepAppends DEF LinkInv
<1>2. CASE ApplyTarget
  BY <1>1, <1>2, ApplyTargetLinks
<1>3. CASE WriteOperand
  BY <1>1, <1>3, WriteOperandLinks
<1>4. CASE EndOpcode
  BY <1>1, <1>4, EndOpcodeLinks
<1>5. CASE EndOfSource
  BY <1>1, <1>5, EndOfSourceLinks
<1>6. CASE FinishFile
  BY <1>1, <1>6, FinishFileLinks
<1>7. ASSUME NEW i \in Instructions, HandleOpcode(i)
      PROVE  LinkInv'
  BY <1>1, <1>7, HandleOpcodeLinks
<1>8. CASE UNCHANGED vars
  <2>1. UNCHANGED <<phase, file, labels, label_targets, applied, buf>>
    BY <1>8 DEF vars
  <2>2. FieldsApart'
    BY <2>1 DEF LinkInv, FieldsApart, Position
  <2>3. ASSUME NEW i \in 1..applied, phase \in {"link", "done"}
        PROVE  Resolved(label_targets[i])'
    <3>1. PICK t \in Target : t = label_targets[i]
      BY Lengths DEF LinkInv, TypeOK, TargetsType
    <3>2. Resolved(t)
      BY <2>3, <3>1 DEF LinkInv, ReferencesResolved
    <3>3. /\ ByteAt(t.from)' = ByteAt(t.from)
          /\ ByteAt(t.from + 1)' = ByteAt(t.from + 1)
      BY <2>1 DEF ByteAt
    <3>4. Resolved(t)'
      BY <2>1, <3>2, <3>3, ResolvedStays
    <3>5. QED
      BY <2>1, <3>1, <3>4
  <2>4. ReferencesResolved'
    BY <2>1, <2>3 DEF ReferencesResolved
  <2>5. QED
    BY <1>1, <2>1, <2>2, <2>4 DEF LinkInv, AllLinked
<1>9. ASSUME \/ \E n \in Sizes, b \in {0, 180} : Seek(n, b)
             \/ \E o \in Offsets, b \in {0, 180} : SeekAbs(o, b)
             \/ DefaultAlign
             \/ \E n \in Sizes : Align(n)
             \/ \E bytes \in ByteLists : ByteDirective(bytes)
      PROVE  Quiet
  <2>1. phase = "source" /\ phase' \in {"source", "error"}
    BY <1>9 DEF Seek, SeekAbs, DefaultAlign, Align, ByteDirective, ReadLine, Fail
  <2>2. UNCHANGED <<label_targets, applied, buf>>
    BY <1>9 DEF Seek, SeekAbs, DefaultAlign, Align, ByteDirective, not_appending
  <2>3. ~ApplyTarget
    BY <2>1 DEF ApplyTarget
  <2>4. QED
    BY <1>1, <2>1, <2>2, <2>3 DEF Quiet
<1>10. ASSUME \/ \E l \in Labels : Label(l)
              \/ \E l \in Labels : AlignedLabel(l)
              \/ \E l \in Labels, n \in LocalCounts, v \in LocalValues :
                   Routine(l, n, v)
              \/ \E l \in Labels, n \in LocalCounts : Start(l, n)
       PROVE  Quiet
  <2>1. phase = "source" /\ phase' \in {"source", "error"}
    <3>1. ASSUME NEW l \in Labels, Label(l) \/ AlignedLabel(l)
          PROVE  phase = "source" /\ phase' \in {"source", "error"}
      BY <3>1 DEF Label, AlignedLabel, ReadLine, Fail
    <3>2. ASSUME NEW f, NEW l, NEW n, NEW v, RoutineAt(f, l, n, v)
          PROVE  phase' \in {phase, "error"}
      BY <3>2 DEF RoutineAt, Fail
    <3>3. ASSUME NEW l \in Labels, NEW n \in LocalCounts, NEW v \in LocalValues,
                 Routine(l, n, v)
          PROVE  phase = "source" /\ phase' \in {"source", "error"}
      <4>1. phase = "source" /\ RoutineAt(Aligned, l, n, v)
        BY <3>3 DEF Routine, ReadLine
      <4>2. phase' \in {phase, "error"}
        BY <4>1, <3>2
      <4>3. QED
        BY <4>1, <4>2
    <3>4. ASSUME NEW l \in Labels, NEW n \in LocalCounts, Start(l, n)
          PROVE  phase = "source" /\ phase' \in {"source", "error"}
      <4>1. phase = "source"
        BY <3>4 DEF Start, ReadLine
      <4>2. \/ phase' \in {phase, "error"}
            \/ \E f : RoutineAt(f, l, n, <<>>)
        BY <3>4 DEF Start, Fail
      <4>3. phase' \in {phase, "error"}
        BY <4>2, <3>2
      <4>4. QED
        BY <4>1, <4>3
    <3>5. QED
      BY <1>10, <3>1, <3>3, <3>4
  <2>2. UNCHANGED <<label_targets, applied, buf>>
    BY <1>10 DEF Label, AlignedLabel, Routine, Start
  <2>3. ~ApplyTarget
    BY <2>1 DEF ApplyTarget
  <2>4. QED
    BY <1>1, <2>1, <2>2, <2>3 DEF Quiet
<1>11. ASSUME \/ \E flags \in {0, 2} : Status(flags)
              \/ \E v \in GlobalValues : SetGlobal(v)
              \/ \E t \in Texts : String(t)
              \/ \E table \in Tables : UnicodeTable(table)
       PROVE  Quiet
  <2>1. phase = "source" /\ phase' \in {"source", "error"}
    BY <1>11 DEF Status, SetGlobal, String, UnicodeTable, ReadLine, Fail
  <2>2. UNCHANGED <<label_targets, applied, buf>>
    BY <1>11 DEF Status, SetGlobal, String, UnicodeTable
  <2>3. ~ApplyTarget
    BY <2>1 DEF ApplyTarget
  <2>4. QED
    BY <1>1, <2>1, <2>2, <2>3 DEF Quiet
<1>12. QED
  BY <1>1, <1>2, <1>3, <1>4, <1>5, <1>6, <1>7, <1>8, <1>9, <1>10, <1>11,
     QuietLinks DEF Next, Finished

LEMMA LinkInvariant == Spec => []LinkInv
<1>1. LinkInv /\ [Next]_vars => LinkInv'
  BY StepLinks
<1>2. QED
  BY InitLinks, <1>1, PTL DEF Spec

(* No two fields to be patched overlap, and none reaches beyond what has   *)
(* been written, whatever the order of directives and operands.            *)
THEOREM FieldsApartHolds == Spec => []FieldsApart
<1>1. LinkInv => FieldsApart
  BY DEF LinkInv
<1>2. QED
  BY <1>1, LinkInvariant, PTL

(* Every patched reference reads, in the file, as the address its label    *)
(* was defined at, for all labels, layouts and versions.                   *)
THEOREM ReferencesResolvedHolds == Spec => []ReferencesResolved
<1>1. LinkInv => ReferencesResolved
  BY DEF LinkInv
<1>2. QED
  BY <1>1, LinkInvariant, PTL
=============================================================================

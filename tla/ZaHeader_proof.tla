--------------------------- MODULE ZaHeader_proof ---------------------------
(***************************************************************************)
(* Theorems about what a file of ZaAssembler is worth: what its header says*)
(* of it (where the program begins, how long the file is and what its      *)
(* checksum adds up, where the Unicode table is), and that it is linked as *)
(* Linkage promises.                                                       *)
(***************************************************************************)
EXTENDS ZaAssembler_proof, ZaLinkage

----------------------------------------------------------------------------
(* Lemmas about what is written and read.                                  *)

(* A byte of the file is read where it was written.                        *)
LEMMA ByteStays ==
  ASSUME TypeOK, Extends(file, file'),
         NEW a \in Nat, Origin <= a, a < Position
  PROVE  ByteAt(a)' = ByteAt(a)
<1> DEFINE k == (a - Origin) + 1
<1>1. Len(file) \in Nat /\ Origin \in Nat /\ Position = Origin + Len(file)
  BY Lengths, OptionsAssumption DEF Position
<1>2. k \in 1..Len(file)
  BY <1>1
<1> HIDE DEF k
<1>3. file'[k] = file[k]
  BY <1>2 DEF Extends
<1>4. QED
  BY <1>3 DEF ByteAt, k

(* What lies behind a file of n cells is read n cells further on.          *)
LEMMA AppendedReads ==
  ASSUME NEW f \in Seq(Cell), NEW s \in Seq(Cell), NEW i \in 1..Len(s)
  PROVE  /\ (f \o s)[Len(f) + i] = s[i]
         /\ Len(f) + i \in 1..Len(f \o s)
<1>1. /\ Len(f) \in Nat /\ Len(s) \in Nat
      /\ Len(f \o s) = Len(f) + Len(s)
      /\ \A j \in 1..(Len(f) + Len(s)) :
           (f \o s)[j] = IF j <= Len(f) THEN f[j] ELSE s[j - Len(f)]
  BY ConcatProperties, LenProperties
<1>2. /\ Len(f) + i \in 1..(Len(f) + Len(s)) /\ ~(Len(f) + i <= Len(f))
      /\ (Len(f) + i) - Len(f) = i
  BY <1>1
<1>3. QED
  BY <1>1, <1>2

(* An aligned position is a multiple of the alignment.                     *)
LEMMA RoundUpMultiple ==
  ASSUME NEW v \in Nat
  PROVE  /\ RoundUp(v, Alignment) \in Nat
         /\ \E k \in Nat : RoundUp(v, Alignment) = Alignment * k
<1> DEFINE k == ((v - 1) \div Alignment) + 1
<1>1. Alignment \in {2, 4, 8}
  BY DEF Alignment
<1>2. k \in Nat
  <2>1. CASE Alignment = 2
    BY <2>1
  <2>2. CASE Alignment = 4
    BY <2>2
  <2>3. CASE Alignment = 8
    BY <2>3
  <2>4. QED
    BY <1>1, <2>1, <2>2, <2>3
<1>3. RoundUp(v, Alignment) = Alignment * k
  BY DEF RoundUp
<1> HIDE DEF k
<1>4. Alignment * k \in Nat
  BY <1>1, <1>2
<1>5. QED
  BY <1>2, <1>3, <1>4

(* The cells that pad a file to its alignment.                             *)
LEMMA PaddingType ==
  ASSUME NEW end \in Nat
  PROVE  LET pad == RoundUp(end, Alignment) - end
         IN /\ pad \in Nat
            /\ Fill(pad, 0) \in Seq(Cell) /\ Len(Fill(pad, 0)) = pad
            /\ \A i \in 1..pad : Fill(pad, 0)[i] = 0
<1> DEFINE pad == RoundUp(end, Alignment) - end
<1>1. pad \in Nat
  BY RoundUpAlignment
<1> HIDE DEF pad
<1>2. 0 \in Cell
  BY DEF Cell, Byte
<1>3. Fill(pad, 0) \in Seq(Cell) /\ Len(Fill(pad, 0)) = pad
  BY <1>1, <1>2, FillCells, FillLength
<1>4. \A i \in 1..pad : Fill(pad, 0)[i] = 0
  BY DEF Fill
<1>5. QED
  BY <1>1, <1>3, <1>4 DEF pad
----------------------------------------------------------------------------
(* The length and the checksum.                                            *)

(* The length of a padded file loses nothing to its division, but in V6    *)
(* and V7 the 4 bytes by which the padding may fall short of a unit.       *)
LEMMA LengthOfMultiple ==
  ASSUME NEW k \in Nat, NEW p, p = Alignment * k
  PROVE  /\ (p \div Divisor) * Divisor <= p
         /\ p - ((p \div Divisor) * Divisor) \in {0, 4}
         /\ ZVersion \notin {6, 7} => (p \div Divisor) * Divisor = p
<1>1. CASE Alignment = 2 /\ Divisor = 2
  <2>1. p = 2 * k
    BY <1>1
  <2>2. (p \div 2) * 2 = p
    BY <2>1
  <2>3. QED
    BY <1>1, <2>1, <2>2
<1>2. CASE Alignment = 4 /\ Divisor = 4
  <2>1. p = 4 * k
    BY <1>2
  <2>2. (p \div 4) * 4 = p
    BY <2>1
  <2>3. QED
    BY <1>2, <2>1, <2>2
<1>3. CASE Alignment = 4 /\ Divisor = 8 /\ ZVersion \in {6, 7}
  <2>1. p = 4 * k
    BY <1>3
  <2>2. (p \div 8) * 8 <= p /\ p - ((p \div 8) * 8) \in {0, 4}
    BY <2>1
  <2>3. QED
    BY <1>3, <2>1, <2>2
<1>4. CASE Alignment = 8 /\ Divisor = 8
  <2>1. p = 8 * k
    BY <1>4
  <2>2. (p \div 8) * 8 = p
    BY <2>1
  <2>3. QED
    BY <1>4, <2>1, <2>2
<1>5. QED
  BY <1>1, <1>2, <1>3, <1>4, OptionsAssumption DEF Alignment, Divisor

(* What end_file leaves behind when it ends well: the checksum is of the   *)
(* file before the padding, the length of the file with it.                *)
LEMMA FinishFileWrites ==
  ASSUME TypeOK, FinishFile, phase' = "done", ZVersion >= 3
  PROVE  /\ header'.length = Position' \div Divisor
         /\ \E k \in Nat : Position' = Alignment * k
         /\ Len(header'.checksum) <= Len(file')
         /\ \A i \in 1..Len(file') :
              IF i <= Len(header'.checksum) THEN file'[i] = header'.checksum[i]
                                            ELSE file'[i] = 0
<1> DEFINE table == IF custom_unicode_table = <<>> THEN unicode_table ELSE <<>>
           whole == file \o TableBytes(table)
           end == Origin + Len(whole)
           size == RoundUp(end, Alignment)
           pad == size - end
           padding == Fill(pad, 0)
           pointed == [header EXCEPT !.unicode = TablePointer(table)]
           length == size \div Divisor
<1>1. table \in Seq(Nat) /\ file \in Seq(Cell) /\ header \in Header
  BY EmptySeq DEF TypeOK, TablesType
<1>2. /\ ~TableFails(table)
      /\ file' = whole \o padding
      /\ header' = IF length > Max16 THEN pointed
                   ELSE [pointed EXCEPT !.length = length, !.checksum = whole]
      /\ length <= Max16
  <2>1. \/ TableFails(table) /\ phase' = "error"
        \/ /\ ~TableFails(table)
           /\ IF ZVersion < 3
                THEN file' = whole /\ header' = pointed
                ELSE /\ file' = whole \o padding
                     /\ header' = IF length > Max16 THEN pointed
                                  ELSE [pointed EXCEPT !.length = length,
                                                       !.checksum = whole]
           /\ phase' = IF started /\ (ZVersion >= 3 => length <= Max16)
                         THEN "done" ELSE "error"
    BY ZenonT(60) DEF FinishFile, Fail
  <2> HIDE DEF table, whole, padding, pointed, length
  <2>2. ~(ZVersion < 3)
    BY OptionsAssumption
  <2>3. QED
    BY <2>1, <2>2
<1> HIDE DEF table
<1>3. whole \in Seq(Cell)
  BY <1>1, <1>2, TableWriteType, AppendedExtends DEF Extends
<1>4. pointed \in Header
  BY <1>1, <1>2, TableWriteType DEF Header
<1> HIDE DEF pointed, whole
<1>5. end \in Nat /\ Len(whole) \in Nat
  BY <1>3, LenProperties, OptionsAssumption
<1> HIDE DEF end
<1>6. header'.length = length /\ header'.checksum = whole
  <2>1. length \in Int
    <3>1. size \in Int
      BY <1>5, RoundUpMultiple
    <3> HIDE DEF size
    <3>2. QED
      BY <3>1 DEF Divisor
  <2> HIDE DEF length
  <2>2. header' = [pointed EXCEPT !.length = length, !.checksum = whole]
    BY <1>2, <2>1 DEF Max16
  <2>3. QED
    BY <1>4, <2>2 DEF Header
<1>7. /\ pad \in Nat /\ padding \in Seq(Cell) /\ Len(padding) = pad
      /\ \A i \in 1..pad : padding[i] = 0
  BY <1>5, PaddingType
<1>8. size \in Nat /\ \E k \in Nat : size = Alignment * k
  BY <1>5, RoundUpMultiple
<1> HIDE DEF padding
<1>9. pad = size - end /\ end = Origin + Len(whole) /\ Origin \in Nat
  BY OptionsAssumption DEF end
<1> HIDE DEF pad, size
<1>10. /\ Len(file') = Len(whole) + pad
      /\ \A i \in 1..(Len(whole) + pad) :
           file'[i] = IF i <= Len(whole) THEN whole[i]
                                         ELSE padding[i - Len(whole)]
  BY <1>2, <1>3, <1>7, ConcatProperties
<1>11. Position' = size
  <2>1. Position' = Origin + Len(file')
    BY DEF Position
  <2>2. Len(file') = Len(whole) + pad
    BY <1>10
  <2>3. size \in Int
    BY <1>8
  <2>4. QED
    BY <1>5, <1>7, <1>9, <2>1, <2>2, <2>3
<1>12. ASSUME NEW i \in 1..(Len(whole) + pad), ~(i <= Len(whole))
       PROVE  file'[i] = 0
  <2>1. i - Len(whole) \in 1..pad
    BY <1>5, <1>7, <1>12
  <2>2. QED
    BY <1>7, <1>10, <1>12, <2>1
<1>13. QED
  <2>1. \A i \in 1..Len(file') :
          IF i <= Len(whole) THEN file'[i] = whole[i] ELSE file'[i] = 0
    BY <1>10, <1>12
  <2>2. Len(whole) <= Len(file')
    BY <1>5, <1>7, <1>10
  <2>3. QED
    BY <1>6, <1>8, <1>11, <2>1, <2>2

(* The checksum part of LengthAndChecksum, and what is true of the length  *)
(* in every version: V6 and V7 pad to 4 what they count in units of 8.     *)
LengthRounded ==
  phase = "done" /\ ZVersion >= 3 =>
    /\ header.length * Divisor <= Position
    /\ Position - (header.length * Divisor) \in {0, 4}
    /\ ZVersion \notin {6, 7} => header.length * Divisor = Position
    /\ Len(header.checksum) <= Len(file)
    /\ \A i \in 1..Len(file) :
         IF i <= Len(header.checksum) THEN file[i] = header.checksum[i]
                                      ELSE file[i] = 0

(* A file that is finished is finished by end_file, or was before.         *)
LEMMA DoneByFinishFile ==
  ASSUME [Next]_vars, phase' = "done"
  PROVE  FinishFile \/ UNCHANGED vars
<1>1. ASSUME ReadLine, phase' \in {phase, "operands", "error"}
      PROVE  FALSE
  BY <1>1 DEF ReadLine
<1>2. ASSUME NEW f, NEW l, NEW n, NEW v, RoutineAt(f, l, n, v)
      PROVE  phase' \in {phase, "error"}
  BY <1>2 DEF RoutineAt, Fail
<1>3. ASSUME NEW l \in Labels, NEW n \in LocalCounts, NEW v \in LocalValues,
             Routine(l, n, v)
      PROVE  FALSE
  <2>1. ReadLine /\ RoutineAt(Aligned, l, n, v)
    BY <1>3 DEF Routine
  <2>2. QED
    BY <1>1, <1>2, <2>1
<1>4. ASSUME NEW l \in Labels, NEW n \in LocalCounts, Start(l, n)
      PROVE  FALSE
  <2>1. ReadLine
    BY <1>4 DEF Start
  <2>2. \/ phase' \in {phase, "error"}
        \/ \E f : RoutineAt(f, l, n, <<>>)
    BY <1>4 DEF Start, Fail
  <2>3. QED
    BY <1>1, <1>2, <2>1, <2>2
<1>5. ASSUME \/ \E n \in Sizes, b \in {0, 180} : Seek(n, b)
             \/ \E o \in Offsets, b \in {0, 180} : SeekAbs(o, b)
             \/ DefaultAlign
             \/ \E n \in Sizes : Align(n)
             \/ \E bytes \in ByteLists : ByteDirective(bytes)
             \/ \E l \in Labels : Label(l)
             \/ \E l \in Labels : AlignedLabel(l)
      PROVE  FALSE
  BY <1>1, <1>5 DEF Seek, SeekAbs, DefaultAlign, Align, ByteDirective, Label,
                    AlignedLabel, Fail
<1>6. ASSUME \/ \E flags \in {0, 2} : Status(flags)
             \/ \E v \in GlobalValues : SetGlobal(v)
             \/ \E t \in Texts : String(t)
             \/ \E table \in Tables : UnicodeTable(table)
             \/ \E i \in Instructions : HandleOpcode(i)
      PROVE  FALSE
  BY <1>1, <1>6 DEF Status, SetGlobal, String, UnicodeTable, HandleOpcode, Fail
<1>7. ASSUME WriteOperand \/ EndOpcode \/ EndOfSource \/ ApplyTarget
      PROVE  FALSE
  BY <1>7 DEF WriteOperand, EndOpcode, EndOfSource, ApplyTarget, Fail
<1>8. QED
  BY <1>3, <1>4, <1>5, <1>6, <1>7 DEF Next, Finished

(* Whatever holds of the file when end_file ends goes on to hold, since    *)
(* nothing is done after it.                                               *)
LEMMA LengthStays ==
  ASSUME TypeOK, LengthRounded, [Next]_vars
  PROVE  LengthRounded'
<1> SUFFICES ASSUME phase' = "done", ZVersion >= 3
             PROVE  LengthRounded'
  BY DEF LengthRounded
<1>1. CASE UNCHANGED vars
  BY <1>1 DEF vars, LengthRounded, Position
<1>2. CASE FinishFile
  <2>1. /\ header'.length = Position' \div Divisor
        /\ Len(header'.checksum) <= Len(file')
        /\ \A i \in 1..Len(file') :
             IF i <= Len(header'.checksum) THEN file'[i] = header'.checksum[i]
                                           ELSE file'[i] = 0
    BY <1>2, FinishFileWrites
  <2>2. PICK k \in Nat : Position' = Alignment * k
    BY <1>2, FinishFileWrites
  <2>3. /\ header'.length * Divisor <= Position'
        /\ Position' - (header'.length * Divisor) \in {0, 4}
        /\ ZVersion \notin {6, 7} => header'.length * Divisor = Position'
    BY <2>1, <2>2, LengthOfMultiple
  <2>4. QED
    BY <2>1, <2>3 DEF LengthRounded
<1>3. QED
  BY <1>1, <1>2, DoneByFinishFile

LEMMA LengthRoundedHolds == Spec => []LengthRounded
<1>1. Init => LengthRounded
  BY DEF Init, LengthRounded
<1>2. TypeOK /\ LengthRounded /\ [Next]_vars => LengthRounded'
  BY LengthStays
<1>3. QED
  BY <1>1, <1>2, TypeCorrect, PTL DEF Spec

(* In every version but V6 and V7 the header of a finished file gives its  *)
(* length, and its checksum is that of all the bytes from Origin on.  (In  *)
(* V6 and V7 end_file divides by 8 what it pads to 4, and LengthRounded is *)
(* what remains true.)                                                     *)
THEOREM LengthAndChecksumHolds ==
  ASSUME ZVersion \notin {6, 7}
  PROVE  Spec => []LengthAndChecksum
<1>1. LengthRounded => LengthAndChecksum
  BY DEF LengthRounded, LengthAndChecksum
<1>2. QED
  BY <1>1, LengthRoundedHolds, PTL
----------------------------------------------------------------------------
(* The Unicode table.                                                      *)

LEMMA WordsRead ==
  ASSUME NEW w \in Seq(Word), NEW i \in 1..Len(w)
  PROVE  /\ Len(Words(w)) = 2 * Len(w)
         /\ 2 * i - 1 \in 1..(2 * Len(w)) /\ 2 * i \in 1..(2 * Len(w))
         /\ Words(w)[2 * i - 1] = w[i] \div 256
         /\ Words(w)[2 * i] = w[i] % 256
<1>1. Len(w) \in Nat /\ i \in Int
  BY LenProperties
<1>2. 2 * Len(w) \in Nat /\ Words(w) \in Seq(Byte)
  BY <1>1, WordsType
<1>3. DOMAIN Words(w) = 1..(2 * Len(w)) /\ DOMAIN Words(w) = 1..Len(Words(w))
  BY <1>2, LenProperties DEF Words
<1>4. Len(Words(w)) = 2 * Len(w)
  BY <1>1, <1>2, <1>3, LenProperties
<1>5. /\ 2 * i - 1 \in 1..(2 * Len(w)) /\ 2 * i \in 1..(2 * Len(w))
      /\ (2 * i - 1) % 2 = 1 /\ (2 * i) % 2 # 1
      /\ ((2 * i - 1) + 1) \div 2 = i /\ (2 * i) \div 2 = i
  BY <1>1
<1>6. Words(w)[2 * i - 1] = w[i] \div 256
  BY <1>5 DEF Words
<1>7. Words(w)[2 * i] = w[i] % 256
  BY <1>5 DEF Words
<1>8. QED
  BY <1>4, <1>5, <1>6, <1>7

(* With the option, every table goes to the space the header names.        *)
PointerInv == Preallocate => header.unicode = PreallocatedAt

LEMMA PointerStays ==
  ASSUME TypeOK, Preallocate, [Next]_vars
  PROVE  header'.unicode = header.unicode
<1>1. header \in Header
  BY DEF TypeOK
<1>2. ASSUME NEW l \in Labels, NEW n \in LocalCounts, Start(l, n)
      PROVE  header'.unicode = header.unicode
  <2> DEFINE tables == [header EXCEPT !.static = Position, !.dict = Position]
  <2>1. \/ header' = header
        \/ header' = tables
        \/ \E pc : header' = [tables EXCEPT !.pc = pc]
    BY <1>2 DEF Start, Fail
  <2>2. QED
    BY <1>1, <2>1 DEF Header
<1>3. ASSUME NEW flags \in {0, 2}, Status(flags)
      PROVE  header'.unicode = header.unicode
  BY <1>1, <1>3 DEF Status, Header
<1>4. ASSUME NEW v \in GlobalValues, SetGlobal(v)
      PROVE  header'.unicode = header.unicode
  BY <1>1, <1>4 DEF SetGlobal, Header
<1>5. ASSUME NEW table \in Tables, UnicodeTable(table)
      PROVE  header'.unicode = header.unicode
  <2>1. \/ header' = header
        \/ header' = [header EXCEPT !.unicode = TablePointer(table)]
    BY <1>5 DEF UnicodeTable
  <2>2. QED
    BY <1>1, <2>1 DEF Header, TablePointer
<1>6. CASE FinishFile
  <2> DEFINE table == IF custom_unicode_table = <<>> THEN unicode_table
                                                    ELSE <<>>
             pointed == [header EXCEPT !.unicode = TablePointer(table)]
  <2>1. \/ header' = header
        \/ header' = pointed
        \/ \E n, f : header' = [pointed EXCEPT !.length = n, !.checksum = f]
    BY <1>6 DEF FinishFile
  <2>2. pointed.unicode = header.unicode /\ DOMAIN pointed = DOMAIN header
    BY <1>1 DEF Header, TablePointer
  <2>3. pointed = header
    BY <1>1 DEF Header, TablePointer
  <2> HIDE DEF pointed
  <2>4. QED
    BY <1>1, <2>1, <2>3 DEF Header
<1>7. CASE UNCHANGED header
  BY <1>7
<1>8. ASSUME \/ \E n \in Sizes, b \in {0, 180} : Seek(n, b)
             \/ \E o \in Offsets, b \in {0, 180} : SeekAbs(o, b)
             \/ DefaultAlign
             \/ \E n \in Sizes : Align(n)
             \/ \E bytes \in ByteLists : ByteDirective(bytes)
      PROVE  UNCHANGED header
  BY <1>8 DEF Seek, SeekAbs, DefaultAlign, Align, ByteDirective, not_appending
<1>9. ASSUME \/ \E l \in Labels : Label(l)
             \/ \E l \in Labels : AlignedLabel(l)
             \/ \E l \in Labels, n \in LocalCounts, v \in LocalValues :
                  Routine(l, n, v)
             \/ \E t \in Texts : String(t)
             \/ \E i \in Instructions : HandleOpcode(i)
             \/ WriteOperand \/ EndOpcode \/ EndOfSource \/ ApplyTarget
      PROVE  UNCHANGED header
  BY <1>9 DEF Label, AlignedLabel, Routine, String, HandleOpcode, WriteOperand,
              EndOpcode, EndOfSource, ApplyTarget
<1>10. CASE UNCHANGED vars
  BY <1>10 DEF vars
<1>11. QED
  BY <1>2, <1>3, <1>4, <1>5, <1>6, <1>8, <1>9, <1>10 DEF Next, Finished

(* The bytes of a table that is written are there to be read.              *)
LEMMA TableReads ==
  ASSUME TypeOK, NEW table \in Seq(Nat), ~TableFails(table),
         WritesTable(table), ~Preallocate,
         Extends(file \o TableBytes(table), file')
  PROVE  /\ file'[(Position - Origin) + 1] = Len(table)
         /\ \A i \in 1..Len(table) :
              LET a == Position + 2 * i - 1
              IN file'[(a - Origin) + 1] * 256 + file'[((a + 1) - Origin) + 1]
                   = table[i]
<1> DEFINE bytes == TableBytes(table)
           n == Len(table)
<1>1. /\ bytes \in Seq(Cell) /\ file \in Seq(Cell)
      /\ n \in Nat /\ Len(file) \in Nat /\ Origin \in Nat
  BY TableWriteType, Lengths, LenProperties, OptionsAssumption DEF TypeOK
<1>2. bytes = <<n>> \o Words(table)
  BY DEF TableBytes
<1>3. table \in Seq(Word)
  <2>1. ASSUME NEW i \in 1..n
        PROVE  table[i] \in Word
    <3>1. table[i] \in Nat /\ ~(table[i] > Max16)
      BY LenProperties DEF TableFails
    <3>2. QED
      BY <3>1 DEF Word, Max16
  <2>2. table \in [1..n -> Word]
    BY <2>1, LenProperties
  <2>3. QED
    BY <1>1, <2>2, SeqDef
<1>4. n # 0 /\ n > 0
  BY <1>1 DEF WritesTable
<1>5. Words(table) \in Seq(Byte) /\ Len(Words(table)) = 2 * n
  BY <1>1, <1>3, <1>4, WordsType, WordsRead
<1>6. /\ Len(bytes) = 1 + 2 * n
      /\ bytes[1] = n
      /\ \A j \in 1..(2 * n) : bytes[1 + j] = Words(table)[j]
  <2>1. n \in Byte
    <3>1. ~(n > MaxUnicode) /\ MaxUnicode \in Nat /\ MaxUnicode <= 255
      BY OptionsAssumption DEF TableFails, Byte
    <3>2. QED
      BY <1>1, <3>1, SmallByte
  <2>2. <<n>> \in Seq(Byte) /\ Len(<<n>>) = 1 /\ <<n>>[1] = n
    BY <2>1, Singleton
  <2> HIDE DEF n
  <2>3. /\ Len(bytes) = 1 + 2 * n
        /\ \A j \in 1..(1 + 2 * n) :
             bytes[j] = IF j <= 1 THEN <<n>>[j] ELSE Words(table)[j - 1]
    BY <1>2, <1>5, <2>2, ConcatProperties
  <2>4. ASSUME NEW j \in 1..(2 * n)
        PROVE  bytes[1 + j] = Words(table)[j]
    <3>1. 1 + j \in 1..(1 + 2 * n) /\ ~(1 + j <= 1) /\ (1 + j) - 1 = j
      BY <1>1
    <3>2. QED
      BY <2>3, <3>1
  <2>5. QED
    BY <1>1, <2>2, <2>3, <2>4
<1> HIDE DEF bytes, n
<1>7. ASSUME NEW j \in 1..(1 + 2 * n)
      PROVE  file'[((Position + (j - 1)) - Origin) + 1] = bytes[j]
  <2>1. /\ (file \o bytes)[Len(file) + j] = bytes[j]
        /\ Len(file) + j \in 1..Len(file \o bytes)
    BY <1>1, <1>6, <1>7, AppendedReads
  <2>2. file'[Len(file) + j] = bytes[j]
    BY <2>1 DEF Extends, bytes
  <2>3. ((Position + (j - 1)) - Origin) + 1 = Len(file) + j
    BY <1>1 DEF Position
  <2>4. QED
    BY <2>2, <2>3
<1>8. Position \in Nat
  BY PositionType
<1>9. file'[(Position - Origin) + 1] = n
  <2>1. 1 \in 1..(1 + 2 * n) /\ Position + (1 - 1) = Position
    BY <1>1, <1>8
  <2>2. QED
    BY <1>6, <1>7, <2>1
<1>10. ASSUME NEW i \in 1..n
       PROVE  LET a == Position + 2 * i - 1
              IN file'[(a - Origin) + 1] * 256 + file'[((a + 1) - Origin) + 1]
                   = table[i]
  <2> DEFINE a == Position + 2 * i - 1
  <2>1. /\ 2 * i - 1 \in 1..(2 * n) /\ 2 * i \in 1..(2 * n)
        /\ Words(table)[2 * i - 1] = table[i] \div 256
        /\ Words(table)[2 * i] = table[i] % 256
    BY <1>3, WordsRead DEF n
  <2>2. /\ bytes[1 + (2 * i - 1)] = table[i] \div 256
        /\ bytes[1 + 2 * i] = table[i] % 256
    BY <1>6, <2>1
  <2>3. /\ 1 + (2 * i - 1) \in 1..(1 + 2 * n) /\ 1 + 2 * i \in 1..(1 + 2 * n)
        /\ Position + ((1 + (2 * i - 1)) - 1) = a
        /\ Position + ((1 + 2 * i) - 1) = a + 1
    BY <1>1, <1>8
  <2> HIDE DEF a
  <2>4. /\ file'[(a - Origin) + 1] = table[i] \div 256
        /\ file'[((a + 1) - Origin) + 1] = table[i] % 256
    BY <1>7, <2>2, <2>3
  <2>5. table[i] \in Word
    BY <1>3, ElementOfSeq DEF n
  <2>6. QED
    BY <2>4, <2>5, WordReads DEF a
<1>11. QED
  BY <1>9, <1>10 DEF n
LEMMA TableFoundStays ==
  ASSUME TypeOK, PointerInv, UnicodeTableFound, [Next]_vars
  PROVE  UnicodeTableFound'
<1> SUFFICES ASSUME phase' = "done", ZVersion >= 5,
                    custom_unicode_table' = <<>>, unicode_table' # <<>>
             PROVE  UnicodeTableFound'
  BY DEF UnicodeTableFound
<1>1. CASE UNCHANGED vars
  BY <1>1 DEF vars, text_vars, UnicodeTableFound, ByteAt, WordAt
<1>2. CASE FinishFile
  <2> DEFINE table == unicode_table
             whole == file \o TableBytes(table)
             end == Origin + Len(whole)
             pad == RoundUp(end, Alignment) - end
             padding == Fill(pad, 0)
             pointed == [header EXCEPT !.unicode = TablePointer(table)]
             length == RoundUp(end, Alignment) \div Divisor
  <2>1. /\ custom_unicode_table = <<>> /\ unicode_table # <<>>
        /\ unicode_table' = unicode_table
    BY <1>2 DEF FinishFile
  <2>2. /\ ~TableFails(table)
        /\ preallocated' = PreallocatedAfter(table)
        /\ \/ file' = whole /\ header' = pointed
           \/ /\ file' = whole \o padding
              /\ header' = IF length > Max16 THEN pointed
                           ELSE [pointed EXCEPT !.length = length,
                                                !.checksum = whole]
    <3>1. TableFails(table) => phase' = "error"
      BY <1>2, <2>1 DEF FinishFile, Fail
    <3>2. ~TableFails(table)
      BY <3>1
    <3>3. QED
      BY <1>2, <2>1, <3>2 DEF FinishFile
  <2>3. table \in Seq(Nat) /\ file \in Seq(Cell) /\ header \in Header
    BY DEF TypeOK, TablesType
  <2>4. Len(table) > 0
    BY <2>1, <2>3, EmptySeq, LenProperties
  <2>5. WritesTable(table)
    BY <2>4 DEF WritesTable
  <2> HIDE DEF table
  <2>6. pointed \in Header /\ pointed.unicode = TablePointer(table)
    BY <2>2, <2>3, TableWriteType DEF Header
  <2>7. whole \in Seq(Cell)
    BY <2>2, <2>3, TableWriteType, AppendedExtends DEF Extends
  <2>8. padding \in Seq(Cell)
    <3>1. end \in Nat
      BY <2>7, LenProperties, OptionsAssumption
    <3> HIDE DEF end
    <3>2. QED
      BY <3>1, PaddingType
  <2> HIDE DEF whole, padding, pointed, length
  <2>9. header'.unicode = TablePointer(table)
    BY <2>2, <2>6 DEF Header
  <2>10. Extends(whole, file')
    BY <2>2, <2>7, <2>8, ExtendsReflexive, AppendedExtends
  <2>11. CASE Preallocate
    BY <2>1, <2>2, <2>5, <2>9, <2>11
       DEF UnicodeTableFound, TablePointer, PointerInv, PreallocatedAfter,
           table
  <2>12. CASE ~Preallocate
    <3>1. header'.unicode = Position
      BY <2>5, <2>9, <2>12 DEF TablePointer
    <3>2. /\ file'[(Position - Origin) + 1] = Len(table)
          /\ \A i \in 1..Len(table) :
               LET a == Position + 2 * i - 1
               IN file'[(a - Origin) + 1] * 256 + file'[((a + 1) - Origin) + 1]
                    = table[i]
      BY <2>2, <2>3, <2>5, <2>10, <2>12, TableReads DEF whole
    <3>3. QED
      BY <2>1, <2>12, <3>1, <3>2 DEF UnicodeTableFound, ByteAt, WordAt, table
  <2>13. QED
    BY <2>11, <2>12
<1>3. QED
  BY <1>1, <1>2, DoneByFinishFile

(* The characters of its own that a finished story uses are in the table   *)
(* its header names, in the order the strings refer to them by, wherever   *)
(* the file ended and whatever reference was patched.                      *)
THEOREM UnicodeTableFoundHolds == Spec => []UnicodeTableFound
<1>1. Init => PointerInv /\ UnicodeTableFound
  BY DEF Init, EmptyHeader, PointerInv, UnicodeTableFound
<1>2. TypeOK /\ PointerInv /\ [Next]_vars => PointerInv'
  BY PointerStays DEF PointerInv
<1>3. TypeOK /\ PointerInv /\ UnicodeTableFound /\ [Next]_vars
        => UnicodeTableFound'
  BY TableFoundStays
<1>4. QED
  BY <1>1, <1>2, <1>3, TypeCorrect, PTL DEF Spec
----------------------------------------------------------------------------
(* The entry point.  EntryPoint is not inductive: the bytes it speaks of   *)
(* are in the file while apply_label_targets patches it.  No field         *)
(* overlaps them, since those recorded before the start directive lie      *)
(* before the dictionary and those recorded later behind the entry point.  *)

(* Where what follows the start directive is written.                      *)
CodeStart ==
  IF ZVersion = 6 THEN header.pc * Alignment + 1 ELSE header.dict + 4

EntryClear ==
  started /\ phase # "error" =>
    /\ Origin <= header.dict
    /\ header.dict + 4 <= CodeStart
    /\ CodeStart <= Position
    /\ \A i \in 1..Len(label_targets) :
         \/ label_targets[i].from + Width(label_targets[i]) <= header.dict
         \/ CodeStart <= label_targets[i].from

EntryInv == LinkInv /\ EntryPoint /\ EntryClear

LEMMA HeaderWords ==
  ASSUME TypeOK
  PROVE  /\ header.dict \in Nat /\ header.pc \in Nat /\ header.static \in Nat
         /\ CodeStart \in Nat
<1>1. header.dict \in Nat /\ header.pc \in Nat /\ header.static \in Nat
  BY DEF TypeOK, Header, Word
<1>2. Alignment \in {2, 4, 8}
  BY DEF Alignment
<1>3. CodeStart \in Nat
  BY <1>1, <1>2 DEF CodeStart
<1>4. QED
  BY <1>1, <1>3

(* The bytes of the dictionary and, in V6, the local count.                *)
EntryCells ==
  header.dict..(header.dict + 3)
    \cup (IF ZVersion = 6 THEN {header.pc * Alignment} ELSE {})

(* What keeps the header words, the labels and the entry's cells, and adds *)
(* references behind the file only, keeps the entry point.                 *)
LEMMA EntryStays ==
  ASSUME EntryInv, LinkInv',
         phase' # "error" => phase # "error",
         started' = started,
         header'.static = header.static, header'.dict = header.dict,
         header'.pc = header.pc,
         phase' # "error" =>
           \A l \in DOMAIN labels : /\ l \in DOMAIN labels'
                                   /\ labels'[l] = labels[l],
         Position <= Position',
         started /\ phase' # "error" =>
           \A a \in EntryCells : file'[(a - Origin) + 1] = ByteAt(a),
         \A i \in 1..Len(label_targets') :
           \/ /\ i \in 1..Len(label_targets)
              /\ label_targets'[i] = label_targets[i]
           \/ Position <= label_targets'[i].from
  PROVE  EntryInv'
<1> SUFFICES ASSUME started, phase' # "error", phase # "error"
             PROVE  EntryPoint' /\ EntryClear'
  BY DEF EntryInv, EntryPoint, EntryClear
<1>1. /\ TypeOK /\ TypeOK'
      /\ Position \in Nat /\ Position' \in Nat
      /\ header.dict \in Nat /\ header.pc \in Nat /\ CodeStart \in Nat
  <2>1. TypeOK /\ TypeOK'
    BY DEF EntryInv, LinkInv
  <2>2. Position' \in Nat
    BY <2>1, LenProperties, OptionsAssumption DEF TypeOK, Position
  <2>3. QED
    BY <2>1, <2>2, PositionType, HeaderWords
<1>2. CodeStart' = CodeStart
  BY DEF CodeStart
<1>3. /\ Origin <= header.dict /\ header.dict + 4 <= CodeStart
      /\ CodeStart <= Position
      /\ \A i \in 1..Len(label_targets) :
           \/ label_targets[i].from + Width(label_targets[i]) <= header.dict
           \/ CodeStart <= label_targets[i].from
  BY DEF EntryInv, EntryClear
<1>4. EntryClear'
  <2>1. ASSUME NEW i \in 1..Len(label_targets')
        PROVE  \/ label_targets'[i].from + Width(label_targets'[i])
                    <= header.dict
               \/ CodeStart <= label_targets'[i].from
    <3>1. CASE /\ i \in 1..Len(label_targets)
               /\ label_targets'[i] = label_targets[i]
      BY <1>3, <3>1
    <3>2. CASE Position <= label_targets'[i].from
      <4>1. label_targets' \in Seq(Target)
        BY <1>1 DEF TypeOK, TargetsType
      <4>2. label_targets'[i] \in Target
        BY <4>1, ElementOfSeq
      <4>3. label_targets'[i].from \in Nat
        BY <4>2 DEF Target
      <4>4. QED
        BY <1>1, <1>3, <3>2, <4>3
    <3>3. QED
      BY <3>1, <3>2
  <2>2. CodeStart <= Position'
    BY <1>1, <1>3
  <2>3. QED
    BY <1>2, <1>3, <2>1, <2>2 DEF EntryClear, Width
<1>5. EntryPoint'
  <2>1. /\ header.static = header.dict
        /\ \A i \in 1..4 : ByteAt(header.dict + (i - 1)) = Dictionary[i]
        /\ ZVersion # 6 => header.pc = header.dict + 4
        /\ ZVersion = 6 =>
             \E l \in DOMAIN labels :
               /\ labels[l] = header.pc * Alignment
               /\ labels[l] >= header.dict + 4
               /\ labels[l] < header.dict + 4 + Alignment
               /\ ByteAt(labels[l]) <= 15
    BY DEF EntryInv, EntryPoint
  <2>2. ASSUME NEW i \in 1..4
        PROVE  file'[((header'.dict + (i - 1)) - Origin) + 1]
                     = Dictionary[i]
    <3>1. header.dict + (i - 1) \in EntryCells
      BY <1>1 DEF EntryCells
    <3>2. header'.dict + (i - 1) = header.dict + (i - 1)
      OBVIOUS
    <3>3. QED
      BY <2>1, <3>1, <3>2
  <2>3. ASSUME ZVersion = 6
        PROVE  \E l \in DOMAIN labels' :
                 /\ labels'[l] = header.pc * Alignment
                 /\ labels'[l] >= header.dict + 4
                 /\ labels'[l] < header.dict + 4 + Alignment
                 /\ file'[(labels'[l] - Origin) + 1] <= 15
    <3>1. PICK l \in DOMAIN labels :
            /\ labels[l] = header.pc * Alignment
            /\ labels[l] >= header.dict + 4
            /\ labels[l] < header.dict + 4 + Alignment
            /\ ByteAt(labels[l]) <= 15
      BY <2>1, <2>3
    <3>2. labels[l] \in EntryCells
      BY <2>3, <3>1 DEF EntryCells
    <3>3. QED
      BY <3>1, <3>2
  <2>4. \A i \in 1..4 : ByteAt(header.dict + (i - 1))' = Dictionary[i]
    BY <2>2 DEF ByteAt
  <2>5. QED
    BY <2>1, <2>3, <2>4 DEF EntryPoint, ByteAt
<1>6. QED
  BY <1>4, <1>5

(* The cells of the entry lie between the origin and the code.             *)
LEMMA EntryCellsLie ==
  ASSUME EntryInv, started, phase # "error", NEW a \in EntryCells
  PROVE  /\ a \in Nat /\ Origin <= a /\ a < Position
         /\ header.dict <= a /\ a < CodeStart
<1>1. /\ header.dict \in Nat /\ header.pc \in Nat /\ CodeStart \in Nat
      /\ Position \in Nat /\ Origin \in Nat
  BY HeaderWords, PositionType, OptionsAssumption DEF EntryInv, LinkInv
<1>2. /\ Origin <= header.dict /\ header.dict + 4 <= CodeStart
      /\ CodeStart <= Position
  BY DEF EntryInv, EntryClear
<1>3. CASE a \in header.dict..(header.dict + 3)
  BY <1>1, <1>2, <1>3
<1>4. CASE ZVersion = 6 /\ a = header.pc * Alignment
  <2>1. CodeStart = a + 1
    BY <1>4 DEF CodeStart
  <2>2. Alignment = 4
    BY <1>4 DEF Alignment
  <2>3. a \in Nat
    BY <1>1, <1>4, <2>2
  <2> HIDE <1>4
  <2>4. QED
    BY <1>1, <1>2, <2>1, <2>3
<1>5. QED
  BY <1>3, <1>4 DEF EntryCells

(* A step that appends, before or after the start directive.               *)
LEMMA EntryAppends ==
  ASSUME EntryInv, LinkInv', Extends(file, file'),
         phase' # "error" => phase # "error",
         started' = started,
         header'.static = header.static, header'.dict = header.dict,
         header'.pc = header.pc,
         phase' # "error" =>
           \A l \in DOMAIN labels : /\ l \in DOMAIN labels'
                                   /\ labels'[l] = labels[l],
         \A i \in 1..Len(label_targets') :
           \/ /\ i \in 1..Len(label_targets)
              /\ label_targets'[i] = label_targets[i]
           \/ Position <= label_targets'[i].from
  PROVE  EntryInv'
<1>1. TypeOK
  BY DEF EntryInv, LinkInv
<1>2. Position <= Position'
  BY <1>1, ExtendsPosition
<1>3. ASSUME started, phase' # "error", NEW a \in EntryCells
      PROVE  file'[(a - Origin) + 1] = ByteAt(a)
  <2>1. a \in Nat /\ Origin <= a /\ a < Position
    BY <1>3, EntryCellsLie
  <2>2. ByteAt(a)' = ByteAt(a)
    BY <1>1, <2>1, ByteStays
  <2>3. QED
    BY <2>2 DEF ByteAt
<1>4. QED
  BY <1>2, <1>3, EntryStays

(* apply_label_targets leaves the cells of the entry alone.                *)
LEMMA ApplyTargetEntry ==
  ASSUME EntryInv, LinkInv', ApplyTarget
  PROVE  EntryInv'
<1>1. /\ TypeOK /\ phase = "link"
      /\ UNCHANGED <<header, started, labels, label_targets>>
  BY DEF EntryInv, LinkInv, ApplyTarget
<1>2. CASE phase' = "error"
  BY <1>2 DEF EntryInv, EntryPoint, EntryClear
<1>3. CASE phase' # "error"
  <2> DEFINE t == label_targets[applied + 1]
             field == Field(t, labels[t.label])
  <2>1. /\ t \in Target /\ applied + 1 \in 1..Len(label_targets)
        /\ labels[t.label] \in Nat /\ ValueFits(t, labels[t.label])
        /\ file' = Patch(file, t, field)
    BY <1>1, <1>3, ApplyTargetPatches
  <2>2. t.from \in Nat /\ Width(t) \in {1, 2} /\ file \in Seq(Cell)
    BY <1>1, <2>1 DEF TypeOK, Target, Width
  <2>3. started => \/ t.from + Width(t) <= header.dict
                   \/ CodeStart <= t.from
    BY <1>1, <2>1 DEF EntryInv, EntryClear
  <2> HIDE DEF t, field
  <2>4. /\ Len(file') = Len(file)
        /\ \A i \in 1..Len(file) :
             \/ file'[i] = file[i]
             \/ (Origin + i) - 1 \in t.from..(t.from + Width(t)) - 1
    BY <2>1, <2>2, FieldType, PatchType DEF field
  <2>5. Position' = Position /\ Position \in Nat
    BY <1>1, <2>4, PositionType DEF Position
  <2>6. ASSUME started, NEW a \in EntryCells
        PROVE  file'[(a - Origin) + 1] = ByteAt(a)
    <3>1. /\ a \in Nat /\ Origin <= a /\ a < Position
          /\ header.dict <= a /\ a < CodeStart
      BY <1>1, <2>6, EntryCellsLie
    <3>2. /\ header.dict \in Nat /\ CodeStart \in Nat
          /\ Origin \in Nat /\ Len(file) \in Nat
          /\ Position = Origin + Len(file)
      BY <1>1, HeaderWords, Lengths, OptionsAssumption DEF Position
    <3>3. PICK i \in Nat : i = (a - Origin) + 1
      BY <3>1, <3>2
    <3>4. i \in 1..Len(file) /\ (Origin + i) - 1 = a
      BY <3>1, <3>2, <3>3
    <3>5. a \notin t.from..(t.from + Width(t)) - 1
      <4>1. CASE t.from + Width(t) <= header.dict
        BY <2>2, <3>1, <3>2, <4>1
      <4>2. CASE CodeStart <= t.from
        BY <2>2, <3>1, <3>2, <4>2
      <4>3. QED
        BY <2>3, <2>6, <4>1, <4>2
    <3>6. file'[i] = file[i]
      BY <2>4, <3>4, <3>5
    <3>7. QED
      BY <3>3, <3>6 DEF ByteAt
  <2>7. QED
    BY <1>1, <1>3, <2>5, <2>6, EntryStays
<1>4. QED
  BY <1>2, <1>3
(* The start directive writes the dictionary behind every field recorded   *)
(* so far and leaves the entry point at the end of the file.               *)
LEMMA StartEntry ==
  ASSUME EntryInv, LinkInv',
         NEW l \in Labels, NEW n \in LocalCounts, Start(l, n)
  PROVE  EntryInv'
<1> DEFINE withDict == file \o Dictionary
           pc == Origin + Len(withDict)
           pad == RoundUp(pc, Alignment) - pc
           main == withDict \o Fill(pad, 0)
           packed == (Origin + Len(main)) \div Alignment
           tables == [header EXCEPT !.static = Position, !.dict = Position]
<1>1. /\ TypeOK /\ phase = "source" /\ buf = <<>>
      /\ UNCHANGED label_targets
  BY DEF Start, ReadLine, EntryInv, LinkInv
<1>2. CASE phase' = "error"
  BY <1>2 DEF EntryInv, EntryPoint, EntryClear
<1>3. CASE phase' # "error"
  <2>1. /\ file \in Seq(Cell) /\ header \in Header
        /\ Dictionary \in Seq(Cell) /\ Len(Dictionary) = 4
    <3>1. Dictionary \in Seq(Byte) /\ Len(Dictionary) = 4
      BY DEF Dictionary, Byte
    <3>2. QED
      BY <1>1, <3>1, CellsOfBytes DEF TypeOK
  <2>2. /\ Len(file) \in Nat /\ Origin \in Nat
        /\ Position = Origin + Len(file) /\ Position \in Nat
    BY <1>1, Lengths, PositionType, OptionsAssumption DEF Position
  <2>3. withDict \in Seq(Cell) /\ Len(withDict) = Len(file) + 4
    <3>1. /\ Extends(file, withDict)
          /\ Len(withDict) = Len(file) + Len(Dictionary)
      BY <2>1, AppendedExtends
    <3>2. QED
      BY <2>1, <3>1 DEF Extends
  <2>4. pc = Position + 4 /\ pc \in Nat
    BY <2>2, <2>3
  <2>5. ASSUME NEW i \in 1..4
        PROVE  withDict[((Position + (i - 1)) - Origin) + 1] = Dictionary[i]
               /\ ((Position + (i - 1)) - Origin) + 1 \in 1..Len(withDict)
    <3>1. /\ withDict[Len(file) + i] = Dictionary[i]
          /\ Len(file) + i \in 1..Len(withDict)
      BY <2>1, AppendedReads
    <3>2. ((Position + (i - 1)) - Origin) + 1 = Len(file) + i
      BY <2>2
    <3>3. QED
      BY <3>1, <3>2
  <2>6. \A i \in 1..Len(label_targets) :
          label_targets[i].from + Width(label_targets[i]) <= Position
    <3>1. Position + Len(buf) = Position
      BY <1>1, <2>2, EmptySeq
    <3>2. QED
      BY <1>1, <3>1 DEF EntryInv, LinkInv, FieldsApart
  <2> HIDE DEF withDict, pc
  <2>7. CASE ZVersion # 6
    <3>1. /\ file' = withDict /\ header' = [tables EXCEPT !.pc = pc]
      BY <1>3, <2>7 DEF Start, Fail, withDict, pc
    <3>2. header'.static = Position /\ header'.dict = Position
          /\ header'.pc = Position + 4
      BY <2>1, <2>4, <3>1 DEF Header
    <3>3. Position' = Position + 4
      BY <2>2, <2>3, <3>1 DEF Position
    <3>4. CodeStart' = Position + 4
      BY <2>7, <3>2 DEF CodeStart
    <3>5. \A i \in 1..4 : ByteAt(header.dict + (i - 1))' = Dictionary[i]
      <4>1. ASSUME NEW i \in 1..4
            PROVE  file'[((header'.dict + (i - 1)) - Origin) + 1]
                     = Dictionary[i]
        BY <2>5, <3>1, <3>2
      <4>2. QED
        BY <4>1 DEF ByteAt
    <3>6. EntryPoint'
      BY <2>7, <3>2, <3>5 DEF EntryPoint
    <3>7. EntryClear'
      BY <1>1, <2>2, <2>6, <3>2, <3>3, <3>4 DEF EntryClear, Width
    <3>8. QED
      BY <3>6, <3>7 DEF EntryInv
  <2>8. CASE ZVersion = 6
    <3> DEFINE m == n % 256
               at == Origin + Len(main)
    <3>1. /\ header' = [tables EXCEPT !.pc = packed]
          /\ RoutineAt(main, l, n, <<>>)
      BY <1>3, <2>8 DEF Start, Fail, withDict, pc
    <3>2. /\ file' = main \o <<m>>
          /\ m <= 15 /\ m \in Byte
          /\ l \in DOMAIN labels' /\ labels'[l] = at
      <4>1. /\ m \in Byte /\ m <= 15
            /\ file' = main \o (<<m>> \o <<>>)
        <5> HIDE DEF main
        <5>1. \/ phase' = "error"
              \/ /\ m <= 15
                 /\ file' = main \o (<<m>> \o
                              IF ZVersion <= 4 THEN LocalWords(<<>>, m)
                                               ELSE <<>>)
          BY <3>1 DEF RoutineAt, Fail
        <5>2. ~(ZVersion <= 4)
          BY <2>8
        <5>3. m \in Byte
          BY SourceAssumption DEF Byte
        <5>4. QED
          BY <1>3, <5>1, <5>2, <5>3
      <4>2. l \in DOMAIN labels' /\ labels'[l] = at
        BY <3>1 DEF RoutineAt, DefineLabel
      <4> HIDE DEF m, at, main
      <4>3. <<m>> \o <<>> = <<m>>
        BY <4>1, Singleton, ConcatEmptySeq
      <4>4. QED
        BY <4>1, <4>2, <4>3
    <3>3. /\ pad \in Nat /\ pad < 4
          /\ Fill(pad, 0) \in Seq(Cell) /\ Len(Fill(pad, 0)) = pad
      <4>1. Alignment = 4
        BY <2>8 DEF Alignment
      <4>2. QED
        BY <2>4, <4>1, PaddingType, RoundUpAlignment
    <3>4. Extends(withDict, main) /\ Len(main) = Len(withDict) + pad
      BY <2>3, <3>3, AppendedExtends
    <3>5. main \in Seq(Cell) /\ Len(main) \in Nat
      BY <3>4, LenProperties DEF Extends
    <3>6. at = pc + pad
      <4>1. at = Origin + Len(main) /\ pc = Origin + Len(withDict)
        BY DEF pc
      <4> HIDE DEF at, main, pad
      <4>2. QED
        BY <2>2, <2>3, <3>3, <3>4, <4>1
    <3>7. (at \div Alignment) * Alignment = at /\ at \in Nat
      <4>1. PICK k \in Nat : RoundUp(pc, Alignment) = Alignment * k
        BY <2>4, RoundUpMultiple
      <4>2. Alignment = 4
        BY <2>8 DEF Alignment
      <4>3. pc + pad = RoundUp(pc, Alignment)
        <5>1. RoundUp(pc, Alignment) \in Int
          BY <4>1, <4>2
        <5>2. QED
          BY <2>4, <5>1
      <4>4. at = 4 * k /\ k \in Nat
        BY <3>6, <4>1, <4>2, <4>3
      <4> HIDE DEF at
      <4>5. (at \div 4) * 4 = at /\ at \in Nat
        BY <4>4
      <4>6. QED
        BY <4>2, <4>5
    <3> HIDE DEF pad
    <3>8. /\ header'.static = Position /\ header'.dict = Position
          /\ header'.pc = at \div Alignment
      BY <2>1, <3>1 DEF Header
    <3> HIDE DEF main, at, m
    <3>9. /\ Extends(main, file') /\ Len(file') = Len(main) + 1
          /\ file'[Len(main) + 1] = m
      <4>1. <<m>> \in Seq(Cell) /\ Len(<<m>>) = 1 /\ <<m>>[1] = m
        BY <3>2, Singleton, CellsOfBytes
      <4>2. (main \o <<m>>)[Len(main) + 1] = <<m>>[1]
        BY <3>5, <4>1, AppendedReads
      <4>3. QED
        BY <3>2, <3>5, <4>1, <4>2, AppendedExtends
    <3>10. Position' = at + 1
      BY <2>2, <3>5, <3>9 DEF Position, at
    <3>11. CodeStart' = at + 1 /\ header'.pc * Alignment = at
      BY <2>8, <3>7, <3>8 DEF CodeStart
    <3>12. \A i \in 1..4 : ByteAt(header.dict + (i - 1))' = Dictionary[i]
      <4>1. Extends(withDict, file')
        BY <2>3, <3>4, <3>9, ExtendsTransitive
      <4>2. ASSUME NEW i \in 1..4
            PROVE  file'[((header'.dict + (i - 1)) - Origin) + 1]
                     = Dictionary[i]
        <5> DEFINE k == ((Position + (i - 1)) - Origin) + 1
        <5>1. withDict[k] = Dictionary[i] /\ k \in 1..Len(withDict)
          BY <2>5
        <5>2. ((header'.dict + (i - 1)) - Origin) + 1 = k
          BY <3>8
        <5> HIDE DEF k
        <5>3. file'[k] = withDict[k]
          BY <4>1, <5>1 DEF Extends
        <5>4. QED
          BY <5>1, <5>2, <5>3
      <4>3. QED
        BY <4>2 DEF ByteAt
    <3>13. file'[(at - Origin) + 1] = m
      <4>1. (at - Origin) + 1 = Len(main) + 1
        BY <2>2, <3>5 DEF at
      <4>2. QED
        BY <3>9, <4>1
    <3>14. EntryPoint'
      <4>1. Alignment = 4
        BY <2>8 DEF Alignment
      <4>2. /\ at >= Position + 4 /\ at < Position + 4 + Alignment
        BY <2>2, <2>4, <3>3, <3>6, <4>1
      <4>3. QED
        BY <2>8, <3>2, <3>8, <3>11, <3>12, <3>13, <4>2 DEF EntryPoint, ByteAt
    <3>15. EntryClear'
      <4>1. Position + 4 <= at + 1
        BY <2>2, <2>4, <3>3, <3>6
      <4>2. QED
        BY <1>1, <2>2, <2>6, <3>7, <3>8, <3>10, <3>11, <4>1
           DEF EntryClear, Width
    <3>16. QED
      BY <3>14, <3>15 DEF EntryInv
  <2>9. QED
    BY <2>7, <2>8
<1>4. QED
  BY <1>2, <1>3
(* Recording the reference being written.                                  *)
LEMMA RecordedBehind ==
  ASSUME TypeOK, NEW t, label_targets' = Append(label_targets, t),
         t.from = Position + Len(buf)
  PROVE  \A i \in 1..Len(label_targets') :
           \/ /\ i \in 1..Len(label_targets)
              /\ label_targets'[i] = label_targets[i]
           \/ Position <= label_targets'[i].from
<1> DEFINE n == Len(label_targets)
<1>1. label_targets \in Seq(Target) /\ n \in Nat
  BY Lengths DEF TypeOK, TargetsType
<1>2. label_targets \in Seq(Target \cup {t}) /\ t \in Target \cup {t}
  BY <1>1, SeqMonotonic
<1>3. /\ Len(label_targets') = n + 1
      /\ \A i \in 1..n : label_targets'[i] = label_targets[i]
      /\ label_targets'[n + 1] = t
  BY <1>2, AppendProperties
<1>4. Position <= t.from
  BY PositionType, Lengths
<1>5. QED
  BY <1>1, <1>3, <1>4

LEMMA WriteOperandEntry ==
  ASSUME EntryInv, LinkInv', WriteOperand
  PROVE  EntryInv'
<1>1. /\ TypeOK
      /\ phase # "error" /\ UNCHANGED <<phase, header, started, labels, file>>
  BY DEF EntryInv, LinkInv, WriteOperand
<1>2. Extends(file, file')
  BY <1>1, ExtendsReflexive DEF TypeOK
<1>3. \A i \in 1..Len(label_targets') :
        \/ /\ i \in 1..Len(label_targets)
           /\ label_targets'[i] = label_targets[i]
        \/ Position <= label_targets'[i].from
  <2> DEFINE a == Head(ins.args)
             t == Reference(a.kind, a.label, Position + Len(buf), FALSE, FALSE)
  <2>1. \/ label_targets' = label_targets
        \/ label_targets' = Append(label_targets, t)
    BY DEF WriteOperand
  <2>2. t.from = Position + Len(buf)
    BY DEF Reference
  <2> HIDE DEF t
  <2>3. QED
    BY <1>1, <2>1, <2>2, RecordedBehind
<1>4. QED
  BY <1>1, <1>2, <1>3, EntryAppends

LEMMA EndOpcodeEntry ==
  ASSUME EntryInv, LinkInv', EndOpcode
  PROVE  EntryInv'
<1>1. /\ TypeOK
      /\ phase # "error" /\ UNCHANGED <<header, started, labels>>
  BY DEF EntryInv, LinkInv, EndOpcode
<1>2. Extends(file, file')
  BY <1>1, EndOpcodeType
<1>3. \A i \in 1..Len(label_targets') :
        \/ /\ i \in 1..Len(label_targets)
           /\ label_targets'[i] = label_targets[i]
        \/ Position <= label_targets'[i].from
  <2> DEFINE b == ins.branch
             t == Reference("branch", b.label, Position + Len(buf),
                            b.invert, b.small)
  <2>1. \/ label_targets' = label_targets
        \/ label_targets' = Append(label_targets, t)
    BY DEF EndOpcode
  <2>2. t.from = Position + Len(buf)
    BY DEF Reference
  <2> HIDE DEF t
  <2>3. QED
    BY <1>1, <2>1, <2>2, RecordedBehind
<1>4. QED
  BY <1>1, <1>2, <1>3, EntryAppends

(* A directive that leaves the references, the start and its header words. *)
EntryFrame ==
  /\ phase # "error"
  /\ UNCHANGED <<started, label_targets>>
  /\ header'.static = header.static /\ header'.dict = header.dict
  /\ header'.pc = header.pc
  /\ phase' # "error" =>
       \A l \in DOMAIN labels : /\ l \in DOMAIN labels'
                               /\ labels'[l] = labels[l]

LEMMA FrameEntry ==
  ASSUME EntryInv, LinkInv', Extends(file, file'), EntryFrame
  PROVE  EntryInv'
BY EntryAppends DEF EntryFrame

LEMMA StepEntry ==
  ASSUME EntryInv, [Next]_vars
  PROVE  EntryInv'
<1>1. /\ TypeOK /\ LinkInv' /\ header \in Header
      /\ Extends(file, file') \/ ApplyTarget
  BY StepAppends, StepLinks DEF EntryInv, LinkInv, TypeOK
<1>2. CASE ApplyTarget
  BY <1>1, <1>2, ApplyTargetEntry
<1>3. CASE WriteOperand
  BY <1>1, <1>3, WriteOperandEntry
<1>4. CASE EndOpcode
  BY <1>1, <1>4, EndOpcodeEntry
<1>5. ASSUME NEW l \in Labels, NEW n \in LocalCounts, Start(l, n)
      PROVE  EntryInv'
  BY <1>1, <1>5, StartEntry
<1>6. ASSUME \/ \E n \in Sizes, b \in {0, 180} : Seek(n, b)
             \/ \E o \in Offsets, b \in {0, 180} : SeekAbs(o, b)
             \/ DefaultAlign
             \/ \E n \in Sizes : Align(n)
             \/ \E bytes \in ByteLists : ByteDirective(bytes)
             \/ \E t \in Texts : String(t)
             \/ \E i \in Instructions : HandleOpcode(i)
             \/ EndOfSource
      PROVE  EntryInv'
  <2>1. /\ phase = "source"
        /\ UNCHANGED <<header, started, labels, label_targets>>
    BY <1>6 DEF Seek, SeekAbs, DefaultAlign, Align, ByteDirective, String,
                HandleOpcode, EndOfSource, ReadLine, not_appending
  <2>2. EntryFrame /\ ~ApplyTarget
    BY <2>1 DEF EntryFrame, ApplyTarget
  <2>3. QED
    BY <1>1, <2>2, FrameEntry
<1>7. ASSUME \/ \E l \in Labels : Label(l)
             \/ \E l \in Labels : AlignedLabel(l)
             \/ \E l \in Labels, n \in LocalCounts, v \in LocalValues :
                  Routine(l, n, v)
      PROVE  EntryInv'
  <2>1. /\ phase = "source"
        /\ UNCHANGED <<header, started, label_targets>>
    BY <1>7 DEF Label, AlignedLabel, Routine, ReadLine
  <2>2. ASSUME NEW l, NEW at, DefineLabel(l, at), l \notin DOMAIN labels
        PROVE  \A k \in DOMAIN labels : k \in DOMAIN labels'
                                        /\ labels'[k] = labels[k]
    BY <2>2 DEF DefineLabel
  <2>3. phase' # "error" =>
          \E l, at : DefineLabel(l, at) /\ l \notin DOMAIN labels
    <3>1. ASSUME NEW l \in Labels, Label(l) \/ AlignedLabel(l),
                 phase' # "error"
          PROVE  \E at : DefineLabel(l, at) /\ l \notin DOMAIN labels
      BY <3>1 DEF Label, AlignedLabel, Fail
    <3>2. ASSUME NEW l \in Labels, NEW n \in LocalCounts,
                 NEW v \in LocalValues, Routine(l, n, v), phase' # "error"
          PROVE  \E at : DefineLabel(l, at) /\ l \notin DOMAIN labels
      BY <3>2 DEF Routine, RoutineAt, Fail
    <3>3. QED
      BY <1>7, <3>1, <3>2
  <2>4. EntryFrame /\ ~ApplyTarget
    BY <2>1, <2>2, <2>3 DEF EntryFrame, ApplyTarget
  <2>5. QED
    BY <1>1, <2>4, FrameEntry
<1>8. ASSUME \/ \E flags \in {0, 2} : Status(flags)
             \/ \E v \in GlobalValues : SetGlobal(v)
             \/ \E table \in Tables : UnicodeTable(table)
             \/ FinishFile
      PROVE  EntryInv'
  <2>1. /\ phase \in {"source", "link"}
        /\ UNCHANGED <<started, labels, label_targets>>
    BY <1>8 DEF Status, SetGlobal, UnicodeTable, FinishFile, ReadLine
  <2>2. /\ header'.static = header.static /\ header'.dict = header.dict
        /\ header'.pc = header.pc
    <3>1. ASSUME \/ \E flags \in {0, 2} : Status(flags)
                 \/ \E v \in GlobalValues : SetGlobal(v)
                 \/ \E table \in Tables : UnicodeTable(table)
          PROVE  \/ header' = header
                 \/ \E x : header' = [header EXCEPT !.flags1 = x]
                 \/ \E x : header' = [header EXCEPT !.global = x]
                 \/ \E x : header' = [header EXCEPT !.unicode = x]
      BY <3>1 DEF Status, SetGlobal, UnicodeTable
    <3>2. ASSUME FinishFile
          PROVE  \/ header' = header
                 \/ \E x : header' = [header EXCEPT !.unicode = x]
                 \/ \E x, n, f : header' = [[header EXCEPT !.unicode = x]
                                   EXCEPT !.length = n, !.checksum = f]
      BY <3>2 DEF FinishFile
    <3>3. QED
      BY <1>1, <1>8, <3>1, <3>2 DEF Header
  <2>3. EntryFrame
    BY <2>1, <2>2 DEF EntryFrame
  <2>4. Extends(file, file')
    <3>1. CASE FinishFile
      BY <1>1, <3>1, FinishFileType
    <3>2. CASE ~FinishFile
      BY <1>1, <1>8, <3>2, StatusType, SetGlobalType, UnicodeTableType
    <3>3. QED
      BY <3>1, <3>2
  <2>5. QED
    BY <1>1, <2>3, <2>4, FrameEntry
<1>9. CASE UNCHANGED vars
  <2>1. /\ Extends(file, file')
        /\ UNCHANGED <<phase, started, header, labels, label_targets>>
    BY <1>1, <1>9, ExtendsReflexive DEF vars, TypeOK
  <2>2. QED
    BY <1>1, <2>1, EntryAppends
<1>10. QED
  BY <1>2, <1>3, <1>4, <1>5, <1>6, <1>7, <1>8, <1>9 DEF Next, Finished

(* Whatever is written after the start directive and whichever references  *)
(* are patched, the header leads an interpreter to the dictionary and to   *)
(* the code behind it; in V6 to a routine of at most 15 locals.            *)
THEOREM EntryPointHolds == Spec => []EntryPoint
<1>1. Init => EntryInv
  BY InitLinks DEF Init, EntryInv, EntryPoint, EntryClear
<1>2. EntryInv /\ [Next]_vars => EntryInv'
  BY StepEntry
<1>3. EntryInv => EntryPoint
  BY DEF EntryInv
<1>4. QED
  BY <1>1, <1>2, <1>3, PTL DEF Spec

----------------------------------------------------------------------------
(***************************************************************************)
(* The assembler implements Linkage: each step of ZaAssembler binds a      *)
(* name, uses one, links everything, gives up, or is not seen.             *)
(***************************************************************************)

(* The state of Linkage, as ZaLinkage reads it off the assembler's.        *)
Outcome == IF Failed THEN "failed" ELSE IF phase = "done" THEN "linked" ELSE "open"
Bindings == IF Failed THEN [l \in {} |-> 0] ELSE labels
UsesOf(targets) == [i \in 1..Len(targets) |-> targets[i].label]
Uses == IF Failed THEN <<>> ELSE UsesOf(label_targets)
Values ==
  IF phase = "done"
    THEN [i \in 1..Len(label_targets) |-> Denotes(label_targets[i])]
    ELSE <<>>

LEMMA LinkageIs ==
  /\ Linked!Init <=> /\ Outcome = "open" /\ Bindings = [l \in {} |-> 0]
                     /\ Uses = <<>> /\ Values = <<>>
  /\ \A l : Linked!Bind(l) <=>
       /\ Outcome = "open"
       /\ l \notin DOMAIN Bindings
       /\ DOMAIN Bindings' = DOMAIN Bindings \cup {l}
       /\ Bindings'[l] \in Nat
       /\ \A k \in DOMAIN Bindings : Bindings'[k] = Bindings[k]
       /\ Outcome' = Outcome /\ Uses' = Uses /\ Values' = Values
  /\ \A l : Linked!Use(l) <=>
       /\ Outcome = "open"
       /\ Uses' = Append(Uses, l)
       /\ Outcome' = Outcome /\ Bindings' = Bindings /\ Values' = Values
  /\ Linked!Link <=>
       /\ Outcome = "open"
       /\ \A i \in 1..Len(Uses) : Uses[i] \in DOMAIN Bindings
       /\ Outcome' = "linked"
       /\ Values' = [i \in 1..Len(Uses) |-> Bindings[Uses[i]]]
       /\ Bindings' = Bindings /\ Uses' = Uses
  /\ Linked!Abandon <=>
       /\ Outcome = "open"
       /\ Outcome' = "failed"
       /\ Bindings' = [l \in {} |-> 0]
       /\ Uses' = <<>>
       /\ Values' = Values
  /\ UNCHANGED Linked!vars <=>
       /\ Outcome' = Outcome /\ Bindings' = Bindings
       /\ Uses' = Uses /\ Values' = Values
BY DEF Linked!Init, Linked!Bind, Linked!Use, Linked!Link, Linked!Abandon,
       Linked!vars, Outcome, Bindings, Uses, UsesOf, Values

Open == phase \in {"source", "operands", "link"}

LEMMA OpenIs ==
  ASSUME Open
  PROVE  Outcome = "open" /\ Bindings = labels /\ Uses = UsesOf(label_targets)
         /\ Values = <<>>
BY DEF Open, Outcome, Bindings, Uses, Values, Failed

(* What a step that neither fails nor completes the file may do to labels  *)
(* and references.                                                         *)
NothingSeen == labels' = labels /\ label_targets' = label_targets
Binds(l) ==
  /\ l \notin DOMAIN labels
  /\ \E at : DefineLabel(l, at)
  /\ label_targets' = label_targets
UsesLabel(t) == label_targets' = Append(label_targets, t) /\ labels' = labels

LEMMA OpenEffects ==
  ASSUME [Next]_vars, Open, Open'
  PROVE  NothingSeen \/ (\E l \in Labels : Binds(l)) \/ (\E t : UsesLabel(t))
<1>0. phase' # "error" BY DEF Open
<1>1. CASE UNCHANGED vars \/ Finished
  BY <1>1 DEF Finished, vars, NothingSeen
<1>2. ASSUME NEW n, NEW b, Seek(n, b) \/ SeekAbs(n, b) \/ Align(n)
      PROVE  NothingSeen
  BY <1>2 DEF Seek, SeekAbs, Align, not_appending, NothingSeen
<1>3. ASSUME DefaultAlign \/ \E bytes \in ByteLists : ByteDirective(bytes)
      PROVE  NothingSeen
  BY <1>3 DEF DefaultAlign, ByteDirective, not_appending, NothingSeen
<1>4. ASSUME NEW l \in Labels, Label(l) PROVE Binds(l)
  BY <1>0, <1>4 DEF Label, Fail, Binds
<1>5. ASSUME NEW l \in Labels, AlignedLabel(l) PROVE Binds(l)
  BY <1>0, <1>5 DEF AlignedLabel, Fail, Binds
<1>6. ASSUME NEW l \in Labels, NEW n, NEW v, Routine(l, n, v) PROVE Binds(l)
  BY <1>0, <1>6 DEF Routine, RoutineAt, Fail, Binds
<1>7. ASSUME NEW l \in Labels, NEW n, Start(l, n) PROVE NothingSeen \/ Binds(l)
  BY <1>0, <1>7 DEF Start, RoutineAt, Fail, Binds, NothingSeen
<1>8. ASSUME NEW x, Status(x) \/ SetGlobal(x) \/ String(x) PROVE NothingSeen
  BY <1>8 DEF Status, SetGlobal, String, NothingSeen
<1>9. ASSUME NEW x, UnicodeTable(x) \/ HandleOpcode(x) PROVE NothingSeen
  BY <1>9 DEF UnicodeTable, HandleOpcode, NothingSeen
<1>10. CASE WriteOperand
  BY <1>10 DEF WriteOperand, NothingSeen, UsesLabel
<1>11. CASE EndOpcode
  BY <1>11 DEF EndOpcode, NothingSeen, UsesLabel
<1>12. CASE EndOfSource \/ ApplyTarget
  BY <1>12 DEF EndOfSource, ApplyTarget, NothingSeen
<1>13. CASE FinishFile
  BY <1>13 DEF FinishFile, Fail, Open
<1> QED
  BY <1>1, <1>2, <1>3, <1>4, <1>5, <1>6, <1>7, <1>8, <1>9, <1>10, <1>11,
     <1>12, <1>13 DEF Next

LEMMA OpenSimulates ==
  ASSUME TypeOK, TypeOK', [Next]_vars, Open, Open'
  PROVE  Linked!Next \/ UNCHANGED Linked!vars
<1>1. /\ Outcome = "open" /\ Bindings = labels /\ Uses = UsesOf(label_targets)
      /\ Values = <<>> /\ Outcome' = "open" /\ Bindings' = labels'
      /\ Uses' = UsesOf(label_targets') /\ Values' = <<>>
  BY OpenIs DEF Open, Outcome, Bindings, Uses, UsesOf, Values, Failed
<1>2. CASE NothingSeen
  BY <1>1, <1>2, LinkageIs DEF NothingSeen
<1>3. ASSUME NEW l \in Labels, Binds(l) PROVE Linked!Next
  <2>1. /\ l \notin DOMAIN labels /\ DOMAIN labels' = DOMAIN labels \cup {l}
        /\ \A k \in DOMAIN labels : labels'[k] = labels[k]
        /\ label_targets' = label_targets
    BY <1>3 DEF Binds, DefineLabel
  <2>2. labels'[l] \in Nat BY <2>1 DEF TypeOK, LabelsType
  <2>3. Linked!Bind(l) BY <1>1, <2>1, <2>2, LinkageIs
  <2> QED BY <2>3 DEF Linked!Next
<1>4. ASSUME NEW t, UsesLabel(t) PROVE Linked!Next
  <2>1. label_targets' = Append(label_targets, t) /\ labels' = labels
    BY <1>4 DEF UsesLabel
  <2>2. PICK n \in Nat : n = Len(label_targets) BY DEF TypeOK, TargetsType
  <2>3. /\ Len(label_targets') = n + 1 /\ label_targets'[n + 1] = t
        /\ \A i \in 1..n : label_targets'[i] = label_targets[i]
    BY <2>1, <2>2 DEF TypeOK, TargetsType
  <2>4. t.label \in Labels
    <3>1. label_targets' \in Seq(Target) BY DEF TypeOK, TargetsType
    <3>2. t \in Target BY <2>2, <2>3, <3>1, ElementOfSeq
    <3> QED BY <3>2 DEF Target
  <2>5. UsesOf(label_targets') = Append(UsesOf(label_targets), t.label)
    <3>1. \A i \in 1..n : UsesOf(label_targets')[i] = UsesOf(label_targets)[i]
      BY <2>2, <2>3 DEF UsesOf
    <3> QED BY <2>2, <2>3, <3>1 DEF UsesOf
  <2>6. Linked!Use(t.label) BY <1>1, <2>1, <2>5, LinkageIs
  <2> QED BY <2>4, <2>6 DEF Linked!Next
<1> QED BY <1>2, <1>3, <1>4, OpenEffects

LEMMA OnlyFinishFile ==
  ASSUME [Next]_vars, Open, phase' = "done"
  PROVE  FinishFile
<1>1. phase' # phase /\ phase' # "error" /\ phase' # "source" BY DEF Open
<1>2. ~(UNCHANGED vars \/ Finished)
  BY <1>1 DEF Finished, vars
<1>3. ASSUME NEW x, NEW y, NEW z
      PROVE  ~(Seek(x, y) \/ SeekAbs(x, y) \/ Align(x) \/ ByteDirective(x)
                 \/ Label(x) \/ AlignedLabel(x) \/ Routine(x, y, z))
  BY <1>1 DEF Seek, SeekAbs, Align, ByteDirective, Label, AlignedLabel, Routine,
              RoutineAt, Fail
<1>4. ASSUME NEW x, NEW y
      PROVE  ~(Start(x, y) \/ Status(x) \/ SetGlobal(x) \/ String(x)
                 \/ UnicodeTable(x) \/ HandleOpcode(x))
  BY <1>1 DEF Start, RoutineAt, Status, SetGlobal, String, UnicodeTable,
              HandleOpcode, Fail
<1>5. ~(DefaultAlign \/ WriteOperand \/ EndOpcode \/ EndOfSource \/ ApplyTarget)
  BY <1>1 DEF DefaultAlign, WriteOperand, EndOpcode, EndOfSource, ApplyTarget, Fail
<1> QED BY <1>2, <1>3, <1>4, <1>5 DEF Next

LEMMA LinkedSimulates ==
  ASSUME LinkInv, LinkInv', [Next]_vars
  PROVE  Linked!Next \/ UNCHANGED Linked!vars
<1>0. phase \in {"source", "operands", "link", "done", "error"}
      /\ phase' \in {"source", "operands", "link", "done", "error"}
  BY DEF LinkInv, TypeOK, ControlType
<1>1. CASE Open /\ Open'
  BY <1>1, OpenSimulates DEF LinkInv
<1>2. CASE Open /\ phase' = "error"
  <2>1. Linked!Abandon
    BY <1>2, OpenIs, LinkageIs DEF Outcome, Bindings, Uses, Values, Failed
  <2> QED BY <2>1 DEF Linked!Next
<1>3. CASE Open /\ phase' = "done"
  <2>1. UNCHANGED <<labels, label_targets, applied>>
    BY <1>3, OnlyFinishFile DEF FinishFile
  <2>2. \A i \in 1..Len(label_targets) :
          /\ label_targets[i].label \in DOMAIN labels
          /\ Denotes(label_targets[i])' = labels[label_targets[i].label]
    BY <1>3, <2>1 DEF LinkInv, AllLinked, ReferencesResolved, Resolved
  <2>3. /\ Outcome = "open" /\ Bindings = labels /\ Uses = UsesOf(label_targets)
        /\ Values = <<>>
    BY <1>3, OpenIs
  <2>4. /\ Outcome' = "linked" /\ Bindings' = labels /\ Uses' = UsesOf(label_targets)
        /\ Values' = [i \in 1..Len(label_targets) |-> Denotes(label_targets[i])']
    BY <1>3, <2>1 DEF Outcome, Bindings, Uses, UsesOf, Values, Failed
  <2>5. /\ Len(Uses) = Len(label_targets)
        /\ \A i \in 1..Len(label_targets) : Uses[i] = label_targets[i].label
    <3>1. PICK n \in Nat : n = Len(label_targets)
      BY DEF LinkInv, TypeOK, TargetsType
    <3> QED BY <2>3, <3>1 DEF UsesOf
  <2>6. [i \in 1..Len(label_targets) |-> Denotes(label_targets[i])']
          = [i \in 1..Len(Uses) |-> Bindings[Uses[i]]]
    BY <2>2, <2>3, <2>5
  <2>7. \A i \in 1..Len(Uses) : Uses[i] \in DOMAIN Bindings
    BY <2>2, <2>3, <2>5
  <2>8. Linked!Link BY <2>3, <2>4, <2>6, <2>7, LinkageIs
  <2> QED BY <2>8 DEF Linked!Next
<1>4. CASE ~Open
  <2>1. UNCHANGED vars
    <3>1. ASSUME NEW x, NEW y, NEW z
          PROVE  ~(Seek(x, y) \/ SeekAbs(x, y) \/ Align(x) \/ ByteDirective(x)
                     \/ Label(x) \/ AlignedLabel(x) \/ Routine(x, y, z))
      BY <1>4 DEF Open, Seek, SeekAbs, Align, ByteDirective, Label, AlignedLabel,
                  Routine, ReadLine
    <3>2. ASSUME NEW x, NEW y
          PROVE  ~(Start(x, y) \/ Status(x) \/ SetGlobal(x) \/ String(x)
                     \/ UnicodeTable(x) \/ HandleOpcode(x))
      BY <1>4 DEF Open, Start, Status, SetGlobal, String, UnicodeTable,
                  HandleOpcode, ReadLine
    <3>3. ~(DefaultAlign \/ WriteOperand \/ EndOpcode \/ EndOfSource
              \/ ApplyTarget \/ FinishFile)
      BY <1>4 DEF Open, DefaultAlign, WriteOperand, EndOpcode, EndOfSource,
                  ApplyTarget, FinishFile, ReadLine
    <3> QED BY <3>1, <3>2, <3>3 DEF Next, Finished
  <2>2. /\ phase' = phase /\ labels' = labels /\ label_targets' = label_targets
        /\ file' = file
    BY <2>1 DEF vars
  <2> QED
    BY <2>2, LinkageIs DEF Outcome, Bindings, Uses, UsesOf, Values, Failed,
       Denotes, WordAt, ByteAt, BranchNext, BranchOffset, ShortBranch
<1> QED BY <1>0, <1>1, <1>2, <1>3, <1>4 DEF Open

(* The passes of the assembler amount to Linkage, for every source, every  *)
(* version and every layout: names are bound once, and a file is only      *)
(* completed when each use, read back from its bytes, is the address its   *)
(* name is bound to.                                                       *)
THEOREM KeepsLinkageHolds == Spec => KeepsLinkage
<1>1. Init => Linked!Init
  BY LinkageIs DEF Init, Outcome, Bindings, Uses, UsesOf, Values, Failed
<1>2. LinkInv /\ LinkInv' /\ [Next]_vars => [Linked!Next]_Linked!vars
  BY LinkedSimulates
<1> QED
  BY <1>1, <1>2, LinkInvariant, PTL DEF Spec, KeepsLinkage, Linked!Spec
=============================================================================

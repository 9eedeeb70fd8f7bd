--------------------------- MODULE ZabbrevReader ---------------------------
(***************************************************************************)
(* zabbrev's command line and its readers: what is asked for, and the      *)
(* texts found in a directory.  A command line is a sequence of strings, a *)
(* file a sequence of bytes, Inform's transcript a sequence of lines.      *)
(***************************************************************************)
EXTENDS ZabbrevText, TLC

CONSTANTS
  Bytes(_),   \* the bytes of a string
  Number(_)   \* the number that a string is the numeral of, 0 for none

Defaults ==
  [throwback |-> FALSE, inform |-> FALSE, onlyRefactor |-> FALSE, verbose |-> FALSE,
   level |-> 2, abbrevs |-> 96, passes |-> 10000, deepPasses |-> 1000,
   version |-> 0, detect |-> FALSE, round3 |-> FALSE, format |-> "input",
   alpha |-> DefaultAlphabet, custom |-> FALSE, infodump |-> "", txd |-> "", directory |-> "."]

\* A row of an alphabet is replaced by as many characters as it has, else it is kept.
WithRow(alpha, row, chars) ==
  IF Len(chars) = (IF row = "a2" THEN 23 ELSE 26) THEN [alpha EXCEPT ![row] = Range(chars)] ELSE alpha

NumberAt(args, i) == IF i \in DOMAIN args THEN Number(args[i]) ELSE 0

Or(n, default) == IF n > 0 THEN n ELSE default

\* What the first scan makes of the argument at i: the settings, and how many arguments it is.
Prescanned(s, args, i) ==
  LET arg  == args[i]
      n1   == NumberAt(args, i + 1)
      n2   == IF n1 > 0 THEN NumberAt(args, i + 2) ELSE 0
      next == args[i + 1]
      Takes(n, settings) == [s |-> settings, takes |-> n]
  IN  CASE arg \in {"-x0", "-x1"} -> Takes(1, [s EXCEPT !.level = IF arg = "-x0" THEN 0 ELSE 1])
        [] arg = "-x2" ->
             Takes(IF n1 > 0 THEN 2 ELSE 1, [s EXCEPT !.level = 2, !.passes = Or(n1, @)])
        [] arg = "-x3" ->
             LET passes == Or(n1, s.passes)
                 deep   == Or(n2, s.deepPasses)
             IN  Takes(1 + (IF n1 > 0 THEN 1 ELSE 0) + (IF n2 > 0 THEN 1 ELSE 0),
                       [s EXCEPT !.level = 3, !.deepPasses = deep,
                                 !.passes = IF passes < deep THEN deep ELSE passes])
        [] arg \in {"-v1", "-v2", "-v3"} -> Takes(1, [s EXCEPT !.version = 3])
        [] arg \in {"-v4", "-v5", "-v6", "-v7"} -> Takes(1, [s EXCEPT !.version = 5])
        [] arg = "-v8" -> Takes(1, [s EXCEPT !.version = 8])
        [] arg = "-r3" -> Takes(1, [s EXCEPT !.round3 = TRUE])
        [] arg = "--infodump" /\ i < Len(args) -> Takes(2, [s EXCEPT !.infodump = next])
        [] arg = "--txd" /\ i < Len(args) -> Takes(2, [s EXCEPT !.txd = next])
        [] arg = "--onlyrefactor" -> Takes(1, [s EXCEPT !.onlyRefactor = TRUE])
        [] arg \in {"--a0", "--a1", "--a2"} /\ i < Len(args) ->
             Takes(2, [s EXCEPT !.alpha = WithRow(@, SubSeq(arg, 3, 4), Bytes(next))])
        [] OTHER -> Takes(0, s)

\* The first scan, with the arguments that it leaves to getopt.
Prescan(args) ==
  LET Step(at, i) ==
        LET p == Prescanned(at.s, args, i)
        IN  IF i < at.next THEN at
            ELSE [s    |-> p.s,
                  next |-> IF p.takes = 0 THEN i + 1 ELSE i + p.takes,
                  left |-> IF p.takes = 0 THEN Append(at.left, args[i])
                           ELSE at.left \o [j \in 1 .. p.takes |-> "--processed"]]
  IN  FoldLeftDomain(Step, [s |-> Defaults, next |-> 1, left |-> <<>>], args)

Formats == [input |-> "input", inform |-> "inform", zap |-> "zap"]

\* The second scan.  Unknown options are passed over, the last directory counts.
Option(s, arg, value, directories) ==
  CASE arg \in {"-a", "-A", "--alphabet"} -> [s EXCEPT !.custom = TRUE]
    [] arg \in {"-b", "--throwback"} -> [s EXCEPT !.throwback = TRUE]
    [] arg \in {"-n", "--number"} -> [s EXCEPT !.abbrevs = Or(Number(value), 96)]
    [] arg \in {"-o", "--output"} ->
         [s EXCEPT !.format = IF value \in DOMAIN Formats THEN Formats[value] ELSE @]
    [] arg \in {"-i", "--inform"} -> [s EXCEPT !.inform = TRUE]
    [] arg \in {"-v", "--verbose"} -> [s EXCEPT !.verbose = TRUE]
    [] arg = "--r3" -> [s EXCEPT !.round3 = TRUE]
    [] arg \in directories -> [s EXCEPT !.directory = arg]
    [] OTHER -> s

Valued(arg) == arg \in {"-n", "--number", "-o", "--output"}

Getopt(s0, args, directories) ==
  LET Step(at, i) ==
        IF i < at.next \/ (Valued(args[i]) /\ i = Len(args)) THEN at
        ELSE IF Valued(args[i])
             THEN [s |-> Option(at.s, args[i], args[i + 1], directories), next |-> i + 2]
             ELSE [s |-> Option(at.s, args[i], "", directories), next |-> i + 1]
  IN  FoldLeftDomain(Step, [s |-> s0, next |-> 1], args).s

\* The settings of a command line on a disk.
Options(args, disk) ==
  LET scan == Prescan(args)
      s    == Getopt(scan.s, scan.left, DOMAIN disk)
      v    == IF s.round3 THEN 3 ELSE s.version
  IN  [s EXCEPT !.version = IF v = 0 THEN 3 ELSE v,
                !.detect  = v = 0,
                !.inform  = @ \/ disk[s.directory].gametext # <<>>]

----------------------------------------------------------------------------
GameText(text, packed, object, routine) ==
  [text |-> text, packed |-> packed, object |-> object, routine |-> routine, unit |-> 3]

Places(s, part) == {i \in 1 .. Len(s) - Len(part) + 1 : IsAt(s, part, i)}

First(places) == CHOOSE i \in places : \A j \in places : i <= j

Digits == 48 .. 57

\* The number at the start of s, after spaces.
Atoi(s) ==
  LET Step(at, c) == CASE at.over -> at
                       [] ~at.over /\ c = Space /\ ~at.digits -> at
                       [] ~at.over /\ c \in Digits ->
                            [at EXCEPT !.n = 10 * @ + c - 48, !.digits = TRUE]
                       [] OTHER -> [at EXCEPT !.over = TRUE]
  IN  FoldLeft(Step, [n |-> 0, digits |-> FALSE, over |-> FALSE], s).n

----------------------------------------------------------------------------
(***************************************************************************)
(* Inform's gametext.txt.  A line whose first character is a kind of text  *)
(* is one, other lines may tell the version or the size of a routine.      *)
(***************************************************************************)
TextKinds == Range(Bytes("GVLOSHW"))
PackedKinds == Range(Bytes("GVS"))
MetaClasses == {Bytes("^Class"), Bytes("^Object"), Bytes("^Routine"), Bytes("^String")}
VersionLine == Bytes("Compiled Z-machine version")
VersionWord == Bytes("version")
SizeLine == Bytes("without inline strings size:")
SizeWord == Bytes("size:")

IsText(line) == Len(line) > 2 /\ Head(line) \in TextKinds

TextLine(at, line) ==
  LET text    == SubSeq(line, 4, Len(line))
      object  == Head(line) = 79
      objects == at.objects + (IF object THEN 1 ELSE 0)
      routine == IF Head(line) = 72 THEN Len(at.sizes) ELSE -1
  IN  [at EXCEPT !.objects = objects,
                 !.texts = IF object /\ objects < 6 /\ text \in MetaClasses THEN @
                           ELSE Append(@, GameText(text, Head(line) \in PackedKinds, object, routine))]

\* The version is the digit after the word, one more character and spaces.
VersionOf(line, version) ==
  LET after == SubSeq(line, First(Places(line, VersionWord)) + 8, Len(line))
      ahead == SelectInSeq(after, LAMBDA c : c # Space)
  IN  IF ahead > 0 /\ after[ahead] \in 49 .. 56 THEN after[ahead] - 48 ELSE version

OtherLine(at, line, detect) ==
  [at EXCEPT !.version = IF detect /\ Places(line, VersionLine) # {}
                         THEN VersionOf(line, @) ELSE @,
             !.sizes   = IF Places(line, SizeLine) # {}
                         THEN Append(@, Atoi(SubSeq(line, First(Places(line, SizeWord)) + 6, Len(line))))
                         ELSE @]

TranscriptLine(at, line, detect) ==
  CASE Range(line) \subseteq {Space, 9} -> at
    [] IsText(line) -> TextLine(at, line)
    [] OTHER -> OtherLine(at, line, detect)

----------------------------------------------------------------------------
(***************************************************************************)
(* The three readers of bytes look at each byte with a window of the bytes *)
(* before it, in capitals.                                                 *)
(***************************************************************************)
Upper(c) == IF c \in 97 .. 122 THEN c - 32 ELSE c

Window(data, i, width) == [j \in 1 .. width |-> Upper(data[i - width + j - 1])]

Quote == 34
EndOfLine == {10, 13}

\* Two quotes in a row are one.
ReplaceDoubleQuotes(s) ==
  LET Step(at, i) ==
        IF i < at.next THEN at
        ELSE [next |-> IF i < Len(s) /\ s[i] = QuoteReplacement /\ s[i + 1] = QuoteReplacement
                       THEN i + 2 ELSE i + 1,
              out  |-> Append(at.out, s[i])]
  IN  FoldLeftDomain(Step, [next |-> 1, out |-> <<>>], s).out

Cleaned(raw) ==
  ReplaceDoubleQuotes([i \in DOMAIN raw |->
    CASE raw[i] = 10 -> LfReplacement
      [] raw[i] = Quote -> QuoteReplacement
      [] OTHER -> raw[i]])

\* A quote that is awaited opens a text.
Opened(at, i, byte) ==
  IF at.awaited /\ byte = Quote
  THEN [at EXCEPT !.start = i, !.awaited = FALSE, !.inside = TRUE] ELSE at

\* The end of the line closes it; the character before it was the closing quote.
ClosedAtEol(at, data, i, packed, object) ==
  IF ~(at.inside /\ data[i] \in EndOfLine) THEN at
  ELSE [at EXCEPT !.inside = FALSE,
                  !.texts = IF i - at.start - 2 > 0
                            THEN Append(@, GameText(Cleaned(SubSeq(data, at.start + 1, i - 2)),
                                                    packed, object, -1))
                            ELSE @]

Gstr == Bytes(".GSTR")
Strl == Bytes(".STRL")
PrintI == {Bytes("RINTI"), Bytes("RINTR")}
New == Bytes(".NEW ")

\* Versions that a ZAP file is taken for.
ZapVersion(v) == CASE v < 4 -> 3 [] v \in 4 .. 7 -> 5 [] OTHER -> v

\* The mark of an object's description is lost at the next byte, long before its end.
ZapByte(at, data, i, detect) ==
  LET op     == Window(data, i, 5)
      starts == op \in {Gstr, Strl} \union PrintI
      seen   == [at EXCEPT !.awaited = @ \/ starts,
                           !.packed  = IF starts THEN op = Gstr ELSE @,
                           !.version = IF op = New /\ detect THEN ZapVersion(data[i] - 48) ELSE @]
  IN  IF i <= 5 THEN at
      ELSE ClosedAtEol(Opened(seen, i, data[i]), data, i, seen.packed, op = Strl)

Description == Bytes("DESCRIPTION: ")
ZcodeVersion == Bytes("Z-CODE VERSIO")
InformVersion == Bytes("INFORM VERSIO")
Zapf == Bytes("ZAPF")

\* The compiler's name is looked for in 13 characters.
CompilerIsZapf(data, i) ==
  Places([j \in DOMAIN SubSeq(data, i + 5, Min({i + 17, Len(data)})) |-> Upper(data[i + 4 + j])],
         Zapf) # {}

InfodumpByte(at, data, i) ==
  LET window == Window(data, i, 13)
      Has(distance) == i + distance <= Len(data)
      seen == [at EXCEPT
                 !.awaited = @ \/ window = Description,
                 !.version = IF window = ZcodeVersion /\ Has(13) THEN data[i + 13] - 48 ELSE @,
                 !.inform  = @ \/ (window = InformVersion /\ Has(18) /\ ~CompilerIsZapf(data, i))]
  IN  IF i <= 13 THEN at
      ELSE ClosedAtEol(Opened(seen, i, data[i]), data, i, FALSE, TRUE)

PrintOps == {Bytes("PRINT    "), Bytes("PRINT_RET")}
EndOfCode == Bytes("D OF CODE")
Brace == 125

\* Line ends of txd are its own: a new line is a space and a carriage return nothing.
CleanedTxd(raw) ==
  LET chars == [i \in DOMAIN raw |-> CASE raw[i] = 13 -> Brace
                                       [] raw[i] = 10 -> Space
                                       [] OTHER -> raw[i]]
  IN  Among(ReplaceDoubleQuotes(chars), Range(chars) \ {Brace})

\* The next quote closes a text.
ClosedAtQuote(at, data, i) ==
  IF ~(at.inside /\ i <= Len(data) /\ data[i] = Quote) THEN at
  ELSE [at EXCEPT !.inside = FALSE,
                  !.awaited = @ \/ ~at.code,
                  !.texts = IF i - at.start - 1 > 0
                            THEN Append(@, GameText(CleanedTxd(SubSeq(data, at.start + 1, i - 1)),
                                                    at.packed, FALSE, -1))
                            ELSE @]

\* After an opening quote the byte after it is looked at at once.
TxdByte(at, data, i) ==
  LET window == Window(data, i, 9)
      end    == window = EndOfCode
      seen   == [at EXCEPT !.awaited = @ \/ (at.code /\ window \in PrintOps) \/ end,
                           !.code    = @ /\ ~end,
                           !.packed  = @ \/ end]
      last   == IF seen.awaited /\ data[i] = Quote THEN i + 1 ELSE i
  IN  IF i <= 9 \/ i < at.next THEN at
      ELSE [ClosedAtQuote(Opened(seen, i, data[i]), data, last) EXCEPT !.next = last + 1]

----------------------------------------------------------------------------
(***************************************************************************)
(* What a reader keeps: what it has read, and where it is in a file.       *)
(***************************************************************************)
Nothing(s) ==
  [texts |-> <<>>, sizes |-> <<>>, version |-> s.version, inform |-> s.inform, objects |-> 0,
   awaited |-> FALSE, inside |-> FALSE, start |-> 0, packed |-> FALSE, code |-> TRUE, next |-> 1]

\* At the start of a file.
Afresh(at) == [at EXCEPT !.awaited = FALSE, !.inside = FALSE, !.start = 0, !.packed = FALSE]

File(reader, data) == [reader |-> reader, data |-> data]

Dumped(s) == s.infodump # "" \/ s.txd # ""

\* What cannot be found ends the program.
Missing(s, dir) ==
  \/ ~({s.infodump, s.txd} \ {""} \subseteq DOMAIN dir.dumps)
  \/ ~Dumped(s) /\ s.inform /\ dir.gametext = <<>>

\* The files read, in their order.  Tables of word frequencies are not ZAP code.
Files(s, dir) ==
  LET Dump(reader, name) == IF name = "" THEN <<>> ELSE <<File(reader, dir.dumps[name])>>
      code == Among(dir.zaps, {f \in Range(dir.zaps) : ~f.frequencies})
  IN  IF Dumped(s) THEN Dump("infodump", s.infodump) \o Dump("txd", s.txd)
      ELSE IF s.inform THEN <<File("gametext", dir.gametext)>>
      ELSE [i \in DOMAIN code |-> File("zap", code[i].bytes)]

\* The i-th line or byte of a file.
ReadItem(at, file, i, detect) ==
  CASE file.reader = "gametext" -> TranscriptLine(at, file.data[i], detect)
    [] file.reader = "zap" -> ZapByte(at, file.data, i, detect)
    [] file.reader = "infodump" -> InfodumpByte(at, file.data, i)
    [] file.reader = "txd" -> TxdByte(at, file.data, i)

\* The style of the output may be asked for.
Style(s, at) == CASE s.format = "inform" -> TRUE
                  [] s.format = "zap" -> FALSE
                  [] OTHER -> at.inform
=============================================================================

---------------------------- MODULE ZabbrevText ----------------------------
(***************************************************************************)
(* What a text costs: zabbrev's alphabets, the scores of patterns and the  *)
(* optimal parse of a line with a list of abbreviations.                   *)
(*                                                                         *)
(* A text is a sequence of bytes.  A pattern is a record of its key, the   *)
(* positions of the key in each line as they were last computed, and the   *)
(* numbers the program keeps beside it.  Positions count from 1.           *)
(***************************************************************************)
EXTENDS Integers, Sequences, FiniteSets, SequencesExt

\* The elements of a set in a strict order.
Ordered(set, Before(_, _)) ==
  LET rank == [x \in set |-> Cardinality({y \in set : Before(y, x)})]
  IN  <<>> \o [i \in 1 .. Cardinality(set) |-> CHOOSE x \in set : rank[x] = i - 1]

\* The elements of a sequence that are in a set.
Among(seq, set) == FoldLeft(LAMBDA kept, x : IF x \in set THEN Append(kept, x) ELSE kept, <<>>, seq)

Space == 32
QuoteReplacement == 126
LfReplacement == 94
ReferenceCost == 2

\* An alphabet has three rows; A2 is not given its escape and its new line.
DefaultAlphabet ==
  [a0 |-> 97 .. 122,
   a1 |-> 65 .. 90,
   a2 |-> (48 .. 57) \union {46, 44, 33, 63, 95, 35, 39, 47, 92, 45, 58, 40, 41}]

\* Z-characters of a character: one in A0, two in A1 or A2, else an escape.
ZcharCost(alpha, c) ==
  CASE c \in alpha.a0 \union {Space} -> 1
    [] c \notin alpha.a0 \union {Space}
       /\ c \in alpha.a1 \union alpha.a2 \union {QuoteReplacement, LfReplacement} -> 2
    [] OTHER -> 4

ZstringCost(alpha, s) == FoldLeft(LAMBDA sum, c : sum + ZcharCost(alpha, c), 0, s)

RoundUpTo(n, unit) == ((n + unit - 1) \div unit) * unit

PatternScore(frequency, cost) == frequency * (cost - 2) - RoundUpTo(cost, 3)

IsAt(text, key, i) ==
  /\ i + Len(key) - 1 <= Len(text)
  /\ \A k \in 1 .. Len(key) : text[i + k - 1] = key[k]

\* Where a key is in each line, overlaps included.
Occurrences(texts, key) ==
  [line \in DOMAIN texts |->
    {i \in DOMAIN texts[line].text : IsAt(texts[line].text, key, i)}]

----------------------------------------------------------------------------
(***************************************************************************)
(* The parse goes backwards over a line.  minimal[i] is the cost of the    *)
(* line from i on, picked[i] the place in the list of the abbreviation     *)
(* used at i, 0 if none.                                                   *)
(***************************************************************************)

(* Mutant: the first abbreviation that is cheaper than the character. *)
CheaperFirst(best, with) == best.pick = 0 /\ with < best.cost

Cheaper(best, with) == with < best.cost

\* Of equal parses the one with the dearer abbreviation, the later of equals.
Tied(best, with, list, a) ==
  /\ best.pick # 0
  /\ with = best.cost
  /\ list[a].cost >= list[best.pick].cost

\* The choice at i, given the choices behind it, from that at the end to that at i + 1.
Choice(alpha, text, list, line, i, behind) ==
  LET CostAfter(n) == behind[Len(behind) + 1 - n].cost
      Try(best, a) ==
        LET with == ReferenceCost + CostAfter(Len(list[a].key))
        IN  IF i \in list[a].occurrences[line]
               /\ (Cheaper(best, with) \/ Tied(best, with, list, a))
            THEN [cost |-> with, pick |-> a]
            ELSE best
  IN  FoldLeftDomain(Try, [cost |-> CostAfter(1) + ZcharCost(alpha, text[i]), pick |-> 0], list)

ParseLine(alpha, text, list, line) ==
  Reverse(FoldLeftDomain(
    LAMBDA behind, n : Append(behind, Choice(alpha, text, list, line, Len(text) + 1 - n, behind)),
    <<[cost |-> 0, pick |-> 0]>>, text))

\* The positions at which a parse takes an abbreviation, going forwards.
Taken(parse, list) ==
  LET Step(at, i) == IF i < at.next \/ parse[i].pick = 0 THEN at
                     ELSE [next  |-> i + Len(list[parse[i].pick].key),
                           taken |-> at.taken \union {i}]
  IN  FoldLeftDomain(Step, [next |-> 1, taken |-> {}], parse).taken

RoundingCost(cost, unit) == (unit - (cost % unit)) % unit

LineBytes(cost, unit) == ((cost + RoundingCost(cost, unit)) * 2) \div 3

\* What a parse leaves in its line.
LeftInLine(text, list, parse) ==
  [picked   |-> [i \in DOMAIN text.text |-> parse[i].pick],
   taken    |-> Taken(parse, list),
   minimal  |-> parse[1].cost,
   rounding |-> RoundingCost(parse[1].cost, text.unit),
   bytes    |-> LineBytes(parse[1].cost, text.unit)]

----------------------------------------------------------------------------
(***************************************************************************)
(* Scores of a whole list.                                                 *)
(***************************************************************************)

Total(numbers) == FoldLeft(LAMBDA sum, n : sum + n, 0, numbers)

\* What a parse looks at in its list: not the numbers that an earlier one gave it.
Seen(list) ==
  [a \in DOMAIN list |->
    [key |-> list[a].key, cost |-> list[a].cost, occurrences |-> list[a].occurrences]]

ParseAll(alpha, texts, list) ==
  [line \in DOMAIN texts |-> LeftInLine(texts[line], list, ParseLine(alpha, texts[line].text, list, line))]

(* Mutant: counts what was picked at positions that the parse passes over. *)
FrequencyPicked(parses, a) ==
  Total([line \in DOMAIN parses |->
        Cardinality({i \in DOMAIN parses[line].picked : parses[line].picked[i] = a})])

Frequency(parses, a) ==
  Total([line \in DOMAIN parses |->
        Cardinality({i \in parses[line].taken : parses[line].picked[i] = a})])

\* The list with the frequencies and savings of a parse.
Scored(list, parses) ==
  [a \in DOMAIN list |->
    LET f == Frequency(parses, a)
    IN  [list[a] EXCEPT !.frequency = f, !.savings = PatternScore(f, list[a].cost)]]

TotalSavings(list) == Total([a \in DOMAIN list |-> list[a].savings])

\* Bytes that storing an abbreviation takes.
Storage(cost) == 2 * ((cost + 2) \div 3)

\* Unused bytes after a routine of a given size.
RoutinePadding(version, size) ==
  CASE version < 4 -> IF size % 2 = 1 THEN 1 ELSE 0
    [] version \in 4 .. 7 -> (4 - (size % 4)) % 4
    [] version = 8 -> (8 - (size % 8)) % 8
    [] OTHER -> 0

(***************************************************************************)
(* The lines of routine r (from 0): the search for them begins at the line *)
(* where the last one stopped, and stops at a line of a later routine.     *)
(***************************************************************************)
RoutineLines(texts, r, from) ==
  LET later == {j \in from .. Len(texts) : texts[j].routine > r}
      stop  == IF later = {} THEN Len(texts) + 1
               ELSE CHOOSE j \in later : \A k \in later : j <= k
  IN  [lines |-> {j \in from .. stop - 1 : texts[j].routine = r},
       from  |-> IF later = {} THEN from ELSE stop]

TotalPadding(version, texts, parses, sizes) ==
  LET Step(acc, r) ==
        LET found == RoutineLines(texts, r - 1, acc.from)
            size  == sizes[r] + Total([j \in DOMAIN texts |->
                       IF j \in found.lines THEN parses[j].bytes ELSE 0])
        IN  [from |-> found.from, padding |-> acc.padding + RoutinePadding(version, size)]
  IN  FoldLeftDomain(Step, [from |-> 1, padding |-> 0], sizes).padding

TotalBytes(version, texts, list, parses, sizes) ==
  Total([line \in DOMAIN parses |-> parses[line].bytes])
    + Total([a \in DOMAIN list |-> Storage(list[a].cost)])
    + TotalPadding(version, texts, parses, sizes)

(***************************************************************************)
(* rescore_optimal_parse: the list with its new numbers, the parses, what  *)
(* is saved and how many bytes remain.                                     *)
(***************************************************************************)
Located(texts, list) ==
  [a \in DOMAIN list |->
    IF list[a].occurrences # <<>> THEN list[a]
    ELSE [list[a] EXCEPT !.occurrences = Occurrences(texts, list[a].key)]]

Outcome(version, texts, sizes, list, parses) ==
  [list    |-> list,
   parses  |-> parses,
   savings |-> TotalSavings(list),
   bytes   |-> TotalBytes(version, texts, list, parses, sizes)]

Assessed(version, texts, sizes, list, parses) ==
  Outcome(version, texts, sizes, Scored(list, parses), parses)

Rescore(alpha, version, texts, sizes, list) ==
  Assessed(version, texts, sizes, Located(texts, list),
           ParseAll(alpha, texts, Seen(Located(texts, list))))
=============================================================================

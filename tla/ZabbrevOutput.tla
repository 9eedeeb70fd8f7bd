--------------------------- MODULE ZabbrevOutput ---------------------------
(***************************************************************************)
(* What zabbrev prints: the abbreviations, sizes by unused slots, the      *)
(* texts with their abbreviations marked, long strings worth a routine.    *)
(***************************************************************************)
EXTENDS ZabbrevHeap

Entry(p) == [key |-> p.key, frequency |-> p.frequency, cost |-> p.cost,
             saved |-> PatternScore(p.frequency, p.cost)]

\* In Inform's style the longest first, equally long ones by their bytes.
LongestFirst(patterns) ==
  LET Before(i, j) ==
        \/ Len(patterns[i].key) > Len(patterns[j].key)
        \/ Len(patterns[i].key) = Len(patterns[j].key)
           /\ StringBefore(patterns[i].key, patterns[j].key)
      order == Ordered(DOMAIN patterns, Before)
  IN  [i \in DOMAIN patterns |-> patterns[order[i]]]

\* The list printed.  In Inform's style n patterns are read whether there are n or not.
Listing(patterns, n, inform) ==
  LET most    == IF Len(patterns) < n THEN Len(patterns) ELSE n
      chosen  == SubSeq(patterns, 1, most)
      ordered == IF inform THEN LongestFirst(chosen) ELSE chosen
  IN  [list |-> [i \in DOMAIN ordered |-> Entry(ordered[i])],
       wild |-> inform /\ Len(patterns) < n]

----------------------------------------------------------------------------
Slots == 0 .. 11

\* Strings and bytes for each number of unused slots, in high memory or not.
Statistics(texts, parses) ==
  [packed \in BOOLEAN |->
    [w \in Slots |->
      LET these == {t \in DOMAIN texts : texts[t].packed = packed /\ parses[t].rounding = w}
      IN  [strings |-> Cardinality(these),
           bytes   |-> Total([t \in DOMAIN texts |-> IF t \in these THEN parses[t].bytes ELSE 0])]]]

StringBytes(statistics) ==
  Total([w \in 1 .. 12 |-> statistics[TRUE][w - 1].bytes + statistics[FALSE][w - 1].bytes])

(* Mutant: leaves out the last one. *)
AbbreviationBytesBelow(patterns, n) ==
  Total([a \in DOMAIN patterns |-> IF a < n THEN Storage(patterns[a].cost) ELSE 0])

AbbreviationBytes(patterns, n) ==
  Total([a \in DOMAIN patterns |-> IF a <= n THEN Storage(patterns[a].cost) ELSE 0])

----------------------------------------------------------------------------
\* A text in pieces, an abbreviation between braces or a single character.
(* Mutant: goes on inside an abbreviation. *)
FinishedTextInside(text, parse, list) ==
  [i \in DOMAIN text |-> IF parse.picked[i] = 0 THEN [marked |-> FALSE, chars |-> <<text[i]>>]
                         ELSE [marked |-> TRUE, chars |-> list[parse.picked[i]].key]]

\* What is printed at a place: nothing inside an abbreviation.
FinishedStep(text, parse, list, at, i) ==
  IF i < at.next THEN at
  ELSE IF parse.picked[i] = 0
       THEN [next |-> i + 1, pieces |-> Append(at.pieces, [marked |-> FALSE, chars |-> <<text[i]>>])]
       ELSE LET key == list[parse.picked[i]].key
            IN  [next |-> i + Len(key), pieces |-> Append(at.pieces, [marked |-> TRUE, chars |-> key])]

FinishedText(text, parse, list) ==
  LET Step(at, i) == FinishedStep(text, parse, list, at, i)
  IN  FoldLeftDomain(Step, [next |-> 1, pieces |-> <<>>], text).pieces

\* High strings by unused slots from 11 down, then the others from 2 down.
FinishedOrder(texts, parses) ==
  LET With(packed, w) == Among([t \in DOMAIN texts |-> t],
                               {t \in DOMAIN texts : texts[t].packed = packed /\ parses[t].rounding = w})
  IN  FlattenSeq([i \in 1 .. 12 |-> With(TRUE, 12 - i)])
      \o FlattenSeq([i \in 1 .. 3 |-> With(FALSE, 3 - i)])

Finished(texts, parses, list) ==
  LET order == FinishedOrder(texts, parses)
  IN  [i \in DOMAIN order |->
        [text   |-> order[i],
         pieces |-> FinishedText(texts[order[i]].text, parses[order[i]], list)]]

----------------------------------------------------------------------------
(***************************************************************************)
(* Long strings that occur in several texts and could be printed by a      *)
(* routine: where they stand in their texts decides what it would cost.    *)
(***************************************************************************)
PositionIn(text, key) ==
  CASE text = key -> "full"
    [] text # key /\ IsAt(text, key, 1) -> "start"
    [] /\ ~IsAt(text, key, 1) /\ Len(text) >= Len(key)
       /\ IsAt(text, key, Len(text) - Len(key) + 1) -> "end"
    [] OTHER -> "inside"

Splits(positions) ==
  CASE positions = {"full"} -> 0
    [] positions \in SUBSET {"start", "end"} \ {{}} -> 1
    [] OTHER -> 2

PaddingCost(splits, version) ==
  CASE version <= 3 -> splits
    [] version \in 4 .. 7 -> 2 * splits
    [] OTHER -> 4 * splits

\* Bytes saved if every occurrence but one becomes a call.
Refactoring(alpha, version, texts, p) ==
  LET occurrences == IF p.occurrences # <<>> THEN p.occurrences ELSE Occurrences(texts, p.key)
      holding     == {t \in DOMAIN texts : occurrences[t] # {}}
      positions   == {PositionIn(texts[t].text, p.key) : t \in holding}
                     \union {"object" : t \in {u \in holding : texts[u].object}}
      cost        == ZstringCost(alpha, p.key)
      calls       == p.frequency - 1
      splits      == Splits(positions)
  IN  [key |-> p.key, frequency |-> p.frequency, positions |-> positions,
       saved |-> (calls * cost * 2 + 2) \div 3 - 3 * splits * calls - PaddingCost(splits, version)]

\* As the heap gives them, those that save anything.
Refactorings(alpha, version, texts, pats, heap) ==
  LET ids == Drained(pats, heap)
  IN  SelectSeq([i \in DOMAIN ids |-> Refactoring(alpha, version, texts, pats[ids[i]])],
                LAMBDA r : r.saved > 0)
=============================================================================

--------------------------- MODULE ZabbrevSearch ---------------------------
(***************************************************************************)
(* The search for abbreviations (search_for_abbreviations and main): read, *)
(* extract patterns, choose greedily from a heap with rescoring, refine    *)
(* with those left over, edit the keys chosen, print.                      *)
(*                                                                         *)
(* A pattern is known by the key it was extracted with; its record may get *)
(* another key later.  pats is the memory that heaps and lists point into. *)
(***************************************************************************)
EXTENDS ZabbrevReader, ZabbrevPatterns, ZabbrevOutput

CONSTANTS
  CommandLines,       \* the command lines to start with, sequences of strings
  Disk,               \* directories: a function from their paths
  CutoffLongPattern,  \* 20 in the program
  Oversample          \* 5 in the program

ASSUME ConstantsAssumption ==
  /\ "." \in DOMAIN Disk
  /\ CutoffLongPattern \in Nat /\ Oversample \in Nat

\* Arguments are strings, files bytes, a transcript lines of them; the words looked for
\* in the line that tells the size of a routine are those of the line.
ASSUME InputAssumption ==
  /\ CommandLines \subseteq Seq(STRING)
  /\ \A args \in CommandLines : \A i \in DOMAIN args : Number(args[i]) \in Nat
  /\ Number("--processed") \in Nat
  /\ \A d \in DOMAIN Disk :
       /\ Disk[d].gametext \in Seq(Seq(0 .. 255))
       /\ \A name \in DOMAIN Disk[d].dumps : Disk[d].dumps[name] \in Seq(0 .. 255)
       /\ Disk[d].zaps \in Seq([frequencies : BOOLEAN, bytes : Seq(0 .. 255)])
  /\ {SizeLine, SizeWord} \subseteq Seq(0 .. 255) /\ Places(SizeLine, SizeWord) # {}

VARIABLES
  settings,           \* what the command line asked for
  phase,              \* the step of the program
  files, place,       \* the files to read, and the next line or byte
  read,               \* texts, sizes of routines, version, style of output
  pats,               \* every pattern extracted
  heap,               \* max_heap
  refactor,           \* max_heap_refactor
  best,               \* best_candidates
  parses,             \* what the last parse left in each text
  savings,            \* total_savings
  previousSavings,    \* previous_savings
  latestBytes,        \* latest_total_bytes
  previousBytes,      \* previous_total_bytes
  longest,            \* max_abbrev_length
  passes,             \* runners-up tried
  cursor,             \* the next of the edits
  output              \* what is printed

found == <<pats, heap, refactor>>
totals == <<savings, previousSavings, latestBytes, previousBytes>>
progress == <<longest, passes, cursor>>
reading == <<files, place, read>>
vars == <<settings, phase, reading, found, best, parses, totals, progress, output>>

Texts == read.texts
N == settings.abbrevs

NothingPrinted == [list |-> <<>>, wild |-> FALSE, finished |-> <<>>, refactorings |-> <<>>]

Init ==
  /\ \E args \in CommandLines : settings = Options(args, Disk)
  /\ phase = "open"
  /\ files = <<>> /\ place = 1 /\ read = Nothing(settings)
  /\ pats = [key \in {} |-> {}] /\ heap = <<>> /\ refactor = <<>>
  /\ best = <<>> /\ parses = <<>>
  /\ savings = 0 /\ previousSavings = 0 /\ latestBytes = 0 /\ previousBytes = 0
  /\ longest = 0 /\ passes = 0 /\ cursor = 1
  /\ output = NothingPrinted

----------------------------------------------------------------------------
(***************************************************************************)
(* A rescoring of a list: new numbers in its patterns, a new parse of all  *)
(* texts, and the totals.                                                  *)
(***************************************************************************)
Results(memory, list, r) ==
  [pats    |-> [p \in DOMAIN memory |->
                 IF p \in Range(list) THEN r.list[CHOOSE a \in DOMAIN list : list[a] = p]
                 ELSE memory[p]],
   parses  |-> r.parses,
   savings |-> r.savings,
   bytes   |-> r.bytes]

Scoring(memory, list) ==
  Results(memory, list, Rescore(settings.alpha, read.version, Texts, read.sizes,
                                [a \in DOMAIN list |-> memory[list[a]]]))

\* The numbers and the parse that a rescoring leaves behind.
Leave(r) == pats' = r.pats /\ parses' = r.parses

\* Strings in high memory are filled up to whole words of the units packed addresses count.
RoundingNumber(packed, version) ==
  IF ~packed \/ version <= 3 THEN 3 ELSE IF version = 8 THEN 12 ELSE 6

OpenFiles ==
  /\ phase = "open"
  /\ LET dir == Disk[settings.directory]
     IN  IF Missing(settings, dir)
         THEN phase' = "failed" /\ UNCHANGED files
         ELSE phase' = "read" /\ files' = Files(settings, dir)
  /\ UNCHANGED <<settings, place, read, found, best, parses, totals, progress, output>>

ReadNext ==
  /\ phase = "read" /\ files # <<>> /\ place <= Len(Head(files).data)
  /\ read' = ReadItem(read, Head(files), place, settings.detect)
  /\ place' = place + 1
  /\ UNCHANGED <<settings, phase, files, found, best, parses, totals, progress, output>>

CloseFile ==
  /\ phase = "read" /\ files # <<>> /\ place > Len(Head(files).data)
  /\ files' = Tail(files) /\ place' = 1
  /\ read' = Afresh(read)
  /\ UNCHANGED <<settings, phase, found, best, parses, totals, progress, output>>

EndReading ==
  /\ phase = "read" /\ files = <<>>
  /\ read' = [read EXCEPT
                !.inform = Style(settings, read),
                !.texts  = [t \in DOMAIN read.texts |->
                  [read.texts[t] EXCEPT !.unit = RoundingNumber(read.texts[t].packed, read.version)]]]
  /\ phase' = IF read.texts = <<>> THEN "failed" ELSE "extract"
  /\ UNCHANGED <<settings, files, place, found, best, parses, totals, progress, output>>

(***************************************************************************)
(* Patterns into the heap.  Of the long ones only those that are not what  *)
(* is left of another long one, or dropped one, without its end or start.  *)
(***************************************************************************)
LongOnes(memory, long) ==
  LET byLength == [id \in DOMAIN memory |-> [memory[id] EXCEPT !.savings = Len(id)]]
      Step(at, id) ==
        LET shorter == at.shorter \union {Tail(id), Front(id)}
        IN  [shorter |-> shorter,
             kept    |-> IF id \in shorter THEN at.kept ELSE Append(at.kept, id)]
  IN  FoldLeft(Step, [shorter |-> {}, kept |-> <<>>],
               Drained(byLength, PushAll(byLength, <<>>, long))).kept

Extract ==
  /\ phase = "extract"
  /\ LET memory == ExtractPatterns(settings.alpha, Texts)
         table  == InTableOrder(DOMAIN memory)
         low    == {id \in DOMAIN memory : Len(id) <= CutoffLongPattern}
         short  == Among(table, low)
         long   == LongOnes(memory, Among(table, DOMAIN memory \ low))
     IN  /\ pats' = memory
         /\ heap' = PushAll(memory, PushAll(memory, <<>>, short), long)
         /\ refactor' = PushAll(memory, <<>>, long)
  /\ phase' = IF settings.onlyRefactor THEN "output" ELSE "greedy"
  /\ UNCHANGED <<settings, reading, best, parses, totals, progress, output>>

----------------------------------------------------------------------------
(***************************************************************************)
(* Greedy choice.  The top of the heap is tried with the list; if it gains *)
(* less than the next one promises it goes back with what it gained.       *)
(***************************************************************************)
Target == N + (IF settings.throwback THEN Oversample ELSE 0)

(* Mutant: one more than was asked for. *)
ChoosingOneMore == phase = "greedy" /\ heap # <<>> /\ Len(best) <= Target

Choosing == phase = "greedy" /\ heap # <<>> /\ Len(best) < Target

Candidate == Peek(heap)
Others == Popped(pats, heap)
Tried == Scoring(pats, Append(best, Candidate))
Gain == Tried.savings - previousSavings
Beaten == Others # <<>> /\ Gain < pats[Peek(Others)].savings

PutBack ==
  /\ Choosing /\ Beaten
  /\ pats' = [Tried.pats EXCEPT ![Candidate].savings = Gain]
  /\ heap' = Push(pats', Others, Candidate)
  /\ parses' = Tried.parses
  /\ UNCHANGED <<settings, phase, reading, refactor, best, totals, progress, output>>

Accept ==
  /\ Choosing /\ ~Beaten /\ ~settings.throwback
  /\ pats' = Tried.pats /\ heap' = Others
  /\ best' = Append(best, Candidate)
  /\ parses' = Tried.parses
  /\ savings' = Tried.savings /\ previousSavings' = Tried.savings
  /\ UNCHANGED <<settings, phase, reading, refactor, latestBytes, previousBytes, progress, output>>

(* Mutant: also those that save as much. *)
NoBetter(memory, a, gain) == memory[a].savings <= gain

\* Those that now save less than the one accepted.
Low(memory, a, gain) == memory[a].savings < gain

Lower(memory, gain) == {a \in Range(best) : Low(memory, a, gain)}

(* Mutant: also those that save as much, which stay in the list too. *)
ThrownBackTwice(memory, gain) ==
  Among(Reverse(best), {a \in Range(best) : memory[a].savings <= gain})

ThrownBack(memory, gain) == Among(Reverse(best), Lower(memory, gain))

\* With throwback they go back to the heap.
AcceptAndThrowBack ==
  /\ Choosing /\ ~Beaten /\ settings.throwback
  /\ LET back    == ThrownBack(Tried.pats, Gain)
         kept    == Append(Among(best, Range(best) \ Lower(Tried.pats, Gain)), Candidate)
         again   == Scoring(Tried.pats, kept)
     IN  /\ heap' = PushAll(Tried.pats, Others, back)
         /\ best' = kept
         /\ IF back = <<>>
            THEN /\ pats' = Tried.pats /\ parses' = Tried.parses
                 /\ previousSavings' = Tried.savings
            ELSE /\ pats' = again.pats /\ parses' = again.parses
                 /\ previousSavings' = again.savings
  /\ savings' = Tried.savings
  /\ UNCHANGED <<settings, phase, reading, refactor, latestBytes, previousBytes, progress, output>>

\* The sizes are measured with all that were chosen, then the list is cut to N.
EndChoice ==
  /\ phase = "greedy" /\ ~Choosing
  /\ LET r    == Scoring(pats, best)
         kept == SubSeq(best, 1, IF Len(best) < N THEN Len(best) ELSE N)
         over == SubSeq(best, Len(kept) + 1, Len(best))
         lengths == {Len(r.pats[a].key) : a \in Range(kept)} \intersect 0 .. CutoffLongPattern
     IN  /\ Leave(r)
         /\ latestBytes' = r.bytes
         /\ best' = kept
         /\ heap' = PushAll(r.pats, heap, Reverse(over))
         /\ IF settings.level > 1
            THEN /\ phase' = "refine"
                 /\ previousBytes' = r.bytes
                 /\ longest' = 2 + (IF lengths = {} THEN 0 ELSE Max(lengths))
            ELSE /\ phase' = IF settings.level = 1 THEN "edits" ELSE "output"
                 /\ UNCHANGED <<previousBytes, longest>>
  /\ UNCHANGED <<settings, reading, refactor, savings, previousSavings, passes, cursor, output>>

----------------------------------------------------------------------------
(***************************************************************************)
(* Refinement: each pattern left over, the best first, in the place of     *)
(* those chosen.                                                           *)
(***************************************************************************)
Refining == phase = "refine" /\ passes < settings.passes /\ heap # <<>>

RunnerUp == Peek(heap)

SkipRunnerUp ==
  /\ Refining /\ Len(pats[RunnerUp].key) > longest
  /\ heap' = Popped(pats, heap)
  /\ UNCHANGED <<settings, phase, reading, pats, refactor, best, parses, totals, progress, output>>

InPlace(i) == [best EXCEPT ![i] = RunnerUp]

Tries == [pats |-> pats, parses |-> parses, latest |-> latestBytes,
          index |-> 0, total |-> previousBytes]

(* Mutant: does not remember the total. *)
TryInPlaceForgetting(at, i) ==
  LET r == Scoring(at.pats, InPlace(i))
      now == [at EXCEPT !.pats = r.pats, !.parses = r.parses, !.latest = r.bytes]
  IN  IF r.bytes < at.total THEN [now EXCEPT !.index = i] ELSE now

\* One replacement tried, and remembered if it makes the smallest total so far.
TryInPlace(at, i) ==
  LET r == Scoring(at.pats, InPlace(i))
      now == [at EXCEPT !.pats = r.pats, !.parses = r.parses, !.latest = r.bytes]
  IN  IF r.bytes < at.total THEN [now EXCEPT !.index = i, !.total = r.bytes] ELSE now

Deep == settings.level > 2 /\ passes + 1 < settings.deepPasses

Replaced(tried) ==
  /\ best' = IF tried.index = 0 THEN best ELSE InPlace(tried.index)
  /\ pats' = tried.pats /\ parses' = tried.parses
  /\ latestBytes' = tried.latest /\ previousBytes' = tried.total
  /\ heap' = Popped(pats, heap)
  /\ passes' = passes + 1
  /\ UNCHANGED <<settings, phase, reading, refactor, savings, previousSavings, longest, cursor, output>>

\* Every place is tried, the best of them is taken.
RefineDeep ==
  /\ Refining /\ Deep /\ Len(pats[RunnerUp].key) <= longest
  /\ Replaced(FoldLeftDomain(TryInPlace, Tries, best))

Overlap(s, t) == Places(s, t) # {} \/ Places(t, s) # {}

\* The places of patterns that contain it or that it contains, up to the first that gains.
RefineOverlapping ==
  /\ Refining /\ ~Deep /\ Len(pats[RunnerUp].key) <= longest
  /\ LET Try(at, i) == IF at.index = 0 /\ Overlap(pats[RunnerUp].key, pats[best[i]].key)
                       THEN TryInPlace(at, i) ELSE at
     IN  Replaced(FoldLeftDomain(Try, Tries, best))

EndRefinement ==
  /\ phase = "refine" /\ ~Refining
  /\ LET r == Scoring(pats, best)
     IN  Leave(r) /\ savings' = r.savings
  /\ latestBytes' = previousBytes
  /\ phase' = "edits"
  /\ UNCHANGED <<settings, reading, heap, refactor, best, previousSavings, previousBytes,
                 progress, output>>

----------------------------------------------------------------------------
(***************************************************************************)
(* Edits: twice, for each pattern chosen, a space less or more in front,   *)
(* then at the end, then a character less at either side, then two.        *)
(***************************************************************************)
StartEdits ==
  /\ phase = "edits"
  /\ LET r == Scoring(pats, best)
     IN  Leave(r) /\ previousBytes' = r.bytes
  /\ phase' = "edit"
  /\ UNCHANGED <<settings, reading, heap, refactor, best, savings, previousSavings, latestBytes,
                 progress, output>>

Edits ==
  LET Each(kinds) == FlattenSeq([i \in DOMAIN best |->
                       [k \in DOMAIN kinds |-> [kind |-> kinds[k], place |-> i]]])
      round == Each(<<"space in front">>) \o Each(<<"space at the end">>)
               \o Each(<<"first", "last">>) \o Each(<<"first two", "last two">>)
  IN  round \o round

Cut(kind) == IF kind \in {"first", "last"} THEN 1 ELSE 2

Applies(kind, key) == kind \in {"space in front", "space at the end"} \/ Len(key) > Cut(kind)

EditedKey(kind, key) ==
  CASE kind = "space in front" ->
         IF Head(key) = Space /\ Len(key) > 1 THEN Tail(key) ELSE <<Space>> \o key
    [] kind = "space at the end" ->
         IF Last(key) = Space /\ Len(key) > 1 THEN Front(key) ELSE Append(key, Space)
    [] kind \in {"first", "first two"} -> SubSeq(key, Cut(kind) + 1, Len(key))
    [] kind \in {"last", "last two"} -> SubSeq(key, 1, Len(key) - Cut(kind))

\* A space costs one; when characters are cut the cost is counted again.
EditedCost(kind, p) ==
  LET key == EditedKey(kind, p.key)
  IN  IF kind \in {"space in front", "space at the end"}
      THEN IF Len(key) > Len(p.key) THEN p.cost + 1 ELSE p.cost - 1
      ELSE ZstringCost(settings.alpha, key)

Editing == phase = "edit" /\ cursor <= Len(Edits)

SkipEdit ==
  /\ Editing /\ ~Applies(Edits[cursor].kind, pats[best[Edits[cursor].place]].key)
  /\ cursor' = cursor + 1
  /\ UNCHANGED <<settings, phase, reading, found, best, parses, totals, longest, passes, output>>

(* Mutant: the occurrences stay those of the edited key. *)
RestoredKey(memory, id, p) == [memory EXCEPT ![id].key = p.key, ![id].cost = p.cost]

Restored(memory, id, p) ==
  [memory EXCEPT ![id].key = p.key, ![id].cost = p.cost,
                 ![id].occurrences = Occurrences(Texts, p.key)]

\* The edit stays if the total shrinks, else key, cost and occurrences are put back.
Edit ==
  /\ Editing
  /\ LET kind   == Edits[cursor].kind
         id     == best[Edits[cursor].place]
         p      == pats[id]
         key    == EditedKey(kind, p.key)
         edited == [pats EXCEPT ![id].key = key, ![id].cost = EditedCost(kind, p),
                                ![id].occurrences = Occurrences(Texts, key)]
         r      == Scoring(edited, best)
     IN  /\ Applies(kind, p.key)
         /\ parses' = r.parses
         /\ latestBytes' = r.bytes
         /\ IF r.bytes < previousBytes
            THEN pats' = r.pats /\ previousBytes' = r.bytes
            ELSE pats' = Restored(r.pats, id, p) /\ UNCHANGED previousBytes
  /\ cursor' = cursor + 1
  /\ UNCHANGED <<settings, phase, reading, heap, refactor, best, savings, previousSavings,
                 longest, passes, output>>

EndEdits ==
  /\ phase = "edit" /\ ~Editing
  /\ LET r == Scoring(pats, best)
     IN  Leave(r) /\ savings' = r.savings
  /\ latestBytes' = previousBytes
  /\ phase' = "output"
  /\ UNCHANGED <<settings, reading, heap, refactor, best, previousSavings, previousBytes,
                 progress, output>>

----------------------------------------------------------------------------
(***************************************************************************)
(* Output.  The savings reported are of the patterns printed.              *)
(***************************************************************************)
PrintRefactorings ==
  IF settings.verbose \/ settings.onlyRefactor
  THEN Refactorings(settings.alpha, read.version, Texts, pats', refactor) ELSE <<>>

PrintAbbreviations ==
  /\ phase = "output" /\ ~settings.onlyRefactor
  /\ LET r        == Scoring(pats, best)
         patterns == [a \in DOMAIN best |-> r.pats[best[a]]]
         listing  == Listing(patterns, N, read.inform)
     IN  /\ Leave(r)
         /\ savings' = Total([a \in DOMAIN best |-> IF a <= N THEN patterns[a].savings ELSE 0])
         /\ output' = [list |-> listing.list, wild |-> listing.wild,
                       finished |-> IF settings.verbose THEN Finished(Texts, r.parses, patterns)
                                    ELSE <<>>,
                       refactorings |-> PrintRefactorings]
  /\ phase' = "done"
  /\ UNCHANGED <<settings, reading, heap, refactor, best, previousSavings, latestBytes,
                 previousBytes, progress>>

PrintOnlyRefactorings ==
  /\ phase = "output" /\ settings.onlyRefactor
  /\ pats' = pats
  /\ output' = [output EXCEPT !.refactorings = PrintRefactorings]
  /\ phase' = "done"
  /\ UNCHANGED <<settings, reading, heap, refactor, best, parses, totals, progress>>

Reading == OpenFiles \/ ReadNext \/ CloseFile \/ EndReading
Greedy == PutBack \/ Accept \/ AcceptAndThrowBack \/ EndChoice
Refine == SkipRunnerUp \/ RefineDeep \/ RefineOverlapping \/ EndRefinement
EditKeys == StartEdits \/ SkipEdit \/ Edit \/ EndEdits
Report == PrintAbbreviations \/ PrintOnlyRefactorings

Stopped == phase \in {"done", "failed"} /\ UNCHANGED vars

Next == Reading \/ Extract \/ Greedy \/ Refine \/ EditKeys \/ Report \/ Stopped

\* One thread that goes on as long as it can, which is until it has stopped.
Fairness == []<>(phase \in {"done", "failed"}) \/ []<><<Next>>_vars

Spec == Init /\ [][Next]_vars /\ Fairness

----------------------------------------------------------------------------
(***************************************************************************)
(* Properties.                                                             *)
(***************************************************************************)
Phases == {"open", "read", "extract", "greedy", "refine", "edits", "edit", "output", "done", "failed"}

\* Types: lists and heaps name patterns, a finished parse covers every text, and
\* the list of candidates never outgrows its target.
TypeOK ==
  /\ phase \in Phases
  /\ Range(heap) \union Range(refactor) \union Range(best) \subseteq DOMAIN pats
  /\ parses # <<>> => DOMAIN parses = DOMAIN Texts
  /\ \A p \in DOMAIN pats : /\ Len(pats[p].key) > 0
                            /\ pats[p].cost \in Nat /\ pats[p].frequency \in Nat
                            /\ pats[p].savings \in Int
  /\ {savings, previousSavings, latestBytes, previousBytes} \subseteq Int
  /\ Len(best) <= Target /\ passes <= settings.passes /\ cursor \in Nat

\* Every string that occurs twice and is worth an abbreviation is found with the number
\* of its places, overlapping ones too: nothing is lost between sorting suffixes, common
\* prefixes and counting, if the last character of the game is a special one: where the
\* game ends is not sorted alike in all rounds.
Everywhere(key) == Total([t \in DOMAIN Texts |-> Cardinality(Occurrences(Texts, key)[t])])

Substrings ==
  UNION {{SubSeq(Texts[t].text, i, j) : i, j \in DOMAIN Texts[t].text} : t \in DOMAIN Texts} \ {<<>>}

Extracted == phase = "greedy" /\ best = <<>> /\ parses = <<>>

PatternsComplete ==
  Extracted /\ Everywhere(<<Last(Last(Texts).text)>>) = 1 =>
    /\ DOMAIN pats = {key \in Substrings : /\ AtSign \notin Range(key)
                                           /\ Viable(Everywhere(key), ZstringCost(settings.alpha, key))}
    /\ \A key \in DOMAIN pats : pats[key].frequency = Everywhere(key)

\* The count is of occurrences, as suffix_array.h says of sa_count.
CountsTrue == Extracted => \A key \in DOMAIN pats : pats[key].frequency = Everywhere(key)

\* Until refinement drops them, every short pattern is in the heap or chosen, once:
\* going back to the heap with a new score, throwing back and cutting the list to
\* its length lose none and double none.
NoneLost ==
  phase \in {"greedy", "refine"} /\ passes = 0 =>
    /\ \A p \in DOMAIN pats : Len(p) <= CutoffLongPattern /\ phase = "greedy"
                              => p \in Range(heap) \union Range(best)
    /\ Cardinality(Range(heap \o best)) = Len(heap \o best)

\* The top of the heap is the greatest although savings change all the time: a
\* pattern changes only while it is out of the heap.
HeapOrdered == \A i \in 2 .. Len(heap) : ~Above(pats, heap[i], heap[i \div 2])

\* While scores change and candidates come and go, the heap has what is not chosen,
\* once, with the greatest on top.
HeapSound == NoneLost /\ HeapOrdered

\* What is kept of a pattern that is chosen is true of the key it has now: places,
\* cost, and after a parse its savings.
CachesCurrent ==
  phase \in {"greedy", "refine", "edit", "output", "done"} =>
    \A a \in Range(best) :
      /\ pats[a].cost = ZstringCost(settings.alpha, pats[a].key)
      /\ pats[a].occurrences = Occurrences(Texts, pats[a].key)

\* No way to print a text with the abbreviations costs less than what the parse says,
\* and what the parse picks costs that much: the cheapest ways to print its beginnings,
\* each ending in a character or in an abbreviation, come to the same.
Cheapest(text) ==
  LET Ending(i) == {a \in DOMAIN best : LET key == pats[best[a]].key
                                        IN  i >= Len(key) /\ IsAt(text, key, i - Len(key) + 1)}
      least[i \in 0 .. Len(text)] ==
        IF i = 0 THEN 0
        ELSE Min({least[i - 1] + ZcharCost(settings.alpha, text[i])}
                 \union {least[i - Len(pats[best[a]].key)] + ReferenceCost : a \in Ending(i)})
  IN  least[Len(text)]

PrintedCost(pieces) ==
  Total([p \in DOMAIN pieces |-> IF pieces[p].marked THEN ReferenceCost
                                 ELSE ZstringCost(settings.alpha, pieces[p].chars)])

ParseIsLeast ==
  phase = "done" /\ ~settings.onlyRefactor =>
    \A t \in DOMAIN Texts :
      LET pieces == FinishedText(Texts[t].text, parses[t], [a \in DOMAIN best |-> pats[best[a]]])
      IN  parses[t].minimal = Cheapest(Texts[t].text) /\ parses[t].minimal = PrintedCost(pieces)

\* The savings reported are the Z-characters by which the texts shrink, less those
\* that the abbreviations take themselves: nothing is counted twice, and frequencies
\* are those of the parse.
SavingsTrue ==
  phase = "done" /\ ~settings.onlyRefactor =>
    savings = Total([t \in DOMAIN Texts |->
                      ZstringCost(settings.alpha, Texts[t].text) - parses[t].minimal])
              - Total([a \in DOMAIN best |-> RoundUpTo(pats[best[a]].cost, 3)])

\* The sizes printed by unused slots add up to the size the edits ended with, less
\* what routines are filled up with.
SizesAgree ==
  phase = "done" /\ settings.level > 0 /\ ~settings.onlyRefactor =>
    LET statistics == Statistics(Texts, parses)
        patterns   == [a \in DOMAIN best |-> pats[best[a]]]
    IN  StringBytes(statistics) + AbbreviationBytes(patterns, N)
          + TotalPadding(read.version, Texts, parses, read.sizes) = latestBytes

\* Each text is printed once, and without its braces it is the text.
FinishedIsText ==
  phase = "done" /\ settings.verbose /\ ~settings.onlyRefactor =>
    /\ Len(output.finished) = Len(Texts)
    /\ \A t \in DOMAIN Texts : \E i \in DOMAIN output.finished :
         /\ output.finished[i].text = t
         /\ FlattenSeq([p \in DOMAIN output.finished[i].pieces |-> output.finished[i].pieces[p].chars])
              = Texts[t].text

\* The size that an edit or a replacement is compared with is that of the list as it
\* is. Lists that were cut are left out: the code takes the size for them before it cuts
\* (zabbrev.c:1336, 1347), so that the first replacement may make the story longer.
Cuts == settings.throwback /\ phase = "refine"

BaselineTrue ==
  phase \in {"refine", "edit"} /\ ~Cuts => previousBytes = Scoring(pats, best).bytes

\* The search comes to an end: candidates do not go round between the list and the
\* heap for ever.
Terminates == <>(phase \in {"done", "failed"})
=============================================================================

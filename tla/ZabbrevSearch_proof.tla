------------------------ MODULE ZabbrevSearch_proof -------------------------
(***************************************************************************)
(* The invariants of the search for abbreviations (ZabbrevSearch).         *)
(***************************************************************************)
EXTENDS Zabbrev_proof

----------------------------------------------------------------------------
(* The state of the search.                                                *)

\* What was read.
ReadOK ==
  /\ Readable(Texts) /\ read.version \in Int /\ read.sizes \in Seq(Nat)

\* Places of a key in all texts.
Everyplace(p, mem) == mem[p].occurrences = Occurrences(Texts, mem[p].key)

\* The size of the texts with a list of patterns.
SizeOf(mem, list) == Size(settings.alpha, read.version, Texts, read.sizes, KeysOf(mem, list))

\* The memory after another list was scored: keys and costs are the same.
After(mem, list, new) ==
  /\ DOMAIN new = DOMAIN mem
  /\ \A p \in DOMAIN mem : new[p].key = mem[p].key /\ new[p].cost = mem[p].cost
  /\ \A p \in DOMAIN mem \ Range(list) : new[p] = mem[p]
  /\ \A p \in Range(list) : Everyplace(p, new)
  /\ Current(settings.alpha, Texts, new)

(* What a scoring leaves.                                                  *)
LEMMA ScoringFacts ==
  ASSUME ReadOK, NEW mem, Current(settings.alpha, Texts, mem), NEW list \in Seq(DOMAIN mem)
  PROVE  LET r == Scoring(mem, list)
         IN  /\ After(mem, list, r.pats)
             /\ r.bytes = SizeOf(mem, list) /\ r.bytes \in Nat
             /\ DOMAIN r.parses = DOMAIN Texts
             /\ r.savings \in Int
<1> DEFINE r == Scoring(mem, list)
           keys == KeysOf(mem, list)
<1>1. PICK alpha, version, texts, sizes :
        alpha = settings.alpha /\ version = read.version /\ texts = Texts /\ sizes = read.sizes
  OBVIOUS
<1>2. r = Scan(alpha, version, texts, sizes, mem, list)
  BY <1>1, Zenon DEF Scoring, Scan, PatternsOfList
<1>3. Readable(texts) /\ Current(alpha, texts, mem) /\ version \in Int /\ sizes \in Seq(Nat)
  BY <1>1 DEF ReadOK
<1> HIDE DEF r
<1>4. /\ Scanned(alpha, texts, mem, list, r.pats)
      /\ r.bytes = Size(alpha, version, texts, sizes, keys)
      /\ r.parses = ParseAll(alpha, texts, SeenOf(alpha, texts, keys))
      /\ r.savings \in Int
  BY <1>2, <1>3, ScanFacts, ScanSavings
<1>5. DOMAIN r.parses = DOMAIN texts
  <2>1. r.parses = ParseAll(alpha, texts, SeenOf(alpha, texts, keys))
    BY <1>4
  <2> QED BY <2>1, Zenon DEF ParseAll
<1>6. After(mem, list, r.pats)
  <2>1. \A p \in Range(list) : p \in DOMAIN mem
    BY DEF Range
  <2> QED BY <1>1, <1>4, <2>1 DEF After, Scanned, Everyplace
<1>7. r.bytes \in Nat
  <2>1. PICK n \in Nat : DOMAIN list = 1 .. n
    OBVIOUS
  <2>2. DOMAIN keys = 1 .. n /\ \A a \in 1 .. n : keys[a] = mem[list[a]].key
    BY <2>1, Zenon DEF KeysOf
  <2>3. \A a \in 1 .. n : keys[a] \in Seq(Int) \ {<<>>}
    BY <1>3, <2>1, <2>2 DEF Current, IsPattern
  <2> HIDE DEF keys
  <2>4. Size(alpha, version, texts, sizes, keys) \in Nat
    BY <1>3, <2>2, <2>3, SizeFacts
  <2> QED BY <1>4, <2>4
<1>8. r.bytes = SizeOf(mem, list)
  BY <1>1, <1>4 DEF SizeOf
<1> QED BY <1>1, <1>4, <1>5, <1>6, <1>7, <1>8 DEF r

(* Only keys make the size.                                                *)
LEMMA SameSize ==
  ASSUME NEW mem, NEW new, NEW list \in Seq(DOMAIN mem),
         \A p \in DOMAIN mem : new[p].key = mem[p].key
  PROVE  SizeOf(new, list) = SizeOf(mem, list)
<1>1. \A a \in DOMAIN list : list[a] \in DOMAIN mem
  OBVIOUS
<1>2. KeysOf(new, list) = KeysOf(mem, list)
  BY <1>1, Zenon DEF KeysOf
<1> QED BY <1>2 DEF SizeOf

----------------------------------------------------------------------------
(* Replacements that are tried.                                            *)

\* Every pattern that may be scored now is in the list or the runner-up.
Trying ==
  /\ ReadOK /\ Current(settings.alpha, Texts, pats)
  /\ best \in Seq(DOMAIN pats) /\ RunnerUp \in DOMAIN pats
  /\ \A p \in Range(best) : Everyplace(p, pats)
  /\ previousBytes \in Nat /\ latestBytes \in Nat
  /\ parses # <<>> => DOMAIN parses = DOMAIN Texts

\* What is known after some tries.
TriedOK(st) ==
  /\ DOMAIN st = {"pats", "parses", "latest", "index", "total"}
  /\ DOMAIN st.pats = DOMAIN pats /\ Current(settings.alpha, Texts, st.pats)
  /\ \A p \in DOMAIN pats : st.pats[p].key = pats[p].key
  /\ \A p \in DOMAIN pats \ (Range(best) \union {RunnerUp}) : st.pats[p] = pats[p]
  /\ \A p \in Range(best) : Everyplace(p, st.pats)
  /\ st.index \in 0 .. Len(best) /\ st.total \in Nat /\ st.latest \in Nat
  /\ st.index = 0 => st.total = previousBytes
  /\ st.index # 0 => Everyplace(RunnerUp, st.pats) /\ st.total = SizeOf(pats, InPlace(st.index))
  /\ st.parses # <<>> => DOMAIN st.parses = DOMAIN Texts

(* Before any.                                                             *)
LEMMA TriesStart ==
  ASSUME Trying
  PROVE  TriedOK(Tries)
<1>1. PICK st : st = Tries
  OBVIOUS
<1>2. /\ DOMAIN st = {"pats", "parses", "latest", "index", "total"}
      /\ st.pats = pats /\ st.parses = parses /\ st.latest = latestBytes
      /\ st.index = 0 /\ st.total = previousBytes
  BY <1>1 DEF Tries
<1>3. 0 \in 0 .. Len(best)
  BY DEF Trying
<1>4. TriedOK(st)
  BY <1>2, <1>3 DEF TriedOK, Trying
<1> QED BY <1>1, <1>4

(* The list with the runner-up in some place.                              *)
LEMMA InPlaceFacts ==
  ASSUME Trying, NEW i \in DOMAIN best
  PROVE  /\ InPlace(i) \in Seq(DOMAIN pats) /\ Len(InPlace(i)) = Len(best)
         /\ DOMAIN InPlace(i) = DOMAIN best
         /\ Range(InPlace(i)) \subseteq Range(best) \union {RunnerUp}
         /\ RunnerUp \in Range(InPlace(i))
         /\ Once(best) /\ RunnerUp \notin Range(best) => Once(InPlace(i))
<1>1. PICK s, e : s = best /\ e = RunnerUp
  OBVIOUS
<1>2. PICK D : D = DOMAIN pats
  OBVIOUS
<1>3. s \in Seq(D) /\ e \in D
  BY <1>1, <1>2 DEF Trying
<1>4. PICK t : t = [s EXCEPT ![i] = e]
  OBVIOUS
<1>5. PICK n \in Nat : n = Len(s) /\ DOMAIN s = 1 .. n
  BY <1>3
<1>6. i \in 1 .. n
  BY <1>1, <1>5
<1>7. t \in Seq(D) /\ Len(t) = n /\ DOMAIN t = 1 .. n /\ \A k \in 1 .. n : t[k] = IF k = i THEN e ELSE s[k]
  BY <1>3, <1>4, <1>5, <1>6
<1>8. Range(t) \subseteq Range(s) \union {e} /\ e \in Range(t)
  BY <1>5, <1>6, <1>7 DEF Range
<1>9. Once(s) /\ e \notin Range(s) => Once(t)
  BY <1>5, <1>6, <1>7 DEF Once, Range
<1>10. t = InPlace(i)
  BY <1>1, <1>4 DEF InPlace
<1> HIDE DEF InPlace
<1> QED BY <1>1, <1>2, <1>5, <1>7, <1>8, <1>9, <1>10

(* One more try.                                                           *)
LEMMA TryFacts ==
  ASSUME Trying, NEW st, TriedOK(st), NEW i \in DOMAIN best
  PROVE  TriedOK(TryInPlace(st, i))
<1>1. PICK mem : mem = st.pats
  OBVIOUS
<1>2. PICK list : list = InPlace(i)
  OBVIOUS
<1>3. /\ list \in Seq(DOMAIN mem) /\ Range(list) \subseteq Range(best) \union {RunnerUp}
      /\ RunnerUp \in Range(list) /\ list \in Seq(DOMAIN pats)
  <2>1. DOMAIN mem = DOMAIN pats
    BY <1>1 DEF TriedOK
  <2> HIDE DEF InPlace
  <2> QED BY <1>2, <2>1, InPlaceFacts
<1>4. PICK r : r = Scoring(mem, list)
  OBVIOUS
<1>5. /\ After(mem, list, r.pats) /\ r.bytes = SizeOf(mem, list) /\ r.bytes \in Nat
      /\ DOMAIN r.parses = DOMAIN Texts
  BY <1>1, <1>3, <1>4, ScoringFacts DEF Trying, TriedOK
<1>6. PICK now : now = [[[st EXCEPT !.pats = r.pats] EXCEPT !.parses = r.parses] EXCEPT !.latest = r.bytes]
  OBVIOUS
<1>7. TryInPlace(st, i) = IF r.bytes < st.total THEN [[now EXCEPT !.index = i] EXCEPT !.total = r.bytes] ELSE now
  <2>1. now = [st EXCEPT !.pats = r.pats, !.parses = r.parses, !.latest = r.bytes]
    BY <1>6, Zenon
  <2>2. st.total = now.total
    BY <1>6 DEF TriedOK
  <2> HIDE DEF InPlace
  <2> QED BY <1>1, <1>2, <1>4, <2>1, <2>2, Zenon DEF TryInPlace
<1>8. /\ DOMAIN now = {"pats", "parses", "latest", "index", "total"}
      /\ now.pats = r.pats /\ now.parses = r.parses /\ now.latest = r.bytes
      /\ now.index = st.index /\ now.total = st.total
  BY <1>6 DEF TriedOK
<1>9. /\ DOMAIN r.pats = DOMAIN pats /\ Current(settings.alpha, Texts, r.pats)
      /\ \A p \in DOMAIN pats : r.pats[p].key = pats[p].key
      /\ \A p \in DOMAIN pats \ (Range(best) \union {RunnerUp}) : r.pats[p] = pats[p]
  BY <1>1, <1>3, <1>5 DEF After, TriedOK
<1>10. Everyplace(RunnerUp, r.pats) /\ \A p \in Range(best) : Everyplace(p, r.pats)
  <2>1. Everyplace(RunnerUp, r.pats)
    BY <1>3, <1>5 DEF After
  <2>2. ASSUME NEW p \in Range(best) PROVE Everyplace(p, r.pats)
    <3>1. CASE p \in Range(list)
      BY <1>5, <3>1 DEF After
    <3>2. CASE p \notin Range(list)
      <4>1. p \in DOMAIN pats /\ DOMAIN mem = DOMAIN pats
        BY <1>1 DEF Trying, TriedOK, Range
      <4>2. r.pats[p] = mem[p]
        BY <1>5, <3>2, <4>1 DEF After
      <4> QED BY <1>1, <4>2 DEF TriedOK, Everyplace
    <3> QED BY <3>1, <3>2
  <2> QED BY <2>1, <2>2
<1>11. SizeOf(mem, list) = SizeOf(pats, InPlace(i))
  <2>1. \A p \in DOMAIN pats : mem[p].key = pats[p].key
    BY <1>1 DEF TriedOK
  <2> HIDE DEF InPlace
  <2> QED BY <1>2, <1>3, <2>1, SameSize
<1>12. CASE r.bytes < st.total
  <2>1. PICK q : q = [[now EXCEPT !.index = i] EXCEPT !.total = r.bytes]
    OBVIOUS
  <2>2. /\ DOMAIN q = {"pats", "parses", "latest", "index", "total"}
        /\ q.pats = r.pats /\ q.parses = r.parses /\ q.latest = r.bytes
        /\ q.index = i /\ q.total = r.bytes
    BY <1>8, <2>1
  <2>3. i \in 0 .. Len(best) /\ i # 0
    BY DEF Trying
  <2> HIDE DEF InPlace
  <2>4. TriedOK(q)
    BY <1>5, <1>9, <1>10, <1>11, <2>2, <2>3 DEF TriedOK
  <2> QED BY <1>7, <1>12, <2>1, <2>4
<1>13. CASE ~(r.bytes < st.total)
  <2> HIDE DEF InPlace
  <2>1. /\ st.index \in 0 .. Len(best) /\ st.total \in Nat
        /\ st.index = 0 => st.total = previousBytes
        /\ st.index # 0 => st.total = SizeOf(pats, InPlace(st.index))
    BY DEF TriedOK
  <2>2. TriedOK(now)
    BY <1>5, <1>8, <1>9, <1>10, <2>1 DEF TriedOK
  <2> QED BY <1>7, <1>13, <2>2
<1> QED BY <1>12, <1>13

(* All tries of a refinement, or those where keys overlap.                 *)
LEMMA AllTries ==
  ASSUME Trying, NEW fold \in {"try", "overlap"}
  PROVE  TriedOK(Folding(fold, 0, Tries, PlacesOf(best))[DOMAIN PlacesOf(best)])
<1> DEFINE places == PlacesOf(best)
           end == Folding(fold, 0, Tries, places)[DOMAIN places]
<1>1. PICK m \in Nat : /\ DOMAIN best = 1 .. m /\ m = Len(places) /\ DOMAIN places = 1 .. m
                       /\ \A i \in 1 .. m : places[i] = i
  <2>1. PICK D : D = DOMAIN pats
    OBVIOUS
  <2>2. best \in Seq(D)
    BY <2>1 DEF Trying
  <2> HIDE DEF places
  <2>3. /\ Len(places) = Len(best) /\ DOMAIN places = 1 .. Len(best)
        /\ Len(best) \in Nat /\ DOMAIN best = 1 .. Len(best) /\ \A i \in 1 .. Len(best) : places[i] = i
    BY <2>2, PlacesFacts DEF places
  <2> QED BY <2>3
<1>2. PICK f : Unrolls(fold, 0, Tries, places, f, end)
  <2> HIDE DEF places
  <2> QED BY <1>1, FoldingUnrolls
<1> HIDE DEF end
<1>3. f[0] = Tries /\ f[m] = end /\ \A k \in 1 .. m : f[k] = StepOf(fold, 0, f[k - 1], places[k])
  BY <1>1, <1>2, Zenon DEF Unrolls
<1>4. \A st, k : StepOf(fold, 0, st, k) = TryInPlace(st, k) \/ StepOf(fold, 0, st, k) = st
  <2> SUFFICES ASSUME NEW st, NEW k PROVE StepOf(fold, 0, st, k) \in {TryInPlace(st, k), st}
    OBVIOUS
  <2>1. CASE fold = "try"
    BY <2>1, Zenon DEF StepOf
  <2>2. CASE fold = "overlap"
    <3>1. StepOf(fold, 0, st, k) = OverlapStep(st, k)
      BY <2>2, Zenon DEF StepOf
    <3>2. OverlapStep(st, k) \in {TryInPlace(st, k), st}
      BY Zenon DEF OverlapStep
    <3> QED BY <3>1, <3>2, Zenon
  <2> QED BY <2>1, <2>2
<1> DEFINE P(k) == TriedOK(f[k])
           G == {k \in 0 .. m : P(k)}
<1>5. 0 \in G
  BY <1>3, TriesStart
<1>6. ASSUME NEW k \in 1 .. m, k - 1 \in G PROVE k \in G
  <2>1. PICK st : st = f[k - 1] /\ TriedOK(st)
    BY <1>6
  <2>2. TriedOK(TryInPlace(st, k))
    BY <1>1, <2>1, TryFacts
  <2>3. f[k] = StepOf(fold, 0, st, k)
    BY <1>1, <1>3, <2>1
  <2>4. TriedOK(f[k])
    BY <1>4, <2>1, <2>2, <2>3, Zenon
  <2> QED BY <2>4
<1>7. P(m)
  <2>1. \A k \in 0 .. m : k \in G
    <3> HIDE DEF G
    <3> QED BY <1>5, <1>6, BoundedInduction
  <2> QED BY <2>1
<1> QED BY <1>3, <1>7 DEF end, places

(* So both kinds of refinement leave what was tried.                       *)
LEMMA RefinementTries ==
  ASSUME Trying
  PROVE  /\ TriedOK(FoldLeftDomain(TryInPlace, Tries, best))
         /\ TriedOK(FoldLeftDomain(OverlapStep, Tries, best))
  BY TriesFold, OverlapFold, AllTries, Zenon

----------------------------------------------------------------------------
(* The inductive invariant of the search.                                  *)

\* The lists name patterns: the heap is one, what is chosen is chosen once and not in it.
Lists(mem, h, b, r) ==
  /\ HeapOk(mem, h) /\ b \in Seq(DOMAIN mem) /\ Once(b) /\ r \in Seq(DOMAIN mem)
  /\ Range(h) \intersect Range(b) = {}

\* What is kept of patterns is true of their keys, of those chosen the places too.
Cached(alpha, texts, mem, b) ==
  /\ Current(alpha, texts, mem)
  /\ \A p \in Range(b) : mem[p].occurrences = Occurrences(texts, mem[p].key)

\* Every short pattern is in the heap or chosen.
Shorts(mem, h, b) ==
  \A p \in DOMAIN mem : Len(p) <= CutoffLongPattern => p \in Range(h) \union Range(b)

\* Before patterns are extracted there are none.
Fresh ==
  /\ DOMAIN pats = {} /\ heap = <<>> /\ refactor = <<>> /\ best = <<>> /\ parses = <<>>
  /\ latestBytes = 0 /\ previousBytes = 0

\* Numbers that are counted.
Counted ==
  /\ savings \in Int /\ previousSavings \in Int /\ latestBytes \in Nat /\ previousBytes \in Nat
  /\ passes \in Nat /\ passes <= settings.passes /\ cursor \in Nat \ {0}

\* Before and after the greedy choice.
Early == {"open", "read", "extract", "failed"}
Late == {"refine", "edits", "edit", "output", "done"}

\* The list is within its target, and after the choice within what was asked for.
Bounded == Len(best) <= Target /\ (phase \in Late => Len(best) <= N)

\* A size that the next one is compared with is that of the list, and the last size printed.
Baseline ==
  /\ (phase = "refine" /\ ~settings.throwback) \/ phase = "edit" => previousBytes = SizeOf(pats, best)
  /\ phase = "output" /\ settings.level > 0 /\ ~settings.onlyRefactor => latestBytes = SizeOf(pats, best)

\* The invariant of the search.
SearchOK ==
  /\ ReadOK /\ phase \in Phases /\ N \in Nat /\ settings.passes \in Nat /\ settings.level \in Nat
  /\ phase \notin {"open", "read", "failed"} => Texts # <<>>
  /\ phase \in Early => Fresh
  /\ Lists(pats, heap, best, refactor)
  /\ Cached(settings.alpha, Texts, pats, best)
  /\ phase = "greedy" => Shorts(pats, heap, best)
  /\ parses # <<>> => DOMAIN parses = DOMAIN Texts
  /\ Counted /\ Bounded /\ Baseline

----------------------------------------------------------------------------
(* Greedy choice.                                                          *)

(* What is kept of patterns makes them comparable.                         *)
LEMMA CurrentKeyed ==
  ASSUME NEW alpha, NEW texts, NEW mem, Current(alpha, texts, mem)
  PROVE  Keyed(mem)
BY DEF Current, IsPattern, Keyed

(* The candidate leaves the heap for the end of the list, where it is rated. *)
LEMMA CandidateFacts ==
  ASSUME SearchOK, Choosing
  PROVE  LET list == Append(best, Candidate)
         IN  /\ Candidate \in DOMAIN pats /\ Candidate \in Range(heap) /\ Candidate \notin Range(best)
             /\ HeapOk(pats, Others) /\ Range(Others) = Range(heap) \ {Candidate}
             /\ list \in Seq(DOMAIN pats) /\ Once(list) /\ Range(list) = Range(best) \union {Candidate}
             /\ Len(list) <= Target
             /\ After(pats, list, Tried.pats) /\ Gain \in Int /\ Tried.savings \in Int
             /\ DOMAIN Tried.parses = DOMAIN Texts
<1> DEFINE list == Append(best, Candidate)
<1>1. /\ ReadOK /\ HeapOk(pats, heap) /\ best \in Seq(DOMAIN pats) /\ Once(best)
      /\ Range(heap) \intersect Range(best) = {}
      /\ Current(settings.alpha, Texts, pats) /\ previousSavings \in Int
  BY DEF SearchOK, Lists, Cached, Counted
<1>2. heap # <<>>
  BY DEF Choosing
<1>3. Keyed(pats)
  BY <1>1, CurrentKeyed
<1>4. /\ HeapOk(pats, Others) /\ Range(Others) = Range(heap) \ {Candidate} /\ Candidate \in Range(heap)
  BY <1>1, <1>2, <1>3, PoppedFacts DEF Others, Candidate
<1>5. Candidate \in DOMAIN pats /\ Candidate \notin Range(best)
  <2>1. Range(heap) \subseteq DOMAIN pats
    BY <1>1, SeqFacts DEF HeapOk
  <2> QED BY <1>1, <1>4, <2>1
<1>6. /\ list \in Seq(DOMAIN pats) /\ Once(list) /\ Range(list) = Range(best) \union {Candidate}
      /\ Len(list) = Len(best) + 1 /\ Len(best) \in Nat
  BY <1>1, <1>5, AppendFacts
<1>7. Len(list) <= Target
  <2>1. Len(best) < Target
    BY DEF Choosing
  <2>2. Target \in Int
    BY ConstantsAssumption DEF Target, SearchOK
  <2> QED BY <1>6, <2>1, <2>2
<1> HIDE DEF list
<1>8. Tried = Scoring(pats, list)
  BY DEF Tried, list
<1>9. /\ After(pats, list, Tried.pats) /\ DOMAIN Tried.parses = DOMAIN Texts /\ Tried.savings \in Int
  BY <1>1, <1>6, <1>8, ScoringFacts
<1>10. Gain \in Int
  BY <1>1, <1>9 DEF Gain
<1> QED BY <1>4, <1>5, <1>6, <1>7, <1>9, <1>10 DEF list

(* The heap does not see what changes outside it.                          *)
LEMMA HeapAfter ==
  ASSUME NEW mem, NEW list, NEW new, After(mem, list, new), NEW h, HeapOk(mem, h),
         Range(h) \intersect Range(list) = {}
  PROVE  HeapOk(new, h)
<1>1. Range(h) \subseteq DOMAIN mem
  BY SeqFacts DEF HeapOk
<1>2. \A p \in Range(h) : new[p] = mem[p]
  BY <1>1 DEF After
<1>3. DOMAIN mem = DOMAIN new
  BY DEF After
<1> QED BY <1>2, <1>3, HeapOkElsewhere

(* What an operation of the greedy choice has to show.                     *)
LEMMA GreedyStep ==
  ASSUME SearchOK, phase = "greedy", UNCHANGED <<settings, phase, reading, refactor, latestBytes, previousBytes, progress>>,
         Lists(pats', heap', best', refactor'),
         Cached(settings.alpha, Texts, pats', best'),
         Shorts(pats', heap', best'),
         DOMAIN parses' = DOMAIN Texts, savings' \in Int, previousSavings' \in Int,
         Len(best') <= Target
  PROVE  SearchOK'
<1>1. ReadOK'
  BY DEF SearchOK, ReadOK, Texts, reading
<1>2. Cached(settings.alpha, Texts, pats, best)'
  BY DEF Texts, reading
<1>3. Counted'
  BY DEF SearchOK, Counted, progress
<1>4. Bounded' /\ Baseline' /\ phase' # "open" /\ phase' \notin Early
  BY DEF Bounded, Baseline, Target, N, Late, Early
<1>5. (phase \in Phases /\ N \in Nat /\ settings.passes \in Nat /\ settings.level \in Nat)'
  BY DEF SearchOK, N, Phases
<1>6. (Texts # <<>>)'
  BY DEF SearchOK, Texts, reading
<1>7. (DOMAIN parses = DOMAIN Texts)'
  BY DEF Texts, reading
<1> QED BY <1>1, <1>2, <1>3, <1>4, <1>5, <1>6, <1>7 DEF SearchOK

(* A candidate that goes back into the heap is in it with what it gains.    *)
LEMMA PutBackStep ==
  ASSUME SearchOK, PutBack
  PROVE  SearchOK'
<1> DEFINE list == Append(best, Candidate)
<1>1. PICK mem, c, h, new : mem = Tried.pats /\ c = Candidate /\ h = Others /\ new = [mem EXCEPT ![c].savings = Gain]
  OBVIOUS
<1>2. /\ c \in DOMAIN pats /\ c \in Range(heap) /\ c \notin Range(best)
      /\ HeapOk(pats, h) /\ Range(h) = Range(heap) \ {c}
      /\ list \in Seq(DOMAIN pats) /\ Range(list) = Range(best) \union {c}
      /\ After(pats, list, mem) /\ Gain \in Int /\ Tried.savings \in Int
      /\ DOMAIN Tried.parses = DOMAIN Texts
  BY <1>1, CandidateFacts DEF PutBack
<1> HIDE DEF list
<1>3. DOMAIN new = DOMAIN mem /\ DOMAIN mem = DOMAIN pats
  BY <1>1, <1>2 DEF After
<1>4. \A p \in DOMAIN pats : p # c => new[p] = mem[p]
  BY <1>1, <1>2, <1>3
<1>5. new[c] = [mem[c] EXCEPT !.savings = Gain]
  BY <1>1, <1>2, <1>3
<1>6. Current(settings.alpha, Texts, new)
  <2>1. \A p \in DOMAIN pats : IsPattern(settings.alpha, Texts, mem[p])
    BY <1>2 DEF After, Current
  <2>2. IsPattern(settings.alpha, Texts, new[c])
    BY <1>2, <1>5, <2>1 DEF IsPattern
  <2> QED BY <1>3, <1>4, <2>1, <2>2 DEF Current
<1>7. HeapOk(new, h)
  <2>1. Range(h) \subseteq DOMAIN pats
    BY <1>2, SeqFacts DEF HeapOk
  <2>2. Range(h) \intersect Range(list) = {}
    BY <1>2 DEF SearchOK, Lists
  <2>3. \A p \in Range(h) : new[p] = pats[p]
    BY <1>2, <1>4, <2>1, <2>2 DEF After
  <2> QED BY <1>2, <1>3, <2>3, HeapOkElsewhere
<1>8. pats' = new /\ heap' = Push(new, h, c)
  BY <1>1 DEF PutBack
<1>9. HeapOk(new, heap') /\ Range(heap') = Range(heap)
  <2>1. Keyed(new)
    BY <1>6, CurrentKeyed
  <2>2. c \in DOMAIN new /\ c \notin Range(h)
    BY <1>2, <1>3
  <2>3. HeapOk(new, Push(new, h, c)) /\ Range(Push(new, h, c)) = Range(h) \union {c}
    BY <1>7, <2>1, <2>2, PushFacts
  <2> QED BY <1>2, <1>8, <2>3
<1>10. Lists(pats', heap', best', refactor')
  BY <1>3, <1>8, <1>9 DEF SearchOK, Lists, PutBack
<1>11. Cached(settings.alpha, Texts, pats', best')
  <2>1. \A p \in Range(best) : p # c /\ p \in DOMAIN pats /\ mem[p].occurrences = Occurrences(Texts, mem[p].key)
    <3>1. Range(best) \subseteq DOMAIN pats
      BY SeqFacts DEF SearchOK, Lists
    <3> QED BY <1>2, <3>1 DEF After, Everyplace
  <2> QED BY <1>4, <1>6, <1>8, <2>1 DEF Cached, PutBack
<1>12. Shorts(pats', heap', best')
  BY <1>3, <1>8, <1>9 DEF SearchOK, Shorts, PutBack, Choosing
<1>13. Len(best') <= Target
  BY DEF SearchOK, Bounded, PutBack
<1>14. /\ phase = "greedy" /\ DOMAIN parses' = DOMAIN Texts
       /\ UNCHANGED <<settings, phase, reading, refactor, latestBytes, previousBytes, progress>>
       /\ savings' \in Int /\ previousSavings' \in Int
  BY <1>2 DEF PutBack, Choosing, totals, SearchOK, Counted
<1> QED BY <1>10, <1>11, <1>12, <1>13, <1>14, GreedyStep

(* A candidate that is taken moves from the heap to the list.               *)
LEMMA AcceptStep ==
  ASSUME SearchOK, Accept
  PROVE  SearchOK'
<1> DEFINE list == Append(best, Candidate)
<1>1. PICK mem, c, h : mem = Tried.pats /\ c = Candidate /\ h = Others
  OBVIOUS
<1>2. /\ c \in DOMAIN pats /\ c \in Range(heap) /\ c \notin Range(best)
      /\ HeapOk(pats, h) /\ Range(h) = Range(heap) \ {c}
      /\ list \in Seq(DOMAIN pats) /\ Once(list) /\ Range(list) = Range(best) \union {c}
      /\ Len(list) <= Target
      /\ After(pats, list, mem) /\ Tried.savings \in Int /\ DOMAIN Tried.parses = DOMAIN Texts
  BY <1>1, CandidateFacts DEF Accept
<1>3. pats' = mem /\ heap' = h /\ best' = list
  BY <1>1 DEF Accept
<1> HIDE DEF list
<1>4. DOMAIN mem = DOMAIN pats
  BY <1>2 DEF After
<1>5. Range(h) \intersect Range(list) = {}
  BY <1>2 DEF SearchOK, Lists
<1>6. HeapOk(mem, h)
  BY <1>2, <1>5, HeapAfter
<1>7. Lists(pats', heap', best', refactor')
  BY <1>2, <1>3, <1>4, <1>5, <1>6 DEF SearchOK, Lists, Accept
<1>8. Cached(settings.alpha, Texts, pats', best')
  BY <1>2, <1>3 DEF Cached, After, Everyplace
<1>9. Shorts(pats', heap', best')
  BY <1>2, <1>3, <1>4 DEF SearchOK, Shorts, Accept, Choosing
<1>10. /\ phase = "greedy" /\ DOMAIN parses' = DOMAIN Texts
       /\ UNCHANGED <<settings, phase, reading, refactor, latestBytes, previousBytes, progress>>
       /\ savings' \in Int /\ previousSavings' \in Int /\ Len(best') <= Target
  BY <1>2, <1>3 DEF Accept, Choosing
<1> QED BY <1>7, <1>8, <1>9, <1>10, GreedyStep

(* Those of a list that are picked go in their reverse order from the list to the heap. *)
LEMMA BackFacts ==
  ASSUME NEW mem, Keyed(mem), NEW h, HeapOk(mem, h), NEW b \in Seq(DOMAIN mem), Once(b), NEW low,
         Range(h) \intersect Range(b) = {}, NEW out, out = PushAll(mem, h, Among(Reverse(b), low))
  PROVE  HeapOk(mem, out) /\ Range(out) = Range(h) \union (Range(b) \intersect low)
<1>1. PICK t : t = Reverse(b)
  OBVIOUS
<1>2. t \in Seq(DOMAIN mem) /\ Range(t) = Range(b) /\ Once(t)
  BY <1>1, ReverseFacts
<1>3. PICK s : s = Among(t, low)
  OBVIOUS
<1>4. s \in Seq(DOMAIN mem) /\ Range(s) = Range(b) \intersect low /\ Once(s)
  BY <1>2, <1>3, AmongFacts
<1>5. Range(s) \intersect Range(h) = {}
  BY <1>4
<1>6. out = PushAll(mem, h, s)
  BY <1>1, <1>3
<1> QED BY <1>4, <1>5, <1>6, PushAllFacts

(* Those thrown back move from the list to the heap, and the list is rated again. *)
LEMMA ThrowBackStep ==
  ASSUME SearchOK, AcceptAndThrowBack
  PROVE  SearchOK'
<1> DEFINE list == Append(best, Candidate)
           keep == Append(Among(best, Range(best) \ Lower(Tried.pats, Gain)), Candidate)
<1>1. PICK mem, c, h, low : mem = Tried.pats /\ c = Candidate /\ h = Others /\ low = Lower(Tried.pats, Gain)
  OBVIOUS
<1>2. /\ c \in DOMAIN pats /\ c \in Range(heap) /\ c \notin Range(best)
      /\ HeapOk(pats, h) /\ Range(h) = Range(heap) \ {c}
      /\ list \in Seq(DOMAIN pats) /\ Range(list) = Range(best) \union {c}
      /\ After(pats, list, mem) /\ Tried.savings \in Int /\ DOMAIN Tried.parses = DOMAIN Texts
  BY <1>1, CandidateFacts DEF AcceptAndThrowBack
<1>3. /\ ReadOK /\ best \in Seq(DOMAIN pats) /\ Once(best) /\ Range(heap) \intersect Range(best) = {}
      /\ Shorts(pats, heap, best) /\ refactor \in Seq(DOMAIN pats)
  BY DEF SearchOK, Lists, AcceptAndThrowBack, Choosing
<1>4. DOMAIN mem = DOMAIN pats /\ Current(settings.alpha, Texts, mem)
  BY <1>2 DEF After
<1>5. HeapOk(mem, h)
  <2>1. Range(h) \intersect Range(list) = {}
    BY <1>2, <1>3
  <2> HIDE DEF list
  <2> QED BY <1>2, <2>1, HeapAfter
<1>6. PICK a : a = Among(best, Range(best) \ low)
  OBVIOUS
<1>7. a \in Seq(DOMAIN mem) /\ Range(a) = Range(best) \ low /\ Once(a) /\ Len(a) <= Len(best)
  <2>1. best \in Seq(DOMAIN mem)
    BY <1>3, <1>4
  <2>2. Range(a) = Range(best) \intersect (Range(best) \ low)
    BY <1>3, <1>6, <2>1, AmongFacts
  <2> QED BY <1>3, <1>6, <2>1, <2>2, AmongFacts
<1>8. keep = Append(a, c)
  BY <1>1, <1>6
<1> HIDE DEF keep, list
<1>9. PICK b : b = keep
  OBVIOUS
<1>10. /\ b \in Seq(DOMAIN mem) /\ Once(b) /\ Range(b) = (Range(best) \ low) \union {c}
       /\ Len(b) = Len(a) + 1
  BY <1>2, <1>4, <1>7, <1>8, <1>9, AppendFacts
<1>11. Len(b) <= Target
  <2>1. Len(best) < Target
    BY DEF AcceptAndThrowBack, Choosing
  <2>2. Target \in Int
    BY ConstantsAssumption DEF Target, SearchOK
  <2>3. Len(best) \in Nat /\ Len(a) \in Nat
    BY <1>3, <1>7
  <2> QED BY <1>7, <1>10, <2>1, <2>2, <2>3
<1>12. HeapOk(mem, heap') /\ Range(heap') = Range(h) \union (Range(best) \intersect low)
  <2>1. heap' = PushAll(mem, h, Among(Reverse(best), low))
    BY <1>1 DEF AcceptAndThrowBack, ThrownBack
  <2>2. Keyed(mem) /\ best \in Seq(DOMAIN mem) /\ Range(h) \intersect Range(best) = {}
    BY <1>2, <1>3, <1>4, CurrentKeyed
  <2> QED BY <1>3, <1>5, <2>1, <2>2, BackFacts
<1>13. Range(heap') \intersect Range(b) = {} /\ Range(heap') \union Range(b) = Range(heap) \union Range(best)
  BY <1>2, <1>3, <1>10, <1>12
<1>14. PICK r : r = Scoring(mem, b)
  OBVIOUS
<1>15. After(mem, b, r.pats) /\ r.savings \in Int /\ DOMAIN r.parses = DOMAIN Texts
  BY <1>3, <1>4, <1>10, <1>14, ScoringFacts
<1>16. /\ best' = b
       /\ \/ pats' = mem /\ parses' = Tried.parses /\ previousSavings' = Tried.savings
          \/ pats' = r.pats /\ parses' = r.parses /\ previousSavings' = r.savings
  <2>1. keep = Append(Among(best, Range(best) \ Lower(Tried.pats, Gain)), Candidate)
    BY DEF keep
  <2> QED BY <1>1, <1>9, <1>14, <2>1 DEF AcceptAndThrowBack
<1>17. /\ HeapOk(pats', heap') /\ DOMAIN pats' = DOMAIN pats /\ DOMAIN parses' = DOMAIN Texts
       /\ previousSavings' \in Int /\ Cached(settings.alpha, Texts, pats', b)
  <2>1. CASE pats' = mem /\ parses' = Tried.parses /\ previousSavings' = Tried.savings
    <3>1. \A p \in Range(b) : mem[p].occurrences = Occurrences(Texts, mem[p].key)
      BY <1>2, <1>10 DEF After, Everyplace
    <3> QED BY <1>2, <1>4, <1>12, <2>1, <3>1 DEF Cached
  <2>2. CASE pats' = r.pats /\ parses' = r.parses /\ previousSavings' = r.savings
    <3>1. HeapOk(r.pats, heap')
      BY <1>12, <1>13, <1>15, HeapAfter
    <3>2. Cached(settings.alpha, Texts, r.pats, b) /\ DOMAIN r.pats = DOMAIN pats
      BY <1>4, <1>15 DEF After, Everyplace, Cached
    <3> QED BY <1>15, <2>2, <3>1, <3>2
  <2> QED BY <1>16, <2>1, <2>2
<1>18. Lists(pats', heap', best', refactor')
  <2>1. refactor' = refactor
    BY DEF AcceptAndThrowBack
  <2> QED BY <1>3, <1>4, <1>10, <1>13, <1>16, <1>17, <2>1 DEF Lists
<1>19. Shorts(pats', heap', best')
  BY <1>3, <1>13, <1>16, <1>17 DEF Shorts
<1>20. /\ phase = "greedy" /\ savings' \in Int
       /\ UNCHANGED <<settings, phase, reading, refactor, latestBytes, previousBytes, progress>>
  BY <1>2 DEF AcceptAndThrowBack, Choosing
<1>21. Cached(settings.alpha, Texts, pats', best') /\ Len(best') <= Target
  BY <1>11, <1>16, <1>17
<1> QED BY <1>17, <1>18, <1>19, <1>20, <1>21, GreedyStep

----------------------------------------------------------------------------
(* What an operation after the choice has to show.                         *)
LEMMA LateStep ==
  ASSUME SearchOK, phase' \in Late, UNCHANGED <<settings, reading, refactor>>, Texts # <<>>,
         Lists(pats', heap', best', refactor'),
         Cached(settings.alpha, Texts, pats', best'),
         parses' # <<>> => DOMAIN parses' = DOMAIN Texts,
         Counted', Len(best') <= N, Baseline'
  PROVE  SearchOK'
<1>1. ReadOK'
  BY DEF SearchOK, ReadOK, Texts, reading
<1>2. Cached(settings.alpha, Texts, pats, best)'
  BY DEF Texts, reading
<1>3. (parses # <<>> => DOMAIN parses = DOMAIN Texts)'
  BY DEF Texts, reading
<1>4. phase' \in Phases /\ phase' \notin Early /\ phase' # "greedy" /\ Texts' # <<>>
  BY DEF Late, Early, Phases, Texts, reading
<1>5. (N \in Nat /\ settings.passes \in Nat /\ settings.level \in Nat)'
  BY DEF SearchOK, N
<1>6. Bounded'
  <2>1. N <= Target
    <3>1. N \in Nat
      BY DEF SearchOK
    <3>2. CASE settings.throwback
      <4>1. Target = N + Oversample
        BY <3>2 DEF Target
      <4> QED BY <3>1, <4>1, ConstantsAssumption
    <3>3. CASE ~settings.throwback
      <4>1. Target = N + 0
        BY <3>3 DEF Target
      <4> QED BY <3>1, <4>1
    <3> QED BY <3>2, <3>3
  <2>2. Target \in Int /\ N \in Nat
    BY ConstantsAssumption DEF Target, SearchOK
  <2>3. Len(best') \in Nat
    BY DEF Lists
  <2>4. Len(best') <= Target
    BY <2>1, <2>2, <2>3
  <2> QED BY <2>4 DEF Bounded, Target, N
<1> QED BY <1>1, <1>2, <1>3, <1>4, <1>5, <1>6 DEF SearchOK

(* The choice ends with a list of as many as were asked for, the others go back. *)
LEMMA EndChoiceStep ==
  ASSUME SearchOK, EndChoice
  PROVE  SearchOK'
<1>1. /\ ReadOK /\ best \in Seq(DOMAIN pats) /\ Once(best) /\ Range(heap) \intersect Range(best) = {}
      /\ HeapOk(pats, heap) /\ refactor \in Seq(DOMAIN pats) /\ Current(settings.alpha, Texts, pats)
      /\ N \in Nat
  BY DEF SearchOK, Lists, Cached
<1>2. PICK r : r = Scoring(pats, best)
  OBVIOUS
<1>3. /\ After(pats, best, r.pats) /\ DOMAIN r.parses = DOMAIN Texts
      /\ r.bytes = SizeOf(pats, best) /\ r.bytes \in Nat
  BY <1>1, <1>2, ScoringFacts
<1>4. PICK mem : mem = r.pats
  OBVIOUS
<1>5. DOMAIN mem = DOMAIN pats /\ Current(settings.alpha, Texts, mem) /\ Keyed(mem) /\ HeapOk(mem, heap)
  <2>1. HeapOk(mem, heap)
    BY <1>1, <1>3, <1>4, HeapAfter
  <2> QED BY <1>3, <1>4, <2>1, CurrentKeyed DEF After
<1>6. PICK n \in Nat : n = Len(best) /\ DOMAIN best = 1 .. n
  BY <1>1
<1>7. PICK k \in Nat : k = (IF n < N THEN n ELSE N) /\ k <= n /\ k <= N
  BY <1>1, <1>6
<1>8. PICK b : b = SubSeq(best, 1, k)
  OBVIOUS
<1>9. /\ b \in Seq(DOMAIN mem) /\ Len(b) = k /\ Range(b) \subseteq Range(best) /\ Once(b)
      /\ \A i \in 1 .. k : b[i] = best[i]
  <2>1. 1 \in Nat \ {0} /\ k <= Len(best) /\ 1 <= k + 1 /\ best \in Seq(DOMAIN mem)
    BY <1>1, <1>5, <1>6, <1>7
  <2>2. /\ b \in Seq(DOMAIN mem) /\ Len(b) = k - 1 + 1 /\ DOMAIN b = 1 .. k - 1 + 1
        /\ \A i \in DOMAIN b : b[i] = best[1 - 1 + i]
        /\ Range(b) \subseteq Range(best) /\ Once(b)
    BY <1>1, <1>8, <2>1, SubSeqFacts
  <2> QED BY <2>2
<1>10. PICK o : o = SubSeq(best, k + 1, n)
  OBVIOUS
<1>11. /\ o \in Seq(DOMAIN mem) /\ Range(o) \subseteq Range(best) /\ Once(o)
       /\ Range(o) \intersect Range(b) = {}
  <2>1. PICK m \in Nat \ {0} : m = k + 1
    BY <1>7
  <2>2. n <= Len(best) /\ m <= n + 1 /\ best \in Seq(DOMAIN mem)
    BY <1>1, <1>5, <1>6, <1>7, <2>1
  <2>3. /\ o \in Seq(DOMAIN mem) /\ DOMAIN o = 1 .. n - m + 1
        /\ \A i \in DOMAIN o : m - 1 + i \in DOMAIN best /\ o[i] = best[m - 1 + i]
        /\ Range(o) \subseteq Range(best) /\ Once(o)
    BY <1>1, <1>10, <2>1, <2>2, SubSeqFacts
  <2>4. ASSUME NEW i \in DOMAIN o, NEW j \in DOMAIN b, o[i] = b[j] PROVE FALSE
    <3>1. DOMAIN b = 1 .. k
      BY <1>7, <1>9
    <3>2. PICK p \in DOMAIN best : p = m - 1 + i /\ o[i] = best[p]
      BY <2>3
    <3>3. j \in DOMAIN best /\ b[j] = best[j]
      BY <1>6, <1>7, <1>9, <3>1
    <3>4. p = j
      BY <1>1, <2>4, <3>2, <3>3 DEF Once
    <3> QED BY <1>6, <1>7, <2>1, <2>3, <3>1, <3>2, <3>4
  <2>5. Range(o) \intersect Range(b) = {}
    BY <2>4, Zenon DEF Range
  <2> QED BY <2>3, <2>5
<1>12. /\ best' = b /\ pats' = mem /\ parses' = r.parses /\ heap' = PushAll(mem, heap, Reverse(o))
       /\ latestBytes' = r.bytes /\ phase' \in {"refine", "edits", "output"}
       /\ phase' = "refine" => previousBytes' = r.bytes
       /\ phase' # "refine" => UNCHANGED previousBytes
       /\ phase' = "output" => ~(settings.level > 0)
       /\ UNCHANGED <<settings, reading, refactor, savings, previousSavings, passes, cursor>>
  <2>1. SubSeq(best, 1, IF Len(best) < N THEN Len(best) ELSE N) = b
    BY <1>6, <1>7, <1>8
  <2>2. SubSeq(best, Len(b) + 1, Len(best)) = o
    BY <1>6, <1>9, <1>10
  <2>3. /\ best' = b /\ pats' = mem /\ parses' = r.parses /\ heap' = PushAll(mem, heap, Reverse(o))
        /\ latestBytes' = r.bytes
        /\ UNCHANGED <<settings, reading, refactor, savings, previousSavings, passes, cursor>>
    BY <1>2, <1>4, <2>1, <2>2 DEF EndChoice, Leave
  <2>4. CASE settings.level > 1
    <3>1. phase' = "refine" /\ previousBytes' = r.bytes
      BY <1>2, <2>4 DEF EndChoice
    <3> QED BY <2>3, <3>1
  <2>5. CASE ~(settings.level > 1)
    <3>1. phase' = (IF settings.level = 1 THEN "edits" ELSE "output") /\ UNCHANGED previousBytes
      BY <2>5 DEF EndChoice
    <3>2. CASE settings.level = 1
      BY <2>3, <3>1, <3>2
    <3>3. CASE settings.level # 1
      <4>1. phase' = "output"
        BY <3>1, <3>3
      <4>2. ~(settings.level > 0)
        BY <2>5, <3>3 DEF SearchOK
      <4> QED BY <2>3, <3>1, <4>1, <4>2
    <3> QED BY <3>2, <3>3
  <2> QED BY <2>4, <2>5
<1>13. HeapOk(mem, heap') /\ Range(heap') = Range(heap) \union Range(o)
  <2>1. PICK t : t = Reverse(o)
    OBVIOUS
  <2>2. t \in Seq(DOMAIN mem) /\ Once(t) /\ Range(t) = Range(o)
    BY <1>11, <2>1, ReverseFacts
  <2>3. Range(t) \intersect Range(heap) = {}
    BY <1>1, <1>11, <2>2
  <2>4. heap' = PushAll(mem, heap, t)
    BY <1>12, <2>1
  <2> QED BY <1>5, <2>2, <2>3, <2>4, PushAllFacts
<1>14. Lists(pats', heap', best', refactor')
  <2>1. Range(heap') \intersect Range(b) = {}
    BY <1>1, <1>9, <1>11, <1>13
  <2> QED BY <1>1, <1>5, <1>9, <1>12, <1>13, <2>1 DEF Lists
<1>15. Cached(settings.alpha, Texts, pats', best')
  BY <1>3, <1>4, <1>5, <1>9, <1>12 DEF Cached, After, Everyplace
<1>16. Counted'
  BY <1>3, <1>12 DEF SearchOK, Counted
<1>17. Baseline'
  <2>1. ASSUME phase' = "refine", ~settings'.throwback PROVE previousBytes' = SizeOf(pats, best)'
    <3>1. ~settings.throwback
      BY <1>12, <2>1
    <3>2. n <= N
      <4>1. Target = N + 0
        BY <3>1 DEF Target
      <4>2. Len(best) <= Target
        BY DEF SearchOK, Bounded
      <4> QED BY <1>1, <1>6, <4>1, <4>2
    <3>3. k = n
      BY <1>1, <1>7, <3>2
    <3>4. b = best
      BY <1>1, <1>5, <1>6, <1>9, <3>3, SameSequence
    <3>5. SizeOf(mem, best) = SizeOf(pats, best)
      <4>1. \A p \in DOMAIN pats : mem[p].key = pats[p].key
        BY <1>3, <1>4 DEF After
      <4> QED BY <1>1, <4>1, SameSize
    <3>6. SizeOf(pats, best)' = SizeOf(mem, best)
      BY <1>12, <3>4 DEF SizeOf, Texts, reading
    <3> QED BY <1>3, <1>12, <2>1, <3>5, <3>6
  <2>2. phase' = "output" => ~(settings'.level > 0)
    BY <1>12
  <2> QED BY <1>12, <2>1, <2>2 DEF Baseline
<1>18. Len(best') <= N /\ phase' \in Late /\ Texts # <<>>
  BY <1>7, <1>9, <1>12 DEF Late, EndChoice, SearchOK
<1>19. (parses' # <<>> => DOMAIN parses' = DOMAIN Texts) /\ UNCHANGED <<settings, reading, refactor>>
  BY <1>3, <1>12
<1> QED BY <1>14, <1>15, <1>16, <1>17, <1>18, <1>19, LateStep

----------------------------------------------------------------------------
(* Refinement.                                                             *)

(* The runner-up leaves the heap.                                          *)
LEMMA RunnerUpFacts ==
  ASSUME SearchOK, Refining
  PROVE  /\ RunnerUp \in Range(heap) /\ RunnerUp \in DOMAIN pats /\ RunnerUp \notin Range(best)
         /\ HeapOk(pats, Popped(pats, heap)) /\ Range(Popped(pats, heap)) = Range(heap) \ {RunnerUp}
<1>1. HeapOk(pats, heap) /\ Range(heap) \intersect Range(best) = {} /\ Current(settings.alpha, Texts, pats)
  BY DEF SearchOK, Lists, Cached
<1>2. heap # <<>> /\ Keyed(pats)
  BY <1>1, CurrentKeyed DEF Refining
<1>3. /\ HeapOk(pats, Popped(pats, heap)) /\ Range(Popped(pats, heap)) = Range(heap) \ {RunnerUp}
      /\ RunnerUp \in Range(heap)
  BY <1>1, <1>2, PoppedFacts DEF RunnerUp
<1>4. Range(heap) \subseteq DOMAIN pats
  BY <1>1, SeqFacts DEF HeapOk
<1> QED BY <1>1, <1>3, <1>4

(* A runner-up that is too long is dropped.                                *)
LEMMA SkipRunnerUpStep ==
  ASSUME SearchOK, SkipRunnerUp
  PROVE  SearchOK'
<1>1. /\ HeapOk(pats, Popped(pats, heap)) /\ Range(Popped(pats, heap)) = Range(heap) \ {RunnerUp}
  BY RunnerUpFacts DEF SkipRunnerUp
<1>2. /\ heap' = Popped(pats, heap) /\ pats' = pats /\ best' = best /\ parses' = parses /\ phase' = phase
      /\ UNCHANGED <<settings, reading, refactor, totals, progress>>
      /\ phase = "refine"
  BY DEF SkipRunnerUp, Refining
<1>3. Lists(pats', heap', best', refactor')
  BY <1>1, <1>2 DEF SearchOK, Lists
<1>4. Cached(settings.alpha, Texts, pats', best') /\ (parses' # <<>> => DOMAIN parses' = DOMAIN Texts)
  BY <1>2 DEF SearchOK
<1>5. Counted'
  BY <1>2 DEF SearchOK, Counted, totals, progress
<1>6. Baseline'
  BY <1>2 DEF SearchOK, Baseline, SizeOf, Texts, reading, totals
<1>7. Len(best') <= N /\ phase' \in Late /\ Texts # <<>>
  BY <1>2 DEF SearchOK, Bounded, Late
<1> QED BY <1>2, <1>3, <1>4, <1>5, <1>6, <1>7, LateStep

(* After the tries the list has the replacement that made the least, or stays. *)
LEMMA ReplacedStep ==
  ASSUME SearchOK, Refining, NEW tried, TriedOK(tried), Replaced(tried)
  PROVE  SearchOK'
<1>1. PICK h, c : h = Popped(pats, heap) /\ c = RunnerUp
  OBVIOUS
<1>2. /\ c \in Range(heap) /\ c \in DOMAIN pats /\ c \notin Range(best)
      /\ HeapOk(pats, h) /\ Range(h) = Range(heap) \ {c}
  BY <1>1, RunnerUpFacts
<1>3. /\ best \in Seq(DOMAIN pats) /\ Once(best) /\ Range(heap) \intersect Range(best) = {}
      /\ refactor \in Seq(DOMAIN pats) /\ phase = "refine"
  BY DEF SearchOK, Lists, Refining
<1>4. Trying
  BY <1>1, <1>2 DEF Trying, SearchOK, Lists, Cached, Counted, Everyplace
<1>5. PICK mem : mem = tried.pats
  OBVIOUS
<1>6. /\ DOMAIN mem = DOMAIN pats /\ Current(settings.alpha, Texts, mem)
      /\ \A p \in DOMAIN pats : mem[p].key = pats[p].key
      /\ \A p \in DOMAIN pats \ (Range(best) \union {c}) : mem[p] = pats[p]
      /\ \A p \in Range(best) : Everyplace(p, mem)
      /\ tried.index \in 0 .. Len(best) /\ tried.total \in Nat /\ tried.latest \in Nat
      /\ tried.index = 0 => tried.total = previousBytes
      /\ tried.index # 0 => Everyplace(c, mem) /\ tried.total = SizeOf(pats, InPlace(tried.index))
      /\ tried.parses # <<>> => DOMAIN tried.parses = DOMAIN Texts
  BY <1>1, <1>5 DEF TriedOK
<1>7. HeapOk(mem, h)
  <2>1. Range(h) \subseteq DOMAIN pats
    BY <1>2, SeqFacts DEF HeapOk
  <2>2. \A p \in Range(h) : mem[p] = pats[p]
    BY <1>2, <1>3, <1>6, <2>1
  <2> QED BY <1>2, <1>6, <2>2, HeapOkElsewhere
<1>8. PICK b : b = (IF tried.index = 0 THEN best ELSE InPlace(tried.index))
  OBVIOUS
<1>9. /\ b \in Seq(DOMAIN pats) /\ Once(b) /\ Range(b) \subseteq Range(best) \union {c}
      /\ Len(b) = Len(best) /\ \A p \in Range(b) : Everyplace(p, mem)
      /\ (tried.index = 0 /\ b = best) \/ tried.total = SizeOf(pats, b)
  <2>1. CASE tried.index = 0
    BY <1>3, <1>6, <1>8, <2>1
  <2>2. CASE tried.index # 0
    <3>1. PICK i : i = tried.index
      OBVIOUS
    <3>2. i \in DOMAIN best
      BY <1>3, <1>6, <2>2, <3>1
    <3>3. b = InPlace(i)
      BY <1>8, <2>2, <3>1
    <3>4. /\ b \in Seq(DOMAIN pats) /\ Len(b) = Len(best) /\ Range(b) \subseteq Range(best) \union {c} /\ Once(b)
      BY <1>1, <1>2, <1>3, <1>4, <3>2, <3>3, InPlaceFacts
    <3> QED BY <1>6, <2>2, <3>1, <3>3, <3>4
  <2> QED BY <2>1, <2>2
<1>10. /\ pats' = mem /\ heap' = h /\ best' = b /\ parses' = tried.parses /\ phase' = phase
       /\ latestBytes' = tried.latest /\ previousBytes' = tried.total /\ passes' = passes + 1
       /\ UNCHANGED <<settings, reading, refactor, savings, previousSavings, cursor>>
  BY <1>1, <1>5, <1>8 DEF Replaced
<1>11. Lists(pats', heap', best', refactor')
  BY <1>2, <1>3, <1>6, <1>7, <1>9, <1>10 DEF Lists
<1>12. Cached(settings.alpha, Texts, pats', best') /\ (parses' # <<>> => DOMAIN parses' = DOMAIN Texts)
  BY <1>6, <1>9, <1>10 DEF Cached, Everyplace
<1>13. Counted'
  <2>1. passes \in Nat /\ settings.passes \in Nat /\ passes < settings.passes
    BY DEF SearchOK, Counted, Refining
  <2>2. passes' \in Nat /\ passes' <= settings'.passes
    BY <1>10, <2>1
  <2> QED BY <1>6, <1>10, <2>2 DEF SearchOK, Counted
<1>14. Baseline'
  <2>1. ASSUME ~settings.throwback PROVE tried.total = SizeOf(mem, b)
    <3>1. SizeOf(mem, b) = SizeOf(pats, b)
      BY <1>6, <1>9, SameSize
    <3>2. previousBytes = SizeOf(pats, best)
      BY <1>3, <2>1 DEF SearchOK, Baseline
    <3> QED BY <1>6, <1>9, <3>1, <3>2
  <2>2. SizeOf(pats, best)' = SizeOf(mem, b)
    BY <1>10 DEF SizeOf, Texts, reading
  <2> QED BY <1>3, <1>10, <2>1, <2>2 DEF Baseline
<1>15. Len(best') <= N /\ phase' \in Late /\ Texts # <<>>
  BY <1>3, <1>9, <1>10 DEF SearchOK, Bounded, Late
<1> QED BY <1>10, <1>11, <1>12, <1>13, <1>14, <1>15, LateStep

(* Both ways to try a runner-up keep the invariant.                        *)
LEMMA RefineSteps ==
  ASSUME SearchOK, RefineDeep \/ RefineOverlapping
  PROVE  SearchOK'
<1>1. Refining
  BY DEF RefineDeep, RefineOverlapping
<1>2. Trying
  <2>1. RunnerUp \in DOMAIN pats
    BY <1>1, RunnerUpFacts
  <2> QED BY <2>1 DEF Trying, SearchOK, Lists, Cached, Counted, Everyplace
<1>3. PICK tried : TriedOK(tried) /\ Replaced(tried)
  <2>1. CASE RefineDeep
    <3>1. Replaced(FoldLeftDomain(TryInPlace, Tries, best))
      BY <2>1, Zenon DEF RefineDeep
    <3>2. TriedOK(FoldLeftDomain(TryInPlace, Tries, best))
      BY <1>2, RefinementTries
    <3> QED BY <3>1, <3>2, Zenon
  <2>2. CASE RefineOverlapping
    <3>1. Replaced(FoldLeftDomain(OverlapStep, Tries, best))
      BY <2>2, Zenon DEF RefineOverlapping, OverlapStep
    <3>2. TriedOK(FoldLeftDomain(OverlapStep, Tries, best))
      BY <1>2, RefinementTries
    <3> QED BY <3>1, <3>2, Zenon
  <2> QED BY <2>1, <2>2
<1> QED BY <1>1, <1>3, ReplacedStep

(* To rate the list as it is changes nothing but numbers.                  *)
LEMMA RatedFacts ==
  ASSUME SearchOK
  PROVE  LET r == Scoring(pats, best)
         IN  /\ Lists(r.pats, heap, best, refactor) /\ Cached(settings.alpha, Texts, r.pats, best)
             /\ r.bytes = SizeOf(pats, best) /\ SizeOf(r.pats, best) = SizeOf(pats, best)
             /\ r.bytes \in Nat /\ r.savings \in Int /\ DOMAIN r.parses = DOMAIN Texts
<1>1. PICK r : r = Scoring(pats, best)
  OBVIOUS
<1>2. /\ ReadOK /\ best \in Seq(DOMAIN pats) /\ HeapOk(pats, heap) /\ Current(settings.alpha, Texts, pats)
      /\ Range(heap) \intersect Range(best) = {} /\ Once(best) /\ refactor \in Seq(DOMAIN pats)
  BY DEF SearchOK, Lists, Cached
<1>3. /\ After(pats, best, r.pats) /\ r.bytes = SizeOf(pats, best) /\ r.bytes \in Nat
      /\ DOMAIN r.parses = DOMAIN Texts /\ r.savings \in Int
  BY <1>1, <1>2, ScoringFacts
<1>4. HeapOk(r.pats, heap)
  BY <1>2, <1>3, HeapAfter
<1>5. SizeOf(r.pats, best) = SizeOf(pats, best)
  <2>1. \A p \in DOMAIN pats : r.pats[p].key = pats[p].key
    BY <1>3 DEF After
  <2> QED BY <1>2, <2>1, SameSize
<1>6. Lists(r.pats, heap, best, refactor)
  BY <1>2, <1>3, <1>4 DEF Lists, After
<1>7. Cached(settings.alpha, Texts, r.pats, best)
  BY <1>3 DEF Cached, After, Everyplace
<1> QED BY <1>1, <1>3, <1>5, <1>6, <1>7

(* Refinement ends, edits start and edits end with the list rated.          *)
LEMMA RatedSteps ==
  ASSUME SearchOK, EndRefinement \/ StartEdits \/ EndEdits
  PROVE  SearchOK'
<1>1. PICK r : r = Scoring(pats, best)
  OBVIOUS
<1>2. /\ Lists(r.pats, heap, best, refactor) /\ Cached(settings.alpha, Texts, r.pats, best)
      /\ r.bytes = SizeOf(pats, best) /\ SizeOf(r.pats, best) = SizeOf(pats, best)
      /\ r.bytes \in Nat /\ r.savings \in Int /\ DOMAIN r.parses = DOMAIN Texts
  BY <1>1, RatedFacts
<1>3. /\ pats' = r.pats /\ parses' = r.parses
      /\ UNCHANGED <<settings, reading, heap, refactor, best, previousSavings, progress>>
      /\ savings' \in {savings, r.savings}
  BY <1>1 DEF EndRefinement, StartEdits, EndEdits, Leave
<1>4. /\ phase \in {"refine", "edits", "edit"} /\ phase' \in {"edits", "edit", "output"}
      /\ latestBytes' \in {latestBytes, previousBytes} /\ previousBytes' \in {previousBytes, r.bytes}
      /\ phase' = "edit" => previousBytes' = r.bytes
      /\ phase' = "output" => latestBytes' = previousBytes /\ phase = "edit"
  BY <1>1 DEF EndRefinement, StartEdits, EndEdits
<1>5. Lists(pats', heap', best', refactor') /\ Cached(settings.alpha, Texts, pats', best')
  BY <1>2, <1>3
<1>6. Counted'
  BY <1>2, <1>3, <1>4 DEF SearchOK, Counted, progress
<1>7. Baseline'
  <2>1. SizeOf(pats, best)' = SizeOf(r.pats, best)
    BY <1>3 DEF SizeOf, Texts, reading
  <2>2. phase = "edit" => previousBytes = SizeOf(pats, best)
    BY DEF SearchOK, Baseline
  <2> QED BY <1>2, <1>4, <2>1, <2>2 DEF Baseline
<1>8. Len(best') <= N /\ phase' \in Late /\ Texts # <<>>
  BY <1>3, <1>4 DEF SearchOK, Bounded, Late
<1> QED BY <1>2, <1>3, <1>5, <1>6, <1>7, <1>8, LateStep

----------------------------------------------------------------------------
(* Edits.                                                                  *)

(* The next edit is of a pattern that is chosen.                            *)
LEMMA EditPlace ==
  ASSUME SearchOK, Editing
  PROVE  /\ Edits[cursor].kind \in Kinds
         /\ best[Edits[cursor].place] \in Range(best) /\ best[Edits[cursor].place] \in DOMAIN pats
<1>1. PICK n \in Nat : n = Len(best) /\ DOMAIN best = 1 .. n
  BY DEF SearchOK, Lists
<1>2. PICK all : all = Edits
  OBVIOUS
<1>3. all \in Seq(EditsOf(n))
  BY <1>1, <1>2, EditsFacts
<1>4. cursor \in 1 .. Len(all)
  BY <1>2, <1>3 DEF SearchOK, Counted, Editing
<1>5. PICK e : e = all[cursor]
  OBVIOUS
<1>6. e \in EditsOf(n)
  BY <1>3, <1>4, <1>5
<1>7. e.kind \in Kinds /\ e.place \in DOMAIN best
  BY <1>1, <1>6 DEF EditsOf
<1>8. best[e.place] \in Range(best) /\ best[e.place] \in DOMAIN pats
  BY <1>7 DEF SearchOK, Lists, Range
<1> QED BY <1>2, <1>5, <1>7, <1>8

(* An edit that does not apply is passed over.                             *)
LEMMA SkipEditStep ==
  ASSUME SearchOK, SkipEdit
  PROVE  SearchOK'
<1>1. /\ phase = "edit" /\ cursor' = cursor + 1
      /\ UNCHANGED <<settings, phase, reading, pats, heap, refactor, best, parses, totals, longest, passes, output>>
  BY DEF SkipEdit, Editing, found
<1>2. Lists(pats', heap', best', refactor') /\ Cached(settings.alpha, Texts, pats', best')
  BY <1>1 DEF SearchOK
<1>3. Counted'
  BY <1>1 DEF SearchOK, Counted, totals
<1>4. Baseline'
  BY <1>1 DEF SearchOK, Baseline, SizeOf, Texts, reading, totals
<1>5. /\ Len(best') <= N /\ phase' \in Late /\ Texts # <<>>
      /\ parses' # <<>> => DOMAIN parses' = DOMAIN Texts
      /\ UNCHANGED <<settings, reading, refactor>>
  BY <1>1 DEF SearchOK, Bounded, Late
<1> QED BY <1>2, <1>3, <1>4, <1>5, LateStep

(* The edited pattern has the cost and the places of its new key.           *)
LEMMA EditedFacts ==
  ASSUME SearchOK, NEW id \in Range(best), id \in DOMAIN pats, NEW kind \in Kinds, Applies(kind, pats[id].key)
  PROVE  LET key    == EditedKey(kind, pats[id].key)
             edited == [pats EXCEPT ![id].key = key, ![id].cost = EditedCost(kind, pats[id]),
                                    ![id].occurrences = Occurrences(Texts, key)]
         IN  /\ DOMAIN edited = DOMAIN pats /\ \A p \in DOMAIN pats : p # id => edited[p] = pats[p]
             /\ Current(settings.alpha, Texts, edited)
             /\ HeapOk(edited, heap)
<1> DEFINE key    == EditedKey(kind, pats[id].key)
           cost   == EditedCost(kind, pats[id])
           places == Occurrences(Texts, key)
           edited == [pats EXCEPT ![id].key = key, ![id].cost = cost, ![id].occurrences = places]
<1>1. Current(settings.alpha, Texts, pats) /\ HeapOk(pats, heap) /\ Range(heap) \intersect Range(best) = {}
  BY DEF SearchOK, Lists, Cached
<1>2. IsPattern(settings.alpha, Texts, pats[id])
  BY <1>1 DEF Current
<1>3. key \in Seq(Int) \ {<<>>} /\ cost = ZstringCost(settings.alpha, key)
  BY <1>2, EditFacts
<1>4. PICK k, c, o : k = key /\ c = cost /\ o = places
  OBVIOUS
<1>5. PICK e : e = edited
  OBVIOUS
<1>6. e = [pats EXCEPT ![id].key = k, ![id].cost = c, ![id].occurrences = o]
  BY <1>4, <1>5
<1> HIDE DEF key, cost, places, edited
<1>7. DOMAIN e = DOMAIN pats /\ \A p \in DOMAIN pats : p # id => e[p] = pats[p]
  BY <1>6
<1>8. PICK q : q = pats[id]
  OBVIOUS
<1>9. e[id] = [q EXCEPT !.key = k, !.cost = c, !.occurrences = o]
  BY <1>6, <1>8
<1>10. IsPattern(settings.alpha, Texts, e[id])
  <2>1. IsPattern(settings.alpha, Texts, q)
    BY <1>2, <1>8
  <2>2. k \in Seq(Int) \ {<<>>} /\ c = ZstringCost(settings.alpha, k) /\ o = Occurrences(Texts, k)
    BY <1>3, <1>4 DEF places
  <2> QED BY <1>9, <2>1, <2>2 DEF IsPattern
<1>11. Current(settings.alpha, Texts, e)
  BY <1>1, <1>7, <1>10 DEF Current
<1>12. HeapOk(e, heap)
  <2>1. Range(heap) \subseteq DOMAIN pats
    BY <1>1, SeqFacts DEF HeapOk
  <2>2. \A p \in Range(heap) : e[p] = pats[p]
    BY <1>1, <1>7, <2>1
  <2> QED BY <1>1, <1>7, <2>2, HeapOkElsewhere
<1> QED BY <1>5, <1>7, <1>11, <1>12 DEF edited, places, cost, key

(* What is restored is as it was before the edit.                          *)
LEMMA RestoredFacts ==
  ASSUME NEW alpha, NEW p, IsPattern(alpha, Texts, p), NEW mem, Current(alpha, Texts, mem), NEW id \in DOMAIN mem
  PROVE  LET new == Restored(mem, id, p)
         IN  /\ DOMAIN new = DOMAIN mem /\ \A x \in DOMAIN mem : x # id => new[x] = mem[x]
             /\ new[id].key = p.key /\ new[id].occurrences = Occurrences(Texts, p.key)
             /\ Current(alpha, Texts, new)
<1>1. PICK k, c, o : k = p.key /\ c = p.cost /\ o = Occurrences(Texts, p.key)
  OBVIOUS
<1>2. PICK new : new = Restored(mem, id, p)
  OBVIOUS
<1>3. new = [mem EXCEPT ![id].key = k, ![id].cost = c, ![id].occurrences = o]
  BY <1>1, <1>2 DEF Restored
<1>4. DOMAIN new = DOMAIN mem /\ \A x \in DOMAIN mem : x # id => new[x] = mem[x]
  BY <1>3
<1>5. PICK q : q = mem[id]
  OBVIOUS
<1>6. new[id] = [q EXCEPT !.key = k, !.cost = c, !.occurrences = o]
  BY <1>3, <1>5
<1>7. IsPattern(alpha, Texts, q)
  BY <1>5 DEF Current
<1>8. k \in Seq(Int) \ {<<>>} /\ c = ZstringCost(alpha, k) /\ o = Occurrences(Texts, k)
  BY <1>1 DEF IsPattern
<1>9. IsPattern(alpha, Texts, new[id]) /\ new[id].key = k /\ new[id].occurrences = o
  BY <1>6, <1>7, <1>8 DEF IsPattern
<1>10. Current(alpha, Texts, new)
  BY <1>4, <1>9 DEF Current
<1> QED BY <1>1, <1>2, <1>4, <1>9, <1>10

(* An edit stays with what is true of the new key, or the old one is restored. *)
LEMMA EditStep ==
  ASSUME SearchOK, Edit
  PROVE  SearchOK'
<1>1. PICK kind, id : kind = Edits[cursor].kind /\ id = best[Edits[cursor].place]
  OBVIOUS
<1>2. phase = "edit" /\ Editing
  BY Zenon DEF Edit, Editing
<1>3. kind \in Kinds /\ id \in Range(best) /\ id \in DOMAIN pats
  BY <1>1, <1>2, EditPlace
<1>4. PICK p : p = pats[id]
  OBVIOUS
<1>5. PICK edited :
        edited = [pats EXCEPT ![id].key = EditedKey(kind, p.key), ![id].cost = EditedCost(kind, p),
                              ![id].occurrences = Occurrences(Texts, EditedKey(kind, p.key))]
  OBVIOUS
<1>6. PICK r : r = Scoring(edited, best)
  OBVIOUS
<1>7. /\ Applies(kind, p.key) /\ parses' = r.parses /\ latestBytes' = r.bytes /\ cursor' = cursor + 1
      /\ IF r.bytes < previousBytes
         THEN pats' = r.pats /\ previousBytes' = r.bytes
         ELSE pats' = Restored(r.pats, id, p) /\ UNCHANGED previousBytes
      /\ UNCHANGED <<settings, phase, reading, heap, refactor, best, savings, previousSavings, longest, passes, output>>
  BY <1>1, <1>4, <1>5, <1>6, Zenon DEF Edit
<1>8. /\ ReadOK /\ best \in Seq(DOMAIN pats) /\ Once(best) /\ HeapOk(pats, heap)
      /\ Range(heap) \intersect Range(best) = {} /\ refactor \in Seq(DOMAIN pats)
      /\ Current(settings.alpha, Texts, pats) /\ \A x \in Range(best) : pats[x].occurrences = Occurrences(Texts, pats[x].key)
      /\ previousBytes = SizeOf(pats, best)
  BY <1>2 DEF SearchOK, Lists, Cached, Baseline
<1>9. /\ DOMAIN edited = DOMAIN pats /\ \A x \in DOMAIN pats : x # id => edited[x] = pats[x]
      /\ Current(settings.alpha, Texts, edited) /\ HeapOk(edited, heap)
  BY <1>3, <1>4, <1>5, <1>7, EditedFacts, Zenon
<1>10. /\ After(edited, best, r.pats) /\ r.bytes = SizeOf(edited, best) /\ r.bytes \in Nat
       /\ DOMAIN r.parses = DOMAIN Texts
  BY <1>6, <1>8, <1>9, ScoringFacts
<1>11. HeapOk(r.pats, heap)
  BY <1>8, <1>9, <1>10, HeapAfter
<1>12. /\ Lists(pats', heap', best', refactor') /\ Cached(settings.alpha, Texts, pats', best')
       /\ previousBytes' = SizeOf(pats', best) /\ previousBytes' \in Nat
  <2>1. CASE r.bytes < previousBytes
    <3>1. pats' = r.pats /\ previousBytes' = r.bytes
      BY <1>7, <2>1
    <3>2. Lists(pats', heap', best', refactor') /\ Cached(settings.alpha, Texts, pats', best')
      BY <1>7, <1>8, <1>9, <1>10, <1>11, <3>1 DEF Lists, Cached, After, Everyplace
    <3>3. SizeOf(r.pats, best) = SizeOf(edited, best)
      BY <1>8, <1>9, <1>10, SameSize DEF After
    <3> QED BY <1>10, <3>1, <3>2, <3>3
  <2>2. CASE ~(r.bytes < previousBytes)
    <3>1. PICK new : new = Restored(r.pats, id, p)
      OBVIOUS
    <3>2. pats' = new /\ previousBytes' = previousBytes
      BY <1>7, <2>2, <3>1
    <3>3. /\ DOMAIN r.pats = DOMAIN pats /\ Current(settings.alpha, Texts, r.pats)
          /\ \A x \in DOMAIN pats : r.pats[x].key = edited[x].key
          /\ \A x \in Range(best) : r.pats[x].occurrences = Occurrences(Texts, r.pats[x].key)
      BY <1>9, <1>10 DEF After, Everyplace
    <3>4. /\ DOMAIN new = DOMAIN pats /\ \A x \in DOMAIN pats : x # id => new[x] = r.pats[x]
          /\ new[id].key = p.key /\ new[id].occurrences = Occurrences(Texts, p.key)
          /\ Current(settings.alpha, Texts, new)
      <4>1. IsPattern(settings.alpha, Texts, p)
        BY <1>3, <1>4, <1>8 DEF Current
      <4> QED BY <1>3, <3>1, <3>3, <4>1, RestoredFacts
    <3>5. \A x \in DOMAIN pats : new[x].key = pats[x].key
      BY <1>4, <1>9, <3>3, <3>4
    <3>6. SizeOf(new, best) = SizeOf(pats, best)
      BY <1>8, <3>5, SameSize
    <3>7. HeapOk(new, heap)
      <4>1. Range(heap) \subseteq DOMAIN pats
        BY <1>8, SeqFacts DEF HeapOk
      <4>2. \A x \in Range(heap) : new[x] = r.pats[x]
        BY <1>3, <1>8, <3>4, <4>1
      <4> QED BY <1>11, <3>3, <3>4, <4>2, HeapOkElsewhere
    <3>8. Cached(settings.alpha, Texts, new, best)
      <4>1. Range(best) \subseteq DOMAIN pats
        BY <1>8, SeqFacts
      <4> QED BY <1>3, <3>3, <3>4, <4>1 DEF Cached
    <3>9. Lists(new, heap, best, refactor)
      BY <1>8, <3>4, <3>7 DEF Lists
    <3>10. previousBytes \in Nat
      BY DEF SearchOK, Counted
    <3> QED BY <1>7, <1>8, <3>2, <3>6, <3>8, <3>9, <3>10
  <2> QED BY <2>1, <2>2
<1>13. Counted'
  BY <1>7, <1>10, <1>12 DEF SearchOK, Counted
<1>14. Baseline'
  <2>1. PICK new : new = pats'
    OBVIOUS
  <2>2. SizeOf(pats, best)' = SizeOf(new, best)
    BY <1>7, <2>1 DEF SizeOf, Texts, reading
  <2>3. previousBytes' = SizeOf(new, best)
    BY <1>12, <2>1
  <2> QED BY <1>2, <1>7, <2>2, <2>3 DEF Baseline
<1>15. Len(best') <= N /\ phase' \in Late /\ Texts # <<>>
  BY <1>2, <1>7 DEF SearchOK, Bounded, Late
<1> QED BY <1>7, <1>10, <1>12, <1>13, <1>14, <1>15, LateStep

----------------------------------------------------------------------------
(* Extraction and the report.                                              *)

(* The first heap has all short patterns and some of the long ones.        *)
LEMMA ExtractStep ==
  ASSUME SearchOK, Extract
  PROVE  SearchOK'
<1>1. phase = "extract" /\ Texts # <<>> /\ ReadOK /\ Fresh
  BY DEF Extract, SearchOK, Early
<1>2. PICK mem : mem = ExtractPatterns(settings.alpha, Texts)
  OBVIOUS
<1>3. /\ Current(settings.alpha, Texts, mem) /\ IsFiniteSet(DOMAIN mem)
      /\ \A p \in DOMAIN mem : p \in Seq(Int) \ {<<>>} /\ mem[p].key = p
  BY <1>1, <1>2, ExtractFacts DEF ReadOK
<1>4. Named(mem)
  BY <1>3 DEF Named, Current, IsPattern
<1>5. PICK low : low = {id \in DOMAIN mem : Len(id) <= CutoffLongPattern}
  OBVIOUS
<1>6. low \in SUBSET DOMAIN mem
  BY <1>5
<1>7. PICK table, short, long : /\ table = InTableOrder(DOMAIN mem) /\ short = Among(table, low)
                                /\ long = LongOnes(mem, Among(table, DOMAIN mem \ low))
  OBVIOUS
<1>8. PICK h, r : h = PushAll(mem, PushAll(mem, <<>>, short), long) /\ r = PushAll(mem, <<>>, long)
  OBVIOUS
<1>9. HeapOk(mem, h) /\ low \subseteq Range(h) /\ HeapOk(mem, r)
  BY <1>3, <1>4, <1>6, <1>7, <1>8, FirstHeaps, Zenon
<1>10. pats' = mem /\ heap' = h /\ refactor' = r
  BY <1>2, <1>5, <1>7, <1>8, Zenon DEF Extract
<1>11. /\ phase' = (IF settings.onlyRefactor THEN "output" ELSE "greedy")
       /\ UNCHANGED <<settings, reading, best, parses, totals, progress, output>>
  BY Zenon DEF Extract
<1>12. best' = <<>> /\ parses' = <<>> /\ Range(best') = {} /\ Once(best') /\ best' \in Seq(DOMAIN mem) /\ Len(best') = 0
  <2>1. best' = <<>> /\ parses' = <<>>
    BY <1>1, <1>11 DEF Fresh
  <2> QED BY <2>1, EmptyHeap
<1>13. Lists(pats', heap', best', refactor')
  BY <1>9, <1>10, <1>12 DEF Lists, HeapOk
<1>14. Cached(settings.alpha, Texts, pats, best)'
  BY <1>3, <1>10, <1>11, <1>12 DEF Cached, Texts, reading
<1>15. Shorts(pats', heap', best')
  BY <1>5, <1>9, <1>10 DEF Shorts
<1>16. Counted' /\ ReadOK' /\ (N \in Nat /\ settings.passes \in Nat /\ settings.level \in Nat /\ Texts # <<>>)'
  BY <1>1, <1>11 DEF SearchOK, Counted, ReadOK, Texts, N, reading, totals, progress
<1>17. phase' \in {"greedy", "output"} /\ (phase' = "output" => settings'.onlyRefactor)
  <2>1. CASE settings.onlyRefactor
    BY <1>11, <2>1
  <2>2. CASE ~settings.onlyRefactor
    BY <1>11, <2>2
  <2> QED BY <2>1, <2>2
<1>18. Bounded'
  <2>1. Target' \in Nat /\ N' \in Nat
    <3>1. CASE settings'.throwback
      <4>1. Target' = N' + Oversample
        BY <3>1 DEF Target
      <4> QED BY <1>16, <4>1, ConstantsAssumption DEF N
    <3>2. CASE ~settings'.throwback
      <4>1. Target' = N' + 0
        BY <3>2 DEF Target
      <4> QED BY <1>16, <4>1 DEF N
    <3> QED BY <3>1, <3>2
  <2> QED BY <1>12, <2>1 DEF Bounded
<1>19. Baseline'
  BY <1>17 DEF Baseline
<1>20. phase' \in Phases /\ phase' \notin Early
  BY <1>17 DEF Phases, Early
<1> QED BY <1>12, <1>13, <1>14, <1>15, <1>16, <1>18, <1>19, <1>20 DEF SearchOK

(* The report rates the list once more.                                    *)
LEMMA ReportSteps ==
  ASSUME SearchOK, Report
  PROVE  SearchOK'
<1>1. CASE PrintAbbreviations
  <2>1. PICK r : r = Scoring(pats, best)
    OBVIOUS
  <2>2. /\ Lists(r.pats, heap, best, refactor) /\ Cached(settings.alpha, Texts, r.pats, best)
        /\ DOMAIN r.parses = DOMAIN Texts
    BY <2>1, RatedFacts
  <2>3. /\ pats' = r.pats /\ parses' = r.parses /\ phase = "output" /\ phase' = "done"
        /\ UNCHANGED <<settings, reading, heap, refactor, best, previousSavings, latestBytes, previousBytes, progress>>
        /\ savings' = Total([a \in DOMAIN best |-> IF a <= N THEN r.pats[best[a]].savings ELSE 0])
    <3>1. /\ pats' = r.pats /\ parses' = r.parses
          /\ savings' = Total([a \in DOMAIN best |->
                                IF a <= N THEN [b \in DOMAIN best |-> r.pats[best[b]]][a].savings ELSE 0])
      BY <1>1, <2>1, Zenon DEF PrintAbbreviations, Leave
    <3>2. /\ phase = "output" /\ phase' = "done"
          /\ UNCHANGED <<settings, reading, heap, refactor, best, previousSavings, latestBytes, previousBytes, progress>>
      BY <1>1, Zenon DEF PrintAbbreviations
    <3>3. \A a \in DOMAIN best : [b \in DOMAIN best |-> r.pats[best[b]]][a] = r.pats[best[a]]
      OBVIOUS
    <3>4. [a \in DOMAIN best |-> IF a <= N THEN [b \in DOMAIN best |-> r.pats[best[b]]][a].savings ELSE 0]
          = [a \in DOMAIN best |-> IF a <= N THEN r.pats[best[a]].savings ELSE 0]
      BY <3>3, Zenon
    <3> QED BY <3>1, <3>2, <3>4
  <2>4. savings' \in Int
    <3>1. PICK n \in Nat : n = Len(best) /\ DOMAIN best = 1 .. n
      BY DEF SearchOK, Lists
    <3>2. PICK s : s = [a \in DOMAIN best |-> IF a <= N THEN r.pats[best[a]].savings ELSE 0]
      OBVIOUS
    <3>3. \A a \in 1 .. n : s[a] \in Int
      <4>1. \A a \in 1 .. n : r.pats[best[a]].savings \in Int
        <5>1. \A a \in 1 .. n : best[a] \in DOMAIN r.pats
          BY <2>2, <3>1 DEF Lists
        <5> QED BY <2>2, <5>1 DEF Cached, Current, IsPattern
      <4> QED BY <3>1, <3>2, <4>1
    <3>4. s = [a \in 1 .. n |-> s[a]]
      BY <3>1, <3>2, Zenon
    <3>5. Numbers(s, n)
      BY <3>3, <3>4, NumbersFrom
    <3>6. Total(s) \in Int
      BY <3>5, TotalSums
    <3> QED BY <2>3, <3>2, <3>6
  <2>5. Counted' /\ Baseline'
    BY <2>3, <2>4 DEF SearchOK, Counted, Baseline, progress
  <2>6. Len(best') <= N /\ phase' \in Late /\ Texts # <<>>
    BY <2>3 DEF SearchOK, Bounded, Late
  <2>7. Lists(pats', heap', best', refactor') /\ Cached(settings.alpha, Texts, pats', best')
    BY <2>2, <2>3
  <2> QED BY <2>2, <2>3, <2>5, <2>6, <2>7, LateStep
<1>2. CASE PrintOnlyRefactorings
  <2>1. /\ pats' = pats /\ phase = "output" /\ phase' = "done"
        /\ UNCHANGED <<settings, reading, heap, refactor, best, parses, totals, progress>>
    BY <1>2, Zenon DEF PrintOnlyRefactorings
  <2>2. Lists(pats', heap', best', refactor') /\ Cached(settings.alpha, Texts, pats', best')
    BY <2>1 DEF SearchOK
  <2>3. Counted' /\ Baseline'
    BY <2>1 DEF SearchOK, Counted, Baseline, progress, totals
  <2>4. /\ Len(best') <= N /\ phase' \in Late /\ Texts # <<>>
        /\ parses' # <<>> => DOMAIN parses' = DOMAIN Texts
    BY <2>1 DEF SearchOK, Bounded, Late
  <2> QED BY <2>1, <2>2, <2>3, <2>4, LateStep
<1> QED BY <1>1, <1>2, Zenon DEF Report

(* Every operation after reading keeps the invariant, and so does doing nothing. *)
LEMMA SearchSteps ==
  ASSUME SearchOK, Extract \/ Greedy \/ Refine \/ EditKeys \/ Report \/ UNCHANGED vars
  PROVE  SearchOK'
<1>1. CASE Extract
  BY <1>1, ExtractStep
<1>2. CASE Greedy
  BY <1>2, PutBackStep, AcceptStep, ThrowBackStep, EndChoiceStep, Zenon DEF Greedy
<1>3. CASE Refine
  BY <1>3, SkipRunnerUpStep, RefineSteps, RatedSteps, Zenon DEF Refine
<1>4. CASE EditKeys
  BY <1>4, SkipEditStep, EditStep, RatedSteps, Zenon DEF EditKeys
<1>5. CASE Report
  BY <1>5, ReportSteps
<1>6. CASE UNCHANGED vars
  <2>1. UNCHANGED <<settings, phase, read, pats, heap, refactor, best, parses, totals, progress>>
    BY <1>6 DEF vars, reading, found
  <2>2. ReadOK' /\ Counted' /\ Bounded' /\ Baseline'
    BY <2>1 DEF SearchOK, ReadOK, Texts, Counted, Bounded, Baseline, SizeOf, Target, N, totals, progress
  <2>3. Cached(settings.alpha, Texts, pats, best)' /\ Lists(pats', heap', best', refactor')
        /\ (phase = "greedy" => Shorts(pats, heap, best))' /\ (phase \in Early => Fresh)'
    BY <2>1 DEF SearchOK, Texts, Fresh, totals
  <2>4. (parses # <<>> => DOMAIN parses = DOMAIN Texts)'
        /\ (phase \in Phases /\ N \in Nat /\ settings.passes \in Nat /\ settings.level \in Nat)'
        /\ (phase \notin {"open", "read", "failed"} => Texts # <<>>)'
    BY <2>1 DEF SearchOK, Texts, N, Phases
  <2> QED BY <2>2, <2>3, <2>4 DEF SearchOK
<1> QED BY <1>1, <1>2, <1>3, <1>4, <1>5, <1>6

----------------------------------------------------------------------------
(* The heap.                                                               *)

----------------------------------------------------------------------------
(* What the invariant says.                                                *)

(* The invariant says that the heap has what is not chosen, once, in its order. *)
LEMMA SearchHeap ==
  ASSUME SearchOK
  PROVE  HeapSound
<1>1. /\ HeapOk(pats, heap) /\ best \in Seq(DOMAIN pats) /\ Once(best)
      /\ Range(heap) \intersect Range(best) = {}
      /\ phase = "greedy" => Shorts(pats, heap, best)
  BY DEF SearchOK, Lists
<1>2. HeapOrdered
  BY <1>1 DEF HeapOk, InHeapOrder, HeapOrdered
<1>3. Cardinality(Range(heap \o best)) = Len(heap \o best)
  <2>1. heap \in Seq(DOMAIN pats) /\ Once(heap)
    BY <1>1 DEF HeapOk
  <2>2. PICK s : s = heap \o best
    OBVIOUS
  <2>3. s \in Seq(DOMAIN pats) /\ Once(s)
    BY <1>1, <2>1, <2>2, ConcatFacts
  <2>4. PICK n \in Nat : n = Len(s) /\ DOMAIN s = 1 .. n
    BY <2>3
  <2>5. s = [i \in 1 .. n |-> s[i]]
    BY <2>3, <2>4
  <2>6. s \in Bijection(1 .. n, Range(s))
    BY <2>3, <2>4, <2>5 DEF Bijection, Injection, Surjection, IsInjective, Range, Once
  <2>7. Cardinality(1 .. n) = n /\ IsFiniteSet(1 .. n)
    <3>1. 1 \in Int /\ n \in Int
      OBVIOUS
    <3>2. IsFiniteSet(1 .. n) /\ Cardinality(1 .. n) = IF 1 > n THEN 0 ELSE n - 1 + 1
      BY <3>1, FS_Interval
    <3>3. (IF 1 > n THEN 0 ELSE n - 1 + 1) = n
      OBVIOUS
    <3> QED BY <3>2, <3>3
  <2>8. Cardinality(Range(s)) = n
    BY <2>6, <2>7, FS_Bijection DEF ExistsBijection
  <2> QED BY <2>2, <2>4, <2>8
<1>4. NoneLost
  BY <1>1, <1>3 DEF NoneLost, Shorts
<1> QED BY <1>2, <1>4 DEF HeapSound

(* What is kept of the patterns chosen is true.                            *)
LEMMA SearchCaches ==
  ASSUME SearchOK
  PROVE  CachesCurrent
<1>1. Range(best) \subseteq DOMAIN pats
  BY SeqFacts DEF SearchOK, Lists
<1> QED BY <1>1 DEF SearchOK, Cached, Current, IsPattern, CachesCurrent

(* The size to compare with is that of the list.                           *)
LEMMA SearchBaseline ==
  ASSUME SearchOK
  PROVE  BaselineTrue
<1>1. PICK r : r = Scoring(pats, best)
  OBVIOUS
<1>2. r.bytes = SizeOf(pats, best)
  BY <1>1, RatedFacts
<1> QED BY <1>1, <1>2 DEF SearchOK, Baseline, BaselineTrue, Cuts

(* The types.                                                              *)
LEMMA SearchTypes ==
  ASSUME SearchOK
  PROVE  TypeOK
<1>1. Range(heap) \union Range(refactor) \union Range(best) \subseteq DOMAIN pats
  BY SeqFacts DEF SearchOK, Lists, HeapOk
<1>2. ASSUME NEW p \in DOMAIN pats
      PROVE  /\ Len(pats[p].key) > 0 /\ pats[p].cost \in Nat /\ pats[p].frequency \in Nat
             /\ pats[p].savings \in Int
  <2>1. PICK q, k : q = pats[p] /\ k = q.key
    OBVIOUS
  <2>2. IsPattern(settings.alpha, Texts, q)
    BY <1>2, <2>1 DEF SearchOK, Cached, Current
  <2>3. k \in Seq(Int) /\ k # <<>> /\ q.cost = ZstringCost(settings.alpha, k)
    BY <2>1, <2>2 DEF IsPattern
  <2>4. Len(k) > 0
    BY <2>3
  <2>5. q.cost \in Nat
    BY <2>3, CostTotal
  <2> QED BY <2>1, <2>2, <2>4, <2>5 DEF IsPattern
<1>3. {savings, previousSavings, latestBytes, previousBytes} \subseteq Int /\ cursor \in Nat
      /\ passes <= settings.passes /\ Len(best) <= Target
  BY DEF SearchOK, Counted, Bounded
<1> QED BY <1>1, <1>2, <1>3 DEF SearchOK, TypeOK

----------------------------------------------------------------------------
(* The command line.                                                       *)

\* What may stand on a command line, and what getopt is left.
Words == (UNION {Range(args) : args \in CommandLines}) \union {"--processed"}

(* A word is the numeral of a natural number, or of none.                  *)
LEMMA WordFacts ==
  /\ \A args \in CommandLines : args \in Seq(Words)
  /\ \A w \in Words : Number(w) \in Nat
  /\ "--processed" \in Words
<1>1. ASSUME NEW args \in CommandLines PROVE args \in Seq(Words) /\ \A w \in Range(args) : Number(w) \in Nat
  <2>1. args \in Seq(STRING) /\ \A i \in DOMAIN args : Number(args[i]) \in Nat
    BY InputAssumption
  <2>2. Range(args) \subseteq Words
    BY DEF Words
  <2>3. args \in Seq(Words)
    BY <2>1, <2>2, SeqWithin
  <2> QED BY <2>1, <2>3 DEF Range
<1>2. \A w \in Words : Number(w) \in Nat
  <2>1. ASSUME NEW w \in Words, w # "--processed" PROVE Number(w) \in Nat
    <3>1. PICK args \in CommandLines : w \in Range(args)
      BY <2>1 DEF Words
    <3> QED BY <1>1, <3>1
  <2>2. Number("--processed") \in Nat
    BY InputAssumption
  <2> QED BY <2>1, <2>2
<1> QED BY <1>1, <1>2 DEF Words

\* What is asked for.
Asked(s) ==
  /\ {"abbrevs", "passes", "deepPasses", "level", "version", "directory"} \subseteq DOMAIN s
  /\ s.abbrevs \in Nat /\ s.passes \in Nat /\ s.deepPasses \in Nat /\ s.level \in Nat /\ s.version \in Nat
  /\ s.directory \in DOMAIN Disk

(* A setting that is not a number may be anything.                         *)
LEMMA AskedOther ==
  ASSUME NEW s, Asked(s), NEW v,
         NEW f, f \notin {"abbrevs", "passes", "deepPasses", "level", "version", "directory"}
  PROVE  Asked([s EXCEPT ![f] = v])
  BY DEF Asked

(* A setting that is a number may be any.                                  *)
LEMMA AskedNumber ==
  ASSUME NEW s, Asked(s), NEW v \in Nat, NEW f \in {"abbrevs", "passes", "deepPasses", "level", "version"}
  PROVE  Asked([s EXCEPT ![f] = v])
  BY DEF Asked

(* Those of no command line.                                               *)
LEMMA DefaultsAsked ==
  Asked(Defaults)
<1>1. "." \in DOMAIN Disk
  BY ConstantsAssumption
<1> QED BY <1>1 DEF Asked, Defaults

\* What the first scan makes of an argument.
Understood(p) == Asked(p.s) /\ p.takes \in Nat

(* A setting that the first scan makes.                                    *)
LEMMA UnderstoodAs ==
  ASSUME NEW s, Asked(s), NEW n \in Nat
  PROVE  Understood([s |-> s, takes |-> n])
  BY DEF Understood

(* The first scan makes settings of the settings and an argument.             *)
LEMMA PrescannedFacts ==
  ASSUME NEW s, Asked(s), NEW args \in Seq(Words), NEW i \in DOMAIN args
  PROVE  Understood(Prescanned(s, args, i))
<1> DEFINE arg == args[i]
           n1 == NumberAt(args, i + 1)
           n2 == IF n1 > 0 THEN NumberAt(args, i + 2) ELSE 0
           next == args[i + 1]
           Takes(n, x) == [s |-> x, takes |-> n]
<1>1. n1 \in Nat /\ n2 \in Nat
  <2>1. \A j \in DOMAIN args : args[j] \in Words
    OBVIOUS
  <2>2. \A j : NumberAt(args, j) \in Nat
    BY <2>1, WordFacts DEF NumberAt
  <2> QED BY <2>2
<1> HIDE DEF n1, n2
<1>2. \A n \in Nat : Or(n1, n) \in Nat /\ Or(n2, n) \in Nat
  BY <1>1 DEF Or
<1>3. \A v \in Nat : Understood(Takes(1, [s EXCEPT !.level = v]))
  BY AskedNumber, UnderstoodAs
<1>4. Understood(Takes(IF n1 > 0 THEN 2 ELSE 1, [s EXCEPT !.level = 2, !.passes = Or(n1, @)]))
  <2>1. PICK m : m = Or(n1, s.passes) /\ m \in Nat
    BY <1>2 DEF Asked
  <2>2. Asked([s EXCEPT !.level = 2, !.passes = m])
    BY <2>1 DEF Asked
  <2>3. [s EXCEPT !.level = 2, !.passes = Or(n1, @)] = [s EXCEPT !.level = 2, !.passes = m]
    BY <2>1
  <2> QED BY <2>2, <2>3, UnderstoodAs
<1>5. Understood(LET passes_ == Or(n1, s.passes)
                     deep   == Or(n2, s.deepPasses)
                 IN  Takes(1 + (IF n1 > 0 THEN 1 ELSE 0) + (IF n2 > 0 THEN 1 ELSE 0),
                       [s EXCEPT !.level = 3, !.deepPasses = deep,
                                 !.passes = IF passes_ < deep THEN deep ELSE passes_]))
  <2>1. PICK m : m = Or(n1, s.passes) /\ m \in Nat
    BY <1>2 DEF Asked
  <2>2. PICK d : d = Or(n2, s.deepPasses) /\ d \in Nat
    BY <1>2 DEF Asked
  <2>3. PICK k : k = IF m < d THEN d ELSE m
    OBVIOUS
  <2>4. k \in Nat
    BY <2>1, <2>2, <2>3
  <2>5. Asked([s EXCEPT !.level = 3, !.deepPasses = d, !.passes = k])
    BY <2>2, <2>4 DEF Asked
  <2>6. PICK t : t = 1 + (IF n1 > 0 THEN 1 ELSE 0) + (IF n2 > 0 THEN 1 ELSE 0) /\ t \in Nat
    OBVIOUS
  <2>7. Understood(Takes(t, [s EXCEPT !.level = 3, !.deepPasses = d, !.passes = k]))
    BY <2>5, <2>6, UnderstoodAs
  <2> QED BY <2>1, <2>2, <2>3, <2>6, <2>7
<1>6. \A v \in Nat : Understood(Takes(1, [s EXCEPT !.version = v]))
  BY AskedNumber, UnderstoodAs
<1>7. Understood(Takes(1, [s EXCEPT !.round3 = TRUE])) /\ Understood(Takes(1, [s EXCEPT !.onlyRefactor = TRUE]))
  BY AskedOther, UnderstoodAs
<1>8. Understood(Takes(2, [s EXCEPT !.infodump = next])) /\ Understood(Takes(2, [s EXCEPT !.txd = next]))
  BY AskedOther, UnderstoodAs
<1>9. Understood(Takes(2, [s EXCEPT !.alpha = WithRow(@, SubSeq(arg, 3, 4), Bytes(next))]))
  BY AskedOther, UnderstoodAs
<1>10. Understood(Takes(0, s))
  BY UnderstoodAs
<1> DEFINE c1 == arg \in {"-x0", "-x1"}
           c2 == arg = "-x2"
           c3 == arg = "-x3"
           c4 == arg \in {"-v1", "-v2", "-v3"}
           c5 == arg \in {"-v4", "-v5", "-v6", "-v7"}
           c6 == arg = "-v8"
           c7 == arg = "-r3"
           c8 == arg = "--infodump" /\ i < Len(args)
           c9 == arg = "--txd" /\ i < Len(args)
           c10 == arg = "--onlyrefactor"
           c11 == arg \in {"--a0", "--a1", "--a2"} /\ i < Len(args)
<1>11. PICK e1, e2, e3, e4, e5, e6, e7, e8, e9, e10, e11, e12 :
         /\ e1 = Takes(1, [s EXCEPT !.level = IF arg = "-x0" THEN 0 ELSE 1])
         /\ e2 = Takes(IF n1 > 0 THEN 2 ELSE 1, [s EXCEPT !.level = 2, !.passes = Or(n1, @)])
         /\ e3 = (LET asked == Or(n1, s.passes)
                      deep  == Or(n2, s.deepPasses)
                  IN  Takes(1 + (IF n1 > 0 THEN 1 ELSE 0) + (IF n2 > 0 THEN 1 ELSE 0),
                            [s EXCEPT !.level = 3, !.deepPasses = deep,
                                      !.passes = IF asked < deep THEN deep ELSE asked]))
         /\ e4 = Takes(1, [s EXCEPT !.version = 3]) /\ e5 = Takes(1, [s EXCEPT !.version = 5])
         /\ e6 = Takes(1, [s EXCEPT !.version = 8]) /\ e7 = Takes(1, [s EXCEPT !.round3 = TRUE])
         /\ e8 = Takes(2, [s EXCEPT !.infodump = next]) /\ e9 = Takes(2, [s EXCEPT !.txd = next])
         /\ e10 = Takes(1, [s EXCEPT !.onlyRefactor = TRUE])
         /\ e11 = Takes(2, [s EXCEPT !.alpha = WithRow(@, SubSeq(arg, 3, 4), Bytes(next))])
         /\ e12 = Takes(0, s)
  BY Zenon
<1>12. Prescanned(s, args, i)
       = CASE c1 -> e1 [] c2 -> e2 [] c3 -> e3 [] c4 -> e4 [] c5 -> e5 [] c6 -> e6 [] c7 -> e7
           [] c8 -> e8 [] c9 -> e9 [] c10 -> e10 [] c11 -> e11 [] OTHER -> e12
  BY Zenon, <1>11 DEF Prescanned, n1, n2
<1> HIDE DEF c1, c2, c3, c4, c5, c6, c7, c8, c9, c10, c11
<1>13. /\ Understood(e1) /\ Understood(e2) /\ Understood(e3) /\ Understood(e4) /\ Understood(e5)
       /\ Understood(e6) /\ Understood(e7) /\ Understood(e8) /\ Understood(e9) /\ Understood(e10)
       /\ Understood(e11) /\ Understood(e12)
  <2>1. Understood(e1)
    <3>1. PICK v : v = (IF arg = "-x0" THEN 0 ELSE 1)
      OBVIOUS
    <3>2. v \in Nat
      BY <3>1
    <3>3. e1 = Takes(1, [s EXCEPT !.level = v])
      BY Zenon, <1>11, <3>1
    <3> QED BY <1>3, <3>2, <3>3
  <2>2. Understood(e2) /\ Understood(e3)
    BY Zenon, <1>4, <1>5, <1>11
  <2>3. Understood(e4) /\ Understood(e5) /\ Understood(e6)
    BY <1>6, <1>11
  <2>4. Understood(e7) /\ Understood(e8) /\ Understood(e9) /\ Understood(e10) /\ Understood(e11) /\ Understood(e12)
    BY Zenon, <1>7, <1>8, <1>9, <1>10, <1>11
  <2> QED BY <2>1, <2>2, <2>3, <2>4
<1> QED BY Zenon, <1>12, <1>13

(* The first scan.                                                         *)
LEMMA PrescanFold ==
  ASSUME NEW args
  PROVE  Prescan(args)
         = Folding("prescan", args, [s |-> Defaults, next |-> 1, left |-> <<>>],
                   PlacesOf(args))[DOMAIN PlacesOf(args)]
  BY DEF Prescan, PrescanStep, FoldLeftDomain, FoldLeft, MapThenFoldSet, Folding, StepOf, ReaderStep, PlacesOf

(* The second.                                                             *)
LEMMA GetoptFold ==
  ASSUME NEW s, NEW args, NEW directories
  PROVE  Getopt(s, args, directories)
         = Folding("getopt", [args |-> args, directories |-> directories], [s |-> s, next |-> 1],
                   PlacesOf(args))[DOMAIN PlacesOf(args)].s
  BY DEF Getopt, GetoptStep, FoldLeftDomain, FoldLeft, MapThenFoldSet, Folding, StepOf, ReaderStep, PlacesOf

\* f goes through the states of a fold over n places.
Goes(fold, par, base, n, f, end) ==
  f[0] = base /\ f[n] = end /\ \A k \in 1 .. n : f[k] = StepOf(fold, par, f[k - 1], k)

(* A fold over the places of a sequence.                                   *)
LEMMA UnrolledPlaces ==
  ASSUME NEW fold, NEW par, NEW base, NEW S, NEW s \in Seq(S), NEW end,
         end = Folding(fold, par, base, PlacesOf(s))[DOMAIN PlacesOf(s)]
  PROVE  \E f : Goes(fold, par, base, Len(s), f, end)
<1>1. PICK n, seq : n \in Nat /\ n = Len(s) /\ seq = PlacesOf(s) /\ Len(seq) = n /\ DOMAIN seq = 1 .. n
                            /\ \A i \in 1 .. n : seq[i] = i
  BY PlacesFacts
<1>2. Len(seq) \in Nat /\ DOMAIN seq = 1 .. Len(seq)
  BY <1>1
<1>3. PICK f : Unrolls(fold, par, base, seq, f, Folding(fold, par, base, seq)[DOMAIN seq])
  BY <1>2, FoldingUnrolls
<1>4. /\ f[0] = base /\ f[n] = Folding(fold, par, base, seq)[DOMAIN seq]
      /\ \A k \in 1 .. n : f[k] = StepOf(fold, par, f[k - 1], seq[k])
  BY <1>1, <1>3, Zenon DEF Unrolls
<1>5. \A k \in 1 .. n : f[k] = StepOf(fold, par, f[k - 1], k)
  BY <1>1, <1>4, Zenon
<1>6. Goes(fold, par, base, n, f, end)
  BY <1>1, <1>4, <1>5, Zenon DEF Goes
<1> QED BY <1>1, <1>6, Zenon

\* A state of the first scan.
Scans(st) == Asked(st.s) /\ st.left \in Seq(Words)

(* A step of the first scan.                                               *)
LEMMA PrescanStepFacts ==
  ASSUME NEW args \in Seq(Words), NEW i \in DOMAIN args, NEW st, Scans(st)
  PROVE  Scans(PrescanStep(args, st, i))
<1>1. CASE i < st.next
  BY <1>1, Zenon DEF PrescanStep
<1>2. CASE ~(i < st.next)
  <2>1. PICK p : p = Prescanned(st.s, args, i)
    OBVIOUS
  <2>2. Asked(p.s) /\ p.takes \in Nat
    BY <2>1, PrescannedFacts DEF Scans, Understood
  <2>3. PICK new : new = PrescanStep(args, st, i)
    OBVIOUS
  <2>4. /\ new.s = p.s
        /\ new.left = IF p.takes = 0 THEN Append(st.left, args[i])
                      ELSE st.left \o [j \in 1 .. p.takes |-> "--processed"]
    BY <1>2, <2>1, <2>3 DEF PrescanStep
  <2>5. args[i] \in Words
    OBVIOUS
  <2>6. PICK m, more : m \in Nat /\ m = p.takes /\ more = [j \in 1 .. m |-> "--processed"]
    BY <2>2
  <2>7. more \in Seq(Words)
    <3>1. more \in [1 .. m -> Words]
      BY <2>6, WordFacts
    <3> QED BY <2>6, <3>1, FunctionIsSeq
  <2>8. new.left \in Seq(Words)
    <3>1. st.left \in Seq(Words)
      BY DEF Scans
    <3>2. Append(st.left, args[i]) \in Seq(Words) /\ st.left \o more \in Seq(Words)
      BY <2>5, <2>7, <3>1, AppendFacts, ConcatFacts
    <3> QED BY <2>4, <2>6, <3>2
  <2> QED BY <2>2, <2>3, <2>4, <2>8 DEF Scans
<1> QED BY <1>1, <1>2

(* The first scan makes settings, and leaves words.                        *)
LEMMA PrescanFacts ==
  ASSUME NEW args \in Seq(Words)
  PROVE  Scans(Prescan(args))
<1>1. PICK n \in Nat : n = Len(args) /\ DOMAIN args = 1 .. n
  OBVIOUS
<1>2. PICK f : /\ f[0] = [s |-> Defaults, next |-> 1, left |-> <<>>] /\ f[n] = Prescan(args)
               /\ \A k \in 1 .. n : f[k] = PrescanStep(args, f[k - 1], k)
  <2>1. PICK f : /\ f[0] = [s |-> Defaults, next |-> 1, left |-> <<>>] /\ f[n] = Prescan(args)
                 /\ \A k \in 1 .. n : f[k] = StepOf("prescan", args, f[k - 1], k)
    <3>1. PICK base : base = [s |-> Defaults, next |-> 1, left |-> <<>>]
      OBVIOUS
    <3>2. PICK end : end = Folding("prescan", args, base, PlacesOf(args))[DOMAIN PlacesOf(args)]
      OBVIOUS
    <3>3. Prescan(args) = end
      BY <3>1, <3>2, PrescanFold, Zenon
    <3>4. PICK f : Goes("prescan", args, base, n, f, end)
      BY <1>1, <3>2, UnrolledPlaces
    <3>5. /\ f[0] = base /\ f[n] = end
          /\ \A k \in 1 .. n : f[k] = StepOf("prescan", args, f[k - 1], k)
      BY <3>4 DEF Goes
    <3> QED BY <3>1, <3>3, <3>4, <3>5, Zenon
  <2>2. \A st, k : StepOf("prescan", args, st, k) = PrescanStep(args, st, k)
    BY Zenon DEF StepOf, ReaderStep
  <2>3. \A k \in 1 .. n : f[k] = PrescanStep(args, f[k - 1], k)
    BY <2>1, <2>2, Zenon
  <2> QED BY <2>1, <2>3, Zenon
<1> DEFINE G == {k \in 0 .. n : Scans(f[k])}
<1>3. 0 \in G
  <2>1. Scans([s |-> Defaults, next |-> 1, left |-> <<>>])
    BY DefaultsAsked DEF Scans
  <2> QED BY <1>2, <2>1
<1>4. ASSUME NEW k \in 1 .. n, k - 1 \in G PROVE k \in G
  <2>1. Scans(f[k - 1]) /\ k \in DOMAIN args
    BY <1>1, <1>4
  <2>2. Scans(f[k])
    BY <1>2, <2>1, PrescanStepFacts, Zenon
  <2> QED BY <2>2
<1>5. \A k \in 0 .. n : k \in G
  <2> HIDE DEF G
  <2> QED BY <1>3, <1>4, BoundedInduction
<1> QED BY <1>2, <1>5

(* An option makes settings of settings.                                   *)
LEMMA OptionFacts ==
  ASSUME NEW s, Asked(s), NEW arg, NEW value, Number(value) \in Nat \/ ~Valued(arg)
  PROVE  Asked(Option(s, arg, value, DOMAIN Disk))
<1>1. /\ Asked([s EXCEPT !.custom = TRUE]) /\ Asked([s EXCEPT !.throwback = TRUE])
      /\ Asked([s EXCEPT !.inform = TRUE]) /\ Asked([s EXCEPT !.verbose = TRUE])
      /\ Asked([s EXCEPT !.round3 = TRUE])
  BY Zenon, AskedOther
<1>2. Asked([s EXCEPT !.format = IF value \in DOMAIN Formats THEN Formats[value] ELSE @])
  BY Zenon, AskedOther
<1>3. ASSUME arg \in {"-n", "--number"} PROVE Asked([s EXCEPT !.abbrevs = Or(Number(value), 96)])
  <2>1. Number(value) \in Nat
    BY <1>3, Zenon DEF Valued
  <2>2. PICK m : m = Or(Number(value), 96) /\ m \in Nat
    BY <2>1 DEF Or
  <2> QED BY <2>2, AskedNumber
<1>4. ASSUME arg \in DOMAIN Disk PROVE Asked([s EXCEPT !.directory = arg])
  BY <1>4 DEF Asked
<1> DEFINE c1 == arg \in {"-a", "-A", "--alphabet"}
           c2 == arg \in {"-b", "--throwback"}
           c3 == arg \in {"-n", "--number"}
           c4 == arg \in {"-o", "--output"}
           c5 == arg \in {"-i", "--inform"}
           c6 == arg \in {"-v", "--verbose"}
           c7 == arg = "--r3"
           c8 == arg \in DOMAIN Disk
<1>5. PICK e1, e2, e3, e4, e5, e6, e7, e8 :
        /\ e1 = [s EXCEPT !.custom = TRUE] /\ e2 = [s EXCEPT !.throwback = TRUE]
        /\ e3 = [s EXCEPT !.abbrevs = Or(Number(value), 96)]
        /\ e4 = [s EXCEPT !.format = IF value \in DOMAIN Formats THEN Formats[value] ELSE @]
        /\ e5 = [s EXCEPT !.inform = TRUE] /\ e6 = [s EXCEPT !.verbose = TRUE]
        /\ e7 = [s EXCEPT !.round3 = TRUE] /\ e8 = [s EXCEPT !.directory = arg]
  BY Zenon
<1>6. Option(s, arg, value, DOMAIN Disk)
      = CASE c1 -> e1 [] c2 -> e2 [] c3 -> e3 [] c4 -> e4 [] c5 -> e5 [] c6 -> e6 [] c7 -> e7
          [] c8 -> e8 [] OTHER -> s
  BY Zenon, <1>5 DEF Option
<1>7. /\ Asked(e1) /\ Asked(e2) /\ (c3 => Asked(e3)) /\ Asked(e4) /\ Asked(e5) /\ Asked(e6) /\ Asked(e7)
      /\ (c8 => Asked(e8))
  BY Zenon, <1>1, <1>2, <1>3, <1>4, <1>5
<1> HIDE DEF c1, c2, c3, c4, c5, c6, c7, c8
<1> QED BY Zenon, <1>6, <1>7

(* The second scan makes settings of settings.                             *)
LEMMA GetoptFacts ==
  ASSUME NEW s, Asked(s), NEW args \in Seq(Words)
  PROVE  Asked(Getopt(s, args, DOMAIN Disk))
<1>1. PICK n \in Nat : n = Len(args) /\ DOMAIN args = 1 .. n
  OBVIOUS
<1>2. PICK par : par = [args |-> args, directories |-> DOMAIN Disk]
                 /\ par.args = args /\ par.directories = DOMAIN Disk
  <2>1. PICK d : d = DOMAIN Disk
    OBVIOUS
  <2>2. PICK par : par = [args |-> args, directories |-> d]
    OBVIOUS
  <2>3. par.args = args /\ par.directories = d
    BY <2>2
  <2> QED BY <2>1, <2>2, <2>3, Zenon
<1>3. PICK f : /\ f[0] = [s |-> s, next |-> 1] /\ f[n].s = Getopt(s, args, DOMAIN Disk)
               /\ \A k \in 1 .. n : f[k] = GetoptStep(par, f[k - 1], k)
  <2>1. PICK f : /\ f[0] = [s |-> s, next |-> 1] /\ f[n].s = Getopt(s, args, DOMAIN Disk)
                 /\ \A k \in 1 .. n : f[k] = StepOf("getopt", par, f[k - 1], k)
    <3>1. PICK base : base = [s |-> s, next |-> 1]
      OBVIOUS
    <3>2. PICK end : end = Folding("getopt", par, base, PlacesOf(args))[DOMAIN PlacesOf(args)]
      OBVIOUS
    <3>3. Getopt(s, args, DOMAIN Disk) = end.s
      BY <1>2, <3>1, <3>2, GetoptFold, Zenon
    <3>4. PICK f : Goes("getopt", par, base, n, f, end)
      BY <1>1, <3>2, UnrolledPlaces
    <3>5. /\ f[0] = base /\ f[n] = end
          /\ \A k \in 1 .. n : f[k] = StepOf("getopt", par, f[k - 1], k)
      BY <3>4 DEF Goes
    <3> QED BY <3>1, <3>3, <3>4, <3>5, Zenon
  <2>2. \A st, k : StepOf("getopt", par, st, k) = GetoptStep(par, st, k)
    BY Zenon DEF StepOf, ReaderStep
  <2>3. \A k \in 1 .. n : f[k] = GetoptStep(par, f[k - 1], k)
    BY <2>1, <2>2, Zenon
  <2> QED BY <2>1, <2>3, Zenon
<1>4. ASSUME NEW st, Asked(st.s), NEW k \in 1 .. n
      PROVE  Asked(GetoptStep(par, st, k).s)
  <2>1. CASE k < st.next \/ (Valued(args[k]) /\ k = n)
    BY <1>1, <1>2, <1>4, <2>1, Zenon DEF GetoptStep
  <2>2. CASE ~(k < st.next \/ (Valued(args[k]) /\ k = n)) /\ Valued(args[k])
    <3>1. k + 1 \in DOMAIN args
      BY <1>1, <2>2
    <3>2. args[k + 1] \in Words
      BY <3>1
    <3>3. Asked(Option(st.s, args[k], args[k + 1], DOMAIN Disk))
      BY <1>4, <3>2, WordFacts, OptionFacts
    <3>4. GetoptStep(par, st, k).s = Option(st.s, args[k], args[k + 1], DOMAIN Disk)
      BY <1>1, <1>2, <2>2 DEF GetoptStep
    <3> QED BY <3>3, <3>4
  <2>3. CASE ~(k < st.next \/ (Valued(args[k]) /\ k = n)) /\ ~Valued(args[k])
    <3>1. Asked(Option(st.s, args[k], "", DOMAIN Disk))
      BY <1>4, <2>3, OptionFacts
    <3>2. GetoptStep(par, st, k).s = Option(st.s, args[k], "", DOMAIN Disk)
      BY <1>1, <1>2, <2>3 DEF GetoptStep
    <3> QED BY <3>1, <3>2
  <2> QED BY <2>1, <2>2, <2>3
<1> DEFINE G == {k \in 0 .. n : Asked(f[k].s)}
<1>5. 0 \in G
  BY <1>3
<1>6. ASSUME NEW k \in 1 .. n, k - 1 \in G PROVE k \in G
  <2>1. Asked(f[k - 1].s)
    BY <1>6
  <2>2. Asked(f[k].s)
    BY <1>3, <1>4, <2>1, Zenon
  <2> QED BY <2>2
<1>7. \A k \in 0 .. n : k \in G
  <2> HIDE DEF G
  <2> QED BY <1>5, <1>6, BoundedInduction
<1> QED BY <1>3, <1>7

(* What is asked for on a command line.                                    *)
LEMMA OptionsFacts ==
  ASSUME NEW args \in CommandLines
  PROVE  Asked(Options(args, Disk))
<1>1. PICK scan : scan = Prescan(args) /\ Scans(scan)
  BY PrescanFacts, WordFacts
<1>2. PICK s : s = Getopt(scan.s, scan.left, DOMAIN Disk) /\ Asked(s)
  BY <1>1, GetoptFacts DEF Scans
<1>3. PICK v : v = (IF s.round3 THEN 3 ELSE s.version)
  OBVIOUS
<1>4. PICK w : w = (IF v = 0 THEN 3 ELSE v) /\ w \in Nat
  BY <1>2, <1>3 DEF Asked
<1>5. PICK d, b : d = (v = 0) /\ b = (s.inform \/ Disk[s.directory].gametext # <<>>)
  BY Zenon
<1>6. Asked([s EXCEPT !.version = w, !.detect = d, !.inform = b])
  BY <1>2, <1>4 DEF Asked
<1>7. Options(args, Disk) = [s EXCEPT !.version = w, !.detect = d, !.inform = b]
  BY Zenon, <1>1, <1>2, <1>3, <1>4, <1>5 DEF Options
<1> QED BY <1>6, <1>7

----------------------------------------------------------------------------
(* What the readers make of bytes.                                         *)

(* Two quotes are one.                                                     *)
LEMMA QuotesFold ==
  ASSUME NEW s
  PROVE  ReplaceDoubleQuotes(s)
         = Folding("quotes", s, [next |-> 1, out |-> <<>>], PlacesOf(s))[DOMAIN PlacesOf(s)].out
  BY DEF ReplaceDoubleQuotes, QuotesStep, FoldLeftDomain, FoldLeft, MapThenFoldSet, Folding, StepOf, ReaderStep, PlacesOf

(* The number at the start of a line.                                      *)
LEMMA AtoiFold ==
  ASSUME NEW s
  PROVE  Atoi(s) = Folding("atoi", 0, [n |-> 0, digits |-> FALSE, over |-> FALSE], s)[DOMAIN s].n
  BY DEF Atoi, AtoiStep, FoldLeft, MapThenFoldSet, Folding, StepOf, ReaderStep

(* Characters without the second of two quotes are characters.             *)
LEMMA QuotesFacts ==
  ASSUME NEW s \in Seq(Int)
  PROVE  ReplaceDoubleQuotes(s) \in Seq(Int)
<1>1. PICK n \in Nat : n = Len(s) /\ DOMAIN s = 1 .. n
  OBVIOUS
<1>2. PICK f : f[0].out = <<>> /\ f[n].out = ReplaceDoubleQuotes(s)
               /\ \A k \in 1 .. n : f[k] = QuotesStep(s, f[k - 1], k)
  <2>1. PICK base : base = [next |-> 1, out |-> <<>>]
    OBVIOUS
  <2>2. PICK end : end = Folding("quotes", s, base, PlacesOf(s))[DOMAIN PlacesOf(s)]
    OBVIOUS
  <2>3. ReplaceDoubleQuotes(s) = end.out
    BY <2>1, <2>2, QuotesFold, Zenon
  <2>4. PICK f : Goes("quotes", s, base, n, f, end)
    BY <1>1, <2>2, UnrolledPlaces
  <2>5. /\ f[0] = base /\ f[n] = end
        /\ \A k \in 1 .. n : f[k] = StepOf("quotes", s, f[k - 1], k)
    BY <2>4 DEF Goes
  <2>6. \A st, k : StepOf("quotes", s, st, k) = QuotesStep(s, st, k)
    BY Zenon DEF StepOf, ReaderStep
  <2>7. \A k \in 1 .. n : f[k] = QuotesStep(s, f[k - 1], k)
    BY <2>5, <2>6, Zenon
  <2>8. base.out = <<>>
    BY <2>1
  <2> QED BY <2>3, <2>5, <2>7, <2>8, Zenon
<1>3. ASSUME NEW st, st.out \in Seq(Int), NEW k \in 1 .. n
      PROVE  QuotesStep(s, st, k).out \in Seq(Int)
  <2>1. QuotesStep(s, st, k).out = st.out \/ QuotesStep(s, st, k).out = Append(st.out, s[k])
    BY DEF QuotesStep
  <2>2. s[k] \in Int
    BY <1>1
  <2>3. PICK a, b : a = st.out /\ b = QuotesStep(s, st, k).out
    OBVIOUS
  <2>4. a \in Seq(Int) /\ (b = a \/ b = Append(a, s[k]))
    BY <1>3, <2>1, <2>3
  <2>5. b \in Seq(Int)
    <3>1. PICK c \in Int : c = s[k]
      BY <2>2
    <3>2. Append(a, c) \in Seq(Int)
      BY <2>4
    <3> QED BY <2>4, <3>1, <3>2
  <2> QED BY <2>3, <2>5
<1> DEFINE G == {k \in 0 .. n : f[k].out \in Seq(Int)}
<1>4. 0 \in G
  <2>1. <<>> \in Seq(Int)
    OBVIOUS
  <2>2. f[0].out \in Seq(Int)
    BY <1>2, <2>1
  <2> QED BY <2>2
<1>5. ASSUME NEW k \in 1 .. n, k - 1 \in G PROVE k \in G
  <2>1. f[k - 1].out \in Seq(Int)
    BY <1>5
  <2>2. PICK old : old = f[k - 1] /\ old.out \in Seq(Int)
    BY <2>1
  <2>3. QuotesStep(s, old, k).out \in Seq(Int)
    BY <1>3, <2>2
  <2>4. f[k] = QuotesStep(s, old, k)
    BY <1>2, <2>2
  <2>5. f[k].out \in Seq(Int)
    BY <2>3, <2>4
  <2> QED BY <2>5
<1>6. \A k \in 0 .. n : k \in G
  <2> HIDE DEF G
  <2> QED BY <1>4, <1>5, BoundedInduction
<1> QED BY <1>2, <1>6

(* A number is a natural number.                                           *)
LEMMA AtoiFacts ==
  ASSUME NEW s \in Seq(Int)
  PROVE  Atoi(s) \in Nat
<1>1. PICK n \in Nat : n = Len(s) /\ DOMAIN s = 1 .. n /\ \A k \in 1 .. n : s[k] \in Int
  OBVIOUS
<1>2. PICK base, end : /\ base = [n |-> 0, digits |-> FALSE, over |-> FALSE]
                       /\ end = Folding("atoi", 0, base, s)[DOMAIN s]
  OBVIOUS
<1>3. Atoi(s) = end.n
  BY <1>2, AtoiFold, Zenon
<1>4. PICK f : Unrolls("atoi", 0, base, s, f, end)
  BY <1>1, <1>2, FoldingUnrolls
<1>5. f[0] = base /\ f[n] = end /\ \A k \in 1 .. n : f[k] = StepOf("atoi", 0, f[k - 1], s[k])
  BY <1>1, <1>4, Zenon DEF Unrolls
<1>6. \A st, c : StepOf("atoi", 0, st, c) = AtoiStep(st, c)
  BY Zenon DEF StepOf, ReaderStep
\* A state of the count.
<1> DEFINE Counts(st) == {"n", "digits", "over"} \subseteq DOMAIN st /\ st.n \in Nat
<1>7. ASSUME NEW st, Counts(st), NEW c \in Int PROVE Counts(AtoiStep(st, c))
  <2>1. PICK more, over : more = [st EXCEPT !.n = 10 * @ + c - 48, !.digits = TRUE] /\ over = [st EXCEPT !.over = TRUE]
    OBVIOUS
  <2>2. c \in Digits => Counts(more)
    <3>1. ASSUME c \in Digits PROVE Counts(more)
      <4>1. PICK m : m = 10 * st.n + c - 48
        OBVIOUS
      <4>2. m \in Nat
        BY <1>7, <3>1, <4>1 DEF Digits
      <4>3. more = [st EXCEPT !.n = m, !.digits = TRUE]
        BY <2>1, <4>1
      <4> QED BY <1>7, <4>2, <4>3
    <3> QED BY <3>1
  <2>3. Counts(over)
    BY <1>7, <2>1
  <2> HIDE DEF Counts
  <2> QED BY <1>7, <2>1, <2>2, <2>3, Zenon DEF AtoiStep
<1> DEFINE G == {k \in 0 .. n : Counts(f[k])}
<1>8. 0 \in G
  BY <1>2, <1>5
<1>9. ASSUME NEW k \in 1 .. n, k - 1 \in G PROVE k \in G
  <2> HIDE DEF Counts
  <2>1. Counts(f[k - 1]) /\ s[k] \in Int
    BY <1>1, <1>9
  <2>2. PICK old, c : old = f[k - 1] /\ c = s[k] /\ Counts(old) /\ c \in Int
    BY <2>1
  <2>3. Counts(AtoiStep(old, c))
    BY <1>7, <2>2
  <2>4. f[k] = AtoiStep(old, c)
    BY <1>5, <1>6, <2>2
  <2>5. Counts(f[k])
    BY <2>3, <2>4
  <2> QED BY <2>5
<1>10. \A k \in 0 .. n : k \in G
  <2> HIDE DEF G
  <2> QED BY <1>8, <1>9, BoundedInduction
<1> QED BY <1>3, <1>5, <1>10

(* The characters of a text are characters.                                *)
LEMMA CleanedFacts ==
  ASSUME NEW raw \in Seq(Int)
  PROVE  Cleaned(raw) \in Seq(Int) /\ CleanedTxd(raw) \in Seq(Int)
<1>1. PICK n \in Nat : DOMAIN raw = 1 .. n /\ \A i \in 1 .. n : raw[i] \in Int
  OBVIOUS
<1>2. Cleaned(raw) \in Seq(Int)
  <2>1. PICK s : s = [i \in DOMAIN raw |->
          CASE raw[i] = 10 -> LfReplacement [] raw[i] = Quote -> QuoteReplacement [] OTHER -> raw[i]]
    OBVIOUS
  <2>2. ASSUME NEW i \in 1 .. n
        PROVE (CASE raw[i] = 10 -> LfReplacement [] raw[i] = Quote -> QuoteReplacement [] OTHER -> raw[i]) \in Int
    BY <1>1 DEF LfReplacement, QuoteReplacement, Quote
  <2>3. s \in [1 .. n -> Int]
    BY <1>1, <2>1, <2>2
  <2>4. ReplaceDoubleQuotes(s) \in Seq(Int)
    BY <2>3, FunctionIsSeq, QuotesFacts
  <2> QED BY <2>1, <2>4 DEF Cleaned
<1>3. CleanedTxd(raw) \in Seq(Int)
  <2>1. PICK s : s = [i \in DOMAIN raw |->
          CASE raw[i] = 13 -> Brace [] raw[i] = 10 -> Space [] OTHER -> raw[i]]
    OBVIOUS
  <2>2. ASSUME NEW i \in 1 .. n
        PROVE (CASE raw[i] = 13 -> Brace [] raw[i] = 10 -> Space [] OTHER -> raw[i]) \in Int
    BY <1>1 DEF Brace, Space
  <2>3. s \in [1 .. n -> Int]
    BY <1>1, <2>1, <2>2
  <2>4. ReplaceDoubleQuotes(s) \in Seq(Int)
    BY <2>3, FunctionIsSeq, QuotesFacts
  <2>5. CleanedTxd(raw) = Among(ReplaceDoubleQuotes(s), Range(s) \ {Brace})
    BY <2>1, Zenon DEF CleanedTxd
  <2> QED BY <2>4, <2>5, AmongFacts
<1> QED BY <1>2, <1>3

----------------------------------------------------------------------------
(* What a reader keeps.                                                    *)

\* What has been read, and where a text began.
HasRead(at) ==
  /\ {"texts", "sizes", "version", "start", "packed"} \subseteq DOMAIN at
  /\ Bit(at.packed) /\ Readable(at.texts) /\ at.sizes \in Seq(Nat) /\ at.version \in Int /\ at.start \in Nat

(* The rest may be anything.                                               *)
LEMMA HasReadOther ==
  ASSUME NEW at, HasRead(at), NEW f, f \notin {"texts", "sizes", "version", "start", "packed"}, NEW v
  PROVE  HasRead([at EXCEPT ![f] = v])
  BY DEF HasRead

(* Where a text begins.                                                    *)
LEMMA HasReadStart ==
  ASSUME NEW at, HasRead(at), NEW i \in Nat
  PROVE  HasRead([at EXCEPT !.start = i])
  BY DEF HasRead

(* The version.                                                            *)
LEMMA HasReadVersion ==
  ASSUME NEW at, HasRead(at), NEW v \in Int
  PROVE  HasRead([at EXCEPT !.version = v])
  BY DEF HasRead

(* Texts.                                                                  *)
LEMMA HasReadTexts ==
  ASSUME NEW at, HasRead(at), NEW t, Readable(t)
  PROVE  HasRead([at EXCEPT !.texts = t])
  BY DEF HasRead

(* Sizes of routines.                                                      *)
LEMMA HasReadSizes ==
  ASSUME NEW at, HasRead(at), NEW s \in Seq(Nat)
  PROVE  HasRead([at EXCEPT !.sizes = s])
  BY DEF HasRead

(* A text more.                                                            *)
LEMMA ReadableMore ==
  ASSUME NEW texts, Readable(texts), NEW text \in Seq(Int), NEW p, Bit(p), NEW o, NEW r
  PROVE  Readable(Append(texts, GameText(text, p, o, r)))
<1>1. PICK t : t = GameText(text, p, o, r)
  OBVIOUS
<1>2. IsGameText(t)
  <2>1. {"text", "packed", "unit"} \subseteq DOMAIN t /\ t.text = text /\ t.packed = p /\ t.unit = 3
    BY <1>1 DEF GameText
  <2> QED BY <2>1 DEF IsGameText
<1>3. PICK S : S = Range(texts) \union {t}
  OBVIOUS
<1>4. texts \in Seq(S) /\ t \in S
  <2>1. texts \in Seq(Range(texts)) /\ Range(texts) \subseteq S
    BY <1>3 DEF Readable
  <2> QED BY <1>3, <2>1, SeqWithin
<1>5. PICK new : new = Append(texts, t)
  OBVIOUS
<1>6. /\ new \in Seq(S) /\ Len(new) = Len(texts) + 1 /\ DOMAIN new = 1 .. Len(texts) + 1
      /\ Len(texts) \in Nat /\ DOMAIN texts = 1 .. Len(texts)
      /\ new[Len(texts) + 1] = t /\ (\A i \in DOMAIN texts : new[i] = texts[i])
      /\ Range(new) = Range(texts) \union {t}
  BY <1>4, <1>5, AppendFacts
<1>7. ASSUME NEW i \in DOMAIN new PROVE IsGameText(new[i])
  <2>1. i \in DOMAIN texts \/ i = Len(texts) + 1
    BY <1>6
  <2> QED BY <1>2, <1>6, <2>1 DEF Readable
<1>8. new \in Seq(Range(new))
  BY <1>3, <1>6
<1>9. Readable(new)
  BY <1>7, <1>8 DEF Readable
<1> QED BY <1>1, <1>5, <1>9

(* Part of a sequence of bytes is one.                                     *)
LEMMA BytesFacts ==
  ASSUME NEW line \in Seq(0 .. 255)
  PROVE  line \in Seq(Int) /\ \A m \in Nat \ {0}, n \in 0 .. Len(line) : SubSeq(line, m, n) \in Seq(Int)
<1>1. line \in Seq(Int)
  <2>1. PICK S : S = 0 .. 255 /\ S \subseteq Int
    <3>1. 0 .. 255 \subseteq Int
      OBVIOUS
    <3> QED BY Zenon, <3>1
  <2>2. line \in Seq(S) /\ Range(line) \subseteq S
    <3>1. line \in Seq(S)
      BY <2>1
    <3> QED BY <3>1, SeqFacts
  <2>3. Range(line) \subseteq Int
    BY <2>1, <2>2
  <2> QED BY <2>2, <2>3, SeqWithin
<1>2. ASSUME NEW m \in Nat \ {0}, NEW n \in 0 .. Len(line) PROVE SubSeq(line, m, n) \in Seq(Int)
  <2>1. CASE m <= n + 1
    BY <1>1, <2>1, SubSeqFacts
  <2>2. CASE ~(m <= n + 1)
    <3>1. SubSeq(line, m, n) = <<>>
      BY <1>1, <2>2
    <3> QED BY <3>1
  <2> QED BY <2>1, <2>2
<1> QED BY <1>1, <1>2

(* A line of the transcript that is a text.                                *)
LEMMA TextLineFacts ==
  ASSUME NEW at, HasRead(at), NEW line \in Seq(0 .. 255)
  PROVE  HasRead(TextLine(at, line))
<1>1. PICK text : text = SubSeq(line, 4, Len(line)) /\ text \in Seq(Int)
  <2>1. Len(line) \in 0 .. Len(line) /\ 4 \in Nat \ {0}
    OBVIOUS
  <2> QED BY <2>1, BytesFacts
<1>2. PICK o, r, n : /\ o = (Head(line) = 79) /\ n = at.objects + (IF Head(line) = 79 THEN 1 ELSE 0)
                     /\ r = (IF Head(line) = 72 THEN Len(at.sizes) ELSE -1)
  <2>1. PICK o : o = (Head(line) = 79)
    BY Zenon
  <2>2. PICK n : n = at.objects + (IF Head(line) = 79 THEN 1 ELSE 0)
    BY Zenon
  <2>3. PICK r : r = (IF Head(line) = 72 THEN Len(at.sizes) ELSE -1)
    BY Zenon
  <2> QED BY <2>1, <2>2, <2>3, Zenon
<1>3. PICK p : p = (Head(line) \in PackedKinds)
  BY Zenon
<1>9. Bit(p)
  <2>1. Bit(Head(line) \in PackedKinds)
    BY DEF Bit
  <2> QED BY <1>3, <2>1, Zenon
<1>4. PICK t : /\ t = at.texts \/ t = Append(at.texts, GameText(text, p, o, r))
               /\ TextLine(at, line) = [at EXCEPT !.objects = n, !.texts = t]
  <2>1. TextLine(at, line)
        = [at EXCEPT !.objects = n,
                     !.texts = IF o /\ n < 6 /\ text \in MetaClasses THEN at.texts
                               ELSE Append(at.texts, GameText(text, p, o, r))]
    BY Zenon, <1>1, <1>2, <1>3 DEF TextLine
  <2> QED BY <2>1, Zenon
<1>5. Readable(t)
  <2>1. Readable(at.texts)
    BY DEF HasRead
  <2>2. Readable(Append(at.texts, GameText(text, p, o, r)))
    BY <1>1, <1>9, <2>1, ReadableMore
  <2> QED BY <1>4, <2>1, <2>2
<1>6. HasRead([at EXCEPT !.objects = n, !.texts = t])
  BY <1>5 DEF HasRead
<1> QED BY <1>4, <1>6

(* A place of a word that the line of another has.                         *)
LEMMA PlacesWithin ==
  ASSUME NEW line \in Seq(Int), NEW part \in Seq(Int), NEW word \in Seq(Int),
         Places(line, part) # {}, Places(part, word) # {}
  PROVE  Places(line, word) # {}
<1>1. PICK i \in Nat, n \in Nat, l \in Nat, w \in Nat :
        /\ n = Len(line) /\ l = Len(part) /\ w = Len(word)
        /\ i \in 1 .. n - l + 1 /\ IsAt(line, part, i)
  BY DEF Places
<1>2. PICK j \in Nat : j \in 1 .. l - w + 1 /\ IsAt(part, word, j)
  BY <1>1 DEF Places
<1>3. PICK k \in Nat : k = i + j - 1
  BY <1>1, <1>2
<1>4. k \in 1 .. n - w + 1
  BY <1>1, <1>2, <1>3
<1>5. ASSUME NEW m \in 1 .. w PROVE line[k + m - 1] = word[m]
  <2>1. j + m - 1 \in 1 .. l
    BY <1>2
  <2>2. part[j + m - 1] = word[m]
    BY <1>1, <1>2 DEF IsAt
  <2>3. \A q \in 1 .. l : line[i + q - 1] = part[q]
    BY <1>1 DEF IsAt
  <2>4. line[i + (j + m - 1) - 1] = part[j + m - 1]
    BY <2>1, <2>3
  <2>5. i + (j + m - 1) - 1 = k + m - 1
    BY <1>3
  <2> QED BY <2>2, <2>4, <2>5
<1>6. IsAt(line, word, k)
  <2>1. k + w - 1 <= n
    BY <1>4
  <2> QED BY <1>1, <1>5, <2>1 DEF IsAt
<1>7. k \in Places(line, word)
  BY <1>1, <1>4, <1>6 DEF Places
<1> QED BY <1>7

(* The first place of a word.                                              *)
LEMMA FirstPlace ==
  ASSUME NEW line \in Seq(Int), NEW word \in Seq(Int), Places(line, word) # {}
  PROVE  First(Places(line, word)) \in Nat \ {0}
<1>1. PICK S : S = Places(line, word)
  OBVIOUS
<1>2. S \subseteq Nat \ {0} /\ S # {}
  <2>1. ASSUME NEW i \in S PROVE i \in Nat \ {0}
    BY <1>1, <2>1 DEF Places
  <2> QED BY <1>1, <2>1
<1>3. \E m \in S : \A n \in S : m <= n
  BY <1>2, LeastOf
<1>4. First(S) \in S
  BY <1>3 DEF First
<1> QED BY <1>1, <1>4, <1>2

(* Another line of the transcript.                                         *)
LEMMA OtherLineFacts ==
  ASSUME NEW at, HasRead(at), NEW line \in Seq(0 .. 255), NEW detect
  PROVE  HasRead(OtherLine(at, line, detect))
<1>1. PICK v : v = (IF detect /\ Places(line, VersionLine) # {} THEN VersionOf(line, at.version) ELSE at.version)
  OBVIOUS
<1>2. v \in Int
  <2>1. VersionOf(line, at.version) \in Int
    <3>1. PICK after : after = SubSeq(line, First(Places(line, VersionWord)) + 8, Len(line))
      OBVIOUS
    <3>2. PICK ahead : ahead = SelectInSeq(after, LAMBDA c : c # Space)
      OBVIOUS
    <3>3. VersionOf(line, at.version)
          = IF ahead > 0 /\ after[ahead] \in 49 .. 56 THEN after[ahead] - 48 ELSE at.version
      BY <3>1, <3>2 DEF VersionOf
    <3>4. PICK c : c = after[ahead]
      OBVIOUS
    <3>5. c \in 49 .. 56 => c - 48 \in Int
      OBVIOUS
    <3> QED BY <3>3, <3>4, <3>5 DEF HasRead
  <2> QED BY <1>1, <2>1 DEF HasRead
<1>3. PICK s : s = (IF Places(line, SizeLine) # {}
                    THEN Append(at.sizes, Atoi(SubSeq(line, First(Places(line, SizeWord)) + 6, Len(line))))
                    ELSE at.sizes)
  OBVIOUS
<1>4. s \in Seq(Nat)
  <2>1. at.sizes \in Seq(Nat)
    BY DEF HasRead
  <2>2. CASE Places(line, SizeLine) # {}
    <3>1. line \in Seq(Int) /\ SizeLine \in Seq(Int) /\ SizeWord \in Seq(Int)
      BY InputAssumption, BytesFacts
    <3>2. Places(line, SizeWord) # {}
      BY <2>2, <3>1, InputAssumption, PlacesWithin
    <3>3. PICK q : q = First(Places(line, SizeWord)) /\ q \in Nat \ {0}
      BY <3>1, <3>2, FirstPlace
    <3>4. PICK m \in Nat : m = First(Places(line, SizeWord)) + 6
      BY <3>3
    <3>5. m \in Nat \ {0} /\ Len(line) \in 0 .. Len(line)
      BY <3>4, <3>3
    <3>6. SubSeq(line, m, Len(line)) \in Seq(Int)
      BY <3>5, BytesFacts
    <3>7. PICK n \in Nat : n = Atoi(SubSeq(line, m, Len(line)))
      BY <3>6, AtoiFacts
    <3>8. s = Append(at.sizes, n)
      BY <1>3, <2>2, <3>4, <3>7
    <3> QED BY <2>1, <3>8
  <2> QED BY <1>3, <2>1, <2>2
<1>5. OtherLine(at, line, detect) = [at EXCEPT !.version = v, !.sizes = s]
  BY Zenon, <1>1, <1>3 DEF OtherLine
<1>6. HasRead([at EXCEPT !.version = v, !.sizes = s])
  BY <1>2, <1>4 DEF HasRead
<1> QED BY <1>5, <1>6

(* A line of the transcript.                                               *)
LEMMA TranscriptFacts ==
  ASSUME NEW at, HasRead(at), NEW line \in Seq(0 .. 255), NEW detect
  PROVE  HasRead(TranscriptLine(at, line, detect))
<1>1. HasRead(TextLine(at, line)) /\ HasRead(OtherLine(at, line, detect))
  BY TextLineFacts, OtherLineFacts
<1> QED BY Zenon, <1>1 DEF TranscriptLine

(* An awaited quote opens a text.                                          *)
LEMMA OpenedFacts ==
  ASSUME NEW at, HasRead(at), NEW i \in Nat, NEW byte
  PROVE  HasRead(Opened(at, i, byte))
<1>1. HasRead([at EXCEPT !.start = i, !.awaited = FALSE, !.inside = TRUE])
  BY DEF HasRead
<1> QED BY <1>1, Zenon DEF Opened

(* The end of a line closes it.                                            *)
LEMMA ClosedAtEolFacts ==
  ASSUME NEW at, HasRead(at), NEW data \in Seq(0 .. 255), NEW i \in 1 .. Len(data), NEW p, Bit(p), NEW o
  PROVE  HasRead(ClosedAtEol(at, data, i, p, o))
<1>1. PICK t : t = (IF i - at.start - 2 > 0
                    THEN Append(at.texts, GameText(Cleaned(SubSeq(data, at.start + 1, i - 2)), p, o, -1))
                    ELSE at.texts)
  OBVIOUS
<1>2. Readable(t)
  <2>1. Readable(at.texts) /\ at.start \in Nat
    BY DEF HasRead
  <2>2. CASE i - at.start - 2 > 0
    <3>1. PICK m, n : m = at.start + 1 /\ n = i - 2
      OBVIOUS
    <3>2. m \in Nat \ {0} /\ n \in 0 .. Len(data)
      BY <2>1, <2>2, <3>1
    <3>3. SubSeq(data, m, n) \in Seq(Int)
      BY <3>2, BytesFacts
    <3>4. PICK text \in Seq(Int) : text = Cleaned(SubSeq(data, m, n))
      BY <3>3, CleanedFacts
    <3>5. t = Append(at.texts, GameText(text, p, o, -1))
      BY <1>1, <2>2, <3>1, <3>4
    <3> QED BY <2>1, <3>5, ReadableMore
  <2>3. CASE ~(i - at.start - 2 > 0)
    BY <1>1, <2>1, <2>3
  <2> QED BY <2>2, <2>3
<1>3. HasRead([at EXCEPT !.inside = FALSE, !.texts = t])
  BY <1>2 DEF HasRead
<1>4. ClosedAtEol(at, data, i, p, o) = at \/ ClosedAtEol(at, data, i, p, o) = [at EXCEPT !.inside = FALSE, !.texts = t]
  BY Zenon, <1>1 DEF ClosedAtEol
<1> QED BY <1>3, <1>4

(* The next quote closes it.                                               *)
LEMMA ClosedAtQuoteFacts ==
  ASSUME NEW at, HasRead(at), NEW data \in Seq(0 .. 255), NEW i \in Nat
  PROVE  HasRead(ClosedAtQuote(at, data, i))
<1>1. PICK t : t = (IF i - at.start - 1 > 0
                    THEN Append(at.texts, GameText(CleanedTxd(SubSeq(data, at.start + 1, i - 1)), at.packed, FALSE, -1))
                    ELSE at.texts)
  OBVIOUS
<1>2. ASSUME i <= Len(data) PROVE Readable(t)
  <2>1. Readable(at.texts) /\ at.start \in Nat
    BY DEF HasRead
  <2>2. CASE i - at.start - 1 > 0
    <3>1. PICK m, n : m = at.start + 1 /\ n = i - 1
      OBVIOUS
    <3>2. m \in Nat \ {0} /\ n \in 0 .. Len(data)
      BY <1>2, <2>1, <2>2, <3>1
    <3>3. SubSeq(data, m, n) \in Seq(Int)
      BY <3>2, BytesFacts
    <3>4. PICK text \in Seq(Int) : text = CleanedTxd(SubSeq(data, m, n))
      BY <3>3, CleanedFacts
    <3>5. t = Append(at.texts, GameText(text, at.packed, FALSE, -1))
      BY <1>1, <2>2, <3>1, <3>4
    <3> QED BY <2>1, <3>5, ReadableMore DEF HasRead
  <2>3. CASE ~(i - at.start - 1 > 0)
    BY <1>1, <2>1, <2>3
  <2> QED BY <2>2, <2>3
<1>3. PICK a : a = (at.awaited \/ ~at.code)
  BY Zenon
<1>4. ASSUME i <= Len(data) PROVE HasRead([at EXCEPT !.inside = FALSE, !.awaited = a, !.texts = t])
  <2>1. Readable(t)
    BY <1>2, <1>4
  <2> QED BY <2>1 DEF HasRead
<1>5. CASE at.inside /\ i <= Len(data) /\ data[i] = Quote
  <2>1. ClosedAtQuote(at, data, i) = [at EXCEPT !.inside = FALSE, !.awaited = a, !.texts = t]
    BY Zenon, <1>1, <1>3, <1>5 DEF ClosedAtQuote
  <2> QED BY <1>4, <1>5, <2>1
<1>6. CASE ~(at.inside /\ i <= Len(data) /\ data[i] = Quote)
  BY Zenon, <1>6 DEF ClosedAtQuote
<1> QED BY <1>5, <1>6

(* A byte of ZAP code.                                                     *)
LEMMA ZapFacts ==
  ASSUME NEW at, HasRead(at), NEW data \in Seq(0 .. 255), NEW i \in 1 .. Len(data), NEW detect
  PROVE  HasRead(ZapByte(at, data, i, detect))
<1>1. PICK op, starts : op = Window(data, i, 5) /\ starts = (op \in {Gstr, Strl} \union PrintI)
  BY Zenon
<1>2. PICK a, p, v, o : /\ a = (at.awaited \/ starts) /\ p = (IF starts THEN op = Gstr ELSE at.packed)
                        /\ v = (IF op = New /\ detect THEN ZapVersion(data[i] - 48) ELSE at.version)
                        /\ o = (op = Strl)
  BY Zenon
<1>3. v \in Int
  <2>1. data \in Seq(Int)
    BY BytesFacts
  <2>2. PICK byte \in Int : byte = data[i]
    BY <2>1
  <2>3. PICK c \in Int : c = byte - 48
    BY <2>2
  <2>4. ZapVersion(c) \in Int
    BY <2>3 DEF ZapVersion
  <2> QED BY <1>2, <2>2, <2>3, <2>4 DEF HasRead
<1>4. PICK seen : seen = [at EXCEPT !.awaited = a, !.packed = p, !.version = v]
  OBVIOUS
<1>9. Bit(p)
  <2>1. Bit(at.packed) /\ Bit(op = Gstr)
    BY Zenon DEF HasRead, Bit
  <2> QED BY <1>2, <2>1, Zenon
<1>5. HasRead(seen)
  BY <1>3, <1>4, <1>9 DEF HasRead
<1>6. HasRead(Opened(seen, i, data[i]))
  BY <1>5, OpenedFacts
<1>7. HasRead(ClosedAtEol(Opened(seen, i, data[i]), data, i, seen.packed, o))
  <2>1. Bit(seen.packed)
    BY <1>5 DEF HasRead
  <2> QED BY <1>6, <2>1, ClosedAtEolFacts
<1>8. ZapByte(at, data, i, detect) = at
      \/ ZapByte(at, data, i, detect) = ClosedAtEol(Opened(seen, i, data[i]), data, i, seen.packed, o)
  BY Zenon, <1>1, <1>2, <1>4 DEF ZapByte
<1> QED BY <1>7, <1>8

(* A byte of a dump.                                                       *)
LEMMA InfodumpFacts ==
  ASSUME NEW at, HasRead(at), NEW data \in Seq(0 .. 255), NEW i \in 1 .. Len(data)
  PROVE  HasRead(InfodumpByte(at, data, i))
<1>1. PICK window : window = Window(data, i, 13)
  OBVIOUS
<1>2. PICK a, v, f : /\ a = (at.awaited \/ window = Description)
                     /\ v = (IF window = ZcodeVersion /\ i + 13 <= Len(data) THEN data[i + 13] - 48 ELSE at.version)
                     /\ f = (at.inform \/ (window = InformVersion /\ i + 18 <= Len(data) /\ ~CompilerIsZapf(data, i)))
  BY Zenon
<1>3. v \in Int
  <2>1. ASSUME i + 13 <= Len(data) PROVE data[i + 13] - 48 \in Int
    <3>1. data \in Seq(Int)
      BY BytesFacts
    <3>2. PICK j : j = i + 13 /\ j \in DOMAIN data
      BY <2>1, <3>1
    <3>3. PICK byte \in Int : byte = data[j]
      BY <3>1, <3>2
    <3> QED BY <3>2, <3>3
  <2> QED BY <1>2, <2>1 DEF HasRead
<1>4. PICK seen : seen = [at EXCEPT !.awaited = a, !.version = v, !.inform = f]
  OBVIOUS
<1>5. HasRead(seen)
  BY <1>3, <1>4 DEF HasRead
<1>6. HasRead(Opened(seen, i, data[i]))
  BY <1>5, OpenedFacts
<1>7. HasRead(ClosedAtEol(Opened(seen, i, data[i]), data, i, FALSE, TRUE))
  <2>1. Bit(FALSE)
    BY Zenon DEF Bit
  <2> QED BY <1>6, <2>1, ClosedAtEolFacts
<1>8. InfodumpByte(at, data, i) = at
      \/ InfodumpByte(at, data, i) = ClosedAtEol(Opened(seen, i, data[i]), data, i, FALSE, TRUE)
  BY Zenon, <1>1, <1>2, <1>4 DEF InfodumpByte
<1> QED BY <1>7, <1>8

(* A byte of a disassembly.                                                *)
LEMMA TxdFacts ==
  ASSUME NEW at, HasRead(at), NEW data \in Seq(0 .. 255), NEW i \in 1 .. Len(data)
  PROVE  HasRead(TxdByte(at, data, i))
<1>1. PICK window, end : window = Window(data, i, 9) /\ end = (window = EndOfCode)
  BY Zenon
<1>2. PICK a, c, p : /\ a = (at.awaited \/ (at.code /\ window \in PrintOps) \/ end)
                     /\ c = (at.code /\ ~end) /\ p = (at.packed \/ end)
  BY Zenon
<1>3. PICK seen : seen = [at EXCEPT !.awaited = a, !.code = c, !.packed = p]
  OBVIOUS
<1>4. PICK last : last = (IF seen.awaited /\ data[i] = Quote THEN i + 1 ELSE i)
  OBVIOUS
<1>5. last \in Nat
  BY <1>4
<1>11. Bit(p)
  <2>1. Bit(at.packed \/ end)
    BY Zenon DEF HasRead, Bit
  <2> QED BY <1>2, <2>1, Zenon
<1>6. HasRead(seen)
  BY <1>3, <1>11 DEF HasRead
<1>7. HasRead(Opened(seen, i, data[i]))
  BY <1>6, OpenedFacts
<1>8. PICK new : new = ClosedAtQuote(Opened(seen, i, data[i]), data, last) /\ HasRead(new)
  BY <1>5, <1>7, ClosedAtQuoteFacts
<1>9. HasRead([new EXCEPT !.next = last + 1])
  BY <1>8 DEF HasRead
<1>10. TxdByte(at, data, i) = at \/ TxdByte(at, data, i) = [new EXCEPT !.next = last + 1]
  BY Zenon, <1>1, <1>2, <1>3, <1>4, <1>8 DEF TxdByte
<1> QED BY <1>9, <1>10

\* A file of lines or of bytes, and who reads it.
IsFile(f) ==
  /\ f.reader \in {"gametext", "zap", "infodump", "txd"}
  /\ f.data \in IF f.reader = "gametext" THEN Seq(Seq(0 .. 255)) ELSE Seq(0 .. 255)

(* A line or a byte of a file is read.                                     *)
LEMMA ItemFacts ==
  ASSUME NEW at, HasRead(at), NEW f, IsFile(f), NEW i \in Nat \ {0}, i <= Len(f.data), NEW detect
  PROVE  HasRead(ReadItem(at, f, i, detect))
<1>1. PICK reader, data : reader = f.reader /\ data = f.data
  OBVIOUS
<1>2. CASE reader = "gametext"
  <2>1. data \in Seq(Seq(0 .. 255))
    BY Zenon, <1>1, <1>2 DEF IsFile
  <2>2. i \in DOMAIN data
    BY <1>1, <2>1
  <2>3. HasRead(TranscriptLine(at, data[i], detect))
    <3>1. PICK line : line = data[i] /\ line \in Seq(0 .. 255)
      BY <2>1, <2>2
    <3> QED BY <3>1, TranscriptFacts
  <2>4. ReadItem(at, f, i, detect) = TranscriptLine(at, data[i], detect)
    BY Zenon, <1>1, <1>2 DEF ReadItem
  <2> QED BY <2>3, <2>4
<1>3. CASE reader # "gametext"
  <2>1. data \in Seq(0 .. 255)
    BY Zenon, <1>1, <1>3 DEF IsFile
  <2>2. i \in 1 .. Len(data)
    BY <1>1, <2>1
  <2>3. /\ HasRead(ZapByte(at, data, i, detect)) /\ HasRead(InfodumpByte(at, data, i))
        /\ HasRead(TxdByte(at, data, i))
    BY <2>1, <2>2, ZapFacts, InfodumpFacts, TxdFacts
  <2>4. \/ reader = "zap" /\ ReadItem(at, f, i, detect) = ZapByte(at, data, i, detect)
        \/ reader = "infodump" /\ ReadItem(at, f, i, detect) = InfodumpByte(at, data, i)
        \/ reader = "txd" /\ ReadItem(at, f, i, detect) = TxdByte(at, data, i)
    <3>1. reader \in {"zap", "infodump", "txd"}
      BY Zenon, <1>1, <1>3 DEF IsFile
    <3> QED BY Zenon, <1>1, <3>1 DEF ReadItem
  <2> QED BY <2>3, <2>4
<1> QED BY <1>2, <1>3

----------------------------------------------------------------------------
(* The search from its start.                                              *)

\* The files that are left, and the place in the first of them.
ReaderOK ==
  /\ Asked(settings) /\ HasRead(read)
  /\ files \in Seq(Range(files)) /\ \A k \in DOMAIN files : IsFile(files[k])
  /\ place \in Nat \ {0}

\* Files in a row.
AreFiles(s) == s \in Seq(Range(s)) /\ \A k \in DOMAIN s : IsFile(s[k])

(* Files after files are files.                                            *)
LEMMA FilesConcat ==
  ASSUME NEW s, AreFiles(s), NEW t, AreFiles(t)
  PROVE  AreFiles(s \o t)
<1>1. PICK S : S = Range(s) \union Range(t)
  OBVIOUS
<1>2. s \in Seq(S) /\ t \in Seq(S)
  BY <1>1, SeqWithin DEF AreFiles
<1>3. PICK u : u = s \o t
  OBVIOUS
<1>4. /\ u \in Seq(S) /\ Range(u) = S
      /\ \A i \in DOMAIN u : (i \in DOMAIN s /\ u[i] = s[i]) \/ (i - Len(s) \in DOMAIN t /\ u[i] = t[i - Len(s)])
  <2>1. /\ u \in Seq(S) /\ \A i \in DOMAIN s : u[i] = s[i]
        /\ \A i \in DOMAIN u : i \in DOMAIN s \/ (i - Len(s) \in DOMAIN t /\ u[i] = t[i - Len(s)])
        /\ Range(u) = Range(s) \union Range(t)
    BY <1>2, <1>3, ConcatFacts
  <2> QED BY <1>1, <2>1
<1>5. \A i \in DOMAIN u : IsFile(u[i])
  BY <1>4 DEF AreFiles
<1> QED BY <1>3, <1>4, <1>5 DEF AreFiles

(* One file.                                                               *)
LEMMA OneFile ==
  ASSUME NEW f, IsFile(f)
  PROVE  AreFiles(<<f>>)
<1>1. <<f>> \in Seq({f}) /\ Range(<<f>>) = {f} /\ \A k \in DOMAIN <<f>> : <<f>>[k] = f
  BY DEF Range
<1> QED BY <1>1 DEF AreFiles

(* No file.                                                                *)
LEMMA NoFile ==
  AreFiles(<<>>)
<1>1. <<>> \in Seq(Range(<<>>)) /\ DOMAIN <<>> = {}
  OBVIOUS
<1> QED BY <1>1 DEF AreFiles

(* A dump that is named is a file.                                         *)
LEMMA DumpFile ==
  ASSUME NEW d \in DOMAIN Disk, NEW reader \in {"infodump", "txd"}, NEW name,
         name \in DOMAIN Disk[d].dumps
  PROVE  AreFiles(<<File(reader, Disk[d].dumps[name])>>)
<1>1. PICK data : data = Disk[d].dumps[name] /\ data \in Seq(0 .. 255)
  BY InputAssumption
<1>2. PICK f : f = File(reader, data)
  OBVIOUS
<1>3. f.reader = reader /\ f.data = data
  BY <1>2 DEF File
<1>4. IsFile(f)
  BY <1>1, <1>3, Zenon DEF IsFile
<1> QED BY <1>1, <1>2, <1>4, OneFile

(* Code that is not a table of frequencies.                                *)
LEMMA CodeFiles ==
  ASSUME NEW zaps, zaps \in Seq([frequencies : BOOLEAN, bytes : Seq(0 .. 255)]), NEW X,
         NEW s, s = [i \in DOMAIN Among(zaps, X) |-> File("zap", Among(zaps, X)[i].bytes)]
  PROVE  AreFiles(s)
<1>1. PICK R, code : R = [frequencies : BOOLEAN, bytes : Seq(0 .. 255)] /\ code = Among(zaps, X) /\ code \in Seq(R)
  BY AmongFacts
<1>2. PICK n \in Nat : n = Len(code) /\ DOMAIN code = 1 .. n /\ \A i \in 1 .. n : code[i] \in R
  <2>1. code \in Seq(R)
    BY <1>1
  <2>2. Len(code) \in Nat /\ DOMAIN code = 1 .. Len(code) /\ \A i \in DOMAIN code : code[i] \in R
    BY <2>1, SeqFacts
  <2> QED BY Zenon, <2>2
<1>3. s = [i \in 1 .. n |-> File("zap", code[i].bytes)]
  BY <1>1, <1>2
<1>4. ASSUME NEW i \in 1 .. n PROVE s[i] = File("zap", code[i].bytes) /\ IsFile(s[i])
  <2>1. PICK data : data = code[i].bytes /\ data \in Seq(0 .. 255)
    <3>1. code[i] \in R
      BY <1>2
    <3>2. \A x \in R : x.bytes \in Seq(0 .. 255)
      BY <1>1
    <3> QED BY <3>1, <3>2
  <2>2. PICK f : f = File("zap", data)
    OBVIOUS
  <2>3. f.reader = "zap" /\ f.data = data
    BY <2>2 DEF File
  <2>4. IsFile(f)
    BY <2>1, <2>3, Zenon DEF IsFile
  <2> QED BY <1>3, <2>1, <2>2, <2>4
<1>5. s \in [1 .. n -> Range(s)] /\ DOMAIN s = 1 .. n
  <2>1. DOMAIN s = 1 .. n
    BY <1>3
  <2>2. \A i \in 1 .. n : s[i] \in Range(s)
    BY <2>1 DEF Range
  <2>3. s = [i \in 1 .. n |-> s[i]]
    BY <1>3
  <2> QED BY <2>1, <2>2, <2>3
<1>6. s \in Seq(Range(s))
  BY <1>5, FunctionIsSeq
<1> QED BY <1>4, <1>5, <1>6 DEF AreFiles

(* What is read is files.                                                  *)
LEMMA FilesFacts ==
  ASSUME NEW s, NEW d \in DOMAIN Disk, ~Missing(s, Disk[d])
  PROVE  AreFiles(Files(s, Disk[d]))
<1>1. PICK dir : dir = Disk[d]
  OBVIOUS
<1>2. CASE Dumped(s)
  <2>1. {s.infodump, s.txd} \ {""} \subseteq DOMAIN dir.dumps
    BY Zenon, <1>1 DEF Missing
  <2>2. PICK a, b : /\ a = (IF s.infodump = "" THEN <<>> ELSE <<File("infodump", dir.dumps[s.infodump])>>)
                    /\ b = (IF s.txd = "" THEN <<>> ELSE <<File("txd", dir.dumps[s.txd])>>)
    BY Zenon
  <2>3. AreFiles(a)
    <3>1. CASE s.infodump = ""
      BY Zenon, <2>2, <3>1, NoFile
    <3>2. CASE s.infodump # ""
      BY Zenon, <1>1, <2>1, <2>2, <3>2, DumpFile
    <3> QED BY Zenon, <3>1, <3>2
  <2>4. AreFiles(b)
    <3>1. CASE s.txd = ""
      BY Zenon, <2>2, <3>1, NoFile
    <3>2. CASE s.txd # ""
      BY Zenon, <1>1, <2>1, <2>2, <3>2, DumpFile
    <3> QED BY Zenon, <3>1, <3>2
  <2>5. Files(s, dir) = a \o b
    BY Zenon, <1>2, <2>2 DEF Files
  <2> QED BY Zenon, <1>1, <2>3, <2>4, <2>5, FilesConcat
<1>3. CASE ~Dumped(s) /\ s.inform
  <2>1. PICK data : data = dir.gametext /\ data \in Seq(Seq(0 .. 255))
    BY <1>1, InputAssumption
  <2>2. PICK f : f = File("gametext", data)
    OBVIOUS
  <2>3. f.reader = "gametext" /\ f.data = data
    BY <2>2 DEF File
  <2>4. IsFile(f)
    BY <2>1, <2>3, Zenon DEF IsFile
  <2>5. Files(s, dir) = <<f>>
    BY Zenon, <1>3, <2>1, <2>2 DEF Files
  <2> QED BY <1>1, <2>4, <2>5, OneFile
<1>4. CASE ~Dumped(s) /\ ~s.inform
  <2>1. PICK code, X : code = Among(dir.zaps, X) /\ X = {f \in Range(dir.zaps) : ~f.frequencies}
    OBVIOUS
  <2>2. Files(s, dir) = [i \in DOMAIN Among(dir.zaps, X) |-> File("zap", Among(dir.zaps, X)[i].bytes)]
    BY Zenon, <1>4, <2>1 DEF Files
  <2>3. dir.zaps \in Seq([frequencies : BOOLEAN, bytes : Seq(0 .. 255)])
    BY <1>1, InputAssumption
  <2>4. AreFiles(Files(s, dir))
    BY <2>2, <2>3, CodeFiles
  <2> QED BY <1>1, <2>4
<1> QED BY <1>2, <1>3, <1>4

(* Before a pattern is extracted nothing is chosen.                        *)
LEMMA EarlyStep ==
  ASSUME SearchOK, HasRead(read'), phase \in Early, phase' \in Early, phase' = "extract" => Texts' # <<>>,
         UNCHANGED <<settings, found, best, parses, totals, progress>>
  PROVE  SearchOK'
<1>1. Fresh
  BY DEF SearchOK
<1>2. Fresh'
  BY <1>1 DEF Fresh, found, totals
<1>3. ReadOK'
  BY DEF HasRead, ReadOK, Texts
<1>4. phase' \in Phases /\ phase' # "greedy" /\ phase' \notin Late
      /\ (phase' \notin {"open", "read", "failed"} => phase' = "extract")
  BY DEF Early, Phases, Late
<1>5. Lists(pats', heap', best', refactor')
  BY DEF SearchOK, Lists, found
<1>6. Cached(settings.alpha, Texts, pats, best)'
  <2>1. DOMAIN pats' = {} /\ Range(best') = {}
    BY <1>2, EmptyHeap DEF Fresh
  <2> QED BY <2>1 DEF Cached, Current
<1>7. parses' = <<>>
  BY <1>2 DEF Fresh
<1>8. Counted'
  BY DEF SearchOK, Counted, totals, progress
<1>9. (N \in Nat /\ settings.passes \in Nat /\ settings.level \in Nat)'
  BY DEF SearchOK, N
<1>10. Bounded'
  <2>1. Len(best') <= Target'
    BY DEF SearchOK, Bounded, Target, N
  <2> QED BY <1>4, <2>1 DEF Bounded
<1>11. Baseline'
  BY <1>4 DEF Baseline, Late
<1> QED BY <1>2, <1>3, <1>4, <1>5, <1>6, <1>7, <1>8, <1>9, <1>10, <1>11 DEF SearchOK

(* The files are opened, or one is missing.                                *)
LEMMA OpenFilesStep ==
  ASSUME SearchOK, ReaderOK, OpenFiles
  PROVE  SearchOK' /\ ReaderOK'
<1>1. phase = "open" /\ UNCHANGED <<settings, place, read, found, best, parses, totals, progress, output>>
  BY DEF OpenFiles
<1>2. PICK dir : dir = Disk[settings.directory]
  OBVIOUS
<1>3. \/ Missing(settings, dir) /\ phase' = "failed" /\ files' = files
      \/ ~Missing(settings, dir) /\ phase' = "read" /\ files' = Files(settings, dir)
  BY Zenon, <1>2 DEF OpenFiles
<1>4. settings.directory \in DOMAIN Disk
  BY DEF ReaderOK, Asked
<1>5. AreFiles(files')
  BY <1>2, <1>3, <1>4, FilesFacts DEF ReaderOK, AreFiles
<1>6. ReaderOK'
  BY <1>1, <1>5 DEF ReaderOK, AreFiles
<1>7. phase' \in Early /\ phase' # "extract" /\ phase \in Early
  BY <1>1, <1>3 DEF Early
<1>8. SearchOK'
  BY <1>1, <1>6, <1>7, EarlyStep DEF ReaderOK
<1> QED BY <1>6, <1>8

(* A line or a byte is read.                                               *)
LEMMA ReadNextStep ==
  ASSUME SearchOK, ReaderOK, ReadNext
  PROVE  SearchOK' /\ ReaderOK'
<1>1. /\ phase = "read" /\ files # <<>> /\ place <= Len(Head(files).data)
      /\ read' = ReadItem(read, Head(files), place, settings.detect) /\ place' = place + 1
      /\ UNCHANGED <<settings, phase, files, found, best, parses, totals, progress, output>>
  BY DEF ReadNext
<1>2. PICK f : f = Head(files) /\ IsFile(f)
  <2>1. Head(files) = files[1] /\ 1 \in DOMAIN files
    BY <1>1 DEF ReaderOK
  <2> QED BY <2>1 DEF ReaderOK
<1>3. HasRead(read')
  <2>1. HasRead(read) /\ place \in Nat \ {0} /\ place <= Len(f.data)
    BY <1>1, <1>2 DEF ReaderOK
  <2> QED BY <1>1, <1>2, <2>1, ItemFacts
<1>4. ReaderOK'
  BY <1>1, <1>3 DEF ReaderOK
<1>5. phase' \in Early /\ phase' # "extract" /\ phase \in Early
  BY <1>1 DEF Early
<1>6. SearchOK'
  BY <1>1, <1>3, <1>5, EarlyStep
<1> QED BY <1>4, <1>6

(* The next file.                                                          *)
LEMMA CloseFileStep ==
  ASSUME SearchOK, ReaderOK, CloseFile
  PROVE  SearchOK' /\ ReaderOK'
<1>1. /\ phase = "read" /\ files # <<>> /\ files' = Tail(files) /\ place' = 1 /\ read' = Afresh(read)
      /\ UNCHANGED <<settings, phase, found, best, parses, totals, progress, output>>
  BY DEF CloseFile
<1>2. HasRead(read')
  <2>1. HasRead([read EXCEPT !.awaited = FALSE, !.inside = FALSE, !.start = 0, !.packed = FALSE])
    <3>1. Bit(FALSE)
      BY Zenon DEF Bit
    <3> QED BY <3>1 DEF ReaderOK, HasRead
  <2> QED BY <1>1, <2>1, Zenon DEF Afresh
<1>3. AreFiles(files')
  <2>1. PICK s, t, S : s = files /\ t = Tail(s) /\ S = Range(s)
    OBVIOUS
  <2>2. s \in Seq(S) /\ s # <<>>
    BY <1>1, <2>1 DEF ReaderOK
  <2>3. t \in Seq(S) /\ \A i \in DOMAIN t : i + 1 \in DOMAIN s /\ t[i] = s[i + 1]
    BY <2>1, <2>2
  <2>4. \A i \in DOMAIN t : IsFile(t[i])
    BY <2>1, <2>3 DEF ReaderOK
  <2>5. t \in Seq(Range(t))
    BY <2>3, SeqWithin
  <2> QED BY <1>1, <2>1, <2>4, <2>5 DEF AreFiles
<1>4. ReaderOK'
  BY <1>1, <1>2, <1>3 DEF ReaderOK, AreFiles
<1>5. phase' \in Early /\ phase' # "extract" /\ phase \in Early
  BY <1>1 DEF Early
<1>6. SearchOK'
  BY <1>1, <1>2, <1>5, EarlyStep
<1> QED BY <1>4, <1>6

(* All is read.                                                            *)
LEMMA EndReadingStep ==
  ASSUME SearchOK, ReaderOK, EndReading
  PROVE  SearchOK' /\ ReaderOK'
<1>1. /\ phase = "read" /\ phase' = (IF read.texts = <<>> THEN "failed" ELSE "extract")
      /\ UNCHANGED <<settings, files, place, found, best, parses, totals, progress, output>>
  BY DEF EndReading
<1>2. PICK texts, style :
        /\ texts = [t \in DOMAIN read.texts |->
                     [read.texts[t] EXCEPT !.unit = RoundingNumber(read.texts[t].packed, read.version)]]
        /\ style = Style(settings, read)
        /\ read' = [read EXCEPT !.inform = style, !.texts = texts]
  BY Zenon DEF EndReading
<1>3. PICK n, old : /\ n \in Nat /\ old = read.texts /\ n = Len(old) /\ DOMAIN old = 1 .. n /\ old \in Seq(Range(old))
                            /\ \A t \in 1 .. n : IsGameText(old[t])
  BY DEF ReaderOK, HasRead, Readable
<1>4. \A p, v : RoundingNumber(p, v) \in Nat \ {0}
  BY DEF RoundingNumber
<1>5. ASSUME NEW t \in 1 .. n PROVE texts[t] = [old[t] EXCEPT !.unit = RoundingNumber(old[t].packed, read.version)]
  BY <1>2, <1>3
<1>6. DOMAIN texts = 1 .. n /\ texts = [t \in 1 .. n |-> texts[t]]
  BY <1>2, <1>3
<1>7. texts \in Seq(Range(texts))
  <2>1. \A t \in 1 .. n : texts[t] \in Range(texts)
    BY <1>6 DEF Range
  <2>2. texts \in [1 .. n -> Range(texts)]
    BY <1>6, <2>1
  <2> QED BY <1>3, <2>2, FunctionIsSeq
<1>8. ASSUME NEW t \in 1 .. n PROVE IsGameText(texts[t])
  <2>1. PICK x, u : x = old[t] /\ u = RoundingNumber(x.packed, read.version)
    OBVIOUS
  <2>2. IsGameText(x) /\ u \in Nat \ {0}
    BY <1>3, <1>4, <2>1
  <2>3. texts[t] = [x EXCEPT !.unit = u]
    BY <1>5, <2>1
  <2>4. IsGameText([x EXCEPT !.unit = u])
    BY <2>2 DEF IsGameText
  <2> QED BY <2>3, <2>4
<1>9. Readable(texts)
  BY <1>6, <1>7, <1>8 DEF Readable
<1>10. HasRead(read')
  <2>1. HasRead([read EXCEPT !.inform = style, !.texts = texts])
    BY <1>9 DEF ReaderOK, HasRead
  <2> QED BY <1>2, <2>1
<1>11. ReaderOK'
  BY <1>1, <1>10 DEF ReaderOK
<1>12. phase' = "extract" => Texts' # <<>>
  <2>1. ASSUME phase' = "extract" PROVE n # 0
    <3>1. old # <<>>
      BY <1>1, <1>3, <2>1
    <3> QED BY <1>3, <3>1
  <2>2. Texts' = texts
    <3>1. "texts" \in DOMAIN read
      BY DEF ReaderOK, HasRead
    <3> QED BY <1>2, <3>1 DEF Texts
  <2>3. n # 0 => texts # <<>>
    BY <1>3, <1>6
  <2> QED BY <2>1, <2>2, <2>3
<1>13. phase \in Early /\ phase' \in Early
  BY <1>1 DEF Early
<1>14. SearchOK'
  BY <1>1, <1>10, <1>12, <1>13, EarlyStep
<1> QED BY <1>11, <1>14

(* At the start nothing is read.                                           *)
LEMMA StartsOK ==
  ASSUME Init
  PROVE  SearchOK /\ ReaderOK
<1>1. PICK args \in CommandLines : settings = Options(args, Disk)
  BY DEF Init
<1>2. Asked(settings)
  BY <1>1, OptionsFacts
<1>3. read = Nothing(settings) /\ files = <<>> /\ place = 1 /\ phase = "open"
  BY DEF Init
<1>4. /\ {"texts", "sizes", "version", "start", "packed"} \subseteq DOMAIN read
      /\ read.texts = <<>> /\ read.sizes = <<>> /\ read.version = settings.version /\ read.start = 0
      /\ Bit(read.packed)
  <2>1. Bit(FALSE)
    BY Zenon DEF Bit
  <2> QED BY <1>3, <2>1 DEF Nothing
<1>5. HasRead(read)
  <2>1. Readable(read.texts)
    <3>1. <<>> \in Seq(Range(<<>>)) /\ DOMAIN <<>> = {}
      OBVIOUS
    <3> QED BY <1>4, <3>1 DEF Readable
  <2> QED BY <1>2, <1>4, <2>1 DEF HasRead, Asked
<1>6. ReaderOK
  BY <1>2, <1>3, <1>5, NoFile DEF ReaderOK, AreFiles
<1>7. /\ pats = [key \in {} |-> {}] /\ heap = <<>> /\ refactor = <<>> /\ best = <<>> /\ parses = <<>>
      /\ savings = 0 /\ previousSavings = 0 /\ latestBytes = 0 /\ previousBytes = 0
      /\ longest = 0 /\ passes = 0 /\ cursor = 1
  BY DEF Init
<1>8. DOMAIN pats = {}
  BY <1>7
<1>9. Fresh
  BY <1>7, <1>8 DEF Fresh
<1>10. Lists(pats, heap, best, refactor)
  <2>1. HeapOk(pats, <<>>) /\ Range(<<>>) = {} /\ Once(<<>>) /\ <<>> \in Seq(DOMAIN pats)
    BY EmptyHeap
  <2> QED BY <1>7, <2>1 DEF Lists
<1>11. Cached(settings.alpha, Texts, pats, best)
  <2>1. Range(best) = {}
    BY <1>7, EmptyHeap
  <2> QED BY <1>8, <2>1 DEF Cached, Current
<1>12. ReadOK
  BY <1>5 DEF HasRead, ReadOK, Texts
<1>13. N \in Nat /\ settings.passes \in Nat /\ settings.level \in Nat
  BY <1>2 DEF Asked, N
<1>14. Counted
  BY <1>7, <1>13 DEF Counted
<1>15. Target \in Nat
  <2>1. CASE settings.throwback
    <3>1. Target = N + Oversample
      BY <2>1 DEF Target
    <3> QED BY <1>13, <3>1, ConstantsAssumption
  <2>2. CASE ~settings.throwback
    <3>1. Target = N + 0
      BY <2>2 DEF Target
    <3> QED BY <1>13, <3>1
  <2> QED BY <2>1, <2>2
<1>16. phase \notin Late /\ phase \in Phases /\ phase # "greedy"
  BY <1>3 DEF Late, Phases
<1>17. Bounded
  <2>1. Len(best) = 0
    BY <1>7
  <2> QED BY <1>15, <1>16, <2>1 DEF Bounded
<1>18. Baseline
  BY <1>3 DEF Baseline
<1>19. SearchOK
  BY <1>3, <1>7, <1>9, <1>10, <1>11, <1>12, <1>13, <1>14, <1>16, <1>17, <1>18 DEF SearchOK
<1> QED BY <1>6, <1>19

(* Later nothing is read.                                                  *)
LEMMA ReaderKept ==
  ASSUME ReaderOK, UNCHANGED <<settings, reading>>
  PROVE  ReaderOK'
  BY DEF ReaderOK, reading

\* What holds in every state.
IInv == SearchOK /\ ReaderOK

(* Every step keeps it.                                                    *)
LEMMA StepsKeep ==
  ASSUME IInv, [Next]_vars
  PROVE  IInv'
<1>1. CASE Reading
  BY <1>1, OpenFilesStep, ReadNextStep, CloseFileStep, EndReadingStep DEF Reading, IInv
<1>2. ASSUME Extract \/ Greedy \/ Refine \/ EditKeys \/ Report \/ UNCHANGED vars PROVE IInv'
  <2>1. SearchOK'
    BY <1>2, SearchSteps DEF IInv
  <2>2. UNCHANGED <<settings, reading>>
    <3>1. Extract => UNCHANGED <<settings, reading>>
      BY DEF Extract
    <3>2. Greedy => UNCHANGED <<settings, reading>>
      BY Zenon DEF Greedy, PutBack, Accept, AcceptAndThrowBack, EndChoice
    <3>3. Refine => UNCHANGED <<settings, reading>>
      BY Zenon DEF Refine, SkipRunnerUp, RefineDeep, RefineOverlapping, EndRefinement, Replaced
    <3>4. EditKeys => UNCHANGED <<settings, reading>>
      BY Zenon DEF EditKeys, StartEdits, SkipEdit, Edit, EndEdits
    <3>5. Report => UNCHANGED <<settings, reading>>
      BY DEF Report, PrintAbbreviations, PrintOnlyRefactorings
    <3>6. UNCHANGED vars => UNCHANGED <<settings, reading>>
      BY DEF vars
    <3> QED BY <1>2, <3>1, <3>2, <3>3, <3>4, <3>5, <3>6
  <2> QED BY <2>1, <2>2, ReaderKept DEF IInv
<1>3. CASE Stopped
  BY <1>2, <1>3 DEF Stopped
<1> QED BY <1>1, <1>2, <1>3 DEF Next

(* The invariant holds.                                                    *)
THEOREM Searching ==
  Spec => []IInv
<1>1. Init => IInv
  BY StartsOK DEF IInv
<1>2. IInv /\ [Next]_vars => IInv'
  BY StepsKeep
<1> QED BY <1>1, <1>2, PTL DEF Spec

(* Whatever the game text and the options: heap and lists name patterns,   *)
(* a finished parse covers every text, the list of candidates never        *)
(* outgrows its target and the refinement never its number of passes.      *)
THEOREM Types ==
  Spec => []TypeOK
<1>1. IInv => TypeOK
  BY SearchTypes DEF IInv
<1> QED BY <1>1, Searching, PTL

(* While candidates are chosen, scored again and thrown back into the heap *)
(* (zabbrev.c's greedy choice), it keeps its order, has no pattern twice   *)
(* or chosen already, and loses none that a choice could still take.       *)
THEOREM HeapTrue ==
  Spec => []HeapSound
<1>1. IInv => HeapSound
  BY SearchHeap DEF IInv
<1> QED BY <1>1, Searching, PTL

(* The cost and the places kept with a chosen pattern are those of the key *)
(* it has now, after every choice, replacement, edit and edit taken back.  *)
THEOREM CachesTrue ==
  Spec => []CachesCurrent
<1>1. IInv => CachesCurrent
  BY SearchCaches DEF IInv
<1> QED BY <1>1, Searching, PTL

(* The size that an edit or a replacement must beat is that of the list as *)
(* it is: what was tried and rejected is taken back in full, and what was  *)
(* kept has its size noted. Lists that were cut are left out.              *)
THEOREM BaselineHolds ==
  Spec => []BaselineTrue
<1>1. IInv => BaselineTrue
  BY SearchBaseline DEF IInv
<1> QED BY <1>1, Searching, PTL

----------------------------------------------------------------------------
(* The least cost of a text.                                               *)

\* The keys that end at i in a text.
EndingAt(text, keys, i) == {a \in DOMAIN keys : i >= Len(keys[a]) /\ IsAt(text, keys[a], i - Len(keys[a]) + 1)}

\* What it costs to print the first i characters in each way to end, if f tells what
\* fewer cost.
Ways(alpha, text, keys, f, i) ==
  {f[i - 1] + ZcharCost(alpha, text[i])}
  \union {f[i - Len(keys[a])] + ReferenceCost : a \in EndingAt(text, keys, i)}

\* f tells what the first up to n characters cost at least.
Costing(alpha, text, keys, f, n) ==
  f = [i \in 0 .. n |-> IF i = 0 THEN 0 ELSE Min(Ways(alpha, text, keys, f, i))]

\* Keys are not empty.
Long(keys) == \A a \in DOMAIN keys : Len(keys[a]) \in Nat \ {0}

(* The ways depend on what fewer characters cost.                          *)
LEMMA WaysSame ==
  ASSUME NEW alpha, NEW text, NEW keys, Long(keys), NEW i \in Nat \ {0}, NEW f, NEW g,
         \A j \in 0 .. i - 1 : f[j] = g[j]
  PROVE  Ways(alpha, text, keys, f, i) = Ways(alpha, text, keys, g, i)
<1>1. f[i - 1] = g[i - 1]
  OBVIOUS
<1>2. \A a \in EndingAt(text, keys, i) : f[i - Len(keys[a])] = g[i - Len(keys[a])]
  <2>1. ASSUME NEW a \in EndingAt(text, keys, i) PROVE i - Len(keys[a]) \in 0 .. i - 1
    <3>1. PICK n \in Nat \ {0} : n = Len(keys[a])
      BY DEF Long, EndingAt
    <3>2. i >= n
      BY <3>1 DEF EndingAt
    <3> QED BY <3>1, <3>2
  <2> QED BY <2>1
<1>3. {f[i - Len(keys[a])] + ReferenceCost : a \in EndingAt(text, keys, i)}
      = {g[i - Len(keys[a])] + ReferenceCost : a \in EndingAt(text, keys, i)}
  BY <1>2, Zenon
<1> QED BY <1>1, <1>3, Zenon DEF Ways

(* There is such a function.                                               *)
LEMMA CostingExists ==
  ASSUME NEW alpha, NEW text, NEW keys, Long(keys), NEW top \in Nat
  PROVE  \E f : Costing(alpha, text, keys, f, top)
<1> DEFINE G == {n \in Nat : \E f : Costing(alpha, text, keys, f, n)}
<1>1. 0 \in G
  <2>1. PICK f : f = [i \in 0 .. 0 |-> 0]
    OBVIOUS
  <2>2. \A i \in 0 .. 0 : i = 0
    OBVIOUS
  <2>3. f = [i \in 0 .. 0 |-> IF i = 0 THEN 0 ELSE Min(Ways(alpha, text, keys, f, i))]
    BY <2>1, <2>2, Zenon
  <2>4. Costing(alpha, text, keys, f, 0)
    BY <2>3, Zenon DEF Costing
  <2> QED BY <2>4
<1>2. ASSUME NEW n \in Nat, n \in G PROVE n + 1 \in G
  <2>1. PICK f : Costing(alpha, text, keys, f, n)
    BY <1>2
  <2>2. PICK g : g = [i \in 0 .. n + 1 |-> IF i = 0 THEN 0 ELSE Min(Ways(alpha, text, keys, f, i))]
    OBVIOUS
  <2>3. ASSUME NEW i \in 0 .. n PROVE g[i] = f[i]
    <3>1. i \in 0 .. n + 1
      OBVIOUS
    <3>2. f[i] = IF i = 0 THEN 0 ELSE Min(Ways(alpha, text, keys, f, i))
      BY <2>1, Zenon DEF Costing
    <3> QED BY <2>2, <3>1, <3>2, Zenon
  <2>4. ASSUME NEW i \in 0 .. n + 1, i # 0
        PROVE  Ways(alpha, text, keys, f, i) = Ways(alpha, text, keys, g, i)
    <3>1. i \in Nat \ {0} /\ \A j \in 0 .. i - 1 : j \in 0 .. n
      BY <2>4
    <3>2. \A j \in 0 .. i - 1 : f[j] = g[j]
      BY <2>3, <3>1, Zenon
    <3> QED BY <3>1, <3>2, WaysSame
  <2>5. g = [i \in 0 .. n + 1 |-> IF i = 0 THEN 0 ELSE Min(Ways(alpha, text, keys, g, i))]
    <3>1. \A i \in 0 .. n + 1 : (IF i = 0 THEN 0 ELSE Min(Ways(alpha, text, keys, f, i)))
                                = IF i = 0 THEN 0 ELSE Min(Ways(alpha, text, keys, g, i))
      BY <2>4, Zenon
    <3> QED BY <2>2, <3>1, Zenon
  <2>6. Costing(alpha, text, keys, g, n + 1)
    BY <2>5, Zenon DEF Costing
  <2> QED BY <2>6
<1> HIDE DEF G
<1>3. top \in G
  BY <1>1, <1>2, Induction
<1> QED BY <1>3 DEF G

\* f[i] is the cost of a cheapest way to end, and no way costs less.
LeastCosts(alpha, text, keys, f, n) ==
  /\ f[0] = 0 /\ \A i \in 0 .. n : f[i] \in Nat
  /\ \A i \in 1 .. n : /\ f[i] \in Ways(alpha, text, keys, f, i)
                       /\ \A c \in Ways(alpha, text, keys, f, i) : f[i] <= c

(* A set of numbers has a least one.                                       *)
LEMMA MinFacts ==
  ASSUME NEW S, S \subseteq Nat, S # {}
  PROVE  Min(S) \in S /\ \A n \in S : Min(S) <= n
BY LeastOf DEF Min

(* The function has the least costs.                                       *)
LEMMA CostingFacts ==
  ASSUME NEW alpha, NEW text, NEW keys, Long(keys), NEW n \in Nat, NEW f, Costing(alpha, text, keys, f, n)
  PROVE  LeastCosts(alpha, text, keys, f, n)
<1>1. \A i \in 0 .. n : f[i] = IF i = 0 THEN 0 ELSE Min(Ways(alpha, text, keys, f, i))
  BY Zenon DEF Costing
<1>2. ASSUME NEW i \in 1 .. n, \A j \in 0 .. i - 1 : f[j] \in Nat
      PROVE  Ways(alpha, text, keys, f, i) \subseteq Nat /\ Ways(alpha, text, keys, f, i) # {}
  <2>1. f[i - 1] + ZcharCost(alpha, text[i]) \in Nat
    <3>1. PICK c \in {1, 2, 4} : c = ZcharCost(alpha, text[i])
      BY CharCost
    <3>2. f[i - 1] \in Nat
      BY <1>2
    <3> QED BY <3>1, <3>2
  <2>2. ASSUME NEW a \in EndingAt(text, keys, i) PROVE f[i - Len(keys[a])] + ReferenceCost \in Nat
    <3>1. PICK m \in Nat \ {0} : m = Len(keys[a])
      BY DEF Long, EndingAt
    <3>2. i >= m
      BY <3>1 DEF EndingAt
    <3>3. f[i - m] \in Nat
      BY <1>2, <3>1, <3>2
    <3> QED BY <3>1, <3>3 DEF ReferenceCost
  <2> QED BY <2>1, <2>2 DEF Ways
<1> DEFINE G == {i \in 0 .. n : \A j \in 0 .. i : f[j] \in Nat}
<1>3. 0 \in G
  <2>1. \A j \in 0 .. 0 : j = 0
    OBVIOUS
  <2>2. f[0] = 0
    BY <1>1
  <2> QED BY <2>1, <2>2
<1>4. ASSUME NEW i \in 1 .. n, i - 1 \in G PROVE i \in G
  <2>1. \A j \in 0 .. i - 1 : f[j] \in Nat
    BY <1>4
  <2>2. f[i] = Min(Ways(alpha, text, keys, f, i))
    BY <1>1, i \in 0 .. n /\ i # 0
  <2>3. f[i] \in Nat
    BY <1>2, <2>1, <2>2, MinFacts
  <2>4. \A j \in 0 .. i : j = i \/ j \in 0 .. i - 1
    OBVIOUS
  <2>5. \A j \in 0 .. i : f[j] \in Nat
    BY <2>1, <2>3, <2>4, Zenon
  <2>6. i \in 0 .. n
    OBVIOUS
  <2> QED BY <2>5, <2>6, Zenon
<1>5. \A i \in 0 .. n : i \in G
  <2> HIDE DEF G
  <2> QED BY <1>3, <1>4, BoundedInduction
<1>6. \A i \in 0 .. n : f[i] \in Nat
  <2>1. \A i \in 0 .. n : i \in 0 .. i
    OBVIOUS
  <2> QED BY <1>5, <2>1, Zenon
<1>7. f[0] = 0
  BY <1>1
<1>8. ASSUME NEW i \in 1 .. n
      PROVE  f[i] \in Ways(alpha, text, keys, f, i) /\ \A c \in Ways(alpha, text, keys, f, i) : f[i] <= c
  <2>1. f[i] = Min(Ways(alpha, text, keys, f, i))
    BY <1>1, i \in 0 .. n /\ i # 0
  <2>2. \A j \in 0 .. i - 1 : f[j] \in Nat
    BY <1>6, \A j \in 0 .. i - 1 : j \in 0 .. n
  <2>3. Ways(alpha, text, keys, f, i) \subseteq Nat /\ Ways(alpha, text, keys, f, i) # {}
    BY <1>2, <2>2
  <2> QED BY <2>1, <2>3, MinFacts
<1> QED BY <1>6, <1>7, <1>8 DEF LeastCosts

\* The list that a line is parsed with has the keys, each with its places in the line.
Matches(text, keys, list, line, n) ==
  /\ DOMAIN list = DOMAIN keys /\ Long(keys)
  /\ \A a \in DOMAIN keys : /\ list[a].key = keys[a]
                            /\ list[a].occurrences[line] = {i \in 1 .. n : IsAt(text, keys[a], i)}

(* The parse costs what a text costs at least.                             *)
LEMMA ParseLeast ==
  ASSUME NEW alpha, NEW text, NEW n \in Nat, n = Len(text), NEW keys, NEW list, NEW line,
         Matches(text, keys, list, line, n),
         NEW parse, IsParse(alpha, text, list, line, n, parse),
         NEW f, LeastCosts(alpha, text, keys, f, n)
  PROVE  parse[1].cost = f[n]
<1>1. PICK c : c = [i \in 1 .. n + 1 |-> parse[i].cost]
  OBVIOUS
<1>2. PICK z : z = [i \in 1 .. n |-> ZcharCost(alpha, text[i])]
  OBVIOUS
<1>3. /\ \A i \in 1 .. n + 1 : c[i] = parse[i].cost /\ c[i] \in Nat
      /\ c[n + 1] = 0
      /\ \A i \in 1 .. n : z[i] = ZcharCost(alpha, text[i]) /\ z[i] \in Nat
  <2>1. \A i \in 1 .. n + 1 : c[i] = parse[i].cost
    BY <1>1
  <2>2. \A i \in 1 .. n + 1 : parse[i].cost \in Nat
    <3>1. parse \in Seq([cost : Nat, pick : 0 .. Len(list)]) /\ DOMAIN parse = 1 .. n + 1
      BY Zenon DEF IsParse
    <3>2. \A i \in 1 .. n + 1 : parse[i] \in [cost : Nat, pick : 0 .. Len(list)]
      BY <3>1, SeqFacts
    <3> QED BY <3>2
  <2>3. c[n + 1] = 0
    BY <2>1 DEF IsParse
  <2>4. ASSUME NEW i \in 1 .. n PROVE z[i] = ZcharCost(alpha, text[i]) /\ z[i] \in Nat
    BY <1>2, CharCost
  <2> QED BY <2>1, <2>2, <2>3, <2>4
<1>4. ASSUME NEW a \in DOMAIN keys, NEW i \in list[a].occurrences[line]
      PROVE  /\ i \in 1 .. n /\ i + Len(keys[a]) \in 2 .. n + 1 /\ i + Len(keys[a]) > i
             /\ i + Len(keys[a]) - 1 \in i .. n
             /\ a \in EndingAt(text, keys, i + Len(keys[a]) - 1)
             /\ (i + Len(keys[a]) - 1) - Len(keys[a]) = i - 1
  <2>1. PICK m \in Nat \ {0} : m = Len(keys[a])
    BY DEF Matches, Long
  <2>2. i \in 1 .. n /\ IsAt(text, keys[a], i)
    BY DEF Matches
  <2>3. i + m - 1 <= n
    BY <2>1, <2>2 DEF IsAt
  <2>4. PICK e \in Int : e = i + m - 1
    BY <2>2
  <2>5. e >= m /\ e - m + 1 = i /\ i + m = e + 1 /\ e - m = i - 1
    BY <2>2, <2>4
  <2>6. a \in EndingAt(text, keys, e)
    BY <2>1, <2>2, <2>5 DEF EndingAt
  <2> QED BY <2>1, <2>2, <2>3, <2>4, <2>5, <2>6
<1>5. ASSUME NEW i \in 1 .. n, NEW a \in EndingAt(text, keys, i)
      PROVE  i - Len(keys[a]) + 1 \in list[a].occurrences[line] /\ a \in DOMAIN keys
             /\ i - Len(keys[a]) \in 0 .. i - 1
             /\ i - Len(keys[a]) + 1 + Len(keys[a]) = i + 1
  <2>1. PICK m \in Nat \ {0} : m = Len(keys[a])
    BY DEF Matches, Long, EndingAt
  <2>2. i >= m /\ IsAt(text, keys[a], i - m + 1) /\ a \in DOMAIN keys
    BY <2>1 DEF EndingAt
  <2>3. i - m + 1 \in 1 .. n
    BY <2>2
  <2>4. i - m + 1 \in list[a].occurrences[line]
    BY <2>2, <2>3 DEF Matches
  <2> QED BY <2>1, <2>2, <2>4
<1>6. \A i \in 1 .. n : c[i] <= c[i + 1] + z[i]
  BY <1>3, \A i \in 1 .. n : i \in 1 .. n + 1 /\ i + 1 \in 1 .. n + 1 DEF IsParse
<1>7. ASSUME NEW a \in DOMAIN keys, NEW i \in list[a].occurrences[line]
      PROVE  c[i] <= 2 + c[i + Len(keys[a])]
  <2>1. i \in 1 .. n /\ i \in 1 .. n + 1 /\ i + Len(keys[a]) \in 1 .. n + 1
    BY <1>4
  <2>2. list[a].key = keys[a] /\ a \in DOMAIN list
    BY DEF Matches
  <2>3. parse[i].cost <= ReferenceCost + parse[i + Len(list[a].key)].cost
    BY <2>1, <2>2 DEF IsParse
  <2> QED BY <1>3, <2>1, <2>2, <2>3 DEF ReferenceCost
<1>8. ASSUME NEW i \in 1 .. n
      PROVE  \/ c[i] = c[i + 1] + z[i]
             \/ \E a \in DOMAIN keys : i \in list[a].occurrences[line] /\ c[i] = 2 + c[i + Len(keys[a])]
  <2>1. CASE parse[i].pick = 0 /\ parse[i].cost = parse[i + 1].cost + ZcharCost(alpha, text[i])
    BY <1>3, <2>1, i \in 1 .. n + 1 /\ i + 1 \in 1 .. n + 1
  <2>2. CASE /\ parse[i].pick \in DOMAIN list /\ i \in list[parse[i].pick].occurrences[line]
             /\ parse[i].cost = ReferenceCost + parse[i + Len(list[parse[i].pick].key)].cost
    <3>1. PICK a : a = parse[i].pick
      OBVIOUS
    <3>2. a \in DOMAIN keys /\ list[a].key = keys[a] /\ i \in list[a].occurrences[line]
      BY <2>2, <3>1 DEF Matches
    <3>3. i \in 1 .. n + 1 /\ i + Len(keys[a]) \in 1 .. n + 1
      BY <1>4, <3>2
    <3>4. c[i] = 2 + c[i + Len(keys[a])]
      BY <1>3, <2>2, <3>1, <3>2, <3>3 DEF ReferenceCost
    <3> QED BY <3>2, <3>4
  <2> QED BY <2>1, <2>2 DEF IsParse
<1>9. /\ f[0] = 0 /\ \A i \in 0 .. n : f[i] \in Nat
      /\ \A i \in 1 .. n : f[i] <= f[i - 1] + z[i]
      /\ \A i \in 1 .. n : \A a \in EndingAt(text, keys, i) : f[i] <= f[i - Len(keys[a])] + 2
      /\ \A i \in 1 .. n : \/ f[i] = f[i - 1] + z[i]
                           \/ \E a \in EndingAt(text, keys, i) : f[i] = f[i - Len(keys[a])] + 2
  <2>1. f[0] = 0 /\ \A i \in 0 .. n : f[i] \in Nat
    BY Zenon DEF LeastCosts
  <2>2. ASSUME NEW i \in 1 .. n
        PROVE  /\ f[i] <= f[i - 1] + z[i]
               /\ \A a \in EndingAt(text, keys, i) : f[i] <= f[i - Len(keys[a])] + 2
               /\ \/ f[i] = f[i - 1] + z[i]
                  \/ \E a \in EndingAt(text, keys, i) : f[i] = f[i - Len(keys[a])] + 2
    <3>1. f[i] \in Ways(alpha, text, keys, f, i) /\ \A w \in Ways(alpha, text, keys, f, i) : f[i] <= w
      BY Zenon DEF LeastCosts
    <3>2. Ways(alpha, text, keys, f, i)
          = {f[i - 1] + z[i]} \union {f[i - Len(keys[a])] + 2 : a \in EndingAt(text, keys, i)}
      BY <1>3, Zenon DEF Ways, ReferenceCost
    <3> QED BY <3>1, <3>2, Zenon
  <2> QED BY <2>1, <2>2
<1>10. c[1] <= f[n] + c[n + 1]
  <2> DEFINE P(j) == c[1] <= f[j] + c[j + 1]
             G == {i \in 0 .. n : \A j \in 0 .. i : P(j)}
  <2>1. 0 \in G
    <3>1. \A j \in 0 .. 0 : j = 0
      OBVIOUS
    <3>2. P(0)
      BY <1>3, <1>9
    <3>3. \A j \in 0 .. 0 : P(j)
      <4> HIDE DEF P
      <4> QED BY <3>1, <3>2
    <3> HIDE DEF P
    <3> QED BY <3>3
  <2>2. ASSUME NEW i \in 1 .. n, i - 1 \in G PROVE i \in G
    <3>1. \A j \in 0 .. i - 1 : P(j)
      <4> HIDE DEF P
      <4> QED BY <2>2
    <3>2. P(i)
      <4>0. c[1] \in Nat /\ c[i] \in Nat /\ c[i + 1] \in Nat /\ f[i] \in Nat /\ f[i - 1] \in Nat /\ z[i] \in Nat
        BY <1>3, <1>9
      <4>1. CASE f[i] = f[i - 1] + z[i]
        <5>1. i - 1 \in 0 .. i - 1 /\ i - 1 + 1 = i
          OBVIOUS
        <5>2. c[1] <= f[i - 1] + c[i]
          BY <3>1, <5>1
        <5>3. c[i] <= c[i + 1] + z[i]
          BY <1>6
        <5> QED BY <4>0, <4>1, <5>2, <5>3
      <4>2. ASSUME NEW a \in EndingAt(text, keys, i), f[i] = f[i - Len(keys[a])] + 2 PROVE P(i)
        <5>1. PICK p \in 0 .. i - 1 : p = i - Len(keys[a])
          BY <1>5
        <5>2. p + 1 \in list[a].occurrences[line] /\ a \in DOMAIN keys /\ p + 1 + Len(keys[a]) = i + 1
          BY <1>5, <5>1
        <5>3. c[1] <= f[p] + c[p + 1]
          BY <3>1
        <5>4. c[p + 1] <= 2 + c[i + 1]
          <6>1. PICK q : q = p + 1
            OBVIOUS
          <6>2. c[q] <= 2 + c[q + Len(keys[a])]
            BY <1>7, <5>2, <6>1
          <6>3. q + Len(keys[a]) = i + 1
            BY <5>2, <6>1
          <6> QED BY <6>1, <6>2, <6>3
        <5>5. f[p] \in Nat /\ c[p + 1] \in Nat /\ f[i] = f[p] + 2
          <6>1. p \in 0 .. n /\ p + 1 \in 1 .. n + 1
            OBVIOUS
          <6>2. f[p] \in Nat /\ c[p + 1] \in Nat
            BY <1>3, <1>9, <6>1
          <6> QED BY <4>2, <5>1, <6>2
        <5>6. PICK x, y, w, u, s \in Nat : /\ x = c[1] /\ y = c[p + 1] /\ w = c[i + 1] /\ u = f[p] /\ s = f[i]
          BY <4>0, <5>5
        <5>7. x <= u + y /\ y <= 2 + w /\ s = u + 2
          BY <5>3, <5>4, <5>5, <5>6
        <5>8. x <= s + w
          BY <5>7
        <5> QED BY <5>6, <5>8
      <4> QED BY <1>9, <4>1, <4>2
    <3>3. \A j \in 0 .. i : j = i \/ j \in 0 .. i - 1
      OBVIOUS
    <3>4. \A j \in 0 .. i : P(j)
      <4> HIDE DEF P
      <4> QED BY <3>1, <3>2, <3>3
    <3> HIDE DEF P
    <3> QED BY <3>4
  <2>3. \A i \in 0 .. n : i \in G
    <3> HIDE DEF G
    <3> QED BY <2>1, <2>2, BoundedInduction
  <2>4. n \in G
    <3> HIDE DEF G
    <3> QED BY <2>3
  <2>5. P(n)
    <3> HIDE DEF P
    <3> QED BY <2>4
  <2> QED BY <2>5
<1>11. f[n] <= f[0] + c[1]
  <2> DEFINE P(j) == f[n] <= f[n - j] + c[n - j + 1]
             G == {i \in 0 .. n : \A j \in 0 .. i : P(j)}
  <2>1. 0 \in G
    <3>1. \A j \in 0 .. 0 : j = 0
      OBVIOUS
    <3>2. P(0)
      BY <1>3, <1>9
    <3>3. \A j \in 0 .. 0 : P(j)
      <4> HIDE DEF P
      <4> QED BY <3>1, <3>2
    <3> HIDE DEF P
    <3> QED BY <3>3
  <2>2. ASSUME NEW k \in 1 .. n, k - 1 \in G PROVE k \in G
    <3>1. \A j \in 0 .. k - 1 : P(j)
      <4> HIDE DEF P
      <4> QED BY <2>2
    <3>2. \A j \in n - k + 1 .. n : f[n] <= f[j] + c[j + 1]
      <4>1. ASSUME NEW j \in n - k + 1 .. n PROVE f[n] <= f[j] + c[j + 1]
        <5>1. PICK m : m = n - j
          OBVIOUS
        <5>2. m \in 0 .. k - 1 /\ n - m = j
          BY <5>1
        <5>3. f[n] <= f[n - m] + c[n - m + 1]
          BY <3>1, <5>2
        <5> QED BY <5>2, <5>3
      <4> QED BY <4>1
    <3>3. PICK i \in 1 .. n : i = n - k + 1
      OBVIOUS
    <3>4. f[n] <= f[i - 1] + c[i]
      <4>0. c[i] \in Nat /\ c[i + 1] \in Nat /\ f[n] \in Nat /\ f[i] \in Nat /\ f[i - 1] \in Nat /\ z[i] \in Nat
        BY <1>3, <1>9
      <4>1. CASE c[i] = c[i + 1] + z[i]
        <5>1. f[n] <= f[i] + c[i + 1]
          BY <3>2, <3>3
        <5>2. f[i] <= f[i - 1] + z[i]
          BY <1>9
        <5>3. PICK x, y, w, v, u, s \in Nat : /\ x = f[n] /\ y = f[i] /\ w = c[i + 1] /\ v = z[i] /\ u = f[i - 1]
                                            /\ s = c[i]
          BY <4>0
        <5>4. x <= y + w /\ y <= u + v /\ s = v + w
          BY <4>1, <5>1, <5>2, <5>3
        <5>5. x <= u + s
          BY <5>4
        <5> QED BY <5>3, <5>5
      <4>2. ASSUME NEW a \in DOMAIN keys, i \in list[a].occurrences[line], c[i] = 2 + c[i + Len(keys[a])]
            PROVE  f[n] <= f[i - 1] + c[i]
        <5>1. PICK e \in i .. n : e = i + Len(keys[a]) - 1
          BY <1>4, <4>2
        <5>2. e + 1 = i + Len(keys[a]) /\ e \in n - k + 1 .. n /\ e \in 1 .. n
          <6>1. i + Len(keys[a]) \in Int
            BY <1>4, <4>2
          <6> QED BY <3>3, <5>1, <6>1
        <5>3. f[n] <= f[e] + c[e + 1]
          BY <3>2, <5>2
        <5>4. a \in EndingAt(text, keys, e) /\ e - Len(keys[a]) = i - 1
          BY <1>4, <4>2, <5>1
        <5>5. f[e] <= f[i - 1] + 2
          BY <1>9, <5>2, <5>4
        <5>6. f[e] \in Nat /\ c[e + 1] \in Nat /\ c[i] = 2 + c[e + 1]
          BY <1>3, <1>9, <4>2, <5>2
        <5>7. PICK x, y, w, u, s \in Nat : /\ x = f[n] /\ y = f[e] /\ w = c[e + 1] /\ u = f[i - 1] /\ s = c[i]
          BY <4>0, <5>6
        <5>8. x <= y + w /\ y <= u + 2 /\ s = 2 + w
          BY <5>3, <5>5, <5>6, <5>7
        <5>9. x <= u + s
          BY <5>8
        <5> QED BY <5>7, <5>9
      <4> QED BY <1>8, <4>1, <4>2
    <3>5. P(k)
      BY <3>3, <3>4
    <3>6. \A j \in 0 .. k : j = k \/ j \in 0 .. k - 1
      OBVIOUS
    <3>7. \A j \in 0 .. k : P(j)
      <4> HIDE DEF P
      <4> QED BY <3>1, <3>5, <3>6
    <3> HIDE DEF P
    <3> QED BY <3>7
  <2>3. \A i \in 0 .. n : i \in G
    <3> HIDE DEF G
    <3> QED BY <2>1, <2>2, BoundedInduction
  <2>4. n \in G
    <3> HIDE DEF G
    <3> QED BY <2>3
  <2>5. P(n)
    <3> HIDE DEF P
    <3> QED BY <2>4
  <2> QED BY <2>5
<1>12. f[n] \in Nat /\ f[0] = 0 /\ c[1] \in Nat /\ c[n + 1] = 0 /\ c[1] = parse[1].cost
  BY <1>3, <1>9
<1> QED BY <1>10, <1>11, <1>12

----------------------------------------------------------------------------
(* Texts in pieces.                                                        *)

(* Ways to flatten that begin alike go on alike.                           *)
LEMMA FlatsAgree ==
  ASSUME NEW S, NEW n \in Nat, NEW m \in Nat, m <= n, NEW s, NEW t, NEW f, NEW g,
         Flat(f, n, s, S), Flat(g, m, t, S), Alike(s, t, m)
  PROVE  f[m] = g[m]
<1> DEFINE G == {i \in 0 .. m : f[i] = g[i]}
<1>1. 0 \in G
  BY DEF Flat
<1>2. ASSUME NEW i \in 1 .. m, i - 1 \in G PROVE i \in G
  <2>1. f[i - 1] = g[i - 1] /\ s[i] = t[i] /\ i \in 0 .. m
    BY <1>2 DEF Alike
  <2>2. f[i] = f[i - 1] \o s[i] /\ g[i] = g[i - 1] \o t[i]
    <3>1. i \in 1 .. n
      OBVIOUS
    <3> QED BY <3>1, Zenon DEF Flat
  <2>3. f[i] = g[i]
    BY <2>1, <2>2, Zenon
  <2> QED BY <2>1, <2>3, Zenon
<1>3. \A i \in 0 .. m : i \in G
  <2> HIDE DEF G
  <2> QED BY <1>1, <1>2, BoundedInduction
<1>4. m \in 0 .. m
  OBVIOUS
<1> QED BY <1>3, <1>4, Zenon

\* So many sequences to join.
Joinable(s, n, S) ==
  /\ n \in Nat /\ DOMAIN s = 1 .. n /\ Len(s) = n /\ (n = 0 => s = <<>>)
  /\ \A i \in 1 .. n : s[i] \in Seq(S)

(* One more sequence is joined at the end.                                 *)
LEMMA FlattenMore ==
  ASSUME NEW S, NEW n, NEW s, Joinable(s, n, S), NEW m, IsSum(m, n, 1), NEW t, Joinable(t, m, S), Alike(t, s, n)
  PROVE  FlattenSeq(t) = FlattenSeq(s) \o t[m] /\ FlattenSeq(s) \in Seq(S) /\ FlattenSeq(t) \in Seq(S)
<1>1. n \in Nat /\ m \in Nat /\ m # 0 /\ m - 1 = n /\ n <= m /\ m \in 1 .. m
  BY DEF Joinable, IsSum
<1>2. PICK f : Flat(f, n, s, S) /\ f[n] = FlattenSeq(s) /\ FlattenSeq(s) \in Seq(S)
  BY FlattenFacts DEF Joinable
<1>3. PICK g : Flat(g, m, t, S) /\ g[m] = FlattenSeq(t) /\ FlattenSeq(t) \in Seq(S)
  BY FlattenFacts DEF Joinable
<1>4. g[n] = f[n]
  BY <1>1, <1>2, <1>3, FlatsAgree
<1>5. g[m] = g[m - 1] \o t[m]
  BY <1>1, <1>3, Zenon DEF Flat
<1> QED BY <1>1, <1>2, <1>3, <1>4, <1>5, Zenon

\* A piece of a text.
Pieces == [marked : BOOLEAN, chars : Seq(Int)]

\* The characters of pieces.
Charred(pieces) == FlattenSeq([p \in DOMAIN pieces |-> pieces[p].chars])

\* What a piece costs, and what pieces do.
PieceCost(alpha, q) == IF q.marked THEN ReferenceCost ELSE ZstringCost(alpha, q.chars)
PrintCost(alpha, pieces) ==
  Total([p \in DOMAIN pieces |-> IF pieces[p].marked THEN ReferenceCost ELSE ZstringCost(alpha, pieces[p].chars)])

(* A piece more adds its characters and its cost.                          *)
LEMMA PieceMore ==
  ASSUME NEW alpha, NEW pieces \in Seq(Pieces), NEW q \in Pieces
  PROVE  /\ Charred(pieces) \in Seq(Int)
         /\ Charred(Append(pieces, q)) = Charred(pieces) \o q.chars
         /\ PrintCost(alpha, pieces) \in Int
         /\ PrintCost(alpha, Append(pieces, q)) = PrintCost(alpha, pieces) + PieceCost(alpha, q)
<1>1. PICK n, more, m : /\ n \in Nat /\ n = Len(pieces) /\ DOMAIN pieces = 1 .. n
                        /\ more = Append(pieces, q) /\ m = n + 1 /\ DOMAIN more = 1 .. m
                        /\ more \in Seq(Pieces)
                        /\ more[m] = q /\ \A i \in 1 .. n : more[i] = pieces[i]
  <2>1. PICK n \in Nat : n = Len(pieces)
    BY AppendFacts
  <2>2. PICK m : m = n + 1
    OBVIOUS
  <2>3. PICK more : more = Append(pieces, q)
    OBVIOUS
  <2>4. more \in Seq(Pieces) /\ DOMAIN more = 1 .. m /\ more[m] = q /\ DOMAIN pieces = 1 .. n
        /\ \A i \in 1 .. n : more[i] = pieces[i]
    BY <2>1, <2>2, <2>3, AppendFacts
  <2> QED BY <2>1, <2>2, <2>3, <2>4, Zenon
<1>2. m \in Nat /\ m \in 1 .. m /\ \A i \in 1 .. n : i \in 1 .. m
  BY <1>1
<1>3. PICK s : s = [p \in 1 .. n |-> pieces[p].chars]
  OBVIOUS
<1>4. PICK t : t = [p \in 1 .. m |-> more[p].chars]
  OBVIOUS
<1>5. \A i \in 1 .. n : pieces[i] \in Pieces
  BY <1>1
<1>6. s \in Seq(Seq(Int)) /\ Len(s) = n /\ DOMAIN s = 1 .. n /\ \A i \in 1 .. n : s[i] \in Seq(Int)
  <2>1. \A i \in 1 .. n : s[i] \in Seq(Int)
    BY <1>3, <1>5 DEF Pieces
  <2>2. s \in [1 .. n -> Seq(Int)]
    BY <1>3, <2>1
  <2> QED BY <1>1, <2>1, <2>2, FunctionIsSeq
<1>7. \A i \in 1 .. m : more[i] \in Pieces
  BY <1>1, <1>2, SeqFacts
<1>8. t \in Seq(Seq(Int)) /\ Len(t) = m /\ DOMAIN t = 1 .. m /\ t[m] = q.chars /\ \A i \in 1 .. n : t[i] = s[i]
  <2>1. \A i \in 1 .. m : t[i] \in Seq(Int)
    BY <1>4, <1>7 DEF Pieces
  <2>2. t \in [1 .. m -> Seq(Int)]
    BY <1>4, <2>1
  <2>3. t[m] = q.chars /\ \A i \in 1 .. n : t[i] = s[i]
    BY <1>1, <1>2, <1>3, <1>4, Zenon
  <2> QED BY <1>2, <2>2, <2>3, FunctionIsSeq
<1>9. Joinable(s, n, Int)
  <2>1. n = 0 => s = <<>>
    BY <1>6
  <2> QED BY <1>1, <1>6, <2>1 DEF Joinable
<1>10. Joinable(t, m, Int)
  <2>1. \A i \in 1 .. m : t[i] \in Seq(Int)
    BY <1>8
  <2> QED BY <1>2, <1>8, <2>1 DEF Joinable
<1>11. FlattenSeq(t) = FlattenSeq(s) \o q.chars /\ FlattenSeq(s) \in Seq(Int)
  <2>1. Alike(t, s, n) /\ IsSum(m, n, 1)
    BY <1>1, <1>8 DEF Alike, IsSum
  <2>2. PICK S : S = Int
    OBVIOUS
  <2>3. Joinable(s, n, S) /\ Joinable(t, m, S)
    BY <1>9, <1>10, <2>2, Zenon
  <2>4. FlattenSeq(t) = FlattenSeq(s) \o t[m] /\ FlattenSeq(s) \in Seq(S)
    BY ONLY <2>1, <2>3, FlattenMore
  <2> QED BY <1>8, <2>2, <2>4, Zenon
<1>12. Charred(pieces) = FlattenSeq(s) /\ Charred(more) = FlattenSeq(t)
  BY <1>1, <1>3, <1>4, Zenon DEF Charred
<1>13. PICK u : u = [p \in 1 .. n |-> PieceCost(alpha, pieces[p])]
  OBVIOUS
<1>14. PICK v : v = [p \in 1 .. m |-> PieceCost(alpha, more[p])]
  OBVIOUS
<1>15. ASSUME NEW x \in Pieces PROVE PieceCost(alpha, x) \in Int
  <2>1. x.chars \in Seq(Int)
    BY DEF Pieces
  <2>2. ZstringCost(alpha, x.chars) \in Nat
    BY <2>1, CostTotal
  <2> QED BY <2>2 DEF PieceCost, ReferenceCost
<1>16. Numbers(u, n)
  <2>1. \A i \in 1 .. n : u[i] \in Int
    BY <1>5, <1>13, <1>15
  <2>2. u = [i \in 1 .. n |-> u[i]]
    BY <1>13
  <2> QED BY <1>1, <2>1, <2>2, NumbersFrom
<1>17. Numbers(v, m)
  <2>1. \A i \in 1 .. m : v[i] \in Int
    BY <1>7, <1>14, <1>15
  <2>2. v = [i \in 1 .. m |-> v[i]]
    BY <1>14
  <2> QED BY <1>2, <2>1, <2>2, NumbersFrom
<1>18. \A i \in 1 .. n : v[i] = u[i]
  BY <1>1, <1>2, <1>13, <1>14, Zenon
<1>19. v[m] = PieceCost(alpha, q)
  BY <1>1, <1>2, <1>14, Zenon
<1>20. Total(v) = Total(u) + PieceCost(alpha, q)
  BY <1>1, <1>16, <1>17, <1>18, <1>19, TotalNext
<1>21. PrintCost(alpha, pieces) = Total(u) /\ PrintCost(alpha, more) = Total(v)
  BY <1>1, <1>13, <1>14, Zenon DEF PrintCost, PieceCost
<1>22. Total(u) \in Int
  BY <1>16, TotalSums
<1> QED BY <1>1, <1>11, <1>12, <1>20, <1>21, <1>22

(* Of no pieces nothing is printed, at no cost.                            *)
LEMMA NoPieces ==
  ASSUME NEW alpha
  PROVE  Charred(<<>>) = <<>> /\ PrintCost(alpha, <<>>) = 0 /\ <<>> \in Seq(Pieces)
<1>1. DOMAIN <<>> = 1 .. 0 /\ <<>> \in Seq(Pieces)
  OBVIOUS
<1>2. PICK s : s = [p \in DOMAIN <<>> |-> <<>>[p].chars]
  OBVIOUS
<1>3. s = <<>>
  BY <1>1, <1>2
<1>4. FlattenSeq(s) = <<>>
  BY <1>3 DEF FlattenSeq
<1>5. PICK u : u = [p \in DOMAIN <<>> |-> IF <<>>[p].marked THEN ReferenceCost ELSE ZstringCost(alpha, <<>>[p].chars)]
  OBVIOUS
<1>6. u = [i \in 1 .. 0 |-> u[i]] /\ \A i \in 1 .. 0 : u[i] \in Int
  BY <1>1, <1>5
<1>7. Numbers(u, 0)
  BY <1>6, NumbersFrom
<1>8. Total(u) = 0
  BY <1>7, TotalNone
<1> QED BY <1>1, <1>2, <1>4, <1>5, <1>8, Zenon DEF Charred, PrintCost

\* A key stands behind so many characters.
Behind(text, m, key, l) == \A j \in 1 .. l : text[m + j] = key[j]

\* The first characters of a text, with a key behind them, are the first so many more.
Grows(text, m, key, l, q) ==
  /\ text \in Seq(Int) /\ m \in Nat /\ key \in Seq(Int) /\ l \in Nat /\ l = Len(key)
  /\ q \in Nat /\ IsSum(q, m, l) /\ q <= Len(text) /\ Behind(text, m, key, l)
Grown(text, m, key, q) == SubSeq(text, 1, m) \o key = SubSeq(text, 1, q)

(* The beginning of a text grows by a key that stands behind it.           *)
LEMMA PrefixGrows ==
  ASSUME NEW text, NEW m, NEW key, NEW l, NEW q, Grows(text, m, key, l, q)
  PROVE  Grown(text, m, key, q)
<1> SUFFICES ASSUME text \in Seq(Int), m \in Nat, key \in Seq(Int), l \in Nat, l = Len(key),
                    q \in Nat, IsSum(q, m, l), q <= Len(text), Behind(text, m, key, l)
             PROVE  SubSeq(text, 1, m) \o key = SubSeq(text, 1, q)
  BY DEF Grows, Grown
<1>0. q = m + l
  BY DEF IsSum
<1>1. PICK s : s = SubSeq(text, 1, m)
  OBVIOUS
<1>2. PICK t : t = SubSeq(text, 1, q)
  OBVIOUS
<1>3. PICK u : u = s \o key
  OBVIOUS
<1>4. Len(text) \in Nat /\ m <= Len(text)
  BY <1>0, SeqFacts
<1>5. s \in Seq(Int) /\ Len(s) = m /\ \A i \in 1 .. m : s[i] = text[i]
  BY <1>1, <1>4
<1>6. t \in Seq(Int) /\ Len(t) = q /\ \A i \in 1 .. q : t[i] = text[i]
  BY <1>2
<1>7. u \in Seq(Int) /\ Len(u) = q /\ (\A i \in 1 .. m : u[i] = s[i]) /\ (\A j \in 1 .. l : u[m + j] = key[j])
  <2>1. DOMAIN s = 1 .. m /\ DOMAIN key = 1 .. l /\ s \in Seq(Int) /\ Len(s) = m
    BY <1>5
  <2>2. /\ u \in Seq(Int) /\ Len(u) = Len(s) + Len(key)
        /\ \A i \in DOMAIN s : u[i] = s[i]
        /\ \A i \in DOMAIN key : u[Len(s) + i] = key[i]
    <3>1. PICK S : S = Int
      OBVIOUS
    <3>2. s \in Seq(S) /\ key \in Seq(S)
      BY <2>1, <3>1, Zenon
    <3>3. /\ s \o key \in Seq(S) /\ Len(s \o key) = Len(s) + Len(key)
          /\ \A i \in DOMAIN s : (s \o key)[i] = s[i]
          /\ \A i \in DOMAIN key : (s \o key)[Len(s) + i] = key[i]
      BY ONLY <3>2, ConcatFacts
    <3> QED BY <1>3, <3>1, <3>3, Zenon
  <2> QED BY <1>0, <2>1, <2>2
<1>8. ASSUME NEW i \in 1 .. q PROVE u[i] = t[i]
  <2>1. t[i] = text[i]
    BY <1>6
  <2>2. CASE i <= m
    <3>1. i \in 1 .. m
      BY <2>2
    <3>2. u[i] = s[i]
      BY <1>7, <3>1
    <3> QED BY <1>5, <2>1, <3>1, <3>2
  <2>3. CASE i > m
    <3>1. PICK j \in 1 .. l : i = m + j
      <4>1. i - m \in 1 .. l /\ i = m + (i - m)
        BY <1>0, <2>3
      <4> QED BY <4>1
    <3>2. u[m + j] = key[j]
      BY <1>7, <3>1
    <3>3. text[m + j] = key[j]
      BY DEF Behind
    <3> QED BY <2>1, <3>1, <3>2, <3>3, Zenon
  <2> QED BY <2>2, <2>3
<1>9. u = t
  BY <1>6, <1>7, <1>8, SameSequence
<1> QED BY <1>1, <1>2, <1>3, <1>9, Zenon

\* A list whose places in a text are true, and a parse of it with that list.
Printable(alpha, text, list, line, n, parse) ==
  /\ text \in Seq(Int) /\ n = Len(text) /\ n \in Nat
  /\ IsParse(alpha, text, list, line, n, parse) /\ Fits(list, line, n)
  /\ \A a \in DOMAIN list : a # 0 /\ list[a].key \in Seq(Int)
  /\ \A a \in DOMAIN list : \A i \in list[a].occurrences[line] : IsAt(text, list[a].key, i)

\* What is printed before the place to go on with, and what it costs.
PrintedTo(alpha, text, n, parse, k, st) ==
  /\ st.next \in k + 1 .. n + 1 /\ st.pieces \in Seq(Pieces)
  /\ PrintCost(alpha, st.pieces) + parse[st.next].cost = parse[1].cost
  /\ Charred(st.pieces) = SubSeq(text, 1, st.next - 1)

(* A piece more that is in its place and costs what the parse says.        *)
LEMMA PieceAt ==
  ASSUME NEW alpha, NEW text, NEW list, NEW line, NEW n, NEW parse,
         Printable(alpha, text, list, line, n, parse), NEW i \in 1 .. n, NEW st, st.next = i,
         PrintedTo(alpha, text, n, parse, i - 1, st), NEW q \in Pieces, NEW c, c = q.chars,
         NEW l \in Nat \ {0}, l = Len(c),
         IsAt(text, c, i), NEW to, to = i + l,
         parse[i].cost = PieceCost(alpha, q) + parse[to].cost
  PROVE  PrintedTo(alpha, text, n, parse, i, [next |-> to, pieces |-> Append(st.pieces, q)])
<1>1. n \in Nat /\ n = Len(text) /\ text \in Seq(Int)
  BY DEF Printable
<1>2. c \in Seq(Int)
  BY DEF Pieces
<1>3. i + l - 1 <= n /\ \A k \in 1 .. l : text[i + k - 1] = c[k]
  BY <1>1, Zenon DEF IsAt
<1>4. PICK m \in Nat : m = i - 1 /\ to - 1 = m + l /\ to - 1 \in Nat /\ to - 1 <= n /\ to \in Nat
                       /\ to <= n + 1 /\ to \in i + 1 .. n + 1 /\ i \in Nat
  <2>1. i - 1 \in Nat /\ to - 1 = (i - 1) + l /\ to - 1 \in Nat /\ to \in Nat
    BY <1>1
  <2>2. i + l - 1 <= n
    BY <1>3
  <2>3. to - 1 <= n /\ to <= n + 1 /\ to \in i + 1 .. n + 1
    BY <1>1, <2>2
  <2> QED BY <2>1, <2>3
<1>5. Behind(text, m, c, l)
  <2>1. ASSUME NEW j \in 1 .. l PROVE text[m + j] = c[j]
    <3>1. i + j - 1 = m + j
      BY <1>1, <1>4
    <3> QED BY <1>3, <3>1
  <2> QED BY <2>1 DEF Behind
<1>6. SubSeq(text, 1, m) \o c = SubSeq(text, 1, to - 1)
  <2>1. PICK e \in Nat : e = to - 1 /\ IsSum(e, m, l) /\ e <= Len(text)
    BY <1>1, <1>4 DEF IsSum
  <2>2. l \in Nat /\ l = Len(c) /\ text \in Seq(Int)
    BY <1>1
  <2>3. SubSeq(text, 1, m) \o c = SubSeq(text, 1, e)
    <3>1. Grows(text, m, c, l, e)
      BY <1>2, <1>5, <2>1, <2>2, Zenon DEF Grows
    <3>2. Grown(text, m, c, e)
      BY <3>1, PrefixGrows, Zenon
    <3> QED BY <3>2, Zenon DEF Grown
  <2> QED BY <2>1, <2>3, Zenon
<1>7. st.pieces \in Seq(Pieces) /\ Charred(st.pieces) = SubSeq(text, 1, m)
      /\ PrintCost(alpha, st.pieces) + parse[i].cost = parse[1].cost
  BY <1>4, Zenon DEF PrintedTo
<1>8. PICK pieces : pieces = Append(st.pieces, q)
  OBVIOUS
<1>9. /\ Charred(pieces) = Charred(st.pieces) \o c
      /\ PrintCost(alpha, st.pieces) \in Int
      /\ PrintCost(alpha, pieces) = PrintCost(alpha, st.pieces) + PieceCost(alpha, q)
  BY <1>7, <1>8, PieceMore
<1>10. pieces \in Seq(Pieces)
  BY <1>7, <1>8, AppendFacts
<1>11. Charred(pieces) = SubSeq(text, 1, to - 1)
  BY <1>6, <1>7, <1>9, Zenon
<1>12. PrintCost(alpha, pieces) + parse[to].cost = parse[1].cost
  <2>1. PieceCost(alpha, q) \in Int
    <3>1. ZstringCost(alpha, q.chars) \in Nat
      BY <1>2, CostTotal
    <3> QED BY <3>1 DEF PieceCost, ReferenceCost
  <2>2. parse[to].cost \in Nat
    <3>1. to \in DOMAIN parse /\ parse \in Seq([cost : Nat, pick : 0 .. Len(list)])
      <4>1. IsParse(alpha, text, list, line, n, parse)
        BY Zenon DEF Printable
      <4>2. DOMAIN parse = 1 .. n + 1 /\ parse \in Seq([cost : Nat, pick : 0 .. Len(list)])
        BY <4>1, Zenon DEF IsParse
      <4>3. to \in 1 .. n + 1
        BY <1>1, <1>4
      <4> QED BY <4>2, <4>3, Zenon
    <3>2. PICK R : R = [cost : Nat, pick : 0 .. Len(list)]
      OBVIOUS
    <3>3. parse \in Seq(R) /\ to \in DOMAIN parse
      BY <3>1, <3>2, Zenon
    <3>4. parse[to] \in R
      BY ONLY <3>3, SeqFacts
    <3> QED BY <3>2, <3>4
  <2>3. PICK z : z = parse[1].cost
    OBVIOUS
  <2>6. PICK w \in Int, x \in Int, y \in Nat : /\ w = PrintCost(alpha, st.pieces) /\ x = PieceCost(alpha, q)
                                               /\ y = parse[to].cost
    BY <1>9, <2>1, <2>2, Zenon
  <2>4. w + (x + y) = z /\ PrintCost(alpha, pieces) = w + x
    BY <1>7, <1>9, <2>3, <2>6, Zenon
  <2>5. (w + x) + y = z
    BY <2>4
  <2> QED BY <2>3, <2>4, <2>5, <2>6, Zenon
<1>13. to \in i + 1 .. n + 1
  BY <1>4
<1>14. PICK new : new = [next |-> to, pieces |-> pieces]
  OBVIOUS
<1>15. new.next = to /\ new.pieces = pieces
  BY <1>14
<1>16. PrintedTo(alpha, text, n, parse, i, new)
  BY <1>10, <1>11, <1>12, <1>13, <1>15, Zenon DEF PrintedTo
<1> QED BY <1>8, <1>14, <1>16, Zenon

\* What is left of a parse, and the list that is shown.
Shows(left, shown, list, parse, n) ==
  /\ \A i \in 1 .. n : left.picked[i] = parse[i].pick
  /\ \A a \in DOMAIN list : shown[a].key = list[a].key

(* What is printed at a place.                                             *)
LEMMA FinishedStepFacts ==
  ASSUME NEW alpha, NEW text, NEW list, NEW line, NEW n, NEW parse,
         Printable(alpha, text, list, line, n, parse), NEW left, NEW shown, Shows(left, shown, list, parse, n),
         NEW i \in 1 .. n, NEW st, PrintedTo(alpha, text, n, parse, i - 1, st)
  PROVE  PrintedTo(alpha, text, n, parse, i, FinishedStep(text, left, shown, st, i))
<1>1. n \in Nat /\ n = Len(text) /\ text \in Seq(Int) /\ i \in Nat
  BY DEF Printable
<1>2. st.next \in i .. n + 1
  <2>1. i - 1 + 1 = i
    BY <1>1
  <2> QED BY <2>1, Zenon DEF PrintedTo
<1>3. CASE i < st.next
  <2>1. FinishedStep(text, left, shown, st, i) = st
    BY <1>3, Zenon DEF FinishedStep
  <2>2. st.next \in i + 1 .. n + 1
    BY <1>1, <1>2, <1>3
  <2>3. PrintedTo(alpha, text, n, parse, i, st)
    BY <2>2, Zenon DEF PrintedTo
  <2> QED BY <2>1, <2>3, Zenon
<1>4. CASE ~(i < st.next)
  <2>1. st.next = i
    BY <1>1, <1>2, <1>4
  <2>2. IsParse(alpha, text, list, line, n, parse)
    BY Zenon DEF Printable
  <2>3. left.picked[i] = parse[i].pick
    BY Zenon DEF Shows
  <2>4. \/ parse[i].pick = 0 /\ parse[i].cost = parse[i + 1].cost + ZcharCost(alpha, text[i])
        \/ /\ parse[i].pick \in DOMAIN list /\ i \in list[parse[i].pick].occurrences[line]
           /\ parse[i].cost = ReferenceCost + parse[i + Len(list[parse[i].pick].key)].cost
    BY <2>2, Zenon DEF IsParse
  <2>5. i + 1 <= n + 1 /\ parse[i + 1].cost \in Nat
    <3>1. i + 1 \in 1 .. n + 1
      BY <1>1
    <3>2. PICK R : R = [cost : Nat, pick : 0 .. Len(list)]
      OBVIOUS
    <3>3. parse \in Seq(R) /\ i + 1 \in DOMAIN parse
      BY <2>2, <3>1, <3>2, Zenon DEF IsParse
    <3>4. parse[i + 1] \in R
      BY ONLY <3>3, SeqFacts
    <3> QED BY <1>1, <3>1, <3>2, <3>4
  <2>6. CASE parse[i].pick = 0
    <3>1. PICK q : q = [marked |-> FALSE, chars |-> <<text[i]>>]
      OBVIOUS
    <3>2. text[i] \in Int
      BY <1>1
    <3>3. q \in Pieces /\ q.chars = <<text[i]>> /\ q.marked = FALSE
      BY <3>1, <3>2 DEF Pieces
    <3>4. PICK c : c = <<text[i]>>
      OBVIOUS
    <3>5. Len(c) = 1 /\ c[1] = text[i]
      BY <3>4
    <3>6. IsAt(text, c, i)
      <4>1. i + 1 - 1 <= Len(text)
        BY <1>1
      <4>2. \A k \in 1 .. 1 : text[i + k - 1] = c[k]
        BY <1>1, <3>5
      <4> QED BY <3>5, <4>1, <4>2 DEF IsAt
    <3>7. PieceCost(alpha, q) = ZcharCost(alpha, text[i])
      BY <3>3, CostOne, Zenon DEF PieceCost
    <3>8. parse[i].cost = PieceCost(alpha, q) + parse[i + 1].cost
      <4>1. parse[i].cost = parse[i + 1].cost + ZcharCost(alpha, text[i])
        <5>1. 0 \notin DOMAIN list
          BY Zenon DEF Printable
        <5> QED BY <2>4, <2>6, <5>1, Zenon
      <4>2. ZcharCost(alpha, text[i]) \in {1, 2, 4}
        BY CharCost
      <4>3. PICK x \in Nat, y \in Nat : x = parse[i + 1].cost /\ y = ZcharCost(alpha, text[i])
        BY <2>5, <4>2
      <4>4. x + y = y + x
        OBVIOUS
      <4> QED BY <3>7, <4>1, <4>3, <4>4, Zenon
    <3>9. PrintedTo(alpha, text, n, parse, i, [next |-> i + 1, pieces |-> Append(st.pieces, q)])
      <4>1. PICK l \in Nat \ {0} : l = 1
        OBVIOUS
      <4>2. PICK to : to = i + l
        OBVIOUS
      <4>3. l = Len(c) /\ c = q.chars /\ parse[i].cost = PieceCost(alpha, q) + parse[to].cost
        BY <3>3, <3>4, <3>5, <3>8, <4>1, <4>2, Zenon
      <4>4. PrintedTo(alpha, text, n, parse, i, [next |-> to, pieces |-> Append(st.pieces, q)])
        BY <2>1, <3>3, <3>6, <4>2, <4>3, PieceAt
      <4> QED BY <4>1, <4>2, <4>4, Zenon
    <3>10. FinishedStep(text, left, shown, st, i) = [next |-> i + 1, pieces |-> Append(st.pieces, q)]
      BY <1>4, <2>3, <2>6, <3>1, Zenon DEF FinishedStep
    <3> QED BY <3>9, <3>10, Zenon
  <2>7. CASE parse[i].pick # 0
    <3>1. PICK a : a = parse[i].pick /\ a \in DOMAIN list /\ i \in list[a].occurrences[line]
                   /\ parse[i].cost = ReferenceCost + parse[i + Len(list[a].key)].cost
      BY <2>4, <2>7, Zenon
    <3>2. PICK c : c = list[a].key
      OBVIOUS
    <3>3. c \in Seq(Int) /\ IsAt(text, c, i) /\ Len(c) \in Nat \ {0}
      BY <3>1, <3>2, Zenon DEF Printable, Fits
    <3>4. PICK q : q = [marked |-> TRUE, chars |-> c]
      OBVIOUS
    <3>5. q \in Pieces /\ q.chars = c /\ q.marked = TRUE
      BY <3>3, <3>4 DEF Pieces
    <3>6. PieceCost(alpha, q) = ReferenceCost
      BY <3>5, Zenon DEF PieceCost
    <3>7. PICK l \in Nat \ {0} : l = Len(c)
      BY <3>3, Zenon
    <3>8. PICK to : to = i + l
      OBVIOUS
    <3>9. parse[i].cost = PieceCost(alpha, q) + parse[to].cost
      BY <3>1, <3>2, <3>6, <3>7, <3>8, Zenon
    <3>10. PrintedTo(alpha, text, n, parse, i, [next |-> to, pieces |-> Append(st.pieces, q)])
      BY <2>1, <3>3, <3>5, <3>7, <3>8, <3>9, PieceAt
    <3>11. FinishedStep(text, left, shown, st, i) = [next |-> to, pieces |-> Append(st.pieces, q)]
      <4>1. shown[left.picked[i]].key = c /\ left.picked[i] # 0
        BY <2>3, <2>7, <3>1, <3>2, Zenon DEF Shows
      <4>2. FinishedStep(text, left, shown, st, i)
            = [next |-> i + Len(c), pieces |-> Append(st.pieces, [marked |-> TRUE, chars |-> c])]
        BY <1>4, <4>1 DEF FinishedStep
      <4> QED BY <3>4, <3>7, <3>8, <4>2, Zenon
    <3> QED BY <3>10, <3>11, Zenon
  <2> QED BY <2>6, <2>7
<1> QED BY <1>3, <1>4

(* A text with its abbreviations is the text and costs what the parse says. *)
LEMMA PiecesFacts ==
  ASSUME NEW alpha, NEW text, NEW list, NEW line, NEW n, NEW parse,
         Printable(alpha, text, list, line, n, parse), NEW left, NEW shown, Shows(left, shown, list, parse, n)
  PROVE  /\ Charred(FinishedText(text, left, shown)) = text
         /\ PrintCost(alpha, FinishedText(text, left, shown)) = parse[1].cost
<1>1. n \in Nat /\ n = Len(text) /\ text \in Seq(Int)
  BY DEF Printable
<1>2. PICK par, base, end : /\ par = [text |-> text, parse |-> left, list |-> shown]
                            /\ base = [next |-> 1, pieces |-> <<>>]
                            /\ end = Folding("pieces", par, base, PlacesOf(text))[DOMAIN PlacesOf(text)]
  OBVIOUS
<1>3. FinishedText(text, left, shown) = end.pieces
  BY <1>2, PiecesFold, Zenon
<1>4. PICK f : Goes("pieces", par, base, n, f, end)
  BY <1>1, <1>2, UnrolledPlaces
<1>5. IsParse(alpha, text, list, line, n, parse)
  BY Zenon DEF Printable
<1> DEFINE G == {k \in 0 .. n : PrintedTo(alpha, text, n, parse, k, f[k])}
<1>6. 0 \in G
  <2>1. base.next = 1 /\ base.pieces = <<>> /\ 0 \in 0 .. n
    BY <1>1, <1>2
  <2>2. PICK R : R = [cost : Nat, pick : 0 .. Len(list)]
    OBVIOUS
  <2>3. 1 \in 1 .. n + 1 /\ 1 \in 0 + 1 .. n + 1
    BY <1>1
  <2>4. parse \in Seq(R) /\ 1 \in DOMAIN parse
    BY <1>5, <2>2, <2>3, Zenon DEF IsParse
  <2>5. parse[1] \in R
    BY ONLY <2>4, SeqFacts
  <2>6. parse[1].cost \in Nat
    BY <2>2, <2>5
  <2>7. PrintCost(alpha, base.pieces) + parse[1].cost = parse[1].cost
    BY <2>1, <2>6, NoPieces
  <2>8. Charred(base.pieces) = SubSeq(text, 1, 1 - 1)
    <3>1. SubSeq(text, 1, 1 - 1) = <<>>
      BY <1>1
    <3> QED BY <2>1, <3>1, NoPieces, Zenon
  <2>9. base.pieces \in Seq(Pieces)
    BY <2>1, NoPieces, Zenon
  <2>10. PrintedTo(alpha, text, n, parse, 0, base)
    BY <2>1, <2>3, <2>7, <2>8, <2>9, Zenon DEF PrintedTo
  <2>11. f[0] = base
    BY <1>4, Zenon DEF Goes
  <2> QED BY <2>1, <2>10, <2>11
<1>7. ASSUME NEW k \in 1 .. n, k - 1 \in G PROVE k \in G
  <2>1. PrintedTo(alpha, text, n, parse, k - 1, f[k - 1])
    BY <1>7
  <2>2. PrintedTo(alpha, text, n, parse, k, FinishedStep(text, left, shown, f[k - 1], k))
    BY <2>1, FinishedStepFacts
  <2>3. f[k] = StepOf("pieces", par, f[k - 1], k)
    BY <1>4, Zenon DEF Goes
  <2>4. StepOf("pieces", par, f[k - 1], k) = PieceStep(par, f[k - 1], k)
    BY DEF StepOf
  <2>5. par.text = text /\ par.parse = left /\ par.list = shown
    BY <1>2
  <2>6. f[k] = FinishedStep(text, left, shown, f[k - 1], k)
    BY <2>3, <2>4, <2>5, Zenon DEF PieceStep
  <2>7. k \in 0 .. n
    BY <1>1
  <2> QED BY <2>2, <2>6, <2>7
<1>8. \A k \in 0 .. n : k \in G
  <2> HIDE DEF G
  <2> QED BY <1>1, <1>6, <1>7, BoundedInduction
<1>9. PrintedTo(alpha, text, n, parse, n, f[n])
  <2>1. n \in 0 .. n
    BY <1>1
  <2> QED BY <1>8, <2>1, Zenon
<1>10. f[n] = end
  BY <1>4, Zenon DEF Goes
<1>11. end.next = n + 1
  <2>1. end.next \in n + 1 .. n + 1
    BY <1>9, <1>10, Zenon DEF PrintedTo
  <2> QED BY <1>1, <2>1
<1>12. PICK pieces : pieces = end.pieces /\ pieces \in Seq(Pieces)
  BY <1>9, <1>10, Zenon DEF PrintedTo
<1>13. Charred(pieces) = SubSeq(text, 1, (n + 1) - 1) /\ PrintCost(alpha, pieces) + parse[n + 1].cost = parse[1].cost
  BY <1>9, <1>10, <1>11, <1>12, Zenon DEF PrintedTo
<1>14. SubSeq(text, 1, (n + 1) - 1) = text
  <2>1. (n + 1) - 1 = n
    BY <1>1
  <2>2. SubSeq(text, 1, n) = text
    <3>1. PICK s : s = SubSeq(text, 1, n)
      OBVIOUS
    <3>2. s \in Seq(Int) /\ Len(s) = n /\ \A i \in 1 .. n : s[i] = text[i]
      BY <1>1, <3>1
    <3>3. s = text
      <4>1. s \in Seq(Int) /\ Len(s) = n
        BY <3>2
      <4>2. ASSUME NEW i \in 1 .. n PROVE s[i] = text[i]
        BY <3>2
      <4>3. n \in Nat /\ Len(text) = n /\ text \in Seq(Int)
        BY <1>1
      <4> QED BY ONLY <4>1, <4>2, <4>3, SameSequence
    <3> QED BY <3>1, <3>3, Zenon
  <2> QED BY <2>1, <2>2, Zenon
<1>15. parse[n + 1].cost = 0
  BY <1>5, Zenon DEF IsParse
<1>16. PrintCost(alpha, pieces) = parse[1].cost
  <2>1. PrintCost(alpha, pieces) \in Int
    <3>1. PICK q \in Pieces : TRUE
      <4>1. [marked |-> TRUE, chars |-> <<>>] \in Pieces
        BY DEF Pieces
      <4> QED BY <4>1, Zenon
    <3> QED BY <1>12, <3>1, PieceMore
  <2>2. PICK z : z = parse[1].cost
    OBVIOUS
  <2>3. PICK w \in Int : w = PrintCost(alpha, pieces)
    BY <2>1, Zenon
  <2>4. w + 0 = z
    BY <1>13, <1>15, <2>2, <2>3, Zenon
  <2>5. w = z
    BY <2>4
  <2> QED BY <2>2, <2>3, <2>5, Zenon
<1> QED BY <1>3, <1>12, <1>13, <1>14, <1>16, Zenon

----------------------------------------------------------------------------
(* The end: what is printed is of the last rescoring.                      *)

\* The list chosen as a parse sees it.
SeenAtEnd == SeenOf(settings.alpha, Texts, KeysOf(pats, best))

\* What the last rescoring leaves when the abbreviations are printed.
LastParse == parses = ParseAll(settings.alpha, Texts, SeenAtEnd)
LastScores ==
  \A a \in DOMAIN best : pats[best[a]].savings = PatternScore(Frequency(parses, a), pats[best[a]].cost)
LastSavings == savings = Total([a \in DOMAIN best |-> pats[best[a]].savings])
LastSize == settings.level > 0 => latestBytes = SizeOf(pats, best)
LastTexts == settings.verbose => output.finished = Finished(Texts, parses, PatternsOfList(pats, best))

\* When abbreviations were printed.
Reported == phase = "done" /\ ~settings.onlyRefactor

Printed == Reported => LastParse /\ LastScores /\ LastSavings /\ LastSize /\ LastTexts

(* The parse and the scores of a rescoring of the list.                    *)
LEMMA RatedScores ==
  ASSUME SearchOK
  PROVE  LET r == Scoring(pats, best)
         IN  /\ r.parses = ParseAll(settings.alpha, Texts, SeenOf(settings.alpha, Texts, KeysOf(r.pats, best)))
             /\ \A a \in DOMAIN best :
                  r.pats[best[a]].savings = PatternScore(Frequency(r.parses, a), r.pats[best[a]].cost)
             /\ SizeOf(r.pats, best) = SizeOf(pats, best)
<1> DEFINE r == Scoring(pats, best)
<1>1. PICK alpha, version, texts, sizes :
        alpha = settings.alpha /\ version = read.version /\ texts = Texts /\ sizes = read.sizes
  OBVIOUS
<1>2. r = Scan(alpha, version, texts, sizes, pats, best)
  BY <1>1, Zenon DEF Scoring, Scan, PatternsOfList
<1>3. Readable(texts) /\ Current(alpha, texts, pats) /\ best \in Seq(DOMAIN pats) /\ Once(best)
  BY <1>1 DEF SearchOK, ReadOK, Lists, Cached
<1> HIDE DEF r
<1>4. /\ Scanned(alpha, texts, pats, best, r.pats)
      /\ r.parses = ParseAll(alpha, texts, SeenOf(alpha, texts, KeysOf(pats, best)))
  BY <1>2, <1>3, ScanFacts
<1>5. PICK scored : ScoredAs(alpha, texts, KeysOf(pats, best), best, r, scored)
  BY <1>2, <1>3, ScanSavings
<1>6. \A p \in DOMAIN pats : r.pats[p].key = pats[p].key
  BY <1>4, Zenon DEF Scanned
<1>7. KeysOf(r.pats, best) = KeysOf(pats, best)
  <2>1. \A a \in DOMAIN best : best[a] \in DOMAIN pats
    BY <1>3
  <2> QED BY <1>6, <2>1, Zenon DEF KeysOf
<1>8. \A a \in DOMAIN best :
        r.pats[best[a]].savings = PatternScore(Frequency(r.parses, a), r.pats[best[a]].cost)
  BY <1>3, <1>5, Zenon DEF ScoredAs
<1>9. SizeOf(r.pats, best) = SizeOf(pats, best)
  BY <1>3, <1>6, SameSize
<1> QED BY <1>1, <1>4, <1>7, <1>8, <1>9, Zenon DEF r

(* Printing the abbreviations leaves what it says.                         *)
LEMMA PrintStep ==
  ASSUME SearchOK, PrintAbbreviations
  PROVE  Printed'
<1>1. PICK r : r = Scoring(pats, best)
  OBVIOUS
<1>2. /\ pats' = r.pats /\ parses' = r.parses /\ phase = "output" /\ ~settings.onlyRefactor
      /\ settings' = settings /\ best' = best /\ read' = read /\ latestBytes' = latestBytes
  BY <1>1, Zenon DEF PrintAbbreviations, Leave, reading
<1>3. /\ savings' = Total([a \in DOMAIN best |->
                            IF a <= N THEN [b \in DOMAIN best |-> r.pats[best[b]]][a].savings ELSE 0])
      /\ settings.verbose => output'.finished = Finished(Texts, r.parses, [b \in DOMAIN best |-> r.pats[best[b]]])
  BY <1>1 DEF PrintAbbreviations
<1>4. Texts' = Texts
  BY <1>2 DEF Texts
<1>5. /\ r.parses = ParseAll(settings.alpha, Texts, SeenOf(settings.alpha, Texts, KeysOf(r.pats, best)))
      /\ \A a \in DOMAIN best :
           r.pats[best[a]].savings = PatternScore(Frequency(r.parses, a), r.pats[best[a]].cost)
      /\ SizeOf(r.pats, best) = SizeOf(pats, best)
  BY <1>1, RatedScores
<1>6. LastParse'
  BY <1>2, <1>4, <1>5, Zenon DEF LastParse, SeenAtEnd
<1>7. LastScores'
  BY <1>2, <1>5, Zenon DEF LastScores
<1>8. LastSavings'
  <2>1. PICK n \in Nat : n = Len(best) /\ DOMAIN best = 1 .. n
    BY DEF SearchOK, Lists
  <2>2. N \in Nat /\ n <= N
    BY <1>2, <2>1 DEF SearchOK, Bounded, Late
  <2>3. \A a \in DOMAIN best : a <= N
    BY <2>1, <2>2
  <2>4. \A a \in DOMAIN best : [b \in DOMAIN best |-> r.pats[best[b]]][a] = r.pats[best[a]]
    OBVIOUS
  <2>5. [a \in DOMAIN best |-> IF a <= N THEN [b \in DOMAIN best |-> r.pats[best[b]]][a].savings ELSE 0]
        = [a \in DOMAIN best |-> r.pats[best[a]].savings]
    BY <2>3, <2>4, Zenon
  <2> QED BY <1>2, <1>3, <2>5, Zenon DEF LastSavings
<1>9. LastSize'
  <2>1. settings.level > 0 => latestBytes = SizeOf(pats, best)
    BY <1>2, Zenon DEF SearchOK, Baseline
  <2>2. SizeOf(pats, best)' = SizeOf(r.pats, best)
    BY <1>2, <1>4, Zenon DEF SizeOf
  <2> QED BY <1>2, <1>5, <2>1, <2>2, Zenon DEF LastSize
<1>10. LastTexts'
  BY <1>2, <1>3, <1>4, Zenon DEF LastTexts, PatternsOfList
<1> QED BY <1>6, <1>7, <1>8, <1>9, <1>10, Zenon DEF Printed

(* No other step prints abbreviations.                                     *)
LEMMA NothingPrints ==
  ASSUME [Next]_vars, ~PrintAbbreviations
  PROVE  UNCHANGED vars \/ ~Reported'
<1>1. Reading => phase' # "done"
  BY DEF Reading, OpenFiles, ReadNext, CloseFile, EndReading
<1>2. Extract => phase' # "done"
  BY DEF Extract
<1>3. Greedy => phase' # "done"
  <2>1. PutBack \/ Accept \/ AcceptAndThrowBack => phase' = phase /\ phase = "greedy"
    BY Zenon DEF PutBack, Accept, AcceptAndThrowBack, Choosing
  <2>2. EndChoice => phase' \in {"refine", "edits", "output"}
    BY DEF EndChoice
  <2> QED BY <2>1, <2>2 DEF Greedy
<1>4. Refine => phase' # "done"
  <2>1. SkipRunnerUp \/ RefineDeep \/ RefineOverlapping => phase' = phase /\ phase = "refine"
    BY Zenon DEF SkipRunnerUp, RefineDeep, RefineOverlapping, Replaced, Refining
  <2>2. EndRefinement => phase' = "edits"
    BY Zenon DEF EndRefinement
  <2> QED BY <2>1, <2>2 DEF Refine
<1>5. EditKeys => phase' # "done"
  <2>1. SkipEdit \/ Edit => phase' = phase /\ phase = "edit"
    BY Zenon DEF SkipEdit, Edit, Editing
  <2>2. StartEdits => phase' = "edit"
    BY Zenon DEF StartEdits
  <2>3. EndEdits => phase' = "output"
    BY Zenon DEF EndEdits
  <2> QED BY <2>1, <2>2, <2>3 DEF EditKeys
<1>6. PrintOnlyRefactorings => settings'.onlyRefactor
  BY Zenon DEF PrintOnlyRefactorings
<1>7. Stopped => UNCHANGED vars
  BY Zenon DEF Stopped
<1> QED BY <1>1, <1>2, <1>3, <1>4, <1>5, <1>6, <1>7, Zenon DEF Next, Report, Reported

(* Every step keeps what printing left.                                    *)
LEMMA PrintedKept ==
  ASSUME IInv, Printed, [Next]_vars
  PROVE  Printed'
<1>1. CASE PrintAbbreviations
  BY <1>1, PrintStep DEF IInv
<1>2. CASE ~PrintAbbreviations
  <2>1. UNCHANGED vars => Printed'
    <3> SUFFICES ASSUME UNCHANGED vars PROVE Printed'
      OBVIOUS
    <3>1. /\ pats' = pats /\ parses' = parses /\ phase' = phase /\ savings' = savings /\ output' = output
          /\ settings' = settings /\ best' = best /\ read' = read /\ latestBytes' = latestBytes
      BY DEF vars, found, totals, reading
    <3>2. Texts' = Texts
      BY <3>1 DEF Texts
    <3>3. SizeOf(pats, best)' = SizeOf(pats, best)
      BY <3>1, <3>2, Zenon DEF SizeOf
    <3> QED BY <3>1, <3>2, <3>3, Zenon
            DEF Printed, Reported, LastParse, SeenAtEnd, LastScores, LastSavings, LastSize, LastTexts
  <2>2. ~Reported' => Printed'
    BY Zenon DEF Printed
  <2> QED BY <1>2, <2>1, <2>2, NothingPrints
<1> QED BY <1>1, <1>2

(* What is printed is of the last rescoring.                               *)
THEOREM Printing ==
  Spec => [](IInv /\ Printed)
<1>1. Init => Printed
  BY DEF Init, Printed, Reported
<1>2. IInv /\ Printed /\ [Next]_vars => Printed'
  BY PrintedKept
<1> QED BY <1>1, <1>2, Searching, PTL DEF Spec

----------------------------------------------------------------------------
(* The parse and the printed text cost least.                              *)

\* The keys of a list as the costs of the beginnings of a text need them.
CostsWith(text, f) ==
  f = [i \in 0 .. Len(text) |->
        IF i = 0 THEN 0
        ELSE Min({f[i - 1] + ZcharCost(settings.alpha, text[i])}
                 \union {f[i - Len(pats[best[a]].key)] + ReferenceCost :
                           a \in {b \in DOMAIN best : i >= Len(pats[best[b]].key)
                                    /\ IsAt(text, pats[best[b]].key, i - Len(pats[best[b]].key) + 1)}})]

(* The recursive costs of the property are those of the keys chosen.       *)
LEMMA CostsOfKeys ==
  ASSUME NEW text, NEW f
  PROVE  CostsWith(text, f) <=> Costing(settings.alpha, text, KeysOf(pats, best), f, Len(text))
<1> DEFINE keys == KeysOf(pats, best)
<1>1. DOMAIN keys = DOMAIN best /\ \A a \in DOMAIN best : keys[a] = pats[best[a]].key
  BY DEF KeysOf
<1> HIDE DEF keys
<1>2. \A i \in 0 .. Len(text) :
        {b \in DOMAIN best : i >= Len(pats[best[b]].key)
           /\ IsAt(text, pats[best[b]].key, i - Len(pats[best[b]].key) + 1)} = EndingAt(text, keys, i)
  <2> TAKE i \in 0 .. Len(text)
  <2> DEFINE S == {b \in DOMAIN best : i >= Len(pats[best[b]].key)
                     /\ IsAt(text, pats[best[b]].key, i - Len(pats[best[b]].key) + 1)}
  <2>1. \A b : b \in S <=> b \in DOMAIN best /\ i >= Len(pats[best[b]].key)
                     /\ IsAt(text, pats[best[b]].key, i - Len(pats[best[b]].key) + 1)
    OBVIOUS
  <2>2. \A b : b \in EndingAt(text, keys, i) <=>
          b \in DOMAIN keys /\ i >= Len(keys[b]) /\ IsAt(text, keys[b], i - Len(keys[b]) + 1)
    BY Zenon DEF EndingAt
  <2> HIDE DEF S
  <2>3. \A b : b \in S <=> b \in EndingAt(text, keys, i)
    BY <1>1, <2>1, <2>2, Zenon
  <2>4. S = EndingAt(text, keys, i)
    BY <2>3, Zenon
  <2> QED BY <2>4, Zenon DEF S
<1>3. \A i \in 0 .. Len(text) :
        {f[i - Len(pats[best[a]].key)] + ReferenceCost : a \in EndingAt(text, keys, i)}
        = {f[i - Len(keys[a])] + ReferenceCost : a \in EndingAt(text, keys, i)}
  <2>1. \A i : \A a \in EndingAt(text, keys, i) : pats[best[a]].key = keys[a]
    BY <1>1, Zenon DEF EndingAt
  <2> QED BY <2>1, Zenon
<1>4. \A i \in 0 .. Len(text) :
        ({f[i - 1] + ZcharCost(settings.alpha, text[i])}
                 \union {f[i - Len(pats[best[a]].key)] + ReferenceCost :
                           a \in {b \in DOMAIN best : i >= Len(pats[best[b]].key)
                                    /\ IsAt(text, pats[best[b]].key, i - Len(pats[best[b]].key) + 1)}})
        = Ways(settings.alpha, text, keys, f, i)
  BY <1>2, <1>3, Zenon DEF Ways
<1>5. [i \in 0 .. Len(text) |->
        IF i = 0 THEN 0
        ELSE Min({f[i - 1] + ZcharCost(settings.alpha, text[i])}
                 \union {f[i - Len(pats[best[a]].key)] + ReferenceCost :
                           a \in {b \in DOMAIN best : i >= Len(pats[best[b]].key)
                                    /\ IsAt(text, pats[best[b]].key, i - Len(pats[best[b]].key) + 1)}})]
      = [i \in 0 .. Len(text) |-> IF i = 0 THEN 0 ELSE Min(Ways(settings.alpha, text, keys, f, i))]
  BY <1>4, Zenon
<1> QED BY <1>5, Zenon DEF CostsWith, Costing, keys

(* The cheapest way to print a text is the last of these costs.            *)
LEMMA CheapestFacts ==
  ASSUME NEW text, Len(text) \in Nat, Long(KeysOf(pats, best))
  PROVE  \E f : /\ LeastCosts(settings.alpha, text, KeysOf(pats, best), f, Len(text))
                /\ Cheapest(text) = f[Len(text)]
<1>1. PICK f : f = CHOOSE g : CostsWith(text, g)
  OBVIOUS
<1>2. Cheapest(text) = f[Len(text)]
  BY <1>1, Zenon DEF Cheapest, CostsWith
<1>3. \E g : Costing(settings.alpha, text, KeysOf(pats, best), g, Len(text))
  BY CostingExists
<1>4. \E g : CostsWith(text, g)
  BY <1>3, CostsOfKeys, Zenon
<1>5. CostsWith(text, f)
  BY <1>1, <1>4, Zenon
<1>6. LeastCosts(settings.alpha, text, KeysOf(pats, best), f, Len(text))
  BY <1>5, CostsOfKeys, CostingFacts
<1> QED BY <1>2, <1>6

\* A parse from which what is left in a text was taken.
Underlies(t, parse) ==
  /\ Printable(settings.alpha, Texts[t].text, SeenAtEnd, t, Len(Texts[t].text), parse)
  /\ parses[t] = LeftInLine(Texts[t], SeenAtEnd, parse)
  /\ Shows(parses[t], PatternsOfList(pats, best), SeenAtEnd, parse, Len(Texts[t].text))
  /\ Matches(Texts[t].text, KeysOf(pats, best), SeenAtEnd, t, Len(Texts[t].text))

(* What the list looks like to the last parse.                             *)
LEMMA EndList ==
  ASSUME SearchOK
  PROVE  /\ Usable(Texts, SeenAtEnd) /\ DOMAIN SeenAtEnd = DOMAIN best /\ Long(KeysOf(pats, best))
         /\ DOMAIN KeysOf(pats, best) = DOMAIN best
         /\ \A a \in DOMAIN best :
              /\ best[a] \in DOMAIN pats
              /\ pats[best[a]].key \in Seq(Int) \ {<<>>} /\ KeysOf(pats, best)[a] = pats[best[a]].key
              /\ SeenAtEnd[a].key = pats[best[a]].key
              /\ SeenAtEnd[a].cost = pats[best[a]].cost
              /\ SeenAtEnd[a].occurrences = Occurrences(Texts, pats[best[a]].key)
<1>1. PICK n \in Nat : DOMAIN best = 1 .. n
  BY DEF SearchOK, Lists
<1>2. \A a \in DOMAIN best : best[a] \in DOMAIN pats
  BY DEF SearchOK, Lists
<1>3. \A p \in DOMAIN pats : IsPattern(settings.alpha, Texts, pats[p])
  BY Zenon DEF SearchOK, Cached, Current
<1>4. PICK keys : keys = KeysOf(pats, best)
  OBVIOUS
<1>5. DOMAIN keys = DOMAIN best /\ \A a \in DOMAIN best : keys[a] = pats[best[a]].key
  BY <1>4, Zenon DEF KeysOf
<1>6. \A a \in 1 .. n : keys[a] \in Seq(Int) \ {<<>>} /\ pats[best[a]].cost = ZstringCost(settings.alpha, keys[a])
  BY <1>1, <1>2, <1>3, <1>5, Zenon DEF IsPattern
<1>7. Usable(Texts, SeenOf(settings.alpha, Texts, keys)) /\ DOMAIN SeenOf(settings.alpha, Texts, keys) = 1 .. n
  BY <1>1, <1>5, <1>6, SeenUsable
<1>8. Long(keys)
  <2>1. \A key \in Seq(Int) \ {<<>>} : Len(key) \in Nat \ {0}
    OBVIOUS
  <2> QED BY <1>1, <1>5, <1>6, <2>1, Zenon DEF Long
<1>9. \A a \in DOMAIN best :
        /\ SeenOf(settings.alpha, Texts, keys)[a].key = keys[a]
        /\ SeenOf(settings.alpha, Texts, keys)[a].cost = ZstringCost(settings.alpha, keys[a])
        /\ SeenOf(settings.alpha, Texts, keys)[a].occurrences = Occurrences(Texts, keys[a])
  BY <1>5, Zenon DEF SeenOf
<1>10. SeenAtEnd = SeenOf(settings.alpha, Texts, keys)
  BY <1>4, Zenon DEF SeenAtEnd
<1> QED BY <1>1, <1>2, <1>4, <1>5, <1>6, <1>7, <1>8, <1>9, <1>10, Zenon

(* Every text has such a parse.                                            *)
LEMMA EndParses ==
  ASSUME SearchOK, LastParse, NEW t \in DOMAIN Texts
  PROVE  /\ \E parse : Underlies(t, parse)
         /\ Texts[t].text \in Seq(Int) /\ Len(Texts[t].text) \in Nat
<1> DEFINE list == SeenAtEnd
           shown == PatternsOfList(pats, best)
<1>1. Readable(Texts) /\ IsGameText(Texts[t])
  BY DEF SearchOK, ReadOK, Readable
<1>2. PICK text \in Seq(Int) : text = Texts[t].text
  BY <1>1 DEF IsGameText
<1>3. PICK n \in Nat : n = Len(text) /\ DOMAIN text = 1 .. n
  BY <1>2
<1>4. IsLeft(settings.alpha, Texts, list, t, parses[t])
  BY <1>1, EndList, ParsesFacts DEF LastParse
<1>5. PICK parse : /\ IsParse(settings.alpha, text, list, t, n, parse)
                   /\ parses[t] = LeftInLine(Texts[t], list, parse)
  BY <1>2, <1>3, <1>4, Zenon DEF IsLeft
<1>6. /\ Fits(list, t, n)
      /\ \A a \in DOMAIN list : \A i \in list[a].occurrences[t] : IsAt(text, list[a].key, i)
  BY <1>1, <1>2, <1>3, EndList, UsableFits
<1>7. \A a \in DOMAIN list : a # 0 /\ list[a].key \in Seq(Int)
  <2>1. PICK m \in Nat : DOMAIN best = 1 .. m
    BY DEF SearchOK, Lists
  <2>2. \A a \in 1 .. m : a # 0
    BY <2>1
  <2> QED BY <2>1, <2>2, EndList, Zenon
<1>8. Printable(settings.alpha, text, list, t, n, parse)
  BY <1>3, <1>5, <1>6, <1>7, Zenon DEF Printable
<1>9. Shows(parses[t], shown, list, parse, n)
  <2>1. \A i \in 1 .. n : parses[t].picked[i] = parse[i].pick
    <3>1. parses[t].picked = [i \in DOMAIN text |-> parse[i].pick]
      BY <1>2, <1>5 DEF LeftInLine
    <3> QED BY <1>3, <3>1, Zenon
  <2>2. \A a \in DOMAIN list : shown[a].key = list[a].key
    <3>1. \A a \in DOMAIN best : shown[a] = pats[best[a]]
      BY DEF PatternsOfList
    <3> QED BY <3>1, EndList, Zenon
  <2> QED BY <2>1, <2>2, Zenon DEF Shows
<1>10. Matches(text, KeysOf(pats, best), list, t, n)
  <2>1. \A key : Occurrences(Texts, key)[t] = {i \in 1 .. n : IsAt(text, key, i)}
    BY <1>2, <1>3, Zenon DEF Occurrences
  <2>2. DOMAIN list = DOMAIN KeysOf(pats, best) /\ Long(KeysOf(pats, best))
    BY EndList, Zenon
  <2>3. \A a \in DOMAIN KeysOf(pats, best) :
          /\ list[a].key = KeysOf(pats, best)[a]
          /\ list[a].occurrences[t] = {i \in 1 .. n : IsAt(text, KeysOf(pats, best)[a], i)}
    <3> TAKE a \in DOMAIN KeysOf(pats, best)
    <3>1. PICK key : key = KeysOf(pats, best)[a]
      OBVIOUS
    <3>2. list[a].key = key /\ list[a].occurrences = Occurrences(Texts, key)
      BY <3>1, EndList, Zenon
    <3> QED BY <2>1, <3>1, <3>2, Zenon
  <2> QED BY <2>2, <2>3, Zenon DEF Matches
<1> QED BY <1>2, <1>3, <1>5, <1>8, <1>9, <1>10, Zenon DEF Underlies

(* The parse printed costs least, and what is printed costs that.          *)
LEMMA PrintedLeast ==
  ASSUME SearchOK, LastParse, NEW t \in DOMAIN Texts
  PROVE  LET pieces == FinishedText(Texts[t].text, parses[t], PatternsOfList(pats, best))
         IN  /\ parses[t].minimal = Cheapest(Texts[t].text)
             /\ parses[t].minimal = PrintedCost(pieces)
             /\ Charred(pieces) = Texts[t].text
<1>1. PICK parse : Underlies(t, parse)
  BY EndParses
<1>2. PICK n \in Nat : n = Len(Texts[t].text)
  BY EndParses
<1>3. parses[t].minimal = parse[1].cost
  BY <1>1 DEF Underlies, LeftInLine
<1>4. PICK f : /\ LeastCosts(settings.alpha, Texts[t].text, KeysOf(pats, best), f, n)
               /\ Cheapest(Texts[t].text) = f[n]
  BY <1>2, EndList, CheapestFacts
<1>5. parse[1].cost = f[n]
  <2>1. IsParse(settings.alpha, Texts[t].text, SeenAtEnd, t, n, parse)
    BY <1>1, <1>2, Zenon DEF Underlies, Printable
  <2> QED BY <1>1, <1>2, <1>4, <2>1, ParseLeast DEF Underlies
<1>6. /\ Charred(FinishedText(Texts[t].text, parses[t], PatternsOfList(pats, best))) = Texts[t].text
      /\ PrintCost(settings.alpha, FinishedText(Texts[t].text, parses[t], PatternsOfList(pats, best)))
         = parse[1].cost
  BY <1>1, PiecesFacts DEF Underlies
<1>7. \A pieces : PrintedCost(pieces) = PrintCost(settings.alpha, pieces)
  BY Zenon DEF PrintedCost, PrintCost
<1> QED BY <1>3, <1>4, <1>5, <1>6, <1>7, Zenon

(* The least cost holds in every run.                                      *)
THEOREM ParseHolds ==
  Spec => []ParseIsLeast
<1>1. IInv /\ Printed => ParseIsLeast
  <2> SUFFICES ASSUME IInv, Printed, phase = "done", ~settings.onlyRefactor, NEW t \in DOMAIN Texts
               PROVE  LET pieces == FinishedText(Texts[t].text, parses[t], [a \in DOMAIN best |-> pats[best[a]]])
                      IN  parses[t].minimal = Cheapest(Texts[t].text) /\ parses[t].minimal = PrintedCost(pieces)
    BY Zenon DEF ParseIsLeast
  <2>1. SearchOK /\ LastParse
    BY DEF IInv, Printed, Reported
  <2> QED BY <2>1, PrintedLeast, Zenon DEF PatternsOfList
<1> QED BY <1>1, Printing, PTL

----------------------------------------------------------------------------
(* The order in which texts are printed.                                   *)

\* Sequences without an element twice, within one or between two.
Apart(s, n) == \A i, j \in 1 .. n : Once(s[i]) /\ (i # j => Range(s[i]) \intersect Range(s[j]) = {})

\* The elements of the first k.
UpTo(s, k) == UNION {Range(s[i]) : i \in 1 .. k}

(* Such sequences joined have no element twice either.                     *)
LEMMA FlattenOnce ==
  ASSUME NEW S, NEW n \in Nat, NEW s, Joinable(s, n, S), Apart(s, n)
  PROVE  FlattenSeq(s) \in Seq(S) /\ Once(FlattenSeq(s)) /\ Range(FlattenSeq(s)) = UpTo(s, n)
<1>1. DOMAIN s = 1 .. n /\ Len(s) = n /\ (n = 0 => s = <<>>) /\ \A i \in 1 .. n : s[i] \in Seq(S)
  BY DEF Joinable
<1>2. PICK f : Flat(f, n, s, S) /\ f[n] = FlattenSeq(s)
  BY <1>1, FlattenFacts
<1>3. FlattenSeq(s) \in Seq(S)
  BY <1>1, FlattenFacts
<1> DEFINE P(k) == Once(f[k]) /\ Range(f[k]) = UpTo(s, k)
           G == {k \in 0 .. n : P(k)}
<1>4. 0 \in G
  <2>1. f[0] = <<>>
    BY <1>2 DEF Flat
  <2>2. Once(<<>>) /\ Range(<<>>) = {}
    BY EmptyHeap
  <2>3. UpTo(s, 0) = {}
    BY DEF UpTo
  <2>4. P(0)
    BY <2>1, <2>2, <2>3, Zenon
  <2>5. 0 \in 0 .. n
    OBVIOUS
  <2> QED BY <2>4, <2>5, Zenon
<1>5. ASSUME NEW k \in 1 .. n, k - 1 \in G PROVE k \in G
  <2>1. PICK m \in Nat : m = k - 1 /\ k = m + 1
    BY <1>5
  <2>2. f[m] \in Seq(S) /\ s[k] \in Seq(S) /\ f[k] = f[m] \o s[k]
    BY <1>1, <1>2, <2>1 DEF Flat
  <2>3. Once(f[m]) /\ Range(f[m]) = UpTo(s, m)
    BY <1>5, <2>1
  <2>4. Once(s[k])
    BY Zenon DEF Apart
  <2>5. Range(f[m]) \intersect Range(s[k]) = {}
    <3>1. \A i \in 1 .. m : i \in 1 .. n /\ i # k
      BY <2>1
    <3>2. \A i \in 1 .. m : Range(s[i]) \intersect Range(s[k]) = {}
      BY <3>1, Zenon DEF Apart
    <3> QED BY <2>3, <3>2, Zenon DEF UpTo
  <2>6. UpTo(s, k) = UpTo(s, m) \union Range(s[k])
    <3>1. 1 .. k = (1 .. m) \union {k}
      BY <2>1
    <3> QED BY <3>1, Zenon DEF UpTo
  <2>7. PICK g, t : g = f[m] /\ t = s[k]
    OBVIOUS
  <2>8. Range(g \o t) = Range(g) \union Range(t) /\ Once(g \o t)
    BY <2>2, <2>3, <2>4, <2>5, <2>7, ConcatFacts
  <2>9. P(k)
    BY <2>2, <2>3, <2>6, <2>7, <2>8, Zenon
  <2> QED BY <2>9
<1>6. \A k \in 0 .. n : k \in G
  <2> HIDE DEF G
  <2> QED BY <1>4, <1>5, BoundedInduction
<1>7. n \in G
  <2>1. n \in 0 .. n
    OBVIOUS
  <2> HIDE DEF G
  <2> QED BY <1>6, <2>1
<1> QED BY <1>2, <1>3, <1>7

(* A sequence without an element twice is as long as its elements many.    *)
LEMMA OnceLength ==
  ASSUME NEW n \in Nat, NEW s \in Seq(1 .. n), Once(s), Range(s) = 1 .. n
  PROVE  Len(s) = n
<1>1. PICK m \in Nat : m = Len(s) /\ DOMAIN s = 1 .. m
  OBVIOUS
<1>2. s = [i \in 1 .. m |-> s[i]]
  BY <1>1
<1>3. s \in Bijection(1 .. m, Range(s))
  BY <1>1, <1>2 DEF Bijection, Injection, Surjection, IsInjective, Range, Once
<1>4. \A k \in Nat : Cardinality(1 .. k) = k /\ IsFiniteSet(1 .. k)
  <2> TAKE k \in Nat
  <2>1. 1 \in Int /\ k \in Int
    OBVIOUS
  <2>2. IsFiniteSet(1 .. k) /\ Cardinality(1 .. k) = IF 1 > k THEN 0 ELSE k - 1 + 1
    BY <2>1, FS_Interval
  <2>3. (IF 1 > k THEN 0 ELSE k - 1 + 1) = k
    OBVIOUS
  <2> QED BY <2>2, <2>3
<1>5. PICK D, R : D = 1 .. m /\ R = 1 .. n
  OBVIOUS
<1>6. s \in Bijection(D, R) /\ IsFiniteSet(D)
  BY <1>3, <1>4, <1>5
<1>7. Cardinality(D) = Cardinality(R)
  BY <1>6, FS_Bijection DEF ExistsBijection
<1>8. Cardinality(D) = m /\ Cardinality(R) = n
  BY <1>4, <1>5
<1> QED BY <1>1, <1>7, <1>8

\* Texts in high memory leave less than twelve slots unused, the others less than three.
Slotted(texts, parse, n) ==
  /\ n \in Nat /\ DOMAIN texts = 1 .. n
  /\ \A t \in 1 .. n :
       \/ texts[t].packed = TRUE /\ parse[t].rounding \in 0 .. 11
       \/ texts[t].packed = FALSE /\ parse[t].rounding \in 0 .. 2

\* Those in high memory or not with a number of slots, and all of them in turn.
SlotSet(texts, parse, packed, w) == {t \in DOMAIN texts : texts[t].packed = packed /\ parse[t].rounding = w}
InSlots(texts, parse, packed, m) ==
  [i \in 1 .. m |-> Among([t \in DOMAIN texts |-> t], SlotSet(texts, parse, packed, m - i))]

SlotsOk(texts, parse, n, packed, m, s) ==
  /\ Joinable(s, m, 1 .. n) /\ Apart(s, m)
  /\ \A i \in 1 .. m : Range(s[i]) = SlotSet(texts, parse, packed, m - i)

(* What is printed for one of them.                                        *)
LEMMA SlotFacts ==
  ASSUME NEW texts, NEW parse, NEW n \in Nat, DOMAIN texts = 1 .. n, NEW packed, NEW m \in Nat \ {0}
  PROVE  SlotsOk(texts, parse, n, packed, m, InSlots(texts, parse, packed, m))
<1>1. PICK all : all = [t \in 1 .. n |-> t]
  OBVIOUS
<1>2. all \in Seq(1 .. n) /\ Once(all) /\ Range(all) = 1 .. n
  <2>1. all \in [1 .. n -> 1 .. n] /\ \A t \in 1 .. n : all[t] = t
    BY <1>1
  <2>2. all \in Seq(1 .. n) /\ DOMAIN all = 1 .. n
    BY <2>1, FunctionIsSeq
  <2> QED BY <2>1, <2>2 DEF Once, Range
<1>3. PICK s : s = InSlots(texts, parse, packed, m)
  OBVIOUS
<1>4. s = [i \in 1 .. m |-> Among(all, SlotSet(texts, parse, packed, m - i))]
  BY <1>1, <1>3, Zenon DEF InSlots
<1>5. ASSUME NEW i \in 1 .. m
      PROVE  s[i] \in Seq(1 .. n) /\ Once(s[i]) /\ Range(s[i]) = SlotSet(texts, parse, packed, m - i)
  <2>1. s[i] = Among(all, SlotSet(texts, parse, packed, m - i))
    BY <1>4
  <2>2. PICK X : X = SlotSet(texts, parse, packed, m - i)
    OBVIOUS
  <2>3. Among(all, X) \in Seq(1 .. n) /\ Once(Among(all, X)) /\ Range(Among(all, X)) = (1 .. n) \intersect X
    <3>1. PICK S : S = 1 .. n
      OBVIOUS
    <3> QED BY ONLY <1>2, <3>1, AmongFacts
  <2>4. X \subseteq 1 .. n
    BY <2>2, Zenon DEF SlotSet
  <2> QED BY <2>1, <2>2, <2>3, <2>4
<1>6. Joinable(s, m, 1 .. n)
  <2>1. DOMAIN s = 1 .. m
    BY <1>4
  <2>2. s \in [1 .. m -> Seq(1 .. n)]
    <3>1. s = [i \in 1 .. m |-> s[i]]
      BY <1>4, <2>1
    <3> QED BY <1>5, <3>1, Zenon
  <2>3. PICK T : T = Seq(1 .. n)
    OBVIOUS
  <2>4. Len(s) = m
    BY <2>2, <2>3, FunctionIsSeq
  <2> QED BY <1>5, <2>1, <2>4, Zenon DEF Joinable
<1>7. Apart(s, m)
  <2> SUFFICES ASSUME NEW i \in 1 .. m, NEW j \in 1 .. m, i # j
               PROVE  Range(s[i]) \intersect Range(s[j]) = {}
    BY <1>5, Zenon DEF Apart
  <2>1. PICK v, w : v = m - i /\ w = m - j /\ v # w
    OBVIOUS
  <2>2. SlotSet(texts, parse, packed, v) \intersect SlotSet(texts, parse, packed, w) = {}
    BY <2>1, Zenon DEF SlotSet
  <2> QED BY <1>5, <2>1, <2>2, Zenon
<1> QED BY <1>3, <1>5, <1>6, <1>7, Zenon DEF SlotsOk

(* Every text is printed, and once.                                        *)
LEMMA OrderFacts ==
  ASSUME NEW texts, NEW parse, NEW n, Slotted(texts, parse, n)
  PROVE  LET order == FinishedOrder(texts, parse)
         IN  /\ order \in Seq(1 .. n) /\ Once(order) /\ Range(order) = 1 .. n
             /\ Len(order) = n /\ DOMAIN order = 1 .. n
<1>1. n \in Nat /\ DOMAIN texts = 1 .. n
  BY DEF Slotted
<1>2. PICK high, low : high = InSlots(texts, parse, TRUE, 12) /\ low = InSlots(texts, parse, FALSE, 3)
  OBVIOUS
<1>3. FinishedOrder(texts, parse) = FlattenSeq(high) \o FlattenSeq(low)
  BY <1>2, Zenon DEF FinishedOrder, InSlots, SlotSet
<1>4. /\ Joinable(high, 12, 1 .. n) /\ Apart(high, 12)
      /\ \A i \in 1 .. 12 : Range(high[i]) = SlotSet(texts, parse, TRUE, 12 - i)
  <2>1. 12 \in Nat \ {0}
    OBVIOUS
  <2>2. SlotsOk(texts, parse, n, TRUE, 12, high)
    BY <1>1, <1>2, <2>1, SlotFacts, Zenon
  <2> QED BY <2>2, Zenon DEF SlotsOk
<1>5. /\ Joinable(low, 3, 1 .. n) /\ Apart(low, 3)
      /\ \A i \in 1 .. 3 : Range(low[i]) = SlotSet(texts, parse, FALSE, 3 - i)
  <2>1. 3 \in Nat \ {0}
    OBVIOUS
  <2>2. SlotsOk(texts, parse, n, FALSE, 3, low)
    BY <1>1, <1>2, <2>1, SlotFacts, Zenon
  <2> QED BY <2>2, Zenon DEF SlotsOk
<1>6. PICK s, t : s = FlattenSeq(high) /\ t = FlattenSeq(low)
  OBVIOUS
<1>7. s \in Seq(1 .. n) /\ Once(s) /\ Range(s) = UpTo(high, 12)
  <2>1. 12 \in Nat
    OBVIOUS
  <2>2. PICK S : S = 1 .. n
    OBVIOUS
  <2> QED BY ONLY <1>4, <1>6, <2>1, <2>2, FlattenOnce
<1>8. t \in Seq(1 .. n) /\ Once(t) /\ Range(t) = UpTo(low, 3)
  <2>1. 3 \in Nat
    OBVIOUS
  <2>2. PICK S : S = 1 .. n
    OBVIOUS
  <2> QED BY ONLY <1>5, <1>6, <2>1, <2>2, FlattenOnce
<1>9. Range(s) \intersect Range(t) = {}
  <2>1. \A x \in UpTo(high, 12) : texts[x].packed = TRUE
    BY <1>4, Zenon DEF UpTo, SlotSet
  <2>2. \A x \in UpTo(low, 3) : texts[x].packed = FALSE
    BY <1>5, Zenon DEF UpTo, SlotSet
  <2> QED BY <1>7, <1>8, <2>1, <2>2, Zenon
<1>10. ASSUME NEW x \in 1 .. n PROVE x \in Range(s) \union Range(t)
  <2>1. CASE texts[x].packed = TRUE /\ parse[x].rounding \in 0 .. 11
    <3>1. PICK i \in 1 .. 12 : parse[x].rounding = 12 - i
      <4>1. PICK w \in 0 .. 11 : w = parse[x].rounding
        BY <2>1
      <4>2. 12 - w \in 1 .. 12 /\ w = 12 - (12 - w)
        OBVIOUS
      <4> QED BY <4>1, <4>2, Zenon
    <3>2. x \in SlotSet(texts, parse, TRUE, 12 - i)
      BY <1>1, <2>1, <3>1, Zenon DEF SlotSet
    <3> QED BY <1>4, <1>7, <3>2, Zenon DEF UpTo
  <2>2. CASE texts[x].packed = FALSE /\ parse[x].rounding \in 0 .. 2
    <3>1. PICK i \in 1 .. 3 : parse[x].rounding = 3 - i
      <4>1. PICK w \in 0 .. 2 : w = parse[x].rounding
        BY <2>2
      <4>2. 3 - w \in 1 .. 3 /\ w = 3 - (3 - w)
        OBVIOUS
      <4> QED BY <4>1, <4>2, Zenon
    <3>2. x \in SlotSet(texts, parse, FALSE, 3 - i)
      BY <1>1, <2>2, <3>1, Zenon DEF SlotSet
    <3> QED BY <1>5, <1>8, <3>2, Zenon DEF UpTo
  <2> QED BY <2>1, <2>2, Zenon DEF Slotted
<1>11. s \o t \in Seq(1 .. n) /\ Once(s \o t) /\ Range(s \o t) = Range(s) \union Range(t)
  <2>1. PICK S : S = 1 .. n
    OBVIOUS
  <2> QED BY ONLY <1>7, <1>8, <1>9, <2>1, ConcatFacts
<1>12. PICK order : order = s \o t
  OBVIOUS
<1>13. order \in Seq(1 .. n) /\ Once(order) /\ Range(order) = 1 .. n
  <2>1. Range(s) \subseteq 1 .. n /\ Range(t) \subseteq 1 .. n
    BY <1>7, <1>8, SeqFacts
  <2> QED BY <1>10, <1>11, <1>12, <2>1, Zenon
<1>14. Len(order) = n /\ DOMAIN order = 1 .. n
  <2>1. Len(order) = n
    BY <1>1, <1>13, OnceLength
  <2> QED BY <1>13, <2>1
<1> QED BY <1>3, <1>6, <1>12, <1>13, <1>14, Zenon

----------------------------------------------------------------------------
(* The units that texts are filled up to.                                  *)

\* After reading, texts have the unit of their place in the story and of its version.
Units ==
  phase \notin {"open", "read", "failed"} =>
    \A t \in DOMAIN Texts : Texts[t].unit = RoundingNumber(Texts[t].packed, read.version)

(* Reading ends with these units.                                          *)
LEMMA EndUnits ==
  ASSUME IInv, EndReading
  PROVE  Units'
<1>1. PICK texts, style :
        /\ texts = [t \in DOMAIN read.texts |->
                     [read.texts[t] EXCEPT !.unit = RoundingNumber(read.texts[t].packed, read.version)]]
        /\ style = Style(settings, read)
        /\ read' = [read EXCEPT !.inform = style, !.texts = texts]
  BY Zenon DEF EndReading
<1>2. {"texts", "version"} \subseteq DOMAIN read
  BY DEF IInv, ReaderOK, HasRead
<1>3. Texts' = texts /\ read'.version = read.version
  <2>1. read'.texts = texts /\ read'.version = read.version
    BY <1>1, <1>2
  <2> QED BY <2>1 DEF Texts
<1>4. ASSUME NEW t \in DOMAIN texts
      PROVE  texts[t].unit = RoundingNumber(texts[t].packed, read.version)
  <2>1. t \in DOMAIN read.texts
    BY <1>1
  <2>2. PICK x, u : x = read.texts[t] /\ u = RoundingNumber(x.packed, read.version)
    OBVIOUS
  <2>3. IsGameText(x)
    BY <2>1, <2>2 DEF IInv, ReaderOK, HasRead, Readable
  <2>4. texts[t] = [x EXCEPT !.unit = u]
    BY <1>1, <2>1, <2>2
  <2>5. texts[t].unit = u /\ texts[t].packed = x.packed
    BY <2>3, <2>4 DEF IsGameText
  <2> QED BY <2>2, <2>5, Zenon
<1> QED BY <1>3, <1>4, Zenon DEF Units

(* Every step keeps them.                                                  *)
LEMMA UnitsKept ==
  ASSUME IInv, Units, [Next]_vars
  PROVE  Units'
<1>1. CASE EndReading
  BY <1>1, EndUnits
<1>2. CASE OpenFiles \/ ReadNext \/ CloseFile
  <2>1. phase' \in {"open", "read", "failed"}
    BY <1>2 DEF OpenFiles, ReadNext, CloseFile
  <2> QED BY <2>1, Zenon DEF Units
<1>3. CASE ~Reading
  <2>1. UNCHANGED read
    <3>1. Extract \/ Report => UNCHANGED read
      BY DEF Extract, Report, PrintAbbreviations, PrintOnlyRefactorings, reading
    <3>2. Greedy => UNCHANGED read
      BY Zenon DEF Greedy, PutBack, Accept, AcceptAndThrowBack, EndChoice, reading
    <3>3. Refine => UNCHANGED read
      BY Zenon DEF Refine, SkipRunnerUp, RefineDeep, RefineOverlapping, Replaced, EndRefinement, reading
    <3>4. EditKeys => UNCHANGED read
      BY Zenon DEF EditKeys, StartEdits, SkipEdit, Edit, EndEdits, reading
    <3>5. UNCHANGED vars => UNCHANGED read
      BY DEF vars, reading
    <3> QED BY <1>3, <3>1, <3>2, <3>3, <3>4, <3>5, Zenon DEF Next, Stopped
  <2>2. phase \in {"open", "read", "failed"} => phase' = phase
    <3>1. Extract => phase = "extract"
      BY DEF Extract
    <3>2. Greedy => phase = "greedy"
      BY Zenon DEF Greedy, PutBack, Accept, AcceptAndThrowBack, EndChoice, Choosing
    <3>3. Refine => phase = "refine"
      BY Zenon DEF Refine, SkipRunnerUp, RefineDeep, RefineOverlapping, EndRefinement, Refining
    <3>4. EditKeys => phase \in {"edits", "edit"}
      BY Zenon DEF EditKeys, StartEdits, SkipEdit, Edit, EndEdits, Editing
    <3>5. Report => phase = "output"
      BY DEF Report, PrintAbbreviations, PrintOnlyRefactorings
    <3>6. UNCHANGED vars => phase' = phase
      BY DEF vars
    <3> QED BY <1>3, <3>1, <3>2, <3>3, <3>4, <3>5, <3>6 DEF Next, Stopped
  <2>3. Texts' = Texts
    BY <2>1 DEF Texts
  <2> QED BY <2>1, <2>2, <2>3, Zenon DEF Units
<1> QED BY <1>1, <1>2, <1>3, Zenon DEF Reading

(* What is known when the abbreviations are printed.                       *)
THEOREM Ending ==
  Spec => [](IInv /\ Printed /\ Units)
<1>1. Init => Units
  BY DEF Init, Units
<1>2. IInv /\ Units /\ [Next]_vars => Units'
  BY UnitsKept
<1> QED BY <1>1, <1>2, Printing, PTL DEF Spec

(* Each unit leaves less than itself unused.                               *)
LEMMA EndSlots ==
  ASSUME SearchOK, Units, LastParse, phase = "done", NEW n, n = Len(Texts)
  PROVE  Slotted(Texts, parses, n)
<1>1. Readable(Texts)
  BY DEF SearchOK, ReadOK
<1>2. n \in Nat /\ DOMAIN Texts = 1 .. n
  BY <1>1 DEF Readable
<1>3. ASSUME NEW t \in 1 .. n
      PROVE  \/ Texts[t].packed = TRUE /\ parses[t].rounding \in 0 .. 11
             \/ Texts[t].packed = FALSE /\ parses[t].rounding \in 0 .. 2
  <2>1. IsGameText(Texts[t]) /\ IsLeft(settings.alpha, Texts, SeenAtEnd, t, parses[t])
    <3>1. IsGameText(Texts[t])
      BY <1>1, <1>2, Zenon DEF Readable
    <3>2. IsLeft(settings.alpha, Texts, SeenAtEnd, t, parses[t])
      BY <1>1, <1>2, EndList, ParsesFacts DEF LastParse
    <3> QED BY <3>1, <3>2
  <2>8. PICK x : x = parses[t].rounding
    OBVIOUS
  <2>2. PICK u \in Nat \ {0} : u = Texts[t].unit
    BY <2>1 DEF IsGameText
  <2>3. x \in 0 .. u - 1
    <3>1. Left(SeenAtEnd, Len(Texts[t].text), u, parses[t])
      BY <1>1, <1>2, <2>1, <2>2, EndList, LeftFacts
    <3> QED BY <2>2, <2>8, <3>1 DEF Left
  <2>4. u = RoundingNumber(Texts[t].packed, read.version)
    BY <1>2, <2>2, Zenon DEF Units
  <2>5. Texts[t].packed = TRUE \/ Texts[t].packed = FALSE
    BY <2>1, Zenon DEF IsGameText, Bit
  <2>6. u \in {3, 6, 12} /\ (Texts[t].packed = FALSE => u = 3)
    BY <2>4, <2>5, Zenon DEF RoundingNumber
  <2>7. x \in 0 .. 11 /\ (u = 3 => x \in 0 .. 2)
    BY <2>3, <2>6
  <2> QED BY <2>2, <2>5, <2>6, <2>7, <2>8, Zenon
<1> QED BY <1>2, <1>3, Zenon DEF Slotted

(* Every text is printed once, as the text it is.                          *)
THEOREM FinishedHolds ==
  Spec => []FinishedIsText
<1>1. IInv /\ Printed /\ Units => FinishedIsText
  <2> SUFFICES ASSUME IInv, Printed, Units, phase = "done", settings.verbose, ~settings.onlyRefactor
               PROVE  /\ Len(output.finished) = Len(Texts)
                      /\ \A t \in DOMAIN Texts : \E i \in DOMAIN output.finished :
                           /\ output.finished[i].text = t
                           /\ Charred(output.finished[i].pieces) = Texts[t].text
    BY Zenon DEF FinishedIsText, Charred
  <2>1. SearchOK /\ LastParse /\ LastTexts
    BY DEF IInv, Printed, Reported
  <2>2. PICK n : n = Len(Texts)
    OBVIOUS
  <2>3. Slotted(Texts, parses, n)
    BY <2>1, <2>2, EndSlots
  <2>4. n \in Nat /\ DOMAIN Texts = 1 .. n
    BY <2>3 DEF Slotted
  <2>5. PICK order : order = FinishedOrder(Texts, parses)
    OBVIOUS
  <2>6. order \in Seq(1 .. n) /\ Range(order) = 1 .. n /\ Len(order) = n /\ DOMAIN order = 1 .. n
    BY <2>3, <2>5, OrderFacts
  <2> DEFINE entry(i) == [text   |-> order[i],
                          pieces |-> FinishedText(Texts[order[i]].text, parses[order[i]], PatternsOfList(pats, best))]
  <2>7. output.finished = [i \in 1 .. n |-> entry(i)]
    BY <2>1, <2>5, <2>6, Zenon DEF LastTexts, Finished
  <2>8. Len(output.finished) = n /\ DOMAIN output.finished = 1 .. n
    <3> HIDE DEF entry
    <3>1. PICK S : S = {entry(i) : i \in 1 .. n}
      OBVIOUS
    <3>2. output.finished \in [1 .. n -> S]
      BY <2>7, <3>1
    <3> QED BY <2>4, <3>2, FunctionIsSeq
  <2>9. ASSUME NEW t \in DOMAIN Texts
        PROVE  \E i \in DOMAIN output.finished :
                 /\ output.finished[i].text = t
                 /\ Charred(output.finished[i].pieces) = Texts[t].text
    <3>1. PICK i \in 1 .. n : order[i] = t
      BY <2>4, <2>6 DEF Range
    <3>2. output.finished[i] = [text   |-> t,
                                pieces |-> FinishedText(Texts[t].text, parses[t], PatternsOfList(pats, best))]
      BY <2>7, <3>1, Zenon
    <3>3. /\ output.finished[i].text = t
          /\ output.finished[i].pieces = FinishedText(Texts[t].text, parses[t], PatternsOfList(pats, best))
      BY <3>2
    <3>4. Charred(FinishedText(Texts[t].text, parses[t], PatternsOfList(pats, best))) = Texts[t].text
      BY <2>1, PrintedLeast
    <3> QED BY <2>8, <3>3, <3>4, Zenon
  <2> QED BY <2>2, <2>8, <2>9
<1> QED BY <1>1, Ending, PTL

----------------------------------------------------------------------------
(* Sums of sums.                                                           *)

(* Zeros add up to zero.                                                   *)
LEMMA TotalZeros ==
  ASSUME NEW n, NEW s, Numbers(s, n), \A i \in 1 .. n : s[i] = 0
  PROVE  Total(s) = 0
<1>1. \A i \in 1 .. n : s[i] = s[i] + s[i]
  OBVIOUS
<1>2. Total(s) = Total(s) + Total(s)
  BY <1>1, TotalOfSums
<1>3. PICK x \in Int : x = Total(s)
  BY TotalSums
<1>4. x = x + x
  BY <1>2, <1>3, Zenon
<1>5. x = 0
  BY <1>4
<1> QED BY <1>3, <1>5

\* One number among zeros.
Only(s, n, j, x) == j \in 1 .. n /\ \A i \in 1 .. n : s[i] = IF i = j THEN x ELSE 0

(* It is the sum.                                                          *)
LEMMA TotalSingle ==
  ASSUME NEW n, NEW s, Numbers(s, n), NEW j, NEW x \in Int, Only(s, n, j, x)
  PROVE  Total(s) = x
<1>1. n \in Nat /\ j \in 1 .. n /\ \A i \in 1 .. n : s[i] = IF i = j THEN x ELSE 0
  BY DEF Numbers, Only
<1>2. PICK f : Sums(s, n, f) /\ f[n] = Total(s)
  BY TotalSums
<1> DEFINE P(k) == f[k] = IF k < j THEN 0 ELSE x
           G == {k \in 0 .. n : P(k)}
<1>3. 0 \in G
  <2>1. f[0] = 0
    BY <1>2 DEF Sums
  <2>2. 0 \in 0 .. n /\ 0 < j
    BY <1>1
  <2> QED BY <2>1, <2>2
<1>4. ASSUME NEW k \in 1 .. n, k - 1 \in G PROVE k \in G
  <2>1. PICK m \in Nat : m = k - 1 /\ k = m + 1
    BY <1>1, <1>4
  <2>2. f[m] = (IF m < j THEN 0 ELSE x) /\ s[k] = IF k = j THEN x ELSE 0
    BY <1>1, <1>4, <2>1, Zenon
  <2>3. f[k] = f[m] + s[k]
    BY <1>2, <2>1, Zenon DEF Sums
  <2>4. PICK y, z : y = f[m] /\ z = s[k]
    OBVIOUS
  <2>5. y = (IF m < j THEN 0 ELSE x) /\ z = IF k = j THEN x ELSE 0
    BY <2>2, <2>4, Zenon
  <2>6. y + z = IF k < j THEN 0 ELSE x
    BY <1>1, <2>1, <2>5
  <2>7. P(k)
    BY <2>3, <2>4, <2>6, Zenon
  <2> QED BY <2>7
<1>5. \A k \in 0 .. n : k \in G
  <2> HIDE DEF G
  <2> QED BY <1>1, <1>3, <1>4, BoundedInduction
<1>6. n \in 0 .. n /\ ~(n < j)
  BY <1>1
<1>7. f[n] = x
  <2>1. n \in G
    <3> HIDE DEF G
    <3> QED BY <1>5, <1>6
  <2> QED BY <1>6, <2>1
<1> QED BY <1>2, <1>7

\* Numbers in rows and columns.
Table(m, v, k) ==
  v \in Nat /\ k \in Nat /\ \A w \in 1 .. v : \A t \in 1 .. k : m[w][t] \in Int
RowSum(m, w, k) == Total([t \in 1 .. k |-> m[w][t]])
ColumnSum(m, t, v) == Total([w \in 1 .. v |-> m[w][t]])

(* Their sums are numbers.                                                 *)
LEMMA TableSums ==
  ASSUME NEW m, NEW v, NEW k, Table(m, v, k)
  PROVE  /\ \A w \in 1 .. v : Numbers([t \in 1 .. k |-> m[w][t]], k) /\ RowSum(m, w, k) \in Int
         /\ \A t \in 1 .. k : Numbers([w \in 1 .. v |-> m[w][t]], v) /\ ColumnSum(m, t, v) \in Int
         /\ Numbers([w \in 1 .. v |-> RowSum(m, w, k)], v)
         /\ Numbers([t \in 1 .. k |-> ColumnSum(m, t, v)], k)
<1>1. v \in Nat /\ k \in Nat /\ \A w \in 1 .. v : \A t \in 1 .. k : m[w][t] \in Int
  BY DEF Table
<1>2. ASSUME NEW w \in 1 .. v PROVE Numbers([t \in 1 .. k |-> m[w][t]], k) /\ RowSum(m, w, k) \in Int
  <2>1. PICK s : s = [t \in 1 .. k |-> m[w][t]]
    OBVIOUS
  <2>2. s = [t \in 1 .. k |-> s[t]] /\ \A t \in 1 .. k : s[t] \in Int
    BY <1>1, <2>1
  <2>3. Numbers(s, k)
    BY <1>1, <2>2, NumbersFrom
  <2> QED BY <2>1, <2>3, TotalSums DEF RowSum
<1>3. ASSUME NEW t \in 1 .. k PROVE Numbers([w \in 1 .. v |-> m[w][t]], v) /\ ColumnSum(m, t, v) \in Int
  <2>1. PICK s : s = [w \in 1 .. v |-> m[w][t]]
    OBVIOUS
  <2>2. s = [w \in 1 .. v |-> s[w]] /\ \A w \in 1 .. v : s[w] \in Int
    BY <1>1, <2>1
  <2>3. Numbers(s, v)
    BY <1>1, <2>2, NumbersFrom
  <2> QED BY <2>1, <2>3, TotalSums DEF ColumnSum
<1>4. Numbers([w \in 1 .. v |-> RowSum(m, w, k)], v)
  <2>1. PICK s : s = [w \in 1 .. v |-> RowSum(m, w, k)]
    OBVIOUS
  <2>2. s = [w \in 1 .. v |-> s[w]] /\ \A w \in 1 .. v : s[w] \in Int
    BY <1>2, <2>1
  <2> QED BY <1>1, <2>1, <2>2, NumbersFrom
<1>5. Numbers([t \in 1 .. k |-> ColumnSum(m, t, v)], k)
  <2>1. PICK s : s = [t \in 1 .. k |-> ColumnSum(m, t, v)]
    OBVIOUS
  <2>2. s = [t \in 1 .. k |-> s[t]] /\ \A t \in 1 .. k : s[t] \in Int
    BY <1>3, <2>1
  <2> QED BY <1>1, <2>1, <2>2, NumbersFrom
<1> QED BY <1>2, <1>3, <1>4, <1>5

(* Rows and columns add up to the same.                                    *)
LEMMA TotalSwap ==
  ASSUME NEW m, NEW v, NEW k, Table(m, v, k)
  PROVE  Total([w \in 1 .. v |-> RowSum(m, w, k)]) = Total([t \in 1 .. k |-> ColumnSum(m, t, v)])
<1>1. v \in Nat /\ k \in Nat
  BY DEF Table
<1>2. ASSUME NEW j \in 0 .. k PROVE Table(m, v, j)
  BY DEF Table
<1> DEFINE rows(j) == [w \in 1 .. v |-> RowSum(m, w, j)]
           columns(j) == [t \in 1 .. j |-> ColumnSum(m, t, v)]
           P(j) == Total(rows(j)) = Total(columns(j))
           G == {j \in 0 .. k : P(j)}
<1>3. 0 \in G
  <2>1. 0 \in 0 .. k
    BY <1>1
  <2>2. Table(m, v, 0)
    BY <1>2, <2>1
  <2>3. PICK s, c : s = rows(0) /\ c = columns(0)
    OBVIOUS
  <2>4. Numbers(s, v) /\ Numbers(c, 0)
    BY <2>2, <2>3, TableSums
  <2>5. \A w \in 1 .. v : s[w] = 0
    <3> TAKE w \in 1 .. v
    <3>1. s[w] = RowSum(m, w, 0)
      BY <2>3
    <3>2. Numbers([t \in 1 .. 0 |-> m[w][t]], 0)
      BY <2>2, TableSums
    <3> QED BY <3>1, <3>2, TotalNone DEF RowSum
  <2>6. Total(s) = 0 /\ Total(c) = 0
    BY <2>4, <2>5, TotalZeros, TotalNone
  <2>7. P(0)
    BY <2>3, <2>6, Zenon
  <2> QED BY <2>1, <2>7
<1>4. ASSUME NEW i \in 1 .. k, i - 1 \in G PROVE i \in G
  <2>1. PICK j \in 0 .. k : j = i - 1 /\ i = j + 1 /\ j \in Nat
    BY <1>1
  <2>2. Table(m, v, i) /\ Table(m, v, j) /\ i \in 0 .. k
    BY <1>1, <1>2, <2>1
  <2>3. P(j)
    BY <1>4, <2>1
  <2>4. PICK s, t, u : s = rows(j) /\ t = [w \in 1 .. v |-> m[w][i]] /\ u = rows(i)
    OBVIOUS
  <2>5. Numbers(s, v) /\ Numbers(t, v) /\ Numbers(u, v)
    <3>1. i \in 1 .. i
      OBVIOUS
    <3> QED BY <2>2, <2>4, <3>1, TableSums
  <2>6. \A w \in 1 .. v : u[w] = s[w] + t[w]
    <3> TAKE w \in 1 .. v
    <3>1. PICK longer, shorter : longer = [x \in 1 .. i |-> m[w][x]] /\ shorter = [x \in 1 .. j |-> m[w][x]]
      OBVIOUS
    <3>2. Numbers(longer, j + 1) /\ Numbers(shorter, j)
      <4>1. Numbers(longer, i) /\ Numbers(shorter, j)
        BY <2>2, <3>1, TableSums, Zenon
      <4> QED BY <2>1, <4>1, Zenon
    <3>3. \A x \in 1 .. j : shorter[x] = longer[x]
      BY <2>1, <3>1
    <3>4. Total(longer) = Total(shorter) + longer[j + 1]
      BY <2>1, <3>2, <3>3, TotalNext
    <3>5. longer[j + 1] = m[w][i]
      BY <2>1, <3>1
    <3>6. u[w] = Total(longer) /\ s[w] = Total(shorter) /\ t[w] = m[w][i]
      BY <2>4, <3>1, Zenon DEF RowSum
    <3> QED BY <3>4, <3>5, <3>6, Zenon
  <2>7. Total(u) = Total(s) + Total(t)
    BY <2>5, <2>6, TotalOfSums
  <2>8. Total(t) = ColumnSum(m, i, v)
    BY <2>4, Zenon DEF ColumnSum
  <2>9. Total(columns(i)) = Total(columns(j)) + ColumnSum(m, i, v)
    <3>1. PICK longer, shorter : longer = columns(i) /\ shorter = columns(j)
      OBVIOUS
    <3>2. Numbers(longer, j + 1) /\ Numbers(shorter, j)
      <4>1. Numbers(longer, i) /\ Numbers(shorter, j)
        BY <2>2, <3>1, TableSums, Zenon
      <4> QED BY <2>1, <4>1, Zenon
    <3>3. \A x \in 1 .. j : shorter[x] = longer[x]
      BY <2>1, <3>1
    <3>4. Total(longer) = Total(shorter) + longer[j + 1]
      BY <2>1, <3>2, <3>3, TotalNext
    <3>5. longer[j + 1] = ColumnSum(m, i, v)
      BY <2>1, <3>1
    <3> QED BY <3>1, <3>4, <3>5, Zenon
  <2>10. P(i)
    BY <2>3, <2>4, <2>7, <2>8, <2>9, Zenon
  <2> QED BY <2>2, <2>10
<1>5. \A j \in 0 .. k : j \in G
  <2> HIDE DEF G
  <2> QED BY <1>1, <1>3, <1>4, BoundedInduction
<1>6. k \in G
  <2>1. k \in 0 .. k
    BY <1>1
  <2> HIDE DEF G
  <2> QED BY <1>5, <2>1
<1> QED BY <1>6

----------------------------------------------------------------------------
(* The sizes printed.                                                      *)

\* The bytes of the texts in high memory or not that leave a number of slots unused.
Share(texts, parse, packed, w) ==
  [t \in DOMAIN texts |-> IF t \in SlotSet(texts, parse, packed, w) THEN parse[t].bytes ELSE 0]

\* The bytes of those that leave it, wherever they are.
SlotTable(parse, n) ==
  [w \in 1 .. 12 |-> [t \in 1 .. n |-> IF parse[t].rounding = w - 1 THEN parse[t].bytes ELSE 0]]

(* A column of the statistics.                                             *)
LEMMA ColumnBytes ==
  ASSUME NEW texts, NEW parse, NEW w \in 1 .. 12
  PROVE  /\ Statistics(texts, parse)[TRUE][w - 1].bytes = Total(Share(texts, parse, TRUE, w - 1))
         /\ Statistics(texts, parse)[FALSE][w - 1].bytes = Total(Share(texts, parse, FALSE, w - 1))
<1>1. w - 1 \in Slots
  BY DEF Slots
<1>2. PICK v \in Slots : v = w - 1
  BY <1>1
<1>3. ASSUME NEW packed \in BOOLEAN
      PROVE  Statistics(texts, parse)[packed][v].bytes = Total(Share(texts, parse, packed, v))
  <2> DEFINE these == SlotSet(texts, parse, packed, v)
  <2>1. Statistics(texts, parse)[packed][v]
        = [strings |-> Cardinality(these),
           bytes   |-> Total([t \in DOMAIN texts |-> IF t \in these THEN parse[t].bytes ELSE 0])]
    BY Zenon DEF Statistics, SlotSet
  <2> HIDE DEF these
  <2>2. Statistics(texts, parse)[packed][v].bytes
        = Total([t \in DOMAIN texts |-> IF t \in these THEN parse[t].bytes ELSE 0])
    <3>1. PICK r, c, b : /\ r = Statistics(texts, parse)[packed][v] /\ c = Cardinality(these)
                         /\ b = Total([t \in DOMAIN texts |-> IF t \in these THEN parse[t].bytes ELSE 0])
      BY Zenon
    <3>2. r = [strings |-> c, bytes |-> b]
      BY <2>1, <3>1, Zenon
    <3>3. r.bytes = b
      BY <3>2
    <3> QED BY <3>1, <3>3, Zenon
  <2> QED BY <2>2, Zenon DEF Share, these
<1>4. TRUE \in BOOLEAN /\ FALSE \in BOOLEAN
  OBVIOUS
<1> QED BY <1>2, <1>3, <1>4, Zenon

(* The bytes by unused slots are those of all texts.                       *)
LEMMA SlotBytes ==
  ASSUME NEW texts, NEW parse, NEW n, Slotted(texts, parse, n), Measured(parse, n)
  PROVE  StringBytes(Statistics(texts, parse)) = Total([t \in DOMAIN parse |-> parse[t].bytes])
<1>1. n \in Nat /\ DOMAIN texts = 1 .. n /\ DOMAIN parse = 1 .. n /\ \A t \in 1 .. n : parse[t].bytes \in Nat
  BY DEF Slotted, Measured
<1>2. PICK m : m = SlotTable(parse, n)
  OBVIOUS
<1>3. ASSUME NEW w \in 1 .. 12
      PROVE  m[w] = [t \in 1 .. n |-> IF parse[t].rounding = w - 1 THEN parse[t].bytes ELSE 0]
  BY <1>2, Zenon DEF SlotTable
<1>4. Table(m, 12, n)
  <2>1. \A w \in 1 .. 12 : \A t \in 1 .. n : m[w][t] \in Int
    <3> TAKE w \in 1 .. 12
    <3> TAKE t \in 1 .. n
    <3>1. m[w][t] = parse[t].bytes \/ m[w][t] = 0
      BY <1>3, Zenon
    <3>2. parse[t].bytes \in Int /\ 0 \in Int
      BY <1>1
    <3> QED BY <3>1, <3>2, Zenon
  <2>2. 12 \in Nat
    OBVIOUS
  <2> QED BY <1>1, <2>1, <2>2, Zenon DEF Table
<1>5. ASSUME NEW w \in 1 .. 12
      PROVE  Statistics(texts, parse)[TRUE][w - 1].bytes + Statistics(texts, parse)[FALSE][w - 1].bytes
             = RowSum(m, w, n)
  <2>1. PICK v : v = w - 1
    OBVIOUS
  <2>2. PICK s, t, u : s = Share(texts, parse, TRUE, v) /\ t = Share(texts, parse, FALSE, v) /\ u = [x \in 1 .. n |-> m[w][x]]
    OBVIOUS
  <2>3. ASSUME NEW x \in 1 .. n, NEW packed
        PROVE  Share(texts, parse, packed, v)[x]
               = IF texts[x].packed = packed /\ parse[x].rounding = v THEN parse[x].bytes ELSE 0
    BY <1>1, Zenon DEF Share, SlotSet
  <2>4. ASSUME NEW x \in 1 .. n
        PROVE  \/ s[x] = parse[x].bytes /\ t[x] = 0 /\ u[x] = parse[x].bytes
               \/ s[x] = 0 /\ t[x] = parse[x].bytes /\ u[x] = parse[x].bytes
               \/ s[x] = 0 /\ t[x] = 0 /\ u[x] = 0
    <3>1. u[x] = IF parse[x].rounding = v THEN parse[x].bytes ELSE 0
      BY <1>3, <2>1, <2>2, Zenon
    <3>2. s[x] = IF texts[x].packed = TRUE /\ parse[x].rounding = v THEN parse[x].bytes ELSE 0
      BY <2>2, <2>3, Zenon
    <3>3. t[x] = IF texts[x].packed = FALSE /\ parse[x].rounding = v THEN parse[x].bytes ELSE 0
      BY <2>2, <2>3, Zenon
    <3>4. (texts[x].packed = TRUE /\ texts[x].packed # FALSE) \/ (texts[x].packed = FALSE /\ texts[x].packed # TRUE)
      BY Zenon DEF Slotted
    <3> QED BY <3>1, <3>2, <3>3, <3>4, Zenon
  <2>5. ASSUME NEW x \in 1 .. n PROVE s[x] \in Int /\ t[x] \in Int /\ u[x] \in Int /\ u[x] = s[x] + t[x]
    <3>1. PICK b \in Int : b = parse[x].bytes
      BY <1>1
    <3>2. PICK y, z, q : y = s[x] /\ z = t[x] /\ q = u[x]
      OBVIOUS
    <3>3. (y = b /\ z = 0 /\ q = b) \/ (y = 0 /\ z = b /\ q = b) \/ (y = 0 /\ z = 0 /\ q = 0)
      BY <2>4, <3>1, <3>2, Zenon
    <3>4. y \in Int /\ z \in Int /\ q \in Int /\ q = y + z
      BY <3>3
    <3> QED BY <3>2, <3>4, Zenon
  <2>6. Numbers(s, n) /\ Numbers(t, n) /\ Numbers(u, n)
    <3>1. s = [x \in 1 .. n |-> s[x]] /\ t = [x \in 1 .. n |-> t[x]] /\ u = [x \in 1 .. n |-> u[x]]
      BY <1>1, <2>2 DEF Share
    <3> QED BY <1>1, <2>5, <3>1, NumbersFrom
  <2>7. Total(u) = Total(s) + Total(t)
    BY <2>5, <2>6, TotalOfSums
  <2>8. RowSum(m, w, n) = Total(u)
    BY <2>2, Zenon DEF RowSum
  <2> QED BY <2>1, <2>2, <2>7, <2>8, ColumnBytes, Zenon
<1>6. ASSUME NEW t \in 1 .. n PROVE ColumnSum(m, t, 12) = parse[t].bytes
  <2>1. PICK c : c = [w \in 1 .. 12 |-> m[w][t]]
    OBVIOUS
  <2>2. Numbers(c, 12)
    BY <1>4, <2>1, TableSums
  <2>3. PICK j \in 1 .. 12 : parse[t].rounding = j - 1
    <3>1. PICK r \in 0 .. 11 : r = parse[t].rounding
      BY DEF Slotted
    <3>2. r + 1 \in 1 .. 12 /\ r = (r + 1) - 1
      OBVIOUS
    <3> QED BY <3>1, <3>2, Zenon
  <2>4. Only(c, 12, j, parse[t].bytes)
    <3>1. \A i \in 1 .. 12 : i - 1 = j - 1 <=> i = j
      OBVIOUS
    <3>2. \A i \in 1 .. 12 : c[i] = IF parse[t].rounding = i - 1 THEN parse[t].bytes ELSE 0
      BY <1>3, <2>1, Zenon
    <3> QED BY <2>3, <3>1, <3>2, Zenon DEF Only
  <2>5. PICK x \in Int : x = parse[t].bytes
    BY <1>1
  <2>6. Total(c) = x
    BY <2>2, <2>4, <2>5, TotalSingle
  <2> QED BY <2>1, <2>5, <2>6, Zenon DEF ColumnSum
<1>7. StringBytes(Statistics(texts, parse)) = Total([w \in 1 .. 12 |-> RowSum(m, w, n)])
  BY <1>5, Zenon DEF StringBytes
<1>8. Total([t \in DOMAIN parse |-> parse[t].bytes]) = Total([t \in 1 .. n |-> ColumnSum(m, t, 12)])
  BY <1>1, <1>6, Zenon
<1> QED BY <1>4, <1>7, <1>8, TotalSwap, Zenon

(* The bytes of the abbreviations are those of the list.                   *)
LEMMA StoredBytes ==
  ASSUME SearchOK, phase \in Late
  PROVE  AbbreviationBytes(PatternsOfList(pats, best), N)
         = Total([a \in DOMAIN SeenAtEnd |-> Storage(SeenAtEnd[a].cost)])
<1>1. PICK n \in Nat : n = Len(best) /\ DOMAIN best = 1 .. n
  BY DEF SearchOK, Lists
<1>2. N \in Nat /\ n <= N
  BY <1>1 DEF SearchOK, Bounded
<1>3. \A a \in DOMAIN best : a <= N
  BY <1>1, <1>2
<1>4. \A a \in DOMAIN best : PatternsOfList(pats, best)[a].cost = SeenAtEnd[a].cost
  <2>1. \A a \in DOMAIN best : PatternsOfList(pats, best)[a] = pats[best[a]]
    BY DEF PatternsOfList
  <2> QED BY <2>1, EndList, Zenon
<1>5. DOMAIN PatternsOfList(pats, best) = DOMAIN best /\ DOMAIN SeenAtEnd = DOMAIN best
  BY EndList DEF PatternsOfList
<1>6. [a \in DOMAIN PatternsOfList(pats, best) |->
         IF a <= N THEN Storage(PatternsOfList(pats, best)[a].cost) ELSE 0]
      = [a \in DOMAIN SeenAtEnd |-> Storage(SeenAtEnd[a].cost)]
  BY <1>3, <1>4, <1>5, Zenon
<1> QED BY <1>6, Zenon DEF AbbreviationBytes

(* The sizes printed add up to the size reached.                           *)
THEOREM SizesHold ==
  Spec => []SizesAgree
<1>1. IInv /\ Printed /\ Units => SizesAgree
  <2> SUFFICES ASSUME IInv, Printed, Units, phase = "done", settings.level > 0, ~settings.onlyRefactor
               PROVE  StringBytes(Statistics(Texts, parses)) + AbbreviationBytes(PatternsOfList(pats, best), N)
                        + TotalPadding(read.version, Texts, parses, read.sizes) = latestBytes
    BY Zenon DEF SizesAgree, PatternsOfList
  <2>1. SearchOK /\ LastParse /\ LastSize /\ phase \in Late
    BY DEF IInv, Printed, Reported, Late
  <2>2. PICK n : n = Len(Texts)
    OBVIOUS
  <2>3. Slotted(Texts, parses, n)
    BY <2>1, <2>2, EndSlots
  <2>4. Measured(parses, n)
    <3>1. n \in Nat /\ DOMAIN Texts = 1 .. n
      BY <2>3 DEF Slotted
    <3>2. Readable(Texts)
      BY <2>1 DEF SearchOK, ReadOK
    <3>3. DOMAIN parses = DOMAIN Texts /\ \A t \in DOMAIN Texts : IsLeft(settings.alpha, Texts, SeenAtEnd, t, parses[t])
      BY <2>1, <3>2, EndList, ParsesFacts DEF LastParse
    <3>4. \A t \in DOMAIN Texts : Left(SeenAtEnd, Len(Texts[t].text), Texts[t].unit, parses[t])
      BY <2>1, <3>2, <3>3, EndList, LeftFacts
    <3> QED BY <3>1, <3>3, <3>4, Zenon DEF Measured, Left
  <2>5. latestBytes = TotalBytes(read.version, Texts, SeenAtEnd, parses, read.sizes)
    BY <2>1, Zenon DEF LastSize, SizeOf, Size, LastParse, SeenAtEnd
  <2>6. StringBytes(Statistics(Texts, parses)) = Total([t \in DOMAIN parses |-> parses[t].bytes])
    BY <2>3, <2>4, SlotBytes
  <2>7. AbbreviationBytes(PatternsOfList(pats, best), N)
        = Total([a \in DOMAIN SeenAtEnd |-> Storage(SeenAtEnd[a].cost)])
    BY <2>1, StoredBytes
  <2> QED BY <2>5, <2>6, <2>7, Zenon DEF TotalBytes
<1> QED BY <1>1, Ending, PTL

----------------------------------------------------------------------------
(* What the positions that a parse takes are worth.                        *)

\* How often an abbreviation is taken, and by how much each shortens the text.
Uses(parse, taken, a) == Cardinality({i \in taken : parse[i].pick = a})
Worth(list, parse, taken) == [a \in DOMAIN list |-> Uses(parse, taken, a) * (list[a].cost - 2)]

\* A list of m abbreviations whose costs are those of their keys.
Priced(alpha, list, m) ==
  /\ m \in Nat /\ DOMAIN list = 1 .. m
  /\ \A a \in 1 .. m : list[a].cost = ZstringCost(alpha, list[a].key) /\ list[a].cost \in Nat

(* These are numbers.                                                      *)
LEMMA WorthNumbers ==
  ASSUME NEW alpha, NEW list, NEW m, Priced(alpha, list, m), NEW parse, NEW taken, IsFiniteSet(taken)
  PROVE  /\ Numbers(Worth(list, parse, taken), m) /\ Total(Worth(list, parse, taken)) \in Int
         /\ \A a \in 1 .. m : Uses(parse, taken, a) \in Nat
<1>1. m \in Nat /\ DOMAIN list = 1 .. m /\ \A a \in 1 .. m : list[a].cost \in Nat
  BY DEF Priced
<1>2. ASSUME NEW a PROVE Uses(parse, taken, a) \in Nat
  <2>1. PICK S : S = {i \in taken : parse[i].pick = a}
    OBVIOUS
  <2>2. IsFiniteSet(S)
    <3>1. S \subseteq taken
      BY <2>1
    <3> QED BY <3>1, FS_Subset
  <2>3. Cardinality(S) \in Nat
    BY <2>2, FS_CardinalityType
  <2> QED BY <2>1, <2>3 DEF Uses
<1>3. PICK s : s = Worth(list, parse, taken)
  OBVIOUS
<1>4. s = [a \in 1 .. m |-> Uses(parse, taken, a) * (list[a].cost - 2)]
  BY <1>1, <1>3, Zenon DEF Worth
<1>5. ASSUME NEW a \in 1 .. m PROVE s[a] \in Int
  <2>1. PICK u \in Nat, c \in Nat : u = Uses(parse, taken, a) /\ c = list[a].cost
    BY <1>1, <1>2
  <2>2. u * (c - 2) \in Int
    OBVIOUS
  <2>3. s[a] = u * (c - 2)
    BY <1>4, <2>1, Zenon
  <2> QED BY <2>2, <2>3
<1>6. s = [a \in 1 .. m |-> s[a]]
  BY <1>4
<1>7. Numbers(s, m)
  BY <1>1, <1>5, <1>6, NumbersFrom
<1>8. Total(s) \in Int
  BY <1>7, TotalSums
<1> QED BY <1>2, <1>3, <1>7, <1>8, Zenon

(* A position more is worth what its abbreviation saves.                   *)
LEMMA WorthMore ==
  ASSUME NEW alpha, NEW list, NEW m, Priced(alpha, list, m), NEW parse, NEW taken, IsFiniteSet(taken),
         NEW i, i \notin taken, NEW j \in 1 .. m, parse[i].pick = j
  PROVE  Total(Worth(list, parse, taken \union {i})) = Total(Worth(list, parse, taken)) + (list[j].cost - 2)
<1>1. m \in Nat /\ DOMAIN list = 1 .. m /\ \A a \in 1 .. m : list[a].cost \in Nat
  BY DEF Priced
<1>2. PICK more : more = taken \union {i} /\ IsFiniteSet(more)
  BY FS_AddElement
<1>3. PICK s, u : s = Worth(list, parse, taken) /\ u = Worth(list, parse, more)
  OBVIOUS
<1>4. PICK x \in Int : x = list[j].cost - 2
  BY <1>1
<1>5. PICK t : t = [a \in 1 .. m |-> IF a = j THEN x ELSE 0]
  OBVIOUS
<1>6. Numbers(s, m) /\ Numbers(u, m)
  BY <1>2, <1>3, WorthNumbers
<1>7. Numbers(t, m) /\ Only(t, m, j, x)
  <2>1. t = [a \in 1 .. m |-> t[a]] /\ \A a \in 1 .. m : t[a] \in Int /\ t[a] = IF a = j THEN x ELSE 0
    BY <1>5
  <2> QED BY <1>1, <2>1, NumbersFrom DEF Only
<1>8. ASSUME NEW a \in 1 .. m PROVE u[a] = s[a] + t[a]
  <2>1. PICK v \in Nat, w \in Nat, c \in Nat : v = Uses(parse, taken, a) /\ w = Uses(parse, more, a) /\ c = list[a].cost
    <3>1. Uses(parse, taken, a) \in Nat /\ Uses(parse, more, a) \in Nat
      BY <1>2, WorthNumbers
    <3> QED BY <1>1, <3>1
  <2>2. s[a] = v * (c - 2) /\ u[a] = w * (c - 2)
    BY <1>1, <1>3, <2>1, Zenon DEF Worth
  <2>3. PICK S, T : S = {k \in taken : parse[k].pick = a} /\ T = {k \in more : parse[k].pick = a}
    OBVIOUS
  <2>4. IsFiniteSet(S) /\ i \notin S
    <3>1. S \subseteq taken
      BY <2>3
    <3> QED BY <3>1, FS_Subset
  <2>5. v = Cardinality(S) /\ w = Cardinality(T)
    BY <2>1, <2>3, Zenon DEF Uses
  <2>6. CASE a = j
    <3>1. T = S \union {i}
      BY <1>2, <2>3, <2>6
    <3>2. w = v + 1
      BY <2>4, <2>5, <3>1, FS_AddElement
    <3>3. w * (c - 2) = v * (c - 2) + (c - 2)
      BY <3>2
    <3>4. t[a] = c - 2
      BY <1>4, <1>5, <2>1, <2>6
    <3> QED BY <2>2, <3>3, <3>4, Zenon
  <2>7. CASE a # j
    <3>1. T = S
      BY <1>2, <2>3, <2>7
    <3>2. t[a] = 0 /\ w = v
      BY <1>5, <2>5, <2>7, <3>1
    <3>3. PICK y \in Int : y = v * (c - 2)
      OBVIOUS
    <3>4. y = y + 0
      OBVIOUS
    <3> QED BY <2>2, <3>2, <3>3, <3>4, Zenon
  <2> QED BY <2>6, <2>7
<1>9. Total(u) = Total(s) + Total(t)
  BY <1>6, <1>7, <1>8, TotalOfSums
<1>10. Total(t) = x
  BY <1>7, TotalSingle
<1> QED BY <1>2, <1>3, <1>4, <1>9, <1>10, Zenon

\* A key in its place in a text of n characters, from i up to the one before another.
Placed(text, n, c, l, i, to) ==
  /\ text \in Seq(Int) /\ n \in Nat /\ n = Len(text) /\ i \in 1 .. n
  /\ c \in Seq(Int) /\ l \in Nat \ {0} /\ l = Len(c) /\ IsAt(text, c, i) /\ to = i + l

\* It costs what the text costs there.
Passes(alpha, text, n, c, i, to) ==
  /\ to \in i + 1 .. n + 1
  /\ ZstringCost(alpha, SubSeq(text, 1, to - 1))
     = ZstringCost(alpha, SubSeq(text, 1, i - 1)) + ZstringCost(alpha, c)

(* A key in its place costs what the text costs there.                     *)
LEMMA PlacedCost ==
  ASSUME NEW alpha, NEW text, NEW n, NEW c, NEW l, NEW i, NEW to, Placed(text, n, c, l, i, to)
  PROVE  Passes(alpha, text, n, c, i, to)
<1>0. /\ text \in Seq(Int) /\ n \in Nat /\ n = Len(text) /\ i \in 1 .. n
      /\ c \in Seq(Int) /\ l \in Nat \ {0} /\ l = Len(c) /\ to = i + l
  BY DEF Placed
<1>1. i + l - 1 <= n /\ \A k \in 1 .. l : text[i + k - 1] = c[k]
  BY Zenon DEF IsAt, Placed
<1>2. PICK m \in Nat, e \in Nat : /\ m = i - 1 /\ e = to - 1 /\ e <= n /\ to \in i + 1 .. n + 1 /\ IsSum(e, m, l)
  <2>1. i - 1 \in Nat /\ to - 1 = (i - 1) + l /\ to - 1 \in Nat /\ to - 1 <= n /\ to \in i + 1 .. n + 1
    BY <1>0, <1>1
  <2> QED BY <2>1 DEF IsSum
<1>3. Behind(text, m, c, l)
  <2>1. ASSUME NEW j \in 1 .. l PROVE text[m + j] = c[j]
    <3>1. i + j - 1 = m + j
      BY <1>0, <1>2
    <3> QED BY <1>0, <1>1, <3>1
  <2> QED BY <2>1 DEF Behind
<1>4. SubSeq(text, 1, m) \o c = SubSeq(text, 1, e)
  <2>1. l \in Nat /\ e <= Len(text) /\ IsSum(e, m, l)
    BY <1>0, <1>2
  <2>2. text \in Seq(Int) /\ c \in Seq(Int) /\ l = Len(c)
    BY <1>0
  <2>3. Grows(text, m, c, l, e)
    BY <1>3, <2>1, <2>2, Zenon DEF Grows
  <2>4. Grown(text, m, c, e)
    BY <2>3, PrefixGrows, Zenon
  <2> QED BY <2>4, Zenon DEF Grown
<1>5. SubSeq(text, 1, m) \in Seq(Int)
  <2>1. 1 \in Nat \ {0} /\ m <= Len(text) /\ 1 <= m + 1
    BY <1>0, <1>2
  <2> QED BY ONLY <1>0, m \in Nat, <2>1, SubSeqFacts
<1>6. PICK s : s = SubSeq(text, 1, m) /\ s \in Seq(Int)
  BY <1>5
<1>7. ZstringCost(alpha, s \o c) = ZstringCost(alpha, s) + ZstringCost(alpha, c)
  BY <1>0, <1>6, CostConcat
<1> QED BY <1>2, <1>4, <1>6, <1>7, Zenon DEF Passes

\* What has been gone through of a parse, up to a position that it comes to, where k is
\* the last that was looked at.
TakenTo(alpha, text, n, list, parse, k, at, st) ==
  /\ at \in k + 1 .. n + 1
  /\ st.next \in 1 .. at /\ (at # k + 1 => st.next = at)
  /\ st.taken \subseteq 1 .. k /\ IsFiniteSet(st.taken)
  /\ Total(Worth(list, parse, st.taken)) + parse[1].cost = ZstringCost(alpha, SubSeq(text, 1, at - 1)) + parse[at].cost

\* There is such a position.
TakenUpTo(alpha, text, n, list, parse, k, st) == \E at : TakenTo(alpha, text, n, list, parse, k, at, st)

(* The costs in a parse are numbers.                                       *)
LEMMA ParsedCosts ==
  ASSUME NEW alpha, NEW text, NEW list, NEW line, NEW n, NEW parse,
         Printable(alpha, text, list, line, n, parse), NEW i \in 1 .. n + 1
  PROVE  parse[i].cost \in Nat
<1>1. PICK R : R = [cost : Nat, pick : 0 .. Len(list)]
  OBVIOUS
<1>2. parse \in Seq(R) /\ i \in DOMAIN parse
  BY <1>1, Zenon DEF Printable, IsParse
<1>3. parse[i] \in R
  BY ONLY <1>2, SeqFacts
<1> QED BY <1>1, <1>3

(* The texts that begin a text cost numbers.                               *)
LEMMA BeginningCosts ==
  ASSUME NEW alpha, NEW text \in Seq(Int), NEW m \in Nat, m <= Len(text)
  PROVE  ZstringCost(alpha, SubSeq(text, 1, m)) \in Nat
<1>1. PICK s : s = SubSeq(text, 1, m)
  OBVIOUS
<1>2. s \in Seq(Int)
  <2>1. 1 \in Nat \ {0} /\ 1 <= m + 1
    OBVIOUS
  <2> QED BY ONLY text \in Seq(Int), m \in Nat, m <= Len(text), <1>1, <2>1, SubSeqFacts
<1> QED BY <1>1, <1>2, CostTotal

(* A position at which the parse takes a character, or an abbreviation.    *)
LEMMA TakenStepFacts ==
  ASSUME NEW alpha, NEW text, NEW list, NEW line, NEW n, NEW parse,
         Printable(alpha, text, list, line, n, parse), NEW m, Priced(alpha, list, m),
         NEW i \in 1 .. n, NEW st, NEW at, TakenTo(alpha, text, n, list, parse, i - 1, at, st),
         NEW par, par.parse = parse, par.list = list
  PROVE  TakenUpTo(alpha, text, n, list, parse, i, TakenStep(par, st, i))
<1>1. n \in Nat /\ n = Len(text) /\ text \in Seq(Int) /\ i \in Nat
  BY DEF Printable
<1>2. at \in i .. n + 1 /\ (at # i => st.next = at)
  <2>1. i - 1 + 1 = i
    BY <1>1
  <2> QED BY <2>1, Zenon DEF TakenTo
<1>3. PICK next : next = st.next /\ next \in 1 .. at
  BY Zenon DEF TakenTo
<1>4. PICK taken : taken = st.taken /\ taken \subseteq 1 .. i - 1 /\ IsFiniteSet(taken)
  BY Zenon DEF TakenTo
<1>5. taken \subseteq 1 .. i
  BY <1>1, <1>4
<1>6. Total(Worth(list, parse, taken)) + parse[1].cost = ZstringCost(alpha, SubSeq(text, 1, at - 1)) + parse[at].cost
  BY <1>4, Zenon DEF TakenTo
<1>7. CASE at # i
  <2>1. i < next /\ next = at /\ at \in i + 1 .. n + 1
    BY <1>1, <1>2, <1>3, <1>7
  <2>2. TakenStep(par, st, i) = st
    BY <1>3, <2>1, Zenon DEF TakenStep
  <2>3. TakenTo(alpha, text, n, list, parse, i, at, st)
    BY <1>3, <1>4, <1>5, <1>6, <2>1, Zenon DEF TakenTo
  <2> QED BY <2>2, <2>3, Zenon DEF TakenUpTo
<1>8. CASE at = i
  <2>1. ~(i < next) /\ next \in 1 .. i
    BY <1>1, <1>3, <1>8
  <2>2. IsParse(alpha, text, list, line, n, parse)
    BY Zenon DEF Printable
  <2>3. \/ parse[i].pick = 0 /\ parse[i].cost = parse[i + 1].cost + ZcharCost(alpha, text[i])
        \/ /\ parse[i].pick \in DOMAIN list /\ i \in list[parse[i].pick].occurrences[line]
           /\ parse[i].cost = ReferenceCost + parse[i + Len(list[parse[i].pick].key)].cost
    BY <2>2, Zenon DEF IsParse
  <2>4. PICK w \in Int, c1 \in Nat, ci \in Nat, b \in Nat :
          w = Total(Worth(list, parse, taken)) /\ c1 = parse[1].cost /\ ci = parse[i].cost
          /\ b = ZstringCost(alpha, SubSeq(text, 1, i - 1))
    <3>1. Total(Worth(list, parse, taken)) \in Int
      BY <1>4, WorthNumbers
    <3>2. 1 \in 1 .. n + 1 /\ i \in 1 .. n + 1 /\ i - 1 \in Nat /\ i - 1 <= Len(text)
      BY <1>1
    <3>3. parse[1].cost \in Nat /\ parse[i].cost \in Nat
      BY <3>2, ParsedCosts
    <3>4. ZstringCost(alpha, SubSeq(text, 1, i - 1)) \in Nat
      BY <1>1, <3>2, BeginningCosts
    <3> QED BY <3>1, <3>3, <3>4, Zenon
  <2>5. w + c1 = b + ci
    BY <1>6, <1>8, <2>4, Zenon
  <2>6. CASE parse[i].pick = 0
    <3>1. parse[i].cost = parse[i + 1].cost + ZcharCost(alpha, text[i])
      <4>1. 0 \notin DOMAIN list
        BY Zenon DEF Printable
      <4> QED BY <2>3, <2>6, <4>1, Zenon
    <3>2. PICK c : c = <<text[i]>>
      OBVIOUS
    <3>3. Len(c) = 1 /\ c[1] = text[i] /\ c \in Seq(Int)
      BY <1>1, <3>2
    <3>4. IsAt(text, c, i)
      <4>1. i + 1 - 1 <= Len(text)
        BY <1>1
      <4>2. \A k \in 1 .. 1 : text[i + k - 1] = c[k]
        BY <1>1, <3>3
      <4> QED BY <3>3, <4>1, <4>2 DEF IsAt
    <3>5. PICK l \in Nat \ {0} : l = 1
      OBVIOUS
    <3>6. PICK to : to = i + l
      OBVIOUS
    <3>7. l = Len(c)
      BY <3>3, <3>5, Zenon
    <3>8. /\ to \in i + 1 .. n + 1
          /\ ZstringCost(alpha, SubSeq(text, 1, to - 1))
             = ZstringCost(alpha, SubSeq(text, 1, i - 1)) + ZstringCost(alpha, c)
      <4>1. Placed(text, n, c, l, i, to)
        BY <1>1, <3>3, <3>4, <3>6, <3>7, Zenon DEF Placed
      <4>2. Passes(alpha, text, n, c, i, to)
        BY <4>1, PlacedCost, Zenon
      <4> QED BY <4>2, Zenon DEF Passes
    <3>9. PICK x \in Nat, z \in Nat : x = parse[to].cost /\ z = ZcharCost(alpha, text[i])
      <4>1. to \in 1 .. n + 1
        BY <1>1, <3>8
      <4>2. ZcharCost(alpha, text[i]) \in {1, 2, 4}
        BY CharCost
      <4>3. ZcharCost(alpha, text[i]) \in Nat
        BY <4>2
      <4> QED BY <4>1, <4>3, ParsedCosts
    <3>10. ZstringCost(alpha, c) = z
      BY <3>2, <3>9, CostOne, Zenon
    <3>11. ci = x + z
      BY <2>4, <3>1, <3>5, <3>6, <3>9, Zenon
    <3>12. w + c1 = (b + z) + x
      BY <2>5, <3>11
    <3>13. Total(Worth(list, parse, taken)) + parse[1].cost = ZstringCost(alpha, SubSeq(text, 1, to - 1)) + parse[to].cost
      BY <2>4, <3>8, <3>9, <3>10, <3>12, Zenon
    <3>14. to = i + 1 /\ next \in 1 .. to
      <4>1. to = i + 1
        BY <3>5, <3>6
      <4> QED BY <1>1, <2>1, <4>1
    <3>15. TakenTo(alpha, text, n, list, parse, i, to, st)
      BY <1>3, <1>4, <1>5, <3>8, <3>13, <3>14, Zenon DEF TakenTo
    <3>16. TakenStep(par, st, i) = st
      BY <2>6, Zenon DEF TakenStep
    <3> QED BY <3>15, <3>16, Zenon DEF TakenUpTo
  <2>7. CASE parse[i].pick # 0
    <3>1. PICK a : a = parse[i].pick /\ a \in DOMAIN list /\ i \in list[a].occurrences[line]
                   /\ parse[i].cost = ReferenceCost + parse[i + Len(list[a].key)].cost
      BY <2>3, <2>7, Zenon
    <3>2. PICK c : c = list[a].key
      OBVIOUS
    <3>3. c \in Seq(Int) /\ IsAt(text, c, i) /\ Len(c) \in Nat \ {0}
      BY <3>1, <3>2, Zenon DEF Printable, Fits
    <3>4. PICK l \in Nat \ {0} : l = Len(c)
      BY <3>3, Zenon
    <3>5. PICK to : to = i + l
      OBVIOUS
    <3>6. /\ to \in i + 1 .. n + 1
          /\ ZstringCost(alpha, SubSeq(text, 1, to - 1))
             = ZstringCost(alpha, SubSeq(text, 1, i - 1)) + ZstringCost(alpha, c)
      <4>1. Placed(text, n, c, l, i, to)
        BY <1>1, <3>3, <3>4, <3>5, Zenon DEF Placed
      <4>2. Passes(alpha, text, n, c, i, to)
        BY <4>1, PlacedCost, Zenon
      <4> QED BY <4>2, Zenon DEF Passes
    <3>7. PICK x \in Nat, z \in Nat : x = parse[to].cost /\ z = list[a].cost /\ z = ZstringCost(alpha, c)
      <4>1. to \in 1 .. n + 1
        BY <1>1, <3>6
      <4>2. list[a].cost \in Nat /\ list[a].cost = ZstringCost(alpha, list[a].key)
        BY <3>1, Zenon DEF Priced
      <4>3. parse[to].cost \in Nat
        BY <4>1, ParsedCosts
      <4> QED BY <3>2, <4>2, <4>3, Zenon
    <3>8. PICK more : more = taken \union {i}
      OBVIOUS
    <3>9. i \notin taken /\ more \subseteq 1 .. i /\ IsFiniteSet(more)
      <4>1. i \notin 1 .. i - 1 /\ i \in 1 .. i
        BY <1>1
      <4> QED BY <1>4, <1>5, <3>8, <4>1, FS_AddElement
    <3>10. a \in 1 .. m
      BY <3>1, Zenon DEF Priced
    <3>11. Total(Worth(list, parse, more)) = Total(Worth(list, parse, taken)) + (list[a].cost - 2)
      BY <1>4, <3>1, <3>8, <3>9, <3>10, WorthMore
    <3>12. PICK v : v = Total(Worth(list, parse, more))
      OBVIOUS
    <3>13. v = w + (z - 2)
      BY <2>4, <3>7, <3>11, <3>12, Zenon
    <3>14. ci = 2 + x
      <4>1. ReferenceCost = 2
        BY DEF ReferenceCost
      <4> QED BY <2>4, <3>1, <3>2, <3>4, <3>5, <3>7, <4>1, Zenon
    <3>15. v + c1 = (b + z) + x
      BY <2>5, <3>13, <3>14
    <3>16. Total(Worth(list, parse, more)) + parse[1].cost = ZstringCost(alpha, SubSeq(text, 1, to - 1)) + parse[to].cost
      BY <2>4, <3>6, <3>7, <3>12, <3>15, Zenon
    <3>17. PICK new : new = [next |-> to, taken |-> more]
      OBVIOUS
    <3>18. new.next = to /\ new.taken = more
      BY <3>17
    <3>19. to \in 1 .. to
      BY <1>1, <3>6
    <3>20. TakenTo(alpha, text, n, list, parse, i, to, new)
      BY <3>6, <3>9, <3>16, <3>18, <3>19, Zenon DEF TakenTo
    <3>21. TakenStep(par, st, i) = new
      <4>1. TakenStep(par, st, i) = [next |-> i + Len(list[parse[i].pick].key), taken |-> st.taken \union {i}]
        BY <1>3, <2>1, <2>7, Zenon DEF TakenStep
      <4> QED BY <1>4, <3>1, <3>2, <3>4, <3>5, <3>8, <3>17, <4>1, Zenon
    <3> QED BY <3>20, <3>21, Zenon DEF TakenUpTo
  <2> QED BY <2>6, <2>7
<1> QED BY <1>7, <1>8

(* What is taken of a text is worth what the text is shortened by.         *)
LEMMA TakenWorth ==
  ASSUME NEW alpha, NEW text, NEW list, NEW line, NEW n, NEW parse,
         Printable(alpha, text, list, line, n, parse), NEW m, Priced(alpha, list, m)
  PROVE  Total(Worth(list, parse, Taken(parse, list))) + parse[1].cost = ZstringCost(alpha, text)
<1>1. n \in Nat /\ n = Len(text) /\ text \in Seq(Int)
  BY DEF Printable
<1>2. IsParse(alpha, text, list, line, n, parse)
  BY Zenon DEF Printable
<1>3. PICK par, base, end : /\ par = [parse |-> parse, list |-> list]
                            /\ base = [next |-> 1, taken |-> {}]
                            /\ end = Folding("taken", par, base, PlacesOf(parse))[DOMAIN PlacesOf(parse)]
  OBVIOUS
<1>4. par.parse = parse /\ par.list = list /\ base.next = 1 /\ base.taken = {}
  BY <1>3
<1>5. Taken(parse, list) = end.taken
  BY <1>3, TakenFold, Zenon
<1>6. PICK R : R = [cost : Nat, pick : 0 .. Len(list)] /\ parse \in Seq(R) /\ Len(parse) = n + 1
  BY <1>2, Zenon DEF IsParse
<1>7. PICK f : Goes("taken", par, base, Len(parse), f, end)
  BY ONLY <1>3, <1>6, UnrolledPlaces
<1>8. f[0] = base /\ f[n + 1] = end /\ \A k \in 1 .. n + 1 : f[k] = TakenStep(par, f[k - 1], k)
  <2>1. f[0] = base /\ f[n + 1] = end /\ \A k \in 1 .. n + 1 : f[k] = StepOf("taken", par, f[k - 1], k)
    BY <1>6, <1>7, Zenon DEF Goes
  <2>2. \A k : StepOf("taken", par, f[k - 1], k) = TakenStep(par, f[k - 1], k)
    BY DEF StepOf
  <2> QED BY <2>1, <2>2, Zenon
<1> DEFINE G == {k \in 0 .. n : TakenUpTo(alpha, text, n, list, parse, k, f[k])}
<1>9. 0 \in G
  <2>1. 0 \in 0 .. n /\ 1 \in 1 .. n + 1 /\ 1 \in 0 + 1 .. n + 1 /\ 1 \in 1 .. 1 /\ 0 + 1 = 1
        /\ IsFiniteSet({}) /\ {} \subseteq 1 .. 0
    BY <1>1, FS_EmptySet
  <2>2. PICK c \in Nat : c = parse[1].cost
    BY <2>1, ParsedCosts
  <2>3. Total(Worth(list, parse, {})) = 0
    <3>1. Numbers(Worth(list, parse, {}), m)
      BY <2>1, WorthNumbers
    <3>2. ASSUME NEW a \in 1 .. m PROVE Worth(list, parse, {})[a] = 0
      <4>1. Uses(parse, {}, a) = 0
        <5>1. {i \in {} : parse[i].pick = a} = {}
          OBVIOUS
        <5> QED BY <5>1, FS_EmptySet DEF Uses
      <4>2. PICK x \in Nat : x = list[a].cost
        BY DEF Priced
      <4>3. 0 * (x - 2) = 0
        OBVIOUS
      <4>4. Worth(list, parse, {})[a] = Uses(parse, {}, a) * (list[a].cost - 2)
        BY Zenon DEF Worth, Priced
      <4> QED BY <4>1, <4>2, <4>3, <4>4, Zenon
    <3> QED BY <3>1, <3>2, TotalZeros
  <2>4. ZstringCost(alpha, SubSeq(text, 1, 1 - 1)) = 0
    <3>1. SubSeq(text, 1, 1 - 1) = <<>>
      BY <1>1
    <3> QED BY <3>1, CostOne, Zenon
  <2>5. 0 + c = 0 + c
    OBVIOUS
  <2>6. TakenTo(alpha, text, n, list, parse, 0, 1, base)
    BY <1>4, <2>1, <2>2, <2>3, <2>4, Zenon DEF TakenTo
  <2>7. TakenUpTo(alpha, text, n, list, parse, 0, f[0])
    BY <1>8, <2>6, Zenon DEF TakenUpTo
  <2> QED BY <2>1, <2>7
<1>10. ASSUME NEW k \in 1 .. n, k - 1 \in G PROVE k \in G
  <2>1. k \in 0 .. n /\ k \in 1 .. n + 1
    BY <1>1
  <2>2. PICK st : st = f[k - 1]
    OBVIOUS
  <2>3. TakenUpTo(alpha, text, n, list, parse, k - 1, st)
    BY <1>10, <2>2
  <2>4. PICK at : TakenTo(alpha, text, n, list, parse, k - 1, at, st)
    BY <2>3, Zenon DEF TakenUpTo
  <2>5. TakenUpTo(alpha, text, n, list, parse, k, TakenStep(par, st, k))
    BY <1>4, <2>4, TakenStepFacts
  <2>6. f[k] = TakenStep(par, st, k)
    BY <1>8, <2>1, <2>2, Zenon
  <2> QED BY <2>1, <2>5, <2>6
<1>11. \A k \in 0 .. n : k \in G
  <2> HIDE DEF G
  <2> QED BY <1>1, <1>9, <1>10, BoundedInduction
<1>12. PICK st : st = f[n] /\ TakenUpTo(alpha, text, n, list, parse, n, st)
  <2>1. n \in G
    <3> HIDE DEF G
    <3>1. n \in 0 .. n
      BY <1>1
    <3> QED BY <1>11, <3>1
  <2>2. TakenUpTo(alpha, text, n, list, parse, n, f[n])
    BY <2>1
  <2> QED BY <2>2, Zenon
<1>13. PICK at : TakenTo(alpha, text, n, list, parse, n, at, st)
  BY <1>12, Zenon DEF TakenUpTo
<1>14. at = n + 1 /\ at - 1 = n
  <2>1. at \in n + 1 .. n + 1
    BY <1>13, Zenon DEF TakenTo
  <2> QED BY <1>1, <2>1
<1>15. end = st
  <2>1. n + 1 \in 1 .. n + 1 /\ (n + 1) - 1 = n
    BY <1>1
  <2>2. end = TakenStep(par, st, n + 1)
    <3>1. f[n + 1] = TakenStep(par, f[(n + 1) - 1], n + 1)
      BY <1>8, <2>1, Zenon
    <3>2. f[(n + 1) - 1] = st
      BY <1>12, <2>1, Zenon
    <3> QED BY <1>8, <3>1, <3>2, Zenon
  <2>3. parse[n + 1].pick = 0
    BY <1>2, Zenon DEF IsParse
  <2> QED BY <1>4, <2>2, <2>3, Zenon DEF TakenStep
<1>16. SubSeq(text, 1, n) = text
  BY <1>1
<1>17. Total(Worth(list, parse, Taken(parse, list))) + parse[1].cost = ZstringCost(alpha, text) + parse[n + 1].cost
  BY <1>5, <1>13, <1>14, <1>15, <1>16, Zenon DEF TakenTo
<1>18. parse[n + 1].cost = 0
  BY <1>2, Zenon DEF IsParse
<1>19. PICK z \in Nat : z = ZstringCost(alpha, text)
  BY <1>1, CostTotal
<1>20. z + 0 = z
  OBVIOUS
<1> QED BY <1>17, <1>18, <1>19, <1>20, Zenon

(* A total of multiples.                                                   *)
LEMMA TotalTimes ==
  ASSUME NEW n, NEW s, NEW t, Numbers(s, n), Numbers(t, n), NEW c \in Int, \A i \in 1 .. n : t[i] = s[i] * c
  PROVE  Total(t) = Total(s) * c
<1>1. PICK f : Sums(s, n, f) /\ f[n] = Total(s)
  BY TotalSums
<1>2. PICK g : Sums(t, n, g) /\ g[n] = Total(t)
  BY TotalSums
<1>3. n \in Nat /\ \A i \in 1 .. n : s[i] \in Int /\ t[i] \in Int
  BY DEF Numbers
<1> DEFINE G == {k \in 0 .. n : g[k] = f[k] * c}
<1>4. 0 \in G
  <2>1. f[0] = 0 /\ g[0] = 0 /\ 0 \in 0 .. n
    BY <1>1, <1>2, <1>3 DEF Sums
  <2> QED BY <2>1
<1>5. ASSUME NEW k \in 1 .. n, k - 1 \in G PROVE k \in G
  <2>1. PICK x \in Int, y \in Int, z \in Int : x = f[k - 1] /\ y = s[k] /\ z = f[k]
    BY <1>1, <1>3 DEF Sums
  <2>2. z = x + y
    BY <1>1, <2>1, Zenon DEF Sums
  <2>3. g[k] = x * c + y * c
    <3>1. g[k - 1] = f[k - 1] * c
      BY <1>5
    <3>2. g[k] = g[k - 1] + t[k]
      BY <1>2, Zenon DEF Sums
    <3> QED BY <2>1, <3>1, <3>2, Zenon
  <2>4. z * c = x * c + y * c
    BY <2>2
  <2>5. k \in 0 .. n
    BY <1>3
  <2> QED BY <2>1, <2>3, <2>4, <2>5, Zenon
<1>6. \A k \in 0 .. n : k \in G
  <2> HIDE DEF G
  <2> QED BY <1>3, <1>4, <1>5, BoundedInduction
<1>7. n \in 0 .. n
  BY <1>3
<1> QED BY <1>1, <1>2, <1>6, <1>7, Zenon

\* How often an abbreviation is taken in a text, and what they all save in it.
Count(left, a) == Cardinality({i \in left.taken : left.picked[i] = a})
Saved(left) == [a \in DOMAIN SeenAtEnd |-> Count(left, a) * (SeenAtEnd[a].cost - 2)]

(* The costs of the last list are those of its keys.                       *)
LEMMA EndPriced ==
  ASSUME SearchOK
  PROVE  Priced(settings.alpha, SeenAtEnd, Len(best)) /\ DOMAIN best = 1 .. Len(best) /\ Len(best) \in Nat
<1>1. PICK m \in Nat : m = Len(best) /\ DOMAIN best = 1 .. m
  BY DEF SearchOK, Lists
<1>2. \A a \in DOMAIN best : SeenAtEnd[a].cost = ZstringCost(settings.alpha, SeenAtEnd[a].key)
                             /\ SeenAtEnd[a].key \in Seq(Int)
  <2>1. PICK keys : keys = KeysOf(pats, best)
    OBVIOUS
  <2>2. \A a \in DOMAIN best : keys[a] \in Seq(Int) \ {<<>>} /\ DOMAIN keys = DOMAIN best
    BY <2>1, EndList, Zenon
  <2>3. SeenAtEnd = [a \in DOMAIN keys |-> [key |-> keys[a], cost |-> ZstringCost(settings.alpha, keys[a]),
                                            occurrences |-> Occurrences(Texts, keys[a])]]
    BY <2>1, Zenon DEF SeenAtEnd, SeenOf
  <2>4. ASSUME NEW a \in DOMAIN best
        PROVE  SeenAtEnd[a].cost = ZstringCost(settings.alpha, SeenAtEnd[a].key) /\ SeenAtEnd[a].key \in Seq(Int)
    <3>1. PICK key, c, o : /\ key = keys[a] /\ c = ZstringCost(settings.alpha, keys[a])
                           /\ o = Occurrences(Texts, keys[a])
      OBVIOUS
    <3>2. SeenAtEnd[a] = [key |-> key, cost |-> c, occurrences |-> o]
      BY <2>2, <2>3, <3>1, Zenon
    <3>3. SeenAtEnd[a].key = key /\ SeenAtEnd[a].cost = c
      BY <3>2
    <3>4. key \in Seq(Int)
      BY <2>2, <3>1
    <3> QED BY <3>1, <3>3, <3>4, Zenon
  <2> QED BY <2>4
<1>3. ASSUME NEW a \in 1 .. m
      PROVE  SeenAtEnd[a].cost = ZstringCost(settings.alpha, SeenAtEnd[a].key) /\ SeenAtEnd[a].cost \in Nat
  <2>1. PICK key \in Seq(Int) : key = SeenAtEnd[a].key
    BY <1>1, <1>2
  <2>2. ZstringCost(settings.alpha, key) \in Nat
    BY <2>1, CostTotal
  <2> QED BY <1>1, <1>2, <2>1, <2>2, Zenon
<1>4. DOMAIN SeenAtEnd = 1 .. m
  BY <1>1, EndList
<1> QED BY <1>1, <1>3, <1>4, Zenon DEF Priced

(* What is taken of a text shortens it to what the parse says.             *)
LEMMA EndWorth ==
  ASSUME SearchOK, LastParse, NEW t \in DOMAIN Texts
  PROVE  /\ Total(Saved(parses[t])) + parses[t].minimal = ZstringCost(settings.alpha, Texts[t].text)
         /\ IsFiniteSet(parses[t].taken) /\ parses[t].minimal \in Nat
         /\ ZstringCost(settings.alpha, Texts[t].text) \in Nat
         /\ Numbers(Saved(parses[t]), Len(best))
<1>1. PICK parse : Underlies(t, parse)
  BY EndParses
<1>2. PICK n, text, m, left : n = Len(Texts[t].text) /\ text = Texts[t].text /\ m = Len(best) /\ left = parses[t]
  OBVIOUS
<1>3. Printable(settings.alpha, text, SeenAtEnd, t, n, parse) /\ left = LeftInLine(Texts[t], SeenAtEnd, parse)
      /\ Shows(left, PatternsOfList(pats, best), SeenAtEnd, parse, n)
  BY <1>1, <1>2, Zenon DEF Underlies
<1>4. n \in Nat /\ text \in Seq(Int) /\ IsParse(settings.alpha, text, SeenAtEnd, t, n, parse)
  BY <1>3, Zenon DEF Printable
<1>5. PICK taken : taken = Taken(parse, SeenAtEnd)
  OBVIOUS
<1>6. left.taken = taken /\ left.minimal = parse[1].cost
  BY <1>3, <1>5 DEF LeftInLine
<1>7. IsFiniteSet(taken) /\ taken \subseteq 1 .. n
  <2>1. PICK R : R = [cost : Nat, pick : 0 .. Len(SeenAtEnd)] /\ parse \in Seq(R) /\ Len(parse) = n + 1
    BY <1>4, Zenon DEF IsParse
  <2>2. taken \subseteq {i \in 1 .. n + 1 : parse[i].pick # 0} /\ IsFiniteSet(taken)
    BY ONLY <1>5, <2>1, TakenFacts
  <2>3. parse[n + 1].pick = 0
    BY <1>4, Zenon DEF IsParse
  <2> QED BY <1>4, <2>2, <2>3
<1>8. Priced(settings.alpha, SeenAtEnd, m)
  BY <1>2, EndPriced
<1>9. Saved(left) = Worth(SeenAtEnd, parse, taken)
  <2>1. ASSUME NEW a PROVE Count(left, a) = Uses(parse, taken, a)
    <3>1. ASSUME NEW i \in taken PROVE left.picked[i] = parse[i].pick
      BY <1>3, <1>7 DEF Shows
    <3>2. {i \in taken : left.picked[i] = a} = {i \in taken : parse[i].pick = a}
      BY <3>1
    <3> QED BY <1>6, <3>2, Zenon DEF Count, Uses
  <2> QED BY <2>1, Zenon DEF Saved, Worth
<1>10. Total(Worth(SeenAtEnd, parse, taken)) + parse[1].cost = ZstringCost(settings.alpha, text)
  BY <1>3, <1>5, <1>8, TakenWorth
<1>11. parse[1].cost \in Nat
  <2>1. 1 \in 1 .. n + 1
    BY <1>4
  <2> QED BY <1>3, <2>1, ParsedCosts
<1>12. ZstringCost(settings.alpha, text) \in Nat
  BY <1>4, CostTotal
<1>13. Numbers(Worth(SeenAtEnd, parse, taken), m)
  BY <1>7, <1>8, WorthNumbers
<1> QED BY <1>2, <1>6, <1>7, <1>9, <1>10, <1>11, <1>12, <1>13, Zenon

\* What each abbreviation saves in each text.
SavedTable(m, n) == [a \in 1 .. m |-> [t \in 1 .. n |-> Saved(parses[t])[a]]]

(* The savings reported are what the texts shrink by, less the abbreviations. *)
THEOREM SavingsHold ==
  Spec => []SavingsTrue
<1>1. IInv /\ Printed => SavingsTrue
  <2> SUFFICES ASSUME IInv, Printed, phase = "done", ~settings.onlyRefactor
               PROVE  savings = Total([t \in DOMAIN Texts |->
                                        ZstringCost(settings.alpha, Texts[t].text) - parses[t].minimal])
                                - Total([a \in DOMAIN best |-> RoundUpTo(pats[best[a]].cost, 3)])
    BY Zenon DEF SavingsTrue
  <2>1. SearchOK /\ LastParse /\ LastScores /\ LastSavings
    BY DEF IInv, Printed, Reported
  <2>2. PICK n \in Nat : DOMAIN Texts = 1 .. n
    <3>1. Readable(Texts)
      BY <2>1 DEF SearchOK, ReadOK
    <3>2. PICK R : R = Range(Texts)
      OBVIOUS
    <3>3. Texts \in Seq(R)
      BY <3>1, <3>2, Zenon DEF Readable
    <3>4. Len(Texts) \in Nat /\ DOMAIN Texts = 1 .. Len(Texts)
      BY ONLY <3>3, SeqFacts
    <3> QED BY <3>4
  <2>3. PICK m \in Nat : m = Len(best) /\ DOMAIN best = 1 .. m /\ Priced(settings.alpha, SeenAtEnd, m)
    BY <2>1, EndPriced
  <2>4. DOMAIN SeenAtEnd = 1 .. m /\ \A a \in 1 .. m : SeenAtEnd[a].cost \in Nat /\ SeenAtEnd[a].cost = pats[best[a]].cost
    <3>1. \A a \in 1 .. m : SeenAtEnd[a].cost = pats[best[a]].cost
      BY <2>1, <2>3, EndList, Zenon
    <3> QED BY <2>3, <3>1, Zenon DEF Priced
  <2>5. DOMAIN parses = 1 .. n /\ Finite(parses, n)
    <3>1. Readable(Texts)
      BY <2>1 DEF SearchOK, ReadOK
    <3>2. DOMAIN parses = DOMAIN Texts
      BY <2>1, <3>1, EndList, ParsesFacts DEF LastParse
    <3>3. \A t \in 1 .. n : IsFiniteSet(parses[t].taken)
      BY <2>1, <2>2, EndWorth
    <3> QED BY <2>2, <3>2, <3>3 DEF Finite
  <2>6. PICK M : M = SavedTable(m, n)
    OBVIOUS
  <2>7. \A a \in 1 .. m : \A t \in 1 .. n : M[a][t] = Saved(parses[t])[a]
    BY <2>6, Zenon DEF SavedTable
  <2>8. Table(M, m, n)
    <3>1. \A t \in 1 .. n : Numbers(Saved(parses[t]), m)
      BY <2>1, <2>2, <2>3, EndWorth
    <3>2. \A a \in 1 .. m : \A t \in 1 .. n : M[a][t] \in Int
      BY <2>7, <3>1, Zenon DEF Numbers
    <3> QED BY <2>2, <2>3, <3>2, Zenon DEF Table
  <2>9. PICK shrinks, scores, storing, rows :
          /\ shrinks = [t \in 1 .. n |-> ZstringCost(settings.alpha, Texts[t].text) - parses[t].minimal]
          /\ scores = [a \in 1 .. m |-> pats[best[a]].savings]
          /\ storing = [a \in 1 .. m |-> RoundUpTo(pats[best[a]].cost, 3)]
          /\ rows = [a \in 1 .. m |-> RowSum(M, a, n)]
    OBVIOUS
  <2>10. ASSUME NEW t \in 1 .. n PROVE ColumnSum(M, t, m) = shrinks[t]
    <3>1. [a \in 1 .. m |-> M[a][t]] = Saved(parses[t])
      <4>1. Saved(parses[t]) = [a \in 1 .. m |-> Saved(parses[t])[a]]
        <5>1. PICK s : s = Saved(parses[t])
          OBVIOUS
        <5>2. s = [a \in 1 .. m |-> Count(parses[t], a) * (SeenAtEnd[a].cost - 2)]
          BY <2>4, <5>1, Zenon DEF Saved
        <5>3. s = [a \in 1 .. m |-> s[a]]
          BY <5>2
        <5> QED BY <5>1, <5>3, Zenon
      <4>2. [a \in 1 .. m |-> M[a][t]] = [a \in 1 .. m |-> Saved(parses[t])[a]]
        BY <2>7, Zenon
      <4> QED BY <4>1, <4>2, Zenon
    <3>2. PICK w \in Int, x \in Nat, c \in Nat :
            /\ w = Total(Saved(parses[t])) /\ x = parses[t].minimal /\ c = ZstringCost(settings.alpha, Texts[t].text)
            /\ w + x = c
      <4>1. Total(Saved(parses[t])) \in Int
        BY <2>1, <2>2, EndWorth, TotalSums
      <4> QED BY <2>1, <2>2, <4>1, EndWorth
    <3>3. w = c - x
      BY <3>2
    <3>4. shrinks[t] = c - x
      BY <2>9, <3>2, Zenon
    <3> QED BY <3>1, <3>2, <3>3, <3>4, Zenon DEF ColumnSum
  <2>11. ASSUME NEW a \in 1 .. m
         PROVE  /\ rows[a] \in Int /\ scores[a] \in Int /\ storing[a] \in Int
                /\ rows[a] = scores[a] + storing[a]
    <3>1. PICK f \in Nat, c \in Nat, r \in Nat : f = Frequency(parses, a) /\ c = pats[best[a]].cost /\ r = RoundUpTo(c, 3)
      <4>1. PICK c \in Nat : c = pats[best[a]].cost
        BY <2>4
      <4>2. RoundUpTo(c, 3) \in Nat
        <5>1. 0 \in Nat
          OBVIOUS
        <5> QED BY <5>1, ScoreFacts
      <4>3. Frequency(parses, a) \in Nat
        BY <2>5, FrequencyFacts
      <4> QED BY <4>1, <4>2, <4>3
    <3>2. PICK counts, row : /\ counts = [t \in 1 .. n |-> Count(parses[t], a)]
                             /\ row = [t \in 1 .. n |-> M[a][t]]
      OBVIOUS
    <3>3. Total(counts) = f
      BY <2>5, <3>1, <3>2, Zenon DEF Frequency, Count
    <3>4. ASSUME NEW t \in 1 .. n PROVE counts[t] \in Int /\ row[t] = counts[t] * (c - 2)
      <4>1. Count(parses[t], a) \in Int
        <5>1. PICK S : S = {i \in parses[t].taken : parses[t].picked[i] = a}
          OBVIOUS
        <5>2. IsFiniteSet(S)
          <6>1. S \subseteq parses[t].taken
            BY <5>1
          <6>2. IsFiniteSet(parses[t].taken)
            BY <2>5 DEF Finite
          <6> QED BY <6>1, <6>2, FS_Subset
        <5>3. Cardinality(S) \in Int
          BY <5>2, FS_CardinalityType
        <5> QED BY <5>1, <5>3 DEF Count
      <4>2. row[t] = Count(parses[t], a) * (c - 2)
        <5>1. Saved(parses[t])[a] = Count(parses[t], a) * (SeenAtEnd[a].cost - 2)
          BY <2>4, Zenon DEF Saved
        <5> QED BY <2>4, <2>7, <3>1, <3>2, <5>1, Zenon
      <4> QED BY <3>2, <4>1, <4>2, Zenon
    <3>5. Numbers(counts, n)
      <4>1. counts = [t \in 1 .. n |-> counts[t]]
        BY <3>2
      <4> QED BY <3>4, <4>1, NumbersFrom
    <3>6. Numbers(row, n)
      BY <2>8, <3>2, TableSums
    <3>7. PICK x \in Int : x = c - 2
      OBVIOUS
    <3>8. Total(row) = Total(counts) * x
      BY <3>4, <3>5, <3>6, <3>7, TotalTimes
    <3>9. rows[a] = f * (c - 2)
      BY <2>9, <3>2, <3>3, <3>7, <3>8, Zenon DEF RowSum
    <3>10. scores[a] = f * (c - 2) - r
      <4>1. scores[a] = pats[best[a]].savings
        BY <2>9, Zenon
      <4>2. pats[best[a]].savings = PatternScore(f, c)
        BY <2>1, <2>3, <3>1, Zenon DEF LastScores
      <4> QED BY <3>1, <4>1, <4>2, Zenon DEF PatternScore
    <3>11. storing[a] = r
      BY <2>9, <3>1, Zenon
    <3>12. PICK y \in Int : y = f * (c - 2)
      OBVIOUS
    <3>13. y - r \in Int /\ y = (y - r) + r
      OBVIOUS
    <3>14. r \in Int
      OBVIOUS
    <3> QED BY <3>9, <3>10, <3>11, <3>12, <3>13, <3>14, Zenon
  <2>12. Numbers(rows, m) /\ Numbers(scores, m) /\ Numbers(storing, m)
    <3>1. rows = [a \in 1 .. m |-> rows[a]] /\ scores = [a \in 1 .. m |-> scores[a]]
          /\ storing = [a \in 1 .. m |-> storing[a]]
      BY <2>9
    <3> QED BY <2>11, <3>1, NumbersFrom
  <2>13. Total(rows) = Total(scores) + Total(storing)
    BY <2>11, <2>12, TotalOfSums
  <2>14. Total(rows) = Total(shrinks)
    <3>1. Total([a \in 1 .. m |-> RowSum(M, a, n)]) = Total([t \in 1 .. n |-> ColumnSum(M, t, m)])
      BY <2>8, TotalSwap
    <3>2. [t \in 1 .. n |-> ColumnSum(M, t, m)] = shrinks
      <4>1. shrinks = [t \in 1 .. n |-> shrinks[t]]
        BY <2>9
      <4> QED BY <2>10, <4>1, Zenon
    <3> QED BY <2>9, <3>1, <3>2, Zenon
  <2>15. PICK x \in Int, y \in Int, z \in Int : x = Total(scores) /\ y = Total(storing) /\ z = Total(shrinks) /\ z = x + y
    BY <2>12, <2>13, <2>14, TotalSums
  <2>16. x = z - y
    BY <2>15
  <2>17. savings = x
    BY <2>1, <2>3, <2>9, <2>15, Zenon DEF LastSavings
  <2> QED BY <2>2, <2>3, <2>9, <2>15, <2>16, <2>17, Zenon
<1> QED BY <1>1, Printing, PTL
=============================================================================

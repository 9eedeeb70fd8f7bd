-------------------------- MODULE ZabbrevPatterns --------------------------
(***************************************************************************)
(* The suffix array of all texts and the patterns taken from it.  Arrays   *)
(* of the program count from 0 and so do the functions here.               *)
(***************************************************************************)
EXTENDS ZabbrevText

Separator == 11
AtSign == 64

\* All texts in one, each with a separator after it.
GeneralizedString(texts) ==
  FoldLeft(LAMBDA all, t : all \o t.text \o <<Separator>>, <<>>, texts)

----------------------------------------------------------------------------
(***************************************************************************)
(* Prefix doubling.  A suffix has its rank by its first half and by its    *)
(* second half; beyond the end the rank is -1, which is also the first     *)
(* rank of the character before 'a'.  qsort leaves equal ones in any order.*)
(***************************************************************************)
SuffixBefore(s, t) ==
  \/ s.first < t.first
  \/ s.first = t.first /\ s.second < t.second
  \/ s.first = t.first /\ s.second = t.second /\ s.index < t.index

SortSuffixes(suffixes) == Ordered(Range(suffixes), SuffixBefore)

FirstSuffixes(s) ==
  LET Char(i) == IF i <= Len(s) THEN s[i] - 97 ELSE -1
  IN  SortSuffixes([i \in DOMAIN s |->
        [index |-> i - 1, first |-> Char(i), second |-> Char(i + 1)]])

\* A new rank for each change in the sorted order; then the rank k / 2 further on.
Doubled(suffixes, k) ==
  LET n == Len(suffixes)
      Same(i) == /\ suffixes[i].first = suffixes[i - 1].first
                 /\ suffixes[i].second = suffixes[i - 1].second
      Rank(i) == Cardinality({j \in 2 .. i : ~Same(j)})
      RankAt(index) == IF index < n
                       THEN Rank(CHOOSE i \in 1 .. n : suffixes[i].index = index)
                       ELSE -1
  IN  SortSuffixes([i \in 1 .. n |->
        [index  |-> suffixes[i].index,
         first  |-> Rank(i),
         second |-> RankAt(suffixes[i].index + k \div 2)]])

SuffixArray(s) ==
  LET Step(at, i) == IF at.k >= 2 * Len(s) THEN at
                     ELSE [k |-> 2 * at.k, suffixes |-> Doubled(at.suffixes, at.k)]
      sorted == FoldLeftDomain(Step, [k |-> 4, suffixes |-> FirstSuffixes(s)], s).suffixes
  IN  [i \in 0 .. Len(s) - 1 |-> sorted[i + 1].index]

\* What each suffix shares with the one before it in the array, in the order of the
\* text: the next suffix shares at most one character less.
LcpArray(s, sa) ==
  LET n == Len(s)
      Place(i) == CHOOSE r \in 0 .. n - 1 : sa[r] = i
      Extended(i, j, k) ==
        CHOOSE e \in k .. n :
          /\ \A m \in k .. e - 1 : i + m < n /\ j + m < n /\ s[i + m + 1] = s[j + m + 1]
          /\ ~(i + e < n /\ j + e < n /\ s[i + e + 1] = s[j + e + 1])
      shared[i \in -1 .. n - 1] ==
        IF i = -1 \/ i = sa[0] THEN 0
        ELSE LET before == shared[i - 1]
             IN  IF before > 0 THEN Extended(i, sa[Place(i) - 1], before - 1)
                 ELSE Extended(i, sa[Place(i) - 1], 0)
      row == <<>> \o [i \in 1 .. n |-> shared[i - 1]]
  IN  [r \in 0 .. n - 1 |-> row[sa[r] + 1]]

----------------------------------------------------------------------------
(***************************************************************************)
(* Counting.  The search for the first of a group goes back to the first   *)
(* itself and then answers one place after it, unless it began there.      *)
(***************************************************************************)
FirstWithPrefix(lcp, index, length) ==
  LET lo == CHOOSE i \in 0 .. index :
              /\ i = 0 \/ lcp[i] < length
              /\ \A j \in i + 1 .. index : lcp[j] >= length
  IN  IF lo = index THEN index ELSE lo + 1

LastWithPrefix(lcp, n, index, length) ==
  CHOOSE hi \in index .. n - 1 :
    /\ \A j \in index + 1 .. hi : lcp[j] >= length
    /\ hi = n - 1 \/ lcp[hi + 1] < length

SaCount(lcp, n, index, length) ==
  LastWithPrefix(lcp, n, index, length) - FirstWithPrefix(lcp, index, length) + 1

----------------------------------------------------------------------------
Viable(frequency, cost) == frequency > 1 /\ PatternScore(frequency, cost) > 0

(***************************************************************************)
(* Patterns by their keys.  At a place of the array prefixes are looked at *)
(* that are as long as what is shared with the suffix before, or longer,   *)
(* and shared with the suffix after; what is found first stays.            *)
(***************************************************************************)
KeyAt(s, sa, at) == SubSeq(s, sa[at[1]] + 1, Min({sa[at[1]] + at[2], Len(s)}))

(* Mutant: one character short of what is shared. *)
LookedAtShort(n, lcp) ==
  {at \in (SaCount(lcp, n, 0, 1) .. n - 2) \X (1 .. n) : at[2] < lcp[at[1] + 1]}

LookedAt(n, lcp) ==
  LET Shortest(i) == IF i > 0 /\ lcp[i] > 1 THEN lcp[i] ELSE 1
  IN  {at \in (SaCount(lcp, n, 0, 1) .. n - 2) \X (1 .. n) :
        at[2] \in Shortest(at[1]) .. lcp[at[1] + 1]}

Wanted(alpha, key, frequency) ==
  /\ Range(key) \intersect {Separator, AtSign} = {}
  /\ Viable(frequency, ZstringCost(alpha, key))

NewPattern(key, frequency, cost) ==
  [key |-> key, cost |-> cost, frequency |-> frequency,
   savings |-> PatternScore(frequency, cost), occurrences |-> <<>>]

\* places: by its place each key that is wanted.
PatternsAt(alpha, n, lcp, places) ==
  LET First(key) == Min({at[1] : at \in {p \in DOMAIN places : places[p] = key}})
  IN  [key \in Range(places) |->
        NewPattern(key, SaCount(lcp, n, First(key), Len(key)), ZstringCost(alpha, key))]

WantedPlaces(alpha, s, sa, lcp) ==
  [at \in {p \in LookedAt(Len(s), lcp) :
            Wanted(alpha, KeyAt(s, sa, p), SaCount(lcp, Len(s), p[1], p[2]))} |-> KeyAt(s, sa, at)]

PatternsIn(alpha, s, sa, lcp) == PatternsAt(alpha, Len(s), lcp, WantedPlaces(alpha, s, sa, lcp))

PatternsOf(alpha, s, sa) == PatternsIn(alpha, s, sa, LcpArray(s, sa))

Extraction(alpha, s) == PatternsOf(alpha, s, SuffixArray(s))

ExtractPatterns(alpha, texts) == Extraction(alpha, GeneralizedString(texts))
=============================================================================

---------------------------- MODULE Glazer_proof ----------------------------
(***************************************************************************)
(* The tree of compressed strings: the leaves that are counted are sorted, *)
(* merging two nodes keeps the tree sound, and the program's assertion     *)
(* about the merged list holds, for every text.                            *)
(***************************************************************************)
EXTENDS Glazer, FiniteSetTheorems, WellFoundedInduction, TLAPS

Weight(h, n) == h.nodes[n].weight

Elements(s) == {s[i] : i \in DOMAIN s}

\* t is s without its first element.
IsTail(t, s) ==
  /\ Len(s) \in Nat \ {0} /\ DOMAIN s = 1 .. Len(s)
  /\ Len(t) = Len(s) - 1 /\ DOMAIN t = 1 .. Len(s) - 1
  /\ \A i \in DOMAIN t : i + 1 \in DOMAIN s /\ t[i] = s[i + 1]
  /\ Elements(s) = {s[1]} \union Elements(t)

(* The tail of a sequence that is not empty. *)
LEMMA TailFacts ==
  ASSUME NEW S, NEW s \in Seq(S), s # <<>>
  PROVE  Tail(s) \in Seq(S) /\ s[1] \in S /\ IsTail(Tail(s), s)
PROOF
<1>1. /\ Tail(s) \in Seq(S) /\ s[1] \in S /\ Len(s) \in Nat \ {0} /\ DOMAIN s = 1 .. Len(s)
      /\ DOMAIN Tail(s) = 1 .. Len(s) - 1 /\ Len(Tail(s)) = Len(s) - 1
      /\ \A i \in DOMAIN Tail(s) : i + 1 \in DOMAIN s /\ Tail(s)[i] = s[i + 1]
  OBVIOUS
<1>2. ASSUME NEW i \in DOMAIN s  PROVE  i = 1 \/ (i - 1 \in DOMAIN Tail(s) /\ s[i] = Tail(s)[i - 1])
  BY <1>1
<1>3. {s[i] : i \in DOMAIN s} = {s[1]} \union {Tail(s)[i] : i \in DOMAIN Tail(s)}
  BY <1>1, <1>2
<1> QED
  BY <1>1, <1>3 DEF IsTail, Elements

(* A tail is in order, and has nothing twice, if its sequence is so. *)
LEMMA TailAscending ==
  ASSUME NEW nodes, NEW s, NEW t, IsTail(t, s), Ascending(nodes, s)
  PROVE  Ascending(nodes, t)
PROOF
<1> SUFFICES ASSUME NEW i \in DOMAIN t, NEW j \in DOMAIN t, i <= j
             PROVE  nodes[t[i]].weight <= nodes[t[j]].weight
  BY DEF Ascending
<1>1. /\ i + 1 \in DOMAIN s /\ j + 1 \in DOMAIN s /\ i + 1 <= j + 1
      /\ t[i] = s[i + 1] /\ t[j] = s[j + 1]
  BY DEF IsTail
<1>2. nodes[s[i + 1]].weight <= nodes[s[j + 1]].weight
  BY <1>1 DEF Ascending
<1> QED
  BY <1>1, <1>2

LEMMA TailDistinct ==
  ASSUME NEW s, NEW t, IsTail(t, s), \A i, j \in DOMAIN s : s[i] = s[j] => i = j
  PROVE  \A i, j \in DOMAIN t : t[i] = t[j] => i = j
PROOF
<1> SUFFICES ASSUME NEW i \in DOMAIN t, NEW j \in DOMAIN t, t[i] = t[j]
             PROVE  i = j
  OBVIOUS
<1>1. i \in Nat /\ j \in Nat /\ i + 1 \in DOMAIN s /\ j + 1 \in DOMAIN s /\ s[i + 1] = s[j + 1]
  BY DEF IsTail
<1>2. i + 1 = j + 1
  BY <1>1
<1> QED
  BY <1>1, <1>2

(* The elements of a sequence are numbered from 1. *)
LEMMA LenFacts ==
  ASSUME NEW S, NEW s \in Seq(S)
  PROVE  /\ Len(s) \in Nat /\ DOMAIN s = 1 .. Len(s) /\ (s = <<>> <=> Len(s) = 0)
         /\ s # <<>> => {1, Len(s)} \subseteq DOMAIN s /\ {s[1], s[Len(s)]} \subseteq S
PROOF
  OBVIOUS

(* A function on the numbers from 1 is a sequence. *)
LEMMA FunctionIsSeq ==
  ASSUME NEW S, NEW k \in Nat, NEW f \in [1 .. k -> S]
  PROVE  f \in Seq(S) /\ Len(f) = k /\ DOMAIN f = 1 .. k
PROOF
  OBVIOUS

(* A sequence with one more element at its end. *)
LEMMA AppendFacts ==
  ASSUME NEW S, NEW s \in Seq(S), NEW e \in S
  PROVE  LET t == Append(s, e)
         IN  /\ t \in Seq(S) /\ Len(t) = Len(s) + 1 /\ DOMAIN t = 1 .. Len(s) + 1
             /\ Len(s) \in Nat /\ DOMAIN s = 1 .. Len(s)
             /\ t[Len(s) + 1] = e /\ \A i \in DOMAIN s : t[i] = s[i]
             /\ Elements(t) = Elements(s) \union {e}
PROOF
<1> DEFINE t == Append(s, e)
<1>1. /\ t \in Seq(S) /\ Len(t) = Len(s) + 1 /\ DOMAIN t = 1 .. Len(s) + 1
      /\ Len(s) \in Nat /\ DOMAIN s = 1 .. Len(s)
      /\ t[Len(s) + 1] = e /\ \A i \in DOMAIN s : t[i] = s[i]
  OBVIOUS
<1> HIDE DEF t
<1>2. \A i \in DOMAIN t : i \in DOMAIN s \/ i = Len(s) + 1
  BY <1>1
<1>3. Len(s) + 1 \in DOMAIN t /\ DOMAIN s \subseteq DOMAIN t
  BY <1>1
<1>4. {t[i] : i \in DOMAIN t} = {s[i] : i \in DOMAIN s} \union {e}
  BY <1>1, <1>2, <1>3
<1> QED
  BY <1>1, <1>4 DEF Elements, t

(* Taking the lowest node (PopLowest) leaves lists in order without it, and *)
(* none that waited is lighter.                                             *)
LEMMA PopLowestFacts ==
  ASSUME NEW h, Lists(h), Queued(h) # {}
  PROVE  LET l == LowestOf(h)
             p == PopLowest(h)
         IN  /\ Lists(p) /\ p.nodes = h.nodes
             /\ l \in Queued(h) /\ Queued(p) = Queued(h) \ {l}
             /\ \A n \in Queued(h) : Weight(h, l) <= Weight(h, n)
             /\ \A i \in DOMAIN p.merged : \E j \in DOMAIN h.merged : p.merged[i] = h.merged[j]
             /\ Len(p.sorted) + Len(p.merged) = Len(h.sorted) + Len(h.merged) - 1
PROOF
<1> DEFINE l == LowestOf(h)
           p == PopLowest(h)
<1>1. /\ h.sorted \in Seq(DOMAIN h.nodes) /\ h.merged \in Seq(DOMAIN h.nodes)
      /\ \A n \in DOMAIN h.nodes : Weight(h, n) \in Nat
  BY DEF Lists, HasNodes, IsNode, Weight
<1>2. CASE FromMerged(h)
  <2>1. h.merged # <<>>
    BY <1>2, <1>1 DEF FromMerged, Queued
  <2>2. l = h.merged[1] /\ p = [h EXCEPT !.merged = Tail(@)]
    BY <1>2 DEF LowestOf, PopLowest
  <2> HIDE DEF l, p
  <2>3. /\ p.nodes = h.nodes /\ p.sorted = h.sorted /\ p.merged = Tail(h.merged)
        /\ p = [strings |-> p.strings, quick |-> p.quick, slow |-> p.slow, indirect |-> p.indirect,
                nodes |-> p.nodes, sorted |-> p.sorted, merged |-> p.merged]
    BY <2>2 DEF Lists, HasNodes
  <2>4. p.merged \in Seq(DOMAIN h.nodes) /\ l \in DOMAIN h.nodes /\ IsTail(p.merged, h.merged)
    BY <1>1, <2>1, <2>2, <2>3, TailFacts
  <2>5. l \in Queued(h) /\ Queued(h) = {l} \union Queued(p)
    <3>1. Elements(h.merged) = {l} \union Elements(p.merged)
      BY <2>2, <2>4 DEF IsTail
    <3>2. Elements(h.sorted) = Elements(p.sorted)
      BY <2>3
    <3>3. /\ Queued(h) = Elements(h.sorted) \union Elements(h.merged)
          /\ Queued(p) = Elements(p.sorted) \union Elements(p.merged)
      BY DEF Queued, Elements
    <3> QED
      BY <3>1, <3>2, <3>3
  <2>6. l \notin Queued(p)
    <3>1. \A i \in DOMAIN p.merged : p.merged[i] # l
      <4> SUFFICES ASSUME NEW i \in DOMAIN p.merged, p.merged[i] = l  PROVE FALSE
        OBVIOUS
      <4>1. i + 1 \in DOMAIN h.merged /\ 1 \in DOMAIN h.merged /\ h.merged[i + 1] = h.merged[1]
        BY <2>2, <2>4 DEF IsTail
      <4>2. i + 1 = 1
        BY <4>1 DEF Lists, WaitOnce
      <4> QED
        BY <4>2, <2>4 DEF IsTail
    <3>2. \A i \in DOMAIN p.sorted : p.sorted[i] # l
      BY <2>2, <2>3, <2>4 DEF Lists, WaitOnce, IsTail
    <3> QED
      BY <3>1, <3>2 DEF Queued
  <2>7. \A n \in Queued(h) : Weight(h, l) <= Weight(h, n)
    <3>1. \A i \in DOMAIN h.merged : Weight(h, l) <= Weight(h, h.merged[i])
      BY <2>2, <2>4 DEF Lists, Ascending, Weight, IsTail
    <3>2. \A i \in DOMAIN h.sorted : Weight(h, l) <= Weight(h, h.sorted[i])
      <4> SUFFICES ASSUME NEW i \in DOMAIN h.sorted  PROVE Weight(h, l) <= Weight(h, h.sorted[i])
        OBVIOUS
      <4>1. /\ h.sorted # <<>> /\ 1 \in DOMAIN h.sorted /\ 1 <= i
            /\ h.sorted[1] \in DOMAIN h.nodes /\ h.sorted[i] \in DOMAIN h.nodes
        BY <1>1
      <4>2. Weight(h, h.sorted[1]) <= Weight(h, h.sorted[i])
        BY <4>1 DEF Lists, Ascending, Weight
      <4>3. Weight(h, l) <= Weight(h, h.sorted[1])
        BY <1>2, <1>1, <2>1, <2>2, <2>4, <4>1 DEF FromMerged, Weight
      <4> QED
        BY <4>1, <4>2, <4>3, <1>1, <2>4
    <3> QED
      BY <3>1, <3>2 DEF Queued
  <2>8. Lists(p)
    <3>1. HasNodes(p)
      BY <2>3, <2>4, <1>1 DEF Lists, HasNodes
    <3>2. Ascending(p.nodes, p.sorted) /\ Ascending(p.nodes, p.merged)
      <4>1. Ascending(h.nodes, h.sorted) /\ Ascending(h.nodes, h.merged)
        BY DEF Lists
      <4>2. Ascending(h.nodes, p.merged)
        BY <4>1, <2>4, TailAscending
      <4> QED
        BY <4>1, <4>2, <2>3
    <3>3. NoneLighter(p)
      BY <2>3, <2>4, <2>5 DEF Lists, NoneLighter, IsTail
    <3>4. WaitOnce(p)
      <4>1. /\ \A i, j \in DOMAIN h.sorted : h.sorted[i] = h.sorted[j] => i = j
            /\ \A i, j \in DOMAIN h.merged : h.merged[i] = h.merged[j] => i = j
            /\ \A i \in DOMAIN h.sorted : \A j \in DOMAIN h.merged : h.sorted[i] # h.merged[j]
        BY DEF Lists, WaitOnce
      <4>2. \A i, j \in DOMAIN p.merged : p.merged[i] = p.merged[j] => i = j
        BY <4>1, <2>4, TailDistinct
      <4>3. \A i \in DOMAIN p.merged : \E j \in DOMAIN h.merged : p.merged[i] = h.merged[j]
        BY <2>4 DEF IsTail
      <4>4. \A i \in DOMAIN p.sorted : \A j \in DOMAIN p.merged : p.sorted[i] # p.merged[j]
        BY <4>1, <4>3, <2>3
      <4> QED
        BY <4>1, <4>2, <4>4, <2>3 DEF WaitOnce
    <3> QED
      BY <3>1, <3>2, <3>3, <3>4 DEF Lists
  <2>9. Len(p.sorted) + Len(p.merged) = Len(h.sorted) + Len(h.merged) - 1
    <3>1. Len(p.sorted) \in Nat /\ Len(h.merged) \in Nat
      BY <1>1, <2>3
    <3>2. Len(p.merged) = Len(h.merged) - 1
      BY <2>4 DEF IsTail
    <3>3. Len(h.sorted) = Len(p.sorted)
      BY <2>3
    <3> QED
      BY <3>1, <3>2, <3>3
  <2>10. \A i \in DOMAIN p.merged : \E j \in DOMAIN h.merged : p.merged[i] = h.merged[j]
    BY <2>3, <2>4 DEF IsTail
  <2> QED
    BY <2>3, <2>5, <2>6, <2>7, <2>8, <2>9, <2>10 DEF l, p
<1>3. CASE ~FromMerged(h)
  <2>1. h.sorted # <<>>
    BY <1>3, <1>1 DEF FromMerged, Queued
  <2>2. l = h.sorted[1] /\ p = [h EXCEPT !.sorted = Tail(@)]
    BY <1>3 DEF LowestOf, PopLowest
  <2> HIDE DEF l, p
  <2>3. /\ p.nodes = h.nodes /\ p.merged = h.merged /\ p.sorted = Tail(h.sorted)
        /\ p = [strings |-> p.strings, quick |-> p.quick, slow |-> p.slow, indirect |-> p.indirect,
                nodes |-> p.nodes, sorted |-> p.sorted, merged |-> p.merged]
    BY <2>2 DEF Lists, HasNodes
  <2>4. p.sorted \in Seq(DOMAIN h.nodes) /\ l \in DOMAIN h.nodes /\ IsTail(p.sorted, h.sorted)
    BY <1>1, <2>1, <2>2, <2>3, TailFacts
  <2>5. l \in Queued(h) /\ Queued(h) = {l} \union Queued(p)
    <3>1. Elements(h.sorted) = {l} \union Elements(p.sorted)
      BY <2>2, <2>4 DEF IsTail
    <3>2. Elements(h.merged) = Elements(p.merged)
      BY <2>3
    <3>3. /\ Queued(h) = Elements(h.sorted) \union Elements(h.merged)
          /\ Queued(p) = Elements(p.sorted) \union Elements(p.merged)
      BY DEF Queued, Elements
    <3> QED
      BY <3>1, <3>2, <3>3
  <2>6. l \notin Queued(p)
    <3>1. \A i \in DOMAIN p.sorted : p.sorted[i] # l
      <4> SUFFICES ASSUME NEW i \in DOMAIN p.sorted, p.sorted[i] = l  PROVE FALSE
        OBVIOUS
      <4>1. i + 1 \in DOMAIN h.sorted /\ 1 \in DOMAIN h.sorted /\ h.sorted[i + 1] = h.sorted[1]
        BY <2>2, <2>4 DEF IsTail
      <4>2. i + 1 = 1
        BY <4>1 DEF Lists, WaitOnce
      <4> QED
        BY <4>2, <2>4 DEF IsTail
    <3>2. \A i \in DOMAIN p.merged : p.merged[i] # l
      BY <2>2, <2>3, <2>4 DEF Lists, WaitOnce, IsTail
    <3> QED
      BY <3>1, <3>2 DEF Queued
  <2>7. \A n \in Queued(h) : Weight(h, l) <= Weight(h, n)
    <3>1. \A i \in DOMAIN h.sorted : Weight(h, l) <= Weight(h, h.sorted[i])
      BY <2>2, <2>4 DEF Lists, Ascending, Weight, IsTail
    <3>2. \A i \in DOMAIN h.merged : Weight(h, l) <= Weight(h, h.merged[i])
      <4> SUFFICES ASSUME NEW i \in DOMAIN h.merged  PROVE Weight(h, l) <= Weight(h, h.merged[i])
        OBVIOUS
      <4>1. /\ h.merged # <<>> /\ 1 \in DOMAIN h.merged /\ 1 <= i
            /\ h.merged[1] \in DOMAIN h.nodes /\ h.merged[i] \in DOMAIN h.nodes
        BY <1>1
      <4>2. Weight(h, h.merged[1]) <= Weight(h, h.merged[i])
        BY <4>1 DEF Lists, Ascending, Weight
      <4>3. Weight(h, l) <= Weight(h, h.merged[1])
        BY <1>3, <1>1, <2>1, <2>2, <2>4, <4>1 DEF FromMerged, Weight
      <4> QED
        BY <4>1, <4>2, <4>3, <1>1, <2>4
    <3> QED
      BY <3>1, <3>2 DEF Queued
  <2>8. Lists(p)
    <3>1. HasNodes(p)
      BY <2>3, <2>4, <1>1 DEF Lists, HasNodes
    <3>2. Ascending(p.nodes, p.sorted) /\ Ascending(p.nodes, p.merged)
      <4>1. Ascending(h.nodes, h.sorted) /\ Ascending(h.nodes, h.merged)
        BY DEF Lists
      <4>2. Ascending(h.nodes, p.sorted)
        BY <4>1, <2>4, TailAscending
      <4> QED
        BY <4>1, <4>2, <2>3
    <3>3. NoneLighter(p)
      BY <2>3, <2>4, <2>5 DEF Lists, NoneLighter, IsTail
    <3>4. WaitOnce(p)
      <4>1. /\ \A i, j \in DOMAIN h.sorted : h.sorted[i] = h.sorted[j] => i = j
            /\ \A i, j \in DOMAIN h.merged : h.merged[i] = h.merged[j] => i = j
            /\ \A i \in DOMAIN h.sorted : \A j \in DOMAIN h.merged : h.sorted[i] # h.merged[j]
        BY DEF Lists, WaitOnce
      <4>2. \A i, j \in DOMAIN p.sorted : p.sorted[i] = p.sorted[j] => i = j
        BY <4>1, <2>4, TailDistinct
      <4>3. \A i \in DOMAIN p.sorted : \E j \in DOMAIN h.sorted : p.sorted[i] = h.sorted[j]
        BY <2>4 DEF IsTail
      <4>4. \A i \in DOMAIN p.sorted : \A j \in DOMAIN p.merged : p.sorted[i] # p.merged[j]
        BY <4>1, <4>3, <2>3
      <4> QED
        BY <4>1, <4>2, <4>4, <2>3 DEF WaitOnce
    <3> QED
      BY <3>1, <3>2, <3>3, <3>4 DEF Lists
  <2>9. Len(p.sorted) + Len(p.merged) = Len(h.sorted) + Len(h.merged) - 1
    <3>1. Len(p.merged) \in Nat /\ Len(h.sorted) \in Nat
      BY <1>1, <2>3
    <3>2. Len(p.sorted) = Len(h.sorted) - 1
      BY <2>4 DEF IsTail
    <3>3. Len(h.merged) = Len(p.merged)
      BY <2>3
    <3> QED
      BY <3>1, <3>2, <3>3
  <2>10. \A i \in DOMAIN p.merged : \E j \in DOMAIN h.merged : p.merged[i] = h.merged[j]
    BY <2>3, <2>4 DEF IsTail
  <2> QED
    BY <2>3, <2>5, <2>6, <2>7, <2>8, <2>9, <2>10 DEF l, p
<1> QED
  BY <1>2, <1>3

(* Two nodes become one (MergeLowest): a tree that was sound is sound again, *)
(* and the assertion that the new node is not lighter than the last merged   *)
(* one holds.                                                                *)
LEMMA MergeLowestFacts ==
  ASSUME NEW h, SoundTree(h), MoreThanOne(h)
  PROVE  MergeLowest(h) # Crash /\ SoundTree(MergeLowest(h).huff)
PROOF
<1> DEFINE l  == LowestOf(h)
           h1 == PopLowest(h)
           r  == LowestOf(h1)
           h2 == PopLowest(h1)
           new == Len(h.nodes) + 1
           w  == Weight(h, l) + Weight(h, r)
<1>1. /\ HasNodes(h) /\ Len(h.nodes) \in Nat /\ DOMAIN h.nodes = 1 .. Len(h.nodes)
      /\ h.sorted \in Seq(DOMAIN h.nodes) /\ h.merged \in Seq(DOMAIN h.nodes)
      /\ \A n \in DOMAIN h.nodes : Weight(h, n) \in Nat
  BY DEF SoundTree, Lists, HasNodes, IsNode, Weight
<1>2. Lists(h) /\ Queued(h) # {}
  <2> DEFINE a == Len(h.sorted)
             b == Len(h.merged)
  <2>1. a \in Nat /\ b \in Nat /\ a + b >= 2
    BY <1>1, LenFacts DEF MoreThanOne
  <2> HIDE DEF a, b
  <2>2. a # 0 \/ b # 0
    BY <2>1
  <2>3. Len(h.sorted) # 0 \/ Len(h.merged) # 0
    BY <2>2 DEF a, b
  <2>4. 1 \in DOMAIN h.sorted \/ 1 \in DOMAIN h.merged
    BY <2>3, <1>1, LenFacts
  <2> QED
    BY <2>4 DEF SoundTree, Queued
<1>3. /\ Lists(h1) /\ h1.nodes = h.nodes
      /\ l \in Queued(h) /\ Queued(h1) = Queued(h) \ {l}
      /\ \A n \in Queued(h) : Weight(h, l) <= Weight(h, n)
      /\ \A i \in DOMAIN h1.merged : \E j \in DOMAIN h.merged : h1.merged[i] = h.merged[j]
      /\ Len(h1.sorted) + Len(h1.merged) = Len(h.sorted) + Len(h.merged) - 1
  BY <1>2, PopLowestFacts
<1>4. Queued(h1) # {}
  <2>1. h1.sorted \in Seq(DOMAIN h.nodes) /\ h1.merged \in Seq(DOMAIN h.nodes)
    BY <1>3 DEF Lists, HasNodes
  <2> DEFINE a == Len(h.sorted)
             b == Len(h.merged)
             c == Len(h1.sorted)
             d == Len(h1.merged)
  <2>2. c + d = a + b - 1
    BY <1>3
  <2>3. a + b >= 2
    BY DEF MoreThanOne
  <2>4. a \in Nat /\ b \in Nat
    BY <1>1, LenFacts
  <2> HIDE DEF h1, a, b, c, d
  <2>5. c # 0 \/ d # 0
    BY <2>2, <2>3, <2>4
  <2>6. Len(h1.sorted) # 0 \/ Len(h1.merged) # 0
    BY <2>5 DEF c, d
  <2>7. 1 \in DOMAIN h1.sorted \/ 1 \in DOMAIN h1.merged
    BY <2>1, <2>6, LenFacts
  <2> QED
    BY <2>7 DEF Queued
<1>5. /\ Lists(h2) /\ h2.nodes = h1.nodes
      /\ r \in Queued(h1) /\ Queued(h2) = Queued(h1) \ {r}
      /\ \A n \in Queued(h1) : Weight(h1, r) <= Weight(h1, n)
      /\ \A i \in DOMAIN h2.merged : \E j \in DOMAIN h1.merged : h2.merged[i] = h1.merged[j]
  BY <1>3, <1>4, PopLowestFacts
<1> DEFINE H == [h2 EXCEPT !.nodes = Append([@ EXCEPT ![l].up = new, ![r].up = new], Branch(w, l, r)),
                           !.merged = Append(@, new)]
<1>6. MergeLowest(h) = IF h2.merged # <<>> /\ w < Weight(h2, Last(h2.merged)) THEN Crash
                       ELSE [kind |-> "merged", huff |-> H]
  <2>1. Weight(h2, Last(h2.merged)) = h.nodes[Last(h2.merged)].weight
    BY <1>3, <1>5 DEF Weight
  <2> QED
    BY <2>1 DEF MergeLowest, Weight
<1> HIDE DEF l, h1, r, h2, H
<1>7. /\ h2.nodes = h.nodes /\ {l, r} \subseteq DOMAIN h.nodes /\ l # r
      /\ {l, r} \subseteq Queued(h) /\ Queued(h2) = Queued(h) \ {l, r}
      /\ \A n \in Queued(h2) : n \in DOMAIN h.nodes /\ Weight(h, l) <= Weight(h, n) /\ Weight(h, r) <= Weight(h, n)
      /\ w \in Nat /\ Weight(h, l) \in Nat /\ Weight(h, r) \in Nat
  <2>1. Queued(h) \subseteq DOMAIN h.nodes
    BY <1>1 DEF Queued
  <2>2. \A n \in Queued(h1) : Weight(h, r) <= Weight(h, n)
    BY <1>3, <1>5 DEF Weight
  <2> QED
    BY <1>1, <1>3, <1>5, <2>1, <2>2
<1>8. /\ h2.sorted \in Seq(DOMAIN h.nodes) /\ h2.merged \in Seq(DOMAIN h.nodes)
      /\ Elements(h2.sorted) \subseteq Queued(h2) /\ Elements(h2.merged) \subseteq Queued(h2)
      /\ h2 = [strings |-> h2.strings, quick |-> h2.quick, slow |-> h2.slow, indirect |-> h2.indirect,
               nodes |-> h2.nodes, sorted |-> h2.sorted, merged |-> h2.merged]
  BY <1>5, <1>7 DEF Lists, HasNodes, Queued, Elements
<1>9. ASSUME NEW i \in DOMAIN h2.merged  PROVE Weight(h, h2.merged[i]) <= w
  <2>1. PICK j \in DOMAIN h.merged : h2.merged[i] = h.merged[j]
    BY <1>3, <1>5
  <2>2. Weight(h, h.merged[j]) <= 2 * Weight(h, l) /\ Weight(h, h.merged[j]) <= 2 * Weight(h, r)
    BY <1>2, <1>7 DEF Lists, NoneLighter, Weight
  <2>3. h.merged[j] \in DOMAIN h.nodes
    BY <1>1
  <2> QED
    BY <2>1, <2>2, <2>3, <1>1, <1>7
<1>10. MergeLowest(h) = [kind |-> "merged", huff |-> H]
  <2>1. ASSUME h2.merged # <<>>  PROVE ~(w < Weight(h2, Last(h2.merged)))
    <3>1. Len(h2.merged) \in DOMAIN h2.merged /\ h2.merged[Len(h2.merged)] \in DOMAIN h.nodes
      BY <1>8, <2>1, LenFacts
    <3>2. Weight(h, h2.merged[Len(h2.merged)]) <= w
      BY <3>1, <1>9
    <3>3. Weight(h2, Last(h2.merged)) = Weight(h, h2.merged[Len(h2.merged)])
      BY <1>7 DEF Last, Weight
    <3>4. Weight(h, h2.merged[Len(h2.merged)]) \in Nat
      BY <3>1, <1>1
    <3> QED
      BY <3>2, <3>3, <3>4, <1>7
  <2> QED
    BY <2>1, <1>6
<1> DEFINE N == H.nodes
<1>11. /\ H.sorted = h2.sorted /\ H.merged = Append(h2.merged, new)
       /\ N = Append([h.nodes EXCEPT ![l].up = new, ![r].up = new], Branch(w, l, r))
       /\ H = [strings |-> H.strings, quick |-> H.quick, slow |-> H.slow, indirect |-> H.indirect,
               nodes |-> H.nodes, sorted |-> H.sorted, merged |-> H.merged]
  <2> DEFINE nodes2  == Append([h2.nodes EXCEPT ![l].up = new, ![r].up = new], Branch(w, l, r))
             merged2 == Append(h2.merged, new)
  <2>1. H = [h2 EXCEPT !.nodes = nodes2, !.merged = merged2]
    BY DEF H
  <2> HIDE DEF nodes2, merged2
  <2>2. /\ H.sorted = h2.sorted /\ H.merged = merged2 /\ H.nodes = nodes2
        /\ H = [strings |-> H.strings, quick |-> H.quick, slow |-> H.slow, indirect |-> H.indirect,
                nodes |-> H.nodes, sorted |-> H.sorted, merged |-> H.merged]
    BY <2>1, <1>8
  <2>3. /\ H.sorted = h2.sorted /\ H.merged = Append(h2.merged, new)
        /\ N = Append([h2.nodes EXCEPT ![l].up = new, ![r].up = new], Branch(w, l, r))
        /\ H = [strings |-> H.strings, quick |-> H.quick, slow |-> H.slow, indirect |-> H.indirect,
                nodes |-> H.nodes, sorted |-> H.sorted, merged |-> H.merged]
    BY <2>2 DEF nodes2, merged2
  <2>4. h2.nodes = h.nodes
    BY <1>7
  <2> QED
    BY <2>3, <2>4
<1> HIDE DEF N
<1>12. /\ N \in Seq({N[n] : n \in DOMAIN N}) /\ Len(N) = new /\ DOMAIN N = 1 .. new
       /\ N[new] = Branch(w, l, r)
       /\ \A n \in DOMAIN h.nodes : N[n] = IF n \in {l, r} THEN [h.nodes[n] EXCEPT !.up = new] ELSE h.nodes[n]
  <2> DEFINE M == [h.nodes EXCEPT ![l].up = new, ![r].up = new]
             S == {M[n] : n \in DOMAIN h.nodes} \union {Branch(w, l, r)}
  <2>1. M \in [1 .. Len(h.nodes) -> S]
    BY <1>1 DEF HasNodes
  <2>2. \A n \in DOMAIN h.nodes : M[n] = IF n \in {l, r} THEN [h.nodes[n] EXCEPT !.up = new] ELSE h.nodes[n]
    BY <1>1, <1>7 DEF HasNodes
  <2>3. N = Append(M, Branch(w, l, r)) /\ Branch(w, l, r) \in S
    BY <1>11
  <2> HIDE DEF M, S
  <2>4. M \in Seq(S) /\ Len(M) = Len(h.nodes) /\ DOMAIN M = DOMAIN h.nodes
    BY <2>1, <1>1, FunctionIsSeq
  <2>5. /\ N \in Seq(S) /\ Len(N) = new /\ DOMAIN N = 1 .. new /\ N[new] = Branch(w, l, r)
        /\ \A n \in DOMAIN h.nodes : N[n] = M[n]
    BY <2>3, <2>4, AppendFacts
  <2> DEFINE T == {N[n] : n \in DOMAIN N}
  <2>6. N \in [1 .. new -> T] /\ new \in Nat
    BY <2>5, <1>1
  <2> HIDE DEF T, new
  <2>7. N \in Seq(T)
    BY <2>6, FunctionIsSeq
  <2>8. N \in Seq({N[n] : n \in DOMAIN N})
    BY <2>7 DEF T
  <2> QED
    BY <2>2, <2>5, <2>8
<1>13. /\ IsNode(N[new]) /\ N[new].up = 0 /\ N[new].weight = w /\ N[new].kind = "branch"
       /\ N[new].left = l /\ N[new].right = r
  <2>1. {w, l, r} \subseteq Nat
    BY <1>1, <1>7
  <2>2. N[new] = Branch(w, l, r)
    BY <1>12
  <2> HIDE DEF w, l, r, new
  <2> QED
    BY <2>1, <2>2 DEF IsNode, Branch
<1>14. ASSUME NEW n \in DOMAIN h.nodes
       PROVE  /\ IsNode(N[n]) /\ N[n].kind = h.nodes[n].kind /\ N[n].weight = Weight(h, n)
              /\ N[n].left = h.nodes[n].left /\ N[n].right = h.nodes[n].right
              /\ N[n].up = IF n \in {l, r} THEN new ELSE h.nodes[n].up
  <2>1. IsNode(h.nodes[n])
    BY <1>1 DEF HasNodes
  <2>2. CASE n \in {l, r}
    <3> DEFINE x == h.nodes[n]
    <3>1. N[n] = [x EXCEPT !.up = new] /\ IsNode(x) /\ new \in Nat
      <4>1. N[n] = [h.nodes[n] EXCEPT !.up = new]
        BY <1>12, <2>2
      <4>2. new \in Nat
        BY <1>1
      <4> QED
        BY <4>1, <4>2, <2>1
    <3> HIDE DEF x, new
    <3>2. x = [kind |-> x.kind, ch |-> x.ch, weight |-> x.weight, part |-> x.part,
               left |-> x.left, right |-> x.right, up |-> x.up]
      BY <3>1 DEF IsNode
    <3>3. N[n] = [kind |-> x.kind, ch |-> x.ch, weight |-> x.weight, part |-> x.part,
                  left |-> x.left, right |-> x.right, up |-> new]
      BY <3>1, <3>2
    <3>4. IsNode(N[n])
      BY <3>1, <3>3 DEF IsNode
    <3> QED
      BY <3>3, <3>4, <2>2 DEF x, Weight
  <2>3. CASE n \notin {l, r}
    BY <1>12, <2>1, <2>3 DEF Weight
  <2> QED
    BY <2>2, <2>3
<1>15. new \notin DOMAIN h.nodes /\ DOMAIN N = DOMAIN h.nodes \union {new} /\ new \in DOMAIN N
  BY <1>1, <1>12
<1>16. new \in Nat \ {0} /\ DOMAIN h.nodes = 1 .. new - 1 /\ Len(N) = new /\ Len(h.nodes) = new - 1
  BY <1>1, <1>12
<1> HIDE DEF new, w
<1>17. /\ H.merged \in Seq(DOMAIN N) /\ H.sorted \in Seq(DOMAIN N)
       /\ Len(h2.merged) \in Nat /\ DOMAIN h2.merged = 1 .. Len(h2.merged)
       /\ DOMAIN H.merged = 1 .. Len(h2.merged) + 1
       /\ H.merged[Len(h2.merged) + 1] = new
       /\ \A i \in DOMAIN h2.merged : H.merged[i] = h2.merged[i]
       /\ Elements(H.merged) = Elements(h2.merged) \union {new}
  <2>1. h2.merged \in Seq(DOMAIN N) /\ h2.sorted \in Seq(DOMAIN N)
    BY <1>8, <1>15
  <2> QED
    <3> DEFINE S == DOMAIN N
               q == h2.merged
    <3>1. q \in Seq(S) /\ new \in S /\ H.merged = Append(q, new)
      BY <2>1, <1>11, <1>15
    <3> HIDE DEF S, q
    <3>2. LET t == Append(q, new)
          IN  /\ t \in Seq(S) /\ Len(t) = Len(q) + 1 /\ DOMAIN t = 1 .. Len(q) + 1
              /\ Len(q) \in Nat /\ DOMAIN q = 1 .. Len(q)
              /\ t[Len(q) + 1] = new /\ \A i \in DOMAIN q : t[i] = q[i]
              /\ Elements(t) = Elements(q) \union {new}
      BY <3>1, AppendFacts
    <3> QED
      BY <3>1, <3>2, <2>1, <1>11 DEF S, q
<1>18. Queued(H) = Queued(h2) \union {new}
  <2>1. /\ Queued(H) = Elements(H.sorted) \union Elements(H.merged)
        /\ Queued(h2) = Elements(h2.sorted) \union Elements(h2.merged)
    BY DEF Queued, Elements
  <2> QED
    BY <2>1, <1>11, <1>17
<1>19. HasNodes(H)
  <2>1. \A n \in DOMAIN N : IsNode(N[n])
    BY <1>13, <1>14, <1>15
  <2> QED
    BY <2>1, <1>11, <1>12, <1>17 DEF HasNodes, N
<1>20. /\ \A i \in DOMAIN h2.merged : N[h2.merged[i]].weight = Weight(h, h2.merged[i]) /\ h2.merged[i] \in DOMAIN h.nodes
       /\ \A i \in DOMAIN h2.sorted : N[h2.sorted[i]].weight = Weight(h, h2.sorted[i]) /\ h2.sorted[i] \in DOMAIN h.nodes
  BY <1>8, <1>14
<1>21. Ascending(N, H.sorted) /\ Ascending(N, H.merged)
  <2>1. Ascending(h.nodes, h2.sorted) /\ Ascending(h.nodes, h2.merged)
    BY <1>5, <1>7 DEF Lists
  <2>2. Ascending(N, H.sorted)
    <3> SUFFICES ASSUME NEW i \in DOMAIN h2.sorted, NEW j \in DOMAIN h2.sorted, i <= j
                 PROVE  N[h2.sorted[i]].weight <= N[h2.sorted[j]].weight
      BY <1>11 DEF Ascending
    <3>1. h.nodes[h2.sorted[i]].weight <= h.nodes[h2.sorted[j]].weight
      BY <2>1 DEF Ascending
    <3> QED
      BY <3>1, <1>20 DEF Weight
  <2>3. ASSUME NEW i \in DOMAIN H.merged, NEW j \in DOMAIN H.merged, i <= j
        PROVE  N[H.merged[i]].weight <= N[H.merged[j]].weight
    <3>1. CASE j \in DOMAIN h2.merged
      <4>1. i \in DOMAIN h2.merged
        BY <1>17, <2>3, <3>1
      <4>2. Weight(h, h2.merged[i]) <= Weight(h, h2.merged[j])
        BY <2>1, <2>3, <3>1, <4>1 DEF Ascending, Weight
      <4>3. /\ N[H.merged[i]].weight = Weight(h, h2.merged[i])
            /\ N[H.merged[j]].weight = Weight(h, h2.merged[j])
        BY <4>1, <3>1, <1>17, <1>20
      <4> QED
        BY <4>2, <4>3
    <3>2. CASE i \in DOMAIN h2.merged /\ j = Len(h2.merged) + 1
      BY <3>2, <1>9, <1>13, <1>17, <1>20
    <3>3. CASE i = Len(h2.merged) + 1 /\ j = Len(h2.merged) + 1
      BY <3>3, <1>7, <1>13, <1>17
    <3> QED
      BY <2>3, <3>1, <3>2, <3>3, <1>17
  <2> QED
    BY <2>2, <2>3 DEF Ascending
<1>22. NoneLighter(H)
  <2> SUFFICES ASSUME NEW i \in DOMAIN H.merged, NEW n \in Queued(H)
               PROVE  N[H.merged[i]].weight <= 2 * N[n].weight
    BY DEF NoneLighter, N
  <2>1. CASE i \in DOMAIN h2.merged /\ n \in Queued(h2)
    <3>1. Weight(h, h2.merged[i]) <= 2 * Weight(h, n)
      BY <1>5, <1>7, <2>1 DEF Lists, NoneLighter, Weight
    <3> QED
      BY <2>1, <3>1, <1>7, <1>14, <1>17, <1>20
  <2>2. CASE i \in DOMAIN h2.merged /\ n = new
    <3>1. Weight(h, h2.merged[i]) <= w /\ Weight(h, h2.merged[i]) \in Nat
      BY <2>2, <1>1, <1>9, <1>20
    <3>2. N[H.merged[i]].weight = Weight(h, h2.merged[i]) /\ N[n].weight = w
      BY <2>2, <1>13, <1>17, <1>20
    <3>3. w \in Nat
      BY <1>7
    <3> QED
      BY <3>1, <3>2, <3>3
  <2>3. CASE i = Len(h2.merged) + 1 /\ n \in Queued(h2)
    <3>1. Weight(h, n) \in Nat /\ w <= 2 * Weight(h, n)
      BY <2>3, <1>1, <1>7 DEF w
    <3> QED
      BY <2>3, <3>1, <1>7, <1>13, <1>14, <1>17
  <2>4. CASE i = Len(h2.merged) + 1 /\ n = new
    BY <2>4, <1>7, <1>13, <1>17
  <2> QED
    BY <2>1, <2>2, <2>3, <2>4, <1>17, <1>18
<1>23. WaitOnce(H)
  <2>1. WaitOnce(h2)
    BY <1>5 DEF Lists
  <2>2. \A i, j \in DOMAIN H.merged : H.merged[i] = H.merged[j] => i = j
    <3>1. \A i \in DOMAIN h2.merged : H.merged[i] # new
      BY <1>15, <1>17, <1>20
    <3>2. \A i \in DOMAIN H.merged : i \in DOMAIN h2.merged \/ i = Len(h2.merged) + 1
      BY <1>17
    <3> QED
      BY <2>1, <3>1, <3>2, <1>17 DEF WaitOnce
  <2>3. \A i \in DOMAIN H.sorted : \A j \in DOMAIN H.merged : H.sorted[i] # H.merged[j]
    <3>1. \A i \in DOMAIN h2.sorted : h2.sorted[i] # new
      BY <1>15, <1>20
    <3>2. \A i \in DOMAIN H.merged : i \in DOMAIN h2.merged \/ i = Len(h2.merged) + 1
      BY <1>17
    <3>3. \A i \in DOMAIN h2.sorted : \A j \in DOMAIN h2.merged : h2.sorted[i] # h2.merged[j]
      BY <2>1 DEF WaitOnce
    <3> QED
      BY <3>1, <3>2, <3>3, <1>11, <1>17
  <2> QED
    BY <2>1, <2>2, <2>3, <1>11 DEF WaitOnce
<1>24. Queued(H) = {n \in DOMAIN N : N[n].up = 0}
  <2>1. Queued(h) = {n \in DOMAIN h.nodes : h.nodes[n].up = 0}
    BY DEF SoundTree
  <2>2. \A n \in DOMAIN h.nodes : N[n].up = 0 <=> n \in Queued(h2)
    <3> SUFFICES ASSUME NEW n \in DOMAIN h.nodes  PROVE N[n].up = 0 <=> n \in Queued(h2)
      OBVIOUS
    <3>1. CASE n \in {l, r}
      BY <3>1, <1>7, <1>14, <1>16
    <3>2. CASE n \notin {l, r}
      BY <3>2, <2>1, <1>7, <1>14
    <3> QED
      BY <3>1, <3>2
  <2>3. Queued(h2) \subseteq DOMAIN h.nodes
    BY <1>7
  <2> QED
    BY <2>2, <2>3, <1>13, <1>15, <1>18
<1>25. Linked(N)
  <2>1. /\ Linked(h.nodes) /\ h.nodes[l].up = 0 /\ h.nodes[r].up = 0
        /\ \A n \in DOMAIN h.nodes : n \in 1 .. new - 1 /\ n # 0
    <3>1. Linked(h.nodes) /\ Queued(h) = {n \in DOMAIN h.nodes : h.nodes[n].up = 0}
      BY DEF SoundTree
    <3>2. \A n \in 1 .. new - 1 : n # 0
      BY <1>16
    <3> QED
      BY <3>1, <3>2, <1>7, <1>16
  <2>2. ASSUME NEW n \in DOMAIN N, N[n].kind = "branch"
        PROVE  /\ {N[n].left, N[n].right} \subseteq 1 .. n - 1
               /\ N[n].left # N[n].right
               /\ N[N[n].left].up = n /\ N[N[n].right].up = n
    <3>1. CASE n = new
      BY <3>1, <2>1, <1>7, <1>13, <1>14
    <3>2. CASE n \in DOMAIN h.nodes
      <4>1. /\ {h.nodes[n].left, h.nodes[n].right} \subseteq 1 .. n - 1
            /\ h.nodes[n].left # h.nodes[n].right
            /\ h.nodes[h.nodes[n].left].up = n /\ h.nodes[h.nodes[n].right].up = n
        BY <2>1, <2>2, <3>2, <1>14 DEF Linked
      <4>2. {h.nodes[n].left, h.nodes[n].right} \subseteq DOMAIN h.nodes
        BY <4>1, <3>2, <1>1
      <4>3. h.nodes[n].left \notin {l, r} /\ h.nodes[n].right \notin {l, r}
        BY <4>1, <2>1, <3>2
      <4> QED
        BY <4>1, <4>2, <4>3, <3>2, <1>14
    <3> QED
      BY <3>1, <3>2, <1>15
  <2>3. ASSUME NEW n \in DOMAIN N, N[n].up # 0
        PROVE  /\ N[n].up \in n + 1 .. Len(N)
               /\ N[N[n].up].kind = "branch"
               /\ n \in {N[N[n].up].left, N[N[n].up].right}
    <3>1. n \in DOMAIN h.nodes
      BY <2>3, <1>13, <1>15
    <3>2. CASE n \in {l, r}
      <4>1. N[n].up = new /\ n \in 1 .. new - 1
        BY <3>1, <3>2, <1>14, <1>16
      <4>2. new \in n + 1 .. Len(N)
        BY <4>1, <1>16
      <4> QED
        BY <3>2, <4>1, <4>2, <1>13
    <3>3. CASE n \notin {l, r}
      <4>1. N[n].up = h.nodes[n].up /\ h.nodes[n].up # 0
        BY <3>1, <3>3, <2>3, <1>14
      <4>2. /\ h.nodes[n].up \in n + 1 .. Len(h.nodes)
            /\ h.nodes[h.nodes[n].up].kind = "branch"
            /\ n \in {h.nodes[h.nodes[n].up].left, h.nodes[h.nodes[n].up].right}
        BY <4>1, <3>1, <2>1 DEF Linked
      <4>3. h.nodes[n].up \in DOMAIN h.nodes /\ h.nodes[n].up \in n + 1 .. Len(N)
        <5>1. n \in 1 .. new - 1 /\ h.nodes[n].up \in n + 1 .. new - 1
          BY <4>2, <3>1, <1>16
        <5> QED
          BY <5>1, <1>16
      <4> QED
        BY <4>1, <4>2, <4>3, <1>14
    <3> QED
      BY <3>2, <3>3
  <2> QED
    BY <2>2, <2>3 DEF Linked
<1>26. SoundTree(H)
  <2>1. N = H.nodes
    BY DEF N
  <2> QED
    BY <2>1, <1>19, <1>21, <1>22, <1>23, <1>24, <1>25 DEF SoundTree, Lists
<1> QED
  BY <1>10, <1>26 DEF Crash

(* The last node becomes the root (FinishTree). *)
LEMMA FinishTreeFacts ==
  ASSUME NEW h, SoundTree(h), ~MoreThanOne(h)
  PROVE  SoundTree(FinishTree(h))
PROOF
<1>1. CASE h.sorted = <<>>
  BY <1>1 DEF FinishTree
<1>2. CASE h.sorted # <<>>
  <2> DEFINE f == FinishTree(h)
  <2>1. /\ h.sorted \in Seq(DOMAIN h.nodes) /\ h.merged \in Seq(DOMAIN h.nodes)
        /\ \A n \in DOMAIN h.nodes : Weight(h, n) \in Nat
    BY DEF SoundTree, Lists, HasNodes, IsNode, Weight
  <2>2. h.merged = <<>> /\ Len(h.sorted) = 1
    <3> DEFINE a == Len(h.sorted)
               b == Len(h.merged)
    <3>1. a \in Nat /\ b \in Nat /\ a # 0 /\ ~(a + b >= 2)
      BY <2>1, <1>2, LenFacts DEF MoreThanOne
    <3> HIDE DEF a, b
    <3>2. a = 1 /\ b = 0
      BY <3>1
    <3>3. Len(h.sorted) = 1 /\ Len(h.merged) = 0
      BY <3>2 DEF a, b
    <3> QED
      BY <2>1, <3>3, LenFacts
  <2>3. f = [h EXCEPT !.merged = @ \o h.sorted, !.sorted = <<>>]
    BY <1>2 DEF FinishTree
  <2>4. h.merged \o h.sorted = h.sorted
    BY <2>1, <2>2
  <2> HIDE DEF f
  <2>5. /\ f.nodes = h.nodes /\ f.merged = h.sorted /\ f.sorted = <<>>
        /\ f = [strings |-> f.strings, quick |-> f.quick, slow |-> f.slow, indirect |-> f.indirect,
                nodes |-> f.nodes, sorted |-> f.sorted, merged |-> f.merged]
    BY <2>3, <2>4 DEF SoundTree, Lists, HasNodes
  <2>6. Queued(f) = Queued(h)
    BY <2>2, <2>5 DEF Queued
  <2>7. DOMAIN f.merged = {1} /\ Queued(h) = {h.sorted[1]} /\ h.sorted[1] \in DOMAIN h.nodes
    BY <2>1, <2>2, <2>5 DEF Queued
  <2>8. HasNodes(f)
    BY <2>1, <2>5 DEF SoundTree, Lists, HasNodes
  <2>9. Ascending(f.nodes, f.sorted) /\ Ascending(f.nodes, f.merged)
    BY <2>5 DEF SoundTree, Lists, Ascending
  <2>10. NoneLighter(f)
    BY <2>1, <2>5, <2>6, <2>7 DEF NoneLighter, Weight
  <2>11. WaitOnce(f)
    BY <2>5 DEF SoundTree, Lists, WaitOnce
  <2> QED
    BY <2>5, <2>6, <2>8, <2>9, <2>10, <2>11 DEF SoundTree, Lists, f
<1> QED
  BY <1>1, <1>2

----------------------------------------------------------------------------
(* Sets of numbers. *)

(* A set of natural numbers that is not empty has a least one.             *)
LEMMA LeastOf ==
  ASSUME NEW S, S \subseteq Nat, S # {}
  PROVE  \E m \in S : \A n \in S : m <= n
<1> DEFINE R == {ss \in Nat \X Nat : ss[1] < ss[2]}
<1>1. IsWellFoundedOn(R, Nat)
  <2>1. OpToRel(<, Nat) = R
    BY DEF OpToRel
  <2> QED BY <2>1, NatLessThanWellFounded
<1>2. PICK m \in S : \A n \in S : ~(<<n, m>> \in R)
  <2> HIDE DEF R
  <2> QED BY <1>1, WFMin
<1>3. \A n \in S : ~(n < m)
  BY <1>2
<1> QED BY <1>3

(* A set with 0, and with n + 1 if it has n, has every natural number.     *)
LEMMA Induction ==
  ASSUME NEW S, 0 \in S, \A n \in Nat : n \in S => n + 1 \in S
  PROVE  \A n \in Nat : n \in S
<1> SUFFICES ASSUME Nat \ S # {} PROVE FALSE
  OBVIOUS
<1>1. PICK m \in Nat \ S : \A n \in Nat \ S : m <= n
  BY LeastOf
<1>2. m # 0 /\ m - 1 \in Nat /\ m - 1 \in S
  BY <1>1
<1> QED BY <1>1, <1>2

(* A set of numbers up to n has a greatest.                                *)
LEMMA MaxFacts ==
  ASSUME NEW n \in Nat, NEW s \in SUBSET (1..n), s # {}
  PROVE  Max(s) \in s /\ \A x \in s : Max(s) >= x
<1> DEFINE S == {k \in Nat : n - k \in s}
<1>1. S \subseteq Nat /\ S # {}
  <2>1. PICK x \in s : TRUE
    OBVIOUS
  <2>2. n - x \in Nat /\ n - (n - x) = x
    OBVIOUS
  <2>3. n - x \in S
    BY <2>2
  <2> QED BY <2>3
<1>2. PICK k \in S : \A j \in S : k <= j
  <2> HIDE DEF S
  <2> QED BY <1>1, LeastOf
<1>3. n - k \in s
  OBVIOUS
<1>4. ASSUME NEW x \in s PROVE n - k >= x
  <2>1. n - x \in Nat /\ n - (n - x) = x
    OBVIOUS
  <2>2. n - x \in S
    BY <2>1
  <2>3. k <= n - x
    BY <1>2, <2>2
  <2> QED BY <2>3
<1> QED BY <1>3, <1>4 DEF Max

(* The numbers up to k + 1 without the greatest are those up to k.         *)
LEMMA UpToFacts ==
  ASSUME NEW k \in Nat
  PROVE  /\ Max(1..(k + 1)) = k + 1
         /\ (1..(k + 1)) \ {k + 1} = 1..k
         /\ 1..(k + 1) # {}
         /\ 1..0 = {}
<1>1. 1..(k + 1) \in SUBSET (1..(k + 1)) /\ k + 1 \in 1..(k + 1)
  OBVIOUS
<1>2. /\ Max(1..(k + 1)) \in 1..(k + 1)
      /\ \A x \in 1..(k + 1) : Max(1..(k + 1)) >= x
  <2> DEFINE n == k + 1
             s == 1..n
  <2>1. n \in Nat /\ s \in SUBSET (1..n) /\ s # {}
    BY <1>1
  <2>2. Max(s) \in s /\ \A x \in s : Max(s) >= x
    <3> HIDE DEF n
    <3> QED BY <2>1, MaxFacts
  <2> QED BY <2>2
<1> DEFINE mx == Max(1..(k + 1))
<1>3. mx \in 1..(k + 1) /\ mx >= k + 1
  BY <1>1, <1>2
<1> HIDE DEF mx
<1>4. mx = k + 1
  BY <1>3
<1> QED BY <1>4 DEF mx

----------------------------------------------------------------------------
(* Folds: over the characters of a string, the parts of a value, and the   *)
(* leaves that are merged.                                                 *)

\* The longer of the lists that are merged loses its first element to the output.
Taken(weight, st) ==
  LET s == IF Swap(weight, st.l, st.r) THEN [st EXCEPT !.l = st.r, !.r = st.l] ELSE st
  IN  [l |-> Tail(s.l), r |-> s.r, out |-> Append(s.out, s.l[1])]

StepOf(fold, weight, st, x) ==
  IF fold = "chars" THEN AddChar(st, x)
  ELSE IF fold = "parts" THEN AnalysePart(st, x) ELSE Taken(weight, st)

\* h folds over the sets of numbers up to N, the greatest last.
FoldsTo(fold, weight, base, seq, N, h) ==
  h = [s \in SUBSET (1..N) |->
         IF s = {} THEN base ELSE StepOf(fold, weight, h[s \ {Max(s)}], seq[Max(s)])]

(* There is a function that folds.                                         *)
LEMMA FoldExists ==
  ASSUME NEW fold, NEW weight, NEW base, NEW seq, NEW N \in Nat
  PROVE  \E h : FoldsTo(fold, weight, base, seq, N, h)
<1> DEFINE Is(m, h) == FoldsTo(fold, weight, base, seq, m, h)
           G == {m \in Nat : \E h : Is(m, h)}
<1>1. 0 \in G
  <2> DEFINE h == [s \in SUBSET (1..0) |-> base]
  <2>1. \A s \in SUBSET (1..0) : s = {}
    OBVIOUS
  <2>2. h = [s \in SUBSET (1..0) |->
              IF s = {} THEN base ELSE StepOf(fold, weight, h[s \ {Max(s)}], seq[Max(s)])]
    BY Zenon, <2>1
  <2>3. Is(0, h)
    BY <2>2 DEF FoldsTo
  <2> HIDE DEF h, Is
  <2> QED BY <2>3
<1>2. ASSUME NEW m \in Nat, m \in G PROVE m + 1 \in G
  <2>1. PICK h : Is(m, h)
    <3> HIDE DEF Is
    <3> QED BY <1>2
  <2>2. \A s \in SUBSET (1..m) :
          h[s] = IF s = {} THEN base ELSE StepOf(fold, weight, h[s \ {Max(s)}], seq[Max(s)])
    <3>1. h = [s \in SUBSET (1..m) |->
                IF s = {} THEN base ELSE StepOf(fold, weight, h[s \ {Max(s)}], seq[Max(s)])]
      BY <2>1 DEF FoldsTo
    <3> QED BY Zenon, <3>1
  <2> DEFINE M == m + 1
             D == SUBSET (1..M)
             E == SUBSET (1..m)
             g == [s \in D |-> IF M \in s THEN StepOf(fold, weight, h[s \ {M}], seq[M]) ELSE h[s]]
  <2>3. ASSUME NEW s \in D
        PROVE  /\ s \ {M} \in D /\ s \ {M} \in E
               /\ M \notin s => s \in E
    OBVIOUS
  <2>4. ASSUME NEW s \in D
        PROVE  g[s] = IF s = {} THEN base ELSE StepOf(fold, weight, g[s \ {Max(s)}], seq[Max(s)])
    <3>1. CASE M \in s
      <4>1. Max(s) = M
        <5>1. M \in Nat /\ s # {}
          BY <3>1
        <5>2. Max(s) \in s /\ \A x \in s : Max(s) >= x
          <6> HIDE DEF M
          <6> QED BY <5>1, MaxFacts
        <5> DEFINE mx == Max(s)
        <5>3. mx \in 1..M /\ mx >= M
          BY <3>1, <5>2
        <5> HIDE DEF mx
        <5>4. mx = M
          BY <5>3
        <5> QED BY <5>4 DEF mx
      <4>2. g[s] = StepOf(fold, weight, h[s \ {M}], seq[M])
        <5> HIDE DEF M, D
        <5> QED BY Zenon, <3>1
      <4>3. g[s \ {M}] = h[s \ {M}]
        <5>1. s \ {M} \in D /\ M \notin s \ {M}
          BY <2>3
        <5> HIDE DEF M, D
        <5> QED BY Zenon, <5>1
      <4>4. s # {}
        BY <3>1
      <4> HIDE DEF g, M, D
      <4> QED BY Zenon, <4>1, <4>2, <4>3, <4>4
    <3>2. CASE M \notin s
      <4>1. s \in E
        BY <2>3, <3>2
      <4>2. g[s] = h[s]
        <5> HIDE DEF M, D
        <5> QED BY Zenon, <3>2
      <4>3. CASE s = {}
        <5> HIDE DEF g, M, D, E
        <5> QED BY Zenon, <2>2, <4>1, <4>2, <4>3 DEF E
      <4>4. CASE s # {}
        <5>1. Max(s) \in s
          BY <4>1, <4>4, MaxFacts
        <5>2. s \ {Max(s)} \in D /\ M \notin s \ {Max(s)}
          BY <3>2
        <5>3. g[s \ {Max(s)}] = h[s \ {Max(s)}]
          <6> HIDE DEF M, D
          <6> QED BY Zenon, <5>2
        <5>4. h[s] = StepOf(fold, weight, h[s \ {Max(s)}], seq[Max(s)])
          <6> HIDE DEF M, D, g
          <6> QED BY Zenon, <2>2, <4>1, <4>4
        <5> HIDE DEF g, M, D
        <5> QED BY Zenon, <4>2, <4>4, <5>3, <5>4
      <4> QED BY <4>3, <4>4
    <3> QED BY <3>1, <3>2
  <2>5. g = [s \in D |-> IF s = {} THEN base
                         ELSE StepOf(fold, weight, g[s \ {Max(s)}], seq[Max(s)])]
    <3> DEFINE F(s) == IF s = {} THEN base ELSE StepOf(fold, weight, g[s \ {Max(s)}], seq[Max(s)])
    <3>1. \A s \in D : g[s] = F(s)
      BY <2>4
    <3>2. g = [s \in D |-> g[s]]
      <4> HIDE DEF D, M
      <4> QED BY Zenon
    <3> HIDE DEF g, D, F
    <3>3. [s \in D |-> g[s]] = [s \in D |-> F(s)]
      BY Zenon, <3>1
    <3>4. g = [s \in D |-> F(s)]
      BY Zenon, <3>2, <3>3
    <3> QED BY Zenon, <3>4 DEF F
  <2>6. Is(m + 1, g)
    <3> HIDE DEF g
    <3> QED BY <2>5 DEF FoldsTo
  <2> HIDE DEF Is, g
  <2> QED BY <2>6
<1>3. N \in G
  <2> HIDE DEF G
  <2> QED BY <1>1, <1>2, Induction
<1> HIDE DEF Is
<1>4. \E h : Is(N, h)
  BY <1>3
<1> QED BY <1>4 DEF Is

\* f goes through a sequence, one element after the other.
Unrolls(fold, weight, base, seq, f, end) ==
  /\ DOMAIN f = 0..Len(seq)
  /\ f[0] = base
  /\ \A n \in 1..Len(seq) : f[n] = StepOf(fold, weight, f[n - 1], seq[n])
  /\ f[Len(seq)] = end

(* Such a fold has a state after each element. *)
LEMMA FoldUnrolls ==
  ASSUME NEW fold, NEW weight, NEW base, NEW seq, NEW g,
         Len(seq) \in Nat, FoldsTo(fold, weight, base, seq, Len(seq), g)
  PROVE  \E f : Unrolls(fold, weight, base, seq, f, g[1..Len(seq)])
<1> DEFINE N == Len(seq)
           f == [k \in 0..N |-> g[1..k]]
<1>1. ASSUME NEW s \in SUBSET (1..N)
      PROVE  g[s] = IF s = {} THEN base
                    ELSE StepOf(fold, weight, g[s \ {Max(s)}], seq[Max(s)])
  <2>1. g = [s_ \in SUBSET (1..N) |->
              IF s_ = {} THEN base
              ELSE StepOf(fold, weight, g[s_ \ {Max(s_)}], seq[Max(s_)])]
    BY DEF FoldsTo
  <2> HIDE DEF N
  <2> QED BY Zenon, <2>1
<1>2. f[0] = base
  <2>1. 1..0 = {} /\ 0 \in 0..N
    OBVIOUS
  <2>2. f[0] = g[{}]
    <3> HIDE DEF N
    <3> QED BY <2>1
  <2>3. g[{}] = base
    <3> HIDE DEF N
    <3> QED BY Zenon, <1>1
  <2> HIDE DEF f
  <2> QED BY <2>2, <2>3
<1>3. ASSUME NEW n \in 1..N PROVE f[n] = StepOf(fold, weight, f[n - 1], seq[n])
  <2> DEFINE k == n - 1
             s == 1..(k + 1)
  <2>1. k \in Nat /\ k + 1 = n /\ k \in 0..N /\ n \in 0..N
    OBVIOUS
  <2>2. Max(s) = k + 1 /\ s \ {k + 1} = 1..k /\ s # {}
    <3> HIDE DEF k
    <3> QED BY <2>1, UpToFacts
  <2>3. f[n] = g[s] /\ f[k] = g[1..k]
    <3> HIDE DEF k, N
    <3> QED BY <2>1
  <2>4. s \in SUBSET (1..N)
    <3>1. N \in Nat
      OBVIOUS
    <3> HIDE DEF k, N
    <3> QED BY <2>1, <3>1
  <2>5. g[s] = IF s = {} THEN base
               ELSE StepOf(fold, weight, g[s \ {Max(s)}], seq[Max(s)])
    <3> HIDE DEF s, N
    <3> QED BY <1>1, <2>4
  <2> HIDE DEF k, s, f
  <2> QED BY Zenon, <2>1, <2>2, <2>3, <2>5 DEF k
<1>4. f[N] = g[1..N]
  <2>1. N \in 0..N
    OBVIOUS
  <2> HIDE DEF N
  <2> QED BY <2>1
<1>5. DOMAIN f = 0..N
  OBVIOUS
<1>6. Unrolls(fold, weight, base, seq, f, g[1..N])
  <2> HIDE DEF f
  <2> QED BY <1>2, <1>3, <1>4, <1>5 DEF Unrolls
<1> HIDE DEF f
<1> QED BY <1>6

(* Counting the characters of a string, one after the other.               *)
LEMMA CharsFold ==
  ASSUME NEW h, NEW chars \in Seq(Nat)
  PROVE  \E f : Unrolls("chars", <<>>, h, chars, f, AnalyseStr(h, chars))
<1> DEFINE N == Len(chars)
           Is(g) == g = [s \in SUBSET DOMAIN chars |->
                           IF s = {} THEN h ELSE AddChar(g[s \ {Max(s)}], chars[Max(s)])]
           g == CHOOSE g : Is(g)
<1>1. AnalyseStr(h, chars) = g[DOMAIN chars]
  BY Zenon DEF AnalyseStr, FoldLeft, MapThenFoldSet, Max
<1>2. N \in Nat /\ DOMAIN chars = 1..N
  OBVIOUS
<1>3. \A st, x : StepOf("chars", <<>>, st, x) = AddChar(st, x)
  BY Zenon DEF StepOf
<1>4. \A G : FoldsTo("chars", <<>>, h, chars, N, G) <=> Is(G)
  <2> HIDE DEF N
  <2> QED BY Zenon, <1>2, <1>3 DEF FoldsTo
<1>5. PICK G : FoldsTo("chars", <<>>, h, chars, N, G)
  <2> HIDE DEF N
  <2> QED BY <1>2, FoldExists
<1>6. Is(g)
  <2>1. Is(G)
    BY <1>4, <1>5
  <2> HIDE DEF Is
  <2> QED BY <2>1
<1> HIDE DEF g
<1>7. FoldsTo("chars", <<>>, h, chars, N, g)
  <2> HIDE DEF Is
  <2> QED BY <1>4, <1>6
<1>8. \E f : Unrolls("chars", <<>>, h, chars, f, g[1..N])
  BY <1>2, <1>7, FoldUnrolls
<1> QED BY <1>1, <1>2, <1>8


(* Counting the parts of a value.                                          *)
LEMMA PartsFold ==
  ASSUME NEW base, NEW parts, Len(parts) \in Nat, DOMAIN parts = 1..Len(parts)
  PROVE  \E f : Unrolls("parts", <<>>, base, parts, f, FoldLeft(AnalysePart, base, parts))
<1> DEFINE N == Len(parts)
           Is(g) == g = [s \in SUBSET DOMAIN parts |->
                           IF s = {} THEN base ELSE AnalysePart(g[s \ {Max(s)}], parts[Max(s)])]
           g == CHOOSE g : Is(g)
<1>1. FoldLeft(AnalysePart, base, parts) = g[DOMAIN parts]
  BY Zenon DEF FoldLeft, MapThenFoldSet, Max
<1>2. N \in Nat /\ DOMAIN parts = 1..N
  OBVIOUS
<1>3. \A st, x : StepOf("parts", <<>>, st, x) = AnalysePart(st, x)
  BY DEF StepOf
<1>4. \A G : FoldsTo("parts", <<>>, base, parts, N, G) <=> Is(G)
  <2> HIDE DEF N
  <2> QED BY Zenon, <1>2, <1>3 DEF FoldsTo
<1>5. PICK G : FoldsTo("parts", <<>>, base, parts, N, G)
  <2> HIDE DEF N
  <2> QED BY <1>2, FoldExists
<1>6. Is(g)
  <2>1. Is(G)
    BY <1>4, <1>5
  <2> HIDE DEF Is
  <2> QED BY <2>1
<1> HIDE DEF g
<1>7. FoldsTo("parts", <<>>, base, parts, N, g)
  <2> HIDE DEF Is
  <2> QED BY <1>4, <1>6
<1>8. \E f : Unrolls("parts", <<>>, base, parts, f, g[1..N])
  BY <1>2, <1>7, FoldUnrolls
<1> QED BY <1>1, <1>2, <1>8

Places(n) == [i \in 1..n |-> i]
Dealt(left, right) == [l |-> left, r |-> right, out |-> <<>>]

(* Merging two lists of leaves.                                            *)
LEMMA MergeFold ==
  ASSUME NEW weight, NEW left \in Seq(Nat), NEW right \in Seq(Nat)
  PROVE  \E f, end : /\ Unrolls("merge", weight, Dealt(left, right), Places(Len(left) + Len(right)), f, end)
                     /\ MergeSorted(weight, left, right) = end.out
<1> DEFINE N == Len(left) + Len(right)
           seq == Places(N)
           base == Dealt(left, right)
           Is(g) == g = [s \in SUBSET DOMAIN seq |->
                           IF s = {} THEN base ELSE Taken(weight, g[s \ {Max(s)}])]
           g == CHOOSE g : Is(g)
<1>1. DOMAIN (left \o right) = 1..N /\ N \in Nat
  OBVIOUS
<1>2. [i \in DOMAIN (left \o right) |-> i] = seq
  <2> HIDE DEF N
  <2> QED BY <1>1 DEF Places
<1>3. MergeSorted(weight, left, right) = g[DOMAIN seq].out
  <2> DEFINE joined == left \o right
  <2>1. [i \in DOMAIN joined |-> i] = seq
    BY <1>2
  <2>2. MergeSorted(weight, left, right) = (FoldLeft(LAMBDA st, i : Taken(weight, st), base, [i \in DOMAIN joined |-> i])).out
    BY Zenon DEF MergeSorted, FoldLeftDomain, Taken, Dealt
  <2> HIDE DEF joined, base, N, seq
  <2>3. MergeSorted(weight, left, right) = (FoldLeft(LAMBDA st, i : Taken(weight, st), base, seq)).out
    BY Zenon, <2>1, <2>2
  <2> QED BY Zenon, <2>3 DEF FoldLeft, MapThenFoldSet, Max
<1>4. DOMAIN seq = 1..N /\ Len(seq) = N
  <2> HIDE DEF N
  <2> QED BY <1>1 DEF Places
<1>5. \A st, x : StepOf("merge", weight, st, x) = Taken(weight, st)
  BY DEF StepOf
<1> HIDE DEF N
<1>6. \A G : FoldsTo("merge", weight, base, seq, N, G) <=> Is(G)
  <2> HIDE DEF base, seq
  <2> QED BY Zenon, <1>4, <1>5 DEF FoldsTo
<1> HIDE DEF base, seq
<1>7. PICK G : FoldsTo("merge", weight, base, seq, N, G)
  BY <1>1, FoldExists
<1>8. Is(g)
  <2>1. Is(G)
    BY <1>6, <1>7
  <2> HIDE DEF Is
  <2> QED BY <2>1
<1> HIDE DEF g
<1>9. FoldsTo("merge", weight, base, seq, N, g)
  <2> HIDE DEF Is
  <2> QED BY <1>6, <1>8
<1>10. \E f : Unrolls("merge", weight, base, seq, f, g[1..N])
  BY <1>1, <1>4, <1>9, FoldUnrolls
<1> QED BY <1>3, <1>4, <1>10 DEF N, base, seq

----------------------------------------------------------------------------
(* The merge sort.                                                         *)

\* The two lists that a sequence is dealt out to, last first.
FirstHand(s) == [k \in 1 .. Len(s) \div 2 |-> s[Len(s) + 1 - 2 * k]]
SecondHand(s) == [k \in 1 .. (Len(s) + 1) \div 2 |-> s[Len(s) + 2 - 2 * k]]

SortStep(weight, h, s) ==
  IF Len(s) <= 1 THEN s ELSE MergeSorted(weight, h[FirstHand(s)], h[SecondHand(s)])

UpTo(n) == {s \in Seq(Nat) : Len(s) <= n}

SortsTo(weight, n, h) == h = [s \in UpTo(n) |-> SortStep(weight, h, s)]

(* Each hand has less, and together they have what was dealt.              *)
LEMMA HandFacts ==
  ASSUME NEW T, NEW s \in Seq(T), Len(s) > 1
  PROVE  /\ FirstHand(s) \in Seq(T) /\ SecondHand(s) \in Seq(T)
         /\ Len(FirstHand(s)) \in 1 .. Len(s) - 1 /\ Len(SecondHand(s)) \in 1 .. Len(s) - 1
         /\ Len(FirstHand(s)) + Len(SecondHand(s)) = Len(s)
<1> DEFINE n == Len(s)
           a == n \div 2
           b == (n + 1) \div 2
<1>1. n \in Nat /\ n > 1 /\ DOMAIN s = 1 .. n /\ \A i \in 1 .. n : s[i] \in T
  OBVIOUS
<1> HIDE DEF n
<1>2. /\ a \in 1 .. n - 1 /\ b \in 1 .. n - 1 /\ a + b = n
      /\ 2 * a <= n /\ 2 * b <= n + 1
  BY <1>1
<1> HIDE DEF a, b
<1>3. /\ \A k \in 1 .. a : n + 1 - 2 * k \in 1 .. n
      /\ \A k \in 1 .. b : n + 2 - 2 * k \in 1 .. n
  BY <1>1, <1>2
<1>4. /\ FirstHand(s) = [k \in 1 .. a |-> s[n + 1 - 2 * k]]
      /\ SecondHand(s) = [k \in 1 .. b |-> s[n + 2 - 2 * k]]
  BY DEF FirstHand, SecondHand, a, b, n
<1>5. FirstHand(s) \in [1 .. a -> T] /\ SecondHand(s) \in [1 .. b -> T]
  BY <1>1, <1>3, <1>4
<1>6. /\ FirstHand(s) \in Seq(T) /\ Len(FirstHand(s)) = a
      /\ SecondHand(s) \in Seq(T) /\ Len(SecondHand(s)) = b
  <2>1. a \in Nat /\ b \in Nat
    BY <1>2
  <2> QED BY <2>1, <1>5, FunctionIsSeq
<1> QED BY <1>2, <1>6 DEF n

(* A step of the sort only looks at what is shorter.                       *)
LEMMA SortStepLocal ==
  ASSUME NEW weight, NEW g, NEW h, NEW s \in Seq(Nat),
         \A q \in Seq(Nat) : Len(q) < Len(s) => g[q] = h[q]
  PROVE  SortStep(weight, g, s) = SortStep(weight, h, s)
<1>1. CASE Len(s) <= 1
  BY <1>1 DEF SortStep
<1>2. CASE ~(Len(s) <= 1)
  <2>1. Len(s) \in Nat
    OBVIOUS
  <2>2. Len(s) > 1
    BY <1>2, <2>1
  <2>3. /\ FirstHand(s) \in Seq(Nat) /\ SecondHand(s) \in Seq(Nat)
        /\ Len(FirstHand(s)) \in 1 .. Len(s) - 1 /\ Len(SecondHand(s)) \in 1 .. Len(s) - 1
    BY <2>2, HandFacts
  <2>4. Len(FirstHand(s)) < Len(s) /\ Len(SecondHand(s)) < Len(s)
    BY <2>1, <2>3
  <2>5. g[FirstHand(s)] = h[FirstHand(s)] /\ g[SecondHand(s)] = h[SecondHand(s)]
    BY <2>3, <2>4
  <2> QED BY Zenon, <2>5, <1>2 DEF SortStep
<1> QED BY <1>1, <1>2

(* There is a function that sorts what is no longer than any number. *)
LEMMA SortExists ==
  ASSUME NEW weight
  PROVE  \A n \in Nat : \E h : SortsTo(weight, n, h)
<1> DEFINE G == {n \in Nat : \E h : SortsTo(weight, n, h)}
<1>1. 0 \in G
  <2> DEFINE h == [s \in UpTo(0) |-> s]
  <2>1. \A s \in UpTo(0) : Len(s) <= 1
    <3>1. ASSUME NEW s \in Seq(Nat), Len(s) <= 0 PROVE Len(s) <= 1
      <4> DEFINE n == Len(s)
      <4>1. n \in Nat /\ n <= 0
        BY <3>1
      <4> HIDE DEF n
      <4>2. n <= 1
        BY <4>1
      <4> QED BY <4>2 DEF n
    <3> QED BY <3>1 DEF UpTo
  <2>2. h = [s \in UpTo(0) |-> SortStep(weight, h, s)]
    BY Zenon, <2>1 DEF SortStep
  <2>3. SortsTo(weight, 0, h)
    BY <2>2 DEF SortsTo
  <2> HIDE DEF h
  <2> QED BY <2>3
<1>2. ASSUME NEW n \in Nat, n \in G PROVE n + 1 \in G
  <2>1. PICK h : SortsTo(weight, n, h)
    BY <1>2
  <2> DEFINE D == UpTo(n + 1)
             g == [s \in D |-> IF Len(s) <= n THEN h[s] ELSE SortStep(weight, h, s)]
  <2>2. ASSUME NEW s \in D PROVE g[s] = SortStep(weight, g, s)
    <3>1. s \in Seq(Nat) /\ Len(s) \in Nat /\ Len(s) <= n + 1
      BY DEF UpTo
    <3>2. ASSUME NEW q \in Seq(Nat), Len(q) < Len(s) PROVE g[q] = h[q]
      <4>1. Len(q) \in Nat
        OBVIOUS
      <4>2. Len(q) <= n /\ Len(q) <= n + 1
        BY <3>1, <3>2, <4>1
      <4>3. q \in D
        BY <4>2 DEF UpTo
      <4> HIDE DEF D
      <4> QED BY Zenon, <4>2, <4>3
    <3>3. SortStep(weight, g, s) = SortStep(weight, h, s)
      <4> HIDE DEF g
      <4> QED BY <3>1, <3>2, SortStepLocal
    <3>4. CASE Len(s) <= n
      <4>1. s \in UpTo(n)
        BY <3>1, <3>4 DEF UpTo
      <4>2. h[s] = SortStep(weight, h, s)
        <5>1. h = [q \in UpTo(n) |-> SortStep(weight, h, q)]
          BY <2>1 DEF SortsTo
        <5> QED BY Zenon, <4>1, <5>1
      <4>3. g[s] = h[s]
        <5> HIDE DEF D
        <5> QED BY Zenon, <3>4
      <4> HIDE DEF g
      <4> QED BY Zenon, <3>3, <4>2, <4>3
    <3>5. CASE ~(Len(s) <= n)
      <4>1. g[s] = SortStep(weight, h, s)
        <5> HIDE DEF D
        <5> QED BY Zenon, <3>5
      <4> HIDE DEF g
      <4> QED BY Zenon, <3>3, <4>1
    <3> QED BY <3>4, <3>5
  <2>3. g = [s \in D |-> SortStep(weight, g, s)]
    <3>1. g = [s \in D |-> g[s]]
      <4> HIDE DEF D
      <4> QED BY Zenon
    <3> HIDE DEF g, D
    <3>2. [s \in D |-> g[s]] = [s \in D |-> SortStep(weight, g, s)]
      BY Zenon, <2>2
    <3> QED BY Zenon, <3>1, <3>2
  <2>4. SortsTo(weight, n + 1, g)
    <3> HIDE DEF g
    <3> QED BY <2>3 DEF SortsTo
  <2> HIDE DEF g
  <2> QED BY <2>4
<1> HIDE DEF G
<1>3. \A n \in Nat : n \in G
  BY <1>1, <1>2, Induction
<1> QED BY <1>3 DEF G

(* Two such functions agree where both are defined.                        *)
LEMMA SortUnique ==
  ASSUME NEW weight, NEW m \in Nat, NEW n \in Nat, m <= n,
         NEW g, SortsTo(weight, m, g), NEW h, SortsTo(weight, n, h)
  PROVE  \A s \in UpTo(m) : g[s] = h[s]
<1> DEFINE G == {k \in Nat : \A s \in UpTo(m) : Len(s) <= k => g[s] = h[s]}
<1>1. /\ \A s \in UpTo(m) : g[s] = SortStep(weight, g, s)
      /\ \A s \in UpTo(n) : h[s] = SortStep(weight, h, s)
  <2>1. /\ g = [s \in UpTo(m) |-> SortStep(weight, g, s)]
        /\ h = [s \in UpTo(n) |-> SortStep(weight, h, s)]
    BY DEF SortsTo
  <2> QED BY Zenon, <2>1
<1>2. ASSUME NEW s \in UpTo(m), \A q \in Seq(Nat) : Len(q) < Len(s) => g[q] = h[q]
      PROVE  g[s] = h[s]
  <2>1. s \in Seq(Nat) /\ s \in UpTo(n)
    <3>1. s \in Seq(Nat) /\ Len(s) \in Nat /\ Len(s) <= m
      BY DEF UpTo
    <3>2. Len(s) <= n
      BY <3>1
    <3> QED BY <3>1, <3>2 DEF UpTo
  <2>2. SortStep(weight, g, s) = SortStep(weight, h, s)
    BY <1>2, <2>1, SortStepLocal
  <2> QED BY Zenon, <1>1, <2>1, <2>2
<1>3. 0 \in G
  <2>1. ASSUME NEW s \in UpTo(m), Len(s) <= 0 PROVE g[s] = h[s]
    <3>1. ASSUME NEW q \in Seq(Nat), Len(q) < Len(s) PROVE FALSE
      <4>1. Len(q) \in Nat /\ Len(s) \in Nat
        BY DEF UpTo
      <4> QED BY <2>1, <3>1, <4>1
    <3> QED BY <1>2, <3>1
  <2> QED BY <2>1
<1>4. ASSUME NEW k \in Nat, k \in G PROVE k + 1 \in G
  <2>1. ASSUME NEW s \in UpTo(m), Len(s) <= k + 1 PROVE g[s] = h[s]
    <3>1. ASSUME NEW q \in Seq(Nat), Len(q) < Len(s) PROVE g[q] = h[q]
      <4>1. Len(q) \in Nat /\ Len(s) \in Nat /\ Len(s) <= m
        BY DEF UpTo
      <4>2. Len(q) <= k /\ Len(q) <= m
        BY <2>1, <3>1, <4>1
      <4>3. q \in UpTo(m)
        BY <4>2 DEF UpTo
      <4> QED BY <1>4, <4>2, <4>3
    <3> QED BY <1>2, <3>1
  <2> QED BY <2>1
<1> HIDE DEF G
<1>5. \A k \in Nat : k \in G
  BY <1>3, <1>4, Induction
<1>6. m \in G
  BY <1>5
<1> QED BY <1>6 DEF G, UpTo

(* The function that sorts is defined on every sequence.                   *)
LEMMA SortRecursion ==
  ASSUME NEW weight
  PROVE  \E f : /\ \A s \in Seq(Nat) : f[s] = SortStep(weight, f, s)
                /\ \A s : SortByWeight(weight, s) = f[s]
<1> DEFINE of(n) == CHOOSE h : SortsTo(weight, n, h)
           F == [s \in Seq(Nat) |-> of(Len(s))[s]]
           Is(f) == f = [s \in Seq(Nat) |->
                          LET n == Len(s)
                          IN  IF n <= 1 THEN s
                              ELSE MergeSorted(weight, f[[k \in 1 .. n \div 2 |-> s[n + 1 - 2 * k]]],
                                                       f[[k \in 1 .. (n + 1) \div 2 |-> s[n + 2 - 2 * k]]])]
           f == CHOOSE f : Is(f)
<1>1. \A n \in Nat : SortsTo(weight, n, of(n))
  BY SortExists
<1> HIDE DEF of
<1>2. ASSUME NEW s \in Seq(Nat) PROVE F[s] = SortStep(weight, F, s)
  <2> DEFINE h == of(Len(s))
  <2>1. Len(s) \in Nat /\ s \in UpTo(Len(s))
    BY DEF UpTo
  <2>2. h[s] = SortStep(weight, h, s)
    <3>1. h = [q \in UpTo(Len(s)) |-> SortStep(weight, h, q)]
      BY <1>1, <2>1 DEF SortsTo
    <3> HIDE DEF h
    <3> QED BY Zenon, <2>1, <3>1
  <2>3. ASSUME NEW q \in Seq(Nat), Len(q) < Len(s) PROVE F[q] = h[q]
    <3>1. Len(q) \in Nat /\ Len(q) <= Len(s) /\ q \in UpTo(Len(q))
      BY <2>1, <2>3 DEF UpTo
    <3>2. of(Len(q))[q] = h[q]
      <4>1. SortsTo(weight, Len(q), of(Len(q))) /\ SortsTo(weight, Len(s), h)
        BY <1>1, <2>1, <3>1
      <4> HIDE DEF h
      <4> QED BY <2>1, <3>1, <4>1, SortUnique
    <3> QED BY <3>2
  <2>4. SortStep(weight, F, s) = SortStep(weight, h, s)
    <3> HIDE DEF F, h
    <3> QED BY <2>3, SortStepLocal
  <2>5. F[s] = h[s]
    OBVIOUS
  <2> HIDE DEF F, h
  <2> QED BY Zenon, <2>2, <2>4, <2>5
<1>3. \A g : Is(g) <=> g = [s \in Seq(Nat) |-> SortStep(weight, g, s)]
  BY Zenon DEF SortStep, FirstHand, SecondHand
<1>4. Is(F)
  <2>1. F = [s \in Seq(Nat) |-> F[s]]
    BY Zenon
  <2> HIDE DEF F, Is
  <2>2. [s \in Seq(Nat) |-> F[s]] = [s \in Seq(Nat) |-> SortStep(weight, F, s)]
    BY Zenon, <1>2
  <2>3. F = [s \in Seq(Nat) |-> SortStep(weight, F, s)]
    BY Zenon, <2>1, <2>2
  <2> QED BY <1>3, <2>3
<1>5. \A s : SortByWeight(weight, s) = f[s]
  BY Zenon DEF SortByWeight
<1>6. Is(f)
  <2> HIDE DEF Is, F
  <2> QED BY <1>4
<1> HIDE DEF f
<1>7. \A s \in Seq(Nat) : f[s] = SortStep(weight, f, s)
  <2>1. f = [s \in Seq(Nat) |-> SortStep(weight, f, s)]
    <3> HIDE DEF Is
    <3> QED BY <1>3, <1>6
  <2> QED BY Zenon, <2>1
<1> QED BY <1>5, <1>7

----------------------------------------------------------------------------
(* What the sort makes.                                                    *)

Lightest(weight, s) == \A i, j \in DOMAIN s : i <= j => weight[s[i]] <= weight[s[j]]
Once(s) == \A i, j \in DOMAIN s : s[i] = s[j] => i = j

\* t has what s has, in order.
SortOf(weight, T, s, t) ==
  /\ t \in Seq(T) /\ Len(t) = Len(s) /\ Elements(t) = Elements(s)
  /\ Lightest(weight, t) /\ Once(t)

\* The lists while they are merged: k of N elements, those of E, are in the output.
Merging(weight, T, E, N, k, st) ==
  /\ st = [l |-> st.l, r |-> st.r, out |-> st.out]
  /\ st.l \in Seq(T) /\ st.r \in Seq(T) /\ st.out \in Seq(T)
  /\ Len(st.out) = k /\ Len(st.l) + Len(st.r) = N - k
  /\ Lightest(weight, st.l) /\ Lightest(weight, st.r) /\ Lightest(weight, st.out)
  /\ Once(st.l) /\ Once(st.r) /\ Once(st.out)
  /\ Elements(st.l) \intersect Elements(st.r) = {}
  /\ Elements(st.out) \intersect (Elements(st.l) \union Elements(st.r)) = {}
  /\ Elements(st.out) \union Elements(st.l) \union Elements(st.r) = E
  /\ \A x \in Elements(st.out) : \A y \in Elements(st.l) \union Elements(st.r) : weight[x] <= weight[y]

(* A tail is in order if its sequence is. *)
LEMMA TailLightest ==
  ASSUME NEW weight, NEW s, NEW t, IsTail(t, s), Lightest(weight, s)
  PROVE  Lightest(weight, t)
<1> SUFFICES ASSUME NEW i \in DOMAIN t, NEW j \in DOMAIN t, i <= j
             PROVE  weight[t[i]] <= weight[t[j]]
  BY DEF Lightest
<1>1. /\ i + 1 \in DOMAIN s /\ j + 1 \in DOMAIN s /\ i + 1 <= j + 1
      /\ t[i] = s[i + 1] /\ t[j] = s[j + 1]
  BY DEF IsTail
<1>2. weight[s[i + 1]] <= weight[s[j + 1]]
  BY <1>1 DEF Lightest
<1> QED BY <1>1, <1>2

(* The first of a list is the lightest, and not in the rest.               *)
LEMMA FirstFacts ==
  ASSUME NEW weight, NEW T, NEW s \in Seq(T), s # <<>>, Lightest(weight, s), Once(s)
  PROVE  /\ Tail(s) \in Seq(T) /\ s[1] \in T /\ Len(Tail(s)) = Len(s) - 1 /\ Len(s) \in Nat
         /\ Elements(s) = {s[1]} \union Elements(Tail(s)) /\ s[1] \notin Elements(Tail(s))
         /\ Lightest(weight, Tail(s)) /\ Once(Tail(s))
         /\ \A y \in Elements(s) : weight[s[1]] <= weight[y]
<1> DEFINE t == Tail(s)
<1>1. t \in Seq(T) /\ s[1] \in T /\ IsTail(t, s)
  BY TailFacts
<1> HIDE DEF t
<1>2. Lightest(weight, t)
  BY <1>1, TailLightest
<1>3. Once(t)
  BY <1>1, TailDistinct DEF Once
<1>4. Elements(s) = {s[1]} \union Elements(t) /\ Len(t) = Len(s) - 1 /\ Len(s) \in Nat
  BY <1>1 DEF IsTail
<1>5. s[1] \notin Elements(t)
  <2> SUFFICES ASSUME NEW i \in DOMAIN t, t[i] = s[1] PROVE FALSE
    BY DEF Elements
  <2>1. i + 1 \in DOMAIN s /\ 1 \in DOMAIN s /\ s[i + 1] = s[1] /\ i \in Nat \ {0}
    BY <1>1 DEF IsTail
  <2>2. i + 1 = 1
    BY <2>1 DEF Once
  <2> QED BY <2>1, <2>2
<1>6. ASSUME NEW y \in Elements(s) PROVE weight[s[1]] <= weight[y]
  <2>1. PICK i \in DOMAIN s : y = s[i]
    BY DEF Elements
  <2>2. 1 \in DOMAIN s /\ 1 <= i
    BY <1>1 DEF IsTail
  <2> QED BY <2>1, <2>2 DEF Lightest
<1> QED BY <1>1, <1>2, <1>3, <1>4, <1>5, <1>6 DEF t

(* A list with one more element at its end, that is not in it and not      *)
(* lighter than any there.                                                 *)
LEMMA LastFacts ==
  ASSUME NEW T, NEW weight, NEW s \in Seq(T), NEW e \in T, Lightest(weight, s), Once(s),
         e \notin Elements(s), \A x \in Elements(s) : weight[x] <= weight[e], weight[e] \in Nat
  PROVE  /\ Append(s, e) \in Seq(T) /\ Len(Append(s, e)) = Len(s) + 1
         /\ Elements(Append(s, e)) = Elements(s) \union {e}
         /\ Lightest(weight, Append(s, e)) /\ Once(Append(s, e))
<1> DEFINE t == Append(s, e)
<1>1. /\ t \in Seq(T) /\ Len(t) = Len(s) + 1 /\ DOMAIN t = 1 .. Len(s) + 1
      /\ Len(s) \in Nat /\ DOMAIN s = 1 .. Len(s)
      /\ t[Len(s) + 1] = e /\ \A i \in DOMAIN s : t[i] = s[i]
      /\ Elements(t) = Elements(s) \union {e}
  BY AppendFacts
<1> HIDE DEF t
<1> DEFINE n == Len(s)
<1>2. \A i \in DOMAIN t : i \in DOMAIN s \/ i = n + 1
  BY <1>1
<1>3. \A i \in DOMAIN s : s[i] \in Elements(s) /\ i \in 1 .. n
  BY <1>1 DEF Elements
<1> HIDE DEF n
<1>4. Lightest(weight, t)
  <2> SUFFICES ASSUME NEW i \in DOMAIN t, NEW j \in DOMAIN t, i <= j
               PROVE  weight[t[i]] <= weight[t[j]]
    BY DEF Lightest
  <2>1. CASE i \in DOMAIN s /\ j \in DOMAIN s
    BY <2>1, <1>1 DEF Lightest
  <2>2. CASE i \in DOMAIN s /\ j = n + 1
    BY <2>2, <1>1, <1>3 DEF n
  <2>3. CASE i = n + 1 /\ j = n + 1
    BY <2>3, <1>1 DEF n
  <2>4. ~(i = n + 1 /\ j \in DOMAIN s)
    BY <1>1, <1>3 DEF n
  <2> QED BY <1>2, <2>1, <2>2, <2>3, <2>4
<1>5. Once(t)
  <2> SUFFICES ASSUME NEW i \in DOMAIN t, NEW j \in DOMAIN t, t[i] = t[j] PROVE i = j
    BY DEF Once
  <2>1. CASE i \in DOMAIN s /\ j \in DOMAIN s
    BY <2>1, <1>1 DEF Once
  <2>2. ASSUME i \in DOMAIN s, j = n + 1 PROVE FALSE
    BY <2>2, <1>1, <1>3 DEF n
  <2>3. ASSUME i = n + 1, j \in DOMAIN s PROVE FALSE
    BY <2>3, <1>1, <1>3 DEF n
  <2> QED BY <1>2, <2>1, <2>2, <2>3
<1> QED BY <1>1, <1>4, <1>5 DEF t

(* The lighter first element goes to the output.                           *)
LEMMA TakenFacts ==
  ASSUME NEW T, NEW weight, \A x \in T : weight[x] \in Nat, NEW E,
         NEW N \in Nat, NEW k \in Nat, k < N, NEW st, Merging(weight, T, E, N, k, st)
  PROVE  Merging(weight, T, E, N, k + 1, Taken(weight, st))
<1> DEFINE s == IF Swap(weight, st.l, st.r) THEN [st EXCEPT !.l = st.r, !.r = st.l] ELSE st
<1>1. Taken(weight, st) = [l |-> Tail(s.l), r |-> s.r, out |-> Append(s.out, s.l[1])]
  BY DEF Taken
<1>2. st.l # <<>> \/ st.r # <<>>
  <2>1. ~(Len(st.l) = 0 /\ Len(st.r) = 0)
    <3> DEFINE a == Len(st.l)
               b == Len(st.r)
    <3>1. a + b = N - k
      BY DEF Merging
    <3> HIDE DEF a, b
    <3>2. ~(a = 0 /\ b = 0)
      BY <3>1
    <3> QED BY <3>2 DEF a, b
  <2> QED BY <2>1, LenFacts DEF Merging
<1>3. /\ Merging(weight, T, E, N, k, s)
      /\ s.l # <<>> /\ (s.r # <<>> => weight[s.l[1]] <= weight[s.r[1]])
  <2>1. CASE ~Swap(weight, st.l, st.r)
    <3>1. s = st
      BY <2>1
    <3>2. st.l # <<>> /\ (st.r # <<>> => ~(weight[st.l[1]] > weight[st.r[1]]))
      BY <2>1 DEF Swap
    <3>3. st.r # <<>> => weight[st.l[1]] \in Nat /\ weight[st.r[1]] \in Nat
      BY <3>2, LenFacts DEF Merging
    <3> HIDE DEF s
    <3>4. st.r # <<>> => weight[st.l[1]] <= weight[st.r[1]]
      BY <3>2, <3>3
    <3> QED BY <3>1, <3>2, <3>4
  <2>2. CASE Swap(weight, st.l, st.r)
    <3>1. s = [st EXCEPT !.l = st.r, !.r = st.l]
      BY <2>2
    <3>2. st = [l |-> st.l, r |-> st.r, out |-> st.out]
      BY DEF Merging
    <3> HIDE DEF s
    <3>3. s = [l |-> st.r, r |-> st.l, out |-> st.out]
      BY <3>1, <3>2
    <3>4. s.l = st.r /\ s.r = st.l /\ s.out = st.out
      BY <3>3
    <3>5. Merging(weight, T, E, N, k, s)
      <4>1. Len(s.l) + Len(s.r) = N - k
        <5> DEFINE a == Len(st.l)
                   b == Len(st.r)
        <5>1. a \in Nat /\ b \in Nat /\ a + b = N - k
          BY LenFacts DEF Merging
        <5> HIDE DEF a, b
        <5>2. b + a = N - k
          BY <5>1
        <5> QED BY <3>4, <5>2 DEF a, b
      <4>2. /\ Elements(s.l) \intersect Elements(s.r) = {}
            /\ Elements(s.l) \union Elements(s.r) = Elements(st.l) \union Elements(st.r)
            /\ Elements(s.out) \union Elements(s.l) \union Elements(s.r) = E
        BY <3>4 DEF Merging
      <4> QED BY <3>3, <3>4, <4>1, <4>2 DEF Merging
    <3>6. s.l # <<>>
      BY <1>2, <2>2, <3>4 DEF Swap
    <3>7. s.r # <<>> => weight[s.r[1]] > weight[s.l[1]]
      BY <2>2, <3>4 DEF Swap
    <3>8. s.r # <<>> => weight[s.l[1]] \in Nat /\ weight[s.r[1]] \in Nat
      BY <3>5, <3>6, LenFacts DEF Merging
    <3> QED BY <3>5, <3>6, <3>7, <3>8
  <2> QED BY <2>1, <2>2
<1> HIDE DEF s
<1> DEFINE e == s.l[1]
           t == Taken(weight, st)
<1>4. /\ Tail(s.l) \in Seq(T) /\ e \in T /\ Len(Tail(s.l)) = Len(s.l) - 1 /\ Len(s.l) \in Nat
      /\ Elements(s.l) = {e} \union Elements(Tail(s.l)) /\ e \notin Elements(Tail(s.l))
      /\ Lightest(weight, Tail(s.l)) /\ Once(Tail(s.l))
      /\ \A y \in Elements(s.l) : weight[e] <= weight[y]
  BY <1>3, FirstFacts DEF Merging
<1>5. \A y \in Elements(s.r) : weight[e] <= weight[y]
  <2> SUFFICES ASSUME NEW y \in Elements(s.r) PROVE weight[e] <= weight[y]
    OBVIOUS
  <2>1. s.r # <<>> /\ s.r \in Seq(T)
    BY <1>3 DEF Elements, Merging
  <2>2. s.r[1] \in T /\ weight[s.r[1]] <= weight[y]
    BY <1>3, <2>1, FirstFacts DEF Merging
  <2>3. y \in T
    BY <2>1 DEF Elements
  <2>4. weight[e] <= weight[s.r[1]]
    BY <1>3, <2>1
  <2>5. weight[e] \in Nat /\ weight[s.r[1]] \in Nat /\ weight[y] \in Nat
    BY <1>4, <2>2, <2>3
  <2> QED BY <2>2, <2>4, <2>5
<1>6. /\ Append(s.out, e) \in Seq(T) /\ Len(Append(s.out, e)) = Len(s.out) + 1
      /\ Elements(Append(s.out, e)) = Elements(s.out) \union {e}
      /\ Lightest(weight, Append(s.out, e)) /\ Once(Append(s.out, e))
  <2>1. e \in Elements(s.l)
    BY <1>4
  <2>2. /\ s.out \in Seq(T) /\ Lightest(weight, s.out) /\ Once(s.out)
        /\ e \notin Elements(s.out) /\ \A x \in Elements(s.out) : weight[x] <= weight[e]
    BY <1>3, <2>1 DEF Merging
  <2>3. weight[e] \in Nat
    BY <1>4
  <2> HIDE DEF e
  <2> QED BY <1>4, <2>2, <2>3, LastFacts
<1>7. t.l = Tail(s.l) /\ t.r = s.r /\ t.out = Append(s.out, e) /\ t = [l |-> t.l, r |-> t.r, out |-> t.out]
  BY <1>1
<1> HIDE DEF e, t
<1>8. Len(t.out) = k + 1 /\ Len(t.l) + Len(t.r) = N - (k + 1)
  <2> DEFINE a == Len(s.l)
             b == Len(s.r)
             c == Len(Tail(s.l))
  <2>1. a + b = N - k /\ a \in Nat /\ b \in Nat /\ c = a - 1
    BY <1>3, <1>4, LenFacts DEF Merging
  <2> HIDE DEF a, b, c
  <2>2. c + b = N - (k + 1)
    BY <2>1
  <2>3. Len(t.out) = k + 1
    BY <1>3, <1>6, <1>7 DEF Merging
  <2> QED BY <1>7, <2>2, <2>3 DEF b, c
<1> DEFINE L == Elements(s.l)
           R == Elements(s.r)
           O == Elements(s.out)
           L1 == Elements(t.l)
           O1 == Elements(t.out)
<1>9. /\ L \intersect R = {} /\ O \intersect (L \union R) = {} /\ O \union L \union R = E
      /\ \A x \in O : \A y \in L \union R : weight[x] <= weight[y]
      /\ Elements(t.r) = R /\ L = {e} \union L1 /\ e \notin L1 /\ O1 = O \union {e}
      /\ \A y \in L \union R : weight[e] <= weight[y]
  BY <1>3, <1>4, <1>5, <1>6, <1>7 DEF Merging, e
<1> HIDE DEF L, R, O, L1, O1
<1>10. /\ L1 \intersect R = {} /\ O1 \intersect (L1 \union R) = {} /\ O1 \union L1 \union R = E
       /\ \A x \in O1 : \A y \in L1 \union R : weight[x] <= weight[y]
  BY <1>9
<1>11. /\ t.l \in Seq(T) /\ t.r \in Seq(T) /\ t.out \in Seq(T)
       /\ Lightest(weight, t.l) /\ Lightest(weight, t.r) /\ Lightest(weight, t.out)
       /\ Once(t.l) /\ Once(t.r) /\ Once(t.out)
  BY <1>3, <1>4, <1>6, <1>7 DEF Merging
<1>12. Merging(weight, T, E, N, k + 1, t)
  BY <1>7, <1>8, <1>9, <1>10, <1>11 DEF Merging, L1, O1
<1> QED BY <1>12 DEF t

(* A sequence of some numbers is one of numbers.                           *)
LEMMA NumbersFacts ==
  ASSUME NEW T \in SUBSET Nat, NEW s \in Seq(T)
  PROVE  s \in Seq(Nat) /\ Len(s) \in Nat /\ \A i \in DOMAIN s : s[i] \in T
<1>1. Len(s) \in Nat /\ s \in [1 .. Len(s) -> T]
  OBVIOUS
<1>2. s \in [1 .. Len(s) -> Nat]
  BY <1>1
<1>3. s \in Seq(Nat)
  BY <1>1, <1>2, FunctionIsSeq
<1> QED BY <1>1, <1>3

(* Two lists in order become one.                                          *)
LEMMA MergeSortedFacts ==
  ASSUME NEW T \in SUBSET Nat, NEW weight, \A x \in T : weight[x] \in Nat,
         NEW left \in Seq(T), NEW right \in Seq(T),
         Lightest(weight, left), Lightest(weight, right), Once(left), Once(right),
         Elements(left) \intersect Elements(right) = {}
  PROVE  LET made == MergeSorted(weight, left, right)
         IN  /\ made \in Seq(T) /\ Len(made) = Len(left) + Len(right)
             /\ Elements(made) = Elements(left) \union Elements(right)
             /\ Lightest(weight, made) /\ Once(made)
<1> DEFINE N == Len(left) + Len(right)
           E == Elements(left) \union Elements(right)
           base == Dealt(left, right)
           seq == Places(N)
<1>1. left \in Seq(Nat) /\ right \in Seq(Nat) /\ N \in Nat
  <2>1. /\ left \in Seq(Nat) /\ right \in Seq(Nat)
        /\ Len(left) \in Nat /\ Len(right) \in Nat
    BY NumbersFacts
  <2> QED BY <2>1
<1>2. PICK f, end : /\ Unrolls("merge", weight, base, seq, f, end)
                    /\ MergeSorted(weight, left, right) = end.out
  BY <1>1, MergeFold
<1>3. Len(seq) = N
  <2> HIDE DEF N
  <2> QED BY <1>1 DEF Places
<1>4. Merging(weight, T, E, N, 0, base)
  <2>1. base.l = left /\ base.r = right /\ base.out = <<>> /\ base = [l |-> base.l, r |-> base.r, out |-> base.out]
    BY DEF Dealt
  <2> HIDE DEF base
  <2>2. <<>> \in Seq(T) /\ Len(<<>>) = 0 /\ Elements(<<>>) = {} /\ Lightest(weight, <<>>) /\ Once(<<>>)
    BY DEF Elements, Lightest, Once
  <2>3. Len(base.l) + Len(base.r) = N - 0
    BY <1>1, <2>1
  <2> HIDE DEF N
  <2> QED BY <2>1, <2>2, <2>3 DEF Merging
<1> HIDE DEF N, E, base, seq
<1> DEFINE G == {k \in Nat : k <= N => Merging(weight, T, E, N, k, f[k])}
<1>5. 0 \in G
  BY <1>2, <1>4 DEF Unrolls
<1>6. ASSUME NEW k \in Nat, k \in G PROVE k + 1 \in G
  <2>1. ASSUME k + 1 <= N PROVE Merging(weight, T, E, N, k + 1, f[k + 1])
    <3>1. k < N /\ k <= N /\ k + 1 \in 1 .. N /\ (k + 1) - 1 = k
      BY <1>1, <2>1
    <3>2. Merging(weight, T, E, N, k, f[k])
      BY <1>6, <3>1
    <3>3. f[k + 1] = StepOf("merge", weight, f[k], seq[k + 1])
      <4> DEFINE n == k + 1
      <4>1. n \in 1 .. Len(seq) /\ n - 1 = k
        BY <1>3, <3>1
      <4> HIDE DEF n
      <4>2. f[n] = StepOf("merge", weight, f[n - 1], seq[n])
        BY <1>2, <4>1 DEF Unrolls
      <4>3. f[n] = StepOf("merge", weight, f[k], seq[n])
        BY <4>1, <4>2
      <4> QED BY <4>3 DEF n
    <3>4. f[k + 1] = Taken(weight, f[k])
      BY <3>3 DEF StepOf
    <3>5. Merging(weight, T, E, N, k + 1, Taken(weight, f[k]))
      BY <1>1, <3>1, <3>2, TakenFacts
    <3> QED BY <3>4, <3>5
  <2> QED BY <2>1
<1> HIDE DEF G
<1>7. N \in G
  BY <1>1, <1>5, <1>6, Induction
<1>8. Merging(weight, T, E, N, N, f[N])
  BY <1>1, <1>7 DEF G
<1>9. f[N] = end
  BY <1>2, <1>3 DEF Unrolls
<1>10. end.l = <<>> /\ end.r = <<>>
  <2>1. end.l \in Seq(T) /\ end.r \in Seq(T) /\ Len(end.l) + Len(end.r) = N - N
    BY <1>8, <1>9 DEF Merging
  <2> DEFINE a == Len(end.l)
             b == Len(end.r)
  <2>2. a \in Nat /\ b \in Nat /\ a + b = N - N
    BY <2>1, LenFacts
  <2> HIDE DEF a, b
  <2>3. a = 0 /\ b = 0
    BY <1>1, <2>2
  <2>4. Len(end.l) = 0 /\ Len(end.r) = 0
    BY <2>3 DEF a, b
  <2> QED BY <2>1, <2>4, LenFacts
<1>11. Elements(end.l) = {} /\ Elements(end.r) = {}
  BY <1>10 DEF Elements
<1>12. /\ end.out \in Seq(T) /\ Len(end.out) = N /\ Elements(end.out) = E
       /\ Lightest(weight, end.out) /\ Once(end.out)
  BY <1>8, <1>9, <1>11 DEF Merging
<1> QED BY <1>2, <1>12 DEF N, E

(* A list is dealt out to two that have nothing in common.                 *)
LEMMA HandsApart ==
  ASSUME NEW T, NEW s \in Seq(T), Len(s) > 1, Once(s)
  PROVE  /\ Once(FirstHand(s)) /\ Once(SecondHand(s))
         /\ Elements(FirstHand(s)) \intersect Elements(SecondHand(s)) = {}
         /\ Elements(FirstHand(s)) \union Elements(SecondHand(s)) = Elements(s)
<1> DEFINE n == Len(s)
           a == n \div 2
           b == (n + 1) \div 2
           F == FirstHand(s)
           S == SecondHand(s)
<1>1. n \in Nat /\ n > 1 /\ DOMAIN s = 1 .. n
  OBVIOUS
<1>2. /\ DOMAIN F = 1 .. a /\ \A k \in 1 .. a : F[k] = s[n + 1 - 2 * k]
      /\ DOMAIN S = 1 .. b /\ \A k \in 1 .. b : S[k] = s[n + 2 - 2 * k]
  BY DEF FirstHand, SecondHand
<1> HIDE DEF n, F, S
<1>3. /\ a \in Nat /\ b \in Nat /\ a + b = n
      /\ 2 * a <= n /\ 2 * b <= n + 1 /\ n <= 2 * a + 1 /\ n <= 2 * b
  BY <1>1
<1> HIDE DEF a, b
<1>4. /\ \A k \in 1 .. a : n + 1 - 2 * k \in 1 .. n
      /\ \A k \in 1 .. b : n + 2 - 2 * k \in 1 .. n
  BY <1>1, <1>3
<1>5. Once(F)
  <2> SUFFICES ASSUME NEW i \in 1 .. a, NEW j \in 1 .. a, F[i] = F[j] PROVE i = j
    BY <1>2 DEF Once
  <2>1. s[n + 1 - 2 * i] = s[n + 1 - 2 * j]
    BY <1>2
  <2>2. n + 1 - 2 * i = n + 1 - 2 * j
    BY <1>1, <1>4, <2>1 DEF Once
  <2> QED BY <1>1, <2>2
<1>6. Once(S)
  <2> SUFFICES ASSUME NEW i \in 1 .. b, NEW j \in 1 .. b, S[i] = S[j] PROVE i = j
    BY <1>2 DEF Once
  <2>1. s[n + 2 - 2 * i] = s[n + 2 - 2 * j]
    BY <1>2
  <2>2. n + 2 - 2 * i = n + 2 - 2 * j
    BY <1>1, <1>4, <2>1 DEF Once
  <2> QED BY <1>1, <2>2
<1>7. Elements(F) \intersect Elements(S) = {}
  <2> SUFFICES ASSUME NEW i \in 1 .. a, NEW j \in 1 .. b, F[i] = S[j] PROVE FALSE
    BY <1>2 DEF Elements
  <2>1. s[n + 1 - 2 * i] = s[n + 2 - 2 * j]
    BY <1>2
  <2>2. n + 1 - 2 * i = n + 2 - 2 * j
    BY <1>1, <1>4, <2>1 DEF Once
  <2> QED BY <1>1, <2>2
<1>8. Elements(F) \subseteq Elements(s) /\ Elements(S) \subseteq Elements(s)
  BY <1>1, <1>2, <1>4 DEF Elements
<1>9. Elements(s) \subseteq Elements(F) \union Elements(S)
  <2> SUFFICES ASSUME NEW i \in 1 .. n
               PROVE  s[i] \in Elements(F) \union Elements(S)
    BY <1>1 DEF Elements
  <2> DEFINE k == (n + 1 - i) \div 2
             m == (n + 2 - i) \div 2
  <2>1. \/ k \in 1 .. a /\ n + 1 - 2 * k = i
        \/ m \in 1 .. b /\ n + 2 - 2 * m = i
    BY <1>1, <1>3
  <2> HIDE DEF k, m
  <2>2. \/ k \in 1 .. a /\ F[k] = s[i]
        \/ m \in 1 .. b /\ S[m] = s[i]
    BY <1>2, <2>1
  <2> QED BY <1>2, <2>2 DEF Elements
<1> QED BY <1>5, <1>6, <1>7, <1>8, <1>9 DEF F, S

(* The merge sort of leaves (HUFF_Sort): for any number of leaves of any weights,       *)
(* it returns each of them once, in order of weight.                                    *)
THEOREM SortedByWeight ==
  ASSUME NEW T \in SUBSET Nat, NEW weight, \A x \in T : weight[x] \in Nat,
         NEW ids \in Seq(T), Once(ids)
  PROVE  SortOf(weight, T, ids, SortByWeight(weight, ids))
<1>1. PICK f : /\ \A s \in Seq(Nat) : f[s] = SortStep(weight, f, s)
               /\ \A s : SortByWeight(weight, s) = f[s]
  BY SortRecursion
<1> DEFINE Sorts(s) == SortOf(weight, T, s, f[s])
           G == {n \in Nat : \A s \in Seq(T) : Len(s) <= n /\ Once(s) => Sorts(s)}
<1>2. ASSUME NEW s \in Seq(T), Once(s),
             \A q \in Seq(T) : Len(q) < Len(s) /\ Once(q) => Sorts(q)
      PROVE  Sorts(s)
  <2>1. s \in Seq(Nat) /\ Len(s) \in Nat /\ \A i \in DOMAIN s : s[i] \in T
    BY NumbersFacts
  <2>2. f[s] = SortStep(weight, f, s)
    BY <1>1, <2>1
  <2>3. CASE Len(s) <= 1
    <3>1. f[s] = s
      BY <2>2, <2>3 DEF SortStep
    <3>2. \A i, j \in DOMAIN s : i = j
      <4> DEFINE n == Len(s)
      <4>1. DOMAIN s = 1 .. n /\ n \in Nat /\ n <= 1
        BY <2>1, <2>3
      <4> HIDE DEF n
      <4> QED BY <4>1
    <3>3. \A i \in DOMAIN s : weight[s[i]] \in Nat
      BY <2>1
    <3>4. Lightest(weight, s)
      BY <3>2, <3>3 DEF Lightest
    <3> QED BY <1>2, <3>1, <3>4 DEF SortOf
  <2>4. CASE ~(Len(s) <= 1)
    <3>1. Len(s) > 1
      BY <2>1, <2>4
    <3> DEFINE F == FirstHand(s)
               S == SecondHand(s)
    <3>2. /\ F \in Seq(T) /\ S \in Seq(T)
          /\ Len(F) \in 1 .. Len(s) - 1 /\ Len(S) \in 1 .. Len(s) - 1
          /\ Len(F) + Len(S) = Len(s)
      BY <3>1, HandFacts
    <3>3. /\ Once(F) /\ Once(S) /\ Elements(F) \intersect Elements(S) = {}
          /\ Elements(F) \union Elements(S) = Elements(s)
      BY <1>2, <3>1, HandsApart
    <3>4. f[s] = MergeSorted(weight, f[F], f[S])
      BY <2>2, <2>4 DEF SortStep
    <3> HIDE DEF F, S
    <3>5. Len(F) < Len(s) /\ Len(S) < Len(s)
      BY <2>1, <3>2
    <3>6. SortOf(weight, T, F, f[F]) /\ SortOf(weight, T, S, f[S])
      BY <1>2, <3>2, <3>3, <3>5
    <3> HIDE DEF Sorts
    <3> DEFINE l == f[F]
               r == f[S]
    <3>7. /\ l \in Seq(T) /\ r \in Seq(T) /\ Lightest(weight, l) /\ Lightest(weight, r)
          /\ Once(l) /\ Once(r) /\ Elements(l) \intersect Elements(r) = {}
          /\ Len(l) = Len(F) /\ Len(r) = Len(S)
          /\ Elements(l) \union Elements(r) = Elements(s)
      BY <3>3, <3>6 DEF SortOf
    <3>8. f[s] = MergeSorted(weight, l, r)
      BY <3>4
    <3> HIDE DEF l, r
    <3> DEFINE made == MergeSorted(weight, l, r)
    <3>9. /\ made \in Seq(T) /\ Len(made) = Len(l) + Len(r)
          /\ Elements(made) = Elements(l) \union Elements(r)
          /\ Lightest(weight, made) /\ Once(made)
      BY <3>7, MergeSortedFacts
    <3> HIDE DEF made
    <3>10. Len(made) = Len(s)
      BY <3>2, <3>7, <3>9
    <3>11. SortOf(weight, T, s, made)
      BY <3>7, <3>9, <3>10 DEF SortOf
    <3> QED BY <3>8, <3>11 DEF Sorts, made
  <2> QED BY <2>3, <2>4
<1> HIDE DEF Sorts
<1>3. 0 \in G
  <2> SUFFICES ASSUME NEW s \in Seq(T), Len(s) <= 0, Once(s) PROVE Sorts(s)
    OBVIOUS
  <2>1. ASSUME NEW q \in Seq(T), Len(q) < Len(s) PROVE FALSE
    <3>1. Len(q) \in Nat /\ Len(s) \in Nat
      OBVIOUS
    <3> QED BY <2>1, <3>1
  <2> QED BY <1>2, <2>1
<1>4. ASSUME NEW n \in Nat, n \in G PROVE n + 1 \in G
  <2> SUFFICES ASSUME NEW s \in Seq(T), Len(s) <= n + 1, Once(s) PROVE Sorts(s)
    OBVIOUS
  <2>1. ASSUME NEW q \in Seq(T), Len(q) < Len(s), Once(q) PROVE Sorts(q)
    <3>1. Len(q) \in Nat /\ Len(s) \in Nat
      OBVIOUS
    <3>2. Len(q) <= n
      BY <2>1, <3>1
    <3> QED BY <1>4, <2>1, <3>2
  <2> QED BY <1>2, <2>1
<1> HIDE DEF G
<1>5. \A n \in Nat : n \in G
  BY <1>3, <1>4, Induction
<1>6. Sorts(ids)
  <2>1. Len(ids) \in Nat /\ Len(ids) <= Len(ids)
    OBVIOUS
  <2>2. Len(ids) \in G
    BY <1>5, <2>1
  <2> QED BY <2>1, <2>2 DEF G
<1> QED BY <1>1, <1>6 DEF Sorts

----------------------------------------------------------------------------
(* The leaves that are sorted.                                             *)

\* A node of a character, an indirect string or the terminator, with no place in a tree yet.
IsLeaf(r) == IsNode(r) /\ r.kind # "branch" /\ r.left = 0 /\ r.right = 0 /\ r.up = 0

AreLeaves(s) == s \in Seq(Elements(s)) /\ \A i \in DOMAIN s : IsLeaf(s[i])

(* Counts of numbers, and no tree yet.                                     *)
Counted(h) ==
  /\ h = [strings |-> h.strings, quick |-> h.quick, slow |-> h.slow, indirect |-> h.indirect,
          nodes |-> h.nodes, sorted |-> h.sorted, merged |-> h.merged]
  /\ h.strings \in Nat
  /\ DOMAIN h.quick \in SUBSET Nat /\ IsFiniteSet(DOMAIN h.quick) /\ h.quick \in [DOMAIN h.quick -> Nat]
  /\ AreLeaves(h.slow)
  /\ h.nodes = <<>> /\ h.sorted = <<>> /\ h.merged = <<>>

(* A finite set of numbers has one of every rank.                          *)
LEMMA Ranked ==
  ASSUME NEW S \in SUBSET Nat, IsFiniteSet(S), NEW i \in 1 .. Cardinality(S)
  PROVE  \E c \in S : Cardinality({d \in S : d < c}) = i - 1
<1> DEFINE N == Cardinality(S)
           Below(c) == {d \in S : d < c}
           G == {n \in Nat : n < N => \E c \in S : Cardinality(Below(c)) = n}
<1>1. N \in Nat
  BY FS_CardinalityType
<1>2. 0 \in G
  <2> SUFFICES ASSUME 0 < N PROVE \E c \in S : Cardinality(Below(c)) = 0
    OBVIOUS
  <2>1. S # {}
    BY FS_EmptySet
  <2>2. PICK c \in S : \A d \in S : c <= d
    BY <2>1, LeastOf
  <2>3. Below(c) = {}
    <3>1. ASSUME NEW d \in S, d < c PROVE FALSE
      <4>1. c <= d /\ c \in Nat /\ d \in Nat
        BY <2>2
      <4> QED BY <3>1, <4>1
    <3> QED BY <3>1
  <2>4. Cardinality(Below(c)) = 0
    BY <2>3, FS_EmptySet
  <2> QED BY <2>4
<1>3. ASSUME NEW n \in Nat, n \in G PROVE n + 1 \in G
  <2> SUFFICES ASSUME n + 1 < N PROVE \E c \in S : Cardinality(Below(c)) = n + 1
    OBVIOUS
  <2>1. n < N
    BY <1>1
  <2>2. PICK c \in S : Cardinality(Below(c)) = n
    BY <1>3, <2>1
  <2> DEFINE A == Below(c) \union {c}
  <2>3. IsFiniteSet(Below(c)) /\ c \notin Below(c)
    BY FS_Subset
  <2>4. IsFiniteSet(A) /\ Cardinality(A) = n + 1
    BY <2>2, <2>3, FS_AddElement
  <2>5. S \ A # {}
    <3> SUFFICES ASSUME S \ A = {} PROVE FALSE
      OBVIOUS
    <3>1. S = A
      OBVIOUS
    <3>2. N = n + 1
      BY <2>4, <3>1
    <3> HIDE DEF N
    <3> QED BY <1>1, <3>2
  <2>6. PICK m \in S \ A : \A d \in S \ A : m <= d
    <3> HIDE DEF A
    <3>1. S \ A \subseteq Nat
      OBVIOUS
    <3> QED BY <2>5, <3>1, LeastOf
  <2>7. Below(m) = A
    <3>1. m \in S /\ m \in Nat /\ c \in Nat /\ ~(m < c) /\ m # c
      BY <2>6
    <3>2. ASSUME NEW d \in A PROVE d \in Below(m)
      <4>1. d \in S /\ d \in Nat /\ (d < c \/ d = c)
        BY <3>2
      <4> QED BY <3>1, <4>1
    <3>3. ASSUME NEW d \in Below(m) PROVE d \in A
      <4>1. d \in S /\ d \in Nat /\ d < m
        OBVIOUS
      <4>2. ASSUME d \notin A PROVE FALSE
        <5>1. m <= d
          BY <2>6, <4>1, <4>2
        <5> QED BY <3>1, <4>1, <5>1
      <4> QED BY <4>2
    <3> QED BY <3>2, <3>3
  <2> HIDE DEF A, Below
  <2> QED BY <2>4, <2>6, <2>7
<1> HIDE DEF G
<1>4. \A n \in Nat : n \in G
  BY <1>2, <1>3, Induction
<1>5. i - 1 \in Nat /\ i - 1 < N
  BY <1>1
<1>6. i - 1 \in G
  BY <1>4, <1>5
<1> QED BY <1>5, <1>6 DEF G

(* A sequence whose elements are leaves.                                   *)
LEMMA LeavesFrom ==
  ASSUME NEW n \in Nat, NEW s, s = [i \in 1 .. n |-> s[i]], \A i \in 1 .. n : IsLeaf(s[i])
  PROVE  AreLeaves(s) /\ Len(s) = n
<1>1. DOMAIN s = 1 .. n
  OBVIOUS
<1>2. s \in [1 .. n -> Elements(s)]
  BY <1>1 DEF Elements
<1>3. s \in Seq(Elements(s)) /\ Len(s) = n
  BY <1>2, FunctionIsSeq
<1> QED BY <1>1, <1>3 DEF AreLeaves

(* Leaves, from the last. *)
LEMMA LeavesReversed ==
  ASSUME NEW s, AreLeaves(s)
  PROVE  AreLeaves(Reverse(s))
<1> DEFINE n == Len(s)
           r == Reverse(s)
<1>1. n \in Nat /\ DOMAIN s = 1 .. n
  BY DEF AreLeaves
<1>2. r = [i \in 1 .. n |-> s[(n - i) + 1]]
  BY DEF Reverse
<1> HIDE DEF n, r
<1>3. \A i \in 1 .. n : (n - i) + 1 \in DOMAIN s
  BY <1>1
<1>4. r = [i \in 1 .. n |-> r[i]] /\ \A i \in 1 .. n : IsLeaf(r[i])
  <2>1. \A i \in 1 .. n : r[i] = s[(n - i) + 1]
    BY <1>2
  <2>2. r = [i \in 1 .. n |-> r[i]]
    BY Zenon, <1>2
  <2>3. \A i \in 1 .. n : IsLeaf(r[i])
    BY <1>3, <2>1 DEF AreLeaves
  <2> QED BY <2>2, <2>3
<1>5. AreLeaves(r)
  BY <1>1, <1>4, LeavesFrom
<1> QED BY <1>5 DEF r

(* Leaves, and leaves after them. *)
LEMMA LeavesJoined ==
  ASSUME NEW s, NEW t, AreLeaves(s), AreLeaves(t)
  PROVE  AreLeaves(s \o t)
<1> DEFINE S == Elements(s) \union Elements(t)
           a == Len(s)
           b == Len(t)
           r == s \o t
<1>1. s \in Seq(S) /\ t \in Seq(S)
  <2>1. s \in Seq(Elements(s)) /\ t \in Seq(Elements(t))
    BY DEF AreLeaves
  <2>2. /\ Len(s) \in Nat /\ DOMAIN s = 1 .. Len(s) /\ s \in [1 .. Len(s) -> S]
        /\ Len(t) \in Nat /\ DOMAIN t = 1 .. Len(t) /\ t \in [1 .. Len(t) -> S]
    BY <2>1
  <2> QED BY <2>2, FunctionIsSeq
<1>2. a \in Nat /\ b \in Nat /\ DOMAIN s = 1 .. a /\ DOMAIN t = 1 .. b
  BY <1>1
<1>3. /\ r \in Seq(S) /\ Len(r) = a + b /\ DOMAIN r = 1 .. a + b
      /\ \A i \in 1 .. a : r[i] = s[i]
      /\ \A i \in 1 .. b : r[a + i] = t[i]
  <2> HIDE DEF S
  <2> QED BY <1>1
<1> HIDE DEF a, b, r, S
<1>4. ASSUME NEW i \in 1 .. a + b PROVE IsLeaf(r[i])
  <2>1. CASE i <= a
    BY <1>2, <1>3, <2>1 DEF AreLeaves
  <2>2. CASE ~(i <= a)
    <3> DEFINE k == i - a
    <3>1. k \in 1 .. b /\ a + k = i
      BY <1>2, <2>2
    <3> HIDE DEF k
    <3> QED BY <1>2, <1>3, <3>1 DEF AreLeaves
  <2> QED BY <2>1, <2>2
<1>5. a + b \in Nat /\ r = [i \in 1 .. a + b |-> r[i]]
  BY <1>2, <1>3
<1> DEFINE n == a + b
<1>6. AreLeaves(r)
  <2>1. n \in Nat /\ r = [i \in 1 .. n |-> r[i]] /\ \A i \in 1 .. n : IsLeaf(r[i])
    BY <1>4, <1>5
  <2> HIDE DEF n
  <2> QED BY <2>1, LeavesFrom
<1> QED BY <1>6 DEF r

(* A leaf is one. *)
LEMMA LeafFacts ==
  ASSUME NEW kind, kind # "branch", NEW ch, NEW weight \in Nat, NEW part
  PROVE  IsLeaf(Leaf(kind, ch, weight, part))
BY DEF IsLeaf, Leaf, IsNode

(* What is counted becomes leaves (HUFF_BuildTree before it sorts). *)
LEMMA LeavesFacts ==
  ASSUME NEW h, Counted(h)
  PROVE  AreLeaves(<<>> \o Leaves(h))
<1> DEFINE Q == DOMAIN h.quick
           n == Cardinality(Q)
           Of(i) == CHOOSE c \in Q : Cardinality({d \in Q : d < c}) = i - 1
           Made(i) == Leaf("char", Of(i), h.quick[Of(i)], <<>>)
           g == [i \in 1 .. n |-> Made(i)]
           last == <<Leaf("terminator", 0, h.strings, <<>>)>>
<1>1. Leaves(h) = Reverse(h.slow) \o Reverse(g) \o last
  BY DEF Leaves
<1>2. n \in Nat
  BY FS_CardinalityType DEF Counted
<1>3. AreLeaves(g)
  <2>1. ASSUME NEW i \in 1 .. n PROVE IsLeaf(g[i])
    <3>1. \E c \in Q : Cardinality({d \in Q : d < c}) = i - 1
      BY Ranked DEF Counted
    <3>2. Of(i) \in Q
      BY <3>1
    <3> DEFINE c == Of(i)
    <3>3. g[i] = Leaf("char", c, h.quick[c], <<>>)
      OBVIOUS
    <3>4. c \in Q
      BY <3>2
    <3> HIDE DEF c, g
    <3>5. h.quick[c] \in Nat
      BY <3>4 DEF Counted
    <3>6. IsLeaf(Leaf("char", c, h.quick[c], <<>>))
      BY <3>5, LeafFacts
    <3> QED BY <3>3, <3>6
  <2>2. g = [i \in 1 .. n |-> g[i]]
    <3> HIDE DEF Made, n
    <3> QED BY Zenon
  <2> HIDE DEF g, n
  <2> QED BY <1>2, <2>1, <2>2, LeavesFrom
<1>4. AreLeaves(last)
  <2> DEFINE e == Leaf("terminator", 0, h.strings, <<>>)
  <2>1. IsLeaf(e)
    BY LeafFacts DEF Counted
  <2> HIDE DEF e
  <2>2. AreLeaves(<<e>>)
    BY <2>1 DEF AreLeaves, Elements
  <2> QED BY <2>2 DEF e
<1>5. AreLeaves(<<>>)
  BY DEF AreLeaves, Elements
<1> HIDE DEF g, last
<1>6. AreLeaves(Reverse(h.slow)) /\ AreLeaves(Reverse(g))
  BY <1>3, LeavesReversed DEF Counted
<1>7. AreLeaves(Reverse(h.slow) \o Reverse(g))
  BY <1>6, LeavesJoined
<1>8. AreLeaves(Leaves(h))
  BY <1>1, <1>4, <1>7, LeavesJoined
<1> QED BY <1>5, <1>8, LeavesJoined

(* The lists that the tree is merged from are in order.                    *)
LEMMA StartTreeFacts ==
  ASSUME NEW h, Counted(h)
  PROVE  SoundTree(StartTree(h))
<1> DEFINE leaves == <<>> \o Leaves(h)
           T == DOMAIN leaves
           weight == [i \in T |-> leaves[i].weight]
           ids == [i \in T |-> i]
           sorted == SortByWeight(weight, ids)
           t == StartTree(h)
<1>1. t = [h EXCEPT !.nodes = leaves, !.sorted = sorted]
  BY DEF StartTree
<1>2. AreLeaves(leaves)
  BY LeavesFacts
<1> HIDE DEF leaves, t
<1>3. /\ leaves \in Seq(Elements(leaves)) /\ Len(leaves) \in Nat /\ T = 1 .. Len(leaves)
      /\ \A i \in T : IsLeaf(leaves[i])
  BY <1>2 DEF AreLeaves
<1>4. T \in SUBSET Nat /\ \A x \in T : weight[x] \in Nat
  BY <1>3 DEF IsLeaf, IsNode
<1>5. ids \in Seq(T) /\ Elements(ids) = T /\ Once(ids)
  <2>1. ids \in [1 .. Len(leaves) -> T] /\ DOMAIN ids = T /\ \A i \in T : ids[i] = i
    BY <1>3
  <2>2. ids \in Seq(T)
    BY <1>3, <2>1, FunctionIsSeq
  <2> HIDE DEF ids
  <2>3. Elements(ids) = T
    BY <2>1 DEF Elements
  <2>4. Once(ids)
    BY <2>1 DEF Once
  <2> QED BY <2>2, <2>3, <2>4
<1>6. SortOf(weight, T, ids, sorted)
  <2> HIDE DEF weight, T, ids
  <2> QED BY <1>4, <1>5, SortedByWeight
<1>7. \A i \in T : weight[i] = leaves[i].weight
  OBVIOUS
<1> HIDE DEF weight, ids, sorted
<1>8. /\ t.nodes = leaves /\ t.sorted = sorted /\ t.merged = <<>>
      /\ t = [strings |-> t.strings, quick |-> t.quick, slow |-> t.slow, indirect |-> t.indirect,
              nodes |-> t.nodes, sorted |-> t.sorted, merged |-> t.merged]
  <2>1. /\ h = [strings |-> h.strings, quick |-> h.quick, slow |-> h.slow, indirect |-> h.indirect,
                nodes |-> h.nodes, sorted |-> h.sorted, merged |-> h.merged]
        /\ h.merged = <<>>
    BY DEF Counted
  <2>2. t = [strings |-> h.strings, quick |-> h.quick, slow |-> h.slow, indirect |-> h.indirect,
             nodes |-> leaves, sorted |-> sorted, merged |-> h.merged]
    BY <1>1, <2>1
  <2> QED BY <2>1, <2>2
<1>9. HasNodes(t)
  <2>1. t.nodes \in Seq({t.nodes[n] : n \in DOMAIN t.nodes}) /\ \A n \in DOMAIN t.nodes : IsNode(t.nodes[n])
    BY <1>3, <1>8 DEF Elements, IsLeaf
  <2>2. sorted \in Seq(T) /\ <<>> \in Seq(T)
    BY <1>6 DEF SortOf
  <2>3. {t.sorted, t.merged} \subseteq Seq(DOMAIN t.nodes)
    BY <1>8, <2>2
  <2> QED BY <1>8, <2>1, <2>3 DEF HasNodes
<1>10. Ascending(t.nodes, t.sorted) /\ Ascending(t.nodes, t.merged)
  <2>1. \A i \in DOMAIN sorted : sorted[i] \in T
    BY <1>6 DEF SortOf
  <2>2. Ascending(leaves, sorted)
    BY <1>6, <1>7, <2>1 DEF SortOf, Lightest, Ascending
  <2>3. Ascending(leaves, <<>>)
    BY DEF Ascending
  <2> QED BY <1>8, <2>2, <2>3
<1>11. NoneLighter(t) /\ WaitOnce(t)
  BY <1>6, <1>8 DEF NoneLighter, WaitOnce, SortOf, Once
<1>12. Queued(t) = {n \in DOMAIN t.nodes : t.nodes[n].up = 0}
  <2>1. Queued(t) = Elements(sorted) \union Elements(<<>>)
    BY <1>8 DEF Queued, Elements
  <2>2. Elements(sorted) = T
    BY <1>5, <1>6 DEF SortOf
  <2>3. Elements(<<>>) = {}
    BY DEF Elements
  <2>4. \A n \in T : leaves[n].up = 0
    BY <1>3 DEF IsLeaf
  <2> QED BY <1>8, <2>1, <2>2, <2>3, <2>4
<1>13. Linked(t.nodes)
  BY <1>3, <1>8 DEF Linked, IsLeaf
<1>14. SoundTree(t)
  BY <1>9, <1>10, <1>11, <1>12, <1>13 DEF SoundTree, Lists
<1> QED BY <1>14 DEF t

----------------------------------------------------------------------------
(* The counts while strings are analysed.                                  *)

(* Another list of slow characters.                                        *)
LEMMA SlowReplaced ==
  ASSUME NEW h, Counted(h), NEW slow, AreLeaves(slow), NEW k, k = [h EXCEPT !.slow = slow]
  PROVE  Counted(k)
<1>1. h = [strings |-> h.strings, quick |-> h.quick, slow |-> h.slow, indirect |-> h.indirect,
           nodes |-> h.nodes, sorted |-> h.sorted, merged |-> h.merged]
  BY DEF Counted
<1>2. k = [strings |-> h.strings, quick |-> h.quick, slow |-> slow, indirect |-> h.indirect,
           nodes |-> h.nodes, sorted |-> h.sorted, merged |-> h.merged]
  BY <1>1
<1>3. /\ k = [strings |-> k.strings, quick |-> k.quick, slow |-> k.slow, indirect |-> k.indirect,
              nodes |-> k.nodes, sorted |-> k.sorted, merged |-> k.merged]
      /\ k.strings = h.strings /\ k.quick = h.quick /\ k.slow = slow
      /\ k.nodes = h.nodes /\ k.sorted = h.sorted /\ k.merged = h.merged
  BY <1>2
<1> QED BY <1>3 DEF Counted

(* Another leaf at the front of the slow list.                             *)
LEMMA AddSlowFacts ==
  ASSUME NEW h, Counted(h), NEW leaf, IsLeaf(leaf)
  PROVE  Counted(AddSlow(h, leaf))
<1> DEFINE slow == <<leaf>> \o h.slow
           k == AddSlow(h, leaf)
<1>1. AreLeaves(slow)
  <2>1. AreLeaves(<<leaf>>)
    BY DEF AreLeaves, Elements
  <2> QED BY <2>1, LeavesJoined DEF Counted
<1>2. k = [h EXCEPT !.slow = slow]
  BY DEF AddSlow
<1> HIDE DEF slow, k
<1>3. Counted(k)
  BY <1>1, <1>2, SlowReplaced
<1> QED BY <1>3 DEF k

(* Other counts of the quick characters.                                   *)
LEMMA QuickFacts ==
  ASSUME NEW h, Counted(h), NEW quick, NEW k, k = [h EXCEPT !.quick = quick],
         DOMAIN quick \in SUBSET Nat, IsFiniteSet(DOMAIN quick), quick \in [DOMAIN quick -> Nat]
  PROVE  Counted(k)
<1>1. h = [strings |-> h.strings, quick |-> h.quick, slow |-> h.slow, indirect |-> h.indirect,
           nodes |-> h.nodes, sorted |-> h.sorted, merged |-> h.merged]
  BY DEF Counted
<1>2. k = [strings |-> h.strings, quick |-> quick, slow |-> h.slow, indirect |-> h.indirect,
           nodes |-> h.nodes, sorted |-> h.sorted, merged |-> h.merged]
  BY <1>1
<1>3. /\ k = [strings |-> k.strings, quick |-> k.quick, slow |-> k.slow, indirect |-> k.indirect,
              nodes |-> k.nodes, sorted |-> k.sorted, merged |-> k.merged]
      /\ k.strings = h.strings /\ k.quick = quick /\ k.slow = h.slow
      /\ k.nodes = h.nodes /\ k.sorted = h.sorted /\ k.merged = h.merged
  BY <1>2
<1> QED BY <1>3 DEF Counted

(* A slow character counts one more.                                       *)
LEMMA SlowFacts ==
  ASSUME NEW h, Counted(h), NEW i \in DOMAIN h.slow, NEW k, k = [h EXCEPT !.slow[i].weight = @ + 1]
  PROVE  Counted(k)
<1> DEFINE old == h.slow[i]
           new == [old EXCEPT !.weight = @ + 1]
           slow == [h.slow EXCEPT ![i] = new]
           n == Len(h.slow)
<1>1. n \in Nat /\ DOMAIN h.slow = 1 .. n /\ h.slow = [j \in 1 .. n |-> h.slow[j]] /\ IsLeaf(old)
  BY DEF Counted, AreLeaves
<1>2. IsLeaf(new)
  <2> HIDE DEF old
  <2>1. /\ old = [kind |-> old.kind, ch |-> old.ch, weight |-> old.weight, part |-> old.part,
                  left |-> old.left, right |-> old.right, up |-> old.up]
        /\ {old.weight, old.left, old.right, old.up} \subseteq Nat
        /\ old.kind # "branch" /\ old.left = 0 /\ old.right = 0 /\ old.up = 0
    BY <1>1 DEF IsLeaf, IsNode
  <2> HIDE DEF new
  <2>2. new = [kind |-> old.kind, ch |-> old.ch, weight |-> old.weight + 1, part |-> old.part,
               left |-> old.left, right |-> old.right, up |-> old.up]
    BY <2>1 DEF new
  <2>3. old.weight + 1 \in Nat
    BY <2>1
  <2> QED BY <2>1, <2>2, <2>3 DEF IsLeaf, IsNode
<1>3. k = [h EXCEPT !.slow = slow]
  OBVIOUS
<1>4. AreLeaves(slow)
  <2>1. \A j \in 1 .. n : IsLeaf(h.slow[j])
    BY <1>1 DEF Counted, AreLeaves
  <2> HIDE DEF new, n, old
  <2>2. DOMAIN slow = 1 .. n /\ slow = [j \in 1 .. n |-> slow[j]]
    BY <1>1
  <2>3. \A j \in 1 .. n : slow[j] = IF j = i THEN new ELSE h.slow[j]
    BY <1>1
  <2> HIDE DEF slow
  <2>4. \A j \in 1 .. n : IsLeaf(slow[j])
    BY <1>2, <2>1, <2>3
  <2> QED BY <1>1, <2>2, <2>4, LeavesFrom
<1> HIDE DEF slow
<1> QED BY <1>3, <1>4, SlowReplaced

(* One more of a character. *)
LEMMA AddCharFacts ==
  ASSUME NEW h, Counted(h), NEW c \in Nat
  PROVE  Counted(AddChar(h, c))
<1> DEFINE where == {i \in DOMAIN h.slow : h.slow[i].kind = "char" /\ h.slow[i].ch = c}
<1>1. /\ DOMAIN h.quick \in SUBSET Nat /\ IsFiniteSet(DOMAIN h.quick) /\ h.quick \in [DOMAIN h.quick -> Nat]
      /\ (c >= QuickChars <=> ~(c < QuickChars))
  BY QuickAssumption DEF Counted
<1>2. CASE c < QuickChars /\ c \in DOMAIN h.quick
  <2> DEFINE quick == [h.quick EXCEPT ![c] = @ + 1]
             k == [h EXCEPT !.quick[c] = @ + 1]
  <2>1. AddChar(h, c) = k
    BY Zenon, <1>1, <1>2 DEF AddChar
  <2>2. k = [h EXCEPT !.quick = quick]
    OBVIOUS
  <2>3. DOMAIN quick = DOMAIN h.quick /\ quick \in [DOMAIN h.quick -> Nat]
    BY <1>1, <1>2
  <2> HIDE DEF quick, k
  <2>4. Counted(k)
    BY <1>1, <2>2, <2>3, QuickFacts
  <2> QED BY <2>1, <2>4
<1>3. CASE c < QuickChars /\ c \notin DOMAIN h.quick
  <2> DEFINE quick == [d \in DOMAIN h.quick \union {c} |-> IF d = c THEN 1 ELSE h.quick[d]]
             k == [h EXCEPT !.quick = [d \in DOMAIN @ \union {c} |-> IF d = c THEN 1 ELSE @[d]]]
  <2>1. AddChar(h, c) = k
    BY Zenon, <1>1, <1>3 DEF AddChar
  <2>2. k = [h EXCEPT !.quick = quick]
    OBVIOUS
  <2>3. DOMAIN quick = DOMAIN h.quick \union {c} /\ quick \in [DOMAIN h.quick \union {c} -> Nat]
    <3> DEFINE q == h.quick
               Q == DOMAIN q
    <3>1. q \in [Q -> Nat] /\ quick = [d \in Q \union {c} |-> IF d = c THEN 1 ELSE q[d]]
      BY <1>1
    <3> HIDE DEF q, Q, quick
    <3>2. DOMAIN quick = Q \union {c} /\ quick \in [Q \union {c} -> Nat]
      BY <3>1
    <3> QED BY <3>2 DEF q, Q
  <2>4. IsFiniteSet(DOMAIN h.quick \union {c})
    BY <1>1, FS_AddElement
  <2>5. DOMAIN h.quick \union {c} \in SUBSET Nat
    BY <1>1
  <2> HIDE DEF quick, k
  <2>6. Counted(k)
    BY <2>2, <2>3, <2>4, <2>5, QuickFacts
  <2> QED BY <2>1, <2>6
<1>4. CASE c >= QuickChars /\ where # {}
  <2> DEFINE i == CHOOSE i \in where : TRUE
             k == [h EXCEPT !.slow[i].weight = @ + 1]
  <2>1. AddChar(h, c) = k
    BY Zenon, <1>1, <1>4 DEF AddChar
  <2>2. i \in DOMAIN h.slow
    BY <1>4
  <2> HIDE DEF i
  <2>3. k = [h EXCEPT !.slow[i].weight = @ + 1]
    OBVIOUS
  <2> HIDE DEF k
  <2>4. Counted(k)
    BY <2>2, <2>3, SlowFacts
  <2> QED BY <2>1, <2>4
<1>5. CASE c >= QuickChars /\ where = {}
  <2>1. AddChar(h, c) = AddSlow(h, Leaf("char", c, 1, <<>>))
    BY Zenon, <1>1, <1>5 DEF AddChar
  <2>2. IsLeaf(Leaf("char", c, 1, <<>>))
    BY LeafFacts
  <2> QED BY <2>1, <2>2, AddSlowFacts
<1> QED BY <1>1, <1>2, <1>3, <1>4, <1>5

(* A string is counted. *)
LEMMA AnalyseStrFacts ==
  ASSUME NEW h, Counted(h), NEW chars \in Seq(Nat)
  PROVE  Counted(AnalyseStr(h, chars))
<1> DEFINE N == Len(chars)
<1>1. PICK f : Unrolls("chars", <<>>, h, chars, f, AnalyseStr(h, chars))
  BY CharsFold
<1> DEFINE G == {n \in Nat : n <= N => Counted(f[n])}
<1>2. N \in Nat /\ \A n \in 1 .. N : chars[n] \in Nat
  OBVIOUS
<1>3. /\ f[0] = h
      /\ \A n \in 1 .. N : f[n] = AddChar(f[n - 1], chars[n])
      /\ f[N] = AnalyseStr(h, chars)
  BY <1>1 DEF Unrolls, StepOf
<1> HIDE DEF N
<1>4. 0 \in G
  BY <1>3
<1>5. ASSUME NEW n \in Nat, n \in G PROVE n + 1 \in G
  <2> DEFINE m == n + 1
  <2> SUFFICES ASSUME m <= N PROVE Counted(f[m])
    OBVIOUS
  <2>1. m \in 1 .. N /\ m - 1 = n /\ n <= N
    BY <1>2
  <2> HIDE DEF m
  <2>2. f[m] = AddChar(f[n], chars[m])
    BY <1>3, <2>1
  <2>3. Counted(f[n])
    BY <1>5, <2>1
  <2> QED BY <1>2, <2>1, <2>2, <2>3, AddCharFacts
<1> HIDE DEF G
<1>6. N \in G
  BY <1>2, <1>4, <1>5, Induction
<1> QED BY <1>2, <1>3, <1>6 DEF G

\* The counts so far, and the parts with their numbers.
CountedParts(st) ==
  /\ st = [h |-> st.h, parts |-> st.parts, ok |-> st.ok, crash |-> st.crash]
  /\ Counted(st.h)

(* A piece of text is counted. *)
LEMMA AnalysePartFacts ==
  ASSUME NEW st, CountedParts(st), NEW part, OfCharacters(part)
  PROVE  CountedParts(AnalysePart(st, part))
<1>1. st = [h |-> st.h, parts |-> st.parts, ok |-> st.ok, crash |-> st.crash] /\ Counted(st.h)
  BY DEF CountedParts
<1>2. CASE part.kind = "string"
  <2> DEFINE k == AnalyseStr(st.h, part.chars)
             r == Append(st.parts, part)
  <2>1. AnalysePart(st, part) = [st EXCEPT !.h = k, !.parts = r]
    BY <1>2 DEF AnalysePart
  <2>2. Counted(k)
    BY <1>1, <1>2, AnalyseStrFacts DEF OfCharacters
  <2> HIDE DEF k, r
  <2>3. AnalysePart(st, part) = [h |-> k, parts |-> r, ok |-> st.ok, crash |-> st.crash]
    BY <1>1, <2>1
  <2> QED BY <2>2, <2>3 DEF CountedParts
<1>3. CASE part.kind = "indirect"
  <2> DEFINE n == st.h.indirect + 1
             leaf == Leaf("indirect", n, 1, part.parts)
             h == [st.h EXCEPT !.indirect = n]
             k == AddSlow(h, leaf)
             r == Append(st.parts, [part EXCEPT !.ref = n])
  <2>1. AnalysePart(st, part) = [st EXCEPT !.h = k, !.parts = r]
    BY <1>3 DEF AnalysePart
  <2>2. IsLeaf(leaf)
    BY LeafFacts
  <2> HIDE DEF r, n
  <2>3. Counted(h)
    <3> DEFINE g == st.h
    <3>1. /\ g = [strings |-> g.strings, quick |-> g.quick, slow |-> g.slow, indirect |-> g.indirect,
                  nodes |-> g.nodes, sorted |-> g.sorted, merged |-> g.merged]
          /\ Counted(g) /\ h = [g EXCEPT !.indirect = n]
      BY <1>1 DEF Counted
    <3> HIDE DEF g, h
    <3>2. h = [strings |-> g.strings, quick |-> g.quick, slow |-> g.slow, indirect |-> n,
               nodes |-> g.nodes, sorted |-> g.sorted, merged |-> g.merged]
      BY <3>1
    <3>3. /\ h = [strings |-> h.strings, quick |-> h.quick, slow |-> h.slow, indirect |-> h.indirect,
                  nodes |-> h.nodes, sorted |-> h.sorted, merged |-> h.merged]
          /\ h.strings = g.strings /\ h.quick = g.quick /\ h.slow = g.slow
          /\ h.nodes = g.nodes /\ h.sorted = g.sorted /\ h.merged = g.merged
      BY <3>2
    <3> QED BY <3>1, <3>3 DEF Counted
  <2> HIDE DEF h, leaf
  <2>4. Counted(k)
    BY <2>2, <2>3, AddSlowFacts
  <2> HIDE DEF k
  <2>5. AnalysePart(st, part) = [h |-> k, parts |-> r, ok |-> st.ok, crash |-> st.crash]
    BY <1>1, <2>1
  <2> QED BY <2>4, <2>5 DEF CountedParts
<1>4. CASE part.kind = "address"
  <2>1. AnalysePart(st, part) = [st EXCEPT !.ok = FALSE]
    BY <1>4 DEF AnalysePart
  <2>2. AnalysePart(st, part) = [h |-> st.h, parts |-> st.parts, ok |-> FALSE, crash |-> st.crash]
    BY <1>1, <2>1
  <2> QED BY <1>1, <2>2 DEF CountedParts
<1>5. CASE part.kind \notin {"string", "indirect", "address"}
  <2>1. AnalysePart(st, part) = [st EXCEPT !.crash = TRUE]
    BY <1>5 DEF AnalysePart
  <2>2. AnalysePart(st, part) = [h |-> st.h, parts |-> st.parts, ok |-> st.ok, crash |-> TRUE]
    BY <1>1, <2>1
  <2> QED BY <1>1, <2>2 DEF CountedParts
<1> QED BY <1>2, <1>3, <1>4, <1>5

(* All pieces of a text are counted. *)
LEMMA AllPartsFacts ==
  ASSUME NEW base, CountedParts(base),
         NEW parts, Len(parts) \in Nat, DOMAIN parts = 1 .. Len(parts),
         \A i \in DOMAIN parts : OfCharacters(parts[i])
  PROVE  CountedParts(FoldLeft(AnalysePart, base, parts))
<1> DEFINE N == Len(parts)
           end == FoldLeft(AnalysePart, base, parts)
<1>1. PICK f : Unrolls("parts", <<>>, base, parts, f, end)
  BY PartsFold
<1> DEFINE G == {n \in Nat : n <= N => CountedParts(f[n])}
<1> HIDE DEF end
<1>2. N \in Nat /\ \A n \in 1 .. N : OfCharacters(parts[n])
  OBVIOUS
<1>3. /\ f[0] = base
      /\ \A n \in 1 .. N : f[n] = AnalysePart(f[n - 1], parts[n])
      /\ f[N] = end
  BY <1>1 DEF Unrolls, StepOf
<1> HIDE DEF N
<1>4. 0 \in G
  BY <1>3
<1>5. ASSUME NEW n \in Nat, n \in G PROVE n + 1 \in G
  <2> DEFINE m == n + 1
  <2> SUFFICES ASSUME m <= N PROVE CountedParts(f[m])
    OBVIOUS
  <2>1. m \in 1 .. N /\ m - 1 = n /\ n <= N
    BY <1>2
  <2> HIDE DEF m
  <2>2. f[m] = AnalysePart(f[n], parts[m])
    BY <1>3, <2>1
  <2>3. CountedParts(f[n])
    BY <1>5, <2>1
  <2> QED BY <1>2, <2>1, <2>2, <2>3, AnalysePartFacts
<1> HIDE DEF G
<1>6. N \in G
  BY <1>2, <1>4, <1>5, Induction
<1> QED BY <1>2, <1>3, <1>6 DEF G, end

(* Counting one more text leaves counts. *)
LEMMA AnalyseFacts ==
  ASSUME NEW h, Counted(h), NEW v, IsOfText(v), Analyse(h, v).kind = "analysed"
  PROVE  Counted(Analyse(h, v).huff)
<1> DEFINE parts == IF v.kind = "string" THEN <<v>> ELSE v.parts
           k     == [h EXCEPT !.strings = @ + 1]
           base  == [h |-> k, parts |-> <<>>, ok |-> TRUE, crash |-> FALSE]
           st    == FoldLeft(AnalysePart, base, parts)
<1>1. Counted(k)
  <2>1. /\ h = [strings |-> h.strings, quick |-> h.quick, slow |-> h.slow, indirect |-> h.indirect,
                nodes |-> h.nodes, sorted |-> h.sorted, merged |-> h.merged]
        /\ h.strings + 1 \in Nat /\ k = [h EXCEPT !.strings = h.strings + 1]
    BY DEF Counted
  <2> DEFINE n == h.strings + 1
  <2> HIDE DEF k, n
  <2>2. k = [strings |-> n, quick |-> h.quick, slow |-> h.slow, indirect |-> h.indirect,
             nodes |-> h.nodes, sorted |-> h.sorted, merged |-> h.merged]
    BY <2>1 DEF n
  <2>3. /\ k = [strings |-> k.strings, quick |-> k.quick, slow |-> k.slow, indirect |-> k.indirect,
                nodes |-> k.nodes, sorted |-> k.sorted, merged |-> k.merged]
        /\ k.strings = n /\ k.quick = h.quick /\ k.slow = h.slow
        /\ k.nodes = h.nodes /\ k.sorted = h.sorted /\ k.merged = h.merged
    BY <2>2
  <2>4. n \in Nat
    BY <2>1 DEF n
  <2> QED BY <2>3, <2>4 DEF Counted
<1> HIDE DEF k
<1>2. CountedParts(base)
  BY <1>1 DEF CountedParts
<1>3. CASE v.kind = "string"
  <2>1. parts = <<v>>
    BY <1>3
  <2> HIDE DEF base, parts
  <2>2. /\ Len(parts) \in Nat /\ DOMAIN parts = 1 .. Len(parts)
        /\ \A i \in DOMAIN parts : OfCharacters(parts[i])
    BY <2>1 DEF IsOfText
  <2>3. CountedParts(st)
    BY <1>2, <2>2, AllPartsFacts
  <2> HIDE DEF st
  <2>4. "string" \in {"string", "complex"}
    OBVIOUS
  <2>5. Analyse(h, v) = [kind |-> "analysed", huff |-> st.h, value |-> v]
    BY Zenon, <1>3, <2>4 DEF Analyse, st, base, k, parts
  <2> QED BY <2>3, <2>5 DEF CountedParts
<1>4. CASE v.kind = "complex"
  <2>1. parts = v.parts
    BY <1>4
  <2> HIDE DEF base, parts
  <2>2. CountedParts(st)
    BY <1>2, <1>4, <2>1, AllPartsFacts DEF IsOfText
  <2> HIDE DEF st
  <2>3. v.kind \in {"string", "complex"} /\ v.kind # "string"
    BY <1>4
  <2>4. CASE st.crash
    <3>1. Analyse(h, v) = Crash
      BY Zenon, <1>4, <2>3, <2>4 DEF Analyse, st, base, k, parts
    <3> QED BY <3>1 DEF Crash
  <2>5. CASE ~st.crash /\ ~st.ok
    <3>1. Analyse(h, v) = Fail
      BY Zenon, <1>4, <2>3, <2>5 DEF Analyse, st, base, k, parts
    <3> QED BY <3>1 DEF Fail
  <2>6. CASE ~st.crash /\ st.ok
    <3>1. Analyse(h, v) = [kind |-> "analysed", huff |-> st.h, value |-> [v EXCEPT !.parts = st.parts]]
      BY Zenon, <1>4, <2>3, <2>6 DEF Analyse, st, base, k, parts
    <3> QED BY <2>2, <3>1 DEF CountedParts
  <2> QED BY <2>4, <2>5, <2>6
<1>5. CASE v.kind \notin {"string", "complex"}
  <2>1. Analyse(h, v) = Crash
    BY Zenon, <1>5 DEF Analyse
  <2> QED BY <2>1 DEF Crash
<1> QED BY <1>3, <1>4, <1>5

(* No strings are counted at first. *)
LEMMA NoStringsCounted == Counted(NoStrings)
<1> DEFINE q == [c \in {32} |-> 1]
<1>1. DOMAIN q = {32} /\ q \in [{32} -> Nat]
  OBVIOUS
<1>2. IsFiniteSet({32}) /\ {32} \in SUBSET Nat
  BY FS_Singleton
<1> HIDE DEF q
<1>3. /\ NoStrings = [strings |-> 0, quick |-> q, slow |-> <<>>, indirect |-> 0,
                      nodes |-> <<>>, sorted |-> <<>>, merged |-> <<>>]
  BY DEF NoStrings, q
<1>4. AreLeaves(<<>>)
  BY DEF AreLeaves, Elements
<1> QED BY <1>1, <1>2, <1>3, <1>4 DEF Counted

(* What evaluating the operands can come to. *)
LEMMA ArgumentsFacts ==
  ASSUME NEW env, NEW ctx, NEW parts, DOMAIN parts \in SUBSET Nat
  PROVE  ExpressionsInNode(env, ctx, parts).kind \in {"parts", "fail", "crash"}
PROOF
<1> DEFINE new == [i \in DOMAIN parts |-> InArgument(env, ctx, parts[i])]
           bad == {i \in DOMAIN parts : new[i].kind \in {"fail", "crash"}}
           least == CHOOSE i \in bad : \A j \in bad : i <= j
<1>1. ExpressionsInNode(env, ctx, parts)
        = IF bad = {} THEN [kind |-> "parts", parts |-> <<>> \o new] ELSE new[least]
  BY DEF ExpressionsInNode, Parts
<1>2. CASE bad = {}
  BY <1>1, <1>2
<1>3. CASE bad # {}
  <2>1. bad \in SUBSET Nat
    OBVIOUS
  <2> DEFINE B == bad
  <2>2. \A i \in B : new[i].kind \in {"fail", "crash"}
    OBVIOUS
  <2> HIDE DEF B, new
  <2>3. \E i \in B : \A j \in B : i <= j
    BY <1>3, <2>1, LeastOf DEF B
  <2>4. least \in B
    BY <2>3 DEF B
  <2> QED BY <1>1, <1>3, <2>2, <2>4
<1> QED BY <1>2, <1>3

\* Counts before the tree, a sound tree from then on.
TreeInv ==
  /\ phase \in {"load", "constants", "analyse"} => Counted(huff)
  /\ phase \in {"build", "encode"} => SoundTree(huff)

(* Counting goes on until the tree is begun, and every step keeps it sound. *)
LEMMA TreeInvKept == TreeInv /\ CountsText /\ [Next]_vars => TreeInv'
PROOF
<1> SUFFICES ASSUME TreeInv, CountsText, [Next]_vars
             PROVE  TreeInv'
  OBVIOUS
<1>1. CASE LoadLine
  <2>1. phase = "load" /\ phase' \in {"load", "aborted"} /\ huff' = huff
    BY <1>1 DEF LoadLine
  <2> QED BY <2>1 DEF TreeInv
<1>2. CASE EndOfSource \/ CyclicConstants
  BY <1>2 DEF EndOfSource, CyclicConstants, TreeInv
<1>3. CASE EvalConstantPass
  <2>1. phase = "constants" /\ phase' \in {"aborted", "analyse", "refused", "constants"} /\ huff' = huff
    <3> DEFINE new  == FoldLeft(EvalConstant, values, SelectSeq(source.order, LAMBDA name : name \in DOMAIN read.raw))
               done == \A name \in DOMAIN values : values[name] # Unknown
               ok   == read.ok /\ \A name \in DOMAIN values : new[name] # Fail
               bad  == \E name \in DOMAIN values : new[name] = Crash
    <3>1. /\ phase = "constants" /\ huff' = huff
          /\ phase' = CASE bad -> "aborted"
                        [] done /\ ok -> "analyse"
                        [] done /\ ~ok -> "refused"
                        [] OTHER -> "constants"
      BY Zenon, <1>3 DEF EvalConstantPass
    <3> HIDE DEF done, ok, bad
    <3> QED BY <3>1
  <2> QED BY <2>1 DEF TreeInv
<1>4. CASE AnalyseString
  <2>1. phase = "analyse" /\ IsText /\ Counted(huff)
    BY <1>4 DEF AnalyseString, TreeInv
  <2> DEFINE args == ExpressionsInNode(Env(NoFunction), "resolve", Item.args)
             v    == SimplifyAll(args.parts[1])
  <2>2. /\ args.kind \in {"parts", "fail", "crash"}
        /\ args.kind = "parts" /\ Item.type = "huffstr" => IsOfText(v)
    BY <2>1, ArgumentsFacts DEF CountsText
  <2>3. \/ ItemFails(Analysed(args)) /\ UNCHANGED huff
        \/ Analysed(args).kind = "analysed" /\ huff' = Analysed(args).huff /\ UNCHANGED phase
    BY <1>4 DEF AnalyseString
  <2> HIDE DEF args, v
  <2>4. CASE ItemFails(Analysed(args)) /\ UNCHANGED huff
    <3>1. phase' \in {"analyse", "aborted"} /\ huff' = huff
      BY <2>1, <2>4 DEF ItemFails, Stops
    <3> QED BY <2>1, <3>1 DEF TreeInv
  <2>5. CASE Analysed(args).kind = "analysed" /\ huff' = Analysed(args).huff /\ UNCHANGED phase
    <3>1. ASSUME args.kind # "parts" PROVE FALSE
      <4>1. Analysed(args) = args
        BY Zenon, <3>1 DEF Analysed
      <4> QED BY <2>2, <2>5, <3>1, <4>1
    <3>2. CASE args.kind = "parts" /\ Item.type = "huffstr"
      <4>1. Analysed(args) = Analyse(huff, v)
        BY Zenon, <3>2 DEF Analysed, v
      <4>2. Counted(Analyse(huff, v).huff)
        BY <2>1, <2>2, <2>5, <3>2, <4>1, AnalyseFacts
      <4> QED BY <2>1, <2>5, <4>1, <4>2 DEF TreeInv
    <3>3. CASE args.kind = "parts" /\ Item.type # "huffstr"
      <4>1. Analysed(args) = [kind |-> "analysed", huff |-> huff, value |-> v]
        BY Zenon, <3>3 DEF Analysed, v
      <4> QED BY <2>1, <2>5, <4>1 DEF TreeInv
    <3> QED BY <3>1, <3>2, <3>3
  <2> QED BY <2>3, <2>4, <2>5
<1>5. CASE EncodeString
  BY <1>5 DEF EncodeString, TreeInv
<1>6. CASE SkipItem
  BY <1>6 DEF SkipItem, TreeInv
<1>7. CASE EndOfStrings
  <2>1. /\ phase \in {"analyse", "encode"}
        /\ phase' = CASE ~read.ok -> "refused"
                      [] read.ok /\ phase = "analyse" /\ huff.strings > 0 -> "build"
                      [] OTHER -> "resolve"
        /\ huff' = IF phase' = "build" THEN StartTree(huff) ELSE huff
    BY <1>7 DEF EndOfStrings
  <2>2. CASE read.ok /\ phase = "analyse" /\ huff.strings > 0
    <3>1. phase' = "build" /\ huff' = StartTree(huff) /\ Counted(huff)
      BY <2>1, <2>2 DEF TreeInv
    <3> QED BY <3>1, StartTreeFacts DEF TreeInv
  <2>3. CASE ~(read.ok /\ phase = "analyse" /\ huff.strings > 0)
    <3>1. phase' \in {"refused", "resolve"}
      BY <2>1, <2>3
    <3> QED BY <3>1 DEF TreeInv
  <2> QED BY <2>2, <2>3
<1>8. CASE MergeNodes
  <2>1. phase = "build" /\ SoundTree(huff) /\ MoreThanOne(huff)
    BY <1>8 DEF MergeNodes, TreeInv
  <2>2. MergeLowest(huff) # Crash /\ SoundTree(MergeLowest(huff).huff)
    BY <2>1, MergeLowestFacts
  <2>3. huff' = MergeLowest(huff).huff /\ phase' \in {"build", "aborted"}
    BY <1>8, <2>1, <2>2 DEF MergeNodes, Stops
  <2> QED BY <2>1, <2>2, <2>3 DEF TreeInv
<1>9. CASE EndOfTree
  <2>1. SoundTree(huff) /\ ~MoreThanOne(huff) /\ huff' = FinishTree(huff) /\ phase' = "encode"
    BY <1>9 DEF EndOfTree, TreeInv
  <2> QED BY <2>1, FinishTreeFacts DEF TreeInv
<1>10. CASE ResolveNode
  BY <1>10 DEF ResolveNode, ItemFails, Stops, TreeInv
<1>11. CASE ResolveSection
  BY <1>11 DEF ResolveSection, TreeInv
<1>12. CASE AssembleHeader \/ WriteStringTable \/ AssembleSection \/ CloseOutput
  BY <1>12 DEF AssembleHeader, WriteStringTable, AssembleSection, CloseOutput, TreeInv
<1>13. CASE AssembleNode
  BY <1>13 DEF AssembleNode, Stops, TreeInv
<1>14. CASE Stopped \/ UNCHANGED vars
  BY <1>14 DEF Stopped, vars, TreeInv
<1> QED
  BY <1>1, <1>2, <1>3, <1>4, <1>5, <1>6, <1>7, <1>8, <1>9, <1>10, <1>11, <1>12, <1>13, <1>14 DEF Next

(* The tree of compressed strings (HUFF_BuildTree): if what is counted is text, it is   *)
(* sound from its sorted leaves on, after every merge and when it is done, for any      *)
(* number of strings of any characters, and the assertion that ends the program when a  *)
(* merged node is lighter than those before never fails.                                *)
THEOREM TreeStaysSound == Spec /\ []CountsText => []TreeSound
PROOF
<1>1. Init => TreeInv
  BY NoStringsCounted DEF Init, TreeInv
<1>2. TreeInv => TreeSound
  BY MergeLowestFacts DEF TreeInv, TreeSound
<1> QED
  BY <1>1, <1>2, TreeInvKept, PTL DEF Spec

=============================================================================

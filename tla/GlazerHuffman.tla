--------------------------- MODULE GlazerHuffman ---------------------------
(***************************************************************************)
(* The compression of `huffstr` strings: the characters are counted, a     *)
(* tree is merged from them, and each string becomes the bits of the ways  *)
(* to its characters and to the terminator.                                *)
(*                                                                         *)
(* A leaf is a character, the terminator or an indirect string; each       *)
(* indirect string is a leaf of its own, numbered as it was met, and keeps *)
(* the expressions it was written with.  A node of the tree is known by    *)
(* its place in the sequence of nodes; 0 is no node.                       *)
(***************************************************************************)
EXTENDS GlazerEval

CONSTANT QuickChars   \* characters below this are kept in an array, 8192 in the code

ASSUME QuickAssumption == QuickChars \in Nat

Leaf(kind, ch, weight, part) ==
  [kind |-> kind, ch |-> ch, weight |-> weight, part |-> part, left |-> 0, right |-> 0, up |-> 0]
Branch(weight, left, right) ==
  [kind |-> "branch", ch |-> 0, weight |-> weight, part |-> <<>>,
   left |-> left, right |-> right, up |-> 0]

\* There is always a character, a space.
NoStrings ==
  [strings |-> 0, quick |-> [c \in {32} |-> 1], slow |-> <<>>, indirect |-> 0,
   nodes |-> <<>>, sorted |-> <<>>, merged |-> <<>>]

----------------------------------------------------------------------------
(* Counting. *)

AddSlow(h, leaf) == [h EXCEPT !.slow = <<leaf>> \o @]

AddChar(h, c) ==
  LET at == {i \in DOMAIN h.slow : h.slow[i].kind = "char" /\ h.slow[i].ch = c}
  IN  CASE c < QuickChars /\ c \in DOMAIN h.quick -> [h EXCEPT !.quick[c] = @ + 1]
        [] c < QuickChars /\ c \notin DOMAIN h.quick ->
             [h EXCEPT !.quick = [d \in DOMAIN @ \union {c} |-> IF d = c THEN 1 ELSE @[d]]]
        [] c >= QuickChars /\ at # {} ->
             [h EXCEPT !.slow[CHOOSE i \in at : TRUE].weight = @ + 1]
        [] c >= QuickChars /\ at = {} -> AddSlow(h, Leaf("char", c, 1, <<>>))

AnalyseStr(h, chars) == FoldLeft(AddChar, h, chars)

Digits[n \in Nat] == (IF n < 10 THEN <<>> ELSE Digits[n \div 10]) \o <<48 + (n % 10)>>
Decimal(n) == (IF n < 0 THEN <<45>> ELSE <<>>) \o Digits[Abs(n)]
SpecialName(s) == CASE s = "NAN" -> <<78, 65, 78>>
                    [] OTHER -> <<IF s = "-INFINITY" THEN 45 ELSE 43>>
                                \o <<73, 78, 70, 73, 78, 73, 84, 89>>

\* What is not text in a complex string becomes text (floats in fixed point).
Simplify(v) ==
  CASE v.kind = "char"    -> String(<<v.num>>)
    [] v.kind = "integer" -> String(Decimal(v.num))
    [] v.kind = "float"   -> String(IF v.flt = 0 THEN <<48, 46, 48>>
                                    ELSE Decimal(v.flt) \o <<46, 48, 48, 48, 48, 48, 48>>)
    [] v.kind = "fltspec" -> String(SpecialName(v.spec))
    [] OTHER -> v

SimplifyAll(v) == IF v.kind = "complex" THEN [v EXCEPT !.parts = [i \in DOMAIN @ |-> Simplify(@[i])]] ELSE v

\* An indirect string gets the number of its leaf, which is found by it later.
AnalysePart(st, part) ==
  CASE part.kind = "string" -> [st EXCEPT !.h = AnalyseStr(@, part.chars), !.parts = Append(@, part)]
    [] part.kind = "indirect" ->
         LET n == st.h.indirect + 1
         IN  [st EXCEPT !.h = AddSlow([@ EXCEPT !.indirect = n], Leaf("indirect", n, 1, part.parts)),
                        !.parts = Append(@, [part EXCEPT !.ref = n])]
    [] part.kind = "address" -> [st EXCEPT !.ok = FALSE]
    [] OTHER -> [st EXCEPT !.crash = TRUE]

\* The counts after a string, and the string with its numbers.
Analyse(h, v) ==
  LET parts == IF v.kind = "string" THEN <<v>> ELSE v.parts
      st    == FoldLeft(AnalysePart, [h |-> [h EXCEPT !.strings = @ + 1], parts |-> <<>>,
                                      ok |-> TRUE, crash |-> FALSE], parts)
  IN  CASE v.kind \notin {"string", "complex"} -> Crash
        [] v.kind = "string" -> [kind |-> "analysed", huff |-> st.h, value |-> v]
        [] v.kind = "complex" ->
             CASE st.crash -> Crash
               [] ~st.crash /\ ~st.ok -> Fail
               [] OTHER -> [kind |-> "analysed", huff |-> st.h, value |-> [v EXCEPT !.parts = st.parts]]

----------------------------------------------------------------------------
(***************************************************************************)
(* The leaves are sorted by a merge sort that deals them out from the      *)
(* front, last first, and merges with the list it took from last.          *)
(***************************************************************************)

(* Mutant: the heavier goes first when the lists change over. *)
SwapWrong(weight, l, r) == l = <<>> \/ (r # <<>> /\ weight[l[1]] < weight[r[1]])

Swap(weight, l, r) == l = <<>> \/ (r # <<>> /\ weight[l[1]] > weight[r[1]])

MergeSorted(weight, left, right) ==
  LET Take(st, i) ==
        LET s == IF Swap(weight, st.l, st.r) THEN [st EXCEPT !.l = st.r, !.r = st.l] ELSE st
        IN  [l |-> Tail(s.l), r |-> s.r, out |-> Append(s.out, s.l[1])]
  IN  FoldLeftDomain(Take, [l |-> left, r |-> right, out |-> <<>>], left \o right).out

SortByWeight(weight, ids) ==
  LET Sort[s \in Seq(Nat)] ==
        LET n == Len(s)
        IN  IF n <= 1 THEN s
            ELSE MergeSorted(weight, Sort[[k \in 1 .. n \div 2 |-> s[n + 1 - 2 * k]]],
                                     Sort[[k \in 1 .. (n + 1) \div 2 |-> s[n + 2 - 2 * k]]])
  IN  Sort[ids]

\* The slow list from its end, then the characters from the highest, then the terminator.
Leaves(h) ==
  Reverse(h.slow)
  \o Reverse([i \in 1 .. Cardinality(DOMAIN h.quick) |->
                LET c == CHOOSE c \in DOMAIN h.quick :
                           Cardinality({d \in DOMAIN h.quick : d < c}) = i - 1
                IN  Leaf("char", c, h.quick[c], <<>>)])
  \o <<Leaf("terminator", 0, h.strings, <<>>)>>

StartTree(h) ==
  LET leaves == <<>> \o Leaves(h)
  IN  [h EXCEPT !.nodes = leaves,
                !.sorted = SortByWeight([i \in DOMAIN leaves |-> leaves[i].weight],
                                        [i \in DOMAIN leaves |-> i])]

(* Mutant: a merged node goes before a leaf of the same weight, and before any other. *)
MergedFirst(h) == h.merged # <<>>

\* The lower of the first of both lists, a leaf when they are equal.
FromMerged(h) ==
  h.sorted = <<>>
  \/ (h.merged # <<>> /\ h.nodes[h.merged[1]].weight < h.nodes[h.sorted[1]].weight)

LowestOf(h) == IF FromMerged(h) THEN h.merged[1] ELSE h.sorted[1]
PopLowest(h) == IF FromMerged(h) THEN [h EXCEPT !.merged = Tail(@)] ELSE [h EXCEPT !.sorted = Tail(@)]

MoreThanOne(h) == Len(h.sorted) + Len(h.merged) >= 2

\* The two lowest nodes become one, at the end of the merged list; the
\* program asserts that it is not lighter than the last one there.
MergeLowest(h) ==
  LET left  == LowestOf(h)
      h1    == PopLowest(h)
      right == LowestOf(h1)
      h2    == PopLowest(h1)
      new   == Len(h.nodes) + 1
      weight == h.nodes[left].weight + h.nodes[right].weight
  IN  IF h2.merged # <<>> /\ weight < h.nodes[Last(h2.merged)].weight THEN Crash
      ELSE [kind |-> "merged",
            huff |-> [h2 EXCEPT !.nodes = Append([@ EXCEPT ![left].up = new, ![right].up = new],
                                                 Branch(weight, left, right)),
                                !.merged = Append(@, new)]]

FinishTree(h) == IF h.sorted # <<>> THEN [h EXCEPT !.merged = @ \o h.sorted, !.sorted = <<>>] ELSE h

HasTree(h) == h.merged # <<>>
RootOf(h) == h.merged[1]

----------------------------------------------------------------------------
(* Encoding. *)

(* Mutant: left is 1. *)
TurnedBit(nodes, n) == IF nodes[nodes[n].up].left = n THEN 1 ELSE 0

BitOf(nodes, n) == IF nodes[nodes[n].up].right = n THEN 1 ELSE 0

CodeOf(nodes, leaf) ==
  LET Code[n \in Nat] == IF nodes[n].up = 0 THEN <<>> ELSE Append(Code[nodes[n].up], BitOf(nodes, n))
  IN  Code[leaf]

LeafOf(nodes, kind, ch) == CHOOSE n \in DOMAIN nodes : nodes[n].kind = kind /\ nodes[n].ch = ch

\* The leaves a string goes through.
LeavesOfPart(nodes, part) ==
  CASE part.kind = "string" -> [i \in DOMAIN part.chars |-> LeafOf(nodes, "char", part.chars[i])]
    [] part.kind = "indirect" -> <<LeafOf(nodes, "indirect", part.ref)>>

Encode(nodes, v) ==
  LET parts  == IF v.kind = "string" THEN <<v>> ELSE v.parts
      leaves == FlattenSeq([i \in DOMAIN parts |-> LeavesOfPart(nodes, parts[i])])
                \o <<LeafOf(nodes, "terminator", 0)>>
  IN  FlattenSeq([i \in DOMAIN leaves |-> CodeOf(nodes, leaves[i])])

BytesOfBits(bits) ==
  [b \in 1 .. (Len(bits) + 7) \div 8 |->
    FoldLeftDomain(LAMBDA sum, k :
                     LET i == 8 * (b - 1) + k IN sum + (IF i <= Len(bits) THEN bits[i] * 2 ^ (k - 1) ELSE 0),
                   0, [k \in 1 .. 8 |-> k])]

----------------------------------------------------------------------------
(***************************************************************************)
(* The table: its length, the number of nodes and the root, then the nodes *)
(* with every branch after its two sides.                                  *)
(***************************************************************************)

TableHead == 12

PostOrder(nodes, root) ==
  LET Walk[n \in Nat] == IF nodes[n].kind = "branch"
                         THEN Walk[nodes[n].left] \o Walk[nodes[n].right] \o <<n>> ELSE <<n>>
  IN  Walk[root]

(* Mutant: the count of the arguments is not measured. *)
NodeSizeNoCount(node) ==
  CASE node.kind = "branch" -> 9
    [] node.kind = "terminator" -> 1
    [] node.kind = "char" -> IF node.ch < 256 THEN 2 ELSE 5
    [] node.kind = "indirect" -> 5 + 4 * (Len(node.part) - 1)

NodeSize(node) ==
  CASE node.kind = "branch" -> 9
    [] node.kind = "terminator" -> 1
    [] node.kind = "char" -> IF node.ch < 256 THEN 2 ELSE 5
    [] node.kind = "indirect" -> IF Len(node.part) = 1 THEN 5 ELSE 5 + 4 + 4 * (Len(node.part) - 1)

\* The measured place of each node, and the whole table.
MeasureTable(h, start) ==
  IF ~HasTree(h) THEN [start |-> 0, end |-> start, order |-> <<>>, places |-> <<>>]
  ELSE LET order == PostOrder(h.nodes, RootOf(h))
           Put(st, i) == [places |-> (order[i] :> st.at) @@ st.places,
                          at |-> st.at + NodeSize(h.nodes[order[i]])]
           st == FoldLeftDomain(Put, [places |-> <<>>, at |-> start + TableHead], order)
       IN  [start |-> start, end |-> st.at, order |-> order, places |-> st.places]
----------------------------------------------------------------------------
(***************************************************************************)
(* What the lists and the nodes are between two merges.                    *)
(***************************************************************************)

Queued(h) == {h.sorted[i] : i \in DOMAIN h.sorted} \union {h.merged[i] : i \in DOMAIN h.merged}

Ascending(nodes, list) ==
  \A i, j \in DOMAIN list : i <= j => nodes[list[i]].weight <= nodes[list[j]].weight

\* No waiting node is lighter than half the last that was merged: the two that were
\* merged were the lightest. So two that wait are together not lighter than it.
NoneLighter(h) ==
  \A i \in DOMAIN h.merged : \A n \in Queued(h) : h.nodes[h.merged[i]].weight <= 2 * h.nodes[n].weight

\* No node waits twice.
WaitOnce(h) ==
  /\ \A i, j \in DOMAIN h.sorted : h.sorted[i] = h.sorted[j] => i = j
  /\ \A i, j \in DOMAIN h.merged : h.merged[i] = h.merged[j] => i = j
  /\ \A i \in DOMAIN h.sorted : \A j \in DOMAIN h.merged : h.sorted[i] # h.merged[j]

\* A branch has two sides, which know it and are older, so that there is a way up from
\* each node that ends, and a node is on one side of the one above it.
Linked(nodes) ==
  /\ \A n \in DOMAIN nodes : nodes[n].kind = "branch" =>
       /\ {nodes[n].left, nodes[n].right} \subseteq 1 .. n - 1
       /\ nodes[n].left # nodes[n].right
       /\ nodes[nodes[n].left].up = n /\ nodes[nodes[n].right].up = n
  /\ \A n \in DOMAIN nodes : nodes[n].up # 0 =>
       /\ nodes[n].up \in n + 1 .. Len(nodes)
       /\ nodes[nodes[n].up].kind = "branch"
       /\ n \in {nodes[nodes[n].up].left, nodes[nodes[n].up].right}

IsNode(r) ==
  /\ r = [kind |-> r.kind, ch |-> r.ch, weight |-> r.weight, part |-> r.part,
          left |-> r.left, right |-> r.right, up |-> r.up]
  /\ {r.weight, r.left, r.right, r.up} \subseteq Nat

HasNodes(h) ==
  /\ h = [strings |-> h.strings, quick |-> h.quick, slow |-> h.slow, indirect |-> h.indirect,
          nodes |-> h.nodes, sorted |-> h.sorted, merged |-> h.merged]
  /\ h.nodes \in Seq({h.nodes[n] : n \in DOMAIN h.nodes})
  /\ \A n \in DOMAIN h.nodes : IsNode(h.nodes[n])
  /\ {h.sorted, h.merged} \subseteq Seq(DOMAIN h.nodes)

Lists(h) ==
  /\ HasNodes(h)
  /\ Ascending(h.nodes, h.sorted) /\ Ascending(h.nodes, h.merged)
  /\ NoneLighter(h) /\ WaitOnce(h)

\* The nodes that wait are those with nothing above them.
SoundTree(h) ==
  /\ Lists(h)
  /\ Queued(h) = {n \in DOMAIN h.nodes : h.nodes[n].up = 0}
  /\ Linked(h.nodes)
=============================================================================

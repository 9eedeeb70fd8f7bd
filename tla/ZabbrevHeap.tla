---------------------------- MODULE ZabbrevHeap ----------------------------
(***************************************************************************)
(* zabbrev's heap: a sequence of the names of patterns, the one with the   *)
(* greatest savings on top, of equals the one with the smaller key.  What  *)
(* a name stands for is in a function, since the program keeps pointers    *)
(* and changes patterns that are in a heap.                                *)
(***************************************************************************)
EXTENDS ZabbrevText

\* strcmp: the order of bytes, a prefix before what it begins.
StringBefore(s, t) ==
  \E n \in 0 .. Len(s) :
    /\ n < Len(t)
    /\ SubSeq(s, 1, n) = SubSeq(t, 1, n)
    /\ n < Len(s) => s[n + 1] < t[n + 1]

Above(pats, a, b) ==
  \/ pats[a].savings > pats[b].savings
  \/ pats[a].savings = pats[b].savings /\ StringBefore(pats[a].key, pats[b].key)

\* An element swapped along a path of places, from its first one to its last.
MovedAlong(heap, path, from, to) ==
  [i \in DOMAIN heap |->
    CASE i = to -> heap[from]
      [] i \in path \ {to} ->
           heap[CHOOSE j \in path : IF from > to THEN j = i \div 2 ELSE j \div 2 = i]
      [] OTHER -> heap[i]]

\* The last element rises to the first place whose parent it is not above.
SiftUp(pats, heap) ==
  LET last == Len(heap)
      risen[i \in 0 .. last] ==
        IF i > 1 /\ Above(pats, heap[last], heap[i \div 2]) THEN {i} \union risen[i \div 2] ELSE {i}
  IN  MovedAlong(heap, risen[last], last, Min(risen[last]))

\* The greater child of place i, if it is above the first element, sinking to i; else i.
(* Mutant: does not look at the right child. *)
OntoLeft(pats, heap, i) ==
  IF 2 * i <= Len(heap) /\ Above(pats, heap[2 * i], heap[1]) THEN 2 * i ELSE i

Onto(pats, heap, i) ==
  LET Larger(a, largest, j) == IF j <= Len(heap) /\ Above(pats, heap[j], a) THEN j ELSE largest
      left == Larger(heap[1], i, 2 * i)
  IN  Larger(IF left = i THEN heap[1] ELSE heap[left], left, 2 * i + 1)

\* The first element sinks as long as a child is above it.
SiftDown(pats, heap) ==
  LET sunk[i \in DOMAIN heap] ==
        LET next == Onto(pats, heap, i) IN IF next = i THEN {i} ELSE {i} \union sunk[next]
  IN  IF heap = <<>> THEN heap ELSE MovedAlong(heap, sunk[1], 1, Max(sunk[1]))

Push(pats, heap, a) == SiftUp(pats, Append(heap, a))

PushAll(pats, heap, list) == FoldLeft(LAMBDA h, a : Push(pats, h, a), heap, list)

\* The heap without its top.
Popped(pats, heap) ==
  SiftDown(pats, IF Len(heap) = 1 THEN <<>> ELSE <<Last(heap)>> \o SubSeq(heap, 2, Len(heap) - 1))

Peek(heap) == heap[1]

\* The order in which a heap comes out as it is emptied.
Drained(pats, heap) ==
  LET Step(at, step) == [heap |-> Popped(pats, at.heap), out |-> Append(at.out, Peek(at.heap))]
  IN  FoldLeftDomain(Step, [heap |-> heap, out |-> <<>>], heap).out

----------------------------------------------------------------------------
(***************************************************************************)
(* The table of patterns: buckets in the order of the hash, in a bucket    *)
(* the pattern that came last is first.                                    *)
(***************************************************************************)
Buckets == 65536

HashBucket(key) == FoldLeft(LAMBDA h, c : (33 * h + c) % Buckets, 5381, key)

\* Keys are put into the table in their order, so that of a bucket the last is first.
InTableOrder(keys) ==
  Ordered(keys, LAMBDA s, t : \/ HashBucket(s) < HashBucket(t)
                              \/ HashBucket(s) = HashBucket(t) /\ StringBefore(t, s))
=============================================================================
